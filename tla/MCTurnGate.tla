----------------------------- MODULE MCTurnGate -----------------------------
(* Instances of TurnGate for TLC. *)
EXTENDS TurnGate, TLC

\* Requests and clients are interchangeable; used by safety runs only.
Interchangeable == Permutations(Reqs) \cup Permutations(Clients)
=============================================================================
