----------------------------- MODULE MCAccessKeys ----------------------------
EXTENDS AccessKeys, Listing, TLC

CONSTANTS p1, a, b

OneProfile == [c \in Clients |-> p1]
Symmetry   == Permutations({a, b}) \cup Permutations(Sessions)

-----------------------------------------------------------------------------
(* The functions of Listing, over up to five rows; TLC evaluates what is    *)
(* assumed.                                                                 *)

Rowids    == 1 .. 5
Histories == [1 .. 3 -> SUBSET Rowids]
Queries   == [cursor : {Absent, Malformed} \cup -1 .. 6, limit : {Absent} \cup -1 .. 4]
Tables    == UNION {[D -> [state : States]] : D \in SUBSET (1 .. 3)}

\* NoRowIsMissed, ReadingEnds.
ASSUME ListsAreRead == NoRowIsMissed(Histories) /\ ReadingEnds(Histories)

\* CursorsAreGood, FiltersDivide.
ASSUME PagesAreGood ==
  /\ CursorsAreGood(SUBSET Rowids, Queries)
  /\ FiltersDivide(Tables, [cursor |-> Absent, limit |-> 3], States \cup {"no state"})

\* A list of keys or of profiles has each row that is not deleted, and no other.
ASSUME DeletedAreHidden ==
  \A table \in UNION {[D -> [role : {"client", "admin"}, deleted : BOOLEAN]] : D \in SUBSET (1 .. 2)} :
    \A shows \in {[k \in 1 .. 2 |-> ListClientKeys(table)], [k \in 1 .. 2 |-> ListProfiles(table)]} :
      /\ ToSet(RunList(shows, [cursor |-> Absent, limit |-> Absent])) = shows[1]
      /\ \A r \in shows[1] : ~table[r].deleted
=============================================================================
