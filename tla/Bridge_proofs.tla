---------------------------- MODULE Bridge_proofs ----------------------------
(***************************************************************************)
(* The bridge, for any viewers, any log, any number of streams, lags and   *)
(* faults: its types, that it joins once, that it has one stream, and that *)
(* what a viewer sees follows the log.                                     *)
(*                                                                         *)
(* The invariant says how far a state object has got (Phases), who is      *)
(* attached to which (Attached), which stream an object holds (Held), what *)
(* the map's object is alone in doing (Alone), and what a viewer has got   *)
(* and keeps at each point of its set-up (Reading).                        *)
(*                                                                         *)
(* flushPending is a loop: that the recursive function that models it      *)
(* exists, and what holds of it after n rounds, is by Induction.           *)
(***************************************************************************)
EXTENDS Bridge, Induction, SequenceTheorems

LEMMA LogBound == LastEvent \in Nat /\ LastEvent = MaxLog + MaxFaults + 2
  BY BridgeAssumption DEF LastEvent

Rising(q) == \A i, j \in 1 .. Len(q) : i < j => q[i] < q[j]

-----------------------------------------------------------------------------
Views == [pc : {"off", "history", "wait", "live", "over"}, of : Viewers \cup {None},
          hist : 0 .. LastEvent, got : Seq(Events), pending : Seq(Events),
          socket : {"none", "open", "closing", "closed"}, told : {"no", "closed", "error"}]

\* flushPending, step by step.
LEMMA FlushSteps ==
  ASSUME NEW w \in Views
  PROVE  \E sent \in [0 .. Len(w.pending) -> Seq(Events)] :
           /\ sent[0] = w.got
           /\ \A n \in 1 .. Len(w.pending) :
                sent[n] = IF w.pending[n] \in ToSet(sent[n - 1]) THEN sent[n - 1]
                          ELSE Append(sent[n - 1], w.pending[n])
           /\ Flush(w) = [w EXCEPT !.got = IF w.socket = "open" THEN sent[Len(w.pending)] ELSE @,
                                   !.pending = <<>>]
<1> DEFINE N == Len(w.pending)
           S == Seq(Events)
           F == [n \in 1 .. N |-> [q \in S |-> IF w.pending[n] \in ToSet(q) THEN q
                                               ELSE Append(q, w.pending[n])]]
           Is(f) == f = [n \in 0 .. N |->
                           IF n = 0 THEN w.got
                           ELSE IF w.pending[n] \in ToSet(f[n - 1]) THEN f[n - 1]
                                ELSE Append(f[n - 1], w.pending[n])]
<1>1. w.got \in S /\ w.pending \in S /\ N \in Nat /\ \A n \in 1 .. N : w.pending[n] \in Events
  BY DEF Views
<1>2. Rule(F, S, N)
  BY <1>1 DEF Rule
<1>a. PICK f : Obeys(f, w.got, F, S, N)
  <2> HIDE DEF S, F, N
  <2>. QED
    BY <1>1, <1>2, Recursion
<1>3. f \in [0 .. N -> S] /\ f[0] = w.got /\ \A n \in 1 .. N : f[n] = F[n][f[n - 1]]
  BY <1>a DEF Obeys
<1>4. ASSUME NEW n \in 1 .. N
      PROVE  F[n][f[n - 1]] = IF w.pending[n] \in ToSet(f[n - 1]) THEN f[n - 1]
                              ELSE Append(f[n - 1], w.pending[n])
  <2>1. n - 1 \in 0 .. N
    BY <1>1
  <2>2. f[n - 1] \in S
    BY <1>3, <2>1
  <2>. QED
    BY <2>2
<1>5. Is(f)
  <2> HIDE DEF F, S, N
  <2>1. ASSUME NEW n \in 0 .. N, n # 0
        PROVE  f[n] = IF w.pending[n] \in ToSet(f[n - 1]) THEN f[n - 1] ELSE Append(f[n - 1], w.pending[n])
    <3>1. n \in 1 .. N
      BY <1>1, <2>1
    <3>. QED
      BY Zenon, <1>3, <1>4, <3>1
  <2>. QED
    BY <1>3, <2>1
<1> DEFINE sent == CHOOSE g : Is(g)
<1>6. Is(sent)
  BY Zenon, <1>5
<1>7. Flush(w) = [w EXCEPT !.got = IF w.socket = "open" THEN sent[Len(w.pending)] ELSE @,
                                   !.pending = <<>>]
  BY DEF Flush
<1>8. /\ sent[0] = w.got
      /\ \A n \in 1 .. N : sent[n] = IF w.pending[n] \in ToSet(sent[n - 1]) THEN sent[n - 1]
                                     ELSE Append(sent[n - 1], w.pending[n])
  <2> HIDE DEF sent, N
  <2>1. sent[0] = w.got
    BY <1>1, <1>6
  <2>2. ASSUME NEW n \in 1 .. N
        PROVE  sent[n] = IF w.pending[n] \in ToSet(sent[n - 1]) THEN sent[n - 1]
                         ELSE Append(sent[n - 1], w.pending[n])
    <3>1. n \in 0 .. N /\ n # 0
      BY <1>1
    <3>. QED
      BY <1>6, <3>1
  <2>. QED
    BY <2>1, <2>2
<1>9. \A n \in 0 .. N : sent[n] \in S
  <2> HIDE DEF sent, S, N
  <2> DEFINE G == {n \in 0 .. N : sent[n] \in S}
  <2>1. G \in SUBSET Nat
    OBVIOUS
  <2>2. 0 \in G
    BY <1>1, <1>8
  <2>3. ASSUME NEW n \in 1 .. N, n - 1 \in G
        PROVE  n \in G
    <3>1. sent[n - 1] \in Seq(Events) /\ w.pending[n] \in Events
      BY <1>1, <2>3 DEF S
    <3>2. Append(sent[n - 1], w.pending[n]) \in Seq(Events)
      BY <3>1
    <3>3. sent[n] = sent[n - 1] \/ sent[n] = Append(sent[n - 1], w.pending[n])
      BY <1>8
    <3>4. n \in 0 .. N
      BY <1>1
    <3>. QED
      BY Zenon, <3>1, <3>2, <3>3, <3>4 DEF S
  <2>4. 0 .. N \subseteq G
    <3> HIDE DEF G
    <3>. QED
      BY <1>1, <2>1, <2>2, <2>3, Upwards
  <2>. QED
    BY <2>4
<1>10. sent \in [0 .. N -> S]
  <2> HIDE DEF sent, S
  <2>. QED
    BY <1>6, <1>9
<1> HIDE DEF sent
<1>. QED
  BY <1>7, <1>8, <1>10

\* One more event at the end of a rising sequence.
LEMMA RisingOn ==
  ASSUME NEW q \in Seq(Events), Rising(q), NEW e \in Events, \A d \in ToSet(q) : d < e
  PROVE  Rising(Append(q, e)) /\ ToSet(Append(q, e)) = ToSet(q) \cup {e}
<1>0. Events \subseteq Nat /\ e \in Nat
  BY LogBound DEF Events
<1>1. /\ Len(Append(q, e)) = Len(q) + 1 /\ Len(q) \in Nat
      /\ \A i \in 1 .. Len(q) : Append(q, e)[i] = q[i] /\ q[i] \in ToSet(q) /\ q[i] \in Events
      /\ Append(q, e)[Len(q) + 1] = e
  BY DEF ToSet
<1>2. Rising(Append(q, e))
  BY <1>1, <1>0 DEF Rising
<1>3. ToSet(Append(q, e)) = ToSet(q) \cup {e}
  <2>1. DOMAIN Append(q, e) = 1 .. Len(q) + 1 /\ DOMAIN q = 1 .. Len(q)
    OBVIOUS
  <2>. QED
    BY <1>1, <2>1 DEF ToSet
<1>. QED
  BY <1>2, <1>3

\* The numbers from a + 1 to a + n, in order.
Run(a, n) == [i \in 1 .. n |-> a + i]

LEMMA RunRises ==
  ASSUME NEW a \in Nat, NEW n \in Nat
  PROVE  Rising(Run(a, n)) /\ ToSet(Run(a, n)) = a + 1 .. a + n /\ Run(a, n) \in Seq(Nat)
<1>1. DOMAIN Run(a, n) = 1 .. n /\ Len(Run(a, n)) = n /\ Run(a, n) \in Seq(Nat)
      /\ \A i \in 1 .. n : Run(a, n)[i] = a + i
  BY DEF Run
<1>2. Rising(Run(a, n))
  BY <1>1 DEF Rising
<1>3. ASSUME NEW e \in a + 1 .. a + n
      PROVE  e \in ToSet(Run(a, n))
  <2>1. e - a \in 1 .. n /\ a + (e - a) = e
    OBVIOUS
  <2>2. \E i \in DOMAIN Run(a, n) : Run(a, n)[i] = e
    BY <1>1, <2>1
  <2>. QED
    BY <2>2 DEF ToSet
<1>4. ToSet(Run(a, n)) \subseteq a + 1 .. a + n
  BY <1>1 DEF ToSet
<1>. QED
  BY <1>1, <1>2, <1>3, <1>4

\* The history, and n events after b.
Span(h, b, n) == (1 .. h) \cup (b + 1 .. b + n)

LEMMA SpanOn ==
  ASSUME NEW h \in Nat, NEW b \in Nat, NEW n \in Nat, n >= 1
  PROVE  Span(h, b, n - 1) \cup {b + n} = Span(h, b, n)
<1>1. (b + 1 .. b + (n - 1)) \cup {b + n} = b + 1 .. b + n
  OBVIOUS
<1>. QED
  BY <1>1 DEF Span

\* The history and what was kept meanwhile make one rising sequence.
LEMMA FlushRises ==
  ASSUME NEW w \in Views, w.got = Run(0, w.hist), NEW b \in Nat, w.pending = Run(b, Len(w.pending))
  PROVE  /\ Rising(Flush(w).got)
         /\ w.socket = "open" => ToSet(Flush(w).got) = Span(w.hist, b, Len(w.pending))
<1> DEFINE N == Len(w.pending)
<1>1. w.hist \in Nat /\ w.pending \in Seq(Events) /\ N \in Nat /\ Events \subseteq Nat
  BY BridgeAssumption DEF Views, Events
<1>2. PICK sent \in [0 .. N -> Seq(Events)] :
        /\ sent[0] = w.got
        /\ \A n \in 1 .. N : sent[n] = IF w.pending[n] \in ToSet(sent[n - 1]) THEN sent[n - 1]
                                       ELSE Append(sent[n - 1], w.pending[n])
        /\ Flush(w) = [w EXCEPT !.got = IF w.socket = "open" THEN sent[N] ELSE @, !.pending = <<>>]
  BY FlushSteps
<1>3. \A n \in 1 .. N : w.pending[n] = b + n /\ w.pending[n] \in Events
  BY <1>1 DEF Run
<1> HIDE DEF N
<1> DEFINE G == {n \in 0 .. N : Rising(sent[n]) /\ ToSet(sent[n]) = Span(w.hist, b, n)}
<1>4. G \in SUBSET Nat
  OBVIOUS
<1>5. 0 \in G
  <2>1. Rising(w.got) /\ ToSet(w.got) = 1 .. w.hist
    <3>1. Rising(Run(0, w.hist)) /\ ToSet(Run(0, w.hist)) = 0 + 1 .. 0 + w.hist
      BY <1>1, RunRises
    <3>2. 0 + 1 = 1 /\ 0 + w.hist = w.hist
      BY <1>1
    <3>. QED
      BY <3>1, <3>2
  <2>2. Span(w.hist, b, 0) = 1 .. w.hist
    BY DEF Span
  <2>. QED
    BY <1>1, <1>2, <2>1, <2>2
<1>6. ASSUME NEW n \in 1 .. N, n - 1 \in G
      PROVE  n \in G
  <2> DEFINE q == sent[n - 1]
             e == b + n
  <2>1. q \in Seq(Events) /\ Rising(q) /\ ToSet(q) = Span(w.hist, b, n - 1) /\ e \in Events
    <3>1. n - 1 \in 0 .. N
      BY <1>1
    <3>2. q \in Seq(Events)
      BY <1>2, <3>1
    <3>3. w.pending[n] \in Events /\ w.pending[n] = e
      BY <1>1, <1>3
    <3>4. n - 1 \in G
      BY <1>6
    <3>. QED
      BY <3>2, <3>3, <3>4
  <2>2. sent[n] = IF e \in ToSet(q) THEN q ELSE Append(q, e)
    BY <1>2, <1>3
  <2>5. Span(w.hist, b, n - 1) \cup {b + n} = Span(w.hist, b, n)
    <3>1. n \in Nat /\ n >= 1
      BY <1>1
    <3> HIDE DEF e
    <3>. QED
      BY <1>1, <3>1, SpanOn
  <2>6. n \in 0 .. N
    BY <1>1
  <2> HIDE DEF q
  <2>3. CASE e \in ToSet(q)
    <3>1. e \in 1 .. w.hist
      BY <1>1, <2>1, <2>3 DEF Span
    <3>2. Span(w.hist, b, n - 1) \cup {b + n}
            = Span(w.hist, b, n - 1)
      BY <3>1 DEF Span
    <3>3. ToSet(q) = Span(w.hist, b, n)
      BY <2>1, <2>5, <3>2
    <3>. QED
      BY <2>1, <2>2, <2>3, <2>6, <3>3
  <2>4. CASE e \notin ToSet(q)
    <3>1. \A d \in ToSet(q) : d < e
      BY SMTT(60), <1>1, <2>1, <2>4 DEF Span
    <3>2. Rising(Append(q, e)) /\ ToSet(Append(q, e)) = ToSet(q) \cup {e}
      BY <2>1, <3>1, RisingOn
    <3>3. ToSet(q) \cup {e} = Span(w.hist, b, n)
      BY <2>1, <2>5
    <3>. QED
      BY <2>2, <2>4, <2>6, <3>2, <3>3
  <2>. QED
    BY <2>3, <2>4
<1>7. N \in G
  <2> HIDE DEF G
  <2>1. 0 .. N \subseteq G
    BY <1>1, <1>4, <1>5, <1>6, Upwards
  <2>. QED
    BY <1>1, <2>1
<1>8. Flush(w).got = IF w.socket = "open" THEN sent[N] ELSE w.got
  BY <1>2 DEF Views
<1>9. Rising(w.got)
  BY <1>1, RunRises
<1>. QED
  BY <1>7, <1>8, <1>9 DEF N
-----------------------------------------------------------------------------
(* The invariant.                                                          *)

Objects == [mode : {"none", "pending", "live", "terminal"},
            start : {"none", "scan", "mint", "join", "open", "done", "failed"},
            since : 0 .. LastEvent, last : 0 .. LastEvent, ended : {"no", "closed", "error"},
            viewers : SUBSET Viewers, handle : Streams \cup {None}]
Links   == [pc : {"none", "asked", "flowing"}, of : Viewers \cup {None},
            at : 0 .. LastEvent, late : BOOLEAN]

Shapes ==
  /\ view \in [Viewers -> Views] /\ state \in [Viewers -> Objects]
  /\ entry \in Viewers \cup {None} /\ stream \in [Streams -> Links] /\ forsaken \subseteq Viewers

\* The events there can be, and the joins among them: the one whose key the
\* bridge has, or will have, and those whose answer a fault has lost.
Counting ==
  /\ open \in BOOLEAN /\ log \in Nat /\ joined \in Nat /\ log >= 1
  /\ joined = unheard + (IF join \in {"granted", "cached"} THEN 1 ELSE 0)
  /\ unheard \in 0 .. faults
  /\ log <= MaxLog + joined + (IF open THEN 0 ELSE 1)
  /\ observer \in {"none", "asked", "minted"}
  /\ join \in {"none", "asked", "granted", "refused", "failed", "cached"}
  /\ lags \in 0 .. MaxLags /\ faults \in 0 .. MaxFaults

\* How far an object o has got, with a log of l events.
Phase(o, l) ==
  /\ o.mode = "none" => o = NoState
  /\ o.mode \in {"live", "terminal"} <=> o.start = "done"
  /\ o.start \in {"scan", "mint", "join", "open", "failed"} => o.mode = "pending"
  /\ o.mode # "live" => o.handle = None /\ o.ended = "no" /\ o.last = 0
  /\ o.mode = "live" => o.since <= o.last
  /\ o.since <= l /\ o.last <= l

Phases == \A s \in Viewers : Phase(state[s], log)

\* Who is attached to what.
Attached ==
  /\ \A v \in Viewers : view[v].pc = "off" => view[v] = NoView /\ state[v] = NoState
  /\ \A v \in Viewers : view[v].pc # "off" =>
       /\ view[v].of \in Viewers /\ state[view[v].of].mode # "none"
       /\ view[v].socket # "none"
       /\ view[v].socket = "open" => v \in state[view[v].of].viewers
  /\ \A s \in Viewers : \A v \in state[s].viewers : view[v].pc # "off" /\ view[v].of = s
  /\ entry # None => state[entry].mode # "none"

\* A stream that is up is the one its object holds.
Held ==
  /\ \A x \in Up : /\ stream[x].of \in Viewers
                   /\ state[stream[x].of].handle = x /\ state[stream[x].of].last = stream[x].at
  /\ \A s \in Viewers : state[s].handle # None =>
       state[s].handle \in Up /\ stream[state[s].handle].of = s /\ state[s].ended = "no"

\* With no object forsaken, what starts and what streams is the map's.
Alone ==
  forsaken = {} =>
    /\ \A s \in Viewers : state[s].mode = "pending" /\ state[s].start # "failed" => s = entry
    /\ \A x \in Up : stream[x].of = entry

Upper(w, o) == IF o.last > w.hist THEN o.last ELSE w.hist

\* What viewer w keeps until it is live: the events since the object's stream
\* started, or since w came, before it read the history.
Kept(w, o) ==
  LET b == o.last - Len(w.pending)
  IN  /\ o.mode # "live" => w.pending = <<>>
      /\ o.mode = "live" => o.since <= b
      /\ w.pending = Run(b, Len(w.pending))
      /\ w.hist > 0 /\ o.mode = "live" => b = o.since \/ b <= w.hist

\* What an open viewer has got, at each point of its set-up.
Got(w, o) ==
  /\ w.pc \in {"history", "wait", "live"}
  /\ w.pc = "wait" => w.got = Run(0, w.hist)
  /\ w.pc \in {"history", "wait"} => Kept(w, o)
  /\ w.pc = "live" =>
       /\ o.mode = "live" /\ o.ended = "no"
       /\ ToSet(w.got) \subseteq 1 .. Upper(w, o)
       /\ o.since <= w.hist => ToSet(w.got) = 1 .. Upper(w, o)

Reads(w, o, l) ==
  /\ w.hist <= l /\ Rising(w.got)
  /\ w.pc \in {"wait", "live"} => w.hist > 0
  /\ w.pc = "live" => o.mode # "pending"
  /\ w.socket = "open" => Got(w, o)

Reading == \A v \in Viewers : view[v].pc # "off" => Reads(view[v], state[view[v].of], log)

Core == Shapes /\ Phases /\ Attached /\ Held /\ Alone /\ Reading
Inv  == Counting /\ Core

LEMMA Tally == Counting => log \in 0 .. LastEvent /\ log \in Nat
<1> SUFFICES ASSUME Counting PROVE log \in 0 .. LastEvent /\ log \in Nat
  OBVIOUS
<1>1. joined <= MaxFaults + 1 /\ joined \in Nat
  BY BridgeAssumption DEF Counting
<1>. QED
  BY <1>1, LogBound, BridgeAssumption DEF Counting

LEMMA InitInv == Init => Inv
<1> SUFFICES ASSUME Init PROVE Inv
  OBVIOUS
<1> USE BridgeAssumption DEF Init
<1>0. MaxLog \in Nat /\ MaxLags \in Nat /\ MaxFaults \in Nat /\ MaxStreams \in Nat /\ MaxLog >= 1
  OBVIOUS
<1>1. Counting
  BY <1>0 DEF Counting
<1>2. NoView \in Views /\ NoState \in Objects /\ NoStream \in Links
  BY LogBound DEF NoView, NoState, NoStream, Views, Objects, Links
<1>3. Shapes
  BY <1>2 DEF Shapes
<1>4. Phases
  BY <1>0 DEF Phases, Phase, NoState
<1>5. Attached
  BY DEF Attached, NoView, NoState
<1>6. Up = {}
  BY DEF Up, NoStream
<1>7. Held /\ Alone
  BY <1>6 DEF Held, Alone, NoState
<1>8. Reading
  BY DEF Reading, NoView
<1>. QED
  BY <1>1, <1>3, <1>4, <1>5, <1>7, <1>8 DEF Inv, Core

\* What Reads looks at of the object.
LEMMA ReadsSame ==
  ASSUME NEW w \in Views, NEW o \in Objects, NEW p \in Objects, NEW l \in Nat, NEW k \in Nat, l <= k,
         p.mode = o.mode, p.since = o.since, p.last = o.last, p.ended = o.ended,
         Reads(w, o, l)
  PROVE  Reads(w, p, k)
<1>1. w.hist \in Nat
  BY DEF Views
<1>2. w.hist <= k
  BY <1>1 DEF Reads
<1>3. Upper(w, p) = Upper(w, o) /\ (Kept(w, o) => Kept(w, p))
  BY Zenon DEF Upper, Kept
<1>. QED
  BY Zenon, <1>2, <1>3 DEF Reads, Got

\* The log grows, and nothing else.
LEMMA LogGrows ==
  ASSUME Core, log \in Nat, log' \in Nat, log <= log', UNCHANGED <<view, state, entry, stream, forsaken>>
  PROVE  Core'
<1>1. Shapes' /\ Attached' /\ Up' = Up
  BY DEF Core, Shapes, Attached, Up
<1>2. Held' /\ Alone'
  BY <1>1 DEF Core, Held, Alone
<1>3. Phases'
  <2>1. ASSUME NEW s \in Viewers
        PROVE  Phase(state[s], log')
    <3>1. state[s].since \in Nat /\ state[s].last \in Nat
      BY BridgeAssumption DEF Core, Shapes, Objects
    <3>. QED
      BY <3>1 DEF Core, Phases, Phase
  <2>. QED
    BY <2>1 DEF Phases
<1>4. Reading'
  <2>1. ASSUME NEW v \in Viewers, view[v].pc # "off"
        PROVE  Reads(view[v], state[view[v].of], log')
    <3>1. view[v] \in Views /\ view[v].of \in Viewers /\ state[view[v].of] \in Objects
      BY <2>1 DEF Core, Shapes, Attached
    <3>2. Reads(view[v], state[view[v].of], log)
      BY <2>1 DEF Core, Reading
    <3>. QED
      BY <3>1, <3>2, ReadsSame
  <2>. QED
    BY <2>1 DEF Reading
<1>. QED
  BY <1>1, <1>2, <1>3, <1>4 DEF Core
-----------------------------------------------------------------------------
(* A viewer is let go.                                                     *)

\* All that an object has, but its viewers and its stream.
SameCourse(o, p) ==
  /\ p.mode = o.mode /\ p.start = o.start /\ p.since = o.since /\ p.last = o.last /\ p.ended = o.ended

\* What removeDownstream does to each object: v is taken from the map's, which
\* is torn down with its last.
LEMMA Removal ==
  ASSUME Shapes, NEW v \in Viewers, RemoveDownstream(v)
  PROVE  /\ state' \in [Viewers -> Objects] /\ forsaken' \subseteq Viewers
         /\ \A s \in Viewers : SameCourse(state[s], state'[s])
         /\ \A s \in Viewers : state'[s].viewers \in {state[s].viewers, state[s].viewers \ {v}}
         /\ \/ /\ entry' = entry /\ stream' = stream /\ forsaken' = forsaken
               /\ \A s \in Viewers : state'[s].handle = state[s].handle
            \/ /\ entry \in Viewers /\ entry' = None
               /\ stream' = CloseStream(state[entry].handle, stream)
               /\ state[entry].start \notin {"done", "failed"} => entry \in forsaken'
               /\ forsaken \subseteq forsaken'
               /\ \A s \in Viewers : state'[s].handle = IF s = entry THEN None ELSE state[s].handle
<1> USE DEF Shapes, SameCourse
<1>1. CASE entry = None
  BY <1>1 DEF RemoveDownstream
<1>2. CASE entry # None
  <2> DEFINE last == state[entry].viewers \subseteq {v}
             p == [state[entry] EXCEPT !.viewers = @ \ {v}, !.handle = IF last THEN None ELSE @]
  <2>1. entry \in Viewers /\ state[entry] \in Objects
    BY <1>2
  <2>2. p \in Objects /\ SameCourse(state[entry], p) /\ p.viewers = state[entry].viewers \ {v}
        /\ p.handle = IF last THEN None ELSE state[entry].handle
    BY <2>1 DEF Objects
  <2>3. state' = [state EXCEPT ![entry] = p]
    BY <1>2 DEF RemoveDownstream
  <2>4. /\ entry' = IF last THEN None ELSE entry
        /\ stream' = IF last THEN CloseStream(state[entry].handle, stream) ELSE stream
        /\ forsaken' = IF last /\ state[entry].start \notin {"done", "failed"}
                         THEN forsaken \cup {entry} ELSE forsaken
    BY <1>2 DEF RemoveDownstream
  <2> HIDE DEF p, last
  <2>5. \A s \in Viewers : state'[s] = IF s = entry THEN p ELSE state[s]
    BY <2>1, <2>3
  <2>6. state' \in [Viewers -> Objects]
    BY <2>1, <2>2, <2>3
  <2>7. /\ \A s \in Viewers : SameCourse(state[s], state'[s])
        /\ \A s \in Viewers : state'[s].viewers \in {state[s].viewers, state[s].viewers \ {v}}
    BY <2>2, <2>5
  <2>8. CASE last
    BY <2>1, <2>2, <2>4, <2>5, <2>6, <2>7, <2>8
  <2>9. CASE ~last
    BY <2>1, <2>2, <2>4, <2>5, <2>6, <2>7, <2>9
  <2>. QED
    BY <2>8, <2>9
<1>. QED
  BY <1>1, <1>2

LEMMA Blank ==
  ASSUME NEW o \in Objects, SameCourse(NoState, o), o.viewers = {}, o.handle = None
  PROVE  o = NoState
<1>1. o.mode = "none" /\ o.start = "none" /\ o.since = 0 /\ o.last = 0 /\ o.ended = "no"
  BY DEF SameCourse, NoState
<1>. QED
  BY <1>1 DEF Objects, NoState

\* A stream that is closed is down; the others are as they were.
LEMMA Closed ==
  ASSUME Shapes, NEW h \in Streams \cup {None}
  PROVE  /\ CloseStream(h, stream) \in [Streams -> Links]
         /\ \A x \in Streams : CloseStream(h, stream)[x] = IF x = h THEN NoStream ELSE stream[x]
<1>1. NoStream \in Links
  BY LogBound DEF NoStream, Links
<1>2. None \notin Streams
  BY BridgeAssumption DEF Streams
<1>. QED
  BY <1>1, <1>2 DEF Shapes, CloseStream

\* What becomes of viewer w0, with object o, when it is let go: w.
Leaving(w0, w, o) ==
  /\ w \in Views /\ w.pc # "off" /\ w.of = w0.of /\ w.hist = w0.hist
  /\ w.socket \in {"closing", "closed"} /\ Rising(w.got)
  /\ w.pc \in {"wait", "live"} => w.hist > 0
  /\ w.pc = "live" => o.mode # "pending"

LEMMA LetGo ==
  ASSUME Core, log \in Nat, UNCHANGED log, NEW v \in Viewers, view[v].pc # "off", NEW w,
         Leaving(view[v], w, state[view[v].of]),
         view' = [view EXCEPT ![v] = w], RemoveDownstream(v)
  PROVE  Core'
<1> USE DEF Core, SameCourse
<1>1. /\ state' \in [Viewers -> Objects] /\ forsaken' \subseteq Viewers
      /\ \A s \in Viewers : SameCourse(state[s], state'[s])
      /\ \A s \in Viewers : state'[s].viewers \in {state[s].viewers, state[s].viewers \ {v}}
  BY Removal
<1> DEFINE Stays == /\ entry' = entry /\ stream' = stream /\ forsaken' = forsaken
                    /\ \A s \in Viewers : state'[s].handle = state[s].handle
           Goes  == /\ entry \in Viewers /\ entry' = None
                    /\ stream' = CloseStream(state[entry].handle, stream)
                    /\ state[entry].start \notin {"done", "failed"} => entry \in forsaken'
                    /\ forsaken \subseteq forsaken'
                    /\ \A s \in Viewers : state'[s].handle = IF s = entry THEN None ELSE state[s].handle
<1>2. Stays \/ Goes
  BY Removal
<1>3. view' \in [Viewers -> Views] /\ view'[v] = w /\ \A u \in Viewers \ {v} : view'[u] = view[u]
  BY DEF Shapes, Leaving
<1>4. /\ \A s \in Viewers : state[s] \in Objects /\ state'[s] \in Objects
      /\ \A u \in Viewers : view[u] \in Views /\ view'[u] \in Views
  BY <1>1, <1>3 DEF Shapes
<1> HIDE DEF Stays, Goes
<1>5. Shapes'
  <2>1. CASE Stays
    BY <1>1, <1>3, <2>1 DEF Shapes, Stays
  <2>2. CASE Goes
    <3>1. state[entry].handle \in Streams \cup {None}
      BY <2>2, <1>4 DEF Goes, Objects
    <3>2. stream' \in [Streams -> Links]
      BY <3>1, <2>2, Closed DEF Goes
    <3>. QED
      BY <1>1, <1>3, <2>2, <3>2 DEF Shapes, Goes
  <2>. QED
    BY <1>2, <2>1, <2>2
<1>6. \A s \in Viewers : state'[s].handle \in {state[s].handle, None}
  BY <1>2 DEF Stays, Goes
<1>7. Phases'
  <2>1. ASSUME NEW s \in Viewers
        PROVE  Phase(state'[s], log')
    <3>1. Phase(state[s], log) /\ SameCourse(state[s], state'[s])
      BY <1>1 DEF Phases
    <3>2. CASE state[s].mode = "none"
      <4>1. state[s] = NoState /\ state[s].viewers = {} /\ state[s].handle = None
        BY <3>1, <3>2 DEF Phase, NoState
      <4>2. state'[s].viewers = {} /\ state'[s].handle = None
        BY <1>1, <1>6, <4>1
      <4>3. state'[s] = NoState
        <5>1. SameCourse(NoState, state'[s])
          BY <3>1, <4>1
        <5>. QED
          BY <1>4, <4>2, <5>1, Blank
      <4>. QED
        BY <3>1, <4>1, <4>3
    <3>3. CASE state[s].mode # "none"
      BY <3>1, <3>3, <1>6 DEF Phase
    <3>. QED
      BY <3>2, <3>3
  <2>. QED
    BY <2>1 DEF Phases
<1>8. Attached'
  <2>1. ASSUME NEW u \in Viewers, view'[u].pc = "off"
        PROVE  view'[u] = NoView /\ state'[u] = NoState
    <3>1. u # v /\ view'[u] = view[u] /\ state[u] = NoState /\ view[u] = NoView
      BY <1>3, <2>1 DEF Leaving, Attached
    <3>2. Phase(state'[u], log') /\ state'[u].mode = "none"
      BY <1>1, <1>7, <3>1 DEF Phases, NoState
    <3>. QED
      BY <3>1, <3>2 DEF Phase
  <2>2. ASSUME NEW u \in Viewers, view'[u].pc # "off"
        PROVE  /\ view'[u].of \in Viewers /\ state'[view'[u].of].mode # "none"
               /\ view'[u].socket # "none"
               /\ view'[u].socket = "open" => u \in state'[view'[u].of].viewers
    <3>1. CASE u = v
      BY <1>1, <1>3, <3>1 DEF Leaving, Attached
    <3>2. CASE u # v
      BY <1>1, <1>3, <2>2, <3>2 DEF Attached
    <3>. QED
      BY <3>1, <3>2
  <2>3. ASSUME NEW s \in Viewers, NEW u \in state'[s].viewers
        PROVE  view'[u].pc # "off" /\ view'[u].of = s
    <3>1. u \in state[s].viewers /\ u \in Viewers
      BY <1>1, <1>4 DEF Objects
    <3>. QED
      BY <1>3, <3>1 DEF Attached, Leaving
  <2>4. entry' # None => state'[entry'].mode # "none"
    BY <1>1, <1>2 DEF Stays, Goes, Attached, Shapes
  <2>. QED
    BY <2>1, <2>2, <2>3, <2>4 DEF Attached
<1>9. Held' /\ Alone'
  <2>1. CASE Stays
    <3>1. Up' = Up
      BY <2>1 DEF Stays, Up
    <3>2. Held'
      BY <1>1, <2>1, <3>1 DEF Stays, Held
    <3>3. Alone'
      BY <1>1, <2>1, <3>1 DEF Stays, Alone
    <3>. QED
      BY <3>2, <3>3
  <2>2. CASE Goes
    <3> DEFINE h == state[entry].handle
    <3>1. h \in Streams \cup {None} /\ entry \in Viewers
      BY <2>2, <1>4 DEF Goes, Objects
    <3>2. \A x \in Streams : stream'[x] = IF x = h THEN NoStream ELSE stream[x]
      BY <3>1, <2>2, Closed DEF Goes
    <3>3. Up' = Up \ {h}
      BY <3>2 DEF Up, NoStream
    <3>4. \A x \in Up' : x \in Up /\ stream'[x] = stream[x] /\ stream[x].of \in Viewers /\ stream[x].of # entry
      BY <3>2, <3>3 DEF Held, Up
    <3>5. \A s \in Viewers \ {entry} : state'[s].handle = state[s].handle /\ (h # None => state[s].handle # h)
      BY <2>2, <3>1 DEF Goes, Held
    <3>6. state'[entry].handle = None
      BY <2>2 DEF Goes
    <3>7. Held'
      <4>1. ASSUME NEW x \in Up'
            PROVE  /\ stream'[x].of \in Viewers
                   /\ state'[stream'[x].of].handle = x /\ state'[stream'[x].of].last = stream'[x].at
        BY <1>1, <3>4, <3>5 DEF Held
      <4>2. ASSUME NEW s \in Viewers, state'[s].handle # None
            PROVE  state'[s].handle \in Up' /\ stream'[state'[s].handle].of = s /\ state'[s].ended = "no"
        <5>1. s # entry /\ state'[s].handle = state[s].handle
          BY <3>5, <3>6, <4>2
        <5>2. state[s].handle \in Up /\ stream[state[s].handle].of = s /\ state[s].ended = "no"
          BY <4>2, <5>1 DEF Held
        <5>3. state[s].handle \in Up'
          BY <3>3, <3>5, <5>1, <5>2, <4>2
        <5>. QED
          BY <1>1, <3>4, <5>1, <5>2, <5>3
      <4>. QED
        BY <4>1, <4>2 DEF Held
    <3>8. Alone'
      <4>1. SUFFICES ASSUME forsaken' = {}
                     PROVE  /\ \A s \in Viewers :
                                 state'[s].mode = "pending" /\ state'[s].start # "failed" => s = entry'
                            /\ \A x \in Up' : stream'[x].of = entry'
        BY DEF Alone
      <4>2. forsaken = {} /\ state[entry].start \in {"done", "failed"}
        BY <2>2, <4>1 DEF Goes
      <4>3. ~(state[entry].mode = "pending" /\ state[entry].start # "failed")
        BY <3>1, <4>2 DEF Phases, Phase
      <4>4. \A s \in Viewers : ~(state'[s].mode = "pending" /\ state'[s].start # "failed")
        BY <1>1, <4>2, <4>3 DEF Alone
      <4>5. Up' = {}
        BY <3>4, <4>2 DEF Alone
      <4>. QED
        BY <4>4, <4>5
    <3>. QED
      BY <3>7, <3>8
  <2>. QED
    BY <1>2, <2>1, <2>2
<1>10. Reading'
  <2>1. ASSUME NEW u \in Viewers, view'[u].pc # "off"
        PROVE  Reads(view'[u], state'[view'[u].of], log')
    <3>1. CASE u = v
      <4>1. view'[u] = w /\ w.of \in Viewers /\ w.hist <= log /\ state'[w.of].mode = state[w.of].mode
        BY <1>1, <1>3, <3>1 DEF Leaving, Reading, Reads, Attached
      <4>. QED
        BY <4>1 DEF Reads, Leaving
    <3>2. CASE u # v
      <4>1. view'[u] = view[u] /\ view[u].of \in Viewers /\ Reads(view[u], state[view[u].of], log)
        BY <1>3, <2>1, <3>2 DEF Reading, Attached
      <4>2. SameCourse(state[view[u].of], state'[view[u].of])
        BY <1>1, <4>1
      <4>. QED
        BY <1>4, <4>1, <4>2, ReadsSame
    <3>. QED
      BY <3>1, <3>2
  <2>. QED
    BY <2>1 DEF Reading
<1>. QED
  BY <1>5, <1>7, <1>8, <1>9, <1>10
-----------------------------------------------------------------------------
(* The set-ups of the viewers, and the starts of their objects, go on.     *)

\* An object that starts, from o to p.
Started(o, p) ==
  /\ o.mode = "pending" /\ o.start # "failed"
  /\ p.viewers = o.viewers /\ p.handle = o.handle /\ p.last = o.last /\ p.ended = o.ended
  /\ p.since <= log
  /\ \/ p.mode = "pending" /\ p.start \in {"scan", "mint", "join", "open", "failed"}
     \/ p.mode = "terminal" /\ p.start = "done"

\* A viewer in its set-up, from w0 to w.
Onward(w0, w) ==
  w0.pc # "off" /\ w.pc # "off" /\ w.of = w0.of /\ w.socket = w0.socket

LEMMA GoOn ==
  ASSUME Core, log \in Nat, UNCHANGED <<log, entry, stream, forsaken>>,
         state' \in [Viewers -> Objects], view' \in [Viewers -> Views],
         \A s \in Viewers : state'[s] = state[s] \/ Started(state[s], state'[s]),
         \A v \in Viewers : view'[v] # view[v] =>
           Onward(view[v], view'[v]) /\ Reads(view'[v], state'[view[v].of], log)
  PROVE  Core'
<1> USE DEF Core
<1>1. Shapes' /\ Up' = Up
  BY DEF Shapes, Up
<1>2. /\ \A s \in Viewers : state[s] \in Objects /\ state'[s] \in Objects
      /\ \A u \in Viewers : view[u] \in Views /\ view'[u] \in Views
  BY DEF Shapes
<1>3. ASSUME NEW s \in Viewers
      PROVE  /\ state'[s].viewers = state[s].viewers /\ state'[s].handle = state[s].handle
             /\ state'[s].last = state[s].last /\ state'[s].ended = state[s].ended
             /\ state[s].mode # "none" => state'[s].mode # "none"
             /\ state[s].mode # "pending" => state'[s] = state[s]
             /\ state'[s].mode = "pending" /\ state'[s].start # "failed" =>
                  state[s].mode = "pending" /\ state[s].start # "failed"
             /\ state[s].mode = "pending" => state'[s].mode \in {"pending", "terminal"}
  BY DEF Started
<1>4. ASSUME NEW u \in Viewers
      PROVE  /\ view[u].pc = "off" => view'[u] = view[u]
             /\ view[u].pc # "off" => view'[u].pc # "off"
             /\ view'[u].of = view[u].of /\ view'[u].socket = view[u].socket
  BY DEF Onward
<1>5. Phases'
  <2>1. ASSUME NEW s \in Viewers
        PROVE  Phase(state'[s], log)
    BY <1>3 DEF Phases, Phase, Started
  <2>. QED
    BY <2>1 DEF Phases
<1>6. Attached'
  <2>1. \A u \in Viewers : view'[u].pc = "off" => view'[u] = NoView /\ state'[u] = NoState
    BY <1>3, <1>4 DEF Attached, NoState
  <2>2. \A u \in Viewers : view'[u].pc # "off" =>
          /\ view'[u].of \in Viewers /\ state'[view'[u].of].mode # "none"
          /\ view'[u].socket # "none"
          /\ view'[u].socket = "open" => u \in state'[view'[u].of].viewers
    BY <1>3, <1>4 DEF Attached
  <2>3. ASSUME NEW s \in Viewers, NEW u \in state'[s].viewers
        PROVE  view'[u].pc # "off" /\ view'[u].of = s
    <3>1. u \in Viewers /\ u \in state[s].viewers
      BY <1>2, <1>3 DEF Objects
    <3>. QED
      BY <1>4, <3>1 DEF Attached
  <2>4. entry' # None => state'[entry'].mode # "none"
    BY <1>3 DEF Attached, Shapes
  <2>. QED
    BY <2>1, <2>2, <2>3, <2>4 DEF Attached
<1>7. Held'
  BY <1>1, <1>3 DEF Held
<1>8. Alone'
  BY <1>1, <1>3 DEF Alone
<1>9. Reading'
  <2>1. ASSUME NEW u \in Viewers, view'[u].pc # "off"
        PROVE  Reads(view'[u], state'[view'[u].of], log')
    <3> DEFINE s == view[u].of
    <3>1. view'[u].of = s /\ view[u].pc # "off" /\ s \in Viewers
      BY <1>4, <2>1 DEF Attached
    <3>2. CASE view'[u] # view[u]
      BY <3>1, <3>2
    <3>3. CASE view'[u] = view[u] /\ state'[s] = state[s]
      BY <3>1, <3>3 DEF Reading
    <3>4. CASE view'[u] = view[u] /\ Started(state[s], state'[s])
      <4>1. Reads(view[u], state[s], log) /\ state[s].mode = "pending" /\ state'[s].mode # "live"
        BY <3>1, <3>4 DEF Reading, Started
      <4>2. view[u].pc # "live" /\ state'[s].last = state[s].last
        BY <3>4, <4>1 DEF Reads, Started
      <4>3. Kept(view[u], state[s]) => Kept(view[u], state'[s])
        BY <4>1, <4>2 DEF Kept
      <4>. QED
        BY <3>1, <3>4, <4>1, <4>2, <4>3 DEF Reads, Got
    <3>. QED
      BY <3>1, <3>2, <3>3, <3>4
  <2>. QED
    BY <2>1 DEF Reading
<1>. QED
  BY <1>1, <1>5, <1>6, <1>7, <1>8, <1>9

\* The log is as long as a history read now, and as what is kept.
LEMMA ReadHistoryKeeps ==
  ASSUME Inv, NEW v \in Viewers, ReadHistory(v)
  PROVE  Core'
<1> USE DEF Inv, Core
<1> DEFINE w == [view[v] EXCEPT !.hist = log]
           s == view[v].of
<1>1. view[v].pc = "history" /\ view[v].hist = 0 /\ view' = [view EXCEPT ![v] = w]
      /\ UNCHANGED <<log, state, entry, stream, forsaken>>
  BY DEF ReadHistory, session
<1>2. view[v] \in Views /\ s \in Viewers /\ state[s] \in Objects /\ Reads(view[v], state[s], log)
      /\ Phase(state[s], log)
  BY <1>1 DEF Shapes, Attached, Reading, Phases
<1>3. log \in 0 .. LastEvent /\ log \in Nat
  BY Tally
<1>4. w \in Views
  BY <1>2, <1>3 DEF Views
<1>5. /\ w.pc = "history" /\ w.hist = log /\ w.of = s /\ w.socket = view[v].socket
      /\ w.got = view[v].got /\ w.pending = view[v].pending
  BY <1>1, <1>2 DEF Views
<1> HIDE DEF w
<1>6. Reads(w, state[s], log)
  <2>1. Rising(w.got) /\ w.hist <= log
    BY <1>2, <1>3, <1>5 DEF Reads
  <2>2. ASSUME w.socket = "open"
        PROVE  Kept(w, state[s])
    <3>1. Kept(view[v], state[s])
      BY <1>1, <1>2, <1>5, <2>2 DEF Reads, Got
    <3>2. Len(w.pending) \in Nat /\ state[s].last \in Nat /\ state[s].last <= log
      BY SMTT(60), <1>2, <1>4, BridgeAssumption DEF Views, Objects, Phase
    <3>3. state[s].last - Len(w.pending) <= w.hist
      BY <1>3, <1>5, <3>2
    <3>. QED
      BY <1>5, <3>1, <3>3 DEF Kept
  <2>. QED
    BY <1>5, <2>1, <2>2 DEF Reads, Got
<1>7. view' \in [Viewers -> Views] /\ \A u \in Viewers : view'[u] = IF u = v THEN w ELSE view[u]
  BY <1>1, <1>4 DEF Shapes
<1>8. state' \in [Viewers -> Objects] /\ \A t \in Viewers : state'[t] = state[t]
  BY <1>1 DEF Shapes
<1>9. \A u \in Viewers : view'[u] # view[u] =>
        Onward(view[u], view'[u]) /\ Reads(view'[u], state'[view[u].of], log)
  BY <1>1, <1>5, <1>6, <1>7 DEF Onward
<1>. QED
  BY <1>1, <1>3, <1>7, <1>8, <1>9, GoOn

\* A history that was sent is the log up to it.
LEMMA SendHistoryKeeps ==
  ASSUME Inv, NEW v \in Viewers, SendHistory(v)
  PROVE  Core'
<1> USE DEF Inv, Core
<1> DEFINE s == view[v].of
           w1 == [view[v] EXCEPT !.pc = "wait"]
           w == IF w1.socket = "open" THEN [w1 EXCEPT !.got = [i \in 1 .. w1.hist |-> i]] ELSE w1
           p == [state[s] EXCEPT !.start = "scan", !.since = w1.hist]
<1>1. /\ view[v].pc = "history" /\ view[v].hist > 0 /\ view' = [view EXCEPT ![v] = w]
      /\ state' = IF MustStart(s) THEN [state EXCEPT ![s].start = "scan", ![s].since = w1.hist] ELSE state
      /\ UNCHANGED <<log, entry, stream, forsaken>>
  <2>1. view[v].pc = "history" /\ view[v].hist > 0
    BY DEF SendHistory
  <2>2. view' = [view EXCEPT ![v] = w]
    BY Zenon DEF SendHistory
  <2>3. state' = IF MustStart(s) THEN [state EXCEPT ![s].start = "scan", ![s].since = w1.hist] ELSE state
    BY Zenon DEF SendHistory
  <2>4. UNCHANGED <<log, entry, stream, forsaken>>
    BY DEF SendHistory, session
  <2>. QED
    BY <2>1, <2>2, <2>3, <2>4
<1>2. view[v] \in Views /\ s \in Viewers /\ state[s] \in Objects /\ Reads(view[v], state[s], log)
      /\ Phase(state[s], log)
  BY <1>1 DEF Shapes, Attached, Reading, Phases
<1>3. log \in Nat /\ view[v].hist \in Nat /\ view[v].hist <= log /\ view[v].hist <= LastEvent
  BY <1>2, Tally, LogBound DEF Reads, Views
<1>4. /\ Run(0, view[v].hist) \in Seq(Events) /\ Rising(Run(0, view[v].hist))
      /\ [i \in 1 .. view[v].hist |-> i] = Run(0, view[v].hist)
  <2>1. [i \in 1 .. view[v].hist |-> i] = Run(0, view[v].hist)
    BY <1>3 DEF Run
  <2>2. [i \in 1 .. view[v].hist |-> i] \in Seq(Events)
    BY <1>3, LogBound DEF Events
  <2>. QED
    BY <1>3, <2>1, <2>2, RunRises
<1>5. /\ w \in Views /\ w.pc = "wait" /\ w.hist = view[v].hist /\ w.of = s /\ w.socket = view[v].socket
      /\ w.pending = view[v].pending
      /\ w.got = IF w.socket = "open" THEN Run(0, w.hist) ELSE view[v].got
  BY <1>2, <1>4 DEF Views
<1>6. MustStart(s) => p \in Objects /\ Started(state[s], p)
  BY <1>2, <1>3 DEF Objects, MustStart, Started, Views
<1>a. MustStart(s) => state' \in [Viewers -> Objects] /\ \A t \in Viewers : state'[t] = IF t = s THEN p ELSE state[t]
  <2> HIDE DEF w, w1
  <2>1. state \in [Viewers -> Objects]
    BY DEF Shapes
  <2>2. MustStart(s) => \A t \in Viewers : state'[t] = IF t = s THEN p ELSE state[t]
    BY <1>1, <1>2, <2>1
  <2>3. MustStart(s) => DOMAIN state' = Viewers /\ state' = [t \in Viewers |-> state'[t]]
    BY <1>1, <2>1
  <2> HIDE DEF p
  <2>. QED
    BY <1>6, <2>1, <2>2, <2>3
<1> HIDE DEF w, p
<1>7. /\ state' \in [Viewers -> Objects]
      /\ \A t \in Viewers : state'[t] = state[t] \/ Started(state[t], state'[t])
  <2>1. CASE MustStart(s)
    BY <1>6, <1>a, <2>1
  <2>2. CASE ~MustStart(s)
    BY <1>1, <2>2 DEF Shapes
  <2>. QED
    BY <2>1, <2>2
<1>8. state'[s] \in Objects /\ (state'[s] = state[s] \/ Started(state[s], state'[s]))
  BY <1>2, <1>7
<1>9. Reads(w, state'[s], log)
  <2>1. Rising(w.got) /\ w.hist <= log
    BY <1>2, <1>3, <1>4, <1>5 DEF Reads
  <2>2. ASSUME w.socket = "open"
        PROVE  Kept(w, state'[s])
    <3>1. Kept(view[v], state[s])
      BY <1>1, <1>2, <1>5, <2>2 DEF Reads, Got
    <3>2. Kept(w, state[s])
      BY <1>5, <3>1 DEF Kept
    <3>. QED
      BY <1>8, <3>2 DEF Kept, Started
  <2>. QED
    BY <1>1, <1>5, <2>1, <2>2 DEF Reads, Got
<1>10. view' \in [Viewers -> Views] /\ \A u \in Viewers : view'[u] = IF u = v THEN w ELSE view[u]
  BY <1>1, <1>5 DEF Shapes
<1>11. \A u \in Viewers : view'[u] # view[u] =>
         Onward(view[u], view'[u]) /\ Reads(view'[u], state'[view[u].of], log)
  BY <1>1, <1>5, <1>9, <1>10 DEF Onward
<1>. QED
  BY <1>1, <1>3, <1>7, <1>10, <1>11, GoOn
\* Every answer takes objects that wait for it on, and nothing else.
Answers ==
  /\ UNCHANGED <<log, view, entry, stream, forsaken>>
  /\ state' \in [Viewers -> Objects]
  /\ \A s \in Viewers : state'[s] = state[s] \/ Started(state[s], state'[s])

LEMMA AnswersKeep == ASSUME Inv, Answers PROVE Core'
<1>1. view' \in [Viewers -> Views] /\ log \in Nat
  BY DEF Answers, Inv, Core, Shapes, Counting
<1>2. \A v \in Viewers : view'[v] = view[v]
  BY DEF Answers
<1>. QED
  BY <1>1, <1>2, GoOn DEF Answers, Inv

\* An object that starts to start, to have failed, or to be a terminal one.
LEMMA Starting ==
  ASSUME Inv, NEW s \in Viewers, state[s].start \in {"scan", "mint", "join"}
  PROVE  /\ \A next \in {"scan", "mint", "join", "open", "failed"} :
              LET p == [state[s] EXCEPT !.start = next]
              IN  p \in Objects /\ Started(state[s], p)
         /\ Terminal(s) \in Objects /\ Started(state[s], Terminal(s))
<1>1. state[s] \in Objects /\ Phase(state[s], log)
  BY DEF Inv, Core, Shapes, Phases
<1>2. state[s].mode = "pending" /\ state[s].since <= log
  BY <1>1 DEF Phase
<1>3. ASSUME NEW next \in {"scan", "mint", "join", "open", "failed"}
      PROVE  LET p == [state[s] EXCEPT !.start = next]
             IN  p \in Objects /\ Started(state[s], p)
  <2> DEFINE p == [state[s] EXCEPT !.start = next]
  <2>1. /\ p \in Objects /\ p.start = next /\ p.mode = state[s].mode /\ p.since = state[s].since
        /\ p.last = state[s].last /\ p.ended = state[s].ended /\ p.viewers = state[s].viewers
        /\ p.handle = state[s].handle
    BY <1>1 DEF Objects
  <2> HIDE DEF p
  <2>2. Started(state[s], p)
    BY <1>2, <2>1 DEF Started
  <2>. QED
    BY <2>1, <2>2 DEF p
<1>4. Terminal(s) \in Objects /\ Started(state[s], Terminal(s))
  <2> DEFINE p == [state[s] EXCEPT !.start = "done", !.mode = "terminal"]
  <2>1. /\ p \in Objects /\ p.start = "done" /\ p.mode = "terminal" /\ p.since = state[s].since
        /\ p.last = state[s].last /\ p.ended = state[s].ended /\ p.viewers = state[s].viewers
        /\ p.handle = state[s].handle
    BY <1>1 DEF Objects
  <2> HIDE DEF p
  <2>2. Started(state[s], p)
    BY <1>2, <2>1 DEF Started
  <2>. QED
    BY <2>1, <2>2 DEF Terminal, p
<1>. QED
  BY <1>3, <1>4

\* A change of one such object.
LEMMA OneStarts ==
  ASSUME Inv, NEW s \in Viewers, NEW p \in Objects, Started(state[s], p), state' = [state EXCEPT ![s] = p]
  PROVE  /\ state' \in [Viewers -> Objects]
         /\ \A t \in Viewers : state'[t] = state[t] \/ Started(state[t], state'[t])
BY DEF Inv, Core, Shapes

LEMMA ResolveAnswers == ASSUME Inv, NEW s \in Viewers, Resolve(s) PROVE Answers
<1>1. state[s].start = "scan" /\ UNCHANGED <<log, view, entry, stream, forsaken>>
  BY DEF Resolve, session
<1>2. PICK p \in Objects : Started(state[s], p) /\ state' = [state EXCEPT ![s] = p]
  <2> DEFINE next == IF observer = "minted" THEN KeyStage ELSE "mint"
  <2>1. next \in {"scan", "mint", "join", "open", "failed"}
    BY DEF KeyStage
  <2>2. \/ state' = [state EXCEPT ![s] = [state[s] EXCEPT !.start = next]]
        \/ state' = [state EXCEPT ![s] = Terminal(s)]
        \/ state' = [state EXCEPT ![s] = [state[s] EXCEPT !.start = "failed"]]
    BY Zenon DEF Resolve
  <2> HIDE DEF next
  <2>. QED
    BY <1>1, <2>1, <2>2, Starting
<1>. QED
  BY <1>1, <1>2, OneStarts DEF Answers

\* All that wait at a stage go on.
LEMMA Release ==
  ASSUME Inv, NEW stage \in {"mint", "join"}, NEW by,
         DOMAIN by = Viewers, by = [s \in Viewers |-> by[s]],
         \A s \in Viewers : state[s].start = stage => by[s] \in Objects /\ Started(state[s], by[s]),
         state' = Released(stage, by)
  PROVE  /\ state' \in [Viewers -> Objects]
         /\ \A s \in Viewers : state'[s] = state[s] \/ Started(state[s], state'[s])
BY DEF Inv, Core, Shapes, Released, Waiting

LEMMA MoveStarts ==
  ASSUME Inv, NEW stage \in {"mint", "join"}, NEW next \in {"open", "join", "failed"},
         state' = Released(stage, Moved(next))
  PROVE  /\ state' \in [Viewers -> Objects]
         /\ \A s \in Viewers : state'[s] = state[s] \/ Started(state[s], state'[s])
<1>1. ASSUME NEW s \in Viewers
      PROVE  Moved(next)[s] = [state[s] EXCEPT !.start = next]
  BY DEF Moved
<1>2. ASSUME NEW s \in Viewers, state[s].start = stage
      PROVE  Moved(next)[s] \in Objects /\ Started(state[s], Moved(next)[s])
  BY <1>1, <1>2, Starting
<1>3. DOMAIN Moved(next) = Viewers /\ Moved(next) = [s \in Viewers |-> Moved(next)[s]]
  BY DEF Moved
<1>. QED
  BY <1>2, <1>3, Release

\* An error fails them all, or makes them all terminal.
LEMMA ErrorStarts ==
  ASSUME Inv, NEW stage \in {"mint", "join"}, ErrorRead(stage)
  PROVE  /\ state' \in [Viewers -> Objects]
         /\ \A s \in Viewers : state'[s] = state[s] \/ Started(state[s], state'[s])
<1>1. PICK closed \in BOOLEAN :
        state' = Released(stage, [s \in Viewers |-> IF closed THEN Terminal(s) ELSE Failed(s)])
  BY DEF ErrorRead
<1> DEFINE by == [s \in Viewers |-> IF closed THEN Terminal(s) ELSE Failed(s)]
<1>2. ASSUME NEW s \in Viewers, state[s].start = stage
      PROVE  by[s] \in Objects /\ Started(state[s], by[s])
  <2>1. /\ Failed(s) \in Objects /\ Started(state[s], Failed(s))
        /\ Terminal(s) \in Objects /\ Started(state[s], Terminal(s))
    BY <1>2, Starting DEF Failed
  <2>. QED
    BY Zenon, <2>1
<1>3. DOMAIN by = Viewers /\ by = [s \in Viewers |-> by[s]]
  OBVIOUS
<1> HIDE DEF by
<1>4. state' = Released(stage, by)
  BY <1>1 DEF by
<1>. QED
  BY <1>2, <1>3, <1>4, Release

LEMMA MintAnswers == ASSUME Inv, MintAnswered PROVE Answers
<1>1. UNCHANGED <<log, view, entry, stream, forsaken>>
  BY DEF MintAnswered, session
<1>2. KeyStage \in {"open", "join", "failed"}
  BY DEF KeyStage
<1>3. state' = Released("mint", Moved(KeyStage)) \/ ErrorRead("mint")
  BY DEF MintAnswered
<1>. QED
  BY <1>1, <1>2, <1>3, MoveStarts, ErrorStarts DEF Answers

LEMMA JoinAnswers == ASSUME Inv, JoinAnswered PROVE Answers
<1>1. UNCHANGED <<log, view, entry, stream, forsaken>>
  BY DEF JoinAnswered, session
<1>2. CASE state' = Released("join", Moved("open"))
  BY <1>1, <1>2, MoveStarts DEF Answers
<1>3. CASE state' = Released("join", [s \in Viewers |-> Terminal(s)])
  <2> DEFINE by == [s \in Viewers |-> Terminal(s)]
  <2>1. ASSUME NEW s \in Viewers, state[s].start = "join"
        PROVE  by[s] \in Objects /\ Started(state[s], by[s])
    BY <2>1, Starting
  <2>2. DOMAIN by = Viewers /\ by = [s \in Viewers |-> by[s]]
    OBVIOUS
  <2> HIDE DEF by
  <2>3. state' = Released("join", by)
    BY <1>3 DEF by
  <2>. QED
    BY <1>1, <2>1, <2>2, <2>3, Release DEF Answers
<1>4. CASE ErrorRead("join")
  BY <1>1, <1>4, ErrorStarts DEF Answers
<1>. QED
  BY <1>2, <1>3, <1>4 DEF JoinAnswered

\* A viewer connects: to the map's object, or to one of its own.
LEMMA ConnectKeeps ==
  ASSUME Inv, NEW v \in Viewers, Connect(v)
  PROVE  Core'
<1> USE DEF Inv, Core
<1> DEFINE s == IF entry = None THEN v ELSE entry
           w == [NoView EXCEPT !.pc = "history", !.of = s, !.socket = "open"]
           p == [state[s] EXCEPT !.mode = IF entry = None THEN "pending" ELSE @,
                                 !.viewers = @ \cup {v}]
<1>1. /\ view[v].pc = "off" /\ view' = [view EXCEPT ![v] = w] /\ entry' = s
      /\ UNCHANGED <<log, stream, forsaken>>
  BY DEF Connect, session
<1>2. s \in Viewers /\ state[s] \in Objects /\ log \in Nat /\ state[v] = NoState /\ view[v] = NoView
  BY <1>1 DEF Shapes, Attached, Counting
<1>3. \A t \in Viewers : state'[t] = IF t = s THEN p ELSE state[t]
  <2>1. state' = [state EXCEPT ![s].mode = IF entry = None THEN "pending" ELSE @,
                               ![s].viewers = @ \cup {v}]
    BY DEF Connect
  <2>. QED
    BY <1>2, <2>1 DEF Shapes
<1>4. /\ p \in Objects /\ p.mode = (IF entry = None THEN "pending" ELSE state[s].mode)
      /\ p.start = state[s].start /\ p.since = state[s].since /\ p.last = state[s].last
      /\ p.ended = state[s].ended /\ p.handle = state[s].handle
      /\ p.viewers = state[s].viewers \cup {v}
  BY ZenonT(60), <1>2 DEF Objects
<1>5. state' \in [Viewers -> Objects]
  <2>1. DOMAIN state' = Viewers /\ state' = [t \in Viewers |-> state'[t]]
    BY DEF Connect, Shapes
  <2> HIDE DEF s, p
  <2>. QED
    BY <1>3, <1>4, <2>1 DEF Shapes
<1>6. /\ w \in Views /\ w.pc = "history" /\ w.of = s /\ w.socket = "open" /\ w.hist = 0
      /\ w.got = <<>> /\ w.pending = <<>>
  <2>1. LastEvent \in Nat
    BY LogBound
  <2>2. NoView \in Views /\ NoView.hist = 0 /\ NoView.got = <<>> /\ NoView.pending = <<>>
    BY <2>1 DEF NoView, Views
  <2>3. w \in Views
    BY <1>2, <2>2 DEF Views
  <2>4. w.pc = "history" /\ w.of = s /\ w.socket = "open"
    BY <2>2 DEF Views
  <2>5. w.hist = NoView.hist /\ w.got = NoView.got /\ w.pending = NoView.pending
    BY <2>2 DEF Views
  <2>. QED
    BY <2>2, <2>3, <2>4, <2>5
<1>7. view' \in [Viewers -> Views] /\ \A u \in Viewers : view'[u] = IF u = v THEN w ELSE view[u]
  BY <1>1, <1>6 DEF Shapes
<1>a. entry = None => s = v /\ state[s] = NoState
  BY <1>2
<1>b. entry # None => s = entry /\ state[s].mode # "none" /\ s # v
  BY <1>2 DEF Attached, NoState
<1>c. entry = None \/ entry \in Viewers
  BY DEF Shapes
<1>d. None \notin Viewers
  BY BridgeAssumption
<1> HIDE DEF s, w, p
<1>8. Shapes' /\ Up' = Up
  BY <1>1, <1>2, <1>5, <1>7 DEF Shapes, Up
<1>9. p.mode # "none" /\ Phase(p, log)
  <2>1. Phase(state[s], log)
    BY <1>2 DEF Phases
  <2>2. CASE entry = None
    BY <1>4, <1>a, <2>1, <2>2 DEF Phase, NoState
  <2>3. CASE entry # None
    BY <1>4, <1>b, <2>1, <2>3 DEF Phase
  <2>. QED
    BY <2>2, <2>3
<1>10. Phases'
  BY <1>1, <1>3, <1>9 DEF Phases
<1>11. Attached'
  <2>1. \A u \in Viewers : view'[u].pc = "off" => view'[u] = NoView /\ state'[u] = NoState
    <3>1. ASSUME NEW u \in Viewers, view'[u].pc = "off"
          PROVE  view'[u] = NoView /\ state'[u] = NoState
      <4>1. u # v /\ view'[u] = view[u]
        BY <1>6, <1>7, <3>1
      <4>2. view[u] = NoView /\ state[u] = NoState
        BY Zenon, <3>1, <4>1 DEF Attached
      <4>a. NoState.mode = "none"
        BY DEF NoState
      <4>3. u # s
        BY <1>a, <1>b, <4>1, <4>2, <4>a
      <4>. QED
        BY <1>3, <4>1, <4>2, <4>3
    <3>. QED
      BY <3>1
  <2>2. ASSUME NEW u \in Viewers, view'[u].pc # "off"
        PROVE  /\ view'[u].of \in Viewers /\ state'[view'[u].of].mode # "none"
               /\ view'[u].socket # "none"
               /\ view'[u].socket = "open" => u \in state'[view'[u].of].viewers
    <3>1. CASE u = v
      BY <1>2, <1>3, <1>4, <1>6, <1>7, <1>9, <3>1
    <3>2. CASE u # v
      BY <1>3, <1>4, <1>7, <1>9, <2>2, <3>2 DEF Attached
    <3>. QED
      BY <3>1, <3>2
  <2>3. ASSUME NEW t \in Viewers, NEW u \in state'[t].viewers
        PROVE  view'[u].pc # "off" /\ view'[u].of = t
    <3>1. u \in Viewers
      BY <1>5 DEF Objects
    <3>2. CASE t = s /\ u = v
      BY <1>6, <1>7, <3>2
    <3>3. CASE u \in state[t].viewers
      <4>1. view[u].pc # "off" /\ view[u].of = t /\ u # v
        BY <1>1, <3>1, <3>3 DEF Attached
      <4>. QED
        BY <1>7, <3>1, <4>1
    <3>. QED
      BY <1>3, <1>4, <3>2, <3>3
  <2>4. entry' # None => state'[entry'].mode # "none"
    BY <1>1, <1>2, <1>3, <1>9
  <2>. QED
    BY <2>1, <2>2, <2>3, <2>4 DEF Attached
<1>12. \A t \in Viewers : state'[t].handle = state[t].handle /\ state'[t].ended = state[t].ended
                           /\ state'[t].last = state[t].last
  BY <1>3, <1>4
<1>13. Held'
  BY <1>1, <1>8, <1>12 DEF Held
<1>14. Alone'
  <2>1. SUFFICES ASSUME forsaken' = {}
                 PROVE  /\ \A t \in Viewers :
                             state'[t].mode = "pending" /\ state'[t].start # "failed" => t = entry'
                        /\ \A x \in Up' : stream'[x].of = entry'
    BY DEF Alone
  <2>2. /\ \A t \in Viewers : state[t].mode = "pending" /\ state[t].start # "failed" => t = entry
        /\ \A x \in Up : stream[x].of = entry /\ stream[x].of \in Viewers
    BY <1>1, <2>1 DEF Alone, Held
  <2>3. ASSUME NEW x \in Up'
        PROVE  stream'[x].of = entry'
    BY <1>1, <1>8, <1>b, <1>d, <2>2
  <2>4. ASSUME NEW t \in Viewers, state'[t].mode = "pending", state'[t].start # "failed"
        PROVE  t = entry'
    BY <1>1, <1>3, <1>b, <1>d, <2>2, <2>4
  <2>. QED
    BY <2>3, <2>4
<1>15. Reading'
  <2>1. ASSUME NEW u \in Viewers, view'[u].pc # "off"
        PROVE  Reads(view'[u], state'[view'[u].of], log')
    <3>1. CASE u = v
      <4>1. view'[u] = w /\ state'[w.of] = p /\ log' = log
        BY <1>1, <1>2, <1>3, <1>6, <1>7, <3>1
      <4>2. Kept(w, p)
        <5>1. Len(w.pending) = 0 /\ w.pending = Run(p.last - Len(w.pending), Len(w.pending))
          BY <1>6 DEF Run
        <5>2. p.last \in Nat
          BY <1>4, BridgeAssumption DEF Objects
        <5>3. p.last - Len(w.pending) = p.last
          BY <5>1, <5>2
        <5>. QED
          BY <1>6, <1>9, <5>1, <5>3 DEF Kept, Phase
      <4>3. Rising(w.got)
        BY <1>6 DEF Rising
      <4>. QED
        BY <1>2, <1>6, <4>1, <4>2, <4>3 DEF Reads, Got
    <3>2. CASE u # v
      <4> DEFINE t == view[u].of
      <4>1. view'[u] = view[u] /\ t \in Viewers /\ Reads(view[u], state[t], log) /\ view[u] \in Views
        BY <1>7, <2>1, <3>2 DEF Reading, Attached, Shapes
      <4>2. state'[t].mode = state[t].mode /\ state'[t].since = state[t].since
        <5>1. CASE t = s /\ entry = None
          BY <4>1, <2>1, <5>1, <1>a DEF Attached, NoState
        <5>2. CASE t # s \/ entry # None
          BY <1>3, <1>4, <4>1, <5>2
        <5>. QED
          BY <5>1, <5>2
      <4>3. state[t] \in Objects /\ state'[t] \in Objects
        BY <1>5, <4>1 DEF Shapes
      <4>. QED
        BY <1>1, <1>2, <1>12, <4>1, <4>2, <4>3, ReadsSame
    <3>. QED
      BY <3>1, <3>2
  <2>. QED
    BY <2>1 DEF Reading
<1>. QED
  BY <1>8, <1>10, <1>11, <1>13, <1>14, <1>15
-----------------------------------------------------------------------------
(* The streams.                                                            *)

LEMMA RegisterKeeps ==
  ASSUME Inv, NEW x \in Streams, Register(x)
  PROVE  Core'
<1> USE DEF Inv, Core
<1>1. /\ stream[x].pc = "asked" /\ UNCHANGED <<log, view, state, entry, forsaken>>
      /\ stream' = [stream EXCEPT ![x].pc = "flowing", ![x].late = ~open]
  BY DEF Register, session
<1>2. stream \in [Streams -> Links] /\ open \in BOOLEAN
  BY DEF Shapes, Counting
<1>3. \A y \in Streams : /\ stream'[y] \in Links /\ stream'[y].of = stream[y].of /\ stream'[y].at = stream[y].at
                         /\ stream'[y].pc # "none" <=> stream[y].pc # "none"
  BY <1>1, <1>2 DEF Links
<1>4. stream' \in [Streams -> Links]
  <2>1. DOMAIN stream' = Streams /\ stream' = [y \in Streams |-> stream'[y]]
    BY <1>1, <1>2
  <2>. QED
    BY <1>3, <2>1
<1>5. Shapes' /\ Phases' /\ Attached' /\ Reading'
  BY <1>1, <1>4 DEF Shapes, Phases, Attached, Reading
<1>6. Up' = Up
  BY <1>3 DEF Up
<1>7. Up \subseteq Streams /\ \A y \in Up : stream'[y].of = stream[y].of /\ stream'[y].at = stream[y].at
  BY <1>3 DEF Up
<1>8. Alone'
  BY <1>1, <1>6, <1>7 DEF Alone
<1>9. Held'
  <2>1. ASSUME NEW y \in Up'
        PROVE  /\ stream'[y].of \in Viewers
               /\ state'[stream'[y].of].handle = y /\ state'[stream'[y].of].last = stream'[y].at
    <3>1. y \in Up /\ stream'[y].of = stream[y].of /\ stream'[y].at = stream[y].at /\ state' = state
      BY <1>1, <1>6, <1>7
    <3>. QED
      BY <3>1 DEF Held
  <2>2. ASSUME NEW s \in Viewers, state'[s].handle # None
        PROVE  state'[s].handle \in Up' /\ stream'[state'[s].handle].of = s /\ state'[s].ended = "no"
    <3>1. state' = state /\ state[s].handle \in Up /\ stream[state[s].handle].of = s /\ state[s].ended = "no"
      BY <1>1, <2>2 DEF Held
    <3>. QED
      BY <1>6, <1>7, <3>1
  <2>. QED
    BY <2>1, <2>2 DEF Held
<1>. QED
  BY <1>5, <1>8, <1>9

\* openStream for an object s whose stream, if it has one, is down in all: it
\* gets another, and all is known of where the stream begins.
LEMMA OpenKeeps ==
  ASSUME Inv, UNCHANGED <<log, view, entry, forsaken>>, NEW s \in Viewers, NEW since, NEW all,
         OpenStream(s, since, all),
         all \in [Streams -> Links],
         \A x \in Streams : all[x] = IF x = state[s].handle THEN NoStream ELSE stream[x],
         \/ state[s].mode = "pending" /\ state[s].start = "open" /\ since = state[s].since
         \/ state[s].mode = "live" /\ state[s].ended = "no" /\ since = state[s].last
              /\ state[s].handle # None
  PROVE  Core'
<1> USE DEF Inv, Core
<1>0. state[s] \in Objects /\ Phase(state[s], log) /\ since \in 0 .. LastEvent /\ since <= log
      /\ log \in Nat /\ s \in Viewers \cup {None}
  BY DEF Shapes, Phases, Phase, Counting, Objects
<1>1. PICK x \in Streams :
        /\ all[x] = NoStream
        /\ stream' = [all EXCEPT ![x] = [NoStream EXCEPT !.pc = "asked", !.of = s, !.at = since]]
        /\ state' = [state EXCEPT ![s].mode = "live", ![s].start = "done", ![s].last = since, ![s].handle = x]
  BY Zenon DEF OpenStream
<1> DEFINE c == [NoStream EXCEPT !.pc = "asked", !.of = s, !.at = since]
           p == [state[s] EXCEPT !.mode = "live", !.start = "done", !.last = since, !.handle = x]
<1>2. c \in Links /\ c.pc = "asked" /\ c.of = s /\ c.at = since
  BY <1>0 DEF NoStream, Links
<1>3. /\ p \in Objects /\ p.mode = "live" /\ p.start = "done" /\ p.last = since /\ p.handle = x
      /\ p.since = state[s].since /\ p.ended = state[s].ended /\ p.viewers = state[s].viewers
  BY <1>0 DEF Objects
<1>4. stream' \in [Streams -> Links] /\ \A y \in Streams : stream'[y] = IF y = x THEN c ELSE all[y]
  BY <1>1, <1>2
<1>5. \A t \in Viewers : state'[t] = IF t = s THEN p ELSE state[t]
  BY <1>1 DEF Shapes
<1>6. state' \in [Viewers -> Objects]
  <2>1. DOMAIN state' = Viewers /\ state' = [t \in Viewers |-> state'[t]]
    BY <1>1 DEF Shapes
  <2> HIDE DEF p
  <2>. QED
    BY <1>3, <1>5, <2>1 DEF Shapes
<1> HIDE DEF c, p
<1>7. p.ended = "no" /\ p.since <= p.last
  <2>1. state[s].ended = "no" /\ state[s].since <= since
    BY <1>0 DEF Phase, Objects
  <2>. QED
    BY <1>3, <2>1
<1>8. \A y \in Streams : y # x => stream'[y] = IF y = state[s].handle THEN NoStream ELSE stream[y]
  BY <1>4
<1>9. NoStream.pc = "none" /\ None \notin Streams
  BY BridgeAssumption DEF NoStream, Streams
<1>10. /\ Up' \subseteq (Up \ {state[s].handle}) \cup {x} /\ x \in Up' /\ stream'[x] = c
       /\ \A y \in Up : y # state[s].handle /\ y # x => y \in Up' /\ stream'[y] = stream[y]
       /\ \A y \in Up' \ {x} : stream'[y] = stream[y] /\ y \in Up /\ y # state[s].handle
  BY <1>2, <1>4, <1>8, <1>9 DEF Up
<1>11. x \in Up => x = state[s].handle
  BY <1>1, <1>9 DEF Up
<1>12. Shapes'
  BY <1>4, <1>6 DEF Shapes
<1>13. Phases'
  <2>1. ASSUME NEW t \in Viewers
        PROVE  Phase(state'[t], log)
    <3>1. Phase(state[t], log)
      BY DEF Phases
    <3>2. Phase(p, log)
      BY <1>0, <1>3, <1>7 DEF Phase
    <3>. QED
      BY <1>5, <3>1, <3>2
  <2>. QED
    BY <2>1 DEF Phases
<1>14. Attached'
  <2>1. \A t \in Viewers : state'[t].viewers = state[t].viewers
    BY <1>3, <1>5
  <2>2. \A t \in Viewers : state[t].mode # "none" => state'[t].mode # "none"
    BY <1>3, <1>5
  <2>3. \A t \in Viewers : state[t].mode = "none" => state'[t] = state[t]
    BY <1>5
  <2>4. \A u \in Viewers : view'[u].pc = "off" => view'[u] = NoView /\ state'[u] = NoState
    <3>1. NoState.mode = "none"
      BY DEF NoState
    <3>. QED
      BY <2>3, <3>1 DEF Attached
  <2>5. \A u \in Viewers : view'[u].pc # "off" =>
          /\ view'[u].of \in Viewers /\ state'[view'[u].of].mode # "none"
          /\ view'[u].socket # "none"
          /\ view'[u].socket = "open" => u \in state'[view'[u].of].viewers
    BY <2>1, <2>2 DEF Attached
  <2>6. \A t \in Viewers : \A u \in state'[t].viewers : view'[u].pc # "off" /\ view'[u].of = t
    BY <2>1 DEF Attached
  <2>7. entry' # None => state'[entry'].mode # "none"
    BY <2>2 DEF Attached, Shapes
  <2>. QED
    BY <2>4, <2>5, <2>6, <2>7 DEF Attached
<1>15. Held'
  <2>1. ASSUME NEW y \in Up'
        PROVE  /\ stream'[y].of \in Viewers
               /\ state'[stream'[y].of].handle = y /\ state'[stream'[y].of].last = stream'[y].at
    <3>1. CASE y = x
      BY <1>2, <1>3, <1>5, <1>10, <3>1
    <3>2. CASE y # x
      <4>1. stream'[y] = stream[y] /\ y \in Up /\ y # state[s].handle
        BY <1>10, <3>2
      <4>2. stream[y].of \in Viewers /\ state[stream[y].of].handle = y /\ state[stream[y].of].last = stream[y].at
        BY <4>1 DEF Held
      <4>. QED
        BY <1>5, <4>1, <4>2
    <3>. QED
      BY <3>1, <3>2
  <2>2. ASSUME NEW t \in Viewers, state'[t].handle # None
        PROVE  state'[t].handle \in Up' /\ stream'[state'[t].handle].of = t /\ state'[t].ended = "no"
    <3>1. CASE t = s
      BY <1>2, <1>3, <1>5, <1>7, <1>10, <3>1
    <3>2. CASE t # s
      <4> DEFINE y == state[t].handle
      <4>1. state'[t] = state[t] /\ y \in Up /\ stream[y].of = t /\ state[t].ended = "no"
        BY <1>5, <2>2, <3>2 DEF Held
      <4>2. y # state[s].handle
        <5>1. y # None
          BY <2>2, <4>1
        <5>2. state[s].handle # None => stream[state[s].handle].of = s
          BY DEF Held
        <5>. QED
          BY <3>2, <4>1, <5>1, <5>2
      <4>3. y # x
        BY <1>11, <4>1, <4>2
      <4>. QED
        BY <1>10, <4>1, <4>2, <4>3
    <3>. QED
      BY <3>1, <3>2
  <2>. QED
    BY <2>1, <2>2 DEF Held
<1>16. Alone'
  <2>1. SUFFICES ASSUME forsaken' = {}
                 PROVE  /\ \A t \in Viewers :
                             state'[t].mode = "pending" /\ state'[t].start # "failed" => t = entry'
                        /\ \A y \in Up' : stream'[y].of = entry'
    BY DEF Alone
  <2>2. /\ \A t \in Viewers : state[t].mode = "pending" /\ state[t].start # "failed" => t = entry
        /\ \A y \in Up : stream[y].of = entry
    BY <2>1 DEF Alone
  <2>3. s = entry
    <3>1. CASE state[s].mode = "pending"
      BY <2>2, <3>1
    <3>2. CASE state[s].mode # "pending"
      <4>1. state[s].handle \in Up /\ stream[state[s].handle].of = s
        BY <3>2 DEF Held
      <4>. QED
        BY <2>2, <4>1
    <3>. QED
      BY <3>1, <3>2
  <2>4. \A t \in Viewers : state'[t].mode = "pending" /\ state'[t].start # "failed" => t = entry'
    BY <1>3, <1>5, <2>2
  <2>5. \A y \in Up' : stream'[y].of = entry'
    BY <1>2, <1>10, <2>2, <2>3
  <2>. QED
    BY <2>4, <2>5
<1>17. Reading'
  <2>1. ASSUME NEW u \in Viewers, view[u].pc # "off"
        PROVE  Reads(view[u], state'[view[u].of], log)
    <3> DEFINE t == view[u].of
               w == view[u]
    <3>1. t \in Viewers /\ Reads(w, state[t], log) /\ w \in Views
      BY <2>1 DEF Reading, Attached, Shapes
    <3>2. CASE t # s
      BY <1>5, <3>1, <3>2
    <3>3. CASE t = s /\ state[s].mode = "live"
      <4>1. p.mode = state[s].mode /\ p.since = state[s].since /\ p.last = state[s].last /\ p.ended = state[s].ended
        BY <1>3, <3>3
      <4>2. state'[t] = p /\ state[t] = state[s]
        BY <1>5, <3>1, <3>3
      <4>. QED
        BY <1>0, <1>3, <3>1, <4>1, <4>2, ReadsSame
    <3>4. CASE t = s /\ state[s].mode = "pending"
      <4>1. state'[t] = p /\ w.pc # "live" /\ p.last = p.since
        BY <1>3, <1>5, <3>1, <3>4 DEF Reads
      <4>2. ASSUME Kept(w, state[s])
            PROVE  Kept(w, p)
        <5>1. w.pending = <<>> /\ Len(w.pending) = 0
          BY <3>4, <4>2 DEF Kept
        <5>2. p.last \in Nat /\ p.last - Len(w.pending) = p.since
          BY <1>0, <1>3, <4>1, <5>1
        <5>3. w.pending = Run(p.since, Len(w.pending))
          BY <5>1 DEF Run
        <5>. QED
          BY <1>7, <1>3, <4>1, <5>2, <5>3 DEF Kept
      <4>. QED
        BY <3>1, <3>4, <4>1, <4>2 DEF Reads, Got
    <3>. QED
      BY <3>2, <3>3, <3>4
  <2>. QED
    BY <2>1 DEF Reading
<1>. QED
  BY <1>12, <1>13, <1>14, <1>15, <1>16, <1>17

LEMMA StartStreamKeeps ==
  ASSUME Inv, NEW s \in Viewers, StartStream(s)
  PROVE  Core'
<1>1. state[s].mode = "pending" /\ state[s].start = "open" /\ state[s].handle = None
  BY DEF StartStream, Inv, Core, Phases, Phase
<1>2. OpenStream(s, state[s].since, stream) /\ UNCHANGED <<log, view, entry, forsaken>>
  BY DEF StartStream, session
<1>3. None \notin Streams /\ stream \in [Streams -> Links]
  BY BridgeAssumption DEF Streams, Inv, Core, Shapes
<1>. QED
  BY <1>1, <1>2, <1>3, OpenKeeps

LEMMA LaggedKeeps ==
  ASSUME Inv, NEW x \in Streams, Lagged(x)
  PROVE  Core'
<1> USE DEF Inv, Core
<1> DEFINE s == stream[x].of
           all == CloseStream(state[s].handle, CloseStream(x, stream))
<1>1. /\ x \in Up /\ UNCHANGED <<log, view, entry, forsaken>>
      /\ OpenStream(s, state[s].last, all)
  BY DEF Lagged, Flowing, Up, session
<1>2. s \in Viewers /\ state[s].handle = x
  BY <1>1 DEF Held
<1>3. None \notin Streams
  BY BridgeAssumption DEF Streams
<1>4. state[s].mode = "live" /\ state[s].ended = "no" /\ state[s].handle # None
  BY <1>2, <1>3 DEF Phases, Phase, Held
<1>5. /\ all \in [Streams -> Links]
      /\ \A y \in Streams : all[y] = IF y = x THEN NoStream ELSE stream[y]
  <2>1. /\ CloseStream(x, stream) \in [Streams -> Links]
        /\ \A y \in Streams : CloseStream(x, stream)[y] = IF y = x THEN NoStream ELSE stream[y]
    BY Closed
  <2>2. all = [CloseStream(x, stream) EXCEPT ![x] = NoStream]
    BY <1>2, <1>3 DEF CloseStream
  <2>3. NoStream \in Links
    BY LogBound DEF NoStream, Links
  <2>. QED
    BY <2>1, <2>2, <2>3
<1> HIDE DEF s, all
<1>. QED
  BY <1>1, <1>2, <1>4, <1>5, OpenKeeps
-----------------------------------------------------------------------------
(* Events, and the end.                                                    *)

\* What an event does for a viewer of the object it came for.
Delivered(w, e) ==
  IF w.socket # "open" THEN w
  ELSE IF w.pc # "live" THEN [w EXCEPT !.pending = Append(@, e)]
  ELSE IF e \in ToSet(w.got) THEN w ELSE Sent(w, e)

\* It has the event, as an open viewer has them, or keeps it.
LEMMA DeliveredReads ==
  ASSUME NEW w \in Views, NEW o \in Objects, NEW p \in Objects, NEW l \in Nat, NEW e \in Events,
         Reads(w, o, l), Phase(o, l),
         o.mode = "live", e = o.last + 1, e <= l,
         p.mode = "live", p.since = o.since, p.last = e, p.ended = o.ended
  PROVE  LET d == Delivered(w, e)
         IN  d \in Views /\ d.pc = w.pc /\ d.of = w.of /\ d.socket = w.socket /\ Reads(d, p, l)
<1> DEFINE d == Delivered(w, e)
<1>1. /\ w.hist \in Nat /\ w.got \in Seq(Events) /\ w.pending \in Seq(Events) /\ Events \subseteq Nat
      /\ o.last \in Nat /\ o.since \in Nat /\ o.since <= o.last /\ Len(w.pending) \in Nat /\ e \in Nat
  BY SMTT(60), BridgeAssumption DEF Views, Objects, Events, Phase
<1>2. CASE w.socket # "open"
  BY <1>2 DEF Delivered, Reads
<1>3. CASE w.socket = "open" /\ w.pc # "live"
  <2> DEFINE q == Append(w.pending, e)
             b == o.last - Len(w.pending)
  <2>1. q \in Seq(Events) /\ Len(q) = Len(w.pending) + 1
    BY <1>1
  <2>2. d = [w EXCEPT !.pending = q]
    BY <1>3 DEF Delivered
  <2>3. /\ d \in Views /\ d.pc = w.pc /\ d.of = w.of /\ d.socket = w.socket
        /\ d.hist = w.hist /\ d.got = w.got /\ d.pending = q
    BY <2>1, <2>2 DEF Views
  <2> HIDE DEF d
  <2>4. ASSUME Kept(w, o)
        PROVE  Kept(d, p)
    <3>1. p.last - Len(d.pending) = b
      <4>1. Len(d.pending) = Len(w.pending) + 1
        BY <2>1, <2>3
      <4>2. p.last = o.last + 1
        OBVIOUS
      <4>3. ASSUME NEW i \in Nat, NEW j \in Nat
            PROVE  (i + 1) - (j + 1) = i - j
        OBVIOUS
      <4>a. o.last \in Nat /\ Len(w.pending) \in Nat
        BY <1>1
      <4>4. (o.last + 1) - (Len(w.pending) + 1) = b
        BY <4>a, <4>3
      <4>. QED
        BY Zenon, <4>1, <4>2, <4>4
    <3>2. w.pending = Run(b, Len(w.pending)) /\ o.since <= b /\ (w.hist > 0 => b = o.since \/ b <= w.hist)
      BY <2>4 DEF Kept
    <3>3. q = Run(b, Len(q))
      <4>1. /\ \A i \in 1 .. Len(w.pending) : q[i] = w.pending[i]
            /\ q[Len(w.pending) + 1] = e /\ DOMAIN q = 1 .. Len(q)
        BY <1>1, <2>1
      <4>2. \A i \in 1 .. Len(w.pending) : w.pending[i] = b + i
        BY <3>2 DEF Run
      <4>3. e = b + (Len(w.pending) + 1)
        BY <1>1
      <4>4. \A i \in 1 .. Len(q) : q[i] = b + i
        BY SMTT(60), <1>1, <2>1, <4>1, <4>2, <4>3
      <4>5. q = [i \in 1 .. Len(q) |-> q[i]]
        BY <2>1, <4>1
      <4>. QED
        BY <4>4, <4>5 DEF Run
    <3>. QED
      BY <2>3, <3>1, <3>2, <3>3 DEF Kept
  <2>5. Reads(d, p, l)
    BY <1>3, <2>3, <2>4 DEF Reads, Got
  <2>. QED
    BY <2>3, <2>5 DEF d
<1>4. CASE w.socket = "open" /\ w.pc = "live"
  <2>1. /\ Rising(w.got) /\ w.hist <= l /\ w.hist > 0 /\ o.ended = "no"
        /\ ToSet(w.got) \subseteq 1 .. Upper(w, o)
        /\ o.since <= w.hist => ToSet(w.got) = 1 .. Upper(w, o)
    BY <1>4 DEF Reads, Got
  <2>2. CASE e \in ToSet(w.got)
    <3>1. e <= w.hist /\ Upper(w, o) = w.hist /\ Upper(w, p) = w.hist
      BY <1>1, <2>1, <2>2 DEF Upper
    <3>2. d = w
      BY <1>4, <2>2 DEF Delivered
    <3>. QED
      BY <1>4, <2>1, <3>1, <3>2 DEF Reads, Got
  <2>3. CASE e \notin ToSet(w.got)
    <3>1. e > w.hist
      <4>1. SUFFICES ASSUME e <= w.hist PROVE FALSE
        BY <1>1
      <4>2. o.since <= w.hist /\ Upper(w, o) = w.hist
        BY <1>1, <4>1 DEF Upper
      <4>. QED
        BY <1>1, <2>1, <2>3, <4>1, <4>2
    <3>2. Upper(w, o) <= o.last + 0 \/ Upper(w, o) = w.hist
      BY <1>1 DEF Upper
    <3>3. \A x \in ToSet(w.got) : x < e
      BY <1>1, <2>1, <3>1 DEF Upper
    <3> DEFINE q == Append(w.got, e)
    <3>4. Rising(q) /\ ToSet(q) = ToSet(w.got) \cup {e} /\ q \in Seq(Events)
      BY <1>1, <2>1, <3>3, RisingOn
    <3>5. d = [w EXCEPT !.got = q]
      BY <1>4, <2>3 DEF Delivered, Sent
    <3> HIDE DEF q
    <3>6. /\ d \in Views /\ d.pc = w.pc /\ d.of = w.of /\ d.socket = w.socket
          /\ d.hist = w.hist /\ d.got = q
      BY <3>4, <3>5 DEF Views
    <3>7. Upper(d, p) = e
      BY <1>1, <3>1, <3>6 DEF Upper
    <3>8. ToSet(q) \subseteq 1 .. e
      BY <1>1, <2>1, <3>3, <3>4
    <3>9. ASSUME o.since <= w.hist
          PROVE  ToSet(q) = 1 .. e
      <4>1. Upper(w, o) = o.last
        BY <1>1, <3>1 DEF Upper
      <4>2. ToSet(w.got) = 1 .. o.last
        BY <2>1, <3>9, <4>1
      <4>. QED
        BY <1>1, <3>4, <4>2
    <3>. QED
      BY <1>4, <2>1, <3>4, <3>6, <3>7, <3>8, <3>9 DEF Reads, Got
  <2>. QED
    BY <2>2, <2>3
<1>. QED
  BY <1>2, <1>3, <1>4

LEMMA DeliverKeeps ==
  ASSUME Inv, NEW x \in Streams, Deliver(x)
  PROVE  Core'
<1> USE DEF Inv, Core
<1> DEFINE s == stream[x].of
           e == stream[x].at + 1
           p == [state[s] EXCEPT !.last = e]
           c == [stream[x] EXCEPT !.at = e]
<1>1. /\ x \in Up /\ e <= log /\ UNCHANGED <<log, entry, forsaken>>
      /\ state' = [state EXCEPT ![s] = p] /\ stream' = [stream EXCEPT ![x] = c]
  BY DEF Deliver, Flowing, Up, session
<1>2. \A u \in Viewers : view'[u] = IF u \in state[s].viewers THEN Delivered(view[u], e) ELSE view[u]
  BY Zenon DEF Deliver, Delivered
<1>3. view' = [u \in Viewers |-> view'[u]]
  BY DEF Deliver
<1>4. /\ s \in Viewers /\ state[s] \in Objects /\ stream[x] \in Links
      /\ state[s].handle = x /\ state[s].last = stream[x].at
  BY <1>1 DEF Held, Shapes
<1>5. /\ state[s].mode = "live" /\ state[s].ended = "no" /\ Phase(state[s], log)
      /\ None \notin Streams
  BY <1>4, BridgeAssumption DEF Phases, Phase, Held, Streams
<1>6. log \in Nat /\ e \in Events /\ e \in 0 .. LastEvent /\ e \in Nat /\ stream[x].at \in Nat /\ state[s].last < e
  <2>1. log <= LastEvent /\ log \in Nat /\ stream[x].at \in Nat
    BY <1>4, Tally, LogBound DEF Links
  <2>. QED
    BY <1>1, <1>4, <2>1, LogBound DEF Events
<1>7. /\ p \in Objects /\ p.mode = "live" /\ p.last = e /\ p.since = state[s].since /\ p.start = state[s].start
      /\ p.ended = state[s].ended /\ p.handle = x /\ p.viewers = state[s].viewers
  BY <1>4, <1>5, <1>6 DEF Objects
<1>8. c \in Links /\ c.pc = stream[x].pc /\ c.of = s /\ c.at = e
  BY <1>4, <1>6 DEF Links
<1>9. state[s].last + 1 = e
  BY <1>4
<1> HIDE DEF s, e, p, c
<1>10. /\ state' \in [Viewers -> Objects] /\ \A t \in Viewers : state'[t] = IF t = s THEN p ELSE state[t]
       /\ stream' \in [Streams -> Links] /\ \A y \in Streams : stream'[y] = IF y = x THEN c ELSE stream[y]
  BY <1>1, <1>4, <1>7, <1>8 DEF Shapes
<1>11. ASSUME NEW u \in Viewers
       PROVE  /\ view'[u] \in Views /\ view'[u].pc = view[u].pc /\ view'[u].of = view[u].of
              /\ view'[u].socket = view[u].socket /\ (view[u].pc = "off" => view'[u] = view[u])
              /\ view[u].pc # "off" => Reads(view'[u], state'[view[u].of], log)
  <2>1. view[u] \in Views
    BY DEF Shapes
  <2>2. CASE u \in state[s].viewers
    <3>1. view[u].pc # "off" /\ view[u].of = s /\ view'[u] = Delivered(view[u], e)
      BY <1>2, <1>4, <2>2 DEF Attached
    <3>2. Reads(view[u], state[s], log) /\ state'[s] = p
      BY <1>4, <1>10, <3>1 DEF Reading
    <3>3. LET d == Delivered(view[u], e)
          IN  d \in Views /\ d.pc = view[u].pc /\ d.of = view[u].of /\ d.socket = view[u].socket
              /\ Reads(d, p, log)
      BY <1>1, <1>4, <1>5, <1>6, <1>7, <1>9, <2>1, <3>2, DeliveredReads
    <3>. QED
      BY <3>1, <3>2, <3>3
  <2>3. CASE u \notin state[s].viewers
    <3>1. view'[u] = view[u]
      BY <1>2, <2>3
    <3>2. ASSUME view[u].pc # "off"
          PROVE  Reads(view[u], state'[view[u].of], log)
      <4>1. Reads(view[u], state[view[u].of], log) /\ view[u].of \in Viewers
        BY <3>2 DEF Reading, Attached
      <4>2. CASE view[u].of = s
        <5>1. view[u].socket # "open"
          BY <2>3, <3>2, <4>2 DEF Attached
        <5>. QED
          BY <1>5, <1>7, <1>10, <4>1, <4>2, <5>1 DEF Reads
      <4>3. CASE view[u].of # s
        BY <1>10, <4>1, <4>3
      <4>. QED
        BY <4>2, <4>3
    <3>. QED
      BY <2>1, <3>1, <3>2
  <2>. QED
    BY <2>2, <2>3
<1>12. Shapes'
  BY <1>1, <1>3, <1>10, <1>11 DEF Shapes
<1>13. Phases'
  <2>1. Phase(p, log)
    <3>1. state[s].since <= e
      BY <1>4, <1>5, <1>6 DEF Phase, Objects
    <3>. QED
      BY <1>1, <1>4, <1>5, <1>7, <3>1 DEF Phase, e
  <2>. QED
    BY <1>1, <1>10, <2>1 DEF Phases
<1>14. Attached'
  <2>1. /\ \A t \in Viewers : state'[t].viewers = state[t].viewers /\ state'[t].mode = state[t].mode
        /\ \A t \in Viewers : state[t].mode = "none" => state'[t] = state[t]
    BY <1>5, <1>7, <1>10
  <2>2. \A u \in Viewers : view'[u].pc = "off" => view'[u] = NoView /\ state'[u] = NoState
    <3>1. NoState.mode = "none"
      BY DEF NoState
    <3>. QED
      BY <1>11, <2>1, <3>1 DEF Attached
  <2>3. \A u \in Viewers : view'[u].pc # "off" =>
          /\ view'[u].of \in Viewers /\ state'[view'[u].of].mode # "none"
          /\ view'[u].socket # "none"
          /\ view'[u].socket = "open" => u \in state'[view'[u].of].viewers
    BY <1>11, <2>1 DEF Attached
  <2>4. ASSUME NEW t \in Viewers, NEW u \in state'[t].viewers
        PROVE  view'[u].pc # "off" /\ view'[u].of = t
    <3>1. u \in Viewers /\ u \in state[t].viewers
      BY <1>10, <2>1 DEF Objects
    <3>. QED
      BY <1>11, <3>1 DEF Attached
  <2>5. entry' # None => state'[entry'].mode # "none"
    BY <1>1, <2>1 DEF Attached, Shapes
  <2>. QED
    BY <2>2, <2>3, <2>4, <2>5 DEF Attached
<1>15. Up' = Up /\ \A y \in Up : stream'[y].of = stream[y].of
  BY <1>8, <1>10 DEF Up, s
<1>16. Held'
  <2>1. ASSUME NEW y \in Up'
        PROVE  /\ stream'[y].of \in Viewers
               /\ state'[stream'[y].of].handle = y /\ state'[stream'[y].of].last = stream'[y].at
    <3>1. CASE y = x
      BY <1>4, <1>7, <1>8, <1>10, <3>1
    <3>2. CASE y # x
      <4>1. y \in Up /\ y \in Streams /\ stream'[y] = stream[y]
        BY <1>10, <1>15, <3>2 DEF Up
      <4>2. stream[y].of \in Viewers /\ state[stream[y].of].handle = y /\ state[stream[y].of].last = stream[y].at
        BY <4>1 DEF Held
      <4>3. stream[y].of # s
        BY <1>4, <3>2, <4>2
      <4>. QED
        BY <1>10, <4>1, <4>2, <4>3
    <3>. QED
      BY <3>1, <3>2
  <2>2. \A t \in Viewers : state'[t].handle = state[t].handle /\ state'[t].ended = state[t].ended
    BY <1>4, <1>7, <1>10
  <2>3. \A t \in Viewers : state'[t].handle # None =>
          state'[t].handle \in Up' /\ stream'[state'[t].handle].of = t /\ state'[t].ended = "no"
    BY <1>15, <2>2 DEF Held
  <2>. QED
    BY <2>1, <2>3 DEF Held
<1>17. Alone'
  <2>1. \A t \in Viewers : state'[t].mode = state[t].mode /\ state'[t].start = state[t].start
    BY <1>5, <1>7, <1>10
  <2>. QED
    BY <1>1, <1>15, <2>1 DEF Alone
<1>18. Reading'
  BY <1>1, <1>11 DEF Reading
<1>. QED
  BY <1>12, <1>13, <1>14, <1>16, <1>17, <1>18
\* What is sent when what was kept is flushed.
LEMMA Flushed ==
  ASSUME NEW w \in Views, w.pc = "wait", NEW o \in Objects, NEW l \in Nat, Reads(w, o, l), Phase(o, l)
  PROVE  LET f == Flush(w)
         IN  /\ f \in Views /\ f.of = w.of /\ f.hist = w.hist /\ f.socket = w.socket /\ Rising(f.got)
             /\ w.socket = "open" /\ o.mode = "live" =>
                  /\ ToSet(f.got) \subseteq 1 .. Upper(w, o)
                  /\ o.since <= w.hist => ToSet(f.got) = 1 .. Upper(w, o)
<1> DEFINE f == Flush(w)
           n == Len(w.pending)
           b == o.last - n
<1>1. /\ w.hist \in Nat /\ w.pending \in Seq(Events) /\ n \in Nat /\ o.last \in Nat /\ o.since \in Nat
  BY BridgeAssumption DEF Views, Objects
<1>2. PICK sent \in [0 .. n -> Seq(Events)] :
        f = [w EXCEPT !.got = IF w.socket = "open" THEN sent[n] ELSE @, !.pending = <<>>]
  BY FlushSteps
<1> HIDE DEF n, f
<1> DEFINE q == IF w.socket = "open" THEN sent[n] ELSE w.got
<1>3. q \in Seq(Events) /\ <<>> \in Seq(Events)
  BY <1>1, <1>2 DEF Views
<1>a. f = [w EXCEPT !.got = q, !.pending = <<>>] /\ (w.socket # "open" => q = w.got)
  BY <1>2
<1> HIDE DEF q
<1>4. /\ f \in Views /\ f.of = w.of /\ f.hist = w.hist /\ f.socket = w.socket
      /\ w.socket # "open" => f.got = w.got
  BY <1>3, <1>a DEF Views
<1>5. CASE w.socket # "open"
  BY <1>4, <1>5 DEF Reads, f
<1>6. CASE w.socket = "open"
  <2> USE DEF f, n
  <2>1. w.got = Run(0, w.hist) /\ Kept(w, o)
    BY <1>6 DEF Reads, Got
  <2>2. w.pending = Run(b, n) /\ (o.mode # "live" => n = 0) /\ (o.mode = "live" => o.since <= b)
        /\ (o.mode = "live" => b = o.since \/ b <= w.hist)
    BY <2>1 DEF Kept, Reads
  <2>3. b \in Nat /\ b + n = o.last
    BY <1>1, <2>2
  <2>4. Rising(f.got) /\ ToSet(f.got) = Span(w.hist, b, n)
    BY <1>6, <2>1, <2>2, <2>3, FlushRises
  <2>5. Span(w.hist, b, n) = (1 .. w.hist) \cup (b + 1 .. o.last)
    BY <2>3 DEF Span
  <2> HIDE DEF f, n, b
  <2>6. Span(w.hist, b, n) \subseteq 1 .. Upper(w, o)
    <3>1. ASSUME NEW u \in Nat, NEW h \in Nat, NEW c \in Nat, NEW m \in Nat, h <= u, m <= u
          PROVE  (1 .. h) \cup (c + 1 .. m) \subseteq 1 .. u
      BY <3>1
    <3>2. Upper(w, o) \in Nat /\ w.hist <= Upper(w, o) /\ o.last <= Upper(w, o)
      BY <1>1 DEF Upper
    <3>. QED
      BY SMTT(60), <1>1, <2>3, <2>5, <3>1, <3>2
  <2>7. ASSUME o.mode = "live", o.since <= w.hist
        PROVE  Span(w.hist, b, n) = 1 .. Upper(w, o)
    <3>1. b <= w.hist /\ b <= o.last
      BY <1>1, <2>2, <2>3, <2>7
    <3>2. ASSUME NEW h \in Nat, NEW c \in Nat, NEW m \in Nat, c <= h, c <= m
          PROVE  (1 .. h) \cup (c + 1 .. m) = 1 .. (IF m > h THEN m ELSE h)
      BY <3>2
    <3>a. w.hist \in Nat /\ o.last \in Nat /\ b \in Nat
      BY <1>1, <2>3
    <3>3. (1 .. w.hist) \cup (b + 1 .. o.last) = 1 .. (IF o.last > w.hist THEN o.last ELSE w.hist)
      BY <3>a, <3>1, <3>2
    <3>. QED
      BY Zenon, <2>5, <3>3 DEF Upper
  <2>8. Rising(f.got) /\ ToSet(f.got) \subseteq 1 .. Upper(w, o)
    BY <2>4, <2>6
  <2>9. o.mode = "live" /\ o.since <= w.hist => ToSet(f.got) = 1 .. Upper(w, o)
    BY <2>4, <2>7
  <2>10. Flush(w) = f
    BY DEF f
  <2>. QED
    BY Zenon, <1>4, <2>8, <2>9, <2>10
<1>. QED
  BY <1>5, <1>6

\* A socket that was told is not open.
LEMMA Told ==
  ASSUME NEW w \in Views, w.socket # "none", NEW why \in {"closed", "error"}
  PROVE  LET t == Tell(w, why)
         IN  /\ t \in Views /\ t.socket \in {"closing", "closed"}
             /\ t.pc = w.pc /\ t.of = w.of /\ t.hist = w.hist /\ t.got = w.got
<1>1. w.socket \in {"open", "closing", "closed"}
  BY DEF Views
<1>. QED
  BY <1>1 DEF Tell, Views

LEMMA GoLiveKeeps ==
  ASSUME Inv, NEW v \in Viewers, GoLive(v)
  PROVE  Core'
<1> USE DEF Inv, Core
<1> DEFINE s == view[v].of
           f == Flush(view[v])
           w == [f EXCEPT !.pc = "live"]
           why == IF state[s].ended = "no" THEN "closed" ELSE state[s].ended
<1>1. /\ view[v].pc = "wait" /\ state[s].mode # "pending" /\ UNCHANGED log
      /\ IF Ended(s) THEN view' = [view EXCEPT ![v] = Tell(w, why)] /\ RemoveDownstream(v)
                     ELSE view' = [view EXCEPT ![v] = w] /\ UNCHANGED <<state, entry, stream, forsaken>>
  BY Zenon DEF GoLive, session
<1>2. /\ view[v] \in Views /\ s \in Viewers /\ state[s] \in Objects /\ Reads(view[v], state[s], log)
      /\ Phase(state[s], log) /\ log \in Nat /\ view[v].socket # "none" /\ state[s].mode # "none"
  BY <1>1 DEF Shapes, Attached, Reading, Phases, Counting
<1>3. /\ f \in Views /\ f.of = s /\ f.hist = view[v].hist /\ f.socket = view[v].socket /\ Rising(f.got)
      /\ view[v].socket = "open" /\ state[s].mode = "live" =>
           /\ ToSet(f.got) \subseteq 1 .. Upper(view[v], state[s])
           /\ state[s].since <= view[v].hist => ToSet(f.got) = 1 .. Upper(view[v], state[s])
  BY <1>1, <1>2, Flushed
<1> HIDE DEF f
<1>4. w \in Views /\ w.pc = "live" /\ w.of = s /\ w.hist = f.hist /\ w.socket = f.socket /\ w.got = f.got
  BY <1>3 DEF Views
<1>5. view[v].hist > 0 /\ view[v].hist <= log
  BY <1>1, <1>2 DEF Reads
<1> HIDE DEF w
<1>6. CASE Ended(s)
  <2>1. why \in {"closed", "error"}
    BY <1>2 DEF Objects
  <2>2. Leaving(view[v], Tell(w, why), state[s])
    BY <1>1, <1>2, <1>3, <1>4, <1>5, <2>1, Told DEF Leaving
  <2> HIDE DEF why
  <2>. QED
    BY <1>1, <1>2, <1>6, <2>2, LetGo
<1>7. CASE ~Ended(s)
  <2>1. state[s].mode = "live" /\ state[s].ended = "no"
    BY <1>1, <1>2, <1>7 DEF Ended, Objects
  <2>2. Upper(w, state[s]) = Upper(view[v], state[s])
    BY <1>3, <1>4 DEF Upper
  <2>3. Reads(w, state[s], log)
    BY <1>3, <1>4, <1>5, <2>1, <2>2 DEF Reads, Got
  <2>4. view' \in [Viewers -> Views] /\ \A u \in Viewers : view'[u] = IF u = v THEN w ELSE view[u]
    BY <1>1, <1>4, <1>7 DEF Shapes
  <2>5. state' \in [Viewers -> Objects] /\ state' = state
    BY <1>1, <1>7 DEF Shapes
  <2>6. \A u \in Viewers : view'[u] # view[u] =>
          Onward(view[u], view'[u]) /\ Reads(view'[u], state'[view[u].of], log)
    BY <1>1, <1>3, <1>4, <2>3, <2>4, <2>5 DEF Onward
  <2>. QED
    BY <1>1, <1>2, <1>7, <2>4, <2>5, <2>6, GoOn
<1>. QED
  BY <1>6, <1>7

LEMMA GiveUpKeeps ==
  ASSUME Inv, NEW v \in Viewers, view[v].pc \in {"history", "wait"}, GiveUp(v)
  PROVE  Core'
<1> USE DEF Inv, Core
<1> DEFINE t == Tell(view[v], "error")
           w == [t EXCEPT !.pc = "over"]
           s == view[v].of
<1>1. /\ view' = [view EXCEPT ![v] = w] /\ RemoveDownstream(v) /\ UNCHANGED log
  BY DEF GiveUp, session
<1>2. /\ view[v] \in Views /\ s \in Viewers /\ Reads(view[v], state[s], log) /\ log \in Nat
      /\ view[v].socket # "none"
  BY DEF Shapes, Attached, Reading, Counting
<1>3. /\ t \in Views /\ t.socket \in {"closing", "closed"}
      /\ t.of = s /\ t.hist = view[v].hist /\ t.got = view[v].got
  BY <1>2, Told
<1> HIDE DEF t
<1>4. Leaving(view[v], w, state[s])
  BY <1>2, <1>3 DEF Leaving, Views, Reads
<1> HIDE DEF w
<1>. QED
  BY <1>1, <1>2, <1>4, LetGo

LEMMA SocketClosedKeeps ==
  ASSUME Inv, NEW v \in Viewers, SocketClosed(v)
  PROVE  Core'
<1> USE DEF Inv, Core
<1> DEFINE w == [view[v] EXCEPT !.socket = "closed", !.pending = <<>>]
           s == view[v].of
<1>1. view[v].socket \in {"open", "closing"} /\ RemoveDownstream(v) /\ UNCHANGED log
  BY DEF SocketClosed, session
<1>2. view[v] \in Views /\ view \in [Viewers -> Views]
  BY DEF Shapes
<1>3. view' = [view EXCEPT ![v] = w]
  BY <1>2 DEF SocketClosed
<1>4. view[v].pc # "off"
  BY <1>1 DEF Attached, NoView
<1>5. Reads(view[v], state[s], log) /\ log \in Nat
  BY <1>4 DEF Reading, Counting
<1>6. /\ w \in Views /\ w.pc = view[v].pc /\ w.of = s /\ w.hist = view[v].hist
      /\ w.socket = "closed" /\ w.got = view[v].got
  <2>1. <<>> \in Seq(Events)
    OBVIOUS
  <2>2. w \in Views
    BY <1>2, <2>1 DEF Views
  <2>. QED
    BY <1>2, <2>2 DEF Views
<1> HIDE DEF w
<1>7. Leaving(view[v], w, state[s])
  BY <1>4, <1>5, <1>6 DEF Leaving, Reads
<1>. QED
  BY <1>1, <1>3, <1>4, <1>5, <1>7, LetGo

\* endSession: the stream is down, its object has ended, and who was live of it
\* was told.
LEMMA EndSessionKeeps ==
  ASSUME Inv, NEW x \in Up, NEW why \in {"closed", "error"}, EndSession(x, why), UNCHANGED <<log, forsaken>>
  PROVE  Core'
<1> USE DEF Inv, Core
<1> DEFINE s == stream[x].of
           p == [state[s] EXCEPT !.ended = why, !.handle = None]
<1>1. x \in Streams /\ s \in Viewers /\ state[s].handle = x /\ None \notin Streams /\ state[s] \in Objects
  BY BridgeAssumption DEF Up, Held, Streams, Shapes
<1>2. state[s].ended = "no" /\ state[s].mode = "live" /\ Phase(state[s], log)
  BY <1>1 DEF Held, Phases, Phase
<1>3. /\ entry' = None /\ state' = [state EXCEPT ![s].ended = why, ![s].handle = None]
      /\ view' = [v \in Viewers |-> IF v \in state[s].viewers /\ view[v].pc = "live"
                                      THEN Tell(view[v], why) ELSE view[v]]
      /\ stream' = CloseStream(x, CloseStream(x, stream))
  BY <1>1, <1>2 DEF EndSession
<1>4. /\ p \in Objects /\ p.viewers = state[s].viewers /\ p.handle = None /\ p.ended = why
      /\ SameCourse(state[s], [p EXCEPT !.ended = "no"])
      /\ p.mode = state[s].mode /\ p.start = state[s].start /\ p.since = state[s].since /\ p.last = state[s].last
  BY <1>1, <1>2 DEF Objects, SameCourse
<1>5. \A t \in Viewers : state'[t] = IF t = s THEN p ELSE state[t]
  BY <1>1, <1>3 DEF Shapes
<1>6. state' \in [Viewers -> Objects]
  <2>1. DOMAIN state' = Viewers /\ state' = [t \in Viewers |-> state'[t]]
    BY <1>3 DEF Shapes
  <2> HIDE DEF p
  <2>. QED
    BY <1>4, <1>5, <2>1 DEF Shapes
<1>7. /\ stream' \in [Streams -> Links]
      /\ \A y \in Streams : stream'[y] = IF y = x THEN NoStream ELSE stream[y]
  <2>1. /\ CloseStream(x, stream) \in [Streams -> Links]
        /\ \A y \in Streams : CloseStream(x, stream)[y] = IF y = x THEN NoStream ELSE stream[y]
    BY <1>1, Closed
  <2>2. stream' = [CloseStream(x, stream) EXCEPT ![x] = NoStream]
    BY <1>1, <1>3 DEF CloseStream
  <2>3. NoStream \in Links
    BY LogBound DEF NoStream, Links
  <2>. QED
    BY <2>1, <2>2, <2>3
<1>8. Up' = Up \ {x} /\ \A y \in Up' : stream'[y] = stream[y] /\ y \in Up /\ y # x
  BY <1>1, <1>7 DEF Up, NoStream
<1> HIDE DEF p
<1>9. ASSUME NEW u \in Viewers
      PROVE  /\ view'[u] \in Views /\ view'[u].pc = view[u].pc /\ view'[u].of = view[u].of
             /\ view'[u].hist = view[u].hist /\ view'[u].got = view[u].got
             /\ view'[u].socket = "open" => view'[u] = view[u]
             /\ view'[u].socket = "open" /\ u \in state[s].viewers => view[u].pc # "live"
             /\ view[u].socket # "none" => view'[u].socket # "none"
             /\ view[u].pc = "off" => view'[u] = view[u]
  <2>1. view[u] \in Views
    BY DEF Shapes
  <2>2. CASE u \in state[s].viewers /\ view[u].pc = "live"
    <3>1. view[u].socket # "none" /\ view'[u] = Tell(view[u], why)
      BY <1>3, <2>2 DEF Attached
    <3>. QED
      BY <2>1, <2>2, <3>1, Told
  <2>3. CASE ~(u \in state[s].viewers /\ view[u].pc = "live")
    BY <1>3, <2>1, <2>3
  <2>. QED
    BY <2>2, <2>3
<1>10. Shapes'
  <2>1. view' = [u \in Viewers |-> view'[u]]
    BY <1>3
  <2>. QED
    BY <1>3, <1>6, <1>7, <1>9, <2>1 DEF Shapes
<1>11. Phases'
  <2>1. Phase(p, log)
    BY Zenon, <1>2, <1>4 DEF Phase
  <2>. QED
    BY <1>5, <2>1 DEF Phases
<1>12. Attached'
  <2>1. /\ \A t \in Viewers : state'[t].viewers = state[t].viewers /\ state'[t].mode = state[t].mode
        /\ \A t \in Viewers : state[t].mode = "none" => state'[t] = state[t]
    BY <1>2, <1>4, <1>5
  <2>2. \A u \in Viewers : view'[u].pc = "off" => view'[u] = NoView /\ state'[u] = NoState
    <3>1. NoState.mode = "none"
      BY DEF NoState
    <3>. QED
      BY <1>9, <2>1, <3>1 DEF Attached
  <2>3. \A u \in Viewers : view'[u].pc # "off" =>
          /\ view'[u].of \in Viewers /\ state'[view'[u].of].mode # "none"
          /\ view'[u].socket # "none"
          /\ view'[u].socket = "open" => u \in state'[view'[u].of].viewers
    BY <1>9, <2>1 DEF Attached
  <2>4. ASSUME NEW t \in Viewers, NEW u \in state'[t].viewers
        PROVE  view'[u].pc # "off" /\ view'[u].of = t
    <3>1. u \in Viewers /\ u \in state[t].viewers
      BY <1>6, <2>1 DEF Objects
    <3>. QED
      BY <1>9, <3>1 DEF Attached
  <2>. QED
    BY Zenon, <1>3, <2>2, <2>3, <2>4 DEF Attached
<1>13. Held'
  <2>1. ASSUME NEW y \in Up'
        PROVE  /\ stream'[y].of \in Viewers
               /\ state'[stream'[y].of].handle = y /\ state'[stream'[y].of].last = stream'[y].at
    <3>1. stream'[y] = stream[y] /\ y \in Up /\ y # x
      BY <1>8
    <3>2. stream[y].of \in Viewers /\ state[stream[y].of].handle = y /\ state[stream[y].of].last = stream[y].at
      BY <3>1 DEF Held
    <3>. QED
      BY <1>1, <1>5, <3>1, <3>2
  <2>2. ASSUME NEW t \in Viewers, state'[t].handle # None
        PROVE  state'[t].handle \in Up' /\ stream'[state'[t].handle].of = t /\ state'[t].ended = "no"
    <3>1. t # s /\ state'[t] = state[t]
      BY <1>4, <1>5, <2>2
    <3>2. state[t].handle \in Up /\ stream[state[t].handle].of = t /\ state[t].ended = "no"
      BY <2>2, <3>1 DEF Held
    <3>3. state[t].handle # x
      BY <3>1, <3>2
    <3>. QED
      BY <1>8, <3>1, <3>2, <3>3
  <2>. QED
    BY <2>1, <2>2 DEF Held
<1>14. Alone'
  <2>1. SUFFICES ASSUME forsaken' = {}
                 PROVE  /\ \A t \in Viewers :
                             state'[t].mode = "pending" /\ state'[t].start # "failed" => t = entry'
                        /\ \A y \in Up' : stream'[y].of = entry'
    BY DEF Alone
  <2>2. /\ \A t \in Viewers : state[t].mode = "pending" /\ state[t].start # "failed" => t = s
        /\ \A y \in Up : stream[y].of = s
    BY <2>1 DEF Alone
  <2>3. \A t \in Viewers : ~(state'[t].mode = "pending" /\ state'[t].start # "failed")
    BY <1>2, <1>4, <1>5, <2>2
  <2>4. Up' = {}
    BY <1>1, <1>8, <2>2 DEF Held
  <2>. QED
    BY <2>3, <2>4
<1>15. Reading'
  <2>1. ASSUME NEW u \in Viewers, view'[u].pc # "off"
        PROVE  Reads(view'[u], state'[view'[u].of], log')
    <3> DEFINE t == view[u].of
               w == view[u]
    <3>1. t \in Viewers /\ Reads(w, state[t], log) /\ view'[u].of = t /\ log' = log
      BY <1>9, <2>1 DEF Reading, Attached
    <3>2. CASE view'[u].socket # "open"
      <4>1. state'[t].mode = state[t].mode
        BY <1>4, <1>5, <3>1
      <4>. QED
        BY <1>9, <3>1, <3>2, <4>1 DEF Reads
    <3>3. CASE view'[u].socket = "open" /\ t # s
      BY <1>5, <1>9, <3>1, <3>3
    <3>4. CASE view'[u].socket = "open" /\ t = s
      <4>1. w.pc # "live" /\ view'[u] = w
        BY <1>9, <2>1, <3>4 DEF Attached
      <4>2. Kept(w, state[s]) => Kept(w, p)
        BY <1>4 DEF Kept
      <4>3. state'[t] = p
        BY <1>5, <3>1, <3>4
      <4>. QED
        BY <3>1, <3>4, <4>1, <4>2, <4>3 DEF Reads, Got
    <3>. QED
      BY <3>2, <3>3, <3>4
  <2>. QED
    BY <2>1 DEF Reading
<1>. QED
  BY <1>10, <1>11, <1>12, <1>13, <1>14, <1>15
-----------------------------------------------------------------------------
(* Every step keeps the invariant.                                         *)

LEMMA LogKeeps ==
  ASSUME Inv, Commit \/ Close \/ JoinServed
  PROVE  Core'
<1>1. /\ log' = log \/ log' = log + 1
      /\ UNCHANGED <<view, state, entry, stream, forsaken>>
  BY DEF Commit, Close, JoinServed, Join
<1>2. log \in Nat /\ Core
  BY DEF Inv, Counting
<1>3. log' \in Nat /\ log <= log'
  BY <1>1, <1>2
<1>. QED
  BY <1>1, <1>2, <1>3, LogGrows

LEMMA CoreKept ==
  ASSUME Inv, Next
  PROVE  Core'
<1>1. ASSUME NEW v \in Viewers, StartFailed(v) \/ HistoryFails(v)
      PROVE  Core'
  <2>1. view[v].pc \in {"history", "wait"} /\ GiveUp(v)
    BY <1>1 DEF StartFailed, HistoryFails
  <2>. QED
    BY <2>1, GiveUpKeeps
<1>2. ASSUME NEW x \in Streams, StreamEnds(x) \/ StreamBreaks(x)
      PROVE  Core'
  <2>1. x \in Up /\ UNCHANGED <<log, forsaken>> /\ (EndSession(x, "closed") \/ EndSession(x, "error"))
    BY <1>2 DEF StreamEnds, StreamBreaks, Flowing, Up, session
  <2>. QED
    BY <2>1, EndSessionKeeps
<1>3. CASE Continue
  BY <1>1, <1>3, StartStreamKeeps, GoLiveKeeps DEF Continue
<1>4. CASE Answer
  BY <1>4, ResolveAnswers, MintAnswers, JoinAnswers, AnswersKeep, LogKeeps DEF Answer
<1>5. CASE Commit \/ Close
  BY <1>5, LogKeeps
<1>6. CASE \E v \in Viewers : Connect(v) \/ SocketClosed(v) \/ History(v) \/ HistoryFails(v)
  BY <1>1, <1>6, ConnectKeeps, SocketClosedKeeps, ReadHistoryKeeps, SendHistoryKeeps DEF History
<1>7. CASE \E x \in Streams : Register(x) \/ Deliver(x) \/ Lagged(x) \/ StreamEnds(x) \/ StreamBreaks(x)
  BY <1>2, <1>7, RegisterKeeps, DeliverKeeps, LaggedKeeps
<1>. QED
  BY <1>3, <1>4, <1>5, <1>6, <1>7 DEF Next

\* Of the events of a session one is the close, at most, and all but one of the
\* joins have cost a fault.
LEMMA Counted ==
  ASSUME Inv, Next
  PROVE  Counting'
<1> USE DEF Inv, Counting, session, keys, bounds
<1>0. MaxLog \in Nat /\ MaxLags \in Nat /\ MaxFaults \in Nat
  BY BridgeAssumption
<1>1. ASSUME UNCHANGED <<session, keys>>, UNCHANGED bounds \/ Fails \/ (UNCHANGED faults /\ lags < MaxLags /\ lags' = lags + 1)
      PROVE  Counting'
  <2>1. lags' \in 0 .. MaxLags /\ faults' \in 0 .. MaxFaults /\ unheard \in 0 .. faults'
    BY <1>0, <1>1 DEF Fails
  <2>. QED
    BY Zenon, <1>1, <2>1
<1>2. CASE Continue
  BY <1>1, <1>2 DEF Continue, StartStream, StartFailed, GoLive, GiveUp
<1>3. ASSUME NEW v \in Viewers, Connect(v) \/ SocketClosed(v) \/ History(v) \/ HistoryFails(v)
      PROVE  Counting'
  BY <1>1, <1>3 DEF Connect, SocketClosed, History, ReadHistory, SendHistory, HistoryFails, GiveUp
<1>4. ASSUME NEW x \in Streams, Register(x) \/ Deliver(x) \/ Lagged(x) \/ StreamEnds(x) \/ StreamBreaks(x)
      PROVE  Counting'
  BY <1>1, <1>4 DEF Register, Deliver, Lagged, StreamEnds, StreamBreaks
<1>5. CASE Commit \/ Close
  <2>1. /\ open /\ log' = log + 1 /\ UNCHANGED <<observer, join, joined, unheard, lags, faults>>
        /\ (open' = open /\ log < MaxLog) \/ open' = FALSE
    BY <1>5 DEF Commit, Close
  <2>a. log \in Nat /\ joined \in Nat /\ log <= MaxLog + joined + 0
    BY <2>1
  <2>2. open' \in BOOLEAN
    BY Zenon, <2>1
  <2> HIDE DEF Inv, Counting
  <2>3. log' \in Nat /\ log' >= 1
    BY <2>1, <2>a
  <2>4. log' <= MaxLog + joined + (IF open' THEN 0 ELSE 1)
    <3>1. CASE open' = open /\ log < MaxLog
      BY <1>0, <2>1, <2>a, <3>1
    <3>2. CASE open' = FALSE
      BY <1>0, <2>1, <2>a, <3>2
    <3>. QED
      BY <2>1, <3>1, <3>2
  <2>. QED
    BY Zenon, <2>1, <2>2, <2>3, <2>4 DEF Inv, Counting
<1>6. CASE Answer
  <2>1. UNCHANGED lags /\ faults' \in 0 .. MaxFaults /\ (faults' = faults \/ faults' = faults + 1)
    BY <1>0, <1>6 DEF Answer, Resolve, MintAnswered, JoinServed, Join, JoinAnswered, Fails
  <2>2. CASE JoinServed
    <3>1. open' = open /\ observer' = observer /\ join = "asked"
      BY <2>2 DEF JoinServed
    <3>2. \/ /\ open /\ join' = "granted" /\ log' = log + 1 /\ joined' = joined + 1
             /\ unheard' = unheard /\ faults' = faults
          \/ /\ open /\ join' = "failed" /\ log' = log + 1 /\ joined' = joined + 1
             /\ unheard' = unheard + 1 /\ faults' = faults + 1
          \/ join' \in {"refused", "failed"} /\ log' = log /\ joined' = joined /\ unheard' = unheard
      BY <2>2 DEF JoinServed, Join, Fails
    <3>. QED
      BY <1>0, <2>1, <3>1, <3>2
  <2>3. CASE ~JoinServed
    <3>1. /\ UNCHANGED session /\ joined' = joined /\ unheard' = unheard
          /\ observer' \in {"none", "asked", "minted"}
      BY <1>6, <2>3 DEF Answer, Resolve, MintAnswered, JoinAnswered
    <3>2. /\ join' \in {"none", "asked", "granted", "refused", "failed", "cached"}
          /\ join' \in {"granted", "cached"} <=> join \in {"granted", "cached"}
      BY <1>6, <2>3 DEF Answer, Resolve, MintAnswered, JoinAnswered, JoinSent
    <3>. QED
      BY <1>0, <2>1, <3>1, <3>2
  <2>. QED
    BY <2>2, <2>3
<1>. QED
  BY <1>2, <1>3, <1>4, <1>5, <1>6 DEF Next

LEMMA InvKept == Inv /\ [Next]_vars => Inv'
<1> SUFFICES ASSUME Inv, [Next]_vars PROVE Inv'
  OBVIOUS
<1>1. CASE Next
  BY <1>1, CoreKept, Counted DEF Inv
<1>2. CASE UNCHANGED vars
  <2>1. UNCHANGED <<open, log, view, state, entry, stream, observer, join, joined, unheard, forsaken, lags, faults>>
    BY <1>2 DEF vars, session, keys, bounds
  <2>2. Counting' /\ Up' = Up
    BY <2>1 DEF Inv, Counting, Up
  <2>3. Shapes' /\ Phases' /\ Attached' /\ Reading'
    BY <2>1 DEF Inv, Core, Shapes, Phases, Attached, Reading
  <2>4. Held' /\ Alone'
    BY <2>1, <2>2 DEF Inv, Core, Held, Alone
  <2>. QED
    BY <2>2, <2>3, <2>4 DEF Inv, Core
<1>. QED
  BY <1>1, <1>2

LEMMA InvHolds == Spec => []Inv
<1>. QED
  BY InitInv, InvKept, PTL DEF Spec

-----------------------------------------------------------------------------
\* The bridge's sockets, objects, streams and keys are in the states the code
\* can put them in, and its log has no event but those of the session.
THEOREM BridgeTypes == Spec => []TypeOK
<1>1. ASSUME Inv PROVE TypeOK
  <2>1. /\ MaxLog \in Nat /\ log \in Events
        /\ unheard \in 0 .. MaxFaults /\ joined \in 0 .. MaxFaults + 1
    BY <1>1, Tally, LogBound, BridgeAssumption DEF Inv, Counting, Events
  <2>2. view \in [Viewers -> Views] /\ state \in [Viewers -> Objects] /\ stream \in [Streams -> Links]
        /\ entry \in Viewers \cup {None} /\ forsaken \subseteq Viewers
    BY <1>1 DEF Inv, Core, Shapes
  <2>3. open \in BOOLEAN /\ observer \in {"none", "asked", "minted"}
        /\ join \in {"none", "asked", "granted", "refused", "failed", "cached"}
        /\ lags \in 0 .. MaxLags /\ faults \in 0 .. MaxFaults
    BY <1>1 DEF Inv, Counting
  <2>. QED
    BY Zenon, <2>1, <2>2, <2>3 DEF TypeOK, Views, Objects, Links
<1>2. Inv => TypeOK
  BY <1>1
<1>. QED
  BY <1>2, InvHolds, PTL

\* The bridge joins the session once in its life, and once more for each join
\* that the server did and whose answer was lost: getSessionKey keeps the key it
\* gets, and a join under way is waited for by every object that needs it.
THEOREM JoinedOnce == Spec => []JoinsOnce
<1>1. Inv => JoinsOnce
  BY DEF Inv, Counting, JoinsOnce
<1>. QED
  BY <1>1, InvHolds, PTL

\* As long as no object lost its last viewer before it had started, there is one
\* stream to the server, that of the object in the map.
THEOREM OneStream == Spec => []OneUpstream
<1>1. ASSUME Inv, forsaken = {}, NEW x \in Up, NEW y \in Up
      PROVE  stream[x].of = entry /\ x = y
  <2>1. stream[x].of = entry /\ stream[y].of = entry
    BY <1>1 DEF Inv, Core, Alone
  <2>2. state[entry].handle = x /\ state[entry].handle = y
    BY <1>1, <2>1 DEF Inv, Core, Held
  <2>. QED
    BY <2>1, <2>2
<1>2. Inv => OneUpstream
  BY <1>1 DEF OneUpstream
<1>. QED
  BY <1>2, InvHolds, PTL

\* No viewer gets an event twice or out of order, and a live one has them all up
\* to the position of its stream: what flushPending skips is what the history
\* had, and onLagged opens the next stream where the last one stopped.
THEOREM FollowsLog == Spec => []FollowsTheLog
<1>1. ASSUME Inv, NEW v \in Viewers
      PROVE  /\ Rising(view[v].got)
             /\ view[v].pc = "live" /\ view[v].socket = "open" /\ state[view[v].of].since <= view[v].hist
                  => ToSet(view[v].got) = 1 .. Upper(view[v], state[view[v].of])
  <2>1. CASE view[v].pc = "off"
    <3>1. view[v].got = <<>> /\ view[v].pc # "live"
      BY <1>1, <2>1 DEF Inv, Core, Attached, NoView
    <3>. QED
      BY <3>1 DEF Rising
  <2>2. CASE view[v].pc # "off"
    BY <1>1, <2>2 DEF Inv, Core, Reading, Reads, Got
  <2>. QED
    BY <2>1, <2>2
<1>2. Inv => FollowsTheLog
  BY Zenon, <1>1 DEF FollowsTheLog, Rising, Upper
<1>. QED
  BY <1>2, InvHolds, PTL
=============================================================================
