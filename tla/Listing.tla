-------------------------------- MODULE Listing --------------------------------
(***************************************************************************)
(* The lists of the admin and client APIs, a page at a time, and the loop  *)
(* of baectl that reads them whole.  Each page is a query of its own, so   *)
(* the table may be another one for each: rows are deleted, or change      *)
(* their state, between two pages.                                         *)
(*                                                                         *)
(* A table maps the rowids in use to rows.                                 *)
(***************************************************************************)
EXTENDS Integers, FiniteSets, SequencesExt

CONSTANTS
  DefaultLimit,  \* 50 in the code
  MaxLimit,      \* 200
  Absent,        \* a parameter that is left out, and no further page
  Malformed      \* a cursor that is no number

ASSUME ListAssumption ==
  /\ DefaultLimit \in Nat \ {0} /\ MaxLimit \in Nat /\ DefaultLimit <= MaxLimit
  /\ Absent \notin Int /\ Malformed \notin Int /\ Absent # Malformed

-----------------------------------------------------------------------------
(* What a list shows.                                                      *)

States == {"open", "closed", "error"}

ListClientKeys(table) == {r \in DOMAIN table : table[r].role = "client" /\ ~table[r].deleted}
ListProfiles(table)   == {r \in DOMAIN table : ~table[r].deleted}

ListSessions(table, filter) == {r \in DOMAIN table : filter = Absent \/ table[r].state = filter}

-----------------------------------------------------------------------------
(* A page.                                                                 *)

\* PageQuery::resolve.
Refused(query) == query.cursor = Malformed \/ (query.limit # Absent /\ query.limit <= 0)
After(query)   == IF query.cursor = Absent THEN 0 ELSE query.cursor
Limit(query)   == IF query.limit = Absent THEN DefaultLimit
                  ELSE IF query.limit > MaxLimit THEN MaxLimit ELSE query.limit

\* The statement takes the least rows beyond the cursor, one after the other.
Beyond(shown, after, rows) == {r \in shown : r > (IF rows = <<>> THEN after ELSE Last(rows))}

OneMore(shown, after, rows) ==
  LET beyond == Beyond(shown, after, rows)
  IN  IF beyond = {} THEN rows ELSE Append(rows, Min(beyond))

\* One row more than asked for shows whether there are more.
Fetched(shown, after, limit) ==
  LET rows[n \in 0 .. limit + 1] == IF n = 0 THEN <<>> ELSE OneMore(shown, after, rows[n - 1])
  IN  rows[limit + 1]

NextCursor(items, more) == IF more /\ items # <<>> THEN Last(items) ELSE Absent

Page(shown, query) ==
  LET fetched == Fetched(shown, After(query), Limit(query))
      more    == Len(fetched) > Limit(query)
      items   == IF more THEN Front(fetched) ELSE fetched
  IN  [items |-> items, next |-> NextCursor(items, more)]

\* The list handlers.
Listed(shown, query) ==
  IF Refused(query) THEN [status |-> 400, items |-> <<>>, next |-> Absent]
  ELSE LET page == Page(shown, query) IN [status |-> 200, items |-> page.items, next |-> page.next]

ListedSessions(table, filter, query) ==
  IF filter \in States \cup {Absent} THEN Listed(ListSessions(table, filter), query)
  ELSE [status |-> 400, items |-> <<>>, next |-> Absent]

-----------------------------------------------------------------------------
(* baectl.                                                                 *)

\* list_all: the k-th page is of what the list shows then, and the loop ends with
\* a page that names no next one.
Unread == [items |-> <<>>, cursor |-> Absent, done |-> FALSE, pages |-> 0]

ReadPage(read, shown) ==
  LET page == Page(shown, [cursor |-> read.cursor, limit |-> Absent])
  IN  IF read.done THEN read
      ELSE [items |-> read.items \o page.items, cursor |-> page.next,
            done |-> page.next = Absent, pages |-> read.pages + 1]

ListAll(shows) ==
  LET read[k \in 0 .. Len(shows)] == IF k = 0 THEN Unread ELSE ReadPage(read[k - 1], shows[k])
  IN  read[Len(shows)]

\* run_list: with a cursor or a limit one page, else all of them.
RunList(shows, args) ==
  IF args.cursor = Absent /\ args.limit = Absent THEN ListAll(shows).items ELSE Listed(Head(shows), args).items

-----------------------------------------------------------------------------
(***************************************************************************)
(* What the lists promise.                                                 *)
(***************************************************************************)

\* Whatever is deleted, added or changed between two pages, a list read to its
\* end has every row it showed all along, none that it never did, and none twice.
NoRowIsMissed(histories) ==
  \A shows \in histories :
    LET read == ListAll(shows)
        seen == {shows[k] : k \in 1 .. read.pages}
        always == {r \in UNION seen : \A shown \in seen : r \in shown}
    IN  /\ \A i, j \in DOMAIN read.items : i < j => read.items[i] < read.items[j]
        /\ ToSet(read.items) \subseteq UNION seen
        /\ read.done => always \subseteq ToSet(read.items)
        /\ ~read.done => \A r \in always : r <= read.cursor => r \in ToSet(read.items)

\* A list that has stopped growing is read in as many pages as its rows fill, the
\* last of which may be short and is the only one that may be empty.
ReadingEnds(histories) ==
  \A shows \in histories :
    LET read == ListAll(shows)
        rows == UNION ToSet(shows)
    IN  /\ (Len(shows) - 1) * DefaultLimit >= Cardinality(rows) => read.done
        /\ Len(read.items) >= (read.pages - 1) * DefaultLimit
        /\ Len(read.items) <= read.pages * DefaultLimit

\* A page's cursor is good for the next one; no page is longer than the most a
\* client may ask for, and what the server refuses shows nothing.
CursorsAreGood(shows, queries) ==
  \A shown \in shows : \A query \in queries :
    LET page == Listed(shown, query)
    IN  /\ Len(page.items) <= MaxLimit
        /\ page.status = 400 => page.items = <<>> /\ page.next = Absent
        /\ page.next # Absent => ~Refused([query EXCEPT !.cursor = page.next]) /\ page.next > After(query)

\* The three filters of the sessions' list divide it between them, and a word that
\* is no state is refused and not an empty list.
FiltersDivide(tables, query, words) ==
  \A table \in tables :
    LET Rows(filter) == ToSet(ListedSessions(table, filter, query).items)
    IN  /\ UNION {Rows(s) : s \in States} = Rows(Absent)
        /\ \A s, t \in States : s # t => Rows(s) \cap Rows(t) = {}
        /\ \A w \in words \ States : ListedSessions(table, w, query).status = 400
=============================================================================
