-------------------------------- MODULE Paging --------------------------------
(***************************************************************************)
(* The cursor-paged read that every list endpoint shares, and a client     *)
(* that walks a whole list with it, newest first, while rows come and go   *)
(* (fetch_page in app/db/queries/__init__.py).  Skills, files and          *)
(* environments are deleted for good; sessions, agents and memory stores   *)
(* are only hidden, and still serve as a cursor.  Memory stores are read   *)
(* by an opaque cursor, and from a window of time (app/services/memory.py).*)
(***************************************************************************)
EXTENDS Integers, Sequences, FiniteSets

CONSTANTS
  Ids, Times,  \* numbers: ids are random, so their order says nothing
  Limits,      \* the limits a client may ask for
  MaxPage,     \* MAX_PAGE_SIZE
  Windows      \* the sets of times that a client may restrict memory stores to

NumberAssumption == Ids \subseteq Nat /\ Times \subseteq Nat /\ 0 \notin Ids
LimitAssumption == Limits \subseteq Int /\ MaxPage \in Nat \ {0}

VARIABLES
  kind,    \* the list: "removed" or "hidden", what a delete does, or "memory"
  window,  \* the times this client asks for
  asked,   \* the limit of this client
  made,    \* the rows ever committed: their time and id
  hidden,  \* ids that are not listed any more
  removed, \* ids that are not in the table any more
  seen,    \* what the client has, in the order of the list
  more,    \* has_more of its last page
  must,    \* the listed rows it set out for
  phase    \* "walking" down the list, "catching" up with what came since, "done" or "refused"

table  == <<made, hidden, removed>>
client == <<seen, more, must, phase>>
list   == <<kind, window, asked>>
vars   == <<list, table, client>>

Row == [at : Times, id : Ids]
Listed == {r \in made : r.id \notin hidden}
Shown  == {r \in Listed : r.at \in window}   \* created_at_gte, created_at_lte
SetOf(s) == {s[i] : i \in DOMAIN s}

Init ==
  /\ kind \in {"removed", "hidden", "memory"} /\ asked \in Limits
  /\ window \in IF kind = "memory" THEN Windows ELSE {Times}
  /\ made \in SUBSET Row /\ IsFiniteSet(made) /\ \A r, s \in made : r.id = s.id => r = s
  /\ hidden = {} /\ removed = {}
  /\ seen = << >> /\ more = TRUE /\ must = Shown /\ phase = "walking"

(***************************************************************************)
(* fetch_page.                                                             *)
(***************************************************************************)

\* The order of the list, newest first: the id breaks ties.
Before(r, s) == r.at > s.at \/ (r.at = s.at /\ r.id > s.id)
\* The order of a query: going back it is the reverse.
Comes(r, s, backwards) == IF backwards THEN Before(s, r) ELSE Before(r, s)

Limit == IF asked < 1 THEN 1 ELSE IF asked < MaxPage THEN asked ELSE MaxPage

\* Mutant of Beyond: the tie is not broken.
Beyond_TimeOnly(cursor, backwards) ==
  IF cursor = 0 THEN Shown
  ELSE {r \in Shown : \E a \in made :
          a.id = cursor /\ a.id \notin removed
            /\ IF backwards THEN r.at > a.at ELSE r.at < a.at}

\* The WHERE: the rows past the anchor, which the cursor must still find.
Beyond(cursor, backwards) ==
  IF cursor = 0 THEN Shown
  ELSE {r \in Shown : \E a \in made :
          a.id = cursor /\ a.id \notin removed /\ Comes(a, r, backwards)}

\* The ORDER BY: the rows up to r, and the n-th row.
UpTo(rows, r, backwards) == {s \in rows : s = r \/ Comes(s, r, backwards)}
Nth(rows, n, backwards) == CHOOSE r \in rows : Cardinality(UpTo(rows, r, backwards)) = n

\* The LIMIT; a page that was read in reverse is flipped.  One row more than the page
\* says whether there are any.
FetchPage(cursor, backwards) ==
  LET rows == Beyond(cursor, backwards)
      size == IF Cardinality(rows) < Limit THEN Cardinality(rows) ELSE Limit
  IN [items |-> [i \in 1..size |-> Nth(rows, IF backwards THEN size + 1 - i ELSE i, backwards)],
      more  |-> Cardinality(rows) > Limit]

(***************************************************************************)
(* The client.                                                             *)
(***************************************************************************)

IdAt(i) == IF seen = << >> THEN 0 ELSE seen[i].id

\* after_id: the last row the client has.  For memory stores it is in a token that
\* names the list too, and a token of another list is refused.
EncodeCursor(list_kind) == [kind |-> list_kind, value |-> IdAt(Len(seen))]
DecodeCursor(token) == IF token.kind = kind THEN {token.value} ELSE {}

\* list_memory_stores refuses a limit that the other lists put in range.
Fit == kind = "memory" => asked \in 1..MaxPage

Refuse(from) ==
  /\ phase = "walking" /\ kind = "memory"
  /\ ~Fit \/ DecodeCursor(EncodeCursor(from)) = {}
  /\ phase' = "refused" /\ UNCHANGED <<list, table, seen, more, must>>

WalkOn ==
  \E after \in DecodeCursor(EncodeCursor(kind)) : LET page == FetchPage(after, FALSE) IN
  /\ phase = "walking" /\ Fit
  /\ seen' = seen \o page.items /\ more' = page.more
  /\ phase' = IF page.more THEN "walking" ELSE "done"
  /\ UNCHANGED <<list, table, must>>

\* Later it asks for what is newer than the first row it has: before_id.
LookAgain ==
  /\ phase = "done" /\ phase' = "catching"
  /\ seen # << >>
  /\ must' = must \cup {r \in Shown : Before(r, seen[1])}
  /\ UNCHANGED <<list, table, seen, more>>

CatchUp ==
  LET page == FetchPage(IdAt(1), TRUE) IN
  /\ phase = "catching"
  /\ seen' = page.items \o seen /\ more' = page.more
  /\ phase' = IF page.more THEN "catching" ELSE "done"
  /\ UNCHANGED <<list, table, must>>

(***************************************************************************)
(* Everybody else.                                                         *)
(***************************************************************************)

\* A new row has the time of its transaction, and shows when that commits: it may
\* land anywhere in the list.
Insert(r) ==
  /\ \A s \in made : s.id # r.id
  /\ made' = made \cup {r}
  /\ UNCHANGED <<list, hidden, removed, client>>

Delete(r) ==
  /\ r \in Listed
  /\ hidden' = hidden \cup {r.id}
  /\ removed' = IF kind = "removed" THEN removed \cup {r.id} ELSE removed
  /\ must' = must \ {r}
  /\ UNCHANGED <<list, made, seen, more, phase>>

Next ==
  \/ \E from \in {kind, "another"} : Refuse(from)
  \/ WalkOn \/ LookAgain \/ CatchUp
  \/ \E r \in Row : Insert(r) \/ Delete(r)

Spec == Init /\ [][Next]_vars

(***************************************************************************)
(* Properties.                                                             *)
(***************************************************************************)

\* A client that reached the end has seen every row that was there when it set
\* out, and every newer one it went back for, unless the row that was its cursor
\* has been removed from the table (the docstring of app/db/queries/__init__.py).
WalkIsWhole ==
  phase = "done" /\ {IdAt(1), IdAt(Len(seen))} \cap removed = {} => must \subseteq SetOf(seen)
=============================================================================
