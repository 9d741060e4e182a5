----------------------------- MODULE EventStream -----------------------------
(***************************************************************************)
(* How one session's events reach one client: writers append rows under    *)
(* the session's row lock and ring a doorbell (NOTIFY) as they commit, the *)
(* listener of the serving process wakes the stream, and the stream reads  *)
(* the table past its cursor.  Previews travel on a second channel of the  *)
(* same connection, in no table, through a bounded queue.  The client may  *)
(* drop the connection and come back with the last id it saw.              *)
(*                                                                         *)
(* The stream, the broker's callbacks and the queue live on one event      *)
(* loop: what runs without an await is one action.                         *)
(***************************************************************************)
EXTENDS Integers, Sequences, FiniteSets, SequencesExt

CONSTANTS
  Writers,     \* transactions that append to the session
  Agent,       \* the writer that runs the turn, and publishes previews
  None,
  MaxSeq,      \* bound on the events ever appended
  MaxTx,       \* bound on the events of one transaction
  Batch,       \* STREAM_BATCH
  Depth,       \* DELTA_QUEUE_DEPTH
  MaxDrops     \* bound on connections lost, by the client or the listener

ASSUME WriterAssumption == Agent \in Writers /\ None \notin Writers
ASSUME BoundAssumption ==
  /\ MaxSeq \in Nat /\ MaxDrops \in Nat
  /\ MaxTx \in Nat \ {0} /\ Batch \in Nat \ {0} /\ Depth \in Nat \ {0}

VARIABLES
  next, lock, pend,        \* last_event_seq, the row lock, numbers not yet committed
  rows, terminated,        \* what a reader sees: committed numbers, and the status
  saying,                  \* a preview of the coming message is out
  chan,                    \* notifications committed and not yet delivered
  listening,               \* the listener is connected: _ready
  spc, last, page, ended,  \* stream_events: place, cursor, rows fetched, status read
  woken, queue, bell,      \* the waiter's event and the preview subscription
  wire,                    \* frames the client has received
  drops

table  == <<next, lock, pend, rows, terminated, saying>>
broker == <<woken, queue, bell>>
stream == <<spc, last, page, ended>>
vars   == <<table, chan, listening, stream, broker, wire, drops>>

Row(n)     == [kind |-> "event", n |-> n]
Preview    == [kind |-> "preview", n |-> 0]
Frames     == [kind : {"event", "preview"}, n : Nat]
Bell       == [kind |-> "bell", n |-> 0]

TypeOK ==
  /\ next \in 0..MaxSeq /\ lock \in Writers \cup {None}
  /\ pend \in [Writers -> SUBSET (1..MaxSeq)]
  /\ rows \subseteq 1..MaxSeq /\ terminated \in BOOLEAN
  /\ saying \in BOOLEAN
  /\ chan \in Seq(Frames \cup {Bell}) /\ listening \in BOOLEAN
  /\ spc \in {"top", "query", "status", "yield", "wait", "asleep", "polling", "closed"}
  /\ last \in 0..MaxSeq /\ page \in Seq(1..MaxSeq) /\ ended \in BOOLEAN
  /\ woken \in BOOLEAN /\ queue \in Seq(Frames) /\ Len(queue) <= Depth /\ bell \in BOOLEAN
  /\ wire \in Seq(Frames) /\ drops \in 0..MaxDrops

Init ==
  /\ next = 0 /\ lock = None /\ pend = [w \in Writers |-> {}]
  /\ rows = {} /\ terminated = FALSE /\ saying = FALSE
  /\ chan = << >> /\ listening = FALSE
  /\ spc = "closed" /\ last = 0 /\ page = << >> /\ ended = FALSE
  /\ woken = FALSE /\ queue = << >> /\ bell = FALSE
  /\ wire = << >> /\ drops = 0

(***************************************************************************)
(* The writers.                                                            *)
(***************************************************************************)

\* Mutant of Alloc: the number comes from a counter outside the transaction.
Alloc_NoLock(w) ==
  /\ ~terminated /\ next < MaxSeq /\ Cardinality(pend[w]) < MaxTx
  /\ lock' = w /\ next' = next + 1
  /\ pend' = [pend EXCEPT ![w] = @ \cup {next + 1}]
  /\ UNCHANGED <<rows, terminated, saying, chan, listening, stream, broker, wire, drops>>

\* append_event: the UPDATE takes the row lock and the next number.
Alloc(w) ==
  /\ lock \in {None, w}
  /\ ~terminated /\ next < MaxSeq /\ Cardinality(pend[w]) < MaxTx
  /\ lock' = w /\ next' = next + 1
  /\ pend' = [pend EXCEPT ![w] = @ \cup {next + 1}]
  /\ UNCHANGED <<rows, terminated, saying, chan, listening, stream, broker, wire, drops>>

Notify(n) == chan' = IF listening THEN Append(chan, n) ELSE chan

\* The commit publishes the rows and the doorbell together.  The agent's commit
\* may be the message it has been previewing; any may terminate the session.
Commit(w, message, ends) ==
  /\ pend[w] # {}
  /\ message => w = Agent /\ ~ends
  /\ rows' = rows \cup pend[w]
  /\ terminated' = ends
  /\ saying' = (saying /\ ~message)
  /\ pend' = [pend EXCEPT ![w] = {}]
  /\ lock' = None
  /\ Notify(Bell)
  /\ UNCHANGED <<next, listening, stream, broker, wire, drops>>

Rollback(w) ==
  /\ pend[w] # {}
  /\ next' = next - Cardinality(pend[w])
  /\ pend' = [pend EXCEPT ![w] = {}]
  /\ lock' = None
  /\ UNCHANGED <<rows, terminated, saying, chan, listening, stream, broker, wire, drops>>

\* _publisher: a preview of the message being written, before its row.
Publish ==
  /\ ~saying /\ pend[Agent] = {} /\ ~terminated /\ next < MaxSeq
  /\ saying' = TRUE
  /\ Notify(Preview)
  /\ UNCHANGED <<next, lock, pend, rows, terminated, listening, stream, broker, wire, drops>>

(***************************************************************************)
(* The listener: notifications of one connection come in commit order.     *)
(***************************************************************************)

\* _on_notify and _on_delta.  Nobody waiting, or a full queue: it is dropped.
Hear ==
  /\ listening /\ chan # << >>
  /\ chan' = Tail(chan)
  /\ IF Head(chan) = Bell
       THEN woken' = (woken \/ spc = "asleep") /\ UNCHANGED <<queue, bell>>
       ELSE /\ IF spc # "closed" /\ Len(queue) < Depth
                 THEN queue' = Append(queue, Head(chan)) /\ bell' = TRUE
                 ELSE UNCHANGED <<queue, bell>>
            /\ UNCHANGED woken
  /\ UNCHANGED <<table, listening, stream, wire, drops>>

\* _listen_forever connects, or notices that the connection is gone.
Connect ==
  /\ ~listening
  /\ listening' = TRUE
  /\ UNCHANGED <<table, chan, stream, broker, wire, drops>>
Disconnect ==
  /\ listening /\ drops < MaxDrops
  /\ listening' = FALSE /\ chan' = << >> /\ drops' = drops + 1
  /\ UNCHANGED <<table, stream, broker, wire>>

(***************************************************************************)
(* stream_events and the client behind it.                                 *)
(***************************************************************************)

\* Which of the first k frames are events.
EventsIn(frames, k) == {i \in 1..k : frames[i].kind = "event"}
\* Mutant of Cursor: Last-Event-ID is not read.
Cursor_None == 0

\* _seq_from: the last id that the client saw.
Cursor == LET seen == EventsIn(wire, Len(wire)) IN IF seen = {} THEN 0 ELSE wire[Max(seen)].n

\* A client (re)connects with the id it last saw, unless it saw the end.
Open ==
  /\ spc = "closed" /\ ~(terminated /\ Cursor = next)
  /\ spc' = "top" /\ last' = Cursor /\ page' = << >> /\ ended' = FALSE
  /\ woken' = FALSE /\ queue' = << >> /\ bell' = FALSE
  /\ UNCHANGED <<table, chan, listening, wire, drops>>

\* The top of the loop: drain the previews.
Drain ==
  /\ spc = "top"
  /\ spc' = "query"
  /\ wire' = wire \o queue
  /\ queue' = << >> /\ bell' = FALSE
  /\ UNCHANGED <<table, chan, listening, last, page, ended, woken, drops>>

Unread    == {n \in rows : n > last}
Oldest(i) == CHOOSE n \in Unread : Cardinality({m \in Unread : m <= n}) = i

\* list_events: one page past the cursor, oldest first.
Query ==
  /\ spc = "query"
  /\ spc' = "status"
  /\ page' = [i \in 1..Min({Cardinality(Unread), Batch}) |-> Oldest(i)]
  /\ UNCHANGED <<table, chan, listening, last, ended, broker, wire, drops>>

\* The session is read by a statement of its own.  A stream with nothing to
\* yield ends there if the session is terminated, and else goes to wait.
ReadStatus ==
  /\ spc = "status"
  /\ ended' = terminated
  /\ spc' = IF page # << >> THEN "yield" ELSE IF terminated THEN "closed" ELSE "wait"
  /\ UNCHANGED <<table, chan, listening, last, page, broker, wire, drops>>

\* One event to the client; after the last of the page, the end or the next round.
Yield ==
  /\ spc = "yield"
  /\ wire' = Append(wire, Row(Head(page)))
  /\ last' = Head(page) /\ page' = Tail(page)
  /\ spc' = IF Len(page) > 1 THEN "yield" ELSE IF ended THEN "closed" ELSE "top"
  /\ UNCHANGED <<table, chan, listening, ended, broker, drops>>

\* event_broker.wait registers the waiter, after the read that found nothing;
\* without a listener it only sleeps.
Sleep ==
  /\ spc = "wait"
  /\ spc' = IF listening THEN "asleep" ELSE "polling"
  /\ woken' = FALSE
  /\ UNCHANGED <<table, chan, listening, last, page, ended, queue, bell, wire, drops>>

\* Mutant of Wake: no timeout.
Wake_OnlyIfRung ==
  /\ spc = "polling" \/ (spc = "asleep" /\ (woken \/ bell))
  /\ spc' = "top" /\ woken' = FALSE
  /\ UNCHANGED <<table, chan, listening, last, page, ended, queue, bell, wire, drops>>

\* Either bell, NOTIFIED_TIMEOUT_SECONDS, or the poll interval without a listener.
Wake ==
  /\ spc \in {"asleep", "polling"}
  /\ spc' = "top" /\ woken' = FALSE
  /\ UNCHANGED <<table, chan, listening, last, page, ended, queue, bell, wire, drops>>

\* The client goes away, the half hour is over, or the process dies.
Drop ==
  /\ spc # "closed" /\ drops < MaxDrops
  /\ drops' = drops + 1
  /\ spc' = "closed" /\ page' = << >> /\ ended' = FALSE
  /\ woken' = FALSE /\ queue' = << >> /\ bell' = FALSE
  /\ UNCHANGED <<table, chan, listening, last, wire>>

Stream == Drain \/ Query \/ ReadStatus \/ Yield \/ Sleep \/ Wake

Next ==
  \/ \E w \in Writers : Alloc(w) \/ Rollback(w)
       \/ \E message, ends \in BOOLEAN : Commit(w, message, ends)
  \/ Publish \/ Hear \/ Connect \/ Disconnect
  \/ Open \/ Stream \/ Drop

Spec == Init /\ [][Next]_vars

\* The stream loops as long as it is open, the client comes back when it is
\* closed; the listener is owed nothing.
FairSpec == Spec /\ WF_vars(Stream) /\ WF_vars(Open)

(***************************************************************************)
(* Properties.                                                             *)
(***************************************************************************)

\* The client receives the log: every event once, in order, none skipped, over
\* any number of reconnections (append_event, the stream route's docstring).
NoGap == \A i \in EventsIn(wire, Len(wire)) : wire[i].n = Cardinality(EventsIn(wire, i))

\* The client receives the log over a queue that keeps to its depth.
StreamIsLog == TypeOK /\ NoGap

\* Of how many events the client has been told.
Told == Cardinality(EventsIn(wire, Len(wire)))

D == INSTANCE Delivery
       WITH logged <- Cardinality(rows), told <- Told, closed <- terminated

\* However the connection and the notifications fail, the client is told of the
\* committed events one by one, of none again after it came back with its cursor, and
\* of none before its commit (stream_events, list_events).
Delivers == D!Spec

\* A client that keeps reconnecting misses nothing: whatever notifications were
\* lost, a committed event reaches it (event_broker's contract).
Complete == \A n \in 1..MaxSeq : n \in rows ~> Row(n) \in Range(wire)
=============================================================================
