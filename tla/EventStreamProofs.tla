--------------------------- MODULE EventStreamProofs ---------------------------
(***************************************************************************)
(* Proofs about EventStream, for any writers, pages, queue and drops: the  *)
(* wire is the log, and the stream implements module Delivery.             *)
(***************************************************************************)
EXTENDS EventStream, FiniteSetTheorems, SequenceTheorems, TLAPS

(***************************************************************************)
(* Counting the events among frames.                                       *)
(***************************************************************************)

LEMMA EventsAreFinite ==
  ASSUME NEW frames, NEW k \in Nat
  PROVE  /\ IsFiniteSet(EventsIn(frames, k))
         /\ Cardinality(EventsIn(frames, k)) \in Nat
<1>1. IsFiniteSet(1..k)
  BY FS_Interval
<1>2. EventsIn(frames, k) \in SUBSET (1..k)
  BY DEF EventsIn
<1> QED
  BY <1>1, <1>2, FS_Subset, FS_CardinalityType

\* Frames that come later change nothing before them.
LEMMA EventsStay ==
  ASSUME NEW f, NEW g, NEW k \in Nat, \A i \in 1..k : g[i] = f[i]
  PROVE  EventsIn(g, k) = EventsIn(f, k)
  BY DEF EventsIn

\* An event at the end is one more.
LEMMA EventsGrow ==
  ASSUME NEW frames, NEW k \in Nat, frames[k + 1].kind = "event"
  PROVE  /\ EventsIn(frames, k + 1) = EventsIn(frames, k) \cup {k + 1}
         /\ Cardinality(EventsIn(frames, k + 1)) = Cardinality(EventsIn(frames, k)) + 1
<1>1. EventsIn(frames, k + 1) = EventsIn(frames, k) \cup {k + 1}
  BY DEF EventsIn
<1>2. k + 1 \notin EventsIn(frames, k)
  BY DEF EventsIn
<1> QED
  BY <1>1, <1>2, EventsAreFinite, FS_AddElement

(***************************************************************************)
(* The inductive invariant.                                                *)
(***************************************************************************)

\* The writer that has the row lock, and no other, has numbers not yet committed:
\* those that follow the committed ones, which are a whole prefix of the log.
Numbering ==
  \E m \in 0..MaxSeq :
    /\ rows = 1..m
    /\ \A w \in Writers : pend[w] = IF w = lock THEN (m + 1)..next ELSE {}
    /\ lock = None => next = m
    /\ lock # None => m < next

\* Only previews wait in the queue.
OnlyPreviews ==
  /\ \A i \in 1..Len(chan) : chan[i] \in {Bell, Preview}
  /\ \A i \in 1..Len(queue) : queue[i] = Preview

\* The stream's cursor is the number on the last event that the client has, and counts them.
Following ==
  /\ \/ EventsIn(wire, Len(wire)) = {} /\ last = 0
     \/ \E i \in EventsIn(wire, Len(wire)) :
          wire[i].n = last /\ \A j \in EventsIn(wire, Len(wire)) : j <= i
  /\ last = Cardinality(EventsIn(wire, Len(wire)))
  /\ last \in rows \cup {0}

\* The page that was fetched goes on from the cursor.
PageFollows ==
  /\ \A i \in 1..Len(page) : page[i] = last + i /\ page[i] \in rows
  /\ spc = "yield" => page # << >>

LogInv == TypeOK /\ NoGap /\ Numbering /\ OnlyPreviews /\ Following /\ PageFollows

LEMMA EmptyBuffers ==
  /\ << >> \in Seq(Frames) /\ << >> \in Seq(Frames \cup {Bell}) /\ << >> \in Seq(1..MaxSeq)
  /\ Len(<< >>) = 0 /\ Len(<< >>) <= Depth
  BY EmptySeq, BoundAssumption

\* A client that comes back asks for what the stream would have read.
LEMMA CursorIsLast == LogInv => Cursor = last
<1> SUFFICES ASSUME LogInv PROVE Cursor = last
  OBVIOUS
<1>1. CASE EventsIn(wire, Len(wire)) = {}
  BY <1>1 DEF LogInv, Following, Cursor
<1>2. CASE EventsIn(wire, Len(wire)) # {}
  <2>1. PICK i \in EventsIn(wire, Len(wire)) :
          wire[i].n = last /\ \A j \in EventsIn(wire, Len(wire)) : j <= i
    BY <1>2 DEF LogInv, Following
  <2>2. EventsIn(wire, Len(wire)) \subseteq Int
    BY DEF EventsIn
  <2>3. Max(EventsIn(wire, Len(wire))) = i
    BY <2>1, <2>2 DEF Max
  <2> QED
    BY <1>2, <2>1, <2>3 DEF Cursor
<1> QED
  BY <1>1, <1>2

LEMMA InitLog == Init => LogInv
<1> SUFFICES ASSUME Init PROVE LogInv
  OBVIOUS
<1> USE WriterAssumption, BoundAssumption DEF Init
<1>1. TypeOK
  <2>1. /\ next \in 0..MaxSeq /\ lock \in Writers \cup {None} /\ rows \subseteq 1..MaxSeq
        /\ pend \in [Writers -> SUBSET (1..MaxSeq)]
    OBVIOUS
  <2>2. /\ chan \in Seq(Frames \cup {Bell}) /\ page \in Seq(1..MaxSeq)
        /\ queue \in Seq(Frames) /\ Len(queue) <= Depth /\ wire \in Seq(Frames)
    BY EmptyBuffers
  <2>3. last \in 0..MaxSeq /\ drops \in 0..MaxDrops
    OBVIOUS
  <2> QED
    BY <2>1, <2>2, <2>3 DEF TypeOK
<1>2. EventsIn(wire, Len(wire)) = {} /\ Cardinality({}) = 0
  BY FS_EmptySet DEF EventsIn
<1>3. NoGap /\ Following
  BY <1>2 DEF NoGap, Following
<1>4. Numbering
  BY DEF Numbering
<1>5. OnlyPreviews /\ PageFollows
  BY DEF OnlyPreviews, PageFollows
<1> QED
  BY <1>1, <1>3, <1>4, <1>5 DEF LogInv

(***************************************************************************)
(* The writers.                                                            *)
(***************************************************************************)

\* What a step of a writer leaves as it was.
Elsewhere == UNCHANGED <<stream, queue, wire>>

LEMMA ReadersStay ==
  ASSUME LogInv, Elsewhere, rows \subseteq rows'
  PROVE  NoGap' /\ Following' /\ PageFollows'
  BY DEF LogInv, Elsewhere, stream, NoGap, Following, PageFollows

LEMMA AllocKeeps ==
  ASSUME LogInv, NEW w \in Writers, Alloc(w)
  PROVE  LogInv'
<1> USE WriterAssumption, BoundAssumption DEF LogInv, stream, broker
<1>1. TypeOK'
  BY DEF Alloc, TypeOK
<1>2. Numbering'
  <2>1. PICK m \in 0..MaxSeq :
          /\ rows = 1..m
          /\ \A v \in Writers : pend[v] = IF v = lock THEN (m + 1)..next ELSE {}
          /\ lock = None => next = m
          /\ lock # None => m < next
    BY DEF Numbering
  <2>2. next \in Nat /\ next' = next + 1 /\ lock' = w /\ rows' = rows
    BY DEF Alloc, TypeOK
  <2>3. (m + 1)..next' = ((m + 1)..next) \cup {next + 1}
    BY <2>1, <2>2 DEF Alloc
  <2>4. pend'[w] = (m + 1)..next'
    BY <2>1, <2>2, <2>3 DEF Alloc, TypeOK
  <2>5. \A v \in Writers \ {w} : pend'[v] = {}
    BY <2>1 DEF Alloc, TypeOK
  <2>6. m < next'
    BY <2>1, <2>2 DEF Alloc
  <2>7. \A v \in Writers : pend'[v] = IF v = w THEN (m + 1)..next' ELSE {}
    BY <2>4, <2>5
  <2> QED
    BY <2>1, <2>2, <2>6, <2>7 DEF Numbering
<1>3. Elsewhere /\ rows \subseteq rows' /\ OnlyPreviews'
  BY DEF Alloc, Elsewhere, OnlyPreviews
<1> QED
  BY <1>1, <1>2, <1>3, ReadersStay

LEMMA NotifyKeeps ==
  ASSUME LogInv, NEW n \in {Bell, Preview}, Notify(n), UNCHANGED queue
  PROVE  chan' \in Seq(Frames \cup {Bell}) /\ OnlyPreviews'
<1>1. chan \in Seq(Frames \cup {Bell}) /\ n \in Frames \cup {Bell}
  BY DEF LogInv, TypeOK, Bell, Preview, Frames
<1>2. CASE listening
  <2>1. chan' = Append(chan, n)
    BY <1>2 DEF Notify
  <2>2. /\ chan' \in Seq(Frames \cup {Bell}) /\ Len(chan') = Len(chan) + 1
        /\ \A i \in 1..Len(chan) : chan'[i] = chan[i]
        /\ chan'[Len(chan) + 1] = n
    BY <1>1, <2>1
  <2> QED
    BY <1>1, <2>2 DEF LogInv, OnlyPreviews
<1>3. CASE ~listening
  BY <1>1, <1>3 DEF Notify, LogInv, OnlyPreviews
<1> QED
  BY <1>2, <1>3

LEMMA CommitKeeps ==
  ASSUME LogInv, NEW w \in Writers, NEW message \in BOOLEAN, NEW ends \in BOOLEAN,
         Commit(w, message, ends)
  PROVE  LogInv'
<1> USE WriterAssumption, BoundAssumption DEF LogInv, stream, broker
<1>1. PICK m \in 0..MaxSeq :
        /\ rows = 1..m
        /\ \A v \in Writers : pend[v] = IF v = lock THEN (m + 1)..next ELSE {}
        /\ lock = None => next = m
        /\ lock # None => m < next
  BY DEF Numbering
<1>2. w = lock /\ m < next /\ next \in 0..MaxSeq
  BY <1>1 DEF Commit, TypeOK
<1>3. rows' = 1..next /\ rows \subseteq rows'
  BY <1>1, <1>2 DEF Commit
<1>4. \A v \in Writers : pend'[v] = {}
  BY <1>1, <1>2 DEF Commit, TypeOK
<1>5. Numbering'
  BY <1>2, <1>3, <1>4 DEF Commit, Numbering
<1>6. chan' \in Seq(Frames \cup {Bell}) /\ OnlyPreviews'
  BY NotifyKeeps DEF Commit
<1>7. TypeOK'
  <2>1. pend' \in [Writers -> SUBSET (1..MaxSeq)] /\ saying' \in BOOLEAN
    BY DEF Commit, TypeOK
  <2> QED
    BY <1>2, <1>3, <1>6, <2>1 DEF Commit, TypeOK
<1>8. Elsewhere
  BY DEF Commit, Elsewhere
<1> QED
  BY <1>3, <1>5, <1>6, <1>7, <1>8, ReadersStay

LEMMA RollbackKeeps ==
  ASSUME LogInv, NEW w \in Writers, Rollback(w)
  PROVE  LogInv'
<1> USE WriterAssumption, BoundAssumption DEF LogInv, stream, broker
<1>1. PICK m \in 0..MaxSeq :
        /\ rows = 1..m
        /\ \A v \in Writers : pend[v] = IF v = lock THEN (m + 1)..next ELSE {}
        /\ lock = None => next = m
        /\ lock # None => m < next
  BY DEF Numbering
<1>2. w = lock /\ m < next /\ next \in 0..MaxSeq
  BY <1>1 DEF Rollback, TypeOK
<1>3. Cardinality(pend[w]) = next - m
  BY <1>1, <1>2, FS_Interval
<1>4. next' = m
  BY <1>2, <1>3 DEF Rollback
<1>5. \A v \in Writers : pend'[v] = {}
  BY <1>1, <1>2 DEF Rollback, TypeOK
<1>6. Numbering'
  BY <1>1, <1>4, <1>5 DEF Rollback, Numbering
<1>7. TypeOK'
  BY <1>4 DEF Rollback, TypeOK
<1>8. Elsewhere /\ rows \subseteq rows' /\ OnlyPreviews'
  BY DEF Rollback, Elsewhere, OnlyPreviews
<1> QED
  BY <1>6, <1>7, <1>8, ReadersStay

LEMMA PublishKeeps == LogInv /\ Publish => LogInv'
<1> SUFFICES ASSUME LogInv, Publish PROVE LogInv'
  OBVIOUS
<1> USE DEF LogInv, stream, broker
<1>1. chan' \in Seq(Frames \cup {Bell}) /\ OnlyPreviews'
  BY NotifyKeeps DEF Publish
<1>2. TypeOK' /\ Numbering'
  BY <1>1 DEF Publish, TypeOK, Numbering
<1>3. Elsewhere /\ rows \subseteq rows'
  BY DEF Publish, Elsewhere
<1> QED
  BY <1>1, <1>2, <1>3, ReadersStay

(***************************************************************************)
(* The listener.                                                           *)
(***************************************************************************)

LEMMA HearKeeps == LogInv /\ Hear => LogInv'
<1> SUFFICES ASSUME LogInv, Hear PROVE LogInv'
  OBVIOUS
<1> USE DEF LogInv, table, stream, broker
<1>1. /\ chan \in Seq(Frames \cup {Bell}) /\ chan # << >> /\ chan' = Tail(chan)
      /\ queue \in Seq(Frames) /\ Len(queue) <= Depth
  BY DEF Hear, TypeOK
<1>2. /\ Head(chan) = chan[1] /\ Head(chan) \in {Bell, Preview}
      /\ Tail(chan) \in Seq(Frames \cup {Bell}) /\ Len(Tail(chan)) = Len(chan) - 1
      /\ \A i \in 1..Len(Tail(chan)) : Tail(chan)[i] = chan[i + 1] /\ i + 1 \in 1..Len(chan)
  BY <1>1 DEF OnlyPreviews
<1>3. \A i \in 1..Len(chan') : chan'[i] \in {Bell, Preview}
  BY <1>1, <1>2 DEF OnlyPreviews
<1>4. Preview \in Frames
  BY DEF Preview, Frames
<1>5. /\ queue' \in Seq(Frames) /\ Len(queue') <= Depth
      /\ \A i \in 1..Len(queue') : queue'[i] = Preview
  <2>1. CASE queue' = queue
    BY <1>1, <2>1 DEF OnlyPreviews
  <2>2. CASE queue' = Append(queue, Preview) /\ Len(queue) < Depth
    BY <1>1, <1>4, <2>2, BoundAssumption DEF OnlyPreviews
  <2> QED
    BY <1>2, <2>1, <2>2 DEF Hear
<1>6. TypeOK'
  BY <1>1, <1>2, <1>5 DEF Hear, TypeOK
<1>7. Numbering' /\ OnlyPreviews'
  BY <1>3, <1>5 DEF Hear, Numbering, OnlyPreviews
<1>8. NoGap' /\ Following' /\ PageFollows'
  BY DEF Hear, NoGap, Following, PageFollows
<1> QED
  BY <1>6, <1>7, <1>8

LEMMA ListenerKeeps == LogInv /\ (Connect \/ Disconnect) => LogInv'
<1> SUFFICES ASSUME LogInv, Connect \/ Disconnect PROVE LogInv'
  OBVIOUS
<1> USE BoundAssumption DEF LogInv, table, stream, broker, Connect, Disconnect
<1>1. Numbering' /\ OnlyPreviews'
  BY EmptyBuffers DEF Numbering, OnlyPreviews
<1>2. NoGap' /\ Following' /\ PageFollows'
  BY DEF NoGap, Following, PageFollows
<1>3. TypeOK'
  <2>1. CASE Connect
    BY <2>1 DEF TypeOK
  <2>2. CASE Disconnect
    <3>1. drops' \in 0..MaxDrops
      BY <2>2 DEF TypeOK
    <3>2. chan' \in Seq(Frames \cup {Bell}) /\ listening' \in BOOLEAN
      BY <2>2, EmptyBuffers
    <3> QED
      BY <2>2, <3>1, <3>2 DEF TypeOK
  <2> QED
    BY <2>1, <2>2
<1> QED
  BY <1>1, <1>2, <1>3

(***************************************************************************)
(* The stream.                                                             *)
(***************************************************************************)

LEMMA OpenKeeps == LogInv /\ Open => LogInv'
<1> SUFFICES ASSUME LogInv, Open PROVE LogInv'
  OBVIOUS
<1> USE BoundAssumption DEF LogInv, table, stream, broker, Open
<1>1. last' = last
  BY CursorIsLast
<1>2. Numbering' /\ OnlyPreviews' /\ PageFollows'
  BY EmptyBuffers DEF Numbering, OnlyPreviews, PageFollows
<1>3. NoGap' /\ Following'
  BY <1>1 DEF NoGap, Following
<1>4. TypeOK'
  BY <1>1, EmptyBuffers DEF TypeOK
<1> QED
  BY <1>2, <1>3, <1>4

\* Previews are sent: no event more.
LEMMA DrainKeeps == LogInv /\ Drain => LogInv'
<1> SUFFICES ASSUME LogInv, Drain PROVE LogInv'
  OBVIOUS
<1> USE BoundAssumption DEF LogInv, table, stream, broker
<1>1. wire \in Seq(Frames) /\ queue \in Seq(Frames) /\ wire' = wire \o queue
  BY DEF Drain, TypeOK
<1>2. /\ wire' \in Seq(Frames) /\ Len(wire') = Len(wire) + Len(queue)
      /\ \A i \in 1..Len(wire) : wire'[i] = wire[i]
      /\ \A i \in 1..Len(wire') : i > Len(wire) => wire'[i] = Preview
  <2>1. Len(wire) \in Nat /\ Len(queue) \in Nat
    BY <1>1, LenProperties
  <2>2. \A i \in 1..Len(wire) + Len(queue) :
          wire'[i] = IF i <= Len(wire) THEN wire[i] ELSE queue[i - Len(wire)]
    BY <1>1, ConcatProperties
  <2>3. \A i \in 1..Len(wire) + Len(queue) : i > Len(wire) => i - Len(wire) \in 1..Len(queue)
    BY <2>1
  <2> QED
    BY <1>1, <2>1, <2>2, <2>3, ConcatProperties DEF OnlyPreviews
<1>3. \A k \in 0..Len(wire) : EventsIn(wire', k) = EventsIn(wire, k)
  BY <1>2, EventsStay
<1>4. EventsIn(wire', Len(wire')) = EventsIn(wire, Len(wire))
  <2>1. Preview.kind # "event"
    BY DEF Preview
  <2>2. \A i \in 1..Len(wire') : wire'[i].kind = "event" => i \in 1..Len(wire)
    <3>1. Len(wire) \in Nat /\ Len(wire') \in Nat
      BY <1>1, <1>2, LenProperties
    <3>2. \A i \in 1..Len(wire') : i > Len(wire) => wire'[i].kind # "event"
      BY <1>2, <2>1
    <3>3. \A i \in 1..Len(wire') : ~(i > Len(wire)) => i \in 1..Len(wire)
      BY <3>1
    <3> QED
      BY <3>2, <3>3
  <2>3. \A i \in 1..Len(wire) : i \in 1..Len(wire') /\ wire'[i] = wire[i]
    BY <1>1, <1>2
  <2> QED
    BY <2>2, <2>3 DEF EventsIn
<1>5. NoGap'
  <2> SUFFICES ASSUME NEW i \in EventsIn(wire', Len(wire'))
               PROVE  wire'[i].n = Cardinality(EventsIn(wire', i))
    BY DEF NoGap
  <2>1. i \in 1..Len(wire) /\ i \in EventsIn(wire, Len(wire))
    BY <1>4 DEF EventsIn
  <2>2. wire'[i] = wire[i] /\ EventsIn(wire', i) = EventsIn(wire, i)
    BY <1>1, <1>2, <1>3, <2>1
  <2> QED
    BY <2>1, <2>2 DEF NoGap
<1>6. \A i \in EventsIn(wire, Len(wire)) : wire'[i] = wire[i]
  BY <1>2 DEF EventsIn
<1>7. Following' /\ PageFollows'
  BY <1>4, <1>6 DEF Drain, Following, PageFollows
<1>8. Numbering' /\ OnlyPreviews'
  BY EmptyBuffers DEF Drain, Numbering, OnlyPreviews
<1>9. TypeOK'
  BY <1>2, EmptyBuffers DEF Drain, TypeOK
<1> QED
  BY <1>5, <1>7, <1>8, <1>9

\* The oldest unread event follows the cursor, the next one follows that, and so on.
LEMMA OldestFollows ==
  ASSUME LogInv
  PROVE  /\ Cardinality(Unread) \in Nat
         /\ \A i \in 1..Cardinality(Unread) : Oldest(i) = last + i /\ last + i \in rows
<1>1. PICK m \in 0..MaxSeq : rows = 1..m
  BY DEF LogInv, Numbering
<1>2. m \in Nat /\ last \in 0..m
  BY <1>1, BoundAssumption DEF LogInv, Following
<1>3. Unread = (last + 1)..m
  BY <1>1, <1>2 DEF Unread
<1>4. Cardinality(Unread) = m - last
  <2>1. Cardinality((last + 1)..m) = IF last + 1 > m THEN 0 ELSE m - (last + 1) + 1
    BY <1>2, FS_Interval
  <2> QED
    BY <1>2, <1>3, <2>1
<1>5. \A n \in Unread : Cardinality({k \in Unread : k <= n}) = n - last
  <2> SUFFICES ASSUME NEW n \in Unread
               PROVE  Cardinality({k \in Unread : k <= n}) = n - last
    OBVIOUS
  <2>1. n \in Int /\ n >= last + 1
    BY <1>2, <1>3
  <2>2. {k \in Unread : k <= n} = (last + 1)..n
    BY <1>2, <1>3
  <2>3. Cardinality((last + 1)..n) = n - last
    BY <1>2, <2>1, FS_Interval
  <2> QED
    BY <2>2, <2>3
<1>6. ASSUME NEW i \in 1..Cardinality(Unread)
      PROVE  Oldest(i) = last + i /\ last + i \in rows
  <2>1. last + i \in Unread /\ last + i \in rows
    BY <1>1, <1>2, <1>3, <1>4
  <2>2. Cardinality({k \in Unread : k <= last + i}) = i
    BY <1>2, <1>5, <2>1
  <2>3. \A n \in Unread : Cardinality({k \in Unread : k <= n}) = i => n = last + i
    BY <1>2, <1>3, <1>5
  <2> QED
    BY <2>1, <2>2, <2>3 DEF Oldest
<1> QED
  BY <1>2, <1>4, <1>6

LEMMA QueryKeeps == LogInv /\ Query => LogInv'
<1> SUFFICES ASSUME LogInv, Query PROVE LogInv'
  OBVIOUS
<1> USE BoundAssumption DEF LogInv, table, stream, broker
<1> DEFINE size == Min({Cardinality(Unread), Batch})
<1>1. size \in 0..Cardinality(Unread)
  BY OldestFollows DEF Min
<1>2. page' = [i \in 1..size |-> Oldest(i)]
  BY DEF Query
<1>3. \A i \in 1..size : Oldest(i) = last + i /\ last + i \in rows
  BY <1>1, OldestFollows
<1>4. page' \in Seq(1..MaxSeq) /\ Len(page') = size
  <2>1. \A i \in 1..size : Oldest(i) \in 1..MaxSeq
    BY <1>3 DEF TypeOK
  <2>2. size \in Nat
    BY <1>1, OldestFollows
  <2>3. page' \in [1..size -> 1..MaxSeq]
    BY <1>2, <2>1
  <2>4. page' \in Seq(1..MaxSeq)
    BY <2>2, <2>3, SeqDef
  <2>5. 1..Len(page') = 1..size /\ Len(page') \in Nat
    BY <2>3, <2>4, LenProperties
  <2> QED
    BY <2>2, <2>4, <2>5
<1>5. PageFollows'
  BY <1>2, <1>3, <1>4 DEF Query, PageFollows
<1>6. NoGap' /\ Following' /\ Numbering' /\ OnlyPreviews'
  BY DEF Query, NoGap, Following, Numbering, OnlyPreviews
<1>7. TypeOK'
  BY <1>4 DEF Query, TypeOK
<1> QED
  BY <1>5, <1>6, <1>7

LEMMA YieldKeeps == LogInv /\ Yield => LogInv'
<1> SUFFICES ASSUME LogInv, Yield PROVE LogInv'
  OBVIOUS
<1> USE BoundAssumption DEF LogInv, table, stream, broker
<1> DEFINE k == Len(wire)
<1>1. /\ page \in Seq(1..MaxSeq) /\ Len(page) >= 1 /\ Len(page) \in Nat
      /\ Head(page) = page[1] /\ last \in Nat
  BY DEF Yield, PageFollows, TypeOK
<1>2. Head(page) = last + 1 /\ last + 1 \in rows /\ last + 1 \in 1..MaxSeq
  BY <1>1 DEF PageFollows, TypeOK
<1>3. last' = last + 1
  BY <1>2 DEF Yield
<1>4. /\ page' \in Seq(1..MaxSeq) /\ Len(page') = Len(page) - 1
      /\ \A i \in 1..Len(page') : page'[i] = page[i + 1] /\ i + 1 \in 1..Len(page)
  BY <1>1 DEF Yield
<1>5. PageFollows'
  <2>1. \A i \in 1..Len(page') : page'[i] = last' + i /\ page'[i] \in rows'
    BY <1>1, <1>3, <1>4 DEF Yield, PageFollows
  <2>2. spc' = "yield" => Len(page') >= 1
    BY <1>1, <1>4 DEF Yield
  <2>3. Len(page') >= 1 => page' # << >>
    BY EmptyBuffers
  <2> QED
    BY <2>1, <2>2, <2>3 DEF PageFollows
<1>6. Row(last + 1) \in Frames /\ Row(last + 1).kind = "event" /\ Row(last + 1).n = last + 1
  BY <1>1 DEF Row, Frames
<1>7. /\ k \in Nat /\ wire' \in Seq(Frames) /\ Len(wire') = k + 1
      /\ \A i \in 1..k : wire'[i] = wire[i]
      /\ wire'[k + 1] = Row(last + 1)
  BY <1>2, <1>6 DEF Yield, TypeOK
<1>8. \A n \in 0..k : EventsIn(wire', n) = EventsIn(wire, n)
  BY <1>7, EventsStay
<1>9. /\ EventsIn(wire', k + 1) = EventsIn(wire, k) \cup {k + 1}
      /\ Cardinality(EventsIn(wire', k + 1)) = last + 1
  <2>1. wire'[k + 1].kind = "event"
    BY <1>6, <1>7
  <2>2. /\ EventsIn(wire', k + 1) = EventsIn(wire', k) \cup {k + 1}
        /\ Cardinality(EventsIn(wire', k + 1)) = Cardinality(EventsIn(wire', k)) + 1
    BY <1>7, <2>1, EventsGrow
  <2>3. EventsIn(wire', k) = EventsIn(wire, k)
    BY <1>7, <1>8
  <2> QED
    BY <2>2, <2>3 DEF Following
<1>10. NoGap'
  <2> SUFFICES ASSUME NEW i \in EventsIn(wire', k + 1)
               PROVE  wire'[i].n = Cardinality(EventsIn(wire', i))
    BY <1>7 DEF NoGap
  <2>1. CASE i = k + 1
    BY <1>6, <1>7, <1>9, <2>1
  <2>2. CASE i # k + 1
    <3>1. i \in EventsIn(wire, k) /\ i \in 1..k
      BY <1>9, <2>2 DEF EventsIn
    <3>2. wire'[i] = wire[i] /\ EventsIn(wire', i) = EventsIn(wire, i)
      BY <1>7, <1>8, <3>1
    <3> QED
      BY <3>1, <3>2 DEF NoGap
  <2> QED
    BY <2>1, <2>2
<1>11. Following'
  <2>1. \A j \in EventsIn(wire', k + 1) : j <= k + 1
    BY <1>7 DEF EventsIn
  <2>2. k + 1 \in EventsIn(wire', k + 1) /\ wire'[k + 1].n = last'
    BY <1>3, <1>6, <1>7, <1>9
  <2>3. last' \in rows'
    BY <1>2, <1>3 DEF Yield
  <2> QED
    BY <1>3, <1>7, <1>9, <2>1, <2>2, <2>3 DEF Following
<1>12. Numbering' /\ OnlyPreviews'
  BY DEF Yield, Numbering, OnlyPreviews
<1>13. TypeOK'
  BY <1>2, <1>3, <1>4, <1>7 DEF Yield, TypeOK
<1> QED
  BY <1>5, <1>10, <1>11, <1>12, <1>13

LEMMA OtherwiseKeeps == LogInv /\ (ReadStatus \/ Sleep \/ Wake \/ Drop) => LogInv'
<1> SUFFICES ASSUME LogInv, ReadStatus \/ Sleep \/ Wake \/ Drop PROVE LogInv'
  OBVIOUS
<1> USE BoundAssumption DEF LogInv, table, stream, broker, ReadStatus, Sleep, Wake, Drop
<1>1. NoGap' /\ Following'
  BY DEF NoGap, Following
<1>2. Numbering'
  BY DEF Numbering
<1>3. OnlyPreviews' /\ PageFollows'
  BY EmptyBuffers DEF OnlyPreviews, PageFollows
<1>4. TypeOK'
  <2>1. CASE ReadStatus \/ Sleep \/ Wake
    BY <2>1 DEF TypeOK
  <2>2. CASE Drop
    <3>1. drops' \in 0..MaxDrops
      BY <2>2 DEF TypeOK
    <3> QED
      BY <2>2, <3>1, EmptyBuffers DEF TypeOK
  <2> QED
    BY <2>1, <2>2
<1> QED
  BY <1>1, <1>2, <1>3, <1>4

LEMMA LogStep == LogInv /\ [Next]_vars => LogInv'
<1> SUFFICES ASSUME LogInv, [Next]_vars PROVE LogInv'
  OBVIOUS
<1>1. CASE UNCHANGED vars
  <2> USE <1>1 DEF vars, table, stream, broker, LogInv
  <2>1. TypeOK'
    BY DEF TypeOK
  <2>2. Numbering' /\ OnlyPreviews'
    BY DEF Numbering, OnlyPreviews
  <2>3. NoGap' /\ Following' /\ PageFollows'
    BY DEF NoGap, Following, PageFollows
  <2> QED
    BY <2>1, <2>2, <2>3
<1>2. ASSUME NEW w \in Writers,
             Alloc(w) \/ Rollback(w) \/ \E message, ends \in BOOLEAN : Commit(w, message, ends)
      PROVE  LogInv'
  BY <1>2, AllocKeeps, RollbackKeeps, CommitKeeps
<1> QED
  BY <1>1, <1>2, PublishKeeps, HearKeeps, ListenerKeeps, OpenKeeps, DrainKeeps, QueryKeeps,
     YieldKeeps, OtherwiseKeeps DEF Next, Stream

\* Whichever writers commit or roll back, whichever notifications are lost and however often
\* the client comes back, it has received a prefix of the log, each event once and in order,
\* over a queue that keeps to its depth.
THEOREM StreamTellsLog == Spec => []StreamIsLog
<1>1. LogInv => StreamIsLog
  BY DEF LogInv, StreamIsLog
<1> QED
  BY InitLog, LogStep, <1>1, PTL DEF Spec

(***************************************************************************)
(* The stream delivers the log.  The client's cursor counts the events it  *)
(* has and the committed rows are numbered from 1, so a step of a writer   *)
(* records, Yield tells, and every other step, a lost connection and a     *)
(* return among them, is none of the client's.                             *)
(***************************************************************************)

\* Nobody is about to append to a session that is over.
NobodyAppends == terminated => lock = None

LEMMA StillNobody == LogInv /\ NobodyAppends /\ [Next]_vars => NobodyAppends'
<1> SUFFICES ASSUME LogInv, NobodyAppends, [Next]_vars PROVE NobodyAppends'
  OBVIOUS
<1> USE DEF NobodyAppends, table, stream, broker
<1>1. ASSUME NEW w \in Writers,
             Alloc(w) \/ Rollback(w) \/ \E message, ends \in BOOLEAN : Commit(w, message, ends)
      PROVE  NobodyAppends'
  BY <1>1 DEF Alloc, Rollback, Commit
<1>2. CASE Publish \/ Hear \/ Connect \/ Disconnect
  BY <1>2 DEF Publish, Hear, Connect, Disconnect
<1>3. CASE Open \/ Stream \/ Drop
  BY <1>3 DEF Open, Stream, Drain, Query, ReadStatus, Yield, Sleep, Wake, Drop
<1>4. CASE UNCHANGED vars
  BY <1>4 DEF vars
<1> QED
  BY <1>1, <1>2, <1>3, <1>4 DEF Next

LEMMA RowsCount ==
  ASSUME NEW m \in Nat PROVE Cardinality(1..m) = m
  BY FS_Interval

LEMMA CommitRecords ==
  ASSUME LogInv, LogInv', NobodyAppends, NEW w \in Writers, NEW message \in BOOLEAN,
         NEW ends \in BOOLEAN, Commit(w, message, ends)
  PROVE  D!Record
<1>1. PICK m \in 0..MaxSeq :
        /\ rows = 1..m
        /\ \A v \in Writers : pend[v] = IF v = lock THEN (m + 1)..next ELSE {}
        /\ lock # None => m < next
  BY DEF LogInv, Numbering
<1>2. w = lock /\ lock # None /\ m \in Nat /\ next \in Nat /\ m < next
  BY <1>1, WriterAssumption, BoundAssumption DEF Commit, LogInv, TypeOK
<1>3. rows' = 1..next
  BY <1>1, <1>2 DEF Commit
<1>4. Cardinality(rows) = m /\ Cardinality(rows') = next
  BY <1>1, <1>2, <1>3, RowsCount
<1>5. ~terminated /\ terminated' \in BOOLEAN /\ Told' = Told
  BY <1>2 DEF NobodyAppends, Commit, Told
<1> QED
  BY <1>2, <1>4, <1>5 DEF D!Record

LEMMA YieldTells == ASSUME LogInv, LogInv', Yield PROVE D!Tell
<1>1. PICK m \in 0..MaxSeq : rows = 1..m
  BY DEF LogInv, Numbering
<1>2. m \in Nat /\ last \in Nat /\ Cardinality(rows) = m
  BY <1>1, RowsCount, BoundAssumption DEF LogInv, TypeOK
<1>3. Told = last /\ Told' = last'
  BY DEF LogInv, Following, Told
<1>4. last' = last + 1 /\ last + 1 \in rows
  <2>1. page \in Seq(1..MaxSeq) /\ page # << >>
    BY DEF LogInv, TypeOK, PageFollows, Yield
  <2>2. 1 \in 1..Len(page) /\ Head(page) = page[1]
    BY <2>1
  <2> QED
    BY <2>2 DEF LogInv, PageFollows, Yield
<1>5. UNCHANGED <<rows, terminated>>
  BY DEF Yield, table
<1> QED
  BY <1>1, <1>2, <1>3, <1>4, <1>5 DEF D!Tell

\* The steps that neither record nor tell.
LEMMA OthersStutter ==
  ASSUME LogInv, LogInv', UNCHANGED <<rows, terminated, last>> PROVE UNCHANGED D!vars
<1>1. Told = last /\ Told' = last'
  BY DEF LogInv, Following, Told
<1> QED
  BY <1>1 DEF D!vars

LEMMA StepDelivers ==
  LogInv /\ LogInv' /\ NobodyAppends /\ [Next]_vars => [D!Next]_(D!vars)
<1> SUFFICES ASSUME LogInv, LogInv', NobodyAppends, [Next]_vars PROVE [D!Next]_(D!vars)
  OBVIOUS
<1> USE DEF table, stream, broker
<1>1. ASSUME NEW w \in Writers, NEW message \in BOOLEAN, NEW ends \in BOOLEAN,
             Commit(w, message, ends)
      PROVE  D!Next
  BY <1>1, CommitRecords DEF D!Next
<1>2. ASSUME NEW w \in Writers, Alloc(w) \/ Rollback(w)
      PROVE  UNCHANGED <<rows, terminated, last>>
  BY <1>2 DEF Alloc, Rollback
<1>3. CASE Yield
  BY <1>3, YieldTells DEF D!Next
<1>4. CASE Open
  BY <1>4, CursorIsLast, OthersStutter DEF Open
<1>5. CASE Publish \/ Hear \/ Connect \/ Disconnect \/ Drain \/ Query \/ ReadStatus \/ Sleep
           \/ Wake \/ Drop \/ UNCHANGED vars
  <2>1. UNCHANGED <<rows, terminated, last>>
    BY <1>5 DEF Publish, Hear, Connect, Disconnect, Drain, Query, ReadStatus, Sleep, Wake,
                Drop, vars
  <2> QED
    BY <2>1, OthersStutter
<1> QED
  BY <1>1, <1>2, <1>3, <1>4, <1>5, OthersStutter DEF Next, Stream

LEMMA InitDelivers == Init => NobodyAppends /\ D!Init
<1> HAVE Init
<1>1. NobodyAppends
  BY DEF Init, NobodyAppends
<1>2. Told = 0 /\ Cardinality(rows) = 0
  <2>1. Told = last /\ last = 0
    BY InitLog DEF LogInv, Following, Told, Init
  <2>2. rows = {}
    BY DEF Init
  <2> QED
    BY <2>1, <2>2, FS_EmptySet
<1>3. terminated = FALSE
  BY DEF Init
<1> QED
  BY <1>1, <1>2, <1>3 DEF D!Init

\* The stream delivers the log, for any writers, page sizes and losses: the client is told of
\* the committed events one by one, of none twice and of none before its commit, and nothing
\* is recorded after the end.
THEOREM StreamDelivers == Spec => Delivers
<1>1. LogInv /\ NobodyAppends /\ [Next]_vars => LogInv' /\ NobodyAppends'
  BY LogStep, StillNobody
<1>2. LogInv /\ LogInv' /\ NobodyAppends /\ [Next]_vars => [D!Next]_(D!vars)
  BY StepDelivers
<1>3. Delivers <=> D!Init /\ [][D!Next]_(D!vars)
  BY DEF Delivers, D!Spec
<1> QED
  BY <1>1, <1>2, <1>3, InitLog, InitDelivers, PTL DEF Spec
===============================================================================
