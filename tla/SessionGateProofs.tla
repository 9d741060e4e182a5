-------------------------- MODULE SessionGateProofs --------------------------
(***************************************************************************)
(* Theorems about SessionGate, for every value of its constants: its types *)
(* and, in a quiet environment, one turn at a time, what the log says, and *)
(* that the gate implements module Conversation.                           *)
(***************************************************************************)
EXTENDS SessionGate, SequenceTheorems, TLAPS

USE BatchAssumption, ModeAssumption, TriesAssumption

(***************************************************************************)
(* Type correctness.                                                       *)
(***************************************************************************)

LEMMA SeqGrows ==
  ASSUME NEW S, NEW s \in Seq(S), NEW t \in Seq(S)
  PROVE  s \o t \in Seq(S)
  OBVIOUS

LEMMA EventType ==
  ASSUME NEW by \in Batches \cup Stops \cup {None}, NEW ok \in BOOLEAN
  PROVE  /\ Collected(by, ok) \in Seq(Events)
         /\ End("idle", by) \in Seq(Events)
         /\ End("terminated", by) \in Seq(Events)
<1>1. /\ Event("error", by) \in Events /\ Event("idle", by) \in Events
      /\ Event("terminated", by) \in Events
  BY DEF Event, Events
<1>2. ASSUME NEW S, NEW x \in S, NEW y \in S
      PROVE  << >> \in Seq(S) /\ <<x>> \in Seq(S) /\ <<x, y>> \in Seq(S)
  OBVIOUS
<1> QED
  BY <1>1, <1>2 DEF Collected, End

\* Release keeps the row well typed when the copy it works on is.
LEMMA ReleaseType ==
  ASSUME TypeOK, NEW m \in RowCopy, NEW st \in Status, NEW sr \in StopKinds,
         Release(m, st, sr)
  PROVE  /\ status' \in Status /\ stop' \in StopKinds
         /\ lease' \in {"none", "live", "lapsed"} /\ gen' \in Nat
  BY DEF TypeOK, Release, RowCopy

LEMMA SnapshotType == TypeOK => Snapshot \in RowCopy /\ Blank \in RowCopy
  BY DEF TypeOK, Snapshot, Blank, RowCopy, Status, StopKinds

LEMMA InitType == Init => TypeOK
<1> HAVE Init
<1>1. log \in Seq(Events)
  <2>1. << >> \in Seq(Events)
    OBVIOUS
  <2> QED
    BY <2>1 DEF Init
<1> QED
  BY <1>1 DEF Init, TypeOK, Status, StopKinds, RowCopy, Blank, Events, WorkerPc, Executing, Emitting

LEMMA LeaveType ==
  ASSUME TypeOK, NEW w \in Workers, Leave(w)
  PROVE  /\ wpc' \in [Workers -> WorkerPc]
         /\ wbatch' \in [Workers -> Batches \cup {None}]
         /\ mem' \in [Workers -> RowCopy]
         /\ checked' \in [Workers -> BOOLEAN]
         /\ outcome' \in [Workers -> StopKinds]
         /\ hb' \in [Workers -> {"off", "on", "renewing"}]
  BY SnapshotType DEF TypeOK, Leave, WorkerPc, StopKinds

LEMMA RequestType ==
  ASSUME TypeOK, NEW b \in Batches, Request(b) PROVE TypeOK'
<1> USE DEF reqs, stops, queue, work, row
<1>1. CASE AcceptBatch(b)
  BY <1>1 DEF TypeOK, AcceptBatch, Append1, Event, Events, Status, StopKinds
<1>2. CASE RefuseBatch(b)
  BY <1>2 DEF TypeOK, RefuseBatch
<1>3. CASE DispatchInline(b)
  BY <1>3 DEF TypeOK, DispatchInline
<1>4. CASE Enqueue(b)
  <2>1. bgen[b] \in Nat
    BY DEF TypeOK
  <2>2. names' \subseteq Nat
    BY <1>4, <2>1 DEF TypeOK, Enqueue
  <2>3. task' \in [Batches -> {"none", "queued", "taken", "done"}]
    BY <1>4 DEF TypeOK, Enqueue
  <2> QED
    BY <1>4, <2>2, <2>3 DEF TypeOK, Enqueue
<1>5. ASSUME NEW kept \in BOOLEAN, EnqueueFails(b, kept) PROVE TypeOK'
  <2>1. bgen[b] \in Nat
    BY DEF TypeOK
  <2>2. names' \subseteq Nat
    BY <1>5, <2>1 DEF TypeOK, EnqueueFails
  <2>3. task' \in [Batches -> {"none", "queued", "taken", "done"}]
    BY <1>5 DEF TypeOK, EnqueueFails
  <2> QED
    BY <1>5, <2>2, <2>3 DEF TypeOK, EnqueueFails
<1>6. CASE DispatchFailed(b)
  <2>1. ClaimCopy(b) \in RowCopy
    BY DEF TypeOK, ClaimCopy, RowCopy, Status, StopKinds
  <2>2. log' \in Seq(Events)
    <3>1. End("idle", b) \in Seq(Events) /\ log \in Seq(Events)
      BY EventType DEF TypeOK
    <3>2. log \o End("idle", b) \in Seq(Events)
      BY <3>1, SeqGrows
    <3> QED
      BY <1>6, <3>1, <3>2 DEF DispatchFailed
  <2>3. status' \in Status /\ stop' \in StopKinds
        /\ lease' \in {"none", "live", "lapsed"} /\ gen' \in Nat
    BY <1>6, <2>1, ReleaseType DEF DispatchFailed, TypeOK, Status, StopKinds
  <2> QED
    BY <1>6, <2>2, <2>3 DEF DispatchFailed, TypeOK
<1>7. CASE RequestDies(b)
  BY <1>7 DEF TypeOK, RequestDies
<1>8. CASE DropInline(b)
  BY <1>8 DEF TypeOK, DropInline
<1> QED
  BY <1>1, <1>2, <1>3, <1>4, <1>5, <1>6, <1>7, <1>8 DEF Request, Dispatch

LEMMA InterruptType ==
  ASSUME TypeOK, NEW s \in Stops, Interrupt(s) PROVE TypeOK'
<1> USE DEF reqs, stops, queue, work, row
<1>1. CASE LoadForCancel(s)
  BY <1>1, SnapshotType DEF TypeOK, LoadForCancel
<1>2. CASE CancelCommit(s)
  <2>1. log' \in Seq(Events)
    <3>1. /\ <<Event("interrupt", s), Event("idle", s)>> \in Seq(Events)
          /\ Event("interrupt", s) \in Events /\ log \in Seq(Events)
      BY DEF Event, Events, TypeOK
    <3>2. /\ log \o <<Event("interrupt", s), Event("idle", s)>> \in Seq(Events)
          /\ Append(log, Event("interrupt", s)) \in Seq(Events)
      BY <3>1, SeqGrows
    <3> QED
      BY <1>2, <3>2 DEF CancelCommit, Append1
  <2>2. status' \in Status /\ stop' \in StopKinds
        /\ lease' \in {"none", "live", "lapsed"} /\ gen' \in Nat
    BY <1>2, ReleaseType DEF CancelCommit, TypeOK, Status, StopKinds
  <2> QED
    BY <1>2, <2>1, <2>2, SnapshotType DEF CancelCommit, TypeOK
<1> QED
  BY <1>1, <1>2 DEF Interrupt

LEMMA LoadType ==
  ASSUME TypeOK, NEW b \in Batches, NEW w \in Workers, Load(b, w) PROVE TypeOK'
<1> USE DEF reqs, stops, queue, work, row
<1>1. tries' \in [Batches -> Nat]
  BY DEF TypeOK, Load
<1>2. task' \in [Batches -> {"none", "queued", "taken", "done"}]
  BY DEF TypeOK, Load
<1>3. /\ wpc' \in [Workers -> WorkerPc]
      /\ wbatch' \in [Workers -> Batches \cup {None}]
      /\ mem' \in [Workers -> RowCopy]
  <2>1. CASE status = "running"
    <3>1. "loaded" \in WorkerPc /\ Snapshot \in RowCopy
      BY SnapshotType DEF WorkerPc
    <3>2. /\ wpc' = [wpc EXCEPT ![w] = "loaded"]
          /\ wbatch' = [wbatch EXCEPT ![w] = b]
          /\ mem' = [mem EXCEPT ![w] = Snapshot]
      BY <2>1 DEF Load
    <3> QED
      BY <3>1, <3>2 DEF TypeOK
  <2>2. CASE status # "running"
    BY <2>2 DEF TypeOK, Load
  <2> QED
    BY <2>1, <2>2
<1> QED
  BY <1>1, <1>2, <1>3 DEF TypeOK, Load

LEMMA TurnType ==
  ASSUME TypeOK, NEW w \in Workers, Turn(w) PROVE TypeOK'
<1> USE DEF reqs, stops, queue, work, row
<1> DEFINE b == wbatch[w]
<1>1. /\ b \in Batches \cup Stops \cup {None} /\ log \in Seq(Events)
      /\ mem[w] \in RowCopy /\ outcome[w] \in StopKinds
  BY DEF TypeOK
<1>2. ASSUME NEW ok \in BOOLEAN
      PROVE  /\ log \o Collected(b, ok) \in Seq(Events)
             /\ log \o Collected(b, ok) \o End("idle", b) \in Seq(Events)
             /\ log \o End("terminated", b) \in Seq(Events)
  BY <1>1, EventType, SeqGrows
<1>3. ASSUME Leave(w), TaskDone(w), UNCHANGED <<deleted, graph, reqs, stops>>,
             log' \in Seq(Events),
             status' \in Status /\ stop' \in StopKinds,
             lease' \in {"none", "live", "lapsed"} /\ gen' \in Nat
      PROVE  TypeOK'
  <2>1. task' \in [Batches -> {"none", "queued", "taken", "done"}]
    BY <1>3 DEF TypeOK, TaskDone
  <2> QED
    BY <1>3, <2>1, LeaveType DEF TypeOK, TaskDone
<1>4. CASE Terminate(w)
  <2>1. log' \in Seq(Events)
    BY <1>2, <1>4 DEF Terminate
  <2> QED
    BY <1>1, <1>3, <1>4, <2>1, ReleaseType DEF Terminate, Status, StopKinds
<1>5. CASE KeyRefused(w)
  BY <1>3, <1>5 DEF KeyRefused, TypeOK
<1>6. CASE Begin(w)
  BY <1>6 DEF TypeOK, Begin, WorkerPc, Executing, Emitting
<1>7. CASE EmitCheck(w)
  BY <1>7 DEF TypeOK, EmitCheck, WorkerPc, StopKinds
<1>8. CASE EmitWrite(w)
  <2>1. log' \in Seq(Events)
    <3>1. ASSUME NEW type \in {"running", "message", "idle"}, Append1(type, b)
          PROVE  log' \in Seq(Events)
      BY <1>1, <3>1 DEF Append1, Event, Events
    <3> QED
      BY <1>8, <3>1 DEF EmitWrite
  <2>2. wpc' \in [Workers -> WorkerPc]
    <3>1. /\ {"graph", "end", "collecting"} \subseteq WorkerPc
          /\ wpc \in [Workers -> WorkerPc]
          /\ \E place \in {"graph", "end", "collecting"} : wpc' = [wpc EXCEPT ![w] = place]
      BY <1>8 DEF TypeOK, EmitWrite, WorkerPc, Executing, Emitting
    <3> QED
      BY <3>1
  <2>3. hb' \in [Workers -> {"off", "on", "renewing"}]
    BY <1>8 DEF TypeOK, EmitWrite
  <2>4. checked' \in [Workers -> BOOLEAN]
    BY <1>8 DEF TypeOK, EmitWrite
  <2> QED
    BY <1>8, <2>1, <2>2, <2>3, <2>4 DEF TypeOK, EmitWrite
<1>9. CASE Raise(w)
  BY <1>9 DEF TypeOK, Raise, WorkerPc
<1>10. ASSUME NEW result \in {"clear", "paused"}, NEW next \in {"say", "end"},
              Graph(w, result, next)
       PROVE  TypeOK'
  BY <1>10 DEF TypeOK, Graph, WorkerPc, Executing, Emitting
<1>11. ASSUME NEW ok \in BOOLEAN, FailTurn(w, ok) PROVE TypeOK'
  <2>1. log' \in Seq(Events)
    BY <1>2, <1>11 DEF FailTurn
  <2> QED
    BY <1>1, <1>3, <1>11, <2>1, ReleaseType DEF FailTurn, Status, StopKinds
<1>12. ASSUME NEW ok \in BOOLEAN, StopTurn(w, ok) PROVE TypeOK'
  <2>1. log' \in Seq(Events)
    BY <1>2, <1>12 DEF StopTurn
  <2> QED
    BY <1>3, <1>12, <2>1 DEF StopTurn, TypeOK
<1>13. ASSUME NEW ok \in BOOLEAN, Finish(w, ok) PROVE TypeOK'
  <2>1. log' \in Seq(Events)
    BY <1>2, <1>13 DEF Finish
  <2> QED
    BY <1>1, <1>3, <1>13, <2>1, ReleaseType DEF Finish, Status
<1> QED
  BY <1>4, <1>5, <1>6, <1>7, <1>8, <1>9, <1>10, <1>11, <1>12, <1>13 DEF Turn

LEMMA HeartbeatType ==
  ASSUME TypeOK, NEW w \in Workers, Heartbeat(w) PROVE TypeOK'
<1> USE DEF reqs, stops, queue, work, row
<1>1. CASE HbRead(w)
  BY <1>1 DEF TypeOK, HbRead
<1>2. CASE HbWrite(w)
  BY <1>2 DEF TypeOK, HbWrite
<1>3. CASE HbDies(w)
  BY <1>3 DEF TypeOK, HbDies
<1> QED
  BY <1>1, <1>2, <1>3 DEF Heartbeat

LEMMA CrashType ==
  ASSUME TypeOK, NEW w \in Workers, CrashWorker(w) PROVE TypeOK'
<1>1. task' \in [Batches -> {"none", "queued", "taken", "done"}]
  BY DEF TypeOK, CrashWorker
<1> QED
  BY <1>1, LeaveType DEF TypeOK, CrashWorker, reqs, stops, row

LEMMA SweepType == ASSUME TypeOK, Sweep PROVE TypeOK'
<1>1. Snapshot \in RowCopy /\ log \in Seq(Events)
  BY SnapshotType DEF TypeOK
<1>2. log' \in Seq(Events)
  <2>1. End("idle", None) \in Seq(Events)
    BY EventType
  <2> QED
    BY <1>1, <2>1, SeqGrows DEF Sweep
<1> QED
  BY <1>1, <1>2, ReleaseType
     DEF Sweep, TypeOK, Status, StopKinds, reqs, stops, queue, work

LEMMA NextType == TypeOK /\ [Next]_vars => TypeOK'
<1> SUFFICES ASSUME TypeOK, [Next]_vars PROVE TypeOK'
  OBVIOUS
<1> USE DEF reqs, stops, queue, work, row
<1>1. CASE LeaseLapse
  BY <1>1 DEF TypeOK, LeaseLapse
<1>2. CASE Delete
  BY <1>2 DEF TypeOK, Delete
<1>3. CASE UNCHANGED vars
  BY <1>3 DEF TypeOK, vars
<1> QED
  BY <1>1, <1>2, <1>3, RequestType, InterruptType, LoadType, TurnType, HeartbeatType,
     CrashType, SweepType DEF Next

\* Every variable keeps its type, in every environment: cloud or inline, with any
\* number of batches, interrupts and workers, however messages and clocks behave.
THEOREM TypeCorrect == Spec => []TypeOK
  BY InitType, NextType, PTL DEF Spec

(***************************************************************************)
(* One turn at a time.  Without interrupts, with a queue that delivers     *)
(* once and leases that outlive whoever acts under them, at most one party *)
(* at a time has steps left to take under the current claim, and the row   *)
(* still says what that party read.                                        *)
(***************************************************************************)

Quiet == Stops = {} /\ Timely /\ ~Unreliable

Accepting(b) == bpc[b] \in {"accepted", "failing"}
Waiting(b)   == task[b] = "queued"

OneHolder ==
  /\ \A v, w \in Workers : Busy(v) /\ Busy(w) => v = w
  /\ \A b, c \in Batches : Accepting(b) /\ Accepting(c) => b = c
  /\ \A b, c \in Batches : Waiting(b) /\ Waiting(c) => b = c
  /\ \A b, c \in Batches : ~(Accepting(b) /\ Waiting(c))
  /\ \A b \in Batches, w \in Workers : Busy(w) => ~Accepting(b) /\ ~Waiting(b)

HolderOwnsRow == Held => status = "running" /\ stop = "none" /\ lease = "live"

HolderKnowsRow ==
  /\ \A w \in Workers : Busy(w) =>
       /\ mem[w].status = "running" /\ mem[w].stop = "none"
       /\ mem[w].leased /\ mem[w].gen = gen
       /\ wbatch[w] \in Batches
  /\ \A b \in Batches : Accepting(b) => bgen[b] = gen

FreeIsClean == \A w \in Workers : ~Busy(w) => hb[w] = "off" /\ ~checked[w]

QInv == TypeOK /\ OneHolder /\ HolderOwnsRow /\ HolderKnowsRow /\ FreeIsClean

LEMMA InitQuiet == Init => QInv
  BY InitType DEF Init, QInv, OneHolder, HolderOwnsRow, HolderKnowsRow, FreeIsClean,
     Held, Busy, Accepting, Waiting

LEMMA QuietRequest ==
  ASSUME QInv, Quiet, NEW a \in Batches, Request(a), TypeOK' PROVE QInv'
<1> USE DEF QInv, OneHolder, HolderOwnsRow, HolderKnowsRow, FreeIsClean,
            Held, Busy, Accepting, Waiting, reqs, stops, queue, work, row
<1>1. CASE AcceptBatch(a)
  <2>1. ~Held
    BY <1>1 DEF AcceptBatch, CanClaim
  <2> QED
    BY <1>1, <2>1 DEF AcceptBatch, TypeOK
<1>2. CASE RefuseBatch(a)
  BY <1>2 DEF RefuseBatch, TypeOK
<1>3. CASE DispatchInline(a)
  BY <1>3 DEF DispatchInline, TypeOK
<1>4. CASE Enqueue(a)
  BY <1>4 DEF Enqueue, TypeOK
<1>5. ASSUME NEW kept \in BOOLEAN, EnqueueFails(a, kept) PROVE QInv'
  <2>1. ~kept
    BY <1>5 DEF EnqueueFails, Quiet
  <2> QED
    BY <1>5, <2>1 DEF EnqueueFails, TypeOK
<1>6. CASE DispatchFailed(a)
  <2>1. Accepting(a) /\ status = "running" /\ ~Held'
    BY <1>6 DEF DispatchFailed, TypeOK
  <2> QED
    BY <1>6, <2>1 DEF DispatchFailed, Release, ClaimCopy, TypeOK
<1>7. CASE RequestDies(a)
  BY <1>7 DEF RequestDies, TypeOK
<1>8. CASE DropInline(a)
  BY <1>8 DEF DropInline, TypeOK
<1> QED
  BY <1>1, <1>2, <1>3, <1>4, <1>5, <1>6, <1>7, <1>8 DEF Request, Dispatch

LEMMA QuietLoad ==
  ASSUME QInv, Quiet, NEW a \in Batches, NEW x \in Workers, Load(a, x), TypeOK'
  PROVE  QInv'
<1> USE DEF QInv, OneHolder, HolderOwnsRow, HolderKnowsRow, FreeIsClean,
            Held, Busy, Accepting, Waiting, reqs, stops, queue, work, row
<1>1. Waiting(a) /\ status = "running" /\ stop = "none" /\ lease = "live" /\ ~Busy(x)
  BY DEF Load, Deliverable, Quiet
<1>2. /\ wpc' = [wpc EXCEPT ![x] = "loaded"]
      /\ wbatch' = [wbatch EXCEPT ![x] = a]
      /\ mem' = [mem EXCEPT ![x] = Snapshot]
      /\ task' = [task EXCEPT ![a] = "taken"]
      /\ UNCHANGED <<row, reqs, hb, checked>>
  BY <1>1 DEF Load
<1>3. \A v \in Workers : ~Busy(v) /\ (Busy(v)' <=> v = x)
  BY <1>1, <1>2 DEF TypeOK
<1>4. \A b \in Batches : ~Waiting(b)' /\ ~Accepting(b)'
  BY <1>1, <1>2 DEF TypeOK
<1>5. OneHolder'
  BY <1>3, <1>4
<1>6. HolderOwnsRow'
  BY <1>1, <1>2
<1>7. HolderKnowsRow'
  <2>1. mem'[x] = Snapshot /\ wbatch'[x] = a
    BY <1>2 DEF TypeOK
  <2>2. /\ mem'[x].status = "running" /\ mem'[x].stop = "none"
        /\ mem'[x].leased /\ mem'[x].gen = gen'
    <3>1. /\ Snapshot.status = status /\ Snapshot.stop = stop /\ Snapshot.gen = gen
          /\ Snapshot.leased = (lease # "none")
      BY DEF Snapshot
    <3>2. Snapshot.leased
      BY <1>1, <3>1
    <3> QED
      BY <1>1, <1>2, <2>1, <3>1, <3>2
  <2>3. \A v \in Workers : Busy(v)' => v = x
    BY <1>3
  <2> HIDE DEF Busy, Accepting
  <2> QED
    BY <1>4, <2>1, <2>2, <2>3 DEF HolderKnowsRow
<1>8. FreeIsClean'
  BY <1>2, <1>3
<1> QED
  BY <1>5, <1>6, <1>7, <1>8

\* When the one holder leaves, nobody holds the session.
LEMMA QuietLeave ==
  ASSUME QInv, NEW x \in Workers, Busy(x), Leave(x), TaskDone(x), UNCHANGED reqs
  PROVE  /\ ~Held'
         /\ OneHolder' /\ HolderOwnsRow' /\ HolderKnowsRow' /\ FreeIsClean'
<1> USE DEF QInv, OneHolder, HolderOwnsRow, HolderKnowsRow, FreeIsClean,
            Held, Busy, Accepting, Waiting, reqs
<1>1. ~Held'
  BY DEF Leave, TaskDone, TypeOK
<1> QED
  BY <1>1 DEF Leave, TypeOK

LEMMA QuietTurn ==
  ASSUME QInv, Quiet, NEW x \in Workers, Turn(x), TypeOK' PROVE QInv'
<1> USE DEF QInv, Busy
<1>1. CASE Terminate(x)
  BY <1>1, QuietLeave DEF Terminate
<1>2. CASE KeyRefused(x)
  BY <1>2, QuietLeave DEF KeyRefused
<1>3. CASE Begin(x)
  BY <1>3 DEF Begin, OneHolder, HolderOwnsRow, HolderKnowsRow, FreeIsClean, Held,
              Accepting, Waiting, reqs, queue, row, TypeOK
<1>4. CASE EmitCheck(x)
  BY <1>4 DEF EmitCheck, OneHolder, HolderOwnsRow, HolderKnowsRow, FreeIsClean, Held,
              Accepting, Waiting, reqs, queue, row, TypeOK, Emitting
<1>5. CASE EmitWrite(x)
  <2>1. Busy(x) /\ Busy(x)'
    BY <1>5 DEF EmitWrite, TypeOK, FreeIsClean
  <2>2. \A v \in Workers : v # x =>
          wpc'[v] = wpc[v] /\ hb'[v] = hb[v] /\ checked'[v] = checked[v]
    BY <1>5 DEF EmitWrite, TypeOK
  <2>3. UNCHANGED <<row, reqs, queue, wbatch, mem>>
    BY <1>5 DEF EmitWrite
  <2>4. \A v \in Workers : Busy(v)' <=> Busy(v)
    BY <2>1, <2>2
  <2>5. OneHolder' /\ HolderOwnsRow'
    BY <2>3, <2>4 DEF OneHolder, HolderOwnsRow, Held, Accepting, Waiting, reqs, queue, row
  <2>6. HolderKnowsRow'
    BY <2>3, <2>4 DEF HolderKnowsRow, Accepting, reqs, row
  <2>7. FreeIsClean'
    BY <2>1, <2>2, <2>4 DEF FreeIsClean
  <2> QED
    BY <2>5, <2>6, <2>7
<1>6. CASE Raise(x)
  BY <1>6 DEF Raise, OneHolder, HolderOwnsRow, HolderKnowsRow, FreeIsClean, Held,
              Accepting, Waiting, reqs, queue, row, TypeOK, Executing, Emitting
<1>7. ASSUME NEW result \in {"clear", "paused"}, NEW next \in {"say", "end"},
             Graph(x, result, next)
      PROVE  QInv'
  BY <1>7 DEF Graph, OneHolder, HolderOwnsRow, HolderKnowsRow, FreeIsClean, Held,
              Accepting, Waiting, reqs, queue, row, TypeOK
<1>8. ASSUME NEW ok \in BOOLEAN, FailTurn(x, ok) \/ StopTurn(x, ok) \/ Finish(x, ok)
      PROVE  QInv'
  BY <1>8, QuietLeave DEF FailTurn, StopTurn, Finish
<1> QED
  BY <1>1, <1>2, <1>3, <1>4, <1>5, <1>6, <1>7, <1>8 DEF Turn

LEMMA QuietNext == Quiet /\ QInv /\ [Next]_vars => QInv'
<1> SUFFICES ASSUME Quiet, QInv, [Next]_vars PROVE QInv'
  OBVIOUS
<1>0. TypeOK'
  BY NextType DEF QInv
<1> USE DEF QInv, OneHolder, HolderOwnsRow, HolderKnowsRow, FreeIsClean,
            Held, Busy, Accepting, Waiting, reqs, stops, queue, work, row
<1>1. ASSUME NEW x \in Workers, Heartbeat(x) PROVE QInv'
  BY <1>0, <1>1 DEF Heartbeat, HbRead, HbWrite, HbDies, TypeOK
<1>2. ASSUME NEW x \in Workers, CrashWorker(x) PROVE QInv'
  BY <1>0, <1>2 DEF CrashWorker, Leave, TypeOK
<1>3. CASE LeaseLapse
  BY <1>0, <1>3 DEF LeaseLapse, Quiet
<1>4. CASE Sweep
  BY <1>0, <1>4 DEF Sweep
<1>5. CASE Delete
  BY <1>0, <1>5 DEF Delete
<1>6. CASE UNCHANGED vars
  BY <1>0, <1>6 DEF vars
<1>7. ~ \E s \in Stops : Interrupt(s)
  BY DEF Quiet
<1> QED
  BY <1>0, <1>1, <1>2, <1>3, <1>4, <1>5, <1>6, <1>7, QuietRequest, QuietLoad, QuietTurn
     DEF Next

\* In a quiet environment one turn runs at a time, for any number of batches
\* and workers and whatever dies.
THEOREM QuietOneTurn == ASSUME Quiet PROVE Spec => []OneTurn
<1>1. QInv => OneTurn
  BY DEF QInv, OneHolder, OneTurn, Accepting
<1>2. QInv /\ [Next]_vars => QInv'
  BY QuietNext
<1> QED
  BY <1>1, <1>2, InitQuiet, PTL DEF Spec

(***************************************************************************)
(* What the log says.  In a quiet environment the last batch in the log is *)
(* the holder's for as long as somebody holds the session, and the turn    *)
(* that is about to give it back has already said session.status_idle.     *)
(***************************************************************************)

\* Every batch that log s records is followed by a session.status_idle.
AllTold(s) ==
  \A i \in DOMAIN s : s[i].type = "user" =>
    \E j \in DOMAIN s : j > i /\ s[j].type = "idle"

HolderSpokeLast ==
  /\ \A b \in Batches : Accepting(b) \/ Waiting(b) => LastUser(log, b)
  /\ \A w \in Workers : Busy(w) => LastUser(log, wbatch[w])

EndIsTold ==
  /\ status = "idle" => AllTold(log)
  /\ \A w \in Workers : wpc[w] = "collecting" => AllTold(log)

\* From the moment the stop reason is read the graph does not move.
ReasonHolds ==
  /\ status = "idle" /\ stop = "requires_action" => graph = "paused"
  /\ \A w \in Workers :
       /\ checked[w] => wpc[w] \in Emitting
       /\ wpc[w] = "collecting" \/ (wpc[w] = "end" /\ checked[w]) =>
            (outcome[w] = "requires_action" => graph = "paused")

LogInv == QInv /\ OwnTurn /\ HolderSpokeLast /\ EndIsTold /\ ReasonHolds
Silent(t)    == \A i \in DOMAIN t : t[i].type # "user"
Agentless(t) == \A i \in DOMAIN t : t[i].type \notin AgentTypes
Closing(t)   == Len(t) > 0 /\ t[Len(t)].type = "idle"

\* The events of a longer log.
LEMMA Longer ==
  ASSUME NEW s \in Seq(Events), NEW t \in Seq(Events)
  PROVE  /\ Len(s) \in Nat /\ Len(t) \in Nat
         /\ DOMAIN s = 1..Len(s) /\ DOMAIN t = 1..Len(t)
         /\ s \o t \in Seq(Events)
         /\ Len(s \o t) = Len(s) + Len(t) /\ DOMAIN (s \o t) = 1..(Len(s) + Len(t))
         /\ \A i \in 1..Len(s) : (s \o t)[i] = s[i]
         /\ \A i \in (Len(s) + 1)..(Len(s) + Len(t)) :
              i - Len(s) \in 1..Len(t) /\ (s \o t)[i] = t[i - Len(s)]
  OBVIOUS

LEMMA StillLast ==
  ASSUME NEW s \in Seq(Events), NEW t \in Seq(Events), Silent(t),
         NEW b, LastUser(s, b)
  PROVE  LastUser(s \o t, b)
<1>1. PICK j \in DOMAIN s :
        s[j] = Event("user", b) /\ \A k \in j..Len(s) : s[k].type = "user" => s[k].by = b
  BY DEF LastUser
<1>2. \A k \in j..Len(s \o t) : (s \o t)[k].type = "user" => (s \o t)[k].by = b
  BY <1>1, Longer DEF Silent
<1>3. j \in DOMAIN (s \o t) /\ (s \o t)[j] = Event("user", b)
  BY <1>1, Longer
<1> QED
  BY <1>2, <1>3 DEF LastUser

LEMMA StillTold ==
  ASSUME NEW s \in Seq(Events), NEW t \in Seq(Events), Silent(t), AllTold(s)
  PROVE  AllTold(s \o t)
<1> SUFFICES ASSUME NEW i \in DOMAIN (s \o t), (s \o t)[i].type = "user"
             PROVE  \E j \in DOMAIN (s \o t) : j > i /\ (s \o t)[j].type = "idle"
  BY DEF AllTold
<1>1. i \in DOMAIN s /\ s[i].type = "user"
  BY Longer DEF Silent
<1>2. PICK j \in DOMAIN s : j > i /\ s[j].type = "idle"
  BY <1>1 DEF AllTold
<1>3. j \in DOMAIN (s \o t) /\ (s \o t)[j] = s[j]
  BY Longer
<1> QED
  BY <1>2, <1>3

\* Closing words: no batch among them, and the last is session.status_idle.
LEMMA NowTold ==
  ASSUME NEW s \in Seq(Events), NEW t \in Seq(Events), Silent(t), Closing(t)
  PROVE  AllTold(s \o t)
<1> USE DEF Closing
<1> SUFFICES ASSUME NEW i \in DOMAIN (s \o t), (s \o t)[i].type = "user"
             PROVE  \E j \in DOMAIN (s \o t) : j > i /\ (s \o t)[j].type = "idle"
  BY DEF AllTold
<1>1. i \in 1..Len(s)
  BY Longer DEF Silent
<1>2. Len(s) + Len(t) \in DOMAIN (s \o t) /\ (s \o t)[Len(s) + Len(t)].type = "idle"
  BY Longer
<1> QED
  BY <1>1, <1>2, Longer

\* What InOwnTurn(i) says of log s.
Own(s, i) ==
  \E j \in 1..i : /\ s[j] = Event("user", s[i].by)
                  /\ \A k \in j..i : s[k].type = "user" => s[k].by = s[i].by
AllOwn(s) == \A i \in DOMAIN s : s[i].type \in AgentTypes => Own(s, i)

LEMMA OwnTurnIsAllOwn == OwnTurn <=> AllOwn(log)
  BY DEF OwnTurn, InOwnTurn, AllOwn, Own

LEMMA StillOwn ==
  ASSUME NEW s \in Seq(Events), NEW t \in Seq(Events), AllOwn(s), Agentless(t)
  PROVE  AllOwn(s \o t)
<1> SUFFICES ASSUME NEW i \in DOMAIN (s \o t), (s \o t)[i].type \in AgentTypes
             PROVE  Own(s \o t, i)
  BY DEF AllOwn
<1>1. i \in DOMAIN s /\ (s \o t)[i] = s[i] /\ Own(s, i)
  BY Longer DEF Agentless, AllOwn
<1>2. \A k \in 1..i : (s \o t)[k] = s[k]
  BY <1>1, Longer
<1>3. i \in Nat
  BY <1>1, Longer
<1> QED
  BY <1>1, <1>2, <1>3 DEF Own

\* The holder of the session says something.
LEMMA SayOwn ==
  ASSUME NEW s \in Seq(Events), NEW by \in Batches, NEW type \in AgentTypes,
         Event(type, by) \in Events, AllOwn(s), LastUser(s, by)
  PROVE  AllOwn(s \o <<Event(type, by)>>)
<1> DEFINE t == <<Event(type, by)>>
<1>1. t \in Seq(Events) /\ Len(t) = 1 /\ t[1] = Event(type, by)
  OBVIOUS
<1>2. Event(type, by).by = by /\ Event(type, by).type = type /\ type # "user"
  BY DEF Event, AgentTypes
<1> HIDE DEF t
<1> SUFFICES ASSUME NEW i \in DOMAIN (s \o t), (s \o t)[i].type \in AgentTypes
             PROVE  Own(s \o t, i)
  BY DEF AllOwn, t
<1>3. CASE i \in DOMAIN s
  <2>1. (s \o t)[i] = s[i] /\ Own(s, i)
    BY <1>1, <1>3, Longer DEF AllOwn
  <2>2. \A k \in 1..i : (s \o t)[k] = s[k]
    BY <1>1, <1>3, Longer
  <2> QED
    BY <1>3, <2>1, <2>2, Longer DEF Own
<1>4. CASE i = Len(s) + 1
  <2>1. (s \o t)[i] = Event(type, by)
    BY <1>1, <1>4, Longer
  <2>2. PICK j \in DOMAIN s :
          s[j] = Event("user", by) /\ \A k \in j..Len(s) : s[k].type = "user" => s[k].by = by
    BY DEF LastUser
  <2>3. j \in 1..i /\ (s \o t)[j] = Event("user", by)
    BY <1>1, <1>4, <2>2, Longer
  <2>4. \A k \in j..i : (s \o t)[k].type = "user" => (s \o t)[k].by = by
    BY <1>1, <1>2, <1>4, <2>1, <2>2, Longer
  <2> QED
    BY <1>2, <2>1, <2>3, <2>4 DEF Own
<1> QED
  BY <1>1, <1>3, <1>4, Longer

LEMMA NewLast ==
  ASSUME NEW s \in Seq(Events), NEW t \in Seq(Events), NEW b \in Batches,
         Len(t) = 1, t[1] = Event("user", b)
  PROVE  LastUser(s \o t, b)
<1>1. Len(s) \in Nat /\ Len(s \o t) = Len(s) + 1 /\ DOMAIN (s \o t) = 1..(Len(s) + 1)
  <2>1. /\ Len(s) \in Nat /\ Len(s \o t) = Len(s) + Len(t)
        /\ DOMAIN (s \o t) = 1..(Len(s) + Len(t))
    BY Longer
  <2> QED
    BY <2>1
<1>2. (s \o t)[Len(s) + 1] = Event("user", b)
  BY <1>1, Longer
<1>3. \A k \in (Len(s) + 1)..Len(s \o t) : (s \o t)[k].by = b
  BY <1>1, <1>2 DEF Event
<1> QED
  BY <1>1, <1>2, <1>3 DEF LastUser

\* The words that the operations add.
LEMMA Words ==
  ASSUME NEW by \in Batches \cup Stops \cup {None}, NEW ok \in BOOLEAN
  PROVE  /\ Collected(by, ok) \in Seq(Events)
         /\ Silent(Collected(by, ok)) /\ Agentless(Collected(by, ok))
         /\ End("terminated", by) \in Seq(Events)
         /\ Silent(End("terminated", by)) /\ Agentless(End("terminated", by))
         /\ End("idle", by) \in Seq(Events)
         /\ Silent(End("idle", by)) /\ Agentless(End("idle", by)) /\ Closing(End("idle", by))
  BY EventType DEF Collected, End, Event, Silent, Agentless, Closing, AgentTypes

\* Some words and then others.
LEMMA ThenWords ==
  ASSUME NEW c \in Seq(Events), NEW e \in Seq(Events),
         Silent(c), Agentless(c), Silent(e), Agentless(e), Closing(e)
  PROVE  /\ c \o e \in Seq(Events)
         /\ Silent(c \o e) /\ Agentless(c \o e) /\ Closing(c \o e)
<1>1. c \o e \in Seq(Events) /\ Silent(c \o e) /\ Agentless(c \o e)
  BY Longer DEF Silent, Agentless
<1>2. Len(c \o e) = Len(c) + Len(e) /\ Len(c) \in Nat /\ Len(e) \in Nat
  BY Longer
<1>3. (c \o e)[Len(c) + Len(e)] = e[Len(e)]
  BY <1>2, Longer DEF Closing
<1> QED
  BY <1>1, <1>2, <1>3 DEF Closing

LEMMA InitLog == Init => LogInv
<1> HAVE Init
<1>1. log = << >> /\ DOMAIN log = {}
  BY DEF Init
<1> QED
  BY <1>1, InitQuiet
     DEF Init, LogInv, OwnTurn, HolderSpokeLast, EndIsTold, ReasonHolds, AllTold,
         Accepting, Waiting, Busy

\* Words that are no batch's.
LEMMA Said ==
  ASSUME TypeOK, NEW t \in Seq(Events), Silent(t), log' = log \o t
  PROVE  /\ \A b : LastUser(log, b) => LastUser(log, b)'
         /\ AllTold(log) => AllTold(log)'
         /\ Agentless(t) /\ OwnTurn => OwnTurn'
         /\ Closing(t) => AllTold(log)'
<1>1. log \in Seq(Events)
  BY DEF TypeOK
<1>2. ASSUME NEW b, LastUser(log, b) PROVE LastUser(log', b)
  BY <1>1, <1>2, StillLast
<1>3. AllTold(log) => AllTold(log')
  BY <1>1, StillTold
<1>4. Agentless(t) /\ AllOwn(log) => AllOwn(log')
  BY <1>1, StillOwn
<1>5. Closing(t) => AllTold(log')
  BY <1>1, NowTold
<1>6. OwnTurn' <=> AllOwn(log')
  BY DEF OwnTurn, InOwnTurn, AllOwn, Own
<1> QED
  BY <1>2, <1>3, <1>4, <1>5, <1>6, OwnTurnIsAllOwn DEF LastUser, AllTold

\* With nobody left to act, only what status and stop say is to be shown.
LEMMA NobodyLeft ==
  ASSUME QInv', ~Held', OwnTurn', status' = "idle" => AllTold(log'),
         status' = "idle" /\ stop' = "requires_action" => graph' = "paused"
  PROVE  (OwnTurn /\ HolderSpokeLast /\ EndIsTold /\ ReasonHolds)'
<1>1. \A w \in Workers : wpc'[w] = "free"
  BY DEF Held, Busy
<1>2. \A b \in Batches : ~Accepting(b)' /\ ~Waiting(b)'
  BY DEF Held, Accepting, Waiting
<1> QED
  BY <1>1, <1>2 DEF HolderSpokeLast, EndIsTold, ReasonHolds, Busy, AllTold, QInv, FreeIsClean

LEMMA LogRequest ==
  ASSUME LogInv, Quiet, NEW a \in Batches, Request(a), QInv' PROVE LogInv'
<1> USE DEF LogInv, reqs, stops, queue, work, row
<1>0. TypeOK /\ log \in Seq(Events)
  BY DEF QInv, TypeOK
<1>1. CASE AcceptBatch(a)
  <2>1. ~Held
    BY <1>1 DEF AcceptBatch, CanClaim, QInv, HolderOwnsRow
  <2>2. /\ \A w \in Workers : wpc'[w] = "free"
        /\ \A b \in Batches : ~Waiting(b)' /\ (Accepting(b)' => b = a)
    BY <1>0, <1>1, <2>1 DEF AcceptBatch, Held, Busy, Accepting, Waiting, TypeOK
  <2> DEFINE t == <<Event("user", a)>>
  <2>3. Event("user", a) \in Events
    BY DEF Event, Events
  <2>4. t \in Seq(Events) /\ Len(t) = 1 /\ t[1] = Event("user", a) /\ log' = log \o t
    BY <1>0, <1>1, <2>3 DEF AcceptBatch, Append1
  <2>5. Agentless(t)
    BY DEF Agentless, AgentTypes, Event
  <2> HIDE DEF t
  <2>6. LastUser(log', a)
    BY <1>0, <2>4, NewLast
  <2>7. OwnTurn'
    <3>1. AllOwn(log')
      BY <1>0, <2>4, <2>5, OwnTurnIsAllOwn, StillOwn
    <3> QED
      BY <3>1 DEF OwnTurn, InOwnTurn, AllOwn, Own
  <2>8. HolderSpokeLast'
    BY <2>2, <2>6 DEF HolderSpokeLast, Busy, LastUser
  <2>9. EndIsTold' /\ ReasonHolds'
    BY <1>1, <2>2 DEF AcceptBatch, EndIsTold, ReasonHolds, QInv, FreeIsClean, Busy
  <2> QED
    BY <2>7, <2>8, <2>9
<1>2. CASE DispatchFailed(a)
  <2>1. status = "running" /\ bpc' = [bpc EXCEPT ![a] = "failed"]
    BY <1>2 DEF DispatchFailed, QInv, HolderOwnsRow, Held
  <2>2. ~Held'
    BY <1>0, <1>2 DEF DispatchFailed, Held, Busy, QInv, OneHolder, Accepting, Waiting, TypeOK
  <2>3. /\ End("idle", a) \in Seq(Events) /\ Silent(End("idle", a))
        /\ Agentless(End("idle", a)) /\ Closing(End("idle", a))
    BY Words
  <2>4. OwnTurn' /\ AllTold(log)'
    BY <1>0, <1>2, <2>1, <2>3, Said DEF DispatchFailed
  <2>5. stop' = "error"
    BY <1>2, <2>1 DEF DispatchFailed, Release, ClaimCopy
  <2> QED
    BY <2>2, <2>4, <2>5, NobodyLeft DEF AllTold
<1>3. CASE RefuseBatch(a) \/ DispatchInline(a) \/ Enqueue(a) \/ RequestDies(a) \/ DropInline(a)
           \/ \E kept \in BOOLEAN : EnqueueFails(a, kept)
  <2>1. UNCHANGED <<row, log, graph, work>>
    BY <1>3 DEF RefuseBatch, DispatchInline, Enqueue, RequestDies, DropInline, EnqueueFails
  <2>2. \A b \in Batches : Accepting(b)' \/ Waiting(b)' => Accepting(b) \/ Waiting(b)
    BY <1>0, <1>3 DEF RefuseBatch, DispatchInline, Enqueue, RequestDies, DropInline,
                      EnqueueFails, Quiet, Accepting, Waiting, TypeOK
  <2>3. OwnTurn' /\ EndIsTold' /\ ReasonHolds'
    BY <2>1 DEF OwnTurn, InOwnTurn, EndIsTold, AllTold, ReasonHolds
  <2>4. HolderSpokeLast'
    BY <2>1, <2>2 DEF HolderSpokeLast, LastUser, Busy
  <2> QED
    BY <2>3, <2>4
<1> QED
  BY <1>1, <1>2, <1>3 DEF Request, Dispatch

LEMMA LogLoad ==
  ASSUME LogInv, Quiet, NEW a \in Batches, NEW x \in Workers, Load(a, x), QInv'
  PROVE  LogInv'
<1> USE DEF LogInv, reqs, stops, queue, work, row
<1>0. TypeOK
  BY DEF QInv
<1>1. Waiting(a) /\ status = "running" /\ ~Busy(x)
  BY DEF Load, Deliverable, Quiet, QInv, HolderOwnsRow, Held, Waiting
<1>2. /\ wpc' = [wpc EXCEPT ![x] = "loaded"]
      /\ wbatch' = [wbatch EXCEPT ![x] = a]
      /\ task' = [task EXCEPT ![a] = "taken"]
      /\ UNCHANGED <<row, reqs, checked, outcome, log, graph>>
  BY <1>1 DEF Load
<1>3. OwnTurn' /\ EndIsTold' /\ ReasonHolds'
  <2>1. wpc'[x] = "loaded" /\ (\A v \in Workers : v # x => wpc'[v] = wpc[v])
    BY <1>0, <1>2 DEF TypeOK
  <2>2. ~checked[x]
    BY <1>1 DEF QInv, FreeIsClean
  <2>3. OwnTurn' /\ EndIsTold'
    BY <1>2, <2>1 DEF OwnTurn, InOwnTurn, EndIsTold, AllTold
  <2>4. ReasonHolds'
    BY <1>2, <2>1, <2>2 DEF ReasonHolds
  <2> QED
    BY <2>3, <2>4
<1>4. LastUser(log, a)
  BY <1>1 DEF HolderSpokeLast
<1>5. \A v \in Workers : Busy(v)' => wbatch'[v] = a
  BY <1>0, <1>1, <1>2 DEF QInv, OneHolder, Busy, Waiting, TypeOK
<1>6. \A b \in Batches : Accepting(b)' \/ Waiting(b)' => Accepting(b) \/ Waiting(b)
  BY <1>0, <1>2 DEF Accepting, Waiting, TypeOK
<1>7. HolderSpokeLast'
  BY <1>2, <1>4, <1>5, <1>6 DEF HolderSpokeLast, LastUser
<1> QED
  BY <1>3, <1>7

\* A turn's step happens while its worker is the one holder.
LEMMA TurnHolds ==
  ASSUME QInv, NEW x \in Workers, Turn(x)
  PROVE  /\ Busy(x) /\ Held /\ status = "running" /\ stop = "none"
         /\ mem[x].status = "running" /\ mem[x].stop = "none" /\ wbatch[x] \in Batches
         /\ \A v \in Workers : v # x => wpc[v] = "free"
         /\ \A b \in Batches : ~Accepting(b) /\ ~Waiting(b)
<1>1. Busy(x)
  BY DEF Turn, Terminate, KeyRefused, Begin, EmitCheck, EmitWrite, Raise, Graph,
         FailTurn, StopTurn, Finish, Busy, Emitting, Executing, QInv, FreeIsClean
<1> QED
  BY <1>1 DEF QInv, OneHolder, HolderOwnsRow, HolderKnowsRow, Held, Busy

\* The turn gives up its hold.
LEMMA LogLeave ==
  ASSUME LogInv, Quiet, NEW x \in Workers, Turn(x), Leave(x), TaskDone(x),
         QInv', UNCHANGED <<graph, reqs>>,
         NEW t \in Seq(Events), Silent(t), Agentless(t), log' = log \o t,
         status' = "idle" => AllTold(log)',
         status' = "idle" /\ stop' = "requires_action" => graph' = "paused"
  PROVE  (OwnTurn /\ HolderSpokeLast /\ EndIsTold /\ ReasonHolds)'
<1>1. ~Held'
  BY TurnHolds, QuietLeave DEF LogInv
<1>2. OwnTurn'
  BY Said DEF LogInv, QInv
<1> QED
  BY <1>1, <1>2, NobodyLeft DEF AllTold

\* The turn goes on; what it does not touch is as it was.
LEMMA LogGoesOn ==
  ASSUME LogInv, NEW x \in Workers, Turn(x), QInv',
         UNCHANGED <<row, reqs, queue, wbatch>>,
         wpc' = [wpc EXCEPT ![x] = wpc'[x]],
         \A b \in Batches : LastUser(log, b) => LastUser(log, b)',
         wpc'[x] = "collecting" => AllTold(log)',
         checked'[x] => wpc'[x] \in Emitting,
         wpc'[x] = "collecting" \/ (wpc'[x] = "end" /\ checked'[x]) =>
           (outcome'[x] = "requires_action" => graph' = "paused")
  PROVE  HolderSpokeLast' /\ EndIsTold' /\ ReasonHolds'
<1> USE DEF LogInv, row, reqs, queue
<1>1. TypeOK
  BY DEF QInv
<1>2. /\ wbatch[x] \in Batches /\ status = "running" /\ Busy(x)
      /\ \A v \in Workers : v # x => wpc[v] = "free"
      /\ \A b \in Batches : ~Accepting(b) /\ ~Waiting(b)
  BY TurnHolds
<1>3. \A v \in Workers : v # x => wpc'[v] = "free"
  BY <1>1, <1>2 DEF TypeOK
<1>4. \A b \in Batches : ~Accepting(b)' /\ ~Waiting(b)'
  BY <1>2 DEF Accepting, Waiting
<1>5. LastUser(log, wbatch[x])'
  BY <1>2 DEF HolderSpokeLast
<1>6. HolderSpokeLast'
  BY <1>3, <1>4, <1>5 DEF HolderSpokeLast, Busy, LastUser
<1>7. EndIsTold' /\ ReasonHolds'
  BY <1>2, <1>3 DEF EndIsTold, ReasonHolds, AllTold, QInv, FreeIsClean, Busy
<1> QED
  BY <1>6, <1>7

LEMMA LogTurn ==
  ASSUME LogInv, Quiet, NEW x \in Workers, Turn(x), QInv' PROVE LogInv'
<1> USE DEF LogInv, reqs, stops, queue, work, row
<1> DEFINE b == wbatch[x]
<1>0. TypeOK /\ log \in Seq(Events)
  BY DEF QInv, TypeOK
<1>1. /\ b \in Batches /\ status = "running" /\ stop = "none"
      /\ mem[x].status = "running" /\ mem[x].stop = "none" /\ LastUser(log, b)
  BY TurnHolds DEF HolderSpokeLast
<1>2. /\ << >> \in Seq(Events) /\ Silent(<< >>) /\ Agentless(<< >>) /\ log = log \o << >>
  BY <1>0 DEF Silent, Agentless
<1>3. CASE Terminate(x)
  <2>1. /\ End("terminated", b) \in Seq(Events)
        /\ Silent(End("terminated", b)) /\ Agentless(End("terminated", b))
    BY <1>1, Words
  <2>2. status' = "terminated"
    BY <1>1, <1>3 DEF Terminate, Release
  <2> QED
    BY <1>3, <2>1, <2>2, LogLeave DEF Terminate
<1>4. CASE KeyRefused(x)
  BY <1>1, <1>2, <1>4, LogLeave DEF KeyRefused
<1>5. ASSUME NEW ok \in BOOLEAN, FailTurn(x, ok) PROVE LogInv'
  <2> DEFINE c == Collected(b, ok)
             e == End("idle", b)
  <2>1. /\ c \in Seq(Events) /\ Silent(c) /\ Agentless(c)
        /\ e \in Seq(Events) /\ Silent(e) /\ Agentless(e) /\ Closing(e)
    BY <1>1, Words
  <2>2. /\ c \o e \in Seq(Events)
        /\ Silent(c \o e) /\ Agentless(c \o e) /\ Closing(c \o e)
    BY <2>1, ThenWords
  <2>5. log' = log \o (c \o e)
    <3>1. log' = (log \o c) \o e
      BY <1>5 DEF FailTurn
    <3> HIDE DEF c, e
    <3> QED
      BY <1>0, <2>1, <3>1, ConcatAssociative
  <2>3. AllTold(log)'
    BY <1>0, <2>2, <2>5, Said
  <2>4. stop' = "error"
    BY <1>1, <1>5 DEF FailTurn, Release
  <2> QED
    BY <1>5, <2>2, <2>3, <2>4, <2>5, LogLeave DEF FailTurn
<1>6. ASSUME NEW ok \in BOOLEAN, StopTurn(x, ok) PROVE LogInv'
  BY <1>1, <1>6, Words, LogLeave DEF StopTurn
<1>7. ASSUME NEW ok \in BOOLEAN, Finish(x, ok) PROVE LogInv'
  <2>1. /\ Collected(b, ok) \in Seq(Events) /\ Silent(Collected(b, ok))
        /\ Agentless(Collected(b, ok)) /\ log' = log \o Collected(b, ok)
    BY <1>1, <1>7, Words DEF Finish
  <2>2. AllTold(log)'
    BY <1>0, <1>7, <2>1, Said DEF Finish, EndIsTold
  <2>3. stop' = "requires_action" => graph' = "paused"
    BY <1>1, <1>7 DEF Finish, Release, ReasonHolds
  <2> QED
    BY <1>7, <2>1, <2>2, <2>3, LogLeave DEF Finish
<1>8. ASSUME UNCHANGED <<log, row, reqs, queue, wbatch>>,
             wpc' = [wpc EXCEPT ![x] = wpc'[x]],
             wpc'[x] # "collecting", checked'[x] => wpc'[x] \in Emitting,
             wpc'[x] = "end" /\ checked'[x] =>
               (outcome'[x] = "requires_action" => graph' = "paused")
      PROVE  LogInv'
  <2>1. \A d \in Batches : LastUser(log, d) => LastUser(log, d)'
    BY <1>8 DEF LastUser
  <2>2. OwnTurn'
    BY <1>8 DEF OwnTurn, InOwnTurn
  <2> QED
    BY <1>8, <2>1, <2>2, LogGoesOn
<1>9. CASE Begin(x)
  BY <1>0, <1>8, <1>9 DEF Begin, TypeOK, ReasonHolds, Emitting
<1>10. CASE EmitCheck(x)
  BY <1>0, <1>8, <1>10 DEF EmitCheck, Emitting, TypeOK, ReasonHolds
<1>11. CASE EmitWrite(x)
  <2>1. ASSUME NEW type \in {"running", "message", "idle"}, Append1(type, b)
        PROVE  /\ <<Event(type, b)>> \in Seq(Events) /\ Silent(<<Event(type, b)>>)
               /\ log' = log \o <<Event(type, b)>>
    <3>1. Event(type, b) \in Events
      BY <1>1 DEF Event, Events
    <3> QED
      BY <1>0, <2>1, <3>1 DEF Append1, Silent, Event
  <2>2. PICK type \in {"running", "message", "idle"} :
          /\ Append1(type, b)
          /\ wpc'[x] = "collecting" => type = "idle" /\ wpc[x] = "end"
          /\ wpc' = [wpc EXCEPT ![x] = wpc'[x]]
    BY <1>0, <1>11 DEF EmitWrite, TypeOK
  <2>3. \A d \in Batches : LastUser(log, d) => LastUser(log, d)'
    BY <1>0, <2>1, <2>2, Said
  <2>4. wpc'[x] = "collecting" => AllTold(log)'
    <3> SUFFICES ASSUME wpc'[x] = "collecting" PROVE AllTold(log)'
      OBVIOUS
    <3> DEFINE t == <<Event("idle", b)>>
    <3>1. Closing(t)
      BY DEF Closing, Event
    <3> QED
      BY <1>0, <2>1, <2>2, <3>1, Said
  <2>5. OwnTurn'
    <3>1. CASE type = "idle"
      <4>1. Agentless(<<Event("idle", b)>>)
        BY DEF Agentless, AgentTypes, Event
      <4> QED
        BY <1>0, <2>1, <2>2, <3>1, <4>1, Said
    <3>2. CASE type \in AgentTypes
      <4>1. Event(type, b) \in Events
        BY <1>1 DEF Event, Events
      <4>2. AllOwn(log \o <<Event(type, b)>>)
        BY <1>0, <1>1, <3>2, <4>1, OwnTurnIsAllOwn, SayOwn
      <4>3. AllOwn(log')
        BY <2>1, <2>2, <4>2
      <4> QED
        BY <4>3 DEF OwnTurn, InOwnTurn, AllOwn, Own
    <3> QED
      BY <3>1, <3>2 DEF AgentTypes
  <2>6. UNCHANGED <<row, reqs, queue, wbatch, outcome, graph>> /\ checked[x] /\ ~checked'[x]
    BY <1>0, <1>11 DEF EmitWrite, TypeOK
  <2>7. wpc'[x] = "collecting" => (outcome'[x] = "requires_action" => graph' = "paused")
    BY <2>2, <2>6 DEF ReasonHolds
  <2> QED
    BY <2>2, <2>3, <2>4, <2>5, <2>6, <2>7, LogGoesOn
<1>12. CASE Raise(x)
  BY <1>0, <1>8, <1>12 DEF Raise, TypeOK
<1>13. ASSUME NEW result \in {"clear", "paused"}, NEW next \in {"say", "end"},
              Graph(x, result, next)
       PROVE  LogInv'
  <2>1. ~checked'[x]
    BY <1>0, <1>13 DEF Graph, Emitting, TypeOK, ReasonHolds
  <2> QED
    BY <1>0, <1>8, <1>13, <2>1 DEF Graph, TypeOK
<1> QED
  BY <1>3, <1>4, <1>5, <1>6, <1>7, <1>9, <1>10, <1>11, <1>12, <1>13 DEF Turn

LEMMA LogNext == Quiet /\ LogInv /\ [Next]_vars => LogInv'
<1> SUFFICES ASSUME Quiet, LogInv, [Next]_vars PROVE LogInv'
  OBVIOUS
<1> USE DEF LogInv, reqs, stops, queue, work, row
<1>0. QInv' /\ TypeOK
  BY QuietNext DEF QInv
<1>1. ASSUME UNCHANGED <<log, graph, wpc, wbatch, checked, outcome, status, stop, bpc, task>>
      PROVE  LogInv'
  BY <1>0, <1>1 DEF OwnTurn, InOwnTurn, HolderSpokeLast, EndIsTold, ReasonHolds, LastUser,
                    AllTold, Busy, Accepting, Waiting
<1>2. ASSUME NEW x \in Workers, Heartbeat(x) PROVE LogInv'
  BY <1>1, <1>2 DEF Heartbeat, HbRead, HbWrite, HbDies
<1>3. ASSUME NEW x \in Workers, CrashWorker(x) PROVE LogInv'
  <2>1. UNCHANGED <<log, graph, status, stop, bpc>> /\ status # "idle"
    BY <1>0, <1>3 DEF CrashWorker, QInv, HolderOwnsRow, Held
  <2>2. \A v \in Workers : wpc'[v] = "free"
    BY <1>0, <1>3 DEF CrashWorker, Leave, QInv, OneHolder, Busy, TypeOK
  <2>3. \A b \in Batches : Accepting(b)' \/ Waiting(b)' => b = wbatch[x]
    BY <1>0, <1>3 DEF CrashWorker, QInv, OneHolder, Accepting, Waiting, TypeOK
  <2>4. LastUser(log, wbatch[x])
    BY <1>3 DEF CrashWorker, HolderSpokeLast
  <2>5. HolderSpokeLast'
    BY <2>1, <2>2, <2>3, <2>4 DEF HolderSpokeLast, LastUser, Busy
  <2> QED
    BY <1>0, <2>1, <2>2, <2>5
       DEF OwnTurn, InOwnTurn, EndIsTold, ReasonHolds, QInv, FreeIsClean, Busy
<1>4. CASE LeaseLapse \/ Delete \/ UNCHANGED vars
  BY <1>1, <1>4 DEF LeaseLapse, Delete, vars
<1>5. CASE Sweep
  <2>1. ~Held
    BY <1>5 DEF Sweep, QInv, HolderOwnsRow
  <2>2. ~Held'
    BY <1>5, <2>1 DEF Sweep, Held, Busy
  <2> DEFINE e == End("idle", None)
  <2>3. e \in Seq(Events) /\ Silent(e) /\ Agentless(e) /\ Closing(e)
    BY Words
  <2>4. OwnTurn' /\ AllTold(log)'
    BY <1>0, <1>5, <2>3, Said DEF Sweep
  <2>5. stop' = "error"
    BY <1>5 DEF Sweep, Release, Snapshot
  <2> QED
    BY <1>0, <2>2, <2>4, <2>5, NobodyLeft DEF AllTold
<1>6. ~ \E s \in Stops : Interrupt(s)
  BY DEF Quiet
<1> QED
  BY <1>0, <1>2, <1>3, <1>4, <1>5, <1>6, LogRequest, LogLoad, LogTurn DEF Next

\* In a quiet environment what a turn says stands in the log behind its own batch,
\* with no other batch in between.
THEOREM QuietOwnTurn == ASSUME Quiet PROVE Spec => []OwnTurn
<1>1. LogInv => OwnTurn
  BY DEF LogInv
<1> QED
  BY <1>1, InitLog, LogNext, PTL DEF Spec

\* In a quiet environment a session that is ready for a message has told its
\* client so: every batch is followed by session.status_idle.
THEOREM QuietToldIdle == ASSUME Quiet PROVE Spec => []ToldIdle
<1>1. LogInv => ToldIdle
  BY DEF LogInv, EndIsTold, AllTold, ToldIdle
<1> QED
  BY <1>1, InitLog, LogNext, PTL DEF Spec

\* In a quiet environment a session parked on requires_action has a paused graph.
THEOREM QuietParkedMeansPaused == ASSUME Quiet PROVE Spec => []ParkedMeansPaused
<1>1. LogInv => ParkedMeansPaused
  BY DEF LogInv, ReasonHolds, ParkedMeansPaused
<1> QED
  BY <1>1, InitLog, LogNext, PTL DEF Spec

(***************************************************************************)
(* The conversation.  In a quiet environment the gate implements module    *)
(* Conversation: a running session is the turn of the last batch of the    *)
(* log, every step of the gate leaves row and log alone, or accepts a      *)
(* batch, or says a word of the turn, or ends it.                          *)
(***************************************************************************)

\* The last batch of a log is one.
LEMMA OneLast ==
  ASSUME NEW s \in Seq(Events), NEW b, NEW c, LastUser(s, b), LastUser(s, c)
  PROVE  b = c
<1>1. PICK i \in DOMAIN s :
        s[i] = Event("user", b) /\ \A k \in i..Len(s) : s[k].type = "user" => s[k].by = b
  BY DEF LastUser
<1>2. PICK j \in DOMAIN s :
        s[j] = Event("user", c) /\ \A k \in j..Len(s) : s[k].type = "user" => s[k].by = c
  BY DEF LastUser
<1>3. /\ s[i].type = "user" /\ s[i].by = b /\ s[j].type = "user" /\ s[j].by = c
  BY <1>1, <1>2 DEF Event
<1>4. i \in j..Len(s) \/ j \in i..Len(s)
  OBVIOUS
<1> QED
  BY <1>1, <1>2, <1>3, <1>4

LEMMA Chosen ==
  ASSUME NEW s \in Seq(Events), NEW b \in Batches, LastUser(s, b)
  PROVE  (CHOOSE c \in Batches : LastUser(s, c)) = b
<1>1. LastUser(s, CHOOSE c \in Batches : LastUser(s, c))
  OBVIOUS
<1> QED
  BY <1>1, OneLast

LEMMA TakingIs ==
  ASSUME TypeOK, status = "running", NEW b \in Batches, LastUser(log, b)
  PROVE  Taking = b
  BY Chosen DEF TypeOK, Taking

LEMMA TakingNext ==
  ASSUME TypeOK', status' = "running", NEW b \in Batches, LastUser(log', b)
  PROVE  Taking' = b
<1>1. (CHOOSE c \in Batches : LastUser(log', c)) = b
  BY Chosen DEF TypeOK
<1> QED
  BY <1>1 DEF Taking, LastUser

\* A running session has a batch in its log, a batch that is not in the log has not
\* been accepted, and no turn finds that it has been overtaken.
Recorded  == status = "running" => \E b \in Batches : LastUser(log, b)
Unsent    == \A b \in Batches : bpc[b] = "new" =>
               \A i \in DOMAIN log : log[i] # Event("user", b)
Unstopped == \A w \in Workers : wpc[w] # "stopped"

TurnInv == LogInv /\ Recorded /\ Unsent /\ Unstopped

\* What a step does to the row and the log.
Stays == UNCHANGED <<status, gen, log>>
Accepts(b) ==
  /\ bpc[b] = "new" /\ bpc'[b] # "new" /\ status # "terminated"
  /\ status' = "running" /\ gen' = gen /\ log' = Append(log, Event("user", b))
Says(b, type) ==
  /\ status = "running" /\ LastUser(log, b)
  /\ status' = status /\ gen' = gen /\ log' = Append(log, Event(type, b))

\* The closing words of by: an error, or the end.
ClosingWords(t, by, type) ==
  /\ \A i \in DOMAIN t : t[i].type \in {"error", type} /\ t[i].by = by
  /\ type = "terminated" => \E i \in DOMAIN t : t[i].type = type
Ends(by, type, t) ==
  /\ status = "running" /\ (by = None \/ LastUser(log, by))
  /\ status' = type /\ gen' = gen + 1 /\ log' = log \o t
  /\ ClosingWords(t, by, type)
  /\ type = "idle" => AllTold(log')

SpokenTypes == {"running", "message", "idle"}
LastTypes   == {"idle", "terminated"}
Sources     == Batches \cup {None}

LEMMA EndWords ==
  ASSUME NEW by \in Sources, NEW ok \in BOOLEAN
  PROVE  /\ Collected(by, ok) \in Seq(Events) /\ ClosingWords(Collected(by, ok), by, "idle")
         /\ End("terminated", by) \in Seq(Events)
         /\ ClosingWords(End("terminated", by), by, "terminated")
         /\ End("idle", by) \in Seq(Events) /\ ClosingWords(End("idle", by), by, "idle")
<1>1. /\ Collected(by, ok) \in Seq(Events) /\ End("terminated", by) \in Seq(Events)
      /\ End("idle", by) \in Seq(Events)
  BY Words DEF Sources
<1>2. ClosingWords(Collected(by, ok), by, "idle")
  BY DEF Collected, ClosingWords, Event
<1>3. ASSUME NEW type \in LastTypes PROVE ClosingWords(End(type, by), by, type)
  <2>1. /\ End(type, by) = <<Event("error", by), Event(type, by)>>
        /\ DOMAIN End(type, by) = {1, 2}
    BY DEF End
  <2>2. End(type, by)[1] = Event("error", by) /\ End(type, by)[2] = Event(type, by)
    BY <2>1
  <2> QED
    BY <2>1, <2>2 DEF ClosingWords, Event
<1> QED
  BY <1>1, <1>2, <1>3 DEF LastTypes

LEMMA ThenEndWords ==
  ASSUME NEW c \in Seq(Events), NEW e \in Seq(Events), NEW by,
         ClosingWords(c, by, "idle"), ClosingWords(e, by, "idle")
  PROVE  ClosingWords(c \o e, by, "idle")
<1> SUFFICES ASSUME NEW i \in DOMAIN (c \o e)
             PROVE  (c \o e)[i].type \in {"error", "idle"} /\ (c \o e)[i].by = by
  BY DEF ClosingWords
<1>1. CASE i \in 1..Len(c)
  BY <1>1, Longer DEF ClosingWords
<1>2. CASE i \in (Len(c) + 1)..(Len(c) + Len(e))
  <2>1. i - Len(c) \in DOMAIN e /\ (c \o e)[i] = e[i - Len(c)]
    BY <1>2, Longer
  <2> QED
    BY <2>1 DEF ClosingWords
<1> QED
  BY <1>1, <1>2, Longer

LEMMA RequestStep ==
  ASSUME Quiet, LogInv, LogInv', NEW a \in Batches, Request(a)
  PROVE  \/ Stays \/ Accepts(a)
         \/ \E t \in Seq(Events) : Ends(a, "idle", t)
<1> USE DEF row, reqs, stops, queue, work
<1>0. TypeOK /\ QInv
  BY DEF LogInv, QInv
<1>1. CASE AcceptBatch(a)
  <2>1. bpc'[a] = "accepted"
    BY <1>0, <1>1 DEF AcceptBatch, TypeOK
  <2> QED
    BY <1>1, <2>1 DEF AcceptBatch, CanClaim, Append1, Accepts
<1>2. CASE DispatchFailed(a)
  <2>1. /\ status = "running" /\ bgen[a] = gen /\ LastUser(log, a)
    BY <1>0, <1>2 DEF DispatchFailed, QInv, HolderOwnsRow, HolderKnowsRow, Held, Accepting,
                      LogInv, HolderSpokeLast
  <2>2. status' = "idle" /\ gen' = gen + 1 /\ log' = log \o End("idle", a)
    BY <1>2, <2>1 DEF DispatchFailed, Release, ClaimCopy
  <2>3. AllTold(log')
    BY <2>2 DEF LogInv, EndIsTold, AllTold
  <2>4. End("idle", a) \in Seq(Events) /\ ClosingWords(End("idle", a), a, "idle")
    BY EndWords DEF Sources
  <2> QED
    BY <2>1, <2>2, <2>3, <2>4 DEF Ends
<1>3. CASE Request(a) /\ ~DispatchFailed(a) /\ ~AcceptBatch(a)
  BY <1>3 DEF Request, Dispatch, RefuseBatch, DispatchInline, Enqueue,
              EnqueueFails, RequestDies, DropInline, Stays
<1> QED
  BY <1>1, <1>2, <1>3

LEMMA TurnStep ==
  ASSUME Quiet, LogInv, LogInv', Unstopped, NEW x \in Workers, Turn(x)
  PROVE  \/ Stays
         \/ \E type \in SpokenTypes : Says(wbatch[x], type)
         \/ \E type \in LastTypes, t \in Seq(Events) : Ends(wbatch[x], type, t)
<1> USE DEF row, reqs, stops, queue, work
<1> DEFINE b == wbatch[x]
<1>0. TypeOK /\ QInv /\ log \in Seq(Events)
  BY DEF LogInv, QInv, TypeOK
<1>1. /\ b \in Batches /\ b \in Sources /\ status = "running" /\ mem[x].status = "running"
      /\ mem[x].gen = gen /\ LastUser(log, b)
  BY <1>0, TurnHolds DEF LogInv, HolderSpokeLast, QInv, HolderKnowsRow, Sources
<1>2. ASSUME NEW type \in LastTypes, NEW t \in Seq(Events), ClosingWords(t, b, type),
             log' = log \o t, NEW sr, Release(mem[x], type, sr)
      PROVE  \E last \in LastTypes, u \in Seq(Events) : Ends(b, last, u)
  <2>1. status' = type /\ gen' = gen + 1
    BY <1>1, <1>2 DEF Release, LastTypes
  <2>2. type = "idle" => AllTold(log')
    BY <2>1 DEF LogInv, EndIsTold, AllTold
  <2> QED
    BY <1>1, <1>2, <2>1, <2>2 DEF Ends
<1>3. CASE Terminate(x)
  <2>1. End("terminated", b) \in Seq(Events)
        /\ ClosingWords(End("terminated", b), b, "terminated")
    BY <1>1, EndWords
  <2> QED
    BY <1>2, <1>3, <2>1 DEF Terminate, LastTypes
<1>4. ASSUME NEW ok \in BOOLEAN, FailTurn(x, ok)
      PROVE  \E last \in LastTypes, u \in Seq(Events) : Ends(b, last, u)
  <2> DEFINE c == Collected(b, ok)
             e == End("idle", b)
  <2>1. /\ c \in Seq(Events) /\ ClosingWords(c, b, "idle")
        /\ e \in Seq(Events) /\ ClosingWords(e, b, "idle")
    BY <1>1, EndWords
  <2>2. log' = (log \o c) \o e /\ Release(mem[x], "idle", "error")
    BY <1>4 DEF FailTurn
  <2> HIDE DEF c, e
  <2>3. log' = log \o (c \o e)
    BY <1>0, <2>1, <2>2, ConcatAssociative
  <2>4. c \o e \in Seq(Events) /\ ClosingWords(c \o e, b, "idle")
    BY <2>1, ThenEndWords, SeqGrows
  <2> QED
    BY <1>2, <2>2, <2>3, <2>4 DEF LastTypes
<1>5. ASSUME NEW ok \in BOOLEAN, Finish(x, ok)
      PROVE  \E last \in LastTypes, u \in Seq(Events) : Ends(b, last, u)
  <2>1. Collected(b, ok) \in Seq(Events) /\ ClosingWords(Collected(b, ok), b, "idle")
    BY <1>1, EndWords
  <2> QED
    BY <1>2, <1>5, <2>1 DEF Finish, LastTypes
<1>6. CASE EmitWrite(x)
  <2>1. PICK type \in SpokenTypes : Append1(type, b)
    BY <1>6 DEF EmitWrite, SpokenTypes
  <2> QED
    BY <1>1, <1>6, <2>1 DEF EmitWrite, Append1, Says
<1>7. CASE KeyRefused(x) \/ Begin(x) \/ EmitCheck(x) \/ Raise(x)
           \/ \E result \in {"clear", "paused"}, next \in {"say", "end"} : Graph(x, result, next)
  BY <1>7 DEF KeyRefused, Begin, EmitCheck, Raise, Graph, Stays
<1>8. ~ \E ok \in BOOLEAN : StopTurn(x, ok)
  BY DEF StopTurn, Unstopped
<1> QED
  BY <1>3, <1>4, <1>5, <1>6, <1>7, <1>8 DEF Turn

\* Every step is one of the four.
LEMMA StepKinds ==
  ASSUME Quiet, LogInv, LogInv', Unstopped, [Next]_vars
  PROVE  \/ Stays
         \/ \E b \in Batches : Accepts(b)
         \/ \E b \in Batches, type \in SpokenTypes : Says(b, type)
         \/ \E b \in Sources, type \in LastTypes, t \in Seq(Events) : Ends(b, type, t)
<1> USE DEF row, reqs, stops, queue, work
<1>1. ASSUME NEW w \in Workers, Turn(w) PROVE wbatch[w] \in Batches
  BY <1>1, TurnHolds DEF LogInv
<1>2. CASE Sweep
  <2>1. /\ status = "running" /\ status' = "idle" /\ gen' = gen + 1
        /\ log' = log \o End("idle", None)
    BY <1>2 DEF Sweep, Release, Snapshot
  <2>2. AllTold(log')
    BY <2>1 DEF LogInv, EndIsTold, AllTold
  <2>3. /\ None \in Sources /\ End("idle", None) \in Seq(Events)
        /\ ClosingWords(End("idle", None), None, "idle")
    BY EndWords DEF Sources
  <2>4. Ends(None, "idle", End("idle", None))
    BY <2>1, <2>2, <2>3 DEF Ends
  <2> QED
    BY <2>3, <2>4 DEF LastTypes
<1>3. ASSUME NEW b \in Batches, NEW w \in Workers, Load(b, w) PROVE Stays
  BY <1>3 DEF Load, Stays
<1>4. ASSUME NEW w \in Workers, Heartbeat(w) \/ CrashWorker(w) PROVE Stays
  BY <1>4 DEF Heartbeat, HbRead, HbWrite, HbDies, CrashWorker, Stays
<1>5. CASE LeaseLapse \/ Delete \/ UNCHANGED vars
  BY <1>5 DEF LeaseLapse, Delete, vars, Stays
<1>6. ~ \E s \in Stops : Interrupt(s)
  BY DEF Quiet
<1>7. ASSUME NEW b \in Batches, Request(b)
      PROVE  \/ Stays \/ Accepts(b)
             \/ \E c \in Sources, type \in LastTypes, t \in Seq(Events) : Ends(c, type, t)
  BY <1>7, RequestStep DEF Sources, LastTypes
<1>8. ASSUME NEW w \in Workers, Turn(w)
      PROVE  \/ Stays
             \/ \E b \in Batches, type \in SpokenTypes : Says(b, type)
             \/ \E c \in Sources, type \in LastTypes, t \in Seq(Events) : Ends(c, type, t)
  BY <1>1, <1>8, TurnStep DEF Sources
<1> QED
  BY <1>2, <1>3, <1>4, <1>5, <1>6, <1>7, <1>8 DEF Next

LEMMA StillNew ==
  ASSUME TypeOK, [Next]_vars, NEW b \in Batches, bpc'[b] = "new"
  PROVE  bpc[b] = "new"
<1> USE DEF row, reqs, stops, queue, work
<1>1. ASSUME NEW a \in Batches, Request(a) PROVE bpc[b] = "new"
  BY <1>1 DEF Request, Dispatch, AcceptBatch, RefuseBatch, DispatchInline, Enqueue,
              EnqueueFails, DispatchFailed, RequestDies, DropInline, TypeOK
<1>2. ASSUME NEW s \in Stops, Interrupt(s) PROVE bpc[b] = "new"
  BY <1>2 DEF Interrupt, LoadForCancel, CancelCommit
<1>3. ASSUME NEW a \in Batches, NEW w \in Workers, Load(a, w) PROVE bpc[b] = "new"
  BY <1>3 DEF Load
<1>4. ASSUME NEW w \in Workers, Turn(w) PROVE bpc[b] = "new"
  BY <1>4 DEF Turn, Terminate, KeyRefused, Begin, EmitCheck, EmitWrite, Raise, Graph,
              FailTurn, StopTurn, Finish
<1>5. ASSUME NEW w \in Workers, Heartbeat(w) \/ CrashWorker(w) PROVE bpc[b] = "new"
  BY <1>5 DEF Heartbeat, HbRead, HbWrite, HbDies, CrashWorker
<1>6. CASE LeaseLapse \/ Sweep \/ Delete \/ UNCHANGED vars
  BY <1>6 DEF LeaseLapse, Sweep, Delete, vars
<1> QED
  BY <1>1, <1>2, <1>3, <1>4, <1>5, <1>6 DEF Next

LEMMA StillGoing ==
  ASSUME Quiet, QInv, Unstopped, [Next]_vars PROVE Unstopped'
<1> USE DEF row, reqs, stops, queue, work
<1>0. TypeOK
  BY DEF QInv
<1>1. ASSUME NEW a \in Batches, Request(a) PROVE wpc' = wpc
  BY <1>1 DEF Request, Dispatch, AcceptBatch, RefuseBatch, DispatchInline, Enqueue,
              EnqueueFails, DispatchFailed, RequestDies, DropInline
<1>2. ~ \E s \in Stops : Interrupt(s)
  BY DEF Quiet
<1>3. ASSUME NEW a \in Batches, NEW w \in Workers, Load(a, w) PROVE Unstopped'
  BY <1>0, <1>3 DEF Load, Unstopped, TypeOK
<1>4. ASSUME NEW w \in Workers, Turn(w) PROVE Unstopped'
  <2>1. gen = mem[w].gen /\ status = "running"
    BY <1>4, TurnHolds DEF QInv, HolderKnowsRow
  <2>2. \E place : place # "stopped" /\ wpc' = [wpc EXCEPT ![w] = place]
    <3>1. CASE KeyRefused(w) \/ Terminate(w) \/ \E ok \in BOOLEAN :
                 FailTurn(w, ok) \/ StopTurn(w, ok) \/ Finish(w, ok)
      BY <3>1 DEF Leave, KeyRefused, Terminate, FailTurn, StopTurn, Finish
    <3>2. CASE EmitCheck(w)
      BY <1>0, <2>1, <3>2 DEF EmitCheck, Emitting, TypeOK
    <3>3. CASE Begin(w) \/ EmitWrite(w) \/ Raise(w)
      BY <3>3 DEF Begin, EmitWrite, Raise
    <3>4. ASSUME NEW result \in {"clear", "paused"}, NEW next \in {"say", "end"},
                 Graph(w, result, next)
          PROVE  \E place : place # "stopped" /\ wpc' = [wpc EXCEPT ![w] = place]
      BY <3>4 DEF Graph
    <3> QED
      BY <1>4, <3>1, <3>2, <3>3, <3>4 DEF Turn
  <2> QED
    BY <1>0, <2>2 DEF Unstopped, TypeOK
<1>5. ASSUME NEW w \in Workers, Heartbeat(w) PROVE wpc' = wpc
  BY <1>5 DEF Heartbeat, HbRead, HbWrite, HbDies
<1>6. ASSUME NEW w \in Workers, CrashWorker(w) PROVE Unstopped'
  BY <1>0, <1>6 DEF CrashWorker, Leave, Unstopped, TypeOK
<1>7. CASE LeaseLapse \/ Sweep \/ Delete \/ UNCHANGED vars
  BY <1>7 DEF LeaseLapse, Sweep, Delete, vars, Unstopped
<1> QED
  BY <1>1, <1>2, <1>3, <1>4, <1>5, <1>6, <1>7 DEF Next, Unstopped

\* The log with more at its end: the last batch stays, or is the one just added; no
\* other batch is in it than before.
LEMMA OneMore ==
  ASSUME NEW s \in Seq(Events), NEW type, NEW by, Event(type, by) \in Events
  PROVE  /\ <<Event(type, by)>> \in Seq(Events)
         /\ Append(s, Event(type, by)) = s \o <<Event(type, by)>>
         /\ type # "user" => Silent(<<Event(type, by)>>)
<1>1. <<Event(type, by)>> \in Seq(Events)
  OBVIOUS
<1>2. Append(s, Event(type, by)) = s \o <<Event(type, by)>>
  OBVIOUS
<1>3. type # "user" => Silent(<<Event(type, by)>>)
  BY DEF Silent, Event
<1> QED
  BY <1>1, <1>2, <1>3

LEMMA StillUnsent ==
  ASSUME NEW s \in Seq(Events), NEW t \in Seq(Events), Silent(t), NEW b,
         \A i \in DOMAIN s : s[i] # Event("user", b)
  PROVE  \A i \in DOMAIN (s \o t) : (s \o t)[i] # Event("user", b)
<1> SUFFICES ASSUME NEW i \in DOMAIN (s \o t) PROVE (s \o t)[i] # Event("user", b)
  OBVIOUS
<1>1. CASE i \in 1..Len(s)
  BY <1>1, Longer
<1>2. CASE i \in (Len(s) + 1)..(Len(s) + Len(t))
  <2>1. i - Len(s) \in DOMAIN t /\ (s \o t)[i] = t[i - Len(s)]
    BY <1>2, Longer
  <2> QED
    BY <2>1 DEF Silent, Event
<1> QED
  BY <1>1, <1>2, Longer

LEMMA SaidKeeps ==
  ASSUME TypeOK, Recorded, Unsent, status = "running", NEW t \in Seq(Events), Silent(t),
         log' = log \o t, \A b \in Batches : bpc'[b] = "new" => bpc[b] = "new"
  PROVE  Recorded' /\ Unsent'
<1>1. log \in Seq(Events)
  BY DEF TypeOK
<1>2. PICK b \in Batches : LastUser(log, b)
  BY DEF Recorded
<1>3. LastUser(log', b)
  BY <1>1, <1>2, StillLast
<1>4. Recorded'
  BY <1>3 DEF Recorded, LastUser
<1>5. ASSUME NEW c \in Batches, bpc'[c] = "new"
      PROVE  \A i \in DOMAIN log' : log'[i] # Event("user", c)
  BY <1>1, <1>5, StillUnsent DEF Unsent
<1> QED
  BY <1>4, <1>5 DEF Unsent

LEMMA EndsSilent ==
  ASSUME NEW b, NEW type \in LastTypes, NEW t \in Seq(Events), Ends(b, type, t)
  PROVE  Silent(t)
  BY DEF Ends, ClosingWords, Silent, LastTypes

LEMMA TurnNext == Quiet /\ TurnInv /\ [Next]_vars => TurnInv'
<1> SUFFICES ASSUME Quiet, TurnInv, [Next]_vars PROVE TurnInv'
  OBVIOUS
<1> USE DEF TurnInv
<1>1. LogInv' /\ TypeOK /\ log \in Seq(Events)
  BY LogNext DEF LogInv, QInv, TypeOK
<1>2. \A b \in Batches : bpc'[b] = "new" => bpc[b] = "new"
  BY <1>1, StillNew
<1>3. Unstopped'
  BY StillGoing DEF LogInv
<1>4. CASE Stays
  BY <1>1, <1>2, <1>3, <1>4 DEF Stays, Recorded, Unsent, LastUser
<1>5. ASSUME NEW b \in Batches, Accepts(b) PROVE Recorded' /\ Unsent'
  <2>1. Event("user", b) \in Events
    BY DEF Event, Events
  <2> DEFINE t == <<Event("user", b)>>
  <2>2. t \in Seq(Events) /\ Len(t) = 1 /\ t[1] = Event("user", b) /\ log' = log \o t
    BY <1>1, <1>5, <2>1, OneMore DEF Accepts
  <2> HIDE DEF t
  <2>3. LastUser(log', b)
    BY <1>1, <2>2, NewLast
  <2>4. ASSUME NEW c \in Batches, bpc'[c] = "new", NEW i \in DOMAIN log'
        PROVE  log'[i] # Event("user", c)
    <3>1. c # b /\ bpc[c] = "new"
      BY <1>2, <1>5, <2>4 DEF Accepts
    <3>2. CASE i \in 1..Len(log)
      BY <1>1, <2>2, <3>1, <3>2, Longer DEF Unsent
    <3>3. CASE i = Len(log) + 1
      BY <1>1, <2>2, <3>1, <3>3, Longer DEF Event
    <3> QED
      BY <1>1, <2>2, <2>4, <3>2, <3>3, Longer
  <2> QED
    BY <2>3, <2>4 DEF Recorded, Unsent, LastUser
<1>6. ASSUME NEW b \in Batches, NEW type \in SpokenTypes, Says(b, type)
      PROVE  Recorded' /\ Unsent'
  <2>1. Event(type, b) \in Events /\ type # "user"
    BY DEF Event, Events, SpokenTypes
  <2>2. /\ status = "running" /\ <<Event(type, b)>> \in Seq(Events)
        /\ Silent(<<Event(type, b)>>) /\ log' = log \o <<Event(type, b)>>
    BY <1>1, <1>6, <2>1, OneMore DEF Says
  <2> QED
    BY <1>1, <1>2, <2>2, SaidKeeps
<1>7. ASSUME NEW b \in Sources, NEW type \in LastTypes, NEW t \in Seq(Events), Ends(b, type, t)
      PROVE  Recorded' /\ Unsent'
  <2>1. status = "running" /\ log' = log \o t /\ Silent(t)
    BY <1>7, EndsSilent DEF Ends
  <2> QED
    BY <1>1, <1>2, <2>1, SaidKeeps
<1>8. Recorded' /\ Unsent'
  BY <1>1, <1>4, <1>5, <1>6, <1>7, StepKinds
<1> QED
  BY <1>1, <1>3, <1>8

\* The three kinds of step that the client sees are those of the conversation.
LEMMA AcceptsIs ==
  ASSUME TurnInv, TurnInv', NEW b \in Batches, Accepts(b) PROVE C!Accept(b)
<1>1. TypeOK /\ TypeOK' /\ log \in Seq(Events)
  BY DEF TurnInv, LogInv, QInv, TypeOK
<1>2. Event("user", b) \in Events
  BY DEF Event, Events
<1> DEFINE t == <<Event("user", b)>>
<1>3. t \in Seq(Events) /\ Len(t) = 1 /\ t[1] = Event("user", b) /\ log' = log \o t
  BY <1>1, <1>2, OneMore DEF Accepts
<1> HIDE DEF t
<1>4. LastUser(log', b)
  BY <1>1, <1>3, NewLast
<1>5. Taking' = b
  BY <1>1, <1>4, TakingNext DEF Accepts
<1>6. \A i \in DOMAIN log : log[i] # Event("user", b)
  BY DEF TurnInv, Unsent, Accepts
<1> QED
  BY <1>5, <1>6 DEF Accepts, C!Accept, C!Event, Event

LEMMA SaysIs ==
  ASSUME TurnInv, TurnInv', NEW b \in Batches, NEW type \in SpokenTypes, Says(b, type)
  PROVE  C!Say(type)
<1>1. TypeOK /\ TypeOK' /\ log \in Seq(Events)
  BY DEF TurnInv, LogInv, QInv, TypeOK
<1>2. Event(type, b) \in Events /\ type # "user"
  BY DEF Event, Events, SpokenTypes
<1>3. /\ <<Event(type, b)>> \in Seq(Events) /\ Silent(<<Event(type, b)>>)
      /\ log' = log \o <<Event(type, b)>> /\ status = "running" /\ LastUser(log, b)
  BY <1>1, <1>2, OneMore DEF Says
<1>4. LastUser(log', b)
  BY <1>1, <1>3, StillLast
<1>5. Taking = b /\ Taking' = b
  BY <1>1, <1>3, <1>4, TakingIs, TakingNext DEF Says
<1>6. b # None
  OBVIOUS
<1> QED
  BY <1>5, <1>6 DEF Says, C!Say, C!Event, Event

LEMMA EndsIs ==
  ASSUME TurnInv, TurnInv', NEW by \in Sources, NEW type \in LastTypes, NEW t \in Seq(Events),
         Ends(by, type, t)
  PROVE  C!Finish(type)
<1>1. TypeOK /\ log \in Seq(Events)
  BY DEF TurnInv, LogInv, QInv, TypeOK
<1>2. /\ status = "running" /\ status' = type /\ type # "running" /\ gen' = gen + 1
      /\ log' = log \o t
  BY DEF Ends, LastTypes
<1>3. PICK b \in Batches : LastUser(log, b)
  BY <1>2 DEF TurnInv, Recorded
<1>4. Taking = b /\ b # None /\ Taking' = None
  BY <1>1, <1>2, <1>3, TakingIs DEF Taking
<1>5. by \in {b, None}
  BY <1>1, <1>3, OneLast DEF Ends
<1>6. C!GoesOn({"error", type})
  <2>1. Len(log) <= Len(log') /\ \A i \in DOMAIN log : log'[i] = log[i]
    BY <1>1, <1>2, Longer
  <2>2. ASSUME NEW i \in DOMAIN log' \ DOMAIN log
        PROVE  log'[i].type \in {"error", type} /\ log'[i].by \in {b, None}
    <3>1. i - Len(log) \in DOMAIN t /\ log'[i] = t[i - Len(log)]
      BY <1>1, <1>2, <2>2, Longer
    <3> QED
      BY <1>5, <3>1 DEF Ends, ClosingWords
  <2> QED
    BY <1>4, <2>1, <2>2 DEF C!GoesOn
<1>7. C!Told(type)
  <2>1. PICK i \in DOMAIN log : log[i] = Event("user", b)
    BY <1>3 DEF LastUser
  <2>2. i \in DOMAIN log' /\ log'[i] = Event("user", b) /\ log'[i].type = "user"
    BY <1>1, <1>2, <2>1, Longer DEF Event
  <2>3. \E j \in DOMAIN log' : i < j /\ log'[j].type = type
    <3>1. CASE type = "idle"
      <4>1. PICK j \in DOMAIN log' : j > i /\ log'[j].type = "idle"
        BY <2>2, <3>1 DEF Ends, AllTold
      <4>2. i \in Int /\ j \in Int
        BY <1>1, <1>2, <2>1, <4>1, Longer
      <4> QED
        BY <3>1, <4>1, <4>2
    <3>2. CASE type = "terminated"
      <4>1. PICK k \in DOMAIN t : t[k].type = "terminated"
        BY <3>2 DEF Ends, ClosingWords
      <4>2. /\ Len(log) + k \in DOMAIN log' /\ log'[Len(log) + k] = t[k] /\ i < Len(log) + k
        BY <1>1, <1>2, <2>1, <4>1, Longer
      <4> QED
        BY <3>2, <4>1, <4>2
    <3> QED
      BY <3>1, <3>2 DEF LastTypes
  <2> QED
    BY <1>4, <2>2, <2>3 DEF C!Told, C!Event, Event
<1>8. (status' = "terminated") <=> (type = "terminated")
  BY <1>2
<1> QED
  BY <1>2, <1>4, <1>6, <1>7, <1>8 DEF C!Finish

LEMMA StepIs == Quiet /\ TurnInv /\ TurnInv' /\ [Next]_vars => [C!Next]_(C!vars)
<1> SUFFICES ASSUME Quiet, TurnInv, TurnInv', [Next]_vars PROVE [C!Next]_(C!vars)
  OBVIOUS
<1>1. CASE Stays
  BY <1>1 DEF Stays, C!vars, Taking, LastUser
<1>2. ASSUME NEW b \in Batches, Accepts(b) PROVE C!Next
  BY <1>2, AcceptsIs DEF C!Next
<1>3. ASSUME NEW b \in Batches, NEW type \in SpokenTypes, Says(b, type) PROVE C!Next
  BY <1>3, SaysIs DEF C!Next, SpokenTypes
<1>4. ASSUME NEW b \in Sources, NEW type \in LastTypes, NEW t \in Seq(Events), Ends(b, type, t)
      PROVE  C!Next
  BY <1>4, EndsIs DEF C!Next, LastTypes
<1> QED
  BY <1>1, <1>2, <1>3, <1>4, StepKinds DEF TurnInv

LEMMA InitIs == Init => TurnInv /\ C!Init
<1> HAVE Init
<1>1. status = "idle" /\ gen = 0 /\ log = << >> /\ DOMAIN log = {}
  BY DEF Init
<1>2. Recorded /\ Unsent /\ Unstopped
  BY <1>1 DEF Init, Recorded, Unsent, Unstopped
<1> QED
  BY <1>1, <1>2, InitLog DEF TurnInv, C!Init, Taking

\* In a quiet environment the gate is a conversation: however requests, workers, queue
\* and sweeper interleave and die, row and log take the steps of module Conversation
\* and no others.
THEOREM QuietKeepsConversation == ASSUME Quiet PROVE Spec => KeepsConversation
<1>1. TurnInv /\ [Next]_vars => TurnInv'
  BY TurnNext
<1>2. TurnInv /\ TurnInv' /\ [Next]_vars => [C!Next]_(C!vars)
  BY StepIs
<1>3. KeepsConversation <=> C!Init /\ [][C!Next]_(C!vars)
  BY DEF KeepsConversation, C!Spec
<1> QED
  BY <1>1, <1>2, <1>3, InitIs, PTL DEF Spec
=============================================================================
