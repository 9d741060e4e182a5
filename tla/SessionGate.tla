----------------------------- MODULE SessionGate -----------------------------
(***************************************************************************)
(* One conversation (a row of the sessions table) and everybody who writes *)
(* to it: the requests that deliver a batch of client events               *)
(* (send_events), the requests that carry user.interrupt (cancel_session), *)
(* the workers that run a turn (process_session, with its emitter and its  *)
(* heartbeat), the task queue in front of the workers (_enqueue_task), and *)
(* the sweeper (worker.sweep_once).  What they keep together, when nothing *)
(* interferes, is the conversation of module Conversation.                 *)
(*                                                                         *)
(* The database is PostgreSQL at READ COMMITTED.  A transaction that       *)
(* reads the row into memory and writes it later is two actions; what a    *)
(* transaction does from its first row lock (the first append_event, a     *)
(* conditional UPDATE, a SELECT FOR UPDATE) to its commit is one.          *)
(***************************************************************************)
EXTENDS Integers, Sequences, FiniteSets

CONSTANTS
  Batches,    \* batches of client events, each sent once
  Answers,    \* those whose first event is an action result
  Stops,      \* user.interrupt requests
  Workers,    \* slots in which process_session can run
  None,       \* no batch, or the system itself as the source of an event
  Cloud,      \* TRUE: turn_dispatch = "cloud", FALSE: "inline"
  Unreliable, \* the queue may deliver a task again that a worker has taken, or
              \* keep one whose creation it reported as failed
  Timely,     \* a lease lapses only when nobody is left to act under it
  MaxTries    \* bound on the deliveries of one task

ASSUME BatchAssumption == Answers \subseteq Batches /\ None \notin Batches \cup Stops
ASSUME ModeAssumption ==
  /\ Cloud \in BOOLEAN /\ Unreliable \in BOOLEAN /\ Timely \in BOOLEAN
  /\ Unreliable => Cloud
ASSUME TriesAssumption == MaxTries \in Nat

VARIABLES
  status, stop, lease, gen, deleted,  \* the row: gen is lock_version
  log,                                \* session_events in seq order
  graph,                              \* the checkpoint: is the graph paused?
  bpc, bgen,                          \* send_events, and the generation it read
  spc, smem,                          \* cancel_session and its copy of the row
  task, tries, names,                 \* the queue: tasks, deliveries, names used
  wpc, wbatch, mem,                   \* process_session and its copy of the row
  checked, outcome, hb                \* emitter, stop_reason and heartbeat

row   == <<status, stop, lease, gen>>
reqs  == <<bpc, bgen>>
stops == <<spc, smem>>
queue == <<task, tries, names>>
work  == <<wpc, wbatch, mem, checked, outcome, hb>>
vars  == <<row, deleted, log, graph, reqs, stops, queue, work>>

Status    == {"idle", "running", "terminated"}
StopKinds == {"none", "end_turn", "requires_action", "interrupted", "error", "fatal"}
RowCopy   == [status : Status, stop : StopKinds, leased : BOOLEAN, gen : Nat]
Events    == [type : {"user", "interrupt", "running", "message", "idle", "error",
                      "terminated"},
              by : Batches \cup Stops \cup {None}]

\* Where process_session can be.  At "start", "say" and "end" the engine is
\* about to emit; "stopped" is the SessionCancelled handler, "failing" the
\* BaseException one and "collecting" the normal way out.
Emitting  == {"start", "say", "end"}
Executing == Emitting \cup {"graph"}
WorkerPc  == Executing \cup {"free", "loaded", "collecting", "stopped", "failing"}
Busy(w)   == wpc[w] # "free"

\* What an ORM read of the row leaves in memory.
Snapshot == [status |-> status, stop |-> stop, leased |-> lease # "none", gen |-> gen]
Blank    == [status |-> "idle", stop |-> "none", leased |-> FALSE, gen |-> 0]

TypeOK ==
  /\ status \in Status /\ stop \in StopKinds /\ lease \in {"none", "live", "lapsed"}
  /\ gen \in Nat /\ deleted \in BOOLEAN
  /\ log \in Seq(Events)
  /\ graph \in {"clear", "paused"}
  /\ bpc \in [Batches -> {"new", "accepted", "refused", "failing", "sent", "failed", "dead"}]
  /\ bgen \in [Batches -> Nat]
  /\ spc \in [Stops -> {"new", "loaded", "done", "refused"}]
  /\ smem \in [Stops -> RowCopy]
  /\ task \in [Batches -> {"none", "queued", "taken", "done"}]
  /\ tries \in [Batches -> Nat]
  /\ names \subseteq Nat
  /\ wpc \in [Workers -> WorkerPc]
  /\ wbatch \in [Workers -> Batches \cup {None}]
  /\ mem \in [Workers -> RowCopy]
  /\ checked \in [Workers -> BOOLEAN]
  /\ outcome \in [Workers -> StopKinds]
  /\ hb \in [Workers -> {"off", "on", "renewing"}]

Init ==
  /\ status = "idle" /\ stop = "none" /\ lease = "none" /\ gen = 0 /\ deleted = FALSE
  /\ log = << >> /\ graph = "clear"
  /\ bpc = [b \in Batches |-> "new"] /\ bgen = [b \in Batches |-> 0]
  /\ spc = [s \in Stops |-> "new"] /\ smem = [s \in Stops |-> Blank]
  /\ task = [b \in Batches |-> "none"] /\ tries = [b \in Batches |-> 0] /\ names = {}
  /\ wpc = [w \in Workers |-> "free"] /\ wbatch = [w \in Workers |-> None]
  /\ mem = [w \in Workers |-> Blank]
  /\ checked = [w \in Workers |-> FALSE]
  /\ outcome = [w \in Workers |-> "none"] /\ hb = [w \in Workers |-> "off"]

(***************************************************************************)
(* The row's own operations.                                               *)
(***************************************************************************)

Event(type, by) == [type |-> type, by |-> by]

\* append_event: the database hands out the next number, under the row lock.
Append1(type, by) == log' = Append(log, Event(type, by))

\* What collect_outputs adds when it fails, and the pair an abnormal end writes.
Collected(by, ok) == IF ok THEN << >> ELSE <<Event("error", by)>>
End(last, by) == <<Event("error", by), Event(last, by)>>

\* Mutant of CanClaim: a running session is claimed whatever its lease.
CanClaim_AnyLease(answering) ==
  /\ ~deleted /\ status \in {"idle", "running"}
  /\ answering \/ stop # "requires_action"

\* The WHERE clause of claim_session.
CanClaim(answering) ==
  /\ ~deleted
  /\ status = "idle" \/ (status = "running" /\ lease # "live")
  /\ answering \/ stop # "requires_action"

\* Mutants of Release: lock_version is left alone, or counted down.
Release_NoBump(m, newStatus, newStop) ==
  status' = newStatus /\ stop' = newStop /\ lease' = "none" /\ gen' = m.gen
Release_Down(m, newStatus, newStop) ==
  status' = newStatus /\ stop' = newStop /\ lease' = "none" /\ gen' = m.gen - 1

\* release_session on an in-memory copy m of the row: the flush writes only the
\* columns whose new value differs from the copy, and lock_version is counted
\* up from the copy.
Release(m, newStatus, newStop) ==
  /\ status' = IF m.status = newStatus THEN status ELSE newStatus
  /\ stop' = IF m.stop = newStop THEN stop ELSE newStop
  /\ lease' = IF m.leased THEN "none" ELSE lease
  /\ gen' = m.gen + 1

(***************************************************************************)
(* send_events.                                                            *)
(***************************************************************************)

\* The claim, the batch in the log and the re-read row, in one transaction.
AcceptBatch(b) ==
  /\ bpc[b] = "new"
  /\ CanClaim(b \in Answers)
  /\ status' = "running" /\ stop' = "none" /\ lease' = "live"
  /\ Append1("user", b)
  /\ bpc' = [bpc EXCEPT ![b] = "accepted"]
  /\ bgen' = [bgen EXCEPT ![b] = gen]
  /\ UNCHANGED <<gen, deleted, graph, stops, queue, work>>

\* SessionBusy, or NotFound on a deleted session: nothing is written.
RefuseBatch(b) ==
  /\ bpc[b] = "new"
  /\ ~CanClaim(b \in Answers)
  /\ bpc' = [bpc EXCEPT ![b] = "refused"]
  /\ UNCHANGED <<row, deleted, log, graph, bgen, stops, queue, work>>

\* _dispatch_turn, inline: a task of this process, which nothing redelivers.
DispatchInline(b) ==
  /\ ~Cloud /\ bpc[b] = "accepted"
  /\ bpc' = [bpc EXCEPT ![b] = "sent"]
  /\ task' = [task EXCEPT ![b] = "queued"]
  /\ UNCHANGED <<row, deleted, log, graph, bgen, stops, tries, names, work>>

\* _enqueue_task: the task is named after the generation the request read, and
\* AlreadyExists counts as done.
Enqueue(b) ==
  /\ Cloud /\ bpc[b] = "accepted"
  /\ bpc' = [bpc EXCEPT ![b] = "sent"]
  /\ task' = IF bgen[b] \in names THEN task ELSE [task EXCEPT ![b] = "queued"]
  /\ names' = names \cup {bgen[b]}
  /\ UNCHANGED <<row, deleted, log, graph, bgen, stops, tries, work>>

\* create_task raises on the last attempt; the queue may have kept the task.
EnqueueFails(b, kept) ==
  /\ Cloud /\ bpc[b] = "accepted"
  /\ bpc' = [bpc EXCEPT ![b] = "failing"]
  /\ kept => Unreliable /\ bgen[b] \notin names
  /\ task' = IF kept THEN [task EXCEPT ![b] = "queued"] ELSE task
  /\ names' = IF kept THEN names \cup {bgen[b]} ELSE names
  /\ UNCHANGED <<row, deleted, log, graph, bgen, stops, tries, work>>

\* The copy send_events holds after its claim.
ClaimCopy(b) == [status |-> "running", stop |-> "none", leased |-> TRUE, gen |-> bgen[b]]

\* Mutant of DispatchFailed: the row is left running, for somebody to sweep.
DispatchFailed_LeavesRow(b) ==
  /\ bpc[b] = "failing"
  /\ bpc' = [bpc EXCEPT ![b] = "failed"]
  /\ UNCHANGED <<row, deleted, log, graph, bgen, stops, queue, work>>

\* The except branch of send_events: lock the row, re-read its status (not its
\* lock_version), and _fail the turn if the session is running.
DispatchFailed(b) ==
  /\ bpc[b] = "failing"
  /\ bpc' = [bpc EXCEPT ![b] = "failed"]
  /\ IF status = "running"
       THEN log' = log \o End("idle", b) /\ Release(ClaimCopy(b), "idle", "error")
       ELSE UNCHANGED <<row, log>>
  /\ UNCHANGED <<deleted, graph, bgen, stops, queue, work>>

\* The process serving the request dies between its commit and its dispatch.
RequestDies(b) ==
  /\ bpc[b] \in {"accepted", "failing"}
  /\ bpc' = [bpc EXCEPT ![b] = "dead"]
  /\ UNCHANGED <<row, deleted, log, graph, bgen, stops, queue, work>>

(***************************************************************************)
(* cancel_session.                                                         *)
(***************************************************************************)

LoadForCancel(s) ==
  /\ spc[s] = "new"
  /\ spc' = [spc EXCEPT ![s] = IF deleted \/ status = "terminated" THEN "refused" ELSE "loaded"]
  /\ smem' = [smem EXCEPT ![s] = Snapshot]
  /\ UNCHANGED <<row, deleted, log, graph, reqs, queue, work>>

\* Everything from the first append_event on; the decisions are taken on the copy.
CancelCommit(s) ==
  LET m == smem[s] IN
  /\ spc[s] = "loaded"
  /\ spc' = [spc EXCEPT ![s] = "done"]
  /\ smem' = [smem EXCEPT ![s] = Blank]
  /\ IF m.status = "running" \/ m.stop = "requires_action"
       THEN /\ log' = log \o <<Event("interrupt", s), Event("idle", s)>>
            /\ Release(m, "idle", "interrupted")
       ELSE /\ Append1("interrupt", s)
            /\ UNCHANGED row
  /\ UNCHANGED <<deleted, graph, reqs, queue, work>>

(***************************************************************************)
(* process_session.                                                        *)
(***************************************************************************)

Deliverable(b) ==
  /\ task[b] = "queued" \/ (Unreliable /\ task[b] \in {"taken", "done"})
  /\ tries[b] < MaxTries

\* The first read: by id, deleted or not; a session that is not running is left alone.
Load(b, w) ==
  /\ Deliverable(b) /\ ~Busy(w)
  /\ tries' = [tries EXCEPT ![b] = @ + 1]
  /\ IF status = "running"
       THEN /\ task' = [task EXCEPT ![b] = "taken"]
            /\ wpc' = [wpc EXCEPT ![w] = "loaded"]
            /\ wbatch' = [wbatch EXCEPT ![w] = b]
            /\ mem' = [mem EXCEPT ![w] = Snapshot]
       ELSE /\ task' = [task EXCEPT ![b] = "done"]
            /\ UNCHANGED <<wpc, wbatch, mem>>
  /\ UNCHANGED <<row, deleted, log, graph, reqs, stops, names, checked, outcome, hb>>

\* Mutant of Leave: the SessionCancelled handler forgets the heartbeat.
Leave_KeepsBeat(w) ==
  /\ wpc' = [wpc EXCEPT ![w] = "free"]
  /\ wbatch' = [wbatch EXCEPT ![w] = None]
  /\ checked' = [checked EXCEPT ![w] = FALSE]
  /\ outcome' = [outcome EXCEPT ![w] = "none"]
  /\ mem' = [mem EXCEPT ![w] = Blank]
  /\ hb' = IF wpc[w] = "stopped" THEN hb ELSE [hb EXCEPT ![w] = "off"]

\* process_session returns, one way or another: 204 to the queue.
Leave(w) ==
  /\ wpc' = [wpc EXCEPT ![w] = "free"]
  /\ wbatch' = [wbatch EXCEPT ![w] = None]
  /\ checked' = [checked EXCEPT ![w] = FALSE]
  /\ outcome' = [outcome EXCEPT ![w] = "none"]
  /\ mem' = [mem EXCEPT ![w] = Blank]
  /\ hb' = [hb EXCEPT ![w] = "off"]

TaskDone(w) == task' = [task EXCEPT ![wbatch[w]] = "done"] /\ UNCHANGED <<tries, names>>

\* No usable sandbox, or no such agent version: _terminate.
Terminate(w) ==
  /\ wpc[w] = "loaded"
  /\ log' = log \o End("terminated", wbatch[w])
  /\ Release(mem[w], "terminated", "fatal")
  /\ Leave(w) /\ TaskDone(w)
  /\ UNCHANGED <<deleted, graph, reqs, stops>>

\* resolve_spendable_key raises, outside the try: the row is left as it was.
KeyRefused(w) ==
  /\ wpc[w] = "loaded"
  /\ Leave(w) /\ TaskDone(w)
  /\ UNCHANGED <<row, deleted, log, graph, reqs, stops>>

\* The heartbeat is created and execute_agent entered.
Begin(w) ==
  /\ wpc[w] = "loaded"
  /\ wpc' = [wpc EXCEPT ![w] = "start"]
  /\ hb' = [hb EXCEPT ![w] = "on"]
  /\ UNCHANGED <<row, deleted, log, graph, reqs, stops, queue, wbatch, mem, checked, outcome>>

\* Mutant of EmitCheck: the stop reason is read before the graph has run.
EmitCheck_Early(w) ==
  /\ wpc[w] \in Emitting /\ ~checked[w]
  /\ IF gen = mem[w].gen /\ status = "running"
       THEN checked' = [checked EXCEPT ![w] = TRUE] /\ UNCHANGED wpc
       ELSE wpc' = [wpc EXCEPT ![w] = "stopped"] /\ UNCHANGED checked
  /\ outcome' = [outcome EXCEPT ![w] =
       IF wpc[w] # "start" THEN @
       ELSE IF graph = "paused" THEN "requires_action" ELSE "end_turn"]
  /\ UNCHANGED <<row, deleted, log, graph, reqs, stops, queue, wbatch, mem, hb>>

\* _emitter, first half: re-read the row and compare the generation.  Before
\* the closing event the engine asks the graph why it stopped.
EmitCheck(w) ==
  /\ wpc[w] \in Emitting /\ ~checked[w]
  /\ IF gen = mem[w].gen /\ status = "running"
       THEN /\ checked' = [checked EXCEPT ![w] = TRUE]
            /\ UNCHANGED wpc
       ELSE /\ wpc' = [wpc EXCEPT ![w] = "stopped"]
            /\ UNCHANGED checked
  /\ outcome' = [outcome EXCEPT ![w] =
       IF wpc[w] # "end" THEN @
       ELSE IF graph = "paused" THEN "requires_action" ELSE "end_turn"]
  /\ UNCHANGED <<row, deleted, log, graph, reqs, stops, queue, wbatch, mem, hb>>

\* _emitter, second half: append and commit.  After the closing event the
\* engine returns and the heartbeat is cancelled.
EmitWrite(w) ==
  /\ checked[w]
  /\ checked' = [checked EXCEPT ![w] = FALSE]
  /\ \/ wpc[w] = "start" /\ Append1("running", wbatch[w])
        /\ wpc' = [wpc EXCEPT ![w] = "graph"] /\ UNCHANGED hb
     \/ wpc[w] = "say" /\ Append1("message", wbatch[w])
        /\ wpc' = [wpc EXCEPT ![w] = "end"] /\ UNCHANGED hb
     \/ wpc[w] = "end" /\ Append1("idle", wbatch[w])
        /\ wpc' = [wpc EXCEPT ![w] = "collecting"] /\ hb' = [hb EXCEPT ![w] = "off"]
  /\ UNCHANGED <<row, deleted, graph, reqs, stops, queue, wbatch, mem, outcome>>

\* The model and its tools run and the checkpoint moves, whoever owns the row.
\* An answer needs a paused graph; a fresh message cancels a pending call.
Graph(w, result, next) ==
  /\ wpc[w] = "graph"
  /\ wbatch[w] \in Answers => graph = "paused"
  /\ graph' = result
  /\ wpc' = [wpc EXCEPT ![w] = next]
  /\ UNCHANGED <<row, deleted, log, reqs, stops, queue, wbatch, mem, checked, outcome, hb>>

\* Anything that raises inside the try: an answer nobody is waiting for, the
\* turn's time budget, a provider, a tool, a shutdown.
Raise(w) ==
  /\ wpc[w] \in Executing
  /\ wpc' = [wpc EXCEPT ![w] = "failing"]
  /\ checked' = [checked EXCEPT ![w] = FALSE]
  /\ UNCHANGED <<row, deleted, log, graph, reqs, stops, queue, wbatch, mem, outcome, hb>>

\* except BaseException: collect_outputs, then _fail.
FailTurn(w, collected) ==
  /\ wpc[w] = "failing"
  /\ log' = log \o Collected(wbatch[w], collected) \o End("idle", wbatch[w])
  /\ Release(mem[w], "idle", "error")
  /\ Leave(w) /\ TaskDone(w)
  /\ UNCHANGED <<deleted, graph, reqs, stops>>

\* except SessionCancelled: collect_outputs and nothing else.
StopTurn(w, collected) ==
  /\ wpc[w] = "stopped"
  /\ log' = log \o Collected(wbatch[w], collected)
  /\ Leave(w) /\ TaskDone(w)
  /\ UNCHANGED <<row, deleted, graph, reqs, stops>>

\* The normal end: collect_outputs, then release_session with the stop reason.
Finish(w, collected) ==
  /\ wpc[w] = "collecting"
  /\ log' = log \o Collected(wbatch[w], collected)
  /\ Release(mem[w], "idle", outcome[w])
  /\ Leave(w) /\ TaskDone(w)
  /\ UNCHANGED <<deleted, graph, reqs, stops>>

\* The process dies mid-turn, or the end of the turn fails in a way nothing
\* catches.  The queue redelivers, until it gives up; an inline turn is dropped.
CrashWorker(w) ==
  /\ Busy(w)
  /\ Leave(w)
  /\ task' = [task EXCEPT ![wbatch[w]] =
       IF Cloud /\ tries[wbatch[w]] < MaxTries THEN "queued" ELSE "done"]
  /\ UNCHANGED <<row, deleted, log, graph, reqs, stops, tries, names>>

\* The process dies before the inline task has started.
DropInline(b) ==
  /\ ~Cloud /\ task[b] = "queued"
  /\ task' = [task EXCEPT ![b] = "done"]
  /\ UNCHANGED <<row, deleted, log, graph, reqs, stops, tries, names, work>>

(***************************************************************************)
(* _hold_lease, the clock, the sweeper and the owner.                      *)
(***************************************************************************)

\* The heartbeat looks at the status only, and returns unless it is running.
HbRead(w) ==
  /\ hb[w] = "on"
  /\ hb' = [hb EXCEPT ![w] = IF status = "running" THEN "renewing" ELSE "off"]
  /\ UNCHANGED <<row, deleted, log, graph, reqs, stops, queue, wpc, wbatch, mem, checked, outcome>>

HbWrite(w) ==
  /\ hb[w] = "renewing"
  /\ lease' = "live"
  /\ hb' = [hb EXCEPT ![w] = "on"]
  /\ UNCHANGED <<status, stop, gen, deleted, log, graph, reqs, stops, queue,
                 wpc, wbatch, mem, checked, outcome>>

\* An exception inside the heartbeat ends it, and nobody notices.
HbDies(w) ==
  /\ hb[w] # "off"
  /\ hb' = [hb EXCEPT ![w] = "off"]
  /\ UNCHANGED <<row, deleted, log, graph, reqs, stops, queue, wpc, wbatch, mem, checked, outcome>>

\* Somebody still has steps to take under the current claim.
Held == \/ \E w \in Workers : Busy(w)
        \/ \E b \in Batches : bpc[b] \in {"accepted", "failing"} \/ task[b] = "queued"

\* LEASE_SECONDS pass without a renewal: no heartbeat is left, and when every
\* step is taken in time nobody else is either.
LeaseLapse ==
  /\ lease = "live"
  /\ Timely => ~Held /\ \A w \in Workers : hb[w] = "off"
  /\ lease' = "lapsed"
  /\ UNCHANGED <<status, stop, gen, deleted, log, graph, reqs, stops, queue, work>>

\* Mutants of Sweep: the idle event is forgotten; a live lease is swept too.
Sweep_Silent ==
  /\ ~deleted /\ status = "running" /\ lease # "live"
  /\ Append1("error", None)
  /\ Release(Snapshot, "idle", "error")
  /\ UNCHANGED <<deleted, graph, reqs, stops, queue, work>>
Sweep_Live ==
  /\ ~deleted /\ status = "running"
  /\ log' = log \o End("idle", None)
  /\ Release(Snapshot, "idle", "error")
  /\ UNCHANGED <<deleted, graph, reqs, stops, queue, work>>

\* sweep_once: the row is locked from the select to the commit.
Sweep ==
  /\ ~deleted /\ status = "running" /\ lease # "live"
  /\ log' = log \o End("idle", None)
  /\ Release(Snapshot, "idle", "error")
  /\ UNCHANGED <<deleted, graph, reqs, stops, queue, work>>

\* delete_session.
Delete ==
  /\ ~deleted
  /\ deleted' = TRUE
  /\ UNCHANGED <<row, log, graph, reqs, stops, queue, work>>

(***************************************************************************)
(* The specification.                                                      *)
(***************************************************************************)

Dispatch(b) ==
  \/ DispatchInline(b)
  \/ Enqueue(b)
  \/ \E kept \in BOOLEAN : EnqueueFails(b, kept)
  \/ DispatchFailed(b)

Request(b) == AcceptBatch(b) \/ RefuseBatch(b) \/ Dispatch(b) \/ RequestDies(b) \/ DropInline(b)

Interrupt(s) == LoadForCancel(s) \/ CancelCommit(s)

\* What process_session does by itself once it has the row.
Turn(w) ==
  \/ Terminate(w) \/ KeyRefused(w) \/ Begin(w)
  \/ EmitCheck(w) \/ EmitWrite(w) \/ Raise(w)
  \/ \E result \in {"clear", "paused"}, next \in {"say", "end"} : Graph(w, result, next)
  \/ \E collected \in BOOLEAN :
       FailTurn(w, collected) \/ StopTurn(w, collected) \/ Finish(w, collected)

Heartbeat(w) == HbRead(w) \/ HbWrite(w) \/ HbDies(w)

Next ==
  \/ \E b \in Batches : Request(b)
  \/ \E s \in Stops : Interrupt(s)
  \/ \E b \in Batches, w \in Workers : Load(b, w)
  \/ \E w \in Workers : Turn(w) \/ Heartbeat(w) \/ CrashWorker(w)
  \/ LeaseLapse \/ Sweep \/ Delete

Spec == Init /\ [][Next]_vars

\* Requests finish what they started, the queue delivers, turns are bounded by
\* their time budget, and time passes.  Nothing is assumed of clients, crashes or
\* heartbeats, nor of the sweeper: running it is optional (worker).
Fairness ==
  /\ \A b \in Batches : WF_vars(Dispatch(b))
  /\ \A b \in Batches : WF_vars(task[b] = "queued" /\ \E w \in Workers : Load(b, w))
  /\ \A w \in Workers : WF_vars(Turn(w))
  /\ WF_vars(LeaseLapse)

FairSpec == Spec /\ Fairness

(***************************************************************************)
(* Properties.                                                             *)
(***************************************************************************)

\* One turn at a time (send_events): two workers never run turns of the
\* session at once, and none runs one while a later batch is being accepted.
OneTurn ==
  /\ \A v, w \in Workers : Busy(v) /\ Busy(w) => v = w
  /\ \A w \in Workers, b \in Batches : Busy(w) => bpc[b] \notin {"accepted", "failing"}

\* What the turn of the i-th event's batch says is said in its own turn: the
\* last batch accepted before it is that batch (release_session, _emitter).
AgentTypes == {"running", "message"}
InOwnTurn(i) ==
  \E j \in 1..i : /\ log[j] = Event("user", log[i].by)
                 /\ \A k \in j..i : log[k].type = "user" => log[k].by = log[i].by
OwnTurn == \A i \in DOMAIN log : log[i].type \in AgentTypes => InOwnTurn(i)

\* Whenever the session is ready for the next message the client has been told:
\* every accepted batch is followed by a session.status_idle (_fail, sweep_once).
ToldIdle ==
  status = "idle" =>
    \A i \in DOMAIN log : log[i].type = "user" =>
      \E j \in DOMAIN log : j > i /\ log[j].type = "idle"

\* A session parked on requires_action really has a graph waiting for the
\* answer (claim_session, process_session's last comment).
ParkedMeansPaused ==
  status = "idle" /\ stop = "requires_action" => graph = "paused"

\* The last batch that log s records is b.
LastUser(s, b) ==
  \E j \in DOMAIN s : /\ s[j] = Event("user", b)
                      /\ \A k \in j..Len(s) : s[k].type = "user" => s[k].by = b

\* Whose turn it is: a running session is the last batch's.
Taking == IF status = "running" THEN CHOOSE b \in Batches : LastUser(log, b) ELSE None

C == INSTANCE Conversation WITH turn <- Taking, over <- status = "terminated"

\* Whoever claims, runs, drops, redelivers or sweeps, the row and the log are a
\* conversation: no words outside their own batch's turn, no turn ended without a
\* generation of its own (the model's comment on Session.lock_version) or without
\* telling its batch, and nothing after the end (stream_events).
KeepsConversation == C!Spec

\* A claimed session frees itself, whatever dies and whoever interrupts: with no
\* sweeper at all the next message can claim it again, unless the session is over
\* (worker, claim_session's takeover of a lease that ran out).
Freed == status = "running" ~> (status = "terminated" \/ deleted \/ CanClaim(TRUE))

\* The last batch that was accepted is left running under a lease that ran out.
Stranded == status = "running" /\ lease # "live"

\* Its request died before the dispatch, its task's name was taken, or its last
\* delivery died or was refused the key before it began.
Lost(b) ==
  \/ bpc[b] = "dead"
  \/ bpc[b] = "sent" /\ task[b] = "none"
  \/ task[b] = "done" /\ (tries[b] = MaxTries \/ \A i \in DOMAIN log : log[i] # Event("running", b))

\* A batch that was accepted is followed by the word that its turn is over, or a
\* death, a taken name or a refused key left it stranded, and the next message
\* takes the session over (send_events' except branch, process_session's).
Told(b) ==
  \E i, j \in DOMAIN log :
    i < j /\ log[i] = Event("user", b) /\ log[j].type \in {"idle", "terminated"}
Answered ==
  \A b \in Batches : bpc[b] = "accepted" ~> (Told(b) \/ deleted \/ (Stranded /\ Lost(b)))

(***************************************************************************)
(* What the repository says and the code does not keep.                    *)
(***************************************************************************)

\* The generation makes every turn's task name unique, so a batch that was
\* handed over has a task (_enqueue_task).
EachTurnQueued == \A b \in Batches : bpc[b] = "sent" => task[b] # "none"
=============================================================================
