------------------------------- MODULE Sandboxes -------------------------------
(***************************************************************************)
(* A command and the container it runs in, each at any point of its life:  *)
(* Containers says which container exists and which row names it, Execs    *)
(* runs one command in any of them.  Whatever ends that container ends the *)
(* command in the same step, with all its files, and a session's may pause *)
(* under it; the requests on either side learn of it only when they look   *)
(* (app/services/sandboxes.py).                                            *)
(***************************************************************************)
EXTENDS Integers, SandboxCalls

VARIABLES
  box, row, place, on, lost,                                      \* of Containers
  started, out, ended, rc, lpc, code, child, request, launched,
  rpc, report,                                                 \* of Execs
  target  \* the container the command is for, once its row was seen live

C == INSTANCE Containers WITH None <- NoOne, pc <- place
X == INSTANCE Execs WITH up <- target # NoOne /\ box[target] = "live"

containers  == <<box, row, place, on, lost>>
command     == <<started, out, ended, rc, lpc, code, child, request, launched, rpc, report>>
sandboxVars == <<containers, command, target>>

Up   == target # NoOne /\ box[target] = "live"
Live == target # NoOne /\ C!ReadsLive(target)

TypeOK == C!TypeOK /\ X!TypeOK /\ target \in C!Owners \cup {NoOne}

SandboxInit == C!Init /\ X!Init /\ target = NoOne

\* Anything that happens to the containers; the command's may be the one to go.
ContainerStep ==
  /\ C!Next /\ UNCHANGED target
  /\ IF Up /\ ~Up' THEN X!Lapse ELSE UNCHANGED command

\* exec_command: _live refuses a row that is not live, and asks for nothing else; a
\* session's container is served too.  The row may change before the container is asked.
Check(x) ==
  /\ target = NoOne /\ C!ReadsLive(x)
  /\ target' = x /\ UNCHANGED <<containers, command>>

InContainer == target # NoOne /\ UNCHANGED <<containers, target>>

\* The lifecycle that Sandbox.provision asks for.
PauseHome   == target \in Homes /\ InContainer /\ X!Pause
CommandStep == InContainer /\ X!Step
Poll(r)     == InContainer /\ X!Poll(r, Live)

SandboxNext ==
  \/ ContainerStep \/ CommandStep \/ PauseHome
  \/ \E x \in C!Owners : Check(x)
  \/ \E r \in Polls : Poll(r)

\* The shell goes on, and `timeout` bounds the command; a poll that began ends,
\* and the client keeps asking.
SandboxFairness ==
  /\ WF_sandboxVars(InContainer /\ X!Launcher)
  /\ \A r \in Polls : WF_sandboxVars(InContainer /\ X!Collect(r)) /\ WF_sandboxVars(Poll(r))

SandboxSpec == SandboxInit /\ [][SandboxNext]_sandboxVars /\ SandboxFairness

(***************************************************************************)
(* Properties.                                                             *)
(***************************************************************************)

\* No container runs that nothing can name: there is a row for it that can still
\* be used and deleted, or the request that makes it is at work.  The exceptions
\* are a request that stopped before its commit and a provider that answered
\* untruly (Sandbox.provision, create_sandbox).
Accounted ==
  \A x \in C!Owners : box[x] = "live" =>
    C!Live(x) \/ place[x] \notin {"done", "refused"} \/ x \in lost

\* A container whose deletion was reported is gone with everything that ran in
\* it, whoever was using it, unless the provider failed to kill it
\* (delete_sandbox, delete_session).
DeletedIsGone ==
  \A q \in Deletes : place[q] = "done" /\ on[q] \notin lost =>
    /\ box[on[q]] # "live"
    /\ on[q] = target => lpc \in {"none", "done", "lost"} /\ child # "alive"

\* No container runs that nobody will end: neither one without a row nor one that was
\* reported deleted.
NoneAstray == TypeOK /\ Accounted /\ DeletedIsGone

\* A report that says the command is over is all there is to say: its times, and
\* its whole output unless it left a child that goes on printing (_launcher's
\* docstring, "once it exists everything else about the run is already on disk").
FinishedIsWhole ==
  \A r \in X!Readers : X!Finished(r) =>
    /\ report[r].started /\ report[r].ended
    /\ child = "none" => report[r].out = out

\* A command with side effects is never run twice for one request, whatever the
\* transport does (Sandbox.run).
RunOnce == launched <= 1

\* A poll was refused because the sandbox is: SandboxGone when the row says so, and the
\* provider's own error when only the container does (_live, _run_report).
Refused(r) == rpc[r] = "error" /\ ~(Up /\ Live)

\* A session's container paused under the command, which no file of it tells.
Forgotten == Up /\ lpc = "lost"

\* Whoever was answered and keeps asking is told how the command ended, or is refused
\* because its container is gone (exec_result); a command that a pause ended is reported
\* as running for ever.
Settles ==
  request = "answered" ~>
    (\E r \in X!Readers : X!Finished(r)) \/ (\E r \in Polls : Refused(r)) \/ Forgotten

\* "A container is never collected on a timer", says delete_sandbox: while the row still
\* says that it runs, a call that finds no container comes after somebody's delete.
OnlyDeleted ==
  \A r \in Polls : rpc[r] = "error" /\ Live /\ ~Up => \E q \in Deletes : on[q] = target
=============================================================================
