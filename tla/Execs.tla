--------------------------------- MODULE Execs ---------------------------------
(***************************************************************************)
(* One command run in a container through the API.  One call sends a       *)
(* script that starts a detached launcher and then collects a report; the  *)
(* launcher leaves its state in files, rc last; later calls only collect   *)
(* (exec_command, exec_result in app/services/sandboxes.py, Sandbox.run in *)
(* app/utils/sandbox.py).  Launcher and collectors are shell scripts that  *)
(* run at the same time in one filesystem, a file at a time.  Containers   *)
(* has the container's own life; Sandboxes puts the two together.          *)
(***************************************************************************)
EXTENDS Integers

CONSTANTS
  Polls,    \* get_result requests
  Main,     \* the collector of exec_command
  Codes,    \* exit codes of the command
  Full      \* how much the command may print

Readers == Polls \cup {Main}

VARIABLES
  up,                        \* is the container there?
  started, out, ended, rc,   \* the files of the run; rc: "none", "empty" or a code
  lpc, code, child,          \* the launcher: its place, $?; a child that the command left
  request, launched,         \* exec_command's place; how often the script arrived
  rpc, report                \* a collector: its place, what it has read

disk     == <<started, out, ended, rc>>
launcher == <<lpc, code, child>>
caller   == <<request, launched>>
readers  == <<rpc, report>>
vars     == <<up, disk, launcher, caller, readers>>

Blank == [rc |-> "none", started |-> FALSE, ended |-> FALSE, out |-> 0]

TypeOK ==
  /\ started \in BOOLEAN /\ out \in 0..Full /\ ended \in BOOLEAN
  /\ rc \in Codes \cup {"none", "empty"} /\ (rc # "none" => started /\ ended)
  /\ lpc \in {"none", "start", "running", "exited", "ended", "rc", "done", "lost"}
  /\ code \in Codes \cup {"none"} /\ child \in {"none", "alive", "ended"}
  /\ request \in {"new", "again", "waiting", "answered", "error"} /\ launched \in Nat
  /\ rpc \in [Readers -> {"idle", "rc", "started", "ended", "out", "done", "error"}]
  /\ report \in [Readers -> [rc : Codes \cup {"none", "empty"}, started : BOOLEAN,
                             ended : BOOLEAN, out : 0..Full]]

Init ==
  /\ started = FALSE /\ out = 0 /\ ended = FALSE /\ rc = "none"
  /\ lpc = "none" /\ code = "none" /\ child = "none"
  /\ request = "new" /\ launched = 0
  /\ rpc = [r \in Readers |-> "idle"] /\ report = [r \in Readers |-> Blank]

ProcessesEnd ==
  /\ lpc' = IF lpc \in {"none", "done"} THEN lpc ELSE "lost"
  /\ child' = IF child = "alive" THEN "ended" ELSE child
  /\ UNCHANGED code

\* The container is gone, with every process and every file of it.
Lapse ==
  /\ up /\ up' = FALSE /\ ProcessesEnd
  /\ UNCHANGED <<disk, caller, readers>>

Reading(r) == rpc[r] \in {"rc", "started", "ended", "out"}

\* The container pauses without its memory: its processes end, its files stay, and the
\* next call wakes it.  A call that is at work in it has renewed its time (Handles).
Pause ==
  /\ up /\ \A r \in Readers : ~Reading(r)
  /\ ProcessesEnd
  /\ UNCHANGED <<up, disk, caller, readers>>

(***************************************************************************)
(* exec_command and Sandbox.run.                                           *)
(***************************************************************************)

\* The request never leaves the process (LocalProtocolError): tried once more.
NeverSent ==
  /\ request \in {"new", "again"}
  /\ request' = IF request = "new" THEN "again" ELSE "error"
  /\ UNCHANGED <<up, disk, launcher, launched, readers>>

\* _start: the script arrives, the launcher is detached, the collector begins.
Deliver ==
  /\ request \in {"new", "again"} /\ up
  /\ request' = "waiting" /\ launched' = launched + 1
  /\ lpc' = "start" /\ rpc' = [rpc EXCEPT ![Main] = "rc"]
  /\ UNCHANGED <<up, disk, code, child, report>>

\* Mutant of Disconnect: the command is sent again, like an idempotent one.
Disconnect_Retries ==
  /\ request = "waiting"
  /\ request' = IF launched < 2 THEN "again" ELSE "error"
  /\ rpc' = [rpc EXCEPT ![Main] = "error"]
  /\ UNCHANGED <<up, disk, launcher, launched, report>>

\* The connection breaks, or the container does: the caller gets an error, and
\* the command is not sent again.
Disconnect ==
  /\ request = "waiting" \/ (request \in {"new", "again"} /\ ~up)
  /\ request' = "error" /\ rpc' = [rpc EXCEPT ![Main] = "error"]
  /\ UNCHANGED <<up, disk, launcher, launched, report>>

Answer ==
  /\ request = "waiting" /\ rpc[Main] = "done"
  /\ request' = "answered"
  /\ UNCHANGED <<up, disk, launcher, launched, readers>>

(***************************************************************************)
(* _launcher.                                                              *)
(***************************************************************************)

Start ==
  /\ lpc = "start" /\ lpc' = "running" /\ started' = TRUE
  /\ UNCHANGED <<up, out, ended, rc, code, child, caller, readers>>

Output ==
  /\ up /\ (lpc = "running" \/ child = "alive") /\ out < Full
  /\ out' = out + 1
  /\ UNCHANGED <<up, started, ended, rc, launcher, caller, readers>>

\* The command ends by itself, or `timeout` ends it.
Exit(c, leaves) ==
  /\ lpc = "running" /\ lpc' = "exited"
  /\ code' = c /\ child' = IF leaves THEN "alive" ELSE "none"
  /\ UNCHANGED <<up, disk, caller, readers>>

WriteEnded ==
  /\ lpc = "exited" /\ lpc' = "ended" /\ ended' = TRUE
  /\ UNCHANGED <<up, started, out, rc, code, child, caller, readers>>

\* `echo $code > rc`: the shell makes the file, ...
OpenRc ==
  /\ lpc = "ended" /\ lpc' = "rc" /\ rc' = "empty"
  /\ UNCHANGED <<up, started, out, ended, code, child, caller, readers>>

\* Mutant of WriteRc: a run that timed out says nothing.
WriteRc_NotIfKilled ==
  /\ lpc = "rc" /\ lpc' = "done" /\ rc' = IF code = "timeout" THEN rc ELSE code
  /\ UNCHANGED <<up, started, out, ended, code, child, caller, readers>>

\* ... and the code goes into it.
WriteRc ==
  /\ lpc = "rc" /\ lpc' = "done" /\ rc' = code
  /\ UNCHANGED <<up, started, out, ended, code, child, caller, readers>>

ChildEnds ==
  /\ child = "alive" /\ child' = "ended"
  /\ UNCHANGED <<up, disk, lpc, code, caller, readers>>

(***************************************************************************)
(* _collector and exec_result.  Main waits for rc, or for its deadline,    *)
(* which may pass at any time; the others do not wait.                     *)
(***************************************************************************)

Unmoved == UNCHANGED <<up, disk, launcher, caller>>

\* exec_result: only who was answered knows the exec's id; may be asked again.
\* _live refuses a row that is not; a container that is gone is the provider's error.
Poll(r, live) ==
  /\ request = "answered" /\ rpc[r] \in {"idle", "done", "error"}
  /\ rpc' = [rpc EXCEPT ![r] = IF live /\ up THEN "rc" ELSE "error"]
  /\ Unmoved /\ UNCHANGED report

ReadRc(r) ==
  /\ up /\ rpc[r] = "rc"
  /\ report' = [report EXCEPT ![r] = [Blank EXCEPT !.rc = rc]]
  /\ rpc' = [rpc EXCEPT ![r] = "started"] /\ Unmoved

ReadStarted(r) ==
  /\ up /\ rpc[r] = "started"
  /\ report' = [report EXCEPT ![r].started = started]
  /\ rpc' = [rpc EXCEPT ![r] = "ended"] /\ Unmoved

ReadEnded(r) ==
  /\ up /\ rpc[r] = "ended"
  /\ report' = [report EXCEPT ![r].ended = ended]
  /\ rpc' = [rpc EXCEPT ![r] = "out"] /\ Unmoved

\* Mutant of ReadOut: rc is looked at once more at the end.
ReadOut_RcLast(r) ==
  /\ up /\ rpc[r] = "out"
  /\ report' = [report EXCEPT ![r].out = out, ![r].rc = rc]
  /\ rpc' = [rpc EXCEPT ![r] = "done"] /\ Unmoved

\* The lengths and the heads of stdout and stderr.
ReadOut(r) ==
  /\ up /\ rpc[r] = "out"
  /\ report' = [report EXCEPT ![r].out = out]
  /\ rpc' = [rpc EXCEPT ![r] = "done"] /\ Unmoved

\* A poll whose container goes away under it.
PollFails(r) ==
  /\ ~up /\ r # Main /\ Reading(r)
  /\ rpc' = [rpc EXCEPT ![r] = "error"]
  /\ Unmoved /\ UNCHANGED report

Launcher == Start \/ (\E c \in Codes, leaves \in BOOLEAN : Exit(c, leaves))
            \/ WriteEnded \/ OpenRc \/ WriteRc
Collect(r) == ReadRc(r) \/ ReadStarted(r) \/ ReadEnded(r) \/ ReadOut(r) \/ PollFails(r)

\* All that happens while the container is there, the polls' beginnings apart.
Step ==
  \/ NeverSent \/ Deliver \/ Disconnect \/ Answer
  \/ Launcher \/ Output \/ ChildEnds
  \/ \E r \in Readers : Collect(r)

\* _run_report: no code, or an empty file, is a command still running.
Finished(r) == rpc[r] = "done" /\ report[r].rc \in Codes
=============================================================================
