------------------------------ MODULE Containers ------------------------------
(***************************************************************************)
(* The provider's containers and the rows that name them.  A container is  *)
(* started before its row is committed, by a caller of the sandbox API or  *)
(* for a new session, and ends when a delete kills it or its own time runs *)
(* out (app/services/sandboxes.py, Sandbox.provision and Sandbox.start in  *)
(* app/utils/sandbox.py, delete_session in app/services/sessions.py).      *)
(* Nothing else looks for one: list_expired_sandboxes has no caller.       *)
(* What runs in a container is in Execs; Sandboxes puts the two together.  *)
(***************************************************************************)
EXTENDS FiniteSets

CONSTANTS
  Bare,     \* POST /sandbox/create
  Homes,    \* POST /sessions
  Deletes,  \* requests to delete a sandbox, or a session
  None

Owners == Bare \cup Homes
Reqs   == Owners \cup Deletes

VARIABLES
  box,    \* the container of each owner, at the provider
  row,    \* its committed row; "deleted" is a session's, whose session is marked
  pc, on, \* a request: its place; a delete: the owner whose container it is about
  lost    \* history: containers that the provider made, or did not kill, and said
          \* otherwise

vars == <<box, row, pc, on, lost>>

Done == {"done", "refused", "stopped"}

\* What is committed names a container that was started.
TypeOK ==
  /\ box \in [Owners -> {"none", "live", "dead"}]
  /\ row \in [Owners -> {"none", "running", "failed", "terminated", "deleted"}]
  /\ pc \in [Reqs -> Done \cup {"new", "started", "unfilled", "filled", "killing", "marking"}]
  /\ on \in [Deletes -> Owners \cup {None}]
  /\ lost \subseteq Owners
  /\ \A x \in Owners : row[x] \in {"running", "deleted"} => box[x] # "none"
  /\ \A x \in Owners : row[x] = "deleted" => x \in Homes

Init ==
  /\ box = [x \in Owners |-> "none"] /\ row = [x \in Owners |-> "none"]
  /\ pc = [q \in Reqs |-> "new"] /\ on = [q \in Deletes |-> None]
  /\ lost = {}

Goto(q, place) == pc' = [pc EXCEPT ![q] = place]

(***************************************************************************)
(* create_sandbox, and provision_sandbox for a session.                    *)
(***************************************************************************)

\* AsyncSandbox.create
Started(x, made, answered) ==
  /\ answered => made
  /\ box' = IF made THEN [box EXCEPT ![x] = "live"] ELSE box
  /\ lost' = IF made # answered THEN lost \cup {x} ELSE lost

\* create_sandbox: a container that did not start leaves a failed row.
StartBare(x, made, answered) ==
  /\ pc[x] = "new" /\ Started(x, made, answered)
  /\ row' = IF answered THEN row ELSE [row EXCEPT ![x] = "failed"]
  /\ Goto(x, IF answered THEN "filled" ELSE "refused")
  /\ UNCHANGED on

\* provision_sandbox: the session's transaction is lost with its container.
StartHome(x, made, answered) ==
  /\ pc[x] = "new" /\ Started(x, made, answered)
  /\ Goto(x, IF answered THEN "started" ELSE "refused")
  /\ UNCHANGED <<row, on>>

\* Directories, skills and files; whatever goes wrong, a cancelled request
\* included, leads to the cleanup.
Fill(x, works) ==
  /\ pc[x] = "started" /\ Goto(x, IF works THEN "filled" ELSE "unfilled")
  /\ UNCHANGED <<box, row, on, lost>>

Killed(x, killed) ==
  /\ box' = IF killed THEN [box EXCEPT ![x] = "dead"] ELSE box
  /\ lost' = IF killed THEN lost ELSE lost \cup {x}

\* native.kill, within ten seconds or not at all.
CleanUp(x, killed) ==
  /\ pc[x] = "unfilled" /\ Goto(x, "refused") /\ Killed(x, killed)
  /\ UNCHANGED <<row, on>>

\* The row, with the container's id, and the commit.
Record(x) ==
  /\ pc[x] = "filled" /\ Goto(x, "done")
  /\ row' = [row EXCEPT ![x] = "running"]
  /\ UNCHANGED <<box, on, lost>>

\* The process stops, or the commit fails: nothing is written.
Stop(q) ==
  /\ pc[q] \notin Done \cup {"new"}
  /\ Goto(q, "stopped") /\ UNCHANGED <<box, row, on, lost>>

\* A bare container ends by itself when nothing has used it for its time: Sandbox.start
\* asks for no other end, as Sandbox.provision does for a session's, which pauses.
TimeOut(x) ==
  /\ box[x] = "live"
  /\ box' = [box EXCEPT ![x] = "dead"]
  /\ UNCHANGED <<row, pc, on, lost>>

(***************************************************************************)
(* delete_sandbox and delete_session.                                      *)
(***************************************************************************)

Live(x) == row[x] = "running"

\* What get_sandbox reads: delete_session marks the session and leaves the row of its
\* container as it was.
ReadsLive(x) == row[x] \in {"running", "deleted"}

\* Mutant of Load: a delete that was begun already is taken for done.
Load_Trusts(q, x) ==
  /\ pc[q] = "new" /\ on' = [on EXCEPT ![q] = x]
  /\ Goto(q, IF row[x] \in {"none", "deleted"} THEN "refused"
             ELSE IF \E p \in Deletes : on[p] = x /\ pc[p] = "killing" THEN "marking"
             ELSE IF Live(x) THEN "killing" ELSE "marking")
  /\ UNCHANGED <<box, row, lost>>

\* The row; a container that never started, or was killed before, is not killed.
Load(q, x) ==
  /\ pc[q] = "new" /\ on' = [on EXCEPT ![q] = x]
  /\ Goto(q, IF row[x] \in {"none", "deleted"} THEN "refused"
             ELSE IF Live(x) THEN "killing" ELSE "marking")
  /\ UNCHANGED <<box, row, lost>>

\* Sandbox.kill: any failure is taken to mean that the container is gone.
Kill(q, killed) ==
  /\ pc[q] = "killing" /\ Goto(q, "marking") /\ Killed(on[q], killed)
  /\ UNCHANGED <<row, on>>

\* set_state TERMINATED, or the session's deleted_at; and the commit.
Mark(q) ==
  /\ pc[q] = "marking" /\ Goto(q, "done")
  /\ row' = [row EXCEPT ![on[q]] = IF on[q] \in Bare THEN "terminated" ELSE "deleted"]
  /\ UNCHANGED <<box, on, lost>>

Next ==
  \/ \E q \in Reqs : Stop(q)
  \/ \E x \in Bare, made, answered \in BOOLEAN : StartBare(x, made, answered)
  \/ \E x \in Homes, made, answered \in BOOLEAN : StartHome(x, made, answered)
  \/ \E x \in Homes, ok \in BOOLEAN : Fill(x, ok) \/ CleanUp(x, ok)
  \/ \E x \in Owners : Record(x)
  \/ \E x \in Bare : TimeOut(x)
  \/ \E q \in Deletes, x \in Owners : Load(q, x)
  \/ \E q \in Deletes : Mark(q) \/ \E killed \in BOOLEAN : Kill(q, killed)
=============================================================================
