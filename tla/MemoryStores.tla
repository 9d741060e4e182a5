----------------------------- MODULE MemoryStores -----------------------------
(***************************************************************************)
(* One Memory Store: a row here and a Volume at the provider, made and     *)
(* destroyed by requests that commit the row before and after each call    *)
(* (app/services/memory.py, app/utils/volume.py), and the sessions that    *)
(* mount the Volume when their container starts (_attach_memory_stores and *)
(* Sandbox.provision).  A process may stop at any step of a request.       *)
(***************************************************************************)
EXTENDS FiniteSets

CONSTANTS
  Sessions,   \* create_session requests that name the store
  Deletes,    \* delete_memory_store requests
  Archives,   \* archive_memory_store requests
  Creator     \* the create_memory_store request

Reqs == Sessions \cup Deletes \cup Archives \cup {Creator}

\* A request is of one kind.
RequestAssumption ==
  /\ Creator \notin Sessions \cup Deletes \cup Archives
  /\ Sessions \cap Deletes = {} /\ Archives \cap (Sessions \cup Deletes) = {}

VARIABLES
  status,            \* provisioning_status of the row; "none" before it exists
  archived, deleted, \* archived_at and deleted_at
  located,           \* volume_locator is set
  volume,            \* the provider's Volume
  mounts,            \* sessions whose container has it mounted
  attached,          \* committed session_memory_stores rows
  pc,                \* the place of each request
  crossed            \* history: a delete took its count while a session was on its
                     \* way to its commit

vars == <<status, archived, deleted, located, volume, mounts, attached, pc, crossed>>

Done  == {"done", "refused", "stopped", "open", "dropped"}
Steps == {"new", "calling", "created", "uncreated", "starting", "running", "loaded",
          "counted", "destroying", "destroyed", "undestroyed"}

\* A store that can be attached can also name its Volume (Volume.mount).
TypeOK ==
  /\ status \in {"none", "provisioning", "ready", "failed", "deleting", "deleted"}
  /\ archived \in BOOLEAN /\ deleted \in BOOLEAN
  /\ located \in BOOLEAN /\ (status = "ready" => located)
  /\ volume \in {"none", "live", "destroyed"}
  /\ mounts \subseteq Sessions /\ attached \subseteq Sessions
  /\ pc \in [Reqs -> Done \cup Steps] /\ crossed \in BOOLEAN

Init ==
  /\ status = "none" /\ archived = FALSE /\ deleted = FALSE /\ located = FALSE
  /\ volume = "none" /\ mounts = {} /\ attached = {}
  /\ pc = [q \in Reqs |-> "new"] /\ crossed = FALSE

row      == <<status, archived, deleted, located>>
provider == <<volume, mounts>>

Goto(q, place) == pc' = [pc EXCEPT ![q] = place]

\* get_memory_store answers 404 for a store that is not ready.
Found == status = "ready" /\ ~deleted

\* The process stops: what is not committed is lost, what the provider did stays.
Stop(q) ==
  /\ pc[q] \notin Done \cup {"new"}
  /\ Goto(q, "stopped") /\ UNCHANGED <<row, provider, attached, crossed>>

(***************************************************************************)
(* create_memory_store.                                                    *)
(***************************************************************************)

\* The row is committed before the provider is called.
CreateRow(q) ==
  /\ pc[q] = "new" /\ status' = "provisioning" /\ Goto(q, "calling")
  /\ UNCHANGED <<archived, deleted, located, provider, attached, crossed>>

\* Volume.provision: the Volume may exist although the call failed.
Provision(q, exists, answered) ==
  /\ pc[q] = "calling" /\ (answered => exists)
  /\ volume' = IF exists THEN "live" ELSE volume
  /\ Goto(q, IF answered THEN "created" ELSE "uncreated")
  /\ UNCHANGED <<row, mounts, attached, crossed>>

CreateEnds(q) ==
  /\ pc[q] \in {"created", "uncreated"}
  /\ status' = IF pc[q] = "created" THEN "ready" ELSE "failed"
  /\ located' = (pc[q] = "created")
  /\ Goto(q, IF pc[q] = "created" THEN "done" ELSE "refused")
  /\ UNCHANGED <<archived, deleted, provider, attached, crossed>>

(***************************************************************************)
(* Archiving, and a session that mounts the store.                         *)
(***************************************************************************)

Archive(q) ==
  /\ pc[q] = "new"
  /\ archived' = (archived \/ Found) /\ Goto(q, IF Found THEN "done" ELSE "refused")
  /\ UNCHANGED <<status, deleted, located, provider, attached, crossed>>

\* require_attachable; the attachment is inserted and not yet committed.
Attach(s) ==
  /\ pc[s] = "new"
  /\ Goto(s, IF Found /\ ~archived THEN "starting" ELSE "refused")
  /\ crossed' = (crossed \/ (Found /\ \E q \in Deletes : pc[q] = "counted"))
  /\ UNCHANGED <<row, provider, attached>>

\* Sandbox.provision starts the container with the Volume, if there is one.
StartContainer(s) ==
  /\ pc[s] = "starting"
  /\ IF volume = "live"
       THEN mounts' = mounts \cup {s} /\ Goto(s, "running")
       ELSE Goto(s, "refused") /\ UNCHANGED mounts
  /\ UNCHANGED <<row, volume, attached, crossed>>

\* Filling the container fails: it is killed, within a few seconds or not at all,
\* and the transaction is rolled back.
FillFails(s, killed) ==
  /\ pc[s] = "running"
  /\ mounts' = IF killed THEN mounts \ {s} ELSE mounts
  /\ Goto(s, "refused")
  /\ UNCHANGED <<row, volume, attached, crossed>>

CommitSession(s) ==
  /\ pc[s] = "running" /\ attached' = attached \cup {s} /\ Goto(s, "open")
  /\ UNCHANGED <<row, provider, crossed>>

\* delete_session: killing the container is best effort, and the row is only
\* marked: its attachment stays.
DropSession(s, killed) ==
  /\ pc[s] = "open"
  /\ mounts' = IF killed THEN mounts \ {s} ELSE mounts
  /\ Goto(s, "dropped")
  /\ UNCHANGED <<row, volume, attached, crossed>>

(***************************************************************************)
(* delete_memory_store.                                                    *)
(***************************************************************************)

Load(q) ==
  /\ pc[q] = "new" /\ Goto(q, IF Found THEN "loaded" ELSE "refused")
  /\ UNCHANGED <<row, provider, attached, crossed>>

Coming(s) == pc[s] \in {"starting", "running"}

\* Mutant of Count: only sessions that are still there are counted.
Count_LiveOnly(q) ==
  /\ pc[q] = "loaded"
  /\ Goto(q, IF \A s \in attached : pc[s] = "dropped" THEN "counted" ELSE "refused")
  /\ crossed' = (crossed \/ \E s \in Sessions : Coming(s))
  /\ UNCHANGED <<row, provider, attached>>

\* count_memory_store_attachments: sessions that have ever mounted the store.
Count(q) ==
  /\ pc[q] = "loaded" /\ Goto(q, IF attached = {} THEN "counted" ELSE "refused")
  /\ crossed' = (crossed \/ \E s \in Sessions : Coming(s))
  /\ UNCHANGED <<row, provider, attached>>

MarkDeleting(q) ==
  /\ pc[q] = "counted" /\ status' = "deleting" /\ Goto(q, "destroying")
  /\ UNCHANGED <<archived, deleted, located, provider, attached, crossed>>

\* Volume.destroy: an absent Volume is a success; the call may fail before or
\* after the Volume is gone.
Destroy(q, gone, answered) ==
  /\ pc[q] = "destroying" /\ (answered => gone)
  /\ volume' = IF gone THEN "destroyed" ELSE volume
  /\ Goto(q, IF answered THEN "destroyed" ELSE "undestroyed")
  /\ UNCHANGED <<row, mounts, attached, crossed>>

\* Mutant of DeleteEnds: the tombstone is written whatever the provider said.
DeleteEnds_Always(q) ==
  /\ pc[q] \in {"destroyed", "undestroyed"}
  /\ status' = "deleted" /\ deleted' = TRUE /\ Goto(q, "done")
  /\ UNCHANGED <<archived, located, provider, attached, crossed>>

DeleteEnds(q) ==
  /\ pc[q] \in {"destroyed", "undestroyed"}
  /\ status' = IF pc[q] = "destroyed" THEN "deleted" ELSE "failed"
  /\ deleted' = (deleted \/ pc[q] = "destroyed")
  /\ Goto(q, IF pc[q] = "destroyed" THEN "done" ELSE "refused")
  /\ UNCHANGED <<archived, located, provider, attached, crossed>>

Next ==
  \/ \E q \in Reqs : Stop(q)
  \/ CreateRow(Creator) \/ CreateEnds(Creator)
  \/ \E exists, answered \in BOOLEAN : Provision(Creator, exists, answered)
  \/ \E q \in Archives : Archive(q)
  \/ \E s \in Sessions : Attach(s) \/ StartContainer(s) \/ CommitSession(s)
  \/ \E s \in Sessions, killed \in BOOLEAN : FillFails(s, killed) \/ DropSession(s, killed)
  \/ \E q \in Deletes : Load(q) \/ Count(q) \/ MarkDeleting(q) \/ DeleteEnds(q)
  \/ \E q \in Deletes, gone, answered \in BOOLEAN : Destroy(q, gone, answered)

Spec == Init /\ [][Next]_vars

(***************************************************************************)
(* Properties.                                                             *)
(***************************************************************************)

\* A store that can be attached has its Volume, wherever a request was cut short
\* and whatever the provider answered (create_memory_store, delete_memory_store).
ReadyHasVolume == status = "ready" => volume = "live"

\* A store reported deleted leaves no Volume behind (delete_memory_store).
DeletedIsGone == deleted => volume = "destroyed"

\* The row tells what there is at the provider: a Volume when it is ready, and none
\* when it is deleted.
RowTellsVolume == TypeOK /\ ReadyHasVolume /\ DeletedIsGone

\* A Volume is never destroyed under the container of a session that mounts it,
\* unless a delete has crossed a session being made (count_memory_store_attachments).
MountSafe == ~crossed => (mounts \cap attached # {} => volume = "live")
=============================================================================
