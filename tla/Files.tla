-------------------------------- MODULE Files --------------------------------
(***************************************************************************)
(* Files of one organization: a row here and an object in the bucket,      *)
(* written by uploads and imports, removed by deletes, and held by         *)
(* sessions that mount them (app/services/files.py, app/utils/storage.py,  *)
(* attach_live_file in app/services/sessions.py).  Each request is a       *)
(* series of calls; the process may stop between any two.  All files have  *)
(* one name and one day, so that an uploaded object's key is its content.  *)
(***************************************************************************)
EXTENDS FiniteSets

CONSTANTS
  Uploads, Imports,   \* requests that make a file; the file has their name
  Deletes, Attaches,  \* requests that name some file
  Contents,           \* what a file can contain
  None

Files == Uploads \cup Imports
Reqs  == Files \cup Deletes \cup Attaches

ASSUME NoneAssumption == None \notin Contents \cup Files

\* A request is of one kind.
ASSUME RequestAssumption ==
  /\ Uploads \cap Imports = {} /\ Deletes \cap Attaches = {}
  /\ Files \cap (Deletes \cup Attaches) = {}

VARIABLES
  brings,   \* the content an upload or an import brings
  rows,     \* the files table
  objects,  \* the bucket: the keys that hold an object
  held,     \* committed session_files: <<request, file>>
  binding,  \* an attachment that is flushed and not committed: its file
  pc, on    \* a request: its place, the file it names

vars == <<brings, rows, objects, held, binding, pc, on>>

\* object_key: an upload is addressed by content, an import by identity.
KeyOf(f) == IF f \in Uploads THEN <<"content", brings[f]>> ELSE <<"identity", f>>

Done == {"new", "done", "refused", "stopped"}

Init ==
  /\ brings \in [Files -> Contents]
  /\ rows = {} /\ objects = {} /\ held = {}
  /\ binding = [a \in Attaches |-> None]
  /\ pc = [q \in Reqs |-> "new"] /\ on = [q \in Deletes \cup Attaches |-> None]

Goto(q, place) == pc' = [pc EXCEPT ![q] = place]

\* The process stops: the transaction is rolled back.
Stop(q) ==
  /\ pc[q] \notin Done /\ Goto(q, "stopped")
  /\ binding' = IF q \in Attaches THEN [binding EXCEPT ![q] = None] ELSE binding
  /\ UNCHANGED <<brings, rows, objects, held, on>>

(***************************************************************************)
(* upload_file and import_file.                                            *)
(***************************************************************************)

\* save_bytes, save_stream: the object arrives, or nothing does (a multipart
\* upload that breaks off is aborted).
Store(f) ==
  /\ pc[f] = "new"
  /\ \/ objects' = objects \cup {KeyOf(f)} /\ Goto(f, "stored")
     \/ objects' = objects \cup {KeyOf(f)} /\ f \in Imports /\ Goto(f, "mismatch")
     \/ UNCHANGED objects /\ Goto(f, "refused")
  /\ UNCHANGED <<brings, rows, held, binding, on>>

\* The declared size or digest is another: the object is removed.
Mismatch(f) ==
  /\ pc[f] = "mismatch"
  /\ objects' = objects \ {KeyOf(f)} /\ Goto(f, "refused")
  /\ UNCHANGED <<brings, rows, held, binding, on>>

\* create_file, and the commit.
Record(f) ==
  /\ pc[f] = "stored"
  /\ rows' = rows \cup {f} /\ Goto(f, "done")
  /\ UNCHANGED <<brings, objects, held, binding, on>>

(***************************************************************************)
(* delete_file: the row, then the bytes.                                   *)
(***************************************************************************)

\* get_file
Load(q, f) ==
  /\ pc[q] = "new" /\ on' = [on EXCEPT ![q] = f]
  /\ Goto(q, IF f \in rows THEN "loaded" ELSE "refused")
  /\ UNCHANGED <<brings, rows, objects, held, binding>>

\* sessions_holding
Count(q) ==
  /\ pc[q] = "loaded"
  /\ Goto(q, IF \E a \in Attaches : <<a, on[q]>> \in held THEN "refused" ELSE "counted")
  /\ UNCHANGED <<brings, rows, objects, held, binding, on>>

\* Mutant of DeleteRow: the bytes go first.
DeleteRow_BytesFirst(q) ==
  /\ pc[q] = "counted"
  /\ objects' = objects \ {KeyOf(on[q])} /\ Goto(q, "orphan")
  /\ UNCHANGED <<brings, rows, held, binding, on>>
\* delete_file and the commit: it waits for attachments in flight, and the
\* foreign key refuses it when one is committed.
DeleteRow(q) ==
  /\ pc[q] = "counted"
  /\ \A a \in Attaches : binding[a] # on[q]
  /\ IF on[q] \notin rows \/ \E a \in Attaches : <<a, on[q]>> \in held
       THEN Goto(q, "refused") /\ UNCHANGED rows
       ELSE rows' = rows \ {on[q]} /\ Goto(q, "orphan")
  /\ UNCHANGED <<brings, objects, held, binding, on>>

\* storage.delete_object
DeleteObject(q) ==
  /\ pc[q] = "orphan"
  /\ objects' = objects \ {KeyOf(on[q])} /\ Goto(q, "done")
  /\ UNCHANGED <<brings, rows, held, binding, on>>

(***************************************************************************)
(* attach_live_file, and the files of a new session.                       *)
(***************************************************************************)

\* The binding is flushed; the foreign key wants the row to be there.
Bind(a) ==
  /\ pc[a] = "loaded"
  /\ IF on[a] \in rows THEN binding' = [binding EXCEPT ![a] = on[a]] /\ Goto(a, "bound")
                       ELSE Goto(a, "refused") /\ UNCHANGED binding
  /\ UNCHANGED <<brings, rows, objects, held, on>>

\* Sandbox.upload_file: the container fetches the object, or cannot.
Copy(a) ==
  /\ pc[a] = "bound"
  /\ \/ KeyOf(on[a]) \in objects /\ Goto(a, "copied") /\ UNCHANGED binding
     \/ Goto(a, "refused") /\ binding' = [binding EXCEPT ![a] = None]
  /\ UNCHANGED <<brings, rows, objects, held, on>>

CommitBinding(a) ==
  /\ pc[a] = "copied"
  /\ held' = held \cup {<<a, on[a]>>} /\ binding' = [binding EXCEPT ![a] = None]
  /\ Goto(a, "done")
  /\ UNCHANGED <<brings, rows, objects, on>>

Next ==
  \/ \E q \in Reqs : Stop(q)
  \/ \E f \in Files : Store(f) \/ Mismatch(f) \/ Record(f)
  \/ \E q \in Deletes \cup Attaches, f \in Files : Load(q, f)
  \/ \E q \in Deletes : Count(q) \/ DeleteRow(q) \/ DeleteObject(q)
  \/ \E a \in Attaches : Bind(a) \/ Copy(a) \/ CommitBinding(a)

Spec == Init /\ [][Next]_vars

(***************************************************************************)
(* Properties.                                                             *)
(***************************************************************************)

\* Every row is a file whose bytes are there, whatever stopped half-way, unless
\* another upload has brought the same content (the order of the steps in
\* upload_file, import_file and delete_file; object_key).
EveryRowReadable ==
  \A f \in rows : KeyOf(f) \in objects \/ \E g \in Files \ {f} : KeyOf(g) = KeyOf(f)

\* A file that a session was given stays a file (delete_file, session_files).
HeldFilesStay == \A h \in held : h[2] \in rows

\* What a session or a client was given stays: a file that a session holds, and the
\* bytes of each row.
FilesKept == EveryRowReadable /\ HeldFilesStay
=============================================================================
