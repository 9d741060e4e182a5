----------------------------- MODULE Provisioning -----------------------------
(***************************************************************************)
(* How a new session gets a furnished container: a slot of the process,    *)
(* the files it declares, a container, its directories, its skills, its    *)
(* files, the row (create_session and provision_sandbox in                 *)
(* app/services/sessions.py, Sandbox.provision in app/utils/sandbox.py).   *)
(* Skills are fetched by one command in the container, which downloads     *)
(* several at a time and publishes them together.  The library of skills   *)
(* and the files change meanwhile.  Containers has what becomes of a       *)
(* container afterwards, and of one whose cleanup fails.                   *)
(***************************************************************************)
EXTENDS Naturals, Sequences, FiniteSets, SequencesExt

CONSTANTS
  Requests,     \* POST /sessions
  MaxSlots,     \* MAX_CONCURRENT_SESSION_PROVISIONS
  Asked,        \* the skills that the agent version lists, perhaps twice
  Undigested,   \* skills whose row has no digest
  Names, Keys,  \* names of skills; packages, each a name and a version
  Library,      \* the package of each skill, when the requests arrive
  MaxAttempts,  \* SKILL_DOWNLOAD_ATTEMPTS
  Concurrency,  \* SKILL_DOWNLOAD_CONCURRENCY
  Declared,     \* what a request may declare: lists of a file and a path asked for
  FileName,     \* the name of each file
  Within,       \* path -> the paths under it
  MaxEdits,     \* bound: changes to the library and the files
  None

Skills  == ToSet(Asked)
Files   == DOMAIN FileName
Paths   == DOMAIN Within
NameOf(key) == key[1]

AskedAssumption    == Asked \in Seq(Skills)
LibraryAssumption  == Library \in [Skills -> Keys] /\ \A key \in Keys : NameOf(key) \in Names
DeclaredAssumption == \A declared \in Declared : declared \in Seq(ToSet(declared))

VARIABLES
  rows, objects, \* the library: the row of each skill or None, the packages stored
  stored,        \* the files that exist
  edits,
  slots, queue,  \* the semaphore: free slots, and who waits in order
  pc, res,       \* a request: its place, what it declares
  k,             \* how many files are attached, skills extracted, or files fetched
  snap,          \* the skills it resolved
  disk,          \* its container's directories, or None
  job, expanded, exit  \* its install command: downloads, staging, exit code

library == <<rows, objects, stored, edits>>
vars == <<rows, objects, stored, edits, slots, queue, pc, res, k, snap, disk, job,
          expanded, exit>>

Empty    == [n \in Names |-> None]
Unfilled == [laid |-> FALSE, skills |-> Empty, uploads |-> [q \in Paths |-> None]]
NoJobs   == [s \in Skills |-> [at |-> "waiting", n |-> 1, has |-> None]]

Init ==
  /\ rows = [s \in Skills |-> [name |-> NameOf(Library[s]), key |-> Library[s]]]
  /\ objects = {rows[s].key : s \in Skills} /\ stored = Files /\ edits = 0
  /\ slots = MaxSlots /\ queue = <<>>
  /\ pc = [p \in Requests |-> "new"] /\ res = [p \in Requests |-> <<>>]
  /\ k = [p \in Requests |-> 0] /\ snap = [p \in Requests |-> None]
  /\ disk = [p \in Requests |-> None] /\ job = [p \in Requests |-> NoJobs]
  /\ expanded = [p \in Requests |-> Empty] /\ exit = [p \in Requests |-> 0]

Goto(p, place) == pc' = [pc EXCEPT ![p] = place]

(***************************************************************************)
(* Others: the library of skills (app/services/skills.py), delete_file.    *)
(***************************************************************************)

Edit == edits < MaxEdits /\ edits' = edits + 1
Held(n, s) == \E t \in Skills \ {s} : rows[t] # None /\ rows[t].name = n

\* update_skill, with a package: the old one stays.
ReplaceSkill(s, key) ==
  /\ Edit /\ rows[s] # None /\ rows[s].key # key /\ ~Held(NameOf(key), s)
  /\ rows' = [rows EXCEPT ![s] = [name |-> NameOf(key), key |-> key]]
  /\ objects' = objects \cup {key} /\ UNCHANGED stored

\* update_skill, with a name only.
RenameSkill(s, n) ==
  /\ Edit /\ rows[s] # None /\ rows[s].name # n /\ ~Held(n, s)
  /\ rows' = [rows EXCEPT ![s].name = n] /\ UNCHANGED <<objects, stored>>

\* delete_skill: the package, and then the row.
PurgeSkill(s) ==
  /\ Edit /\ rows[s] # None /\ rows[s].key \in objects
  /\ objects' = objects \ {rows[s].key} /\ UNCHANGED <<rows, stored>>

DropSkill(s) ==
  /\ Edit /\ rows[s] # None /\ rows[s].key \notin objects
  /\ rows' = [rows EXCEPT ![s] = None] /\ UNCHANGED <<objects, stored>>

DeleteFile(f) ==
  /\ Edit /\ f \in stored /\ stored' = stored \ {f} /\ UNCHANGED <<rows, objects>>

Others ==
  /\ \/ \E s \in Skills : \/ PurgeSkill(s) \/ DropSkill(s)
                          \/ \E key \in Keys : ReplaceSkill(s, key)
                          \/ \E n \in Names : RenameSkill(s, n)
     \/ \E f \in Files : DeleteFile(f)
  /\ UNCHANGED <<slots, queue, pc, res, k, snap, disk, job, expanded, exit>>

(***************************************************************************)
(* create_session: the slots.                                              *)
(***************************************************************************)

Arrive(p, declared) ==
  /\ pc[p] = "new" /\ Goto(p, "waiting")
  /\ res' = [res EXCEPT ![p] = declared] /\ queue' = Append(queue, p)
  /\ UNCHANGED <<slots, k, snap, disk, job, expanded, exit>> /\ UNCHANGED library

\* The client of a request that waits has gone.
GiveUp(p) ==
  /\ pc[p] = "waiting" /\ Goto(p, "refused")
  /\ queue' = SelectSeq(queue, LAMBDA q : q # p) /\ res' = [res EXCEPT ![p] = <<>>]
  /\ UNCHANGED <<slots, k, snap, disk, job, expanded, exit>> /\ UNCHANGED library

\* Slots are given out in the order they are asked for.
Acquire(p) ==
  /\ pc[p] = "waiting" /\ slots > 0 /\ Head(queue) = p
  /\ slots' = slots - 1 /\ queue' = Tail(queue)
  /\ Goto(p, "attaching") /\ k' = [k EXCEPT ![p] = 0]
  /\ UNCHANGED <<res, snap, disk, job, expanded, exit>> /\ UNCHANGED library

\* Mutant of Leave: a slot comes back only with a session.
Leave_OnSuccess(p, place) ==
  /\ Goto(p, place) /\ slots' = IF place = "done" THEN slots + 1 ELSE slots
  /\ res' = IF place = "done" THEN res ELSE [res EXCEPT ![p] = <<>>]

\* Whatever happens after Acquire, the slot comes back.
Leave(p, place) ==
  /\ Goto(p, place) /\ slots' = slots + 1
  /\ res' = IF place = "done" THEN res ELSE [res EXCEPT ![p] = <<>>]

(***************************************************************************)
(* provision_sandbox, before the container.                                *)
(***************************************************************************)

\* _mount_path: the path that is asked for, or the file's name; None when it is not
\* one under uploads/.
MountPath(r) ==
  LET path == IF r.path = None THEN FileName[r.file] ELSE r.path
  IN IF path \in Paths THEN path ELSE None

PathsSeen(p) == {MountPath(res[p][i]) : i \in 1..k[p]}
Upcoming(p) == res[p][k[p] + 1]

\* _attach_files, one file: it exists, and its path is fit and not taken.
AttachFile(p) ==
  /\ pc[p] = "attaching" /\ k[p] < Len(res[p])
  /\ IF Upcoming(p).file \in stored /\ MountPath(Upcoming(p)) \notin PathsSeen(p) \cup {None}
       THEN k' = [k EXCEPT ![p] = @ + 1] /\ UNCHANGED <<slots, pc, res>>
       ELSE Leave(p, "refused") /\ k' = [k EXCEPT ![p] = 0]
  /\ UNCHANGED <<queue, snap, disk, job, expanded, exit>> /\ UNCHANGED library

Distinct(read) == \A s, t \in Skills : s # t => read[s].name # read[t].name

\* _resolve_skills: every skill is there, in one read of the table.
Resolve(p) ==
  /\ pc[p] = "attaching" /\ k[p] = Len(res[p])
  /\ IF (\A s \in Skills : rows[s] # None) /\ Distinct(rows)
       THEN /\ snap' = [snap EXCEPT ![p] = rows] /\ Goto(p, "starting")
            /\ UNCHANGED <<slots, res, k>>
       ELSE Leave(p, "refused") /\ k' = [k EXCEPT ![p] = 0] /\ UNCHANGED snap
  /\ UNCHANGED <<queue, disk, job, expanded, exit>> /\ UNCHANGED library

\* _start_container
Start(p, works) ==
  /\ pc[p] = "starting"
  /\ IF works THEN /\ disk' = [disk EXCEPT ![p] = Unfilled] /\ Goto(p, "laying")
                   /\ UNCHANGED <<slots, res, snap, k>>
              ELSE /\ Leave(p, "refused") /\ k' = [k EXCEPT ![p] = 0]
                   /\ snap' = [snap EXCEPT ![p] = None] /\ UNCHANGED disk
  /\ UNCHANGED <<queue, job, expanded, exit>> /\ UNCHANGED library

(***************************************************************************)
(* Sandbox.provision: the container is filled.                             *)
(***************************************************************************)

\* prepare_directories
Prepare(p, works) ==
  /\ pc[p] = "laying" /\ disk' = [disk EXCEPT ![p].laid = works]
  /\ Goto(p, IF works THEN "downloading" ELSE "failed")
  /\ job' = [job EXCEPT ![p] = NoJobs] /\ expanded' = [expanded EXCEPT ![p] = Empty]
  /\ exit' = [exit EXCEPT ![p] = 0] /\ k' = [k EXCEPT ![p] = 0]
  /\ UNCHANGED <<slots, queue, res, snap>> /\ UNCHANGED library

\* The skills in the order they are first listed; Concurrency of them to a batch.
First(s) == CHOOSE i \in DOMAIN Asked : Asked[i] = s /\ \A j \in 1..(i - 1) : Asked[j] # s
UpTo(s)  == {t \in Skills : First(t) <= First(s)}
Order    == [n \in 1..Cardinality(Skills) |-> CHOOSE s \in Skills : Cardinality(UpTo(s)) = n]
Batch(i) == (i - 1) \div Concurrency
Settled(j) == j.at # "waiting"

\* The size and the digest of what arrived are the row's; it may have no digest.
Sound(s, bytes) == bytes = "right" \/ (bytes = "other" /\ s \in Undigested)

\* One attempt at download_one.  It may bring the package, too little of it, or
\* something else; fail for now; or fail for good, as it does when the package is gone.
Fetched(s, j, key, bytes) ==
  IF bytes = "gone" THEN [j EXCEPT !.at = "failed"]
  ELSE IF bytes # "busy" /\ Sound(s, bytes)
    THEN [j EXCEPT !.at = "got", !.has = [key |-> key, bytes |-> bytes]]
  ELSE IF j.n = MaxAttempts THEN [j EXCEPT !.at = "failed"]
  ELSE [j EXCEPT !.n = @ + 1]

Download(p, i, bytes) ==
  LET s == Order[i]  key == snap[p][s].key IN
  /\ pc[p] = "downloading" /\ ~Settled(job[p][s])
  /\ \A h \in 1..Len(Order) : Batch(h) < Batch(i) => Settled(job[p][Order[h]])
  /\ key \notin objects => bytes \in {"busy", "gone"}
  /\ job' = [job EXCEPT ![p][s] = Fetched(s, @, key, bytes)]
  /\ UNCHANGED <<slots, queue, pc, res, k, snap, disk, expanded, exit>>
  /\ UNCHANGED library

Exit(p, code) == exit' = [exit EXCEPT ![p] = code] /\ Goto(p, "installed")

\* wait_batch, after the last: nothing is extracted unless all of it is there.
Collect(p) ==
  /\ pc[p] = "downloading" /\ \A s \in Skills : Settled(job[p][s])
  /\ IF \E s \in Skills : job[p][s].at = "failed"
       THEN Exit(p, 31) ELSE Goto(p, "extracting") /\ UNCHANGED exit
  /\ UNCHANGED <<slots, queue, res, k, snap, disk, job, expanded>> /\ UNCHANGED library

Unpacked(p) ==
  LET has == job[p][Order[k[p] + 1]].has
  IN [expanded[p] EXCEPT ![NameOf(has.key)] = has]

\* extract_one: an archive that is damaged may pass unzip's test; one that unpacks
\* under another name than the row's has no matching SKILL.md.
Extract(p, valid) ==
  LET s == Order[k[p] + 1] IN
  /\ pc[p] = "extracting" /\ k[p] < Len(Order)
  /\ job[p][s].has.bytes = "right" => valid
  /\ expanded' = IF valid THEN [expanded EXCEPT ![p] = Unpacked(p)] ELSE expanded
  /\ IF valid /\ Unpacked(p)[snap[p][s].name] # None
       THEN k' = [k EXCEPT ![p] = @ + 1] /\ UNCHANGED <<exit, pc>>
       ELSE Exit(p, 33) /\ UNCHANGED k
  /\ UNCHANGED <<slots, queue, res, snap, disk, job>> /\ UNCHANGED library

\* The staging directory takes the place of the empty one.
Publish(p, works) ==
  /\ pc[p] = "extracting" /\ k[p] = Len(Order)
  /\ disk' = IF works THEN [disk EXCEPT ![p].skills = expanded[p]] ELSE disk
  /\ Exit(p, IF works THEN 0 ELSE 32)
  /\ UNCHANGED <<slots, queue, res, k, snap, job, expanded>> /\ UNCHANGED library

\* Mutant of Installed: the command's exit code is not looked at.
Installed_Unread(p) ==
  /\ pc[p] = "installed" /\ Goto(p, "fetching") /\ k' = [k EXCEPT ![p] = 0]
  /\ job' = [job EXCEPT ![p] = NoJobs] /\ expanded' = [expanded EXCEPT ![p] = Empty]
  /\ UNCHANGED <<slots, queue, res, snap, disk, exit>> /\ UNCHANGED library

\* _install_skills has its answer.
Installed(p) ==
  /\ pc[p] = "installed" /\ Goto(p, IF exit[p] = 0 THEN "fetching" ELSE "failed")
  /\ k' = [k EXCEPT ![p] = 0] /\ job' = [job EXCEPT ![p] = NoJobs]
  /\ expanded' = [expanded EXCEPT ![p] = Empty]
  /\ UNCHANGED <<slots, queue, res, snap, disk, exit>> /\ UNCHANGED library

\* mkdir -p and curl -o: no file is where a directory has to be, and no directory is
\* where the file has to be.
Fits(p, path) ==
  \A q \in Paths : disk[p].uploads[q] # None => path \notin Within[q] /\ q \notin Within[path]

\* upload_file, one file.
FetchFile(p, works) ==
  LET path == MountPath(Upcoming(p)) IN
  /\ pc[p] = "fetching" /\ k[p] < Len(res[p])
  /\ works => Upcoming(p).file \in stored /\ Fits(p, path)
  /\ IF works THEN /\ disk' = [disk EXCEPT ![p].uploads[path] = Upcoming(p).file]
                   /\ k' = [k EXCEPT ![p] = @ + 1] /\ UNCHANGED pc
              ELSE Goto(p, "failed") /\ UNCHANGED <<disk, k>>
  /\ UNCHANGED <<slots, queue, res, snap, job, expanded, exit>> /\ UNCHANGED library

\* The row of the container, and the commit.
Commit(p, works) ==
  /\ pc[p] = "fetching" /\ k[p] = Len(res[p])
  /\ IF works THEN Leave(p, "done") ELSE Goto(p, "failed") /\ UNCHANGED <<slots, res>>
  /\ UNCHANGED <<queue, k, snap, disk, job, expanded, exit>> /\ UNCHANGED library

\* A call to the container that breaks off, or a request that is cancelled.
Break(p) ==
  /\ pc[p] \in {"laying", "downloading", "extracting", "installed", "fetching"}
  /\ Goto(p, "failed")
  /\ UNCHANGED <<slots, queue, res, k, snap, disk, job, expanded, exit>>
  /\ UNCHANGED library

\* native.kill, which takes ten seconds at most.
CleanUp(p) ==
  /\ pc[p] = "failed" /\ disk' = [disk EXCEPT ![p] = None] /\ Leave(p, "refused")
  /\ k' = [k EXCEPT ![p] = 0] /\ snap' = [snap EXCEPT ![p] = None]
  /\ job' = [job EXCEPT ![p] = NoJobs] /\ expanded' = [expanded EXCEPT ![p] = Empty]
  /\ exit' = [exit EXCEPT ![p] = 0]
  /\ UNCHANGED queue /\ UNCHANGED library

Step(p) ==
  \/ Acquire(p) \/ AttachFile(p) \/ Resolve(p) \/ Collect(p) \/ Installed(p) \/ CleanUp(p)
  \/ \E works \in BOOLEAN : \/ Start(p, works) \/ Prepare(p, works) \/ Extract(p, works)
                            \/ Publish(p, works) \/ FetchFile(p, works) \/ Commit(p, works)
  \/ \E i \in 1..Len(Order), bytes \in {"right", "short", "other", "busy", "gone"} :
       Download(p, i, bytes)

Next ==
  \/ Others
  \/ \E p \in Requests : \/ Step(p) \/ GiveUp(p) \/ Break(p)
                         \/ \E declared \in Declared : Arrive(p, declared)

\* Every call to the provider has a timeout, and a command tries so many times.
Fairness == \A p \in Requests : WF_vars(Step(p))
Spec == Init /\ [][Next]_vars /\ Fairness

(***************************************************************************)
(* Properties.                                                             *)
(***************************************************************************)

\* A skills directory that has what the request resolved: each skill under its name,
\* from its own package, undamaged if the row had a digest to compare it with.
Complete(p) ==
  \A n \in Names : LET s == {t \in Skills : snap[p][t].name = n}  has == disk[p].skills[n] IN
    /\ (has = None) = (s = {})
    /\ \A t \in s : has.key = snap[p][t].key /\ (has.bytes = "right" \/ t \in Undigested)

\* A session that was created has a container with its layout, with all its skills
\* and with every file at the path it was declared for (Sandbox.provision).
Furnished ==
  \A p \in Requests : pc[p] = "done" =>
    /\ disk[p].laid /\ Complete(p)
    /\ \A i \in DOMAIN res[p] : disk[p].uploads[MountPath(res[p][i])] = res[p][i].file

\* At no time does a skills directory hold a part of a set (_skill_install_command).
AllOrNothing ==
  \A p \in Requests : disk[p] # None => disk[p].skills = Empty \/ Complete(p)

\* What a session's container has is all that it was to have, or no skill at all.
FurnishedWhole == Furnished /\ AllOrNothing

\* A request that waits for a slot is answered in the end, whatever becomes of those
\* before it (create_session).
Served ==
  \A p \in Requests : pc[p] = "waiting" ~> pc[p] \in {"done", "refused"}
=============================================================================
