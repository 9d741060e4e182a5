------------------------------- MODULE Outputs -------------------------------
(***************************************************************************)
(* What a session's container leaves in outputs/, and the file records     *)
(* that stand for it.  The end of every turn reconciles the records with   *)
(* the directory (collect_outputs, Sandbox.discover_outputs); meanwhile    *)
(* requests take single files out (capture_file, Sandbox.download_file).   *)
(*                                                                         *)
(* The agent writes while its turn runs.  The database is READ COMMITTED:  *)
(* the collector's records are seen once the turn is released, and whoever *)
(* writes the same row or path before that waits.                          *)
(***************************************************************************)
EXTENDS Integers, FiniteSets

CONSTANTS
  Paths, Contents, None,
  Big,               \* the contents over max_output_bytes
  Odd,               \* the paths with a newline in their names
  Captures,          \* capture_file requests, one file each
  Limits,            \* what max_output_files may be set to
  MaxIds, MaxWrites  \* bounds: records ever made, changes to the directory

ASSUME NoneAssumption == None \notin Contents
ASSUME SkipAssumption == Big \subseteq Contents /\ Odd \subseteq Paths
ASSUME BoundAssumption == Limits \cup {MaxIds, MaxWrites} \subseteq Nat

VARIABLES
  limit,        \* max_output_files
  box, writes,  \* outputs/: the content at each path, or None; its changes
  objects,      \* the bucket: what the key of a path and a digest holds
  files,        \* the committed records, by id
  tx,           \* the records the collector has written and not committed
  turn,         \* running, taking (the collector's loop), storing, idle, stuck
  listed, todo, \* the paths the collector found, and has still to take
  cut,          \* history: its listing stopped at the limit, with names left
  taking,       \* what it is storing: the path and the record found for it
  reconciled,   \* the last turn ended with a whole collection
  pc, job,      \* per capture: its place; its path, digest and record found
  torn          \* history: the agent changed a file that a capture was taking

vars == <<limit, box, writes, objects, files, tx, turn, listed, cut, todo, taking, reconciled, pc, job, torn>>
bag  == <<limit, box, writes>>
listing == <<listed, cut>>
collecting == <<tx, turn, listing, todo, taking, reconciled>>

Ids  == 1..MaxIds
Keys == Paths \X Contents
Resting == {"new", "done"}

Init ==
  /\ limit \in Limits
  /\ box = [p \in Paths |-> None] /\ writes = 0
  /\ objects = [k \in Keys |-> None]
  /\ files = << >> /\ tx = << >>
  /\ turn = "running" /\ listed = {} /\ cut = FALSE /\ todo = {}
  /\ taking = [path |-> None, prev |-> 0] /\ reconciled = FALSE /\ torn = FALSE
  /\ pc = [c \in Captures |-> "new"]
  /\ \E p \in [Captures -> Paths] :
       job = [c \in Captures |-> [path |-> p[c], sha |-> None, prev |-> 0]]

Live(table, p) == {i \in DOMAIN table : table[i].path = p /\ ~table[i].archived}
\* get_live_scoped_file: the record of the path, or 0.
Found(table, p) == IF Live(table, p) = {} THEN 0 ELSE CHOOSE i \in Live(table, p) : TRUE
Over(top, base) ==
  [i \in DOMAIN top \cup DOMAIN base |-> IF i \in DOMAIN top THEN top[i] ELSE base[i]]
\* The records as the collector reads them: what it has written, over what is committed.
View   == Over(tx, files)
Unused == Ids \ DOMAIN View
NewId  == CHOOSE i \in Unused : \A j \in Unused : i <= j

(***************************************************************************)
(* The agent, and the turns.                                               *)
(***************************************************************************)

Write(p, content) ==
  /\ turn = "running" /\ writes < MaxWrites
  /\ box' = [box EXCEPT ![p] = content] /\ writes' = writes + 1
  /\ torn' = (torn \/ \E c \in Captures : pc[c] \notin Resting /\ job[c].path = p)
  /\ UNCHANGED <<limit, objects, files, collecting, pc, job>>

NextTurn ==
  /\ turn = "idle" /\ turn' = "running" /\ reconciled' = FALSE
  /\ UNCHANGED <<bag, objects, files, tx, listing, todo, taking, pc, job, torn>>

(***************************************************************************)
(* collect_outputs.                                                        *)
(***************************************************************************)

Present == {p \in Paths : box[p] # None}
\* What find prints for these names, a line each and one more for a newline.
Lines(names) == Cardinality(names) + Cardinality(names \cap Odd)

\* Sandbox.list_files: the names that find prints first, up to the limit, without the
\* files that are too big, the names that do not fit on a line, and the name next[q]
\* whose line each of those spoils.
List(found, next) ==
  /\ turn = "running"
  /\ found \subseteq Present
  /\ found = Present \/ Lines(found) >= limit
  /\ found = {} \/ \E last \in found : Lines(found \ {last}) < limit
  /\ listed' = {p \in found \ Odd : box[p] \notin Big /\ \A q \in DOMAIN next : next[q] # p}
  /\ cut' = (found # Present) /\ todo' = listed' /\ turn' = "taking"
  /\ UNCHANGED <<bag, objects, files, tx, taking, reconciled, pc, job, torn>>

\* Mutant of Take: a path that has a record is left alone.
Take_AnyRecord(p) ==
  LET i == Found(View, p) IN
  /\ turn = "taking" /\ p \in todo
  /\ todo' = todo \ {p}
  /\ IF i # 0
       THEN UNCHANGED <<turn, taking>>
       ELSE taking' = [path |-> p, prev |-> i] /\ turn' = "storing"
  /\ UNCHANGED <<bag, objects, files, tx, listing, reconciled, pc, job, torn>>

\* A path whose record has its hash is left alone.
Take(p) ==
  LET i == Found(View, p) IN
  /\ turn = "taking" /\ p \in todo
  /\ todo' = todo \ {p}
  /\ IF i # 0 /\ View[i].sha = box[p]
       THEN UNCHANGED <<turn, taking>>
       ELSE taking' = [path |-> p, prev |-> i] /\ turn' = "storing"
  /\ UNCHANGED <<bag, objects, files, tx, listing, reconciled, pc, job, torn>>

\* A record that takes on the bytes, or a new one.
Record(i, p, sha) ==
  IF i = 0 THEN [path |-> p, sha |-> sha, archived |-> FALSE] ELSE [View[i] EXCEPT !.sha = sha]

\* Mutant of StoreBytes: a key of the path alone, without the digest.
StoreBytes_KeyOfPath ==
  LET p == taking.path  i == taking.prev IN
  /\ turn = "storing"
  /\ objects' = [k \in Keys |-> IF k[1] = p THEN box[p] ELSE objects[k]]
  /\ IF i = 0 /\ Live(files, p) # {}
       THEN turn' = "stuck" /\ tx' = << >>
       ELSE /\ i = 0 => Unused # {}
            /\ tx' = Over([n \in {IF i = 0 THEN NewId ELSE i} |-> Record(i, p, box[p])], tx)
            /\ turn' = "taking"
  /\ UNCHANGED <<bag, files, listing, todo, taking, reconciled, pc, job, torn>>

\* download_file: the bytes go to their key, then the record found takes them
\* on, or a new one is made.  A record somebody else has made of that path
\* breaks the transaction, which collect_outputs goes on using.
StoreBytes ==
  LET p == taking.path  i == taking.prev IN
  /\ turn = "storing"
  /\ objects' = [objects EXCEPT ![<<p, box[p]>>] = box[p]]
  /\ IF i = 0 /\ Live(files, p) # {}
       THEN turn' = "stuck" /\ tx' = << >>
       ELSE /\ i = 0 => Unused # {}
            /\ tx' = Over([n \in {IF i = 0 THEN NewId ELSE i} |-> Record(i, p, box[p])], tx)
            /\ turn' = "taking"
  /\ UNCHANGED <<bag, files, listing, todo, taking, reconciled, pc, job, torn>>

\* Mutant of Release: every record that was not taken in this pass is retired.
Release_Unchanged ==
  LET gone == {i \in DOMAIN View : i \notin DOMAIN tx} IN
  /\ turn = "taking" /\ todo = {}
  /\ files' = [i \in DOMAIN View |->
       [View[i] EXCEPT !.archived = @ \/ (listed # {} /\ i \in gone)]]
  /\ turn' = "idle" /\ tx' = << >> /\ reconciled' = (listed # {})
  /\ UNCHANGED <<bag, objects, listing, todo, taking, pc, job, torn>>

\* The records of paths that were not listed are archived, unless nothing was
\* listed; then the turn is released, which commits.
Release ==
  /\ turn = "taking" /\ todo = {}
  /\ files' = [i \in DOMAIN View |->
       [View[i] EXCEPT
          !.archived = @ \/ (listed # {} /\ View[i].path \notin listed)]]
  /\ turn' = "idle" /\ tx' = << >> /\ reconciled' = (listed # {})
  /\ UNCHANGED <<bag, objects, listing, todo, taking, pc, job, torn>>

\* The container does not answer: session.error is appended, and the turn is
\* released with what was taken.
CollectFails ==
  /\ turn \in {"running", "taking", "storing"}
  /\ files' = View
  /\ turn' = "idle" /\ tx' = << >> /\ reconciled' = FALSE
  /\ UNCHANGED <<bag, objects, listing, todo, taking, pc, job, torn>>

\* sweep_once ends the turn that nobody is running.
Sweep ==
  /\ turn = "stuck" /\ turn' = "idle" /\ reconciled' = FALSE
  /\ UNCHANGED <<bag, objects, files, tx, listing, todo, taking, pc, job, torn>>

(***************************************************************************)
(* capture_file.                                                           *)
(***************************************************************************)

Goto(c, place) == pc' = [pc EXCEPT ![c] = place]

Hash(c) ==
  /\ pc[c] = "new"
  /\ job' = [job EXCEPT ![c].sha = box[job[c].path]]
  /\ Goto(c, IF box[job[c].path] = None THEN "done" ELSE "hashed")
  /\ UNCHANGED <<bag, objects, files, collecting, torn>>

LookUp(c) ==
  LET i == Found(files, job[c].path) IN
  /\ pc[c] = "hashed" /\ job' = [job EXCEPT ![c].prev = i]
  /\ Goto(c, IF i # 0 /\ files[i].sha = job[c].sha THEN "done" ELSE "found")
  /\ UNCHANGED <<bag, objects, files, collecting, torn>>

\* The container PUTs the file as it is now under the key of the digest.
Put(c) ==
  LET p == job[c].path IN
  /\ pc[c] = "found"
  /\ IF box[p] = None
       THEN Goto(c, "done") /\ UNCHANGED objects
       ELSE objects' = [objects EXCEPT ![<<p, job[c].sha>>] = box[p]] /\ Goto(c, "put")
  /\ UNCHANGED <<bag, files, collecting, job, torn>>

\* replace_file_content or create_file, and the commit.  It waits for the
\* collector's row; another live record of the path refuses it.
Keep(c) ==
  LET p == job[c].path  i == job[c].prev IN
  /\ pc[c] = "put"
  /\ IF i # 0 THEN i \notin DOMAIN tx ELSE \A j \in Live(tx, p) : j \in DOMAIN files
  /\ IF i # 0 THEN files' = [files EXCEPT ![i].sha = job[c].sha]
     ELSE IF Live(files, p) # {} THEN UNCHANGED files
     ELSE /\ Unused # {}
          /\ files' = Over([n \in {NewId} |-> Record(0, p, job[c].sha)], files)
  /\ Goto(c, "done") /\ UNCHANGED <<bag, objects, collecting, job, torn>>

Next ==
  \/ \E p \in Paths, content \in Contents \cup {None} : Write(p, content)
  \/ NextTurn \/ StoreBytes \/ Release \/ CollectFails \/ Sweep
  \/ \E found \in SUBSET Paths : \E next \in [found \cap Odd -> found] : List(found, next)
  \/ \E p \in Paths : Take(p)
  \/ \E c \in Captures : Hash(c) \/ LookUp(c) \/ Put(c) \/ Keep(c)

Spec == Init /\ [][Next]_vars

(***************************************************************************)
(* Properties.                                                             *)
(***************************************************************************)

\* outputs/ holds one file per path, however captures and the collector race
\* (uq_files_live_scoped_path).
OneRecordPerPath == \A p \in Paths : Cardinality(Live(files, p)) <= 1

\* The bytes behind a record are the ones its digest names, unless the agent
\* changed a file while it was being captured (download_file).
DigestTells ==
  ~torn => \A i \in DOMAIN files : objects[<<files[i].path, files[i].sha>>] = files[i].sha

\* A name that takes two lines is in the directory.
Muddled == \E p \in Odd : box[p] # None

\* After a turn the records say what outputs/ says, whatever captures ran beside the
\* collection, with the same exception, unless the listing was cut or muddled, and but
\* for files that are too big, which need no record (discover_outputs, list_files).
RecordsMatch ==
  ~torn /\ turn = "idle" /\ reconciled /\ ~cut /\ ~Muddled =>
    \A p \in Paths :
      LET i == Found(files, p) IN
      IF i = 0 THEN box[p] \in Big \cup {None} ELSE files[i].sha = box[p]

\* Only the record of a path that is gone, or whose file is too big, is archived,
\* unless the listing was cut or muddled (discover_outputs).
ArchivedMeansGone ==
  [][~cut /\ ~Muddled => \A i \in DOMAIN files :
       ~files[i].archived /\ files'[i].archived => box[files[i].path] \in Big \cup {None}]_vars

\* Once everybody rests, the records are what is in outputs/, each path once.
RecordsTell == RecordsMatch /\ OneRecordPerPath
=============================================================================
