-------------------------------- MODULE Skills --------------------------------
(***************************************************************************)
(* The skills of one organization: a row with a unique name, and a package *)
(* in the bucket that carries the name it was uploaded with                *)
(* (app/services/skills.py, app/db/queries/skills.py).  The key of a       *)
(* package is its name and its digest.  An UPDATE writes the columns whose *)
(* new value differs from the row that the request read.                   *)
(***************************************************************************)
EXTENDS FiniteSets

CONSTANTS
  Names, Digests, None,
  Creates, Updates, Renames, Deletes  \* requests; a skill is named by its creator

Reqs     == Creates \cup Updates \cup Renames \cup Deletes
Packages == Names \X Digests   \* a package, and the key it is stored under
Row      == [name : Names, key : Packages]

NoneAssumption == None \notin Row \cup Creates

\* A request is of one kind.
RequestAssumption ==
  /\ Creates \cap (Updates \cup Renames \cup Deletes) = {}
  /\ Updates \cap (Renames \cup Deletes) = {} /\ Renames \cap Deletes = {}

VARIABLES
  rows,     \* the skills table: a row or None for each create request
  objects,  \* the keys that hold a package
  pc, pkg,  \* a request: its place, the package it brings
  on, copy, \* the skill it names, and the row it read
  crossed,  \* history: an update was written to a row that had changed since it
            \* was read
  storers   \* history: the requests that have stored their package

vars == <<rows, objects, pc, pkg, on, copy, crossed, storers>>

Done == {"new", "done", "refused", "stopped"}

Init ==
  /\ rows = [s \in Creates |-> None] /\ objects = {}
  /\ pc = [q \in Reqs |-> "new"] /\ pkg \in [Reqs -> Packages]
  /\ on = [q \in Reqs |-> None] /\ copy = [q \in Reqs |-> None]
  /\ crossed = FALSE /\ storers = {}

Goto(q, place) == pc' = [pc EXCEPT ![q] = place]

NameOf(p) == p[1]
Taken(n, s) == \E t \in Creates \ {s} : rows[t] # None /\ rows[t].name = n

Stop(q) ==
  /\ pc[q] \notin Done
  /\ Goto(q, "stopped") /\ UNCHANGED <<rows, objects, pkg, on, copy, crossed, storers>>

(***************************************************************************)
(* create_skill.                                                           *)
(***************************************************************************)

CheckName(s) ==
  /\ pc[s] = "new" /\ Goto(s, IF Taken(NameOf(pkg[s]), s) THEN "refused" ELSE "checked")
  /\ UNCHANGED <<rows, objects, pkg, on, copy, crossed, storers>>

\* save_bytes, by a create or an update; it may fail.
Store(q) ==
  /\ pc[q] = "checked"
  /\ \/ objects' = objects \cup {pkg[q]} /\ storers' = storers \cup {q} /\ Goto(q, "stored")
     \/ UNCHANGED <<objects, storers>> /\ Goto(q, "refused")
  /\ UNCHANGED <<rows, pkg, on, copy, crossed>>

\* The row and the commit; uq_skills_organization_name has the last word.
Insert(s) ==
  /\ pc[s] = "stored"
  /\ IF Taken(NameOf(pkg[s]), s)
       THEN Goto(s, "refused") /\ UNCHANGED rows
       ELSE /\ rows' = [rows EXCEPT ![s] = [name |-> NameOf(pkg[s]), key |-> pkg[s]]]
            /\ Goto(s, "done")
  /\ UNCHANGED <<objects, pkg, on, copy, crossed, storers>>

(***************************************************************************)
(* update_skill and delete_skill.                                          *)
(***************************************************************************)

\* get_skill
Load(q, s) ==
  /\ pc[q] = "new"
  /\ on' = [on EXCEPT ![q] = s] /\ copy' = [copy EXCEPT ![q] = rows[s]]
  /\ Goto(q, IF rows[s] = None THEN "refused" ELSE "loaded")
  /\ UNCHANGED <<rows, objects, pkg, crossed, storers>>

\* A package with another name must not take one that is held.
CheckRename(q) ==
  LET n == NameOf(pkg[q]) IN
  /\ pc[q] = "loaded"
  /\ Goto(q, IF n # copy[q].name /\ Taken(n, on[q]) THEN "refused" ELSE "checked")
  /\ UNCHANGED <<rows, objects, pkg, on, copy, crossed, storers>>

\* The UPDATE of the columns of new that differ from the copy, and the commit.
Commit(q, new) ==
  LET s == on[q]
      merged == [c \in DOMAIN new |-> IF new[c] = copy[q][c] THEN rows[s][c] ELSE new[c]]
  IN IF rows[s] = None \/ Taken(merged.name, s)
       THEN Goto(q, "refused") /\ UNCHANGED <<rows, crossed>>
       ELSE /\ rows' = [rows EXCEPT ![s] = merged] /\ Goto(q, "done")
            /\ crossed' = (crossed \/ rows[s] # copy[q])

\* Mutant of Replace: the row keeps the name it had.
Replace_KeepsName(q) ==
  /\ pc[q] = "stored"
  /\ Commit(q, [name |-> copy[q].name, key |-> pkg[q]])
  /\ UNCHANGED <<objects, pkg, on, copy, storers>>

\* update_skill with a package; the old one stays in the bucket.
Replace(q) ==
  /\ pc[q] = "stored"
  /\ Commit(q, [name |-> NameOf(pkg[q]), key |-> pkg[q]])
  /\ UNCHANGED <<objects, pkg, on, copy, storers>>

\* update_skill with a name and no package.
Rename(q) ==
  /\ pc[q] = "loaded"
  /\ Commit(q, [copy[q] EXCEPT !.name = NameOf(pkg[q])])
  /\ UNCHANGED <<objects, pkg, on, copy, storers>>

\* delete_skill: the package, then the row.
Purge(q) ==
  /\ pc[q] = "loaded"
  /\ objects' = objects \ {copy[q].key} /\ Goto(q, "purged")
  /\ UNCHANGED <<rows, pkg, on, copy, crossed, storers>>

DeleteRow(q) ==
  /\ pc[q] = "purged"
  /\ rows' = [rows EXCEPT ![on[q]] = None] /\ Goto(q, "done")
  /\ UNCHANGED <<objects, pkg, on, copy, crossed, storers>>

Next ==
  \/ \E q \in Reqs : Stop(q)
  \/ \E s \in Creates : CheckName(s) \/ Store(s) \/ Insert(s)
  \/ \E q \in Updates \cup Renames \cup Deletes, s \in Creates : Load(q, s)
  \/ \E q \in Updates : CheckRename(q) \/ Store(q) \/ Replace(q)
  \/ \E q \in Renames : Rename(q)
  \/ \E q \in Deletes : Purge(q) \/ DeleteRow(q)

Spec == Init /\ [][Next]_vars

(***************************************************************************)
(* Properties.                                                             *)
(***************************************************************************)

Skills == {s \in Creates : rows[s] # None}

\* One package was stored for two requests: one object is all there is of both.
Shared == \E q, r \in storers : q # r /\ pkg[q] = pkg[r]

\* A skill can be downloaded: its package is in the bucket, unless a deletion of
\* it is at work or was cut short, or one package was stored by two requests
\* (download_skill, delete_skill).
Readable ==
  ~Shared => \A s \in Skills :
    \/ rows[s].key \in objects
    \/ \E q \in Deletes : pc[q] \in {"purged", "stopped"} /\ on[q] = s

\* The name of a skill is the one its package carries, or the package would not
\* load in a container, unless it was renamed without one or an update crossed
\* another (update_skill).
NameMatchesPackage ==
  ~crossed /\ (\A q \in Renames : pc[q] # "done")
    => \A s \in Skills : rows[s].name = NameOf(rows[s].key)

\* A turn can load each skill: its package is there, under its name.
Loadable == Readable /\ NameMatchesPackage
=============================================================================
