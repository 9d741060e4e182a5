----------------------------- MODULE Environments -----------------------------
(***************************************************************************)
(* One environment: an image recipe whose build runs at the provider for   *)
(* minutes and which nobody announces.  Every request that touches the row *)
(* first refreshes it (refresh_build: read the row, ask the provider,      *)
(* write the answer), and an edit that changes the recipe starts the next  *)
(* build (app/services/environments.py, Image in app/utils/sandbox.py).    *)
(* A GET is any request that goes no further than that.                    *)
(*                                                                         *)
(* A request works on the copy of the row it read, and its UPDATE writes   *)
(* the columns whose new value differs from that copy.                     *)
(***************************************************************************)
EXTENDS Integers, Sequences

CONSTANTS
  Recipes,   \* recipes with steps: an image of the environment's own
  Machines,  \* recipes without any, which differ in cpu and memory: the base image
  None,      \* no recipe
  Edits,     \* POST with a new config
  Opens,     \* sessions being created in the environment
  Archives, Deletes,
  MaxBuilds  \* bound on the builds ever started

Reqs == Edits \cup Opens \cup Archives \cup Deletes

RecipeAssumption == Recipes \cap Machines = {} /\ None \notin Recipes \cup Machines
BoundAssumption  == MaxBuilds \in Nat \ {0}

VARIABLES
  row,              \* recipe, build_state, image_id and build_id of the row
  archived, gone,   \* archived_at; the row is deleted for good
  builds,           \* the provider's builds: the recipe and how it went
  pc, copy, answer, \* a request: its place, the row it read, what it was told
  crossed           \* history: an edit changed the row under a request that was yet
                    \* to write what it made of the old one, or a refresh under an edit

vars == <<row, archived, gone, builds, pc, copy, answer, crossed>>

\* image_id is the base image's or that of the template that is named after the
\* environment, the same at every build.  build_id is NULL, or the empty string once
\* an edit has gone back to the base image, or a build.
Null    == 0
Cleared == -1
OnBase(r, n)  == [recipe |-> r, state |-> "ready", image |-> "base", build |-> n]
Building(r, n) == [recipe |-> r, state |-> "building", image |-> "own", build |-> n]
NewBuild(r)   == [recipe |-> r, status |-> "building"]
Plain == OnBase(None, Null)  \* no copy is held

\* create_environment, with and without steps.
Init ==
  /\ \/ \E r \in Recipes : row = Building(r, 1) /\ builds = <<NewBuild(r)>>
     \/ \E m \in Machines : row = OnBase(m, Null) /\ builds = << >>
  /\ archived = FALSE /\ gone = FALSE
  /\ pc = [q \in Reqs |-> "new"] /\ copy = [q \in Reqs |-> Plain]
  /\ answer = [q \in Reqs |-> "building"] /\ crossed = FALSE

Goto(q, place) == pc' = [pc EXCEPT ![q] = place]
\* The request has done with the row it read.
Leave(q, place) == /\ Goto(q, place) /\ copy' = [copy EXCEPT ![q] = Plain]
                   /\ answer' = [answer EXCEPT ![q] = "building"]
Works(q) == pc[q] \in {"asking", "saving"} \/ (q \in Edits /\ pc[q] = "fresh")

\* The row changes under one of these requests.
Cross(q, under) == crossed' = (crossed \/ (row' # row /\ \E p \in under \ {q} : Works(p)))

\* The provider finishes a build.
BuildEnds(n, status) ==
  /\ builds[n].status = "building"
  /\ builds' = [builds EXCEPT ![n].status = status]
  /\ UNCHANGED <<row, archived, gone, pc, copy, answer, crossed>>

(***************************************************************************)
(* get_environment, require_usable and refresh_build.                      *)
(***************************************************************************)

\* The row is read.  A new session and an edit refuse an archived environment
\* (the edit after its refresh, which comes to the same).
Fetch(q) ==
  /\ pc[q] = "new"
  /\ IF gone \/ (archived /\ q \in Opens \cup Edits)
       THEN Goto(q, "refused") /\ UNCHANGED copy
       ELSE /\ Goto(q, IF row.state = "building" THEN "asking" ELSE "fresh")
            /\ copy' = [copy EXCEPT ![q] = row]
  /\ UNCHANGED <<row, archived, gone, builds, answer, crossed>>

\* Image.status: without a build there is nothing to ask about.
StatusOf(n) == IF n \in {Null, Cleared} THEN "ready" ELSE builds[n].status

Ask(q) ==
  /\ pc[q] = "asking"
  /\ answer' = [answer EXCEPT ![q] = StatusOf(copy[q].build)]
  /\ Goto(q, IF answer'[q] = "building" THEN "fresh" ELSE "saving")
  /\ UNCHANGED <<row, archived, gone, builds, copy, crossed>>

\* Image.refresh: the answer is written and committed, to the row as it is now.
Save(q) ==
  /\ pc[q] = "saving"
  /\ IF gone
       THEN Leave(q, "refused") /\ UNCHANGED row
       ELSE /\ row' = [row EXCEPT !.state = answer[q]]
            /\ copy' = [copy EXCEPT ![q].state = answer[q]]
            /\ Goto(q, "fresh") /\ UNCHANGED answer
  /\ Cross(q, Edits) /\ UNCHANGED <<archived, gone, builds>>

(***************************************************************************)
(* What the request came for.                                              *)
(***************************************************************************)

\* The columns of new that differ from the copy old.
Flush(old, new) ==
  row' = [c \in DOMAIN row |-> IF new[c] = old[c] THEN row[c] ELSE new[c]]

\* Mutant of Edit: the build that the old recipe started goes on standing for the new.
Edit_KeepsBuild(q, r) ==
  LET n == Len(builds) + 1 IN
  /\ pc[q] = "fresh" /\ (r \in Recipes => n <= MaxBuilds)
  /\ IF gone THEN Leave(q, "refused") /\ UNCHANGED <<row, builds>>
     ELSE /\ Leave(q, "done")
          /\ IF r = copy[q].recipe THEN UNCHANGED <<row, builds>>
             ELSE IF r \in Machines
               THEN Flush(copy[q], OnBase(r, Cleared)) /\ UNCHANGED builds
               ELSE IF copy[q].build > 0
                 THEN Flush(copy[q], [copy[q] EXCEPT !.recipe = r]) /\ UNCHANGED builds
                 ELSE Flush(copy[q], Building(r, n)) /\ builds' = Append(builds, NewBuild(r))
  /\ Cross(q, Reqs) /\ UNCHANGED <<archived, gone>>

\* update_environment.  The row is locked by its first write until the build has
\* been started and recorded; the same recipe starts nothing.
Edit(q, r) ==
  LET n == Len(builds) + 1 IN
  /\ pc[q] = "fresh" /\ (r \in Recipes => n <= MaxBuilds)
  /\ IF gone THEN Leave(q, "refused") /\ UNCHANGED <<row, builds>>
     ELSE /\ Leave(q, "done")
          /\ IF r = copy[q].recipe THEN UNCHANGED <<row, builds>>
             ELSE IF r \in Machines
               THEN Flush(copy[q], OnBase(r, Cleared)) /\ UNCHANGED builds
               ELSE Flush(copy[q], Building(r, n)) /\ builds' = Append(builds, NewBuild(r))
  /\ Cross(q, Reqs) /\ UNCHANGED <<archived, gone>>

\* The provider refuses the build: the transaction is rolled back.
EditFails(q) ==
  /\ pc[q] = "fresh" /\ Leave(q, "refused")
  /\ UNCHANGED <<row, archived, gone, builds, crossed>>

\* require_usable passes and the session's row is inserted: its foreign key
\* keeps the environment from being deleted until the container stands.
Open(q) ==
  /\ pc[q] = "fresh"
  /\ Leave(q, IF copy[q].state = "ready" /\ ~gone THEN "starting" ELSE "refused")
  /\ UNCHANGED <<row, archived, gone, builds, crossed>>

\* The container stands and the session is committed, or neither.
OpenEnds(q, stands) ==
  /\ pc[q] = "starting" /\ Goto(q, IF stands THEN "open" ELSE "refused")
  /\ UNCHANGED <<row, archived, gone, builds, copy, answer, crossed>>

\* delete_session: the row stays, marked.
DropSession(q) ==
  /\ pc[q] = "open" /\ Goto(q, "dropped")
  /\ UNCHANGED <<row, archived, gone, builds, copy, answer, crossed>>

Archive(q) ==
  /\ pc[q] = "fresh"
  /\ archived' = (archived \/ ~gone) /\ Leave(q, IF gone THEN "refused" ELSE "done")
  /\ UNCHANGED <<row, gone, builds, crossed>>

\* delete_environment counts the live sessions it can see, ...
CountSessions(q) ==
  /\ pc[q] = "fresh"
  /\ Leave(q, IF \E p \in Opens : pc[p] = "open" THEN "refused" ELSE "deleting")
  /\ UNCHANGED <<row, archived, gone, builds, crossed>>

\* Mutant of Delete: nothing but the count stands in the way.
Delete_NoForeignKey(q) ==
  /\ pc[q] = "deleting"
  /\ gone' = TRUE /\ Goto(q, "done")
  /\ UNCHANGED <<row, archived, builds, copy, answer, crossed>>

\* ... and deletes the row.  It waits for a session being created; the foreign
\* key of any session, deleted ones too, refuses it.
Delete(q) ==
  /\ pc[q] = "deleting"
  /\ \A p \in Opens : pc[p] # "starting"
  /\ IF gone \/ \E p \in Opens : pc[p] \in {"open", "dropped"}
       THEN Goto(q, "refused") /\ UNCHANGED gone
       ELSE gone' = TRUE /\ Goto(q, "done")
  /\ UNCHANGED <<row, archived, builds, copy, answer, crossed>>

Next ==
  \/ \E n \in DOMAIN builds, status \in {"ready", "failed"} : BuildEnds(n, status)
  \/ \E q \in Reqs : Fetch(q) \/ Ask(q) \/ Save(q)
  \/ \E q \in Edits : EditFails(q) \/ \E r \in Recipes \cup Machines : Edit(q, r)
  \/ \E q \in Opens : Open(q) \/ DropSession(q) \/ \E stands \in BOOLEAN : OpenEnds(q, stands)
  \/ \E q \in Archives : Archive(q)
  \/ \E q \in Deletes : CountSessions(q) \/ Delete(q)

Spec == Init /\ [][Next]_vars

(***************************************************************************)
(* Properties.                                                             *)
(***************************************************************************)

\* Whatever edits meet on the row, a recipe with steps names a build of its own: what
\* a refresh hears is about the recipe in the row (update_environment, set_build).
BuildOfRecipe == row.recipe \in Recipes => row.build > 0 /\ builds[row.build].recipe = row.recipe

\* Sessions start from the base image, and from no build, exactly when nothing is
\* declared, unless an edit has crossed another request: UPDATEs of two edits can
\* leave the image of one beside the recipe of the other (update_environment).
ImageOfRecipe ==
  ~crossed =>
    /\ row.recipe \in Machines <=> row.image = "base"
    /\ row.image = "base" <=> row.build \in {Null, Cleared}

\* An environment is ready only when the build it names has succeeded, or a
\* session would have nothing to run in, unless an edit has crossed another
\* request (require_usable, refresh_build, update_environment).
ReadyMeansBuilt ==
  ~crossed /\ row.state = "ready" => StatusOf(row.build) = "ready"

\* No session ends up in an environment that is gone (delete_environment).
SessionHasEnvironment == \A q \in Opens : pc[q] \in {"starting", "open"} => ~gone

\* What a session is opened on: the image and the build are the recipe's, and built.
BuildTells == BuildOfRecipe /\ ImageOfRecipe /\ ReadyMeansBuilt
=============================================================================
