-------------------------------- MODULE Agents --------------------------------
(***************************************************************************)
(* One agent: a handle that names its active version, and versions that    *)
(* never change once written.  An edit names no version; it is laid over   *)
(* the one that is active when the agent is read, and only the unique      *)
(* number of a version keeps two edits apart (app/services/agents.py,      *)
(* app/db/queries/agents.py).  A session pins the number of a version.     *)
(*                                                                         *)
(* An UPDATE of the handle writes the columns whose new value differs from *)
(* the row that the request read.                                          *)
(***************************************************************************)
EXTENDS Integers, Sequences, SequencesExt

CONSTANTS
  Values,                  \* what a field of a definition can say
  Edits, Archives, Opens,  \* PATCH, POST archive, and sessions being created
  None

Reqs   == Edits \cup Archives \cup Opens
Fields == {"name", "model"}   \* one that the handle repeats, one that it does not
Config == [Fields -> Values]
Handle == [active : Nat, name : Values, archived : BOOLEAN]

\* What an edit sends: some of the fields.
Changes == UNION {[sent -> Values] : sent \in SUBSET Fields}

AgentAssumption ==
  /\ None \notin Edits \cup Handle /\ Values # {}
  /\ Edits \cap (Archives \cup Opens) = {} /\ Archives \cap Opens = {}

VARIABLES
  handle,     \* the agents row, a Handle
  versions,   \* agent_versions, by number
  by,         \* history: the edit that made each version
  pc, copy,   \* a request: its place, and the handle it read
  sent,       \* what an edit sends
  told,       \* the version an edit was answered with
  pin         \* the version a session keeps

agentVars == <<handle, versions, by, pc, copy, sent, told, pin>>

FirstVersion(c) ==
  versions = <<c>> /\ handle = [active |-> 1, name |-> c["name"], archived |-> FALSE]

\* create_agent: the handle and its first version, in one transaction.
Init ==
  /\ \E c \in Config : FirstVersion(c)
  /\ by = <<None>>
  /\ pc = [q \in Reqs |-> "new"] /\ copy = [q \in Reqs |-> None]
  /\ sent = [e \in Edits |-> << >>]
  /\ told = [e \in Edits |-> 0] /\ pin = [o \in Opens |-> 0]

Goto(q, place) == pc' = [pc EXCEPT ![q] = place]
\* The request has done with the handle it read.
Leave(q, place) == Goto(q, place) /\ copy' = [copy EXCEPT ![q] = None]

\* get_agent, in a statement of its own.  An edit and a new session refuse an
\* archived agent; a second archive does not.
Load(q) ==
  /\ pc[q] = "new"
  /\ IF handle.archived /\ q \notin Archives
       THEN Goto(q, "refused") /\ UNCHANGED copy
       ELSE Goto(q, "loaded") /\ copy' = [copy EXCEPT ![q] = handle]
  /\ UNCHANGED <<handle, versions, by, told, pin>>
LoadEdit(e, change) == Load(e) /\ sent' = [sent EXCEPT ![e] = change]
LoadOther(q) == Load(q) /\ UNCHANGED sent

\* get_active_version: the version that the copy names.
ActiveOf(q) == versions[copy[q].active]

\* The fields that were sent, over what the active version says.
Merged(e) == [f \in Fields |-> IF f \in DOMAIN sent[e] THEN sent[e][f] ELSE ActiveOf(e)[f]]

\* The columns of new that differ from the copy.
Flush(q, new) ==
  handle' = [c \in DOMAIN handle |-> IF new[c] = copy[q][c] THEN handle[c] ELSE new[c]]

\* Mutant of Taken: two versions may have the same number, the later is found.
Taken_Never(n) == FALSE

\* uq_agent_versions_agent_version
Taken(n) == n \in DOMAIN versions

\* The handle that an edit read, named for the version it makes.
Repointed(e, n) == [copy[e] EXCEPT !.active = n, !.name = Merged(e)["name"]]

\* Mutant of Append_: the handle is written as it was read.
Append_WholeRow(e) ==
  LET n == copy[e].active + 1 IN
  /\ versions' = SubSeq(versions, 1, n - 1) \o <<Merged(e)>>
  /\ by' = SubSeq(by, 1, n - 1) \o <<e>>
  /\ handle' = Repointed(e, n)

\* add_agent_version writes the version and points the handle at it.
Append_(e) ==
  LET n == copy[e].active + 1 IN
  /\ versions' = SubSeq(versions, 1, n - 1) \o <<Merged(e)>>
  /\ by' = SubSeq(by, 1, n - 1) \o <<e>>
  /\ Flush(e, Repointed(e, n))

\* update_agent.  An edit that changes nothing is answered with the version it
\* was laid over; one whose number is taken is rolled back whole.
Edit(e) ==
  LET n == copy[e].active + 1 IN
  /\ pc[e] = "loaded"
  /\ \/ /\ Merged(e) = ActiveOf(e)
        /\ Leave(e, "done") /\ told' = [told EXCEPT ![e] = n - 1]
        /\ UNCHANGED <<handle, versions, by>>
     \/ /\ Merged(e) # ActiveOf(e) /\ Taken(n)
        /\ Leave(e, "refused") /\ UNCHANGED <<handle, versions, by, told>>
     \/ /\ Merged(e) # ActiveOf(e) /\ ~Taken(n)
        /\ Append_(e) /\ Leave(e, "done") /\ told' = [told EXCEPT ![e] = n]
  /\ UNCHANGED <<sent, pin>>

\* archive_agent
Archive(q) ==
  /\ pc[q] = "loaded"
  /\ Flush(q, [copy[q] EXCEPT !.archived = TRUE]) /\ Leave(q, "done")
  /\ UNCHANGED <<versions, by, sent, told, pin>>

\* get_agent_version
HasVersion(n) == n \in DOMAIN versions

\* _create_session pins the version it was asked for, or the active one; the
\* session is committed much later, or not at all.
Pin(o, n) ==
  /\ pc[o] = "loaded"
  /\ IF HasVersion(n)
       THEN Leave(o, "opening") /\ pin' = [pin EXCEPT ![o] = n]
       ELSE Leave(o, "refused") /\ UNCHANGED pin
  /\ UNCHANGED <<handle, versions, by, sent, told>>
Opened(o) ==
  /\ pc[o] = "opening" /\ Goto(o, "open")
  /\ UNCHANGED <<handle, versions, by, copy, sent, told, pin>>

Step ==
  \/ \E q \in Archives \cup Opens : LoadOther(q)
  \/ \E e \in Edits : Edit(e) \/ \E change \in Changes : LoadEdit(e, change)
  \/ \E q \in Archives : Archive(q)
  \/ \E o \in Opens : Opened(o) \/ \E n \in 1..Len(versions) + 1 : Pin(o, n)

AgentSpec == Init /\ [][Step]_agentVars

(***************************************************************************)
(* Properties.                                                             *)
(***************************************************************************)

\* No edit is lost under another: every version is the one before it with the
\* fields its edit sent, and an edit that was answered finds what it sent in the
\* version it was told (update_agent, "apply an edit on top of the active version").
NoEditLost ==
  /\ \A n \in 2..Len(versions) : \A f \in Fields :
       versions[n][f] = IF f \in DOMAIN sent[by[n]] THEN sent[by[n]][f] ELSE versions[n - 1][f]
  /\ \A e \in Edits : pc[e] = "done" =>
       \A f \in DOMAIN sent[e] : versions[told[e]][f] = sent[e][f]

\* The handle names the newest version and says what it says, whatever requests
\* meet on it (add_agent_version).
HandleIsNewest ==
  handle.active = Len(versions) /\ handle.name = versions[handle.active]["name"]

\* Edits follow one another: each was made of the version before it, and the handle
\* repeats the last.
EditsFollow == NoEditLost /\ HandleIsNewest

\* An archived agent stays archived under an edit that read it before, and the
\* versions that sessions pinned are never rewritten (archive_agent, AgentVersion).
ArchiveSticks ==
  [][ /\ handle.archived => handle'.archived
      /\ IsPrefix(versions, versions') ]_agentVars
=============================================================================
