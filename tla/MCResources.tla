----------------------------- MODULE MCResources ------------------------------
(***************************************************************************)
(* What sessions are given, files, memory stores, skills, an environment   *)
(* and an agent, for TLC.  They share no state, so that one of them moves  *)
(* in a behaviour and the others stay as they began.  Files: two uploads,  *)
(* an import, two deletes and an attachment, and two contents, so that     *)
(* uploads may or may not share one.  Memory: two sessions, two deletes    *)
(* and an archive.  Skills: two creates, and one request of each other     *)
(* kind, and two names.  Environments: two recipes with steps and two      *)
(* without, one request of each kind, two of the edits, and as many builds *)
(* as they can start.  Agents: two things that a field may say, two   *)
(* edits, an archive and a session.                                        *)
(***************************************************************************)
EXTENDS Files, TLC

CONSTANTS
  u1, u2, i1, d1, d2, a1, c1, c2,
  Sessions, StoreDeletes, Archives, Creator, s1, s2, x1, x2, y1,
  Names, Digests, Creates, Updates, Renames, SkillDeletes, n1, n2, h1, k1, k2, p1, p2, r1, z1,
  Recipes, Machines, Edits, Opens, EnvArchives, EnvDeletes, MaxBuilds, b1, b2, m1, m2, e1, e2, o1, v1, w1,
  Values, AgentEdits, AgentArchives, AgentOpens, q1, q2, g1, g2, g3, g4

VARIABLES
  part,
  status, archived, deleted, located, volume, mounts, attached, place, crossed,
  skills, packages, step, pkg, of, copy, met, storers,
  environment, shelved, gone, builds, stage, read, answer, overtaken,
  handle, versions, by, turn, seen, sent, told, pin

M == INSTANCE MemoryStores WITH Deletes <- StoreDeletes, pc <- place
S == INSTANCE Skills WITH Deletes <- SkillDeletes, rows <- skills, objects <- packages,
                          pc <- step, on <- of, crossed <- met
E == INSTANCE Environments
       WITH Archives <- EnvArchives, Deletes <- EnvDeletes, row <- environment,
            archived <- shelved, pc <- stage, copy <- read, crossed <- overtaken
A == INSTANCE Agents
       WITH Edits <- AgentEdits, Archives <- AgentArchives, Opens <- AgentOpens,
            pc <- turn, copy <- seen

stores  == <<status, archived, deleted, located, volume, mounts, attached, place, crossed>>
library == <<skills, packages, step, pkg, of, copy, met, storers>>
image   == <<environment, shelved, gone, builds, stage, read, answer, overtaken>>
agent   == <<handle, versions, by, turn, seen, sent, told, pin>>

ASSUME OthersAssumption ==
  M!RequestAssumption /\ S!NoneAssumption /\ S!RequestAssumption
ASSUME DefinitionsAssumption ==
  E!RecipeAssumption /\ E!BoundAssumption /\ A!AgentAssumption

MCInit ==
  /\ Init /\ M!Init /\ S!Init /\ E!Init /\ A!Init
  /\ part \in {"files", "memory", "skills", "environments", "agents"}
  /\ part # "files" => brings = [f \in Uploads \cup Imports |-> c1]
  /\ part # "skills" => pkg = [q \in S!Reqs |-> <<n1, h1>>]
  /\ part # "environments" => environment = E!OnBase(m1, E!Null)
  /\ part # "agents" => A!FirstVersion([f \in A!Fields |-> q1])
MCNext ==
  /\ UNCHANGED part
  /\ \/ part = "files" /\ Next /\ UNCHANGED <<stores, library, image, agent>>
     \/ part = "memory" /\ M!Next /\ UNCHANGED <<vars, library, image, agent>>
     \/ part = "skills" /\ S!Next /\ UNCHANGED <<vars, stores, image, agent>>
     \/ part = "environments" /\ E!Next /\ UNCHANGED <<vars, stores, library, agent>>
     \/ part = "agents" /\ A!Step /\ UNCHANGED <<vars, stores, library, image>>
MCSpec == MCInit /\ [][MCNext]_<<part, vars, stores, library, image, agent>>

RowTellsVolume == M!RowTellsVolume
MountSafe      == M!MountSafe
Loadable       == S!Loadable
BuildTells     == E!BuildTells
SessionHasEnvironment == E!SessionHasEnvironment
EditsFollow    == A!EditsFollow
ArchiveSticks  == A!ArchiveSticks

\* The properties treat the recipes alike, and the edits.
Symmetry == Permutations(Recipes) \cup Permutations(Edits)
=============================================================================
