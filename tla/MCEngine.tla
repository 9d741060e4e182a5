------------------------------- MODULE MCEngine -------------------------------
(***************************************************************************)
(* What a turn runs on, its container, its graph and its checkpoints, for  *)
(* TLC.  They share no state, so that one of them moves in a behaviour and *)
(* the others stay as they began.  The container: two calls that share a   *)
(* handle, where a tick is about a minute and a half.  The graph: two      *)
(* native tools, one that asks (by the later of its two entries) and one   *)
(* that does not, and a custom tool.  The checkpoints: the first turns of  *)
(* two sessions, and a pool that is opened again.                          *)
(***************************************************************************)
EXTENDS Handles, Sequences, FiniteSets

CONSTANTS
  Native, Custom, Configs, MaxCalls, MaxReply, MaxTurns,
  Sessions, Pools, Conns, MaxVersions, None

VARIABLES
  part,
  config, msgs, place, turn, seen, announced, todo, log, parked, turns, said, cut,
  pooled, roleHome, exists, pool, registered, poolLock, leaving, setupLock, setupDone,
  tables, wire, homed, step, has, uses, tx, blobs, row, strayed

ConfigsOf == {[default |-> "always_allow",
               entries |-> <<[name |-> "bash", policy |-> "always_allow"],
                             [name |-> "bash", policy |-> "always_ask"]>>]}

T == INSTANCE Turns
K == INSTANCE Checkpoints WITH Turns <- Sessions, conn <- wire, pc <- step

graph == <<config, msgs, place, turn, seen, announced, todo, log, parked, turns, said, cut>>
checkpoints == <<pooled, roleHome, exists, pool, registered, poolLock, leaving, setupLock, setupDone,
                 tables, wire, homed, step, has, uses, tx, blobs, row, strayed>>

ASSUME CheckpointsAssumption == K!PoolAssumption
ASSUME GraphAssumption == T!ToolAssumption /\ T!ConfigAssumption /\ T!BoundAssumption

MCInit ==
  /\ Init /\ T!Init /\ K!Init /\ part \in {"container", "graph", "checkpoints"}
  /\ part # "checkpoints" => pooled /\ roleHome /\ exists
MCNext ==
  /\ UNCHANGED part
  /\ \/ part = "container" /\ Next /\ UNCHANGED <<graph, checkpoints>>
     \/ part = "graph" /\ T!Step /\ UNCHANGED <<handleVars, checkpoints>>
     \/ part = "checkpoints" /\ K!Next /\ UNCHANGED <<handleVars, graph>>
MCSpec == MCInit /\ [][MCNext]_<<part, handleVars, graph, checkpoints>>

RightVerdict       == T!RightVerdict
ParkedIsAnswerable == T!ParkedIsAnswerable
LogTellsTranscript == T!LogTellsTranscript
OneHome == K!OneHome
Whole   == K!Whole
=============================================================================
