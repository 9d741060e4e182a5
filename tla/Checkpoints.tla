------------------------------ MODULE Checkpoints ------------------------------
(***************************************************************************)
(* Where the agent's own memory of a conversation goes: one pool of        *)
(* connections for the process, opened by the first turn that needs it,    *)
(* tables made once, every connection pointed at the configured schema,    *)
(* each checkpoint written as one transaction (_checkpoint_saver and what  *)
(* it calls in app/runtime/engine.py, lifespan in app/server.py).  The     *)
(* database may sit behind a pooler that moves a client to another backend *)
(* between any two transactions; otherwise a connection is a backend.      *)
(***************************************************************************)
EXTENDS Naturals, FiniteSets

CONSTANTS
  Turns,         \* each of a session of its own, which may be run again
  Pools,         \* bound: pools that one process opens
  Conns,         \* connections of a pool: vma_checkpoint_pool_max_size of them
  MaxVersions,   \* bound: checkpoints that a session writes
  None

Wires == Pools \X Conns   \* the connections, and the backends

PoolAssumption == None \notin Turns \cup Pools \cup Wires

VARIABLES
  pooled,     \* the DSN is that of a transaction pooler
  roleHome,   \* the role's search_path is the configured schema
  exists,     \* the configured schema exists
  pool,       \* "new", "open" or "closed"
  registered, \* _checkpoint_pools: the pool, or None
  poolLock,   \* the turn that has _checkpoint_pool_lock, or None
  leaving,    \* the pool that the lifespan is closing, or None
  setupLock,  \* the turn that has _setup_lock, or None
  setupDone,  \* _setup_done has this database
  tables,     \* the schemas that have the checkpoint tables
  conn,       \* "closed", "fresh", "set", "idle" or "busy"
  homed,      \* backends whose search_path was set
  pc, has,    \* a turn: its place, the pool it was given
  uses,       \* the connection a turn waits for or has borrowed, or None
  tx,         \* what its open transaction has written
  blobs, row, \* a session's blobs and its checkpoint row: their versions
  strayed     \* history: a call found another schema, or no tables

config  == <<pooled, roleHome, exists>>
opening == <<pool, registered, poolLock, leaving>>
setup   == <<setupLock, setupDone, tables>>
wiring  == <<conn, homed>>
stores  == <<tx, blobs, row>>
poolVars == <<config, opening, setup, wiring, pc, has, uses, stores, strayed>>

Init ==
  /\ pooled \in BOOLEAN /\ roleHome \in BOOLEAN /\ exists \in BOOLEAN
  /\ pool = [i \in Pools |-> "new"]
  /\ registered = None /\ poolLock = None /\ leaving = None
  /\ setupLock = None /\ setupDone = FALSE /\ tables = {}
  /\ conn = [c \in Wires |-> "closed"] /\ homed = {} /\ strayed = FALSE
  /\ pc = [t \in Turns |-> "idle"] /\ has = [t \in Turns |-> None]
  /\ uses = [t \in Turns |-> None] /\ tx = [t \in Turns |-> "none"]
  /\ blobs = [t \in Turns |-> 0] /\ row = [t \in Turns |-> 0]

Goto(t, place) == pc' = [pc EXCEPT ![t] = place]

(***************************************************************************)
(* _checkpoint_pool and aclose_checkpoint_pools.                           *)
(***************************************************************************)

Given(t, i) == has' = [has EXCEPT ![t] = i] /\ Goto(t, "asking")

\* The look without the lock.
AskPool(t) ==
  /\ pc[t] = "idle" /\ row[t] < MaxVersions
  /\ IF registered # None THEN Given(t, registered) ELSE Goto(t, "locking") /\ UNCHANGED has
  /\ UNCHANGED <<config, opening, setup, wiring, uses, stores, strayed>>

\* The second look, with the lock, which is kept while a pool is opened.
LockPool(t) ==
  /\ pc[t] = "locking" /\ poolLock = None
  /\ IF registered # None
       THEN Given(t, registered) /\ UNCHANGED poolLock
       ELSE /\ \E i \in Pools : pool[i] = "new" /\ has' = [has EXCEPT ![t] = i]
            /\ poolLock' = t /\ Goto(t, "opening")
  /\ UNCHANGED <<config, pool, registered, leaving, setup, wiring, uses, stores, strayed>>

\* pool.open, and the registration; or the turn is cancelled first.
OpenPool(t, works) ==
  /\ pc[t] = "opening" /\ poolLock' = None
  /\ pool' = [pool EXCEPT ![has[t]] = IF works THEN "open" ELSE "closed"]
  /\ IF works THEN registered' = has[t] /\ Goto(t, "asking")
              ELSE Goto(t, "idle") /\ UNCHANGED registered
  /\ UNCHANGED <<config, leaving, setup, wiring, has, uses, stores, strayed>>

\* The lifespan ends: the registry is emptied under the lock, and what it held is
\* closed after.  A connection that is in use is closed when it comes back.
Unregister ==
  /\ poolLock = None /\ registered # None /\ leaving = None
  /\ leaving' = registered /\ registered' = None
  /\ UNCHANGED <<config, pool, poolLock, setup, wiring, pc, has, uses, stores, strayed>>

ClosePool ==
  /\ leaving # None /\ pool' = [pool EXCEPT ![leaving] = "closed"] /\ leaving' = None
  /\ conn' = [c \in Wires |-> IF c[1] = leaving /\ conn[c] = "idle" THEN "closed" ELSE conn[c]]
  /\ UNCHANGED <<config, registered, poolLock, setup, homed, pc, has, uses, stores, strayed>>

(***************************************************************************)
(* The connections of a pool, _configure_checkpoint_connection.            *)
(***************************************************************************)

\* Where a transaction of a connection lands, and the schema it finds there.
Lands(c) == IF pooled THEN Wires ELSE {c}
Finds(b) == IF exists /\ (b \in homed \/ roleHome) THEN "configured" ELSE "public"

Wants(t) == pc[t] \in {"setting", "ready", "running"} /\ uses[t] = None
GiveBack(t, c) ==
  /\ uses' = [uses EXCEPT ![t] = None]
  /\ conn' = [conn EXCEPT ![c] = IF pool[c[1]] = "open" THEN "idle" ELSE "closed"]

\* check_connection: an idle connection that the pooler dropped is replaced.
Borrow(t, c) ==
  /\ Wants(t) /\ c[1] = has[t] /\ pool[has[t]] = "open"
  /\ \/ conn[c] = "idle" /\ conn' = [conn EXCEPT ![c] = "busy"] /\ UNCHANGED homed
     \/ /\ conn[c] \in {"idle", "closed"} /\ conn' = [conn EXCEPT ![c] = "fresh"]
        /\ homed' = IF pooled THEN homed ELSE homed \ {c}
  /\ uses' = [uses EXCEPT ![t] = c]
  /\ UNCHANGED <<config, opening, setup, pc, has, stores, strayed>>

\* set_config
SetPath(t, b) ==
  LET c == uses[t] IN
  /\ c # None /\ conn[c] = "fresh" /\ b \in Lands(c)
  /\ homed' = homed \cup {b} /\ conn' = [conn EXCEPT ![c] = "set"]
  /\ UNCHANGED <<config, opening, setup, pc, has, uses, stores, strayed>>

\* Mutant of CheckPath: the setting is taken to have worked.
CheckPath_Trusts(t, b) ==
  LET c == uses[t] IN
  /\ c # None /\ conn[c] = "set" /\ b \in Lands(c)
  /\ conn' = [conn EXCEPT ![c] = "busy"]
  /\ UNCHANGED <<config, opening, setup, homed, pc, has, uses, stores, strayed>>

\* current_schema: a connection that answers another one is given up.
CheckPath(t, b) ==
  LET c == uses[t] IN
  /\ c # None /\ conn[c] = "set" /\ b \in Lands(c)
  /\ IF Finds(b) = "configured"
       THEN conn' = [conn EXCEPT ![c] = "busy"] /\ UNCHANGED uses
       ELSE conn' = [conn EXCEPT ![c] = "closed"] /\ uses' = [uses EXCEPT ![t] = None]
  /\ UNCHANGED <<config, opening, setup, homed, pc, has, stores, strayed>>

\* The pooler replaces a backend.
Recycle(b) ==
  /\ pooled /\ b \in homed /\ homed' = homed \ {b}
  /\ UNCHANGED <<config, opening, setup, conn, pc, has, uses, stores, strayed>>

(***************************************************************************)
(* _setup_once, and the calls of the saver.                                *)
(***************************************************************************)

Call(b) == strayed' = (strayed \/ Finds(b) # "configured" \/ "configured" \notin tables)
Has(t, place) == pc[t] = place /\ uses[t] # None /\ conn[uses[t]] = "busy"

AskSetup(t) ==
  /\ pc[t] = "asking" /\ Goto(t, IF setupDone THEN "ready" ELSE "queueing")
  /\ UNCHANGED <<config, opening, setup, wiring, has, uses, stores, strayed>>

LockSetup(t) ==
  /\ pc[t] = "queueing" /\ setupLock = None
  /\ IF setupDone THEN Goto(t, "ready") /\ UNCHANGED setupLock
                  ELSE Goto(t, "setting") /\ setupLock' = t
  /\ UNCHANGED <<config, opening, setupDone, tables, wiring, has, uses, stores, strayed>>

\* saver.setup
MakeTables(t, b) ==
  /\ Has(t, "setting") /\ b \in Lands(uses[t])
  /\ tables' = tables \cup {Finds(b)} /\ setupDone' = TRUE /\ setupLock' = None
  /\ GiveBack(t, uses[t]) /\ Goto(t, "ready")
  /\ UNCHANGED <<config, opening, homed, has, stores, strayed>>

\* aget_tuple
Read(t, b) ==
  /\ Has(t, "ready") /\ b \in Lands(uses[t]) /\ Call(b)
  /\ GiveBack(t, uses[t]) /\ Goto(t, "running")
  /\ UNCHANGED <<config, opening, setup, homed, has, stores>>

\* Mutant of PutBlobs: in a pipeline, which is no transaction.
PutBlobs_Pipelined(t, b) ==
  /\ Has(t, "running") /\ tx[t] = "none" /\ b \in Lands(uses[t]) /\ Call(b)
  /\ tx' = [tx EXCEPT ![t] = "blobs"] /\ blobs' = [blobs EXCEPT ![t] = @ + 1]
  /\ UNCHANGED <<config, opening, setup, wiring, pc, has, uses, row>>

\* aput: a transaction, on one backend: the blobs, the row, the commit.
PutBlobs(t, b) ==
  /\ Has(t, "running") /\ tx[t] = "none" /\ b \in Lands(uses[t]) /\ Call(b)
  /\ tx' = [tx EXCEPT ![t] = "blobs"]
  /\ UNCHANGED <<config, opening, setup, wiring, pc, has, uses, blobs, row>>

PutRow(t) ==
  /\ pc[t] = "running" /\ tx[t] = "blobs" /\ tx' = [tx EXCEPT ![t] = "both"]
  /\ UNCHANGED <<config, opening, setup, wiring, pc, has, uses, blobs, row, strayed>>

Commit(t) ==
  /\ pc[t] = "running" /\ tx[t] = "both" /\ tx' = [tx EXCEPT ![t] = "none"]
  /\ row' = [row EXCEPT ![t] = @ + 1] /\ blobs' = [blobs EXCEPT ![t] = row[t] + 1]
  /\ GiveBack(t, uses[t]) /\ Goto(t, "idle")
  /\ UNCHANGED <<config, opening, setup, homed, has, strayed>>

\* The turn ends here: no connection came in time, a statement failed, or it was
\* cancelled.  Its transaction is rolled back and its connection thrown away.
Fail(t) ==
  /\ pc[t] \in {"locking", "asking", "queueing", "setting", "ready", "running"}
  /\ Goto(t, "idle") /\ tx' = [tx EXCEPT ![t] = "none"]
  /\ setupLock' = IF setupLock = t THEN None ELSE setupLock
  /\ uses' = [uses EXCEPT ![t] = None]
  /\ conn' = [c \in Wires |-> IF c = uses[t] THEN "closed" ELSE conn[c]]
  /\ UNCHANGED <<config, opening, setupDone, tables, homed, has, blobs, row, strayed>>

\* The process stops, and another takes its place.
Restart ==
  /\ pool' = [i \in Pools |-> "new"]
  /\ registered' = None /\ poolLock' = None /\ leaving' = None
  /\ setupLock' = None /\ setupDone' = FALSE
  /\ conn' = [c \in Wires |-> "closed"]
  /\ pc' = [t \in Turns |-> "idle"] /\ has' = [t \in Turns |-> None]
  /\ uses' = [t \in Turns |-> None] /\ tx' = [t \in Turns |-> "none"]
  /\ UNCHANGED <<config, tables, homed, blobs, row, strayed>>

Next ==
  \/ Unregister \/ ClosePool \/ Restart
  \/ \E t \in Turns :
       \/ AskPool(t) \/ LockPool(t) \/ AskSetup(t) \/ LockSetup(t)
       \/ PutRow(t) \/ Commit(t) \/ Fail(t)
       \/ \E works \in BOOLEAN : OpenPool(t, works)
       \/ \E c \in Wires : \/ Borrow(t, c) \/ SetPath(t, c) \/ CheckPath(t, c)
                           \/ MakeTables(t, c) \/ Read(t, c) \/ PutBlobs(t, c)
  \/ \E b \in Wires : Recycle(b)

Spec == Init /\ [][Next]_poolVars

(***************************************************************************)
(* Properties.                                                             *)
(***************************************************************************)

\* Every call of the saver finds the configured schema, and in it the tables, however
\* turns and restarts interleave; behind a transaction pooler only if the role has the
\* schema for its default (_configure_checkpoint_connection, _setup_once).
AtHome == ~pooled \/ roleHome => ~strayed

\* A session's latest checkpoint has its blobs and its row, both or neither, wherever
\* a turn is cut short (supports_pipeline in _checkpoint_saver).
Whole == \A t \in Turns : blobs[t] = row[t]

\* One pool is open at a time, but for one that the lifespan is closing
\* (_checkpoint_pool, aclose_checkpoint_pools).
OnePool == Cardinality({i \in Pools : pool[i] = "open" /\ i # leaving}) <= 1

\* One pool, all of whose connections write where the tables are.
OneHome == AtHome /\ OnePool
=============================================================================
