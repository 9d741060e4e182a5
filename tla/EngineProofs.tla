----------------------------- MODULE EngineProofs -----------------------------
(***************************************************************************)
(* What a turn runs on and what it says, proved for any number of calls,   *)
(* turns, pools and connections: that the calls of a turn survive a bad    *)
(* connection, for any times with RunLimit + Fresh <= Ttl (Handles); that  *)
(* checkpoints are written whole, where the tables are, through one pool   *)
(* (Checkpoints, here K); that a call comes out as the client said of that *)
(* very call, that a session that is parked can be answered, and that the  *)
(* log tells the transcript (Turns, here T).                               *)
(***************************************************************************)
EXTENDS MCEngine, FiniteSetTheorems, SequenceTheorems, WellFoundedInduction, TLAPS

(***************************************************************************)
(* The container handle.                                                   *)
(***************************************************************************)

\* The time that is left, from what the handle and each call remember of it.
TimeLeft ==
  /\ age < Fresh => left + age >= Ttl
  /\ \A c \in Callers :
       /\ pc[c] = "sending" => left + Fresh > Ttl
       /\ pc[c] = "inside" /\ kind[c] # "backend" =>
            left + elapsed[c] + Fresh > Ttl /\ elapsed[c] <= RunLimit

\* A call that is not inside has not begun, unless it is over or is repeated.
Begun ==
  \A c \in Callers :
    /\ pc[c] \in {"keeping", "opening", "unheld", "sending"} => elapsed[c] = 0
    /\ kind[c] = "command" =>
         /\ pc[c] \in {"keeping", "opening", "unheld", "sending", "again"} => reached[c] = 0
         /\ reached[c] <= 1

\* Connections are numbered in the order they are opened, so that none comes back.
Numbered ==
  /\ native <= opened
  /\ \A c \in Callers :
       /\ pc[c] \in {"sending", "inside"} => conn[c] \in 1..opened
       /\ pc[c] # "idle" /\ attempt[c] = 2 => failed[c] \in 1..opened /\ failed[c] # native
       /\ pc[c] = "sending" /\ attempt[c] = 2 => conn[c] # failed[c]

\* The inductive invariant.
IInv == TypeOK /\ TimeLeft /\ Begun /\ Numbered

USE HandlesAssumption

\* The invariant holds at first ...
LEMMA InitInv == Init => IInv
  BY DEF Init, IInv, TypeOK, TimeLeft, Begun, Numbered, Kinds

\* ... every step keeps it ...
LEMMA StepInv == IInv /\ [Next]_handleVars => IInv'
<1> SUFFICES ASSUME IInv, [Next]_handleVars PROVE IInv'
  OBVIOUS
<1> USE DEF IInv, handle, network, progress
<1>a. ASSUME NEW c \in Callers, Again(c), pc[c] \in {"sending", "inside"},
             kind[c] = "command" => reached[c] = 0
      PROVE  IInv'
  <2>1. TypeOK'
    BY <1>a DEF Again, Drop, TypeOK
  <2>2. TimeLeft'
    BY <1>a DEF Again, Drop, TypeOK, TimeLeft
  <2>3. Begun'
    BY <1>a DEF Again, Drop, TypeOK, Begun
  <2>4. Numbered'
    BY <1>a DEF Again, Drop, TypeOK, Numbered
  <2> QED
    BY <2>1, <2>2, <2>3, <2>4
<1>b. ASSUME NEW c \in Callers, GiveUp(c) PROVE IInv'
  BY <1>b DEF GiveUp, TypeOK, TimeLeft, Begun, Numbered
<1>1. ASSUME NEW c \in Callers, NEW k \in Kinds, Call(c, k) PROVE IInv'
  BY <1>1 DEF Call, Ensure, Trusted, Use, TypeOK, TimeLeft, Begun, Numbered
<1>2. ASSUME NEW c \in Callers, Keep(c) PROVE IInv'
  BY <1>2 DEF Keep, Use, TypeOK, TimeLeft, Begun, Numbered
<1>3. ASSUME NEW c \in Callers, KeepFails(c) PROVE IInv'
  BY <1>3 DEF KeepFails, TypeOK, TimeLeft, Begun, Numbered
<1>4. ASSUME NEW c \in Callers, Open(c) PROVE IInv'
  BY <1>4 DEF Open, Use, TypeOK, TimeLeft, Begun, Numbered
<1>5. ASSUME NEW c \in Callers, NEW t \in BOOLEAN, OpenFails(c, t) PROVE IInv'
  BY <1>5 DEF OpenFails, TypeOK, TimeLeft, Begun, Numbered
<1>6. ASSUME NEW c \in Callers, Unheld(c) PROVE IInv'
  BY <1>6 DEF Unheld, TypeOK, TimeLeft, Begun, Numbered
<1>7. ASSUME NEW c \in Callers, Arrive(c) PROVE IInv'
  BY <1>7 DEF Arrive, TypeOK, TimeLeft, Begun, Numbered
<1>8. ASSUME NEW c \in Callers, Finish(c) PROVE IInv'
  BY <1>8 DEF Finish, TypeOK, TimeLeft, Begun, Numbered
<1>9. ASSUME NEW c \in Callers, NotSent(c) PROVE IInv'
  BY <1>9, <1>a, <1>b DEF NotSent, Begun
<1>10. ASSUME NEW c \in Callers, Lost(c) PROVE IInv'
  BY <1>10, <1>a, <1>b DEF Lost, Retried
<1>11. ASSUME NEW c \in Callers, Resume(c) PROVE IInv'
  BY <1>11 DEF Resume, Ensure, Trusted, Use, TypeOK, TimeLeft, Begun, Numbered
<1>12. CASE Tick
  BY <1>12 DEF Tick, Limit, TypeOK, TimeLeft, Begun, Numbered
<1>13. ASSUME NEW n \in 1..MaxConnections, Close(n) PROVE IInv'
  BY <1>13 DEF Close, TypeOK, TimeLeft, Begun, Numbered
<1>14. CASE UNCHANGED handleVars
  BY <1>14 DEF handleVars, TypeOK, TimeLeft, Begun, Numbered
<1> QED
  BY <1>1, <1>2, <1>3, <1>4, <1>5, <1>6, <1>7, <1>8, <1>9, <1>10, <1>11, <1>12, <1>13, <1>14
  DEF Next, Caller

\* ... and it is enough.
LEMMA InvImplies == IInv => CallsSurvive
  BY DEF IInv, TypeOK, TimeLeft, Begun, Numbered, CallsSurvive, AwakeUnderIt, ReachesOnce,
         RetriesElsewhere

\* A handle that is not always checked is safe to call on: a command of run() is
\* repeated only when that is harmless, on another connection, and the container
\* does not pause under it.
THEOREM HandlesSurvive == HandleSpec => []CallsSurvive
<1>1. HandleSpec => []IInv
  BY InitInv, StepInv, PTL DEF HandleSpec
<1> QED
  BY <1>1, InvImplies, PTL

HIDE HandlesAssumption

(***************************************************************************)
(* The checkpoints.                                                        *)
(***************************************************************************)


WireTyped ==
  /\ pooled \in BOOLEAN /\ roleHome \in BOOLEAN /\ exists \in BOOLEAN /\ strayed \in BOOLEAN
  /\ DOMAIN wire = K!Wires /\ DOMAIN step = Sessions /\ DOMAIN pool = Pools
  /\ DOMAIN uses = Sessions /\ DOMAIN tx = Sessions
  /\ \A t \in Sessions : uses[t] \in K!Wires \cup {None}

\* A connection that passed its check lands in the configured schema from then on,
\* unless a pooler that knows of no default moves it.
WireChecked ==
  \A c \in K!Wires : wire[c] \in {"busy", "idle"} =>
    exists /\ (roleHome \/ (~pooled => c \in homed))

\* A connection has one user, and a transaction keeps the one it began on.
WireHeld ==
  /\ \A t \in Sessions : uses[t] # None => wire[uses[t]] \in {"fresh", "set", "busy"}
  /\ \A t, u \in Sessions : uses[t] # None /\ uses[t] = uses[u] => t = u
  /\ \A t \in Sessions : tx[t] # "none" =>
       uses[t] # None /\ wire[uses[t]] = "busy" /\ step[t] = "running"

\* Who is past the setup finds the tables.
Founded ==
  /\ \A t \in Sessions : step[t] \in {"ready", "running"} => setupDone
  /\ setupDone /\ (~pooled \/ roleHome) => "configured" \in tables

\* A pool that is open is the registered one, and none is while one is being opened.
Single ==
  /\ \A i \in Pools : pool[i] = "open" /\ i # leaving => i = registered
  /\ \A t \in Sessions : step[t] = "opening" => poolLock = t
  /\ poolLock # None => registered = None

\* The inductive invariant.
HInv == WireTyped /\ WireChecked /\ WireHeld /\ Founded /\ Single /\ K!AtHome

\* The invariant holds at first ...
LEMMA InitHome == K!Init => HInv
<1> SUFFICES ASSUME K!Init PROVE HInv
  OBVIOUS
<1>1. WireTyped
  BY DEF K!Init, WireTyped
<1>2. WireChecked /\ WireHeld
  BY DEF K!Init, WireChecked, WireHeld
<1>3. Founded /\ Single /\ K!AtHome
  BY DEF K!Init, Founded, Single, K!AtHome
<1> QED
  BY <1>1, <1>2, <1>3 DEF HInv

\* Where a call lands.
LEMMA WireLanding ==
  ASSUME HInv, NEW t \in Sessions, NEW to, K!Has(t, to), NEW b \in K!Lands(uses[t]), ~pooled \/ roleHome
  PROVE  K!Finds(b) = "configured"
  BY DEF HInv, WireTyped, WireChecked, K!Has, K!Lands, K!Finds

\* Every step keeps it.
LEMMA HomeStep == K!PoolAssumption /\ HInv /\ [K!Next]_(K!poolVars) => HInv'
<1> SUFFICES ASSUME K!PoolAssumption, HInv, [K!Next]_(K!poolVars) PROVE HInv'
  OBVIOUS
<1> USE DEF HInv, K!config, K!opening, K!setup, K!wiring, K!stores, K!Goto, K!Given, K!PoolAssumption
<1>1. CASE K!Unregister
  BY <1>1 DEF K!Unregister, WireTyped, WireChecked, WireHeld, Founded, Single, K!AtHome
<1>2. CASE K!ClosePool
  BY <1>2 DEF K!ClosePool, WireTyped, WireChecked, WireHeld, Founded, Single, K!AtHome
<1>3. CASE K!Restart
  BY <1>3 DEF K!Restart, WireTyped, WireChecked, WireHeld, Founded, Single, K!AtHome
<1>4. ASSUME NEW t \in Sessions, K!AskPool(t) PROVE HInv'
  BY <1>4 DEF K!AskPool, WireTyped, WireChecked, WireHeld, Founded, Single, K!AtHome
<1>5. ASSUME NEW t \in Sessions, K!LockPool(t) PROVE HInv'
  BY <1>5 DEF K!LockPool, WireTyped, WireChecked, WireHeld, Founded, Single, K!AtHome
<1>6. ASSUME NEW t \in Sessions, NEW works \in BOOLEAN, K!OpenPool(t, works) PROVE HInv'
  BY <1>6 DEF K!OpenPool, WireTyped, WireChecked, WireHeld, Founded, Single, K!AtHome
<1>7. ASSUME NEW t \in Sessions, K!AskSetup(t) \/ K!LockSetup(t) PROVE HInv'
  BY <1>7 DEF K!AskSetup, K!LockSetup, WireTyped, WireChecked, WireHeld, Founded, Single, K!AtHome
<1>8. ASSUME NEW t \in Sessions, K!PutRow(t) \/ K!Commit(t) \/ K!Fail(t) PROVE HInv'
  <2>1. WireTyped'
    BY <1>8 DEF K!PutRow, K!Commit, K!Fail, K!GiveBack, WireTyped
  <2>2. WireChecked'
    <3>1. CASE K!PutRow(t)
      BY <3>1 DEF K!PutRow, WireChecked
    <3>2. CASE K!Commit(t)
      BY <3>2 DEF K!Commit, K!GiveBack, WireTyped, WireChecked, WireHeld
    <3>3. CASE K!Fail(t)
      BY <3>3 DEF K!Fail, WireChecked
    <3> QED
      BY <1>8, <3>1, <3>2, <3>3
  <2>3. WireHeld'
    <3>1. CASE K!PutRow(t)
      BY <3>1 DEF K!PutRow, WireTyped, WireHeld
    <3>2. CASE K!Commit(t)
      <4>1. uses[t] \in K!Wires /\ \A u \in Sessions \ {t} : uses[u] # uses[t]
        BY <3>2 DEF K!Commit, WireTyped, WireHeld
      <4>2. /\ uses' = [uses EXCEPT ![t] = None] /\ tx' = [tx EXCEPT ![t] = "none"]
            /\ step' = [step EXCEPT ![t] = "idle"]
            /\ \A c \in K!Wires \ {uses[t]} : wire'[c] = wire[c]
        BY <3>2 DEF K!Commit, K!GiveBack, WireTyped
      <4>3. \A u \in Sessions \ {t} : uses'[u] = uses[u] /\ step'[u] = step[u] /\ (tx'[u] = tx[u])
        BY <4>2 DEF WireTyped
      <4>4. uses'[t] = None /\ tx'[t] = "none"
        BY <4>2 DEF WireTyped
      <4> QED
        BY <4>1, <4>2, <4>3, <4>4 DEF WireTyped, WireHeld
    <3>3. CASE K!Fail(t)
      <4>1. uses[t] # None => \A u \in Sessions \ {t} : uses[u] # uses[t]
        BY DEF WireHeld
      <4>2. /\ uses' = [uses EXCEPT ![t] = None] /\ tx' = [tx EXCEPT ![t] = "none"]
            /\ step' = [step EXCEPT ![t] = "idle"]
            /\ \A c \in K!Wires : c # uses[t] => wire'[c] = wire[c]
        BY <3>3 DEF K!Fail, WireTyped
      <4>3. \A u \in Sessions \ {t} : uses'[u] = uses[u] /\ step'[u] = step[u] /\ (tx'[u] = tx[u])
        BY <4>2 DEF WireTyped
      <4>4. uses'[t] = None /\ tx'[t] = "none"
        BY <4>2 DEF WireTyped
      <4> QED
        BY <4>1, <4>2, <4>3, <4>4 DEF WireTyped, WireHeld
    <3> QED
      BY <1>8, <3>1, <3>2, <3>3
  <2> QED
    BY <1>8, <2>1, <2>2, <2>3 DEF K!PutRow, K!Commit, K!Fail, K!GiveBack, WireTyped, Founded, Single, K!AtHome
<1>9. ASSUME NEW t \in Sessions, NEW c \in K!Wires, K!Borrow(t, c) PROVE HInv'
  <2>1. WireTyped'
    BY <1>9 DEF K!Borrow, WireTyped
  <2>2. WireChecked'
    BY <1>9 DEF K!Borrow, WireTyped, WireChecked
  <2>3. WireHeld'
    BY <1>9 DEF K!Borrow, K!Wants, WireTyped, WireHeld
  <2> QED
    BY <1>9, <2>1, <2>2, <2>3 DEF K!Borrow, Founded, Single, K!AtHome
<1>10. ASSUME NEW t \in Sessions, NEW b \in K!Wires, K!SetPath(t, b) PROVE HInv'
  <2>1. WireTyped'
    BY <1>10 DEF K!SetPath, WireTyped
  <2>2. WireChecked'
    BY <1>10 DEF K!SetPath, WireTyped, WireChecked
  <2>3. WireHeld'
    BY <1>10 DEF K!SetPath, WireTyped, WireHeld
  <2> QED
    BY <1>10, <2>1, <2>2, <2>3 DEF K!SetPath, Founded, Single, K!AtHome
<1>11. ASSUME NEW t \in Sessions, NEW b \in K!Wires, K!CheckPath(t, b) PROVE HInv'
  <2>1. WireTyped'
    BY <1>11 DEF K!CheckPath, WireTyped
  <2>2. WireChecked'
    BY <1>11 DEF K!CheckPath, WireTyped, WireChecked, K!Finds, K!Lands
  <2>3. WireHeld'
    BY <1>11 DEF K!CheckPath, WireTyped, WireHeld
  <2> QED
    BY <1>11, <2>1, <2>2, <2>3 DEF K!CheckPath, Founded, Single, K!AtHome
<1>12. ASSUME NEW t \in Sessions, NEW b \in K!Wires, K!MakeTables(t, b) PROVE HInv'
  <2>1. WireTyped'
    BY <1>12 DEF K!MakeTables, K!GiveBack, WireTyped
  <2>2. WireChecked'
    BY <1>12 DEF K!MakeTables, K!GiveBack, K!Has, WireTyped, WireChecked
  <2>3. ~pooled \/ roleHome => "configured" \in tables'
    BY <1>12, WireLanding DEF K!MakeTables
  <2>4. Founded'
    BY <1>12, <2>3 DEF K!MakeTables, K!GiveBack, WireTyped, Founded
  <2>5. Single' /\ K!AtHome'
    BY <1>12 DEF K!MakeTables, K!GiveBack, WireTyped, Single, K!AtHome, K!Has
  <2>6. WireHeld'
    BY <1>12 DEF K!MakeTables, K!GiveBack, K!Has, WireTyped, WireHeld
  <2> QED
    BY <2>1, <2>2, <2>4, <2>5, <2>6
<1>13. ASSUME NEW t \in Sessions, NEW b \in K!Wires, K!Read(t, b) \/ K!PutBlobs(t, b) PROVE HInv'
  <2>1. WireTyped'
    BY <1>13 DEF K!Read, K!PutBlobs, K!GiveBack, K!Call, WireTyped
  <2>2. WireChecked'
    BY <1>13 DEF K!Read, K!PutBlobs, K!GiveBack, K!Has, WireTyped, WireChecked
  <2>3. Founded' /\ Single'
    BY <1>13 DEF K!Read, K!PutBlobs, K!GiveBack, K!Has, WireTyped, Founded, Single
  <2>4. ~pooled \/ roleHome => K!Finds(b) = "configured" /\ "configured" \in tables
    BY <1>13, WireLanding DEF K!Read, K!PutBlobs, K!Has, Founded
  <2>5. K!AtHome'
    BY <1>13, <2>4 DEF K!Read, K!PutBlobs, K!Call, K!AtHome, WireTyped
  <2>6. WireHeld'
    <3>1. CASE K!Read(t, b)
      BY <3>1 DEF K!Read, K!GiveBack, K!Has, WireTyped, WireHeld
    <3>2. CASE K!PutBlobs(t, b)
      BY <3>2 DEF K!PutBlobs, K!Has, WireTyped, WireHeld
    <3> QED
      BY <1>13, <3>1, <3>2
  <2> QED
    BY <2>1, <2>2, <2>3, <2>5, <2>6
<1>a. ASSUME NEW b \in K!Wires, K!Recycle(b) PROVE HInv'
  <2>1. WireTyped'
    BY <1>a DEF K!Recycle, WireTyped
  <2>2. WireChecked'
    BY <1>a DEF K!Recycle, WireTyped, WireChecked
  <2>3. WireHeld'
    BY <1>a DEF K!Recycle, WireHeld
  <2> QED
    BY <1>a, <2>1, <2>2, <2>3 DEF K!Recycle, Founded, Single, K!AtHome
<1>14. CASE UNCHANGED K!poolVars
  BY <1>14 DEF K!poolVars, WireTyped, WireChecked, WireHeld, Founded, Single, K!AtHome
<1> QED
  BY <1>1, <1>2, <1>3, <1>4, <1>5, <1>6, <1>7, <1>8, <1>9, <1>10, <1>11, <1>12, <1>13,
     <1>14, <1>a
  DEF K!Next

\* A pool that is registered is the only one that is open.
LEMMA OneIsOpen == HInv => K!OnePool
<1> SUFFICES ASSUME HInv PROVE K!OnePool
  OBVIOUS
<1> DEFINE apart == {i \in Pools : pool[i] = "open" /\ i # leaving}
<1>1. apart \subseteq {registered}
  BY DEF HInv, Single
<1>2. IsFiniteSet({registered}) /\ Cardinality({registered}) = 1
  BY FS_Singleton
<1>3. Cardinality(apart) <= Cardinality({registered})
  BY <1>1, <1>2, FS_Subset
<1> QED
  BY <1>2, <1>3 DEF K!OnePool, K!Cardinality, Cardinality

\* However turns, failures, restarts and the end of the lifespan interleave, calls find the
\* configured schema and its tables, and no second pool is open.
THEOREM HomeKept == K!Spec => []OneHome
<1>1. HInv => OneHome
  BY OneIsOpen DEF HInv, OneHome, K!OneHome
<1> QED
  BY CheckpointsAssumption, InitHome, HomeStep, <1>1, PTL DEF K!Spec

\* The same of the blobs and rows alone: what a transaction has not committed is in neither.
StoresWhole == DOMAIN blobs = Sessions /\ DOMAIN row = Sessions /\ K!Whole

\* Every step keeps what the stores hold in one piece.
LEMMA WholeStep == StoresWhole /\ [K!Next]_(K!poolVars) => StoresWhole'
<1> SUFFICES ASSUME StoresWhole, [K!Next]_(K!poolVars) PROVE StoresWhole'
  OBVIOUS
<1>1. ASSUME NEW t \in Sessions, K!Commit(t) PROVE StoresWhole'
  <2>1. blobs[t] = row[t]
    BY DEF StoresWhole, K!Whole
  <2> QED
    BY <1>1, <2>1 DEF K!Commit, StoresWhole, K!Whole
<1>2. ASSUME NEW t \in Sessions, NEW c \in K!Wires,
             K!PutBlobs(t, c) \/ K!Read(t, c) \/ K!MakeTables(t, c)
      PROVE  UNCHANGED <<blobs, row>>
  BY <1>2 DEF K!PutBlobs, K!Read, K!MakeTables, K!stores
<1>3. ASSUME NEW t \in Sessions, NEW c \in K!Wires,
             K!Borrow(t, c) \/ K!SetPath(t, c) \/ K!CheckPath(t, c)
      PROVE  UNCHANGED <<blobs, row>>
  BY <1>3 DEF K!Borrow, K!SetPath, K!CheckPath, K!stores
<1>4. ASSUME NEW t \in Sessions,
             \/ K!AskPool(t) \/ K!LockPool(t) \/ K!AskSetup(t) \/ K!LockSetup(t)
             \/ K!PutRow(t) \/ K!Fail(t) \/ \E works \in BOOLEAN : K!OpenPool(t, works)
      PROVE  UNCHANGED <<blobs, row>>
  BY <1>4 DEF K!AskPool, K!LockPool, K!AskSetup, K!LockSetup, K!PutRow, K!Fail, K!OpenPool, K!stores
<1>5. CASE K!Unregister \/ K!ClosePool \/ K!Restart \/ (\E b \in K!Wires : K!Recycle(b))
  <2>1. UNCHANGED <<blobs, row>>
    BY <1>5 DEF K!Unregister, K!ClosePool, K!Restart, K!Recycle, K!stores
  <2> QED
    BY <2>1 DEF StoresWhole, K!Whole
<1>6. CASE UNCHANGED K!poolVars
  BY <1>6 DEF K!poolVars, K!stores, StoresWhole, K!Whole
<1>7. UNCHANGED <<blobs, row>> => StoresWhole'
  BY DEF StoresWhole, K!Whole
<1> QED
  BY <1>1, <1>2, <1>3, <1>4, <1>5, <1>6, <1>7 DEF K!Next

\* A session's checkpoint has its blobs and its row, both or neither, wherever a turn is
\* cut short (supports_pipeline in _checkpoint_saver).
THEOREM CheckpointsWhole == K!Spec => []Whole
<1>1. K!Init => StoresWhole
  BY DEF K!Init, StoresWhole, K!Whole
<1>2. StoresWhole => Whole
  BY DEF StoresWhole, Whole
<1> QED
  BY <1>1, <1>2, WholeStep, PTL DEF K!Spec

(***************************************************************************)
(* The turns of a session.  The snapshots, the patch and the results are   *)
(* lists put together from lists (FlattenSeq, here T!FlattenSeq), whose    *)
(* definition picks a recursive function.  What it does is reached without *)
(* induction: a set of numbers that is not empty has a least element, so   *)
(* that what holds at 0 and is handed on holds throughout.                 *)
(***************************************************************************)

\* A set of natural numbers that is not empty has a least element.
LEMMA LeastExists ==
  ASSUME NEW X \in SUBSET Nat, X # {}
  PROVE  \E n \in X : \A m \in X : n <= m
<1>1. IsWellFoundedOn(OpToRel(<, Nat), Nat)
  BY NatLessThanWellFounded
<1>2. PICK n \in X : \A m \in X : ~(<<m, n>> \in OpToRel(<, Nat))
  BY <1>1, WFMin
<1>3. \A m \in X : ~(m < n)
  BY <1>2 DEF OpToRel
<1> QED
  BY <1>3

\* What holds at 0 and is handed on holds up to n.
LEMMA Climb ==
  ASSUME NEW n \in Nat, NEW X, 0 \in X, \A i \in 0..(n - 1) : i \in X => i + 1 \in X
  PROVE  \A i \in 0..n : i \in X
<1> DEFINE Y == {i \in 0..n : i \notin X}
<1> SUFFICES ASSUME Y # {} PROVE FALSE
  OBVIOUS
<1>1. Y \in SUBSET Nat
  OBVIOUS
<1>2. PICK m \in Y : \A l \in Y : m <= l
  BY <1>1, LeastExists
<1>3. m \in 0..n /\ m \notin X /\ m # 0
  BY <1>2
<1>4. m - 1 \in 0..(n - 1) /\ m - 1 \in 0..n /\ ~(m <= m - 1) /\ (m - 1) + 1 = m
  BY <1>3
<1>5. m - 1 \in X
  BY <1>2, <1>4
<1> QED
  BY <1>3, <1>4, <1>5

\* Facts about numbers.
LEMMA Below ==
  \A n \in Nat : \A l \in 0..(n - 1) :
    l \in Nat /\ l \in 0..n /\ l + 1 \in 0..n /\ l + 1 \in 1..n /\ (l + 1) - 1 = l /\ (l + 1 = 1 <=> l = 0)
  OBVIOUS

LEMMA OneMore == \A l \in Nat : 1..(l + 1) = 1..l \cup {l + 1}
  OBVIOUS

LEMMA NoShorter == \A l, a, b \in Nat : l <= a /\ 1 <= b => l + 1 <= a + b
  OBVIOUS

LEMMA Further ==
  \A n, k \in Nat : \A i \in 1..k : n + i \in (n + 1)..(n + k)
  OBVIOUS

\* FlattenSeq, item by item: f[n] is the first n of the lists, one after the other.
Steps(ss, f, n) ==
  f[0] = << >> /\ \A i \in 1..n : f[i] = f[i - 1] \o ss[i]

\* There is such a function, for lists of lists of any length ...
LEMMA StepsExist ==
  ASSUME NEW S, NEW ss \in Seq(Seq(S))
  PROVE  \E f \in [0..Len(ss) -> Seq(S)] : Steps(ss, f, Len(ss))
<1> DEFINE X == {m \in 0..Len(ss) : \E f \in [0..m -> Seq(S)] : Steps(ss, f, m)}
<1>1. Len(ss) \in Nat /\ \A i \in 1..Len(ss) : ss[i] \in Seq(S)
  OBVIOUS
<1>2. 0 \in X
  <2> DEFINE f0 == [i \in 0..0 |-> << >>]
  <2>1. f0 \in [0..0 -> Seq(S)] /\ Steps(ss, f0, 0)
    BY DEF Steps
  <2> HIDE DEF f0
  <2>2. \E f \in [0..0 -> Seq(S)] : Steps(ss, f, 0)
    BY <2>1
  <2> QED
    BY <1>1, <2>2
<1>3. ASSUME NEW l \in 0..(Len(ss) - 1), l \in X PROVE l + 1 \in X
  <2>1. PICK f \in [0..l -> Seq(S)] : Steps(ss, f, l)
    BY <1>3
  <2> DEFINE m == l + 1
             g == [i \in 0..m |-> IF i = m THEN f[l] \o ss[m] ELSE f[i]]
  <2>2. m \in 1..Len(ss) /\ l \in 0..l /\ l = m - 1 /\ l \in Nat /\ m \in 0..Len(ss)
    BY <1>1
  <2>3. f[l] \o ss[m] \in Seq(S)
    BY <1>1, <2>1, <2>2
  <2>4. \A i \in 0..m : g[i] \in Seq(S)
    BY <2>1, <2>2, <2>3
  <2>5. g \in [0..m -> Seq(S)]
    BY <2>4
  <2>6. m \in 0..m /\ \A i \in 0..l : i \in 0..m /\ i # m
    BY <2>2
  <2>7. (\A i \in 0..l : g[i] = f[i]) /\ g[m] = f[l] \o ss[m]
    <3> HIDE DEF m
    <3> QED
      BY <2>6
  <2> HIDE DEF g
  <2>8. \A i \in 1..m : g[i] = g[i - 1] \o ss[i]
    <3>1. SUFFICES ASSUME NEW i \in 1..m PROVE g[i] = g[i - 1] \o ss[i]
      OBVIOUS
    <3>2. CASE i = m
      BY <2>2, <2>7, <3>2
    <3>3. CASE i # m
      <4>1. i \in 1..l /\ i \in 0..l /\ i - 1 \in 0..l
        BY <2>2, <3>3
      <4> QED
        BY <2>1, <2>7, <4>1 DEF Steps
    <3> QED
      BY <3>2, <3>3
  <2>9. g[0] = << >>
    <3>1. f[0] = << >>
      BY <2>1 DEF Steps
    <3>2. 0 \in 0..l
      BY <2>2
    <3> QED
      BY <2>7, <3>1, <3>2
  <2>10. Steps(ss, g, m)
    BY <2>8, <2>9 DEF Steps
  <2> QED
    BY <2>2, <2>5, <2>10
<1>4. \A i \in 0..Len(ss) : i \in X
  <2> HIDE DEF X
  <2> QED
    BY <1>1, <1>2, <1>3, Climb
<1> QED
  BY <1>1, <1>4

\* ... and what FlattenSeq picks is its last value.
LEMMA FlattenIs ==
  ASSUME NEW S, NEW ss \in Seq(Seq(S))
  PROVE  \E f \in [0..Len(ss) -> Seq(S)] :
           Steps(ss, f, Len(ss)) /\ T!FlattenSeq(ss) = f[Len(ss)]
<1>1. Len(ss) \in Nat /\ \A i \in 1..Len(ss) : ss[i] \in Seq(S)
  OBVIOUS
<1>2. PICK f \in [0..Len(ss) -> Seq(S)] : Steps(ss, f, Len(ss))
  BY StepsExist
<1>3. CASE Len(ss) = 0
  BY <1>2, <1>3 DEF T!FlattenSeq, Steps
<1>4. CASE Len(ss) # 0
  <2> DEFINE rec(h) == h = [i \in 1..Len(ss) |-> IF i = 1 THEN ss[i] ELSE h[i - 1] \o ss[i]]
             flat == CHOOSE h : rec(h)
             h0 == [i \in 1..Len(ss) |-> f[i]]
  <2>1. T!FlattenSeq(ss) = flat[Len(ss)]
    BY <1>4 DEF T!FlattenSeq
  <2>2. rec(h0)
    <3>1. SUFFICES ASSUME NEW i \in 1..Len(ss)
                   PROVE  h0[i] = IF i = 1 THEN ss[i] ELSE h0[i - 1] \o ss[i]
      OBVIOUS
    <3>1a. f[0] = << >> /\ \A j \in 1..Len(ss) : f[j] = f[j - 1] \o ss[j]
      BY <1>2 DEF Steps
    <3>4. h0[i] = f[i] /\ f[i] = f[i - 1] \o ss[i] /\ f[0] = << >> /\ ss[i] \in Seq(S)
      BY <1>1, <3>1a
    <3>2. CASE i = 1
      <4> HIDE DEF h0
      <4>0. i - 1 = 0
        BY <3>2
      <4>1. f[i] = << >> \o ss[i]
        BY <3>4, <4>0
      <4>2. f[i] = ss[i]
        BY <3>4, <4>1, ConcatEmptySeq
      <4> QED
        BY <3>2, <3>4, <4>2
    <3>3. CASE i # 1
      <4>1. h0[i - 1] = f[i - 1]
        BY <1>1, <3>3
      <4> QED
        BY <3>3, <3>4, <4>1
    <3> QED
      BY <3>2, <3>3
  <2>3. rec(flat)
    BY <2>2
  <2> DEFINE X == {m \in 0..Len(ss) : m # 0 => flat[m] = f[m]}
  <2>4. 0 \in X
    BY <1>1
  <2> HIDE DEF flat
  <2>5. ASSUME NEW l \in 0..(Len(ss) - 1), l \in X PROVE l + 1 \in X
    <3>1. l + 1 \in 1..Len(ss) /\ l + 1 \in 0..Len(ss) /\ (l + 1) - 1 = l /\ (l + 1 = 1 <=> l = 0)
      BY <1>1, Below
    <3>2. flat[l + 1] = IF l = 0 THEN ss[l + 1] ELSE flat[l] \o ss[l + 1]
      BY <2>3, <3>1
    <3>3. f[l + 1] = f[l] \o ss[l + 1] /\ f[0] = << >> /\ ss[l + 1] \in Seq(S)
      BY <1>1, <1>2, <3>1 DEF Steps
    <3>4. f[l + 1] = flat[l + 1]
      <4>1. CASE l = 0
        <5>1. f[l + 1] = << >> \o ss[l + 1]
          BY <3>3, <4>1
        <5> QED
          BY <3>2, <3>3, <4>1, <5>1, ConcatEmptySeq
      <4>2. CASE l # 0
        BY <2>5, <3>2, <3>3, <4>2
      <4> QED
        BY <4>1, <4>2
    <3> QED
      BY <3>1, <3>4
  <2>6. \A i \in 0..Len(ss) : i \in X
    <3> HIDE DEF X
    <3> QED
      BY <1>1, <2>4, <2>5, Climb
  <2>7. flat[Len(ss)] = f[Len(ss)]
    BY <1>1, <1>4, <2>6
  <2> QED
    BY <1>2, <2>1, <2>7
<1> QED
  BY <1>3, <1>4

\* What is in a list of lists, put together.
LEMMA SetOfConcat ==
  ASSUME NEW S, NEW s \in Seq(S), NEW t \in Seq(S)
  PROVE  T!ToSet(s \o t) = T!ToSet(s) \cup T!ToSet(t)
<1>1. /\ Len(s) \in Nat /\ Len(t) \in Nat /\ DOMAIN s = 1..Len(s) /\ DOMAIN t = 1..Len(t)
      /\ DOMAIN (s \o t) = 1..(Len(s) + Len(t))
      /\ \A i \in 1..Len(s) : (s \o t)[i] = s[i]
      /\ \A i \in 1..Len(t) : (s \o t)[Len(s) + i] = t[i]
  OBVIOUS
<1> DEFINE st == s \o t
<1>2. ASSUME NEW i \in DOMAIN st PROVE st[i] \in T!ToSet(s) \cup T!ToSet(t)
  <2>1. CASE i <= Len(s)
    BY <1>1, <2>1 DEF T!ToSet
  <2>2. CASE ~(i <= Len(s))
    <3>1. i - Len(s) \in 1..Len(t) /\ Len(s) + (i - Len(s)) = i
      BY <1>1, <2>2
    <3>2. st[i] = t[i - Len(s)]
      BY <1>1, <3>1
    <3> QED
      BY <1>1, <3>1, <3>2 DEF T!ToSet
  <2> QED
    BY <2>1, <2>2
<1>3. ASSUME NEW i \in DOMAIN s PROVE s[i] \in T!ToSet(st)
  BY <1>1 DEF T!ToSet
<1>4. ASSUME NEW i \in DOMAIN t PROVE t[i] \in T!ToSet(st)
  <2>1. Len(s) + i \in DOMAIN st /\ st[Len(s) + i] = t[i]
    BY <1>1
  <2> QED
    BY <2>1 DEF T!ToSet
<1> QED
  BY <1>2, <1>3, <1>4 DEF T!ToSet

\* What is in a list with one more item.
LEMMA SetOfAppend ==
  ASSUME NEW S, NEW s \in Seq(S), NEW x \in S
  PROVE  Append(s, x) \in Seq(S) /\ T!ToSet(Append(s, x)) = T!ToSet(s) \cup {x}
<1>1. \A t \in Seq(S) : T!ToSet(s \o t) = T!ToSet(s) \cup T!ToSet(t)
  BY SetOfConcat
<1>2. Append(s, x) = s \o <<x>> /\ <<x>> \in Seq(S)
  BY AppendIsConcat
<1>3. T!ToSet(<<x>>) = {x}
  BY DEF T!ToSet
<1>4. T!ToSet(s \o <<x>>) = T!ToSet(s) \cup T!ToSet(<<x>>)
  BY <1>1, <1>2
<1> QED
  BY <1>2, <1>3, <1>4, AppendProperties

\* What is in any number of lists, put together.
LEMMA SetOfFlatten ==
  ASSUME NEW S, NEW ss \in Seq(Seq(S))
  PROVE  /\ T!FlattenSeq(ss) \in Seq(S)
         /\ T!ToSet(T!FlattenSeq(ss)) = UNION {T!ToSet(ss[i]) : i \in 1..Len(ss)}
<1>1. Len(ss) \in Nat /\ \A i \in 1..Len(ss) : ss[i] \in Seq(S)
  OBVIOUS
<1>2. PICK f \in [0..Len(ss) -> Seq(S)] : Steps(ss, f, Len(ss)) /\ T!FlattenSeq(ss) = f[Len(ss)]
  BY FlattenIs
<1> DEFINE upTo(m) == UNION {T!ToSet(ss[i]) : i \in 1..m}
           X == {m \in 0..Len(ss) : T!ToSet(f[m]) = upTo(m)}
<1>3. 0 \in X
  <2>1. f[0] = << >>
    BY <1>2 DEF Steps
  <2>2. T!ToSet(f[0]) = {} /\ upTo(0) = {}
    BY <2>1 DEF T!ToSet
  <2> QED
    BY <1>1, <2>2
<1>4. ASSUME NEW l \in 0..(Len(ss) - 1), l \in X PROVE l + 1 \in X
  <2>1. l \in Nat /\ l + 1 \in 1..Len(ss) /\ l + 1 \in 0..Len(ss) /\ (l + 1) - 1 = l
    BY <1>1, Below
  <2>2. 1..(l + 1) = 1..l \cup {l + 1}
    BY <2>1, OneMore
  <2>3. f[l + 1] = f[l] \o ss[l + 1] /\ f[l] \in Seq(S) /\ ss[l + 1] \in Seq(S)
    <3>1. l \in 0..Len(ss)
      BY <1>1, Below
    <3>2. \A i \in 1..Len(ss) : f[i] = f[i - 1] \o ss[i]
      BY <1>2 DEF Steps
    <3> QED
      BY <1>1, <2>1, <3>1, <3>2
  <2>4. T!ToSet(f[l + 1]) = T!ToSet(f[l]) \cup T!ToSet(ss[l + 1])
    BY <2>3, SetOfConcat
  <2>5. upTo(l + 1) = upTo(l) \cup T!ToSet(ss[l + 1])
    BY <2>2
  <2> QED
    BY <1>4, <2>1, <2>4, <2>5
<1>5. \A i \in 0..Len(ss) : i \in X
  <2> HIDE DEF X
  <2> QED
    BY <1>1, <1>3, <1>4, Climb
<1> QED
  BY <1>1, <1>2, <1>5

\* Putting lists in order of the list they come from does not shorten it.
LEMMA FlattenGrows ==
  ASSUME NEW S, NEW ss \in Seq(Seq(S)), \A i \in 1..Len(ss) : Len(ss[i]) >= 1
  PROVE  Len(ss) <= Len(T!FlattenSeq(ss))
<1>1. Len(ss) \in Nat /\ \A i \in 1..Len(ss) : ss[i] \in Seq(S)
  OBVIOUS
<1>2. PICK f \in [0..Len(ss) -> Seq(S)] : Steps(ss, f, Len(ss)) /\ T!FlattenSeq(ss) = f[Len(ss)]
  BY FlattenIs
<1> DEFINE X == {m \in 0..Len(ss) : m <= Len(f[m])}
<1>3. 0 \in X
  BY <1>1, <1>2 DEF Steps
<1>4. ASSUME NEW l \in 0..(Len(ss) - 1), l \in X PROVE l + 1 \in X
  <2>1. l + 1 \in 1..Len(ss) /\ l \in 0..Len(ss) /\ l + 1 \in 0..Len(ss) /\ (l + 1) - 1 = l
    BY <1>1, Below
  <2>2. \A i \in 1..Len(ss) : f[i] = f[i - 1] \o ss[i]
    BY <1>2 DEF Steps
  <2>3. f[l + 1] = f[l] \o ss[l + 1] /\ f[l] \in Seq(S) /\ ss[l + 1] \in Seq(S)
    BY <1>1, <2>1, <2>2
  <2>4. Len(f[l + 1]) = Len(f[l]) + Len(ss[l + 1]) /\ Len(f[l]) \in Nat /\ Len(ss[l + 1]) \in Nat
    BY <2>3
  <2>5. l <= Len(f[l]) /\ Len(ss[l + 1]) >= 1 /\ l \in Nat
    BY <1>4, <2>1
  <2>6. l + 1 <= Len(f[l + 1])
    <3>1. l + 1 <= Len(f[l]) + Len(ss[l + 1])
      BY <2>4, <2>5, NoShorter
    <3> QED
      BY <2>4, <3>1
  <2> QED
    BY <2>1, <2>6
<1>5. Len(ss) \in X
  <2> HIDE DEF X
  <2>1. \A i \in 0..Len(ss) : i \in X
    BY <1>1, <1>3, <1>4, Climb
  <2> QED
    BY <1>1, <2>1
<1> QED
  BY <1>2, <1>5

\* Some of the items of a list.
LEMMA OnlyIs ==
  ASSUME NEW S, NEW s \in Seq(S), NEW at
  PROVE  /\ T!Only(s, at) \in Seq(S)
         /\ T!ToSet(T!Only(s, at)) = {s[i] : i \in at \cap (1..Len(s))}
         /\ Len(T!Only(s, at)) <= Len(s)
         /\ Len(T!Only(s, at)) = Len(s) => T!Only(s, at) = s
<1> DEFINE ss == [i \in DOMAIN s |-> IF i \in at THEN <<s[i]>> ELSE << >>]
<1>1. /\ Len(s) \in Nat /\ DOMAIN s = 1..Len(s) /\ ss \in Seq(Seq(S)) /\ Len(ss) = Len(s)
      /\ \A i \in 1..Len(s) : s[i] \in S /\ ss[i] = IF i \in at THEN <<s[i]>> ELSE << >>
  <2>1. Len(s) \in Nat /\ DOMAIN s = 1..Len(s) /\ \A i \in 1..Len(s) : s[i] \in S
    OBVIOUS
  <2>2. \A i \in 1..Len(s) : (IF i \in at THEN <<s[i]>> ELSE << >>) \in Seq(S)
    BY <2>1
  <2> HIDE DEF ss
  <2>3. DOMAIN ss = 1..Len(s) /\ \A i \in 1..Len(s) : ss[i] = IF i \in at THEN <<s[i]>> ELSE << >>
    BY <2>1 DEF ss
  <2>4. ss \in [1..Len(s) -> Seq(S)]
    BY <2>1, <2>2 DEF ss
  <2> QED
    BY <2>1, <2>3, <2>4, IsASeq, LenProperties
<1>2. T!Only(s, at) = T!FlattenSeq(ss)
  BY DEF T!Only
<1> HIDE DEF ss
<1>3. T!Only(s, at) \in Seq(S)
      /\ T!ToSet(T!Only(s, at)) = UNION {T!ToSet(ss[i]) : i \in 1..Len(s)}
  BY <1>1, <1>2, SetOfFlatten
<1>4. \A i \in 1..Len(s) : T!ToSet(ss[i]) = IF i \in at THEN {s[i]} ELSE {}
  <2>1. \A x : T!ToSet(<<x>>) = {x}
    BY DEF T!ToSet
  <2>2. T!ToSet(<< >>) = {}
    BY DEF T!ToSet
  <2> QED
    BY <1>1, <2>1, <2>2
<1>5. UNION {T!ToSet(ss[i]) : i \in 1..Len(s)} = {s[i] : i \in at \cap (1..Len(s))}
  BY <1>4
<1>6. PICK f \in [0..Len(s) -> Seq(S)] : Steps(ss, f, Len(s)) /\ T!Only(s, at) = f[Len(s)]
  BY <1>1, <1>2, FlattenIs
<1> DEFINE whole(m) == \A i \in 1..m : f[m][i] = s[i]
           X == {m \in 0..Len(s) : Len(f[m]) <= m /\ (Len(f[m]) = m => whole(m))}
<1>7. 0 \in X
  BY <1>1, <1>6 DEF Steps
<1>8. ASSUME NEW l \in 0..(Len(s) - 1), l \in X PROVE l + 1 \in X
  <2>1. l + 1 \in 1..Len(s) /\ l \in 0..Len(s) /\ l + 1 \in 0..Len(s) /\ (l + 1) - 1 = l
    BY <1>1, Below
  <2>2. f[l + 1] = f[l] \o ss[l + 1] /\ f[l] \in Seq(S) /\ s[l + 1] \in S
        /\ ss[l + 1] = IF l + 1 \in at THEN <<s[l + 1]>> ELSE << >>
    BY <1>1, <1>6, <2>1 DEF Steps
  <2>3. Len(f[l]) \in Nat /\ l \in Nat /\ Len(f[l]) <= l /\ (Len(f[l]) = l => whole(l))
    BY <1>8, <2>1, <2>2, Below
  <2>4. Len(f[l + 1]) <= l + 1 /\ (Len(f[l + 1]) = l + 1 => whole(l + 1))
    <3> HIDE DEF X
    <3>1. CASE l + 1 \in at
      <4>1. /\ Len(f[l + 1]) = Len(f[l]) + 1 /\ f[l + 1][Len(f[l]) + 1] = s[l + 1]
            /\ \A i \in 1..Len(f[l]) : f[l + 1][i] = f[l][i]
        BY <2>2, <3>1
      <4>2. Len(f[l + 1]) <= l + 1
        BY <2>3, <4>1
      <4>3. ASSUME Len(f[l + 1]) = l + 1 PROVE whole(l + 1)
        <5>1. Len(f[l]) = l
          BY <2>3, <4>1, <4>3
        <5>2. (\A i \in 1..l : f[l + 1][i] = s[i]) /\ f[l + 1][l + 1] = s[l + 1]
          BY <2>3, <4>1, <5>1
        <5> QED
          BY <2>3, <5>2, OneMore
      <4> QED
        BY <4>2, <4>3
    <3>2. CASE l + 1 \notin at
      <4>1. f[l + 1] = f[l]
        BY <2>2, <3>2, ConcatEmptySeq
      <4>2. Len(f[l]) <= l + 1 /\ Len(f[l]) # l + 1
        BY <2>3
      <4> QED
        BY <4>1, <4>2
    <3> QED
      BY <3>1, <3>2
  <2> QED
    BY <2>1, <2>4
<1>9. Len(s) \in X
  <2> HIDE DEF X
  <2>1. \A i \in 0..Len(s) : i \in X
    BY <1>1, <1>7, <1>8, Climb
  <2> QED
    BY <1>1, <2>1
<1> QED
  BY <1>1, <1>3, <1>5, <1>6, <1>9, SeqEqual

\* The greatest of some places in a list.
LEMMA GreatestIs ==
  ASSUME NEW n \in Nat, NEW X \in SUBSET (1..n), X # {}
  PROVE  T!Max(X) \in X /\ \A i \in X : i <= T!Max(X)
<1> DEFINE Y == {n - i : i \in X}
<1>1. Y \in SUBSET Nat /\ Y # {}
  OBVIOUS
<1>2. PICK m \in Y : \A l \in Y : m <= l
  BY <1>1, LeastExists
<1>3. n - m \in X /\ \A i \in X : n - m >= i
  <2>1. PICK j \in X : m = n - j
    BY <1>2
  <2>2. n - m = j /\ j \in Nat
    BY <2>1
  <2>3. \A i \in X : m <= n - i /\ i \in Nat
    BY <1>2
  <2>4. \A i \in X : j >= i
    BY <2>1, <2>2, <2>3
  <2> QED
    BY <2>1, <2>2, <2>4
<1>4. \E x \in X : \A i \in X : x >= i
  BY <1>3
<1>5. T!Max(X) \in X /\ \A i \in X : T!Max(X) >= i
  BY <1>4 DEF T!Max
<1> QED
  BY <1>5

(***************************************************************************)
(* What the turns of a session say and ask.                                *)
(***************************************************************************)

Outcomes == {"ran", "rejected", "responded", "cancelled"}
CallRec  == [id : T!Ids, tool : T!Tools]
Messages == {T!Human} \cup [role : {"ai"}, calls : Seq(CallRec)]
              \cup [role : {"tool"}, id : T!Ids, outcome : Outcomes]

\* The messages of the transcript, the calls among some messages, and whether a call
\* has its result there.
Held            == T!ToSet(msgs)
CallsIn(held)   == UNION {T!ToSet(T!Calls(m)) : m \in held}
Ended(id, held) == \E m \in held : m.role = "tool" /\ m.id = id

GraphTyped ==
  /\ msgs \in Seq(Messages) /\ config \in Configs
  /\ DOMAIN said = T!Ids
  /\ place \in {"rest", "patch", "model", "gate", "paused", "tools"}

\* Calls are numbered as they are made.
Numbers(calls) ==
  /\ \E n \in 0..MaxCalls : {c.id : c \in calls} = 1..n
  /\ \A c, d \in calls : c.id = d.id => c = d

\* A result is of a call that was made, and as the client said of that call.
Just(m, c) ==
  /\ m.outcome = "ran" => c.tool \in Native /\ (c.tool \in T!InterruptOn => said[c.id] = "allow")
  /\ m.outcome = "rejected" => said[c.id] \in {"deny", "error"}
  /\ m.outcome = "responded" => said[c.id] = "result"
Judged ==
  \A m \in Held : m.role = "tool" => \E c \in CallsIn(Held) : c.id = m.id /\ Just(m, c)

\* Before the gate, and at it, no call of the reply has its result; past it, one that
\* stops and has none was allowed.
Waits ==
  \A c \in T!ToSet(T!LastReply) :
    /\ place \in {"gate", "paused"} => ~Ended(c.id, Held)
    /\ place = "tools" /\ c.tool \in T!InterruptOn /\ ~Ended(c.id, Held) =>
         c.tool \in Native /\ said[c.id] = "allow"

\* The inductive invariant.
VerdictInv == GraphTyped /\ Numbers(CallsIn(Held)) /\ Judged /\ Waits

Events == [type : {"use"}, id : T!Ids, asks : BOOLEAN]
            \cup [type : {"result"}, id : T!Ids, outcome : Outcomes]
            \cup [type : {"idle"}, ids : Seq(T!Ids)]
TalkTyped ==
  /\ turn \in {"none", "running", "ended"} /\ parked \in BOOLEAN /\ seen = Len(msgs)
  /\ log \in Seq(Events) /\ todo \in Seq(Events)
  /\ turn # "running" => todo = << >>

\* What was said, or is about to be, is so.
Told   == T!ToSet(log) \cup T!ToSet(todo)
True(e) ==
  /\ e.type = "use" => \E c \in CallsIn(Held) : c.id = e.id /\ e.asks = (c.tool \in T!InterruptOn)
  /\ e.type = "result" => Ended(e.id, Held)
Announced(id, told) == \E e \in told : e.type = "use" /\ e.id = id
Truthful ==
  /\ \A e \in Told : True(e)
  /\ \A id \in announced : Announced(id, T!ToSet(log))

\* A turn that stops for the client has announced the calls of its reply.
AllAnnounced ==
  place \in {"gate", "paused"} /\ (turn # "none" \/ parked) =>
    \A c \in T!ToSet(T!LastReply) : Announced(c.id, Told)

\* The last word of a turn that stopped so is which calls it waits for.
PendingIds == [i \in DOMAIN T!Pending |-> T!Pending[i].id]
LastWord ==
  /\ place = "paused" => T!Pending # << >>
  /\ turn = "ended" => place \in {"paused", "rest"}
  /\ parked => turn = "none" /\ place = "paused"
  /\ (turn = "ended" /\ place = "paused") \/ parked =>
       log # << >> /\ log[Len(log)] = T!Idle(PendingIds)

\* The inductive invariant, beside VerdictInv.
TalkInv == TalkTyped /\ Truthful /\ AllAnnounced /\ LastWord

\* The kinds of a message, and what it calls.
LEMMA MessageIs ==
  ASSUME NEW m \in Messages
  PROVE  /\ m.role \in {"human", "ai", "tool"}
         /\ T!Calls(m) \in Seq(CallRec)
         /\ m.role = "ai" => T!Calls(m) = m.calls
         /\ m.role # "ai" => T!Calls(m) = << >>
         /\ m.role = "tool" => m.id \in T!Ids /\ m.outcome \in Outcomes
<1>1. CASE m = T!Human
  BY <1>1 DEF T!Human, T!Calls
<1>2. CASE m \in [role : {"ai"}, calls : Seq(CallRec)]
  BY <1>2 DEF T!Calls
<1>3. CASE m \in [role : {"tool"}, id : T!Ids, outcome : Outcomes]
  BY <1>3 DEF T!Calls
<1> QED
  BY <1>1, <1>2, <1>3 DEF Messages

LEMMA ResultIs ==
  ASSUME NEW id \in T!Ids, NEW o \in Outcomes
  PROVE  /\ T!Result(id, o) \in Messages /\ T!Result(id, o).role = "tool"
         /\ T!Result(id, o).id = id /\ T!Result(id, o).outcome = o
  BY DEF T!Result, Messages

LEMMA ReplyIs ==
  ASSUME NEW cs \in Seq(CallRec)
  PROVE  T!Reply(cs) \in Messages /\ T!Reply(cs).role = "ai" /\ T!Calls(T!Reply(cs)) = cs
  BY DEF T!Reply, Messages, T!Calls

LEMMA HumanIs == T!Human \in Messages /\ T!Human.role = "human"
  BY DEF T!Human, Messages

\* Messages that are no replies bring no calls.
LEMMA NoMoreCalls ==
  ASSUME NEW held \in SUBSET Messages, NEW new \in SUBSET Messages,
         \A m \in new : m.role # "ai"
  PROVE  CallsIn(held \cup new) = CallsIn(held)
<1>1. \A m \in new : T!ToSet(T!Calls(m)) = {}
  <2>1. T!ToSet(<< >>) = {}
    BY DEF T!ToSet
  <2> QED
    BY <2>1, MessageIs
<1> QED
  BY <1>1 DEF CallsIn

\* The messages of the transcript, as a set.
LEMMA HeldIs ==
  ASSUME msgs \in Seq(Messages)
  PROVE  /\ Held \in SUBSET Messages /\ Held = {msgs[i] : i \in 1..Len(msgs)}
         /\ \A c \in CallsIn(Held) : c \in CallRec
         /\ \A id : T!HasResult(id, msgs) <=> Ended(id, Held)
<1>1. Len(msgs) \in Nat /\ DOMAIN msgs = 1..Len(msgs) /\ \A i \in 1..Len(msgs) : msgs[i] \in Messages
  OBVIOUS
<1>2. Held \in SUBSET Messages /\ Held = {msgs[i] : i \in 1..Len(msgs)}
  BY <1>1 DEF Held, T!ToSet
<1>3. \A c \in CallsIn(Held) : c \in CallRec
  <2> SUFFICES ASSUME NEW m \in Messages, NEW c \in T!ToSet(T!Calls(m)) PROVE c \in CallRec
    BY <1>2 DEF CallsIn
  <2>1. T!Calls(m) \in Seq(CallRec)
    BY MessageIs
  <2> QED
    BY <2>1 DEF T!ToSet
<1>4. \A id : T!HasResult(id, msgs) <=> Ended(id, Held)
  BY <1>1, <1>2 DEF T!HasResult, Ended
<1> QED
  BY <1>2, <1>3, <1>4

\* The last reply is a list of calls that were made.
LEMMA LastReplyIs ==
  ASSUME msgs \in Seq(Messages)
  PROVE  T!LastReply \in Seq(CallRec) /\ T!ToSet(T!LastReply) \subseteq CallsIn(Held)
<1> DEFINE replies == {i \in DOMAIN msgs : msgs[i].role = "ai"}
<1>1. Len(msgs) \in Nat /\ replies \in SUBSET (1..Len(msgs))
  OBVIOUS
<1>2. CASE replies = {}
  <2>1. T!LastReply = << >>
    BY <1>2 DEF T!LastReply
  <2> QED
    BY <2>1 DEF T!ToSet
<1>3. CASE replies # {}
  <2>1. T!Max(replies) \in replies
    BY <1>1, <1>3, GreatestIs
  <2>2. T!LastReply = T!Calls(msgs[T!Max(replies)])
    BY <1>3 DEF T!LastReply
  <2>3. msgs[T!Max(replies)] \in Messages /\ msgs[T!Max(replies)] \in Held
    BY <2>1, HeldIs
  <2> QED
    BY <2>2, <2>3, MessageIs DEF CallsIn
<1> QED
  BY <1>2, <1>3

\* The last reply is the same as long as nothing but results and messages of the client
\* are added; a new reply is the last one.
LEMMA SameReply ==
  ASSUME msgs \in Seq(Messages), NEW new \in Seq(Messages), msgs' = msgs \o new,
         \A i \in 1..Len(new) : new[i].role # "ai"
  PROVE  T!LastReply' = T!LastReply
<1> DEFINE replies == {i \in DOMAIN msgs : msgs[i].role = "ai"}
           later   == {i \in DOMAIN msgs' : msgs'[i].role = "ai"}
<1>1. /\ Len(msgs) \in Nat /\ Len(new) \in Nat /\ DOMAIN msgs = 1..Len(msgs)
      /\ DOMAIN msgs' = 1..(Len(msgs) + Len(new))
      /\ \A i \in 1..Len(msgs) : msgs'[i] = msgs[i]
      /\ \A i \in 1..Len(new) : msgs'[Len(msgs) + i] = new[i]
  OBVIOUS
<1>2. \A i \in later : i \in replies
  <2> SUFFICES ASSUME NEW i \in later, ~(i <= Len(msgs)) PROVE FALSE
    BY <1>1
  <2>1. i - Len(msgs) \in 1..Len(new) /\ Len(msgs) + (i - Len(msgs)) = i
    BY <1>1
  <2> QED
    BY <1>1, <2>1
<1>3. later = replies
  BY <1>1, <1>2
<1>4. T!LastReply' = IF later = {} THEN << >> ELSE T!Calls(msgs'[T!Max(later)])
  BY DEF T!LastReply
<1>5. T!LastReply = IF replies = {} THEN << >> ELSE T!Calls(msgs[T!Max(replies)])
  BY DEF T!LastReply
<1>6. replies # {} => T!Max(replies) \in 1..Len(msgs)
  <2> HIDE DEF replies
  <2>1. replies \in SUBSET (1..Len(msgs))
    BY <1>1 DEF replies
  <2> QED
    BY <1>1, <2>1, GreatestIs
<1> HIDE DEF replies, later
<1> QED
  BY <1>1, <1>3, <1>4, <1>5, <1>6

LEMMA NewReply ==
  ASSUME msgs \in Seq(Messages), NEW cs \in Seq(CallRec), msgs' = Append(msgs, T!Reply(cs))
  PROVE  T!LastReply' = cs
<1> DEFINE later == {i \in DOMAIN msgs' : msgs'[i].role = "ai"}
           n == Len(msgs) + 1
<1>1. n \in Nat /\ DOMAIN msgs' = 1..n /\ msgs'[n] = T!Reply(cs) /\ n \in 1..n
  BY ReplyIs
<1>2. n \in later /\ later \in SUBSET (1..n)
  BY <1>1, ReplyIs
<1>3. T!LastReply' = T!Calls(msgs'[T!Max(later)])
  BY <1>2 DEF T!LastReply
<1> HIDE DEF later
<1>4. T!Max(later) \in later /\ n <= T!Max(later)
  BY <1>1, <1>2, GreatestIs
<1>5. T!Max(later) = n
  <2>1. T!Max(later) \in 1..n
    BY <1>2, <1>4
  <2> QED
    BY <1>1, <1>4, <2>1
<1> QED
  BY <1>1, <1>3, <1>5, ReplyIs

\* What stops for the client, of some calls.
LEMMA AskingIs ==
  ASSUME NEW cs \in Seq(CallRec)
  PROVE  /\ T!Asking(cs) \in Seq(CallRec)
         /\ T!ToSet(T!Asking(cs)) = {c \in T!ToSet(cs) : c.tool \in T!InterruptOn}
<1> DEFINE at == {k \in DOMAIN cs : cs[k].tool \in T!InterruptOn}
<1>1. T!Asking(cs) = T!Only(cs, at)
  BY DEF T!Asking
<1>2. DOMAIN cs = 1..Len(cs)
  OBVIOUS
<1>3. T!Only(cs, at) \in Seq(CallRec)
      /\ T!ToSet(T!Only(cs, at)) = {cs[i] : i \in at \cap (1..Len(cs))}
  BY OnlyIs
<1>4. {cs[i] : i \in at \cap (1..Len(cs))} = {c \in T!ToSet(cs) : c.tool \in T!InterruptOn}
  BY <1>2 DEF T!ToSet
<1> QED
  BY <1>1, <1>3, <1>4

\* What has no result yet, of some calls.
LEMMA UnansweredIs ==
  ASSUME msgs \in Seq(Messages), NEW cs \in Seq(CallRec)
  PROVE  /\ T!Unanswered(cs) \in Seq(CallRec)
         /\ T!ToSet(T!Unanswered(cs)) = {c \in T!ToSet(cs) : ~Ended(c.id, Held)}
<1> DEFINE at == {k \in DOMAIN cs : ~T!HasResult(cs[k].id, msgs)}
<1>1. T!Unanswered(cs) = T!Only(cs, at)
  BY DEF T!Unanswered
<1>2. DOMAIN cs = 1..Len(cs)
  OBVIOUS
<1>3. T!Only(cs, at) \in Seq(CallRec)
      /\ T!ToSet(T!Only(cs, at)) = {cs[i] : i \in at \cap (1..Len(cs))}
  BY OnlyIs
<1>4. at = {k \in DOMAIN cs : ~Ended(cs[k].id, Held)}
  BY HeldIs
<1>5. {cs[i] : i \in at \cap (1..Len(cs))} = {c \in T!ToSet(cs) : ~Ended(c.id, Held)}
  BY <1>2, <1>4 DEF T!ToSet
<1> QED
  BY <1>1, <1>3, <1>5

(***************************************************************************)
(* The steps, as what they add to the messages.                            *)
(***************************************************************************)

\* The toolset is pinned, and with it what stops for the client.
LEMMA SamePolicy == config' = config => T!InterruptOn' = T!InterruptOn
  BY DEF T!InterruptOn, T!Policy

\* Results of calls that were made, as the client said of them, are added.
LEMMA ResultsAdded ==
  ASSUME VerdictInv, msgs' \in Seq(Messages), config' = config, said' = said,
         place' \in {"rest", "patch", "model"},
         NEW new \in SUBSET Messages, Held' = Held \cup new,
         \A m \in new : m.role # "ai",
         \A m \in new : m.role = "tool" => \E c \in CallsIn(Held) : c.id = m.id /\ Just(m, c)
  PROVE  VerdictInv'
<1>1. Held \in SUBSET Messages
  BY HeldIs DEF VerdictInv, GraphTyped
<1>2. CallsIn(Held') = CallsIn(Held)
  BY <1>1, NoMoreCalls
<1>3. GraphTyped'
  BY DEF VerdictInv, GraphTyped
<1>4. Numbers(CallsIn(Held))'
  BY <1>2 DEF VerdictInv, Numbers
<1>5. \A m, c : Just(m, c)' = Just(m, c)
  BY SamePolicy DEF Just
<1>6. Judged'
  <2> SUFFICES ASSUME NEW m \in Held', m.role = "tool"
               PROVE  \E c \in CallsIn(Held') : c.id = m.id /\ Just(m, c)'
    BY DEF Judged
  <2>1. \E c \in CallsIn(Held) : c.id = m.id /\ Just(m, c)
    BY DEF VerdictInv, Judged
  <2> QED
    BY <1>2, <1>5, <2>1
<1>7. Waits'
  BY DEF Waits
<1> QED
  BY <1>3, <1>4, <1>6, <1>7 DEF VerdictInv

\* No message is added.
LEMMA NothingAdded ==
  ASSUME VerdictInv, msgs' = msgs, config' = config, said' = said, place' = place
  PROVE  VerdictInv'
<1>1. Held' = Held /\ T!LastReply' = T!LastReply
  BY DEF Held, T!LastReply
<1>2. T!InterruptOn' = T!InterruptOn
  BY SamePolicy
<1>3. GraphTyped'
  BY DEF VerdictInv, GraphTyped
<1>4. Numbers(CallsIn(Held))'
  BY <1>1 DEF VerdictInv, Numbers
<1>5. \A m, c : Just(m, c)' = Just(m, c)
  BY <1>2 DEF Just
<1>6. Judged'
  BY <1>1, <1>5 DEF VerdictInv, Judged
<1>7. Waits'
  BY <1>1, <1>2 DEF VerdictInv, Waits
<1> QED
  BY <1>3, <1>4, <1>6, <1>7 DEF VerdictInv

\* A message of the client adds no result.
LEMMA MessageVerdict == ASSUME VerdictInv, T!StartMessage PROVE VerdictInv'
<1>1. msgs \in Seq(Messages)
  BY DEF VerdictInv, GraphTyped
<1>2. msgs' = Append(msgs, T!Human) /\ T!Human \in Messages
  BY HumanIs DEF T!StartMessage
<1>3. msgs' \in Seq(Messages) /\ T!ToSet(msgs') = T!ToSet(msgs) \cup {T!Human}
  BY <1>1, <1>2, SetOfAppend
<1>4. Held' = Held \cup {T!Human}
  BY <1>3 DEF Held
<1>5. place' = "patch" /\ config' = config /\ said' = said
  BY DEF T!StartMessage
<1>6. {T!Human} \in SUBSET Messages /\ \A m \in {T!Human} : m.role # "ai" /\ m.role # "tool"
  BY HumanIs
<1> QED
  BY <1>3, <1>4, <1>5, <1>6, ResultsAdded

\* The results of some calls, written in their order.
LEMMA ResultsOf ==
  ASSUME NEW cs \in Seq(CallRec), NEW o \in Outcomes
  PROVE  LET rs == [k \in DOMAIN cs |-> T!Result(cs[k].id, o)]
         IN  rs \in Seq(Messages) /\ T!ToSet(rs) = {T!Result(c.id, o) : c \in T!ToSet(cs)}
             /\ Len(rs) = Len(cs)
<1> DEFINE rs == [k \in DOMAIN cs |-> T!Result(cs[k].id, o)]
<1>1. Len(cs) \in Nat /\ DOMAIN cs = 1..Len(cs) /\ \A k \in 1..Len(cs) : cs[k] \in CallRec
  OBVIOUS
<1>2. \A k \in 1..Len(cs) : T!Result(cs[k].id, o) \in Messages
  <2> SUFFICES ASSUME NEW k \in 1..Len(cs) PROVE T!Result(cs[k].id, o) \in Messages
    OBVIOUS
  <2>1. cs[k].id \in T!Ids
    BY <1>1 DEF CallRec
  <2> QED
    BY <2>1, ResultIs
<1>3. rs \in [1..Len(cs) -> Messages]
  BY <1>1, <1>2
<1>4. rs \in Seq(Messages) /\ Len(rs) = Len(cs)
  BY <1>1, <1>3, IsASeq, LenProperties
<1>5. T!ToSet(rs) = {T!Result(c.id, o) : c \in T!ToSet(cs)}
  BY <1>1 DEF T!ToSet
<1> QED
  BY <1>4, <1>5

\* The patch keeps every message, and adds cancelled results of calls that were made.
LEMMA PatchedIs ==
  ASSUME msgs \in Seq(Messages), T!Patch
  PROVE  /\ msgs' \in Seq(Messages) /\ Len(msgs) <= Len(msgs')
         /\ \E new \in SUBSET Messages :
              /\ Held' = Held \cup new
              /\ \A m \in new : m.role = "tool" /\ m.outcome = "cancelled"
                                /\ \E c \in CallsIn(Held) : c.id = m.id
<1> DEFINE ss == [i \in DOMAIN msgs |-> <<msgs[i]>> \o T!Cancelled(msgs[i])]
<1>1. msgs' = T!FlattenSeq(ss)
  BY DEF T!Patch, T!Snapshot
<1>2. Len(msgs) \in Nat /\ DOMAIN msgs = 1..Len(msgs) /\ \A i \in 1..Len(msgs) : msgs[i] \in Messages
  OBVIOUS
<1>3. ASSUME NEW m \in Messages
      PROVE  /\ T!Cancelled(m) \in Seq(Messages)
             /\ \A r \in T!ToSet(T!Cancelled(m)) :
                  r.role = "tool" /\ r.outcome = "cancelled" /\ \E c \in T!ToSet(T!Calls(m)) : c.id = r.id
  <2> DEFINE due == T!Unanswered(T!Calls(m))
  <2>1. due \in Seq(CallRec) /\ T!ToSet(due) \subseteq T!ToSet(T!Calls(m))
    BY MessageIs, UnansweredIs
  <2>2. T!Cancelled(m) = [k \in DOMAIN due |-> T!Result(due[k].id, "cancelled")]
    BY DEF T!Cancelled
  <2> HIDE DEF due
  <2>3. "cancelled" \in Outcomes
    BY DEF Outcomes
  <2>4. /\ T!Cancelled(m) \in Seq(Messages)
        /\ T!ToSet(T!Cancelled(m)) = {T!Result(c.id, "cancelled") : c \in T!ToSet(due)}
    BY <2>1, <2>2, <2>3, ResultsOf
  <2>5. \A c \in T!ToSet(due) : c.id \in T!Ids
    <3>1. \A k \in DOMAIN due : due[k] \in CallRec
      BY <2>1
    <3>2. \A c \in CallRec : c.id \in T!Ids
      BY DEF CallRec
    <3> QED
      BY <3>1, <3>2 DEF T!ToSet
  <2>6. ASSUME NEW r \in T!ToSet(T!Cancelled(m))
        PROVE  r.role = "tool" /\ r.outcome = "cancelled" /\ \E c \in T!ToSet(T!Calls(m)) : c.id = r.id
    <3>1. PICK c \in T!ToSet(due) : r = T!Result(c.id, "cancelled")
      BY <2>4
    <3>2. r.role = "tool" /\ r.outcome = "cancelled" /\ r.id = c.id
      BY <2>3, <2>5, <3>1, ResultIs
    <3> QED
      BY <2>1, <3>1, <3>2
  <2> QED
    BY <2>4, <2>6
<1>4. \A i \in 1..Len(msgs) : ss[i] = <<msgs[i]>> \o T!Cancelled(msgs[i]) /\ ss[i] \in Seq(Messages)
  <2> SUFFICES ASSUME NEW i \in 1..Len(msgs)
               PROVE  ss[i] = <<msgs[i]>> \o T!Cancelled(msgs[i]) /\ ss[i] \in Seq(Messages)
    OBVIOUS
  <2>1. <<msgs[i]>> \in Seq(Messages) /\ T!Cancelled(msgs[i]) \in Seq(Messages)
    BY <1>2, <1>3
  <2> QED
    BY <1>2, <2>1, ConcatProperties
<1>5. ss \in Seq(Seq(Messages)) /\ Len(ss) = Len(msgs)
  <2>1. ss \in [1..Len(msgs) -> Seq(Messages)]
    BY <1>2, <1>4
  <2> QED
    BY <1>2, <2>1, IsASeq, LenProperties
<1> HIDE DEF ss
<1>6. msgs' \in Seq(Messages) /\ Held' = UNION {T!ToSet(ss[i]) : i \in 1..Len(msgs)}
  BY <1>1, <1>5, SetOfFlatten DEF Held
<1>7. \A i \in 1..Len(msgs) : T!ToSet(ss[i]) = {msgs[i]} \cup T!ToSet(T!Cancelled(msgs[i]))
  <2> SUFFICES ASSUME NEW i \in 1..Len(msgs)
               PROVE  T!ToSet(ss[i]) = {msgs[i]} \cup T!ToSet(T!Cancelled(msgs[i]))
    OBVIOUS
  <2>1. <<msgs[i]>> \in Seq(Messages) /\ T!Cancelled(msgs[i]) \in Seq(Messages)
    BY <1>2, <1>3
  <2>2. T!ToSet(<<msgs[i]>>) = {msgs[i]}
    BY DEF T!ToSet
  <2>3. T!ToSet(<<msgs[i]>> \o T!Cancelled(msgs[i])) = T!ToSet(<<msgs[i]>>) \cup T!ToSet(T!Cancelled(msgs[i]))
    <3>1. \A s, r \in Seq(Messages) : T!ToSet(s \o r) = T!ToSet(s) \cup T!ToSet(r)
      BY SetOfConcat
    <3> QED
      BY <2>1, <3>1
  <2> QED
    BY <1>4, <2>2, <2>3
<1> DEFINE new == UNION {T!ToSet(T!Cancelled(msgs[i])) : i \in 1..Len(msgs)}
<1>8. Held' = Held \cup new
  <2>1. UNION {T!ToSet(ss[i]) : i \in 1..Len(msgs)} = {msgs[i] : i \in 1..Len(msgs)} \cup new
    <3>1. \A x : x \in UNION {T!ToSet(ss[i]) : i \in 1..Len(msgs)} <=>
                  \E i \in 1..Len(msgs) : x \in T!ToSet(ss[i])
      OBVIOUS
    <3>2. \A x : x \in {msgs[i] : i \in 1..Len(msgs)} \cup new <=>
                  \E i \in 1..Len(msgs) : x = msgs[i] \/ x \in T!ToSet(T!Cancelled(msgs[i]))
      OBVIOUS
    <3> QED
      BY <1>7, <3>1, <3>2
  <2>2. Held = {msgs[i] : i \in 1..Len(msgs)}
    BY HeldIs
  <2> QED
    BY <1>6, <2>1, <2>2
<1>9. new \in SUBSET Messages
  <2>1. Held' \in SUBSET Messages
    BY <1>6 DEF Held, T!ToSet
  <2> QED
    BY <1>8, <2>1
<1>10. ASSUME NEW r \in new
       PROVE  r.role = "tool" /\ r.outcome = "cancelled" /\ \E c \in CallsIn(Held) : c.id = r.id
  <2>1. PICK i \in 1..Len(msgs) : r \in T!ToSet(T!Cancelled(msgs[i]))
    OBVIOUS
  <2>2. msgs[i] \in Held
    BY HeldIs
  <2> QED
    BY <1>2, <1>3, <2>1, <2>2 DEF CallsIn
<1>11. Len(msgs) <= Len(msgs')
  <2>1. \A i \in 1..Len(msgs) : Len(ss[i]) >= 1
    <3> SUFFICES ASSUME NEW i \in 1..Len(msgs) PROVE Len(ss[i]) >= 1
      OBVIOUS
    <3>1. <<msgs[i]>> \in Seq(Messages) /\ T!Cancelled(msgs[i]) \in Seq(Messages)
      BY <1>2, <1>3
    <3>2. Len(<<msgs[i]>> \o T!Cancelled(msgs[i])) = 1 + Len(T!Cancelled(msgs[i]))
          /\ Len(T!Cancelled(msgs[i])) \in Nat
      BY <3>1
    <3>3. ss[i] = <<msgs[i]>> \o T!Cancelled(msgs[i])
      BY <1>4
    <3>4. Len(ss[i]) = 1 + Len(T!Cancelled(msgs[i]))
      BY <3>2, <3>3
    <3> QED
      BY <3>2, <3>4
  <2> QED
    BY <1>1, <1>5, <2>1, FlattenGrows
<1> QED
  BY <1>6, <1>8, <1>9, <1>10, <1>11

\* A cancelled call has no verdict to be right about.
LEMMA PatchVerdict == ASSUME VerdictInv, T!Patch PROVE VerdictInv'
<1>1. msgs \in Seq(Messages)
  BY DEF VerdictInv, GraphTyped
<1>2. PICK new \in SUBSET Messages :
        /\ Held' = Held \cup new
        /\ \A m \in new : m.role = "tool" /\ m.outcome = "cancelled"
                          /\ \E c \in CallsIn(Held) : c.id = m.id
  BY <1>1, PatchedIs
<1>3. msgs' \in Seq(Messages)
  BY <1>1, PatchedIs
<1>4. place' = "model" /\ config' = config /\ said' = said
  BY DEF T!Patch
<1>5. \A m \in new : \A c : Just(m, c)
  BY <1>2 DEF Just
<1> QED
  BY <1>2, <1>3, <1>4, <1>5, ResultsAdded

\* The calls that were made, by their ids.
LEMMA MadeIs ==
  ASSUME msgs \in Seq(Messages)
  PROVE  T!Made = {c.id : c \in CallsIn(Held)}
<1>1. T!Made = UNION {{call.id : call \in T!ToSet(T!Calls(msgs[i]))} : i \in DOMAIN msgs}
  BY DEF T!Made
<1>2. \A x : x \in T!Made <=> \E i \in DOMAIN msgs : \E c \in T!ToSet(T!Calls(msgs[i])) : x = c.id
  BY <1>1
<1>3. \A c : c \in CallsIn(Held) <=> \E i \in DOMAIN msgs : c \in T!ToSet(T!Calls(msgs[i]))
  BY DEF CallsIn, Held, T!ToSet
<1> QED
  BY <1>2, <1>3

\* A reply's calls have the numbers after those of the calls that were made before.
LEMMA NewCalls ==
  ASSUME VerdictInv, T!BoundAssumption, NEW tools \in T!BoundedSeq(T!Tools, MaxReply), T!Model(tools)
  PROVE  \E n \in 0..MaxCalls, cs \in Seq(CallRec) :
           /\ msgs' = Append(msgs, T!Reply(cs)) /\ n + Len(cs) <= MaxCalls
           /\ {c.id : c \in CallsIn(Held)} = 1..n
           /\ \A i \in 1..Len(cs) : cs[i].id = n + i
<1>1. PICK n \in 0..MaxCalls : {c.id : c \in CallsIn(Held)} = 1..n
  BY DEF VerdictInv, Numbers
<1>2. T!CallsMade = n
  <2>1. T!Made = 1..n
    BY <1>1, MadeIs DEF VerdictInv, GraphTyped
  <2>2. Cardinality(1..n) = n
    BY <1>1, FS_Interval
  <2> QED
    BY <2>1, <2>2 DEF T!CallsMade, T!Cardinality, Cardinality
<1>3. PICK m \in Nat : tools \in [1..m -> T!Tools]
  BY DEF T!BoundedSeq, T!SeqOf, T!BoundAssumption
<1>4. DOMAIN tools = 1..m /\ Len(tools) = m /\ \A i \in 1..m : tools[i] \in T!Tools
  <2>1. tools \in Seq(T!Tools)
    BY <1>3, IsASeq
  <2> QED
    BY <1>3, <2>1, LenProperties
<1> DEFINE cs == [i \in DOMAIN tools |-> [id |-> n + i, tool |-> tools[i]]]
<1>5. n + m <= MaxCalls /\ msgs' = Append(msgs, T!Reply(cs))
  BY <1>2, <1>4 DEF T!Model, T!Snapshot
<1>6. \A i \in 1..m : [id |-> n + i, tool |-> tools[i]] \in CallRec
  <2> SUFFICES ASSUME NEW i \in 1..m PROVE [id |-> n + i, tool |-> tools[i]] \in CallRec
    OBVIOUS
  <2>1. n + i \in T!Ids
    BY <1>1, <1>3, <1>5 DEF T!Ids, T!BoundAssumption
  <2> QED
    BY <1>4, <2>1 DEF CallRec
<1>7. cs \in [1..m -> CallRec]
  BY <1>4, <1>6
<1>8. cs \in Seq(CallRec) /\ Len(cs) = m
  BY <1>3, <1>7, IsASeq, LenProperties
<1>9. \A i \in 1..m : cs[i].id = n + i
  BY <1>4
<1> HIDE DEF cs
<1> QED
  BY <1>1, <1>5, <1>8, <1>9

\* The calls of a new reply are numbered on, so that none of them has a result.
LEMMA ModelVerdict ==
  ASSUME VerdictInv, T!BoundAssumption, NEW tools \in T!BoundedSeq(T!Tools, MaxReply), T!Model(tools)
  PROVE  VerdictInv'
<1>1. PICK n \in 0..MaxCalls, cs \in Seq(CallRec) :
        /\ msgs' = Append(msgs, T!Reply(cs)) /\ n + Len(cs) <= MaxCalls
        /\ {c.id : c \in CallsIn(Held)} = 1..n
        /\ \A i \in 1..Len(cs) : cs[i].id = n + i
  BY NewCalls
<1>2. msgs \in Seq(Messages) /\ place' = "gate" /\ config' = config /\ said' = said
  BY DEF VerdictInv, GraphTyped, T!Model
<1>3. msgs' \in Seq(Messages) /\ T!ToSet(msgs') = T!ToSet(msgs) \cup {T!Reply(cs)}
  <2>1. T!Reply(cs) \in Messages
    BY ReplyIs
  <2> QED
    BY <1>1, <1>2, <2>1, SetOfAppend
<1>4. Held' = Held \cup {T!Reply(cs)}
  BY <1>3 DEF Held
<1>5. CallsIn(Held') = CallsIn(Held) \cup T!ToSet(cs)
  BY <1>4, ReplyIs DEF CallsIn
<1>6. \A id : Ended(id, Held') <=> Ended(id, Held)
  BY <1>4, ReplyIs DEF Ended
<1>7. GraphTyped'
  BY <1>2, <1>3 DEF VerdictInv, GraphTyped
<1>8. Len(cs) \in Nat /\ \A c \in T!ToSet(cs) : \E i \in 1..Len(cs) : c = cs[i]
  BY DEF T!ToSet
<1>9. \A c \in CallsIn(Held) : c.id \in 1..n
  BY <1>1
<1>10. \A c \in T!ToSet(cs) : c.id \in (n + 1)..(n + Len(cs))
  <2>1. \A i \in 1..Len(cs) : n + i \in (n + 1)..(n + Len(cs))
    BY <1>8, Further
  <2> SUFFICES ASSUME NEW c \in T!ToSet(cs) PROVE c.id \in (n + 1)..(n + Len(cs))
    OBVIOUS
  <2>2. PICK i \in 1..Len(cs) : c = cs[i]
    BY <1>8
  <2>3. c.id = n + i
    BY <1>1, <2>2
  <2> QED
    BY <2>1, <2>3
<1>11. Numbers(CallsIn(Held'))
  <2>1. {c.id : c \in CallsIn(Held')} = 1..(n + Len(cs))
    <3>1. {c.id : c \in T!ToSet(cs)} = (n + 1)..(n + Len(cs))
      <4>1. ASSUME NEW k \in (n + 1)..(n + Len(cs)) PROVE \E c \in T!ToSet(cs) : c.id = k
        <5>1. k - n \in 1..Len(cs) /\ n + (k - n) = k
          BY <1>8
        <5>2. cs[k - n].id = n + (k - n)
          BY <1>1, <5>1
        <5>3. cs[k - n] \in T!ToSet(cs)
          BY <5>1 DEF T!ToSet
        <5> QED
          BY <5>1, <5>2, <5>3
      <4> QED
        BY <1>10, <4>1
    <3>2. {c.id : c \in CallsIn(Held')} = {c.id : c \in CallsIn(Held)} \cup {c.id : c \in T!ToSet(cs)}
      BY <1>5
    <3>3. (1..n) \cup ((n + 1)..(n + Len(cs))) = 1..(n + Len(cs))
      BY <1>8
    <3> QED
      BY <1>1, <3>1, <3>2, <3>3
  <2>2. ASSUME NEW c \in CallsIn(Held'), NEW d \in CallsIn(Held'), c.id = d.id PROVE c = d
    <3>1. CASE c \in CallsIn(Held) /\ d \in CallsIn(Held)
      BY <2>2, <3>1 DEF VerdictInv, Numbers
    <3>2. CASE c \in T!ToSet(cs) /\ d \in T!ToSet(cs)
      <4>1. PICK i \in 1..Len(cs) : c = cs[i]
        BY <1>8, <3>2
      <4>2. PICK j \in 1..Len(cs) : d = cs[j]
        BY <1>8, <3>2
      <4>3. n + i = n + j
        BY <1>1, <2>2, <4>1, <4>2
      <4> QED
        BY <1>1, <4>1, <4>2, <4>3
    <3>3. CASE c \in CallsIn(Held) /\ d \in T!ToSet(cs)
      BY <1>8, <1>9, <1>10, <2>2, <3>3
    <3>4. CASE d \in CallsIn(Held) /\ c \in T!ToSet(cs)
      BY <1>8, <1>9, <1>10, <2>2, <3>4
    <3> QED
      BY <1>5, <3>1, <3>2, <3>3, <3>4
  <2>3. n + Len(cs) \in 0..MaxCalls
    BY <1>1, <1>8 DEF T!BoundAssumption
  <2> QED
    BY <2>1, <2>2, <2>3 DEF Numbers
<1>12. Judged'
  <2> SUFFICES ASSUME NEW m \in Held', m.role = "tool"
               PROVE  \E c \in CallsIn(Held') : c.id = m.id /\ Just(m, c)'
    BY DEF Judged
  <2>1. m \in Held
    BY <1>4, ReplyIs
  <2>2. PICK c \in CallsIn(Held) : c.id = m.id /\ Just(m, c)
    BY <2>1 DEF VerdictInv, Judged
  <2>3. Just(m, c)'
    BY <1>2, <2>2, SamePolicy DEF Just
  <2> QED
    BY <1>5, <2>2, <2>3
<1>13. Waits'
  <2>1. T!LastReply' = cs
    BY <1>1, <1>2, NewReply
  <2>2. ASSUME NEW c \in T!ToSet(cs), Ended(c.id, Held) PROVE FALSE
    <3>1. PICK m \in Held : m.role = "tool" /\ m.id = c.id
      BY <2>2 DEF Ended
    <3>2. PICK d \in CallsIn(Held) : d.id = m.id
      BY <3>1 DEF VerdictInv, Judged
    <3> QED
      BY <1>8, <1>9, <1>10, <3>1, <3>2
  <2> QED
    BY <1>2, <1>6, <2>1, <2>2 DEF Waits
<1>14. Numbers(CallsIn(Held))'
  BY <1>11
<1> QED
  BY <1>7, <1>12, <1>13, <1>14 DEF VerdictInv

\* A reply that goes on to the tools has no call that stops for the client.
LEMMA GateVerdict == ASSUME VerdictInv, T!Gate PROVE VerdictInv'
<1>1. /\ msgs' = msgs /\ config' = config /\ said' = said /\ place = "gate"
      /\ place' = IF T!Pending # << >> THEN "paused" ELSE IF T!LastReply = << >> THEN "rest" ELSE "tools"
  BY DEF T!Gate, T!Node
<1>2. Held' = Held /\ T!LastReply' = T!LastReply /\ T!InterruptOn' = T!InterruptOn
  BY <1>1, SamePolicy DEF Held, T!LastReply
<1>3. GraphTyped'
  BY <1>1 DEF VerdictInv, GraphTyped
<1>4. Numbers(CallsIn(Held))'
  BY <1>2 DEF VerdictInv, Numbers
<1>5. \A m, c : Just(m, c)' = Just(m, c)
  BY <1>1, <1>2 DEF Just
<1>6. Judged'
  BY <1>2, <1>5 DEF VerdictInv, Judged
<1>7. Waits'
  <2>1. place' = "tools" => \A c \in T!ToSet(T!LastReply) : c.tool \notin T!InterruptOn
    <3> SUFFICES ASSUME T!Pending = << >>, NEW c \in T!ToSet(T!LastReply), c.tool \in T!InterruptOn
                 PROVE  FALSE
      BY <1>1
    <3>1. c \in T!ToSet(T!Pending)
      BY AskingIs, LastReplyIs DEF T!Pending, VerdictInv, GraphTyped
    <3> QED
      BY <3>1 DEF T!ToSet
  <2> QED
    BY <1>1, <1>2, <2>1 DEF VerdictInv, Waits
<1> QED
  BY <1>3, <1>4, <1>6, <1>7 DEF VerdictInv

\* What runs is native, and was allowed if it stops for the client.
LEMMA ToolsVerdict == ASSUME VerdictInv, T!RunTools PROVE VerdictInv'
<1> DEFINE due == T!Unanswered(T!LastReply)
           new == [i \in DOMAIN due |-> T!Result(due[i].id, "ran")]
<1>1. msgs \in Seq(Messages)
  BY DEF VerdictInv, GraphTyped
<1>2. /\ msgs' = msgs \o new /\ place = "tools"
      /\ place' = "model" /\ config' = config /\ said' = said
  BY DEF T!RunTools, T!Snapshot, T!Node
<1>3. /\ due \in Seq(CallRec)
      /\ T!ToSet(due) = {c \in T!ToSet(T!LastReply) : ~Ended(c.id, Held)}
  BY <1>1, LastReplyIs, UnansweredIs
<1>4. "ran" \in Outcomes
  BY DEF Outcomes
<1> HIDE DEF due
<1>5. new \in Seq(Messages) /\ T!ToSet(new) = {T!Result(c.id, "ran") : c \in T!ToSet(due)}
  BY <1>3, <1>4, ResultsOf
<1> HIDE DEF new
<1>6. msgs' \in Seq(Messages) /\ Held' = Held \cup T!ToSet(new)
  <2>1. T!ToSet(msgs \o new) = T!ToSet(msgs) \cup T!ToSet(new)
    BY <1>1, <1>5, SetOfConcat
  <2> QED
    BY <1>1, <1>2, <1>5, <2>1, ConcatProperties DEF Held
<1>7. ASSUME NEW m \in T!ToSet(new)
      PROVE  m \in Messages /\ m.role # "ai" /\ \E c \in CallsIn(Held) : c.id = m.id /\ Just(m, c)
  <2>1. PICK c \in T!ToSet(due) : m = T!Result(c.id, "ran")
    BY <1>5
  <2>2. c \in T!ToSet(T!LastReply) /\ ~Ended(c.id, Held) /\ c \in CallsIn(Held)
    BY <1>1, <1>3, <2>1, LastReplyIs
  <2>3. c \in CallRec
    BY <1>1, <2>2, HeldIs
  <2>4. m \in Messages /\ m.role = "tool" /\ m.id = c.id /\ m.outcome = "ran"
    BY <1>4, <2>1, <2>3, ResultIs DEF CallRec
  <2>5. c.tool \in Native
    <3>1. CASE c.tool \in T!InterruptOn
      BY <1>2, <2>2, <3>1 DEF VerdictInv, Waits
    <3>2. CASE c.tool \notin T!InterruptOn
      BY <2>3, <3>2 DEF CallRec, T!Tools, T!InterruptOn
    <3> QED
      BY <3>1, <3>2
  <2>6. c.tool \in T!InterruptOn => said[c.id] = "allow"
    BY <1>2, <2>2 DEF VerdictInv, Waits
  <2> QED
    BY <2>2, <2>4, <2>5, <2>6 DEF Just
<1> QED
  BY <1>2, <1>6, <1>7, ResultsAdded

\* The answer for a call is one of the batch, about that call.
LEMMA AnswerIs ==
  ASSUME NEW batch \in Seq(T!Answers), NEW id \in T!Named(batch)
  PROVE  T!AnswerTo(batch, id) \in T!Answers /\ T!AnswerTo(batch, id).id = id
<1> DEFINE at == {i \in DOMAIN batch : batch[i].id = id}
<1>1. Len(batch) \in Nat /\ DOMAIN batch = 1..Len(batch) /\ \A i \in 1..Len(batch) : batch[i] \in T!Answers
  OBVIOUS
<1>2. at # {} /\ at \in SUBSET (1..Len(batch))
  BY <1>1 DEF T!Named
<1>3. T!AnswerTo(batch, id) = batch[T!Max(at)]
  BY DEF T!AnswerTo
<1>4. T!Max(at) \in at
  <2> HIDE DEF at
  <2> QED
    BY <1>1, <1>2, GreatestIs
<1> QED
  BY <1>1, <1>3, <1>4

\* A decision says what the answer said.
LEMMA DecisionIs ==
  ASSUME NEW answer \in T!Answers
  PROVE  /\ T!Decision(answer) \in {"approve", "reject", "respond"}
         /\ T!Decision(answer) = "approve" => answer.says = "allow"
         /\ T!Decision(answer) = "reject" => answer.says \in {"deny", "error"}
         /\ T!Decision(answer) = "respond" => answer.says = "result"
<1>1. answer.says \in {"allow", "deny", "result", "error"}
  BY DEF T!Answers, T!Verdicts
<1> QED
  BY <1>1 DEF T!Decision

\* Answers that the graph takes say of each call it asks about what is done with it.
LEMMA DecisionsMatch ==
  ASSUME GraphTyped, NEW batch \in Seq(T!Answers), ~T!Refuses(T!Resume(batch)),
         NEW asked, asked = T!Request, NEW ds, ds = T!Resume(batch)
  PROVE  /\ asked \in Seq(CallRec)
         /\ T!ToSet(asked) = {c \in T!ToSet(T!LastReply) : c.tool \in T!InterruptOn}
         /\ \A i \in 1..Len(asked) :
              /\ asked[i].id \in T!Named(batch)
              /\ ds[i] = T!Decision(T!AnswerTo(batch, asked[i].id))
              /\ ds[i] \in T!AllowedDecisions(asked[i].tool)
<1> DEFINE at       == {i \in DOMAIN asked : asked[i].id \in T!Named(batch)}
           answered == T!Only(asked, at)
<1>1. asked \in Seq(CallRec)
      /\ T!ToSet(asked) = {c \in T!ToSet(T!LastReply) : c.tool \in T!InterruptOn}
  BY AskingIs, LastReplyIs DEF T!Request, GraphTyped
<1>2. asked = T!Pending
  BY DEF T!Request, T!Pending
<1>3. ds = [i \in DOMAIN answered |-> T!Decision(T!AnswerTo(batch, answered[i].id))]
  BY <1>2 DEF T!Resume
<1>4. /\ answered \in Seq(CallRec)
      /\ T!ToSet(answered) = {asked[i] : i \in at \cap (1..Len(asked))}
      /\ Len(answered) = Len(asked) => answered = asked
  BY <1>1, OnlyIs
<1> HIDE DEF answered
<1>5. ASSUME NEW i \in DOMAIN answered
      PROVE  answered[i].id \in T!Named(batch)
             /\ T!Decision(T!AnswerTo(batch, answered[i].id)) \in {"approve", "reject", "respond"}
  <2>1. answered[i].id \in T!Named(batch)
    <3>1. answered[i] \in T!ToSet(answered)
      BY DEF T!ToSet
    <3> QED
      BY <1>4, <3>1
  <2> QED
    BY <2>1, AnswerIs, DecisionIs
<1>6. ds \in Seq({"approve", "reject", "respond"}) /\ Len(ds) = Len(answered)
  <2>1. Len(answered) \in Nat /\ DOMAIN answered = 1..Len(answered)
    BY <1>4
  <2>2. ds \in [1..Len(answered) -> {"approve", "reject", "respond"}]
    BY <1>3, <1>5, <2>1
  <2> QED
    BY <2>1, <2>2, IsASeq, LenProperties
<1>7. Len(ds) = Len(asked) /\ \A i \in DOMAIN ds : ds[i] \in T!AllowedDecisions(asked[i].tool)
  BY DEF T!Refuses
<1>8. answered = asked
  BY <1>4, <1>6, <1>7
<1>9. DOMAIN ds = 1..Len(asked) /\ DOMAIN answered = 1..Len(asked)
  BY <1>1, <1>6, <1>7, <1>8
<1> QED
  BY <1>1, <1>3, <1>5, <1>7, <1>8, <1>9

\* What the graph writes of the decisions.
LEMMA WrittenIs ==
  ASSUME NEW asked \in Seq(CallRec), asked = T!Request, NEW ds,
         \A i \in 1..Len(asked) : ds[i] \in {"approve", "reject", "respond"}
  PROVE  /\ T!Written(ds) \in Seq(Messages)
         /\ T!ToSet(T!Written(ds)) =
              {T!Result(asked[i].id, T!Outcome(ds[i])) : i \in {j \in 1..Len(asked) : ds[j] # "approve"}}
<1> DEFINE ss == [i \in DOMAIN asked |->
                    IF ds[i] = "approve" THEN << >> ELSE <<T!Result(asked[i].id, T!Outcome(ds[i]))>>]
<1>1. T!Written(ds) = T!FlattenSeq(ss)
  BY DEF T!Written
<1>2. Len(asked) \in Nat /\ DOMAIN asked = 1..Len(asked) /\ \A i \in 1..Len(asked) : asked[i] \in CallRec
  OBVIOUS
<1>3. \A i \in 1..Len(asked) : T!Result(asked[i].id, T!Outcome(ds[i])) \in Messages
  <2> SUFFICES ASSUME NEW i \in 1..Len(asked)
               PROVE  T!Result(asked[i].id, T!Outcome(ds[i])) \in Messages
    OBVIOUS
  <2>1. asked[i].id \in T!Ids /\ T!Outcome(ds[i]) \in Outcomes
    BY <1>2 DEF CallRec, T!Outcome, Outcomes
  <2> QED
    BY <2>1, ResultIs
<1>4. \A i \in 1..Len(asked) : ss[i] \in Seq(Messages)
  BY <1>2, <1>3
<1>5. ss \in Seq(Seq(Messages)) /\ Len(ss) = Len(asked)
  <2>1. ss \in [1..Len(asked) -> Seq(Messages)]
    BY <1>2, <1>4
  <2> QED
    BY <1>2, <2>1, IsASeq, LenProperties
<1>6. \A i \in 1..Len(asked) :
        T!ToSet(ss[i]) = IF ds[i] = "approve" THEN {} ELSE {T!Result(asked[i].id, T!Outcome(ds[i]))}
  <2>1. \A x : T!ToSet(<<x>>) = {x}
    BY DEF T!ToSet
  <2>2. T!ToSet(<< >>) = {}
    BY DEF T!ToSet
  <2> QED
    BY <1>2, <2>1, <2>2
<1> HIDE DEF ss
<1>7. T!Written(ds) \in Seq(Messages)
      /\ T!ToSet(T!Written(ds)) = UNION {T!ToSet(ss[i]) : i \in 1..Len(asked)}
  BY <1>1, <1>5, SetOfFlatten
<1>8. \A x : x \in UNION {T!ToSet(ss[i]) : i \in 1..Len(asked)} <=>
               \E i \in 1..Len(asked) : ds[i] # "approve" /\ x = T!Result(asked[i].id, T!Outcome(ds[i]))
  <2>1. \A x : x \in UNION {T!ToSet(ss[i]) : i \in 1..Len(asked)} <=>
                 \E i \in 1..Len(asked) : x \in T!ToSet(ss[i])
    OBVIOUS
  <2>2. \A i \in 1..Len(asked) : \A x :
          x \in T!ToSet(ss[i]) <=> ds[i] # "approve" /\ x = T!Result(asked[i].id, T!Outcome(ds[i]))
    BY <1>6
  <2> QED
    BY <2>1, <2>2
<1> QED
  BY <1>7, <1>8

\* Any answers a client can send.
LEMMA BatchIs ==
  ASSUME T!BoundAssumption, NEW batch \in T!Batches
  PROVE  batch \in Seq(T!Answers)
<1>1. PICK m \in Nat : batch \in [1..m -> T!Answers]
  BY DEF T!Batches, T!BoundedSeq, T!SeqOf, T!BoundAssumption
<1> QED
  BY <1>1, IsASeq

\* Answers that the graph takes are written to the calls they are about.
LEMMA AnswersVerdict ==
  ASSUME VerdictInv, NEW batch \in Seq(T!Answers), T!StartAnswers(batch)
  PROVE  VerdictInv'
<1> DEFINE asked == T!Request
           ds    == T!Resume(batch)
           new   == T!Written(ds)
<1>1. msgs \in Seq(Messages) /\ GraphTyped
  BY DEF VerdictInv, GraphTyped
<1>2. /\ msgs' = msgs \o new /\ place \in {"gate", "paused"} /\ place' = "tools"
      /\ config' = config /\ ~T!Refuses(ds)
      /\ said' = [id \in T!Ids |-> IF id \in T!Named(batch) /\ \E call \in T!ToSet(asked) : call.id = id
                                     THEN T!AnswerTo(batch, id).says ELSE said[id]]
  BY DEF T!StartAnswers
<1>3. /\ asked \in Seq(CallRec)
      /\ T!ToSet(asked) = {c \in T!ToSet(T!LastReply) : c.tool \in T!InterruptOn}
      /\ \A i \in 1..Len(asked) :
           /\ asked[i].id \in T!Named(batch)
           /\ ds[i] = T!Decision(T!AnswerTo(batch, asked[i].id))
           /\ ds[i] \in T!AllowedDecisions(asked[i].tool)
  BY <1>1, <1>2, DecisionsMatch
<1>4. \A i \in 1..Len(asked) :
        /\ asked[i] \in CallRec /\ asked[i] \in T!ToSet(asked) /\ asked[i].id \in T!Ids
        /\ asked[i] \in CallsIn(Held) /\ asked[i] \in T!ToSet(T!LastReply)
  <2>1. \A i \in 1..Len(asked) : asked[i] \in CallRec /\ asked[i] \in T!ToSet(asked)
    BY <1>3 DEF T!ToSet
  <2> QED
    BY <1>1, <1>3, <2>1, LastReplyIs DEF CallRec
<1>5. \A i \in 1..Len(asked) : ds[i] \in {"approve", "reject", "respond"}
  BY <1>3, AnswerIs, DecisionIs
<1>6. \A i \in 1..Len(asked) : said'[asked[i].id] = T!AnswerTo(batch, asked[i].id).says
  BY <1>2, <1>3, <1>4
<1>7. ASSUME NEW id \in T!Ids, Ended(id, Held) PROVE said'[id] = said[id]
  <2>1. ~\E c \in T!ToSet(asked) : c.id = id
    BY <1>2, <1>3, <1>7 DEF VerdictInv, Waits
  <2> QED
    BY <1>2, <2>1
<1> HIDE DEF asked, ds
<1>8. /\ new \in Seq(Messages)
      /\ T!ToSet(new) = {T!Result(asked[i].id, T!Outcome(ds[i])) : i \in {j \in 1..Len(asked) : ds[j] # "approve"}}
  BY <1>3, <1>5, WrittenIs DEF asked
<1> HIDE DEF new
<1>9. ASSUME NEW i \in 1..Len(asked)
      PROVE  /\ T!Result(asked[i].id, T!Outcome(ds[i])).role = "tool"
             /\ T!Result(asked[i].id, T!Outcome(ds[i])).id = asked[i].id
             /\ T!Result(asked[i].id, T!Outcome(ds[i])).outcome = T!Outcome(ds[i])
  <2>1. T!Outcome(ds[i]) \in Outcomes
    BY DEF T!Outcome, Outcomes
  <2> QED
    BY <1>4, <2>1, ResultIs
<1>10. \A m \in T!ToSet(new) : m.role = "tool"
  BY <1>8, <1>9
<1>11. msgs' \in Seq(Messages) /\ Held' = Held \cup T!ToSet(new) /\ T!ToSet(new) \in SUBSET Messages
  <2>1. T!ToSet(msgs \o new) = T!ToSet(msgs) \cup T!ToSet(new)
    BY <1>1, <1>8, SetOfConcat
  <2>2. T!ToSet(new) \in SUBSET Messages
    BY <1>8 DEF T!ToSet
  <2> QED
    BY <1>1, <1>2, <1>8, <2>1, <2>2, ConcatProperties DEF Held
<1>12. CallsIn(Held') = CallsIn(Held)
  <2>1. Held \in SUBSET Messages
    BY <1>1, HeldIs
  <2> QED
    BY <1>10, <1>11, <2>1, NoMoreCalls
<1>13. T!InterruptOn' = T!InterruptOn
  BY <1>2, SamePolicy
<1>14. T!LastReply' = T!LastReply
  <2>1. \A i \in 1..Len(new) : new[i].role # "ai"
    BY <1>8, <1>10 DEF T!ToSet
  <2> QED
    BY <1>1, <1>2, <1>8, <2>1, SameReply
<1>15. GraphTyped'
  BY <1>1, <1>2, <1>11 DEF GraphTyped
<1>16. Numbers(CallsIn(Held))'
  BY <1>12 DEF VerdictInv, Numbers
<1>17. Judged'
  <2> SUFFICES ASSUME NEW m \in Held', m.role = "tool"
               PROVE  \E c \in CallsIn(Held') : c.id = m.id /\ Just(m, c)'
    BY DEF Judged
  <2>1. CASE m \in Held
    <3>1. PICK c \in CallsIn(Held) : c.id = m.id /\ Just(m, c)
      BY <2>1 DEF VerdictInv, Judged
    <3>2. Ended(c.id, Held) /\ c.id \in T!Ids
      BY <1>1, <2>1, <3>1, HeldIs DEF Ended, CallRec
    <3>3. Just(m, c)'
      BY <1>7, <1>13, <3>1, <3>2 DEF Just
    <3> QED
      BY <1>12, <3>1, <3>3
  <2>2. CASE m \in T!ToSet(new)
    <3>1. PICK i \in 1..Len(asked) :
            ds[i] # "approve" /\ m = T!Result(asked[i].id, T!Outcome(ds[i]))
      BY <1>8, <2>2
    <3>2. ds[i] = "reject" => said'[asked[i].id] \in {"deny", "error"}
      BY <1>3, <1>6, <3>1, AnswerIs, DecisionIs
    <3>3. ds[i] = "respond" => said'[asked[i].id] = "result"
      BY <1>3, <1>6, <3>1, AnswerIs, DecisionIs
    <3>4. m.id = asked[i].id /\ m.outcome = T!Outcome(ds[i])
      BY <1>9, <3>1
    <3>5. T!Outcome(ds[i]) = IF ds[i] = "reject" THEN "rejected" ELSE "responded"
      BY DEF T!Outcome
    <3>6. PICK c \in CallsIn(Held) : c = asked[i]
      BY <1>4
    <3>7. Just(m, c)'
      BY <1>5, <3>1, <3>2, <3>3, <3>4, <3>5, <3>6 DEF Just
    <3> QED
      BY <1>12, <3>4, <3>6, <3>7
  <2> QED
    BY <1>11, <2>1, <2>2
<1>18. Waits'
  <2> SUFFICES ASSUME NEW c \in T!ToSet(T!LastReply), c.tool \in T!InterruptOn, ~Ended(c.id, Held')
               PROVE  c.tool \in Native /\ said'[c.id] = "allow"
    BY <1>2, <1>13, <1>14 DEF Waits
  <2>1. PICK i \in 1..Len(asked) : c = asked[i]
    <3>1. c \in T!ToSet(asked)
      BY <1>3
    <3> QED
      BY <1>3, <3>1 DEF T!ToSet
  <2>2. ds[i] = "approve"
    <3> SUFFICES ASSUME ds[i] # "approve" PROVE FALSE
      OBVIOUS
    <3>1. T!Result(asked[i].id, T!Outcome(ds[i])) \in Held'
      BY <1>8, <1>11
    <3> QED
      BY <1>9, <2>1, <3>1 DEF Ended
  <2>3. c.tool \notin Custom
    BY <1>3, <2>1, <2>2 DEF T!AllowedDecisions
  <2>4. c.tool \in Native
    BY <1>4, <2>1, <2>3 DEF CallRec, T!Tools
  <2>5. said'[c.id] = "allow"
    BY <1>3, <1>6, <2>1, <2>2, AnswerIs, DecisionIs
  <2> QED
    BY <2>4, <2>5
<1> QED
  BY <1>15, <1>16, <1>17, <1>18 DEF VerdictInv

\* The invariant holds at first ...
LEMMA VerdictInit == T!BoundAssumption /\ T!Init => VerdictInv
<1> SUFFICES ASSUME T!BoundAssumption, T!Init PROVE VerdictInv
  OBVIOUS
<1>1. msgs = << >> /\ Held = {}
  BY DEF T!Init, Held, T!ToSet
<1>2. GraphTyped
  BY <1>1 DEF T!Init, GraphTyped
<1>3. CallsIn(Held) = {}
  BY <1>1 DEF CallsIn
<1>4. Numbers(CallsIn(Held))
  <2>1. {c.id : c \in CallsIn(Held)} = 1..0 /\ 0 \in 0..MaxCalls
    BY <1>3 DEF T!BoundAssumption
  <2> QED
    BY <1>3, <2>1 DEF Numbers
<1>5. Judged /\ Waits
  BY <1>1 DEF Judged, Waits, T!Init
<1> QED
  BY <1>2, <1>4, <1>5 DEF VerdictInv

\* ... and every step keeps it.
LEMMA VerdictNext ==
  ASSUME T!BoundAssumption, VerdictInv, [T!Step]_(T!turnVars)
  PROVE  VerdictInv'
<1>1. CASE T!StartMessage
  BY <1>1, MessageVerdict
<1>2. CASE T!Patch
  BY <1>2, PatchVerdict
<1>3. CASE T!Gate
  BY <1>3, GateVerdict
<1>4. CASE T!RunTools
  BY <1>4, ToolsVerdict
<1>5. CASE T!StartOnwards \/ T!Emit \/ T!Finish \/ T!Release \/ T!Cut
  BY <1>5, NothingAdded DEF T!StartOnwards, T!Emit, T!Finish, T!Release, T!Cut
<1>6. ASSUME NEW batch \in T!Batches, T!StartAnswers(batch) PROVE VerdictInv'
  BY <1>6, BatchIs, AnswersVerdict
<1>7. ASSUME NEW batch \in T!Batches, T!StartFails(batch) PROVE VerdictInv'
  BY <1>7, NothingAdded DEF T!StartFails
<1>8. ASSUME NEW tools \in T!BoundedSeq(T!Tools, MaxReply), T!Model(tools) PROVE VerdictInv'
  BY <1>8, ModelVerdict
<1>9. CASE UNCHANGED T!turnVars
  BY <1>9, NothingAdded DEF T!turnVars
<1> QED
  BY <1>1, <1>2, <1>3, <1>4, <1>5, <1>6, <1>7, <1>8, <1>9 DEF T!Step

\* Whatever order the answers of a client come in, and wherever turns are cut, each call
\* comes out as the client said of that very call (_build_resume).
THEOREM VerdictsAreRight == ASSUME T!BoundAssumption PROVE T!TurnSpec => []RightVerdict
<1>1. VerdictInv => RightVerdict
  <2> SUFFICES ASSUME VerdictInv, NEW i \in DOMAIN msgs, msgs[i].role = "tool"
               PROVE  LET id == msgs[i].id IN
                        CASE msgs[i].outcome = "ran"       ->
                               T!ToolOf(id) \in Native /\ (T!ToolOf(id) \in T!InterruptOn => said[id] = "allow")
                          [] msgs[i].outcome = "rejected"  -> said[id] \in {"deny", "error"}
                          [] msgs[i].outcome = "responded" -> said[id] = "result"
                          [] msgs[i].outcome = "cancelled" -> TRUE
    BY DEF RightVerdict, T!RightVerdict
  <2>1. msgs \in Seq(Messages) /\ msgs[i] \in Held
    BY DEF VerdictInv, GraphTyped, Held, T!ToSet
  <2>2. msgs[i] \in Messages
    BY <2>1, HeldIs
  <2>3. PICK c \in CallsIn(Held) : c.id = msgs[i].id /\ Just(msgs[i], c)
    BY <2>1 DEF VerdictInv, Judged
  <2>4. T!ToolOf(c.id) = c.tool
    <3> DEFINE is(tool) == \E j \in DOMAIN msgs : \E k \in DOMAIN T!Calls(msgs[j]) :
                             T!Calls(msgs[j])[k].id = c.id /\ T!Calls(msgs[j])[k].tool = tool
    <3>1. c.tool \in T!Tools
      BY <2>1, HeldIs DEF CallRec
    <3>2. is(c.tool)
      BY DEF CallsIn, Held, T!ToSet
    <3>3. ASSUME NEW tool, is(tool) PROVE tool = c.tool
      <4>1. PICK j \in DOMAIN msgs : \E k \in DOMAIN T!Calls(msgs[j]) :
              T!Calls(msgs[j])[k].id = c.id /\ T!Calls(msgs[j])[k].tool = tool
        BY <3>3
      <4>2. PICK k \in DOMAIN T!Calls(msgs[j]) :
              T!Calls(msgs[j])[k].id = c.id /\ T!Calls(msgs[j])[k].tool = tool
        BY <4>1
      <4>3. T!Calls(msgs[j])[k] \in CallsIn(Held)
        BY DEF CallsIn, Held, T!ToSet
      <4> QED
        BY <4>2, <4>3 DEF VerdictInv, Numbers
    <3>4. T!ToolOf(c.id) = CHOOSE tool \in T!Tools : is(tool)
      BY DEF T!ToolOf
    <3> HIDE DEF is
    <3> QED
      BY <3>1, <3>2, <3>3, <3>4
  <2>5. msgs[i].outcome \in {"ran", "rejected", "responded", "cancelled"}
    BY <2>2, MessageIs DEF Outcomes
  <2> QED
    BY <2>3, <2>4, <2>5 DEF Just
<1> QED
  BY <1>1, VerdictInit, VerdictNext, PTL DEF T!TurnSpec

(***************************************************************************)
(* What is said.                                                           *)
(***************************************************************************)

\* What is in a list without its first item.
LEMMA SetOfTail ==
  ASSUME NEW S, NEW s \in Seq(S), s # << >>
  PROVE  Tail(s) \in Seq(S) /\ Head(s) \in S /\ T!ToSet(s) = {Head(s)} \cup T!ToSet(Tail(s))
<1>1. /\ Tail(s) \in Seq(S) /\ Head(s) = s[1] /\ Len(s) \in Nat /\ Len(s) # 0 /\ DOMAIN s = 1..Len(s)
      /\ Len(Tail(s)) = Len(s) - 1 /\ DOMAIN Tail(s) = 1..(Len(s) - 1)
      /\ \A i \in 1..(Len(s) - 1) : Tail(s)[i] = s[i + 1]
  OBVIOUS
<1>2. ASSUME NEW i \in 1..Len(s) PROVE s[i] \in {Head(s)} \cup T!ToSet(Tail(s))
  <2>1. CASE i = 1
    BY <1>1, <2>1
  <2>2. CASE i # 1
    <3>1. i - 1 \in 1..(Len(s) - 1) /\ (i - 1) + 1 = i
      BY <1>1, <2>2
    <3>2. Tail(s)[i - 1] = s[i]
      BY <1>1, <3>1
    <3> QED
      BY <1>1, <3>1, <3>2 DEF T!ToSet
  <2> QED
    BY <2>1, <2>2
<1>3. \A i \in 1..(Len(s) - 1) : i + 1 \in 1..Len(s)
  BY <1>1
<1>4. s[1] \in T!ToSet(s) /\ s[1] \in S
  BY <1>1 DEF T!ToSet
<1>5. T!ToSet(Tail(s)) \subseteq T!ToSet(s)
  BY <1>1, <1>3 DEF T!ToSet
<1>6. T!ToSet(s) \subseteq {Head(s)} \cup T!ToSet(Tail(s))
  BY <1>1, <1>2 DEF T!ToSet
<1> QED
  BY <1>1, <1>4, <1>5, <1>6

\* What is said of a call, of a result, and of a message.
LEMMA UseIs ==
  ASSUME NEW c \in CallRec
  PROVE  /\ T!Use(c) \in Events /\ T!Use(c).type = "use" /\ T!Use(c).id = c.id
         /\ T!Use(c).asks = (c.tool \in T!InterruptOn)
  BY DEF T!Use, Events, CallRec

LEMMA ToldIs ==
  ASSUME NEW m \in Messages, m.role = "tool"
  PROVE  T!Told(m) \in Events /\ T!Told(m).type = "result" /\ T!Told(m).id = m.id
  BY MessageIs DEF T!Told, Events

LEMMA EventsOfIs ==
  ASSUME NEW m \in Messages
  PROVE  /\ T!EventsOf(m) \in Seq(Events)
         /\ m.role = "ai" => T!ToSet(T!EventsOf(m)) = {T!Use(c) : c \in T!ToSet(T!Calls(m))}
         /\ m.role = "tool" => T!ToSet(T!EventsOf(m)) = {T!Told(m)}
         /\ m.role = "human" => T!ToSet(T!EventsOf(m)) = {}
<1>1. CASE m.role = "ai"
  <2>1. T!Calls(m) = m.calls /\ m.calls \in Seq(CallRec)
    BY <1>1, MessageIs
  <2>2. T!EventsOf(m) = [i \in DOMAIN m.calls |-> T!Use(m.calls[i])]
    BY <1>1 DEF T!EventsOf
  <2>3. Len(m.calls) \in Nat /\ DOMAIN m.calls = 1..Len(m.calls)
        /\ \A i \in 1..Len(m.calls) : m.calls[i] \in CallRec
    BY <2>1
  <2>4. T!EventsOf(m) \in [1..Len(m.calls) -> Events]
    BY <2>2, <2>3, UseIs
  <2>5. T!EventsOf(m) \in Seq(Events)
    <3>1. PICK n \in Nat : T!EventsOf(m) \in [1..n -> Events]
      BY <2>3, <2>4
    <3> QED
      BY <3>1, IsASeq
  <2>6. T!ToSet(T!EventsOf(m)) = {T!Use(c) : c \in T!ToSet(m.calls)}
    BY <2>2, <2>3 DEF T!ToSet
  <2> QED
    BY <1>1, <2>1, <2>5, <2>6
<1>2. CASE m.role = "tool"
  <2>1. T!EventsOf(m) = <<T!Told(m)>>
    BY <1>2 DEF T!EventsOf
  <2> QED
    BY <1>2, <2>1, ToldIs DEF T!ToSet
<1>3. CASE m.role = "human"
  <2>1. T!EventsOf(m) = << >>
    BY <1>3 DEF T!EventsOf
  <2> QED
    BY <1>3, <2>1 DEF T!ToSet
<1> QED
  BY <1>1, <1>2, <1>3, MessageIs

\* What is said of the end of a list is said of one of its messages.
LEMMA EventsFromIs ==
  ASSUME NEW list \in Seq(Messages), NEW n \in 0..Len(list)
  PROVE  /\ T!EventsFrom(list, n) \in Seq(Events)
         /\ \A e : e \in T!ToSet(T!EventsFrom(list, n)) <=>
                     \E i \in (n + 1)..Len(list) : e \in T!ToSet(T!EventsOf(list[i]))
<1> DEFINE k  == Len(list) - n
           ss == [i \in 1..k |-> T!EventsOf(list[n + i])]
<1>1. k \in Nat /\ Len(list) \in Nat /\ \A i \in 1..k : n + i \in (n + 1)..Len(list) /\ n + i \in 1..Len(list)
  OBVIOUS
<1>2. \A i \in (n + 1)..Len(list) : i - n \in 1..k /\ n + (i - n) = i
  OBVIOUS
<1>3. \A i \in 1..Len(list) : list[i] \in Messages
  OBVIOUS
<1>4. T!EventsFrom(list, n) = T!FlattenSeq(ss)
  BY DEF T!EventsFrom
<1>5. \A i \in 1..k : ss[i] = T!EventsOf(list[n + i]) /\ ss[i] \in Seq(Events)
  BY <1>1, <1>3, EventsOfIs
<1>6. ss \in Seq(Seq(Events)) /\ Len(ss) = k
  <2>1. ss \in [1..k -> Seq(Events)]
    BY <1>5
  <2> HIDE DEF ss, k
  <2> QED
    BY <1>1, <2>1, IsASeq, LenProperties
<1> HIDE DEF ss, k
<1>7. T!EventsFrom(list, n) \in Seq(Events)
      /\ T!ToSet(T!EventsFrom(list, n)) = UNION {T!ToSet(ss[i]) : i \in 1..k}
  BY <1>4, <1>6, SetOfFlatten
<1>8. \A e : e \in UNION {T!ToSet(ss[i]) : i \in 1..k} <=> \E i \in 1..k : e \in T!ToSet(ss[i])
  OBVIOUS
<1>9. \A e : (\E i \in 1..k : e \in T!ToSet(ss[i])) <=>
               \E i \in (n + 1)..Len(list) : e \in T!ToSet(T!EventsOf(list[i]))
  BY <1>1, <1>2, <1>5
<1> QED
  BY <1>7, <1>8, <1>9

\* What is said of a message that is there is so.
LEMMA EventsAreTrue ==
  ASSUME config' = config, NEW held \in SUBSET Messages, Held' = held,
         NEW m \in held, NEW e \in T!ToSet(T!EventsOf(m))
  PROVE  True(e)'
<1>0. T!InterruptOn' = T!InterruptOn
  BY SamePolicy
<1>1. CASE m.role = "ai"
  <2>1. PICK c \in T!ToSet(T!Calls(m)) : e = T!Use(c)
    BY <1>1, EventsOfIs
  <2>2. c \in CallRec
    <3>1. T!Calls(m) \in Seq(CallRec)
      BY MessageIs
    <3> QED
      BY <3>1 DEF T!ToSet
  <2>3. e.type = "use" /\ e.id = c.id /\ e.asks = (c.tool \in T!InterruptOn)
    BY <2>1, <2>2, UseIs
  <2>4. c \in CallsIn(Held')
    BY DEF CallsIn
  <2> QED
    BY <1>0, <2>3, <2>4 DEF True
<1>2. CASE m.role = "tool"
  <2>1. e.type = "result" /\ e.id = m.id
    BY <1>2, EventsOfIs, ToldIs
  <2>2. Ended(e.id, Held')
    BY <1>2, <2>1 DEF Ended
  <2> QED
    BY <2>1, <2>2 DEF True
<1>3. CASE m.role = "human"
  BY <1>3, EventsOfIs
<1> QED
  BY <1>1, <1>2, <1>3, MessageIs

\* What is so stays so: messages are only added.
LEMMA TruthKept ==
  ASSUME config' = config, Held \subseteq Held', NEW e, True(e)
  PROVE  True(e)'
<1>1. T!InterruptOn' = T!InterruptOn /\ CallsIn(Held) \subseteq CallsIn(Held')
  BY SamePolicy DEF CallsIn
<1>2. Ended(e.id, Held) => Ended(e.id, Held')
  BY DEF Ended
<1> QED
  BY <1>1, <1>2 DEF True

\* A turn that goes on, past the client, and has something new to say or nothing.
LEMMA GoesOn ==
  ASSUME VerdictInv, TalkInv, msgs' \in Seq(Messages), config' = config, Held \subseteq Held',
         turn' = "running", parked' = FALSE, seen' = Len(msgs'), log' = log,
         announced' = announced \/ announced' = {},
         place' # "paused",
         \/ todo' = << >>
         \/ \E n \in 0..Len(msgs') : todo' = T!EventsFrom(msgs', n)
  PROVE  /\ TalkTyped' /\ Truthful' /\ LastWord'
         /\ place' # "gate" => AllAnnounced'
<1>1. todo' \in Seq(Events) /\ \A e \in T!ToSet(todo') : True(e)'
  <2>1. CASE todo' = << >>
    BY <2>1 DEF T!ToSet
  <2>2. ASSUME NEW n \in 0..Len(msgs'), todo' = T!EventsFrom(msgs', n)
        PROVE  todo' \in Seq(Events) /\ \A e \in T!ToSet(todo') : True(e)'
    <3>1. PICK list \in Seq(Messages) : list = msgs'
      OBVIOUS
    <3>2. PICK held \in SUBSET Messages : held = Held' /\ \A i \in 1..Len(list) : list[i] \in held
      <4>1. DOMAIN list = 1..Len(list) /\ \A i \in 1..Len(list) : list[i] \in Messages
        OBVIOUS
      <4>2. Held' = {list[i] : i \in DOMAIN list}
        BY <3>1 DEF Held, T!ToSet
      <4> QED
        BY <4>1, <4>2
    <3>3. ASSUME NEW e \in T!ToSet(todo') PROVE True(e)'
      <4>1. PICK i \in (n + 1)..Len(list) : e \in T!ToSet(T!EventsOf(list[i]))
        BY <2>2, <3>1, <3>3, EventsFromIs
      <4>2. i \in 1..Len(list)
        BY <2>2, <3>1
      <4>3. list[i] \in held
        BY <3>2, <4>2
      <4> QED
        BY <3>2, <4>1, <4>3, EventsAreTrue
    <3>4. todo' \in Seq(Events)
      BY <2>2, <3>1, EventsFromIs
    <3> QED
      BY <3>3, <3>4
  <2> QED
    BY <2>1, <2>2
<1>2. TalkTyped'
  BY <1>1 DEF TalkInv, TalkTyped
<1>3. Truthful'
  <2>1. \A e \in T!ToSet(log) : True(e)'
    BY TruthKept DEF TalkInv, Truthful, Told
  <2>2. Told' = T!ToSet(log) \cup T!ToSet(todo')
    BY DEF Told
  <2>3. \A id \in announced' : Announced(id, T!ToSet(log))
    BY DEF TalkInv, Truthful
  <2> QED
    BY <1>1, <2>1, <2>2, <2>3 DEF Truthful
<1>4. LastWord'
  BY DEF LastWord
<1>5. place' # "gate" => AllAnnounced'
  BY DEF AllAnnounced
<1> QED
  BY <1>2, <1>3, <1>4, <1>5

\* The starts of a turn and the nodes of the graph, each by what it adds.
LEMMA MessageTalk == ASSUME VerdictInv, VerdictInv', TalkInv, T!StartMessage PROVE TalkInv'
<1>1. msgs \in Seq(Messages) /\ msgs' = Append(msgs, T!Human) /\ T!Human \in Messages
  BY HumanIs DEF VerdictInv, GraphTyped, T!StartMessage
<1>2. msgs' \in Seq(Messages) /\ Held \subseteq Held' /\ Len(msgs') = Len(msgs) + 1
  <2>1. msgs' \in Seq(Messages) /\ T!ToSet(msgs') = T!ToSet(msgs) \cup {T!Human}
    BY <1>1, SetOfAppend
  <2> QED
    BY <1>1, <2>1 DEF Held
<1>3. /\ config' = config /\ turn' = "running" /\ parked' = FALSE /\ seen' = Len(msgs) + 1
      /\ log' = log /\ announced' = {} /\ place' = "patch" /\ todo' = << >>
  BY DEF T!StartMessage, T!Begin
<1> QED
  BY <1>2, <1>3, GoesOn DEF TalkInv

LEMMA AnswersTalk ==
  ASSUME VerdictInv, VerdictInv', TalkInv, NEW batch \in Seq(T!Answers), T!StartAnswers(batch)
  PROVE  TalkInv'
<1> DEFINE new == T!Written(T!Resume(batch))
<1>1. msgs \in Seq(Messages) /\ msgs' \in Seq(Messages)
  BY DEF VerdictInv, GraphTyped
<1>2. /\ msgs' = msgs \o new /\ todo' = T!EventsFrom(msgs', Len(msgs)) /\ seen' = Len(msgs')
      /\ config' = config /\ turn' = "running" /\ parked' = FALSE /\ ~T!Refuses(T!Resume(batch))
      /\ log' = log /\ announced' = {} /\ place' = "tools"
  BY DEF T!StartAnswers, T!Begin
<1>3. new \in Seq(Messages)
  <2>1. GraphTyped
    BY DEF VerdictInv
  <2>2. T!Request \in Seq(CallRec)
        /\ \A i \in 1..Len(T!Request) :
             /\ T!Request[i].id \in T!Named(batch)
             /\ T!Resume(batch)[i] = T!Decision(T!AnswerTo(batch, T!Request[i].id))
    BY <1>2, <2>1, DecisionsMatch
  <2>3. \A i \in 1..Len(T!Request) : T!Resume(batch)[i] \in {"approve", "reject", "respond"}
    BY <2>2, AnswerIs, DecisionIs
  <2> QED
    BY <2>2, <2>3, WrittenIs
<1> HIDE DEF new
<1>4. Held \subseteq Held' /\ Len(msgs) \in 0..Len(msgs')
  <2>1. T!ToSet(msgs \o new) = T!ToSet(msgs) \cup T!ToSet(new)
    BY <1>1, <1>3, SetOfConcat
  <2>2. Len(msgs') = Len(msgs) + Len(new) /\ Len(new) \in Nat /\ Len(msgs) \in Nat
    BY <1>1, <1>2, <1>3
  <2> QED
    BY <1>2, <2>1, <2>2 DEF Held
<1> QED
  BY <1>1, <1>2, <1>4, GoesOn DEF TalkInv

\* A turn that runs is not parked, and nothing is left to say where a node is due.
LEMMA NodeIs ==
  ASSUME TalkInv, NEW name, T!Node(name)
  PROVE  turn = "running" /\ parked = FALSE /\ seen = Len(msgs) /\ todo = << >> /\ place = name
  BY DEF TalkInv, TalkTyped, LastWord, T!Node

LEMMA PatchTalk == ASSUME VerdictInv, VerdictInv', TalkInv, T!Patch PROVE TalkInv'
<1>1. msgs \in Seq(Messages) /\ msgs' \in Seq(Messages)
  BY DEF VerdictInv, GraphTyped
<1>2. /\ seen' = Len(msgs') /\ todo' = T!EventsFrom(msgs', seen)
      /\ config' = config /\ turn' = turn /\ parked' = parked /\ log' = log
      /\ announced' = announced /\ place' = "model"
  BY DEF T!Patch, T!Snapshot
<1>3. turn = "running" /\ parked = FALSE /\ seen = Len(msgs)
  BY NodeIs DEF T!Patch
<1>4. Held \subseteq Held'
  BY <1>1, PatchedIs
<1>5. Len(msgs) \in 0..Len(msgs')
  BY <1>1, PatchedIs
<1> QED
  BY <1>1, <1>2, <1>3, <1>4, <1>5, GoesOn DEF TalkInv

LEMMA ToolsTalk == ASSUME VerdictInv, VerdictInv', TalkInv, T!RunTools PROVE TalkInv'
<1> DEFINE due == T!Unanswered(T!LastReply)
           new == [i \in DOMAIN due |-> T!Result(due[i].id, "ran")]
<1>1. msgs \in Seq(Messages) /\ msgs' \in Seq(Messages)
  BY DEF VerdictInv, GraphTyped
<1>2. /\ msgs' = msgs \o new /\ seen' = Len(msgs') /\ todo' = T!EventsFrom(msgs', seen)
      /\ config' = config /\ turn' = turn /\ parked' = parked /\ log' = log
      /\ announced' = announced /\ place' = "model"
  BY DEF T!RunTools, T!Snapshot
<1>3. turn = "running" /\ parked = FALSE /\ seen = Len(msgs)
  BY NodeIs DEF T!RunTools
<1>4. due \in Seq(CallRec) /\ "ran" \in Outcomes
  BY <1>1, LastReplyIs, UnansweredIs DEF Outcomes
<1> HIDE DEF due
<1>5. new \in Seq(Messages)
  BY <1>4, ResultsOf
<1> HIDE DEF new
<1>6. Held \subseteq Held' /\ Len(msgs) \in 0..Len(msgs')
  <2>1. T!ToSet(msgs \o new) = T!ToSet(msgs) \cup T!ToSet(new)
    BY <1>1, <1>5, SetOfConcat
  <2>2. Len(msgs') = Len(msgs) + Len(new) /\ Len(new) \in Nat /\ Len(msgs) \in Nat
    BY <1>1, <1>2, <1>5
  <2> QED
    BY <1>2, <2>1, <2>2 DEF Held
<1> QED
  BY <1>1, <1>2, <1>3, <1>6, GoesOn DEF TalkInv

\* The calls of a new reply are all about to be announced.
LEMMA ModelTalk ==
  ASSUME T!BoundAssumption, VerdictInv, VerdictInv', TalkInv,
         NEW tools \in T!BoundedSeq(T!Tools, MaxReply), T!Model(tools)
  PROVE  TalkInv'
<1>1. msgs \in Seq(Messages) /\ msgs' \in Seq(Messages)
  BY DEF VerdictInv, GraphTyped
<1>2. PICK cs \in Seq(CallRec) : msgs' = Append(msgs, T!Reply(cs))
  BY NewCalls
<1>3. /\ seen' = Len(msgs') /\ todo' = T!EventsFrom(msgs', seen)
      /\ config' = config /\ turn' = turn /\ parked' = parked /\ log' = log
      /\ announced' = announced /\ place' = "gate"
  BY DEF T!Model, T!Snapshot
<1>4. turn = "running" /\ parked = FALSE /\ seen = Len(msgs)
  BY NodeIs DEF T!Model
<1>5. T!Reply(cs) \in Messages /\ T!Reply(cs).role = "ai" /\ T!Calls(T!Reply(cs)) = cs
  BY ReplyIs
<1>6. Len(msgs) \in Nat /\ Len(msgs') = Len(msgs) + 1 /\ msgs'[Len(msgs) + 1] = T!Reply(cs)
      /\ Held \subseteq Held'
  <2>1. T!ToSet(Append(msgs, T!Reply(cs))) = T!ToSet(msgs) \cup {T!Reply(cs)}
    BY <1>1, <1>5, SetOfAppend
  <2> QED
    BY <1>1, <1>2, <2>1 DEF Held
<1>7. Len(msgs) \in 0..Len(msgs')
  BY <1>6
<1>8. TalkTyped' /\ Truthful' /\ LastWord'
  BY <1>1, <1>3, <1>4, <1>6, <1>7, GoesOn
<1>9. AllAnnounced'
  <2>1. T!LastReply' = cs
    BY <1>1, <1>2, NewReply
  <2>2. ASSUME NEW c \in T!ToSet(cs) PROVE Announced(c.id, Told')
    <3>1. c \in CallRec
      BY DEF T!ToSet
    <3>2. T!Use(c) \in T!ToSet(T!EventsOf(T!Reply(cs)))
      BY <1>5, EventsOfIs
    <3>3. Len(msgs) + 1 \in (Len(msgs) + 1)..Len(msgs')
      BY <1>6
    <3>4. T!Use(c) \in T!ToSet(todo')
      BY <1>1, <1>3, <1>4, <1>6, <1>7, <3>2, <3>3, EventsFromIs
    <3>5. T!Use(c) \in Told'
      BY <3>4 DEF Told
    <3> QED
      BY <3>1, <3>5, UseIs DEF Announced
  <2> QED
    BY <2>1, <2>2 DEF AllAnnounced
<1> QED
  BY <1>8, <1>9 DEF TalkInv

\* What goes into the log is what was to be said; what does not was announced before.
LEMMA EmitTalk == ASSUME VerdictInv, TalkInv, T!Emit PROVE TalkInv'
<1> DEFINE event == Head(todo)
<1>1. /\ turn = "running" /\ todo # << >> /\ todo' = Tail(todo)
      /\ msgs' = msgs /\ config' = config /\ place' = place /\ turn' = turn /\ parked' = parked
      /\ seen' = seen
  BY DEF T!Emit
<1>2. \/ log' = log /\ event.type = "use" /\ event.id \in announced
         /\ announced' = announced \cup {event.id}
      \/ log' = Append(log, event)
         /\ \/ event.type = "use" /\ announced' = announced \cup {event.id}
            \/ announced' = announced
  BY DEF T!Emit
<1>3. log \in Seq(Events) /\ todo \in Seq(Events)
  BY DEF TalkInv, TalkTyped
<1>4. Tail(todo) \in Seq(Events) /\ event \in Events /\ T!ToSet(todo) = {event} \cup T!ToSet(Tail(todo))
  BY <1>1, <1>3, SetOfTail
<1>5. Append(log, event) \in Seq(Events) /\ T!ToSet(Append(log, event)) = T!ToSet(log) \cup {event}
  BY <1>3, <1>4, SetOfAppend
<1> HIDE DEF event
<1>6. log' \in Seq(Events) /\ T!ToSet(log) \subseteq T!ToSet(log')
      /\ T!ToSet(log') \subseteq T!ToSet(log) \cup {event}
  BY <1>2, <1>3, <1>5
<1>7. Held' = Held /\ T!InterruptOn' = T!InterruptOn /\ T!LastReply' = T!LastReply
  BY <1>1, SamePolicy DEF Held, T!LastReply
<1>8. TalkTyped'
  BY <1>1, <1>4, <1>6 DEF TalkInv, TalkTyped
<1>9. Told' \subseteq Told
  BY <1>1, <1>4, <1>6 DEF Told
<1>10. \A id \in announced' : Announced(id, T!ToSet(log'))
  <2> SUFFICES ASSUME NEW id \in announced' PROVE Announced(id, T!ToSet(log'))
    OBVIOUS
  <2>1. CASE id \in announced
    BY <1>6, <2>1 DEF TalkInv, Truthful, Announced
  <2>2. CASE id \notin announced
    BY <1>2, <1>5, <2>2 DEF Announced
  <2> QED
    BY <2>1, <2>2
<1>11. Truthful'
  <2>1. \A e \in Told' : True(e)'
    BY <1>1, <1>7, <1>9, TruthKept DEF TalkInv, Truthful
  <2> QED
    BY <1>10, <2>1 DEF Truthful
<1>12. AllAnnounced'
  <2> SUFFICES ASSUME AllAnnounced, NEW id, Announced(id, Told) PROVE Announced(id, Told')
    BY <1>1, <1>7 DEF AllAnnounced, TalkInv
  <2>1. PICK e \in Told : e.type = "use" /\ e.id = id
    BY DEF Announced
  <2>2. CASE e \in T!ToSet(log) \cup T!ToSet(Tail(todo))
    BY <1>1, <1>6, <2>1, <2>2 DEF Announced, Told
  <2>3. CASE e = event
    <3>1. CASE log' = Append(log, event)
      BY <1>5, <2>1, <2>3, <3>1 DEF Announced, Told
    <3>2. CASE event.id \in announced
      <4>1. Announced(id, T!ToSet(log))
        BY <2>1, <2>3, <3>2 DEF TalkInv, Truthful
      <4> QED
        BY <1>6, <4>1 DEF Announced, Told
    <3> QED
      BY <1>2, <3>1, <3>2
  <2> QED
    BY <1>4, <2>1, <2>2, <2>3 DEF Told
<1>13. LastWord'
  <2>1. T!Pending' = T!Pending
    BY <1>1 DEF T!Pending, T!Asking, T!LastReply, T!InterruptOn, T!Policy
  <2> QED
    BY <1>1, <2>1 DEF TalkInv, LastWord
<1> QED
  BY <1>8, <1>11, <1>12, <1>13 DEF TalkInv

\* Where messages and toolset stay, so does what is asked.
LEMMA SameQuestion ==
  ASSUME msgs' = msgs, config' = config
  PROVE  /\ Held' = Held /\ T!InterruptOn' = T!InterruptOn /\ T!LastReply' = T!LastReply
         /\ T!Pending' = T!Pending /\ PendingIds' = PendingIds
         /\ \A e : True(e) <=> True(e)'
<1>1. Held' = Held /\ T!InterruptOn' = T!InterruptOn /\ T!LastReply' = T!LastReply
  BY SamePolicy DEF Held, T!LastReply
<1>2. T!Pending' = T!Pending
  BY <1>1 DEF T!Pending, T!Asking
<1>3. PendingIds' = PendingIds
  BY <1>2 DEF PendingIds
<1>4. \A e : True(e) <=> True(e)'
  BY <1>1 DEF True
<1> QED
  BY <1>1, <1>2, <1>3, <1>4

\* The ids of the calls that wait.
LEMMA PendingIs ==
  ASSUME msgs \in Seq(Messages)
  PROVE  /\ PendingIds \in Seq(T!Ids)
         /\ T!Pending # << >> => PendingIds # << >>
         /\ T!ToSet(PendingIds) = {c.id : c \in {d \in T!ToSet(T!LastReply) : d.tool \in T!InterruptOn}}
<1> DEFINE asked == T!Pending
<1>1. asked \in Seq(CallRec) /\ T!ToSet(asked) = {c \in T!ToSet(T!LastReply) : c.tool \in T!InterruptOn}
  BY AskingIs, LastReplyIs DEF T!Pending
<1>2. PendingIds = [i \in DOMAIN asked |-> asked[i].id]
  BY DEF PendingIds
<1> HIDE DEF asked
<1>3. Len(asked) \in Nat /\ DOMAIN asked = 1..Len(asked) /\ \A i \in 1..Len(asked) : asked[i].id \in T!Ids
  <2>1. Len(asked) \in Nat /\ DOMAIN asked = 1..Len(asked) /\ \A i \in 1..Len(asked) : asked[i] \in CallRec
    BY <1>1
  <2> QED
    BY <2>1 DEF CallRec
<1>4. PendingIds \in [1..Len(asked) -> T!Ids]
  BY <1>2, <1>3
<1>5. PendingIds \in Seq(T!Ids) /\ Len(PendingIds) = Len(asked)
  BY <1>3, <1>4, IsASeq, LenProperties
<1>6. asked # << >> => PendingIds # << >>
  BY <1>1, <1>5, EmptySeq
<1>7. T!ToSet(PendingIds) = {c.id : c \in T!ToSet(asked)}
  BY <1>2 DEF T!ToSet
<1> QED
  BY <1>1, <1>5, <1>6, <1>7 DEF asked

\* The graph stops for the client where calls wait, all of them announced.
LEMMA GateTalk == ASSUME VerdictInv, TalkInv, T!Gate PROVE TalkInv'
<1>1. /\ msgs' = msgs /\ config' = config /\ turn' = turn /\ parked' = parked /\ seen' = seen
      /\ log' = log /\ todo' = todo /\ announced' = announced
      /\ place' = IF T!Pending # << >> THEN "paused" ELSE IF T!LastReply = << >> THEN "rest" ELSE "tools"
  BY DEF T!Gate
<1>2. turn = "running" /\ parked = FALSE /\ place = "gate"
  BY NodeIs DEF T!Gate
<1>3. /\ Held' = Held /\ T!LastReply' = T!LastReply /\ T!Pending' = T!Pending
      /\ \A e : True(e) <=> True(e)'
  BY <1>1, SameQuestion
<1>4. TalkTyped'
  BY <1>1 DEF TalkInv, TalkTyped
<1>5. Told' = Told
  BY <1>1 DEF Told
<1>6. Truthful'
  BY <1>1, <1>3, <1>5 DEF TalkInv, Truthful
<1>7. AllAnnounced'
  BY <1>2, <1>3, <1>5 DEF TalkInv, AllAnnounced
<1>8. LastWord'
  BY <1>1, <1>2, <1>3 DEF LastWord
<1> QED
  BY <1>4, <1>6, <1>7, <1>8 DEF TalkInv

\* The last word of a turn is which calls it waits for.
LEMMA FinishTalk == ASSUME VerdictInv, TalkInv, T!Finish PROVE TalkInv'
<1> DEFINE ids == IF place = "paused" THEN PendingIds ELSE << >>
<1>1. /\ msgs' = msgs /\ config' = config /\ parked' = parked /\ seen' = seen /\ place' = place
      /\ turn = "running" /\ turn' = "ended" /\ todo = << >> /\ todo' = todo /\ announced' = announced
      /\ place \in {"paused", "rest"}
  BY DEF T!Finish
<1>2. log' = Append(log, T!Idle(ids))
  BY DEF T!Finish, T!StopReason, PendingIds
<1>3. /\ Held' = Held /\ T!LastReply' = T!LastReply /\ T!Pending' = T!Pending /\ PendingIds' = PendingIds
      /\ \A e : True(e) <=> True(e)'
  BY <1>1, SameQuestion
<1>4. msgs \in Seq(Messages) /\ log \in Seq(Events) /\ todo \in Seq(Events)
  BY DEF VerdictInv, GraphTyped, TalkInv, TalkTyped
<1>5. T!Idle(ids) \in Events /\ T!Idle(ids).type = "idle"
  <2>1. ids \in Seq(T!Ids)
    BY <1>4, PendingIs
  <2> HIDE DEF ids
  <2> QED
    BY <2>1 DEF T!Idle, Events
<1> DEFINE idle == T!Idle(ids)
<1>6. place = "paused" => idle = T!Idle(PendingIds)
  OBVIOUS
<1>7. idle \in Events /\ idle.type = "idle" /\ log' = Append(log, idle)
  BY <1>2, <1>5
<1> HIDE DEF idle
<1>8. log' \in Seq(Events) /\ T!ToSet(log') = T!ToSet(log) \cup {idle}
      /\ log' # << >> /\ log'[Len(log')] = idle
  <2>1. log' \in Seq(Events) /\ T!ToSet(log') = T!ToSet(log) \cup {idle}
    BY <1>4, <1>7, SetOfAppend
  <2>2. Len(log') = Len(log) + 1 /\ log'[Len(log) + 1] = idle /\ Len(log) \in Nat
    BY <1>4, <1>7
  <2> QED
    BY <2>1, <2>2
<1>9. Told' = Told \cup {idle}
  BY <1>1, <1>8 DEF Told
<1>10. TalkTyped'
  BY <1>1, <1>8 DEF TalkInv, TalkTyped
<1>11. Truthful'
  <2>1. True(idle)
    BY <1>7 DEF True
  <2>2. \A e \in Told' : True(e)'
    BY <1>3, <1>9, <2>1 DEF TalkInv, Truthful
  <2>3. \A id \in announced' : Announced(id, T!ToSet(log'))
    BY <1>1, <1>8 DEF TalkInv, Truthful, Announced
  <2> QED
    BY <2>2, <2>3 DEF Truthful
<1>12. AllAnnounced'
  BY <1>1, <1>3, <1>9 DEF TalkInv, AllAnnounced, Announced
<1>13. LastWord'
  <2>1. parked = FALSE
    BY <1>1 DEF TalkInv, TalkTyped, LastWord
  <2> QED
    BY <1>1, <1>3, <1>6, <1>8, <2>1 DEF TalkInv, LastWord
<1> QED
  BY <1>10, <1>11, <1>12, <1>13 DEF TalkInv

\* The end of a turn, and a turn that ends early, say nothing.
LEMMA QuietTalk ==
  ASSUME VerdictInv, TalkInv, msgs' = msgs, config' = config, place' = place, seen' = seen,
         log' = log, announced' = announced,
         \/ T!Release /\ todo' = todo
         \/ turn' = "none" /\ parked' = FALSE /\ todo' = << >>
         \/ turn' = turn /\ parked' = parked /\ todo' = todo
  PROVE  TalkInv'
<1>1. /\ Held' = Held /\ T!LastReply' = T!LastReply /\ T!Pending' = T!Pending /\ PendingIds' = PendingIds
      /\ \A e : True(e) <=> True(e)'
  BY SameQuestion
<1>2. T!Release => turn = "ended" /\ turn' = "none" /\ parked' = (place = "paused")
  BY DEF T!Release, T!StopReason
<1>3. TalkTyped'
  <2>1. parked' \in BOOLEAN /\ turn' \in {"none", "running", "ended"}
    BY <1>2 DEF TalkInv, TalkTyped
  <2>2. todo' \in Seq(Events) /\ (turn' # "running" => todo' = << >>)
    <3>1. todo \in Seq(Events) /\ (turn # "running" => todo = << >>) /\ << >> \in Seq(Events)
      BY DEF TalkInv, TalkTyped
    <3>2. CASE todo' = << >>
      BY <3>1, <3>2
    <3>3. CASE T!Release /\ todo' = todo
      BY <1>2, <3>1, <3>3
    <3>4. CASE turn' = turn /\ todo' = todo
      BY <3>1, <3>4
    <3> QED
      BY <3>2, <3>3, <3>4
  <2>3. log' \in Seq(Events) /\ seen' = Len(msgs')
    BY DEF TalkInv, TalkTyped
  <2> QED
    BY <2>1, <2>2, <2>3 DEF TalkTyped
<1>4. Told' \subseteq Told
  <2>1. T!ToSet(<< >>) = {}
    BY DEF T!ToSet
  <2> QED
    BY <2>1 DEF Told
<1>5. Truthful'
  BY <1>1, <1>4 DEF TalkInv, Truthful
<1>6. AllAnnounced'
  <2>1. turn' # "none" \/ parked' => (turn # "none" \/ parked) /\ todo' = todo
    BY <1>2
  <2>2. todo' = todo => Told' = Told
    BY DEF Told
  <2> QED
    BY <1>1, <2>1, <2>2 DEF TalkInv, AllAnnounced
<1>7. LastWord'
  <2>1. place' = "paused" => T!Pending' # << >>
    BY <1>1 DEF TalkInv, LastWord
  <2>2. turn' = "ended" => place' \in {"paused", "rest"}
    BY <1>2 DEF TalkInv, LastWord
  <2>3. parked' => turn' = "none" /\ place' = "paused"
    BY <1>2 DEF TalkInv, LastWord
  <2>4. (turn' = "ended" /\ place' = "paused") \/ parked' =>
          (turn = "ended" /\ place = "paused") \/ parked
    BY <1>2
  <2>5. (turn' = "ended" /\ place' = "paused") \/ parked' =>
          log' # << >> /\ log'[Len(log')] = T!Idle(PendingIds')
    BY <1>1, <2>4 DEF TalkInv, LastWord
  <2> QED
    BY <2>1, <2>2, <2>3, <2>5 DEF LastWord
<1> QED
  BY <1>3, <1>5, <1>6, <1>7 DEF TalkInv

\* A graph that was cut goes on where it was.
LEMMA OnwardsTalk == ASSUME VerdictInv, VerdictInv', TalkInv, T!StartOnwards PROVE TalkInv'
<1>1. msgs' \in Seq(Messages)
  BY DEF VerdictInv, GraphTyped
<1>2. /\ msgs' = msgs /\ config' = config /\ turn' = "running" /\ parked' = FALSE
      /\ seen' = Len(msgs) /\ log' = log /\ announced' = {} /\ todo' = << >>
      /\ place' = place /\ place \in {"patch", "model", "tools"}
  BY DEF T!StartOnwards, T!Begin
<1>3. Held \subseteq Held'
  BY <1>2 DEF Held
<1> QED
  BY <1>1, <1>2, <1>3, GoesOn DEF TalkInv

\* The invariant holds at first ...
LEMMA TalkInit == T!Init => TalkInv
<1> SUFFICES ASSUME T!Init PROVE TalkInv
  OBVIOUS
<1>1. /\ msgs = << >> /\ place = "rest" /\ turn = "none" /\ seen = 0 /\ announced = {} /\ todo = << >>
      /\ log = << >> /\ parked = FALSE
  BY DEF T!Init
<1>2. Told = {}
  BY <1>1 DEF Told, T!ToSet
<1>3. TalkTyped
  <2>1. Len(msgs) = 0 /\ log \in Seq(Events) /\ todo \in Seq(Events)
    BY <1>1
  <2> QED
    BY <1>1, <2>1 DEF TalkTyped
<1>4. Truthful /\ AllAnnounced /\ LastWord
  BY <1>1, <1>2 DEF Truthful, AllAnnounced, LastWord
<1> QED
  BY <1>3, <1>4 DEF TalkInv

\* ... and every step keeps it.
LEMMA TalkNext ==
  ASSUME T!BoundAssumption, VerdictInv, TalkInv, [T!Step]_(T!turnVars)
  PROVE  TalkInv'
<1>0. VerdictInv'
  BY VerdictNext
<1>1. CASE T!StartMessage
  BY <1>0, <1>1, MessageTalk
<1>2. CASE T!StartOnwards
  BY <1>0, <1>2, OnwardsTalk
<1>3. CASE T!Patch
  BY <1>0, <1>3, PatchTalk
<1>4. CASE T!Gate
  BY <1>4, GateTalk
<1>5. CASE T!RunTools
  BY <1>0, <1>5, ToolsTalk
<1>6. CASE T!Emit
  BY <1>6, EmitTalk
<1>7. CASE T!Finish
  BY <1>7, FinishTalk
<1>8. CASE T!Release
  BY <1>8, QuietTalk DEF T!Release
<1>9. CASE T!Cut
  BY <1>9, QuietTalk DEF T!Cut
<1>10. ASSUME NEW batch \in T!Batches, T!StartAnswers(batch) PROVE TalkInv'
  BY <1>0, <1>10, BatchIs, AnswersTalk
<1>11. ASSUME NEW batch \in T!Batches, T!StartFails(batch) PROVE TalkInv'
  <2>1. todo = << >>
    BY <1>11 DEF T!StartFails, TalkInv, TalkTyped
  <2> QED
    BY <1>11, <2>1, QuietTalk DEF T!StartFails
<1>12. ASSUME NEW tools \in T!BoundedSeq(T!Tools, MaxReply), T!Model(tools) PROVE TalkInv'
  BY <1>0, <1>12, ModelTalk
<1>13. CASE UNCHANGED T!turnVars
  BY <1>13, QuietTalk DEF T!turnVars
<1> QED
  BY <1>1, <1>2, <1>3, <1>4, <1>5, <1>6, <1>7, <1>8, <1>9, <1>10, <1>11, <1>12, <1>13 DEF T!Step

\* A session that is parked can be answered: whatever was cut before, the last event of
\* its log names the calls that the graph waits for, each of them announced as asking
\* and without a result (_stop_reason, _pending_calls, execute_agent).
THEOREM ParkedCanBeAnswered == ASSUME T!BoundAssumption PROVE T!TurnSpec => []ParkedIsAnswerable
<1>1. VerdictInv /\ TalkInv => ParkedIsAnswerable
  <2> SUFFICES ASSUME VerdictInv, TalkInv, turn = "none", parked
               PROVE  LET asked == log[Len(log)].ids IN
                        /\ asked # << >>
                        /\ T!ToSet(asked) =
                             {id \in T!Ids : /\ \E k \in T!Uses(id) : log[k].asks
                                             /\ T!Results(id) = {}
                                             /\ \E c \in T!ToSet(T!LastReply) : c.id = id}
                        /\ \A c \in T!ToSet(T!LastReply) : ~T!HasResult(c.id, msgs)
    BY DEF ParkedIsAnswerable, T!ParkedIsAnswerable
  <2>1. msgs \in Seq(Messages) /\ log \in Seq(Events)
    BY DEF VerdictInv, GraphTyped, TalkInv, TalkTyped
  <2>2. place = "paused" /\ T!Pending # << >> /\ log[Len(log)] = T!Idle(PendingIds)
    BY DEF TalkInv, LastWord
  <2>3. log[Len(log)].ids = PendingIds /\ PendingIds # << >>
    BY <2>1, <2>2, PendingIs DEF T!Idle
  <2>4. \A c \in T!ToSet(T!LastReply) : ~Ended(c.id, Held) /\ c \in CallsIn(Held) /\ c.id \in T!Ids
    BY <2>1, <2>2, LastReplyIs, HeldIs DEF VerdictInv, Waits, CallRec
  <2>5. Told = T!ToSet(log)
    BY DEF TalkInv, TalkTyped, Told, T!ToSet
  <2>6. \A k \in DOMAIN log : True(log[k])
    BY <2>5 DEF TalkInv, Truthful, T!ToSet
  <2>7. ASSUME NEW c \in T!ToSet(T!LastReply)
        PROVE  /\ T!Results(c.id) = {}
               /\ T!Uses(c.id) # {}
               /\ \A k \in T!Uses(c.id) : log[k].asks <=> c.tool \in T!InterruptOn
    <3>1. T!Results(c.id) = {}
      BY <2>4, <2>6 DEF T!Results, True
    <3>2. T!Uses(c.id) # {}
      <4>1. PICK e \in T!ToSet(log) : e.type = "use" /\ e.id = c.id
        BY <2>2, <2>5 DEF TalkInv, AllAnnounced, Announced
      <4>2. PICK k \in DOMAIN log : log[k] = e
        BY <4>1 DEF T!ToSet
      <4> QED
        BY <4>1, <4>2 DEF T!Uses
    <3>3. ASSUME NEW k \in T!Uses(c.id) PROVE log[k].asks <=> c.tool \in T!InterruptOn
      <4>1. k \in DOMAIN log /\ log[k].type = "use" /\ log[k].id = c.id
        BY DEF T!Uses
      <4>2. PICK d \in CallsIn(Held) : d.id = c.id /\ log[k].asks = (d.tool \in T!InterruptOn)
        BY <2>6, <4>1 DEF True
      <4>3. d = c
        BY <2>4, <4>2 DEF VerdictInv, Numbers
      <4> QED
        BY <4>2, <4>3
    <3> QED
      BY <3>1, <3>2, <3>3
  <2>8. T!ToSet(PendingIds) = {c.id : c \in {d \in T!ToSet(T!LastReply) : d.tool \in T!InterruptOn}}
    BY <2>1, PendingIs
  <2>9. T!ToSet(PendingIds) = {id \in T!Ids : /\ \E k \in T!Uses(id) : log[k].asks
                                              /\ T!Results(id) = {}
                                              /\ \E c \in T!ToSet(T!LastReply) : c.id = id}
    BY <2>4, <2>7, <2>8
  <2>10. \A c \in T!ToSet(T!LastReply) : ~T!HasResult(c.id, msgs)
    BY <2>1, <2>4, HeldIs
  <2> QED
    BY <2>3, <2>9, <2>10
<1>2. T!Init => VerdictInv /\ TalkInv
  BY VerdictInit, TalkInit
<1>3. ASSUME VerdictInv, TalkInv, [T!Step]_(T!turnVars) PROVE VerdictInv' /\ TalkInv'
  BY <1>3, VerdictNext, TalkNext
<1> QED
  BY <1>1, <1>2, <1>3, PTL DEF T!TurnSpec

(***************************************************************************)
(* What the log tells.                                                     *)
(***************************************************************************)

\* A function on 1..n is a list of n items.
LEMMA ListIs ==
  ASSUME NEW S, NEW n \in Nat, NEW f \in [1..n -> S]
  PROVE  f \in Seq(S) /\ Len(f) = n /\ DOMAIN f = 1..n
  OBVIOUS

\* Three lists, one after the other.
Joined(a, b) == a \o b

LEMMA Associative ==
  ASSUME NEW S, NEW a \in Seq(S), NEW b \in Seq(S), NEW c \in Seq(S)
  PROVE  Joined(Joined(a, b), c) = Joined(a, Joined(b, c))
  BY ConcatAssociative DEF Joined

\* The steps through two lists of lists are those through the one and then the other.
AreLists(f, n, m, S)     == \A i \in n..m : f[i] \in Seq(S)
Follow(st, ss, l, tt, k) ==
  (\A i \in 1..l : st[i] = ss[i]) /\ (\A i \in 1..k : st[l + i] = tt[i])

LEMMA StepsConcat ==
  ASSUME NEW S, NEW l \in Nat, NEW k \in Nat, NEW n, n = l + k,
         NEW ss, NEW tt, NEW st, NEW f, NEW g, NEW h,
         AreLists(f, 0, l, S), AreLists(g, 0, k, S), AreLists(tt, 1, k, S), Follow(st, ss, l, tt, k),
         Steps(ss, f, l), Steps(tt, g, k), Steps(st, h, n)
  PROVE  h[n] = Joined(f[l], g[k])
<1>1. h[0] = << >> /\ \A i \in 1..(l + k) : h[i] = Joined(h[i - 1], st[i])
  BY DEF Steps, Joined
<1>2. f[0] = << >> /\ \A i \in 1..l : f[i] = Joined(f[i - 1], ss[i]) /\ st[i] = ss[i]
  BY DEF Steps, Joined, Follow
<1>3. g[0] = << >> /\ \A i \in 1..k : g[i] = Joined(g[i - 1], tt[i]) /\ st[l + i] = tt[i]
  BY DEF Steps, Joined, Follow
<1>4. h[l] = f[l]
  <2> DEFINE X == {m \in 0..l : h[m] = f[m]}
  <2>1. 0 \in X
    BY <1>1, <1>2
  <2>2. ASSUME NEW m \in 0..(l - 1), m \in X PROVE m + 1 \in X
    <3>1. m + 1 \in 1..l /\ m + 1 \in 0..l /\ m + 1 \in 1..(l + k) /\ (m + 1) - 1 = m
      OBVIOUS
    <3>2. h[m + 1] = Joined(h[m], ss[m + 1]) /\ f[m + 1] = Joined(f[m], ss[m + 1]) /\ h[m] = f[m]
      BY <1>1, <1>2, <2>2, <3>1
    <3> QED
      BY <3>1, <3>2
  <2> HIDE DEF X
  <2>3. \A i \in 0..l : i \in X
    BY <2>1, <2>2, Climb
  <2>4. l \in X
    BY <2>3
  <2> QED
    BY <2>4 DEF X
<1> DEFINE X == {m \in 0..k : h[l + m] = Joined(f[l], g[m])}
<1>5. f[l] \in Seq(S)
  <2>1. l \in 0..l
    OBVIOUS
  <2> QED
    BY <2>1 DEF AreLists
<1>6. 0 \in X
  <2>1. l + 0 = l /\ 0 \in 0..k
    OBVIOUS
  <2>2. Joined(f[l], << >>) = f[l]
    BY <1>5, ConcatEmptySeq DEF Joined
  <2> QED
    BY <1>3, <1>4, <2>1, <2>2
<1>7. ASSUME NEW m \in 0..(k - 1), m \in X PROVE m + 1 \in X
  <2>1. m + 1 \in 1..k /\ m + 1 \in 0..k /\ m \in 0..k /\ (m + 1) - 1 = m /\ l + (m + 1) \in 1..(l + k)
        /\ (l + (m + 1)) - 1 = l + m
    OBVIOUS
  <2>2. h[l + m] = Joined(f[l], g[m])
    BY <1>7
  <2> HIDE DEF X
  <2>3. h[l + (m + 1)] = Joined(h[l + m], tt[m + 1]) /\ g[m + 1] = Joined(g[m], tt[m + 1])
    BY <1>1, <1>3, <2>1
  <2>4. g[m] \in Seq(S) /\ tt[m + 1] \in Seq(S)
    BY <2>1 DEF AreLists
  <2>5. Joined(Joined(f[l], g[m]), tt[m + 1]) = Joined(f[l], Joined(g[m], tt[m + 1]))
    BY <1>5, <2>4, Associative
  <2>6. h[l + (m + 1)] = Joined(f[l], g[m + 1])
    BY <2>2, <2>3, <2>5
  <2> QED
    BY <2>1, <2>6 DEF X
<1> HIDE DEF X
<1>8. \A i \in 0..k : i \in X
  BY <1>6, <1>7, Climb
<1>9. k \in X
  BY <1>8
<1> QED
  BY <1>9 DEF X

\* Lists of lists, one after the other.
ListsOf(ss, S) == ss \in Seq(Seq(S))

LEMMA ListsApart ==
  ASSUME NEW S, NEW ss \in Seq(Seq(S)), NEW tt \in Seq(Seq(S))
  PROVE  /\ ListsOf(ss \o tt, S) /\ Len(ss) \in Nat /\ Len(tt) \in Nat
         /\ Len(ss \o tt) = Len(ss) + Len(tt)
         /\ Follow(ss \o tt, ss, Len(ss), tt, Len(tt)) /\ AreLists(tt, 1, Len(tt), S)
  BY DEF ListsOf, Follow, AreLists

LEMMA ListsSteps ==
  ASSUME NEW S, NEW ss \in Seq(Seq(S))
  PROVE  \E f : /\ AreLists(f, 0, Len(ss), S) /\ Steps(ss, f, Len(ss))
                /\ T!FlattenSeq(ss) = f[Len(ss)]
<1>1. PICK f \in [0..Len(ss) -> Seq(S)] : Steps(ss, f, Len(ss)) /\ T!FlattenSeq(ss) = f[Len(ss)]
  BY FlattenIs
<1>2. AreLists(f, 0, Len(ss), S)
  BY DEF AreLists
<1> QED
  BY <1>1, <1>2

LEMMA FlattenConcat ==
  ASSUME NEW S, NEW ss, NEW tt, ListsOf(ss, S), ListsOf(tt, S)
  PROVE  T!FlattenSeq(ss \o tt) = T!FlattenSeq(ss) \o T!FlattenSeq(tt)
<1>1. PICK st : st = ss \o tt
  OBVIOUS
<1>2. /\ ListsOf(st, S) /\ Len(ss) \in Nat /\ Len(tt) \in Nat /\ Len(st) = Len(ss) + Len(tt)
      /\ Follow(st, ss, Len(ss), tt, Len(tt)) /\ AreLists(tt, 1, Len(tt), S)
  BY <1>1, ListsApart DEF ListsOf
<1>3. PICK f : AreLists(f, 0, Len(ss), S) /\ Steps(ss, f, Len(ss)) /\ T!FlattenSeq(ss) = f[Len(ss)]
  BY ListsSteps DEF ListsOf
<1>4. PICK g : AreLists(g, 0, Len(tt), S) /\ Steps(tt, g, Len(tt)) /\ T!FlattenSeq(tt) = g[Len(tt)]
  BY ListsSteps DEF ListsOf
<1>5. PICK h : Steps(st, h, Len(st)) /\ T!FlattenSeq(st) = h[Len(st)]
  BY <1>2, ListsSteps DEF ListsOf
<1>6. h[Len(st)] = Joined(f[Len(ss)], g[Len(tt)])
  BY <1>2, <1>3, <1>4, <1>5, StepsConcat
<1> QED
  BY <1>1, <1>3, <1>4, <1>5, <1>6 DEF Joined

\* One list after another, by its items.
LEMMA ConcatIs ==
  ASSUME NEW S, NEW s \in Seq(S), NEW t \in Seq(S), NEW u \in Seq(S), Len(u) = Len(s) + Len(t),
         \A i \in 1..Len(s) : u[i] = s[i], \A i \in 1..Len(t) : u[Len(s) + i] = t[i]
  PROVE  u = s \o t
<1> DEFINE st == s \o t
<1>1. /\ Len(s) \in Nat /\ Len(t) \in Nat /\ st \in Seq(S) /\ Len(st) = Len(s) + Len(t)
      /\ \A i \in 1..Len(s) : st[i] = s[i]
      /\ \A i \in 1..Len(t) : st[Len(s) + i] = t[i]
  OBVIOUS
<1> HIDE DEF st
<1>2. ASSUME NEW i \in 1..Len(u) PROVE u[i] = st[i]
  <2>1. CASE i <= Len(s)
    <3>1. i \in 1..Len(s)
      BY <1>1, <2>1
    <3> QED
      BY <1>1, <3>1
  <2>2. CASE ~(i <= Len(s))
    <3>1. i - Len(s) \in 1..Len(t) /\ Len(s) + (i - Len(s)) = i
      BY <1>1, <2>2
    <3>2. u[Len(s) + (i - Len(s))] = st[Len(s) + (i - Len(s))]
      BY <1>1, <3>1
    <3> QED
      BY <3>1, <3>2
  <2> QED
    BY <2>1, <2>2
<1> QED
  BY <1>1, <1>2, SeqEqual DEF st

\* A single list.
LEMMA FlattenOne == ASSUME NEW S, NEW s \in Seq(S) PROVE T!FlattenSeq(<<s>>) = s
<1> DEFINE one == <<s>>
<1>1. one \in Seq(Seq(S)) /\ Len(one) = 1 /\ one[1] = s
  <2>1. PICK R : R = Seq(S)
    OBVIOUS
  <2>2. s \in R
    BY <2>1
  <2>3. one \in Seq(R) /\ Len(one) = 1 /\ one[1] = s
    BY <2>2
  <2> QED
    BY <2>1, <2>3
<1> HIDE DEF one
<1>2. PICK f \in [0..Len(one) -> Seq(S)] : Steps(one, f, Len(one)) /\ T!FlattenSeq(one) = f[Len(one)]
  BY <1>1, FlattenIs
<1>3. f[0] = << >> /\ f[1] = f[0] \o one[1]
  <2>1. 1 \in 1..1 /\ 1 - 1 = 0
    OBVIOUS
  <2> QED
    BY <1>1, <1>2, <2>1 DEF Steps
<1>4. f[1] = s
  BY <1>1, <1>3, ConcatEmptySeq
<1> QED
  BY <1>1, <1>2, <1>4 DEF one

\* Lists of one item each.
LEMMA FlattenSingles ==
  ASSUME NEW S, NEW s \in Seq(S)
  PROVE  T!FlattenSeq([i \in DOMAIN s |-> <<s[i]>>]) = s
<1> DEFINE ss == [i \in DOMAIN s |-> <<s[i]>>]
<1>1. Len(s) \in Nat /\ DOMAIN s = 1..Len(s) /\ \A i \in 1..Len(s) : s[i] \in S
  OBVIOUS
<1>2. ss \in [1..Len(s) -> Seq(S)]
  BY <1>1
<1>3. ss \in Seq(Seq(S)) /\ Len(ss) = Len(s) /\ \A i \in 1..Len(s) : Len(ss[i]) >= 1
  <2>1. \A i \in 1..Len(s) : Len(ss[i]) >= 1
    <3> SUFFICES ASSUME NEW i \in 1..Len(s) PROVE Len(ss[i]) >= 1
      OBVIOUS
    <3>1. ss[i] = <<s[i]>>
      BY <1>1
    <3>2. Len(<<s[i]>>) = 1
      OBVIOUS
    <3> HIDE DEF ss
    <3> QED
      BY <3>1, <3>2
  <2> HIDE DEF ss
  <2> QED
    BY <1>1, <1>2, <2>1, IsASeq, LenProperties
<1>4. T!Only(s, DOMAIN s) = T!FlattenSeq(ss)
  <2>1. ss = [i \in DOMAIN s |-> IF i \in DOMAIN s THEN <<s[i]>> ELSE << >>]
    OBVIOUS
  <2> QED
    BY <2>1 DEF T!Only
<1> HIDE DEF ss
<1>5. Len(s) <= Len(T!FlattenSeq(ss))
  BY <1>3, FlattenGrows
<1>6. /\ T!Only(s, DOMAIN s) \in Seq(S) /\ Len(T!Only(s, DOMAIN s)) <= Len(s)
      /\ Len(T!Only(s, DOMAIN s)) = Len(s) => T!Only(s, DOMAIN s) = s
  BY OnlyIs
<1>7. Len(T!Only(s, DOMAIN s)) \in Nat
  BY <1>6
<1>8. T!Only(s, DOMAIN s) = s
  BY <1>1, <1>4, <1>5, <1>6, <1>7
<1> QED
  BY <1>4, <1>8 DEF ss

\* Items that are told apart by their ids stay so when some of them are taken.
ById(s) == \A i, j \in DOMAIN s : s[i].id = s[j].id => i = j

LEMMA OnlyById ==
  ASSUME NEW S, NEW s \in Seq(S), NEW at, ById(s)
  PROVE  ById(T!Only(s, at))
<1> DEFINE ss == [i \in DOMAIN s |-> IF i \in at THEN <<s[i]>> ELSE << >>]
           n  == Len(s)
<1>1. n \in Nat /\ DOMAIN s = 1..n /\ \A i \in 1..n : s[i] \in S
  OBVIOUS
<1>2. \A i \in 1..n : ss[i] = (IF i \in at THEN <<s[i]>> ELSE << >>) /\ ss[i] \in Seq(S)
  BY <1>1
<1>3. ss \in Seq(Seq(S)) /\ Len(ss) = n
  <2>1. ss \in [1..n -> Seq(S)]
    BY <1>1, <1>2
  <2> HIDE DEF ss, n
  <2> QED
    BY <1>1, <2>1, IsASeq, LenProperties
<1>4. T!Only(s, at) = T!FlattenSeq(ss)
  BY DEF T!Only
<1> HIDE DEF ss, n
<1>5. PICK f \in [0..n -> Seq(S)] : Steps(ss, f, n) /\ T!Only(s, at) = f[n]
  BY <1>3, <1>4, FlattenIs
<1>6. f[0] = << >> /\ \A i \in 1..n : f[i] = f[i - 1] \o ss[i]
  BY <1>5 DEF Steps
<1> DEFINE From(m) == \A i \in DOMAIN f[m] : \E j \in 1..m : f[m][i] = s[j]
           X == {m \in 0..n : ById(f[m]) /\ From(m)}
<1>7. 0 \in X
  BY <1>1, <1>6 DEF ById
<1>8. ASSUME NEW m \in 0..(n - 1), m \in X PROVE m + 1 \in X
  <2>1. m \in Nat /\ m + 1 \in 1..n /\ m + 1 \in 0..n /\ (m + 1) - 1 = m /\ m \in 0..n
        /\ \A j \in 1..m : j \in 1..n /\ j \in 1..(m + 1) /\ j # m + 1
    BY <1>1
  <2>2. f[m + 1] = f[m] \o ss[m + 1] /\ f[m] \in Seq(S)
    BY <1>6, <2>1
  <2>3. ById(f[m]) /\ From(m)
    BY <1>8
  <2> HIDE DEF X
  <2>4. CASE m + 1 \notin at
    <3>1. f[m + 1] = f[m]
      BY <1>2, <2>1, <2>2, <2>4, ConcatEmptySeq
    <3>2. ById(f[m + 1]) /\ From(m + 1)
      BY <2>1, <2>3, <3>1
    <3> QED
      BY <2>1, <3>2 DEF X
  <2>5. CASE m + 1 \in at
    <3>1. f[m + 1] = f[m] \o <<s[m + 1]>> /\ s[m + 1] \in S
      BY <1>1, <1>2, <2>1, <2>2, <2>5
    <3> DEFINE k == Len(f[m])
    <3>2. /\ k \in Nat /\ DOMAIN f[m] = 1..k /\ DOMAIN f[m + 1] = 1..(k + 1)
          /\ f[m + 1][k + 1] = s[m + 1] /\ \A i \in 1..k : f[m + 1][i] = f[m][i]
      BY <2>2, <3>1
    <3>3. \A i \in 1..(k + 1) : i \in 1..k \/ i = k + 1
      BY <3>2
    <3> HIDE DEF k
    <3>4. From(m + 1)
      BY <2>1, <2>3, <3>2, <3>3
    <3>5. \A i \in 1..k : f[m + 1][i].id # s[m + 1].id
      <4> SUFFICES ASSUME NEW i \in 1..k, f[m + 1][i].id = s[m + 1].id PROVE FALSE
        OBVIOUS
      <4>1. PICK j \in 1..m : f[m][i] = s[j]
        BY <2>3, <3>2
      <4>2. s[j].id = s[m + 1].id /\ j \in DOMAIN s /\ m + 1 \in DOMAIN s
        BY <1>1, <2>1, <3>2, <4>1
      <4> QED
        BY <2>1, <4>1, <4>2 DEF ById
    <3>6. ById(f[m + 1])
      BY <2>3, <3>2, <3>3, <3>5 DEF ById
    <3> QED
      BY <2>1, <3>4, <3>6 DEF X
  <2> QED
    BY <2>4, <2>5
<1>9. n \in X
  <2> HIDE DEF X
  <2>1. \A i \in 0..n : i \in X
    BY <1>1, <1>7, <1>8, Climb
  <2> QED
    BY <1>1, <2>1
<1> QED
  BY <1>5, <1>9

\* What is said of more messages is said after what is said of the first.
LEMMA EventsAppended ==
  ASSUME NEW list \in Seq(Messages), NEW new \in Seq(Messages)
  PROVE  T!EventsFrom(list \o new, 0) = T!EventsFrom(list, 0) \o T!EventsFrom(list \o new, Len(list))
<1> DEFINE both == list \o new
           l    == Len(list)
           k    == Len(new)
           ss   == [i \in 1..l |-> T!EventsOf(list[i])]
           tt   == [i \in 1..k |-> T!EventsOf(new[i])]
           uu   == [i \in 1..(l + k) |-> T!EventsOf(both[i])]
<1>1. /\ l \in Nat /\ k \in Nat /\ both \in Seq(Messages) /\ Len(both) = l + k
      /\ \A i \in 1..l : both[i] = list[i] /\ list[i] \in Messages
      /\ \A i \in 1..k : both[l + i] = new[i] /\ new[i] \in Messages
  OBVIOUS
<1>2. T!EventsFrom(list, 0) = T!FlattenSeq(ss)
  <2>1. l - 0 = l /\ \A i \in 1..l : 0 + i = i
    BY <1>1
  <2>2. [i \in 1..(l - 0) |-> T!EventsOf(list[0 + i])] = ss
    BY <2>1
  <2> QED
    BY <2>2 DEF T!EventsFrom
<1>3. T!EventsFrom(both, l) = T!FlattenSeq(tt)
  <2>1. Len(both) - l = k
    BY <1>1
  <2>2. [i \in 1..(Len(both) - l) |-> T!EventsOf(both[l + i])] = tt
    BY <1>1, <2>1
  <2> QED
    BY <2>2 DEF T!EventsFrom
<1>4. T!EventsFrom(both, 0) = T!FlattenSeq(uu)
  <2>1. Len(both) - 0 = l + k /\ \A i \in 1..(l + k) : 0 + i = i
    BY <1>1
  <2>2. [i \in 1..(Len(both) - 0) |-> T!EventsOf(both[0 + i])] = uu
    BY <2>1
  <2> QED
    BY <2>2 DEF T!EventsFrom
<1>5. /\ \A i \in 1..l : ss[i] = T!EventsOf(both[i]) /\ ss[i] \in Seq(Events)
      /\ \A i \in 1..k : tt[i] = T!EventsOf(both[l + i]) /\ tt[i] \in Seq(Events)
  BY <1>1, EventsOfIs
<1>6. ss \in [1..l -> Seq(Events)] /\ tt \in [1..k -> Seq(Events)]
      /\ DOMAIN uu = 1..(l + k) /\ \A i \in 1..(l + k) : uu[i] = T!EventsOf(both[i])
  BY <1>5
<1> HIDE DEF ss, tt, uu, both, l, k
<1>7. ss \in Seq(Seq(Events)) /\ tt \in Seq(Seq(Events)) /\ Len(ss) = l /\ Len(tt) = k
  <2>1. PICK S : S = Seq(Events)
    OBVIOUS
  <2>2. ss \in [1..l -> S] /\ tt \in [1..k -> S]
    BY <1>6, <2>1
  <2>3. ss \in Seq(S) /\ Len(ss) = l
    BY <1>1, <2>2, ListIs
  <2>4. tt \in Seq(S) /\ Len(tt) = k
    BY <1>1, <2>2, ListIs
  <2> QED
    BY <2>1, <2>3, <2>4
<1>8. uu = ss \o tt
  <2>1. PICK S : S = Seq(Events)
    OBVIOUS
  <2>2. \A i \in 1..(l + k) : uu[i] \in S
    BY <1>1, <1>6, <2>1, EventsOfIs
  <2>3. uu \in [1..(l + k) -> S]
    BY <2>2 DEF uu
  <2>4. uu \in Seq(S) /\ Len(uu) = l + k
    <3>1. l + k \in Nat
      BY <1>1
    <3> HIDE DEF uu
    <3> QED
      BY <2>3, <3>1, ListIs
  <2>5. \A i \in 1..l : i \in 1..(l + k)
    BY <1>1
  <2>6. \A i \in 1..k : l + i \in 1..(l + k)
    BY <1>1
  <2>7. (\A i \in 1..l : uu[i] = ss[i]) /\ (\A i \in 1..k : uu[l + i] = tt[i])
    BY <1>5, <1>6, <2>5, <2>6
  <2>8. ss \in Seq(S) /\ tt \in Seq(S) /\ Len(uu) = Len(ss) + Len(tt)
    BY <1>7, <2>1, <2>4
  <2>9. (\A i \in 1..Len(ss) : uu[i] = ss[i]) /\ (\A i \in 1..Len(tt) : uu[Len(ss) + i] = tt[i])
    BY <1>7, <2>7
  <2> HIDE DEF uu
  <2> QED
    BY <2>4, <2>8, <2>9, ConcatIs
<1>9. T!FlattenSeq(ss \o tt) = T!FlattenSeq(ss) \o T!FlattenSeq(tt)
  BY <1>7, FlattenConcat DEF ListsOf
<1> QED
  BY <1>2, <1>3, <1>4, <1>8, <1>9 DEF both, l

\* Nothing is said of no message, or of one of the client's.
LEMMA NothingSaid ==
  ASSUME NEW list \in Seq(Messages)
  PROVE  /\ T!EventsFrom(list, Len(list)) = << >>
         /\ T!EventsFrom(list \o <<T!Human>>, Len(list)) = << >>
<1>1. Len(list) \in Nat /\ Len(list) \in 0..Len(list)
  OBVIOUS
<1>2. T!ToSet(T!EventsFrom(list, Len(list))) = {} /\ T!EventsFrom(list, Len(list)) \in Seq(Events)
  BY <1>1, EventsFromIs
<1> DEFINE more == list \o <<T!Human>>
<1>3. more \in Seq(Messages) /\ Len(more) = Len(list) + 1 /\ more[Len(list) + 1] = T!Human
  BY HumanIs
<1> HIDE DEF more
<1>4. Len(list) \in 0..Len(more) /\ \A i \in (Len(list) + 1)..Len(more) : i = Len(list) + 1
  BY <1>1, <1>3
<1>5. T!EventsFrom(more, Len(list)) \in Seq(Events) /\ T!ToSet(T!EventsFrom(more, Len(list))) = {}
  <2>1. T!ToSet(T!EventsOf(T!Human)) = {}
    BY HumanIs, EventsOfIs
  <2> QED
    BY <1>3, <1>4, <2>1, EventsFromIs
<1>6. \A s \in Seq(Events) : T!ToSet(s) = {} => s = << >>
  <2> SUFFICES ASSUME NEW s \in Seq(Events), s # << >> PROVE T!ToSet(s) # {}
    OBVIOUS
  <2>1. Len(s) \in Nat /\ Len(s) # 0 /\ DOMAIN s = 1..Len(s)
    OBVIOUS
  <2>2. 1 \in DOMAIN s
    BY <2>1
  <2> QED
    BY <2>2 DEF T!ToSet
<1> QED
  BY <1>2, <1>5, <1>6 DEF more

\* Of results, one event each; of a reply, one for each of its calls.
LEMMA ResultsTold ==
  ASSUME NEW list \in Seq(Messages), NEW new \in Seq(Messages),
         \A i \in 1..Len(new) : new[i].role = "tool"
  PROVE  T!EventsFrom(list \o new, Len(list)) = [i \in DOMAIN new |-> T!Told(new[i])]
<1> DEFINE both == list \o new
           l    == Len(list)
           k    == Len(new)
           told == [i \in DOMAIN new |-> T!Told(new[i])]
<1>1. /\ l \in Nat /\ k \in Nat /\ Len(both) = l + k /\ DOMAIN new = 1..k
      /\ \A i \in 1..k : both[l + i] = new[i] /\ new[i] \in Messages
  OBVIOUS
<1>2. told \in Seq(Events)
  <2>1. \A i \in 1..k : T!Told(new[i]) \in Events
    BY <1>1, ToldIs
  <2>2. told \in [1..k -> Events]
    BY <1>1, <2>1
  <2> HIDE DEF told, k
  <2> QED
    BY <1>1, <2>2, IsASeq
<1>3. \A i \in 1..k : T!EventsOf(both[l + i]) = <<told[i]>>
  <2>1. \A i \in 1..k : T!EventsOf(new[i]) = <<T!Told(new[i])>>
    BY DEF T!EventsOf
  <2> QED
    BY <1>1, <2>1
<1>4. [i \in 1..(Len(both) - l) |-> T!EventsOf(both[l + i])] = [i \in DOMAIN told |-> <<told[i]>>]
  <2>1. Len(both) - l = k /\ DOMAIN told = 1..k
    BY <1>1
  <2> HIDE DEF told, both, l, k
  <2> QED
    BY <1>3, <2>1
<1>5. T!EventsFrom(both, l) = T!FlattenSeq([i \in DOMAIN told |-> <<told[i]>>])
  <2> HIDE DEF told
  <2> QED
    BY <1>4 DEF T!EventsFrom
<1> HIDE DEF told
<1>6. T!FlattenSeq([i \in DOMAIN told |-> <<told[i]>>]) = told
  BY <1>2, FlattenSingles
<1> QED
  BY <1>5, <1>6 DEF told

LEMMA CallsTold ==
  ASSUME NEW list \in Seq(Messages), NEW cs \in Seq(CallRec)
  PROVE  T!EventsFrom(list \o <<T!Reply(cs)>>, Len(list)) = [i \in DOMAIN cs |-> T!Use(cs[i])]
<1> DEFINE both == list \o <<T!Reply(cs)>>
           l    == Len(list)
           says == [i \in DOMAIN cs |-> T!Use(cs[i])]
<1>1. /\ l \in Nat /\ Len(both) = l + 1 /\ both[l + 1] = T!Reply(cs)
  OBVIOUS
<1>2. T!EventsOf(T!Reply(cs)) = says
  <2>1. T!Reply(cs).role = "ai" /\ T!Reply(cs).calls = cs
    BY DEF T!Reply
  <2> QED
    BY <2>1 DEF T!EventsOf
<1>3. says \in Seq(Events)
  BY <1>2, ReplyIs, EventsOfIs
<1>4. [i \in 1..(Len(both) - l) |-> T!EventsOf(both[l + i])] = <<says>>
  <2>1. Len(both) - l = 1 /\ \A i \in 1..1 : i = 1 /\ 1 \in 1..1
    BY <1>1
  <2>2. [i \in 1..1 |-> T!EventsOf(both[l + i])] = [i \in 1..1 |-> says]
    BY <1>1, <1>2, <2>1
  <2> HIDE DEF says
  <2>3. [i \in 1..1 |-> says] = <<says>>
    OBVIOUS
  <2> QED
    BY <2>1, <2>2, <2>3
<1> HIDE DEF says
<1>5. T!EventsFrom(both, l) = T!FlattenSeq(<<says>>)
  BY <1>4 DEF T!EventsFrom
<1>6. T!FlattenSeq(<<says>>) = says
  BY <1>3, FlattenOne
<1> QED
  BY <1>5, <1>6 DEF says, both, l

\* The events of some kinds, told apart by what they are about.
Apart(s, kinds) ==
  \A i, j \in DOMAIN s :
    s[i].type \in kinds /\ s[j].type = s[i].type /\ s[i].id = s[j].id => i = j

\* Two lists of events that are told apart, and have none in common.
LEMMA ApartConcat ==
  ASSUME NEW s \in Seq(Events), NEW t \in Seq(Events), NEW kinds, Apart(s, kinds), Apart(t, kinds),
         \A i \in DOMAIN s, j \in DOMAIN t :
           ~(s[i].type \in kinds /\ t[j].type = s[i].type /\ s[i].id = t[j].id)
  PROVE  Apart(s \o t, kinds)
<1> DEFINE st == s \o t
           l  == Len(s)
           k  == Len(t)
<1>1. /\ l \in Nat /\ k \in Nat /\ DOMAIN s = 1..l /\ DOMAIN t = 1..k /\ DOMAIN st = 1..(l + k)
      /\ \A i \in 1..l : st[i] = s[i]
      /\ \A i \in 1..k : st[l + i] = t[i]
  OBVIOUS
<1> HIDE DEF st, l, k
<1> SUFFICES ASSUME NEW i \in DOMAIN st, NEW j \in DOMAIN st,
                    st[i].type \in kinds, st[j].type = st[i].type, st[i].id = st[j].id
             PROVE  i = j
  BY DEF Apart, st
<1>2. \A m \in 1..(l + k) : m \in 1..l \/ (m - l \in 1..k /\ l + (m - l) = m)
  BY <1>1
<1>3. \A m \in 1..(l + k) : m - l \in 1..k => st[m] = t[m - l]
  <2> SUFFICES ASSUME NEW m \in 1..(l + k), m - l \in 1..k PROVE st[m] = t[m - l]
    OBVIOUS
  <2>1. st[l + (m - l)] = t[m - l] /\ l + (m - l) = m
    BY <1>1
  <2> QED
    BY <2>1
<1>4. CASE i \in 1..l /\ j \in 1..l
  BY <1>1, <1>4 DEF Apart
<1>5. CASE i - l \in 1..k /\ j - l \in 1..k
  <2>1. st[i] = t[i - l] /\ st[j] = t[j - l]
    BY <1>1, <1>3, <1>5
  <2>2. i - l \in DOMAIN t /\ j - l \in DOMAIN t
    BY <1>1, <1>5
  <2>3. i - l = j - l
    BY <2>1, <2>2 DEF Apart
  <2> QED
    BY <1>1, <2>3
<1>6. CASE i \in 1..l /\ j - l \in 1..k
  <2>1. st[i] = s[i] /\ st[j] = t[j - l] /\ i \in DOMAIN s /\ j - l \in DOMAIN t
    BY <1>1, <1>3, <1>6
  <2> QED
    BY <2>1
<1>7. CASE j \in 1..l /\ i - l \in 1..k
  <2>1. st[j] = s[j] /\ st[i] = t[i - l] /\ j \in DOMAIN s /\ i - l \in DOMAIN t
    BY <1>1, <1>3, <1>7
  <2> QED
    BY <2>1
<1> QED
  BY <1>1, <1>2, <1>4, <1>5, <1>6, <1>7

\* What is said of calls, without the last words of the turns.
Spoken(s) == T!Only(s, {k \in DOMAIN s : s[k].type # "idle"})

LEMMA SpokenAppend ==
  ASSUME NEW s \in Seq(Events), NEW e \in Events
  PROVE  /\ Spoken(s) \in Seq(Events)
         /\ Spoken(Append(s, e)) = IF e.type = "idle" THEN Spoken(s) ELSE Append(Spoken(s), e)
<1> DEFINE more == Append(s, e)
           l    == Len(s)
           at   == {k \in DOMAIN s : s[k].type # "idle"}
           here == {k \in DOMAIN more : more[k].type # "idle"}
           ss   == [i \in DOMAIN s |-> IF i \in at THEN <<s[i]>> ELSE << >>]
           uu   == [i \in DOMAIN more |-> IF i \in here THEN <<more[i]>> ELSE << >>]
           last == IF e.type = "idle" THEN << >> ELSE <<e>>
<1>1. /\ l \in Nat /\ DOMAIN s = 1..l /\ DOMAIN more = 1..(l + 1) /\ more[l + 1] = e
      /\ \A i \in 1..l : more[i] = s[i] /\ s[i] \in Events
  OBVIOUS
<1>2. Spoken(s) = T!FlattenSeq(ss) /\ Spoken(more) = T!FlattenSeq(uu)
  BY DEF Spoken, T!Only
<1>3. Spoken(s) \in Seq(Events)
  BY OnlyIs DEF Spoken
<1>4. PICK S : S = Seq(Events)
  OBVIOUS
<1>5. last \in S
  BY <1>4
<1>6. \A i \in 1..l : ss[i] \in S
  BY <1>1, <1>4
<1>7. \A i \in 1..(l + 1) : i \in 1..l \/ i = l + 1
  BY <1>1
<1>8. (\A i \in 1..l : uu[i] = ss[i]) /\ uu[l + 1] = last
  <2>1. \A i \in 1..l : i \in 1..(l + 1)
    BY <1>1
  <2>2. \A i \in 1..l : i \in here <=> i \in at
    BY <1>1, <2>1
  <2>3. l + 1 \in here <=> e.type # "idle"
    BY <1>1
  <2> HIDE DEF here, at, more
  <2>4. \A i \in 1..l : uu[i] = ss[i]
    BY <1>1, <2>1, <2>2
  <2>5. uu[l + 1] = last
    BY <1>1, <2>3
  <2> QED
    BY <2>4, <2>5
<1>9. ss \in [1..l -> S]
  <2> QED
    BY <1>1, <1>6
<1>10. uu \in [1..(l + 1) -> S]
  <2>1. DOMAIN uu = 1..(l + 1) /\ \A i \in 1..(l + 1) : uu[i] \in S
    BY <1>1, <1>5, <1>6, <1>7, <1>8
  <2> QED
    BY <2>1
<1> HIDE DEF ss, uu, last, at, here
<1>11. ss \in Seq(S) /\ Len(ss) = l
  BY <1>1, <1>9, IsASeq, LenProperties
<1>12. uu \in Seq(S) /\ Len(uu) = l + 1
  BY <1>1, <1>10, IsASeq, LenProperties
<1>13. <<last>> \in Seq(S) /\ Len(<<last>>) = 1 /\ <<last>>[1] = last
  BY <1>5
<1>14. uu = ss \o <<last>>
  <2>1. \A i \in 1..Len(ss) : uu[i] = ss[i]
    BY <1>8, <1>11
  <2>2. \A i \in 1..Len(<<last>>) : uu[Len(ss) + i] = <<last>>[i]
    BY <1>8, <1>11, <1>13
  <2>3. Len(uu) = Len(ss) + Len(<<last>>)
    BY <1>11, <1>12, <1>13
  <2> QED
    BY <1>11, <1>12, <1>13, <2>1, <2>2, <2>3, ConcatIs
<1>15. T!FlattenSeq(uu) = T!FlattenSeq(ss) \o T!FlattenSeq(<<last>>)
  <2>1. PICK one : one = <<last>>
    OBVIOUS
  <2>2. ListsOf(ss, Events)
    BY <1>4, <1>11 DEF ListsOf
  <2>3. ListsOf(one, Events)
    BY <1>4, <1>13, <2>1 DEF ListsOf
  <2>4. T!FlattenSeq(ss \o one) = T!FlattenSeq(ss) \o T!FlattenSeq(one)
    BY <2>2, <2>3, FlattenConcat
  <2> QED
    BY <1>14, <2>1, <2>4
<1>16. T!FlattenSeq(<<last>>) = last
  BY <1>4, <1>5, FlattenOne
<1>17. Spoken(more) = Spoken(s) \o last
  BY <1>2, <1>15, <1>16
<1>18. CASE e.type = "idle"
  <2>1. last = << >>
    BY <1>18 DEF last
  <2> QED
    BY <1>3, <1>17, <1>18, <2>1, ConcatEmptySeq
<1>19. CASE e.type # "idle"
  <2>1. last = <<e>>
    BY <1>19 DEF last
  <2>2. Append(Spoken(s), e) = Spoken(s) \o <<e>>
    BY <1>3, AppendIsConcat
  <2> QED
    BY <1>3, <1>17, <1>19, <2>1, <2>2
<1> QED
  BY <1>18, <1>19

\* A reply has no call twice; only the last one can have calls without a result, and
\* the model replies when none is left.
RepliesApart == \A m \in Held : ById(T!Calls(m))
Earlier ==
  \A j \in DOMAIN msgs : msgs[j].role = "ai" =>
    \A i \in 1..(j - 1) : \A c \in T!ToSet(T!Calls(msgs[i])) : Ended(c.id, Held)
AllOver == place = "model" => \A c \in CallsIn(Held) : Ended(c.id, Held)

\* What was said and is to be said, each thing once; and, where nothing was cut, what
\* there is to say of the messages, in their order.
Counted  == IF cut THEN {"use"} ELSE {"use", "result"}
SaidOnce == Apart(log \o todo, Counted)
NoIdle   == \A k \in DOMAIN todo : todo[k].type # "idle"
TellsAll == ~cut => Spoken(log) \o todo = T!EventsFrom(msgs, 0)

\* The inductive invariant, beside VerdictInv and TalkInv.
TranscriptInv ==
  cut \in BOOLEAN /\ RepliesApart /\ Earlier /\ AllOver /\ SaidOnce /\ NoIdle /\ TellsAll

\* A call without a result is one of the last reply.
LEMMA LastCalls ==
  ASSUME msgs \in Seq(Messages), Earlier, NEW c \in CallsIn(Held), ~Ended(c.id, Held)
  PROVE  c \in T!ToSet(T!LastReply)
<1> DEFINE replies == {i \in DOMAIN msgs : msgs[i].role = "ai"}
<1>1. Len(msgs) \in Nat /\ DOMAIN msgs = 1..Len(msgs) /\ \A i \in 1..Len(msgs) : msgs[i] \in Messages
  OBVIOUS
<1>2. PICK i \in 1..Len(msgs) : c \in T!ToSet(T!Calls(msgs[i]))
  <2>1. PICK m \in Held : c \in T!ToSet(T!Calls(m))
    BY DEF CallsIn
  <2> QED
    BY <2>1, HeldIs
<1>3. i \in replies
  <2>1. T!ToSet(<< >>) = {}
    BY DEF T!ToSet
  <2> QED
    BY <1>1, <1>2, <2>1, MessageIs
<1>4. T!LastReply = T!Calls(msgs[T!Max(replies)])
  BY <1>3 DEF T!LastReply
<1>5. T!Max(replies) \in replies /\ i <= T!Max(replies)
  <2>1. replies \in SUBSET (1..Len(msgs)) /\ replies # {}
    BY <1>1, <1>3
  <2> HIDE DEF replies
  <2> QED
    BY <1>1, <1>3, <2>1, GreatestIs
<1>6. CASE i = T!Max(replies)
  BY <1>2, <1>4, <1>6
<1>7. CASE i # T!Max(replies)
  <2>1. PICK j \in DOMAIN msgs : j = T!Max(replies) /\ msgs[j].role = "ai"
    BY <1>5
  <2>2. i \in 1..(j - 1)
    BY <1>1, <1>5, <1>7, <2>1
  <2> QED
    BY <1>2, <2>1, <2>2 DEF Earlier
<1> QED
  BY <1>6, <1>7

\* Messages that are no replies leave it so.
LEMMA EarlierKept ==
  ASSUME msgs \in Seq(Messages), Earlier, NEW new \in Seq(Messages), msgs' = msgs \o new,
         \A i \in 1..Len(new) : new[i].role # "ai"
  PROVE  Earlier'
<1>1. /\ Len(msgs) \in Nat /\ Len(new) \in Nat /\ DOMAIN msgs = 1..Len(msgs)
      /\ DOMAIN msgs' = 1..(Len(msgs) + Len(new))
      /\ \A i \in 1..Len(msgs) : msgs'[i] = msgs[i]
      /\ \A i \in 1..Len(new) : msgs'[Len(msgs) + i] = new[i]
  OBVIOUS
<1>2. Held \subseteq Held'
  <2>1. T!ToSet(msgs \o new) = T!ToSet(msgs) \cup T!ToSet(new)
    BY SetOfConcat
  <2> QED
    BY <2>1 DEF Held
<1> SUFFICES ASSUME NEW j \in DOMAIN msgs', msgs'[j].role = "ai", NEW i \in 1..(j - 1),
                    NEW c \in T!ToSet(T!Calls(msgs'[i]))
             PROVE  Ended(c.id, Held')
  BY DEF Earlier
<1>3. j \in 1..Len(msgs)
  <2> SUFFICES ASSUME ~(j <= Len(msgs)) PROVE FALSE
    BY <1>1
  <2>1. j - Len(msgs) \in 1..Len(new) /\ Len(msgs) + (j - Len(msgs)) = j
    BY <1>1
  <2> QED
    BY <1>1, <2>1
<1>4. i \in 1..Len(msgs) /\ msgs'[j] = msgs[j] /\ msgs'[i] = msgs[i]
  BY <1>1, <1>3
<1>5. Ended(c.id, Held)
  BY <1>1, <1>3, <1>4 DEF Earlier
<1> QED
  BY <1>2, <1>5 DEF Ended

\* It is so where every call has its result.
LEMMA EarlierOver ==
  ASSUME msgs' \in Seq(Messages), \A c \in CallsIn(Held') : Ended(c.id, Held')
  PROVE  Earlier'
<1> SUFFICES ASSUME NEW j \in DOMAIN msgs', NEW i \in 1..(j - 1), NEW c \in T!ToSet(T!Calls(msgs'[i]))
             PROVE  Ended(c.id, Held')
  BY DEF Earlier
<1>1. i \in DOMAIN msgs'
  <2>1. DOMAIN msgs' = 1..Len(msgs') /\ Len(msgs') \in Nat
    OBVIOUS
  <2> QED
    BY <2>1
<1>2. c \in CallsIn(Held')
  BY <1>1 DEF CallsIn, Held, T!ToSet
<1> QED
  BY <1>2

\* The words for messages are those of the toolset, which is pinned.
LEMMA SameWords ==
  ASSUME config' = config
  PROVE  T!EventsFrom(msgs, 0)' = T!EventsFrom(msgs', 0)
<1>1. T!InterruptOn' = T!InterruptOn
  BY SamePolicy
<1> QED
  BY <1>1 DEF T!EventsFrom, T!EventsOf, T!Use
\* Results are told once: those of the calls of a reply that have none yet.
LEMMA ResultsOnce ==
  ASSUME VerdictInv, TalkInv, TranscriptInv, todo = << >>, NEW new \in Seq(Messages),
         \A i \in 1..Len(new) : new[i].role = "tool" /\ ~Ended(new[i].id, Held), ById(new),
         msgs' = msgs \o new, todo' = T!EventsFrom(msgs', Len(msgs)), log' = log, cut' = cut,
         config' = config
  PROVE  RepliesApart' /\ Earlier' /\ SaidOnce' /\ NoIdle' /\ TellsAll'
<1>1. /\ msgs \in Seq(Messages) /\ log \in Seq(Events) /\ Len(msgs) \in Nat /\ Len(new) \in Nat
      /\ DOMAIN new = 1..Len(new) /\ \A i \in 1..Len(new) : new[i] \in Messages
  BY DEF VerdictInv, GraphTyped, TalkInv, TalkTyped
<1>2. todo' = [i \in DOMAIN new |-> T!Told(new[i])]
  BY <1>1, ResultsTold
<1>3. msgs' \in Seq(Messages) /\ Len(msgs) \in 0..Len(msgs')
  BY <1>1
<1>4. /\ todo' \in Seq(Events) /\ DOMAIN todo' = 1..Len(new)
      /\ \A i \in 1..Len(new) : todo'[i].type = "result" /\ todo'[i].id = new[i].id
  <2>1. \A i \in 1..Len(new) : todo'[i] = T!Told(new[i])
    BY <1>1, <1>2
  <2>2. todo' \in Seq(Events)
    <3>1. PICK list \in Seq(Messages) : list = msgs'
      BY <1>3
    <3> QED
      BY <1>3, <3>1, EventsFromIs
  <2> QED
    BY <1>1, <1>2, <2>1, <2>2, ToldIs
<1>5. PICK t \in Seq(Events) : t = todo'
  BY <1>4
<1>6. Apart(t, Counted)
  BY <1>1, <1>4, <1>5 DEF Apart, ById
<1>7. Apart(log, Counted)
  <2>1. log \o todo = log
    BY <1>1, ConcatEmptySeq
  <2> QED
    BY <2>1 DEF TranscriptInv, SaidOnce
<1>8. ASSUME NEW i \in DOMAIN log, NEW j \in DOMAIN t, t[j].type = log[i].type, log[i].id = t[j].id
      PROVE  FALSE
  <2>1. log[i] \in Told
    BY DEF Told, T!ToSet
  <2>2. log[i].type = "result"
    BY <1>4, <1>5, <1>8
  <2>3. Ended(log[i].id, Held)
    BY <2>1, <2>2 DEF TalkInv, Truthful, True
  <2> QED
    BY <1>4, <1>5, <1>8, <2>3
<1>9. SaidOnce'
  <2>1. Apart(log \o t, Counted)
    BY <1>1, <1>6, <1>7, <1>8, ApartConcat
  <2> QED
    BY <1>5, <2>1 DEF SaidOnce, Counted, Apart
<1>10. NoIdle'
  BY <1>4 DEF NoIdle
<1>11. TellsAll'
  <2> SUFFICES ASSUME ~cut PROVE Spoken(log) \o todo' = T!EventsFrom(msgs', 0)
    BY SameWords DEF TellsAll, Spoken
  <2>1. Spoken(log) = T!EventsFrom(msgs, 0)
    <3>1. Spoken(log) \in Seq(Events)
      BY <1>1, OnlyIs DEF Spoken
    <3>2. Spoken(log) \o << >> = Spoken(log)
      BY <3>1, ConcatEmptySeq
    <3> QED
      BY <3>2 DEF TranscriptInv, TellsAll
  <2>2. T!EventsFrom(msgs \o new, 0) = T!EventsFrom(msgs, 0) \o T!EventsFrom(msgs \o new, Len(msgs))
    BY <1>1, EventsAppended
  <2> QED
    BY <2>1, <2>2
<1>12. Held' = Held \cup T!ToSet(new)
  <2>1. T!ToSet(msgs \o new) = T!ToSet(msgs) \cup T!ToSet(new)
    BY <1>1, SetOfConcat
  <2> QED
    BY <2>1 DEF Held
<1>13. RepliesApart'
  <2> SUFFICES ASSUME NEW m \in Held' PROVE ById(T!Calls(m))
    BY DEF RepliesApart, ById, T!Calls
  <2>1. CASE m \in Held
    BY <2>1 DEF TranscriptInv, RepliesApart
  <2>2. CASE m \in T!ToSet(new)
    <3>1. PICK i \in 1..Len(new) : m = new[i]
      BY <1>1, <2>2 DEF T!ToSet
    <3>2. T!Calls(m) = << >>
      BY <1>1, <3>1, MessageIs
    <3> QED
      BY <3>2 DEF ById
  <2> QED
    BY <1>12, <2>1, <2>2
<1>14. Earlier'
  BY <1>1, EarlierKept DEF TranscriptInv
<1> QED
  BY <1>9, <1>10, <1>11, <1>13, <1>14

LEMMA LastReplyApart == ASSUME msgs \in Seq(Messages), RepliesApart PROVE ById(T!LastReply)
<1> DEFINE replies == {i \in DOMAIN msgs : msgs[i].role = "ai"}
<1>1. CASE replies = {}
  BY <1>1 DEF T!LastReply, ById
<1>2. CASE replies # {}
  <2>1. T!LastReply = T!Calls(msgs[T!Max(replies)])
    BY <1>2 DEF T!LastReply
  <2>2. Len(msgs) \in Nat /\ replies \in SUBSET (1..Len(msgs))
    OBVIOUS
  <2>3. T!Max(replies) \in replies
    BY <1>2, <2>2, GreatestIs
  <2>4. msgs[T!Max(replies)] \in Held
    BY <2>2, <2>3, HeldIs
  <2> QED
    BY <2>1, <2>4 DEF RepliesApart
<1> QED
  BY <1>1, <1>2

\* The results of calls that are told apart are told apart.
LEMMA ResultsApart ==
  ASSUME NEW cs \in Seq(CallRec), ById(cs), NEW o \in Outcomes
  PROVE  ById([k \in DOMAIN cs |-> T!Result(cs[k].id, o)])
  BY DEF ById, T!Result

LEMMA WrittenApart ==
  ASSUME NEW asked \in Seq(CallRec), asked = T!Request, ById(asked), NEW ds,
         \A i \in 1..Len(asked) : ds[i] \in {"approve", "reject", "respond"}
  PROVE  ById(T!Written(ds))
<1> DEFINE rs == [i \in DOMAIN asked |-> T!Result(asked[i].id, T!Outcome(ds[i]))]
           at == {i \in DOMAIN asked : ds[i] # "approve"}
<1>1. Len(asked) \in Nat /\ DOMAIN asked = 1..Len(asked) /\ \A i \in 1..Len(asked) : asked[i] \in CallRec
  OBVIOUS
<1>2. \A i \in 1..Len(asked) : T!Result(asked[i].id, T!Outcome(ds[i])) \in Messages
                               /\ T!Result(asked[i].id, T!Outcome(ds[i])).id = asked[i].id
  <2> SUFFICES ASSUME NEW i \in 1..Len(asked)
               PROVE  T!Result(asked[i].id, T!Outcome(ds[i])) \in Messages
                      /\ T!Result(asked[i].id, T!Outcome(ds[i])).id = asked[i].id
    OBVIOUS
  <2>1. asked[i].id \in T!Ids /\ T!Outcome(ds[i]) \in Outcomes
    BY <1>1 DEF CallRec, T!Outcome, Outcomes
  <2> QED
    BY <2>1, ResultIs
<1>3. rs \in [1..Len(asked) -> Messages] /\ DOMAIN rs = 1..Len(asked)
      /\ \A i \in 1..Len(asked) : rs[i] = T!Result(asked[i].id, T!Outcome(ds[i]))
  BY <1>1, <1>2
<1>4. [i \in DOMAIN rs |-> IF i \in at THEN <<rs[i]>> ELSE << >>]
        = [i \in DOMAIN asked |->
             IF ds[i] = "approve" THEN << >> ELSE <<T!Result(asked[i].id, T!Outcome(ds[i]))>>]
  BY <1>1, <1>3
<1>5. T!Written(ds) = T!Only(rs, at)
  <2>1. T!Only(rs, at) = T!FlattenSeq([i \in DOMAIN rs |-> IF i \in at THEN <<rs[i]>> ELSE << >>])
    BY DEF T!Only
  <2>2. T!Written(ds) = T!FlattenSeq([i \in DOMAIN asked |->
             IF ds[i] = "approve" THEN << >> ELSE <<T!Result(asked[i].id, T!Outcome(ds[i]))>>])
    BY DEF T!Written
  <2> QED
    BY <1>4, <2>1, <2>2
<1> HIDE DEF rs, at
<1>6. rs \in Seq(Messages)
  BY <1>1, <1>3, IsASeq
<1>7. ById(rs)
  BY <1>1, <1>2, <1>3 DEF ById
<1> QED
  BY <1>5, <1>6, <1>7, OnlyById

\* A message of the client is not told.
LEMMA MessageOnce == ASSUME VerdictInv, TalkInv, TranscriptInv, T!StartMessage PROVE TranscriptInv'
<1> DEFINE new == <<T!Human>>
<1>1. /\ msgs \in Seq(Messages) /\ log \in Seq(Events) /\ new \in Seq(Messages) /\ Len(new) = 1
      /\ \A i \in 1..Len(new) : new[i] = T!Human
  BY HumanIs DEF VerdictInv, GraphTyped, TalkInv, TalkTyped
<1>2. /\ msgs' = msgs \o new /\ config' = config /\ log' = log /\ todo' = << >> /\ place' = "patch"
      /\ cut' = cut /\ turn = "none"
  <2>1. Append(msgs, T!Human) = msgs \o new
    BY <1>1, AppendIsConcat, HumanIs
  <2> QED
    BY <2>1 DEF T!StartMessage
<1>3. todo = << >>
  BY <1>2 DEF TalkInv, TalkTyped
<1>4. T!ToSet(new) = {T!Human}
  BY DEF T!ToSet
<1> HIDE DEF new
<1>5. RepliesApart'
  <2>1. Held' = Held \cup {T!Human}
    <3>1. T!ToSet(msgs \o new) = T!ToSet(msgs) \cup T!ToSet(new)
      BY <1>1, SetOfConcat
    <3> QED
      BY <1>2, <1>4, <3>1 DEF Held
  <2>2. T!Calls(T!Human) = << >>
    BY HumanIs, MessageIs
  <2>3. \A m \in Held' : ById(T!Calls(m))
    BY <2>1, <2>2 DEF TranscriptInv, RepliesApart, ById
  <2> QED
    BY <2>3 DEF RepliesApart, ById, T!Calls
<1>6. Earlier'
  BY <1>1, <1>2, HumanIs, EarlierKept DEF TranscriptInv
<1>7. SaidOnce' /\ NoIdle'
  BY <1>2, <1>3 DEF TranscriptInv, SaidOnce, Apart, Counted, NoIdle
<1>8. TellsAll'
  <2>1. T!EventsFrom(msgs \o new, 0) = T!EventsFrom(msgs, 0) \o T!EventsFrom(msgs \o new, Len(msgs))
    BY <1>1, EventsAppended
  <2>2. T!EventsFrom(msgs \o new, Len(msgs)) = << >>
    BY <1>1, NothingSaid DEF new
  <2>3. T!EventsFrom(msgs, 0) \in Seq(Events)
    <3>1. 0 \in 0..Len(msgs)
      BY <1>1
    <3> QED
      BY <1>1, <3>1, EventsFromIs
  <2>4. T!EventsFrom(msgs', 0) = T!EventsFrom(msgs, 0)
    BY <1>2, <2>1, <2>2, <2>3, ConcatEmptySeq
  <2> QED
    BY <1>2, <1>3, <2>4, SameWords DEF TranscriptInv, TellsAll, Spoken
<1> QED
  BY <1>2, <1>5, <1>6, <1>7, <1>8 DEF TranscriptInv, AllOver

\* The answers of the client are written to calls that have no result yet.
LEMMA AnswersOnce ==
  ASSUME VerdictInv, TalkInv, TranscriptInv, NEW batch \in Seq(T!Answers), T!StartAnswers(batch)
  PROVE  TranscriptInv'
<1> DEFINE asked == T!Request
           ds    == T!Resume(batch)
           new   == T!Written(ds)
<1>1. msgs \in Seq(Messages) /\ GraphTyped
  BY DEF VerdictInv, GraphTyped
<1>2. /\ msgs' = msgs \o new /\ todo' = T!EventsFrom(msgs', Len(msgs)) /\ config' = config
      /\ log' = log /\ place \in {"gate", "paused"} /\ place' = "tools" /\ cut' = cut
      /\ turn = "none" /\ ~T!Refuses(ds)
  BY DEF T!StartAnswers
<1>3. todo = << >>
  BY <1>2 DEF TalkInv, TalkTyped
<1>4. /\ asked \in Seq(CallRec)
      /\ T!ToSet(asked) = {c \in T!ToSet(T!LastReply) : c.tool \in T!InterruptOn}
      /\ \A i \in 1..Len(asked) :
           asked[i].id \in T!Named(batch) /\ ds[i] = T!Decision(T!AnswerTo(batch, asked[i].id))
  BY <1>1, <1>2, DecisionsMatch
<1>5. \A i \in 1..Len(asked) : ds[i] \in {"approve", "reject", "respond"}
  BY <1>4, AnswerIs, DecisionIs
<1>6. ById(asked)
  <2>1. ById(T!LastReply) /\ T!LastReply \in Seq(CallRec)
    BY <1>1, LastReplyApart, LastReplyIs DEF TranscriptInv
  <2> QED
    BY <2>1, OnlyById DEF T!Request, T!Asking
<1>7. \A i \in 1..Len(asked) : ~Ended(asked[i].id, Held) /\ asked[i].id \in T!Ids
  <2>1. \A i \in 1..Len(asked) : asked[i] \in T!ToSet(asked) /\ asked[i] \in CallRec
    BY <1>4 DEF T!ToSet
  <2> QED
    BY <1>2, <1>4, <2>1 DEF VerdictInv, Waits, CallRec
<1> HIDE DEF asked, ds
<1>8. /\ new \in Seq(Messages) /\ ById(new)
      /\ T!ToSet(new) = {T!Result(asked[i].id, T!Outcome(ds[i])) : i \in {j \in 1..Len(asked) : ds[j] # "approve"}}
  BY <1>4, <1>5, <1>6, WrittenIs, WrittenApart DEF asked
<1> HIDE DEF new
<1>9. \A i \in 1..Len(new) : new[i].role = "tool" /\ ~Ended(new[i].id, Held)
  <2> SUFFICES ASSUME NEW i \in 1..Len(new) PROVE new[i].role = "tool" /\ ~Ended(new[i].id, Held)
    OBVIOUS
  <2>1. new[i] \in T!ToSet(new)
    BY <1>8 DEF T!ToSet
  <2>2. PICK j \in 1..Len(asked) : new[i] = T!Result(asked[j].id, T!Outcome(ds[j]))
    BY <1>8, <2>1
  <2>3. T!Outcome(ds[j]) \in Outcomes
    BY DEF T!Outcome, Outcomes
  <2>4. new[i].role = "tool" /\ new[i].id = asked[j].id
    BY <1>7, <2>2, <2>3, ResultIs
  <2> QED
    BY <1>7, <2>4
<1>10. RepliesApart' /\ Earlier' /\ SaidOnce' /\ NoIdle' /\ TellsAll'
  BY <1>2, <1>3, <1>8, <1>9, ResultsOnce
<1> QED
  BY <1>2, <1>10 DEF TranscriptInv, AllOver

\* The calls that run have no result yet, and then all of them have one.
LEMMA ToolsOnce == ASSUME VerdictInv, TalkInv, TranscriptInv, T!RunTools PROVE TranscriptInv'
<1> DEFINE due == T!Unanswered(T!LastReply)
           new == [i \in DOMAIN due |-> T!Result(due[i].id, "ran")]
<1>1. msgs \in Seq(Messages) /\ T!LastReply \in Seq(CallRec)
  BY LastReplyIs DEF VerdictInv, GraphTyped
<1>2. seen = Len(msgs) /\ todo = << >>
  BY NodeIs DEF T!RunTools
<1>3. /\ msgs' = msgs \o new /\ todo' = T!EventsFrom(msgs', Len(msgs)) /\ config' = config
      /\ log' = log /\ place' = "model" /\ cut' = cut
  BY <1>2 DEF T!RunTools, T!Snapshot
<1>4. /\ due \in Seq(CallRec) /\ "ran" \in Outcomes
      /\ T!ToSet(due) = {c \in T!ToSet(T!LastReply) : ~Ended(c.id, Held)}
  BY <1>1, UnansweredIs DEF Outcomes
<1>5. ById(due)
  <2>1. ById(T!LastReply)
    BY <1>1, LastReplyApart DEF TranscriptInv
  <2> QED
    BY <1>1, <2>1, OnlyById DEF T!Unanswered
<1> HIDE DEF due
<1>6. \A c \in T!ToSet(due) : c.id \in T!Ids
  <2>1. \A k \in DOMAIN due : due[k] \in CallRec
    BY <1>4
  <2> QED
    BY <2>1 DEF T!ToSet, CallRec
<1>7. new \in Seq(Messages) /\ ById(new) /\ T!ToSet(new) = {T!Result(c.id, "ran") : c \in T!ToSet(due)}
  BY <1>4, <1>5, ResultsOf, ResultsApart
<1> HIDE DEF new
<1>8. \A m \in T!ToSet(new) : m.role = "tool" /\ ~Ended(m.id, Held)
  BY <1>4, <1>6, <1>7, ResultIs
<1>9. \A i \in 1..Len(new) : new[i].role = "tool" /\ ~Ended(new[i].id, Held)
  BY <1>7, <1>8 DEF T!ToSet
<1>10. RepliesApart' /\ Earlier' /\ SaidOnce' /\ NoIdle' /\ TellsAll'
  BY <1>2, <1>3, <1>7, <1>9, ResultsOnce
<1>11. Held' = Held \cup T!ToSet(new)
  <2>1. T!ToSet(msgs \o new) = T!ToSet(msgs) \cup T!ToSet(new)
    BY <1>1, <1>7, SetOfConcat
  <2> QED
    BY <1>3, <2>1 DEF Held
<1>12. CallsIn(Held') = CallsIn(Held)
  <2>1. Held \in SUBSET Messages /\ T!ToSet(new) \in SUBSET Messages
    BY <1>1, <1>7, HeldIs DEF T!ToSet
  <2>2. \A m \in T!ToSet(new) : m.role # "ai"
    BY <1>8
  <2> QED
    BY <1>11, <2>1, <2>2, NoMoreCalls
<1>13. ASSUME NEW c \in CallsIn(Held) PROVE Ended(c.id, Held')
  <2>1. CASE Ended(c.id, Held)
    BY <1>11, <2>1 DEF Ended
  <2>2. CASE ~Ended(c.id, Held)
    <3>1. c \in T!ToSet(due)
      BY <1>1, <1>4, <2>2, LastCalls DEF TranscriptInv
    <3>2. T!Result(c.id, "ran") \in Held'
      BY <1>7, <1>11, <3>1
    <3>3. T!Result(c.id, "ran").role = "tool" /\ T!Result(c.id, "ran").id = c.id
      BY <1>4, <1>6, <3>1, ResultIs
    <3> QED
      BY <3>2, <3>3 DEF Ended
  <2> QED
    BY <2>1, <2>2
<1>14. AllOver'
  BY <1>12, <1>13 DEF AllOver
<1> QED
  BY <1>3, <1>10, <1>14 DEF TranscriptInv


\* What was told apart with more is told apart without it.
LEMMA ApartStart ==
  ASSUME NEW s \in Seq(Events), NEW t \in Seq(Events), NEW kinds, NEW fewer \in SUBSET kinds,
         Apart(s \o t, kinds)
  PROVE  Apart(s, fewer)
<1> DEFINE st == s \o t
<1>1. \A i \in DOMAIN s : i \in DOMAIN st /\ st[i] = s[i]
  OBVIOUS
<1> HIDE DEF st
<1> QED
  BY <1>1 DEF Apart, st

\* Where nothing is said and nothing comes in, all stays; a cut turn keeps to what it
\* said of calls.
LEMMA QuietOnce ==
  ASSUME VerdictInv, TalkInv, TranscriptInv, msgs' = msgs, config' = config, log' = log,
         place' = place \/ place' # "model",
         \/ todo' = todo /\ cut' = cut
         \/ todo' = << >> /\ cut' = TRUE
  PROVE  TranscriptInv'
<1>1. log \in Seq(Events) /\ todo \in Seq(Events) /\ Held' = Held
  BY DEF TalkInv, TalkTyped, Held
<1>2. RepliesApart'
  BY <1>1 DEF TranscriptInv, RepliesApart, ById, T!Calls
<1>3. Earlier'
  BY <1>1 DEF TranscriptInv, Earlier
<1>4. AllOver'
  BY <1>1 DEF TranscriptInv, AllOver
<1>5. CASE todo' = todo /\ cut' = cut
  <2>1. SaidOnce' /\ NoIdle'
    BY <1>5 DEF TranscriptInv, SaidOnce, NoIdle, Apart, Counted
  <2>2. TellsAll'
    BY <1>5, SameWords DEF TranscriptInv, TellsAll, Spoken
  <2>3. cut' \in BOOLEAN
    BY <1>5 DEF TranscriptInv
  <2> QED
    BY <1>2, <1>3, <1>4, <2>1, <2>2, <2>3 DEF TranscriptInv
<1>6. CASE todo' = << >> /\ cut' = TRUE
  <2>1. Apart(log, {"use"})
    BY <1>1, ApartStart DEF TranscriptInv, SaidOnce, Counted
  <2>2. log' \o todo' = log
    BY <1>1, <1>6, ConcatEmptySeq
  <2>3. SaidOnce' /\ NoIdle' /\ TellsAll'
    BY <1>6, <2>1, <2>2 DEF SaidOnce, NoIdle, TellsAll, Apart, Counted
  <2> QED
    BY <1>2, <1>3, <1>4, <1>6, <2>3 DEF TranscriptInv
<1> QED
  BY <1>5, <1>6

\* The last word of a turn is no word about a call.
LEMMA FinishOnce == ASSUME VerdictInv, TalkInv, TranscriptInv, T!Finish PROVE TranscriptInv'
<1> DEFINE ids == IF place = "paused" THEN PendingIds ELSE << >>
           idle == T!Idle(ids)
<1>1. /\ msgs' = msgs /\ config' = config /\ place' = place /\ todo = << >> /\ todo' = << >>
      /\ cut' = cut /\ log' = Append(log, idle)
  BY DEF T!Finish, T!StopReason, PendingIds
<1>2. log \in Seq(Events) /\ msgs \in Seq(Messages) /\ Held' = Held
  BY <1>1 DEF VerdictInv, GraphTyped, TalkInv, TalkTyped, Held
<1>3. idle \in Events /\ idle.type = "idle"
  <2>1. ids \in Seq(T!Ids)
    BY <1>2, PendingIs
  <2> HIDE DEF ids
  <2> QED
    BY <2>1 DEF T!Idle, Events
<1> HIDE DEF idle
<1>4. RepliesApart' /\ Earlier' /\ AllOver'
  BY <1>1, <1>2 DEF TranscriptInv, RepliesApart, Earlier, AllOver, ById, T!Calls
<1>5. SaidOnce'
  <2>1. log \o todo = log
    BY <1>1, <1>2, ConcatEmptySeq
  <2>2. Apart(log, Counted) /\ "idle" \notin Counted
    BY <2>1 DEF TranscriptInv, SaidOnce, Counted
  <2> DEFINE last == <<idle>>
  <2>3. last \in Seq(Events) /\ \A i \in DOMAIN last : last[i].type = "idle"
    BY <1>3
  <2>4. Apart(last, Counted)
    BY <2>2, <2>3 DEF Apart
  <2>5. log' = log \o last
    BY <1>1, <1>2, <1>3, AppendIsConcat
  <2> HIDE DEF last
  <2>6. Apart(log \o last, Counted)
    BY <1>2, <2>2, <2>3, <2>4, ApartConcat
  <2>7. log' \o todo' = log \o last
    <3>1. log \o last \in Seq(Events)
      BY <1>2, <2>3
    <3> QED
      BY <1>1, <2>5, <3>1, ConcatEmptySeq
  <2>8. Apart(log' \o todo', Counted)
    BY <2>6, <2>7
  <2> QED
    BY <1>1, <2>8 DEF SaidOnce, Apart, Counted
<1>6. NoIdle'
  BY <1>1 DEF NoIdle
<1>7. TellsAll'
  <2>1. Spoken(log') = Spoken(log)
    BY <1>1, <1>2, <1>3, SpokenAppend
  <2> QED
    BY <1>1, <2>1, SameWords DEF TranscriptInv, TellsAll, Spoken
<1> QED
  BY <1>1, <1>4, <1>5, <1>6, <1>7 DEF TranscriptInv

\* What is said next is said after what was said.
LEMMA NextWord ==
  ASSUME NEW S, NEW s \in Seq(S), NEW t \in Seq(S), t # << >>
  PROVE  Append(s, Head(t)) \o Tail(t) = s \o t
<1>1. Head(t) \in S /\ Tail(t) \in Seq(S) /\ Len(t) \in Nat /\ Len(t) # 0
  OBVIOUS
<1>2. /\ Len(s) \in Nat /\ Len(Tail(t)) = Len(t) - 1 /\ Head(t) = t[1]
      /\ \A i \in 1..(Len(t) - 1) : Tail(t)[i] = t[i + 1]
  BY <1>1
<1> DEFINE u == Append(s, Head(t))
           a == u \o Tail(t)
<1>3. /\ u \in Seq(S) /\ Len(u) = Len(s) + 1 /\ u[Len(s) + 1] = Head(t)
      /\ \A i \in 1..Len(s) : u[i] = s[i]
  BY <1>1
<1> HIDE DEF u
<1>4. /\ a \in Seq(S) /\ Len(a) = Len(s) + Len(t)
      /\ \A i \in 1..(Len(s) + 1) : a[i] = u[i]
      /\ \A i \in 1..(Len(t) - 1) : a[(Len(s) + 1) + i] = Tail(t)[i]
  <2>1. PICK rest \in Seq(S) : rest = Tail(t)
    BY <1>1
  <2>2. /\ u \o rest \in Seq(S) /\ Len(u \o rest) = Len(u) + Len(rest) /\ Len(u) \in Nat
        /\ \A i \in 1..Len(u) : (u \o rest)[i] = u[i]
        /\ \A i \in 1..Len(rest) : (u \o rest)[Len(u) + i] = rest[i]
    <3>1. PICK v \in Seq(S) : v = u
      BY <1>3
    <3>2. /\ v \o rest \in Seq(S) /\ Len(v \o rest) = Len(v) + Len(rest) /\ Len(v) \in Nat
          /\ \A i \in 1..Len(v) : (v \o rest)[i] = v[i]
          /\ \A i \in 1..Len(rest) : (v \o rest)[Len(v) + i] = rest[i]
      OBVIOUS
    <3> QED
      BY <3>1, <3>2
  <2>3. a = u \o rest /\ Len(rest) = Len(t) - 1 /\ Len(u) + Len(rest) = Len(s) + Len(t)
    BY <1>1, <1>2, <1>3, <2>1
  <2> QED
    BY <1>3, <2>1, <2>2, <2>3
<1> HIDE DEF a
<1>5. \A i \in 1..Len(s) : a[i] = s[i]
  BY <1>2, <1>3, <1>4
<1>6. ASSUME NEW i \in 1..Len(t) PROVE a[Len(s) + i] = t[i]
  <2>1. CASE i = 1
    <3>1. Len(s) + 1 \in 1..(Len(s) + 1)
      BY <1>2
    <3> QED
      BY <1>2, <1>3, <1>4, <2>1, <3>1
  <2>2. CASE i # 1
    <3>1. i - 1 \in 1..(Len(t) - 1) /\ (Len(s) + 1) + (i - 1) = Len(s) + i /\ (i - 1) + 1 = i
      BY <1>1, <1>2, <2>2
    <3>2. a[(Len(s) + 1) + (i - 1)] = Tail(t)[i - 1] /\ Tail(t)[i - 1] = t[(i - 1) + 1]
      BY <1>2, <1>4, <3>1
    <3> QED
      BY <3>1, <3>2
  <2> QED
    BY <2>1, <2>2
<1>7. a = s \o t
  BY <1>4, <1>5, <1>6, ConcatIs
<1> QED
  BY <1>7 DEF a, u

\* What is emitted was not announced before, so that it goes into the log.
LEMMA EmitOnce == ASSUME VerdictInv, TalkInv, TranscriptInv, T!Emit PROVE TranscriptInv'
<1>1. /\ todo # << >> /\ todo' = Tail(todo) /\ msgs' = msgs /\ config' = config /\ place' = place
      /\ cut' = cut
  BY DEF T!Emit
<1>2. log \in Seq(Events) /\ todo \in Seq(Events) /\ Held' = Held
  BY <1>1 DEF TalkInv, TalkTyped, Held
<1>3. /\ Head(todo) = todo[1] /\ Head(todo) \in Events /\ Tail(todo) \in Seq(Events)
      /\ Len(todo) \in Nat /\ Len(todo) # 0 /\ Len(log) \in Nat /\ DOMAIN todo = 1..Len(todo)
      /\ 1 \in DOMAIN todo /\ DOMAIN Tail(todo) = 1..(Len(todo) - 1)
      /\ \A i \in 1..(Len(todo) - 1) : Tail(todo)[i] = todo[i + 1] /\ i + 1 \in DOMAIN todo
  BY <1>1, <1>2
<1>4. log' = Append(log, Head(todo))
  <2> SUFFICES ASSUME Head(todo).type = "use", Head(todo).id \in announced PROVE FALSE
    BY DEF T!Emit
  <2>1. PICK e \in T!ToSet(log) : e.type = "use" /\ e.id = Head(todo).id
    BY DEF TalkInv, Truthful, Announced
  <2>2. PICK k \in DOMAIN log : log[k] = e
    BY <2>1 DEF T!ToSet
  <2> DEFINE all == log \o todo
             n   == Len(log) + 1
  <2>3. k \in DOMAIN all /\ all[k] = log[k] /\ n \in DOMAIN all /\ all[n] = todo[1] /\ k # n
    <3>1. k \in 1..Len(log) /\ DOMAIN all = 1..(Len(log) + Len(todo))
      BY <1>2
    <3> QED
      BY <1>2, <1>3, <3>1
  <2> HIDE DEF all, n
  <2>4. Apart(all, Counted) /\ "use" \in Counted
    BY DEF TranscriptInv, SaidOnce, Counted, all
  <2> QED
    BY <1>3, <2>1, <2>2, <2>3, <2>4 DEF Apart
<1>5. RepliesApart' /\ Earlier' /\ AllOver'
  BY <1>1, <1>2 DEF TranscriptInv, RepliesApart, Earlier, AllOver, ById, T!Calls
<1>6. log' \o todo' = log \o todo
  BY <1>1, <1>2, <1>4, NextWord
<1>7. SaidOnce'
  <2>1. Apart(log \o todo, Counted)
    BY DEF TranscriptInv, SaidOnce
  <2>2. Apart(log' \o todo', Counted)
    BY <1>6, <2>1
  <2> QED
    BY <1>1, <2>2 DEF SaidOnce, Apart, Counted
<1>8. NoIdle'
  BY <1>1, <1>3 DEF TranscriptInv, NoIdle
<1>9. TellsAll'
  <2>1. Spoken(log) \in Seq(Events) /\ Spoken(log') = Append(Spoken(log), Head(todo))
    BY <1>2, <1>3, <1>4, SpokenAppend DEF TranscriptInv, NoIdle
  <2>2. Spoken(log') \o todo' = Spoken(log) \o todo
    BY <1>1, <1>2, <2>1, NextWord
  <2> QED
    BY <1>1, <2>2, SameWords DEF TranscriptInv, TellsAll, Spoken
<1> QED
  BY <1>1, <1>5, <1>7, <1>8, <1>9 DEF TranscriptInv

\* The calls of a new reply are numbered on, so that none of them was said before.
LEMMA ModelOnce ==
  ASSUME T!BoundAssumption, VerdictInv, TalkInv, TranscriptInv,
         NEW tools \in T!BoundedSeq(T!Tools, MaxReply), T!Model(tools)
  PROVE  TranscriptInv'
<1>1. PICK n \in 0..MaxCalls, cs \in Seq(CallRec) :
        /\ msgs' = Append(msgs, T!Reply(cs)) /\ n + Len(cs) <= MaxCalls
        /\ {c.id : c \in CallsIn(Held)} = 1..n
        /\ \A i \in 1..Len(cs) : cs[i].id = n + i
  BY NewCalls
<1> DEFINE new == <<T!Reply(cs)>>
<1>2. msgs \in Seq(Messages) /\ log \in Seq(Events) /\ Len(msgs) \in Nat
  BY DEF VerdictInv, GraphTyped, TalkInv, TalkTyped
<1>3. /\ T!Reply(cs) \in Messages /\ T!Calls(T!Reply(cs)) = cs /\ T!Reply(cs).role = "ai"
      /\ Len(cs) \in Nat /\ DOMAIN cs = 1..Len(cs) /\ \A i \in 1..Len(cs) : cs[i] \in CallRec
  BY ReplyIs
<1>4. new \in Seq(Messages) /\ Len(new) = 1
  BY <1>3
<1>5. /\ place = "model" /\ todo = << >> /\ seen = Len(msgs) /\ place' = "gate" /\ config' = config
      /\ log' = log /\ cut' = cut /\ todo' = T!EventsFrom(msgs', Len(msgs))
  BY NodeIs DEF T!Model, T!Snapshot
<1>6. msgs' = msgs \o new
  BY <1>1, <1>2, <1>3, AppendIsConcat
<1>7. Held' = Held \cup {T!Reply(cs)}
  <2>1. T!ToSet(Append(msgs, T!Reply(cs))) = T!ToSet(msgs) \cup {T!Reply(cs)}
    BY <1>2, <1>3, SetOfAppend
  <2> QED
    BY <1>1, <2>1 DEF Held
<1>8. todo' = [i \in DOMAIN cs |-> T!Use(cs[i])]
  BY <1>2, <1>5, <1>6, CallsTold
<1> DEFINE t == [i \in DOMAIN cs |-> T!Use(cs[i])]
<1>9. /\ DOMAIN t = 1..Len(cs) /\ t \in Seq(Events)
      /\ \A i \in 1..Len(cs) : t[i].type = "use" /\ t[i].id = n + i
  <2>1. \A i \in 1..Len(cs) : t[i] = T!Use(cs[i])
    BY <1>3
  <2>2. t \in [1..Len(cs) -> Events]
    BY <1>3, UseIs
  <2>3. t \in Seq(Events)
    BY <1>3, <2>2, IsASeq
  <2> QED
    BY <1>1, <1>3, <2>1, <2>3, UseIs
<1> HIDE DEF t, new
<1>10. RepliesApart'
  <2>1. ById(cs)
    BY <1>1, <1>3 DEF ById
  <2>2. \A m \in Held' : ById(T!Calls(m))
    BY <1>3, <1>7, <2>1 DEF TranscriptInv, RepliesApart
  <2> QED
    BY <2>2 DEF RepliesApart, ById, T!Calls
<1>11. Earlier'
  <2>1. \A c \in CallsIn(Held) : Ended(c.id, Held)
    BY <1>5 DEF TranscriptInv, AllOver
  <2>2. /\ DOMAIN msgs' = 1..(Len(msgs) + 1)
        /\ \A i \in 1..Len(msgs) : msgs'[i] = msgs[i] /\ i \in DOMAIN msgs
    BY <1>1, <1>2, <1>3
  <2> SUFFICES ASSUME NEW j \in DOMAIN msgs', NEW i \in 1..(j - 1), NEW c \in T!ToSet(T!Calls(msgs'[i]))
               PROVE  Ended(c.id, Held')
    BY DEF Earlier
  <2>3. i \in 1..Len(msgs)
    BY <1>2, <2>2
  <2>4. msgs[i] \in Held /\ c \in T!ToSet(T!Calls(msgs[i]))
    BY <1>2, <2>2, <2>3, HeldIs
  <2>5. c \in CallsIn(Held)
    BY <2>4 DEF CallsIn
  <2> QED
    BY <1>7, <2>1, <2>5 DEF Ended
<1>12. SaidOnce'
  <2>1. log \o todo = log
    BY <1>2, <1>5, ConcatEmptySeq
  <2>2. Apart(log, Counted)
    BY <2>1 DEF TranscriptInv, SaidOnce
  <2>3. Apart(t, Counted)
    BY <1>9, <1>1 DEF Apart
  <2>4. ASSUME NEW i \in DOMAIN log, NEW j \in DOMAIN t, t[j].type = log[i].type, log[i].id = t[j].id
        PROVE  FALSE
    <3>1. log[i] \in Told /\ log[i].type = "use" /\ log[i].id = n + j
      BY <1>9, <2>4 DEF Told, T!ToSet
    <3>2. PICK c \in CallsIn(Held) : c.id = log[i].id
      BY <3>1 DEF TalkInv, Truthful, True
    <3>3. n + j \in 1..n /\ j \in 1..Len(cs)
      BY <1>1, <1>9, <3>1, <3>2
    <3> QED
      BY <3>3
  <2>5. Apart(log \o t, Counted)
    BY <1>2, <1>9, <2>2, <2>3, <2>4, ApartConcat
  <2>6. log' \o todo' = log \o t
    BY <1>5, <1>8 DEF t
  <2>7. Apart(log' \o todo', Counted)
    BY <2>5, <2>6
  <2> QED
    BY <1>5, <2>7 DEF SaidOnce, Apart, Counted
<1>13. NoIdle'
  BY <1>8, <1>9 DEF NoIdle, t
<1>14. TellsAll'
  <2> SUFFICES ASSUME ~cut PROVE Spoken(log) \o todo' = T!EventsFrom(msgs', 0)
    BY <1>5, SameWords DEF TellsAll, Spoken
  <2>1. Spoken(log) = T!EventsFrom(msgs, 0)
    <3>1. Spoken(log) \in Seq(Events)
      BY <1>2, OnlyIs DEF Spoken
    <3>2. Spoken(log) \o << >> = Spoken(log)
      BY <3>1, ConcatEmptySeq
    <3> QED
      BY <1>5, <3>2 DEF TranscriptInv, TellsAll
  <2>2. T!EventsFrom(msgs \o new, 0) = T!EventsFrom(msgs, 0) \o T!EventsFrom(msgs \o new, Len(msgs))
    BY <1>2, <1>4, EventsAppended
  <2> QED
    BY <1>5, <1>6, <2>1, <2>2
<1> QED
  BY <1>5, <1>10, <1>11, <1>12, <1>13, <1>14 DEF TranscriptInv, AllOver

\* What the patch writes after a message: results, of its calls that have none.
LEMMA CancelledIs ==
  ASSUME msgs \in Seq(Messages), NEW m \in Messages
  PROVE  /\ T!Cancelled(m) \in Seq(Messages)
         /\ \A r \in T!ToSet(T!Cancelled(m)) : r.role = "tool"
         /\ \A c \in T!ToSet(T!Calls(m)) :
              ~Ended(c.id, Held) => \E r \in T!ToSet(T!Cancelled(m)) : r.role = "tool" /\ r.id = c.id
         /\ (\A c \in T!ToSet(T!Calls(m)) : Ended(c.id, Held)) => T!Cancelled(m) = << >>
<1> DEFINE due == T!Unanswered(T!Calls(m))
<1>1. due \in Seq(CallRec) /\ T!ToSet(due) = {c \in T!ToSet(T!Calls(m)) : ~Ended(c.id, Held)}
  BY MessageIs, UnansweredIs
<1>2. T!Cancelled(m) = [k \in DOMAIN due |-> T!Result(due[k].id, "cancelled")]
  BY DEF T!Cancelled
<1> HIDE DEF due
<1>3. "cancelled" \in Outcomes
  BY DEF Outcomes
<1>4. /\ T!Cancelled(m) \in Seq(Messages) /\ Len(T!Cancelled(m)) = Len(due)
      /\ T!ToSet(T!Cancelled(m)) = {T!Result(c.id, "cancelled") : c \in T!ToSet(due)}
  BY <1>1, <1>2, <1>3, ResultsOf
<1>5. \A c \in T!ToSet(due) : c.id \in T!Ids
  <2>1. \A k \in DOMAIN due : due[k] \in CallRec
    BY <1>1
  <2> QED
    BY <2>1 DEF T!ToSet, CallRec
<1>6. \A c \in T!ToSet(due) :
        T!Result(c.id, "cancelled").role = "tool" /\ T!Result(c.id, "cancelled").id = c.id
  BY <1>3, <1>5, ResultIs
<1>7. T!ToSet(due) = {} => T!Cancelled(m) = << >>
  <2> SUFFICES ASSUME T!ToSet(due) = {} PROVE T!Cancelled(m) = << >>
    OBVIOUS
  <2>1. Len(due) \in Nat /\ \A k \in 1..Len(due) : due[k] \in T!ToSet(due)
    BY <1>1 DEF T!ToSet
  <2>2. Len(due) = 0
    <3> SUFFICES ASSUME Len(due) # 0 PROVE FALSE
      OBVIOUS
    <3>1. 1 \in 1..Len(due)
      BY <2>1
    <3>2. due[1] \in {}
      BY <2>1, <3>1
    <3> QED
      BY <3>2
  <2> QED
    BY <1>4, <2>2, EmptySeq
<1> QED
  BY <1>1, <1>4, <1>6, <1>7

\* What the patch adds past the length of the transcript is no reply: a reply is not
\* moved, as only the last one can have calls to cancel.
LEMMA NoReplyBeyond ==
  ASSUME msgs \in Seq(Messages), Earlier, T!Patch
  PROVE  \A k \in (Len(msgs) + 1)..Len(msgs') : msgs'[k].role # "ai"
<1> DEFINE ss == [i \in DOMAIN msgs |-> <<msgs[i]>> \o T!Cancelled(msgs[i])]
           n  == Len(msgs)
<1>1. msgs' = T!FlattenSeq(ss)
  BY DEF T!Patch, T!Snapshot
<1>2. n \in Nat /\ DOMAIN msgs = 1..n /\ \A i \in 1..n : msgs[i] \in Messages
  OBVIOUS
<1>3. \A i \in 1..n : ss[i] = <<msgs[i]>> \o T!Cancelled(msgs[i]) /\ ss[i] \in Seq(Messages)
  <2> SUFFICES ASSUME NEW i \in 1..n
               PROVE  ss[i] = <<msgs[i]>> \o T!Cancelled(msgs[i]) /\ ss[i] \in Seq(Messages)
    OBVIOUS
  <2>1. <<msgs[i]>> \in Seq(Messages) /\ T!Cancelled(msgs[i]) \in Seq(Messages)
    BY <1>2, CancelledIs
  <2> QED
    BY <1>2, <2>1, ConcatProperties
<1>4. ss \in Seq(Seq(Messages)) /\ Len(ss) = n
  <2>1. ss \in [1..n -> Seq(Messages)]
    BY <1>2, <1>3
  <2> HIDE DEF ss
  <2> QED
    BY <1>2, <2>1, IsASeq, LenProperties
<1> HIDE DEF ss
<1>5. PICK f \in [0..n -> Seq(Messages)] : Steps(ss, f, n) /\ msgs' = f[n]
  <2>1. PICK g \in [0..Len(ss) -> Seq(Messages)] : Steps(ss, g, Len(ss)) /\ T!FlattenSeq(ss) = g[Len(ss)]
    BY <1>4, FlattenIs
  <2> QED
    BY <1>1, <1>4, <2>1
<1>6. f[0] = << >> /\ \A i \in 1..n : f[i] = f[i - 1] \o ss[i]
  BY <1>5 DEF Steps
<1> HIDE DEF n
<1> DEFINE Behind(i) == \A k \in 1..Len(f[i]) : f[i][k].role = "ai" => k <= i
           Even(i)   == (\A j \in 1..i : T!Cancelled(msgs[j]) = << >>) => Len(f[i]) = i
           X == {i \in 0..n : Behind(i) /\ Even(i)}
<1>7. 0 \in X
  <2>1. Len(f[0]) = 0 /\ 0 \in 0..n /\ 1..0 = {}
    BY <1>2, <1>6
  <2> QED
    BY <2>1
<1>8. ASSUME NEW i \in 0..(n - 1), i \in X PROVE i + 1 \in X
  <2>1. i \in Nat /\ i + 1 \in 1..n /\ i + 1 \in 0..n /\ (i + 1) - 1 = i /\ i \in 0..n
        /\ \A j \in 1..i : j \in 1..n /\ j \in 1..(i + 1)
    BY <1>2
  <2>2. Behind(i) /\ Even(i)
    BY <1>8
  <2> HIDE DEF X
  <2> DEFINE m == msgs[i + 1]
             more == T!Cancelled(m)
             l == Len(f[i])
  <2>3. f[i + 1] = f[i] \o ss[i + 1] /\ ss[i + 1] = <<m>> \o more /\ f[i] \in Seq(Messages)
    BY <1>3, <1>6, <2>1
  <2>4. m \in Messages /\ more \in Seq(Messages) /\ \A k \in DOMAIN more : more[k].role = "tool"
    <3>1. m \in Messages
      BY <1>2, <2>1
    <3> QED
      BY <3>1, CancelledIs DEF T!ToSet
  <2> HIDE DEF m, more
  <2>5. /\ ss[i + 1] \in Seq(Messages) /\ Len(ss[i + 1]) = 1 + Len(more) /\ Len(more) \in Nat
        /\ ss[i + 1][1] = m
        /\ \A k \in 2..(1 + Len(more)) : ss[i + 1][k].role = "tool"
    <3> DEFINE s == <<m>> \o more
    <3>1. /\ s \in Seq(Messages) /\ Len(s) = 1 + Len(more) /\ Len(more) \in Nat /\ s[1] = m
          /\ \A k \in 1..Len(more) : s[1 + k] = more[k]
      BY <2>4
    <3> HIDE DEF s
    <3>2. ASSUME NEW k \in 2..(1 + Len(more)) PROVE s[k].role = "tool"
      <4>1. k - 1 \in 1..Len(more) /\ 1 + (k - 1) = k /\ k - 1 \in DOMAIN more
        BY <2>4, <3>1
      <4>2. s[1 + (k - 1)] = more[k - 1]
        BY <3>1, <4>1
      <4> QED
        BY <2>4, <4>1, <4>2
    <3> QED
      BY <2>3, <3>1, <3>2 DEF s
  <2>6. /\ l \in Nat /\ Len(f[i + 1]) = l + (1 + Len(more))
        /\ \A k \in 1..l : f[i + 1][k] = f[i][k]
        /\ \A k \in 1..(1 + Len(more)) : f[i + 1][l + k] = ss[i + 1][k]
    <3>1. PICK s \in Seq(Messages), t \in Seq(Messages) : s = f[i] /\ t = ss[i + 1]
      BY <2>3, <2>5
    <3>2. /\ Len(s) \in Nat /\ Len(s \o t) = Len(s) + Len(t)
          /\ \A k \in 1..Len(s) : (s \o t)[k] = s[k]
          /\ \A k \in 1..Len(t) : (s \o t)[Len(s) + k] = t[k]
      OBVIOUS
    <3>3. f[i + 1] = s \o t /\ Len(t) = 1 + Len(more)
      BY <2>3, <2>5, <3>1
    <3> QED
      BY <3>1, <3>2, <3>3
  <2>7. m.role = "ai" => l = i
    <3> SUFFICES ASSUME m.role = "ai", NEW j \in 1..i PROVE T!Cancelled(msgs[j]) = << >>
      BY <2>2
    <3>1. \A c \in T!ToSet(T!Calls(msgs[j])) : Ended(c.id, Held)
      <4>1. i + 1 \in DOMAIN msgs /\ j \in 1..((i + 1) - 1) /\ msgs[i + 1].role = "ai"
        BY <1>2, <2>1 DEF m
      <4> QED
        BY <4>1 DEF Earlier
    <3>2. msgs[j] \in Messages
      BY <1>2, <2>1
    <3> QED
      BY <3>1, <3>2, CancelledIs
  <2> HIDE DEF l
  <2>8. Behind(i + 1)
    <3> SUFFICES ASSUME NEW k \in 1..Len(f[i + 1]), f[i + 1][k].role = "ai" PROVE k <= i + 1
      OBVIOUS
    <3>1. CASE k <= l
      <4>1. k \in 1..l
        BY <2>5, <2>6, <3>1
      <4>2. k <= i
        BY <2>2, <2>6, <4>1 DEF l
      <4> QED
        BY <2>1, <2>6, <4>1, <4>2
    <3>2. CASE ~(k <= l)
      <4>1. k - l \in 1..(1 + Len(more)) /\ l + (k - l) = k
        BY <2>5, <2>6, <3>2
      <4>2. ss[i + 1][k - l].role = "ai"
        BY <2>6, <4>1
      <4>3. k - l = 1
        <5>1. k - l = 1 \/ k - l \in 2..(1 + Len(more))
          BY <2>5, <4>1
        <5> QED
          BY <2>5, <4>2, <5>1
      <4>4. l = i
        BY <2>5, <2>7, <4>2, <4>3
      <4> QED
        BY <2>1, <4>1, <4>3, <4>4
    <3> QED
      BY <3>1, <3>2
  <2>9. Even(i + 1)
    <3> SUFFICES ASSUME \A j \in 1..(i + 1) : T!Cancelled(msgs[j]) = << >> PROVE Len(f[i + 1]) = i + 1
      OBVIOUS
    <3>1. more = << >> /\ Len(more) = 0
      BY <2>1 DEF more, m
    <3>2. l = i
      BY <2>1, <2>2 DEF l
    <3> QED
      BY <2>1, <2>6, <3>1, <3>2
  <2> QED
    BY <2>1, <2>8, <2>9 DEF X
<1>9. n \in X
  <2> HIDE DEF X
  <2>1. \A i \in 0..n : i \in X
    BY <1>2, <1>7, <1>8, Climb
  <2> QED
    BY <1>2, <2>1
<1> SUFFICES ASSUME NEW k \in (Len(msgs) + 1)..Len(msgs'), msgs'[k].role = "ai" PROVE FALSE
  OBVIOUS
<1>10. f[n] \in Seq(Messages) /\ Len(f[n]) \in Nat
  BY <1>2, <1>5
<1>11. k \in 1..Len(f[n]) /\ ~(k <= n)
  BY <1>2, <1>5, <1>10 DEF n
<1>12. k <= n
  BY <1>5, <1>9, <1>11
<1> QED
  BY <1>11, <1>12

\* What the patch writes is in the transcript.
LEMMA PatchKeeps ==
  ASSUME msgs \in Seq(Messages), T!Patch, NEW m \in Held
  PROVE  T!ToSet(T!Cancelled(m)) \subseteq Held'
<1> DEFINE ss == [i \in DOMAIN msgs |-> <<msgs[i]>> \o T!Cancelled(msgs[i])]
           n  == Len(msgs)
<1>1. msgs' = T!FlattenSeq(ss)
  BY DEF T!Patch, T!Snapshot
<1>2. n \in Nat /\ DOMAIN msgs = 1..n /\ \A i \in 1..n : msgs[i] \in Messages
  OBVIOUS
<1>3. \A i \in 1..n : /\ ss[i] = <<msgs[i]>> \o T!Cancelled(msgs[i]) /\ ss[i] \in Seq(Messages)
                     /\ T!ToSet(T!Cancelled(msgs[i])) \subseteq T!ToSet(ss[i])
  <2> SUFFICES ASSUME NEW i \in 1..n
               PROVE  /\ ss[i] = <<msgs[i]>> \o T!Cancelled(msgs[i]) /\ ss[i] \in Seq(Messages)
                      /\ T!ToSet(T!Cancelled(msgs[i])) \subseteq T!ToSet(ss[i])
    OBVIOUS
  <2>1. <<msgs[i]>> \in Seq(Messages) /\ T!Cancelled(msgs[i]) \in Seq(Messages)
    BY <1>2, CancelledIs
  <2>2. \A s, r \in Seq(Messages) : T!ToSet(s \o r) = T!ToSet(s) \cup T!ToSet(r)
    BY SetOfConcat
  <2>3. T!ToSet(T!Cancelled(msgs[i])) \subseteq T!ToSet(<<msgs[i]>> \o T!Cancelled(msgs[i]))
    BY <2>1, <2>2
  <2> QED
    BY <1>2, <2>1, <2>3, ConcatProperties
<1>4. ss \in Seq(Seq(Messages)) /\ Len(ss) = n
  <2>1. ss \in [1..n -> Seq(Messages)]
    BY <1>2, <1>3
  <2> HIDE DEF ss
  <2> QED
    BY <1>2, <2>1, IsASeq, LenProperties
<1> HIDE DEF ss
<1>5. Held' = UNION {T!ToSet(ss[i]) : i \in 1..n}
  BY <1>1, <1>4, SetOfFlatten DEF Held
<1>6. PICK i \in 1..n : m = msgs[i]
  BY HeldIs
<1> QED
  BY <1>3, <1>5, <1>6

\* The patch gives a result to every call that has none; what it tells is no call.
LEMMA PatchOnce == ASSUME VerdictInv, TalkInv, TranscriptInv, T!Patch PROVE TranscriptInv'
<1>1. msgs \in Seq(Messages) /\ log \in Seq(Events) /\ Len(msgs) \in Nat
  BY DEF VerdictInv, GraphTyped, TalkInv, TalkTyped
<1>2. /\ todo = << >> /\ seen = Len(msgs) /\ todo' = T!EventsFrom(msgs', Len(msgs))
      /\ config' = config /\ log' = log /\ place' = "model" /\ cut' = (cut \/ msgs' # msgs)
  BY NodeIs DEF T!Patch, T!Snapshot
<1>3. msgs' \in Seq(Messages) /\ Len(msgs') \in Nat /\ Len(msgs) \in 0..Len(msgs')
  BY <1>1, PatchedIs
<1>4. PICK new \in SUBSET Messages : Held' = Held \cup new /\ \A m \in new : m.role = "tool"
  BY <1>1, PatchedIs
<1>5. CallsIn(Held') = CallsIn(Held)
  BY <1>1, <1>4, HeldIs, NoMoreCalls
<1>6. \A c \in CallsIn(Held') : Ended(c.id, Held')
  <2> SUFFICES ASSUME NEW c \in CallsIn(Held), ~Ended(c.id, Held) PROVE Ended(c.id, Held')
    BY <1>4, <1>5 DEF Ended
  <2>1. PICK m \in Held : c \in T!ToSet(T!Calls(m))
    BY DEF CallsIn
  <2>2. m \in Messages
    BY <1>1, HeldIs
  <2>3. PICK r \in T!ToSet(T!Cancelled(m)) : r.role = "tool" /\ r.id = c.id
    BY <1>1, <2>1, <2>2, CancelledIs
  <2>4. T!ToSet(T!Cancelled(m)) \subseteq Held'
    BY <1>1, <2>1, PatchKeeps
  <2> QED
    BY <2>3, <2>4 DEF Ended
<1>7. RepliesApart'
  <2>1. \A m \in new : T!Calls(m) = << >>
    BY <1>4, MessageIs
  <2>2. \A m \in Held' : ById(T!Calls(m))
    BY <1>4, <2>1 DEF TranscriptInv, RepliesApart, ById
  <2> QED
    BY <2>2 DEF RepliesApart, ById, T!Calls
<1>8. Earlier' /\ AllOver'
  BY <1>3, <1>6, EarlierOver DEF AllOver
<1>9. PICK t \in Seq(Events) : t = todo'
  <2>1. PICK list \in Seq(Messages) : list = msgs'
    BY <1>3
  <2> QED
    BY <1>2, <1>3, <2>1, EventsFromIs
<1>10. \A i \in DOMAIN t : t[i].type = "result"
  <2> SUFFICES ASSUME NEW i \in DOMAIN t PROVE t[i].type = "result"
    OBVIOUS
  <2>1. PICK list \in Seq(Messages) : list = msgs'
    BY <1>3
  <2>2. t[i] \in T!ToSet(T!EventsFrom(list, Len(msgs))) /\ Len(msgs) \in 0..Len(list)
    BY <1>2, <1>3, <1>9, <2>1 DEF T!ToSet
  <2>3. PICK k \in (Len(msgs) + 1)..Len(list) : t[i] \in T!ToSet(T!EventsOf(list[k]))
    BY <2>2, EventsFromIs
  <2>4. list[k].role # "ai"
    BY <1>1, <2>1, NoReplyBeyond DEF TranscriptInv
  <2>5. list[k] \in Messages
    BY <1>1, <2>3
  <2>6. list[k].role = "tool" /\ t[i] = T!Told(list[k])
    BY <2>3, <2>4, <2>5, EventsOfIs, MessageIs
  <2> QED
    BY <2>5, <2>6, ToldIs
<1>11. NoIdle'
  BY <1>9, <1>10 DEF NoIdle
<1>12. CASE cut'
  <2>1. Apart(log, {"use"}) /\ Apart(t, {"use"})
    <3>1. todo \in Seq(Events)
      BY DEF TalkInv, TalkTyped
    <3>2. Apart(log, {"use"})
      BY <1>1, <3>1, ApartStart DEF TranscriptInv, SaidOnce, Counted
    <3> QED
      BY <1>10, <3>2 DEF Apart
  <2>2. Apart(log \o t, {"use"})
    BY <1>1, <1>9, <1>10, <2>1, ApartConcat
  <2>3. Apart(log' \o todo', {"use"})
    BY <1>2, <1>9, <2>2
  <2>4. SaidOnce' /\ TellsAll'
    BY <1>12, <2>3 DEF SaidOnce, TellsAll, Apart, Counted
  <2>5. cut' \in BOOLEAN
    BY <1>2 DEF TranscriptInv
  <2> QED
    BY <1>7, <1>8, <1>11, <2>4, <2>5 DEF TranscriptInv
<1>13. CASE ~cut'
  <2>1. ~cut /\ cut' = cut /\ msgs' = msgs
    BY <1>2, <1>13 DEF TranscriptInv
  <2>2. todo' = todo
    BY <1>1, <1>2, <2>1, NothingSaid
  <2>3. SaidOnce' /\ TellsAll'
    <3>1. Apart(log' \o todo', Counted)
      BY <1>2, <2>2 DEF TranscriptInv, SaidOnce
    <3>2. SaidOnce'
      BY <2>1, <3>1 DEF SaidOnce, Apart, Counted
    <3>3. TellsAll'
      BY <1>2, <2>1, <2>2, SameWords DEF TranscriptInv, TellsAll, Spoken
    <3> QED
      BY <3>2, <3>3
  <2> QED
    BY <1>7, <1>8, <1>11, <2>1, <2>3 DEF TranscriptInv
<1> QED
  BY <1>12, <1>13

\* The invariant holds at first ...
LEMMA TranscriptInit == T!Init => TranscriptInv
<1> SUFFICES ASSUME T!Init PROVE TranscriptInv
  OBVIOUS
<1>1. msgs = << >> /\ place = "rest" /\ todo = << >> /\ log = << >> /\ cut = FALSE /\ Held = {}
  BY DEF T!Init, Held, T!ToSet
<1>2. RepliesApart /\ Earlier /\ AllOver /\ NoIdle
  BY <1>1 DEF RepliesApart, Earlier, AllOver, NoIdle
<1>3. DOMAIN (log \o todo) = {} /\ log \o todo = << >>
  BY <1>1
<1>4. SaidOnce
  BY <1>3 DEF SaidOnce, Apart
<1>5. TellsAll
  <2>1. << >> \in Seq(Messages) /\ << >> \in Seq(Events) /\ Len(<< >>) = 0
    OBVIOUS
  <2>2. T!EventsFrom(<< >>, Len(<< >>)) = << >>
    BY <2>1, NothingSaid
  <2>3. Spoken(<< >>) = << >>
    <3>1. Spoken(<< >>) \in Seq(Events) /\ Len(Spoken(<< >>)) <= 0
      BY <2>1, OnlyIs DEF Spoken
    <3> QED
      BY <3>1
  <2> QED
    BY <1>1, <2>1, <2>2, <2>3 DEF TellsAll
<1> QED
  BY <1>1, <1>2, <1>4, <1>5 DEF TranscriptInv

\* ... and every step keeps it.
LEMMA TranscriptNext ==
  ASSUME T!BoundAssumption, VerdictInv, TalkInv, TranscriptInv, [T!Step]_(T!turnVars)
  PROVE  TranscriptInv'
<1>1. CASE T!StartMessage
  BY <1>1, MessageOnce
<1>2. CASE T!StartOnwards
  <2>1. todo = << >>
    BY <1>2 DEF T!StartOnwards, TalkInv, TalkTyped
  <2> QED
    BY <1>2, <2>1, QuietOnce DEF T!StartOnwards
<1>3. CASE T!Patch
  BY <1>3, PatchOnce
<1>4. CASE T!Gate
  <2>1. place' # "model"
    BY <1>4 DEF T!Gate
  <2> QED
    BY <1>4, <2>1, QuietOnce DEF T!Gate
<1>5. CASE T!RunTools
  BY <1>5, ToolsOnce
<1>6. CASE T!Emit
  BY <1>6, EmitOnce
<1>7. CASE T!Finish
  BY <1>7, FinishOnce
<1>8. CASE T!Release
  BY <1>8, QuietOnce DEF T!Release
<1>9. CASE T!Cut
  BY <1>9, QuietOnce DEF T!Cut
<1>10. ASSUME NEW batch \in T!Batches, T!StartAnswers(batch) PROVE TranscriptInv'
  BY <1>10, BatchIs, AnswersOnce
<1>11. ASSUME NEW batch \in T!Batches, T!StartFails(batch) PROVE TranscriptInv'
  BY <1>11, QuietOnce DEF T!StartFails
<1>12. ASSUME NEW tools \in T!BoundedSeq(T!Tools, MaxReply), T!Model(tools) PROVE TranscriptInv'
  BY <1>12, ModelOnce
<1>13. CASE UNCHANGED T!turnVars
  BY <1>13, QuietOnce DEF T!turnVars
<1> QED
  BY <1>1, <1>2, <1>3, <1>4, <1>5, <1>6, <1>7, <1>8, <1>9, <1>10, <1>11, <1>12, <1>13 DEF T!Step

\* No call is announced twice, wherever turns were cut; and where none was, the log tells
\* the transcript in its order, each result once (execute_agent, last_index and
\* announced).
THEOREM TranscriptsAreTold == ASSUME T!BoundAssumption PROVE T!TurnSpec => []LogTellsTranscript
<1>1. VerdictInv /\ TalkInv /\ TranscriptInv => LogTellsTranscript
  <2> SUFFICES ASSUME VerdictInv, TalkInv, TranscriptInv
               PROVE  /\ \A id \in T!Ids : T!Cardinality(T!Uses(id)) <= 1
                                           /\ (~cut => T!Cardinality(T!Results(id)) <= 1)
                      /\ ~cut /\ turn = "none" => Spoken(log) = T!EventsFrom(msgs, 0)
    BY DEF LogTellsTranscript, T!LogTellsTranscript, Spoken
  <2>1. log \in Seq(Events) /\ todo \in Seq(Events) /\ msgs \in Seq(Messages)
    BY DEF VerdictInv, GraphTyped, TalkInv, TalkTyped
  <2>2. Apart(log, Counted)
    BY <2>1, ApartStart DEF TranscriptInv, SaidOnce
  <2>3. ASSUME NEW X, \A i, j \in X : i = j PROVE T!Cardinality(X) <= 1
    <3>1. CASE X = {}
      BY <3>1, FS_EmptySet DEF T!Cardinality, Cardinality
    <3>2. CASE X # {}
      <4>1. PICK x : X = {x}
        BY <2>3, <3>2
      <4>2. Cardinality({x}) = 1
        BY FS_Singleton
      <4>3. T!Cardinality(X) = Cardinality(X)
        BY DEF T!Cardinality, Cardinality
      <4> QED
        BY <4>1, <4>2, <4>3
    <3> QED
      BY <3>1, <3>2
  <2>4. \A id \in T!Ids : T!Cardinality(T!Uses(id)) <= 1
    <3> SUFFICES ASSUME NEW id \in T!Ids PROVE T!Cardinality(T!Uses(id)) <= 1
      OBVIOUS
    <3>1. \A i, j \in T!Uses(id) : i = j
      BY <2>2 DEF T!Uses, Apart, Counted
    <3> QED
      BY <2>3, <3>1
  <2>5. ~cut => \A id \in T!Ids : T!Cardinality(T!Results(id)) <= 1
    <3> SUFFICES ASSUME ~cut, NEW id \in T!Ids PROVE T!Cardinality(T!Results(id)) <= 1
      OBVIOUS
    <3>1. \A i, j \in T!Results(id) : i = j
      BY <2>2 DEF T!Results, Apart, Counted
    <3> QED
      BY <2>3, <3>1
  <2>6. ~cut /\ turn = "none" => Spoken(log) = T!EventsFrom(msgs, 0)
    <3> SUFFICES ASSUME ~cut, turn = "none" PROVE Spoken(log) = T!EventsFrom(msgs, 0)
      OBVIOUS
    <3>1. todo = << >>
      BY DEF TalkInv, TalkTyped
    <3>2. Spoken(log) \in Seq(Events)
      BY <2>1, OnlyIs DEF Spoken
    <3>3. Spoken(log) \o todo = Spoken(log)
      BY <3>1, <3>2, ConcatEmptySeq
    <3> QED
      BY <3>3 DEF TranscriptInv, TellsAll
  <2> QED
    BY <2>4, <2>5, <2>6
<1>2. T!Init => VerdictInv /\ TalkInv /\ TranscriptInv
  BY VerdictInit, TalkInit, TranscriptInit
<1>3. ASSUME VerdictInv, TalkInv, TranscriptInv, [T!Step]_(T!turnVars)
      PROVE  VerdictInv' /\ TalkInv' /\ TranscriptInv'
  BY <1>3, VerdictNext, TalkNext, TranscriptNext
<1> QED
  BY <1>1, <1>2, <1>3, PTL DEF T!TurnSpec
===============================================================================
