------------------------------- MODULE Handles -------------------------------
(***************************************************************************)
(* A turn's hold on its container (Sandbox.ensure_connected, run and       *)
(* LazyE2BBackend in app/utils/sandbox.py).  One handle serves every tool  *)
(* call of the turn, and the calls of one message run side by side, so     *)
(* another call may run wherever one waits for the provider.  A connection *)
(* may be closed by the far end; a container pauses when its time is out,  *)
(* and what runs in it is lost.  Time is in ticks.  What waits for the     *)
(* provider itself, as opposed to a command, waits less than a tick.       *)
(***************************************************************************)
EXTENDS Naturals

CONSTANTS
  Callers,
  Ttl,           \* sandbox_timeout_seconds
  Fresh,         \* _CONNECTION_FRESH_SECONDS
  RunLimit,      \* sandbox_command_timeout_seconds
  BackendLimit,  \* the limit that LazyE2BBackend hands to its delegate
  MaxConnections \* bound: connections opened

ASSUME HandlesAssumption ==
  /\ {Ttl, Fresh, RunLimit, BackendLimit} \subseteq Nat \ {0}
  /\ MaxConnections \in Nat
  /\ RunLimit + Fresh <= Ttl

VARIABLES
  left,    \* ticks until the container pauses; 0 is a paused one
  native,  \* the connection that the handle holds, or 0
  age,     \* ticks since it was verified, Fresh when that is too long or never
  opened,  \* connections opened so far, each known by its number
  sound,   \* those that have not been closed
  pc, kind, conn, attempt, try, elapsed, \* each caller's place, what it calls, the
           \* connection it calls on, attempts, tries to connect, ticks in the container
  reached, \* how often its command has reached the container
  failed   \* the connection its first attempt failed on, or 0

handle   == <<native, age>>
network  == <<opened, sound>>
progress == <<kind, attempt, elapsed, reached, failed>>
handleVars == <<left, handle, network, pc, conn, try, progress>>

Kinds == {"command", "probe", "backend"}
Limit(k) == IF k = "backend" THEN BackendLimit ELSE RunLimit

Init ==
  /\ left = Ttl /\ native = 0 /\ age = Fresh /\ opened = 0 /\ sound = {}
  /\ pc = [c \in Callers |-> "idle"] /\ kind = [c \in Callers |-> "command"]
  /\ conn = [c \in Callers |-> 0] /\ try = [c \in Callers |-> 1]
  /\ attempt = [c \in Callers |-> 1] /\ elapsed = [c \in Callers |-> 0]
  /\ reached = [c \in Callers |-> 0] /\ failed = [c \in Callers |-> 0]

(***************************************************************************)
(* ensure_connected.  Nothing waits between its end and the call that it   *)
(* is made for, nor between its start and the first thing it waits for.    *)
(***************************************************************************)

\* self._native is read once more to make the call, and may be there no longer.
Use(c, n) ==
  /\ pc' = [pc EXCEPT ![c] = IF n = 0 THEN "unheld" ELSE "sending"]
  /\ conn' = [conn EXCEPT ![c] = n]

Trusted == native # 0 /\ age < Fresh

Ensure(c) ==
  /\ try' = [try EXCEPT ![c] = 1]
  /\ IF Trusted THEN Use(c, native)
     ELSE /\ pc' = [pc EXCEPT ![c] = IF native # 0 THEN "keeping" ELSE "opening"]
          /\ UNCHANGED conn

Call(c, k) ==
  /\ pc[c] = "idle" /\ Ensure(c)
  /\ kind' = [kind EXCEPT ![c] = k] /\ attempt' = [attempt EXCEPT ![c] = 1]
  /\ elapsed' = [elapsed EXCEPT ![c] = 0] /\ reached' = [reached EXCEPT ![c] = 0]
  /\ failed' = [failed EXCEPT ![c] = 0]
  /\ UNCHANGED <<left, handle, network>>

\* set_timeout asks the provider, not the connection, and says when there is no
\* container to keep.
Keep(c) ==
  /\ pc[c] = "keeping" /\ left > 0
  /\ left' = Ttl /\ age' = 0 /\ Use(c, native)
  /\ UNCHANGED <<native, network, try, progress>>

KeepFails(c) ==
  /\ pc[c] = "keeping" /\ pc' = [pc EXCEPT ![c] = "opening"]
  /\ UNCHANGED <<left, handle, network, conn, try, progress>>

\* AsyncSandbox.connect wakes a container that has paused.
Open(c) ==
  /\ pc[c] = "opening" /\ opened < MaxConnections
  /\ opened' = opened + 1 /\ sound' = sound \cup {opened'}
  /\ native' = opened' /\ age' = 0 /\ left' = Ttl /\ Use(c, opened')
  /\ UNCHANGED <<try, progress>>

\* A transport error is met once with another try; what else fails is raised.
OpenFails(c, transport) ==
  /\ pc[c] = "opening"
  /\ IF transport /\ try[c] = 1
       THEN try' = [try EXCEPT ![c] = 2] /\ native' = 0 /\ age' = Fresh /\ UNCHANGED pc
       ELSE pc' = [pc EXCEPT ![c] = "idle"] /\ UNCHANGED <<try, handle>>
  /\ UNCHANGED <<left, network, conn, progress>>

(***************************************************************************)
(* The call.                                                               *)
(***************************************************************************)

\* AttributeError: there is no connection to call on.
Unheld(c) ==
  /\ pc[c] = "unheld" /\ pc' = [pc EXCEPT ![c] = "idle"]
  /\ UNCHANGED <<left, handle, network, conn, try, progress>>

Arrive(c) ==
  /\ pc[c] = "sending" /\ conn[c] \in sound /\ left > 0
  /\ pc' = [pc EXCEPT ![c] = "inside"] /\ reached' = [reached EXCEPT ![c] = @ + 1]
  /\ UNCHANGED <<left, handle, network, conn, try, kind, attempt, elapsed, failed>>

Finish(c) ==
  /\ pc[c] = "inside" /\ conn[c] \in sound /\ left > 0
  /\ pc' = [pc EXCEPT ![c] = "idle"]
  /\ UNCHANGED <<left, handle, network, conn, try, progress>>

\* Mutant of Drop: only the stamp is cleared.
Drop_StampOnly == native' = native /\ age' = Fresh

\* The handle is dropped, so that the next attempt opens another connection.
Drop == native' = 0 /\ age' = Fresh

Again(c) ==
  /\ Drop /\ attempt' = [attempt EXCEPT ![c] = 2] /\ failed' = [failed EXCEPT ![c] = conn[c]]
  /\ pc' = [pc EXCEPT ![c] = "again"]
  /\ UNCHANGED <<left, network, conn, try, kind, elapsed, reached>>

GiveUp(c) ==
  /\ pc' = [pc EXCEPT ![c] = "idle"]
  /\ UNCHANGED <<left, handle, network, conn, try, progress>>

\* LocalProtocolError: the connection was closed before anything was sent.
NotSent(c) ==
  /\ pc[c] = "sending" /\ conn[c] \notin sound
  /\ IF kind[c] # "backend" /\ attempt[c] = 1 THEN Again(c) ELSE GiveUp(c)

Retried(c) == kind[c] = "probe" /\ attempt[c] = 1

\* The answer is lost: only what may be repeated is tried again, after a delay.
Lost(c) ==
  /\ pc[c] = "inside" /\ (conn[c] \notin sound \/ left = 0)
  /\ IF Retried(c) THEN Again(c) ELSE GiveUp(c)

Resume(c) ==
  /\ pc[c] = "again" /\ Ensure(c)
  /\ elapsed' = [elapsed EXCEPT ![c] = 0]
  /\ UNCHANGED <<left, handle, network, kind, attempt, reached, failed>>

(***************************************************************************)
(* Time, and the far end.                                                  *)
(***************************************************************************)

Tick ==
  /\ \A c \in Callers : \/ pc[c] = "idle"
                        \/ pc[c] = "inside" /\ elapsed[c] < Limit(kind[c])
  /\ left' = IF left = 0 THEN 0 ELSE left - 1
  /\ age' = IF age = Fresh THEN Fresh ELSE age + 1
  /\ elapsed' = [c \in Callers |-> IF pc[c] = "inside" THEN elapsed[c] + 1 ELSE elapsed[c]]
  /\ UNCHANGED <<native, network, pc, conn, try, kind, attempt, reached, failed>>

Close(n) ==
  /\ n \in sound /\ sound' = sound \ {n}
  /\ UNCHANGED <<left, handle, opened, pc, conn, try, progress>>

Caller(c) ==
  \/ \E k \in Kinds : Call(c, k)
  \/ Keep(c) \/ KeepFails(c) \/ Open(c) \/ (\E t \in BOOLEAN : OpenFails(c, t))
  \/ Unheld(c) \/ Arrive(c) \/ Finish(c) \/ NotSent(c) \/ Lost(c) \/ Resume(c)

Next == (\E c \in Callers : Caller(c)) \/ Tick \/ (\E n \in 1..MaxConnections : Close(n))

HandleSpec == Init /\ [][Next]_handleVars

(***************************************************************************)
(* Properties.                                                             *)
(***************************************************************************)

TypeOK ==
  /\ left \in 0..Ttl /\ native \in Nat /\ age \in 0..Fresh
  /\ opened \in Nat /\ sound \subseteq 1..opened
  /\ pc \in [Callers -> {"idle", "keeping", "opening", "unheld", "sending", "inside", "again"}]
  /\ kind \in [Callers -> Kinds] /\ conn \in [Callers -> Nat]
  /\ attempt \in [Callers -> {1, 2}] /\ try \in [Callers -> {1, 2}]
  /\ elapsed \in [Callers -> Nat] /\ reached \in [Callers -> Nat]
  /\ failed \in [Callers -> Nat]

\* The container never pauses under a command that run() has in it, though a
\* handle verified a while ago is trusted without asking for more time.  The agent's own
\* execute is left out: its limit is the whole time of the container, which may have been
\* counted from before it began.
AwakeUnderIt ==
  \A c \in Callers : pc[c] = "inside" /\ kind[c] # "backend" => left > 0

\* A command that may have effects reaches the container at most once.
ReachesOnce == \A c \in Callers : kind[c] = "command" => reached[c] <= 1

\* A second attempt is not made on the connection that failed the first, whatever
\* the other calls do to the handle that they share.
RetriesElsewhere ==
  \A c \in Callers : pc[c] = "sending" /\ attempt[c] = 2 => conn[c] # failed[c]

\* A call survives a bad connection: it is retried when that is harmless, on
\* another connection, and never has the container pause under it.
CallsSurvive == AwakeUnderIt /\ ReachesOnce /\ RetriesElsewhere

\* What ensure_connected says of itself: when it has returned, there is a live
\* connection to call on.  It fails: another call may drop the handle that this one
\* has just had its time extended for.
Guaranteed == \A c \in Callers : pc[c] # "unheld"
=============================================================================
