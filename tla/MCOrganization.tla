---------------------------- MODULE MCOrganization ----------------------------
(***************************************************************************)
(* What an organization holds, its accounts and its keys, for TLC.  They   *)
(* share no state, so that one of them moves in a behaviour and the other  *)
(* stays as it began.  Accounts: two requests of each kind but one, and    *)
(* one of each whose provider may fail it or whose process may die.  Keys: *)
(* two bootstraps, one of which brings its key and may be run again; a     *)
(* console user who makes a key, two who revoke, the second as a manager;  *)
(* two rotations and a request that stamps its key.                        *)
(***************************************************************************)
EXTENDS Accounts, TLC

CONSTANTS
  c1, c2, e1, e2, s1, s2, r1,
  Bootstraps, KeyCreates, Revokes, Rotations, Calls, Allowed, Supplied, Managers, User, Members,
  MaxExpired, b1, b2, k1, v1, v2, t1, t2, a1, u1, u2

VARIABLES part, org, orgLock, keyLock, keys, step, held, answer, expiries, late

UserOf == (k1 :> u1) @@ (v1 :> u1) @@ (v2 :> u2)

K == INSTANCE ApiKeys WITH Creates <- KeyCreates, pc <- step, copy <- held

keyRows == <<org, orgLock, keyLock, keys, step, held, answer, expiries, late>>

ASSUME KeysAssumption == K!RequestAssumption /\ K!NoneAssumption

MCInit == Init /\ K!Init /\ part \in {"accounts", "keys"} /\ (part = "accounts" => org)
MCNext == /\ UNCHANGED part
          /\ \/ part = "accounts" /\ Next /\ UNCHANGED keyRows
             \/ part = "keys" /\ K!Step /\ UNCHANGED vars
MCSpec == MCInit /\ [][MCNext]_<<part, vars, keyRows>>

OneAdmin == K!OneAdmin
KeysEnd  == K!KeysEnd

Symmetry == Permutations(Rotations)
=============================================================================
