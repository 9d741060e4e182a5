------------------------------ MODULE MCSandboxes ------------------------------
(***************************************************************************)
(* Containers for TLC: the commands in them, and how a session's gets its  *)
(* furniture.  They share no state, so that one of them moves in a         *)
(* behaviour and the other stays as it began, where nothing of it that has *)
(* fairness can happen.  Commands: a bare container and a session's, two   *)
(* deletes, and a command in either; with a command in one of them, the    *)
(* other is not made and a delete is left out, for they share nothing.     *)
(* Furniture: two sessions and one slot; two skills, one of them listed    *)
(* twice and one without a digest; two files that want one path, or paths  *)
(* of which one is a directory of the other.                               *)
(***************************************************************************)
EXTENDS Sandboxes, Provisioning, TLC

CONSTANTS b1, h1, d1, d2, p1, main, s1, s2, f1, f2, a, ab, b, o

VARIABLE part

AskedOf    == <<s1, s2, s1>>
KeysOf     == {<<"x", 1>>, <<"x", 2>>, <<"y", 1>>}
FileNameOf == (f1 :> a) @@ (f2 :> b)
WithinOf   == (a :> {ab}) @@ (ab :> {}) @@ (b :> {})
Resource(f, path) == [file |-> f, path |-> path]
DeclaredOf == {<<Resource(f1, None), Resource(f2, ab)>>, <<Resource(f2, None), Resource(f1, ab)>>,
               <<Resource(f1, None), Resource(f2, a)>>, <<Resource(f1, o)>>}
LibraryOf  == (s1 :> <<"x", 1>>) @@ (s2 :> <<"y", 1>>)

ASSUME ProvisioningAssumption == AskedAssumption /\ LibraryAssumption /\ DeclaredAssumption

\* With a command in one container, no other is made and one delete is left out.
Apart ==
  target # NoOne => place[d2] = "new" /\ \A x \in (Bare \cup Homes) \ {target} : place[x] = "new"

MCInit == Init /\ SandboxInit /\ part \in {"commands", "furniture"}
MCNext ==
  /\ UNCHANGED part
  /\ \/ part = "commands" /\ SandboxNext /\ Apart' /\ UNCHANGED vars
     \/ part = "furniture" /\ Next /\ UNCHANGED sandboxVars
MCSpec == MCInit /\ [][MCNext]_<<part, vars, sandboxVars>> /\ Fairness /\ SandboxFairness
=============================================================================
