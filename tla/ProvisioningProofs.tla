-------------------------- MODULE ProvisioningProofs --------------------------
(***************************************************************************)
(* What is proved of Provisioning, for any requests, skills and files: a   *)
(* session that was created has what it asked for.                         *)
(***************************************************************************)
EXTENDS Provisioning, FiniteSetTheorems, SequenceTheorems, WellFoundedInduction, TLAPS

Provisionable == AskedAssumption /\ LibraryAssumption /\ DeclaredAssumption

LEMMA LeastExists ==
  ASSUME NEW T \in SUBSET Nat, T # {}
  PROVE  \E n \in T : \A m \in T : n <= m
<1>1. IsWellFoundedOn(OpToRel(<, Nat), Nat)
  BY NatLessThanWellFounded
<1>2. PICK n \in T : \A m \in T : ~(<<m, n>> \in OpToRel(<, Nat))
  BY <1>1, WFMin
<1>3. \A m \in T : ~(m < n)
  BY <1>2 DEF OpToRel
<1> QED
  BY <1>3

LEMMA SkillsAreListed ==
  ASSUME Provisionable
  PROVE  /\ Len(Asked) \in Nat /\ DOMAIN Asked = 1..Len(Asked)
         /\ Skills = {Asked[i] : i \in 1..Len(Asked)}
         /\ IsFiniteSet(Skills)
<1>1. /\ Len(Asked) \in Nat /\ DOMAIN Asked = 1..Len(Asked)
      /\ Asked \in [1..Len(Asked) -> Skills]
  BY LenProperties DEF Provisionable, AskedAssumption
<1>2. Skills = {Asked[i] : i \in 1..Len(Asked)}
  BY <1>1 DEF Skills, ToSet
<1>3. Asked \in Surjection(1..Len(Asked), Skills)
  BY <1>1, <1>2 DEF Surjection
<1>4. IsFiniteSet(1..Len(Asked))
  BY <1>1, FS_Interval
<1> QED
  BY <1>1, <1>2, <1>3, <1>4, FS_Surjection

LEMMA FirstIs ==
  ASSUME Provisionable, NEW s \in Skills
  PROVE  First(s) \in 1..Len(Asked) /\ Asked[First(s)] = s
<1> DEFINE T == {i \in 1..Len(Asked) : Asked[i] = s}
<1>1. T # {} /\ T \in SUBSET Nat
  BY SkillsAreListed
<1>2. PICK i \in T : \A j \in T : i <= j
  BY <1>1, LeastExists
<1>3. ASSUME NEW j \in 1..(i - 1) PROVE Asked[j] # s
  <2>1. j \in 1..Len(Asked) /\ ~(i <= j)
    BY SkillsAreListed
  <2> QED
    BY <1>2, <2>1
<1> QED
  BY <1>2, <1>3, SkillsAreListed DEF First

\* Skills that are first listed further on have more skills up to them.
LEMMA PlacesGrow ==
  ASSUME Provisionable, NEW s \in Skills, NEW t \in Skills, First(s) < First(t)
  PROVE  Cardinality(UpTo(s)) < Cardinality(UpTo(t))
<1>1. UpTo(s) \subseteq UpTo(t) /\ t \in UpTo(t) /\ t \notin UpTo(s)
  BY FirstIs, SkillsAreListed DEF UpTo
<1>2. UpTo(t) \subseteq Skills /\ IsFiniteSet(UpTo(t)) /\ IsFiniteSet(UpTo(s))
  BY <1>1, SkillsAreListed, FS_Subset DEF UpTo
<1>3. /\ Cardinality(UpTo(s)) <= Cardinality(UpTo(t))
      /\ Cardinality(UpTo(s)) # Cardinality(UpTo(t))
  BY <1>1, <1>2, FS_Subset
<1> QED
  BY <1>2, <1>3, FS_CardinalityType

\* The order has each skill at one pc.
LEMMA OrderIs ==
  ASSUME Provisionable
  PROVE  /\ Order \in Seq(Skills) /\ Len(Order) \in Nat
         /\ \A i \in 1..Len(Order) : Order[i] \in Skills
         /\ \A i, j \in 1..Len(Order) : Order[i] = Order[j] => i = j
         /\ \A s \in Skills : \E i \in 1..Len(Order) : Order[i] = s
<1> DEFINE N == Cardinality(Skills)
           at == [s \in Skills |-> Cardinality(UpTo(s))]
<1>1. N \in Nat
  BY SkillsAreListed, FS_CardinalityType
<1>2. ASSUME NEW s \in Skills PROVE at[s] \in 1..N
  <2>1. UpTo(s) \subseteq Skills /\ s \in UpTo(s)
    BY FirstIs, SkillsAreListed DEF UpTo
  <2>2. IsFiniteSet(UpTo(s)) /\ Cardinality(UpTo(s)) <= N
    BY <2>1, SkillsAreListed, FS_Subset
  <2>3. Cardinality(UpTo(s)) \in Nat /\ Cardinality(UpTo(s)) # 0
    BY <2>1, <2>2, FS_CardinalityType, FS_EmptySet
  <2> QED
    BY <1>1, <2>2, <2>3
<1>3. ASSUME NEW s \in Skills, NEW t \in Skills, at[s] = at[t] PROVE s = t
  <2>1. First(s) \in Int /\ First(t) \in Int
    BY FirstIs, SkillsAreListed
  <2>2. at[s] \in Nat /\ at[t] \in Nat
    BY <1>1, <1>2
  <2>3. ~(First(s) < First(t)) /\ ~(First(t) < First(s))
    BY <1>3, <2>2, PlacesGrow
  <2>4. First(s) = First(t)
    BY <2>1, <2>3
  <2> QED
    BY <2>4, FirstIs
<1>4. at \in Injection(Skills, 1..N)
  <2>1. at \in [Skills -> 1..N]
    BY <1>2
  <2> HIDE DEF at
  <2> QED
    BY <1>3, <2>1 DEF Injection, IsInjective
<1>5. IsFiniteSet(1..N) /\ Cardinality(1..N) = N
  <2>1. Cardinality(1..N) = IF 1 > N THEN 0 ELSE N - 1 + 1
    BY <1>1, FS_Interval
  <2> QED
    BY <1>1, <2>1, FS_Interval
<1>6. at \in Surjection(Skills, 1..N)
  BY <1>4, <1>5, SkillsAreListed, FS_Injection
<1>7. \A n \in 1..N : \E s \in Skills : at[s] = n
  BY <1>6 DEF Surjection
<1>8. Order = [n \in 1..N |-> CHOOSE s \in Skills : Cardinality(UpTo(s)) = n]
  BY DEF Order
<1>9. ASSUME NEW n \in 1..N PROVE Order[n] \in Skills /\ at[Order[n]] = n
  BY <1>7, <1>8
<1>10. Order \in [1..N -> Skills]
  BY <1>8, <1>9
<1>11. Order \in Seq(Skills) /\ Len(Order) = N
  <2>1. Order \in Seq(Skills)
    BY <1>1, <1>10, SeqDef
  <2>2. 1..Len(Order) = 1..N /\ Len(Order) \in Nat
    BY <1>10, <2>1, LenProperties
  <2> QED
    BY <1>1, <2>1, <2>2
<1>12. ASSUME NEW s \in Skills PROVE \E i \in 1..N : Order[i] = s
  BY <1>2, <1>3, <1>9
<1>13. \A i, j \in 1..N : Order[i] = Order[j] => i = j
  BY <1>9
<1> QED
  BY <1>1, <1>9, <1>11, <1>12, <1>13

(***************************************************************************)
(* Provisioning: the invariant.                                            *)
(***************************************************************************)

Row     == [name : Names, key : Keys]
Package == [key : Keys, bytes : {"right", "short", "other", "busy", "gone"}] \cup {None}
Disk    == [laid : BOOLEAN, skills : [Names -> Package],
            uploads : [Paths -> Files \cup {None}]]

BeforeDisk == {"new", "waiting", "attaching", "starting", "refused"}
OnDisk     == {"laying", "downloading", "extracting", "installed", "fetching", "done"}

ProvisioningType ==
  /\ rows \in [Skills -> Row \cup {None}] /\ stored \subseteq Files
  /\ pc \in [Requests -> BeforeDisk \cup OnDisk \cup {"failed"}]
  /\ k \in [Requests -> Nat] /\ exit \in [Requests -> Nat]
  /\ DOMAIN res = Requests /\ DOMAIN snap = Requests /\ DOMAIN disk = Requests
  /\ \A p \in Requests : Len(res[p]) \in Nat /\ DOMAIN res[p] = 1..Len(res[p])
  /\ job \in [Requests -> [Skills -> [at : {"waiting", "got", "failed"}, n : Nat, has : Package]]]
  /\ expanded \in [Requests -> [Names -> Package]]

\* The first n files that p declares have paths, each its own.
PathsApart(p, n) ==
  /\ \A i \in 1..n : MountPath(res[p][i]) \in Paths
  /\ \A i, j \in 1..n : MountPath(res[p][i]) = MountPath(res[p][j]) => i = j

\* What was downloaded is what was resolved.
Fresh(p) ==
  \A s \in Skills : job[p][s].at = "got" =>
    /\ job[p][s].has.key = snap[p][s].key
    /\ job[p][s].has.bytes = "right" \/ s \in Undigested

\* The staging directory has the first k skills, each under its name.
Staged(p) ==
  \A n \in Names :
    /\ \A i \in 1..k[p] : snap[p][Order[i]].name = n =>
         expanded[p][n] = job[p][Order[i]].has /\ expanded[p][n] # None
    /\ expanded[p][n] # None => \E i \in 1..k[p] : snap[p][Order[i]].name = n

NoSkills(p) == disk[p].skills = Empty

\* The path of a request: what holds of it at each pc.
Attaching(p) == pc[p] = "attaching" => k[p] <= Len(res[p]) /\ PathsApart(p, k[p])
Resolved(p)  ==
  pc[p] \in {"starting"} \cup OnDisk =>
    /\ PathsApart(p, Len(res[p]))
    /\ snap[p] \in [Skills -> Row] /\ Distinct(snap[p])
Filling(p)   ==
  /\ pc[p] \in BeforeDisk => disk[p] = None
  /\ pc[p] \in OnDisk => disk[p] \in Disk
  /\ pc[p] \in OnDisk \ {"laying"} => disk[p].laid
  /\ pc[p] \in {"laying", "downloading", "extracting"} => NoSkills(p)
Installing(p) ==
  /\ pc[p] \in {"downloading", "extracting"} => Fresh(p)
  /\ pc[p] = "downloading" => k[p] = 0 /\ expanded[p] = Empty
  /\ pc[p] = "extracting" =>
       /\ k[p] <= Len(Order) /\ Staged(p)
       /\ \A s \in Skills : job[p][s].at = "got"
  /\ pc[p] = "installed" => IF exit[p] = 0 THEN Complete(p) ELSE NoSkills(p)
  /\ pc[p] \in {"fetching", "done"} => Complete(p)
  /\ pc[p] = "failed" => NoSkills(p) \/ Complete(p)
Fetching(p) ==
  /\ pc[p] = "fetching" =>
       /\ k[p] <= Len(res[p])
       /\ \A i \in 1..k[p] : disk[p].uploads[MountPath(res[p][i])] = res[p][i].file
  /\ pc[p] = "done" =>
       \A i \in 1..Len(res[p]) : disk[p].uploads[MountPath(res[p][i])] = res[p][i].file

RequestInv(p) == Attaching(p) /\ Resolved(p) /\ Filling(p) /\ Installing(p) /\ Fetching(p)

ProvisioningInv == ProvisioningType /\ \A p \in Requests : RequestInv(p)

\* A request whose state nobody touched keeps what holds of it.
LEMMA Unmoved ==
  ASSUME NEW p, pc'[p] = pc[p], k'[p] = k[p], exit'[p] = exit[p], res'[p] = res[p],
         snap'[p] = snap[p], disk'[p] = disk[p], job'[p] = job[p], expanded'[p] = expanded[p],
         RequestInv(p)
  PROVE  RequestInv(p)'
<1>1. \A i : MountPath(res[p][i])' = MountPath(res[p][i])
  BY DEF MountPath
<1>2. Complete(p)' = Complete(p)
  BY DEF Complete
<1>3. Distinct(snap[p])' = Distinct(snap[p])
  BY DEF Distinct
<1>4. Attaching(p)'
  BY <1>1 DEF RequestInv, Attaching, PathsApart
<1>5. Resolved(p)'
  BY <1>1, <1>3 DEF RequestInv, Resolved, PathsApart
<1>6. Filling(p)'
  BY DEF RequestInv, Filling, NoSkills
<1>7. Installing(p)'
  BY <1>2 DEF RequestInv, Installing, NoSkills, Fresh, Staged
<1>8. Fetching(p)'
  BY <1>1 DEF RequestInv, Fetching
<1> QED
  BY <1>4, <1>5, <1>6, <1>7, <1>8 DEF RequestInv

\* A request that has no container yet, or no more.
LEMMA AtRest ==
  ASSUME NEW p, pc'[p] \in {"new", "waiting", "refused"}, disk'[p] = None
  PROVE  RequestInv(p)'
  BY DEF RequestInv, Attaching, Resolved, Filling, Installing, Fetching, OnDisk

\* A request whose container is to be killed.
LEMMA AtFailed ==
  ASSUME NEW p, pc'[p] = "failed", snap'[p] = snap[p], disk'[p].skills = disk[p].skills,
         NoSkills(p) \/ Complete(p)
  PROVE  RequestInv(p)'
<1>1. Complete(p)' = Complete(p) /\ NoSkills(p)' = NoSkills(p)
  BY DEF Complete, NoSkills
<1> QED
  BY <1>1 DEF RequestInv, Attaching, Resolved, Filling, Installing, Fetching, OnDisk, BeforeDisk

\* When one request moves the others stay.
LEMMA OneMoves ==
  ASSUME ProvisioningInv, NEW p \in Requests, ProvisioningType', RequestInv(p)',
         \A q \in Requests \ {p} :
           /\ pc'[q] = pc[q] /\ k'[q] = k[q] /\ exit'[q] = exit[q] /\ res'[q] = res[q]
           /\ snap'[q] = snap[q] /\ disk'[q] = disk[q] /\ job'[q] = job[q]
           /\ expanded'[q] = expanded[q]
  PROVE  ProvisioningInv'
<1> SUFFICES ASSUME NEW q \in Requests PROVE RequestInv(q)'
  BY DEF ProvisioningInv
<1>1. RequestInv(q)
  BY DEF ProvisioningInv
<1> QED
  BY <1>1, Unmoved

LEMMA NoneDeclared == Len(<<>>) = 0 /\ DOMAIN <<>> = 1..Len(<<>>)
  BY EmptySeq, LenProperties

LEMMA InitProvisioning == Provisionable /\ Init => ProvisioningInv
<1> SUFFICES ASSUME Provisionable, Init PROVE ProvisioningInv
  OBVIOUS
<1>1. rows \in [Skills -> Row]
  BY DEF Init, Provisionable, LibraryAssumption, Row
<1>2. Empty \in [Names -> Package] /\ NoJobs \in
        [Skills -> [at : {"waiting", "got", "failed"}, n : Nat, has : Package]]
  BY DEF Empty, NoJobs, Package
<1>3. \A p \in Requests : Len(res[p]) \in Nat /\ DOMAIN res[p] = 1..Len(res[p])
  BY NoneDeclared DEF Init
<1>4. ProvisioningType
  BY <1>1, <1>2, <1>3 DEF Init, ProvisioningType, BeforeDisk, OnDisk
<1>5. \A p \in Requests : RequestInv(p)
  BY DEF Init, RequestInv, Attaching, Resolved, Filling, Installing, Fetching, OnDisk
<1> QED
  BY <1>4, <1>5 DEF ProvisioningInv

LEMMA OthersStep == Provisionable /\ ProvisioningInv /\ Others => ProvisioningInv'
<1> SUFFICES ASSUME Provisionable, ProvisioningInv, Others PROVE ProvisioningInv'
  OBVIOUS
<1>1. UNCHANGED <<pc, res, k, snap, disk, job, expanded, exit>>
  BY DEF Others
<1>2. rows' \in [Skills -> Row \cup {None}] /\ stored' \subseteq Files
  <2>1. CASE \E s \in Skills : PurgeSkill(s) \/ DropSkill(s)
    BY <2>1 DEF PurgeSkill, DropSkill, ProvisioningInv, ProvisioningType
  <2>2. CASE \E s \in Skills : \E key \in Keys : ReplaceSkill(s, key)
    BY <2>2 DEF ReplaceSkill, ProvisioningInv, ProvisioningType, Row,
                Provisionable, LibraryAssumption
  <2>3. CASE \E s \in Skills : \E n \in Names : RenameSkill(s, n)
    BY <2>3 DEF RenameSkill, ProvisioningInv, ProvisioningType, Row
  <2>4. CASE \E f \in Files : DeleteFile(f)
    BY <2>4 DEF DeleteFile, ProvisioningInv, ProvisioningType
  <2> QED
    BY <2>1, <2>2, <2>3, <2>4 DEF Others
<1>4. ProvisioningType'
  BY <1>1, <1>2 DEF ProvisioningInv, ProvisioningType
<1>5. \A p \in Requests : RequestInv(p)'
  BY <1>1, Unmoved DEF ProvisioningInv
<1> QED
  BY <1>4, <1>5 DEF ProvisioningInv

LEMMA Queueing ==
  ASSUME Provisionable, ProvisioningInv, NEW p \in Requests,
         (\E declared \in Declared : Arrive(p, declared)) \/ GiveUp(p) \/ Acquire(p)
  PROVE  ProvisioningInv'
<1>1. CASE \E declared \in Declared : Arrive(p, declared)
  <2>1. PICK declared \in Declared : Arrive(p, declared)
    BY <1>1
  <2>2. /\ pc[p] = "new" /\ pc' = [pc EXCEPT ![p] = "waiting"]
        /\ res' = [res EXCEPT ![p] = declared]
        /\ UNCHANGED <<k, snap, disk, job, expanded, exit, rows, stored>>
    BY <2>1 DEF Arrive, Goto, library
  <2>3. ProvisioningType'
    <3>1. Len(declared) \in Nat /\ DOMAIN declared = 1..Len(declared)
      BY LenProperties DEF Provisionable, DeclaredAssumption
    <3>2. \A q \in Requests : res'[q] = IF q = p THEN declared ELSE res[q]
      BY <2>2 DEF ProvisioningInv, ProvisioningType
    <3> QED
      BY <2>2, <3>1, <3>2 DEF ProvisioningInv, ProvisioningType, BeforeDisk
  <2>4. pc'[p] = "waiting" /\ disk'[p] = None
    BY <2>2 DEF ProvisioningInv, ProvisioningType, RequestInv, Filling, BeforeDisk
  <2>5. RequestInv(p)'
    BY <2>4, AtRest
  <2> QED
    BY <2>2, <2>3, <2>5, OneMoves
<1>2. CASE GiveUp(p)
  <2>1. /\ pc[p] = "waiting" /\ pc' = [pc EXCEPT ![p] = "refused"]
        /\ res' = [res EXCEPT ![p] = <<>>]
        /\ UNCHANGED <<k, snap, disk, job, expanded, exit, rows, stored>>
    BY <1>2 DEF GiveUp, Goto, library
  <2>2. ProvisioningType'
    <3>1. \A q \in Requests : res'[q] = IF q = p THEN <<>> ELSE res[q]
      BY <2>1 DEF ProvisioningInv, ProvisioningType
    <3> QED
      BY <2>1, <3>1, NoneDeclared DEF ProvisioningInv, ProvisioningType, BeforeDisk
  <2>3. pc'[p] = "refused" /\ disk'[p] = None
    BY <2>1 DEF ProvisioningInv, ProvisioningType, RequestInv, Filling, BeforeDisk
  <2>4. RequestInv(p)'
    BY <2>3, AtRest
  <2> QED
    BY <2>1, <2>2, <2>4, OneMoves
<1>3. CASE Acquire(p)
  <2>1. /\ pc[p] = "waiting" /\ pc' = [pc EXCEPT ![p] = "attaching"]
        /\ k' = [k EXCEPT ![p] = 0]
        /\ UNCHANGED <<res, snap, disk, job, expanded, exit, rows, stored>>
    BY <1>3 DEF Acquire, Goto, library
  <2>2. ProvisioningType'
    BY <2>1 DEF ProvisioningInv, ProvisioningType, BeforeDisk
  <2>3. pc'[p] = "attaching" /\ k'[p] = 0 /\ res'[p] = res[p] /\ disk'[p] = None
    BY <2>1 DEF ProvisioningInv, ProvisioningType, RequestInv, Filling, BeforeDisk
  <2>4. Len(res[p]) \in Nat
    BY DEF ProvisioningInv, ProvisioningType
  <2>5. Attaching(p)'
    BY <2>3, <2>4 DEF Attaching, PathsApart
  <2>6. RequestInv(p)'
    BY <2>3, <2>5 DEF RequestInv, Resolved, Filling, Installing, Fetching, OnDisk
  <2> QED
    BY <2>1, <2>2, <2>6, OneMoves
<1> QED
  BY <1>1, <1>2, <1>3

\* A request that is refused before it has a container.
LEMMA Refused ==
  ASSUME ProvisioningInv, NEW p \in Requests, pc[p] \in BeforeDisk,
         Leave(p, "refused"), k' = [k EXCEPT ![p] = 0],
         snap' = [snap EXCEPT ![p] = None] \/ UNCHANGED snap,
         UNCHANGED <<disk, job, expanded, exit, rows, stored>>
  PROVE  ProvisioningInv'
<1>1. pc' = [pc EXCEPT ![p] = "refused"] /\ res' = [res EXCEPT ![p] = <<>>]
  BY DEF Leave, Goto
<1>2. ProvisioningType'
  <2>1. \A q \in Requests : res'[q] = IF q = p THEN <<>> ELSE res[q]
    BY <1>1 DEF ProvisioningInv, ProvisioningType
  <2> QED
    BY <1>1, <2>1, NoneDeclared DEF ProvisioningInv, ProvisioningType, BeforeDisk
<1>3. pc'[p] = "refused" /\ disk'[p] = None
  BY <1>1 DEF ProvisioningInv, ProvisioningType, RequestInv, Filling
<1>4. RequestInv(p)'
  BY <1>3, AtRest
<1> QED
  BY <1>1, <1>2, <1>4, OneMoves DEF ProvisioningInv, ProvisioningType

LEMMA AttachStep ==
  ASSUME ProvisioningInv, NEW p \in Requests, AttachFile(p)
  PROVE  ProvisioningInv'
<1> DEFINE fits == /\ Upcoming(p).file \in stored
                   /\ MountPath(Upcoming(p)) \notin PathsSeen(p) \cup {None}
<1>1. /\ pc[p] = "attaching" /\ k[p] < Len(res[p])
      /\ UNCHANGED <<snap, disk, job, expanded, exit, rows, stored>>
  BY DEF AttachFile, library
<1>2. CASE ~fits
  <2>1. Leave(p, "refused") /\ k' = [k EXCEPT ![p] = 0]
    BY <1>2 DEF AttachFile
  <2> QED
    BY <1>1, <2>1, Refused DEF BeforeDisk
<1>3. CASE fits
  <2>1. k' = [k EXCEPT ![p] = @ + 1] /\ UNCHANGED <<pc, res>>
    BY <1>3 DEF AttachFile
  <2>2. ProvisioningType'
    BY <1>1, <2>1 DEF ProvisioningInv, ProvisioningType
  <2>3. /\ k'[p] = k[p] + 1 /\ k[p] \in Nat /\ Len(res[p]) \in Nat
        /\ PathsApart(p, k[p]) /\ disk[p] = None
    BY <1>1, <2>1
       DEF ProvisioningInv, ProvisioningType, RequestInv, Attaching, Filling, BeforeDisk
  <2>4. /\ MountPath(res[p][k[p] + 1]) \in Paths
        /\ \A i \in 1..k[p] : MountPath(res[p][i]) # MountPath(res[p][k[p] + 1])
    <3>1. MountPath(res[p][k[p] + 1]) # None
      BY <1>3 DEF Upcoming
    <3>2. MountPath(res[p][k[p] + 1]) \notin PathsSeen(p)
      BY <1>3 DEF Upcoming
    <3>3. MountPath(res[p][k[p] + 1]) \in Paths
      BY <3>1 DEF MountPath
    <3> QED
      BY <3>2, <3>3 DEF PathsSeen
  <2>5. PathsApart(p, k[p] + 1)
    <3>1. \A i \in 1..(k[p] + 1) : i \in 1..k[p] \/ i = k[p] + 1
      BY <2>3
    <3> QED
      BY <2>3, <2>4, <3>1 DEF PathsApart
  <2>6. \A i : MountPath(res[p][i])' = MountPath(res[p][i])
    BY <2>1 DEF MountPath
  <2>7. Attaching(p)'
    BY <1>1, <2>1, <2>3, <2>5, <2>6 DEF Attaching, PathsApart
  <2>8. RequestInv(p)'
    BY <1>1, <2>1, <2>3, <2>7
       DEF RequestInv, Resolved, Filling, Installing, Fetching, OnDisk
  <2> QED
    BY <1>1, <2>1, <2>2, <2>8, OneMoves DEF ProvisioningInv, ProvisioningType
<1> QED
  BY <1>2, <1>3

LEMMA ResolveStep ==
  ASSUME ProvisioningInv, NEW p \in Requests, Resolve(p)
  PROVE  ProvisioningInv'
<1> DEFINE there == (\A s \in Skills : rows[s] # None) /\ Distinct(rows)
<1>1. /\ pc[p] = "attaching" /\ k[p] = Len(res[p])
      /\ UNCHANGED <<disk, job, expanded, exit, rows, stored>>
  BY DEF Resolve, library
<1>2. CASE ~there
  <2>1. Leave(p, "refused") /\ k' = [k EXCEPT ![p] = 0] /\ UNCHANGED snap
    BY <1>2 DEF Resolve
  <2> QED
    BY <1>1, <2>1, Refused DEF BeforeDisk
<1>3. CASE there
  <2>1. /\ snap' = [snap EXCEPT ![p] = rows] /\ pc' = [pc EXCEPT ![p] = "starting"]
        /\ UNCHANGED <<res, k>>
    BY <1>3 DEF Resolve, Goto
  <2>2. ProvisioningType'
    BY <1>1, <2>1 DEF ProvisioningInv, ProvisioningType, BeforeDisk
  <2>3. pc'[p] = "starting" /\ snap'[p] = rows /\ res'[p] = res[p] /\ disk'[p] = None
    BY <1>1, <2>1 DEF ProvisioningInv, ProvisioningType, RequestInv, Filling, BeforeDisk
  <2>4. rows \in [Skills -> Row] /\ Distinct(rows)
    BY <1>3 DEF ProvisioningInv, ProvisioningType
  <2>5. PathsApart(p, Len(res[p]))
    BY <1>1 DEF ProvisioningInv, RequestInv, Attaching
  <2>6. \A i : MountPath(res[p][i])' = MountPath(res[p][i])
    BY <2>1 DEF MountPath
  <2>7. Resolved(p)'
    BY <2>3, <2>4, <2>5, <2>6 DEF Resolved, PathsApart, Distinct
  <2>8. RequestInv(p)'
    BY <2>3, <2>7 DEF RequestInv, Attaching, Filling, Installing, Fetching, OnDisk
  <2> QED
    BY <1>1, <2>1, <2>2, <2>8, OneMoves DEF ProvisioningInv, ProvisioningType
<1> QED
  BY <1>2, <1>3

\* What a request with a container remembers while it neither declares nor resolves.
LEMMA StillResolved ==
  ASSUME NEW p, Resolved(p), pc[p] \in {"starting"} \cup OnDisk,
         res'[p] = res[p], snap'[p] = snap[p]
  PROVE  Resolved(p)' /\ \A i : MountPath(res[p][i])' = MountPath(res[p][i])
<1>1. \A i : MountPath(res[p][i])' = MountPath(res[p][i])
  BY DEF MountPath
<1>2. Distinct(snap[p])' = Distinct(snap[p])
  BY DEF Distinct
<1> QED
  BY <1>1, <1>2 DEF Resolved, PathsApart

LEMMA StartStep ==
  ASSUME ProvisioningInv, NEW p \in Requests, NEW works \in BOOLEAN, Start(p, works)
  PROVE  ProvisioningInv'
<1>1. pc[p] = "starting" /\ UNCHANGED <<job, expanded, exit, rows, stored>>
  BY DEF Start, library
<1>2. CASE ~works
  <2>1. /\ Leave(p, "refused") /\ k' = [k EXCEPT ![p] = 0]
        /\ snap' = [snap EXCEPT ![p] = None] /\ UNCHANGED disk
    BY <1>2 DEF Start
  <2> QED
    BY <1>1, <2>1, Refused DEF BeforeDisk
<1>3. CASE works
  <2>1. /\ disk' = [disk EXCEPT ![p] = Unfilled] /\ pc' = [pc EXCEPT ![p] = "laying"]
        /\ UNCHANGED <<res, snap, k>>
    BY <1>3 DEF Start, Goto
  <2>2. ProvisioningType'
    BY <1>1, <2>1 DEF ProvisioningInv, ProvisioningType, OnDisk
  <2>3. pc'[p] = "laying" /\ disk'[p] = Unfilled /\ snap'[p] = snap[p] /\ res'[p] = res[p]
    BY <2>1 DEF ProvisioningInv, ProvisioningType
  <2>4. Unfilled \in Disk /\ Unfilled.skills = Empty
    BY DEF Unfilled, Disk, Empty, Package
  <2>5. Resolved(p)'
    BY <1>1, <2>3, StillResolved DEF ProvisioningInv, RequestInv
  <2>6. Filling(p)'
    BY <2>3, <2>4 DEF Filling, NoSkills, BeforeDisk, OnDisk, Empty
  <2>7. RequestInv(p)'
    BY <2>3, <2>5, <2>6 DEF RequestInv, Attaching, Installing, Fetching
  <2> QED
    BY <1>1, <2>1, <2>2, <2>7, OneMoves DEF ProvisioningInv, ProvisioningType
<1> QED
  BY <1>2, <1>3

LEMMA PrepareStep ==
  ASSUME ProvisioningInv, NEW p \in Requests, NEW works \in BOOLEAN, Prepare(p, works)
  PROVE  ProvisioningInv'
<1>1. /\ pc[p] = "laying" /\ disk' = [disk EXCEPT ![p].laid = works]
      /\ pc' = [pc EXCEPT ![p] = IF works THEN "downloading" ELSE "failed"]
      /\ job' = [job EXCEPT ![p] = NoJobs] /\ expanded' = [expanded EXCEPT ![p] = Empty]
      /\ exit' = [exit EXCEPT ![p] = 0] /\ k' = [k EXCEPT ![p] = 0]
      /\ UNCHANGED <<res, snap, rows, stored>>
  BY DEF Prepare, Goto, library
<1>2. Empty \in [Names -> Package] /\ NoJobs \in
        [Skills -> [at : {"waiting", "got", "failed"}, n : Nat, has : Package]]
  BY DEF Empty, NoJobs, Package
<1>3. ProvisioningType'
  BY <1>1, <1>2 DEF ProvisioningInv, ProvisioningType, OnDisk
<1>4. disk[p] \in Disk /\ NoSkills(p) /\ Resolved(p)
  BY <1>1 DEF ProvisioningInv, RequestInv, Filling, OnDisk
<1>5. /\ disk'[p] \in Disk /\ disk'[p].laid = works /\ disk'[p].skills = disk[p].skills
      /\ pc'[p] = IF works THEN "downloading" ELSE "failed"
      /\ job'[p] = NoJobs /\ expanded'[p] = Empty /\ k'[p] = 0
      /\ res'[p] = res[p] /\ snap'[p] = snap[p]
  BY <1>1, <1>4 DEF ProvisioningInv, ProvisioningType, Disk
<1>6. CASE ~works
  <2>1. RequestInv(p)'
    BY <1>4, <1>5, <1>6, AtFailed
  <2> QED
    BY <1>1, <1>3, <2>1, OneMoves DEF ProvisioningInv, ProvisioningType
<1>7. CASE works
  <2>1. Resolved(p)'
    BY <1>1, <1>4, <1>5, StillResolved DEF OnDisk
  <2>2. Filling(p)'
    BY <1>4, <1>5, <1>7 DEF Filling, NoSkills, BeforeDisk, OnDisk, Empty
  <2>3. Fresh(p)'
    BY <1>5 DEF Fresh, NoJobs
  <2>4. Installing(p)'
    BY <1>5, <1>7, <2>3 DEF Installing, Empty
  <2>5. RequestInv(p)'
    BY <1>5, <1>7, <2>1, <2>2, <2>4 DEF RequestInv, Attaching, Fetching
  <2> QED
    BY <1>1, <1>3, <2>5, OneMoves DEF ProvisioningInv, ProvisioningType
<1> QED
  BY <1>6, <1>7

LEMMA DownloadStep ==
  ASSUME Provisionable, ProvisioningInv, NEW p \in Requests, NEW i \in 1..Len(Order),
         NEW bytes \in {"right", "short", "other", "busy", "gone"}, Download(p, i, bytes)
  PROVE  ProvisioningInv'
<1> DEFINE s == Order[i]  key == snap[p][s].key  now == Fetched(s, job[p][s], key, bytes)
<1>1. /\ pc[p] = "downloading" /\ job' = [job EXCEPT ![p][s] = now]
      /\ UNCHANGED <<pc, res, k, snap, disk, expanded, exit, rows, stored>>
  BY DEF Download, library
<1>2. s \in Skills
  BY OrderIs
<1>3. snap[p] \in [Skills -> Row] /\ key \in Keys
  BY <1>1, <1>2 DEF ProvisioningInv, RequestInv, Resolved, OnDisk, Row
<1>4. job[p][s] \in [at : {"waiting", "got", "failed"}, n : Nat, has : Package]
  BY <1>2 DEF ProvisioningInv, ProvisioningType
<1>5. /\ now \in [at : {"waiting", "got", "failed"}, n : Nat, has : Package]
      /\ now.at = "got" /\ job[p][s].at # "got" =>
           now.has.key = key /\ (now.has.bytes = "right" \/ s \in Undigested)
  <2> DEFINE j == job[p][s]
  <2>1. [key |-> key, bytes |-> bytes] \in Package
    BY <1>3 DEF Package
  <2>2. \/ now = [j EXCEPT !.at = "failed"]
        \/ now = [j EXCEPT !.n = @ + 1]
        \/ now = [j EXCEPT !.at = "got", !.has = [key |-> key, bytes |-> bytes]]
             /\ (bytes = "right" \/ s \in Undigested)
    BY DEF Fetched, Sound
  <2> HIDE DEF now, j, key, s
  <2>3. j \in [at : {"waiting", "got", "failed"}, n : Nat, has : Package]
    BY <1>4 DEF j
  <2>4. CASE now = [j EXCEPT !.at = "failed"]
    BY <2>3, <2>4
  <2>5. CASE now = [j EXCEPT !.n = @ + 1]
    BY <2>3, <2>5 DEF j
  <2>6. CASE now = [j EXCEPT !.at = "got", !.has = [key |-> key, bytes |-> bytes]]
               /\ (bytes = "right" \/ s \in Undigested)
    BY <2>1, <2>3, <2>6
  <2> QED
    BY <2>2, <2>4, <2>5, <2>6
<1>6. job[p][s].at = "waiting"
  BY DEF Download, Settled
<1> HIDE DEF now, key, s
<1>7. /\ job'[p][s] = now /\ \A t \in Skills \ {s} : job'[p][t] = job[p][t]
      /\ job' \in [Requests -> [Skills -> [at : {"waiting", "got", "failed"}, n : Nat, has : Package]]]
      /\ \A q \in Requests \ {p} : job'[q] = job[q]
  BY <1>1, <1>2, <1>5 DEF ProvisioningInv, ProvisioningType
<1>8. ProvisioningType'
  BY <1>1, <1>7 DEF ProvisioningInv, ProvisioningType
<1>9. Fresh(p)'
  <2>1. Fresh(p)
    BY <1>1 DEF ProvisioningInv, RequestInv, Installing
  <2>2. /\ now.at = "got" => now.has.key = snap[p][s].key
                               /\ (now.has.bytes = "right" \/ s \in Undigested)
    BY <1>5, <1>6 DEF key
  <2> QED
    BY <1>1, <1>7, <2>1, <2>2 DEF Fresh
<1>10. RequestInv(p)
  BY DEF ProvisioningInv
<1>11. Resolved(p)' /\ \A j : MountPath(res[p][j])' = MountPath(res[p][j])
  BY <1>1, <1>10, StillResolved DEF RequestInv, OnDisk
<1>12. Filling(p)'
  BY <1>1, <1>10 DEF RequestInv, Filling, NoSkills, Empty
<1>13. Installing(p)'
  BY <1>1, <1>9, <1>10 DEF RequestInv, Installing, Empty
<1>14. RequestInv(p)'
  BY <1>1, <1>11, <1>12, <1>13 DEF RequestInv, Attaching, Fetching
<1> QED
  BY <1>1, <1>7, <1>8, <1>14, OneMoves

\* The install command is over, with its code.
LEMMA Exited ==
  ASSUME ProvisioningInv, NEW p \in Requests, NEW e \in Nat,
         pc[p] \in {"downloading", "extracting"}, Exit(p, e),
         e # 0, UNCHANGED <<res, k, snap, disk, job, rows, stored>>,
         expanded' \in [Requests -> [Names -> Package]],
         \A q \in Requests \ {p} : expanded'[q] = expanded[q]
  PROVE  ProvisioningInv'
<1>1. exit' = [exit EXCEPT ![p] = e] /\ pc' = [pc EXCEPT ![p] = "installed"]
  BY DEF Exit, Goto
<1>2. ProvisioningType'
  BY <1>1 DEF ProvisioningInv, ProvisioningType, OnDisk
<1>3. exit'[p] = e /\ pc'[p] = "installed"
  BY <1>1 DEF ProvisioningInv, ProvisioningType
<1>4. RequestInv(p)
  BY DEF ProvisioningInv
<1>5. Resolved(p)'
  BY <1>4, StillResolved DEF RequestInv, OnDisk
<1>6. Filling(p)' /\ NoSkills(p)'
  BY <1>3, <1>4 DEF RequestInv, Filling, NoSkills, Empty, OnDisk, BeforeDisk
<1>7. RequestInv(p)'
  BY <1>3, <1>5, <1>6 DEF RequestInv, Attaching, Installing, Fetching
<1> QED
  BY <1>1, <1>2, <1>7, OneMoves DEF ProvisioningInv, ProvisioningType

LEMMA OrderStays == Order' = Order
  OBVIOUS

LEMMA CollectStep ==
  ASSUME Provisionable, ProvisioningInv, NEW p \in Requests, Collect(p)
  PROVE  ProvisioningInv'
<1>1. /\ pc[p] = "downloading" /\ \A s \in Skills : Settled(job[p][s])
      /\ UNCHANGED <<res, k, snap, disk, job, expanded, rows, stored>>
  BY DEF Collect, library
<1>2. CASE \E s \in Skills : job[p][s].at = "failed"
  <2>1. Exit(p, 31)
    BY <1>2 DEF Collect
  <2> QED
    BY <1>1, <2>1, Exited DEF ProvisioningInv, ProvisioningType
<1>3. CASE ~\E s \in Skills : job[p][s].at = "failed"
  <2>1. pc' = [pc EXCEPT ![p] = "extracting"] /\ UNCHANGED exit
    BY <1>3 DEF Collect, Goto
  <2>2. ProvisioningType'
    BY <1>1, <2>1 DEF ProvisioningInv, ProvisioningType, OnDisk
  <2>3. pc'[p] = "extracting" /\ RequestInv(p)
    BY <2>1 DEF ProvisioningInv, ProvisioningType
  <2>4. \A s \in Skills : job[p][s].at = "got"
    BY <1>1, <1>3 DEF ProvisioningInv, ProvisioningType, Settled
  <2>5. Resolved(p)'
    BY <1>1, <2>3, StillResolved DEF RequestInv, OnDisk
  <2>6. Filling(p)'
    BY <1>1, <2>3 DEF RequestInv, Filling, NoSkills, Empty, OnDisk, BeforeDisk
  <2>7. k[p] = 0 /\ Fresh(p) /\ expanded[p] = Empty /\ Len(Order) \in Nat
    BY <1>1, <2>3, OrderIs DEF RequestInv, Installing
  <2>8. Fresh(p)' /\ Staged(p)'
    BY <1>1, <2>7 DEF Fresh, Staged, Empty
  <2>9. k'[p] <= Len(Order)'
    BY <1>1, <2>7, OrderStays
  <2>10. Installing(p)'
    BY <1>1, <2>3, <2>4, <2>8, <2>9 DEF Installing
  <2>11. RequestInv(p)'
    BY <2>3, <2>5, <2>6, <2>10 DEF RequestInv, Attaching, Fetching
  <2> QED
    BY <1>1, <2>1, <2>2, <2>11, OneMoves DEF ProvisioningInv, ProvisioningType
<1> QED
  BY <1>2, <1>3

LEMMA ExtractStep ==
  ASSUME Provisionable, ProvisioningInv, NEW p \in Requests, NEW valid \in BOOLEAN,
         Extract(p, valid)
  PROVE  ProvisioningInv'
<1> DEFINE n0 == k[p] + 1
           s == Order[n0]
           has == job[p][s].has
           name == snap[p][s].name
           good == valid /\ Unpacked(p)[name] # None
<1>1. /\ pc[p] = "extracting" /\ k[p] < Len(Order)
      /\ expanded' = IF valid THEN [expanded EXCEPT ![p] = Unpacked(p)] ELSE expanded
      /\ UNCHANGED <<res, snap, disk, job, rows, stored>>
  BY DEF Extract, library
<1>2. RequestInv(p) /\ k[p] \in Nat /\ Len(Order) \in Nat
  BY OrderIs DEF ProvisioningInv, ProvisioningType
<1>3. n0 \in 1..Len(Order) /\ s \in Skills /\ n0 \notin 1..k[p] /\ k[p] <= Len(Order)
  <2>1. n0 \in 1..Len(Order) /\ n0 \notin 1..k[p] /\ k[p] <= Len(Order)
    <3> HIDE DEF s, has, name, good
    <3> QED
      BY <1>1, <1>2
  <2> HIDE DEF n0
  <2> QED
    BY <2>1, OrderIs
<1>4. /\ has \in Package /\ Unpacked(p) = [expanded[p] EXCEPT ![NameOf(has.key)] = has]
      /\ expanded[p] \in [Names -> Package]
  BY <1>3 DEF Unpacked, ProvisioningInv, ProvisioningType
<1>5. Unpacked(p) \in [Names -> Package]
  BY <1>4
<1>6. /\ expanded' \in [Requests -> [Names -> Package]]
      /\ expanded'[p] = IF valid THEN Unpacked(p) ELSE expanded[p]
      /\ \A q \in Requests \ {p} : expanded'[q] = expanded[q]
  BY <1>1, <1>5 DEF ProvisioningInv, ProvisioningType
<1>7. CASE ~good
  <2>1. Exit(p, 33) /\ UNCHANGED k
    BY <1>7 DEF Extract
  <2> QED
    BY <1>1, <1>6, <2>1, Exited
<1>8. CASE good
  <2>1. k' = [k EXCEPT ![p] = @ + 1] /\ UNCHANGED <<exit, pc>>
    BY <1>8 DEF Extract
  <2>2. k'[p] = n0 /\ pc'[p] = "extracting" /\ expanded'[p] = Unpacked(p)
    BY <1>1, <1>6, <1>8, <2>1 DEF ProvisioningInv, ProvisioningType
  <2>3. ProvisioningType'
    BY <1>1, <1>6, <2>1 DEF ProvisioningInv, ProvisioningType
  <2>4. snap[p] \in [Skills -> Row] /\ Distinct(snap[p])
    BY <1>1, <1>2 DEF RequestInv, Resolved, OnDisk
  <2>5. Staged(p) /\ Fresh(p) /\ \A t \in Skills : job[p][t].at = "got"
    BY <1>1, <1>2 DEF RequestInv, Installing
  <2>6. has.key = snap[p][s].key /\ name \in Names
    BY <1>3, <2>4, <2>5 DEF Fresh, Row
  <2>7. \A i \in 1..k[p] : snap[p][Order[i]].name # name
    <3> SUFFICES ASSUME NEW i \in 1..k[p], snap[p][Order[i]].name = name PROVE FALSE
      OBVIOUS
    <3>1. i \in 1..Len(Order) /\ Order[i] \in Skills
      <4> HIDE DEF n0, s, has, name, good
      <4>1. i \in 1..Len(Order)
        BY <1>2, <1>3
      <4> QED
        BY <4>1, OrderIs
    <3>2. Order[i] = Order[n0]
      BY <1>3, <2>4, <3>1 DEF Distinct
    <3> HIDE DEF n0, s, has, name, good
    <3>3. i = n0
      BY <1>3, <3>1, <3>2, OrderIs
    <3> QED
      BY <1>3, <3>3
  <2> HIDE DEF has, name, s
  <2>8. NameOf(has.key) = name
    <3> SUFFICES ASSUME NameOf(has.key) # name PROVE FALSE
      OBVIOUS
    <3>1. expanded[p][name] # None
      BY <1>4, <1>8, <2>6
    <3>2. \E i \in 1..k[p] : snap[p][Order[i]].name = name
      BY <2>5, <2>6, <3>1 DEF Staged
    <3> QED
      BY <2>7, <3>2
  <2>9. /\ expanded'[p][name] = has /\ has # None
        /\ \A n \in Names \ {name} : expanded'[p][n] = expanded[p][n]
    BY <1>4, <1>8, <2>2, <2>6, <2>8
  <2>10. \A i \in 1..n0 : i \in 1..k[p] \/ i = n0
    BY <1>2
  <2>11. snap' = snap /\ job' = job /\ \A n : n \in 1..k[p] => n \in 1..n0
    BY <1>1, <1>2
  <2>12. snap[p][Order[n0]].name = name /\ job[p][Order[n0]].has = has /\ n0 \in 1..n0
    BY <1>2 DEF has, name, s
  <2>13. Staged(p)'
    <3> SUFFICES ASSUME NEW n \in Names
                 PROVE  /\ \A i \in 1..n0 : snap[p][Order[i]].name = n =>
                             expanded'[p][n] = job[p][Order[i]].has /\ expanded'[p][n] # None
                        /\ expanded'[p][n] # None =>
                             \E i \in 1..n0 : snap[p][Order[i]].name = n
      BY <2>2, <2>11 DEF Staged
    <3> HIDE DEF n0
    <3>1. CASE n = name
      BY <2>7, <2>9, <2>10, <2>12, <3>1
    <3>2. CASE n # name
      BY <2>5, <2>9, <2>10, <2>11, <2>12, <3>2 DEF Staged
    <3> QED
      BY <3>1, <3>2
  <2>14. Fresh(p)'
    BY <1>1, <2>5 DEF Fresh
  <2>15. k'[p] <= Len(Order)'
    BY <1>1, <1>2, <2>2, OrderStays
  <2>16. Installing(p)'
    BY <1>1, <2>2, <2>5, <2>13, <2>14, <2>15 DEF Installing
  <2>17. Resolved(p)'
    BY <1>1, <1>2, StillResolved DEF RequestInv, OnDisk
  <2>18. Filling(p)'
    BY <1>1, <1>2, <2>2 DEF RequestInv, Filling, NoSkills, Empty, OnDisk, BeforeDisk
  <2>19. RequestInv(p)'
    BY <2>2, <2>16, <2>17, <2>18 DEF RequestInv, Attaching, Fetching
  <2> QED
    BY <1>1, <1>6, <2>1, <2>3, <2>19, OneMoves DEF ProvisioningInv, ProvisioningType
<1> QED
  BY <1>7, <1>8

LEMMA PublishStep ==
  ASSUME Provisionable, ProvisioningInv, NEW p \in Requests, NEW works \in BOOLEAN,
         Publish(p, works)
  PROVE  ProvisioningInv'
<1>1. /\ pc[p] = "extracting" /\ k[p] = Len(Order)
      /\ UNCHANGED <<res, k, snap, job, expanded, rows, stored>>
  BY DEF Publish, library
<1>2. CASE ~works
  <2>1. Exit(p, 32) /\ UNCHANGED disk
    BY <1>2 DEF Publish
  <2> QED
    BY <1>1, <2>1, Exited DEF ProvisioningInv, ProvisioningType
<1>3. CASE works
  <2>1. /\ disk' = [disk EXCEPT ![p].skills = expanded[p]]
        /\ exit' = [exit EXCEPT ![p] = 0] /\ pc' = [pc EXCEPT ![p] = "installed"]
    BY <1>3 DEF Publish, Exit, Goto
  <2>2. RequestInv(p) /\ disk[p] \in Disk /\ expanded[p] \in [Names -> Package]
    BY <1>1 DEF ProvisioningInv, ProvisioningType, RequestInv, Filling, OnDisk
  <2>3. /\ disk'[p] \in Disk /\ disk'[p].laid = disk[p].laid /\ disk'[p].skills = expanded[p]
        /\ exit'[p] = 0 /\ pc'[p] = "installed"
    BY <2>1, <2>2 DEF ProvisioningInv, ProvisioningType, Disk
  <2>4. ProvisioningType'
    BY <1>1, <2>1 DEF ProvisioningInv, ProvisioningType, OnDisk
  <2>5. Staged(p) /\ Fresh(p) /\ \A t \in Skills : job[p][t].at = "got"
    BY <1>1, <2>2 DEF RequestInv, Installing
  <2>6. ASSUME NEW n \in Names
        PROVE  /\ (expanded[p][n] = None) = ({t \in Skills : snap[p][t].name = n} = {})
               /\ \A t \in Skills : snap[p][t].name = n =>
                    /\ expanded[p][n].key = snap[p][t].key
                    /\ expanded[p][n].bytes = "right" \/ t \in Undigested
    <3>1. \A t \in Skills : \E i \in 1..k[p] : Order[i] = t
      BY <1>1, OrderIs
    <3>2. \A i \in 1..k[p] : Order[i] \in Skills
      BY <1>1, OrderIs
    <3>3. ASSUME NEW t \in Skills, snap[p][t].name = n
          PROVE  expanded[p][n] = job[p][t].has /\ expanded[p][n] # None
      BY <2>5, <3>1, <3>3 DEF Staged
    <3>4. expanded[p][n] # None => \E t \in Skills : snap[p][t].name = n
      BY <2>5, <3>2 DEF Staged
    <3>5. (expanded[p][n] = None) <=> ({t \in Skills : snap[p][t].name = n} = {})
      BY <3>3, <3>4
    <3>6. \A t \in Skills : snap[p][t].name = n =>
            /\ expanded[p][n].key = snap[p][t].key
            /\ expanded[p][n].bytes = "right" \/ t \in Undigested
      BY <2>5, <3>3 DEF Fresh
    <3> QED
      BY <3>5, <3>6
  <2>7. Complete(p)'
    <3>1. snap' = snap
      BY <1>1
    <3> QED
      BY <2>3, <2>6, <3>1 DEF Complete
  <2>8. Resolved(p)'
    BY <1>1, <2>2, StillResolved DEF RequestInv, OnDisk
  <2>9. Filling(p)'
    BY <1>1, <2>2, <2>3 DEF RequestInv, Filling, OnDisk, BeforeDisk
  <2>10. RequestInv(p)'
    BY <2>3, <2>7, <2>8, <2>9 DEF RequestInv, Attaching, Installing, Fetching
  <2> QED
    BY <1>1, <2>1, <2>4, <2>10, OneMoves DEF ProvisioningInv, ProvisioningType
<1> QED
  BY <1>2, <1>3

LEMMA InstalledStep ==
  ASSUME ProvisioningInv, NEW p \in Requests, Installed(p)
  PROVE  ProvisioningInv'
<1>1. /\ pc[p] = "installed"
      /\ pc' = [pc EXCEPT ![p] = IF exit[p] = 0 THEN "fetching" ELSE "failed"]
      /\ k' = [k EXCEPT ![p] = 0] /\ job' = [job EXCEPT ![p] = NoJobs]
      /\ expanded' = [expanded EXCEPT ![p] = Empty]
      /\ UNCHANGED <<res, snap, disk, exit, rows, stored>>
  BY DEF Installed, Goto, library
<1>2. Empty \in [Names -> Package] /\ NoJobs \in
        [Skills -> [at : {"waiting", "got", "failed"}, n : Nat, has : Package]]
  BY DEF Empty, NoJobs, Package
<1>3. ProvisioningType'
  BY <1>1, <1>2 DEF ProvisioningInv, ProvisioningType, OnDisk
<1>4. RequestInv(p) /\ IF exit[p] = 0 THEN Complete(p) ELSE NoSkills(p)
  BY <1>1 DEF ProvisioningInv, RequestInv, Installing
<1>5. /\ pc'[p] = IF exit[p] = 0 THEN "fetching" ELSE "failed"
      /\ k'[p] = 0 /\ Len(res[p]) \in Nat
  BY <1>1 DEF ProvisioningInv, ProvisioningType
<1>6. CASE exit[p] # 0
  <2>1. RequestInv(p)'
    BY <1>1, <1>4, <1>5, <1>6, AtFailed
  <2> QED
    BY <1>1, <1>3, <2>1, OneMoves DEF ProvisioningInv, ProvisioningType
<1>7. CASE exit[p] = 0
  <2>1. Resolved(p)'
    BY <1>1, <1>4, StillResolved DEF RequestInv, OnDisk
  <2>2. Filling(p)'
    BY <1>1, <1>4, <1>5, <1>7 DEF RequestInv, Filling, OnDisk, BeforeDisk
  <2>3. Complete(p)'
    BY <1>1, <1>4, <1>7 DEF Complete
  <2>4. Fetching(p)'
    BY <1>1, <1>5, <1>7 DEF Fetching
  <2>5. RequestInv(p)'
    BY <1>5, <1>7, <2>1, <2>2, <2>3, <2>4 DEF RequestInv, Attaching, Installing
  <2> QED
    BY <1>1, <1>3, <2>5, OneMoves DEF ProvisioningInv, ProvisioningType
<1> QED
  BY <1>6, <1>7

LEMMA FetchStep ==
  ASSUME ProvisioningInv, NEW p \in Requests, NEW works \in BOOLEAN, FetchFile(p, works)
  PROVE  ProvisioningInv'
<1> DEFINE n0 == k[p] + 1
           path == MountPath(res[p][n0])
           file == res[p][n0].file
<1>1. /\ pc[p] = "fetching" /\ k[p] < Len(res[p]) /\ (works => file \in stored)
      /\ UNCHANGED <<res, snap, job, expanded, exit, rows, stored>>
  BY DEF FetchFile, library, Upcoming
<1> HIDE DEF n0, path, file
<1>2. /\ RequestInv(p) /\ Complete(p) /\ disk[p] \in Disk /\ disk[p].laid
      /\ k[p] \in Nat /\ Len(res[p]) \in Nat /\ PathsApart(p, Len(res[p]))
  <2>1. RequestInv(p) /\ pc[p] = "fetching"
    BY <1>1 DEF ProvisioningInv
  <2>2. Complete(p)
    BY <2>1 DEF RequestInv, Installing
  <2>3. disk[p] \in Disk /\ disk[p].laid
    BY <2>1 DEF RequestInv, Filling, OnDisk
  <2>4. PathsApart(p, Len(res[p]))
    BY <2>1 DEF RequestInv, Resolved, OnDisk
  <2>5. k[p] \in Nat /\ Len(res[p]) \in Nat
    BY DEF ProvisioningInv, ProvisioningType
  <2> QED
    BY <2>1, <2>2, <2>3, <2>4, <2>5
<1>3. CASE ~works
  <2>1. pc' = [pc EXCEPT ![p] = "failed"] /\ UNCHANGED <<disk, k>>
    BY <1>3 DEF FetchFile, Goto
  <2>2. ProvisioningType'
    BY <1>1, <2>1 DEF ProvisioningInv, ProvisioningType
  <2>3. pc'[p] = "failed"
    BY <2>1 DEF ProvisioningInv, ProvisioningType
  <2>4. RequestInv(p)'
    BY <1>1, <1>2, <2>1, <2>3, AtFailed
  <2> QED
    BY <1>1, <2>1, <2>2, <2>4, OneMoves DEF ProvisioningInv, ProvisioningType
<1>4. CASE works
  <2>1. /\ disk' = [disk EXCEPT ![p].uploads[path] = file]
        /\ k' = [k EXCEPT ![p] = @ + 1] /\ UNCHANGED pc
    BY <1>4 DEF FetchFile, Upcoming, path, file, n0
  <2>2. n0 \in 1..Len(res[p]) /\ path \in Paths /\ file \in Files
    <3>1. n0 \in 1..Len(res[p])
      BY <1>1, <1>2 DEF n0
    <3>2. path \in Paths
      BY <1>2, <3>1 DEF PathsApart, path
    <3>3. file \in Files
      BY <1>1, <1>4 DEF ProvisioningInv, ProvisioningType
    <3> QED
      BY <3>1, <3>2, <3>3
  <2>3. /\ disk'[p] = [disk[p] EXCEPT !.uploads = [@ EXCEPT ![path] = file]]
        /\ k'[p] = n0 /\ pc'[p] = "fetching"
    <3>1. p \in DOMAIN disk /\ p \in DOMAIN k
      BY DEF ProvisioningInv, ProvisioningType
    <3> QED
      BY <1>1, <2>1, <3>1 DEF n0
  <2>4. /\ disk'[p] \in Disk /\ disk'[p].laid /\ disk'[p].skills = disk[p].skills
        /\ disk'[p].uploads[path] = file
        /\ \A q \in Paths \ {path} : disk'[p].uploads[q] = disk[p].uploads[q]
    <3>1. disk[p].uploads \in [Paths -> Files \cup {None}]
      BY <1>2 DEF Disk
    <3>2. /\ [disk[p].uploads EXCEPT ![path] = file] \in [Paths -> Files \cup {None}]
          /\ [disk[p].uploads EXCEPT ![path] = file][path] = file
          /\ \A q \in Paths \ {path} :
               [disk[p].uploads EXCEPT ![path] = file][q] = disk[p].uploads[q]
      BY <2>2, <3>1
    <3>3. disk'[p] = [disk[p] EXCEPT !.uploads = [disk[p].uploads EXCEPT ![path] = file]]
      BY <1>2, <2>3 DEF Disk
    <3> QED
      BY <1>2, <3>2, <3>3 DEF Disk
  <2>5. ProvisioningType'
    BY <1>1, <2>1 DEF ProvisioningInv, ProvisioningType
  <2>6. Resolved(p)' /\ \A i : MountPath(res[p][i])' = MountPath(res[p][i])
    <3>1. Resolved(p) /\ pc[p] \in {"starting"} \cup OnDisk
      BY <1>1, <1>2 DEF RequestInv, OnDisk
    <3> QED
      BY <1>1, <3>1, StillResolved
  <2>7. Filling(p)'
    BY <2>3, <2>4 DEF Filling, OnDisk, BeforeDisk
  <2>8. Complete(p)'
    <3>1. snap' = snap
      BY <1>1
    <3> QED
      BY <1>2, <2>4, <3>1 DEF Complete
  <2>9. ASSUME NEW i \in 1..n0
        PROVE  disk'[p].uploads[MountPath(res[p][i])] = res[p][i].file
    <3>1. CASE i = n0
      BY <2>4, <3>1 DEF path, file
    <3>2. CASE i # n0
      <4>1. i \in 1..k[p] /\ i \in 1..Len(res[p])
        BY <1>2, <2>2, <3>2 DEF n0
      <4>2. MountPath(res[p][i]) \in Paths \ {path}
        BY <1>2, <2>2, <3>2, <4>1 DEF PathsApart, path
      <4>3. disk[p].uploads[MountPath(res[p][i])] = res[p][i].file
        BY <1>1, <1>2, <4>1 DEF RequestInv, Fetching
      <4> QED
        BY <2>4, <4>2, <4>3
    <3> QED
      BY <3>1, <3>2
  <2>10. Fetching(p)'
    <3>1. n0 <= Len(res[p])
      BY <1>2, <2>2
    <3>2. res' = res
      BY <1>1
    <3>3. \A i \in 1..k'[p] :
            disk'[p].uploads[MountPath(res[p][i])'] = res'[p][i].file
      BY <2>3, <2>6, <2>9, <3>2
    <3> QED
      BY <2>3, <3>1, <3>2, <3>3 DEF Fetching
  <2>11. RequestInv(p)'
    BY <2>3, <2>6, <2>7, <2>8, <2>10 DEF RequestInv, Attaching, Installing
  <2> QED
    BY <1>1, <2>1, <2>5, <2>11, OneMoves DEF ProvisioningInv, ProvisioningType
<1> QED
  BY <1>3, <1>4

LEMMA CommitStep ==
  ASSUME ProvisioningInv, NEW p \in Requests, NEW works \in BOOLEAN, Commit(p, works)
  PROVE  ProvisioningInv'
<1>1. /\ pc[p] = "fetching" /\ k[p] = Len(res[p]) /\ res' = res
      /\ pc' = [pc EXCEPT ![p] = IF works THEN "done" ELSE "failed"]
      /\ UNCHANGED <<k, snap, disk, job, expanded, exit, rows, stored>>
  BY DEF Commit, library, Leave, Goto
<1>2. RequestInv(p) /\ Complete(p)
  BY <1>1 DEF ProvisioningInv, RequestInv, Installing
<1>3. pc'[p] = IF works THEN "done" ELSE "failed"
  BY <1>1 DEF ProvisioningInv, ProvisioningType
<1>4. ProvisioningType'
  BY <1>1 DEF ProvisioningInv, ProvisioningType, OnDisk
<1>5. CASE ~works
  <2>1. RequestInv(p)'
    BY <1>1, <1>2, <1>3, <1>5, AtFailed
  <2> QED
    BY <1>1, <1>4, <2>1, OneMoves DEF ProvisioningInv, ProvisioningType
<1>6. CASE works
  <2>1. Resolved(p)' /\ \A i : MountPath(res[p][i])' = MountPath(res[p][i])
    BY <1>1, <1>2, StillResolved DEF RequestInv, OnDisk
  <2>2. Filling(p)'
    BY <1>1, <1>2, <1>3, <1>6 DEF RequestInv, Filling, OnDisk, BeforeDisk
  <2>3. Complete(p)'
    BY <1>1, <1>2 DEF Complete
  <2>4. Fetching(p)'
    BY <1>1, <1>2, <1>3, <1>6, <2>1 DEF RequestInv, Fetching
  <2>5. RequestInv(p)'
    BY <1>3, <1>6, <2>1, <2>2, <2>3, <2>4 DEF RequestInv, Attaching, Installing
  <2> QED
    BY <1>1, <1>4, <2>5, OneMoves DEF ProvisioningInv, ProvisioningType
<1> QED
  BY <1>5, <1>6

LEMMA EndStep ==
  ASSUME ProvisioningInv, NEW p \in Requests, Break(p) \/ CleanUp(p)
  PROVE  ProvisioningInv'
<1>1. CASE Break(p)
  <2>1. /\ pc[p] \in {"laying", "downloading", "extracting", "installed", "fetching"}
        /\ pc' = [pc EXCEPT ![p] = "failed"]
        /\ UNCHANGED <<res, k, snap, disk, job, expanded, exit, rows, stored>>
    BY <1>1 DEF Break, Goto, library
  <2>2. ProvisioningType'
    BY <2>1 DEF ProvisioningInv, ProvisioningType
  <2>3. pc'[p] = "failed" /\ (NoSkills(p) \/ Complete(p))
    BY <2>1 DEF ProvisioningInv, ProvisioningType, RequestInv, Filling, Installing
  <2>4. RequestInv(p)'
    BY <2>1, <2>3, AtFailed
  <2> QED
    BY <2>1, <2>2, <2>4, OneMoves DEF ProvisioningInv, ProvisioningType
<1>2. CASE CleanUp(p)
  <2>1. /\ disk' = [disk EXCEPT ![p] = None]
        /\ pc' = [pc EXCEPT ![p] = "refused"] /\ res' = [res EXCEPT ![p] = <<>>]
        /\ k' = [k EXCEPT ![p] = 0] /\ snap' = [snap EXCEPT ![p] = None]
        /\ job' = [job EXCEPT ![p] = NoJobs] /\ expanded' = [expanded EXCEPT ![p] = Empty]
        /\ exit' = [exit EXCEPT ![p] = 0] /\ UNCHANGED <<rows, stored>>
    BY <1>2 DEF CleanUp, Leave, Goto, library
  <2>2. Empty \in [Names -> Package] /\ NoJobs \in
          [Skills -> [at : {"waiting", "got", "failed"}, n : Nat, has : Package]]
    BY DEF Empty, NoJobs, Package
  <2>3. ProvisioningType'
    <3>1. \A q \in Requests : res'[q] = IF q = p THEN <<>> ELSE res[q]
      BY <2>1 DEF ProvisioningInv, ProvisioningType
    <3> QED
      BY <2>1, <2>2, <3>1, NoneDeclared DEF ProvisioningInv, ProvisioningType, BeforeDisk
  <2>4. RequestInv(p)'
    BY <2>1, AtRest DEF ProvisioningInv, ProvisioningType
  <2> QED
    BY <2>1, <2>3, <2>4, OneMoves DEF ProvisioningInv, ProvisioningType
<1> QED
  BY <1>1, <1>2

LEMMA ProvisioningStep == Provisionable /\ ProvisioningInv /\ [Next]_(vars) => ProvisioningInv'
<1> SUFFICES ASSUME Provisionable, ProvisioningInv, [Next]_(vars) PROVE ProvisioningInv'
  OBVIOUS
<1>1. CASE UNCHANGED vars
  <2>1. UNCHANGED <<pc, res, k, snap, disk, job, expanded, exit, rows, stored>>
    BY <1>1 DEF vars
  <2>2. ProvisioningType'
    BY <2>1 DEF ProvisioningInv, ProvisioningType
  <2>3. \A p \in Requests : RequestInv(p)'
    BY <2>1, Unmoved DEF ProvisioningInv
  <2> QED
    BY <2>2, <2>3 DEF ProvisioningInv
<1>2. ASSUME NEW p \in Requests, Step(p) PROVE ProvisioningInv'
  BY <1>2, Queueing, AttachStep, ResolveStep, StartStep, PrepareStep, DownloadStep, CollectStep,
     ExtractStep, PublishStep, InstalledStep, FetchStep, CommitStep, EndStep DEF Step
<1>3. ASSUME NEW p \in Requests,
             GiveUp(p) \/ Break(p) \/ \E declared \in Declared : Arrive(p, declared)
      PROVE  ProvisioningInv'
  BY <1>3, Queueing, EndStep
<1> QED
  BY <1>1, <1>2, <1>3, OthersStep DEF Next

\* Whichever downloads, archives and calls fail, and whoever changes the library meanwhile, a
\* session that was created has all its skills and files, and no container ever a part
\* of the skills (Sandbox.provision, _skill_install_command).
THEOREM ContainersAreFurnished == ASSUME Provisionable PROVE Spec => []FurnishedWhole
<1>1. ProvisioningInv => FurnishedWhole
  <2> SUFFICES ASSUME ProvisioningInv, NEW p \in Requests
               PROVE  /\ pc[p] = "done" =>
                           /\ disk[p].laid /\ Complete(p)
                           /\ \A i \in DOMAIN res[p] :
                                disk[p].uploads[MountPath(res[p][i])] = res[p][i].file
                      /\ disk[p] # None => disk[p].skills = Empty \/ Complete(p)
    BY DEF FurnishedWhole, Furnished, AllOrNothing
  <2>1. RequestInv(p) /\ DOMAIN res[p] = 1..Len(res[p])
        /\ pc[p] \in BeforeDisk \cup OnDisk \cup {"failed"}
    BY DEF ProvisioningInv, ProvisioningType
  <2>2. pc[p] = "done" =>
          /\ disk[p].laid /\ Complete(p)
          /\ \A i \in DOMAIN res[p] : disk[p].uploads[MountPath(res[p][i])] = res[p][i].file
    BY <2>1 DEF RequestInv, Filling, Installing, Fetching, OnDisk
  <2>3. disk[p] # None => NoSkills(p) \/ Complete(p)
    BY <2>1 DEF RequestInv, Filling, Installing, OnDisk, BeforeDisk
  <2> QED
    BY <2>2, <2>3 DEF NoSkills
<1> QED
  BY <1>1, InitProvisioning, ProvisioningStep, PTL DEF Spec

=============================================================================
