---------------------------- MODULE ResourcesProofs ----------------------------
(***************************************************************************)
(* What a session is made of stays usable, proved for any number of        *)
(* requests: the files of Files, the store of MemoryStores (M), the skills *)
(* of Skills (S), the image of Environments (E) and the versions of Agents *)
(* (A).  Each of the five has its own inductive invariant.                 *)
(***************************************************************************)
EXTENDS MCResources, Integers, Sequences, TLAPS

(***************************************************************************)
(* Files.                                                                  *)
(***************************************************************************)

FilePlaces ==
  Done \cup {"stored", "mismatch", "loaded", "counted", "orphan", "bound", "copied"}

FilesType ==
  /\ brings \in [Files -> Contents] /\ rows \subseteq Files
  /\ held \subseteq Attaches \X Files
  /\ binding \in [Attaches -> Files \cup {None}]
  /\ pc \in [Reqs -> FilePlaces] /\ on \in [Deletes \cup Attaches -> Files \cup {None}]

\* The bytes of f are in the bucket, or are not its own.
There(f) == KeyOf(f) \in objects \/ \E g \in Files \ {f} : KeyOf(g) = KeyOf(f)

\* The bytes of a file outlive its row: they come before it and go after it.
BytesOutlive ==
  /\ \A f \in rows : pc[f] = "done" /\ There(f)
  /\ \A f \in Files : pc[f] = "stored" => There(f)
  /\ \A q \in Deletes :
       /\ pc[q] \in {"loaded", "counted"} => on[q] \in Files
       /\ pc[q] = "orphan" => on[q] \in Files \ rows /\ pc[on[q]] = "done"

\* A binding in flight is of a file that has its row, and so is a committed one.
BindingsHold ==
  /\ \A a \in Attaches :
       /\ pc[a] = "loaded" => on[a] \in Files
       /\ pc[a] \in {"bound", "copied"} => binding[a] = on[a] /\ on[a] \in rows
       /\ binding[a] # None => pc[a] \in {"bound", "copied"}
  /\ HeldFilesStay

FilesInv == FilesType /\ BytesOutlive /\ BindingsHold

\* A request that names a file makes none.
LEMMA KindsOfRequest ==
  /\ \A q \in Deletes : q \in Reqs /\ q \notin Files /\ q \notin Attaches
  /\ \A a \in Attaches : a \in Reqs /\ a \notin Files /\ a \notin Deletes
  /\ \A f \in Files : f \in Reqs /\ f \notin Deletes /\ f \notin Attaches /\ f # None
BY RequestAssumption, NoneAssumption DEF Reqs

\* The first state.
LEMMA FilesInit == Init => FilesInv
BY DEF Init, FilesInv, FilesType, FilePlaces, Done, Reqs, BytesOutlive, BindingsHold, HeldFilesStay

\* Types.
LEMMA FilesTypeNext == FilesInv /\ [Next]_vars => FilesType'
<1> SUFFICES ASSUME FilesInv, [Next]_vars PROVE FilesType'
  OBVIOUS
<1> USE KindsOfRequest DEF FilesInv, FilesType, FilePlaces, Done, Goto
<1>1. ASSUME NEW q \in Reqs, Stop(q) PROVE FilesType'
  BY <1>1 DEF Stop
<1>2. ASSUME NEW f \in Files, Store(f) \/ Mismatch(f) \/ Record(f) PROVE FilesType'
  BY <1>2 DEF Store, Mismatch, Record
<1>3. ASSUME NEW q \in Deletes \cup Attaches, NEW f \in Files, Load(q, f) PROVE FilesType'
  BY <1>3 DEF Load
<1>4. ASSUME NEW q \in Deletes, Count(q) \/ DeleteRow(q) \/ DeleteObject(q) PROVE FilesType'
  BY <1>4 DEF Count, DeleteRow, DeleteObject
<1>5. ASSUME NEW a \in Attaches, Bind(a) \/ Copy(a) PROVE FilesType'
  BY <1>5 DEF Bind, Copy, BindingsHold
<1>6. ASSUME NEW a \in Attaches, CommitBinding(a) PROVE FilesType'
  BY <1>6 DEF CommitBinding, BindingsHold
<1>7. CASE UNCHANGED vars
  BY <1>7 DEF vars
<1> QED BY <1>1, <1>2, <1>3, <1>4, <1>5, <1>6, <1>7 DEF Next

\* Which content a request brings never changes, nor does what is not its own.
LEMMA StillThere ==
  ASSUME NEW f \in Files, brings' = brings, There(f),
         KeyOf(f) \in objects => There(f)'
  PROVE  There(f)'
BY DEF There, KeyOf

\* The bytes.
LEMMA BytesNext == FilesInv /\ [Next]_vars => BytesOutlive'
<1> SUFFICES ASSUME FilesInv, [Next]_vars PROVE BytesOutlive'
  OBVIOUS
<1> USE KindsOfRequest DEF FilesInv, FilesType, FilePlaces, Done, Goto
<1>1. brings' = brings
  BY DEF Next, vars, Stop, Store, Mismatch, Record, Load, Count, DeleteRow, DeleteObject, Bind,
         Copy, CommitBinding
<1>2. \A f \in Files : KeyOf(f)' = KeyOf(f)
  BY <1>1 DEF KeyOf
<1>3. ASSUME objects \subseteq objects' PROVE \A f \in Files : There(f) => There(f)'
  BY <1>2, <1>3 DEF There
<1>4. ASSUME NEW f \in Files, objects' = objects \ {KeyOf(f)}
      PROVE  \A g \in Files \ {f} : There(g) => There(g)'
  BY <1>2, <1>4 DEF There
<1>5. ASSUME NEW q \in Reqs, Stop(q) PROVE BytesOutlive'
  <2>1. \A f \in Files : There(f) => There(f)'
    BY <1>5, <1>3 DEF Stop
  <2> QED BY <1>5, <2>1 DEF Stop, BytesOutlive
<1>6. ASSUME NEW f \in Files, Store(f) PROVE BytesOutlive'
  <2>1. \A g \in Files : There(g) => There(g)'
    BY <1>6, <1>3 DEF Store
  <2>2. pc'[f] = "stored" => There(f)'
    BY <1>6, <1>2 DEF Store, There
  <2> QED BY <1>6, <2>1, <2>2 DEF Store, BytesOutlive
<1>7. ASSUME NEW f \in Files, Mismatch(f) PROVE BytesOutlive'
  <2>1. \A g \in Files \ {f} : There(g) => There(g)'
    BY <1>7, <1>4 DEF Mismatch
  <2> QED BY <1>7, <2>1 DEF Mismatch, BytesOutlive
<1>8. ASSUME NEW f \in Files, Record(f) PROVE BytesOutlive'
  <2>1. \A g \in Files : There(g) => There(g)'
    BY <1>8, <1>3 DEF Record
  <2> QED BY <1>8, <2>1 DEF Record, BytesOutlive
<1>9. ASSUME NEW q \in Deletes \cup Attaches, NEW f \in Files, Load(q, f) PROVE BytesOutlive'
  <2>1. \A g \in Files : There(g) => There(g)'
    BY <1>9, <1>3 DEF Load
  <2> QED BY <1>9, <2>1 DEF Load, BytesOutlive
<1>10. ASSUME NEW q \in Deletes, Count(q) PROVE BytesOutlive'
  <2>1. \A g \in Files : There(g) => There(g)'
    BY <1>10, <1>3 DEF Count
  <2> QED BY <1>10, <2>1 DEF Count, BytesOutlive
<1>14. ASSUME NEW q \in Deletes, DeleteRow(q) PROVE BytesOutlive'
  <2>1. \A g \in Files : There(g) => There(g)'
    BY <1>14, <1>3 DEF DeleteRow
  <2>2. on[q] \in Files /\ UNCHANGED <<objects, brings, on>>
    BY <1>14 DEF DeleteRow, BytesOutlive
  <2>3. CASE UNCHANGED rows /\ Goto(q, "refused")
    BY <2>1, <2>2, <2>3 DEF BytesOutlive
  <2>4. CASE on[q] \in rows /\ rows' = rows \ {on[q]} /\ Goto(q, "orphan")
    BY <2>1, <2>2, <2>4 DEF BytesOutlive
  <2> QED BY <1>14, <2>3, <2>4 DEF DeleteRow
<1>11. ASSUME NEW q \in Deletes, DeleteObject(q) PROVE BytesOutlive'
  <2>1. on[q] \in Files /\ on[q] \notin rows /\ pc[on[q]] = "done"
    BY <1>11 DEF DeleteObject, BytesOutlive
  <2>2. \A g \in Files \ {on[q]} : There(g) => There(g)'
    BY <1>11, <1>4, <2>1 DEF DeleteObject
  <2> QED BY <1>11, <2>1, <2>2 DEF DeleteObject, BytesOutlive
<1>12. ASSUME NEW a \in Attaches, Bind(a) \/ Copy(a) \/ CommitBinding(a) PROVE BytesOutlive'
  <2>1. \A g \in Files : There(g) => There(g)'
    BY <1>12, <1>3 DEF Bind, Copy, CommitBinding
  <2> QED BY <1>12, <2>1 DEF Bind, Copy, CommitBinding, BytesOutlive
<1>13. CASE UNCHANGED vars
  <2>1. \A g \in Files : There(g) => There(g)'
    BY <1>13, <1>3 DEF vars
  <2> QED BY <1>13, <2>1 DEF vars, BytesOutlive
<1> QED BY <1>5, <1>6, <1>7, <1>8, <1>9, <1>10, <1>11, <1>12, <1>13, <1>14 DEF Next

\* The bindings: a row that one is on its way to, or that is held, is not deleted.
LEMMA BindingsNext == FilesInv /\ [Next]_vars => BindingsHold'
<1> SUFFICES ASSUME FilesInv, [Next]_vars PROVE BindingsHold'
  OBVIOUS
<1>9. \A q \in Deletes : DeleteRow(q) =>
        /\ UNCHANGED <<held, binding, on>> /\ \A a \in Attaches : binding[a] # on[q]
        /\ \E p \in {"refused", "orphan"} : pc' = [pc EXCEPT ![q] = p]
  BY DEF DeleteRow, Goto
<1> USE KindsOfRequest DEF FilesInv, FilesType, FilePlaces, Done, Goto, BindingsHold, HeldFilesStay
<1>1. ASSUME NEW q \in Reqs, Stop(q) PROVE BindingsHold'
  BY <1>1 DEF Stop
<1>2. ASSUME NEW f \in Files, Store(f) \/ Mismatch(f) \/ Record(f) PROVE BindingsHold'
  BY <1>2 DEF Store, Mismatch, Record
<1>3. ASSUME NEW q \in Deletes \cup Attaches, NEW f \in Files, Load(q, f) PROVE BindingsHold'
  BY <1>3 DEF Load
<1>4. ASSUME NEW q \in Deletes, Count(q) \/ DeleteObject(q) PROVE BindingsHold'
  BY <1>4 DEF Count, DeleteObject
<1>5. ASSUME NEW q \in Deletes, DeleteRow(q) PROVE BindingsHold'
  <2>1. \A a \in Attaches : pc'[a] = pc[a]
    BY <1>5, <1>9
  <2>2. UNCHANGED <<held, binding, on>> /\ \A a \in Attaches : binding[a] # on[q]
    BY <1>5, <1>9
  <2>3. CASE UNCHANGED rows
    BY <2>1, <2>2, <2>3
  <2>4. CASE rows' = rows \ {on[q]} /\ \A a \in Attaches : <<a, on[q]>> \notin held
    <3>1. \A h \in held : h[2] \in rows'
      BY <2>4
    <3> QED BY <2>1, <2>2, <2>4, <3>1
  <2> QED BY <1>5, <2>3, <2>4 DEF DeleteRow
<1>6. ASSUME NEW a \in Attaches, Bind(a) \/ Copy(a) PROVE BindingsHold'
  BY <1>6 DEF Bind, Copy
<1>7. ASSUME NEW a \in Attaches, CommitBinding(a) PROVE BindingsHold'
  BY <1>7 DEF CommitBinding
<1>8. CASE UNCHANGED vars
  BY <1>8 DEF vars
<1> QED BY <1>1, <1>2, <1>3, <1>4, <1>5, <1>6, <1>7, <1>8 DEF Next

\* What a session or a client was given stays, however many requests there are and
\* wherever each of them stops (files.py, object_key, attach_live_file).
THEOREM KeepsFiles == Spec => []FilesKept
<1>1. FilesInv /\ [Next]_vars => FilesInv'
  BY FilesTypeNext, BytesNext, BindingsNext DEF FilesInv
<1>2. FilesInv => FilesKept
  BY DEF FilesInv, FilesKept, BytesOutlive, BindingsHold, EveryRowReadable, There
<1> QED BY FilesInit, <1>1, <1>2, PTL DEF Spec

(***************************************************************************)
(* Memory stores.                                                          *)
(***************************************************************************)

Deleting == {"loaded", "counted", "destroying", "destroyed", "undestroyed"}

\* A store is deleted only after it was made, and a delete that is past its count has
\* told so in the row before it calls the provider.
StoreOrder ==
  /\ place[Creator] = "created" => volume = "live"
  /\ status = "ready" \/ deleted => place[Creator] = "done"
  /\ \A q \in StoreDeletes :
       /\ place[q] \in Deleting => place[Creator] = "done"
       /\ place[q] \in {"destroying", "destroyed", "undestroyed"} => status # "ready"
       /\ place[q] = "destroyed" => volume = "destroyed"

\* While a delete is past its count, and for ever once it has marked the row, no
\* session has the store and none is on its way to it, unless they have crossed.
Unclaimed ==
  ~crossed /\ (status # "ready" \/ \E q \in StoreDeletes : place[q] = "counted")
    => attached = {} /\ \A s \in Sessions : ~M!Coming(s)

StoreInv == M!RowTellsVolume /\ StoreOrder /\ Unclaimed

\* The first state.
LEMMA StoreInit == M!Init => StoreInv
BY OthersAssumption
   DEF M!Init, StoreInv, M!RowTellsVolume, M!TypeOK, M!ReadyHasVolume, M!DeletedIsGone, M!Reqs,
       M!Done, M!Steps, StoreOrder, Deleting, Unclaimed, M!Coming

\* What a request of one kind cannot be.
LEMMA KindsOfStoreRequest ==
  /\ Creator \in M!Reqs /\ Creator \notin Sessions \cup StoreDeletes \cup Archives
  /\ \A s \in Sessions : s \in M!Reqs /\ s \notin StoreDeletes \cup Archives
  /\ \A q \in StoreDeletes : q \in M!Reqs /\ q \notin Archives
  /\ \A q \in Archives : q \in M!Reqs
BY OthersAssumption DEF M!Reqs, M!RequestAssumption

\* The row tells what there is at the provider.
LEMMA RowNext == StoreInv /\ [M!Next]_(M!vars) => (M!RowTellsVolume /\ StoreOrder)'
<1> SUFFICES ASSUME StoreInv, [M!Next]_(M!vars) PROVE (M!RowTellsVolume /\ StoreOrder)'
  OBVIOUS
<1> USE KindsOfStoreRequest
    DEF StoreInv, M!RowTellsVolume, M!TypeOK, M!ReadyHasVolume, M!DeletedIsGone, StoreOrder,
        Deleting, M!Done, M!Steps, M!Goto, M!row, M!provider
<1> DEFINE Goal == (M!RowTellsVolume /\ StoreOrder)'
<1>1. ASSUME NEW q \in M!Reqs, M!Stop(q) PROVE Goal
  BY <1>1 DEF M!Stop
<1>2. ASSUME M!CreateRow(Creator) PROVE Goal
  BY <1>2 DEF M!CreateRow
<1>3. ASSUME NEW exists \in BOOLEAN, NEW answered \in BOOLEAN,
             M!Provision(Creator, exists, answered)
      PROVE  Goal
  BY <1>3 DEF M!Provision
<1>4. ASSUME M!CreateEnds(Creator) PROVE Goal
  BY <1>4 DEF M!CreateEnds
<1>5. ASSUME NEW q \in Archives, M!Archive(q) PROVE Goal
  BY <1>5 DEF M!Archive
<1>6. ASSUME NEW s \in Sessions, M!Attach(s) PROVE Goal
  BY <1>6 DEF M!Attach, M!Found
<1>15. ASSUME NEW s \in Sessions, M!CommitSession(s) PROVE Goal
  BY <1>15 DEF M!CommitSession
<1>12. ASSUME NEW s \in Sessions, M!StartContainer(s) PROVE Goal
  BY <1>12 DEF M!StartContainer
<1>7. ASSUME NEW s \in Sessions, NEW killed \in BOOLEAN,
             M!FillFails(s, killed) \/ M!DropSession(s, killed)
      PROVE  Goal
  BY <1>7 DEF M!FillFails, M!DropSession
<1>8. ASSUME NEW q \in StoreDeletes, M!Load(q) PROVE Goal
  BY <1>8 DEF M!Load, M!Found
<1>13. ASSUME NEW q \in StoreDeletes, M!Count(q) PROVE Goal
  BY <1>13 DEF M!Count
<1>14. ASSUME NEW q \in StoreDeletes, M!MarkDeleting(q) PROVE Goal
  BY <1>14 DEF M!MarkDeleting
<1>9. ASSUME NEW q \in StoreDeletes, M!DeleteEnds(q) PROVE Goal
  BY <1>9 DEF M!DeleteEnds
<1>10. ASSUME NEW q \in StoreDeletes, NEW ended \in BOOLEAN, NEW answered \in BOOLEAN,
              M!Destroy(q, ended, answered)
       PROVE  Goal
  BY <1>10 DEF M!Destroy
<1>11. CASE UNCHANGED M!vars
  BY <1>11 DEF M!vars
<1> QED BY <1>1, <1>2, <1>3, <1>4, <1>5, <1>6, <1>7, <1>8, <1>9, <1>10, <1>11, <1>12,
        <1>13, <1>14, <1>15 DEF M!Next

\* A delete and a session on its way do not cross unnoticed.
LEMMA UnclaimedNext == StoreInv /\ [M!Next]_(M!vars) => Unclaimed'
<1> SUFFICES ASSUME StoreInv, [M!Next]_(M!vars) PROVE Unclaimed'
  OBVIOUS
<1> USE KindsOfStoreRequest
    DEF StoreInv, M!RowTellsVolume, M!TypeOK, StoreOrder, Unclaimed, M!Coming,
        Deleting, M!Done, M!Steps, M!Goto, M!row, M!provider
<1>1. ASSUME NEW q \in M!Reqs, M!Stop(q) PROVE Unclaimed'
  BY <1>1 DEF M!Stop
<1>2. ASSUME M!CreateRow(Creator) \/ M!CreateEnds(Creator) PROVE Unclaimed'
  BY <1>2 DEF M!CreateRow, M!CreateEnds
<1>3. ASSUME NEW exists \in BOOLEAN, NEW answered \in BOOLEAN,
             M!Provision(Creator, exists, answered)
      PROVE  Unclaimed'
  BY <1>3 DEF M!Provision
<1>4. ASSUME NEW q \in Archives, M!Archive(q) PROVE Unclaimed'
  BY <1>4 DEF M!Archive
<1>5. ASSUME NEW s \in Sessions, M!Attach(s) PROVE Unclaimed'
  BY <1>5 DEF M!Attach, M!Found
<1>6. ASSUME NEW s \in Sessions, M!StartContainer(s) PROVE Unclaimed'
  BY <1>6 DEF M!StartContainer
<1>7. ASSUME NEW s \in Sessions, M!CommitSession(s) PROVE Unclaimed'
  BY <1>7 DEF M!CommitSession
<1>8. ASSUME NEW s \in Sessions, NEW killed \in BOOLEAN,
             M!FillFails(s, killed) \/ M!DropSession(s, killed)
      PROVE  Unclaimed'
  BY <1>8 DEF M!FillFails, M!DropSession
<1>9. ASSUME NEW q \in StoreDeletes, M!Load(q) PROVE Unclaimed'
  BY <1>9 DEF M!Load
<1>10. ASSUME NEW q \in StoreDeletes, M!Count(q) PROVE Unclaimed'
  BY <1>10 DEF M!Count
<1>11. ASSUME NEW q \in StoreDeletes, M!MarkDeleting(q) PROVE Unclaimed'
  BY <1>11 DEF M!MarkDeleting
<1>12. ASSUME NEW q \in StoreDeletes, M!DeleteEnds(q) PROVE Unclaimed'
  BY <1>12 DEF M!DeleteEnds
<1>13. ASSUME NEW q \in StoreDeletes, NEW ended \in BOOLEAN, NEW answered \in BOOLEAN,
              M!Destroy(q, ended, answered)
       PROVE  Unclaimed'
  BY <1>13 DEF M!Destroy
<1>14. CASE UNCHANGED M!vars
  BY <1>14 DEF M!vars
<1> QED BY <1>1, <1>2, <1>3, <1>4, <1>5, <1>6, <1>7, <1>8, <1>9, <1>10, <1>11, <1>12, <1>13, <1>14
        DEF M!Next

\* The invariant of a store, of all its requests.
LEMMA StoreAlways == M!Spec => []StoreInv
<1>1. StoreInv /\ [M!Next]_(M!vars) => StoreInv'
  BY RowNext, UnclaimedNext DEF StoreInv
<1> QED BY StoreInit, <1>1, PTL DEF M!Spec

\* The row of a store tells what there is at the provider, for any number of sessions,
\* archives and deletes (create_memory_store, delete_memory_store).
THEOREM StoreTellsVolume == M!Spec => []RowTellsVolume
<1>1. StoreInv => RowTellsVolume
  BY DEF StoreInv, RowTellsVolume
<1> QED BY StoreAlways, <1>1, PTL

\* No delete that a session has not crossed destroys a Volume under its container
\* (count_memory_store_attachments, require_attachable).
THEOREM MountsAreSafe == M!Spec => []MountSafe
<1>1. StoreInv => MountSafe
  BY DEF StoreInv, M!RowTellsVolume, M!ReadyHasVolume, Unclaimed, MountSafe, M!MountSafe
<1> QED BY StoreAlways, <1>1, PTL

(***************************************************************************)
(* Skills.                                                                 *)
(***************************************************************************)

SkillPlaces == S!Done \cup {"checked", "stored", "loaded", "purged"}

SkillsType ==
  /\ skills \in [Creates -> S!Row \cup {None}] /\ copy \in [S!Reqs -> S!Row \cup {None}]
  /\ of \in [S!Reqs -> Creates \cup {None}] /\ pkg \in [S!Reqs -> S!Packages]
  /\ step \in [S!Reqs -> SkillPlaces] /\ met \in BOOLEAN
  /\ storers \subseteq Creates \cup Updates

\* The packages that requests which are over have brought for each skill.
Own == [s \in Creates |->
  {pkg[r] : r \in {x \in storers : step[x] = "done" /\ (x = s \/ (x \in Updates /\ of[x] = s))}}]

\* A key, also one that a request has read, tells whose package it is.
KeysTell ==
  /\ \A s \in Creates : skills[s] # None => skills[s].key \in Own[s]
  /\ \A q \in S!Reqs :
       /\ copy[q] # None => of[q] \in Creates /\ copy[q].key \in Own[of[q]]
       /\ step[q] \in {"loaded", "purged"} => copy[q] # None
       /\ q \in Updates /\ step[q] \in {"checked", "stored"} => copy[q] # None
       /\ step[q] = "stored" => q \in storers
       /\ step[q] = "stored" /\ ~S!Shared => pkg[q] \in packages

SkillsInv == SkillsType /\ KeysTell /\ S!Readable /\ S!NameMatchesPackage

\* The first state.
LEMMA SkillsInit == S!Init => SkillsInv
BY OthersAssumption
   DEF S!Init, SkillsInv, SkillsType, SkillPlaces, S!Done, S!Reqs, KeysTell, S!Readable, S!Skills,
       S!NameMatchesPackage

\* What a request of one kind cannot be, and what None is not.
LEMMA KindsOfSkillRequest ==
  /\ \A s \in Creates : s \in S!Reqs /\ s \notin Updates \cup Renames \cup SkillDeletes /\ s # None
  /\ \A q \in Updates : q \in S!Reqs /\ q \notin Renames \cup SkillDeletes
  /\ \A q \in Renames : q \in S!Reqs /\ q \notin SkillDeletes
  /\ \A q \in SkillDeletes : q \in S!Reqs
  /\ None \notin S!Row
BY OthersAssumption DEF S!Reqs, S!RequestAssumption, S!NoneAssumption

\* A row is its two columns.
LEMMA Columns ==
  /\ \A r \in S!Row : r.name \in Names /\ r.key \in S!Packages /\ DOMAIN r = {"name", "key"}
  /\ \A n \in Names, k \in S!Packages :
       LET r == [name |-> n, key |-> k] IN r \in S!Row /\ r.name = n /\ r.key = k
  /\ \A p \in S!Packages : S!NameOf(p) \in Names
BY DEF S!Row, S!Packages, S!NameOf

\* A name is written to a row, and nothing else.
LEMMA Renamed ==
  ASSUME NEW r \in S!Row, NEW n \in Names
  PROVE  LET new == [r EXCEPT !.name = n] IN new \in S!Row /\ new.name = n /\ new.key = r.key
BY DEF S!Row

\* The columns that are written and those that are left.
LEMMA Merged ==
  ASSUME NEW new \in S!Row, NEW old \in S!Row, NEW now \in S!Row
  PROVE  LET m == [c \in DOMAIN new |-> IF new[c] = old[c] THEN now[c] ELSE new[c]]
         IN  /\ m \in S!Row
             /\ m.name = IF new.name = old.name THEN now.name ELSE new.name
             /\ m.key = IF new.key = old.key THEN now.key ELSE new.key
<1> DEFINE m == [c \in DOMAIN new |-> IF new[c] = old[c] THEN now[c] ELSE new[c]]
<1>1. DOMAIN new = {"name", "key"}
  BY DEF S!Row
<1>2. m = [c \in {"name", "key"} |-> IF new[c] = old[c] THEN now[c] ELSE new[c]]
  BY <1>1
<1>3. m.name = IF new.name = old.name THEN now.name ELSE new.name
  BY <1>2
<1>4. m.key = IF new.key = old.key THEN now.key ELSE new.key
  BY <1>2
<1>5. m = [name |-> m.name, key |-> m.key]
  BY <1>2
<1>6. m.name \in Names /\ m.key \in S!Packages
  BY <1>3, <1>4, Columns
<1>7. m \in S!Row
  BY <1>5, <1>6 DEF S!Row
<1> QED BY <1>3, <1>4, <1>7

\* How an update ends: refused, or with its columns in the row.
LEMMA Committed ==
  ASSUME SkillsInv, NEW q \in Updates \cup Renames, NEW new \in S!Row, copy[q] # None,
         S!Commit(q, new)
  PROVE  \/ UNCHANGED <<skills, met>> /\ S!Goto(q, "refused")
         \/ \E r \in S!Row :
              /\ skills[of[q]] \in S!Row /\ skills' = [skills EXCEPT ![of[q]] = r]
              /\ S!Goto(q, "done") /\ met' = (met \/ skills[of[q]] # copy[q])
              /\ r.name = IF new.name = copy[q].name THEN skills[of[q]].name ELSE new.name
              /\ r.key = IF new.key = copy[q].key THEN skills[of[q]].key ELSE new.key
<1> DEFINE s == of[q]
           m == [c \in DOMAIN new |-> IF new[c] = copy[q][c] THEN skills[s][c] ELSE new[c]]
<1>1. q \in S!Reqs /\ copy[q] \in S!Row /\ s \in Creates
  BY KindsOfSkillRequest DEF SkillsInv, SkillsType, KeysTell
<1>2. CASE skills[s] = None \/ S!Taken(m.name, s)
  BY <1>2 DEF S!Commit
<1>3. CASE ~(skills[s] = None \/ S!Taken(m.name, s))
  <2>1. skills[s] \in S!Row
    BY <1>1, <1>3 DEF SkillsInv, SkillsType
  <2>2. /\ m \in S!Row
        /\ m.name = IF new.name = copy[q].name THEN skills[s].name ELSE new.name
        /\ m.key = IF new.key = copy[q].key THEN skills[s].key ELSE new.key
    BY <1>1, <2>1, Merged
  <2>3. /\ skills' = [skills EXCEPT ![s] = m] /\ S!Goto(q, "done")
        /\ met' = (met \/ skills[s] # copy[q])
    BY <1>3 DEF S!Commit
  <2> QED BY <2>1, <2>2, <2>3
<1> QED BY <1>2, <1>3

\* How update_skill with a package ends.
LEMMA Replaced ==
  ASSUME SkillsInv, NEW q \in Updates, S!Replace(q)
  PROVE  /\ step[q] = "stored" /\ of[q] \in Creates
         /\ UNCHANGED <<packages, pkg, of, copy, storers>>
         /\ \/ UNCHANGED <<skills, met>> /\ S!Goto(q, "refused")
            \/ \E r \in S!Row :
                 /\ skills[of[q]] # None /\ skills' = [skills EXCEPT ![of[q]] = r]
                 /\ S!Goto(q, "done") /\ met' \in BOOLEAN /\ (met => met')
                 /\ ~met' => r.name = S!NameOf(pkg[q])
                 /\ r.key = pkg[q] \/ (pkg[q] = copy[q].key /\ r.key = skills[of[q]].key)
                 /\ ~met' => r.key = pkg[q]
<1> DEFINE new == [name |-> S!NameOf(pkg[q]), key |-> pkg[q]]
<1>1. /\ step[q] = "stored" /\ S!Commit(q, new)
      /\ UNCHANGED <<packages, pkg, of, copy, storers>>
  BY DEF S!Replace
<1>2. copy[q] # None /\ of[q] \in Creates /\ pkg[q] \in S!Packages
  BY <1>1, KindsOfSkillRequest DEF SkillsInv, SkillsType, KeysTell
<1>3. new \in S!Row /\ new.name = S!NameOf(pkg[q]) /\ new.key = pkg[q]
  BY <1>2, Columns
<1> HIDE DEF new
<1>4. \/ UNCHANGED <<skills, met>> /\ S!Goto(q, "refused")
      \/ \E r \in S!Row :
           /\ skills[of[q]] \in S!Row /\ skills' = [skills EXCEPT ![of[q]] = r]
           /\ S!Goto(q, "done") /\ met' = (met \/ skills[of[q]] # copy[q])
           /\ r.name = IF new.name = copy[q].name THEN skills[of[q]].name ELSE new.name
           /\ r.key = IF new.key = copy[q].key THEN skills[of[q]].key ELSE new.key
  BY <1>1, <1>2, <1>3, Committed
<1> QED BY <1>1, <1>2, <1>3, <1>4, KindsOfSkillRequest DEF SkillsInv, SkillsType

\* How update_skill with a name ends.
LEMMA RenameEnds ==
  ASSUME SkillsInv, NEW q \in Renames, S!Rename(q)
  PROVE  /\ step[q] = "loaded" /\ of[q] \in Creates
         /\ UNCHANGED <<packages, pkg, of, copy, storers>>
         /\ \/ UNCHANGED <<skills, met>> /\ S!Goto(q, "refused")
            \/ \E r \in S!Row :
                 /\ skills[of[q]] # None /\ skills' = [skills EXCEPT ![of[q]] = r]
                 /\ S!Goto(q, "done") /\ met' \in BOOLEAN
                 /\ r.key = skills[of[q]].key
<1> DEFINE new == [copy[q] EXCEPT !.name = S!NameOf(pkg[q])]
<1>1. /\ step[q] = "loaded" /\ S!Commit(q, new)
      /\ UNCHANGED <<packages, pkg, of, copy, storers>>
  BY DEF S!Rename
<1>2. q \in S!Reqs /\ copy[q] # None /\ of[q] \in Creates /\ pkg[q] \in S!Packages
  BY <1>1, KindsOfSkillRequest DEF SkillsInv, SkillsType, KeysTell
<1>3. copy[q] \in S!Row /\ S!NameOf(pkg[q]) \in Names
  BY <1>2, Columns DEF SkillsInv, SkillsType
<1>4. new \in S!Row /\ new.key = copy[q].key
  BY <1>3, Renamed
<1> HIDE DEF new
<1>5. \/ UNCHANGED <<skills, met>> /\ S!Goto(q, "refused")
      \/ \E r \in S!Row :
           /\ skills[of[q]] \in S!Row /\ skills' = [skills EXCEPT ![of[q]] = r]
           /\ S!Goto(q, "done") /\ met' = (met \/ skills[of[q]] # copy[q])
           /\ r.name = IF new.name = copy[q].name THEN skills[of[q]].name ELSE new.name
           /\ r.key = IF new.key = copy[q].key THEN skills[of[q]].key ELSE new.key
  BY <1>1, <1>2, <1>4, Committed
<1> QED BY <1>1, <1>2, <1>4, <1>5, KindsOfSkillRequest DEF SkillsInv, SkillsType

\* Types.
LEMMA SkillsTypeNext == SkillsInv /\ [S!Next]_(S!vars) => SkillsType'
<1> SUFFICES ASSUME SkillsInv, [S!Next]_(S!vars) PROVE SkillsType'
  OBVIOUS
<1> USE KindsOfSkillRequest DEF SkillsType, SkillPlaces, S!Done, S!Goto
<1>1. SkillsType
  BY DEF SkillsInv
<1>2. ASSUME NEW q \in S!Reqs, S!Stop(q) PROVE SkillsType'
  BY <1>1, <1>2 DEF S!Stop
<1>3. ASSUME NEW s \in Creates, S!CheckName(s) PROVE SkillsType'
  BY <1>1, <1>3 DEF S!CheckName
<1>4. ASSUME NEW q \in Creates \cup Updates, S!Store(q) PROVE SkillsType'
  BY <1>1, <1>4 DEF S!Store
<1>5. ASSUME NEW s \in Creates, S!Insert(s) PROVE SkillsType'
  <2>1. [name |-> S!NameOf(pkg[s]), key |-> pkg[s]] \in S!Row
    BY <1>1, Columns
  <2> QED BY <1>1, <1>5, <2>1 DEF S!Insert
<1>6. ASSUME NEW q \in Updates \cup Renames \cup SkillDeletes, NEW s \in Creates, S!Load(q, s)
      PROVE  SkillsType'
  BY <1>1, <1>6 DEF S!Load
<1>7. ASSUME NEW q \in Updates, S!CheckRename(q) PROVE SkillsType'
  BY <1>1, <1>7 DEF S!CheckRename
<1>8. ASSUME NEW q \in Updates, S!Replace(q) PROVE SkillsType'
  BY <1>1, <1>8, Replaced
<1>9. ASSUME NEW q \in Renames, S!Rename(q) PROVE SkillsType'
  BY <1>1, <1>9, RenameEnds
<1>10. ASSUME NEW q \in SkillDeletes, S!Purge(q) \/ S!DeleteRow(q) PROVE SkillsType'
  BY <1>1, <1>10 DEF S!Purge, S!DeleteRow
<1>11. CASE UNCHANGED S!vars
  BY <1>1, <1>11 DEF S!vars
<1> QED BY <1>2, <1>3, <1>4, <1>5, <1>6, <1>7, <1>8, <1>9, <1>10, <1>11 DEF S!Next

\* What a request brings never changes, and a request that is over names for ever the
\* skill that it named.
LEMMA Steady ==
  SkillsInv /\ [S!Next]_(S!vars) =>
    /\ pkg' = pkg /\ storers \subseteq storers'
    /\ \A r \in S!Reqs : step[r] = "done" => step'[r] = "done" /\ of'[r] = of[r]
<1> SUFFICES ASSUME SkillsInv, [S!Next]_(S!vars)
             PROVE  /\ pkg' = pkg /\ storers \subseteq storers'
                    /\ \A r \in S!Reqs : step[r] = "done" => step'[r] = "done" /\ of'[r] = of[r]
  OBVIOUS
<1>1. SkillsType
  BY DEF SkillsInv
<1>2. CASE \E q \in Updates : S!Replace(q)
  BY <1>1, <1>2, Replaced DEF S!Goto, SkillsType
<1>3. CASE \E q \in Renames : S!Rename(q)
  BY <1>1, <1>3, RenameEnds DEF S!Goto, SkillsType
<1>4. CASE \E q \in S!Reqs : S!Stop(q)
  BY <1>1, <1>4 DEF S!Stop, S!Done, S!Goto, SkillsType
<1>5. CASE \E s \in Creates : S!CheckName(s) \/ S!Store(s) \/ S!Insert(s)
  BY <1>1, <1>5 DEF S!CheckName, S!Store, S!Insert, S!Goto, SkillsType
<1>6. CASE \E q \in Updates \cup Renames \cup SkillDeletes, s \in Creates : S!Load(q, s)
  BY <1>1, <1>6 DEF S!Load, S!Goto, SkillsType
<1>7. CASE \E q \in Updates : S!CheckRename(q) \/ S!Store(q)
  BY <1>1, <1>7 DEF S!CheckRename, S!Store, S!Goto, SkillsType
<1>8. CASE \E q \in SkillDeletes : S!Purge(q) \/ S!DeleteRow(q)
  BY <1>1, <1>8 DEF S!Purge, S!DeleteRow, S!Goto, SkillsType
<1>9. CASE UNCHANGED S!vars
  BY <1>9 DEF S!vars
<1> QED BY <1>2, <1>3, <1>4, <1>5, <1>6, <1>7, <1>8, <1>9 DEF S!Next

\* So whose package is under a key, and that two requests share one, stays true.
LEMMA OwnStays ==
  SkillsInv /\ [S!Next]_(S!vars) =>
    /\ \A s \in Creates : Own[s] \subseteq Own'[s]
    /\ S!Shared => S!Shared'
<1> SUFFICES ASSUME SkillsInv, [S!Next]_(S!vars)
             PROVE  /\ \A s \in Creates : Own[s] \subseteq Own'[s]
                    /\ S!Shared => S!Shared'
  OBVIOUS
<1>1. storers \subseteq S!Reqs
  BY KindsOfSkillRequest DEF SkillsInv, SkillsType
<1> QED BY <1>1, Steady DEF Own, S!Shared

\* Unless two requests share a package, it is of one skill, or of one that is to be.
LEMMA OneOwner ==
  ASSUME SkillsType, ~S!Shared
  PROVE  /\ \A s \in Creates, t \in Creates, k \in S!Packages :
              k \in Own[s] /\ k \in Own[t] => s = t
         /\ \A q \in storers, s \in Creates : pkg[q] \in Own[s] => step[q] = "done"
BY KindsOfSkillRequest DEF SkillsType, S!Shared, Own

\* Whose package is under a key.
LEMMA KeysTellNext == SkillsInv /\ [S!Next]_(S!vars) => KeysTell'
<1> SUFFICES ASSUME SkillsInv, [S!Next]_(S!vars) PROVE KeysTell'
  OBVIOUS
<1> USE KindsOfSkillRequest
<1>1. SkillsType /\ KeysTell
  BY DEF SkillsInv
<1>2. /\ \A s \in Creates : Own[s] \subseteq Own'[s]
      /\ S!Shared => S!Shared'
  BY OwnStays
<1> USE DEF SkillPlaces, S!Done, S!Goto
<1>3. ASSUME NEW q \in S!Reqs, S!Stop(q) PROVE KeysTell'
  BY <1>1, <1>2, <1>3 DEF S!Stop, KeysTell, SkillsType
<1>4. ASSUME NEW s \in Creates, S!CheckName(s) PROVE KeysTell'
  BY <1>1, <1>2, <1>4 DEF S!CheckName, KeysTell, SkillsType
<1>5. ASSUME NEW q \in Creates \cup Updates, S!Store(q) PROVE KeysTell'
  BY <1>1, <1>2, <1>5 DEF S!Store, KeysTell, SkillsType
<1>6. ASSUME NEW s \in Creates, S!Insert(s) PROVE KeysTell'
  <2>1. s \in storers /\ UNCHANGED <<storers, pkg>>
    BY <1>1, <1>6 DEF S!Insert, KeysTell
  <2>2. step'[s] = "done" => pkg[s] \in Own'[s]
    BY <2>1 DEF Own
  <2> QED BY <1>1, <1>2, <1>6, <2>2 DEF S!Insert, KeysTell, SkillsType
<1>7. ASSUME NEW q \in Updates \cup Renames \cup SkillDeletes, NEW s \in Creates, S!Load(q, s)
      PROVE  KeysTell'
  BY <1>1, <1>2, <1>7 DEF S!Load, KeysTell, SkillsType
<1>8. ASSUME NEW q \in Updates, S!CheckRename(q) PROVE KeysTell'
  BY <1>1, <1>2, <1>8 DEF S!CheckRename, KeysTell, SkillsType
<1>9. ASSUME NEW q \in Updates, S!Replace(q) PROVE KeysTell'
  <2>1. /\ step[q] = "stored" /\ of[q] \in Creates
        /\ UNCHANGED <<packages, pkg, of, copy, storers>>
    BY <1>9, Replaced
  <2>2. q \in storers
    BY <1>1, <2>1 DEF KeysTell
  <2>3. step'[q] = "done" => pkg[q] \in Own'[of[q]]
    BY <2>1, <2>2 DEF Own
  <2> QED BY <1>1, <1>2, <1>9, <2>3, Replaced DEF KeysTell, SkillsType
<1>10. ASSUME NEW q \in Renames, S!Rename(q) PROVE KeysTell'
  BY <1>1, <1>2, <1>10, RenameEnds DEF KeysTell, SkillsType
<1>11. ASSUME NEW q \in SkillDeletes, S!Purge(q) PROVE KeysTell'
  <2>1. copy[q].key \in Own[of[q]] /\ of[q] \in Creates
    BY <1>1, <1>11 DEF S!Purge, KeysTell
  <2>2. \A x \in S!Reqs : step[x] = "stored" /\ ~S!Shared => pkg[x] # copy[q].key
    BY <1>1, <2>1, OneOwner DEF KeysTell
  <2> QED BY <1>1, <1>2, <1>11, <2>2 DEF S!Purge, KeysTell, SkillsType
<1>12. ASSUME NEW q \in SkillDeletes, S!DeleteRow(q) PROVE KeysTell'
  BY <1>1, <1>2, <1>12 DEF S!DeleteRow, KeysTell, SkillsType
<1>13. CASE UNCHANGED S!vars
  BY <1>1, <1>2, <1>13 DEF S!vars, KeysTell, SkillsType
<1> QED BY <1>3, <1>4, <1>5, <1>6, <1>7, <1>8, <1>9, <1>10, <1>11, <1>12, <1>13 DEF S!Next

\* The package of a skill is there.
LEMMA ReadableNext == SkillsInv /\ [S!Next]_(S!vars) => S!Readable'
<1> SUFFICES ASSUME SkillsInv, [S!Next]_(S!vars) PROVE S!Readable'
  OBVIOUS
<1> USE KindsOfSkillRequest DEF S!Skills, S!Goto
<1>1. SkillsType /\ KeysTell /\ S!Readable
  BY DEF SkillsInv
<1>2. S!Shared => S!Shared'
  BY OwnStays
<1>3. ASSUME NEW q \in S!Reqs, S!Stop(q) PROVE S!Readable'
  BY <1>1, <1>2, <1>3 DEF S!Stop, S!Readable, SkillsType
<1>4. ASSUME NEW s \in Creates, S!CheckName(s) PROVE S!Readable'
  BY <1>1, <1>2, <1>4 DEF S!CheckName, S!Readable, SkillsType
<1>5. ASSUME NEW q \in Creates \cup Updates, S!Store(q) PROVE S!Readable'
  BY <1>1, <1>2, <1>5 DEF S!Store, S!Readable, SkillsType
<1>6. ASSUME NEW s \in Creates, S!Insert(s) PROVE S!Readable'
  BY <1>1, <1>2, <1>6 DEF S!Insert, S!Readable, SkillsType, KeysTell
<1>7. ASSUME NEW q \in Updates \cup Renames \cup SkillDeletes, NEW s \in Creates, S!Load(q, s)
      PROVE  S!Readable'
  BY <1>1, <1>2, <1>7 DEF S!Load, S!Readable, SkillsType
<1>8. ASSUME NEW q \in Updates, S!CheckRename(q) PROVE S!Readable'
  BY <1>1, <1>2, <1>8 DEF S!CheckRename, S!Readable, SkillsType
<1>9. ASSUME NEW q \in Updates, S!Replace(q) PROVE S!Readable'
  <2>1. ~S!Shared' => pkg[q] \in packages /\ pkg[q] # copy[q].key
    BY <1>1, <1>2, <1>9, Replaced, OneOwner DEF KeysTell
  <2> QED BY <1>1, <1>2, <1>9, <2>1, Replaced DEF S!Readable, SkillsType
<1>10. ASSUME NEW q \in Renames, S!Rename(q) PROVE S!Readable'
  BY <1>1, <1>2, <1>10, RenameEnds DEF S!Readable, SkillsType
<1>11. ASSUME NEW q \in SkillDeletes, S!Purge(q) PROVE S!Readable'
  <2>1. copy[q].key \in Own[of[q]] /\ of[q] \in Creates
    BY <1>1, <1>11 DEF S!Purge, KeysTell
  <2>2. \A s \in Creates : skills[s] # None /\ ~S!Shared /\ s # of[q] => skills[s].key # copy[q].key
    BY <1>1, <2>1, OneOwner, Columns DEF KeysTell, SkillsType
  <2> QED BY <1>1, <1>2, <1>11, <2>2 DEF S!Purge, S!Readable, SkillsType
<1>12. ASSUME NEW q \in SkillDeletes, S!DeleteRow(q) PROVE S!Readable'
  BY <1>1, <1>2, <1>12 DEF S!DeleteRow, S!Readable, SkillsType
<1>13. CASE UNCHANGED S!vars
  BY <1>1, <1>2, <1>13 DEF S!vars, S!Readable, SkillsType
<1> QED BY <1>3, <1>4, <1>5, <1>6, <1>7, <1>8, <1>9, <1>10, <1>11, <1>12, <1>13 DEF S!Next

\* The package of a skill is under its name.
LEMMA NameNext == SkillsInv /\ [S!Next]_(S!vars) => S!NameMatchesPackage'
<1> SUFFICES ASSUME SkillsInv, [S!Next]_(S!vars) PROVE S!NameMatchesPackage'
  OBVIOUS
<1> USE KindsOfSkillRequest DEF S!Skills, S!Goto, S!NameMatchesPackage
<1>1. SkillsType /\ S!NameMatchesPackage
  BY DEF SkillsInv
<1>2. \A q \in Renames : step[q] = "done" => step'[q] = "done"
  BY Steady
<1>3. CASE skills' = skills /\ (met => met')
  BY <1>1, <1>2, <1>3
<1>4. CASE \E q \in S!Reqs : S!Stop(q)
  BY <1>3, <1>4 DEF S!Stop
<1>5. CASE \E s \in Creates : S!CheckName(s) \/ S!Store(s)
  BY <1>3, <1>5 DEF S!CheckName, S!Store
<1>6. ASSUME NEW s \in Creates, S!Insert(s) PROVE S!NameMatchesPackage'
  <2>1. CASE S!Goto(s, "refused") /\ UNCHANGED skills
    BY <1>3, <1>6, <2>1 DEF S!Insert
  <2>2. CASE skills' = [skills EXCEPT ![s] = [name |-> S!NameOf(pkg[s]), key |-> pkg[s]]]
    <3>1. skills'[s].name = S!NameOf(skills'[s].key) /\ \A t \in Creates \ {s} : skills'[t] = skills[t]
      BY <1>1, <2>2 DEF SkillsType
    <3> QED BY <1>1, <1>2, <1>6, <3>1 DEF S!Insert
  <2> QED BY <1>6, <2>1, <2>2 DEF S!Insert
<1>7. CASE \E q \in Updates \cup Renames \cup SkillDeletes, s \in Creates : S!Load(q, s)
  BY <1>3, <1>7 DEF S!Load
<1>8. CASE \E q \in Updates : S!CheckRename(q) \/ S!Store(q)
  BY <1>3, <1>8 DEF S!CheckRename, S!Store
<1>9. ASSUME NEW q \in Updates, S!Replace(q) PROVE S!NameMatchesPackage'
  BY <1>1, <1>2, <1>9, Replaced DEF SkillsType
<1>10. ASSUME NEW q \in Renames, S!Rename(q) PROVE S!NameMatchesPackage'
  <2>1. CASE UNCHANGED <<skills, met>>
    BY <1>3, <2>1
  <2>2. CASE S!Goto(q, "done")
    BY <1>1, <2>2 DEF SkillsType
  <2> QED BY <1>10, <2>1, <2>2, RenameEnds
<1>11. CASE \E q \in SkillDeletes : S!Purge(q)
  BY <1>3, <1>11 DEF S!Purge
<1>12. ASSUME NEW q \in SkillDeletes, S!DeleteRow(q) PROVE S!NameMatchesPackage'
  BY <1>1, <1>2, <1>12 DEF S!DeleteRow, SkillsType
<1>13. CASE UNCHANGED S!vars
  BY <1>3, <1>13 DEF S!vars
<1> QED BY <1>4, <1>5, <1>6, <1>7, <1>8, <1>9, <1>10, <1>11, <1>12, <1>13 DEF S!Next

\* A turn can load each skill, for any number of requests and packages: the package is
\* there, unless it was shared or is being deleted, and under the name of the skill,
\* unless that was changed without it (skills.py).
THEOREM SkillsLoad == S!Spec => []Loadable
<1>1. SkillsInv /\ [S!Next]_(S!vars) => SkillsInv'
  BY SkillsTypeNext, KeysTellNext, ReadableNext, NameNext DEF SkillsInv
<1>2. SkillsInv => Loadable
  BY DEF SkillsInv, Loadable, S!Loadable
<1> QED BY SkillsInit, <1>1, <1>2, PTL DEF S!Spec

(***************************************************************************)
(* Environments.                                                           *)
(***************************************************************************)

Statuses == {"building", "ready", "failed"}
Builds   == [recipe : Recipes, status : Statuses]

\* What the row may be, and what a request may have read: if it names a build, one that
\* was started.
IsRow(r) ==
  /\ DOMAIN r = {"recipe", "state", "image", "build"}
  /\ r.build \in {E!Null, E!Cleared} \cup 1..Len(builds)

Typed ==
  /\ IsRow(environment) /\ builds \in Seq(Builds)
  /\ DOMAIN stage = E!Reqs /\ DOMAIN read = E!Reqs /\ DOMAIN answer = E!Reqs
  /\ overtaken \in BOOLEAN
  /\ \A q \in E!Reqs : IsRow(read[q])

\* An answer that is being written is the provider's last word on the build.
Answered ==
  \A q \in E!Reqs : stage[q] = "saving" =>
    answer[q] \in {"ready", "failed"} /\ answer[q] = E!StatusOf(read[q].build)

\* As long as nothing has crossed, an edit works on the row as it is, and any other
\* request on the build that it names.
Current ==
  ~overtaken => \A q \in E!Reqs : E!Works(q) =>
    /\ read[q].build = environment.build
    /\ q \in Edits => read[q] = environment

\* The inductive invariant.
EInv == Typed /\ Answered /\ Current /\ E!BuildTells

LEMMA InitEnv == E!RecipeAssumption /\ E!Init => EInv
<1> SUFFICES ASSUME E!RecipeAssumption, E!Init PROVE EInv
  OBVIOUS
<1>1. \/ \E r \in Recipes : environment = E!Building(r, 1) /\ builds = <<E!NewBuild(r)>>
      \/ \E m \in Machines : environment = E!OnBase(m, E!Null) /\ builds = << >>
  BY DEF E!Init
<1>2. IsRow(environment) /\ builds \in Seq(Builds) /\ E!BuildTells
  <2>1. CASE \E r \in Recipes : environment = E!Building(r, 1) /\ builds = <<E!NewBuild(r)>>
    <3>1. PICK r \in Recipes : environment = E!Building(r, 1) /\ builds = <<E!NewBuild(r)>>
      BY <2>1
    <3>2. E!NewBuild(r) \in Builds
      BY DEF E!NewBuild, Builds, Statuses
    <3>3. /\ builds \in Seq(Builds) /\ Len(builds) = 1
          /\ builds[1].recipe = r /\ builds[1].status = "building"
      BY <3>1, <3>2 DEF E!NewBuild
    <3> QED
      BY <3>1, <3>3 DEF E!Building, IsRow, E!RecipeAssumption, E!BuildTells, E!BuildOfRecipe,
                        E!ImageOfRecipe, E!ReadyMeansBuilt, E!StatusOf, E!Null, E!Cleared
  <2>2. CASE \E m \in Machines : environment = E!OnBase(m, E!Null) /\ builds = << >>
    BY <2>2 DEF E!OnBase, IsRow, E!RecipeAssumption, E!BuildTells, E!BuildOfRecipe,
                E!ImageOfRecipe, E!ReadyMeansBuilt, E!StatusOf, E!Null, E!Cleared
  <2> QED
    BY <1>1, <2>1, <2>2
<1>3. IsRow(E!Plain)
  BY DEF IsRow, E!Plain, E!OnBase, E!Null
<1>4. Typed
  BY <1>2, <1>3 DEF E!Init, Typed
<1>5. Answered /\ Current
  BY DEF E!Init, Answered, Current, E!Works
<1> QED
  BY <1>2, <1>4, <1>5 DEF EInv

\* A request moves to where it does not write what it read, and the row and the
\* builds stay.
LEMMA RequestMoves ==
  ASSUME EInv, NEW q \in E!Reqs, UNCHANGED <<environment, builds>>,
         DOMAIN stage' = E!Reqs, DOMAIN read' = E!Reqs, DOMAIN answer' = E!Reqs,
         overtaken' \in BOOLEAN, overtaken => overtaken',
         \A p \in E!Reqs \ {q} : stage'[p] = stage[p] /\ read'[p] = read[p] /\ answer'[p] = answer[p],
         read'[q] \in {read[q], environment, E!Plain},
         stage'[q] # "saving",
         E!Works(q)' => read'[q] = environment \/ (E!Works(q) /\ read'[q] = read[q])
  PROVE  EInv'
<1>1. IsRow(E!Plain)
  BY DEF IsRow, E!Plain, E!OnBase, E!Null, EInv, Typed
<1>2. Typed'
  BY <1>1 DEF EInv, Typed, IsRow
<1>3. Answered'
  BY DEF EInv, Answered, E!StatusOf
<1>4. Current'
  BY DEF EInv, Current, E!Works
<1>5. E!BuildTells'
  BY DEF EInv, E!BuildTells, E!BuildOfRecipe, E!ImageOfRecipe, E!ReadyMeansBuilt, E!StatusOf
<1> QED
  BY <1>2, <1>3, <1>4, <1>5 DEF EInv

LEMMA FetchInv == ASSUME EInv, NEW q \in E!Reqs, E!Fetch(q) PROVE EInv'
  BY RequestMoves DEF E!Fetch, E!Goto, EInv, Typed, E!Works

LEMMA LeaveInv ==
  ASSUME EInv, NEW q \in E!Reqs, NEW to, to \notin {"asking", "saving", "fresh"},
         \/ E!Leave(q, to)
         \/ E!Goto(q, to) /\ UNCHANGED <<read, answer>>,
         UNCHANGED <<environment, builds>>, overtaken' \in BOOLEAN, overtaken => overtaken'
  PROVE  EInv'
  BY RequestMoves DEF E!Leave, E!Goto, EInv, Typed, E!Works

LEMMA BuildEndsInv ==
  ASSUME EInv, NEW n \in DOMAIN builds, NEW how \in {"ready", "failed"}, E!BuildEnds(n, how)
  PROVE  EInv'
<1>1. /\ builds[n].status = "building" /\ n \in 1..Len(builds)
      /\ builds' = [builds EXCEPT ![n].status = how]
      /\ UNCHANGED <<environment, stage, read, answer, overtaken>>
  BY DEF E!BuildEnds, EInv, Typed
<1>2. /\ builds' \in Seq(Builds) /\ Len(builds') = Len(builds)
      /\ \A m \in 1..Len(builds) : builds'[m].recipe = builds[m].recipe
      /\ \A m \in 1..Len(builds) : m # n => builds'[m] = builds[m]
      /\ builds'[n].status = how
  <2>1. builds[n] \in Builds /\ how \in Statuses
    BY <1>1 DEF EInv, Typed, Statuses
  <2>2. PICK b \in Builds :
          b.recipe = builds[n].recipe /\ b.status = how /\ builds' = [builds EXCEPT ![n] = b]
    BY <1>1, <2>1 DEF Builds
  <2> QED
    BY <1>1, <2>2 DEF EInv, Typed
<1>3. Typed'
  BY <1>1, <1>2 DEF EInv, Typed, IsRow
<1>4. Answered'
  BY <1>1, <1>2 DEF EInv, Answered, E!StatusOf, Typed, IsRow
<1>5. Current'
  BY <1>1 DEF EInv, Current, E!Works
<1>6. E!BuildTells'
  BY <1>1, <1>2 DEF EInv, E!BuildTells, E!BuildOfRecipe, E!ImageOfRecipe, E!ReadyMeansBuilt, E!StatusOf, Typed, IsRow
<1> QED
  BY <1>3, <1>4, <1>5, <1>6 DEF EInv

LEMMA AskInv == ASSUME EInv, NEW q \in E!Reqs, E!Ask(q) PROVE EInv'
<1>1. /\ stage[q] = "asking" /\ UNCHANGED <<environment, builds, read, overtaken>>
      /\ DOMAIN stage' = E!Reqs /\ DOMAIN answer' = E!Reqs
      /\ answer'[q] = E!StatusOf(read[q].build)
      /\ stage'[q] = IF answer'[q] = "building" THEN "fresh" ELSE "saving"
      /\ \A p \in E!Reqs \ {q} : stage'[p] = stage[p] /\ answer'[p] = answer[p]
  BY DEF E!Ask, E!Goto, EInv, Typed
<1>2. answer'[q] \in Statuses
  <2>1. read[q].build \in {E!Null, E!Cleared} \cup 1..Len(builds) /\ builds \in Seq(Builds)
    BY DEF EInv, Typed, IsRow
  <2>2. read[q].build \notin {E!Null, E!Cleared} => builds[read[q].build] \in Builds
    BY <2>1
  <2> QED
    BY <1>1, <2>2 DEF E!StatusOf, Builds, Statuses
<1>3. Typed'
  BY <1>1 DEF EInv, Typed, IsRow
<1>4. Answered'
  BY <1>1, <1>2 DEF EInv, Answered, E!StatusOf, Statuses
<1>5. Current'
  BY <1>1 DEF EInv, Current, E!Works
<1>6. E!BuildTells'
  BY <1>1 DEF EInv, E!BuildTells, E!BuildOfRecipe, E!ImageOfRecipe, E!ReadyMeansBuilt, E!StatusOf
<1> QED
  BY <1>3, <1>4, <1>5, <1>6 DEF EInv

LEMMA SaveInv == ASSUME EInv, NEW q \in E!Reqs, E!Save(q) PROVE EInv'
<1>1. CASE gone
  BY <1>1, LeaveInv DEF E!Save, E!Cross, EInv, Typed
<1>2. CASE ~gone
  <2>1. /\ stage[q] = "saving" /\ UNCHANGED <<builds, answer>>
        /\ environment' = [environment EXCEPT !.state = answer[q]]
        /\ read' = [read EXCEPT ![q].state = answer[q]]
        /\ DOMAIN stage' = E!Reqs /\ stage'[q] = "fresh" /\ \A p \in E!Reqs \ {q} : stage'[p] = stage[p]
        /\ E!Cross(q, Edits)
    BY <1>2 DEF E!Save, E!Goto, EInv, Typed
  <2>2. /\ IsRow(environment) /\ DOMAIN environment' = DOMAIN environment /\ environment'.state = answer[q]
        /\ environment'.build = environment.build /\ environment'.recipe = environment.recipe
        /\ environment'.image = environment.image
    BY <2>1 DEF EInv, Typed, IsRow
  <2>3. /\ DOMAIN read' = E!Reqs /\ \A p \in E!Reqs \ {q} : read'[p] = read[p]
        /\ IsRow(read[q]) /\ DOMAIN read'[q] = DOMAIN read[q] /\ read'[q].state = answer[q]
        /\ read'[q].build = read[q].build /\ read'[q].recipe = read[q].recipe
    BY <2>1 DEF EInv, Typed, IsRow
  <2>4. Typed'
    BY <2>1, <2>2, <2>3 DEF EInv, Typed, IsRow, E!Cross
  <2>5. Answered'
    BY <2>1, <2>3 DEF EInv, Answered, E!StatusOf
  <2>6. Current'
    <3>1. SUFFICES ASSUME ~overtaken', NEW p \in E!Reqs, E!Works(p)'
                   PROVE  /\ read'[p].build = environment'.build
                          /\ p \in Edits => read'[p] = environment'
      BY DEF Current
    <3>2. ~overtaken /\ (environment' # environment => \A x \in Edits \ {q} : ~E!Works(x))
      BY <2>1, <3>1 DEF E!Cross
    <3>3. E!Works(p)
      BY <2>1, <3>1 DEF E!Works
    <3>4. CASE p = q
      BY <2>1, <2>2, <2>3, <3>2, <3>3, <3>4 DEF EInv, Current, Typed
    <3>5. CASE p # q
      BY <2>2, <2>3, <3>2, <3>3, <3>5 DEF EInv, Current
    <3> QED
      BY <3>4, <3>5
  <2>7. ~overtaken' => ~overtaken /\ read[q].build = environment.build
    BY <2>1 DEF E!Cross, EInv, Current, E!Works
  <2>8. E!BuildTells'
    BY <2>1, <2>2, <2>7
    DEF EInv, E!BuildTells, E!BuildOfRecipe, E!ImageOfRecipe, E!ReadyMeansBuilt, E!StatusOf, Answered
  <2> QED
    BY <2>4, <2>5, <2>6, <2>8 DEF EInv
<1> QED
  BY <1>1, <1>2

LEMMA EditInv ==
  ASSUME E!RecipeAssumption, EInv, NEW q \in Edits, NEW r \in Recipes \cup Machines, E!Edit(q, r)
  PROVE  EInv'
<1> DEFINE n == Len(builds) + 1
<1>1. /\ q \in E!Reqs /\ stage[q] = "fresh" /\ E!Cross(q, E!Reqs) /\ E!Works(q)
      /\ IsRow(environment) /\ IsRow(read[q]) /\ IsRow(E!Plain) /\ Len(builds) \in Nat
      /\ overtaken' \in BOOLEAN /\ (overtaken => overtaken')
  BY DEF E!Edit, E!Reqs, EInv, Typed, E!Cross, E!Works, IsRow, E!Plain, E!OnBase, E!Null, E!Cleared
<1>2. CASE gone \/ r = read[q].recipe
  BY <1>1, <1>2, LeaveInv DEF E!Edit
<1>3. CASE ~gone /\ r # read[q].recipe
  <2>1. /\ DOMAIN stage' = E!Reqs /\ DOMAIN read' = E!Reqs /\ DOMAIN answer' = E!Reqs
        /\ stage'[q] = "done" /\ read'[q] = E!Plain
        /\ \A p \in E!Reqs \ {q} : stage'[p] = stage[p] /\ read'[p] = read[p] /\ answer'[p] = answer[p]
    BY <1>1, <1>3 DEF E!Edit, E!Leave, E!Goto, EInv, Typed
  <2>2. /\ environment'.recipe = r /\ DOMAIN environment' = {"recipe", "state", "image", "build"}
        /\ \/ /\ r \in Machines /\ environment'.build \in {environment.build, E!Cleared}
              /\ ~overtaken => environment' = E!OnBase(r, E!Cleared)
              /\ UNCHANGED builds
           \/ /\ r \in Recipes /\ environment'.build = n
              /\ ~overtaken => environment' = E!Building(r, n)
              /\ builds' = Append(builds, E!NewBuild(r))
    <3>1. r # read[q].recipe /\ (~overtaken => read[q] = environment)
      BY <1>1, <1>3 DEF EInv, Current
    <3>2. CASE r \in Machines
      <4>1. E!Flush(read[q], E!OnBase(r, E!Cleared)) /\ UNCHANGED builds
        BY <1>3, <3>2 DEF E!Edit
      <4> QED
        BY <1>1, <3>1, <3>2, <4>1 DEF E!Flush, E!OnBase, IsRow
    <3>3. CASE r \in Recipes
      <4>1. E!Flush(read[q], E!Building(r, n)) /\ builds' = Append(builds, E!NewBuild(r))
        BY <1>3, <3>3 DEF E!Edit, E!RecipeAssumption
      <4>2. n # read[q].build
        BY <1>1 DEF IsRow, E!Null, E!Cleared
      <4> QED
        BY <1>1, <3>1, <3>3, <4>1, <4>2 DEF E!Flush, E!Building, IsRow
    <3> QED
      BY <3>2, <3>3
  <2>3. /\ builds' \in Seq(Builds) /\ Len(builds') \in {Len(builds), n}
        /\ \A m \in 1..Len(builds) : builds'[m] = builds[m]
        /\ r \in Recipes => /\ Len(builds') = n /\ builds'[n].recipe = r
                            /\ builds'[n].status = "building"
    <3>1. builds \in Seq(Builds) /\ (r \in Recipes => E!NewBuild(r) \in Builds)
      BY DEF EInv, Typed, Builds, Statuses, E!NewBuild
    <3> QED
      BY <2>2, <3>1 DEF E!RecipeAssumption, E!NewBuild
  <2>4. Typed'
    <3>1. IsRow(environment)'
      BY <1>1, <2>2, <2>3 DEF IsRow, E!RecipeAssumption
    <3>2. \A p \in E!Reqs : IsRow(read[p])'
      <4>1. SUFFICES ASSUME NEW p \in E!Reqs PROVE IsRow(read[p])'
        OBVIOUS
      <4>2. CASE p = q
        BY <1>1, <2>1, <4>2 DEF IsRow, E!Plain, E!OnBase
      <4>3. CASE p # q
        BY <1>1, <2>1, <2>3, <4>3 DEF EInv, Typed, IsRow
      <4> QED
        BY <4>2, <4>3
    <3> QED
      BY <1>1, <2>1, <2>3, <3>1, <3>2 DEF Typed
  <2>5. Answered'
    <3>1. \A p \in E!Reqs \ {q} : read[p].build \in {E!Null, E!Cleared} \cup 1..Len(builds)
      BY DEF EInv, Typed, IsRow
    <3>2. \A p \in E!Reqs \ {q} : E!StatusOf(read[p].build)' = E!StatusOf(read[p].build)
      BY <2>1, <2>3, <3>1 DEF E!StatusOf
    <3> QED
      BY <2>1, <3>2 DEF EInv, Answered
  <2>6. Current'
    <3>1. SUFFICES ASSUME ~overtaken', NEW p \in E!Reqs, E!Works(p)' PROVE FALSE
      BY DEF Current
    <3>2. p # q /\ E!Works(p)
      BY <2>1, <3>1 DEF E!Works
    <3>3. environment' = environment
      BY <1>1, <3>1, <3>2 DEF E!Cross
    <3>4. read[q].recipe = environment.recipe
      BY <1>1, <3>1 DEF EInv, Current
    <3> QED
      BY <1>3, <2>2, <3>3, <3>4
  <2>7. E!BuildOfRecipe'
    BY <1>1, <2>2, <2>3 DEF E!BuildOfRecipe, E!RecipeAssumption
  <2>8. E!ImageOfRecipe'
    BY <1>1, <2>2 DEF E!ImageOfRecipe, E!RecipeAssumption, E!OnBase, E!Building, E!Null, E!Cleared
  <2>9. E!ReadyMeansBuilt'
    BY <1>1, <2>2 DEF E!ReadyMeansBuilt, E!StatusOf, E!OnBase, E!Building
  <2> QED
    BY <2>4, <2>5, <2>6, <2>7, <2>8, <2>9 DEF EInv, E!BuildTells
<1> QED
  BY <1>2, <1>3

\* A request that has gone past its refresh leaves, or one in a session goes on.
LEMMA RestInv ==
  ASSUME EInv, NEW q \in E!Reqs,
         \/ E!EditFails(q) \/ E!Open(q) \/ E!DropSession(q) \/ \E stands \in BOOLEAN : E!OpenEnds(q, stands)
         \/ E!Archive(q) \/ E!CountSessions(q) \/ E!Delete(q)
  PROVE  EInv'
<1>1. overtaken' \in BOOLEAN /\ (overtaken => overtaken') /\ UNCHANGED <<environment, builds>>
  BY DEF E!EditFails, E!Open, E!DropSession, E!OpenEnds, E!Archive, E!CountSessions, E!Delete, EInv, Typed
<1>2. CASE \E to \in {"refused", "done", "starting", "deleting"} : E!Leave(q, to)
  BY <1>1, <1>2, LeaveInv
<1>3. CASE \E to \in {"refused", "done", "open", "dropped"} :
             E!Goto(q, to) /\ UNCHANGED <<read, answer>>
  BY <1>1, <1>3, LeaveInv
<1> QED
  BY <1>2, <1>3 DEF E!EditFails, E!Open, E!DropSession, E!OpenEnds, E!Archive, E!CountSessions, E!Delete

LEMMA EnvInv == E!RecipeAssumption /\ EInv /\ [E!Next]_(E!vars) => EInv'
<1> SUFFICES ASSUME E!RecipeAssumption, EInv, [E!Next]_(E!vars) PROVE EInv'
  OBVIOUS
<1>1. ASSUME NEW n \in DOMAIN builds, NEW how \in {"ready", "failed"}, E!BuildEnds(n, how)
      PROVE  EInv'
  BY <1>1, BuildEndsInv
<1>2. ASSUME NEW q \in E!Reqs, E!Fetch(q) \/ E!Ask(q) \/ E!Save(q) PROVE EInv'
  BY <1>2, FetchInv, AskInv, SaveInv
<1>3. ASSUME NEW q \in Edits, NEW r \in Recipes \cup Machines, E!Edit(q, r) PROVE EInv'
  BY <1>3, EditInv
<1>4. CASE \/ \E q \in Edits : E!EditFails(q)
           \/ \E q \in Opens : E!Open(q) \/ E!DropSession(q) \/ \E stands \in BOOLEAN : E!OpenEnds(q, stands)
           \/ \E q \in EnvArchives : E!Archive(q)
           \/ \E q \in EnvDeletes : E!CountSessions(q) \/ E!Delete(q)
  BY <1>4, RestInv DEF E!Reqs
<1>5. CASE UNCHANGED E!vars
  BY <1>5 DEF E!vars, EInv, Typed, IsRow, Answered, Current, E!Works, E!BuildTells, E!BuildOfRecipe,
              E!ImageOfRecipe, E!ReadyMeansBuilt, E!StatusOf
<1> QED
  BY <1>1, <1>2, <1>3, <1>4, <1>5 DEF E!Next

\* However edits, refreshes and builds interleave, a recipe with steps names a build of
\* its own; and as long as no edit has crossed another request the image is the recipe's
\* and ready means built.
THEOREM RecipeBuilt == ASSUME E!RecipeAssumption PROVE E!Spec => []BuildTells
<1>1. EInv => BuildTells
  BY DEF EInv, BuildTells
<1> QED
  BY InitEnv, EnvInv, <1>1, PTL DEF E!Spec

\* A session holds its environment from the moment it is begun.
LEMMA HeldStep ==
  ASSUME EInv, E!SessionHasEnvironment, [E!Next]_(E!vars)
  PROVE  E!SessionHasEnvironment'
<1> SUFFICES ASSUME NEW o \in Opens, stage'[o] \in {"starting", "open"}, gone' PROVE FALSE
  BY DEF E!SessionHasEnvironment
<1>1. stage[o] \in {"starting", "open"} => ~gone
  BY DEF E!SessionHasEnvironment
<1>2. DOMAIN stage = E!Reqs /\ o \in E!Reqs
  BY DEF EInv, Typed, E!Reqs
<1>3. ASSUME NEW q \in E!Reqs, E!Fetch(q) \/ E!Ask(q) \/ E!Save(q) PROVE FALSE
  BY <1>1, <1>2, <1>3 DEF E!Fetch, E!Ask, E!Save, E!Leave, E!Goto
<1>4. ASSUME NEW q \in Edits,
             E!EditFails(q) \/ \E r \in Recipes \cup Machines : E!Edit(q, r)
      PROVE  FALSE
  BY <1>1, <1>2, <1>4 DEF E!EditFails, E!Edit, E!Leave, E!Goto, E!Reqs
<1>5. ASSUME NEW q \in Opens,
             E!Open(q) \/ E!DropSession(q) \/ \E stands \in BOOLEAN : E!OpenEnds(q, stands)
      PROVE  FALSE
  BY <1>1, <1>2, <1>5 DEF E!Open, E!DropSession, E!OpenEnds, E!Leave, E!Goto, E!Reqs
<1>6. ASSUME NEW q \in EnvArchives, E!Archive(q) PROVE FALSE
  BY <1>1, <1>2, <1>6 DEF E!Archive, E!Leave, E!Goto, E!Reqs
<1>7. ASSUME NEW q \in EnvDeletes, E!CountSessions(q) \/ E!Delete(q) PROVE FALSE
  BY <1>1, <1>2, <1>7 DEF E!CountSessions, E!Delete, E!Leave, E!Goto, E!Reqs
<1> QED
  BY <1>1, <1>3, <1>4, <1>5, <1>6, <1>7 DEF E!Next, E!BuildEnds, E!vars

\* No session is being created in, or left in, an environment that was deleted.
THEOREM EnvironmentStays == ASSUME E!RecipeAssumption PROVE E!Spec => []SessionHasEnvironment
<1>1. E!Init => E!SessionHasEnvironment
  BY DEF E!Init, E!SessionHasEnvironment
<1> QED
  BY InitEnv, EnvInv, HeldStep, <1>1, PTL DEF E!Spec, SessionHasEnvironment

(***************************************************************************)
(* Agents.                                                                 *)
(***************************************************************************)

\* A handle, field by field.
IsHandle(h) ==
  /\ DOMAIN h = {"active", "name", "archived"}
  /\ h.active \in 1..Len(versions) /\ h.name = versions[h.active]["name"]
  /\ h.archived \in BOOLEAN

AgentTyped ==
  /\ versions \in Seq(A!Config) /\ by \in Seq(AgentEdits \cup {None})
  /\ Len(by) = Len(versions)
  /\ DOMAIN turn = A!Reqs /\ DOMAIN seen = A!Reqs
  /\ DOMAIN sent = AgentEdits
  /\ \A e \in AgentEdits : \A f \in DOMAIN sent[e] : f \in A!Fields /\ sent[e][f] \in Values
  /\ told \in [AgentEdits -> Nat]

\* What a request read was true once, and names a version that stays.
Copied == \A q \in A!Reqs : turn[q] = "loaded" => IsHandle(seen[q])

\* Edits that are over have a version, and versions are of edits that are over.
Settled ==
  /\ \A n \in 2..Len(versions) : by[n] \in AgentEdits /\ turn[by[n]] = "done"
  /\ \A e \in AgentEdits : turn[e] = "done" => told[e] \in 1..Len(versions)

\* The inductive invariant.
AInv == AgentTyped /\ IsHandle(handle) /\ Copied /\ Settled /\ A!EditsFollow

LEMMA FirstInv == A!AgentAssumption /\ A!Init => AInv
<1> SUFFICES ASSUME A!AgentAssumption, A!Init PROVE AInv
  OBVIOUS
<1>1. PICK c \in A!Config : A!FirstVersion(c)
  BY DEF A!Init
<1>2. versions \in Seq(A!Config) /\ Len(versions) = 1 /\ versions[1] = c
  BY <1>1 DEF A!FirstVersion
<1>3. by \in Seq(AgentEdits \cup {None}) /\ Len(by) = 1
  BY DEF A!Init
<1>4. DOMAIN sent = AgentEdits /\ \A e \in AgentEdits : DOMAIN sent[e] = {}
  BY DEF A!Init
<1>5. AgentTyped
  BY <1>2, <1>3, <1>4 DEF A!Init, AgentTyped
<1>6. IsHandle(handle)
  BY <1>1, <1>2 DEF A!FirstVersion, IsHandle
<1>7. Copied /\ Settled
  BY <1>2 DEF A!Init, Copied, Settled, A!Reqs
<1>8. A!EditsFollow
  BY <1>1, <1>2 DEF A!Init, A!FirstVersion, A!EditsFollow, A!NoEditLost, A!HandleIsNewest, A!Reqs
<1> QED
  BY <1>5, <1>6, <1>7, <1>8 DEF AInv

\* A change of a request's place and copy only, by one that has not yet a version.
LEMMA Moves ==
  ASSUME AInv, NEW q \in A!Reqs, NEW to, turn[q] # "done", q \in AgentEdits => to # "done",
         A!Goto(q, to), UNCHANGED <<handle, versions, by, told>>,
         DOMAIN sent' = AgentEdits,
         \A e \in AgentEdits : \A f \in DOMAIN sent'[e] : f \in A!Fields /\ sent'[e][f] \in Values,
         \A e \in AgentEdits : turn[e] = "done" => sent'[e] = sent[e],
         DOMAIN seen' = A!Reqs,
         \A p \in A!Reqs : turn'[p] = "loaded" => seen'[p] \in {seen[p], handle},
         to = "loaded" => seen'[q] = handle,
         \A p \in A!Reqs \ {q} : seen'[p] = seen[p]
  PROVE  AInv'
<1>1. /\ DOMAIN turn' = A!Reqs /\ turn'[q] = to
      /\ \A p \in A!Reqs \ {q} : turn'[p] = turn[p]
  BY DEF A!Goto, AInv, AgentTyped
<1>2. AgentTyped'
  BY <1>1 DEF AInv, AgentTyped
<1>3. IsHandle(handle)'
  BY DEF AInv, IsHandle
<1>4. Copied'
  BY <1>1 DEF AInv, IsHandle, Copied
<1>5. Settled'
  BY <1>1 DEF AInv, Settled, A!Reqs
<1>6. A!NoEditLost'
  BY <1>1 DEF AInv, A!EditsFollow, A!NoEditLost, Settled, A!Reqs
<1>7. A!HandleIsNewest'
  BY DEF AInv, A!EditsFollow, A!HandleIsNewest
<1> QED
  BY <1>2, <1>3, <1>4, <1>5, <1>6, <1>7 DEF AInv, A!EditsFollow

LEMMA LoadInv ==
  ASSUME AInv, NEW q \in A!Reqs, A!Load(q),
         \/ UNCHANGED sent
         \/ q \in AgentEdits /\ \E change \in A!Changes : sent' = [sent EXCEPT ![q] = change]
  PROVE  AInv'
<1>1. turn[q] = "new" /\ UNCHANGED <<handle, versions, by, told>>
  BY DEF A!Load
<1>2. /\ DOMAIN sent' = AgentEdits
      /\ \A e \in AgentEdits : \A f \in DOMAIN sent'[e] : f \in A!Fields /\ sent'[e][f] \in Values
      /\ \A e \in AgentEdits : e # q => sent'[e] = sent[e]
  <2>1. CASE UNCHANGED sent
    BY <2>1 DEF AInv, AgentTyped
  <2>2. ASSUME q \in AgentEdits, NEW change \in A!Changes, sent' = [sent EXCEPT ![q] = change]
        PROVE  <1>2!:
    <3>1. PICK s \in SUBSET A!Fields : change \in [s -> Values]
      BY DEF A!Changes
    <3> QED
      BY <2>2, <3>1 DEF AInv, AgentTyped
  <2> QED
    BY <2>1, <2>2
<1>3. CASE A!Goto(q, "refused") /\ UNCHANGED seen
  BY <1>1, <1>2, <1>3, Moves DEF AInv, AgentTyped, A!Goto
<1>4. CASE A!Goto(q, "loaded") /\ seen' = [seen EXCEPT ![q] = handle]
  BY <1>1, <1>2, <1>4, Moves DEF AInv, AgentTyped, A!Goto
<1> QED
  BY <1>3, <1>4 DEF A!Load

\* A number that is free is the next one, and the version goes behind all others.
LEMMA NewVersion ==
  ASSUME AInv, NEW e \in AgentEdits, IsHandle(seen[e]), A!Append_(e), ~A!Taken(seen[e].active + 1)
  PROVE  /\ seen[e].active = Len(versions) /\ handle.active = seen[e].active
         /\ versions' = versions \o <<A!Merged(e)>> /\ by' = by \o <<e>>
<1>1. versions \in Seq(A!Config) /\ handle.active = Len(versions)
  BY DEF AInv, A!EditsFollow, A!HandleIsNewest, AgentTyped
<1>2. seen[e].active \in 1..Len(versions) /\ seen[e].active + 1 \notin 1..Len(versions)
  BY <1>1 DEF A!Taken, IsHandle
<1>3. seen[e].active = Len(versions)
  BY <1>1, <1>2
<1>4. \A X : \A s \in Seq(X) : SubSeq(s, 1, Len(s)) = s
  OBVIOUS
<1>5. SubSeq(versions, 1, Len(versions)) = versions /\ SubSeq(by, 1, Len(versions)) = by
  BY <1>4 DEF AInv, AgentTyped
<1>6. (seen[e].active + 1) - 1 = Len(versions)
  BY <1>1, <1>3
<1>7. /\ versions' = SubSeq(versions, 1, (seen[e].active + 1) - 1) \o <<A!Merged(e)>>
      /\ by' = SubSeq(by, 1, (seen[e].active + 1) - 1) \o <<e>>
  BY DEF A!Append_
<1>8. versions' = versions \o <<A!Merged(e)>> /\ by' = by \o <<e>>
  BY <1>5, <1>6, <1>7
<1> QED
  BY <1>1, <1>3, <1>8

LEMMA AgentEditInv ==
  ASSUME AInv, NEW e \in AgentEdits, A!Edit(e)
  PROVE  AInv'
<1> DEFINE n == seen[e].active + 1
<1>1. /\ turn[e] = "loaded" /\ UNCHANGED <<sent, pin>> /\ IsHandle(seen[e]) /\ e \in A!Reqs
      /\ n \in 2..Len(versions) + 1
  BY DEF A!Edit, AInv, Copied, A!Reqs, IsHandle, AgentTyped
<1>2. CASE A!Leave(e, "refused") /\ UNCHANGED <<handle, versions, by, told>>
  BY <1>1, <1>2, Moves DEF AInv, AgentTyped, A!Leave, A!Goto
<1>a. ASSUME A!Leave(e, "done")
      PROVE  /\ DOMAIN turn' = A!Reqs /\ turn'[e] = "done" /\ DOMAIN seen' = A!Reqs
             /\ \A p \in A!Reqs \ {e} : turn'[p] = turn[p] /\ seen'[p] = seen[p]
  BY <1>1, <1>a DEF A!Leave, A!Goto, AInv, AgentTyped
<1>b. /\ A!Merged(e) \in A!Config
      /\ \A f \in A!Fields : A!Merged(e)[f] = IF f \in DOMAIN sent[e] THEN sent[e][f]
                                                                  ELSE A!ActiveOf(e)[f]
      /\ \A f \in DOMAIN sent[e] : f \in A!Fields
  BY <1>1 DEF A!Merged, A!ActiveOf, AInv, AgentTyped, A!Config, IsHandle
<1>3. CASE /\ A!Merged(e) = A!ActiveOf(e) /\ A!Leave(e, "done") /\ told' = [told EXCEPT ![e] = n - 1]
           /\ UNCHANGED <<handle, versions, by>>
  <2>1. told' \in [AgentEdits -> Nat] /\ told'[e] = seen[e].active
        /\ \A d \in AgentEdits \ {e} : told'[d] = told[d]
    BY <1>1, <1>3 DEF AInv, AgentTyped, IsHandle
  <2>2. AgentTyped'
    BY <1>1, <1>3, <1>a, <2>1 DEF AInv, AgentTyped
  <2>3. IsHandle(handle)'
    BY <1>3 DEF AInv, IsHandle
  <2>4. Copied'
    BY <1>3, <1>a DEF AInv, IsHandle, Copied
  <2>5. Settled'
    <3>1. \A m \in 2..Len(versions) : by[m] \in AgentEdits /\ turn[by[m]] = "done" /\ by[m] \in A!Reqs
      BY DEF AInv, Settled, A!Reqs
    <3>2. \A d \in AgentEdits \ {e} : turn[d] = "done" => told[d] \in 1..Len(versions)
      BY DEF AInv, Settled
    <3>3. seen[e].active \in 1..Len(versions)
      BY <1>1 DEF IsHandle
    <3>4. \A m \in 2..Len(versions) : turn'[by[m]] = "done"
      BY <1>3, <1>a, <3>1
    <3>5. \A d \in AgentEdits : turn'[d] = "done" => told'[d] \in 1..Len(versions)
      <4>1. \A d \in AgentEdits \ {e} : turn'[d] = turn[d] /\ told'[d] = told[d]
        BY <1>3, <1>a, <2>1 DEF A!Reqs
      <4> QED
        BY <2>1, <3>2, <3>3, <4>1
    <3> QED
      BY <1>3, <3>1, <3>4, <3>5 DEF Settled
  <2>6. \A f \in DOMAIN sent[e] : versions[seen[e].active][f] = sent[e][f]
    BY <1>3, <1>b DEF A!ActiveOf
  <2>7. A!NoEditLost'
    <3>1. \A d \in AgentEdits : turn'[d] = "done" =>
            \A f \in DOMAIN sent[d] : versions[told'[d]][f] = sent[d][f]
      <4>1. \A d \in AgentEdits \ {e} : turn'[d] = "done" => turn[d] = "done" /\ told'[d] = told[d]
        BY <1>3, <1>a, <2>1 DEF A!Reqs
      <4> QED
        BY <2>1, <2>6, <4>1 DEF AInv, A!EditsFollow, A!NoEditLost
    <3> QED
      BY <1>1, <1>3, <3>1 DEF AInv, A!EditsFollow, A!NoEditLost
  <2>8. A!HandleIsNewest'
    BY <1>3 DEF AInv, A!EditsFollow, A!HandleIsNewest
  <2> QED
    BY <2>2, <2>3, <2>4, <2>5, <2>7, <2>8 DEF AInv, A!EditsFollow
<1>4. CASE A!Append_(e) /\ A!Leave(e, "done") /\ told' = [told EXCEPT ![e] = n] /\ ~A!Taken(n)
  <2>1. n = Len(versions) + 1 /\ handle.active = seen[e].active
    BY <1>1, <1>4, NewVersion
  <2>2. versions' = versions \o <<A!Merged(e)>> /\ by' = by \o <<e>>
    BY <1>1, <1>4, NewVersion
  <2>3. /\ versions' \in Seq(A!Config) /\ by' \in Seq(AgentEdits \cup {None})
        /\ Len(versions') = n /\ Len(by') = n
        /\ versions'[n] = A!Merged(e) /\ by'[n] = e
        /\ \A m \in 1..Len(versions) : versions'[m] = versions[m] /\ by'[m] = by[m]
    BY <1>b, <2>1, <2>2 DEF AInv, AgentTyped
  <2>4. told' \in [AgentEdits -> Nat] /\ told'[e] = n /\ \A d \in AgentEdits \ {e} : told'[d] = told[d]
    BY <1>1, <1>4 DEF AInv, AgentTyped
  <2>5. AgentTyped'
    BY <1>1, <1>a, <1>4, <2>3, <2>4 DEF AInv, AgentTyped
  <2>6. /\ DOMAIN handle' = {"active", "name", "archived"} /\ handle'.active = n
        /\ handle'.name = A!Merged(e)["name"] /\ handle'.archived \in BOOLEAN
    <3> DEFINE new == A!Repointed(e, n)
    <3>1. handle' = [c \in DOMAIN handle |-> IF new[c] = seen[e][c] THEN handle[c] ELSE new[c]]
      BY <1>4 DEF A!Append_, A!Flush
    <3>2. new.active = n /\ new.name = A!Merged(e)["name"] /\ new.archived = seen[e].archived
      BY <1>1 DEF IsHandle, A!Repointed
    <3>3. handle.name = seen[e].name /\ handle.archived \in BOOLEAN /\ seen[e].archived \in BOOLEAN
      BY <1>1, <2>1 DEF AInv, IsHandle
    <3>4. DOMAIN handle = {"active", "name", "archived"} /\ n # seen[e].active
      BY <1>1 DEF AInv, IsHandle
    <3> QED
      BY <3>1, <3>2, <3>3, <3>4
  <2>7. IsHandle(handle)'
    BY <1>1, <2>1, <2>3, <2>6 DEF IsHandle
  <2>8. Copied'
    BY <1>a, <1>4, <2>1, <2>3 DEF AInv, IsHandle, Copied
  <2>9. Settled'
    <3>1. \A m \in 2..Len(versions) : by[m] \in AgentEdits /\ turn[by[m]] = "done" /\ by[m] \in A!Reqs
      BY DEF AInv, Settled, A!Reqs
    <3>2. \A m \in 2..n : by'[m] \in AgentEdits /\ turn'[by'[m]] = "done"
      <4>1. Len(versions) \in Nat /\ n = Len(versions) + 1
        BY <2>1 DEF AInv, AgentTyped
      <4>2. \A m \in 2..Len(versions) : by'[m] = by[m]
        BY <2>3, <4>1
      <4>3. \A p \in A!Reqs : turn[p] = "done" => turn'[p] = "done"
        BY <1>4, <1>a
      <4>4. \A m \in 2..Len(versions) : by'[m] \in AgentEdits /\ turn'[by'[m]] = "done"
        BY <3>1, <4>2, <4>3
      <4>5. by'[n] \in AgentEdits /\ turn'[by'[n]] = "done"
        BY <1>4, <1>a, <2>3
      <4> HIDE DEF n
      <4> QED
        BY <4>1, <4>4, <4>5
    <3>3. \A d \in AgentEdits : turn'[d] = "done" => told'[d] \in 1..n
      BY <1>1, <1>a, <1>4, <2>1, <2>4 DEF AInv, Settled, A!Reqs
    <3> QED
      BY <2>3, <3>2, <3>3 DEF Settled
  <2>10. A!NoEditLost'
    <3>1. \A m \in 2..n : \A f \in A!Fields :
            versions'[m][f] = IF f \in DOMAIN sent[by'[m]] THEN sent[by'[m]][f]
                                                           ELSE versions'[m - 1][f]
      <4>1. \A m \in 2..Len(versions) : <3>1!(m)
        <5>1. \A m \in 2..Len(versions) : m \in 1..Len(versions) /\ m - 1 \in 1..Len(versions)
          BY DEF AInv, AgentTyped
        <5>2. \A m \in 2..Len(versions) :
                versions'[m] = versions[m] /\ versions'[m - 1] = versions[m - 1] /\ by'[m] = by[m]
          BY <2>3, <5>1
        <5> QED
          BY <5>2 DEF AInv, A!EditsFollow, A!NoEditLost
      <4>2. <3>1!(n)
        <5>1. n - 1 = seen[e].active /\ seen[e].active \in 1..Len(versions)
          BY <1>1 DEF IsHandle
        <5> QED
          BY <1>b, <2>3, <5>1 DEF A!ActiveOf
      <4> QED
        <5>1. Len(versions) \in Nat /\ n = Len(versions) + 1
          BY <2>1 DEF AInv, AgentTyped
        <5>2. \A m \in 2..n : m \in 2..Len(versions) \/ m = n
          BY <5>1
        <5> HIDE DEF n
        <5> QED
          BY <4>1, <4>2, <5>2
    <3>2. \A d \in AgentEdits : turn'[d] = "done" =>
            \A f \in DOMAIN sent[d] : versions'[told'[d]][f] = sent[d][f]
      <4>1. \A d \in AgentEdits \ {e} : turn'[d] = "done" =>
              turn[d] = "done" /\ told'[d] = told[d] /\ told[d] \in 1..Len(versions)
        BY <1>a, <1>4, <2>4 DEF AInv, Settled, A!Reqs
      <4>2. \A f \in DOMAIN sent[e] : versions'[n][f] = sent[e][f]
        BY <1>b, <2>3
      <4> QED
        BY <2>3, <2>4, <4>1, <4>2 DEF AInv, A!EditsFollow, A!NoEditLost
    <3> QED
      BY <1>1, <2>3, <3>1, <3>2 DEF A!NoEditLost
  <2>11. A!HandleIsNewest'
    BY <2>3, <2>6 DEF A!HandleIsNewest
  <2> QED
    BY <2>5, <2>7, <2>8, <2>9, <2>10, <2>11 DEF AInv, A!EditsFollow
<1> QED
  BY <1>2, <1>3, <1>4 DEF A!Edit

LEMMA ArchiveInv ==
  ASSUME A!AgentAssumption, AInv, NEW q \in AgentArchives, A!Archive(q)
  PROVE  AInv'
<1>1. /\ turn[q] = "loaded" /\ UNCHANGED <<versions, by, sent, told>> /\ A!Leave(q, "done")
      /\ IsHandle(seen[q]) /\ q \in A!Reqs /\ q \notin AgentEdits
  BY DEF A!Archive, AInv, Copied, A!Reqs, A!AgentAssumption
<1>2. /\ DOMAIN handle' = {"active", "name", "archived"}
      /\ handle'.active = handle.active /\ handle'.name = handle.name
      /\ handle'.archived \in BOOLEAN /\ (handle.archived => handle'.archived)
  <2> DEFINE new == [seen[q] EXCEPT !.archived = TRUE]
  <2>1. handle' = [c \in DOMAIN handle |-> IF new[c] = seen[q][c] THEN handle[c] ELSE new[c]]
    BY DEF A!Archive, A!Flush
  <2>2. new.active = seen[q].active /\ new.name = seen[q].name /\ new.archived = TRUE
    BY <1>1 DEF IsHandle
  <2>3. DOMAIN handle = {"active", "name", "archived"} /\ seen[q].archived \in BOOLEAN
                 /\ handle.archived \in BOOLEAN
    BY <1>1 DEF AInv, IsHandle
  <2> QED
    BY <2>1, <2>2, <2>3
<1>3. /\ DOMAIN turn' = A!Reqs /\ turn'[q] = "done" /\ DOMAIN seen' = A!Reqs
      /\ \A p \in A!Reqs \ {q} : turn'[p] = turn[p] /\ seen'[p] = seen[p]
  BY <1>1 DEF A!Leave, A!Goto, AInv, AgentTyped
<1>4. AgentTyped'
  BY <1>1, <1>3 DEF AInv, AgentTyped
<1>5. IsHandle(handle)'
  BY <1>1, <1>2 DEF AInv, IsHandle
<1>6. Copied'
  BY <1>1, <1>3 DEF AInv, IsHandle, Copied
<1>7. Settled'
  BY <1>1, <1>3 DEF AInv, Settled, A!Reqs
<1>8. A!NoEditLost'
  BY <1>1, <1>3 DEF AInv, A!EditsFollow, A!NoEditLost, Settled, A!Reqs
<1>9. A!HandleIsNewest'
  BY <1>1, <1>2 DEF AInv, A!EditsFollow, A!HandleIsNewest
<1> QED
  BY <1>4, <1>5, <1>6, <1>7, <1>8, <1>9 DEF AInv, A!EditsFollow

LEMMA OpenInv ==
  ASSUME A!AgentAssumption, AInv, NEW o \in AgentOpens, A!Opened(o) \/ \E n \in Nat : A!Pin(o, n)
  PROVE  AInv'
<1>1. o \in A!Reqs /\ o \notin AgentEdits /\ turn[o] # "done"
  BY DEF A!Opened, A!Pin, A!Reqs, A!AgentAssumption
<1>2. CASE A!Opened(o)
  BY <1>1, <1>2, Moves DEF A!Opened, AInv, AgentTyped, A!Goto
<1>3. ASSUME NEW n \in Nat, A!Pin(o, n) PROVE AInv'
  BY <1>1, <1>3, Moves DEF A!Pin, AInv, AgentTyped, A!Goto, A!Leave
<1> QED
  BY <1>2, <1>3

LEMMA AgentInv == A!AgentAssumption /\ AInv /\ [A!Step]_(A!agentVars) => AInv'
<1> SUFFICES ASSUME A!AgentAssumption, AInv, [A!Step]_(A!agentVars) PROVE AInv'
  OBVIOUS
<1>1. ASSUME NEW q \in AgentArchives \cup AgentOpens, A!LoadOther(q) PROVE AInv'
  BY <1>1, LoadInv DEF A!LoadOther, A!Reqs
<1>2. ASSUME NEW e \in AgentEdits, NEW change \in A!Changes, A!LoadEdit(e, change) PROVE AInv'
  BY <1>2, LoadInv DEF A!LoadEdit, A!Reqs
<1>3. ASSUME NEW e \in AgentEdits, A!Edit(e) PROVE AInv'
  BY <1>3, AgentEditInv
<1>4. ASSUME NEW q \in AgentArchives, A!Archive(q) PROVE AInv'
  BY <1>4, ArchiveInv
<1>5. ASSUME NEW o \in AgentOpens, A!Opened(o) PROVE AInv'
  BY <1>5, OpenInv
<1>6. ASSUME NEW o \in AgentOpens, NEW n \in 1..Len(versions) + 1, A!Pin(o, n) PROVE AInv'
  BY <1>6, OpenInv
<1>7. CASE UNCHANGED A!agentVars
  BY <1>7 DEF A!agentVars, AInv, AgentTyped, IsHandle, Copied, Settled, A!EditsFollow, A!NoEditLost,
              A!HandleIsNewest
<1> QED
  BY <1>1, <1>2, <1>3, <1>4, <1>5, <1>6, <1>7 DEF A!Step

LEMMA Sticks ==
  ASSUME A!AgentAssumption, AInv, [A!Step]_(A!agentVars)
  PROVE  [/\ handle.archived => handle'.archived
          /\ A!IsPrefix(versions, versions')]_(A!agentVars)
<1> SUFFICES /\ handle.archived => handle'.archived
             /\ A!IsPrefix(versions, versions')
  OBVIOUS
<1>1. versions' = versions => A!IsPrefix(versions, versions')
  BY DEF A!IsPrefix, AInv, AgentTyped
<1>2. ASSUME NEW e \in AgentEdits, A!Edit(e), A!Append_(e), ~A!Taken(seen[e].active + 1)
      PROVE  /\ handle.archived => handle'.archived
             /\ A!IsPrefix(versions, versions')
  <2>1. IsHandle(seen[e])
    BY <1>2 DEF A!Edit, AInv, Copied, A!Reqs
  <2>2. versions \in Seq(A!Config) /\ versions' = versions \o <<A!Merged(e)>>
    BY <1>2, <2>1, NewVersion DEF AInv, AgentTyped
  <2>3. Len(versions) <= Len(versions')
        /\ SubSeq(versions, 1, Len(versions)) = SubSeq(versions', 1, Len(versions))
    BY <2>2
  <2>4. handle'.archived = handle.archived
    BY <1>2, <2>1 DEF A!Append_, A!Flush, A!Repointed, IsHandle, AInv
  <2> QED
    BY <2>3, <2>4 DEF A!IsPrefix
<1>3. ASSUME NEW q \in AgentArchives, A!Archive(q)
      PROVE  handle.archived => handle'.archived
  <2>1. IsHandle(seen[q])
    BY <1>3 DEF A!Archive, AInv, Copied, A!Reqs
  <2> QED
    BY <1>3, <2>1 DEF A!Archive, A!Flush, IsHandle, AInv
<1> QED
  BY <1>1, <1>2, <1>3
  DEF A!Step, A!Edit, A!LoadOther, A!LoadEdit, A!Load, A!Archive, A!Opened, A!Pin, A!agentVars

\* However edits, archives and new sessions meet on an agent, no edit is lost
\* under another and the handle says what the newest version says.
THEOREM EditsKept == ASSUME A!AgentAssumption PROVE A!AgentSpec => []EditsFollow
<1>1. AInv => EditsFollow
  BY DEF AInv, EditsFollow
<1> QED
  BY FirstInv, AgentInv, <1>1, PTL DEF A!AgentSpec

\* An edit that read the agent before it was archived does not bring it back, and no
\* version that a session may have pinned is written over.
THEOREM ArchiveKept == ASSUME A!AgentAssumption PROVE A!AgentSpec => ArchiveSticks
<1>1. A!AgentSpec => []AInv
  BY FirstInv, AgentInv, PTL DEF A!AgentSpec
<1> QED
  BY <1>1, Sticks, PTL DEF A!AgentSpec, ArchiveSticks, A!ArchiveSticks
=============================================================================
