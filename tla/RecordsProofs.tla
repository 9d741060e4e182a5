----------------------------- MODULE RecordsProofs -----------------------------
(***************************************************************************)
(* Proofs about Outputs and Paging, for any paths, contents, captures,     *)
(* tables and limits.                                                      *)
(***************************************************************************)
EXTENDS MCRecords, FiniteSetTheorems, SequenceTheorems, WellFoundedInduction, TLAPS

(***************************************************************************)
(* Outputs: the inductive invariant.                                       *)
(***************************************************************************)

FileRecord == [path : Paths, sha : Contents, archived : BOOLEAN]

RecordsTyped ==
  /\ limit \in Nat /\ writes \in Nat
  /\ box \in [Paths -> Contents \cup {None}]
  /\ objects \in [Keys -> Contents \cup {None}]
  /\ DOMAIN files \subseteq Ids /\ \A i \in DOMAIN files : files[i] \in FileRecord
  /\ DOMAIN tx \subseteq Ids /\ \A i \in DOMAIN tx : tx[i] \in FileRecord
  /\ turn \in {"running", "taking", "storing", "idle", "stuck"}
  /\ listed \subseteq Paths /\ todo \subseteq listed
  /\ taking \in [path : Paths \cup {None}, prev : Ids \cup {0}]
  /\ reconciled \in BOOLEAN /\ cut \in BOOLEAN /\ torn \in BOOLEAN
  /\ pc \in [Captures -> {"new", "hashed", "found", "put", "done"}]
  /\ job \in [Captures -> [path : Paths, sha : Contents \cup {None}, prev : Ids \cup {0}]]

\* One live record for each path.
OneEachPath(table) ==
  \A i, j \in DOMAIN table :
    ~table[i].archived /\ ~table[j].archived /\ table[i].path = table[j].path => i = j

\* What the collector has not committed: live records, of paths of their own, each
\* new where the committed ones have none, or in the place of a live one.
Uncommitted ==
  /\ turn \notin {"taking", "storing"} => tx = << >>
  /\ \A i \in DOMAIN tx :
       /\ ~tx[i].archived
       /\ i \in DOMAIN files => files[i].path = tx[i].path /\ ~files[i].archived
       /\ i \notin DOMAIN files =>
            \A j \in DOMAIN files : files[j].path = tx[i].path => files[j].archived

\* What it is storing: a path that it listed, and the live record that it found.
Storing ==
  turn = "storing" =>
    /\ taking.path \in listed \ todo
    /\ taking.prev # 0 =>
         /\ taking.prev \in DOMAIN tx \cup DOMAIN files
         /\ View[taking.prev].path = taking.path /\ ~View[taking.prev].archived
    /\ taking.prev = 0 => \A i \in DOMAIN tx : tx[i].path # taking.path

\* The directory as the collector listed it: nothing in it is gone, and what it did
\* not list is not there or too big, unless the listing was cut or muddled.
ListedInv ==
  turn \in {"taking", "storing", "idle"} /\ (turn = "idle" => reconciled) =>
    /\ \A p \in listed : box[p] # None
    /\ ~cut /\ ~Muddled => \A p \in Paths \ listed : box[p] \in Big \cup {None}

\* A capture holds the digest of the file as it still is, and the record of its path.
CapturesInv ==
  \A c \in Captures :
    /\ pc[c] \in {"hashed", "found", "put"} =>
         job[c].sha # None /\ (~torn => box[job[c].path] = job[c].sha)
    /\ pc[c] = "put" => objects[<<job[c].path, job[c].sha>>] # None
    /\ job[c].prev # 0 =>
         job[c].prev \in DOMAIN files /\ files[job[c].prev].path = job[c].path

\* A key holds what its digest names.
KeysInv == ~torn => \A k \in Keys : objects[k] \in {None, k[2]}

\* The bytes of a record are there.
BytesInv ==
  /\ \A i \in DOMAIN files : objects[<<files[i].path, files[i].sha>>] # None
  /\ \A i \in DOMAIN tx : objects[<<tx[i].path, tx[i].sha>>] # None

\* A path that the collector is done with has a record of the file as it is.
TakenInv ==
  turn \in {"taking", "storing"} /\ ~torn =>
    \A p \in listed \ todo : (turn = "storing" => p # taking.path) =>
      \E i \in DOMAIN tx \cup DOMAIN files :
        View[i].path = p /\ ~View[i].archived /\ View[i].sha = box[p]

\* After a whole collection the live records are those of the files there are.
SettledInv ==
  turn = "idle" /\ reconciled /\ ~torn /\ ~cut /\ ~Muddled =>
    /\ \A i \in DOMAIN files : ~files[i].archived => files[i].sha = box[files[i].path]
    /\ \A p \in Paths : box[p] \notin Big \cup {None} =>
         \E i \in DOMAIN files : files[i].path = p /\ ~files[i].archived

RecordsInv ==
  /\ RecordsTyped /\ OneEachPath(files) /\ OneEachPath(View) /\ Uncommitted /\ Storing
  /\ ListedInv /\ CapturesInv /\ KeysInv /\ BytesInv /\ TakenInv /\ SettledInv

(***************************************************************************)
(* The operators on tables.                                                *)
(***************************************************************************)

LEMMA LeastExists ==
  ASSUME NEW T \in SUBSET Nat, T # {}
  PROVE  \E n \in T : \A m \in T : n <= m
<1>1. IsWellFoundedOn(OpToRel(<, Nat), Nat)
  BY NatLessThanWellFounded
<1>2. PICK n \in T : \A m \in T : ~(<<m, n>> \in OpToRel(<, Nat))
  BY <1>1, WFMin
<1>3. \A m \in T : ~(m < n)
  BY <1>2 DEF OpToRel
<1> QED
  BY <1>3

LEMMA IdsAreNumbers == Ids \subseteq Nat /\ 0 \notin Ids
  BY BoundAssumption DEF Ids

LEMMA NewIdIsUnused == Unused # {} => NewId \in Unused
<1> SUFFICES ASSUME Unused # {} PROVE NewId \in Unused
  OBVIOUS
<1>1. Unused \in SUBSET Nat
  BY IdsAreNumbers DEF Unused
<1>2. \E i \in Unused : \A j \in Unused : i <= j
  BY <1>1, LeastExists
<1> QED
  BY <1>2 DEF NewId

LEMMA OverIs ==
  ASSUME NEW top, NEW base
  PROVE  /\ DOMAIN Over(top, base) = DOMAIN top \cup DOMAIN base
         /\ \A i \in DOMAIN top : Over(top, base)[i] = top[i]
         /\ \A i \in DOMAIN base \ DOMAIN top : Over(top, base)[i] = base[i]
  BY DEF Over

LEMMA ViewIs ==
  /\ DOMAIN View = DOMAIN tx \cup DOMAIN files
  /\ \A i \in DOMAIN tx : View[i] = tx[i]
  /\ \A i \in DOMAIN files \ DOMAIN tx : View[i] = files[i]
  BY OverIs DEF View

LEMMA ViewTyped ==
  ASSUME RecordsTyped
  PROVE  DOMAIN View \subseteq Ids /\ \A i \in DOMAIN View : View[i] \in FileRecord
  BY ViewIs DEF RecordsTyped

LEMMA FoundIs ==
  ASSUME NEW table, NEW p, DOMAIN table \subseteq Ids
  PROVE  \/ Found(table, p) = 0 /\ Live(table, p) = {}
         \/ Found(table, p) \in Live(table, p) /\ Found(table, p) # 0
  BY IdsAreNumbers DEF Found, Live

LEMMA InitRecords == Init => RecordsInv
<1> SUFFICES ASSUME Init PROVE RecordsInv
  OBVIOUS
<1> USE NoneAssumption, BoundAssumption DEF Init
<1>1. DOMAIN files = {} /\ DOMAIN tx = {}
  OBVIOUS
<1>2. PICK p \in [Captures -> Paths] :
        job = [c \in Captures |-> [path |-> p[c], sha |-> None, prev |-> 0]]
  OBVIOUS
<1>3. RecordsTyped
  <2>1. job \in [Captures -> [path : Paths, sha : Contents \cup {None}, prev : Ids \cup {0}]]
    BY <1>2
  <2> QED
    BY <1>1, <2>1 DEF RecordsTyped
<1>4. DOMAIN View = {}
  BY <1>1, ViewIs
<1>5. OneEachPath(files) /\ OneEachPath(View) /\ Uncommitted
  BY <1>1, <1>4 DEF OneEachPath, Uncommitted
<1>6. Storing /\ ListedInv /\ TakenInv /\ SettledInv
  BY DEF Storing, ListedInv, TakenInv, SettledInv
<1>7. CapturesInv /\ KeysInv /\ BytesInv
  BY <1>1, <1>2 DEF CapturesInv, KeysInv, BytesInv
<1> QED
  BY <1>3, <1>5, <1>6, <1>7 DEF RecordsInv

(***************************************************************************)
(* The agent, and the turns.                                               *)
(***************************************************************************)

LEMMA WriteKeeps ==
  ASSUME RecordsInv, NEW p \in Paths, NEW content \in Contents \cup {None}, Write(p, content)
  PROVE  RecordsInv'
<1> USE DEF RecordsInv, collecting, listing
<1>1. View' = View /\ UNCHANGED <<files, tx, turn, listed, cut, todo, taking, reconciled, pc, job, objects>>
  BY DEF Write, View
<1>2. RecordsTyped'
  BY DEF Write, RecordsTyped
<1>3. OneEachPath(files)' /\ OneEachPath(View)' /\ Uncommitted' /\ Storing'
  BY <1>1 DEF OneEachPath, Uncommitted, Storing
<1>4. ListedInv' /\ TakenInv' /\ SettledInv'
  BY DEF Write, ListedInv, TakenInv, SettledInv
<1>5. KeysInv' /\ BytesInv'
  BY DEF Write, KeysInv, BytesInv
<1>6. CapturesInv'
  <2>1. ASSUME NEW c \in Captures, pc[c] \in {"hashed", "found", "put"}, ~torn'
        PROVE  box'[job[c].path] = job[c].sha
    <3>1. ~torn /\ job[c].path # p
      BY <2>1 DEF Write, Resting
    <3>2. box'[job[c].path] = box[job[c].path]
      BY <3>1 DEF Write, RecordsTyped
    <3> QED
      BY <2>1, <3>1, <3>2 DEF CapturesInv
  <2> QED
    BY <1>1, <2>1 DEF CapturesInv
<1> QED
  BY <1>2, <1>3, <1>4, <1>5, <1>6

LEMMA TurnsKeep == RecordsInv /\ (NextTurn \/ Sweep) => RecordsInv'
<1> SUFFICES ASSUME RecordsInv, NextTurn \/ Sweep PROVE RecordsInv'
  OBVIOUS
<1> USE DEF RecordsInv, NextTurn, Sweep, bag, listing
<1>1. View' = View
  BY DEF View
<1>2. RecordsTyped'
  BY DEF RecordsTyped
<1>3. OneEachPath(files)' /\ OneEachPath(View)' /\ Uncommitted' /\ Storing'
  BY <1>1 DEF OneEachPath, Uncommitted, Storing
<1>4. ListedInv' /\ TakenInv' /\ SettledInv'
  BY DEF ListedInv, TakenInv, SettledInv
<1>5. KeysInv' /\ BytesInv' /\ CapturesInv'
  BY DEF KeysInv, BytesInv, CapturesInv
<1> QED
  BY <1>2, <1>3, <1>4, <1>5

(***************************************************************************)
(* The collection.                                                         *)
(***************************************************************************)

LEMMA ListKeeps ==
  ASSUME RecordsInv, NEW found \in SUBSET Paths,
         NEW next \in [found \cap Odd -> found], List(found, next)
  PROVE  RecordsInv'
<1> USE DEF RecordsInv, List, bag
<1>1. View' = View
  BY DEF View
<1>2. RecordsTyped'
  BY DEF RecordsTyped
<1>3. OneEachPath(files)' /\ OneEachPath(View)' /\ Uncommitted' /\ Storing'
  BY <1>1 DEF OneEachPath, Uncommitted, Storing
<1>4. ListedInv'
  <2>1. \A p \in listed' : box[p] # None
    BY DEF Present
  <2>2. ASSUME ~cut', ~Muddled, NEW p \in Paths \ listed' PROVE box[p] \in Big \cup {None}
    <3>1. found \cap Odd = {} /\ DOMAIN next = {} /\ found = Present
      BY <2>2 DEF Muddled, Present
    <3> QED
      BY <2>2, <3>1 DEF Present
  <2> QED
    BY <2>1, <2>2 DEF ListedInv, Muddled
<1>5. TakenInv' /\ SettledInv'
  BY DEF TakenInv, SettledInv
<1>6. KeysInv' /\ BytesInv' /\ CapturesInv'
  BY DEF KeysInv, BytesInv, CapturesInv
<1> QED
  BY <1>2, <1>3, <1>4, <1>5, <1>6

LEMMA TakeKeeps ==
  ASSUME RecordsInv, NEW p \in Paths, Take(p)
  PROVE  RecordsInv'
<1> USE DEF RecordsInv, bag, listing
<1> DEFINE i == Found(View, p)
<1>1. View' = View /\ UNCHANGED <<box, files, tx, listed, objects, torn, pc, job>>
  BY DEF Take, View
<1>2. \/ i = 0 /\ Live(View, p) = {}
      \/ i \in Live(View, p) /\ i # 0
  BY FoundIs, ViewTyped
<1>3. i \in Ids \cup {0}
  BY <1>2, ViewTyped DEF Live
<1>4. RecordsTyped'
  BY <1>3 DEF Take, RecordsTyped
<1>5. OneEachPath(files)' /\ OneEachPath(View)' /\ Uncommitted'
  BY <1>1 DEF Take, OneEachPath, Uncommitted
<1>6. Storing'
  <2>1. CASE turn' = turn
    BY <2>1 DEF Take, Storing
  <2>2. CASE taking' = [path |-> p, prev |-> i]
    <3>1. p \in listed' \ todo' /\ taking'.path = p /\ taking'.prev = i
      BY <2>2 DEF Take, RecordsTyped
    <3>2. i # 0 => i \in DOMAIN View /\ View[i].path = p /\ ~View[i].archived
      BY <1>2 DEF Live
    <3>3. i = 0 => \A j \in DOMAIN tx : tx[j].path # p
      BY <1>2, IdsAreNumbers, ViewIs DEF Live, Uncommitted
    <3> QED
      BY <1>1, <3>1, <3>2, <3>3, ViewIs DEF Storing
  <2> QED
    BY <2>1, <2>2 DEF Take
<1>7. ListedInv' /\ SettledInv'
  BY DEF Take, ListedInv, SettledInv, Muddled
<1>8. TakenInv'
  <2> SUFFICES ASSUME ~torn, NEW q \in listed \ todo', turn' = "storing" => q # taking'.path
               PROVE  \E j \in DOMAIN tx \cup DOMAIN files :
                        View[j].path = q /\ ~View[j].archived /\ View[j].sha = box[q]
    BY <1>1 DEF TakenInv
  <2>1. CASE q # p
    BY <2>1 DEF Take, TakenInv
  <2>2. CASE q = p
    <3>1. i # 0 /\ View[i].sha = box[p]
      BY <2>2 DEF Take
    <3> QED
      BY <1>2, <2>2, <3>1, ViewIs DEF Live
  <2> QED
    BY <2>1, <2>2
<1>9. KeysInv' /\ BytesInv' /\ CapturesInv'
  BY <1>1 DEF KeysInv, BytesInv, CapturesInv
<1> QED
  BY <1>4, <1>5, <1>6, <1>7, <1>8, <1>9

\* The bytes of a file that it listed are under the key of their digest.
LEMMA BytesStored ==
  ASSUME RecordsInv, StoreBytes
  PROVE  LET sha == box[taking.path] IN
         /\ taking.path \in Paths /\ sha \in Contents
         /\ objects' \in [Keys -> Contents \cup {None}]
         /\ objects'[<<taking.path, sha>>] = sha
         /\ \A k \in Keys : objects'[k] = objects[k] \/ objects'[k] = k[2]
         /\ \A k \in Keys : objects[k] # None => objects'[k] # None
<1> DEFINE p == taking.path  sha == box[p]
<1>1. p \in Paths /\ sha # None /\ sha \in Contents
  BY DEF RecordsInv, StoreBytes, Storing, ListedInv, RecordsTyped
<1>2. /\ objects \in [Keys -> Contents \cup {None}] /\ <<p, sha>> \in Keys
      /\ objects' = [objects EXCEPT ![<<p, sha>>] = sha]
  BY <1>1 DEF RecordsInv, StoreBytes, RecordsTyped, Keys
<1>3. sha # None
  BY <1>1
<1> HIDE DEF sha
<1>4. \A k \in Keys : objects'[k] = IF k = <<p, sha>> THEN sha ELSE objects[k]
  BY <1>2
<1>5. \A k \in Keys : k = <<p, sha>> => k[2] = sha
  OBVIOUS
<1> QED
  BY <1>1, <1>2, <1>3, <1>4, <1>5 DEF sha

\* What the collector's write makes of the records that it reads.
LEMMA RecordStored ==
  ASSUME RecordsInv, StoreBytes, turn' = "taking"
  PROVE  \E id \in Ids :
           /\ taking.prev # 0 => id = taking.prev /\ id \in DOMAIN View
           /\ taking.prev = 0 => id \notin DOMAIN View
           /\ DOMAIN tx' = DOMAIN tx \cup {id}
           /\ \A j \in DOMAIN tx \ {id} : tx'[j] = tx[j]
           /\ tx'[id] = [path |-> taking.path, sha |-> box[taking.path], archived |-> FALSE]
           /\ DOMAIN View' = DOMAIN View \cup {id}
           /\ View'[id] = tx'[id]
           /\ \A j \in DOMAIN View \ {id} : View'[j] = View[j]
<1> USE DEF RecordsInv
<1> DEFINE p == taking.path  i == taking.prev  id == IF i = 0 THEN NewId ELSE i
<1>1. /\ tx' = Over([n \in {id} |-> Record(i, p, box[p])], tx)
      /\ i = 0 => Unused # {}
      /\ turn = "storing" /\ files' = files
  BY DEF StoreBytes
<1>2. i = 0 => id \in Ids /\ id \notin DOMAIN View
  BY <1>1, NewIdIsUnused DEF Unused
<1>3. i # 0 => id = i /\ id \in Ids /\ id \in DOMAIN View
  BY <1>1, ViewIs DEF Storing, RecordsTyped
<1>4. Record(i, p, box[p]) = [path |-> p, sha |-> box[p], archived |-> FALSE]
  <2>1. CASE i = 0
    BY <2>1 DEF Record
  <2>2. CASE i # 0
    <3>1. View[i] \in FileRecord /\ View[i].path = p /\ ~View[i].archived
      BY <1>1, <1>3, <2>2, ViewTyped DEF Storing
    <3> QED
      BY <2>2, <3>1 DEF Record, FileRecord
  <2> QED
    BY <2>1, <2>2
<1> HIDE DEF id
<1>5. /\ DOMAIN tx' = DOMAIN tx \cup {id} /\ tx'[id] = Record(i, p, box[p])
      /\ \A j \in DOMAIN tx \ {id} : tx'[j] = tx[j]
  BY <1>1 DEF Over
<1>6. /\ DOMAIN View' = DOMAIN tx' \cup DOMAIN files
      /\ \A j \in DOMAIN tx' : View'[j] = tx'[j]
      /\ \A j \in DOMAIN files \ DOMAIN tx' : View'[j] = files[j]
  BY <1>1 DEF View, Over
<1>7. \A j \in DOMAIN View \ {id} : View'[j] = View[j]
  BY <1>5, <1>6, ViewIs
<1>8. id \in Ids /\ DOMAIN View' = DOMAIN View \cup {id} /\ View'[id] = tx'[id]
  BY <1>2, <1>3, <1>5, <1>6, ViewIs
<1> QED
  BY <1>2, <1>3, <1>4, <1>5, <1>7, <1>8

LEMMA StoreKeeps == RecordsInv /\ StoreBytes => RecordsInv'
<1> SUFFICES ASSUME RecordsInv, StoreBytes PROVE RecordsInv'
  OBVIOUS
<1> USE DEF RecordsInv, bag, listing
<1> DEFINE p == taking.path  i == taking.prev
<1>1. UNCHANGED <<limit, box, writes, files, listed, cut, todo, taking, reconciled, pc, job, torn>>
  BY DEF StoreBytes
<1>2. /\ p \in Paths /\ box[p] \in Contents
      /\ objects' \in [Keys -> Contents \cup {None}]
      /\ objects'[<<p, box[p]>>] = box[p]
      /\ \A k \in Keys : objects'[k] = objects[k] \/ objects'[k] = k[2]
      /\ \A k \in Keys : objects[k] # None => objects'[k] # None
  BY BytesStored
<1>3. KeysInv'
  BY <1>1, <1>2 DEF KeysInv
<1>4. CapturesInv'
  <2>1. ASSUME NEW c \in Captures, pc[c] = "put" PROVE objects'[<<job[c].path, job[c].sha>>] # None
    <3>1. <<job[c].path, job[c].sha>> \in Keys
      BY <2>1 DEF CapturesInv, RecordsTyped, Keys
    <3> QED
      BY <1>2, <2>1, <3>1 DEF CapturesInv
  <2> QED
    BY <1>1, <2>1 DEF CapturesInv
<1>5. \A j \in DOMAIN files : objects'[<<files[j].path, files[j].sha>>] # None
  <2> SUFFICES ASSUME NEW j \in DOMAIN files
               PROVE  objects'[<<files[j].path, files[j].sha>>] # None
    OBVIOUS
  <2>1. <<files[j].path, files[j].sha>> \in Keys
    BY DEF RecordsTyped, FileRecord, Keys
  <2> QED
    BY <1>2, <2>1 DEF BytesInv
<1>6. OneEachPath(files)'
  BY <1>1 DEF OneEachPath
<1>7. CASE turn' = "stuck"
  <2>1. tx' = << >> /\ DOMAIN tx' = {}
    BY <1>7 DEF StoreBytes
  <2>2. DOMAIN View' = DOMAIN files /\ \A j \in DOMAIN files : View'[j] = files[j]
    BY <1>1, <2>1 DEF View, Over
  <2>3. RecordsTyped'
    BY <1>1, <1>2, <1>7, <2>1 DEF RecordsTyped
  <2>4. OneEachPath(View)' /\ Uncommitted' /\ Storing'
    BY <1>1, <1>7, <2>1, <2>2 DEF OneEachPath, Uncommitted, Storing
  <2>5. ListedInv' /\ TakenInv' /\ SettledInv' /\ BytesInv'
    BY <1>1, <1>5, <1>7, <2>1 DEF ListedInv, TakenInv, SettledInv, BytesInv
  <2> QED
    BY <1>3, <1>4, <1>6, <2>3, <2>4, <2>5
<1>8. CASE turn' = "taking"
  <2>1. turn = "storing" /\ ~(i = 0 /\ Live(files, p) # {})
    BY <1>8 DEF StoreBytes
  <2>2. PICK id \in Ids :
          /\ i # 0 => id = i /\ id \in DOMAIN View
          /\ i = 0 => id \notin DOMAIN View
          /\ DOMAIN tx' = DOMAIN tx \cup {id}
          /\ \A j \in DOMAIN tx \ {id} : tx'[j] = tx[j]
          /\ tx'[id] = [path |-> p, sha |-> box[p], archived |-> FALSE]
          /\ DOMAIN View' = DOMAIN View \cup {id}
          /\ View'[id] = tx'[id]
          /\ \A j \in DOMAIN View \ {id} : View'[j] = View[j]
    BY <1>8, RecordStored
  <2>3. tx'[id] \in FileRecord
    BY <1>2, <2>2 DEF FileRecord
  <2>4. RecordsTyped'
    BY <1>1, <1>2, <1>8, <2>2, <2>3 DEF RecordsTyped
  <2>5. i # 0 => View[i].path = p /\ ~View[i].archived
    BY <2>1 DEF Storing
  <2>6. i = 0 => \A j \in DOMAIN View : ~View[j].archived => View[j].path # p
    BY <2>1, ViewIs DEF Storing, Live
  <2>7. OneEachPath(View)'
    <3> SUFFICES ASSUME NEW j \in DOMAIN View', NEW n \in DOMAIN View',
                        ~View'[j].archived, ~View'[n].archived, View'[j].path = View'[n].path
                 PROVE  j = n
      BY DEF OneEachPath
    <3>1. CASE j # id /\ n # id
      BY <2>2, <3>1 DEF OneEachPath
    <3>2. ASSUME NEW m \in DOMAIN View, m # id, ~View[m].archived, View[m].path = p PROVE FALSE
      BY <2>2, <2>5, <2>6, <3>2 DEF OneEachPath
    <3> QED
      BY <2>2, <3>1, <3>2
  <2>8. Uncommitted'
    <3>1. id \in DOMAIN files => files[id].path = p /\ ~files[id].archived
      BY <2>2, <2>5, ViewIs DEF Uncommitted
    <3>2. id \notin DOMAIN files => \A j \in DOMAIN files : files[j].path = p => files[j].archived
      <4>1. CASE i = 0
        BY <2>1, <4>1 DEF Live
      <4>2. CASE i # 0
        BY <2>2, <2>5, <4>2, ViewIs DEF Uncommitted
      <4> QED
        BY <4>1, <4>2
    <3> QED
      BY <1>1, <1>8, <2>2, <3>1, <3>2 DEF Uncommitted
  <2>9. Storing' /\ ListedInv' /\ SettledInv'
    BY <1>1, <1>8, <2>1 DEF Storing, ListedInv, SettledInv, Muddled
  <2>10. BytesInv'
    <3>1. \A j \in DOMAIN tx : <<tx[j].path, tx[j].sha>> \in Keys
      BY DEF RecordsTyped, FileRecord, Keys
    <3>2. \A j \in DOMAIN tx' : objects'[<<tx'[j].path, tx'[j].sha>>] # None
      BY <1>2, <2>2, <3>1, NoneAssumption DEF BytesInv
    <3> QED
      BY <1>1, <1>5, <3>2 DEF BytesInv
  <2>11. TakenInv'
    <3> SUFFICES ASSUME ~torn, NEW q \in listed \ todo
                 PROVE  \E j \in DOMAIN View' :
                          View'[j].path = q /\ ~View'[j].archived /\ View'[j].sha = box[q]
      BY <1>1, <2>2, ViewIs DEF TakenInv
    <3>1. CASE q = p
      BY <2>2, <3>1
    <3>2. CASE q # p
      <4>1. PICK j \in DOMAIN View : View[j].path = q /\ ~View[j].archived /\ View[j].sha = box[q]
        BY <2>1, <3>2, ViewIs DEF TakenInv
      <4>2. j # id
        BY <2>2, <2>5, <3>2, <4>1
      <4> QED
        BY <2>2, <4>1, <4>2
    <3> QED
      BY <3>1, <3>2
  <2> QED
    BY <1>3, <1>4, <1>6, <2>4, <2>7, <2>8, <2>9, <2>10, <2>11
<1> QED
  BY <1>7, <1>8 DEF StoreBytes

\* What the collector has seen of a record is committed with it.
LEMMA ViewCommitted ==
  ASSUME RecordsInv
  PROVE  /\ DOMAIN View \subseteq Ids
         /\ \A i \in DOMAIN View : View[i] \in FileRecord
         /\ \A i \in DOMAIN files :
              /\ i \in DOMAIN View /\ View[i].path = files[i].path
              /\ View[i].archived = files[i].archived
         /\ \A i \in DOMAIN View : objects[<<View[i].path, View[i].sha>>] # None
<1> USE DEF RecordsInv
<1>1. \A i \in DOMAIN files :
        /\ i \in DOMAIN View /\ View[i].path = files[i].path
        /\ View[i].archived = files[i].archived
  <2> SUFFICES ASSUME NEW i \in DOMAIN files
               PROVE  /\ i \in DOMAIN View /\ View[i].path = files[i].path
                      /\ View[i].archived = files[i].archived
    OBVIOUS
  <2>1. CASE i \in DOMAIN tx
    <3>1. View[i] = tx[i] /\ tx[i] \in FileRecord /\ files[i] \in FileRecord
      BY <2>1, ViewIs DEF RecordsTyped
    <3>2. ~tx[i].archived /\ ~files[i].archived /\ files[i].path = tx[i].path
      BY <2>1 DEF Uncommitted
    <3>3. tx[i].archived = FALSE /\ files[i].archived = FALSE
      BY <3>1, <3>2 DEF FileRecord
    <3> QED
      BY <2>1, <3>1, <3>2, <3>3, ViewIs
  <2>2. CASE i \notin DOMAIN tx
    BY <2>2, ViewIs
  <2> QED
    BY <2>1, <2>2
<1> QED
  BY <1>1, ViewIs, ViewTyped DEF BytesInv

LEMMA ReleaseKeeps == RecordsInv /\ Release => RecordsInv'
<1> SUFFICES ASSUME RecordsInv, Release PROVE RecordsInv'
  OBVIOUS
<1> USE DEF RecordsInv, bag, listing
<1>1. /\ turn = "taking" /\ todo = {} /\ turn' = "idle" /\ tx' = << >> /\ DOMAIN tx' = {}
      /\ reconciled' = (listed # {})
      /\ UNCHANGED <<limit, box, writes, objects, listed, cut, todo, taking, pc, job, torn>>
  BY DEF Release
<1>2. /\ DOMAIN files' = DOMAIN View
      /\ \A i \in DOMAIN View :
           files'[i] = [View[i] EXCEPT
             !.archived = @ \/ (listed # {} /\ View[i].path \notin listed)]
  BY DEF Release
<1>3. ASSUME NEW i \in DOMAIN View
      PROVE  /\ files'[i] \in FileRecord
             /\ files'[i].path = View[i].path /\ files'[i].sha = View[i].sha
             /\ files'[i].archived = (View[i].archived \/ (listed # {} /\ View[i].path \notin listed))
  <2>1. View[i] \in FileRecord
    BY ViewCommitted
  <2> QED
    BY <1>2, <2>1 DEF FileRecord
<1>4. /\ DOMAIN View' = DOMAIN files' /\ \A i \in DOMAIN files' : View'[i] = files'[i]
  BY <1>1 DEF View, Over
<1>5. RecordsTyped'
  BY <1>1, <1>2, <1>3, ViewCommitted DEF RecordsTyped
<1>6. OneEachPath(files)' /\ OneEachPath(View)'
  <2>1. OneEachPath(files)'
    BY <1>2, <1>3 DEF OneEachPath
  <2> QED
    BY <1>4, <2>1 DEF OneEachPath
<1>7. Uncommitted' /\ Storing' /\ TakenInv'
  BY <1>1 DEF Uncommitted, Storing, TakenInv
<1>8. ListedInv'
  BY <1>1 DEF ListedInv, Muddled
<1>9. CapturesInv'
  <2>1. ASSUME NEW c \in Captures, job[c].prev # 0
        PROVE  job[c].prev \in DOMAIN files' /\ files'[job[c].prev].path = job[c].path
    <3>1. job[c].prev \in DOMAIN files /\ files[job[c].prev].path = job[c].path
      BY <2>1 DEF CapturesInv
    <3> QED
      BY <1>2, <1>3, <3>1, ViewCommitted
  <2> QED
    BY <1>1, <2>1 DEF CapturesInv
<1>10. KeysInv' /\ BytesInv'
  BY <1>1, <1>2, <1>3, ViewCommitted DEF KeysInv, BytesInv
<1>11. SettledInv'
  <2> SUFFICES ASSUME listed # {}, ~torn, ~cut, ~Muddled
               PROVE  /\ \A i \in DOMAIN files' : ~files'[i].archived => files'[i].sha = box[files'[i].path]
                      /\ \A p \in Paths : box[p] \notin Big \cup {None} =>
                           \E i \in DOMAIN files' : files'[i].path = p /\ ~files'[i].archived
    BY <1>1 DEF SettledInv, Muddled
  <2>1. \A p \in listed : \E i \in DOMAIN View :
          View[i].path = p /\ ~View[i].archived /\ View[i].sha = box[p]
    BY <1>1, ViewIs DEF TakenInv
  <2>2. \A p \in Paths : box[p] \notin Big \cup {None} => p \in listed
    BY <1>1 DEF ListedInv
  <2>3. ASSUME NEW i \in DOMAIN View, ~files'[i].archived PROVE files'[i].sha = box[files'[i].path]
    <3>1. View[i].path \in listed /\ ~View[i].archived
      BY <1>3, <2>3
    <3>2. PICK j \in DOMAIN View :
            View[j].path = View[i].path /\ ~View[j].archived /\ View[j].sha = box[View[i].path]
      BY <2>1, <3>1
    <3>3. j = i
      BY <3>1, <3>2 DEF OneEachPath
    <3> QED
      BY <1>3, <3>2, <3>3
  <2>4. ASSUME NEW p \in Paths, box[p] \notin Big \cup {None}
        PROVE  \E i \in DOMAIN files' : files'[i].path = p /\ ~files'[i].archived
    <3>1. PICK i \in DOMAIN View : View[i].path = p /\ ~View[i].archived
      BY <2>1, <2>2, <2>4
    <3> QED
      BY <1>2, <1>3, <2>2, <2>4, <3>1
  <2> QED
    BY <1>2, <2>3, <2>4
<1> QED
  BY <1>5, <1>6, <1>7, <1>8, <1>9, <1>10, <1>11

LEMMA CollectFailsKeeps == RecordsInv /\ CollectFails => RecordsInv'
<1> SUFFICES ASSUME RecordsInv, CollectFails PROVE RecordsInv'
  OBVIOUS
<1> USE DEF RecordsInv, bag, listing
<1>1. /\ turn' = "idle" /\ tx' = << >> /\ DOMAIN tx' = {} /\ reconciled' = FALSE
      /\ files' = View
      /\ UNCHANGED <<limit, box, writes, objects, listed, cut, todo, taking, pc, job, torn>>
  BY DEF CollectFails
<1>2. /\ DOMAIN View' = DOMAIN View /\ \A i \in DOMAIN View : View'[i] = View[i]
  BY <1>1 DEF View, Over
<1>3. RecordsTyped'
  BY <1>1, ViewCommitted DEF RecordsTyped
<1>4. OneEachPath(files)' /\ OneEachPath(View)'
  BY <1>1, <1>2 DEF OneEachPath
<1>5. Uncommitted' /\ Storing' /\ TakenInv' /\ ListedInv' /\ SettledInv'
  BY <1>1 DEF Uncommitted, Storing, TakenInv, ListedInv, SettledInv
<1>6. CapturesInv'
  BY <1>1, ViewCommitted DEF CapturesInv
<1>7. KeysInv' /\ BytesInv'
  BY <1>1, ViewCommitted DEF KeysInv, BytesInv
<1> QED
  BY <1>3, <1>4, <1>5, <1>6, <1>7

(***************************************************************************)
(* The captures.                                                           *)
(***************************************************************************)

\* A capture goes on and no record changes.
LEMMA LookingKeeps ==
  ASSUME RecordsInv, UNCHANGED <<bag, files, collecting, torn>>, RecordsTyped', CapturesInv',
         KeysInv', \A k \in Keys : objects[k] # None => objects'[k] # None
  PROVE  RecordsInv'
<1> USE DEF RecordsInv, bag, listing, collecting
<1>1. View' = View
  BY DEF View
<1>2. OneEachPath(files)' /\ OneEachPath(View)' /\ Uncommitted' /\ Storing'
  BY <1>1 DEF OneEachPath, Uncommitted, Storing
<1>3. ListedInv' /\ SettledInv'
  BY DEF ListedInv, SettledInv, Muddled
<1>4. TakenInv'
  BY <1>1 DEF TakenInv
<1>5. BytesInv'
  <2>1. \A i \in DOMAIN files : <<files[i].path, files[i].sha>> \in Keys
    BY DEF RecordsTyped, FileRecord, Keys
  <2>2. \A i \in DOMAIN tx : <<tx[i].path, tx[i].sha>> \in Keys
    BY DEF RecordsTyped, FileRecord, Keys
  <2> QED
    BY <2>1, <2>2 DEF BytesInv
<1> QED
  BY <1>2, <1>3, <1>4, <1>5

LEMMA HashKeeps ==
  ASSUME RecordsInv, NEW c \in Captures, Hash(c)
  PROVE  RecordsInv'
<1> USE DEF RecordsInv, bag, listing, collecting, Goto
<1>1. /\ job \in [Captures -> [path : Paths, sha : Contents \cup {None}, prev : Ids \cup {0}]]
      /\ pc \in [Captures -> {"new", "hashed", "found", "put", "done"}]
      /\ box[job[c].path] \in Contents \cup {None}
  BY DEF RecordsTyped
<1>2. job' = [job EXCEPT ![c].sha = box[job[c].path]]
  BY DEF Hash
<1>3. /\ job' \in [Captures -> [path : Paths, sha : Contents \cup {None}, prev : Ids \cup {0}]]
      /\ \A d \in Captures : job'[d].path = job[d].path /\ job'[d].prev = job[d].prev
      /\ \A d \in Captures \ {c} : job'[d] = job[d]
      /\ job'[c].sha = box[job[c].path]
  BY <1>1, <1>2
<1>4. /\ pc' \in [Captures -> {"new", "hashed", "found", "put", "done"}]
      /\ \A d \in Captures \ {c} : pc'[d] = pc[d]
      /\ pc'[c] \in {"done", "hashed"} /\ (pc'[c] = "hashed" => box[job[c].path] # None)
  BY <1>1 DEF Hash
<1>5. RecordsTyped'
  BY <1>3, <1>4 DEF Hash, RecordsTyped
<1>6. CapturesInv'
  <2> SUFFICES ASSUME NEW d \in Captures
               PROVE  /\ pc'[d] \in {"hashed", "found", "put"} =>
                           job'[d].sha # None /\ (~torn => box[job'[d].path] = job'[d].sha)
                      /\ pc'[d] = "put" => objects[<<job'[d].path, job'[d].sha>>] # None
                      /\ job'[d].prev # 0 =>
                           job'[d].prev \in DOMAIN files /\ files[job'[d].prev].path = job'[d].path
    BY DEF Hash, CapturesInv
  <2>1. CASE d # c
    BY <1>3, <1>4, <2>1 DEF CapturesInv
  <2>2. CASE d = c
    BY <1>3, <1>4, <2>2 DEF CapturesInv
  <2> QED
    BY <2>1, <2>2
<1>7. UNCHANGED <<bag, files, collecting, torn, objects>> /\ KeysInv'
  BY DEF Hash, KeysInv
<1> QED
  BY <1>5, <1>6, <1>7, LookingKeeps

LEMMA LookUpKeeps ==
  ASSUME RecordsInv, NEW c \in Captures, LookUp(c)
  PROVE  RecordsInv'
<1> USE DEF RecordsInv, bag, listing, collecting, Goto
<1> DEFINE i == Found(files, job[c].path)
<1>1. /\ job \in [Captures -> [path : Paths, sha : Contents \cup {None}, prev : Ids \cup {0}]]
      /\ pc \in [Captures -> {"new", "hashed", "found", "put", "done"}]
  BY DEF RecordsTyped
<1>2. \/ i = 0
      \/ i \in Ids /\ i \in DOMAIN files /\ files[i].path = job[c].path
  BY FoundIs DEF RecordsTyped, Live
<1>3. job' = [job EXCEPT ![c].prev = i] /\ i \in Ids \cup {0}
  BY <1>2 DEF LookUp
<1> HIDE DEF i
<1>4. /\ job' \in [Captures -> [path : Paths, sha : Contents \cup {None}, prev : Ids \cup {0}]]
      /\ \A d \in Captures : job'[d].path = job[d].path /\ job'[d].sha = job[d].sha
      /\ \A d \in Captures \ {c} : job'[d] = job[d]
      /\ job'[c].prev = i
  BY <1>1, <1>3
<1>5. /\ pc[c] = "hashed" /\ pc' \in [Captures -> {"new", "hashed", "found", "put", "done"}]
      /\ \A d \in Captures \ {c} : pc'[d] = pc[d]
      /\ pc'[c] \in {"done", "found"}
  BY <1>1 DEF LookUp
<1>6. RecordsTyped'
  BY <1>4, <1>5 DEF LookUp, RecordsTyped
<1>7. CapturesInv'
  <2> SUFFICES ASSUME NEW d \in Captures
               PROVE  /\ pc'[d] \in {"hashed", "found", "put"} =>
                           job'[d].sha # None /\ (~torn => box[job'[d].path] = job'[d].sha)
                      /\ pc'[d] = "put" => objects[<<job'[d].path, job'[d].sha>>] # None
                      /\ job'[d].prev # 0 =>
                           job'[d].prev \in DOMAIN files /\ files[job'[d].prev].path = job'[d].path
    BY DEF LookUp, CapturesInv
  <2>1. CASE d # c
    BY <1>4, <1>5, <2>1 DEF CapturesInv
  <2>2. CASE d = c
    BY <1>2, <1>4, <1>5, <2>2 DEF CapturesInv
  <2> QED
    BY <2>1, <2>2
<1>8. UNCHANGED <<bag, files, collecting, torn, objects>> /\ KeysInv'
  BY DEF LookUp, KeysInv
<1> QED
  BY <1>6, <1>7, <1>8, LookingKeeps

LEMMA PutKeeps ==
  ASSUME RecordsInv, NEW c \in Captures, Put(c)
  PROVE  RecordsInv'
<1> USE DEF RecordsInv, bag, listing, collecting, Goto
<1> DEFINE p == job[c].path  sha == job[c].sha
<1>1. /\ job \in [Captures -> [path : Paths, sha : Contents \cup {None}, prev : Ids \cup {0}]]
      /\ pc \in [Captures -> {"new", "hashed", "found", "put", "done"}]
      /\ objects \in [Keys -> Contents \cup {None}] /\ pc[c] = "found"
  BY DEF Put, RecordsTyped
<1>2. sha # None /\ sha \in Contents /\ p \in Paths /\ (~torn => box[p] = sha)
  BY <1>1 DEF CapturesInv
<1>3. <<p, sha>> \in Keys
  BY <1>2 DEF Keys
<1>4. \/ objects' = objects /\ pc' = [pc EXCEPT ![c] = "done"]
      \/ /\ box[p] # None /\ objects' = [objects EXCEPT ![<<p, sha>>] = box[p]]
         /\ pc' = [pc EXCEPT ![c] = "put"]
  BY DEF Put
<1>5. box[p] \in Contents \cup {None}
  BY <1>2 DEF RecordsTyped
<1>6. UNCHANGED <<bag, files, collecting, job, torn>>
  BY DEF Put
<1> HIDE DEF p, sha
<1>7. /\ objects' \in [Keys -> Contents \cup {None}]
      /\ \A k \in Keys : objects[k] # None => objects'[k] # None
      /\ \A k \in Keys : objects'[k] = objects[k] \/ (k = <<p, sha>> /\ objects'[k] = box[p])
      /\ pc'[c] = "put" => objects'[<<p, sha>>] # None
  BY <1>1, <1>3, <1>4, <1>5
<1>8. /\ pc' \in [Captures -> {"new", "hashed", "found", "put", "done"}]
      /\ \A d \in Captures \ {c} : pc'[d] = pc[d]
      /\ pc'[c] \in {"done", "put"}
  BY <1>1, <1>4
<1>9. RecordsTyped'
  BY <1>6, <1>7, <1>8 DEF RecordsTyped
<1>10. KeysInv'
  <2> SUFFICES ASSUME ~torn, NEW k \in Keys PROVE objects'[k] \in {None, k[2]}
    BY <1>6 DEF KeysInv
  <2>1. CASE objects'[k] = objects[k]
    BY <2>1 DEF KeysInv
  <2>2. CASE k = <<p, sha>> /\ objects'[k] = box[p]
    BY <1>2, <2>2
  <2> QED
    BY <1>7, <2>1, <2>2
<1>11. CapturesInv'
  <2> SUFFICES ASSUME NEW d \in Captures
               PROVE  /\ pc'[d] \in {"hashed", "found", "put"} =>
                           job[d].sha # None /\ (~torn => box[job[d].path] = job[d].sha)
                      /\ pc'[d] = "put" => objects'[<<job[d].path, job[d].sha>>] # None
                      /\ job[d].prev # 0 =>
                           job[d].prev \in DOMAIN files /\ files[job[d].prev].path = job[d].path
    BY <1>6 DEF CapturesInv
  <2>1. CASE d # c
    <3>1. pc'[d] = pc[d]
      BY <1>8, <2>1
    <3>2. pc[d] = "put" => <<job[d].path, job[d].sha>> \in Keys
      BY <1>1 DEF CapturesInv, Keys
    <3> QED
      BY <1>7, <3>1, <3>2 DEF CapturesInv
  <2>2. CASE d = c
    BY <1>1, <1>2, <1>7, <2>2 DEF CapturesInv, p, sha
  <2> QED
    BY <2>1, <2>2
<1> QED
  BY <1>6, <1>7, <1>9, <1>10, <1>11, LookingKeeps

\* What a capture holds when it comes to keep it.
LEMMA KeepHolds ==
  ASSUME RecordsInv, NEW c \in Captures, Keep(c)
  PROVE  /\ job[c].path \in Paths /\ job[c].sha \in Contents
         /\ ~torn => box[job[c].path] = job[c].sha
         /\ objects[<<job[c].path, job[c].sha>>] # None
         /\ job[c].prev # 0 => job[c].prev \in DOMAIN files /\ files[job[c].prev].path = job[c].path
         /\ pc' \in [Captures -> {"new", "hashed", "found", "put", "done"}]
         /\ pc'[c] = "done" /\ \A d \in Captures \ {c} : pc'[d] = pc[d]
         /\ UNCHANGED <<bag, objects, collecting, job, torn>>
  BY DEF RecordsInv, Keep, Goto, CapturesInv, RecordsTyped

\* Some records change, as a capture changes them: of its path and with its digest.
LEMMA KeptKeeps ==
  ASSUME RecordsInv, NEW c \in Captures, Keep(c),
         NEW id \in Ids, id \notin DOMAIN tx, DOMAIN files' = DOMAIN files \cup {id},
         \A i \in DOMAIN files \ {id} : files'[i] = files[i],
         files'[id] \in FileRecord, files'[id].path = job[c].path, files'[id].sha = job[c].sha,
         id \in DOMAIN files =>
           files[id].path = job[c].path /\ files'[id].archived = files[id].archived,
         id \notin DOMAIN files => \A i \in DOMAIN View : View[i].path = job[c].path => View[i].archived
  PROVE  RecordsInv'
<1> USE DEF RecordsInv, bag, listing, collecting
<1> DEFINE p == job[c].path  sha == job[c].sha
<1>1. /\ p \in Paths /\ sha \in Contents /\ (~torn => box[p] = sha)
      /\ objects[<<p, sha>>] # None
      /\ pc' \in [Captures -> {"new", "hashed", "found", "put", "done"}]
      /\ pc'[c] = "done" /\ \A d \in Captures \ {c} : pc'[d] = pc[d]
      /\ UNCHANGED <<bag, objects, collecting, job, torn>>
  BY KeepHolds
<1>2. /\ DOMAIN View' = DOMAIN View \cup {id} /\ View'[id] = files'[id]
      /\ \A i \in DOMAIN View \ {id} : View'[i] = View[i]
  BY <1>1 DEF View, Over
<1>a. DOMAIN View' = DOMAIN tx' \cup DOMAIN files'
  BY DEF View, Over
<1>3. id \in DOMAIN files => View[id] = files[id]
  BY ViewIs
<1>4. RecordsTyped'
  BY <1>1 DEF RecordsTyped
<1>5. OneEachPath(View)'
  <2> SUFFICES ASSUME NEW i \in DOMAIN View', NEW j \in DOMAIN View',
                      ~View'[i].archived, ~View'[j].archived, View'[i].path = View'[j].path
               PROVE  i = j
    BY DEF OneEachPath
  <2>1. CASE i # id /\ j # id
    BY <1>2, <2>1 DEF OneEachPath
  <2>2. ASSUME NEW m \in DOMAIN View, m # id, ~View[m].archived, View[m].path = p,
               ~files'[id].archived
        PROVE  FALSE
    <3>1. id \in DOMAIN files
      BY <2>2
    <3>2. id \in DOMAIN View /\ ~View[id].archived /\ View[id].path = p
      BY <1>3, <2>2, <3>1, ViewIs
    <3> QED
      BY <2>2, <3>2 DEF OneEachPath
  <2> QED
    BY <1>2, <2>1, <2>2
<1>6. OneEachPath(files)'
  <2> SUFFICES ASSUME NEW i \in DOMAIN files', NEW j \in DOMAIN files',
                      ~files'[i].archived, ~files'[j].archived, files'[i].path = files'[j].path
               PROVE  i = j
    BY DEF OneEachPath
  <2>1. CASE i # id /\ j # id
    BY <2>1 DEF OneEachPath
  <2>2. ASSUME NEW m \in DOMAIN files, m # id, ~files[m].archived, files[m].path = p,
               ~files'[id].archived
        PROVE  FALSE
    <3>1. m \in DOMAIN View /\ View[m].path = p /\ ~View[m].archived
      BY <2>2, ViewCommitted
    <3>2. id \in DOMAIN files
      BY <3>1
    <3> QED
      BY <2>2, <3>2 DEF OneEachPath
  <2> QED
    BY <2>1, <2>2
<1>7. Uncommitted'
  <2>1. ASSUME NEW i \in DOMAIN tx
        PROVE  i # id /\ (i \notin DOMAIN files => tx[i].path # p \/ id \in DOMAIN files)
    <3>1. i \in DOMAIN View /\ View[i] = tx[i] /\ ~tx[i].archived
      BY ViewIs DEF Uncommitted
    <3> QED
      BY <3>1
  <2>2. \A i \in DOMAIN files : files'[i].path = files[i].path
    OBVIOUS
  <2>3. \A i \in DOMAIN files : files'[i].archived = files[i].archived
    OBVIOUS
  <2>4. ASSUME NEW i \in DOMAIN tx, i \in DOMAIN files'
        PROVE  files'[i].path = tx[i].path /\ ~files'[i].archived
    BY <2>1, <2>2, <2>3, <2>4 DEF Uncommitted
  <2>5. ASSUME NEW i \in DOMAIN tx, i \notin DOMAIN files', NEW j \in DOMAIN files',
               files'[j].path = tx[i].path
        PROVE  files'[j].archived
    <3>1. CASE j \in DOMAIN files
      BY <2>2, <2>3, <2>5, <3>1 DEF Uncommitted
    <3>2. CASE j \notin DOMAIN files
      BY <2>1, <2>5, <3>2
    <3> QED
      BY <3>1, <3>2
  <2> QED
    BY <1>1, <2>4, <2>5 DEF Uncommitted
<1>8. Storing'
  <2> SUFFICES ASSUME turn = "storing"
               PROVE  /\ taking.path \in listed \ todo
                      /\ taking.prev # 0 =>
                           /\ taking.prev \in DOMAIN tx \cup DOMAIN files'
                           /\ View'[taking.prev].path = taking.path /\ ~View'[taking.prev].archived
                      /\ taking.prev = 0 => \A i \in DOMAIN tx : tx[i].path # taking.path
    BY <1>1 DEF Storing
  <2>1. taking.prev # 0 => taking.prev \in DOMAIN View /\ View[taking.prev].path = taking.path
                             /\ ~View[taking.prev].archived
    BY ViewIs DEF Storing
  <2>2. \A i \in DOMAIN View : View'[i].path = View[i].path /\ View'[i].archived = View[i].archived
    BY <1>2, <1>3, ViewIs
  <2> QED
    BY <2>1, <2>2, ViewIs DEF Storing
<1>9. ListedInv' /\ KeysInv'
  BY <1>1 DEF ListedInv, KeysInv, Muddled
<1>10. BytesInv'
  BY <1>1 DEF BytesInv
<1>11. CapturesInv'
  <2>1. \A i \in DOMAIN files : i \in DOMAIN files' /\ files'[i].path = files[i].path
    OBVIOUS
  <2> QED
    BY <1>1, <2>1 DEF CapturesInv
<1>12. TakenInv'
  <2> SUFFICES ASSUME turn \in {"taking", "storing"}, ~torn, NEW q \in listed \ todo,
                      turn = "storing" => q # taking.path
               PROVE  \E i \in DOMAIN View' :
                        View'[i].path = q /\ ~View'[i].archived /\ View'[i].sha = box[q]
    BY <1>1, <1>a DEF TakenInv
  <2>1. PICK i \in DOMAIN View : View[i].path = q /\ ~View[i].archived /\ View[i].sha = box[q]
    BY ViewIs DEF TakenInv
  <2>2. CASE i # id
    BY <1>2, <2>1, <2>2
  <2>3. CASE i = id
    <3>1. id \in DOMAIN files /\ View[id] = files[id] /\ q = p
      BY <1>3, <2>1, <2>3, ViewIs
    <3> QED
      BY <1>1, <1>2, <2>1, <2>3, <3>1
  <2> QED
    BY <2>2, <2>3
<1>13. SettledInv'
  <2> SUFFICES ASSUME turn = "idle", reconciled, ~torn, ~cut, ~Muddled
               PROVE  /\ \A i \in DOMAIN files' : ~files'[i].archived => files'[i].sha = box[files'[i].path]
                      /\ \A q \in Paths : box[q] \notin Big \cup {None} =>
                           \E i \in DOMAIN files' : files'[i].path = q /\ ~files'[i].archived
    BY <1>1 DEF SettledInv, Muddled
  <2>1. \A i \in DOMAIN files' : ~files'[i].archived => files'[i].sha = box[files'[i].path]
    BY <1>1 DEF SettledInv
  <2>2. \A i \in DOMAIN files :
          i \in DOMAIN files' /\ files'[i].path = files[i].path /\ files'[i].archived = files[i].archived
    OBVIOUS
  <2> QED
    BY <2>1, <2>2 DEF SettledInv
<1> QED
  BY <1>4, <1>5, <1>6, <1>7, <1>8, <1>9, <1>10, <1>11, <1>12, <1>13

LEMMA KeepKeeps ==
  ASSUME RecordsInv, NEW c \in Captures, Keep(c)
  PROVE  RecordsInv'
<1> DEFINE p == job[c].path  sha == job[c].sha  i == job[c].prev
<1>1. /\ p \in Paths /\ sha \in Contents
      /\ i # 0 => i \in DOMAIN files /\ files[i].path = p
      /\ pc' \in [Captures -> {"new", "hashed", "found", "put", "done"}]
      /\ pc'[c] = "done" /\ \A d \in Captures \ {c} : pc'[d] = pc[d]
      /\ UNCHANGED <<bag, objects, collecting, job, torn>>
  BY KeepHolds
<1>2. RecordsTyped
  BY DEF RecordsInv
<1>3. CASE i # 0
  <2>1. i \notin DOMAIN tx /\ files' = [files EXCEPT ![i].sha = sha]
    BY <1>3 DEF Keep
  <2>2. files[i] \in FileRecord /\ i \in Ids
    BY <1>1, <1>2, <1>3 DEF RecordsTyped
  <2>3. files'[i] = [files[i] EXCEPT !.sha = sha]
    BY <1>1, <1>3, <2>1
  <2>4. /\ files'[i] \in FileRecord /\ files'[i].path = p /\ files'[i].sha = sha
        /\ files'[i].archived = files[i].archived
    BY <1>1, <1>3, <2>2, <2>3 DEF FileRecord
  <2>5. DOMAIN files' = DOMAIN files \cup {i} /\ \A j \in DOMAIN files \ {i} : files'[j] = files[j]
    BY <1>1, <1>3, <2>1
  <2> QED
    BY <1>1, <1>3, <2>1, <2>2, <2>4, <2>5, KeptKeeps
<1>4. CASE i = 0 /\ Live(files, p) # {}
  <2>1. files' = files
    BY <1>4 DEF Keep
  <2>2. RecordsTyped'
    BY <1>1, <1>2, <2>1 DEF RecordsTyped, bag, collecting, listing
  <2>3. CapturesInv' /\ KeysInv'
    BY <1>1, <2>1 DEF RecordsInv, CapturesInv, KeysInv, bag, collecting, listing
  <2> QED
    BY <1>1, <2>1, <2>2, <2>3, LookingKeeps
<1>5. CASE i = 0 /\ Live(files, p) = {}
  <2>1. /\ \A j \in Live(tx, p) : j \in DOMAIN files
        /\ Unused # {}
        /\ files' = Over([n \in {NewId} |-> Record(0, p, sha)], files)
    BY <1>5 DEF Keep
  <2>2. NewId \in Ids /\ NewId \notin DOMAIN View
    BY <2>1, NewIdIsUnused DEF Unused
  <2>3. NewId \notin DOMAIN tx /\ NewId \notin DOMAIN files
    BY <2>2, ViewIs
  <2>4. /\ DOMAIN files' = DOMAIN files \cup {NewId} /\ files'[NewId] = Record(0, p, sha)
        /\ \A j \in DOMAIN files \ {NewId} : files'[j] = files[j]
    BY <2>1 DEF Over
  <2>5. /\ files'[NewId] \in FileRecord /\ files'[NewId].path = p /\ files'[NewId].sha = sha
    BY <1>1, <2>4 DEF Record, FileRecord
  <2>6. \A j \in DOMAIN View : View[j].path = p => View[j].archived
    <3> SUFFICES ASSUME NEW j \in DOMAIN View, View[j].path = p, ~View[j].archived PROVE FALSE
      OBVIOUS
    <3>1. CASE j \in DOMAIN files
      BY <1>5, <3>1, ViewCommitted DEF Live
    <3>2. CASE j \notin DOMAIN files
      BY <2>1, <3>2, ViewIs DEF Live
    <3> QED
      BY <3>1, <3>2
  <2> QED
    BY <2>2, <2>3, <2>4, <2>5, <2>6, KeptKeeps
<1> QED
  BY <1>3, <1>4, <1>5

LEMMA RecordsStep == RecordsInv /\ [Next]_vars => RecordsInv'
<1> SUFFICES ASSUME RecordsInv, [Next]_vars PROVE RecordsInv'
  OBVIOUS
<1>1. CASE UNCHANGED vars
  <2> USE <1>1 DEF vars, RecordsInv
  <2>1. UNCHANGED <<bag, files, collecting, torn, objects>>
    BY DEF bag, collecting, listing
  <2>2. RecordsTyped' /\ CapturesInv' /\ KeysInv'
    BY DEF RecordsTyped, CapturesInv, KeysInv
  <2> QED
    BY <2>1, <2>2, LookingKeeps
<1>2. ASSUME NEW c \in Captures, Hash(c) \/ LookUp(c) \/ Put(c) \/ Keep(c) PROVE RecordsInv'
  BY <1>2, HashKeeps, LookUpKeeps, PutKeeps, KeepKeeps
<1> QED
  BY <1>1, <1>2, WriteKeeps, TurnsKeep, ListKeeps, TakeKeeps, StoreKeeps, ReleaseKeeps,
     CollectFailsKeeps DEF Next

LEMMA RecordsInvariant == Spec => []RecordsInv
  BY InitRecords, RecordsStep, PTL DEF Spec

\* The bytes behind a record are the ones its digest names, whoever stored them
\* and however many captures raced the collector (download_file, capture_file).
THEOREM DigestsTell == Spec => []DigestTells
<1>1. RecordsInv => DigestTells
  <2> SUFFICES ASSUME RecordsInv, ~torn, NEW i \in DOMAIN files
               PROVE  objects[<<files[i].path, files[i].sha>>] = files[i].sha
    BY DEF DigestTells
  <2>1. <<files[i].path, files[i].sha>> \in Keys
    BY DEF RecordsInv, RecordsTyped, FileRecord, Keys
  <2> QED
    BY <2>1 DEF RecordsInv, KeysInv, BytesInv
<1> QED
  BY <1>1, RecordsInvariant, PTL

LEMMA AtMostOne ==
  ASSUME NEW S, \A i, j \in S : i = j
  PROVE  Cardinality(S) <= 1
<1>1. CASE S = {}
  BY <1>1, FS_EmptySet
<1>2. ASSUME NEW i \in S PROVE Cardinality(S) <= 1
  <2>1. S = {i}
    OBVIOUS
  <2> QED
    <3>1. Cardinality({i}) = 1
      BY FS_Singleton
    <3> QED
      BY <2>1, <3>1
<1> QED
  BY <1>1, <1>2

\* After a whole collection the records are what is in outputs/, but for files that are
\* too big, and at all times a path has one live record (discover_outputs,
\* uq_files_live_scoped_path).
THEOREM RecordsAreTrue == Spec => []RecordsTell
<1>1. RecordsInv => RecordsTell
  <2> SUFFICES ASSUME RecordsInv PROVE RecordsMatch /\ OneRecordPerPath
    BY DEF RecordsTell
  <2>1. OneRecordPerPath
    <3> SUFFICES ASSUME NEW p \in Paths PROVE Cardinality(Live(files, p)) <= 1
      BY DEF OneRecordPerPath
    <3>1. \A i, j \in Live(files, p) : i = j
      BY DEF RecordsInv, OneEachPath, Live
    <3> QED
      BY <3>1, AtMostOne
  <2>2. RecordsMatch
    <3> SUFFICES ASSUME ~torn, turn = "idle", reconciled, ~cut, ~Muddled, NEW p \in Paths
                 PROVE  IF Found(files, p) = 0 THEN box[p] \in Big \cup {None}
                        ELSE files[Found(files, p)].sha = box[p]
      BY DEF RecordsMatch
    <3>1. \/ Found(files, p) = 0 /\ Live(files, p) = {}
          \/ Found(files, p) \in Live(files, p) /\ Found(files, p) # 0
      BY FoundIs DEF RecordsInv, RecordsTyped
    <3>2. CASE Live(files, p) = {} /\ Found(files, p) = 0
      BY <3>2 DEF RecordsInv, SettledInv, Live
    <3>3. CASE Found(files, p) \in Live(files, p) /\ Found(files, p) # 0
      BY <3>3 DEF RecordsInv, SettledInv, Live
    <3> QED
      BY <3>1, <3>2, <3>3
  <2> QED
    BY <2>1, <2>2
<1> QED
  BY <1>1, RecordsInvariant, PTL

LEMMA ArchivesGone ==
  RecordsInv /\ [Next]_vars /\ ~cut /\ ~Muddled =>
    \A i \in DOMAIN files :
      ~files[i].archived /\ files'[i].archived => box[files[i].path] \in Big \cup {None}
<1> SUFFICES ASSUME RecordsInv, [Next]_vars, ~cut, ~Muddled, NEW i \in DOMAIN files,
                    ~files[i].archived, files'[i].archived
             PROVE  box[files[i].path] \in Big \cup {None}
  OBVIOUS
<1>1. i \in DOMAIN View /\ View[i].path = files[i].path /\ ~View[i].archived
  BY ViewCommitted
<1>2. CASE Release
  <2>1. listed # {} /\ View[i].path \notin listed /\ turn = "taking"
    <3>1. files'[i] = [View[i] EXCEPT !.archived = @ \/ (listed # {} /\ View[i].path \notin listed)]
      BY <1>1, <1>2 DEF Release
    <3>2. View[i] \in FileRecord
      BY <1>1, ViewCommitted
    <3>3. files'[i].archived = (View[i].archived \/ (listed # {} /\ View[i].path \notin listed))
      BY <3>1, <3>2 DEF FileRecord
    <3> QED
      BY <1>1, <1>2, <3>3 DEF Release
  <2>2. View[i].path \in Paths
    BY <1>1, ViewCommitted DEF FileRecord
  <2> QED
    BY <1>1, <2>1, <2>2 DEF RecordsInv, ListedInv
<1>3. CASE CollectFails
  BY <1>1, <1>3 DEF CollectFails
<1>4. ASSUME NEW c \in Captures, Keep(c) PROVE FALSE
  <2>1. CASE job[c].prev # 0
    <3>1. files' = [files EXCEPT ![job[c].prev].sha = job[c].sha]
      BY <1>4, <2>1 DEF Keep
    <3>2. files[i] \in FileRecord
      BY DEF RecordsInv, RecordsTyped
    <3>3. files'[i] = files[i] \/ files'[i] = [files[i] EXCEPT !.sha = job[c].sha]
      BY <3>1
    <3> QED
      BY <3>2, <3>3 DEF FileRecord
  <2>2. CASE job[c].prev = 0 /\ files' = files
    BY <2>2
  <2>3. CASE job[c].prev = 0 /\ files' # files
    <3>1. Unused # {} /\ files' = Over([n \in {NewId} |-> Record(0, job[c].path, job[c].sha)], files)
      BY <1>4, <2>3 DEF Keep
    <3>2. NewId # i
      BY <1>1, <3>1, NewIdIsUnused DEF Unused
    <3> QED
      BY <3>1, <3>2 DEF Over
  <2> QED
    BY <2>1, <2>2, <2>3
<1>5. CASE UNCHANGED files
  BY <1>5
<1>6. Next => \/ UNCHANGED files \/ Release \/ CollectFails \/ \E c \in Captures : Keep(c)
  BY DEF Next, Write, NextTurn, StoreBytes, Sweep, List, Take, Hash, LookUp, Put
<1> QED
  BY <1>2, <1>3, <1>4, <1>5, <1>6 DEF vars

\* A record is archived only when its file is gone or too big, unless the listing was
\* cut or muddled (discover_outputs, list_files).
THEOREM ArchivedAreGone == Spec => ArchivedMeansGone
<1>1. RecordsInv /\ [Next]_vars =>
        [~cut /\ ~Muddled => \A i \in DOMAIN files :
           ~files[i].archived /\ files'[i].archived => box[files[i].path] \in Big \cup {None}]_vars
  BY ArchivesGone
<1> QED
  BY <1>1, RecordsInvariant, PTL DEF Spec, ArchivedMeansGone

(***************************************************************************)
(* Lists: a page is the first rows of the order.                           *)
(***************************************************************************)

LEMMA CountsAlike == \A S : P!Cardinality(S) = Cardinality(S)
  BY DEF P!Cardinality, Cardinality

LEMMA OrderIsTotal ==
  ASSUME NEW backwards \in BOOLEAN, NEW r \in P!Row, NEW s \in P!Row, NEW t \in P!Row
  PROVE  /\ ~P!Comes(r, r, backwards)
         /\ P!Comes(r, s, backwards) => ~P!Comes(s, r, backwards)
         /\ P!Comes(r, s, backwards) /\ P!Comes(s, t, backwards) => P!Comes(r, t, backwards)
         /\ r.id # s.id => P!Comes(r, s, backwards) \/ P!Comes(s, r, backwards)
<1>1. /\ r.at \in Nat /\ r.id \in Nat /\ s.at \in Nat /\ s.id \in Nat
      /\ t.at \in Nat /\ t.id \in Nat
  BY ListsAssumption DEF P!NumberAssumption, P!Row
<1>2. CASE backwards = TRUE
  BY <1>1, <1>2 DEF P!Comes, P!Before
<1>3. CASE backwards = FALSE
  BY <1>1, <1>3 DEF P!Comes, P!Before
<1> QED
  BY <1>2, <1>3

\* The rows of a table, or some of them: finitely many, told apart by their ids.
IsTable(rows) ==
  rows \subseteq P!Row /\ IsFiniteSet(rows) /\ \A r, s \in rows : r.id = s.id => r = s

\* Counting the rows up to each numbers them in order, from 1.
LEMMA RanksFollowOrder ==
  ASSUME NEW rows, IsTable(rows), NEW backwards \in BOOLEAN,
         NEW r \in rows, NEW s \in rows, P!Comes(s, r, backwards)
  PROVE  /\ Cardinality(P!UpTo(rows, s, backwards)) \in Nat
         /\ Cardinality(P!UpTo(rows, r, backwards)) \in Nat
         /\ Cardinality(P!UpTo(rows, s, backwards)) < Cardinality(P!UpTo(rows, r, backwards))
<1> DEFINE below == P!UpTo(rows, s, backwards)  above == P!UpTo(rows, r, backwards)
<1>1. below \subseteq rows /\ above \subseteq rows
  BY DEF P!UpTo
<1>2. below \subseteq above
  <2> SUFFICES ASSUME NEW t \in below PROVE t \in above
    OBVIOUS
  <2>1. t \in rows /\ (t = s \/ P!Comes(t, s, backwards))
    BY DEF P!UpTo
  <2>2. P!Comes(t, r, backwards)
    BY <2>1, OrderIsTotal DEF IsTable
  <2> QED
    BY <2>1, <2>2 DEF P!UpTo
<1>3. r \in above /\ r \notin below
  BY OrderIsTotal DEF IsTable, P!UpTo
<1>4. IsFiniteSet(above) /\ IsFiniteSet(below)
  BY <1>1, FS_Subset DEF IsTable
<1>5. Cardinality(below) <= Cardinality(above) /\ Cardinality(above) # Cardinality(below)
  BY <1>2, <1>3, <1>4, FS_Subset
<1> QED
  BY <1>4, <1>5, FS_CardinalityType

LEMMA RanksCover ==
  ASSUME NEW rows, IsTable(rows), NEW backwards \in BOOLEAN
  PROVE  /\ Cardinality(rows) \in Nat
         /\ \A r \in rows : Cardinality(P!UpTo(rows, r, backwards)) \in 1..Cardinality(rows)
         /\ \A r, s \in rows :
              Cardinality(P!UpTo(rows, r, backwards)) = Cardinality(P!UpTo(rows, s, backwards)) => r = s
         /\ \A n \in 1..Cardinality(rows) : \E r \in rows :
              Cardinality(P!UpTo(rows, r, backwards)) = n
<1> DEFINE N == Cardinality(rows)
           rank == [r \in rows |-> Cardinality(P!UpTo(rows, r, backwards))]
<1>1. N \in Nat
  BY FS_CardinalityType DEF IsTable
<1>2. ASSUME NEW r \in rows PROVE rank[r] \in 1..N
  <2>1. P!UpTo(rows, r, backwards) \subseteq rows /\ r \in P!UpTo(rows, r, backwards)
    BY DEF P!UpTo
  <2>2. /\ IsFiniteSet(P!UpTo(rows, r, backwards))
        /\ Cardinality(P!UpTo(rows, r, backwards)) <= N
    BY <2>1, FS_Subset DEF IsTable
  <2>3. Cardinality(P!UpTo(rows, r, backwards)) \in Nat
    BY <2>2, FS_CardinalityType
  <2>4. Cardinality(P!UpTo(rows, r, backwards)) # 0
    BY <2>1, <2>2, FS_EmptySet
  <2> QED
    BY <1>1, <2>2, <2>3, <2>4
<1>3. ASSUME NEW r \in rows, NEW s \in rows, rank[r] = rank[s] PROVE r = s
  <2> SUFFICES ASSUME r # s PROVE FALSE
    OBVIOUS
  <2>1. P!Comes(r, s, backwards) \/ P!Comes(s, r, backwards)
    BY OrderIsTotal DEF IsTable
  <2> QED
    BY <1>3, <2>1, RanksFollowOrder
<1>4. rank \in Injection(rows, 1..N)
  <2>1. rank \in [rows -> 1..N]
    BY <1>2
  <2> HIDE DEF rank
  <2> QED
    BY <1>3, <2>1 DEF Injection, IsInjective
<1>5. IsFiniteSet(1..N) /\ Cardinality(1..N) = N
  <2>1. Cardinality(1..N) = IF 1 > N THEN 0 ELSE N - 1 + 1
    BY <1>1, FS_Interval
  <2> QED
    BY <1>1, <2>1, FS_Interval
<1>6. rank \in Surjection(rows, 1..N)
  BY <1>4, <1>5, FS_Injection
<1>7. \A n \in 1..N : \E r \in rows : rank[r] = n
  BY <1>6 DEF Surjection
<1> QED
  BY <1>1, <1>2, <1>3, <1>7

LEMMA NthIs ==
  ASSUME NEW rows, IsTable(rows), NEW backwards \in BOOLEAN
  PROVE  /\ \A n \in 1..Cardinality(rows) :
              /\ P!Nth(rows, n, backwards) \in rows
              /\ Cardinality(P!UpTo(rows, P!Nth(rows, n, backwards), backwards)) = n
         /\ \A r \in rows : P!Nth(rows, Cardinality(P!UpTo(rows, r, backwards)), backwards) = r
<1>1. ASSUME NEW n \in 1..Cardinality(rows)
      PROVE  /\ P!Nth(rows, n, backwards) \in rows
             /\ Cardinality(P!UpTo(rows, P!Nth(rows, n, backwards), backwards)) = n
  <2>1. \E r \in rows : Cardinality(P!UpTo(rows, r, backwards)) = n
    BY RanksCover
  <2>2. PICK r \in rows : Cardinality(P!UpTo(rows, r, backwards)) = n
    BY <2>1
  <2> QED
    BY <2>2, CountsAlike DEF P!Nth
<1>2. ASSUME NEW r \in rows
      PROVE  P!Nth(rows, Cardinality(P!UpTo(rows, r, backwards)), backwards) = r
  <2> DEFINE n == Cardinality(P!UpTo(rows, r, backwards))  s == P!Nth(rows, n, backwards)
  <2>1. n \in 1..Cardinality(rows)
    BY RanksCover
  <2>2. s \in rows /\ Cardinality(P!UpTo(rows, s, backwards)) = n
    BY <1>1, <2>1
  <2> QED
    BY <2>2, RanksCover
<1> QED
  BY <1>1, <1>2

\* A page has rows past the cursor; if there are no more it has all of them, and
\* else those that it has not come after the last of them that was read.
LEMMA PageIsFirst ==
  ASSUME NEW cursor, NEW backwards \in BOOLEAN, IsTable(P!Beyond(cursor, backwards)),
         P!Limit \in Nat \ {0}
  PROVE  LET rows  == P!Beyond(cursor, backwards)
             items == P!FetchPage(cursor, backwards).items
             last  == IF backwards THEN 1 ELSE Len(items)
         IN /\ items \in Seq(rows)
            /\ P!FetchPage(cursor, backwards).more \in BOOLEAN
            /\ rows = {} => items = << >>
            /\ ~P!FetchPage(cursor, backwards).more =>
                 \A r \in rows : \E i \in 1..Len(items) : items[i] = r
            /\ P!FetchPage(cursor, backwards).more =>
                 /\ Len(items) >= 1
                 /\ \A r \in rows :
                      \/ \E i \in 1..Len(items) : items[i] = r
                      \/ P!Comes(items[last], r, backwards)
<1> DEFINE rows == P!Beyond(cursor, backwards)
           N == Cardinality(rows)
           size == IF N < P!Limit THEN N ELSE P!Limit
           place(i) == IF backwards THEN size + 1 - i ELSE i
           items == P!FetchPage(cursor, backwards).items
           rank(r) == Cardinality(P!UpTo(rows, r, backwards))
<1>1. /\ items = [i \in 1..size |-> P!Nth(rows, place(i), backwards)]
      /\ P!FetchPage(cursor, backwards).more = (N > P!Limit)
  BY CountsAlike DEF P!FetchPage
<1>2. N \in Nat /\ size \in Nat /\ size <= N /\ (N > P!Limit => size = P!Limit)
        /\ (~(N > P!Limit) => size = N)
  BY RanksCover
<1>3. \A i \in 1..size : place(i) \in 1..size /\ place(i) \in 1..N
  BY <1>2
<1>4. \A n \in 1..N : P!Nth(rows, n, backwards) \in rows /\ rank(P!Nth(rows, n, backwards)) = n
  BY NthIs
<1>5. \A r \in rows : rank(r) \in 1..N /\ P!Nth(rows, rank(r), backwards) = r
  BY NthIs, RanksCover
<1> HIDE DEF rows, N, size, items
<1>6. items \in Seq(rows) /\ Len(items) = size
  <2>1. items \in [1..size -> rows]
    BY <1>1, <1>3, <1>4
  <2>2. items \in Seq(rows)
    BY <1>2, <2>1, SeqDef
  <2>3. 1..Len(items) = 1..size /\ Len(items) \in Nat
    BY <2>1, <2>2, LenProperties
  <2> QED
    BY <1>2, <2>2, <2>3
<1>7. ASSUME NEW r \in rows, rank(r) <= size
      PROVE  \E i \in 1..size : items[i] = r
  <2> DEFINE i == place(rank(r))
  <2>1. i \in 1..size /\ place(i) = rank(r)
    BY <1>2, <1>5, <1>7
  <2>2. items[i] = P!Nth(rows, rank(r), backwards)
    BY <1>1, <2>1
  <2> QED
    BY <1>5, <2>1, <2>2
<1>8. ASSUME rows = {} PROVE items = << >>
  <2>1. N = 0 /\ size = 0
    BY <1>2, <1>8, FS_EmptySet DEF N
  <2> QED
    BY <1>6, <2>1, EmptySeq
<1>9. ASSUME ~(N > P!Limit), NEW r \in rows PROVE \E i \in 1..size : items[i] = r
  BY <1>2, <1>5, <1>7, <1>9
<1>10. ASSUME N > P!Limit, NEW r \in rows, ~\E i \in 1..size : items[i] = r
       PROVE  P!Comes(items[IF backwards THEN 1 ELSE size], r, backwards)
  <2> DEFINE e == items[IF backwards THEN 1 ELSE size]
  <2>1. rank(r) > size /\ rank(r) \in Nat /\ size \in 1..N
    BY <1>2, <1>5, <1>7, <1>10
  <2>2. e = P!Nth(rows, size, backwards)
    BY <1>1, <2>1
  <2>3. e \in rows /\ rank(e) = size
    BY <1>4, <2>1, <2>2
  <2>4. IsTable(rows) /\ r \in P!Row /\ e \in P!Row
    BY <2>3 DEF rows, IsTable
  <2>5. r # e /\ ~P!Comes(r, e, backwards)
    BY <2>1, <2>3, <2>4, RanksFollowOrder
  <2> QED
    BY <2>3, <2>4, <2>5, OrderIsTotal DEF IsTable
<1>11. N > P!Limit => size >= 1
  BY <1>2
<1>12. P!FetchPage(cursor, backwards).more \in BOOLEAN
  BY <1>1
<1> QED
  BY <1>1, <1>6, <1>8, <1>9, <1>10, <1>11, <1>12 DEF rows, items

(***************************************************************************)
(* Lists: the walk.                                                        *)
(***************************************************************************)

\* The row that the next page goes on from, or one that it could, is not in the table.
Gone == seen # << >> /\ (seen[1].id \in removed \/ seen[Len(seen)].id \in removed)

ListsTyped ==
  /\ IsTable(made) /\ seen \in Seq(made) /\ must \subseteq P!Shown /\ asked \in PageLimits
  /\ phase \in {"walking", "catching", "done", "refused"}

\* What the client set out for is among what it has, or beyond the end it goes on from.
Ahead ==
  /\ phase = "walking" /\ seen # << >> =>
       \A r \in must : r \in P!SetOf(seen) \/ P!Before(seen[Len(seen)], r)
  /\ phase = "catching" =>
       seen # << >> /\ (Gone \/ \A r \in must : r \in P!SetOf(seen) \/ P!Before(r, seen[1]))
  /\ phase = "done" => Gone \/ must \subseteq P!SetOf(seen)

ListsInv == ListsTyped /\ Ahead

LEMMA LimitIsFit == ListsTyped => P!Limit \in Nat \ {0}
  BY ListsAssumption DEF P!LimitAssumption, ListsTyped, P!Limit

LEMMA InitLists == P!Init => ListsInv
<1> SUFFICES ASSUME P!Init PROVE ListsInv
  OBVIOUS
<1>1. IsTable(made)
  BY DEF P!Init, IsTable, P!IsFiniteSet, IsFiniteSet
<1> QED
  BY <1>1, EmptySeq DEF P!Init, ListsInv, ListsTyped, Ahead

LEMMA BeyondIsTable ==
  ASSUME ListsTyped, NEW cursor, NEW backwards
  PROVE  P!Shown \subseteq made /\ IsTable(P!Beyond(cursor, backwards))
<1>1. P!Shown \subseteq made /\ P!Beyond(cursor, backwards) \subseteq made
  BY DEF P!Shown, P!Listed, P!Beyond
<1>2. IsFiniteSet(P!Beyond(cursor, backwards))
  BY <1>1, FS_Subset DEF ListsTyped, IsTable
<1> QED
  BY <1>1, <1>2 DEF ListsTyped, IsTable

\* Past a row that is in the table are the rows that the order puts after it.
LEMMA BeyondIs ==
  ASSUME ListsTyped, NEW e \in made, NEW backwards \in BOOLEAN
  PROVE  /\ e.id # 0
         /\ e.id \in removed => P!Beyond(e.id, backwards) = {}
         /\ e.id \notin removed =>
              P!Beyond(e.id, backwards) = {r \in P!Shown : P!Comes(e, r, backwards)}
<1>1. e.id # 0
  BY ListsAssumption DEF P!NumberAssumption, ListsTyped, IsTable, P!Row
<1>2. \A a \in made : a.id = e.id => a = e
  BY DEF ListsTyped, IsTable
<1> QED
  BY <1>1, <1>2 DEF P!Beyond
\* Joining two sequences joins what they hold, and keeps the ends.
LEMMA Joined ==
  ASSUME NEW S, NEW s \in Seq(S), NEW t \in Seq(S)
  PROVE  /\ s \o t \in Seq(S)
         /\ \A r : r \in P!SetOf(s \o t) <=> r \in P!SetOf(s) \/ r \in P!SetOf(t)
         /\ s = << >> => s \o t = t
         /\ t = << >> => s \o t = s
         /\ s # << >> => s \o t # << >> /\ (s \o t)[1] = s[1]
         /\ t # << >> => s \o t # << >> /\ (s \o t)[Len(s \o t)] = t[Len(t)]
<1>1. /\ s \o t \in Seq(S) /\ Len(s \o t) = Len(s) + Len(t)
      /\ \A i \in 1..(Len(s) + Len(t)) :
           (s \o t)[i] = IF i <= Len(s) THEN s[i] ELSE t[i - Len(s)]
  BY ConcatProperties
<1>2. /\ Len(s) \in Nat /\ DOMAIN s = 1..Len(s)
      /\ Len(t) \in Nat /\ DOMAIN t = 1..Len(t) /\ DOMAIN (s \o t) = 1..(Len(s) + Len(t))
  BY <1>1, LenProperties
<1>3. ASSUME NEW r, r \in P!SetOf(s \o t) PROVE r \in P!SetOf(s) \/ r \in P!SetOf(t)
  <2>1. PICK i \in 1..(Len(s) + Len(t)) : (s \o t)[i] = r
    BY <1>2, <1>3 DEF P!SetOf
  <2>2. CASE i <= Len(s)
    BY <1>1, <1>2, <2>1, <2>2 DEF P!SetOf
  <2>3. CASE i > Len(s)
    <3>1. i - Len(s) \in 1..Len(t) /\ t[i - Len(s)] = r
      BY <1>1, <1>2, <2>1, <2>3
    <3> QED
      BY <1>2, <3>1 DEF P!SetOf
  <2> QED
    BY <1>2, <2>2, <2>3
<1>4. ASSUME NEW r, r \in P!SetOf(s) PROVE r \in P!SetOf(s \o t)
  <2>1. PICK i \in 1..Len(s) : s[i] = r
    BY <1>2, <1>4 DEF P!SetOf
  <2>2. i \in 1..(Len(s) + Len(t)) /\ (s \o t)[i] = r
    BY <1>1, <1>2, <2>1
  <2> QED
    BY <1>2, <2>2 DEF P!SetOf
<1>5. ASSUME NEW r, r \in P!SetOf(t) PROVE r \in P!SetOf(s \o t)
  <2>1. PICK i \in 1..Len(t) : t[i] = r
    BY <1>2, <1>5 DEF P!SetOf
  <2>2. i + Len(s) \in 1..(Len(s) + Len(t)) /\ (s \o t)[i + Len(s)] = r
    BY <1>1, <1>2, <2>1
  <2> QED
    BY <1>2, <2>2 DEF P!SetOf
<1>6. (s = << >> => s \o t = t) /\ (t = << >> => s \o t = s)
  BY ConcatEmptySeq
<1>7. (s # << >> => Len(s) >= 1) /\ (t # << >> => Len(t) >= 1)
  BY <1>2, EmptySeq
<1>8. Len(s) + Len(t) >= 1 => s \o t # << >>
  BY <1>1, EmptySeq
<1>9. s # << >> => (s \o t)[1] = s[1]
  BY <1>1, <1>2, <1>7
<1>10. t # << >> => (s \o t)[Len(s \o t)] = t[Len(t)]
  BY <1>1, <1>2, <1>7
<1>11. \A r : r \in P!SetOf(s \o t) <=> r \in P!SetOf(s) \/ r \in P!SetOf(t)
  BY <1>3, <1>4, <1>5
<1>12. s # << >> => s \o t # << >>
  BY <1>2, <1>7, <1>8
<1>13. t # << >> => s \o t # << >>
  BY <1>2, <1>7, <1>8
<1> QED
  BY <1>1, <1>6, <1>9, <1>10, <1>11, <1>12, <1>13

\* Going on from a row that is in the table, a page has what comes next, all of it
\* unless there is more; from one that is not, it has nothing.
LEMMA PageFrom ==
  ASSUME ListsTyped, NEW e \in made, NEW backwards \in BOOLEAN
  PROVE  LET page  == P!FetchPage(e.id, backwards)
             last  == IF backwards THEN 1 ELSE Len(page.items)
         IN /\ page.items \in Seq(made) /\ page.more \in BOOLEAN
            /\ e.id \in removed => page.items = << >> /\ ~page.more
            /\ e.id \notin removed /\ ~page.more =>
                 \A r \in P!Shown : P!Comes(e, r, backwards) => r \in P!SetOf(page.items)
            /\ e.id \notin removed /\ page.more =>
                 /\ page.items # << >>
                 /\ \A r \in P!Shown : P!Comes(e, r, backwards) =>
                      r \in P!SetOf(page.items) \/ P!Comes(page.items[last], r, backwards)
<1> DEFINE rows == P!Beyond(e.id, backwards)
           page == P!FetchPage(e.id, backwards)
           last == IF backwards THEN 1 ELSE Len(page.items)
<1>1. rows \subseteq made /\ IsTable(rows) /\ P!Limit \in Nat \ {0}
  BY BeyondIsTable, LimitIsFit DEF P!Beyond
<1>2. /\ page.items \in Seq(rows) /\ page.more \in BOOLEAN
      /\ rows = {} => page.items = << >>
      /\ ~page.more => \A r \in rows : \E i \in 1..Len(page.items) : page.items[i] = r
      /\ page.more =>
           /\ Len(page.items) >= 1
           /\ \A r \in rows : \/ \E i \in 1..Len(page.items) : page.items[i] = r
                              \/ P!Comes(page.items[last], r, backwards)
  BY <1>1, PageIsFirst
<1>3. /\ e.id \in removed => rows = {}
      /\ e.id \notin removed => rows = {r \in P!Shown : P!Comes(e, r, backwards)}
  BY BeyondIs
<1>4. rows = {} => ~page.more
  <2>1. rows = {} => Cardinality(rows) = 0
    BY FS_EmptySet
  <2>2. page.more = (Cardinality(rows) > P!Limit)
    BY CountsAlike DEF P!FetchPage
  <2>3. rows = {} => ~(Cardinality(rows) > P!Limit)
    BY <1>1, <2>1
  <2> HIDE DEF rows, page
  <2> QED
    BY <2>2, <2>3
<1> HIDE DEF rows, page, last
<1>5. page.items \in Seq(made) /\ DOMAIN page.items = 1..Len(page.items)
  <2>1. Len(page.items) \in Nat /\ page.items \in [1..Len(page.items) -> rows]
    BY <1>2, LenProperties
  <2> QED
    BY <1>1, <2>1, SeqDef
<1>6. \A r : (\E i \in 1..Len(page.items) : page.items[i] = r) => r \in P!SetOf(page.items)
  BY <1>5 DEF P!SetOf
<1>7. page.more => page.items # << >>
  BY <1>2, EmptySeq
<1>8. ASSUME e.id \notin removed, NEW r \in P!Shown, P!Comes(e, r, backwards) PROVE r \in rows
  BY <1>3, <1>8
<1> QED
  BY <1>2, <1>3, <1>4, <1>5, <1>6, <1>7, <1>8 DEF page, last


LEMMA WalkOnStep == ListsInv /\ P!WalkOn => ListsInv'
<1> SUFFICES ASSUME ListsInv, P!WalkOn PROVE ListsInv'
  OBVIOUS
<1> DEFINE after == IF seen = << >> THEN 0 ELSE seen[Len(seen)].id
           page == P!FetchPage(after, FALSE)
<1>1. /\ phase = "walking" /\ seen' = seen \o page.items
      /\ phase' = IF page.more THEN "walking" ELSE "done"
      /\ UNCHANGED <<kind, window, asked, made, hidden, removed, must>>
  BY DEF P!WalkOn, P!DecodeCursor, P!EncodeCursor, P!IdAt, P!list, P!table
<1>2. P!Shown' = P!Shown /\ IsTable(made)' /\ IsTable(made)
  BY <1>1 DEF ListsInv, ListsTyped, P!Shown, P!Listed, IsTable
<1>3. seen \in Seq(made) /\ must \subseteq P!Shown /\ ListsTyped
  BY DEF ListsInv, ListsTyped
<1>4. CASE seen = << >>
  <2>1. after = 0 /\ P!Beyond(0, FALSE) = P!Shown /\ P!Limit \in Nat \ {0}
    BY <1>3, <1>4, LimitIsFit DEF P!Beyond
  <2>2. P!Shown \subseteq made /\ IsTable(P!Beyond(0, FALSE))
    BY <1>3, BeyondIsTable
  <2> HIDE DEF page, after
  <2>3. page = P!FetchPage(0, FALSE)
    BY <2>1 DEF page
  <2>4. /\ page.items \in Seq(P!Shown) /\ page.more \in BOOLEAN
        /\ ~page.more =>
             \A r \in P!Shown : \E i \in 1..Len(page.items) : page.items[i] = r
        /\ page.more =>
             /\ Len(page.items) >= 1
             /\ \A r \in P!Shown : \/ \E i \in 1..Len(page.items) : page.items[i] = r
                                   \/ P!Comes(page.items[Len(page.items)], r, FALSE)
    <3> DEFINE items == P!FetchPage(0, FALSE).items
    <3>1. /\ items \in Seq(P!Beyond(0, FALSE)) /\ P!FetchPage(0, FALSE).more \in BOOLEAN
          /\ ~P!FetchPage(0, FALSE).more =>
               \A r \in P!Beyond(0, FALSE) : \E i \in 1..Len(items) : items[i] = r
          /\ P!FetchPage(0, FALSE).more =>
               /\ Len(items) >= 1
               /\ \A r \in P!Beyond(0, FALSE) : \/ \E i \in 1..Len(items) : items[i] = r
                                                \/ P!Comes(items[Len(items)], r, FALSE)
      BY <2>1, <2>2, PageIsFirst
    <3> QED
      BY <2>1, <2>3, <3>1
  <2>5. page.items \in Seq(made) /\ DOMAIN page.items = 1..Len(page.items)
    <3>1. Len(page.items) \in Nat /\ page.items \in [1..Len(page.items) -> P!Shown]
      BY <2>4, LenProperties
    <3> QED
      BY <2>2, <3>1, SeqDef
  <2>6. seen' = page.items
    BY <1>1, <1>4, <2>5, ConcatEmptySeq
  <2>7. \A r : (\E i \in 1..Len(page.items) : page.items[i] = r) => r \in P!SetOf(seen)'
    BY <2>5, <2>6 DEF P!SetOf
  <2>8. page.more => \A r \in must : r \in P!SetOf(seen)' \/ P!Before(seen[Len(seen)], r)'
    BY <1>3, <2>4, <2>6, <2>7 DEF P!Comes, P!Before
  <2>9. ~page.more => must \subseteq P!SetOf(seen)'
    BY <1>3, <2>4, <2>7
  <2>10. ListsTyped'
    BY <1>1, <1>2, <1>3, <2>5, <2>6 DEF ListsTyped
  <2>11. Ahead'
    BY <1>1, <2>8, <2>9 DEF Ahead
  <2> QED
    BY <2>10, <2>11 DEF ListsInv
<1>5. CASE seen # << >>
  <2> DEFINE e == seen[Len(seen)]
  <2>1. after = e.id /\ e \in made
    BY <1>3, <1>5, EmptySeq, ElementOfSeq
  <2> HIDE DEF page, after
  <2>2. page = P!FetchPage(e.id, FALSE)
    BY <2>1 DEF page
  <2>3. /\ page.items \in Seq(made) /\ page.more \in BOOLEAN
        /\ e.id \in removed => page.items = << >> /\ ~page.more
        /\ e.id \notin removed /\ ~page.more =>
             \A r \in P!Shown : P!Comes(e, r, FALSE) => r \in P!SetOf(page.items)
        /\ e.id \notin removed /\ page.more =>
             /\ page.items # << >>
             /\ \A r \in P!Shown : P!Comes(e, r, FALSE) =>
                  \/ r \in P!SetOf(page.items)
                  \/ P!Comes(page.items[Len(page.items)], r, FALSE)
    BY <1>3, <2>1, <2>2, PageFrom
  <2>4. /\ seen' \in Seq(made)
        /\ \A r : r \in P!SetOf(seen)' <=> r \in P!SetOf(seen) \/ r \in P!SetOf(page.items)
        /\ page.items = << >> => seen' = seen
        /\ page.items # << >> =>
             seen' # << >> /\ seen'[Len(seen')] = page.items[Len(page.items)]
    <3>1. seen' = seen \o page.items
      BY <1>1
    <3>2. \A r : r \in P!SetOf(seen \o page.items) <=>
                   r \in P!SetOf(seen) \/ r \in P!SetOf(page.items)
      BY <1>3, <2>3, Joined
    <3>3. P!SetOf(seen)' = P!SetOf(seen \o page.items)
      BY <3>1 DEF P!SetOf
    <3> QED
      BY <1>3, <2>3, <3>1, <3>2, <3>3, Joined
  <2>5. ListsTyped'
    BY <1>1, <1>2, <1>3, <2>4 DEF ListsTyped
  <2>6. \A r \in must : r \in P!SetOf(seen) \/ P!Comes(e, r, FALSE)
    BY <1>1, <1>5 DEF ListsInv, Ahead, P!Comes
  <2>7. CASE e.id \in removed
    <3>1. seen' = seen /\ phase' = "done" /\ removed' = removed
      BY <1>1, <2>3, <2>4, <2>7
    <3>2. Gone'
      BY <1>5, <2>7, <3>1 DEF Gone
    <3> QED
      BY <2>5, <3>1, <3>2 DEF ListsInv, Ahead
  <2>8. CASE e.id \notin removed /\ page.more
    <3>1. \A r \in must : r \in P!SetOf(seen)' \/ P!Comes(page.items[Len(page.items)], r, FALSE)
      BY <1>3, <2>3, <2>4, <2>6, <2>8
    <3>2. \A r \in must : r \in P!SetOf(seen)' \/ P!Before(seen[Len(seen)], r)'
      BY <2>3, <2>4, <2>8, <3>1 DEF P!Comes, P!Before
    <3> QED
      BY <1>1, <2>5, <2>8, <3>2 DEF ListsInv, Ahead
  <2>9. CASE e.id \notin removed /\ ~page.more
    <3>1. must \subseteq P!SetOf(seen)'
      BY <1>3, <2>3, <2>4, <2>6, <2>9
    <3> QED
      BY <1>1, <2>5, <2>9, <3>1 DEF ListsInv, Ahead
  <2> QED
    BY <2>7, <2>8, <2>9
<1> QED
  BY <1>4, <1>5

LEMMA LookAgainStep == ListsInv /\ P!LookAgain => ListsInv'
<1> SUFFICES ASSUME ListsInv, P!LookAgain PROVE ListsInv'
  OBVIOUS
<1>1. /\ phase = "done" /\ phase' = "catching" /\ seen # << >>
      /\ must' = must \cup {r \in P!Shown : P!Before(r, seen[1])}
      /\ UNCHANGED <<kind, window, asked, made, hidden, removed, seen>>
  BY DEF P!LookAgain, P!list, P!table
<1>2. P!Shown' = P!Shown /\ IsTable(made)'
  BY <1>1 DEF ListsInv, ListsTyped, P!Shown, P!Listed, IsTable
<1>3. ListsTyped'
  BY <1>1, <1>2 DEF ListsInv, ListsTyped
<1>4. Gone' = Gone
  BY <1>1 DEF Gone
<1>5. Gone \/ \A r \in must' : r \in P!SetOf(seen) \/ P!Before(r, seen[1])
  BY <1>1 DEF ListsInv, Ahead
<1>6. P!SetOf(seen)' = P!SetOf(seen) /\ \A r : P!Before(r, seen[1])' = P!Before(r, seen[1])
  BY <1>1 DEF P!SetOf, P!Before
<1>7. Ahead'
  BY <1>1, <1>4, <1>5, <1>6 DEF Ahead
<1> QED
  BY <1>3, <1>7 DEF ListsInv

LEMMA CatchUpStep == ListsInv /\ P!CatchUp => ListsInv'
<1> SUFFICES ASSUME ListsInv, P!CatchUp PROVE ListsInv'
  OBVIOUS
<1> DEFINE e == seen[1]
           page == P!FetchPage(e.id, TRUE)
<1>1. phase = "catching" /\ seen # << >>
  BY DEF P!CatchUp, ListsInv, Ahead
<1>2. /\ seen' = page.items \o seen
      /\ phase' = IF page.more THEN "catching" ELSE "done"
      /\ UNCHANGED <<kind, window, asked, made, hidden, removed, must>>
  BY <1>1 DEF P!CatchUp, P!IdAt, P!list, P!table
<1>3. P!Shown' = P!Shown /\ IsTable(made)'
  BY <1>2 DEF ListsInv, ListsTyped, P!Shown, P!Listed, IsTable
<1>4. seen \in Seq(made) /\ must \subseteq P!Shown /\ ListsTyped /\ e \in made
  BY <1>1, EmptySeq, ElementOfSeq, LenProperties DEF ListsInv, ListsTyped
<1>5. /\ page.items \in Seq(made) /\ page.more \in BOOLEAN
      /\ e.id \in removed => page.items = << >> /\ ~page.more
      /\ e.id \notin removed /\ ~page.more =>
           \A r \in P!Shown : P!Comes(e, r, TRUE) => r \in P!SetOf(page.items)
      /\ e.id \notin removed /\ page.more =>
           /\ page.items # << >>
           /\ \A r \in P!Shown : P!Comes(e, r, TRUE) =>
                r \in P!SetOf(page.items) \/ P!Comes(page.items[1], r, TRUE)
  BY <1>4, PageFrom
<1> HIDE DEF page
<1>6. /\ seen' \in Seq(made) /\ seen' # << >> /\ seen'[Len(seen')] = seen[Len(seen)]
      /\ \A r : r \in P!SetOf(seen)' <=> r \in P!SetOf(seen) \/ r \in P!SetOf(page.items)
      /\ page.items = << >> => seen' = seen
      /\ page.items # << >> => seen'[1] = page.items[1]
  <2>1. \A r : r \in P!SetOf(page.items \o seen) <=>
                 r \in P!SetOf(page.items) \/ r \in P!SetOf(seen)
    BY <1>4, <1>5, Joined
  <2>2. P!SetOf(seen)' = P!SetOf(page.items \o seen)
    BY <1>2 DEF P!SetOf
  <2>3. /\ page.items \o seen \in Seq(made) /\ page.items \o seen # << >>
        /\ (page.items \o seen)[Len(page.items \o seen)] = seen[Len(seen)]
        /\ page.items = << >> => page.items \o seen = seen
        /\ page.items # << >> => (page.items \o seen)[1] = page.items[1]
    BY <1>1, <1>4, <1>5, Joined
  <2> QED
    BY <1>2, <2>1, <2>2, <2>3
<1>7. ListsTyped'
  BY <1>2, <1>3, <1>4, <1>6 DEF ListsTyped
<1>8. Gone \/ \A r \in must : r \in P!SetOf(seen) \/ P!Comes(e, r, TRUE)
  BY <1>1 DEF ListsInv, Ahead, P!Comes
<1>9. CASE e.id \in removed
  <2>1. seen' = seen /\ phase' = "done" /\ removed' = removed
    BY <1>2, <1>5, <1>6, <1>9
  <2>2. Gone'
    BY <1>1, <1>9, <2>1 DEF Gone
  <2> QED
    BY <1>7, <2>1, <2>2 DEF ListsInv, Ahead
<1>10. CASE e.id \notin removed /\ Gone
  <2>1. Gone'
    BY <1>2, <1>6, <1>10 DEF Gone
  <2> QED
    BY <1>2, <1>6, <1>7, <2>1 DEF ListsInv, Ahead
<1>11. CASE e.id \notin removed /\ ~Gone /\ page.more
  <2>1. \A r \in must : r \in P!SetOf(seen)' \/ P!Comes(page.items[1], r, TRUE)
    BY <1>4, <1>5, <1>6, <1>8, <1>11
  <2>2. \A r \in must : r \in P!SetOf(seen)' \/ P!Before(r, seen[1])'
    BY <1>5, <1>6, <1>11, <2>1 DEF P!Comes, P!Before
  <2> QED
    BY <1>2, <1>6, <1>7, <1>11, <2>2 DEF ListsInv, Ahead
<1>12. CASE e.id \notin removed /\ ~Gone /\ ~page.more
  <2>1. must \subseteq P!SetOf(seen)'
    BY <1>4, <1>5, <1>6, <1>8, <1>12
  <2> QED
    BY <1>2, <1>7, <1>12, <2>1 DEF ListsInv, Ahead
<1> QED
  BY <1>9, <1>10, <1>11, <1>12

LEMMA InsertStep == ASSUME NEW r \in P!Row PROVE ListsInv /\ P!Insert(r) => ListsInv'
<1> SUFFICES ASSUME ListsInv, P!Insert(r) PROVE ListsInv'
  OBVIOUS
<1>1. /\ \A s \in made : s.id # r.id
      /\ made' = made \cup {r}
      /\ UNCHANGED <<kind, window, asked, hidden, removed, seen, must, phase>>
  BY DEF P!Insert, P!list, P!client
<1>2. IsTable(made)'
  <2>1. IsFiniteSet(made \cup {r})
    BY FS_AddElement DEF ListsInv, ListsTyped, IsTable
  <2> QED
    BY <1>1, <2>1 DEF ListsInv, ListsTyped, IsTable
<1>3. P!Shown \subseteq P!Shown'
  BY <1>1 DEF P!Shown, P!Listed
<1>4. seen' \in Seq(made')
  <2>1. Len(seen) \in Nat /\ seen \in [1..Len(seen) -> made]
    BY LenProperties DEF ListsInv, ListsTyped
  <2> QED
    BY <1>1, <2>1, SeqDef
<1>5. ListsTyped'
  BY <1>1, <1>2, <1>3, <1>4 DEF ListsInv, ListsTyped
<1>6. Gone' = Gone /\ P!SetOf(seen)' = P!SetOf(seen)
  BY <1>1 DEF Gone, P!SetOf
<1>7. Ahead'
  BY <1>1, <1>6 DEF ListsInv, Ahead, P!Before
<1> QED
  BY <1>5, <1>7 DEF ListsInv

LEMMA DeleteStep == ASSUME NEW r \in P!Row PROVE ListsInv /\ P!Delete(r) => ListsInv'
<1> SUFFICES ASSUME ListsInv, P!Delete(r) PROVE ListsInv'
  OBVIOUS
<1>1. /\ r \in made /\ hidden' = hidden \cup {r.id} /\ removed \subseteq removed'
      /\ must' = must \ {r}
      /\ UNCHANGED <<kind, window, asked, made, seen, phase>>
  BY DEF P!Delete, P!Listed, P!list
<1>2. \A s \in made : s.id = r.id => s = r
  BY <1>1 DEF ListsInv, ListsTyped, IsTable
<1>3. must' \subseteq P!Shown'
  BY <1>1, <1>2 DEF ListsInv, ListsTyped, P!Shown, P!Listed
<1>4. ListsTyped'
  BY <1>1, <1>3 DEF ListsInv, ListsTyped, IsTable
<1>5. (Gone => Gone') /\ P!SetOf(seen)' = P!SetOf(seen)
  BY <1>1 DEF Gone, P!SetOf
<1>6. Ahead'
  BY <1>1, <1>5 DEF ListsInv, Ahead, P!Before
<1> QED
  BY <1>4, <1>6 DEF ListsInv

LEMMA ListsStep == ListsInv /\ [P!Next]_(P!vars) => ListsInv'
<1> SUFFICES ASSUME ListsInv, [P!Next]_(P!vars) PROVE ListsInv'
  OBVIOUS
<1>1. ASSUME \/ UNCHANGED P!vars
             \/ \E from \in {kind, "another"} : P!Refuse(from)
      PROVE  ListsInv'
  <2>1. /\ UNCHANGED <<kind, window, asked, made, hidden, removed, seen, must>>
        /\ phase' = phase \/ phase' = "refused"
    BY <1>1 DEF P!Refuse, P!vars, P!list, P!table, P!client
  <2>2. ListsTyped'
    BY <2>1 DEF ListsInv, ListsTyped, IsTable, P!Shown, P!Listed
  <2>3. Gone' = Gone /\ P!SetOf(seen)' = P!SetOf(seen)
    BY <2>1 DEF Gone, P!SetOf
  <2>4. Ahead'
    BY <2>1, <2>3 DEF ListsInv, Ahead, P!Before
  <2> QED
    BY <2>2, <2>4 DEF ListsInv
<1>2. ASSUME NEW r \in P!Row, P!Insert(r) \/ P!Delete(r) PROVE ListsInv'
  BY <1>2, InsertStep, DeleteStep
<1> QED
  BY <1>1, <1>2, WalkOnStep, LookAgainStep, CatchUpStep DEF P!Next

\* A client that walks a list to its end by cursors, while rows come and go, has seen
\* every row that was listed when it set out and still is, and, catching up, every newer
\* one it went back for, unless the row its cursor names has left the table (fetch_page,
\* app/db/queries/__init__.py).
THEOREM WalksAreWhole == P!Spec => []WalkIsWhole
<1>1. P!Init => ListsInv
  BY InitLists
<1>2. ListsInv /\ [P!Next]_(P!vars) => ListsInv'
  BY ListsStep
<1>3. ListsInv => WalkIsWhole
  <2> SUFFICES ASSUME ListsInv, phase = "done",
                      {P!IdAt(1), P!IdAt(Len(seen))} \cap removed = {}
               PROVE  must \subseteq P!SetOf(seen)
    BY DEF WalkIsWhole, P!WalkIsWhole
  <2>1. ~Gone
    BY DEF Gone, P!IdAt
  <2> QED
    BY <2>1 DEF ListsInv, Ahead
<1> QED
  BY <1>1, <1>2, <1>3, PTL DEF P!Spec
===============================================================================
