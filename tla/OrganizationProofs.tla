-------------------------- MODULE OrganizationProofs --------------------------
(***************************************************************************)
(* What an organization holds, proved for any number of requests: its      *)
(* accounts with the provider keys behind them (Accounts), and its API     *)
(* keys (ApiKeys, here K).  The two have nothing in common.                *)
(***************************************************************************)
EXTENDS MCOrganization, TLAPS

(***************************************************************************)
(* Accounts: the rows, and the keys that the provider has made.            *)
(***************************************************************************)

Working == {"insert", "skimmed", "listing", "minting", "recording",
            "updating", "reread", "recred", "writing"}
Chosen  == {"updating", "reread", "recred", "writing"}  \* a switch that changes something

State == {"none", "provisioning", "active", "suspended"}

AccountsType ==
  /\ status \in [Accts -> State] /\ cred \in [Accts -> {"none", "active", "suspended"}]
  /\ minted \in [Accts -> Nat] /\ enabled \in [Accts -> BOOLEAN]
  /\ pc \in [Reqs -> {"new"} \cup Working \cup Ended] /\ acct \in [Reqs -> Accts \cup {None}]
  /\ copy \in [Switches -> [status : State, cred : {"none", "active", "suspended"}]]
  /\ met \subseteq {Ensures, Switches}

\* No two rows stand for one intent, and a row that is not there has no key.
RowsApart ==
  /\ \A a, b \in Rows : ({a, b} \subseteq Ensures \/ {a, b} \subseteq Retries) => a = b
  /\ \A a \in Accts :
       pc[a] \in {"new", "insert", "skimmed"} => status[a] = "none" /\ minted[a] = 0

\* The account a request works on is there, and is its own or of its intent.
Apt(r, a) == a = r \/ {a, r} \subseteq Ensures \/ {a, r} \subseteq Retries
AccountsMatch ==
  /\ \A r \in Accts :
       /\ acct[r] # None => acct[r] \in Rows /\ Apt(r, acct[r])
       /\ pc[r] \in {"listing", "minting", "recording", "ok"} => acct[r] # None
       /\ r \in Creates => pc[r] \notin {"skimmed", "listing"}
       /\ r \in Creates /\ pc[r] \in {"minting", "recording"} => acct[r] = r
       /\ r \in Creates /\ pc[r] = "ok" => status[acct[r]] # "provisioning"
  /\ \A x \in Switches :
       /\ acct[x] # None => acct[x] \in Rows
       /\ pc[x] \in Chosen => acct[x] # None /\ cred[acct[x]] # "none"
       /\ pc[x] = "new" => acct[x] = None
       /\ pc[x] \in {"new"} \cup Chosen \cup Ended

\* An account that nobody has switched is spent through as soon as it has its key.
Untouched ==
  \A a \in Accts : (\A x \in Switches : acct[x] # a) =>
    <<status[a], cred[a]>> \in
      {<<"none", "none">>, <<"provisioning", "none">>, <<"active", "active">>}

\* One ensure at a time makes at most one key.
KeysApart ==
  /\ \A c \in Creates : pc[c] = "minting" => minted[c] = 0
  /\ \A c \in Creates : minted[c] <= 1
  /\ Ensures \notin met =>
       /\ \A e, f \in Ensures : Busy(e) /\ Busy(f) => e = f
       /\ \A e \in Ensures : pc[e] = "minting" => minted[acct[e]] = 0
       /\ \A a \in Ensures : minted[a] <= 1

AccountsInv == AccountsType /\ RowsApart /\ AccountsMatch /\ Untouched /\ KeysApart

\* One switch at a time: from the provider's answer on, the key and the row that it
\* has read are as it wants and as they are.
OneSwitch ==
  Switches \notin met =>
    /\ \A x, y \in Switches : Busy(x) /\ Busy(y) => x = y
    /\ \A x \in Switches :
         /\ pc[x] \in {"reread", "recred", "writing"} => enabled[acct[x]] = (x \in Resumes)
         /\ pc[x] \in {"recred", "writing"} => copy[x].status = status[acct[x]]
         /\ pc[x] = "writing" => copy[x].cred = cred[acct[x]]

SwitchInv == AccountsInv /\ OneSwitch /\ RowsTellTheKey

\* What a request of one kind cannot be.
LEMMA KindsOfAccountRequest ==
  /\ \A c \in Creates : c \in Accts /\ c \in Reqs /\ c \notin Ensures /\ c \notin Switches
  /\ \A e \in Ensures : e \in Accts /\ e \in Reqs /\ e \notin Creates /\ e \notin Switches /\ e \notin Retries
  /\ \A a \in Accts : a \in Reqs /\ a \notin Switches /\ a # None
  /\ \A x \in Switches : x \in Reqs /\ x \notin Accts
  /\ \A x \in Suspends : x \in Switches /\ x \notin Resumes
  /\ \A x \in Resumes : x \in Switches /\ x \notin Suspends
  /\ Retries \subseteq Creates /\ Backfills \subseteq Ensures
BY RequestAssumption DEF Accts, Switches, Reqs

\* The first state.
LEMMA AccountsInit == Init => SwitchInv
<1> SUFFICES ASSUME Init PROVE SwitchInv
  OBVIOUS
<1> USE KindsOfAccountRequest DEF Init
<1>1. AccountsType
  BY DEF AccountsType, State, Ended, Working
<1>2. RowsApart /\ AccountsMatch /\ Untouched /\ KeysApart
  BY DEF RowsApart, Rows, AccountsMatch, Untouched, KeysApart, Busy, Chosen, Ended
<1>3. OneSwitch /\ RowsTellTheKey
  BY DEF OneSwitch, Busy, RowsTellTheKey, Spendable
<1> QED BY <1>1, <1>2, <1>3 DEF SwitchInv, AccountsInv

\* A switch reads the two columns of a row one at a time.
LEMMA RereadColumn ==
  ASSUME AccountsType, NEW x \in Switches, acct[x] \in Accts
  PROVE  /\ Reread(x) =>
              /\ copy' \in [Switches -> [status : State, cred : {"none", "active", "suspended"}]]
              /\ copy'[x].status = status[acct[x]]
              /\ \A y \in Switches \ {x} : copy'[y] = copy[y]
         /\ RereadCred(x) =>
              /\ copy' \in [Switches -> [status : State, cred : {"none", "active", "suspended"}]]
              /\ copy'[x].status = copy[x].status /\ copy'[x].cred = cred[acct[x]]
              /\ \A y \in Switches \ {x} : copy'[y] = copy[y]
<1> DEFINE Copy == [status : State, cred : {"none", "active", "suspended"}]
<1>1. copy \in [Switches -> Copy] /\ status[acct[x]] \in State
      /\ cred[acct[x]] \in {"none", "active", "suspended"}
  BY DEF AccountsType
<1>2. ASSUME NEW v \in State, copy' = [copy EXCEPT ![x].status = v]
      PROVE  /\ copy' \in [Switches -> Copy] /\ copy'[x].status = v
             /\ \A y \in Switches \ {x} : copy'[y] = copy[y]
  BY <1>1, <1>2
<1>3. ASSUME NEW v \in {"none", "active", "suspended"}, copy' = [copy EXCEPT ![x].cred = v]
      PROVE  /\ copy' \in [Switches -> Copy] /\ copy'[x].cred = v
             /\ copy'[x].status = copy[x].status
             /\ \A y \in Switches \ {x} : copy'[y] = copy[y]
  BY <1>1, <1>3
<1>4. Reread(x) => copy' = [copy EXCEPT ![x].status = status[acct[x]]]
  BY DEF Reread
<1>5. RereadCred(x) => copy' = [copy EXCEPT ![x].cred = cred[acct[x]]]
  BY DEF RereadCred
<1> HIDE DEF Copy
<1>6. ASSUME Reread(x)
      PROVE  /\ copy' \in [Switches -> Copy] /\ copy'[x].status = status[acct[x]]
             /\ \A y \in Switches \ {x} : copy'[y] = copy[y]
  BY <1>1, <1>2, <1>4, <1>6
<1>7. ASSUME RereadCred(x)
      PROVE  /\ copy' \in [Switches -> Copy]
             /\ copy'[x].status = copy[x].status /\ copy'[x].cred = cred[acct[x]]
             /\ \A y \in Switches \ {x} : copy'[y] = copy[y]
  BY <1>1, <1>3, <1>5, <1>7
<1> QED BY <1>6, <1>7 DEF Copy

\* A switch reads the row again: nothing but its copy changes.
LEMMA Rereading ==
  ASSUME AccountsType, NEW x \in Switches, Reread(x) \/ RereadCred(x)
  PROVE  /\ UNCHANGED <<status, cred, minted, enabled, acct, met>>
         /\ \/ Reread(x) /\ pc[x] = "reread" /\ pc'[x] = "recred"
            \/ RereadCred(x) /\ pc[x] = "recred" /\ pc'[x] = "writing"
         /\ pc' \in [Reqs -> {"new"} \cup Working \cup Ended]
         /\ \A r \in Reqs \ {x} : pc'[r] = pc[r]
<1>1. UNCHANGED <<status, cred, minted, enabled, acct, met>>
  BY DEF Reread, RereadCred, rows, provider
<1>2. \/ Reread(x) /\ pc[x] = "reread" /\ pc' = [pc EXCEPT ![x] = "recred"]
      \/ RereadCred(x) /\ pc[x] = "recred" /\ pc' = [pc EXCEPT ![x] = "writing"]
  BY DEF Reread, RereadCred, Goto
<1>3. x \in Reqs /\ pc \in [Reqs -> {"new"} \cup Working \cup Ended]
  BY KindsOfAccountRequest DEF AccountsType
<1> QED BY <1>1, <1>2, <1>3 DEF Working

\* Types.
LEMMA AccountsTypeNext == AccountsInv /\ [Next]_vars => AccountsType'
<1> SUFFICES ASSUME AccountsInv, [Next]_vars PROVE AccountsType'
  OBVIOUS
<1>0. AccountsType /\ AccountsMatch
  BY DEF AccountsInv
<1> USE KindsOfAccountRequest
<1>1. ASSUME NEW c \in Creates, LookUp(c) PROVE AccountsType'
  <2>1. met' \subseteq {Ensures, Switches} /\ acct' \in [Reqs -> Accts \cup {None}]
    BY <1>0, <1>1 DEF LookUp, Starts, Twins, Rows, OnAccount, AccountsType
  <2> QED BY <1>0, <1>1, <2>1 DEF LookUp, OnAccount, AccountsType, Working, Ended, Goto, rows, provider
<1>2. ASSUME NEW e \in Ensures, Skim(e) PROVE AccountsType'
  <2>1. met' \subseteq {Ensures, Switches} /\ acct' \in [Reqs -> Accts \cup {None}]
    BY <1>0, <1>2 DEF Skim, Starts, Twins, Rows, OnAccount, AccountsType
  <2> QED BY <1>0, <1>2, <2>1 DEF Skim, OnAccount, AccountsType, Working, Ended, Goto, rows, provider
<1>3. ASSUME NEW e \in Ensures, LookUpDefault(e) PROVE AccountsType'
  <2>1. met' \subseteq {Ensures, Switches} /\ acct' \in [Reqs -> Accts \cup {None}]
    BY <1>0, <1>3 DEF LookUpDefault, Starts, Twins, Rows, OnAccount, AccountsType
  <2> QED BY <1>0, <1>3, <2>1 DEF LookUpDefault, OnAccount, AccountsType, Working, Ended, Goto, rows, provider
<1>4. ASSUME NEW e \in Ensures, ListKeys(e) PROVE AccountsType'
  BY <1>0, <1>4 DEF ListKeys, AccountsType, State, Working, Ended, Goto, OnAccount, rows, provider
<1>5. ASSUME NEW r \in Accts, Insert(r) PROVE AccountsType'
  BY <1>0, <1>5 DEF Insert, AccountsType, State, Working, Ended, Goto, OnAccount, rows, provider
<1>6. ASSUME NEW r \in Accts, NEW made \in BOOLEAN, NEW answered \in BOOLEAN,
             Mint(r, made, answered)
      PROVE  AccountsType'
  <2>1. acct[r] \in Accts
    BY <1>0, <1>6 DEF Mint, AccountsType, AccountsMatch
  <2> QED BY <1>0, <1>6, <2>1 DEF Mint, AccountsType, Working, Ended, Goto, rows, provider
<1>7. ASSUME NEW r \in Accts, Record(r) PROVE AccountsType'
  <2>0. UNCHANGED enabled \/ enabled' = [enabled EXCEPT ![acct[r]] = TRUE]
    BY <1>7 DEF Record
  <2>1. enabled' \in [Accts -> BOOLEAN]
    BY <1>0, <2>0 DEF AccountsType
  <2>2. status' \in [Accts -> State] /\ cred' \in [Accts -> {"none", "active", "suspended"}]
    BY <1>0, <1>7 DEF Record, AccountsType, State, rows
  <2> QED BY <1>0, <1>7, <2>1, <2>2 DEF Record, AccountsType, Working, Ended, Goto
<1>8. ASSUME NEW x \in Switches, NEW a \in Accts, Begin(x, a) PROVE AccountsType'
  <2>1. met' \subseteq {Ensures, Switches}
    BY <1>0, <1>8 DEF Begin, Starts, AccountsType
  <2> QED BY <1>0, <1>8, <2>1 DEF Begin, OnAccount, AccountsType, Working, Ended, Goto, rows, provider
<1>9. ASSUME NEW x \in Switches, NEW applied \in BOOLEAN, NEW answered \in BOOLEAN,
             Update(x, applied, answered)
      PROVE  AccountsType'
  <2>1. (x \in Resumes) \in BOOLEAN
    OBVIOUS
  <2>2. enabled' \in [Accts -> BOOLEAN]
    BY <1>0, <1>9, <2>1 DEF Update, AccountsType
  <2> QED BY <1>0, <1>9, <2>2 DEF Update, AccountsType, Working, Ended, Goto, rows
<1>10. ASSUME NEW x \in Switches, Reread(x) \/ RereadCred(x) PROVE AccountsType'
  <2>1. acct[x] \in Accts
    BY <1>0, <1>10, Rereading DEF AccountsType, AccountsMatch, Chosen
  <2>2. copy' \in [Switches -> [status : State, cred : {"none", "active", "suspended"}]]
    BY <1>0, <1>10, <2>1, RereadColumn
  <2> QED BY <1>0, <1>10, <2>2, Rereading DEF AccountsType
<1>11. ASSUME NEW x \in Switches, Write(x) PROVE AccountsType'
  BY <1>0, <1>11 DEF Write, Wanted, AccountsType, State, Working, Ended, Goto, provider
<1>12. ASSUME NEW r \in Reqs, Die(r) PROVE AccountsType'
  BY <1>0, <1>12 DEF Die, AccountsType, State, Working, Ended, Goto, OnAccount, rows, provider
<1>13. CASE UNCHANGED vars
  BY <1>0, <1>13 DEF vars, rows, provider, AccountsType, State, Working, Ended, Goto, OnAccount, rows, provider
<1> QED BY <1>1, <1>2, <1>3, <1>4, <1>5, <1>6, <1>7, <1>8, <1>9, <1>10,
        <1>11, <1>12, <1>13 DEF Next, Provision, Switch

\* A request that has not inserted its row never has; and a row comes in no other way.
LEMMA RowsChange ==
  AccountsInv /\ [Next]_vars =>
    /\ \A a \in Accts : pc'[a] \in {"new", "insert", "skimmed"} =>
         pc[a] \in {"new", "insert", "skimmed"} /\ minted'[a] = minted[a]
    /\ Rows' = Rows \/ \E r \in Accts : /\ pc[r] = "insert" /\ pc'[r] = "minting" /\ Rows' = Rows \cup {r}
                                        /\ \A a \in Rows : r = a \/ ~Apt(r, a)
<1> DEFINE Same == /\ \A a \in Accts : pc'[a] \in {"new", "insert", "skimmed"} =>
                        pc[a] \in {"new", "insert", "skimmed"} /\ minted'[a] = minted[a]
                   /\ Rows' = Rows
<1> SUFFICES ASSUME AccountsInv, [Next]_vars
             PROVE  \/ Same
                    \/ /\ \A a \in Accts : pc'[a] \in {"new", "insert", "skimmed"} =>
                            pc[a] \in {"new", "insert", "skimmed"} /\ minted'[a] = minted[a]
                       /\ \E r \in Accts : /\ pc[r] = "insert" /\ pc'[r] = "minting" /\ Rows' = Rows \cup {r}
                                           /\ \A a \in Rows : r = a \/ ~Apt(r, a)
  OBVIOUS
<1> USE KindsOfAccountRequest DEF Goto, OnAccount, rows, provider
<1>0. AccountsType /\ AccountsMatch /\ RowsApart
  BY DEF AccountsInv
<1>1. ASSUME NEW c \in Creates, LookUp(c) PROVE Same
  BY <1>0, <1>1 DEF LookUp, Starts, AccountsType, Rows
<1>2. ASSUME NEW e \in Ensures, Skim(e) PROVE Same
  BY <1>0, <1>2 DEF Skim, Starts, AccountsType, Rows
<1>3. ASSUME NEW e \in Ensures, LookUpDefault(e) PROVE Same
  BY <1>0, <1>3 DEF LookUpDefault, Starts, AccountsType, Rows
<1>4. ASSUME NEW e \in Ensures, ListKeys(e) PROVE Same
  BY <1>0, <1>4 DEF ListKeys, AccountsType, Rows
<1>5. ASSUME NEW r \in Accts, Insert(r), Twins(r) # {} PROVE Same
  BY <1>0, <1>5 DEF Insert, AccountsType, Rows
<1>6. ASSUME NEW r \in Accts, Insert(r), Twins(r) = {}
      PROVE  /\ \A a \in Accts : pc'[a] \in {"new", "insert", "skimmed"} =>
                  pc[a] \in {"new", "insert", "skimmed"} /\ minted'[a] = minted[a]
             /\ pc[r] = "insert" /\ pc'[r] = "minting" /\ Rows' = Rows \cup {r}
             /\ \A a \in Rows : r = a \/ ~Apt(r, a)
  <2>1. \A a \in Rows : ~({a, r} \subseteq Ensures \/ {a, r} \subseteq Retries)
    BY <1>6 DEF Twins
  <2>2. Rows' = Rows \cup {r}
    BY <1>0, <1>6 DEF Insert, AccountsType, Rows
  <2> QED BY <1>0, <1>6, <2>1, <2>2 DEF Insert, AccountsType, Apt
<1>7. ASSUME NEW r \in Accts, NEW made \in BOOLEAN, NEW answered \in BOOLEAN,
             Mint(r, made, answered)
      PROVE  Same
  <2>1. acct[r] \in Rows /\ acct[r] \in Accts /\ UNCHANGED status
    BY <1>0, <1>7 DEF Mint, AccountsMatch, Rows
  <2>2. pc[acct[r]] \notin {"new", "insert", "skimmed"}
    BY <1>0, <2>1 DEF RowsApart, Rows
  <2>3. \A a \in Accts : a # acct[r] => minted'[a] = minted[a]
    BY <1>0, <1>7 DEF Mint, AccountsType
  <2>4. \A a \in Accts : pc'[a] \in {"new", "insert", "skimmed"} => pc[a] \in {"new", "insert", "skimmed"}
    BY <1>0, <1>7 DEF Mint, AccountsType
  <2> QED BY <2>1, <2>2, <2>3, <2>4 DEF Rows
<1>8. ASSUME NEW r \in Accts, Record(r) PROVE Same
  <2>1. acct[r] \in Rows
    BY <1>0, <1>8 DEF Record, AccountsMatch
  <2> QED BY <1>0, <1>8, <2>1 DEF Record, AccountsType, Rows
<1>9. ASSUME NEW x \in Switches, NEW a \in Accts, Begin(x, a) PROVE Same
  BY <1>0, <1>9 DEF Begin, Starts, AccountsType, Rows
<1>10. ASSUME NEW x \in Switches, NEW applied \in BOOLEAN, NEW answered \in BOOLEAN,
              Update(x, applied, answered)
       PROVE  Same
  BY <1>0, <1>10 DEF Update, AccountsType, Rows
<1>11. ASSUME NEW x \in Switches, Reread(x) \/ RereadCred(x) PROVE Same
  BY <1>0, <1>11 DEF Reread, RereadCred, AccountsType, Rows
<1>12. ASSUME NEW x \in Switches, Write(x) PROVE Same
  <2>1. acct[x] \in Rows /\ Wanted(x) # "none"
    BY <1>0, <1>12 DEF Write, AccountsMatch, Chosen, Wanted
  <2> QED BY <1>0, <1>12, <2>1 DEF Write, AccountsType, Rows
<1>13. ASSUME NEW r \in Reqs, Die(r) PROVE Same
  BY <1>0, <1>13 DEF Die, AccountsType, Rows
<1>14. CASE UNCHANGED vars
  BY <1>14 DEF vars, Rows
<1> HIDE DEF Same
<1> QED BY <1>1, <1>2, <1>3, <1>4, <1>5, <1>6, <1>7, <1>8, <1>9, <1>10, <1>11, <1>12, <1>13, <1>14
        DEF Next, Provision, Switch

\* Rows.
LEMMA RowsApartNext == AccountsInv /\ [Next]_vars => RowsApart'
<1> SUFFICES ASSUME AccountsInv, [Next]_vars PROVE RowsApart'
  OBVIOUS
<1>1. RowsApart /\ AccountsType
  BY DEF AccountsInv
<1>2. /\ \A a \in Accts : pc'[a] \in {"new", "insert", "skimmed"} =>
           pc[a] \in {"new", "insert", "skimmed"} /\ minted'[a] = minted[a]
      /\ Rows' = Rows \/ \E r \in Accts : /\ pc[r] = "insert" /\ pc'[r] = "minting" /\ Rows' = Rows \cup {r}
                                          /\ \A a \in Rows : r = a \/ ~Apt(r, a)
  BY RowsChange
<1>3. \A a \in Accts : pc'[a] \in {"new", "insert", "skimmed"} => a \notin Rows'
  BY <1>1, <1>2 DEF RowsApart, Rows
<1>4. \A a \in Accts : a \notin Rows' => status'[a] = "none"
  BY DEF Rows
<1>5. \A a, b \in Rows' : ({a, b} \subseteq Ensures \/ {a, b} \subseteq Retries) => a = b
  BY <1>1, <1>2 DEF RowsApart, Apt
<1> QED BY <1>1, <1>2, <1>3, <1>4, <1>5 DEF RowsApart

\* The twins of a request are the rows of its intent, and two requests of a kind that
\* are at work at once have met.
LEMMA Twin ==
  /\ \A r \in Accts : \A a \in Twins(r) : a \in Rows /\ a \in Accts /\ Apt(r, a)
  /\ \A r \in Accts : Twins(r) = {} => \A a \in Rows : r = a \/ ~Apt(r, a)
  /\ \A r \in Ensures, a \in Accts : Apt(r, a) => a \in Ensures
  /\ \A r \in Reqs : Starts(r) =>
       /\ pc[r] = "new" /\ met \subseteq met'
       /\ \A kind \in {Ensures, Switches} :
            kind \notin met' /\ r \in kind => \A q \in kind : ~Busy(q)
BY KindsOfAccountRequest DEF Twins, Rows, Apt, Starts

\* The account of each request.
LEMMA AccountsMatchNext == AccountsInv /\ [Next]_vars => AccountsMatch'
<1> SUFFICES ASSUME AccountsInv, [Next]_vars PROVE AccountsMatch'
  OBVIOUS
<1>0. AccountsType /\ AccountsMatch /\ RowsApart /\ Rows \subseteq Rows'
  BY RowsChange DEF AccountsInv
<1> USE KindsOfAccountRequest
<1>1. ASSUME NEW c \in Creates, LookUp(c) PROVE AccountsMatch'
  BY <1>0, <1>1, Twin DEF LookUp, Starts, AccountsType, AccountsMatch, Ended, Chosen, Goto, OnAccount, rows
<1>2. ASSUME NEW e \in Ensures, Skim(e) PROVE AccountsMatch'
  BY <1>0, <1>2, Twin DEF Skim, Starts, AccountsType, AccountsMatch, Ended, Chosen, Goto, OnAccount, rows
<1>3. ASSUME NEW e \in Ensures, LookUpDefault(e) PROVE AccountsMatch'
  BY <1>0, <1>3, Twin DEF LookUpDefault, AccountsType, AccountsMatch, Ended, Chosen, Goto, OnAccount, rows
<1>4. ASSUME NEW e \in Ensures, ListKeys(e) PROVE AccountsMatch'
  BY <1>0, <1>4 DEF ListKeys, AccountsType, AccountsMatch, Ended, Chosen, Goto, OnAccount, rows
<1>5. ASSUME NEW r \in Accts, Insert(r) PROVE AccountsMatch'
  <2>1. status[r] = "none" /\ r \notin Rows
    BY <1>0, <1>5 DEF Insert, RowsApart, Rows
  <2>2. CASE UNCHANGED <<status, acct>> /\ Goto(r, "failed")
    BY <1>0, <1>5, <2>2 DEF Insert, AccountsType, AccountsMatch, Ended, Chosen, Goto
  <2>3. CASE status' = [status EXCEPT ![r] = "provisioning"] /\ OnAccount(r, r, "minting")
    <3>1. r \in Rows' /\ Apt(r, r) /\ UNCHANGED cred
      BY <1>0, <1>5, <2>3 DEF Insert, Rows, AccountsType, Apt
    <3>2. \A q \in Reqs : q # r => acct'[q] = acct[q] /\ pc'[q] = pc[q] /\ acct[q] # r
      BY <1>0, <2>1, <2>3 DEF AccountsType, AccountsMatch, OnAccount, Goto, Accts, Switches, Reqs
    <3> QED BY <1>0, <2>3, <3>1, <3>2 DEF AccountsType, AccountsMatch, OnAccount, Goto, Ended, Chosen
  <2> QED BY <1>5, <2>2, <2>3 DEF Insert
<1>6. ASSUME NEW r \in Accts, NEW made \in BOOLEAN, NEW answered \in BOOLEAN,
             Mint(r, made, answered)
      PROVE  AccountsMatch'
  BY <1>0, <1>6 DEF Mint, AccountsType, AccountsMatch, Ended, Chosen, Goto, OnAccount, rows
<1>7. ASSUME NEW r \in Accts, Record(r) PROVE AccountsMatch'
  BY <1>0, <1>7 DEF Record, AccountsType, AccountsMatch, Ended, Chosen, Goto, OnAccount, rows
<1>8. ASSUME NEW x \in Switches, NEW a \in Accts, Begin(x, a) PROVE AccountsMatch'
  BY <1>0, <1>8 DEF Begin, AccountsType, AccountsMatch, Ended, Chosen, Goto, OnAccount, rows
<1>9. ASSUME NEW x \in Switches, NEW applied \in BOOLEAN, NEW answered \in BOOLEAN,
             Update(x, applied, answered)
      PROVE  AccountsMatch'
  BY <1>0, <1>9 DEF Update, AccountsType, AccountsMatch, Ended, Chosen, Goto, OnAccount, rows
<1>10. ASSUME NEW x \in Switches, Reread(x) \/ RereadCred(x) PROVE AccountsMatch'
  <2>1. Rows' = Rows
    BY <1>0, <1>10, Rereading DEF Rows
  <2>2. \A r \in Reqs : pc'[r] = pc[r] \/ (r = x /\ pc[r] \in Chosen /\ pc'[r] \in Chosen)
    BY <1>0, <1>10, Rereading DEF Chosen
  <2> QED BY <1>0, <1>10, <2>1, <2>2, Rereading, KindsOfAccountRequest DEF AccountsMatch, Chosen, Ended
<1>11. ASSUME NEW x \in Switches, Write(x) PROVE AccountsMatch'
  BY <1>0, <1>11 DEF Write, Wanted, AccountsType, AccountsMatch, Ended, Chosen, Goto
<1>12. ASSUME NEW r \in Reqs, Die(r) PROVE AccountsMatch'
  BY <1>0, <1>12 DEF Die, AccountsType, AccountsMatch, Ended, Chosen, Goto, OnAccount, rows
<1>13. CASE UNCHANGED vars
  BY <1>0, <1>13 DEF vars, rows, provider, AccountsType, AccountsMatch, Ended, Chosen, Goto, OnAccount, rows
<1> QED BY <1>1, <1>2, <1>3, <1>4, <1>5, <1>6, <1>7, <1>8, <1>9, <1>10,
        <1>11, <1>12, <1>13 DEF Next, Provision, Switch

\* Accounts that nobody has switched.
LEMMA UntouchedNext == AccountsInv /\ [Next]_vars => Untouched'
<1> SUFFICES ASSUME AccountsInv, [Next]_vars PROVE Untouched'
  OBVIOUS
<1>0. AccountsType /\ AccountsMatch /\ RowsApart /\ Untouched
  BY DEF AccountsInv
<1> USE KindsOfAccountRequest
<1>1. ASSUME NEW c \in Creates, LookUp(c) PROVE Untouched'
  BY <1>0, <1>1 DEF LookUp, AccountsType, AccountsMatch, Untouched, Chosen, Goto, OnAccount, rows
<1>2. ASSUME NEW e \in Ensures, Skim(e) PROVE Untouched'
  BY <1>0, <1>2 DEF Skim, AccountsType, AccountsMatch, Untouched, Chosen, Goto, OnAccount, rows
<1>3. ASSUME NEW e \in Ensures, LookUpDefault(e) PROVE Untouched'
  BY <1>0, <1>3 DEF LookUpDefault, AccountsType, AccountsMatch, Untouched, Chosen, Goto, OnAccount, rows
<1>4. ASSUME NEW e \in Ensures, ListKeys(e) PROVE Untouched'
  BY <1>0, <1>4 DEF ListKeys, AccountsType, AccountsMatch, Untouched, Chosen, Goto, OnAccount, rows
<1>5. ASSUME NEW r \in Accts, Insert(r) PROVE Untouched'
  <2>1. status[r] = "none" /\ r \notin Rows
    BY <1>0, <1>5 DEF Insert, RowsApart, Rows
  <2>2. cred[r] = "none"
    BY <1>0, <2>1 DEF AccountsMatch, Untouched
  <2>3. \A x \in Switches : acct'[x] = acct[x]
    BY <1>0, <1>5 DEF Insert, AccountsType, OnAccount
  <2> QED BY <1>0, <1>5, <2>1, <2>2, <2>3 DEF Insert, AccountsType, Untouched
<1>6. ASSUME NEW r \in Accts, NEW made \in BOOLEAN, NEW answered \in BOOLEAN,
             Mint(r, made, answered)
      PROVE  Untouched'
  BY <1>0, <1>6 DEF Mint, AccountsType, AccountsMatch, Untouched, Chosen, Goto, OnAccount, rows
<1>7. ASSUME NEW r \in Accts, Record(r) PROVE Untouched'
  BY <1>0, <1>7 DEF Record, AccountsType, AccountsMatch, Untouched, Chosen, Goto, OnAccount, rows
<1>8. ASSUME NEW x \in Switches, NEW a \in Accts, Begin(x, a) PROVE Untouched'
  <2>1. UNCHANGED rows /\ \A y \in Switches \ {x} : acct'[y] = acct[y]
    BY <1>0, <1>8 DEF Begin, OnAccount, AccountsType
  <2>2. acct[x] = None
    BY <1>0, <1>8 DEF Begin, Starts, AccountsMatch
  <2>3. \A b \in Accts : (\A y \in Switches : acct'[y] # b) => \A y \in Switches : acct[y] # b
    BY <2>1, <2>2
  <2> QED BY <1>0, <2>1, <2>3 DEF Untouched, rows
<1>9. ASSUME NEW x \in Switches, NEW applied \in BOOLEAN, NEW answered \in BOOLEAN,
             Update(x, applied, answered)
      PROVE  Untouched'
  BY <1>0, <1>9 DEF Update, AccountsType, AccountsMatch, Untouched, Chosen, Goto, OnAccount, rows
<1>10. ASSUME NEW x \in Switches, Reread(x) \/ RereadCred(x) PROVE Untouched'
  BY <1>0, <1>10 DEF Reread, RereadCred, AccountsType, AccountsMatch, Untouched, Chosen, Goto, OnAccount, rows
<1>11. ASSUME NEW x \in Switches, Write(x) PROVE Untouched'
  BY <1>0, <1>11 DEF Write, AccountsType, AccountsMatch, Untouched, Chosen, Goto, OnAccount, rows
<1>12. ASSUME NEW r \in Reqs, Die(r) PROVE Untouched'
  BY <1>0, <1>12 DEF Die, AccountsType, AccountsMatch, Untouched, Chosen, Goto, OnAccount, rows
<1>13. CASE UNCHANGED vars
  BY <1>0, <1>13 DEF vars, rows, provider, AccountsType, AccountsMatch, Untouched, Chosen, Goto, OnAccount, rows
<1> QED BY <1>1, <1>2, <1>3, <1>4, <1>5, <1>6, <1>7, <1>8, <1>9, <1>10,
        <1>11, <1>12, <1>13 DEF Next, Provision, Switch

\* Keys.
LEMMA KeysApartNext == AccountsInv /\ [Next]_vars => KeysApart'
<1> SUFFICES ASSUME AccountsInv, [Next]_vars PROVE KeysApart'
  OBVIOUS
<1>0. AccountsType /\ AccountsMatch /\ RowsApart /\ KeysApart
  BY DEF AccountsInv
<1> USE KindsOfAccountRequest
<1>1. ASSUME NEW c \in Creates, LookUp(c) PROVE KeysApart'
  <2>1. met \subseteq met' /\ UNCHANGED minted
    BY <1>1, Twin DEF LookUp, provider
  <2>2. \A r \in Accts : r # c => pc'[r] = pc[r] /\ acct'[r] = acct[r]
    BY <1>0, <1>1 DEF LookUp, AccountsType, Goto, OnAccount
  <2>3. pc'[c] # "minting"
    BY <1>0, <1>1 DEF LookUp, AccountsType, Goto, OnAccount
  <2> QED BY <1>0, <2>1, <2>2, <2>3 DEF KeysApart, Busy
<1>2. ASSUME NEW e \in Ensures, Skim(e) PROVE KeysApart'
  <2>1. met \subseteq met' /\ UNCHANGED minted /\ (Ensures \notin met' => \A q \in Ensures : ~Busy(q))
    BY <1>2, Twin DEF Skim, provider
  <2>2. \A r \in Accts : r # e => pc'[r] = pc[r] /\ acct'[r] = acct[r]
    BY <1>0, <1>2 DEF Skim, AccountsType, Goto, OnAccount
  <2>3. pc'[e] # "minting"
    BY <1>0, <1>2 DEF Skim, AccountsType, Goto, OnAccount
  <2> QED BY <1>0, <2>1, <2>2, <2>3 DEF KeysApart, Busy
<1>3. ASSUME NEW e \in Ensures, LookUpDefault(e) PROVE KeysApart'
  <2>1. /\ met \subseteq met' /\ UNCHANGED minted
        /\ Ensures \notin met' => \A q \in Ensures : q # e => ~Busy(q)
    <3>1. CASE e \in Backfills
      BY <1>0, <1>3, <3>1 DEF LookUpDefault, provider, KeysApart, Busy, Ended
    <3>2. CASE e \notin Backfills
      BY <1>3, <3>2, Twin DEF LookUpDefault, provider
    <3> QED BY <3>1, <3>2
  <2>2. \A r \in Accts : r # e => pc'[r] = pc[r] /\ acct'[r] = acct[r]
    BY <1>0, <1>3 DEF LookUpDefault, AccountsType, Goto, OnAccount
  <2>3. pc'[e] # "minting"
    BY <1>0, <1>3 DEF LookUpDefault, AccountsType, Goto, OnAccount
  <2> QED BY <1>0, <2>1, <2>2, <2>3 DEF KeysApart, Busy
<1>4. ASSUME NEW e \in Ensures, ListKeys(e) PROVE KeysApart'
  <2>1. UNCHANGED <<minted, acct, met>> /\ (pc'[e] = "minting" => minted[acct[e]] = 0)
    BY <1>0, <1>4 DEF ListKeys, AccountsType, AccountsMatch, Goto, provider
  <2>2. pc[e] = "listing" /\ \A r \in Accts : r # e => pc'[r] = pc[r]
    BY <1>0, <1>4 DEF ListKeys, AccountsType, Goto
  <2> QED BY <1>0, <2>1, <2>2 DEF KeysApart, Busy, Ended
<1>5. ASSUME NEW r \in Accts, Insert(r) PROVE KeysApart'
  <2>1. minted[r] = 0 /\ UNCHANGED <<minted, met>>
    BY <1>0, <1>5 DEF Insert, RowsApart, provider
  <2>2. pc[r] = "insert" /\ (pc'[r] = "minting" => acct'[r] = r)
    BY <1>0, <1>5 DEF Insert, AccountsType, OnAccount, Goto
  <2>3. \A q \in Accts : q # r => pc'[q] = pc[q] /\ acct'[q] = acct[q]
    BY <1>0, <1>5 DEF Insert, AccountsType, OnAccount, Goto
  <2> QED BY <1>0, <2>1, <2>2, <2>3 DEF KeysApart, Busy, Ended
<1>6. ASSUME NEW r \in Accts, NEW made \in BOOLEAN, NEW answered \in BOOLEAN,
             Mint(r, made, answered)
      PROVE  KeysApart'
  <2>1. acct[r] \in Accts /\ pc[r] = "minting" /\ pc'[r] # "minting" /\ UNCHANGED <<acct, met>>
    BY <1>0, <1>6 DEF Mint, AccountsType, AccountsMatch, Goto
  <2>2. \A q \in Accts : q # r => pc'[q] = pc[q]
    BY <1>0, <1>6 DEF Mint, AccountsType, Goto
  <2>3. minted'[acct[r]] <= minted[acct[r]] + 1 /\ \A a \in Accts : a # acct[r] => minted'[a] = minted[a]
    BY <1>0, <1>6, <2>1 DEF Mint, AccountsType
  <2>4. CASE r \in Creates
    <3>1. acct[r] = r /\ minted[r] = 0
      BY <1>0, <2>1, <2>4 DEF AccountsMatch, KeysApart
    <3>2. minted'[r] <= 1
      BY <2>3, <3>1
    <3>3. \A e \in Ensures : pc[e] = "minting" => acct[e] \in Ensures
      BY <1>0, Twin DEF AccountsMatch, Rows
    <3>4. \A a \in Ensures : minted'[a] = minted[a] /\ pc'[a] = pc[a]
      BY <2>2, <2>3, <2>4, <3>1
    <3>5. \A c \in Creates : c # r => minted'[c] = minted[c] /\ pc'[c] = pc[c]
      BY <2>2, <2>3, <3>1
    <3> QED BY <1>0, <2>1, <3>2, <3>3, <3>4, <3>5 DEF KeysApart, Busy
  <2>5. CASE r \in Ensures
    <3>1. acct[r] \in Ensures
      BY <1>0, <2>1, <2>5, Twin DEF AccountsMatch
    <3>2. Ensures \notin met => minted'[acct[r]] <= 1 /\ \A e \in Ensures : pc'[e] # "minting"
      <4>1. Ensures \notin met => minted[acct[r]] = 0
        BY <1>0, <2>1, <2>5 DEF KeysApart
      <4>2. Ensures \notin met => \A e \in Ensures : pc'[e] # "minting"
        BY <1>0, <2>1, <2>2, <2>5 DEF KeysApart, Busy, Ended
      <4> QED BY <2>3, <4>1, <4>2
    <3> QED BY <1>0, <2>1, <2>2, <2>3, <2>5, <3>1, <3>2 DEF KeysApart, Busy, Ended
  <2> QED BY <2>4, <2>5 DEF Accts
<1>7. ASSUME NEW r \in Accts, Record(r) PROVE KeysApart'
  BY <1>0, <1>7 DEF Record, AccountsType, KeysApart, Busy, Ended, Goto, OnAccount, provider
<1>8. ASSUME NEW x \in Switches, NEW a \in Accts, Begin(x, a) PROVE KeysApart'
  <2>1. met \subseteq met' /\ UNCHANGED minted
    BY <1>8, Twin DEF Begin, provider
  <2>2. \A r \in Accts : pc'[r] = pc[r] /\ acct'[r] = acct[r]
    BY <1>0, <1>8 DEF Begin, AccountsType, Goto, OnAccount
  <2> QED BY <1>0, <2>1, <2>2 DEF KeysApart, Busy
<1>9. ASSUME NEW x \in Switches, NEW applied \in BOOLEAN, NEW answered \in BOOLEAN,
             Update(x, applied, answered)
      PROVE  KeysApart'
  BY <1>0, <1>9 DEF Update, AccountsType, KeysApart, Busy, Ended, Goto, OnAccount, provider
<1>10. ASSUME NEW x \in Switches, Reread(x) \/ RereadCred(x) PROVE KeysApart'
  BY <1>0, <1>10 DEF Reread, RereadCred, AccountsType, KeysApart, Busy, Ended, Goto, OnAccount, provider
<1>11. ASSUME NEW x \in Switches, Write(x) PROVE KeysApart'
  BY <1>0, <1>11 DEF Write, AccountsType, KeysApart, Busy, Ended, Goto, OnAccount, provider
<1>12. ASSUME NEW r \in Reqs, Die(r) PROVE KeysApart'
  BY <1>0, <1>12 DEF Die, AccountsType, KeysApart, Busy, Ended, Goto, OnAccount, provider
<1>13. CASE UNCHANGED vars
  BY <1>0, <1>13 DEF vars, rows, provider, AccountsType, KeysApart, Busy, Ended, Goto, OnAccount, provider
<1> QED BY <1>1, <1>2, <1>3, <1>4, <1>5, <1>6, <1>7, <1>8, <1>9, <1>10,
        <1>11, <1>12, <1>13 DEF Next, Provision, Switch

\* The invariant of the accounts, of every request.
LEMMA AccountsNext == AccountsInv /\ [Next]_vars => AccountsInv'
BY AccountsTypeNext, RowsApartNext, AccountsMatchNext, UntouchedNext, KeysApartNext DEF AccountsInv

\* Each intent has one account and each account one live key, for any number of
\* requests that fail and are repeated (create_account, ensure_default_account).
THEOREM OneAccountOneKey == Spec => []OneEach
<1>1. Init => AccountsInv
  BY AccountsInit DEF SwitchInv
<1>2. AccountsInv => OneEach
  <2> SUFFICES ASSUME AccountsInv PROVE OneEach
    OBVIOUS
  <2>1. OneKey
    BY KindsOfAccountRequest DEF AccountsInv, KeysApart, OneKey, Accts
  <2>2. ASSUME NEW c \in Retries, pc[c] = "ok"
        PROVE  acct[c] \in Rows \cap Retries /\ status[acct[c]] # "provisioning"
    BY <2>2, KindsOfAccountRequest DEF AccountsInv, AccountsMatch, Apt
  <2>3. ASSUME NEW c \in Retries, NEW d \in Retries, pc[c] = "ok", pc[d] = "ok"
        PROVE  acct[c] = acct[d]
    BY <2>2, <2>3 DEF AccountsInv, RowsApart
  <2>4. ASSUME NEW c \in Retries, pc[c] = "ok", \A x \in Switches : acct[x] # acct[c]
        PROVE  Spendable(acct[c])
    BY <2>2, <2>4 DEF AccountsInv, Untouched, Rows, Spendable
  <2> QED BY <2>1, <2>3, <2>4 DEF OneEach, OneAccountPerIntent
<1> QED BY <1>1, <1>2, AccountsNext, PTL DEF Spec

(***************************************************************************)
(* Accounts: what is switched.                                             *)
(***************************************************************************)

\* A request that looks for its account leaves all switches as they are.
LEMMA LookingUp ==
  ASSUME AccountsType,
         (\E c \in Creates : LookUp(c)) \/ (\E e \in Ensures : Skim(e) \/ LookUpDefault(e))
  PROVE  /\ UNCHANGED <<status, cred, enabled, copy>> /\ met \subseteq met'
         /\ \A x \in Switches : pc'[x] = pc[x] /\ acct'[x] = acct[x]
<1> USE KindsOfAccountRequest DEF AccountsType, Goto, OnAccount, rows, provider, Starts
<1>1. CASE \E c \in Creates : LookUp(c)
  BY <1>1 DEF LookUp
<1>2. CASE \E e \in Ensures : Skim(e)
  BY <1>2 DEF Skim
<1>3. CASE \E e \in Ensures : LookUpDefault(e)
  BY <1>3 DEF LookUpDefault
<1> QED BY <1>1, <1>2, <1>3

\* So does one that inserts its row, and the row is that of no switch.
LEMMA Inserting ==
  ASSUME AccountsInv, NEW r \in Accts, Insert(r)
  PROVE  /\ UNCHANGED <<cred, enabled, copy, met>>
         /\ \A x \in Switches : pc'[x] = pc[x] /\ acct'[x] = acct[x] /\ acct[x] # r
         /\ \A a \in Accts : a # r => status'[a] = status[a]
         /\ status'[r] \in {status[r], "provisioning"}
<1>1. AccountsType /\ RowsApart /\ AccountsMatch
  BY DEF AccountsInv
<1>2. r \notin Rows
  BY <1>1 DEF RowsApart, Rows, Insert
<1> QED BY <1>1, <1>2, KindsOfAccountRequest
        DEF AccountsType, AccountsMatch, Insert, Goto, OnAccount, rows, provider

\* A switch that begins is the only one, unless it has met another.
LEMMA Beginning ==
  ASSUME AccountsInv, NEW x \in Switches, NEW a \in Accts, Begin(x, a)
  PROVE  /\ UNCHANGED <<status, cred, enabled, copy>> /\ met \subseteq met'
         /\ Switches \notin met' => \A y \in Switches : ~Busy(y)
         /\ \A y \in Switches : y # x => pc'[y] = pc[y] /\ acct'[y] = acct[y]
         /\ pc[x] = "new" /\ acct[x] = None /\ acct'[x] = a
         /\ pc'[x] \in {"ok", "failed", "updating"}
         /\ pc'[x] = "ok" => status[a] = Wanted(x)
<1>1. AccountsType /\ AccountsMatch
  BY DEF AccountsInv
<1>2. pc[x] = "new" /\ met \subseteq met' /\ (Switches \notin met' => \A y \in Switches : ~Busy(y))
  BY KindsOfAccountRequest, Twin DEF Begin
<1> QED BY <1>1, <1>2, KindsOfAccountRequest
        DEF AccountsType, AccountsMatch, Begin, Goto, OnAccount, rows, provider

\* What a switch writes, when it is the only one.
LEMMA Writing ==
  ASSUME SwitchInv, NEW x \in Switches, Write(x), Switches \notin met'
  PROVE  /\ UNCHANGED <<enabled, acct, met>> /\ acct[x] \in Accts
         /\ pc[x] = "writing" /\ pc'[x] = "ok" /\ \A y \in Switches : y # x => pc'[y] = pc[y]
         /\ enabled[acct[x]] = (x \in Resumes)
         /\ status'[acct[x]] = Wanted(x) /\ cred'[acct[x]] = Wanted(x)
         /\ \A a \in Accts : a # acct[x] => status'[a] = status[a] /\ cred'[a] = cred[a]
<1>1. AccountsType /\ AccountsMatch /\ OneSwitch
  BY DEF SwitchInv, AccountsInv
<1>2. pc[x] = "writing" /\ UNCHANGED <<enabled, acct, copy, met>>
  BY DEF Write, provider
<1>3. acct[x] \in Accts /\ cred[acct[x]] # "none"
  BY <1>1, <1>2, KindsOfAccountRequest DEF AccountsMatch, Chosen, Rows
<1>4. /\ copy[x].status = status[acct[x]] /\ copy[x].cred = cred[acct[x]]
      /\ enabled[acct[x]] = (x \in Resumes)
  BY <1>1, <1>2 DEF OneSwitch
<1>5. /\ status'[acct[x]] = Wanted(x) /\ cred'[acct[x]] = Wanted(x)
      /\ \A a \in Accts : a # acct[x] => status'[a] = status[a] /\ cred'[a] = cred[a]
  BY <1>1, <1>3, <1>4 DEF Write, AccountsType
<1> QED BY <1>1, <1>2, <1>3, <1>4, <1>5, KindsOfAccountRequest DEF Write, Goto, AccountsType

\* A switch at work sees its row as it is.
LEMMA OneSwitchNext == SwitchInv /\ [Next]_vars => OneSwitch'
<1> SUFFICES ASSUME SwitchInv, [Next]_vars PROVE OneSwitch'
  OBVIOUS
<1>0. AccountsInv /\ AccountsType /\ AccountsMatch /\ OneSwitch
  BY DEF SwitchInv, AccountsInv
<1> USE KindsOfAccountRequest
<1>1. ASSUME NEW c \in Creates, LookUp(c) PROVE OneSwitch'
  BY <1>0, <1>1, LookingUp DEF OneSwitch, Busy
<1>2. ASSUME NEW e \in Ensures, Skim(e) PROVE OneSwitch'
  BY <1>0, <1>2, LookingUp DEF OneSwitch, Busy
<1>3. ASSUME NEW e \in Ensures, LookUpDefault(e) PROVE OneSwitch'
  BY <1>0, <1>3, LookingUp DEF OneSwitch, Busy
<1>4. ASSUME NEW e \in Ensures, ListKeys(e) PROVE OneSwitch'
  BY <1>0, <1>4 DEF ListKeys, AccountsType, OneSwitch, AccountsMatch, Chosen, Busy, Ended, Goto, OnAccount, rows, provider
<1>5. ASSUME NEW r \in Accts, Insert(r) PROVE OneSwitch'
  <2>1. \A x \in Switches : pc[x] \in Chosen => acct[x] \in Accts
    BY <1>0 DEF AccountsMatch, Rows
  <2> QED BY <1>0, <1>5, <2>1, Inserting DEF OneSwitch, Busy, Chosen
<1>6. ASSUME NEW r \in Accts, NEW made \in BOOLEAN, NEW answered \in BOOLEAN,
             Mint(r, made, answered)
      PROVE  OneSwitch'
  BY <1>0, <1>6 DEF Mint, AccountsType, OneSwitch, AccountsMatch, Chosen, Busy, Ended, Goto, OnAccount, rows, provider
<1>7. ASSUME NEW r \in Accts, Record(r) PROVE OneSwitch'
  BY <1>0, <1>7 DEF Record, AccountsType, OneSwitch, AccountsMatch, Chosen, Busy, Ended, Goto, OnAccount, rows, provider
<1>8. ASSUME NEW x \in Switches, NEW a \in Accts, Begin(x, a) PROVE OneSwitch'
  BY <1>0, <1>8, Beginning DEF OneSwitch, Busy, Ended
<1>9. ASSUME NEW x \in Switches, NEW applied \in BOOLEAN, NEW answered \in BOOLEAN,
             Update(x, applied, answered)
      PROVE  OneSwitch'
  BY <1>0, <1>9 DEF Update, AccountsType, OneSwitch, AccountsMatch, Chosen, Busy, Ended, Goto, OnAccount, rows, provider
<1>10. ASSUME NEW x \in Switches, Reread(x) \/ RereadCred(x) PROVE OneSwitch'
  <2>1. acct[x] \in Accts /\ pc[x] \in Chosen
    BY <1>0, <1>10, Rereading DEF AccountsType, AccountsMatch, Chosen
  <2>2. \A y \in Switches : Busy(y)' => Busy(y)
    BY <1>0, <1>10, <2>1, Rereading, KindsOfAccountRequest DEF Busy, Chosen, Ended
  <2>3. \A y \in Switches \ {x} : copy'[y] = copy[y] /\ pc'[y] = pc[y]
    BY <1>0, <1>10, <2>1, Rereading, RereadColumn
  <2>4. Switches \notin met =>
          /\ enabled[acct[x]] = (x \in Resumes) /\ copy'[x].status = status[acct[x]]
          /\ pc'[x] = "writing" => copy'[x].cred = cred[acct[x]]
    <3>1. CASE Reread(x) /\ pc[x] = "reread" /\ pc'[x] = "recred"
      BY <1>0, <2>1, <3>1, RereadColumn DEF OneSwitch
    <3>2. CASE RereadCred(x) /\ pc[x] = "recred" /\ pc'[x] = "writing"
      BY <1>0, <2>1, <3>2, RereadColumn DEF OneSwitch
    <3> QED BY <1>0, <1>10, <3>1, <3>2, Rereading
  <2>5. /\ UNCHANGED <<status, cred, enabled, acct, met>>
        /\ pc'[x] \in {"recred", "writing"}
    BY <1>0, <1>10, Rereading
  <2>6. Switches \notin met' => \A y, z \in Switches : Busy(y)' /\ Busy(z)' => y = z
    BY <1>0, <2>2, <2>5 DEF OneSwitch
  <2>7. ASSUME Switches \notin met', NEW y \in Switches
        PROVE  /\ pc'[y] \in {"reread", "recred", "writing"} => enabled'[acct'[y]] = (y \in Resumes)
               /\ pc'[y] \in {"recred", "writing"} => copy'[y].status = status'[acct'[y]]
               /\ pc'[y] = "writing" => copy'[y].cred = cred'[acct'[y]]
    <3>1. CASE y = x
      BY <2>4, <2>5, <2>7, <3>1
    <3>2. CASE y # x
      BY <1>0, <2>3, <2>5, <2>7, <3>2 DEF OneSwitch
    <3> QED BY <3>1, <3>2
  <2> QED BY <2>6, <2>7 DEF OneSwitch
<1>11. ASSUME NEW x \in Switches, Write(x) PROVE OneSwitch'
  <2>1. ASSUME Switches \notin met' PROVE OneSwitch'
    <3>1. \A y \in Switches : Busy(y)' => FALSE
      BY <1>0, <1>11, <2>1, Writing DEF OneSwitch, Busy, Ended
    <3> QED BY <3>1 DEF OneSwitch, Busy, Ended
  <2> QED BY <2>1 DEF OneSwitch
<1>12. ASSUME NEW r \in Reqs, Die(r) PROVE OneSwitch'
  BY <1>0, <1>12 DEF Die, AccountsType, OneSwitch, AccountsMatch, Chosen, Busy, Ended, Goto, OnAccount, rows, provider
<1>13. CASE UNCHANGED vars
  BY <1>0, <1>13 DEF vars, rows, provider, AccountsType, OneSwitch, AccountsMatch, Chosen, Busy, Ended, Goto, OnAccount, rows, provider
<1> QED BY <1>1, <1>2, <1>3, <1>4, <1>5, <1>6, <1>7, <1>8, <1>9, <1>10,
        <1>11, <1>12, <1>13 DEF Next, Provision, Switch

\* The row tells what the key does.
LEMMA RowsTellNext == SwitchInv /\ [Next]_vars => RowsTellTheKey'
<1> SUFFICES ASSUME SwitchInv, [Next]_vars PROVE RowsTellTheKey'
  OBVIOUS
<1>0. AccountsInv /\ AccountsType /\ AccountsMatch /\ OneSwitch /\ RowsTellTheKey
  BY DEF SwitchInv, AccountsInv
<1> USE KindsOfAccountRequest
<1>1. ASSUME NEW c \in Creates, LookUp(c) PROVE RowsTellTheKey'
  BY <1>0, <1>1, LookingUp DEF RowsTellTheKey, Spendable
<1>2. ASSUME NEW e \in Ensures, Skim(e) PROVE RowsTellTheKey'
  BY <1>0, <1>2, LookingUp DEF RowsTellTheKey, Spendable
<1>3. ASSUME NEW e \in Ensures, LookUpDefault(e) PROVE RowsTellTheKey'
  BY <1>0, <1>3, LookingUp DEF RowsTellTheKey, Spendable
<1>4. ASSUME NEW e \in Ensures, ListKeys(e) PROVE RowsTellTheKey'
  BY <1>0, <1>4 DEF ListKeys, AccountsType, OneSwitch, AccountsMatch, Chosen, Busy, Ended, Goto, OnAccount, rows, provider, RowsTellTheKey, Spendable
<1>5. ASSUME NEW r \in Accts, Insert(r) PROVE RowsTellTheKey'
  BY <1>0, <1>5, Inserting DEF RowsTellTheKey, Spendable
<1>6. ASSUME NEW r \in Accts, NEW made \in BOOLEAN, NEW answered \in BOOLEAN,
             Mint(r, made, answered)
      PROVE  RowsTellTheKey'
  BY <1>0, <1>6 DEF Mint, AccountsType, OneSwitch, AccountsMatch, Chosen, Busy, Ended, Goto, OnAccount, rows, provider, RowsTellTheKey, Spendable
<1>7. ASSUME NEW r \in Accts, Record(r) PROVE RowsTellTheKey'
  BY <1>0, <1>7 DEF Record, AccountsType, OneSwitch, AccountsMatch, Chosen, Busy, Ended, Goto, OnAccount, rows, provider, RowsTellTheKey, Spendable
<1>8. ASSUME NEW x \in Switches, NEW a \in Accts, Begin(x, a) PROVE RowsTellTheKey'
  BY <1>0, <1>8, Beginning DEF RowsTellTheKey, Spendable
<1>9. ASSUME NEW x \in Switches, NEW applied \in BOOLEAN, NEW answered \in BOOLEAN,
             Update(x, applied, answered)
      PROVE  RowsTellTheKey'
  <2>1. UNCHANGED <<status, cred, acct, met>> /\ pc[x] = "updating" /\ acct[x] \in Accts
    BY <1>0, <1>9 DEF Update, rows, AccountsMatch, Chosen, Rows
  <2>2. pc'[x] # "ok" /\ \A y \in Switches : y # x => pc'[y] = pc[y]
    BY <1>0, <1>9 DEF Update, AccountsType, Goto
  <2>3. /\ \A a \in Accts : a # acct[x] => enabled'[a] = enabled[a]
        /\ enabled'[acct[x]] = enabled[acct[x]] \/ enabled'[acct[x]] = (x \in Resumes)
    BY <1>0, <1>9, <2>1 DEF Update, AccountsType
  <2>4. (x \in Suspends /\ x \notin Resumes) \/ (x \in Resumes /\ x \notin Suspends)
    BY DEF Switches
  <2>5. ASSUME NEW a \in Accts, Switches \notin met, status[a] = "suspended",
               \A y \in Resumes : acct[y] = a => pc'[y] = "ok"
        PROVE  ~enabled'[a]
    <3>1. \A y \in Resumes : acct[y] = a => y # x /\ pc[y] = "ok"
      BY <2>2, <2>5
    <3>2. ~enabled[a]
      BY <1>0, <2>5, <3>1 DEF RowsTellTheKey
    <3> QED BY <2>3, <2>4, <3>1, <3>2
  <2>6. ASSUME NEW a \in Accts, Switches \notin met, Spendable(a),
               \A y \in Suspends : acct[y] = a => pc'[y] = "ok"
        PROVE  enabled'[a]
    <3>1. \A y \in Suspends : acct[y] = a => y # x /\ pc[y] = "ok"
      BY <2>2, <2>6
    <3>2. enabled[a]
      BY <1>0, <2>6, <3>1 DEF RowsTellTheKey
    <3> QED BY <2>3, <2>4, <3>1, <3>2
  <2> QED BY <2>1, <2>5, <2>6 DEF RowsTellTheKey, Spendable
<1>10. ASSUME NEW x \in Switches, Reread(x) \/ RereadCred(x) PROVE RowsTellTheKey'
  BY <1>0, <1>10 DEF Reread, RereadCred, AccountsType, OneSwitch, AccountsMatch, Chosen, Busy, Ended, Goto, OnAccount, rows, provider, RowsTellTheKey, Spendable
<1>11. ASSUME NEW x \in Switches, Write(x) PROVE RowsTellTheKey'
  <2>1. ASSUME Switches \notin met' PROVE RowsTellTheKey'
    <3>1. (x \in Suspends /\ x \notin Resumes) \/ (x \in Resumes /\ x \notin Suspends)
      BY DEF Switches
    <3>2. /\ UNCHANGED <<enabled, acct, met>> /\ acct[x] \in Accts
          /\ pc[x] = "writing" /\ pc'[x] = "ok" /\ \A y \in Switches : y # x => pc'[y] = pc[y]
          /\ enabled[acct[x]] = (x \in Resumes)
          /\ status'[acct[x]] = Wanted(x) /\ cred'[acct[x]] = Wanted(x)
          /\ \A a \in Accts : a # acct[x] => status'[a] = status[a] /\ cred'[a] = cred[a]
      BY <1>11, <2>1, Writing
    <3>3. /\ status'[acct[x]] = "suspended" => ~enabled'[acct[x]]
          /\ Spendable(acct[x])' => enabled'[acct[x]]
      BY <3>1, <3>2 DEF Wanted, Spendable
    <3>4. ASSUME NEW a \in Accts, a # acct[x]
          PROVE  /\ status'[a] = status[a] /\ cred'[a] = cred[a] /\ enabled'[a] = enabled[a]
                 /\ \A y \in Switches : acct[y] = a => pc'[y] = pc[y]
      BY <3>2, <3>4
    <3> QED BY <1>0, <2>1, <3>2, <3>3, <3>4 DEF RowsTellTheKey, Spendable
  <2> QED BY <2>1 DEF RowsTellTheKey
<1>12. ASSUME NEW r \in Reqs, Die(r) PROVE RowsTellTheKey'
  BY <1>0, <1>12 DEF Die, AccountsType, OneSwitch, AccountsMatch, Chosen, Busy, Ended, Goto, OnAccount, rows, provider, RowsTellTheKey, Spendable
<1>13. CASE UNCHANGED vars
  BY <1>0, <1>13 DEF vars, rows, provider, AccountsType, OneSwitch, AccountsMatch, Chosen, Busy, Ended, Goto, OnAccount, rows, provider, RowsTellTheKey, Spendable
<1> QED BY <1>1, <1>2, <1>3, <1>4, <1>5, <1>6, <1>7, <1>8, <1>9, <1>10,
        <1>11, <1>12, <1>13 DEF Next, Provision, Switch

\* Both invariants, step by step.
LEMMA SwitchNext == SwitchInv /\ [Next]_vars => SwitchInv'
<1> SUFFICES ASSUME SwitchInv, [Next]_vars PROVE SwitchInv'
  OBVIOUS
<1>1. AccountsInv'
  BY AccountsNext DEF SwitchInv
<1> QED BY <1>1, OneSwitchNext, RowsTellNext DEF SwitchInv

\* The rows of an organization tell what its keys do, for any number of requests
\* (set_status, require_spendable_account).
THEOREM RowTellsKey == Spec => []RowsTellTheKey
<1>1. SwitchInv => RowsTellTheKey
  BY DEF SwitchInv
<1> QED BY AccountsInit, SwitchNext, <1>1, PTL DEF Spec

\* A suspension ends well at its checks, on a row that is suspended, or when it has
\* written the row.
LEMMA SuspensionEnds ==
  ASSUME SwitchInv, Next, NEW s \in Suspends, pc[s] # "ok", pc'[s] = "ok"
  PROVE  Write(s) \/ \E a \in Accts : Begin(s, a)
<1> USE KindsOfAccountRequest DEF Goto, OnAccount
<1>0. AccountsType
  BY DEF SwitchInv, AccountsInv
<1>1. s \in Switches /\ s \notin Accts
  OBVIOUS
<1>2. (\E c \in Creates : LookUp(c)) \/ (\E e \in Ensures : Skim(e) \/ LookUpDefault(e)) => FALSE
  BY <1>0, <1>1, LookingUp
<1>3. ASSUME NEW e \in Ensures, ListKeys(e) PROVE FALSE
  BY <1>0, <1>1, <1>3 DEF ListKeys, AccountsType
<1>4. ASSUME NEW r \in Accts, Insert(r) PROVE FALSE
  BY <1>0, <1>1, <1>4 DEF Insert, AccountsType
<1>5. ASSUME NEW r \in Accts, NEW made \in BOOLEAN, NEW answered \in BOOLEAN, Mint(r, made, answered)
      PROVE  FALSE
  BY <1>0, <1>1, <1>5 DEF Mint, AccountsType
<1>6. ASSUME NEW r \in Accts, Record(r) PROVE FALSE
  BY <1>0, <1>1, <1>6 DEF Record, AccountsType
<1>7. ASSUME NEW x \in Switches, NEW a \in Accts, Begin(x, a) PROVE x = s
  BY <1>0, <1>1, <1>7 DEF Begin, AccountsType
<1>8. ASSUME NEW x \in Switches, NEW applied \in BOOLEAN, NEW answered \in BOOLEAN,
             Update(x, applied, answered)
      PROVE  FALSE
  BY <1>0, <1>1, <1>8 DEF Update, AccountsType
<1>9. ASSUME NEW x \in Switches, Reread(x) \/ RereadCred(x) PROVE FALSE
  BY <1>0, <1>1, <1>9 DEF Reread, RereadCred, AccountsType
<1>10. ASSUME NEW x \in Switches, Write(x) PROVE x = s
  BY <1>0, <1>1, <1>10 DEF Write, AccountsType
<1>11. ASSUME NEW r \in Reqs, Die(r) PROVE FALSE
  BY <1>0, <1>1, <1>11 DEF Die, AccountsType
<1> QED BY <1>2, <1>3, <1>4, <1>5, <1>6, <1>7, <1>8, <1>9, <1>10, <1>11 DEF Next, Provision, Switch

\* A suspension that is reported to have worked has stopped the spending, whatever came
\* before it (suspend_account).
THEOREM SuspensionStops == Spec => SuspendStops
<1> DEFINE Stops == Switches \notin met' /\ (\A x \in Resumes : pc[x] # "failed") =>
                      \A s \in Suspends : pc[s] # "ok" /\ pc'[s] = "ok" => ~enabled'[acct'[s]]
<1>1. SwitchInv /\ [Next]_vars => [Stops]_vars
  <2> SUFFICES ASSUME SwitchInv, Next, Switches \notin met', \A x \in Resumes : pc[x] # "failed",
                      NEW s \in Suspends, pc[s] # "ok", pc'[s] = "ok"
               PROVE  ~enabled'[acct'[s]]
    OBVIOUS
  <2>1. s \in Switches /\ s \notin Resumes
    BY KindsOfAccountRequest
  <2>2. CASE Write(s)
    BY <2>1, <2>2, Writing
  <2>3. ASSUME NEW a \in Accts, Begin(s, a) PROVE ~enabled'[acct'[s]]
    <3>1. /\ UNCHANGED <<status, enabled>> /\ met \subseteq met' /\ acct'[s] = a
          /\ (\A y \in Switches : ~Busy(y)) /\ status[a] = "suspended"
      BY <2>1, <2>3, Beginning DEF SwitchInv, Wanted
    <3>2. \A y \in Resumes : acct[y] = a => pc[y] = "ok"
      BY <3>1, KindsOfAccountRequest DEF SwitchInv, AccountsInv, AccountsType, AccountsMatch, Busy, Ended
    <3> QED BY <3>1, <3>2 DEF SwitchInv, RowsTellTheKey
  <2> QED BY <2>2, <2>3, SuspensionEnds
<1> QED BY AccountsInit, SwitchNext, <1>1, PTL DEF Spec, SuspendStops

(***************************************************************************)
(* API keys.                                                               *)
(***************************************************************************)

KeyPlaces == {"new", "inserting", "listing", "minting", "loaded", "rotating", "touching",
              "stamping", "done", "refused"}

KeysType ==
  /\ org \in BOOLEAN /\ orgLock \in Bootstraps \cup {None}
  /\ keyLock \in [K!Makers -> Rotations \cup {None}] /\ keys \in [K!Makers -> K!Key \cup {None}]
  /\ step \in [K!Reqs -> KeyPlaces] /\ held \in [K!Reqs -> K!Makers \cup {None}]
  /\ answer \in [Bootstraps -> K!Makers \cup {None}] /\ late \in BOOLEAN

\* A bootstrap that is to make the first key holds the organization, and there is none.
OrgHeld   == \A b \in Bootstraps : step[b] \in {"listing", "minting"} => orgLock = b
Unopposed == \A b \in Bootstraps \ Allowed : step[b] = "minting" => K!ActiveAdmins = {}

\* A rotation holds a key that is active, unless it expires.
KeyHeld == \A t \in Rotations : step[t] = "rotating" =>
  /\ held[t] \in K!Rows /\ keyLock[held[t]] = t /\ keys[held[t]].revoked = None
  /\ ~late => ~keys[held[t]].expired

\* A request holds a row, and has made no key yet, unless it is one that may be
\* repeated with the key that it brings.
RowsHeld == \A q \in K!Reqs : step[q] \in {"loaded", "touching", "stamping"} => held[q] \in K!Rows
NotMade  == \A m \in K!Makers \ Supplied : step[m] \notin {"done", "refused"} => keys[m] = None

LocksHold == OrgHeld /\ Unopposed /\ KeyHeld /\ RowsHeld /\ NotMade

\* A key replaces one that is there, and in the end one that replaces none.
Replacing == {m \in K!Rows : keys[m].replaces # None}
Lineage ==
  /\ \A m \in Replacing : keys[m].replaces \in K!Rows
  /\ \A path \in SUBSET Replacing : path # {} => \E m \in path : keys[m].replaces \notin path

KeysInv == KeysType /\ LocksHold /\ Lineage /\ K!OneAdmin

\* What a request of one kind cannot be, and what None is not.
LEMMA KindsOfKeyRequest ==
  /\ \A b \in Bootstraps :
       b \in K!Makers /\ b \in K!Reqs /\ b \notin KeyCreates \cup Revokes \cup Rotations \cup Calls
  /\ \A c \in KeyCreates :
       c \in K!Makers /\ c \in K!Reqs /\ c \in K!Console /\ c \notin Revokes \cup Rotations \cup Calls
  /\ \A r \in Revokes : r \in K!Reqs /\ r \notin K!Makers \cup Calls
  /\ \A t \in Rotations : t \in K!Makers /\ t \in K!Reqs /\ t \notin Calls
  /\ \A c \in Calls : c \in K!Reqs /\ c \notin K!Makers
  /\ \A q \in K!Reqs : q # None
  /\ None \notin K!Key /\ Supplied \subseteq Bootstraps /\ Allowed \subseteq Bootstraps
BY KeysAssumption DEF K!Makers, K!Console, K!Reqs, K!RequestAssumption, K!NoneAssumption

\* The rows of keys: a new one, and one of which a column is written.
LEMMA NewKeyIs ==
  ASSUME NEW admin \in BOOLEAN, NEW owner \in {User[q] : q \in K!Console} \cup {None},
         NEW replaces \in K!Makers \cup {None}, NEW expires \in BOOLEAN
  PROVE  LET key == K!NewKey(admin, owner, replaces, expires)
         IN  /\ key \in K!Key /\ key.admin = admin /\ key.replaces = replaces
             /\ key.revoked = None /\ key.expired = FALSE
BY DEF K!NewKey, K!Key

SameKey(new, old) == new.admin = old.admin /\ new.replaces = old.replaces

LEMMA WriteRevoked ==
  ASSUME KeysType, NEW k \in K!Rows, NEW r \in Revokes,
         keys' = [keys EXCEPT ![k].revoked = r]
  PROVE  /\ keys' \in [K!Makers -> K!Key \cup {None}]
         /\ keys'[k] \in K!Key /\ SameKey(keys'[k], keys[k]) /\ keys'[k].expired = keys[k].expired
         /\ \A j \in K!Makers \ {k} : keys'[j] = keys[j]
<1>1. keys \in [K!Makers -> K!Key \cup {None}] /\ k \in K!Makers /\ keys[k] \in K!Key
  BY DEF KeysType, K!Rows
<1>2. ASSUME NEW key \in K!Key, NEW new, new = [key EXCEPT !.revoked = r]
      PROVE  new \in K!Key /\ SameKey(new, key) /\ new.expired = key.expired
  BY <1>2 DEF K!Key, SameKey
<1>3. keys' = [keys EXCEPT ![k] = [keys[k] EXCEPT !.revoked = r]]
  OBVIOUS
<1> QED BY <1>1, <1>2, <1>3

LEMMA WriteExpired ==
  ASSUME KeysType, NEW k \in K!Rows, keys' = [keys EXCEPT ![k].expired = TRUE]
  PROVE  /\ keys' \in [K!Makers -> K!Key \cup {None}]
         /\ keys'[k] \in K!Key /\ SameKey(keys'[k], keys[k])
         /\ keys'[k].revoked = keys[k].revoked /\ keys'[k].expired
         /\ \A j \in K!Makers \ {k} : keys'[j] = keys[j]
<1>1. keys \in [K!Makers -> K!Key \cup {None}] /\ k \in K!Makers /\ keys[k] \in K!Key
  BY DEF KeysType, K!Rows
<1>2. ASSUME NEW key \in K!Key, NEW new, new = [key EXCEPT !.expired = TRUE]
      PROVE  new \in K!Key /\ SameKey(new, key) /\ new.revoked = key.revoked /\ new.expired
  BY <1>2 DEF K!Key, SameKey
<1>3. keys' = [keys EXCEPT ![k] = [keys[k] EXCEPT !.expired = TRUE]]
  OBVIOUS
<1> QED BY <1>1, <1>2, <1>3

\* The first state.
LEMMA KeysInit == K!Init => KeysInv
<1> SUFFICES ASSUME K!Init PROVE KeysInv
  OBVIOUS
<1> USE KindsOfKeyRequest DEF K!Init
<1>1. KeysType
  BY DEF KeysType, KeyPlaces
<1>2. K!Rows = {} /\ Replacing = {} /\ K!ActiveAdmins = {}
  BY DEF K!Rows, Replacing, K!ActiveAdmins
<1>3. LocksHold
  BY <1>2 DEF LocksHold, OrgHeld, Unopposed, KeyHeld, RowsHeld, NotMade, K!Reqs
<1>4. Lineage /\ K!OneAdmin
  BY <1>2 DEF Lineage, K!OneAdmin
<1> QED BY <1>1, <1>3, <1>4 DEF KeysInv

\* What is there stays, and what is said of its end; a key that is locked is not revoked.
KeyKept(k) ==
  /\ keys'[k] # None /\ SameKey(keys'[k], keys[k])
  /\ keys'[k].revoked = keys[k].revoked \/ (keys[k].revoked = None /\ keyLock[k] = None)
  /\ keys'[k].expired = keys[k].expired \/ (~keys[k].expired /\ K!Expires(k))
KeysKept == \A k \in K!Rows : KeyKept(k)

\* A bootstrap makes its key, or is refused: either way it is over.
LEMMA Minting ==
  ASSUME KeysType, NEW b \in Bootstraps, K!MintFirst(b)
  PROVE  /\ step[b] = "minting" /\ step'[b] \in {"done", "refused"}
         /\ step' \in [K!Reqs -> KeyPlaces] /\ \A q \in K!Reqs \ {b} : step'[q] = step[q]
         /\ org' \in BOOLEAN /\ orgLock' = IF orgLock = b THEN None ELSE orgLock
         /\ UNCHANGED <<keyLock, held, late>>
         /\ \A m \in K!Makers \ {b} : keys'[m] = keys[m]
<1>1. /\ step[b] = "minting" /\ orgLock' = IF orgLock = b THEN None ELSE orgLock
      /\ UNCHANGED <<keyLock, held, late>>
  BY DEF K!MintFirst, K!Unlock
<1>2. step' = [step EXCEPT ![b] = "done"] \/ step' = [step EXCEPT ![b] = "refused"]
  BY DEF K!MintFirst, K!Goto
<1>3. UNCHANGED keys \/ \E key : keys' = [keys EXCEPT ![b] = key]
  BY DEF K!MintFirst
<1>4. org' \in {org, TRUE}
  BY DEF K!MintFirst
<1>5. /\ b \in K!Reqs /\ step \in [K!Reqs -> KeyPlaces] /\ org \in BOOLEAN
      /\ keys \in [K!Makers -> K!Key \cup {None}]
  BY KindsOfKeyRequest DEF KeysType
<1>6. \A m \in K!Makers \ {b} : keys'[m] = keys[m]
  BY <1>3, <1>5
<1>7. /\ step'[b] \in {"done", "refused"} /\ step' \in [K!Reqs -> KeyPlaces]
      /\ \A q \in K!Reqs \ {b} : step'[q] = step[q]
  BY <1>2, <1>5 DEF KeyPlaces
<1> QED BY <1>1, <1>4, <1>5, <1>6, <1>7

\* Types.
LEMMA KeysTypeNext == (KeysType /\ LocksHold) /\ [K!Step]_(K!keyVars) => KeysType'
<1> SUFFICES ASSUME (KeysType /\ LocksHold), [K!Step]_(K!keyVars) PROVE KeysType'
  OBVIOUS
<1>0. KeysType /\ LocksHold
  OBVIOUS
<1> USE KindsOfKeyRequest
<1>1. ASSUME NEW b \in Bootstraps, K!LockOrganization(b) PROVE KeysType'
  BY <1>0, <1>1 DEF K!LockOrganization, KeysType, KeyPlaces, K!Goto, K!Ends, K!Unlock
<1>2. ASSUME NEW b \in Bootstraps, K!InsertOrganization(b) PROVE KeysType'
  BY <1>0, <1>2 DEF K!InsertOrganization, KeysType, KeyPlaces, K!Goto, K!Ends, K!Unlock
<1>3. ASSUME NEW b \in Bootstraps, K!ListKeys(b) PROVE KeysType'
  <2>1. answer' \in [Bootstraps -> K!Makers \cup {None}]
    BY <1>0, <1>3 DEF K!ListKeys, KeysType, K!ActiveAdmins, K!Rows
  <2> QED BY <1>0, <1>3, <2>1 DEF K!ListKeys, KeysType, KeyPlaces, K!Goto, K!Unlock
<1>4. ASSUME NEW b \in Bootstraps, K!MintFirst(b) PROVE KeysType'
  <2>1. K!NewKey(TRUE, None, None, FALSE) \in K!Key
    BY NewKeyIs
  <2>2. /\ keys' \in [K!Makers -> K!Key \cup {None}]
        /\ answer' \in [Bootstraps -> K!Makers \cup {None}]
    <3>1. \/ UNCHANGED <<keys, answer>>
          \/ /\ \E key \in K!Key : keys' = [keys EXCEPT ![b] = key]
             /\ answer' = [answer EXCEPT ![b] = b]
      BY <1>4, <2>1 DEF K!MintFirst
    <3>2. keys' \in [K!Makers -> K!Key \cup {None}]
      BY <1>0, <2>1, <3>1 DEF KeysType
    <3>3. answer' \in [Bootstraps -> K!Makers \cup {None}]
      BY <1>0, <3>1 DEF KeysType
    <3> QED BY <3>2, <3>3
  <2>3. /\ step' \in [K!Reqs -> KeyPlaces] /\ org' \in BOOLEAN /\ orgLock' \in Bootstraps \cup {None}
        /\ UNCHANGED <<keyLock, held, late>>
    BY <1>0, <1>4, Minting DEF KeysType
  <2> QED BY <1>0, <2>2, <2>3 DEF KeysType
<1>5. ASSUME NEW b \in Bootstraps, K!Again(b) PROVE KeysType'
  BY <1>0, <1>5 DEF K!Again, KeysType, KeyPlaces, K!Goto, K!Ends, K!Unlock
<1>6. ASSUME NEW c \in KeyCreates, K!CreateKey(c) PROVE KeysType'
  <2>0. User[c] \in {User[q] : q \in K!Console} \cup {None}
    OBVIOUS
  <2>1. K!NewKey(FALSE, User[c], None, FALSE) \in K!Key
    BY <2>0, NewKeyIs
  <2> QED BY <1>0, <1>6, <2>1 DEF K!CreateKey, KeysType, KeyPlaces, K!Goto
<1>7. ASSUME NEW r \in Revokes, NEW k \in K!Rows, K!LoadKey(r, k) PROVE KeysType'
  BY <1>0, <1>7 DEF K!LoadKey, K!Rows, KeysType, KeyPlaces, K!Goto
<1>8. ASSUME NEW r \in Revokes, K!Revoke(r) PROVE KeysType'
  <2>1. held[r] \in K!Rows
    BY <1>0, <1>8 DEF K!Revoke, LocksHold, RowsHeld
  <2>2. keys' \in [K!Makers -> K!Key \cup {None}]
    BY <1>0, <1>8, <2>1, WriteRevoked DEF K!Revoke, KeysType
  <2> QED BY <1>0, <1>8, <2>2 DEF K!Revoke, KeysType, KeyPlaces, K!Goto, K!Ends
<1>9. ASSUME NEW t \in Rotations, NEW k \in K!Rows, K!LockKey(t, k) PROVE KeysType'
  BY <1>0, <1>9 DEF K!LockKey, K!Rows, KeysType, KeyPlaces, K!Goto
<1>10. ASSUME NEW t \in Rotations, NEW expires \in BOOLEAN, K!Rotate(t, expires) PROVE KeysType'
  <2>1. held[t] \in K!Makers /\ keys[held[t]] \in K!Key
    BY <1>0, <1>10 DEF K!Rotate, LocksHold, KeyHeld, K!Rows, KeysType
  <2>2. K!NewKey(keys[held[t]].admin, None, held[t], expires) \in K!Key
    <3>1. keys[held[t]].admin \in BOOLEAN
      BY <2>1 DEF K!Key
    <3> QED BY <2>1, <3>1, NewKeyIs
  <2>3. keyLock' \in [K!Makers -> Rotations \cup {None}]
    BY <1>0, <1>10, <2>1 DEF K!Rotate, KeysType
  <2> QED BY <1>0, <1>10, <2>2, <2>3 DEF K!Rotate, KeysType, KeyPlaces, K!Goto
<1>11. ASSUME NEW c \in Calls, NEW k \in K!Rows, K!Authenticate(c, k) PROVE KeysType'
  BY <1>0, <1>11 DEF K!Authenticate, K!Rows, KeysType, KeyPlaces, K!Goto
<1>12. ASSUME NEW c \in Calls, K!ReadUse(c) PROVE KeysType'
  BY <1>0, <1>12 DEF K!ReadUse, KeysType, KeyPlaces, K!Goto, K!Ends, K!Unlock
<1>13. ASSUME NEW c \in Calls, K!Stamp(c) PROVE KeysType'
  BY <1>0, <1>13 DEF K!Stamp, KeysType, KeyPlaces, K!Goto, K!Ends, K!Unlock
<1>14. ASSUME NEW k \in K!Rows, K!Expires(k) PROVE KeysType'
  <2>1. keys' \in [K!Makers -> K!Key \cup {None}]
    BY <1>0, <1>14, WriteExpired DEF K!Expires
  <2> QED BY <1>0, <1>14, <2>1 DEF K!Expires, KeysType
<1>15. ASSUME NEW q \in K!Reqs, K!Stop(q) PROVE KeysType'
  BY <1>0, <1>15 DEF K!Stop, KeysType, KeyPlaces, K!Goto, K!Ends, K!Unlock
<1>16. CASE UNCHANGED K!keyVars
  BY <1>0, <1>16 DEF K!keyVars, KeysType, KeyPlaces, K!Goto, K!Ends, K!Unlock
<1> QED BY <1>1, <1>2, <1>3, <1>4, <1>5, <1>6, <1>7, <1>8, <1>9, <1>10, <1>11, <1>12,
        <1>13, <1>14, <1>15, <1>16 DEF K!Step

\* No step takes a key away or brings one back.
LEMMA KeysStay == (KeysType /\ LocksHold) /\ [K!Step]_(K!keyVars) => KeysKept
<1> SUFFICES ASSUME (KeysType /\ LocksHold), [K!Step]_(K!keyVars) PROVE KeysKept
  OBVIOUS
<1>0. KeysType /\ LocksHold
  OBVIOUS
<1> USE KindsOfKeyRequest
<1>1. ASSUME NEW b \in Bootstraps, K!LockOrganization(b) PROVE KeysKept
  BY <1>0, <1>1 DEF K!LockOrganization, K!Rows, KeysKept, KeyKept, SameKey
<1>2. ASSUME NEW b \in Bootstraps, K!InsertOrganization(b) PROVE KeysKept
  BY <1>0, <1>2 DEF K!InsertOrganization, K!Rows, KeysKept, KeyKept, SameKey
<1>3. ASSUME NEW b \in Bootstraps, K!ListKeys(b) PROVE KeysKept
  BY <1>0, <1>3 DEF K!ListKeys, K!Rows, KeysKept, KeyKept, SameKey
<1>4. ASSUME NEW b \in Bootstraps, K!MintFirst(b) PROVE KeysKept
  <2>1. keys' = keys \/ (keys' = [keys EXCEPT ![b] = K!NewKey(TRUE, None, None, FALSE)] /\ b \notin K!Rows)
    <3>1. b \in Supplied \/ keys[b] = None
      BY <1>0, <1>4 DEF K!MintFirst, LocksHold, NotMade
    <3> QED BY <1>4, <3>1 DEF K!MintFirst, K!SameToken, K!Rows
  <2> QED BY <1>0, <2>1 DEF KeysType, K!Rows, KeysKept, KeyKept, SameKey
<1>5. ASSUME NEW b \in Bootstraps, K!Again(b) PROVE KeysKept
  BY <1>0, <1>5 DEF K!Again, K!Rows, KeysKept, KeyKept, SameKey
<1>6. ASSUME NEW c \in KeyCreates, K!CreateKey(c) PROVE KeysKept
  <2>1. c \notin K!Rows
    BY <1>0, <1>6 DEF K!CreateKey, LocksHold, NotMade, K!Rows
  <2> QED BY <1>0, <1>6, <2>1 DEF K!CreateKey, K!Rows, KeysType, KeysKept, KeyKept, SameKey
<1>7. ASSUME NEW r \in Revokes, NEW k \in K!Rows, K!LoadKey(r, k) PROVE KeysKept
  BY <1>0, <1>7 DEF K!LoadKey, K!Rows, KeysKept, KeyKept, SameKey
<1>8. ASSUME NEW r \in Revokes, K!Revoke(r) PROVE KeysKept
  <2>1. held[r] \in K!Rows
    BY <1>0, <1>8 DEF K!Revoke, LocksHold, RowsHeld
  <2>2. CASE keys[held[r]].revoked = None
    <3>1. /\ keys'[held[r]] \in K!Key /\ SameKey(keys'[held[r]], keys[held[r]])
          /\ keys'[held[r]].expired = keys[held[r]].expired
          /\ \A j \in K!Makers \ {held[r]} : keys'[j] = keys[j]
      BY <1>0, <1>8, <2>1, <2>2, WriteRevoked DEF K!Revoke
    <3>2. keyLock[held[r]] = None
      BY <1>8 DEF K!Revoke
    <3> QED BY <2>2, <3>1, <3>2 DEF KeysKept, KeyKept, SameKey, K!Rows
  <2>3. CASE keys[held[r]].revoked # None
    BY <1>8, <2>3 DEF K!Revoke, KeysKept, KeyKept, SameKey, K!Rows
  <2> QED BY <2>2, <2>3
<1>9. ASSUME NEW t \in Rotations, NEW k \in K!Rows, K!LockKey(t, k) PROVE KeysKept
  BY <1>0, <1>9 DEF K!LockKey, K!Rows, KeysKept, KeyKept, SameKey
<1>10. ASSUME NEW t \in Rotations, NEW expires \in BOOLEAN, K!Rotate(t, expires) PROVE KeysKept
  <2>1. t \notin K!Rows
    BY <1>0, <1>10 DEF K!Rotate, LocksHold, NotMade, K!Rows
  <2> QED BY <1>0, <1>10, <2>1 DEF K!Rotate, K!Rows, KeysType, KeysKept, KeyKept, SameKey
<1>11. ASSUME NEW c \in Calls, NEW k \in K!Rows, K!Authenticate(c, k) PROVE KeysKept
  BY <1>0, <1>11 DEF K!Authenticate, K!Rows, KeysKept, KeyKept, SameKey
<1>12. ASSUME NEW c \in Calls, K!ReadUse(c) PROVE KeysKept
  BY <1>0, <1>12 DEF K!ReadUse, K!Rows, KeysKept, KeyKept, SameKey
<1>13. ASSUME NEW c \in Calls, K!Stamp(c) PROVE KeysKept
  BY <1>0, <1>13 DEF K!Stamp, K!Rows, KeysKept, KeyKept, SameKey
<1>14. ASSUME NEW k \in K!Rows, K!Expires(k) PROVE KeysKept
  <2>1. /\ keys'[k] \in K!Key /\ SameKey(keys'[k], keys[k])
        /\ keys'[k].revoked = keys[k].revoked /\ keys'[k].expired
        /\ \A j \in K!Makers \ {k} : keys'[j] = keys[j]
    BY <1>0, <1>14, WriteExpired DEF K!Expires
  <2>2. ~keys[k].expired
    BY <1>14 DEF K!Expires
  <2> QED BY <1>14, <2>1, <2>2 DEF KeysKept, KeyKept, SameKey, K!Rows
<1>15. ASSUME NEW q \in K!Reqs, K!Stop(q) PROVE KeysKept
  BY <1>0, <1>15 DEF K!Stop, K!Rows, KeysKept, KeyKept, SameKey
<1>16. CASE UNCHANGED K!keyVars
  BY <1>0, <1>16 DEF K!keyVars, K!Rows, KeysKept, KeyKept, SameKey
<1> QED BY <1>1, <1>2, <1>3, <1>4, <1>5, <1>6, <1>7, <1>8, <1>9, <1>10, <1>11, <1>12,
        <1>13, <1>14, <1>15, <1>16 DEF K!Step

\* A new key is made by a bootstrap, in the console, where it manages nothing, or by a
\* rotation.
RowsCome == \A k \in K!Rows' :
  \/ k \in K!Rows
  \/ k \in Bootstraps /\ K!MintFirst(k)
  \/ k \in KeyCreates /\ K!CreateKey(k) /\ ~keys'[k].admin
  \/ k \in Rotations /\ \E expires \in BOOLEAN : K!Rotate(k, expires)

\* Where a new key comes from.
LEMMA NewRows == (KeysType /\ LocksHold) /\ [K!Step]_(K!keyVars) => RowsCome
<1> SUFFICES ASSUME (KeysType /\ LocksHold), [K!Step]_(K!keyVars) PROVE RowsCome
  OBVIOUS
<1>0. KeysType /\ LocksHold
  OBVIOUS
<1> USE KindsOfKeyRequest
<1>1. ASSUME NEW b \in Bootstraps, K!LockOrganization(b) PROVE RowsCome
  BY <1>0, <1>1 DEF K!LockOrganization, RowsCome, K!Rows
<1>2. ASSUME NEW b \in Bootstraps, K!InsertOrganization(b) PROVE RowsCome
  BY <1>0, <1>2 DEF K!InsertOrganization, RowsCome, K!Rows
<1>3. ASSUME NEW b \in Bootstraps, K!ListKeys(b) PROVE RowsCome
  BY <1>0, <1>3 DEF K!ListKeys, RowsCome, K!Rows
<1>4. ASSUME NEW b \in Bootstraps, K!MintFirst(b) PROVE RowsCome
  <2>1. UNCHANGED keys \/ \E key : keys' = [keys EXCEPT ![b] = key]
    BY <1>4 DEF K!MintFirst
  <2>2. \A j \in K!Makers : j # b => keys'[j] = keys[j]
    BY <1>0, <2>1 DEF KeysType
  <2> QED BY <1>4, <2>2 DEF RowsCome, K!Rows
<1>5. ASSUME NEW b \in Bootstraps, K!Again(b) PROVE RowsCome
  BY <1>0, <1>5 DEF K!Again, RowsCome, K!Rows
<1>6. ASSUME NEW c \in KeyCreates, K!CreateKey(c) PROVE RowsCome
  <2>1. K!NewKey(FALSE, User[c], None, FALSE).admin = FALSE
    BY DEF K!NewKey
  <2> QED BY <1>0, <1>6, <2>1 DEF K!CreateKey, RowsCome, K!Rows, KeysType
<1>7. ASSUME NEW r \in Revokes, NEW k \in K!Rows, K!LoadKey(r, k) PROVE RowsCome
  BY <1>0, <1>7 DEF K!LoadKey, RowsCome, K!Rows
<1>8. ASSUME NEW r \in Revokes, K!Revoke(r) PROVE RowsCome
  <2>1. held[r] \in K!Rows
    BY <1>0, <1>8 DEF K!Revoke, LocksHold, RowsHeld
  <2>2. \A j \in K!Makers \ {held[r]} : keys'[j] = keys[j]
    BY <1>0, <1>8, <2>1, WriteRevoked DEF K!Revoke
  <2> QED BY <2>1, <2>2 DEF RowsCome, K!Rows
<1>9. ASSUME NEW t \in Rotations, NEW k \in K!Rows, K!LockKey(t, k) PROVE RowsCome
  BY <1>0, <1>9 DEF K!LockKey, RowsCome, K!Rows
<1>10. ASSUME NEW t \in Rotations, NEW expires \in BOOLEAN, K!Rotate(t, expires) PROVE RowsCome
  <2>1. UNCHANGED keys \/ \E key : keys' = [keys EXCEPT ![t] = key]
    BY <1>10 DEF K!Rotate
  <2>2. \A j \in K!Makers : j # t => keys'[j] = keys[j]
    BY <1>0, <2>1 DEF KeysType
  <2> QED BY <1>10, <2>2 DEF RowsCome, K!Rows
<1>11. ASSUME NEW c \in Calls, NEW k \in K!Rows, K!Authenticate(c, k) PROVE RowsCome
  BY <1>0, <1>11 DEF K!Authenticate, RowsCome, K!Rows
<1>12. ASSUME NEW c \in Calls, K!ReadUse(c) PROVE RowsCome
  BY <1>0, <1>12 DEF K!ReadUse, RowsCome, K!Rows
<1>13. ASSUME NEW c \in Calls, K!Stamp(c) PROVE RowsCome
  BY <1>0, <1>13 DEF K!Stamp, RowsCome, K!Rows
<1>14. ASSUME NEW k \in K!Rows, K!Expires(k) PROVE RowsCome
  <2>1. \A j \in K!Makers \ {k} : keys'[j] = keys[j]
    BY <1>0, <1>14, WriteExpired DEF K!Expires
  <2> QED BY <2>1 DEF RowsCome, K!Rows
<1>15. ASSUME NEW q \in K!Reqs, K!Stop(q) PROVE RowsCome
  BY <1>0, <1>15 DEF K!Stop, RowsCome, K!Rows
<1>16. CASE UNCHANGED K!keyVars
  BY <1>0, <1>16 DEF K!keyVars, RowsCome, K!Rows
<1> QED BY <1>1, <1>2, <1>3, <1>4, <1>5, <1>6, <1>7, <1>8, <1>9, <1>10, <1>11, <1>12,
        <1>13, <1>14, <1>15, <1>16 DEF K!Step

\* So an active management key is one that was, or is made by one of these.
LEMMA ActiveFrom ==
  KeysType /\ LocksHold /\ [K!Step]_(K!keyVars) =>
    \A k \in K!ActiveAdmins' :
      \/ k \in K!ActiveAdmins
      \/ k \in Bootstraps /\ K!MintFirst(k)
      \/ k \in Rotations /\ \E expires \in BOOLEAN : K!Rotate(k, expires)
<1> SUFFICES ASSUME KeysType, LocksHold, [K!Step]_(K!keyVars), NEW k \in K!ActiveAdmins'
             PROVE  \/ k \in K!ActiveAdmins
                    \/ k \in Bootstraps /\ K!MintFirst(k)
                    \/ k \in Rotations /\ \E expires \in BOOLEAN : K!Rotate(k, expires)
  OBVIOUS
<1>1. k \in K!Rows' /\ keys'[k].revoked = None /\ ~keys'[k].expired /\ keys'[k].admin
  BY DEF K!ActiveAdmins, K!Live
<1>2. CASE k \in K!Rows
  <2>1. KeyKept(k)
    BY <1>2, KeysStay DEF KeysKept
  <2> QED BY <1>1, <1>2, <2>1 DEF KeyKept, SameKey, K!ActiveAdmins, K!Live
<1>3. CASE k \notin K!Rows
  BY <1>1, <1>3, NewRows DEF RowsCome
<1> QED BY <1>2, <1>3

\* The organization.
LEMMA OrgHeldNext == (KeysType /\ LocksHold) /\ [K!Step]_(K!keyVars) => OrgHeld'
<1> SUFFICES ASSUME (KeysType /\ LocksHold), [K!Step]_(K!keyVars) PROVE OrgHeld'
  OBVIOUS
<1>0. KeysType /\ LocksHold
  OBVIOUS
<1> USE KindsOfKeyRequest DEF LocksHold, OrgHeld
<1>1. ASSUME NEW b \in Bootstraps, K!LockOrganization(b) PROVE OrgHeld'
  BY <1>0, <1>1 DEF K!LockOrganization, KeysType, KeyPlaces, K!Goto, K!Ends, K!Unlock
<1>2. ASSUME NEW b \in Bootstraps, K!InsertOrganization(b) PROVE OrgHeld'
  BY <1>0, <1>2 DEF K!InsertOrganization, KeysType, KeyPlaces, K!Goto, K!Ends, K!Unlock
<1>3. ASSUME NEW b \in Bootstraps, K!ListKeys(b) PROVE OrgHeld'
  BY <1>0, <1>3 DEF K!ListKeys, KeysType, KeyPlaces, K!Goto, K!Ends, K!Unlock
<1>4. ASSUME NEW b \in Bootstraps, K!MintFirst(b) PROVE OrgHeld'
  BY <1>0, <1>4, Minting
<1>5. ASSUME NEW b \in Bootstraps, K!Again(b) PROVE OrgHeld'
  BY <1>0, <1>5 DEF K!Again, KeysType, KeyPlaces, K!Goto, K!Ends, K!Unlock
<1>6. ASSUME NEW c \in KeyCreates, K!CreateKey(c) PROVE OrgHeld'
  BY <1>0, <1>6 DEF K!CreateKey, KeysType, KeyPlaces, K!Goto, K!Ends, K!Unlock
<1>7. ASSUME NEW r \in Revokes, NEW k \in K!Rows, K!LoadKey(r, k) PROVE OrgHeld'
  BY <1>0, <1>7 DEF K!LoadKey, KeysType, KeyPlaces, K!Goto, K!Ends, K!Unlock
<1>8. ASSUME NEW r \in Revokes, K!Revoke(r) PROVE OrgHeld'
  BY <1>0, <1>8 DEF K!Revoke, KeysType, KeyPlaces, K!Goto, K!Ends, K!Unlock
<1>9. ASSUME NEW t \in Rotations, NEW k \in K!Rows, K!LockKey(t, k) PROVE OrgHeld'
  BY <1>0, <1>9 DEF K!LockKey, KeysType, KeyPlaces, K!Goto, K!Ends, K!Unlock
<1>10. ASSUME NEW t \in Rotations, NEW expires \in BOOLEAN, K!Rotate(t, expires) PROVE OrgHeld'
  BY <1>0, <1>10 DEF K!Rotate, KeysType, KeyPlaces, K!Goto, K!Ends, K!Unlock
<1>11. ASSUME NEW c \in Calls, NEW k \in K!Rows, K!Authenticate(c, k) PROVE OrgHeld'
  BY <1>0, <1>11 DEF K!Authenticate, KeysType, KeyPlaces, K!Goto, K!Ends, K!Unlock
<1>12. ASSUME NEW c \in Calls, K!ReadUse(c) PROVE OrgHeld'
  BY <1>0, <1>12 DEF K!ReadUse, KeysType, KeyPlaces, K!Goto, K!Ends, K!Unlock
<1>13. ASSUME NEW c \in Calls, K!Stamp(c) PROVE OrgHeld'
  BY <1>0, <1>13 DEF K!Stamp, KeysType, KeyPlaces, K!Goto, K!Ends, K!Unlock
<1>14. ASSUME NEW k \in K!Rows, K!Expires(k) PROVE OrgHeld'
  BY <1>0, <1>14 DEF K!Expires, KeysType, KeyPlaces, K!Goto, K!Ends, K!Unlock
<1>15. ASSUME NEW q \in K!Reqs, K!Stop(q) PROVE OrgHeld'
  BY <1>0, <1>15 DEF K!Stop, KeysType, KeyPlaces, K!Goto, K!Ends, K!Unlock
<1>16. CASE UNCHANGED K!keyVars
  BY <1>0, <1>16 DEF K!keyVars, KeysType, KeyPlaces, K!Goto, K!Ends, K!Unlock
<1> QED BY <1>1, <1>2, <1>3, <1>4, <1>5, <1>6, <1>7, <1>8, <1>9, <1>10, <1>11, <1>12,
        <1>13, <1>14, <1>15, <1>16 DEF K!Step

\* A request that is over stays so, and a rotation keeps its lock, or has taken one.
StepsKept ==
  /\ \A q \in K!Reqs \ Supplied :
       step[q] \in {"done", "refused"} => step'[q] \in {"done", "refused"}
  /\ \A t \in Rotations : step'[t] = "rotating" =>
       \/ /\ step[t] = "rotating" /\ held'[t] = held[t]
          /\ keyLock[held[t]] = t => keyLock'[held[t]] = t
       \/ /\ held'[t] \in K!Rows /\ K!Live(held'[t]) /\ keyLock'[held'[t]] = t
          /\ UNCHANGED keys

LEMMA StepsStay == (KeysType /\ LocksHold) /\ [K!Step]_(K!keyVars) => StepsKept
<1> SUFFICES ASSUME (KeysType /\ LocksHold), [K!Step]_(K!keyVars) PROVE StepsKept
  OBVIOUS
<1>0. KeysType /\ LocksHold
  OBVIOUS
<1> USE KindsOfKeyRequest
<1>1. ASSUME NEW b \in Bootstraps, K!LockOrganization(b) PROVE StepsKept
  BY <1>0, <1>1 DEF K!LockOrganization, StepsKept, KeysType, K!Goto, K!Ends
<1>2. ASSUME NEW b \in Bootstraps, K!InsertOrganization(b) PROVE StepsKept
  BY <1>0, <1>2 DEF K!InsertOrganization, StepsKept, KeysType, K!Goto, K!Ends
<1>3. ASSUME NEW b \in Bootstraps, K!ListKeys(b) PROVE StepsKept
  BY <1>0, <1>3 DEF K!ListKeys, StepsKept, KeysType, K!Goto, K!Ends
<1>4. ASSUME NEW b \in Bootstraps, K!MintFirst(b) PROVE StepsKept
  BY <1>0, <1>4, Minting DEF StepsKept
<1>5. ASSUME NEW b \in Bootstraps, K!Again(b) PROVE StepsKept
  BY <1>0, <1>5 DEF K!Again, StepsKept, KeysType, K!Goto, K!Ends
<1>6. ASSUME NEW c \in KeyCreates, K!CreateKey(c) PROVE StepsKept
  BY <1>0, <1>6 DEF K!CreateKey, StepsKept, KeysType, K!Goto, K!Ends
<1>7. ASSUME NEW r \in Revokes, NEW k \in K!Rows, K!LoadKey(r, k) PROVE StepsKept
  BY <1>0, <1>7 DEF K!LoadKey, StepsKept, KeysType, K!Goto, K!Ends
<1>8. ASSUME NEW r \in Revokes, K!Revoke(r) PROVE StepsKept
  BY <1>0, <1>8 DEF K!Revoke, StepsKept, KeysType, K!Goto, K!Ends
<1>9. ASSUME NEW t \in Rotations, NEW k \in K!Rows, K!LockKey(t, k) PROVE StepsKept
  <2>1. k \in K!Makers /\ t \in K!Reqs /\ t # None
    BY DEF K!Rows
  <2>2. step'[t] = "rotating" /\ held'[t] = k /\ keyLock'[k] = t /\ K!Live(k) /\ UNCHANGED keys
    BY <1>0, <1>9, <2>1 DEF K!LockKey, KeysType, K!Goto
  <2>3. \A q \in K!Reqs \ {t} : step'[q] = step[q] /\ held'[q] = held[q]
    BY <1>0, <1>9 DEF K!LockKey, KeysType, K!Goto
  <2>4. \A j \in K!Makers \ {k} : keyLock'[j] = keyLock[j]
    BY <1>0, <1>9 DEF K!LockKey, KeysType
  <2>5. \A u \in Rotations : step[u] = "rotating" => held[u] \in K!Makers /\ keyLock[held[u]] = u
    BY <1>0 DEF LocksHold, KeyHeld, K!Rows
  <2>6. step[t] = "new" /\ keyLock[k] = None
    BY <1>9 DEF K!LockKey
  <2>7. \A u \in Rotations \ {t} : step[u] = "rotating" => held[u] # k /\ keyLock'[held[u]] = u
    BY <2>4, <2>5, <2>6
  <2> QED BY <2>1, <2>2, <2>3, <2>6, <2>7 DEF StepsKept
<1>10. ASSUME NEW t \in Rotations, NEW expires \in BOOLEAN, K!Rotate(t, expires) PROVE StepsKept
  BY <1>0, <1>10 DEF K!Rotate, StepsKept, KeysType, K!Goto, K!Ends
<1>11. ASSUME NEW c \in Calls, NEW k \in K!Rows, K!Authenticate(c, k) PROVE StepsKept
  BY <1>0, <1>11 DEF K!Authenticate, StepsKept, KeysType, K!Goto, K!Ends
<1>12. ASSUME NEW c \in Calls, K!ReadUse(c) PROVE StepsKept
  BY <1>0, <1>12 DEF K!ReadUse, StepsKept, KeysType, K!Goto, K!Ends
<1>13. ASSUME NEW c \in Calls, K!Stamp(c) PROVE StepsKept
  BY <1>0, <1>13 DEF K!Stamp, StepsKept, KeysType, K!Goto, K!Ends
<1>14. ASSUME NEW k \in K!Rows, K!Expires(k) PROVE StepsKept
  BY <1>0, <1>14 DEF K!Expires, StepsKept, KeysType, K!Goto, K!Ends
<1>15. ASSUME NEW q \in K!Reqs, K!Stop(q) PROVE StepsKept
  <2>1. step'[q] = "refused" /\ held'[q] = None
    BY <1>0, <1>15 DEF K!Stop, KeysType, K!Goto, K!Ends
  <2>2. \A p \in K!Reqs \ {q} : step'[p] = step[p] /\ held'[p] = held[p]
    BY <1>0, <1>15 DEF K!Stop, KeysType, K!Goto, K!Ends
  <2>3. \A j \in K!Makers : keyLock[j] # q => keyLock'[j] = keyLock[j]
    BY <1>15 DEF K!Stop
  <2>4. \A u \in Rotations : step[u] = "rotating" => held[u] \in K!Makers
    BY <1>0 DEF LocksHold, KeyHeld, K!Rows
  <2> QED BY <2>1, <2>2, <2>3, <2>4 DEF StepsKept
<1>16. CASE UNCHANGED K!keyVars
  BY <1>0, <1>16 DEF K!keyVars, StepsKept, KeysType, K!Goto, K!Ends
<1> QED BY <1>1, <1>2, <1>3, <1>4, <1>5, <1>6, <1>7, <1>8, <1>9, <1>10, <1>11, <1>12,
        <1>13, <1>14, <1>15, <1>16 DEF K!Step

\* The rows that requests hold.
LEMMA RowsHeldNext == (KeysType /\ LocksHold) /\ [K!Step]_(K!keyVars) => RowsHeld'
<1> SUFFICES ASSUME (KeysType /\ LocksHold), [K!Step]_(K!keyVars) PROVE RowsHeld'
  OBVIOUS
<1>0. KeysType /\ LocksHold /\ K!Rows \subseteq K!Rows'
  BY KeysStay DEF KeysKept, KeyKept, KeysType, K!Rows
<1> USE KindsOfKeyRequest DEF LocksHold, RowsHeld
<1>1. ASSUME NEW b \in Bootstraps, K!LockOrganization(b) PROVE RowsHeld'
  BY <1>0, <1>1 DEF K!LockOrganization, KeysType, K!Goto, K!Ends
<1>2. ASSUME NEW b \in Bootstraps, K!InsertOrganization(b) PROVE RowsHeld'
  BY <1>0, <1>2 DEF K!InsertOrganization, KeysType, K!Goto, K!Ends
<1>3. ASSUME NEW b \in Bootstraps, K!ListKeys(b) PROVE RowsHeld'
  BY <1>0, <1>3 DEF K!ListKeys, KeysType, K!Goto, K!Ends
<1>4. ASSUME NEW b \in Bootstraps, K!MintFirst(b) PROVE RowsHeld'
  BY <1>0, <1>4, Minting
<1>5. ASSUME NEW b \in Bootstraps, K!Again(b) PROVE RowsHeld'
  BY <1>0, <1>5 DEF K!Again, KeysType, K!Goto, K!Ends
<1>6. ASSUME NEW c \in KeyCreates, K!CreateKey(c) PROVE RowsHeld'
  BY <1>0, <1>6 DEF K!CreateKey, KeysType, K!Goto, K!Ends
<1>7. ASSUME NEW r \in Revokes, NEW k \in K!Rows, K!LoadKey(r, k) PROVE RowsHeld'
  BY <1>0, <1>7 DEF K!LoadKey, KeysType, K!Goto, K!Ends
<1>8. ASSUME NEW r \in Revokes, K!Revoke(r) PROVE RowsHeld'
  BY <1>0, <1>8 DEF K!Revoke, KeysType, K!Goto, K!Ends
<1>9. ASSUME NEW t \in Rotations, NEW k \in K!Rows, K!LockKey(t, k) PROVE RowsHeld'
  BY <1>0, <1>9 DEF K!LockKey, KeysType, K!Goto, K!Ends
<1>10. ASSUME NEW t \in Rotations, NEW expires \in BOOLEAN, K!Rotate(t, expires) PROVE RowsHeld'
  BY <1>0, <1>10 DEF K!Rotate, KeysType, K!Goto, K!Ends
<1>11. ASSUME NEW c \in Calls, NEW k \in K!Rows, K!Authenticate(c, k) PROVE RowsHeld'
  BY <1>0, <1>11 DEF K!Authenticate, KeysType, K!Goto, K!Ends
<1>12. ASSUME NEW c \in Calls, K!ReadUse(c) PROVE RowsHeld'
  BY <1>0, <1>12 DEF K!ReadUse, KeysType, K!Goto, K!Ends
<1>13. ASSUME NEW c \in Calls, K!Stamp(c) PROVE RowsHeld'
  BY <1>0, <1>13 DEF K!Stamp, KeysType, K!Goto, K!Ends
<1>14. ASSUME NEW k \in K!Rows, K!Expires(k) PROVE RowsHeld'
  BY <1>0, <1>14 DEF K!Expires, KeysType, K!Goto, K!Ends
<1>15. ASSUME NEW q \in K!Reqs, K!Stop(q) PROVE RowsHeld'
  BY <1>0, <1>15 DEF K!Stop, KeysType, K!Goto, K!Ends
<1>16. CASE UNCHANGED K!keyVars
  BY <1>0, <1>16 DEF K!keyVars, KeysType, K!Goto, K!Ends
<1> QED BY <1>1, <1>2, <1>3, <1>4, <1>5, <1>6, <1>7, <1>8, <1>9, <1>10, <1>11, <1>12,
        <1>13, <1>14, <1>15, <1>16 DEF K!Step

\* History is not forgotten, and a bootstrap mints when there is no active key.
LEMMA LateStays == [K!Step]_(K!keyVars) => (late => late')
BY DEF K!Step, K!keyVars, K!LockOrganization, K!InsertOrganization, K!ListKeys, K!MintFirst, K!Again,
       K!CreateKey, K!LoadKey, K!Revoke, K!LockKey, K!Rotate, K!Authenticate, K!ReadUse, K!Stamp,
       K!Expires, K!Stop

MintsUnopposed == \A b \in Bootstraps \ Allowed : step'[b] = "minting" =>
  step[b] = "minting" \/ (K!ListKeys(b) /\ K!ActiveAdmins = {})

LEMMA MintingFrom == KeysType /\ [K!Step]_(K!keyVars) => MintsUnopposed
<1> SUFFICES ASSUME KeysType, [K!Step]_(K!keyVars) PROVE MintsUnopposed
  OBVIOUS
<1>0. KeysType
  OBVIOUS
<1> USE KindsOfKeyRequest
<1>1. ASSUME NEW b \in Bootstraps, K!LockOrganization(b) PROVE MintsUnopposed
  BY <1>0, <1>1 DEF K!LockOrganization, MintsUnopposed, KeysType, K!Goto, K!Ends
<1>2. ASSUME NEW b \in Bootstraps, K!InsertOrganization(b) PROVE MintsUnopposed
  BY <1>0, <1>2 DEF K!InsertOrganization, MintsUnopposed, KeysType, K!Goto, K!Ends
<1>3. ASSUME NEW b \in Bootstraps, K!ListKeys(b) PROVE MintsUnopposed
  BY <1>0, <1>3 DEF K!ListKeys, MintsUnopposed, KeysType, K!Goto, K!Ends
<1>4. ASSUME NEW b \in Bootstraps, K!MintFirst(b) PROVE MintsUnopposed
  BY <1>0, <1>4 DEF K!MintFirst, MintsUnopposed, KeysType, K!Goto, K!Ends
<1>5. ASSUME NEW b \in Bootstraps, K!Again(b) PROVE MintsUnopposed
  BY <1>0, <1>5 DEF K!Again, MintsUnopposed, KeysType, K!Goto, K!Ends
<1>6. ASSUME NEW c \in KeyCreates, K!CreateKey(c) PROVE MintsUnopposed
  BY <1>0, <1>6 DEF K!CreateKey, MintsUnopposed, KeysType, K!Goto, K!Ends
<1>7. ASSUME NEW r \in Revokes, NEW k \in K!Rows, K!LoadKey(r, k) PROVE MintsUnopposed
  BY <1>0, <1>7 DEF K!LoadKey, MintsUnopposed, KeysType, K!Goto, K!Ends
<1>8. ASSUME NEW r \in Revokes, K!Revoke(r) PROVE MintsUnopposed
  BY <1>0, <1>8 DEF K!Revoke, MintsUnopposed, KeysType, K!Goto, K!Ends
<1>9. ASSUME NEW t \in Rotations, NEW k \in K!Rows, K!LockKey(t, k) PROVE MintsUnopposed
  BY <1>0, <1>9 DEF K!LockKey, MintsUnopposed, KeysType, K!Goto, K!Ends
<1>10. ASSUME NEW t \in Rotations, NEW expires \in BOOLEAN, K!Rotate(t, expires) PROVE MintsUnopposed
  BY <1>0, <1>10 DEF K!Rotate, MintsUnopposed, KeysType, K!Goto, K!Ends
<1>11. ASSUME NEW c \in Calls, NEW k \in K!Rows, K!Authenticate(c, k) PROVE MintsUnopposed
  BY <1>0, <1>11 DEF K!Authenticate, MintsUnopposed, KeysType, K!Goto, K!Ends
<1>12. ASSUME NEW c \in Calls, K!ReadUse(c) PROVE MintsUnopposed
  BY <1>0, <1>12 DEF K!ReadUse, MintsUnopposed, KeysType, K!Goto, K!Ends
<1>13. ASSUME NEW c \in Calls, K!Stamp(c) PROVE MintsUnopposed
  BY <1>0, <1>13 DEF K!Stamp, MintsUnopposed, KeysType, K!Goto, K!Ends
<1>14. ASSUME NEW k \in K!Rows, K!Expires(k) PROVE MintsUnopposed
  BY <1>0, <1>14 DEF K!Expires, MintsUnopposed, KeysType, K!Goto, K!Ends
<1>15. ASSUME NEW q \in K!Reqs, K!Stop(q) PROVE MintsUnopposed
  BY <1>0, <1>15 DEF K!Stop, MintsUnopposed, KeysType, K!Goto, K!Ends
<1>16. CASE UNCHANGED K!keyVars
  BY <1>0, <1>16 DEF K!keyVars, MintsUnopposed, KeysType, K!Goto, K!Ends
<1> QED BY <1>1, <1>2, <1>3, <1>4, <1>5, <1>6, <1>7, <1>8, <1>9, <1>10, <1>11, <1>12,
        <1>13, <1>14, <1>15, <1>16 DEF K!Step

\* The locks, then.
LEMMA LocksNext == KeysType /\ LocksHold /\ [K!Step]_(K!keyVars) => LocksHold'
<1> SUFFICES ASSUME KeysType, LocksHold, [K!Step]_(K!keyVars) PROVE LocksHold'
  OBVIOUS
<1>1. KeysKept /\ RowsCome /\ StepsKept /\ OrgHeld' /\ RowsHeld'
  BY KeysStay, NewRows, StepsStay, OrgHeldNext, RowsHeldNext
<1>2. NotMade'
  <2> SUFFICES ASSUME NEW m \in K!Makers \ Supplied, keys'[m] # None
               PROVE  step'[m] \in {"done", "refused"}
    BY DEF NotMade
  <2>1. m \in K!Reqs /\ m \in K!Rows'
    BY DEF K!Reqs, K!Rows
  <2>2. CASE m \in K!Rows
    BY <1>1, <2>1, <2>2 DEF StepsKept, LocksHold, NotMade, K!Rows
  <2>3. CASE m \notin K!Rows /\ K!MintFirst(m)
    BY <2>1, <2>3 DEF K!MintFirst, K!Goto, KeysType
  <2>4. CASE K!CreateKey(m)
    BY <2>1, <2>4 DEF K!CreateKey, K!Goto, KeysType
  <2>5. CASE \E expires \in BOOLEAN : K!Rotate(m, expires)
    BY <2>1, <2>5 DEF K!Rotate, K!Goto, KeysType
  <2> QED BY <1>1, <2>1, <2>2, <2>3, <2>4, <2>5 DEF RowsCome
<1>3. KeyHeld'
  <2> SUFFICES ASSUME NEW t \in Rotations, step'[t] = "rotating"
               PROVE  /\ held'[t] \in K!Rows' /\ keyLock'[held'[t]] = t /\ keys'[held'[t]].revoked = None
                      /\ ~late' => ~keys'[held'[t]].expired
    BY DEF KeyHeld
  <2>1. K!Rows \subseteq K!Rows'
    BY <1>1 DEF KeysKept, KeyKept, K!Rows
  <2>2. CASE step[t] = "rotating" /\ held'[t] = held[t] /\ (keyLock[held[t]] = t => keyLock'[held[t]] = t)
    <3>1. /\ held[t] \in K!Rows /\ keyLock[held[t]] = t /\ keys[held[t]].revoked = None
          /\ ~late => ~keys[held[t]].expired
      BY <2>2 DEF LocksHold, KeyHeld
    <3>2. keys'[held[t]].revoked = None
      BY <1>1, <3>1, KindsOfKeyRequest DEF KeysKept, KeyKept
    <3>3. ~late' => ~keys'[held[t]].expired
      <4>1. CASE K!Expires(held[t])
        BY <2>2, <4>1 DEF K!Expires
      <4>2. CASE keys'[held[t]].expired = keys[held[t]].expired
        BY <3>1, <4>2, LateStays
      <4> QED BY <1>1, <3>1, <4>1, <4>2 DEF KeysKept, KeyKept
    <3> QED BY <2>1, <2>2, <3>1, <3>2, <3>3
  <2>3. CASE /\ held'[t] \in K!Rows /\ K!Live(held'[t]) /\ keyLock'[held'[t]] = t
             /\ UNCHANGED keys
    BY <2>1, <2>3 DEF K!Live
  <2> QED BY <1>1, <2>2, <2>3 DEF StepsKept
<1>4. Unopposed'
  <2> SUFFICES ASSUME NEW b \in Bootstraps \ Allowed, step'[b] = "minting", NEW k \in K!ActiveAdmins'
               PROVE  FALSE
    BY DEF Unopposed
  <2>1. step[b] = "minting" \/ (K!ListKeys(b) /\ K!ActiveAdmins = {})
    BY MintingFrom DEF MintsUnopposed
  <2>2. K!ActiveAdmins = {} /\ orgLock = b /\ step[b] # "done"
    BY <2>1 DEF LocksHold, Unopposed, OrgHeld, K!ListKeys
  <2>3. CASE k \in Bootstraps /\ K!MintFirst(k)
    <3>1. k = b
      BY <2>2, <2>3 DEF K!MintFirst, LocksHold, OrgHeld
    <3> QED BY <2>3, <3>1, KindsOfKeyRequest DEF K!MintFirst, K!Goto, KeysType
  <2>4. CASE \E t \in Rotations, expires \in BOOLEAN : K!Rotate(t, expires)
    BY <2>2, <2>4, KindsOfKeyRequest DEF K!Rotate
  <2> QED BY <2>2, <2>3, <2>4, ActiveFrom
<1> QED BY <1>1, <1>2, <1>3, <1>4 DEF LocksHold

(***************************************************************************)
(* Descent.                                                                *)
(***************************************************************************)

\* k descends from j now, and in the next state (K!Descends, K!Descends').
Path(k, j) ==
  \E path \in SUBSET Replacing : k \in path /\ \A m \in path : keys[m].replaces \in path \cup {j}
PathNext(k, j) ==
  \E path \in SUBSET Replacing' : k \in path /\ \A m \in path : keys'[m].replaces \in path \cup {j}

\* Descent is not lost.
LEMMA PathStays == KeysKept => \A j, k : Path(k, j) => PathNext(k, j)
<1> SUFFICES ASSUME KeysKept, NEW j, NEW k, NEW path \in SUBSET Replacing,
                    k \in path, \A m \in path : keys[m].replaces \in path \cup {j}
             PROVE  PathNext(k, j)
  BY DEF Path
<1>1. \A m \in path : m \in Replacing' /\ keys'[m].replaces = keys[m].replaces
  BY DEF Replacing, K!Rows, KeysKept, KeyKept, SameKey
<1> QED BY <1>1 DEF PathNext

\* A key that none replaces has no descendant.
LEMMA NoHeir ==
  ASSUME Lineage, NEW k, \A m \in K!Rows : keys[m].replaces # k
  PROVE  \A j : ~Path(j, k)
<1> SUFFICES ASSUME NEW path \in SUBSET Replacing, path # {}, \A m \in path : keys[m].replaces \in path \cup {k}
             PROVE  FALSE
  BY DEF Path
<1> QED BY DEF Lineage, Replacing

\* What a rotation makes: a key that replaces the one it holds, which is not revoked and
\* which none replaces, and manages what that one does.
LEMMA Rotating ==
  ASSUME KeysType, LocksHold, NEW t \in Rotations, NEW expires \in BOOLEAN, K!Rotate(t, expires),
         t \in K!Rows'
  PROVE  /\ t \notin K!Rows /\ held[t] \in K!Rows /\ keys[held[t]].revoked = None
         /\ ~late => ~keys[held[t]].expired
         /\ \A m \in K!Rows : keys[m].replaces # held[t]
         /\ keys'[t].replaces = held[t] /\ keys'[t].admin = keys[held[t]].admin
         /\ \A m \in K!Makers \ {t} : keys'[m] = keys[m]
<1> USE KindsOfKeyRequest
<1>1. step[t] = "rotating" /\ t \in K!Makers
  BY DEF K!Rotate
<1>2. t \notin K!Rows
  BY <1>1 DEF LocksHold, NotMade, K!Rows
<1>3. /\ held[t] \in K!Rows /\ keys[held[t]].revoked = None
      /\ ~late => ~keys[held[t]].expired
  BY <1>1 DEF LocksHold, KeyHeld
<1>4. held[t] \in K!Makers /\ keys[held[t]].admin \in BOOLEAN
  <2>1. held[t] \in K!Makers /\ keys[held[t]] \in K!Key
    BY <1>3 DEF KeysType, K!Rows
  <2>2. \A key \in K!Key : key.admin \in BOOLEAN
    BY DEF K!Key
  <2> QED BY <2>1, <2>2
<1>5. /\ \A m \in K!Rows : keys[m].replaces # held[t]
      /\ keys' = [keys EXCEPT ![t] = K!NewKey(keys[held[t]].admin, None, held[t], expires)]
  BY <1>2 DEF K!Rotate, K!Rows
<1>6. /\ keys'[t] = K!NewKey(keys[held[t]].admin, None, held[t], expires)
      /\ \A m \in K!Makers \ {t} : keys'[m] = keys[m]
  BY <1>1, <1>5 DEF KeysType
<1>7. keys'[t].replaces = held[t] /\ keys'[t].admin = keys[held[t]].admin
  <2> DEFINE key == K!NewKey(keys[held[t]].admin, None, held[t], expires)
  <2>1. key.admin = keys[held[t]].admin /\ key.replaces = held[t]
    BY DEF K!NewKey
  <2> QED BY <1>6, <2>1
<1> QED BY <1>2, <1>3, <1>5, <1>6, <1>7

\* A bootstrap makes a key that replaces none; so does the console.
LEMMA ReplacesNone ==
  ASSUME KeysType, NEW m \in K!Makers, m \in K!Rows', m \notin K!Rows,
         (m \in Bootstraps /\ K!MintFirst(m)) \/ (m \in KeyCreates /\ K!CreateKey(m))
  PROVE  keys'[m].replaces = None
<1>1. CASE m \in Bootstraps /\ K!MintFirst(m)
  <2>1. keys'[m] = K!NewKey(TRUE, None, None, FALSE)
    BY <1>1 DEF K!MintFirst, K!Rows, KeysType
  <2> QED BY <2>1 DEF K!NewKey
<1>2. CASE m \in KeyCreates /\ K!CreateKey(m)
  <2>1. keys'[m] = K!NewKey(FALSE, User[m], None, FALSE)
    BY <1>2 DEF K!CreateKey, KeysType
  <2> QED BY <2>1 DEF K!NewKey
<1> QED BY <1>1, <1>2

\* The lineage of keys stays whole.
LEMMA LineageNext == KeysType /\ LocksHold /\ Lineage /\ [K!Step]_(K!keyVars) => Lineage'
<1> SUFFICES ASSUME KeysType, LocksHold, Lineage, [K!Step]_(K!keyVars) PROVE Lineage'
  OBVIOUS
<1>1. /\ KeysKept /\ RowsCome
      /\ \A m \in K!Rows : m \in K!Rows' /\ keys'[m].replaces = keys[m].replaces
  BY KeysStay, NewRows DEF KeysKept, KeyKept, SameKey, K!Rows
<1>2. \A m \in Replacing' : m \in Replacing \/ (m \in Rotations /\ m \notin K!Rows /\ m \in K!Rows' /\
                                             \E expires \in BOOLEAN : K!Rotate(m, expires))
  <2> SUFFICES ASSUME NEW m \in Replacing', m \notin K!Rows
               PROVE  m \in Rotations /\ \E expires \in BOOLEAN : K!Rotate(m, expires)
    BY <1>1 DEF Replacing
  <2>1. m \in K!Rows' /\ m \in K!Makers /\ keys'[m].replaces # None
    BY DEF Replacing, K!Rows
  <2> QED BY <1>1, <2>1, ReplacesNone DEF RowsCome
<1>3. CASE \E t \in Rotations : t \notin K!Rows /\ t \in K!Rows' /\ \E expires \in BOOLEAN : K!Rotate(t, expires)
  <2> PICK t \in Rotations : t \notin K!Rows /\ t \in K!Rows' /\ \E expires \in BOOLEAN : K!Rotate(t, expires)
    BY <1>3
  <2>1. /\ held[t] \in K!Rows /\ keys'[t].replaces = held[t]
        /\ \A m \in K!Makers \ {t} : keys'[m] = keys[m]
    BY Rotating
  <2>2. \A m \in Replacing' : m # t => m \in Replacing
    BY <2>1 DEF Replacing, K!Rows
  <2>3. ASSUME NEW m \in Replacing' PROVE keys'[m].replaces \in K!Rows'
    <3>1. CASE m = t
      BY <1>1, <2>1, <3>1
    <3>2. CASE m # t
      BY <1>1, <2>2, <3>2 DEF Lineage, Replacing
    <3> QED BY <3>1, <3>2
  <2>4. ASSUME NEW path \in SUBSET (Replacing'), path # {}
        PROVE  \E m \in path : keys'[m].replaces \notin path
    <3>1. path \ {t} \in SUBSET Replacing
      BY <2>2
    <3>2. \A m \in path \ {t} : keys'[m].replaces = keys[m].replaces /\ keys[m].replaces # t
      BY <1>1, <3>1 DEF Lineage, Replacing
    <3>3. CASE path = {t}
      BY <2>1, <3>3
    <3>4. CASE path # {t}
      <4>0. path \ {t} # {}
        BY <2>4, <3>4
      <4>1. PICK m \in path \ {t} : keys[m].replaces \notin path \ {t}
        BY <3>1, <4>0 DEF Lineage
      <4> QED BY <3>2, <4>1
    <3> QED BY <3>3, <3>4
  <2> QED BY <2>3, <2>4 DEF Lineage
<1>4. CASE \A m \in Replacing' : m \in Replacing
  <2>1. ASSUME NEW m \in Replacing' PROVE keys'[m].replaces \in K!Rows'
    BY <1>1, <1>4 DEF Lineage, Replacing
  <2>2. ASSUME NEW path \in SUBSET (Replacing'), path # {}
        PROVE  \E m \in path : keys'[m].replaces \notin path
    <3>1. path \in SUBSET Replacing
      BY <1>4
    <3>2. PICK m \in path : keys[m].replaces \notin path
      BY <3>1, <2>2 DEF Lineage
    <3> QED BY <1>1, <3>1, <3>2 DEF Replacing
  <2> QED BY <2>1, <2>2 DEF Lineage
<1> QED BY <1>2, <1>3, <1>4

\* A bootstrap that was answered with its own key stays answered with it.
LEMMA AnswersStay ==
  KeysType /\ [K!Step]_(K!keyVars) => \A b \in Bootstraps : answer[b] = b => answer'[b] = b
<1> SUFFICES ASSUME KeysType, [K!Step]_(K!keyVars), NEW b \in Bootstraps, answer[b] = b
             PROVE  answer'[b] = b
  OBVIOUS
<1>1. ASSUME NEW a \in Bootstraps, K!ListKeys(a) PROVE answer'[b] = b
  BY <1>1 DEF K!ListKeys, K!SameToken, KeysType
<1>2. ASSUME NEW a \in Bootstraps, K!MintFirst(a) PROVE answer'[b] = b
  BY <1>2 DEF K!MintFirst, KeysType
<1>3. CASE UNCHANGED answer
  BY <1>3
<1> QED BY <1>1, <1>2, <1>3 DEF K!Step, K!keyVars, K!LockOrganization, K!InsertOrganization, K!Again,
       K!CreateKey, K!LoadKey, K!Revoke, K!LockKey, K!Rotate, K!Authenticate, K!ReadUse, K!Stamp,
       K!Expires, K!Stop

\* One active management key and what was rotated from it: a bootstrap adds one when there
\* is none, and a rotation adds a descendant of one that none descends from.
LEMMA OneAdminNext == KeysInv /\ [K!Step]_(K!keyVars) => K!OneAdmin'
<1> SUFFICES ASSUME KeysInv, [K!Step]_(K!keyVars), ~late', \A b \in Allowed : answer'[b] # b,
                    NEW j \in K!ActiveAdmins', NEW k \in K!ActiveAdmins'
             PROVE  j = k \/ PathNext(j, k) \/ PathNext(k, j)
  BY DEF K!OneAdmin, K!Descends, PathNext, Replacing
<1> USE KindsOfKeyRequest
<1>1. KeysType /\ LocksHold /\ Lineage
  BY DEF KeysInv
<1>2. KeysKept /\ ~late /\ \A b \in Allowed : answer[b] # b
  BY <1>1, KeysStay, LateStays, AnswersStay
<1>3. \A m, n \in K!ActiveAdmins : m = n \/ Path(m, n) \/ Path(n, m)
  BY <1>2 DEF KeysInv, K!OneAdmin, K!Descends, Path, Replacing
<1>4. \A m \in K!ActiveAdmins' :
        \/ m \in K!ActiveAdmins
        \/ m \in Bootstraps /\ K!MintFirst(m)
        \/ m \in Rotations /\ \E expires \in BOOLEAN : K!Rotate(m, expires)
  BY <1>1, ActiveFrom
<1>5. CASE j \in K!ActiveAdmins /\ k \in K!ActiveAdmins
  BY <1>2, <1>3, <1>5, PathStays
<1>6. ASSUME NEW b \in Bootstraps, K!MintFirst(b), b \in K!ActiveAdmins' \ K!ActiveAdmins PROVE j = k
  <2>1. CASE keys' = keys
    BY <1>6, <2>1 DEF K!ActiveAdmins, K!Live, K!Rows
  <2>2. CASE answer' = [answer EXCEPT ![b] = b]
    <3>1. b \notin Allowed
      BY <1>1, <2>2 DEF KeysType
    <3>2. K!ActiveAdmins = {}
      BY <1>1, <1>6, <3>1 DEF K!MintFirst, LocksHold, Unopposed
    <3>3. \A m \in K!ActiveAdmins' : m = b
      <4>1. \A m \in Bootstraps : K!MintFirst(m) => m = b
        BY <1>1, <1>6 DEF K!MintFirst, LocksHold, OrgHeld
      <4>2. ASSUME NEW t \in Rotations, NEW expires \in BOOLEAN, K!Rotate(t, expires) PROVE FALSE
        <5>1. step[b] = "minting" /\ step'[b] \in {"done", "refused"}
          BY <1>1, <1>6, Minting
        <5>2. step'[b] = step[b]
          BY <1>1, <4>2 DEF K!Rotate, K!Goto, KeysType
        <5> QED BY <5>1, <5>2
      <4> QED BY <1>4, <3>2, <4>1, <4>2
    <3> QED BY <3>3
  <2> QED BY <1>6, <2>1, <2>2 DEF K!MintFirst
<1>7. ASSUME NEW t \in Rotations, NEW expires \in BOOLEAN, K!Rotate(t, expires),
             t \in K!ActiveAdmins' \ K!ActiveAdmins
      PROVE  \A m \in K!ActiveAdmins' : m = t \/ PathNext(t, m)
  <2> SUFFICES ASSUME NEW m \in K!ActiveAdmins', m # t PROVE PathNext(t, m)
    OBVIOUS
  <2>1. t \in K!Rows' /\ t \in K!Makers /\ keys'[t].admin
    BY <1>7 DEF K!ActiveAdmins, K!Live, K!Rows
  <2>2. /\ held[t] \in K!Rows /\ keys[held[t]].revoked = None /\ ~keys[held[t]].expired
        /\ \A n \in K!Rows : keys[n].replaces # held[t]
        /\ keys'[t].replaces = held[t] /\ keys[held[t]].admin
        /\ \A n \in K!Makers \ {t} : keys'[n] = keys[n]
    BY <1>1, <1>2, <1>7, <2>1, Rotating
  <2>3. held[t] \in K!ActiveAdmins /\ held[t] # None
    <3>1. held[t] \in K!Makers /\ keys[held[t]] # None
      BY <2>2 DEF K!Rows
    <3>2. held[t] # None
      BY <3>1 DEF K!Makers, K!Reqs
    <3> QED BY <2>2, <3>1, <3>2 DEF K!ActiveAdmins, K!Live, K!Rows
  <2>4. m \in K!ActiveAdmins
    <3>1. /\ m \in K!Makers /\ keys'[m] # None /\ keys'[m].revoked = None
          /\ ~keys'[m].expired /\ keys'[m].admin
      BY DEF K!ActiveAdmins, K!Live, K!Rows
    <3>2. keys'[m] = keys[m]
      BY <2>2, <3>1
    <3> QED BY <3>1, <3>2 DEF K!ActiveAdmins, K!Live, K!Rows
  <2>5. m = held[t] \/ Path(held[t], m)
    BY <1>1, <1>3, <2>2, <2>3, <2>4, NoHeir
  <2>6. t \in Replacing'
    BY <2>1, <2>2, <2>3 DEF Replacing
  <2>7. CASE m = held[t]
    <3>1. {t} \in SUBSET (Replacing') /\ t \in {t} /\ \A n \in {t} : keys'[n].replaces \in {t} \cup {m}
      BY <2>2, <2>6, <2>7
    <3> QED BY <3>1 DEF PathNext
  <2>8. CASE PathNext(held[t], m)
    <3>1. PICK path \in SUBSET (Replacing') :
            held[t] \in path /\ \A n \in path : keys'[n].replaces \in path \cup {m}
      BY <2>8 DEF PathNext
    <3>2. /\ path \cup {t} \in SUBSET (Replacing') /\ t \in path \cup {t}
          /\ \A n \in path \cup {t} : keys'[n].replaces \in (path \cup {t}) \cup {m}
      BY <2>2, <2>6, <3>1
    <3> QED BY <3>2 DEF PathNext
  <2> QED BY <1>2, <2>5, <2>7, <2>8, PathStays
<1> QED BY <1>4, <1>5, <1>6, <1>7

\* The invariant of the keys.
LEMMA KeysNext == KeysInv /\ [K!Step]_(K!keyVars) => KeysInv'
BY KeysTypeNext, LocksNext, LineageNext, OneAdminNext DEF KeysInv

\* An organization has one active management key and the keys rotated from it, whoever
\* bootstraps, unless one more was allowed or a key expired under its rotation
\* (bootstrap_api_key).
THEOREM OneManagementKey == K!KeySpec => []OneAdmin
<1>1. KeysInv => OneAdmin
  BY DEF KeysInv, OneAdmin
<1> QED BY KeysInit, KeysNext, <1>1, PTL DEF K!KeySpec

\* A revoked key stays revoked, and none is revoked under its rotation (revoke_vma_api_key,
\* rotate_vma_api_key).
THEOREM KeysEndOnce == K!KeySpec => KeysEnd
<1>1. KeysInv /\ [K!Step]_(K!keyVars) => [K!RevokedOnce /\ K!Overlap]_(K!keyVars)
  <2> SUFFICES ASSUME KeysInv, K!Step PROVE K!RevokedOnce /\ K!Overlap
    BY DEF K!keyVars
  <2>0. KeysType /\ LocksHold /\ KeysKept /\ RowsCome
    BY KeysStay, NewRows DEF KeysInv
  <2>1. K!RevokedOnce
    BY <2>0 DEF K!RevokedOnce, KeysKept, KeyKept
  <2>2. K!Overlap
    <3> SUFFICES ASSUME NEW t \in Rotations, keys[t] = None, keys'[t] # None
                 PROVE  keys[keys'[t].replaces].revoked = None
      BY DEF K!Overlap
    <3>1. t \in K!Rows' /\ t \notin K!Rows
      BY KindsOfKeyRequest DEF K!Rows
    <3>2. PICK expires \in BOOLEAN : K!Rotate(t, expires)
      BY <2>0, <3>1, KindsOfKeyRequest DEF RowsCome
    <3> QED BY <2>0, <3>1, <3>2, Rotating
  <2> QED BY <2>1, <2>2
<1> QED BY KeysInit, KeysNext, <1>1, PTL DEF K!KeySpec, KeysEnd, K!KeysEnd
=============================================================================
