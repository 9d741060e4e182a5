------------------------------- MODULE Accounts -------------------------------
(***************************************************************************)
(* One Organization's billing Accounts and the provider key behind each:   *)
(* create_account, ensure_default_account, suspend_account and             *)
(* resume_account (app/services/accounts.py).  Every one of them is a      *)
(* database transaction, a call to the provider and another transaction,   *)
(* so it can stop in between and meet another request there.               *)
(*                                                                         *)
(* A row is named after the request that inserted it; the default row is   *)
(* one inserted by ensure_default_account or by create_organization, which *)
(* is an ensure that finds nothing.                                        *)
(***************************************************************************)
EXTENDS Integers, FiniteSets

CONSTANTS
  Creates,   \* POST /accounts
  Retries,   \* those that carry one and the same idempotency_key
  Ensures,   \* ensure_default_account, create_organization
  Backfills, \* ensures by the script that visits every organization
  Suspends,  \* POST /accounts/{id}/suspend
  Resumes,   \* POST /accounts/{id}/resume
  None,
  MayFail    \* requests whose provider call may fail, or whose process may die

Accts    == Creates \cup Ensures
Switches == Suspends \cup Resumes
Reqs     == Accts \cup Switches

ASSUME RequestAssumption ==
  /\ Retries \subseteq Creates /\ Backfills \subseteq Ensures /\ MayFail \subseteq Reqs /\ None \notin Reqs
  /\ Creates \cap Ensures = {} /\ Suspends \cap Resumes = {} /\ Accts \cap Switches = {}

VARIABLES
  status,   \* organization_accounts.status, "none" before the row exists
  cred,     \* account_provider_credentials.status
  minted,   \* how many keys of the account's name the provider has made
  enabled,  \* does the recorded key spend?
  pc, acct, copy, \* a request: its place, its account, the row as it re-read it
  met       \* history: those of Ensures and Switches in which two were ever at
            \* work at the same time

rows == <<status, cred>>
provider == <<minted, enabled>>
vars == <<rows, provider, pc, acct, copy, met>>

Ended == {"ok", "failed"}

Init ==
  /\ status = [a \in Accts |-> "none"] /\ cred = [a \in Accts |-> "none"]
  /\ minted = [a \in Accts |-> 0] /\ enabled = [a \in Accts |-> FALSE]
  /\ pc = [r \in Reqs |-> "new"] /\ acct = [r \in Reqs |-> None]
  /\ copy = [r \in Switches |-> [status |-> "none", cred |-> "none"]]
  /\ met = {}

Goto(r, place) == pc' = [pc EXCEPT ![r] = place]
OnAccount(r, a, place) == Goto(r, place) /\ acct' = [acct EXCEPT ![r] = a]
Busy(r) == pc[r] \notin Ended \cup {"new"}
Starts(r) ==
  /\ pc[r] = "new"
  /\ met' = met \cup {kind \in {Ensures, Switches} : r \in kind /\ \E q \in kind : Busy(q)}
Rows == {a \in Accts : status[a] # "none"}

(***************************************************************************)
(* create_account and ensure_default_account.                              *)
(***************************************************************************)

\* The rows the two unique constraints would not let r's row sit beside: the
\* default, or the one with the same idempotency key.
Twins(r) == {a \in Rows : {a, r} \subseteq Ensures \/ {a, r} \subseteq Retries}

\* create_account's idempotency lookup.
LookUp(c) ==
  /\ Starts(c)
  /\ \/ Twins(c) = {} /\ Goto(c, "insert") /\ UNCHANGED acct
     \/ \E a \in Twins(c) :
          OnAccount(c, a, IF status[a] = "provisioning" THEN "failed" ELSE "ok")
  /\ UNCHANGED <<rows, provider, copy>>

\* backfill_default_accounts passes over what is done already.
Skim(e) ==
  /\ e \in Backfills /\ Starts(e)
  /\ \/ \E a \in Twins(e) : cred[a] # "none" /\ OnAccount(e, a, "ok")
     \/ (\A a \in Twins(e) : cred[a] = "none") /\ Goto(e, "skimmed") /\ UNCHANGED acct
  /\ UNCHANGED <<rows, provider, copy>>

\* ensure_default_account: nothing there, done already, or a job to finish.  The look is
\* taken as a read of what is committed, in the backfill too, whose session may still hold
\* the rows that it skimmed.
LookUpDefault(e) ==
  /\ IF e \in Backfills THEN pc[e] = "skimmed" /\ UNCHANGED met ELSE Starts(e)
  /\ \/ Twins(e) = {} /\ Goto(e, "insert") /\ UNCHANGED acct
     \/ \E a \in Twins(e) : OnAccount(e, a, IF cred[a] # "none" THEN "ok" ELSE "listing")
  /\ UNCHANGED <<rows, provider, copy>>

\* Mutant of Insert: no unique constraint.
Insert_Anyway(r) ==
  /\ pc[r] = "insert"
  /\ status' = [status EXCEPT ![r] = "provisioning"] /\ OnAccount(r, r, "minting")
  /\ UNCHANGED <<cred, provider, copy, met>>

\* The row, committed before the provider is called; or IntegrityError.
Insert(r) ==
  /\ pc[r] = "insert"
  /\ IF Twins(r) = {}
       THEN status' = [status EXCEPT ![r] = "provisioning"] /\ OnAccount(r, r, "minting")
       ELSE Goto(r, "failed") /\ UNCHANGED <<status, acct>>
  /\ UNCHANGED <<cred, provider, copy, met>>

\* A key of that name means an interrupted attempt: Conflict.
ListKeys(e) ==
  /\ pc[e] = "listing"
  /\ Goto(e, IF minted[acct[e]] > 0 THEN "failed" ELSE "minting")
  /\ UNCHANGED <<rows, provider, acct, copy, met>>

\* create_key: it answers, it refuses, or nobody knows what it did.
Mint(r, made, answered) ==
  /\ pc[r] = "minting"
  /\ answered => made
  /\ ~answered => r \in MayFail
  /\ minted' = IF made THEN [minted EXCEPT ![acct[r]] = @ + 1] ELSE minted
  /\ Goto(r, IF answered THEN "recording" ELSE "failed")
  /\ UNCHANGED <<rows, enabled, acct, copy, met>>

\* attach_credential and ACTIVE in one transaction; one credential per account.
Record(r) ==
  LET a == acct[r] IN
  /\ pc[r] = "recording"
  /\ IF cred[a] = "none"
       THEN /\ cred' = [cred EXCEPT ![a] = "active"] /\ status' = [status EXCEPT ![a] = "active"]
            /\ enabled' = [enabled EXCEPT ![a] = TRUE]
            /\ Goto(r, "ok")
       ELSE Goto(r, "failed") /\ UNCHANGED <<rows, enabled>>
  /\ UNCHANGED <<minted, acct, copy, met>>

(***************************************************************************)
(* suspend_account and resume_account.                                     *)
(***************************************************************************)

Wanted(x) == IF x \in Suspends THEN "suspended" ELSE "active"

\* The checks, on a row that is then let go of (db.rollback).
Begin(x, a) ==
  /\ Starts(x) /\ a \in Rows
  /\ OnAccount(x, a,
       IF x \in Suspends /\ a \in Ensures THEN "failed"
       ELSE IF status[a] = Wanted(x) THEN "ok"
       ELSE IF status[a] = "provisioning" \/ cred[a] = "none" THEN "failed"
       ELSE "updating")
  /\ UNCHANGED <<rows, provider, copy>>

\* Mutant of Update: the key is left as it is.
Update_Nothing(x, applied, answered) ==
  /\ pc[x] = "updating"
  /\ answered => applied
  /\ ~answered => x \in MayFail
  /\ Goto(x, IF answered THEN "reread" ELSE "failed")
  /\ UNCHANGED <<rows, provider, acct, copy, met>>

\* update_key at the provider.
Update(x, applied, answered) ==
  /\ pc[x] = "updating"
  /\ answered => applied
  /\ ~answered => x \in MayFail
  /\ enabled' = IF applied THEN [enabled EXCEPT ![acct[x]] = x \in Resumes] ELSE enabled
  /\ Goto(x, IF answered THEN "reread" ELSE "failed")
  /\ UNCHANGED <<rows, minted, acct, copy, met>>

\* get_account again: the account, and then its credential by a second SELECT.
Reread(x) ==
  /\ pc[x] = "reread" /\ Goto(x, "recred")
  /\ copy' = [copy EXCEPT ![x].status = status[acct[x]]]
  /\ UNCHANGED <<rows, provider, acct, met>>
RereadCred(x) ==
  /\ pc[x] = "recred" /\ Goto(x, "writing")
  /\ copy' = [copy EXCEPT ![x].cred = cred[acct[x]]]
  /\ UNCHANGED <<rows, provider, acct, met>>

\* set_status: the flush writes what differs from the copy.
Write(x) ==
  LET a == acct[x]  to == Wanted(x) IN
  /\ pc[x] = "writing" /\ Goto(x, "ok")
  /\ status' = IF copy[x].status = to THEN status ELSE [status EXCEPT ![a] = to]
  /\ cred' = IF copy[x].cred \in {"none", to} THEN cred ELSE [cred EXCEPT ![a] = to]
  /\ UNCHANGED <<provider, acct, copy, met>>

\* The process dies between two steps.
Die(r) ==
  /\ r \in MayFail /\ Busy(r)
  /\ Goto(r, "failed")
  /\ UNCHANGED <<rows, provider, acct, copy, met>>

Provision(r) ==
  \/ Insert(r)
  \/ \E made, answered \in BOOLEAN : Mint(r, made, answered)
  \/ Record(r)

Switch(x) ==
  \/ \E a \in Accts : Begin(x, a)
  \/ \E applied, answered \in BOOLEAN : Update(x, applied, answered)
  \/ Reread(x) \/ RereadCred(x) \/ Write(x)

Next ==
  \/ \E c \in Creates : LookUp(c)
  \/ \E e \in Ensures : Skim(e) \/ LookUpDefault(e) \/ ListKeys(e)
  \/ \E r \in Accts : Provision(r)
  \/ \E x \in Switches : Switch(x)
  \/ \E r \in Reqs : Die(r)

Spec == Init /\ [][Next]_vars

(***************************************************************************)
(* Properties.                                                             *)
(***************************************************************************)

\* What opens a session or runs a turn on an account (require_spendable_account).
Spendable(a) == status[a] = "active" /\ cred[a] = "active"

\* A client that repeats a create gets the account of the first one, and one it
\* can spend through unless somebody has switched it (create_account).
OneAccountPerIntent ==
  \A c, d \in Retries :
    pc[c] = "ok" /\ pc[d] = "ok" =>
      /\ acct[c] = acct[d]
      /\ (\A x \in Switches : acct[x] # acct[c]) => Spendable(acct[c])

\* Whatever stops halfway and is repeated, no account ever has a second live
\* key, one whose secret is lost and which spends with nobody watching, unless
\* two ensures have overlapped (ensure_default_account).
OneKey == Ensures \notin met => \A a \in Accts : minted[a] <= 1

\* One account for each intent, and one live key for each account.
OneEach == OneAccountPerIntent /\ OneKey

\* An account marked suspended has a key that does not spend, as long as nobody is
\* resuming it or has failed to; one that may be spent through has a key that does,
\* as long as nobody is suspending it or has failed to; if no two such requests have
\* overlapped (set_status, require_spendable_account).
RowsTellTheKey ==
  Switches \notin met =>
    \A a \in Accts :
      /\ status[a] = "suspended" /\ (\A x \in Resumes : acct[x] = a => pc[x] = "ok") => ~enabled[a]
      /\ Spendable(a) /\ (\A x \in Suspends : acct[x] = a => pc[x] = "ok") => enabled[a]

\* A suspension that is reported to have worked has stopped the spending, unless
\* it or an earlier one overlapped with a resume, or a resume failed after the
\* provider had carried it out (suspend_account).
SuspendStops ==
  [][Switches \notin met' /\ (\A x \in Resumes : pc[x] # "failed") =>
       \A s \in Suspends : pc[s] # "ok" /\ pc'[s] = "ok" => ~enabled'[acct'[s]]]_vars
=============================================================================
