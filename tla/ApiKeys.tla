-------------------------------- MODULE ApiKeys --------------------------------
(***************************************************************************)
(* The API keys of one organization: the operator's bootstrap script that  *)
(* makes the organization and its first management key, the console that   *)
(* makes and revokes keys for members, rotation, and API requests that     *)
(* authenticate with a key and stamp its last use beside themselves        *)
(* (scripts/bootstrap_api_key.py, app/routers/deps.py,                     *)
(* app/routers/organization_api_keys.py, app/db/queries/vma_api_keys.py).  *)
(*                                                                         *)
(* A key is named by the request that makes it.  A request refused before  *)
(* it holds anything changes nothing, and is not a step.  What a           *)
(* transaction writes is seen when it commits; the row locks it holds are  *)
(* in orgLock and keyLock.                                                 *)
(***************************************************************************)
EXTENDS Integers, FiniteSets

CONSTANTS
  Bootstraps, Creates, Revokes, Rotations, Calls,  \* requests
  Allowed,      \* the bootstraps run with --allow-additional-admin-key
  Supplied,     \* the bootstraps that bring a key of their own, and may be repeated
  Managers,     \* the console requests made by an owner or admin
  User,         \* the person behind each console request
  Members,      \* the people with a membership in the organization
  MaxExpired,   \* bound on keys that expire
  None

Makers   == Bootstraps \cup Creates \cup Rotations
Console  == Creates \cup Revokes
Reqs     == Makers \cup Revokes \cup Calls
Key      == [admin : BOOLEAN, owner : {User[q] : q \in Console} \cup {None},
             replaces : Makers \cup {None}, expires : BOOLEAN, expired : BOOLEAN,
             revoked : Revokes \cup {None}]

\* A request is of one kind.
RequestAssumption ==
  /\ Allowed \cup Supplied \subseteq Bootstraps /\ Managers \subseteq Console
  /\ Bootstraps \cap (Creates \cup Revokes \cup Rotations \cup Calls) = {}
  /\ Rotations \cap (Console \cup Calls) = {} /\ Creates \cap Revokes = {} /\ Calls \cap Console = {}
NoneAssumption == None \notin Reqs \cup Key /\ MaxExpired \in Nat

VARIABLES
  org,               \* the organization's row is committed
  orgLock, keyLock,  \* who holds the row of the organization, of a key
  keys,              \* vma_api_keys: a row or None for each request that makes one
  pc, copy,          \* a request: its place, and the key it read or means
  answer,            \* the key a bootstrap was answered with
  expiries,
  late               \* history: a key expired while it was being rotated

keyVars == <<org, orgLock, keyLock, keys, pc, copy, answer, expiries, late>>

Rows == {k \in Makers : keys[k] # None}

\* The organization may have been made before, without a key (create_organization).
Init ==
  /\ org \in BOOLEAN /\ orgLock = None /\ keyLock = [k \in Makers |-> None]
  /\ keys = [k \in Makers |-> None]
  /\ pc = [q \in Reqs |-> "new"] /\ copy = [q \in Reqs |-> None]
  /\ answer = [b \in Bootstraps |-> None]
  /\ expiries = 0 /\ late = FALSE

Goto(q, place) == pc' = [pc EXCEPT ![q] = place]
Ends(q, place) == Goto(q, place) /\ copy' = [copy EXCEPT ![q] = None]

\* A key that get_vma_api_key_by_token finds: neither revoked nor expired.
Live(k) == k \in Rows /\ keys[k].revoked = None /\ ~keys[k].expired

(***************************************************************************)
(* The bootstrap script.                                                   *)
(***************************************************************************)

\* Mutant of LockOrganization: the row is read without FOR UPDATE.
LockOrganization_Reads(b) ==
  /\ pc[b] = "new"
  /\ IF org THEN Goto(b, "listing") ELSE Goto(b, "inserting")
  /\ UNCHANGED <<org, orgLock, keyLock, keys, copy, answer, expiries, late>>

\* SELECT FOR UPDATE of the organization, which locks nothing when there is none.
LockOrganization(b) ==
  /\ pc[b] = "new"
  /\ IF org
       THEN orgLock = None /\ orgLock' = b /\ Goto(b, "listing")
       ELSE Goto(b, "inserting") /\ UNCHANGED orgLock
  /\ UNCHANGED <<org, keyLock, keys, copy, answer, expiries, late>>

\* The new organization: its primary key waits for another that is being made,
\* and refuses a second.
InsertOrganization(b) ==
  /\ pc[b] = "inserting" /\ orgLock = None
  /\ IF org THEN Goto(b, "refused") /\ UNCHANGED orgLock
            ELSE Goto(b, "listing") /\ orgLock' = b
  /\ UNCHANGED <<org, keyLock, keys, copy, answer, expiries, late>>

Unlock(q) == orgLock' = IF orgLock = q THEN None ELSE orgLock

ActiveAdmins == {k \in Rows : Live(k) /\ keys[k].admin}
SameToken(b, k) == b \in Supplied /\ k = b

\* list_vma_api_keys, and what the script makes of it: the key it was given is
\* an active management key already, or there is another one, or it goes on.
ListKeys(b) ==
  /\ pc[b] = "listing"
  /\ \/ \E k \in ActiveAdmins :
          /\ SameToken(b, k) /\ Goto(b, "done")
          /\ answer' = [answer EXCEPT ![b] = k] /\ Unlock(b)
     \/ /\ \A k \in ActiveAdmins : ~SameToken(b, k)
        /\ IF ActiveAdmins # {} /\ b \notin Allowed
             THEN Goto(b, "refused") /\ Unlock(b)
             ELSE Goto(b, "minting") /\ UNCHANGED orgLock
        /\ UNCHANGED answer
  /\ UNCHANGED <<org, keyLock, keys, copy, expiries, late>>

NewKey(admin, owner, replaces, expires) ==
  [admin |-> admin, owner |-> owner, replaces |-> replaces, expires |-> expires,
   expired |-> FALSE, revoked |-> None]

\* create_vma_api_key and the commit; uq_vma_api_keys_key_hash refuses a token
\* that any row has, revoked ones too, and the organization goes with it.
MintFirst(b) ==
  /\ pc[b] = "minting"
  /\ IF \E k \in Rows : SameToken(b, k)
       THEN Goto(b, "refused") /\ UNCHANGED <<org, keys, answer>>
       ELSE /\ keys' = [keys EXCEPT ![b] = NewKey(TRUE, None, None, FALSE)]
            /\ org' = TRUE /\ answer' = [answer EXCEPT ![b] = b] /\ Goto(b, "done")
  /\ Unlock(b)
  /\ UNCHANGED <<keyLock, copy, expiries, late>>

\* The operator runs the script again with the key that it was run with before.
Again(b) ==
  /\ b \in Supplied /\ pc[b] \in {"done", "refused"} /\ Goto(b, "new")
  /\ UNCHANGED <<org, orgLock, keyLock, keys, copy, answer, expiries, late>>

(***************************************************************************)
(* The console.                                                            *)
(***************************************************************************)

Member(q) == User[q] \in Members

\* _resolve_console_principal: a member, and of an organization that exists.
Principal(q) == org /\ Member(q)

\* create_organization_api_key: the foreign key waits for the organization's row.
CreateKey(c) ==
  /\ pc[c] = "new" /\ Principal(c) /\ orgLock = None
  /\ keys' = [keys EXCEPT ![c] = NewKey(FALSE, User[c], None, FALSE)] /\ Goto(c, "done")
  /\ UNCHANGED <<org, orgLock, keyLock, copy, answer, expiries, late>>

\* get_vma_api_key and _can_revoke
CanRevoke(r, k) == r \in Managers \/ keys[k].owner = User[r]

LoadKey(r, k) ==
  /\ pc[r] = "new" /\ Principal(r) /\ CanRevoke(r, k)
  /\ Goto(r, "loaded") /\ copy' = [copy EXCEPT ![r] = k]
  /\ UNCHANGED <<org, orgLock, keyLock, keys, answer, expiries, late>>

\* revoke_vma_api_key: the condition of the UPDATE is read under the row's lock.
Revoke(r) ==
  /\ pc[r] = "loaded" /\ keyLock[copy[r]] = None
  /\ keys' = IF keys[copy[r]].revoked = None
               THEN [keys EXCEPT ![copy[r]].revoked = r] ELSE keys
  /\ Ends(r, "done")
  /\ UNCHANGED <<org, orgLock, keyLock, answer, expiries, late>>

(***************************************************************************)
(* rotate_vma_api_key                                                      *)
(***************************************************************************)

\* The current key, FOR UPDATE; a revoked or expired one is not rotated.
LockKey(t, k) ==
  /\ pc[t] = "new" /\ keyLock[k] = None /\ Live(k)
  /\ Goto(t, "rotating") /\ copy' = [copy EXCEPT ![t] = k]
  /\ keyLock' = [keyLock EXCEPT ![k] = t]
  /\ UNCHANGED <<org, orgLock, keys, answer, expiries, late>>

\* The successor has the scopes of the key it replaces, which stays active;
\* uq_vma_api_keys_replaces_key refuses a second one.
Rotate(t, expires) ==
  LET k == copy[t] IN
  /\ pc[t] = "rotating" /\ orgLock = None
  /\ IF \E s \in Rows : keys[s].replaces = k
       THEN Goto(t, "refused") /\ UNCHANGED keys
       ELSE /\ keys' = [keys EXCEPT ![t] = NewKey(keys[k].admin, None, k, expires)]
            /\ Goto(t, "done")
  /\ copy' = [copy EXCEPT ![t] = None]
  /\ keyLock' = [keyLock EXCEPT ![k] = IF @ = t THEN None ELSE @]
  /\ UNCHANGED <<org, orgLock, answer, expiries, late>>

(***************************************************************************)
(* An API request.                                                         *)
(***************************************************************************)

\* authenticate: one lookup.  The use is recorded by a task of its own, if the
\* last recorded one is a minute old.
Authenticate(c, k) ==
  /\ pc[c] = "new" /\ Live(k)
  /\ \/ Goto(c, "done") /\ UNCHANGED copy
     \/ Goto(c, "touching") /\ copy' = [copy EXCEPT ![c] = k]
  /\ UNCHANGED <<org, orgLock, keyLock, keys, answer, expiries, late>>

\* record_vma_api_key_use reads the row, which another request may have stamped.
ReadUse(c) ==
  /\ pc[c] = "touching"
  /\ Ends(c, "done") \/ (Goto(c, "stamping") /\ UNCHANGED copy)
  /\ UNCHANGED <<org, orgLock, keyLock, keys, answer, expiries, late>>

\* Mutant of Stamp: the row is saved as the request found it, live.
Stamp_WholeRow(c) ==
  /\ pc[c] = "stamping" /\ keyLock[copy[c]] = None
  /\ keys' = [keys EXCEPT ![copy[c]].revoked = None] /\ Ends(c, "done")
  /\ UNCHANGED <<org, orgLock, keyLock, answer, expiries, late>>

\* It writes the one column, which nothing here reads.
Stamp(c) ==
  /\ pc[c] = "stamping" /\ keyLock[copy[c]] = None
  /\ Ends(c, "done")
  /\ UNCHANGED <<org, orgLock, keyLock, keys, answer, expiries, late>>

(***************************************************************************)
(* Time and failures.                                                      *)
(***************************************************************************)

\* expires_at passes.
Expires(k) ==
  /\ expiries < MaxExpired /\ k \in Rows /\ keys[k].expires /\ ~keys[k].expired
  /\ keys' = [keys EXCEPT ![k].expired = TRUE] /\ expiries' = expiries + 1
  /\ late' = (late \/ \E t \in Rotations : pc[t] = "rotating" /\ copy[t] = k)
  /\ UNCHANGED <<org, orgLock, keyLock, pc, copy, answer>>

\* A request or the script ends with what it holds, which is rolled back.  One
\* that holds nothing ends by doing no more.
Stop(q) ==
  /\ q \in {orgLock} \cup {keyLock[k] : k \in Makers}
  /\ Ends(q, "refused") /\ Unlock(q)
  /\ keyLock' = [k \in Makers |-> IF keyLock[k] = q THEN None ELSE keyLock[k]]
  /\ UNCHANGED <<org, keys, answer, expiries, late>>

Step ==
  \/ \E b \in Bootstraps : LockOrganization(b) \/ InsertOrganization(b) \/ ListKeys(b) \/ MintFirst(b) \/ Again(b)
  \/ \E c \in Creates : CreateKey(c)
  \/ \E r \in Revokes : Revoke(r) \/ \E k \in Rows : LoadKey(r, k)
  \/ \E t \in Rotations : \/ \E k \in Rows : LockKey(t, k)
                          \/ \E expires \in BOOLEAN : Rotate(t, expires)
  \/ \E c \in Calls : ReadUse(c) \/ Stamp(c) \/ \E k \in Rows : Authenticate(c, k)
  \/ \E k \in Rows : Expires(k)
  \/ \E q \in Reqs : Stop(q)

KeySpec == Init /\ [][Step]_keyVars

(***************************************************************************)
(* Properties.                                                             *)
(***************************************************************************)

\* k was rotated from j, perhaps by way of others.
Descends(k, j) ==
  \E path \in SUBSET {m \in Rows : keys[m].replaces # None} :
    k \in path /\ \A m \in path : keys[m].replaces \in path \cup {j}

\* Whoever bootstraps, an organization has one active management key and the
\* keys rotated from it, unless one more was allowed or a key expired under its
\* rotation (bootstrap_api_key, "already has an active management key").
OneAdmin ==
  ~late /\ (\A b \in Allowed : answer[b] # b) =>
    \A j, k \in ActiveAdmins : j = k \/ Descends(j, k) \/ Descends(k, j)

\* A revoked key stays revoked, by whoever revoked it first, whatever stamps and
\* revocations read it before (revoke_vma_api_key, record_vma_api_key_use).
RevokedOnce ==
  \A k \in Makers :
    k \in Rows /\ keys[k].revoked # None => keys'[k].revoked = keys[k].revoked

\* A key is rotated while it is active, so that the two overlap and its consumers
\* can switch without a gap: it was not revoked under the rotation
\* (rotate_vma_api_key, "a no-downtime overlap").
Overlap ==
  \A t \in Rotations :
    keys[t] = None /\ keys'[t] # None => keys[keys'[t].replaces].revoked = None

\* What a key's row says of its end stays said, and comes when it is said to come.
KeysEnd == [][RevokedOnce /\ Overlap]_keyVars
=============================================================================
