------------------------------ MODULE Accounts ------------------------------
(***************************************************************************)
(* User administration: the first owner, invitations and their activation  *)
(* codes, changes of role and status, and the rule that every commit       *)
(* leaves an active owner.                                                 *)
(*                                                                         *)
(* A call is one transaction under READ COMMITTED: it reads, it writes a   *)
(* users row, which it keeps locked, and at its commit the deferred        *)
(* trigger takes an advisory lock and looks for an owner.  Other calls see *)
(* what it wrote only after the commit.                                    *)
(***************************************************************************)
EXTENDS Naturals, FiniteSets

CONSTANTS
  Users,       \* the accounts that may ever exist
  Calls,       \* requests and commands in progress
  Roles,       \* the roles told apart, OWNER among them
  MaxVersion,  \* bound on users.version
  MaxCodes,    \* bound on the activation codes of one user
  Nobody       \* no call

ASSUME AccountsAssumption ==
  /\ "OWNER" \in Roles
  /\ MaxVersion \in Nat \ {0}
  /\ MaxCodes \in Nat \ {0}
  /\ Nobody \notin Calls

VARIABLES
  status,     \* users.status, "ABSENT" before the row is inserted
  role,       \* users.role
  version,    \* users.version
  activated,  \* the users with activated_at
  issued,     \* activation codes issued to each user
  live,       \* number of the unconsumed, unexpired one; 0 for none
  writer,     \* the call whose transaction holds the lock of a users row
  mutex,      \* the call that holds pg_advisory_xact_lock(133701070)
  pc,         \* where a call is
  arg         \* what it was asked for or has read

rows  == <<status, role, version, activated>>
codes == <<issued, live>>
locks == <<writer, mutex>>
call  == <<pc, arg>>
vars  == <<rows, codes, locks, call>>

Stored == {"PENDING_ACTIVATION", "ACTIVE", "DISABLED"}

\* The pc of a call whose write waits for its commit.
Writing == {"written", "checked"}

NoArg == [op |-> "none"]
Args ==
  {NoArg}
    \union [op : {"bootstrap", "reissue", "reset"}, user : Users]
    \union [op : {"activate"}, user : Users, status : {"ACTIVE"}]
    \union [op : {"update"}, user : Users, role : Roles, status : Stored, expected : Nat]

TypeOK ==
  /\ status \in [Users -> Stored \union {"ABSENT"}]
  /\ role \in [Users -> Roles]
  /\ version \in [Users -> Nat]
  /\ activated \in SUBSET Users
  /\ issued \in [Users -> Nat]
  /\ live \in [Users -> Nat]
  /\ writer \in [Users -> Calls \union {Nobody}]
  /\ mutex \in Calls \union {Nobody}
  /\ pc \in [Calls -> {"idle", "begun"} \union Writing]
  /\ arg \in [Calls -> Args]

Init ==
  /\ status = [u \in Users |-> "ABSENT"]
  /\ role = [u \in Users |-> "OWNER"]
  /\ version = [u \in Users |-> 0]
  /\ activated = {}
  /\ issued = [u \in Users |-> 0]
  /\ live = [u \in Users |-> 0]
  /\ writer = [u \in Users |-> Nobody]
  /\ mutex = Nobody
  /\ pc = [c \in Calls |-> "idle"]
  /\ arg = [c \in Calls |-> NoArg]

-----------------------------------------------------------------------------
(***************************************************************************)
(* Transactions.                                                           *)
(***************************************************************************)

Begin(c, a) ==
  /\ pc[c] = "idle"
  /\ pc' = [pc EXCEPT ![c] = "begun"]
  /\ arg' = [arg EXCEPT ![c] = a]

\* The call c is in the transaction of op and has written nothing yet.
In(c, op) == pc[c] = "begun" /\ arg[c].op = op

\* The transaction of c ends, by commit or rollback, and gives up its locks.
End(c) ==
  /\ pc' = [pc EXCEPT ![c] = "idle"]
  /\ arg' = [arg EXCEPT ![c] = NoArg]
  /\ mutex' = IF mutex = c THEN Nobody ELSE mutex
  /\ writer' = [u \in Users |-> IF writer[u] = c THEN Nobody ELSE writer[u]]

\* A request fails, is refused or loses its connection: everything is rolled back.
Abort(c) == pc[c] # "idle" /\ End(c) /\ UNCHANGED <<rows, codes>>

\* An UPDATE of the row of u by c, once whoever holds the row has let go of it:
\* it takes effect, and stays locked, if the row still meets the condition then.
Write(c, condition) ==
  LET u == arg[c].user IN
  /\ writer[u] = Nobody
  /\ IF condition
     THEN /\ writer' = [writer EXCEPT ![u] = c]
          /\ pc' = [pc EXCEPT ![c] = "written"]
          /\ UNCHANGED <<mutex, arg>>
     ELSE End(c)
  /\ UNCHANGED <<rows, codes>>

\* The row of u as the transaction of c sees it: its own write, or what is committed.
StatusSeen(c, u) == IF writer[u] = c THEN arg[c].status ELSE status[u]
RoleSeen(c, u) == IF writer[u] = c /\ arg[c].op = "update" THEN arg[c].role ELSE role[u]

OwnerSeen(c) == \E u \in Users : RoleSeen(c, u) = "OWNER" /\ StatusSeen(c, u) = "ACTIVE"

\* Mutant: the trigger looks for an owner without taking the advisory lock.
enforce_unlocked(c) ==
  /\ pc[c] = "written"
  /\ IF OwnerSeen(c)
     THEN /\ pc' = [pc EXCEPT ![c] = "checked"]
          /\ UNCHANGED <<arg, locks>>
     ELSE End(c)
  /\ UNCHANGED <<rows, codes>>

\* The deferred trigger at the commit of a change of role or status: it waits for
\* the advisory lock, which is kept until the transaction ends, and only then reads.
enforce_active_owner(c) ==
  /\ pc[c] = "written"
  /\ mutex = Nobody
  /\ IF OwnerSeen(c)
     THEN /\ mutex' = c
          /\ pc' = [pc EXCEPT ![c] = "checked"]
          /\ UNCHANGED <<arg, writer>>
     ELSE End(c)
  /\ UNCHANGED <<rows, codes>>

Commit(c) ==
  LET u == arg[c].user IN
  /\ pc[c] = "checked"
  /\ status' = [status EXCEPT ![u] = arg[c].status]
  /\ version' = [version EXCEPT ![u] = @ + 1]
  /\ IF arg[c].op = "activate"
     THEN /\ activated' = activated \union {u}
          /\ live' = [live EXCEPT ![u] = 0]
          /\ UNCHANGED role
     ELSE /\ role' = [role EXCEPT ![u] = arg[c].role]
          /\ UNCHANGED <<activated, live>>
  /\ End(c)
  /\ UNCHANGED issued

\* The commit of an activation of u.
Activates(c, u) == Commit(c) /\ arg[c].op = "activate" /\ arg[c].user = u

-----------------------------------------------------------------------------
(***************************************************************************)
(* Operations.                                                             *)
(***************************************************************************)

count_users == Cardinality({u \in Users : status[u] # "ABSENT"})

count_active_owners == Cardinality({u \in Users : role[u] = "OWNER" /\ status[u] = "ACTIVE"})

\* The caller holds a session of an active owner: only that role has user:manage.
\* It was resolved in a transaction of its own, before the one that writes.
Authorised == count_active_owners > 0

\* Two first owners, with different names, can be inserted at the same time.
bootstrap(c, u) == count_users = 0 /\ Begin(c, [op |-> "bootstrap", user |-> u])
                     /\ UNCHANGED <<rows, codes, locks>>

add_admin(c) ==
  LET u == arg[c].user IN
  /\ In(c, "bootstrap")
  /\ status[u] = "ABSENT"   \* else the unique index on the name refuses it: Abort
  /\ status' = [status EXCEPT ![u] = "ACTIVE"]
  /\ role' = [role EXCEPT ![u] = "OWNER"]
  /\ version' = [version EXCEPT ![u] = 1]
  /\ activated' = activated \union {u}
  /\ End(c)
  /\ UNCHANGED codes

add_user(u, r) ==
  /\ status' = [status EXCEPT ![u] = "PENDING_ACTIVATION"]
  /\ role' = [role EXCEPT ![u] = r]
  /\ version' = [version EXCEPT ![u] = 1]
  /\ UNCHANGED activated

\* The code replaces the one that was live: invalidate_activation_tokens comes first.
add_activation_token(u) ==
  /\ issued' = [issued EXCEPT ![u] = @ + 1]
  /\ live' = [live EXCEPT ![u] = issued[u] + 1]

create_user(u, r) ==
  /\ Authorised
  /\ status[u] = "ABSENT"   \* else the unique index on the name refuses it
  /\ add_user(u, r)
  /\ add_activation_token(u)
  /\ UNCHANGED <<locks, call>>

\* The row of u's code is locked by an activation under way.
CodeLocked(u) ==
  \E c \in Calls : pc[c] # "idle" /\ arg[c].op = "activate" /\ arg[c].user = u

reissue_activation(c, u) ==
  /\ Authorised
  /\ status[u] = "PENDING_ACTIVATION"
  /\ Begin(c, [op |-> "reissue", user |-> u])
  /\ UNCHANGED <<rows, codes, locks>>

\* The user may meanwhile have been activated by the code that this one replaces.
ReplaceCode(c) ==
  LET u == arg[c].user IN
  /\ In(c, "reissue")
  /\ ~CodeLocked(u)
  /\ issued[u] < MaxCodes
  /\ add_activation_token(u)
  /\ End(c)
  /\ UNCHANGED rows

\* A code expires, or its row is purged.
Expire(u) ==
  /\ live[u] # 0 /\ ~CodeLocked(u)
  /\ live' = [live EXCEPT ![u] = 0]
  /\ UNCHANGED <<rows, issued, locks, call>>

\* The n-th code of u is the live one, its row is not locked, and u is pending.
consume_activation_token(u, n) ==
  ~CodeLocked(u) /\ live[u] = n /\ status[u] = "PENDING_ACTIVATION"

activate(c, u, n) ==
  /\ consume_activation_token(u, n)
  /\ Begin(c, [op |-> "activate", user |-> u, status |-> "ACTIVE"])
  /\ UNCHANGED <<rows, codes, locks>>

\* Mutant: activate_user trusts the status that the consumed code was checked with.
activate_user_anyway(c) ==
  In(c, "activate") /\ version[arg[c].user] < MaxVersion /\ Write(c, TRUE)

activate_user(c) ==
  /\ In(c, "activate")
  /\ version[arg[c].user] < MaxVersion
  /\ Write(c, status[arg[c].user] = "PENDING_ACTIVATION")

\* update_user of the service: v is the version the caller has seen.
update_user(c, u, r, s, v) ==
  /\ Authorised
  /\ status[u] # "ABSENT"
  /\ ~(status[u] = "PENDING_ACTIVATION" /\ s = "ACTIVE")
  /\ ~(status[u] # "PENDING_ACTIVATION" /\ s = "PENDING_ACTIVATION")
  /\ s = "ACTIVE" => u \in activated
  /\ Begin(c, [op |-> "update", user |-> u, role |-> r, status |-> s, expected |-> v])
  /\ UNCHANGED <<rows, codes, locks>>

\* update_user of the repository: UPDATE users ... WHERE version = expected_version.
UpdateRow(c) ==
  /\ In(c, "update")
  /\ version[arg[c].user] < MaxVersion
  /\ Write(c, version[arg[c].user] = arg[c].expected)

\* break_glass_reset_mfa, break_glass_reset_password: for the sole active owner.
break_glass(c, u) ==
  /\ role[u] = "OWNER" /\ status[u] = "ACTIVE" /\ count_active_owners = 1
  /\ Begin(c, [op |-> "reset", user |-> u])
  /\ UNCHANGED <<rows, codes, locks>>

\* reset_mfa, update_password_hash: the row changes, its role and status do not.
ResetRow(c) ==
  LET u == arg[c].user IN
  /\ In(c, "reset")
  /\ writer[u] = Nobody
  /\ version[u] < MaxVersion
  /\ version' = [version EXCEPT ![u] = @ + 1]
  /\ End(c)
  /\ UNCHANGED <<status, role, activated, codes>>

-----------------------------------------------------------------------------
Open(c) ==
  \E u \in Users :
    \/ bootstrap(c, u) \/ reissue_activation(c, u) \/ break_glass(c, u)
    \/ \E n \in 1..MaxCodes : activate(c, u, n)
    \/ \E r \in Roles, s \in Stored : \E v \in 1..version[u] : update_user(c, u, r, s, v)

Proceed(c) ==
  \/ add_admin(c) \/ ReplaceCode(c) \/ activate_user(c) \/ UpdateRow(c) \/ ResetRow(c)
  \/ enforce_active_owner(c) \/ Commit(c)

Next ==
  \/ \E c \in Calls : Open(c) \/ Proceed(c) \/ Abort(c)
  \/ \E u \in Users : Expire(u) \/ \E r \in Roles : create_user(u, r)

Spec == Init /\ [][Next]_vars

-----------------------------------------------------------------------------
\* INV-23: after every commit there is an active owner, although two owners may be
\* demoted or disabled by transactions that do not see each other.
ActiveOwner ==
  (\E u \in Users : status[u] # "ABSENT") =>
    \E u \in Users : role[u] = "OWNER" /\ status[u] = "ACTIVE"

\* A pending account becomes active by the commit of an activation only, which finds
\* it still pending, never activated before, and its code unused; one that was disabled
\* before that never becomes active, and nobody becomes pending again, whatever an
\* activation, a new code and an administrator's change that overlap have read.
ActivatedOnce ==
  [][\A u \in Users :
       /\ status'[u] = "PENDING_ACTIVATION" => status[u] \in {"ABSENT", "PENDING_ACTIVATION"}
       /\ status[u] = "DISABLED" /\ status'[u] = "ACTIVE" => u \in activated
       /\ status[u] = "PENDING_ACTIVATION" /\ status'[u] = "ACTIVE" =>
            \E c \in Calls : Activates(c, u)
       /\ \A c \in Calls : Activates(c, u) =>
            status[u] = "PENDING_ACTIVATION" /\ u \notin activated /\ live[u] # 0]_vars
=============================================================================
