--------------------------- MODULE AccountsProofs ---------------------------
(***************************************************************************)
(* Every commit leaves an active owner, and an account is activated once,  *)
(* for any users, roles and overlapping transactions.                      *)
(*                                                                         *)
(* What makes the deferred trigger sound is that a transaction which has   *)
(* passed it keeps the advisory lock until it ends, so what it saw is still*)
(* there when it commits, and that a row which waits for its commit is     *)
(* locked, so what its condition was checked with is still there too.      *)
(***************************************************************************)
EXTENDS Accounts, FiniteSetTheorems, TLAPS

\* What a call that is under way was asked for.
Asked(c) ==
  pc[c] # "idle" =>
    /\ arg[c].user \in Users
    /\ pc[c] \in Writing => arg[c].op \in {"activate", "update"}
    /\ arg[c].op = "activate" => arg[c].status = "ACTIVE"
    /\ arg[c].op = "update" =>
         arg[c].role \in Roles /\ arg[c].status \in Stored /\ arg[c].expected \in Nat

\* The lock of a users row belongs to the call that has written it.
Held ==
  /\ \A u \in Users : writer[u] # Nobody =>
       /\ writer[u] \in Calls
       /\ pc[writer[u]] \in Writing
       /\ arg[writer[u]].user = u
  /\ \A c \in Calls : pc[c] \in Writing => writer[arg[c].user] = c

\* A call that has passed the trigger has the advisory lock, and still sees an owner.
Passed ==
  \A c \in Calls : pc[c] = "checked" => mutex = c /\ OwnerSeen(c)

\* The row that an activation has written is still pending below.
Awaited(c) ==
  pc[c] \in Writing /\ arg[c].op = "activate" =>
    status[arg[c].user] = "PENDING_ACTIVATION"

\* What update_user of the service checks of the row it reads.
Allowed(u, s) ==
  /\ status[u] = "PENDING_ACTIVATION" => s # "ACTIVE"
  /\ s = "PENDING_ACTIVATION" => status[u] = "PENDING_ACTIVATION"
  /\ s = "ACTIVE" => u \in activated

\* It holds of the row that is written, if that has the version it was read with.
Permitted(c) ==
  pc[c] # "idle" /\ arg[c].op = "update" =>
    LET u == arg[c].user IN
      /\ status[u] # "ABSENT"
      /\ arg[c].expected <= version[u]
      /\ pc[c] \in Writing \/ version[u] = arg[c].expected => Allowed(u, arg[c].status)

AccountsInv ==
  /\ TypeOK
  /\ Held
  /\ Passed
  /\ \A c \in Calls : Asked(c) /\ Awaited(c) /\ Permitted(c)
  /\ ActiveOwner
-----------------------------------------------------------------------------
(***************************************************************************)
(* Steps of one form.                                                      *)
(***************************************************************************)

\* A call begins: it has read the row it was asked about, and has no lock.
LEMMA BeginKeeps ==
  ASSUME AccountsInv, NEW c \in Calls, NEW a \in Args, Begin(c, a),
         UNCHANGED <<rows, codes, locks>>,
         a.user \in Users,
         a.op = "activate" => a.status = "ACTIVE",
         a.op = "update" =>
           /\ a.role \in Roles /\ a.status \in Stored /\ a.expected \in Nat
           /\ status[a.user] # "ABSENT"
           /\ a.expected <= version[a.user]
           /\ version[a.user] = a.expected => Allowed(a.user, a.status)
  PROVE  AccountsInv'
<1>1. /\ pc \in [Calls -> {"idle", "begun"} \union Writing] /\ arg \in [Calls -> Args]
      /\ pc[c] = "idle" /\ pc'[c] = "begun" /\ arg'[c] = a
      /\ \A d \in Calls : d # c => pc'[d] = pc[d] /\ arg'[d] = arg[d]
    BY DEF AccountsInv, TypeOK, Begin
<1>2. TypeOK'
    BY DEF AccountsInv, TypeOK, Begin, rows, codes, locks
<1>3. Held'
    BY <1>1 DEF AccountsInv, Held, Writing, locks
<1>4. \A d \in Calls : pc'[d] = "checked" => mutex' = d /\ OwnerSeen(d)'
    <2> SUFFICES ASSUME NEW d \in Calls, pc'[d] = "checked" PROVE mutex' = d /\ OwnerSeen(d)'
        OBVIOUS
    <2>1. d # c /\ pc[d] = "checked" /\ arg'[d] = arg[d]
        BY <1>1
    <2> QED
        BY <2>1 DEF AccountsInv, Passed, OwnerSeen, StatusSeen, RoleSeen, rows, locks
<1>5. \A d \in Calls : Asked(d)' /\ Awaited(d)' /\ Permitted(d)'
    BY <1>1 DEF AccountsInv, Asked, Awaited, Permitted, Allowed, Writing, rows
<1>6. ActiveOwner'
    BY DEF AccountsInv, ActiveOwner, rows
<1> QED
    BY <1>2, <1>3, <1>4, <1>5, <1>6 DEF AccountsInv, Passed

\* What the end of a call does to the locks and to the other calls.
LEMMA EndFrees ==
  ASSUME AccountsInv, NEW c \in Calls, End(c)
  PROVE  /\ pc' \in [Calls -> {"idle", "begun"} \union Writing] /\ pc'[c] = "idle"
         /\ arg' \in [Calls -> Args]
         /\ writer' \in [Users -> Calls \union {Nobody}]
         /\ mutex' \in Calls \union {Nobody}
         /\ Held'
         /\ \A d \in Calls : d # c => pc'[d] = pc[d] /\ arg'[d] = arg[d]
         /\ \A d \in Calls, u \in Users : d # c => (writer'[u] = d <=> writer[u] = d)
         /\ \A d \in Calls : d # c /\ mutex = d => mutex' = d
<1>1. /\ pc' \in [Calls -> {"idle", "begun"} \union Writing] /\ pc'[c] = "idle"
      /\ arg' \in [Calls -> Args]
      /\ \A d \in Calls : d # c => pc'[d] = pc[d] /\ arg'[d] = arg[d]
    BY DEF AccountsInv, TypeOK, End, Args
<1>2. /\ writer' \in [Users -> Calls \union {Nobody}]
      /\ mutex' \in Calls \union {Nobody}
      /\ \A u \in Users : writer'[u] = IF writer[u] = c THEN Nobody ELSE writer[u]
      /\ \A d \in Calls : d # c /\ mutex = d => mutex' = d
    BY DEF AccountsInv, TypeOK, End
<1>3. Held'
    BY <1>1, <1>2, AccountsAssumption DEF AccountsInv, Held, Asked, Writing
<1> QED
    BY <1>1, <1>2, <1>3, AccountsAssumption

\* A call ends without a trace in users: it is refused, or it wrote something else.
LEMMA EndKeeps ==
  ASSUME AccountsInv, NEW c \in Calls, End(c), UNCHANGED rows,
         issued' \in [Users -> Nat], live' \in [Users -> Nat]
  PROVE  AccountsInv'
<1>1. TypeOK'
    BY EndFrees DEF AccountsInv, TypeOK, rows
<1>2. \A d \in Calls : pc'[d] = "checked" => mutex' = d /\ OwnerSeen(d)'
    <2> SUFFICES ASSUME NEW d \in Calls, pc'[d] = "checked" PROVE mutex' = d /\ OwnerSeen(d)'
        OBVIOUS
    <2>1. /\ d # c /\ pc[d] = "checked" /\ arg'[d] = arg[d] /\ mutex' = d
          /\ \A u \in Users : writer'[u] = d <=> writer[u] = d
        BY EndFrees DEF AccountsInv, Passed
    <2> QED
        BY <2>1 DEF AccountsInv, Passed, OwnerSeen, StatusSeen, RoleSeen, rows
<1>3. \A d \in Calls : Asked(d)' /\ Awaited(d)' /\ Permitted(d)'
    BY EndFrees DEF AccountsInv, Asked, Awaited, Permitted, Allowed, Writing, rows
<1>4. ActiveOwner'
    BY DEF AccountsInv, ActiveOwner, rows
<1> QED
    BY <1>1, <1>2, <1>3, <1>4, EndFrees DEF AccountsInv, Passed

\* An UPDATE of a free row: its condition stands for what the commit relies on.
LEMMA WriteKeeps ==
  ASSUME AccountsInv, NEW c \in Calls, NEW condition \in BOOLEAN, Write(c, condition),
         pc[c] = "begun", arg[c].op \in {"activate", "update"},
         condition /\ arg[c].op = "activate" =>
           status[arg[c].user] = "PENDING_ACTIVATION",
         condition /\ arg[c].op = "update" => version[arg[c].user] = arg[c].expected
  PROVE  AccountsInv'
<1>1. CASE ~condition
    BY <1>1, EndKeeps DEF AccountsInv, TypeOK, Write, codes
<1>2. CASE condition
    <2> DEFINE u == arg[c].user
    <2>1. /\ u \in Users /\ writer[u] = Nobody /\ writer'[u] = c
          /\ \A v \in Users : v # u => writer'[v] = writer[v]
          /\ pc'[c] = "written" /\ \A d \in Calls : d # c => pc'[d] = pc[d]
          /\ UNCHANGED <<rows, codes, mutex, arg>>
        BY <1>2 DEF AccountsInv, TypeOK, Asked, Write
    <2>2. TypeOK'
        BY <1>2, <2>1 DEF AccountsInv, TypeOK, Write, Writing, rows, codes
    <2>3. Held'
        BY <2>1, AccountsAssumption DEF AccountsInv, Held, Asked, Writing
    <2>4. \A d \in Calls : pc'[d] = "checked" => mutex' = d /\ OwnerSeen(d)'
        <3> SUFFICES ASSUME NEW d \in Calls, pc'[d] = "checked"
                     PROVE  mutex' = d /\ OwnerSeen(d)'
            OBVIOUS
        <3>1. /\ d # c /\ pc[d] = "checked" /\ arg'[d] = arg[d] /\ mutex' = d
              /\ \A v \in Users : writer'[v] = d <=> writer[v] = d
            BY <2>1, AccountsAssumption DEF AccountsInv, Passed
        <3> QED
            BY <2>1, <3>1 DEF AccountsInv, Passed, OwnerSeen, StatusSeen, RoleSeen, rows
    <2>5. \A d \in Calls : Asked(d)' /\ Awaited(d)' /\ Permitted(d)'
        BY <1>2, <2>1 DEF AccountsInv, Asked, Awaited, Permitted, Allowed, Writing, rows
    <2>6. ActiveOwner'
        BY <2>1 DEF AccountsInv, ActiveOwner, rows
    <2> QED
        BY <2>2, <2>3, <2>4, <2>5, <2>6 DEF AccountsInv, Passed
<1> QED
    BY <1>1, <1>2

\* A users row that was not there is inserted, by a transaction of its own.
LEMMA InsertKeeps ==
  ASSUME AccountsInv, NEW u \in Users, NEW r \in Roles, NEW s \in Stored,
         status[u] = "ABSENT",
         status' = [status EXCEPT ![u] = s],
         role' = [role EXCEPT ![u] = r],
         version' = [version EXCEPT ![u] = 1],
         activated' \in SUBSET Users, activated \subseteq activated',
         issued' \in [Users -> Nat], live' \in [Users -> Nat],
         pc' \in [Calls -> {"idle", "begun"} \union Writing],
         arg' \in [Calls -> Args],
         writer' \in [Users -> Calls \union {Nobody}],
         mutex' \in Calls \union {Nobody},
         Held',
         \A d \in Calls : pc'[d] # "idle" =>
           /\ pc'[d] = pc[d] /\ arg'[d] = arg[d]
           /\ \A v \in Users : writer'[v] = d <=> writer[v] = d
           /\ mutex = d => mutex' = d,
         ActiveOwner'
  PROVE  AccountsInv'
<1>1. TypeOK'
    BY DEF AccountsInv, TypeOK, Stored
<1>2. \A d \in Calls : pc'[d] = "checked" => mutex' = d /\ OwnerSeen(d)'
    <2> SUFFICES ASSUME NEW d \in Calls, pc'[d] = "checked" PROVE mutex' = d /\ OwnerSeen(d)'
        OBVIOUS
    <2>1. PICK v \in Users : RoleSeen(d, v) = "OWNER" /\ StatusSeen(d, v) = "ACTIVE"
        BY DEF AccountsInv, Passed, OwnerSeen
    <2>2. v # u
        <3>1. pc[d] \in Writing
            BY DEF Writing
        <3>2. writer[u] # d
            BY <3>1, AccountsAssumption
               DEF AccountsInv, Held, Awaited, Permitted, Asked, Writing
        <3> QED
            BY <2>1, <3>2 DEF StatusSeen
    <2>3. RoleSeen(d, v)' = "OWNER" /\ StatusSeen(d, v)' = "ACTIVE"
        BY <2>1, <2>2 DEF AccountsInv, TypeOK, RoleSeen, StatusSeen
    <2> QED
        BY <2>3 DEF AccountsInv, Passed, OwnerSeen
<1>3. \A d \in Calls : Asked(d)' /\ Awaited(d)' /\ Permitted(d)'
    <2> SUFFICES ASSUME NEW d \in Calls, pc'[d] # "idle"
                 PROVE  Asked(d)' /\ Awaited(d)' /\ Permitted(d)'
        BY DEF Asked, Awaited, Permitted, Writing
    <2>1. Asked(d)'
        BY DEF AccountsInv, Asked
    <2>2. Awaited(d)' /\ Permitted(d)'
        BY DEF AccountsInv, TypeOK, Asked, Awaited, Permitted, Allowed, Writing
    <2> QED
        BY <2>1, <2>2
<1> QED
    BY <1>1, <1>2, <1>3 DEF AccountsInv, Passed
-----------------------------------------------------------------------------
(***************************************************************************)
(* The trigger and the commit.                                             *)
(***************************************************************************)

\* The trigger finds the advisory lock free, so that no other call has passed it.
LEMMA TriggerKeeps ==
  ASSUME AccountsInv, NEW c \in Calls, enforce_active_owner(c)
  PROVE  AccountsInv'
<1>1. CASE ~OwnerSeen(c)
    BY <1>1, EndKeeps DEF AccountsInv, TypeOK, enforce_active_owner, codes
<1>2. CASE OwnerSeen(c)
    <2>1. /\ pc[c] = "written" /\ pc'[c] = "checked" /\ mutex = Nobody /\ mutex' = c
          /\ \A d \in Calls : d # c => pc'[d] = pc[d]
          /\ UNCHANGED <<rows, codes, arg, writer>>
        BY <1>2 DEF AccountsInv, TypeOK, enforce_active_owner
    <2>2. TypeOK'
        BY <1>2, <2>1 DEF AccountsInv, TypeOK, enforce_active_owner, Writing, rows, codes
    <2>3. Held'
        BY <2>1 DEF AccountsInv, Held, Writing
    <2>4. \A d \in Calls : pc'[d] = "checked" => mutex' = d /\ OwnerSeen(d)'
        <3>1. \A d \in Calls : pc'[d] = "checked" => d = c
            BY <2>1, AccountsAssumption DEF AccountsInv, Passed
        <3>2. OwnerSeen(c)'
            BY <1>2, <2>1 DEF OwnerSeen, StatusSeen, RoleSeen, rows
        <3> QED
            BY <2>1, <3>1, <3>2
    <2>5. \A d \in Calls : Asked(d)' /\ Awaited(d)' /\ Permitted(d)'
        BY <2>1 DEF AccountsInv, Asked, Awaited, Permitted, Allowed, Writing, rows
    <2>6. ActiveOwner'
        BY <2>1 DEF AccountsInv, ActiveOwner, rows
    <2> QED
        BY <2>2, <2>3, <2>4, <2>5, <2>6 DEF AccountsInv, Passed
<1> QED
    BY <1>1, <1>2

\* The owner that a committing call has seen is there when its write is: nobody has
\* committed since it took the advisory lock.
LEMMA CommitKeeps ==
  ASSUME AccountsInv, NEW c \in Calls, Commit(c)
  PROVE  AccountsInv'
<1> DEFINE u == arg[c].user
<1>1. /\ u \in Users /\ pc[c] = "checked" /\ mutex = c /\ OwnerSeen(c) /\ writer[u] = c
      /\ arg[c].op \in {"activate", "update"} /\ arg[c].status \in Stored
      /\ arg[c].op = "activate" => arg[c].status = "ACTIVE"
      /\ arg[c].op = "update" => arg[c].role \in Roles
    BY DEF AccountsInv, Passed, Held, Asked, Commit, Writing, Stored
<1>2. /\ status' = [status EXCEPT ![u] = arg[c].status]
      /\ role' = IF arg[c].op = "update" THEN [role EXCEPT ![u] = arg[c].role] ELSE role
      /\ version' = [version EXCEPT ![u] = @ + 1]
      /\ activated \subseteq activated' /\ activated' \in SUBSET Users
      /\ issued' \in [Users -> Nat] /\ live' \in [Users -> Nat]
      /\ End(c)
    BY <1>1 DEF AccountsInv, TypeOK, Commit
<1>3. TypeOK'
    BY <1>1, <1>2, EndFrees DEF AccountsInv, TypeOK, Stored
<1>4. \A d \in Calls : pc'[d] # "checked"
    BY <1>1, <1>2, EndFrees DEF AccountsInv, Passed
<1>5. ActiveOwner'
    <2>1. PICK v \in Users : RoleSeen(c, v) = "OWNER" /\ StatusSeen(c, v) = "ACTIVE"
        BY <1>1 DEF OwnerSeen
    <2>2. CASE v = u
        BY <1>1, <1>2, <2>1, <2>2 DEF AccountsInv, TypeOK, RoleSeen, StatusSeen, ActiveOwner
    <2>3. CASE v # u
        <3>1. writer[v] # c
            BY <1>1, <2>3, AccountsAssumption DEF AccountsInv, Held
        <3> QED
            BY <1>1, <1>2, <2>1, <2>3, <3>1
               DEF AccountsInv, TypeOK, RoleSeen, StatusSeen, ActiveOwner
    <2> QED
        BY <2>2, <2>3
<1>6. ASSUME NEW d \in Calls, pc'[d] # "idle"
      PROVE  Asked(d)' /\ Awaited(d)' /\ Permitted(d)'
    <2>1. d # c /\ pc'[d] = pc[d] /\ arg'[d] = arg[d] /\ arg[d].user \in Users
        BY <1>2, <1>6, EndFrees DEF AccountsInv, Asked
    <2>2. pc[d] \in Writing => arg[d].user # u
        BY <1>1, <2>1 DEF AccountsInv, Held
    <2>3. Asked(d)'
        BY <2>1 DEF AccountsInv, Asked
    <2>4. CASE arg[d].user # u
        BY <1>2, <2>1, <2>4 DEF AccountsInv, TypeOK, Asked, Awaited, Permitted, Allowed
    <2>5. CASE arg[d].user = u
        BY <1>1, <1>2, <2>1, <2>2, <2>5
           DEF AccountsInv, TypeOK, Asked, Awaited, Permitted, Stored
    <2> QED
        BY <2>3, <2>4, <2>5
<1>7. \A d \in Calls : Asked(d)' /\ Awaited(d)' /\ Permitted(d)'
    BY <1>6 DEF Asked, Awaited, Permitted, Writing
<1> QED
    BY <1>2, <1>3, <1>4, <1>5, <1>7, EndFrees DEF AccountsInv, Passed
-----------------------------------------------------------------------------
(***************************************************************************)
(* The operations.                                                         *)
(***************************************************************************)

\* A positive count of active owners is an active owner.
LEMMA OwnerCounted ==
  ASSUME Authorised
  PROVE  \E u \in Users : role[u] = "OWNER" /\ status[u] = "ACTIVE"
<1> SUFFICES ASSUME {u \in Users : role[u] = "OWNER" /\ status[u] = "ACTIVE"} = {}
             PROVE  FALSE
    OBVIOUS
<1> QED
    BY FS_EmptySet DEF Authorised, count_active_owners

\* The first owners are active from the start.
LEMMA BootstrapKeeps ==
  ASSUME AccountsInv, NEW c \in Calls, add_admin(c)
  PROVE  AccountsInv'
<1> DEFINE u == arg[c].user
<1>1. /\ u \in Users /\ status[u] = "ABSENT" /\ End(c)
      /\ status' = [status EXCEPT ![u] = "ACTIVE"]
      /\ role' = [role EXCEPT ![u] = "OWNER"]
      /\ version' = [version EXCEPT ![u] = 1]
      /\ activated' = activated \union {u}
      /\ UNCHANGED codes
    BY DEF AccountsInv, Asked, add_admin, In
<1>2. ActiveOwner'
    BY <1>1, AccountsAssumption DEF AccountsInv, TypeOK, ActiveOwner
<1>3. /\ activated' \in SUBSET Users /\ activated \subseteq activated'
      /\ issued' \in [Users -> Nat] /\ live' \in [Users -> Nat]
    BY <1>1 DEF AccountsInv, TypeOK, codes
<1>4. "OWNER" \in Roles /\ "ACTIVE" \in Stored
    BY AccountsAssumption DEF Stored
<1>5. \A d \in Calls : pc'[d] # "idle" =>
        /\ pc'[d] = pc[d] /\ arg'[d] = arg[d]
        /\ \A v \in Users : writer'[v] = d <=> writer[v] = d
        /\ mutex = d => mutex' = d
    BY <1>1, EndFrees
<1> HIDE DEF u
<1> QED
    BY <1>1, <1>2, <1>3, <1>4, <1>5, EndFrees, InsertKeeps

\* An invited user is pending; the owner who invites is not touched.
LEMMA InviteKeeps ==
  ASSUME AccountsInv, NEW u \in Users, NEW r \in Roles, create_user(u, r)
  PROVE  AccountsInv'
<1>1. /\ status[u] = "ABSENT"
      /\ status' = [status EXCEPT ![u] = "PENDING_ACTIVATION"]
      /\ role' = [role EXCEPT ![u] = r]
      /\ version' = [version EXCEPT ![u] = 1]
      /\ UNCHANGED <<activated, locks, call>>
    BY DEF create_user, add_user
<1>2. issued' \in [Users -> Nat] /\ live' \in [Users -> Nat]
    BY DEF AccountsInv, TypeOK, create_user, add_activation_token
<1>3. ActiveOwner'
    <2>1. PICK v \in Users : role[v] = "OWNER" /\ status[v] = "ACTIVE"
        BY OwnerCounted DEF create_user
    <2> QED
        BY <1>1, <2>1 DEF AccountsInv, TypeOK, ActiveOwner
<1>4. Held'
    BY <1>1 DEF AccountsInv, Held, locks, call
<1>5. /\ pc' = pc /\ arg' = arg /\ writer' = writer /\ mutex' = mutex
      /\ activated' = activated
    BY <1>1 DEF locks, call
<1>6. /\ pc' \in [Calls -> {"idle", "begun"} \union Writing] /\ arg' \in [Calls -> Args]
      /\ writer' \in [Users -> Calls \union {Nobody}] /\ mutex' \in Calls \union {Nobody}
      /\ activated' \in SUBSET Users /\ activated \subseteq activated'
    BY <1>5 DEF AccountsInv, TypeOK
<1>7. "PENDING_ACTIVATION" \in Stored
    BY DEF Stored
<1>8. \A d \in Calls : pc'[d] # "idle" =>
        /\ pc'[d] = pc[d] /\ arg'[d] = arg[d]
        /\ \A v \in Users : writer'[v] = d <=> writer[v] = d
        /\ mutex = d => mutex' = d
    BY <1>5
<1> QED
    BY <1>1, <1>2, <1>3, <1>4, <1>6, <1>7, <1>8, InsertKeeps

\* A call that begins has read a row that is there, and changes nothing.
LEMMA OpenKeeps ==
  ASSUME AccountsInv, NEW c \in Calls, Open(c)
  PROVE  AccountsInv'
<1>1. PICK u \in Users :
        \/ bootstrap(c, u) \/ reissue_activation(c, u) \/ break_glass(c, u)
        \/ \E n \in 1..MaxCodes : activate(c, u, n)
        \/ \E r \in Roles, s \in Stored : \E v \in 1..version[u] : update_user(c, u, r, s, v)
    BY DEF Open
<1>2. ASSUME NEW op \in {"bootstrap", "reissue", "reset"},
             Begin(c, [op |-> op, user |-> u]), UNCHANGED <<rows, codes, locks>>
      PROVE  AccountsInv'
    <2> DEFINE a == [op |-> op, user |-> u]
    <2>1. a \in Args /\ a.user \in Users /\ a.op # "activate" /\ a.op # "update"
        BY DEF Args
    <2> HIDE DEF a
    <2> QED
        BY <1>2, <2>1, BeginKeeps DEF a
<1>3. CASE bootstrap(c, u)
    BY <1>2, <1>3 DEF bootstrap
<1>4. CASE reissue_activation(c, u)
    BY <1>2, <1>4 DEF reissue_activation
<1>5. CASE break_glass(c, u)
    BY <1>2, <1>5 DEF break_glass
<1>6. ASSUME NEW n \in 1..MaxCodes, activate(c, u, n)
      PROVE  AccountsInv'
    <2> DEFINE a == [op |-> "activate", user |-> u, status |-> "ACTIVE"]
    <2>1. a \in Args /\ a.user \in Users /\ a.op = "activate" /\ a.status = "ACTIVE"
        BY DEF Args
    <2>2. Begin(c, a) /\ UNCHANGED <<rows, codes, locks>>
        BY <1>6 DEF activate
    <2> HIDE DEF a
    <2> QED
        BY <2>1, <2>2, BeginKeeps
<1>7. ASSUME NEW r \in Roles, NEW s \in Stored, NEW v \in 1..version[u],
             update_user(c, u, r, s, v)
      PROVE  AccountsInv'
    <2> DEFINE a == [op |-> "update", user |-> u, role |-> r, status |-> s, expected |-> v]
    <2>1. v \in Nat /\ v <= version[u]
        BY DEF AccountsInv, TypeOK
    <2>2. /\ a \in Args /\ a.op = "update" /\ a.user = u
          /\ a.role = r /\ a.status = s /\ a.expected = v
        BY <2>1 DEF Args
    <2>3. Begin(c, a) /\ UNCHANGED <<rows, codes, locks>>
        BY <1>7 DEF update_user
    <2>4. status[u] # "ABSENT" /\ Allowed(u, s)
        BY <1>7 DEF update_user, Allowed
    <2> HIDE DEF a
    <2> QED
        BY <2>1, <2>2, <2>3, <2>4, BeginKeeps
<1> QED
    BY <1>1, <1>3, <1>4, <1>5, <1>6, <1>7

\* A new code, or the end of one, is not seen in users.
LEMMA CodesKeep ==
  ASSUME AccountsInv, issued' \in [Users -> Nat], live' \in [Users -> Nat],
         UNCHANGED <<rows, locks, call>>
  PROVE  AccountsInv'
BY DEF AccountsInv, TypeOK, Held, Passed, OwnerSeen, StatusSeen, RoleSeen, Asked, Awaited,
       Permitted, Allowed, ActiveOwner, rows, locks, call

\* A password or the factors are reset: role and status stay.
LEMMA ResetKeeps ==
  ASSUME AccountsInv, NEW c \in Calls, ResetRow(c)
  PROVE  AccountsInv'
<1> DEFINE u == arg[c].user
<1>1. /\ u \in Users /\ writer[u] = Nobody /\ End(c)
      /\ version' = [version EXCEPT ![u] = @ + 1]
      /\ UNCHANGED <<status, role, activated, codes>>
    BY DEF AccountsInv, Asked, ResetRow, In
<1>2. TypeOK'
    BY <1>1, EndFrees DEF AccountsInv, TypeOK, codes
<1>3. \A d \in Calls : pc'[d] = "checked" => mutex' = d /\ OwnerSeen(d)'
    <2> SUFFICES ASSUME NEW d \in Calls, pc'[d] = "checked" PROVE mutex' = d /\ OwnerSeen(d)'
        OBVIOUS
    <2>1. /\ d # c /\ pc[d] = "checked" /\ arg'[d] = arg[d] /\ mutex' = d
          /\ \A v \in Users : writer'[v] = d <=> writer[v] = d
        BY <1>1, EndFrees DEF AccountsInv, Passed
    <2> QED
        BY <1>1, <2>1 DEF AccountsInv, Passed, OwnerSeen, StatusSeen, RoleSeen
<1>4. ASSUME NEW d \in Calls, pc'[d] # "idle"
      PROVE  Asked(d)' /\ Awaited(d)' /\ Permitted(d)'
    <2>1. d # c /\ pc'[d] = pc[d] /\ arg'[d] = arg[d] /\ arg[d].user \in Users
        BY <1>1, <1>4, EndFrees DEF AccountsInv, Asked
    <2>2. pc[d] \in Writing => arg[d].user # u
        BY <1>1, <2>1, AccountsAssumption DEF AccountsInv, Held
    <2>3. Asked(d)' /\ Awaited(d)'
        BY <1>1, <2>1 DEF AccountsInv, Asked, Awaited
    <2>4. CASE arg[d].user # u
        BY <1>1, <2>1, <2>3, <2>4 DEF AccountsInv, TypeOK, Permitted, Allowed
    <2>5. CASE arg[d].user = u
        BY <1>1, <2>1, <2>2, <2>3, <2>5 DEF AccountsInv, TypeOK, Asked, Permitted
    <2> QED
        BY <2>4, <2>5
<1>5. \A d \in Calls : Asked(d)' /\ Awaited(d)' /\ Permitted(d)'
    BY <1>4 DEF Asked, Awaited, Permitted, Writing
<1>6. ActiveOwner'
    BY <1>1 DEF AccountsInv, ActiveOwner
<1> QED
    BY <1>1, <1>2, <1>3, <1>5, <1>6, EndFrees DEF AccountsInv, Passed

\* The next statement of a call.
LEMMA ProceedKeeps ==
  ASSUME AccountsInv, NEW c \in Calls, Proceed(c)
  PROVE  AccountsInv'
<1>1. CASE add_admin(c)
    BY <1>1, BootstrapKeeps
<1>2. CASE ReplaceCode(c)
    <2>1. arg[c].user \in Users /\ End(c) /\ UNCHANGED rows
        BY <1>2 DEF AccountsInv, Asked, ReplaceCode, In
    <2>2. issued' \in [Users -> Nat] /\ live' \in [Users -> Nat]
        BY <1>2, <2>1 DEF AccountsInv, TypeOK, ReplaceCode, add_activation_token
    <2> QED
        BY <2>1, <2>2, EndKeeps
<1>3. CASE activate_user(c)
    <2> DEFINE pending == status[arg[c].user] = "PENDING_ACTIVATION"
    <2>1. Write(c, pending) /\ pc[c] = "begun" /\ arg[c].op = "activate"
        BY <1>3 DEF activate_user, In
    <2>2. pending \in BOOLEAN /\ (pending => status[arg[c].user] = "PENDING_ACTIVATION")
        OBVIOUS
    <2> HIDE DEF pending
    <2> QED
        BY <2>1, <2>2, WriteKeeps
<1>4. CASE UpdateRow(c)
    <2> DEFINE same == version[arg[c].user] = arg[c].expected
    <2>1. Write(c, same) /\ pc[c] = "begun" /\ arg[c].op = "update"
        BY <1>4 DEF UpdateRow, In
    <2>2. same \in BOOLEAN /\ (same => version[arg[c].user] = arg[c].expected)
        OBVIOUS
    <2> HIDE DEF same
    <2> QED
        BY <2>1, <2>2, WriteKeeps
<1>5. CASE ResetRow(c)
    BY <1>5, ResetKeeps
<1>6. CASE enforce_active_owner(c)
    BY <1>6, TriggerKeeps
<1>7. CASE Commit(c)
    BY <1>7, CommitKeeps
<1> QED
    BY <1>1, <1>2, <1>3, <1>4, <1>5, <1>6, <1>7 DEF Proceed

\* The invariant is inductive.
LEMMA NextKeeps ==
  ASSUME AccountsInv, [Next]_vars
  PROVE  AccountsInv'
<1>1. ASSUME NEW c \in Calls, Open(c) PROVE AccountsInv'
    BY <1>1, OpenKeeps
<1>2. ASSUME NEW c \in Calls, Proceed(c) PROVE AccountsInv'
    BY <1>2, ProceedKeeps
<1>3. ASSUME NEW c \in Calls, Abort(c) PROVE AccountsInv'
    BY <1>3, EndKeeps DEF AccountsInv, TypeOK, Abort, codes
<1>4. ASSUME NEW u \in Users, Expire(u) PROVE AccountsInv'
    <2>1. issued' \in [Users -> Nat] /\ live' \in [Users -> Nat]
        BY <1>4 DEF AccountsInv, TypeOK, Expire
    <2> QED
        BY <1>4, <2>1, CodesKeep DEF Expire
<1>5. ASSUME NEW u \in Users, NEW r \in Roles, create_user(u, r) PROVE AccountsInv'
    BY <1>5, InviteKeeps
<1>6. CASE UNCHANGED vars
    BY <1>6, CodesKeep DEF AccountsInv, TypeOK, vars, codes
<1> QED
    BY <1>1, <1>2, <1>3, <1>4, <1>5, <1>6 DEF Next

\* It holds in the empty system.
LEMMA InitHolds ==
  ASSUME Init
  PROVE  AccountsInv
<1>1. TypeOK
    BY AccountsAssumption DEF Init, TypeOK, Args
<1> QED
    BY <1>1
       DEF Init, AccountsInv, Held, Passed, Asked, Awaited, Permitted, ActiveOwner, Writing

\* It holds in every reachable state.
LEMMA Inductive == Spec => []AccountsInv
<1>1. Init => AccountsInv
    BY InitHolds
<1>2. AccountsInv /\ [Next]_vars => AccountsInv'
    BY NextKeeps
<1> QED
    BY <1>1, <1>2, PTL DEF Spec
-----------------------------------------------------------------------------
(***************************************************************************)
(* Theorems.                                                               *)
(***************************************************************************)

\* Rows, codes, locks and calls keep their types.
THEOREM AccountsTyped == Spec => []TypeOK
<1>1. AccountsInv => TypeOK
    BY DEF AccountsInv
<1> QED
    BY <1>1, Inductive, PTL

\* INV-23: once there are users there is an active owner after every commit, however
\* many changes of role and status overlap.
THEOREM Owners == Spec => []ActiveOwner
<1>1. AccountsInv => ActiveOwner
    BY DEF AccountsInv
<1> QED
    BY <1>1, Inductive, PTL

\* Of the steps only those that write a row change a status.
LEMMA StatusWriters ==
  ASSUME AccountsInv, Next, status' # status
  PROVE  \/ \E c \in Calls : add_admin(c) \/ Commit(c)
         \/ \E u \in Users, r \in Roles : create_user(u, r)
<1>1. ASSUME NEW c \in Calls, Open(c) PROVE status' = status
    BY <1>1 DEF Open, bootstrap, reissue_activation, break_glass, activate, update_user, rows
<1>2. \A c \in Calls : Proceed(c) => add_admin(c) \/ Commit(c) \/ status' = status
    BY DEF Proceed, ReplaceCode, activate_user, UpdateRow, ResetRow, enforce_active_owner,
           Write, rows
<1>3. \A c \in Calls : Abort(c) => status' = status
    BY DEF Abort, rows
<1>4. \A u \in Users : Expire(u) => status' = status
    BY DEF Expire, rows
<1> QED
    BY <1>1, <1>2, <1>3, <1>4 DEF Next

-----------------------------------------------------------------------------
(***************************************************************************)
(* Activation.  A call that has consumed the code of a user keeps its row  *)
(* locked: the code stays what it was, and no other call can consume it.   *)
(***************************************************************************)

Activating(c, u) == pc[c] # "idle" /\ arg[c].op = "activate" /\ arg[c].user = u

Unused ==
  /\ \A u \in Users : status[u] \in {"ABSENT", "PENDING_ACTIVATION"} => u \notin activated
  /\ \A u \in Users, c \in Calls : Activating(c, u) => live[u] # 0
  /\ \A u \in Users, c, d \in Calls : Activating(c, u) /\ Activating(d, u) => c = d

\* Steps that begin no activation and leave the codes of those under way alone.
LEMMA UnusedKept ==
  ASSUME Unused,
         \A c \in Calls, u \in Users : Activating(c, u)' => Activating(c, u),
         \A u \in Users :
           status'[u] \in {"ABSENT", "PENDING_ACTIVATION"} /\ u \in activated' =>
             status[u] \in {"ABSENT", "PENDING_ACTIVATION"} /\ u \in activated,
         \A u \in Users : CodeLocked(u)' => live'[u] = live[u]
  PROVE  Unused'
<1>1. \A u \in Users, c \in Calls : Activating(c, u)' => live'[u] = live[u]
    BY DEF Activating, CodeLocked
<1> QED
    BY <1>1 DEF Unused

\* A call that ends leaves the others as they are.
LEMMA EndActivates ==
  ASSUME AccountsInv, NEW c \in Calls, End(c)
  PROVE  \A d \in Calls, u \in Users :
           Activating(d, u)' => d # c /\ Activating(d, u) /\ CodeLocked(u)
BY EndFrees DEF Activating, CodeLocked

\* A call that begins is the only one that activates, if no other has the code's row.
LEMMA BeginActivates ==
  ASSUME AccountsInv, Unused, NEW c \in Calls, NEW a \in Args, Begin(c, a),
         UNCHANGED <<rows, codes, locks>>, a.user \in Users,
         a.op = "activate" => ~CodeLocked(a.user) /\ live[a.user] # 0
  PROVE  Unused'
<1>1. /\ pc[c] = "idle" /\ pc'[c] = "begun" /\ arg'[c] = a
      /\ \A d \in Calls : d # c => pc'[d] = pc[d] /\ arg'[d] = arg[d]
    BY DEF AccountsInv, TypeOK, Begin
<1>2. \A d \in Calls, u \in Users :
        Activating(d, u)' => \/ d # c /\ Activating(d, u)
                             \/ d = c /\ a.op = "activate" /\ a.user = u
    BY <1>1 DEF Activating
<1>3. \A d \in Calls, u \in Users : Activating(d, u) => CodeLocked(u)
    BY DEF Activating, CodeLocked
<1> QED
    BY <1>2, <1>3 DEF Unused, rows, codes

\* A call that begins has read a code that is live, if it is to activate.
LEMMA OpenUnused ==
  ASSUME AccountsInv, Unused, NEW c \in Calls, Open(c)
  PROVE  Unused'
<1>1. PICK u \in Users :
        \/ bootstrap(c, u) \/ reissue_activation(c, u) \/ break_glass(c, u)
        \/ \E n \in 1..MaxCodes : activate(c, u, n)
        \/ \E r \in Roles, s \in Stored : \E v \in 1..version[u] : update_user(c, u, r, s, v)
    BY DEF Open
<1>2. ASSUME NEW op \in {"bootstrap", "reissue", "reset"},
             Begin(c, [op |-> op, user |-> u]), UNCHANGED <<rows, codes, locks>>
      PROVE  Unused'
    <2> DEFINE a == [op |-> op, user |-> u]
    <2>1. a \in Args /\ a.user \in Users /\ a.op # "activate"
        BY DEF Args
    <2> HIDE DEF a
    <2> QED
        BY <1>2, <2>1, BeginActivates DEF a
<1>3. CASE bootstrap(c, u)
    BY <1>2, <1>3 DEF bootstrap
<1>4. CASE reissue_activation(c, u)
    BY <1>2, <1>4 DEF reissue_activation
<1>5. CASE break_glass(c, u)
    BY <1>2, <1>5 DEF break_glass
<1>6. ASSUME NEW n \in 1..MaxCodes, activate(c, u, n)
      PROVE  Unused'
    <2> DEFINE a == [op |-> "activate", user |-> u, status |-> "ACTIVE"]
    <2>1. a \in Args /\ a.user = u
        BY DEF Args
    <2>2. Begin(c, a) /\ UNCHANGED <<rows, codes, locks>>
        BY <1>6 DEF activate
    <2>3. ~CodeLocked(u) /\ live[u] = n /\ n # 0
        BY <1>6 DEF activate, consume_activation_token
    <2> HIDE DEF a
    <2> QED
        BY <2>1, <2>2, <2>3, BeginActivates
<1>7. ASSUME NEW r \in Roles, NEW s \in Stored, NEW v \in 1..version[u],
             update_user(c, u, r, s, v)
      PROVE  Unused'
    <2> DEFINE a == [op |-> "update", user |-> u, role |-> r, status |-> s, expected |-> v]
    <2>1. v \in Nat
        BY DEF AccountsInv, TypeOK
    <2>2. a \in Args /\ a.op # "activate" /\ a.user = u
        BY <2>1 DEF Args
    <2>3. Begin(c, a) /\ UNCHANGED <<rows, codes, locks>>
        BY <1>7 DEF update_user
    <2> HIDE DEF a
    <2> QED
        BY <2>2, <2>3, BeginActivates
<1> QED
    BY <1>1, <1>3, <1>4, <1>5, <1>6, <1>7

\* A step that reads or writes a row, or ends the call, begins no activation.
LEMMA WriteUnused ==
  ASSUME AccountsInv, Unused, NEW c \in Calls,
         activate_user(c) \/ UpdateRow(c) \/ enforce_active_owner(c) \/ Abort(c)
           \/ ResetRow(c)
  PROVE  Unused'
<1>1. UNCHANGED <<status, activated, live>>
    BY DEF activate_user, UpdateRow, enforce_active_owner, Abort, ResetRow, Write, rows, codes
<1>2. \A d \in Calls, u \in Users : Activating(d, u)' => Activating(d, u)
    <2>1. CASE End(c)
        BY <2>1, EndActivates
    <2>2. CASE ~End(c)
        <3>1. /\ pc[c] # "idle" /\ arg' = arg
              /\ pc' = [pc EXCEPT ![c] = "written"] \/ pc' = [pc EXCEPT ![c] = "checked"]
            BY <2>2 DEF activate_user, UpdateRow, enforce_active_owner, Abort, ResetRow, Write,
                        In
        <3>2. \A d \in Calls : pc'[d] # "idle" => pc[d] # "idle"
            BY <3>1 DEF AccountsInv, TypeOK
        <3> QED
            BY <3>1, <3>2 DEF Activating
    <2> QED
        BY <2>1, <2>2
<1> QED
    BY <1>1, <1>2, UnusedKept

\* The commit of an activation uses up the code; that of another change has none.
LEMMA CommitUnused ==
  ASSUME AccountsInv, Unused, NEW c \in Calls, Commit(c)
  PROVE  Unused'
<1> DEFINE u == arg[c].user
<1>1. /\ u \in Users /\ pc[c] = "checked" /\ End(c)
      /\ arg[c].op = "activate" \/ arg[c].op = "update"
      /\ arg[c].op = "activate" => arg[c].status = "ACTIVE"
      /\ status' = [status EXCEPT ![u] = arg[c].status]
    BY DEF AccountsInv, Asked, Commit, Writing
<1>2. CASE arg[c].op = "activate"
    <2>1. activated' = activated \union {u} /\ live' = [live EXCEPT ![u] = 0]
        BY <1>2 DEF Commit
    <2>2. \A d \in Calls, v \in Users : Activating(d, v)' => Activating(d, v) /\ v # u
        BY <1>1, <1>2, EndActivates DEF Unused, Activating
    <2>3. \A v \in Users : CodeLocked(v)' => live'[v] = live[v]
        BY <2>1, <2>2 DEF AccountsInv, TypeOK, CodeLocked, Activating
    <2>4. \A v \in Users :
            status'[v] \in {"ABSENT", "PENDING_ACTIVATION"} /\ v \in activated' =>
              status[v] \in {"ABSENT", "PENDING_ACTIVATION"} /\ v \in activated
        BY <1>1, <1>2, <2>1 DEF AccountsInv, TypeOK
    <2> QED
        BY <2>2, <2>3, <2>4, UnusedKept
<1>3. CASE arg[c].op = "update"
    <2>1. UNCHANGED <<activated, live>>
        BY <1>3 DEF Commit
    <2>2. arg[c].status = "PENDING_ACTIVATION" => status[u] = "PENDING_ACTIVATION"
        BY <1>1, <1>3 DEF AccountsInv, Permitted, Allowed, Writing
    <2>3. arg[c].status # "ABSENT"
        BY <1>1, <1>3 DEF AccountsInv, Asked, Stored
    <2>4. \A v \in Users :
            status'[v] \in {"ABSENT", "PENDING_ACTIVATION"} /\ v \in activated' =>
              status[v] \in {"ABSENT", "PENDING_ACTIVATION"} /\ v \in activated
        BY <1>1, <2>1, <2>2, <2>3 DEF AccountsInv, TypeOK
    <2> QED
        BY <1>1, <2>1, <2>4, EndActivates, UnusedKept
<1> QED
    BY <1>1, <1>2, <1>3

\* The codes of the activations under way stay live, and each has one call.
LEMMA UnusedStep ==
  ASSUME AccountsInv, Unused, [Next]_vars
  PROVE  Unused'
<1>1. ASSUME NEW c \in Calls, Open(c) PROVE Unused'
    BY <1>1, OpenUnused
<1>2. ASSUME NEW c \in Calls, Abort(c) PROVE Unused'
    BY <1>2, WriteUnused
<1>3. ASSUME NEW c \in Calls, add_admin(c) PROVE Unused'
    <2>1. /\ arg[c].user \in Users /\ End(c) /\ live' = live
          /\ status' = [status EXCEPT ![arg[c].user] = "ACTIVE"]
          /\ activated' = activated \union {arg[c].user}
        BY <1>3 DEF AccountsInv, Asked, add_admin, In, codes
    <2>2. \A v \in Users :
            status'[v] \in {"ABSENT", "PENDING_ACTIVATION"} /\ v \in activated' =>
              status[v] \in {"ABSENT", "PENDING_ACTIVATION"} /\ v \in activated
        BY <2>1 DEF AccountsInv, TypeOK
    <2> QED
        BY <2>1, <2>2, EndActivates, UnusedKept
<1>4. ASSUME NEW c \in Calls, ReplaceCode(c) PROVE Unused'
    <2>1. /\ arg[c].user \in Users /\ End(c) /\ ~CodeLocked(arg[c].user)
          /\ live' = [live EXCEPT ![arg[c].user] = issued[arg[c].user] + 1]
          /\ UNCHANGED rows
        BY <1>4 DEF AccountsInv, Asked, ReplaceCode, add_activation_token, In
    <2>2. \A v \in Users : CodeLocked(v)' => CodeLocked(v)
        BY <2>1, EndActivates DEF CodeLocked, Activating
    <2>3. \A v \in Users : CodeLocked(v)' => live'[v] = live[v]
        BY <2>1, <2>2 DEF AccountsInv, TypeOK
    <2> QED
        BY <2>1, <2>3, EndActivates, UnusedKept DEF rows
<1>5. ASSUME NEW c \in Calls,
             activate_user(c) \/ UpdateRow(c) \/ ResetRow(c) \/ enforce_active_owner(c)
      PROVE  Unused'
    BY <1>5, WriteUnused
<1>6. ASSUME NEW c \in Calls, Commit(c) PROVE Unused'
    BY <1>6, CommitUnused
<1>7. ASSUME NEW u \in Users, Expire(u) PROVE Unused'
    <2>1. /\ ~CodeLocked(u) /\ live' = [live EXCEPT ![u] = 0]
          /\ UNCHANGED <<status, activated, pc, arg>>
        BY <1>7 DEF Expire, rows, call
    <2>2. \A v \in Users : CodeLocked(v)' => live'[v] = live[v]
        BY <2>1 DEF AccountsInv, TypeOK, CodeLocked
    <2> QED
        BY <2>1, <2>2, UnusedKept DEF Activating
<1>8. ASSUME NEW u \in Users, NEW r \in Roles, create_user(u, r) PROVE Unused'
    <2>1. /\ status[u] = "ABSENT" /\ live' = [live EXCEPT ![u] = issued[u] + 1]
          /\ status' = [status EXCEPT ![u] = "PENDING_ACTIVATION"]
          /\ UNCHANGED <<activated, pc, arg>>
        BY <1>8 DEF create_user, add_user, add_activation_token, call
    <2>2. issued[u] \in Nat
        BY DEF AccountsInv, TypeOK
    <2>3. \A v \in Users : live'[v] = live[v] \/ live'[v] # 0
        BY <2>1, <2>2 DEF AccountsInv, TypeOK
    <2>4. \A v \in Users : status'[v] \in {"ABSENT", "PENDING_ACTIVATION"} =>
            status[v] \in {"ABSENT", "PENDING_ACTIVATION"}
        BY <2>1 DEF AccountsInv, TypeOK
    <2> QED
        BY <2>1, <2>3, <2>4 DEF Unused, Activating
<1>9. CASE UNCHANGED vars
    BY <1>9, UnusedKept DEF vars, rows, codes, call, Activating
<1> QED
    BY <1>1, <1>2, <1>3, <1>4, <1>5, <1>6, <1>7, <1>8, <1>9 DEF Next, Proceed

\* An account is activated once, by a code that this uses up, and never becomes pending
\* again: whoever consumes the code holds its row, and the row of the user is locked
\* from the moment it was found pending.
THEOREM Activations == Spec => ActivatedOnce
<1> DEFINE Once(u) ==
      /\ status'[u] = "PENDING_ACTIVATION" => status[u] \in {"ABSENT", "PENDING_ACTIVATION"}
      /\ status[u] = "DISABLED" /\ status'[u] = "ACTIVE" => u \in activated
      /\ status[u] = "PENDING_ACTIVATION" /\ status'[u] = "ACTIVE" =>
           \E c \in Calls : Activates(c, u)
      /\ \A c \in Calls : Activates(c, u) =>
           status[u] = "PENDING_ACTIVATION" /\ u \notin activated /\ live[u] # 0
<1>1. ASSUME AccountsInv, Unused, NEW c \in Calls, NEW u \in Users, Activates(c, u)
      PROVE  status[u] = "PENDING_ACTIVATION" /\ u \notin activated /\ live[u] # 0
    <2>1. pc[c] = "checked" /\ Activating(c, u)
        BY <1>1 DEF Activates, Commit, Activating
    <2>2. status[u] = "PENDING_ACTIVATION"
        BY <1>1, <2>1 DEF AccountsInv, Awaited, Writing, Activating
    <2> QED
        BY <1>1, <2>1, <2>2 DEF Unused
<1>2. ASSUME AccountsInv, Next, NEW u \in Users, status' # status
      PROVE  /\ status'[u] = "PENDING_ACTIVATION" =>
                  status[u] \in {"ABSENT", "PENDING_ACTIVATION"}
             /\ status[u] = "DISABLED" /\ status'[u] = "ACTIVE" => u \in activated
             /\ status[u] = "PENDING_ACTIVATION" /\ status'[u] = "ACTIVE" =>
                  \E c \in Calls : Activates(c, u)
    <2>1. ASSUME NEW c \in Calls, add_admin(c), status'[u] # status[u]
          PROVE  status[u] = "ABSENT" /\ status'[u] = "ACTIVE"
        BY <1>2, <2>1 DEF AccountsInv, TypeOK, add_admin
    <2>2. ASSUME NEW v \in Users, NEW r \in Roles, create_user(v, r), status'[u] # status[u]
          PROVE  status[u] = "ABSENT"
        BY <1>2, <2>2 DEF AccountsInv, TypeOK, create_user, add_user
    <2>3. ASSUME NEW c \in Calls, Commit(c), status'[u] # status[u]
          PROVE  \/ Activates(c, u) /\ status[u] = "PENDING_ACTIVATION"
                                    /\ status'[u] = "ACTIVE"
                 \/ Allowed(u, status'[u])
        <3>1. /\ pc[c] = "checked" /\ arg[c].user = u /\ status'[u] = arg[c].status
              /\ arg[c].op \in {"activate", "update"}
            BY <1>2, <2>3 DEF AccountsInv, TypeOK, Commit, Asked, Writing
        <3>2. CASE arg[c].op = "activate"
            BY <1>2, <2>3, <3>1, <3>2
               DEF AccountsInv, Awaited, Asked, Writing, Activates
        <3>3. CASE arg[c].op = "update"
            BY <1>2, <3>1, <3>3 DEF AccountsInv, Permitted, Writing
        <3> QED
            BY <3>1, <3>2, <3>3
    <2>4. CASE status'[u] = status[u]
        BY <2>4
    <2>5. CASE status'[u] # status[u]
        BY <1>2, <2>1, <2>2, <2>3, <2>5, StatusWriters DEF Allowed
    <2> QED
        BY <2>4, <2>5
<1>3. ASSUME AccountsInv, Unused, Next, NEW u \in Users PROVE Once(u)
    BY <1>1, <1>2, <1>3
<1>4. AccountsInv /\ Unused /\ [Next]_vars => [\A u \in Users : Once(u)]_vars
    BY <1>3
<1>5. Init => Unused
    BY DEF Init, Unused, Activating
<1>6. AccountsInv /\ Unused /\ [Next]_vars => Unused'
    BY UnusedStep
<1> HIDE DEF Once
<1>7. Spec => [][\A u \in Users : Once(u)]_vars
    BY <1>4, <1>5, <1>6, Inductive, PTL DEF Spec
<1> QED
    BY <1>7 DEF ActivatedOnce, Once
=============================================================================
