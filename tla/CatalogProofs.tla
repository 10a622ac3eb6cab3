--------------------------- MODULE CatalogProofs ----------------------------
(***************************************************************************)
(* The catalogue's rows are whole and never go back, for any rows and any  *)
(* overlapping requests.                                                   *)
(*                                                                         *)
(* The argument is the same for the three tables that carry a version: as  *)
(* long as a row has the version that a call expects, nobody has written   *)
(* it since the client looked, so what the call read is still there.  A    *)
(* group carries none: its lock does the same from write_group to the      *)
(* commit.                                                                 *)
(***************************************************************************)
EXTENDS Catalog, TLAPS

\* The calls about each table.
CredentialOps == {"update_credential", "write_credential"}
HostOps       == {"add_host", "update_host", "write_host", "upsert_host_key"}
GroupOps      == {"add_group", "update_group", "replace_group_members"}
PlaybookOps   == {"restore", "validate", "save"}

CallsAre ==
  /\ call = [s \in Calls |-> call[s]]
  /\ \A s \in Calls :
       /\ call[s].op \in {"idle"} \union CredentialOps \union HostOps \union GroupOps
                           \union PlaybookOps
       /\ call[s].op = "idle" => call[s] = Idle
       /\ call[s].op # "idle" => call[s].n \in 1..requests

CredentialRow ==
  [live : BOOLEAN, enabled : BOOLEAN, lock_version : Nat, name : Nat,
   current_version : Nat, about : Nat]
HostRow ==
  [live : BOOLEAN, version : Nat, name : Nat, address : Nat, credential : Credentials]

\* What a call is about exists, and while it has the version that the client
\* expects, what the call writes describes the current secret and is not older
\* than the row.
CredentialCall(a) ==
  a.op \in CredentialOps =>
    /\ a.credential \in Credentials
    /\ LET r == credential[a.credential] IN
         /\ a.expected \in 1..r.lock_version
         /\ a.op = "update_credential" =>
              a.enabled \in BOOLEAN /\ (r.lock_version = a.expected => r.name <= a.n)
         /\ a.op = "write_credential" =>
              /\ a.candidate \in CredentialRow /\ a.candidate.name = a.n
              /\ r.lock_version = a.expected => r.about = a.candidate.about /\ r.name <= a.n

CredentialInv ==
  /\ \A c \in Credentials :
       /\ credential[c].name <= requests
       /\ credential[c].live => credential[c].lock_version > 0
  /\ MetadataMatches
  /\ \A s \in Calls : CredentialCall(call[s])

\* A host that is being inserted was never there, and nobody else inserts it;
\* a change carries along what the host still has, if it has the version.
HostCall(a) ==
  a.op \in HostOps =>
    /\ a.host \in Hosts
    /\ LET r == host[a.host] IN
         /\ a.op = "add_host" => a.credential \in Credentials /\ r.version = 0
         /\ a.op = "update_host" =>
              /\ a.credential \in Credentials /\ a.expected \in 1..r.version
              /\ r.version = a.expected => r.name <= a.n /\ r.address <= a.n
         /\ a.op = "write_host" =>
              /\ a.data \in HostRow /\ a.expected \in 1..r.version
              /\ a.data.name <= requests /\ a.data.address <= requests
              /\ a.data.live
              /\ r.version = a.expected =>
                   r.name <= a.data.name /\ r.address <= a.data.address
         /\ a.op = "upsert_host_key" => a.scanned \in Nat

HostInv ==
  /\ \A h \in Hosts :
       /\ host[h].name <= requests /\ host[h].address <= requests
       /\ host[h].live => host[h].version > 0
       /\ host[h].version = 0 => host[h].name = 0 /\ host[h].address = 0
  /\ \A s \in Calls : HostCall(call[s])
  /\ \A s, t \in Calls :
       call[s].op = "add_host" /\ call[t].op = "add_host" /\ call[s].host = call[t].host
         => s = t

\* A group that is being inserted is not there, and nobody else inserts it; one
\* whose members are being replaced is there and locked, and has no member
\* that the transaction did not see.
GroupCall(s, a) ==
  a.op \in GroupOps =>
    /\ a.group \in Groups /\ a.members \in SUBSET Hosts
    /\ a.op = "add_group" => ~group[a.group].live
    /\ a.op = "replace_group_members" =>
         /\ owner[a.group] = s /\ group[a.group].live
         /\ group[a.group].members \subseteq a.gone

GroupInv ==
  /\ GroupWhole
  /\ \A g \in Groups : \A h \in group[g].asked : host[h].version > 0
  /\ \A s \in Calls : GroupCall(s, call[s])
  /\ \A s, t \in Calls :
       call[s].op = "add_group" /\ call[t].op = "add_group" /\ call[s].group = call[t].group
         => s = t

PlaybookCall(a) ==
  a.op \in PlaybookOps =>
    /\ a.playbook \in Playbooks /\ a.content \in Nat
    /\ LET r == playbook[a.playbook] IN
         /\ a.expected \in 1..r.version
         /\ a.op \in {"validate", "save"} =>
              /\ a.name \in Nat /\ a.name <= requests
              /\ r.version = a.expected => r.name <= a.name

PlaybookInv ==
  /\ \A p \in Playbooks :
       /\ playbook[p].name <= requests
       /\ playbook[p].live => playbook[p].version > 0
  /\ \A s \in Calls : PlaybookCall(call[s])

CatalogInv ==
  TypeOK /\ CallsAre /\ CredentialInv /\ HostInv /\ GroupInv /\ PlaybookInv
-----------------------------------------------------------------------------
(***************************************************************************)
(* How calls move, and what a step about another table leaves alone.       *)
(***************************************************************************)

\* Call s goes on with a, and the other calls stay where they are.
Moves(s, a) ==
  /\ call'[s] = a
  /\ \A t \in Calls : t # s => call'[t] = call[t]

\* A request begins: its number is new.
LEMMA BeginMoves ==
  ASSUME CallsAre, requests \in Nat, NEW s \in Calls, NEW a, Begin(s, a), a.n = fresh,
         a.op \in CredentialOps \union HostOps \union GroupOps \union PlaybookOps
  PROVE  /\ Moves(s, a) /\ CallsAre' /\ call[s] = Idle
         /\ requests' = requests + 1 /\ requests' \in Nat /\ a.n \in 1..requests'
<1>1. call' = [call EXCEPT ![s] = a] /\ call[s] = Idle /\ requests' = requests + 1
    BY DEF Begin, Request, fresh
<1>2. Moves(s, a)
    BY <1>1 DEF CallsAre, Moves
<1>3. call' = [t \in Calls |-> call'[t]]
    BY <1>1 DEF CallsAre
<1>4. requests' \in Nat /\ a.n \in 1..requests' /\ 1..requests \subseteq 1..requests'
    BY <1>1 DEF fresh
<1>5. a.op # "idle"
    BY DEF CredentialOps, HostOps, GroupOps, PlaybookOps
<1> QED
    BY <1>1, <1>2, <1>3, <1>4, <1>5 DEF CallsAre, Moves

\* A call goes on, or ends.
LEMMA GotoMoves ==
  ASSUME CallsAre, NEW s \in Calls, NEW a, Goto(s, a),
         a = Idle \/ (/\ a.op \in CredentialOps \union HostOps \union GroupOps \union PlaybookOps
                      /\ a.n \in 1..requests)
  PROVE  Moves(s, a) /\ CallsAre' /\ requests' = requests
<1>1. call' = [call EXCEPT ![s] = a] /\ requests' = requests
    BY DEF Goto
<1>2. Moves(s, a)
    BY <1>1 DEF CallsAre, Moves
<1>3. call' = [t \in Calls |-> call'[t]]
    BY <1>1 DEF CallsAre
<1>4. a = Idle => a.op = "idle"
    BY DEF Idle
<1>5. a # Idle => a.op # "idle"
    BY DEF CredentialOps, HostOps, GroupOps, PlaybookOps
<1> QED
    BY <1>1, <1>2, <1>3, <1>4, <1>5 DEF CallsAre, Moves

\* A call that ends is about nothing.
LEMMA EndMoves ==
  ASSUME CallsAre, NEW s \in Calls, End(s)
  PROVE  /\ Moves(s, Idle) /\ CallsAre' /\ requests' = requests
         /\ Idle.op = "idle"
    BY GotoMoves DEF End, Idle

\* A request of one transaction moves no call.
LEMMA AtOnceMoves ==
  ASSUME CallsAre, requests \in Nat, AtOnce
  PROVE  /\ call' = call /\ CallsAre' /\ requests' = requests + 1 /\ requests' \in Nat
         /\ fresh \in Nat
<1>1. call' = call /\ requests' = requests + 1
    BY DEF AtOnce, Request, fresh
<1>2. 1..requests \subseteq 1..requests'
    BY <1>1
<1> QED
    BY <1>1, <1>2 DEF CallsAre, fresh

\* The type invariant, of the calls and of the tables.
LEMMA TypeOfCalls ==
  ASSUME CallsAre, requests \in Nat
  PROVE  \A c \in Calls : call[c] = Idle \/ call[c].n \in 1..requests
    BY DEF CallsAre

\* Calls about other tables, begun, moved or ended, leave a table's part alone.
Elsewhere(Ops) ==
  /\ requests \in Nat /\ requests' \in Nat /\ requests <= requests'
  /\ \A t \in Calls : call'[t] = call[t] \/ call'[t].op \notin Ops

LEMMA CredentialElsewhere ==
  ASSUME TypeOK, CredentialInv, UNCHANGED credential, Elsewhere(CredentialOps)
  PROVE  CredentialInv'
<1>1. \A c \in Credentials : credential[c].name \in Nat
    BY DEF TypeOK
<1>2. \A t \in Calls : CredentialCall(call[t])'
    BY DEF CredentialInv, CredentialCall, Elsewhere, CredentialOps
<1> QED
    BY <1>1, <1>2 DEF CredentialInv, Elsewhere, MetadataMatches

LEMMA HostElsewhere ==
  ASSUME TypeOK, CallsAre, HostInv, UNCHANGED host, Elsewhere(HostOps)
  PROVE  HostInv'
<1>1. \A h \in Hosts : host[h].name \in Nat /\ host[h].address \in Nat
    BY DEF TypeOK
<1>2. ASSUME NEW t \in Calls PROVE HostCall(call[t])'
    <2>1. CASE call'[t] = call[t]
        BY <2>1 DEF HostInv, HostCall, Elsewhere, HostOps, HostRow
    <2>2. CASE call'[t].op \notin HostOps
        BY <2>2 DEF HostCall
    <2> QED
        BY <2>1, <2>2 DEF Elsewhere
<1>3. ASSUME NEW s \in Calls, NEW t \in Calls, call'[s].op = "add_host",
             call'[t].op = "add_host", call'[s].host = call'[t].host
      PROVE  s = t
    BY <1>3 DEF HostInv, Elsewhere, HostOps
<1> QED
    BY <1>1, <1>2, <1>3 DEF HostInv, Elsewhere

LEMMA GroupElsewhere ==
  ASSUME TypeOK, CallsAre, GroupInv, UNCHANGED <<group, owner>>, Elsewhere(GroupOps),
         \A h \in Hosts : host[h].version > 0 =>
           host'[h].version > 0 /\ host'[h].live = host[h].live
  PROVE  GroupInv'
<1>1. GroupWhole'
    BY DEF GroupInv, GroupWhole, TypeOK
<1>2. ASSUME NEW t \in Calls PROVE GroupCall(t, call[t])'
    BY DEF GroupInv, GroupCall, Elsewhere, GroupOps
<1>3. ASSUME NEW s \in Calls, NEW t \in Calls, call'[s].op = "add_group",
             call'[t].op = "add_group", call'[s].group = call'[t].group
      PROVE  s = t
    BY <1>3 DEF GroupInv, Elsewhere, GroupOps
<1>4. \A g \in Groups : \A h \in group'[g].asked : host'[h].version > 0
    BY DEF GroupInv, TypeOK
<1> QED
    BY <1>1, <1>2, <1>3, <1>4 DEF GroupInv

LEMMA PlaybookElsewhere ==
  ASSUME TypeOK, PlaybookInv, UNCHANGED playbook, Elsewhere(PlaybookOps)
  PROVE  PlaybookInv'
<1>1. \A p \in Playbooks : playbook[p].name \in Nat
    BY DEF TypeOK
<1>2. ASSUME NEW t \in Calls PROVE PlaybookCall(call[t])'
    BY DEF PlaybookInv, PlaybookCall, Elsewhere, PlaybookOps
<1> QED
    BY <1>1, <1>2 DEF PlaybookInv, Elsewhere

\* The move of one call, and a request of one transaction, are elsewhere for every table
\* that they are not about.
LEMMA MoveElsewhere ==
  ASSUME NEW s \in Calls, NEW a, Moves(s, a), NEW Ops, a.op \notin Ops,
         requests \in Nat, requests' \in Nat, requests <= requests'
  PROVE  Elsewhere(Ops)
    BY DEF Moves, Elsewhere

LEMMA StayElsewhere ==
  ASSUME call' = call, NEW Ops, requests \in Nat, requests' \in Nat, requests <= requests'
  PROVE  Elsewhere(Ops)
    BY DEF Elsewhere
-----------------------------------------------------------------------------
(***************************************************************************)
(* Credentials.                                                            *)
(***************************************************************************)

\* No name of a credential is put back, and no deleted one comes back.
CredentialForward ==
  \A c \in Credentials :
    /\ credential'[c].name >= credential[c].name
    /\ credential[c].lock_version > 0 /\ ~credential[c].live => ~credential'[c].live

\* A step that is about credentials only keeps the invariant if it keeps their part.
LEMMA CredentialOnly ==
  ASSUME CatalogInv, credential' \in [Credentials -> CredentialRow], CredentialInv', CallsAre',
         UNCHANGED <<host, host_key, groups, playbooks>>,
         Elsewhere(HostOps), Elsewhere(GroupOps), Elsewhere(PlaybookOps)
  PROVE  CatalogInv'
<1>1. requests' \in Nat /\ UNCHANGED <<host, host_key, group, owner, playbook, content>>
    BY DEF Elsewhere, groups, playbooks
<1>2. TypeOK'
    BY <1>1 DEF CatalogInv, TypeOK, CallsAre, CredentialRow
<1>3. HostInv' /\ PlaybookInv'
    BY <1>1, HostElsewhere, PlaybookElsewhere DEF CatalogInv
<1>4. GroupInv'
    BY <1>1, GroupElsewhere DEF CatalogInv
<1> QED
    BY <1>2, <1>3, <1>4 DEF CatalogInv

\* What may come after a row: a new version, or the same one with the same fields.
CredentialFollows(old, r) ==
  /\ r \in CredentialRow
  /\ r.about = r.current_version
  /\ r.name >= old.name
  /\ r.live => r.lock_version > 0
  /\ old.lock_version > 0 => (r.live => old.live)
  /\ \/ old.lock_version = 0
     \/ r.lock_version > old.lock_version
     \/ r.lock_version = old.lock_version /\ r.about = old.about /\ r.name = old.name

\* The rows that create, rotate, delete and update make of one another.
LEMMA CreatedCredential ==
  ASSUME NEW old \in CredentialRow, old.lock_version = 0, NEW n \in Nat, old.name <= n
  PROVE  CredentialFollows(old, NewCredential(n)) /\ NewCredential(n).name = n
    BY DEF CredentialFollows, NewCredential, CredentialRow, public_config

LEMMA RotatedCredential ==
  ASSUME NEW old \in CredentialRow,
         NEW mid, mid = rotate_credential(old),
         NEW new, new = [mid EXCEPT !.about = public_config(mid.current_version),
                                    !.lock_version = @ + 1]
  PROVE  CredentialFollows(old, new) /\ new.name = old.name
<1>1. /\ old.lock_version \in Nat /\ old.name \in Nat /\ old.live \in BOOLEAN
      /\ old.current_version \in Nat
    BY DEF CredentialRow
<1>2. PICK v \in Nat, k \in Nat : v = old.current_version + 1 /\ k = old.lock_version + 1
    BY <1>1
<1>3. mid = [old EXCEPT !.current_version = v, !.lock_version = k]
    BY <1>2 DEF rotate_credential
<1>4. /\ mid \in CredentialRow /\ mid.lock_version = k /\ mid.current_version = v
      /\ mid.name = old.name /\ mid.live = old.live
    BY <1>3 DEF CredentialRow
<1>5. PICK m \in Nat : m = k + 1
    OBVIOUS
<1>6. new = [mid EXCEPT !.about = v, !.lock_version = m]
    BY <1>4, <1>5 DEF public_config
<1>7. /\ new \in CredentialRow /\ new.about = new.current_version /\ new.lock_version = m
      /\ new.name = mid.name /\ new.live = mid.live
    BY <1>4, <1>6 DEF CredentialRow
<1> QED
    BY <1>1, <1>2, <1>4, <1>5, <1>7 DEF CredentialFollows

LEMMA DeletedCredential ==
  ASSUME NEW old \in CredentialRow, old.about = old.current_version,
         NEW new, new = [old EXCEPT !.live = FALSE, !.enabled = FALSE]
  PROVE  CredentialFollows(old, new) /\ new.name = old.name
<1>1. /\ new \in CredentialRow /\ new.name = old.name /\ new.live = FALSE
      /\ new.about = old.about /\ new.current_version = old.current_version
      /\ new.lock_version = old.lock_version /\ old.name \in Nat
    BY DEF CredentialRow
<1> QED
    BY <1>1 DEF CredentialFollows

LEMMA UpdatedCredential ==
  ASSUME NEW old \in CredentialRow, old.about = old.current_version,
         NEW r \in CredentialRow, r.about = old.about, old.name <= r.name,
         NEW new, new = [old EXCEPT !.name = r.name, !.enabled = r.enabled, !.about = r.about,
                                    !.lock_version = @ + 1]
  PROVE  CredentialFollows(old, new) /\ new.name = r.name
<1>1. /\ r.enabled \in BOOLEAN /\ r.about \in Nat /\ r.name \in Nat
      /\ old.name \in Nat /\ old.lock_version \in Nat
    BY DEF CredentialRow
<1>2. PICK n \in Nat, e \in BOOLEAN, b \in Nat, k \in Nat :
        n = r.name /\ e = r.enabled /\ b = r.about /\ k = old.lock_version + 1
    BY <1>1
<1>3. new = [old EXCEPT !.name = n, !.enabled = e, !.about = b, !.lock_version = k]
    BY <1>2
<1>4. /\ new \in CredentialRow /\ new.name = n /\ new.live = old.live
      /\ new.about = b /\ new.current_version = old.current_version
      /\ new.lock_version = k
    BY <1>3 DEF CredentialRow
<1> QED
    BY <1>1, <1>2, <1>4 DEF CredentialFollows

\* A step that changes one row, and begins no call about credentials.
LEMMA CredentialChange ==
  ASSUME CatalogInv, NEW c \in Credentials, NEW r,
         credential' = [credential EXCEPT ![c] = r],
         CredentialFollows(credential[c], r), r.name <= requests',
         CallsAre', UNCHANGED <<host, host_key, groups, playbooks>>,
         Elsewhere(CredentialOps), Elsewhere(HostOps), Elsewhere(GroupOps), Elsewhere(PlaybookOps)
  PROVE  CatalogInv' /\ CredentialForward
<1>1. requests \in Nat /\ requests' \in Nat /\ requests <= requests'
    BY DEF Elsewhere
<1>2. /\ credential \in [Credentials -> CredentialRow] /\ r \in CredentialRow
      /\ credential' \in [Credentials -> CredentialRow] /\ credential'[c] = r
      /\ \A d \in Credentials : d # c => credential'[d] = credential[d]
    BY DEF CatalogInv, TypeOK, CredentialRow, CredentialFollows
<1>3. \A d \in Credentials :
        /\ credential[d].name \in Nat /\ credential[d].lock_version \in Nat
        /\ r.name \in Nat /\ r.lock_version \in Nat
    BY <1>2 DEF CredentialRow
<1>4. ASSUME NEW t \in Calls PROVE CredentialCall(call[t])'
    <2>1. CASE call'[t].op \notin CredentialOps
        BY <2>1 DEF CredentialCall
    <2>2. CASE call'[t] = call[t] /\ call[t].op \in CredentialOps
        <3>1. CredentialCall(call[t]) /\ call[t].credential \in Credentials
            BY <2>2 DEF CatalogInv, CredentialInv, CredentialCall
        <3>2. CASE call[t].credential # c
            BY <2>2, <3>1, <3>2, <1>2 DEF CredentialCall
        <3>3. CASE call[t].credential = c
            BY <2>2, <3>1, <3>3, <1>2, <1>3 DEF CredentialCall, CredentialFollows
        <3> QED
            BY <3>2, <3>3
    <2> QED
        BY <2>1, <2>2 DEF Elsewhere
<1>5. CredentialInv'
    BY <1>1, <1>2, <1>3, <1>4
       DEF CatalogInv, CredentialInv, MetadataMatches, CredentialFollows
<1>6. CredentialForward
    BY <1>2, <1>3 DEF CredentialForward, CredentialFollows
<1> QED
    BY <1>2, <1>5, <1>6, CredentialOnly

\* The same for a request of one transaction.
LEMMA CredentialAtOnce ==
  ASSUME CatalogInv, AtOnce, NEW c \in Credentials, NEW r,
         credential' = [credential EXCEPT ![c] = r],
         CredentialFollows(credential[c], r), r.name <= requests + 1,
         UNCHANGED <<host, host_key, groups, playbooks>>
  PROVE  CatalogInv' /\ CredentialForward
<1>1. /\ call' = call /\ CallsAre' /\ requests' = requests + 1
      /\ requests \in Nat /\ requests' \in Nat /\ requests <= requests'
    BY AtOnceMoves DEF CatalogInv, TypeOK
<1> QED
    BY <1>1, StayElsewhere, CredentialChange

\* A step that only moves a call.
LEMMA CredentialMove ==
  ASSUME CatalogInv, NEW s \in Calls, NEW a, Moves(s, a), CallsAre', CredentialCall(a),
         requests' \in Nat, requests <= requests',
         a = Idle \/ a.op \in CredentialOps, UNCHANGED <<assets, groups, playbooks>>
  PROVE  CatalogInv' /\ CredentialForward
<1>1. UNCHANGED <<credential, host, host_key, groups, playbooks>> /\ requests \in Nat
    BY DEF CatalogInv, TypeOK, assets
<1>2. credential \in [Credentials -> CredentialRow]
    BY DEF CatalogInv, TypeOK, CredentialRow
<1>3. a.op \notin HostOps \union GroupOps \union PlaybookOps
    BY DEF Idle, CredentialOps, HostOps, GroupOps, PlaybookOps
<1>4. Elsewhere(HostOps) /\ Elsewhere(GroupOps) /\ Elsewhere(PlaybookOps)
    BY <1>1, <1>3, MoveElsewhere
<1>5. \A c \in Credentials : credential[c].name \in Nat
    BY <1>2 DEF CredentialRow
<1>6. ASSUME NEW t \in Calls PROVE CredentialCall(call[t])'
    BY <1>1 DEF CatalogInv, CredentialInv, CredentialCall, CredentialOps, Moves
<1>7. CredentialInv'
    BY <1>1, <1>5, <1>6 DEF CatalogInv, CredentialInv, MetadataMatches
<1>8. CredentialForward
    BY <1>1, <1>5 DEF CredentialForward
<1> QED
    BY <1>1, <1>2, <1>4, <1>7, <1>8, CredentialOnly

LEMMA CredentialKept ==
  ASSUME CatalogInv, CredentialStep
  PROVE  CatalogInv' /\ CredentialForward
<1> DEFINE Goal == CatalogInv' /\ CredentialForward
<1>0. /\ requests \in Nat /\ fresh = requests + 1 /\ CallsAre
      /\ credential \in [Credentials -> CredentialRow]
    BY DEF CatalogInv, TypeOK, CredentialRow, fresh
<1>a. \A c \in Credentials :
        /\ credential[c] \in CredentialRow
        /\ credential[c].live \in BOOLEAN
        /\ credential[c].lock_version \in Nat /\ credential[c].current_version \in Nat
        /\ credential[c].name \in Nat /\ credential[c].name <= requests
        /\ credential[c].about = credential[c].current_version
        /\ credential[c].live => credential[c].lock_version > 0
    BY <1>0 DEF CredentialRow, CatalogInv, CredentialInv, MetadataMatches
<1>1. ASSUME NEW c \in Credentials, create_credential(c) PROVE Goal
    <2>1. /\ AtOnce /\ credential' = [credential EXCEPT ![c] = NewCredential(fresh)]
          /\ UNCHANGED <<host, host_key, groups, playbooks>>
          /\ credential[c].lock_version = 0
        BY <1>1 DEF create_credential
    <2>2. credential[c].name <= fresh /\ fresh \in Nat
        BY <1>0, <1>a
    <2>3. CredentialFollows(credential[c], NewCredential(fresh)) /\ NewCredential(fresh).name = fresh
        BY <2>1, <2>2, <1>a, CreatedCredential
    <2>4. NewCredential(fresh).name <= requests + 1
        BY <2>3, <1>0
    <2> QED
        BY <2>1, <2>3, <2>4, CredentialAtOnce
<1>2. ASSUME NEW c \in Credentials, rotate(c) PROVE Goal
    <2> DEFINE mid == rotate_credential(credential[c])
               new == [mid EXCEPT !.about = public_config(mid.current_version),
                                  !.lock_version = @ + 1]
    <2>1. /\ AtOnce /\ credential' = [credential EXCEPT ![c] = new]
          /\ UNCHANGED <<host, host_key, groups, playbooks>>
        BY <1>2 DEF rotate
    <2>2. CredentialFollows(credential[c], new) /\ new.name = credential[c].name
        BY <1>a, RotatedCredential
    <2> HIDE DEF new
    <2>3. new.name <= requests + 1
        BY <2>2, <1>a, <1>0
    <2> QED
        BY <2>1, <2>2, <2>3, CredentialAtOnce
<1>3. ASSUME NEW c \in Credentials, delete_credential(c) PROVE Goal
    <2> DEFINE new == [credential[c] EXCEPT !.live = FALSE, !.enabled = FALSE]
    <2>1. /\ AtOnce /\ credential' = [credential EXCEPT ![c] = new]
          /\ UNCHANGED <<host, host_key, groups, playbooks>>
        BY <1>3, <1>0 DEF delete_credential
    <2>2. CredentialFollows(credential[c], new) /\ new.name = credential[c].name
        BY <1>a, DeletedCredential
    <2> HIDE DEF new
    <2>3. new.name <= requests + 1
        BY <2>2, <1>a, <1>0
    <2> QED
        BY <2>1, <2>2, <2>3, CredentialAtOnce
<1>4. ASSUME NEW s \in Calls, NEW c \in Credentials, NEW e \in BOOLEAN, update_credential(s, c, e)
      PROVE  Goal
    <2> DEFINE a == [op |-> "update_credential", n |-> fresh, credential |-> c,
                     enabled |-> e, expected |-> credential[c].lock_version]
    <2>1. Begin(s, a) /\ get_credential(c) /\ UNCHANGED <<assets, groups, playbooks>>
        BY <1>4 DEF update_credential
    <2>2. a.n = fresh /\ a.op \in CredentialOps
        BY DEF CredentialOps
    <2>3. CredentialCall(a)
        BY <2>1, <1>0, <1>a DEF CredentialCall, get_credential
    <2> HIDE DEF a
    <2>4. Moves(s, a) /\ CallsAre' /\ requests' \in Nat /\ requests <= requests'
        BY <2>1, <2>2, <1>0, BeginMoves
    <2> QED
        BY <2>1, <2>2, <2>3, <2>4, CredentialMove
<1>5. ASSUME NEW s \in Calls, read_credential(s) PROVE Goal
    <2> DEFINE c == call[s].credential
               a == [op |-> "write_credential", n |-> call[s].n, credential |-> c,
                     expected |-> call[s].expected,
                     candidate |-> [credential[c] EXCEPT !.name = call[s].n,
                                                         !.enabled = call[s].enabled]]
    <2>1. /\ call[s].op = "update_credential" /\ UNCHANGED <<assets, groups, playbooks>>
          /\ Goto(s, a) \/ End(s)
        BY <1>5 DEF read_credential
    <2>2. /\ c \in Credentials /\ call[s].n \in 1..requests /\ CredentialCall(call[s])
          /\ call[s].enabled \in BOOLEAN
        BY <2>1, <1>0 DEF CatalogInv, CredentialInv, CredentialCall, CredentialOps, CallsAre
    <2>3. a.op = "write_credential" /\ a.op \in CredentialOps /\ a.n \in 1..requests
        BY <2>2 DEF CredentialOps
    <2>4. /\ a.candidate \in CredentialRow /\ a.candidate.about = credential[c].about
          /\ a.candidate.name = call[s].n
        <3>1. PICK n \in Nat, e \in BOOLEAN : n = call[s].n /\ e = call[s].enabled
            BY <2>2, <1>0
        <3>2. a.candidate = [credential[c] EXCEPT !.name = n, !.enabled = e]
            BY <3>1
        <3>3. credential[c] \in CredentialRow
            BY <2>2, <1>a
        <3> QED
            BY <3>1, <3>2, <3>3 DEF CredentialRow
    <2>5. CredentialCall(a)
        BY <2>1, <2>2, <2>3, <2>4 DEF CredentialCall, CredentialOps
    <2>6. CredentialCall(Idle)
        BY DEF CredentialCall, CredentialOps, Idle
    <2> HIDE DEF a
    <2>7. CASE Goto(s, a)
        BY <2>1, <2>3, <2>5, <2>7, <1>0, GotoMoves, CredentialMove
    <2>8. CASE End(s)
        BY <2>1, <2>6, <2>8, <1>0, EndMoves, CredentialMove
    <2> QED
        BY <2>1, <2>7, <2>8
<1>6. ASSUME NEW s \in Calls, write_credential(s) PROVE Goal
    <2> DEFINE c == call[s].credential
               r == call[s].candidate
               new == [credential[c] EXCEPT !.name = r.name, !.enabled = r.enabled,
                                            !.about = r.about, !.lock_version = @ + 1]
    <2>1. /\ call[s].op = "write_credential" /\ End(s)
          /\ UNCHANGED <<host, host_key, groups, playbooks>>
        BY <1>6 DEF write_credential
    <2>2. c \in Credentials /\ CredentialCall(call[s]) /\ r \in CredentialRow
        BY <2>1, <1>0 DEF CatalogInv, CredentialInv, CredentialCall, CredentialOps
    <2>3. Moves(s, Idle) /\ CallsAre' /\ requests' = requests /\ Idle.op = "idle"
        BY <2>1, <1>0, EndMoves
    <2>4. CASE credential' = credential
        <3>1. UNCHANGED <<assets, groups, playbooks>>
            BY <2>1, <2>4 DEF assets
        <3>2. CredentialCall(Idle)
            BY DEF CredentialCall, CredentialOps, Idle
        <3> QED
            BY <2>3, <3>1, <3>2, <1>0, CredentialMove
    <2>5. CASE /\ credential[c].live /\ credential[c].lock_version = call[s].expected
               /\ credential' = [credential EXCEPT ![c] = new]
        <3>1. r.about = credential[c].about /\ credential[c].name <= r.name /\ r.name = call[s].n
            BY <2>1, <2>2, <2>5 DEF CredentialCall, CredentialOps
        <3>2. CredentialFollows(credential[c], new) /\ new.name = r.name
            <4>1. credential[c] \in CredentialRow /\ credential[c].about = credential[c].current_version
                BY <2>2, <1>a
            <4> QED
                BY <2>2, <3>1, <4>1, UpdatedCredential
        <3>3. r.name <= requests'
            BY <2>1, <2>3, <3>1, <1>0 DEF CallsAre
        <3>4. \A Ops \in {CredentialOps, HostOps, GroupOps, PlaybookOps} : Elsewhere(Ops)
            BY <2>3, <1>0, MoveElsewhere DEF CredentialOps, HostOps, GroupOps, PlaybookOps
        <3> HIDE DEF new
        <3> QED
            BY <2>1, <2>2, <2>3, <2>5, <3>2, <3>3, <3>4, CredentialChange
    <2>6. \/ credential' = credential
          \/ /\ credential[c].live /\ credential[c].lock_version = call[s].expected
             /\ credential' = [credential EXCEPT ![c] = new]
        BY <1>6, <1>0, <2>2 DEF write_credential, update_credential_metadata
    <2> QED
        BY <2>4, <2>5, <2>6
<1> QED
    BY <1>1, <1>2, <1>3, <1>4, <1>5, <1>6 DEF CredentialStep
-----------------------------------------------------------------------------
(***************************************************************************)
(* Hosts and their keys.                                                   *)
(***************************************************************************)

\* Neither the name nor the address of a host is put back.
HostForward ==
  \A h \in Hosts :
    host'[h].name >= host[h].name /\ host'[h].address >= host[h].address

\* What may come after a row: a new version, or the same one with the same fields.
HostFollows(old, r) ==
  /\ r \in HostRow
  /\ r.name >= old.name /\ r.address >= old.address
  /\ r.version > 0
  /\ \/ r.version > old.version
     \/ r.version = old.version /\ r.name = old.name /\ r.address = old.address

\* A step about hosts keeps the invariant if it keeps their part and that of the groups.
LEMMA HostOnly ==
  ASSUME CatalogInv, host' \in [Hosts -> HostRow], host_key' \in [Hosts -> Nat],
         group' \in [Groups -> [live : BOOLEAN, name : Nat, asked : SUBSET Hosts,
                                members : SUBSET Hosts]],
         HostInv', GroupInv', CallsAre', UNCHANGED <<credential, owner, playbooks>>,
         Elsewhere(CredentialOps), Elsewhere(PlaybookOps)
  PROVE  CatalogInv'
<1>1. requests' \in Nat /\ UNCHANGED <<credential, owner, playbook, content>>
    BY DEF Elsewhere, playbooks
<1>2. TypeOK'
    BY <1>1 DEF CatalogInv, TypeOK, CallsAre, HostRow
<1>3. CredentialInv' /\ PlaybookInv'
    BY <1>1, CredentialElsewhere, PlaybookElsewhere DEF CatalogInv
<1> QED
    BY <1>2, <1>3 DEF CatalogInv

\* A step that changes one row, and begins no call about hosts.
LEMMA HostChange ==
  ASSUME CatalogInv, NEW h \in Hosts, NEW r, host' = [host EXCEPT ![h] = r],
         HostFollows(host[h], r), r.name <= requests', r.address <= requests',
         Elsewhere(HostOps),
         \A t \in Calls : call'[t].op = "add_host" => call'[t].host # h
  PROVE  /\ HostInv' /\ HostForward
         /\ host' \in [Hosts -> HostRow] /\ host'[h] = r
         /\ \A k \in Hosts : k # h => host'[k] = host[k]
<1>1. requests \in Nat /\ requests' \in Nat /\ requests <= requests'
    BY DEF Elsewhere
<1>2. /\ host \in [Hosts -> HostRow] /\ r \in HostRow
      /\ host' \in [Hosts -> HostRow] /\ host'[h] = r
      /\ \A k \in Hosts : k # h => host'[k] = host[k]
    BY DEF CatalogInv, TypeOK, HostRow, HostFollows
<1>3. /\ \A k \in Hosts :
           host[k].name \in Nat /\ host[k].address \in Nat /\ host[k].version \in Nat
      /\ r.name \in Nat /\ r.address \in Nat /\ r.version \in Nat
    BY <1>2 DEF HostRow
<1>4. ASSUME NEW t \in Calls PROVE HostCall(call[t])'
    <2>1. CASE call'[t].op \notin HostOps
        BY <2>1 DEF HostCall
    <2>2. CASE call'[t] = call[t] /\ call[t].op \in HostOps
        <3>1. HostCall(call[t]) /\ call[t].host \in Hosts
            BY <2>2 DEF CatalogInv, HostInv, HostCall
        <3>2. call[t].op = "write_host" =>
                call[t].data.name \in Nat /\ call[t].data.address \in Nat
            BY <2>2, <3>1 DEF HostCall, HostRow
        <3>3. CASE call[t].host # h
            BY <2>2, <3>1, <3>2, <3>3, <1>1, <1>2 DEF HostCall
        <3>4. CASE call[t].host = h
            BY <2>2, <3>1, <3>2, <3>4, <1>1, <1>2, <1>3 DEF HostCall, HostFollows
        <3> QED
            BY <3>3, <3>4
    <2> QED
        BY <2>1, <2>2 DEF Elsewhere
<1>5. ASSUME NEW s \in Calls, NEW t \in Calls, call'[s].op = "add_host",
             call'[t].op = "add_host", call'[s].host = call'[t].host
      PROVE  s = t
    BY <1>5 DEF CatalogInv, HostInv, Elsewhere, HostOps
<1>6. HostInv'
    BY <1>1, <1>2, <1>3, <1>4, <1>5 DEF CatalogInv, HostInv, HostFollows
<1>7. HostForward
    BY <1>2, <1>3 DEF HostForward, HostFollows
<1> QED
    BY <1>2, <1>6, <1>7

\* The same when no group is touched, because the host is there as before.
LEMMA HostWrite ==
  ASSUME CatalogInv, NEW h \in Hosts, NEW r, host' = [host EXCEPT ![h] = r],
         HostFollows(host[h], r), r.name <= requests', r.address <= requests',
         host[h].version > 0 => r.live = host[h].live,
         CallsAre', UNCHANGED <<credential, host_key, groups, playbooks>>,
         NEW s \in Calls, Moves(s, Idle), requests' = requests,
         \A t \in Calls : t # s /\ call[t].op = "add_host" => call[t].host # h
  PROVE  CatalogInv' /\ HostForward
<1>1. requests \in Nat /\ UNCHANGED <<credential, host_key, group, owner, playbooks>>
    BY DEF CatalogInv, TypeOK, groups
<1>2. \A Ops \in {CredentialOps, HostOps, GroupOps, PlaybookOps} : Elsewhere(Ops)
    BY <1>1, MoveElsewhere DEF Idle, CredentialOps, HostOps, GroupOps, PlaybookOps
<1>3. \A t \in Calls : call'[t].op = "add_host" => call'[t].host # h
    BY DEF Moves, Idle
<1>4. /\ HostInv' /\ HostForward
      /\ host' \in [Hosts -> HostRow] /\ host'[h] = r
      /\ \A k \in Hosts : k # h => host'[k] = host[k]
    BY <1>2, <1>3, HostChange
<1>5. \A k \in Hosts : host[k].version > 0 =>
        host'[k].version > 0 /\ host'[k].live = host[k].live
    BY <1>4 DEF HostFollows
<1>6. GroupInv'
    BY <1>1, <1>2, <1>5, GroupElsewhere DEF CatalogInv
<1>7. /\ host_key' \in [Hosts -> Nat]
      /\ group' \in [Groups -> [live : BOOLEAN, name : Nat, asked : SUBSET Hosts,
                                members : SUBSET Hosts]]
    BY <1>1 DEF CatalogInv, TypeOK
<1> QED
    BY <1>1, <1>2, <1>4, <1>6, <1>7, HostOnly

\* A step that moves a call, and changes at most a key.
LEMMA HostMove ==
  ASSUME CatalogInv, NEW s \in Calls, NEW a, Moves(s, a), CallsAre', HostCall(a),
         requests' \in Nat, requests <= requests',
         a = Idle \/ a.op \in HostOps,
         a.op = "add_host" =>
           \A t \in Calls : t # s /\ call[t].op = "add_host" => call[t].host # a.host,
         host_key' \in [Hosts -> Nat], UNCHANGED <<credential, host, groups, playbooks>>
  PROVE  CatalogInv' /\ HostForward
<1>1. UNCHANGED <<credential, host, group, owner, playbooks>> /\ requests \in Nat
    BY DEF CatalogInv, TypeOK, groups
<1>2. host \in [Hosts -> HostRow]
    BY DEF CatalogInv, TypeOK, HostRow
<1>3. a.op \notin CredentialOps \union GroupOps \union PlaybookOps
    BY DEF Idle, CredentialOps, HostOps, GroupOps, PlaybookOps
<1>4. Elsewhere(CredentialOps) /\ Elsewhere(GroupOps) /\ Elsewhere(PlaybookOps)
    BY <1>1, <1>3, MoveElsewhere
<1>5. \A h \in Hosts : host[h].name \in Nat /\ host[h].address \in Nat
    BY <1>2 DEF HostRow
<1>6. ASSUME NEW t \in Calls PROVE HostCall(call[t])'
    <2>1. HostCall(call'[t])
        BY DEF CatalogInv, HostInv, Moves
    <2>2. call'[t].op = "write_host" /\ call'[t].data \in HostRow =>
            call'[t].data.name \in Nat /\ call'[t].data.address \in Nat
        BY DEF HostRow
    <2> QED
        BY <2>1, <2>2, <1>1 DEF HostCall
<1>7. ASSUME NEW u \in Calls, NEW t \in Calls, call'[u].op = "add_host",
             call'[t].op = "add_host", call'[u].host = call'[t].host
      PROVE  u = t
    BY <1>7 DEF CatalogInv, HostInv, Moves
<1>8. HostInv'
    BY <1>1, <1>5, <1>6, <1>7 DEF CatalogInv, HostInv
<1>9. HostForward
    BY <1>1, <1>5 DEF HostForward
<1>10. GroupInv'
    BY <1>1, <1>4, GroupElsewhere DEF CatalogInv
<1>11. group' \in [Groups -> [live : BOOLEAN, name : Nat, asked : SUBSET Hosts,
                              members : SUBSET Hosts]]
    BY <1>1 DEF CatalogInv, TypeOK
<1> QED
    BY <1>1, <1>2, <1>4, <1>8, <1>9, <1>10, <1>11, HostOnly

\* A changed host: the fields that were sent are new, the others are those of the row.
LEMMA MergedHost ==
  ASSUME NEW r \in HostRow, NEW a, a.n \in Nat, a.credential \in Credentials
  PROVE  /\ Merged(r, a) \in HostRow /\ Merged(r, a).live = r.live
         /\ Merged(r, a).name \in {a.n, r.name} /\ Merged(r, a).address \in {a.n, r.address}
<1>1. PICK n \in Nat, d \in Nat, c \in Credentials :
        /\ n = IF "name" \in a.fields THEN a.n ELSE r.name
        /\ d = IF "address" \in a.fields THEN a.n ELSE r.address
        /\ c = IF "credential" \in a.fields THEN a.credential ELSE r.credential
    BY DEF HostRow
<1>2. Merged(r, a) = [r EXCEPT !.name = n, !.address = d, !.credential = c]
    BY <1>1 DEF Merged
<1>3. /\ Merged(r, a) \in HostRow /\ Merged(r, a).live = r.live
      /\ Merged(r, a).name = n /\ Merged(r, a).address = d
    BY <1>2 DEF HostRow
<1> QED
    BY <1>1, <1>3

LEMMA HostKept ==
  ASSUME CatalogInv, HostStep
  PROVE  CatalogInv' /\ HostForward
<1> DEFINE Goal == CatalogInv' /\ HostForward
<1>0. /\ requests \in Nat /\ fresh = requests + 1 /\ CallsAre
      /\ host \in [Hosts -> HostRow] /\ host_key \in [Hosts -> Nat]
      /\ HostInv /\ GroupInv
    BY DEF CatalogInv, TypeOK, HostRow, fresh
<1>a. \A h \in Hosts :
        /\ host[h] \in HostRow
        /\ host[h].live \in BOOLEAN /\ host[h].version \in Nat
        /\ host[h].name \in Nat /\ host[h].address \in Nat
        /\ host[h].name <= requests /\ host[h].address <= requests
        /\ host[h].live => host[h].version > 0
        /\ host[h].version = 0 => host[h].name = 0 /\ host[h].address = 0
    BY <1>0 DEF HostRow, HostInv
<1>b. HostCall(Idle) /\ Idle.op = "idle"
    BY DEF HostCall, HostOps, Idle
<1>1. ASSUME NEW h \in Hosts, delete_host(h) PROVE Goal
    <2> DEFINE r == [host[h] EXCEPT !.live = FALSE]
    <2>1. /\ host[h].live /\ AtOnce /\ host' = [host EXCEPT ![h] = r]
          /\ host_key' = [host_key EXCEPT ![h] = 0]
          /\ group' = [g \in Groups |-> [group[g] EXCEPT !.members = @ \ {h}]]
          /\ UNCHANGED <<credential, owner, playbooks>>
        BY <1>1, <1>0 DEF delete_host
    <2>2. /\ call' = call /\ CallsAre' /\ requests' = requests + 1
          /\ requests' \in Nat /\ requests <= requests'
        BY <2>1, <1>0, AtOnceMoves
    <2>3. /\ r \in HostRow /\ r.version = host[h].version /\ r.name = host[h].name
          /\ r.address = host[h].address /\ r.live = FALSE
        BY <1>a DEF HostRow
    <2>4. HostFollows(host[h], r) /\ r.name <= requests' /\ r.address <= requests'
        BY <2>1, <2>2, <2>3, <1>a, <1>0 DEF HostFollows
    <2>5. \A t \in Calls : call'[t].op = "add_host" => call'[t].host # h
        BY <2>1, <2>2, <1>0, <1>a DEF HostInv, HostCall, HostOps
    <2>6. \A Ops \in {CredentialOps, HostOps, GroupOps, PlaybookOps} : Elsewhere(Ops)
        BY <2>2, <1>0, StayElsewhere
    <2> HIDE DEF r
    <2>7. /\ HostInv' /\ HostForward
          /\ host' \in [Hosts -> HostRow] /\ host'[h] = r
          /\ \A k \in Hosts : k # h => host'[k] = host[k]
        BY <2>1, <2>4, <2>5, <2>6, HostChange
    <2>8. /\ host_key' \in [Hosts -> Nat]
          /\ group' \in [Groups -> [live : BOOLEAN, name : Nat, asked : SUBSET Hosts,
                                    members : SUBSET Hosts]]
        <3>1. host_key' \in [Hosts -> Nat]
            BY <2>1, <1>0
        <3>2. ASSUME NEW g \in Groups
              PROVE  [group[g] EXCEPT !.members = @ \ {h}]
                       \in [live : BOOLEAN, name : Nat, asked : SUBSET Hosts,
                           members : SUBSET Hosts]
            <4>1. PICK k \in [live : BOOLEAN, name : Nat, asked : SUBSET Hosts,
                              members : SUBSET Hosts] : k = group[g]
                BY DEF CatalogInv, TypeOK
            <4>2. [k EXCEPT !.members = @ \ {h}]
                    \in [live : BOOLEAN, name : Nat, asked : SUBSET Hosts,
                         members : SUBSET Hosts]
                OBVIOUS
            <4> QED
                BY <4>1, <4>2
        <3> QED
            BY <2>1, <3>1, <3>2
    <2>9. \A g \in Groups :
            /\ group'[g].live = group[g].live /\ group'[g].asked = group[g].asked
            /\ group'[g].members = group[g].members \ {h}
        BY <2>1 DEF CatalogInv, TypeOK
    <2>10. GroupInv'
        <3>1. ASSUME NEW g \in Groups, group'[g].live
              PROVE  group'[g].members = {k \in group'[g].asked : host'[k].live}
            <4>1. group[g].members = {k \in group[g].asked : host[k].live}
                BY <2>9, <3>1, <1>0 DEF GroupInv, GroupWhole
            <4>2. \A k \in group[g].asked : k \in Hosts
                BY DEF CatalogInv, TypeOK
            <4>3. ASSUME NEW k \in Hosts PROVE host'[k].live <=> host[k].live /\ k # h
                BY <2>3, <2>7, <1>a
            <4> QED
                BY <2>9, <4>1, <4>2, <4>3
        <3>2. \A g \in Groups : \A k \in group'[g].asked : host'[k].version > 0
            BY <2>3, <2>7, <2>9, <1>0 DEF GroupInv, CatalogInv, TypeOK
        <3>3. ASSUME NEW t \in Calls PROVE GroupCall(t, call[t])'
            <4>1. GroupCall(t, call[t]) /\ call' = call
                BY <2>2, <1>0 DEF GroupInv
            <4> QED
                BY <2>1, <2>2, <2>9, <4>1, <1>0 DEF GroupCall, GroupOps
        <3> QED
            BY <3>1, <3>2, <3>3, <2>2, <1>0 DEF GroupInv, GroupWhole
    <2> QED
        BY <2>1, <2>2, <2>6, <2>7, <2>8, <2>10, HostOnly
<1>2. ASSUME NEW s \in Calls, NEW h \in Hosts, NEW c \in Credentials, create_host(s, h, c)
      PROVE  Goal
    <2> DEFINE a == [op |-> "add_host", n |-> fresh, host |-> h, credential |-> c]
    <2>1. /\ Begin(s, a) /\ host[h].version = 0 /\ UNCHANGED <<assets, groups, playbooks>>
          /\ \A t \in Calls : call[t] # Idle /\ call[t].op = "add_host" => call[t].host # h
        BY <1>2 DEF create_host
    <2>2. a.n = fresh /\ a.op = "add_host" /\ a.op \in HostOps /\ a.host = h
        BY DEF HostOps
    <2>3. HostCall(a)
        BY <2>1, <1>0, <1>a DEF HostCall
    <2> HIDE DEF a
    <2>4. Moves(s, a) /\ CallsAre' /\ requests' \in Nat /\ requests <= requests'
        BY <2>1, <2>2, <1>0, BeginMoves
    <2>5. \A t \in Calls : t # s /\ call[t].op = "add_host" => call[t].host # a.host
        BY <2>1, <2>2, <1>b
    <2>6. UNCHANGED <<credential, host, groups, playbooks>> /\ host_key' \in [Hosts -> Nat]
        BY <2>1, <1>0 DEF assets
    <2> QED
        BY <2>2, <2>3, <2>4, <2>5, <2>6, HostMove
<1>3. ASSUME NEW s \in Calls, NEW h \in Hosts, NEW c \in Credentials, NEW f,
             update_host(s, h, f, c)
      PROVE  Goal
    <2> DEFINE a == [op |-> "update_host", n |-> fresh, host |-> h, fields |-> f,
                     credential |-> c, expected |-> host[h].version]
    <2>1. Begin(s, a) /\ host[h].live /\ UNCHANGED <<assets, groups, playbooks>>
        BY <1>3 DEF update_host
    <2>2. a.n = fresh /\ a.op = "update_host" /\ a.op \in HostOps
        BY DEF HostOps
    <2>3. HostCall(a)
        BY <2>1, <1>0, <1>a DEF HostCall
    <2> HIDE DEF a
    <2>4. Moves(s, a) /\ CallsAre' /\ requests' \in Nat /\ requests <= requests'
        BY <2>1, <2>2, <1>0, BeginMoves
    <2>5. UNCHANGED <<credential, host, groups, playbooks>> /\ host_key' \in [Hosts -> Nat]
        BY <2>1, <1>0 DEF assets
    <2> QED
        BY <2>2, <2>3, <2>4, <2>5, HostMove
<1>4. ASSUME NEW s \in Calls, NEW h \in Hosts, confirm_host_key(s, h) PROVE Goal
    <2> DEFINE a == [op |-> "upsert_host_key", n |-> fresh, host |-> h,
                     scanned |-> scan_host_keys(h)]
    <2>1. Begin(s, a) /\ UNCHANGED <<assets, groups, playbooks>>
        BY <1>4 DEF confirm_host_key
    <2>2. a.n = fresh /\ a.op = "upsert_host_key" /\ a.op \in HostOps
        BY DEF HostOps
    <2>3. HostCall(a)
        BY <1>a DEF HostCall, scan_host_keys
    <2> HIDE DEF a
    <2>4. Moves(s, a) /\ CallsAre' /\ requests' \in Nat /\ requests <= requests'
        BY <2>1, <2>2, <1>0, BeginMoves
    <2>5. UNCHANGED <<credential, host, groups, playbooks>> /\ host_key' \in [Hosts -> Nat]
        BY <2>1, <1>0 DEF assets
    <2> QED
        BY <2>2, <2>3, <2>4, <2>5, HostMove
<1>5. ASSUME NEW s \in Calls, add_host(s) PROVE Goal
    <2> DEFINE h == call[s].host
               r == NewHost(call[s].n, call[s].credential)
    <2>1. /\ call[s].op = "add_host" /\ host' = [host EXCEPT ![h] = r] /\ End(s)
          /\ UNCHANGED <<credential, host_key, groups, playbooks>>
        BY <1>5 DEF add_host
    <2>2. /\ h \in Hosts /\ call[s].credential \in Credentials /\ host[h].version = 0
          /\ call[s].n \in 1..requests
        BY <2>1, <1>0 DEF HostInv, HostCall, HostOps, CallsAre
    <2>3. Moves(s, Idle) /\ CallsAre' /\ requests' = requests
        BY <2>1, <1>0, EndMoves
    <2>4. /\ r \in HostRow /\ r.name = call[s].n /\ r.address = call[s].n /\ r.version = 1
        BY <2>2, <1>0 DEF HostRow, NewHost
    <2>5. HostFollows(host[h], r) /\ r.name <= requests' /\ r.address <= requests'
        BY <2>2, <2>3, <2>4, <1>a, <1>0 DEF HostFollows
    <2>6. \A t \in Calls : t # s /\ call[t].op = "add_host" => call[t].host # h
        BY <2>1, <1>0 DEF HostInv
    <2>7. ~(host[h].version > 0)
        BY <2>2
    <2> HIDE DEF r
    <2> QED
        BY <2>1, <2>2, <2>3, <2>5, <2>6, <2>7, HostWrite
<1>6. ASSUME NEW s \in Calls, read_host(s) PROVE Goal
    <2> DEFINE h == call[s].host
               r == Merged(host[h], call[s])
               a == [op |-> "write_host", n |-> call[s].n, host |-> h, data |-> r,
                     expected |-> call[s].expected]
    <2>1. /\ call[s].op = "update_host" /\ UNCHANGED <<assets, groups, playbooks>>
          /\ (host[h].live /\ Goto(s, a)) \/ End(s)
        BY <1>6 DEF read_host
    <2>2. /\ h \in Hosts /\ call[s].n \in 1..requests /\ call[s].n \in Nat /\ HostCall(call[s])
          /\ call[s].credential \in Credentials /\ host[h] \in HostRow
        BY <2>1, <1>0, <1>a DEF HostInv, HostCall, HostOps, CallsAre
    <2>3. UNCHANGED <<credential, host, groups, playbooks>> /\ host_key' \in [Hosts -> Nat]
        BY <2>1, <1>0 DEF assets
    <2>4. CASE host[h].live /\ Goto(s, a)
        <3>1. /\ r \in HostRow /\ r.live = host[h].live
              /\ r.name \in {call[s].n, host[h].name}
              /\ r.address \in {call[s].n, host[h].address}
            BY <2>2, MergedHost
        <3>2. r.live /\ r.name <= requests /\ r.address <= requests
            BY <2>2, <2>4, <3>1, <1>0, <1>a
        <3> HIDE DEF r
        <3>3. /\ a.op = "write_host" /\ a.op \in HostOps /\ a.n \in 1..requests
              /\ a.data = r /\ a.host = h /\ a.expected = call[s].expected
            BY <2>2 DEF HostOps
        <3>4. host[h].version = call[s].expected =>
                host[h].name <= r.name /\ host[h].address <= r.address
            BY <2>1, <2>2, <3>1, <1>a DEF HostCall, HostOps
        <3>5. HostCall(a)
            BY <2>1, <2>2, <3>1, <3>2, <3>3, <3>4 DEF HostCall, HostOps
        <3> HIDE DEF a
        <3>6. Moves(s, a) /\ CallsAre' /\ requests' = requests
            BY <2>4, <3>3, <1>0, GotoMoves
        <3> QED
            BY <2>3, <3>3, <3>5, <3>6, <1>0, HostMove
    <2>5. CASE End(s)
        BY <2>3, <2>5, <1>0, <1>b, EndMoves, HostMove
    <2> QED
        BY <2>1, <2>4, <2>5
<1>7. ASSUME NEW s \in Calls, write_host(s) PROVE Goal
    <2> DEFINE h == call[s].host
               r == [call[s].data EXCEPT !.version = host[h].version + 1]
    <2>1. /\ call[s].op = "write_host" /\ End(s)
          /\ UNCHANGED <<credential, host_key, groups, playbooks>>
          /\ \/ host[h].live /\ host[h].version = call[s].expected
                  /\ host' = [host EXCEPT ![h] = r]
             \/ host' = host
        BY <1>7 DEF write_host
    <2>2. h \in Hosts /\ HostCall(call[s]) /\ call[s].data \in HostRow /\ call[s].data.live
        BY <2>1, <1>0 DEF HostInv, HostCall, HostOps
    <2>3. Moves(s, Idle) /\ CallsAre' /\ requests' = requests
        BY <2>1, <1>0, EndMoves
    <2>4. CASE host' = host
        BY <2>1, <2>3, <2>4, <1>0, <1>b, HostMove
    <2>5. CASE /\ host[h].live /\ host[h].version = call[s].expected
               /\ host' = [host EXCEPT ![h] = r]
        <3>1. PICK v \in Nat : v = host[h].version + 1
            BY <2>2, <1>a
        <3>2. r = [call[s].data EXCEPT !.version = v]
            BY <3>1
        <3>3. /\ r \in HostRow /\ r.name = call[s].data.name /\ r.address = call[s].data.address
              /\ r.version = v /\ r.live = call[s].data.live
            BY <2>2, <3>2 DEF HostRow
        <3> HIDE DEF r
        <3>4. HostFollows(host[h], r)
            BY <2>1, <2>2, <2>5, <3>1, <3>3, <1>a DEF HostFollows, HostCall, HostOps
        <3>5. r.name <= requests' /\ r.address <= requests'
            BY <2>1, <2>2, <2>3, <3>3 DEF HostCall, HostOps
        <3>6. host[h].version > 0 => r.live = host[h].live
            BY <2>2, <2>5, <3>3, <1>a DEF HostRow
        <3>7. \A t \in Calls : t # s /\ call[t].op = "add_host" => call[t].host # h
            BY <2>2, <2>5, <1>0, <1>a DEF HostInv, HostCall, HostOps
        <3> QED
            BY <2>1, <2>2, <2>3, <2>5, <3>4, <3>5, <3>6, <3>7, HostWrite
    <2> QED
        BY <2>1, <2>4, <2>5
<1>8. ASSUME NEW s \in Calls, upsert_host_key(s) PROVE Goal
    <2>1. /\ call[s].op = "upsert_host_key" /\ End(s)
          /\ UNCHANGED <<credential, host, groups, playbooks>>
        BY <1>8 DEF upsert_host_key
    <2>2. call[s].host \in Hosts /\ call[s].scanned \in Nat
        BY <2>1, <1>0 DEF HostInv, HostCall, HostOps
    <2>3. host_key' \in [Hosts -> Nat]
        BY <2>2, <1>0, <1>8 DEF upsert_host_key
    <2> QED
        BY <2>1, <2>3, <1>0, <1>b, EndMoves, HostMove
<1> QED
    BY <1>1, <1>2, <1>3, <1>4, <1>5, <1>6, <1>7, <1>8 DEF HostStep
-----------------------------------------------------------------------------
(***************************************************************************)
(* Groups.                                                                 *)
(***************************************************************************)

GroupRow == [live : BOOLEAN, name : Nat, asked : SUBSET Hosts, members : SUBSET Hosts]

LEMMA GroupOnly ==
  ASSUME CatalogInv, group' \in [Groups -> GroupRow], owner' \in [Groups -> Calls \union {Nobody}],
         GroupInv', CallsAre', UNCHANGED <<assets, playbooks>>,
         Elsewhere(CredentialOps), Elsewhere(HostOps), Elsewhere(PlaybookOps)
  PROVE  CatalogInv'
<1>1. requests' \in Nat /\ UNCHANGED <<credential, host, host_key, playbook, content>>
    BY DEF Elsewhere, playbooks, assets
<1>2. TypeOK'
    BY <1>1 DEF CatalogInv, TypeOK, CallsAre, GroupRow
<1>3. CredentialInv' /\ HostInv' /\ PlaybookInv'
    BY <1>1, CredentialElsewhere, HostElsewhere, PlaybookElsewhere DEF CatalogInv
<1> QED
    BY <1>2, <1>3 DEF CatalogInv

\* A call moves, and at most takes a lock that nobody has.
LEMMA GroupMove ==
  ASSUME CatalogInv, NEW s \in Calls, NEW a, Moves(s, a), CallsAre', GroupCall(s, a)',
         requests' \in Nat, requests <= requests',
         a = Idle \/ a.op \in GroupOps,
         a.op = "add_group" =>
           \A t \in Calls : t # s /\ call[t].op = "add_group" => call[t].group # a.group,
         owner' \in [Groups -> Calls \union {Nobody}],
         \A g \in Groups : owner[g] # Nobody => owner'[g] = owner[g],
         UNCHANGED <<assets, group, playbooks>>
  PROVE  CatalogInv'
<1>1. /\ requests \in Nat /\ group' = group /\ group' \in [Groups -> GroupRow]
      /\ host' = host /\ Nobody \notin Calls
    BY CatalogAssumption DEF CatalogInv, TypeOK, GroupRow, assets
<1>2. a.op \notin CredentialOps \union HostOps \union PlaybookOps
    BY DEF Idle, CredentialOps, HostOps, GroupOps, PlaybookOps
<1>3. Elsewhere(CredentialOps) /\ Elsewhere(HostOps) /\ Elsewhere(PlaybookOps)
    BY <1>1, <1>2, MoveElsewhere
<1>4. ASSUME NEW t \in Calls PROVE GroupCall(t, call[t])'
    <2>1. CASE t = s
        <3>1. call'[t] = a
            BY <2>1 DEF Moves
        <3> QED
            BY <2>1, <3>1 DEF GroupCall
    <2>2. CASE t # s
        BY <2>2, <1>1 DEF CatalogInv, GroupInv, GroupCall, GroupOps, Moves
    <2> QED
        BY <2>1, <2>2
<1>5. ASSUME NEW u \in Calls, NEW t \in Calls, call'[u].op = "add_group",
             call'[t].op = "add_group", call'[u].group = call'[t].group
      PROVE  u = t
    BY <1>5 DEF CatalogInv, GroupInv, Moves
<1>6. GroupInv'
    BY <1>1, <1>4, <1>5 DEF CatalogInv, GroupInv, GroupWhole
<1> QED
    BY <1>1, <1>3, <1>6, GroupOnly

\* A transaction commits a row that no other one is writing, whole.
LEMMA GroupCommit ==
  ASSUME CatalogInv, NEW s \in Calls, End(s), NEW g \in Groups,
         group' \in [Groups -> GroupRow], \A k \in Groups : k # g => group'[k] = group[k],
         group'[g].asked = group'[g].members, validate_host_ids(group'[g].asked),
         owner' \in [Groups -> Calls \union {Nobody}],
         \A k \in Groups : k # g => owner'[k] = owner[k],
         \A t \in Calls : t # s /\ call[t].op = "replace_group_members" => call[t].group # g,
         \A t \in Calls : t # s /\ call[t].op = "add_group" => call[t].group # g,
         UNCHANGED <<assets, playbooks>>
  PROVE  CatalogInv'
<1>1. /\ requests \in Nat /\ host' = host /\ CallsAre
    BY DEF CatalogInv, TypeOK, GroupRow, assets
<1>2. Moves(s, Idle) /\ CallsAre' /\ requests' = requests /\ Idle.op = "idle"
    BY <1>1, EndMoves
<1>3. \A Ops \in {CredentialOps, HostOps, PlaybookOps} : Elsewhere(Ops)
    BY <1>1, <1>2, MoveElsewhere DEF CredentialOps, HostOps, PlaybookOps
<1>4. \A h \in group'[g].asked : h \in Hosts /\ host[h].live /\ host[h].version > 0
    BY DEF validate_host_ids, GroupRow, CatalogInv, HostInv
<1>5. ASSUME NEW t \in Calls PROVE GroupCall(t, call[t])'
    BY <1>1, <1>2 DEF CatalogInv, GroupInv, GroupCall, GroupOps, Moves
<1>6. ASSUME NEW u \in Calls, NEW t \in Calls, call'[u].op = "add_group",
             call'[t].op = "add_group", call'[u].group = call'[t].group
      PROVE  u = t
    BY <1>2, <1>6 DEF CatalogInv, GroupInv, Moves
<1>7. GroupWhole'
    BY <1>1, <1>4 DEF CatalogInv, GroupInv, GroupWhole
<1>8. \A k \in Groups : \A h \in group'[k].asked : host'[h].version > 0
    BY <1>1, <1>4 DEF CatalogInv, GroupInv
<1>9. GroupInv'
    BY <1>5, <1>6, <1>7, <1>8 DEF GroupInv
<1> QED
    BY <1>1, <1>2, <1>3, <1>9, GroupOnly

LEMMA GroupKept ==
  ASSUME CatalogInv, GroupStep
  PROVE  CatalogInv'
<1>0. /\ requests \in Nat /\ fresh = requests + 1 /\ CallsAre /\ GroupInv
      /\ group \in [Groups -> GroupRow] /\ owner \in [Groups -> Calls \union {Nobody}]
      /\ Nobody \notin Calls
    BY CatalogAssumption DEF CatalogInv, TypeOK, GroupRow, fresh
<1>a. Idle.op = "idle" /\ \A s \in Calls : GroupCall(s, Idle)'
    BY DEF GroupCall, GroupOps, Idle
<1>b. ASSUME NEW s \in Calls, End(s), UNCHANGED <<assets, groups, playbooks>>
      PROVE  CatalogInv'
    BY <1>b, <1>0, <1>a, EndMoves, GroupMove DEF groups
<1>1. ASSUME NEW g \in Groups, delete_group(g) PROVE CatalogInv'
    <2> DEFINE r == [group[g] EXCEPT !.live = FALSE, !.members = {}]
    <2>1. /\ group[g].live /\ owner[g] = Nobody /\ AtOnce
          /\ group' = [group EXCEPT ![g] = r] /\ UNCHANGED <<assets, owner, playbooks>>
        BY <1>1, <1>0 DEF delete_group
    <2>2. /\ call' = call /\ CallsAre' /\ requests' \in Nat /\ requests <= requests'
        BY <2>1, <1>0, AtOnceMoves
    <2>3. r \in GroupRow /\ r.live = FALSE /\ r.asked = group[g].asked
        BY <1>0 DEF GroupRow
    <2> HIDE DEF r
    <2>4. /\ group' \in [Groups -> GroupRow] /\ group'[g] = r /\ owner' = owner /\ host' = host
          /\ \A k \in Groups : k # g => group'[k] = group[k]
        BY <2>1, <2>3, <1>0 DEF assets
    <2>5. ASSUME NEW t \in Calls PROVE GroupCall(t, call[t])'
        BY <2>1, <2>2, <2>3, <2>4, <1>0 DEF GroupInv, GroupCall, GroupOps
    <2>6. GroupInv'
        BY <2>2, <2>3, <2>4, <2>5, <1>0 DEF GroupInv, GroupWhole
    <2> QED
        BY <2>1, <2>2, <2>4, <2>6, <1>0, StayElsewhere, GroupOnly
<1>2. ASSUME NEW s \in Calls, NEW g \in Groups, NEW S \in SUBSET Hosts, create_group(s, g, S)
      PROVE  CatalogInv'
    <2>0. PICK a : a = [op |-> "add_group", n |-> fresh, group |-> g, members |-> S]
        OBVIOUS
    <2>1. /\ Begin(s, a) /\ ~group[g].live /\ UNCHANGED <<assets, groups, playbooks>>
          /\ \A t \in Calls : call[t] # Idle /\ call[t].op = "add_group" => call[t].group # g
        BY <1>2, <2>0 DEF create_group
    <2>2. a.n = fresh /\ a.op = "add_group" /\ a.op \in GroupOps /\ a.group = g
        BY <2>0 DEF GroupOps
    <2>3. GroupCall(s, a)'
        BY <2>0, <2>1 DEF GroupCall, groups
    <2>4. Moves(s, a) /\ CallsAre' /\ requests' \in Nat /\ requests <= requests'
        BY <2>1, <2>2, <1>0, BeginMoves
    <2>5. \A t \in Calls : t # s /\ call[t].op = "add_group" => call[t].group # a.group
        BY <2>1, <2>2, <1>a
    <2> QED
        BY <2>1, <2>2, <2>3, <2>4, <2>5, <1>0, GroupMove DEF groups
<1>3. ASSUME NEW s \in Calls, NEW g \in Groups, NEW S \in SUBSET Hosts, update_group(s, g, S)
      PROVE  CatalogInv'
    <2>0. PICK a : a = [op |-> "update_group", n |-> fresh, group |-> g, members |-> S]
        OBVIOUS
    <2>1. Begin(s, a) /\ UNCHANGED <<assets, groups, playbooks>>
        BY <1>3, <2>0 DEF update_group
    <2>2. a.n = fresh /\ a.op = "update_group" /\ a.op \in GroupOps
        BY <2>0 DEF GroupOps
    <2>3. GroupCall(s, a)'
        BY <2>0 DEF GroupCall
    <2>4. Moves(s, a) /\ CallsAre' /\ requests' \in Nat /\ requests <= requests'
        BY <2>1, <2>2, <1>0, BeginMoves
    <2> QED
        BY <2>1, <2>2, <2>3, <2>4, <1>0, GroupMove DEF groups
<1>4. ASSUME NEW s \in Calls, add_group(s) PROVE CatalogInv'
    <2> DEFINE g == call[s].group
               r == NewGroup(call[s].n, call[s].members)
    <2>1. /\ call[s].op = "add_group" /\ End(s) /\ UNCHANGED <<assets, owner, playbooks>>
        BY <1>4 DEF add_group
    <2>2. /\ g \in Groups /\ call[s].members \in SUBSET Hosts /\ call[s].n \in Nat
          /\ ~group[g].live
        BY <2>1, <1>0 DEF GroupInv, GroupCall, GroupOps, CallsAre
    <2>3. CASE group' = group
        BY <2>1, <2>3, <1>b DEF groups
    <2>4. CASE validate_host_ids(call[s].members) /\ group' = [group EXCEPT ![g] = r]
        <3>1. r \in GroupRow /\ r.asked = call[s].members /\ r.members = call[s].members
            BY <2>2 DEF NewGroup, GroupRow
        <3>2. \A t \in Calls : t # s /\ call[t].op = "add_group" => call[t].group # g
            BY <2>1, <1>0 DEF GroupInv
        <3>3. \A t \in Calls : call[t].op = "replace_group_members" => call[t].group # g
            BY <2>2, <1>0 DEF GroupInv, GroupCall, GroupOps
        <3>4. owner' = owner
            BY <2>1
        <3>5. /\ group' \in [Groups -> GroupRow] /\ group'[g].asked = group'[g].members
              /\ \A k \in Groups : k # g => group'[k] = group[k]
            BY <2>2, <2>4, <3>1, <1>0
        <3>6. validate_host_ids(group'[g].asked)
            BY <2>2, <2>4, <3>1, <1>0
        <3> HIDE DEF r, g
        <3> QED
            BY <2>1, <2>2, <3>2, <3>3, <3>4, <3>5, <3>6, <1>0, GroupCommit
    <2> QED
        BY <2>3, <2>4, <1>4 DEF add_group
<1>5. ASSUME NEW s \in Calls, write_group(s) PROVE CatalogInv'
    <2>0. PICK g, a :
            /\ g = call[s].group
            /\ a = [op |-> "replace_group_members", n |-> call[s].n,
                    group |-> g, members |-> call[s].members, gone |-> group[g].members]
        OBVIOUS
    <2>1. /\ call[s].op = "update_group" /\ owner[g] = Nobody
          /\ UNCHANGED <<assets, group, playbooks>>
        BY <1>5, <2>0 DEF write_group
    <2>2. /\ g \in Groups /\ call[s].members \in SUBSET Hosts /\ call[s].n \in 1..requests
        BY <2>0, <2>1, <1>0 DEF GroupInv, GroupCall, GroupOps, CallsAre
    <2>3. CASE owner' = owner /\ End(s)
        BY <2>1, <2>3, <1>b DEF groups
    <2>4. CASE group[g].live /\ owner' = [owner EXCEPT ![g] = s] /\ Goto(s, a)
        <3>1. /\ a.op = "replace_group_members" /\ a.op \in GroupOps /\ a.n \in 1..requests
            BY <2>0, <2>2 DEF GroupOps
        <3>2. /\ owner' \in [Groups -> Calls \union {Nobody}] /\ owner'[g] = s
              /\ \A k \in Groups : k # g => owner'[k] = owner[k]
            BY <2>2, <2>4, <1>0
        <3>3. GroupCall(s, a)'
            BY <2>0, <2>1, <2>2, <2>4, <3>2 DEF GroupCall
        <3>4. Moves(s, a) /\ CallsAre' /\ requests' = requests
            BY <2>4, <3>1, <1>0, GotoMoves
        <3> QED
            BY <2>1, <3>1, <3>2, <3>3, <3>4, <1>0, GroupMove
    <2> QED
        BY <2>0, <2>3, <2>4, <1>5 DEF write_group
<1>6. ASSUME NEW s \in Calls, replace_group_members(s) PROVE CatalogInv'
    <2> DEFINE g == call[s].group
               S == call[s].members
               r == [group[g] EXCEPT !.name = call[s].n, !.asked = S, !.members = S]
    <2>1. /\ call[s].op = "replace_group_members" /\ End(s) /\ UNCHANGED <<assets, playbooks>>
          /\ owner' = [owner EXCEPT ![g] = Nobody]
        BY <1>6 DEF replace_group_members
    <2>2. /\ g \in Groups /\ S \in SUBSET Hosts /\ call[s].n \in Nat
          /\ owner[g] = s /\ group[g].live /\ group[g].members \subseteq call[s].gone
        BY <2>1, <1>0 DEF GroupInv, GroupCall, GroupOps, CallsAre
    <2>3. \A t \in Calls : t # s /\ call[t].op = "replace_group_members" => call[t].group # g
        BY <2>2, <1>0 DEF GroupInv, GroupCall, GroupOps
    <2>4. \A t \in Calls : call[t].op = "add_group" => call[t].group # g
        BY <2>2, <1>0 DEF GroupInv, GroupCall, GroupOps
    <2>5. CASE group' = group
        <3>1. /\ owner' \in [Groups -> Calls \union {Nobody}]
              /\ \A k \in Groups : k # g => owner'[k] = owner[k]
            BY <2>1, <2>2, <1>0
        <3>2. Moves(s, Idle) /\ CallsAre' /\ requests' = requests
            BY <2>1, <1>0, EndMoves
        <3>3. \A Ops \in {CredentialOps, HostOps, PlaybookOps} : Elsewhere(Ops)
            BY <3>2, <1>0, <1>a, MoveElsewhere DEF CredentialOps, HostOps, PlaybookOps
        <3>4. host' = host
            BY <2>1 DEF assets
        <3>5. ASSUME NEW t \in Calls PROVE GroupCall(t, call[t])'
            BY <2>3, <2>4, <2>5, <3>1, <3>2, <1>0, <1>a DEF GroupInv, GroupCall, GroupOps, Moves
        <3>6. ASSUME NEW u \in Calls, NEW t \in Calls, call'[u].op = "add_group",
                     call'[t].op = "add_group", call'[u].group = call'[t].group
              PROVE  u = t
            BY <3>2, <3>6, <1>0, <1>a DEF GroupInv, Moves
        <3>7. GroupInv'
            BY <2>5, <3>4, <3>5, <3>6, <1>0 DEF GroupInv, GroupWhole
        <3> QED
            BY <2>1, <2>5, <3>1, <3>2, <3>3, <3>7, <1>0, GroupOnly
    <2>6. CASE /\ validate_host_ids(S)
               /\ group' = [group EXCEPT ![g].name = call[s].n,
                                         ![g].asked = S,
                                         ![g].members = (@ \ call[s].gone) \union S]
        <3>1. (group[g].members \ call[s].gone) \union S = S
            BY <2>2
        <3>2. group' = [group EXCEPT ![g] = r]
            <4>1. group[g] \in GroupRow
                BY <2>2, <1>0
            <4>2. [group[g] EXCEPT !.name = call[s].n, !.asked = S,
                                   !.members = (@ \ call[s].gone) \union S] = r
                BY <3>1, <4>1 DEF GroupRow
            <4> QED
                BY <2>2, <2>6, <4>2, <1>0
        <3>3. r \in GroupRow /\ r.asked = S /\ r.members = S
            <4>1. group[g] \in GroupRow
                BY <2>2, <1>0
            <4> QED
                BY <2>2, <4>1 DEF GroupRow
        <3>4. /\ owner' \in [Groups -> Calls \union {Nobody}]
              /\ \A k \in Groups : k # g => owner'[k] = owner[k]
            BY <2>1, <2>2, <1>0
        <3>5. /\ group' \in [Groups -> GroupRow] /\ group'[g].asked = group'[g].members
              /\ \A k \in Groups : k # g => group'[k] = group[k]
            BY <2>2, <3>2, <3>3, <1>0
        <3>6. validate_host_ids(group'[g].asked)
            BY <2>2, <2>6, <3>2, <3>3, <1>0
        <3> HIDE DEF r, g
        <3> QED
            BY <2>1, <2>2, <2>3, <2>4, <3>4, <3>5, <3>6, GroupCommit
    <2> QED
        BY <2>5, <2>6, <1>6 DEF replace_group_members
<1> QED
    BY <1>1, <1>2, <1>3, <1>4, <1>5, <1>6 DEF GroupStep
-----------------------------------------------------------------------------
(***************************************************************************)
(* Playbooks.                                                              *)
(***************************************************************************)

PlaybookRow == [live : BOOLEAN, version : Nat, name : Nat, current_revision : Nat]

\* No name of a playbook is put back, and no deleted one comes back.
PlaybookForward ==
  \A p \in Playbooks :
    /\ playbook'[p].name >= playbook[p].name
    /\ playbook[p].version > 0 /\ ~playbook[p].live => ~playbook'[p].live

\* What may come after a row: a new version of it.
PlaybookFollows(old, r) ==
  /\ r \in PlaybookRow
  /\ r.name >= old.name
  /\ r.version > old.version
  /\ old.version > 0 => (r.live => old.live)

LEMMA PlaybookOnly ==
  ASSUME CatalogInv, playbook' \in [Playbooks -> PlaybookRow], content' \in [Playbooks -> Seq(Nat)],
         PlaybookInv', CallsAre', UNCHANGED <<assets, groups>>,
         Elsewhere(CredentialOps), Elsewhere(HostOps), Elsewhere(GroupOps)
  PROVE  CatalogInv'
<1>1. requests' \in Nat /\ UNCHANGED <<credential, host, host_key, group, owner>>
    BY DEF Elsewhere, groups, assets
<1>2. TypeOK'
    BY <1>1 DEF CatalogInv, TypeOK, CallsAre, PlaybookRow
<1>3. CredentialInv' /\ HostInv' /\ GroupInv'
    BY <1>1, CredentialElsewhere, HostElsewhere, GroupElsewhere DEF CatalogInv
<1> QED
    BY <1>2, <1>3 DEF CatalogInv

\* A step that changes one row, and begins no call about playbooks.
LEMMA PlaybookChange ==
  ASSUME CatalogInv, NEW p \in Playbooks,
         playbook' \in [Playbooks -> PlaybookRow],
         \A q \in Playbooks : q # p => playbook'[q] = playbook[q],
         PlaybookFollows(playbook[p], playbook'[p]), playbook'[p].name <= requests',
         content' \in [Playbooks -> Seq(Nat)],
         CallsAre', UNCHANGED <<assets, groups>>,
         Elsewhere(CredentialOps), Elsewhere(HostOps), Elsewhere(GroupOps), Elsewhere(PlaybookOps)
  PROVE  CatalogInv' /\ PlaybookForward
<1>1. requests \in Nat /\ requests' \in Nat /\ requests <= requests'
    BY DEF Elsewhere
<1>2. \A q \in Playbooks :
        /\ playbook[q].name \in Nat /\ playbook[q].version \in Nat
        /\ playbook'[q].name \in Nat /\ playbook'[q].version \in Nat
    BY DEF CatalogInv, TypeOK, PlaybookRow
<1>3. ASSUME NEW t \in Calls PROVE PlaybookCall(call[t])'
    <2>1. CASE call'[t].op \notin PlaybookOps
        BY <2>1 DEF PlaybookCall
    <2>2. CASE call'[t] = call[t] /\ call[t].op \in PlaybookOps
        <3>1. PlaybookCall(call[t]) /\ call[t].playbook \in Playbooks
            BY <2>2 DEF CatalogInv, PlaybookInv, PlaybookCall
        <3>2. CASE call[t].playbook # p
            BY <2>2, <3>1, <3>2, <1>1, <1>2 DEF PlaybookCall
        <3>3. CASE call[t].playbook = p
            BY <2>2, <3>1, <3>3, <1>1, <1>2 DEF PlaybookCall, PlaybookFollows
        <3> QED
            BY <3>2, <3>3
    <2> QED
        BY <2>1, <2>2 DEF Elsewhere
<1>6. ASSUME NEW q \in Playbooks
      PROVE  playbook'[q].name <= requests' /\ (playbook'[q].live => playbook'[q].version > 0)
    <2>1. CASE q = p
        BY <2>1, <1>2 DEF PlaybookFollows
    <2>2. CASE q # p
        <3>1. /\ playbook[q].name <= requests
              /\ playbook[q].live => playbook[q].version > 0
            BY DEF CatalogInv, PlaybookInv
        <3> QED
            BY <2>2, <3>1, <1>1, <1>2
    <2> QED
        BY <2>1, <2>2
<1>4. PlaybookInv'
    BY <1>3, <1>6 DEF PlaybookInv
<1>5. PlaybookForward
    <2>1. ASSUME NEW q \in Playbooks
          PROVE  /\ playbook'[q].name >= playbook[q].name
                 /\ playbook[q].version > 0 /\ ~playbook[q].live => ~playbook'[q].live
        <3>1. CASE q = p
            BY <3>1, <1>2 DEF PlaybookFollows
        <3>2. CASE q # p
            <4>1. playbook'[q] = playbook[q] /\ playbook[q].name \in Nat
                BY <3>2, <1>2
            <4> QED
                BY <4>1
        <3> QED
            BY <3>1, <3>2
    <2> QED
        BY <2>1 DEF PlaybookForward
<1> QED
    BY <1>4, <1>5, PlaybookOnly

\* A step that only moves a call.
LEMMA PlaybookMove ==
  ASSUME CatalogInv, NEW s \in Calls, NEW a, Moves(s, a), CallsAre', PlaybookCall(a)',
         requests' \in Nat, requests <= requests',
         a = Idle \/ a.op \in PlaybookOps, UNCHANGED <<assets, groups, playbooks>>
  PROVE  CatalogInv' /\ PlaybookForward
<1>1. /\ UNCHANGED <<assets, groups, playbook, content>> /\ requests \in Nat
      /\ playbook \in [Playbooks -> PlaybookRow] /\ content \in [Playbooks -> Seq(Nat)]
    BY DEF CatalogInv, TypeOK, playbooks, PlaybookRow
<1>2. a.op \notin CredentialOps \union HostOps \union GroupOps
    BY DEF Idle, CredentialOps, HostOps, GroupOps, PlaybookOps
<1>3. Elsewhere(CredentialOps) /\ Elsewhere(HostOps) /\ Elsewhere(GroupOps)
    BY <1>1, <1>2, MoveElsewhere
<1>4. \A p \in Playbooks : playbook[p].name \in Nat
    BY <1>1 DEF PlaybookRow
<1>5. ASSUME NEW t \in Calls PROVE PlaybookCall(call[t])'
    <2>1. CASE t = s
        <3>1. call'[t] = a
            BY <2>1 DEF Moves
        <3> QED
            BY <2>1, <3>1 DEF PlaybookCall
    <2>2. CASE t # s
        <3>1. PlaybookCall(call[t]) /\ call'[t] = call[t]
            BY <2>2 DEF CatalogInv, PlaybookInv, Moves
        <3> QED
            BY <3>1, <1>1 DEF PlaybookCall
    <2> QED
        BY <2>1, <2>2
<1>6. PlaybookInv'
    BY <1>1, <1>4, <1>5 DEF CatalogInv, PlaybookInv
<1>7. PlaybookForward
    BY <1>1, <1>4 DEF PlaybookForward
<1> QED
    BY <1>1, <1>3, <1>6, <1>7, PlaybookOnly

LEMMA PlaybookKept ==
  ASSUME CatalogInv, PlaybookStep
  PROVE  CatalogInv' /\ PlaybookForward
<1> DEFINE Goal == CatalogInv' /\ PlaybookForward
<1>0. /\ requests \in Nat /\ fresh = requests + 1 /\ fresh \in Nat /\ CallsAre /\ PlaybookInv
      /\ playbook \in [Playbooks -> PlaybookRow] /\ content \in [Playbooks -> Seq(Nat)]
    BY DEF CatalogInv, TypeOK, PlaybookRow, fresh
<1>a. \A p \in Playbooks :
        /\ playbook[p] \in PlaybookRow
        /\ playbook[p].version \in Nat /\ playbook[p].current_revision \in Nat
        /\ playbook[p].name \in Nat /\ playbook[p].name <= requests
        /\ playbook[p].live => playbook[p].version > 0
    BY <1>0 DEF PlaybookRow, PlaybookInv
<1>b. Idle.op = "idle" /\ PlaybookCall(Idle)'
    BY DEF PlaybookCall, PlaybookOps, Idle
<1>c. ASSUME NEW s \in Calls, End(s), UNCHANGED <<assets, groups, playbooks>> PROVE Goal
    BY <1>c, <1>0, <1>b, EndMoves, PlaybookMove
<1>1. ASSUME NEW p \in Playbooks, create_database(p) PROVE Goal
    <2>1. /\ playbook[p].version = 0 /\ AtOnce /\ UNCHANGED <<assets, groups>>
          /\ playbook' = [playbook EXCEPT ![p] = NewPlaybook(fresh)]
          /\ content' = [content EXCEPT ![p] = Append(@, fresh)]
        BY <1>1 DEF create_database, add, insert_revision
    <2>2. /\ call' = call /\ CallsAre' /\ requests' = requests + 1
          /\ requests' \in Nat /\ requests <= requests'
        BY <2>1, <1>0, AtOnceMoves
    <2>3. NewPlaybook(fresh) \in PlaybookRow /\ NewPlaybook(fresh).name = fresh
            /\ NewPlaybook(fresh).version = 1
        BY <1>0 DEF NewPlaybook, PlaybookRow
    <2>4. /\ playbook' \in [Playbooks -> PlaybookRow] /\ playbook'[p] = NewPlaybook(fresh)
          /\ \A q \in Playbooks : q # p => playbook'[q] = playbook[q]
        BY <2>1, <2>3, <1>0
    <2>5. PlaybookFollows(playbook[p], playbook'[p]) /\ playbook'[p].name <= requests'
        BY <2>1, <2>2, <2>3, <2>4, <1>a, <1>0 DEF PlaybookFollows
    <2>6. content' \in [Playbooks -> Seq(Nat)]
        BY <2>1, <1>0
    <2> QED
        BY <2>1, <2>2, <2>4, <2>5, <2>6, <1>0, StayElsewhere, PlaybookChange
<1>2. ASSUME NEW p \in Playbooks, delete_database(p) PROVE Goal
    <2>1. /\ playbook[p].live /\ AtOnce /\ UNCHANGED <<assets, groups, content>>
          /\ playbook' = [playbook EXCEPT ![p].live = FALSE, ![p].version = @ + 1]
        BY <1>2 DEF delete_database, soft_delete
    <2>2. /\ call' = call /\ CallsAre' /\ requests' = requests + 1
          /\ requests' \in Nat /\ requests <= requests'
        BY <2>1, <1>0, AtOnceMoves
    <2>3. PICK v \in Nat : v = playbook[p].version + 1
        BY <1>a
    <2>4. /\ playbook' \in [Playbooks -> PlaybookRow] /\ playbook'[p].version = v
          /\ playbook'[p].name = playbook[p].name /\ playbook'[p].live = FALSE
          /\ \A q \in Playbooks : q # p => playbook'[q] = playbook[q]
        BY <2>1, <2>3, <1>0 DEF PlaybookRow
    <2>5. PlaybookFollows(playbook[p], playbook'[p]) /\ playbook'[p].name <= requests'
        BY <2>2, <2>3, <2>4, <1>a, <1>0 DEF PlaybookFollows
    <2> QED
        BY <2>1, <2>2, <2>4, <2>5, <1>0, StayElsewhere, PlaybookChange
<1>3. ASSUME NEW s \in Calls, NEW p \in Playbooks, update_database(s, p) PROVE Goal
    <2>0. PICK a : a = [op |-> "validate", n |-> fresh, playbook |-> p, name |-> fresh,
                        content |-> fresh, expected |-> playbook[p].version]
        OBVIOUS
    <2>1. Begin(s, a) /\ playbook[p].live /\ UNCHANGED <<assets, groups, playbooks>>
        BY <1>3, <2>0 DEF update_database
    <2>2. a.n = fresh /\ a.op = "validate" /\ a.op \in PlaybookOps
        BY <2>0 DEF PlaybookOps
    <2>3. /\ Moves(s, a) /\ CallsAre' /\ requests' = requests + 1
          /\ requests' \in Nat /\ requests <= requests'
        BY <2>1, <2>2, <1>0, BeginMoves
    <2>4. PlaybookCall(a)'
        BY <2>0, <2>1, <2>3, <1>0, <1>a DEF PlaybookCall, playbooks
    <2> QED
        BY <2>1, <2>2, <2>3, <2>4, PlaybookMove
<1>4. ASSUME NEW s \in Calls, NEW p \in Playbooks, NEW r, restore_revision(s, p, r) PROVE Goal
    <2>0. PICK a : a = [op |-> "restore", n |-> fresh, playbook |-> p,
                        content |-> get_revision(p, r), expected |-> playbook[p].version]
        OBVIOUS
    <2>1. /\ Begin(s, a) /\ playbook[p].live /\ r \in DOMAIN content[p]
          /\ UNCHANGED <<assets, groups, playbooks>>
        BY <1>4, <2>0 DEF restore_revision
    <2>2. a.n = fresh /\ a.op = "restore" /\ a.op \in PlaybookOps
        BY <2>0 DEF PlaybookOps
    <2>3. Moves(s, a) /\ CallsAre' /\ requests' \in Nat /\ requests <= requests'
        BY <2>1, <2>2, <1>0, BeginMoves
    <2>4. get_revision(p, r) \in Nat
        BY <2>1, <1>0 DEF get_revision
    <2>5. PlaybookCall(a)'
        BY <2>0, <2>1, <2>4, <1>0, <1>a DEF PlaybookCall, playbooks
    <2> QED
        BY <2>1, <2>2, <2>3, <2>5, PlaybookMove
<1>5. ASSUME NEW s \in Calls, get_database(s) PROVE Goal
    <2>0. PICK p, a :
            /\ p = call[s].playbook
            /\ a = [op |-> "validate", n |-> call[s].n, playbook |-> p,
                    name |-> playbook[p].name, content |-> call[s].content,
                    expected |-> call[s].expected]
        OBVIOUS
    <2>1. /\ call[s].op = "restore" /\ UNCHANGED <<assets, groups, playbooks>>
          /\ Goto(s, a) \/ End(s)
        BY <1>5, <2>0 DEF get_database
    <2>2. /\ p \in Playbooks /\ call[s].n \in 1..requests /\ call[s].content \in Nat
          /\ call[s].expected \in 1..playbook[p].version
        BY <2>0, <2>1, <1>0 DEF PlaybookInv, PlaybookCall, PlaybookOps, CallsAre
    <2>3. CASE Goto(s, a)
        <3>1. a.op = "validate" /\ a.op \in PlaybookOps /\ a.n \in 1..requests
            BY <2>0, <2>2 DEF PlaybookOps
        <3>2. Moves(s, a) /\ CallsAre' /\ requests' = requests
            BY <2>3, <3>1, <1>0, GotoMoves
        <3>3. PlaybookCall(a)'
            BY <2>0, <2>1, <2>2, <3>2, <1>0, <1>a DEF PlaybookCall, playbooks
        <3> QED
            BY <2>1, <3>1, <3>2, <3>3, <1>0, PlaybookMove
    <2>4. CASE End(s)
        BY <2>1, <2>4, <1>c
    <2> QED
        BY <2>1, <2>3, <2>4
<1>6. ASSUME NEW s \in Calls, validate_for_save(s) PROVE Goal
    <2>0. PICK a : a = [call[s] EXCEPT !.op = "save"]
        OBVIOUS
    <2>1. /\ call[s].op = "validate" /\ UNCHANGED <<assets, groups, playbooks>>
          /\ Goto(s, a) \/ End(s)
        BY <1>6, <2>0 DEF validate_for_save
    <2>2. call[s].n \in 1..requests /\ PlaybookCall(call[s])
        BY <2>1, <1>0 DEF PlaybookInv, CallsAre
    <2>3. CASE Goto(s, a)
        <3>1. /\ a.op = "save" /\ a.n = call[s].n /\ a.playbook = call[s].playbook
              /\ a.content = call[s].content /\ a.expected = call[s].expected
              /\ a.name = call[s].name
            BY <2>0, <2>2
        <3>2. a.op \in PlaybookOps /\ a.n \in 1..requests
            BY <2>2, <3>1 DEF PlaybookOps
        <3>3. Moves(s, a) /\ CallsAre' /\ requests' = requests
            BY <2>3, <3>2, <1>0, GotoMoves
        <3>4. PlaybookCall(a)'
            BY <2>1, <2>2, <3>1, <3>3 DEF PlaybookCall, PlaybookOps, playbooks
        <3> QED
            BY <2>1, <3>2, <3>3, <3>4, <1>0, PlaybookMove
    <2>4. CASE End(s)
        BY <2>1, <2>4, <1>c
    <2> QED
        BY <2>1, <2>3, <2>4
<1>7. ASSUME NEW s \in Calls, save(s) PROVE Goal
    <2> DEFINE p == call[s].playbook
    <2>1. /\ call[s].op = "save" /\ End(s) /\ UNCHANGED <<assets, groups>>
          /\ \/ UNCHANGED playbooks
             \/ /\ playbook[p].live /\ playbook[p].version = call[s].expected
                /\ update(p, call[s].name, call[s].content)
        BY <1>7 DEF save
    <2>2. /\ p \in Playbooks /\ call[s].content \in Nat /\ call[s].name \in Nat
          /\ call[s].name <= requests
          /\ playbook[p].version = call[s].expected => playbook[p].name <= call[s].name
        BY <2>1, <1>0 DEF PlaybookInv, PlaybookCall, PlaybookOps
    <2>3. CASE UNCHANGED playbooks
        BY <2>1, <2>3, <1>c
    <2>4. CASE /\ playbook[p].live /\ playbook[p].version = call[s].expected
               /\ update(p, call[s].name, call[s].content)
        <3>1. PICK m \in Nat, v \in Nat, k \in Nat :
                m = call[s].name /\ v = playbook[p].version + 1
                  /\ k = playbook[p].current_revision + 1
            BY <2>2, <1>a
        <3>2. playbook' = [playbook EXCEPT ![p].name = m, ![p].version = v,
                                           ![p].current_revision = k]
            BY <2>4, <3>1 DEF update
        <3>3. content' \in [Playbooks -> Seq(Nat)]
            <4>1. PICK q \in Seq(Nat), x \in Nat : q = content[p] /\ x = call[s].content
                BY <2>2, <1>0
            <4>2. Append(q, x) \in Seq(Nat)
                OBVIOUS
            <4>3. content' = [content EXCEPT ![p] = Append(q, x)]
                BY <2>4, <4>1 DEF update, insert_revision
            <4> QED
                BY <2>2, <4>2, <4>3, <1>0
        <3>4. /\ playbook' \in [Playbooks -> PlaybookRow] /\ playbook'[p].version = v
              /\ playbook'[p].name = m /\ playbook'[p].live = playbook[p].live
              /\ \A q \in Playbooks : q # p => playbook'[q] = playbook[q]
            <4>1. playbook[p] \in PlaybookRow
                BY <2>2, <1>0
            <4>2. PICK o \in PlaybookRow : o = [playbook[p] EXCEPT !.name = m, !.version = v,
                                                               !.current_revision = k]
                BY <4>1 DEF PlaybookRow
            <4>3. o.version = v /\ o.name = m /\ o.live = playbook[p].live
                BY <4>1, <4>2 DEF PlaybookRow
            <4>4. playbook' = [playbook EXCEPT ![p] = o]
                BY <2>2, <3>2, <4>1, <4>2, <1>0 DEF PlaybookRow
            <4> QED
                BY <2>2, <4>3, <4>4, <1>0
        <3>5. Moves(s, Idle) /\ CallsAre' /\ requests' = requests
            BY <2>1, <1>0, EndMoves
        <3>6. \A Ops \in {CredentialOps, HostOps, GroupOps, PlaybookOps} : Elsewhere(Ops)
            <4>1. \A Ops \in {CredentialOps, HostOps, GroupOps, PlaybookOps} : Idle.op \notin Ops
                BY <1>b DEF CredentialOps, HostOps, GroupOps, PlaybookOps
            <4>2. requests' \in Nat /\ requests <= requests'
                BY <3>5, <1>0
            <4> QED
                BY <3>5, <4>1, <4>2, <1>0, MoveElsewhere
        <3>7. PlaybookFollows(playbook[p], playbook'[p]) /\ playbook'[p].name <= requests'
            BY <2>2, <2>4, <3>1, <3>4, <3>5, <1>a, <1>0 DEF PlaybookFollows
        <3> HIDE DEF p
        <3> QED
            BY <2>1, <2>2, <3>3, <3>4, <3>5, <3>6, <3>7, PlaybookChange
    <2> QED
        BY <2>1, <2>3, <2>4
<1> QED
    BY <1>1, <1>2, <1>3, <1>4, <1>5, <1>6, <1>7 DEF PlaybookStep
-----------------------------------------------------------------------------
(***************************************************************************)
(* The theorems.                                                           *)
(***************************************************************************)

\* The rows of the start satisfy the invariant.
LEMMA CatalogInit ==
  ASSUME Init
  PROVE  CatalogInv
<1>1. FirstCredential \in Credentials
    BY CatalogAssumption DEF FirstCredential
<1>3. \A s \in Calls : call[s] = Idle /\ call[s].op = "idle"
    BY DEF Init, Idle
<1>4. CallsAre
    BY <1>3 DEF Init, CallsAre
<1>5. CredentialInv /\ credential \in [Credentials -> CredentialRow]
    <2>2. ASSUME NEW c \in Credentials
          PROVE  /\ credential[c] \in CredentialRow /\ credential[c].name = 0
                 /\ credential[c].about = credential[c].current_version
                 /\ credential[c].live => credential[c].lock_version = 1
        <3>1. CASE c \in Existing
            <4>1. credential[c] = NewCredential(0)
                BY <3>1 DEF Init
            <4> QED
                BY <4>1 DEF NewCredential, CredentialRow, public_config
        <3>2. CASE c \notin Existing
            <4>1. credential[c] = [NewCredential(0) EXCEPT !.live = FALSE, !.lock_version = 0]
                BY <3>2 DEF Init
            <4> DEFINE r == NewCredential(0)
            <4>2. r \in CredentialRow /\ r.name = 0 /\ r.about = r.current_version
                BY DEF NewCredential, CredentialRow, public_config
            <4> HIDE DEF r
            <4>3. credential[c] = [r EXCEPT !.live = FALSE, !.lock_version = 0]
                BY <4>1 DEF r
            <4> QED
                BY <4>2, <4>3 DEF CredentialRow
        <3> QED
            BY <3>1, <3>2
    <2>3. credential \in [Credentials -> CredentialRow]
        BY <2>2 DEF Init
    <2>4. requests = 0
        BY DEF Init
    <2>5. \A s \in Calls : CredentialCall(call[s])
        BY <1>3 DEF CredentialCall, CredentialOps
    <2> QED
        BY <2>2, <2>3, <2>4, <2>5 DEF CredentialInv, MetadataMatches
<1>6. HostInv /\ host \in [Hosts -> HostRow] /\ host_key \in [Hosts -> Nat]
    <2>1. PICK c \in Credentials : c = FirstCredential
        BY <1>1
    <2>3. ASSUME NEW h \in Hosts
          PROVE  /\ host[h] \in HostRow /\ host[h].name = 0 /\ host[h].address = 0
                 /\ host[h].live => host[h].version = 1
        <3>1. CASE h \in Existing
            <4>1. host[h] = NewHost(0, c)
                BY <2>1, <3>1 DEF Init
            <4> QED
                BY <4>1 DEF NewHost, HostRow
        <3>2. CASE h \notin Existing
            <4>1. host[h] = [NewHost(0, c) EXCEPT !.live = FALSE, !.version = 0]
                BY <2>1, <3>2 DEF Init
            <4> DEFINE r == NewHost(0, c)
            <4>2. r \in HostRow /\ r.name = 0 /\ r.address = 0
                BY DEF NewHost, HostRow
            <4> HIDE DEF r
            <4>3. host[h] = [r EXCEPT !.live = FALSE, !.version = 0]
                BY <4>1 DEF r
            <4> QED
                BY <4>2, <4>3 DEF HostRow
        <3> QED
            BY <3>1, <3>2
    <2>4. host \in [Hosts -> HostRow] /\ host_key \in [Hosts -> Nat] /\ requests = 0
        BY <2>3 DEF Init
    <2>5. \A s \in Calls : HostCall(call[s]) /\ call[s].op # "add_host"
        BY <1>3 DEF HostCall, HostOps
    <2> QED
        BY <2>3, <2>4, <2>5 DEF HostInv
<1>7. /\ group \in [Groups -> GroupRow] /\ owner \in [Groups -> Calls \union {Nobody}]
      /\ \A g \in Groups : group[g].asked = {} /\ group[g].members = {}
    <2>1. ASSUME NEW g \in Groups
          PROVE  group[g] \in GroupRow /\ group[g].asked = {} /\ group[g].members = {}
        <3>1. group[g] = [NewGroup(0, {}) EXCEPT !.live = (g \in Existing)]
            BY DEF Init
        <3> DEFINE r == NewGroup(0, {})
        <3>2. r \in GroupRow /\ r.asked = {} /\ r.members = {}
            BY DEF NewGroup, GroupRow
        <3> HIDE DEF r
        <3>3. CASE g \in Existing
            <4>1. group[g] = [r EXCEPT !.live = TRUE]
                BY <3>1, <3>3 DEF r
            <4> QED
                BY <3>2, <4>1 DEF GroupRow
        <3>4. CASE g \notin Existing
            <4>2. (g \in Existing) = FALSE
                BY <3>4
            <4>1. group[g] = [r EXCEPT !.live = FALSE]
                BY <3>1, <4>2 DEF r
            <4> QED
                BY <3>2, <4>1 DEF GroupRow
        <3> QED
            BY <3>3, <3>4
    <2> QED
        BY <2>1 DEF Init
<1>8. GroupInv
    BY <1>3, <1>7 DEF GroupInv, GroupCall, GroupOps, GroupWhole
<1>9. PlaybookInv /\ playbook \in [Playbooks -> PlaybookRow]
    <2>2. ASSUME NEW p \in Playbooks
          PROVE  /\ playbook[p] \in PlaybookRow /\ playbook[p].name = 0
                 /\ playbook[p].live => playbook[p].version = 1
        <3>1. CASE p \in Existing
            <4>1. playbook[p] = NewPlaybook(0)
                BY <3>1 DEF Init
            <4> QED
                BY <4>1 DEF NewPlaybook, PlaybookRow
        <3>2. CASE p \notin Existing
            <4>1. playbook[p] = [NewPlaybook(0) EXCEPT !.live = FALSE, !.version = 0]
                BY <3>2 DEF Init
            <4> DEFINE r == NewPlaybook(0)
            <4>2. r \in PlaybookRow /\ r.name = 0
                BY DEF NewPlaybook, PlaybookRow
            <4> HIDE DEF r
            <4>3. playbook[p] = [r EXCEPT !.live = FALSE, !.version = 0]
                BY <4>1 DEF r
            <4> QED
                BY <4>2, <4>3 DEF PlaybookRow
        <3> QED
            BY <3>1, <3>2
    <2>3. playbook \in [Playbooks -> PlaybookRow] /\ requests = 0
        BY <2>2 DEF Init
    <2>4. \A s \in Calls : PlaybookCall(call[s])
        BY <1>3 DEF PlaybookCall, PlaybookOps
    <2> QED
        BY <2>2, <2>3, <2>4 DEF PlaybookInv
<1>10. content \in [Playbooks -> Seq(Nat)]
    BY DEF Init
<1>11. TypeOK
    BY <1>3, <1>5, <1>6, <1>7, <1>9, <1>10
       DEF TypeOK, Init, CredentialRow, HostRow, GroupRow, PlaybookRow
<1> QED
    BY <1>4, <1>5, <1>6, <1>8, <1>9, <1>11 DEF CatalogInv

\* Every step keeps the invariant, and takes no table back.
LEMMA CatalogStep ==
  ASSUME CatalogInv, [Next]_vars
  PROVE  CatalogInv' /\ CredentialForward /\ HostForward /\ PlaybookForward
<1>1. /\ \A c \in Credentials : credential[c].name \in Nat
      /\ \A h \in Hosts : host[h].name \in Nat /\ host[h].address \in Nat
      /\ \A p \in Playbooks : playbook[p].name \in Nat
    BY DEF CatalogInv, TypeOK
<1>2. /\ credential' = credential => CredentialForward
      /\ host' = host => HostForward
      /\ playbook' = playbook => PlaybookForward
    BY <1>1 DEF CredentialForward, HostForward, PlaybookForward
<1>3. CASE CredentialStep
    <2>1. host' = host /\ playbook' = playbook
        BY <1>3 DEF CredentialStep, create_credential, rotate, delete_credential,
                    update_credential, read_credential, write_credential, assets, playbooks
    <2> QED
        BY <2>1, <1>2, <1>3, CredentialKept
<1>4. CASE HostStep
    <2>1. credential' = credential /\ playbook' = playbook
        BY <1>4 DEF HostStep, delete_host, create_host, update_host, confirm_host_key, add_host,
                    read_host, write_host, upsert_host_key, assets, playbooks
    <2> QED
        BY <2>1, <1>2, <1>4, HostKept
<1>5. CASE GroupStep
    <2>1. credential' = credential /\ host' = host /\ playbook' = playbook
        BY <1>5 DEF GroupStep, delete_group, create_group, update_group, add_group,
                    write_group, replace_group_members, assets, playbooks
    <2> QED
        BY <2>1, <1>2, <1>5, GroupKept
<1>6. CASE PlaybookStep
    <2>1. credential' = credential /\ host' = host
        BY <1>6 DEF PlaybookStep, create_database, delete_database, update_database,
                    restore_revision, get_database, validate_for_save, save, assets
    <2> QED
        BY <2>1, <1>2, <1>6, PlaybookKept
<1>7. CASE UNCHANGED vars
    <2>1. /\ UNCHANGED <<credential, host, host_key, group, owner, playbook, content, call, requests>>
          /\ UNCHANGED <<assets, groups, playbooks>>
        BY <1>7 DEF vars, assets, groups, playbooks
    <2>2. CallsAre' /\ requests \in Nat /\ requests' \in Nat /\ requests <= requests'
        BY <2>1 DEF CatalogInv, TypeOK, CallsAre
    <2>3. playbook' \in [Playbooks -> PlaybookRow] /\ content' \in [Playbooks -> Seq(Nat)]
        BY <2>1 DEF CatalogInv, TypeOK, PlaybookRow
    <2>4. PlaybookInv'
        BY <2>1, <2>2, StayElsewhere, PlaybookElsewhere DEF CatalogInv
    <2> QED
        BY <2>1, <2>2, <2>3, <2>4, <1>2, StayElsewhere, PlaybookOnly
<1> QED
    BY <1>3, <1>4, <1>5, <1>6, <1>7 DEF Next

\* Every reachable state satisfies the invariant.
THEOREM CatalogKept == Spec => []CatalogInv
<1>1. Init => CatalogInv
    BY CatalogInit
<1>2. CatalogInv /\ [Next]_vars => CatalogInv'
    BY CatalogStep
<1> QED
    BY <1>1, <1>2, PTL DEF Spec

\* The public metadata of a credential always describe the secret of its current
\* version (CredentialService.update writes back a public_config that it read without a
\* lock, and _rotate may have replaced the secret since).
THEOREM MetadataCurrent == Spec => []MetadataMatches
<1>1. CatalogInv => MetadataMatches
    BY DEF CatalogInv, CredentialInv
<1> QED
    BY <1>1, CatalogKept, PTL

\* A group has the members of one request, less the hosts deleted since, however many
\* requests replace its members at a time (update_group keeps the lock of its row from
\* the update to the commit).
THEOREM GroupsWhole == Spec => []GroupWhole
<1>1. CatalogInv => GroupWhole
    BY DEF CatalogInv, GroupInv
<1> QED
    BY <1>1, CatalogKept, PTL

\* No step puts an older choice back into a host, a credential or a playbook, or brings a
\* deleted credential or playbook back (the version columns of the three tables).
THEOREM NothingReverted == Spec => NeverReverted
<1> DEFINE Forward == CredentialForward /\ HostForward /\ PlaybookForward
<1>1. CatalogInv /\ [Next]_vars => [Forward]_vars
    BY CatalogStep
<1>2. [Forward]_vars =>
        [/\ \A h \in Hosts :
              /\ host'[h].name >= host[h].name
              /\ host'[h].address >= host[h].address
         /\ \A c \in Credentials :
              /\ credential'[c].name >= credential[c].name
              /\ credential[c].lock_version > 0 /\ ~credential[c].live => ~credential'[c].live
         /\ \A p \in Playbooks :
              /\ playbook'[p].name >= playbook[p].name
              /\ playbook[p].version > 0 /\ ~playbook[p].live => ~playbook'[p].live]_vars
    BY DEF CredentialForward, HostForward, PlaybookForward
<1> HIDE DEF Forward
<1> QED
    BY <1>1, <1>2, CatalogKept, PTL DEF Spec, NeverReverted
=============================================================================
