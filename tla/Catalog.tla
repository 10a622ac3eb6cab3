------------------------------ MODULE Catalog -------------------------------
(***************************************************************************)
(* The catalogue that runs are made from: credentials, hosts, their keys,  *)
(* groups, and database playbooks with their revisions, as the API's       *)
(* requests change them.                                                   *)
(*                                                                         *)
(* A request is numbered when its client reads the version it will send;   *)
(* a field holds the number of the request that chose its value.  What one *)
(* transaction does to a row that it locked first is one step.             *)
(***************************************************************************)
EXTENDS Naturals, Sequences

CONSTANTS
  Credentials, Hosts, Groups, Playbooks,
  Existing,     \* the rows of these that are there at the start
  Calls,        \* requests in progress at a time
  MaxRequests   \* bound on requests

Rows   == Credentials \union Hosts \union Groups \union Playbooks
Nobody == "nobody"

ASSUME CatalogAssumption ==
  /\ Existing \subseteq Rows
  /\ Existing \intersect Credentials # {}
  /\ Nobody \notin Calls
  /\ MaxRequests \in Nat

VARIABLES
  credential,  \* credentials; about: the revision public_config describes
  host,        \* hosts
  host_key,    \* host_keys: the address whose key is trusted for a host
  group,       \* host_groups and host_group_members; asked: the members that
               \* the request whose name it has asked for
  owner,       \* the call that holds the lock of a host_groups row
  playbook,    \* playbooks
  content,     \* playbook_revisions
  call,        \* what each request is about and where it is
  requests     \* requests so far

assets    == <<credential, host, host_key>>
groups    == <<group, owner>>
playbooks == <<playbook, content>>
vars      == <<assets, groups, playbooks, call, requests>>

Idle == [op |-> "idle"]

\* A row that was never inserted has version 0; a deleted one has a version.
FirstCredential == CHOOSE c \in Credentials : c \in Existing
\* _common_public_config, _private_key_metadata: derived from the secret of a version.
public_config(version) == version
NewCredential(n) ==
  [live |-> TRUE, enabled |-> TRUE, lock_version |-> 1, name |-> n,
   current_version |-> 1, about |-> public_config(1)]
NewHost(n, c) ==
  [live |-> TRUE, version |-> 1, name |-> n, address |-> n, credential |-> c]
NewGroup(n, S) == [live |-> TRUE, name |-> n, asked |-> S, members |-> S]
NewPlaybook(n) == [live |-> TRUE, version |-> 1, name |-> n, current_revision |-> 1]

TypeOK ==
  /\ credential \in [Credentials ->
       [live : BOOLEAN, enabled : BOOLEAN, lock_version : Nat, name : Nat,
        current_version : Nat, about : Nat]]
  /\ host \in [Hosts ->
       [live : BOOLEAN, version : Nat, name : Nat, address : Nat, credential : Credentials]]
  /\ host_key \in [Hosts -> Nat]
  /\ group \in [Groups ->
       [live : BOOLEAN, name : Nat, asked : SUBSET Hosts, members : SUBSET Hosts]]
  /\ owner \in [Groups -> Calls \union {Nobody}]
  /\ playbook \in [Playbooks ->
       [live : BOOLEAN, version : Nat, name : Nat, current_revision : Nat]]
  /\ content \in [Playbooks -> Seq(Nat)]
  /\ \A c \in Calls : call[c] = Idle \/ call[c].n \in 1..requests
  /\ requests \in Nat

Init ==
  /\ credential = [c \in Credentials |->
       IF c \in Existing THEN NewCredential(0)
       ELSE [NewCredential(0) EXCEPT !.live = FALSE, !.lock_version = 0]]
  /\ host = [h \in Hosts |->
       IF h \in Existing THEN NewHost(0, FirstCredential)
       ELSE [NewHost(0, FirstCredential) EXCEPT !.live = FALSE, !.version = 0]]
  /\ host_key = [h \in Hosts |-> 0]
  /\ group = [g \in Groups |-> [NewGroup(0, {}) EXCEPT !.live = g \in Existing]]
  /\ owner = [g \in Groups |-> Nobody]
  /\ playbook = [p \in Playbooks |->
       IF p \in Existing THEN NewPlaybook(0)
       ELSE [NewPlaybook(0) EXCEPT !.live = FALSE, !.version = 0]]
  /\ content = [p \in Playbooks |-> IF p \in Existing THEN <<0>> ELSE <<>>]
  /\ call = [c \in Calls |-> Idle]
  /\ requests = 0

-----------------------------------------------------------------------------
(***************************************************************************)
(* Requests.                                                               *)
(***************************************************************************)

\* The number of the next request.
fresh == requests + 1

Request == requests < MaxRequests /\ requests' = fresh

Begin(c, a) ==
  /\ call[c] = Idle
  /\ Request
  /\ call' = [call EXCEPT ![c] = a]

Goto(c, a) ==
  /\ call' = [call EXCEPT ![c] = a]
  /\ UNCHANGED requests

End(c) == Goto(c, Idle)

\* A request that is one transaction on one row, locked or in one statement.
AtOnce == Request /\ UNCHANGED call

-----------------------------------------------------------------------------
(***************************************************************************)
(* Credentials.                                                            *)
(***************************************************************************)

get_credential(c) == credential[c].live

\* CredentialService.create and create_ssh_private_key.
create_credential(c) ==
  /\ credential[c].lock_version = 0
  /\ AtOnce
  /\ credential' = [credential EXCEPT ![c] = NewCredential(fresh)]
  /\ UNCHANGED <<host, host_key, groups, playbooks>>

\* The new revision and the version of the row.
rotate_credential(r) ==
  [r EXCEPT !.current_version = @ + 1, !.lock_version = @ + 1]

\* Mutant: the version of the row is not compared.
update_metadata_anyway(c, r, expected) ==
  IF credential[c].live
    THEN credential' = [credential EXCEPT ![c].name = r.name, ![c].enabled = r.enabled,
                                          ![c].about = r.about, ![c].lock_version = @ + 1]
    ELSE UNCHANGED credential

\* The metadata, whatever they were computed from, if the row still has the
\* expected version.
update_credential_metadata(c, r, expected) ==
  IF credential[c].live /\ credential[c].lock_version = expected
    THEN credential' = [credential EXCEPT ![c].name = r.name, ![c].enabled = r.enabled,
                                          ![c].about = r.about, ![c].lock_version = @ + 1]
    ELSE UNCHANGED credential

\* CredentialService._rotate: the row stays locked from the read to the end,
\* and the metadata of the new secret are written on what rotate_credential
\* returned.
rotate(c) ==
  /\ get_credential(c)
  /\ AtOnce
  /\ LET rotated == rotate_credential(credential[c]) IN
       credential' = [credential EXCEPT ![c] =
         [rotated EXCEPT !.about = public_config(rotated.current_version),
                         !.lock_version = @ + 1]]
  /\ UNCHANGED <<host, host_key, groups, playbooks>>

\* CredentialService.update: the row is read without a lock, its
\* public_config merged, and the result written if the version still is the
\* client's.
update_credential(s, c, enabled) ==
  /\ get_credential(c)
  /\ Begin(s, [op |-> "update_credential", n |-> fresh, credential |-> c,
               enabled |-> enabled, expected |-> credential[c].lock_version])
  /\ UNCHANGED <<assets, groups, playbooks>>

read_credential(s) ==
  /\ call[s].op = "update_credential"
  /\ LET c == call[s].credential IN
       IF get_credential(c)
         THEN Goto(s, [op |-> "write_credential", n |-> call[s].n, credential |-> c,
                       expected |-> call[s].expected,
                       candidate |-> [credential[c] EXCEPT !.name = call[s].n,
                                                           !.enabled = call[s].enabled]])
         ELSE End(s)
  /\ UNCHANGED <<assets, groups, playbooks>>

write_credential(s) ==
  /\ call[s].op = "write_credential"
  /\ update_credential_metadata(call[s].credential, call[s].candidate, call[s].expected)
  /\ End(s)
  /\ UNCHANGED <<host, host_key, groups, playbooks>>

\* What the NOT EXISTS of delete_credential sees: the committed hosts.
Assigned(c) == \E h \in Hosts : host[h].live /\ host[h].credential = c

\* CredentialService.delete; the row and its condition are one statement.
delete_credential(c) ==
  /\ get_credential(c)
  /\ ~Assigned(c)
  /\ AtOnce
  /\ credential' = [credential EXCEPT ![c].live = FALSE, ![c].enabled = FALSE]
  /\ UNCHANGED <<host, host_key, groups, playbooks>>

-----------------------------------------------------------------------------
(***************************************************************************)
(* Hosts and their keys.                                                   *)
(***************************************************************************)

Usable(c) == get_credential(c) /\ credential[c].enabled

\* create_host looks at the credential, then inserts the host.
create_host(s, h, c) ==
  /\ host[h].version = 0
  /\ Usable(c)
  /\ \A t \in Calls : call[t] # Idle /\ call[t].op = "add_host" => call[t].host # h
  /\ Begin(s, [op |-> "add_host", n |-> fresh, host |-> h, credential |-> c])
  /\ UNCHANGED <<assets, groups, playbooks>>

add_host(s) ==
  /\ call[s].op = "add_host"
  /\ host' = [host EXCEPT ![call[s].host] = NewHost(call[s].n, call[s].credential)]
  /\ End(s)
  /\ UNCHANGED <<credential, host_key, groups, playbooks>>

\* update_host sends some of the fields; the others are those of the row the
\* service reads.
update_host(s, h, fields, c) ==
  /\ host[h].live
  /\ Begin(s, [op |-> "update_host", n |-> fresh, host |-> h, fields |-> fields,
               credential |-> c, expected |-> host[h].version])
  /\ UNCHANGED <<assets, groups, playbooks>>

Merged(r, a) ==
  [r EXCEPT !.name = IF "name" \in a.fields THEN a.n ELSE @,
            !.address = IF "address" \in a.fields THEN a.n ELSE @,
            !.credential = IF "credential" \in a.fields THEN a.credential ELSE @]

read_host(s) ==
  /\ call[s].op = "update_host"
  /\ LET h == call[s].host
         r == Merged(host[h], call[s]) IN
       IF host[h].live /\ Usable(r.credential)
         THEN Goto(s, [op |-> "write_host", n |-> call[s].n, host |-> h, data |-> r,
                       expected |-> call[s].expected])
         ELSE End(s)
  /\ UNCHANGED <<assets, groups, playbooks>>

\* Mutant: the version of the row is not compared.
write_host_anyway(s) ==
  /\ call[s].op = "write_host"
  /\ LET h == call[s].host IN
       IF host[h].live
         THEN host' = [host EXCEPT ![h] = [call[s].data EXCEPT !.version = host[h].version + 1]]
         ELSE UNCHANGED host
  /\ End(s)
  /\ UNCHANGED <<credential, host_key, groups, playbooks>>

write_host(s) ==
  /\ call[s].op = "write_host"
  /\ LET h == call[s].host IN
       IF host[h].live /\ host[h].version = call[s].expected
         THEN host' = [host EXCEPT ![h] = [call[s].data EXCEPT !.version = host[h].version + 1]]
         ELSE UNCHANGED host
  /\ End(s)
  /\ UNCHANGED <<credential, host_key, groups, playbooks>>

\* delete_host: members and keys go with the row.  The refusal for a host
\* that a run has used changes nothing.
delete_host(h) ==
  /\ host[h].live
  /\ AtOnce
  /\ host' = [host EXCEPT ![h].live = FALSE]
  /\ host_key' = [host_key EXCEPT ![h] = 0]
  /\ group' = [g \in Groups |-> [group[g] EXCEPT !.members = @ \ {h}]]
  /\ UNCHANGED <<credential, owner, playbooks>>

\* The key of whatever answers at the address the host has now; a scan that
\* fails leaves nothing behind.
scan_host_keys(h) == host[h].address

\* confirm_host_key scans the address of the host again and then, in another
\* transaction, stores the key; a host deleted meanwhile breaks the
\* reference of the key.
confirm_host_key(s, h) ==
  /\ host[h].live
  /\ Begin(s, [op |-> "upsert_host_key", n |-> fresh, host |-> h,
               scanned |-> scan_host_keys(h)])
  /\ UNCHANGED <<assets, groups, playbooks>>

upsert_host_key(s) ==
  /\ call[s].op = "upsert_host_key"
  /\ host_key' = [host_key EXCEPT ![call[s].host] =
       IF host[call[s].host].live THEN call[s].scanned ELSE @]
  /\ End(s)
  /\ UNCHANGED <<credential, host, groups, playbooks>>

-----------------------------------------------------------------------------
(***************************************************************************)
(* Groups.                                                                 *)
(***************************************************************************)

\* _validate_host_ids reads the hosts; the references are checked again when
\* the members are inserted.
validate_host_ids(S) == \A h \in S : host[h].live

create_group(s, g, S) ==
  /\ ~group[g].live /\ group[g].name = 0
  /\ validate_host_ids(S)
  /\ \A t \in Calls : call[t] # Idle /\ call[t].op = "add_group" => call[t].group # g
  /\ Begin(s, [op |-> "add_group", n |-> fresh, group |-> g, members |-> S])
  /\ UNCHANGED <<assets, groups, playbooks>>

add_group(s) ==
  /\ call[s].op = "add_group"
  /\ group' = IF validate_host_ids(call[s].members)
                THEN [group EXCEPT ![call[s].group] = NewGroup(call[s].n, call[s].members)]
                ELSE group
  /\ End(s)
  /\ UNCHANGED <<assets, owner, playbooks>>

\* update_group reads the group and the hosts ...
update_group(s, g, S) ==
  /\ group[g].live
  /\ validate_host_ids(S)
  /\ Begin(s, [op |-> "update_group", n |-> fresh, group |-> g, members |-> S])
  /\ UNCHANGED <<assets, groups, playbooks>>

\* Mutant: the row is not locked before the members are replaced.
write_group_unlocked(s) ==
  /\ call[s].op = "update_group"
  /\ IF group[call[s].group].live
       THEN Goto(s, [op |-> "replace_group_members", n |-> call[s].n,
                     group |-> call[s].group, members |-> call[s].members,
                     gone |-> group[call[s].group].members])
       ELSE End(s)
  /\ UNCHANGED <<assets, groups, playbooks>>

\* ... then updates the row, whose lock it keeps, and deletes the members it
\* sees ...
write_group(s) ==
  /\ call[s].op = "update_group"
  /\ LET g == call[s].group IN
       /\ owner[g] = Nobody
       /\ IF group[g].live
            THEN /\ owner' = [owner EXCEPT ![g] = s]
                 /\ Goto(s, [op |-> "replace_group_members", n |-> call[s].n,
                             group |-> g, members |-> call[s].members,
                             gone |-> group[g].members])
            ELSE UNCHANGED owner /\ End(s)
  /\ UNCHANGED <<assets, group, playbooks>>

\* ... and inserts the new ones and commits, unless a host is gone.
replace_group_members(s) ==
  /\ call[s].op = "replace_group_members"
  /\ LET g == call[s].group IN
       /\ group' = IF validate_host_ids(call[s].members)
            THEN [group EXCEPT ![g].name = call[s].n,
                               ![g].asked = call[s].members,
                               ![g].members = (@ \ call[s].gone) \union call[s].members]
            ELSE group
       /\ owner' = [owner EXCEPT ![g] = Nobody]
  /\ End(s)
  /\ UNCHANGED <<assets, playbooks>>

delete_group(g) ==
  /\ group[g].live
  /\ owner[g] = Nobody
  /\ AtOnce
  /\ group' = [group EXCEPT ![g].live = FALSE, ![g].members = {}]
  /\ UNCHANGED <<assets, owner, playbooks>>

-----------------------------------------------------------------------------
(***************************************************************************)
(* Playbooks.  Files are validated before the transaction that saves them, *)
(* which locks the row, compares the version, inserts the next revision    *)
(* and updates the row.                                                    *)
(***************************************************************************)

insert_revision(p, files) == content' = [content EXCEPT ![p] = Append(@, files)]

add(p, n) ==
  /\ playbook' = [playbook EXCEPT ![p] = NewPlaybook(n)]
  /\ insert_revision(p, n)

\* The row is locked, and its version is the expected one.
update(p, name, files) ==
  /\ playbook' = [playbook EXCEPT ![p].name = name, ![p].version = @ + 1,
                                  ![p].current_revision = @ + 1]
  /\ insert_revision(p, files)

\* The revisions are kept.
soft_delete(p) ==
  /\ playbook' = [playbook EXCEPT ![p].live = FALSE, ![p].version = @ + 1]
  /\ UNCHANGED content

create_database(p) ==
  /\ playbook[p].version = 0
  /\ AtOnce
  /\ add(p, fresh)
  /\ UNCHANGED <<assets, groups>>

\* update_database replaces the name and the files.
update_database(s, p) ==
  /\ playbook[p].live
  /\ Begin(s, [op |-> "validate", n |-> fresh, playbook |-> p, name |-> fresh,
               content |-> fresh,
               expected |-> playbook[p].version])
  /\ UNCHANGED <<assets, groups, playbooks>>

get_revision(p, r) == content[p][r]

\* restore_revision reads the revision, then the row in another transaction,
\* and saves the files of the one with the name of the other.
restore_revision(s, p, r) ==
  /\ playbook[p].live
  /\ r \in DOMAIN content[p]
  /\ Begin(s, [op |-> "restore", n |-> fresh, playbook |-> p, content |-> get_revision(p, r),
               expected |-> playbook[p].version])
  /\ UNCHANGED <<assets, groups, playbooks>>

get_database(s) ==
  /\ call[s].op = "restore"
  /\ LET p == call[s].playbook IN
       IF playbook[p].live
         THEN Goto(s, [op |-> "validate", n |-> call[s].n, playbook |-> p,
                       name |-> playbook[p].name, content |-> call[s].content,
                       expected |-> call[s].expected])
         ELSE End(s)
  /\ UNCHANGED <<assets, groups, playbooks>>

\* Ansible's syntax check, in a process of its own: files that do not pass are
\* never saved.
validate_for_save(s) ==
  /\ call[s].op = "validate"
  /\ Goto(s, [call[s] EXCEPT !.op = "save"]) \/ End(s)
  /\ UNCHANGED <<assets, groups, playbooks>>

save(s) ==
  /\ call[s].op = "save"
  /\ LET p == call[s].playbook IN
       IF playbook[p].live /\ playbook[p].version = call[s].expected
         THEN update(p, call[s].name, call[s].content)
         ELSE UNCHANGED playbooks
  /\ End(s)
  /\ UNCHANGED <<assets, groups>>

delete_database(p) ==
  /\ playbook[p].live
  /\ AtOnce
  /\ soft_delete(p)
  /\ UNCHANGED <<assets, groups>>

-----------------------------------------------------------------------------
CredentialStep ==
  \/ \E c \in Credentials :
       create_credential(c) \/ rotate(c) \/ delete_credential(c)
  \/ \E s \in Calls, c \in Credentials, enabled \in BOOLEAN :
       update_credential(s, c, enabled)
  \/ \E s \in Calls : read_credential(s) \/ write_credential(s)

HostStep ==
  \/ \E h \in Hosts : delete_host(h)
  \/ \E s \in Calls, h \in Hosts, c \in Credentials :
       \/ create_host(s, h, c)
       \/ \E field \in {"name", "address", "credential"} : update_host(s, h, {field}, c)
  \/ \E s \in Calls, h \in Hosts : confirm_host_key(s, h)
  \/ \E s \in Calls :
       add_host(s) \/ read_host(s) \/ write_host(s) \/ upsert_host_key(s)

GroupStep ==
  \/ \E g \in Groups : delete_group(g)
  \/ \E s \in Calls, g \in Groups, S \in SUBSET Hosts :
       create_group(s, g, S) \/ update_group(s, g, S)
  \/ \E s \in Calls : add_group(s) \/ write_group(s) \/ replace_group_members(s)

PlaybookStep ==
  \/ \E p \in Playbooks : create_database(p) \/ delete_database(p)
  \/ \E s \in Calls, p \in Playbooks : update_database(s, p)
  \/ \E s \in Calls, p \in Playbooks, r \in 1..MaxRequests + 1 :
       restore_revision(s, p, r)
  \/ \E s \in Calls : get_database(s) \/ validate_for_save(s) \/ save(s)

Next == CredentialStep \/ HostStep \/ GroupStep \/ PlaybookStep

Spec == Init /\ [][Next]_vars

-----------------------------------------------------------------------------
(***************************************************************************)
(* Properties.                                                             *)
(***************************************************************************)

(* No step puts an older choice back into a field, or a deleted row back   *)
(* into the catalogue: neither a partial update of a host that carries     *)
(* along the fields it read, nor the restoring of a revision under the     *)
(* name it read, nor a change of a credential undoes a request that was    *)
(* made after its client looked (the versions of the three tables).        *)
NeverReverted ==
  [][/\ \A h \in Hosts :
          /\ host'[h].name >= host[h].name
          /\ host'[h].address >= host[h].address
     /\ \A c \in Credentials :
          /\ credential'[c].name >= credential[c].name
          /\ credential[c].lock_version > 0 /\ ~credential[c].live => ~credential'[c].live
     /\ \A p \in Playbooks :
          /\ playbook'[p].name >= playbook[p].name
          /\ playbook[p].version > 0 /\ ~playbook[p].live => ~playbook'[p].live]_vars

(* The public metadata of a credential (key algorithm, fingerprint, which  *)
(* passwords there are) describe the secret of its current version, though *)
(* an update writes back the whole public_config it read before a rotation.*)
MetadataMatches ==
  \A c \in Credentials : credential[c].about = credential[c].current_version

(* A group has the members of the request that named it, less the hosts    *)
(* deleted since: two updates of one group, which carries no version, never*)
(* mix.                                                                    *)
GroupWhole ==
  \A g \in Groups :
    group[g].live => group[g].members = {h \in group[g].asked : host[h].live}
=============================================================================
