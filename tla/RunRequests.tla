---------------------------- MODULE RunRequests ----------------------------
(***************************************************************************)
(* How runs come to be: RunService._create and RunService.retry under      *)
(* idempotency keys, against edits of the hosts and of the playbook they   *)
(* resolve.                                                                *)
(*                                                                         *)
(* A call is one delivery of a request; clients repeat requests whose      *)
(* answer they did not get.  The transaction that inserts a run consists   *)
(* of statements that see different snapshots (READ COMMITTED), so each of *)
(* them is a step, between which other transactions commit.  Its row is    *)
(* "open" until it commits: nobody sees it, but the unique index makes     *)
(* another insertion under the same key wait.                              *)
(*                                                                         *)
(* A request stands for its fingerprint, a digest of everything the client *)
(* asked for and of nothing that was resolved on its behalf.               *)
(***************************************************************************)
EXTENDS Naturals

CONSTANTS
  Calls,        \* deliveries of requests to the API
  Requests,     \* what clients ask for
  Runs,         \* run identifiers
  Hosts,        \* managed hosts
  Nobody,       \* SQL NULL
  KeyOf,        \* (requested_by, idempotency_key) of a request
  HostsOf,      \* the hosts it names, or the members of the group it names
  Explicit,     \* the requests that name hosts by their identifiers
  Playbook,     \* the requests that execute the database playbook
  Gives,        \* the requests that supply its sensitive parameter
  SourceOf,     \* the run a retry repeats, Nobody for a new run
  MaxRevision,  \* bound on the playbook's revisions
  Secretive,    \* the revisions that declare a sensitive parameter
  Required      \* those of them that require it

ASSUME RunRequestsAssumption ==
  /\ Nobody \notin Requests \union Runs
  /\ HostsOf \in [Requests -> SUBSET Hosts]
  /\ SourceOf \in [Requests -> Runs \union {Nobody}]
  /\ MaxRevision \in Nat \ {0}
  /\ Secretive \subseteq 1..MaxRevision /\ Required \subseteq Secretive
  /\ \A q \in Gives : SourceOf[q] = Nobody => q \in Playbook

VARIABLES
  stage,     \* none, open (not committed), queued, ended (a terminal status)
  req,       \* the row's requested_by, idempotency_key and request_fingerprint
  hosts,     \* resolved_targets and the rows of run_targets
  revision,  \* playbook_revision, 0 for NULL
  envelope,  \* the runs with a row in run_secret_inputs
  host,      \* on, off (disabled or without usable credential) or gone
  trusted,   \* the hosts with a confirmed key
  current,   \* current_revision of the playbook
  usable,    \* on, off (disabled) or deleted
  pc,        \* where each call is
  call,      \* the request it carries
  got,       \* the hosts it resolved
  pin,       \* the revision it pinned
  answer,    \* the run it inserted or was answered with
  late       \* history: the key had a run when the call arrived

rows   == <<stage, req, hosts, revision, envelope>>
world  == <<host, trusted, current, usable>>
locals == <<call, got, pin, late>>
vars   == <<stage, req, hosts, revision, envelope, host, trusted, current, usable, pc,
            call, got, pin, answer, late>>

Committed == {"queued", "ended"}

\* The committed runs and the uncommitted ones under the key of q.
Stored(q) == {r \in Runs : stage[r] \in Committed /\ KeyOf[req[r]] = KeyOf[q]}
Pending(q) == {r \in Runs : stage[r] = "open" /\ KeyOf[req[r]] = KeyOf[q]}

GoTo(c, p) == pc' = [pc EXCEPT ![c] = p]

\* An error is answered; the transaction, if it inserted a row, rolls it back.
Refuse(c) ==
  /\ GoTo(c, "refused")
  /\ UNCHANGED <<rows, world, locals, answer>>

\* IdempotencyConflictError, or the run that was created under this key.
Replay(c, r) ==
  /\ GoTo(c, IF req[r] = call[c] THEN "done" ELSE "refused")
  /\ answer' = [answer EXCEPT ![c] = IF req[r] = call[c] THEN r ELSE Nobody]
  /\ UNCHANGED <<rows, world, locals>>

\* validate_parameters: what is given is declared, what is required is given.
Valid(q, v) == /\ q \in Gives => v \in Secretive
               /\ v \in Required => q \in Gives

\* secretParameterNames of the source run: what it was given has to be given again.
Regives(q, s) == req[s] \in Gives => q \in Gives
-----------------------------------------------------------------------------
(***************************************************************************)
(* _create.                                                                *)
(***************************************************************************)

\* Mutant: a request without a source run takes the path of a retry.
ReceiveRetry(c, q) ==
  /\ pc[c] = "idle"
  /\ call' = [call EXCEPT ![c] = q]
  /\ late' = [late EXCEPT ![c] = Stored(q) # {}]
  /\ GoTo(c, "source")
  /\ UNCHANGED <<rows, world, got, pin, answer>>

\* create_command, create_ping, create_playbook and retry up to their first read.
Receive(c, q) ==
  /\ pc[c] = "idle"
  /\ call' = [call EXCEPT ![c] = q]
  /\ late' = [late EXCEPT ![c] = Stored(q) # {}]
  /\ GoTo(c, IF SourceOf[q] = Nobody THEN "lookup" ELSE "source")
  /\ UNCHANGED <<rows, world, got, pin, answer>>

\* Mutant: the first transaction is left out as an optimisation.
LookupSkipped(c) ==
  /\ pc[c] = "lookup"
  /\ GoTo(c, "resolve")
  /\ UNCHANGED <<rows, world, locals, answer>>

\* The first transaction: get_by_idempotency_key.
lookup(c) ==
  /\ pc[c] = "lookup"
  /\ \/ \E r \in Stored(call[c]) : Replay(c, r)
     \/ /\ Stored(call[c]) = {}
        /\ GoTo(c, "resolve")
        /\ UNCHANGED <<rows, world, locals, answer>>

\* resolve_all_hosts, resolve_host_ids, resolve_group_hosts: the enabled ones.
resolve_hosts(q) == {h \in HostsOf[q] : host[h] = "on"}

\* The second transaction: those named by id must all be there.
resolve(c) ==
  LET q     == call[c]
      found == resolve_hosts(q)
      ok    == found # {} /\ (q \in Explicit => found = HostsOf[q])
  IN
  /\ pc[c] = "resolve"
  /\ \/ ~ok /\ Refuse(c)
     \/ /\ ok
        /\ got' = [got EXCEPT ![c] = found]
        /\ GoTo(c, IF q \in Playbook THEN "document" ELSE "insert")
        /\ UNCHANGED <<rows, world, call, pin, answer, late>>

\* Mutant: the parameters are not checked against the revision that is pinned.
get_document_unchecked(c) ==
  /\ pc[c] = "document"
  /\ \/ usable # "on" /\ Refuse(c)
     \/ /\ usable = "on"
        /\ pin' = [pin EXCEPT ![c] = current]
        /\ GoTo(c, "insert")
        /\ UNCHANGED <<rows, world, call, got, answer, late>>

\* ... the playbook's current revision, which is pinned, and the parameters ...
get_document(c) ==
  LET ok == usable = "on" /\ Valid(call[c], current) IN
  /\ pc[c] = "document"
  /\ \/ ~ok /\ Refuse(c)
     \/ /\ ok
        /\ pin' = [pin EXCEPT ![c] = current]
        /\ GoTo(c, "insert")
        /\ UNCHANGED <<rows, world, call, got, answer, late>>

\* Mutant: another transaction's uncommitted row is not waited for.
InsertEager(c, r) ==
  LET q == call[c] IN
  /\ pc[c] = "insert"
  /\ Stored(q) = {}
  /\ stage[r] = "none"
  /\ \A h \in got[c] : host[h] # "gone"
  /\ stage' = [stage EXCEPT ![r] = "open"]
  /\ req' = [req EXCEPT ![r] = q]
  /\ hosts' = [hosts EXCEPT ![r] = got[c]]
  /\ revision' = [revision EXCEPT ![r] = pin[c]]
  /\ answer' = [answer EXCEPT ![c] = r]
  /\ GoTo(c, "keys")
  /\ UNCHANGED <<envelope, world, locals>>

\* ... create_or_get: the row and its targets, which reference their hosts ...
Insert(c, r) ==
  LET q == call[c] IN
  /\ pc[c] = "insert"
  /\ Pending(q) = {} /\ Stored(q) = {}
  /\ stage[r] = "none"
  /\ \A h \in got[c] : host[h] # "gone"
  /\ stage' = [stage EXCEPT ![r] = "open"]
  /\ req' = [req EXCEPT ![r] = q]
  /\ hosts' = [hosts EXCEPT ![r] = got[c]]
  /\ revision' = [revision EXCEPT ![r] = pin[c]]
  /\ answer' = [answer EXCEPT ![c] = r]
  /\ GoTo(c, "keys")
  /\ UNCHANGED <<envelope, world, locals>>

\* Mutant: after the race for the key the fingerprint is not compared again.
get_any(c) ==
  /\ pc[c] = "insert"
  /\ Pending(call[c]) = {}
  /\ \E r \in Stored(call[c]) :
       /\ answer' = [answer EXCEPT ![c] = r]
       /\ GoTo(c, "done")
       /\ UNCHANGED <<rows, world, locals>>

\* ... or the row somebody else inserted since the lookup ...
get(c) ==
  /\ pc[c] = "insert"
  /\ Pending(call[c]) = {}
  /\ \E r \in Stored(call[c]) : Replay(c, r)

\* ... or a violated foreign key, when a host was deleted in the meantime.
InsertFails(c) ==
  /\ pc[c] = "insert"
  /\ Pending(call[c]) = {} /\ Stored(call[c]) = {}
  /\ \E h \in got[c] : host[h] = "gone"
  /\ Refuse(c)

\* The row of a call that fails before its commit is as if it had never been.
Rollback(c) ==
  LET undone == {r \in {answer[c]} : pc[c] = "keys"} IN
  /\ stage' = [r \in Runs |-> IF r \in undone THEN "none" ELSE stage[r]]
  /\ req' = [r \in Runs |-> IF r \in undone THEN Nobody ELSE req[r]]
  /\ hosts' = [r \in Runs |-> IF r \in undone THEN {} ELSE hosts[r]]
  /\ revision' = [r \in Runs |-> IF r \in undone THEN 0 ELSE revision[r]]
  /\ answer' = [answer EXCEPT ![c] = Nobody]

\* Mutant: the error is answered from inside the transaction, which stays open.
FailStuck(c) ==
  /\ pc[c] = "keys"
  /\ ~(hosts[answer[c]] \subseteq trusted)
  /\ Refuse(c)

\* require_confirmed_host_keys raises: the row is rolled back.
Fail(c) ==
  /\ pc[c] = "keys"
  /\ ~(hosts[answer[c]] \subseteq trusted)
  /\ Rollback(c)
  /\ GoTo(c, "refused")
  /\ UNCHANGED <<envelope, world, locals>>

\* All targets have confirmed keys: the envelope is added and the transaction commits.
Commit(c) ==
  LET r == answer[c] IN
  /\ pc[c] = "keys"
  /\ hosts[r] \subseteq trusted
  /\ stage' = [stage EXCEPT ![r] = "queued"]
  /\ envelope' = IF call[c] \in Gives THEN envelope \union {r} ELSE envelope
  /\ GoTo(c, "done")
  /\ UNCHANGED <<req, hosts, revision, world, locals, answer>>
-----------------------------------------------------------------------------
(***************************************************************************)
(* retry.                                                                  *)
(***************************************************************************)

\* Mutant: a retry takes the playbook as it is now.
source_repinned(c) ==
  LET s == SourceOf[call[c]]
      v == IF revision[s] = 0 THEN 0 ELSE current
  IN
  /\ pc[c] = "source"
  /\ \/ ~(stage[s] = "ended" /\ Valid(call[c], v) /\ Regives(call[c], s)) /\ Refuse(c)
     \/ /\ stage[s] = "ended" /\ Valid(call[c], v) /\ Regives(call[c], s)
        /\ got' = [got EXCEPT ![c] = hosts[s]]
        /\ pin' = [pin EXCEPT ![c] = v]
        /\ GoTo(c, "insert")
        /\ UNCHANGED <<rows, world, call, answer, late>>

\* A finished run's snapshot; its revision is never deleted, its secrets are not kept
\* and have to be supplied again, the optional ones as well.  Then create_or_get, as above.
source(c) ==
  LET s  == SourceOf[call[c]]
      ok == stage[s] = "ended" /\ Valid(call[c], revision[s]) /\ Regives(call[c], s)
  IN
  /\ pc[c] = "source"
  /\ \/ ~ok /\ Refuse(c)
     \/ /\ ok
        /\ got' = [got EXCEPT ![c] = hosts[s]]
        /\ pin' = [pin EXCEPT ![c] = revision[s]]
        /\ GoTo(c, "insert")
        /\ UNCHANGED <<rows, world, call, answer, late>>
-----------------------------------------------------------------------------
(***************************************************************************)
(* What else happens.                                                      *)
(***************************************************************************)

Working == {"lookup", "source", "resolve", "document", "insert", "keys"}

\* The connection to the database or the process is lost; the client gets no answer.
Lose(c) ==
  /\ pc[c] \in Working
  /\ Rollback(c)
  /\ GoTo(c, "lost")
  /\ UNCHANGED <<envelope, world, locals>>

\* Claim, execution and terminal status in one step, since nothing here tells them apart.
\* A run that is canceled or rejected before it starts keeps its envelope.
EndRun(r) ==
  /\ stage[r] = "queued"
  /\ stage' = [stage EXCEPT ![r] = "ended"]
  /\ envelope' \in {envelope, envelope \ {r}}
  /\ UNCHANGED <<req, hosts, revision, world, pc, locals, answer>>

\* update_database adds a revision and may disable or enable the playbook.
update_database(on) ==
  /\ usable # "deleted"
  /\ current < MaxRevision
  /\ current' = current + 1
  /\ usable' = on
  /\ UNCHANGED <<rows, host, trusted, pc, locals, answer>>

\* soft_delete.
delete_database ==
  /\ usable # "deleted"
  /\ usable' = "deleted"
  /\ UNCHANGED <<rows, host, trusted, current, pc, locals, answer>>

\* update_host.
update_host(h) ==
  /\ host[h] # "gone"
  /\ host' = [host EXCEPT ![h] = IF @ = "on" THEN "off" ELSE "on"]
  /\ UNCHANGED <<rows, trusted, current, usable, pc, locals, answer>>

\* Mutant: only the targets of queued runs protect a host.
DeleteUnqueued(h) ==
  /\ host[h] # "gone"
  /\ \A r \in Runs : stage[r] = "queued" => h \notin hosts[r]
  /\ host' = [host EXCEPT ![h] = "gone"]
  /\ trusted' = trusted \ {h}
  /\ UNCHANGED <<rows, current, usable, pc, locals, answer>>

\* delete_host: no run_targets row references it; an open transaction's makes it wait.
\* Its keys go with it.
delete_host(h) ==
  /\ host[h] # "gone"
  /\ \A r \in Runs : stage[r] # "none" => h \notin hosts[r]
  /\ host' = [host EXCEPT ![h] = "gone"]
  /\ trusted' = trusted \ {h}
  /\ UNCHANGED <<rows, current, usable, pc, locals, answer>>

\* confirm_host_key.
confirm_host_key(h) ==
  /\ host[h] # "gone"
  /\ h \notin trusted
  /\ trusted' = trusted \union {h}
  /\ UNCHANGED <<rows, host, current, usable, pc, locals, answer>>
-----------------------------------------------------------------------------
Init ==
  /\ stage = [r \in Runs |-> "none"]
  /\ req = [r \in Runs |-> Nobody]
  /\ hosts = [r \in Runs |-> {}]
  /\ revision = [r \in Runs |-> 0]
  /\ envelope = {}
  /\ host = [h \in Hosts |-> "on"]
  /\ trusted = {}
  /\ current = 1
  /\ usable = "on"
  /\ pc = [c \in Calls |-> "idle"]
  /\ call = [c \in Calls |-> Nobody]
  /\ got = [c \in Calls |-> {}]
  /\ pin = [c \in Calls |-> 0]
  /\ answer = [c \in Calls |-> Nobody]
  /\ late = [c \in Calls |-> FALSE]

\* What the coroutine of a call does until it answers.
Handle(c) ==
  \/ lookup(c) \/ resolve(c) \/ get_document(c) \/ source(c)
  \/ get(c) \/ InsertFails(c) \/ \E r \in Runs : Insert(c, r)
  \/ Fail(c) \/ Commit(c)

Edit ==
  \/ \E on \in {"on", "off"} : update_database(on)
  \/ delete_database
  \/ \E h \in Hosts : update_host(h) \/ delete_host(h) \/ confirm_host_key(h)

Next ==
  \/ \E c \in Calls : Handle(c) \/ Lose(c) \/ \E q \in Requests : Receive(c, q)
  \/ \E r \in Runs : EndRun(r)
  \/ Edit

Spec == Init /\ [][Next]_vars

\* PostgreSQL answers, and coroutines go on.
FairSpec == Spec /\ \A c \in Calls : WF_vars(Handle(c))
-----------------------------------------------------------------------------
(***************************************************************************)
(* Properties.                                                             *)
(***************************************************************************)

\* Rows and locals have their types; a call has a request, a retry a source, and a call
\* that has inserted a row its run.
TypeOK ==
  /\ stage \in [Runs -> Committed \union {"none", "open"}]
  /\ req \in [Runs -> Requests \union {Nobody}]
  /\ hosts \in [Runs -> SUBSET Hosts]
  /\ revision \in [Runs -> 0..MaxRevision]
  /\ envelope \in SUBSET Runs
  /\ host \in [Hosts -> {"on", "off", "gone"}]
  /\ trusted \in SUBSET Hosts
  /\ current \in 1..MaxRevision
  /\ usable \in {"on", "off", "deleted"}
  /\ pc \in [Calls -> Working \union {"idle", "done", "refused", "lost"}]
  /\ call \in [Calls -> Requests \union {Nobody}]
  /\ got \in [Calls -> SUBSET Hosts]
  /\ pin \in [Calls -> 0..MaxRevision]
  /\ answer \in [Calls -> Runs \union {Nobody}]
  /\ late \in [Calls -> BOOLEAN]
  /\ \A c \in Calls : pc[c] # "idle" => call[c] \in Requests
  /\ \A c \in Calls : pc[c] = "source" => SourceOf[call[c]] \in Runs
  /\ \A c \in Calls : pc[c] = "keys" => answer[c] \in Runs

\* CASE-16: however many calls race under one key, however many are lost and repeated,
\* the key has one run.
OneRunPerKey ==
  \A r, s \in Runs : stage[r] \in Committed /\ stage[s] \in Committed
                     /\ KeyOf[req[r]] = KeyOf[req[s]] => r = s

\* A call that succeeds is answered with a committed run that was created for the very
\* request it carries, never with the run of another request under its key.
AnswersMatch ==
  \A c \in Calls : pc[c] = "done" =>
    answer[c] \in Runs /\ stage[answer[c]] \in Committed /\ req[answer[c]] = call[c]

\* A queued run has an envelope exactly if its request gave the sensitive parameter, as
\* its operation_spec tells the worker.  The revision it is pinned to, and not a later one,
\* then declares the parameter; a run whose revision requires it has an envelope, and so
\* has the retry of a run that was given an optional one.
EnvelopeMatches ==
  \A r \in Runs : stage[r] = "queued" =>
    /\ r \in envelope <=> req[r] \in Gives
    /\ r \in envelope => revision[r] \in Secretive
    /\ revision[r] \in Required => r \in envelope
    /\ SourceOf[req[r]] # Nobody /\ req[SourceOf[req[r]]] \in Gives => r \in envelope

\* The targets of a run remain managed hosts with confirmed keys, whatever is edited
\* between the resolution and the commit, or later.
TargetsKept ==
  \A r \in Runs : stage[r] \in Committed =>
    hosts[r] # {} /\ \A h \in hosts[r] : host[h] # "gone" /\ h \in trusted

\* A retry repeats a finished run on the same hosts with the same revision, whatever
\* became of hosts and playbook since.
RetryFaithful ==
  \A r \in Runs : stage[r] \in Committed /\ SourceOf[req[r]] # Nobody =>
    LET s == SourceOf[req[r]] IN
    stage[s] = "ended" /\ hosts[r] = hosts[s] /\ revision[r] = revision[s]

\* A repeated request whose run exists is not refused because hosts, keys or the playbook
\* changed: only a different request under the key is.
ReplayAnswered ==
  \A c \in Calls : late[c] /\ pc[c] = "refused" =>
    \A r \in Stored(call[c]) : req[r] # call[c]

\* Every call comes to an end: nobody waits for ever for another's uncommitted row.
CallsEnd == \A c \in Calls : pc[c] \in Working ~> pc[c] \notin Working
=============================================================================
