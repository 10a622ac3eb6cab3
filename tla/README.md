# Verification of ops-composer

ops-composer is a small operations console. An API process (FastAPI) keeps hosts,
credentials, playbooks, users and *runs* in PostgreSQL; worker processes claim the
queued runs and carry them out over SSH with Ansible; a web shell gives a user an
interactive terminal on a host. PostgreSQL is the only thing the processes share:
there is no broker and no call from one process to another.

This directory holds TLA+ models of that system, the TLC configurations that check
them and TLAPS proofs about them. Paths below are relative to
`src/backend/src/ops_composer/`.

## The system

| Part | State | Operations | Talks to |
| --- | --- | --- | --- |
| Run queue (`repositories/runs.py`, `services/runs.py`) | `runs`, `run_targets`, `run_secret_inputs`, `host_execution_locks`, `worker_leases` | create, retry, cancel, claim_next, heartbeat, mark_running, finish_target, finish, recover_stale, consume_secret_inputs | API and workers, by transactions |
| Worker (`worker.py`) | loop position, `active_run`, the cancel event, per-host accumulators, runner thread, monitor task | run_worker, execute_run | run queue; Ansible |
| Run requests (`services/runs.py`) | idempotency key and fingerprint of each run | create_command, create_ping, create_playbook, retry, preview_playbook | run queue, playbooks, assets |
| Run events (`api/runs.py`, `run_events`) | sequence of events per run | append_event, SSE stream with resumption | workers write, browsers read |
| Web shell (`services/web_shell.py`, `web_shell_manager.py`) | `web_shell_sessions`, locks of kind WEB_SHELL, `_active` terminals of one API process | create, claim, heartbeat, request_close, finish, recover_stale | shares host locks with runs, auth sessions |
| Key rotation (`services/encryption.py`) | keyring, one rotation job, the key id of each envelope | ensure_keyring, request_rotation, process_rotation_batch, every write of a secret | API processes write, worker loops run the batches |
| Auth (`auth/`) | users, sessions, MFA factors, challenges, recovery codes, activation tokens, rate buckets | bootstrap, login, verify, elevate, logout, update_user, break-glass | web shell checks sessions |
| Assets (`services/assets.py`, `repositories/assets.py`) | credentials with revisions, hosts, groups, scanned and confirmed host keys | create, update, rotate, delete, scan, confirm | runs resolve targets against them |
| Playbooks (`services/playbooks.py`) | playbooks, immutable revisions | import, save a revision, enable, delete | runs pin a revision |
| Audit, settings, health, CLI, frontend | append-only records, configuration | | |

The life of a run: the API inserts it QUEUED with its targets and, when it has
sensitive parameters, an encrypted envelope. A worker's `claim_next` selects the
oldest queued run none of whose hosts is locked, locks all its hosts, marks it
PREPARING and renews the worker's lease. `execute_run` deletes and decrypts the
envelope, loads the materials, marks the run RUNNING, and starts Ansible in a thread.
A monitor task renews the lease and the locks every third of a lease and watches for
a cancellation; the main task appends the runner's events. At the end the targets
are written one transaction at a time and `finish` writes the status and deletes the
locks. When a worker starts, `recover_stale` marks the runs of lapsed leases
INTERRUPTED.

### What is hard here

* The claim is two statements with different snapshots under READ COMMITTED.
* Mutual exclusion on a host rests on a lease: it is only as good as the holder's
  punctuality, and on every path of the holder that deletes the lock.
* Cancellation, the monitor, the runner thread, the event loop and recovery all act on
  one run and meet only in the database.
* A worker can be killed between any two transactions; it can also be merely slow, be
  declared dead and then wake up.
* Secrets are destroyed when they are read, so a later failure cannot be retried.
* Every transaction can fail, and the failure handlers themselves use the database.
* A request is repeated when its answer is lost, and hosts, host keys and playbooks change
  between the statements that resolve a run and the one that commits it.

* Users, factors and catalogue rows are read without a lock, compared (a password hash in a
  thread, a playbook by a child process), and written later: only the condition of the final
  UPDATE, or a deferred trigger, stands between two such requests.
* Keyrings change by restarts, so processes with different keys write and rotate the same rows.

`PROJECT.json` lists these hazards at their lines with the properties that cover them; the three
without a property (the event stream, the confirmation of a replaced factor, the deletion of a credential in use) have notes.

### What makes each part correct

* Run queue and worker: a host is worked on by one run at a time; a live worker keeps
  its run; a terminal status is final and no run is carried out twice; statuses of run
  and targets agree; a finished run holds no host; secrets lost before the run is RUNNING end in INTERRUPTED;
  queued and claimed runs come to an end.
* Run requests: one key, one run; another request under the same key is refused, the same
  one is answered with its run; targets, revision and envelope of a run agree; a retry repeats
  what its source did.
* Run events: a stream delivers every event once, in order, the final one included.
* Web shell: a ticket is used once and by its own session; one holder per host; live
  sessions stay within the limit; an ended stream frees its host.
* Keyring: no envelope becomes unreadable, a finished rotation leaves nothing behind under the
  old key, the idempotency pepper never changes, a rotation comes to an end.
* Auth: a code of the TOTP secret in force, a recovery code and a challenge are used once; no session without a
  verification of its own gets into an account that needs one; an active OWNER remains; an
  account is activated once, by a code.
* Assets and playbooks: no lost update; metadata describe the secret that is stored; two
  edits of a group do not mix.

## Modules

| Module | Contents |
| --- | --- |
| `RunExecution` | The run queue, the workers and their threads, cancellation, crashes, stalls, database errors. State, actions, mutants, fairness and properties. |
| `RunLifecycle` | Abstract specification: what a run promises (status and "was it carried out"), without workers, leases or targets. `RunExecution` implements it. |
| `MCRunExecution` | Gives `RunExecution`'s constants values for TLC. |
| `RunExecutionProofs` | TLAPS: type correctness, host exclusion, ownership. |
| `RunLifecycleProofs` | TLAPS: `RunExecution` implements `RunLifecycle`; release of hosts, cancellation, results, lost secrets. |
| `WebShell` | Sessions, tickets, streams, terminals and API processes; runs and auth sessions as environment. |
| `MCWebShell` | Gives `WebShell`'s constants values for TLC. |
| `WebShellProofs` | TLAPS: type correctness, single use of tickets, host exclusion, release, capacity, locks. |
| `RunRequests` | `_create` and `retry` statement by statement, against edits of hosts, host keys and the playbook. |
| `MCRunRequests` | Gives `RunRequests`' constants values for TLC. |
| `RunRequestsProofs` | TLAPS: all safety properties of `RunRequests`. |
| `Accounts` | User administration as overlapping transactions, the deferred owner trigger, activation codes. |
| `MCAccounts` | Gives `Accounts`' constants values for TLC. |
| `AccountsProofs` | TLAPS: both properties of `Accounts`. |
| `Login` | One account's factor, recovery codes, challenges and sessions. |
| `MCLogin` | Gives `Login`'s constants values for TLC. |
| `LoginProofs` | TLAPS: both properties of `Login`. |
| `Keyring` | Keyrings of processes, encrypted rows of all kinds, rotation jobs and batches. |
| `MCKeyring` | Gives `Keyring`'s constants values for TLC. |
| `KeyringProofs` | TLAPS: the safety properties of `Keyring`. |
| `Catalog` | Credentials, hosts, host keys, groups, playbooks and their revisions. |
| `MCCatalog` | Gives `Catalog`'s constants values for TLC. |
| `CatalogProofs` | TLAPS: all properties of `Catalog`. |

`RunExecution` is composed with its abstraction by
`Lifecycle == INSTANCE RunLifecycle WITH ...`; `Accounts` and `Login` meet in the account: what
`Accounts` does in detail to role and status is one step of `Login` (`activate`, `update_user`).
`Keyring` has every write of an encrypted row of the other modules (`put_mfa_factor` of `Login`,
`rotate` of `Catalog`, the envelope of `RunRequests`) as a write of a row of that kind.

### How RunExecution corresponds to the code

The first six variables are columns: `status`, `claimedBy`, `cancelAsked` of `runs`,
`older` for the order of `created_at`, `secret` for the row of `run_secret_inputs`,
`target` for `run_targets.status`. `lock` is `host_execution_locks` and
`leased`/`ttl` are `worker_leases`. `pc`, `job`, `burnt`, `cancelSet`, `outcome`, `result` and `todo` are what one worker process
keeps in memory. `exec` is the set of live runner threads, `launched` a history of
the runs that ever had one.

One unit of work is one PostgreSQL transaction and one action, except the claim, which
is `ClaimSelect` (candidate query, row lock) and then `ClaimCommit` or
`ClaimCollision`. Time is relative: each row with an `expires_at` carries the ticks it has
left, and `Tick` takes one from every row. There is no clock to bound.

`pc` follows `execute_run`:

| `pc` | Where the process is |
| --- | --- |
| `off`, `dead` | not started; killed or left by an exception |
| `loop`, `poll`, `claim` | `run_worker`'s iteration; an open claim transaction |
| `secrets`, `materials`, `reject` | envelope, credentials and revision; the REJECTED/INTERRUPTED handlers |
| `runtime`, `unready` | runtime directory and `mark_running`; its failure |
| `started`, `exec`, `join` | `run_started` event, event loop, wait for the thread after a failed monitor |
| `settle` | `finish_target` for each host, then `finish` |
| `error`, `escape` | the except block of `execute_run`; the handler of the worker loop |

Behaviour the model keeps on purpose because the code has it: `mark_running` and
`finish_target` (action `FinishTarget`) do not look at the owner; `recover_stale` runs at start only;
`request_cancel` (action `cancel`) does not touch the locks; a failed `append_event` does not stop the
runner thread; an envelope whose contents are
not those the run declares raises `RuntimeError`, which is rolled back and which the handler of the preparation does not catch: it reaches the worker loop, which ends the run
INTERRUPTED (`ConsumeSecrets`, `Escape`), as the handler itself does when there is no envelope any more. Ansible is external: it reports any sequence of host statuses and
returns any of its four kinds of result, or raises.

Left out of it: the contents of events, the audit records and the daily purge, the
rotation batches the same loop runs, runtime directories and their removal, and
playbook and inventory contents (`Prepare` succeeds or is refused). `Cancelable`, the runs a user may
cancel, is a bound.

### How WebShell corresponds to the code

`state`, `login`, `owner` and `left` are columns of `web_shell_sessions`; `left` is the time
left of `ticket_expires_at` while the row is PENDING and of `lease_expires_at` afterwards.
`lock` is `host_execution_locks` again, here with its `owner_id`. `valid` is what
the join with `auth_sessions` and `users` finds. `up` is the life of an API process, `active` the streams in the `_active`
of their process, `pc`, `conn` and `who` are the locals of
one `WebShellManager.stream`, `term` is the set of streams with a live SSH client, and `asked` holds the
requests to close that have committed and have not yet looked into `_active`. `work` is what runs do.

| `pc` | Where the stream is |
| --- | --- |
| `idle`, `resolved` | not connected; the cookie is resolved, the ticket is not yet looked at |
| `starting`, `started` | `claim` has committed; `SshTerminal.start` has returned, not yet in `_active` |
| `serving` | `_serve`: registered in `_active`, four tasks |
| `closing`, `finishing` | the `finally` block: `terminal.close`, then `finish` |
| `ended`, `lost` | `finish` committed; it raised and was logged |
| `refused`, `rejected` | `claim` raised; its `finally` block has popped `_active` |
| `dead` | the process died |

A stream that was refused runs the same `finally` block as one that served: it pops whatever `_active` has under the
session, which may be the terminal of the stream that won the ticket (`EndRefused`, web_shell_manager.py:194-195). A request to
close then no longer finds that terminal in its own process and is left to the next heartbeat.

A refused request of the REST interface rolls its transaction back and is no step. `create` includes the
cleanup it runs under the admission lock, and the `ON DELETE CASCADE` of the lock is part
of each action that deletes rows. Runs appear only by what their claim, heartbeat,
finish and recovery do to a host; in `RunExecution`, in turn, sessions appear only by the
locks they take, renew and free (`ShellTakes`, `ShellMoves`).

Left out: the bytes of the terminal, window sizes, input limits and idle times (`Leave` may
happen at any time), host keys and credentials (`ClaimRefused` may happen at any time), audit records.

### How RunRequests corresponds to the code

`stage`, `req`, `hosts`, `revision` and `envelope` are rows of `runs`, `run_targets` and
`run_secret_inputs`. A row is `open` between its insertion and the commit of its
transaction: a query does not see it, but the unique index on `(requested_by, idempotency_key)` makes a second insertion
wait for it, and the foreign key of `run_targets` makes the deletion of its hosts wait. `host`, `trusted`, `current` and
`usable` are what `_create` reads of hosts, host keys and the playbook. `pc`, `call`, `got`,
`pin` and `answer` are the locals of one call, a delivery of a request; `late` is a
history variable, whether the key had a run when the call arrived.

| `pc` | Where the call is |
| --- | --- |
| `idle`, `lookup` | not received; before the first transaction of `_create` |
| `resolve`, `document`, `insert`, `keys` | the second transaction: before its query of the hosts, of the playbook, before `create_or_get`, before `_require_confirmed_host_keys` |
| `source` | `retry`, before it reads its source; then `insert` and `keys` as above |
| `done`, `refused`, `lost` | answered with a run; with an error; no answer |

PostgreSQL runs at READ COMMITTED, so every statement of the second transaction sees
another snapshot and is a step of its own. A request stands for its fingerprint: the
digest covers what the client asked for and nothing that was resolved for it (a retry's covers its
source's snapshot, which never changes). `Lose` is a broken connection or process:
PostgreSQL rolls back and the client hears nothing. A lost answer needs no action, since every call
may carry a request that another call has already carried. The life of a run after its commit is
`EndRun`; `RunExecution` has it in detail.

One sensitive parameter stands for all of them: `Secretive` are the revisions that declare it, `Required` those
that require it, `Gives` the requests that supply it. `Valid` is `validate_parameters`: what is given must be declared and
what is required must be given, so a run of a revision that only allows the parameter may have no envelope. `Regives` is the comparison with the
source's `secretParameterNames` in `retry`: what the source was given has to be given again, required or not.
Left out: mounted playbooks (their files are not under the control of the program), playbook
revisions of the legacy format (they declare no parameters), permissions, static checks of arguments, audit records,
edits of groups (a group is a request whose hosts need not all be enabled) and the
playbook source mode, which is configuration.

### How Accounts corresponds to the code

`status`, `role`, `version` and `activated` are columns of `users`; `issued` and `live` stand for
`user_activation_tokens`, of which at most one per user is unconsumed. A call is one
transaction: `pc` is `begun` after its reads, `written` after its UPDATE, whose row lock is `writer`,
`checked` once the deferred trigger has let it pass. The trigger of migration `governance.py` is
`enforce_active_owner`: it waits for the advisory lock (`mutex`), which is kept until the end of the transaction, and
reads under READ COMMITTED what is committed by then plus its own write (`StatusSeen`, `RoleSeen`). `Commit`
makes the write visible. An UPDATE that meets a locked row waits and evaluates its WHERE
clause again, which is the `condition` of `Write`.

`bootstrap`/`add_admin` are one transaction that counts the users and inserts the first one
without a lock; `create_user`, `reissue_activation`/`ReplaceCode`, `activate`/`activate_user`, `update_user`/`UpdateRow` and
`break_glass`/`ResetRow` are the service methods, split at the statement where others may come between.
`Authorised` is the permission check, made in an earlier transaction. `Activates` names the commit of an activation. Left out: names and passwords, sessions (they are in
`Login`), audit records.

### How Login corresponds to the code

One account. `factor` is its row of `user_mfa_factors` with `last_accepted_step`, `codes` the unused
recovery codes (one code stands for a set), `challenges` the live rows of `auth_challenges`, `sessions`
those of `auth_sessions` with the challenge that verified them. `arg` is what a call has read before it compares. `totp` is the
setting `totp_enabled`, changed by a restart. `spent` and `reused` are history, which
nothing erases: what has ever let a call through, and what let a second one through. A TOTP code is recorded with the secret it was compared with.

`login` and `LoginStep` are the two halves of `login` around the hash comparison in a thread;
`complete_mfa`/`Complete`, `reauthenticate`/`Elevate` and `change_password`/`SetPassword` are split between the
comparison of the code and the UPDATE that consumes it (`accept_totp_step`, `consume_recovery_code`).
`resolve_challenge` takes the row lock of the challenge and keeps it. `resolve` is the admission of a session by
`resolve_session`. `Lapse` is every kind of expiry together with `purge_expired`.

Three things the code does that the model keeps: an enrollment confirms whatever secret the row holds
by then, though the code was compared with the one that was read (`Confirm`); a second
`begin_mfa_enrollment` replaces a confirmed factor at once; and `accept_totp_step` does not ask for the secret the code was compared with, so
`put_mfa_factor`, which forgets the last step, lets a call that is under way consume a code of the old secret (finding 5). Left out: rate limits and wrong passwords (they only keep a call from
starting), CSRF tokens, the strength of passwords, the race of a login with a change of the password it has just read, and two
replacements of the recovery codes inside one statement's snapshot.

### How Keyring corresponds to the code

`ring` is the keyring file a process was started with. `boot` follows `ensure_keyring`, one transaction in
three steps: `register_keys` inserts missing versions into the registry (`adding`) and waits for another transaction
that has inserted the same version; `check_usage` compares the versions in use and looks for the pepper; `commit_start` writes
the pepper if none was found. The wait on the unique index is what orders two first starts; it works because keyrings in
service at the same time share a version, which is the assumption `Deployable`: an operator adds a key before retiring another.

`row` is the envelope of each encrypted row: the value, the key version the row names and the key that really sealed it.
`reencrypt` keeps a difference of the code: the credential cipher always uses the primary key, the others the target they
are given; the guard `TargetIsPrimary` is what makes the two agree. `process_rotation_batch` is `claim_batch` (advisory lock, job, `FOR UPDATE SKIP LOCKED` over the
first kind with rows left), `count_remaining`, `commit_batch`; on an exception `fail_batch`/`lose_batch` and then `mark_failed`
in a transaction of its own. The status RUNNING is written and replaced within one transaction, so no other
transaction sees it and the model does not have it. Left out: key bytes, AES-GCM, the check values of the registry and the check of legacy installations.

### How Catalog corresponds to the code

`credential`, `host`, `host_key`, `group`, `playbook` and `content` are the tables; a field holds the number of the request
that chose its value, in the order in which clients looked at the rows, so "newer" is `>`. Where a service method
reads, does something else (another query, a scan, a child process) and then writes, it is two or three actions;
where it locks the row first (`rotate`, `save`) or is one statement (`delete_credential`), it is one. `update_credential` carries the version its client saw
and the whole `public_config` it read; `update_host` carries the fields that were not sent. `update_group` has no version: `write_group` takes the row lock and
then sees the members to delete, `replace_group_members` inserts the new ones. `restore_revision` reads the revision, then the
name in another transaction, then validates, then saves.

What the code allows and no property denies: a host may be inserted with a credential that is deleted
after `create_host` looked at it, and a host key that is confirmed for an address may be stored after
the address changed; a run's own checks see the first, and the second is what host key checking by SSH refuses. Left out: names, variables and other
syntactic checks, ZIP import and export, mounted playbooks.

## Runs

| Run | Shows | Bounds |
| --- | --- | --- |
| `execution_safe` | Punctual workers, no database errors, crashes, restarts under the same id: `HostExclusive`, `OwnershipKept`, `ResultsAgree`, `TypeOK` | 2 workers, 2 runs sharing a host, 1 shell session on that host, lease 1 |
| `execution_faulty` | Workers that stall past their lease, any database call may fail: `TargetsSettled`, `CanceledOnRequest`, `FinishedHoldNothing`, `ActiveLockKept`, `SecretLossInterrupts`, `ImplementsLifecycle` | 2 workers, 2 runs, 2 hosts, lease 1 |
| `execution_live` | Fair scheduling, one worker that may be killed, for ever or to be started again under its identifier: `QueueDrains`, `LiveWorkersFinish` | 2 workers, 2 runs of which one may be cancelled, lease 2 |
| `abandoned_run` | Violation: `ClaimedRunsEnd` (finding 1) | 2 workers, 1 run, lease 2 |
| `event_fault` | Violation: `HostExclusive` with database errors (finding 2) | 2 workers, 2 runs, lease 2 |
| `shell_safe` | Punctual streams and runs, database errors, logins revoked, a process that dies: `HostExclusive`, `TicketOnce`, `Admission`, `EndedReleased`, `TypeOK` | 3 sessions on two hosts, capacity 1, 2 streams, 1 run, 1 process, lease 1 |
| `shell_live` | Fair scheduling, stalls allowed: `ActiveLockKept`, `CloseHonoured`, `RevokedEnds`, `LoserStops` | 1 session, 2 streams at one of two API processes, 1 run, lease 1 |
| `requests` | Fair scheduling, lost connections, edits: `OneRunPerKey`, `AnswersMatch`, `EnvelopeMatches`, `TargetsKept`, `RetryFaithful`, `ReplayAnswered`, `CallsEnd`, `TypeOK` | 2 calls, 4 requests (two under one key, retries with and without the sensitive parameter), 2 runs, 2 hosts, 3 revisions: one requires the parameter, one allows it, one does not know it |
| `accounts` | Overlapping administration: `ActiveOwner`, `ActivatedOnce` | 2 users, 2 calls, 2 roles, versions to 3, 2 codes |
| `login` | Codes, challenges and sessions of one account under changes of role, factor and policy: `ConsumedOnce`, `OwnVerification` | 2 calls, 2 challenges, 2 sets of codes, 1 session, 2 TOTP steps |
| `keyring` | A change of the keyring in steps, with writers, a rotation, a stop or failure: `SecretsKept`, `OldKeyUnused`, `PepperStable`, `RotationEnds` | 1 API process, 2 workers, 4 rows (one of each kind), 3 keyrings, batches of 1, 1 job, 3 writes, 1 fault |
| `catalog` | Edits of all tables: `NeverReverted`, `MetadataMatches`, `GroupWhole` | 2 calls, 4 requests, 2 credentials, 2 hosts, 1 group, 2 playbooks |

The largest runs have between one and three million distinct states (`login`, `catalog`, `shell_safe`).

Why these bounds are enough to be interesting. Two workers and two runs that share a
host reach every race the code can have over one resource: two claims, a claim and a
release, a recovery and the owner that wakes up. A second host gives a run a target the other does not
have, so partly acquired lock sets and mixed results occur. Lease 1 already separates
valid from lapsed; lease 2, where progress is the question, lets a renewal happen at a different age than the lapse. In
`execution_faulty` no worker is killed: there a worker may stall for ever,
which to the others is the same thing. Workers are symmetric where no property is
temporal liveness and no worker is singled out. `Reports`, the statuses
Ansible may report for a host before it returns, is `{"SUCCEEDED"}` in `execution_safe`, where `ResultsAgree` compares targets and
run, and empty elsewhere; bad statuses come from the result with which the runner returns, so PARTIAL occurs. A
recovered run is INTERRUPTED for good, so stalls and failures add nothing to what `ResultsAgree` compares.

For the web shell, two sessions on one host compete for the lock, two streams for one
ticket, and a run for the host with either. The third session, on the other host, is kept out
by the capacity only, which is what `Admission` is about. Streams that stall while the database fails are
the subject of the theorems `Release` and `Admitted`, which need no punctuality. In `shell_live` both streams are at one API process, so that they
meet in its `_active`; the other process is there for the request to close that reaches a process which does not serve the terminal. Session ids are not used twice,
as in the code (UUIDs); a `GONE` row is one that was deleted.

For requests, two calls race for a key, or one comes late; with the requests of a retry and of its
source they are a run and its retry. Three calls are covered by the theorems. The request of two hosts names a group, so that it may be resolved to one of
them. Three revisions give an edit that makes a required parameter optional and one that drops it; the retry without the parameter
is one that must be refused although the revision would let it pass.

For accounts, two owners and two transactions are the smallest case in which each can remove
the other; version 3 lets an account be activated, changed and changed again. For the login, two calls compare the same code, or a code
and a reset overlap; two challenges are a login and an enrollment or two enrollments, of which the second replaces the secret
under a call in progress; two steps let a code be late. One session that is opened, elevated and outlived is enough, since no property relates two sessions. For the keyring, one fault is a worker that dies in the middle of a batch or a process
that is restarted with another keyring; batches of one row force a rotation to take several
turns, and three writes are the pepper and two secrets, of which one is written under the old key during the
rotation. For the catalogue, four requests are two that overlap and two that happen between their steps; every property there is about
one row and its references, so one group is enough.
`CHECK_DEADLOCK FALSE` stands where calls, requests or versions are used up: their number is a bound, not a claim.

Fairness (`FairSpec`). A process that is not killed keeps taking steps, PostgreSQL
answers, and every Ansible execution ends because `timeout_seconds` is enforced;
hence weak fairness of the main task (`MainTask`: start, loop, `execute_run`'s own steps and
handlers, of which its position enables one), of `RunnerReturns`, `ThreadEnds` and the monitor's beat, per worker. Every process is
started once; a killed one may be started again or not, and it is killed finitely often. `Tick` is strongly fair because an
open claim transaction disables it for less than a tick. Nothing is assumed of
users, of failures or of cancellation.
In `WebShell`, `FairSpec` makes the steps of `stream()` (`Stream(c)`) and the monitor's `heartbeat(c)`
weakly fair: coroutines of one event loop, disabled for ever only when the process dies. Nothing is assumed of the browser, of the SSH client
or of the processes: `Leave`, `close_active`, `stop` and `StartApi` may never happen.
In `RunRequests` it makes the steps of each call weakly fair, and nothing else: users, edits and
the ends of runs may never happen, connections may be lost.
In `Keyring` it makes `process_rotation_batch(w)` weakly fair, since the worker loop asks for a
batch at every poll (once a second), and `commit_write(a)`, since no transaction stays open. `RotationEnds` is conditional: it speaks of
behaviours in which some worker stays up, and the run bounds writes and faults: a process that writes under the old primary key
without end keeps finding the job something to do, and the job PENDING. `Accounts`, `Login` and `Catalog` have safety properties only.

Every property of a passing run has a mutant in `PROJECT.json`, a small change of a
mapped definition that a programmer could make (a dropped WHERE condition, a forgotten DELETE,
a swallowed exception), under which TLC finds the property violated. The mutated
operators stand next to the definitions they replace, marked `Mutant:`.

## Findings

1. **Abandoned runs** (`abandoned_run`). The design says a starting worker marks what it
   left PREPARING or RUNNING as INTERRUPTED. The code does so at start only and for
   lapsed leases only: after a restart within the lease, or with another worker
   that was already running, the dead worker's run stays active for ever. When
   its identifier is fresh, as it is by default, the locks lapse and the queue still drains.
2. **Event failure frees hosts too early** (`event_fault`). When `append_event` raises,
   `execute_run` finishes the run and deletes its locks without stopping or joining
   its Ansible thread; the next run starts on the same host (INV-12). The path of a failing
   monitor does cancel and join.
3. **A pinned worker identifier holds hosts for ever** (`execution_live`). With `OPS_COMPOSER_WORKER_ID` set (worker.py:824) a worker
   restarted within its lease finds that lease running and leaves its old run alone; its heartbeats, which tell locks by `owner_id`
   (repositories/runs.py:272-280), then renew the old run's locks as well. A run queued for such a host waits as long as the worker lives.
   `QueueDrains` excepts the runs behind such a leftover (`Orphaned`) and nothing else.
4. **Lost parameters, status FAILED** (`execution_faulty`). If the event `run_started` cannot be stored after `mark_running` (worker.py:597-599),
   the handler at worker.py:667-681 ends the run FAILED, although its sensitive parameters are consumed and Ansible
   was never launched; INV-30 of the design demands INTERRUPTED. `SecretLossInterrupts` claims what the code keeps: until `mark_running`.
5. **A TOTP code used twice** (`login`). Two calls compare the same code; one consumes it; the factor is replaced, which resets
   `last_accepted_step` (auth/repository.py:616-620), and confirmed with an earlier step; the UPDATE of the second
   call (auth/repository.py:644-650) does not look at the secret and succeeds. INV-24 of the design says that a step is consumed once.
   `ConsumedOnce` excepts the codes of a secret that is no longer in force and nothing else.

Findings 1 and 2 are violation runs. Findings 3 to 5 belong to passing runs that reach the case: the property excepts
exactly it, and TLC finds the property violated when the exception is taken out.

`HostExclusive` therefore holds in `execution_safe` and in the theorem `Exclusion`
under the two assumptions that make it true, and they are stated: workers renew in
time (`Punctual`) and their database calls do not fail (`~Faults`).

## Proofs

Every safety property that a passing run checks is also a theorem, for every value of the constants.
The pattern is always the same: an inductive invariant, checked by TLC on the run's instance before
it was proved; one step of the proof per action; the temporal conclusion by `PTL`. What follows says for each theorem
which invariant it needs and why the property alone is not inductive.

For run execution, the theorems hold for every set of workers, runs, hosts and shells, every assignment of
targets and every lease length; `RunExecutionAssumption` is the only assumption on the constants.

* `TypeCorrect`: `Spec => []TypeOK`. Inductive with one addition, that a worker
  past the runner has a terminal `result` and a busy one a run, so that what `finish` writes is a status.
* `Exclusion`: `Spec => []HostExclusive` for punctual workers without database errors.
  The inductive invariant `ExclusionInv` is `TypeOK` and two parts. `BusySecure`: a worker
  in `execute_run` has a lease row that has not lapsed, owns its run, which is active, and holds a lock on every one of its hosts with at least the time of its lease left.
  `Attended`: every live thread belongs to a worker that is in `exec` with that very run.
  Two threads on one host, or a thread and a session, would then be two holders of one lock row. `Punctual` is needed where `Tick`
  could lapse a busy worker's lease; `~Faults` where an error would leave a thread unattended.
* `Ownership`: `Spec => []OwnershipKept`, from the same invariant: `recover_stale` takes only
  lapsed leases, and cancellation leaves an active run active.
* `LifecycleKept`: `Spec => Lifecycle!Spec`, with no assumption on punctuality or failures.
  Its invariant `LifeInv` adds `Staged`: where a worker stands tells how far its run can have come (a
  worker that still holds a claim's row lock sees a queued run, one that has yet to launch has a run that was
  never launched, a run that has an owner was claimed once). It is what makes a stalled worker's late writes harmless.
  Its lemma `OwnRun` (two busy workers have different runs, and neither run is queued) serves the theorems below.
* `HostsReleased` and `LocksRespected`: `FinishedHoldNothing` and `ActiveLockKept`, both from
  `HeldActive`, a host is held for a run only while the run is active. The first needs the stronger form because a queued run must
  hold nothing either: `request_cancel` ends it without touching the locks.
* `CanceledAsAsked`: `CanceledOnRequest`. `CancelTold` follows the cancel event from the monitor to the
  result: it is set for a cancellation that was asked for, or in `join`, from where no result is ever settled.
* `NoTargetLeft` and `AggregateAgrees`: `TargetsSettled` and `ResultsAgree`. `ResultsInv` is `LifeInv` with
  `Agreed` (the rows of each run and its targets) and `Accumulated`: what a worker still has to write and the targets it has already
  written add up to the result it will report (`Settling`). Lemma `WrittenStays` is the crux: between its transactions nobody
  else changes a target it has settled, because a recovery touches only targets that are waiting or running. No assumption on
  timing or failures: a stalled worker that writes targets of an interrupted run writes settled statuses.
* `LossInterrupts`: `SecretLossInterrupts`, with no assumption on timing or failures. `SecretsKnown` says that before `mark_running` a worker whose run's
  secrets are consumed knows it (`burnt`), so that each of the handlers it can still reach writes INTERRUPTED. The theorem ends
  with `mark_running` because the property does (finding 4).

For the web shell, from `WebShellAssumption`:

* `ShellTypeCorrect`: `Spec => []TypeOK`, inductive as it stands.
* `SingleUse`: `Spec => []TicketOnce`, with no assumption on timing or failures. `TicketInv`
  adds that a row which is still PENDING has no owner: `claim` needs PENDING, so
  whoever finds it finds it unowned.
* `ShellExclusion`: `Spec => []HostExclusive` for punctual streams and runs. `ExclusionInv` adds
  `Holds` (a stream that holds its ticket has an unlapsed, open session and an unlapsed lock with its owner id, which last equally long),
  `Terms` (an SSH client belongs to a stream between start and close) and `Works` (the same for runs).
  Unlike `Exclusion` of the runs it needs no assumption on failures: every way out of
  `stream()` closes the terminal before it touches the row.
* `Release`: `Spec => []EndedReleased`. `ReleaseInv` adds `Tied` and `LockOwned`: a lock with an
  owner id is that of the session the owner claimed, so that deleting the row by cascade frees it.
* `Admitted`: `Spec => []Admission`. Cleanup in the same transaction as the count makes the count of unlapsed
  sessions the count of all; its cardinality argument is `FS_AddElement` and `FS_Subset`.
* `LocksHonoured`: `Spec => ActiveLockKept`, from type correctness alone: only the upsert of `create` and the claim of a run
  write another holder, and both find a lock that has lapsed.

For requests, from `RunRequestsAssumption`, and without assumptions on timing or failures:

* `RequestsTyped`: `Spec => []TypeOK`, inductive as it stands.
* `KeyedOnce` and `Answers`: `OneRunPerKey` and `AnswersMatch`. `KeyInv` strengthens them to the rows
  that are not yet committed: of all rows, open ones included, at most one has a given key (`Unique`), and a
  call between insertion and commit has an open row of its own that carries its request (`Own`). The
  first is what the unique index gives, the second what makes a rollback harmless to others.
* `Envelopes`: `EnvelopeMatches`: a queued run has an envelope exactly if its request gave the parameter, then its revision declares it, a
  revision that requires it has one, and so has a retry whose source was given it. `SealedInv` carries the agreement of parameters and pinned
  revision from the call that found it (`insert`) over its open row to the commit; what is said of retries needs `RetryInv` below.
* `Targets`: `TargetsKept`. `HostedInv` says of open rows already that their hosts exist, which
  the foreign key guarantees until the commit finds their keys confirmed.
* `Retries`: `RetryFaithful`. `RetryInv` says the same of calls about to insert and of open
  rows; a finished run is never touched again (`EndedStays`), so a copy of it stays a copy.
* `Replays`: `ReplayAnswered`. `ReplayInv` adds that a late call always finds its key's
  run and never gets past the lookup, or, as a retry, gets past a validation that its run
  once passed, on a source that has not changed since.

Three lemmas carry these proofs: `RowMoves` (a step inserts a row, keeps it or rolls it back), `CallMoves` (what a step
can do to a call) and `EnvelopeMoves`.

For accounts, from `AccountsAssumption` and for any users, roles and number of overlapping transactions:

* `Owners`: `Spec => []ActiveOwner` (INV-23). `ActiveOwner` speaks of committed rows and is not inductive: a
  commit may take an owner away, and what excuses it is what the trigger saw some steps earlier. `AccountsInv` adds
  `Held` (a locked row belongs to the call that wrote it, and to no other) and `Passed`: a call that has passed the trigger has the advisory
  lock and *still* sees an owner. It stays so because whoever else could change role or status must pass the trigger too; rows that are inserted
  only add. The mutant that drops the advisory lock breaks exactly `Passed`.
* `Activations`: `Spec => ActivatedOnce`. `Awaited` and `Permitted` carry the checks of the service over the wait
  for the row: a row that an activation has written is still pending below, and a row with the version an update expects is the row the update was allowed for, because every
  write raises the version and a written row is locked. That a code activates once needs `Unused`: an account that is absent or pending was never activated, and an
  activation under way has the user's code to itself, which stays live until it commits.
* `AccountsTyped`: `Spec => []TypeOK`.

For the login, from `LoginAssumption`, for any number of calls, challenges, sets of codes, sessions and steps:

* `LoginKept`: `Spec => []LoginInv`. What a call has compared may be stale when it writes, so the invariant speaks
  of what the *rows* still accept: no step of the present secret above the last accepted one (`StepsUnspent`), no code that is left
  (`CodesUnspent`) and no live challenge (`ChallengesUnspent`) was ever used; and a challenge under way is live and locked by
  one call (`Locked`, the `FOR UPDATE` of `resolve_challenge`).
* `UsedOnce` (`ConsumedOnce`) is one of its parts: whatever was used twice is a TOTP code of a secret that has been replaced, and a replaced
  secret never comes back, since every enrollment has a new one. `VerifiedSessions` (`OwnVerification`) follows from another: a session with a verification
  names a completed challenge (`Verified`), and `resolve` looks for one.

For the keyring, from `KeyringAssumption`, for any rows, keyrings, processes and batches, stops and failures included:

* `KeyringKept`: `Spec => []KeyringInv`, in three arguments. *Row locks*: what a writer (`WritesHeld`) or a batch (`BatchesHeld`) has computed
  from a row is still right when it commits, since it holds the row. *The advisory lock*: one batch is in progress at most (`OneBatch`), so what it counted
  is right about every row but those stored since (`CountedRight`). *The registry*: while there is no pepper, one process at most is past its first
  INSERT (`FirstStart`), for the keyrings of two processes that run at a time share a version, whose uncommitted row the second waits for.
* `SecretsSafe` (`SecretsKept`), `OldKeyRetired` (`OldKeyUnused`) and `PepperOnce` (`PepperStable`) follow from the first, the second and the third.

For the catalogue, from `CatalogAssumption`, for any rows and any number of overlapping requests:

* `CatalogKept`: `Spec => []CatalogInv`. For the tables with a version: as long as a row still has the version that a
  call expects, what the call read of it is still there, so the candidate it will write is not older (`CredentialCall`, `HostCall`, `PlaybookCall`). For groups, which have
  none: from the UPDATE of its row to the commit a transaction has the row locked, and the group has no member that the transaction did not see (`GroupCall`).
* `MetadataCurrent` (`MetadataMatches`), `GroupsWhole` (`GroupWhole`) and `NothingReverted` (`NeverReverted`) follow from it.

The assumptions on the constants are facts about configuration and naming: `Nobody`, the model's NULL, is nobody's
name; bounds are natural numbers, the lease, batches and TOTP steps at least one; there is a keyring, and a keyring's primary version is one of its
versions. TLC evaluates each of them in a run.

Only model-checked: the liveness properties (`QueueDrains`, `LiveWorkersFinish`, `CloseHonoured`, `RevokedEnds`, `LoserStops`,
`CallsEnd`, `RotationEnds`), since fairness and ENABLED are out of the prover's reach.

## Not modelled

* The audit log is written inside the transactions of the other parts and never read back by a decision.
  Settings, health and the command line have no state of their own; the commands that change users are in `Accounts` and `Login`.
* Migrations run before the system starts. Their engine takes a lock and applies files in order;
  the one migration whose code runs later, the owner trigger, is in `Accounts`.
* The event stream (`api/runs.py`) reads the events and then the status in two
  transactions, and the page closes its stream when its own poll of the run sees a terminal
  status. It writes nothing and no other part depends on it; what the last page load shows is complete. It stays a hazard without a property.
* The frontend keeps no authoritative state.
* Validators of playbooks, ZIP archives and inventories, ciphers and hashes are pure functions of their
  input; mounted playbooks are files outside the program's control.
* Rate limits, CSRF tokens and terminal bytes: see the sections on the modules.

## Plan

1. `RunExecution`, `RunLifecycle`, `WebShell`, `RunRequests` and their proofs: done.
2. `Accounts` and its proofs: done.
3. `Login`, `Keyring`, `Catalog` and their proofs: done.
4. All safety properties of `RunExecution` and `WebShell` are proved. Candidates for what comes next are an abstract
   specification of a host's holder that `RunExecution` and `WebShell` both implement, and one of the ticket of a web shell session.
