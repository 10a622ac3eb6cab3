---------------------------- MODULE RunExecution ----------------------------
(***************************************************************************)
(* The durable run queue and the worker processes that drain it.           *)
(*                                                                         *)
(* The tables runs, run_targets, run_secret_inputs, host_execution_locks   *)
(* and worker_leases live in PostgreSQL; one unit of work is one           *)
(* transaction, hence one step.  The exception is the claim: its candidate *)
(* query and its lock insertion are two statements that see different      *)
(* snapshots, so they are two steps, between which other transactions      *)
(* commit.                                                                 *)
(*                                                                         *)
(* Time is relative.  A row with an expires_at column carries the number   *)
(* of ticks left before it lapses; 0 means expires_at <= now.  Tick lets   *)
(* one tick pass for every row, so the model has no bounded clock.         *)
(***************************************************************************)
EXTENDS Naturals

CONSTANTS
  Workers,      \* worker identifiers (worker_id, one per process start)
  Runs,         \* run identifiers
  Hosts,        \* managed hosts
  Shells,       \* web shell sessions: the other possible holders of a host
  ShellHost,    \* the host of each session
  Nobody,       \* SQL NULL: no run, no worker, no holder
  Targets,      \* the hosts a run was resolved to when it was created
  Sensitive,    \* the runs created with sensitive parameters
  Cancelable,   \* the runs that users cancel, a bound on what they do
  Lease,        \* worker_lease_seconds, in ticks
  Reports,      \* target statuses the runner's events report
  Punctual,     \* a live worker acts again before its lease lapses
  Faults,       \* a database call of a worker may fail
  ReuseIds,     \* OPS_COMPOSER_WORKER_ID pins the identifier over restarts
  Mortal        \* the workers whose process may be killed

ASSUME RunExecutionAssumption ==
  /\ Targets \in [Runs -> (SUBSET Hosts) \ {{}}]
  /\ Sensitive \subseteq Runs /\ Cancelable \subseteq Runs
  /\ Lease \in Nat \ {0}
  /\ Reports \subseteq {"SUCCEEDED", "FAILED", "UNREACHABLE", "SKIPPED"}
  /\ Punctual \in BOOLEAN
  /\ Faults \in BOOLEAN
  /\ ReuseIds \in BOOLEAN
  /\ Mortal \subseteq Workers
  /\ Nobody \notin Workers \union Runs \union Shells
  /\ Runs \intersect Shells = {}
  /\ ShellHost \in [Shells -> Hosts]

VARIABLES
  status,       \* runs.status, "ABSENT" before the row is inserted
  older,        \* runs.created_at: the runs created before each run
  claimedBy,    \* runs.claimed_by
  cancelAsked,  \* runs.cancel_requested_at IS NOT NULL
  secret,       \* the run's row of run_secret_inputs
  target,       \* run_targets.status
  lock,         \* host_execution_locks: holder, owner_id, time left
  leased,       \* the worker_ids that have a row in worker_leases
  ttl,          \* time left of those rows
  pc,           \* where each worker process is
  job,          \* active_run of the worker loop
  burnt,        \* secret_inputs_irrecoverable of execute_run
  cancelSet,    \* the threading.Event cancel of execute_run
  outcome,      \* the TargetAccumulator statuses of execute_run
  result,       \* what the runner thread returned, then final_status
  todo,         \* the targets execute_run has still to persist
  exec,         \* <<worker, run>>: runner threads that are alive
  launched      \* history: the runs a thread was ever started for

tables  == <<status, older, claimedBy, cancelAsked, secret, target>>
leases  == <<lock, leased, ttl>>
locals  == <<pc, job, burnt, cancelSet, outcome, result, todo>>
threads == <<exec, launched>>
vars    == <<status, older, claimedBy, cancelAsked, secret, target, lock, leased,
             ttl, pc, job, burnt, cancelSet, outcome, result, todo, exec, launched>>

Active      == {"PREPARING", "RUNNING"}
Terminal    == {"SUCCEEDED", "PARTIAL", "FAILED", "CANCELED", "TIMED_OUT",
                "INTERRUPTED", "REJECTED"}
RunStatus   == {"QUEUED"} \union Active \union Terminal
Unsettled   == {"PENDING", "RUNNING"}
TargetStatus == Unsettled \union {"SUCCEEDED", "FAILED", "CANCELED", "SKIPPED",
                                  "UNREACHABLE", "INTERRUPTED"}
Good        == {"SUCCEEDED", "SKIPPED"}

\* What AnsibleExecutor.run returns: rc 0, another rc, status timeout, or no rc.
Returns == {"ok", "failed", "timeout", "unknown"}

\* The worker is inside execute_run, or in the loop's handler of its failure.
Busy == {"secrets", "materials", "reject", "runtime", "unready", "started", "exec",
         "join", "error", "settle", "escape"}
\* A process exists.
Alive == {"loop", "poll", "claim"} \union Busy

Free == [holder |-> Nobody, owner |-> Nobody, left |-> 0]
-----------------------------------------------------------------------------
(***************************************************************************)
(* What a worker process keeps in memory besides its position.             *)
(***************************************************************************)

\* The event, the accumulators and the runner's result as execute_run finds them.
Forget(w) ==
  /\ cancelSet' = [cancelSet EXCEPT ![w] = FALSE]
  /\ outcome'   = [outcome EXCEPT ![w] = [h \in Hosts |-> "RUNNING"]]
  /\ result'    = [result EXCEPT ![w] = "none"]
  /\ todo'      = [todo EXCEPT ![w] = {}]

GoTo(w, p) == pc' = [pc EXCEPT ![w] = p]

\* active_run is None again; the locals of execute_run are gone.
Drop(w, p) ==
  /\ GoTo(w, p)
  /\ job' = [job EXCEPT ![w] = Nobody]
  /\ burnt' = [burnt EXCEPT ![w] = FALSE]
  /\ Forget(w)

\* An exception: its handlers use no more than the run and the secrets' fate.
Raise(w, p) == GoTo(w, p) /\ Forget(w) /\ UNCHANGED <<job, burnt>>

\* Only the position changes; the memory of execute_run is kept.
Stay(w, p) ==
  GoTo(w, p) /\ UNCHANGED <<job, burnt, cancelSet, outcome, result, todo>>
-----------------------------------------------------------------------------
(***************************************************************************)
(* Transactions of PostgresRunRepository.                                  *)
(***************************************************************************)

\* Mutant: a renewed lock gets a lease on top of the time it has left.
ExtendedOnTop(w) ==
  [h \in Hosts |-> IF lock[h].owner = w /\ lock[h].holder \in Runs
                     THEN [lock[h] EXCEPT !.left = @ + Lease] ELSE lock[h]]

\* Mutant: the heartbeat's UPDATE lacks its condition on owner_id.
ExtendedForAll(w) ==
  [h \in Hosts |-> IF w \in Workers /\ lock[h].holder \in Runs
                     THEN [lock[h] EXCEPT !.left = Lease] ELSE lock[h]]

\* heartbeat: upsert the lease row, extend every run lock the worker owns.
Extended(w) ==
  [h \in Hosts |-> IF lock[h].owner = w /\ lock[h].holder \in Runs
                     THEN [lock[h] EXCEPT !.left = Lease] ELSE lock[h]]

heartbeat(w) ==
  /\ leased' = leased \union {w}
  /\ ttl' = [ttl EXCEPT ![w] = Lease]
  /\ lock' = Extended(w)

\* The row locks of open claim transactions (FOR UPDATE ... SKIP LOCKED).
RowLocked(r) == \E w \in Workers : pc[w] = "claim" /\ job[w] = r

\* The rows the candidate query of claim_next may return.
Eligible(r) ==
  /\ status[r] = "QUEUED"
  /\ \A h \in Targets[r] : lock[h].left = 0
  /\ ~RowLocked(r)

Candidate(r) ==
  /\ Eligible(r)
  /\ \A q \in Runs : Eligible(q) => q \notin older[r]

\* Mutant: the upsert lacks its WHERE expires_at <= now.
AcquirableAnyway(r) == r \in Runs

\* The INSERT ... ON CONFLICT DO UPDATE ... WHERE expires_at <= now.
Acquirable(r) == \A h \in Targets[r] : lock[h].left = 0

Acquire(w, r) ==
  lock' = [h \in Hosts |-> IF h \in Targets[r]
                             THEN [holder |-> r, owner |-> w, left |-> Lease]
                             ELSE Extended(w)[h]]

\* recover_stale: runs claimed by a lapsed lease, and what they held.
Lapsed == {w \in leased : ttl[w] = 0}

\* Mutant: the join with worker_leases is dropped.
AbandonedAll == {r \in Runs : status[r] \in Active}

Abandoned == {r \in Runs : status[r] \in Active /\ claimedBy[r] \in Lapsed}

recover_stale ==
  /\ leased' = leased \ Lapsed
  /\ status' = [r \in Runs |-> IF r \in Abandoned THEN "INTERRUPTED" ELSE status[r]]
  /\ target' = [r \in Runs |-> [h \in Hosts |->
                  IF r \in Abandoned /\ target[r][h] \in Unsettled
                    THEN "INTERRUPTED" ELSE target[r][h]]]
  /\ lock' = [h \in Hosts |-> IF lock[h].left = 0 \/ lock[h].holder \in Abandoned
                                THEN Free ELSE lock[h]]

\* mark_running: no condition on claimed_by, no check of the row count.
mark_running(r) ==
  /\ status' = [status EXCEPT ![r] = IF @ = "PREPARING" THEN "RUNNING" ELSE @]
  /\ target' = [target EXCEPT ![r] = [h \in Hosts |->
                  IF @[h] = "PENDING" THEN "RUNNING" ELSE @[h]]]

\* finish: the status given to the targets that have none of their own.
Fallback(s) ==
  CASE s = "CANCELED"                -> "CANCELED"
    [] s = "INTERRUPTED"             -> "INTERRUPTED"
    [] s \in {"SUCCEEDED", "PARTIAL"} -> "SKIPPED"
    [] OTHER                         -> "FAILED"

\* Mutant: the UPDATE lacks its condition on the status.
OwnedByClaim(w, r) == claimedBy[r] = w

\* The WHERE clause of finish's UPDATE runs.
Owned(w, r) == claimedBy[r] = w /\ status[r] \in Active

\* Mutant: the DELETE FROM host_execution_locks is forgotten.
finish_locked(w, r, s) ==
  /\ Owned(w, r)
  /\ status' = [status EXCEPT ![r] = s]
  /\ target' = [target EXCEPT ![r] = [h \in Hosts |->
                  IF @[h] \in Unsettled THEN Fallback(s) ELSE @[h]]]
  /\ UNCHANGED <<older, claimedBy, cancelAsked, secret, leases>>

\* One transaction; it commits only if it updated the row of runs.
finish(w, r, s) ==
  /\ Owned(w, r)
  /\ status' = [status EXCEPT ![r] = s]
  /\ target' = [target EXCEPT ![r] = [h \in Hosts |->
                  IF @[h] \in Unsettled THEN Fallback(s) ELSE @[h]]]
  /\ lock' = [h \in Hosts |-> IF lock[h].holder = r THEN Free ELSE lock[h]]
  /\ UNCHANGED <<older, claimedBy, cancelAsked, secret, leased, ttl>>
-----------------------------------------------------------------------------
(***************************************************************************)
(* The API.                                                                *)
(***************************************************************************)

\* RunService._create and retry: run, targets and secret envelope at once.
Create(r) ==
  /\ status[r] = "ABSENT"
  /\ status' = [status EXCEPT ![r] = "QUEUED"]
  /\ older' = [older EXCEPT ![r] = {q \in Runs : status[q] # "ABSENT"}]
  /\ secret' = [secret EXCEPT ![r] = IF r \in Sensitive THEN "stored" ELSE "none"]
  /\ target' = [target EXCEPT ![r] = [h \in Hosts |->
                  IF h \in Targets[r] THEN "PENDING" ELSE "NONE"]]
  /\ UNCHANGED <<claimedBy, cancelAsked, leases, locals, threads>>

\* Mutant: the targets of a canceled queued run stay PENDING.
request_cancel_run(r) ==
  /\ status[r] \in {"QUEUED"} \union Active
  /\ cancelAsked' = [cancelAsked EXCEPT ![r] = TRUE]
  /\ status' = [status EXCEPT ![r] = IF @ = "QUEUED" THEN "CANCELED" ELSE @]
  /\ UNCHANGED target

\* A queued run ends, an active one is only marked.
request_cancel(r) ==
  /\ status[r] \in {"QUEUED"} \union Active
  /\ cancelAsked' = [cancelAsked EXCEPT ![r] = TRUE]
  /\ status' = [status EXCEPT ![r] = IF @ = "QUEUED" THEN "CANCELED" ELSE @]
  /\ target' = [target EXCEPT ![r] = [h \in Hosts |->
                  IF status[r] = "QUEUED" /\ @[h] = "PENDING" THEN "CANCELED" ELSE @[h]]]

\* RunService.cancel, which waits for a claim that has the row.
cancel(r) ==
  /\ r \in Cancelable
  /\ ~RowLocked(r)
  /\ request_cancel(r)
  /\ UNCHANGED <<older, claimedBy, secret, leases, locals, threads>>
-----------------------------------------------------------------------------
(***************************************************************************)
(* The worker process: run_worker and its claim.                           *)
(***************************************************************************)

\* run_worker up to its loop.  Recovery of lapsed leases happens here only.
Start(w) ==
  /\ pc[w] \in {"off"} \union (IF ReuseIds THEN {"dead"} ELSE {})
  /\ \A r \in Runs : <<w, r>> \notin exec
  /\ recover_stale
  /\ Drop(w, "loop")
  /\ UNCHANGED <<older, claimedBy, cancelAsked, secret, ttl, threads>>

\* The heartbeat at the top of every iteration.
LoopHeartbeat(w) ==
  /\ pc[w] = "loop"
  /\ heartbeat(w)
  /\ Stay(w, "poll")
  /\ UNCHANGED <<tables, threads>>

\* claim: the candidate query takes the row lock of the oldest eligible run.
ClaimSelect(w, r) ==
  /\ pc[w] = "poll"
  /\ Candidate(r)
  /\ GoTo(w, "claim")
  /\ job' = [job EXCEPT ![w] = r]
  /\ UNCHANGED <<tables, leases, burnt, cancelSet, outcome, result, todo, threads>>

\* claim with an empty queue commits its heartbeat and returns None.
ClaimNothing(w) ==
  /\ pc[w] = "poll"
  /\ \A r \in Runs : ~Eligible(r)
  /\ heartbeat(w)
  /\ Stay(w, "loop")
  /\ UNCHANGED <<tables, threads>>

\* claim commits: the run, the locks of all its hosts and the lease.
ClaimCommit(w) ==
  LET r == job[w] IN
  /\ pc[w] = "claim"
  /\ Acquirable(r)
  /\ status' = [status EXCEPT ![r] = "PREPARING"]
  /\ claimedBy' = [claimedBy EXCEPT ![r] = w]
  /\ Acquire(w, r)
  /\ leased' = leased \union {w}
  /\ ttl' = [ttl EXCEPT ![w] = Lease]
  /\ Stay(w, "secrets")
  /\ UNCHANGED <<older, cancelAsked, secret, target, threads>>

\* ClaimCollisionError: the whole transaction, its heartbeat included, is undone.
ClaimCollision(w) ==
  /\ pc[w] = "claim"
  /\ ~Acquirable(job[w])
  /\ Drop(w, "loop")
  /\ UNCHANGED <<tables, leases, threads>>
-----------------------------------------------------------------------------
(***************************************************************************)
(* execute_run: preparation.                                               *)
(***************************************************************************)

\* The envelope is deleted where it is read; without one, the call raises.
consume_secret_inputs(r) == secret' = [secret EXCEPT ![r] = "consumed"]

\* At most once per run.  What is wrong with the envelope undoes the deletion: a
\* ValueError (it does not decrypt) reaches the handler of preparation errors, as one
\* about the run's own metadata does, a RuntimeError (it does not hold the parameters
\* that the run names) the worker loop's.
ConsumeSecrets(w) ==
  LET r == job[w] IN
  /\ pc[w] = "secrets"
  /\ \/ /\ r \notin Sensitive
        /\ Stay(w, "materials")
        /\ UNCHANGED secret
     \/ /\ r \in Sensitive
        /\ consume_secret_inputs(r)
        /\ burnt' = [burnt EXCEPT ![w] = TRUE]
        /\ GoTo(w, IF secret[r] = "stored" THEN "materials" ELSE "reject")
        /\ UNCHANGED <<job, cancelSet, outcome, result, todo>>
     \/ Stay(w, "reject") /\ UNCHANGED secret
     \/ r \in Sensitive /\ Raise(w, "escape") /\ UNCHANGED secret
  /\ UNCHANGED <<status, older, claimedBy, cancelAsked, target, leases, threads>>

\* Playbook revision, inventory, credentials and host keys: loaded, or refused.
Prepare(w) ==
  /\ pc[w] = "materials"
  /\ \E p \in {"runtime", "reject"} : Stay(w, p)
  /\ UNCHANGED <<tables, leases, threads>>

\* Mutant: the handler forgets that the secrets are gone.
RejectAlways(w) ==
  /\ pc[w] = "reject"
  /\ finish(w, job[w], "REJECTED")
  /\ Drop(w, "loop")
  /\ UNCHANGED threads

\* The handler of a preparation error.
Reject(w) ==
  /\ pc[w] = "reject"
  /\ finish(w, job[w], IF burnt[w] THEN "INTERRUPTED" ELSE "REJECTED")
  /\ Drop(w, "loop")
  /\ UNCHANGED threads

\* Runtime directory, agents and files; then mark_running.
MarkRunning(w) ==
  /\ pc[w] = "runtime"
  /\ mark_running(job[w])
  /\ Stay(w, "started")
  /\ UNCHANGED <<older, claimedBy, cancelAsked, secret, leases, threads>>

\* Creating the runtime directory or an agent fails before mark_running.
RuntimeError(w) ==
  /\ pc[w] = "runtime"
  /\ Stay(w, "unready")
  /\ UNCHANGED <<tables, leases, threads>>
-----------------------------------------------------------------------------
(***************************************************************************)
(* execute_run: the runner thread, its monitor and its events.             *)
(***************************************************************************)

\* The run_started event is persisted and the runner thread starts.
Launch(w) ==
  /\ pc[w] = "started"
  /\ Stay(w, "exec")
  /\ exec' = exec \union {<<w, job[w]>>}
  /\ launched' = launched \union {job[w]}
  /\ UNCHANGED <<tables, leases>>

\* The monitor of a live thread beats, also when execute_run has left the
\* thread behind; in "join" the monitor has failed.
MonitorBeat(w, r) ==
  /\ <<w, r>> \in exec
  /\ pc[w] \in Alive
  /\ ~(pc[w] = "join" /\ job[w] = r)
  /\ heartbeat(w)
  /\ UNCHANGED <<tables, locals, threads>>

\* The monitor reads cancel_requested_at and sets the event; it may be between
\* its check of execution.done() and this read when the thread ends.
MonitorCancel(w) ==
  /\ pc[w] = "exec"
  /\ cancelAsked[job[w]]
  /\ cancelSet' = [cancelSet EXCEPT ![w] = TRUE]
  /\ UNCHANGED <<tables, leases, pc, job, burnt, outcome, result, todo, threads>>

\* A runner event about one host updates its accumulator; the last one counts.
RunnerEvent(w, h) ==
  /\ pc[w] = "exec"
  /\ h \in Targets[job[w]]
  /\ \E s \in Reports : outcome' = [outcome EXCEPT ![w][h] = s]
  /\ UNCHANGED <<tables, leases, pc, job, burnt, cancelSet, result, todo, threads>>

\* The runner thread returns while execute_run still waits for it.
RunnerReturns(w) ==
  /\ pc[w] = "exec"
  /\ <<w, job[w]>> \in exec
  /\ exec' = exec \ {<<w, job[w]>>}
  /\ \E o \in Returns : result' = [result EXCEPT ![w] = o]
  /\ UNCHANGED <<tables, leases, pc, job, burnt, cancelSet, outcome, todo, launched>>

\* The runner thread raises instead; await execution re-raises it.
RunnerRaises(w) ==
  /\ pc[w] = "exec"
  /\ <<w, job[w]>> \in exec
  /\ exec' = exec \ {<<w, job[w]>>}
  /\ Raise(w, "error")
  /\ UNCHANGED <<tables, leases, launched>>
-----------------------------------------------------------------------------
(***************************************************************************)
(* execute_run: results.                                                   *)
(***************************************************************************)

\* Mutant: what the runner reported wins over the cancellation.
SettledReported(w, h) ==
  IF outcome[w][h] # "RUNNING" THEN outcome[w][h]
  ELSE IF cancelSet[w] THEN "CANCELED"
  ELSE IF result[w] = "ok" THEN "SUCCEEDED" ELSE "FAILED"

\* An accumulator's status once the runner is done.
Settled(w, h) ==
  IF cancelSet[w] THEN "CANCELED"
  ELSE IF outcome[w][h] # "RUNNING" THEN outcome[w][h]
  ELSE IF result[w] = "ok" THEN "SUCCEEDED" ELSE "FAILED"

FinalStatus(w) ==
  LET good == {h \in Targets[job[w]] : Settled(w, h) \in Good}
      bad  == Targets[job[w]] \ good
  IN  IF cancelSet[w] THEN "CANCELED"
      ELSE IF result[w] = "timeout" THEN "TIMED_OUT"
      ELSE IF good # {} /\ bad # {} THEN "PARTIAL"
      ELSE IF bad # {} \/ result[w] = "failed" THEN "FAILED"
      ELSE "SUCCEEDED"

\* The thread is done, the event queue is empty and the monitor is cancelled, so
\* the event cancel is final: all that is left to write is settled here.
Drained(w) ==
  /\ pc[w] = "exec"
  /\ result[w] # "none"
  /\ GoTo(w, "settle")
  /\ outcome' = [outcome EXCEPT ![w] = [h \in Hosts |-> Settled(w, h)]]
  /\ result' = [result EXCEPT ![w] = FinalStatus(w)]
  /\ cancelSet' = [cancelSet EXCEPT ![w] = FALSE]
  /\ todo' = [todo EXCEPT ![w] = Targets[job[w]]]
  /\ UNCHANGED <<tables, leases, job, burnt, threads>>

\* No condition on the owner or on the status being replaced.
finish_target(r, h, s) == target' = [target EXCEPT ![r][h] = s]

\* One transaction per host.
FinishTarget(w, h) ==
  /\ pc[w] = "settle"
  /\ h \in todo[w]
  /\ finish_target(job[w], h, outcome[w][h])
  /\ todo' = [todo EXCEPT ![w] = @ \ {h}]
  /\ UNCHANGED <<status, older, claimedBy, cancelAsked, secret, leases, pc, job, burnt,
                 cancelSet, outcome, result, threads>>

FinishRun(w) ==
  /\ pc[w] = "settle"
  /\ todo[w] = {}
  /\ finish(w, job[w], result[w])
  /\ Drop(w, "loop")
  /\ UNCHANGED threads

\* Mutant: the handler swallows the error without finishing the run.
RunnerErrorSwallowed(w) ==
  /\ pc[w] = "error"
  /\ Drop(w, "loop")
  /\ UNCHANGED <<tables, leases, threads>>

\* The except block of execute_run, reached after run_started was set ...
RunnerError(w) ==
  /\ pc[w] = "error"
  /\ finish(w, job[w], "FAILED")
  /\ Drop(w, "loop")
  /\ UNCHANGED threads

\* ... or before.
Unready(w) ==
  /\ pc[w] = "unready"
  /\ finish(w, job[w], IF burnt[w] THEN "INTERRUPTED" ELSE "FAILED")
  /\ Drop(w, "loop")
  /\ UNCHANGED threads
-----------------------------------------------------------------------------
(***************************************************************************)
(* Failures.                                                               *)
(***************************************************************************)

\* The worker loop's handler of an exception that escaped execute_run.
Escape(w) ==
  /\ pc[w] = "escape"
  /\ finish(w, job[w], "INTERRUPTED")
  /\ Drop(w, "loop")
  /\ UNCHANGED threads

\* finish raises "worker no longer owns this run": first to the loop's handler,
\* and from there out of the process.  Threads are joined, not killed.
Disowned(w) ==
  /\ \/ pc[w] \in {"reject", "unready", "error", "escape"}
     \/ pc[w] = "settle" /\ todo[w] = {}
  /\ ~Owned(w, job[w])
  /\ IF pc[w] = "escape" THEN Drop(w, "dead") ELSE Raise(w, "escape")
  /\ UNCHANGED <<tables, leases, threads>>

\* Where a failing database call of the main task is caught.  In "exec" the
\* call is append_event, and the runner thread is not stopped.
Handler(p) ==
  CASE p \in {"loop", "poll", "claim"} -> "loop"
    [] p = "runtime"                   -> "unready"
    [] p \in {"started", "exec"}       -> "error"
    [] p = "escape"                    -> "dead"
    [] OTHER                           -> "escape"

DatabaseError(w) ==
  /\ Faults
  /\ pc[w] \in Alive \ {"join"}
  /\ IF Handler(pc[w]) \in {"loop", "dead"}
       THEN Drop(w, Handler(pc[w])) ELSE Raise(w, Handler(pc[w]))
  /\ UNCHANGED <<tables, leases, threads>>

\* A failing heartbeat ends the monitor: cancel, then wait for the thread.
MonitorError(w) ==
  /\ Faults
  /\ pc[w] = "exec"
  /\ <<w, job[w]>> \in exec
  /\ cancelSet' = [cancelSet EXCEPT ![w] = TRUE]
  /\ GoTo(w, "join")
  /\ UNCHANGED <<tables, leases, job, burnt, outcome, result, todo, threads>>

\* Mutant: the monitor's error is dropped and the run goes on to its results.
JoinedQuietly(w) ==
  /\ pc[w] = "join"
  /\ exec' = exec \ {<<w, job[w]>>}
  /\ result' = [result EXCEPT ![w] = "failed"]
  /\ GoTo(w, "exec")
  /\ UNCHANGED <<tables, leases, job, burnt, cancelSet, outcome, todo, launched>>

Joined(w) ==
  /\ pc[w] = "join"
  /\ exec' = exec \ {<<w, job[w]>>}
  /\ Raise(w, "error")
  /\ UNCHANGED <<tables, leases, launched>>

\* A thread nobody waits for any more comes to its end.
ThreadEnds(w, r) ==
  /\ <<w, r>> \in exec
  /\ ~(pc[w] \in {"exec", "join"} /\ job[w] = r)
  /\ exec' = exec \ {<<w, r>>}
  /\ UNCHANGED <<tables, leases, locals, launched>>

\* The worker's container is killed: open transactions roll back, threads die.
Crash(w) ==
  /\ w \in Mortal
  /\ pc[w] \in Alive
  /\ Drop(w, "dead")
  /\ exec' = {e \in exec : e[1] # w}
  /\ UNCHANGED <<tables, leases, launched>>

(***************************************************************************)
(* Web shell sessions, as far as hosts see them (module WebShell), and     *)
(* time.                                                                   *)
(***************************************************************************)

\* acquire_host_lock: a session is created for a host that is free or lapsed.
ShellTakes(x, h) ==
  /\ h = ShellHost[x]
  /\ lock[h].holder # x
  /\ lock[h].left = 0
  /\ lock' = [lock EXCEPT ![h] = [holder |-> x, owner |-> x, left |-> Lease]]
  /\ UNCHANGED <<tables, leased, ttl, locals, threads>>

\* The session's heartbeat extends its lock, a lapsed one too, or its row is deleted
\* and the lock with it.
ShellMoves(x, h) ==
  /\ lock[h].holder = x
  /\ lock' \in {[lock EXCEPT ![h].left = Lease], [lock EXCEPT ![h] = Free]}
  /\ UNCHANGED <<tables, leased, ttl, locals, threads>>

\* A claim transaction takes less than a tick.
Tick ==
  /\ \A w \in Workers : pc[w] # "claim"
  /\ Punctual => \A w \in Workers : pc[w] \in Alive => ttl[w] # 1
  /\ \/ \E w \in Workers : ttl[w] > 0
     \/ \E h \in Hosts : lock[h].left > 0
  /\ ttl' = [w \in Workers |-> IF ttl[w] > 0 THEN ttl[w] - 1 ELSE 0]
  /\ lock' = [h \in Hosts |-> [lock[h] EXCEPT !.left = IF @ > 0 THEN @ - 1 ELSE 0]]
  /\ UNCHANGED <<tables, leased, locals, threads>>
-----------------------------------------------------------------------------
Init ==
  /\ status = [r \in Runs |-> "ABSENT"]
  /\ older = [r \in Runs |-> {}]
  /\ claimedBy = [r \in Runs |-> Nobody]
  /\ cancelAsked = [r \in Runs |-> FALSE]
  /\ secret = [r \in Runs |-> "none"]
  /\ target = [r \in Runs |-> [h \in Hosts |-> "NONE"]]
  /\ lock = [h \in Hosts |-> Free]
  /\ leased = {}
  /\ ttl = [w \in Workers |-> 0]
  /\ pc = [w \in Workers |-> "off"]
  /\ job = [w \in Workers |-> Nobody]
  /\ burnt = [w \in Workers |-> FALSE]
  /\ cancelSet = [w \in Workers |-> FALSE]
  /\ outcome = [w \in Workers |-> [h \in Hosts |-> "RUNNING"]]
  /\ result = [w \in Workers |-> "none"]
  /\ todo = [w \in Workers |-> {}]
  /\ exec = {}
  /\ launched = {}

Api == \E r \in Runs : Create(r) \/ cancel(r)

\* The worker's main loop while it has no run.
Loop(w) ==
  \/ LoopHeartbeat(w) \/ ClaimNothing(w) \/ ClaimCommit(w) \/ ClaimCollision(w)
  \/ \E r \in Runs : ClaimSelect(w, r)

\* The steps execute_run takes of its own accord.
Execute(w) ==
  \/ ConsumeSecrets(w) \/ Prepare(w) \/ Reject(w) \/ MarkRunning(w)
  \/ Launch(w) \/ Drained(w) \/ FinishRun(w) \/ RunnerError(w) \/ Unready(w)
  \/ \E h \in Hosts : FinishTarget(w, h)

\* The runner thread and the monitor task.
Runner(w) ==
  \/ RunnerReturns(w) \/ RunnerRaises(w) \/ MonitorCancel(w)
  \/ \E h \in Hosts : RunnerEvent(w, h)
  \/ \E r \in Runs : MonitorBeat(w, r) \/ ThreadEnds(w, r)

\* What goes wrong, and the handlers of what went wrong.
Failure(w) ==
  \/ RuntimeError(w) \/ Escape(w) \/ Disowned(w) \/ DatabaseError(w)
  \/ MonitorError(w) \/ Joined(w) \/ Crash(w)

Next ==
  \/ Api
  \/ \E w \in Workers : Start(w) \/ Loop(w) \/ Execute(w) \/ Runner(w) \/ Failure(w)
  \/ \E x \in Shells, h \in Hosts : ShellTakes(x, h) \/ ShellMoves(x, h)
  \/ Tick

Spec == Init /\ [][Next]_vars

(***************************************************************************)
(* Fairness.  Processes keep running unless they are killed, PostgreSQL    *)
(* answers, every remote execution has a timeout (runs.timeout_seconds),   *)
(* and time passes.  A process is killed finitely often, and nobody has to *)
(* start it again.                                                         *)
(***************************************************************************)
\* The main task of the process: where it is decides which step comes next.
MainTask(w) ==
  \/ pc[w] = "off" /\ Start(w)
  \/ Loop(w) \/ Execute(w) \/ Escape(w) \/ Disowned(w) \/ Joined(w)

Fairness ==
  /\ \A w \in Workers :
       /\ WF_vars(MainTask(w))
       /\ WF_vars(RunnerReturns(w))
       /\ WF_vars(\E r \in Runs : MonitorBeat(w, r))
       /\ WF_vars(\E r \in Runs : ThreadEnds(w, r))
  /\ SF_vars(Tick)
  /\ <>[][\A w \in Workers : ~Crash(w)]_vars

FairSpec == Spec /\ Fairness
-----------------------------------------------------------------------------
(***************************************************************************)
(* Properties.                                                             *)
(***************************************************************************)

LockRow == [holder : Runs \union Shells \union {Nobody},
            owner  : Workers \union Shells \union {Nobody},
            left   : 0..Lease]

TablesTyped ==
  /\ status \in [Runs -> RunStatus \union {"ABSENT"}]
  /\ older \in [Runs -> SUBSET Runs]
  /\ claimedBy \in [Runs -> Workers \union {Nobody}]
  /\ cancelAsked \in [Runs -> BOOLEAN]
  /\ secret \in [Runs -> {"none", "stored", "consumed"}]
  /\ target \in [Runs -> [Hosts -> TargetStatus \union {"NONE"}]]

LeasesTyped ==
  /\ lock \in [Hosts -> LockRow]
  /\ leased \in SUBSET Workers
  /\ ttl \in [Workers -> 0..Lease]

\* A worker has a run while it claims or executes one, and a final status once the
\* runner is done.
MemoryTyped ==
  /\ pc \in [Workers -> Alive \union {"off", "dead"}]
  /\ job \in [Workers -> Runs \union {Nobody}]
  /\ \A w \in Workers : pc[w] \in Busy \union {"claim"} => job[w] \in Runs
  /\ burnt \in [Workers -> BOOLEAN]
  /\ cancelSet \in [Workers -> BOOLEAN]
  /\ outcome \in [Workers -> [Hosts -> TargetStatus]]
  /\ result \in [Workers -> {"none"} \union Returns \union Terminal]
  /\ \A w \in Workers : pc[w] = "settle" => result[w] \in Terminal
  /\ todo \in [Workers -> SUBSET Hosts]

ThreadsTyped ==
  /\ exec \in SUBSET (Workers \X Runs)
  /\ launched \in SUBSET Runs

\* Every column and every local variable holds a value of its type, at every point
\* of execute_run: no handler meets a missing run, result or status.
TypeOK == TablesTyped /\ LeasesTyped /\ MemoryTyped /\ ThreadsTyped

\* INV-12: no host is worked on by two runner threads at once, or by a thread while a
\* web shell session has its lock (worker.execute_run under the locks of claim_next).
\* Needs punctual workers and a database that answers.
HostExclusive ==
  \A e \in exec :
    /\ \A f \in exec : e # f => Targets[e[2]] \intersect Targets[f[2]] = {}
    /\ \A h \in Targets[e[2]] : lock[h].holder \notin Shells

\* A live worker keeps the run it is executing: neither a recovery by another
\* worker nor a cancellation takes claimed_by or the active status away from it.
OwnershipKept == \A w \in Workers : pc[w] \in Busy => Owned(w, job[w])

\* INV-30, as far as the code goes: a run whose sensitive parameters were consumed and
\* that was not marked RUNNING yet can only end INTERRUPTED, whatever call fails and
\* whichever worker ends it.  From mark_running to the start of Ansible it is not so:
\* there a failing append_event ends the run FAILED.
SecretLossInterrupts ==
  [][\A r \in Runs : secret[r] = "consumed" /\ status[r] = "PREPARING"
                        /\ status'[r] \in Terminal => status'[r] = "INTERRUPTED"]_vars

\* A finished run leaves no target waiting or running: cancel, finish and
\* recover_stale all settle the targets together with the run.
TargetsSettled ==
  \A r \in Runs : status[r] \in Terminal =>
    \A h \in Targets[r] : target[r][h] \notin Unsettled

\* INV-13: the aggregate status agrees with the targets' statuses, although the
\* targets are written by earlier transactions than the run.
ResultsAgree ==
  \A r \in Runs :
    LET goods == {h \in Targets[r] : target[r][h] \in Good} IN
    /\ status[r] = "SUCCEEDED" => goods = Targets[r]
    /\ status[r] = "PARTIAL" => goods # {} /\ goods # Targets[r]
    /\ status[r] = "CANCELED" => \A h \in Targets[r] : target[r][h] = "CANCELED"

\* A run ends CANCELED only if somebody asked for it: the cancel event is also
\* set when the monitor fails, which must not be reported as a cancellation.
CanceledOnRequest == \A r \in Runs : status[r] = "CANCELED" => cancelAsked[r]

\* A lock that has not lapsed changes hands only by being released: neither of
\* two racing claims overwrites the other's.
ActiveLockKept ==
  [][\A h \in Hosts : lock[h].left > 0 /\ lock'[h].holder # lock[h].holder
                         => lock'[h] = Free]_vars

\* A finished run holds no host, so it cannot block the queue behind it.
FinishedHoldNothing ==
  \A r \in Runs : status[r] \in Terminal => \A h \in Hosts : lock[h].holder # r

\* INV-02, INV-11: the queue and the workers implement the life cycle promised by
\* RunLifecycle: a finished run's status never changes again and no run is carried
\* out twice, whatever a stalled worker, a cancellation or a recovery still writes.
Lifecycle == INSTANCE RunLifecycle WITH status <- status, launched <- launched, Runs <- Runs
ImplementsLifecycle == Lifecycle!Spec

\* What a worker started again under its old identifier (OPS_COMPOSER_WORKER_ID) does to
\* the run it was executing when it was killed: it renews the locks and leaves the run.
Orphaned(r) ==
  status[r] \in Active /\ \E w \in Workers : claimedBy[r] = w /\ pc[w] \in Alive /\ job[w] # r

\* A queued run does not wait for ever while some worker lives: the locks of finished and
\* of dead workers' runs go away and the queue is polled.  The exception is the code's: it
\* may wait for a host of a run that a worker with a pinned identifier has left behind.
QueueDrains ==
  \A r \in Runs : status[r] = "QUEUED" ~>
    \/ status[r] # "QUEUED"
    \/ \E q \in Runs : Orphaned(q) /\ Targets[q] \intersect Targets[r] # {}

\* A worker that is not killed brings the run it is executing to a terminal status, along
\* every path through execute_run and its handlers.
LiveWorkersFinish ==
  \A r \in Runs :
    (\E w \in Workers : pc[w] \in Busy /\ job[w] = r)
      ~> \/ status[r] \in Terminal
         \/ \E w \in Workers : claimedBy[r] = w /\ pc[w] = "dead"

\* Every run a worker has claimed is eventually brought to a terminal status,
\* by that worker or, when it died, by the recovery of another.
ClaimedRunsEnd == \A r \in Runs : status[r] \in Active ~> status[r] \in Terminal
=============================================================================
