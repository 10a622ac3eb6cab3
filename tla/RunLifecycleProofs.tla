------------------------- MODULE RunLifecycleProofs -------------------------
(***************************************************************************)
(* RunExecution implements RunLifecycle, whatever the workers' leases, the *)
(* crashes, the database errors and the speed of the processes are.  On    *)
(* the way: what the worker's position says of its run, from which follow  *)
(* the release of the hosts, the truth of CANCELED, the agreement of runs  *)
(* and targets, and the fate of runs that lost their secrets.              *)
(***************************************************************************)
EXTENDS RunExecutionProofs

-----------------------------------------------------------------------------
(***************************************************************************)
(* The inductive invariant.  The claim is the only step that makes a       *)
(* worker a run's owner, and it happens once; from then on the worker's    *)
(* position tells how far its run can have come, however stale the         *)
(* worker's view of the database is.                                       *)
(***************************************************************************)

\* Positions before mark_running, and from there to the end of execute_run.
Early == {"secrets", "materials", "reject", "runtime", "unready"}
Late  == {"started", "exec", "join", "error", "settle"}

AtStage(w) ==
  /\ pc[w] = "claim" => status[job[w]] = "QUEUED"
  /\ pc[w] \in Busy => claimedBy[job[w]] = w
  /\ pc[w] \in Early => status[job[w]] \in {"PREPARING", "INTERRUPTED"}
  /\ pc[w] \in Late => status[job[w]] \in {"RUNNING", "INTERRUPTED"}
  /\ pc[w] \in Early \union {"started"} => job[w] \notin launched
  /\ pc[w] \in {"exec", "join", "settle"} => job[w] \in launched
  /\ pc[w] = "settle" => result[w] \in Lifecycle!Started

Waiting(r) ==
  status[r] \in {"ABSENT", "QUEUED"} => r \notin launched /\ claimedBy[r] = Nobody

OneClaimer ==
  \A w, u \in Workers : pc[w] = "claim" /\ pc[u] = "claim" /\ job[w] = job[u] => w = u

Staged == /\ \A w \in Workers : AtStage(w)
          /\ \A r \in Runs : Waiting(r)
          /\ OneClaimer

LifeInv == TypeOK /\ Staged

\* What a step of another process may do to a worker's run: nothing, or a recovery.
Untouched(r) ==
  /\ claimedBy'[r] = claimedBy[r]
  /\ r \in launched' <=> r \in launched
  /\ status'[r] = status[r] \/ (status[r] \in Active /\ status'[r] = "INTERRUPTED")

\* What the moves of a worker do to its own position, run and result.
LEMMA StayMoves ==
  ASSUME MemoryTyped, NEW u \in Workers, NEW p, Stay(u, p)
  PROVE  Others(u) /\ pc'[u] = p /\ job' = job /\ result' = result
BY DEF MemoryTyped, Stay, GoTo, Others

LEMMA RaiseMoves ==
  ASSUME MemoryTyped, NEW u \in Workers, NEW p, Raise(u, p)
  PROVE  Others(u) /\ pc'[u] = p /\ job' = job
BY DEF MemoryTyped, Raise, Forget, GoTo, Others

LEMMA DropMoves ==
  ASSUME MemoryTyped, NEW u \in Workers, NEW p, Drop(u, p)
  PROVE  Others(u) /\ pc'[u] = p
BY DEF MemoryTyped, Drop, Forget, GoTo, Others

\* A worker whose run is untouched stays where it is.
LEMMA StageKept ==
  ASSUME NEW w \in Workers, AtStage(w), pc'[w] = pc[w], job'[w] = job[w],
         result'[w] = result[w], pc[w] \in Busy \union {"claim"} => Untouched(job[w])
  PROVE  AtStage(w)'
BY DEF AtStage, Untouched, Active, Busy, Early, Late

\* A worker without a run is nowhere.
LEMMA IdleStage ==
  ASSUME NEW w \in Workers, pc'[w] \in {"off", "dead", "loop", "poll"} PROVE AtStage(w)'
BY DEF AtStage, Busy, Early, Late

\* One worker moves; the others' runs are untouched.
LEMMA MoveStaged ==
  ASSUME LifeInv, NEW u \in Workers, Others(u), AtStage(u)', pc'[u] # "claim",
         \A w \in Workers \ {u} : pc[w] \in Busy \union {"claim"} => Untouched(job[w]),
         \A r \in Runs : Waiting(r)'
  PROVE  Staged'
<1>1. ASSUME NEW w \in Workers PROVE AtStage(w)'
    BY StageKept DEF LifeInv, Staged, Others
<1>2. OneClaimer'
    BY DEF LifeInv, Staged, Others, OneClaimer
<1> QED
    BY <1>1, <1>2 DEF Staged

\* The same when the step writes none of status, claimed_by and the threads' history.
LEMMA LocalStaged ==
  ASSUME LifeInv, NEW u \in Workers, Others(u), AtStage(u)', pc'[u] # "claim",
         UNCHANGED <<status, claimedBy, launched>>
  PROVE  Staged' /\ UNCHANGED Lifecycle!lifecycle
<1>1. \A r \in Runs : Waiting(r)'
    BY DEF LifeInv, Staged, Waiting
<1>2. \A w \in Workers \ {u} : pc[w] \in Busy \union {"claim"} => Untouched(job[w])
    BY DEF Untouched
<1> QED
    BY <1>1, <1>2, MoveStaged DEF Lifecycle!lifecycle

\* No worker moves, no run is claimed or launched.
LEMMA StillStaged ==
  ASSUME LifeInv, UNCHANGED <<pc, job, result, claimedBy, launched>>,
         \A w \in Workers : pc[w] \in Busy \union {"claim"} => Untouched(job[w]),
         \A r \in Runs : status'[r] \in {"ABSENT", "QUEUED"} => status[r] \in {"ABSENT", "QUEUED"}
  PROVE  Staged'
<1>1. ASSUME NEW w \in Workers PROVE AtStage(w)'
    BY StageKept DEF LifeInv, Staged
<1>2. OneClaimer' /\ \A r \in Runs : Waiting(r)'
    BY DEF LifeInv, Staged, OneClaimer, Waiting
<1> QED
    BY <1>1, <1>2 DEF Staged

\* Two busy workers have different runs, and neither's is waiting.
LEMMA OwnRun ==
  ASSUME LifeInv, NEW w \in Workers, pc[w] \in Busy \union {"claim"}
  PROVE  /\ job[w] \in Runs
         /\ pc[w] \in Busy => /\ claimedBy[job[w]] = w
                              /\ status[job[w]] \notin {"ABSENT", "QUEUED"}
         /\ pc[w] = "claim" => claimedBy[job[w]] = Nobody /\ status[job[w]] = "QUEUED"
         /\ \A u \in Workers \ {w} :
              pc[u] \in Busy \union {"claim"} => job[u] # job[w]
<1>1. /\ job[w] \in Runs
      /\ AtStage(w) /\ \A r \in Runs : Waiting(r)
    BY DEF LifeInv, Staged, TypeOK, MemoryTyped
<1>2. Nobody \notin Workers /\ "claim" \notin Busy
    BY RunExecutionAssumption DEF Busy
<1>3. /\ pc[w] \in Busy => /\ claimedBy[job[w]] = w
                           /\ status[job[w]] \notin {"ABSENT", "QUEUED"}
      /\ pc[w] = "claim" => claimedBy[job[w]] = Nobody /\ status[job[w]] = "QUEUED"
    BY <1>1, <1>2 DEF AtStage, Waiting
<1>4. ASSUME NEW u \in Workers \ {w}, pc[u] \in Busy \union {"claim"}, job[u] = job[w]
      PROVE  FALSE
    <2>1. AtStage(u)
        BY DEF LifeInv, Staged
    <2>2. CASE pc[u] \in Busy
        BY <1>2, <1>3, <1>4, <2>1, <2>2 DEF AtStage
    <2>3. CASE pc[u] = "claim"
        <3>1. pc[w] = "claim"
            BY <1>3, <1>4, <2>1, <2>3 DEF AtStage
        <3> QED
            BY <1>4, <2>3, <3>1 DEF LifeInv, Staged, OneClaimer
    <2> QED
        BY <1>4, <2>2, <2>3
<1> QED
    BY <1>1, <1>3, <1>4

\* A worker ends its own run and nobody else's.
LEMMA EndStaged ==
  ASSUME LifeInv, NEW u \in Workers, pc[u] \in Busy, NEW s \in Terminal,
         finish(u, job[u], s), Drop(u, "loop"), UNCHANGED threads
  PROVE  /\ Staged'
         /\ job[u] \in Runs
         /\ status[job[u]] \in Active
         /\ Lifecycle!Become(job[u], s)
<1> DEFINE r == job[u]
<1>1. Others(u) /\ AtStage(u)' /\ pc'[u] # "claim"
    BY DropMoves, IdleStage DEF LifeInv, TypeOK
<1>2. r \in Runs /\ status \in [Runs -> RunStatus \union {"ABSENT"}]
    BY OwnRun DEF LifeInv, TypeOK, TablesTyped
<1>3. /\ status' = [status EXCEPT ![r] = s] /\ claimedBy' = claimedBy
      /\ launched' = launched /\ status[r] \in Active
    BY DEF finish, Owned, threads
<1>4. \A w \in Workers \ {u} : pc[w] \in Busy \union {"claim"} => Untouched(job[w])
    BY <1>2, <1>3, OwnRun DEF Untouched
<1>5. \A q \in Runs : Waiting(q)'
    BY <1>2, <1>3 DEF LifeInv, Staged, Waiting, Terminal
<1>6. Staged'
    BY <1>1, <1>4, <1>5, MoveStaged
<1> QED
    BY <1>2, <1>3, <1>6 DEF Lifecycle!Become

\* Every step preserves the invariant and is a step of the life cycle, or none.
LEMMA LifeStep ==
  ASSUME LifeInv, [Next]_vars
  PROVE  Staged' /\ [Lifecycle!Next]_(Lifecycle!lifecycle)
<1> DEFINE Kept == Staged' /\ [Lifecycle!Next]_(Lifecycle!lifecycle)
<1>0. /\ MemoryTyped
      /\ status \in [Runs -> RunStatus \union {"ABSENT"}]
      /\ claimedBy \in [Runs -> Workers \union {Nobody}]
      /\ \A w \in Workers : AtStage(w)
      /\ \A r \in Runs : Waiting(r)
    BY DEF LifeInv, Staged, TypeOK, TablesTyped
<1>1. ASSUME NEW r \in Runs, Create(r) PROVE Kept
    <2>1. \A w \in Workers : pc[w] \in Busy \union {"claim"} => Untouched(job[w])
        BY <1>0, <1>1, OwnRun DEF Create, Untouched, threads
    <2>2. Staged'
        BY <1>0, <1>1, <2>1, StillStaged DEF Create, locals, threads
    <2>3. Lifecycle!Submit(r)
        BY <1>1 DEF Create, threads, Lifecycle!Submit, Lifecycle!Become
    <2> QED
        BY <2>2, <2>3 DEF Lifecycle!Next
<1>2. ASSUME NEW r \in Runs, cancel(r) PROVE Kept
    <2>1. \A w \in Workers : pc[w] \in Busy \union {"claim"} => Untouched(job[w])
        BY <1>0, <1>2, OwnRun DEF cancel, request_cancel, RowLocked, Untouched, threads
    <2>2. Staged'
        BY <1>0, <1>2, <2>1, StillStaged DEF cancel, request_cancel, locals, threads
    <2>3. CASE status[r] = "QUEUED"
        BY <1>2, <2>2, <2>3 DEF cancel, request_cancel, threads, Lifecycle!Next, Lifecycle!Withdraw,
           Lifecycle!Become
    <2>4. CASE status[r] # "QUEUED"
        <3>1. status' = status /\ launched' = launched
            BY <1>0, <1>2, <2>4 DEF cancel, request_cancel, threads
        <3> QED
            BY <2>2, <3>1 DEF Lifecycle!lifecycle
    <2> QED
        BY <2>3, <2>4
<1>3. ASSUME NEW u \in Workers, Start(u) PROVE Kept
    <2>1. Others(u) /\ AtStage(u)' /\ pc'[u] # "claim"
        BY <1>0, <1>3, DropMoves, IdleStage DEF Start
    <2>2. /\ claimedBy' = claimedBy /\ launched' = launched
          /\ status' = [r \in Runs |-> IF r \in Abandoned THEN "INTERRUPTED" ELSE status[r]]
        BY <1>3 DEF Start, recover_stale, threads
    <2>3. \A w \in Workers \ {u} : pc[w] \in Busy \union {"claim"} => Untouched(job[w])
        BY <2>2, OwnRun DEF Untouched, Abandoned
    <2>4. \A r \in Runs : Waiting(r)'
        BY <1>0, <2>2 DEF Waiting
    <2>5. Staged'
        BY <2>1, <2>3, <2>4, MoveStaged
    <2>6. Abandoned \in SUBSET Runs /\ \A r \in Abandoned : status[r] \in {"PREPARING", "RUNNING"}
        BY DEF Abandoned, Active
    <2>7. Lifecycle!Recover
        BY <2>2, <2>6 DEF Lifecycle!Recover
    <2> QED
        BY <2>5, <2>7 DEF Lifecycle!Next
<1>4. ASSUME NEW u \in Workers, LoopHeartbeat(u) \/ ClaimNothing(u) \/ ClaimCollision(u)
      PROVE  Kept
    <2>1. Others(u) /\ pc'[u] \in {"poll", "loop"}
        BY <1>0, <1>4, StayMoves, DropMoves DEF LoopHeartbeat, ClaimNothing, ClaimCollision
    <2>2. UNCHANGED <<status, claimedBy, launched>>
        BY <1>4 DEF LoopHeartbeat, ClaimNothing, ClaimCollision, tables, threads
    <2> QED
        BY <2>1, <2>2, IdleStage, LocalStaged
<1>5. ASSUME NEW u \in Workers, NEW r \in Runs, ClaimSelect(u, r) PROVE Kept
    <2>1. Others(u) /\ pc'[u] = "claim" /\ job'[u] = r
        BY <1>0, <1>5 DEF ClaimSelect, GoTo, Others, MemoryTyped
    <2>2. UNCHANGED <<status, claimedBy, launched>>
        BY <1>5 DEF ClaimSelect, tables, threads
    <2>3. AtStage(u)'
        BY <1>5, <2>1, <2>2 DEF ClaimSelect, Candidate, Eligible, AtStage, Busy, Early, Late
    <2>4. ASSUME NEW w \in Workers PROVE AtStage(w)'
        BY <1>0, <2>1, <2>2, <2>3, StageKept DEF Others, Untouched
    <2>5. OneClaimer'
        BY <1>5, <2>1 DEF ClaimSelect, Candidate, Eligible, RowLocked, Others, LifeInv, Staged,
           OneClaimer
    <2>6. \A q \in Runs : Waiting(q)'
        BY <1>0, <2>2 DEF Waiting
    <2> QED
        BY <2>2, <2>4, <2>5, <2>6 DEF Staged, Lifecycle!lifecycle
<1>6. ASSUME NEW u \in Workers, ClaimCommit(u) PROVE Kept
    <2> DEFINE r == job[u]
    <2>1. Others(u) /\ pc'[u] = "secrets" /\ job' = job
        BY <1>0, <1>6, StayMoves DEF ClaimCommit
    <2>2. /\ r \in Runs /\ status[r] = "QUEUED" /\ r \notin launched
          /\ status' = [status EXCEPT ![r] = "PREPARING"]
          /\ claimedBy' = [claimedBy EXCEPT ![r] = u] /\ launched' = launched
        BY <1>0, <1>6, OwnRun DEF ClaimCommit, threads, Waiting, Busy
    <2>3. AtStage(u)'
        BY <1>0, <2>1, <2>2 DEF AtStage, Busy, Early, Late
    <2>4. \A w \in Workers \ {u} : pc[w] \in Busy \union {"claim"} => Untouched(job[w])
        BY <1>0, <1>6, <2>2, OwnRun DEF ClaimCommit, Untouched
    <2>5. \A q \in Runs : Waiting(q)'
        BY <1>0, <2>2 DEF Waiting
    <2>6. Staged'
        BY <2>1, <2>3, <2>4, <2>5, MoveStaged
    <2>7. Lifecycle!Claim(r)
        BY <2>2 DEF Lifecycle!Claim, Lifecycle!Become
    <2> QED
        BY <2>2, <2>6, <2>7 DEF Lifecycle!Next
<1>7. ASSUME NEW u \in Workers, ConsumeSecrets(u) \/ Prepare(u) \/ RuntimeError(u) PROVE Kept
    <2>1. pc[u] \in Early /\ pc'[u] \in Early \union {"escape"} /\ job' = job /\ Others(u)
        BY <1>0, <1>7 DEF ConsumeSecrets, consume_secret_inputs, Prepare, RuntimeError, Stay,
           Raise, Forget, GoTo, Others, Early, MemoryTyped
    <2>2. UNCHANGED <<status, claimedBy, launched>>
        BY <1>7 DEF ConsumeSecrets, consume_secret_inputs, Prepare, RuntimeError, tables, threads
    <2>3. AtStage(u)' /\ pc'[u] # "claim"
        BY <1>0, <2>1, <2>2 DEF AtStage, Busy, Early, Late
    <2> QED
        BY <2>1, <2>2, <2>3, LocalStaged
<1>8. ASSUME NEW u \in Workers, Reject(u) \/ Unready(u) PROVE Kept
    <2>1. pc[u] \in Early /\ pc[u] \in Busy /\ Drop(u, "loop") /\ UNCHANGED threads
        BY <1>8 DEF Reject, Unready, Early, Busy
    <2>2. PICK s \in Lifecycle!Unstarted : finish(u, job[u], s)
        BY <1>8 DEF Reject, Unready, Lifecycle!Unstarted
    <2>3. s \in Terminal
        BY DEF Terminal, Lifecycle!Unstarted
    <2>4. Staged' /\ job[u] \in Runs /\ Lifecycle!Become(job[u], s) /\ status[job[u]] \in Active
        BY <2>1, <2>2, <2>3, EndStaged
    <2>5. Lifecycle!End(job[u])
        BY <1>0, <2>1, <2>4 DEF AtStage, Active, Lifecycle!End
    <2> QED
        BY <2>4, <2>5 DEF Lifecycle!Next
<1>9. ASSUME NEW u \in Workers, MarkRunning(u) PROVE Kept
    <2> DEFINE r == job[u]
    <2>1. Others(u) /\ pc[u] = "runtime" /\ pc'[u] = "started" /\ job' = job /\ r \in Runs
        BY <1>0, <1>9, StayMoves DEF MarkRunning, MemoryTyped, Busy
    <2>2. /\ status' = [status EXCEPT ![r] = IF @ = "PREPARING" THEN "RUNNING" ELSE @]
          /\ claimedBy' = claimedBy /\ launched' = launched
        BY <1>9 DEF MarkRunning, mark_running, threads
    <2>3. status[r] \in {"PREPARING", "INTERRUPTED"} /\ claimedBy[r] = u /\ r \notin launched
        BY <1>0, <2>1 DEF AtStage, Early, Busy
    <2>4. AtStage(u)' /\ pc'[u] # "claim"
        BY <1>0, <2>1, <2>2, <2>3 DEF AtStage, Busy, Early, Late
    <2>5. \A w \in Workers \ {u} : pc[w] \in Busy \union {"claim"} => Untouched(job[w])
        BY <1>0, <2>1, <2>2, OwnRun DEF Untouched, Busy
    <2>6. \A q \in Runs : Waiting(q)'
        BY <1>0, <2>2, <2>3 DEF Waiting
    <2>7. Staged'
        BY <2>1, <2>4, <2>5, <2>6, MoveStaged
    <2>8. Lifecycle!Begin(r) \/ UNCHANGED Lifecycle!lifecycle
        BY <1>0, <2>1, <2>2, <2>3 DEF Lifecycle!Begin, Lifecycle!Become, Lifecycle!lifecycle
    <2> QED
        BY <2>1, <2>7, <2>8 DEF Lifecycle!Next
<1>10. ASSUME NEW u \in Workers, Launch(u) PROVE Kept
    <2> DEFINE r == job[u]
    <2>1. Others(u) /\ pc[u] = "started" /\ pc'[u] = "exec" /\ job' = job /\ r \in Runs
        BY <1>0, <1>10, StayMoves DEF Launch, MemoryTyped, Busy
    <2>2. status' = status /\ claimedBy' = claimedBy /\ launched' = launched \union {r}
        BY <1>10 DEF Launch, tables
    <2>3. status[r] \in {"RUNNING", "INTERRUPTED"} /\ claimedBy[r] = u /\ r \notin launched
        BY <1>0, <2>1 DEF AtStage, Late, Busy
    <2>4. AtStage(u)' /\ pc'[u] # "claim"
        BY <1>0, <2>1, <2>2, <2>3 DEF AtStage, Busy, Early, Late
    <2>5. \A w \in Workers \ {u} : pc[w] \in Busy \union {"claim"} => Untouched(job[w])
        BY <2>1, <2>2, OwnRun DEF Untouched, Busy
    <2>6. \A q \in Runs : Waiting(q)'
        BY <1>0, <2>2, <2>3 DEF Waiting
    <2>7. Staged'
        BY <2>1, <2>4, <2>5, <2>6, MoveStaged
    <2>8. Lifecycle!Launch(r)
        BY <2>2, <2>3 DEF Lifecycle!Launch
    <2> QED
        BY <2>1, <2>7, <2>8 DEF Lifecycle!Next
<1>11. ASSUME NEW w \in Workers,
              \/ MonitorCancel(w)
              \/ \E r \in Runs : MonitorBeat(w, r) \/ ThreadEnds(w, r)
              \/ \E h \in Hosts : RunnerEvent(w, h) \/ FinishTarget(w, h)
       PROVE  Kept
    <2>1. UNCHANGED <<pc, job, result, status, claimedBy, launched>>
        BY <1>11 DEF MonitorBeat, MonitorCancel, RunnerEvent, FinishTarget, finish_target, ThreadEnds,
           tables, locals, threads
    <2> QED
        BY <2>1, StillStaged DEF Untouched, Lifecycle!lifecycle
<1>12. ASSUME NEW u \in Workers, RunnerReturns(u) PROVE Kept
    <2>1. Others(u) /\ pc[u] = "exec" /\ pc' = pc /\ job' = job
        BY <1>0, <1>12 DEF RunnerReturns, Others, MemoryTyped
    <2>2. UNCHANGED <<status, claimedBy, launched>>
        BY <1>12 DEF RunnerReturns, tables
    <2>3. AtStage(u)'
        BY <1>0, <2>1, <2>2 DEF AtStage
    <2> QED
        BY <2>1, <2>2, <2>3, LocalStaged
<1>13. ASSUME NEW u \in Workers, RunnerRaises(u) \/ Joined(u) PROVE Kept
    <2>1. pc[u] \in {"exec", "join"} /\ Others(u) /\ pc'[u] = "error" /\ job' = job
        BY <1>0, <1>13, RaiseMoves DEF RunnerRaises, Joined
    <2>2. UNCHANGED <<status, claimedBy, launched>>
        BY <1>13 DEF RunnerRaises, Joined, tables
    <2>3. AtStage(u)'
        BY <1>0, <2>1, <2>2 DEF AtStage, Busy, Early, Late
    <2> QED
        BY <2>1, <2>2, <2>3, LocalStaged
<1>14. ASSUME NEW u \in Workers, Drained(u) PROVE Kept
    <2>1. pc[u] = "exec" /\ Others(u) /\ pc'[u] = "settle" /\ job' = job
        BY <1>0, <1>14 DEF Drained, GoTo, Others, MemoryTyped
    <2>2. result'[u] \in Lifecycle!Started
        BY <1>0, <1>14 DEF Drained, MemoryTyped, FinalStatus, Lifecycle!Started
    <2>3. UNCHANGED <<status, claimedBy, launched>>
        BY <1>14 DEF Drained, tables, threads
    <2>4. AtStage(u)'
        BY <1>0, <2>1, <2>2, <2>3 DEF AtStage, Busy, Early, Late
    <2> QED
        BY <2>1, <2>3, <2>4, LocalStaged
<1>15. ASSUME NEW u \in Workers, FinishRun(u) PROVE Kept
    <2>1. pc[u] = "settle" /\ pc[u] \in Busy /\ Drop(u, "loop") /\ UNCHANGED threads
          /\ finish(u, job[u], result[u])
        BY <1>15 DEF FinishRun, Busy
    <2>2. result[u] \in Terminal /\ result[u] \in Lifecycle!Started
        BY <1>0, <2>1 DEF AtStage, MemoryTyped
    <2>3. /\ Staged' /\ job[u] \in Runs /\ Lifecycle!Become(job[u], result[u])
          /\ status[job[u]] \in Active
        BY <2>1, <2>2, EndStaged
    <2>4. Lifecycle!End(job[u])
        BY <1>0, <2>1, <2>2, <2>3 DEF AtStage, Late, Active, Lifecycle!End
    <2> QED
        BY <2>3, <2>4 DEF Lifecycle!Next
<1>16. ASSUME NEW u \in Workers, RunnerError(u) \/ Escape(u) PROVE Kept
    <2>1. /\ pc[u] \in Busy /\ Drop(u, "loop") /\ UNCHANGED threads
          /\ \E s \in {"FAILED", "INTERRUPTED"} : finish(u, job[u], s)
        BY <1>16 DEF RunnerError, Escape, Busy
    <2>2. PICK s \in {"FAILED", "INTERRUPTED"} : finish(u, job[u], s)
        BY <2>1
    <2>3. s \in Terminal /\ s \in Lifecycle!Started /\ s \in Lifecycle!Unstarted
        BY DEF Terminal, Lifecycle!Started, Lifecycle!Unstarted
    <2>4. Staged' /\ job[u] \in Runs /\ Lifecycle!Become(job[u], s) /\ status[job[u]] \in Active
        BY <2>1, <2>2, <2>3, EndStaged
    <2>5. Lifecycle!End(job[u])
        BY <2>3, <2>4 DEF Active, Lifecycle!End
    <2> QED
        BY <2>4, <2>5 DEF Lifecycle!Next
<1>17. ASSUME NEW u \in Workers, Disowned(u) PROVE Kept
    <2>1. pc[u] \in Busy /\ Others(u) /\ (pc'[u] = "dead" \/ (pc'[u] = "escape" /\ job' = job))
        BY <1>0, <1>17, DropMoves, RaiseMoves DEF Disowned, Busy
    <2>2. UNCHANGED <<status, claimedBy, launched>>
        BY <1>17 DEF Disowned, tables, threads
    <2>3. AtStage(u)'
        BY <1>0, <2>1, <2>2 DEF AtStage, Busy, Early, Late
    <2> QED
        BY <2>1, <2>2, <2>3, LocalStaged
<1>18. ASSUME NEW u \in Workers, DatabaseError(u) PROVE Kept
    <2> DEFINE p == Handler(pc[u])
    <2>1. UNCHANGED <<status, claimedBy, launched>>
        BY <1>18 DEF DatabaseError, tables, threads
    <2>2. CASE p \in {"loop", "dead"}
        <3>1. Others(u) /\ pc'[u] = p
            BY <1>0, <1>18, <2>2, DropMoves DEF DatabaseError
        <3> QED
            BY <2>1, <2>2, <3>1, IdleStage, LocalStaged
    <2>3. CASE p \notin {"loop", "dead"}
        <3>1. Others(u) /\ pc'[u] = p /\ job' = job
            BY <1>0, <1>18, <2>3, RaiseMoves DEF DatabaseError
        <3>2. /\ pc[u] \in Busy
              /\ \/ p = "escape"
                 \/ p = "unready" /\ pc[u] = "runtime"
                 \/ p = "error" /\ pc[u] \in {"started", "exec"}
            BY <1>18, <2>3 DEF DatabaseError, Handler, Alive, Busy
        <3>3. AtStage(u)' /\ pc'[u] # "claim"
            BY <1>0, <2>1, <3>1, <3>2 DEF AtStage, Busy, Early, Late
        <3> QED
            BY <2>1, <3>1, <3>3, LocalStaged
    <2> QED
        BY <2>2, <2>3
<1>19. ASSUME NEW u \in Workers, MonitorError(u) PROVE Kept
    <2>1. Others(u) /\ pc[u] = "exec" /\ pc'[u] = "join" /\ job' = job /\ result' = result
        BY <1>0, <1>19 DEF MonitorError, GoTo, Others, MemoryTyped
    <2>2. UNCHANGED <<status, claimedBy, launched>>
        BY <1>19 DEF MonitorError, tables, threads
    <2>3. AtStage(u)'
        BY <1>0, <2>1, <2>2 DEF AtStage, Busy, Early, Late
    <2> QED
        BY <2>1, <2>2, <2>3, LocalStaged
<1>20. ASSUME NEW u \in Workers, Crash(u) PROVE Kept
    <2>1. Others(u) /\ pc'[u] = "dead"
        BY <1>0, <1>20, DropMoves DEF Crash
    <2>2. UNCHANGED <<status, claimedBy, launched>>
        BY <1>20 DEF Crash, tables
    <2> QED
        BY <2>1, <2>2, IdleStage, LocalStaged
<1>21. CASE Tick \/ UNCHANGED vars
    <2>1. UNCHANGED <<pc, job, result, status, claimedBy, launched>>
        BY <1>21 DEF Tick, vars, tables, locals, threads
    <2> QED
        BY <2>1, StillStaged DEF Untouched, Lifecycle!lifecycle
<1>22. ASSUME NEW x \in Shells, NEW h \in Hosts, ShellTakes(x, h) \/ ShellMoves(x, h)
       PROVE  Kept
    <2>1. UNCHANGED <<pc, job, result, status, claimedBy, launched>>
        BY <1>22 DEF ShellTakes, ShellMoves, tables, locals, threads
    <2> QED
        BY <2>1, StillStaged DEF Untouched, Lifecycle!lifecycle
<1> QED
    BY <1>1, <1>2, <1>3, <1>4, <1>5, <1>6, <1>7, <1>8, <1>9, <1>10, <1>11, <1>12, <1>13,
       <1>14, <1>15, <1>16, <1>17, <1>18, <1>19, <1>20, <1>21, <1>22
       DEF Next, Api, Loop, Execute, Runner, Failure

\* INV-02, INV-11: for every set of workers, runs and hosts, every lease, and with
\* any crashes, database errors and delays, the queue and the workers implement
\* the life cycle: finished runs stay finished and no run is carried out twice.
THEOREM LifecycleKept == Spec => ImplementsLifecycle
<1>1. Init => LifeInv /\ Lifecycle!Init
    <2> SUFFICES ASSUME Init PROVE LifeInv /\ Lifecycle!Init
        OBVIOUS
    <2>1. TypeOK
        BY InitTyped
    <2> QED
        BY <2>1 DEF Init, LifeInv, Staged, AtStage, Waiting, OneClaimer, Busy, Early, Late,
           Lifecycle!Init
<1>2. LifeInv /\ [Next]_vars => LifeInv'
    BY TypeStep, LifeStep DEF LifeInv
<1>3. LifeInv /\ [Next]_vars => [Lifecycle!Next]_(Lifecycle!lifecycle)
    BY LifeStep
<1> QED
    BY <1>1, <1>2, <1>3, PTL DEF Spec, ImplementsLifecycle, Lifecycle!Spec
-----------------------------------------------------------------------------
(***************************************************************************)
(* The hosts.  A claim takes only what is free or has lapsed, and every    *)
(* end of a run releases what it held, also when its worker has long lost  *)
(* its lease.                                                              *)
(***************************************************************************)

\* A host is held for a run only while the run is active.
HeldActive ==
  \A h \in Hosts : lock[h].holder \in Runs => status[lock[h].holder] \in Active

\* A lock that has not lapsed is kept, or released.
LocksKept ==
  \A h \in Hosts : lock[h].left > 0 /\ lock'[h].holder # lock[h].holder => lock'[h] = Free

LEMMA FreeHeldBy == Free.holder = Nobody /\ Nobody \notin Runs
    BY RunExecutionAssumption DEF Free

\* A heartbeat changes no holder.
LEMMA ExtendedHolder ==
  ASSUME LeasesTyped, NEW u \in Workers, NEW h \in Hosts
  PROVE  Extended(u)[h].holder = lock[h].holder
    BY DEF Extended, LeasesTyped, LockRow

LEMMA FinishLocks ==
  ASSUME TypeOK, HeldActive, NEW u \in Workers, NEW r \in Runs, NEW s, finish(u, r, s)
  PROVE  HeldActive' /\ LocksKept
<1>1. /\ status' = [status EXCEPT ![r] = s]
      /\ lock' = [h \in Hosts |-> IF lock[h].holder = r THEN Free ELSE lock[h]]
    BY DEF finish
<1>2. ASSUME NEW h \in Hosts, lock'[h].holder \in Runs PROVE status'[lock'[h].holder] \in Active
    <2>1. lock[h].holder # r /\ lock'[h] = lock[h]
        BY <1>1, <1>2, FreeHeldBy
    <2> QED
        BY <1>1, <1>2, <2>1 DEF HeldActive, TypeOK, TablesTyped
<1>3. LocksKept
    BY <1>1 DEF LocksKept
<1> QED
    BY <1>2, <1>3 DEF HeldActive

LEMMA HostStep ==
  ASSUME TypeOK, HeldActive, [Next]_vars
  PROVE  HeldActive' /\ LocksKept
<1> DEFINE Kept == HeldActive' /\ LocksKept
<1>0. /\ MemoryTyped /\ LeasesTyped
      /\ status \in [Runs -> RunStatus \union {"ABSENT"}]
      /\ \A w \in Workers : pc[w] \in Busy \union {"claim"} => job[w] \in Runs
    BY DEF TypeOK, TablesTyped, MemoryTyped
<1>1. CASE lock' = lock /\ \A r \in Runs : status[r] \in Active => status'[r] \in Active
    BY <1>1 DEF HeldActive, LocksKept
<1>2. ASSUME NEW r \in Runs, Create(r) \/ cancel(r) PROVE Kept
    <2>1. lock' = lock
        BY <1>2 DEF Create, cancel, leases
    <2>2. \A q \in Runs : status[q] \in Active => status'[q] \in Active
        BY <1>0, <1>2 DEF Create, cancel, request_cancel, Active
    <2> QED
        BY <1>1, <2>1, <2>2
<1>3. ASSUME NEW u \in Workers, Start(u) PROVE Kept
    <2>1. /\ status' = [r \in Runs |-> IF r \in Abandoned THEN "INTERRUPTED" ELSE status[r]]
          /\ lock' = [h \in Hosts |-> IF lock[h].left = 0 \/ lock[h].holder \in Abandoned
                                         THEN Free ELSE lock[h]]
        BY <1>3 DEF Start, recover_stale
    <2>2. ASSUME NEW h \in Hosts, lock'[h].holder \in Runs
          PROVE  status'[lock'[h].holder] \in Active
        <3>1. lock'[h] = lock[h] /\ lock[h].holder \notin Abandoned
            BY <2>1, <2>2, FreeHeldBy
        <3> QED
            BY <2>1, <2>2, <3>1 DEF HeldActive
    <2>3. LocksKept
        BY <2>1 DEF LocksKept
    <2> QED
        BY <2>2, <2>3 DEF HeldActive
<1>4. ASSUME NEW u \in Workers, heartbeat(u), status' = status PROVE Kept
    <2>1. \A h \in Hosts : lock'[h].holder = lock[h].holder
        BY <1>0, <1>4, ExtendedHolder DEF heartbeat
    <2> QED
        BY <1>4, <2>1 DEF HeldActive, LocksKept
<1>5. ASSUME NEW u \in Workers, ClaimCommit(u) PROVE Kept
    <2> DEFINE r == job[u]
    <2>1. /\ r \in Runs /\ status' = [status EXCEPT ![r] = "PREPARING"] /\ Acquire(u, r)
          /\ \A h \in Targets[r] : lock[h].left = 0
        BY <1>0, <1>5 DEF ClaimCommit, Acquirable
    <2>2. \A h \in Hosts : IF h \in Targets[r] THEN lock'[h].holder = r
                                              ELSE lock'[h].holder = lock[h].holder
        BY <1>0, <2>1, ExtendedHolder DEF Acquire
    <2>3. HeldActive'
        BY <1>0, <2>1, <2>2 DEF HeldActive, Active
    <2>4. LocksKept
        BY <2>1, <2>2 DEF LocksKept
    <2> QED
        BY <2>3, <2>4
<1>6. ASSUME NEW u \in Workers, MarkRunning(u) PROVE Kept
    <2>1. lock' = lock
        BY <1>6 DEF MarkRunning, leases
    <2>2. \A q \in Runs : status[q] \in Active => status'[q] \in Active
        BY <1>0, <1>6 DEF MarkRunning, mark_running, Active
    <2> QED
        BY <1>1, <2>1, <2>2
<1>7. ASSUME NEW u \in Workers,
             \/ Reject(u) \/ FinishRun(u) \/ RunnerError(u) \/ Unready(u) \/ Escape(u)
      PROVE  Kept
    <2>1. pc[u] \in Busy /\ \E s : finish(u, job[u], s)
        BY <1>7 DEF Reject, FinishRun, RunnerError, Unready, Escape, Busy
    <2> QED
        BY <1>0, <2>1, FinishLocks
<1>8. ASSUME NEW u \in Workers, LoopHeartbeat(u) \/ ClaimNothing(u) \/ \E r \in Runs : MonitorBeat(u, r)
      PROVE  Kept
    BY <1>4, <1>8 DEF LoopHeartbeat, ClaimNothing, MonitorBeat, tables
<1>9. ASSUME NEW u \in Workers,
             \/ ClaimCollision(u) \/ \E r \in Runs : ClaimSelect(u, r) \/ ThreadEnds(u, r)
             \/ ConsumeSecrets(u) \/ Prepare(u) \/ RuntimeError(u) \/ Launch(u)
             \/ Drained(u) \/ \E h \in Hosts : FinishTarget(u, h) \/ RunnerEvent(u, h)
      PROVE  Kept
    <2>1. status' = status /\ lock' = lock
        BY <1>9 DEF ClaimCollision, ClaimSelect, ThreadEnds, ConsumeSecrets, Prepare, RuntimeError,
           Launch, Drained, FinishTarget, RunnerEvent, tables, leases
    <2> QED
        BY <1>1, <2>1
<1>10. ASSUME NEW u \in Workers,
              \/ RunnerReturns(u) \/ RunnerRaises(u) \/ MonitorCancel(u) \/ Disowned(u)
              \/ DatabaseError(u) \/ MonitorError(u) \/ Joined(u) \/ Crash(u)
       PROVE  Kept
    <2>1. status' = status /\ lock' = lock
        BY <1>10 DEF RunnerReturns, RunnerRaises, MonitorCancel, Disowned, DatabaseError,
           MonitorError, Joined, Crash, tables, leases
    <2> QED
        BY <1>1, <2>1
<1>11. ASSUME NEW x \in Shells, NEW h \in Hosts, ShellTakes(x, h) \/ ShellMoves(x, h)
       PROVE  Kept
    <2>1. status' = status /\ x \notin Runs
        BY <1>11, RunExecutionAssumption DEF ShellTakes, ShellMoves, tables
    <2>2. \A g \in Hosts : g # h => lock'[g] = lock[g]
        BY <1>0, <1>11 DEF ShellTakes, ShellMoves, LeasesTyped
    <2>3. \/ lock'[h].holder = x \/ lock'[h] = Free
        BY <1>0, <1>11 DEF ShellTakes, ShellMoves, LeasesTyped, LockRow
    <2>4. lock[h].left = 0 \/ lock[h].holder = x
        BY <1>11 DEF ShellTakes, ShellMoves
    <2>5. HeldActive'
        BY <2>1, <2>2, <2>3, FreeHeldBy DEF HeldActive
    <2>6. LocksKept
        BY <2>2, <2>3, <2>4 DEF LocksKept
    <2> QED
        BY <2>5, <2>6
<1>12. CASE Tick
    <2>1. status' = status /\ \A h \in Hosts : lock'[h].holder = lock[h].holder
        BY <1>0, <1>12 DEF Tick, tables, LeasesTyped, LockRow
    <2> QED
        BY <2>1 DEF HeldActive, LocksKept
<1>13. CASE UNCHANGED vars
    BY <1>1, <1>13 DEF vars
<1> QED
    BY <1>2, <1>3, <1>5, <1>6, <1>7, <1>8, <1>9, <1>10, <1>11, <1>12, <1>13
       DEF Next, Api, Loop, Execute, Runner, Failure

LEMMA HostInit == Init => HeldActive
    BY FreeHeldBy DEF Init, HeldActive

\* The FinishedHoldNothing of every queue: cancel ends only runs that hold nothing yet,
\* and finish and recover_stale release the hosts in the transaction that ends the run.
THEOREM HostsReleased == Spec => []FinishedHoldNothing
<1>1. TypeOK /\ HeldActive /\ [Next]_vars => (TypeOK /\ HeldActive)'
    BY TypeStep, HostStep
<1>2. HeldActive => FinishedHoldNothing
    BY DEF HeldActive, FinishedHoldNothing, Active, Terminal
<1> QED
    BY InitTyped, HostInit, <1>1, <1>2, PTL DEF Spec

\* Of two claims whose runs share a host, or a claim and a session, the second finds the
\* lock of the first: the upsert of claim_next replaces a lapsed row only.
THEOREM LocksRespected == Spec => ActiveLockKept
<1>1. TypeOK /\ HeldActive /\ [Next]_vars => (TypeOK /\ HeldActive)'
    BY TypeStep, HostStep
<1>2. TypeOK /\ HeldActive /\ [Next]_vars =>
        [\A h \in Hosts : lock[h].left > 0 /\ lock'[h].holder # lock[h].holder
                             => lock'[h] = Free]_vars
    BY HostStep DEF LocksKept
<1> QED
    BY InitTyped, HostInit, <1>1, <1>2, PTL DEF Spec, ActiveLockKept
-----------------------------------------------------------------------------
(***************************************************************************)
(* What a step does to the memory of the workers.  A step is of one worker *)
(* or of none: the worker leaves execute_run or one of its phases and      *)
(* forgets, it comes a phase closer to execution, or it executes.          *)
(***************************************************************************)

Alone(u) ==
  \A w \in Workers \ {u} :
    /\ pc'[w] = pc[w] /\ job'[w] = job[w] /\ burnt'[w] = burnt[w]
    /\ cancelSet'[w] = cancelSet[w] /\ outcome'[w] = outcome[w]
    /\ result'[w] = result[w] /\ todo'[w] = todo[w]

Forgets(u) ==
  /\ pc'[u] \in {"loop", "dead", "error", "escape", "unready"}
  /\ cancelSet'[u] = FALSE /\ result'[u] = "none" /\ \A h \in Hosts : outcome'[u][h] = "RUNNING"

Approaches(u) ==
  /\ pc[u] \notin {"exec", "join", "settle"} /\ pc'[u] \notin {"join", "settle"}
  /\ cancelSet'[u] = cancelSet[u] /\ outcome'[u] = outcome[u] /\ result'[u] = result[u]

Executes(u) ==
  \/ MonitorCancel(u) \/ MonitorError(u) \/ RunnerReturns(u) \/ Drained(u)
  \/ \E h \in Hosts : RunnerEvent(u, h) \/ FinishTarget(u, h)

LEMMA StayAlone ==
  ASSUME MemoryTyped, NEW u \in Workers, NEW p, Stay(u, p)
  PROVE  /\ Alone(u) /\ pc'[u] = p
         /\ UNCHANGED <<job, burnt, cancelSet, outcome, result, todo>>
    BY DEF MemoryTyped, Stay, GoTo, Alone

LEMMA RaiseAlone ==
  ASSUME MemoryTyped, NEW u \in Workers, NEW p \in {"error", "escape", "unready"}, Raise(u, p)
  PROVE  Alone(u) /\ Forgets(u) /\ pc'[u] = p /\ UNCHANGED <<job, burnt>>
    BY DEF MemoryTyped, Raise, Forget, GoTo, Alone, Forgets

LEMMA DropAlone ==
  ASSUME MemoryTyped, NEW u \in Workers, NEW p \in {"loop", "dead"}, Drop(u, p)
  PROVE  Alone(u) /\ Forgets(u) /\ pc'[u] = p
    BY DEF MemoryTyped, Drop, Forget, GoTo, Alone, Forgets

LEMMA ExecutesAlone ==
  ASSUME MemoryTyped, NEW u \in Workers, Executes(u)
  PROVE  Alone(u)
    BY DEF MemoryTyped, Executes, MonitorCancel, MonitorError, RunnerReturns, Drained, RunnerEvent,
       FinishTarget, GoTo, Alone

LEMMA Moves ==
  ASSUME MemoryTyped, [Next]_vars
  PROVE  \/ UNCHANGED locals
         \/ \E u \in Workers : Alone(u) /\ (Forgets(u) \/ Approaches(u) \/ Executes(u))
<1> DEFINE Moved == \/ UNCHANGED locals
                    \/ \E u \in Workers : Alone(u) /\ (Forgets(u) \/ Approaches(u) \/ Executes(u))
<1>1. ASSUME NEW u \in Workers,
             \/ Start(u) \/ ClaimCollision(u) \/ Reject(u) \/ FinishRun(u) \/ RunnerError(u)
             \/ Unready(u) \/ Escape(u) \/ Crash(u)
      PROVE  Moved
    <2>1. \E p \in {"loop", "dead"} : Drop(u, p)
        BY <1>1 DEF Start, ClaimCollision, Reject, FinishRun, RunnerError, Unready, Escape, Crash
    <2> QED
        BY <2>1, DropAlone
<1>2. ASSUME NEW u \in Workers, Disowned(u) \/ RunnerRaises(u) \/ Joined(u) \/ DatabaseError(u)
      PROVE  Moved
    <2>1. \/ \E p \in {"loop", "dead"} : Drop(u, p)
          \/ \E p \in {"error", "escape", "unready"} : Raise(u, p)
        BY <1>2 DEF Disowned, RunnerRaises, Joined, DatabaseError, Handler
    <2> QED
        BY <2>1, DropAlone, RaiseAlone
<1>3. ASSUME NEW u \in Workers,
             \/ LoopHeartbeat(u) \/ ClaimNothing(u) \/ ClaimCommit(u) \/ Prepare(u)
             \/ MarkRunning(u) \/ RuntimeError(u) \/ Launch(u)
      PROVE  Moved
    <2>1. /\ pc[u] \in {"loop", "poll", "claim", "materials", "runtime", "started"}
          /\ \E p \in {"poll", "loop", "secrets", "runtime", "reject", "started", "unready", "exec"} :
               Stay(u, p)
        BY <1>3 DEF LoopHeartbeat, ClaimNothing, ClaimCommit, Prepare, MarkRunning, RuntimeError,
           Launch
    <2>2. Alone(u) /\ Approaches(u)
        BY <2>1, StayAlone DEF Approaches
    <2> QED
        BY <2>2
<1>4. ASSUME NEW u \in Workers, NEW r \in Runs, ClaimSelect(u, r) PROVE Moved
    <2>1. Alone(u) /\ Approaches(u)
        BY <1>4 DEF ClaimSelect, GoTo, Alone, Approaches, MemoryTyped
    <2> QED
        BY <2>1
<1>5. ASSUME NEW u \in Workers, ConsumeSecrets(u) PROVE Moved
    <2>1. CASE Raise(u, "escape")
        BY <2>1, RaiseAlone
    <2>2. CASE ~Raise(u, "escape")
        BY <1>5, <2>2 DEF ConsumeSecrets, Stay, GoTo, Alone, Approaches, MemoryTyped
    <2> QED
        BY <2>1, <2>2
<1>6. ASSUME NEW u \in Workers, Executes(u) PROVE Moved
    BY <1>6, ExecutesAlone
<1>7. ASSUME \/ \E r \in Runs : Create(r) \/ cancel(r)
             \/ \E u \in Workers, r \in Runs : MonitorBeat(u, r) \/ ThreadEnds(u, r)
             \/ \E x \in Shells, h \in Hosts : ShellTakes(x, h) \/ ShellMoves(x, h)
             \/ Tick \/ UNCHANGED vars
      PROVE  UNCHANGED locals
    BY <1>7 DEF Create, cancel, MonitorBeat, ThreadEnds, ShellTakes, ShellMoves, Tick, vars, locals
<1> HIDE DEF Moved
<1>8. Moved
    <2>1. UNCHANGED locals => Moved
        BY DEF Moved
    <2> QED
        BY <2>1, <1>1, <1>2, <1>3, <1>4, <1>5, <1>6, <1>7
           DEF Next, Api, Loop, Execute, Runner, Failure, Executes
<1> QED
    BY <1>8 DEF Moved
-----------------------------------------------------------------------------
(***************************************************************************)
(* Cancellation.                                                           *)
(***************************************************************************)

\* The cancel event is set for a cancellation that was asked for, or by a monitor that
\* failed; a run about to end CANCELED was asked to.
Told(w) ==
  /\ cancelSet[w] => pc[w] = "join" \/ (pc[w] = "exec" /\ cancelAsked[job[w]])
  /\ pc[w] = "settle" /\ result[w] = "CANCELED" => cancelAsked[job[w]]

CancelTold == \A w \in Workers : Told(w)

\* What is asked for stays asked for, and a run ends CANCELED by a cancellation while it
\* is queued, or by its worker.
LEMMA AskedStays ==
  ASSUME TypeOK, [Next]_vars
  PROVE  /\ \A r \in Runs : cancelAsked[r] => cancelAsked'[r]
         /\ \A r \in Runs : status'[r] = "CANCELED" =>
              \/ status[r] = "CANCELED"
              \/ cancelAsked'[r]
              \/ \E w \in Workers : pc[w] = "settle" /\ job[w] = r /\ result[w] = "CANCELED"
<1> DEFINE Fine == /\ \A r \in Runs : cancelAsked[r] => cancelAsked'[r]
                   /\ \A r \in Runs : status'[r] = "CANCELED" =>
                        \/ status[r] = "CANCELED"
                        \/ cancelAsked'[r]
                        \/ \E w \in Workers : /\ pc[w] = "settle" /\ job[w] = r
                                              /\ result[w] = "CANCELED"
<1>0. /\ status \in [Runs -> RunStatus \union {"ABSENT"}] /\ cancelAsked \in [Runs -> BOOLEAN]
      /\ \A w \in Workers : pc[w] \in Busy \union {"claim"} => job[w] \in Runs
    BY DEF TypeOK, TablesTyped, MemoryTyped
<1>1. CASE UNCHANGED <<status, cancelAsked>>
    BY <1>1
<1>2. ASSUME NEW r \in Runs, Create(r) PROVE Fine
    BY <1>0, <1>2 DEF Create
<1>3. ASSUME NEW r \in Runs, cancel(r) PROVE Fine
    BY <1>0, <1>3 DEF cancel, request_cancel
<1>4. ASSUME NEW u \in Workers, Start(u) PROVE Fine
    BY <1>0, <1>4 DEF Start, recover_stale
<1>5. ASSUME NEW u \in Workers, ClaimCommit(u) PROVE Fine
    BY <1>0, <1>5 DEF ClaimCommit
<1>6. ASSUME NEW u \in Workers, MarkRunning(u) PROVE Fine
    BY <1>0, <1>6 DEF MarkRunning, mark_running
<1>7. ASSUME NEW u \in Workers, Reject(u) \/ RunnerError(u) \/ Unready(u) \/ Escape(u) PROVE Fine
    <2>1. \E s \in {"REJECTED", "FAILED", "INTERRUPTED"} : finish(u, job[u], s)
        BY <1>7 DEF Reject, RunnerError, Unready, Escape
    <2> QED
        BY <1>0, <2>1 DEF finish
<1>8. ASSUME NEW u \in Workers, FinishRun(u) PROVE Fine
    BY <1>0, <1>8 DEF FinishRun, finish
<1>9. ASSUME NEW u \in Workers,
             \/ LoopHeartbeat(u) \/ ClaimNothing(u) \/ ClaimCollision(u) \/ ConsumeSecrets(u)
             \/ Prepare(u) \/ RuntimeError(u) \/ Launch(u) \/ Drained(u)
             \/ \E r \in Runs : ClaimSelect(u, r) \/ ThreadEnds(u, r) \/ MonitorBeat(u, r)
             \/ \E h \in Hosts : FinishTarget(u, h) \/ RunnerEvent(u, h)
      PROVE  UNCHANGED <<status, cancelAsked>>
    BY <1>9 DEF LoopHeartbeat, ClaimNothing, ClaimCollision, ConsumeSecrets, Prepare, RuntimeError,
       Launch, Drained, ClaimSelect, ThreadEnds, MonitorBeat, FinishTarget, RunnerEvent, tables
<1>10. ASSUME NEW u \in Workers,
              \/ RunnerReturns(u) \/ RunnerRaises(u) \/ MonitorCancel(u) \/ Disowned(u)
              \/ DatabaseError(u) \/ MonitorError(u) \/ Joined(u) \/ Crash(u)
       PROVE  UNCHANGED <<status, cancelAsked>>
    BY <1>10 DEF RunnerReturns, RunnerRaises, MonitorCancel, Disowned, DatabaseError, MonitorError,
       Joined, Crash, tables
<1>11. ASSUME \/ \E x \in Shells, h \in Hosts : ShellTakes(x, h) \/ ShellMoves(x, h)
              \/ Tick \/ UNCHANGED vars
       PROVE  UNCHANGED <<status, cancelAsked>>
    BY <1>11 DEF ShellTakes, ShellMoves, Tick, tables, vars
<1> HIDE DEF Fine
<1>12. UNCHANGED <<status, cancelAsked>> => Fine
    BY <1>1 DEF Fine
<1>13. Fine
    BY <1>2, <1>3, <1>4, <1>5, <1>6, <1>7, <1>8, <1>9, <1>10, <1>11, <1>12
       DEF Next, Api, Loop, Execute, Runner, Failure
<1> QED
    BY <1>13 DEF Fine

LEMMA ToldStep ==
  ASSUME TypeOK, CancelTold, [Next]_vars
  PROVE  CancelTold'
<1>0. /\ MemoryTyped /\ \A r \in Runs : cancelAsked[r] => cancelAsked'[r]
      /\ \A w \in Workers : pc[w] \in {"exec", "settle"} => job[w] \in Runs
    BY AskedStays DEF TypeOK, MemoryTyped, Busy
<1>1. ASSUME NEW w \in Workers, pc'[w] = pc[w], job'[w] = job[w], cancelSet'[w] = cancelSet[w],
             result'[w] = result[w]
      PROVE  Told(w)'
    BY <1>0, <1>1 DEF CancelTold, Told
<1>2. CASE UNCHANGED locals
    BY <1>1, <1>2 DEF locals, CancelTold
<1>3. ASSUME NEW u \in Workers, Alone(u), Forgets(u) \/ Approaches(u) \/ Executes(u)
      PROVE  CancelTold'
    <2>1. CASE Forgets(u)
        BY <1>1, <1>3, <2>1 DEF Forgets, Alone, CancelTold, Told
    <2>2. CASE Approaches(u)
        BY <1>1, <1>3, <2>2 DEF Approaches, Alone, CancelTold, Told
    <2>3. CASE MonitorCancel(u) \/ MonitorError(u)
        <3>1. /\ job' = job /\ pc[u] = "exec" /\ pc'[u] \in {"exec", "join"}
              /\ pc'[u] = "exec" => cancelAsked'[job[u]]
            BY <1>0, <2>3 DEF MonitorCancel, MonitorError, GoTo, MemoryTyped, tables
        <3>2. Told(u)'
            BY <3>1 DEF Told
        <3> QED
            BY <1>1, <1>3, <3>2 DEF Alone, CancelTold
    <2>4. CASE Drained(u)
        <3>1. /\ job' = job /\ pc[u] = "exec" /\ pc'[u] = "settle" /\ cancelSet'[u] = FALSE
              /\ result'[u] = FinalStatus(u)
            BY <1>0, <2>4 DEF Drained, GoTo, MemoryTyped
        <3>2. FinalStatus(u) = "CANCELED" => cancelSet[u]
            BY DEF FinalStatus
        <3>3. Told(u)'
            BY <1>0, <3>1, <3>2 DEF CancelTold, Told
        <3> QED
            BY <1>1, <1>3, <3>3 DEF Alone, CancelTold
    <2>5. CASE \/ RunnerReturns(u) \/ \E h \in Hosts : RunnerEvent(u, h) \/ FinishTarget(u, h)
        <3>1. /\ UNCHANGED <<pc, job, cancelSet>>
              /\ pc[u] = "settle" => result' = result
            BY <2>5 DEF RunnerReturns, RunnerEvent, FinishTarget
        <3>2. Told(u)'
            BY <1>0, <3>1 DEF CancelTold, Told
        <3> QED
            BY <1>1, <1>3, <3>2 DEF Alone, CancelTold
    <2> QED
        BY <1>3, <2>1, <2>2, <2>3, <2>4, <2>5 DEF Executes
<1> QED
    BY <1>0, <1>2, <1>3, Moves

\* A failing monitor sets the cancel event too, but such a run never gets to settle its
\* results: a run ends CANCELED only when request_cancel marked it.
THEOREM CanceledAsAsked == Spec => []CanceledOnRequest
<1> DEFINE Inv == TypeOK /\ CancelTold /\ CanceledOnRequest
<1>1. Init => Inv
    BY InitTyped DEF Init, CancelTold, Told, CanceledOnRequest
<1>2. Inv /\ [Next]_vars => Inv'
    <2> SUFFICES ASSUME Inv, [Next]_vars PROVE Inv'
        OBVIOUS
    <2>1. TypeOK' /\ CancelTold'
        BY TypeStep, ToldStep
    <2>2. CanceledOnRequest'
        BY AskedStays DEF CanceledOnRequest, CancelTold, Told
    <2> QED
        BY <2>1, <2>2
<1>3. Inv => CanceledOnRequest
    OBVIOUS
<1> QED
    BY <1>1, <1>2, <1>3, PTL DEF Spec
-----------------------------------------------------------------------------
(***************************************************************************)
(* Results.  The targets are written one transaction each, before the      *)
(* run; a recovery or a stale worker may write between them.               *)
(***************************************************************************)

\* What a worker is about to write agrees with the targets it has written.
Settling(w) ==
  LET T == Targets[job[w]] IN
  /\ todo[w] \subseteq T
  /\ \A h \in T : outcome[w][h] \notin Unsettled
  /\ \A h \in T \ todo[w] : target[job[w]][h] = outcome[w][h]
  /\ result[w] = "SUCCEEDED" => \A h \in T : outcome[w][h] \in Good
  /\ result[w] = "PARTIAL" => /\ \E h \in T : outcome[w][h] \in Good
                              /\ \E h \in T : outcome[w][h] \notin Good
  /\ result[w] = "CANCELED" => \A h \in T : outcome[w][h] = "CANCELED"

Accumulated ==
  /\ \A w \in Workers : \A h \in Hosts : outcome[w][h] # "PENDING"
  /\ \A w \in Workers : pc[w] = "settle" => Settling(w)

\* What the row of a run and the rows of its targets say of each other.
Agreeing(r) ==
  /\ status[r] = "QUEUED" => \A h \in Targets[r] : target[r][h] = "PENDING"
  /\ status[r] \in Terminal => \A h \in Targets[r] : target[r][h] \notin Unsettled
  /\ status[r] = "SUCCEEDED" => \A h \in Targets[r] : target[r][h] \in Good
  /\ status[r] = "PARTIAL" => /\ \E h \in Targets[r] : target[r][h] \in Good
                              /\ \E h \in Targets[r] : target[r][h] \notin Good
  /\ status[r] = "CANCELED" => \A h \in Targets[r] : target[r][h] = "CANCELED"

Agreed == \A r \in Runs : Agreeing(r)

ResultsInv == LifeInv /\ Accumulated /\ Agreed

\* A run's rows are unchanged.
LEMMA AgreeingKept ==
  ASSUME NEW r, Agreeing(r), status'[r] = status[r],
         \A h \in Targets[r] : target'[r][h] = target[r][h]
  PROVE  Agreeing(r)'
    BY DEF Agreeing

\* finish with a status that promises nothing of the targets.
LEMMA FailureAgrees ==
  ASSUME LifeInv, Agreed, NEW u \in Workers, NEW r \in Runs,
         NEW s \in {"FAILED", "INTERRUPTED", "REJECTED", "TIMED_OUT"}, finish(u, r, s)
  PROVE  Agreed'
<1>1. /\ status \in [Runs -> RunStatus \union {"ABSENT"}]
      /\ target \in [Runs -> [Hosts -> TargetStatus \union {"NONE"}]]
      /\ Targets \in [Runs -> SUBSET Hosts]
    BY RunExecutionAssumption DEF LifeInv, TypeOK, TablesTyped
<1>2. /\ status' = [status EXCEPT ![r] = s]
      /\ target' = [target EXCEPT ![r] = [h \in Hosts |->
                      IF @[h] \in Unsettled THEN Fallback(s) ELSE @[h]]]
    BY DEF finish
<1>3. Fallback(s) \notin Unsettled
    BY DEF Fallback, Unsettled
<1>4. \A h \in Targets[r] : target'[r][h] \notin Unsettled
    BY <1>1, <1>2, <1>3
<1>5. Agreeing(r)'
    BY <1>1, <1>2, <1>4 DEF Agreeing
<1>6. ASSUME NEW q \in Runs, q # r PROVE Agreeing(q)'
    BY <1>1, <1>2, <1>6, AgreeingKept DEF Agreed
<1> QED
    BY <1>5, <1>6 DEF Agreed

LEMMA AgreedStep ==
  ASSUME ResultsInv, [Next]_vars
  PROVE  Agreed'
<1>0. /\ LifeInv /\ MemoryTyped
      /\ status \in [Runs -> RunStatus \union {"ABSENT"}]
      /\ target \in [Runs -> [Hosts -> TargetStatus \union {"NONE"}]]
      /\ Targets \in [Runs -> SUBSET Hosts]
      /\ \A w \in Workers : AtStage(w)
      /\ \A w \in Workers : pc[w] \in Busy \union {"claim"} => job[w] \in Runs
    BY RunExecutionAssumption DEF ResultsInv, LifeInv, TypeOK, TablesTyped, MemoryTyped, Staged
<1>1. ASSUME UNCHANGED <<status, target>> PROVE Agreed'
    BY <1>1, AgreeingKept DEF ResultsInv, Agreed
<1>2. ASSUME NEW r \in Runs, Create(r) PROVE Agreed'
    <2>1. Agreeing(r)'
        BY <1>0, <1>2 DEF Create, Agreeing, Terminal
    <2>2. ASSUME NEW q \in Runs, q # r PROVE Agreeing(q)'
        BY <1>0, <1>2, <2>2, AgreeingKept DEF Create, ResultsInv, Agreed
    <2> QED
        BY <2>1, <2>2 DEF Agreed
<1>3. ASSUME NEW r \in Runs, cancel(r) PROVE Agreed'
    <2>1. /\ status' = [status EXCEPT ![r] = IF @ = "QUEUED" THEN "CANCELED" ELSE @]
          /\ target' = [target EXCEPT ![r] = [h \in Hosts |->
               IF status[r] = "QUEUED" /\ @[h] = "PENDING" THEN "CANCELED" ELSE @[h]]]
        BY <1>3 DEF cancel, request_cancel
    <2>2. CASE status[r] = "QUEUED"
        <3>1. status'[r] = "CANCELED" /\ \A h \in Targets[r] : target'[r][h] = "CANCELED"
            BY <1>0, <2>1, <2>2 DEF ResultsInv, Agreed, Agreeing
        <3>2. Agreeing(r)'
            BY <3>1 DEF Agreeing, Unsettled
        <3>3. ASSUME NEW q \in Runs, q # r PROVE Agreeing(q)'
            BY <1>0, <2>1, <3>3, AgreeingKept DEF ResultsInv, Agreed
        <3> QED
            BY <3>2, <3>3 DEF Agreed
    <2>3. CASE status[r] # "QUEUED"
        <3>1. ASSUME NEW q \in Runs PROVE Agreeing(q)'
            BY <1>0, <2>1, <2>3, <3>1, AgreeingKept DEF ResultsInv, Agreed
        <3> QED
            BY <3>1 DEF Agreed
    <2> QED
        BY <2>2, <2>3
<1>4. ASSUME NEW u \in Workers, Start(u) PROVE Agreed'
    <2>1. /\ status' = [r \in Runs |-> IF r \in Abandoned THEN "INTERRUPTED" ELSE status[r]]
          /\ target' = [r \in Runs |-> [h \in Hosts |->
               IF r \in Abandoned /\ target[r][h] \in Unsettled
                 THEN "INTERRUPTED" ELSE target[r][h]]]
        BY <1>4 DEF Start, recover_stale
    <2>2. ASSUME NEW r \in Abandoned PROVE Agreeing(r)'
        <3>1. r \in Runs /\ status'[r] = "INTERRUPTED"
            BY <2>1 DEF Abandoned
        <3>2. \A h \in Targets[r] : target'[r][h] \notin Unsettled
            BY <1>0, <2>1, <3>1 DEF Unsettled
        <3> QED
            BY <3>1, <3>2 DEF Agreeing
    <2>3. ASSUME NEW r \in Runs, r \notin Abandoned PROVE Agreeing(r)'
        BY <1>0, <2>1, <2>3, AgreeingKept DEF ResultsInv, Agreed
    <2> QED
        BY <2>2, <2>3 DEF Agreed
<1>5. ASSUME NEW u \in Workers, ClaimCommit(u) PROVE Agreed'
    <2>0. PICK r \in Runs : r = job[u]
        BY <1>0, <1>5 DEF ClaimCommit
    <2>1. status' = [status EXCEPT ![r] = "PREPARING"] /\ target' = target
        BY <1>5, <2>0 DEF ClaimCommit
    <2>2. Agreeing(r)'
        BY <1>0, <2>1 DEF Agreeing, Terminal
    <2>3. ASSUME NEW q \in Runs, q # r PROVE Agreeing(q)'
        BY <1>0, <2>1, <2>3, AgreeingKept DEF ResultsInv, Agreed
    <2> QED
        BY <2>2, <2>3 DEF Agreed
<1>6. ASSUME NEW u \in Workers, MarkRunning(u) PROVE Agreed'
    <2>0. PICK r \in Runs : r = job[u]
        BY <1>0, <1>6 DEF MarkRunning, Busy
    <2>1. /\ r \in Runs /\ status[r] \in {"PREPARING", "INTERRUPTED"}
          /\ status' = [status EXCEPT ![r] = IF @ = "PREPARING" THEN "RUNNING" ELSE @]
          /\ target' = [target EXCEPT ![r] = [h \in Hosts |->
               IF @[h] = "PENDING" THEN "RUNNING" ELSE @[h]]]
        BY <1>0, <1>6, <2>0 DEF MarkRunning, mark_running, AtStage, Early, Busy
    <2>2. Agreeing(r)'
        BY <1>0, <2>1 DEF ResultsInv, Agreed, Agreeing, Terminal, Unsettled
    <2>3. ASSUME NEW q \in Runs, q # r PROVE Agreeing(q)'
        BY <1>0, <2>1, <2>3, AgreeingKept DEF ResultsInv, Agreed
    <2> QED
        BY <2>2, <2>3 DEF Agreed
<1>7. ASSUME NEW u \in Workers, Reject(u) \/ RunnerError(u) \/ Unready(u) \/ Escape(u)
      PROVE  Agreed'
    <2>1. /\ job[u] \in Runs
          /\ \E s \in {"FAILED", "INTERRUPTED", "REJECTED", "TIMED_OUT"} : finish(u, job[u], s)
        BY <1>0, <1>7 DEF Reject, RunnerError, Unready, Escape, Busy
    <2> QED
        BY <1>0, <2>1, FailureAgrees DEF ResultsInv
<1>8. ASSUME NEW u \in Workers, FinishRun(u) PROVE Agreed'
    <2>0. PICK r \in Runs : r = job[u]
        BY <1>0, <1>8 DEF FinishRun, Busy
    <2>1. /\ pc[u] = "settle" /\ r \in Runs /\ todo[u] = {} /\ Settling(u)
          /\ result[u] \in Terminal
        BY <1>0, <1>8, <2>0 DEF FinishRun, Busy, ResultsInv, Accumulated, MemoryTyped
    <2>2. /\ status' = [status EXCEPT ![r] = result[u]]
          /\ target' = [target EXCEPT ![r] = [h \in Hosts |->
               IF @[h] \in Unsettled THEN Fallback(result[u]) ELSE @[h]]]
        BY <1>8, <2>0 DEF FinishRun, finish
    <2>3. \A h \in Targets[r] : target[r][h] = outcome[u][h] /\ outcome[u][h] \notin Unsettled
        BY <2>0, <2>1 DEF Settling
    <2>4. \A h \in Targets[r] : target'[r][h] = outcome[u][h]
        BY <1>0, <2>1, <2>2, <2>3
    <2>5. status'[r] = result[u]
        BY <1>0, <2>1, <2>2
    <2>6. Agreeing(r)'
        BY <2>0, <2>1, <2>3, <2>4, <2>5 DEF Agreeing, Settling, Terminal
    <2>7. ASSUME NEW q \in Runs, q # r PROVE Agreeing(q)'
        BY <1>0, <2>2, <2>7, AgreeingKept DEF ResultsInv, Agreed
    <2> QED
        BY <2>6, <2>7 DEF Agreed
<1>9. ASSUME NEW u \in Workers, NEW g \in Hosts, FinishTarget(u, g) PROVE Agreed'
    <2>0. PICK r \in Runs : r = job[u]
        BY <1>0, <1>9 DEF FinishTarget, Busy
    <2>1. /\ pc[u] = "settle" /\ r \in Runs /\ Settling(u) /\ g \in Targets[r]
          /\ status[r] \in {"RUNNING", "INTERRUPTED"}
        BY <1>0, <1>9, <2>0 DEF FinishTarget, Busy, ResultsInv, Accumulated, Settling, AtStage, Late
    <2>2. status' = status /\ target' = [target EXCEPT ![r][g] = outcome[u][g]]
        BY <1>9, <2>0 DEF FinishTarget, finish_target
    <2>3. outcome[u][g] \notin Unsettled
        BY <2>0, <2>1 DEF Settling
    <2>4. Agreeing(r)'
        BY <1>0, <2>1, <2>2, <2>3 DEF ResultsInv, Agreed, Agreeing, Terminal
    <2>5. ASSUME NEW q \in Runs, q # r PROVE Agreeing(q)'
        BY <1>0, <2>2, <2>5, AgreeingKept DEF ResultsInv, Agreed
    <2> QED
        BY <2>4, <2>5 DEF Agreed
<1>10. ASSUME NEW u \in Workers,
              \/ LoopHeartbeat(u) \/ ClaimNothing(u) \/ ClaimCollision(u) \/ ConsumeSecrets(u)
              \/ Prepare(u) \/ RuntimeError(u) \/ Launch(u) \/ Drained(u)
              \/ \E r \in Runs : ClaimSelect(u, r) \/ ThreadEnds(u, r) \/ MonitorBeat(u, r)
              \/ \E h \in Hosts : RunnerEvent(u, h)
       PROVE  UNCHANGED <<status, target>>
    BY <1>10 DEF LoopHeartbeat, ClaimNothing, ClaimCollision, ConsumeSecrets, Prepare, RuntimeError,
       Launch, Drained, ClaimSelect, ThreadEnds, MonitorBeat, RunnerEvent, tables
<1>11. ASSUME NEW u \in Workers,
              \/ RunnerReturns(u) \/ RunnerRaises(u) \/ MonitorCancel(u) \/ Disowned(u)
              \/ DatabaseError(u) \/ MonitorError(u) \/ Joined(u) \/ Crash(u)
       PROVE  UNCHANGED <<status, target>>
    BY <1>11 DEF RunnerReturns, RunnerRaises, MonitorCancel, Disowned, DatabaseError, MonitorError,
       Joined, Crash, tables
<1>12. ASSUME \/ \E x \in Shells, h \in Hosts : ShellTakes(x, h) \/ ShellMoves(x, h)
              \/ Tick \/ UNCHANGED vars
       PROVE  UNCHANGED <<status, target>>
    BY <1>12 DEF ShellTakes, ShellMoves, Tick, tables, vars
<1> QED
    BY <1>1, <1>2, <1>3, <1>4, <1>5, <1>6, <1>7, <1>8, <1>9, <1>10, <1>11, <1>12
       DEF Next, Api, Loop, Execute, Runner, Failure

\* What a worker has written of a target stays, whoever else writes: every other UPDATE of
\* run_targets is of another run or only of targets that are waiting or running.
LEMMA WrittenStays ==
  ASSUME LifeInv, [Next]_vars, NEW w \in Workers, pc[w] = "settle",
         NEW h \in Targets[job[w]] \ todo[w], target[job[w]][h] \notin Unsettled
  PROVE  target'[job[w]][h] = target[job[w]][h]
<1> DEFINE Stays == target'[job[w]][h] = target[job[w]][h]
<1>0. /\ target \in [Runs -> [Hosts -> TargetStatus \union {"NONE"}]]
      /\ Targets \in [Runs -> SUBSET Hosts]
      /\ \A u \in Workers : pc[u] \in Busy \union {"claim"} => job[u] \in Runs
      /\ job[w] \in Runs /\ h \in Hosts
      /\ status[job[w]] \notin {"ABSENT", "QUEUED"}
      /\ \A u \in Workers \ {w} : pc[u] \in Busy \union {"claim"} => job[u] # job[w]
    BY RunExecutionAssumption, OwnRun DEF LifeInv, TypeOK, TablesTyped, MemoryTyped, Busy
<1>1. ASSUME target' = target PROVE Stays
    BY <1>1
<1>2. ASSUME NEW r \in Runs, Create(r) \/ cancel(r) PROVE Stays
    BY <1>0, <1>2 DEF Create, cancel, request_cancel
<1>3. ASSUME NEW u \in Workers, Start(u) PROVE Stays
    BY <1>0, <1>3 DEF Start, recover_stale
<1>4. ASSUME NEW u \in Workers, MarkRunning(u) PROVE Stays
    BY <1>0, <1>4 DEF MarkRunning, mark_running, Unsettled
<1>5. ASSUME NEW u \in Workers,
             \/ Reject(u) \/ FinishRun(u) \/ RunnerError(u) \/ Unready(u) \/ Escape(u)
      PROVE  Stays
    <2>1. PICK s : finish(u, job[u], s)
        BY <1>5 DEF Reject, FinishRun, RunnerError, Unready, Escape
    <2>2. pc[u] \in Busy
        BY <1>5 DEF Reject, FinishRun, RunnerError, Unready, Escape, Busy
    <2> QED
        BY <1>0, <2>1, <2>2 DEF finish
<1>6. ASSUME NEW u \in Workers, NEW g \in Hosts, FinishTarget(u, g) PROVE Stays
    <2>1. pc[u] \in Busy /\ g \in todo[u] /\ target' = [target EXCEPT ![job[u]][g] = outcome[u][g]]
        BY <1>6 DEF FinishTarget, finish_target, Busy
    <2> QED
        BY <1>0, <2>1
<1>7. ASSUME NEW u \in Workers,
             \/ LoopHeartbeat(u) \/ ClaimNothing(u) \/ ClaimCommit(u) \/ ClaimCollision(u)
             \/ ConsumeSecrets(u) \/ Prepare(u) \/ RuntimeError(u) \/ Launch(u) \/ Drained(u)
             \/ \E r \in Runs : ClaimSelect(u, r) \/ ThreadEnds(u, r) \/ MonitorBeat(u, r)
             \/ \E g \in Hosts : RunnerEvent(u, g)
      PROVE  target' = target
    BY <1>7 DEF LoopHeartbeat, ClaimNothing, ClaimCommit, ClaimCollision, ConsumeSecrets, Prepare,
       RuntimeError, Launch, Drained, ClaimSelect, ThreadEnds, MonitorBeat, RunnerEvent, tables
<1>8. ASSUME NEW u \in Workers,
             \/ RunnerReturns(u) \/ RunnerRaises(u) \/ MonitorCancel(u) \/ Disowned(u)
             \/ DatabaseError(u) \/ MonitorError(u) \/ Joined(u) \/ Crash(u)
      PROVE  target' = target
    BY <1>8 DEF RunnerReturns, RunnerRaises, MonitorCancel, Disowned, DatabaseError, MonitorError,
       Joined, Crash, tables
<1>9. ASSUME \/ \E x \in Shells, g \in Hosts : ShellTakes(x, g) \/ ShellMoves(x, g)
             \/ Tick \/ UNCHANGED vars
      PROVE  target' = target
    BY <1>9 DEF ShellTakes, ShellMoves, Tick, tables, vars
<1> HIDE DEF Stays
<1>10. Stays
    BY <1>1, <1>2, <1>3, <1>4, <1>5, <1>6, <1>7, <1>8, <1>9
       DEF Next, Api, Loop, Execute, Runner, Failure
<1> QED
    BY <1>10 DEF Stays

\* An accumulator's status is settled, and CANCELED for every host of a canceled run.
LEMMA SettledOutcome ==
  ASSUME MemoryTyped, NEW u \in Workers, NEW h \in Hosts, outcome[u][h] # "PENDING"
  PROVE  Settled(u, h) \notin Unsettled /\ (cancelSet[u] => Settled(u, h) = "CANCELED")
    BY DEF Settled, Unsettled

\* What execute_run computes at the end of the run.
LEMMA DrainedSettles ==
  ASSUME ResultsInv, NEW u \in Workers, Drained(u)
  PROVE  Settling(u)'
<1>0. /\ MemoryTyped /\ Targets \in [Runs -> SUBSET Hosts] /\ job[u] \in Runs
      /\ \A h \in Hosts : outcome[u][h] # "PENDING"
    BY RunExecutionAssumption
       DEF ResultsInv, LifeInv, TypeOK, MemoryTyped, Accumulated, Drained, Busy
<1>1. PICK T \in SUBSET Hosts : T = Targets[job[u]]
    BY <1>0
<1>2. /\ job' = job /\ todo'[u] = T /\ result'[u] = FinalStatus(u)
      /\ \A h \in Hosts : outcome'[u][h] = Settled(u, h)
    BY <1>0, <1>1 DEF Drained, MemoryTyped
<1>3. \A h \in T : Settled(u, h) \notin Unsettled
    BY <1>0, SettledOutcome
<1>4. FinalStatus(u) = "SUCCEEDED" => \A h \in T : Settled(u, h) \in Good
    BY <1>1 DEF FinalStatus
<1>5. FinalStatus(u) = "PARTIAL" => /\ \E h \in T : Settled(u, h) \in Good
                                    /\ \E h \in T : Settled(u, h) \notin Good
    BY <1>1 DEF FinalStatus
<1>6. FinalStatus(u) = "CANCELED" => \A h \in T : Settled(u, h) = "CANCELED"
    BY <1>0, <1>1, SettledOutcome DEF FinalStatus
<1> QED
    BY <1>1, <1>2, <1>3, <1>4, <1>5, <1>6 DEF Settling

LEMMA AccumulatedStep ==
  ASSUME ResultsInv, [Next]_vars
  PROVE  Accumulated'
<1>0. /\ LifeInv /\ MemoryTyped /\ Accumulated
      /\ target \in [Runs -> [Hosts -> TargetStatus \union {"NONE"}]]
      /\ \A w \in Workers : pc[w] = "settle" => job[w] \in Runs
    BY DEF ResultsInv, LifeInv, TypeOK, TablesTyped, MemoryTyped, Busy
<1> DEFINE Fine(w) == /\ \A h \in Hosts : outcome[w][h] # "PENDING"
                      /\ pc[w] = "settle" => Settling(w)
<1>1. ASSUME NEW w \in Workers, pc'[w] = pc[w], job'[w] = job[w], outcome'[w] = outcome[w],
             result'[w] = result[w], todo'[w] = todo[w]
      PROVE  Fine(w)'
    <2>1. \A h \in Hosts : outcome'[w][h] # "PENDING"
        BY <1>0, <1>1 DEF Accumulated
    <2>2. ASSUME pc[w] = "settle" PROVE Settling(w)'
        <3>1. Settling(w)
            BY <1>0, <2>2 DEF Accumulated
        <3>2. ASSUME NEW h \in Targets[job[w]] \ todo[w]
              PROVE  target'[job[w]][h] = outcome[w][h]
            BY <1>0, <2>2, <3>1, WrittenStays DEF Settling
        <3> QED
            BY <1>1, <3>1, <3>2 DEF Settling
    <2> QED
        BY <1>1, <2>1, <2>2
<1>2. ASSUME UNCHANGED locals, NEW w \in Workers PROVE Fine(w)'
    <2>1. /\ pc'[w] = pc[w] /\ job'[w] = job[w] /\ outcome'[w] = outcome[w]
          /\ result'[w] = result[w] /\ todo'[w] = todo[w]
        BY <1>2 DEF locals
    <2> QED
        BY <1>1, <2>1
<1>3. ASSUME NEW u \in Workers, Alone(u), NEW w \in Workers \ {u} PROVE Fine(w)'
    <2>1. /\ pc'[w] = pc[w] /\ job'[w] = job[w] /\ outcome'[w] = outcome[w]
          /\ result'[w] = result[w] /\ todo'[w] = todo[w]
        BY <1>3 DEF Alone
    <2> QED
        BY <1>1, <2>1
<1>4. ASSUME NEW u \in Workers, Forgets(u) PROVE Fine(u)'
    BY <1>4 DEF Forgets
<1>5. ASSUME NEW u \in Workers, Approaches(u) PROVE Fine(u)'
    BY <1>0, <1>5 DEF Approaches, Accumulated
<1>6. ASSUME NEW u \in Workers, Executes(u) PROVE Fine(u)'
    <2>1. CASE MonitorCancel(u) \/ MonitorError(u) \/ RunnerReturns(u)
        <3>1. outcome' = outcome /\ pc'[u] # "settle"
            BY <1>0, <2>1 DEF MonitorCancel, MonitorError, RunnerReturns, GoTo, MemoryTyped
        <3> QED
            BY <1>0, <3>1 DEF Accumulated
    <2>2. CASE Drained(u)
        <3>1. Settling(u)'
            BY <2>2, DrainedSettles
        <3>2. \A h \in Hosts : outcome'[u][h] # "PENDING"
            BY <1>0, <2>2, SettledOutcome DEF Drained, MemoryTyped, Accumulated, Unsettled
        <3> QED
            BY <3>1, <3>2
    <2>3. ASSUME NEW h \in Hosts, RunnerEvent(u, h) PROVE Fine(u)'
        <3>1. PICK s \in Reports : outcome' = [outcome EXCEPT ![u][h] = s]
            BY <2>3 DEF RunnerEvent
        <3>2. pc'[u] # "settle" /\ s # "PENDING"
            BY <2>3, RunExecutionAssumption DEF RunnerEvent
        <3> QED
            BY <1>0, <3>1, <3>2 DEF Accumulated, MemoryTyped
    <2>4. ASSUME NEW g \in Hosts, FinishTarget(u, g) PROVE Fine(u)'
        <3>1. /\ pc[u] = "settle" /\ UNCHANGED <<job, outcome, result>>
              /\ target' = [target EXCEPT ![job[u]][g] = outcome[u][g]]
              /\ todo' = [todo EXCEPT ![u] = @ \ {g}]
              /\ g \in todo[u] /\ Settling(u) /\ job[u] \in Runs
            BY <1>0, <2>4 DEF FinishTarget, finish_target, Accumulated
        <3>2. todo'[u] = todo[u] \ {g}
            BY <1>0, <3>1 DEF MemoryTyped
        <3>3. ASSUME NEW h \in Targets[job[u]] \ todo'[u]
              PROVE  target'[job[u]][h] = outcome[u][h]
            BY <1>0, <2>4, <3>1, <3>2, <3>3 DEF Settling
        <3>4. Settling(u)'
            BY <3>1, <3>2, <3>3 DEF Settling
        <3> QED
            BY <1>0, <3>1, <3>4 DEF Accumulated
    <2> QED
        BY <1>6, <2>1, <2>2, <2>3, <2>4 DEF Executes
<1> HIDE DEF Fine
<1>7. ASSUME NEW w \in Workers PROVE Fine(w)'
    BY <1>0, <1>2, <1>3, <1>4, <1>5, <1>6, Moves
<1> QED
    BY <1>7 DEF Fine, Accumulated

LEMMA ResultsKept == Spec => []ResultsInv
<1>1. Init => ResultsInv
    <2> SUFFICES ASSUME Init PROVE ResultsInv
        OBVIOUS
    <2>1. LifeInv
        BY InitTyped
           DEF Init, LifeInv, Staged, AtStage, Waiting, OneClaimer, Busy, Early, Late
    <2> QED
        BY <2>1 DEF Init, ResultsInv, Accumulated, Agreed, Agreeing, Terminal
<1>2. ResultsInv /\ [Next]_vars => ResultsInv'
    <2> SUFFICES ASSUME ResultsInv, [Next]_vars PROVE ResultsInv'
        OBVIOUS
    <2>1. LifeInv'
        BY TypeStep, LifeStep DEF ResultsInv, LifeInv
    <2> QED
        BY <2>1, AccumulatedStep, AgreedStep DEF ResultsInv
<1> QED
    BY <1>1, <1>2, PTL DEF Spec

\* A target is left waiting or running by no end of its run: not by the cancellation of a
\* queued run, not by a finish with a stale view, not by the recovery of another worker.
THEOREM NoTargetLeft == Spec => []TargetsSettled
<1>1. ResultsInv => TargetsSettled
    BY DEF ResultsInv, Agreed, Agreeing, TargetsSettled
<1> QED
    BY ResultsKept, <1>1, PTL

\* INV-13: the status computed by execute_run from its accumulators still agrees with the
\* targets when it is written, and ever after.
THEOREM AggregateAgrees == Spec => []ResultsAgree
<1>1. ResultsInv => ResultsAgree
    BY DEF ResultsInv, Agreed, Agreeing, ResultsAgree
<1> QED
    BY ResultsKept, <1>1, PTL
-----------------------------------------------------------------------------
(***************************************************************************)
(* Sensitive parameters.  The envelope is consumed in its own transaction; *)
(* from there on only the worker's memory knows it, and a handler that     *)
(* ends the run must say that the secrets are lost.                        *)
(***************************************************************************)

Unconsumed(r) == status[r] \in {"ABSENT", "QUEUED"} => secret[r] # "consumed"

Remembers(w) == pc[w] \in Early /\ secret[job[w]] = "consumed" => burnt[w]

SecretsKnown == /\ \A r \in Runs : Unconsumed(r)
                /\ \A w \in Workers : Remembers(w)

LossInv == LifeInv /\ SecretsKnown

\* Only the creation of a run and its own worker write its secrets' row.
LEMMA SecretsStay ==
  ASSUME LossInv, [Next]_vars
  PROVE  \A r \in Runs : \/ secret'[r] = secret[r]
                         \/ Create(r)
                         \/ \E u \in Workers : ConsumeSecrets(u) /\ job[u] = r
<1> DEFINE Fine == \A r \in Runs : \/ secret'[r] = secret[r]
                                   \/ Create(r)
                                   \/ \E u \in Workers : ConsumeSecrets(u) /\ job[u] = r
<1>0. secret \in [Runs -> {"none", "stored", "consumed"}]
    BY DEF LossInv, LifeInv, TypeOK, TablesTyped
<1>1. ASSUME NEW r \in Runs, Create(r) PROVE Fine
    BY <1>0, <1>1 DEF Create, threads
<1>2. ASSUME NEW u \in Workers, ConsumeSecrets(u) PROVE Fine
    BY <1>0, <1>2 DEF ConsumeSecrets, consume_secret_inputs, threads
<1>3. ASSUME secret' = secret PROVE Fine
    BY <1>3
<1>4. ASSUME NEW u \in Workers,
             \/ Start(u) \/ LoopHeartbeat(u) \/ ClaimNothing(u) \/ ClaimCommit(u)
             \/ ClaimCollision(u) \/ Prepare(u) \/ RuntimeError(u) \/ MarkRunning(u)
             \/ Launch(u) \/ Drained(u)
             \/ \E r \in Runs : ClaimSelect(u, r) \/ ThreadEnds(u, r) \/ MonitorBeat(u, r)
             \/ \E h \in Hosts : RunnerEvent(u, h) \/ FinishTarget(u, h)
      PROVE  secret' = secret
    BY <1>4 DEF Start, LoopHeartbeat, ClaimNothing, ClaimCommit, ClaimCollision, Prepare,
       RuntimeError, MarkRunning, Launch, Drained, ClaimSelect, ThreadEnds, MonitorBeat,
       RunnerEvent, FinishTarget, tables, threads
<1>5. ASSUME NEW u \in Workers,
             \/ RunnerReturns(u) \/ RunnerRaises(u) \/ MonitorCancel(u) \/ Disowned(u)
             \/ DatabaseError(u) \/ MonitorError(u) \/ Joined(u) \/ Crash(u)
             \/ Reject(u) \/ FinishRun(u) \/ RunnerError(u) \/ Unready(u) \/ Escape(u)
      PROVE  secret' = secret
    BY <1>5 DEF RunnerReturns, RunnerRaises, MonitorCancel, Disowned, DatabaseError,
       MonitorError, Joined, Crash, Reject, FinishRun, RunnerError, Unready, Escape, finish,
       tables, threads
<1>6. ASSUME \/ \E r \in Runs : cancel(r)
             \/ \E x \in Shells, h \in Hosts : ShellTakes(x, h) \/ ShellMoves(x, h)
             \/ Tick \/ UNCHANGED vars
      PROVE  secret' = secret
    BY <1>6 DEF cancel, ShellTakes, ShellMoves, Tick, tables, threads, vars
<1> HIDE DEF Fine
<1>7. Fine
    BY <1>1, <1>2, <1>3, <1>4, <1>5, <1>6 DEF Next, Api, Loop, Execute, Runner, Failure
<1> QED
    BY <1>7 DEF Fine

\* A worker that stays where it is: nobody else consumes the secrets of its run.
LEMMA StillRemembers ==
  ASSUME LossInv, [Next]_vars, NEW w \in Workers, ~ConsumeSecrets(w),
         pc'[w] = pc[w], job'[w] = job[w], burnt'[w] = burnt[w]
  PROVE  Remembers(w)'
<1>0. Remembers(w) /\ LifeInv
    BY DEF LossInv, SecretsKnown
<1>1. ASSUME pc[w] \in Early, secret'[job[w]] = "consumed" PROVE secret[job[w]] = "consumed"
    <2>1. /\ job[w] \in Runs /\ status[job[w]] # "ABSENT"
          /\ \A u \in Workers \ {w} : pc[u] \in Busy => job[u] # job[w]
        BY <1>0, <1>1, OwnRun DEF Early, Busy
    <2>2. ~Create(job[w]) /\ ~\E u \in Workers : ConsumeSecrets(u) /\ job[u] = job[w]
        BY <2>1 DEF Create, ConsumeSecrets, Busy
    <2> QED
        BY <1>1, <2>1, <2>2, SecretsStay
<1> QED
    BY <1>0, <1>1 DEF Remembers

LEMMA RemembersStep ==
  ASSUME LossInv, [Next]_vars
  PROVE  \A w \in Workers : Remembers(w)'
<1> DEFINE Fine == \A w \in Workers : Remembers(w)'
<1>0. /\ LifeInv /\ MemoryTyped /\ \A w \in Workers : Remembers(w) /\ AtStage(w)
      /\ \A r \in Runs : Unconsumed(r)
    BY DEF LossInv, SecretsKnown, LifeInv, TypeOK, Staged
<1>1. ASSUME NEW u \in Workers, Alone(u), ~UNCHANGED locals, Remembers(u)' PROVE Fine
    <2>1. ASSUME NEW w \in Workers \ {u}, ConsumeSecrets(w) PROVE FALSE
        <3>1. pc'[w] # pc[w]
            BY <1>0, <2>1 DEF ConsumeSecrets, Stay, Raise, GoTo, MemoryTyped
        <3> QED
            BY <1>1, <3>1 DEF Alone
    <2>2. ASSUME NEW w \in Workers \ {u} PROVE Remembers(w)'
        BY <1>1, <2>1, StillRemembers DEF Alone
    <2> QED
        BY <1>1, <2>2
<1>2. ASSUME UNCHANGED locals PROVE Fine
    <2>1. ASSUME NEW w \in Workers PROVE ~ConsumeSecrets(w)
        <3>1. ConsumeSecrets(w) => pc'[w] # pc[w]
            BY <1>0 DEF ConsumeSecrets, Stay, Raise, GoTo, MemoryTyped
        <3> QED
            BY <1>2, <3>1 DEF locals
    <2>2. ASSUME NEW w \in Workers PROVE Remembers(w)'
        BY <1>2, <2>1, StillRemembers DEF locals
    <2> QED
        BY <2>2
<1>3. ASSUME NEW u \in Workers, Alone(u), Remembers(u)' PROVE Fine
    BY <1>1, <1>2, <1>3
<1>4. ASSUME NEW u \in Workers, pc'[u] \notin Early PROVE Remembers(u)'
    BY <1>4 DEF Remembers
<1>5. ASSUME NEW u \in Workers,
             \/ Start(u) \/ ClaimCollision(u) \/ Reject(u) \/ FinishRun(u) \/ RunnerError(u)
             \/ Unready(u) \/ Escape(u) \/ Crash(u)
      PROVE  Fine
    <2>1. \E p \in {"loop", "dead"} : Drop(u, p)
        BY <1>5 DEF Start, ClaimCollision, Reject, FinishRun, RunnerError, Unready, Escape, Crash
    <2>2. Alone(u) /\ pc'[u] \in {"loop", "dead"}
        BY <1>0, <2>1, DropAlone
    <2> QED
        BY <1>3, <1>4, <2>2 DEF Early
<1>6. ASSUME NEW u \in Workers, Disowned(u) PROVE Fine
    <2>1. Drop(u, "dead") \/ Raise(u, "escape")
        BY <1>6 DEF Disowned
    <2>2. Alone(u) /\ pc'[u] \in {"dead", "escape"}
        BY <1>0, <2>1, DropAlone, RaiseAlone
    <2> QED
        BY <1>3, <1>4, <2>2 DEF Early
<1>7. ASSUME NEW u \in Workers, RunnerRaises(u) \/ Joined(u) PROVE Fine
    <2>1. Alone(u) /\ pc'[u] = "error"
        BY <1>0, <1>7, RaiseAlone DEF RunnerRaises, Joined
    <2> QED
        BY <1>3, <1>4, <2>1 DEF Early
<1>8. ASSUME NEW u \in Workers, DatabaseError(u) PROVE Fine
    <2>1. CASE Handler(pc[u]) \in {"loop", "dead"}
        <3>1. Alone(u) /\ pc'[u] \in {"loop", "dead"}
            BY <1>0, <1>8, <2>1, DropAlone DEF DatabaseError
        <3> QED
            BY <1>3, <1>4, <3>1 DEF Early
    <2>2. CASE Handler(pc[u]) \in {"error", "escape"}
        <3>1. Alone(u) /\ pc'[u] \in {"error", "escape"}
            BY <1>0, <1>8, <2>2, RaiseAlone DEF DatabaseError
        <3> QED
            BY <1>3, <1>4, <3>1 DEF Early
    <2>3. CASE Handler(pc[u]) = "unready"
        <3>1. Alone(u) /\ job' = job /\ burnt' = burnt /\ secret' = secret
            BY <1>0, <1>8, <2>3, RaiseAlone DEF DatabaseError, tables
        <3>2. pc[u] \in Early
            BY <2>3 DEF Handler, Early
        <3>3. Remembers(u)'
            BY <1>0, <3>1, <3>2 DEF Remembers
        <3> QED
            BY <1>3, <3>1, <3>3
    <2> QED
        BY <2>1, <2>2, <2>3 DEF Handler
<1>9. ASSUME NEW u \in Workers,
             \/ LoopHeartbeat(u) \/ ClaimNothing(u) \/ MarkRunning(u) \/ Launch(u)
      PROVE  Fine
    <2>1. \E p \in {"poll", "loop", "started", "exec"} : Stay(u, p)
        BY <1>9 DEF LoopHeartbeat, ClaimNothing, MarkRunning, Launch
    <2>2. Alone(u) /\ pc'[u] \in {"poll", "loop", "started", "exec"}
        BY <1>0, <2>1, StayAlone
    <2> QED
        BY <1>3, <1>4, <2>2 DEF Early
<1>10. ASSUME NEW u \in Workers, NEW r \in Runs, ClaimSelect(u, r) PROVE Fine
    <2>1. Alone(u) /\ pc'[u] = "claim"
        BY <1>0, <1>10 DEF ClaimSelect, GoTo, Alone, MemoryTyped
    <2> QED
        BY <1>3, <1>4, <2>1 DEF Early
<1>11. ASSUME NEW u \in Workers, ClaimCommit(u) PROVE Fine
    <2>1. Alone(u) /\ pc'[u] = "secrets" /\ job' = job /\ secret' = secret
        BY <1>0, <1>11, StayAlone DEF ClaimCommit
    <2>2. secret[job[u]] # "consumed"
        BY <1>0, <1>11, OwnRun DEF ClaimCommit, Unconsumed
    <2>3. Remembers(u)'
        BY <2>1, <2>2 DEF Remembers
    <2> QED
        BY <1>3, <2>1, <2>3
<1>12. ASSUME NEW u \in Workers, ConsumeSecrets(u) PROVE Fine
    <2>1. CASE Raise(u, "escape")
        <3>1. Alone(u) /\ pc'[u] = "escape"
            BY <1>0, <2>1, RaiseAlone
        <3> QED
            BY <1>3, <1>4, <3>1 DEF Early
    <2>2. CASE ~Raise(u, "escape")
        <3>1. /\ Alone(u) /\ job' = job /\ pc[u] \in Early
              /\ burnt'[u] = TRUE \/ (secret' = secret /\ burnt' = burnt)
            BY <1>0, <1>12, <2>2 DEF ConsumeSecrets, Stay, GoTo, Alone, MemoryTyped, Early
        <3>2. Remembers(u)'
            BY <1>0, <3>1 DEF Remembers
        <3> QED
            BY <1>3, <3>1, <3>2
    <2> QED
        BY <2>1, <2>2
<1>13. ASSUME NEW u \in Workers, Prepare(u) \/ RuntimeError(u) PROVE Fine
    <2>1. /\ pc[u] \in Early /\ secret' = secret
          /\ \E p \in {"runtime", "reject", "unready"} : Stay(u, p)
        BY <1>13 DEF Prepare, RuntimeError, Early, tables
    <2>2. /\ Alone(u) /\ pc'[u] \in {"runtime", "reject", "unready"}
          /\ job' = job /\ burnt' = burnt
        BY <1>0, <2>1, StayAlone
    <2>3. Remembers(u)'
        BY <1>0, <2>1, <2>2 DEF Remembers
    <2> QED
        BY <1>3, <2>2, <2>3
<1>14. ASSUME NEW u \in Workers,
              \/ MonitorCancel(u) \/ MonitorError(u) \/ RunnerReturns(u) \/ Drained(u)
              \/ \E h \in Hosts : RunnerEvent(u, h) \/ FinishTarget(u, h)
       PROVE  Fine
    <2>1. Alone(u)
        BY <1>0, <1>14, ExecutesAlone DEF Executes
    <2>2. pc'[u] \in {"exec", "join", "settle"}
        BY <1>0, <1>14 DEF MonitorCancel, MonitorError, RunnerReturns, Drained, RunnerEvent,
           FinishTarget, GoTo, MemoryTyped
    <2> QED
        BY <1>3, <1>4, <2>1, <2>2 DEF Early
<1>15. ASSUME \/ \E r \in Runs : Create(r) \/ cancel(r)
              \/ \E u \in Workers, r \in Runs : MonitorBeat(u, r) \/ ThreadEnds(u, r)
              \/ \E x \in Shells, h \in Hosts : ShellTakes(x, h) \/ ShellMoves(x, h)
              \/ Tick \/ UNCHANGED vars
       PROVE  UNCHANGED locals
    BY <1>15 DEF Create, cancel, MonitorBeat, ThreadEnds, ShellTakes, ShellMoves, Tick, vars, locals
<1> HIDE DEF Fine
<1>16. Fine
    BY <1>2, <1>5, <1>6, <1>7, <1>8, <1>9, <1>10, <1>11, <1>12, <1>13, <1>14, <1>15
       DEF Next, Api, Loop, Execute, Runner, Failure
<1> QED
    BY <1>16 DEF Fine

\* How a run may come to an end, seen from the worker that ends it.
LEMMA Endings ==
  ASSUME LossInv, [Next]_vars, NEW r \in Runs, secret[r] = "consumed",
         status[r] = "PREPARING", status'[r] \in Terminal
  PROVE  status'[r] = "INTERRUPTED"
<1> DEFINE Fine == status'[r] = "INTERRUPTED"
<1>0. /\ LifeInv /\ status \in [Runs -> RunStatus \union {"ABSENT"}]
      /\ \A w \in Workers : pc[w] \in Busy \union {"claim"} => job[w] \in Runs
      /\ \A w \in Workers : Remembers(w) /\ AtStage(w)
      /\ Unconsumed(r) /\ status[r] # status'[r]
    BY DEF LossInv, SecretsKnown, LifeInv, TypeOK, TablesTyped, MemoryTyped, Staged, Terminal
<1>1. ASSUME NEW q \in Runs, Create(q) \/ cancel(q) PROVE Fine
    BY <1>0, <1>1 DEF Create, cancel, request_cancel, Unconsumed, Terminal
<1>2. ASSUME NEW u \in Workers, Start(u) PROVE Fine
    BY <1>0, <1>2 DEF Start, recover_stale
<1>3. ASSUME NEW u \in Workers, ClaimCommit(u) \/ MarkRunning(u) PROVE Fine
    BY <1>0, <1>3 DEF ClaimCommit, MarkRunning, mark_running, Terminal
<1>4. ASSUME NEW u \in Workers, Reject(u) \/ Unready(u) PROVE Fine
    <2>1. PICK s : finish(u, job[u], s) /\ (burnt[u] => s = "INTERRUPTED")
        BY <1>4 DEF Reject, Unready
    <2>2. job[u] = r /\ status'[r] = s
        BY <1>0, <2>1 DEF finish
    <2>3. burnt[u]
        BY <1>0, <1>4, <2>2 DEF Reject, Unready, Remembers, Early
    <2> QED
        BY <2>1, <2>2, <2>3
<1>5. ASSUME NEW u \in Workers, RunnerError(u) \/ FinishRun(u) PROVE Fine
    <2>1. PICK s : finish(u, job[u], s)
        BY <1>5 DEF RunnerError, FinishRun
    <2>2. job[u] = r
        BY <1>0, <2>1 DEF finish
    <2> QED
        BY <1>0, <1>5, <2>2 DEF RunnerError, FinishRun, AtStage, Late
<1>6. ASSUME NEW u \in Workers, Escape(u) PROVE Fine
    BY <1>0, <1>6 DEF Escape, finish
<1>7. ASSUME NEW u \in Workers,
             \/ LoopHeartbeat(u) \/ ClaimNothing(u) \/ ClaimCollision(u) \/ ConsumeSecrets(u)
             \/ Prepare(u) \/ RuntimeError(u) \/ Launch(u) \/ Drained(u)
             \/ \E q \in Runs : ClaimSelect(u, q) \/ ThreadEnds(u, q) \/ MonitorBeat(u, q)
             \/ \E h \in Hosts : FinishTarget(u, h) \/ RunnerEvent(u, h)
      PROVE  status' = status
    BY <1>7 DEF LoopHeartbeat, ClaimNothing, ClaimCollision, ConsumeSecrets, Prepare, RuntimeError,
       Launch, Drained, ClaimSelect, ThreadEnds, MonitorBeat, FinishTarget, RunnerEvent, tables
<1>8. ASSUME NEW u \in Workers,
             \/ RunnerReturns(u) \/ RunnerRaises(u) \/ MonitorCancel(u) \/ Disowned(u)
             \/ DatabaseError(u) \/ MonitorError(u) \/ Joined(u) \/ Crash(u)
      PROVE  status' = status
    BY <1>8 DEF RunnerReturns, RunnerRaises, MonitorCancel, Disowned, DatabaseError, MonitorError,
       Joined, Crash, tables
<1>9. ASSUME \/ \E x \in Shells, h \in Hosts : ShellTakes(x, h) \/ ShellMoves(x, h)
             \/ Tick \/ UNCHANGED vars
      PROVE  status' = status
    BY <1>9 DEF ShellTakes, ShellMoves, Tick, tables, vars
<1> HIDE DEF Fine
<1>10. Fine
    BY <1>0, <1>1, <1>2, <1>3, <1>4, <1>5, <1>6, <1>7, <1>8, <1>9
       DEF Next, Api, Loop, Execute, Runner, Failure
<1> QED
    BY <1>10 DEF Fine

\* INV-30, as far as the code goes: a run that lost its consumed parameters and was not
\* marked RUNNING yet ends INTERRUPTED, through whichever handler of execute_run, the
\* worker loop or recover_stale, and whatever database calls fail meanwhile.  (A database
\* error between mark_running and the thread ends such a run FAILED.)
THEOREM LossInterrupts == Spec => SecretLossInterrupts
<1>1. Init => LossInv
    <2> SUFFICES ASSUME Init PROVE LossInv
        OBVIOUS
    <2>1. LifeInv
        BY InitTyped
           DEF Init, LifeInv, Staged, AtStage, Waiting, OneClaimer, Busy, Early, Late
    <2> QED
        BY <2>1 DEF Init, LossInv, SecretsKnown, Unconsumed, Remembers, Early
<1>2. LossInv /\ [Next]_vars => LossInv'
    <2> SUFFICES ASSUME LossInv, [Next]_vars PROVE LossInv'
        OBVIOUS
    <2>1. LifeInv'
        BY TypeStep, LifeStep DEF LossInv, LifeInv
    <2>2. \A w \in Workers : Remembers(w)'
        BY RemembersStep
    <2>3. ASSUME NEW u \in Workers, ConsumeSecrets(u)
          PROVE  status' = status /\ status[job[u]] \in {"PREPARING", "INTERRUPTED"}
        BY <2>3 DEF ConsumeSecrets, LossInv, LifeInv, Staged, AtStage, Early
    <2>4. ASSUME NEW r \in Runs, Create(r) PROVE secret'[r] # "consumed"
        BY <2>4 DEF Create, LossInv, LifeInv, TypeOK, TablesTyped
    <2>5. ASSUME NEW r \in Runs PROVE Unconsumed(r)'
        <3>1. status'[r] \in {"ABSENT", "QUEUED"} => status[r] \in {"ABSENT", "QUEUED"}
            <4>1. /\ [Lifecycle!Next]_(Lifecycle!lifecycle)
                  /\ status \in [Runs -> RunStatus \union {"ABSENT"}]
                BY LifeStep DEF LossInv, LifeInv, TypeOK, TablesTyped
            <4> QED
                BY <4>1 DEF Lifecycle!Next, Lifecycle!lifecycle, Lifecycle!Submit,
                   Lifecycle!Withdraw, Lifecycle!Claim, Lifecycle!Begin, Lifecycle!Launch,
                   Lifecycle!End, Lifecycle!Recover, Lifecycle!Become, Lifecycle!Started,
                   Lifecycle!Unstarted
        <3> QED
            BY <2>3, <2>4, <3>1, SecretsStay DEF Unconsumed, LossInv, SecretsKnown
    <2> QED
        BY <2>1, <2>2, <2>5 DEF LossInv, SecretsKnown
<1>3. LossInv /\ [Next]_vars =>
        [\A r \in Runs : secret[r] = "consumed" /\ status[r] = "PREPARING"
                            /\ status'[r] \in Terminal => status'[r] = "INTERRUPTED"]_vars
    BY Endings
<1> QED
    BY <1>1, <1>2, <1>3, PTL DEF Spec, SecretLossInterrupts
=============================================================================
