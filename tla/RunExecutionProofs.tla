------------------------- MODULE RunExecutionProofs -------------------------
(***************************************************************************)
(* Theorems about RunExecution, for every set of workers, runs and hosts,  *)
(* every lease length and every value of the other constants.              *)
(***************************************************************************)
EXTENDS RunExecution, TLAPS

-----------------------------------------------------------------------------
(***************************************************************************)
(* Type correctness: what each transaction and each move of a worker does  *)
(* to the part of the state it touches.                                    *)
(***************************************************************************)

\* A step that leaves the tables alone leaves them well typed; so for the rest.
LEMMA TablesKept == TablesTyped /\ UNCHANGED tables => TablesTyped'
BY DEF TablesTyped, tables

LEMMA LeasesKept == LeasesTyped /\ UNCHANGED leases => LeasesTyped'
BY DEF LeasesTyped, leases, LockRow

LEMMA MemoryKept == MemoryTyped /\ UNCHANGED locals => MemoryTyped'
BY DEF MemoryTyped, locals

LEMMA ThreadsKept == ThreadsTyped /\ UNCHANGED threads => ThreadsTyped'
BY DEF ThreadsTyped, threads

\* A worker that moves on keeps its memory well typed, provided it has a run
\* wherever the new position needs one.
LEMMA StayType ==
  ASSUME MemoryTyped, NEW w \in Workers, NEW p \in Alive \ {"settle"},
         p \in Busy \union {"claim"} => job[w] \in Runs, Stay(w, p)
  PROVE  MemoryTyped'
BY DEF MemoryTyped, Stay, GoTo

\* A worker that raises an exception inside execute_run.
LEMMA RaiseType ==
  ASSUME MemoryTyped, NEW w \in Workers, NEW p \in Busy \ {"settle"},
         job[w] \in Runs, Raise(w, p)
  PROVE  MemoryTyped'
<1>1. pc' = [pc EXCEPT ![w] = p] /\ job' = job /\ burnt' = burnt
      /\ cancelSet' = [cancelSet EXCEPT ![w] = FALSE]
      /\ outcome'   = [outcome EXCEPT ![w] = [h \in Hosts |-> "RUNNING"]]
      /\ result'    = [result EXCEPT ![w] = "none"]
      /\ todo'      = [todo EXCEPT ![w] = {}]
    BY DEF Raise, GoTo, Forget
<1>2. p \in Alive
    BY DEF Alive
<1>3. [h \in Hosts |-> "RUNNING"] \in [Hosts -> TargetStatus]
    BY DEF TargetStatus, Unsettled
<1> QED
    BY <1>1, <1>2, <1>3 DEF MemoryTyped

\* A worker that has no run any more.
LEMMA DropType ==
  ASSUME MemoryTyped, NEW w \in Workers, NEW p \in {"loop", "dead"}, Drop(w, p)
  PROVE  MemoryTyped'
<1>1. pc' = [pc EXCEPT ![w] = p]
      /\ job' = [job EXCEPT ![w] = Nobody]
      /\ burnt' = [burnt EXCEPT ![w] = FALSE]
      /\ cancelSet' = [cancelSet EXCEPT ![w] = FALSE]
      /\ outcome'   = [outcome EXCEPT ![w] = [h \in Hosts |-> "RUNNING"]]
      /\ result'    = [result EXCEPT ![w] = "none"]
      /\ todo'      = [todo EXCEPT ![w] = {}]
    BY DEF Drop, GoTo, Forget
<1>2. p \in Alive \union {"dead"} /\ p \notin Busy \union {"claim"} /\ p # "settle"
    BY DEF Alive, Busy
<1>3. [h \in Hosts |-> "RUNNING"] \in [Hosts -> TargetStatus]
    BY DEF TargetStatus, Unsettled
<1> QED
    BY <1>1, <1>2, <1>3 DEF MemoryTyped

\* A heartbeat leaves well-formed rows in host_execution_locks.
LEMMA ExtendedType ==
  ASSUME LeasesTyped, NEW w \in Workers PROVE Extended(w) \in [Hosts -> LockRow]
<1> SUFFICES ASSUME NEW h \in Hosts PROVE Extended(w)[h] \in LockRow
    BY DEF Extended
<1>1. lock[h] \in LockRow /\ Lease \in 0..Lease
    BY RunExecutionAssumption DEF LeasesTyped
<1>2. [lock[h] EXCEPT !.left = Lease] \in LockRow
    BY <1>1 DEF LockRow
<1> QED
    BY <1>1, <1>2 DEF Extended

LEMMA HeartbeatType ==
  ASSUME LeasesTyped, NEW w \in Workers, heartbeat(w) PROVE LeasesTyped'
<1>1. Lease \in 0..Lease
    BY RunExecutionAssumption
<1> QED
    BY <1>1, ExtendedType DEF heartbeat, LeasesTyped

\* A run's end leaves the three tables it writes well typed.
LEMMA FinishType ==
  ASSUME TablesTyped, LeasesTyped, NEW w \in Workers, NEW r \in Runs,
         NEW s \in Terminal, finish(w, r, s)
  PROVE  TablesTyped' /\ LeasesTyped'
<1>1. Free \in LockRow
    BY RunExecutionAssumption DEF Free, LockRow
<1>2. LeasesTyped'
    BY <1>1 DEF finish, LeasesTyped
<1>3. Fallback(s) \in TargetStatus
    BY DEF Fallback, TargetStatus
<1>4. TablesTyped'
    BY <1>3 DEF finish, TablesTyped, RunStatus
<1> QED
    BY <1>2, <1>4

\* The same for the recovery of lapsed leases.
LEMMA RecoverType ==
  ASSUME TablesTyped, LeasesTyped, recover_stale,
         UNCHANGED <<older, claimedBy, cancelAsked, secret, ttl>>
  PROVE  TablesTyped' /\ LeasesTyped'
<1>1. Free \in LockRow
    BY RunExecutionAssumption DEF Free, LockRow
<1>2. LeasesTyped'
    BY <1>1 DEF recover_stale, LeasesTyped
<1>3. TablesTyped'
    BY DEF recover_stale, TablesTyped, RunStatus, Terminal, TargetStatus
<1> QED
    BY <1>2, <1>3

\* The accumulators and the aggregate at the end of a run are proper statuses.
LEMMA SettledType ==
  ASSUME MemoryTyped, NEW w \in Workers
  PROVE  /\ [h \in Hosts |-> Settled(w, h)] \in [Hosts -> TargetStatus]
         /\ FinalStatus(w) \in Terminal
<1>1. ASSUME NEW h \in Hosts PROVE Settled(w, h) \in TargetStatus
    BY DEF MemoryTyped, Settled, TargetStatus
<1>2. FinalStatus(w) \in Terminal
    BY DEF FinalStatus, Terminal
<1> QED
    BY <1>1, <1>2
-----------------------------------------------------------------------------

\* Every variable keeps its type in every step of the queue and the workers.
LEMMA TypeStep == TypeOK /\ [Next]_vars => TypeOK'
<1> SUFFICES ASSUME TypeOK, [Next]_vars PROVE TypeOK'
    OBVIOUS
<1> USE DEF TypeOK
<1> USE TablesKept, LeasesKept, MemoryKept, ThreadsKept
<1>1. ASSUME NEW r \in Runs, Create(r) PROVE TypeOK'
    <2>1. TablesTyped'
        BY <1>1 DEF Create, TablesTyped, RunStatus, TargetStatus, Unsettled
    <2> QED
        BY <1>1, <2>1 DEF Create
<1>2. ASSUME NEW r \in Runs, cancel(r) PROVE TypeOK'
    <2>1. TablesTyped'
        BY <1>2 DEF cancel, request_cancel, TablesTyped, RunStatus, TargetStatus, Terminal
    <2> QED
        BY <1>2, <2>1 DEF cancel, request_cancel
<1>3. ASSUME NEW w \in Workers, Start(w) PROVE TypeOK'
    BY <1>3, RecoverType, DropType DEF Start
<1>4. ASSUME NEW w \in Workers, LoopHeartbeat(w) PROVE TypeOK'
    <2>1. MemoryTyped'
        BY <1>4, StayType DEF LoopHeartbeat, Alive, Busy
    <2> QED
        BY <1>4, <2>1, HeartbeatType DEF LoopHeartbeat
<1>5. ASSUME NEW w \in Workers, NEW r \in Runs, ClaimSelect(w, r) PROVE TypeOK'
    <2>1. MemoryTyped'
        BY <1>5 DEF ClaimSelect, MemoryTyped, GoTo, Alive
    <2> QED
        BY <1>5, <2>1 DEF ClaimSelect
<1>6. ASSUME NEW w \in Workers, ClaimNothing(w) PROVE TypeOK'
    <2>1. MemoryTyped'
        BY <1>6, StayType DEF ClaimNothing, Alive, Busy
    <2> QED
        BY <1>6, <2>1, HeartbeatType DEF ClaimNothing
<1>7. ASSUME NEW w \in Workers, ClaimCommit(w) PROVE TypeOK'
    <2> DEFINE r == job[w]
    <2>1. r \in Runs
        BY <1>7 DEF ClaimCommit, MemoryTyped
    <2>2. MemoryTyped'
        BY <1>7, <2>1, StayType DEF ClaimCommit, Alive, Busy
    <2>3. Lease \in 0..Lease /\ [holder |-> r, owner |-> w, left |-> Lease] \in LockRow
        BY <2>1, RunExecutionAssumption DEF LockRow
    <2>4. LeasesTyped'
        BY <1>7, <2>3, ExtendedType DEF ClaimCommit, Acquire, LeasesTyped
    <2>5. TablesTyped'
        BY <1>7, <2>1 DEF ClaimCommit, TablesTyped, RunStatus, Active
    <2> QED
        BY <1>7, <2>2, <2>4, <2>5 DEF ClaimCommit
<1>8. ASSUME NEW w \in Workers, ClaimCollision(w) PROVE TypeOK'
    BY <1>8, DropType DEF ClaimCollision
<1>9. ASSUME NEW w \in Workers, ConsumeSecrets(w) PROVE TypeOK'
    <2>1. job[w] \in Runs
        BY <1>9 DEF ConsumeSecrets, consume_secret_inputs, MemoryTyped, Busy
    <2>2. TablesTyped'
        BY <1>9, <2>1 DEF ConsumeSecrets, consume_secret_inputs, TablesTyped
    <2>3. CASE Stay(w, "materials") \/ Stay(w, "reject")
        <3>1. MemoryTyped'
            BY <2>1, <2>3, StayType DEF Alive, Busy
        <3> QED
            BY <1>9, <2>2, <3>1 DEF ConsumeSecrets, consume_secret_inputs
    <2>4. CASE /\ job[w] \in Sensitive
               /\ burnt' = [burnt EXCEPT ![w] = TRUE]
               /\ GoTo(w, IF secret[job[w]] = "stored" THEN "materials" ELSE "reject")
               /\ UNCHANGED <<job, cancelSet, outcome, result, todo>>
        <3>1. MemoryTyped'
            BY <2>1, <2>4 DEF MemoryTyped, GoTo, Alive, Busy
        <3> QED
            BY <1>9, <2>2, <3>1 DEF ConsumeSecrets, consume_secret_inputs
    <2>5. CASE Raise(w, "escape")
        <3>1. MemoryTyped'
            BY <2>1, <2>5, RaiseType DEF Alive, Busy
        <3> QED
            BY <1>9, <2>2, <3>1 DEF ConsumeSecrets, consume_secret_inputs
    <2> QED
        BY <1>9, <2>3, <2>4, <2>5 DEF ConsumeSecrets, consume_secret_inputs
<1>10. ASSUME NEW w \in Workers, Prepare(w) PROVE TypeOK'
    <2>1. PICK p \in {"runtime", "reject"} : Stay(w, p)
        BY <1>10 DEF Prepare
    <2>2. MemoryTyped'
        BY <1>10, <2>1, StayType DEF Prepare, MemoryTyped, Alive, Busy
    <2> QED
        BY <1>10, <2>2 DEF Prepare
<1>11. ASSUME NEW w \in Workers, Reject(w) PROVE TypeOK'
    <2>1. job[w] \in Runs
        BY <1>11 DEF Reject, MemoryTyped, Busy
    <2>2. {"INTERRUPTED", "REJECTED"} \subseteq Terminal
        BY DEF Terminal
    <2> QED
        BY <1>11, <2>1, <2>2, FinishType, DropType DEF Reject
<1>12. ASSUME NEW w \in Workers, MarkRunning(w) PROVE TypeOK'
    <2>1. job[w] \in Runs
        BY <1>12 DEF MarkRunning, MemoryTyped, Busy
    <2>2. TablesTyped'
        BY <1>12, <2>1 DEF MarkRunning, mark_running, TablesTyped, RunStatus, Active,
           TargetStatus, Unsettled
    <2>3. MemoryTyped'
        BY <1>12, <2>1, StayType DEF MarkRunning, Alive, Busy
    <2> QED
        BY <1>12, <2>2, <2>3 DEF MarkRunning
<1>13. ASSUME NEW w \in Workers, RuntimeError(w) PROVE TypeOK'
    <2>1. MemoryTyped'
        BY <1>13, StayType DEF RuntimeError, MemoryTyped, Alive, Busy
    <2> QED
        BY <1>13, <2>1 DEF RuntimeError
<1>14. ASSUME NEW w \in Workers, Launch(w) PROVE TypeOK'
    <2>1. job[w] \in Runs
        BY <1>14 DEF Launch, MemoryTyped, Busy
    <2>2. MemoryTyped'
        BY <1>14, <2>1, StayType DEF Launch, Alive, Busy
    <2>3. ThreadsTyped'
        BY <1>14, <2>1 DEF Launch, ThreadsTyped
    <2> QED
        BY <1>14, <2>2, <2>3 DEF Launch
<1>15. ASSUME NEW w \in Workers, NEW r \in Runs, MonitorBeat(w, r) PROVE TypeOK'
    BY <1>15, HeartbeatType DEF MonitorBeat
<1>16. ASSUME NEW w \in Workers, MonitorCancel(w) PROVE TypeOK'
    <2>1. MemoryTyped'
        BY <1>16 DEF MonitorCancel, MemoryTyped
    <2> QED
        BY <1>16, <2>1 DEF MonitorCancel
<1>17. ASSUME NEW w \in Workers, NEW h \in Hosts, RunnerEvent(w, h) PROVE TypeOK'
    <2>1. Reports \subseteq TargetStatus
        BY RunExecutionAssumption DEF TargetStatus
    <2>2. MemoryTyped'
        BY <1>17, <2>1 DEF RunnerEvent, MemoryTyped
    <2> QED
        BY <1>17, <2>2 DEF RunnerEvent
<1>18. ASSUME NEW w \in Workers, RunnerReturns(w) PROVE TypeOK'
    <2>1. MemoryTyped'
        BY <1>18 DEF RunnerReturns, MemoryTyped, Returns
    <2>2. ThreadsTyped'
        BY <1>18 DEF RunnerReturns, ThreadsTyped
    <2> QED
        BY <1>18, <2>1, <2>2 DEF RunnerReturns
<1>19. ASSUME NEW w \in Workers, RunnerRaises(w) PROVE TypeOK'
    <2>1. MemoryTyped'
        BY <1>19, RaiseType DEF RunnerRaises, MemoryTyped, Busy
    <2>2. ThreadsTyped'
        BY <1>19 DEF RunnerRaises, ThreadsTyped
    <2> QED
        BY <1>19, <2>1, <2>2 DEF RunnerRaises
<1>20. ASSUME NEW w \in Workers, Drained(w) PROVE TypeOK'
    <2>1. job[w] \in Runs
        BY <1>20 DEF Drained, MemoryTyped, Busy
    <2>2. Targets[job[w]] \subseteq Hosts
        BY <2>1, RunExecutionAssumption
    <2>3. MemoryTyped'
        BY <1>20, <2>1, <2>2, SettledType DEF Drained, MemoryTyped, GoTo, Alive, Busy
    <2> QED
        BY <1>20, <2>3 DEF Drained
<1>21. ASSUME NEW w \in Workers, NEW h \in Hosts, FinishTarget(w, h) PROVE TypeOK'
    <2>1. job[w] \in Runs
        BY <1>21 DEF FinishTarget, finish_target, MemoryTyped, Busy
    <2>2. TablesTyped'
        BY <1>21, <2>1 DEF FinishTarget, finish_target, TablesTyped, MemoryTyped
    <2>3. MemoryTyped'
        BY <1>21 DEF FinishTarget, finish_target, MemoryTyped
    <2> QED
        BY <1>21, <2>2, <2>3 DEF FinishTarget, finish_target
<1>22. ASSUME NEW w \in Workers, FinishRun(w) PROVE TypeOK'
    <2>1. job[w] \in Runs /\ result[w] \in Terminal
        BY <1>22 DEF FinishRun, MemoryTyped, Busy
    <2> QED
        BY <1>22, <2>1, FinishType, DropType DEF FinishRun
<1>23. ASSUME NEW w \in Workers, RunnerError(w) PROVE TypeOK'
    <2>1. job[w] \in Runs /\ "FAILED" \in Terminal
        BY <1>23 DEF RunnerError, MemoryTyped, Busy, Terminal
    <2> QED
        BY <1>23, <2>1, FinishType, DropType DEF RunnerError
<1>24. ASSUME NEW w \in Workers, Unready(w) PROVE TypeOK'
    <2>1. job[w] \in Runs /\ {"FAILED", "INTERRUPTED"} \subseteq Terminal
        BY <1>24 DEF Unready, MemoryTyped, Busy, Terminal
    <2> QED
        BY <1>24, <2>1, FinishType, DropType DEF Unready
<1>25. ASSUME NEW w \in Workers, Escape(w) PROVE TypeOK'
    <2>1. job[w] \in Runs /\ "INTERRUPTED" \in Terminal
        BY <1>25 DEF Escape, MemoryTyped, Busy, Terminal
    <2> QED
        BY <1>25, <2>1, FinishType, DropType DEF Escape
<1>26. ASSUME NEW w \in Workers, Disowned(w) PROVE TypeOK'
    <2>1. job[w] \in Runs /\ "escape" \in Busy \ {"settle"}
        BY <1>26 DEF Disowned, MemoryTyped, Busy
    <2> QED
        BY <1>26, <2>1, DropType, RaiseType DEF Disowned
<1>27. ASSUME NEW w \in Workers, DatabaseError(w) PROVE TypeOK'
    <2> DEFINE p == Handler(pc[w])
    <2>1. CASE p \in {"loop", "dead"}
        BY <1>27, <2>1, DropType DEF DatabaseError
    <2>2. CASE p \notin {"loop", "dead"}
        <3>1. p \in Busy \ {"settle"} /\ pc[w] \in Busy
            BY <1>27, <2>2 DEF DatabaseError, Handler, Busy, Alive
        <3>2. job[w] \in Runs
            BY <3>1 DEF MemoryTyped
        <3> QED
            BY <1>27, <2>2, <3>1, <3>2, RaiseType DEF DatabaseError
    <2> QED
        BY <2>1, <2>2
<1>28. ASSUME NEW w \in Workers, MonitorError(w) PROVE TypeOK'
    <2>1. MemoryTyped'
        BY <1>28 DEF MonitorError, MemoryTyped, GoTo, Alive, Busy
    <2> QED
        BY <1>28, <2>1 DEF MonitorError
<1>29. ASSUME NEW w \in Workers, Joined(w) PROVE TypeOK'
    <2>1. MemoryTyped'
        BY <1>29, RaiseType DEF Joined, MemoryTyped, Busy
    <2>2. ThreadsTyped'
        BY <1>29 DEF Joined, ThreadsTyped
    <2> QED
        BY <1>29, <2>1, <2>2 DEF Joined
<1>30. ASSUME NEW w \in Workers, NEW r \in Runs, ThreadEnds(w, r) PROVE TypeOK'
    <2>1. ThreadsTyped'
        BY <1>30 DEF ThreadEnds, ThreadsTyped
    <2> QED
        BY <1>30, <2>1 DEF ThreadEnds
<1>31. ASSUME NEW w \in Workers, Crash(w) PROVE TypeOK'
    <2>1. ThreadsTyped'
        BY <1>31 DEF Crash, ThreadsTyped
    <2> QED
        BY <1>31, <2>1, DropType DEF Crash
<1>32. CASE Tick
    <2>1. ASSUME NEW h \in Hosts PROVE lock'[h] \in LockRow
        <3>1. lock[h] \in LockRow
            BY DEF LeasesTyped
        <3> DEFINE n == IF lock[h].left > 0 THEN lock[h].left - 1 ELSE 0
        <3>2. n \in 0..Lease
            BY <3>1, RunExecutionAssumption DEF LockRow
        <3>3. lock'[h] = [lock[h] EXCEPT !.left = n]
            BY <1>32 DEF Tick
        <3> QED
            BY <3>1, <3>2, <3>3 DEF LockRow
    <2>2. ASSUME NEW w \in Workers PROVE ttl'[w] \in 0..Lease
        BY <1>32, RunExecutionAssumption DEF Tick, LeasesTyped
    <2>3. LeasesTyped'
        BY <1>32, <2>1, <2>2 DEF Tick, LeasesTyped
    <2> QED
        BY <1>32, <2>3 DEF Tick
<1>33. ASSUME NEW x \in Shells, NEW h \in Hosts, ShellTakes(x, h) \/ ShellMoves(x, h)
       PROVE  TypeOK'
    <2>1. Lease \in 0..Lease /\ Free \in LockRow /\ lock[h] \in LockRow
        BY RunExecutionAssumption DEF Free, LockRow, LeasesTyped
    <2>2. PICK row \in LockRow : lock' = [lock EXCEPT ![h] = row]
        <3>1. CASE ShellTakes(x, h)
            BY <2>1, <3>1 DEF ShellTakes, LockRow
        <3>2. CASE lock' = [lock EXCEPT ![h] = Free]
            BY <2>1, <3>2
        <3>3. CASE lock' = [lock EXCEPT ![h].left = Lease]
            <4>1. [lock[h] EXCEPT !.left = Lease] \in LockRow
                BY <2>1 DEF LockRow
            <4> QED
                BY <3>3, <4>1
        <3> QED
            BY <1>33, <3>1, <3>2, <3>3 DEF ShellMoves
    <2>3. LeasesTyped'
        BY <1>33, <2>2 DEF ShellTakes, ShellMoves, LeasesTyped
    <2> QED
        BY <1>33, <2>3 DEF ShellTakes, ShellMoves
<1>34. CASE UNCHANGED vars
    BY <1>34 DEF vars, tables, leases, locals, threads
<1> QED
    BY <1>1, <1>2, <1>3, <1>4, <1>5, <1>6, <1>7, <1>8, <1>9, <1>10, <1>11, <1>12, <1>13,
       <1>14, <1>15, <1>16, <1>17, <1>18, <1>19, <1>20, <1>21, <1>22, <1>23, <1>24, <1>25,
       <1>26, <1>27, <1>28, <1>29, <1>30, <1>31, <1>32, <1>33, <1>34
       DEF Next, Api, Loop, Execute, Runner, Failure

\* Init is type correct.
LEMMA InitTyped == Init => TypeOK
BY RunExecutionAssumption DEF Init, TypeOK, TablesTyped, LeasesTyped, MemoryTyped,
   ThreadsTyped, LockRow, Free, TargetStatus, Unsettled, Alive, Busy

\* Every behaviour of the queue and the workers is type correct: in particular no
\* handler of execute_run ever meets a missing run, result or status.
THEOREM TypeCorrect == Spec => []TypeOK
BY InitTyped, TypeStep, PTL DEF Spec
-----------------------------------------------------------------------------
(***************************************************************************)
(* Exclusion.  With punctual workers and a database that answers, every    *)
(* busy worker owns its run and holds, longer than its own lease, all of   *)
(* the run's hosts; and a runner thread never outlives the execution that  *)
(* started it.                                                             *)
(***************************************************************************)

Holds(w, h) ==
  lock[h].holder = job[w] /\ lock[h].owner = w /\ lock[h].left >= ttl[w]

Secure(w) ==
  /\ Owned(w, job[w])
  /\ w \in leased
  /\ ttl[w] > 0
  /\ \A h \in Targets[job[w]] : Holds(w, h)

BusySecure == \A w \in Workers : pc[w] \in Busy => Secure(w)

Attended ==
  /\ \A e \in exec : pc[e[1]] = "exec" /\ job[e[1]] = e[2] /\ result[e[1]] = "none"
  /\ \A w \in Workers : result[w] # "none" => pc[w] \in {"exec", "settle"}

ExclusionInv == TypeOK /\ BusySecure /\ Attended

\* No worker takes up a run in this step; those it had stay as they were.
NothingNew == \A w \in Workers : pc'[w] \in Busy => pc[w] \in Busy /\ job'[w] = job[w]

\* A step that touches neither leases nor locks and ends no run.
LEMMA QuietSecure ==
  ASSUME TypeOK, BusySecure, NothingNew, UNCHANGED <<claimedBy, leases>>,
         \A r \in Runs : status[r] \in Active => status'[r] \in Active
  PROVE  BusySecure'
<1> SUFFICES ASSUME NEW w \in Workers, pc'[w] \in Busy PROVE Secure(w)'
    BY DEF BusySecure
<1>1. pc[w] \in Busy /\ job'[w] = job[w] /\ Secure(w) /\ job[w] \in Runs
    BY DEF NothingNew, BusySecure, TypeOK, MemoryTyped
<1> QED
    BY <1>1 DEF Secure, Owned, Holds, leases

\* A heartbeat extends a worker's lease and its locks alike.
LEMMA BeatSecure ==
  ASSUME TypeOK, BusySecure, NothingNew, NEW u \in Workers, heartbeat(u),
         UNCHANGED <<status, claimedBy>>
  PROVE  BusySecure'
<1> SUFFICES ASSUME NEW w \in Workers, pc'[w] \in Busy PROVE Secure(w)'
    BY DEF BusySecure
<1>1. pc[w] \in Busy /\ job'[w] = job[w] /\ Secure(w) /\ job[w] \in Runs
    BY DEF NothingNew, BusySecure, TypeOK, MemoryTyped
<1>2. Owned(w, job[w])' /\ w \in leased'
    BY <1>1 DEF Secure, Owned, heartbeat
<1>3. ttl'[w] = (IF w = u THEN Lease ELSE ttl[w]) /\ ttl'[w] > 0
    BY <1>1, RunExecutionAssumption DEF Secure, heartbeat, TypeOK, LeasesTyped
<1>4. ASSUME NEW h \in Targets[job[w]] PROVE Holds(w, h)'
    <2>1. h \in Hosts /\ lock[h] \in LockRow
        BY <1>1, RunExecutionAssumption DEF TypeOK, LeasesTyped
    <2>2. lock'[h] = IF w = u THEN [lock[h] EXCEPT !.left = Lease] ELSE lock[h]
        BY <1>1, <2>1 DEF heartbeat, Extended, Secure, Holds
    <2> QED
        BY <1>1, <1>3, <2>1, <2>2, RunExecutionAssumption DEF Secure, Holds, LockRow
<1> QED
    BY <1>1, <1>2, <1>3, <1>4 DEF Secure

\* A worker that ends its run releases no other worker's hosts.
LEMMA FinishSecure ==
  ASSUME TypeOK, BusySecure, NothingNew, NEW u \in Workers, pc[u] \in Busy,
         pc'[u] \notin Busy, NEW s, finish(u, job[u], s)
  PROVE  BusySecure'
<1> SUFFICES ASSUME NEW w \in Workers, pc'[w] \in Busy PROVE Secure(w)'
    BY DEF BusySecure
<1>1. pc[w] \in Busy /\ job'[w] = job[w] /\ Secure(w) /\ job[w] \in Runs /\ job[u] \in Runs
    BY DEF NothingNew, BusySecure, TypeOK, MemoryTyped
<1>2. job[w] # job[u]
    BY <1>1 DEF Secure, Owned, finish
<1>3. Owned(w, job[w])' /\ w \in leased' /\ ttl'[w] = ttl[w]
    BY <1>1, <1>2 DEF Secure, Owned, finish, TypeOK, TablesTyped
<1>4. ASSUME NEW h \in Targets[job[w]] PROVE lock'[h] = lock[h]
    <2>1. h \in Hosts
        BY <1>1, RunExecutionAssumption
    <2> QED
        BY <1>1, <1>2, <2>1 DEF finish, Secure, Holds
<1> QED
    BY <1>1, <1>3, <1>4 DEF Secure, Holds

\* A claim takes hosts nobody holds: a held one has time left, a taken one had none.
LEMMA ClaimSecure ==
  ASSUME TypeOK, BusySecure, NEW u \in Workers, ClaimCommit(u)
  PROVE  BusySecure'
<1> DEFINE r == job[u]
<1>1. r \in Runs /\ pc[u] = "claim" /\ job' = job
    BY DEF ClaimCommit, Stay, TypeOK, MemoryTyped
<1>2. ASSUME NEW w \in Workers, w # u, pc'[w] \in Busy PROVE Secure(w)'
    <2>1. pc[w] \in Busy
        BY <1>2 DEF ClaimCommit, Stay, GoTo, TypeOK, MemoryTyped
    <2>2. Secure(w) /\ job[w] \in Runs
        BY <2>1 DEF BusySecure, TypeOK, MemoryTyped
    <2>3. ASSUME NEW h \in Targets[job[w]]
          PROVE  h \in Hosts /\ lock[h].left > 0 /\ h \notin Targets[r]
        <3>1. h \in Hosts /\ lock[h].left \in Nat /\ ttl[w] \in Nat
            BY <2>2, RunExecutionAssumption DEF TypeOK, LeasesTyped, LockRow
        <3>2. lock[h].left > 0
            BY <2>2, <3>1 DEF Secure, Holds
        <3> QED
            BY <3>1, <3>2 DEF ClaimCommit, Acquirable
    <2>4. r # job[w]
        BY <2>2, <2>3, RunExecutionAssumption
    <2>5. ASSUME NEW h \in Targets[job[w]] PROVE lock'[h] = lock[h]
        BY <1>2, <2>2, <2>3 DEF ClaimCommit, Acquire, Extended, Secure, Holds
    <2>6. Owned(w, job[w])' /\ w \in leased' /\ ttl'[w] = ttl[w]
        BY <1>1, <1>2, <2>2, <2>4
           DEF ClaimCommit, Secure, Owned, TypeOK, TablesTyped, LeasesTyped
    <2> QED
        BY <1>1, <2>2, <2>5, <2>6 DEF Secure, Holds
<1>3. Secure(u)'
    <2>1. Owned(u, r)' /\ u \in leased'
        BY <1>1 DEF ClaimCommit, Owned, Active, TypeOK, TablesTyped
    <2>2. ttl'[u] = Lease /\ Lease > 0
        BY RunExecutionAssumption DEF ClaimCommit, TypeOK, LeasesTyped
    <2>3. ASSUME NEW h \in Targets[r]
          PROVE  lock'[h] = [holder |-> r, owner |-> u, left |-> Lease]
        BY <1>1, RunExecutionAssumption DEF ClaimCommit, Acquire
    <2> QED
        BY <1>1, <2>1, <2>2, <2>3, RunExecutionAssumption DEF Secure, Holds
<1> QED
    BY <1>2, <1>3 DEF BusySecure

\* A starting worker recovers nothing that a live worker still leases.
LEMMA StartSecure ==
  ASSUME TypeOK, BusySecure, NEW u \in Workers, Start(u)
  PROVE  BusySecure'
<1> SUFFICES ASSUME NEW w \in Workers, pc'[w] \in Busy PROVE Secure(w)'
    BY DEF BusySecure
<1>1. w # u
    BY DEF Start, Drop, GoTo, Busy, TypeOK, MemoryTyped
<1>2. pc[w] \in Busy /\ job'[w] = job[w]
    BY <1>1 DEF Start, Drop, GoTo, TypeOK, MemoryTyped
<1>3. Secure(w) /\ job[w] \in Runs
    BY <1>2 DEF BusySecure, TypeOK, MemoryTyped
<1>4. w \notin Lapsed /\ job[w] \notin Abandoned
    BY <1>3 DEF Lapsed, Abandoned, Secure, Owned
<1>5. Owned(w, job[w])' /\ w \in leased' /\ ttl'[w] = ttl[w]
    BY <1>2, <1>3, <1>4 DEF Start, recover_stale, Secure, Owned
<1>6. ASSUME NEW h \in Targets[job[w]] PROVE lock'[h] = lock[h]
    <2>1. h \in Hosts /\ lock[h].left \in Nat /\ ttl[w] \in Nat
        BY <1>3, RunExecutionAssumption DEF TypeOK, LeasesTyped, LockRow
    <2>2. lock[h].left # 0 /\ lock[h].holder \notin Abandoned
        BY <1>3, <1>4, <2>1 DEF Secure, Holds
    <2> QED
        BY <2>1, <2>2 DEF Start, recover_stale
<1> QED
    BY <1>2, <1>3, <1>5, <1>6 DEF Secure, Holds

\* A web shell session touches only a host that nobody holds or that it holds itself.
LEMMA ShellSecure ==
  ASSUME TypeOK, BusySecure, NEW x \in Shells, NEW g \in Hosts,
         ShellTakes(x, g) \/ ShellMoves(x, g)
  PROVE  BusySecure'
<1> SUFFICES ASSUME NEW w \in Workers, pc'[w] \in Busy PROVE Secure(w)'
    BY DEF BusySecure
<1>1. pc' = pc /\ job' = job /\ UNCHANGED <<status, claimedBy, leased, ttl>>
    BY DEF ShellTakes, ShellMoves, locals, tables
<1>2. Secure(w) /\ job[w] \in Runs
    BY <1>1 DEF BusySecure, TypeOK, MemoryTyped
<1>3. ASSUME NEW h \in Targets[job[w]] PROVE lock'[h] = lock[h]
    <2>1. h \in Hosts /\ lock[h].left \in Nat /\ ttl[w] \in Nat
        BY <1>2, RunExecutionAssumption DEF TypeOK, LeasesTyped, LockRow
    <2>2. lock[h].left > 0 /\ lock[h].holder # x
        BY <1>2, <2>1, RunExecutionAssumption DEF Secure, Holds
    <2>3. h # g
        BY <2>2 DEF ShellTakes, ShellMoves
    <2>4. PICK row : lock' = [lock EXCEPT ![g] = row]
        BY DEF ShellTakes, ShellMoves
    <2> QED
        BY <2>1, <2>3, <2>4 DEF TypeOK, LeasesTyped
<1> QED
    BY <1>1, <1>2, <1>3 DEF Secure, Owned, Holds

\* Time runs for a lease and its locks alike, and stops short of a live lease's end.
LEMMA TickSecure ==
  ASSUME TypeOK, BusySecure, Punctual, Tick PROVE BusySecure'
<1> SUFFICES ASSUME NEW w \in Workers, pc'[w] \in Busy PROVE Secure(w)'
    BY DEF BusySecure
<1>1. pc[w] \in Busy /\ job'[w] = job[w]
    BY DEF Tick, locals
<1>2. Secure(w) /\ job[w] \in Runs /\ ttl[w] # 1 /\ ttl[w] \in Nat
    BY <1>1 DEF BusySecure, TypeOK, MemoryTyped, LeasesTyped, Tick, Alive
<1>3. ttl'[w] = ttl[w] - 1 /\ ttl'[w] > 0
    BY <1>2 DEF Tick, Secure
<1>4. Owned(w, job[w])' /\ w \in leased'
    BY <1>1, <1>2 DEF Tick, tables, Secure, Owned
<1>5. ASSUME NEW h \in Targets[job[w]] PROVE Holds(w, h)'
    <2>1. h \in Hosts /\ lock[h] \in LockRow
        BY <1>2, RunExecutionAssumption DEF TypeOK, LeasesTyped
    <2>2. lock[h].left \in Nat /\ lock[h].left >= ttl[w] /\ lock[h].left > 0
        BY <1>2, <2>1 DEF LockRow, Secure, Holds
    <2>3. lock'[h] = [lock[h] EXCEPT !.left = lock[h].left - 1]
        BY <2>1, <2>2 DEF Tick
    <2> QED
        BY <1>1, <1>2, <1>3, <2>1, <2>2, <2>3 DEF Secure, Holds, LockRow
<1> QED
    BY <1>1, <1>3, <1>4, <1>5 DEF Secure

\* Only worker u moves.
Others(u) == \A w \in Workers \ {u} :
  pc'[w] = pc[w] /\ job'[w] = job[w] /\ result'[w] = result[w]

\* A worker outside the execution of a thread has no thread.
LEMMA AttendedMove ==
  ASSUME TypeOK, Attended, NEW u \in Workers, Others(u), exec' \subseteq exec,
         \A e \in exec' : e[1] # u,
         result'[u] # "none" => pc'[u] \in {"exec", "settle"}
  PROVE  Attended'
<1>1. \A e \in exec' : e \in exec /\ e[1] \in Workers \ {u}
    BY DEF TypeOK, ThreadsTyped
<1>2. ASSUME NEW w \in Workers, result'[w] # "none" PROVE pc'[w] \in {"exec", "settle"}
    BY <1>2 DEF Attended, Others
<1> QED
    BY <1>1, <1>2 DEF Attended, Others

LEMMA DropAttended ==
  ASSUME TypeOK, Attended, NEW u \in Workers, NEW p, pc[u] # "exec", Drop(u, p),
         UNCHANGED threads
  PROVE  Attended' /\ Others(u)
<1>1. Others(u) /\ result'[u] = "none"
    BY DEF Drop, Forget, GoTo, Others, TypeOK, MemoryTyped
<1> QED
    BY <1>1, AttendedMove DEF Attended, threads

LEMMA StayAttended ==
  ASSUME TypeOK, Attended, NEW u \in Workers, NEW p, pc[u] \notin {"exec", "settle"},
         Stay(u, p), UNCHANGED threads
  PROVE  Attended' /\ Others(u)
<1>1. Others(u) /\ result'[u] = "none"
    BY DEF Stay, GoTo, Others, TypeOK, MemoryTyped, Attended
<1> QED
    BY <1>1, AttendedMove DEF Attended, threads

LEMMA AttendedKept ==
  ASSUME Attended, exec' \subseteq exec, UNCHANGED <<pc, job, result>> PROVE Attended'
BY DEF Attended

LEMMA MoveNothingNew ==
  ASSUME NEW u \in Workers, Others(u),
         pc'[u] \in Busy => pc[u] \in Busy /\ job'[u] = job[u]
  PROVE  NothingNew
BY DEF Others, NothingNew

\* The two parts of the invariant through a worker's end of its run ...
LEMMA EndsSecure ==
  ASSUME ExclusionInv, NEW u \in Workers, pc[u] \in Busy \ {"exec"}, NEW s,
         finish(u, job[u], s), Drop(u, "loop"), UNCHANGED threads
  PROVE  BusySecure' /\ Attended'
<1> USE DEF ExclusionInv
<1>1. Attended' /\ Others(u)
    BY DropAttended
<1>2. pc'[u] \notin Busy
    BY DEF Drop, GoTo, Busy, TypeOK, MemoryTyped
<1>3. NothingNew
    BY <1>1, <1>2, MoveNothingNew
<1> QED
    BY <1>1, <1>2, <1>3, FinishSecure

\* ... and through its moves inside execute_run.
LEMMA MovesSecure ==
  ASSUME ExclusionInv, NEW u \in Workers, pc[u] \in Busy \ {"exec", "settle"}, NEW p,
         Stay(u, p), UNCHANGED <<claimedBy, leases, threads>>,
         \A r \in Runs : status[r] \in Active => status'[r] \in Active
  PROVE  BusySecure' /\ Attended'
<1> USE DEF ExclusionInv
<1>1. Attended' /\ Others(u)
    BY StayAttended
<1>2. NothingNew
    BY <1>1, MoveNothingNew DEF Stay
<1> QED
    BY <1>1, <1>2, QuietSecure

\* With punctual workers and a database that answers, every step preserves the
\* invariant.
LEMMA ExclusionStep ==
  ASSUME Punctual, ~Faults, ExclusionInv, [Next]_vars PROVE BusySecure' /\ Attended'
<1> USE DEF ExclusionInv
<1> DEFINE Kept == BusySecure' /\ Attended'
<1>1. ASSUME NEW r \in Runs, Create(r) \/ cancel(r) PROVE Kept
    <2>1. UNCHANGED <<claimedBy, leases, locals, threads>>
        BY <1>1 DEF Create, cancel, request_cancel
    <2>2. NothingNew /\ Attended'
        BY <2>1, AttendedKept DEF NothingNew, locals, threads
    <2>3. \A q \in Runs : status[q] \in Active => status'[q] \in Active
        BY <1>1 DEF Create, cancel, request_cancel, Active, TypeOK, TablesTyped
    <2> QED
        BY <2>1, <2>2, <2>3, QuietSecure
<1>2. ASSUME NEW w \in Workers, Start(w) PROVE Kept
    <2>1. pc[w] # "exec"
        BY <1>2 DEF Start
    <2> QED
        BY <1>2, <2>1, StartSecure, DropAttended DEF Start
<1>3. ASSUME NEW w \in Workers, LoopHeartbeat(w) \/ ClaimNothing(w) PROVE Kept
    <2>1. PICK p \in {"poll", "loop"} : Stay(w, p)
        BY <1>3 DEF LoopHeartbeat, ClaimNothing
    <2>2. Attended' /\ Others(w)
        BY <1>3, <2>1, StayAttended DEF LoopHeartbeat, ClaimNothing
    <2>3. pc'[w] \notin Busy
        BY <2>1 DEF Stay, GoTo, Busy, TypeOK, MemoryTyped
    <2>4. NothingNew
        BY <2>2, <2>3, MoveNothingNew
    <2> QED
        BY <1>3, <2>2, <2>4, BeatSecure DEF LoopHeartbeat, ClaimNothing, tables
<1>4. ASSUME NEW w \in Workers, NEW r \in Runs, ClaimSelect(w, r) PROVE Kept
    <2>1. Others(w) /\ pc[w] # "exec" /\ result'[w] = "none" /\ pc'[w] = "claim"
        BY <1>4 DEF ClaimSelect, GoTo, Others, Attended, TypeOK, MemoryTyped
    <2>2. Attended'
        BY <1>4, <2>1, AttendedMove DEF ClaimSelect, Attended, threads
    <2>3. NothingNew
        BY <2>1, MoveNothingNew DEF Busy
    <2> QED
        BY <1>4, <2>2, <2>3, QuietSecure DEF ClaimSelect, tables
<1>5. ASSUME NEW w \in Workers, ClaimCommit(w) PROVE Kept
    BY <1>5, ClaimSecure, StayAttended DEF ClaimCommit
<1>6. ASSUME NEW w \in Workers, ClaimCollision(w) PROVE Kept
    <2>1. Attended' /\ Others(w)
        BY <1>6, DropAttended DEF ClaimCollision
    <2>2. pc'[w] \notin Busy
        BY <1>6 DEF ClaimCollision, Drop, GoTo, Busy, TypeOK, MemoryTyped
    <2>3. NothingNew
        BY <2>1, <2>2, MoveNothingNew
    <2> QED
        BY <1>6, <2>1, <2>3, QuietSecure DEF ClaimCollision, tables
<1>7. ASSUME NEW w \in Workers, ConsumeSecrets(w) PROVE Kept
    <2>1. pc[w] \in Busy \ {"exec", "settle"}
        BY <1>7 DEF ConsumeSecrets, consume_secret_inputs, Busy
    <2>2. Others(w) /\ job' = job /\ result'[w] = "none"
        BY <1>7 DEF ConsumeSecrets, consume_secret_inputs, Stay, Raise, Forget, GoTo, Others,
           Attended, TypeOK, MemoryTyped
    <2>3. Attended'
        BY <1>7, <2>1, <2>2, AttendedMove DEF ConsumeSecrets, consume_secret_inputs, Attended, threads
    <2>4. NothingNew
        BY <2>1, <2>2, MoveNothingNew
    <2> QED
        BY <1>7, <2>3, <2>4, QuietSecure DEF ConsumeSecrets, consume_secret_inputs
<1>8. ASSUME NEW w \in Workers, Prepare(w) \/ RuntimeError(w) PROVE Kept
    <2>1. PICK p \in {"runtime", "reject", "unready"} : Stay(w, p)
        BY <1>8 DEF Prepare, RuntimeError
    <2>2. pc[w] \in Busy \ {"exec", "settle"} /\ UNCHANGED <<tables, leases, threads>>
        BY <1>8 DEF Prepare, RuntimeError, Busy
    <2> QED
        BY <2>1, <2>2, MovesSecure DEF tables
<1>9. ASSUME NEW w \in Workers, MarkRunning(w) PROVE Kept
    <2>1. pc[w] \in Busy \ {"exec", "settle"}
        BY <1>9 DEF MarkRunning, Busy
    <2>2. \A r \in Runs : status[r] \in Active => status'[r] \in Active
        BY <1>9 DEF MarkRunning, mark_running, Active, TypeOK, TablesTyped
    <2> QED
        BY <1>9, <2>1, <2>2, MovesSecure DEF MarkRunning
<1>10. ASSUME NEW w \in Workers, Launch(w) PROVE Kept
    <2>1. Others(w) /\ pc[w] = "started" /\ job' = job /\ pc'[w] = "exec"
        BY <1>10 DEF Launch, Stay, GoTo, Others, TypeOK, MemoryTyped
    <2>2. result'[w] = "none"
        BY <1>10, <2>1 DEF Launch, Stay, Attended
    <2>3. NothingNew
        BY <2>1, MoveNothingNew DEF Busy
    <2>4. BusySecure'
        BY <1>10, <2>3, QuietSecure DEF Launch, tables
    <2>5. \A e \in exec : e[1] \in Workers \ {w}
        BY <2>1 DEF Attended, TypeOK, ThreadsTyped
    <2>6. \A e \in exec' : e \in exec \/ e = <<w, job[w]>>
        BY <1>10 DEF Launch
    <2>7. ASSUME NEW e \in exec'
          PROVE  pc'[e[1]] = "exec" /\ job'[e[1]] = e[2] /\ result'[e[1]] = "none"
        <3>1. CASE e \in exec
            <4>1. e[1] \in Workers \ {w}
                BY <2>5, <3>1
            <4>2. pc'[e[1]] = pc[e[1]] /\ job'[e[1]] = job[e[1]] /\ result'[e[1]] = result[e[1]]
                BY <2>1, <4>1 DEF Others
            <4> QED
                BY <3>1, <4>2 DEF Attended
        <3>2. CASE e = <<w, job[w]>>
            <4>1. e[1] = w /\ e[2] = job[w]
                BY <3>2
            <4> QED
                BY <2>1, <2>2, <4>1
        <3> QED
            BY <2>6, <3>1, <3>2
    <2>8. ASSUME NEW v \in Workers, result'[v] # "none" PROVE pc'[v] \in {"exec", "settle"}
        BY <2>1, <2>2, <2>8 DEF Attended, Others
    <2> QED
        BY <2>4, <2>7, <2>8 DEF Attended
<1>11. ASSUME NEW w \in Workers, NEW r \in Runs, MonitorBeat(w, r) PROVE Kept
    <2>1. NothingNew /\ Attended'
        BY <1>11, AttendedKept DEF MonitorBeat, NothingNew, locals, threads
    <2> QED
        BY <1>11, <2>1, BeatSecure DEF MonitorBeat, tables
<1>12. ASSUME NEW w \in Workers, MonitorCancel(w) \/ (\E h \in Hosts : RunnerEvent(w, h))
       PROVE  Kept
    <2>1. UNCHANGED <<tables, leases, pc, job, result, exec>>
        BY <1>12 DEF MonitorCancel, RunnerEvent, threads
    <2> QED
        BY <2>1, AttendedKept, QuietSecure DEF NothingNew, tables
<1>13. ASSUME NEW w \in Workers, RunnerReturns(w) \/ RunnerRaises(w) PROVE Kept
    <2>1. pc[w] = "exec" /\ job' = job /\ UNCHANGED <<tables, leases>>
        BY <1>13 DEF RunnerReturns, RunnerRaises, Raise
    <2>2. Others(w) /\ (result'[w] # "none" => pc'[w] \in {"exec", "settle"})
        BY <1>13 DEF RunnerReturns, RunnerRaises, Raise, Forget, GoTo, Others, TypeOK, MemoryTyped
    <2>3. exec' = exec \ {<<w, job[w]>>}
        BY <1>13 DEF RunnerReturns, RunnerRaises
    <2>4. \A e \in exec' : e[1] # w
        BY <2>3 DEF Attended, TypeOK, ThreadsTyped
    <2>5. Attended'
        BY <2>2, <2>3, <2>4, AttendedMove
    <2>6. NothingNew
        BY <2>1, <2>2, MoveNothingNew DEF Busy
    <2> QED
        BY <2>1, <2>5, <2>6, QuietSecure DEF tables
<1>14. ASSUME NEW w \in Workers, Drained(w) PROVE Kept
    <2>1. pc[w] = "exec" /\ pc'[w] = "settle" /\ job' = job /\ Others(w)
        BY <1>14 DEF Drained, GoTo, Others, TypeOK, MemoryTyped
    <2>2. \A e \in exec : e[1] # w
        BY <1>14 DEF Drained, Attended
    <2>3. Attended'
        BY <1>14, <2>1, <2>2, AttendedMove DEF Drained, threads
    <2>4. NothingNew
        BY <2>1, MoveNothingNew DEF Busy
    <2> QED
        BY <1>14, <2>3, <2>4, QuietSecure DEF Drained, tables
<1>15. ASSUME NEW w \in Workers, NEW h \in Hosts, FinishTarget(w, h) PROVE Kept
    BY <1>15, AttendedKept, QuietSecure DEF FinishTarget, finish_target, NothingNew, threads
<1>16. ASSUME NEW w \in Workers,
              Reject(w) \/ Unready(w) \/ FinishRun(w) \/ RunnerError(w) \/ Escape(w)
       PROVE  Kept
    <2>1. pc[w] \in Busy \ {"exec"} /\ Drop(w, "loop") /\ UNCHANGED threads
        BY <1>16 DEF Reject, Unready, FinishRun, RunnerError, Escape, Busy
    <2>2. PICK s \in Terminal \union {result[w]} : finish(w, job[w], s)
        BY <1>16 DEF Reject, Unready, FinishRun, RunnerError, Escape, Terminal
    <2> QED
        BY <2>1, <2>2, EndsSecure
<1>17. ASSUME NEW w \in Workers, Disowned(w) PROVE Kept
    BY <1>17 DEF Disowned, BusySecure, Secure, Busy
<1>18. ASSUME NEW w \in Workers, DatabaseError(w) \/ MonitorError(w) PROVE Kept
    BY <1>18 DEF DatabaseError, MonitorError
<1>19. ASSUME NEW w \in Workers, Joined(w) PROVE Kept
    <2>1. pc[w] = "join" /\ job' = job /\ Others(w) /\ result'[w] = "none"
        BY <1>19 DEF Joined, Raise, Forget, GoTo, Others, TypeOK, MemoryTyped
    <2>2. Attended'
        BY <1>19, <2>1, AttendedMove DEF Joined, Attended
    <2>3. NothingNew
        BY <2>1, MoveNothingNew DEF Busy
    <2> QED
        BY <1>19, <2>2, <2>3, QuietSecure DEF Joined, tables
<1>20. ASSUME NEW w \in Workers, NEW r \in Runs, ThreadEnds(w, r) PROVE Kept
    BY <1>20, AttendedKept, QuietSecure DEF ThreadEnds, NothingNew, locals, tables
<1>21. ASSUME NEW w \in Workers, Crash(w) PROVE Kept
    <2>1. Others(w) /\ pc'[w] = "dead" /\ result'[w] = "none"
        BY <1>21 DEF Crash, Drop, Forget, GoTo, Others, TypeOK, MemoryTyped
    <2>2. Attended'
        BY <1>21, <2>1, AttendedMove DEF Crash
    <2>3. NothingNew
        BY <2>1, MoveNothingNew DEF Busy
    <2> QED
        BY <1>21, <2>2, <2>3, QuietSecure DEF Crash, tables
<1>22. CASE Tick
    BY <1>22, TickSecure, AttendedKept DEF Tick, locals, threads
<1>23. ASSUME NEW x \in Shells, NEW h \in Hosts, ShellTakes(x, h) \/ ShellMoves(x, h)
       PROVE  Kept
    BY <1>23, ShellSecure, AttendedKept DEF ShellTakes, ShellMoves, locals, threads
<1>24. CASE UNCHANGED vars
    BY <1>24, AttendedKept, QuietSecure DEF vars, leases, NothingNew
<1> QED
    BY <1>1, <1>2, <1>3, <1>4, <1>5, <1>6, <1>7, <1>8, <1>9, <1>10, <1>11, <1>12, <1>13,
       <1>14, <1>15, <1>16, <1>17, <1>18, <1>19, <1>20, <1>21, <1>22, <1>23, <1>24
       DEF Next, Api, Loop, Execute, Runner, Failure

\* INV-12: no host is worked on by two runner threads, or by a thread and a web shell
\* session, at once, for any number of workers, runs, sessions and hosts and any lease,
\* crashes and restarts included, as long as workers renew their lease in time and
\* their database calls succeed.
THEOREM Exclusion == ASSUME Punctual, ~Faults PROVE Spec => []HostExclusive
<1>1. Init => ExclusionInv
    <2> SUFFICES ASSUME Init PROVE ExclusionInv
        OBVIOUS
    <2>1. TypeOK
        BY InitTyped
    <2> QED
        BY <2>1 DEF Init, ExclusionInv, BusySecure, Attended, Busy
<1>2. ExclusionInv /\ [Next]_vars => ExclusionInv'
    BY TypeStep, ExclusionStep DEF ExclusionInv
<1>3. ExclusionInv => HostExclusive
    <2> SUFFICES ASSUME ExclusionInv, NEW e \in exec, NEW h \in Targets[e[2]]
                 PROVE  /\ lock[h].holder \notin Shells
                        /\ \A f \in exec : e # f => h \notin Targets[f[2]]
        BY DEF HostExclusive
    <2>1. ASSUME NEW f \in exec
          PROVE  f = <<f[1], f[2]>> /\ f[2] \in Runs /\ job[f[1]] = f[2] /\ Secure(f[1])
        BY DEF ExclusionInv, TypeOK, ThreadsTyped, BusySecure, Attended, Busy
    <2>2. ASSUME NEW f \in exec, h \in Targets[f[2]]
          PROVE  lock[h].owner = f[1] /\ lock[h].holder = f[2]
        BY <2>1, <2>2 DEF Secure, Holds
    <2> QED
        BY <2>1, <2>2, RunExecutionAssumption
<1> QED
    BY <1>1, <1>2, <1>3, PTL DEF Spec

\* Under the same assumptions a live worker keeps the run it is executing until it
\* ends the run itself: no recovery and no cancellation takes it away.
THEOREM Ownership == ASSUME Punctual, ~Faults PROVE Spec => []OwnershipKept
<1>1. Init => ExclusionInv
    BY InitTyped DEF Init, ExclusionInv, BusySecure, Attended, Busy
<1>2. ExclusionInv /\ [Next]_vars => ExclusionInv'
    BY TypeStep, ExclusionStep DEF ExclusionInv
<1>3. ExclusionInv => OwnershipKept
    BY DEF ExclusionInv, BusySecure, Secure, OwnershipKept
<1> QED
    BY <1>1, <1>2, <1>3, PTL DEF Spec
=============================================================================
