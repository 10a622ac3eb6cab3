---------------------------- MODULE RunLifecycle ----------------------------
(***************************************************************************)
(* What the system promises about one run's life, whatever happens to the  *)
(* workers, to their leases and to their database connections: the         *)
(* statuses a run goes through, in which order, and that its operation is  *)
(* carried out at most once.                                               *)
(***************************************************************************)
CONSTANT Runs

VARIABLES status, launched

lifecycle == <<status, launched>>

\* Endings of a run whose operation was never handed to the runner, and all.
Unstarted == {"REJECTED", "FAILED", "INTERRUPTED"}
Started   == {"SUCCEEDED", "PARTIAL", "CANCELED", "TIMED_OUT", "FAILED", "INTERRUPTED"}

Init == status = [r \in Runs |-> "ABSENT"] /\ launched = {}

Become(r, s) == status' = [status EXCEPT ![r] = s] /\ UNCHANGED launched

Submit(r) == status[r] = "ABSENT" /\ Become(r, "QUEUED")

Withdraw(r) == status[r] = "QUEUED" /\ Become(r, "CANCELED")

Claim(r) == status[r] = "QUEUED" /\ Become(r, "PREPARING")

Begin(r) == status[r] = "PREPARING" /\ Become(r, "RUNNING")

\* The operation reaches the hosts: once, and never for a run that was not
\* prepared.  A worker that lost its lease may do so for an interrupted run.
Launch(r) ==
  /\ r \notin launched
  /\ status[r] \in {"RUNNING", "INTERRUPTED"}
  /\ launched' = launched \union {r}
  /\ UNCHANGED status

\* Success, partial success, timeout and cancellation are reported only of an
\* operation that was carried out.
End(r) ==
  \/ status[r] = "PREPARING" /\ \E s \in Unstarted : Become(r, s)
  \/ /\ status[r] = "RUNNING"
     /\ \E s \in IF r \in launched THEN Started ELSE {"FAILED", "INTERRUPTED"} : Become(r, s)

\* A recovery ends every run of the workers it finds dead.
Recover ==
  /\ \E R \in SUBSET Runs :
       /\ \A r \in R : status[r] \in {"PREPARING", "RUNNING"}
       /\ status' = [r \in Runs |-> IF r \in R THEN "INTERRUPTED" ELSE status[r]]
  /\ UNCHANGED launched

Next ==
  \/ Recover
  \/ \E r \in Runs : Submit(r) \/ Withdraw(r) \/ Claim(r) \/ Begin(r) \/ Launch(r) \/ End(r)

Spec == Init /\ [][Next]_lifecycle
=============================================================================
