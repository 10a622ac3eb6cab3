------------------------------ MODULE Keyring -------------------------------
(***************************************************************************)
(* The master keyring, the encrypted rows of the database, and the job     *)
(* that re-encrypts them under the primary key of a new keyring.           *)
(*                                                                         *)
(* Every process has the keyring it was started with: the key versions it  *)
(* can decrypt and the primary version it encrypts with.  Keyrings change  *)
(* by restarts, so that processes with different keyrings run side by      *)
(* side.  API processes write secrets, workers rotate them in batches; a   *)
(* transaction holds the locks of the rows it has read or written until it *)
(* ends, and a stopped process loses its transactions.                     *)
(***************************************************************************)
EXTENDS Naturals, FiniteSets, Sequences

CONSTANTS
  Apis,         \* API processes
  Workers,      \* worker processes
  Rings,        \* keyrings of the deployment, records [versions, primary]
  Records,      \* encrypted rows other than the pepper
  kind,         \* "CREDENTIAL", "MFA" or "RUN_SECRET", for each of them
  BatchSize,    \* ROTATION_BATCH_SIZE
  MaxWrites,    \* bound on secrets written
  MaxJobs,      \* bound on rotation jobs
  MaxFaults     \* bound on stops, crashes and statements that fail

Procs  == Apis \union Workers
Nobody == "nobody"

ASSUME KeyringAssumption ==
  /\ Apis \intersect Workers = {} /\ Nobody \notin Procs
  /\ "pepper" \notin Records
  /\ Rings # {} /\ Rings \subseteq [versions : SUBSET Nat, primary : Nat]
  /\ \A ring \in Rings : ring.primary \in ring.versions
  /\ kind \in [Records -> {"CREDENTIAL", "MFA", "RUN_SECRET"}]
  /\ BatchSize \in Nat \ {0}
  /\ MaxWrites \in Nat /\ MaxJobs \in Nat /\ MaxFaults \in Nat

Rows == Records \union {"pepper"}
Kind(r) == IF r = "pepper" THEN "SYSTEM" ELSE kind[r]

VARIABLES
  boot,      \* "down", "registered", "checked" during ensure_keyring, "up"
  ring,      \* the keyring of each process
  registry,  \* encryption_key_registry
  adding,    \* versions a starting process has inserted there, uncommitted
  bare,      \* the starting processes that found no pepper
  row,       \* the committed envelope of each row, Absent when there is none
  holder,    \* the process whose transaction locks a row
  tx,        \* the write an API process has in progress
  rot,       \* the rotation batch a worker has in progress
  jobs,      \* key_rotation_jobs, in order of creation
  kept,      \* what the owner of a row last stored in it
  late,      \* rows stored by their owners since the usage was last counted
  writes,    \* secrets made so far
  faults     \* stops and failed statements so far

starting == <<boot, ring, registry, adding, bare>>
data     == <<row, holder, kept, late>>
bounds   == <<writes, faults>>
vars     == <<starting, data, tx, rot, jobs, bounds>>

Absent  == [value |-> 0, key |-> 0, sealed |-> 0]
NoTx    == [op |-> "none"]
NoBatch == [pc |-> "idle"]

Versions == UNION {k.versions : k \in Rings}
Envelope == [value : Nat, key : Nat, sealed : Nat]
Job      == [target : Nat, state : {"PENDING", "SUCCEEDED", "FAILED"}]
Txs      == {NoTx} \union [op : {"put", "drop"}, row : Rows, envelope : Envelope]
IsRotation(b) ==
  \/ b = NoBatch
  \/ b \in [pc : {"failing"}, job : Nat]
  \/ \E S \in SUBSET Rows :
       \/ b \in [pc : {"loaded"}, job : Nat, batch : [S -> Envelope]]
       \/ b \in [pc : {"counted"}, job : Nat, batch : [S -> Envelope], completed : BOOLEAN]

TypeOK ==
  /\ boot \in [Procs -> {"down", "registered", "checked", "up"}]
  /\ ring \in [Procs -> Rings]
  /\ registry \subseteq Versions
  /\ adding \in [Procs -> SUBSET Versions]
  /\ bare \subseteq Procs
  /\ row \in [Rows -> Envelope]
  /\ holder \in [Rows -> Procs \union {Nobody}]
  /\ tx \in [Apis -> Txs]
  /\ rot = [w \in Workers |-> rot[w]] /\ \A w \in Workers : IsRotation(rot[w])
  /\ jobs \in Seq(Job)
  /\ kept \in [Rows -> Nat]
  /\ late \subseteq Rows
  /\ writes \in Nat
  /\ faults \in Nat

Init ==
  /\ boot = [p \in Procs |-> "down"]
  /\ ring \in [Procs -> {CHOOSE k \in Rings : TRUE}]
  /\ registry = {}
  /\ adding = [p \in Procs |-> {}]
  /\ bare = {}
  /\ row = [r \in Rows |-> Absent]
  /\ holder = [r \in Rows |-> Nobody]
  /\ tx = [a \in Apis |-> NoTx]
  /\ rot = [w \in Workers |-> NoBatch]
  /\ jobs = <<>>
  /\ kept = [r \in Rows |-> 0]
  /\ late = {}
  /\ writes = 0
  /\ faults = 0

Fault == faults < MaxFaults /\ faults' = faults + 1

Up(p) == boot[p] = "up"
Present(r) == row[r] # Absent

\* The owner of a row commits envelope e.
Store(r, e) ==
  /\ row' = [row EXCEPT ![r] = e]
  /\ kept' = [kept EXCEPT ![r] = e.value]
  /\ late' = IF \E w \in Workers : rot[w].pc = "counted" THEN late \union {r} ELSE {}

(***************************************************************************)
(* Encryption.  The version stored beside an envelope is what decryption   *)
(* goes by; the envelope opens only with the key that sealed it.           *)
(***************************************************************************)

has_version(p, v) == v \in ring[p].versions

\* encrypt_bytes and CredentialCipher.encrypt with the primary key.
encrypt(p, v) ==
  [value |-> v, key |-> ring[p].primary, sealed |-> ring[p].primary]

decrypts(p, e) == has_version(p, e.key) /\ e.sealed = e.key

\* _reencrypt: the credential cipher knows no target and takes the primary
\* key; the other kinds are sealed with the target itself.
reencrypt(p, r, e, target) ==
  [e EXCEPT !.key = target,
            !.sealed = IF Kind(r) = "CREDENTIAL" THEN ring[p].primary ELSE target]

can_reencrypt(p, r, e, target) ==
  /\ decrypts(p, e)
  /\ Kind(r) = "CREDENTIAL" \/ has_version(p, target)

\* usage: whether a committed envelope outside S is under another key.
usage_other(S, target) ==
  \E r \in Rows \ S : Present(r) /\ row[r].key # target

-----------------------------------------------------------------------------
(***************************************************************************)
(* Start and stop of a process.                                            *)
(***************************************************************************)

\* Deployments change keyrings step by step: a keyring put into service
\* shares a version with every keyring in service.
Deployable(k, p) ==
  \A q \in Procs \ {p} :
    boot[q] # "down" => k.versions \intersect ring[q].versions # {}

\* Mutant: the versions are inserted without regard to other transactions.
add_keys_at_once(p) ==
  adding' = [adding EXCEPT ![p] = ring'[p].versions \ registry]

\* ensure_keyring, the registry: an insert of a version that another
\* transaction has inserted waits for that transaction to end.
add_keys(p) ==
  LET new == ring'[p].versions \ registry IN
    /\ \A q \in Procs \ {p} : adding[q] \intersect new = {}
    /\ adding' = [adding EXCEPT ![p] = new]

register_keys(p, k) ==
  /\ boot[p] = "down"
  /\ Deployable(k, p)
  /\ ring' = [ring EXCEPT ![p] = k]
  /\ add_keys(p)
  /\ boot' = [boot EXCEPT ![p] = "registered"]
  /\ UNCHANGED <<registry, bare, data, tx, rot, jobs, bounds>>

\* ensure_keyring, the usage of the versions and the read of the pepper.
check_usage(p) ==
  /\ boot[p] = "registered"
  /\ \A r \in Rows : Present(r) => has_version(p, row[r].key)
  /\ bare' = IF Present("pepper") THEN bare ELSE bare \union {p}
  /\ boot' = [boot EXCEPT ![p] = "checked"]
  /\ UNCHANGED <<ring, registry, adding, data, tx, rot, jobs, bounds>>

\* A version still in use is missing: the process does not start.
refuse_start(p) ==
  /\ boot[p] = "registered"
  /\ \E r \in Rows : Present(r) /\ ~has_version(p, row[r].key)
  /\ boot' = [boot EXCEPT ![p] = "down"]
  /\ adding' = [adding EXCEPT ![p] = {}]
  /\ UNCHANGED <<ring, registry, bare, data, tx, rot, jobs, bounds>>

\* put_system_secret replaces a pepper that is there by now.
put_pepper(p) ==
  IF p \in bare
    THEN /\ writes < MaxWrites
         /\ holder["pepper"] = Nobody
         /\ Store("pepper", encrypt(p, writes + 1))
         /\ writes' = writes + 1
    ELSE UNCHANGED <<row, kept, late, writes>>

commit_start(p) ==
  /\ boot[p] = "checked"
  /\ put_pepper(p)
  /\ registry' = registry \union adding[p]
  /\ adding' = [adding EXCEPT ![p] = {}]
  /\ bare' = bare \ {p}
  /\ boot' = [boot EXCEPT ![p] = "up"]
  /\ UNCHANGED <<ring, holder, tx, rot, jobs, faults>>

\* A stop or a crash: the transactions of the process are rolled back.
stop(p) ==
  /\ boot[p] # "down"
  /\ Fault
  /\ boot' = [boot EXCEPT ![p] = "down"]
  /\ adding' = [adding EXCEPT ![p] = {}]
  /\ bare' = bare \ {p}
  /\ holder' = [r \in Rows |-> IF holder[r] = p THEN Nobody ELSE holder[r]]
  /\ tx' = IF p \in Apis THEN [tx EXCEPT ![p] = NoTx] ELSE tx
  /\ rot' = IF p \in Workers THEN [rot EXCEPT ![p] = NoBatch] ELSE rot
  /\ UNCHANGED <<ring, registry, row, kept, late, jobs, writes>>

-----------------------------------------------------------------------------
(***************************************************************************)
(* Secrets and their owners.                                               *)
(***************************************************************************)

Begin(a, r, t) ==
  /\ Up(a)
  /\ tx[a] = NoTx
  /\ holder[r] = Nobody
  /\ holder' = [holder EXCEPT ![r] = a]
  /\ tx' = [tx EXCEPT ![a] = t]
  /\ UNCHANGED <<starting, row, kept, late, rot, jobs, faults>>

\* The write of an envelope under the primary key.
put(a, r) ==
  /\ writes < MaxWrites
  /\ writes' = writes + 1
  /\ Begin(a, r, [op |-> "put", row |-> r, envelope |-> encrypt(a, writes + 1)])

\* add_credential and rotate_credential insert the envelope of a revision.
put_credential_envelope(a, r) ==
  /\ Kind(r) = "CREDENTIAL"
  /\ ~Present(r)
  /\ put(a, r)

\* put_mfa_factor inserts a factor or replaces the one of the user.
put_mfa_factor(a, r) ==
  /\ Kind(r) = "MFA"
  /\ put(a, r)

\* add_secret_inputs, in the transaction that creates the run.
add_secret_inputs(a, r) ==
  /\ Kind(r) = "RUN_SECRET"
  /\ ~Present(r)
  /\ put(a, r)

\* reset_mfa, or the claim of a run, which consumes its inputs.
delete_secret(a, r) ==
  /\ Kind(r) \in {"MFA", "RUN_SECRET"}
  /\ Present(r)
  /\ Begin(a, r, [op |-> "drop", row |-> r, envelope |-> Absent])
  /\ UNCHANGED writes

commit_write(a) ==
  /\ tx[a] # NoTx
  /\ Store(tx[a].row, tx[a].envelope)
  /\ holder' = [holder EXCEPT ![tx[a].row] = Nobody]
  /\ tx' = [tx EXCEPT ![a] = NoTx]
  /\ UNCHANGED <<starting, rot, jobs, bounds>>

\* A later statement of the transaction fails.
abort_write(a) ==
  /\ tx[a] # NoTx
  /\ Fault
  /\ holder' = [holder EXCEPT ![tx[a].row] = Nobody]
  /\ tx' = [tx EXCEPT ![a] = NoTx]
  /\ UNCHANGED <<starting, row, kept, late, rot, jobs, writes>>

-----------------------------------------------------------------------------
(***************************************************************************)
(* Rotation.                                                               *)
(***************************************************************************)

\* uq_key_rotation_jobs_active: one job is in progress at most.
request_rotation(a) ==
  /\ Up(a)
  /\ Len(jobs) < MaxJobs
  /\ \A j \in DOMAIN jobs : jobs[j].state # "PENDING"
  /\ jobs' = Append(jobs, [target |-> ring[a].primary, state |-> "PENDING"])
  /\ UNCHANGED <<starting, data, tx, rot, bounds>>

\* pg_try_advisory_xact_lock: one batch at a time.  RUNNING is written and
\* replaced in one transaction, so that no other one ever sees it.
Claimable(w, j) ==
  /\ Up(w)
  /\ rot[w] = NoBatch
  /\ \A v \in Workers : rot[v].pc \notin {"loaded", "counted"}
  /\ j \in DOMAIN jobs
  /\ jobs[j].state = "PENDING"

\* load_rotation_batch: FOR UPDATE SKIP LOCKED, over the first kind that
\* has a row left.
Candidates(target, k) ==
  {r \in Rows : Kind(r) = k /\ Present(r) /\ row[r].key # target /\ holder[r] = Nobody}

FirstCandidates(target) ==
  LET Left(k) == Candidates(target, k) # {} IN
  CASE Left("CREDENTIAL") -> Candidates(target, "CREDENTIAL")
    [] ~Left("CREDENTIAL") /\ Left("MFA") -> Candidates(target, "MFA")
    [] ~Left("CREDENTIAL") /\ ~Left("MFA") /\ Left("SYSTEM") ->
         Candidates(target, "SYSTEM")
    [] OTHER -> Candidates(target, "RUN_SECRET")

load_rotation_batch(w, target, S) ==
  /\ S \subseteq FirstCandidates(target)
  /\ \/ S = FirstCandidates(target) /\ Cardinality(S) <= BatchSize
     \/ Cardinality(S) = BatchSize
  /\ holder' = [r \in Rows |-> IF r \in S THEN w ELSE holder[r]]

Fail(w, j) ==
  rot' = [rot EXCEPT ![w] = [pc |-> "failing", job |-> j]]

\* Mutant: any target the keyring has will do.
TargetIsKnown(w, target) == has_version(w, target)

\* The guard of process_rotation_batch.
TargetIsPrimary(w, target) == target = ring[w].primary

\* process_rotation_batch up to the re-encrypted rows.
claim_batch(w) ==
  \E j \in DOMAIN jobs :
    LET target == jobs[j].target IN
    /\ Claimable(w, j)
    /\ TargetIsPrimary(w, target)
    /\ \E S \in SUBSET FirstCandidates(target) :
         /\ load_rotation_batch(w, target, S)
         /\ \A r \in S : can_reencrypt(w, r, row[r], target)
         /\ rot' = [rot EXCEPT ![w] =
                      [pc |-> "loaded", job |-> j,
                       batch |-> [r \in S |-> reencrypt(w, r, row[r], target)]]]
    /\ UNCHANGED <<starting, row, kept, late, tx, jobs, bounds>>

\* Another target, or a row that does not open: the transaction is rolled
\* back and the job will be marked.
fail_batch(w) ==
  \E j \in DOMAIN jobs :
    LET target == jobs[j].target IN
    /\ Claimable(w, j)
    /\ \/ ~TargetIsPrimary(w, target)
       \/ \E r \in FirstCandidates(target) : ~can_reencrypt(w, r, row[r], target)
    /\ Fail(w, j)
    /\ UNCHANGED <<starting, data, tx, jobs, bounds>>

\* Mutant: a batch that found no row ends the job.
count_batch(w) ==
  /\ rot[w].pc = "loaded"
  /\ rot' = [rot EXCEPT ![w] =
               [pc |-> "counted", job |-> @.job, batch |-> @.batch,
                completed |-> DOMAIN @.batch = {}]]
  /\ late' = {}
  /\ UNCHANGED <<starting, row, holder, kept, tx, jobs, bounds>>

\* The usage after update_rotation_batch, as the transaction sees it.
count_remaining(w) ==
  /\ rot[w].pc = "loaded"
  /\ rot' = [rot EXCEPT ![w] =
               [pc |-> "counted", job |-> @.job, batch |-> @.batch,
                completed |-> ~usage_other(DOMAIN @.batch, jobs[@.job].target)]]
  /\ late' = {}
  /\ UNCHANGED <<starting, row, holder, kept, tx, jobs, bounds>>

update_rotation_job(j, state) == jobs' = [jobs EXCEPT ![j].state = state]

\* UPDATEs by primary key: a row that is gone is not brought back.
update_rotation_batch(batch) ==
  row' = [r \in Rows |-> IF r \in DOMAIN batch /\ Present(r) THEN batch[r] ELSE row[r]]

commit_batch(w) ==
  /\ rot[w].pc = "counted"
  /\ update_rotation_batch(rot[w].batch)
  /\ holder' = [r \in Rows |-> IF holder[r] = w THEN Nobody ELSE holder[r]]
  /\ update_rotation_job(rot[w].job,
                         IF rot[w].completed THEN "SUCCEEDED" ELSE "PENDING")
  /\ rot' = [rot EXCEPT ![w] = NoBatch]
  /\ UNCHANGED <<starting, kept, late, tx, bounds>>

\* Mutant: the exception is only logged.
only_log_failure(w) ==
  /\ rot[w].pc = "failing"
  /\ rot' = [rot EXCEPT ![w] = NoBatch]
  /\ UNCHANGED <<starting, data, tx, jobs, bounds>>

\* The handler of the exception, in a transaction of its own: whatever the
\* job has become since, it is FAILED now.
mark_failed(w) ==
  /\ rot[w].pc = "failing"
  /\ update_rotation_job(rot[w].job, "FAILED")
  /\ rot' = [rot EXCEPT ![w] = NoBatch]
  /\ UNCHANGED <<starting, data, tx, bounds>>

\* A statement of the batch fails.
lose_batch(w) ==
  /\ rot[w].pc \in {"loaded", "counted"}
  /\ Fault
  /\ holder' = [r \in Rows |-> IF holder[r] = w THEN Nobody ELSE holder[r]]
  /\ Fail(w, rot[w].job)
  /\ UNCHANGED <<starting, row, kept, late, tx, jobs, writes>>

-----------------------------------------------------------------------------
Start(p) ==
  \/ \E k \in Rings : register_keys(p, k)
  \/ check_usage(p)
  \/ refuse_start(p)
  \/ commit_start(p)

Write(a) ==
  \/ \E r \in Rows :
       \/ put_credential_envelope(a, r)
       \/ put_mfa_factor(a, r)
       \/ add_secret_inputs(a, r)
       \/ delete_secret(a, r)
  \/ request_rotation(a)

process_rotation_batch(w) ==
  \/ claim_batch(w)
  \/ fail_batch(w)
  \/ count_remaining(w)
  \/ commit_batch(w)
  \/ mark_failed(w)

Next ==
  \/ \E p \in Procs : Start(p) \/ stop(p)
  \/ \E a \in Apis : Write(a) \/ commit_write(a) \/ abort_write(a)
  \/ \E w \in Workers : process_rotation_batch(w) \/ lose_batch(w)

Spec == Init /\ [][Next]_vars

\* A worker polls for a batch every second, and no transaction stays open.
FairSpec ==
  /\ Spec
  /\ \A w \in Workers : WF_vars(process_rotation_batch(w))
  /\ \A a \in Apis : WF_vars(commit_write(a))

-----------------------------------------------------------------------------
(***************************************************************************)
(* Properties.                                                             *)
(***************************************************************************)

(* Every stored envelope holds what its owner last stored there and was    *)
(* sealed with the key its row names, whatever keyrings the processes run  *)
(* with and however writes, batches and stops interleave (INV-25).         *)
SecretsKept ==
  \A r \in Rows :
    /\ row[r].value = kept[r]
    /\ row[r].sealed = row[r].key

(* A job is marked SUCCEEDED only when every row still under another key   *)
(* was stored after the usage was counted, by a process with another       *)
(* primary key: the rows that batches skipped because a writer held them   *)
(* are not forgotten when the old key is taken out of the keyring file.    *)
OldKeyUnused ==
  [][\A j \in DOMAIN jobs :
       jobs[j].state = "PENDING" /\ jobs'[j].state = "SUCCEEDED"
         => \A r \in Rows : row'[r] # Absent /\ row'[r].key # jobs[j].target
              => r \in late]_vars

(* The idempotency pepper, once there, keeps its value: neither a rotation *)
(* nor two processes that start at the same time on an empty database      *)
(* replace it, and the fingerprints made with it stay comparable.          *)
PepperStable ==
  [][Present("pepper") => row'["pepper"].value = row["pepper"].value]_vars

(* A rotation job ends, done or failed, if some worker stays up: skipped   *)
(* rows, lost batches and workers with another keyring do not leave it     *)
(* PENDING for ever.  Writes and faults are bounded (MaxWrites and         *)
(* MaxFaults): a process that goes on writing under the old primary key    *)
(* keeps a job PENDING, and its endless writes are not covered here.       *)
RotationEnds ==
  (\E w \in Workers : <>[]Up(w)) =>
    \A j \in 1..MaxJobs :
      (j \in DOMAIN jobs /\ jobs[j].state = "PENDING")
        ~> (j \in DOMAIN jobs /\ jobs[j].state # "PENDING")
=============================================================================
