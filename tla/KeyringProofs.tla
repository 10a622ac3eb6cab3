---------------------------- MODULE KeyringProofs ---------------------------
(***************************************************************************)
(* No secret is lost or sealed with a key its row does not name, a job is  *)
(* only done when the old key is out of use, and the pepper stays, for any *)
(* number of processes, rows, keyrings, batches and stops.                 *)
(*                                                                         *)
(* Three arguments carry it.  A row lock makes what a writer or a batch    *)
(* computed earlier still right when it commits.  The advisory lock leaves *)
(* one batch at a time, so that its count holds but for rows stored since. *)
(* And the uncommitted versions of the registry let one process at a time  *)
(* start on an empty database, because deployed keyrings share a version.  *)
(***************************************************************************)
EXTENDS Keyring, SequenceTheorems, TLAPS

\* Every envelope is sealed with the key it names and holds what its owner stored; an
\* envelope that is there holds something.
RowsSealed ==
  \A r \in Rows :
    /\ row[r].value = kept[r] /\ row[r].sealed = row[r].key
    /\ row[r] = Absent \/ row[r].value # 0

\* A write in progress holds the lock of its row, which is not the pepper, and its
\* envelope is sealed like those of the rows.
WritesHeld ==
  \A a \in Apis : tx[a] # NoTx =>
    /\ tx[a].row # "pepper" /\ holder[tx[a].row] = a
    /\ tx[a].envelope.sealed = tx[a].envelope.key
    /\ tx[a].envelope = Absent \/ tx[a].envelope.value # 0

\* The worker has a batch in progress.
Batching(w) == rot[w].pc \in {"loaded", "counted"}

\* A batch in progress holds the locks of its rows, and has for each of them the value
\* that is there, sealed with the target key.
BatchesHeld ==
  \A w \in Workers : Batching(w) =>
    /\ rot[w].job \in DOMAIN jobs
    /\ \A r \in DOMAIN rot[w].batch :
         /\ holder[r] = w
         /\ row[r] # Absent
         /\ rot[w].batch[r].value = row[r].value
         /\ rot[w].batch[r].key = jobs[rot[w].job].target
         /\ rot[w].batch[r].sealed = jobs[rot[w].job].target

\* The advisory lock: one batch is in progress at most.  A failed one is of a job.
OneBatch ==
  /\ \A v, w \in Workers : Batching(v) /\ Batching(w) => v = w
  /\ \A w \in Workers : rot[w].pc = "failing" => rot[w].job \in DOMAIN jobs

\* A batch that counted nothing else under another key is right about every row but
\* those stored since.
CountedRight ==
  \A w \in Workers : rot[w].pc = "counted" /\ rot[w].completed =>
    \A r \in Rows \ DOMAIN rot[w].batch :
      row[r] = Absent \/ row[r].key = jobs[rot[w].job].target \/ r \in late

\* Before there is a pepper no process was ever up, nothing is registered, and the one
\* process that is starting has every version of its keyring inserted; it is known to
\* have found no pepper once it has looked.
FirstStart ==
  /\ ~Present("pepper") =>
       /\ registry = {}
       /\ \A p \in Procs : boot[p] # "down" =>
            /\ boot[p] # "up"
            /\ boot[p] = "checked" => p \in bare
            /\ adding[p] = ring[p].versions
            /\ \A q \in Procs : boot[q] # "down" => p = q
  /\ \A p \in bare : boot[p] = "checked" /\ ~Present("pepper")

KeyringInv ==
  /\ TypeOK
  /\ RowsSealed /\ WritesHeld
  /\ BatchesHeld /\ OneBatch /\ CountedRight
  /\ FirstStart
-----------------------------------------------------------------------------
(***************************************************************************)
(* Types.                                                                  *)
(***************************************************************************)

LEMMA RotationFields ==
  ASSUME NEW b, IsRotation(b)
  PROVE  /\ b.pc \in {"idle", "loaded", "counted", "failing"}
         /\ b.pc \in {"loaded", "counted"} =>
              /\ DOMAIN b.batch \in SUBSET Rows
              /\ \A r \in DOMAIN b.batch : b.batch[r] \in Envelope
<1>1. CASE b = NoBatch
    BY <1>1 DEF NoBatch
<1>2. CASE b \in [pc : {"failing"}, job : Nat]
    BY <1>2
<1>3. ASSUME NEW S \in SUBSET Rows, b \in [pc : {"loaded"}, job : Nat, batch : [S -> Envelope]]
      PROVE  /\ b.pc = "loaded" /\ DOMAIN b.batch = S
             /\ \A r \in DOMAIN b.batch : b.batch[r] \in Envelope
    BY <1>3
<1>4. ASSUME NEW S \in SUBSET Rows,
             b \in [pc : {"counted"}, job : Nat, batch : [S -> Envelope], completed : BOOLEAN]
      PROVE  /\ b.pc = "counted" /\ DOMAIN b.batch = S
             /\ \A r \in DOMAIN b.batch : b.batch[r] \in Envelope
    BY <1>4
<1> QED
    BY <1>1, <1>2, <1>3, <1>4 DEF IsRotation

LEMMA TxFields ==
  ASSUME NEW t \in Txs, t # NoTx
  PROVE  t.row \in Rows /\ t.envelope \in Envelope
    BY DEF Txs

\* Nothing is not an envelope with something in it, and an envelope of nothing is sealed
\* like the others.
LEMMA AbsentSealed == Absent \in Envelope /\ Absent.value = 0 /\ Absent.sealed = Absent.key
    BY DEF Absent, Envelope

LEMMA ProcsDiffer ==
  /\ \A a \in Apis : a \in Procs /\ a # Nobody /\ a \notin Workers
  /\ \A w \in Workers : w \in Procs /\ w # Nobody /\ w \notin Apis
    BY KeyringAssumption DEF Procs

\* A keyring's primary version is one of its versions.
LEMMA RingFields ==
  ASSUME TypeOK, NEW p \in Procs
  PROVE  /\ ring[p] \in Rings /\ ring[p].versions \subseteq Versions
         /\ ring[p].primary \in Nat /\ ring[p].primary \in ring[p].versions
    BY KeyringAssumption DEF TypeOK, Versions

\* A job keeps its target when its state is written.
LEMMA JobMarked ==
  ASSUME TypeOK, NEW j \in DOMAIN jobs, NEW s \in {"PENDING", "SUCCEEDED", "FAILED"},
         update_rotation_job(j, s)
  PROVE  /\ jobs' \in Seq(Job) /\ DOMAIN jobs' = DOMAIN jobs
         /\ \A i \in DOMAIN jobs : jobs'[i].target = jobs[i].target
         /\ \A i \in DOMAIN jobs : i # j => jobs'[i] = jobs[i]
         /\ jobs'[j].state = s
<1>1. jobs \in Seq(Job) /\ DOMAIN jobs = 1..Len(jobs) /\ jobs[j] \in Job
    BY DEF TypeOK
<1>2. PICK e : e = [jobs[j] EXCEPT !.state = s]
    OBVIOUS
<1>3. e \in Job /\ e.target = jobs[j].target /\ e.state = s
    BY <1>1, <1>2 DEF Job
<1>4. jobs' = [jobs EXCEPT ![j] = e]
    BY <1>2 DEF update_rotation_job
<1>5. /\ jobs' \in Seq(Job) /\ DOMAIN jobs' = DOMAIN jobs
      /\ \A i \in DOMAIN jobs : jobs'[i] = IF i = j THEN e ELSE jobs[i]
    BY <1>1, <1>3, <1>4, ExceptSeq
<1> QED
    BY <1>3, <1>5
-----------------------------------------------------------------------------
(***************************************************************************)
(* What holds for the parts that a step leaves alone.                      *)
(***************************************************************************)

\* Writes go on under their locks.
LEMMA WritesGoOn ==
  ASSUME WritesHeld,
         \A a \in Apis :
           \/ tx'[a] = NoTx
           \/ tx'[a] = tx[a] /\ (tx[a] # NoTx => holder'[tx[a].row] = a)
  PROVE  WritesHeld'
    BY DEF WritesHeld

\* The pepper is there as it was, and nobody starts.
LEMMA PepperStays ==
  ASSUME FirstStart, UNCHANGED starting, row'["pepper"] = Absent <=> row["pepper"] = Absent
  PROVE  FirstStart'
    BY DEF FirstStart, starting, Present

\* Batches go on under their locks; a batch that counted is told of every row that is
\* stored.
LEMMA BatchesGoOn ==
  ASSUME KeyringInv, TypeOK', RowsSealed', WritesHeld', FirstStart',
         \A j \in DOMAIN jobs : j \in DOMAIN jobs' /\ jobs'[j].target = jobs[j].target,
         \A w \in Workers :
           \/ /\ rot'[w] = rot[w]
              /\ \A r \in Rows : holder[r] = w => holder'[r] = w /\ row'[r] = row[r]
              /\ rot[w].pc = "counted" => \A r \in Rows :
                   r \in late' \/ (row'[r] = row[r] /\ r \notin late)
           \/ rot'[w] = NoBatch
           \/ rot'[w].pc = "failing" /\ rot'[w].job \in DOMAIN jobs
  PROVE  KeyringInv'
<1>1. \A w \in Workers : Batching(w)' => Batching(w) /\ rot'[w] = rot[w]
    BY DEF Batching, NoBatch
<1>2. \A w \in Workers : Batching(w) => DOMAIN rot[w].batch \in SUBSET Rows
    BY RotationFields DEF Batching, KeyringInv, TypeOK
<1>3. BatchesHeld'
    <2> SUFFICES ASSUME NEW w \in Workers, Batching(w)'
                 PROVE  /\ rot'[w].job \in DOMAIN jobs'
                        /\ \A r \in DOMAIN rot'[w].batch :
                             /\ holder'[r] = w
                             /\ row'[r] # Absent
                             /\ rot'[w].batch[r].value = row'[r].value
                             /\ rot'[w].batch[r].key = jobs'[rot'[w].job].target
                             /\ rot'[w].batch[r].sealed = jobs'[rot'[w].job].target
        BY DEF BatchesHeld
    <2>1. Batching(w) /\ rot'[w] = rot[w] /\ DOMAIN rot[w].batch \in SUBSET Rows
        BY <1>1, <1>2
    <2>2. \A r \in DOMAIN rot[w].batch : holder[r] = w => holder'[r] = w /\ row'[r] = row[r]
        BY <2>1 DEF Batching, NoBatch
    <2> QED
        BY <2>1, <2>2 DEF KeyringInv, BatchesHeld
<1>4. OneBatch'
    <2>1. \A v, w \in Workers : Batching(v)' /\ Batching(w)' => v = w
        BY <1>1 DEF KeyringInv, OneBatch
    <2>2. \A w \in Workers : rot'[w].pc = "failing" => rot'[w].job \in DOMAIN jobs'
        BY DEF KeyringInv, OneBatch, NoBatch
    <2> QED
        BY <2>1, <2>2 DEF OneBatch
<1>5. CountedRight'
    <2> SUFFICES ASSUME NEW w \in Workers, rot'[w].pc = "counted", rot'[w].completed,
                        NEW r \in Rows \ DOMAIN rot'[w].batch
                 PROVE  \/ row'[r] = Absent \/ row'[r].key = jobs'[rot'[w].job].target
                        \/ r \in late'
        BY DEF CountedRight
    <2>1. rot'[w] = rot[w] /\ rot[w].job \in DOMAIN jobs
        BY <1>1 DEF Batching, KeyringInv, BatchesHeld
    <2>2. r \in late' \/ (row'[r] = row[r] /\ r \notin late)
        BY <2>1 DEF NoBatch
    <2> QED
        BY <2>1, <2>2 DEF KeyringInv, CountedRight
<1> QED
    BY <1>3, <1>4, <1>5 DEF KeyringInv
-----------------------------------------------------------------------------
(***************************************************************************)
(* Start and stop of a process.                                            *)
(***************************************************************************)

\* A step of a start leaves rows, writes and batches alone.
LEMMA StartKeeps ==
  ASSUME KeyringInv, UNCHANGED <<data, tx, rot, jobs, bounds>>, FirstStart',
         boot' \in [Procs -> {"down", "registered", "checked", "up"}], ring' \in [Procs -> Rings],
         registry' \subseteq Versions, adding' \in [Procs -> SUBSET Versions], bare' \subseteq Procs
  PROVE  KeyringInv'
<1>1. UNCHANGED <<row, holder, kept, late, tx, rot, jobs, writes, faults>>
    BY DEF data, bounds
<1>2. TypeOK'
    BY <1>1 DEF KeyringInv, TypeOK
<1>3. RowsSealed' /\ WritesHeld'
    BY <1>1 DEF KeyringInv, RowsSealed, WritesHeld
<1>4. BatchesHeld' /\ OneBatch' /\ CountedRight'
    BY <1>1 DEF KeyringInv, BatchesHeld, OneBatch, CountedRight, Batching
<1> QED
    BY <1>2, <1>3, <1>4 DEF KeyringInv

\* While there is no pepper, the process that is starting has inserted a version that
\* any other would have to insert too.
LEMMA RegisterKeeps ==
  ASSUME KeyringInv, NEW p \in Procs, NEW k \in Rings, register_keys(p, k)
  PROVE  KeyringInv'
<1>1. /\ boot[p] = "down" /\ Deployable(k, p) /\ add_keys(p)
      /\ ring' = [ring EXCEPT ![p] = k] /\ boot' = [boot EXCEPT ![p] = "registered"]
      /\ UNCHANGED <<registry, bare, data, tx, rot, jobs, bounds>>
    BY DEF register_keys
<1>2. /\ ring' \in [Procs -> Rings] /\ ring'[p] = k
      /\ \A q \in Procs : q # p => ring'[q] = ring[q]
    BY <1>1 DEF KeyringInv, TypeOK
<1>3. /\ boot' \in [Procs -> {"down", "registered", "checked", "up"}]
      /\ boot'[p] = "registered" /\ \A q \in Procs : q # p => boot'[q] = boot[q]
    BY <1>1 DEF KeyringInv, TypeOK
<1>4. k.versions \ registry \in SUBSET Versions
    BY DEF Versions
<1>5. /\ adding' \in [Procs -> SUBSET Versions] /\ adding'[p] = k.versions \ registry
      /\ \A q \in Procs : q # p => adding'[q] = adding[q] /\ adding[q] \intersect adding'[p] = {}
    BY <1>1, <1>2, <1>4 DEF add_keys, KeyringInv, TypeOK
<1>6. \A q \in bare : q # p
    BY <1>1 DEF KeyringInv, FirstStart
<1>7. row' = row
    BY <1>1 DEF data
<1>8. ~Present("pepper") => \A q \in Procs : q # p => boot[q] = "down"
    <2> SUFFICES ASSUME ~Present("pepper"), NEW q \in Procs, q # p, boot[q] # "down"
                 PROVE  FALSE
        OBVIOUS
    <2>1. adding[q] = ring[q].versions /\ adding'[p] = k.versions
        BY <1>5 DEF KeyringInv, FirstStart
    <2>2. k.versions \intersect ring[q].versions # {}
        BY <1>1 DEF Deployable
    <2> QED
        BY <1>5, <2>1, <2>2
<1>9. FirstStart'
    <2>1. ~Present("pepper") => registry = {} /\ adding'[p] = ring'[p].versions
        BY <1>2, <1>5 DEF KeyringInv, FirstStart
    <2>2. bare' = bare /\ registry' = registry
        BY <1>1
    <2>3. \A q \in bare : q \in Procs /\ boot'[q] = boot[q]
        BY <1>3, <1>6 DEF KeyringInv, TypeOK
    <2> QED
        BY <1>3, <1>7, <1>8, <2>1, <2>2, <2>3 DEF KeyringInv, FirstStart, Present
<1>10. registry' \subseteq Versions /\ bare' \subseteq Procs
    BY <1>1 DEF KeyringInv, TypeOK
<1> QED
    BY <1>1, <1>2, <1>3, <1>5, <1>9, <1>10, StartKeeps

LEMMA CheckKeeps ==
  ASSUME KeyringInv, NEW p \in Procs, check_usage(p)
  PROVE  KeyringInv'
<1>1. /\ boot[p] = "registered" /\ boot' = [boot EXCEPT ![p] = "checked"]
      /\ bare' = IF Present("pepper") THEN bare ELSE bare \union {p}
      /\ UNCHANGED <<ring, registry, adding, data, tx, rot, jobs, bounds>>
    BY DEF check_usage
<1>2. /\ boot' \in [Procs -> {"down", "registered", "checked", "up"}]
      /\ boot'[p] = "checked" /\ \A q \in Procs : q # p => boot'[q] = boot[q]
    BY <1>1 DEF KeyringInv, TypeOK
<1>3. row' = row
    BY <1>1 DEF data
<1>4. /\ ring' \in [Procs -> Rings] /\ registry' \subseteq Versions
      /\ adding' \in [Procs -> SUBSET Versions] /\ bare' \subseteq Procs
    BY <1>1 DEF KeyringInv, TypeOK
<1>5. FirstStart'
    <2>1. \A q \in bare : q \in Procs
        BY DEF KeyringInv, TypeOK
    <2> QED
        BY <1>1, <1>2, <1>3, <2>1 DEF KeyringInv, FirstStart, Present
<1> QED
    BY <1>1, <1>2, <1>4, <1>5, StartKeeps

LEMMA RefuseKeeps ==
  ASSUME KeyringInv, NEW p \in Procs, refuse_start(p)
  PROVE  KeyringInv'
<1>1. /\ boot[p] = "registered" /\ boot' = [boot EXCEPT ![p] = "down"]
      /\ adding' = [adding EXCEPT ![p] = {}]
      /\ UNCHANGED <<ring, registry, bare, data, tx, rot, jobs, bounds>>
    BY DEF refuse_start
<1>2. /\ boot' \in [Procs -> {"down", "registered", "checked", "up"}]
      /\ boot'[p] = "down" /\ \A q \in Procs : q # p => boot'[q] = boot[q]
    BY <1>1 DEF KeyringInv, TypeOK
<1>3. /\ adding' \in [Procs -> SUBSET Versions]
      /\ \A q \in Procs : q # p => adding'[q] = adding[q]
    BY <1>1 DEF KeyringInv, TypeOK
<1>4. row' = row
    BY <1>1 DEF data
<1>5. ring' \in [Procs -> Rings] /\ registry' \subseteq Versions /\ bare' \subseteq Procs
    BY <1>1 DEF KeyringInv, TypeOK
<1>6. FirstStart'
    <2>1. \A q \in bare : q \in Procs
        BY DEF KeyringInv, TypeOK
    <2> QED
        BY <1>1, <1>2, <1>3, <1>4, <2>1 DEF KeyringInv, FirstStart, Present
<1> QED
    BY <1>1, <1>2, <1>3, <1>5, <1>6, StartKeeps

\* What encrypt makes is sealed with the key it names.
LEMMA Encrypted ==
  ASSUME TypeOK, NEW p \in Procs, NEW v \in Nat, v # 0
  PROVE  /\ encrypt(p, v) \in Envelope /\ encrypt(p, v).value = v /\ encrypt(p, v) # Absent
         /\ encrypt(p, v).sealed = encrypt(p, v).key
<1>1. PICK k \in Nat : k = ring[p].primary
    BY RingFields
<1> QED
    BY <1>1 DEF encrypt, Envelope, Absent

\* The owner of a row stores an envelope: the other rows stay, and a batch that counted
\* is told.
LEMMA Stored ==
  ASSUME KeyringInv, NEW r \in Rows, NEW e \in Envelope, Store(r, e),
         e.sealed = e.key, e = Absent \/ e.value # 0
  PROVE  /\ row' \in [Rows -> Envelope] /\ kept' \in [Rows -> Nat] /\ late' \subseteq Rows
         /\ row'[r] = e /\ \A q \in Rows : q # r => row'[q] = row[q]
         /\ RowsSealed'
         /\ \A w \in Workers : rot[w].pc = "counted" => late' = late \union {r}
<1>1. e.value \in Nat
    BY DEF Envelope
<1>2. /\ row' \in [Rows -> Envelope] /\ row'[r] = e /\ \A q \in Rows : q # r => row'[q] = row[q]
    BY DEF Store, KeyringInv, TypeOK
<1>3. /\ kept' \in [Rows -> Nat] /\ kept'[r] = e.value
      /\ \A q \in Rows : q # r => kept'[q] = kept[q]
    BY <1>1 DEF Store, KeyringInv, TypeOK
<1>4. /\ late' \subseteq Rows
      /\ \A w \in Workers : rot[w].pc = "counted" => late' = late \union {r}
    BY DEF Store, KeyringInv, TypeOK
<1>5. RowsSealed'
    BY <1>2, <1>3 DEF KeyringInv, RowsSealed
<1> QED
    BY <1>2, <1>3, <1>4, <1>5

LEMMA CommitStartKeeps ==
  ASSUME KeyringInv, NEW p \in Procs, commit_start(p)
  PROVE  KeyringInv'
<1>1. /\ boot[p] = "checked" /\ put_pepper(p) /\ registry' = registry \union adding[p]
      /\ adding' = [adding EXCEPT ![p] = {}] /\ bare' = bare \ {p}
      /\ boot' = [boot EXCEPT ![p] = "up"] /\ UNCHANGED <<ring, holder, tx, rot, jobs, faults>>
    BY DEF commit_start
<1>2. /\ boot' \in [Procs -> {"down", "registered", "checked", "up"}]
      /\ ring' \in [Procs -> Rings] /\ registry' \subseteq Versions
      /\ adding' \in [Procs -> SUBSET Versions] /\ bare' \subseteq Procs
      /\ holder' \in [Rows -> Procs \union {Nobody}] /\ tx' \in [Apis -> Txs]
      /\ rot' = [w \in Workers |-> rot'[w]] /\ \A w \in Workers : IsRotation(rot'[w])
      /\ jobs' \in Seq(Job) /\ faults' \in Nat
    BY <1>1 DEF KeyringInv, TypeOK
<1>3. /\ row' \in [Rows -> Envelope] /\ kept' \in [Rows -> Nat] /\ late' \subseteq Rows
      /\ writes' \in Nat
      /\ row'["pepper"] # Absent /\ \A q \in Rows : q # "pepper" => row'[q] = row[q]
      /\ RowsSealed'
      /\ holder["pepper"] = Nobody \/ row'["pepper"] = row["pepper"]
      /\ \A w \in Workers : rot[w].pc = "counted" =>
           \A r \in Rows : r \in late' \/ (row'[r] = row[r] /\ r \notin late)
    <2>1. CASE p \in bare
        <3>1. PICK n \in Nat : n = writes + 1 /\ n # 0
            BY DEF KeyringInv, TypeOK
        <3>2. PICK e : e = encrypt(p, n)
            OBVIOUS
        <3>3. e \in Envelope /\ e.value = n /\ e # Absent /\ e.sealed = e.key
            BY <3>1, <3>2, Encrypted DEF KeyringInv
        <3>4. Store("pepper", e) /\ writes' = n /\ holder["pepper"] = Nobody /\ "pepper" \in Rows
            BY <1>1, <2>1, <3>1, <3>2 DEF put_pepper, Rows
        <3> QED
            BY <3>1, <3>3, <3>4, Stored
    <2>2. CASE p \notin bare
        <3>1. UNCHANGED <<row, kept, late, writes>>
            BY <1>1, <2>2 DEF put_pepper
        <3>2. row["pepper"] # Absent
            <4>1. CASE ~Present("pepper")
                BY <1>1, <2>2, <4>1 DEF KeyringInv, FirstStart
            <4> QED
                BY <4>1 DEF Present
        <3> QED
            BY <3>1, <3>2 DEF KeyringInv, TypeOK, RowsSealed
    <2> QED
        BY <2>1, <2>2
<1>4. FirstStart'
    <2>1. boot'[p] = "up" /\ \A q \in Procs : q # p => boot'[q] = boot[q]
        BY <1>1 DEF KeyringInv, TypeOK
    <2>2. bare' = {}
        <3>1. ASSUME NEW q \in bare, q # p PROVE FALSE
            <4>1. q \in Procs /\ boot[q] # "down" /\ ~Present("pepper")
                BY DEF KeyringInv, TypeOK, FirstStart
            <4> QED
                BY <1>1, <3>1, <4>1 DEF KeyringInv, FirstStart
        <3> QED
            BY <1>1, <3>1
    <2> QED
        BY <1>3, <2>2 DEF FirstStart, Present
<1>5. TypeOK'
    BY <1>2, <1>3 DEF TypeOK
<1>6. WritesHeld'
    BY <1>1 DEF KeyringInv, WritesHeld
<1>7. ASSUME NEW w \in Workers, NEW r \in Rows, holder[r] = w
      PROVE  holder'[r] = w /\ row'[r] = row[r]
    BY <1>1, <1>3, <1>7, ProcsDiffer
<1> QED
    BY <1>1, <1>3, <1>4, <1>5, <1>6, <1>7, BatchesGoOn

LEMMA StopKeeps ==
  ASSUME KeyringInv, NEW p \in Procs, stop(p)
  PROVE  KeyringInv'
<1>1. /\ boot[p] # "down" /\ boot' = [boot EXCEPT ![p] = "down"] /\ faults' = faults + 1
      /\ adding' = [adding EXCEPT ![p] = {}] /\ bare' = bare \ {p}
      /\ holder' = [r \in Rows |-> IF holder[r] = p THEN Nobody ELSE holder[r]]
      /\ tx' = IF p \in Apis THEN [tx EXCEPT ![p] = NoTx] ELSE tx
      /\ rot' = IF p \in Workers THEN [rot EXCEPT ![p] = NoBatch] ELSE rot
      /\ UNCHANGED <<ring, registry, row, kept, late, jobs, writes>>
    BY DEF stop, Fault
<1>2. /\ boot' \in [Procs -> {"down", "registered", "checked", "up"}]
      /\ boot'[p] = "down" /\ \A q \in Procs : q # p => boot'[q] = boot[q]
      /\ adding' \in [Procs -> SUBSET Versions]
      /\ \A q \in Procs : q # p => adding'[q] = adding[q]
    BY <1>1 DEF KeyringInv, TypeOK
<1>3. /\ holder' \in [Rows -> Procs \union {Nobody}]
      /\ \A r \in Rows : holder[r] # p => holder'[r] = holder[r]
    BY <1>1 DEF KeyringInv, TypeOK
<1>4. /\ tx' \in [Apis -> Txs]
      /\ \A a \in Apis : IF a = p THEN tx'[a] = NoTx ELSE tx'[a] = tx[a]
    BY <1>1, ProcsDiffer DEF KeyringInv, TypeOK, Txs
<1>5. /\ rot' = [w \in Workers |-> rot'[w]]
      /\ \A w \in Workers : IF w = p THEN rot'[w] = NoBatch ELSE rot'[w] = rot[w]
      /\ \A w \in Workers : IsRotation(rot'[w])
    <2>1. rot = [w \in Workers |-> rot[w]] /\ \A w \in Workers : IsRotation(rot[w])
        BY DEF KeyringInv, TypeOK
    <2>2. \A w \in Workers : IF w = p THEN rot'[w] = NoBatch ELSE rot'[w] = rot[w]
        BY <1>1, <2>1
    <2>3. rot' = [w \in Workers |-> rot'[w]]
        BY <1>1, <2>1
    <2> QED
        BY <2>1, <2>2, <2>3 DEF IsRotation
<1>6. TypeOK'
    BY <1>1, <1>2, <1>3, <1>4, <1>5 DEF KeyringInv, TypeOK
<1>7. RowsSealed'
    BY <1>1 DEF KeyringInv, RowsSealed
<1>8. WritesHeld'
    <2>1. \A a \in Apis : tx[a] # NoTx => tx[a].row \in Rows /\ holder[tx[a].row] = a
        BY TxFields DEF KeyringInv, TypeOK, WritesHeld
    <2>2. \A a \in Apis :
            \/ tx'[a] = NoTx
            \/ tx'[a] = tx[a] /\ (tx[a] # NoTx => holder'[tx[a].row] = a)
        BY <1>3, <1>4, <2>1
    <2> QED
        BY <2>2, WritesGoOn DEF KeyringInv
<1>9. FirstStart'
    <2>1. \A q \in bare : q \in Procs
        BY DEF KeyringInv, TypeOK
    <2> QED
        BY <1>1, <1>2, <2>1 DEF KeyringInv, FirstStart, Present
<1>10. \A w \in Workers :
         \/ /\ rot'[w] = rot[w]
            /\ \A r \in Rows : holder[r] = w => holder'[r] = w /\ row'[r] = row[r]
            /\ rot[w].pc = "counted" => \A r \in Rows :
                 r \in late' \/ (row'[r] = row[r] /\ r \notin late)
         \/ rot'[w] = NoBatch
    BY <1>1, <1>3, <1>5
<1> QED
    BY <1>1, <1>6, <1>7, <1>8, <1>9, <1>10, BatchesGoOn
-----------------------------------------------------------------------------
(***************************************************************************)
(* Secrets and their owners.                                               *)
(***************************************************************************)

\* A write takes the lock of a free row that is not the pepper.
LEMMA BeginKeeps ==
  ASSUME KeyringInv, NEW a \in Apis, NEW r \in Rows, NEW t \in Txs, Begin(a, r, t),
         r # "pepper", t # NoTx, t.row = r, t.envelope.sealed = t.envelope.key,
         t.envelope = Absent \/ t.envelope.value # 0, writes' \in Nat
  PROVE  KeyringInv'
<1>1. /\ tx[a] = NoTx /\ holder[r] = Nobody /\ holder' = [holder EXCEPT ![r] = a]
      /\ tx' = [tx EXCEPT ![a] = t] /\ UNCHANGED <<starting, row, kept, late, rot, jobs, faults>>
    BY DEF Begin
<1>2. /\ holder' \in [Rows -> Procs \union {Nobody}] /\ holder'[r] = a
      /\ \A q \in Rows : q # r => holder'[q] = holder[q]
    BY <1>1, ProcsDiffer DEF KeyringInv, TypeOK
<1>3. /\ tx' \in [Apis -> Txs] /\ tx'[a] = t /\ \A b \in Apis : b # a => tx'[b] = tx[b]
    BY <1>1 DEF KeyringInv, TypeOK
<1>4. TypeOK'
    BY <1>1, <1>2, <1>3 DEF KeyringInv, TypeOK, starting
<1>5. RowsSealed'
    BY <1>1 DEF KeyringInv, RowsSealed
<1>6. WritesHeld'
    <2>1. \A b \in Apis : tx[b] # NoTx => tx[b].row \in Rows /\ holder[tx[b].row] = b
        BY TxFields DEF KeyringInv, TypeOK, WritesHeld
    <2>2. \A b \in Apis : tx[b] # NoTx => tx[b].row # r
        BY <1>1, <2>1, ProcsDiffer
    <2> QED
        BY <1>2, <1>3, <2>1, <2>2 DEF KeyringInv, WritesHeld
<1>7. FirstStart'
    BY <1>1, PepperStays DEF KeyringInv
<1>8. ASSUME NEW w \in Workers, NEW q \in Rows, holder[q] = w
      PROVE  holder'[q] = w /\ row'[q] = row[q]
    BY <1>1, <1>2, <1>8, ProcsDiffer
<1> QED
    BY <1>1, <1>4, <1>5, <1>6, <1>7, <1>8, BatchesGoOn

LEMMA PutKeeps ==
  ASSUME KeyringInv, NEW a \in Apis, NEW r \in Rows, put(a, r), r # "pepper"
  PROVE  KeyringInv'
<1>1. PICK n \in Nat : n = writes + 1 /\ n # 0
    BY DEF KeyringInv, TypeOK
<1>2. PICK e : e = encrypt(a, n)
    OBVIOUS
<1>3. e \in Envelope /\ e.value = n /\ e.sealed = e.key
    BY <1>1, <1>2, Encrypted, ProcsDiffer DEF KeyringInv
<1>4. PICK t : t = [op |-> "put", row |-> r, envelope |-> e]
    OBVIOUS
<1>5. t \in Txs /\ t # NoTx /\ t.row = r /\ t.envelope = e
    BY <1>3, <1>4 DEF Txs, NoTx
<1>6. Begin(a, r, t) /\ writes' \in Nat
    BY <1>1, <1>2, <1>4 DEF put
<1> QED
    BY <1>1, <1>3, <1>5, <1>6, BeginKeeps

LEMMA WriteKeeps ==
  ASSUME KeyringInv, NEW a \in Apis, NEW r \in Rows,
         \/ put_credential_envelope(a, r) \/ put_mfa_factor(a, r)
         \/ add_secret_inputs(a, r) \/ delete_secret(a, r)
  PROVE  KeyringInv'
<1>1. r # "pepper"
    BY DEF put_credential_envelope, put_mfa_factor, add_secret_inputs, delete_secret, Kind
<1>2. CASE put(a, r)
    BY <1>1, <1>2, PutKeeps
<1>3. CASE delete_secret(a, r)
    <2>1. PICK t : t = [op |-> "drop", row |-> r, envelope |-> Absent]
        OBVIOUS
    <2>2. t \in Txs /\ t # NoTx /\ t.row = r /\ t.envelope = Absent
        BY <2>1, AbsentSealed DEF Txs, NoTx
    <2>3. Begin(a, r, t) /\ writes' \in Nat
        BY <1>3, <2>1 DEF delete_secret, KeyringInv, TypeOK
    <2> QED
        BY <1>1, <2>2, <2>3, AbsentSealed, BeginKeeps
<1> QED
    BY <1>2, <1>3 DEF put_credential_envelope, put_mfa_factor, add_secret_inputs

\* A write ends: the lock of its row is released.
LEMMA WriteEnds ==
  ASSUME KeyringInv, NEW a \in Apis, tx[a] # NoTx,
         holder' = [holder EXCEPT ![tx[a].row] = Nobody], tx' = [tx EXCEPT ![a] = NoTx]
  PROVE  /\ holder' \in [Rows -> Procs \union {Nobody}] /\ tx' \in [Apis -> Txs]
         /\ holder[tx[a].row] = a
         /\ \A r \in Rows : holder[r] # a => holder'[r] = holder[r]
         /\ WritesHeld'
<1>1. \A b \in Apis : tx[b] # NoTx => tx[b].row \in Rows /\ holder[tx[b].row] = b
    BY TxFields DEF KeyringInv, TypeOK, WritesHeld
<1>2. /\ holder' \in [Rows -> Procs \union {Nobody}]
      /\ \A r \in Rows : r # tx[a].row => holder'[r] = holder[r]
    BY <1>1 DEF KeyringInv, TypeOK
<1>3. tx' \in [Apis -> Txs] /\ tx'[a] = NoTx /\ \A b \in Apis : b # a => tx'[b] = tx[b]
    BY DEF KeyringInv, TypeOK, Txs
<1>4. \A b \in Apis :
        \/ tx'[b] = NoTx
        \/ tx'[b] = tx[b] /\ (tx[b] # NoTx => holder'[tx[b].row] = b)
    BY <1>1, <1>2, <1>3
<1>5. WritesHeld'
    BY <1>4, WritesGoOn DEF KeyringInv
<1> QED
    BY <1>1, <1>2, <1>3, <1>5

LEMMA CommitWriteKeeps ==
  ASSUME KeyringInv, NEW a \in Apis, commit_write(a)
  PROVE  KeyringInv'
<1>1. /\ tx[a] # NoTx /\ Store(tx[a].row, tx[a].envelope)
      /\ holder' = [holder EXCEPT ![tx[a].row] = Nobody] /\ tx' = [tx EXCEPT ![a] = NoTx]
      /\ UNCHANGED <<starting, rot, jobs, writes, faults>>
    BY DEF commit_write, bounds
<1>2. PICK r \in Rows, e \in Envelope : r = tx[a].row /\ e = tx[a].envelope
    BY <1>1, TxFields DEF KeyringInv, TypeOK
<1>3. r # "pepper" /\ e.sealed = e.key /\ (e = Absent \/ e.value # 0) /\ Store(r, e)
    BY <1>1, <1>2 DEF KeyringInv, WritesHeld
<1>4. /\ row' \in [Rows -> Envelope] /\ kept' \in [Rows -> Nat] /\ late' \subseteq Rows
      /\ row'[r] = e /\ \A q \in Rows : q # r => row'[q] = row[q]
      /\ RowsSealed'
      /\ \A w \in Workers : rot[w].pc = "counted" => late' = late \union {r}
    BY <1>3, Stored
<1>5. /\ holder' \in [Rows -> Procs \union {Nobody}] /\ tx' \in [Apis -> Txs]
      /\ holder[r] = a /\ \A q \in Rows : holder[q] # a => holder'[q] = holder[q]
      /\ WritesHeld'
    BY <1>1, <1>2, WriteEnds
<1>6. TypeOK'
    BY <1>1, <1>4, <1>5 DEF KeyringInv, TypeOK, starting
<1>7. FirstStart'
    BY <1>1, <1>3, <1>4, PepperStays DEF KeyringInv, Rows
<1>8. ASSUME NEW w \in Workers, NEW q \in Rows, holder[q] = w
      PROVE  holder'[q] = w /\ row'[q] = row[q]
    BY <1>4, <1>5, <1>8, ProcsDiffer
<1> QED
    BY <1>1, <1>4, <1>5, <1>6, <1>7, <1>8, BatchesGoOn

LEMMA AbortWriteKeeps ==
  ASSUME KeyringInv, NEW a \in Apis, abort_write(a)
  PROVE  KeyringInv'
<1>1. /\ tx[a] # NoTx /\ faults' = faults + 1
      /\ holder' = [holder EXCEPT ![tx[a].row] = Nobody] /\ tx' = [tx EXCEPT ![a] = NoTx]
      /\ UNCHANGED <<starting, row, kept, late, rot, jobs, writes>>
    BY DEF abort_write, Fault
<1>2. /\ holder' \in [Rows -> Procs \union {Nobody}] /\ tx' \in [Apis -> Txs]
      /\ \A q \in Rows : holder[q] # a => holder'[q] = holder[q]
      /\ WritesHeld'
    BY <1>1, WriteEnds
<1>3. TypeOK'
    BY <1>1, <1>2 DEF KeyringInv, TypeOK, starting
<1>4. RowsSealed'
    BY <1>1 DEF KeyringInv, RowsSealed
<1>5. FirstStart'
    BY <1>1, PepperStays DEF KeyringInv
<1>6. ASSUME NEW w \in Workers, NEW q \in Rows, holder[q] = w
      PROVE  holder'[q] = w /\ row'[q] = row[q]
    BY <1>1, <1>2, <1>6, ProcsDiffer
<1> QED
    BY <1>1, <1>2, <1>3, <1>4, <1>5, <1>6, BatchesGoOn
-----------------------------------------------------------------------------
(***************************************************************************)
(* Rotation.                                                               *)
(***************************************************************************)

LEMMA RequestKeeps ==
  ASSUME KeyringInv, NEW a \in Apis, request_rotation(a)
  PROVE  KeyringInv'
<1>1. PICK e : e = [target |-> ring[a].primary, state |-> "PENDING"]
    OBVIOUS
<1>2. e \in Job
    BY <1>1, RingFields, ProcsDiffer DEF KeyringInv, Job
<1>3. /\ jobs' = Append(jobs, e)
      /\ UNCHANGED <<starting, row, holder, kept, late, tx, rot, writes, faults>>
    BY <1>1 DEF request_rotation, data, bounds
<1>4. /\ jobs' \in Seq(Job)
      /\ \A j \in DOMAIN jobs : j \in DOMAIN jobs' /\ jobs'[j].target = jobs[j].target
    <2>1. jobs \in Seq(Job) /\ Len(jobs) \in Nat
        BY DEF KeyringInv, TypeOK
    <2>2. /\ jobs' \in Seq(Job) /\ Len(jobs') = Len(jobs) + 1
          /\ \A i \in 1..Len(jobs) : jobs'[i] = jobs[i]
        BY <1>2, <1>3, <2>1, AppendProperties
    <2> QED
        BY <2>1, <2>2
<1>5. TypeOK'
    BY <1>3, <1>4 DEF KeyringInv, TypeOK, starting
<1>6. RowsSealed' /\ WritesHeld'
    BY <1>3 DEF KeyringInv, RowsSealed, WritesHeld
<1>7. FirstStart'
    BY <1>3, PepperStays DEF KeyringInv
<1> QED
    BY <1>3, <1>4, <1>5, <1>6, <1>7, BatchesGoOn

\* A batch is loaded from rows that are there and free.
LEMMA CandidatesFree ==
  ASSUME NEW t
  PROVE  \A r \in FirstCandidates(t) : r \in Rows /\ row[r] # Absent /\ holder[r] = Nobody
    BY DEF FirstCandidates, Candidates, Present

\* The target is the primary version, so that the credential cipher, which knows no
\* target, seals with it too.
LEMMA Reencrypted ==
  ASSUME TypeOK, NEW w \in Procs, NEW r \in Rows, NEW t, TargetIsPrimary(w, t)
  PROVE  /\ reencrypt(w, r, row[r], t) \in Envelope
         /\ reencrypt(w, r, row[r], t).value = row[r].value
         /\ reencrypt(w, r, row[r], t).key = t /\ reencrypt(w, r, row[r], t).sealed = t
<1>1. row[r] \in Envelope /\ t \in Nat /\ t = ring[w].primary
    BY RingFields DEF TypeOK, TargetIsPrimary
<1>2. reencrypt(w, r, row[r], t) = [row[r] EXCEPT !.key = t, !.sealed = t]
    BY <1>1 DEF reencrypt
<1> QED
    BY <1>1, <1>2 DEF Envelope

LEMMA ClaimKeeps ==
  ASSUME KeyringInv, NEW w \in Workers, claim_batch(w)
  PROVE  KeyringInv'
<1>1. PICK j \in DOMAIN jobs :
        /\ Claimable(w, j)
        /\ TargetIsPrimary(w, jobs[j].target)
        /\ \E S \in SUBSET FirstCandidates(jobs[j].target) :
             /\ load_rotation_batch(w, jobs[j].target, S)
             /\ rot' = [rot EXCEPT ![w] =
                          [pc |-> "loaded", job |-> j,
                           batch |-> [r \in S |-> reencrypt(w, r, row[r], jobs[j].target)]]]
        /\ UNCHANGED <<starting, row, kept, late, tx, jobs, writes, faults>>
    BY DEF claim_batch, bounds
<1>2. PICK t : t = jobs[j].target
    OBVIOUS
<1>3. PICK S \in SUBSET FirstCandidates(t) :
        /\ load_rotation_batch(w, t, S)
        /\ rot' = [rot EXCEPT ![w] =
                     [pc |-> "loaded", job |-> j,
                      batch |-> [r \in S |-> reencrypt(w, r, row[r], t)]]]
    BY <1>1, <1>2
<1>4. S \in SUBSET Rows /\ \A r \in S : row[r] # Absent /\ holder[r] = Nobody
    BY CandidatesFree
<1>5. PICK f : f = [r \in S |-> reencrypt(w, r, row[r], t)]
    OBVIOUS
<1>6. /\ f \in [S -> Envelope]
      /\ \A r \in S : f[r].value = row[r].value /\ f[r].key = t /\ f[r].sealed = t
    BY <1>1, <1>2, <1>4, <1>5, Reencrypted, ProcsDiffer DEF KeyringInv
<1>7. PICK b : b = [pc |-> "loaded", job |-> j, batch |-> f]
    OBVIOUS
<1>8. jobs \in Seq(Job) /\ j \in Nat
    BY DEF KeyringInv, TypeOK
<1>9. /\ IsRotation(b) /\ b.pc = "loaded" /\ b.job = j /\ b.batch = f /\ DOMAIN f = S
    <2>1. b \in [pc : {"loaded"}, job : Nat, batch : [S -> Envelope]]
        BY <1>6, <1>7, <1>8
    <2> QED
        BY <1>4, <1>6, <1>7, <2>1 DEF IsRotation
<1>10. /\ rot' = [v \in Workers |-> rot'[v]] /\ rot'[w] = b
       /\ \A v \in Workers : v # w => rot'[v] = rot[v]
    <2>1. rot' = [rot EXCEPT ![w] = b] /\ rot = [v \in Workers |-> rot[v]]
        BY <1>3, <1>5, <1>7 DEF KeyringInv, TypeOK
    <2> QED
        BY <2>1
<1>11. /\ holder' \in [Rows -> Procs \union {Nobody}] /\ \A r \in S : holder'[r] = w
       /\ \A r \in Rows : holder[r] # Nobody => holder'[r] = holder[r]
    BY <1>3, <1>4, ProcsDiffer DEF load_rotation_batch, KeyringInv, TypeOK
<1>12. TypeOK'
    BY <1>1, <1>9, <1>10, <1>11 DEF KeyringInv, TypeOK, starting
<1>13. RowsSealed'
    BY <1>1 DEF KeyringInv, RowsSealed
<1>14. WritesHeld'
    <2>1. \A a \in Apis : tx[a] # NoTx => tx[a].row \in Rows /\ holder[tx[a].row] = a
        BY TxFields DEF KeyringInv, TypeOK, WritesHeld
    <2>2. \A a \in Apis : tx'[a] = tx[a] /\ (tx[a] # NoTx => holder'[tx[a].row] = a)
        BY <1>1, <1>11, <2>1, ProcsDiffer
    <2> QED
        BY <2>2, WritesGoOn DEF KeyringInv
<1>15. FirstStart'
    BY <1>1, PepperStays DEF KeyringInv
<1>16. \A v \in Workers : Batching(v)' => v = w
    BY <1>1, <1>10 DEF Claimable, Batching
<1>17. BatchesHeld'
    BY <1>1, <1>2, <1>4, <1>6, <1>9, <1>10, <1>11, <1>16 DEF BatchesHeld
<1>18. OneBatch'
    <2>1. \A v \in Workers : rot'[v].pc = "failing" => rot'[v].job \in DOMAIN jobs'
        BY <1>1, <1>9, <1>10 DEF KeyringInv, OneBatch
    <2> QED
        BY <1>16, <2>1 DEF OneBatch
<1>19. CountedRight'
    BY <1>9, <1>10, <1>16 DEF CountedRight, Batching
<1> QED
    BY <1>12, <1>13, <1>14, <1>15, <1>17, <1>18, <1>19 DEF KeyringInv

\* A worker gives its batch up; its job will be marked.
LEMMA FailMoves ==
  ASSUME TypeOK, NEW w \in Workers, NEW j \in DOMAIN jobs, Fail(w, j)
  PROVE  /\ rot' = [v \in Workers |-> rot'[v]] /\ \A v \in Workers : IsRotation(rot'[v])
         /\ rot'[w].pc = "failing" /\ rot'[w].job = j
         /\ \A v \in Workers : v # w => rot'[v] = rot[v]
<1>1. PICK b : b = [pc |-> "failing", job |-> j]
    OBVIOUS
<1>2. jobs \in Seq(Job) /\ j \in Nat
    BY DEF TypeOK
<1>3. IsRotation(b) /\ b.pc = "failing" /\ b.job = j
    BY <1>1, <1>2 DEF IsRotation
<1>4. rot' = [rot EXCEPT ![w] = b] /\ rot = [v \in Workers |-> rot[v]]
    BY <1>1 DEF Fail, TypeOK
<1>5. /\ rot' = [v \in Workers |-> rot'[v]] /\ rot'[w] = b
      /\ \A v \in Workers : v # w => rot'[v] = rot[v]
    BY <1>4
<1> QED
    BY <1>3, <1>5 DEF TypeOK

LEMMA FailBatchKeeps ==
  ASSUME KeyringInv, NEW w \in Workers, fail_batch(w)
  PROVE  KeyringInv'
<1>1. PICK j \in DOMAIN jobs : Fail(w, j)
    BY DEF fail_batch
<1>2. UNCHANGED <<starting, row, holder, kept, late, tx, jobs, writes, faults>>
    BY DEF fail_batch, data, bounds
<1>3. /\ rot' = [v \in Workers |-> rot'[v]] /\ \A v \in Workers : IsRotation(rot'[v])
      /\ rot'[w].pc = "failing" /\ rot'[w].job = j
      /\ \A v \in Workers : v # w => rot'[v] = rot[v]
    BY <1>1, FailMoves DEF KeyringInv
<1>4. TypeOK'
    BY <1>2, <1>3 DEF KeyringInv, TypeOK, starting
<1>5. RowsSealed' /\ WritesHeld'
    BY <1>2 DEF KeyringInv, RowsSealed, WritesHeld
<1>6. FirstStart'
    BY <1>2, PepperStays DEF KeyringInv
<1> QED
    BY <1>2, <1>3, <1>4, <1>5, <1>6, BatchesGoOn

\* The locks of a worker are released.
LEMMA LocksReleased ==
  ASSUME KeyringInv, NEW w \in Workers, UNCHANGED tx,
         holder' = [r \in Rows |-> IF holder[r] = w THEN Nobody ELSE holder[r]]
  PROVE  /\ holder' \in [Rows -> Procs \union {Nobody}]
         /\ \A r \in Rows : holder[r] # w => holder'[r] = holder[r]
         /\ WritesHeld'
<1>1. /\ holder' \in [Rows -> Procs \union {Nobody}]
      /\ \A r \in Rows : holder[r] # w => holder'[r] = holder[r]
    BY DEF KeyringInv, TypeOK
<1>2. \A a \in Apis : tx[a] # NoTx => tx[a].row \in Rows /\ holder[tx[a].row] = a
    BY TxFields DEF KeyringInv, TypeOK, WritesHeld
<1>3. \A a \in Apis : tx'[a] = tx[a] /\ (tx[a] # NoTx => holder'[tx[a].row] = a)
    BY <1>1, <1>2, ProcsDiffer
<1>4. WritesHeld'
    BY <1>3, WritesGoOn DEF KeyringInv
<1> QED
    BY <1>1, <1>4

LEMMA LoseKeeps ==
  ASSUME KeyringInv, NEW w \in Workers, lose_batch(w)
  PROVE  KeyringInv'
<1>1. /\ Batching(w) /\ faults' = faults + 1 /\ Fail(w, rot[w].job)
      /\ holder' = [r \in Rows |-> IF holder[r] = w THEN Nobody ELSE holder[r]]
      /\ UNCHANGED <<starting, row, kept, late, tx, jobs, writes>>
    BY DEF lose_batch, Fault, Batching
<1>2. rot[w].job \in DOMAIN jobs
    BY <1>1 DEF KeyringInv, BatchesHeld
<1>3. /\ rot' = [v \in Workers |-> rot'[v]] /\ \A v \in Workers : IsRotation(rot'[v])
      /\ rot'[w].pc = "failing" /\ rot'[w].job = rot[w].job
      /\ \A v \in Workers : v # w => rot'[v] = rot[v]
    BY <1>1, <1>2, FailMoves DEF KeyringInv
<1>4. /\ holder' \in [Rows -> Procs \union {Nobody}]
      /\ \A r \in Rows : holder[r] # w => holder'[r] = holder[r]
      /\ WritesHeld'
    BY <1>1, LocksReleased
<1>5. TypeOK'
    BY <1>1, <1>3, <1>4 DEF KeyringInv, TypeOK, starting
<1>6. RowsSealed'
    BY <1>1 DEF KeyringInv, RowsSealed
<1>7. FirstStart'
    BY <1>1, PepperStays DEF KeyringInv
<1> QED
    BY <1>1, <1>2, <1>3, <1>4, <1>5, <1>6, <1>7, BatchesGoOn

LEMMA MarkKeeps ==
  ASSUME KeyringInv, NEW w \in Workers, mark_failed(w)
  PROVE  KeyringInv'
<1>1. /\ rot[w].pc = "failing" /\ update_rotation_job(rot[w].job, "FAILED")
      /\ rot' = [rot EXCEPT ![w] = NoBatch]
      /\ UNCHANGED <<starting, row, holder, kept, late, tx, writes, faults>>
    BY DEF mark_failed, data, bounds
<1>2. rot[w].job \in DOMAIN jobs
    BY <1>1 DEF KeyringInv, OneBatch
<1>3. /\ jobs' \in Seq(Job) /\ DOMAIN jobs' = DOMAIN jobs
      /\ \A i \in DOMAIN jobs : jobs'[i].target = jobs[i].target
    BY <1>1, <1>2, JobMarked DEF KeyringInv
<1>4. /\ rot' = [v \in Workers |-> rot'[v]] /\ rot'[w] = NoBatch
      /\ \A v \in Workers : v # w => rot'[v] = rot[v]
    <2>1. rot = [v \in Workers |-> rot[v]]
        BY DEF KeyringInv, TypeOK
    <2> QED
        BY <1>1, <2>1
<1>5. TypeOK'
    <2>1. \A v \in Workers : IsRotation(rot'[v])
        BY <1>4 DEF IsRotation, KeyringInv, TypeOK
    <2> QED
        BY <1>1, <1>3, <1>4, <2>1 DEF KeyringInv, TypeOK, starting
<1>6. RowsSealed' /\ WritesHeld'
    BY <1>1 DEF KeyringInv, RowsSealed, WritesHeld
<1>7. FirstStart'
    BY <1>1, PepperStays DEF KeyringInv
<1> QED
    BY <1>1, <1>3, <1>4, <1>5, <1>6, <1>7, BatchesGoOn

LEMMA CountKeeps ==
  ASSUME KeyringInv, NEW w \in Workers, count_remaining(w)
  PROVE  KeyringInv'
<1>1. /\ rot[w].pc = "loaded" /\ late' = {}
      /\ UNCHANGED <<starting, row, holder, kept, tx, jobs, writes, faults>>
    BY DEF count_remaining, bounds
<1>2. PICK c \in BOOLEAN : c = ~usage_other(DOMAIN rot[w].batch, jobs[rot[w].job].target)
    BY DEF usage_other
<1>3. PICK b : b = [pc |-> "counted", job |-> rot[w].job, batch |-> rot[w].batch,
                    completed |-> c]
    OBVIOUS
<1>4. PICK S \in SUBSET Rows : rot[w] \in [pc : {"loaded"}, job : Nat, batch : [S -> Envelope]]
    BY <1>1 DEF KeyringInv, TypeOK, IsRotation, NoBatch
<1>5. /\ IsRotation(b) /\ b.pc = "counted" /\ b.job = rot[w].job /\ b.batch = rot[w].batch
      /\ b.completed = c
    <2>1. b \in [pc : {"counted"}, job : Nat, batch : [S -> Envelope], completed : BOOLEAN]
        BY <1>2, <1>3, <1>4
    <2> QED
        BY <1>3, <2>1 DEF IsRotation
<1>6. /\ rot' = [v \in Workers |-> rot'[v]] /\ rot'[w] = b
      /\ \A v \in Workers : v # w => rot'[v] = rot[v]
    <2>1. rot' = [rot EXCEPT ![w] = b]
        BY <1>2, <1>3 DEF count_remaining
    <2>2. rot = [v \in Workers |-> rot[v]]
        BY DEF KeyringInv, TypeOK
    <2> QED
        BY <2>1, <2>2
<1>7. TypeOK'
    BY <1>1, <1>5, <1>6 DEF KeyringInv, TypeOK, starting
<1>8. RowsSealed' /\ WritesHeld'
    BY <1>1 DEF KeyringInv, RowsSealed, WritesHeld
<1>9. FirstStart'
    BY <1>1, PepperStays DEF KeyringInv
<1>10. Batching(w) /\ \A v \in Workers : Batching(v)' => v = w
    BY <1>1, <1>6 DEF Batching, KeyringInv, OneBatch
<1>11. BatchesHeld'
    BY <1>1, <1>5, <1>6, <1>10 DEF KeyringInv, BatchesHeld
<1>12. OneBatch'
    <2>1. \A v \in Workers : rot'[v].pc = "failing" => rot'[v].job \in DOMAIN jobs'
        BY <1>1, <1>5, <1>6 DEF KeyringInv, OneBatch
    <2> QED
        BY <1>10, <2>1 DEF OneBatch
<1>13. CountedRight'
    <2>1. c => \A r \in Rows \ DOMAIN rot[w].batch :
                 row[r] = Absent \/ row[r].key = jobs[rot[w].job].target
        BY <1>2 DEF usage_other, Present
    <2>2. ASSUME NEW v \in Workers, rot'[v].pc = "counted", rot'[v].completed
          PROVE  \A r \in Rows \ DOMAIN rot'[v].batch :
                   row'[r] = Absent \/ row'[r].key = jobs'[rot'[v].job].target
        <3>1. v = w
            BY <2>2, <1>10 DEF Batching
        <3> QED
            BY <1>1, <1>5, <1>6, <2>1, <2>2, <3>1
    <2> QED
        BY <2>2 DEF CountedRight
<1> QED
    BY <1>7, <1>8, <1>9, <1>11, <1>12, <1>13 DEF KeyringInv

\* update_rotation_batch writes for each row of the batch what is still there, under the
\* target key.
LEMMA BatchWritten ==
  ASSUME KeyringInv, NEW w \in Workers, Batching(w), update_rotation_batch(rot[w].batch)
  PROVE  /\ row' \in [Rows -> Envelope]
         /\ \A r \in Rows : r \notin DOMAIN rot[w].batch => row'[r] = row[r]
         /\ \A r \in DOMAIN rot[w].batch :
              /\ r \in Rows /\ holder[r] = w /\ row'[r].key = jobs[rot[w].job].target
              /\ row'[r].sealed = row'[r].key
         /\ \A r \in Rows :
              row'[r].value = row[r].value /\ (row'[r] = Absent <=> row[r] = Absent)
<1>1. /\ DOMAIN rot[w].batch \in SUBSET Rows
      /\ \A r \in DOMAIN rot[w].batch : rot[w].batch[r] \in Envelope
    BY RotationFields DEF Batching, KeyringInv, TypeOK
<1>2. \A r \in DOMAIN rot[w].batch :
        /\ holder[r] = w /\ row[r] # Absent
        /\ rot[w].batch[r].value = row[r].value
        /\ rot[w].batch[r].key = jobs[rot[w].job].target
        /\ rot[w].batch[r].sealed = jobs[rot[w].job].target
    BY DEF KeyringInv, BatchesHeld
<1>3. row' \in [Rows -> Envelope]
    BY <1>1 DEF update_rotation_batch, KeyringInv, TypeOK
<1>4. \A r \in Rows : row'[r] = IF r \in DOMAIN rot[w].batch THEN rot[w].batch[r] ELSE row[r]
    BY <1>2 DEF update_rotation_batch, Present
<1>5. \A r \in DOMAIN rot[w].batch : row'[r] # Absent
    BY <1>1, <1>2, <1>4, AbsentSealed DEF KeyringInv, RowsSealed
<1> QED
    BY <1>1, <1>2, <1>3, <1>4, <1>5

LEMMA CommitBatchKeeps ==
  ASSUME KeyringInv, NEW w \in Workers, commit_batch(w)
  PROVE  KeyringInv'
<1>1. /\ rot[w].pc = "counted" /\ Batching(w) /\ update_rotation_batch(rot[w].batch)
      /\ holder' = [r \in Rows |-> IF holder[r] = w THEN Nobody ELSE holder[r]]
      /\ \E s \in {"SUCCEEDED", "PENDING"} : update_rotation_job(rot[w].job, s)
      /\ rot' = [rot EXCEPT ![w] = NoBatch]
      /\ UNCHANGED <<starting, kept, late, tx, writes, faults>>
    BY DEF commit_batch, bounds, Batching
<1>2. rot[w].job \in DOMAIN jobs
    BY <1>1 DEF KeyringInv, BatchesHeld
<1>3. /\ jobs' \in Seq(Job) /\ DOMAIN jobs' = DOMAIN jobs
      /\ \A i \in DOMAIN jobs : jobs'[i].target = jobs[i].target
    BY <1>1, <1>2, JobMarked DEF KeyringInv
<1>4. /\ rot' = [v \in Workers |-> rot'[v]] /\ rot'[w] = NoBatch
      /\ \A v \in Workers : v # w => rot'[v] = rot[v]
    <2>1. rot = [v \in Workers |-> rot[v]]
        BY DEF KeyringInv, TypeOK
    <2> QED
        BY <1>1, <2>1
<1>5. /\ row' \in [Rows -> Envelope]
      /\ \A r \in Rows : holder[r] # w => row'[r] = row[r]
      /\ \A r \in Rows :
           /\ row'[r] = row[r] \/ row'[r].sealed = row'[r].key
           /\ row'[r].value = row[r].value /\ (row'[r] = Absent <=> row[r] = Absent)
    BY <1>1, BatchWritten
<1>6. /\ holder' \in [Rows -> Procs \union {Nobody}]
      /\ \A r \in Rows : holder[r] # w => holder'[r] = holder[r]
      /\ WritesHeld'
    BY <1>1, LocksReleased
<1>7. TypeOK'
    <2>1. \A v \in Workers : IsRotation(rot'[v])
        BY <1>4 DEF IsRotation, KeyringInv, TypeOK
    <2> QED
        BY <1>1, <1>3, <1>4, <1>5, <1>6, <2>1 DEF KeyringInv, TypeOK, starting
<1>8. RowsSealed'
    BY <1>1, <1>5 DEF KeyringInv, RowsSealed
<1>9. FirstStart'
    BY <1>1, <1>5, PepperStays DEF KeyringInv, Rows
<1>10. \A v \in Workers : v # w => rot[v].pc # "counted"
    BY <1>1 DEF KeyringInv, OneBatch, Batching
<1>11. \A v \in Workers :
         \/ /\ rot'[v] = rot[v]
            /\ \A r \in Rows : holder[r] = v => holder'[r] = v /\ row'[r] = row[r]
            /\ rot[v].pc # "counted"
         \/ rot'[v] = NoBatch
    BY <1>4, <1>5, <1>6, <1>10
<1> QED
    BY <1>3, <1>6, <1>7, <1>8, <1>9, <1>11, BatchesGoOn

LEMMA KeyringInit == Init => KeyringInv
<1> SUFFICES ASSUME Init PROVE KeyringInv
    OBVIOUS
<1>1. (CHOOSE k \in Rings : TRUE) \in Rings
    BY KeyringAssumption
<1>2. /\ boot \in [Procs -> {"down", "registered", "checked", "up"}] /\ ring \in [Procs -> Rings]
      /\ registry \subseteq Versions /\ adding \in [Procs -> SUBSET Versions] /\ bare \subseteq Procs
    BY <1>1 DEF Init
<1>3. row \in [Rows -> Envelope] /\ holder \in [Rows -> Procs \union {Nobody}]
    BY AbsentSealed DEF Init
<1>4. rot = [w \in Workers |-> rot[w]] /\ \A w \in Workers : rot[w] = NoBatch
    BY DEF Init
<1>5. tx \in [Apis -> Txs] /\ \A w \in Workers : IsRotation(rot[w])
    BY <1>4 DEF Init, Txs, IsRotation
<1>6. jobs \in Seq(Job) /\ kept \in [Rows -> Nat] /\ late \subseteq Rows /\ writes \in Nat
      /\ faults \in Nat
    BY DEF Init
<1>7. TypeOK
    BY <1>2, <1>3, <1>4, <1>5, <1>6 DEF TypeOK
<1>8. RowsSealed /\ WritesHeld
    BY DEF Init, RowsSealed, WritesHeld, Absent
<1>9. BatchesHeld /\ OneBatch /\ CountedRight
    BY <1>4 DEF BatchesHeld, OneBatch, CountedRight, Batching, NoBatch
<1>10. FirstStart
    BY DEF Init, FirstStart
<1> QED
    BY <1>7, <1>8, <1>9, <1>10 DEF KeyringInv

LEMMA KeyringNext == KeyringInv /\ [Next]_vars => KeyringInv'
<1> SUFFICES ASSUME KeyringInv, [Next]_vars PROVE KeyringInv'
    OBVIOUS
<1>1. ASSUME NEW p \in Procs, Start(p) \/ stop(p)
      PROVE  KeyringInv'
    BY <1>1, RegisterKeeps, CheckKeeps, RefuseKeeps, CommitStartKeeps, StopKeeps DEF Start
<1>2. ASSUME NEW a \in Apis, Write(a) \/ commit_write(a) \/ abort_write(a)
      PROVE  KeyringInv'
    BY <1>2, WriteKeeps, RequestKeeps, CommitWriteKeeps, AbortWriteKeeps DEF Write
<1>3. ASSUME NEW w \in Workers, process_rotation_batch(w) \/ lose_batch(w)
      PROVE  KeyringInv'
    BY <1>3, ClaimKeeps, FailBatchKeeps, CountKeeps, CommitBatchKeeps, MarkKeeps, LoseKeeps
       DEF process_rotation_batch
<1>4. CASE UNCHANGED vars
    <2>1. UNCHANGED <<starting, data, tx, rot, jobs, bounds>>
        BY <1>4 DEF vars
    <2>2. UNCHANGED <<boot, ring, registry, adding, bare, row>>
        BY <2>1 DEF starting, data
    <2>3. FirstStart'
        BY <2>2 DEF KeyringInv, FirstStart, Present
    <2> QED
        BY <2>1, <2>2, <2>3, StartKeeps DEF KeyringInv, TypeOK
<1> QED
    BY <1>1, <1>2, <1>3, <1>4 DEF Next

\* A job that is marked SUCCEEDED was counted by the batch that marks it, and the rows
\* that were not counted were stored since.
LEMMA MarkedDone ==
  ASSUME KeyringInv, [Next]_vars, NEW j \in DOMAIN jobs, jobs[j].state = "PENDING",
         jobs'[j].state = "SUCCEEDED", NEW r \in Rows, row'[r] # Absent,
         row'[r].key # jobs[j].target
  PROVE  r \in late
<1>1. jobs' # jobs
    OBVIOUS
<1>2. ASSUME NEW a \in Apis, request_rotation(a) PROVE FALSE
    <2>1. PICK e : e = [target |-> ring[a].primary, state |-> "PENDING"]
        OBVIOUS
    <2>2. e \in Job /\ jobs' = Append(jobs, e) /\ jobs \in Seq(Job) /\ j \in 1..Len(jobs)
        BY <1>2, <2>1, RingFields, ProcsDiffer DEF request_rotation, KeyringInv, TypeOK, Job
    <2>3. jobs'[j] = jobs[j]
        BY <2>2, AppendProperties
    <2> QED
        BY <2>3
<1>3. ASSUME NEW w \in Workers, mark_failed(w) PROVE FALSE
    <2>1. update_rotation_job(rot[w].job, "FAILED") /\ rot[w].job \in DOMAIN jobs
        BY <1>3 DEF mark_failed, KeyringInv, OneBatch
    <2>2. /\ \A i \in DOMAIN jobs : i # rot[w].job => jobs'[i] = jobs[i]
          /\ jobs'[rot[w].job].state = "FAILED"
        BY <2>1, JobMarked DEF KeyringInv
    <2> QED
        BY <2>2
<1>4. PICK w \in Workers : commit_batch(w)
    BY <1>1, <1>2, <1>3
       DEF Next, Start, register_keys, check_usage, refuse_start, commit_start, stop, Write,
           put_credential_envelope, put_mfa_factor, add_secret_inputs, delete_secret, put, Begin,
           commit_write, abort_write, process_rotation_batch, claim_batch, fail_batch,
           count_remaining, lose_batch, vars
<1>5. /\ rot[w].pc = "counted" /\ Batching(w) /\ update_rotation_batch(rot[w].batch)
      /\ rot[w].job \in DOMAIN jobs
      /\ update_rotation_job(rot[w].job, IF rot[w].completed THEN "SUCCEEDED" ELSE "PENDING")
    BY <1>4 DEF commit_batch, Batching, KeyringInv, BatchesHeld
<1>6. rot[w].job = j /\ rot[w].completed
    <2>1. CASE rot[w].completed
        <3>1. \A i \in DOMAIN jobs : i # rot[w].job => jobs'[i] = jobs[i]
            BY <1>5, <2>1, JobMarked DEF KeyringInv
        <3> QED
            BY <2>1, <3>1
    <2>2. CASE ~rot[w].completed
        <3>1. /\ \A i \in DOMAIN jobs : i # rot[w].job => jobs'[i] = jobs[i]
              /\ jobs'[rot[w].job].state = "PENDING"
            BY <1>5, <2>2, JobMarked DEF KeyringInv
        <3> QED
            BY <3>1
    <2> QED
        BY <2>1, <2>2
<1>7. r \notin DOMAIN rot[w].batch /\ row'[r] = row[r]
    BY <1>5, <1>6, BatchWritten
<1> QED
    BY <1>5, <1>6, <1>7 DEF KeyringInv, CountedRight

\* A start writes a pepper only where there is none, a write never locks it, and a batch
\* keeps its value.
LEMMA PepperKept ==
  ASSUME KeyringInv, [Next]_vars, row["pepper"] # Absent
  PROVE  row'["pepper"].value = row["pepper"].value
<1>1. "pepper" \in Rows
    BY DEF Rows
<1>2. ASSUME NEW p \in Procs, commit_start(p) PROVE row' = row
    <2>1. p \notin bare
        BY <1>2 DEF KeyringInv, FirstStart, Present
    <2> QED
        BY <1>2, <2>1 DEF commit_start, put_pepper
<1>3. ASSUME NEW a \in Apis, commit_write(a) PROVE row'["pepper"] = row["pepper"]
    <2>1. Store(tx[a].row, tx[a].envelope) /\ tx[a].row # "pepper"
        BY <1>3 DEF commit_write, KeyringInv, WritesHeld
    <2> QED
        BY <1>1, <2>1 DEF Store, KeyringInv, TypeOK
<1>4. ASSUME NEW w \in Workers, commit_batch(w)
      PROVE  row'["pepper"].value = row["pepper"].value
    <2>1. Batching(w) /\ update_rotation_batch(rot[w].batch)
        BY <1>4 DEF commit_batch, Batching
    <2> QED
        BY <1>1, <2>1, BatchWritten
<1>5. ASSUME NEW p \in Procs, Start(p) \/ stop(p) PROVE row' = row
    BY <1>2, <1>5 DEF Start, register_keys, check_usage, refuse_start, stop, data
<1>6. ASSUME NEW a \in Apis, Write(a) \/ abort_write(a) PROVE row' = row
    BY <1>6 DEF Write, put_credential_envelope, put_mfa_factor, add_secret_inputs,
                delete_secret, put, Begin, request_rotation, abort_write, data
<1>7. ASSUME NEW w \in Workers, process_rotation_batch(w) \/ lose_batch(w), ~commit_batch(w)
      PROVE  row' = row
    BY <1>7 DEF process_rotation_batch, claim_batch, fail_batch, count_remaining, mark_failed,
                lose_batch, data
<1>8. CASE UNCHANGED vars
    BY <1>8 DEF vars, data
<1> QED
    BY <1>3, <1>4, <1>5, <1>6, <1>7, <1>8 DEF Next
-----------------------------------------------------------------------------
\* Whatever processes start, stop, write and rotate at a time, what a writer or a batch
\* holds is still right when it commits, one batch is in progress at most, and one
\* process at most starts on a database without a pepper.
THEOREM KeyringKept == Spec => []KeyringInv
<1> QED
    BY KeyringInit, KeyringNext, PTL DEF Spec

\* INV-25 for any keyrings, rows and processes: _reencrypt and the UPDATEs of a batch
\* keep what an owner stored, and every envelope opens with the key its row names.
THEOREM SecretsSafe == Spec => []SecretsKept
<1>1. KeyringInv => SecretsKept
    BY DEF KeyringInv, RowsSealed, SecretsKept
<1> QED
    BY <1>1, KeyringKept, PTL

\* The usage that process_rotation_batch counts decides: a job is marked SUCCEEDED only
\* when each row under another key was stored by its owner since the count.
THEOREM OldKeyRetired == Spec => OldKeyUnused
<1> DEFINE Done == \A j \in DOMAIN jobs :
                     jobs[j].state = "PENDING" /\ jobs'[j].state = "SUCCEEDED"
                       => \A r \in Rows : row'[r] # Absent /\ row'[r].key # jobs[j].target
                            => r \in late
<1>1. KeyringInv /\ [Next]_vars => [Done]_vars
    BY MarkedDone
<1> QED
    BY <1>1, KeyringKept, PTL DEF Spec, OldKeyUnused

\* The pepper that ensure_keyring makes is made once, and a rotation keeps its value:
\* of two processes that start on an empty database, one waits for the other's versions.
THEOREM PepperOnce == Spec => PepperStable
<1> DEFINE Kept == Present("pepper") => row'["pepper"].value = row["pepper"].value
<1>1. KeyringInv /\ [Next]_vars => [Kept]_vars
    BY PepperKept DEF Present
<1> QED
    BY <1>1, KeyringKept, PTL DEF Spec, PepperStable
=============================================================================
