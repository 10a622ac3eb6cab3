------------------------- MODULE RunRequestsProofs -------------------------
(***************************************************************************)
(* Proofs about RunRequests, for any number of calls, requests, runs and   *)
(* hosts: one key has one run, answers belong to their requests, and what  *)
(* a run was resolved to stays true of it.                                 *)
(***************************************************************************)
EXTENDS RunRequests, TLAPS

\* A failing call leaves well-typed rows.
LEMMA RollbackType ==
  ASSUME TypeOK, NEW c \in Calls, Rollback(c)
  PROVE  /\ stage' \in [Runs -> Committed \union {"none", "open"}]
         /\ req' \in [Runs -> Requests \union {Nobody}]
         /\ hosts' \in [Runs -> SUBSET Hosts]
         /\ revision' \in [Runs -> 0..MaxRevision]
         /\ answer' \in [Calls -> Runs \union {Nobody}]
         /\ \A d \in Calls : d # c => answer'[d] = answer[d]
BY RunRequestsAssumption DEF TypeOK, Rollback, Committed

\* Every step keeps the types, and gives a row its request and a retry its source.
LEMMA TypeStep == TypeOK /\ [Next]_vars => TypeOK'
<1> SUFFICES ASSUME TypeOK, [Next]_vars PROVE TypeOK'
    OBVIOUS
<1> USE RunRequestsAssumption
<1>1. ASSUME NEW c \in Calls, NEW q \in Requests, Receive(c, q) PROVE TypeOK'
    BY <1>1 DEF TypeOK, Receive, GoTo, rows, world, Working
<1>2. ASSUME NEW c \in Calls, lookup(c) PROVE TypeOK'
    BY <1>2 DEF TypeOK, lookup, Replay, Stored, GoTo, rows, world, locals, Working
<1>3. ASSUME NEW c \in Calls, resolve(c) PROVE TypeOK'
    BY <1>3 DEF TypeOK, resolve, resolve_hosts, Refuse, GoTo, rows, world, locals, Working
<1>4. ASSUME NEW c \in Calls, get_document(c) PROVE TypeOK'
    BY <1>4 DEF TypeOK, get_document, Refuse, GoTo, rows, world, locals, Working
<1>5. ASSUME NEW c \in Calls, source(c) PROVE TypeOK'
    BY <1>5 DEF TypeOK, source, Refuse, GoTo, rows, world, locals, Working
<1>6. ASSUME NEW c \in Calls, get(c) PROVE TypeOK'
    BY <1>6 DEF TypeOK, get, Replay, Stored, GoTo, rows, world, locals, Working
<1>7. ASSUME NEW c \in Calls, InsertFails(c) PROVE TypeOK'
    BY <1>7 DEF TypeOK, InsertFails, Refuse, GoTo, rows, world, locals, Working
<1>8. ASSUME NEW c \in Calls, NEW r \in Runs, Insert(c, r) PROVE TypeOK'
    BY <1>8 DEF TypeOK, Insert, GoTo, world, locals, Working
<1>9. ASSUME NEW c \in Calls, Fail(c) PROVE TypeOK'
    BY <1>9, RollbackType DEF TypeOK, Fail, GoTo, world, locals, Working
<1>10. ASSUME NEW c \in Calls, Commit(c) PROVE TypeOK'
    <2>1. answer[c] \in Runs /\ envelope' \in SUBSET Runs
        BY <1>10 DEF TypeOK, Commit
    <2>2. stage' \in [Runs -> Committed \union {"none", "open"}]
        BY <1>10, <2>1 DEF TypeOK, Commit, Committed
    <2>3. pc' = [pc EXCEPT ![c] = "done"] /\ UNCHANGED <<world, locals, answer>>
        BY <1>10 DEF Commit, GoTo
    <2> QED
        BY <1>10, <2>1, <2>2, <2>3 DEF TypeOK, Commit, world, locals, Working
<1>11. ASSUME NEW c \in Calls, Lose(c) PROVE TypeOK'
    BY <1>11, RollbackType DEF TypeOK, Lose, GoTo, world, locals, Working
<1>12. ASSUME NEW r \in Runs, EndRun(r) PROVE TypeOK'
    BY <1>12 DEF TypeOK, EndRun, world, locals, Committed
<1>13. CASE Edit
    BY <1>13 DEF TypeOK, Edit, update_database, delete_database, update_host, delete_host,
       confirm_host_key, rows, locals
<1>14. CASE UNCHANGED vars
    BY <1>14 DEF TypeOK, vars, Stored
<1> QED
    BY <1>1, <1>2, <1>3, <1>4, <1>5, <1>6, <1>7, <1>8, <1>9, <1>10, <1>11, <1>12, <1>13,
       <1>14 DEF Next, Handle

LEMMA InitTyped == Init => TypeOK
BY RunRequestsAssumption DEF Init, TypeOK, Committed, Working

\* Rows and calls are well typed for every set of calls, requests, runs and hosts.
THEOREM RequestsTyped == Spec => []TypeOK
BY InitTyped, TypeStep, PTL DEF Spec
-----------------------------------------------------------------------------
(***************************************************************************)
(* Keys.  OneRunPerKey is inductive once it speaks of uncommitted rows     *)
(* too: the unique index sees them.  AnswersMatch needs to know that the   *)
(* row a call is about to commit is its own.                               *)
(***************************************************************************)

Unique ==
  \A r, s \in Runs : stage[r] # "none" /\ stage[s] # "none"
                     /\ KeyOf[req[r]] = KeyOf[req[s]] => r = s

\* A call between its insertion and its commit is the only one with that row.
Own ==
  \A c \in Calls : pc[c] = "keys" =>
    /\ stage[answer[c]] = "open"
    /\ req[answer[c]] = call[c]
    /\ \A d \in Calls : pc[d] = "keys" /\ answer[d] = answer[c] => d = c

KeyInv == TypeOK /\ Unique /\ Own /\ AnswersMatch

LEMMA InitKey == Init => KeyInv
BY InitTyped DEF Init, KeyInv, Unique, Own, AnswersMatch

\* Steps that touch no row: they may end a call with a run of its own request.
LEMMA KeyQuiet ==
  ASSUME KeyInv, TypeOK', UNCHANGED <<stage, req>>,
         \A d \in Calls : pc'[d] = "keys" =>
           pc[d] = "keys" /\ answer'[d] = answer[d] /\ call'[d] = call[d],
         \A d \in Calls : pc'[d] = "done" =>
           \/ pc[d] = "done" /\ answer'[d] = answer[d] /\ call'[d] = call[d]
           \/ /\ answer'[d] \in Runs
              /\ stage[answer'[d]] \in Committed
              /\ req[answer'[d]] = call'[d]
  PROVE  KeyInv'
<1>1. Unique'
    BY DEF KeyInv, Unique
<1>2. Own'
    BY DEF KeyInv, Own
<1>3. AnswersMatch'
    BY DEF KeyInv, AnswersMatch
<1> QED
    BY <1>1, <1>2, <1>3 DEF KeyInv

\* A failing call takes back its own row only.
LEMMA KeyRollback ==
  ASSUME KeyInv, TypeOK', NEW c \in Calls, Rollback(c), NEW p \in {"refused", "lost"},
         GoTo(c, p), pc[c] \in Working, UNCHANGED locals
  PROVE  KeyInv'
<1> USE DEF KeyInv
<1>1. ASSUME NEW r \in Runs
      PROVE  \/ stage'[r] = stage[r] /\ req'[r] = req[r]
             \/ stage'[r] = "none" /\ pc[c] = "keys" /\ r = answer[c]
    <2>1. CASE pc[c] = "keys" /\ r = answer[c]
        BY <2>1 DEF Rollback
    <2>2. CASE ~(pc[c] = "keys" /\ r = answer[c])
        BY <2>2 DEF Rollback
    <2> QED
        BY <2>1, <2>2
<1>2. Unique'
    BY <1>1 DEF Unique
<1>3. /\ \A d \in Calls : d # c => pc'[d] = pc[d] /\ answer'[d] = answer[d]
      /\ pc'[c] = p /\ call' = call
    BY DEF TypeOK, Rollback, GoTo, locals
<1>4. Own'
    <2>1. ASSUME NEW d \in Calls, pc'[d] = "keys"
          PROVE  d # c /\ pc[d] = "keys" /\ answer'[d] = answer[d] /\ call'[d] = call[d]
        BY <1>3, <2>1
    <2>2. ASSUME NEW d \in Calls, pc'[d] = "keys"
          PROVE  /\ answer[d] \in Runs /\ stage[answer[d]] = "open"
                 /\ req[answer[d]] = call[d] /\ ~(pc[c] = "keys" /\ answer[d] = answer[c])
        BY <2>1, <2>2 DEF Own, TypeOK
    <2>3. ASSUME NEW d \in Calls, pc'[d] = "keys"
          PROVE  stage'[answer'[d]] = "open" /\ req'[answer'[d]] = call'[d]
        BY <1>1, <2>1, <2>2, <2>3
    <2> QED
        BY <2>1, <2>3 DEF Own
<1>5. AnswersMatch'
    <2> SUFFICES ASSUME NEW d \in Calls, pc'[d] = "done"
                 PROVE  /\ answer'[d] \in Runs
                        /\ stage'[answer'[d]] \in Committed
                        /\ req'[answer'[d]] = call'[d]
        BY DEF AnswersMatch, Committed
    <2>1. d # c /\ pc[d] = "done" /\ answer'[d] = answer[d]
        BY <1>3
    <2>2. answer[d] \in Runs /\ stage[answer[d]] \in Committed /\ req[answer[d]] = call[d]
        BY <2>1 DEF AnswersMatch
    <2>3. pc[c] = "keys" => answer[d] # answer[c]
        BY <2>2 DEF Own, Committed
    <2> QED
        BY <1>1, <1>3, <2>1, <2>2, <2>3
<1> QED
    BY <1>2, <1>4, <1>5

\* An insertion finds no row, committed or not, under its key.
LEMMA KeyInsert ==
  ASSUME KeyInv, TypeOK', NEW c \in Calls, NEW r \in Runs, Insert(c, r) PROVE KeyInv'
<1> USE DEF KeyInv
<1>1. /\ stage' = [stage EXCEPT ![r] = "open"] /\ req' = [req EXCEPT ![r] = call[c]]
      /\ answer' = [answer EXCEPT ![c] = r] /\ pc' = [pc EXCEPT ![c] = "keys"]
      /\ call' = call /\ pc[c] = "insert" /\ stage[r] = "none"
    BY DEF Insert, GoTo, locals
<1>2. \A s \in Runs : stage[s] # "none" => KeyOf[req[s]] # KeyOf[call[c]]
    BY DEF Insert, Pending, Stored, TypeOK
<1>3. Unique'
    BY <1>1, <1>2 DEF Unique, TypeOK
<1>4. Own'
    BY <1>1 DEF Own, TypeOK
<1>5. AnswersMatch'
    BY <1>1 DEF AnswersMatch, TypeOK, Committed
<1> QED
    BY <1>3, <1>4, <1>5

\* A commit changes no key, and answers with the call's own row.
LEMMA KeyCommit ==
  ASSUME KeyInv, TypeOK', NEW c \in Calls, Commit(c) PROVE KeyInv'
<1> USE DEF KeyInv
<1>1. /\ pc[c] = "keys" /\ answer[c] \in Runs
      /\ stage' = [stage EXCEPT ![answer[c]] = "queued"]
      /\ pc' = [pc EXCEPT ![c] = "done"] /\ UNCHANGED <<req, answer, call>>
    BY DEF Commit, GoTo, locals, TypeOK
<1>2. stage[answer[c]] = "open" /\ req[answer[c]] = call[c]
    BY <1>1 DEF Own
<1>3. Unique'
    BY <1>1, <1>2 DEF Unique, TypeOK
<1>4. Own'
    BY <1>1, <1>2 DEF Own, TypeOK
<1>5. AnswersMatch'
    BY <1>1, <1>2 DEF AnswersMatch, TypeOK, Committed
<1> QED
    BY <1>3, <1>4, <1>5

LEMMA KeyStep == KeyInv /\ [Next]_vars => KeyInv'
<1> SUFFICES ASSUME KeyInv, [Next]_vars PROVE KeyInv'
    OBVIOUS
<1>0. TypeOK /\ TypeOK'
    BY TypeStep DEF KeyInv
<1>1. ASSUME NEW c \in Calls, NEW q \in Requests, Receive(c, q) PROVE KeyInv'
    BY <1>0, <1>1, KeyQuiet DEF Receive, GoTo, rows, TypeOK
<1>2. ASSUME NEW c \in Calls, lookup(c) \/ get(c) PROVE KeyInv'
    <2>1. CASE UNCHANGED <<rows, locals, answer>> /\ GoTo(c, "resolve")
        BY <1>0, <2>1, KeyQuiet DEF GoTo, rows, locals, TypeOK
    <2>2. ASSUME NEW r \in Stored(call[c]), Replay(c, r) PROVE KeyInv'
        <3>1. r \in Runs /\ stage[r] \in Committed
            BY DEF Stored
        <3>2. UNCHANGED <<stage, req, call>>
            BY <2>2 DEF Replay, rows, locals
        <3>3. \A d \in Calls : d # c => pc'[d] = pc[d] /\ answer'[d] = answer[d]
            BY <1>0, <2>2 DEF Replay, GoTo, TypeOK
        <3>4. /\ pc'[c] = "done" => answer'[c] = r /\ req[r] = call[c]
              /\ pc'[c] # "keys"
            BY <1>0, <2>2 DEF Replay, GoTo, TypeOK
        <3> QED
            BY <1>0, <3>1, <3>2, <3>3, <3>4, KeyQuiet
    <2> QED
        BY <1>2, <2>1, <2>2 DEF lookup, get
<1>3. ASSUME NEW c \in Calls, resolve(c) \/ get_document(c) \/ source(c) \/ InsertFails(c)
      PROVE  KeyInv'
    <2>1. /\ UNCHANGED <<stage, req, answer, call>>
          /\ \E p \in {"refused", "document", "insert"} : GoTo(c, p)
        BY <1>3
           DEF resolve, resolve_hosts, get_document, source, InsertFails, Refuse, rows, locals
    <2> QED
        BY <1>0, <2>1, KeyQuiet DEF GoTo, TypeOK
<1>4. ASSUME NEW c \in Calls, NEW r \in Runs, Insert(c, r) PROVE KeyInv'
    BY <1>0, <1>4, KeyInsert
<1>5. ASSUME NEW c \in Calls, Fail(c) \/ Lose(c) PROVE KeyInv'
    BY <1>0, <1>5, KeyRollback DEF Fail, Lose, Working
<1>6. ASSUME NEW c \in Calls, Commit(c) PROVE KeyInv'
    BY <1>0, <1>6, KeyCommit
<1>7. ASSUME NEW r \in Runs, EndRun(r) PROVE KeyInv'
    <2>1. /\ stage[r] = "queued" /\ stage' = [stage EXCEPT ![r] = "ended"]
          /\ UNCHANGED <<req, pc, call, answer>>
        BY <1>7 DEF EndRun, locals
    <2>2. Unique'
        BY <1>0, <2>1 DEF KeyInv, Unique, TypeOK
    <2>3. Own'
        BY <1>0, <2>1 DEF KeyInv, Own, TypeOK
    <2>4. AnswersMatch'
        BY <1>0, <2>1 DEF KeyInv, AnswersMatch, TypeOK, Committed
    <2> QED
        BY <1>0, <2>2, <2>3, <2>4 DEF KeyInv
<1>8. CASE Edit \/ UNCHANGED vars
    <2>1. UNCHANGED <<stage, req, pc, call, answer>>
        BY <1>8 DEF Edit, update_database, delete_database, update_host, delete_host,
           confirm_host_key, rows, locals, vars
    <2> QED
        BY <1>0, <2>1, KeyQuiet
<1> QED
    BY <1>1, <1>2, <1>3, <1>4, <1>5, <1>6, <1>7, <1>8 DEF Next, Handle

\* CASE-16 for any number of racing, lost and repeated calls: one key has one run.
THEOREM KeyedOnce == Spec => []OneRunPerKey
<1>1. KeyInv => OneRunPerKey
    BY DEF KeyInv, Unique, OneRunPerKey, Committed
<1> QED
    BY <1>1, InitKey, KeyStep, PTL DEF Spec

\* For any number of calls: who gets a run gets the committed run of its own request.
THEOREM Answers == Spec => []AnswersMatch
<1>1. KeyInv => AnswersMatch
    BY DEF KeyInv
<1> QED
    BY <1>1, InitKey, KeyStep, PTL DEF Spec
-----------------------------------------------------------------------------
(***************************************************************************)
(* Snapshots.  What a step can do to one row and to one call, as far as    *)
(* the remaining invariants are concerned.                                 *)
(***************************************************************************)

Frozen(r) == req'[r] = req[r] /\ hosts'[r] = hosts[r] /\ revision'[r] = revision[r]

Inserted(c, r) ==
  /\ pc[c] = "insert" /\ pc'[c] = "keys"
  /\ stage[r] = "none" /\ stage'[r] = "open"
  /\ req'[r] = call[c] /\ hosts'[r] = got[c] /\ revision'[r] = pin[c]
  /\ \A h \in got[c] : host[h] # "gone"
  /\ UNCHANGED <<world, envelope>>

\* A row is inserted by a call, and what it says never changes.
LEMMA RowMoves ==
  ASSUME KeyInv, [Next]_vars, NEW r \in Runs
  PROVE  \/ /\ Frozen(r)
            /\ \/ stage'[r] = stage[r]
               \/ stage[r] = "queued" /\ stage'[r] = "ended"
         \/ /\ Frozen(r) /\ stage[r] = "open" /\ stage'[r] = "queued"
            /\ hosts[r] \subseteq trusted /\ UNCHANGED world
            /\ r \in envelope' <=> r \in envelope \/ req[r] \in Gives
         \/ stage[r] = "open" /\ stage'[r] = "none"
         \/ \E c \in Calls : Inserted(c, r)
<1> USE DEF KeyInv
<1>1. ASSUME NEW c \in Calls, Fail(c) \/ Lose(c)
      PROVE  \/ Frozen(r) /\ stage'[r] = stage[r]
             \/ stage[r] = "open" /\ stage'[r] = "none"
    BY <1>1 DEF Fail, Lose, Rollback, Frozen, Own
<1>2. ASSUME NEW c \in Calls, NEW s \in Runs, Insert(c, s)
      PROVE  (Frozen(r) /\ stage'[r] = stage[r]) \/ Inserted(c, r)
    BY <1>2 DEF Insert, GoTo, Frozen, Inserted, TypeOK
<1>3. ASSUME NEW c \in Calls, Commit(c)
      PROVE  \/ Frozen(r) /\ stage'[r] = stage[r]
             \/ /\ Frozen(r) /\ stage[r] = "open" /\ stage'[r] = "queued"
                /\ hosts[r] \subseteq trusted /\ UNCHANGED world
                /\ r \in envelope' <=> r \in envelope \/ req[r] \in Gives
    <2>1. CASE r = answer[c]
        BY <1>3, <2>1 DEF Commit, Frozen, Own, TypeOK
    <2>2. CASE r # answer[c]
        BY <1>3, <2>2 DEF Commit, Frozen, TypeOK
    <2> QED
        BY <2>1, <2>2
<1>4. ASSUME NEW s \in Runs, EndRun(s)
      PROVE  /\ Frozen(r)
             /\ \/ stage'[r] = stage[r]
                \/ stage[r] = "queued" /\ stage'[r] = "ended"
    BY <1>4 DEF EndRun, Frozen, TypeOK
<1>5. CASE UNCHANGED <<stage, req, hosts, revision>>
    BY <1>5 DEF Frozen
<1>6. ASSUME NEW c \in Calls,
             \/ \E q \in Requests : Receive(c, q)
             \/ lookup(c) \/ get(c) \/ resolve(c) \/ get_document(c) \/ source(c)
             \/ InsertFails(c)
      PROVE  UNCHANGED <<stage, req, hosts, revision>>
    BY <1>6 DEF Receive, lookup, get, resolve, resolve_hosts, get_document, source, InsertFails,
       Refuse, Replay, rows
<1>7. Edit \/ UNCHANGED vars => UNCHANGED <<stage, req, hosts, revision>>
    BY DEF Edit, update_database, delete_database, update_host, delete_host,
       confirm_host_key, rows, vars
<1> QED
    BY <1>1, <1>2, <1>3, <1>4, <1>5, <1>6, <1>7 DEF Next, Handle

\* What a retry relies on stays: a finished run is never touched again.
LEMMA EndedStays ==
  ASSUME KeyInv, [Next]_vars, NEW r \in Runs, stage[r] = "ended"
  PROVE  stage'[r] = "ended" /\ Frozen(r)
BY RowMoves DEF Inserted

Same(c) == call'[c] = call[c] /\ got'[c] = got[c] /\ pin'[c] = pin[c] /\ late'[c] = late[c]

\* The ways of a call up to its insertion.
LEMMA CallMoves ==
  ASSUME TypeOK, [Next]_vars, NEW c \in Calls, pc'[c] # pc[c] \/ ~Same(c)
  PROVE  LET s == SourceOf[call[c]] IN
         \/ /\ pc[c] = "idle" /\ call'[c] \in Requests /\ UNCHANGED <<rows, world>>
            /\ got'[c] = got[c] /\ pin'[c] = pin[c]
            /\ late'[c] = (Stored(call'[c]) # {})
            /\ pc'[c] = IF SourceOf[call'[c]] = Nobody THEN "lookup" ELSE "source"
         \/ /\ pc[c] = "lookup" /\ Same(c) /\ UNCHANGED rows
            /\ \/ pc'[c] = "resolve" /\ Stored(call[c]) = {}
               \/ pc'[c] = "done"
               \/ pc'[c] = "refused" /\ \E r \in Stored(call[c]) : req[r] # call[c]
         \/ /\ pc[c] = "resolve" /\ UNCHANGED rows
            /\ \/ pc'[c] = "refused" /\ Same(c)
               \/ /\ pc'[c] = IF call[c] \in Playbook THEN "document" ELSE "insert"
                  /\ got'[c] # {} /\ call'[c] = call[c] /\ pin'[c] = pin[c]
                  /\ late'[c] = late[c]
         \/ /\ pc[c] = "document" /\ UNCHANGED rows
            /\ \/ pc'[c] = "refused" /\ Same(c)
               \/ /\ pc'[c] = "insert" /\ Valid(call[c], pin'[c])
                  /\ got'[c] = got[c] /\ call'[c] = call[c] /\ late'[c] = late[c]
         \/ /\ pc[c] = "source" /\ UNCHANGED rows
            /\ \/ /\ pc'[c] = "refused" /\ Same(c)
                  /\ ~(/\ stage[s] = "ended" /\ Valid(call[c], revision[s])
                       /\ Regives(call[c], s))
               \/ /\ pc'[c] = "insert" /\ stage[s] = "ended" /\ Valid(call[c], revision[s])
                  /\ Regives(call[c], s)
                  /\ got'[c] = hosts[s] /\ pin'[c] = revision[s]
                  /\ call'[c] = call[c] /\ late'[c] = late[c]
         \/ /\ pc[c] = "insert" /\ Same(c)
            /\ \/ pc'[c] = "done"
               \/ pc'[c] = "keys" /\ Stored(call[c]) = {}
               \/ /\ pc'[c] = "refused" /\ UNCHANGED rows
                  /\ \/ Stored(call[c]) = {}
                     \/ \E r \in Stored(call[c]) : req[r] # call[c]
         \/ pc[c] = "keys" /\ pc'[c] \in {"done", "refused"} /\ Same(c)
         \/ pc[c] \in Working /\ pc'[c] = "lost" /\ Same(c)
<1> DEFINE Others(d) == d # c => pc'[c] = pc[c] /\ Same(c)
<1>1. ASSUME NEW d \in Calls, NEW q \in Requests, Receive(d, q), d = c
      PROVE  /\ pc[c] = "idle" /\ call'[c] \in Requests /\ UNCHANGED <<rows, world>>
             /\ got'[c] = got[c] /\ pin'[c] = pin[c]
             /\ late'[c] = (Stored(call'[c]) # {})
             /\ pc'[c] = IF SourceOf[call'[c]] = Nobody THEN "lookup" ELSE "source"
    BY <1>1 DEF Receive, GoTo, TypeOK
<1>2. ASSUME NEW d \in Calls, NEW q \in Requests, Receive(d, q) PROVE Others(d)
    BY <1>2 DEF Receive, GoTo, TypeOK, Same
<1>3. ASSUME NEW d \in Calls, Handle(d) \/ Lose(d) PROVE Others(d)
    BY <1>3 DEF Handle, Lose, lookup, resolve, resolve_hosts, get_document, source, get,
       InsertFails, Insert, Fail, Commit, Replay, Refuse, Rollback, GoTo, TypeOK, Same, locals
<1>4. (\E r \in Runs : EndRun(r)) \/ Edit \/ UNCHANGED vars => pc'[c] = pc[c] /\ Same(c)
    BY DEF EndRun, Edit, update_database, delete_database, update_host, delete_host,
       confirm_host_key, vars, locals, Same
<1>5. CASE \E q \in Requests : Receive(c, q)
    BY <1>1, <1>5
<1>6. CASE lookup(c)
    BY <1>6 DEF lookup, Replay, GoTo, TypeOK, Same, locals
<1>7. CASE resolve(c)
    BY <1>7 DEF resolve, resolve_hosts, Refuse, GoTo, TypeOK, Same, locals
<1>8. CASE get_document(c)
    BY <1>8 DEF get_document, Refuse, GoTo, TypeOK, Same, locals
<1>9. CASE source(c)
    BY <1>9 DEF source, Refuse, GoTo, TypeOK, Same, locals
<1>10. CASE get(c)
    BY <1>10 DEF get, Replay, GoTo, TypeOK, Same, locals
<1>11. CASE InsertFails(c)
    BY <1>11 DEF InsertFails, Refuse, GoTo, TypeOK, Same, locals
<1>12. CASE \E r \in Runs : Insert(c, r)
    BY <1>12 DEF Insert, GoTo, TypeOK, Same, locals
<1>13. CASE Fail(c) \/ Commit(c)
    BY <1>13 DEF Fail, Commit, GoTo, TypeOK, Same, locals
<1>14. CASE Lose(c)
    BY <1>14 DEF Lose, GoTo, TypeOK, Same, locals
<1> QED
    BY <1>2, <1>3, <1>4, <1>5, <1>6, <1>7, <1>8, <1>9, <1>10, <1>11, <1>12, <1>13, <1>14
       DEF Next, Handle
-----------------------------------------------------------------------------
(***************************************************************************)
(* Envelopes: a call that is about to insert was validated against the     *)
(* revision it pinned, and a row agrees with its request.                  *)
(***************************************************************************)

Early == {"lookup", "resolve", "document"}

Sealed ==
  /\ \A r \in Runs : stage[r] # "none" => Valid(req[r], revision[r])
  /\ \A r \in Runs : stage[r] \in {"none", "open"} => r \notin envelope
  /\ \A c \in Calls : pc[c] \in {"idle"} \union Early => pin[c] = 0
  /\ \A c \in Calls : pc[c] \in Early => SourceOf[call[c]] = Nobody
  /\ \A c \in Calls : pc[c] = "insert" => Valid(call[c], pin[c])

\* EnvelopeMatches for one run, but for what it says of retries.
Matched(r) ==
  stage[r] = "queued" => /\ r \in envelope <=> req[r] \in Gives
                         /\ r \in envelope => revision[r] \in Secretive
                         /\ revision[r] \in Required => r \in envelope

SealedInv == KeyInv /\ Sealed /\ \A r \in Runs : Matched(r)

LEMMA InitSealed == Init => SealedInv
BY InitKey DEF Init, SealedInv, Sealed, Matched, Early

\* Envelopes come with a commit and go with the end of their run.
LEMMA EnvelopeMoves ==
  ASSUME KeyInv, [Next]_vars, NEW r \in Runs
  PROVE  \/ r \in envelope' <=> r \in envelope
         \/ stage[r] = "open" /\ stage'[r] = "queued"
         \/ stage[r] = "queued" /\ stage'[r] = "ended"
<1>1. ASSUME NEW c \in Calls, Commit(c), r = answer[c]
      PROVE  stage[r] = "open" /\ stage'[r] = "queued"
    BY <1>1 DEF Commit, KeyInv, Own, TypeOK
<1>2. ASSUME NEW c \in Calls, Commit(c), r # answer[c] PROVE r \in envelope' <=> r \in envelope
    BY <1>2 DEF Commit
<1>3. ASSUME NEW s \in Runs, EndRun(s)
      PROVE  \/ r \in envelope' <=> r \in envelope
             \/ stage[r] = "queued" /\ stage'[r] = "ended"
    BY <1>3 DEF EndRun, KeyInv, TypeOK
<1>4. ASSUME NEW c \in Calls,
             \/ \E q \in Requests : Receive(c, q)
             \/ lookup(c) \/ get(c) \/ resolve(c) \/ get_document(c) \/ source(c)
             \/ InsertFails(c) \/ (\E s \in Runs : Insert(c, s)) \/ Fail(c) \/ Lose(c)
      PROVE  UNCHANGED envelope
    BY <1>4 DEF Receive, lookup, get, resolve, resolve_hosts, get_document, source, InsertFails,
       Refuse, Replay, Insert, Fail, Lose, rows
<1>5. Edit \/ UNCHANGED vars => UNCHANGED envelope
    BY DEF Edit, update_database, delete_database, update_host, delete_host,
       confirm_host_key, rows, vars
<1> QED
    BY <1>1, <1>2, <1>3, <1>4, <1>5 DEF Next, Handle

LEMMA SealedStep == SealedInv /\ [Next]_vars => SealedInv'
<1> SUFFICES ASSUME SealedInv, [Next]_vars PROVE SealedInv'
    OBVIOUS
<1>0. KeyInv /\ KeyInv' /\ TypeOK /\ TypeOK'
    BY KeyStep DEF SealedInv, KeyInv
<1>1. ASSUME NEW r \in Runs, stage'[r] # "none" PROVE Valid(req'[r], revision'[r])
    BY <1>0, <1>1, RowMoves DEF SealedInv, Sealed, Frozen, Inserted, TypeOK
<1>2. ASSUME NEW r \in Runs, stage'[r] \in {"none", "open"} PROVE r \notin envelope'
    BY <1>0, <1>2, RowMoves, EnvelopeMoves DEF SealedInv, Sealed, Inserted
<1>3. ASSUME NEW c \in Calls
      PROVE  /\ pc'[c] \in {"idle"} \union Early => pin'[c] = 0
             /\ pc'[c] \in Early => SourceOf[call'[c]] = Nobody
             /\ pc'[c] = "insert" => Valid(call'[c], pin'[c])
    <2>1. CASE pc'[c] = pc[c] /\ Same(c)
        BY <2>1 DEF SealedInv, Sealed, Same
    <2>2. CASE pc[c] = "resolve" /\ pc'[c] = "insert"
        <3>1. /\ call[c] \notin Playbook /\ call'[c] = call[c] /\ call[c] \in Requests
              /\ pin'[c] = 0 /\ SourceOf[call[c]] = Nobody
            BY <1>0, <2>2, CallMoves DEF SealedInv, Sealed, Early, TypeOK
        <3> QED
            BY <2>2, <3>1, RunRequestsAssumption DEF Valid, Early
    <2>3. CASE ~(pc'[c] = pc[c] /\ Same(c)) /\ ~(pc[c] = "resolve" /\ pc'[c] = "insert")
        BY <1>0, <2>3, CallMoves DEF SealedInv, Sealed, Early, Same
    <2> QED
        BY <2>1, <2>2, <2>3
<1>4. ASSUME NEW r \in Runs PROVE Matched(r)'
    <2>1. CASE stage[r] = "queued"
        BY <1>0, <2>1, RowMoves, EnvelopeMoves DEF SealedInv, Matched, Frozen, Inserted
    <2>2. CASE stage[r] # "queued" /\ stage'[r] = "queued"
        <3>1. /\ Frozen(r) /\ stage[r] = "open"
              /\ r \in envelope' <=> r \in envelope \/ req[r] \in Gives
            BY <1>0, <2>2, RowMoves DEF Inserted
        <3>2. r \notin envelope /\ Valid(req[r], revision[r])
            BY <3>1 DEF SealedInv, Sealed
        <3> QED
            BY <3>1, <3>2 DEF Valid, Frozen, Matched
    <2>3. CASE stage'[r] # "queued"
        BY <2>3 DEF Matched
    <2> QED
        BY <2>1, <2>2, <2>3
<1>5. Sealed'
    BY <1>1, <1>2, <1>3 DEF Sealed, Valid
<1> QED
    BY <1>0, <1>4, <1>5 DEF SealedInv

-----------------------------------------------------------------------------
(***************************************************************************)
(* Targets: the hosts of a row, committed or not, exist, because the       *)
(* insertion found them and deletions look at all rows.                    *)
(***************************************************************************)

Hosted ==
  /\ \A r \in Runs : stage[r] # "none" =>
       hosts[r] # {} /\ \A h \in hosts[r] : host[h] # "gone"
  /\ \A c \in Calls : pc[c] \in {"document", "insert"} => got[c] # {}

HostedInv == KeyInv /\ Hosted /\ TargetsKept

LEMMA InitHosted == Init => HostedInv
BY InitKey DEF Init, HostedInv, Hosted, TargetsKept, Committed

\* A host that some row refers to stays, and so does its confirmed key.
LEMMA HostMoves ==
  ASSUME TypeOK, [Next]_vars, NEW r \in Runs, stage[r] # "none", NEW h \in hosts[r]
  PROVE  (host[h] # "gone" => host'[h] # "gone") /\ (h \in trusted => h \in trusted')
<1>1. h \in Hosts
    BY DEF TypeOK
<1>2. ASSUME NEW g \in Hosts, update_host(g) \/ delete_host(g) \/ confirm_host_key(g)
      PROVE  (host[h] # "gone" => host'[h] # "gone") /\ (h \in trusted => h \in trusted')
    BY <1>1, <1>2 DEF update_host, delete_host, confirm_host_key, TypeOK
<1>3. ASSUME NEW c \in Calls, Handle(c) \/ Lose(c) \/ \E q \in Requests : Receive(c, q)
      PROVE  UNCHANGED world
    BY <1>3 DEF Handle, Lose, Receive, lookup, resolve, resolve_hosts, get_document, source,
       get, InsertFails, Insert, Fail, Commit, Replay, Refuse
<1>4. \/ \E s \in Runs : EndRun(s)
      \/ \E on \in {"on", "off"} : update_database(on)
      \/ delete_database \/ UNCHANGED vars
      => UNCHANGED <<host, trusted>>
    BY DEF EndRun, update_database, delete_database, vars, world
<1> QED
    BY <1>2, <1>3, <1>4 DEF Next, Edit, world

LEMMA HostedStep == HostedInv /\ [Next]_vars => HostedInv'
<1> SUFFICES ASSUME HostedInv, [Next]_vars PROVE HostedInv'
    OBVIOUS
<1>0. KeyInv /\ KeyInv' /\ TypeOK
    BY KeyStep DEF HostedInv, KeyInv
<1>1. ASSUME NEW c \in Calls, pc'[c] \in {"document", "insert"} PROVE got'[c] # {}
    <2>1. CASE pc'[c] = pc[c] /\ Same(c)
        BY <1>1, <2>1 DEF HostedInv, Hosted, Same
    <2>2. CASE pc[c] = "source" /\ pc'[c] = "insert"
        BY <1>0, <2>2, CallMoves DEF HostedInv, Hosted, Committed, TypeOK
    <2>3. CASE ~(pc'[c] = pc[c] /\ Same(c)) /\ pc[c] # "source"
        BY <1>0, <1>1, <2>3, CallMoves DEF HostedInv, Hosted
    <2>4. CASE pc[c] = "source" /\ pc'[c] # "insert"
        BY <1>0, <1>1, <2>4, CallMoves
    <2> QED
        BY <2>1, <2>2, <2>3, <2>4
<1>2. ASSUME NEW r \in Runs, stage'[r] # "none"
      PROVE  hosts'[r] # {} /\ \A h \in hosts'[r] : host'[h] # "gone"
    <2>1. CASE \E c \in Calls : Inserted(c, r)
        BY <2>1 DEF Inserted, HostedInv, Hosted, world
    <2>2. CASE Frozen(r) /\ stage[r] # "none"
        BY <1>0, <2>2, HostMoves DEF Frozen, HostedInv, Hosted
    <2> QED
        BY <1>0, <1>2, <2>1, <2>2, RowMoves
<1>3. TargetsKept'
    <2> SUFFICES ASSUME NEW r \in Runs, stage'[r] \in Committed, NEW h \in hosts'[r]
                 PROVE  h \in trusted'
        BY <1>2 DEF TargetsKept, Committed
    <2>1. CASE stage[r] \in Committed
        BY <1>0, <2>1, RowMoves, HostMoves
           DEF Frozen, Inserted, HostedInv, TargetsKept, Committed
    <2>2. CASE stage[r] \notin Committed
        BY <1>0, <2>2, RowMoves DEF Frozen, Inserted, Committed, world
    <2> QED
        BY <2>1, <2>2
<1> QED
    BY <1>0, <1>1, <1>2, <1>3 DEF HostedInv, Hosted

\* INV-01: for any edits of hosts and keys between resolution, insertion, commit and
\* execution, the targets of a run are existing hosts with confirmed keys.
THEOREM Targets == Spec => []TargetsKept
<1>1. HostedInv => TargetsKept
    BY DEF HostedInv
<1> QED
    BY <1>1, InitHosted, HostedStep, PTL DEF Spec
-----------------------------------------------------------------------------
(***************************************************************************)
(* Retries and replays.  A retry copies a finished run, which is never     *)
(* touched again; so the same retry, repeated, finds its source as valid   *)
(* as it was.                                                              *)
(***************************************************************************)

CopyOf(q, targets, v) ==
  LET s == SourceOf[q] IN
  stage[s] = "ended" /\ targets = hosts[s] /\ v = revision[s] /\ Regives(q, s)

Retried ==
  /\ \A r \in Runs : stage[r] # "none" /\ SourceOf[req[r]] # Nobody =>
       CopyOf(req[r], hosts[r], revision[r])
  /\ \A c \in Calls : pc[c] = "insert" /\ SourceOf[call[c]] # Nobody =>
       CopyOf(call[c], got[c], pin[c])
  /\ \A r \in Runs : stage[r] # "none" => req[r] \in Requests

RetryInv == SealedInv /\ Retried

LEMMA InitRetry == Init => RetryInv
BY InitSealed DEF Init, RetryInv, Retried

LEMMA RetryStep == RetryInv /\ [Next]_vars => RetryInv'
<1> SUFFICES ASSUME RetryInv, [Next]_vars PROVE RetryInv'
    OBVIOUS
<1>0. SealedInv /\ SealedInv' /\ KeyInv /\ TypeOK
    BY SealedStep DEF RetryInv, SealedInv, KeyInv
<1>1. ASSUME NEW q, SourceOf[q] \in Runs, NEW targets, NEW v, CopyOf(q, targets, v)
      PROVE  LET s == SourceOf[q] IN
             /\ stage'[s] = "ended" /\ targets = hosts'[s] /\ v = revision'[s]
             /\ req'[s] \in Gives => q \in Gives
    BY <1>0, <1>1, EndedStays DEF CopyOf, Frozen, Regives
<1>2. ASSUME NEW r \in Runs, stage'[r] # "none"
      PROVE  /\ req'[r] \in Requests
             /\ SourceOf[req'[r]] # Nobody =>
                  CopyOf(req[r], hosts[r], revision[r])'
    <2>1. /\ req'[r] \in Requests
          /\ SourceOf[req'[r]] # Nobody =>
               CopyOf(req'[r], hosts'[r], revision'[r])
        <3>1. CASE \E c \in Calls : Inserted(c, r)
            BY <1>0, <3>1 DEF Inserted, RetryInv, Retried, TypeOK
        <3>2. CASE Frozen(r) /\ stage[r] # "none"
            BY <3>2 DEF Frozen, RetryInv, Retried
        <3> QED
            BY <1>0, <1>2, <3>1, <3>2, RowMoves
    <2>2. SourceOf[req'[r]] # Nobody => SourceOf[req'[r]] \in Runs
        BY <2>1, RunRequestsAssumption
    <2> QED
        BY <1>1, <2>1, <2>2 DEF CopyOf, Regives
<1>3. ASSUME NEW c \in Calls, pc'[c] = "insert", SourceOf[call'[c]] # Nobody
      PROVE  CopyOf(call[c], got[c], pin[c])'
    <2>1. CopyOf(call'[c], got'[c], pin'[c])
        <3>1. CASE pc[c] = "insert" /\ Same(c)
            BY <1>3, <3>1 DEF RetryInv, Retried, Same
        <3>2. CASE ~(pc[c] = "insert" /\ Same(c))
            BY <1>0, <1>3, <3>2, CallMoves DEF SealedInv, Sealed, Early, CopyOf
        <3> QED
            BY <3>1, <3>2
    <2>2. call'[c] \in Requests
        BY <1>0, <1>3 DEF SealedInv, KeyInv, TypeOK
    <2>3. SourceOf[call'[c]] \in Runs
        BY <1>3, <2>2, RunRequestsAssumption
    <2> QED
        BY <1>1, <2>1, <2>3 DEF CopyOf, Regives
<1> QED
    BY <1>0, <1>2, <1>3 DEF RetryInv, Retried

\* INV-03, INV-14: for any number of retries of retries, and whatever became of hosts
\* and playbook, a retry has the targets and the revision of the finished run it repeats.
THEOREM Retries == Spec => []RetryFaithful
<1>1. RetryInv => RetryFaithful
    BY DEF RetryInv, Retried, CopyOf, RetryFaithful, Committed
<1> QED
    BY <1>1, InitRetry, RetryStep, PTL DEF Spec

\* Whatever revisions are saved while calls are under way, and for retries of retries: a
\* queued run has an envelope exactly if its request gave the sensitive parameter; the
\* revision it is pinned to allows that, and neither it nor the run's source asks for more.
THEOREM Envelopes == Spec => []EnvelopeMatches
<1>1. RetryInv => EnvelopeMatches
    <2> SUFFICES ASSUME RetryInv, NEW r \in Runs, stage[r] = "queued"
                 PROVE  /\ r \in envelope <=> req[r] \in Gives
                        /\ r \in envelope => revision[r] \in Secretive
                        /\ revision[r] \in Required => r \in envelope
                        /\ SourceOf[req[r]] # Nobody /\ req[SourceOf[req[r]]] \in Gives
                             => r \in envelope
        BY DEF EnvelopeMatches
    <2> QED
        BY DEF RetryInv, SealedInv, Matched, Retried, CopyOf, Regives
<1> QED
    BY <1>1, InitRetry, RetryStep, PTL DEF Spec

\* A call that came after its key had a run still finds one, and never inserts.
Replayed ==
  \A c \in Calls : late[c] =>
    /\ pc[c] \in {"lookup", "source", "insert", "done", "refused", "lost"}
    /\ Stored(call[c]) # {}
    /\ pc[c] = "insert" => SourceOf[call[c]] # Nobody

ReplayInv == RetryInv /\ Replayed /\ ReplayAnswered

LEMMA InitReplay == Init => ReplayInv
BY InitRetry DEF Init, ReplayInv, Replayed, ReplayAnswered

\* A key has at most one committed run.
LEMMA StoredUnique ==
  ASSUME KeyInv, NEW q, NEW r \in Stored(q), NEW s \in Stored(q) PROVE r = s
BY DEF Stored, KeyInv, Unique, Committed

\* A retry that is stored could be inserted again.
LEMMA RetryValid ==
  ASSUME RetryInv, NEW c \in Calls, pc[c] = "source", NEW r \in Stored(call[c]),
         req[r] = call[c]
  PROVE  LET s == SourceOf[call[c]] IN
         stage[s] = "ended" /\ Valid(call[c], revision[s]) /\ Regives(call[c], s)
<1>1. r \in Runs /\ stage[r] # "none" /\ SourceOf[call[c]] \in Runs
    BY DEF Stored, Committed, RetryInv, SealedInv, KeyInv, TypeOK
<1>2. SourceOf[call[c]] # Nobody
    BY <1>1, RunRequestsAssumption
<1> QED
    BY <1>1, <1>2 DEF RetryInv, Retried, CopyOf, SealedInv, Sealed

LEMMA ReplayStep == ReplayInv /\ [Next]_vars => ReplayInv'
<1> SUFFICES ASSUME ReplayInv, [Next]_vars PROVE ReplayInv'
    OBVIOUS
<1>0. RetryInv /\ RetryInv' /\ KeyInv /\ KeyInv' /\ TypeOK /\ TypeOK'
    BY RetryStep DEF ReplayInv, RetryInv, SealedInv, KeyInv
<1> SUFFICES ASSUME NEW c \in Calls, late'[c]
             PROVE  /\ pc'[c] \in {"lookup", "source", "insert", "done", "refused", "lost"}
                    /\ Stored(call[c])' # {}
                    /\ pc'[c] = "insert" => SourceOf[call'[c]] # Nobody
                    /\ pc'[c] = "refused" => \A r \in Stored(call[c])' : req'[r] # call'[c]
    BY <1>0 DEF ReplayInv, Replayed, ReplayAnswered
<1>1. CASE pc[c] = "idle" /\ pc'[c] # "idle"
    <2>1. pc'[c] \in {"lookup", "source"} /\ UNCHANGED <<stage, req>>
        BY <1>0, <1>1, CallMoves DEF rows, Working
    <2>2. late'[c] = (Stored(call'[c]) # {})
        BY <1>0, <1>1, CallMoves DEF Working
    <2>3. Stored(call'[c]) # {}
        BY <2>2, Zenon
    <2> QED
        BY <2>1, <2>3 DEF Stored
<1>2. CASE ~(pc[c] = "idle" /\ pc'[c] # "idle")
    <2>1. late[c] /\ call'[c] = call[c]
        BY <1>0, <1>2, CallMoves DEF Same
    <2>2. PICK r \in Stored(call[c]) : TRUE
        BY <2>1 DEF ReplayInv, Replayed
    <2>3. r \in Stored(call[c])' /\ req'[r] = req[r]
        <3>1. r \in Runs /\ stage[r] \in Committed /\ KeyOf[req[r]] = KeyOf[call[c]]
            BY DEF Stored
        <3>2. stage'[r] \in Committed /\ req'[r] = req[r]
            BY <1>0, <3>1, RowMoves DEF Frozen, Inserted, Committed
        <3> QED
            BY <2>1, <3>1, <3>2 DEF Stored
    <2>4. ASSUME req[r] # call[c], NEW s \in Stored(call[c])' PROVE req'[s] # call'[c]
        <3>1. r = s
            BY <1>0, <2>3, <2>4 DEF Stored, KeyInv, Unique, Committed
        <3> QED
            BY <2>1, <2>3, <2>4, <3>1
    <2>5. ASSUME NEW s \in Stored(call[c]) PROVE s = r
        BY <1>0, <2>2, StoredUnique
    <2>6. CASE pc'[c] = pc[c]
        BY <2>1, <2>3, <2>4, <2>6 DEF ReplayInv, Replayed, ReplayAnswered
    <2>7. CASE pc'[c] # pc[c]
        <3>1. pc'[c] = "refused" => req[r] # call[c]
            BY <1>0, <2>1, <2>2, <2>5, <2>7, CallMoves, RetryValid DEF ReplayInv, Replayed
        <3>2. /\ pc'[c] \in {"lookup", "source", "insert", "done", "refused", "lost"}
              /\ pc'[c] = "insert" => SourceOf[call[c]] # Nobody
            <4>1. pc[c] = "source" => SourceOf[call[c]] # Nobody
                BY <1>0, RunRequestsAssumption DEF TypeOK
            <4> QED
                BY <1>0, <2>1, <2>2, <2>7, <4>1, CallMoves DEF ReplayInv, Replayed
        <3> QED
            BY <2>1, <2>3, <2>4, <3>1, <3>2
    <2> QED
        BY <2>6, <2>7
<1> QED
    BY <1>1, <1>2

\* For any edits in between: a repeated request whose run exists is refused only if it
\* is not the request the run was created for.
THEOREM Replays == Spec => []ReplayAnswered
<1>1. ReplayInv => ReplayAnswered
    BY DEF ReplayInv
<1> QED
    BY <1>1, InitReplay, ReplayStep, PTL DEF Spec
=============================================================================
