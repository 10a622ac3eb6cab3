--------------------------- MODULE WebShellProofs ---------------------------
(***************************************************************************)
(* Proofs about WebShell, for any number of sessions, streams, runs, hosts *)
(* and API processes.                                                      *)
(***************************************************************************)
EXTENDS WebShell, FiniteSetTheorems, TLAPS

(***************************************************************************)
(* Type correctness.                                                       *)
(***************************************************************************)

LEMMA InitTyped == Init => TypeOK
BY WebShellAssumption DEF Init, TypeOK, LockRow, Free, Live, Running

\* What deletions, with their cascade, leave in the tables.
LEMMA DeletionTyped ==
  ASSUME TypeOK, NEW gone \in SUBSET (Shells \union Runs)
  PROVE  /\ Deleted(gone) \in [Shells -> Live \union {"NONE", "GONE"}]
         /\ Cascade(gone) \in [Hosts -> LockRow]
<1>1. Free \in LockRow
    BY WebShellAssumption DEF Free, LockRow
<1> QED
    BY <1>1 DEF TypeOK, Deleted, Cascade

LEMMA TypeStep == TypeOK /\ [Next]_vars => TypeOK'
<1> SUFFICES ASSUME TypeOK, [Next]_vars PROVE TypeOK'
    OBVIOUS
<1> USE WebShellAssumption
<1>1. ASSUME NEW i \in Instances, NEW s \in Shells, NEW l \in Logins, create(i, s, l)
      PROVE  TypeOK'
  <2>1. Expired \in SUBSET (Shells \union Runs)
      BY DEF Expired
  <2>2. [holder |-> s, owner |-> Nobody, left |-> Lease] \in LockRow
      BY DEF LockRow
  <2>3. lock' \in [Hosts -> LockRow] /\ state' \in [Shells -> Live \union {"NONE", "GONE"}]
      BY <1>1, <2>1, <2>2, DeletionTyped DEF create, Live
  <2>4. \A t \in Shells : state'[t] # "NONE" => login'[t] \in Logins
      BY <1>1 DEF create, TypeOK, Deleted, Expired, Live, Open
  <2> QED
      BY <1>1, <2>3, <2>4 DEF create, TypeOK, streams
<1>2. ASSUME NEW i \in Instances, NEW s \in Shells, NEW l \in Logins, request_close(i, s, l)
      PROVE  TypeOK'
  <2>1. lock' \in [Hosts -> LockRow] /\ state' \in [Shells -> Live \union {"NONE", "GONE"}]
      BY <1>2, DeletionTyped DEF request_close, TypeOK, Live, Open
  <2>2. \A t \in Shells : state'[t] # "NONE" => state[t] # "NONE"
      BY <1>2 DEF request_close, TypeOK, Deleted
  <2> QED
      BY <1>2, <2>1, <2>2 DEF request_close, TypeOK, streams
<1>3. ASSUME NEW i \in Instances, NEW s \in Shells, close_active(i, s) PROVE TypeOK'
    BY <1>3 DEF close_active, TypeOK, rows
<1>4. ASSUME NEW l \in Logins, Revoke(l) PROVE TypeOK'
    BY <1>4 DEF Revoke, TypeOK, rows, streams
<1>5. ASSUME NEW c \in Streams, NEW s \in Shells, NEW l \in Logins, Connect(c, s, l)
      PROVE  TypeOK'
    BY <1>5 DEF Connect, GoTo, TypeOK, rows, Running
<1>6. ASSUME NEW c \in Streams, claim(c) PROVE TypeOK'
  <2>1. conn[c] \in Shells /\ HostOf[conn[c]] \in Hosts
      BY <1>6 DEF claim, TypeOK
  <2>2. [holder |-> conn[c], owner |-> c, left |-> Lease] \in LockRow
      BY <2>1 DEF LockRow
  <2>3. lock' \in [Hosts -> LockRow]
      BY <1>6, <2>2 DEF claim, TypeOK
  <2> QED
      BY <1>6, <2>1, <2>3 DEF claim, Claimable, GoTo, TypeOK, Running, Holding, Live, Open
<1>7. ASSUME NEW c \in Streams,
             ClaimRefused(c) \/ EndRefused(c) \/ start(c) \/ StartFailed(c) \/ Register(c)
               \/ Leave(c) \/ close(c) \/ FinishFailed(c)
      PROVE  TypeOK'
    BY <1>7 DEF ClaimRefused, EndRefused, start, StartFailed, Register, Leave, close,
       FinishFailed, GoTo, TypeOK, rows, Running, Holding
<1>8. ASSUME NEW c \in Streams, heartbeat(c) PROVE TypeOK'
  <2>1. conn[c] \in Shells /\ HostOf[conn[c]] \in Hosts
      BY <1>8 DEF heartbeat, TypeOK
  <2>2. [lock[HostOf[conn[c]]] EXCEPT !.left = Lease] \in LockRow
    <3>1. lock[HostOf[conn[c]]] \in LockRow
        BY <2>1 DEF TypeOK
    <3>2. Lease \in 0..Lease
        OBVIOUS
    <3> QED
        BY <3>1, <3>2 DEF LockRow
  <2>3. lock' \in [Hosts -> LockRow]
      BY <1>8, <2>1, <2>2 DEF heartbeat, TypeOK
  <2>4. left' \in [Shells -> 0..Lease]
      BY <1>8, <2>1 DEF heartbeat, TypeOK
  <2> QED
      BY <1>8, <2>3, <2>4 DEF heartbeat, GoTo, TypeOK, Running, Holding
<1>9. ASSUME NEW c \in Streams, finish(c) PROVE TypeOK'
  <2>1. conn[c] \in Shells /\ Mine(c) \in SUBSET (Shells \union Runs)
      BY <1>9 DEF finish, TypeOK, Mine
  <2>2. lock' \in [Hosts -> LockRow] /\ state' \in [Shells -> Live \union {"NONE", "GONE"}]
      BY <1>9, <2>1, DeletionTyped DEF finish
  <2>3. \A t \in Shells : state'[t] # "NONE" => state[t] # "NONE"
      BY <1>9, <2>1 DEF finish, TypeOK, Deleted, Mine, Open
  <2> QED
      BY <1>9, <2>2, <2>3 DEF finish, GoTo, TypeOK, Running, Holding
<1>10. ASSUME NEW i \in Instances, StartApi(i) PROVE TypeOK'
  <2>1. Expired \in SUBSET (Shells \union Runs)
      BY DEF Expired
  <2>2. lock' \in [Hosts -> LockRow] /\ state' \in [Shells -> Live \union {"NONE", "GONE"}]
      BY <1>10, <2>1, DeletionTyped DEF StartApi
  <2>3. \A t \in Shells : state'[t] # "NONE" => state[t] # "NONE"
      BY <1>10 DEF StartApi, TypeOK, Deleted, Expired, Live, Open
  <2> QED
      BY <1>10, <2>2, <2>3 DEF StartApi, TypeOK, streams
<1>11. ASSUME NEW i \in Instances, stop(i) PROVE TypeOK'
    BY <1>11 DEF stop, TypeOK, rows
<1>12. ASSUME NEW i \in Instances, Exit(i) PROVE TypeOK'
    BY <1>12 DEF Exit, TypeOK, rows, Running, Holding
<1>13. ASSUME NEW r \in Runs, RunSteps(r) PROVE TypeOK'
  <2>1. CASE RunBeats(r)
    <3>1. lock' \in [Hosts -> LockRow]
      <4>1. ASSUME NEW h \in Hosts PROVE lock[h] \in LockRow
          BY DEF TypeOK
      <4>2. Lease \in 0..Lease
          OBVIOUS
      <4>3. ASSUME NEW k \in LockRow PROVE [k EXCEPT !.left = Lease] \in LockRow
          BY <4>2 DEF LockRow
      <4> QED
          BY <2>1, <4>1, <4>3 DEF RunBeats
    <3> QED
        BY <2>1, <3>1 DEF RunBeats, TypeOK, rows, streams
  <2>2. CASE RunEnds(r)
    <3>1. lock' \in [Hosts -> LockRow]
        BY <2>2, DeletionTyped DEF RunEnds, TypeOK
    <3> QED
        BY <2>2, <3>1 DEF RunEnds, TypeOK, rows, streams
  <2>3. ASSUME NEW h \in Hosts, RunClaims(r, h) PROVE TypeOK'
    <3>1. [holder |-> r, owner |-> Nobody, left |-> Lease] \in LockRow
        BY DEF LockRow
    <3> QED
        BY <2>3, <3>1 DEF RunClaims, TypeOK, rows, streams
  <2> QED
      BY <1>13, <2>1, <2>2, <2>3 DEF RunSteps
<1>14. CASE DeleteLapsed
  <2>1. Free \in LockRow
      BY DEF Free, LockRow
  <2> QED
      BY <1>14, <2>1 DEF DeleteLapsed, TypeOK, rows, streams
<1>15. CASE Tick
  <2>1. ASSUME NEW h \in Hosts PROVE lock'[h] \in LockRow
    <3>1. lock[h] \in LockRow /\ lock[h].left \in 0..Lease
        BY DEF TypeOK, LockRow
    <3>2. lock'[h] = [lock[h] EXCEPT !.left = IF lock[h].left > 0 THEN lock[h].left - 1 ELSE 0]
        BY <1>15 DEF Tick
    <3> QED
        BY <3>1, <3>2 DEF LockRow
  <2>2. left' \in [Shells -> 0..Lease]
      BY <1>15 DEF Tick, TypeOK
  <2> QED
      BY <1>15, <2>1, <2>2 DEF Tick, TypeOK, streams
<1>16. CASE UNCHANGED vars
    BY <1>16 DEF vars, TypeOK
<1> QED
    BY <1>1, <1>2, <1>3, <1>4, <1>5, <1>6, <1>7, <1>8, <1>9, <1>10, <1>11, <1>12, <1>13,
       <1>14, <1>15, <1>16 DEF Next, Requests, Stream

\* Every behaviour of the sessions, streams and locks is type correct: no stream runs
\* without a session and no session exists without the login that created it.
THEOREM ShellTypeCorrect == Spec => []TypeOK
BY InitTyped, TypeStep, PTL DEF Spec
-----------------------------------------------------------------------------
(***************************************************************************)
(* Single use.  A row nobody has connected to has no owner (a CHECK of the *)
(* table), so claim finds a ticket that nobody has consumed.               *)
(***************************************************************************)

Consumed == Holding \union {"ended", "lost"}

Unowned == \A s \in Shells : state[s] \in {"NONE", "PENDING"} => owner[s] = Nobody

TicketInv == TypeOK /\ Unowned /\ TicketOnce

LEMMA InitTicket == Init => TicketInv
BY InitTyped DEF Init, TicketInv, Unowned, TicketOnce, Holding

\* A stream that consumed a ticket has a row that was connected to.
LEMMA ConsumedConnected ==
  ASSUME TicketInv, NEW c \in Streams, pc[c] \in Consumed
  PROVE  /\ conn[c] \in Shells
         /\ owner[conn[c]] = c
         /\ who[c] = login[conn[c]]
         /\ state[conn[c]] \notin {"NONE", "PENDING"}
BY WebShellAssumption DEF TicketInv, TypeOK, Unowned, TicketOnce, Consumed, Holding

\* Steps other than those that connect to a session or consume a ticket.
LEMMA TicketKept ==
  ASSUME TicketInv, UNCHANGED <<owner, conn, who>>,
         \A c \in Streams : pc'[c] \in Consumed => pc[c] \in Consumed,
         \A s \in Shells : state[s] # "NONE" => login'[s] = login[s],
         \A s \in Shells :
           state'[s] \in {"NONE", "PENDING"} => state[s] \in {"NONE", "PENDING"}
  PROVE  Unowned' /\ TicketOnce'
<1>1. Unowned'
    BY DEF TicketInv, Unowned
<1>2. ASSUME NEW c \in Streams, pc'[c] \in Consumed
      PROVE  owner'[conn'[c]] = c /\ who'[c] = login'[conn'[c]]
    BY <1>2, ConsumedConnected
<1> QED
    BY <1>1, <1>2 DEF TicketOnce, Consumed

LEMMA TicketStep == TicketInv /\ [Next]_vars => TicketInv'
<1> SUFFICES ASSUME TicketInv, [Next]_vars PROVE Unowned' /\ TicketOnce'
    BY TypeStep DEF TicketInv
<1> USE DEF Consumed
<1>0. TypeOK /\ Unowned /\ TicketOnce
    BY DEF TicketInv
<1>1. ASSUME NEW i \in Instances, NEW s \in Shells, NEW l \in Logins, create(i, s, l)
      PROVE  Unowned' /\ TicketOnce'
    BY <1>0, <1>1, TicketKept DEF create, streams, Deleted, Expired, TypeOK
<1>2. ASSUME NEW i \in Instances, NEW s \in Shells, NEW l \in Logins, request_close(i, s, l)
      PROVE  Unowned' /\ TicketOnce'
    BY <1>0, <1>2, TicketKept DEF request_close, streams, Deleted, TypeOK, Open
<1>3. ASSUME NEW i \in Instances, NEW s \in Shells, close_active(i, s)
      PROVE  Unowned' /\ TicketOnce'
    BY <1>3, TicketKept DEF close_active, rows
<1>4. ASSUME NEW l \in Logins, Revoke(l) PROVE Unowned' /\ TicketOnce'
    BY <1>4, TicketKept DEF Revoke, rows, streams
<1>5. ASSUME NEW c \in Streams, NEW s \in Shells, NEW l \in Logins, Connect(c, s, l)
      PROVE  Unowned' /\ TicketOnce'
  <2>1. ASSUME NEW d \in Streams, pc'[d] \in Consumed
        PROVE  owner'[conn'[d]] = d /\ who'[d] = login'[conn'[d]]
    <3>1. d # c /\ pc[d] \in Consumed /\ conn'[d] = conn[d] /\ who'[d] = who[d]
        BY <1>0, <1>5, <2>1 DEF Connect, GoTo, TypeOK, Holding
    <3> QED
        BY <1>5, <3>1, ConsumedConnected DEF Connect, rows
  <2> QED
      BY <1>0, <1>5, <2>1 DEF Connect, rows, Unowned, TicketOnce
<1>6. ASSUME NEW c \in Streams, claim(c) PROVE Unowned' /\ TicketOnce'
  <2>1. conn[c] \in Shells /\ state[conn[c]] = "PENDING" /\ login[conn[c]] = who[c]
      BY <1>0, <1>6 DEF claim, Claimable, TypeOK
  <2>2. ASSUME NEW d \in Streams, d # c, pc'[d] \in Consumed
        PROVE  owner'[conn'[d]] = d /\ who'[d] = login'[conn'[d]]
    <3>1. pc[d] \in Consumed /\ conn'[d] = conn[d] /\ who'[d] = who[d]
        BY <1>0, <1>6, <2>2 DEF claim, GoTo, TypeOK
    <3>2. conn[d] # conn[c]
        BY <2>1, <3>1, ConsumedConnected
    <3> QED
        BY <1>0, <1>6, <2>1, <3>1, <3>2, ConsumedConnected DEF claim, TypeOK
  <2>3. owner'[conn'[c]] = c /\ who'[c] = login'[conn'[c]]
      BY <1>0, <1>6, <2>1 DEF claim, TypeOK
  <2>4. Unowned'
      BY <1>0, <1>6, <2>1 DEF claim, Unowned, TypeOK
  <2> QED
      BY <2>2, <2>3, <2>4 DEF TicketOnce
<1>7. ASSUME NEW c \in Streams,
             ClaimRefused(c) \/ EndRefused(c) \/ start(c) \/ StartFailed(c) \/ Register(c)
               \/ Leave(c) \/ close(c) \/ FinishFailed(c) \/ heartbeat(c)
      PROVE  Unowned' /\ TicketOnce'
  <2>1. \A d \in Streams : pc'[d] \in Consumed => pc[d] \in Consumed
      BY <1>0, <1>7 DEF ClaimRefused, EndRefused, start, StartFailed, Register, Leave,
         close, FinishFailed, heartbeat, GoTo, TypeOK, Holding
  <2>2. UNCHANGED <<state, login, owner, conn, who>>
      BY <1>7 DEF ClaimRefused, EndRefused, start, StartFailed, Register, Leave, close,
         FinishFailed, heartbeat, rows
  <2> QED
      BY <2>1, <2>2, TicketKept
<1>8. ASSUME NEW c \in Streams, finish(c) PROVE Unowned' /\ TicketOnce'
    BY <1>0, <1>8, TicketKept DEF finish, GoTo, TypeOK, Deleted, Mine, Holding
<1>9. ASSUME NEW i \in Instances, StartApi(i) PROVE Unowned' /\ TicketOnce'
    BY <1>9, TicketKept DEF StartApi, streams, Deleted
<1>10. ASSUME NEW i \in Instances, stop(i) PROVE Unowned' /\ TicketOnce'
    BY <1>10, TicketKept DEF stop, rows
<1>11. ASSUME NEW i \in Instances, Exit(i) PROVE Unowned' /\ TicketOnce'
    BY <1>11, TicketKept DEF Exit, rows, Holding
<1>12. ASSUME NEW r \in Runs, RunSteps(r) PROVE Unowned' /\ TicketOnce'
    BY <1>12, TicketKept DEF RunSteps, RunBeats, RunEnds, RunClaims, rows, streams
<1>13. CASE DeleteLapsed
    BY <1>13, TicketKept DEF DeleteLapsed, rows, streams
<1>14. CASE Tick
    BY <1>14, TicketKept DEF Tick, streams
<1>15. CASE UNCHANGED vars
    BY <1>15, TicketKept DEF vars
<1> QED
    BY <1>1, <1>2, <1>3, <1>4, <1>5, <1>6, <1>7, <1>8, <1>9, <1>10, <1>11, <1>12, <1>13,
       <1>14, <1>15 DEF Next, Requests, Stream

\* INV-20 for any number of racing connections, stalls and failures included: a ticket
\* is consumed at most once, by a stream of the login that created the session.
THEOREM SingleUse == Spec => []TicketOnce
<1>1. TicketInv => TicketOnce
    BY DEF TicketInv
<1> QED
    BY <1>1, InitTicket, TicketStep, PTL DEF Spec
-----------------------------------------------------------------------------
(***************************************************************************)
(* Exclusion.  With punctual streams and runs, a stream holds the lock of  *)
(* its host from the claim to the deletion of its row, for as long as the  *)
(* lease of its session lasts, and its SSH client lives only in between.   *)
(***************************************************************************)

Held(c) ==
  LET s == conn[c] IN
  /\ state[s] \in Open
  /\ left[s] > 0
  /\ lock[HostOf[s]] = [holder |-> s, owner |-> c, left |-> left[s]]

Holds == \A c \in Streams : pc[c] \in Holding => Held(c)

Terms == \A c \in term : pc[c] \in {"started", "serving", "closing"}

Works ==
  \A r \in Runs : work[r] # Nobody => lock[work[r]].holder = r /\ lock[work[r]].left > 0

ExclusionInv == TicketInv /\ Holds /\ Terms /\ Works

LEMMA InitExclusion == Init => ExclusionInv
BY InitTicket DEF Init, ExclusionInv, Holds, Terms, Works, Holding

\* A step that leaves the rows and locks of connected streams alone.
LEMMA HoldsKept ==
  ASSUME TicketInv, Holds, conn' = conn,
         \A c \in Streams : pc'[c] \in Holding => pc[c] \in Holding,
         \A s \in Shells : state[s] \in Open /\ left[s] > 0 /\ lock[HostOf[s]].left > 0
                             /\ lock[HostOf[s]].holder = s /\ pc'[owner[s]] \in Holding =>
           /\ state'[s] \in Open
           /\ left'[s] = left[s]
           /\ lock'[HostOf[s]] = lock[HostOf[s]]
  PROVE  Holds'
<1> SUFFICES ASSUME NEW c \in Streams, pc'[c] \in Holding PROVE Held(c)'
    BY DEF Holds
<1>1. Held(c) /\ conn[c] \in Shells /\ owner[conn[c]] = c
    BY ConsumedConnected DEF Holds, Consumed
<1> QED
    BY <1>1 DEF Held

\* A step that leaves the locks of runs at work alone.
LEMMA WorksKept ==
  ASSUME TypeOK, Works, work' = work,
         \A h \in Hosts : lock[h].holder \in Runs /\ lock[h].left > 0 => lock'[h] = lock[h]
  PROVE  Works'
BY DEF TypeOK, Works

\* SSH clients live only between start and close, whatever else fails.
LEMMA TermsStep == TypeOK /\ Terms /\ [Next]_vars => Terms'
<1> SUFFICES ASSUME TypeOK, Terms, [Next]_vars PROVE Terms'
    OBVIOUS
<1>1. ASSUME NEW c \in Streams, Stream(c) \/ heartbeat(c) \/ Leave(c) \/ FinishFailed(c)
      PROVE  Terms'
  <2>1. ASSUME NEW d \in term', d # c PROVE pc'[d] \in {"started", "serving", "closing"}
    <3>1. d \in term /\ pc'[d] = pc[d]
        BY <1>1, <2>1 DEF Stream, claim, ClaimRefused, EndRefused, start, StartFailed, Register,
           close, finish, heartbeat, Leave, FinishFailed, GoTo, TypeOK
    <3> QED
        BY <3>1 DEF Terms
  <2>2. c \in term' => pc'[c] \in {"started", "serving", "closing"}
      BY <1>1 DEF Stream, claim, ClaimRefused, EndRefused, start, StartFailed, Register,
         close, finish, heartbeat, Leave, FinishFailed, GoTo, TypeOK, Terms
  <2> QED
      BY <2>1, <2>2 DEF Terms
<1>2. ASSUME NEW c \in Streams, NEW s \in Shells, NEW l \in Logins, Connect(c, s, l)
      PROVE  Terms'
    BY <1>2 DEF Connect, GoTo, TypeOK, Terms
<1>3. ASSUME NEW i \in Instances, Requests(i) \/ StartApi(i) \/ stop(i) PROVE Terms'
    BY <1>3 DEF Requests, create, request_close, close_active, StartApi, stop, streams, Terms
<1>4. ASSUME NEW i \in Instances, Exit(i) PROVE Terms'
    BY <1>4 DEF Exit, Terms, TypeOK
<1>5. CASE UNCHANGED streams
    BY <1>5 DEF streams, Terms
<1>6. (\E l \in Logins : Revoke(l)) \/ (\E r \in Runs : RunSteps(r)) \/ DeleteLapsed \/ Tick
        \/ UNCHANGED vars => UNCHANGED streams
    BY DEF Revoke, RunSteps, RunBeats, RunEnds, RunClaims, DeleteLapsed, Tick, vars, streams
<1> QED
    BY <1>1, <1>2, <1>3, <1>4, <1>5, <1>6 DEF Next

LEMMA ExclusionStep ==
  ASSUME Punctual PROVE ExclusionInv /\ [Next]_vars => ExclusionInv'
<1> SUFFICES ASSUME ExclusionInv, [Next]_vars PROVE Holds' /\ Works'
    BY TicketStep, TermsStep DEF ExclusionInv, TicketInv
<1>0. TypeOK /\ TicketInv /\ Holds /\ Terms /\ Works
    BY DEF ExclusionInv, TicketInv
<1> USE WebShellAssumption
<1>1. ASSUME NEW i \in Instances, NEW s \in Shells, NEW l \in Logins, create(i, s, l)
      PROVE  Holds' /\ Works'
  <2>1. ASSUME NEW t \in Shells, state[t] \in Open, left[t] > 0, lock[HostOf[t]].left > 0,
               lock[HostOf[t]].holder = t
        PROVE  state'[t] \in Open /\ left'[t] = left[t] /\ lock'[HostOf[t]] = lock[HostOf[t]]
    <3>1. t # s /\ t \notin Expired /\ HostOf[t] # HostOf[s] /\ HostOf[t] \in Hosts
        BY <1>0, <1>1, <2>1 DEF create, Open, FreeHost, Expired, TypeOK
    <3> QED
        BY <1>0, <1>1, <2>1, <3>1 DEF create, Deleted, Cascade, TypeOK
  <2>2. Holds'
      BY <1>0, <1>1, <2>1, HoldsKept DEF create, streams
  <2>3. ASSUME NEW h \in Hosts, lock[h].holder \in Runs, lock[h].left > 0
        PROVE  lock'[h] = lock[h]
      BY <1>0, <1>1, <2>3 DEF create, FreeHost, Cascade, Expired, TypeOK
  <2> QED
      BY <1>0, <1>1, <2>2, <2>3, WorksKept DEF create, streams
<1>2. ASSUME NEW i \in Instances, NEW s \in Shells, NEW l \in Logins, request_close(i, s, l)
      PROVE  Holds' /\ Works'
  <2>1. ASSUME NEW t \in Shells, state[t] \in Open, lock[HostOf[t]].holder = t
        PROVE  state'[t] \in Open /\ lock'[HostOf[t]] = lock[HostOf[t]]
    <3>1. HostOf[t] \in Hosts
        OBVIOUS
    <3> QED
        BY <1>0, <1>2, <2>1, <3>1 DEF request_close, Deleted, Cascade, TypeOK, Open
  <2>2. Holds'
      BY <1>0, <1>2, <2>1, HoldsKept DEF request_close, streams
  <2>3. \A h \in Hosts : lock[h].holder \in Runs => lock'[h] = lock[h]
      BY <1>0, <1>2 DEF request_close, Cascade
  <2> QED
      BY <1>0, <1>2, <2>2, <2>3, WorksKept DEF request_close, streams
<1>3. ASSUME NEW i \in Instances, NEW s \in Shells, close_active(i, s)
      PROVE  Holds' /\ Works'
    BY <1>0, <1>3, HoldsKept, WorksKept DEF close_active, rows
<1>4. ASSUME NEW l \in Logins, Revoke(l) PROVE Holds' /\ Works'
    BY <1>0, <1>4, HoldsKept, WorksKept DEF Revoke, rows, streams
<1>5. ASSUME NEW c \in Streams, NEW s \in Shells, NEW l \in Logins, Connect(c, s, l)
      PROVE  Holds' /\ Works'
  <2>1. \A d \in Streams : d # c => pc'[d] = pc[d] /\ conn'[d] = conn[d]
      BY <1>0, <1>5 DEF Connect, GoTo, TypeOK
  <2>2. pc[c] = "idle" /\ pc'[c] = "resolved"
      BY <1>0, <1>5 DEF Connect, GoTo, TypeOK
  <2>3. Holds'
      BY <1>0, <1>5, <2>1, <2>2 DEF Connect, rows, Holds, Held, Holding
  <2> QED
      BY <1>0, <1>5, <2>3, WorksKept DEF Connect
<1>6. ASSUME NEW c \in Streams, claim(c) PROVE Holds' /\ Works'
  <2> DEFINE s == conn[c]
  <2>1. /\ s \in Shells /\ HostOf[s] \in Hosts /\ state[s] = "PENDING"
        /\ lock[HostOf[s]].holder = s
      BY <1>0, <1>6 DEF claim, Claimable, TypeOK
  <2>2. ASSUME NEW d \in Streams, d # c, pc'[d] \in Holding PROVE Held(d)'
    <3>1. pc[d] \in Holding /\ conn'[d] = conn[d] /\ Held(d) /\ conn[d] \in Shells
        BY <1>0, <1>6, <2>2, ConsumedConnected DEF claim, GoTo, TypeOK, Holds, Consumed
    <3>2. conn[d] # s /\ HostOf[conn[d]] # HostOf[s] /\ HostOf[conn[d]] \in Hosts
        BY <2>1, <3>1 DEF Held, Open
    <3> QED
        BY <1>0, <1>6, <2>1, <3>1, <3>2 DEF claim, Held, TypeOK
  <2>3. Held(c)'
      BY <1>0, <1>6, <2>1 DEF claim, Held, Open, TypeOK
  <2>5. \A h \in Hosts : lock[h].holder \in Runs => lock'[h] = lock[h]
      BY <1>0, <1>6, <2>1 DEF claim, TypeOK
  <2> QED
      BY <1>0, <1>6, <2>2, <2>3, <2>5, WorksKept DEF claim, Holds
<1>7. ASSUME NEW c \in Streams,
             ClaimRefused(c) \/ EndRefused(c) \/ start(c) \/ StartFailed(c) \/ Register(c)
               \/ Leave(c) \/ close(c) \/ FinishFailed(c)
      PROVE  Holds' /\ Works'
  <2>1. UNCHANGED <<rows, lock, conn, work>>
      BY <1>7 DEF ClaimRefused, EndRefused, start, StartFailed, Register, Leave, close,
         FinishFailed
  <2>2. \A d \in Streams : pc'[d] \in Holding => pc[d] \in Holding
      BY <1>0, <1>7 DEF ClaimRefused, EndRefused, start, StartFailed, Register, Leave,
         close, FinishFailed, GoTo, TypeOK, Holding
  <2> QED
      BY <1>0, <2>1, <2>2, HoldsKept, WorksKept DEF rows
<1>8. ASSUME NEW c \in Streams, heartbeat(c) PROVE Holds' /\ Works'
  <2> DEFINE s == conn[c]
  <2>1. s \in Shells /\ HostOf[s] \in Hosts /\ Held(c) /\ pc[c] = "serving"
      BY <1>0, <1>8 DEF heartbeat, TypeOK, Holds, Holding
  <2>3. \A h \in Hosts : lock[h].holder \in Runs => lock'[h] = lock[h]
      BY <1>0, <1>8, <2>1 DEF heartbeat, LockRefreshable, TypeOK
  <2>4. Works'
      BY <1>0, <1>8, <2>3, WorksKept DEF heartbeat
  <2>5. \A d \in Streams : pc'[d] \in Holding => pc[d] \in Holding
      BY <1>0, <1>8 DEF heartbeat, GoTo, TypeOK, Holding
  <2>6. ASSUME NEW d \in Streams, d # c, pc'[d] \in Holding PROVE Held(d)'
    <3>1. Held(d) /\ conn[d] \in Shells /\ owner[conn[d]] = d /\ owner[s] = c
        BY <1>0, <2>1, <2>5, <2>6, ConsumedConnected DEF Holds, Consumed, Holding
    <3>2. conn[d] # s /\ HostOf[conn[d]] # HostOf[s] /\ HostOf[conn[d]] \in Hosts
        BY <2>1, <2>6, <3>1 DEF Held
    <3> QED
        BY <1>0, <1>8, <2>1, <3>1, <3>2 DEF heartbeat, Held, TypeOK
  <2>7. Held(c)'
    <3>1. CASE Refreshable(c, s)
      <4>1. LockRefreshable(c, s)
          BY <2>1 DEF Held, LockRefreshable
      <4>2. left'[s] = Lease /\ lock'[HostOf[s]] = [lock[HostOf[s]] EXCEPT !.left = Lease]
          BY <1>0, <1>8, <2>1, <3>1, <4>1 DEF heartbeat, TypeOK
      <4> QED
          BY <1>8, <2>1, <4>2 DEF heartbeat, Held
    <3>2. CASE ~Refreshable(c, s)
        BY <1>8, <2>1, <3>2 DEF heartbeat, Held
    <3> QED
        BY <3>1, <3>2
  <2> QED
      BY <2>4, <2>6, <2>7 DEF Holds
<1>9. ASSUME NEW c \in Streams, finish(c) PROVE Holds' /\ Works'
  <2>1. conn[c] \in Shells /\ owner[conn[c]] = c /\ pc[c] = "finishing"
      BY <1>0, <1>9, ConsumedConnected DEF finish, Consumed, Holding
  <2>2. ASSUME NEW t \in Shells, state[t] \in Open, pc'[owner[t]] \in Holding,
               lock[HostOf[t]].holder = t
        PROVE  state'[t] \in Open /\ lock'[HostOf[t]] = lock[HostOf[t]]
    <3>1. owner[t] # c
        BY <1>0, <1>9, <2>2 DEF finish, GoTo, TypeOK, Holding
    <3>2. t \notin Mine(c) /\ HostOf[t] \in Hosts
        BY <3>1 DEF Mine
    <3> QED
        BY <1>9, <2>2, <3>2 DEF finish, Deleted, Cascade
  <2>3. \A d \in Streams : pc'[d] \in Holding => pc[d] \in Holding
      BY <1>0, <1>9 DEF finish, GoTo, TypeOK, Holding
  <2>4. Holds'
      BY <1>0, <1>9, <2>2, <2>3, HoldsKept DEF finish
  <2>5. \A h \in Hosts : lock[h].holder \in Runs => lock'[h] = lock[h]
      BY <1>9, <2>1 DEF finish, Cascade, Mine
  <2> QED
      BY <1>0, <1>9, <2>4, <2>5, WorksKept DEF finish
<1>10. ASSUME NEW i \in Instances, StartApi(i) PROVE Holds' /\ Works'
  <2>1. \A t \in Shells : left[t] > 0 => t \notin Expired
      BY <1>0 DEF Expired, TypeOK
  <2>2. Holds'
      BY <1>0, <1>10, <2>1, HoldsKept DEF StartApi, streams, Deleted, Cascade
  <2>3. \A h \in Hosts : lock[h].holder \in Runs => lock'[h] = lock[h]
      BY <1>10 DEF StartApi, Cascade, Expired
  <2> QED
      BY <1>0, <1>10, <2>2, <2>3, WorksKept DEF StartApi, streams
<1>11. ASSUME NEW i \in Instances, stop(i) PROVE Holds' /\ Works'
    BY <1>0, <1>11, HoldsKept, WorksKept DEF stop, rows
<1>12. ASSUME NEW i \in Instances, Exit(i) PROVE Holds' /\ Works'
  <2>1. \A d \in Streams : pc'[d] \in Holding => pc[d] \in Holding
      BY <1>12 DEF Exit, Holding
  <2> QED
      BY <1>0, <1>12, <2>1, HoldsKept, WorksKept DEF Exit, rows
<1>13. ASSUME NEW r \in Runs, RunSteps(r) PROVE Holds' /\ Works'
  <2>2. ASSUME NEW t \in Shells, lock[HostOf[t]].left > 0, lock[HostOf[t]].holder = t
        PROVE  lock'[HostOf[t]] = lock[HostOf[t]]
    <3>1. HostOf[t] \in Hosts /\ t # r
        OBVIOUS
    <3> QED
        BY <1>0, <1>13, <2>2, <3>1 DEF RunSteps, RunBeats, RunEnds, RunClaims, Cascade, TypeOK
  <2>3. Holds'
      BY <1>0, <1>13, <2>2, HoldsKept DEF RunSteps, RunBeats, RunEnds, RunClaims, rows, streams
  <2>4. Works'
    <3>1. CASE RunBeats(r)
        BY <1>0, <3>1 DEF RunBeats, Works, TypeOK, LockRow
    <3>2. CASE RunEnds(r)
        BY <1>0, <3>2 DEF RunEnds, Works, TypeOK, Cascade
    <3>3. ASSUME NEW h \in Hosts, RunClaims(r, h) PROVE Works'
        BY <1>0, <3>3 DEF RunClaims, Works, TypeOK
    <3> QED
        BY <1>13, <3>1, <3>2, <3>3 DEF RunSteps
  <2> QED
      BY <2>3, <2>4
<1>14. CASE DeleteLapsed
  <2>1. \A h \in Hosts : lock[h].left > 0 => lock'[h] = lock[h]
      BY <1>0, <1>14 DEF DeleteLapsed, TypeOK, LockRow
  <2> QED
      BY <1>0, <1>14, <2>1, HoldsKept, WorksKept DEF DeleteLapsed, rows, streams
<1>15. CASE Tick
  <2>1. ASSUME NEW c \in Streams, pc'[c] \in Holding PROVE Held(c)'
    <3>1. /\ pc[c] \in Holding /\ conn[c] \in Shells /\ Held(c) /\ left[conn[c]] # 1
          /\ left[conn[c]] \in Nat /\ HostOf[conn[c]] \in Hosts
        BY <1>0, <1>15, <2>1 DEF Tick, streams, Holds, TypeOK, Holding
    <3>2. left'[conn[c]] = left[conn[c]] - 1 /\ left'[conn[c]] > 0
        BY <1>15, <3>1 DEF Tick, Held
    <3>3. lock'[HostOf[conn[c]]] = [lock[HostOf[conn[c]]] EXCEPT !.left = left[conn[c]] - 1]
        BY <1>15, <3>1 DEF Tick, Held
    <3> QED
        BY <1>15, <3>1, <3>2, <3>3 DEF Tick, streams, Held
  <2>2. Works'
    <3> SUFFICES ASSUME NEW r \in Runs, work'[r] # Nobody
                 PROVE  lock'[work'[r]].holder = r /\ lock'[work'[r]].left > 0
        BY DEF Works
    <3> DEFINE h == work[r]
    <3>1. /\ h \in Hosts /\ lock[h] \in LockRow /\ work' = work /\ lock[h].left # 1
          /\ lock[h].holder = r /\ lock[h].left > 0
        BY <1>0, <1>15 DEF Tick, TypeOK, Works
    <3>2. lock'[h] = [lock[h] EXCEPT !.left = lock[h].left - 1]
        BY <1>15, <3>1 DEF Tick
    <3> QED
        BY <3>1, <3>2 DEF LockRow
  <2> QED
      BY <2>1, <2>2 DEF Holds
<1>16. CASE UNCHANGED vars
    BY <1>0, <1>16, HoldsKept, WorksKept DEF vars
<1> QED
    BY <1>1, <1>2, <1>3, <1>4, <1>5, <1>6, <1>7, <1>8, <1>9, <1>10, <1>11, <1>12, <1>13,
       <1>14, <1>15, <1>16 DEF Next, Requests, Stream

LEMMA ExclusionImplied == ExclusionInv => HostExclusive
<1> SUFFICES ASSUME ExclusionInv, NEW h \in Hosts, NEW a \in Users(h), NEW b \in Users(h)
             PROVE  a = b
    BY DEF HostExclusive
<1>0. TypeOK /\ TicketInv /\ Holds /\ Terms /\ Works
    BY DEF ExclusionInv, TicketInv
<1>1. ASSUME NEW c \in term, HostOf[conn[c]] = h
      PROVE  conn[c] \in Shells /\ owner[conn[c]] = c /\ lock[h].holder = conn[c]
  <2>1. c \in Streams /\ pc[c] \in Holding
      BY <1>0 DEF Terms, TypeOK, Holding
  <2>2. Held(c)
      BY <1>0, <2>1 DEF Holds
  <2>3. conn[c] \in Shells /\ owner[conn[c]] = c
      BY <1>0, <2>1, ConsumedConnected DEF Consumed
  <2> QED
      BY <1>1, <2>2, <2>3 DEF Held
<1>2. ASSUME NEW r \in Runs, work[r] = h PROVE lock[h].holder = r
    BY <1>0, <1>2, WebShellAssumption DEF Works
<1> QED
    BY <1>1, <1>2, WebShellAssumption DEF Users

\* INV-12: with streams and runs that act in time, no host is ever used by two
\* terminals or by a terminal and a run, whichever database calls fail and whichever
\* process dies.
THEOREM ShellExclusion ==
  ASSUME Punctual PROVE Spec => []HostExclusive
<1>1. ExclusionInv /\ [Next]_vars => ExclusionInv'
    BY ExclusionStep
<1> QED
    BY <1>1, InitExclusion, ExclusionImplied, PTL DEF Spec
-----------------------------------------------------------------------------
(***************************************************************************)
(* Release.  A lock that a stream owns belongs to the session the stream   *)
(* owns, so deleting the row by owner deletes every lock of the stream.    *)
(***************************************************************************)

\* The owner of a session is the stream that is about it.
Tied ==
  \A s \in Shells : owner[s] # Nobody =>
    conn[owner[s]] = s /\ pc[owner[s]] \notin {"idle", "resolved"}

LockOwned ==
  \A h \in Hosts : lock[h].owner # Nobody =>
    /\ lock[h].holder \in Shells
    /\ state[lock[h].holder] \in Open
    /\ owner[lock[h].holder] = lock[h].owner

ReleaseInv == TicketInv /\ Terms /\ Tied /\ LockOwned /\ EndedReleased

LEMMA InitRelease == Init => ReleaseInv
BY InitTicket DEF Init, ReleaseInv, Terms, Tied, LockOwned, EndedReleased, Free

\* Steps that bring no new owner into a row or a lock.
LEMMA ReleaseKept ==
  ASSUME TicketInv, Terms', Tied, LockOwned, EndedReleased, UNCHANGED <<owner, conn>>,
         \A c \in Streams : pc'[c] \in {"idle", "resolved"} => pc[c] \in {"idle", "resolved"},
         \A c \in Streams : pc'[c] = "ended" => pc[c] = "ended",
         \A h \in Hosts : lock'[h].owner # Nobody =>
           /\ lock'[h].owner = lock[h].owner
           /\ lock'[h].holder = lock[h].holder
           /\ state[lock[h].holder] \in Open => state'[lock[h].holder] \in Open
  PROVE  Tied' /\ LockOwned' /\ EndedReleased'
<1>1. Tied'
  <2> SUFFICES ASSUME NEW s \in Shells, owner'[s] # Nobody
               PROVE  conn'[owner'[s]] = s /\ pc'[owner'[s]] \notin {"idle", "resolved"}
      BY DEF Tied
  <2>1. owner[s] \in Streams
      BY DEF TicketInv, TypeOK
  <2> QED
      BY <2>1 DEF Tied
<1>2. LockOwned'
    BY DEF LockOwned
<1>3. EndedReleased'
  <2> SUFFICES ASSUME NEW c \in Streams, pc'[c] = "ended"
               PROVE  c \notin term' /\ \A h \in Hosts : lock'[h].owner # c
      BY DEF EndedReleased
  <2>1. c \notin term'
      BY DEF Terms
  <2>2. c # Nobody /\ \A h \in Hosts : lock[h].owner # c
      BY WebShellAssumption DEF EndedReleased
  <2> QED
      BY <2>1, <2>2
<1> QED
    BY <1>1, <1>2, <1>3

LEMMA ReleaseStep == ReleaseInv /\ [Next]_vars => ReleaseInv'
<1> SUFFICES ASSUME ReleaseInv, [Next]_vars PROVE Tied' /\ LockOwned' /\ EndedReleased'
    BY TicketStep, TermsStep DEF ReleaseInv, TicketInv
<1>0. TypeOK /\ TicketInv /\ Terms' /\ Tied /\ LockOwned /\ EndedReleased
    BY TermsStep DEF ReleaseInv, TicketInv
<1> USE WebShellAssumption
<1>1. ASSUME NEW i \in Instances, NEW s \in Shells, NEW l \in Logins, create(i, s, l)
      PROVE  Tied' /\ LockOwned' /\ EndedReleased'
  <2>1. ASSUME NEW h \in Hosts, lock'[h].owner # Nobody
        PROVE  /\ lock'[h].owner = lock[h].owner
               /\ lock'[h].holder = lock[h].holder
               /\ state[lock[h].holder] \in Open => state'[lock[h].holder] \in Open
    <3>1. h # HostOf[s] /\ lock'[h] = lock[h] /\ lock[h].holder \notin Expired
        BY <1>0, <1>1, <2>1 DEF create, Cascade, Free, TypeOK
    <3>2. lock[h].holder \in Shells /\ state[lock[h].holder] \in Open
        BY <1>0, <2>1, <3>1 DEF LockOwned
    <3> QED
        BY <1>0, <1>1, <3>1, <3>2 DEF create, Deleted, Open
  <2> QED
      BY <1>0, <1>1, <2>1, ReleaseKept DEF create, streams
<1>2. ASSUME NEW i \in Instances, NEW s \in Shells, NEW l \in Logins, request_close(i, s, l)
      PROVE  Tied' /\ LockOwned' /\ EndedReleased'
  <2>1. ASSUME NEW h \in Hosts, lock'[h].owner # Nobody
        PROVE  /\ lock'[h].owner = lock[h].owner
               /\ lock'[h].holder = lock[h].holder
               /\ state[lock[h].holder] \in Open => state'[lock[h].holder] \in Open
    <3>1. lock'[h] = lock[h]
        BY <1>0, <1>2, <2>1 DEF request_close, Cascade, Free
    <3>2. lock[h].holder \in Shells /\ state[lock[h].holder] \in Open
        BY <1>0, <2>1, <3>1 DEF LockOwned
    <3> QED
        BY <1>0, <1>2, <3>1, <3>2 DEF request_close, Deleted, Open, TypeOK
  <2> QED
      BY <1>0, <1>2, <2>1, ReleaseKept DEF request_close, streams
<1>3. ASSUME NEW i \in Instances, NEW s \in Shells, close_active(i, s)
      PROVE  Tied' /\ LockOwned' /\ EndedReleased'
    BY <1>0, <1>3, ReleaseKept DEF close_active, rows
<1>4. ASSUME NEW l \in Logins, Revoke(l) PROVE Tied' /\ LockOwned' /\ EndedReleased'
    BY <1>0, <1>4, ReleaseKept DEF Revoke, rows, streams
<1>5. ASSUME NEW c \in Streams, NEW s \in Shells, NEW l \in Logins, Connect(c, s, l)
      PROVE  Tied' /\ LockOwned' /\ EndedReleased'
  <2>1. \A d \in Streams : d # c => pc'[d] = pc[d] /\ conn'[d] = conn[d]
      BY <1>0, <1>5 DEF Connect, GoTo, TypeOK
  <2>2. pc[c] = "idle" /\ pc'[c] = "resolved" /\ UNCHANGED <<state, owner, lock, term>>
      BY <1>0, <1>5 DEF Connect, GoTo, TypeOK, rows
  <2>3. Tied'
    <3> SUFFICES ASSUME NEW t \in Shells, owner'[t] # Nobody
                 PROVE  conn'[owner'[t]] = t /\ pc'[owner'[t]] \notin {"idle", "resolved"}
        BY DEF Tied
    <3>1. owner[t] \in Streams /\ owner[t] # c
        BY <1>0, <2>2 DEF Tied, TypeOK
    <3> QED
        BY <1>0, <2>1, <2>2, <3>1 DEF Tied
  <2>4. LockOwned' /\ EndedReleased'
      BY <1>0, <2>1, <2>2 DEF LockOwned, EndedReleased
  <2> QED
      BY <2>3, <2>4
<1>6. ASSUME NEW c \in Streams, claim(c) PROVE Tied' /\ LockOwned' /\ EndedReleased'
  <2> DEFINE s == conn[c]
  <2>1. /\ s \in Shells /\ HostOf[s] \in Hosts /\ state[s] = "PENDING" /\ owner[s] = Nobody
        /\ pc[c] = "resolved"
      BY <1>0, <1>6 DEF claim, Claimable, TypeOK, TicketInv, Unowned
  <2>2. /\ owner' = [owner EXCEPT ![s] = c] /\ state' = [state EXCEPT ![s] = "ACTIVE"]
        /\ lock' = [lock EXCEPT ![HostOf[s]] = [holder |-> s, owner |-> c, left |-> Lease]]
        /\ pc' = [pc EXCEPT ![c] = "starting"] /\ conn' = conn
      BY <1>6 DEF claim, GoTo
  <2>3. Tied'
    <3> SUFFICES ASSUME NEW t \in Shells, owner'[t] # Nobody
                 PROVE  conn'[owner'[t]] = t /\ pc'[owner'[t]] \notin {"idle", "resolved"}
        BY DEF Tied
    <3>1. CASE t = s
        BY <1>0, <2>1, <2>2, <3>1 DEF TypeOK
    <3>2. CASE t # s
      <4>1. owner'[t] = owner[t] /\ owner[t] \in Streams /\ owner[t] # c
          BY <1>0, <2>1, <2>2, <3>2 DEF Tied, TypeOK
      <4> QED
          BY <1>0, <2>2, <4>1 DEF Tied, TypeOK
    <3> QED
        BY <3>1, <3>2
  <2>4. LockOwned'
    <3> SUFFICES ASSUME NEW h \in Hosts, lock'[h].owner # Nobody
                 PROVE  /\ lock'[h].holder \in Shells
                        /\ state'[lock'[h].holder] \in Open
                        /\ owner'[lock'[h].holder] = lock'[h].owner
        BY DEF LockOwned
    <3>1. CASE h = HostOf[s]
        BY <1>0, <2>1, <2>2, <3>1 DEF TypeOK, Open
    <3>2. CASE h # HostOf[s]
      <4>1. lock'[h] = lock[h]
          BY <1>0, <2>2, <3>2 DEF TypeOK
      <4>2. lock[h].holder \in Shells /\ lock[h].holder # s
          BY <1>0, <2>1, <4>1 DEF LockOwned, Open
      <4> QED
          BY <1>0, <2>2, <4>1, <4>2 DEF LockOwned, TypeOK
    <3> QED
        BY <3>1, <3>2
  <2>5. EndedReleased'
    <3> SUFFICES ASSUME NEW d \in Streams, pc'[d] = "ended"
                 PROVE  d \notin term' /\ \A h \in Hosts : lock'[h].owner # d
        BY DEF EndedReleased
    <3>1. d # c /\ pc[d] = "ended"
        BY <1>0, <2>2 DEF TypeOK
    <3> QED
        BY <1>0, <1>6, <2>2, <3>1 DEF EndedReleased, TypeOK, claim
  <2> QED
      BY <2>3, <2>4, <2>5
<1>7. ASSUME NEW c \in Streams,
             ClaimRefused(c) \/ EndRefused(c) \/ start(c) \/ StartFailed(c) \/ Register(c)
               \/ Leave(c) \/ close(c) \/ FinishFailed(c)
      PROVE  Tied' /\ LockOwned' /\ EndedReleased'
  <2>1. UNCHANGED <<state, owner, lock, conn>>
      BY <1>7 DEF ClaimRefused, EndRefused, start, StartFailed, Register, Leave, close,
         FinishFailed, rows
  <2>2. \A d \in Streams : pc'[d] \in {"idle", "resolved"} => pc[d] \in {"idle", "resolved"}
      BY <1>0, <1>7 DEF ClaimRefused, EndRefused, start, StartFailed, Register, Leave,
         close, FinishFailed, GoTo, TypeOK
  <2>3. \A d \in Streams : pc'[d] = "ended" => pc[d] = "ended"
      BY <1>0, <1>7 DEF ClaimRefused, EndRefused, start, StartFailed, Register, Leave,
         close, FinishFailed, GoTo, TypeOK
  <2> QED
      BY <1>0, <2>1, <2>2, <2>3, ReleaseKept
<1>8. ASSUME NEW c \in Streams, heartbeat(c) PROVE Tied' /\ LockOwned' /\ EndedReleased'
  <2>1. \A h \in Hosts : lock'[h].owner = lock[h].owner /\ lock'[h].holder = lock[h].holder
      BY <1>0, <1>8 DEF heartbeat, TypeOK, LockRow
  <2>2. \A d \in Streams : pc'[d] \in {"idle", "resolved"} => pc[d] \in {"idle", "resolved"}
      BY <1>0, <1>8 DEF heartbeat, GoTo, TypeOK
  <2>3. \A d \in Streams : pc'[d] = "ended" => pc[d] = "ended"
      BY <1>0, <1>8 DEF heartbeat, GoTo, TypeOK
  <2> QED
      BY <1>0, <1>8, <2>1, <2>2, <2>3, ReleaseKept DEF heartbeat
<1>9. ASSUME NEW c \in Streams, finish(c) PROVE Tied' /\ LockOwned' /\ EndedReleased'
  <2>1. conn[c] \in Shells /\ pc[c] = "finishing" /\ pc' = [pc EXCEPT ![c] = "ended"]
      BY <1>0, <1>9 DEF finish, GoTo, TypeOK
  <2>2. ASSUME NEW h \in Hosts, lock'[h].owner # Nobody
        PROVE  /\ lock'[h] = lock[h] /\ lock[h].holder \in Shells /\ lock[h].owner # c
               /\ state'[lock[h].holder] = state[lock[h].holder]
    <3>1. lock'[h] = lock[h] /\ lock[h].holder \notin Mine(c)
        BY <1>9, <2>2 DEF finish, Cascade, Free
    <3>2. /\ lock[h].holder \in Shells /\ state[lock[h].holder] \in Open
          /\ owner[lock[h].holder] = lock[h].owner
        BY <1>0, <2>2, <3>1 DEF LockOwned
    <3>3. lock[h].owner # c
        BY <1>0, <2>2, <3>1, <3>2 DEF Tied, Mine
    <3> QED
        BY <1>9, <3>1, <3>2, <3>3 DEF finish, Deleted
  <2>3. Tied'
      BY <1>0, <1>9, <2>1 DEF Tied, TypeOK, finish
  <2>4. LockOwned'
      BY <1>0, <1>9, <2>2 DEF LockOwned, finish
  <2>5. EndedReleased'
    <3> SUFFICES ASSUME NEW d \in Streams, pc'[d] = "ended"
                 PROVE  d \notin term' /\ \A h \in Hosts : lock'[h].owner # d
        BY DEF EndedReleased
    <3>1. d \notin term'
        BY <1>0 DEF Terms
    <3>2. CASE d = c
        BY <2>2, <3>1, <3>2
    <3>3. CASE d # c
        BY <1>0, <2>1, <2>2, <3>1, <3>3 DEF EndedReleased, TypeOK
    <3> QED
        BY <3>2, <3>3
  <2> QED
      BY <2>3, <2>4, <2>5
<1>10. ASSUME NEW i \in Instances, StartApi(i) PROVE Tied' /\ LockOwned' /\ EndedReleased'
  <2>1. ASSUME NEW h \in Hosts, lock'[h].owner # Nobody
        PROVE  /\ lock'[h] = lock[h]
               /\ state[lock[h].holder] \in Open => state'[lock[h].holder] \in Open
    <3>1. lock'[h] = lock[h] /\ lock[h].holder \notin Expired
        BY <1>10, <2>1 DEF StartApi, Cascade, Free
    <3>2. lock[h].holder \in Shells
        BY <1>0, <2>1, <3>1 DEF LockOwned
    <3> QED
        BY <1>10, <3>1, <3>2 DEF StartApi, Deleted
  <2> QED
      BY <1>0, <1>10, <2>1, ReleaseKept DEF StartApi, streams
<1>11. ASSUME NEW i \in Instances, stop(i) PROVE Tied' /\ LockOwned' /\ EndedReleased'
    BY <1>0, <1>11, ReleaseKept DEF stop, rows
<1>12. ASSUME NEW i \in Instances, Exit(i) PROVE Tied' /\ LockOwned' /\ EndedReleased'
    BY <1>0, <1>12, ReleaseKept DEF Exit, rows
<1>13. ASSUME NEW r \in Runs, RunSteps(r) PROVE Tied' /\ LockOwned' /\ EndedReleased'
  <2>1. ASSUME NEW h \in Hosts, lock'[h].owner # Nobody
        PROVE  lock'[h].owner = lock[h].owner /\ lock'[h].holder = lock[h].holder
      BY <1>0, <1>13, <2>1 DEF RunSteps, RunBeats, RunEnds, RunClaims, Cascade, Free, TypeOK,
         LockRow
  <2> QED
      BY <1>0, <1>13, <2>1, ReleaseKept DEF RunSteps, RunBeats, RunEnds, RunClaims, rows, streams
<1>14. CASE DeleteLapsed
    BY <1>0, <1>14, ReleaseKept DEF DeleteLapsed, rows, streams, Free
<1>15. CASE Tick
  <2>1. \A h \in Hosts : lock'[h].owner = lock[h].owner /\ lock'[h].holder = lock[h].holder
      BY <1>0, <1>15 DEF Tick, TypeOK, LockRow
  <2> QED
      BY <1>0, <1>15, <2>1, ReleaseKept DEF Tick, streams
<1>16. CASE UNCHANGED vars
    BY <1>0, <1>16, ReleaseKept DEF vars
<1> QED
    BY <1>1, <1>2, <1>3, <1>4, <1>5, <1>6, <1>7, <1>8, <1>9, <1>10, <1>11, <1>12, <1>13,
       <1>14, <1>15, <1>16 DEF Next, Requests, Stream

\* INV-21 without any assumption on timing or failures: once finish is committed, the
\* stream's SSH client is gone and no lock of any host names the stream.
THEOREM Release == Spec => []EndedReleased
<1>1. ReleaseInv => EndedReleased
    BY DEF ReleaseInv
<1> QED
    BY <1>1, InitRelease, ReleaseStep, PTL DEF Spec
-----------------------------------------------------------------------------
(***************************************************************************)
(* Admission.  Every session that does not count as live is deleted in the *)
(* transaction that admits the next, so the rows themselves stay bounded.  *)
(***************************************************************************)

Sessions == {s \in Shells : state[s] \in Live}

AdmissionInv == TypeOK /\ Admission

LEMMA InitAdmission == Init => AdmissionInv
<1> SUFFICES ASSUME Init PROVE Admission
    BY InitTyped DEF AdmissionInv
<1>1. Sessions = {}
    BY DEF Init, Sessions, Live, Open
<1> QED
    BY <1>1, FS_EmptySet, WebShellAssumption DEF Admission, Sessions

\* Steps that create no row.
LEMMA AdmissionKept ==
  ASSUME Admission, \A s \in Shells : state'[s] \in Live => state[s] \in Live
  PROVE  Admission'
<1>1. Sessions' \subseteq Sessions
    BY DEF Sessions
<1>2. IsFiniteSet(Sessions)
    BY FS_Subset, WebShellAssumption DEF Sessions
<1>3. Cardinality(Sessions') <= Cardinality(Sessions)
    BY <1>1, <1>2, FS_Subset
<1>4. Cardinality(Sessions) \in Nat /\ Cardinality(Sessions') \in Nat
    BY <1>1, <1>2, FS_Subset, FS_CardinalityType
<1> QED
    BY <1>3, <1>4, WebShellAssumption DEF Admission, Sessions

LEMMA AdmissionStep == AdmissionInv /\ [Next]_vars => AdmissionInv'
<1> SUFFICES ASSUME AdmissionInv, [Next]_vars PROVE Admission'
    BY TypeStep DEF AdmissionInv
<1>0. TypeOK /\ Admission
    BY DEF AdmissionInv
<1>1. ASSUME NEW i \in Instances, NEW s \in Shells, NEW l \in Logins, create(i, s, l)
      PROVE  Admission'
  <2> DEFINE kept == {t \in Shells : state[t] \in Live /\ left[t] > 0}
  <2>1. Sessions' = kept \union {s}
    <3>1. s \notin Expired
        BY <1>1 DEF create, Expired, Live, Open
    <3>2. \A t \in Shells : state'[t] = IF t = s THEN "PENDING"
                                     ELSE IF t \in Expired THEN "GONE" ELSE state[t]
        BY <1>1 DEF create, Deleted
    <3> QED
        BY <1>0, <3>1, <3>2 DEF Sessions, Expired, Live, Open, TypeOK
  <2>2. IsFiniteSet(kept) /\ s \notin kept
      BY <1>1, FS_Subset, WebShellAssumption DEF create, Live, Open
  <2>3. Cardinality(kept) \in Nat /\ Cardinality(kept \union {s}) = Cardinality(kept) + 1
      BY <2>2, FS_CardinalityType, FS_AddElement
  <2>4. Cardinality(kept) < MaxSessions
      BY <1>1 DEF create, count_live
  <2>5. Cardinality(kept \union {s}) <= MaxSessions
    <3> HIDE DEF kept
    <3> QED
        BY <2>3, <2>4, WebShellAssumption
  <2> QED
      BY <2>1, <2>5 DEF Admission, Sessions
<1>2. ASSUME NEW i \in Instances, NEW s \in Shells, NEW l \in Logins, request_close(i, s, l)
      PROVE  Admission'
    BY <1>0, <1>2, AdmissionKept DEF request_close, Deleted, Live, TypeOK
<1>3. ASSUME NEW i \in Instances, StartApi(i) PROVE Admission'
    BY <1>0, <1>3, AdmissionKept DEF StartApi, Deleted, Live, Open
<1>4. ASSUME NEW c \in Streams, claim(c) PROVE Admission'
    BY <1>0, <1>4, AdmissionKept DEF claim, Claimable, Live, TypeOK
<1>5. ASSUME NEW c \in Streams, finish(c) PROVE Admission'
    BY <1>0, <1>5, AdmissionKept DEF finish, Deleted, Live, Open
<1>6. CASE UNCHANGED state
    BY <1>0, <1>6, AdmissionKept
<1>7. ASSUME NEW c \in Streams,
             ClaimRefused(c) \/ EndRefused(c) \/ start(c) \/ StartFailed(c) \/ Register(c)
               \/ close(c) \/ heartbeat(c) \/ Leave(c) \/ FinishFailed(c)
               \/ \E s \in Shells, l \in Logins : Connect(c, s, l)
      PROVE  UNCHANGED state
    BY <1>7 DEF ClaimRefused, EndRefused, start, StartFailed, Register, close, heartbeat,
       Leave, FinishFailed, Connect, rows
<1>8. ASSUME NEW i \in Instances, (\E s \in Shells : close_active(i, s)) \/ stop(i) \/ Exit(i)
      PROVE  UNCHANGED state
    BY <1>8 DEF close_active, stop, Exit, rows
<1>9. (\E l \in Logins : Revoke(l)) \/ (\E r \in Runs : RunSteps(r)) \/ DeleteLapsed \/ Tick
        \/ UNCHANGED vars => UNCHANGED state
    BY DEF Revoke, RunSteps, RunBeats, RunEnds, RunClaims, DeleteLapsed, Tick, vars, rows
<1> QED
    BY <1>1, <1>2, <1>3, <1>4, <1>5, <1>6, <1>7, <1>8, <1>9 DEF Next, Requests, Stream

\* The capacity check of create admits at most web_shell_max_sessions rows, for any
\* number of requests, stalls and late heartbeats.
THEOREM Admitted == Spec => []Admission
<1>1. AdmissionInv => Admission
    BY DEF AdmissionInv
<1> QED
    BY <1>1, InitAdmission, AdmissionStep, PTL DEF Spec
-----------------------------------------------------------------------------
(***************************************************************************)
(* The locks of the hosts.                                                 *)
(***************************************************************************)

\* A lock that has not lapsed is kept, or released.
LocksKept ==
  \A h \in Hosts : lock[h].left > 0 /\ lock'[h].holder # lock[h].holder => lock'[h] = Free

\* Only an insertion gives a host a new holder, and it finds the host free or lapsed; rows
\* that go release their locks, heartbeats and the ticket's claim extend the holder's own.
LEMMA LockStep ==
  ASSUME TypeOK, [Next]_vars
  PROVE  LocksKept
<1>0. lock \in [Hosts -> LockRow] /\ HostOf \in [Shells -> Hosts]
    BY WebShellAssumption DEF TypeOK
<1>1. ASSUME \A h \in Hosts : lock'[h].holder = lock[h].holder \/ lock'[h] = Free
      PROVE  LocksKept
    BY <1>1 DEF LocksKept
<1>2. ASSUME NEW gone, lock' = Cascade(gone) PROVE LocksKept
    BY <1>2 DEF Cascade, LocksKept
<1>3. ASSUME NEW i \in Instances, NEW s \in Shells, NEW l \in Logins, create(i, s, l)
      PROVE  LocksKept
    <2>1. PICK g \in Hosts : g = HostOf[s]
        BY <1>0
    <2>2. /\ lock[g].left = 0
          /\ lock' = [Cascade(Expired) EXCEPT
                        ![g] = [holder |-> s, owner |-> Nobody, left |-> Lease]]
        BY <1>3, <2>1 DEF create, FreeHost
    <2> QED
        BY <2>2 DEF Cascade, LocksKept
<1>4. ASSUME NEW i \in Instances, NEW s \in Shells, NEW l \in Logins, request_close(i, s, l)
      PROVE  LocksKept
    BY <1>1, <1>2, <1>4 DEF request_close
<1>5. ASSUME NEW c \in Streams, claim(c) PROVE LocksKept
    <2>1. lock[HostOf[conn[c]]].holder = conn[c]
        BY <1>5 DEF claim, Claimable
    <2>2. lock' = [lock EXCEPT ![HostOf[conn[c]]] =
                     [holder |-> conn[c], owner |-> c, left |-> Lease]]
        BY <1>5 DEF claim
    <2> QED
        BY <1>0, <1>1, <2>1, <2>2
<1>6. ASSUME NEW c \in Streams, heartbeat(c) PROVE LocksKept
    <2>1. \/ lock' = lock
          \/ lock' = [lock EXCEPT ![HostOf[conn[c]]].left = Lease]
        BY <1>6 DEF heartbeat
    <2> QED
        BY <1>0, <1>1, <2>1 DEF LockRow
<1>7. ASSUME NEW c \in Streams, finish(c) PROVE LocksKept
    BY <1>2, <1>7 DEF finish
<1>8. ASSUME NEW i \in Instances, StartApi(i) PROVE LocksKept
    BY <1>2, <1>8 DEF StartApi
<1>9. ASSUME NEW r \in Runs, NEW h \in Hosts, RunClaims(r, h) PROVE LocksKept
    BY <1>0, <1>9 DEF RunClaims, LocksKept
<1>10. ASSUME NEW r \in Runs, RunBeats(r) PROVE LocksKept
    BY <1>0, <1>1, <1>10 DEF RunBeats, LockRow
<1>11. ASSUME NEW r \in Runs, RunEnds(r) PROVE LocksKept
    BY <1>1, <1>2, <1>11 DEF RunEnds
<1>12. ASSUME DeleteLapsed PROVE LocksKept
    BY <1>1, <1>12 DEF DeleteLapsed
<1>13. ASSUME Tick PROVE LocksKept
    BY <1>0, <1>1, <1>13 DEF Tick, LockRow
<1>14. ASSUME NEW c \in Streams,
              ClaimRefused(c) \/ EndRefused(c) \/ start(c) \/ StartFailed(c) \/ Register(c)
                \/ close(c) \/ Leave(c) \/ FinishFailed(c)
                \/ \E s \in Shells, l \in Logins : Connect(c, s, l)
       PROVE  lock' = lock
    BY <1>14 DEF ClaimRefused, EndRefused, start, StartFailed, Register, close, Leave,
       FinishFailed, Connect
<1>15. ASSUME \/ \E i \in Instances : \/ \E s \in Shells : close_active(i, s)
                                      \/ stop(i) \/ Exit(i)
              \/ \E l \in Logins : Revoke(l)
              \/ UNCHANGED vars
       PROVE  lock' = lock
    BY <1>15 DEF close_active, stop, Exit, Revoke, vars
<1> QED
    BY <1>1, <1>3, <1>4, <1>5, <1>6, <1>7, <1>8, <1>9, <1>10, <1>11, <1>12, <1>13, <1>14, <1>15
       DEF Next, Requests, Stream, RunSteps

\* INV-12: whoever holds a host under a lease that runs keeps it until the lock is
\* deleted, whatever tickets, claims, heartbeats, cleanups and recoveries race for it.
THEOREM LocksHonoured == Spec => ActiveLockKept
<1>1. TypeOK /\ [Next]_vars =>
        [\A h \in Hosts : lock[h].left > 0 /\ lock'[h].holder # lock[h].holder
                             => lock'[h] = Free]_vars
    BY LockStep DEF LocksKept
<1> QED
    BY InitTyped, TypeStep, <1>1, PTL DEF Spec, ActiveLockKept
=============================================================================
