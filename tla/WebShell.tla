------------------------------ MODULE WebShell ------------------------------
(***************************************************************************)
(* Interactive terminals: WebShellService, its repository and the          *)
(* WebShellManager of every API process.                                   *)
(*                                                                         *)
(* A session row is created with a ticket and takes the lock of its host.  *)
(* A WebSocket stream claims the ticket, starts an SSH client on a PTY,    *)
(* renews lease and lock while it serves, and deletes the row when it      *)
(* ends; the foreign key of the lock deletes the lock with it.  Runs take  *)
(* the same locks; here they are an environment that does what the claim,  *)
(* heartbeat, finish and recovery of RunExecution do to one host.          *)
(*                                                                         *)
(* One unit of work is one transaction and one step.  Requests that are    *)
(* refused roll back and change nothing.  Time is relative, as in          *)
(* RunExecution, and a transaction takes less than a tick.                 *)
(***************************************************************************)
EXTENDS Naturals, FiniteSets

CONSTANTS
  Shells,       \* web_shell_session_ids
  Hosts,        \* managed hosts
  Runs,         \* runs that may hold a host
  Streams,      \* WebSocket connections; a stream's owner_id is fresh
  Logins,       \* auth sessions of users with the permission WEB_SHELL
  Instances,    \* API processes
  Nobody,       \* SQL NULL
  HostOf,       \* the host each session is for
  UserOf,       \* the user of each auth session
  Home,         \* the API process each stream is connected to
  MaxSessions,  \* web_shell_max_sessions
  Lease,        \* ticket and lease seconds (both 30), in ticks
  Punctual,     \* streams and runs act again before their lease lapses
  Faults        \* a database call of a stream may fail

ASSUME WebShellAssumption ==
  /\ IsFiniteSet(Shells)
  /\ HostOf \in [Shells -> Hosts]
  /\ Home \in [Streams -> Instances]
  /\ MaxSessions \in Nat \ {0}
  /\ Lease \in Nat \ {0}
  /\ Punctual \in BOOLEAN
  /\ Faults \in BOOLEAN
  /\ Nobody \notin Shells \union Hosts \union Runs \union Streams \union Logins
  /\ Runs \intersect Shells = {}

VARIABLES
  state,   \* web_shell_sessions.state; "NONE" before, "GONE" after the row
  login,   \* auth_session_id
  owner,   \* owner_id
  left,    \* time left of ticket_expires_at, then of lease_expires_at
  lock,    \* host_execution_locks: holder, owner_id, time left
  valid,   \* the auth sessions that exist, unexpired, of ACTIVE users
  up,      \* the life of each API process
  pc,      \* where each stream is
  conn,    \* the session a stream is about
  who,     \* the principal a stream was resolved to
  term,    \* the streams whose SSH client is alive
  active,  \* the streams in the dictionary _active of their process
  asked,   \* <<process, session>>: requests between commit and _active
  work     \* the host each run is working on

rows    == <<state, login, owner, left>>
streams == <<pc, conn, who, term, active>>
vars    == <<state, login, owner, left, lock, valid, up, pc, conn, who, term, active,
             asked, work>>

Open  == {"ACTIVE", "CLOSE_REQUESTED"}
Live  == {"PENDING"} \union Open
\* The ticket was consumed by this stream.
Holding == {"starting", "started", "serving", "closing", "finishing"}
\* stream() is running.
Running == {"resolved", "refused"} \union Holding

Free == [holder |-> Nobody, owner |-> Nobody, left |-> 0]

\* Deleting rows deletes their locks (ON DELETE CASCADE).
Cascade(gone) == [h \in Hosts |-> IF lock[h].holder \in gone THEN Free ELSE lock[h]]

\* cleanup_expired: lapsed tickets and lapsed leases.
Expired == {s \in Shells : state[s] \in Live /\ left[s] = 0}

Deleted(gone) == [s \in Shells |-> IF s \in gone THEN "GONE" ELSE state[s]]

GoTo(c, p) == pc' = [pc EXCEPT ![c] = p]
-----------------------------------------------------------------------------
(***************************************************************************)
(* Requests.                                                               *)
(***************************************************************************)

\* Mutant: count_live counts the connected sessions only.
CountOpen == Cardinality({s \in Shells : state[s] \in Open /\ left[s] > 0})

count_live == Cardinality({s \in Shells : state[s] \in Live /\ left[s] > 0})

\* Mutant: the upsert of the lock lacks its condition on expires_at.
FreeAnyway(h) == h \in Hosts

\* acquire_host_lock: INSERT ... ON CONFLICT DO UPDATE ... WHERE expires_at <= now.
FreeHost(h) == lock[h].left = 0

\* Mutant: the row is inserted without its auth session.
create_unbound(i, s, l) ==
  LET h == HostOf[s] IN
  /\ up[i] = "up"
  /\ l \in valid
  /\ state[s] = "NONE"
  /\ count_live < MaxSessions
  /\ FreeHost(h)
  /\ state' = [Deleted(Expired) EXCEPT ![s] = "PENDING"]
  /\ left' = [left EXCEPT ![s] = Lease]
  /\ lock' = [Cascade(Expired) EXCEPT ![h] = [holder |-> s, owner |-> Nobody, left |-> Lease]]
  /\ UNCHANGED <<login, owner, valid, up, streams, asked, work>>

\* Under the admission lock: cleanup, capacity, the row and the host's lock.
create(i, s, l) ==
  LET h == HostOf[s] IN
  /\ up[i] = "up"
  /\ l \in valid
  /\ state[s] = "NONE"
  /\ count_live < MaxSessions
  /\ FreeHost(h)
  /\ state' = [Deleted(Expired) EXCEPT ![s] = "PENDING"]
  /\ login' = [login EXCEPT ![s] = l]
  /\ left' = [left EXCEPT ![s] = Lease]
  /\ lock' = [Cascade(Expired) EXCEPT ![h] = [holder |-> s, owner |-> Nobody, left |-> Lease]]
  /\ UNCHANGED <<owner, valid, up, streams, asked, work>>

\* The transaction of request_close, by a login of the user who created s.  The row
\* may be gone while a stalled stream still serves s.
request_close(i, s, l) ==
  /\ up[i] = "up"
  /\ l \in valid
  /\ state[s] # "NONE" /\ UserOf[l] = UserOf[login[s]]
  /\ \/ /\ state[s] = "PENDING"
        /\ state' = Deleted({s})
        /\ lock' = Cascade({s})
     \/ /\ state[s] \in Open
        /\ state' = [state EXCEPT ![s] = "CLOSE_REQUESTED"]
        /\ UNCHANGED lock
     \/ state[s] = "GONE" /\ UNCHANGED <<state, lock>>
  /\ asked' = asked \union {<<i, s>>}
  /\ UNCHANGED <<login, owner, left, valid, up, streams, work>>

\* The streams a process finds in its dictionary _active.
Registered(i) == {c \in active : Home[c] = i}

\* The rest of WebShellManager.request_close: the terminal, if it is served here.
close_active(i, s) ==
  /\ <<i, s>> \in asked
  /\ asked' = asked \ {<<i, s>>}
  /\ term' = term \ {c \in Registered(i) : conn[c] = s}
  /\ UNCHANGED <<rows, lock, valid, up, pc, conn, who, active, work>>

\* Logout, expiry, or the user is disabled.
Revoke(l) ==
  /\ l \in valid
  /\ valid' = valid \ {l}
  /\ UNCHANGED <<rows, lock, up, streams, asked, work>>
-----------------------------------------------------------------------------
(***************************************************************************)
(* WebShellManager.stream.                                                 *)
(***************************************************************************)

\* stream_web_shell: the cookie is resolved before the ticket is looked at.
Connect(c, s, l) ==
  /\ pc[c] = "idle"
  /\ up[Home[c]] = "up"
  /\ l \in valid
  /\ state[s] # "NONE"
  /\ GoTo(c, "resolved")
  /\ conn' = [conn EXCEPT ![c] = s]
  /\ who' = [who EXCEPT ![c] = l]
  /\ UNCHANGED <<rows, lock, valid, up, term, active, asked, work>>

\* Mutant: the state of the session is not checked.
UnexpiredTicket(c, s) ==
  /\ login[s] = who[c]
  /\ left[s] > 0
  /\ who[c] \in valid
  /\ lock[HostOf[s]].holder = s /\ lock[HostOf[s]].left > 0

\* claim and activate: the ticket, its login, and the lock it was given.
Claimable(c, s) ==
  /\ state[s] = "PENDING"
  /\ login[s] = who[c]
  /\ left[s] > 0
  /\ who[c] \in valid
  /\ lock[HostOf[s]].holder = s /\ lock[HostOf[s]].left > 0

claim(c) ==
  LET s == conn[c] IN
  /\ pc[c] = "resolved"
  /\ Claimable(c, s)
  /\ state' = [state EXCEPT ![s] = "ACTIVE"]
  /\ owner' = [owner EXCEPT ![s] = c]
  /\ left' = [left EXCEPT ![s] = Lease]
  /\ lock' = [lock EXCEPT ![HostOf[s]] = [holder |-> s, owner |-> c, left |-> Lease]]
  /\ GoTo(c, "starting")
  /\ UNCHANGED <<login, valid, up, conn, who, term, active, asked, work>>

\* claim raises: a bad ticket, no usable credential or host key, or the database.
ClaimRefused(c) ==
  /\ pc[c] = "resolved"
  /\ GoTo(c, "refused")
  /\ UNCHANGED <<rows, lock, valid, up, conn, who, term, active, asked, work>>

\* _active.pop of the finally block: by session, whichever stream is registered.
Popped(c) == {d \in Registered(Home[c]) : conn[d] = conn[c]}

\* A refused stream runs the finally block too, and its pop may hit the stream that
\* has won the ticket.
EndRefused(c) ==
  /\ pc[c] = "refused"
  /\ active' = active \ Popped(c)
  /\ GoTo(c, "rejected")
  /\ UNCHANGED <<rows, lock, valid, up, conn, who, term, asked, work>>

\* SshTerminal.start.
start(c) ==
  /\ pc[c] = "starting"
  /\ GoTo(c, "started")
  /\ term' = term \union {c}
  /\ UNCHANGED <<rows, lock, valid, up, conn, who, active, asked, work>>

\* accept or SshTerminal.start raises; the latter leaves no process behind.
StartFailed(c) ==
  /\ pc[c] = "starting"
  /\ GoTo(c, "closing")
  /\ UNCHANGED <<rows, lock, valid, up, conn, who, term, active, asked, work>>

Register(c) ==
  /\ pc[c] = "started"
  /\ GoTo(c, "serving")
  /\ active' = active \union {c}
  /\ UNCHANGED <<rows, lock, valid, up, conn, who, term, asked, work>>

\* Mutant: a close request is not looked at.
RefreshableAnyway(c, s) ==
  state[s] \in Open /\ owner[s] = c /\ login[s] \in valid

\* Mutant: nor is the auth session.
RefreshableForever(c, s) == state[s] = "ACTIVE" /\ owner[s] = c

\* The WHERE clause of the first UPDATE of heartbeat.
Refreshable(c, s) == state[s] = "ACTIVE" /\ owner[s] = c /\ login[s] \in valid

\* The WHERE clause of the second.
LockRefreshable(c, s) == lock[HostOf[s]].holder = s /\ lock[HostOf[s]].owner = c

\* Mutant: the result does not depend on the lock.
heartbeat_session(c) ==
  LET s == conn[c]
      both == Refreshable(c, s) /\ LockRefreshable(c, s)
  IN
  /\ pc[c] = "serving"
  /\ left' = IF Refreshable(c, s) THEN [left EXCEPT ![s] = Lease] ELSE left
  /\ lock' = IF both THEN [lock EXCEPT ![HostOf[s]].left = Lease] ELSE lock
  /\ GoTo(c, IF Refreshable(c, s) THEN "serving" ELSE "closing")
  /\ UNCHANGED <<state, login, owner, valid, up, conn, who, term, active, asked, work>>

\* heartbeat: the session and, if it still is the stream's, its lock are extended;
\* unless both were, the monitor ends the stream.
heartbeat(c) ==
  LET s == conn[c]
      both == Refreshable(c, s) /\ LockRefreshable(c, s)
  IN
  /\ pc[c] = "serving"
  /\ left' = IF Refreshable(c, s) THEN [left EXCEPT ![s] = Lease] ELSE left
  /\ lock' = IF both THEN [lock EXCEPT ![HostOf[s]].left = Lease] ELSE lock
  /\ GoTo(c, IF both THEN "serving" ELSE "closing")
  /\ UNCHANGED <<state, login, owner, valid, up, conn, who, term, active, asked, work>>

\* One of the four tasks of _serve completes otherwise: the SSH client exits or was
\* closed, the browser leaves, a limit is reached, the process shuts down, or the
\* heartbeat raises.
Leave(c) ==
  /\ pc[c] = "serving"
  /\ GoTo(c, "closing")
  /\ UNCHANGED <<rows, lock, valid, up, conn, who, term, active, asked, work>>

\* The finally block: terminal.close, then out of _active ...
close(c) ==
  /\ pc[c] = "closing"
  /\ term' = term \ {c}
  /\ active' = active \ Popped(c)
  /\ GoTo(c, "finishing")
  /\ UNCHANGED <<rows, lock, valid, up, conn, who, asked, work>>

\* The row finish deletes, if it is still there.
Mine(c) == {s \in {conn[c]} : state[s] \in Open /\ owner[s] = c}

\* Mutant: finish runs before the terminal is closed.
FinishEarly(c) ==
  /\ pc[c] \in {"closing", "finishing"}
  /\ state' = Deleted(Mine(c))
  /\ lock' = Cascade(Mine(c))
  /\ GoTo(c, IF pc[c] = "closing" THEN "closing" ELSE "ended")
  /\ UNCHANGED <<login, owner, left, valid, up, conn, who, term, active, asked, work>>

\* Mutant: a session that was asked to close is not deleted.
FinishActive(c) ==
  LET gone == {s \in Mine(c) : state[s] = "ACTIVE"} IN
  /\ pc[c] = "finishing"
  /\ state' = Deleted(gone)
  /\ lock' = Cascade(gone)
  /\ GoTo(c, "ended")
  /\ UNCHANGED <<login, owner, left, valid, up, conn, who, term, active, asked, work>>

\* ... then finish: DELETE by owner_id.
finish(c) ==
  /\ pc[c] = "finishing"
  /\ state' = Deleted(Mine(c))
  /\ lock' = Cascade(Mine(c))
  /\ GoTo(c, "ended")
  /\ UNCHANGED <<login, owner, left, valid, up, conn, who, term, active, asked, work>>

\* finish raises, which is only logged: row and lock stay until they lapse.
FinishFailed(c) ==
  /\ Faults
  /\ pc[c] = "finishing"
  /\ GoTo(c, "lost")
  /\ UNCHANGED <<rows, lock, valid, up, conn, who, term, active, asked, work>>
-----------------------------------------------------------------------------
(***************************************************************************)
(* API processes.                                                          *)
(***************************************************************************)

\* WebShellManager.start: recover_stale.
StartApi(i) ==
  /\ up[i] = "down"
  /\ up' = [up EXCEPT ![i] = "up"]
  /\ state' = Deleted(Expired)
  /\ lock' = Cascade(Expired)
  /\ UNCHANGED <<login, owner, left, valid, streams, asked, work>>

\* WebShellManager.stop closes the terminals that are registered ...
stop(i) ==
  /\ up[i] = "up"
  /\ up' = [up EXCEPT ![i] = "stopping"]
  /\ term' = term \ Registered(i)
  /\ UNCHANGED <<rows, lock, valid, pc, conn, who, active, asked, work>>

\* ... and the process goes away with its streams, finished or not; a kill does the
\* same at any time.
Exit(i) ==
  /\ up[i] # "down"
  /\ up' = [up EXCEPT ![i] = "down"]
  /\ pc' = [c \in Streams |-> IF Home[c] = i /\ pc[c] \in Running THEN "dead" ELSE pc[c]]
  /\ term' = {c \in term : Home[c] # i}
  /\ active' = active \ Registered(i)
  /\ asked' = {a \in asked : a[1] # i}
  /\ UNCHANGED <<rows, lock, valid, conn, who, work>>
-----------------------------------------------------------------------------
(***************************************************************************)
(* Runs, as far as hosts see them, and time.                               *)
(***************************************************************************)

\* claim_next takes a free host for a run.
RunClaims(r, h) ==
  /\ work[r] = Nobody
  /\ \A g \in Hosts : lock[g].holder # r
  /\ lock[h].left = 0
  /\ lock' = [lock EXCEPT ![h] = [holder |-> r, owner |-> Nobody, left |-> Lease]]
  /\ work' = [work EXCEPT ![r] = h]
  /\ UNCHANGED <<rows, valid, up, streams, asked>>

\* The worker's heartbeat.
RunBeats(r) ==
  /\ work[r] # Nobody
  /\ lock' = [h \in Hosts |-> IF lock[h].holder = r THEN [lock[h] EXCEPT !.left = Lease]
                                ELSE lock[h]]
  /\ UNCHANGED <<rows, valid, up, streams, asked, work>>

\* The run is over and finish deletes its lock, or its worker dies and does not.
RunEnds(r) ==
  /\ work[r] # Nobody
  /\ work' = [work EXCEPT ![r] = Nobody]
  /\ lock' \in {Cascade({r}), lock}
  /\ UNCHANGED <<rows, valid, up, streams, asked>>

\* recover_stale of a starting worker deletes every lapsed lock, whoever held it.
DeleteLapsed ==
  /\ \E h \in Hosts : lock[h].left = 0 /\ lock[h] # Free
  /\ lock' = [h \in Hosts |-> IF lock[h].left = 0 THEN Free ELSE lock[h]]
  /\ UNCHANGED <<rows, valid, up, streams, asked, work>>

Tick ==
  /\ Punctual => /\ \A c \in Streams : pc[c] \in Holding => left[conn[c]] # 1
                 /\ \A r \in Runs : work[r] # Nobody => lock[work[r]].left # 1
  /\ \/ \E s \in Shells : state[s] \in Live /\ left[s] > 0
     \/ \E h \in Hosts : lock[h].left > 0
  /\ left' = [s \in Shells |-> IF left[s] > 0 THEN left[s] - 1 ELSE 0]
  /\ lock' = [h \in Hosts |-> [lock[h] EXCEPT !.left = IF @ > 0 THEN @ - 1 ELSE 0]]
  /\ UNCHANGED <<state, login, owner, valid, up, streams, asked, work>>
-----------------------------------------------------------------------------
Init ==
  /\ state = [s \in Shells |-> "NONE"]
  /\ login = [s \in Shells |-> Nobody]
  /\ owner = [s \in Shells |-> Nobody]
  /\ left = [s \in Shells |-> 0]
  /\ lock = [h \in Hosts |-> Free]
  /\ valid = Logins
  /\ up = [i \in Instances |-> "down"]
  /\ pc = [c \in Streams |-> "idle"]
  /\ conn = [c \in Streams |-> Nobody]
  /\ who = [c \in Streams |-> Nobody]
  /\ term = {}
  /\ active = {}
  /\ asked = {}
  /\ work = [r \in Runs |-> Nobody]

Requests(i) ==
  \E s \in Shells : \/ \E l \in Logins : create(i, s, l) \/ request_close(i, s, l)
                    \/ close_active(i, s)

\* What a stream does by itself once it runs.
Stream(c) ==
  \/ claim(c) \/ ClaimRefused(c) \/ EndRefused(c) \/ start(c) \/ StartFailed(c) \/ Register(c)
  \/ close(c) \/ finish(c)

RunSteps(r) == RunBeats(r) \/ RunEnds(r) \/ \E h \in Hosts : RunClaims(r, h)

Next ==
  \/ \E i \in Instances : Requests(i) \/ StartApi(i) \/ stop(i) \/ Exit(i)
  \/ \E l \in Logins : Revoke(l)
  \/ \E c \in Streams : \/ Stream(c) \/ heartbeat(c) \/ Leave(c) \/ FinishFailed(c)
                        \/ \E s \in Shells, l \in Logins : Connect(c, s, l)
  \/ \E r \in Runs : RunSteps(r)
  \/ DeleteLapsed
  \/ Tick

Spec == Init /\ [][Next]_vars

(***************************************************************************)
(* Fairness: the coroutines of a process that lives go on, and the monitor *)
(* beats.  Nobody has to close a terminal or to hang up.                   *)
(***************************************************************************)
FairSpec ==
  Spec /\ \A c \in Streams : WF_vars(Stream(c)) /\ WF_vars(heartbeat(c))
-----------------------------------------------------------------------------
(***************************************************************************)
(* Properties.                                                             *)
(***************************************************************************)

LockRow == [holder : Shells \union Runs \union {Nobody},
            owner  : Streams \union {Nobody},
            left   : 0..Lease]

\* Rows, locks and streams have their types; a stream that runs has a session, and a
\* row that was created has the login that created it (columns NOT NULL).
TypeOK ==
  /\ state \in [Shells -> Live \union {"NONE", "GONE"}]
  /\ login \in [Shells -> Logins \union {Nobody}]
  /\ owner \in [Shells -> Streams \union {Nobody}]
  /\ left \in [Shells -> 0..Lease]
  /\ lock \in [Hosts -> LockRow]
  /\ valid \in SUBSET Logins
  /\ up \in [Instances -> {"down", "up", "stopping"}]
  /\ pc \in [Streams -> Running \union {"idle", "rejected", "ended", "lost", "dead"}]
  /\ conn \in [Streams -> Shells \union {Nobody}]
  /\ who \in [Streams -> Logins \union {Nobody}]
  /\ \A c \in Streams : pc[c] # "idle" => conn[c] \in Shells /\ who[c] \in Logins
  /\ \A s \in Shells : state[s] # "NONE" => login[s] \in Logins
  /\ term \in SUBSET Streams
  /\ active \in SUBSET Streams
  /\ asked \in SUBSET (Instances \X Shells)
  /\ work \in [Runs -> Hosts \union {Nobody}]

\* Who works on a host: terminals and runs.
Users(h) == {c \in term : HostOf[conn[c]] = h} \union {r \in Runs : work[r] = h}

\* INV-12: a host is never used by two terminals, or by a terminal and a run, at
\* once; with punctual streams and runs, even if database calls fail.
HostExclusive == \A h \in Hosts : \A a, b \in Users(h) : a = b

\* INV-20: a ticket is consumed by at most one stream, and only by one of the login
\* that created it, however many connections race for it: whoever got it is, and
\* stays, the one owner of the session.
TicketOnce ==
  \A c \in Streams : pc[c] \in Holding \union {"ended", "lost"} =>
    owner[conn[c]] = c /\ who[c] = login[conn[c]]

\* No more sessions are admitted than web_shell_max_sessions, even when a lapsed
\* session comes back to life by a late heartbeat.
Admission == Cardinality({s \in Shells : state[s] \in Live}) <= MaxSessions

\* INV-21: a stream whose finish was committed leaves neither an SSH client nor a lock
\* behind, also when its lease had lapsed or somebody asked it to close.
EndedReleased ==
  \A c \in Streams : pc[c] = "ended" =>
    /\ c \notin term
    /\ \A h \in Hosts : lock[h].owner # c

\* A lock that has not lapsed changes hands only by being released.
ActiveLockKept ==
  [][\A h \in Hosts : lock[h].left > 0 /\ lock'[h].holder # lock[h].holder
                         => lock'[h] = Free]_vars

\* A close request ends the terminal, also when it comes before the stream is in
\* _active, or to another API process than the stream's.
CloseHonoured ==
  \A c \in Streams : c \in term /\ state[conn[c]] = "CLOSE_REQUESTED" ~> c \notin term

\* A terminal does not outlive the login it was opened under.
RevokedEnds == \A c \in Streams : c \in term /\ who[c] \notin valid ~> c \notin term

\* A stream that was stalled until its host went to another holder stops.
LoserStops ==
  \A c \in Streams : c \in term /\ lock[HostOf[conn[c]]].holder # conn[c] ~> c \notin term
=============================================================================
