------------------------------- MODULE Login --------------------------------
(***************************************************************************)
(* How one account is signed in to: password, TOTP factor, recovery codes, *)
(* challenges and sessions, while administrators change or reset the       *)
(* account and the TOTP policy is switched off and on.                     *)
(*                                                                         *)
(* A method that compares a code or a password reads first and writes      *)
(* later in its transaction; others may commit in between.  The writes of  *)
(* one transaction are one step.  Passwords are right or wrong; a wrong    *)
(* one and a rate limit only keep a call from starting.                    *)
(***************************************************************************)
EXTENDS Naturals, FiniteSets

CONSTANTS
  Calls,          \* requests in progress
  MaxSets,        \* bound on the sets of recovery codes ever generated
  MaxChallenges,  \* bound on the challenges ever issued
  MaxSessions,    \* bound on the sessions open at a time
  MaxStep         \* bound on the 30 second steps of the clock

ASSUME LoginAssumption ==
  /\ MaxSets \in Nat /\ MaxChallenges \in Nat
  /\ MaxSessions \in Nat /\ MaxStep \in Nat \ {0}

VARIABLES
  status,      \* users.status
  required,    \* users.role is one of MFA_REQUIRED_ROLES
  enroll,      \* users.mfa_enrollment_required
  factor,      \* the row of user_mfa_factors, if there is one; last 0 for NULL; a
               \* secret has the number of the challenge that was issued with it
  codes,       \* unused recovery codes: the number of the set they belong to
  sets,        \* sets of recovery codes generated so far
  challenges,  \* unconsumed, unexpired rows of auth_challenges
  issued,      \* challenges issued so far
  sessions,    \* the account's sessions; by is the challenge that verified it, or 0
  totp,        \* settings.totp_enabled
  now,         \* current TOTP step
  arg,         \* what each call has read; NoArg when idle
  spent,       \* what ever let a call through: challenges, recovery codes, and TOTP
               \* steps with the secret they were compared with
  reused       \* what let a second call through

account == <<status, required, enroll>>
mfa     == <<factor, codes, sets>>
grants  == <<challenges, issued, sessions>>
ledger  == <<spent, reused>>
vars    == <<account, mfa, grants, totp, now, arg, ledger>>

Absent  == [present |-> FALSE, secret |-> 0, confirmed |-> FALSE, last |-> 0]
NoArg   == [op |-> "none"]
NoValue == [kind |-> "none"]

Factors ==
  [present : BOOLEAN, secret : 0..MaxChallenges, confirmed : BOOLEAN, last : 0..MaxStep + 1]

\* What a user may type in: the code of a secret at a step, or a recovery code.
Values ==
  [kind : {"totp"}, secret : 0..MaxChallenges, step : 1..MaxStep + 1]
    \union [kind : {"recovery"}, code : 1..MaxSets]

Challenges == [id : 1..MaxChallenges, purpose : {"LOGIN_MFA", "MFA_ENROLLMENT"}]
Sessions   == [by : 0..MaxChallenges, elevated : BOOLEAN]

\* What may let a call through.
Things == ({"challenge", "recovery"} \X Nat) \union ({"totp"} \X Nat \X Nat)

Args ==
  {NoArg}
    \union [op : {"login"}, required : BOOLEAN, enroll : BOOLEAN]
    \union [op : {"complete"}, challenge : Challenges, value : Values]
    \union [op : {"reauth"}, session : Sessions, value : Values \union {NoValue}]
    \union [op : {"password"}, value : Values \union {NoValue}]

TypeOK ==
  /\ status \in {"PENDING_ACTIVATION", "ACTIVE", "DISABLED"}
  /\ required \in BOOLEAN
  /\ enroll \in BOOLEAN
  /\ factor \in Factors
  /\ codes \in SUBSET (1..MaxSets)
  /\ sets \in 0..MaxSets
  /\ challenges \in SUBSET Challenges
  /\ issued \in 0..MaxChallenges
  /\ sessions \in SUBSET Sessions
  /\ totp \in BOOLEAN
  /\ now \in 1..MaxStep
  /\ arg \in [Calls -> Args]
  /\ spent \in SUBSET Things
  /\ reused \in SUBSET spent

Init ==
  /\ status = "PENDING_ACTIVATION"
  /\ required \in BOOLEAN
  /\ enroll = required
  /\ factor = Absent
  /\ codes = {} /\ sets = 0
  /\ challenges = {} /\ issued = 0
  /\ sessions = {}
  /\ totp \in BOOLEAN
  /\ now = 1
  /\ arg = [c \in Calls |-> NoArg]
  /\ spent = {} /\ reused = {}

Begin(c, a) == arg[c] = NoArg /\ arg' = [arg EXCEPT ![c] = a]
Return(c)   == arg' = [arg EXCEPT ![c] = NoArg]

\* A request is refused or loses its connection: its transaction is rolled back.
Fail(c) ==
  /\ arg[c] # NoArg
  /\ Return(c)
  /\ UNCHANGED <<account, mfa, grants, totp, now, ledger>>

-----------------------------------------------------------------------------
(***************************************************************************)
(* Sessions and challenges.                                                *)
(***************************************************************************)

add_session(kept, verifiedBy, elevated) ==
  /\ Cardinality(kept) < MaxSessions
  /\ sessions' = kept \union {[by |-> verifiedBy, elevated |-> elevated]}

\* _issue_challenge without begin_enrollment.
add_challenge(purpose) ==
  /\ totp
  /\ issued < MaxChallenges
  /\ issued' = issued + 1
  /\ challenges' = challenges \union {[id |-> issued + 1, purpose |-> purpose]}

\* put_mfa_factor: an upsert that takes the place of any other secret, unconfirmed and
\* with no step accepted.  Calls that compared a code with the old secret go on.
put_mfa_factor ==
  factor' = [present |-> TRUE, secret |-> issued + 1, confirmed |-> FALSE, last |-> 0]

\* _issue_challenge with begin_enrollment.
BeginEnrollment == put_mfa_factor /\ add_challenge("MFA_ENROLLMENT") /\ UNCHANGED <<codes, sets>>

\* Mutant: a bound account's session is accepted whether it was verified or not.
resolve_bound(s) ==
  /\ status = "ACTIVE"
  /\ totp => ~enroll /\ (required => factor.confirmed)

\* A request that presents the session s is let in.
resolve(s) ==
  /\ status = "ACTIVE"
  /\ totp => /\ ~enroll
             /\ required => factor.confirmed
             /\ factor.confirmed => s.by # 0

Accepted == {s \in sessions : resolve(s)}

\* A code that the factor read by a transaction matches at this moment.
match_totp_step(last) ==
  {[kind |-> "totp", secret |-> factor.secret, step |-> t] :
     t \in {n \in 1..now + 1 : n + 1 >= now /\ n > last}}

\* What _verify_mfa_value goes on with: a matching code, or a recovery code that was
\* given out, used or not.
Presented ==
  match_totp_step(factor.last) \union [kind : {"recovery"}, code : 1..sets]

-----------------------------------------------------------------------------
(***************************************************************************)
(* Consuming a code.                                                       *)
(***************************************************************************)

Spend(things) ==
  /\ spent' = spent \union things
  /\ reused' = reused \union (things \intersect spent)

\* What a value counts as.
Thing(v) == IF v.kind = "totp" THEN <<"totp", v.secret, v.step>> ELSE <<"recovery", v.code>>

\* Mutant: the UPDATE relies on the step that was read when the code was compared.
accept_read_step(v) == factor.confirmed

\* accept_totp_step: UPDATE ... WHERE confirmed AND last_accepted_step < step, of
\* whatever secret the row holds by then.
accept_totp_step(v) == factor.confirmed /\ factor.last < v.step

consume_recovery_code(v) == v.code \in codes

\* _verify_mfa_value, from the comparison on: the code counts only if the row still
\* allows it now, and is used up in the same statement.
Verify(v, challenge) ==
  \/ /\ v.kind = "totp"
     /\ accept_totp_step(v)
     /\ factor' = [factor EXCEPT !.last = v.step]
     /\ Spend({Thing(v)} \union challenge)
     /\ UNCHANGED <<codes, sets>>
  \/ /\ v.kind = "recovery"
     /\ consume_recovery_code(v)
     /\ codes' = codes \ {v.code}
     /\ Spend({Thing(v)} \union challenge)
     /\ UNCHANGED <<factor, sets>>

replace_recovery_codes ==
  /\ sets < MaxSets
  /\ sets' = sets + 1
  /\ codes' = {sets + 1}

\* confirm_mfa_factor and accept_totp_step of the row as it is by then, which may
\* hold another secret than the one the code was compared with.
Confirm(v, challenge) ==
  /\ factor.present
  /\ factor.last < v.step
  /\ factor' = [factor EXCEPT !.confirmed = TRUE, !.last = v.step]
  /\ enroll' = FALSE
  /\ replace_recovery_codes
  /\ Spend({Thing(v)} \union challenge)
  /\ UNCHANGED <<status, required>>

-----------------------------------------------------------------------------
(***************************************************************************)
(* AuthService.                                                            *)
(***************************************************************************)

\* The activation code was consumed and the password set; Accounts has the races.
activate ==
  /\ status = "PENDING_ACTIVATION"
  /\ status' = "ACTIVE"
  /\ enroll' = required
  /\ IF required /\ totp
     THEN BeginEnrollment /\ UNCHANGED sessions
     ELSE add_session(sessions, 0, ~totp) /\ UNCHANGED <<mfa, challenges, issued>>
  /\ UNCHANGED <<required, totp, now, arg, ledger>>

\* login reads the account, and then verifies the password in a thread ...
login(c) ==
  /\ status = "ACTIVE"
  /\ Begin(c, [op |-> "login", required |-> required, enroll |-> enroll])
  /\ UNCHANGED <<account, mfa, grants, totp, now, ledger>>

\* ... and reads the factor to decide what comes next.
LoginStep(c) ==
  LET a == arg[c]
      enrollment_required == a.enroll \/ (a.required /\ ~factor.confirmed)
  IN
  /\ a.op = "login"
  /\ \/ ~totp /\ add_session(sessions, 0, TRUE) /\ UNCHANGED <<mfa, challenges, issued>>
     \/ totp /\ enrollment_required /\ BeginEnrollment /\ UNCHANGED sessions
     \/ /\ totp /\ ~enrollment_required /\ factor.confirmed
        /\ add_challenge("LOGIN_MFA")
        /\ UNCHANGED <<mfa, sessions>>
     \/ /\ totp /\ ~enrollment_required /\ ~factor.confirmed
        /\ add_session(sessions, 0, FALSE)
        /\ UNCHANGED <<mfa, challenges, issued>>
  /\ Return(c)
  /\ UNCHANGED <<account, totp, now, ledger>>

\* resolve_challenge: SELECT ... FOR UPDATE of a live challenge, kept to the end.
resolve_challenge(ch) ==
  /\ ch \in challenges
  /\ \A c \in Calls : arg[c].op = "complete" => arg[c].challenge # ch

\* complete_mfa, up to the comparison of the code.
complete_mfa(c, ch) ==
  /\ totp
  /\ resolve_challenge(ch)
  /\ factor.present
  /\ ch.purpose = "MFA_ENROLLMENT" => ~factor.confirmed
  /\ \E v \in IF ch.purpose = "MFA_ENROLLMENT" THEN match_totp_step(0) ELSE Presented :
       Begin(c, [op |-> "complete", challenge |-> ch, value |-> v])
  /\ UNCHANGED <<account, mfa, grants, totp, now, ledger>>

\* The rest of it: consume code and challenge, end the other sessions, open one.
Complete(c) ==
  LET a == arg[c]
      used == {<<"challenge", a.challenge.id>>}
  IN
  /\ a.op = "complete"
  /\ IF a.challenge.purpose = "MFA_ENROLLMENT"
     THEN Confirm(a.value, used)
     ELSE Verify(a.value, used) /\ UNCHANGED account
  /\ challenges' = challenges \ {a.challenge}
  /\ add_session({}, a.challenge.id, TRUE)
  /\ Return(c)
  /\ UNCHANGED <<issued, totp, now>>

begin_mfa_enrollment ==
  /\ Accepted # {}
  /\ BeginEnrollment
  /\ UNCHANGED <<account, sessions, totp, now, arg, ledger>>

\* reauthenticate and change_password compare the password and, under the policy,
\* a code; a bound account needs one for the password too.
reauthenticate(c, s) ==
  /\ s \in Accepted
  /\ \E v \in Presented \union {NoValue} :
       /\ (v # NoValue) = totp
       /\ totp => factor.confirmed
       /\ Begin(c, [op |-> "reauth", session |-> s, value |-> v])
  /\ UNCHANGED <<account, mfa, grants, totp, now, ledger>>

\* elevate_session finds no row when the session was deleted meanwhile: Fail.
Elevate(c) ==
  LET a == arg[c] IN
  /\ a.op = "reauth"
  /\ IF a.value = NoValue THEN UNCHANGED <<mfa, ledger>> ELSE Verify(a.value, {})
  /\ a.session \in sessions /\ status = "ACTIVE"
  /\ add_session(sessions \ {a.session}, a.session.by, TRUE)
  /\ Return(c)
  /\ UNCHANGED <<account, challenges, issued, totp, now>>

change_password(c) ==
  /\ Accepted # {}
  /\ \E v \in Presented \union {NoValue} :
       /\ (v # NoValue) = (totp /\ factor.confirmed)
       /\ Begin(c, [op |-> "password", value |-> v])
  /\ UNCHANGED <<account, mfa, grants, totp, now, ledger>>

SetPassword(c) ==
  LET a == arg[c] IN
  /\ a.op = "password"
  /\ IF a.value = NoValue THEN UNCHANGED <<mfa, ledger>> ELSE Verify(a.value, {})
  /\ sessions' = {}
  /\ Return(c)
  /\ UNCHANGED <<account, challenges, issued, totp, now>>

regenerate_recovery_codes ==
  /\ totp
  /\ \E s \in Accepted : s.elevated
  /\ factor.confirmed
  /\ replace_recovery_codes
  /\ UNCHANGED <<account, factor, grants, totp, now, arg, ledger>>

\* An administrator changes role or status; every session of the account ends.  What
\* happens to an account before its activation is in Accounts.
update_user(r, s) ==
  /\ status # "PENDING_ACTIVATION" /\ s # "PENDING_ACTIVATION"
  /\ status' = s
  /\ required' = r
  /\ enroll' = (enroll \/ (r /\ ~factor.confirmed))
  /\ sessions' = {}
  /\ UNCHANGED <<mfa, challenges, issued, totp, now, arg, ledger>>

\* reset_user_mfa and break_glass_reset_mfa.
reset_mfa ==
  /\ status # "PENDING_ACTIVATION"
  /\ codes' = {}
  /\ factor' = Absent
  /\ sessions' = {}
  /\ enroll' = TRUE
  /\ UNCHANGED <<status, required, sets, challenges, issued, totp, now, arg, ledger>>

\* break_glass_reset_password: no code is asked for.
break_glass_reset_password ==
  /\ status = "ACTIVE" /\ required
  /\ sessions # {}
  /\ sessions' = {}
  /\ UNCHANGED <<account, mfa, challenges, issued, totp, now, arg, ledger>>

logout(s) ==
  /\ s \in Accepted
  /\ sessions' = sessions \ {s}
  /\ UNCHANGED <<account, mfa, challenges, issued, totp, now, arg, ledger>>

\* Elevation, sessions and challenges expire, and purge_expired deletes their rows.
\* A challenge under way is locked, and was found unexpired.
Lapse ==
  /\ \/ \E s \in sessions : sessions' = sessions \ {s} /\ UNCHANGED challenges
     \/ /\ \E s \in sessions : s.elevated /\ add_session(sessions \ {s}, s.by, FALSE)
        /\ UNCHANGED challenges
     \/ /\ \E ch \in challenges : resolve_challenge(ch) /\ challenges' = challenges \ {ch}
        /\ UNCHANGED sessions
  /\ UNCHANGED <<account, mfa, issued, totp, now, arg, ledger>>

\* The API is started again with the other setting of totp_enabled; requests end.
SwitchPolicy ==
  /\ \A c \in Calls : arg[c] = NoArg
  /\ totp' = ~totp
  /\ UNCHANGED <<account, mfa, grants, now, arg, ledger>>

Tick ==
  /\ now < MaxStep
  /\ now' = now + 1
  /\ UNCHANGED <<account, mfa, grants, totp, arg, ledger>>

-----------------------------------------------------------------------------
Ask(c) ==
  \/ login(c) \/ change_password(c)
  \/ \E ch \in challenges : complete_mfa(c, ch)
  \/ \E s \in sessions : reauthenticate(c, s)

Next ==
  \/ \E c \in Calls : Ask(c) \/ LoginStep(c) \/ Complete(c) \/ Elevate(c) \/ SetPassword(c) \/ Fail(c)
  \/ activate \/ begin_mfa_enrollment \/ regenerate_recovery_codes \/ reset_mfa
  \/ break_glass_reset_password
  \/ \E r \in BOOLEAN, s \in {"ACTIVE", "DISABLED"} : update_user(r, s)
  \/ \E s \in sessions : logout(s)
  \/ Lapse \/ SwitchPolicy \/ Tick

Spec == Init /\ [][Next]_vars

-----------------------------------------------------------------------------
\* INV-24, as far as the code goes: a challenge, a recovery code and a TOTP code of the
\* secret in force let one call through, although several may have compared the same
\* code before either wrote.  Only a code of a secret that was replaced between the
\* comparison and the UPDATE, which does not look at the secret, may let in two.
ConsumedOnce == \A x \in reused : x[1] = "totp" /\ x[2] # factor.secret

\* INV-33: while the policy is on, an account that is bound to a factor or must be is
\* only open to sessions with a verification of their own, whatever sessions were
\* opened while the policy was off, before the role changed or before enrollment.
OwnVerification ==
  totp /\ (required \/ enroll \/ factor.confirmed) =>
    \A s \in Accepted : <<"challenge", s.by>> \in spent
=============================================================================
