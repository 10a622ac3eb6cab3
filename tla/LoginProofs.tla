---------------------------- MODULE LoginProofs -----------------------------
(***************************************************************************)
(* A code and a challenge let one call through, and an account that needs  *)
(* a second factor is only open to verified sessions, for any number of    *)
(* overlapping requests and for any bounds.                                *)
(*                                                                         *)
(* What a call has compared may be stale when it writes.  The proof is     *)
(* therefore about what the rows still accept: no step of the present      *)
(* secret above the last one accepted, no unused recovery code and no live *)
(* challenge was ever used, and a challenge that a call completes is       *)
(* locked until that call ends.                                            *)
(***************************************************************************)
EXTENDS Login, TLAPS

\* No step of the present secret that the factor still accepts was used, and a secret
\* that is used or in use came with a challenge that was issued.
StepsUnspent ==
  /\ factor.confirmed => factor.present
  /\ IF factor.present THEN factor.secret \in 1..issued ELSE factor.secret = 0
  /\ \A x \in spent : x[1] = "totp" =>
       x[2] \in 1..issued /\ (x[2] = factor.secret => x[3] <= factor.last)

\* So did the secret that a call compared a code with.
Known(v)     == v.kind = "totp" => v.secret \in 1..issued
ValuesKnown ==
  \A c \in Calls : arg[c].op \in {"complete", "reauth", "password"} => Known(arg[c].value)

\* No recovery code that is left was used.
CodesUnspent ==
  /\ codes \subseteq 1..sets
  /\ \A x \in spent : x[1] = "recovery" => x[2] <= sets /\ x[2] \notin codes

\* Challenges have numbers of their own, and one that is live was not used.
ChallengesUnspent ==
  /\ \A ch \in challenges :
       ch.id <= issued /\ \A d \in challenges : d.id = ch.id => d = ch
  /\ \A x \in spent : x[1] = "challenge" =>
       x[2] <= issued /\ \A ch \in challenges : ch.id # x[2]

\* A call that completes a challenge has it locked: it is live, and nobody else's.  An
\* enrollment is completed with a TOTP code.
Locked ==
  \A c \in Calls : arg[c].op = "complete" =>
    /\ arg[c].challenge \in challenges
    /\ arg[c].challenge.purpose = "MFA_ENROLLMENT" => arg[c].value.kind = "totp"
    /\ \A d \in Calls : arg[d].op = "complete" /\ arg[d].challenge = arg[c].challenge => d = c

\* The calls that go on carry what they carried, and the challenges they complete live.
CallsGoOn ==
  \A d \in Calls : arg'[d].op # "none" =>
    arg'[d] = arg[d] /\ (arg[d].op = "complete" => arg[d].challenge \in challenges')

\* A session that has a verification names a challenge that was completed.
Verified == \A s \in sessions : s.by # 0 => <<"challenge", s.by>> \in spent

LoginInv ==
  /\ TypeOK
  /\ StepsUnspent /\ CodesUnspent /\ ChallengesUnspent
  /\ Locked /\ ValuesKnown
  /\ Verified
  /\ ConsumedOnce
-----------------------------------------------------------------------------
(***************************************************************************)
(* What a call carries, and how a call begins and ends.                    *)
(***************************************************************************)

LEMMA ArgFields ==
  ASSUME NEW a \in Args
  PROVE  /\ a.op \in {"none", "login", "complete", "reauth", "password"}
         /\ a.op = "none" <=> a = NoArg
         /\ a.op = "complete" => a.challenge \in Challenges /\ a.value \in Values
         /\ a.op = "reauth" => a.session \in Sessions /\ a.value \in Values \union {NoValue}
         /\ a.op = "password" => a.value \in Values \union {NoValue}
    BY DEF Args, NoArg

LEMMA ValueFields ==
  ASSUME NEW v \in Values
  PROVE  /\ v.kind = "totp" => v.step \in 1..MaxStep + 1 /\ v.secret \in 0..MaxChallenges
         /\ v.kind = "recovery" => v.code \in 1..MaxSets
         /\ v # NoValue
    BY DEF Values, NoValue

LEMMA ChallengeFields ==
  ASSUME NEW ch \in Challenges
  PROVE  ch.id \in 1..MaxChallenges /\ ch.id \in Nat /\ ch.id # 0
    BY LoginAssumption DEF Challenges

LEMMA ThingFields ==
  ASSUME NEW x \in Things
  PROVE  /\ x[1] = "totp" => x[2] \in Nat /\ x[3] \in Nat
         /\ x[1] # "totp" => x[2] \in Nat
    BY DEF Things

\* A code that matches, or that was given out, is one that a user may type in.
LEMMA PresentedValues ==
  ASSUME TypeOK, StepsUnspent, NEW last \in Nat
  PROVE  /\ match_totp_step(last) \subseteq Values /\ Presented \subseteq Values
         /\ factor.present => \A v \in match_totp_step(last) \union Presented : Known(v)
<1>1. \A t \in 1..now + 1 : t \in 1..MaxStep + 1
    BY LoginAssumption DEF TypeOK
<1>2. \A l : match_totp_step(l) \subseteq
                [kind : {"totp"}, secret : 0..MaxChallenges, step : 1..MaxStep + 1]
    BY <1>1 DEF match_totp_step, TypeOK, Factors
<1>3. \A k \in 1..sets : k \in 1..MaxSets
    BY LoginAssumption DEF TypeOK
<1>4. [kind : {"recovery"}, code : 1..sets] \subseteq [kind : {"recovery"}, code : 1..MaxSets]
    BY <1>3
<1>5. \A l : \A v \in match_totp_step(l) : v.secret = factor.secret
    BY DEF match_totp_step
<1>6. \A v \in [kind : {"recovery"}, code : 1..sets] : v.kind = "recovery"
    OBVIOUS
<1> QED
    BY <1>2, <1>4, <1>5, <1>6 DEF Presented, Values, Known, StepsUnspent

\* A call begins: nothing changes but what it carries, and a challenge it completes is
\* nobody else's.
LEMMA BeginKeeps ==
  ASSUME LoginInv, NEW c \in Calls, NEW a \in Args, Begin(c, a),
         a.op = "complete" =>
           /\ resolve_challenge(a.challenge)
           /\ a.challenge.purpose = "MFA_ENROLLMENT" => a.value.kind = "totp",
         a.op \in {"complete", "reauth", "password"} => Known(a.value),
         UNCHANGED <<account, mfa, grants, totp, now, ledger>>
  PROVE  LoginInv'
<1>1. UNCHANGED <<status, required, enroll, factor, codes, sets, challenges, issued, sessions,
                  totp, now, spent, reused>>
    BY DEF account, mfa, grants, ledger
<1>2. /\ arg \in [Calls -> Args] /\ arg' \in [Calls -> Args] /\ arg'[c] = a /\ arg[c] = NoArg
      /\ \A d \in Calls : d # c => arg'[d] = arg[d]
    BY DEF LoginInv, TypeOK, Begin
<1>3. TypeOK'
    BY <1>1, <1>2 DEF LoginInv, TypeOK
<1>4. Locked'
    BY <1>1, <1>2 DEF LoginInv, Locked, resolve_challenge
<1>5. ValuesKnown'
    BY <1>1, <1>2 DEF LoginInv, ValuesKnown, Known
<1> QED
    BY <1>1, <1>3, <1>4, <1>5 DEF LoginInv, StepsUnspent, CodesUnspent, ChallengesUnspent, Verified,
                            ConsumedOnce

\* A call returns: it carries nothing any more.
LEMMA ReturnMoves ==
  ASSUME TypeOK, NEW c \in Calls, Return(c)
  PROVE  /\ arg' \in [Calls -> Args] /\ arg'[c].op = "none"
         /\ \A d \in Calls : d # c => arg'[d] = arg[d]
    BY DEF TypeOK, Return, Args, NoArg

\* Every other step: the calls that go on were going on, and their challenges stay live.
LEMMA StepKeeps ==
  ASSUME LoginInv,
         status' \in {"PENDING_ACTIVATION", "ACTIVE", "DISABLED"},
         required' \in BOOLEAN, enroll' \in BOOLEAN, totp' \in BOOLEAN,
         factor' \in Factors,
         codes' \in SUBSET (1..MaxSets), sets' \in 0..MaxSets, now' \in 1..MaxStep,
         challenges' \in SUBSET Challenges, issued' \in issued..MaxChallenges,
         sessions' \in SUBSET Sessions, arg' \in [Calls -> Args],
         spent' \in SUBSET Things, reused' \in SUBSET spent', ConsumedOnce',
         StepsUnspent', CodesUnspent', ChallengesUnspent', Verified',
         CallsGoOn
  PROVE  LoginInv'
<1>1. issued \in Nat /\ 1..issued \subseteq 1..issued'
    BY LoginAssumption DEF LoginInv, TypeOK
<1>2. TypeOK'
    BY <1>1, LoginAssumption DEF TypeOK
<1>3. Locked'
    BY DEF LoginInv, Locked, CallsGoOn
<1>4. ValuesKnown'
    BY <1>1 DEF LoginInv, ValuesKnown, Known, CallsGoOn
<1> QED
    BY <1>2, <1>3, <1>4 DEF LoginInv
-----------------------------------------------------------------------------
(***************************************************************************)
(* What the statements of the repository do.                               *)
(***************************************************************************)

\* A session that is opened names a challenge that was completed, or none.
LEMMA SessionOpened ==
  ASSUME NEW kept \in SUBSET Sessions, NEW by \in 0..MaxChallenges, NEW e \in BOOLEAN,
         add_session(kept, by, e)
  PROVE  /\ sessions' \in SUBSET Sessions
         /\ \A s \in sessions' : s \in kept \/ s.by = by
    BY DEF add_session, Sessions

\* A challenge that is issued has a new number.
LEMMA ChallengeIssued ==
  ASSUME TypeOK, ChallengesUnspent, NEW p \in {"LOGIN_MFA", "MFA_ENROLLMENT"}, add_challenge(p),
         spent' = spent
  PROVE  /\ challenges' \in SUBSET Challenges /\ issued' \in issued..MaxChallenges
         /\ challenges \subseteq challenges' /\ ChallengesUnspent'
<1>1. PICK new : new = [id |-> issued + 1, purpose |-> p]
    OBVIOUS
<1>2. /\ issued \in Nat /\ issued < MaxChallenges /\ issued' = issued + 1
      /\ challenges' = challenges \union {new}
    BY <1>1, LoginAssumption DEF add_challenge, TypeOK
<1>3. new \in Challenges /\ new.id = issued'
    BY <1>1, <1>2, LoginAssumption DEF Challenges
<1>4. \A ch \in challenges : ch.id \in Nat
    BY ChallengeFields DEF TypeOK
<1>5. \A x \in spent : x[1] = "challenge" => x[2] \in Nat
    BY ThingFields DEF TypeOK
<1>6. \A ch \in challenges' :
        ch.id <= issued' /\ \A d \in challenges' : d.id = ch.id => d = ch
    BY <1>2, <1>3, <1>4 DEF ChallengesUnspent
<1>7. \A x \in spent' : x[1] = "challenge" =>
        x[2] <= issued' /\ \A ch \in challenges' : ch.id # x[2]
    BY <1>2, <1>3, <1>4, <1>5 DEF ChallengesUnspent
<1> QED
    BY <1>2, <1>3, <1>6, <1>7, LoginAssumption DEF TypeOK, ChallengesUnspent

\* A new secret has a number of its own, so no code of it was used.
LEMMA FactorReplaced ==
  ASSUME TypeOK, StepsUnspent, ConsumedOnce, put_mfa_factor, issued' = issued + 1,
         issued' \in issued..MaxChallenges, UNCHANGED <<spent, reused>>
  PROVE  factor' \in Factors /\ StepsUnspent' /\ ConsumedOnce'
<1>1. /\ issued \in Nat /\ issued + 1 \in 1..MaxChallenges /\ issued + 1 \in 0..MaxChallenges
      /\ issued + 1 \in 1..issued'
    BY LoginAssumption DEF TypeOK
<1>2. /\ factor' \in Factors /\ factor'.secret = issued + 1 /\ factor'.present
      /\ ~factor'.confirmed
    BY <1>1, LoginAssumption DEF put_mfa_factor, Factors
<1>3. \A x \in spent : x[1] = "totp" => x[2] \in 1..issued' /\ x[2] # factor'.secret
    BY <1>1, <1>2 DEF StepsUnspent
<1> QED
    BY <1>1, <1>2, <1>3 DEF StepsUnspent, ConsumedOnce, TypeOK

\* What lets a call through a second time, if anything, is a code of another secret.
LEMMA SpendKept ==
  ASSUME LoginInv, NEW things \in SUBSET Things, Spend(things), factor'.secret = factor.secret,
         \A x \in things : x \in spent => x[1] = "totp" /\ x[2] # factor.secret
  PROVE  /\ spent' \in SUBSET Things /\ reused' \in SUBSET spent' /\ ConsumedOnce'
         /\ spent' = spent \union things
    BY DEF Spend, LoginInv, TypeOK, ConsumedOnce

\* A step that the row takes is one of the present secret that was never used, or one of
\* another secret.
LEMMA StepAccepted ==
  ASSUME LoginInv, NEW v \in Values, v.kind = "totp", Known(v), factor.present,
         factor.last < v.step, NEW used \in SUBSET ({"challenge"} \X Nat),
         used \intersect spent = {}, Spend({Thing(v)} \union used), UNCHANGED issued,
         factor' \in Factors, factor'.present, factor'.secret = factor.secret,
         factor'.last = v.step
  PROVE  /\ spent' \in SUBSET Things /\ reused' \in SUBSET spent' /\ ConsumedOnce'
         /\ StepsUnspent'
         /\ spent' = spent \union ({<<"totp", v.secret, v.step>>} \union used)
<1>1. PICK n \in Nat, k \in Nat : n = v.step /\ k = v.secret /\ k \in 1..issued
    BY ValueFields, LoginAssumption DEF Known
<1>2. Thing(v) = <<"totp", k, n>>
    BY <1>1 DEF Thing
<1>3. factor.last \in Nat /\ factor.last < n
    BY <1>1, LoginAssumption DEF LoginInv, TypeOK, Factors
<1>4. /\ {<<"totp", k, n>>} \union used \in SUBSET Things
      /\ Spend({<<"totp", k, n>>} \union used)
    BY <1>2 DEF Things
<1>5. k = factor.secret => <<"totp", k, n>> \notin spent
    BY <1>3 DEF LoginInv, StepsUnspent
<1>6. \A x \in {<<"totp", k, n>>} \union used :
        x \in spent => x[1] = "totp" /\ x[2] # factor.secret
    BY <1>5
<1>7. /\ spent' \in SUBSET Things /\ reused' \in SUBSET spent' /\ ConsumedOnce'
      /\ spent' = spent \union ({<<"totp", k, n>>} \union used)
    BY <1>4, <1>6, SpendKept
<1>8. ASSUME NEW x \in spent', x[1] = "totp"
      PROVE  x[2] \in 1..issued' /\ (x[2] = factor'.secret => x[3] <= factor'.last)
    <2>1. CASE x \in spent
        <3>1. x[2] \in 1..issued /\ (x[2] = factor.secret => x[3] <= factor.last)
            BY <1>8, <2>1 DEF LoginInv, StepsUnspent
        <3>2. x[3] \in Nat
            BY <1>8, <2>1, ThingFields DEF LoginInv, TypeOK
        <3> QED
            BY <1>1, <1>3, <3>1, <3>2
    <2>2. CASE x = <<"totp", k, n>>
        BY <1>1, <2>2
    <2> QED
        BY <1>7, <1>8, <2>1, <2>2
<1>9. StepsUnspent'
    BY <1>8 DEF LoginInv, StepsUnspent
<1> QED
    BY <1>1, <1>7, <1>9

\* What _verify_mfa_value takes is not accepted again.
LEMMA VerifyOnce ==
  ASSUME LoginInv, NEW v \in Values, NEW used \in SUBSET ({"challenge"} \X Nat),
         used \intersect spent = {}, Verify(v, used), Known(v), UNCHANGED issued
  PROVE  /\ factor' \in Factors /\ codes' \in SUBSET (1..MaxSets) /\ sets' = sets
         /\ spent' \in SUBSET Things /\ reused' \in SUBSET spent' /\ ConsumedOnce'
         /\ StepsUnspent' /\ CodesUnspent'
         /\ spent \union used \subseteq spent'
         /\ \A x \in spent' : x[1] = "challenge" => x \in spent \union used
<1>1. CASE /\ v.kind = "totp" /\ accept_totp_step(v)
           /\ factor' = [factor EXCEPT !.last = v.step]
           /\ Spend({Thing(v)} \union used) /\ UNCHANGED <<codes, sets>>
    <2>1. PICK n \in 0..MaxStep + 1 : n = v.step /\ n \in Nat
        BY <1>1, ValueFields, LoginAssumption
    <2>2. factor.confirmed /\ factor.present /\ factor.last < v.step
        BY <1>1, <2>1 DEF accept_totp_step, LoginInv, StepsUnspent
    <2>3. /\ factor' \in Factors /\ factor'.last = v.step /\ factor'.present
          /\ factor'.secret = factor.secret
        <3>1. factor' = [factor EXCEPT !.last = n]
            BY <1>1, <2>1
        <3> QED
            BY <2>1, <2>2, <3>1 DEF LoginInv, TypeOK, Factors
    <2>4. /\ spent' \in SUBSET Things /\ reused' \in SUBSET spent' /\ ConsumedOnce'
          /\ StepsUnspent'
          /\ spent' = spent \union ({<<"totp", v.secret, v.step>>} \union used)
        BY <1>1, <2>2, <2>3, StepAccepted
    <2>5. CodesUnspent'
        BY <1>1, <2>4 DEF LoginInv, CodesUnspent
    <2>6. \A x \in spent' : x[1] = "challenge" => x \in spent \union used
        BY <2>4
    <2> QED
        BY <1>1, <2>3, <2>4, <2>5, <2>6 DEF LoginInv, TypeOK
<1>2. CASE /\ v.kind = "recovery" /\ consume_recovery_code(v)
           /\ codes' = codes \ {v.code}
           /\ Spend({Thing(v)} \union used) /\ UNCHANGED <<factor, sets>>
    <2>1. PICK k \in Nat : k = v.code /\ k \in codes
        BY <1>2, ValueFields, LoginAssumption DEF consume_recovery_code
    <2>2. <<"recovery", k>> \notin spent /\ k <= sets
        BY <2>1, LoginAssumption DEF LoginInv, CodesUnspent, TypeOK
    <2>3. /\ {<<"recovery", k>>} \union used \in SUBSET Things
          /\ \A x \in {<<"recovery", k>>} \union used : x \notin spent
          /\ Spend({<<"recovery", k>>} \union used)
        BY <1>2, <2>1, <2>2 DEF Things, Thing
    <2>4. /\ spent' \in SUBSET Things /\ reused' \in SUBSET spent' /\ ConsumedOnce'
          /\ spent' = spent \union ({<<"recovery", k>>} \union used)
        BY <1>2, <2>3, SpendKept
    <2>5. StepsUnspent'
        BY <1>2, <2>4 DEF LoginInv, StepsUnspent
    <2>6. CodesUnspent'
        <3>1. codes' \subseteq 1..sets'
            BY <1>2 DEF LoginInv, CodesUnspent
        <3>2. ASSUME NEW x \in spent', x[1] = "recovery"
              PROVE  x[2] <= sets' /\ x[2] \notin codes'
            <4>1. x \in spent \/ x = <<"recovery", k>>
                BY <2>4, <3>2
            <4>2. CASE x \in spent
                BY <1>2, <3>2, <4>2 DEF LoginInv, CodesUnspent
            <4>3. CASE x = <<"recovery", k>>
                BY <1>2, <2>1, <2>2, <4>3
            <4> QED
                BY <4>1, <4>2, <4>3
        <3> QED
            BY <3>1, <3>2 DEF CodesUnspent
    <2>7. \A x \in spent' : x[1] = "challenge" => x \in spent \union used
        BY <2>4
    <2>8. factor' \in Factors /\ codes' \in SUBSET (1..MaxSets) /\ sets' = sets
        BY <1>2 DEF LoginInv, TypeOK
    <2> QED
        BY <2>4, <2>5, <2>6, <2>7, <2>8
<1> QED
    BY <1>1, <1>2 DEF Verify

\* What the confirmation of a factor takes is not accepted again, and its recovery codes
\* are new.
LEMMA CodesReplaced ==
  ASSUME TypeOK, CodesUnspent, replace_recovery_codes, NEW more, spent' = spent \union more,
         \A x \in more : x[1] # "recovery"
  PROVE  codes' \in SUBSET (1..MaxSets) /\ sets' \in 0..MaxSets /\ CodesUnspent'
<1>1. /\ sets \in Nat /\ sets < MaxSets /\ sets' = sets + 1 /\ codes' = {sets + 1}
    BY LoginAssumption DEF replace_recovery_codes, TypeOK
<1>2. \A x \in spent : x[1] = "recovery" => x[2] \in Nat
    BY ThingFields DEF TypeOK
<1>3. ASSUME NEW x \in spent', x[1] = "recovery"
      PROVE  x[2] <= sets' /\ x[2] \notin codes'
    BY <1>1, <1>2, <1>3 DEF CodesUnspent
<1> QED
    BY <1>1, <1>3, LoginAssumption DEF CodesUnspent

LEMMA ConfirmOnce ==
  ASSUME LoginInv, NEW v \in Values, v.kind = "totp", Known(v), UNCHANGED issued,
         NEW used \in SUBSET ({"challenge"} \X Nat), used \intersect spent = {}, Confirm(v, used)
  PROVE  /\ factor' \in Factors /\ codes' \in SUBSET (1..MaxSets) /\ sets' \in 0..MaxSets
         /\ spent' \in SUBSET Things /\ reused' \in SUBSET spent' /\ ConsumedOnce'
         /\ StepsUnspent' /\ CodesUnspent'
         /\ spent \union used \subseteq spent'
         /\ \A x \in spent' : x[1] = "challenge" => x \in spent \union used
<1>1. PICK n \in 0..MaxStep + 1 : n = v.step /\ n \in Nat
    BY ValueFields, LoginAssumption
<1>2. /\ factor.present /\ factor.last < v.step
      /\ factor' = [factor EXCEPT !.confirmed = TRUE, !.last = n]
      /\ replace_recovery_codes /\ Spend({Thing(v)} \union used)
    BY <1>1 DEF Confirm
<1>3. /\ factor' \in Factors /\ factor'.last = v.step /\ factor'.present
      /\ factor'.secret = factor.secret
    BY <1>1, <1>2 DEF LoginInv, TypeOK, Factors
<1>4. /\ spent' \in SUBSET Things /\ reused' \in SUBSET spent' /\ ConsumedOnce'
      /\ StepsUnspent'
      /\ spent' = spent \union ({<<"totp", v.secret, v.step>>} \union used)
    BY <1>2, <1>3, StepAccepted
<1>5. codes' \in SUBSET (1..MaxSets) /\ sets' \in 0..MaxSets /\ CodesUnspent'
    <2>1. \A x \in {<<"totp", v.secret, v.step>>} \union used : x[1] # "recovery"
        OBVIOUS
    <2> QED
        BY <1>2, <1>4, <2>1, CodesReplaced DEF LoginInv
<1>6. \A x \in spent' : x[1] = "challenge" => x \in spent \union used
    BY <1>4
<1> QED
    BY <1>3, <1>4, <1>5, <1>6

\* The challenge that was used goes, the others stay.
LEMMA ChallengeUsed ==
  ASSUME LoginInv, NEW a \in challenges, NEW used, used = {<<"challenge", a.id>>},
         challenges' = challenges \ {a}, issued' = issued,
         \A x \in spent' : x[1] = "challenge" => x \in spent \union used
  PROVE  /\ challenges' \in SUBSET Challenges /\ issued' \in issued..MaxChallenges
         /\ ChallengesUnspent'
<1>1. a \in Challenges /\ challenges \in SUBSET Challenges
    BY DEF LoginInv, TypeOK
<1>2. ASSUME NEW x \in spent', x[1] = "challenge"
      PROVE  x[2] <= issued' /\ \A ch \in challenges' : ch.id # x[2]
    <2>1. CASE x \in spent
        BY <1>2, <2>1 DEF LoginInv, ChallengesUnspent
    <2>2. CASE x = <<"challenge", a.id>>
        BY <2>2 DEF LoginInv, ChallengesUnspent
    <2> QED
        BY <1>2, <2>1, <2>2
<1> QED
    BY <1>1, <1>2, LoginAssumption DEF LoginInv, TypeOK, ChallengesUnspent

\* The challenge of a call that completes it was not used.
LEMMA HeldUnused ==
  ASSUME LoginInv, NEW c \in Calls, arg[c].op = "complete"
  PROVE  /\ arg[c].challenge \in challenges /\ arg[c].challenge \in Challenges
         /\ arg[c].value \in Values /\ Known(arg[c].value)
         /\ {<<"challenge", arg[c].challenge.id>>} \in SUBSET ({"challenge"} \X Nat)
         /\ {<<"challenge", arg[c].challenge.id>>} \intersect spent = {}
<1>1. /\ arg[c].challenge \in challenges /\ arg[c].challenge \in Challenges
      /\ arg[c].value \in Values /\ Known(arg[c].value)
    BY ArgFields DEF LoginInv, TypeOK, Locked, ValuesKnown
<1>2. arg[c].challenge.id \in Nat
    BY <1>1, ChallengeFields
<1>3. <<"challenge", arg[c].challenge.id>> \notin spent
    BY <1>1 DEF LoginInv, ChallengesUnspent
<1> QED
    BY <1>1, <1>2, <1>3
-----------------------------------------------------------------------------
(***************************************************************************)
(* The steps.                                                              *)
(***************************************************************************)

\* What an enrollment leaves of the invariant: its rows are new, and sessions and
\* recovery codes are as they were.
LEMMA EnrollmentBegun ==
  ASSUME LoginInv, BeginEnrollment, UNCHANGED <<sessions, spent, reused>>
  PROVE  /\ factor' \in Factors
         /\ challenges' \in SUBSET Challenges /\ issued' \in issued..MaxChallenges
         /\ challenges \subseteq challenges'
         /\ spent' \in SUBSET Things /\ reused' \in SUBSET spent' /\ ConsumedOnce'
         /\ UNCHANGED <<codes, sets>>
         /\ StepsUnspent' /\ CodesUnspent' /\ ChallengesUnspent' /\ Verified'
<1>1. /\ put_mfa_factor /\ add_challenge("MFA_ENROLLMENT")
      /\ UNCHANGED <<codes, sets, sessions, spent, reused>>
    BY DEF BeginEnrollment
<1>2. /\ challenges' \in SUBSET Challenges /\ issued' \in issued..MaxChallenges
      /\ challenges \subseteq challenges' /\ ChallengesUnspent' /\ issued' = issued + 1
    BY <1>1, ChallengeIssued DEF LoginInv, add_challenge
<1>3. factor' \in Factors /\ StepsUnspent' /\ ConsumedOnce'
    BY <1>1, <1>2, FactorReplaced DEF LoginInv
<1>4. CodesUnspent' /\ Verified'
    BY <1>1 DEF LoginInv, CodesUnspent, Verified
<1> QED
    BY <1>1, <1>2, <1>3, <1>4 DEF LoginInv, TypeOK

\* A session without a verification is opened, or sessions end.
LEMMA SessionsKept ==
  ASSUME LoginInv, UNCHANGED spent,
         \/ sessions' \subseteq sessions
         \/ \E kept \in SUBSET sessions, by \in 0..MaxChallenges, e \in BOOLEAN :
              add_session(kept, by, e) /\ (by # 0 => <<"challenge", by>> \in spent)
  PROVE  sessions' \in SUBSET Sessions /\ Verified'
<1>1. sessions \in SUBSET Sessions
    BY DEF LoginInv, TypeOK
<1>2. CASE sessions' \subseteq sessions
    BY <1>1, <1>2 DEF LoginInv, Verified
<1>3. ASSUME NEW kept \in SUBSET sessions, NEW by \in 0..MaxChallenges, NEW e \in BOOLEAN,
             add_session(kept, by, e), by # 0 => <<"challenge", by>> \in spent
      PROVE  sessions' \in SUBSET Sessions /\ Verified'
    <2>1. /\ sessions' \in SUBSET Sessions
          /\ \A s \in sessions' : s \in kept \/ s.by = by
        BY <1>1, <1>3, SessionOpened
    <2> QED
        BY <1>3, <2>1 DEF LoginInv, Verified
<1> QED
    BY <1>2, <1>3

\* What holds of the parts that a step does not touch.
LEMMA PartsKept ==
  ASSUME LoginInv, UNCHANGED <<spent, reused>>
  PROVE  /\ spent' \in SUBSET Things /\ reused' \in SUBSET spent'
         /\ UNCHANGED factor /\ (UNCHANGED issued \/ issued' \in issued..MaxChallenges) =>
              StepsUnspent' /\ ConsumedOnce' /\ factor' \in Factors
         /\ UNCHANGED <<codes, sets>> =>
              CodesUnspent' /\ codes' \in SUBSET (1..MaxSets) /\ sets' \in 0..MaxSets
         /\ UNCHANGED issued /\ challenges' \subseteq challenges =>
              /\ ChallengesUnspent' /\ challenges' \in SUBSET Challenges
              /\ issued' \in issued..MaxChallenges
         /\ UNCHANGED arg /\ challenges \subseteq challenges' => CallsGoOn
<1>1. spent' \in SUBSET Things /\ reused' \in SUBSET spent'
    BY DEF LoginInv, TypeOK
<1>2. UNCHANGED factor /\ (UNCHANGED issued \/ issued' \in issued..MaxChallenges) =>
        StepsUnspent' /\ ConsumedOnce' /\ factor' \in Factors
    BY LoginAssumption DEF LoginInv, TypeOK, StepsUnspent, ConsumedOnce
<1>3. UNCHANGED <<codes, sets>> =>
        CodesUnspent' /\ codes' \in SUBSET (1..MaxSets) /\ sets' \in 0..MaxSets
    BY DEF LoginInv, TypeOK, CodesUnspent
<1>4. UNCHANGED issued /\ challenges' \subseteq challenges =>
        /\ ChallengesUnspent' /\ challenges' \in SUBSET Challenges
        /\ issued' \in issued..MaxChallenges
    BY LoginAssumption DEF LoginInv, TypeOK, ChallengesUnspent
<1>5. UNCHANGED arg /\ challenges \subseteq challenges' => CallsGoOn
    BY DEF LoginInv, Locked, CallsGoOn
<1> QED
    BY <1>1, <1>2, <1>3, <1>4, <1>5

\* A request reads: what it goes on with is a value that can be typed in.
LEMMA AskKeeps ==
  ASSUME LoginInv, NEW c \in Calls, Ask(c)
  PROVE  LoginInv'
<1>1. CASE login(c)
    <2>1. PICK a : a = [op |-> "login", required |-> required, enroll |-> enroll]
        OBVIOUS
    <2>2. a \in Args /\ a.op = "login"
        BY <2>1 DEF LoginInv, TypeOK, Args
    <2>3. Begin(c, a) /\ UNCHANGED <<account, mfa, grants, totp, now, ledger>>
        BY <1>1, <2>1 DEF login
    <2> QED
        BY <2>2, <2>3, BeginKeeps
<1>2. CASE change_password(c)
    <2>1. PICK v \in Presented \union {NoValue} :
            /\ (v # NoValue) = (totp /\ factor.confirmed)
            /\ Begin(c, [op |-> "password", value |-> v])
        BY <1>2 DEF change_password
    <2>2. /\ UNCHANGED <<account, mfa, grants, totp, now, ledger>>
          /\ v # NoValue => factor.confirmed
        BY <1>2, <2>1 DEF change_password
    <2>3. v \in Values \union {NoValue} /\ Known(v)
        BY <2>1, <2>2, PresentedValues, LoginAssumption
        DEF LoginInv, StepsUnspent, Known, NoValue
    <2>4. PICK a : a = [op |-> "password", value |-> v]
        OBVIOUS
    <2>5. a \in Args /\ a.op = "password" /\ a.value = v
        BY <2>3, <2>4 DEF Args
    <2> QED
        BY <2>1, <2>2, <2>3, <2>4, <2>5, BeginKeeps
<1>3. ASSUME NEW ch \in challenges, complete_mfa(c, ch)
      PROVE  LoginInv'
    <2>1. PICK v \in IF ch.purpose = "MFA_ENROLLMENT" THEN match_totp_step(0) ELSE Presented :
            Begin(c, [op |-> "complete", challenge |-> ch, value |-> v])
        BY <1>3 DEF complete_mfa
    <2>2. /\ resolve_challenge(ch) /\ UNCHANGED <<account, mfa, grants, totp, now, ledger>>
          /\ factor.present
        BY <1>3 DEF complete_mfa
    <2>3. /\ match_totp_step(0) \subseteq Values /\ Presented \subseteq Values
          /\ \A x \in match_totp_step(0) \union Presented : Known(x)
        BY <2>2, PresentedValues, LoginAssumption DEF LoginInv
    <2>4. v \in Values /\ Known(v)
        BY <2>1, <2>3
    <2>5. ch.purpose = "MFA_ENROLLMENT" => v.kind = "totp"
        BY <2>1 DEF match_totp_step
    <2>6. PICK a : a = [op |-> "complete", challenge |-> ch, value |-> v]
        OBVIOUS
    <2>7. a \in Args /\ a.challenge = ch /\ a.value = v
        BY <2>4, <2>6 DEF LoginInv, TypeOK, Args
    <2> QED
        BY <2>1, <2>2, <2>4, <2>5, <2>6, <2>7, BeginKeeps
<1>4. ASSUME NEW s \in sessions, reauthenticate(c, s)
      PROVE  LoginInv'
    <2>1. PICK v \in Presented \union {NoValue} :
            /\ (v # NoValue) = totp /\ (totp => factor.confirmed)
            /\ Begin(c, [op |-> "reauth", session |-> s, value |-> v])
        BY <1>4 DEF reauthenticate
    <2>2. /\ UNCHANGED <<account, mfa, grants, totp, now, ledger>>
          /\ v # NoValue => factor.confirmed
        BY <1>4, <2>1 DEF reauthenticate, LoginInv, TypeOK
    <2>3. v \in Values \union {NoValue} /\ Known(v)
        BY <2>1, <2>2, PresentedValues, LoginAssumption
        DEF LoginInv, StepsUnspent, Known, NoValue
    <2>4. PICK a : a = [op |-> "reauth", session |-> s, value |-> v]
        OBVIOUS
    <2>5. a \in Args /\ a.op = "reauth" /\ a.value = v
        BY <2>3, <2>4 DEF Args, LoginInv, TypeOK
    <2> QED
        BY <2>1, <2>2, <2>3, <2>4, <2>5, BeginKeeps
<1> QED
    BY <1>1, <1>2, <1>3, <1>4 DEF Ask

\* The calls that go on after the return of one were going on before.
LEMMA OthersGoOn ==
  ASSUME LoginInv, NEW c \in Calls, Return(c), challenges \subseteq challenges'
  PROVE  arg' \in [Calls -> Args] /\ CallsGoOn
<1>1. /\ arg' \in [Calls -> Args] /\ arg'[c].op = "none"
      /\ \A d \in Calls : d # c => arg'[d] = arg[d]
    BY ReturnMoves DEF LoginInv
<1> QED
    BY <1>1 DEF LoginInv, Locked, CallsGoOn

LEMMA FailKeeps ==
  ASSUME LoginInv, NEW c \in Calls, Fail(c)
  PROVE  LoginInv'
<1>1. /\ Return(c)
      /\ UNCHANGED <<status, required, enroll, factor, codes, sets, challenges, issued, sessions,
                     totp, now, spent, reused>>
    BY DEF Fail, account, mfa, grants, ledger
<1>2. sessions' \in SUBSET Sessions /\ Verified'
    BY <1>1, SessionsKept
<1>3. arg' \in [Calls -> Args] /\ CallsGoOn
    BY <1>1, OthersGoOn
<1> QED
    BY <1>1, <1>2, <1>3, PartsKept, StepKeeps DEF LoginInv, TypeOK

LEMMA LoginStepKeeps ==
  ASSUME LoginInv, NEW c \in Calls, LoginStep(c)
  PROVE  LoginInv'
<1>1. Return(c) /\ UNCHANGED <<status, required, enroll, totp, now>>
    BY DEF LoginStep, account
<1>2. UNCHANGED <<spent, reused>>
    BY DEF LoginStep, ledger
<1>3. CASE /\ \E e \in BOOLEAN : add_session(sessions, 0, e)
           /\ UNCHANGED <<factor, codes, sets, challenges, issued, spent, reused>>
    <2>1. sessions' \in SUBSET Sessions /\ Verified'
        <3>1. 0 \in 0..MaxChallenges /\ sessions \in SUBSET sessions
            BY LoginAssumption
        <3> QED
            BY <1>3, <3>1, SessionsKept
    <2>2. arg' \in [Calls -> Args] /\ CallsGoOn
        BY <1>1, <1>3, OthersGoOn
    <2> QED
        BY <1>1, <1>3, <2>1, <2>2, PartsKept, StepKeeps DEF LoginInv, TypeOK
<1>4. CASE BeginEnrollment /\ UNCHANGED sessions
    <2>1. /\ factor' \in Factors
          /\ challenges' \in SUBSET Challenges /\ issued' \in issued..MaxChallenges
          /\ challenges \subseteq challenges'
          /\ spent' \in SUBSET Things /\ reused' \in SUBSET spent' /\ ConsumedOnce'
          /\ UNCHANGED <<codes, sets>>
          /\ StepsUnspent' /\ CodesUnspent' /\ ChallengesUnspent' /\ Verified'
        BY <1>2, <1>4, EnrollmentBegun
    <2>2. arg' \in [Calls -> Args] /\ CallsGoOn
        BY <1>1, <2>1, OthersGoOn
    <2> QED
        BY <1>1, <1>4, <2>1, <2>2, StepKeeps DEF LoginInv, TypeOK
<1>5. CASE /\ add_challenge("LOGIN_MFA")
           /\ UNCHANGED <<factor, codes, sets, sessions, spent, reused>>
    <2>1. /\ challenges' \in SUBSET Challenges /\ issued' \in issued..MaxChallenges
          /\ challenges \subseteq challenges' /\ ChallengesUnspent'
        BY <1>5, ChallengeIssued DEF LoginInv
    <2>2. sessions' \in SUBSET Sessions /\ Verified'
        BY <1>5, SessionsKept
    <2>3. arg' \in [Calls -> Args] /\ CallsGoOn
        BY <1>1, <2>1, OthersGoOn
    <2> QED
        BY <1>1, <1>5, <2>1, <2>2, <2>3, PartsKept, StepKeeps DEF LoginInv, TypeOK
<1> QED
    BY <1>2, <1>3, <1>4, <1>5 DEF LoginStep, mfa

\* complete_mfa writes: code and challenge are used up, and the session that is opened
\* names the challenge.
LEMMA CompleteKeeps ==
  ASSUME LoginInv, NEW c \in Calls, Complete(c)
  PROVE  LoginInv'
<1> DEFINE ch == arg[c].challenge
           used == {<<"challenge", ch.id>>}
<1>1. /\ arg[c].op = "complete" /\ challenges' = challenges \ {ch}
      /\ add_session({}, ch.id, TRUE) /\ Return(c) /\ UNCHANGED <<issued, totp, now>>
      /\ IF ch.purpose = "MFA_ENROLLMENT"
         THEN Confirm(arg[c].value, used) ELSE Verify(arg[c].value, used) /\ UNCHANGED account
    BY DEF Complete
<1>2. /\ ch \in challenges /\ ch \in Challenges /\ arg[c].value \in Values
      /\ used \in SUBSET ({"challenge"} \X Nat) /\ used \intersect spent = {}
      /\ Known(arg[c].value)
    BY <1>1, HeldUnused
<1>3. /\ factor' \in Factors /\ codes' \in SUBSET (1..MaxSets) /\ sets' \in 0..MaxSets
      /\ spent' \in SUBSET Things /\ reused' \in SUBSET spent' /\ ConsumedOnce'
      /\ StepsUnspent' /\ CodesUnspent'
      /\ spent \union used \subseteq spent'
      /\ \A x \in spent' : x[1] = "challenge" => x \in spent \union used
      /\ status' = status /\ required' = required /\ enroll' \in BOOLEAN
    <2>1. CASE ch.purpose = "MFA_ENROLLMENT"
        <3>1. arg[c].value.kind = "totp" /\ Confirm(arg[c].value, used)
            BY <1>1, <2>1 DEF LoginInv, Locked
        <3>2. UNCHANGED <<status, required>> /\ enroll' = FALSE
            BY <3>1 DEF Confirm
        <3> HIDE DEF used
        <3> QED
            BY <1>1, <1>2, <3>1, <3>2, ConfirmOnce
    <2>2. CASE ch.purpose # "MFA_ENROLLMENT"
        <3>1. Verify(arg[c].value, used) /\ UNCHANGED <<status, required, enroll>>
            BY <1>1, <2>2 DEF account
        <3> HIDE DEF used
        <3> QED
            BY <1>1, <1>2, <3>1, VerifyOnce DEF LoginInv, TypeOK
    <2> QED
        BY <2>1, <2>2
<1>4. challenges' \in SUBSET Challenges /\ issued' \in issued..MaxChallenges /\ ChallengesUnspent'
    BY <1>1, <1>2, <1>3, ChallengeUsed
<1>5. sessions' \in SUBSET Sessions /\ Verified'
    <2>1. ch.id \in 0..MaxChallenges /\ {} \in SUBSET Sessions
        BY <1>2, ChallengeFields, LoginAssumption
    <2>2. /\ sessions' \in SUBSET Sessions
          /\ \A s \in sessions' : s.by = ch.id
        BY <1>1, <2>1, SessionOpened
    <2> QED
        BY <1>3, <2>2 DEF Verified
<1>6. /\ arg' \in [Calls -> Args] /\ arg'[c].op = "none"
      /\ \A d \in Calls : d # c => arg'[d] = arg[d]
    BY <1>1, ReturnMoves DEF LoginInv
<1>7. CallsGoOn
    BY <1>1, <1>6 DEF LoginInv, Locked, CallsGoOn
<1> QED
    BY <1>1, <1>3, <1>4, <1>5, <1>6, <1>7, StepKeeps DEF LoginInv, TypeOK

\* reauthenticate and change_password: a code that the policy asks for is used up, and
\* the session that is elevated keeps the verification it has.
LEMMA ConfirmedKeeps ==
  ASSUME LoginInv, NEW c \in Calls, Elevate(c) \/ SetPassword(c)
  PROVE  LoginInv'
<1>1. /\ arg[c].op \in {"reauth", "password"} /\ Return(c)
      /\ UNCHANGED <<status, required, enroll, challenges, issued, totp, now>>
      /\ IF arg[c].value = NoValue
         THEN UNCHANGED <<factor, codes, sets, spent, reused>> ELSE Verify(arg[c].value, {})
    BY DEF Elevate, SetPassword, account, mfa, ledger
<1>2. arg[c].value \in Values \union {NoValue} /\ Known(arg[c].value)
    BY <1>1, ArgFields DEF LoginInv, TypeOK, ValuesKnown
<1>3. /\ factor' \in Factors /\ codes' \in SUBSET (1..MaxSets) /\ sets' \in 0..MaxSets
      /\ spent' \in SUBSET Things /\ reused' \in SUBSET spent' /\ ConsumedOnce'
      /\ StepsUnspent' /\ CodesUnspent'
      /\ spent \subseteq spent'
      /\ \A x \in spent' : x[1] = "challenge" => x \in spent
    <2>1. CASE arg[c].value = NoValue
        BY <1>1, <2>1, PartsKept
    <2>2. CASE arg[c].value # NoValue
        <3>1. PICK used : used = {}
            OBVIOUS
        <3>2. Verify(arg[c].value, used) /\ arg[c].value \in Values
            BY <1>1, <1>2, <2>2, <3>1
        <3>3. used \in SUBSET ({"challenge"} \X Nat) /\ used \intersect spent = {}
            BY <3>1
        <3> QED
            BY <1>1, <1>2, <3>1, <3>2, <3>3, VerifyOnce DEF LoginInv, TypeOK
    <2> QED
        BY <2>1, <2>2
<1>4. challenges' \in SUBSET Challenges /\ issued' \in issued..MaxChallenges /\ ChallengesUnspent'
    BY <1>1, <1>3, LoginAssumption DEF LoginInv, TypeOK, ChallengesUnspent
<1>5. sessions' \in SUBSET Sessions /\ Verified'
    <2>1. CASE sessions' = {}
        BY <2>1 DEF Verified
    <2>2. CASE Elevate(c)
        <3>1. PICK s \in sessions : add_session(sessions \ {s}, s.by, TRUE)
            BY <2>2 DEF Elevate
        <3>2. sessions \in SUBSET Sessions /\ s.by \in 0..MaxChallenges
            BY DEF LoginInv, TypeOK, Sessions
        <3>3. /\ sessions' \in SUBSET Sessions
              /\ \A t \in sessions' : t \in sessions \ {s} \/ t.by = s.by
            BY <3>1, <3>2, SessionOpened
        <3> QED
            BY <1>3, <3>3 DEF LoginInv, Verified
    <2> QED
        BY <2>1, <2>2 DEF SetPassword
<1>6. arg' \in [Calls -> Args] /\ CallsGoOn
    BY <1>1, OthersGoOn
<1> QED
    BY <1>1, <1>3, <1>4, <1>5, <1>6, StepKeeps DEF LoginInv, TypeOK

LEMMA ActivateKeeps ==
  ASSUME LoginInv, activate
  PROVE  LoginInv'
<1>1. /\ status' = "ACTIVE" /\ enroll' \in BOOLEAN
      /\ UNCHANGED <<required, totp, now, arg, spent, reused>>
    BY DEF activate, ledger, LoginInv, TypeOK
<1>2. CASE BeginEnrollment /\ UNCHANGED sessions
    <2>1. /\ factor' \in Factors
          /\ challenges' \in SUBSET Challenges /\ issued' \in issued..MaxChallenges
          /\ challenges \subseteq challenges'
          /\ spent' \in SUBSET Things /\ reused' \in SUBSET spent' /\ ConsumedOnce'
          /\ UNCHANGED <<codes, sets>>
          /\ StepsUnspent' /\ CodesUnspent' /\ ChallengesUnspent' /\ Verified'
        BY <1>1, <1>2, EnrollmentBegun
    <2>2. CallsGoOn
        BY <1>1, <2>1 DEF LoginInv, Locked, CallsGoOn
    <2> QED
        BY <1>1, <1>2, <2>1, <2>2, StepKeeps DEF LoginInv, TypeOK
<1>3. CASE /\ add_session(sessions, 0, ~totp)
           /\ UNCHANGED <<factor, codes, sets, challenges, issued>>
    <2>1. /\ 0 \in 0..MaxChallenges /\ sessions \in SUBSET sessions
          /\ \E e \in BOOLEAN : add_session(sessions, 0, e)
        <3>1. 0 \in 0..MaxChallenges
            BY LoginAssumption
        <3>2. PICK e \in BOOLEAN : e = ~totp
            OBVIOUS
        <3>3. add_session(sessions, 0, e)
            BY <1>3, <3>2 DEF add_session
        <3> QED
            BY <3>1, <3>3
    <2>2. sessions' \in SUBSET Sessions /\ Verified'
        BY <1>1, <1>3, <2>1, SessionsKept
    <2> QED
        BY <1>1, <1>3, <2>2, PartsKept, StepKeeps DEF LoginInv, TypeOK
<1> QED
    BY <1>2, <1>3 DEF activate, mfa

LEMMA FactorStepsKeep ==
  ASSUME LoginInv, begin_mfa_enrollment \/ regenerate_recovery_codes \/ reset_mfa
  PROVE  LoginInv'
<1>1. CASE begin_mfa_enrollment
    <2>1. /\ BeginEnrollment
          /\ UNCHANGED <<status, required, enroll, sessions, totp, now, arg, spent, reused>>
        BY <1>1 DEF begin_mfa_enrollment, account, ledger
    <2>2. /\ factor' \in Factors
          /\ challenges' \in SUBSET Challenges /\ issued' \in issued..MaxChallenges
          /\ challenges \subseteq challenges'
          /\ spent' \in SUBSET Things /\ reused' \in SUBSET spent' /\ ConsumedOnce'
          /\ UNCHANGED <<codes, sets>>
          /\ StepsUnspent' /\ CodesUnspent' /\ ChallengesUnspent' /\ Verified'
        BY <2>1, EnrollmentBegun
    <2>3. CallsGoOn
        BY <2>1, <2>2 DEF LoginInv, Locked, CallsGoOn
    <2> QED
        BY <2>1, <2>2, <2>3, StepKeeps DEF LoginInv, TypeOK
<1>2. CASE regenerate_recovery_codes
    <2>1. /\ replace_recovery_codes
          /\ UNCHANGED <<status, required, enroll, factor, challenges, issued, sessions, totp,
                         now, arg, spent, reused>>
        BY <1>2 DEF regenerate_recovery_codes, account, grants, ledger
    <2>2. codes' \in SUBSET (1..MaxSets) /\ sets' \in 0..MaxSets /\ CodesUnspent'
        <3>1. PICK more : more = {}
            OBVIOUS
        <3>2. spent' = spent \union more /\ \A x \in more : x[1] # "recovery"
            BY <2>1, <3>1
        <3> QED
            BY <2>1, <3>2, CodesReplaced DEF LoginInv
    <2>3. sessions' \in SUBSET Sessions /\ Verified'
        BY <2>1, SessionsKept
    <2> QED
        BY <2>1, <2>2, <2>3, PartsKept, StepKeeps DEF LoginInv, TypeOK
<1>3. CASE reset_mfa
    <2>1. /\ codes' = {} /\ factor' = Absent /\ sessions' = {} /\ enroll' = TRUE
          /\ UNCHANGED <<status, required, sets, challenges, issued, totp, now, arg, spent,
                         reused>>
        BY <1>3 DEF reset_mfa, ledger
    <2>2. /\ factor' \in Factors /\ factor'.secret = 0 /\ ~factor'.present
          /\ ~factor'.confirmed
        BY <2>1, LoginAssumption DEF Absent, Factors
    <2>3. \A x \in spent : x[1] = "totp" => x[2] \in 1..issued' /\ x[2] # factor'.secret
        BY <2>1, <2>2, LoginAssumption DEF LoginInv, TypeOK, StepsUnspent
    <2>4. StepsUnspent' /\ ConsumedOnce'
        BY <2>1, <2>2, <2>3 DEF LoginInv, TypeOK, StepsUnspent, ConsumedOnce
    <2>5. CodesUnspent' /\ codes' \in SUBSET (1..MaxSets) /\ sets' \in 0..MaxSets
        BY <2>1 DEF LoginInv, CodesUnspent, TypeOK
    <2>6. sessions' \in SUBSET Sessions /\ Verified'
        BY <2>1, SessionsKept
    <2> QED
        BY <2>1, <2>2, <2>4, <2>5, <2>6, PartsKept, StepKeeps DEF LoginInv, TypeOK
<1> QED
    BY <1>1, <1>2, <1>3

\* What is done to the account or by its holder without a code: no more than sessions,
\* flags and unlocked challenges change.
LEMMA PlainKeeps ==
  ASSUME LoginInv,
         \/ break_glass_reset_password
         \/ \E r \in BOOLEAN, s \in {"ACTIVE", "DISABLED"} : update_user(r, s)
         \/ \E s \in sessions : logout(s)
         \/ Lapse \/ SwitchPolicy \/ Tick
  PROVE  LoginInv'
<1>1. UNCHANGED <<factor, codes, sets, issued, arg, spent, reused>>
    BY DEF break_glass_reset_password, update_user, logout, Lapse, SwitchPolicy, Tick, mfa,
           grants, ledger
<1>2. /\ status' \in {"PENDING_ACTIVATION", "ACTIVE", "DISABLED"}
      /\ required' \in BOOLEAN /\ enroll' \in BOOLEAN /\ totp' \in BOOLEAN
      /\ now' \in 1..MaxStep
    <2>1. CASE \E r \in BOOLEAN, s \in {"ACTIVE", "DISABLED"} : update_user(r, s)
        BY <2>1 DEF update_user, LoginInv, TypeOK
    <2>2. CASE SwitchPolicy
        BY <2>2 DEF SwitchPolicy, account, LoginInv, TypeOK
    <2>3. CASE Tick
        <3>1. now' \in 1..MaxStep
            BY <2>3, LoginAssumption DEF Tick, LoginInv, TypeOK
        <3> QED
            BY <2>3, <3>1 DEF Tick, account, LoginInv, TypeOK
    <2>4. CASE break_glass_reset_password \/ (\E s \in sessions : logout(s)) \/ Lapse
        BY <2>4 DEF break_glass_reset_password, logout, Lapse, account, LoginInv, TypeOK
    <2> QED
        BY <2>1, <2>2, <2>3, <2>4
<1>3. /\ challenges' \subseteq challenges
      /\ \A d \in Calls : arg[d].op = "complete" => arg[d].challenge \in challenges'
    <2>1. CASE challenges' = challenges
        BY <2>1 DEF LoginInv, Locked
    <2>2. CASE \E ch \in challenges : resolve_challenge(ch) /\ challenges' = challenges \ {ch}
        BY <2>2 DEF LoginInv, Locked, resolve_challenge
    <2> QED
        BY <2>1, <2>2 DEF break_glass_reset_password, update_user, logout, Lapse, SwitchPolicy,
                          Tick, grants
<1>4. sessions' \in SUBSET Sessions /\ Verified'
    <2>1. CASE sessions' \subseteq sessions
        BY <1>1, <2>1, SessionsKept
    <2>2. CASE \E s \in sessions : add_session(sessions \ {s}, s.by, FALSE)
        <3>1. PICK s \in sessions : add_session(sessions \ {s}, s.by, FALSE)
            BY <2>2
        <3>2. /\ s.by \in 0..MaxChallenges /\ sessions \ {s} \in SUBSET sessions
              /\ s.by # 0 => <<"challenge", s.by>> \in spent
            BY DEF LoginInv, TypeOK, Sessions, Verified
        <3> QED
            BY <1>1, <3>1, <3>2, SessionsKept
    <2> QED
        BY <2>1, <2>2 DEF break_glass_reset_password, update_user, logout, Lapse, SwitchPolicy,
                          Tick, grants
<1>5. /\ ChallengesUnspent' /\ challenges' \in SUBSET Challenges /\ issued' \in issued..MaxChallenges
      /\ StepsUnspent' /\ CodesUnspent' /\ reused' \in SUBSET spent' /\ ConsumedOnce'
    BY <1>1, <1>3, PartsKept
<1>6. CallsGoOn
    BY <1>1, <1>3 DEF CallsGoOn
<1> QED
    BY <1>1, <1>2, <1>3, <1>4, <1>5, <1>6, PartsKept, StepKeeps DEF LoginInv, TypeOK

LEMMA LoginInit == Init => LoginInv
<1> SUFFICES ASSUME Init PROVE LoginInv
    OBVIOUS
<1>1. /\ 1 \in 1..MaxStep /\ 0 \in 0..MaxStep + 1 /\ 0 \in 0..MaxSets
      /\ 0 \in 0..MaxChallenges
    BY LoginAssumption
<1>2. factor \in Factors
    BY <1>1 DEF Init, Absent, Factors
<1>3. arg \in [Calls -> Args]
    BY DEF Init, Args
<1>4. enroll \in BOOLEAN /\ spent \in SUBSET Things /\ reused \in SUBSET spent
    BY DEF Init
<1>5. TypeOK
    BY <1>1, <1>2, <1>3, <1>4 DEF Init, TypeOK
<1> QED
    BY <1>5 DEF Init, LoginInv, StepsUnspent, CodesUnspent, ChallengesUnspent, Locked, Verified,
                ConsumedOnce, ValuesKnown, Absent, NoArg

LEMMA LoginNext == LoginInv /\ [Next]_vars => LoginInv'
<1> SUFFICES ASSUME LoginInv, [Next]_vars PROVE LoginInv'
    OBVIOUS
<1>1. ASSUME NEW c \in Calls,
             Ask(c) \/ LoginStep(c) \/ Complete(c) \/ Elevate(c) \/ SetPassword(c) \/ Fail(c)
      PROVE  LoginInv'
    BY <1>1, AskKeeps, LoginStepKeeps, CompleteKeeps, ConfirmedKeeps, FailKeeps
<1>2. CASE activate
    BY <1>2, ActivateKeeps
<1>3. CASE begin_mfa_enrollment \/ regenerate_recovery_codes \/ reset_mfa
    BY <1>3, FactorStepsKeep
<1>4. CASE \/ break_glass_reset_password
           \/ \E r \in BOOLEAN, s \in {"ACTIVE", "DISABLED"} : update_user(r, s)
           \/ \E s \in sessions : logout(s)
           \/ Lapse \/ SwitchPolicy \/ Tick
    BY <1>4, PlainKeeps
<1>5. CASE UNCHANGED vars
    BY <1>5 DEF vars, account, mfa, grants, ledger, LoginInv, TypeOK, StepsUnspent, CodesUnspent,
                ChallengesUnspent, Locked, ValuesKnown, Known, Verified, ConsumedOnce
<1> QED
    BY <1>1, <1>2, <1>3, <1>4, <1>5 DEF Next
-----------------------------------------------------------------------------
\* Whatever requests overlap, what the rows of factor, recovery codes and challenges
\* still accept was never used, a challenge under way is locked by one call, and every
\* verified session names a completed challenge.
THEOREM LoginKept == Spec => []LoginInv
<1> QED
    BY LoginInit, LoginNext, PTL DEF Spec

\* INV-24, as far as it holds, for any number of calls: the conditional UPDATEs of
\* accept_totp_step and consume_recovery_code and the lock of resolve_challenge let a
\* challenge, a recovery code and a TOTP code of the secret in force through once.  What
\* was let through is never forgotten, so a code that let in two calls belongs to a
\* secret that put_mfa_factor replaced or reset_mfa deleted.
THEOREM UsedOnce == Spec => []ConsumedOnce
<1>1. LoginInv => ConsumedOnce
    BY DEF LoginInv
<1> QED
    BY <1>1, LoginKept, PTL

\* INV-33 for any number of calls: resolve lets no session without a completed challenge
\* into an account that is bound to a factor or must be, while the policy is on.
THEOREM VerifiedSessions == Spec => []OwnVerification
<1>1. LoginInv => OwnVerification
    BY DEF LoginInv, Verified, OwnVerification, Accepted, resolve
<1> QED
    BY <1>1, LoginKept, PTL
=============================================================================
