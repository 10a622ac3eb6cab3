----------------------------- MODULE MCKeyring ------------------------------
(***************************************************************************)
(* Instance of Keyring for TLC: one API process and two workers, a change  *)
(* of the keyring from version 1 to version 2 in steps.                    *)
(***************************************************************************)
EXTENDS Keyring

CONSTANTS a1, w1, w2

OldRing   == [versions |-> {1}, primary |-> 1]
BothRings == [versions |-> {1, 2}, primary |-> 2]
NewRing   == [versions |-> {2}, primary |-> 2]

RingSteps == {OldRing, BothRings, NewRing}
SomeKinds == [credential |-> "CREDENTIAL", factor |-> "MFA", inputs |-> "RUN_SECRET"]
SomeRows  == DOMAIN SomeKinds
=============================================================================
