------------------------------ MODULE MCLogin -------------------------------
(***************************************************************************)
(* Instance of Login for TLC.                                              *)
(***************************************************************************)
EXTENDS Login, TLC

CONSTANTS c1, c2

\* Requests are interchangeable.
CallSymmetry == Permutations(Calls)
=============================================================================
