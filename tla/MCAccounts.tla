----------------------------- MODULE MCAccounts -----------------------------
(***************************************************************************)
(* Instance of Accounts for TLC.                                           *)
(***************************************************************************)
EXTENDS Accounts

CONSTANTS u1, u2, c1, c2
=============================================================================
