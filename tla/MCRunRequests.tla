--------------------------- MODULE MCRunRequests ---------------------------
(***************************************************************************)
(* Instances of RunRequests for TLC.                                       *)
(***************************************************************************)
EXTENDS RunRequests, TLC

CONSTANTS c1, c2, r1, r2, h1, h2, plain, sealed, again, bare

\* Two different requests under one key, and two retries of r1 under another, one of
\* which gives the sensitive parameter.
MCKeys == plain :> "k1" @@ sealed :> "k1" @@ again :> "k2" @@ bare :> "k2"
MCHosts == plain :> {h1, h2} @@ sealed :> {h1} @@ again :> {} @@ bare :> {}
MCSource == plain :> Nobody @@ sealed :> Nobody @@ again :> r1 @@ bare :> r1
=============================================================================
