--------------------------- MODULE MCRunExecution ---------------------------
(***************************************************************************)
(* Instances of RunExecution for TLC.                                      *)
(***************************************************************************)
EXTENDS RunExecution, TLC

CONSTANTS w1, w2, r1, r2, h1, h2, x1

\* Two runs that share a host, one of them on a second host as well.
MCTargets == r1 :> {h1} @@ r2 :> {h1, h2}

\* A session on the host that the runs share.
MCShellHost == [x \in Shells |-> h1]

\* One run alone.
OneRun == r1 :> {h1}

\* Worker processes are interchangeable.
WorkerSymmetry == Permutations(Workers)
=============================================================================
