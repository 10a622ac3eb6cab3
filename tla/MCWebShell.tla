----------------------------- MODULE MCWebShell -----------------------------
(***************************************************************************)
(* Instances of WebShell for TLC.                                          *)
(***************************************************************************)
EXTENDS WebShell, TLC

CONSTANTS s1, s2, s3, h1, h2, c1, c2, l1, l2, i1, i2, r1

\* Two sessions for the same host and one for another, which only the capacity
\* keeps from joining them.
SharedHost == s1 :> h1 @@ s2 :> h1 @@ s3 :> h2

\* One session, for which two streams compete.
OneShell == s1 :> h1

\* Both logins are of one user.
OneUser == l1 :> "user" @@ l2 :> "user"

\* Both streams at one API process, where they meet in _active.
OneHome == c1 :> i1 @@ c2 :> i1

\* Streams of one process are interchangeable.
StreamSymmetry == Permutations({c1, c2})
=============================================================================
