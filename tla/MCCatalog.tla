----------------------------- MODULE MCCatalog ------------------------------
(***************************************************************************)
(* Instance of Catalog for TLC.                                            *)
(***************************************************************************)
EXTENDS Catalog, TLC

CONSTANTS c1, c2, h1, h2, g1, p1, p2, s1, s2

CallSymmetry == Permutations(Calls)
=============================================================================
