---------------------------- MODULE MCNewsletter ----------------------------
(***************************************************************************)
(* The list, for TLC: the requests are interchangeable.                    *)
(***************************************************************************)
EXTENDS Newsletter, TLC

RequestSymmetry == Permutations(Request)
=============================================================================
