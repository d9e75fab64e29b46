---------------------------- MODULE MCAddresses ----------------------------
(***************************************************************************)
(* Addresses for TLC: articles, names and request slots are interchangeable.*)
(***************************************************************************)
EXTENDS Addresses, TLC

Alike == Permutations(Article) \cup Permutations(Name) \cup Permutations(Request)
=============================================================================
