--------------------------- MODULE MCMediaLibrary ---------------------------
(***************************************************************************)
(* MediaLibrary for TLC: assets, articles and request slots are            *)
(* interchangeable.                                                        *)
(***************************************************************************)
EXTENDS MediaLibrary, TLC

Alike == Permutations(Asset) \cup Permutations(Article) \cup Permutations(Request)
=============================================================================
