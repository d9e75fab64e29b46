-------------------------- MODULE MCLocaleBackfill --------------------------
(***************************************************************************)
(* LocaleBackfill for TLC: behaviours in which everything happens, longer  *)
(* ones in which pages outlast the lease, and longer ones in which runners *)
(* die and statements fail.                                                *)
(***************************************************************************)
EXTENDS LocaleBackfill

AnythingGoes == [may |-> EventKind, upsets |-> 2]
LateRunners == [may |-> {"slow", "error"}, upsets |-> 3]
CrashesAndErrors == [may |-> {"crash", "error"}, upsets |-> 4]
Three == {AnythingGoes, LateRunners, CrashesAndErrors}
=============================================================================
