----------------------------- MODULE MCAiBudget -----------------------------
(***************************************************************************)
(* AiBudget for TLC, whose constants the cfg gives.  Its calls could be    *)
(* swapped for one another, but CapIsNoticed is a liveness property, which *)
(* symmetry would not be sound for.                                        *)
(***************************************************************************)
EXTENDS AiBudget
=============================================================================
