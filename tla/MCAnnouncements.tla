-------------------------- MODULE MCAnnouncements --------------------------
(***************************************************************************)
(* Announcements for TLC: the small worlds of the runs.                    *)
(***************************************************************************)
EXTENDS Announcements, TLC

CONSTANTS c1, c2, a1, a2

\* One custom campaign to two readers.
CustomOne == [c \in {c1} |-> "CUSTOM"]
CourseOne == [c \in {c1} |-> "COURSE"]
Both == [c \in {c1} |-> {a1, a2}]

CustomTwo == [c \in {c1, c2} |-> "CUSTOM"]
CourseAndCustom == (c1 :> "COURSE") @@ (c2 :> "CUSTOM")
CustomAndDirect == (c1 :> "CUSTOM") @@ (c2 :> "DIRECT")
OneEach == [c \in {c1, c2} |-> {a1}]

\* c1 was drafted first.
DraftedOne == [c \in {c1} |-> 1]
DraftedInOrder == (c1 :> 1) @@ (c2 :> 2)

DrainSymmetry == Permutations(Drain)
DrainAddressSymmetry == Permutations(Drain) \cup Permutations(Address)
=============================================================================
