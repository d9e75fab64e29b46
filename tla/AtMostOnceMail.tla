--------------------------- MODULE AtMostOnceMail ---------------------------
(***************************************************************************)
(* What the announcement system promises each recipient of each campaign   *)
(* (ADR-171 #2, #3): the message may never come, but it never comes twice, *)
(* and it is reported as sent only when it was.  Nothing of campaigns,     *)
(* claims, leases or runners is left here.                                 *)
(***************************************************************************)
CONSTANT Recipient

VARIABLE fate   \* fate[r]: what has become of the recipient's message

(***************************************************************************)
(* out        not on any list                                              *)
(* waiting    on the list, and nothing has gone out                        *)
(* closed     given up, and nothing has gone out                           *)
(* withdrawn  the whole campaign has been deleted, and nothing has gone out*)
(* reached    the provider has the message, and no report says so (yet)    *)
(* told       reached, and reported as sent                                *)
(* forgotten  reached, and the row has been deleted since                  *)
(***************************************************************************)
Fates == {"out", "waiting", "closed", "withdrawn", "reached", "told",
         "forgotten"}

TypeOK == fate \in [Recipient -> Fates]

Init == fate = [r \in Recipient |-> "out"]

Move(S, from, to) ==
    /\ S # {}
    /\ \A r \in S : fate[r] \in from
    /\ fate' = [r \in Recipient |-> IF r \in S THEN to ELSE fate[r]]

Enlist(S) == Move(S, {"out"}, "waiting")
GiveUp(S) == Move(S, {"waiting"}, "closed")
Reopen(S) == Move(S, {"closed"}, "waiting")

Report(r) == Move({r}, {"reached"}, "told")

\* A message already in hand may still go out after its row was closed, or
\* withdrawn: then there is no row left to report it.
Deliver(r) == \/ Move({r}, {"waiting", "closed"}, "reached")
              \/ Move({r}, {"withdrawn"}, "forgotten")

\* Rows are purged (blank = "out") or withdrawn with their campaign.
Forget(S, blank) ==
    /\ S # {}
    /\ fate' = [r \in Recipient |->
                  IF r \notin S THEN fate[r]
                  ELSE IF fate[r] \in {"reached", "told", "forgotten"}
                       THEN "forgotten" ELSE blank]

Next ==
    \/ \E S \in SUBSET Recipient : Enlist(S) \/ GiveUp(S) \/ Reopen(S)
                                   \/ Forget(S, "out") \/ Forget(S, "withdrawn")
    \/ \E r \in Recipient : Deliver(r) \/ Report(r)

Spec == Init /\ [][Next]_fate
=============================================================================
