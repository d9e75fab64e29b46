---------------------------- MODULE CampaignDesk ----------------------------
(***************************************************************************)
(* What staff do to a campaign (packages/core/src/announcements.ts and     *)
(* custom-emails.ts).  Most of these requests read the campaign's status,  *)
(* refuse or go on, and write LATER, in another statement whose WHERE does *)
(* not repeat the status: so a request is two actions here, and whatever   *)
(* lies between them is open to the other requests and to the runners.     *)
(***************************************************************************)
EXTENDS CampaignStore

CONSTANTS
    Admin,   \* slots for concurrent requests
    Ops      \* the requests an instance allows

OpName == {"queue", "schedule", "unschedule", "cancel", "retry", "delete",
           "direct"}

ASSUME DeskAssumption == Ops \subseteq OpName

VARIABLE ask   \* ask[p]: the request p has checked and not yet written

Idle == [op |-> "none"]
Request == [op : Ops, on : Campaign, wait : BOOLEAN]

\* The type of the requests under way.
DeskTypeOK == ask \in [Admin -> Request \cup {Idle}]
DeskInit == ask = [p \in Admin |-> Idle]

\* announcementBlockers, as far as it reads state that changes: the target is
\* not gone, and neither switch is off.
NoBlockers(c) == Availability(c) # "unavailable" /\ Deliverable(c)

-----------------------------------------------------------------------------
\* The reading half of a request: the status it insists on.
Admits(op, c) ==
    CASE op = "queue"    -> /\ camp[c].st = "DRAFT"
                            /\ NoBlockers(c)
                            /\ Availability(c) = "live" =>
                                  Audience[c] \ suppressed # {}
      [] op = "schedule" -> camp[c].st = "DRAFT" /\ NoBlockers(c)
      [] op = "delete"   -> camp[c].st = "DRAFT"
      [] op = "cancel"   -> camp[c].st \in {"SENDING", "SCHEDULED"}
      [] op = "retry"    -> camp[c].st \in {"SENT", "SENDING"}
      [] OTHER           -> FALSE

Check(p) ==
    \E op \in Ops, c \in Campaign :
        /\ ask[p] = Idle
        /\ Admits(op, c)
        /\ Upset
        /\ ask' = [ask EXCEPT ![p] =
                     [op |-> op, on |-> c, wait |-> Availability(c) = "scheduled"]]
        /\ UNCHANGED <<dbVars, envVars, logVars>>

About(p, c) == ask[p] # Idle /\ ask[p].on = c
Asked(p, op, c) == About(p, c) /\ ask[p].op = op
Done(p) == ask' = [ask EXCEPT ![p] = Idle]

\* queueAnnouncement for a course that is not live yet: the campaign waits.
QueueToWait(p, c) ==
    /\ Asked(p, "queue", c)
    /\ ask[p].wait
    /\ camp[c].st # "ABSENT"
    /\ camp' = [camp EXCEPT ![c] = [st |-> "SCHEDULED", live |-> TRUE, due |-> TRUE]]
    /\ UNCHANGED <<row, tries>>

\* queueAnnouncement for a live target: startCampaign looks again, under the
\* lock on the campaign row, and another starter may have won.
QueueToSend(p, c) ==
    /\ Asked(p, "queue", c)
    /\ ~ask[p].wait
    /\ IF camp[c].st \in {"DRAFT", "SCHEDULED"} THEN StartCampaign(c)
       ELSE UNCHANGED dbVars
    /\ UNCHANGED tries

Schedule(p, c) ==
    /\ Asked(p, "schedule", c)
    /\ camp[c].st # "ABSENT"
    /\ camp' = [camp EXCEPT ![c] = [st |-> "SCHEDULED", live |-> ask[p].wait, due |-> FALSE]]
    /\ UNCHANGED <<row, tries>>

\* deleteAnnouncementDraft: the delete cascades to the recipient rows.
Delete(p, c) ==
    /\ Asked(p, "delete", c)
    /\ camp[c].st # "ABSENT"
    /\ camp' = [camp EXCEPT ![c].st = "ABSENT"]
    /\ row' = [r \in Row |-> IF r[1] = c THEN NoRow ELSE row[r]]
    /\ UNCHANGED tries

\* cancelAnnouncement: both updates in one transaction.
Cancel(p, c) ==
    /\ Asked(p, "cancel", c)
    /\ camp[c].st # "ABSENT"
    /\ row' = Skipped(c, {"PENDING"})
    /\ camp' = [camp EXCEPT ![c].st = "CANCELLED"]
    /\ UNCHANGED tries

\* Mutant: Retry re-arms every closed row.
RetryClosed(p, c) ==
    /\ Asked(p, "retry", c)
    /\ camp[c].st # "ABSENT"
    /\ row' = [r \in Row |-> IF r[1] = c /\ row[r].st \in {"FAILED", "SENT"}
                             THEN Fresh ELSE row[r]]
    /\ camp' = [camp EXCEPT ![c].st = "SENDING"]
    /\ UNCHANGED tries

\* retryFailedRecipients: both updates in one transaction.
Retry(p, c) ==
    /\ Asked(p, "retry", c)
    /\ camp[c].st # "ABSENT"
    /\ row' = [r \in Row |-> IF r[1] = c /\ row[r].st = "FAILED" THEN Fresh ELSE row[r]]
    /\ camp' = [camp EXCEPT ![c].st = "SENDING"]
    /\ tries' = [r \in Row |-> IF r[1] = c /\ row[r].st = "FAILED" THEN 0 ELSE tries[r]]

\* The campaign was deleted meanwhile: the update throws.
Gone(p, c) ==
    /\ About(p, c)
    /\ camp[c].st = "ABSENT"
    /\ UNCHANGED <<dbVars, tries>>

Write(p) ==
    /\ \E c \in Campaign :
         \/ QueueToWait(p, c) \/ QueueToSend(p, c) \/ Schedule(p, c)
         \/ Delete(p, c) \/ Cancel(p, c) \/ Retry(p, c) \/ Gone(p, c)
    /\ Done(p)
    /\ UNCHANGED <<envVars, mailed, upsets>>

\* unscheduleAnnouncement: one guarded statement.
Unschedule(c) ==
    /\ "unschedule" \in Ops
    /\ camp[c].st = "SCHEDULED"
    /\ Upset
    /\ camp' = [camp EXCEPT ![c] = [st |-> "DRAFT", live |-> FALSE, due |-> TRUE]]
    /\ UNCHANGED <<row, envVars, logVars, ask>>

\* sendDirectEmail: campaign, words and its one recipient in one create.  A
\* subscriber who opted out is refused, an account holder is not.
SendDirect(c) ==
    /\ "direct" \in Ops
    /\ Kind[c] = "DIRECT" /\ camp[c].st = "ABSENT"
    /\ "email.enabled" \notin off
    /\ Audience[c] \cap suppressed \subseteq Account
    /\ Upset
    /\ camp' = [camp EXCEPT ![c].st = "SENDING"]
    /\ row' = [r \in Row |-> IF r[1] = c /\ r[2] \in Audience[c] THEN Fresh ELSE row[r]]
    /\ UNCHANGED <<envVars, logVars, ask>>

DeskNext ==
    \/ \E p \in Admin : Check(p) \/ Write(p)
    \/ \E c \in Campaign : Unschedule(c) \/ SendDirect(c)
=============================================================================
