--------------------------- MODULE CampaignStore ---------------------------
(***************************************************************************)
(* The shared state of the announcement system: the tables email_campaigns *)
(* and email_campaign_recipients, the switches and the suppression list    *)
(* every part reads, and what has reached the mail provider.  The staff's  *)
(* requests (CampaignDesk) and the queue's runners (AnnouncementRunner)    *)
(* act on it.                                                              *)
(***************************************************************************)
EXTENDS Naturals, FiniteSets

CONSTANTS
    Campaign,     \* campaign ids
    Address,      \* normalised e-mail addresses
    Account,      \* the addresses that belong to an account holder
    Kind,         \* Kind[c]: "COURSE", "CUSTOM" or "DIRECT"
    Audience,     \* Audience[c]: the addresses its audience cards select
    MaxAttempts,  \* the first try plus ANNOUNCEMENT_RETRY_DELAYS_MS.length
    Drain,        \* slots for concurrent calls of drainAnnouncementQueue
    Nobody,       \* a claim token no running drain holds (or no token)
    Events,       \* what an instance lets happen around it, see EventKind
    MaxUpsets     \* bound on disturbances: crashes, switches, requests...

\* crash: a process dies.  late: a drain uses up its budget.  slowSend: one
\* send outlasts the lease.  lostReply: the provider took a message and its
\* answer was lost.  refusal: it answers with an error.  kick: the after() drain
\* of one campaign.  The rest are staff, readers and editors elsewhere.
EventKind == {"crash", "late", "slowSend", "lostReply", "refusal", "kick",
              "email.enabled", "template", "optOut", "target", "purge"}

ASSUME StoreAssumption ==
    /\ Account \subseteq Address
    /\ Kind \in [Campaign -> {"COURSE", "CUSTOM", "DIRECT"}]
    /\ Audience \in [Campaign -> SUBSET Address]
    /\ \A c \in Campaign :
          Kind[c] = "DIRECT" => \E a \in Address : Audience[c] = {a}
    /\ MaxAttempts \in Nat \ {0}
    /\ Nobody \notin Drain
    /\ Events \subseteq EventKind
    /\ MaxUpsets \in Nat

VARIABLES
    camp,        \* camp[c]: the campaign row
    row,         \* row[r]: the recipient row of r = <<campaign, address>>
    target,      \* target[c]: what the campaign is about, as availability
    off,         \* the switches that are off
    suppressed,  \* the suppression list, scope "announcements"
    mailed,      \* mailed[r]: messages the provider accepted (auxiliary)
    tries,       \* tries[r]: hand-overs since the row was last (re)queued
    upsets       \* disturbances still allowed (auxiliary)

dbVars   == <<camp, row>>
envVars  == <<target, off, suppressed>>
logVars  == <<mailed, tries>>
storeVars == <<camp, row, target, off, suppressed, mailed, tries, upsets>>

-----------------------------------------------------------------------------
CampStatus == {"ABSENT", "DRAFT", "SCHEDULED", "SENDING", "SENT", "CANCELLED"}
RowStatus  == {"ABSENT", "PENDING", "SENDING", "SENT", "FAILED", "SKIPPED",
               "SUPPRESSED"}
Switch     == {"email.enabled", "template"}

Row == Campaign \X Address
RowsOf(c) == {c} \X Address

\* live is sendWhenLive; due says that scheduledFor is null or has passed.
CampRec == [st : CampStatus, live : BOOLEAN, due : BOOLEAN]

\* due says that runAfter has passed, old that claimedAt is beyond the lease.
RowRec == [st : RowStatus, att : Nat, due : BOOLEAN,
           tok : Drain \cup {Nobody}, old : BOOLEAN]

NoRow == [st |-> "ABSENT", att |-> 0, due |-> TRUE, tok |-> Nobody, old |-> FALSE]
Fresh == [NoRow EXCEPT !.st = "PENDING"]

\* A row that is no longer SENDING carries no claim.
Freed(x, status) == [x EXCEPT !.st = status, !.tok = Nobody, !.old = FALSE]

\* The types of the tables and of what surrounds them.
StoreTypeOK ==
    /\ camp \in [Campaign -> CampRec]
    /\ row \in [Row -> RowRec]
    /\ target \in [Campaign -> {"live", "scheduled", "unavailable"}]
    /\ off \subseteq Switch
    /\ suppressed \subseteq Address
    /\ mailed \in [Row -> Nat]
    /\ tries \in [Row -> Nat]
    /\ upsets \in 0..MaxUpsets

StoreInit ==
    /\ camp = [c \in Campaign |->
                 [st |-> IF Kind[c] = "DIRECT" THEN "ABSENT" ELSE "DRAFT",
                  live |-> FALSE, due |-> TRUE]]
    /\ row = [r \in Row |-> NoRow]
    /\ target \in [Campaign -> {"live", "scheduled"}]
    /\ \A c \in Campaign : Kind[c] # "COURSE" => target[c] = "live"
    /\ off = {}
    /\ suppressed = {}
    /\ mailed = [r \in Row |-> 0]
    /\ tries = [r \in Row |-> 0]
    /\ upsets = MaxUpsets

-----------------------------------------------------------------------------
Open(r) == row[r].st \in {"PENDING", "SENDING"}
Finished(c) == camp[c].st \in {"SENT", "CANCELLED"}

\* courseAvailability; a custom or direct e-mail is about no content.
Availability(c) == IF Kind[c] = "COURSE" THEN target[c] ELSE "live"

\* The session's two switches: the global one, and the template's own, which
\* only a course announcement has to fear.
Deliverable(c) ==
    /\ "email.enabled" \notin off
    /\ Kind[c] = "COURSE" => "template" \notin off

\* An announcements suppression does not stop a direct e-mail to an account.
ChecksSuppression(r) == ~(Kind[r[1]] = "DIRECT" /\ r[2] \in Account)

\* snapshotRecipients: INSERT IGNORE of the audience, suppression applied,
\* under UNIQUE (campaignId, email).
Snapshot(c) ==
    [r \in Row |-> IF /\ r[1] = c
                      /\ r[2] \in Audience[c] \ suppressed
                      /\ row[r].st = "ABSENT"
                   THEN Fresh ELSE row[r]]

\* startCampaign's transaction and the recount after it: a campaign whose
\* snapshot is empty is finished at once, not stuck in SENDING.
StartCampaign(c) ==
    /\ row' = Snapshot(c)
    /\ camp' = [camp EXCEPT ![c].st =
                  IF \A r \in RowsOf(c) : row'[r].st = "ABSENT"
                  THEN "SENT" ELSE "SENDING"]

\* Mutant: the status is missing from the WHERE.
SkippedWhatever(c, states) ==
    [r \in Row |-> IF r[1] = c /\ row[r].st # "ABSENT"
                   THEN Freed(row[r], "SKIPPED") ELSE row[r]]

\* UPDATE ... SET status = 'SKIPPED' for the campaign's rows in `states'.
Skipped(c, states) ==
    [r \in Row |-> IF r[1] = c /\ row[r].st \in states
                   THEN Freed(row[r], "SKIPPED") ELSE row[r]]

Upset == upsets > 0 /\ upsets' = upsets - 1
=============================================================================
