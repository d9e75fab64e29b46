------------------------- MODULE AnnouncementRunner -------------------------
(***************************************************************************)
(* drainAnnouncementQueue (packages/core/src/announcement-runner.ts): any  *)
(* number of calls at once, the cron's every minute and the kicks after a  *)
(* Send.  One action per statement that touches the database, and two for  *)
(* a send: the hand-over to the provider, and settling its answer.         *)
(***************************************************************************)
EXTENDS CampaignStore

CONSTANTS
    BatchSize,   \* email.campaignBatchSize
    DueLimit,    \* how many due campaigns one drain looks at
    CreatedAt    \* CreatedAt[c]: when the campaign was drafted

ASSUME RunnerAssumption ==
    /\ BatchSize \in Nat \ {0}
    /\ DueLimit \in Nat \ {0}
    /\ CreatedAt \in [Campaign -> Nat]

VARIABLES
    pc,      \* pc[d]: where the drain is; "idle" when the slot is free
    held,    \* held[d]: rows it claimed and has not settled or given back
    flight,  \* flight[d]: the row whose send is under way, at most one
    mem      \* mem[d]: the drain's other local variables

drainVars == <<pc, held, flight, mem>>

Phase == {"idle", "expire", "gate", "due", "claim", "select", "batch", "send",
          "settle", "close"}
Outcome == {"none", "SENT", "SUPPRESSED", "transient", "permanent", "render"}

\* kick: the campaign of a scoped call, {} for the cron's.  late: the budget is
\* used up.  todo: campaigns left in the loop at hand.  stale: rows read as
\* expired.  focus: the campaign of sendCampaignRows.  on, seen: the switches
\* and the suppressions as that call read them.
Mem == [kick : SUBSET Campaign, late : BOOLEAN, todo : SUBSET Campaign,
        stale : SUBSET Row, touched : SUBSET Campaign, focus : SUBSET Campaign,
        on : BOOLEAN, seen : SUBSET Address, res : Outcome]

Blank == [kick |-> {}, late |-> FALSE, todo |-> {}, stale |-> {}, touched |-> {},
          focus |-> {}, on |-> TRUE, seen |-> {}, res |-> "none"]

\* The types of a drain's local variables.
DrainTypeOK ==
    /\ pc \in [Drain -> Phase]
    /\ held \in [Drain -> SUBSET Row]
    /\ flight \in [Drain -> SUBSET Row]
    /\ mem \in [Drain -> Mem]

DrainInit ==
    /\ pc = [d \in Drain |-> "idle"]
    /\ held = [d \in Drain |-> {}]
    /\ flight = [d \in Drain |-> {}]
    /\ mem = [d \in Drain |-> Blank]

-----------------------------------------------------------------------------
Goto(d, phase) == pc' = [pc EXCEPT ![d] = phase]
CampaignsOf(S) == {r[1] : r \in S}
Hand(d) == {r \in held[d] : r[1] \in mem[d].focus}
Sending == {c \in Campaign : camp[c].st = "SENDING"}

\* Mutant: the status is missing from the WHERE.
ReleasedWhatever(S) ==
    [r \in Row |-> IF r \in S THEN Freed(row[r], "PENDING") ELSE row[r]]

\* UPDATE ... SET status = 'PENDING' WHERE id IN S AND status = 'SENDING'.
Released(S) ==
    [r \in Row |-> IF r \in S /\ row[r].st = "SENDING"
                   THEN Freed(row[r], "PENDING") ELSE row[r]]

\* UPDATE ... SET status WHERE id = r, and nothing else in the WHERE.
Settled(r, status) == [row EXCEPT ![r] = Freed(row[r], status)]

\* What the table looks like once d has lost sight of the rows it still held:
\* they stay SENDING, under a token nobody has.
Abandoned(rows, d) ==
    [r \in Row |-> IF rows[r].tok = d THEN [rows[r] EXCEPT !.tok = Nobody] ELSE rows[r]]

-----------------------------------------------------------------------------
\* expireLeases reads the rows held past the lease ...
Begin(d, scope) ==
    /\ pc[d] = "idle"
    /\ LET stale == {r \in Row : row[r].st = "SENDING" /\ row[r].old}
       IN  /\ mem' = [mem EXCEPT ![d] = [Blank EXCEPT !.kick = scope, !.stale = stale,
                                                      !.touched = CampaignsOf(stale)]]
           /\ Goto(d, IF stale = {} THEN "gate" ELSE "expire")
    /\ UNCHANGED <<dbVars, envVars, logVars, held, flight>>

CronTick(d) == Begin(d, {}) /\ UNCHANGED upsets

\* after(() => drainAnnouncementQueue({ campaignId })), once a send was asked.
Kick(d, c) ==
    /\ "kick" \in Events
    /\ \E r \in RowsOf(c) : row[r].st # "ABSENT"
    /\ Upset
    /\ Begin(d, {c})

\* Mutant: an expired lease queues the row again.
ExpireToQueue(d) ==
    /\ pc[d] = "expire"
    /\ row' = [r \in Row |-> IF r \in mem[d].stale /\ row[r].st = "SENDING"
                             THEN Freed(row[r], "PENDING") ELSE row[r]]
    /\ mem' = [mem EXCEPT ![d].stale = {}]
    /\ Goto(d, "gate")
    /\ UNCHANGED <<camp, envVars, logVars, upsets, held, flight>>

\* ... and fails those of them that are still SENDING: never PENDING again.
ExpireLeases(d) ==
    /\ pc[d] = "expire"
    /\ row' = [r \in Row |-> IF r \in mem[d].stale /\ row[r].st = "SENDING"
                             THEN Freed(row[r], "FAILED") ELSE row[r]]
    /\ mem' = [mem EXCEPT ![d].stale = {}]
    /\ Goto(d, "gate")
    /\ UNCHANGED <<camp, envVars, logVars, upsets, held, flight>>

\* ORDER BY createdAt, take: S are the DueLimit oldest.
Oldest(S, due) ==
    /\ S = due \/ Cardinality(S) = DueLimit
    /\ Cardinality(S) <= DueLimit
    /\ \A c \in S, e \in due \ S : CreatedAt[c] <= CreatedAt[e]

\* Mutant: a campaign that also waits for its content to go live is never looked
\* at for its date.
GateForWaiting(d) ==
    /\ pc[d] = "gate"
    /\ LET due == {c \in Campaign : camp[c].st = "SCHEDULED" /\ camp[c].due /\ camp[c].live}
       IN  IF "email.enabled" \in off
           THEN /\ mem' = [mem EXCEPT ![d].todo = mem[d].touched]
                /\ Goto(d, "close")
           ELSE IF mem[d].kick # {} \/ due = {}
           THEN Goto(d, "claim") /\ UNCHANGED mem
           ELSE \E S \in SUBSET due : /\ Oldest(S, due)
                                     /\ mem' = [mem EXCEPT ![d].todo = S]
                                     /\ Goto(d, "due")
    /\ UNCHANGED <<storeVars, held, flight>>

\* Switched off: nothing is claimed.  Else the cron's call lists what is due, the oldest
\* first and no more than the limit.
Gate(d) ==
    /\ pc[d] = "gate"
    /\ LET due == {c \in Campaign : camp[c].st = "SCHEDULED" /\ camp[c].due}
       IN  IF "email.enabled" \in off
           THEN /\ mem' = [mem EXCEPT ![d].todo = mem[d].touched]
                /\ Goto(d, "close")
           ELSE IF mem[d].kick # {} \/ due = {}
           THEN Goto(d, "claim") /\ UNCHANGED mem
           ELSE \E S \in SUBSET due : /\ Oldest(S, due)
                                     /\ mem' = [mem EXCEPT ![d].todo = S]
                                     /\ Goto(d, "due")
    /\ UNCHANGED <<storeVars, held, flight>>

\* startDueAnnouncements, one campaign: wait, cancel, or start.  startCampaign
\* takes the campaign's lock and accepts DRAFT as well as SCHEDULED.
StartDue(d, c) ==
    /\ pc[d] = "due" /\ c \in mem[d].todo
    /\ camp[c].st # "ABSENT"
    /\ \/ Availability(c) = "scheduled" /\ camp[c].live /\ UNCHANGED dbVars
       \/ /\ Availability(c) # "live"
          /\ ~(Availability(c) = "scheduled" /\ camp[c].live)
          /\ camp' = IF camp[c].st = "SCHEDULED"
                     THEN [camp EXCEPT ![c].st = "CANCELLED"] ELSE camp
          /\ UNCHANGED row
       \/ /\ Availability(c) = "live"
          /\ IF camp[c].st \in {"DRAFT", "SCHEDULED"} THEN StartCampaign(c)
             ELSE UNCHANGED dbVars
    /\ mem' = [mem EXCEPT ![d].todo = @ \ {c}]
    /\ Goto(d, IF mem[d].todo = {c} THEN "claim" ELSE "due")
    /\ UNCHANGED <<envVars, logVars, upsets, held, flight>>

\* Mutant: only the campaigns this drain touched are looked at.
ClosingTouched(d, touched) ==
    /\ mem' = [mem EXCEPT ![d] = [Blank EXCEPT !.todo = touched]]
    /\ Goto(d, "close")

\* The last loop of the drain: every campaign it touched, and every one still
\* SENDING.
Closing(d, touched) ==
    /\ mem' = [mem EXCEPT ![d] = [Blank EXCEPT !.todo = touched \cup Sending]]
    /\ Goto(d, "close")

\* Mutant: the claim does not ask for PENDING.
ClaimableOpen(d) ==
    {r \in Row : /\ Open(r) /\ row[r].due
                 /\ IF mem[d].kick = {} THEN camp[r[1]].st = "SENDING"
                    ELSE r[1] \in mem[d].kick}

\* The rows the claim's WHERE accepts.  A kick's does not ask for the status of
\* its campaign.
Claimable(d) ==
    {r \in Row : /\ row[r].st = "PENDING" /\ row[r].due
                 /\ IF mem[d].kick = {} THEN camp[r[1]].st = "SENDING"
                    ELSE r[1] \in mem[d].kick}

Taken(x, d) == [x EXCEPT !.st = "SENDING", !.tok = d, !.old = FALSE]

\* One UPDATE stamps the drain's token on a batch.
Claim(d) ==
    /\ pc[d] = "claim" /\ ~mem[d].late
    /\ \E S \in SUBSET Claimable(d) :
         /\ S # {}
         /\ S = Claimable(d) \/ Cardinality(S) = BatchSize
         /\ Cardinality(S) <= BatchSize
         /\ row' = [r \in Row |-> IF r \in S
                                  THEN Taken(row[r], d) ELSE row[r]]
    /\ Goto(d, "select")
    /\ UNCHANGED <<camp, envVars, logVars, upsets, held, flight, mem>>

NothingToClaim(d) ==
    /\ pc[d] = "claim"
    /\ mem[d].late \/ Claimable(d) = {}
    /\ Closing(d, mem[d].touched)
    /\ UNCHANGED <<storeVars, held, flight>>

\* The rows with the token, and their campaigns' status: those of a campaign
\* that is not SENDING are given up.
Select(d) ==
    /\ pc[d] = "select"
    /\ LET mine == {r \in Row : row[r].tok = d}
           live == {r \in mine : camp[r[1]].st = "SENDING"}
       IN  /\ row' = [r \in Row |-> IF r \in mine \ live
                                    THEN Freed(row[r], "SKIPPED") ELSE row[r]]
           /\ held' = [held EXCEPT ![d] = live]
           /\ IF live = {} THEN Closing(d, mem[d].touched)
              ELSE Goto(d, "batch") /\ UNCHANGED mem
    /\ UNCHANGED <<camp, envVars, logVars, upsets, flight>>

\* courseSource wants the course live; contentSource wants words.
SourceMissing(c) ==
    IF Kind[c] = "COURSE" THEN target[c] # "live" ELSE target[c] = "unavailable"

\* sendCampaignRows, up to its loop: the source, the suppressions, the session.
OpenSession(d, c) ==
    /\ pc[d] = "batch" /\ c \in CampaignsOf(held[d])
    /\ camp[c].st # "ABSENT"
    /\ ~SourceMissing(c)
    /\ mem' = [mem EXCEPT ![d] =
                  [mem[d] EXCEPT !.focus = {c}, !.touched = mem[d].touched \cup {c},
                                 !.seen = suppressed, !.on = Deliverable(c)]]
    /\ Goto(d, "send")
    /\ UNCHANGED <<storeVars, held, flight>>

\* The course went away, or the words did: one transaction ends the campaign.
CancelForTarget(d, c) ==
    /\ pc[d] = "batch" /\ c \in CampaignsOf(held[d])
    /\ camp[c].st # "ABSENT"
    /\ SourceMissing(c)
    /\ row' = Skipped(c, {"PENDING", "SENDING"})
    /\ camp' = [camp EXCEPT ![c].st = "CANCELLED"]
    /\ held' = [held EXCEPT ![d] = @ \ RowsOf(c)]
    /\ mem' = [mem EXCEPT ![d].touched = @ \cup {c}]
    /\ UNCHANGED <<envVars, logVars, upsets, pc, flight>>

BatchDone(d) ==
    /\ pc[d] = "batch" /\ held[d] = {}
    /\ Goto(d, "claim")
    /\ UNCHANGED <<storeVars, held, flight, mem>>

CampaignDone(d) ==
    /\ pc[d] = "send" /\ Hand(d) = {}
    /\ mem' = [mem EXCEPT ![d] = [@ EXCEPT !.focus = {}, !.seen = {}, !.on = TRUE]]
    /\ Goto(d, "batch")
    /\ UNCHANGED <<storeVars, held, flight>>

\* Out of time: the rest of this campaign's rows goes back untouched.
GiveBack(d) ==
    /\ pc[d] = "send" /\ Hand(d) # {} /\ mem[d].late
    /\ row' = Released(Hand(d))
    /\ held' = [held EXCEPT ![d] = @ \ Hand(d)]
    /\ UNCHANGED <<camp, envVars, logVars, upsets, pc, flight, mem>>

\* The address is in the batch's copy of the suppression list.
SuppressesOnSight(d, r) ==
    ~mem[d].late /\ ChecksSuppression(r) /\ r[2] \in mem[d].seen

Suppress(d, r) ==
    /\ pc[d] = "send" /\ r \in Hand(d)
    /\ SuppressesOnSight(d, r)
    /\ row[r].st # "ABSENT"
    /\ row' = Settled(r, "SUPPRESSED")
    /\ held' = [held EXCEPT ![d] = @ \ {r}]
    /\ UNCHANGED <<camp, envVars, logVars, upsets, pc, flight, mem>>

\* The answers a hand-over can meet, with what has then reached the provider.
\* classifySendError calls an error it does not know transient.
Answer(res, sent) == [res |-> res, sent |-> sent]

Answers(d) ==
    IF ~mem[d].on THEN {Answer("SUPPRESSED", 0)}
    ELSE {Answer("SENT", 1)}
         \cup IF "refusal" \in Events
              THEN {Answer(res, 0) : res \in {"transient", "permanent", "render"}} ELSE {}
         \cup IF "lostReply" \in Events THEN {Answer("transient", 1)} ELSE {}

\* session.send, or a message that cannot be prepared.
HandOver(d, r) ==
    /\ pc[d] = "send" /\ r \in Hand(d)
    /\ ~mem[d].late /\ ~SuppressesOnSight(d, r)
    /\ \E answer \in Answers(d) :
         /\ mem' = [mem EXCEPT ![d].res = answer.res]
         /\ mailed' = [mailed EXCEPT ![r] = @ + answer.sent]
         /\ tries' = IF answer.res \in {"SUPPRESSED", "render"} THEN tries
                     ELSE [tries EXCEPT ![r] = @ + 1]
    /\ flight' = [flight EXCEPT ![d] = {r}]
    /\ Goto(d, "settle")
    /\ UNCHANGED <<dbVars, envVars, upsets, held>>

\* settle and failRow write by id alone, whatever the row has become.
Charged(x, status, due) ==
    [Freed(x, status) EXCEPT !.att = x.att + 1, !.due = due]

\* Mutant: one attempt too many.
SettlementOffByOne(d, r) ==
    CASE mem[d].res = "SENT" -> Freed(row[r], "SENT")
      [] mem[d].res = "transient" /\ row[r].att + 1 <= MaxAttempts ->
            Charged(row[r], "PENDING", FALSE)
      [] OTHER -> Charged(row[r], "FAILED", row[r].due)

\* Mutant: what is not tried again counts as sent.
SettlementTrusting(d, r) ==
    IF mem[d].res = "transient" /\ row[r].att + 1 < MaxAttempts
    THEN Charged(row[r], "PENDING", FALSE) ELSE Freed(row[r], "SENT")

Settlement(d, r) ==
    CASE mem[d].res = "SENT" -> Freed(row[r], "SENT")
      [] mem[d].res = "transient" /\ row[r].att + 1 < MaxAttempts ->
            Charged(row[r], "PENDING", FALSE)
      [] OTHER -> Charged(row[r], "FAILED", row[r].due)

Settle(d, r) ==
    /\ pc[d] = "settle" /\ r \in flight[d]
    /\ mem[d].res # "SUPPRESSED"
    /\ row[r].st # "ABSENT"
    /\ row' = [row EXCEPT ![r] = Settlement(d, r)]
    /\ held' = [held EXCEPT ![d] = @ \ {r}]
    /\ flight' = [flight EXCEPT ![d] = {}]
    /\ mem' = [mem EXCEPT ![d].res = "none"]
    /\ Goto(d, "send")
    /\ UNCHANGED <<camp, envVars, logVars, upsets>>

\* Sending is off now: this row waits again, the rest of its campaign's rows is
\* given back, and the drain stops, whatever else it holds.
Pause(d, r) ==
    /\ pc[d] = "settle" /\ r \in flight[d]
    /\ mem[d].res = "SUPPRESSED"
    /\ row[r].st # "ABSENT"
    /\ row' = Abandoned([Released(Hand(d) \ {r}) EXCEPT ![r] = Freed(row[r], "PENDING")], d)
    /\ held' = [held EXCEPT ![d] = {}]
    /\ flight' = [flight EXCEPT ![d] = {}]
    /\ Closing(d, mem[d].touched)
    /\ UNCHANGED <<camp, envVars, logVars, upsets>>

\* Mutant: only the rows that wait are counted.
CompleteIfNoneWaits(d, c) ==
    /\ pc[d] = "close" /\ c \in mem[d].todo
    /\ camp[c].st # "ABSENT"
    /\ camp' = IF camp[c].st = "SENDING" /\ \A r \in RowsOf(c) : row[r].st # "PENDING"
               THEN [camp EXCEPT ![c].st = "SENT"] ELSE camp
    /\ mem' = [mem EXCEPT ![d].todo = @ \ {c}]
    /\ UNCHANGED <<row, envVars, logVars, upsets, pc, held, flight>>

\* completeIfDone, in one statement.
CompleteIfDone(d, c) ==
    /\ pc[d] = "close" /\ c \in mem[d].todo
    /\ camp[c].st # "ABSENT"
    /\ camp' = IF camp[c].st = "SENDING" /\ \A r \in RowsOf(c) : ~Open(r)
               THEN [camp EXCEPT ![c].st = "SENT"] ELSE camp
    /\ mem' = [mem EXCEPT ![d].todo = @ \ {c}]
    /\ UNCHANGED <<row, envVars, logVars, upsets, pc, held, flight>>

Return(d) ==
    /\ pc[d] = "close" /\ mem[d].todo = {}
    /\ mem' = [mem EXCEPT ![d] = Blank]
    /\ Goto(d, "idle")
    /\ UNCHANGED <<storeVars, held, flight>>

-----------------------------------------------------------------------------
\* The drain ends where it stands: the rest of the call does not happen.
Stop(d) ==
    /\ row' = Abandoned(row, d)
    /\ held' = [held EXCEPT ![d] = {}]
    /\ flight' = [flight EXCEPT ![d] = {}]
    /\ mem' = [mem EXCEPT ![d] = Blank]
    /\ Goto(d, "idle")
    /\ UNCHANGED <<camp, envVars, logVars>>

Crash(d) ==
    /\ "crash" \in Events /\ pc[d] # "idle"
    /\ Upset
    /\ Stop(d)

\* A read or an update of a row that has been deleted throws.
Throw(d) ==
    /\ \/ pc[d] \in {"due", "close"} /\ \E c \in mem[d].todo : camp[c].st = "ABSENT"
       \/ pc[d] = "batch" /\ \E c \in CampaignsOf(held[d]) : camp[c].st = "ABSENT"
       \/ pc[d] = "send" /\ \E r \in Hand(d) : SuppressesOnSight(d, r) /\ row[r].st = "ABSENT"
       \/ pc[d] = "settle" /\ \E r \in flight[d] : row[r].st = "ABSENT"
    /\ Stop(d)
    /\ UNCHANGED upsets

DrainStep(d) ==
    \/ ExpireLeases(d) \/ Gate(d) \/ Claim(d) \/ NothingToClaim(d) \/ Select(d)
    \/ BatchDone(d) \/ CampaignDone(d) \/ GiveBack(d) \/ Return(d) \/ Throw(d)
    \/ \E c \in Campaign : StartDue(d, c) \/ OpenSession(d, c)
                           \/ CancelForTarget(d, c) \/ CompleteIfDone(d, c)
    \/ \E r \in Row : Suppress(d, r) \/ HandOver(d, r) \/ Settle(d, r) \/ Pause(d, r)

\* The 240 s budget ends.
BudgetEnds(d) ==
    /\ "late" \in Events /\ pc[d] \notin {"idle", "close"} /\ ~mem[d].late
    /\ Upset
    /\ mem' = [mem EXCEPT ![d].late = TRUE]
    /\ UNCHANGED <<dbVars, envVars, logVars, pc, held, flight>>

\* A claim grows older than the lease.  The budget is shorter than the lease, so
\* a drain that still runs has used up its budget and hangs in one send.
LeaseEnds(r) ==
    /\ row[r].st = "SENDING" /\ ~row[r].old
    /\ \/ row[r].tok = Nobody
       \/ /\ "slowSend" \in Events
          /\ \E d \in Drain : row[r].tok = d /\ mem[d].late /\ pc[d] = "settle"
    /\ row' = [row EXCEPT ![r].old = TRUE]
    /\ UNCHANGED <<camp, envVars, logVars, upsets, drainVars>>

\* runAfter comes.
BackoffEnds(r) ==
    /\ row[r].st = "PENDING" /\ ~row[r].due
    /\ row' = [row EXCEPT ![r].due = TRUE]
    /\ UNCHANGED <<camp, envVars, logVars, upsets, drainVars>>

RunnerNext ==
    \/ \E d \in Drain : \/ CronTick(d) \/ DrainStep(d) \/ Crash(d) \/ BudgetEnds(d)
                        \/ \E c \in Campaign : Kick(d, c)
    \/ \E r \in Row : LeaseEnds(r) \/ BackoffEnds(r)
=============================================================================
