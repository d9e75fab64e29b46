--------------------------- MODULE Announcements ---------------------------
(***************************************************************************)
(* The whole announcement system: staff (CampaignDesk) and runners         *)
(* (AnnouncementRunner) over one store, with the readers who opt out, the  *)
(* editors who move a course and the administrators who switch e-mail off. *)
(***************************************************************************)
EXTENDS CampaignDesk, AnnouncementRunner

vars == <<storeVars, drainVars, ask>>

Init == StoreInit /\ DeskInit /\ DrainInit

-----------------------------------------------------------------------------
\* An administrator flips email.enabled, or the announcement template.
Toggle(s) ==
    /\ s \in Events
    /\ Upset
    /\ off' = IF s \in off THEN off \ {s} ELSE off \cup {s}
    /\ UNCHANGED <<dbVars, logVars, target, suppressed>>

\* unsubscribeFromAnnouncements, and resubscribeToAnnouncements.
OptOut(a) ==
    /\ "optOut" \in Events
    /\ Upset
    /\ suppressed' = IF a \in suppressed THEN suppressed \ {a} ELSE suppressed \cup {a}
    /\ UNCHANGED <<dbVars, logVars, target, off>>

\* A course goes live, is withdrawn or is put back; a custom e-mail's default
\* locale is changed to one it has no words in.  Its day coming is no disturbance.
TargetMoves(c) ==
    /\ "target" \in Events
    /\ \E t \in {"live", "scheduled", "unavailable"} \ {target[c]} :
         /\ Kind[c] # "COURSE" => t # "scheduled"
         /\ IF target[c] = "scheduled" /\ t = "live" THEN UNCHANGED upsets ELSE Upset
         /\ target' = [target EXCEPT ![c] = t]
    /\ UNCHANGED <<dbVars, logVars, off, suppressed>>

\* scheduledFor comes.
ClockReaches(c) ==
    /\ camp[c].st = "SCHEDULED" /\ ~camp[c].due
    /\ camp' = [camp EXCEPT ![c].due = TRUE]
    /\ UNCHANGED <<row, envVars, logVars, upsets>>

\* purgeAnnouncementRecipients, 90 days after the campaign finished: the calls
\* and requests that were under way then are long over.
Purge(c) ==
    /\ "purge" \in Events
    /\ Finished(c)
    /\ \A d \in Drain : c \notin CampaignsOf(held[d]) /\ pc[d] # "select"
    /\ ~ \E p \in Admin : About(p, c)
    /\ Upset
    /\ row' = [r \in Row |-> IF r[1] = c THEN NoRow ELSE row[r]]
    /\ UNCHANGED <<camp, envVars, logVars>>

Surroundings ==
    \/ \E s \in Switch : Toggle(s)
    \/ \E a \in Address : OptOut(a)
    \/ \E c \in Campaign : TargetMoves(c) \/ ClockReaches(c) \/ Purge(c)

Next ==
    \/ DeskNext /\ UNCHANGED drainVars
    \/ RunnerNext /\ UNCHANGED ask
    \/ Surroundings /\ UNCHANGED <<drainVars, ask>>

Spec == Init /\ [][Next]_vars

\* docs/ops/cron.md: the route is called every minute, and a call that runs goes
\* on; time passes.  Nothing is assumed of staff, readers, or the kicks.
Fairness ==
    /\ \A d \in Drain : WF_vars(CronTick(d) /\ UNCHANGED ask)
                        /\ WF_vars(DrainStep(d) /\ UNCHANGED ask)
    /\ \A r \in Row : /\ WF_vars(LeaseEnds(r) /\ UNCHANGED ask)
                      /\ WF_vars(BackoffEnds(r) /\ UNCHANGED ask)
    /\ \A c \in Campaign : WF_vars(ClockReaches(c) /\ UNCHANGED <<drainVars, ask>>)
    /\ \A p \in Admin : WF_vars(Write(p) /\ UNCHANGED drainVars)

FairSpec == Spec /\ Fairness

-----------------------------------------------------------------------------
\* The type invariant of the whole: tables, requests and drains.
TypeOK == StoreTypeOK /\ DeskTypeOK /\ DrainTypeOK

\* One announcement reaches one address at most once (ADR-171 #2, #3;
\* announcement-runner.ts:7-11).
AtMostOnce == \A r \in Row : mailed[r] <= 1

\* Two overlapping drains never have the same row in hand (claimRecipients).
OneHolder ==
    \A d, e \in Drain : d # e => held[d] \cap held[e] = {}

\* A row is handed to the provider at most three times before it is failed for
\* good (ANNOUNCEMENT_RETRY_DELAYS_MS): a release and a lease count for nothing.
TriesBounded == \A r \in Row : tries[r] <= MaxAttempts

\* A campaign reported SENT has no row left to send (completeIfDone).
SentIsClosed ==
    \A c \in Campaign : camp[c].st = "SENT" => \A r \in RowsOf(c) : ~Open(r)

\* A row reported as sent was taken by the provider (settle writes SENT only for
\* an accepted message): the detail screen's numbers.
ReportIsTrue ==
    \A r \in Row : row[r].st = "SENT" => mailed[r] > 0

\* A row still marked SENDING has a running drain to settle it (settle: "the row
\* is not burned"; drainAnnouncementQueue: give back every row still held).
NoRowStranded ==
    \A r \in Row : row[r].st = "SENDING" => row[r].tok # Nobody

\* Cancelling leaves no row waiting (cancelAnnouncement).  Not kept: see README.
CancelledHasNoPending ==
    \A c \in Campaign :
        camp[c].st = "CANCELLED" => \A r \in RowsOf(c) : row[r].st # "PENDING"

\* A row once SENT stays SENT until it is purged or its draft deleted.
SentIsFinal ==
    [][\A r \in Row : row[r].st = "SENT" => row'[r].st \in {"SENT", "ABSENT"}]_vars

\* The answer to r that drain d was waiting for is settled.
Answered(d, r) == r \in flight[d] /\ r \notin flight'[d]

\* What a lease or an error has failed waits again because a person retries it, or else
\* because the send that outlived its lease is answered at last, and has mailed nothing
\* (expireLeases; settle, which writes by id alone; retryFailedRecipients).
FailedComesBackUnsent ==
    [][\A r \in Row :
         row[r].st = "FAILED" /\ row'[r].st = "PENDING" =>
            \/ \E p \in Admin : Asked(p, "retry", r[1]) /\ ask'[p] = Idle
            \/ mailed[r] = 0 /\ \E d \in Drain : Answered(d, r)]_vars

\* A draft is started by the person who presses Send, never by the cron
\* (startDueAnnouncements starts SCHEDULED campaigns).  Not kept: see README.
DraftWaitsForSend ==
    [][\A c \in Campaign :
         camp[c].st = "DRAFT" /\ camp'[c].st \in {"SENDING", "SENT"} =>
            \E p \in Admin : Asked(p, "queue", c)]_vars

\* No message goes to an address that has opted out by then (ADR-171 #5).  Not kept: see
\* README.
OptOutIsHonoured ==
    [][\A r \in Row : mailed'[r] > mailed[r] /\ ChecksSuppression(r)
                         => r[2] \notin suppressed]_vars

\* Deleting is for drafts (deleteAnnouncementDraft): a campaign that is being
\* sent does not vanish under its recipients.  Not kept: see README.
OnlyDraftsVanish ==
    [][\A c \in Campaign : camp'[c].st = "ABSENT" => camp[c].st \in {"ABSENT", "DRAFT"}]_vars

\* The promise each recipient has, read off the tables and the provider.
Fate(r) ==
    IF mailed[r] = 0
    THEN CASE row[r].st = "ABSENT" ->
                 IF camp[r[1]].st = "ABSENT" /\ Kind[r[1]] # "DIRECT"
                 THEN "withdrawn" ELSE "out"
           [] Open(r)              -> "waiting"
           [] OTHER                -> "closed"
    ELSE CASE mailed[r] > 1 \/ row[r].st = "PENDING" -> "again"
           [] row[r].st = "ABSENT" -> "forgotten"
           [] row[r].st = "SENT"   -> "told"
           [] OTHER                -> "reached"

Mail == INSTANCE AtMostOnceMail WITH Recipient <- Row, fate <- [r \in Row |-> Fate(r)]

\* The system implements the at-most-once promise (ADR-171 #2, #3).
KeepsPromise == Mail!Spec

\* While e-mail stays on, a campaign that is being sent is finished one day.
SendingEnds ==
    (<>[](off = {})) =>
        \A c \in Campaign : camp[c].st = "SENDING" ~> camp[c].st # "SENDING"

\* Campaigns no younger than c that wait for their course use up the list of those that
\* are due, at every drain (startDueAnnouncements).
Crowded(c) ==
    DueLimit <= Cardinality({e \in Campaign \ {c} :
                   /\ camp[e].st = "SCHEDULED" /\ camp[e].due /\ camp[e].live
                   /\ Availability(e) = "scheduled"
                   /\ CreatedAt[e] <= CreatedAt[c]})

\* While e-mail stays on, a campaign due for a live target is started one day, unless
\* older ones that wait for their course crowd it out of the list for good.
DueStarts ==
    \A c \in Campaign :
        (<>[](off = {} /\ ~Crowded(c))) =>
            (camp[c].st = "SCHEDULED" /\ Availability(c) = "live"
                ~> camp[c].st # "SCHEDULED" \/ Availability(c) # "live")

-----------------------------------------------------------------------------
(***************************************************************************)
(* The inductive invariants behind the properties above.  ClaimInv holds   *)
(* as long as nobody retries, or no drain loses a claim (ClaimsKept);      *)
(* MailInv needs besides that no answer of the provider is lost.           *)
(***************************************************************************)
\* A claim has an owner, and the owner knows: it is about to read its claim
\* back, or has the row in memory.
ClaimIsKnown ==
    \A r \in Row : \A d \in Drain :
        row[r].tok = d => /\ row[r].st = "SENDING"
                          /\ pc[d] = "select" \/ r \in held[d]

\* A row in a drain's memory is that drain's, or has been closed meanwhile by a
\* lease, a cancelled target or a deleted draft.
HeldIsOwn ==
    \A d \in Drain : \A r \in held[d] :
        /\ row[r].st \in {"SENDING", "FAILED", "SKIPPED", "ABSENT"}
        /\ row[r].st = "SENDING" => row[r].tok = d
        /\ row[r].st = "ABSENT" => camp[r[1]].st = "ABSENT" /\ Kind[r[1]] # "DIRECT"

HeldWhileSending ==
    \A d \in Drain :
        /\ held[d] # {} => pc[d] \in {"batch", "send", "settle"}
        /\ flight[d] \subseteq held[d]
        /\ flight[d] # {} => pc[d] = "settle"
        /\ \A r, s \in flight[d] : r = s

\* A deleted or unborn campaign has no rows; a direct e-mail is never a draft.
NoOrphans ==
    /\ \A r \in Row : camp[r[1]].st = "ABSENT" => row[r].st = "ABSENT"
    /\ \A c \in Campaign : Kind[c] = "DIRECT" => camp[c].st \notin {"DRAFT", "SCHEDULED"}
    /\ \A p \in Admin, c \in Campaign, op \in {"queue", "schedule", "delete"} :
          Asked(p, op, c) => Kind[c] # "DIRECT"

\* Every claim (claimRecipients) has one drain that knows of it, inductively.
ClaimInv == OneHolder /\ ClaimIsKnown /\ HeldIsOwn /\ HeldWhileSending /\ NoOrphans

\* Nothing has gone out for a row that waits, or is claimed and not in flight.
UnsentIsUnsent ==
    /\ \A r \in Row : row[r].st = "PENDING" => mailed[r] = 0
    /\ \A d \in Drain : \A r \in held[d] :
          IF r \in flight[d] THEN mailed[r] = IF mem[d].res = "SENT" THEN 1 ELSE 0
          ELSE mailed[r] = 0
    /\ \A d \in Drain, r \in Row :
          pc[d] = "select" /\ row[r].tok = d => mailed[r] = 0

\* A row that is gone after it was handed over cannot be listed again.
HandedOver(r) == mailed[r] > 0 \/ tries[r] > 0

GoneForGood ==
    \A r \in Row :
        row[r].st = "ABSENT" /\ HandedOver(r) =>
            \/ camp[r[1]].st = "ABSENT" /\ Kind[r[1]] # "DIRECT"
            \/ /\ camp[r[1]].st \in {"SENDING", "SENT", "CANCELLED"}
               /\ \A p \in Admin : \A op \in {"queue", "schedule"} : ~Asked(p, op, r[1])

\* Nobody is mailed twice, nothing is misreported, and why (settle, expireLeases).
MailInv == AtMostOnce /\ ReportIsTrue /\ UnsentIsUnsent /\ GoneForGood

\* An instance in which no drain loses a claim: no process dies, no send outlasts
\* the lease, nobody switches sending off, and no campaign is deleted.
LeasesLast ==
    /\ Events \cap {"crash", "slowSend", "email.enabled", "template"} = {}
    /\ "delete" \notin Ops

\* Failed rows are brought back by nobody, or only where claims are not lost.
RetryIsSafe == "retry" \notin Ops \/ LeasesLast

\* Every claim ends in the hands of the drain that made it.
ClaimsKept ==
    /\ off = {}
    /\ \A r \in Row : ~row[r].old /\ (row[r].st = "SENDING" => row[r].tok # Nobody)
    /\ \A d \in Drain :
          /\ pc[d] # "expire" /\ mem[d].on /\ mem[d].res # "SUPPRESSED"
          /\ \A c \in mem[d].todo \cup mem[d].touched : camp[c].st # "ABSENT"
          /\ \A r \in held[d] : row[r].st \in {"SENDING", "SKIPPED"}

\* A failed row may be retried: its message has not gone out.
FailedIsUnsent == \A r \in Row : row[r].st = "FAILED" => mailed[r] = 0

\* What a row was charged covers its hand-overs, and leaves room for another: so
\* far as it waits or is in hand, and no answer is outstanding.
Room(r) == tries[r] <= row[r].att /\ row[r].att < MaxAttempts

TriesFit ==
    /\ TriesBounded
    /\ \A r \in Row : row[r].st = "PENDING" => Room(r)
    /\ \A d \in Drain, r \in Row : pc[d] = "select" /\ row[r].tok = d => Room(r)
    /\ \A d \in Drain : \A r \in held[d] :
          IF r \in flight[d]
          THEN row[r].st # "ABSENT" =>
                  /\ tries[r] <= row[r].att + 1 /\ row[r].att < MaxAttempts
                  /\ mem[d].res = "SUPPRESSED" => Room(r)
          ELSE tries[r] < MaxAttempts /\ (row[r].st # "ABSENT" => Room(r))

\* A campaign that has been started, or that a request under way may start.
Underway(c) ==
    \/ camp[c].st \in {"SENDING", "SENT"}
    \/ \E p \in Admin : Asked(p, "retry", c) \/ (Asked(p, "queue", c) /\ ~ask[p].wait)

\* Such a campaign has something to say; while no target moves, a row in hand is
\* therefore never closed under the drain.
SourceThere ==
    /\ \A c \in Campaign :
          /\ Kind[c] # "COURSE" => target[c] = "live"
          /\ Underway(c) => ~SourceMissing(c)
    /\ \A d \in Drain : \A r \in held[d] : row[r].st = "SENDING" /\ ~SourceMissing(r[1])
=============================================================================
