-------------------------- MODULE TranslationQueue --------------------------
(***************************************************************************)
(* The translation job queue (packages/translate/src/jobs.ts), the job     *)
(* handler every translatable type shares (packages/core/src/              *)
(* translation-engine.ts), the saves that enqueue (translation-queue.ts,   *)
(* courses.ts) and the people whose texts the machine must not touch.      *)
(*                                                                         *)
(* A runner is one call of runTranslationWork: the cron's, or the after()  *)
(* of a save.  A text is a number: the version of the English source that  *)
(* it is, or that it was made from, which is what the hashes compare.  The *)
(* walk that enqueues a whole locale is LocaleBackfill's; here any of its  *)
(* pages may come at any time.                                             *)
(***************************************************************************)
EXTENDS Naturals, FiniteSets

CONSTANTS
    Entity,       \* translatable entities (courses, in the save's details)
    Locale,       \* every locale but the default one
    Runner,       \* slots for concurrent runners
    Cron,         \* those of them that are the cron's
    Editor,       \* slots for concurrent saves of an English source
    Person,       \* slots for concurrent saves of a translation
    Nobody,       \* a claim token no runner holds (or no token)
    MaxAttempts,  \* MAX_ATTEMPTS
    ClaimLimit,   \* DEFAULT_CLAIM_LIMIT
    MaxEdits,     \* bound on the saves of one source
    Worlds        \* what a behaviour may meet with, see World

\* crash, saveDies: a runner's, or a save's, process dies.  slow: a batch outlasts
\* the lease.  error, quota, doubt: what comes of a provider's answer.  person: a
\* translation is saved; suggestion: one the machine wrote and nobody changed.
\* delete, locale, retry, backfill: an entity is deleted, a locale switched, Retry
\* failed pressed, a page of a backfill enqueued.
EventKind == {"crash", "saveDies", "slow", "error", "quota", "doubt", "person",
              "suggestion", "delete", "locale", "retry", "backfill"}

\* may: the kinds of events that may happen.  edits: bound on the saves of one
\* source.  upsets: bound on disturbances.
World == [may : SUBSET EventKind, edits : 0..MaxEdits, upsets : Nat]

ASSUME QueueAssumption ==
    /\ Cron \subseteq Runner
    /\ Nobody \notin Runner
    /\ MaxAttempts \in Nat \ {0}
    /\ ClaimLimit \in Nat \ {0}
    /\ MaxEdits \in Nat
    /\ Worlds \subseteq World

VARIABLES
    src,      \* src[e]: the version of the English source
    tr,       \* tr[k]: the translation row of k = <<entity, locale>>
    active,   \* the locales that are served
    job,      \* job[k]: the ITEM job
    pc,       \* pc[r]: where the runner is
    hand,     \* hand[r]: jobs it claimed and has not settled
    mem,      \* mem[r]: its other local variables
    edit,     \* edit[p]: what a save of a source has still to do
    pen,      \* pen[q]: the hash a translator's save has read
    world     \* what may happen in this behaviour, and how often still (auxiliary)

rowVars == <<src, tr, active>>
runVars == <<pc, hand, mem>>
deskVars == <<edit, pen>>
vars == <<rowVars, job, runVars, deskVars, world>>

-----------------------------------------------------------------------------
Key == Entity \X Locale
Version == 0..MaxEdits
Gone == MaxEdits + 1      \* loadSource returns null

Human == {"TRANSLATED", "OUTDATED", "NEEDS_REVIEW"}
Target == [st : Human \cup {"none", "MACHINE_TRANSLATED"}, of : Version]

JobStatus == {"ABSENT", "PENDING", "RUNNING", "DONE", "FAILED"}
Job == [st : JobStatus, att : Nat, due : BOOLEAN,
        tok : Runner \cup {Nobody}, rerun : BOOLEAN, old : BOOLEAN]

Phase == {"idle", "recover", "claim", "pick", "source", "target", "flag",
          "translate", "write", "finish", "requeue"}

\* scope: the entities asked for.  known: the locales that were active at the
\* start.  at: the job at work.  hash: of the source as read.  att: the attempts
\* as claimed.
Mem == [scope : SUBSET Entity, known : SUBSET Locale, at : SUBSET Key,
        hash : Version \cup {Gone}, att : [Key -> Nat]]

Blank == [scope |-> {}, known |-> {}, at |-> {}, hash |-> 0,
          att |-> [k \in Key |-> 0]]
NoJob == [st |-> "ABSENT", att |-> 0, due |-> TRUE, tok |-> Nobody,
          rerun |-> FALSE, old |-> FALSE]
NoEdit == [phase |-> "none"]
NoPen == [on |-> "none"]

\* The type invariant of the translation rows, the jobs and their runners.
TypeOK ==
    /\ src \in [Entity -> Version \cup {Gone}]
    /\ tr \in [Key -> Target]
    /\ active \subseteq Locale
    /\ job \in [Key -> Job]
    /\ pc \in [Runner -> Phase]
    /\ hand \in [Runner -> SUBSET Key]
    /\ mem \in [Runner -> Mem]
    /\ edit \in [Editor -> [phase : {"read", "sweep", "enqueue"}, on : Entity,
                            hash : Version \cup {Gone}] \cup {NoEdit}]
    /\ pen \in [Person -> [on : Key, of : Version] \cup {NoPen}]
    /\ world \in World

Init ==
    /\ src = [e \in Entity |-> 0]
    /\ tr = [k \in Key |-> [st |-> "none", of |-> 0]]
    /\ active = Locale
    /\ job = [k \in Key |-> NoJob]
    /\ pc = [r \in Runner |-> "idle"]
    /\ hand = [r \in Runner |-> {}]
    /\ mem = [r \in Runner |-> Blank]
    /\ edit = [p \in Editor |-> NoEdit]
    /\ pen = [q \in Person |-> NoPen]
    /\ world \in Worlds

Upset == world.upsets > 0 /\ world' = [world EXCEPT !.upsets = @ - 1]

-----------------------------------------------------------------------------
(***************************************************************************)
(* Enqueueing.                                                             *)
(***************************************************************************)
\* INSERT ... ON DUPLICATE KEY UPDATE for one key.
Enqueued(j) ==
    CASE j.st = "ABSENT"             -> [NoJob EXCEPT !.st = "PENDING"]
      [] j.st \in {"DONE", "FAILED"} -> [j EXCEPT !.st = "PENDING", !.att = 0,
                                                  !.due = TRUE, !.tok = Nobody]
      [] j.st = "RUNNING"            -> [j EXCEPT !.rerun = TRUE]
      [] j.st = "PENDING"            -> j

EnqueueAll(S) == job' = [k \in Key |-> IF k \in S THEN Enqueued(job[k]) ELSE job[k]]

\* A save of the English source commits ...
SaveSource(p, e) ==
    /\ edit[p] = NoEdit
    /\ src[e] < world.edits
    /\ src' = [src EXCEPT ![e] = @ + 1]
    /\ edit' = [edit EXCEPT ![p] = [phase |-> "read", on |-> e, hash |-> 0]]
    /\ UNCHANGED <<tr, active, job, runVars, pen, world>>

\* ... its hash is read back ...
ReadBack(p) ==
    /\ edit[p] # NoEdit /\ edit[p].phase = "read"
    /\ edit' = [edit EXCEPT ![p].phase = "sweep", ![p].hash = src[edit[p].on]]
    /\ UNCHANGED <<rowVars, job, runVars, pen, world>>

\* ... afterSourceSave flags the people's translations of another hash ...
Sweep(p) ==
    /\ edit[p] # NoEdit /\ edit[p].phase = "sweep"
    /\ tr' = [k \in Key |->
                IF /\ edit[p].hash # Gone
                   /\ k[1] = edit[p].on /\ tr[k].st = "TRANSLATED"
                   /\ tr[k].of # edit[p].hash
                THEN [tr[k] EXCEPT !.st = "OUTDATED"] ELSE tr[k]]
    /\ edit' = [edit EXCEPT ![p].phase = "enqueue"]
    /\ UNCHANGED <<src, active, job, runVars, pen, world>>

\* ... and enqueues one job per active locale.
Enqueue(p) ==
    /\ edit[p] # NoEdit /\ edit[p].phase = "enqueue"
    /\ EnqueueAll({edit[p].on} \X active)
    /\ edit' = [edit EXCEPT ![p] = NoEdit]
    /\ UNCHANGED <<rowVars, runVars, pen, world>>

\* One entity of a backfill's page: see LocaleBackfill.
BackfillPage(e, l) ==
    /\ "backfill" \in world.may
    /\ src[e] # Gone
    /\ Upset
    /\ EnqueueAll({<<e, l>>})
    /\ UNCHANGED <<rowVars, runVars, deskVars>>

-----------------------------------------------------------------------------
(***************************************************************************)
(* A runner.                                                               *)
(***************************************************************************)
Goto(r, phase) == pc' = [pc EXCEPT ![r] = phase]
At(r, phase, k) == pc[r] = phase /\ k \in mem[r].at

\* runTranslationWork, for every entity (the cron) or the one just saved (after()):
\* activeLocaleCheck is read once per call.
Tick(r) ==
    /\ pc[r] = "idle"
    /\ \E scope \in IF r \in Cron THEN {Entity} ELSE {{e} : e \in Entity} :
         mem' = [mem EXCEPT ![r] = [Blank EXCEPT !.scope = scope, !.known = active]]
    /\ Goto(r, "recover")
    /\ UNCHANGED <<rowVars, job, hand, deskVars, world>>

\* Mutant: the lease is taken off, the status left.
RecoveredNot(j) == [j EXCEPT !.tok = Nobody, !.old = FALSE]

\* recoverStaleJobs: `rerun' and the attempts stay as they are.
Recovered(j) == [j EXCEPT !.st = "PENDING", !.tok = Nobody, !.old = FALSE]

Recover(r) ==
    /\ pc[r] = "recover"
    /\ job' = [k \in Key |-> IF job[k].st = "RUNNING" /\ job[k].old
                             THEN Recovered(job[k]) ELSE job[k]]
    /\ Goto(r, "claim")
    /\ UNCHANGED <<rowVars, hand, mem, deskVars, world>>

\* Mutant: the claim does not ask for PENDING.
ClaimableOpen(r) ==
    {k \in Key : k[1] \in mem[r].scope /\ job[k].st \in {"PENDING", "RUNNING"} /\ job[k].due}

\* claimJobs: the rows its WHERE accepts.
Claimable(r) ==
    {k \in Key : k[1] \in mem[r].scope /\ job[k].st = "PENDING" /\ job[k].due}

Claimed(j, r) == [j EXCEPT !.st = "RUNNING", !.tok = r, !.rerun = FALSE, !.old = FALSE]

Claim(r) ==
    /\ pc[r] = "claim"
    /\ \E S \in SUBSET Claimable(r) :
         /\ S # {}
         /\ S = Claimable(r) \/ Cardinality(S) = ClaimLimit
         /\ Cardinality(S) <= ClaimLimit
         /\ job' = [k \in Key |-> IF k \in S THEN Claimed(job[k], r) ELSE job[k]]
         /\ hand' = [hand EXCEPT ![r] = S]
         /\ mem' = [mem EXCEPT ![r].att = [k \in Key |-> IF k \in S THEN job[k].att ELSE 0]]
    /\ Goto(r, "pick")
    /\ UNCHANGED <<rowVars, deskVars, world>>

NothingDue(r) ==
    /\ pc[r] = "claim"
    /\ Claimable(r) = {}
    /\ Goto(r, "idle")
    /\ mem' = [mem EXCEPT ![r] = Blank]
    /\ UNCHANGED <<rowVars, job, hand, deskVars, world>>

\* runClaimedJobs, the next job: one of an inactive locale is finished unread.
Pick(r, k) ==
    /\ pc[r] = "pick" /\ k \in hand[r]
    /\ mem' = [mem EXCEPT ![r].at = {k}]
    /\ Goto(r, IF k[2] \in mem[r].known THEN "source" ELSE "finish")
    /\ UNCHANGED <<rowVars, job, hand, deskVars, world>>

BatchDone(r) ==
    /\ pc[r] = "pick" /\ hand[r] = {}
    /\ Goto(r, "idle")
    /\ mem' = [mem EXCEPT ![r] = Blank]
    /\ UNCHANGED <<rowVars, job, hand, deskVars, world>>

\* translationJobHandler reads the source ...
ReadSource(r, k) ==
    /\ At(r, "source", k)
    /\ mem' = [mem EXCEPT ![r].hash = src[k[1]]]
    /\ Goto(r, IF src[k[1]] = Gone THEN "finish" ELSE "target")
    /\ UNCHANGED <<rowVars, job, hand, deskVars, world>>

\* ... then the target: a person's is theirs, a current one needs nothing.
ReadTarget(r, k) ==
    /\ At(r, "target", k)
    /\ Goto(r, CASE tr[k].st = "TRANSLATED" /\ tr[k].of # mem[r].hash -> "flag"
                 [] tr[k].st \in Human /\ ~(tr[k].st = "TRANSLATED" /\ tr[k].of # mem[r].hash)
                      -> "finish"
                 [] tr[k].st = "MACHINE_TRANSLATED" /\ tr[k].of = mem[r].hash -> "finish"
                 [] OTHER -> "translate")
    /\ UNCHANGED <<rowVars, job, hand, mem, deskVars, world>>

\* Mutant: the flag is the wrong one.
FlagAsDraft(r, k) ==
    /\ At(r, "flag", k)
    /\ tr' = [tr EXCEPT ![k].st = "DRAFT"]
    /\ Goto(r, "finish")
    /\ UNCHANGED <<src, active, job, hand, mem, deskVars, world>>

\* UPDATE ... SET OUTDATED WHERE translationStatus = 'TRANSLATED'.
Flag(r, k) ==
    /\ At(r, "flag", k)
    /\ tr' = IF tr[k].st = "TRANSLATED" THEN [tr EXCEPT ![k].st = "OUTDATED"] ELSE tr
    /\ Goto(r, "finish")
    /\ UNCHANGED <<src, active, job, hand, mem, deskVars, world>>

\* The provider answers with a text.
Translate(r, k) ==
    /\ At(r, "translate", k)
    /\ Goto(r, "write")
    /\ UNCHANGED <<rowVars, job, hand, mem, deskVars, world>>

\* Mutant: the target is not read again under the lock.
WriteBlind(r, k) ==
    /\ At(r, "write", k)
    /\ tr' = IF src[k[1]] # Gone /\ src[k[1]] = mem[r].hash
             THEN [tr EXCEPT ![k] = [st |-> "MACHINE_TRANSLATED", of |-> mem[r].hash]] ELSE tr
    /\ Goto(r, IF src[k[1]] # Gone /\ src[k[1]] # mem[r].hash THEN "requeue" ELSE "finish")
    /\ UNCHANGED <<src, active, job, hand, mem, deskVars, world>>

\* The transaction under the locks on source and target.  The number check may
\* doubt the text.
Write(r, k) ==
    /\ At(r, "write", k)
    /\ IF src[k[1]] # Gone /\ src[k[1]] = mem[r].hash /\ tr[k].st \notin Human
       THEN \E st \in {"MACHINE_TRANSLATED"} \cup (IF "doubt" \in world.may
                                                  THEN {"NEEDS_REVIEW"} ELSE {}) :
               tr' = [tr EXCEPT ![k] = [st |-> st, of |-> mem[r].hash]]
       ELSE UNCHANGED tr
    /\ Goto(r, IF src[k[1]] # Gone /\ src[k[1]] # mem[r].hash THEN "requeue" ELSE "finish")
    /\ UNCHANGED <<src, active, job, hand, mem, deskVars, world>>

\* The job is off the runner's list.
Laid(r, k) ==
    /\ hand' = [hand EXCEPT ![r] = @ \ {k}]
    /\ Goto(r, "pick")

\* Mutant: nobody looks at `rerun'.
FinishedForGood(j) ==
    IF j.st = "ABSENT" THEN j
    ELSE [j EXCEPT !.st = "DONE", !.rerun = FALSE, !.tok = Nobody, !.old = FALSE]

\* finish, by id alone: `rerun' turns DONE into another pass.
Finished(j) ==
    IF j.st = "ABSENT" THEN j
    ELSE [j EXCEPT !.st = IF j.rerun THEN "PENDING" ELSE "DONE",
                   !.due = IF j.rerun THEN TRUE ELSE j.due, !.rerun = FALSE, !.tok = Nobody, !.old = FALSE]

Finish(r, k) ==
    /\ At(r, "finish", k)
    /\ job' = [job EXCEPT ![k] = Finished(job[k])]
    /\ Laid(r, k)
    /\ mem' = [mem EXCEPT ![r].at = {}]
    /\ UNCHANGED <<rowVars, deskVars, world>>

\* The source moved while the provider worked: again, by id alone.
Requeue(r, k) ==
    /\ At(r, "requeue", k)
    /\ job' = [job EXCEPT ![k] = [@ EXCEPT !.st = "PENDING", !.due = TRUE,
                                           !.tok = Nobody, !.old = FALSE]]
    /\ Laid(r, k)
    /\ mem' = [mem EXCEPT ![r].at = {}]
    /\ UNCHANGED <<rowVars, deskVars, world>>

\* settle, by id alone, with the attempts as they were claimed.
Charged(j, att) ==
    [j EXCEPT !.st = IF att >= MaxAttempts THEN "FAILED" ELSE "PENDING",
              !.att = att, !.due = IF att >= MaxAttempts THEN j.due ELSE FALSE, !.tok = Nobody, !.old = FALSE]

Fail(r, k) ==
    /\ "error" \in world.may
    /\ At(r, "translate", k) \/ At(r, "write", k)
    /\ job' = [job EXCEPT ![k] = Charged(job[k], mem[r].att[k] + 1)]
    /\ Laid(r, k)
    /\ mem' = [mem EXCEPT ![r].at = {}]
    /\ UNCHANGED <<rowVars, deskVars, world>>

\* Quota or budget: the job waits and no attempt is counted.
Pause(r, k) ==
    /\ "quota" \in world.may
    /\ At(r, "translate", k)
    /\ Upset
    /\ job' = [job EXCEPT ![k] = [@ EXCEPT !.st = "PENDING", !.due = FALSE,
                                           !.tok = Nobody, !.old = FALSE]]
    /\ Laid(r, k)
    /\ mem' = [mem EXCEPT ![r].at = {}]
    /\ UNCHANGED <<rowVars, deskVars>>

\* The runner's process dies: its jobs stay RUNNING under a token nobody has.
Crash(r) ==
    /\ "crash" \in world.may /\ pc[r] # "idle"
    /\ Upset
    /\ job' = [k \in Key |-> IF job[k].tok = r THEN [job[k] EXCEPT !.tok = Nobody] ELSE job[k]]
    /\ hand' = [hand EXCEPT ![r] = {}]
    /\ mem' = [mem EXCEPT ![r] = Blank]
    /\ Goto(r, "idle")
    /\ UNCHANGED <<rowVars, deskVars>>

RunnerStep(r) ==
    \/ Recover(r) \/ Claim(r) \/ NothingDue(r) \/ BatchDone(r)
    \/ \E k \in Key : \/ Pick(r, k) \/ ReadSource(r, k) \/ ReadTarget(r, k) \/ Flag(r, k)
                      \/ Translate(r, k) \/ Write(r, k) \/ Finish(r, k) \/ Requeue(r, k)
                      \/ Fail(r, k) \/ Pause(r, k)

\* Ten minutes after a claim.  The batch has no deadline of its own.
LeaseEnds(k) ==
    /\ job[k].st = "RUNNING" /\ ~job[k].old
    /\ job[k].tok = Nobody \/ "slow" \in world.may
    /\ job' = [job EXCEPT ![k].old = TRUE]
    /\ UNCHANGED <<rowVars, runVars, deskVars, world>>

\* runAfter comes.
BackoffEnds(k) ==
    /\ job[k].st = "PENDING" /\ ~job[k].due
    /\ job' = [job EXCEPT ![k].due = TRUE]
    /\ UNCHANGED <<rowVars, runVars, deskVars, world>>

-----------------------------------------------------------------------------
(***************************************************************************)
(* People.                                                                 *)
(***************************************************************************)
\* A translator's save reads the source's hash, and writes later.
OpenSave(q, k) ==
    /\ "person" \in world.may
    /\ pen[q] = NoPen
    /\ src[k[1]] # Gone
    /\ Upset
    /\ pen' = [pen EXCEPT ![q] = [on |-> k, of |-> src[k[1]]]]
    /\ UNCHANGED <<rowVars, job, runVars, edit>>

\* MACHINE_TRANSLATED while the text is the machine's own, TRANSLATED otherwise.
SaveTranslation(q) ==
    /\ pen[q] # NoPen
    /\ \E st \in {"TRANSLATED"} \cup (IF "suggestion" \in world.may
                                     THEN {"MACHINE_TRANSLATED"} ELSE {}) :
         tr' = [tr EXCEPT ![pen[q].on] = [st |-> st, of |-> pen[q].of]]
    /\ pen' = [pen EXCEPT ![q] = NoPen]
    /\ UNCHANGED <<src, active, job, runVars, edit, world>>

\* A process dies between the save's commit and its enqueue.
SaveDies(p) ==
    /\ "saveDies" \in world.may /\ edit[p] # NoEdit
    /\ Upset
    /\ edit' = [edit EXCEPT ![p] = NoEdit]
    /\ UNCHANGED <<rowVars, job, runVars, pen>>

\* setCourseDeleted and its like: the handler finds nothing to translate.
DeleteSource(e) ==
    /\ "delete" \in world.may
    /\ src[e] # Gone
    /\ Upset
    /\ src' = [src EXCEPT ![e] = Gone]
    /\ UNCHANGED <<tr, active, job, runVars, deskVars>>

\* setLocaleActive: a locale is switched on or off.
SwitchLocale(l) ==
    /\ "locale" \in world.may
    /\ Upset
    /\ active' = IF l \in active THEN active \ {l} ELSE active \cup {l}
    /\ UNCHANGED <<src, tr, job, runVars, deskVars>>

\* retryFailedJobs for one locale.
RetryFailed(l) ==
    /\ "retry" \in world.may
    /\ Upset
    /\ job' = [k \in Key |-> IF k[2] = l /\ job[k].st = "FAILED"
                             THEN [job[k] EXCEPT !.st = "PENDING", !.att = 0, !.due = TRUE,
                                                 !.tok = Nobody]
                             ELSE job[k]]
    /\ UNCHANGED <<rowVars, runVars, deskVars>>

EditorStep(p) == ReadBack(p) \/ Sweep(p) \/ Enqueue(p)

Next ==
    \/ \E r \in Runner : Tick(r) \/ RunnerStep(r) \/ Crash(r)
    \/ \E k \in Key : LeaseEnds(k) \/ BackoffEnds(k)
    \/ \E p \in Editor : \/ EditorStep(p) \/ SaveDies(p)
                         \/ \E e \in Entity : SaveSource(p, e)
    \/ \E q \in Person : SaveTranslation(q) \/ \E k \in Key : OpenSave(q, k)
    \/ \E l \in Locale : \/ SwitchLocale(l) \/ RetryFailed(l)
                         \/ \E e \in Entity : BackfillPage(e, l)
    \/ \E e \in Entity : DeleteSource(e)

Spec == Init /\ [][Next]_vars

\* docs/ops/cron.md: the cron drains every entity every five minutes, and what
\* has begun goes on; time passes.
Fairness ==
    /\ \A r \in Cron : WF_vars(Tick(r))
    /\ \A r \in Runner : WF_vars(RunnerStep(r))
    /\ \A k \in Key : WF_vars(LeaseEnds(k)) /\ WF_vars(BackoffEnds(k))
    /\ \A p \in Editor : WF_vars(EditorStep(p))

FairSpec == Spec /\ Fairness

-----------------------------------------------------------------------------
\* Two runners never work on one job (jobs.ts:14-15), as long as no batch outlasts
\* its lease.
OneRunner ==
    "slow" \notin world.may =>
        \A r, s \in Runner : r # s => hand[r] \cap hand[s] = {}

\* What a text needs to stay in step: no batch outlasts its lease, every save gets to
\* its enqueue, no locale is switched off, and no old machine text is saved as new.
InStep == world.may \cap {"slow", "saveDies", "locale", "suggestion"} = {}

\* A save of e is under way: its flagging and its enqueue are still to come.
BeingSaved(e) == \E p \in Editor : edit[p] # NoEdit /\ edit[p].on = e

\* The machine's text of k is not of the present source.
Stale(k) ==
    /\ src[k[1]] # Gone
    /\ tr[k].st = "none" \/ (tr[k].st = "MACHINE_TRANSLATED" /\ tr[k].of # src[k[1]])

\* A finished job leaves no stale machine text behind, whatever was saved while
\* it ran: the reason for `rerun' (ADR-162 #2).
DoneIsCurrent ==
    InStep => \A k \in Key : job[k].st = "DONE" /\ ~BeingSaved(k[1]) => ~Stale(k)

\* ... nor a person's translation of an older text that nobody has flagged (ADR-161
\* #3).  Not kept: see README.
DoneIsFlagged ==
    \A k \in Key :
        job[k].st = "DONE" /\ ~BeingSaved(k[1]) /\ tr[k].st = "TRANSLATED"
            => tr[k].of = src[k[1]] \/ src[k[1]] = Gone

\* The machine never writes over a person's row: it flags it, and only the person
\* changes the text or its origin (ADR-161 #2, ADR-162 #5).
PersonWins ==
    [][\A k \in Key :
         tr[k].st \in Human /\ tr'[k] # tr[k] =>
            \/ tr[k].st = "TRANSLATED" /\ tr'[k] = [tr[k] EXCEPT !.st = "OUTDATED"]
            \/ \E q \in Person : pen[q] # NoPen /\ pen[q].on = k /\ pen'[q] = NoPen]_vars

\* Only a translation of another text is flagged (afterSourceSave).
\* Not kept: see README.
FlagsOnlyStale ==
    [][\A k \in Key :
         tr[k].st = "TRANSLATED" /\ tr'[k].st = "OUTDATED" => tr[k].of # src[k[1]]]_vars

\* Nothing is translated for a locale that is switched off (ADR-163 #4).
\* Not kept: see README.
OnlyActiveIsTranslated ==
    [][\A r \in Runner, k \in Key :
         At(r, "translate", k) /\ pc'[r] = "write" => k[2] \in active]_vars

\* Every saved text is translated in the end, or its failure is on the dashboard.
SavesAreTranslated ==
    \A k \in Key :
        InStep /\ src[k[1]] > 0 /\ Stale(k) ~> ~Stale(k) \/ job[k].st = "FAILED"

=============================================================================
