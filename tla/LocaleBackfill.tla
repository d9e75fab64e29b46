--------------------------- MODULE LocaleBackfill ---------------------------
(***************************************************************************)
(* The walk of a whole locale (packages/translate/src/jobs.ts,             *)
(* enqueueLocaleBackfill and expandBackfill): one BACKFILL_LOCALE job per  *)
(* locale, which switching the locale on or pressing Sync queues, and      *)
(* which the runners walk a few pages at a time from its `cursor'.         *)
(*                                                                         *)
(* The pages of all translatable types, in the order of the registry, are  *)
(* numbered 0 .. Pages-1; the cursor is the next page, and NULL is page 0. *)
(* What a page enqueues is TranslationQueue's.                             *)
(***************************************************************************)
EXTENDS Naturals, FiniteSets

CONSTANTS
    Locale,        \* every locale but the default one
    Runner,        \* slots for concurrent runners
    Nobody,        \* a claim token no runner holds (or no token)
    Pages,         \* pages of a complete walk
    PagesPerTick,  \* BACKFILL_PAGES_PER_TICK
    MaxAttempts,   \* MAX_ATTEMPTS
    Worlds         \* what a behaviour may meet with, see World

\* crash: a runner dies.  dies: a request dies before its enqueue.  slow: one page
\* outlasts the lease.  error: a statement fails.  locale: locales are switched.
EventKind == {"crash", "dies", "slow", "error", "locale"}

\* may: the kinds of events that may happen.  upsets: bound on presses and
\* disturbances.
World == [may : SUBSET EventKind, upsets : Nat]

ASSUME BackfillAssumption ==
    /\ Nobody \notin Runner
    /\ Pages \in Nat \ {0}
    /\ PagesPerTick \in Nat \ {0}
    /\ MaxAttempts \in Nat \ {0}
    /\ Worlds \subseteq World

VARIABLES
    active,  \* the locales that are served
    asked,   \* the locales whose request has still to enqueue
    job,     \* job[l]: the BACKFILL_LOCALE job
    pc,      \* pc[r]: where the runner is
    mem,     \* mem[r]: its local variables
    fresh,   \* fresh[l]: pages enqueued since the last press (auxiliary)
    walked,  \* walked[l]: pages enqueued since the cursor was NULL (auxiliary)
    skipped, \* skipped[l]: the page from which the last press is honoured (auxiliary)
    world    \* what may happen in this behaviour, and how often still (auxiliary)

deskVars == <<active, asked>>
runVars == <<pc, mem>>
logVars == <<fresh, walked, skipped>>
vars == <<deskVars, job, runVars, logVars, world>>

-----------------------------------------------------------------------------
Page == 0..(Pages - 1)
Job == [st : {"ABSENT", "PENDING", "RUNNING", "DONE", "FAILED"}, cursor : Page,
        att : Nat, due : BOOLEAN, tok : Runner \cup {Nobody}, rerun : BOOLEAN,
        old : BOOLEAN]

\* known: the locales active at the start.  on: the locale being walked.  at: the
\* next page.  left: pages this tick may still walk.  att: the attempts as claimed.
Mem == [known : SUBSET Locale, on : SUBSET Locale, at : 0..Pages,
        left : 0..PagesPerTick, att : Nat]

Phase == {"idle", "recover", "claim", "walk", "save", "handback", "finish"}

NoJob == [st |-> "ABSENT", cursor |-> 0, att |-> 0, due |-> TRUE, tok |-> Nobody,
          rerun |-> FALSE, old |-> FALSE]
Blank == [known |-> {}, on |-> {}, at |-> 0, left |-> 0, att |-> 0]

\* The type invariant of the backfill: a cursor is a page there is (or NULL, 0).
TypeOK ==
    /\ active \subseteq Locale
    /\ asked \subseteq Locale
    /\ job \in [Locale -> Job]
    /\ pc \in [Runner -> Phase]
    /\ mem \in [Runner -> Mem]
    /\ fresh \in [Locale -> SUBSET Page]
    /\ walked \in [Locale -> SUBSET Page]
    /\ skipped \in [Locale -> Page]
    /\ world \in World

Init ==
    /\ active \in SUBSET Locale
    /\ asked = {}
    /\ job = [l \in Locale |-> NoJob]
    /\ pc = [r \in Runner |-> "idle"]
    /\ mem = [r \in Runner |-> Blank]
    /\ fresh = [l \in Locale |-> {}]
    /\ walked = [l \in Locale |-> {}]
    /\ skipped = [l \in Locale |-> 0]
    /\ world \in Worlds

Upset == world.upsets > 0 /\ world' = [world EXCEPT !.upsets = @ - 1]

-----------------------------------------------------------------------------
(***************************************************************************)
(* Staff.                                                                  *)
(***************************************************************************)
\* syncTranslations: the locale is active when the request looks.
Sync(l) ==
    /\ l \in active \ asked
    /\ Upset
    /\ asked' = asked \cup {l}
    /\ UNCHANGED <<active, job, runVars, logVars>>

\* setLocaleActive: on (a repeated "on" is a Sync) ...
Activate(l) ==
    /\ "locale" \in world.may
    /\ l \notin active
    /\ Upset
    /\ active' = active \cup {l}
    /\ asked' = asked \cup {l}
    /\ UNCHANGED <<job, runVars, logVars>>

\* ... and off, which leaves the job where it is.
Deactivate(l) ==
    /\ "locale" \in world.may
    /\ l \in active
    /\ Upset
    /\ active' = active \ {l}
    /\ UNCHANGED <<asked, job, runVars, logVars>>

\* Mutant: a press that finds the walk RUNNING leaves no mark.
RestartedUnmarked(j) ==
    IF j.st = "RUNNING" THEN j
    ELSE [j EXCEPT !.st = "PENDING", !.att = 0, !.due = TRUE, !.cursor = 0]

\* enqueueLocaleBackfill: a running walk is marked, any other begins again.
Restarted(j) ==
    IF j.st = "RUNNING" THEN [j EXCEPT !.rerun = TRUE]
    ELSE [j EXCEPT !.st = "PENDING", !.att = 0, !.due = TRUE, !.cursor = 0]

Enqueue(l) ==
    /\ l \in asked
    /\ job' = [job EXCEPT ![l] = Restarted(job[l])]
    /\ asked' = asked \ {l}
    /\ fresh' = [fresh EXCEPT ![l] = {}]
    /\ walked' = IF job[l].st = "RUNNING" THEN walked ELSE [walked EXCEPT ![l] = {}]
    /\ skipped' = [skipped EXCEPT ![l] = 0]
    /\ UNCHANGED <<active, runVars, world>>

\* retryFailedJobs: the cursor and the mark stay.
Rearmed(j) == [j EXCEPT !.st = "PENDING", !.att = 0, !.due = TRUE, !.tok = Nobody, !.old = FALSE]

RetryFailed(l) ==
    /\ job[l].st = "FAILED"
    /\ Upset
    /\ job' = [job EXCEPT ![l] = Rearmed(job[l])]
    /\ UNCHANGED <<deskVars, runVars, logVars>>

\* The request's process dies first.
RequestDies(l) ==
    /\ "dies" \in world.may
    /\ l \in asked
    /\ Upset
    /\ asked' = asked \ {l}
    /\ UNCHANGED <<active, job, runVars, logVars>>

-----------------------------------------------------------------------------
(***************************************************************************)
(* A runner.                                                               *)
(***************************************************************************)
Goto(r, phase) == pc' = [pc EXCEPT ![r] = phase]
On(r, phase, l) == pc[r] = phase /\ l \in mem[r].on

\* The job is let go of.
Freed(j, status) == [j EXCEPT !.st = status, !.tok = Nobody, !.old = FALSE]

Leave(r) ==
    /\ mem' = [mem EXCEPT ![r] = Blank]
    /\ Goto(r, "idle")

\* activeLocaleCheck, once per tick.
Tick(r) ==
    /\ pc[r] = "idle"
    /\ mem' = [mem EXCEPT ![r] = [Blank EXCEPT !.known = active]]
    /\ Goto(r, "recover")
    /\ UNCHANGED <<deskVars, job, logVars, world>>

\* recoverStaleJobs.
Recover(r) ==
    /\ pc[r] = "recover"
    /\ job' = [l \in Locale |-> IF job[l].st = "RUNNING" /\ job[l].old
                                THEN Freed(job[l], "PENDING") ELSE job[l]]
    /\ Goto(r, "claim")
    /\ UNCHANGED <<deskVars, mem, logVars, world>>

Claimed(j, r) == [j EXCEPT !.st = "RUNNING", !.tok = r, !.rerun = FALSE, !.old = FALSE]

\* A claim forgets the mark: a press that came in the middle of the walk is honoured
\* from the cursor on.
Forgetting(l) ==
    skipped' = IF job[l].rerun THEN [skipped EXCEPT ![l] = job[l].cursor] ELSE skipped

\* Mutant: the claim does not ask for PENDING.
ClaimOpen(r, l) ==
    /\ pc[r] = "claim"
    /\ job[l].st \in {"PENDING", "RUNNING"} /\ job[l].due
    /\ job' = [job EXCEPT ![l] = Claimed(job[l], r)]
    /\ mem' = [mem EXCEPT ![r] = [mem[r] EXCEPT !.on = {l}, !.at = job[l].cursor,
                                                !.left = PagesPerTick, !.att = job[l].att]]
    /\ Goto(r, IF l \in mem[r].known THEN "walk" ELSE "finish")
    /\ Forgetting(l)
    /\ UNCHANGED <<deskVars, fresh, walked, world>>

\* expandBackfill claims one due job and reads its cursor; one of an inactive
\* locale is finished unwalked.
Claim(r, l) ==
    /\ pc[r] = "claim"
    /\ job[l].st = "PENDING" /\ job[l].due
    /\ job' = [job EXCEPT ![l] = Claimed(job[l], r)]
    /\ mem' = [mem EXCEPT ![r] = [mem[r] EXCEPT !.on = {l}, !.at = job[l].cursor,
                                                !.left = PagesPerTick, !.att = job[l].att]]
    /\ Goto(r, IF l \in mem[r].known THEN "walk" ELSE "finish")
    /\ Forgetting(l)
    /\ UNCHANGED <<deskVars, fresh, walked, world>>

NothingDue(r) ==
    /\ pc[r] = "claim"
    /\ \A l \in Locale : ~(job[l].st = "PENDING" /\ job[l].due)
    /\ Leave(r)
    /\ UNCHANGED <<deskVars, job, logVars, world>>

\* The page's ids are read and enqueued ...
WalkPage(r, l) ==
    /\ On(r, "walk", l)
    /\ fresh' = [fresh EXCEPT ![l] = @ \cup {mem[r].at}]
    /\ walked' = [walked EXCEPT ![l] = @ \cup {mem[r].at}]
    /\ mem' = [mem EXCEPT ![r] = [mem[r] EXCEPT !.at = mem[r].at + 1, !.left = mem[r].left - 1]]
    /\ Goto(r, "save")
    /\ UNCHANGED <<deskVars, job, skipped, world>>

\* Mutant: the claim token is missing from the WHERE.
SavedByAnyone(j, r) ==
    [j EXCEPT !.cursor = IF mem[r].at = Pages THEN 0 ELSE mem[r].at, !.old = FALSE]

\* ... then the cursor is saved, and the claim renewed, if it is still this runner's.
Saved(j, r) ==
    IF j.tok = r
    THEN [j EXCEPT !.cursor = IF mem[r].at = Pages THEN 0 ELSE mem[r].at, !.old = FALSE]
    ELSE j

SaveCursor(r, l) ==
    /\ On(r, "save", l)
    /\ job' = [job EXCEPT ![l] = Saved(job[l], r)]
    /\ walked' = IF job[l].tok = r /\ mem[r].at = Pages
                 THEN [walked EXCEPT ![l] = {}] ELSE walked
    /\ Goto(r, IF mem[r].at = Pages THEN "finish"
               ELSE IF mem[r].left = 0 THEN "handback" ELSE "walk")
    /\ UNCHANGED <<deskVars, mem, fresh, skipped, world>>

\* Mutant: the cursor goes back with the claim.
HandBackAnew(r, l) ==
    /\ On(r, "handback", l)
    /\ job' = IF job[l].tok = r
              THEN [job EXCEPT ![l] = [Freed(@, "PENDING") EXCEPT !.due = TRUE, !.cursor = 0]]
              ELSE job
    /\ Leave(r)
    /\ UNCHANGED <<deskVars, logVars, world>>

\* More to walk: the claim goes back, if it is still this runner's.
HandBack(r, l) ==
    /\ On(r, "handback", l)
    /\ job' = IF job[l].tok = r
              THEN [job EXCEPT ![l] = [Freed(@, "PENDING") EXCEPT !.due = TRUE]] ELSE job
    /\ Leave(r)
    /\ UNCHANGED <<deskVars, logVars, world>>

\* finish, by id alone: `rerun' turns DONE into another walk.
Finished(j) ==
    [Freed(j, IF j.rerun THEN "PENDING" ELSE "DONE")
        EXCEPT !.cursor = 0, !.due = IF j.rerun THEN TRUE ELSE j.due, !.rerun = FALSE]

Finish(r, l) ==
    /\ On(r, "finish", l)
    /\ job' = [job EXCEPT ![l] = Finished(job[l])]
    /\ walked' = [walked EXCEPT ![l] = {}]
    /\ Leave(r)
    /\ UNCHANGED <<deskVars, fresh, skipped, world>>

\* settle, by id alone: the next attempt goes on from the cursor.
Failing(j, att) ==
    [Freed(j, IF att >= MaxAttempts THEN "FAILED" ELSE "PENDING")
        EXCEPT !.att = att, !.due = IF att >= MaxAttempts THEN j.due ELSE FALSE]

Fail(r, l) ==
    /\ "error" \in world.may
    /\ On(r, "walk", l) \/ On(r, "save", l)
    /\ Upset
    /\ job' = [job EXCEPT ![l] = Failing(job[l], mem[r].att + 1)]
    /\ Leave(r)
    /\ UNCHANGED <<deskVars, logVars>>

\* The runner's process dies: its job stays RUNNING under a token nobody has.
Crash(r) ==
    /\ "crash" \in world.may /\ pc[r] # "idle"
    /\ Upset
    /\ job' = [l \in Locale |-> IF job[l].tok = r THEN [job[l] EXCEPT !.tok = Nobody] ELSE job[l]]
    /\ Leave(r)
    /\ UNCHANGED <<deskVars, logVars>>

\* Ten minutes after the claim was made or renewed.
LeaseEnds(l) ==
    /\ job[l].st = "RUNNING" /\ ~job[l].old
    /\ job[l].tok = Nobody \/ "slow" \in world.may
    /\ job' = [job EXCEPT ![l].old = TRUE]
    /\ UNCHANGED <<deskVars, runVars, logVars, world>>

\* runAfter comes.
BackoffEnds(l) ==
    /\ job[l].st = "PENDING" /\ ~job[l].due
    /\ job' = [job EXCEPT ![l].due = TRUE]
    /\ UNCHANGED <<deskVars, runVars, logVars, world>>

RunnerStep(r) ==
    \/ Recover(r) \/ NothingDue(r)
    \/ \E l \in Locale : \/ Claim(r, l) \/ WalkPage(r, l) \/ SaveCursor(r, l)
                         \/ HandBack(r, l) \/ Finish(r, l) \/ Fail(r, l)

Next ==
    \/ \E r \in Runner : Tick(r) \/ RunnerStep(r) \/ Crash(r)
    \/ \E l \in Locale : \/ Sync(l) \/ Activate(l) \/ Deactivate(l) \/ Enqueue(l)
                         \/ RetryFailed(l) \/ RequestDies(l) \/ LeaseEnds(l) \/ BackoffEnds(l)

Spec == Init /\ [][Next]_vars

\* docs/ops/cron.md: the cron runs every five minutes, and what has begun goes on.
Fairness ==
    /\ \A r \in Runner : WF_vars(Tick(r)) /\ WF_vars(RunnerStep(r))
    /\ \A l \in Locale : WF_vars(Enqueue(l)) /\ WF_vars(LeaseEnds(l)) /\ WF_vars(BackoffEnds(l))

FairSpec == Spec /\ Fairness

-----------------------------------------------------------------------------
\* No page outlasts the lease, and no locale is switched.
Calm == {"slow", "locale"} \cap world.may = {}

\* Two ticks never walk the same locale at once (expandBackfill).
OneWalker ==
    Calm => \A r, s \in Runner : r # s => mem[r].on \cap mem[s].on = {}

\* The pages before the cursor have been enqueued since the walk began: a crash
\* repeats at most one page and skips none (expandBackfill, ADR-162 #9).
CursorIsHonest ==
    \A l \in Locale : \A p \in Page : p < job[l].cursor => p \in walked[l]

\* The pages of a complete walk that the last press can count on.
Owed(l) == {p \in Page : skipped[l] <= p}

\* A finished job of a served locale has walked, since the last press, every page from
\* the start; or from the cursor of the claim that forgot the press, which had come in the
\* middle of a walk that was then handed back, failed or died (enqueueLocaleBackfill,
\* finish, expandBackfill).
SyncWalksAll ==
    Calm => \A l \in active : job[l].st = "DONE" => Owed(l) \subseteq fresh[l]

\* Pressing Sync always results in a complete walk that began after the press (the
\* comment on enqueueLocaleBackfill).  Not kept: see README.
SyncAlwaysWalks ==
    Calm => \A l \in active : job[l].st = "DONE" => fresh[l] = Page

\* What was pressed is finished after the press, unless its request dies before it has
\* enqueued anything, or the walk fails and the dashboard says so.
SyncIsWalked ==
    Calm /\ "dies" \notin world.may =>
        \A l \in Locale : l \in asked ~> l \notin asked /\ job[l].st \in {"DONE", "FAILED"}

-----------------------------------------------------------------------------
(***************************************************************************)
(* The inductive invariants behind CursorIsHonest, which holds whatever    *)
(* happens, and behind OneWalker and SyncWalksAll, which hold as long as   *)
(* no page outlasts the lease and no locale is switched.                   *)
(***************************************************************************)
Walking == {"walk", "save", "handback", "finish"}

\* A runner works on one locale, and only between its claim and its letting go;
\* when it is about to walk there is a page left, and one it may walk.
OneAtATime ==
    \A r \in Runner :
        /\ \A l, m \in mem[r].on : l = m
        /\ mem[r].on # {} => pc[r] \in Walking
        /\ pc[r] = "walk" => mem[r].at < Pages /\ mem[r].left > 0

\* A claim is on a RUNNING job, its owner knows, and knows the place.
ClaimIsKnown ==
    \A l \in Locale, r \in Runner :
        job[l].tok = r =>
            /\ job[l].st = "RUNNING"
            /\ l \in mem[r].on
            /\ pc[r] = "walk" => mem[r].at = job[l].cursor
            /\ pc[r] = "save" => \A p \in Page : p < mem[r].at => p \in walked[l]

HonestInv == OneAtATime /\ ClaimIsKnown /\ CursorIsHonest

\* Whoever works on a locale holds its claim, which is no older than the lease.
WalkerOwns ==
    /\ \A r \in Runner : \A l \in mem[r].on : job[l].tok = r
    /\ \A l \in Locale : job[l].old => job[l].tok = Nobody

\* The switches are as every runner saw them.
NothingMoved == \A r \in Runner : pc[r] # "idle" => mem[r].known = active

\* Of a job without a mark, what is owed before the cursor, and before the page its runner
\* is at, has been enqueued since the last press; so has everything that is owed when it
\* finishes.  A marked job owes nothing yet.
FreshSoFar ==
    /\ \A l \in Locale :
          ~job[l].rerun => \A p \in Owed(l) : p < job[l].cursor => p \in fresh[l]
    /\ \A r \in Runner : \A l \in mem[r].on :
          ~job[l].rerun =>
              /\ pc[r] = "save" => \A p \in Owed(l) : p < mem[r].at => p \in fresh[l]
              /\ pc[r] = "finish" /\ l \in active => Owed(l) \subseteq fresh[l]

DoneIsWalked ==
    \A l \in Locale : job[l].st = "DONE" =>
        ~job[l].rerun /\ (l \in active => Owed(l) \subseteq fresh[l])

SyncInv == WalkerOwns /\ NothingMoved /\ FreshSoFar /\ DoneIsWalked

\* All of it: the second part as far as the first events are left out.
WalkInv == HonestInv /\ (Calm => SyncInv)
=============================================================================
