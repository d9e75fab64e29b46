----------------------- MODULE LocaleBackfillProofs ------------------------
(***************************************************************************)
(* What holds of LocaleBackfill for every set of locales and runners and   *)
(* every number of pages, checked by TLAPS.                                *)
(***************************************************************************)
EXTENDS LocaleBackfill, TLAPS

\* The rewritings of a job: what each leaves of it.
LEMMA JobForms ==
    ASSUME NEW j \in Job, NEW r \in Runner
    PROVE  /\ Restarted(j) \in Job
           /\ Claimed(j, r) \in Job
           /\ Finished(j) \in Job
           /\ \A att \in Nat : Failing(j, att) \in Job
           /\ \A status \in {"PENDING", "DONE", "FAILED"} : Freed(j, status) \in Job
  <1>0. 0 \in Page
    BY BackfillAssumption DEF Page
  <1>1. Restarted(j) \in Job
    BY <1>0 DEF Restarted, Job
  <1>2. Claimed(j, r) \in Job
    BY DEF Claimed, Job
  <1>3. \A status \in {"PENDING", "DONE", "FAILED"} : Freed(j, status) \in Job
    BY DEF Freed, Job
  <1>4. Finished(j) \in Job
    BY <1>0, <1>3 DEF Finished, Freed, Job
  <1>5. \A att \in Nat : Failing(j, att) \in Job
    <2> SUFFICES ASSUME NEW att \in Nat PROVE Failing(j, att) \in Job
      OBVIOUS
    <2> DEFINE free(status) == Freed(j, status)
    <2>1. \A status \in {"PENDING", "FAILED"} : \A due \in BOOLEAN :
             [free(status) EXCEPT !.att = att, !.due = due] \in Job
      BY <1>3 DEF Job
    <2>2. CASE att >= MaxAttempts
      BY <2>2, <2>1 DEF Failing, Job
    <2>3. CASE ~(att >= MaxAttempts)
      BY <2>3, <2>1 DEF Failing, Job
    <2> QED
      BY <2>2, <2>3
  <1> QED
    BY <1>1, <1>2, <1>3, <1>4, <1>5

LEMMA RearmedForm ==
    ASSUME NEW j \in Job
    PROVE  /\ Rearmed(j) \in Job
           /\ Rearmed(j).st = "PENDING" /\ Rearmed(j).tok = Nobody /\ ~Rearmed(j).old
           /\ Rearmed(j).cursor = j.cursor /\ Rearmed(j).rerun = j.rerun
  BY DEF Rearmed, Job

LEMMA SavedForm ==
    ASSUME TypeOK, NEW j \in Job, NEW r \in Runner
    PROVE  Saved(j, r) \in Job
  <1>1. mem[r].at \in 0..Pages
    BY DEF TypeOK, Mem
  <1>2. mem[r].at # Pages => mem[r].at \in Page
    BY <1>1, BackfillAssumption DEF Page
  <1>3. 0 \in Page
    BY BackfillAssumption DEF Page
  <1> QED
    BY <1>2, <1>3 DEF Saved, Job

\* A free runner's memory, and a job nobody has asked for.
LEMMA Blanks ==
    /\ Blank \in Mem /\ Blank.on = {}
    /\ NoJob \in Job /\ NoJob.tok = Nobody /\ NoJob.cursor = 0 /\ NoJob.st = "ABSENT"
  BY BackfillAssumption DEF Blank, Mem, NoJob, Job, Page

LEMMA TypeInit == Init => TypeOK
  BY Blanks, BackfillAssumption DEF Init, TypeOK, Phase, Page

LEMMA OneAtATimeInit == Init => OneAtATime
  BY Blanks DEF Init, OneAtATime

\* Each step keeps the types, given that a runner about to walk may walk.
LEMMA TypeStep == TypeOK /\ OneAtATime /\ [Next]_vars => TypeOK'
  <1> SUFFICES ASSUME TypeOK, OneAtATime, [Next]_vars PROVE TypeOK'
    OBVIOUS
  <1> USE BackfillAssumption
  <1>1. ASSUME NEW r \in Runner, Tick(r) PROVE TypeOK'
    BY <1>1, Blanks DEF TypeOK, Tick, Goto, deskVars, logVars, Mem, Phase, Blank
  <1>2. ASSUME NEW r \in Runner, Recover(r) PROVE TypeOK'
    <2>1. job' \in [Locale -> Job]
      BY <1>2, JobForms DEF TypeOK, Recover
    <2> QED
      BY <1>2, <2>1 DEF TypeOK, Recover, Goto, deskVars, logVars, Phase
  <1>3. ASSUME NEW r \in Runner, NEW l \in Locale, Claim(r, l) PROVE TypeOK'
    <2>1. job[l] \in Job /\ Claimed(job[l], r) \in Job
      BY JobForms DEF TypeOK
    <2>2. job' \in [Locale -> Job]
      BY <1>3, <2>1 DEF TypeOK, Claim
    <2>3. /\ job[l].cursor \in 0..Pages /\ job[l].att \in Nat
          /\ PagesPerTick \in 0..PagesPerTick
      BY <2>1 DEF Job, Page
    <2>4. mem' \in [Runner -> Mem]
      BY <1>3, <2>3 DEF TypeOK, Claim, Mem
    <2>5. skipped' \in [Locale -> Page]
      BY <1>3, <2>1 DEF TypeOK, Claim, Forgetting, Job
    <2> QED
      BY <1>3, <2>2, <2>4, <2>5 DEF TypeOK, Claim, Goto, deskVars, Phase
  <1>4. ASSUME NEW r \in Runner, NothingDue(r) PROVE TypeOK'
    BY <1>4, Blanks DEF TypeOK, NothingDue, Leave, Goto, deskVars, logVars, Phase
  <1>5. ASSUME NEW r \in Runner, NEW l \in Locale, WalkPage(r, l) PROVE TypeOK'
    <2>1. /\ mem[r] \in Mem
          /\ mem[r].at < Pages /\ mem[r].left > 0
      BY <1>5 DEF TypeOK, OneAtATime, WalkPage, On
    <2>2. /\ mem[r].at \in Page
          /\ mem[r].at + 1 \in 0..Pages
          /\ mem[r].left - 1 \in 0..PagesPerTick
      BY <2>1 DEF Mem, Page
    <2>3. mem' \in [Runner -> Mem]
      BY <1>5, <2>1, <2>2 DEF TypeOK, WalkPage, Mem
    <2>4. fresh' \in [Locale -> SUBSET Page] /\ walked' \in [Locale -> SUBSET Page]
      BY <1>5, <2>2 DEF TypeOK, WalkPage
    <2> QED
      BY <1>5, <2>3, <2>4 DEF TypeOK, WalkPage, Goto, deskVars, Phase
  <1>6. ASSUME NEW r \in Runner, NEW l \in Locale, SaveCursor(r, l) PROVE TypeOK'
    <2>1. Saved(job[l], r) \in Job
      BY SavedForm DEF TypeOK
    <2> QED
      BY <1>6, <2>1 DEF TypeOK, SaveCursor, Goto, deskVars, Phase
  <1>7. ASSUME NEW r \in Runner, NEW l \in Locale, HandBack(r, l) PROVE TypeOK'
    <2>1. [Freed(job[l], "PENDING") EXCEPT !.due = TRUE] \in Job
      BY DEF TypeOK, Freed, Job
    <2> QED
      BY <1>7, <2>1, Blanks DEF TypeOK, HandBack, Leave, Goto, deskVars, logVars, Phase
  <1>8. ASSUME NEW r \in Runner, NEW l \in Locale, Finish(r, l) PROVE TypeOK'
    <2>1. Finished(job[l]) \in Job
      BY JobForms, <1>8 DEF TypeOK
    <2> QED
      BY <1>8, <2>1, Blanks DEF TypeOK, Finish, Leave, Goto, deskVars, Phase
  <1>9. ASSUME NEW r \in Runner, NEW l \in Locale, Fail(r, l) PROVE TypeOK'
    <2>1. mem[r].att + 1 \in Nat
      BY DEF TypeOK, Mem
    <2>2. Failing(job[l], mem[r].att + 1) \in Job
      BY <2>1, JobForms DEF TypeOK
    <2> QED
      BY <1>9, <2>2, Blanks DEF TypeOK, Fail, Upset, World, Leave, Goto, deskVars, logVars, Phase
  <1>10. ASSUME NEW r \in Runner, Crash(r) PROVE TypeOK'
    <2>1. job' \in [Locale -> Job]
      BY <1>10 DEF TypeOK, Crash, Job
    <2> QED
      BY <1>10, <2>1, Blanks DEF TypeOK, Crash, Upset, World, Leave, Goto, deskVars, logVars, Phase
  <1>11. ASSUME NEW l \in Locale, Sync(l) \/ Activate(l) \/ Deactivate(l) \/ RequestDies(l)
         PROVE  TypeOK'
    BY <1>11 DEF TypeOK, Sync, Activate, Deactivate, RequestDies, Upset, World, runVars, logVars
  <1>12. ASSUME NEW l \in Locale, Enqueue(l) PROVE TypeOK'
    <2>1. job[l] \in Job /\ 0 \in Page
      BY DEF TypeOK, Page
    <2>2. Restarted(job[l]) \in Job
      BY <2>1 DEF Restarted, Job
    <2>3. job' \in [Locale -> Job]
      BY <1>12, <2>2 DEF TypeOK, Enqueue
    <2>4. /\ fresh' \in [Locale -> SUBSET Page]
          /\ walked' \in [Locale -> SUBSET Page]
          /\ skipped' \in [Locale -> Page]
      BY <1>12, <2>1 DEF TypeOK, Enqueue
    <2> QED
      BY <1>12, <2>3, <2>4 DEF TypeOK, Enqueue, runVars
  <1>13. ASSUME NEW l \in Locale, LeaseEnds(l) \/ BackoffEnds(l) PROVE TypeOK'
    <2>1. job' \in [Locale -> Job]
      <3>1. job[l] \in Job
        BY DEF TypeOK
      <3>2. [job[l] EXCEPT !.old = TRUE] \in Job /\ [job[l] EXCEPT !.due = TRUE] \in Job
        BY <3>1 DEF Job
      <3> QED
        BY <1>13, <3>2 DEF TypeOK, LeaseEnds, BackoffEnds
    <2> QED
      BY <1>13, <2>1 DEF TypeOK, LeaseEnds, BackoffEnds, deskVars, runVars, logVars
  <1>15. ASSUME NEW l \in Locale, RetryFailed(l) PROVE TypeOK'
    <2>1. Rearmed(job[l]) \in Job
      BY RearmedForm, <1>15 DEF TypeOK
    <2> QED
      BY <1>15, <2>1 DEF TypeOK, RetryFailed, Upset, World, deskVars, runVars, logVars
  <1>14. CASE UNCHANGED vars
    BY <1>14 DEF TypeOK, vars, deskVars, runVars, logVars
  <1> QED
    BY <1>1, <1>2, <1>3, <1>4, <1>5, <1>6, <1>7, <1>8, <1>9, <1>10, <1>11, <1>12, <1>13, <1>14, <1>15
       DEF Next, RunnerStep

\* A runner works on one locale at a time, between its claim and its letting go.
LEMMA OneAtATimeStep == TypeOK /\ OneAtATime /\ [Next]_vars => OneAtATime'
  <1> SUFFICES ASSUME TypeOK, OneAtATime, [Next]_vars PROVE OneAtATime'
    OBVIOUS
  <1> USE BackfillAssumption DEF OneAtATime, Walking
  <1>1. ASSUME NEW r \in Runner, Leave(r) PROVE OneAtATime'
    BY <1>1, Blanks DEF TypeOK, Leave, Goto
  <1>2. ASSUME NEW r \in Runner, Tick(r) \/ Recover(r) PROVE OneAtATime'
    BY <1>2, Blanks DEF TypeOK, Tick, Recover, Goto, Mem, Blank
  <1>3. ASSUME NEW r \in Runner, NEW l \in Locale, Claim(r, l) PROVE OneAtATime'
    <2>1. job[l].cursor \in Page
      BY DEF TypeOK, Job
    <2> QED
      BY <1>3, <2>1 DEF TypeOK, Claim, Goto, Mem, Page
  <1>4. ASSUME NEW r \in Runner, NEW l \in Locale, WalkPage(r, l) PROVE OneAtATime'
    BY <1>4 DEF TypeOK, WalkPage, On, Goto, Mem
  <1>5. ASSUME NEW r \in Runner, NEW l \in Locale, SaveCursor(r, l) PROVE OneAtATime'
    BY <1>5 DEF TypeOK, SaveCursor, On, Goto, Mem
  <1>6. ASSUME UNCHANGED runVars PROVE OneAtATime'
    BY <1>6 DEF runVars
  <1> QED
    BY <1>1, <1>2, <1>3, <1>4, <1>5, <1>6
       DEF Next, RunnerStep, NothingDue, HandBack, Finish, Fail, Crash, Sync, Activate,
           Deactivate, Enqueue, RetryFailed, RequestDies, LeaseEnds, BackoffEnds, vars

\* The tables keep their types (the type invariant of LocaleBackfill).
THEOREM Typing == Spec => []TypeOK
  <1>1. Init => TypeOK /\ OneAtATime
    BY TypeInit, OneAtATimeInit
  <1>2. TypeOK /\ OneAtATime /\ [Next]_vars => (TypeOK /\ OneAtATime)'
    BY TypeStep, OneAtATimeStep
  <1> QED
    BY <1>1, <1>2, PTL DEF Spec

-----------------------------------------------------------------------------
\* What the rewritings of a job do to its claim and its cursor.
LEMMA Effects ==
    ASSUME NEW j \in Job, NEW r \in Runner
    PROVE  /\ Restarted(j).tok = j.tok
           /\ j.st = "RUNNING" => Restarted(j).st = "RUNNING" /\ Restarted(j).cursor = j.cursor
           /\ j.st # "RUNNING" => Restarted(j).st = "PENDING" /\ Restarted(j).cursor = 0
           /\ Claimed(j, r).tok = r /\ Claimed(j, r).st = "RUNNING"
           /\ Claimed(j, r).cursor = j.cursor
           /\ Finished(j).tok = Nobody /\ Finished(j).cursor = 0
           /\ \A att \in Nat : Failing(j, att).tok = Nobody /\ Failing(j, att).cursor = j.cursor
           /\ \A status : Freed(j, status).tok = Nobody /\ Freed(j, status).cursor = j.cursor
  BY DEF Restarted, Claimed, Finished, Failing, Freed, Job

\* A runner that is not walking holds no claim, and one that walks l holds no other.
LEMMA HoldsAtMostOne ==
    ASSUME OneAtATime, ClaimIsKnown, NEW r \in Runner, NEW m \in Locale, job[m].tok = r
    PROVE  /\ pc[r] \in Walking
           /\ \A l \in mem[r].on : l = m
  BY DEF OneAtATime, ClaimIsKnown

\* The step of CursorIsHonest, for what it needs to know of claims.
LEMMA HonestStep == TypeOK /\ HonestInv /\ [Next]_vars => HonestInv'
  <1> SUFFICES ASSUME TypeOK, HonestInv, [Next]_vars PROVE ClaimIsKnown' /\ CursorIsHonest'
    BY OneAtATimeStep DEF HonestInv
  <1>0. /\ OneAtATime /\ ClaimIsKnown /\ CursorIsHonest
        /\ Nobody \notin Runner /\ Pages \in Nat \ {0}
        /\ \A l \in Locale : job[l] \in Job /\ job[l].cursor \in Page
        /\ \A r \in Runner : mem[r] \in Mem /\ mem[r].at \in 0..Pages
    BY BackfillAssumption DEF HonestInv, TypeOK, Job, Mem
  <1> DEFINE Here(l) ==
               /\ \A r \in Runner :
                     job[l].tok = r =>
                        /\ job[l].st = "RUNNING"
                        /\ l \in mem[r].on
                        /\ pc[r] = "walk" => mem[r].at = job[l].cursor
                        /\ pc[r] = "save" => \A p \in Page : p < mem[r].at => p \in walked[l]
               /\ \A p \in Page : p < job[l].cursor => p \in walked[l]
  <1> SUFFICES ASSUME NEW m \in Locale PROVE Here(m)'
    BY DEF ClaimIsKnown, CursorIsHonest
  <1>h. Here(m)
    BY <1>0 DEF ClaimIsKnown, CursorIsHonest
  \* What a step leaves alone.
  <1>1. ASSUME job'[m] = job[m], walked'[m] = walked[m], NEW r \in Runner,
               \A s \in Runner : s # r => mem'[s] = mem[s] /\ pc'[s] = pc[s],
               job[m].tok # r
        PROVE  Here(m)'
    BY <1>1, <1>h
  <1>2. ASSUME NEW r \in Runner, Tick(r) \/ NothingDue(r) PROVE Here(m)'
    <2>1. job[m].tok # r
      BY <1>0, <1>2, HoldsAtMostOne DEF Tick, NothingDue, Walking
    <2> QED
      BY <1>1, <1>2, <2>1 DEF TypeOK, Tick, NothingDue, Leave, Goto, logVars
  <1>3. ASSUME NEW r \in Runner, Recover(r) PROVE Here(m)'
    <2>1. job[m].tok # r
      BY <1>0, <1>3, HoldsAtMostOne DEF Recover, Walking
    <2>2. CASE job[m].st = "RUNNING" /\ job[m].old
      <3>1. job'[m] = Freed(job[m], "PENDING") /\ walked' = walked
        BY <1>3, <2>2 DEF Recover, logVars
      <3> QED
        BY <1>0, <1>h, <3>1, Effects
    <2>3. CASE ~(job[m].st = "RUNNING" /\ job[m].old)
      <3>1. job'[m] = job[m]
        BY <1>3, <2>3 DEF Recover
      <3> QED
        BY <1>1, <1>3, <2>1, <3>1 DEF TypeOK, Recover, Goto, logVars
    <2> QED
      BY <2>2, <2>3
  <1>4. ASSUME NEW r \in Runner, NEW l \in Locale, Claim(r, l) PROVE Here(m)'
    <2>1. job[m].tok # r
      BY <1>0, <1>4, HoldsAtMostOne DEF Claim, Walking
    <2>2. CASE m = l
      <3>1. /\ job'[m] = Claimed(job[m], r) /\ walked' = walked
            /\ mem'[r].on = {m} /\ mem'[r].at = job[m].cursor
            /\ pc'[r] \in {"walk", "finish"}
        BY <1>4, <2>2 DEF TypeOK, Claim, Goto, Mem
      <3>2. job'[m].tok = r /\ job'[m].st = "RUNNING" /\ job'[m].cursor = job[m].cursor
        BY <1>0, <3>1, Effects
      <3> QED
        BY <1>h, <3>1, <3>2
    <2>3. CASE m # l
      BY <1>1, <1>4, <2>1, <2>3 DEF TypeOK, Claim, Goto
    <2> QED
      BY <2>2, <2>3
  <1>5. ASSUME NEW r \in Runner, NEW l \in Locale, WalkPage(r, l) PROVE Here(m)'
    <2>1. job' = job /\ walked[m] \subseteq walked'[m]
      BY <1>5 DEF TypeOK, WalkPage
    <2>2. \A s \in Runner : s # r => mem'[s] = mem[s] /\ pc'[s] = pc[s]
      BY <1>5 DEF TypeOK, WalkPage, Goto
    <2>3. CASE job[m].tok # r
      BY <1>h, <2>1, <2>2, <2>3
    <2>4. CASE job[m].tok = r
      <3>1. m = l
        BY <1>0, <1>5, <2>4, HoldsAtMostOne DEF WalkPage, On
      <3>2. mem[r].at = job[m].cursor
        BY <1>h, <1>5, <2>4 DEF WalkPage, On
      <3>3. /\ walked'[m] = walked[m] \cup {mem[r].at}
            /\ mem'[r].at = mem[r].at + 1 /\ mem'[r].on = mem[r].on
            /\ pc'[r] = "save"
        BY <1>5, <3>1 DEF TypeOK, WalkPage, Goto, Mem
      <3>4. \A p \in Page : p < mem'[r].at => p \in walked'[m]
        BY <1>0, <1>h, <3>2, <3>3 DEF Page
      <3> QED
        BY <1>h, <2>1, <2>2, <2>4, <3>3, <3>4
    <2> QED
      BY <2>3, <2>4
  <1>6. ASSUME NEW r \in Runner, NEW l \in Locale, SaveCursor(r, l) PROVE Here(m)'
    <2>1. /\ \A s \in Runner : s # r => mem'[s] = mem[s] /\ pc'[s] = pc[s]
          /\ mem' = mem /\ pc[r] = "save" /\ l \in mem[r].on
      BY <1>6 DEF TypeOK, SaveCursor, Goto, On
    <2>2. CASE job[m].tok # r
      <3>1. job'[m] = job[m] /\ walked'[m] = walked[m]
        BY <1>6, <2>2 DEF TypeOK, SaveCursor, Saved
      <3> QED
        BY <1>1, <2>1, <2>2, <3>1
    <2>3. CASE job[m].tok = r
      <3>1. m = l
        BY <1>0, <2>1, <2>3, HoldsAtMostOne
      <3>2. CASE mem[r].at = Pages
        <4>1. job'[m].cursor = 0 /\ job'[m].tok = r /\ job'[m].st = "RUNNING" /\ pc'[r] = "finish"
          BY <1>0, <1>h, <1>6, <2>3, <3>1, <3>2 DEF TypeOK, SaveCursor, Saved, Goto, Job
        <4> QED
          BY <1>h, <2>1, <2>3, <4>1 DEF Page
      <3>3. CASE mem[r].at # Pages
        <4>1. /\ job'[m].cursor = mem[r].at /\ job'[m].tok = r /\ job'[m].st = "RUNNING"
              /\ pc'[r] \in {"handback", "walk"} /\ walked' = walked
          BY <1>0, <1>h, <1>6, <2>3, <3>1, <3>3 DEF TypeOK, SaveCursor, Saved, Goto, Job
        <4> QED
          BY <1>h, <2>1, <2>3, <4>1
      <3> QED
        BY <3>2, <3>3
    <2> QED
      BY <2>2, <2>3
  \* A runner that leaves has let go of what it held.
  <1>7. ASSUME NEW r \in Runner, NEW l \in Locale,
               HandBack(r, l) \/ Finish(r, l) \/ Fail(r, l)
        PROVE  Here(m)'
    <2>1. /\ \A s \in Runner : s # r => mem'[s] = mem[s] /\ pc'[s] = pc[s]
          /\ l \in mem[r].on
      BY <1>7 DEF TypeOK, HandBack, Finish, Fail, Leave, Goto, On
    <2>2. CASE m # l
      <3>1. job[m].tok # r
        BY <1>0, <2>1, <2>2, HoldsAtMostOne
      <3>2. job'[m] = job[m] /\ walked'[m] = walked[m]
        BY <1>7, <2>2 DEF TypeOK, HandBack, Finish, Fail, logVars
      <3> QED
        BY <1>1, <2>1, <3>1, <3>2
    <2>3. CASE m = l /\ HandBack(r, l) /\ job[m].tok # r
      <3>1. job'[m] = job[m] /\ walked'[m] = walked[m]
        BY <2>3 DEF HandBack, logVars
      <3> QED
        BY <1>1, <2>1, <2>3, <3>1
    <2>4. CASE m = l /\ HandBack(r, l) /\ job[m].tok = r
      <3>1. /\ job'[m].tok = Nobody /\ job'[m].cursor = job[m].cursor
            /\ walked'[m] = walked[m]
        BY <1>0, <2>4 DEF TypeOK, HandBack, Freed, Job, logVars
      <3> QED
        BY <1>0, <1>h, <3>1
    <2>5. CASE m = l /\ Finish(r, l)
      <3>1. job'[m] = Finished(job[m])
        BY <2>5 DEF TypeOK, Finish
      <3>2. job'[m].tok = Nobody /\ job'[m].cursor = 0
        BY <1>0, <3>1, Effects
      <3> QED
        BY <1>0, <3>2 DEF Page
    <2>6. CASE m = l /\ Fail(r, l)
      <3>1. job'[m] = Failing(job[m], mem[r].att + 1) /\ walked' = walked
        BY <2>6 DEF TypeOK, Fail, logVars
      <3>2. mem[r].att + 1 \in Nat
        BY <1>0 DEF Mem
      <3>3. job'[m].tok = Nobody /\ job'[m].cursor = job[m].cursor
        BY <1>0, <3>1, <3>2, Effects
      <3> QED
        BY <1>0, <1>h, <3>1, <3>3
    <2> QED
      BY <1>7, <2>2, <2>3, <2>4, <2>5, <2>6
  <1>8. ASSUME NEW r \in Runner, Crash(r) PROVE Here(m)'
    <2>1. /\ job'[m].tok # r /\ job'[m].st = job[m].st /\ job'[m].cursor = job[m].cursor
          /\ job'[m].tok = job[m].tok \/ job'[m].tok = Nobody
          /\ walked' = walked
      BY <1>0, <1>8 DEF TypeOK, Crash, Job, logVars
    <2>2. \A s \in Runner : s # r => mem'[s] = mem[s] /\ pc'[s] = pc[s]
      BY <1>8 DEF TypeOK, Crash, Leave, Goto
    <2> QED
      BY <1>0, <1>h, <2>1, <2>2
  <1>9. ASSUME NEW l \in Locale, Enqueue(l) PROVE Here(m)'
    <2>1. mem' = mem /\ pc' = pc
      BY <1>9 DEF Enqueue, runVars
    <2>2. CASE m # l \/ job[m].st = "RUNNING"
      <3>1. /\ walked'[m] = walked[m]
            /\ job'[m].tok = job[m].tok /\ job'[m].st = job[m].st
            /\ job'[m].cursor = job[m].cursor
        <4>1. CASE m # l
          BY <1>9, <4>1 DEF TypeOK, Enqueue
        <4>2. CASE m = l /\ job[m].st = "RUNNING"
          BY <1>0, <1>9, <4>2 DEF TypeOK, Enqueue, Restarted, Job
        <4> QED
          BY <2>2, <4>1, <4>2
      <3> QED
        BY <1>h, <2>1, <3>1
    <2>3. CASE m = l /\ job[m].st # "RUNNING"
      <3>1. job'[m] = Restarted(job[m])
        BY <1>9, <2>3 DEF TypeOK, Enqueue
      <3>2. job'[m].tok = job[m].tok /\ job'[m].cursor = 0
        BY <1>0, <2>3, <3>1 DEF Restarted, Job
      <3> QED
        BY <1>h, <2>3, <3>2 DEF Page
    <2> QED
      BY <2>2, <2>3
  <1>10. ASSUME NEW l \in Locale, LeaseEnds(l) \/ BackoffEnds(l) PROVE Here(m)'
    <2>1. /\ job'[m].tok = job[m].tok /\ job'[m].st = job[m].st
          /\ job'[m].cursor = job[m].cursor
          /\ mem' = mem /\ pc' = pc /\ walked' = walked
      BY <1>0, <1>10 DEF TypeOK, LeaseEnds, BackoffEnds, Job, runVars, logVars
    <2> QED
      BY <1>h, <2>1
  <1>12. ASSUME NEW l \in Locale, RetryFailed(l) PROVE Here(m)'
    <2>1. mem' = mem /\ pc' = pc /\ walked' = walked
      BY <1>12 DEF RetryFailed, runVars, logVars
    <2>2. CASE m # l
      <3>1. job'[m] = job[m]
        BY <1>12, <2>2 DEF TypeOK, RetryFailed
      <3> QED
        BY <1>h, <2>1, <3>1
    <2>3. CASE m = l
      <3>1. job'[m] = Rearmed(job[m])
        BY <1>12, <2>3 DEF TypeOK, RetryFailed
      <3>2. job'[m].tok = Nobody /\ job'[m].cursor = job[m].cursor
        BY <1>0, <3>1, RearmedForm
      <3> QED
        BY <1>0, <1>h, <2>1, <3>2
    <2> QED
      BY <2>2, <2>3
  <1>11. ASSUME UNCHANGED <<job, runVars, logVars>> PROVE Here(m)'
    BY <1>11, <1>h DEF runVars, logVars
  <1> QED
    BY <1>2, <1>3, <1>4, <1>5, <1>6, <1>7, <1>8, <1>9, <1>10, <1>11, <1>12
       DEF Next, RunnerStep, Sync, Activate, Deactivate, RequestDies, vars

LEMMA HonestInit == Init => HonestInv
  <1> SUFFICES ASSUME Init PROVE HonestInv
    OBVIOUS
  <1>1. \A l \in Locale : job[l].tok = Nobody /\ job[l].cursor = 0
    BY Blanks DEF Init
  <1> QED
    BY <1>1, OneAtATimeInit, BackfillAssumption DEF HonestInv, ClaimIsKnown, CursorIsHonest, Page

\* Whatever dies, fails, outlasts its lease or is pressed meanwhile, a walk skips no
\* page: all those before the cursor have been enqueued since it began.
THEOREM Honest == Spec => []CursorIsHonest
  <1>1. Init => TypeOK /\ HonestInv
    BY TypeInit, HonestInit
  <1>2. TypeOK /\ HonestInv /\ [Next]_vars => (TypeOK /\ HonestInv)'
    BY TypeStep, HonestStep DEF HonestInv
  <1>3. HonestInv => CursorIsHonest
    BY DEF HonestInv
  <1> QED
    BY <1>1, <1>2, <1>3, PTL DEF Spec

-----------------------------------------------------------------------------
\* What may happen in a behaviour does not change.
LEMMA CalmStep == TypeOK /\ [Next]_vars => (Calm' <=> Calm)
  <1> SUFFICES ASSUME TypeOK, [Next]_vars PROVE world'.may = world.may
    BY DEF Calm
  <1>1. CASE world' = world
    BY <1>1
  <1>2. CASE Upset
    BY <1>2 DEF Upset, TypeOK, World
  <1> QED
    BY <1>1, <1>2
       DEF Next, RunnerStep, Tick, Recover, NothingDue, Claim, WalkPage, SaveCursor, HandBack,
           Finish, Fail, Crash, Sync, Activate, Deactivate, Enqueue, RetryFailed, RequestDies, LeaseEnds,
           BackoffEnds, vars

LEMMA KnownStep ==
    ASSUME Calm, TypeOK, NothingMoved, [Next]_vars
    PROVE  \A r \in Runner : pc'[r] # "idle" => mem'[r].known = active'
  <1>1. active' = active
    BY DEF Calm, Next, RunnerStep, Tick, Recover, NothingDue, Claim, WalkPage, SaveCursor,
           HandBack, Finish, Fail, Crash, Sync, Activate, Deactivate, Enqueue, RetryFailed, RequestDies,
           LeaseEnds, BackoffEnds, deskVars, vars
  <1>2. ASSUME NEW r \in Runner, Leave(r) PROVE \A s \in Runner : pc'[s] # "idle" => mem'[s].known = active
    BY <1>2 DEF TypeOK, NothingMoved, Leave, Goto
  <1>3. ASSUME NEW r \in Runner, Tick(r)
        PROVE  \A s \in Runner : pc'[s] # "idle" => mem'[s].known = active
    BY <1>3, Blanks DEF TypeOK, NothingMoved, Tick, Goto, Mem
  <1>4. ASSUME NEW r \in Runner, pc[r] # "idle", Recover(r) \/ \E l \in Locale : SaveCursor(r, l)
        PROVE  \A s \in Runner : pc'[s] # "idle" => mem'[s].known = active
    BY <1>4 DEF TypeOK, NothingMoved, Recover, SaveCursor, Goto
  <1>5. ASSUME NEW r \in Runner, NEW l \in Locale, Claim(r, l) \/ WalkPage(r, l)
        PROVE  \A s \in Runner : pc'[s] # "idle" => mem'[s].known = active
    <2>1. /\ pc[r] # "idle" /\ mem'[r].known = mem[r].known
          /\ \A s \in Runner : s # r => mem'[s] = mem[s] /\ pc'[s] = pc[s]
      <3>1. mem[r] \in Mem
        BY DEF TypeOK
      <3>2. CASE Claim(r, l)
        BY <3>1, <3>2 DEF TypeOK, Claim, Goto, Mem
      <3>3. CASE WalkPage(r, l)
        BY <3>1, <3>3 DEF TypeOK, WalkPage, On, Goto, Mem
      <3> QED
        BY <1>5, <3>2, <3>3
    <2> QED
      BY <2>1 DEF NothingMoved
  <1>6. ASSUME UNCHANGED runVars
        PROVE  \A s \in Runner : pc'[s] # "idle" => mem'[s].known = active
    BY <1>6 DEF NothingMoved, runVars
  <1> QED
    BY <1>1, <1>2, <1>3, <1>4, <1>5, <1>6
       DEF Next, RunnerStep, Recover, NothingDue, SaveCursor, On, HandBack, Finish, Fail, Crash,
           Sync, Activate, Deactivate, Enqueue, RetryFailed, RequestDies, LeaseEnds, BackoffEnds, vars

LEMMA SyncStep ==
    ASSUME Calm
    PROVE  TypeOK /\ HonestInv /\ SyncInv /\ [Next]_vars => SyncInv'
  <1> SUFFICES ASSUME TypeOK, HonestInv, SyncInv, [Next]_vars PROVE SyncInv'
    OBVIOUS
  <1>0. /\ OneAtATime /\ ClaimIsKnown
        /\ Nobody \notin Runner /\ Pages \in Nat \ {0}
        /\ \A l \in Locale : job[l] \in Job /\ fresh[l] \subseteq Page /\ Owed(l) \subseteq Page
        /\ \A r \in Runner : mem[r] \in Mem /\ mem[r].at \in 0..Pages
        /\ \A r \in Runner : pc[r] # "idle" => mem[r].known = active
    BY BackfillAssumption DEF HonestInv, SyncInv, NothingMoved, TypeOK, Mem, Owed
  <1> DEFINE Before(n, l) == \A p \in Owed(l) : p < n => p \in fresh[l]
             Whole(l) == l \in active => Owed(l) \subseteq fresh[l]
             Fresh(r, l) ==
               /\ job[l].tok = r
               /\ ~job[l].rerun => (pc[r] = "save" => Before(mem[r].at, l))
               /\ ~job[l].rerun => (pc[r] = "finish" => Whole(l))
             There(l) ==
               /\ \A r \in Runner : l \in mem[r].on => Fresh(r, l)
               /\ job[l].old => job[l].tok = Nobody
               /\ ~job[l].rerun => Before(job[l].cursor, l)
               /\ job[l].st = "DONE" => ~job[l].rerun /\ Whole(l)
  <1>k. \A r \in Runner : pc'[r] # "idle" => mem'[r].known = active'
    BY KnownStep DEF SyncInv
  <1>m. \A r \in Runner : mem'[r].on \subseteq Locale
    BY TypeStep DEF HonestInv, TypeOK, Mem
  <1> SUFFICES \A l \in Locale : There(l)'
    <2>1. SUFFICES ASSUME \A l \in Locale : There(l)' PROVE SyncInv'
      OBVIOUS
    <2>2. WalkerOwns'
      BY <2>1, <1>m DEF WalkerOwns
    <2>3. NothingMoved'
      BY <1>k DEF NothingMoved
    <2>4. FreshSoFar'
      BY <2>1, <1>m DEF FreshSoFar
    <2>5. DoneIsWalked'
      BY <2>1 DEF DoneIsWalked
    <2> QED
      BY <2>2, <2>3, <2>4, <2>5 DEF SyncInv
  <1> SUFFICES ASSUME NEW m \in Locale PROVE There(m)'
    OBVIOUS
  <1>h. There(m)
    BY DEF SyncInv, WalkerOwns, FreshSoFar, DoneIsWalked
  \* Only the owner of its claim works on m.
  <1>o. \A r, s \in Runner : m \in mem[r].on /\ m \in mem[s].on => r = s
    BY <1>h
  <1>a. active' = active
    BY DEF Calm, Next, RunnerStep, Tick, Recover, NothingDue, Claim, WalkPage, SaveCursor,
           HandBack, Finish, Fail, Crash, Sync, Activate, Deactivate, Enqueue, RetryFailed, RequestDies,
           LeaseEnds, BackoffEnds, deskVars, vars
  \* What is owed, and what is enqueued, as long as its two logs stand.
  <1>e. ASSUME skipped'[m] = skipped[m], fresh[m] \subseteq fresh'[m]
        PROVE  /\ Owed(m)' = Owed(m)
               /\ \A n : Before(n, m) => Before(n, m)'
               /\ Whole(m) => Whole(m)'
    BY <1>a, <1>e DEF Owed
  \* A step that leaves what the job of m says, and after which whoever works on m has
  \* what it needs.
  <1>s. ASSUME skipped'[m] = skipped[m], fresh[m] \subseteq fresh'[m],
               \A r \in Runner : m \in mem'[r].on => Fresh(r, m)',
               job'[m].old => job'[m].tok = Nobody,
               job'[m].rerun = job[m].rerun, job'[m].cursor = job[m].cursor,
               job'[m].st # "DONE" \/ job'[m].st = job[m].st
        PROVE  There(m)'
    <2>1. ~job'[m].rerun => Before(job[m].cursor, m)'
      BY <1>e, <1>s, <1>h
    <2>2. job'[m].st = "DONE" => ~job'[m].rerun /\ Whole(m)'
      BY <1>e, <1>s, <1>h
    <2> QED
      BY <2>1, <2>2, <1>s
  \* A runner that stays where it was, on a job that keeps its claim and its mark.
  <1>f. ASSUME skipped'[m] = skipped[m], fresh[m] \subseteq fresh'[m],
               NEW r \in Runner, mem'[r] = mem[r], pc'[r] = pc[r],
               m \in mem[r].on => job'[m].tok = job[m].tok /\ job'[m].rerun = job[m].rerun
        PROVE  m \in mem'[r].on => Fresh(r, m)'
    <2>1. m \in mem'[r].on => Fresh(r, m)
      BY <1>f, <1>h
    <2>2. Before(mem[r].at, m) => Before(mem[r].at, m)'
      BY <1>e, <1>f
    <2>3. Whole(m) => Whole(m)'
      BY <1>e, <1>f
    <2> QED
      BY <1>f, <2>1, <2>2, <2>3
  \* A step that touches neither the job nor the logs of m, by a runner not at work on it.
  <1>1. ASSUME job'[m] = job[m], fresh'[m] = fresh[m], skipped'[m] = skipped[m], NEW r \in Runner,
               \A s \in Runner : s # r => mem'[s] = mem[s] /\ pc'[s] = pc[s],
               m \notin mem'[r].on
        PROVE  There(m)'
    <2>1. \A s \in Runner : m \in mem'[s].on => Fresh(s, m)'
      BY <1>1, <1>f
    <2> QED
      BY <1>1, <1>h, <2>1, <1>s
  \* A step that lets the job of m go while nobody works on it.
  <1>g. ASSUME skipped'[m] = skipped[m], fresh'[m] = fresh[m],
               \A r \in Runner : m \notin mem'[r].on,
               ~job'[m].old, job'[m].st # "DONE",
               job'[m].rerun = job[m].rerun, job'[m].cursor = job[m].cursor
        PROVE  There(m)'
    BY <1>g, <1>s
  <1>2. ASSUME NEW r \in Runner, Tick(r) \/ NothingDue(r) PROVE There(m)'
    <2>1. m \notin mem'[r].on
      BY <1>2, Blanks DEF TypeOK, Tick, NothingDue, Leave, Mem, Blank
    <2>2. /\ job' = job /\ fresh' = fresh /\ skipped' = skipped
          /\ \A s \in Runner : s # r => mem'[s] = mem[s] /\ pc'[s] = pc[s]
      BY <1>2 DEF TypeOK, Tick, NothingDue, Leave, Goto, logVars
    <2> QED
      BY <1>1, <2>1, <2>2
  <1>3. ASSUME NEW r \in Runner, Recover(r) PROVE There(m)'
    <2>1. /\ mem' = mem /\ fresh' = fresh /\ skipped' = skipped /\ mem[r].on = {}
          /\ \A s \in Runner : s # r => pc'[s] = pc[s]
      BY <1>0, <1>3 DEF TypeOK, Recover, Goto, logVars, OneAtATime, Walking
    <2>2. CASE job[m].st = "RUNNING" /\ job[m].old
      <3>1. job'[m] = Freed(job[m], "PENDING")
        BY <1>3, <2>2 DEF Recover
      <3>2. /\ job'[m].st = "PENDING" /\ job'[m].rerun = job[m].rerun
            /\ ~job'[m].old /\ job'[m].cursor = job[m].cursor
        BY <1>0, <3>1 DEF Freed, Job
      <3>3. \A s \in Runner : m \notin mem[s].on
        BY <1>0, <1>h, <2>2
      <3> QED
        BY <1>g, <2>1, <3>2, <3>3
    <2>3. CASE ~(job[m].st = "RUNNING" /\ job[m].old)
      <3>1. job'[m] = job[m]
        BY <1>3, <2>3 DEF Recover
      <3> QED
        BY <1>1, <2>1, <3>1
    <2> QED
      BY <2>2, <2>3
  \* A claim that forgets a mark owes nothing before the cursor.
  <1>4. ASSUME NEW r \in Runner, NEW l \in Locale, Claim(r, l) PROVE There(m)'
    <2>1. /\ mem'[r].on = {l} /\ fresh' = fresh
          /\ \A s \in Runner : s # r => mem'[s] = mem[s] /\ pc'[s] = pc[s]
          /\ pc'[r] = IF l \in active THEN "walk" ELSE "finish"
      BY <1>0, <1>4 DEF TypeOK, Claim, Goto, Mem
    <2>2. CASE m = l
      <3>1. job'[m] = Claimed(job[m], r)
        BY <1>4, <2>2 DEF TypeOK, Claim
      <3>2. /\ job'[m].st = "RUNNING" /\ job'[m].tok = r /\ ~job'[m].rerun
            /\ ~job'[m].old /\ job'[m].cursor = job[m].cursor
        BY <1>0, <3>1 DEF Claimed, Job
      <3>3. \A s \in Runner : m \notin mem[s].on
        BY <1>0, <1>4, <1>h, <2>2 DEF Claim, ClaimIsKnown
      <3>4. Before(job[m].cursor, m)'
        <4>1. CASE job[m].rerun
          <5>1. skipped'[m] = job[m].cursor /\ job[m].cursor \in Nat
            BY <1>0, <1>4, <2>2, <4>1 DEF TypeOK, Claim, Forgetting, Job, Page
          <5> QED
            BY <3>2, <5>1 DEF Owed, Page
        <4>2. CASE ~job[m].rerun
          <5>1. skipped' = skipped
            BY <1>4, <2>2, <4>2 DEF Claim, Forgetting
          <5>2. Owed(m)' = Owed(m)
            BY <5>1 DEF Owed
          <5> QED
            BY <1>h, <2>1, <3>2, <4>2, <5>2
        <4> QED
          BY <4>1, <4>2
      <3>5. \A s \in Runner : m \in mem'[s].on => Fresh(s, m)'
        BY <1>a, <2>1, <2>2, <3>2, <3>3
      <3> QED
        BY <3>2, <3>4, <3>5
    <2>3. CASE m # l
      <3>1. job'[m] = job[m] /\ skipped'[m] = skipped[m] /\ m \notin mem'[r].on
        BY <1>4, <2>1, <2>3 DEF TypeOK, Claim, Forgetting
      <3> QED
        BY <1>1, <2>1, <3>1
    <2> QED
      BY <2>2, <2>3
  <1>5. ASSUME NEW r \in Runner, NEW l \in Locale, WalkPage(r, l) PROVE There(m)'
    <2>1. /\ job' = job /\ skipped' = skipped
          /\ fresh[m] \subseteq fresh'[m] /\ fresh'[m] \subseteq Page
          /\ \A s \in Runner : s # r => mem'[s] = mem[s] /\ pc'[s] = pc[s]
          /\ mem'[r].on = mem[r].on /\ mem'[r].at = mem[r].at + 1 /\ pc'[r] = "save"
          /\ l \in mem[r].on /\ pc[r] = "walk"
      <3>1. mem[r].at \in Page
        BY <1>0, <1>5 DEF OneAtATime, WalkPage, On, Page
      <3> QED
        BY <1>0, <1>5, <3>1 DEF TypeOK, WalkPage, Goto, On, Mem
    <2>2. \A s \in Runner : s # r /\ m \in mem'[s].on => Fresh(s, m)'
      BY <1>f, <2>1
    <2>3. m \in mem'[r].on => Fresh(r, m)'
      <3> SUFFICES ASSUME m \in mem[r].on PROVE Fresh(r, m)'
        BY <2>1
      <3>1. m = l /\ job[m].tok = r /\ mem[r].at = job[m].cursor
        BY <1>0, <1>h, <2>1 DEF OneAtATime, ClaimIsKnown
      <3>2. fresh'[m] = fresh[m] \cup {mem[r].at}
        BY <1>5, <3>1 DEF TypeOK, WalkPage
      <3>3. Owed(m)' = Owed(m) /\ Owed(m) \subseteq 0..Pages
        BY <1>0, <2>1 DEF Owed, Page
      <3>4. ~job'[m].rerun => Before(mem[r].at, m)'
        <4>1. ~job[m].rerun => Before(job[m].cursor, m)
          BY <1>h
        <4> QED
          BY <1>0, <2>1, <3>1, <3>2, <3>3, <4>1
      <3> QED
        BY <2>1, <3>1, <3>4
    <2>4. \A s \in Runner : m \in mem'[s].on => Fresh(s, m)'
      BY <2>2, <2>3
    <2> QED
      BY <1>h, <1>s, <2>1, <2>4
  <1>6. ASSUME NEW r \in Runner, NEW l \in Locale, SaveCursor(r, l) PROVE There(m)'
    <2>1. /\ mem' = mem /\ fresh' = fresh /\ skipped' = skipped
          /\ l \in mem[r].on /\ pc[r] = "save"
          /\ \A s \in Runner : s # r => pc'[s] = pc[s]
      BY <1>6 DEF TypeOK, SaveCursor, Goto, On
    <2>2. CASE m \notin mem[r].on
      <3>1. m # l
        BY <2>1, <2>2
      <3>2. job'[m] = job[m]
        BY <1>6, <3>1 DEF TypeOK, SaveCursor
      <3> QED
        BY <1>1, <2>1, <2>2, <3>2
    <2>3. CASE m \in mem[r].on
      <3>1. m = l /\ job[m].tok = r
        BY <1>0, <1>h, <2>1, <2>3 DEF OneAtATime
      <3>2. /\ job'[m].st = job[m].st /\ job'[m].tok = r /\ job'[m].rerun = job[m].rerun
            /\ ~job'[m].old
            /\ job'[m].cursor = IF mem[r].at = Pages THEN 0 ELSE mem[r].at
            /\ job[m].st = "RUNNING"
        BY <1>0, <1>6, <1>h, <3>1 DEF TypeOK, SaveCursor, Saved, Job, ClaimIsKnown
      <3>3. ~job[m].rerun => Before(mem[r].at, m)
        BY <1>h, <2>1, <2>3
      <3>4. pc'[r] = "finish" => mem[r].at = Pages
        BY <1>6 DEF TypeOK, SaveCursor, Goto
      <3>5. ~job[m].rerun /\ mem[r].at = Pages => Owed(m) \subseteq fresh[m]
        <4>1. \A p \in Owed(m) : p < Pages
          BY <1>0 DEF Page
        <4> QED
          BY <3>3, <4>1
      <3>6. pc'[r] # "save"
        BY <1>6 DEF TypeOK, SaveCursor, Goto
      <3>7. \A s \in Runner : m \in mem'[s].on => s = r
        BY <1>o, <2>1, <2>3
      <3>8. Owed(m)' = Owed(m) /\ Owed(m) \subseteq Page
        BY <1>0, <2>1 DEF Owed
      <3>9. ~job'[m].rerun => Before(job[m].cursor, m)'
        BY <1>0, <2>1, <3>2, <3>3, <3>8 DEF Page
      <3>10. \A s \in Runner : m \in mem'[s].on => Fresh(s, m)'
        BY <2>1, <3>2, <3>4, <3>5, <3>6, <3>7, <3>8
      <3> QED
        BY <3>2, <3>9, <3>10
    <2> QED
      BY <2>2, <2>3
  \* A runner that leaves was the only one at work on its locale.
  <1>7. ASSUME NEW r \in Runner, NEW l \in Locale,
               HandBack(r, l) \/ Finish(r, l) \/ Fail(r, l)
        PROVE  There(m)'
    <2>1. /\ \A s \in Runner : s # r => mem'[s] = mem[s] /\ pc'[s] = pc[s]
          /\ mem'[r].on = {} /\ fresh' = fresh /\ skipped' = skipped /\ l \in mem[r].on
      BY <1>7, Blanks DEF TypeOK, HandBack, Finish, Fail, Leave, Goto, On, logVars
    <2>2. CASE m # l
      <3>1. job'[m] = job[m]
        BY <1>7, <2>2 DEF TypeOK, HandBack, Finish, Fail
      <3> QED
        BY <1>1, <2>1, <3>1
    <2>3. CASE m = l
      <3>1. \A s \in Runner : m \notin mem'[s].on
        BY <1>o, <2>1, <2>3
      <3>2. job[m].tok = r
        BY <1>h, <2>1, <2>3
      <3>3. CASE HandBack(r, l)
        <4>1. job'[m] = [Freed(job[m], "PENDING") EXCEPT !.due = TRUE]
          BY <2>3, <3>2, <3>3 DEF TypeOK, HandBack
        <4>2. /\ job'[m].st = "PENDING" /\ job'[m].rerun = job[m].rerun /\ ~job'[m].old
              /\ job'[m].cursor = job[m].cursor
          BY <1>0, <4>1 DEF Freed, Job
        <4> QED
          BY <1>g, <2>1, <3>1, <4>2
      <3>4. CASE Fail(r, l)
        <4>1. job'[m] = Failing(job[m], mem[r].att + 1)
          BY <2>3, <3>4 DEF TypeOK, Fail
        <4>2. /\ job'[m].st \in {"PENDING", "FAILED"} /\ job'[m].rerun = job[m].rerun
              /\ ~job'[m].old /\ job'[m].cursor = job[m].cursor
          BY <1>0, <4>1 DEF Failing, Freed, Job
        <4> QED
          BY <1>g, <2>1, <3>1, <4>2
      <3>5. CASE Finish(r, l)
        <4>1. job'[m] = Finished(job[m])
          BY <2>3, <3>5 DEF TypeOK, Finish
        <4>2. /\ job'[m].st = IF job[m].rerun THEN "PENDING" ELSE "DONE"
              /\ ~job'[m].rerun /\ ~job'[m].old /\ job'[m].cursor = 0
          BY <1>0, <4>1 DEF Finished, Freed, Job
        <4>3. ~job[m].rerun => Whole(m)
          BY <1>h, <2>1, <2>3, <3>5 DEF Finish, On
        <4>4. ~job[m].rerun => Whole(m)'
          BY <1>e, <2>1, <4>3
        <4>5. Before(0, m)'
          BY DEF Owed, Page
        <4> QED
          BY <3>1, <4>2, <4>4, <4>5
      <3> QED
        BY <1>7, <3>3, <3>4, <3>5
    <2> QED
      BY <2>2, <2>3
  <1>8. ASSUME NEW r \in Runner, Crash(r) PROVE There(m)'
    <2>1. /\ \A s \in Runner : s # r => mem'[s] = mem[s] /\ pc'[s] = pc[s]
          /\ mem'[r].on = {} /\ fresh' = fresh /\ skipped' = skipped
      BY <1>8, Blanks DEF TypeOK, Crash, Leave, Goto, logVars
    <2>2. /\ job'[m].st = job[m].st /\ job'[m].cursor = job[m].cursor
          /\ job'[m].rerun = job[m].rerun /\ job'[m].old = job[m].old
          /\ job'[m].tok = IF job[m].tok = r THEN Nobody ELSE job[m].tok
      BY <1>0, <1>8 DEF TypeOK, Crash, Job
    <2>3. \A s \in Runner : s # r /\ m \in mem[s].on => job'[m].tok = job[m].tok
      BY <1>h, <2>2
    <2>4. \A s \in Runner : m \in mem'[s].on => Fresh(s, m)'
      BY <1>f, <2>1, <2>2, <2>3
    <2>5. job'[m].old => job'[m].tok = Nobody
      BY <1>h, <2>2
    <2> QED
      BY <1>s, <2>1, <2>2, <2>4, <2>5
  \* A press leaves nothing to answer for: the walk begins again, or is marked.
  <1>9. ASSUME NEW l \in Locale, Enqueue(l) PROVE There(m)'
    <2>1. mem' = mem /\ pc' = pc
      BY <1>9 DEF Enqueue, runVars
    <2>2. CASE m # l
      <3>1. job'[m] = job[m] /\ fresh'[m] = fresh[m] /\ skipped'[m] = skipped[m]
        BY <1>9, <2>2 DEF TypeOK, Enqueue
      <3>2. \A s \in Runner : m \in mem'[s].on => Fresh(s, m)'
        BY <1>f, <2>1, <3>1
      <3> QED
        BY <1>h, <1>s, <3>1, <3>2
    <2>3. CASE m = l
      <3>1. job'[m] = Restarted(job[m])
        BY <1>9, <2>3 DEF TypeOK, Enqueue
      <3>2. CASE job[m].st = "RUNNING"
        <4>1. /\ job'[m].st = "RUNNING" /\ job'[m].rerun /\ job'[m].old = job[m].old
              /\ job'[m].tok = job[m].tok
          BY <1>0, <3>1, <3>2 DEF Restarted, Job
        <4> QED
          BY <1>h, <2>1, <4>1
      <3>3. CASE job[m].st # "RUNNING"
        <4>1. /\ job'[m].st = "PENDING" /\ job'[m].old = job[m].old
              /\ job'[m].cursor = 0 /\ job'[m].tok = job[m].tok
          BY <1>0, <3>1, <3>3 DEF Restarted, Job
        <4>2. \A s \in Runner : m \notin mem[s].on
          BY <1>0, <1>h, <3>3 DEF ClaimIsKnown
        <4>3. Before(0, m)'
          BY DEF Owed, Page
        <4> QED
          BY <1>h, <2>1, <4>1, <4>2, <4>3
      <3> QED
        BY <3>2, <3>3
    <2> QED
      BY <2>2, <2>3
  <1>10. ASSUME NEW l \in Locale, LeaseEnds(l) \/ BackoffEnds(l) PROVE There(m)'
    <2>0. job[m] \in Job /\ (job[m].old => job[m].tok = Nobody)
      BY <1>0, <1>h
    <2>1. mem' = mem /\ pc' = pc /\ fresh' = fresh /\ skipped' = skipped
      BY <1>10 DEF LeaseEnds, BackoffEnds, runVars, logVars
    <2>4. \/ job'[m] = job[m]
          \/ job'[m] = [job[m] EXCEPT !.old = TRUE] /\ job[m].tok = Nobody
          \/ job'[m] = [job[m] EXCEPT !.due = TRUE]
      BY <1>10 DEF TypeOK, LeaseEnds, BackoffEnds, Calm
    <2>5. /\ job'[m].tok = job[m].tok /\ job'[m].st = job[m].st
          /\ job'[m].rerun = job[m].rerun /\ job'[m].cursor = job[m].cursor
      BY <2>0, <2>4 DEF Job
    <2>2. job'[m].old => job'[m].tok = Nobody
      BY <2>0, <2>4 DEF Job
    <2>3. \A s \in Runner : m \in mem'[s].on => Fresh(s, m)'
      BY <1>f, <2>1, <2>5
    <2> QED
      BY <1>s, <2>1, <2>2, <2>3, <2>5
  <1>11. ASSUME UNCHANGED <<job, runVars, logVars>> PROVE There(m)'
    <2>1. job' = job /\ mem' = mem /\ pc' = pc /\ fresh' = fresh /\ skipped' = skipped
      BY <1>11 DEF runVars, logVars
    <2>2. \A s \in Runner : m \in mem'[s].on => Fresh(s, m)'
      BY <1>f, <2>1
    <2> QED
      BY <1>h, <1>s, <2>1, <2>2
  \* A failed walk that staff send on its way again keeps its mark.
  <1>12. ASSUME NEW l \in Locale, RetryFailed(l) PROVE There(m)'
    <2>1. mem' = mem /\ pc' = pc /\ fresh' = fresh /\ skipped' = skipped /\ job[l].st = "FAILED"
      BY <1>12 DEF RetryFailed, runVars, logVars
    <2>2. CASE m # l
      <3>1. job'[m] = job[m]
        BY <1>12, <2>2 DEF TypeOK, RetryFailed
      <3>2. \A s \in Runner : m \in mem'[s].on => Fresh(s, m)'
        BY <1>f, <2>1, <3>1
      <3> QED
        BY <1>h, <1>s, <2>1, <3>1, <3>2
    <2>3. CASE m = l
      <3>1. job'[m] = Rearmed(job[m])
        BY <1>12, <2>3 DEF TypeOK, RetryFailed
      <3>2. /\ job'[m].st = "PENDING" /\ job'[m].rerun = job[m].rerun
            /\ ~job'[m].old /\ job'[m].cursor = job[m].cursor
        BY <1>0, <3>1, RearmedForm
      <3>3. \A s \in Runner : m \notin mem[s].on
        BY <1>0, <1>h, <2>1, <2>3 DEF ClaimIsKnown
      <3> QED
        BY <1>g, <2>1, <3>2, <3>3
    <2> QED
      BY <2>2, <2>3
  <1> QED
    BY <1>2, <1>3, <1>4, <1>5, <1>6, <1>7, <1>8, <1>9, <1>10, <1>11, <1>12
       DEF Next, RunnerStep, Sync, Activate, Deactivate, RequestDies, vars

LEMMA SyncInit == Init => SyncInv
  <1> SUFFICES ASSUME Init PROVE SyncInv
    OBVIOUS
  <1>1. /\ \A l \in Locale : job[l] = NoJob
        /\ \A r \in Runner : mem[r].on = {} /\ pc[r] = "idle"
    BY Blanks DEF Init
  <1>2. NoJob.cursor = 0 /\ NoJob.st = "ABSENT" /\ ~NoJob.rerun /\ ~NoJob.old
    BY DEF NoJob
  <1> QED
    BY <1>1, <1>2 DEF SyncInv, WalkerOwns, NothingMoved, FreshSoFar, DoneIsWalked, Owed, Page

LEMMA WalkAlways == Spec => []WalkInv
  <1>1. Init => TypeOK /\ WalkInv
    BY TypeInit, HonestInit, SyncInit DEF WalkInv
  <1>2. TypeOK /\ WalkInv /\ [Next]_vars => (TypeOK /\ WalkInv)'
    <2> SUFFICES ASSUME TypeOK, WalkInv, [Next]_vars PROVE (TypeOK /\ WalkInv)'
      OBVIOUS
    <2>1. TypeOK'
      BY TypeStep DEF WalkInv, HonestInv
    <2>2. HonestInv'
      BY HonestStep DEF WalkInv
    <2>3. Calm' => SyncInv'
      BY CalmStep, SyncStep DEF WalkInv
    <2> QED
      BY <2>1, <2>2, <2>3 DEF WalkInv
  <1> QED
    BY <1>1, <1>2, PTL DEF Spec

\* Two ticks never walk one locale at once, when no page outlasts the lease.
THEOREM OneWalkerAlways == Spec => []OneWalker
  <1>1. WalkInv => OneWalker
    BY DEF WalkInv, SyncInv, WalkerOwns, OneWalker
  <1> QED
    BY <1>1, WalkAlways, PTL

\* Whichever runners crash, whichever statements fail and whenever Sync is pressed, a
\* finished walk of a served locale has walked every page since the last press, or since
\* the claim that forgot that press every page from its cursor.
THEOREM SyncWalksAllAlways == Spec => []SyncWalksAll
  <1>1. TypeOK /\ WalkInv => SyncWalksAll
    BY DEF TypeOK, WalkInv, SyncInv, DoneIsWalked, SyncWalksAll
  <1> QED
    BY <1>1, Typing, WalkAlways, PTL
=============================================================================
