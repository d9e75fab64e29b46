----------------------- MODULE TranslationQueueProofs -----------------------
(***************************************************************************)
(* Theorems about TranslationQueue, for any sets of entities, locales,     *)
(* runners, editors and translators, and any worlds: the types; that two   *)
(* runners never have one job; that a finished job leaves no stale text of *)
(* the machine's; and that the machine never writes over a person.         *)
(***************************************************************************)
EXTENDS TranslationQueue, TLAPS

-----------------------------------------------------------------------------
(* The invariants.                                                         *)

\* What a runner has in hand fits where it is.
HandFits ==
    \A r \in Runner :
        /\ pc[r] \in {"idle", "recover", "claim"} => hand[r] = {}
        /\ pc[r] \in {"idle", "recover", "claim", "pick"} => mem[r].at = {}
        /\ mem[r].at \subseteq hand[r]
        /\ \A k, l \in mem[r].at : k = l

\* A job in hand is its runner's, running, and its lease has not ended.
HeldIsOwn ==
    \A r \in Runner : \A k \in hand[r] :
        job[k].tok = r /\ job[k].st = "RUNNING" /\ ~job[k].old

HoldInv ==
    /\ HandFits
    /\ "slow" \notin world.may => HeldIsOwn

\* Nothing is switched off.
AllActive ==
    /\ active = Locale
    /\ \A r \in Runner : pc[r] # "idle" => mem[r].known = Locale

\* Another pass over k is certain: a save will enqueue it, or has.
Again(k) == BeingSaved(k[1]) \/ job[k].rerun

\* What a runner knows of its job is still so, or there will be another pass.
RunIsCurrent ==
    \A r \in Runner : \A k \in mem[r].at :
        /\ pc[r] \in {"target", "flag", "translate", "write"} =>
              Again(k) \/ src[k[1]] \in {mem[r].hash, Gone}
        /\ pc[r] = "flag" => tr[k].st \in Human
        /\ pc[r] = "finish" => Again(k) \/ ~Stale(k)

\* A finished job is of the present source.
DoneCurrent ==
    \A k \in Key : job[k].st = "DONE" /\ ~BeingSaved(k[1]) => ~Stale(k)

StepInv == InStep => AllActive /\ RunIsCurrent /\ DoneCurrent

-----------------------------------------------------------------------------
(* The types.                                                              *)

Edits == [phase : {"read", "sweep", "enqueue"}, on : Entity, hash : Version \cup {Gone}]
Pens == [on : Key, of : Version]

\* The ways a job is rewritten leave a job.
LEMMA EnqueuedTyped ==
    ASSUME NEW j \in Job
    PROVE  Enqueued(j) \in Job
BY QueueAssumption DEF Enqueued, Job, JobStatus, NoJob

LEMMA RewrittenTyped ==
    ASSUME NEW j \in Job, NEW r \in Runner, NEW att \in Nat
    PROVE  /\ Recovered(j) \in Job
           /\ Claimed(j, r) \in Job
           /\ Finished(j) \in Job
           /\ Charged(j, att) \in Job
BY QueueAssumption DEF Recovered, Claimed, Finished, Charged, Job, JobStatus

LEMMA EnqueueAllTyped ==
    ASSUME job \in [Key -> Job], NEW S, EnqueueAll(S)
    PROVE  job' \in [Key -> Job]
BY EnqueuedTyped DEF EnqueueAll

\* What a save, and a translator's save, hold.
LEMMA EditShape ==
    ASSUME TypeOK, NEW p \in Editor, edit[p] # NoEdit
    PROVE  edit[p] \in Edits
BY DEF TypeOK, Edits

LEMMA PenShape ==
    ASSUME TypeOK, NEW q \in Person, pen[q] # NoPen
    PROVE  pen[q] \in Pens
BY DEF TypeOK, Pens

\* What a runner has noted of its job.
LEMMA MemShape ==
    ASSUME TypeOK, NEW r \in Runner
    PROVE  /\ mem[r] \in Mem
           /\ mem[r].at \subseteq Key
           /\ mem[r].hash \in Version \cup {Gone}
           /\ mem[r].att \in [Key -> Nat]
BY DEF TypeOK, Mem

LEMMA BlankTyped == Blank \in Mem /\ Blank.at = {} /\ Blank.known = {}
<1>1. 0 \in Version
  BY QueueAssumption DEF Version
<1>. QED BY <1>1 DEF Blank, Mem

LEMMA UpsetTyped ==
    ASSUME TypeOK, Upset
    PROVE  world' \in World /\ world'.may = world.may
BY DEF TypeOK, Upset, World

LEMMA GotoTyped ==
    ASSUME TypeOK, NEW r \in Runner, NEW phase \in Phase, Goto(r, phase)
    PROVE  /\ pc' \in [Runner -> Phase]
           /\ pc'[r] = phase
           /\ \A s \in Runner \ {r} : pc'[s] = pc[s]
BY DEF TypeOK, Goto

LEMMA TypeInit == Init => TypeOK
<1>. SUFFICES ASSUME Init PROVE TypeOK
  OBVIOUS
<1>1. 0 \in Version
  BY QueueAssumption DEF Version
<1>2. NoJob \in Job
  BY DEF NoJob, Job, JobStatus
<1>. QED BY <1>1, <1>2, BlankTyped, QueueAssumption DEF Init, TypeOK, Target, Phase

\* A text that is written.
LEMMA TextTyped ==
    ASSUME TypeOK, NEW k \in Key, NEW x \in Target, tr' = [tr EXCEPT ![k] = x]
    PROVE  tr' \in [Key -> Target]
BY DEF TypeOK

LEMMA SaveSourceTyped ==
    ASSUME TypeOK, NEW p \in Editor, NEW e \in Entity, SaveSource(p, e)
    PROVE  TypeOK'
<1>1. src[e] + 1 \in Version
  BY QueueAssumption DEF TypeOK, SaveSource, World, Version, Gone
<1>2. src' \in [Entity -> Version \cup {Gone}]
  BY <1>1 DEF TypeOK, SaveSource
<1>3. [phase |-> "read", on |-> e, hash |-> 0] \in Edits
  BY QueueAssumption DEF Edits, Version
<1>4. edit' \in [Editor -> Edits \cup {NoEdit}]
  BY <1>3 DEF TypeOK, SaveSource, Edits
<1>. QED BY <1>2, <1>4 DEF SaveSource, TypeOK, Edits, runVars

LEMMA EditorTyped ==
    ASSUME TypeOK, NEW p \in Editor, EditorStep(p) \/ SaveDies(p)
    PROVE  TypeOK'
<1>1. CASE ReadBack(p)
  <2>1. edit[p] \in Edits /\ src[edit[p].on] \in Version \cup {Gone}
    BY <1>1, EditShape DEF ReadBack, TypeOK, Edits
  <2>2. [edit[p] EXCEPT !.phase = "sweep", !.hash = src[edit[p].on]] \in Edits
    BY <2>1 DEF Edits
  <2>3. edit' = [edit EXCEPT ![p] = [edit[p] EXCEPT !.phase = "sweep",
                                                    !.hash = src[edit[p].on]]]
    BY <1>1 DEF ReadBack
  <2>4. edit' \in [Editor -> Edits \cup {NoEdit}]
    BY <2>2, <2>3 DEF TypeOK, Edits
  <2>. QED BY <1>1, <2>4 DEF ReadBack, TypeOK, Edits, rowVars, runVars
<1>2. CASE Sweep(p)
  <2>1. [edit[p] EXCEPT !.phase = "enqueue"] \in Edits
    BY <1>2, EditShape DEF Sweep, Edits
  <2>2. edit' = [edit EXCEPT ![p] = [edit[p] EXCEPT !.phase = "enqueue"]]
    BY <1>2 DEF Sweep
  <2>3. edit' \in [Editor -> Edits \cup {NoEdit}]
    BY <2>1, <2>2 DEF TypeOK, Edits
  <2>4. \A k \in Key : [tr[k] EXCEPT !.st = "OUTDATED"] \in Target
    BY DEF TypeOK, Target, Human
  <2>5. tr' \in [Key -> Target]
    BY <1>2, <2>4 DEF Sweep, TypeOK
  <2>. QED BY <1>2, <2>3, <2>5 DEF Sweep, TypeOK, Edits, runVars
<1>3. CASE Enqueue(p)
  <2>1. job' \in [Key -> Job]
    BY <1>3, EnqueueAllTyped DEF Enqueue, TypeOK
  <2>. QED BY <1>3, <2>1 DEF Enqueue, TypeOK, rowVars, runVars
<1>4. CASE SaveDies(p)
  BY <1>4, UpsetTyped DEF SaveDies, TypeOK, rowVars, runVars
<1>. QED BY <1>1, <1>2, <1>3, <1>4 DEF EditorStep

\* Steps of a runner that only move it, and change what it has noted.
LEMMA MovesTyped ==
    ASSUME TypeOK, NEW r \in Runner, NEW phase \in Phase, NEW m \in Mem, Goto(r, phase),
           mem' = [mem EXCEPT ![r] = m], hand' \in [Runner -> SUBSET Key],
           job' \in [Key -> Job], UNCHANGED <<rowVars, deskVars>>, world' \in World
    PROVE  TypeOK'
<1>1. pc' \in [Runner -> Phase] /\ mem' \in [Runner -> Mem]
  BY GotoTyped DEF TypeOK
<1>. QED BY <1>1 DEF TypeOK, rowVars, deskVars

LEMMA TickTyped ==
    ASSUME TypeOK, NEW r \in Runner, Tick(r)
    PROVE  TypeOK'
<1>1. PICK scope \in SUBSET Entity :
         mem' = [mem EXCEPT ![r] = [Blank EXCEPT !.scope = scope, !.known = active]]
  BY DEF Tick
<1>2. [Blank EXCEPT !.scope = scope, !.known = active] \in Mem
  BY BlankTyped DEF TypeOK, Mem
<1>3. /\ Goto(r, "recover") /\ UNCHANGED <<rowVars, deskVars, job, hand, world>>
      /\ "recover" \in Phase
  BY DEF Tick, rowVars, deskVars, Phase
<1>. QED BY <1>1, <1>2, <1>3, MovesTyped DEF TypeOK

LEMMA RecoverTyped ==
    ASSUME TypeOK, NEW r \in Runner, Recover(r)
    PROVE  TypeOK'
<1>1. job' \in [Key -> Job]
  <2>1. \A k \in Key : Recovered(job[k]) \in Job
    BY RewrittenTyped DEF TypeOK
  <2>. QED BY <2>1 DEF Recover, TypeOK
<1>2. pc' \in [Runner -> Phase]
  BY GotoTyped DEF Recover, Phase
<1>. QED BY <1>1, <1>2 DEF Recover, TypeOK, rowVars, deskVars

\* What a claim does.
ClaimDoes(r, S) ==
    /\ S \subseteq Claimable(r)
    /\ job' = [k \in Key |-> IF k \in S THEN Claimed(job[k], r) ELSE job[k]]
    /\ hand' = [hand EXCEPT ![r] = S]
    /\ mem' = [mem EXCEPT ![r] =
                  [mem[r] EXCEPT !.att = [k \in Key |-> IF k \in S THEN job[k].att ELSE 0]]]
    /\ Goto(r, "pick")
    /\ UNCHANGED <<rowVars, deskVars, world>>

LEMMA ClaimShape ==
    ASSUME NEW r \in Runner, Claim(r)
    PROVE  pc[r] = "claim" /\ \E S \in SUBSET Claimable(r) : ClaimDoes(r, S)
<1>1. PICK S \in SUBSET Claimable(r) :
        /\ job' = [k \in Key |-> IF k \in S THEN Claimed(job[k], r) ELSE job[k]]
        /\ hand' = [hand EXCEPT ![r] = S]
        /\ mem' = [mem EXCEPT ![r].att = [k \in Key |-> IF k \in S THEN job[k].att ELSE 0]]
  BY DEF Claim
<1>2. Goto(r, "pick") /\ UNCHANGED <<rowVars, deskVars, world>> /\ pc[r] = "claim"
  BY DEF Claim, rowVars, deskVars
<1>. QED BY <1>1, <1>2 DEF ClaimDoes

LEMMA ClaimTyped ==
    ASSUME TypeOK, NEW r \in Runner, Claim(r)
    PROVE  TypeOK'
<1>1. PICK S \in SUBSET Claimable(r) : ClaimDoes(r, S)
  BY ClaimShape
<1>. DEFINE att == [k \in Key |-> IF k \in S THEN job[k].att ELSE 0]
            m == [mem[r] EXCEPT !.att = att]
<1>2. S \in SUBSET Key
  BY <1>1 DEF Claimable
<1>3. att \in [Key -> Nat]
  BY DEF TypeOK, Job
<1>4. m \in Mem
  BY <1>3, MemShape DEF Mem
<1>5. job' \in [Key -> Job]
  <2>1. \A k \in Key : Claimed(job[k], r) \in Job
    BY RewrittenTyped DEF TypeOK
  <2>. QED BY <1>1, <2>1 DEF ClaimDoes, TypeOK
<1>6. hand' \in [Runner -> SUBSET Key]
  BY <1>1, <1>2 DEF ClaimDoes, TypeOK
<1>7. mem' = [mem EXCEPT ![r] = m] /\ Goto(r, "pick") /\ "pick" \in Phase
      /\ UNCHANGED <<rowVars, deskVars>> /\ world' \in World
  BY <1>1 DEF ClaimDoes, Phase, TypeOK
<1>. HIDE DEF m
<1>. QED BY <1>4, <1>5, <1>6, <1>7, MovesTyped

\* A call ends, or dies.
LEMMA EndsTyped ==
    ASSUME TypeOK, NEW r \in Runner, NothingDue(r) \/ BatchDone(r) \/ Crash(r)
    PROVE  TypeOK'
<1>1. Goto(r, "idle") /\ "idle" \in Phase /\ mem' = [mem EXCEPT ![r] = Blank]
      /\ UNCHANGED <<rowVars, deskVars>>
  BY DEF NothingDue, BatchDone, Crash, Phase
<1>2. hand' \in [Runner -> SUBSET Key]
  BY DEF NothingDue, BatchDone, Crash, TypeOK
<1>3. job' \in [Key -> Job]
  <2>1. \A k \in Key : [job[k] EXCEPT !.tok = Nobody] \in Job
    BY DEF TypeOK, Job
  <2>. QED BY <2>1 DEF NothingDue, BatchDone, Crash, TypeOK
<1>4. world' \in World
  BY UpsetTyped DEF NothingDue, BatchDone, Crash, TypeOK
<1>. QED BY <1>1, <1>2, <1>3, <1>4, BlankTyped, MovesTyped

\* The steps on the way to a text: nothing but the runner moves.
LEMMA WayTyped ==
    ASSUME TypeOK, NEW r \in Runner, NEW k \in Key,
           Pick(r, k) \/ ReadSource(r, k) \/ ReadTarget(r, k) \/ Translate(r, k)
    PROVE  TypeOK'
<1>1. \E phase \in Phase : Goto(r, phase)
  BY DEF Pick, ReadSource, ReadTarget, Translate, Phase
<1>2. \E m \in Mem : mem' = [mem EXCEPT ![r] = m]
  <2>1. CASE Pick(r, k)
    <3>1. [mem[r] EXCEPT !.at = {k}] \in Mem
      BY MemShape DEF Mem
    <3>2. mem' = [mem EXCEPT ![r] = [mem[r] EXCEPT !.at = {k}]]
      BY <2>1 DEF Pick
    <3>. QED BY <3>1, <3>2
  <2>2. CASE ReadSource(r, k)
    <3>1. src[k[1]] \in Version \cup {Gone}
      BY DEF TypeOK, Key
    <3>2. [mem[r] EXCEPT !.hash = src[k[1]]] \in Mem
      BY <3>1, MemShape DEF Mem
    <3>3. mem' = [mem EXCEPT ![r] = [mem[r] EXCEPT !.hash = src[k[1]]]]
      BY <2>2 DEF ReadSource
    <3>. QED BY <3>2, <3>3
  <2>3. CASE ReadTarget(r, k) \/ Translate(r, k)
    <3>1. mem' = [mem EXCEPT ![r] = mem[r]]
      BY <2>3 DEF ReadTarget, Translate, TypeOK
    <3>. QED BY <3>1, MemShape
  <2>. QED BY <2>1, <2>2, <2>3
<1>3. UNCHANGED <<rowVars, deskVars, job, hand, world>>
  BY DEF Pick, ReadSource, ReadTarget, Translate, rowVars, deskVars
<1>. QED BY <1>1, <1>2, <1>3, MovesTyped DEF TypeOK

\* What the machine does to a text: it flags it, or writes its own.
LEMMA MachineTyped ==
    ASSUME TypeOK, NEW r \in Runner, NEW k \in Key, Flag(r, k) \/ Write(r, k)
    PROVE  TypeOK'
<1>1. tr' \in [Key -> Target]
  <2>1. CASE Flag(r, k)
    <3>1. [tr[k] EXCEPT !.st = "OUTDATED"] \in Target
      BY DEF TypeOK, Target, Human
    <3>2. tr' = tr \/ tr' = [tr EXCEPT ![k] = [tr[k] EXCEPT !.st = "OUTDATED"]]
      BY <2>1 DEF Flag
    <3>. QED BY <3>1, <3>2 DEF TypeOK
  <2>2. CASE Write(r, k)
    <3>1. CASE src[k[1]] # Gone /\ src[k[1]] = mem[r].hash /\ tr[k].st \notin Human
      <4>1. mem[r].hash \in Version
        BY <3>1, MemShape
      <4>2. PICK st \in {"MACHINE_TRANSLATED", "NEEDS_REVIEW"} :
               tr' = [tr EXCEPT ![k] = [st |-> st, of |-> mem[r].hash]]
        BY <2>2, <3>1 DEF Write
      <4>3. [st |-> st, of |-> mem[r].hash] \in Target
        BY <4>1 DEF Target, Human
      <4>. QED BY <4>2, <4>3 DEF TypeOK
    <3>2. CASE ~(src[k[1]] # Gone /\ src[k[1]] = mem[r].hash /\ tr[k].st \notin Human)
      BY <2>2, <3>2 DEF Write, TypeOK
    <3>. QED BY <3>1, <3>2
  <2>. QED BY <2>1, <2>2
<1>2. pc' \in [Runner -> Phase]
  BY GotoTyped DEF Flag, Write, Phase
<1>. QED BY <1>1, <1>2 DEF Flag, Write, TypeOK, deskVars

\* How a job is left.
SettledAs(r, k, j) ==
    \/ j = Finished(job[k])
    \/ j = [job[k] EXCEPT !.st = "PENDING", !.due = TRUE, !.tok = Nobody, !.old = FALSE]
    \/ j = [job[k] EXCEPT !.st = "PENDING", !.due = FALSE, !.tok = Nobody, !.old = FALSE]
    \/ j = Charged(job[k], mem[r].att[k] + 1)

Settles(r, k) == Finish(r, k) \/ Requeue(r, k) \/ Fail(r, k) \/ Pause(r, k)

LEMMA SettlesDoes ==
    ASSUME TypeOK, NEW r \in Runner, NEW k \in Key, Settles(r, k)
    PROVE  /\ k \in mem[r].at
           /\ \E j \in Job : SettledAs(r, k, j) /\ job' = [job EXCEPT ![k] = j]
           /\ Laid(r, k)
           /\ mem' = [mem EXCEPT ![r] = [mem[r] EXCEPT !.at = {}]]
           /\ UNCHANGED <<rowVars, deskVars>>
           /\ world' \in World /\ world'.may = world.may
<1>1. /\ k \in mem[r].at /\ Laid(r, k) /\ UNCHANGED <<rowVars, deskVars>>
      /\ mem' = [mem EXCEPT ![r] = [mem[r] EXCEPT !.at = {}]]
  BY DEF Settles, Finish, Requeue, Fail, Pause, At, rowVars, deskVars
<1>2. world' \in World /\ world'.may = world.may
  BY UpsetTyped DEF Settles, Finish, Requeue, Fail, Pause, TypeOK
<1>3. job[k] \in Job /\ mem[r].att[k] + 1 \in Nat
  BY MemShape DEF TypeOK
<1>4. CASE Finish(r, k)
  BY <1>1, <1>2, <1>3, <1>4, RewrittenTyped DEF Finish, SettledAs
<1>5. CASE Fail(r, k)
  BY <1>1, <1>2, <1>3, <1>5, RewrittenTyped DEF Fail, SettledAs
<1>6. CASE Requeue(r, k)
  <2>. DEFINE j == [job[k] EXCEPT !.st = "PENDING", !.due = TRUE, !.tok = Nobody, !.old = FALSE]
  <2>1. j \in Job
    BY <1>3 DEF Job, JobStatus
  <2>2. job' = [job EXCEPT ![k] = j]
    BY <1>6 DEF Requeue
  <2>. QED BY <1>1, <1>2, <2>1, <2>2 DEF SettledAs
<1>7. CASE Pause(r, k)
  <2>. DEFINE j == [job[k] EXCEPT !.st = "PENDING", !.due = FALSE, !.tok = Nobody, !.old = FALSE]
  <2>1. j \in Job
    BY <1>3 DEF Job, JobStatus
  <2>2. job' = [job EXCEPT ![k] = j]
    BY <1>7 DEF Pause
  <2>. QED BY <1>1, <1>2, <2>1, <2>2 DEF SettledAs
<1>. QED BY <1>4, <1>5, <1>6, <1>7 DEF Settles

LEMMA SettlesTyped ==
    ASSUME TypeOK, NEW r \in Runner, NEW k \in Key, Settles(r, k)
    PROVE  TypeOK'
<1>1. [mem[r] EXCEPT !.at = {}] \in Mem
  BY MemShape DEF Mem
<1>2. job' \in [Key -> Job] /\ Laid(r, k) /\ UNCHANGED <<rowVars, deskVars>>
      /\ mem' = [mem EXCEPT ![r] = [mem[r] EXCEPT !.at = {}]] /\ world' \in World
  BY SettlesDoes DEF TypeOK
<1>3. hand' \in [Runner -> SUBSET Key] /\ Goto(r, "pick") /\ "pick" \in Phase
  BY <1>2 DEF Laid, TypeOK, Phase
<1>. QED BY <1>1, <1>2, <1>3, MovesTyped

\* Time, and what the staff presses: only jobs change.
LEMMA JobsTyped ==
    ASSUME TypeOK,
           \/ \E k \in Key : LeaseEnds(k) \/ BackoffEnds(k)
           \/ \E l \in Locale : RetryFailed(l) \/ \E e \in Entity : BackfillPage(e, l)
    PROVE  TypeOK'
<1>1. ASSUME NEW k \in Key, LeaseEnds(k) \/ BackoffEnds(k) PROVE TypeOK'
  <2>1. [job[k] EXCEPT !.old = TRUE] \in Job /\ [job[k] EXCEPT !.due = TRUE] \in Job
    BY DEF TypeOK, Job
  <2>2. \/ job' = [job EXCEPT ![k] = [job[k] EXCEPT !.old = TRUE]]
        \/ job' = [job EXCEPT ![k] = [job[k] EXCEPT !.due = TRUE]]
    BY <1>1 DEF LeaseEnds, BackoffEnds
  <2>3. job' \in [Key -> Job]
    BY <2>1, <2>2 DEF TypeOK
  <2>. QED BY <1>1, <2>3 DEF LeaseEnds, BackoffEnds, TypeOK, rowVars, runVars, deskVars
<1>2. ASSUME NEW l \in Locale, RetryFailed(l) PROVE TypeOK'
  <2>1. \A k \in Key : [job[k] EXCEPT !.st = "PENDING", !.att = 0, !.due = TRUE,
                                      !.tok = Nobody] \in Job
    BY DEF TypeOK, Job, JobStatus
  <2>2. job' \in [Key -> Job]
    BY <1>2, <2>1 DEF RetryFailed, TypeOK
  <2>. QED BY <1>2, <2>2, UpsetTyped DEF RetryFailed, TypeOK, rowVars, runVars, deskVars
<1>3. ASSUME NEW l \in Locale, NEW e \in Entity, BackfillPage(e, l) PROVE TypeOK'
  <2>1. job' \in [Key -> Job]
    BY <1>3, EnqueueAllTyped DEF BackfillPage, TypeOK
  <2>. QED BY <1>3, <2>1, UpsetTyped DEF BackfillPage, TypeOK, rowVars, runVars, deskVars
<1>. QED BY <1>1, <1>2, <1>3

LEMMA PeopleTyped ==
    ASSUME TypeOK,
           \/ \E q \in Person : SaveTranslation(q) \/ \E k \in Key : OpenSave(q, k)
           \/ \E l \in Locale : SwitchLocale(l)
           \/ \E e \in Entity : DeleteSource(e)
    PROVE  TypeOK'
<1>1. ASSUME NEW q \in Person, SaveTranslation(q) PROVE TypeOK'
  <2>1. pen[q] \in Pens
    BY <1>1, PenShape DEF SaveTranslation
  <2>2. \E x \in Target : tr' = [tr EXCEPT ![pen[q].on] = x]
    BY <1>1, <2>1 DEF SaveTranslation, Pens, Target, Human
  <2>3. tr' \in [Key -> Target]
    BY <2>1, <2>2 DEF TypeOK, Pens
  <2>. QED BY <1>1, <2>3 DEF SaveTranslation, TypeOK, runVars
<1>2. ASSUME NEW q \in Person, NEW k \in Key, OpenSave(q, k) PROVE TypeOK'
  <2>1. [on |-> k, of |-> src[k[1]]] \in Pens
    BY <1>2 DEF OpenSave, TypeOK, Pens, Key
  <2>2. pen' \in [Person -> Pens \cup {NoPen}]
    BY <1>2, <2>1 DEF OpenSave, TypeOK, Pens
  <2>. QED BY <1>2, <2>2, UpsetTyped DEF OpenSave, TypeOK, Pens, rowVars, runVars
<1>3. ASSUME NEW l \in Locale, SwitchLocale(l) PROVE TypeOK'
  BY <1>3, UpsetTyped DEF SwitchLocale, TypeOK, runVars, deskVars
<1>4. ASSUME NEW e \in Entity, DeleteSource(e) PROVE TypeOK'
  BY <1>4, UpsetTyped DEF DeleteSource, TypeOK, runVars, deskVars
<1>. QED BY <1>1, <1>2, <1>3, <1>4

LEMMA TypeStep == TypeOK /\ [Next]_vars => TypeOK'
<1>. SUFFICES ASSUME TypeOK, [Next]_vars PROVE TypeOK'
  OBVIOUS
<1>1. ASSUME NEW r \in Runner, Tick(r) \/ RunnerStep(r) \/ Crash(r) PROVE TypeOK'
  BY <1>1, TickTyped, RecoverTyped, ClaimTyped, EndsTyped, WayTyped, MachineTyped,
     SettlesTyped DEF RunnerStep, Settles
<1>2. ASSUME NEW p \in Editor,
             EditorStep(p) \/ SaveDies(p) \/ \E e \in Entity : SaveSource(p, e)
      PROVE  TypeOK'
  BY <1>2, EditorTyped, SaveSourceTyped
<1>3. CASE UNCHANGED vars
  BY <1>3 DEF vars, TypeOK, rowVars, runVars, deskVars
<1>. QED BY <1>1, <1>2, <1>3, JobsTyped, PeopleTyped DEF Next

\* Every variable of the queue keeps its type.
THEOREM Typing == Spec => []TypeOK
BY TypeInit, TypeStep, PTL DEF Spec

-----------------------------------------------------------------------------
(* Who has a job.                                                          *)

\* The steps other than a runner's move no runner; all keep the kind of world.
Outside ==
    \/ \E k \in Key : LeaseEnds(k) \/ BackoffEnds(k)
    \/ \E p \in Editor : \/ EditorStep(p) \/ SaveDies(p)
                         \/ \E e \in Entity : SaveSource(p, e)
    \/ \E q \in Person : SaveTranslation(q) \/ \E k \in Key : OpenSave(q, k)
    \/ \E l \in Locale : \/ SwitchLocale(l) \/ RetryFailed(l)
                         \/ \E e \in Entity : BackfillPage(e, l)
    \/ \E e \in Entity : DeleteSource(e)
    \/ UNCHANGED vars

LEMMA Split ==
    ASSUME [Next]_vars
    PROVE  Outside \/ \E r \in Runner : Tick(r) \/ RunnerStep(r) \/ Crash(r)
BY DEF Next, Outside

LEMMA OutsideMoves ==
    ASSUME Outside
    PROVE  UNCHANGED runVars
<1>1. ASSUME NEW p \in Editor, EditorStep(p) \/ SaveDies(p) PROVE UNCHANGED runVars
  BY <1>1 DEF EditorStep, ReadBack, Sweep, Enqueue, SaveDies
<1>. QED BY <1>1 DEF Outside, vars, LeaseEnds, BackoffEnds, SaveSource, SaveTranslation,
            OpenSave, SwitchLocale, RetryFailed, BackfillPage, DeleteSource

LEMMA MayStays ==
    ASSUME TypeOK, [Next]_vars
    PROVE  world'.may = world.may
<1>1. ASSUME NEW r \in Runner, RunnerStep(r) PROVE world'.may = world.may
  <2>1. ASSUME NEW k \in Key, Settles(r, k) PROVE world'.may = world.may
    BY <2>1, SettlesDoes
  <2>2. CASE Claim(r)
    BY <2>2 DEF Claim
  <2>. QED BY <1>1, <2>1, <2>2 DEF RunnerStep, Settles, Recover, NothingDue, BatchDone,
              Pick, ReadSource, ReadTarget, Flag, Translate, Write
<1>2. ASSUME NEW r \in Runner, Tick(r) \/ Crash(r) PROVE world'.may = world.may
  BY <1>2, UpsetTyped DEF Tick, Crash
<1>3. ASSUME NEW p \in Editor, EditorStep(p) \/ SaveDies(p) PROVE world'.may = world.may
  BY <1>3, UpsetTyped DEF EditorStep, ReadBack, Sweep, Enqueue, SaveDies
<1>4. CASE Outside
  BY <1>3, <1>4, UpsetTyped DEF Outside, vars, LeaseEnds, BackoffEnds, SaveSource,
     SaveTranslation, OpenSave, SwitchLocale, RetryFailed, BackfillPage, DeleteSource
<1>. QED BY <1>1, <1>2, <1>4, Split

\* Only one runner moves.
Alone(r) ==
    \A s \in Runner \ {r} : pc'[s] = pc[s] /\ hand'[s] = hand[s] /\ mem'[s] = mem[s]

\* What a runner has then.
Fits(r) ==
    /\ pc[r] \in {"idle", "recover", "claim"} => hand[r] = {}
    /\ pc[r] \in {"idle", "recover", "claim", "pick"} => mem[r].at = {}
    /\ mem[r].at \subseteq hand[r]
    /\ \A k, l \in mem[r].at : k = l

LEMMA FitsStep ==
    ASSUME HandFits, NEW r \in Runner, Alone(r), Fits(r)'
    PROVE  HandFits'
BY DEF HandFits, Alone, Fits

LEMMA FitsRunner ==
    ASSUME TypeOK, HandFits, NEW r \in Runner, Tick(r) \/ RunnerStep(r) \/ Crash(r)
    PROVE  Alone(r) /\ Fits(r)'
<1>. USE DEF Alone, Fits
<1>0. Fits(r)
  BY DEF HandFits
<1>1. CASE Tick(r)
  <2>1. PICK scope \in SUBSET Entity :
           mem' = [mem EXCEPT ![r] = [Blank EXCEPT !.scope = scope, !.known = active]]
    BY <1>1 DEF Tick
  <2>2. [Blank EXCEPT !.scope = scope, !.known = active].at = {}
    BY DEF Blank
  <2>3. /\ mem'[r].at = {} /\ \A s \in Runner \ {r} : mem'[s] = mem[s]
    BY <2>1, <2>2 DEF TypeOK
  <2>. QED BY <1>0, <1>1, <2>3 DEF Tick, Goto, TypeOK
<1>2. CASE Recover(r)
  BY <1>0, <1>2 DEF Recover, Goto, TypeOK
<1>3. CASE Claim(r)
  <2>1. PICK S \in SUBSET Claimable(r) : ClaimDoes(r, S)
    BY <1>3, ClaimShape
  <2>2. pc[r] = "claim" /\ S \subseteq Key
    BY <1>3 DEF Claim, Claimable
  <2>3. mem'[r].at = mem[r].at /\ \A s \in Runner \ {r} : mem'[s] = mem[s]
    BY <2>1, MemShape DEF ClaimDoes, TypeOK, Mem
  <2>4. pc'[r] = "pick" /\ \A s \in Runner \ {r} : pc'[s] = pc[s] /\ hand'[s] = hand[s]
    BY <2>1 DEF ClaimDoes, Goto, TypeOK
  <2>. QED BY <1>0, <2>2, <2>3, <2>4
<1>4. CASE NothingDue(r) \/ BatchDone(r) \/ Crash(r)
  <2>1. /\ pc'[r] = "idle" /\ mem'[r].at = {}
        /\ \A s \in Runner \ {r} : pc'[s] = pc[s] /\ mem'[s] = mem[s]
    BY <1>4, BlankTyped DEF NothingDue, BatchDone, Crash, Goto, TypeOK
  <2>2. hand'[r] = {} /\ \A s \in Runner \ {r} : hand'[s] = hand[s]
    BY <1>0, <1>4 DEF NothingDue, BatchDone, Crash, TypeOK
  <2>. QED BY <2>1, <2>2
<1>5. ASSUME NEW k \in Key, Pick(r, k) PROVE Alone(r) /\ Fits(r)'
  <2>1. mem'[r].at = {k} /\ \A s \in Runner \ {r} : mem'[s] = mem[s]
    BY <1>5, MemShape DEF Pick, TypeOK, Mem
  <2>2. pc'[r] \in {"source", "finish"} /\ \A s \in Runner \ {r} : pc'[s] = pc[s]
    BY <1>5 DEF Pick, Goto, TypeOK
  <2>. QED BY <1>5, <2>1, <2>2 DEF Pick
<1>6. ASSUME NEW k \in Key,
             ReadSource(r, k) \/ ReadTarget(r, k) \/ Flag(r, k) \/ Translate(r, k) \/ Write(r, k)
      PROVE  Alone(r) /\ Fits(r)'
  <2>1. mem'[r].at = mem[r].at /\ \A s \in Runner \ {r} : mem'[s] = mem[s]
    BY <1>6, MemShape DEF ReadSource, ReadTarget, Flag, Translate, Write, TypeOK, Mem
  <2>2. /\ pc'[r] \in {"target", "flag", "translate", "write", "finish", "requeue"}
        /\ \A s \in Runner \ {r} : pc'[s] = pc[s]
    BY <1>6 DEF ReadSource, ReadTarget, Flag, Translate, Write, Goto, TypeOK
  <2>3. UNCHANGED hand
    BY <1>6 DEF ReadSource, ReadTarget, Flag, Translate, Write
  <2>. QED BY <1>0, <2>1, <2>2, <2>3
<1>7. ASSUME NEW k \in Key, Settles(r, k) PROVE Alone(r) /\ Fits(r)'
  <2>1. mem' = [mem EXCEPT ![r] = [mem[r] EXCEPT !.at = {}]] /\ Laid(r, k)
    BY <1>7, SettlesDoes
  <2>2. mem'[r].at = {} /\ \A s \in Runner \ {r} : mem'[s] = mem[s]
    BY <2>1, MemShape DEF TypeOK, Mem
  <2>. QED BY <2>1, <2>2 DEF Laid, Goto, TypeOK
<1>. QED BY <1>1, <1>2, <1>3, <1>4, <1>5, <1>6, <1>7 DEF RunnerStep, Settles

\* A job keeps its claim.
Kept(j, i) == i.tok = j.tok /\ i.st = j.st /\ i.old = j.old

LEMMA HeldStep ==
    ASSUME HeldIsOwn, \A s \in Runner : hand'[s] \subseteq hand[s],
           \A s \in Runner : \A k \in hand'[s] : Kept(job[k], job'[k])
    PROVE  HeldIsOwn'
BY DEF HeldIsOwn, Kept

LEMMA EnqueuedKept ==
    ASSUME NEW j \in Job, j.st = "RUNNING"
    PROVE  Kept(j, Enqueued(j)) /\ Enqueued(j).rerun = TRUE
BY DEF Kept, Enqueued, Job

\* What is enqueued takes no job from its runner.
LEMMA HeldEnqueue ==
    ASSUME TypeOK, HeldIsOwn, NEW S, EnqueueAll(S), UNCHANGED hand
    PROVE  HeldIsOwn'
<1>1. \A s \in Runner : \A k \in hand[s] : k \in Key /\ job[k] \in Job /\ job[k].st = "RUNNING"
  BY DEF TypeOK, HeldIsOwn
<1>2. \A s \in Runner : \A k \in hand[s] : Kept(job[k], job'[k])
  BY <1>1, EnqueuedKept DEF EnqueueAll, Kept
<1>. QED BY <1>2, HeldStep

LEMMA HeldOutside ==
    ASSUME TypeOK, HeldIsOwn, "slow" \notin world.may, Outside
    PROVE  HeldIsOwn'
<1>1. UNCHANGED hand
  BY OutsideMoves DEF runVars
<1>2. \A s \in Runner : \A k \in hand[s] :
         /\ k \in Key /\ job[k] \in Job
         /\ job[k].st = "RUNNING" /\ job[k].tok = s /\ ~job[k].old
         /\ s # Nobody
  BY QueueAssumption DEF TypeOK, HeldIsOwn
<1>3. ASSUME NEW l \in Key, LeaseEnds(l) \/ BackoffEnds(l) PROVE HeldIsOwn'
  <2>1. \A s \in Runner : l \notin hand[s]
    BY <1>2, <1>3 DEF LeaseEnds, BackoffEnds
  <2>2. \A k \in Key \ {l} : job'[k] = job[k]
    BY <1>3 DEF LeaseEnds, BackoffEnds, TypeOK
  <2>. QED BY <1>1, <1>2, <2>1, <2>2, HeldStep DEF Kept
<1>4. ASSUME NEW l \in Locale, RetryFailed(l) PROVE HeldIsOwn'
  <2>1. \A s \in Runner : \A k \in hand[s] : job'[k] = job[k]
    BY <1>2, <1>4 DEF RetryFailed
  <2>. QED BY <1>1, <2>1, HeldStep DEF Kept
<1>5. ASSUME NEW l \in Locale, NEW e \in Entity, BackfillPage(e, l) PROVE HeldIsOwn'
  BY <1>1, <1>5, HeldEnqueue DEF BackfillPage
<1>6. ASSUME NEW p \in Editor, Enqueue(p) PROVE HeldIsOwn'
  BY <1>1, <1>6, HeldEnqueue DEF Enqueue
<1>7. ASSUME NEW p \in Editor, ReadBack(p) \/ Sweep(p) \/ SaveDies(p) PROVE UNCHANGED job
  BY <1>7 DEF ReadBack, Sweep, SaveDies
<1>8. CASE UNCHANGED job
  BY <1>1, <1>8, HeldStep DEF Kept
<1>. QED BY <1>3, <1>4, <1>5, <1>6, <1>7, <1>8 DEF Outside, EditorStep, vars, SaveSource,
            SaveTranslation, OpenSave, SwitchLocale, DeleteSource

LEMMA HeldRunner ==
    ASSUME TypeOK, HandFits, HeldIsOwn, NEW r \in Runner,
           Tick(r) \/ RunnerStep(r) \/ Crash(r)
    PROVE  HeldIsOwn'
<1>1. \A s \in Runner : \A k \in hand[s] :
         /\ k \in Key /\ job[k] \in Job
         /\ job[k].st = "RUNNING" /\ job[k].tok = s /\ ~job[k].old
  BY DEF TypeOK, HeldIsOwn
<1>2. CASE Recover(r)
  <2>1. \A s \in Runner : \A k \in hand[s] : job'[k] = job[k]
    BY <1>1, <1>2 DEF Recover
  <2>. QED BY <1>2, <2>1, HeldStep DEF Recover, Kept
<1>3. CASE Claim(r)
  <2>1. PICK S \in SUBSET Claimable(r) : ClaimDoes(r, S)
    BY <1>3, ClaimShape
  <2>2. \A k \in S : k \in Key /\ job[k].st = "PENDING" /\ job[k] \in Job
    BY DEF Claimable, TypeOK
  <2>3. \A k \in S : job'[k].tok = r /\ job'[k].st = "RUNNING" /\ ~job'[k].old
    BY <2>1, <2>2 DEF ClaimDoes, Claimed, Job
  <2>4. \A k \in Key \ S : job'[k] = job[k]
    BY <2>1 DEF ClaimDoes
  <2>5. hand'[r] = S /\ \A s \in Runner \ {r} : hand'[s] = hand[s]
    BY <2>1, <2>2 DEF ClaimDoes, TypeOK
  <2>6. \A s \in Runner : \A k \in hand[s] : k \in Key \ S
    BY <1>1, <2>2
  <2>. QED BY <2>3, <2>4, <2>5, <2>6 DEF HeldIsOwn
<1>4. CASE Crash(r)
  <2>1. hand'[r] = {} /\ \A s \in Runner \ {r} : hand'[s] = hand[s]
    BY <1>4 DEF Crash, TypeOK
  <2>2. \A s \in Runner \ {r} : \A k \in hand[s] : job'[k] = job[k]
    BY <1>1, <1>4 DEF Crash
  <2>. QED BY <2>1, <2>2, HeldStep DEF Kept
<1>5. ASSUME NEW k \in Key, Settles(r, k) PROVE HeldIsOwn'
  <2>1. k \in hand[r]
    BY <1>5, SettlesDoes DEF HandFits
  <2>2. \A l \in Key \ {k} : job'[l] = job[l]
    BY <1>5, SettlesDoes DEF TypeOK
  <2>3. Laid(r, k)
    BY <1>5, SettlesDoes
  <2>4. hand'[r] = hand[r] \ {k} /\ \A s \in Runner \ {r} : hand'[s] = hand[s]
    BY <2>3 DEF Laid, TypeOK
  <2>5. \A s \in Runner : k \notin hand'[s]
    BY <1>1, <2>1, <2>4
  <2>6. \A s \in Runner : hand'[s] \subseteq hand[s]
    BY <2>4
  <2>7. \A s \in Runner : \A l \in hand'[s] : Kept(job[l], job'[l])
    BY <1>1, <2>2, <2>5, <2>6 DEF Kept
  <2>. QED BY <2>6, <2>7, HeldStep
<1>6. CASE UNCHANGED <<job, hand>>
  BY <1>6, HeldStep DEF Kept
<1>. QED BY <1>2, <1>3, <1>4, <1>5, <1>6 DEF RunnerStep, Settles, Tick, NothingDue, BatchDone,
            Pick, ReadSource, ReadTarget, Flag, Translate, Write

LEMMA HoldInit == Init => HoldInv
BY DEF Init, HoldInv, HandFits, HeldIsOwn, Blank

LEMMA HoldStep == TypeOK /\ HoldInv /\ [Next]_vars => HoldInv'
<1>. SUFFICES ASSUME TypeOK, HoldInv, [Next]_vars PROVE HoldInv'
  OBVIOUS
<1>1. HandFits'
  <2>1. CASE Outside
    BY <2>1, OutsideMoves DEF HoldInv, HandFits, runVars
  <2>2. ASSUME NEW r \in Runner, Tick(r) \/ RunnerStep(r) \/ Crash(r) PROVE HandFits'
    BY <2>2, FitsRunner, FitsStep DEF HoldInv
  <2>. QED BY <2>1, <2>2, Split
<1>2. "slow" \notin world'.may => HeldIsOwn'
  BY Split, MayStays, HeldOutside, HeldRunner DEF HoldInv
<1>. QED BY <1>1, <1>2 DEF HoldInv

LEMMA Held == Spec => []HoldInv
BY Typing, HoldInit, HoldStep, PTL DEF Spec

\* Two runners never have one job: the claim is one UPDATE with its WHERE, and
\* nothing but the lease takes a job from its runner (claimJobs, recoverStaleJobs).
THEOREM OneRunnerAlways == Spec => []OneRunner
<1>1. HoldInv => OneRunner
  BY DEF HoldInv, HeldIsOwn, OneRunner
<1>. QED BY <1>1, Held, PTL

-----------------------------------------------------------------------------
(* What a finished job leaves.                                             *)

\* In a world that keeps in step nothing is switched off.
LEMMA ActiveStep ==
    ASSUME TypeOK, InStep, AllActive, [Next]_vars
    PROVE  AllActive'
<1>1. /\ "locale" \notin world.may
      /\ active = Locale
      /\ \A r \in Runner : pc[r] # "idle" => mem[r].known = Locale
  BY DEF InStep, AllActive
<1>2. CASE Outside
  <2>1. UNCHANGED runVars
    BY <1>2, OutsideMoves
  <2>2. ASSUME NEW p \in Editor, EditorStep(p) \/ SaveDies(p) PROVE UNCHANGED active
    BY <2>2 DEF EditorStep, ReadBack, Sweep, Enqueue, SaveDies, rowVars
  <2>3. UNCHANGED active
    BY <1>1, <1>2, <2>2 DEF Outside, vars, rowVars, LeaseEnds, BackoffEnds, SaveSource,
       SaveTranslation, OpenSave, SwitchLocale, RetryFailed, BackfillPage, DeleteSource
  <2>. QED BY <1>1, <2>1, <2>3 DEF AllActive, runVars
<1>3. ASSUME NEW r \in Runner, Tick(r) \/ RunnerStep(r) \/ Crash(r) PROVE AllActive'
  <2>1. UNCHANGED active
    <3>1. ASSUME NEW k \in Key, Settles(r, k) PROVE UNCHANGED active
      BY <3>1, SettlesDoes DEF rowVars
    <3>. QED BY <1>3, <3>1 DEF Tick, RunnerStep, Settles, Crash, Recover, Claim, NothingDue,
                BatchDone, Pick, ReadSource, ReadTarget, Flag, Translate, Write, rowVars
  <2>2. \A s \in Runner \ {r} : pc'[s] = pc[s] /\ mem'[s] = mem[s]
    <3>1. CASE Tick(r)
      BY <3>1 DEF Tick, Goto, TypeOK
    <3>2. ASSUME NEW k \in Key, Settles(r, k)
          PROVE  \A s \in Runner \ {r} : pc'[s] = pc[s] /\ mem'[s] = mem[s]
      BY <3>2, SettlesDoes DEF Laid, Goto, TypeOK
    <3>3. CASE Recover(r) \/ NothingDue(r) \/ BatchDone(r) \/ Crash(r)
      BY <3>3 DEF Recover, NothingDue, BatchDone, Crash, Goto, TypeOK
    <3>4. CASE Claim(r)
      BY <3>4, ClaimShape DEF ClaimDoes, Goto, TypeOK
    <3>5. ASSUME NEW k \in Key, \/ Pick(r, k) \/ ReadSource(r, k) \/ ReadTarget(r, k)
                                \/ Flag(r, k) \/ Translate(r, k) \/ Write(r, k)
          PROVE  \A s \in Runner \ {r} : pc'[s] = pc[s] /\ mem'[s] = mem[s]
      BY <3>5 DEF Pick, ReadSource, ReadTarget, Flag, Translate, Write, Goto, TypeOK
    <3>. QED BY <1>3, <3>1, <3>2, <3>3, <3>4, <3>5 DEF RunnerStep, Settles
  <2>3. pc'[r] # "idle" => mem'[r].known = Locale
    <3>1. CASE Tick(r)
      <4>1. PICK scope \in SUBSET Entity :
               mem' = [mem EXCEPT ![r] = [Blank EXCEPT !.scope = scope, !.known = active]]
        BY <3>1 DEF Tick
      <4>2. [Blank EXCEPT !.scope = scope, !.known = active].known = active
        BY DEF Blank
      <4>. QED BY <4>1, <4>2, <1>1 DEF TypeOK
    <3>2. ASSUME NEW k \in Key, Settles(r, k) PROVE mem'[r].known = Locale
      <4>1. pc[r] # "idle"
        BY <3>2 DEF Settles, Finish, Requeue, Fail, Pause, At
      <4>2. mem'[r].known = mem[r].known
        BY <3>2, SettlesDoes, MemShape DEF TypeOK, Mem
      <4>. QED BY <4>1, <4>2, <1>1
    <3>3. CASE NothingDue(r) \/ BatchDone(r) \/ Crash(r)
      BY <3>3 DEF NothingDue, BatchDone, Crash, Goto, TypeOK
    <3>4. CASE Claim(r)
      <4>1. mem'[r].known = mem[r].known
        BY <3>4, ClaimShape, MemShape DEF ClaimDoes, TypeOK, Mem
      <4>. QED BY <4>1, <3>4, <1>1 DEF Claim
    <3>5. ASSUME NEW k \in Key, \/ Pick(r, k) \/ ReadSource(r, k) \/ ReadTarget(r, k)
                                \/ Flag(r, k) \/ Translate(r, k) \/ Write(r, k)
          PROVE  mem'[r].known = Locale
      <4>1. mem'[r].known = mem[r].known
        BY <3>5, MemShape DEF Pick, ReadSource, ReadTarget, Flag, Translate, Write, TypeOK, Mem
      <4>2. pc[r] # "idle"
        BY <3>5 DEF Pick, ReadSource, ReadTarget, Flag, Translate, Write, At
      <4>. QED BY <4>1, <4>2, <1>1
    <3>6. CASE Recover(r)
      BY <3>6, <1>1 DEF Recover
    <3>. QED BY <1>3, <3>1, <3>2, <3>3, <3>4, <3>5, <3>6 DEF RunnerStep, Settles
  <2>. QED BY <1>1, <2>1, <2>2, <2>3 DEF AllActive
<1>. QED BY <1>2, <1>3, Split

\* A step that takes k no further from its source: what was certain stays so,
\* the source is the same or gone, the text the same or a person's.
Steady(k) ==
    /\ ~Again(k)' => ~Again(k) /\ src'[k[1]] \in {src[k[1]], Gone}
    /\ tr'[k] = tr[k] \/ tr'[k].st \in Human
    /\ tr[k].st \in Human => tr'[k].st \in Human

LEMMA NotStale ==
    ASSUME TypeOK, NEW k \in Key, ~Stale(k), src'[k[1]] \in {src[k[1]], Gone},
           tr'[k] = tr[k] \/ tr'[k].st \in Human
    PROVE  ~Stale(k)'
BY DEF Stale, Human

\* A save that is under way goes on, until its enqueue.
LEMMA SavesGoOn ==
    ASSUME TypeOK, InStep, Outside, NEW e \in Entity, BeingSaved(e)
    PROVE  \/ BeingSaved(e)'
           \/ \E p \in Editor : edit[p] # NoEdit /\ edit[p].on = e /\ Enqueue(p)
<1>1. PICK p \in Editor : edit[p] # NoEdit /\ edit[p].on = e
  BY DEF BeingSaved
<1>2. edit[p] \in Edits
  BY <1>1, EditShape
<1>3. CASE UNCHANGED edit
  BY <1>1, <1>3 DEF BeingSaved
<1>4. ASSUME NEW o \in Editor, ReadBack(o) \/ Sweep(o) PROVE BeingSaved(e)'
  <2>1. edit[o] \in Edits
    BY <1>4, EditShape DEF ReadBack, Sweep
  <2>2. edit'[o].on = edit[o].on /\ edit'[o].phase \in {"sweep", "enqueue"}
    BY <1>4, <2>1 DEF ReadBack, Sweep, TypeOK, Edits
  <2>3. edit'[o] # NoEdit
    BY <2>2 DEF NoEdit
  <2>4. \A s \in Editor \ {o} : edit'[s] = edit[s]
    BY <1>4 DEF ReadBack, Sweep, TypeOK
  <2>. QED BY <1>1, <2>2, <2>3, <2>4 DEF BeingSaved
<1>5. ASSUME NEW o \in Editor, NEW f \in Entity, SaveSource(o, f) PROVE BeingSaved(e)'
  <2>1. edit[o] = NoEdit /\ \A s \in Editor \ {o} : edit'[s] = edit[s]
    BY <1>5 DEF SaveSource, TypeOK
  <2>. QED BY <1>1, <2>1 DEF BeingSaved
<1>6. ASSUME NEW o \in Editor, Enqueue(o), o # p PROVE BeingSaved(e)'
  <2>1. edit'[p] = edit[p]
    BY <1>6 DEF Enqueue, TypeOK
  <2>. QED BY <1>1, <2>1 DEF BeingSaved
<1>7. \A o \in Editor : ~SaveDies(o)
  BY DEF InStep, SaveDies
<1>. QED BY <1>1, <1>3, <1>4, <1>5, <1>6, <1>7 DEF Outside, EditorStep, vars, deskVars,
            LeaseEnds, BackoffEnds, SaveTranslation, OpenSave, SwitchLocale, RetryFailed,
            BackfillPage, DeleteSource

\* What changes the jobs outside the runners never takes `rerun' off, finishes
\* nothing, and has another pass for every job of an entity that was saved.
LEMMA JobsOutside ==
    ASSUME TypeOK, Outside, NEW k \in Key
    PROVE  /\ job[k].st = "RUNNING" /\ job[k].rerun => job'[k].rerun
           /\ job'[k].st = "DONE" => job[k].st = "DONE"
           /\ AllActive => \A p \in Editor :
                 Enqueue(p) /\ edit[p].on = k[1] /\ edit[p] # NoEdit =>
                     /\ job[k].st = "RUNNING" => job'[k].rerun
                     /\ job'[k].st # "DONE"
<1>1. job[k] \in Job
  BY DEF TypeOK
<1>2. ASSUME NEW S, EnqueueAll(S)
      PROVE  /\ job[k].st = "RUNNING" /\ job[k].rerun => job'[k].rerun
             /\ job'[k].st = "DONE" => job[k].st = "DONE"
             /\ k \in S /\ job[k].st = "RUNNING" => job'[k].rerun
             /\ k \in S => job'[k].st # "DONE"
  <2>1. job'[k] = IF k \in S THEN Enqueued(job[k]) ELSE job[k]
    BY <1>2 DEF EnqueueAll
  <2>2. Enqueued(job[k]).st \in {"PENDING", "RUNNING"}
    BY <1>1 DEF Enqueued, Job, JobStatus, NoJob
  <2>. QED BY <1>1, <2>1, <2>2, EnqueuedKept
<1>3. ASSUME UNCHANGED job
      PROVE  /\ job[k].st = "RUNNING" /\ job[k].rerun => job'[k].rerun
             /\ job'[k].st = "DONE" => job[k].st = "DONE"
  BY <1>3
<1>4. ASSUME NEW l \in Key, LeaseEnds(l) \/ BackoffEnds(l)
      PROVE  /\ job[k].st = "RUNNING" /\ job[k].rerun => job'[k].rerun
             /\ job'[k].st = "DONE" => job[k].st = "DONE"
  BY <1>1, <1>4 DEF LeaseEnds, BackoffEnds, TypeOK, Job
<1>5. ASSUME NEW l \in Locale, RetryFailed(l)
      PROVE  /\ job[k].st = "RUNNING" /\ job[k].rerun => job'[k].rerun
             /\ job'[k].st = "DONE" => job[k].st = "DONE"
  BY <1>1, <1>5 DEF RetryFailed, Job
<1>6. ASSUME NEW l \in Locale, NEW e \in Entity, BackfillPage(e, l)
      PROVE  /\ job[k].st = "RUNNING" /\ job[k].rerun => job'[k].rerun
             /\ job'[k].st = "DONE" => job[k].st = "DONE"
  BY <1>2, <1>6 DEF BackfillPage
<1>7. ASSUME NEW p \in Editor, Enqueue(p)
      PROVE  /\ job[k].st = "RUNNING" /\ job[k].rerun => job'[k].rerun
             /\ job'[k].st = "DONE" => job[k].st = "DONE"
             /\ AllActive /\ edit[p].on = k[1] =>
                    /\ job[k].st = "RUNNING" => job'[k].rerun
                    /\ job'[k].st # "DONE"
  <2>1. AllActive /\ edit[p].on = k[1] => k \in {edit[p].on} \X active
    BY DEF AllActive, Key
  <2>. QED BY <1>2, <1>7, <2>1 DEF Enqueue
<1>8. /\ job[k].st = "RUNNING" /\ job[k].rerun => job'[k].rerun
      /\ job'[k].st = "DONE" => job[k].st = "DONE"
  <2>1. ASSUME NEW p \in Editor, ReadBack(p) \/ Sweep(p) \/ SaveDies(p) PROVE UNCHANGED job
    BY <2>1 DEF ReadBack, Sweep, SaveDies
  <2>. QED BY <1>3, <1>4, <1>5, <1>6, <1>7, <2>1 DEF Outside, EditorStep, vars, SaveSource,
              SaveTranslation, OpenSave, SwitchLocale, DeleteSource
<1>. QED BY <1>7, <1>8

\* Outside the runners a source moves only with a save, and a text becomes a
\* person's if it changes.
LEMMA TextsOutside ==
    ASSUME TypeOK, InStep, Outside, NEW k \in Key
    PROVE  /\ src'[k[1]] \in {src[k[1]], Gone} \/ BeingSaved(k[1])'
           /\ tr'[k] = tr[k] \/ tr'[k].st \in Human
           /\ tr[k].st \in Human => tr'[k].st \in Human
<1>1. k[1] \in Entity /\ tr[k] \in Target
  BY DEF TypeOK, Key
<1>2. CASE UNCHANGED <<src, tr>>
  BY <1>2
<1>3. ASSUME NEW p \in Editor, NEW e \in Entity, SaveSource(p, e)
      PROVE  /\ src'[k[1]] \in {src[k[1]], Gone} \/ BeingSaved(k[1])'
             /\ UNCHANGED tr
  <2>1. edit'[p] = [phase |-> "read", on |-> e, hash |-> 0]
    BY <1>3 DEF SaveSource, TypeOK
  <2>2. edit'[p] # NoEdit /\ edit'[p].on = e
    BY <2>1 DEF NoEdit
  <2>3. k[1] # e => src'[k[1]] = src[k[1]]
    BY <1>1, <1>3 DEF SaveSource, TypeOK
  <2>. QED BY <1>3, <2>2, <2>3 DEF SaveSource, BeingSaved
<1>4. ASSUME NEW p \in Editor, EditorStep(p) \/ SaveDies(p)
      PROVE  /\ UNCHANGED src
             /\ tr'[k] = tr[k] \/ tr'[k].st \in Human
             /\ tr[k].st \in Human => tr'[k].st \in Human
  <2>1. CASE Sweep(p)
    <3>1. tr'[k] = tr[k] \/ tr'[k] = [tr[k] EXCEPT !.st = "OUTDATED"]
      BY <2>1 DEF Sweep
    <3>. QED BY <1>1, <2>1, <3>1 DEF Sweep, Target, Human
  <2>2. CASE ReadBack(p) \/ Enqueue(p) \/ SaveDies(p)
    BY <2>2 DEF ReadBack, Enqueue, SaveDies, rowVars
  <2>. QED BY <1>4, <2>1, <2>2 DEF EditorStep
<1>5. ASSUME NEW q \in Person, SaveTranslation(q)
      PROVE  /\ UNCHANGED src
             /\ tr'[k] = tr[k] \/ tr'[k].st \in Human
             /\ tr[k].st \in Human => tr'[k].st \in Human
  <2>1. "suggestion" \notin world.may
    BY DEF InStep
  <2>2. tr' = [tr EXCEPT ![pen[q].on] = [st |-> "TRANSLATED", of |-> pen[q].of]]
    BY <1>5, <2>1 DEF SaveTranslation
  <2>3. tr'[k] = tr[k] \/ tr'[k] = [st |-> "TRANSLATED", of |-> pen[q].of]
    BY <2>2 DEF TypeOK
  <2>. QED BY <1>5, <2>3 DEF SaveTranslation, Human
<1>6. ASSUME NEW e \in Entity, DeleteSource(e)
      PROVE  src'[k[1]] \in {src[k[1]], Gone} /\ UNCHANGED tr
  BY <1>1, <1>6 DEF DeleteSource, TypeOK
<1>. QED BY <1>2, <1>3, <1>4, <1>5, <1>6 DEF Outside, vars, rowVars, LeaseEnds, BackoffEnds,
            OpenSave, SwitchLocale, RetryFailed, BackfillPage

LEMMA OutsideSteady ==
    ASSUME TypeOK, InStep, AllActive, Outside, NEW k \in Key,
           job[k].st = "RUNNING"
    PROVE  Steady(k)
<1>1. k[1] \in Entity
  BY DEF Key
<1>2. BeingSaved(k[1]) => BeingSaved(k[1])' \/ job'[k].rerun
  BY <1>1, SavesGoOn, JobsOutside
<1>3. Again(k) => Again(k)'
  BY <1>2, JobsOutside DEF Again
<1>. QED BY <1>3, TextsOutside DEF Steady, Again

LEMMA OutsideStep ==
    ASSUME TypeOK, HoldInv, HeldIsOwn, InStep, AllActive, RunIsCurrent, DoneCurrent, Outside
    PROVE  RunIsCurrent' /\ DoneCurrent'
<1>1. UNCHANGED <<pc, hand, mem>>
  BY OutsideMoves DEF runVars
<1>2. RunIsCurrent'
  <2>1. ASSUME NEW r \in Runner, NEW k \in mem[r].at
        PROVE  /\ pc[r] \in {"target", "flag", "translate", "write"} =>
                     Again(k)' \/ src'[k[1]] \in {mem[r].hash, Gone}
               /\ pc[r] = "flag" => tr'[k].st \in Human
               /\ pc[r] = "finish" => Again(k)' \/ ~Stale(k)'
    <3>1. k \in Key /\ job[k].st = "RUNNING"
      BY MemShape DEF HoldInv, HandFits, HeldIsOwn
    <3>2. Steady(k)
      BY <3>1, OutsideSteady
    <3>3. /\ pc[r] \in {"target", "flag", "translate", "write"} =>
                Again(k) \/ src[k[1]] \in {mem[r].hash, Gone}
          /\ pc[r] = "flag" => tr[k].st \in Human
          /\ pc[r] = "finish" => Again(k) \/ ~Stale(k)
      BY DEF RunIsCurrent
    <3>4. ~Again(k)' /\ ~Stale(k) => ~Stale(k)'
      BY <3>1, <3>2, NotStale DEF Steady
    <3>. QED BY <3>2, <3>3, <3>4 DEF Steady
  <2>. QED BY <1>1, <2>1 DEF RunIsCurrent
<1>3. DoneCurrent'
  <2>1. ASSUME NEW k \in Key, job'[k].st = "DONE", ~BeingSaved(k[1])' PROVE ~Stale(k)'
    <3>1. k[1] \in Entity /\ job[k].st = "DONE"
      BY <2>1, JobsOutside DEF Key
    <3>2. ~BeingSaved(k[1])
      BY <2>1, <3>1, SavesGoOn, JobsOutside
    <3>3. ~Stale(k)
      BY <3>1, <3>2 DEF DoneCurrent
    <3>. QED BY <2>1, <3>3, TextsOutside, NotStale
  <2>. QED BY <2>1 DEF DoneCurrent
<1>. QED BY <1>2, <1>3

\* A runner's step changes what the others hold in nothing but their claims.
LEMMA RunnerKeeps ==
    ASSUME TypeOK, HoldInv, HeldIsOwn, NEW r \in Runner,
           Tick(r) \/ RunnerStep(r) \/ Crash(r)
    PROVE  /\ UNCHANGED <<src, active, edit>>
           /\ \A k \in Key : k \notin mem[r].at => tr'[k] = tr[k]
           /\ \A k \in Key : k \notin mem[r].at /\ job'[k].st = "DONE" => job[k].st = "DONE"
           /\ \A s \in Runner \ {r} : \A k \in hand[s] :
                 k \notin mem[r].at /\ job'[k].rerun = job[k].rerun
<1>1. \A s \in Runner : \A k \in hand[s] :
         /\ k \in Key /\ job[k] \in Job
         /\ job[k].st = "RUNNING" /\ job[k].tok = s /\ ~job[k].old
  BY DEF TypeOK, HeldIsOwn
<1>2. \A s \in Runner \ {r} : \A k \in hand[s] : k \notin mem[r].at
  BY <1>1 DEF HoldInv, HandFits
<1>3. CASE UNCHANGED <<src, tr, active, edit, job>>
  BY <1>2, <1>3
<1>4. CASE Recover(r)
  <2>1. UNCHANGED <<src, tr, active, edit>>
    BY <1>4 DEF Recover, rowVars, deskVars
  <2>2. \A s \in Runner : \A k \in hand[s] : job'[k] = job[k]
    BY <1>1, <1>4 DEF Recover
  <2>3. \A k \in Key : job'[k].st = "DONE" => job[k].st = "DONE"
    BY <1>4 DEF Recover, Recovered, TypeOK, Job
  <2>. QED BY <1>2, <2>1, <2>2, <2>3
<1>5. CASE Claim(r)
  <2>1. PICK S \in SUBSET Claimable(r) : ClaimDoes(r, S)
    BY <1>5, ClaimShape
  <2>2. UNCHANGED <<src, tr, active, edit>>
    BY <2>1 DEF ClaimDoes, rowVars, deskVars
  <2>3. \A k \in S : k \in Key /\ job[k].st = "PENDING" /\ job[k] \in Job
    BY DEF Claimable, TypeOK
  <2>4. \A s \in Runner : \A k \in hand[s] : job'[k] = job[k]
    BY <1>1, <2>1, <2>3 DEF ClaimDoes
  <2>5. \A k \in Key : job'[k].st = "DONE" => job[k].st = "DONE"
    BY <2>1, <2>3 DEF ClaimDoes, Claimed, Job
  <2>. QED BY <1>2, <2>2, <2>4, <2>5
<1>6. CASE Crash(r)
  <2>1. UNCHANGED <<src, tr, active, edit>>
    BY <1>6 DEF Crash, rowVars, deskVars
  <2>2. \A k \in Key : job'[k].st = job[k].st /\ job'[k].rerun = job[k].rerun
    BY <1>6 DEF Crash, TypeOK, Job
  <2>. QED BY <1>1, <1>2, <2>1, <2>2
<1>7. ASSUME NEW k \in Key, Settles(r, k)
      PROVE  /\ UNCHANGED <<src, tr, active, edit>>
             /\ k \in mem[r].at
             /\ \A l \in Key \ {k} : job'[l] = job[l]
  BY <1>7, SettlesDoes DEF TypeOK, rowVars, deskVars
<1>8. ASSUME NEW k \in Key, Flag(r, k) \/ Write(r, k)
      PROVE  /\ UNCHANGED <<src, active, edit, job>>
             /\ k \in mem[r].at
             /\ \A l \in Key \ {k} : tr'[l] = tr[l]
  BY <1>8 DEF Flag, Write, At, TypeOK, deskVars
<1>9. ASSUME NEW k \in Key, Pick(r, k) \/ ReadSource(r, k) \/ ReadTarget(r, k) \/ Translate(r, k)
      PROVE  UNCHANGED <<src, tr, active, edit, job>>
  BY <1>9 DEF Pick, ReadSource, ReadTarget, Translate, rowVars, deskVars
<1>10. CASE Tick(r) \/ NothingDue(r) \/ BatchDone(r)
  BY <1>3, <1>10 DEF Tick, NothingDue, BatchDone, rowVars, deskVars
<1>11. CASE \E k \in Key : Settles(r, k)
  BY <1>1, <1>2, <1>7, <1>11
<1>12. CASE \E k \in Key : Flag(r, k) \/ Write(r, k)
  BY <1>1, <1>2, <1>8, <1>12
<1>13. CASE \E k \in Key : Pick(r, k) \/ ReadSource(r, k) \/ ReadTarget(r, k) \/ Translate(r, k)
  BY <1>3, <1>9, <1>13
<1>. QED BY <1>4, <1>5, <1>6, <1>10, <1>11, <1>12, <1>13 DEF RunnerStep, Settles

\* What a runner knows of a job, in one line.
Knows(r, k) ==
    /\ pc[r] \in {"target", "flag", "translate", "write"} =>
          Again(k) \/ src[k[1]] \in {mem[r].hash, Gone}
    /\ pc[r] = "flag" => tr[k].st \in Human
    /\ pc[r] = "finish" => Again(k) \/ ~Stale(k)

\* Its own steps keep that true.
LEMMA RunnerKnows ==
    ASSUME TypeOK, HoldInv, AllActive, RunIsCurrent, NEW r \in Runner,
           Tick(r) \/ RunnerStep(r) \/ Crash(r), UNCHANGED <<src, edit>>,
           NEW l \in mem'[r].at
    PROVE  Knows(r, l)'
<1>1. mem'[r].at # {} /\ Fits(r)'
  BY FitsRunner DEF HoldInv
<1>2. \A k : BeingSaved(k[1])' <=> BeingSaved(k[1])
  BY DEF BeingSaved
<1>3. CASE Tick(r) \/ Recover(r) \/ Claim(r) \/ NothingDue(r) \/ BatchDone(r) \/ Crash(r)
  <2>1. pc'[r] \in {"recover", "claim", "pick", "idle"}
    BY <1>3, ClaimShape DEF Tick, Recover, ClaimDoes, NothingDue, BatchDone, Crash, Goto, TypeOK
  <2>. QED BY <1>1, <2>1 DEF Fits
<1>4. ASSUME NEW k \in Key, Settles(r, k) PROVE FALSE
  <2>1. mem' = [mem EXCEPT ![r] = [mem[r] EXCEPT !.at = {}]]
    BY <1>4, SettlesDoes
  <2>2. mem'[r].at = {}
    BY <2>1, MemShape DEF TypeOK, Mem
  <2>. QED BY <1>1, <2>2
<1>5. ASSUME NEW k \in Key, Pick(r, k) PROVE Knows(r, l)'
  <2>1. pc[r] # "idle" /\ k[2] \in Locale
    BY <1>5 DEF Pick, Key
  <2>2. k[2] \in mem[r].known
    BY <2>1 DEF AllActive
  <2>3. pc'[r] = "source"
    BY <1>5, <2>2 DEF Pick, Goto, TypeOK
  <2>. QED BY <2>3 DEF Knows
<1>6. ASSUME NEW k \in Key, k \in mem[r].at, mem'[r].at = mem[r].at
      PROVE  l = k /\ Knows(r, k)
  <2>1. l = k
    BY <1>6 DEF HoldInv, HandFits
  <2>. QED BY <1>6, <2>1 DEF RunIsCurrent, Knows
<1>7. ASSUME NEW k \in Key, ReadSource(r, k) PROVE Knows(r, l)'
  <2>1. mem'[r].hash = src[k[1]] /\ mem'[r].at = mem[r].at
    BY <1>7, MemShape DEF ReadSource, TypeOK, Mem
  <2>2. l = k
    BY <1>6, <1>7, <2>1 DEF ReadSource, At
  <2>3. pc'[r] = IF src[k[1]] = Gone THEN "finish" ELSE "target"
    BY <1>7 DEF ReadSource, Goto, TypeOK
  <2>. QED BY <2>1, <2>2, <2>3 DEF Knows, Stale
<1>8. ASSUME NEW k \in Key, ReadTarget(r, k) PROVE Knows(r, l)'
  <2>1. /\ UNCHANGED <<mem, tr, job>> /\ k \in mem[r].at /\ pc[r] = "target"
        /\ tr[k] \in Target
    BY <1>8 DEF ReadTarget, At, rowVars, TypeOK
  <2>2. l = k /\ (Again(k) \/ src[k[1]] \in {mem[r].hash, Gone})
    BY <1>6, <2>1 DEF Knows
  <2>3. Again(k)' <=> Again(k)
    BY <1>2, <2>1 DEF Again
  <2>4. /\ pc'[r] \in {"flag", "finish", "translate"}
        /\ pc'[r] = "flag" => tr[k].st = "TRANSLATED"
        /\ pc'[r] = "finish" =>
              tr[k].st \in Human \/ (tr[k].st = "MACHINE_TRANSLATED" /\ tr[k].of = mem[r].hash)
    <3>. DEFINE phase ==
           CASE tr[k].st = "TRANSLATED" /\ tr[k].of # mem[r].hash -> "flag"
             [] tr[k].st \in Human /\ ~(tr[k].st = "TRANSLATED" /\ tr[k].of # mem[r].hash)
                  -> "finish"
             [] tr[k].st = "MACHINE_TRANSLATED" /\ tr[k].of = mem[r].hash -> "finish"
             [] OTHER -> "translate"
    <3>1. pc'[r] = phase
      BY <1>8 DEF ReadTarget, Goto, TypeOK
    <3>2. /\ phase \in {"flag", "finish", "translate"}
          /\ phase = "flag" => tr[k].st = "TRANSLATED"
          /\ phase = "finish" =>
                tr[k].st \in Human \/ (tr[k].st = "MACHINE_TRANSLATED" /\ tr[k].of = mem[r].hash)
      BY DEF Human
    <3>. QED BY <3>1, <3>2
  <2>5. pc'[r] = "finish" => Again(k) \/ ~Stale(k)
    BY <2>2, <2>4 DEF Stale, Human
  <2>6. Stale(k)' <=> Stale(k)
    BY <2>1 DEF Stale
  <2>7. "TRANSLATED" \in Human
    BY DEF Human
  <2>. QED BY <2>1, <2>2, <2>3, <2>4, <2>5, <2>6, <2>7 DEF Knows
<1>9. ASSUME NEW k \in Key, Flag(r, k) PROVE Knows(r, l)'
  <2>1. /\ UNCHANGED <<mem, job>> /\ k \in mem[r].at /\ pc[r] = "flag" /\ pc'[r] = "finish"
        /\ tr'[k] = tr[k] \/ tr'[k] = [tr[k] EXCEPT !.st = "OUTDATED"]
        /\ tr[k] \in Target
    BY <1>9 DEF Flag, At, Goto, TypeOK
  <2>2. l = k /\ tr[k].st \in Human
    BY <1>6, <2>1 DEF Knows
  <2>3. tr'[k].st \in Human
    BY <2>1, <2>2 DEF Target, Human
  <2>4. ~Stale(k)'
    BY <2>3 DEF Stale, Human
  <2>. QED BY <2>1, <2>2, <2>4 DEF Knows
<1>10. ASSUME NEW k \in Key, Translate(r, k) PROVE Knows(r, l)'
  <2>1. /\ UNCHANGED <<mem, tr, job>> /\ k \in mem[r].at
        /\ pc[r] = "translate" /\ pc'[r] = "write"
    BY <1>10 DEF Translate, At, Goto, rowVars, TypeOK
  <2>2. l = k /\ (Again(k) \/ src[k[1]] \in {mem[r].hash, Gone})
    BY <1>6, <2>1 DEF Knows
  <2>3. Again(k)' <=> Again(k)
    BY <1>2, <2>1 DEF Again
  <2>. QED BY <2>1, <2>2, <2>3 DEF Knows
<1>11. ASSUME NEW k \in Key, Write(r, k) PROVE Knows(r, l)'
  <2>1. /\ UNCHANGED <<mem, job>> /\ k \in mem[r].at /\ pc[r] = "write"
        /\ pc'[r] = IF src[k[1]] # Gone /\ src[k[1]] # mem[r].hash THEN "requeue" ELSE "finish"
    BY <1>11 DEF Write, At, Goto, TypeOK
  <2>2. l = k
    BY <1>6, <2>1
  <2>3. ASSUME pc'[r] = "finish" PROVE ~Stale(k)'
    <3>1. CASE src[k[1]] = Gone
      BY <3>1 DEF Stale
    <3>2. CASE src[k[1]] # Gone
      <4>1. src[k[1]] = mem[r].hash
        BY <2>1, <2>3, <3>2
      <4>2. CASE tr[k].st \in Human
        <5>1. tr'[k] = tr[k]
          BY <1>11, <4>2 DEF Write
        <5>. QED BY <4>2, <5>1 DEF Stale, Human
      <4>3. CASE tr[k].st \notin Human
        <5>1. PICK st \in {"MACHINE_TRANSLATED", "NEEDS_REVIEW"} :
                 tr' = [tr EXCEPT ![k] = [st |-> st, of |-> mem[r].hash]]
          BY <1>11, <3>2, <4>1, <4>3 DEF Write
        <5>2. tr'[k] = [st |-> st, of |-> src[k[1]]]
          BY <4>1, <5>1 DEF TypeOK
        <5>. QED BY <5>2 DEF Stale
      <4>. QED BY <4>2, <4>3
    <3>. QED BY <3>1, <3>2
  <2>. QED BY <2>1, <2>2, <2>3 DEF Knows
<1>. QED BY <1>3, <1>4, <1>5, <1>7, <1>8, <1>9, <1>10, <1>11 DEF RunnerStep, Settles

\* A job that its runner finishes for good is of the present source.
LEMMA RunnerFinishes ==
    ASSUME TypeOK, HoldInv, HeldIsOwn, RunIsCurrent, DoneCurrent, NEW r \in Runner,
           Tick(r) \/ RunnerStep(r) \/ Crash(r), NEW k \in mem[r].at,
           job'[k].st = "DONE", ~BeingSaved(k[1])
    PROVE  ~Stale(k) /\ tr'[k] = tr[k]
<1>1. k \in Key /\ job[k] \in Job /\ job[k].st = "RUNNING" /\ job[k].tok = r /\ ~job[k].old
  BY MemShape DEF TypeOK, HoldInv, HandFits, HeldIsOwn
<1>2. pc[r] \notin {"idle", "recover", "claim", "pick"}
  BY DEF HoldInv, HandFits
<1>3. ~(Tick(r) \/ Recover(r) \/ Claim(r) \/ NothingDue(r) \/ BatchDone(r))
  BY <1>2 DEF Tick, Recover, Claim, NothingDue, BatchDone
<1>4. ~Crash(r)
  BY <1>1 DEF Crash, TypeOK, Job
<1>5. PICK l \in Key : \/ Pick(r, l) \/ ReadSource(r, l) \/ ReadTarget(r, l) \/ Flag(r, l)
                       \/ Translate(r, l) \/ Write(r, l) \/ Settles(r, l)
  BY <1>3, <1>4 DEF RunnerStep, Settles
<1>6. Settles(r, l)
  BY <1>1, <1>5 DEF Pick, ReadSource, ReadTarget, Flag, Translate, Write
<1>7. l = k
  BY <1>6, SettlesDoes DEF HoldInv, HandFits
<1>8. Finish(r, k)
  <2>1. ASSUME Requeue(r, k) \/ Pause(r, k) PROVE FALSE
    <3>1. \/ job'[k] = [job[k] EXCEPT !.st = "PENDING", !.due = TRUE, !.tok = Nobody,
                                     !.old = FALSE]
          \/ job'[k] = [job[k] EXCEPT !.st = "PENDING", !.due = FALSE, !.tok = Nobody,
                                     !.old = FALSE]
      BY <1>1, <2>1 DEF Requeue, Pause, TypeOK
    <3>2. job'[k].st = "PENDING"
      BY <1>1, <3>1 DEF Job
    <3>. QED BY <3>2
  <2>2. ASSUME Fail(r, k) PROVE FALSE
    <3>1. job'[k] = Charged(job[k], mem[r].att[k] + 1)
      BY <1>1, <2>2 DEF Fail, TypeOK
    <3>2. job'[k].st \in {"FAILED", "PENDING"}
      BY <1>1, <3>1 DEF Charged, Job
    <3>. QED BY <3>2
  <2>. QED BY <1>6, <1>7, <2>1, <2>2 DEF Settles
<1>9. ~job[k].rerun
  BY <1>1, <1>8 DEF Finish, Finished, TypeOK, Job
<1>10. ~Stale(k)
  BY <1>8, <1>9 DEF Finish, At, RunIsCurrent, Again
<1>. QED BY <1>8, <1>10 DEF Finish, rowVars

LEMMA RunnerSteps ==
    ASSUME TypeOK, HoldInv, HeldIsOwn, AllActive, RunIsCurrent, DoneCurrent,
           NEW r \in Runner, Tick(r) \/ RunnerStep(r) \/ Crash(r)
    PROVE  RunIsCurrent' /\ DoneCurrent'
<1>1. UNCHANGED <<src, edit>> /\ \A k : BeingSaved(k[1])' <=> BeingSaved(k[1])
  BY RunnerKeeps DEF BeingSaved
<1>2. RunIsCurrent'
  <2>1. ASSUME NEW s \in Runner, NEW k \in mem'[s].at PROVE Knows(s, k)'
    <3>1. CASE s = r
      BY <1>1, <2>1, <3>1, RunnerKnows
    <3>2. CASE s # r
      <4>1. pc'[s] = pc[s] /\ mem'[s] = mem[s] /\ k \in mem[s].at
        BY <2>1, <3>2, FitsRunner DEF HoldInv, Alone
      <4>2. k \in hand[s] /\ k \in Key
        BY <4>1, MemShape DEF HoldInv, HandFits
      <4>3. tr'[k] = tr[k] /\ job'[k].rerun = job[k].rerun
        BY <3>2, <4>2, RunnerKeeps
      <4>4. Again(k)' <=> Again(k)
        BY <1>1, <4>3 DEF Again
      <4>5. Stale(k)' <=> Stale(k)
        BY <1>1, <4>3 DEF Stale
      <4>6. Knows(s, k)
        BY <4>1 DEF RunIsCurrent, Knows
      <4>. QED BY <1>1, <4>1, <4>3, <4>4, <4>5, <4>6 DEF Knows
    <3>. QED BY <3>1, <3>2
  <2>. QED BY <2>1 DEF RunIsCurrent, Knows
<1>3. DoneCurrent'
  <2>1. ASSUME NEW k \in Key, job'[k].st = "DONE", ~BeingSaved(k[1])' PROVE ~Stale(k)'
    <3>1. ~Stale(k) /\ tr'[k] = tr[k]
      <4>1. CASE k \in mem[r].at
        BY <1>1, <2>1, <4>1, RunnerFinishes
      <4>2. CASE k \notin mem[r].at
        BY <1>1, <2>1, <4>2, RunnerKeeps DEF DoneCurrent
      <4>. QED BY <4>1, <4>2
    <3>. QED BY <1>1, <3>1 DEF Stale
  <2>. QED BY <2>1 DEF DoneCurrent
<1>. QED BY <1>2, <1>3

LEMMA StepInit == Init => StepInv
<1>. SUFFICES ASSUME Init PROVE StepInv
  OBVIOUS
<1>1. AllActive
  BY DEF Init, AllActive
<1>2. RunIsCurrent
  BY DEF Init, RunIsCurrent, Blank
<1>3. DoneCurrent
  BY DEF Init, DoneCurrent, NoJob
<1>. QED BY <1>1, <1>2, <1>3 DEF StepInv

LEMMA StepStep == TypeOK /\ HoldInv /\ StepInv /\ [Next]_vars => StepInv'
<1>. SUFFICES ASSUME TypeOK, HoldInv, StepInv, [Next]_vars, InStep'
              PROVE  (AllActive /\ RunIsCurrent /\ DoneCurrent)'
  BY DEF StepInv
<1>1. InStep
  BY MayStays DEF InStep
<1>2. AllActive /\ RunIsCurrent /\ DoneCurrent
  BY <1>1 DEF StepInv
<1>3. HeldIsOwn
  BY <1>1 DEF InStep, HoldInv
<1>4. AllActive'
  BY <1>1, <1>2, ActiveStep
<1>. QED BY <1>1, <1>2, <1>3, <1>4, Split, OutsideStep, RunnerSteps

LEMMA Steps == Spec => []StepInv
BY Typing, Held, StepInit, StepStep, PTL DEF Spec

\* A finished job leaves no stale text of the machine's behind, as long as nothing
\* is switched off and every save gets to its enqueue: a save during the job sets
\* `rerun', and finish makes another pass of it (jobs.ts, finish).
THEOREM DoneIsCurrentAlways == Spec => []DoneIsCurrent
<1>1. StepInv => DoneIsCurrent
  BY DEF StepInv, DoneCurrent, DoneIsCurrent
<1>. QED BY <1>1, Steps, PTL

-----------------------------------------------------------------------------
(* The machine and the people.                                             *)

\* What may become of a person's text k in one step.
Respected(k) ==
    tr[k].st \in Human /\ tr'[k] # tr[k] =>
        \/ tr[k].st = "TRANSLATED" /\ tr'[k] = [tr[k] EXCEPT !.st = "OUTDATED"]
        \/ \E q \in Person : pen[q] # NoPen /\ pen[q].on = k /\ pen'[q] = NoPen

LEMMA PersonStep == TypeOK /\ [Next]_vars => \A k \in Key : Respected(k)
<1>. SUFFICES ASSUME TypeOK, [Next]_vars, NEW k \in Key PROVE Respected(k)
  OBVIOUS
<1>1. CASE UNCHANGED tr
  BY <1>1 DEF Respected
<1>2. ASSUME NEW p \in Editor, EditorStep(p) \/ SaveDies(p) PROVE Respected(k)
  <2>1. CASE Sweep(p)
    BY <2>1 DEF Sweep, Respected
  <2>. QED BY <1>1, <1>2, <2>1 DEF EditorStep, ReadBack, Enqueue, SaveDies, rowVars
<1>3. ASSUME NEW r \in Runner, NEW l \in Key, Flag(r, l) PROVE Respected(k)
  <2>1. CASE k = l
    BY <1>3, <2>1 DEF Flag, Respected, TypeOK
  <2>2. CASE k # l
    BY <1>3, <2>2 DEF Flag, Respected, TypeOK
  <2>. QED BY <2>1, <2>2
<1>4. ASSUME NEW r \in Runner, NEW l \in Key, Write(r, l) PROVE Respected(k)
  <2>1. CASE tr[l].st \in Human
    BY <1>1, <1>4, <2>1 DEF Write
  <2>2. CASE tr[l].st \notin Human
    BY <1>4, <2>2 DEF Write, Respected, TypeOK
  <2>. QED BY <2>1, <2>2
<1>5. ASSUME NEW q \in Person, SaveTranslation(q) PROVE Respected(k)
  <2>1. pen[q] # NoPen /\ pen'[q] = NoPen
    BY <1>5 DEF SaveTranslation, TypeOK
  <2>2. pen[q].on # k => tr'[k] = tr[k]
    BY <1>5 DEF SaveTranslation, TypeOK
  <2>. QED BY <2>1, <2>2 DEF Respected
<1>6. ASSUME NEW r \in Runner, NEW l \in Key, Settles(r, l) PROVE UNCHANGED tr
  BY <1>6, SettlesDoes DEF rowVars
<1>7. ASSUME NEW r \in Runner, Tick(r) \/ RunnerStep(r) \/ Crash(r) PROVE Respected(k)
  BY <1>1, <1>3, <1>4, <1>6, <1>7 DEF Tick, RunnerStep, Settles, Crash, Recover, Claim,
     NothingDue, BatchDone, Pick, ReadSource, ReadTarget, Translate, rowVars
<1>8. CASE Outside
  BY <1>1, <1>2, <1>5, <1>8 DEF Outside, vars, rowVars, LeaseEnds, BackoffEnds, SaveSource,
     OpenSave, SwitchLocale, RetryFailed, BackfillPage, DeleteSource
<1>. QED BY <1>7, <1>8, Split

\* The machine never writes over a person's row: it only flags it, whoever saves,
\* runs, dies or crosses (translationJobHandler, the check under its locks).
THEOREM PersonWinsAlways == Spec => PersonWins
<1>1. TypeOK /\ [Next]_vars =>
         [\A k \in Key :
            tr[k].st \in Human /\ tr'[k] # tr[k] =>
               \/ tr[k].st = "TRANSLATED" /\ tr'[k] = [tr[k] EXCEPT !.st = "OUTDATED"]
               \/ \E q \in Person : pen[q] # NoPen /\ pen[q].on = k /\ pen'[q] = NoPen]_vars
  BY PersonStep DEF Respected
<1>. QED BY <1>1, Typing, PTL DEF Spec, PersonWins
=============================================================================
