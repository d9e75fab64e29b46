------------------------ MODULE AnnouncementsProofs ------------------------
(***************************************************************************)
(* What holds of Announcements for every set of campaigns, addresses,      *)
(* drains and requests, checked by TLAPS: the types; who may act on a      *)
(* recipient row; at most one message per recipient, an honest report and  *)
(* the at-most-once promise step by step; how often a row is tried; what   *)
(* brings a failed row back and when a campaign is done.  Each theorem     *)
(* names the instances it is about: those where nobody retries, or where   *)
(* no drain loses a claim, and where no answer of the provider is lost.    *)
(***************************************************************************)
EXTENDS Announcements, TLAPS

\* The three ways a recipient row is rewritten in place.
LEMMA FreedRow ==
    ASSUME NEW x \in RowRec, NEW status \in RowStatus
    PROVE  /\ Freed(x, status) \in RowRec
           /\ Freed(x, status).st = status
           /\ Freed(x, status).tok = Nobody
           /\ Freed(x, status).att = x.att
  BY DEF Freed, RowRec

LEMMA TakenRow ==
    ASSUME NEW x \in RowRec, NEW d \in Drain
    PROVE  /\ Taken(x, d) \in RowRec
           /\ Taken(x, d).st = "SENDING"
           /\ Taken(x, d).tok = d
  BY DEF Taken, RowRec, RowStatus

LEMMA FreshRow ==
    /\ NoRow \in RowRec /\ NoRow.st = "ABSENT" /\ NoRow.tok = Nobody
    /\ Fresh \in RowRec /\ Fresh.st = "PENDING" /\ Fresh.tok = Nobody
  BY DEF NoRow, Fresh, RowRec, RowStatus

\* The building blocks of an action keep the tables well-typed.
LEMMA SnapshotType ==
    ASSUME StoreTypeOK, NEW c \in Campaign
    PROVE  Snapshot(c) \in [Row -> RowRec]
  BY FreshRow DEF StoreTypeOK, Snapshot

LEMMA StartType ==
    ASSUME StoreTypeOK, NEW c \in Campaign, StartCampaign(c)
    PROVE  row' \in [Row -> RowRec] /\ camp' \in [Campaign -> CampRec]
  BY SnapshotType DEF StoreTypeOK, StartCampaign, CampRec, CampStatus

LEMMA SkippedType ==
    ASSUME StoreTypeOK, NEW c \in Campaign, NEW states
    PROVE  Skipped(c, states) \in [Row -> RowRec]
  BY FreedRow DEF StoreTypeOK, Skipped, RowStatus

LEMMA ReleasedType ==
    ASSUME StoreTypeOK, NEW S
    PROVE  Released(S) \in [Row -> RowRec]
  BY FreedRow DEF StoreTypeOK, Released, RowStatus

LEMMA SettledType ==
    ASSUME StoreTypeOK, NEW r \in Row, NEW status \in RowStatus
    PROVE  Settled(r, status) \in [Row -> RowRec]
  BY FreedRow DEF StoreTypeOK, Settled

LEMMA AbandonedType ==
    ASSUME NEW rows \in [Row -> RowRec], NEW d
    PROVE  Abandoned(rows, d) \in [Row -> RowRec]
  BY DEF Abandoned, RowRec

LEMMA ChargedRow ==
    ASSUME NEW x \in RowRec, NEW status \in RowStatus, NEW due \in BOOLEAN
    PROVE  /\ Charged(x, status, due) \in RowRec
           /\ Charged(x, status, due).st = status
           /\ Charged(x, status, due).tok = Nobody
  <1> DEFINE y == Freed(x, status)
  <1>1. y \in RowRec /\ y.st = status /\ y.tok = Nobody
    BY FreedRow
  <1>2. x.att + 1 \in Nat
    BY DEF RowRec
  <1> HIDE DEF y
  <1>3. Charged(x, status, due) = [y EXCEPT !.att = x.att + 1, !.due = due]
    BY DEF Charged, y
  <1> QED
    BY <1>1, <1>2, <1>3 DEF RowRec

LEMMA SettlementRow ==
    ASSUME StoreTypeOK, NEW r \in Row, NEW d \in Drain
    PROVE  /\ Settlement(d, r) \in RowRec
           /\ Settlement(d, r).tok = Nobody
           /\ Settlement(d, r).st \in {"SENT", "PENDING", "FAILED"}
           /\ Settlement(d, r).st = "SENT" => mem[d].res = "SENT"
           /\ Settlement(d, r).st = "PENDING" => mem[d].res = "transient"
  <1>1. row[r] \in RowRec /\ row[r].due \in BOOLEAN
    BY DEF StoreTypeOK, RowRec
  <1>2. "SENT" \in RowStatus /\ "PENDING" \in RowStatus /\ "FAILED" \in RowStatus
    BY DEF RowStatus
  <1>3. CASE mem[d].res = "SENT"
    BY <1>1, <1>2, <1>3, FreedRow DEF Settlement
  <1>4. CASE mem[d].res # "SENT" /\ mem[d].res = "transient" /\ row[r].att + 1 < MaxAttempts
    BY <1>1, <1>2, <1>4, ChargedRow DEF Settlement
  <1>5. CASE mem[d].res # "SENT" /\ ~(mem[d].res = "transient" /\ row[r].att + 1 < MaxAttempts)
    BY <1>1, <1>2, <1>5, ChargedRow DEF Settlement
  <1> QED
    BY <1>3, <1>4, <1>5

-----------------------------------------------------------------------------
(***************************************************************************)
(* Type correctness.                                                       *)
(***************************************************************************)
LEMMA UpsetType ==
    ASSUME StoreTypeOK, Upset
    PROVE  upsets' \in 0..MaxUpsets
  BY StoreAssumption DEF StoreTypeOK, Upset

LEMMA DeskKeepsType ==
    ASSUME TypeOK, DeskNext, UNCHANGED drainVars
    PROVE  TypeOK'
  <1> USE DEF TypeOK
  <1> DrainTypeOK'
    BY DEF drainVars, DrainTypeOK
  <1>1. ASSUME NEW p \in Admin, Check(p) PROVE TypeOK'
    BY <1>1, UpsetType DEF Check, dbVars, envVars, logVars, StoreTypeOK, DeskTypeOK, Request
  <1>2. ASSUME NEW p \in Admin, Write(p) PROVE TypeOK'
    <2> DeskTypeOK'
      BY <1>2 DEF Write, Done, DeskTypeOK
    <2> PICK c \in Campaign :
             \/ QueueToWait(p, c) \/ QueueToSend(p, c) \/ Schedule(p, c)
             \/ Delete(p, c) \/ Cancel(p, c) \/ Retry(p, c) \/ Gone(p, c)
      BY <1>2 DEF Write
    <2>0. /\ target' \in [Campaign -> {"live", "scheduled", "unavailable"}]
          /\ off' \subseteq Switch /\ suppressed' \subseteq Address
          /\ mailed' \in [Row -> Nat] /\ upsets' \in 0..MaxUpsets
      BY <1>2 DEF Write, envVars, StoreTypeOK
    <2>1. CASE QueueToWait(p, c)
      BY <2>0, <2>1 DEF QueueToWait, StoreTypeOK, CampRec, CampStatus
    <2>2. CASE QueueToSend(p, c)
      BY <2>0, <2>2, StartType DEF QueueToSend, StoreTypeOK, dbVars
    <2>3. CASE Schedule(p, c)
      BY <2>0, <2>3 DEF Schedule, Asked, About, StoreTypeOK, DeskTypeOK, Request, CampRec, CampStatus
    <2>4. CASE Delete(p, c)
      BY <2>0, <2>4, FreshRow DEF Delete, StoreTypeOK, CampRec, CampStatus
    <2>5. CASE Cancel(p, c)
      BY <2>0, <2>5, SkippedType DEF Cancel, StoreTypeOK, CampRec, CampStatus
    <2>6. CASE Retry(p, c)
      BY <2>0, <2>6, FreshRow DEF Retry, StoreTypeOK, CampRec, CampStatus
    <2>7. CASE Gone(p, c)
      BY <2>0, <2>7 DEF Gone, dbVars, StoreTypeOK
    <2> QED
      BY <2>1, <2>2, <2>3, <2>4, <2>5, <2>6, <2>7
  <1>3. ASSUME NEW c \in Campaign, Unschedule(c) PROVE TypeOK'
    BY <1>3, UpsetType DEF Unschedule, envVars, logVars, StoreTypeOK, DeskTypeOK, CampRec, CampStatus
  <1>4. ASSUME NEW c \in Campaign, SendDirect(c) PROVE TypeOK'
    BY <1>4, UpsetType, FreshRow DEF SendDirect, envVars, logVars, StoreTypeOK, DeskTypeOK,
                          CampRec, CampStatus
  <1> QED
    BY <1>1, <1>2, <1>3, <1>4 DEF DeskNext

LEMMA SurroundingsKeepType ==
    ASSUME TypeOK, Surroundings, UNCHANGED <<drainVars, ask>>
    PROVE  TypeOK'
  <1> USE DEF TypeOK
  <1> DrainTypeOK' /\ DeskTypeOK'
    BY DEF drainVars, DrainTypeOK, DeskTypeOK
  <1>1. ASSUME NEW s \in Switch, Toggle(s) PROVE TypeOK'
    BY <1>1, UpsetType DEF Toggle, dbVars, logVars, StoreTypeOK
  <1>2. ASSUME NEW a \in Address, OptOut(a) PROVE TypeOK'
    BY <1>2, UpsetType DEF OptOut, dbVars, logVars, StoreTypeOK
  <1>3. ASSUME NEW c \in Campaign, TargetMoves(c) PROVE TypeOK'
    BY <1>3, UpsetType DEF TargetMoves, dbVars, logVars, StoreTypeOK
  <1>4. ASSUME NEW c \in Campaign, ClockReaches(c) PROVE TypeOK'
    BY <1>4 DEF ClockReaches, envVars, logVars, StoreTypeOK, CampRec
  <1>5. ASSUME NEW c \in Campaign, Purge(c) PROVE TypeOK'
    BY <1>5, UpsetType, FreshRow DEF Purge, envVars, logVars, StoreTypeOK
  <1> QED
    BY <1>1, <1>2, <1>3, <1>4, <1>5 DEF Surroundings

LEMMA BlankType == Blank \in Mem
  BY DEF Blank, Mem, Outcome

\* Assigning to one or a few of a drain's local variables.
LEMMA MemSets ==
    ASSUME NEW m \in Mem, NEW C \in SUBSET Campaign, NEW C2 \in SUBSET Campaign
    PROVE  /\ [m EXCEPT !.todo = C] \in Mem
           /\ [m EXCEPT !.touched = C] \in Mem
           /\ [m EXCEPT !.stale = {}] \in Mem
           /\ [m EXCEPT !.res = "none"] \in Mem
           /\ [m EXCEPT !.late = TRUE] \in Mem
           /\ [m EXCEPT !.focus = {}, !.seen = {}, !.on = TRUE] \in Mem
  BY DEF Mem, Outcome

LEMMA MemOpens ==
    ASSUME NEW m \in Mem, NEW C \in SUBSET Campaign, NEW T \in SUBSET Campaign,
           NEW A \in SUBSET Address, NEW b \in BOOLEAN
    PROVE  [m EXCEPT !.focus = C, !.touched = T, !.seen = A, !.on = b] \in Mem
  BY DEF Mem

LEMMA MemBegins ==
    ASSUME NEW C \in SUBSET Campaign, NEW S \in SUBSET Row, NEW T \in SUBSET Campaign
    PROVE  [Blank EXCEPT !.kick = C, !.stale = S, !.touched = T] \in Mem
  BY BlankType DEF Mem

LEMMA DrainStepKeepsType ==
    ASSUME TypeOK, NEW d \in Drain, DrainStep(d)
    PROVE  StoreTypeOK' /\ DrainTypeOK'
  <1> USE DEF TypeOK
  <1>0. /\ mem[d] \in Mem /\ held[d] \subseteq Row
        /\ mem[d].todo \subseteq Campaign /\ mem[d].touched \subseteq Campaign
    BY DEF DrainTypeOK, Mem
  <1>1. CASE ExpireLeases(d)
    BY <1>1, FreedRow DEF ExpireLeases, Goto, envVars, logVars, StoreTypeOK, DrainTypeOK, Mem,
                          Phase, RowStatus
  <1>2. CASE Gate(d)
    <2>1. /\ [mem[d] EXCEPT !.todo = mem[d].touched] \in Mem
          /\ \A S \in SUBSET Campaign : [mem[d] EXCEPT !.todo = S] \in Mem
      BY <1>0, MemSets
    <2>2. \/ mem' = [mem EXCEPT ![d] = [mem[d] EXCEPT !.todo = mem[d].touched]]
          \/ \E S \in SUBSET Campaign : mem' = [mem EXCEPT ![d] = [mem[d] EXCEPT !.todo = S]]
          \/ UNCHANGED mem
      BY <1>2 DEF Gate
    <2>3. mem' \in [Drain -> Mem]
      BY <2>1, <2>2 DEF DrainTypeOK
    <2>4. pc' \in [Drain -> Phase]
      BY <1>2 DEF Gate, Goto, DrainTypeOK, Phase
    <2> QED
      BY <1>2, <2>3, <2>4 DEF Gate, storeVars, StoreTypeOK, DrainTypeOK
  <1>3. CASE Claim(d)
    BY <1>3, TakenRow DEF Claim, Goto, envVars, logVars, StoreTypeOK, DrainTypeOK, Phase
  <1>4. CASE NothingToClaim(d)
    BY <1>4, BlankType DEF NothingToClaim, Closing, Sending, Goto, storeVars, StoreTypeOK, DrainTypeOK, Mem, Phase
  <1>5. CASE Select(d)
    <2>1. row' \in [Row -> RowRec]
      BY <1>5, FreedRow DEF Select, StoreTypeOK, RowStatus
    <2>2. [Blank EXCEPT !.todo = mem[d].touched \cup Sending] \in Mem
      BY <1>0, BlankType, MemSets DEF Sending
    <2> QED
      BY <1>5, <2>1, <2>2 DEF Select, Closing, Goto, envVars, logVars, StoreTypeOK, DrainTypeOK, Phase
  <1>6. CASE BatchDone(d)
    BY <1>6 DEF BatchDone, Goto, storeVars, StoreTypeOK, DrainTypeOK, Phase
  <1>7. CASE CampaignDone(d)
    <2>1. [mem[d] EXCEPT !.focus = {}, !.seen = {}, !.on = TRUE] \in Mem
      BY <1>0, MemSets
    <2>2. mem' \in [Drain -> Mem] /\ pc' \in [Drain -> Phase]
      BY <1>7, <2>1 DEF CampaignDone, Goto, DrainTypeOK, Phase
    <2>3. UNCHANGED <<storeVars, held, flight>>
      BY <1>7 DEF CampaignDone
    <2> QED
      BY <2>2, <2>3 DEF storeVars, StoreTypeOK, DrainTypeOK
  <1>8. CASE GiveBack(d)
    BY <1>8, ReleasedType DEF GiveBack, envVars, logVars, StoreTypeOK, DrainTypeOK
  <1>9. CASE Return(d)
    BY <1>9, BlankType DEF Return, Goto, storeVars, StoreTypeOK, DrainTypeOK, Phase
  <1>10. CASE Throw(d)
    BY <1>10, BlankType, AbandonedType DEF Throw, Stop, Goto, envVars, logVars, StoreTypeOK, DrainTypeOK, Phase
  <1>11. ASSUME NEW c \in Campaign, StartDue(d, c) PROVE StoreTypeOK' /\ DrainTypeOK'
    <2>1. row' \in [Row -> RowRec] /\ camp' \in [Campaign -> CampRec]
      BY <1>11, StartType DEF StartDue, dbVars, StoreTypeOK, CampRec, CampStatus
    <2> QED
      BY <1>0, <1>11, <2>1, MemSets DEF StartDue, Goto, envVars, logVars, StoreTypeOK, DrainTypeOK, Phase
  <1>12. ASSUME NEW c \in Campaign, OpenSession(d, c) PROVE StoreTypeOK' /\ DrainTypeOK'
    <2>1. Deliverable(c) \in BOOLEAN /\ suppressed \subseteq Address
      BY DEF Deliverable, StoreTypeOK
    <2> HIDE DEF TypeOK
    <2>2. mem' \in [Drain -> Mem]
      <3>1. [mem[d] EXCEPT !.focus = {c}, !.touched = mem[d].touched \cup {c},
                           !.seen = suppressed, !.on = Deliverable(c)] \in Mem
        <4>1. mem[d].touched \cup {c} \in SUBSET Campaign /\ {c} \in SUBSET Campaign
          BY <1>0
        <4> QED
          BY <1>0, <2>1, <4>1, MemOpens
      <3>2. mem' = [mem EXCEPT ![d] =
                      [mem[d] EXCEPT !.focus = {c}, !.touched = mem[d].touched \cup {c},
                                     !.seen = suppressed, !.on = Deliverable(c)]]
        BY <1>12 DEF OpenSession
      <3> QED
        BY <3>1, <3>2 DEF TypeOK, DrainTypeOK
    <2> QED
      BY <1>12, <2>2 DEF OpenSession, Goto, storeVars, TypeOK, StoreTypeOK, DrainTypeOK, Phase
  <1>13. ASSUME NEW c \in Campaign, CancelForTarget(d, c) PROVE StoreTypeOK' /\ DrainTypeOK'
    BY <1>0, <1>13, SkippedType, MemSets DEF CancelForTarget, envVars, logVars, StoreTypeOK, DrainTypeOK,
                                             CampRec, CampStatus
  <1>14. ASSUME NEW c \in Campaign, CompleteIfDone(d, c) PROVE StoreTypeOK' /\ DrainTypeOK'
    BY <1>0, <1>14, MemSets DEF CompleteIfDone, envVars, logVars, StoreTypeOK, DrainTypeOK, CampRec, CampStatus
  <1>15. ASSUME NEW r \in Row, Suppress(d, r) PROVE StoreTypeOK' /\ DrainTypeOK'
    BY <1>15, SettledType DEF Suppress, envVars, logVars, StoreTypeOK, DrainTypeOK, RowStatus
  <1>16. ASSUME NEW r \in Row, HandOver(d, r) PROVE StoreTypeOK' /\ DrainTypeOK'
    <2> PICK answer \in Answers(d) :
         /\ mem' = [mem EXCEPT ![d].res = answer.res]
         /\ mailed' = [mailed EXCEPT ![r] = @ + answer.sent]
         /\ tries' = IF answer.res \in {"SUPPRESSED", "render"} THEN tries
                     ELSE [tries EXCEPT ![r] = @ + 1]
      BY <1>16 DEF HandOver
    <2>1. answer.res \in Outcome /\ answer.sent \in Nat
      BY DEF Answers, Answer, Outcome
    <2>2. mailed' \in [Row -> Nat] /\ tries' \in [Row -> Nat]
      BY <2>1 DEF StoreTypeOK
    <2>3. mem' \in [Drain -> Mem]
      BY <2>1 DEF DrainTypeOK, Mem
    <2> QED
      BY <1>16, <2>2, <2>3 DEF HandOver, Goto, dbVars, envVars, StoreTypeOK, DrainTypeOK, Phase
  <1>17. ASSUME NEW r \in Row, Settle(d, r) PROVE StoreTypeOK' /\ DrainTypeOK'
    BY <1>0, <1>17, SettlementRow, MemSets DEF Settle, Goto, envVars, logVars, StoreTypeOK, DrainTypeOK, Phase
  <1>18. ASSUME NEW r \in Row, Pause(d, r) PROVE StoreTypeOK' /\ DrainTypeOK'
    <2>1. row' \in [Row -> RowRec]
      <3> DEFINE rows == [Released(Hand(d) \ {r}) EXCEPT ![r] = Freed(row[r], "PENDING")]
      <3>1. rows \in [Row -> RowRec]
        BY ReleasedType, FreedRow DEF StoreTypeOK, RowStatus
      <3> QED
        BY <1>18, <3>1, AbandonedType DEF Pause
    <2> QED
      BY <1>18, <2>1, BlankType DEF Pause, Closing, Sending, Goto, envVars, logVars, StoreTypeOK, DrainTypeOK, Mem, Phase
  <1> QED
    BY <1>1, <1>2, <1>3, <1>4, <1>5, <1>6, <1>7, <1>8, <1>9, <1>10, <1>11, <1>12, <1>13,
       <1>14, <1>15, <1>16, <1>17, <1>18 DEF DrainStep

LEMMA RunnerKeepsType ==
    ASSUME TypeOK, RunnerNext, UNCHANGED ask
    PROVE  TypeOK'
  <1> USE DEF TypeOK
  <1> DeskTypeOK'
    BY DEF DeskTypeOK
  <1>1. ASSUME NEW d \in Drain, NEW scope \in SUBSET Campaign, Begin(d, scope)
        PROVE  /\ DrainTypeOK' /\ row' \in [Row -> RowRec] /\ camp' \in [Campaign -> CampRec]
               /\ UNCHANGED <<dbVars, envVars, logVars>>
    <2> DEFINE stale == {r \in Row : row[r].st = "SENDING" /\ row[r].old}
    <2>1. stale \subseteq Row /\ CampaignsOf(stale) \subseteq Campaign
      BY DEF CampaignsOf, Row
    <2> HIDE DEF stale
    <2>2. [Blank EXCEPT !.kick = scope, !.stale = stale, !.touched = CampaignsOf(stale)] \in Mem
      BY <2>1, MemBegins
    <2>3. mem' \in [Drain -> Mem]
      BY <1>1, <2>2 DEF Begin, DrainTypeOK, stale
    <2> QED
      BY <1>1, <2>3 DEF Begin, Goto, dbVars, StoreTypeOK, DrainTypeOK, Phase
  <1>2. ASSUME NEW d \in Drain, CronTick(d) PROVE TypeOK'
    BY <1>1, <1>2 DEF CronTick, envVars, logVars, StoreTypeOK
  <1>3. ASSUME NEW d \in Drain, NEW c \in Campaign, Kick(d, c) PROVE TypeOK'
    <2> {c} \in SUBSET Campaign
      OBVIOUS
    <2> QED
      BY <1>1, <1>3, UpsetType DEF Kick, envVars, logVars, StoreTypeOK
  <1>4. ASSUME NEW d \in Drain, DrainStep(d) PROVE TypeOK'
    BY <1>4, DrainStepKeepsType
  <1>5. ASSUME NEW d \in Drain, Crash(d) PROVE TypeOK'
    BY <1>5, UpsetType, BlankType, AbandonedType
       DEF Crash, Stop, Goto, envVars, logVars, StoreTypeOK, DrainTypeOK, Phase
  <1>6. ASSUME NEW d \in Drain, BudgetEnds(d) PROVE TypeOK'
    BY <1>6, UpsetType DEF BudgetEnds, dbVars, envVars, logVars, StoreTypeOK, DrainTypeOK, Mem
  <1>7. ASSUME NEW r \in Row, LeaseEnds(r) PROVE TypeOK'
    BY <1>7 DEF LeaseEnds, envVars, logVars, drainVars, StoreTypeOK, DrainTypeOK, RowRec
  <1>8. ASSUME NEW r \in Row, BackoffEnds(r) PROVE TypeOK'
    BY <1>8 DEF BackoffEnds, envVars, logVars, drainVars, StoreTypeOK, DrainTypeOK, RowRec
  <1> QED
    BY <1>2, <1>3, <1>4, <1>5, <1>6, <1>7, <1>8 DEF RunnerNext

\* Every variable of Announcements keeps its type, whatever happens.
THEOREM Typing == Spec => []TypeOK
  <1>1. Init => TypeOK
    BY StoreAssumption, FreshRow, BlankType
       DEF Init, StoreInit, DeskInit, DrainInit, TypeOK, StoreTypeOK, DeskTypeOK, DrainTypeOK,
           CampRec, CampStatus, Phase
  <1>2. TypeOK /\ [Next]_vars => TypeOK'
    <2> SUFFICES ASSUME TypeOK, [Next]_vars PROVE TypeOK'
      OBVIOUS
    <2>1. CASE Next
      BY <2>1, DeskKeepsType, RunnerKeepsType, SurroundingsKeepType DEF Next
    <2>2. CASE UNCHANGED vars
      BY <2>2 DEF vars, storeVars, drainVars, TypeOK, StoreTypeOK, DeskTypeOK, DrainTypeOK
    <2> QED
      BY <2>1, <2>2
  <1> QED
    BY <1>1, <1>2, PTL DEF Spec

-----------------------------------------------------------------------------
(***************************************************************************)
(* Who may act on a recipient row: the claims of concurrent drains.        *)
(***************************************************************************)
\* The steps of a drain that touch neither table and no row in hand.
Quiet(d) ==
    \/ CronTick(d) \/ Gate(d) \/ NothingToClaim(d) \/ BatchDone(d)
    \/ CampaignDone(d) \/ Return(d) \/ BudgetEnds(d)
    \/ \E c \in Campaign : Kick(d, c) \/ OpenSession(d, c)

LEMMA RowShape ==
    ASSUME NEW r \in Row
    PROVE  r[1] \in Campaign /\ r[2] \in Address /\ r \in RowsOf(r[1])
  BY DEF Row, RowsOf

LEMMA QuietSteps ==
    ASSUME TypeOK, NEW d \in Drain, Quiet(d)
    PROVE  /\ UNCHANGED <<camp, row, mailed, tries, held, flight>>
           /\ \A e \in Drain : mem'[e].res = mem[e].res \/ flight[e] = {} \/ e = d
           /\ \A e \in Drain :
                \/ pc'[e] = pc[e]
                \/ /\ pc[e] \notin {"select", "settle"} /\ pc'[e] # "select"
                   /\ pc[e] \in {"batch", "send"} /\ held[e] # {} =>
                         pc'[e] \in {"batch", "send"}
  <1> USE DEF TypeOK, DrainTypeOK
  <1>1. ASSUME NEW scope, Begin(d, scope)
        PROVE  /\ UNCHANGED <<camp, row, mailed, tries, held, flight>>
               /\ \A e \in Drain : e # d => mem'[e] = mem[e]
               /\ pc[d] = "idle" /\ pc'[d] \in {"gate", "expire"}
               /\ \A e \in Drain : e # d => pc'[e] = pc[e]
    BY <1>1 DEF Begin, Goto, dbVars, logVars
  <1>2. CASE CronTick(d)
    BY <1>1, <1>2 DEF CronTick
  <1>3. CASE \E c \in Campaign : Kick(d, c)
    BY <1>1, <1>3 DEF Kick
  <1>4. CASE Gate(d)
    BY <1>4 DEF Gate, Goto, storeVars
  <1>5. CASE NothingToClaim(d)
    BY <1>5 DEF NothingToClaim, Closing, Goto, storeVars
  <1>6. CASE BatchDone(d)
    BY <1>6 DEF BatchDone, Goto, storeVars
  <1>7. CASE CampaignDone(d)
    BY <1>7 DEF CampaignDone, Goto, storeVars
  <1>8. CASE Return(d)
    BY <1>8 DEF Return, Goto, storeVars
  <1>9. CASE BudgetEnds(d)
    BY <1>9 DEF BudgetEnds, dbVars, logVars
  <1>10. CASE \E c \in Campaign : OpenSession(d, c)
    BY <1>10 DEF OpenSession, Goto, storeVars
  <1> QED
    BY <1>2, <1>3, <1>4, <1>5, <1>6, <1>7, <1>8, <1>9, <1>10 DEF Quiet

-----------------------------------------------------------------------------
(***************************************************************************)
(* A drain holds rows only between claiming and closing, and has at most   *)
(* one send under way.                                                     *)
(***************************************************************************)
LEMMA PhasesStep ==
    ASSUME TypeOK, HeldWhileSending, [Next]_vars
    PROVE  HeldWhileSending'
  <1> USE DEF HeldWhileSending
  <1>0. /\ pc \in [Drain -> Phase] /\ held \in [Drain -> SUBSET Row]
        /\ flight \in [Drain -> SUBSET Row]
    BY DEF TypeOK, DrainTypeOK
  <1>1. CASE UNCHANGED <<pc, held, flight>>
    BY <1>1
  <1>2. ASSUME NEW d \in Drain, Quiet(d) PROVE HeldWhileSending'
    BY <1>0, <1>2, QuietSteps
  <1>3. ASSUME NEW d \in Drain, ExpireLeases(d) PROVE HeldWhileSending'
    BY <1>0, <1>3 DEF ExpireLeases, Goto
  <1>4. ASSUME NEW d \in Drain, NEW c \in Campaign, StartDue(d, c) PROVE HeldWhileSending'
    BY <1>0, <1>4 DEF StartDue, Goto
  <1>5. ASSUME NEW d \in Drain, Claim(d) PROVE HeldWhileSending'
    BY <1>0, <1>5 DEF Claim, Goto
  <1>6. ASSUME NEW d \in Drain, Select(d) PROVE HeldWhileSending'
    BY <1>0, <1>6 DEF Select, Closing, Goto
  <1>7. ASSUME NEW d \in Drain, NEW c \in Campaign, CancelForTarget(d, c) PROVE HeldWhileSending'
    BY <1>0, <1>7 DEF CancelForTarget
  <1>8. ASSUME NEW d \in Drain, GiveBack(d) PROVE HeldWhileSending'
    BY <1>0, <1>8 DEF GiveBack
  <1>9. ASSUME NEW d \in Drain, NEW r \in Row, Suppress(d, r) PROVE HeldWhileSending'
    BY <1>0, <1>9 DEF Suppress
  <1>10. ASSUME NEW d \in Drain, NEW r \in Row, HandOver(d, r) PROVE HeldWhileSending'
    BY <1>0, <1>10 DEF HandOver, Goto, Hand
  <1>11. ASSUME NEW d \in Drain, NEW r \in Row, Settle(d, r) PROVE HeldWhileSending'
    BY <1>0, <1>11 DEF Settle, Goto
  <1>12. ASSUME NEW d \in Drain, NEW r \in Row, Pause(d, r) PROVE HeldWhileSending'
    BY <1>0, <1>12 DEF Pause, Closing, Goto
  <1>13. ASSUME NEW d \in Drain, Stop(d) PROVE HeldWhileSending'
    BY <1>0, <1>13 DEF Stop, Goto
  <1>14. CASE UNCHANGED drainVars
    BY <1>1, <1>14 DEF drainVars
  <1>15. ASSUME NEW d \in Drain, NEW c \in Campaign, CompleteIfDone(d, c) PROVE HeldWhileSending'
    BY <1>1, <1>15 DEF CompleteIfDone
  <1>16. ASSUME NEW d \in Drain, DrainStep(d) PROVE HeldWhileSending'
    BY <1>2, <1>3, <1>4, <1>5, <1>6, <1>7, <1>8, <1>9, <1>10, <1>11, <1>12, <1>13, <1>15, <1>16
       DEF DrainStep, Quiet, Throw
  <1>17. CASE RunnerNext
    BY <1>2, <1>13, <1>14, <1>16, <1>17 DEF RunnerNext, Quiet, Crash, LeaseEnds, BackoffEnds
  <1> QED
    BY <1>14, <1>17 DEF Next, vars

-----------------------------------------------------------------------------
(***************************************************************************)
(* A claim has an owner who knows of it.                                   *)
(***************************************************************************)
\* The step puts no token on a row: it leaves the claim as it is, or ends it.
NoNewClaim ==
    \A r \in Row :
        \/ row'[r].tok = Nobody
        \/ row'[r].tok = row[r].tok /\ row'[r].st = row[r].st

\* What has to hold of a step that makes no claim.
LEMMA ClaimStaysKnown ==
    ASSUME ClaimIsKnown, NoNewClaim,
           \A d \in Drain, r \in Row :
              row'[r].tok = d /\ (pc[d] = "select" \/ r \in held[d]) =>
                  pc'[d] = "select" \/ r \in held'[d]
    PROVE  ClaimIsKnown'
  BY StoreAssumption DEF ClaimIsKnown, NoNewClaim

\* Staff, readers, editors and the clock make no claim.
LEMMA DeskClaimsNothing ==
    ASSUME TypeOK, DeskNext \/ Surroundings
    PROVE  NoNewClaim
  <1> USE FreshRow DEF NoNewClaim, Freed, RowRec
  <1>0. row \in [Row -> RowRec]
    BY DEF TypeOK, StoreTypeOK
  <1>1. CASE UNCHANGED row
    BY <1>1
  <1>2. ASSUME NEW c \in Campaign, row' = Snapshot(c) PROVE NoNewClaim
    BY <1>0, <1>2 DEF Snapshot
  <1>3. ASSUME NEW p \in Admin, NEW c \in Campaign, QueueToSend(p, c) PROVE NoNewClaim
    BY <1>1, <1>2, <1>3 DEF QueueToSend, StartCampaign, dbVars
  <1>4. ASSUME NEW p \in Admin, NEW c \in Campaign,
               Delete(p, c) \/ Cancel(p, c) \/ Retry(p, c)
        PROVE  NoNewClaim
    <2>1. CASE Delete(p, c)
      BY <1>0, <2>1 DEF Delete
    <2>2. CASE Cancel(p, c)
      BY <1>0, <2>2 DEF Cancel, Skipped, RowStatus
    <2>3. CASE Retry(p, c)
      BY <1>0, <2>3 DEF Retry
    <2> QED
      BY <1>4, <2>1, <2>2, <2>3
  <1>5. ASSUME NEW p \in Admin, Check(p) \/ Write(p) PROVE NoNewClaim
    BY <1>1, <1>3, <1>4, <1>5 DEF Check, Write, QueueToWait, Schedule, Gone, dbVars
  <1>6. ASSUME NEW c \in Campaign, Unschedule(c) \/ SendDirect(c) \/ Purge(c) PROVE NoNewClaim
    BY <1>0, <1>1, <1>6 DEF Unschedule, SendDirect, Purge
  <1> QED
    BY <1>1, <1>5, <1>6 DEF DeskNext, Surroundings, Toggle, OptOut, TargetMoves, ClockReaches, dbVars

\* Of the steps of a drain, only Claim puts its token on a row.
LEMMA DrainClaimsByClaim ==
    ASSUME TypeOK, NEW d \in Drain, DrainStep(d) \/ Quiet(d) \/ Stop(d), ~Claim(d)
    PROVE  NoNewClaim
  <1> USE DEF NoNewClaim, Freed, RowRec
  <1>0. row \in [Row -> RowRec]
    BY DEF TypeOK, StoreTypeOK
  <1>1. CASE UNCHANGED row
    BY <1>1
  <1>2. CASE Quiet(d)
    BY <1>1, <1>2, QuietSteps
  <1>3. CASE ExpireLeases(d) \/ Select(d) \/ GiveBack(d)
    <2>1. CASE ExpireLeases(d)
      BY <1>0, <2>1 DEF ExpireLeases, RowStatus
    <2>2. CASE Select(d)
      BY <1>0, <2>2 DEF Select, RowStatus
    <2>3. CASE GiveBack(d)
      BY <1>0, <2>3 DEF GiveBack, Released, RowStatus
    <2> QED
      BY <1>3, <2>1, <2>2, <2>3
  <1>4. CASE Stop(d)
    BY <1>0, <1>4 DEF Stop, Abandoned, RowRec
  <1>5. ASSUME NEW c \in Campaign, StartDue(d, c) PROVE NoNewClaim
    BY <1>0, <1>1, <1>5, FreshRow DEF StartDue, StartCampaign, Snapshot, dbVars
  <1>6. ASSUME NEW c \in Campaign, CancelForTarget(d, c) \/ CompleteIfDone(d, c) PROVE NoNewClaim
    BY <1>0, <1>1, <1>6 DEF CancelForTarget, CompleteIfDone, Skipped, RowStatus
  <1>7. ASSUME NEW r \in Row, Suppress(d, r) PROVE NoNewClaim
    BY <1>0, <1>7 DEF Suppress, Settled, RowStatus
  <1>8. ASSUME NEW r \in Row, HandOver(d, r) PROVE NoNewClaim
    BY <1>1, <1>8 DEF HandOver, dbVars
  <1>9. ASSUME NEW r \in Row, Settle(d, r) PROVE NoNewClaim
    BY <1>0, <1>9, SettlementRow DEF Settle, TypeOK
  <1>10. ASSUME NEW r \in Row, Pause(d, r) PROVE NoNewClaim
    <2> DEFINE rows == [Released(Hand(d) \ {r}) EXCEPT ![r] = Freed(row[r], "PENDING")]
    <2>1. \A s \in Row : \/ rows[s].tok = Nobody
                         \/ /\ rows[s].tok = row[s].tok
                            /\ rows[s].st = row[s].st
      BY <1>0 DEF Released, RowStatus
    <2>2. rows \in [Row -> RowRec]
      BY ReleasedType, FreedRow DEF TypeOK, StoreTypeOK, RowStatus
    <2>3. row' = Abandoned(rows, d)
      BY <1>10 DEF Pause
    <2> HIDE DEF rows
    <2> QED
      BY <2>1, <2>2, <2>3 DEF Abandoned, RowRec
  <1> QED
    BY <1>2, <1>3, <1>4, <1>5, <1>6, <1>7, <1>8, <1>9, <1>10 DEF DrainStep, Throw, Quiet

LEMMA KnownStep ==
    ASSUME TypeOK, ClaimIsKnown, [Next]_vars
    PROVE  ClaimIsKnown'
  <1>0. /\ row \in [Row -> RowRec] /\ pc \in [Drain -> Phase]
        /\ held \in [Drain -> SUBSET Row]
    BY DEF TypeOK, StoreTypeOK, DrainTypeOK
  <1>1. ASSUME NoNewClaim, UNCHANGED <<pc, held>> PROVE ClaimIsKnown'
    BY <1>1, ClaimStaysKnown
  <1>2. CASE (DeskNext \/ Surroundings) /\ UNCHANGED drainVars
    BY <1>1, <1>2, DeskClaimsNothing DEF drainVars
  <1>3. ASSUME NEW r \in Row, LeaseEnds(r) \/ BackoffEnds(r) PROVE ClaimIsKnown'
    BY <1>0, <1>1, <1>3 DEF LeaseEnds, BackoffEnds, NoNewClaim, RowRec, drainVars
  <1>4. ASSUME NEW d \in Drain, Quiet(d) PROVE ClaimIsKnown'
    BY <1>4, QuietSteps DEF ClaimIsKnown
  <1>5. ASSUME NEW d \in Drain, Stop(d) PROVE ClaimIsKnown'
    <2>1. \A r \in Row : row'[r].tok # d
      BY <1>0, <1>5, StoreAssumption DEF Stop, Abandoned, RowRec
    <2>2. \A e \in Drain : e # d => pc'[e] = pc[e] /\ held'[e] = held[e]
      BY <1>0, <1>5 DEF Stop, Goto
    <2>3. NoNewClaim
      <3>1. ~Claim(d)
        BY <1>0, <1>5 DEF Stop, Claim, Goto
      <3> QED
        BY <1>5, <3>1, DrainClaimsByClaim
    <2> QED
      BY <2>1, <2>2, <2>3, ClaimStaysKnown
  <1>6. ASSUME NEW d \in Drain, Claim(d) PROVE ClaimIsKnown'
    <2> PICK S \in SUBSET Claimable(d) :
            row' = [r \in Row |-> IF r \in S THEN Taken(row[r], d) ELSE row[r]]
      BY <1>6 DEF Claim
    <2>1. \A r \in S : row'[r].tok = d /\ row'[r].st = "SENDING"
      BY <1>0, TakenRow DEF Claimable
    <2> QED
      BY <1>0, <1>6, <2>1 DEF Claim, Goto, ClaimIsKnown
  <1>7. ASSUME NEW d \in Drain, Select(d) PROVE ClaimIsKnown'
    <2>1. \A r \in Row : row'[r].tok = d => r \in held'[d]
      BY <1>0, <1>7, FreedRow, StoreAssumption DEF Select, RowStatus
    <2>2. \A e \in Drain : e # d => pc'[e] = pc[e] /\ held'[e] = held[e]
      BY <1>0, <1>7 DEF Select, Closing, Goto
    <2>3. NoNewClaim
      BY <1>7, DrainClaimsByClaim DEF DrainStep, Select, Claim
    <2> QED
      BY <2>1, <2>2, <2>3, ClaimStaysKnown
  <1>8. ASSUME NEW d \in Drain, DrainStep(d), ~Claim(d), ~Select(d), ~Quiet(d), ~Stop(d)
        PROVE  ClaimIsKnown'
    <2>1. NoNewClaim
      BY <1>8, DrainClaimsByClaim
    <2>2. ASSUME \A e \in Drain : pc[e] = "select" => pc'[e] = "select",
                 \A e \in Drain : e # d => held'[e] = held[e],
                 \A r \in held[d] \ held'[d] : row'[r].tok # d
          PROVE  ClaimIsKnown'
      BY <2>1, <2>2, ClaimStaysKnown
    <2>3. CASE ExpireLeases(d)
      BY <1>0, <2>2, <2>3 DEF ExpireLeases, Goto
    <2>4. ASSUME NEW c \in Campaign, StartDue(d, c) PROVE ClaimIsKnown'
      BY <1>0, <2>2, <2>4 DEF StartDue, Goto
    <2>5. ASSUME NEW c \in Campaign, CancelForTarget(d, c) PROVE ClaimIsKnown'
      <3>1. \A r \in held[d] \ held'[d] : r[1] = c
        BY <1>0, <2>5, RowShape DEF CancelForTarget, RowsOf
      <3>2. \A r \in Row : r[1] = c => row'[r].tok # d
        BY <1>0, <2>5, FreedRow, StoreAssumption
           DEF CancelForTarget, Skipped, RowStatus, ClaimIsKnown
      <3> QED
        BY <1>0, <2>2, <2>5, <3>1, <3>2 DEF CancelForTarget
    <2>6. ASSUME NEW c \in Campaign, CompleteIfDone(d, c) PROVE ClaimIsKnown'
      BY <1>0, <2>2, <2>6 DEF CompleteIfDone
    <2>7. CASE GiveBack(d)
      <3>1. \A r \in Hand(d) : row'[r].tok # d
        BY <1>0, <2>7, FreedRow, StoreAssumption
           DEF GiveBack, Released, RowStatus, ClaimIsKnown, Hand
      <3> QED
        BY <1>0, <2>2, <2>7, <3>1 DEF GiveBack
    <2>8. ASSUME NEW r \in Row, Suppress(d, r) PROVE ClaimIsKnown'
      <3>1. row'[r].tok # d
        BY <1>0, <2>8, FreedRow, StoreAssumption DEF Suppress, Settled, RowStatus
      <3> QED
        BY <1>0, <2>2, <2>8, <3>1 DEF Suppress
    <2>9. ASSUME NEW r \in Row, HandOver(d, r) PROVE ClaimIsKnown'
      BY <1>0, <2>2, <2>9 DEF HandOver, Goto
    <2>10. ASSUME NEW r \in Row, Settle(d, r) PROVE ClaimIsKnown'
      <3>1. row'[r].tok # d
        BY <1>0, <2>10, SettlementRow, StoreAssumption DEF Settle, TypeOK
      <3> QED
        BY <1>0, <2>2, <2>10, <3>1 DEF Settle, Goto
    <2>11. ASSUME NEW r \in Row, Pause(d, r) PROVE ClaimIsKnown'
      <3> DEFINE rows == [Released(Hand(d) \ {r}) EXCEPT ![r] = Freed(row[r], "PENDING")]
      <3>1. rows \in [Row -> RowRec]
        BY ReleasedType, FreedRow DEF TypeOK, StoreTypeOK, RowStatus
      <3>2. row' = Abandoned(rows, d)
        BY <2>11 DEF Pause
      <3> HIDE DEF rows
      <3>3. \A s \in Row : row'[s].tok # d
        BY <3>1, <3>2, StoreAssumption DEF Abandoned, RowRec
      <3> QED
        BY <1>0, <2>2, <2>11, <3>3 DEF Pause, Closing, Goto
    <2> QED
      BY <1>8, <2>3, <2>4, <2>5, <2>6, <2>7, <2>8, <2>9, <2>10, <2>11 DEF DrainStep, Quiet, Throw
  <1>9. ASSUME NEW d \in Drain, DrainStep(d) PROVE ClaimIsKnown'
    BY <1>4, <1>5, <1>6, <1>7, <1>8, <1>9
  <1>10. CASE UNCHANGED vars
    BY <1>10 DEF vars, storeVars, drainVars, ClaimIsKnown
  <1> QED
    BY <1>2, <1>3, <1>4, <1>5, <1>9, <1>10 DEF Next, RunnerNext, Quiet, Crash

-----------------------------------------------------------------------------
(***************************************************************************)
(* A campaign that does not exist has no rows, and a direct e-mail is      *)
(* never a draft.                                                          *)
(***************************************************************************)
\* No campaign and no row comes into being, and no request is checked.
NothingBorn ==
    /\ \A r \in Row : row'[r].st # "ABSENT" => row[r].st # "ABSENT"
    /\ \A c \in Campaign :
          /\ camp'[c].st = "ABSENT" => camp[c].st = "ABSENT"
          /\ camp'[c].st \in {"DRAFT", "SCHEDULED"} =>
                camp[c].st \in {"DRAFT", "SCHEDULED"}

LEMMA BornByStart ==
    ASSUME TypeOK, NoOrphans, NEW c \in Campaign, StartCampaign(c)
    PROVE  /\ camp'[c].st \in {"SENT", "SENDING"}
           /\ \A e \in Campaign : e # c => camp'[e] = camp[e]
           /\ \A r \in Row : r[1] # c => row'[r] = row[r]
  BY DEF StartCampaign, Snapshot, TypeOK, StoreTypeOK, CampRec

LEMMA OrphansStep ==
    ASSUME TypeOK, NoOrphans, ClaimIsKnown, [Next]_vars
    PROVE  NoOrphans'
  <1> USE RowShape DEF NoOrphans
  <1>0. /\ camp \in [Campaign -> CampRec] /\ row \in [Row -> RowRec]
        /\ ask \in [Admin -> Request \cup {Idle}] /\ pc \in [Drain -> Phase]
        /\ mem \in [Drain -> Mem] /\ held \in [Drain -> SUBSET Row]
        /\ \A d \in Drain : mem[d].todo \subseteq Campaign
        /\ \A d \in Drain : flight[d] \subseteq Row
    BY DEF TypeOK, StoreTypeOK, DeskTypeOK, DrainTypeOK, Mem
  <1>1. ASSUME NothingBorn, UNCHANGED ask PROVE NoOrphans'
    BY <1>1 DEF NothingBorn, Asked, About
  <1>2. CASE UNCHANGED <<camp, row, ask>>
    BY <1>1, <1>2 DEF NothingBorn
  <1>3. ASSUME NEW p \in Admin, Check(p) PROVE NoOrphans'
    <2> PICK op \in Ops, c \in Campaign :
           /\ Admits(op, c)
           /\ ask' = [ask EXCEPT ![p] =
                         [op |-> op, on |-> c, wait |-> Availability(c) = "scheduled"]]
           /\ UNCHANGED <<camp, row>>
      BY <1>3 DEF Check, dbVars
    <2>1. op \in {"queue", "schedule", "delete"} => Kind[c] # "DIRECT"
      BY DEF Admits
    <2>2. ASSUME NEW q \in Admin, NEW e \in Campaign, NEW o \in {"queue", "schedule", "delete"},
                 Asked(q, o, e)'
          PROVE  Kind[e] # "DIRECT"
      BY <1>0, <2>1, <2>2 DEF Asked, About
    <2> QED
      BY <2>2
  <1>4. ASSUME NEW p \in Admin, Write(p) PROVE NoOrphans'
    <2> PICK c \in Campaign :
             \/ QueueToWait(p, c) \/ QueueToSend(p, c) \/ Schedule(p, c)
             \/ Delete(p, c) \/ Cancel(p, c) \/ Retry(p, c) \/ Gone(p, c)
      BY <1>4 DEF Write
    <2>0. \A q \in Admin, e \in Campaign, o \in {"queue", "schedule", "delete"} :
             Asked(q, o, e)' => Asked(q, o, e)
      BY <1>0, <1>4 DEF Write, Done, Asked, About, Idle
    <2>1. CASE QueueToWait(p, c)
      BY <1>0, <2>0, <2>1 DEF QueueToWait
    <2>2. CASE QueueToSend(p, c)
      <3>1. CASE camp[c].st \in {"DRAFT", "SCHEDULED"}
        BY <2>0, <2>2, <3>1, BornByStart DEF QueueToSend
      <3>2. CASE UNCHANGED dbVars
        BY <2>0, <3>2 DEF dbVars
      <3> QED
        BY <2>2, <3>1, <3>2 DEF QueueToSend
    <2>3. CASE Schedule(p, c)
      BY <1>0, <2>0, <2>3 DEF Schedule
    <2>4. CASE Delete(p, c)
      BY <1>0, <2>0, <2>4 DEF Delete, NoRow
    <2>5. CASE Cancel(p, c)
      BY <1>0, <2>0, <2>5 DEF Cancel, Skipped
    <2>6. CASE Retry(p, c)
      BY <1>0, <2>0, <2>6 DEF Retry
    <2>7. CASE Gone(p, c)
      BY <2>0, <2>7 DEF Gone, dbVars
    <2> QED
      BY <2>1, <2>2, <2>3, <2>4, <2>5, <2>6, <2>7
  <1>5. ASSUME NEW c \in Campaign, Unschedule(c) PROVE NoOrphans'
    BY <1>0, <1>1, <1>5 DEF Unschedule, NothingBorn
  <1>6. ASSUME NEW c \in Campaign, SendDirect(c) PROVE NoOrphans'
    BY <1>0, <1>6 DEF SendDirect, Asked, About
  <1>7. CASE Surroundings /\ UNCHANGED ask
    <2>1. ASSUME NEW c \in Campaign, ClockReaches(c) PROVE NoOrphans'
      BY <1>0, <1>1, <1>7, <2>1 DEF ClockReaches, NothingBorn, CampRec
    <2>2. ASSUME NEW c \in Campaign, Purge(c) PROVE NoOrphans'
      BY <1>0, <1>1, <1>7, <2>2 DEF Purge, NothingBorn, NoRow
    <2> QED
      BY <1>2, <1>7, <2>1, <2>2 DEF Surroundings, Toggle, OptOut, TargetMoves, dbVars
  <1>8. ASSUME NEW d \in Drain, NEW c \in Campaign, StartDue(d, c), UNCHANGED ask PROVE NoOrphans'
    <2>1. CASE StartCampaign(c) /\ camp[c].st \in {"DRAFT", "SCHEDULED"}
      BY <1>8, <2>1, BornByStart DEF Asked, About
    <2>2. CASE UNCHANGED dbVars
      BY <1>2, <1>8, <2>2 DEF dbVars
    <2>3. CASE camp' = (IF camp[c].st = "SCHEDULED"
                        THEN [camp EXCEPT ![c].st = "CANCELLED"] ELSE camp) /\ UNCHANGED row
      BY <1>0, <1>1, <1>8, <2>3 DEF NothingBorn
    <2> QED
      BY <1>8, <2>1, <2>2, <2>3 DEF StartDue
  <1>9. ASSUME NEW d \in Drain, Quiet(d), UNCHANGED ask PROVE NoOrphans'
    BY <1>2, <1>9, QuietSteps
  <1>10. ASSUME NEW d \in Drain, Stop(d), UNCHANGED ask PROVE NoOrphans'
    BY <1>0, <1>1, <1>10 DEF Stop, Abandoned, NothingBorn, RowRec
  <1>11. ASSUME NEW d \in Drain, DrainStep(d), UNCHANGED ask PROVE NoOrphans'
    <2>1. CASE ExpireLeases(d)
      BY <1>0, <1>1, <1>11, <2>1 DEF ExpireLeases, NothingBorn
    <2>2. CASE Claim(d)
      <3> PICK S \in SUBSET Claimable(d) :
              row' = [r \in Row |-> IF r \in S THEN Taken(row[r], d) ELSE row[r]]
        BY <2>2 DEF Claim
      <3>1. \A r \in S : row[r].st = "PENDING"
        BY DEF Claimable
      <3> QED
        BY <1>0, <1>1, <1>11, <2>2, <3>1 DEF Claim, NothingBorn
    <2>3. CASE Select(d)
      BY <1>0, <1>1, <1>11, <2>3 DEF Select, NothingBorn, ClaimIsKnown
    <2>4. CASE GiveBack(d)
      BY <1>0, <1>1, <1>11, <2>4 DEF GiveBack, Released, NothingBorn
    <2>5. ASSUME NEW c \in Campaign, CancelForTarget(d, c) PROVE NoOrphans'
      BY <1>0, <1>1, <1>11, <2>5 DEF CancelForTarget, Skipped, NothingBorn
    <2>6. ASSUME NEW c \in Campaign, CompleteIfDone(d, c) PROVE NoOrphans'
      BY <1>0, <1>1, <1>11, <2>6 DEF CompleteIfDone, NothingBorn
    <2>7. ASSUME NEW r \in Row, Suppress(d, r) PROVE NoOrphans'
      BY <1>0, <1>1, <1>11, <2>7 DEF Suppress, Settled, NothingBorn
    <2>8. ASSUME NEW r \in Row, HandOver(d, r) PROVE NoOrphans'
      BY <1>2, <1>11, <2>8 DEF HandOver, dbVars
    <2>9. ASSUME NEW r \in Row, Settle(d, r) PROVE NoOrphans'
      BY <1>0, <1>1, <1>11, <2>9 DEF Settle, NothingBorn
    <2>10. ASSUME NEW r \in Row, Pause(d, r) PROVE NoOrphans'
      BY <1>0, <1>1, <1>11, <2>10 DEF Pause, Abandoned, Released, NothingBorn
    <2> QED
      BY <1>8, <1>9, <1>10, <1>11, <2>1, <2>2, <2>3, <2>4, <2>5, <2>6, <2>7, <2>8, <2>9, <2>10
         DEF DrainStep, Quiet, Throw
  <1>12. ASSUME NEW r \in Row, LeaseEnds(r) \/ BackoffEnds(r), UNCHANGED ask PROVE NoOrphans'
    BY <1>0, <1>1, <1>12 DEF LeaseEnds, BackoffEnds, NothingBorn, RowRec
  <1>13. CASE RunnerNext /\ UNCHANGED ask
    BY <1>9, <1>10, <1>11, <1>12, <1>13 DEF RunnerNext, Quiet, Crash
  <1>14. CASE DeskNext
    BY <1>3, <1>4, <1>5, <1>6, <1>14 DEF DeskNext
  <1>15. CASE UNCHANGED vars
    BY <1>2, <1>15 DEF vars, storeVars
  <1> QED
    BY <1>7, <1>13, <1>14, <1>15 DEF Next

-----------------------------------------------------------------------------
(***************************************************************************)
(* As long as nobody retries, a row in hand is in one hand only, and its   *)
(* row in the table is either claimed by that hand or closed for good.     *)
(***************************************************************************)
\* What may happen to a row in hand: its claim stands, or it is closed.
HandStays(d, r) ==
    /\ row'[r].st \in {"SENDING", "FAILED", "SKIPPED", "ABSENT"}
    /\ row'[r].st = "SENDING" => row'[r].tok = d
    /\ row'[r].st = "ABSENT" => camp'[r[1]].st = "ABSENT" /\ Kind[r[1]] # "DIRECT"

\* A step of drain d that takes no new row in hand.
LEMMA HandsShrink ==
    ASSUME OneHolder, HeldIsOwn,
           \A d \in Drain : held'[d] \subseteq held[d],
           \A d \in Drain : \A r \in held'[d] : HandStays(d, r)
    PROVE  OneHolder' /\ HeldIsOwn'
  BY DEF OneHolder, HeldIsOwn, HandStays

\* A rewriting of the table that hands alone decide on.
LEMMA HandsAgree ==
    ASSUME TypeOK, HeldIsOwn, NEW d \in Drain, NEW r \in held[d],
           \/ row'[r].st = row[r].st /\ row'[r].tok = row[r].tok
           \/ row'[r].st \in {"FAILED", "SKIPPED"},
           camp[r[1]].st = "ABSENT" /\ Kind[r[1]] # "DIRECT" => camp'[r[1]].st = "ABSENT"
    PROVE  HandStays(d, r)
  BY DEF HeldIsOwn, HandStays

LEMMA DeskKeepsHands ==
    ASSUME TypeOK, ClaimInv, "retry" \notin Ops \/ ClaimsKept, DeskNext, UNCHANGED drainVars
    PROVE  OneHolder' /\ HeldIsOwn'
  <1> USE DEF ClaimInv
  <1>0. /\ camp \in [Campaign -> CampRec] /\ row \in [Row -> RowRec]
        /\ held \in [Drain -> SUBSET Row] /\ held' = held
    BY DEF TypeOK, StoreTypeOK, DrainTypeOK, drainVars
  <1> SUFFICES ASSUME NEW d \in Drain, NEW r \in held[d]
               PROVE  HandStays(d, r)
    BY <1>0, HandsShrink
  <1>1. r \in Row /\ r[1] \in Campaign
    BY <1>0, RowShape
  <1>2. row[r].st \in {"SENDING", "FAILED", "SKIPPED", "ABSENT"}
    BY DEF HeldIsOwn
  <1>3. ASSUME row'[r] = row[r], camp[r[1]].st = "ABSENT" => camp'[r[1]].st = "ABSENT"
        PROVE  HandStays(d, r)
    BY <1>3, HandsAgree
  <1>4. ASSUME NEW p \in Admin, Write(p) PROVE HandStays(d, r)
    <2> PICK c \in Campaign :
             \/ QueueToWait(p, c) \/ QueueToSend(p, c) \/ Schedule(p, c)
             \/ Delete(p, c) \/ Cancel(p, c) \/ Retry(p, c) \/ Gone(p, c)
      BY <1>4 DEF Write
    <2>1. CASE QueueToWait(p, c) \/ Schedule(p, c) \/ Gone(p, c)
      BY <1>0, <1>1, <1>3, <2>1 DEF QueueToWait, Schedule, Gone, dbVars
    <2>2. CASE QueueToSend(p, c)
      <3>1. CASE camp[c].st \in {"DRAFT", "SCHEDULED"}
        <4>1. row[r].st = "ABSENT" => r[1] # c
          BY <3>1 DEF HeldIsOwn
        <4>2. row'[r] = row[r]
          BY <1>1, <2>2, <3>1, <4>1 DEF QueueToSend, StartCampaign, Snapshot
        <4> QED
          BY <1>1, <1>3, <2>2, <3>1, <4>2, BornByStart DEF QueueToSend
      <3>2. CASE UNCHANGED dbVars
        BY <1>3, <3>2 DEF dbVars
      <3> QED
        BY <2>2, <3>1, <3>2 DEF QueueToSend
    <2>3. CASE Delete(p, c)
      <3>1. CASE r[1] = c
        <4>1. row'[r] = NoRow /\ camp'[c].st = "ABSENT"
          BY <1>0, <1>1, <2>3, <3>1 DEF Delete, CampRec
        <4>2. Kind[c] # "DIRECT"
          BY <2>3 DEF Delete, NoOrphans
        <4> QED
          BY <3>1, <4>1, <4>2, FreshRow DEF HandStays
      <3>2. CASE r[1] # c
        BY <1>0, <1>1, <1>3, <2>3, <3>2 DEF Delete
      <3> QED
        BY <3>1, <3>2
    <2>4. CASE Cancel(p, c)
      BY <1>0, <1>1, <1>2, <1>3, <2>4 DEF Cancel, Skipped
    <2>5. CASE Retry(p, c)
      <3>1. "retry" \in Ops
        BY <2>5 DEF Retry, Asked, About, TypeOK, DeskTypeOK, Request, Idle
      <3>2. row[r].st # "FAILED"
        BY <3>1 DEF ClaimsKept
      <3> QED
        BY <1>0, <1>1, <1>3, <2>5, <3>2 DEF Retry
    <2> QED
      BY <2>1, <2>2, <2>3, <2>4, <2>5
  <1>5. ASSUME NEW c \in Campaign, SendDirect(c) PROVE HandStays(d, r)
    <2>1. r[1] # c
      BY <1>1, <1>5 DEF SendDirect, NoOrphans, HeldIsOwn
    <2> QED
      BY <1>0, <1>1, <1>3, <1>5, <2>1 DEF SendDirect
  <1>6. ASSUME NEW c \in Campaign, Unschedule(c) PROVE HandStays(d, r)
    BY <1>0, <1>1, <1>3, <1>6 DEF Unschedule
  <1>7. ASSUME NEW p \in Admin, Check(p) PROVE HandStays(d, r)
    BY <1>3, <1>7 DEF Check, dbVars
  <1> QED
    BY <1>4, <1>5, <1>6, <1>7 DEF DeskNext

LEMMA SurroundingsKeepHands ==
    ASSUME TypeOK, ClaimInv, Surroundings, UNCHANGED <<drainVars, ask>>
    PROVE  OneHolder' /\ HeldIsOwn'
  <1> USE DEF ClaimInv
  <1>0. /\ camp \in [Campaign -> CampRec] /\ row \in [Row -> RowRec]
        /\ held \in [Drain -> SUBSET Row] /\ held' = held
    BY DEF TypeOK, StoreTypeOK, DrainTypeOK, drainVars
  <1> SUFFICES ASSUME NEW d \in Drain, NEW r \in held[d]
               PROVE  HandStays(d, r)
    BY <1>0, HandsShrink
  <1>1. r \in Row /\ r[1] \in Campaign
    BY <1>0, RowShape
  <1>3. ASSUME row'[r] = row[r], camp[r[1]].st = "ABSENT" => camp'[r[1]].st = "ABSENT"
        PROVE  HandStays(d, r)
    BY <1>3, HandsAgree
  <1>4. ASSUME NEW c \in Campaign, Purge(c) PROVE HandStays(d, r)
    <2>1. r[1] # c
      BY <1>4 DEF Purge, CampaignsOf
    <2> QED
      BY <1>0, <1>1, <1>3, <1>4, <2>1 DEF Purge
  <1>5. ASSUME NEW c \in Campaign, ClockReaches(c) PROVE HandStays(d, r)
    BY <1>0, <1>1, <1>3, <1>5 DEF ClockReaches
  <1> QED
    BY <1>3, <1>4, <1>5 DEF Surroundings, Toggle, OptOut, TargetMoves, dbVars

LEMMA DrainKeepsHands ==
    ASSUME TypeOK, ClaimInv, NEW d \in Drain, DrainStep(d)
    PROVE  OneHolder' /\ HeldIsOwn'
  <1> USE DEF ClaimInv
  <1>0. /\ camp \in [Campaign -> CampRec] /\ row \in [Row -> RowRec]
        /\ held \in [Drain -> SUBSET Row] /\ pc \in [Drain -> Phase]
        /\ \A e \in Drain : \A r \in held[e] : r \in Row /\ r[1] \in Campaign
    BY RowShape DEF TypeOK, StoreTypeOK, DrainTypeOK
  <1>1. ASSUME \A e \in Drain : held'[e] \subseteq held[e],
               \A e \in Drain : \A r \in held'[e] :
                  \/ row'[r] = row[r]
                  \/ row'[r].st \in {"FAILED", "SKIPPED"},
               \A c \in Campaign : camp[c].st = "ABSENT" => camp'[c].st = "ABSENT"
        PROVE  OneHolder' /\ HeldIsOwn'
    <2> SUFFICES ASSUME NEW e \in Drain, NEW r \in held'[e]
                 PROVE  HandStays(e, r)
      BY <1>1, HandsShrink
    <2> QED
      BY <1>0, <1>1, HandsAgree
  <1>2. CASE UNCHANGED <<camp, row, held>>
    BY <1>1, <1>2
  <1>3. CASE Quiet(d)
    BY <1>2, <1>3, QuietSteps
  <1>4. CASE ExpireLeases(d)
    BY <1>0, <1>1, <1>4, FreedRow DEF ExpireLeases, RowStatus
  <1>5. ASSUME NEW c \in Campaign, StartDue(d, c) PROVE OneHolder' /\ HeldIsOwn'
    <2>1. CASE StartCampaign(c) /\ camp[c].st \in {"DRAFT", "SCHEDULED"}
      <3>1. \A e \in Drain : \A r \in held[e] : row'[r] = row[r]
        BY <1>0, <2>1 DEF HeldIsOwn, StartCampaign, Snapshot
      <3> QED
        BY <1>1, <1>5, <2>1, <3>1, BornByStart DEF StartDue
    <2>2. CASE UNCHANGED dbVars
      BY <1>2, <1>5, <2>2 DEF StartDue, dbVars
    <2>3. CASE camp' = (IF camp[c].st = "SCHEDULED"
                        THEN [camp EXCEPT ![c].st = "CANCELLED"] ELSE camp) /\ UNCHANGED row
      BY <1>0, <1>1, <1>5, <2>3 DEF StartDue
    <2> QED
      BY <1>5, <2>1, <2>2, <2>3 DEF StartDue
  <1>6. CASE Claim(d)
    <2>1. \A e \in Drain : \A r \in held[e] : row'[r] = row[r]
      BY <1>0, <1>6 DEF Claim, Claimable, HeldIsOwn
    <2> QED
      BY <1>1, <1>6, <2>1 DEF Claim
  <1>7. CASE Select(d)
    <2> DEFINE mine == {r \in Row : row[r].tok = d}
               live == {r \in mine : camp[r[1]].st = "SENDING"}
    <2>1. /\ held' = [held EXCEPT ![d] = live] /\ camp' = camp
          /\ \A r \in live : row'[r] = row[r]
          /\ \A r \in Row \ mine : row'[r] = row[r]
          /\ pc[d] = "select"
      BY <1>7 DEF Select
    <2>2. \A r \in mine : row[r].st = "SENDING"
      BY DEF ClaimIsKnown
    <2>3. \A e \in Drain : e # d => held[e] \cap mine = {}
      BY <2>2 DEF HeldIsOwn
    <2> HIDE DEF mine, live
    <2>4. live \subseteq mine /\ mine \subseteq Row /\ \A r \in mine : row[r].tok = d
      BY DEF mine, live
    <2>5. \A e \in Drain : e # d => held'[e] = held[e]
      BY <1>0, <2>1
    <2>6. \A e \in Drain : e # d => \A r \in held[e] : row'[r] = row[r]
      BY <1>0, <2>1, <2>3
    <2>7. OneHolder'
      BY <1>0, <2>1, <2>3, <2>4, <2>5 DEF OneHolder
    <2>8. HeldIsOwn'
      <3> SUFFICES ASSUME NEW e \in Drain, NEW r \in held'[e] PROVE HandStays(e, r)
        BY DEF HandStays, HeldIsOwn
      <3>1. CASE e = d
        BY <1>0, <2>1, <2>2, <2>4, <3>1 DEF HandStays
      <3>2. CASE e # d
        BY <2>1, <2>5, <2>6, <3>2 DEF HandStays, HeldIsOwn
      <3> QED
        BY <3>1, <3>2
    <2> QED
      BY <2>7, <2>8
  <1>8. ASSUME NEW c \in Campaign, CancelForTarget(d, c) PROVE OneHolder' /\ HeldIsOwn'
    BY <1>0, <1>1, <1>8, FreedRow DEF CancelForTarget, Skipped, RowStatus
  <1>9. ASSUME NEW c \in Campaign, CompleteIfDone(d, c) PROVE OneHolder' /\ HeldIsOwn'
    BY <1>0, <1>1, <1>9 DEF CompleteIfDone
  <1>10. CASE GiveBack(d)
    <2>1. \A e \in Drain : \A r \in held'[e] : r \notin Hand(d)
      BY <1>0, <1>10 DEF GiveBack, Hand, OneHolder
    <2>2. \A e \in Drain : held'[e] \subseteq held[e]
      BY <1>0, <1>10 DEF GiveBack
    <2>3. \A e \in Drain : \A r \in held'[e] : row'[r] = row[r]
      BY <1>0, <1>10, <2>1, <2>2 DEF GiveBack, Released
    <2> QED
      BY <1>1, <1>10, <2>2, <2>3 DEF GiveBack
  <1>11. ASSUME NEW r \in Row, row' = [row EXCEPT ![r] = row'[r]], r \in held[d],
                held' = [held EXCEPT ![d] = @ \ {r}], UNCHANGED camp
         PROVE  OneHolder' /\ HeldIsOwn'
    <2>1. \A e \in Drain : \A s \in held'[e] : s # r
      BY <1>0, <1>11 DEF OneHolder
    <2> QED
      BY <1>0, <1>1, <1>11, <2>1
  <1>12. ASSUME NEW r \in Row, Suppress(d, r) PROVE OneHolder' /\ HeldIsOwn'
    BY <1>0, <1>11, <1>12 DEF Suppress, Settled, Hand
  <1>13. ASSUME NEW r \in Row, HandOver(d, r) PROVE OneHolder' /\ HeldIsOwn'
    BY <1>2, <1>13 DEF HandOver, dbVars
  <1>14. ASSUME NEW r \in Row, Settle(d, r) PROVE OneHolder' /\ HeldIsOwn'
    BY <1>0, <1>11, <1>14 DEF Settle, HeldWhileSending
  <1>15. ASSUME held' = [held EXCEPT ![d] = {}], UNCHANGED camp,
                \A r \in Row : r \notin held[d] /\ row[r].tok # d => row'[r] = row[r],
                \A r \in Row : row[r].st = "ABSENT" => row'[r] = row[r]
         PROVE  OneHolder' /\ HeldIsOwn'
    <2>1. ASSUME NEW e \in Drain, NEW r \in held'[e] PROVE row'[r] = row[r]
      <3>1. e # d /\ r \in held[e] /\ r \notin held[d]
        BY <1>0, <1>15, <2>1 DEF OneHolder
      <3>2. row[r].tok # d
        BY <1>0, <3>1 DEF ClaimIsKnown, HeldIsOwn
      <3> QED
        BY <1>0, <1>15, <3>1, <3>2
    <2> QED
      BY <1>0, <1>1, <1>15, <2>1
  <1>16. ASSUME NEW r \in Row, Pause(d, r) PROVE OneHolder' /\ HeldIsOwn'
    <2> DEFINE rows == [Released(Hand(d) \ {r}) EXCEPT ![r] = Freed(row[r], "PENDING")]
    <2>1. /\ rows \in [Row -> RowRec]
          /\ r \in held[d] /\ row[r].st # "ABSENT"
      BY <1>16, ReleasedType, FreedRow
         DEF Pause, HeldWhileSending, TypeOK, StoreTypeOK, RowStatus
    <2>2. \A s \in Row : s \notin held[d] \/ row[s].st = "ABSENT" => rows[s] = row[s]
      BY <1>0, <2>1 DEF Released, Hand
    <2>3. row' = Abandoned(rows, d)
      BY <1>16 DEF Pause
    <2> HIDE DEF rows
    <2>4. \A s \in Row : rows[s].tok # d => row'[s] = rows[s]
      BY <2>1, <2>3 DEF Abandoned
    <2>5. \A s \in Row : row[s].st = "ABSENT" => row[s].tok # d
      BY DEF ClaimIsKnown
    <2> QED
      BY <1>15, <1>16, <2>2, <2>4, <2>5 DEF Pause
  <1>17. CASE Throw(d)
    <2>1. \A r \in Row : row[r].tok # d => row'[r] = row[r]
      BY <1>17 DEF Throw, Stop, Abandoned
    <2>2. \A r \in Row : row[r].st = "ABSENT" => row[r].tok # d
      BY DEF ClaimIsKnown
    <2> QED
      BY <1>15, <1>17, <2>1, <2>2 DEF Throw, Stop
  <1> QED
    BY <1>3, <1>4, <1>5, <1>6, <1>7, <1>8, <1>9, <1>10, <1>12, <1>13, <1>14, <1>16, <1>17
       DEF DrainStep, Quiet

LEMMA RunnerKeepsHands ==
    ASSUME TypeOK, ClaimInv, RunnerNext
    PROVE  OneHolder' /\ HeldIsOwn'
  <1> USE DEF ClaimInv
  <1>0. /\ row \in [Row -> RowRec] /\ held \in [Drain -> SUBSET Row]
    BY DEF TypeOK, StoreTypeOK, DrainTypeOK
  <1>1. ASSUME NEW d \in Drain, Quiet(d) PROVE OneHolder' /\ HeldIsOwn'
    BY <1>1, QuietSteps DEF OneHolder, HeldIsOwn
  <1>2. ASSUME NEW d \in Drain, Crash(d) PROVE OneHolder' /\ HeldIsOwn'
    <2>1. \A r \in Row : row[r].tok # d => row'[r] = row[r]
      BY <1>2 DEF Crash, Stop, Abandoned
    <2>2. /\ held' = [held EXCEPT ![d] = {}] /\ camp' = camp
      BY <1>2 DEF Crash, Stop
    <2>3. ASSUME NEW e \in Drain, NEW r \in held'[e] PROVE row'[r] = row[r]
      BY <1>0, <2>1, <2>2, <2>3 DEF OneHolder, ClaimIsKnown, HeldIsOwn
    <2> QED
      BY <1>0, <2>2, <2>3 DEF OneHolder, HeldIsOwn
  <1>3. ASSUME NEW r \in Row, LeaseEnds(r) \/ BackoffEnds(r) PROVE OneHolder' /\ HeldIsOwn'
    <2>1. \A s \in Row : row'[s].st = row[s].st /\ row'[s].tok = row[s].tok
      BY <1>0, <1>3 DEF LeaseEnds, BackoffEnds, RowRec
    <2>2. held' = held /\ camp' = camp
      BY <1>3 DEF LeaseEnds, BackoffEnds, drainVars
    <2> QED
      BY <1>0, <2>1, <2>2 DEF OneHolder, HeldIsOwn
  <1> QED
    BY <1>1, <1>2, <1>3, DrainKeepsHands DEF RunnerNext, Quiet

-----------------------------------------------------------------------------
(***************************************************************************)
(* Where no drain loses a claim, every row in hand is settled by the drain *)
(* that claimed it.                                                        *)
(***************************************************************************)
\* A row is left alone, freed of its claim, or claimed by a drain just now.
RowKept(r) ==
    \/ row'[r] = row[r]
    \/ ~row'[r].old /\ (row'[r].st = "SENDING" => row'[r].tok # Nobody)

\* What is written to a row carries a young claim, or none.
LEMMA FreedIsYoung ==
    ASSUME NEW x \in RowRec, NEW status \in RowStatus
    PROVE  ~Freed(x, status).old /\ Freed(x, status).st = status
  BY DEF Freed, RowRec

LEMMA TakenIsYoung ==
    ASSUME NEW x \in RowRec, NEW d \in Drain
    PROVE  ~Taken(x, d).old /\ Taken(x, d).st = "SENDING" /\ Taken(x, d).tok # Nobody
  BY StoreAssumption DEF Taken, RowRec

LEMMA SettlementIsYoung ==
    ASSUME StoreTypeOK, NEW r \in Row, NEW d \in Drain
    PROVE  ~Settlement(d, r).old
  <1>0. row[r] \in RowRec /\ row[r].due \in BOOLEAN /\ row[r].att + 1 \in Nat
        /\ {"SENT", "PENDING", "FAILED"} \subseteq RowStatus
    BY DEF StoreTypeOK, RowRec, RowStatus
  <1>1. ASSUME NEW status \in RowStatus, NEW due \in BOOLEAN
        PROVE  ~Charged(row[r], status, due).old
    <2>1. Freed(row[r], status) \in RowRec /\ ~Freed(row[r], status).old
      BY <1>0, FreedRow, FreedIsYoung
    <2> QED
      BY <2>1 DEF Charged, RowRec
  <1>2. ~Freed(row[r], "SENT").old
    BY <1>0, FreedIsYoung
  <1> QED
    BY <1>0, <1>1, <1>2 DEF Settlement

LEMMA DeskKeepsClaims ==
    ASSUME TypeOK, ClaimInv, ClaimsKept, LeasesLast, DeskNext \/ Surroundings, UNCHANGED drainVars
    PROVE  ClaimsKept'
  <1> USE DEF ClaimInv
  <1> DEFINE Ok == /\ \A r \in Row : RowKept(r)
                   /\ \A d \in Drain : \A r \in held[d] : row'[r] = row[r] \/ row'[r].st = "SKIPPED"
                   /\ \A c \in Campaign : camp'[c].st = "ABSENT" => camp[c].st = "ABSENT"
  <1>0. /\ camp \in [Campaign -> CampRec] /\ row \in [Row -> RowRec]
        /\ held \in [Drain -> SUBSET Row] /\ "SKIPPED" \in RowStatus
        /\ \A r \in Row : r[1] \in Campaign
        /\ \A d \in Drain : mem[d].todo \cup mem[d].touched \subseteq Campaign
    BY RowShape DEF TypeOK, StoreTypeOK, DrainTypeOK, Mem, RowStatus
  <1>1. \A d \in Drain : \A r \in held[d] : r \in Row /\ row[r].st \in {"SENDING", "SKIPPED"}
    BY <1>0 DEF ClaimsKept
  <1>2. ASSUME UNCHANGED row, \A c \in Campaign : camp'[c].st = "ABSENT" => camp[c].st = "ABSENT"
        PROVE  Ok
    BY <1>0, <1>2 DEF RowKept
  <1>3. ASSUME NEW p \in Admin, Write(p) PROVE Ok
    <2> PICK c \in Campaign :
             \/ QueueToWait(p, c) \/ QueueToSend(p, c) \/ Schedule(p, c)
             \/ Delete(p, c) \/ Cancel(p, c) \/ Retry(p, c) \/ Gone(p, c)
      BY <1>3 DEF Write
    <2>1. CASE QueueToWait(p, c) \/ Schedule(p, c) \/ Gone(p, c)
      BY <1>0, <1>2, <2>1 DEF QueueToWait, Schedule, Gone, dbVars
    <2>2. CASE QueueToSend(p, c)
      <3>1. CASE StartCampaign(c)
        <4>1. \A r \in Row : row'[r] = row[r] \/ (row[r].st = "ABSENT" /\ row'[r] = Fresh)
          BY <3>1 DEF StartCampaign, Snapshot
        <4>2. \A e \in Campaign : camp'[e].st = "ABSENT" => camp[e].st = "ABSENT"
          BY <1>0, <3>1 DEF StartCampaign
        <4> QED
          BY <1>1, <4>1, <4>2, FreshRow DEF RowKept, Fresh, NoRow
      <3>2. CASE UNCHANGED dbVars
        BY <1>2, <3>2 DEF dbVars
      <3> QED
        BY <2>2, <3>1, <3>2 DEF QueueToSend
    <2>3. ~Delete(p, c)
      BY DEF Delete, Asked, About, TypeOK, DeskTypeOK, Request, LeasesLast
    <2>4. CASE Cancel(p, c)
      <3>1. \A r \in Row : row'[r] = row[r] \/ row'[r] = Freed(row[r], "SKIPPED")
        BY <2>4 DEF Cancel, Skipped
      <3>2. \A r \in Row : RowKept(r) /\ (row'[r] = row[r] \/ row'[r].st = "SKIPPED")
        BY <1>0, <3>1, FreedIsYoung DEF RowKept
      <3> QED
        BY <1>0, <1>1, <2>4, <3>2 DEF Cancel
    <2>5. CASE Retry(p, c)
      <3>1. \A r \in Row : row'[r] = row[r] \/ (row[r].st = "FAILED" /\ row'[r] = Fresh)
        BY <2>5 DEF Retry
      <3>2. \A e \in Campaign : camp'[e].st = "ABSENT" => camp[e].st = "ABSENT"
        BY <1>0, <2>5 DEF Retry
      <3> QED
        BY <1>1, <3>1, <3>2, FreshRow DEF RowKept, Fresh, NoRow
    <2> QED
      BY <2>1, <2>2, <2>3, <2>4, <2>5
  <1>4. ASSUME NEW c \in Campaign, SendDirect(c) PROVE Ok
    <2>1. \A r \in Row : row'[r] = row[r] \/ (row[r].st = "ABSENT" /\ row'[r] = Fresh)
      BY <1>4 DEF SendDirect, NoOrphans
    <2>2. \A e \in Campaign : camp'[e].st = "ABSENT" => camp[e].st = "ABSENT"
      BY <1>0, <1>4 DEF SendDirect
    <2> QED
      BY <1>1, <2>1, <2>2, FreshRow DEF RowKept, Fresh, NoRow
  <1>5. ASSUME NEW c \in Campaign, Purge(c) PROVE Ok
    <2>1. \A r \in Row : row'[r] = row[r] \/ (r[1] = c /\ row'[r] = NoRow)
      BY <1>5 DEF Purge
    <2>2. \A d \in Drain : \A r \in held[d] : r[1] # c
      BY <1>5 DEF Purge, CampaignsOf
    <2> QED
      BY <1>1, <1>5, <2>1, <2>2, FreshRow DEF Purge, RowKept, NoRow
  <1>6. ASSUME NEW c \in Campaign, Unschedule(c) \/ ClockReaches(c) PROVE Ok
    BY <1>0, <1>2, <1>6 DEF Unschedule, ClockReaches, CampRec
  <1>7. Ok
    BY <1>2, <1>3, <1>4, <1>5, <1>6
       DEF DeskNext, Surroundings, Check, Toggle, OptOut, TargetMoves, dbVars
  <1>8. off' = {}
    <2>1. \A s \in Switch : ~Toggle(s)
      BY DEF Toggle, Switch, LeasesLast
    <2> QED
      BY <2>1 DEF DeskNext, Surroundings, Check, Write, Unschedule, SendDirect, OptOut, TargetMoves,
                  ClockReaches, Purge, envVars, ClaimsKept
  <1> HIDE DEF Ok
  <1>9. /\ \A r \in Row : ~row'[r].old /\ (row'[r].st = "SENDING" => row'[r].tok # Nobody)
        /\ \A d \in Drain : \A r \in held[d] : row'[r].st \in {"SENDING", "SKIPPED"}
    BY <1>1, <1>7 DEF Ok, RowKept, ClaimsKept
  <1>10. \A d \in Drain : \A c \in mem[d].todo \cup mem[d].touched : camp'[c].st # "ABSENT"
    BY <1>0, <1>7 DEF Ok, ClaimsKept
  <1> QED
    BY <1>8, <1>9, <1>10 DEF ClaimsKept, drainVars

\* Nothing makes a drain stop in the middle of its work, or pause it.
LEMMA NothingIsLost ==
    ASSUME TypeOK, ClaimInv, ClaimsKept, LeasesLast, NEW d \in Drain
    PROVE  /\ ~Crash(d) /\ ~Throw(d) /\ ~ExpireLeases(d)
           /\ \A r \in Row : ~Pause(d, r) /\ ~LeaseEnds(r)
  <1> USE DEF ClaimInv, ClaimsKept
  <1>0. held \in [Drain -> SUBSET Row] /\ row \in [Row -> RowRec] /\ \A r \in Row : r[1] \in Campaign
    BY RowShape DEF TypeOK, StoreTypeOK, DrainTypeOK
  <1>1. ~Crash(d) /\ ~ExpireLeases(d) /\ \A r \in Row : ~Pause(d, r)
    BY DEF Crash, ExpireLeases, Pause, LeasesLast
  <1>2. \A r \in Row : ~LeaseEnds(r)
    BY DEF LeaseEnds, LeasesLast
  <1>3. \A r \in held[d] : r \in Row /\ row[r].st # "ABSENT" /\ camp[r[1]].st # "ABSENT"
    BY <1>0 DEF NoOrphans
  <1>4. \A c \in mem[d].todo : camp[c].st # "ABSENT"
    OBVIOUS
  <1>5. ~Throw(d)
    BY <1>3, <1>4 DEF Throw, CampaignsOf, Hand, HeldWhileSending
  <1> QED
    BY <1>1, <1>2, <1>5

LEMMA QuietKeepsClaims ==
    ASSUME TypeOK, ClaimsKept, NEW d \in Drain, Quiet(d)
    PROVE  ClaimsKept'
  <1> USE DEF ClaimsKept
  <1>0. /\ mem \in [Drain -> Mem] /\ pc \in [Drain -> Phase] /\ camp \in [Campaign -> CampRec]
    BY DEF TypeOK, StoreTypeOK, DrainTypeOK
  <1>1. UNCHANGED <<camp, row, held>>
    BY QuietSteps
  <1>2. off' = off
    BY DEF Quiet, CronTick, Gate, NothingToClaim, BatchDone, CampaignDone, Return, BudgetEnds, Kick,
           OpenSession, Begin, storeVars, envVars
  <1>3. ASSUME pc'[d] # "expire", \A e \in Drain : e # d => mem'[e] = mem[e] /\ pc'[e] = pc[e],
               mem'[d].on, mem'[d].res # "SUPPRESSED",
               \A c \in mem'[d].todo \cup mem'[d].touched : camp[c].st # "ABSENT"
        PROVE  ClaimsKept'
    BY <1>1, <1>2, <1>3
  <1>4. ASSUME NEW scope, Begin(d, scope) PROVE ClaimsKept'
    <2>1. {r \in Row : row[r].st = "SENDING" /\ row[r].old} = {}
      OBVIOUS
    <2>2. /\ mem'[d].on /\ mem'[d].res = "none" /\ mem'[d].todo = {} /\ mem'[d].touched = {}
          /\ pc'[d] = "gate"
      BY <1>0, <1>4, <2>1 DEF Begin, Goto, Blank, CampaignsOf
    <2> QED
      BY <1>0, <1>3, <1>4, <2>2 DEF Begin, Goto
  <1>5. CASE CronTick(d) \/ \E c \in Campaign : Kick(d, c)
    BY <1>4, <1>5 DEF CronTick, Kick
  <1>6. CASE Gate(d)
    <2> DEFINE due == {c \in Campaign : camp[c].st = "SCHEDULED" /\ camp[c].due}
    <2>0. \/ mem' = mem
          \/ \E S : /\ S = mem[d].touched \/ S \subseteq due
                    /\ mem' = [mem EXCEPT ![d] = [mem[d] EXCEPT !.todo = S]]
      BY <1>6 DEF Gate
    <2>1. /\ mem'[d].on /\ mem'[d].res # "SUPPRESSED" /\ mem'[d].touched = mem[d].touched
          /\ \/ mem'[d].todo \in {mem[d].todo, mem[d].touched}
             \/ mem'[d].todo \subseteq due
      BY <1>0, <2>0 DEF Mem
    <2>2. pc'[d] \in {"close", "claim", "due"} /\ \A e \in Drain : e # d => mem'[e] = mem[e] /\ pc'[e] = pc[e]
      BY <1>0, <1>6 DEF Gate, Goto
    <2> QED
      BY <1>3, <2>1, <2>2
  <1>7. CASE NothingToClaim(d)
    BY <1>0, <1>3, <1>7 DEF NothingToClaim, Closing, Sending, Blank, Goto
  <1>8. CASE BatchDone(d)
    BY <1>0, <1>3, <1>8 DEF BatchDone, Goto
  <1>9. CASE CampaignDone(d)
    <2>1. /\ mem' = [mem EXCEPT ![d] = [mem[d] EXCEPT !.focus = {}, !.seen = {}, !.on = TRUE]]
          /\ pc' = [pc EXCEPT ![d] = "batch"]
      BY <1>9 DEF CampaignDone, Goto
    <2>2. mem'[d].on /\ mem'[d].res = mem[d].res /\ mem'[d].todo = mem[d].todo
          /\ mem'[d].touched = mem[d].touched
      BY <1>0, <2>1 DEF Mem
    <2> QED
      BY <1>0, <1>3, <2>1, <2>2
  <1>10. CASE Return(d)
    BY <1>0, <1>3, <1>10 DEF Return, Goto, Blank
  <1>11. CASE BudgetEnds(d)
    BY <1>0, <1>3, <1>11 DEF BudgetEnds, Mem
  <1>12. ASSUME NEW c \in Campaign, OpenSession(d, c) PROVE ClaimsKept'
    <2>1. /\ mem' = [mem EXCEPT ![d] = [mem[d] EXCEPT !.focus = {c}, !.touched = mem[d].touched \cup {c},
                                                      !.seen = suppressed, !.on = Deliverable(c)]]
          /\ pc' = [pc EXCEPT ![d] = "send"] /\ camp[c].st # "ABSENT"
      BY <1>12 DEF OpenSession, Goto
    <2>2. Deliverable(c)
      BY DEF Deliverable
    <2>3. mem'[d].on /\ mem'[d].res = mem[d].res /\ mem'[d].todo = mem[d].todo
          /\ mem'[d].touched = mem[d].touched \cup {c}
      BY <1>0, <2>1, <2>2 DEF Mem
    <2> QED
      BY <1>0, <1>3, <2>1, <2>3
  <1> QED
    BY <1>5, <1>6, <1>7, <1>8, <1>9, <1>10, <1>11, <1>12 DEF Quiet

LEMMA DrainKeepsClaims ==
    ASSUME TypeOK, ClaimInv, ClaimsKept, LeasesLast, NEW d \in Drain, DrainStep(d)
    PROVE  ClaimsKept'
  <1> USE DEF ClaimInv
  <1>0. /\ camp \in [Campaign -> CampRec] /\ row \in [Row -> RowRec]
        /\ held \in [Drain -> SUBSET Row] /\ pc \in [Drain -> Phase] /\ mem \in [Drain -> Mem]
        /\ mem[d] \in Mem /\ mem[d].todo \cup mem[d].touched \subseteq Campaign
        /\ \A e \in Drain : mem[e].todo \cup mem[e].touched \subseteq Campaign
        /\ \A r \in Row : r[1] \in Campaign
    BY RowShape DEF TypeOK, StoreTypeOK, DrainTypeOK, Mem
  <1>1. \A e \in Drain : \A r \in held[e] : r \in Row /\ row[r].st \in {"SENDING", "SKIPPED"}
    BY <1>0 DEF ClaimsKept
  <1>2. ASSUME off' = off, \A r \in Row : RowKept(r),
               \A e \in Drain : \A r \in held'[e] :
                  \/ r \in held[e] /\ row'[r] = row[r]
                  \/ row'[r].st \in {"SENDING", "SKIPPED"},
               \A c \in Campaign : camp'[c].st = "ABSENT" => camp[c].st = "ABSENT",
               \A e \in Drain : e # d => mem'[e] = mem[e] /\ pc'[e] = pc[e],
               pc'[d] # "expire", mem'[d].on, mem'[d].res # "SUPPRESSED",
               \A c \in mem'[d].todo \cup mem'[d].touched :
                  c \in Campaign /\ (c \in mem[d].todo \cup mem[d].touched \/ camp[c].st # "ABSENT")
        PROVE  ClaimsKept'
    <2>1. \A e \in Drain : \A c \in mem'[e].todo \cup mem'[e].touched : camp'[c].st # "ABSENT"
      BY <1>0, <1>2 DEF ClaimsKept
    <2>2. \A e \in Drain : \A r \in held'[e] : row'[r].st \in {"SENDING", "SKIPPED"}
      BY <1>1, <1>2
    <2>3. \A r \in Row : ~row'[r].old /\ (row'[r].st = "SENDING" => row'[r].tok # Nobody)
      BY <1>2 DEF RowKept, ClaimsKept
    <2>4. \A e \in Drain : pc'[e] # "expire" /\ mem'[e].on /\ mem'[e].res # "SUPPRESSED"
      BY <1>2 DEF ClaimsKept
    <2> QED
      BY <1>2, <2>1, <2>2, <2>3, <2>4 DEF ClaimsKept
  <1>3. CASE Quiet(d)
    BY <1>3, QuietKeepsClaims
  <1>4. ~Throw(d) /\ ~ExpireLeases(d) /\ \A r \in Row : ~Pause(d, r)
    BY NothingIsLost
  <1>m. /\ mem[d].on /\ mem[d].res # "SUPPRESSED" /\ pc[d] # "expire"
        /\ \A c \in mem[d].todo \cup mem[d].touched : camp[c].st # "ABSENT"
    BY DEF ClaimsKept
  <1>5. ASSUME NEW c \in Campaign, StartDue(d, c) PROVE ClaimsKept'
    <2>1. /\ mem' = [mem EXCEPT ![d].todo = @ \ {c}] /\ off' = off /\ held' = held
          /\ pc'[d] # "expire" /\ \A e \in Drain : e # d => pc'[e] = pc[e]
      BY <1>0, <1>5 DEF StartDue, Goto, envVars
    <2>2. mem'[d].on /\ mem'[d].res = mem[d].res /\ mem'[d].todo \subseteq mem[d].todo
          /\ mem'[d].touched = mem[d].touched
      BY <1>0, <1>m, <2>1 DEF Mem
    <2>s. \/ StartCampaign(c)
          \/ row' = row /\ camp' \in {camp, [camp EXCEPT ![c].st = "CANCELLED"]}
      BY <1>5 DEF StartDue, dbVars
    <2>3. \A r \in Row : row'[r] = row[r] \/ (row[r].st = "ABSENT" /\ row'[r] = Fresh)
      BY <2>s DEF StartCampaign, Snapshot
    <2>4. \A e \in Campaign : camp'[e].st = "ABSENT" => camp[e].st = "ABSENT"
      <3>1. \E status \in {"SENT", "SENDING", "CANCELLED"} :
               camp' \in {camp, [camp EXCEPT ![c].st = status]}
        BY <2>s DEF StartCampaign
      <3> PICK status \in {"SENT", "SENDING", "CANCELLED"} :
               camp' \in {camp, [camp EXCEPT ![c].st = status]}
        BY <3>1
      <3>2. CASE camp' = camp
        BY <3>2
      <3>3. CASE camp' = [camp EXCEPT ![c].st = status]
        BY <1>0, <3>3 DEF CampRec
      <3> QED
        BY <3>2, <3>3
    <2>5. \A r \in Row : RowKept(r)
      BY <2>3, FreshRow DEF RowKept, Fresh, NoRow
    <2>6. \A e \in Drain : \A r \in held'[e] : r \in held[e] /\ row'[r] = row[r]
      BY <1>1, <2>1, <2>3
    <2> QED
      BY <1>0, <1>2, <1>m, <2>1, <2>2, <2>4, <2>5, <2>6
  <1>6. CASE Claim(d)
    <2> PICK S \in SUBSET Claimable(d) :
            row' = [r \in Row |-> IF r \in S THEN Taken(row[r], d) ELSE row[r]]
      BY <1>6 DEF Claim
    <2>1. \A r \in S : /\ r \in Row /\ row[r].st = "PENDING"
                       /\ ~row'[r].old /\ row'[r].st = "SENDING" /\ row'[r].tok # Nobody
      BY <1>0, TakenIsYoung DEF Claimable
    <2>2. \A r \in Row : RowKept(r)
      BY <2>1 DEF RowKept
    <2>3. \A e \in Drain : \A r \in held[e] : row'[r] = row[r]
      BY <1>1, <2>1
    <2>4. UNCHANGED <<off, camp, mem, held>> /\ pc' = [pc EXCEPT ![d] = "select"]
      BY <1>6 DEF Claim, Goto, envVars
    <2> QED
      BY <1>0, <1>2, <1>m, <2>2, <2>3, <2>4
  <1>7. CASE Select(d)
    <2> DEFINE mine == {r \in Row : row[r].tok = d}
               live == {r \in mine : camp[r[1]].st = "SENDING"}
    <2>1. /\ row' = [r \in Row |-> IF r \in mine \ live THEN Freed(row[r], "SKIPPED") ELSE row[r]]
          /\ held' = [held EXCEPT ![d] = live] /\ UNCHANGED <<off, camp>>
          /\ \/ Closing(d, mem[d].touched)
             \/ Goto(d, "batch") /\ UNCHANGED mem
      BY <1>7 DEF Select, envVars
    <2>2. \A r \in mine : r \in Row /\ row[r].st = "SENDING"
      BY DEF ClaimIsKnown
    <2> HIDE DEF mine, live
    <2>3. \A r \in Row : \/ row'[r] = row[r]
                         \/ r \notin live /\ row'[r].st = "SKIPPED" /\ ~row'[r].old
      BY <1>0, <2>1, FreedIsYoung DEF RowStatus
    <2>4. \A r \in Row : RowKept(r)
      BY <2>3 DEF RowKept
    <2>5. ASSUME NEW e \in Drain, NEW r \in held'[e] PROVE row'[r].st \in {"SENDING", "SKIPPED"}
      <3>1. CASE e = d
        <4>1. r \in live /\ r \in mine
          BY <1>0, <2>1, <2>5, <3>1 DEF live
        <4> QED
          BY <2>2, <2>3, <4>1
      <3>2. CASE e # d
        BY <1>0, <1>1, <2>1, <2>3, <2>5, <3>2
      <3> QED
        BY <3>1, <3>2
    <2>6. CASE Closing(d, mem[d].touched)
      <3>1. /\ mem' = [mem EXCEPT ![d] = [Blank EXCEPT !.todo = mem[d].touched \cup Sending]]
            /\ pc' = [pc EXCEPT ![d] = "close"]
        BY <2>6 DEF Closing, Goto
      <3>2. /\ mem'[d].on /\ mem'[d].res = "none" /\ mem'[d].touched = {}
            /\ mem'[d].todo = mem[d].touched \cup Sending
        BY <1>0, <3>1 DEF Blank
      <3> QED
        BY <1>0, <1>2, <2>1, <2>4, <2>5, <3>1, <3>2 DEF Sending
    <2>7. CASE Goto(d, "batch") /\ UNCHANGED mem
      BY <1>0, <1>2, <1>m, <2>1, <2>4, <2>5, <2>7 DEF Goto
    <2> QED
      BY <2>1, <2>6, <2>7
  <1>8. CASE GiveBack(d)
    <2>1. \A r \in Row : row'[r] = row[r] \/ (r \in Hand(d) /\ row'[r] = Freed(row[r], "PENDING"))
      BY <1>8 DEF GiveBack, Released
    <2>2. \A r \in Row : RowKept(r)
      BY <1>0, <2>1, FreedIsYoung DEF RowKept, RowStatus
    <2>3. \A e \in Drain : \A r \in held'[e] : r \in held[e] /\ r \notin Hand(d)
      BY <1>0, <1>8 DEF GiveBack, Hand, OneHolder
    <2> QED
      BY <1>0, <1>1, <1>2, <1>m, <1>8, <2>1, <2>2, <2>3 DEF GiveBack, envVars
  <1>9. ASSUME NEW c \in Campaign, CancelForTarget(d, c) PROVE ClaimsKept'
    <2>1. \A r \in Row : row'[r] = row[r] \/ row'[r] = Freed(row[r], "SKIPPED")
      BY <1>9 DEF CancelForTarget, Skipped
    <2>2. \A r \in Row : RowKept(r) /\ (row'[r] = row[r] \/ row'[r].st = "SKIPPED")
      BY <1>0, <2>1, FreedIsYoung DEF RowKept, RowStatus
    <2>3. \A e \in Drain : held'[e] \subseteq held[e]
      BY <1>0, <1>9 DEF CancelForTarget
    <2>4. /\ \A e \in Campaign : camp'[e].st = "ABSENT" => camp[e].st = "ABSENT"
          /\ off' = off /\ pc' = pc /\ mem' = [mem EXCEPT ![d].touched = @ \cup {c}]
          /\ camp[c].st # "ABSENT"
      BY <1>0, <1>9 DEF CancelForTarget, envVars
    <2>5. mem'[d].on /\ mem'[d].res = mem[d].res /\ mem'[d].todo = mem[d].todo
          /\ mem'[d].touched = mem[d].touched \cup {c}
      BY <1>0, <1>m, <2>4 DEF Mem
    <2> QED
      BY <1>0, <1>1, <1>2, <1>m, <2>2, <2>3, <2>4, <2>5
  <1>10. ASSUME NEW c \in Campaign, CompleteIfDone(d, c) PROVE ClaimsKept'
    <2>1. /\ \A e \in Campaign : camp'[e].st = "ABSENT" => camp[e].st = "ABSENT"
          /\ UNCHANGED <<row, off, pc, held>> /\ mem' = [mem EXCEPT ![d].todo = @ \ {c}]
      BY <1>0, <1>10 DEF CompleteIfDone, envVars
    <2>2. mem'[d].on /\ mem'[d].res = mem[d].res /\ mem'[d].todo \subseteq mem[d].todo
          /\ mem'[d].touched = mem[d].touched
      BY <1>0, <1>m, <2>1 DEF Mem
    <2> QED
      BY <1>0, <1>1, <1>2, <1>m, <2>1, <2>2 DEF RowKept
  <1>11. ASSUME NEW r \in Row, r \in held[d], held' = [held EXCEPT ![d] = @ \ {r}],
                row' = [row EXCEPT ![r] = row'[r]], RowKept(r), UNCHANGED <<camp, off>>,
                \A e \in Drain : e # d => mem'[e] = mem[e] /\ pc'[e] = pc[e],
                pc'[d] # "expire", mem'[d].on, mem'[d].res # "SUPPRESSED",
                mem'[d].todo = mem[d].todo, mem'[d].touched = mem[d].touched
         PROVE  ClaimsKept'
    <2>1. \A e \in Drain : \A s \in held'[e] : s \in held[e] /\ s # r
      BY <1>0, <1>11 DEF OneHolder
    <2>2. \A s \in Row : s # r => row'[s] = row[s]
      BY <1>0, <1>11
    <2>3. \A s \in Row : RowKept(s)
      BY <1>11, <2>2 DEF RowKept
    <2> QED
      BY <1>0, <1>1, <1>2, <1>11, <2>1, <2>2, <2>3
  <1>12. ASSUME NEW r \in Row, Suppress(d, r) PROVE ClaimsKept'
    <2>1. row'[r] = Freed(row[r], "SUPPRESSED") /\ row' = [row EXCEPT ![r] = row'[r]]
      BY <1>0, <1>12 DEF Suppress, Settled
    <2>2. RowKept(r)
      BY <1>0, <2>1, FreedIsYoung DEF RowKept, RowStatus
    <2> QED
      BY <1>0, <1>11, <1>m, <1>12, <2>1, <2>2 DEF Suppress, Hand, envVars
  <1>13. ASSUME NEW r \in Row, HandOver(d, r) PROVE ClaimsKept'
    <2> PICK answer \in Answers(d) : mem' = [mem EXCEPT ![d].res = answer.res]
      BY <1>13 DEF HandOver
    <2>1. answer.res # "SUPPRESSED"
      BY <1>m DEF Answers, Answer
    <2>2. mem'[d].on /\ mem'[d].res # "SUPPRESSED" /\ mem'[d].todo = mem[d].todo
          /\ mem'[d].touched = mem[d].touched
      BY <1>0, <1>m, <2>1 DEF Mem
    <2>3. UNCHANGED <<row, camp, off, held>> /\ pc' = [pc EXCEPT ![d] = "settle"]
      BY <1>13 DEF HandOver, Goto, dbVars, envVars
    <2> QED
      BY <1>0, <1>1, <1>2, <1>m, <2>2, <2>3 DEF RowKept
  <1>14. ASSUME NEW r \in Row, Settle(d, r) PROVE ClaimsKept'
    <2>1. /\ row'[r] = Settlement(d, r) /\ row' = [row EXCEPT ![r] = row'[r]]
          /\ mem' = [mem EXCEPT ![d].res = "none"] /\ pc' = [pc EXCEPT ![d] = "send"]
          /\ held' = [held EXCEPT ![d] = @ \ {r}] /\ UNCHANGED <<camp, off>> /\ r \in held[d]
      BY <1>0, <1>14 DEF Settle, Goto, envVars, HeldWhileSending
    <2>2. Settlement(d, r).st # "SENDING" /\ ~Settlement(d, r).old
      BY SettlementRow, SettlementIsYoung DEF TypeOK
    <2>3. RowKept(r)
      BY <2>1, <2>2 DEF RowKept
    <2>4. mem'[d].on /\ mem'[d].res # "SUPPRESSED" /\ mem'[d].todo = mem[d].todo
          /\ mem'[d].touched = mem[d].touched
      BY <1>0, <1>m, <2>1 DEF Mem
    <2> QED
      BY <1>0, <1>11, <2>1, <2>3, <2>4
  <1> QED
    BY <1>3, <1>4, <1>5, <1>6, <1>7, <1>8, <1>9, <1>10, <1>12, <1>13, <1>14 DEF DrainStep, Quiet

LEMMA ClaimsKeptStep ==
    ASSUME TypeOK, ClaimInv, ClaimsKept, LeasesLast, [Next]_vars
    PROVE  ClaimsKept'
  <1>0. row \in [Row -> RowRec]
    BY DEF TypeOK, StoreTypeOK
  <1>1. ASSUME NEW r \in Row, BackoffEnds(r) PROVE ClaimsKept'
    <2>1. \A s \in Row : row'[s].st = row[s].st /\ row'[s].old = row[s].old /\ row'[s].tok = row[s].tok
      BY <1>0, <1>1 DEF BackoffEnds, RowRec
    <2>2. UNCHANGED <<camp, off, pc, held, mem>>
      BY <1>1 DEF BackoffEnds, envVars, drainVars
    <2>3. held \in [Drain -> SUBSET Row]
      BY DEF TypeOK, DrainTypeOK
    <2> QED
      BY <2>1, <2>2, <2>3 DEF ClaimsKept
  <1>2. ASSUME NEW r \in Row, LeaseEnds(r) PROVE ClaimsKept'
    BY <1>2 DEF LeaseEnds, LeasesLast, ClaimsKept
  <1>3. CASE RunnerNext
    BY <1>1, <1>2, <1>3, QuietKeepsClaims, DrainKeepsClaims, NothingIsLost DEF RunnerNext, Quiet
  <1>4. CASE UNCHANGED vars
    BY <1>4 DEF vars, storeVars, drainVars, ClaimsKept
  <1> QED
    BY <1>3, <1>4, DeskKeepsClaims DEF Next

-----------------------------------------------------------------------------
\* As long as nobody retries failed recipients, or no drain loses a claim, every
\* row in a drain's hand is in one hand only and every claim in the table has a
\* drain that knows of it, whatever crashes, leases, cancels, deletes and switches
\* do in between.
THEOREM Claims ==
    ASSUME RetryIsSafe
    PROVE  Spec => [](ClaimInv /\ (LeasesLast => ClaimsKept))
  <1>1. Init => ClaimInv /\ ClaimsKept
    BY StoreAssumption, FreshRow
       DEF Init, StoreInit, DeskInit, DrainInit, ClaimInv, OneHolder, ClaimIsKnown, HeldIsOwn,
           HeldWhileSending, NoOrphans, Asked, About, ClaimsKept, Blank, NoRow
  <1>2. TypeOK /\ (ClaimInv /\ (LeasesLast => ClaimsKept)) /\ [Next]_vars
            => (ClaimInv /\ (LeasesLast => ClaimsKept))'
    <2> SUFFICES ASSUME TypeOK, ClaimInv, LeasesLast => ClaimsKept, [Next]_vars
                 PROVE  ClaimInv' /\ (LeasesLast => ClaimsKept')
      OBVIOUS
    <2>1. ClaimIsKnown' /\ HeldWhileSending' /\ NoOrphans'
      BY KnownStep, PhasesStep, OrphansStep DEF ClaimInv
    <2>2. OneHolder' /\ HeldIsOwn'
      <3>1. CASE UNCHANGED vars
        BY <3>1 DEF ClaimInv, vars, storeVars, drainVars, OneHolder, HeldIsOwn
      <3> QED
        BY <3>1, DeskKeepsHands, RunnerKeepsHands, SurroundingsKeepHands DEF Next, RetryIsSafe
    <2>3. LeasesLast => ClaimsKept'
      BY ClaimsKeptStep
    <2> QED
      BY <2>1, <2>2, <2>3 DEF ClaimInv
  <1> QED
    BY <1>1, <1>2, Typing, PTL DEF Spec

\* Two drains never have the same row in hand (claimRecipients' guarded UPDATE).
COROLLARY OneHolderAlways ==
    ASSUME RetryIsSafe
    PROVE  Spec => []OneHolder
  <1>1. ClaimInv => OneHolder
    BY DEF ClaimInv
  <1> QED
    BY <1>1, Claims, PTL

-----------------------------------------------------------------------------
(***************************************************************************)
(* A row that is gone after its message went out is not listed again.      *)
(***************************************************************************)
\* A campaign that was started or deleted is never a draft again, and no
\* request is about to make it one.
PastStays(c) ==
    /\ camp[c].st = "ABSENT" /\ Kind[c] # "DIRECT" => camp'[c].st = "ABSENT"
    /\ \/ camp[c].st \notin {"SENDING", "SENT", "CANCELLED"}
       \/ \E p \in Admin : \E op \in {"queue", "schedule"} : Asked(p, op, c)
       \/ /\ \/ camp'[c].st \in {"SENDING", "SENT", "CANCELLED"}
             \/ camp'[c].st = "ABSENT" /\ Kind[c] # "DIRECT"
          /\ \A p \in Admin : \A op \in {"queue", "schedule"} : ~Asked(p, op, c)'

LEMMA GoneStays ==
    ASSUME TypeOK, GoneForGood, \A c \in Campaign : PastStays(c),
           \A r \in Row : row'[r].st = "ABSENT" /\ HandedOver(r)' =>
               \/ row[r].st = "ABSENT" /\ HandedOver(r)
               \/ camp'[r[1]].st = "ABSENT" /\ Kind[r[1]] # "DIRECT"
    PROVE  GoneForGood'
  BY RowShape DEF GoneForGood, PastStays

LEMMA CampsThatStay ==
    ASSUME TypeOK, UNCHANGED ask, NEW c \in Campaign,
           \/ camp'[c].st = camp[c].st
           \/ /\ camp[c].st # "ABSENT"
              /\ camp'[c].st \in {"SENDING", "SENT", "CANCELLED"}
           \/ camp[c].st \notin {"ABSENT", "SENDING", "SENT", "CANCELLED"}
    PROVE  PastStays(c)
  BY DEF PastStays, Asked, About

\* Writing a request down makes no draft of a campaign that is past being one,
\* unless it is a request to queue or to schedule that campaign.
LEMMA WritesRespectThePast ==
    ASSUME TypeOK, ClaimInv, NEW p \in Admin, Write(p), NEW e \in Campaign
    PROVE  PastStays(e)
  <1>0. /\ camp \in [Campaign -> CampRec] /\ ask \in [Admin -> Request \cup {Idle}]
    BY DEF TypeOK, StoreTypeOK, DeskTypeOK
  <1>1. \A q \in Admin, op \in {"queue", "schedule"} : Asked(q, op, e)' => Asked(q, op, e)
    BY <1>0 DEF Write, Done, Asked, About, Idle
  <1>2. ASSUME camp'[e].st = camp[e].st PROVE PastStays(e)
    BY <1>1, <1>2 DEF PastStays
  <1> PICK c \in Campaign :
           \/ QueueToWait(p, c) \/ QueueToSend(p, c) \/ Schedule(p, c)
           \/ Delete(p, c) \/ Cancel(p, c) \/ Retry(p, c) \/ Gone(p, c)
    BY DEF Write
  <1>3. CASE QueueToWait(p, c) \/ Schedule(p, c)
    <2>1. CASE e = c
      <3>1. \E op \in {"queue", "schedule"} : Asked(p, op, e)
        BY <1>3, <2>1 DEF QueueToWait, Schedule
      <3> QED
        BY <1>3, <2>1, <3>1 DEF PastStays, QueueToWait, Schedule
    <2>2. CASE e # c
      BY <1>0, <1>2, <1>3, <2>2 DEF QueueToWait, Schedule
    <2> QED
      BY <2>1, <2>2
  <1>4. CASE QueueToSend(p, c)
    <2>1. CASE camp[c].st \in {"DRAFT", "SCHEDULED"}
      BY <1>1, <1>2, <1>4, <2>1, BornByStart DEF QueueToSend, PastStays, ClaimInv
    <2>2. CASE UNCHANGED dbVars
      BY <1>2, <2>2 DEF dbVars
    <2> QED
      BY <1>4, <2>1, <2>2 DEF QueueToSend
  <1>5. CASE Delete(p, c)
    <2>1. Kind[c] # "DIRECT"
      BY <1>5 DEF Delete, ClaimInv, NoOrphans
    <2> QED
      BY <1>0, <1>1, <1>2, <1>5, <2>1 DEF Delete, PastStays
  <1>6. CASE Cancel(p, c)
    BY <1>0, <1>1, <1>2, <1>6 DEF Cancel, PastStays
  <1>7. CASE Retry(p, c)
    BY <1>0, <1>1, <1>2, <1>7 DEF Retry, PastStays
  <1>8. CASE Gone(p, c)
    BY <1>2, <1>8 DEF Gone, dbVars
  <1> QED
    BY <1>3, <1>4, <1>5, <1>6, <1>7, <1>8

\* Every step of the runners and of the surroundings leaves a campaign where it
\* is, moves a waiting one on, or finishes one.
LEMMA RunnersRespectThePast ==
    ASSUME TypeOK, UNCHANGED ask, NEW e \in Campaign,
           RunnerNext \/ Surroundings
    PROVE  PastStays(e)
  <1>0. camp \in [Campaign -> CampRec]
    BY DEF TypeOK, StoreTypeOK
  <1>1. ASSUME UNCHANGED camp PROVE PastStays(e)
    BY <1>1, CampsThatStay
  <1>2. ASSUME NEW d \in Drain, NEW c \in Campaign, StartDue(d, c) PROVE PastStays(e)
    <2>1. CASE StartCampaign(c) /\ camp[c].st \in {"DRAFT", "SCHEDULED"}
      <3>1. e # c => camp'[e] = camp[e]
        BY <2>1 DEF StartCampaign, TypeOK, StoreTypeOK
      <3> QED
        BY <2>1, <3>1, CampsThatStay
    <2>2. CASE UNCHANGED dbVars
      BY <1>1, <2>2 DEF dbVars
    <2>3. CASE camp' = (IF camp[c].st = "SCHEDULED"
                        THEN [camp EXCEPT ![c].st = "CANCELLED"] ELSE camp)
      BY <1>0, <2>3, CampsThatStay
    <2> QED
      BY <1>2, <2>1, <2>2, <2>3 DEF StartDue
  <1>3. ASSUME NEW d \in Drain, NEW c \in Campaign, CancelForTarget(d, c) PROVE PastStays(e)
    BY <1>0, <1>3, CampsThatStay DEF CancelForTarget
  <1>4. ASSUME NEW d \in Drain, NEW c \in Campaign, CompleteIfDone(d, c) PROVE PastStays(e)
    BY <1>0, <1>4, CampsThatStay DEF CompleteIfDone
  <1>5. ASSUME NEW c \in Campaign, ClockReaches(c) PROVE PastStays(e)
    BY <1>0, <1>5, CampsThatStay DEF ClockReaches
  <1>6. ASSUME NEW d \in Drain, Quiet(d) PROVE PastStays(e)
    BY <1>1, <1>6, QuietSteps
  <1>7. ASSUME NEW d \in Drain, DrainStep(d) PROVE PastStays(e)
    BY <1>1, <1>2, <1>3, <1>4, <1>6, <1>7
       DEF DrainStep, Quiet, ExpireLeases, Claim, Select, GiveBack, Throw, Stop, Suppress,
           HandOver, Settle, Pause, dbVars
  <1> QED
    BY <1>1, <1>5, <1>6, <1>7
       DEF RunnerNext, Surroundings, Quiet, Crash, Stop, LeaseEnds, BackoffEnds,
           Toggle, OptOut, TargetMoves, Purge, dbVars

LEMMA RowsComeBlank ==
    ASSUME TypeOK, ClaimIsKnown, RunnerNext, NEW r \in Row, row'[r].st = "ABSENT"
    PROVE  row[r].st = "ABSENT"
  <1>0. row \in [Row -> RowRec]
    BY DEF TypeOK, StoreTypeOK
  <1>1. ASSUME UNCHANGED row PROVE row[r].st = "ABSENT"
    BY <1>1
  <1>2. ASSUME NEW d \in Drain, Quiet(d) PROVE row[r].st = "ABSENT"
    BY <1>1, <1>2, QuietSteps
  <1>3. ASSUME NEW d \in Drain, ExpireLeases(d) PROVE row[r].st = "ABSENT"
    BY <1>0, <1>3, FreedRow DEF ExpireLeases, RowStatus
  <1>4. ASSUME NEW d \in Drain, NEW c \in Campaign, StartDue(d, c) PROVE row[r].st = "ABSENT"
    BY <1>0, <1>1, <1>4, FreshRow DEF StartDue, StartCampaign, Snapshot, dbVars
  <1>5. ASSUME NEW d \in Drain, Claim(d) PROVE row[r].st = "ABSENT"
    BY <1>0, <1>5, TakenRow DEF Claim
  <1>6. ASSUME NEW d \in Drain, Select(d) PROVE row[r].st = "ABSENT"
    BY <1>0, <1>6, FreedRow DEF Select, RowStatus
  <1>7. ASSUME NEW d \in Drain, NEW c \in Campaign, CancelForTarget(d, c) PROVE row[r].st = "ABSENT"
    BY <1>0, <1>7, FreedRow DEF CancelForTarget, Skipped, RowStatus
  <1>8. ASSUME NEW d \in Drain, GiveBack(d) PROVE row[r].st = "ABSENT"
    BY <1>0, <1>8, FreedRow DEF GiveBack, Released, RowStatus
  <1>9. ASSUME NEW d \in Drain, NEW s \in Row, Suppress(d, s) PROVE row[r].st = "ABSENT"
    BY <1>0, <1>9, FreedRow DEF Suppress, Settled, RowStatus
  <1>10. ASSUME NEW d \in Drain, NEW s \in Row, Settle(d, s) PROVE row[r].st = "ABSENT"
    BY <1>0, <1>10, SettlementRow DEF Settle, TypeOK
  <1>11. ASSUME NEW d \in Drain, NEW s \in Row, Pause(d, s) PROVE row[r].st = "ABSENT"
    <2> DEFINE rows == [Released(Hand(d) \ {s}) EXCEPT ![s] = Freed(row[s], "PENDING")]
    <2>1. /\ rows \in [Row -> RowRec]
          /\ rows[r].st = "ABSENT" => row[r].st = "ABSENT"
      BY <1>0, ReleasedType, FreedRow DEF Released, TypeOK, StoreTypeOK, RowStatus
    <2>2. row' = Abandoned(rows, d)
      BY <1>11 DEF Pause
    <2> HIDE DEF rows
    <2> QED
      BY <2>1, <2>2 DEF Abandoned, RowRec
  <1>12. ASSUME NEW d \in Drain, Stop(d) PROVE row[r].st = "ABSENT"
    BY <1>0, <1>12 DEF Stop, Abandoned, RowRec
  <1>13. ASSUME NEW s \in Row, LeaseEnds(s) \/ BackoffEnds(s) PROVE row[r].st = "ABSENT"
    BY <1>0, <1>13 DEF LeaseEnds, BackoffEnds, RowRec
  <1>14. ASSUME NEW d \in Drain, DrainStep(d) PROVE row[r].st = "ABSENT"
    BY <1>1, <1>2, <1>3, <1>4, <1>5, <1>6, <1>7, <1>8, <1>9, <1>10, <1>11, <1>12, <1>14
       DEF DrainStep, Quiet, Throw, HandOver, CompleteIfDone, dbVars
  <1> QED
    BY <1>2, <1>12, <1>13, <1>14 DEF RunnerNext, Quiet, Crash

LEMMA GoneStep ==
    ASSUME TypeOK, ClaimInv, GoneForGood, Next
    PROVE  GoneForGood'
  <1> USE DEF HandedOver
  <1>0. /\ camp \in [Campaign -> CampRec] /\ row \in [Row -> RowRec]
        /\ mailed \in [Row -> Nat] /\ tries \in [Row -> Nat] /\ ask \in [Admin -> Request \cup {Idle}]
    BY DEF TypeOK, StoreTypeOK, DeskTypeOK
  <1>1. CASE RunnerNext /\ UNCHANGED ask
    <2>1. \A c \in Campaign : PastStays(c)
      BY <1>1, RunnersRespectThePast
    <2>2. ASSUME NEW r \in Row, row'[r].st = "ABSENT" PROVE row[r].st = "ABSENT"
      BY <1>1, <2>2, RowsComeBlank DEF ClaimInv
    <2>3. ASSUME NEW d \in Drain, NEW s \in Row, HandOver(d, s)
          PROVE  GoneForGood'
      <3>1. \A r \in Row : r # s => mailed'[r] = mailed[r] /\ tries'[r] = tries[r]
        BY <1>0, <2>3 DEF HandOver
      <3>2. row[s].st = "ABSENT" => camp[s[1]].st = "ABSENT" /\ Kind[s[1]] # "DIRECT"
        BY <2>3 DEF HandOver, Hand, ClaimInv, HeldIsOwn
      <3>3. camp' = camp /\ row' = row
        BY <2>3 DEF HandOver, dbVars
      <3> QED
        BY <2>1, <2>2, <3>1, <3>2, <3>3, GoneStays
    <2>4. CASE UNCHANGED logVars
      BY <2>1, <2>2, <2>4, GoneStays DEF logVars
    <2>5. ASSUME NEW d \in Drain, Quiet(d) PROVE UNCHANGED logVars
      BY <2>5, QuietSteps DEF logVars
    <2>6. ASSUME NEW d \in Drain, DrainStep(d) PROVE GoneForGood'
      BY <2>3, <2>4, <2>5, <2>6
         DEF DrainStep, Quiet, ExpireLeases, StartDue, Claim, Select, CancelForTarget, GiveBack,
             Throw, Stop, Suppress, Settle, Pause, CompleteIfDone, logVars
    <2> QED
      BY <1>1, <2>4, <2>5, <2>6
         DEF RunnerNext, Quiet, Crash, Stop, LeaseEnds, BackoffEnds, logVars
  <1>2. CASE Surroundings /\ UNCHANGED ask
    <2>1. \A c \in Campaign : PastStays(c)
      BY <1>2, RunnersRespectThePast
    <2>2. UNCHANGED logVars
      BY <1>2 DEF Surroundings, Toggle, OptOut, TargetMoves, ClockReaches, Purge, logVars
    <2>3. CASE UNCHANGED row
      BY <2>1, <2>2, <2>3, GoneStays DEF logVars
    <2>4. ASSUME NEW c \in Campaign, Purge(c) PROVE GoneForGood'
      <3>1. /\ camp[c].st \in {"SENT", "CANCELLED"} /\ camp' = camp
            /\ \A p \in Admin : \A op \in {"queue", "schedule"} : ~Asked(p, op, c)
            /\ \A r \in Row : r[1] # c => row'[r] = row[r]
        BY <2>4 DEF Purge, Finished, Asked
      <3> QED
        BY <1>2, <2>2, <3>1, RowShape DEF GoneForGood, Asked, About, logVars
    <2> QED
      BY <1>2, <2>3, <2>4 DEF Surroundings, Toggle, OptOut, TargetMoves, ClockReaches, dbVars
  <1>3. ASSUME NEW p \in Admin, Write(p) PROVE GoneForGood'
    <2>1. \A c \in Campaign : PastStays(c)
      BY <1>3, WritesRespectThePast
    <2>2. mailed' = mailed /\ \A r \in Row : tries'[r] \in {tries[r], 0}
      BY <1>0, <1>3 DEF Write, QueueToWait, QueueToSend, Schedule, Delete, Cancel, Retry, Gone
    <2>3. ASSUME \A r \in Row : row'[r].st = "ABSENT" => row[r].st = "ABSENT" PROVE GoneForGood'
      BY <2>1, <2>2, <2>3, GoneStays
    <2> PICK c \in Campaign :
             \/ QueueToWait(p, c) \/ QueueToSend(p, c) \/ Schedule(p, c)
             \/ Delete(p, c) \/ Cancel(p, c) \/ Retry(p, c) \/ Gone(p, c)
      BY <1>3 DEF Write
    <2>4. CASE QueueToWait(p, c) \/ Schedule(p, c) \/ Gone(p, c)
      BY <2>3, <2>4 DEF QueueToWait, Schedule, Gone, dbVars
    <2>5. CASE QueueToSend(p, c)
      BY <1>0, <2>3, <2>5, FreshRow DEF QueueToSend, StartCampaign, Snapshot, dbVars
    <2>6. CASE Delete(p, c)
      <3>1. /\ Kind[c] # "DIRECT" /\ camp'[c].st = "ABSENT"
            /\ \A r \in Row : r[1] # c => row'[r] = row[r]
        BY <1>0, <2>6 DEF Delete, ClaimInv, NoOrphans
      <3> QED
        BY <2>1, <2>2, <3>1, GoneStays
    <2>7. CASE Cancel(p, c)
      BY <1>0, <2>3, <2>7, FreedRow DEF Cancel, Skipped, RowStatus
    <2>8. CASE Retry(p, c)
      BY <1>0, <2>3, <2>8, FreshRow DEF Retry
    <2> QED
      BY <2>4, <2>5, <2>6, <2>7, <2>8
  <1>4. ASSUME NEW p \in Admin, Check(p) PROVE GoneForGood'
    <2> PICK op \in Ops, c \in Campaign :
           /\ Admits(op, c)
           /\ ask' = [ask EXCEPT ![p] =
                         [op |-> op, on |-> c, wait |-> Availability(c) = "scheduled"]]
           /\ UNCHANGED <<camp, row, mailed, tries>>
      BY <1>4 DEF Check, dbVars, logVars
    <2>1. op \in {"queue", "schedule"} => camp[c].st = "DRAFT"
      BY DEF Admits
    <2>2. \A q \in Admin, e \in Campaign, o \in {"queue", "schedule"} :
             Asked(q, o, e)' => Asked(q, o, e) \/ (e = c /\ o = op)
      BY <1>0 DEF Asked, About
    <2> QED
      BY RowShape, <2>1, <2>2 DEF GoneForGood
  <1>5. ASSUME NEW c \in Campaign, Unschedule(c) PROVE GoneForGood'
    <2>1. /\ camp[c].st = "SCHEDULED" /\ camp'[c].st # "ABSENT"
          /\ \A e \in Campaign : e # c => camp'[e] = camp[e]
          /\ UNCHANGED <<row, mailed, tries, ask>>
      BY <1>0, <1>5 DEF Unschedule, logVars
    <2> QED
      BY RowShape, <2>1 DEF GoneForGood, Asked, About
  <1>6. ASSUME NEW c \in Campaign, SendDirect(c) PROVE GoneForGood'
    <2>1. /\ camp[c].st = "ABSENT" /\ Kind[c] = "DIRECT"
          /\ \A e \in Campaign : e # c => camp'[e] = camp[e]
          /\ UNCHANGED <<mailed, tries, ask>>
          /\ \A r \in Row : row'[r].st = "ABSENT" => row[r].st = "ABSENT"
      BY <1>0, <1>6, FreshRow DEF SendDirect, logVars
    <2> QED
      BY RowShape, <2>1 DEF GoneForGood, Asked, About
  <1> QED
    BY <1>1, <1>2, <1>3, <1>4, <1>5, <1>6 DEF Next, DeskNext

-----------------------------------------------------------------------------
(***************************************************************************)
(* Nothing has gone out for a row that waits or is merely claimed.         *)
(***************************************************************************)
\* A step that hands nothing over, and marks as sent or puts back to waiting
\* only rows of which it is known whether their message went out.
HonestRows ==
    \A r \in Row :
        /\ row'[r].st = "SENT" => row[r].st = "SENT" \/ mailed[r] > 0
        /\ row'[r].st = "PENDING" => row[r].st = "PENDING" \/ mailed[r] = 0

LEMMA MailStays ==
    ASSUME TypeOK, MailInv, UNCHANGED mailed, HonestRows, NoNewClaim,
           \A d \in Drain :
              /\ held'[d] \subseteq held[d]
              /\ \A r \in held'[d] : r \in flight'[d] <=> r \in flight[d]
              /\ flight'[d] # {} => mem'[d].res = mem[d].res
              /\ pc'[d] = "select" => pc[d] = "select"
    PROVE  AtMostOnce' /\ ReportIsTrue' /\ UnsentIsUnsent'
  <1> USE DEF MailInv
  <1>1. AtMostOnce' /\ ReportIsTrue'
    BY DEF AtMostOnce, ReportIsTrue, HonestRows
  <1>2. \A r \in Row : row'[r].st = "PENDING" => mailed'[r] = 0
    BY DEF HonestRows, UnsentIsUnsent
  <1>3. ASSUME NEW d \in Drain, NEW r \in held'[d]
        PROVE  IF r \in flight'[d] THEN mailed'[r] = IF mem'[d].res = "SENT" THEN 1 ELSE 0
               ELSE mailed'[r] = 0
    BY <1>3 DEF UnsentIsUnsent
  <1>4. \A d \in Drain, r \in Row : pc'[d] = "select" /\ row'[r].tok = d => mailed'[r] = 0
    BY StoreAssumption DEF NoNewClaim, UnsentIsUnsent
  <1> QED
    BY <1>1, <1>2, <1>3, <1>4 DEF UnsentIsUnsent

\* A snapshot lists addresses whose earlier row, if any, is known to be unsent.
LEMMA SnapshotIsHonest ==
    ASSUME TypeOK, ClaimInv, MailInv, NEW c \in Campaign,
           camp[c].st \in {"DRAFT", "SCHEDULED"}, row' = Snapshot(c)
    PROVE  HonestRows
  <1>1. \A r \in Row : r[1] = c /\ row[r].st = "ABSENT" => mailed[r] = 0
    BY DEF MailInv, GoneForGood, HandedOver, TypeOK, StoreTypeOK
  <1>2. row \in [Row -> RowRec]
    BY DEF TypeOK, StoreTypeOK
  <1> QED
    BY <1>1, <1>2, FreshRow DEF HonestRows, Snapshot

LEMMA DeskIsHonest ==
    ASSUME TypeOK, ClaimInv, MailInv, "retry" \notin Ops \/ FailedIsUnsent, DeskNext \/ Surroundings
    PROVE  UNCHANGED mailed /\ HonestRows
  <1>0. /\ row \in [Row -> RowRec] /\ mailed \in [Row -> Nat]
    BY DEF TypeOK, StoreTypeOK
  <1>1. ASSUME UNCHANGED row PROVE HonestRows
    BY <1>1 DEF HonestRows
  <1>2. ASSUME NEW p \in Admin, Write(p) PROVE HonestRows
    <2> PICK c \in Campaign :
             \/ QueueToWait(p, c) \/ QueueToSend(p, c) \/ Schedule(p, c)
             \/ Delete(p, c) \/ Cancel(p, c) \/ Retry(p, c) \/ Gone(p, c)
      BY <1>2 DEF Write
    <2>1. CASE QueueToSend(p, c)
      BY <1>1, <2>1, SnapshotIsHonest DEF QueueToSend, StartCampaign, dbVars
    <2>2. CASE Delete(p, c)
      BY <1>0, <2>2, FreshRow DEF Delete, HonestRows
    <2>3. CASE Cancel(p, c)
      BY <1>0, <2>3, FreedRow DEF Cancel, Skipped, HonestRows, RowStatus
    <2>4. CASE Retry(p, c)
      <3>1. "retry" \in Ops
        BY <2>4 DEF Retry, Asked, About, TypeOK, DeskTypeOK, Request, Idle
      <3> QED
        BY <1>0, <2>4, <3>1, FreshRow DEF Retry, HonestRows, FailedIsUnsent
    <2> QED
      BY <1>1, <2>1, <2>2, <2>3, <2>4 DEF QueueToWait, Schedule, Gone, dbVars
  <1>3. ASSUME NEW c \in Campaign, SendDirect(c) PROVE HonestRows
    <2>1. \A r \in Row : r[1] = c => mailed[r] = 0
      BY <1>0, <1>3 DEF SendDirect, ClaimInv, NoOrphans, MailInv, GoneForGood, HandedOver
    <2> QED
      BY <1>0, <1>3, <2>1, FreshRow DEF SendDirect, HonestRows
  <1>4. ASSUME NEW c \in Campaign, Purge(c) PROVE HonestRows
    BY <1>0, <1>4, FreshRow DEF Purge, HonestRows
  <1>5. HonestRows
    <2>1. CASE DeskNext
      BY <1>1, <1>2, <1>3, <2>1 DEF DeskNext, Check, Unschedule, dbVars
    <2>2. CASE Surroundings
      BY <1>1, <1>4, <2>2 DEF Surroundings, Toggle, OptOut, TargetMoves, ClockReaches, dbVars
    <2> QED
      BY <2>1, <2>2
  <1>6. UNCHANGED mailed
    BY DEF DeskNext, Check, Write, Unschedule, SendDirect, Surroundings, Toggle, OptOut,
           TargetMoves, ClockReaches, Purge, logVars
  <1> QED
    BY <1>5, <1>6

\* The steps of a drain other than claiming, reading its claim back, and
\* handing over.
LEMMA DrainIsHonest ==
    ASSUME TypeOK, ClaimInv, MailInv, "lostReply" \notin Events,
           NEW d \in Drain, DrainStep(d) \/ Stop(d),
           ~Claim(d), ~Select(d), ~Quiet(d), \A r \in Row : ~HandOver(d, r)
    PROVE  AtMostOnce' /\ ReportIsTrue' /\ UnsentIsUnsent'
  <1> USE DEF ClaimInv, HonestRows
  <1>0. /\ row \in [Row -> RowRec] /\ mailed \in [Row -> Nat]
        /\ held \in [Drain -> SUBSET Row] /\ flight \in [Drain -> SUBSET Row]
        /\ pc \in [Drain -> Phase] /\ mem \in [Drain -> Mem]
    BY DEF TypeOK, StoreTypeOK, DrainTypeOK
  <1>1. ASSUME UNCHANGED mailed, HonestRows,
               \A e \in Drain : e # d => /\ held'[e] = held[e] /\ flight'[e] = flight[e]
                                        /\ mem'[e] = mem[e] /\ pc'[e] = pc[e],
               pc'[d] # "select", held'[d] \subseteq held[d],
               \A r \in held'[d] : r \in flight'[d] <=> r \in flight[d],
               flight'[d] # {} => mem'[d].res = mem[d].res
        PROVE  AtMostOnce' /\ ReportIsTrue' /\ UnsentIsUnsent'
    BY <1>1, MailStays, DrainClaimsByClaim
  <1>2. \A r \in held[d] : pc[d] # "settle" => mailed[r] = 0
    BY <1>0 DEF MailInv, UnsentIsUnsent, HeldWhileSending
  <1>3. CASE ExpireLeases(d)
    BY <1>0, <1>1, <1>3, FreedRow DEF ExpireLeases, Goto, RowStatus, logVars, HeldWhileSending
  <1>4. ASSUME NEW c \in Campaign, StartDue(d, c)
        PROVE  AtMostOnce' /\ ReportIsTrue' /\ UnsentIsUnsent'
    <2>1. HonestRows
      BY <1>4, SnapshotIsHonest DEF StartDue, StartCampaign, dbVars
    <2> QED
      BY <1>0, <1>1, <1>4, <2>1 DEF StartDue, Goto, logVars, HeldWhileSending
  <1>5. ASSUME NEW c \in Campaign, CancelForTarget(d, c)
        PROVE  AtMostOnce' /\ ReportIsTrue' /\ UnsentIsUnsent'
    BY <1>0, <1>1, <1>5, FreedRow
       DEF CancelForTarget, Skipped, RowStatus, logVars, HeldWhileSending
  <1>6. ASSUME NEW c \in Campaign, CompleteIfDone(d, c)
        PROVE  AtMostOnce' /\ ReportIsTrue' /\ UnsentIsUnsent'
    BY <1>0, <1>1, <1>6 DEF CompleteIfDone, logVars, HeldWhileSending
  <1>7. CASE GiveBack(d)
    <2>1. HonestRows
      BY <1>0, <1>2, <1>7, FreedRow DEF GiveBack, Released, Hand, RowStatus
    <2> QED
      BY <1>0, <1>1, <1>7, <2>1 DEF GiveBack, logVars
  <1>8. ASSUME NEW r \in Row, Suppress(d, r)
        PROVE  AtMostOnce' /\ ReportIsTrue' /\ UnsentIsUnsent'
    BY <1>0, <1>1, <1>8, FreedRow DEF Suppress, Settled, RowStatus, logVars
  <1>9. ASSUME NEW r \in Row, Settle(d, r)
        PROVE  AtMostOnce' /\ ReportIsTrue' /\ UnsentIsUnsent'
    <2>1. mailed[r] = IF mem[d].res = "SENT" THEN 1 ELSE 0
      BY <1>9 DEF Settle, HeldWhileSending, MailInv, UnsentIsUnsent
    <2>2. HonestRows
      BY <1>0, <1>9, <2>1, SettlementRow DEF Settle, TypeOK
    <2>3. /\ held'[d] = held[d] \ {r} /\ flight'[d] = {} /\ flight[d] = {r}
      BY <1>0, <1>9 DEF Settle, HeldWhileSending
    <2> QED
      BY <1>0, <1>1, <1>9, <2>2, <2>3 DEF Settle, Goto, logVars
  <1>10. ASSUME NEW r \in Row, Pause(d, r)
         PROVE  AtMostOnce' /\ ReportIsTrue' /\ UnsentIsUnsent'
    <2> DEFINE rows == [Released(Hand(d) \ {r}) EXCEPT ![r] = Freed(row[r], "PENDING")]
    <2>1. /\ mailed[r] = 0
          /\ \A s \in Hand(d) : mailed[s] = 0
      BY <1>0, <1>10 DEF Pause, Hand, HeldWhileSending, MailInv, UnsentIsUnsent
    <2>2. /\ rows \in [Row -> RowRec]
          /\ \A s \in Row : /\ rows[s].st = "SENT" => row[s].st = "SENT"
                            /\ rows[s].st = "PENDING" => row[s].st = "PENDING" \/ mailed[s] = 0
      BY <1>0, <2>1, ReleasedType, FreedRow DEF Released, TypeOK, StoreTypeOK, RowStatus
    <2>3. row' = Abandoned(rows, d)
      BY <1>10 DEF Pause
    <2> HIDE DEF rows
    <2>4. HonestRows
      BY <2>2, <2>3 DEF Abandoned, RowRec
    <2> QED
      BY <1>0, <1>1, <1>10, <2>4 DEF Pause, Closing, Goto, logVars
  <1>11. CASE Stop(d)
    <2>1. HonestRows
      BY <1>0, <1>11 DEF Stop, Abandoned, RowRec
    <2> QED
      BY <1>0, <1>1, <1>11, <2>1 DEF Stop, Goto, logVars
  <1> QED
    BY <1>3, <1>4, <1>5, <1>6, <1>7, <1>8, <1>9, <1>10, <1>11 DEF DrainStep, Throw, Quiet

\* A batch is claimed from rows that wait, so nothing has gone out for them.
LEMMA ClaimIsHonest ==
    ASSUME TypeOK, ClaimInv, MailInv, NEW d \in Drain, Claim(d) \/ Select(d)
    PROVE  AtMostOnce' /\ ReportIsTrue' /\ UnsentIsUnsent'
  <1> USE DEF ClaimInv, MailInv
  <1>0. /\ row \in [Row -> RowRec] /\ pc \in [Drain -> Phase]
        /\ held \in [Drain -> SUBSET Row] /\ mem \in [Drain -> Mem]
    BY DEF TypeOK, StoreTypeOK, DrainTypeOK
  <1>1. CASE Claim(d)
    <2> PICK S \in SUBSET Claimable(d) :
            row' = [r \in Row |-> IF r \in S THEN Taken(row[r], d) ELSE row[r]]
      BY <1>1 DEF Claim
    <2>1. \A r \in S : /\ row'[r].st = "SENDING" /\ row'[r].tok = d
                       /\ mailed[r] = 0
      BY <1>0, TakenRow DEF Claimable, UnsentIsUnsent
    <2>2. /\ UNCHANGED <<mailed, held, flight, mem>>
          /\ \A e \in Drain : e # d => pc'[e] = pc[e]
          /\ \A r \in Row : r \in S \/ row'[r] = row[r]
          /\ pc[d] = "claim"
      BY <1>0, <1>1 DEF Claim, Goto, logVars
    <2>3. AtMostOnce' /\ ReportIsTrue'
      BY <2>1, <2>2 DEF AtMostOnce, ReportIsTrue
    <2>4. \A r \in Row : row'[r].st = "PENDING" => mailed'[r] = 0
      BY <2>1, <2>2 DEF UnsentIsUnsent
    <2>5. \A e \in Drain, r \in Row : pc'[e] = "select" /\ row'[r].tok = e => mailed'[r] = 0
      BY <1>0, <2>1, <2>2 DEF UnsentIsUnsent, ClaimIsKnown, HeldWhileSending
    <2> QED
      BY <2>2, <2>3, <2>4, <2>5 DEF UnsentIsUnsent
  <1>2. CASE Select(d)
    <2> DEFINE live == {r \in {r \in Row : row[r].tok = d} : camp[r[1]].st = "SENDING"}
    <2>1. /\ held' = [held EXCEPT ![d] = live] /\ pc[d] = "select"
          /\ UNCHANGED <<mailed, flight>>
          /\ \A e \in Drain : e # d => mem'[e] = mem[e] /\ pc'[e] = pc[e]
          /\ pc'[d] # "select"
      BY <1>0, <1>2 DEF Select, Closing, Goto, logVars
    <2>2. \A r \in Row : row'[r] = row[r] \/ (row'[r].st = "SKIPPED" /\ row'[r].tok = Nobody)
      BY <1>0, <1>2, FreedRow DEF Select, RowStatus
    <2>3. \A r \in live : mailed[r] = 0
      BY <2>1 DEF UnsentIsUnsent
    <2>4. flight[d] = {}
      BY <2>1 DEF HeldWhileSending
    <2>5. AtMostOnce' /\ ReportIsTrue'
      BY <2>1, <2>2 DEF AtMostOnce, ReportIsTrue
    <2>6. \A r \in Row : row'[r].st = "PENDING" => mailed'[r] = 0
      BY <2>1, <2>2 DEF UnsentIsUnsent
    <2>7. \A e \in Drain, r \in Row : pc'[e] = "select" /\ row'[r].tok = e => mailed'[r] = 0
      BY <2>1, <2>2, StoreAssumption DEF UnsentIsUnsent
    <2> HIDE DEF live
    <2>8. ASSUME NEW e \in Drain, NEW r \in held'[e]
          PROVE  IF r \in flight'[e] THEN mailed'[r] = IF mem'[e].res = "SENT" THEN 1 ELSE 0
                 ELSE mailed'[r] = 0
      <3>1. CASE e = d
        BY <1>0, <2>1, <2>3, <2>4, <2>8, <3>1
      <3>2. CASE e # d
        BY <1>0, <2>1, <2>8, <3>2 DEF UnsentIsUnsent
      <3> QED
        BY <3>1, <3>2
    <2> QED
      BY <2>5, <2>6, <2>7, <2>8 DEF UnsentIsUnsent
  <1> QED
    BY <1>1, <1>2

\* The hand-over: the row is in this hand only, and nothing has gone out for it.
LEMMA HandOverIsHonest ==
    ASSUME TypeOK, ClaimInv, MailInv, "lostReply" \notin Events,
           NEW d \in Drain, NEW r \in Row, HandOver(d, r)
    PROVE  AtMostOnce' /\ ReportIsTrue' /\ UnsentIsUnsent'
  <1> USE DEF ClaimInv, MailInv
  <1>0. /\ mailed \in [Row -> Nat] /\ pc \in [Drain -> Phase]
        /\ held \in [Drain -> SUBSET Row] /\ mem \in [Drain -> Mem]
        /\ flight \in [Drain -> SUBSET Row]
    BY DEF TypeOK, StoreTypeOK, DrainTypeOK
  <1> PICK answer \in Answers(d) :
         /\ mem' = [mem EXCEPT ![d].res = answer.res]
         /\ mailed' = [mailed EXCEPT ![r] = @ + answer.sent]
    BY DEF HandOver
  <1>1. answer.sent = IF answer.res = "SENT" THEN 1 ELSE 0
    BY DEF Answers, Answer
  <1>2. r \in held[d] /\ flight[d] = {} /\ pc[d] = "send"
    BY DEF HandOver, Hand, HeldWhileSending
  <1>3. mailed[r] = 0
    BY <1>2 DEF UnsentIsUnsent
  <1>4. /\ mailed'[r] = IF mem'[d].res = "SENT" THEN 1 ELSE 0
        /\ \A s \in Row : s # r => mailed'[s] = mailed[s]
        /\ \A e \in Drain : e # d => mem'[e] = mem[e]
    BY <1>0, <1>1, <1>3 DEF Mem
  <1>5. /\ UNCHANGED <<row, held>>
        /\ flight'[d] = {r} /\ pc'[d] = "settle"
        /\ \A e \in Drain : e # d => flight'[e] = flight[e] /\ pc'[e] = pc[e]
    BY <1>0 DEF HandOver, Goto, dbVars
  <1>6. AtMostOnce'
    BY <1>0, <1>3, <1>4 DEF AtMostOnce
  <1>7. row[r].st \notin {"SENT", "PENDING"}
    BY <1>2 DEF HeldIsOwn
  <1>8. ReportIsTrue' /\ \A s \in Row : row'[s].st = "PENDING" => mailed'[s] = 0
    BY <1>4, <1>5, <1>7 DEF ReportIsTrue, UnsentIsUnsent
  <1>9. ASSUME NEW e \in Drain, NEW s \in held'[e]
        PROVE  IF s \in flight'[e] THEN mailed'[s] = IF mem'[e].res = "SENT" THEN 1 ELSE 0
               ELSE mailed'[s] = 0
    <2>1. CASE e = d
      BY <1>0, <1>2, <1>4, <1>5, <1>9, <2>1 DEF UnsentIsUnsent
    <2>2. CASE e # d
      <3>1. s # r /\ s \in held[e] /\ s \in Row
        BY <1>0, <1>2, <1>5, <1>9, <2>2 DEF OneHolder
      <3> QED
        BY <1>4, <1>5, <2>2, <3>1 DEF UnsentIsUnsent
    <2> QED
      BY <2>1, <2>2
  <1>10. ASSUME NEW e \in Drain, NEW s \in Row, pc'[e] = "select", row'[s].tok = e
         PROVE  mailed'[s] = 0
    <2>1. e # d /\ pc[e] = "select" /\ row[s].tok = e
      BY <1>0, <1>5, <1>10
    <2>2. s # r
      BY <1>2, <2>1 DEF HeldIsOwn, ClaimIsKnown
    <2> QED
      BY <1>4, <2>1, <2>2 DEF UnsentIsUnsent
  <1> QED
    BY <1>6, <1>8, <1>9, <1>10 DEF UnsentIsUnsent

LEMMA MailStep ==
    ASSUME TypeOK, ClaimInv, MailInv, "retry" \notin Ops \/ FailedIsUnsent,
           "lostReply" \notin Events, Next
    PROVE  AtMostOnce' /\ ReportIsTrue' /\ UnsentIsUnsent'
  <1> DEFINE Goal == AtMostOnce' /\ ReportIsTrue' /\ UnsentIsUnsent'
  <1>0. row \in [Row -> RowRec]
    BY DEF TypeOK, StoreTypeOK
  <1>1. CASE (DeskNext \/ Surroundings) /\ UNCHANGED drainVars
    BY <1>1, DeskIsHonest, DeskClaimsNothing, MailStays DEF drainVars
  <1>2. ASSUME NEW d \in Drain, Quiet(d) PROVE Goal
    <2>1. /\ UNCHANGED <<row, mailed, held, flight>>
          /\ \A e \in Drain : pc'[e] = "select" => pc[e] = "select"
      BY <1>2, QuietSteps
    <2>2. \A e \in Drain : flight'[e] # {} => mem'[e].res = mem[e].res
      <3>1. flight[d] # {} => mem'[d].res = mem[d].res
        <4>1. CASE BudgetEnds(d)
          BY <4>1 DEF BudgetEnds, TypeOK, DrainTypeOK, Mem
        <4>2. CASE ~BudgetEnds(d)
          <5>1. pc[d] # "settle"
            BY <1>2, <4>2 DEF Quiet, CronTick, Kick, Begin, Gate, NothingToClaim, BatchDone,
                              CampaignDone, Return, OpenSession
          <5> QED
            BY <5>1 DEF ClaimInv, HeldWhileSending
        <4> QED
          BY <4>1, <4>2
      <3> QED
        BY <1>2, <2>1, <3>1, QuietSteps
    <2>3. HonestRows /\ NoNewClaim
      BY <2>1 DEF HonestRows, NoNewClaim
    <2> QED
      BY <2>1, <2>2, <2>3, MailStays
  <1>3. ASSUME NEW d \in Drain, DrainStep(d) \/ Stop(d) PROVE Goal
    BY <1>2, <1>3, DrainIsHonest, ClaimIsHonest, HandOverIsHonest
  <1>4. ASSUME NEW r \in Row, LeaseEnds(r) \/ BackoffEnds(r) PROVE Goal
    <2>1. /\ UNCHANGED <<mailed, pc, held, flight, mem>>
          /\ HonestRows /\ NoNewClaim
      BY <1>0, <1>4 DEF LeaseEnds, BackoffEnds, logVars, drainVars, HonestRows, NoNewClaim, RowRec
    <2> QED
      BY <2>1, MailStays
  <1> HIDE DEF Goal
  <1>5. Goal
    BY <1>1, <1>2, <1>3, <1>4 DEF Next, RunnerNext, Quiet, Crash, Goal
  <1> QED
    BY <1>5 DEF Goal

\* Where no lease ends, only the answer to its own hand-over fails a row.
LEMMA FailsBySettling ==
    ASSUME TypeOK, ClaimInv, ClaimsKept, LeasesLast, Next, NEW r \in Row, row'[r].st = "FAILED"
    PROVE  row[r].st = "FAILED" \/ \E d \in Drain : Settle(d, r)
  <1> DEFINE Goal == row[r].st = "FAILED" \/ \E d \in Drain : Settle(d, r)
  <1>0. row \in [Row -> RowRec]
    BY DEF TypeOK, StoreTypeOK
  <1>1. CASE UNCHANGED row
    BY <1>1
  <1>2. CASE row' = Snapshot(r[1]) \/ \E c \in Campaign : row' = Snapshot(c)
    BY <1>0, <1>2, FreshRow DEF Snapshot
  <1>3. ASSUME NEW c \in Campaign, NEW states, row' = Skipped(c, states) PROVE Goal
    BY <1>0, <1>3, FreedRow DEF Skipped, RowStatus
  <1>4. ASSUME NEW p \in Admin, Write(p) PROVE Goal
    <2> PICK c \in Campaign :
             \/ QueueToWait(p, c) \/ QueueToSend(p, c) \/ Schedule(p, c)
             \/ Delete(p, c) \/ Cancel(p, c) \/ Retry(p, c) \/ Gone(p, c)
      BY <1>4 DEF Write
    <2>1. CASE Delete(p, c)
      BY <1>0, <2>1, FreshRow DEF Delete
    <2>2. CASE Retry(p, c)
      BY <1>0, <2>2, FreshRow DEF Retry
    <2> QED
      BY <1>1, <1>2, <1>3, <2>1, <2>2
         DEF QueueToWait, QueueToSend, Schedule, Cancel, Gone, StartCampaign, dbVars
  <1>5. CASE DeskNext
    <2>1. ASSUME NEW c \in Campaign, SendDirect(c) PROVE Goal
      BY <1>0, <2>1, FreshRow DEF SendDirect
    <2> QED
      BY <1>1, <1>4, <1>5, <2>1 DEF DeskNext, Check, Unschedule, dbVars
  <1>6. CASE Surroundings
    <2>1. ASSUME NEW c \in Campaign, Purge(c) PROVE Goal
      BY <1>0, <2>1, FreshRow DEF Purge
    <2> QED
      BY <1>1, <1>6, <2>1 DEF Surroundings, Toggle, OptOut, TargetMoves, ClockReaches, dbVars
  <1>7. ASSUME NEW d \in Drain, Quiet(d) PROVE Goal
    BY <1>1, <1>7, QuietSteps
  <1>8. ASSUME NEW d \in Drain, DrainStep(d) PROVE Goal
    <2>1. CASE Claim(d)
      BY <1>0, <2>1, TakenRow DEF Claim
    <2>2. CASE Select(d)
      BY <1>0, <2>2, FreedRow DEF Select, RowStatus
    <2>3. CASE GiveBack(d)
      BY <1>0, <2>3, FreedRow DEF GiveBack, Released, RowStatus
    <2>4. ASSUME NEW s \in Row, Suppress(d, s) PROVE Goal
      BY <1>0, <2>4, FreedRow DEF Suppress, Settled, RowStatus
    <2>5. ASSUME NEW s \in Row, Settle(d, s) PROVE Goal
      BY <1>0, <2>5 DEF Settle
    <2> QED
      BY <1>1, <1>2, <1>3, <1>7, <1>8, <2>1, <2>2, <2>3, <2>4, <2>5, NothingIsLost
         DEF DrainStep, Quiet, StartDue, StartCampaign, CancelForTarget, HandOver, CompleteIfDone, dbVars
  <1>9. ASSUME NEW s \in Row, BackoffEnds(s) PROVE Goal
    BY <1>0, <1>9 DEF BackoffEnds
  <1>10. ASSUME NEW s \in Row, LeaseEnds(s) PROVE Goal
    BY <1>0, <1>10 DEF LeaseEnds
  <1> QED
    BY <1>5, <1>6, <1>7, <1>8, <1>9, <1>10, NothingIsLost DEF Next, RunnerNext, Quiet

\* Only a hand-over adds to what the provider has.
LEMMA OnlyHandOversMail ==
    ASSUME TypeOK, Next, \A d \in Drain, r \in Row : ~HandOver(d, r)
    PROVE  mailed' = mailed
  <1>1. CASE DeskNext \/ Surroundings
    BY <1>1 DEF DeskNext, Check, Write, Unschedule, SendDirect, Surroundings, Toggle, OptOut,
                TargetMoves, ClockReaches, Purge, logVars
  <1>2. ASSUME NEW d \in Drain, Quiet(d) PROVE mailed' = mailed
    BY <1>2, QuietSteps
  <1>3. ASSUME NEW d \in Drain, DrainStep(d) \/ Stop(d) PROVE mailed' = mailed
    BY <1>2, <1>3
       DEF DrainStep, Quiet, ExpireLeases, StartDue, Claim, Select, CancelForTarget, GiveBack,
           Throw, Stop, Suppress, Settle, Pause, CompleteIfDone, logVars
  <1> QED
    BY <1>1, <1>2, <1>3 DEF Next, RunnerNext, Quiet, Crash, LeaseEnds, BackoffEnds, logVars

LEMMA FailedStep ==
    ASSUME TypeOK, ClaimInv, ClaimsKept, MailInv, FailedIsUnsent, LeasesLast, Next
    PROVE  FailedIsUnsent'
  <1> SUFFICES ASSUME NEW r \in Row, row'[r].st = "FAILED" PROVE mailed'[r] = 0
    BY DEF FailedIsUnsent
  <1>0. /\ row \in [Row -> RowRec] /\ mailed \in [Row -> Nat]
        /\ \A e \in Drain : held[e] \subseteq Row
    BY DEF TypeOK, StoreTypeOK, DrainTypeOK
  <1>1. ASSUME NEW d \in Drain, Settle(d, r) PROVE mailed'[r] = 0
    <2>1. mem[d].res # "SENT"
      BY <1>0, <1>1, FreedRow DEF Settle, Settlement, RowStatus
    <2> QED
      BY <1>1, <2>1 DEF Settle, ClaimInv, HeldWhileSending, MailInv, UnsentIsUnsent, logVars
  <1>2. CASE row[r].st = "FAILED" /\ \A d \in Drain, s \in Row : ~HandOver(d, s)
    BY <1>2, OnlyHandOversMail DEF FailedIsUnsent
  <1>3. ASSUME row[r].st = "FAILED", NEW d \in Drain, NEW s \in Row, HandOver(d, s) PROVE mailed'[r] = 0
    <2>1. s # r
      BY <1>3 DEF HandOver, Hand, ClaimsKept
    <2> QED
      BY <1>0, <1>3, <2>1 DEF HandOver, FailedIsUnsent
  <1> QED
    BY <1>1, <1>2, <1>3, FailsBySettling

\* No recipient gets an announcement twice, what is reported as sent was sent,
\* and nothing has gone out for a row that still waits: with any number of
\* overlapping drains, crashes, late answers, cancels, deletes and purges as long
\* as nobody retries, and with retries as long as no drain loses a claim.
THEOREM Promise ==
    ASSUME RetryIsSafe, "lostReply" \notin Events
    PROVE  Spec => [](MailInv /\ (LeasesLast => FailedIsUnsent))
  <1>1. Init => MailInv /\ FailedIsUnsent
    BY FreshRow DEF Init, StoreInit, DrainInit, MailInv, AtMostOnce, ReportIsTrue,
                    UnsentIsUnsent, GoneForGood, HandedOver, FailedIsUnsent
  <1>2. TypeOK /\ (ClaimInv /\ (LeasesLast => ClaimsKept)) /\ (MailInv /\ (LeasesLast => FailedIsUnsent))
            /\ [Next]_vars => (MailInv /\ (LeasesLast => FailedIsUnsent))'
    <2> SUFFICES ASSUME TypeOK, ClaimInv, LeasesLast => ClaimsKept,
                        MailInv, LeasesLast => FailedIsUnsent, [Next]_vars
                 PROVE  MailInv' /\ (LeasesLast => FailedIsUnsent')
      OBVIOUS
    <2>1. CASE Next
      BY <2>1, MailStep, GoneStep, FailedStep DEF MailInv, RetryIsSafe
    <2>2. CASE UNCHANGED vars
      BY <2>2 DEF vars, storeVars, drainVars, MailInv, AtMostOnce, ReportIsTrue, UnsentIsUnsent,
                  GoneForGood, HandedOver, Asked, About, FailedIsUnsent
    <2> QED
      BY <2>1, <2>2
  <1> QED
    BY <1>1, <1>2, Typing, Claims, PTL DEF Spec

\* One announcement reaches one address at most once.
COROLLARY AtMostOnceAlways ==
    ASSUME RetryIsSafe, "lostReply" \notin Events
    PROVE  Spec => []AtMostOnce
  <1>1. MailInv => AtMostOnce
    BY DEF MailInv
  <1> QED
    BY <1>1, Promise, PTL

\* A recipient reported as sent was sent the message.
COROLLARY ReportIsTrueAlways ==
    ASSUME RetryIsSafe, "lostReply" \notin Events
    PROVE  Spec => []ReportIsTrue
  <1>1. MailInv => ReportIsTrue
    BY DEF MailInv
  <1> QED
    BY <1>1, Promise, PTL

-----------------------------------------------------------------------------
(***************************************************************************)
(* A row reported as sent stays so until it is purged or deleted.          *)
(***************************************************************************)
SentStays == \A r \in Row : row[r].st = "SENT" => row'[r].st \in {"SENT", "ABSENT"}

LEMMA SentStaysInDrains ==
    ASSUME TypeOK, ClaimInv, NEW d \in Drain, DrainStep(d)
    PROVE  SentStays
  <1> USE DEF SentStays, ClaimInv
  <1>0. row \in [Row -> RowRec]
    BY DEF TypeOK, StoreTypeOK
  <1>1. ASSUME UNCHANGED row PROVE SentStays
    BY <1>1
  <1>2. \A r \in held[d] : row[r].st # "SENT"
    BY DEF HeldIsOwn
  <1>3. \A r \in Row : row[r].st = "SENT" => row[r].tok # d
    BY DEF ClaimIsKnown
  <1>4. CASE Quiet(d)
    BY <1>1, <1>4, QuietSteps
  <1>5. CASE ExpireLeases(d)
    BY <1>0, <1>5 DEF ExpireLeases
  <1>6. ASSUME NEW c \in Campaign, StartDue(d, c) PROVE SentStays
    BY <1>0, <1>1, <1>6 DEF StartDue, StartCampaign, Snapshot, dbVars
  <1>7. CASE Claim(d)
    BY <1>0, <1>7 DEF Claim, Claimable
  <1>8. CASE Select(d)
    BY <1>0, <1>3, <1>8 DEF Select
  <1>9. ASSUME NEW c \in Campaign, CancelForTarget(d, c) PROVE SentStays
    BY <1>0, <1>9 DEF CancelForTarget, Skipped
  <1>10. CASE GiveBack(d)
    BY <1>0, <1>10 DEF GiveBack, Released
  <1>11. ASSUME NEW r \in held[d], row' = [row EXCEPT ![r] = row'[r]] PROVE SentStays
    BY <1>0, <1>2, <1>11
  <1>12. ASSUME NEW r \in Row, Suppress(d, r) PROVE SentStays
    BY <1>0, <1>11, <1>12 DEF Suppress, Settled, Hand
  <1>13. ASSUME NEW r \in Row, Settle(d, r) PROVE SentStays
    BY <1>0, <1>11, <1>13 DEF Settle, HeldWhileSending
  <1>14. ASSUME NEW r \in Row, Pause(d, r) PROVE SentStays
    <2> DEFINE rows == [Released(Hand(d) \ {r}) EXCEPT ![r] = Freed(row[r], "PENDING")]
    <2>1. r \in held[d]
      BY <1>14 DEF Pause, HeldWhileSending
    <2>2. \A s \in Row : row[s].st = "SENT" => rows[s] = row[s]
      BY <1>0, <1>2, <2>1 DEF Released
    <2>3. row' = Abandoned(rows, d)
      BY <1>14 DEF Pause
    <2> HIDE DEF rows
    <2> QED
      BY <1>3, <2>2, <2>3 DEF Abandoned
  <1>15. CASE Throw(d)
    BY <1>0, <1>3, <1>15 DEF Throw, Stop, Abandoned
  <1> QED
    BY <1>1, <1>4, <1>5, <1>6, <1>7, <1>8, <1>9, <1>10, <1>12, <1>13, <1>14, <1>15
       DEF DrainStep, Quiet, HandOver, CompleteIfDone, dbVars

LEMMA SentStaysElsewhere ==
    ASSUME TypeOK, ClaimInv,
           DeskNext \/ Surroundings \/ RunnerNext
    PROVE  SentStays
  <1> USE DEF SentStays, ClaimInv
  <1>0. row \in [Row -> RowRec]
    BY DEF TypeOK, StoreTypeOK
  <1>1. ASSUME UNCHANGED row PROVE SentStays
    BY <1>1
  <1>2. ASSUME NEW p \in Admin, Write(p) PROVE SentStays
    <2> PICK c \in Campaign :
             \/ QueueToWait(p, c) \/ QueueToSend(p, c) \/ Schedule(p, c)
             \/ Delete(p, c) \/ Cancel(p, c) \/ Retry(p, c) \/ Gone(p, c)
      BY <1>2 DEF Write
    <2>1. CASE QueueToSend(p, c)
      BY <1>0, <1>1, <2>1 DEF QueueToSend, StartCampaign, Snapshot, dbVars
    <2>2. CASE Delete(p, c)
      BY <1>0, <2>2, FreshRow DEF Delete
    <2>3. CASE Cancel(p, c)
      BY <1>0, <2>3 DEF Cancel, Skipped
    <2>4. CASE Retry(p, c)
      BY <1>0, <2>4 DEF Retry
    <2> QED
      BY <1>1, <2>1, <2>2, <2>3, <2>4 DEF QueueToWait, Schedule, Gone, dbVars
  <1>3. ASSUME NEW c \in Campaign, SendDirect(c) PROVE SentStays
    BY <1>0, <1>3, RowShape DEF SendDirect, NoOrphans
  <1>4. ASSUME NEW c \in Campaign, Purge(c) PROVE SentStays
    BY <1>0, <1>4, FreshRow DEF Purge
  <1>5. ASSUME NEW d \in Drain, Quiet(d) PROVE SentStays
    BY <1>1, <1>5, QuietSteps
  <1>6. ASSUME NEW d \in Drain, Crash(d) PROVE SentStays
    BY <1>0, <1>6 DEF Crash, Stop, Abandoned, ClaimIsKnown
  <1>7. ASSUME NEW r \in Row, LeaseEnds(r) \/ BackoffEnds(r) PROVE SentStays
    BY <1>0, <1>7 DEF LeaseEnds, BackoffEnds
  <1>8. CASE DeskNext
    BY <1>1, <1>2, <1>3, <1>8 DEF DeskNext, Check, Unschedule, dbVars
  <1>9. CASE Surroundings
    BY <1>1, <1>4, <1>9 DEF Surroundings, Toggle, OptOut, TargetMoves, ClockReaches, dbVars
  <1>10. CASE RunnerNext
    BY <1>5, <1>6, <1>7, <1>10, SentStaysInDrains DEF RunnerNext, Quiet
  <1> QED
    BY <1>8, <1>9, <1>10

\* What was reported as sent is never reported otherwise: no late settlement, no
\* lease, no cancel and no crash takes it back.
THEOREM SentIsFinalAlways ==
    ASSUME RetryIsSafe
    PROVE  Spec => SentIsFinal
  <1>1. TypeOK /\ ClaimInv /\ [Next]_vars => [SentStays]_vars
    BY SentStaysElsewhere DEF Next
  <1>2. SentStays <=> \A r \in Row : row[r].st = "SENT" => row'[r].st \in {"SENT", "ABSENT"}
    BY DEF SentStays
  <1> QED
    BY <1>1, <1>2, Typing, Claims, PTL DEF Spec, SentIsFinal

-----------------------------------------------------------------------------
(***************************************************************************)
(* The system implements AtMostOnceMail: every step moves the fate of some *)
(* recipients as one of its steps does, or leaves all of them alone.       *)
(***************************************************************************)
GivenUp == {"FAILED", "SKIPPED", "SUPPRESSED"}

\* Nothing is handed over, and the row keeps its place in the promise.
RowStill(r) ==
    /\ mailed'[r] = mailed[r]
    /\ \/ row'[r].st = row[r].st
       \/ mailed[r] = 0 /\ Open(r) /\ Open(r)'
       \/ {row[r].st, row'[r].st} \subseteq GivenUp
       \/ mailed[r] > 0 /\ {row[r].st, row'[r].st} \subseteq GivenUp \cup {"SENDING"}

\* The campaign is deleted neither before nor after, or both.
CampStill(c) == (camp'[c].st = "ABSENT" <=> camp[c].st = "ABSENT") \/ Kind[c] = "DIRECT"

\* The row is given up, closed as it was brought back, or listed.
Closes(r) == /\ mailed'[r] = mailed[r] /\ mailed[r] = 0
             /\ Open(r) /\ row'[r].st \in GivenUp
Reopens(r) == /\ mailed'[r] = mailed[r] /\ mailed[r] = 0
              /\ row[r].st \in GivenUp /\ Open(r)'
Enlists(r) == /\ mailed'[r] = mailed[r] /\ mailed[r] = 0
              /\ row[r].st = "ABSENT" /\ Open(r)'
              /\ camp[r[1]].st # "ABSENT" \/ Kind[r[1]] = "DIRECT"

LEMMA FateStill ==
    ASSUME TypeOK, MailInv, NEW r \in Row, RowStill(r), CampStill(r[1])
    PROVE  Fate(r)' = Fate(r)
  <1>0. mailed[r] \in Nat /\ mailed[r] <= 1
    BY DEF TypeOK, StoreTypeOK, MailInv, AtMostOnce
  <1> QED
    BY <1>0 DEF RowStill, CampStill, Fate, Open, GivenUp

LEMMA FateMoves ==
    ASSUME TypeOK, MailInv, NEW r \in Row, CampStill(r[1])
    PROVE  /\ Closes(r) => Fate(r) = "waiting" /\ Fate(r)' = "closed"
           /\ Reopens(r) => Fate(r) = "closed" /\ Fate(r)' = "waiting"
           /\ Enlists(r) => Fate(r) = "out" /\ Fate(r)' = "waiting"
  BY DEF Closes, Reopens, Enlists, Fate, Open, GivenUp

LEMMA MoveOrStay ==
    ASSUME NEW S \in SUBSET Row, NEW from, NEW to,
           \A r \in S : Fate(r) \in from /\ Fate(r)' = to,
           \A r \in Row \ S : Fate(r)' = Fate(r)
    PROVE  Mail!Move(S, from, to) \/ UNCHANGED [r \in Row |-> Fate(r)]
  <1>1. CASE S = {}
    BY <1>1
  <1>2. CASE S # {}
    BY <1>2 DEF Mail!Move
  <1> QED
    BY <1>1, <1>2

\* A step of the promise, or none.
Kept == Mail!Next \/ UNCHANGED [r \in Row |-> Fate(r)]

LEMMA Stutters ==
    ASSUME TypeOK, MailInv, \A r \in Row : RowStill(r) /\ CampStill(r[1])
    PROVE  Kept
  BY FateStill DEF Kept

LEMMA GivesUp ==
    ASSUME TypeOK, MailInv, \A r \in Row : CampStill(r[1]) /\ (RowStill(r) \/ Closes(r))
    PROVE  Kept
  <1> DEFINE S == {r \in Row : Closes(r)}
  <1>1. \A r \in S : Fate(r) \in {"waiting"} /\ Fate(r)' = "closed"
    BY FateMoves
  <1>2. \A r \in Row \ S : Fate(r)' = Fate(r)
    BY FateStill
  <1> HIDE DEF S
  <1>3. S \in SUBSET Row
    BY DEF S
  <1> QED
    BY <1>1, <1>2, <1>3, MoveOrStay DEF Kept, Mail!Next, Mail!GiveUp

LEMMA BringsBack ==
    ASSUME TypeOK, MailInv, \A r \in Row : CampStill(r[1]) /\ (RowStill(r) \/ Reopens(r))
    PROVE  Kept
  <1> DEFINE S == {r \in Row : Reopens(r)}
  <1>1. \A r \in S : Fate(r) \in {"closed"} /\ Fate(r)' = "waiting"
    BY FateMoves
  <1>2. \A r \in Row \ S : Fate(r)' = Fate(r)
    BY FateStill
  <1> HIDE DEF S
  <1>3. S \in SUBSET Row
    BY DEF S
  <1> QED
    BY <1>1, <1>2, <1>3, MoveOrStay DEF Kept, Mail!Next, Mail!Reopen

LEMMA Lists ==
    ASSUME TypeOK, MailInv, \A r \in Row : CampStill(r[1]) /\ (RowStill(r) \/ Enlists(r))
    PROVE  Kept
  <1> DEFINE S == {r \in Row : Enlists(r)}
  <1>1. \A r \in S : Fate(r) \in {"out"} /\ Fate(r)' = "waiting"
    BY FateMoves
  <1>2. \A r \in Row \ S : Fate(r)' = Fate(r)
    BY FateStill
  <1> HIDE DEF S
  <1>3. S \in SUBSET Row
    BY DEF S
  <1> QED
    BY <1>1, <1>2, <1>3, MoveOrStay DEF Kept, Mail!Next, Mail!Enlist


\* Rows that are deleted take with them what the table knew of their message.
LEMMA Forgets ==
    ASSUME TypeOK, MailInv, NEW c \in Campaign, NEW blank \in {"out", "withdrawn"},
           mailed' = mailed,
           \A r \in Row : r[1] = c => row'[r].st = "ABSENT",
           \A r \in Row : r[1] # c => RowStill(r) /\ CampStill(r[1]),
           blank = "withdrawn" => camp'[c].st = "ABSENT" /\ Kind[c] # "DIRECT",
           blank = "out" => camp'[c].st # "ABSENT" \/ Kind[c] = "DIRECT"
    PROVE  Kept
  <1> DEFINE S == {r \in Row : r[1] = c}
  <1>1. \A r \in Row \ S : Fate(r)' = Fate(r)
    BY FateStill
  <1>2. ASSUME NEW r \in S
        PROVE  Fate(r)' = IF Fate(r) \in {"reached", "told", "forgotten"}
                          THEN "forgotten" ELSE blank
    <2>1. /\ mailed[r] \in Nat /\ mailed[r] <= 1
          /\ row[r].st = "PENDING" => mailed[r] = 0
      BY DEF TypeOK, StoreTypeOK, MailInv, AtMostOnce, UnsentIsUnsent
    <2>2. mailed'[r] = mailed[r] /\ row'[r].st = "ABSENT" /\ r[1] = c
      BY <1>2
    <2>3. CASE mailed[r] = 0
      <3>1. Fate(r)' = blank
        BY <2>2, <2>3 DEF Fate, Open
      <3>2. Fate(r) \notin {"reached", "told", "forgotten"}
        BY <2>3 DEF Fate
      <3> QED
        BY <3>1, <3>2
    <2>4. CASE mailed[r] # 0
      <3>1. Fate(r)' = "forgotten"
        BY <2>1, <2>2, <2>4 DEF Fate
      <3>2. Fate(r) \in {"reached", "told", "forgotten"}
        BY <2>1, <2>4 DEF Fate
      <3> QED
        BY <3>1, <3>2
    <2> QED
      BY <2>3, <2>4
  <1>3. S \in SUBSET Row
    OBVIOUS
  <1> HIDE DEF S
  <1>4. CASE S = {}
    BY <1>1, <1>4 DEF Kept
  <1>5. CASE S # {}
    <2>1. Mail!Forget(S, blank)
      BY <1>1, <1>2, <1>3, <1>5 DEF Mail!Forget
    <2>2. Mail!Forget(S, "out") \/ Mail!Forget(S, "withdrawn")
      BY <2>1
    <2> QED
      BY <1>3, <2>2 DEF Kept, Mail!Next
  <1> QED
    BY <1>4, <1>5

LEMMA StartLists ==
    ASSUME TypeOK, ClaimInv, MailInv, NEW c \in Campaign, StartCampaign(c), mailed' = mailed,
           camp[c].st \in {"DRAFT", "SCHEDULED"}
    PROVE  Kept
  <1>0. camp \in [Campaign -> CampRec] /\ row \in [Row -> RowRec] /\ mailed \in [Row -> Nat]
    BY DEF TypeOK, StoreTypeOK
  <1>1. \A r \in Row : CampStill(r[1])
    BY BornByStart, RowShape DEF CampStill, ClaimInv
  <1>2. ASSUME NEW r \in Row PROVE RowStill(r) \/ Enlists(r)
    <2>1. row'[r] = row[r] \/ (r[1] = c /\ row[r].st = "ABSENT" /\ row'[r] = Fresh)
      BY DEF StartCampaign, Snapshot
    <2>2. r[1] = c /\ row[r].st = "ABSENT" => mailed[r] = 0
      BY <1>0 DEF MailInv, GoneForGood, HandedOver
    <2> QED
      BY <2>1, <2>2, FreshRow DEF RowStill, Enlists, Open
  <1> QED
    BY <1>1, <1>2, Lists

LEMMA DeskKeepsPromise ==
    ASSUME TypeOK, ClaimInv, MailInv, "retry" \notin Ops \/ FailedIsUnsent, DeskNext
    PROVE  Kept
  <1>0. camp \in [Campaign -> CampRec] /\ row \in [Row -> RowRec] /\ mailed \in [Row -> Nat]
    BY DEF TypeOK, StoreTypeOK
  <1>a. mailed' = mailed
    BY DEF DeskNext, Check, Write, Unschedule, SendDirect, logVars
  <1>1. ASSUME UNCHANGED row, \A c \in Campaign : CampStill(c) PROVE Kept
    BY <1>1, <1>a, Stutters, RowShape DEF RowStill
  <1>2. ASSUME NEW p \in Admin, Write(p) PROVE Kept
    <2> PICK c \in Campaign :
             \/ QueueToWait(p, c) \/ QueueToSend(p, c) \/ Schedule(p, c)
             \/ Delete(p, c) \/ Cancel(p, c) \/ Retry(p, c) \/ Gone(p, c)
      BY <1>2 DEF Write
    <2>1. CASE QueueToWait(p, c) \/ Schedule(p, c) \/ Gone(p, c)
      BY <1>0, <1>1, <2>1 DEF QueueToWait, Schedule, Gone, dbVars, CampStill
    <2>2. CASE QueueToSend(p, c)
      BY <1>1, <1>a, <2>2, StartLists DEF QueueToSend, dbVars, CampStill
    <2>3. CASE Delete(p, c)
      <3>1. /\ \A r \in Row : r[1] = c => row'[r].st = "ABSENT"
            /\ \A r \in Row : r[1] # c => row'[r] = row[r]
            /\ \A e \in Campaign : e # c => camp'[e] = camp[e]
            /\ camp'[c].st = "ABSENT"
        BY <1>0, <2>3, FreshRow DEF Delete
      <3>2. Kind[c] # "DIRECT"
        BY <2>3 DEF Delete, ClaimInv, NoOrphans
      <3>3. \A r \in Row : r[1] # c => RowStill(r) /\ CampStill(r[1])
        BY <1>a, <3>1, RowShape DEF RowStill, CampStill
      <3> QED
        BY <1>a, <3>1, <3>2, <3>3, Forgets
    <2>4. CASE Cancel(p, c)
      <3>1. \A e \in Campaign : CampStill(e)
        BY <1>0, <2>4 DEF Cancel, CampStill
      <3>2. ASSUME NEW r \in Row PROVE RowStill(r) \/ Closes(r)
        <4>1. row'[r] = row[r] \/ (row[r].st = "PENDING" /\ row'[r].st = "SKIPPED")
          BY <1>0, <2>4, FreedRow DEF Cancel, Skipped, RowStatus
        <4> QED
          BY <1>a, <4>1 DEF RowStill, Closes, Open, GivenUp, MailInv, UnsentIsUnsent
      <3> QED
        BY <3>1, <3>2, GivesUp, RowShape
    <2>5. CASE Retry(p, c)
      <3>1. "retry" \in Ops
        BY <2>5 DEF Retry, Asked, About, TypeOK, DeskTypeOK, Request, Idle
      <3>2. \A e \in Campaign : CampStill(e)
        BY <1>0, <2>5 DEF Retry, CampStill
      <3>3. ASSUME NEW r \in Row PROVE RowStill(r) \/ Reopens(r)
        <4>1. row'[r] = row[r] \/ (row[r].st = "FAILED" /\ row'[r].st = "PENDING")
          BY <2>5, FreshRow DEF Retry
        <4>2. row[r].st = "FAILED" => mailed[r] = 0
          BY <3>1 DEF FailedIsUnsent
        <4> QED
          BY <1>a, <4>1, <4>2 DEF RowStill, Reopens, Open, GivenUp
      <3> QED
        BY <3>2, <3>3, BringsBack, RowShape
    <2> QED
      BY <2>1, <2>2, <2>3, <2>4, <2>5
  <1>3. ASSUME NEW c \in Campaign, SendDirect(c) PROVE Kept
    <2>1. \A e \in Campaign : CampStill(e)
      BY <1>0, <1>3 DEF SendDirect, CampStill
    <2>2. ASSUME NEW r \in Row PROVE RowStill(r) \/ Enlists(r)
      <3>1. row'[r] = row[r] \/ (r[1] = c /\ row'[r] = Fresh)
        BY <1>3 DEF SendDirect
      <3>2. r[1] = c => row[r].st = "ABSENT" /\ mailed[r] = 0
        BY <1>0, <1>3 DEF SendDirect, ClaimInv, NoOrphans, MailInv, GoneForGood, HandedOver
      <3> QED
        BY <1>3, <1>a, <3>1, <3>2, FreshRow DEF SendDirect, RowStill, Enlists, Open
    <2> QED
      BY <2>1, <2>2, Lists, RowShape
  <1>4. ASSUME NEW c \in Campaign, Unschedule(c) PROVE Kept
    BY <1>0, <1>1, <1>4 DEF Unschedule, CampStill
  <1>5. ASSUME NEW p \in Admin, Check(p) PROVE Kept
    BY <1>1, <1>5 DEF Check, dbVars, CampStill
  <1> QED
    BY <1>2, <1>3, <1>4, <1>5 DEF DeskNext

LEMMA SurroundingsKeepPromise ==
    ASSUME TypeOK, MailInv, Surroundings
    PROVE  Kept
  <1>0. camp \in [Campaign -> CampRec] /\ row \in [Row -> RowRec]
    BY DEF TypeOK, StoreTypeOK
  <1>a. mailed' = mailed
    BY DEF Surroundings, Toggle, OptOut, TargetMoves, ClockReaches, Purge, logVars
  <1>b. \A c \in Campaign : camp'[c].st = camp[c].st
    BY <1>0 DEF Surroundings, Toggle, OptOut, TargetMoves, ClockReaches, Purge, dbVars, CampRec
  <1>1. CASE UNCHANGED row
    BY <1>1, <1>a, <1>b, Stutters, RowShape DEF RowStill, CampStill
  <1>2. ASSUME NEW c \in Campaign, Purge(c) PROVE Kept
    <2>1. /\ \A r \in Row : r[1] = c => row'[r].st = "ABSENT"
          /\ \A r \in Row : r[1] # c => row'[r] = row[r]
          /\ camp'[c].st # "ABSENT"
      BY <1>2, FreshRow DEF Purge, Finished
    <2>2. \A r \in Row : r[1] # c => RowStill(r) /\ CampStill(r[1])
      BY <1>a, <1>b, <2>1, RowShape DEF RowStill, CampStill
    <2> QED
      BY <1>a, <2>1, <2>2, Forgets
  <1> QED
    BY <1>1, <1>2 DEF Surroundings, Toggle, OptOut, TargetMoves, ClockReaches, dbVars


\* The statements of a drain that close rows, put them back or leave them, and
\* that hand nothing over.
LEMMA DrainKeepsPromise ==
    ASSUME TypeOK, ClaimInv, MailInv, NEW d \in Drain,
           DrainStep(d) \/ Stop(d), ~Quiet(d), \A r \in Row : ~HandOver(d, r) /\ ~Settle(d, r)
    PROVE  Kept
  <1> USE DEF ClaimInv
  <1>0. /\ camp \in [Campaign -> CampRec] /\ row \in [Row -> RowRec] /\ mailed \in [Row -> Nat]
        /\ held \in [Drain -> SUBSET Row] /\ flight \in [Drain -> SUBSET Row]
        /\ \A r \in Row : r[1] \in Campaign
    BY RowShape DEF TypeOK, StoreTypeOK, DrainTypeOK
  <1>1. ASSUME NEW r \in held[d], pc[d] # "settle" PROVE mailed[r] = 0
    BY <1>1 DEF MailInv, UnsentIsUnsent, HeldWhileSending
  <1>2. ASSUME mailed' = mailed, camp' = camp,
               \A r \in Row : row'[r].st = row[r].st \/ (mailed[r] = 0 /\ Open(r) /\ Open(r)')
        PROVE  Kept
    BY <1>2, Stutters DEF RowStill, CampStill
  <1>3. CASE ExpireLeases(d)
    <2>1. mailed' = mailed /\ camp' = camp
      BY <1>3 DEF ExpireLeases, logVars
    <2>2. \A r \in Row : row'[r] = row[r] \/ (row[r].st = "SENDING" /\ row'[r].st = "FAILED")
      BY <1>0, <1>3, FreedRow DEF ExpireLeases, RowStatus
    <2>3. \A r \in Row : RowStill(r) \/ Closes(r)
      BY <1>0, <2>1, <2>2 DEF RowStill, Closes, Open, GivenUp
    <2> QED
      BY <2>1, <2>3, GivesUp DEF CampStill
  <1>4. ASSUME NEW c \in Campaign, StartDue(d, c) PROVE Kept
    <2>1. mailed' = mailed
      BY <1>4 DEF StartDue, logVars
    <2>2. CASE StartCampaign(c) /\ camp[c].st \in {"DRAFT", "SCHEDULED"}
      BY <2>1, <2>2, StartLists
    <2>3. CASE UNCHANGED dbVars
      BY <1>2, <2>1, <2>3 DEF dbVars
    <2>4. CASE camp' = (IF camp[c].st = "SCHEDULED"
                        THEN [camp EXCEPT ![c].st = "CANCELLED"] ELSE camp) /\ UNCHANGED row
      <3>1. \A e \in Campaign : CampStill(e)
        BY <1>0, <2>4 DEF CampStill
      <3> QED
        BY <1>0, <2>1, <2>4, <3>1, Stutters DEF RowStill
    <2> QED
      BY <1>4, <2>2, <2>3, <2>4 DEF StartDue
  <1>5. CASE Claim(d)
    <2> PICK S \in SUBSET Claimable(d) :
            row' = [r \in Row |-> IF r \in S THEN Taken(row[r], d) ELSE row[r]]
      BY <1>5 DEF Claim
    <2>1. \A r \in S : row[r].st = "PENDING" /\ row'[r].st = "SENDING" /\ mailed[r] = 0
      BY <1>0, TakenRow DEF Claimable, MailInv, UnsentIsUnsent
    <2> QED
      BY <1>0, <1>2, <1>5, <2>1 DEF Claim, Open, logVars
  <1>6. CASE Select(d)
    <2>1. mailed' = mailed /\ camp' = camp
      BY <1>6 DEF Select, logVars
    <2>2. ASSUME NEW r \in Row, row'[r] # row[r]
          PROVE  row[r].st = "SENDING" /\ row'[r].st = "SKIPPED" /\ mailed[r] = 0
      <3>1. row[r].tok = d /\ row'[r] = Freed(row[r], "SKIPPED") /\ pc[d] = "select"
        BY <1>6, <2>2 DEF Select
      <3> QED
        BY <1>0, <3>1, FreedRow DEF ClaimIsKnown, MailInv, UnsentIsUnsent, RowStatus
    <2>3. \A r \in Row : RowStill(r) \/ Closes(r)
      BY <2>1, <2>2 DEF RowStill, Closes, Open, GivenUp
    <2> QED
      BY <2>1, <2>3, GivesUp DEF CampStill
  <1>7. CASE GiveBack(d)
    <2>1. ASSUME NEW r \in Row, row'[r] # row[r]
          PROVE  row[r].st = "SENDING" /\ row'[r].st = "PENDING" /\ mailed[r] = 0
      <3>1. r \in held[d] /\ row[r].st = "SENDING" /\ row'[r] = Freed(row[r], "PENDING")
        BY <1>7, <2>1 DEF GiveBack, Released, Hand
      <3> QED
        BY <1>0, <1>1, <1>7, <3>1, FreedRow DEF GiveBack, RowStatus
    <2> QED
      BY <1>2, <1>7, <2>1 DEF GiveBack, Open, logVars
  <1>8. ASSUME NEW c \in Campaign, CancelForTarget(d, c) PROVE Kept
    <2>1. mailed' = mailed /\ \A e \in Campaign : CampStill(e)
      BY <1>0, <1>8 DEF CancelForTarget, logVars, CampStill
    <2>2. \A r \in Row : row'[r] = row[r] \/ (Open(r) /\ row'[r].st = "SKIPPED")
      BY <1>0, <1>8, FreedRow DEF CancelForTarget, Skipped, Open, RowStatus
    <2>3. \A r \in Row : RowStill(r) \/ Closes(r)
      BY <1>0, <2>1, <2>2 DEF RowStill, Closes, Open, GivenUp, MailInv, UnsentIsUnsent
    <2> QED
      BY <1>0, <2>1, <2>3, GivesUp
  <1>9. ASSUME NEW c \in Campaign, CompleteIfDone(d, c) PROVE Kept
    <2>1. mailed' = mailed /\ row' = row /\ \A e \in Campaign : CampStill(e)
      BY <1>0, <1>9 DEF CompleteIfDone, logVars, CampStill
    <2> QED
      BY <1>0, <2>1, Stutters DEF RowStill
  <1>10. ASSUME NEW r \in Row, Suppress(d, r) PROVE Kept
    <2>1. mailed' = mailed /\ camp' = camp
      BY <1>10 DEF Suppress, logVars
    <2>2. r \in held[d] /\ mailed[r] = 0
      BY <1>1, <1>10 DEF Suppress, Hand
    <2>3. row[r].st \in {"SENDING", "FAILED", "SKIPPED"} /\ row'[r].st = "SUPPRESSED"
      BY <1>0, <1>10, <2>2, FreedRow DEF Suppress, Settled, HeldIsOwn, RowStatus
    <2>4. \A s \in Row : RowStill(s) \/ Closes(s)
      BY <1>0, <1>10, <2>1, <2>2, <2>3
         DEF Suppress, Settled, RowStill, Closes, Open, GivenUp
    <2> QED
      BY <2>1, <2>4, GivesUp DEF CampStill
  <1>11. ASSUME NEW r \in Row, Pause(d, r) PROVE Kept
    <2> DEFINE rows == [Released(Hand(d) \ {r}) EXCEPT ![r] = Freed(row[r], "PENDING")]
    <2>1. mailed' = mailed /\ camp' = camp /\ row' = Abandoned(rows, d)
      BY <1>11 DEF Pause, logVars
    <2>2. r \in held[d] /\ mailed[r] = 0 /\ row[r].st \in {"SENDING", "FAILED", "SKIPPED"}
      BY <1>0, <1>11 DEF Pause, HeldWhileSending, HeldIsOwn, MailInv, UnsentIsUnsent
    <2>3. \A s \in Hand(d) \ {r} : mailed[s] = 0
      BY <1>0, <1>11 DEF Pause, Hand, HeldWhileSending, MailInv, UnsentIsUnsent
    <2>4. /\ rows \in [Row -> RowRec] /\ rows[r].st = "PENDING"
          /\ \A s \in Row : s # r => \/ rows[s] = row[s]
                                     \/ /\ s \in Hand(d) \ {r} /\ row[s].st = "SENDING"
                                        /\ rows[s].st = "PENDING"
      BY <1>0, ReleasedType, FreedRow DEF Released, TypeOK, StoreTypeOK, RowStatus
    <2> HIDE DEF rows
    <2>5. \A s \in Row : row'[s].st = rows[s].st
      BY <2>1, <2>4 DEF Abandoned, RowRec
    <2>6. \A s \in Row : RowStill(s) \/ Reopens(s)
      BY <1>0, <2>1, <2>2, <2>3, <2>4, <2>5 DEF RowStill, Reopens, Open, GivenUp
    <2> QED
      BY <2>1, <2>6, BringsBack DEF CampStill
  <1>12. CASE Stop(d)
    <2>1. \A s \in Row : row'[s].st = row[s].st
      BY <1>0, <1>12 DEF Stop, Abandoned, RowRec
    <2> QED
      BY <1>2, <1>12, <2>1 DEF Stop, logVars
  <1> QED
    BY <1>3, <1>4, <1>5, <1>6, <1>7, <1>8, <1>9, <1>10, <1>11, <1>12 DEF DrainStep, Quiet, Throw

\* Handing a message over reaches its recipient, or changes nothing.
LEMMA HandOverKeepsPromise ==
    ASSUME TypeOK, ClaimInv, MailInv, "lostReply" \notin Events,
           NEW d \in Drain, NEW r \in Row, HandOver(d, r)
    PROVE  Kept
  <1> USE DEF ClaimInv
  <1>0. mailed \in [Row -> Nat] /\ row' = row /\ camp' = camp
    BY DEF TypeOK, StoreTypeOK, HandOver, dbVars
  <1> PICK answer \in Answers(d) : mailed' = [mailed EXCEPT ![r] = @ + answer.sent]
    BY DEF HandOver
  <1>1. answer.sent \in {0, 1}
    BY DEF Answers, Answer
  <1>2. r \in held[d] /\ flight[d] = {} /\ pc[d] = "send"
    BY DEF HandOver, Hand, HeldWhileSending
  <1>3. mailed[r] = 0 /\ row[r].st \in {"SENDING", "FAILED", "SKIPPED", "ABSENT"}
    BY <1>2 DEF MailInv, UnsentIsUnsent, HeldIsOwn
  <1>4. \A s \in Row \ {r} : Fate(s)' = Fate(s)
    <2>1. \A s \in Row \ {r} : RowStill(s) /\ CampStill(s[1])
      BY <1>0 DEF RowStill, CampStill
    <2> QED
      BY <2>1, FateStill
  <1>5. CASE answer.sent = 0
    <2>1. \A s \in Row : RowStill(s) /\ CampStill(s[1])
      BY <1>0, <1>5 DEF RowStill, CampStill
    <2> QED
      BY <2>1, Stutters
  <1>6. CASE answer.sent = 1
    <2>1. mailed'[r] = 1
      BY <1>0, <1>3, <1>6
    <2>2. CASE row[r].st = "ABSENT"
      <3>1. camp[r[1]].st = "ABSENT" /\ Kind[r[1]] # "DIRECT"
        BY <1>2, <2>2 DEF HeldIsOwn
      <3>2. Fate(r) = "withdrawn"
        BY <1>3, <2>2, <3>1 DEF Fate, Open
      <3>3. Fate(r)' = "forgotten"
        BY <1>0, <2>1, <2>2 DEF Fate, Open
      <3>4. Mail!Move({r}, {"withdrawn"}, "forgotten")
        BY <1>4, <3>2, <3>3 DEF Mail!Move
      <3> QED
        BY <3>4 DEF Kept, Mail!Next, Mail!Deliver
    <2>3. CASE row[r].st # "ABSENT"
      <3>1. Fate(r) \in {"waiting", "closed"}
        BY <1>3, <2>3 DEF Fate, Open
      <3>2. Fate(r)' = "reached"
        BY <1>0, <1>3, <2>1, <2>3 DEF Fate, Open
      <3>3. Mail!Move({r}, {"waiting", "closed"}, "reached")
        BY <1>4, <3>1, <3>2 DEF Mail!Move
      <3> QED
        BY <3>3 DEF Kept, Mail!Next, Mail!Deliver
    <2> QED
      BY <2>2, <2>3
  <1> QED
    BY <1>1, <1>5, <1>6

\* Settling an answer reports what was sent, and nothing else.
LEMMA SettleKeepsPromise ==
    ASSUME TypeOK, ClaimInv, MailInv, NEW d \in Drain, NEW r \in Row, Settle(d, r)
    PROVE  Kept
  <1> USE DEF ClaimInv
  <1>0. /\ row \in [Row -> RowRec] /\ mailed \in [Row -> Nat]
        /\ mailed' = mailed /\ camp' = camp /\ row' = [row EXCEPT ![r] = Settlement(d, r)]
    BY DEF TypeOK, StoreTypeOK, Settle, logVars
  <1>1. /\ r \in held[d] /\ row[r].st \in {"SENDING", "FAILED", "SKIPPED"}
        /\ mailed[r] = IF mem[d].res = "SENT" THEN 1 ELSE 0
    BY DEF Settle, HeldWhileSending, HeldIsOwn, MailInv, UnsentIsUnsent
  <1>2. /\ row'[r].st \in {"SENT", "PENDING", "FAILED"}
        /\ row'[r].st = "SENT" <=> mem[d].res = "SENT"
    BY <1>0, SettlementRow, FreedRow DEF TypeOK, Settlement, RowStatus
  <1>3. \A s \in Row \ {r} : RowStill(s)
    BY <1>0 DEF RowStill
  <1>4. \A s \in Row : CampStill(s[1])
    BY <1>0 DEF CampStill
  <1>5. CASE row'[r].st = "SENT"
    <2>1. mailed[r] = 1
      BY <1>1, <1>2, <1>5
    <2>2. Fate(r) = "reached"
      BY <1>1, <2>1 DEF Fate, Open
    <2>3. Fate(r)' = "told"
      BY <1>0, <1>5, <2>1 DEF Fate, Open
    <2>4. \A s \in Row \ {r} : Fate(s)' = Fate(s)
      BY <1>3, <1>4, FateStill
    <2>5. Mail!Move({r}, {"reached"}, "told")
      BY <2>2, <2>3, <2>4 DEF Mail!Move
    <2> QED
      BY <2>5 DEF Kept, Mail!Next, Mail!Report
  <1>6. CASE row'[r].st = "PENDING"
    <2>1. RowStill(r) \/ Reopens(r)
      BY <1>0, <1>1, <1>2, <1>6 DEF RowStill, Reopens, Open, GivenUp
    <2> QED
      BY <1>3, <1>4, <2>1, BringsBack
  <1>7. CASE row'[r].st = "FAILED"
    <2>1. RowStill(r) \/ Closes(r)
      BY <1>0, <1>1, <1>2, <1>7 DEF RowStill, Closes, Open, GivenUp
    <2> QED
      BY <1>3, <1>4, <2>1, GivesUp
  <1> QED
    BY <1>2, <1>5, <1>6, <1>7

LEMMA RunnerKeepsPromise ==
    ASSUME TypeOK, ClaimInv, MailInv, "lostReply" \notin Events, RunnerNext
    PROVE  Kept
  <1>0. row \in [Row -> RowRec]
    BY DEF TypeOK, StoreTypeOK
  <1>1. ASSUME NEW d \in Drain, Quiet(d) PROVE Kept
    BY <1>1, QuietSteps, Stutters DEF RowStill, CampStill
  <1>2. ASSUME NEW d \in Drain, DrainStep(d) \/ Stop(d) PROVE Kept
    BY <1>1, <1>2, DrainKeepsPromise, HandOverKeepsPromise, SettleKeepsPromise
  <1>3. ASSUME NEW r \in Row, LeaseEnds(r) \/ BackoffEnds(r) PROVE Kept
    <2>1. /\ mailed' = mailed /\ camp' = camp
          /\ \A s \in Row : row'[s].st = row[s].st
      BY <1>0, <1>3 DEF LeaseEnds, BackoffEnds, logVars, RowRec
    <2> QED
      BY <2>1, Stutters DEF RowStill, CampStill
  <1> QED
    BY <1>1, <1>2, <1>3 DEF RunnerNext, Quiet, Crash

\* The whole system keeps the promise AtMostOnceMail makes each recipient: every
\* statement of every drain, request and surrounding event, in any order, is a
\* step of it or none.  What has to be assumed is that no answer of the provider
\* is lost, and that staff do not retry where drains lose claims.
THEOREM KeepsPromiseAlways ==
    ASSUME RetryIsSafe, "lostReply" \notin Events
    PROVE  Spec => KeepsPromise
  <1>1. Init => Mail!Init
    <2> SUFFICES ASSUME Init PROVE Mail!Init
      OBVIOUS
    <2>1. \A r \in Row : /\ mailed[r] = 0 /\ row[r].st = "ABSENT"
                        /\ camp[r[1]].st = IF Kind[r[1]] = "DIRECT" THEN "ABSENT" ELSE "DRAFT"
      BY FreshRow, RowShape DEF Init, StoreInit
    <2>2. \A r \in Row : Fate(r) = "out"
      BY <2>1 DEF Fate, Open
    <2> QED
      BY <2>2 DEF Mail!Init
  <1>2. TypeOK /\ ClaimInv /\ MailInv /\ (LeasesLast => FailedIsUnsent) /\ [Next]_vars
            => Mail!Next \/ UNCHANGED [r \in Row |-> Fate(r)]
    <2> SUFFICES ASSUME TypeOK, ClaimInv, MailInv, LeasesLast => FailedIsUnsent, [Next]_vars
                 PROVE  Kept
      BY DEF Kept
    <2>1. CASE Next
      BY <2>1, DeskKeepsPromise, RunnerKeepsPromise, SurroundingsKeepPromise
         DEF Next, RetryIsSafe
    <2>2. CASE UNCHANGED vars
      BY <2>2, Stutters DEF vars, storeVars, RowStill, CampStill
    <2> QED
      BY <2>1, <2>2
  <1>3. TypeOK /\ ClaimInv /\ MailInv /\ (LeasesLast => FailedIsUnsent) /\ [Next]_vars
            => [Mail!Next]_([r \in Row |-> Fate(r)])
    BY <1>2
  <1> QED
    BY <1>1, <1>3, Typing, Claims, Promise, PTL DEF Spec, KeepsPromise, Mail!Spec

-----------------------------------------------------------------------------
(***************************************************************************)
(* A closed row that no drain has in hand is left alone by all of them.    *)
(***************************************************************************)
LEMMA ClosedRowsRest ==
    ASSUME TypeOK, ClaimInv, NEW d \in Drain, DrainStep(d) \/ Stop(d) \/ Quiet(d),
           NEW r \in Row, r \notin held[d], ~Open(r),
           row[r].st # "ABSENT" \/ \A c \in Campaign : ~StartDue(d, c)
    PROVE  row'[r] = row[r]
  <1> USE DEF ClaimInv, Open
  <1>0. row \in [Row -> RowRec]
    BY DEF TypeOK, StoreTypeOK
  <1>1. row[r].tok # d
    BY DEF ClaimIsKnown
  <1>2. CASE Quiet(d)
    BY <1>2, QuietSteps
  <1>3. CASE ExpireLeases(d)
    BY <1>3 DEF ExpireLeases
  <1>4. ASSUME NEW c \in Campaign, StartDue(d, c) PROVE row'[r] = row[r]
    <2>1. row[r].st # "ABSENT"
      BY <1>4
    <2> QED
      BY <1>4, <2>1 DEF StartDue, StartCampaign, Snapshot, dbVars
  <1>5. CASE Claim(d)
    BY <1>5 DEF Claim, Claimable
  <1>6. CASE Select(d)
    BY <1>1, <1>6 DEF Select
  <1>7. CASE GiveBack(d)
    BY <1>7 DEF GiveBack, Released
  <1>8. ASSUME NEW c \in Campaign, CancelForTarget(d, c) PROVE row'[r] = row[r]
    BY <1>8 DEF CancelForTarget, Skipped
  <1>9. ASSUME NEW s \in Row, Suppress(d, s) PROVE row'[r] = row[r]
    BY <1>0, <1>9 DEF Suppress, Settled, Hand
  <1>10. ASSUME NEW s \in Row, Settle(d, s) PROVE row'[r] = row[r]
    BY <1>0, <1>10 DEF Settle, HeldWhileSending
  <1>11. ASSUME NEW s \in Row, Pause(d, s) PROVE row'[r] = row[r]
    <2> DEFINE rows == [Released(Hand(d) \ {s}) EXCEPT ![s] = Freed(row[s], "PENDING")]
    <2>1. s # r
      BY <1>11 DEF Pause, HeldWhileSending
    <2>2. rows[r] = row[r]
      BY <1>0, <2>1 DEF Released
    <2>3. row' = Abandoned(rows, d)
      BY <1>11 DEF Pause
    <2> HIDE DEF rows
    <2> QED
      BY <1>1, <2>2, <2>3 DEF Abandoned
  <1>12. CASE Stop(d)
    BY <1>1, <1>12 DEF Stop, Abandoned
  <1> QED
    BY <1>2, <1>3, <1>4, <1>5, <1>6, <1>7, <1>8, <1>9, <1>10, <1>11, <1>12
       DEF DrainStep, Quiet, Throw, HandOver, CompleteIfDone, dbVars

\* A drain puts a failed row back to wait only with the answer to the send that outlived
\* its lease, which has mailed nothing.
LEMMA OnlyAnswersBringBack ==
    ASSUME TypeOK, ClaimInv, MailInv, NEW d \in Drain, DrainStep(d) \/ Stop(d) \/ Quiet(d),
           NEW r \in Row, row[r].st = "FAILED", row'[r].st = "PENDING"
    PROVE  mailed[r] = 0 /\ Answered(d, r)
  <1> DEFINE Goal == mailed[r] = 0 /\ Answered(d, r)
  <1>0. row \in [Row -> RowRec] /\ row'[r] # row[r]
    BY DEF TypeOK, StoreTypeOK
  <1>1. r \in held[d]
    BY <1>0, ClosedRowsRest DEF Open
  <1>2. CASE Quiet(d)
    BY <1>0, <1>2, QuietSteps
  <1>3. CASE ExpireLeases(d)
    BY <1>3 DEF ExpireLeases
  <1>4. ASSUME NEW c \in Campaign, StartDue(d, c) PROVE Goal
    BY <1>4 DEF StartDue, StartCampaign, Snapshot, dbVars
  <1>5. CASE Claim(d)
    BY <1>0, <1>5, TakenRow DEF Claim, Claimable
  <1>6. CASE Select(d)
    BY <1>0, <1>6, FreedRow DEF Select, RowStatus
  <1>7. CASE GiveBack(d)
    BY <1>7 DEF GiveBack, Released
  <1>8. ASSUME NEW c \in Campaign, CancelForTarget(d, c) PROVE Goal
    BY <1>8 DEF CancelForTarget, Skipped
  <1>9. ASSUME NEW s \in Row, Suppress(d, s) PROVE Goal
    BY <1>0, <1>9, FreedRow DEF Suppress, Settled, RowStatus
  <1>10. ASSUME NEW s \in Row, Settle(d, s) PROVE Goal
    <2>1. s = r /\ r \in flight[d] /\ flight' = [flight EXCEPT ![d] = {}]
      BY <1>0, <1>10 DEF Settle
    <2>2. mem[d].res # "SENT"
      BY <1>0, <1>10, <2>1, FreedRow DEF Settle, Settlement, RowStatus
    <2>3. mailed[r] = 0
      BY <1>1, <2>1, <2>2 DEF MailInv, UnsentIsUnsent
    <2> QED
      BY <2>1, <2>3 DEF Answered, TypeOK, DrainTypeOK
  <1>11. ASSUME NEW s \in Row, Pause(d, s) PROVE Goal
    <2> DEFINE rows == [Released(Hand(d) \ {s}) EXCEPT ![s] = Freed(row[s], "PENDING")]
    <2>1. CASE s = r
      <3>1. r \in flight[d] /\ flight' = [flight EXCEPT ![d] = {}] /\ mem[d].res # "SENT"
        BY <1>11, <2>1 DEF Pause
      <3>2. mailed[r] = 0
        BY <1>1, <3>1 DEF MailInv, UnsentIsUnsent
      <3> QED
        BY <3>1, <3>2 DEF Answered, TypeOK, DrainTypeOK
    <2>2. CASE s # r
      <3>1. rows[r] = row[r]
        BY <1>0, <2>2 DEF Released
      <3>2. row' = Abandoned(rows, d)
        BY <1>11 DEF Pause
      <3> HIDE DEF rows
      <3> QED
        BY <1>0, <3>1, <3>2 DEF Abandoned, RowRec
    <2> QED
      BY <2>1, <2>2
  <1>12. CASE Stop(d)
    BY <1>0, <1>12 DEF Stop, Abandoned, RowRec
  <1> QED
    BY <1>0, <1>2, <1>3, <1>4, <1>5, <1>6, <1>7, <1>8, <1>9, <1>10, <1>11, <1>12
       DEF DrainStep, Quiet, Throw, HandOver, CompleteIfDone, dbVars

\* What has failed waits again because a person retries it, or because the send that
\* outlived its lease is answered at last and has mailed nothing: whatever dies, hangs,
\* is switched off, cancelled or deleted, as long as nobody retries; and with retries as
\* long as no drain loses a claim.
THEOREM FailedComesBackUnsentAlways ==
    ASSUME RetryIsSafe, "lostReply" \notin Events
    PROVE  Spec => FailedComesBackUnsent
  <1> DEFINE Retried(r) == \E p \in Admin : Asked(p, "retry", r[1]) /\ ask'[p] = Idle
             Back(r) == row[r].st = "FAILED" /\ row'[r].st = "PENDING" =>
                           \/ Retried(r)
                           \/ mailed[r] = 0 /\ \E d \in Drain : Answered(d, r)
             Step == \A r \in Row : Back(r)
  <1>1. ASSUME TypeOK, ClaimInv, MailInv, Next, NEW r \in Row PROVE Back(r)
    <2> SUFFICES ASSUME row[r].st = "FAILED", row'[r].st = "PENDING",
                        ~(mailed[r] = 0 /\ \E d \in Drain : Answered(d, r))
                 PROVE  Retried(r)
      BY DEF Back
    <2>0. /\ row \in [Row -> RowRec] /\ ask \in [Admin -> Request \cup {Idle}]
      BY <1>1 DEF TypeOK, StoreTypeOK, DeskTypeOK
    <2>1. row' # row
      OBVIOUS
    <2>2. ASSUME NEW d \in Drain, DrainStep(d) \/ Stop(d) \/ Quiet(d) PROVE FALSE
      BY <1>1, <2>2, OnlyAnswersBringBack
    <2>3. ASSUME NEW s \in Row, LeaseEnds(s) \/ BackoffEnds(s) PROVE FALSE
      BY <2>0, <2>3 DEF LeaseEnds, BackoffEnds
    <2>4. ~RunnerNext
      BY <2>2, <2>3 DEF RunnerNext, Quiet, Crash
    <2>5. ASSUME NEW c \in Campaign, Purge(c) \/ SendDirect(c) PROVE FALSE
      BY <1>1, <2>0, <2>5, FreshRow DEF Purge, SendDirect, ClaimInv, NoOrphans
    <2>6. ~Surroundings
      BY <2>1, <2>5 DEF Surroundings, Toggle, OptOut, TargetMoves, ClockReaches, dbVars
    <2>7. DeskNext
      BY <1>1, <2>4, <2>6 DEF Next
    <2>8. PICK p \in Admin : Write(p)
      BY <2>1, <2>5, <2>7 DEF DeskNext, Check, Unschedule, dbVars
    <2> PICK c \in Campaign :
             \/ QueueToWait(p, c) \/ QueueToSend(p, c) \/ Schedule(p, c)
             \/ Delete(p, c) \/ Cancel(p, c) \/ Retry(p, c) \/ Gone(p, c)
      BY <2>8 DEF Write
    <2>9. ~QueueToWait(p, c) /\ ~Schedule(p, c) /\ ~Gone(p, c)
      BY <2>1 DEF QueueToWait, Schedule, Gone, dbVars
    <2>10. ~QueueToSend(p, c) /\ ~Delete(p, c) /\ ~Cancel(p, c)
      BY FreshRow DEF QueueToSend, StartCampaign, Snapshot, Delete, Cancel, Skipped, dbVars
    <2>11. Retry(p, c) /\ r[1] = c
      BY <2>9, <2>10 DEF Retry
    <2> QED
      BY <2>0, <2>8, <2>11 DEF Retry, Write, Done
  <1>2. TypeOK /\ ClaimInv /\ MailInv /\ [Next]_vars => [Step]_vars
    BY <1>1 DEF Step
  <1>3. Step <=> \A r \in Row :
                    row[r].st = "FAILED" /\ row'[r].st = "PENDING" =>
                       \/ \E p \in Admin : Asked(p, "retry", r[1]) /\ ask'[p] = Idle
                       \/ mailed[r] = 0 /\ \E d \in Drain : Answered(d, r)
    OBVIOUS
  <1>4. Spec => []ClaimInv /\ []MailInv
    BY Claims, Promise, PTL
  <1> HIDE DEF Step
  <1> QED
    BY <1>2, <1>3, <1>4, Typing, PTL DEF Spec, FailedComesBackUnsent

-----------------------------------------------------------------------------
(***************************************************************************)
(* A campaign is reported SENT when its last row is closed, and no row of  *)
(* it is opened again unless it is SENDING again.                          *)
(***************************************************************************)
LEMMA TargetsStay ==
    ASSUME "target" \notin Events, [Next]_vars
    PROVE  target' = target
  <1>1. ASSUME NEW d \in Drain, DrainStep(d) \/ Stop(d) \/ Quiet(d) PROVE target' = target
    BY <1>1 DEF DrainStep, Quiet, ExpireLeases, StartDue, Claim, Select, CancelForTarget, GiveBack,
                Throw, Stop, Suppress, Settle, Pause, CompleteIfDone, HandOver, CronTick, Gate,
                NothingToClaim, BatchDone, CampaignDone, Return, BudgetEnds, Kick, OpenSession,
                Begin, storeVars, envVars
  <1>2. CASE RunnerNext
    BY <1>1, <1>2 DEF RunnerNext, Quiet, Crash, LeaseEnds, BackoffEnds, envVars
  <1>3. CASE DeskNext \/ Surroundings
    BY <1>3 DEF DeskNext, Check, Write, Unschedule, SendDirect, Surroundings, Toggle, OptOut,
                TargetMoves, ClockReaches, Purge, envVars
  <1> QED
    BY <1>2, <1>3 DEF Next, vars, storeVars

\* The campaigns that a step starts, or is asked to start, have a source.
NewcomersHaveSource ==
    \A c \in Campaign : Underway(c)' => Underway(c) \/ ~SourceMissing(c)

\* The rows in hand stay in hand as they are; a claim is read for what is sent.
HandsRest ==
    \A d \in Drain : \A r \in held'[d] :
        \/ r \in held[d] /\ row'[r] = row[r]
        \/ r \in Row /\ row'[r].st = "SENDING" /\ camp[r[1]].st = "SENDING"

LEMMA SourceStays ==
    ASSUME TypeOK, SourceThere, target' = target, NewcomersHaveSource, HandsRest
    PROVE  SourceThere'
  <1>1. \A c : SourceMissing(c)' = SourceMissing(c)
    BY DEF SourceMissing
  <1>2. ASSUME NEW d \in Drain, NEW r \in held'[d]
        PROVE  row'[r].st = "SENDING" /\ ~SourceMissing(r[1])
    <2>1. CASE r \in held[d] /\ row'[r] = row[r]
      BY <2>1 DEF SourceThere
    <2>2. CASE r \in Row /\ row'[r].st = "SENDING" /\ camp[r[1]].st = "SENDING"
      BY <2>2, RowShape DEF SourceThere, Underway
    <2> QED
      BY <1>2, <2>1, <2>2 DEF HandsRest
  <1> QED
    BY <1>1, <1>2 DEF SourceThere, NewcomersHaveSource

\* Staff start only what has a source: the announcement's blockers say so.
LEMMA DeskFindsSource ==
    ASSUME TypeOK, SourceThere, DeskNext
    PROVE  NewcomersHaveSource
  <1>0. /\ camp \in [Campaign -> CampRec] /\ ask \in [Admin -> Request \cup {Idle}]
        /\ target \in [Campaign -> {"live", "scheduled", "unavailable"}]
    BY DEF TypeOK, StoreTypeOK, DeskTypeOK
  <1>1. ASSUME NEW c \in Campaign, NEW p \in Admin, Check(p), Underway(c)'
        PROVE  Underway(c) \/ ~SourceMissing(c)
    <2> PICK op \in Ops, e \in Campaign :
             /\ ask[p] = Idle /\ Admits(op, e)
             /\ ask' = [ask EXCEPT ![p] = [op |-> op, on |-> e, wait |-> Availability(e) = "scheduled"]]
             /\ camp' = camp
      BY <1>1 DEF Check, dbVars
    <2>1. CASE op = "retry" /\ e = c
      BY <2>1 DEF Admits, Underway
    <2>2. CASE op = "queue" /\ e = c /\ Availability(c) # "scheduled"
      <3>1. Availability(c) = "live"
        BY <1>0, <2>2 DEF Admits, NoBlockers, Availability
      <3> QED
        BY <3>1 DEF Availability, SourceMissing, SourceThere
    <2>3. CASE ~(op = "retry" /\ e = c) /\ ~(op = "queue" /\ e = c /\ Availability(c) # "scheduled")
      <3>1. ASSUME NEW q \in Admin,
                   \/ Asked(q, "retry", c)'
                   \/ Asked(q, "queue", c)' /\ ~ask'[q].wait
            PROVE  q # p /\ ask'[q] = ask[q]
        BY <1>0, <2>3, <3>1 DEF Asked, About, Request
      <3> QED
        BY <1>1, <3>1 DEF Underway, Asked, About
    <2> QED
      BY <2>1, <2>2, <2>3
  <1>2. ASSUME NEW c \in Campaign, NEW p \in Admin, Write(p), Underway(c)'
        PROVE  Underway(c)
    <2>1. ask' = [ask EXCEPT ![p] = Idle]
      BY <1>2 DEF Write, Done
    <2>2. ASSUME NEW q \in Admin,
                 \/ Asked(q, "retry", c)'
                 \/ Asked(q, "queue", c)' /\ ~ask'[q].wait
          PROVE  ask'[q] = ask[q]
      BY <1>0, <2>1, <2>2 DEF Asked, About
    <2> PICK e \in Campaign :
             \/ QueueToWait(p, e) \/ QueueToSend(p, e) \/ Schedule(p, e)
             \/ Delete(p, e) \/ Cancel(p, e) \/ Retry(p, e) \/ Gone(p, e)
      BY <1>2 DEF Write
    <2>3. CASE camp'[c].st \in {"SENDING", "SENT"} /\ camp'[c] # camp[c]
      <3>1. CASE QueueToSend(p, e)
        BY <1>0, <2>3, <3>1 DEF QueueToSend, StartCampaign, dbVars, Underway
      <3>2. CASE Retry(p, e)
        BY <1>0, <2>3, <3>2 DEF Retry, Underway
      <3>3. CASE QueueToWait(p, e) \/ Schedule(p, e)
        BY <1>0, <2>3, <3>3 DEF QueueToWait, Schedule
      <3>4. ASSUME NEW status \in {"ABSENT", "CANCELLED"}, camp' = [camp EXCEPT ![e].st = status]
            PROVE  FALSE
        BY <1>0, <2>3, <3>4 DEF CampRec
      <3>5. CASE Delete(p, e) \/ Cancel(p, e)
        BY <3>4, <3>5 DEF Delete, Cancel
      <3>6. CASE Gone(p, e)
        BY <2>3, <3>6 DEF Gone, dbVars
      <3> QED
        BY <3>1, <3>2, <3>3, <3>5, <3>6
    <2> QED
      BY <1>2, <2>2, <2>3 DEF Underway, Asked, About
  <1>3. ASSUME NEW c \in Campaign, NEW e \in Campaign, SendDirect(e), Underway(c)'
        PROVE  Underway(c) \/ ~SourceMissing(c)
    BY <1>0, <1>3 DEF SendDirect, Underway, Asked, About, SourceThere, SourceMissing
  <1>4. ASSUME NEW c \in Campaign, NEW e \in Campaign, Unschedule(e), Underway(c)'
        PROVE  Underway(c)
    BY <1>0, <1>4 DEF Unschedule, Underway, Asked, About
  <1> QED
    BY <1>1, <1>2, <1>3, <1>4 DEF DeskNext, NewcomersHaveSource

LEMMA DeskRestsHands ==
    ASSUME TypeOK, ClaimInv, ClaimsKept, LeasesLast, SourceThere, DeskNext, UNCHANGED drainVars
    PROVE  HandsRest
  <1> USE DEF ClaimInv
  <1>0. \A d \in Drain : \A r \in held[d] : r \in Row /\ row[r].st = "SENDING" /\ held'[d] = held[d]
    BY DEF TypeOK, DrainTypeOK, SourceThere, drainVars
  <1>1. ASSUME NEW d \in Drain, NEW r \in held[d] PROVE row'[r] = row[r]
    <2>1. r \in Row /\ row[r].st = "SENDING"
      BY <1>0
    <2>2. ASSUME NEW p \in Admin, NEW c \in Campaign,
                 \/ QueueToWait(p, c) \/ QueueToSend(p, c) \/ Schedule(p, c)
                 \/ Delete(p, c) \/ Cancel(p, c) \/ Retry(p, c) \/ Gone(p, c)
          PROVE  row'[r] = row[r]
      <3>1. ~Delete(p, c)
        BY DEF Delete, Asked, About, TypeOK, DeskTypeOK, Request, LeasesLast
      <3> QED
        BY <2>1, <2>2, <3>1 DEF QueueToWait, QueueToSend, StartCampaign, Snapshot, Schedule, Cancel,
                                Skipped, Retry, Gone, dbVars
    <2>3. ASSUME NEW c \in Campaign, SendDirect(c) PROVE row'[r] = row[r]
      BY <2>1, <2>3 DEF SendDirect, NoOrphans
    <2> QED
      BY <2>2, <2>3 DEF DeskNext, Check, Write, Unschedule, dbVars
  <1> QED
    BY <1>0, <1>1 DEF HandsRest, drainVars

LEMMA SurroundingsRest ==
    ASSUME TypeOK, SourceThere, Surroundings, UNCHANGED <<drainVars, ask>>
    PROVE  NewcomersHaveSource /\ HandsRest
  <1>0. camp \in [Campaign -> CampRec] /\ held \in [Drain -> SUBSET Row]
    BY DEF TypeOK, StoreTypeOK, DrainTypeOK
  <1>1. \A c \in Campaign : camp'[c].st = camp[c].st
    BY <1>0 DEF Surroundings, Toggle, OptOut, TargetMoves, ClockReaches, Purge, dbVars, CampRec
  <1>2. \A d \in Drain : \A r \in held[d] : row'[r] = row[r]
    BY <1>0 DEF Surroundings, Toggle, OptOut, TargetMoves, ClockReaches, Purge, dbVars, CampaignsOf
  <1> QED
    BY <1>0, <1>1, <1>2 DEF NewcomersHaveSource, HandsRest, Underway, Asked, About, drainVars

\* A drain starts what is due where the course is live, and closes what is sent.
LEMMA DrainFindsSource ==
    ASSUME TypeOK, SourceThere, NEW d \in Drain, DrainStep(d) \/ Stop(d) \/ Quiet(d),
           UNCHANGED ask
    PROVE  NewcomersHaveSource
  <1>0. camp \in [Campaign -> CampRec]
    BY DEF TypeOK, StoreTypeOK
  <1>1. ASSUME \A c \in Campaign : camp'[c].st \in {"SENDING", "SENT"} =>
                  camp[c].st \in {"SENDING", "SENT"} \/ ~SourceMissing(c)
        PROVE  NewcomersHaveSource
    BY <1>1 DEF NewcomersHaveSource, Underway, Asked, About
  <1>2. CASE UNCHANGED camp
    BY <1>1, <1>2
  <1>3. CASE Quiet(d)
    BY <1>2, <1>3, QuietSteps
  <1>4. ASSUME NEW c \in Campaign, StartDue(d, c) PROVE NewcomersHaveSource
    <2>1. CASE Availability(c) = "live"
      <3>1. ~SourceMissing(c)
        BY <2>1 DEF Availability, SourceMissing, SourceThere
      <3>2. \A e \in Campaign : e # c => camp'[e] = camp[e]
        BY <1>0, <1>4, <2>1 DEF StartDue, StartCampaign, dbVars
      <3> QED
        BY <1>1, <3>1, <3>2
    <2>2. CASE Availability(c) # "live"
      <3>1. camp' = camp \/ camp' = [camp EXCEPT ![c].st = "CANCELLED"]
        BY <1>4, <2>2 DEF StartDue, dbVars
      <3>2. CASE camp' = [camp EXCEPT ![c].st = "CANCELLED"]
        BY <1>0, <1>1, <3>2 DEF CampRec
      <3> QED
        BY <1>2, <3>1, <3>2
    <2> QED
      BY <2>1, <2>2
  <1>5. ASSUME NEW c \in Campaign, CancelForTarget(d, c) PROVE NewcomersHaveSource
    BY <1>0, <1>1, <1>5 DEF CancelForTarget, CampRec
  <1>6. ASSUME NEW c \in Campaign, CompleteIfDone(d, c) PROVE NewcomersHaveSource
    BY <1>0, <1>1, <1>6 DEF CompleteIfDone
  <1>7. CASE ExpireLeases(d) \/ Claim(d) \/ Select(d) \/ GiveBack(d) \/ Stop(d)
    BY <1>2, <1>7 DEF ExpireLeases, Claim, Select, GiveBack, Stop
  <1>8. ASSUME NEW r \in Row, Suppress(d, r) \/ HandOver(d, r) \/ Settle(d, r) \/ Pause(d, r)
        PROVE  NewcomersHaveSource
    BY <1>2, <1>8 DEF Suppress, HandOver, Settle, Pause, dbVars
  <1> QED
    BY <1>3, <1>4, <1>5, <1>6, <1>7, <1>8 DEF DrainStep, Quiet, Throw

LEMMA DrainRestsHands ==
    ASSUME TypeOK, ClaimInv, ClaimsKept, LeasesLast, SourceThere, NEW d \in Drain,
           DrainStep(d) \/ Quiet(d)
    PROVE  HandsRest
  <1> USE DEF ClaimInv
  <1>0. /\ row \in [Row -> RowRec] /\ held \in [Drain -> SUBSET Row]
        /\ \A r \in Row : r[1] \in Campaign
    BY RowShape DEF TypeOK, StoreTypeOK, DrainTypeOK
  <1>1. \A e \in Drain : \A r \in held[e] : r \in Row /\ row[r].st = "SENDING"
    BY <1>0 DEF SourceThere
  <1>2. ASSUME \A e \in Drain : held'[e] \subseteq held[e],
               \A e \in Drain : \A r \in held'[e] : row'[r] = row[r]
        PROVE  HandsRest
    BY <1>2 DEF HandsRest
  <1>3. CASE Quiet(d)
    BY <1>2, <1>3, QuietSteps
  <1>4. ASSUME NEW c \in Campaign, StartDue(d, c) PROVE HandsRest
    <2>1. \A e \in Drain : \A r \in held[e] : row'[r] = row[r]
      BY <1>1, <1>4 DEF StartDue, StartCampaign, Snapshot, dbVars
    <2> QED
      BY <1>2, <1>4, <2>1 DEF StartDue
  <1>5. CASE Claim(d)
    <2>1. \A e \in Drain : \A r \in held[e] : row'[r] = row[r]
      BY <1>1, <1>5 DEF Claim, Claimable
    <2> QED
      BY <1>2, <1>5, <2>1 DEF Claim
  <1>6. CASE Select(d)
    <2> DEFINE mine == {r \in Row : row[r].tok = d}
               live == {r \in mine : camp[r[1]].st = "SENDING"}
    <2>1. /\ row' = [r \in Row |-> IF r \in mine \ live THEN Freed(row[r], "SKIPPED") ELSE row[r]]
          /\ held' = [held EXCEPT ![d] = live]
      BY <1>6 DEF Select
    <2>2. \A r \in mine : r \in Row /\ row[r].st = "SENDING"
      BY DEF ClaimIsKnown
    <2>3. ASSUME NEW e \in Drain, e # d, NEW r \in held[e] PROVE row'[r] = row[r]
      <3>1. r \in Row /\ row[r].tok = e
        BY <1>1, <2>3 DEF HeldIsOwn
      <3> QED
        BY <2>1, <2>3, <3>1
    <2>4. \A r \in live : r \in Row /\ row'[r].st = "SENDING" /\ camp[r[1]].st = "SENDING"
      BY <2>1, <2>2
    <2> HIDE DEF mine, live
    <2>5. held'[d] = live /\ \A e \in Drain : e # d => held'[e] = held[e]
      BY <1>0, <2>1
    <2> QED
      BY <2>3, <2>4, <2>5 DEF HandsRest
  <1>7. CASE GiveBack(d)
    <2>1. \A e \in Drain : \A r \in held'[e] : r \in held[e] /\ r \notin Hand(d)
      BY <1>0, <1>7 DEF GiveBack, Hand, OneHolder
    <2>2. \A r \in Row : r \notin Hand(d) => row'[r] = row[r]
      BY <1>7 DEF GiveBack, Released
    <2> QED
      BY <1>1, <1>2, <2>1, <2>2
  <1>8. ASSUME NEW c \in Campaign PROVE ~CancelForTarget(d, c)
    <2>1. \A e \in CampaignsOf(held[d]) : ~SourceMissing(e)
      BY DEF CampaignsOf, SourceThere
    <2> QED
      BY <2>1 DEF CancelForTarget
  <1>9. ASSUME NEW c \in Campaign, CompleteIfDone(d, c) PROVE HandsRest
    BY <1>2, <1>9 DEF CompleteIfDone
  <1>10. ASSUME NEW r \in Row, r \in held[d], held' = [held EXCEPT ![d] = @ \ {r}],
                \A s \in Row : s # r => row'[s] = row[s]
         PROVE  HandsRest
    <2>1. \A e \in Drain : \A s \in held'[e] : s \in held[e] /\ s # r
      BY <1>0, <1>10 DEF OneHolder
    <2> QED
      BY <1>1, <1>2, <1>10, <2>1
  <1>11. ASSUME NEW r \in Row, Suppress(d, r) PROVE HandsRest
    BY <1>0, <1>10, <1>11 DEF Suppress, Settled, Hand
  <1>12. ASSUME NEW r \in Row, HandOver(d, r) PROVE HandsRest
    BY <1>2, <1>12 DEF HandOver, dbVars
  <1>13. ASSUME NEW r \in Row, Settle(d, r) PROVE HandsRest
    BY <1>0, <1>10, <1>13 DEF Settle, HeldWhileSending
  <1>14. ~Throw(d) /\ ~ExpireLeases(d) /\ \A r \in Row : ~Pause(d, r)
    BY NothingIsLost
  <1> QED
    BY <1>3, <1>4, <1>5, <1>6, <1>7, <1>8, <1>9, <1>11, <1>12, <1>13, <1>14 DEF DrainStep, Quiet

LEMMA RunnerRests ==
    ASSUME TypeOK, ClaimInv, ClaimsKept, LeasesLast, SourceThere, RunnerNext, UNCHANGED ask
    PROVE  NewcomersHaveSource /\ HandsRest
  <1>1. ASSUME NEW d \in Drain, DrainStep(d) \/ Quiet(d) PROVE NewcomersHaveSource /\ HandsRest
    BY <1>1, DrainFindsSource, DrainRestsHands
  <1>2. ASSUME NEW r \in Row, BackoffEnds(r) PROVE NewcomersHaveSource /\ HandsRest
    <2>1. \A d \in Drain : \A s \in held[d] : s # r
      BY <1>2 DEF BackoffEnds, SourceThere
    <2>2. \A s \in Row : s # r => row'[s] = row[s]
      BY <1>2 DEF BackoffEnds, TypeOK, StoreTypeOK
    <2> QED
      BY <1>2, <2>1, <2>2
         DEF BackoffEnds, NewcomersHaveSource, HandsRest, Underway, Asked, About, drainVars,
             TypeOK, DrainTypeOK
  <1>3. ASSUME NEW r \in Row, LeaseEnds(r) PROVE FALSE
    BY <1>3 DEF LeaseEnds, LeasesLast, ClaimsKept
  <1>4. ASSUME NEW d \in Drain, Crash(d) PROVE FALSE
    BY <1>4, NothingIsLost
  <1> QED
    BY <1>1, <1>2, <1>3, <1>4 DEF RunnerNext, Quiet

\* A campaign reported as sent stays closed, or is being sent again.
LEMMA ClosedStep ==
    ASSUME TypeOK, ClaimInv, ClaimsKept, LeasesLast, SourceThere, SentIsClosed, [Next]_vars
    PROVE  SentIsClosed'
  <1> USE DEF ClaimInv
  <1>0. /\ camp \in [Campaign -> CampRec] /\ row \in [Row -> RowRec]
        /\ held \in [Drain -> SUBSET Row]
        /\ \A d \in Drain : \A r \in held[d] : row[r].st = "SENDING"
        /\ \A r \in Row : r[1] \in Campaign
    BY RowShape DEF TypeOK, StoreTypeOK, DrainTypeOK, SourceThere
  <1> SUFFICES ASSUME NEW c \in Campaign, camp'[c].st = "SENT", NEW r \in RowsOf(c)
               PROVE  row'[r].st \notin {"PENDING", "SENDING"}
    BY DEF SentIsClosed, Open
  <1>1. r \in Row /\ r[1] = c
    BY DEF RowsOf, Row
  <1>2. camp[c].st = "SENT" => ~Open(r)
    BY DEF SentIsClosed
  <1>3. CASE row'[r].st = row[r].st /\ camp[c].st = "SENT"
    BY <1>2, <1>3 DEF Open
  <1>4. ASSUME StartCampaign(c) PROVE row'[r].st \notin {"PENDING", "SENDING"}
    <2>1. row'[r].st = "ABSENT"
      BY <1>0, <1>4 DEF StartCampaign, CampRec
    <2> QED
      BY <2>1
  <1>5. ASSUME NEW d \in Drain, DrainStep(d) \/ Quiet(d)
        PROVE  row'[r].st \notin {"PENDING", "SENDING"}
    <2>1. ASSUME NEW e \in Campaign, StartDue(d, e) PROVE row'[r].st \notin {"PENDING", "SENDING"}
      <3>1. CASE e = c /\ StartCampaign(c)
        BY <1>4, <3>1
      <3>2. CASE e # c /\ StartCampaign(e)
        BY <1>0, <1>1, <1>3, <3>2 DEF StartCampaign, Snapshot
      <3>3. CASE ~StartCampaign(e)
        <4>1. row' = row /\ (camp' = camp \/ camp' = [camp EXCEPT ![e].st = "CANCELLED"])
          BY <2>1, <3>3 DEF StartDue, dbVars
        <4>2. camp[c].st = "SENT"
          BY <1>0, <4>1 DEF CampRec
        <4> QED
          BY <1>3, <4>1, <4>2
      <3> QED
        BY <3>1, <3>2, <3>3
    <2>2. ASSUME NEW e \in Campaign, CompleteIfDone(d, e)
          PROVE  row'[r].st \notin {"PENDING", "SENDING"}
      BY <1>0, <1>2, <2>2 DEF CompleteIfDone, Open
    <2>3. CASE /\ \A e \in Campaign : ~StartDue(d, e) /\ ~CompleteIfDone(d, e)
      <3>1. camp[c].st = "SENT"
        <4>1. CASE Quiet(d)
          BY <4>1, QuietSteps
        <4>2. ASSUME NEW e \in Campaign, CancelForTarget(d, e) PROVE camp[c].st = "SENT"
          BY <1>0, <4>2 DEF CancelForTarget, CampRec
        <4>3. ASSUME NEW s \in Row, Suppress(d, s) \/ HandOver(d, s) \/ Settle(d, s) \/ Pause(d, s)
              PROVE  camp[c].st = "SENT"
          BY <4>3 DEF Suppress, HandOver, Settle, Pause, dbVars
        <4>4. CASE ExpireLeases(d) \/ Claim(d) \/ Select(d) \/ GiveBack(d) \/ Throw(d)
          BY <4>4 DEF ExpireLeases, Claim, Select, GiveBack, Throw, Stop
        <4> QED
          BY <1>5, <2>3, <4>1, <4>2, <4>3, <4>4 DEF DrainStep, Quiet
      <3>2. ~Open(r) /\ r \notin held[d]
        BY <1>0, <1>2, <3>1 DEF Open
      <3>3. row'[r] = row[r]
        BY <1>1, <1>5, <2>3, <3>2, ClosedRowsRest
      <3> QED
        BY <3>2, <3>3 DEF Open
    <2> QED
      BY <2>1, <2>2, <2>3
  <1>6. ASSUME NEW s \in Row, BackoffEnds(s) PROVE row'[r].st \notin {"PENDING", "SENDING"}
    BY <1>0, <1>1, <1>3, <1>6 DEF BackoffEnds, RowRec
  <1>7. CASE RunnerNext
    BY <1>5, <1>6, <1>7, NothingIsLost DEF RunnerNext, Quiet, LeaseEnds, LeasesLast, ClaimsKept
  <1>8. CASE Surroundings
    <2>1. ASSUME NEW e \in Campaign, Purge(e) PROVE row'[r].st \notin {"PENDING", "SENDING"}
      BY <1>1, <1>2, <2>1 DEF Purge, NoRow, Open
    <2>2. ASSUME NEW e \in Campaign, ClockReaches(e) PROVE row'[r].st \notin {"PENDING", "SENDING"}
      BY <1>0, <1>3, <2>2 DEF ClockReaches, CampRec
    <2> QED
      BY <1>3, <1>8, <2>1, <2>2 DEF Surroundings, Toggle, OptOut, TargetMoves, dbVars
  <1>9. ASSUME NEW p \in Admin, Write(p) PROVE row'[r].st \notin {"PENDING", "SENDING"}
    <2> PICK e \in Campaign :
             \/ QueueToWait(p, e) \/ QueueToSend(p, e) \/ Schedule(p, e)
             \/ Delete(p, e) \/ Cancel(p, e) \/ Retry(p, e) \/ Gone(p, e)
      BY <1>9 DEF Write
    <2>1. CASE QueueToWait(p, e) \/ Schedule(p, e) \/ Gone(p, e)
      BY <1>0, <1>3, <2>1 DEF QueueToWait, Schedule, Gone, dbVars
    <2>2. CASE QueueToSend(p, e)
      <3>1. CASE StartCampaign(e) /\ e # c
        BY <1>0, <1>1, <1>3, <3>1 DEF StartCampaign, Snapshot
      <3> QED
        BY <1>3, <1>4, <2>2, <3>1 DEF QueueToSend, dbVars
    <2>3. CASE Delete(p, e)
      BY <1>0, <1>1, <1>3, <2>3 DEF Delete, CampRec
    <2>4. CASE Cancel(p, e)
      <3>1. e # c /\ camp[c].st = "SENT"
        BY <1>0, <2>4 DEF Cancel, CampRec
      <3> QED
        BY <1>1, <1>3, <2>4, <3>1 DEF Cancel, Skipped
    <2>5. CASE Retry(p, e)
      <3>1. e # c /\ camp[c].st = "SENT"
        BY <1>0, <2>5 DEF Retry, CampRec
      <3> QED
        BY <1>1, <1>3, <2>5, <3>1 DEF Retry
    <2> QED
      BY <2>1, <2>2, <2>3, <2>4, <2>5
  <1>10. ASSUME NEW e \in Campaign, Unschedule(e) \/ SendDirect(e)
         PROVE  row'[r].st \notin {"PENDING", "SENDING"}
    BY <1>0, <1>1, <1>3, <1>10 DEF Unschedule, SendDirect, CampRec
  <1>11. CASE DeskNext
    BY <1>3, <1>9, <1>10, <1>11 DEF DeskNext, Check, dbVars
  <1>12. CASE UNCHANGED vars
    BY <1>3, <1>12 DEF vars, storeVars
  <1> QED
    BY <1>7, <1>8, <1>11, <1>12 DEF Next

\* A campaign reported as sent is done, however many drains and retries worked
\* on it (completeIfDone), wherever no drain loses a claim and no target moves:
\* elsewhere a late answer can reopen a row under a finished campaign.
THEOREM SentIsClosedAlways ==
    ASSUME LeasesLast, "target" \notin Events
    PROVE  Spec => []SentIsClosed
  <1> DEFINE Inv == SourceThere /\ SentIsClosed
  <1>1. Init => Inv
    BY DEF Init, StoreInit, DeskInit, DrainInit, SourceThere, Underway, SentIsClosed, Asked, About,
           SourceMissing
  <1>2. TypeOK /\ (ClaimInv /\ (LeasesLast => ClaimsKept)) /\ Inv /\ [Next]_vars => Inv'
    <2> SUFFICES ASSUME TypeOK, ClaimInv, ClaimsKept, SourceThere, SentIsClosed, [Next]_vars
                 PROVE  SourceThere' /\ SentIsClosed'
      OBVIOUS
    <2>1. CASE Next
      <3>1. NewcomersHaveSource /\ HandsRest
        BY <2>1, DeskFindsSource, DeskRestsHands, RunnerRests, SurroundingsRest DEF Next
      <3> QED
        BY <3>1, SourceStays, TargetsStay, ClosedStep
    <2>2. CASE UNCHANGED vars
      <3>1. NewcomersHaveSource /\ HandsRest
        BY <2>2 DEF vars, storeVars, drainVars, NewcomersHaveSource, HandsRest, Underway, Asked, About
      <3> QED
        BY <3>1, SourceStays, TargetsStay, ClosedStep
    <2> QED
      BY <2>1, <2>2
  <1>3. RetryIsSafe
    BY DEF RetryIsSafe
  <1>4. Spec => [](ClaimInv /\ (LeasesLast => ClaimsKept))
    BY <1>3, Claims
  <1>5. Inv => SentIsClosed
    OBVIOUS
  <1> HIDE DEF Inv
  <1> QED
    BY <1>1, <1>2, <1>4, <1>5, Typing, PTL DEF Spec

-----------------------------------------------------------------------------
(***************************************************************************)
(* A row is handed to the provider no more often than it may be tried.     *)
(***************************************************************************)
\* What a row has been charged.
LEMMA Charges ==
    ASSUME NEW x \in RowRec
    PROVE  /\ Fresh.att = 0 /\ NoRow.att = 0
           /\ \A status \in RowStatus : Freed(x, status).att = x.att
           /\ \A d \in Drain : Taken(x, d).att = x.att
           /\ \A status \in RowStatus, due \in BOOLEAN : Charged(x, status, due).att = x.att + 1
  <1>1. Fresh.att = 0 /\ NoRow.att = 0
    BY DEF Fresh, NoRow
  <1>2. \A d \in Drain : Taken(x, d).att = x.att
    BY DEF Taken, RowRec
  <1>3. ASSUME NEW status \in RowStatus, NEW due \in BOOLEAN
        PROVE  Charged(x, status, due).att = x.att + 1
    <2> DEFINE y == Freed(x, status)
    <2>1. y \in RowRec
      BY FreedRow
    <2> HIDE DEF y
    <2>2. Charged(x, status, due) = [y EXCEPT !.att = x.att + 1, !.due = due]
      BY DEF Charged, y
    <2> QED
      BY <2>1, <2>2 DEF RowRec
  <1> QED
    BY <1>1, <1>2, <1>3, FreedRow

\* A step that hands nothing over, and charges no row that waits or is claimed
\* without leaving it room for another try.
FittingRows ==
    /\ \A r \in Row : tries'[r] <= tries[r]
    /\ \A r \in Row : row'[r].st = "PENDING" =>
          Room(r)' \/ (row[r].st = "PENDING" /\ row'[r].att = row[r].att)
    /\ \A r \in Row : row'[r].tok # Nobody => row'[r].att = row[r].att
    /\ \A d \in Drain : \A r \in held'[d] :
          \/ row'[r].st = "ABSENT"
          \/ row[r].st # "ABSENT" /\ row'[r].att = row[r].att

LEMMA TriesStay ==
    ASSUME TypeOK, TypeOK', TriesFit, FittingRows, NoNewClaim,
           \A d \in Drain :
              /\ held'[d] \subseteq held[d]
              /\ \A r \in held'[d] : r \in flight'[d] <=> r \in flight[d]
              /\ flight'[d] # {} => mem'[d].res = mem[d].res
              /\ pc'[d] = "select" => pc[d] = "select"
    PROVE  TriesFit'
  <1>0. /\ \A r \in Row : /\ tries[r] \in Nat /\ tries'[r] \in Nat
                          /\ row[r].att \in Nat /\ row'[r].att \in Nat
        /\ \A d \in Drain : held'[d] \subseteq Row /\ held[d] \subseteq Row
        /\ MaxAttempts \in Nat
    BY StoreAssumption DEF TypeOK, StoreTypeOK, DrainTypeOK, RowRec
  <1>1. TriesBounded'
    BY <1>0 DEF TriesFit, TriesBounded, FittingRows
  <1>2. \A r \in Row : row'[r].st = "PENDING" => Room(r)'
    BY <1>0 DEF TriesFit, FittingRows, Room
  <1>3. \A d \in Drain, r \in Row : pc'[d] = "select" /\ row'[r].tok = d => Room(r)'
    BY <1>0, StoreAssumption DEF TriesFit, FittingRows, NoNewClaim, Room
  <1>4. ASSUME NEW d \in Drain, NEW r \in held'[d]
        PROVE  IF r \in flight'[d]
               THEN row'[r].st # "ABSENT" =>
                       /\ tries'[r] <= row'[r].att + 1 /\ row'[r].att < MaxAttempts
                       /\ mem'[d].res = "SUPPRESSED" => Room(r)'
               ELSE tries'[r] < MaxAttempts /\ (row'[r].st # "ABSENT" => Room(r)')
    <2>1. r \in held[d] /\ r \in Row /\ (r \in flight'[d] <=> r \in flight[d])
      BY <1>0, <1>4
    <2>2. tries'[r] <= tries[r]
      BY <2>1 DEF FittingRows
    <2>3. CASE r \in flight[d]
      <3>1. mem'[d].res = mem[d].res
        BY <2>1, <2>3
      <3>2. row'[r].st = "ABSENT" \/ (row[r].st # "ABSENT" /\ row'[r].att = row[r].att)
        BY <1>4 DEF FittingRows
      <3> QED
        BY <1>0, <2>1, <2>2, <2>3, <3>1, <3>2 DEF TriesFit, Room
    <2>4. CASE r \notin flight[d]
      <3>1. row'[r].st = "ABSENT" \/ (row[r].st # "ABSENT" /\ row'[r].att = row[r].att)
        BY <1>4 DEF FittingRows
      <3>2. tries[r] < MaxAttempts /\ (row[r].st # "ABSENT" => Room(r))
        BY <2>1, <2>4 DEF TriesFit
      <3>3. tries'[r] < MaxAttempts
        BY <1>0, <2>1, <2>2, <3>2
      <3>4. row'[r].st # "ABSENT" => Room(r)'
        BY <1>0, <2>1, <2>2, <3>1, <3>2 DEF Room
      <3> QED
        BY <2>1, <2>4, <3>3, <3>4
    <2> QED
      BY <2>3, <2>4
  <1> QED
    BY <1>1, <1>2, <1>3, <1>4 DEF TriesFit

\* An untried row has room for its first try.
LEMMA FreshFits ==
    ASSUME TypeOK, NEW r \in Row, tries'[r] = 0, row'[r] = Fresh
    PROVE  Room(r)'
  <1>1. Fresh.att = 0 /\ MaxAttempts \in Nat \ {0}
    BY StoreAssumption DEF Fresh, NoRow
  <1> QED
    BY <1>1 DEF Room

\* What a drain holds outlives what staff and others do to the tables.
LEMMA DeskFits ==
    ASSUME TypeOK, TypeOK', ClaimInv, "retry" \notin Ops \/ ClaimsKept, GoneForGood, TriesFit,
           DeskNext \/ Surroundings, UNCHANGED drainVars
    PROVE  FittingRows
  <1> USE DEF ClaimInv
  <1>0. /\ row \in [Row -> RowRec] /\ tries \in [Row -> Nat] /\ camp \in [Campaign -> CampRec]
        /\ \A d \in Drain : held[d] \subseteq Row /\ held'[d] = held[d]
        /\ \A r \in Row : r[1] \in Campaign
        /\ \A r \in Row : tries[r] >= 0 /\ tries[r] \in Nat /\ row[r] \in RowRec
        /\ 0 \in Nat /\ {"SKIPPED", "ABSENT", "PENDING"} \subseteq RowStatus
    BY RowShape DEF TypeOK, StoreTypeOK, DrainTypeOK, drainVars, RowStatus
  <1>1. ASSUME UNCHANGED <<row, tries>> PROVE FittingRows
    <2>1. \A d \in Drain : \A r \in held[d] : r \in Row
      BY <1>0
    <2> QED
      BY <1>0, <1>1, <2>1 DEF FittingRows
  <1>2. ASSUME tries' = tries,
               \A r \in Row :
                  \/ row'[r] = row[r]
                  \/ row'[r].st \notin {"PENDING", "SENDING"} /\ row'[r].tok = Nobody
                     /\ (row'[r].st = "ABSENT" \/ (row[r].st # "ABSENT" /\ row'[r].att = row[r].att))
                  \/ /\ row'[r] = Fresh /\ tries[r] = 0 /\ \A d \in Drain : r \notin held[d]
        PROVE  FittingRows
    <2>1. \A r \in Row : row'[r] = Fresh /\ tries[r] = 0 => Room(r)' /\ row'[r].tok = Nobody
      BY <1>2, FreshFits, FreshRow
    <2>2. \A r \in Row : tries'[r] <= tries[r]
      BY <1>0, <1>2
    <2>3. ASSUME NEW d \in Drain, NEW r \in held[d]
          PROVE  row'[r].st = "ABSENT" \/ (row[r].st # "ABSENT" /\ row'[r].att = row[r].att)
      BY <1>0, <1>2, <2>3 DEF HeldIsOwn
    <2> QED
      BY <1>0, <1>2, <2>1, <2>2, <2>3 DEF FittingRows
  <1>3. ASSUME NEW c \in Campaign, camp[c].st \in {"DRAFT", "SCHEDULED"}, row' = Snapshot(c), tries' = tries
        PROVE  FittingRows
    <2>1. \A r \in Row : \/ row'[r] = row[r]
                         \/ r[1] = c /\ row[r].st = "ABSENT" /\ row'[r] = Fresh
      BY <1>0, <1>3 DEF Snapshot
    <2>2. \A r \in Row : r[1] = c /\ row[r].st = "ABSENT" =>
                            tries[r] = 0 /\ \A d \in Drain : r \notin held[d]
      BY <1>0, <1>3 DEF GoneForGood, HandedOver, HeldIsOwn
    <2> QED
      BY <1>2, <1>3, <2>1, <2>2
  <1>4. ASSUME NEW p \in Admin, Write(p) PROVE FittingRows
    <2> PICK c \in Campaign :
             \/ QueueToWait(p, c) \/ QueueToSend(p, c) \/ Schedule(p, c)
             \/ Delete(p, c) \/ Cancel(p, c) \/ Retry(p, c) \/ Gone(p, c)
      BY <1>4 DEF Write
    <2>1. CASE QueueToWait(p, c) \/ Schedule(p, c) \/ Gone(p, c)
      BY <1>1, <2>1 DEF QueueToWait, Schedule, Gone, dbVars
    <2>2. CASE QueueToSend(p, c)
      BY <1>1, <1>3, <2>2 DEF QueueToSend, StartCampaign, dbVars
    <2>3. CASE Delete(p, c)
      <3>1. \A r \in Row : row'[r] = row[r] \/ row'[r] = NoRow
        BY <2>3 DEF Delete
      <3> QED
        BY <1>2, <2>3, <3>1, FreshRow DEF Delete
    <2>4. CASE Cancel(p, c)
      <3>1. \A r \in Row : \/ row'[r] = row[r]
                           \/ row[r].st = "PENDING" /\ row'[r] = Freed(row[r], "SKIPPED")
        BY <2>4 DEF Cancel, Skipped
      <3>2. \A r \in Row : /\ Freed(row[r], "SKIPPED").st = "SKIPPED"
                           /\ Freed(row[r], "SKIPPED").tok = Nobody
                           /\ Freed(row[r], "SKIPPED").att = row[r].att
        BY <1>0, FreedRow
      <3> QED
        BY <1>2, <2>4, <3>1, <3>2 DEF Cancel
    <2>5. CASE Retry(p, c)
      <3>1. \A r \in Row : \/ row'[r] = row[r] /\ tries'[r] = tries[r]
                           \/ row[r].st = "FAILED" /\ row'[r] = Fresh /\ tries'[r] = 0
        BY <2>5 DEF Retry
      <3>2. "retry" \in Ops
        BY <2>5 DEF Retry, Asked, About, TypeOK, DeskTypeOK, Request, Idle
      <3>3. \A d \in Drain : \A r \in held[d] : r \in Row /\ row[r].st # "FAILED"
        BY <1>0, <3>2 DEF ClaimsKept
      <3>4. \A r \in Row : row'[r] = Fresh /\ tries'[r] = 0 => Room(r)' /\ row'[r].tok = Nobody
        BY FreshFits, FreshRow
      <3>5. \A d \in Drain : \A r \in held[d] :
               (row'[r] = row[r] /\ row[r].st # "ABSENT") \/ row'[r].st = "ABSENT"
        BY <3>1, <3>3
      <3>6. \A r \in Row : tries'[r] <= tries[r]
        BY <1>0, <3>1
      <3> QED
        BY <1>0, <3>1, <3>4, <3>5, <3>6 DEF FittingRows
    <2> QED
      BY <2>1, <2>2, <2>3, <2>4, <2>5
  <1>5. ASSUME NEW c \in Campaign, SendDirect(c) PROVE FittingRows
    <2>1. \A r \in Row : row'[r] = row[r] \/ (r[1] = c /\ row'[r] = Fresh)
      BY <1>5 DEF SendDirect
    <2>2. \A r \in Row : r[1] = c => tries[r] = 0 /\ \A d \in Drain : r \notin held[d]
      BY <1>0, <1>5 DEF SendDirect, NoOrphans, GoneForGood, HandedOver, HeldIsOwn
    <2> QED
      BY <1>2, <1>5, <2>1, <2>2 DEF SendDirect, logVars
  <1>6. ASSUME NEW c \in Campaign, Purge(c) PROVE FittingRows
    <2>1. \A r \in Row : row'[r] = row[r] \/ row'[r] = NoRow
      BY <1>6 DEF Purge
    <2> QED
      BY <1>2, <1>6, <2>1, FreshRow DEF Purge, logVars
  <1>7. ASSUME NEW c \in Campaign, Unschedule(c) PROVE FittingRows
    BY <1>1, <1>7 DEF Unschedule, logVars
  <1>8. ASSUME NEW p \in Admin, Check(p) PROVE FittingRows
    BY <1>1, <1>8 DEF Check, dbVars, logVars
  <1>9. CASE DeskNext
    BY <1>4, <1>5, <1>7, <1>8, <1>9 DEF DeskNext
  <1>10. CASE Surroundings
    BY <1>1, <1>6, <1>10 DEF Surroundings, Toggle, OptOut, TargetMoves, ClockReaches, dbVars, logVars
  <1> QED
    BY <1>9, <1>10

\* The steps of a drain other than claiming, reading its claim back, handing
\* over, and settling.
LEMMA DrainFits ==
    ASSUME TypeOK, TypeOK', ClaimInv, GoneForGood, TriesFit,
           NEW d \in Drain, DrainStep(d) \/ Stop(d),
           ~Claim(d), ~Select(d), ~Quiet(d),
           \A r \in Row : ~HandOver(d, r)
    PROVE  TriesFit'
  <1> USE DEF ClaimInv
  <1>0. /\ row \in [Row -> RowRec] /\ tries \in [Row -> Nat]
        /\ \A r \in Row : row[r] \in RowRec /\ row[r].att \in Nat /\ tries[r] \in Nat
        /\ held \in [Drain -> SUBSET Row] /\ flight \in [Drain -> SUBSET Row]
        /\ pc \in [Drain -> Phase] /\ mem \in [Drain -> Mem]
        /\ \A e \in Drain : held[e] \subseteq Row
        /\ {"SKIPPED", "FAILED", "PENDING", "SUPPRESSED"} \subseteq RowStatus
        /\ \A r \in Row : r[1] \in Campaign
    BY RowShape DEF TypeOK, StoreTypeOK, DrainTypeOK, RowStatus, RowRec
  <1>1. ASSUME FittingRows,
               \A e \in Drain : e # d => /\ held'[e] = held[e] /\ flight'[e] = flight[e]
                                        /\ mem'[e] = mem[e] /\ pc'[e] = pc[e],
               pc'[d] # "select", held'[d] \subseteq held[d],
               \A r \in held'[d] : r \in flight'[d] <=> r \in flight[d],
               flight'[d] # {} => mem'[d].res = mem[d].res
        PROVE  TriesFit'
    BY <1>1, TriesStay, DrainClaimsByClaim
  \* What a drain other than d holds, and what d keeps, is left alone or closed.
  <1>2. ASSUME UNCHANGED tries,
               \A r \in Row :
                  \/ row'[r] = row[r]
                  \/ /\ row'[r].tok = Nobody /\ row'[r].att = row[r].att /\ row[r].st # "ABSENT"
                     /\ row'[r].st = "PENDING" => Room(r)
                  \/ /\ row'[r] = Fresh /\ tries[r] = 0 /\ \A e \in Drain : r \notin held[e],
               \A e \in Drain : held'[e] \subseteq held[e]
        PROVE  FittingRows
    <2>1. \A r \in Row : row'[r] = Fresh /\ tries[r] = 0 => Room(r)' /\ row'[r].tok = Nobody
      BY <1>2, FreshFits, FreshRow
    <2>2. \A r \in Row : tries'[r] <= tries[r]
      BY <1>0, <1>2
    <2>3. ASSUME NEW e \in Drain, NEW r \in held'[e]
          PROVE  row'[r].st = "ABSENT" \/ (row[r].st # "ABSENT" /\ row'[r].att = row[r].att)
      BY <1>0, <1>2, <2>3
    <2>4. \A r \in Row : Room(r) /\ row'[r].att = row[r].att => Room(r)'
      BY <1>0, <1>2 DEF Room
    <2> QED
      BY <1>0, <1>2, <2>1, <2>2, <2>3, <2>4 DEF FittingRows
  <1>f. \A r \in Row, status \in RowStatus :
           /\ Freed(row[r], status).st = status /\ Freed(row[r], status).tok = Nobody
           /\ Freed(row[r], status).att = row[r].att
    BY <1>0, FreedRow
  <1>3. CASE ExpireLeases(d)
    <2>1. \A r \in Row : row'[r] = row[r] \/ (row[r].st = "SENDING" /\ row'[r] = Freed(row[r], "FAILED"))
      BY <1>3 DEF ExpireLeases
    <2>2. FittingRows
      BY <1>0, <1>2, <1>3, <1>f, <2>1 DEF ExpireLeases, logVars
    <2> QED
      BY <1>0, <1>1, <1>3, <2>2 DEF ExpireLeases, Goto, HeldWhileSending
  <1>4. ASSUME NEW c \in Campaign, StartDue(d, c) PROVE TriesFit'
    <2>1. \A r \in Row : \/ row'[r] = row[r]
                         \/ /\ r[1] = c /\ row[r].st = "ABSENT" /\ row'[r] = Fresh
                            /\ camp[c].st \in {"DRAFT", "SCHEDULED"}
      BY <1>4 DEF StartDue, StartCampaign, Snapshot, dbVars
    <2>2. \A r \in Row : r[1] = c /\ row[r].st = "ABSENT" /\ camp[c].st \in {"DRAFT", "SCHEDULED"}
                            => tries[r] = 0 /\ \A e \in Drain : r \notin held[e]
      BY <1>0 DEF GoneForGood, HandedOver, HeldIsOwn
    <2>3. FittingRows
      BY <1>0, <1>2, <1>4, <2>1, <2>2 DEF StartDue, logVars
    <2> QED
      BY <1>0, <1>1, <1>4, <2>3 DEF StartDue, Goto, HeldWhileSending
  <1>5. ASSUME NEW c \in Campaign, CancelForTarget(d, c) PROVE TriesFit'
    <2>1. \A r \in Row : \/ row'[r] = row[r]
                         \/ row[r].st # "ABSENT" /\ row'[r] = Freed(row[r], "SKIPPED")
      BY <1>5 DEF CancelForTarget, Skipped
    <2>2. \A e \in Drain : held'[e] \subseteq held[e]
      BY <1>0, <1>5 DEF CancelForTarget
    <2>3. FittingRows
      BY <1>0, <1>2, <1>5, <1>f, <2>1, <2>2 DEF CancelForTarget, logVars
    <2> QED
      BY <1>0, <1>1, <1>5, <2>3 DEF CancelForTarget, HeldWhileSending
  <1>6. ASSUME NEW c \in Campaign, CompleteIfDone(d, c) PROVE TriesFit'
    <2>1. FittingRows
      BY <1>0, <1>2, <1>6 DEF CompleteIfDone, logVars
    <2> QED
      BY <1>0, <1>1, <1>6, <2>1 DEF CompleteIfDone, HeldWhileSending
  <1>7. CASE GiveBack(d)
    <2>1. \A r \in Hand(d) : row[r].st # "ABSENT" => Room(r)
      BY <1>7 DEF GiveBack, Hand, HeldWhileSending, TriesFit
    <2>2. \A r \in Row : \/ row'[r] = row[r]
                         \/ /\ r \in Hand(d) /\ row[r].st = "SENDING"
                            /\ row'[r] = Freed(row[r], "PENDING")
      BY <1>7 DEF GiveBack, Released
    <2>3. \A e \in Drain : held'[e] \subseteq held[e]
      BY <1>0, <1>7 DEF GiveBack
    <2>4. FittingRows
      BY <1>0, <1>2, <1>7, <1>f, <2>1, <2>2, <2>3 DEF GiveBack, logVars
    <2> QED
      BY <1>0, <1>1, <1>7, <2>3, <2>4 DEF GiveBack
  <1>8. ASSUME NEW r \in Row, Suppress(d, r) PROVE TriesFit'
    <2>1. \A s \in Row : \/ row'[s] = row[s]
                         \/ row[s].st # "ABSENT" /\ row'[s] = Freed(row[s], "SUPPRESSED")
      BY <1>0, <1>8 DEF Suppress, Settled
    <2>2. \A e \in Drain : held'[e] \subseteq held[e]
      BY <1>0, <1>8 DEF Suppress
    <2>3. FittingRows
      BY <1>0, <1>2, <1>8, <1>f, <2>1, <2>2 DEF Suppress, logVars
    <2> QED
      BY <1>0, <1>1, <1>8, <2>2, <2>3 DEF Suppress
  <1>9. ASSUME NEW r \in Row, Settle(d, r) PROVE TriesFit'
    <2>1. /\ r \in held[d] /\ row[r].st # "ABSENT"
          /\ tries[r] <= row[r].att + 1 /\ row[r].att < MaxAttempts
      BY <1>9 DEF Settle, HeldWhileSending, TriesFit
    <2>2. /\ row'[r] = Settlement(d, r) /\ \A s \in Row : s # r => row'[s] = row[s]
          /\ tries' = tries
      BY <1>0, <1>9 DEF Settle, logVars
    <2>3. row'[r].tok = Nobody
      BY <2>2, SettlementRow DEF TypeOK
    <2>4. row'[r].st = "PENDING" => Room(r)'
      <3>1. CASE mem[d].res # "SENT" /\ mem[d].res = "transient" /\ row[r].att + 1 < MaxAttempts
        <4>1. row'[r] = Charged(row[r], "PENDING", FALSE)
          BY <2>2, <3>1 DEF Settlement
        <4>2. row'[r].att = row[r].att + 1
          <5>1. row[r] \in RowRec /\ "PENDING" \in RowStatus /\ FALSE \in BOOLEAN
            BY <1>0
          <5>2. Charged(row[r], "PENDING", FALSE).att = row[r].att + 1
            BY <5>1, Charges
          <5> QED
            BY <4>1, <5>2
        <4> QED
          BY <1>0, <2>1, <2>2, <3>1, <4>2 DEF Room
      <3>2. CASE mem[d].res # "SENT" /\ ~(mem[d].res = "transient" /\ row[r].att + 1 < MaxAttempts)
        <4>1. row[r].due \in BOOLEAN
          BY <1>0 DEF RowRec
        <4>2. row'[r] = Charged(row[r], "FAILED", row[r].due)
          BY <2>2, <3>2 DEF Settlement
        <4>3. row'[r].st = "FAILED"
          BY <1>0, <4>1, <4>2, ChargedRow
        <4> QED
          BY <4>3
      <3>3. CASE mem[d].res = "SENT"
        <4>1. row'[r] = Freed(row[r], "SENT") /\ "SENT" \in RowStatus
          BY <2>2, <3>3 DEF Settlement, RowStatus
        <4>2. row'[r].st = "SENT"
          BY <1>f, <4>1
        <4> QED
          BY <4>2
      <3> QED
        BY <3>1, <3>2, <3>3
    <2>5. \A e \in Drain : \A s \in held'[e] : s # r /\ s \in held[e]
      BY <1>0, <1>9, <2>1 DEF Settle, OneHolder
    <2>6. FittingRows
      BY <1>0, <2>2, <2>3, <2>4, <2>5 DEF FittingRows
    <2>7. /\ held'[d] = held[d] \ {r} /\ flight'[d] = {} /\ flight[d] = {r}
      BY <1>0, <1>9 DEF Settle, HeldWhileSending
    <2> QED
      BY <1>0, <1>1, <1>9, <2>6, <2>7 DEF Settle, Goto
  <1>10. ASSUME NEW r \in Row, Pause(d, r) PROVE TriesFit'
    <2> DEFINE rows == [Released(Hand(d) \ {r}) EXCEPT ![r] = Freed(row[r], "PENDING")]
    <2>1. /\ row[r].st # "ABSENT" /\ Room(r)
          /\ \A s \in Hand(d) \ {r} : row[s].st # "ABSENT" => Room(s)
      BY <1>0, <1>10 DEF Pause, Hand, HeldWhileSending, TriesFit
    <2>2. \A s \in Row : \/ rows[s] = row[s]
                         \/ /\ row[s].st # "ABSENT" /\ Room(s) /\ rows[s].tok = Nobody
                            /\ rows[s].att = row[s].att
      BY <1>0, <1>f, <2>1 DEF Released
    <2>3. row' = Abandoned(rows, d)
      BY <1>10 DEF Pause
    <2>4. rows \in [Row -> RowRec]
      BY <1>0, ReleasedType, FreedRow DEF TypeOK, StoreTypeOK
    <2> HIDE DEF rows
    <2>5. \A s \in Row : row'[s] = rows[s] \/ (rows[s].tok = d /\ row'[s] = [rows[s] EXCEPT !.tok = Nobody])
      BY <2>3 DEF Abandoned
    <2>6. \A s \in Row : rows[s].tok = d => row[s].st = "SENDING" /\ rows[s] = row[s]
      BY <1>0, <2>2, StoreAssumption DEF ClaimIsKnown
    <2>7. \A s \in Row :
             \/ row'[s] = row[s]
             \/ /\ row'[s].tok = Nobody /\ row'[s].att = row[s].att /\ row[s].st # "ABSENT"
                /\ row'[s].st = "PENDING" => Room(s)
      <3>1. ASSUME NEW s \in Row, rows[s].tok = d, row'[s] = [rows[s] EXCEPT !.tok = Nobody]
            PROVE  row'[s].tok = Nobody /\ row'[s].att = row[s].att /\ row'[s].st = "SENDING"
        <4>1. rows[s] = row[s] /\ row[s].st = "SENDING" /\ row[s] \in RowRec
          BY <1>0, <2>6, <3>1
        <4> QED
          BY <3>1, <4>1 DEF RowRec
      <3> QED
        BY <2>2, <2>5, <2>6, <3>1
    <2>8. \A e \in Drain : held'[e] \subseteq held[e]
      BY <1>0, <1>10 DEF Pause
    <2>9. FittingRows
      BY <1>2, <1>10, <2>7, <2>8 DEF Pause, logVars
    <2> QED
      BY <1>0, <1>1, <1>10, <2>9 DEF Pause, Closing, Goto
  <1>11. CASE Stop(d)
    <2>1. \A s \in Row : row'[s] = row[s] \/ (row[s].tok = d /\ row'[s] = [row[s] EXCEPT !.tok = Nobody])
      BY <1>11 DEF Stop, Abandoned
    <2>2. \A s \in Row : row[s].tok = d => row[s].st = "SENDING"
      BY DEF ClaimIsKnown
    <2>3. \A s \in Row :
             \/ row'[s] = row[s]
             \/ /\ row'[s].tok = Nobody /\ row'[s].att = row[s].att /\ row[s].st # "ABSENT"
                /\ row'[s].st = "PENDING" => Room(s)
      BY <1>0, <2>1, <2>2 DEF RowRec
    <2>4. \A e \in Drain : held'[e] \subseteq held[e]
      BY <1>0, <1>11 DEF Stop
    <2>5. FittingRows
      BY <1>2, <1>11, <2>3, <2>4 DEF Stop, logVars
    <2> QED
      BY <1>0, <1>1, <1>11, <2>5 DEF Stop, Goto
  <1> QED
    BY <1>3, <1>4, <1>5, <1>6, <1>7, <1>8, <1>9, <1>10, <1>11 DEF DrainStep, Throw, Quiet

\* A batch is claimed from rows that wait, so each has room for a try.
LEMMA ClaimFits ==
    ASSUME TypeOK, ClaimInv, TriesFit, NEW d \in Drain, Claim(d) \/ Select(d)
    PROVE  TriesFit'
  <1> USE DEF ClaimInv
  <1>0. /\ row \in [Row -> RowRec] /\ pc \in [Drain -> Phase] /\ tries \in [Row -> Nat]
        /\ held \in [Drain -> SUBSET Row] /\ mem \in [Drain -> Mem]
        /\ \A r \in Row : row[r] \in RowRec /\ row[r].att \in Nat /\ tries[r] \in Nat
        /\ MaxAttempts \in Nat
    BY StoreAssumption DEF TypeOK, StoreTypeOK, DrainTypeOK, RowRec
  <1>1. ASSUME NEW r \in Row, row'[r].att = row[r].att, tries' = tries
        PROVE  Room(r)' = Room(r)
    BY <1>1 DEF Room
  <1>2. CASE Claim(d)
    <2> PICK S \in SUBSET Claimable(d) :
            row' = [r \in Row |-> IF r \in S THEN Taken(row[r], d) ELSE row[r]]
      BY <1>2 DEF Claim
    <2>1. \A r \in S : r \in Row /\ Room(r) /\ row[r].st = "PENDING"
      BY DEF Claimable, TriesFit
    <2>2. \A r \in Row : \/ r \in S /\ row'[r].st = "SENDING" /\ row'[r].tok = d
                         \/ r \notin S /\ row'[r] = row[r]
      BY <1>0, TakenRow
    <2>3. /\ UNCHANGED <<tries, held, flight, mem>>
          /\ \A e \in Drain : e # d => pc'[e] = pc[e]
          /\ pc[d] = "claim"
      BY <1>0, <1>2 DEF Claim, Goto, logVars
    <2>4. \A r \in Row : row'[r].att = row[r].att /\ Room(r)' = Room(r)
      BY <1>0, <1>1, <2>3, Charges
    <2>5. TriesBounded'
      BY <2>3 DEF TriesFit, TriesBounded
    <2>6. \A r \in Row : row'[r].st = "PENDING" => Room(r)'
      BY <2>2, <2>4 DEF TriesFit
    <2>7. \A e \in Drain, r \in Row : pc'[e] = "select" /\ row'[r].tok = e => Room(r)'
      <3>1. \A r \in Row : row[r].tok # d
        BY <2>3 DEF ClaimIsKnown, HeldWhileSending
      <3>2. \A e \in Drain, r \in Row : row'[r].tok = e /\ r \notin S => e # d /\ row[r].tok = e
        BY <2>2, <3>1
      <3>3. \A e \in Drain, r \in S : row'[r].tok = e => Room(r)'
        BY <2>1, <2>4
      <3> QED
        BY <2>3, <2>4, <3>2, <3>3 DEF TriesFit
    <2>8. \A e \in Drain : \A r \in held[e] : r \in Row /\ row'[r] = row[r] /\ Room(r)' = Room(r)
      BY <1>0, <2>1, <2>2, <2>4 DEF HeldIsOwn
    <2> QED
      BY <2>3, <2>5, <2>6, <2>7, <2>8 DEF TriesFit
  <1>3. CASE Select(d)
    <2> DEFINE live == {r \in {r \in Row : row[r].tok = d} : camp[r[1]].st = "SENDING"}
    <2>1. /\ held' = [held EXCEPT ![d] = live] /\ pc[d] = "select"
          /\ UNCHANGED <<tries, flight>>
          /\ \A e \in Drain : e # d => mem'[e] = mem[e] /\ pc'[e] = pc[e]
          /\ pc'[d] # "select"
      BY <1>0, <1>3 DEF Select, Closing, Goto, logVars
    <2>2. \A r \in Row : /\ row'[r].att = row[r].att /\ Room(r)' = Room(r)
                         /\ \/ row'[r] = row[r]
                            \/ row'[r].st = "SKIPPED" /\ row'[r].tok = Nobody /\ row[r].st # "ABSENT"
      <3>1. \A r \in Row : row'[r] = row[r] \/ (row[r].tok = d /\ row'[r] = Freed(row[r], "SKIPPED"))
        BY <1>3 DEF Select
      <3> QED
        BY <1>0, <1>1, <2>1, <3>1, FreedRow DEF RowStatus, ClaimIsKnown
    <2>3. \A r \in live : r \in Row /\ Room(r)
      BY <2>1 DEF TriesFit
    <2>4. flight[d] = {}
      BY <2>1 DEF HeldWhileSending
    <2>5. TriesBounded'
      BY <2>1 DEF TriesFit, TriesBounded
    <2>6. \A r \in Row : row'[r].st = "PENDING" => Room(r)'
      BY <2>2 DEF TriesFit
    <2>7. \A e \in Drain, r \in Row : pc'[e] = "select" /\ row'[r].tok = e => Room(r)'
      BY <2>1, <2>2, StoreAssumption DEF TriesFit
    <2> HIDE DEF live
    <2>8. ASSUME NEW e \in Drain, NEW r \in held'[e]
          PROVE  IF r \in flight'[e]
                 THEN row'[r].st # "ABSENT" =>
                         /\ tries'[r] <= row'[r].att + 1 /\ row'[r].att < MaxAttempts
                         /\ mem'[e].res = "SUPPRESSED" => Room(r)'
                 ELSE tries'[r] < MaxAttempts /\ (row'[r].st # "ABSENT" => Room(r)')
      <3>1. CASE e = d
        <4>1. r \in live /\ r \in Row /\ r \notin flight'[e]
          BY <1>0, <2>1, <2>3, <2>4, <2>8, <3>1
        <4>2. Room(r)' /\ tries'[r] < MaxAttempts
          BY <1>0, <2>1, <2>2, <2>3, <4>1 DEF Room
        <4> QED
          BY <4>1, <4>2
      <3>2. CASE e # d
        <4>1. /\ r \in held[e] /\ r \in Row /\ flight'[e] = flight[e] /\ mem'[e] = mem[e]
              /\ tries'[r] = tries[r]
          BY <1>0, <2>1, <2>8, <3>2
        <4>2. row'[r].att = row[r].att /\ Room(r)' = Room(r) /\ (row'[r].st # "ABSENT" => row[r].st # "ABSENT")
          BY <2>2, <4>1
        <4> QED
          BY <4>1, <4>2 DEF TriesFit
      <3> QED
        BY <3>1, <3>2
    <2> QED
      BY <2>5, <2>6, <2>7, <2>8 DEF TriesFit
  <1> QED
    BY <1>2, <1>3

\* The hand-over counts as a try, and the row had room for one.
LEMMA HandOverFits ==
    ASSUME TypeOK, ClaimInv, TriesFit, NEW d \in Drain, NEW r \in Row, HandOver(d, r)
    PROVE  TriesFit'
  <1> USE DEF ClaimInv
  <1>0. /\ row \in [Row -> RowRec] /\ tries \in [Row -> Nat]
        /\ held \in [Drain -> SUBSET Row] /\ flight \in [Drain -> SUBSET Row]
        /\ pc \in [Drain -> Phase] /\ mem \in [Drain -> Mem]
        /\ \A s \in Row : row[s].att \in Nat /\ tries[s] \in Nat
        /\ MaxAttempts \in Nat
    BY StoreAssumption DEF TypeOK, StoreTypeOK, DrainTypeOK, RowRec
  <1> PICK answer \in Answers(d) :
        /\ mem' = [mem EXCEPT ![d].res = answer.res]
        /\ tries' = IF answer.res \in {"SUPPRESSED", "render"} THEN tries
                    ELSE [tries EXCEPT ![r] = @ + 1]
    BY DEF HandOver
  <1>1. /\ r \in held[d] /\ flight[d] = {} /\ pc[d] = "send"
        /\ tries[r] < MaxAttempts /\ (row[r].st # "ABSENT" => Room(r))
    BY DEF HandOver, Hand, HeldWhileSending, TriesFit
  <1>2. /\ UNCHANGED <<row, held>>
        /\ flight'[d] = {r} /\ pc'[d] = "settle"
        /\ \A e \in Drain : e # d => flight'[e] = flight[e] /\ pc'[e] = pc[e] /\ mem'[e] = mem[e]
    BY <1>0 DEF HandOver, Goto, dbVars
  <1>3. /\ mem'[d].res = answer.res
        /\ answer.res = "SUPPRESSED" => tries' = tries
        /\ tries'[r] \in {tries[r], tries[r] + 1}
        /\ \A s \in Row : s # r => tries'[s] = tries[s]
    BY <1>0 DEF Mem
  <1>4. \A s \in Row : s # r => Room(s)' = Room(s)
    BY <1>2, <1>3 DEF Room
  <1>5. TriesBounded'
    BY <1>0, <1>1, <1>3 DEF TriesFit, TriesBounded
  <1>6. row[r].st # "PENDING" /\ \A e \in Drain : pc[e] = "select" => row[r].tok # e
    BY <1>1 DEF HeldIsOwn, ClaimIsKnown
  <1>7. \A s \in Row : row'[s].st = "PENDING" => Room(s)'
    BY <1>2, <1>4, <1>6 DEF TriesFit
  <1>8. \A e \in Drain, s \in Row : pc'[e] = "select" /\ row'[s].tok = e => Room(s)'
    BY <1>1, <1>2, <1>4, <1>6 DEF TriesFit
  <1>9. ASSUME NEW e \in Drain, NEW s \in held'[e]
        PROVE  IF s \in flight'[e]
               THEN row'[s].st # "ABSENT" =>
                       /\ tries'[s] <= row'[s].att + 1 /\ row'[s].att < MaxAttempts
                       /\ mem'[e].res = "SUPPRESSED" => Room(s)'
               ELSE tries'[s] < MaxAttempts /\ (row'[s].st # "ABSENT" => Room(s)')
    <2>1. s \in held[e] /\ s \in Row
      BY <1>0, <1>2, <1>9
    <2>2. CASE s = r
      <3>1. e = d
        BY <1>1, <2>1, <2>2 DEF OneHolder
      <3>2. row[r].st # "ABSENT" => tries'[r] <= row[r].att + 1 /\ row[r].att < MaxAttempts
        BY <1>0, <1>1, <1>3 DEF Room
      <3>3. answer.res = "SUPPRESSED" /\ row[r].st # "ABSENT" => Room(r)'
        BY <1>1, <1>2, <1>3 DEF Room
      <3> QED
        BY <1>2, <1>3, <2>2, <3>1, <3>2, <3>3
    <2>3. CASE s # r
      <3>1. (s \in flight'[e] <=> s \in flight[e]) /\ (s \in flight[e] => e # d)
        BY <1>1, <1>2, <2>3
      <3>2. tries'[s] = tries[s] /\ Room(s)' = Room(s) /\ row'[s] = row[s]
        BY <1>2, <1>3, <1>4, <2>1, <2>3
      <3> QED
        BY <1>2, <2>1, <3>1, <3>2 DEF TriesFit
    <2> QED
      BY <2>2, <2>3
  <1> QED
    BY <1>5, <1>7, <1>8, <1>9 DEF TriesFit

LEMMA TriesStep ==
    ASSUME TypeOK, TypeOK', ClaimInv, "retry" \notin Ops \/ ClaimsKept, GoneForGood, TriesFit, Next
    PROVE  TriesFit'
  <1>0. row \in [Row -> RowRec] /\ \A r \in Row : tries[r] \in Nat /\ row[r] \in RowRec
    BY DEF TypeOK, StoreTypeOK
  <1>1. CASE (DeskNext \/ Surroundings) /\ UNCHANGED drainVars
    BY <1>1, DeskFits, DeskClaimsNothing, TriesStay DEF drainVars
  <1>2. ASSUME NEW d \in Drain, Quiet(d) PROVE TriesFit'
    <2>1. /\ UNCHANGED <<row, tries, held, flight>>
          /\ \A e \in Drain : pc'[e] = "select" => pc[e] = "select"
      BY <1>2, QuietSteps
    <2>2. \A e \in Drain : flight'[e] # {} => mem'[e].res = mem[e].res
      <3>1. flight[d] # {} => mem'[d].res = mem[d].res
        <4>1. CASE BudgetEnds(d)
          BY <4>1 DEF BudgetEnds, TypeOK, DrainTypeOK, Mem
        <4>2. CASE ~BudgetEnds(d)
          <5>1. pc[d] # "settle"
            BY <1>2, <4>2 DEF Quiet, CronTick, Kick, Begin, Gate, NothingToClaim, BatchDone,
                              CampaignDone, Return, OpenSession
          <5> QED
            BY <5>1 DEF ClaimInv, HeldWhileSending
        <4> QED
          BY <4>1, <4>2
      <3> QED
        BY <1>2, <2>1, <3>1, QuietSteps
    <2>3. FittingRows /\ NoNewClaim
      <3>1. \A e \in Drain : held[e] \subseteq Row
        BY DEF TypeOK, DrainTypeOK
      <3> QED
        BY <1>0, <2>1, <3>1 DEF FittingRows, NoNewClaim
    <2> QED
      BY <2>1, <2>2, <2>3, TriesStay
  <1>3. ASSUME NEW d \in Drain, DrainStep(d) \/ Stop(d) PROVE TriesFit'
    BY <1>2, <1>3, DrainFits, ClaimFits, HandOverFits
  <1>4. ASSUME NEW r \in Row, LeaseEnds(r) \/ BackoffEnds(r) PROVE TriesFit'
    <2>1. /\ UNCHANGED <<tries, pc, held, flight, mem>>
          /\ \A s \in Row : /\ row'[s].st = row[s].st /\ row'[s].tok = row[s].tok
                            /\ row'[s].att = row[s].att
      BY <1>0, <1>4 DEF LeaseEnds, BackoffEnds, logVars, drainVars, RowRec
    <2>2. FittingRows /\ NoNewClaim
      <3>1. \A e \in Drain : held[e] \subseteq Row
        BY DEF TypeOK, DrainTypeOK
      <3> QED
        BY <1>0, <2>1, <3>1 DEF FittingRows, NoNewClaim
    <2> QED
      BY <2>1, <2>2, TriesStay
  <1> QED
    BY <1>1, <1>2, <1>3, <1>4 DEF Next, RunnerNext, Quiet, Crash

\* No row is tried more often than the back-off allows, whatever is given back,
\* crashes or is retried in between: also where an answer of the provider is
\* lost, for a lost answer is charged like a refusal.
THEOREM Tries ==
    ASSUME RetryIsSafe
    PROVE  Spec => [](GoneForGood /\ TriesFit)
  <1>1. Init => GoneForGood /\ TriesFit
    BY FreshRow, StoreAssumption
       DEF Init, StoreInit, DrainInit, GoneForGood, HandedOver, TriesFit, TriesBounded
  <1>2. TypeOK /\ TypeOK' /\ (ClaimInv /\ (LeasesLast => ClaimsKept)) /\ (GoneForGood /\ TriesFit)
            /\ [Next]_vars => (GoneForGood /\ TriesFit)'
    <2>1. ASSUME TypeOK, TypeOK', ClaimInv, LeasesLast => ClaimsKept, GoneForGood, TriesFit, Next
          PROVE  GoneForGood' /\ TriesFit'
      BY <2>1, GoneStep, TriesStep DEF RetryIsSafe
    <2>2. ASSUME GoneForGood, TriesFit, UNCHANGED vars PROVE GoneForGood' /\ TriesFit'
      BY <2>2 DEF vars, storeVars, drainVars, GoneForGood, HandedOver, Asked, About, TriesFit,
                  TriesBounded, Room
    <2> QED
      BY <2>1, <2>2
  <1> QED
    BY <1>1, <1>2, Typing, Claims, PTL DEF Spec

\* A row is handed to the provider at most MaxAttempts times before it is failed
\* for good, or before a person asks again.
COROLLARY TriesBoundedAlways ==
    ASSUME RetryIsSafe
    PROVE  Spec => []TriesBounded
  <1>1. GoneForGood /\ TriesFit => TriesBounded
    BY DEF TriesFit
  <1> QED
    BY <1>1, Tries, PTL
=============================================================================
