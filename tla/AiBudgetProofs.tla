--------------------------- MODULE AiBudgetProofs ---------------------------
(***************************************************************************)
(* What holds of AiBudget for any number of calls and admins, any caps and *)
(* any prices, checked by TLAPS.                                           *)
(***************************************************************************)
EXTENDS AiBudget, FiniteSetTheorems, TLAPS

LEMMA Shapes ==
    /\ 1 \in Month /\ 0 \in 0..Worst
    /\ Blank \in Mem
    /\ NoRow \in Row /\ NoLog \in Log /\ Untold \in [Notice -> BOOLEAN]
  BY BudgetAssumption DEF Month, Blank, Mem, NoRow, Row, NoLog, Log, Untold, Notice

\* What the operators on a row and on its log return.
LEMMA RowForms ==
    ASSUME NEW row \in Row, NEW b \in Cap \cup {0}, NEW x \in Nat
    PROVE  /\ Opened(row, b) \in Row /\ Opened(row, b).here
           /\ row.here => Opened(row, b) = row
           /\ ~row.here => /\ Opened(row, b).cost = 0 /\ Opened(row, b).budget = b
                           /\ Opened(row, b).told = Untold
           /\ Metered(row, x) \in Row /\ Metered(row, x).here
           /\ row.here => /\ Metered(row, x).cost = row.cost + x
                          /\ Metered(row, x).budget = row.budget
                          /\ Metered(row, x).told = row.told
           /\ ~row.here => /\ Metered(row, x).cost = x /\ Metered(row, x).budget = 0
                           /\ Metered(row, x).told = Untold
  <1>1. CASE row.here
    <2>1. Opened(row, b) = row
      BY <1>1 DEF Opened
    <2>2. Metered(row, x) = [row EXCEPT !.cost = @ + x]
      BY <1>1 DEF Metered
    <2> QED
      BY <1>1, <2>1, <2>2 DEF Row
  <1>2. CASE ~row.here
    <2>1. Opened(row, b) = [here |-> TRUE, cost |-> 0, budget |-> b, told |-> Untold]
      BY <1>2 DEF Opened, NoRow
    <2>2. Metered(row, x) = [here |-> TRUE, cost |-> x, budget |-> 0, told |-> Untold]
      BY <1>2 DEF Metered, NoRow
    <2> QED
      BY <1>2, <2>1, <2>2, Shapes DEF Row
  <1> QED
    BY <1>1, <1>2

LEMMA LogForms ==
    ASSUME NEW entry \in Log, NEW b \in Cap \cup {0}
    PROVE  /\ Capping(entry, b) \in Log
           /\ ~Capping(entry, b).loose => ~entry.loose /\ b # 0
           /\ Capping(entry, b).peak >= entry.peak /\ Capping(entry, b).peak >= b
           /\ Capping(entry, b).notices = entry.notices
           /\ Capping(entry, b).clears = entry.clears
  <1>1. b \in Nat /\ entry.peak \in Nat
    BY BudgetAssumption DEF Log
  <1>2. Larger(entry.peak, b) \in Nat /\ Larger(entry.peak, b) >= entry.peak
        /\ Larger(entry.peak, b) >= b
    BY <1>1 DEF Larger
  <1> QED
    BY <1>2 DEF Capping, Log

\* The other things that are written to a log.
LEMMA LogEdits ==
    ASSUME NEW entry \in Log, NEW n \in Notice
    PROVE  /\ Clearing(entry) \in Log
           /\ [entry EXCEPT !.disturbed = TRUE] \in Log
           /\ [entry EXCEPT !.notices[n] = @ + 1] \in Log
  <1>1. entry.notices \in [Notice -> Nat] /\ entry.clears \in Nat
    BY DEF Log
  <1>2. [entry.notices EXCEPT ![n] = @ + 1] \in [Notice -> Nat]
    BY <1>1
  <1> DEFINE notices == [entry.notices EXCEPT ![n] = @ + 1]
  <1>3. [entry EXCEPT !.notices[n] = @ + 1] = [entry EXCEPT !.notices = notices]
    BY <1>1
  <1> HIDE DEF notices
  <1>4. [entry EXCEPT !.notices = notices] \in Log
    BY <1>2 DEF Log, notices
  <1> DEFINE counted == [entry EXCEPT !.clears = entry.clears + 1]
  <1>5. counted \in Log
    BY <1>1 DEF Log
  <1>6. Clearing(entry) = [counted EXCEPT !.disturbed = TRUE]
    BY DEF Clearing
  <1> HIDE DEF counted
  <1>7. \A e \in Log : [e EXCEPT !.disturbed = TRUE] \in Log
    BY DEF Log
  <1> QED
    BY <1>3, <1>4, <1>5, <1>6, <1>7

\* What an admin who clears the flags leaves of a log.
LEMMA ClearedLog ==
    ASSUME NEW entry \in Log, NEW b \in Cap \cup {0}
    PROVE  /\ Clearing(Capping(entry, b)) \in Log
           /\ ~Clearing(Capping(entry, b)).loose => ~entry.loose /\ b # 0
           /\ entry.peak <= Clearing(Capping(entry, b)).peak
           /\ b <= Clearing(Capping(entry, b)).peak
           /\ Clearing(Capping(entry, b)).notices = entry.notices
           /\ Clearing(Capping(entry, b)).clears = entry.clears + 1
  <1> DEFINE capped == Capping(entry, b)
  <1>1. /\ capped \in Log
        /\ ~capped.loose => ~entry.loose /\ b # 0
        /\ capped.peak >= entry.peak /\ capped.peak >= b
        /\ capped.notices = entry.notices /\ capped.clears = entry.clears
    BY LogForms
  <1>2. b \in Nat /\ entry.peak \in Nat /\ capped.peak \in Nat
    BY <1>1, BudgetAssumption DEF Log
  <1> HIDE DEF capped
  <1>3. /\ Clearing(capped).loose = capped.loose
        /\ Clearing(capped).peak = capped.peak
        /\ Clearing(capped).notices = capped.notices
        /\ Clearing(capped).clears = capped.clears + 1
    BY <1>1 DEF Clearing, Log
  <1>4. Clearing(capped) \in Log
    BY <1>1, LogEdits DEF Notice
  <1> QED
    BY <1>1, <1>2, <1>3, <1>4 DEF capped

LEMMA TypeInit == Init => TypeOK
  BY Shapes, BudgetAssumption DEF Init, TypeOK, Limits, Phase, Errand, Month

LEMMA TypeStep == TypeOK /\ [Next]_vars => TypeOK'
  <1> SUFFICES ASSUME TypeOK, [Next]_vars PROVE TypeOK'
    OBVIOUS
  <1> USE BudgetAssumption DEF callVars, boundVars
  <1>1. ASSUME NEW c \in Call, Start(c) PROVE TypeOK'
    <2>1. [Blank EXCEPT !.hard = limits.hard, !.budget = limits.budget] \in Mem
      BY Shapes DEF TypeOK, Limits, Mem
    <2> QED
      BY <1>1, <2>1 DEF Start, Goto, TypeOK, Phase
  <1>2. ASSUME NEW c \in Call, RefuseEarly(c) PROVE TypeOK'
    BY <1>2 DEF RefuseEarly, Goto, Upset, TypeOK, Phase
  <1>3. ASSUME NEW c \in Call, CheckBudget(c) PROVE TypeOK'
    <2> DEFINE row == Opened(period[month], mem[c].budget)
               entry == Capping(log[month], row.budget)
               let == Admitted(c, row) /\ ~mem[c].hard
               noted == [entry EXCEPT !.loose = IF let THEN TRUE ELSE @]
    <2>1. period[month] \in Row /\ mem[c].budget \in Cap \cup {0} /\ log[month] \in Log
      BY DEF TypeOK, Mem
    <2>2. row \in Row
      BY <2>1, RowForms
    <2>3. row.budget \in Cap \cup {0}
      BY <2>2 DEF Row
    <2>7. entry \in Log
      BY <2>1, <2>3, LogForms
    <2>4. /\ period' = [period EXCEPT ![month] = row]
          /\ log' = [log EXCEPT ![month] = noted]
      BY <1>3 DEF CheckBudget
    <2> HIDE DEF row, entry, let
    <2>5. noted \in Log
      BY <2>7 DEF Log
    <2> HIDE DEF noted
    <2>6. /\ period' \in [Month -> Row]
          /\ log' \in [Month -> Log]
      BY <2>2, <2>4, <2>5 DEF TypeOK
    <2>8. pc' \in [Call -> Phase] /\ mem' \in [Call -> Mem]
      BY <1>3, Shapes DEF CheckBudget, Goto, TypeOK, Phase
    <2> QED
      BY <1>3, <2>6, <2>8 DEF CheckBudget, TypeOK
  <1>4. ASSUME NEW c \in Call, Answer(c) PROVE TypeOK'
    <2>1. PICK cost \in 0..Worst : mem' = [mem EXCEPT ![c].cost = cost]
      BY <1>4 DEF Answer
    <2>2. mem' \in [Call -> Mem]
      BY <2>1 DEF TypeOK, Mem
    <2> QED
      BY <1>4, <2>2 DEF Answer, Goto, TypeOK, Phase
  <1>5. ASSUME NEW c \in Call, Refuse(c) PROVE TypeOK'
    <2>1. period[month] \in Row /\ log[month] \in Log
      BY DEF TypeOK
    <2>2. Metered(period[month], 0) \in Row
      BY <2>1, RowForms
    <2>3. Capping(log[month], Metered(period[month], 0).budget) \in Log
      BY <2>1, <2>2, LogForms DEF Row
    <2>4. /\ period' = [period EXCEPT ![month] = Metered(period[month], 0)]
          /\ log' = [log EXCEPT ![month] = Capping(log[month], Metered(period[month], 0).budget)]
      BY <1>5 DEF Refuse, TypeOK
    <2> QED
      BY <1>5, <2>2, <2>3, <2>4, Shapes DEF Refuse, Goto, TypeOK, Phase
  <1>6. ASSUME NEW c \in Call, Meter(c) PROVE TypeOK'
    <2>1. period[month] \in Row /\ log[month] \in Log /\ mem[c].cost \in Nat
      BY DEF TypeOK, Mem
    <2>2. Metered(period[month], mem[c].cost) \in Row
      BY <2>1, RowForms
    <2>3. Capping(log[month], Metered(period[month], mem[c].cost).budget) \in Log
      BY <2>1, <2>2, LogForms DEF Row
    <2>4. /\ period' = [period EXCEPT ![month] = Metered(period[month], mem[c].cost)]
          /\ log' = [log EXCEPT ![month] =
                       Capping(log[month], Metered(period[month], mem[c].cost).budget)]
      BY <1>6 DEF Meter, TypeOK
    <2> QED
      BY <1>6, <2>2, <2>3, <2>4, Shapes DEF Meter, Goto, TypeOK, Phase
  <1>7. ASSUME NEW c \in Call, Settle(c) PROVE TypeOK'
    <2>1. mem' \in [Call -> Mem]
      BY <1>7, Shapes DEF Settle, TypeOK, Mem, Notice
    <2> QED
      BY <1>7, <2>1 DEF Settle, Goto, TypeOK, Phase
  <1>8. ASSUME NEW c \in Call, Stamp(c) PROVE TypeOK'
    <2>1. mem[c].at \in Month /\ mem[c].saw \in Notice
      BY DEF TypeOK, Mem
    <2>2. [period[mem[c].at] EXCEPT !.told[mem[c].saw] = TRUE] \in Row
      BY <2>1 DEF TypeOK, Row
    <2>3. period' = [period EXCEPT ![mem[c].at] =
                        [period[mem[c].at] EXCEPT !.told[mem[c].saw] = TRUE]]
      BY <1>8, <2>1 DEF Stamp, TypeOK
    <2>4. period' \in [Month -> Row]
      BY <2>2, <2>3 DEF TypeOK
    <2>5. mem' \in [Call -> Mem] /\ pc' \in [Call -> Phase]
      BY <1>8, Shapes DEF Stamp, Goto, TypeOK, Phase
    <2> QED
      BY <1>8, <2>4, <2>5 DEF Stamp, TypeOK
  <1>9. ASSUME NEW c \in Call, Tell(c) PROVE TypeOK'
    <2>1. mem[c].at \in Month /\ mem[c].saw \in Notice /\ log[mem[c].at] \in Log
      BY DEF TypeOK, Mem
    <2>2. /\ [log[mem[c].at] EXCEPT !.notices[mem[c].saw] = @ + 1] \in Log
          /\ [log[mem[c].at] EXCEPT !.disturbed = TRUE] \in Log
      BY <2>1, LogEdits
    <2>3. \/ log' = [log EXCEPT ![mem[c].at] =
                        [log[mem[c].at] EXCEPT !.notices[mem[c].saw] = @ + 1]]
          \/ log' = [log EXCEPT ![mem[c].at] = [log[mem[c].at] EXCEPT !.disturbed = TRUE]]
      BY <1>9, <2>1 DEF Tell, TypeOK
    <2>4. log' \in [Month -> Log]
      BY <2>1, <2>2, <2>3 DEF TypeOK
    <2> QED
      BY <1>9, <2>4, Shapes DEF Tell, Goto, TypeOK, Phase
  <1>10. ASSUME NEW c \in Call, Crash(c) PROVE TypeOK'
    <2>1. \A m \in Month : [log[m] EXCEPT !.disturbed = TRUE] \in Log
      BY DEF TypeOK, Log
    <2> QED
      BY <1>10, <2>1, Shapes DEF Crash, Goto, Upset, TypeOK, Phase
  <1>11. ASSUME NEW a \in Admin, Save(a) PROVE TypeOK'
    <2>1. limits' \in Limits /\ limits'.budget \in Cap
      BY <1>11 DEF Save, Limits
    <2> QED
      BY <1>11, <2>1 DEF Save, Upset, TypeOK, Errand
  <1>12. ASSUME NEW a \in Admin, Apply(a) PROVE TypeOK'
    <2>1. desk[a].budget \in Cap /\ log[month] \in Log /\ period[month] \in Row
      BY <1>12 DEF Apply, TypeOK, Errand, Idle
    <2>2. Recapped(period[month], desk[a].budget) \in Row
      BY <2>1, Shapes DEF Row, Recapped
    <2>3. Clearing(Capping(log[month], desk[a].budget)) \in Log
      BY <2>1, LogForms, LogEdits DEF Notice
    <2>4. /\ period' = [period EXCEPT ![month] = Recapped(period[month], desk[a].budget)]
          /\ log' = [log EXCEPT ![month] = Clearing(Capping(log[month], desk[a].budget))]
      BY <1>12 DEF Apply
    <2> QED
      BY <1>12, <2>2, <2>3, <2>4 DEF Apply, TypeOK, Errand
  <1>13. ASSUME NEW a \in Admin, OpenReset(a) PROVE TypeOK'
    <2>1. period[month] \in Row /\ log[month] \in Log /\ limits.budget \in Cap
      BY DEF TypeOK, Limits
    <2>2. Opened(period[month], limits.budget) \in Row
      BY <2>1, RowForms
    <2>3. Capping(log[month], Opened(period[month], limits.budget).budget) \in Log
      BY <2>1, <2>2, LogForms DEF Row
    <2>4. /\ period' = [period EXCEPT ![month] = Opened(period[month], limits.budget)]
          /\ log' = [log EXCEPT ![month] =
                       Capping(log[month], Opened(period[month], limits.budget).budget)]
      BY <1>13 DEF OpenReset, TypeOK
    <2> QED
      BY <1>13, <2>1, <2>2, <2>3, <2>4 DEF OpenReset, Upset, TypeOK, Errand
  <1>14. ASSUME NEW a \in Admin, Reset(a) PROVE TypeOK'
    <2>1. desk[a].budget \in Cap /\ log[month] \in Log /\ period[month] \in Row
      BY <1>14 DEF Reset, TypeOK, Errand, Idle
    <2>2. Zeroed(desk[a].budget) \in Row
      BY <2>1, Shapes DEF Row, Zeroed
    <2>3. Clearing(Capping(log[month], desk[a].budget)) \in Log
      BY <2>1, LogForms, LogEdits DEF Notice
    <2>4. /\ period' = [period EXCEPT ![month] = Zeroed(desk[a].budget)]
          /\ log' = [log EXCEPT ![month] = Clearing(Capping(log[month], desk[a].budget))]
      BY <1>14 DEF Reset
    <2> QED
      BY <1>14, <2>2, <2>3, <2>4 DEF Reset, TypeOK, Errand
  <1>15. CASE Look
    <2>1. period[month] \in Row /\ log[month] \in Log /\ limits.budget \in Cap
      BY DEF TypeOK, Limits
    <2>2. Opened(period[month], limits.budget) \in Row
      BY <2>1, RowForms
    <2>3. Capping(log[month], limits.budget) \in Log
      BY <2>1, LogForms
    <2> QED
      BY <1>15, <2>2, <2>3 DEF Look, TypeOK
  <1>16. CASE NextMonth
    BY <1>16 DEF NextMonth, TypeOK, Month
  <1>17. CASE UNCHANGED vars
    BY <1>17 DEF vars, TypeOK
  <1> QED
    BY <1>1, <1>2, <1>3, <1>4, <1>5, <1>6, <1>7, <1>8, <1>9, <1>10, <1>11, <1>12,
       <1>13, <1>14, <1>15, <1>16, <1>17 DEF Next, CallStep

\* The row, the settings, the calls and the desk keep their types.
THEOREM Typing == Spec => []TypeOK
  BY TypeInit, TypeStep, PTL DEF Spec

-----------------------------------------------------------------------------
(***************************************************************************)
(* The overrun.  A call that is let through adds its worst case to what    *)
(* the month may still come to, and its meter moves that much, or less,    *)
(* from the promise to the spend.                                          *)
(***************************************************************************)
InFlight == {c \in Call : pc[c] \in {"ask", "meter"}}

Ceiling(peak) == Larger(peak, Worst) + (Cardinality(Call) - 1) * Worst

\* No row, no spend, and the months to come have none; a cap that was never lifted is
\* a positive one under the peak; what the calls in flight may cost is provided for.
Unopened == \A m \in Month : ~period[m].here => period[m].cost = 0
Future == \A m \in Month : m > month => ~period[m].here
Capped == \A m \in Month :
            period[m].here /\ ~log[m].loose => /\ 0 < period[m].budget
                                               /\ period[m].budget <= log[m].peak
Provided ==
    ~log[month].loose =>
        period[month].cost + Cardinality(InFlight) * Worst <= Ceiling(log[month].peak)
Closed == \A m \in Month :
            m < month /\ ~log[m].loose => period[m].cost <= Ceiling(log[m].peak)

OverrunInv == Unopened /\ Future /\ Capped /\ Provided /\ Closed

LEMMA Products ==
    ASSUME NEW i \in Int, NEW j \in Int, NEW w \in Nat, i <= j
    PROVE  /\ i * w \in Int /\ j * w \in Int
           /\ i * w <= j * w
           /\ (i + 1) * w = i * w + w
           /\ (j - 1) * w = j * w - w
  OBVIOUS

LEMMA Ceilings ==
    ASSUME NEW p \in Nat, NEW q \in Nat, p <= q
    PROVE  /\ Cardinality(Call) \in Nat
           /\ Ceiling(p) \in Int /\ Ceiling(q) \in Int
           /\ Ceiling(p) <= Ceiling(q)
           /\ p + (Cardinality(Call) - 1) * Worst <= Ceiling(p)
           /\ Cardinality(Call) * Worst <= Ceiling(p)
           /\ 0 <= Ceiling(p)
  <1>1. Cardinality(Call) \in Nat
    BY BudgetAssumption, FS_CardinalityType
  <1> DEFINE N == Cardinality(Call)
             rest == (N - 1) * Worst
  <1>2. /\ rest \in Int /\ N * Worst \in Int
        /\ rest = N * Worst - Worst
        /\ 0 <= N * Worst
    <2>1. 0 <= N /\ 0 \in Int /\ N \in Int /\ Worst \in Nat
      BY <1>1, BudgetAssumption
    <2> HIDE DEF N
    <2> QED
      BY <2>1, Products
  <1> HIDE DEF rest, N
  <1>3. /\ Ceiling(p) = Larger(p, Worst) + rest
        /\ Ceiling(q) = Larger(q, Worst) + rest
    BY DEF Ceiling, rest, N
  <1>4. /\ Larger(p, Worst) \in Nat /\ Larger(q, Worst) \in Nat
        /\ Larger(p, Worst) <= Larger(q, Worst)
        /\ p <= Larger(p, Worst) /\ Worst <= Larger(p, Worst)
    BY BudgetAssumption DEF Larger
  <1> QED
    BY <1>1, <1>2, <1>3, <1>4, BudgetAssumption DEF rest, N

LEMMA Flight ==
    ASSUME NEW S \in SUBSET Call, NEW T \in SUBSET S
    PROVE  /\ Cardinality(S) \in Nat /\ Cardinality(T) \in Nat
           /\ Cardinality(T) <= Cardinality(S)
           /\ Cardinality(S) <= Cardinality(Call)
           /\ IsFiniteSet(S)
           /\ Cardinality(T) * Worst <= Cardinality(S) * Worst
           /\ Cardinality(S) * Worst \in Int /\ Cardinality(T) * Worst \in Int
  <1>1. /\ IsFiniteSet(S) /\ Cardinality(S) <= Cardinality(Call)
        /\ IsFiniteSet(T) /\ Cardinality(T) <= Cardinality(S)
    BY BudgetAssumption, FS_Subset
  <1>2. Cardinality(S) \in Nat /\ Cardinality(T) \in Nat
    BY <1>1, FS_CardinalityType
  <1> QED
    BY <1>1, <1>2, BudgetAssumption, Products

LEMMA OverrunInit == Init => OverrunInv
  <1> SUFFICES ASSUME Init PROVE OverrunInv
    OBVIOUS
  <1>1. InFlight = {}
    BY DEF Init, InFlight
  <1>2. Cardinality(InFlight) * Worst = 0
    BY <1>1, FS_EmptySet, BudgetAssumption
  <1>3. Provided
    BY <1>2, Ceilings, BudgetAssumption DEF Init, Provided, NoRow, NoLog, Month
  <1> QED
    BY <1>3 DEF Init, OverrunInv, Unopened, Future, Capped, Closed, NoRow, Month

\* A step that leaves the spends, the caps and their logs alone, and lets no call through.
LEMMA AsideStep ==
    ASSUME TypeOK, TypeOK', OverrunInv, month' = month, InFlight' \subseteq InFlight,
           \A m \in Month : /\ period'[m].here = period[m].here
                            /\ period'[m].cost = period[m].cost
                            /\ period'[m].budget = period[m].budget
                            /\ log'[m].peak = log[m].peak
                            /\ log'[m].loose = log[m].loose
    PROVE  OverrunInv'
  <1>1. Unopened' /\ Future' /\ Capped' /\ Closed'
    BY DEF OverrunInv, Unopened, Future, Capped, Closed
  <1>2. Provided'
    <2>1. /\ month \in Month /\ period[month].cost \in Int
      BY DEF TypeOK, Row
    <2>2. InFlight \in SUBSET Call /\ InFlight' \in SUBSET InFlight
      BY DEF InFlight
    <2>3. /\ Cardinality(InFlight') * Worst <= Cardinality(InFlight) * Worst
          /\ Cardinality(InFlight') * Worst \in Int /\ Cardinality(InFlight) * Worst \in Int
      BY <2>2, Flight
    <2>4. log[month].peak \in Nat /\ Ceiling(log[month].peak) \in Int
      BY Ceilings DEF TypeOK, Log
    <2>5. ~log[month].loose =>
             period[month].cost + Cardinality(InFlight) * Worst <= Ceiling(log[month].peak)
      BY DEF OverrunInv, Provided
    <2>6. ~log[month].loose =>
             period[month].cost + Cardinality(InFlight') * Worst <= Ceiling(log[month].peak)
      BY <2>1, <2>3, <2>4, <2>5
    <2> QED
      BY <2>1, <2>6 DEF Provided
  <1> QED
    BY <1>1, <1>2 DEF OverrunInv

\* A step that writes the current month's row r and its log e.
LEMMA RowStep ==
    ASSUME TypeOK, TypeOK', OverrunInv, month' = month, NEW r \in Row, NEW e \in Log,
           period' = [period EXCEPT ![month] = r],
           log' = [log EXCEPT ![month] = e],
           r.here,
           ~e.loose => /\ 0 < r.budget /\ r.budget <= e.peak
                       /\ r.cost + Cardinality(InFlight') * Worst <= Ceiling(e.peak)
    PROVE  OverrunInv'
  <1>1. /\ month \in Month
        /\ period'[month] = r /\ log'[month] = e
        /\ \A m \in Month : m # month => period'[m] = period[m] /\ log'[m] = log[m]
    BY DEF TypeOK
  <1>2. Unopened' /\ Capped' /\ Provided'
    BY <1>1 DEF OverrunInv, Unopened, Capped, Provided
  <1>3. Future' /\ Closed'
    BY <1>1 DEF OverrunInv, Future, Closed, Month
  <1> QED
    BY <1>2, <1>3 DEF OverrunInv

\* ... whose spend is no more than it was, while no call is let through.
LEMMA QuietStep ==
    ASSUME TypeOK, TypeOK', OverrunInv, month' = month, NEW r \in Row, NEW e \in Log,
           period' = [period EXCEPT ![month] = r],
           log' = [log EXCEPT ![month] = e],
           InFlight' \subseteq InFlight,
           r.here, r.cost <= period[month].cost,
           ~e.loose => /\ ~log[month].loose /\ log[month].peak <= e.peak
                       /\ 0 < r.budget /\ r.budget <= e.peak
    PROVE  OverrunInv'
  <1>1. /\ month \in Month /\ period[month].cost \in Int /\ r.cost \in Int
        /\ log[month].peak \in Nat /\ e.peak \in Nat
    BY DEF TypeOK, Row, Log
  <1>2. InFlight \in SUBSET Call /\ InFlight' \in SUBSET InFlight
    BY DEF InFlight
  <1>3. /\ Cardinality(InFlight') * Worst <= Cardinality(InFlight) * Worst
        /\ Cardinality(InFlight') * Worst \in Int /\ Cardinality(InFlight) * Worst \in Int
    BY <1>2, Flight
  <1>4. ASSUME ~e.loose
        PROVE  r.cost + Cardinality(InFlight') * Worst <= Ceiling(e.peak)
    <2>1. /\ Ceiling(log[month].peak) <= Ceiling(e.peak)
          /\ Ceiling(log[month].peak) \in Int /\ Ceiling(e.peak) \in Int
      BY <1>1, <1>4, Ceilings
    <2>2. period[month].cost + Cardinality(InFlight) * Worst <= Ceiling(log[month].peak)
      BY <1>4 DEF OverrunInv, Provided
    <2> QED
      BY <1>1, <1>3, <2>1, <2>2
  <1> QED
    BY <1>4, RowStep

LEMMA OverrunStep == TypeOK /\ TypeOK' /\ OverrunInv /\ [Next]_vars => OverrunInv'
  <1> SUFFICES ASSUME TypeOK, TypeOK', OverrunInv, [Next]_vars PROVE OverrunInv'
    OBVIOUS
  <1> USE DEF callVars, boundVars
  <1>a. /\ month \in Month
        /\ period[month] \in Row /\ log[month] \in Log
        /\ period[month].cost \in Nat /\ period[month].budget \in Cap \cup {0}
        /\ limits.budget \in Cap \cup {0}
        /\ \A b \in Cap \cup {0} : b \in Nat
    BY BudgetAssumption DEF TypeOK, Row, Limits
  <1>b. ~period[month].here => period[month].cost = 0
    BY <1>a DEF OverrunInv, Unopened
  <1>1. ASSUME NEW c \in Call, Start(c) PROVE OverrunInv'
    BY <1>1, AsideStep DEF Start, Goto, InFlight, TypeOK
  <1>2. ASSUME NEW c \in Call, RefuseEarly(c) PROVE OverrunInv'
    BY <1>2, AsideStep DEF RefuseEarly, Goto, InFlight, TypeOK
  <1>3. ASSUME NEW c \in Call, CheckBudget(c) PROVE OverrunInv'
    <2> DEFINE row == Opened(period[month], mem[c].budget)
               entry == Capping(log[month], row.budget)
               let == Admitted(c, row) /\ ~mem[c].hard
               noted == [entry EXCEPT !.loose = IF let THEN TRUE ELSE @]
    <2>1. mem[c].budget \in Cap \cup {0} /\ mem[c].hard \in BOOLEAN
      BY DEF TypeOK, Mem
    <2>2. /\ row \in Row /\ row.here
          /\ row.cost = period[month].cost /\ row.budget \in Cap \cup {0}
      BY <1>a, <1>b, <2>1, RowForms DEF Row
    <2>3. /\ month' = month
          /\ period' = [period EXCEPT ![month] = row]
          /\ log' = [log EXCEPT ![month] = noted]
          /\ pc' = [pc EXCEPT ![c] = IF Admitted(c, row) THEN "ask" ELSE "refuse"]
      BY <1>3 DEF CheckBudget, Goto
    <2>4. ~mem[c].hard \/ ~Admitted(c, row) \/ (row.budget > 0 => Worst <= row.budget - row.cost)
      BY DEF Admitted, Affordable
    <2>5. /\ entry \in Log
          /\ ~entry.loose => ~log[month].loose /\ row.budget # 0
          /\ log[month].peak <= entry.peak /\ row.budget <= entry.peak
      BY <1>a, <2>2, LogForms DEF Log
    <2> HIDE DEF row, entry
    <2>6. /\ noted \in Log /\ noted.peak = entry.peak
          /\ ~noted.loose => ~entry.loose /\ ~let
      BY <2>5 DEF Log
    <2> HIDE DEF noted
    <2>7. CASE ~Admitted(c, row)
      <3>1. InFlight' \subseteq InFlight
        BY <1>3, <2>3, <2>7 DEF CheckBudget, InFlight, TypeOK
      <3>2. row.cost <= period[month].cost /\ month' = month
        BY <1>a, <2>2, <2>3
      <3>3. row.budget \in Nat
        BY <1>a, <2>2
      <3>4. ~noted.loose => /\ ~log[month].loose /\ log[month].peak <= noted.peak
                            /\ 0 < row.budget /\ row.budget <= noted.peak
        BY <2>5, <2>6, <3>3
      <3> QED
        BY <2>2, <2>3, <2>6, <3>1, <3>2, <3>4, QuietStep
    <2>8. CASE Admitted(c, row)
      <3>1. /\ InFlight' = InFlight \cup {c} /\ c \notin InFlight
            /\ InFlight' \in SUBSET Call /\ InFlight \in SUBSET InFlight'
        BY <1>3, <2>3, <2>8 DEF CheckBudget, InFlight, TypeOK
      <3>2. /\ IsFiniteSet(InFlight)
            /\ Cardinality(InFlight') <= Cardinality(Call)
            /\ Cardinality(InFlight) \in Nat /\ Cardinality(InFlight') \in Nat
        BY <3>1, Flight
      <3>3. Cardinality(InFlight') = Cardinality(InFlight) + 1
        BY <3>1, <3>2, FS_AddElement
      <3>4. Cardinality(Call) \in Nat
        BY BudgetAssumption, FS_CardinalityType
      <3> DEFINE k == Cardinality(InFlight)
                 N == Cardinality(Call)
      <3>5. /\ Cardinality(InFlight') * Worst = k * Worst + Worst
            /\ k * Worst <= (N - 1) * Worst
            /\ k * Worst \in Int /\ (N - 1) * Worst \in Int
        <4>1. k \in Int /\ N - 1 \in Int /\ k <= N - 1 /\ Worst \in Nat
          BY <3>2, <3>3, <3>4, BudgetAssumption
        <4> HIDE DEF k, N
        <4>2. /\ (k + 1) * Worst = k * Worst + Worst
              /\ k * Worst <= (N - 1) * Worst
              /\ k * Worst \in Int /\ (N - 1) * Worst \in Int
          BY <4>1, Products
        <4> QED
          BY <3>3, <4>2 DEF k
      <3> HIDE DEF k
      <3>6. ASSUME ~noted.loose
            PROVE  /\ 0 < row.budget /\ row.budget <= noted.peak
                   /\ row.cost + Cardinality(InFlight') * Worst <= Ceiling(noted.peak)
        <4>1. /\ row.budget \in Nat /\ row.cost \in Nat /\ noted.peak \in Nat
          BY <1>a, <2>2, <2>6 DEF Log
        <4>2. /\ 0 < row.budget /\ row.budget <= noted.peak
              /\ row.cost + Worst <= row.budget
          BY <2>1, <2>4, <2>5, <2>6, <2>8, <3>6, <4>1, BudgetAssumption
        <4>3. noted.peak + (N - 1) * Worst <= Ceiling(noted.peak) /\ Ceiling(noted.peak) \in Int
          BY <4>1, Ceilings
        <4> HIDE DEF N
        <4> QED
          BY <3>5, <4>1, <4>2, <4>3, BudgetAssumption
      <3> QED
        BY <2>2, <2>3, <2>6, <3>6, RowStep
    <2> QED
      BY <2>7, <2>8
  <1>4. ASSUME NEW c \in Call, Answer(c) PROVE OverrunInv'
    BY <1>4, AsideStep DEF Answer, Goto, InFlight, TypeOK
  <1>5. ASSUME NEW c \in Call, Refuse(c) PROVE OverrunInv'
    <2> DEFINE row == Metered(period[month], 0)
               entry == Capping(log[month], row.budget)
    <2>1. /\ row \in Row /\ row.here /\ row.cost = period[month].cost
          /\ row.budget \in Cap \cup {0}
      <3>1. 0 \in Nat /\ 0 \in Cap \cup {0}
        OBVIOUS
      <3>2. /\ row \in Row /\ row.here
            /\ period[month].here => row.cost = period[month].cost + 0
            /\ ~period[month].here => row.cost = 0
        BY <1>a, <3>1, RowForms
      <3>3. row.cost = period[month].cost
        BY <1>a, <1>b, <3>2
      <3> QED
        BY <3>2, <3>3 DEF Row
    <2>2. /\ month' = month
          /\ period' = [period EXCEPT ![month] = row]
          /\ log' = [log EXCEPT ![month] = entry]
      BY <1>5 DEF Refuse, TypeOK
    <2>3. InFlight' \subseteq InFlight
      BY <1>5 DEF Refuse, Goto, InFlight, TypeOK
    <2> HIDE DEF row
    <2> QED
      <3>1. /\ entry \in Log
            /\ ~entry.loose => /\ ~log[month].loose /\ log[month].peak <= entry.peak
                               /\ 0 < row.budget /\ row.budget <= entry.peak
        <4>1. row.budget \in Nat
          BY <1>a, <2>1
        <4>2. /\ entry \in Log
              /\ ~entry.loose => ~log[month].loose /\ row.budget # 0
              /\ log[month].peak <= entry.peak /\ row.budget <= entry.peak
          BY <1>a, <2>1, LogForms DEF Log
        <4> QED
          BY <4>1, <4>2
      <3>2. row.cost <= period[month].cost
        BY <1>a, <2>1
      <3> HIDE DEF entry
      <3> QED
        BY <2>1, <2>2, <2>3, <3>1, <3>2, QuietStep
  <1>6. ASSUME NEW c \in Call, Meter(c) PROVE OverrunInv'
    <2> DEFINE row == Metered(period[month], mem[c].cost)
               entry == Capping(log[month], row.budget)
    <2>1. mem[c].cost \in 0..Worst /\ mem[c].cost \in Nat
      BY BudgetAssumption DEF TypeOK, Mem
    <2>2. /\ row \in Row /\ row.here
          /\ period[month].here => /\ row.cost = period[month].cost + mem[c].cost
                                   /\ row.budget = period[month].budget
          /\ ~period[month].here => row.budget = 0
      <3>1. 0 \in Cap \cup {0}
        OBVIOUS
      <3>2. ASSUME NEW r \in Row, NEW x \in Nat
            PROVE  /\ Metered(r, x) \in Row /\ Metered(r, x).here
                   /\ r.here => /\ Metered(r, x).cost = r.cost + x
                                /\ Metered(r, x).budget = r.budget
                   /\ ~r.here => Metered(r, x).budget = 0
        BY <3>1, RowForms
      <3> QED
        BY <1>a, <2>1, <3>2
    <2>3. row.budget \in Cap \cup {0} /\ row.cost \in Nat
      BY <2>2 DEF Row
    <2>4. /\ month' = month
          /\ period' = [period EXCEPT ![month] = row]
          /\ log' = [log EXCEPT ![month] = entry]
      BY <1>6 DEF Meter, TypeOK
    <2> HIDE DEF row
    <2>5. /\ entry \in Log
          /\ ~entry.loose => ~log[month].loose /\ row.budget # 0
          /\ log[month].peak <= entry.peak /\ row.budget <= entry.peak
      BY <1>a, <2>3, LogForms DEF Log
    <2> HIDE DEF entry
    <2>6. /\ InFlight' = InFlight \ {c} /\ c \in InFlight
          /\ InFlight \in SUBSET Call /\ InFlight' \in SUBSET InFlight
      BY <1>6 DEF Meter, Goto, InFlight, TypeOK
    <2>7. /\ IsFiniteSet(InFlight)
          /\ Cardinality(InFlight) \in Nat /\ Cardinality(InFlight') \in Nat
      BY <2>6, Flight
    <2>8. Cardinality(InFlight') = Cardinality(InFlight) - 1
      BY <2>6, <2>7, FS_RemoveElement
    <2> DEFINE k == Cardinality(InFlight)
    <2>9. /\ Cardinality(InFlight') * Worst = k * Worst - Worst
          /\ k * Worst \in Int
      <3>1. k \in Int /\ k - 1 \in Int /\ Worst \in Nat
        BY <2>7, BudgetAssumption
      <3> HIDE DEF k
      <3>2. (k - 1) * Worst = k * Worst - Worst /\ k * Worst \in Int
        BY <3>1, Products
      <3> QED
        BY <2>8, <3>2 DEF k
    <2>10. ASSUME ~entry.loose
           PROVE  /\ 0 < row.budget /\ row.budget <= entry.peak
                  /\ row.cost + Cardinality(InFlight') * Worst <= Ceiling(entry.peak)
      <3>1. /\ row.budget \in Nat /\ entry.peak \in Nat /\ log[month].peak \in Nat
        BY <1>a, <2>3, <2>5 DEF Log
      <3>2. /\ Ceiling(log[month].peak) <= Ceiling(entry.peak)
            /\ Ceiling(log[month].peak) \in Int /\ Ceiling(entry.peak) \in Int
        BY <2>5, <3>1, Ceilings
      <3>3. period[month].cost + k * Worst <= Ceiling(log[month].peak)
        BY <2>5, <2>10 DEF OverrunInv, Provided
      <3>4. row.cost = period[month].cost + mem[c].cost
        BY <2>2, <2>5, <2>10
      <3> HIDE DEF k
      <3> QED
        BY <1>a, <2>1, <2>5, <2>9, <2>10, <3>1, <3>2, <3>3, <3>4, BudgetAssumption
    <2> QED
      BY <2>2, <2>4, <2>5, <2>10, RowStep
  <1>7. ASSUME NEW c \in Call, Settle(c) PROVE OverrunInv'
    BY <1>7, AsideStep DEF Settle, Goto, InFlight, TypeOK
  <1>8. ASSUME NEW c \in Call, Stamp(c) PROVE OverrunInv'
    <2>1. /\ InFlight' \subseteq InFlight /\ month' = month /\ log' = log
      BY <1>8 DEF Stamp, Goto, InFlight, TypeOK
    <2>2. \A m \in Month : /\ period'[m].here = period[m].here
                           /\ period'[m].cost = period[m].cost
                           /\ period'[m].budget = period[m].budget
      BY <1>8 DEF Stamp, TypeOK, Row
    <2> QED
      BY <2>1, <2>2, AsideStep
  <1>9. ASSUME NEW c \in Call, Tell(c) PROVE OverrunInv'
    <2>1. /\ InFlight' \subseteq InFlight /\ month' = month /\ period' = period
      BY <1>9 DEF Tell, Goto, InFlight, TypeOK
    <2>2. \A m \in Month : log'[m].peak = log[m].peak /\ log'[m].loose = log[m].loose
      <3>1. ASSUME NEW m \in Month, NEW n \in Notice
            PROVE  /\ [log[m] EXCEPT !.notices[n] = @ + 1].peak = log[m].peak
                   /\ [log[m] EXCEPT !.notices[n] = @ + 1].loose = log[m].loose
                   /\ [log[m] EXCEPT !.disturbed = TRUE].peak = log[m].peak
                   /\ [log[m] EXCEPT !.disturbed = TRUE].loose = log[m].loose
        BY DEF TypeOK, Log
      <3>2. mem[c].at \in Month /\ mem[c].saw \in Notice
        BY DEF TypeOK, Mem
      <3>3. \/ log' = [log EXCEPT ![mem[c].at] =
                          [log[mem[c].at] EXCEPT !.notices[mem[c].saw] = @ + 1]]
            \/ log' = [log EXCEPT ![mem[c].at] = [log[mem[c].at] EXCEPT !.disturbed = TRUE]]
        BY <1>9, <3>2 DEF Tell, TypeOK
      <3> QED
        <4>1. \A m \in Month : m # mem[c].at => log'[m] = log[m]
          BY <3>2, <3>3 DEF TypeOK
        <4>2. \/ log'[mem[c].at] = [log[mem[c].at] EXCEPT !.notices[mem[c].saw] = @ + 1]
              \/ log'[mem[c].at] = [log[mem[c].at] EXCEPT !.disturbed = TRUE]
          BY <3>2, <3>3 DEF TypeOK
        <4>3. log'[mem[c].at].peak = log[mem[c].at].peak
              /\ log'[mem[c].at].loose = log[mem[c].at].loose
          <5>1. CASE log'[mem[c].at] = [log[mem[c].at] EXCEPT !.notices[mem[c].saw] = @ + 1]
            BY <3>1, <3>2, <5>1
          <5>2. CASE log'[mem[c].at] = [log[mem[c].at] EXCEPT !.disturbed = TRUE]
            BY <3>1, <3>2, <5>2
          <5> QED
            BY <4>2, <5>1, <5>2
        <4> QED
          BY <4>1, <4>3
    <2> QED
      BY <2>1, <2>2, AsideStep
  <1>10. ASSUME NEW c \in Call, Crash(c) PROVE OverrunInv'
    <2>1. /\ InFlight' \subseteq InFlight /\ month' = month /\ period' = period
      BY <1>10 DEF Crash, Goto, InFlight, TypeOK
    <2>2. \A m \in Month : log'[m].peak = log[m].peak /\ log'[m].loose = log[m].loose
      BY <1>10 DEF Crash, TypeOK, Log
    <2> QED
      BY <2>1, <2>2, AsideStep
  <1>11. ASSUME NEW a \in Admin, Save(a) PROVE OverrunInv'
    BY <1>11, AsideStep DEF Save, InFlight
  <1>12. ASSUME NEW a \in Admin, Apply(a) PROVE OverrunInv'
    <2> DEFINE row == Recapped(period[month], desk[a].budget)
               entry == Clearing(Capping(log[month], desk[a].budget))
    <2>1. desk[a].budget \in Cap
      BY <1>12 DEF Apply, TypeOK, Errand, Idle
    <2>2. /\ row \in Row /\ row.here
          /\ row.cost = period[month].cost /\ row.budget = desk[a].budget
      BY <1>a, <2>1, Shapes DEF Recapped, Row
    <2>3. /\ entry \in Log
          /\ ~entry.loose => ~log[month].loose /\ desk[a].budget # 0
          /\ log[month].peak <= entry.peak /\ desk[a].budget <= entry.peak
      BY <1>a, <2>1, ClearedLog
    <2>4. /\ month' = month /\ InFlight' \subseteq InFlight
          /\ period' = [period EXCEPT ![month] = row]
          /\ log' = [log EXCEPT ![month] = entry]
      BY <1>12 DEF Apply, InFlight
    <2> HIDE DEF row, entry
    <2> QED
      <3>1. ~entry.loose => /\ ~log[month].loose /\ log[month].peak <= entry.peak
                            /\ 0 < row.budget /\ row.budget <= entry.peak
        BY <1>a, <2>1, <2>2, <2>3
      <3>2. row.cost <= period[month].cost
        BY <1>a, <2>2
      <3> QED
        BY <2>2, <2>3, <2>4, <3>1, <3>2, QuietStep
  <1>13. ASSUME NEW a \in Admin, OpenReset(a) PROVE OverrunInv'
    <2> DEFINE row == Opened(period[month], limits.budget)
               entry == Capping(log[month], row.budget)
    <2>1. /\ row \in Row /\ row.here /\ row.cost = period[month].cost
          /\ row.budget \in Cap \cup {0}
      <3>1. row \in Row /\ row.here /\ row.cost = period[month].cost
        BY <1>a, <1>b, RowForms
      <3> QED
        BY <3>1 DEF Row
    <2>2. /\ month' = month /\ InFlight' \subseteq InFlight
          /\ period' = [period EXCEPT ![month] = row]
          /\ log' = [log EXCEPT ![month] = entry]
      BY <1>13 DEF OpenReset, InFlight, TypeOK
    <2> HIDE DEF row
    <2> QED
      <3>1. /\ entry \in Log
            /\ ~entry.loose => /\ ~log[month].loose /\ log[month].peak <= entry.peak
                               /\ 0 < row.budget /\ row.budget <= entry.peak
        <4>1. row.budget \in Nat
          BY <1>a, <2>1
        <4>2. /\ entry \in Log
              /\ ~entry.loose => ~log[month].loose /\ row.budget # 0
              /\ log[month].peak <= entry.peak /\ row.budget <= entry.peak
          BY <1>a, <2>1, LogForms DEF Log
        <4> QED
          BY <4>1, <4>2
      <3>2. row.cost <= period[month].cost
        BY <1>a, <2>1
      <3> HIDE DEF entry
      <3> QED
        BY <2>1, <2>2, <3>1, <3>2, QuietStep
  <1>14. ASSUME NEW a \in Admin, Reset(a) PROVE OverrunInv'
    <2> DEFINE row == Zeroed(desk[a].budget)
               entry == Clearing(Capping(log[month], desk[a].budget))
    <2>1. desk[a].budget \in Cap
      BY <1>14 DEF Reset, TypeOK, Errand, Idle
    <2>2. /\ row \in Row /\ row.here
          /\ row.cost = 0 /\ row.budget = desk[a].budget
      BY <1>a, <2>1, Shapes DEF Zeroed, NoRow, Row
    <2>3. /\ entry \in Log
          /\ ~entry.loose => ~log[month].loose /\ desk[a].budget # 0
          /\ log[month].peak <= entry.peak /\ desk[a].budget <= entry.peak
      BY <1>a, <2>1, ClearedLog
    <2>4. /\ month' = month /\ InFlight' \subseteq InFlight
          /\ period' = [period EXCEPT ![month] = row]
          /\ log' = [log EXCEPT ![month] = entry]
      BY <1>14 DEF Reset, InFlight
    <2> HIDE DEF row, entry
    <2> QED
      <3>1. ~entry.loose => /\ ~log[month].loose /\ log[month].peak <= entry.peak
                            /\ 0 < row.budget /\ row.budget <= entry.peak
        BY <1>a, <2>1, <2>2, <2>3
      <3>2. row.cost <= period[month].cost
        BY <1>a, <2>2
      <3> QED
        BY <2>2, <2>3, <2>4, <3>1, <3>2, QuietStep
  <1>15. CASE Look
    <2> DEFINE row == Opened(period[month], limits.budget)
               entry == Capping(log[month], limits.budget)
    <2>1. /\ row \in Row /\ row.here /\ row.cost = period[month].cost
          /\ row.budget = limits.budget
      BY <1>15, <1>a, <1>b, RowForms DEF Look
    <2>2. /\ month' = month /\ InFlight' \subseteq InFlight
          /\ period' = [period EXCEPT ![month] = row]
          /\ log' = [log EXCEPT ![month] = entry]
      BY <1>15 DEF Look, InFlight
    <2> HIDE DEF row
    <2> QED
      <3>1. /\ entry \in Log
            /\ ~entry.loose => /\ ~log[month].loose /\ log[month].peak <= entry.peak
                               /\ 0 < row.budget /\ row.budget <= entry.peak
        <4>1. row.budget \in Nat
          BY <1>a, <2>1
        <4>2. /\ entry \in Log
              /\ ~entry.loose => ~log[month].loose /\ row.budget # 0
              /\ log[month].peak <= entry.peak /\ row.budget <= entry.peak
          BY <1>a, <2>1, LogForms DEF Log
        <4> QED
          BY <4>1, <4>2
      <3>2. row.cost <= period[month].cost
        BY <1>a, <2>1
      <3> HIDE DEF entry
      <3> QED
        BY <2>1, <2>2, <3>1, <3>2, QuietStep
  <1>16. CASE NextMonth
    <2>1. /\ month + 1 \in Month /\ month' = month + 1
          /\ period' = period /\ log' = log /\ InFlight' = InFlight
      BY <1>16 DEF NextMonth, InFlight, TypeOK, Month
    <2>2. period[month + 1].cost = 0
      BY <2>1, <1>a DEF OverrunInv, Unopened, Future, Month
    <2>3. Cardinality(InFlight) * Worst <= Cardinality(Call) * Worst
          /\ Cardinality(InFlight) * Worst \in Int /\ Cardinality(Call) * Worst \in Int
      BY Flight DEF InFlight
    <2>4. log[month + 1].peak \in Nat
      BY <2>1 DEF TypeOK, Log
    <2>5. /\ Cardinality(Call) * Worst <= Ceiling(log[month + 1].peak)
          /\ Ceiling(log[month + 1].peak) \in Int
      BY <2>4, Ceilings
    <2>6. 0 + Cardinality(InFlight) * Worst <= Ceiling(log[month + 1].peak)
      BY <2>3, <2>5
    <2>7. Provided'
      BY <2>1, <2>2, <2>6 DEF Provided
    <2>8. ~log[month].loose => period[month].cost <= Ceiling(log[month].peak)
      <3>1. log[month].peak \in Nat /\ Ceiling(log[month].peak) \in Int
        BY <1>a, Ceilings DEF Log
      <3>2. 0 <= Cardinality(InFlight) * Worst /\ Cardinality(InFlight) * Worst \in Int
        <4>1. {} \in SUBSET InFlight /\ InFlight \in SUBSET Call
          BY DEF InFlight
        <4>2. Cardinality({}) * Worst <= Cardinality(InFlight) * Worst
              /\ Cardinality(InFlight) * Worst \in Int
          BY <4>1, Flight
        <4>3. Cardinality({}) * Worst = 0
          BY FS_EmptySet, BudgetAssumption
        <4> QED
          BY <4>2, <4>3
      <3> QED
        BY <1>a, <3>1, <3>2 DEF OverrunInv, Provided
    <2>9. Closed'
      BY <1>a, <2>1, <2>8 DEF OverrunInv, Closed, Month
    <2>10. Unopened' /\ Future' /\ Capped'
      BY <1>a, <2>1 DEF OverrunInv, Unopened, Future, Capped, Month
    <2> QED
      BY <2>7, <2>9, <2>10 DEF OverrunInv
  <1>17. CASE UNCHANGED vars
    BY <1>17, AsideStep DEF vars, InFlight
  <1> QED
    BY <1>1, <1>2, <1>3, <1>4, <1>5, <1>6, <1>7, <1>8, <1>9, <1>10, <1>11, <1>12,
       <1>13, <1>14, <1>15, <1>16, <1>17 DEF Next, CallStep

LEMMA OverrunGoal == TypeOK /\ OverrunInv => OverrunBounded
  <1> SUFFICES ASSUME TypeOK, OverrunInv, NEW m \in Month, ~log[m].loose
               PROVE  period[m].cost <= Bound(m)
    BY DEF OverrunBounded
  <1>1. /\ month \in Month /\ period[m].cost \in Nat /\ log[m].peak \in Nat
    BY DEF TypeOK, Row, Log
  <1>2. /\ Bound(m) = Ceiling(log[m].peak)
        /\ Ceiling(log[m].peak) \in Int /\ 0 <= Ceiling(log[m].peak)
    BY <1>1, Ceilings DEF Bound, Ceiling
  <1>3. CASE m < month
    BY <1>2, <1>3 DEF OverrunInv, Closed
  <1>4. CASE m = month
    <2>1. {} \in SUBSET InFlight /\ InFlight \in SUBSET Call
      BY DEF InFlight
    <2>2. /\ Cardinality({}) * Worst <= Cardinality(InFlight) * Worst
          /\ Cardinality(InFlight) * Worst \in Int
      BY <2>1, Flight
    <2>3. Cardinality({}) * Worst = 0
      BY FS_EmptySet, BudgetAssumption
    <2> QED
      BY <1>1, <1>2, <1>4, <2>2, <2>3 DEF OverrunInv, Provided
  <1>5. CASE m > month
    BY <1>2, <1>5 DEF OverrunInv, Unopened, Future
  <1> QED
    BY <1>1, <1>3, <1>4, <1>5 DEF Month

\* Calls that check the same remainder at once overrun a month's cap by no more than the
\* other calls in flight can cost, however many months, saves and crashes there are.
THEOREM Overruns == Spec => []OverrunBounded
  <1>1. Init => OverrunInv
    BY OverrunInit
  <1>2. TypeOK /\ TypeOK' /\ OverrunInv /\ [Next]_vars => OverrunInv'
    BY OverrunStep
  <1>3. TypeOK /\ OverrunInv => OverrunBounded
    BY OverrunGoal
  <1> QED
    BY <1>1, <1>2, <1>3, Typing, PTL DEF Spec

-----------------------------------------------------------------------------
(***************************************************************************)
(* The notices.  A call that owes one has stamped its flag, and only a     *)
(* cleared flag can be stamped again.                                      *)
(***************************************************************************)
Telling(m, n) == {c \in Call : pc[c] = "tell" /\ mem[c].at = m /\ mem[c].saw = n}

Stamped(m, n) == IF period[m].told[n] THEN 1 ELSE 0

Unstamped == \A m \in Month : ~period[m].here => period[m].budget = 0 /\ period[m].told = Untold
Claimable == \A c \in Call : pc[c] = "stamp" => period[mem[c].at].here
Counted ==
    \A m \in Month, n \in Notice :
        log[m].notices[n] + Cardinality(Telling(m, n)) <= log[m].clears + Stamped(m, n)

NoticeInv == Unstamped /\ Claimable /\ Counted

LEMMA NoticeInit == Init => NoticeInv
  <1> SUFFICES ASSUME Init PROVE NoticeInv
    OBVIOUS
  <1>1. \A m \in Month, n \in Notice : Telling(m, n) = {}
    BY DEF Init, Telling
  <1>2. \A m \in Month, n \in Notice : Cardinality(Telling(m, n)) = 0
    BY <1>1, FS_EmptySet
  <1>3. \A m \in Month, n \in Notice : /\ log[m].notices[n] = 0 /\ log[m].clears = 0
                                       /\ Stamped(m, n) = 0
    BY DEF Init, NoLog, NoRow, Untold, Stamped
  <1>4. Counted
    BY <1>2, <1>3 DEF Counted
  <1> QED
    BY <1>4 DEF Init, NoticeInv, Unstamped, Claimable, NoRow

LEMMA TellingFinite ==
    ASSUME NEW m, NEW n
    PROVE  /\ IsFiniteSet(Telling(m, n)) /\ Cardinality(Telling(m, n)) \in Nat
           /\ \A T \in SUBSET Telling(m, n) : /\ Cardinality(T) \in Nat
                                              /\ Cardinality(T) <= Cardinality(Telling(m, n))
  <1>1. Telling(m, n) \subseteq Call
    BY DEF Telling
  <1>2. IsFiniteSet(Telling(m, n))
    BY <1>1, BudgetAssumption, FS_Subset
  <1>3. \A T \in SUBSET Telling(m, n) : IsFiniteSet(T) /\ Cardinality(T) <= Cardinality(Telling(m, n))
    BY <1>2, FS_Subset
  <1> QED
    BY <1>2, <1>3, FS_CardinalityType

\* A step that owes no new notice and leaves each row's flags, or clears them and says so.
LEMMA UntellingStep ==
    ASSUME TypeOK, TypeOK', NoticeInv,
           \A m \in Month :
              /\ period[m].here => period'[m].here
              /\ ~period'[m].here => ~period[m].here /\ period'[m] = period[m]
              /\ log'[m].notices = log[m].notices
              /\ \/ log'[m].clears = log[m].clears /\ period'[m].told = period[m].told
                 \/ log'[m].clears = log[m].clears + 1 /\ period'[m].told = Untold,
           \A c \in Call : \/ pc'[c] = pc[c] /\ mem'[c] = mem[c]
                           \/ pc'[c] \notin {"stamp", "tell"}
                           \/ pc'[c] = "stamp" /\ period[mem'[c].at].here
    PROVE  NoticeInv'
  <1>1. Unstamped'
    BY DEF NoticeInv, Unstamped
  <1>2. Claimable'
    BY DEF NoticeInv, Claimable, TypeOK, Mem
  <1>3. Counted'
    <2> SUFFICES ASSUME NEW m \in Month, NEW n \in Notice
                 PROVE  log'[m].notices[n] + Cardinality(Telling(m, n)')
                           <= log'[m].clears + Stamped(m, n)'
      BY DEF Counted
    <2>1. Telling(m, n)' \in SUBSET Telling(m, n)
      BY DEF Telling, TypeOK
    <2>2. /\ Cardinality(Telling(m, n)) \in Nat /\ Cardinality(Telling(m, n)') \in Nat
          /\ Cardinality(Telling(m, n)') <= Cardinality(Telling(m, n))
      BY <2>1, TellingFinite
    <2>3. log[m].notices[n] + Cardinality(Telling(m, n)) <= log[m].clears + Stamped(m, n)
      BY DEF NoticeInv, Counted
    <2>4. /\ log[m].notices[n] \in Nat /\ log[m].clears \in Nat
          /\ log'[m].notices[n] = log[m].notices[n]
      BY DEF TypeOK, Log
    <2>5. log[m].clears + Stamped(m, n) <= log'[m].clears + Stamped(m, n)'
      BY <2>4 DEF Stamped, Untold
    <2>6. Stamped(m, n) \in Nat /\ Stamped(m, n)' \in Nat /\ log'[m].clears \in Nat
      BY DEF Stamped, TypeOK, Log
    <2> QED
      BY <2>2, <2>3, <2>4, <2>5, <2>6
  <1> QED
    BY <1>1, <1>2, <1>3 DEF NoticeInv

\* ... when all that it writes is the current month's row and log.
LEMMA UntellingRow ==
    ASSUME TypeOK, TypeOK', NoticeInv, NEW r \in Row, NEW e \in Log,
           period' = [period EXCEPT ![month] = r],
           log' = [log EXCEPT ![month] = e],
           r.here,
           e.notices = log[month].notices,
           \/ e.clears = log[month].clears /\ r.told = period[month].told
           \/ e.clears = log[month].clears + 1 /\ r.told = Untold,
           \A c \in Call : \/ pc'[c] = pc[c] /\ mem'[c] = mem[c]
                           \/ pc'[c] \notin {"stamp", "tell"}
    PROVE  NoticeInv'
  <1>1. /\ month \in Month
        /\ period'[month] = r /\ log'[month] = e
        /\ \A m \in Month : m # month => period'[m] = period[m] /\ log'[m] = log[m]
    BY DEF TypeOK
  <1> QED
    BY <1>1, UntellingStep

LEMMA NoticeStep == TypeOK /\ TypeOK' /\ NoticeInv /\ [Next]_vars => NoticeInv'
  <1> SUFFICES ASSUME TypeOK, TypeOK', NoticeInv, [Next]_vars PROVE NoticeInv'
    OBVIOUS
  <1> USE DEF callVars, boundVars
  <1>a. /\ month \in Month
        /\ period[month] \in Row /\ log[month] \in Log
        /\ limits.budget \in Cap \cup {0} /\ 0 \in Cap \cup {0} /\ 0 \in Nat
    BY DEF TypeOK, Limits
  <1>b. ~period[month].here => period[month].told = Untold
    BY <1>a DEF NoticeInv, Unstamped
  <1>c. ASSUME NEW b \in Cap \cup {0}, NEW x \in Nat
        PROVE  /\ Opened(period[month], b) \in Row /\ Opened(period[month], b).here
               /\ Opened(period[month], b).told = period[month].told
               /\ Opened(period[month], b).budget \in Cap \cup {0}
               /\ Metered(period[month], x) \in Row /\ Metered(period[month], x).here
               /\ Metered(period[month], x).told = period[month].told
               /\ Metered(period[month], x).budget \in Cap \cup {0}
    <2>1. /\ Opened(period[month], b) \in Row /\ Opened(period[month], b).here
          /\ period[month].here => Opened(period[month], b) = period[month]
          /\ ~period[month].here => Opened(period[month], b).told = Untold
          /\ Metered(period[month], x) \in Row /\ Metered(period[month], x).here
          /\ period[month].here => Metered(period[month], x).told = period[month].told
          /\ ~period[month].here => Metered(period[month], x).told = Untold
      BY <1>a, RowForms
    <2>2. \A r \in Row : r.budget \in Cap \cup {0}
      BY DEF Row
    <2> QED
      BY <1>b, <2>1, <2>2
  <1>d. ASSUME NEW b \in Cap \cup {0}
        PROVE  /\ Capping(log[month], b) \in Log
               /\ Capping(log[month], b).notices = log[month].notices
               /\ Capping(log[month], b).clears = log[month].clears
    BY <1>a, LogForms
  <1>1. ASSUME NEW c \in Call, Start(c) PROVE NoticeInv'
    BY <1>1, UntellingStep DEF Start, Goto, TypeOK
  <1>2. ASSUME NEW c \in Call, RefuseEarly(c) PROVE NoticeInv'
    BY <1>2, UntellingStep DEF RefuseEarly, Goto, TypeOK
  <1>3. ASSUME NEW c \in Call, CheckBudget(c) PROVE NoticeInv'
    <2> DEFINE row == Opened(period[month], mem[c].budget)
               entry == Capping(log[month], row.budget)
               let == Admitted(c, row) /\ ~mem[c].hard
               noted == [entry EXCEPT !.loose = IF let THEN TRUE ELSE @]
    <2>1. mem[c].budget \in Cap \cup {0}
      BY DEF TypeOK, Mem
    <2>2. row \in Row /\ row.here /\ row.told = period[month].told /\ row.budget \in Cap \cup {0}
      BY <1>a, <1>c, <2>1
    <2>3. /\ period' = [period EXCEPT ![month] = row]
          /\ log' = [log EXCEPT ![month] = noted]
      BY <1>3 DEF CheckBudget
    <2>4. \A d \in Call : \/ pc'[d] = pc[d] /\ mem'[d] = mem[d]
                          \/ pc'[d] \notin {"stamp", "tell"}
      BY <1>3 DEF CheckBudget, Goto, TypeOK
    <2> HIDE DEF row
    <2>5. /\ entry \in Log /\ entry.notices = log[month].notices
          /\ entry.clears = log[month].clears
      BY <1>d, <2>2
    <2> HIDE DEF entry
    <2>6. noted \in Log /\ noted.notices = entry.notices /\ noted.clears = entry.clears
      BY <2>5 DEF Log
    <2> HIDE DEF noted
    <2> QED
      BY <2>2, <2>3, <2>4, <2>5, <2>6, UntellingRow
  <1>4. ASSUME NEW c \in Call, Answer(c) PROVE NoticeInv'
    BY <1>4, UntellingStep DEF Answer, Goto, TypeOK
  <1>5. ASSUME NEW c \in Call, Refuse(c) PROVE NoticeInv'
    <2> DEFINE row == Metered(period[month], 0)
               entry == Capping(log[month], row.budget)
    <2>1. row \in Row /\ row.here /\ row.told = period[month].told /\ row.budget \in Cap \cup {0}
      BY <1>a, <1>c
    <2>2. /\ period' = [period EXCEPT ![month] = row]
          /\ log' = [log EXCEPT ![month] = entry]
      BY <1>5 DEF Refuse, TypeOK
    <2>3. \A d \in Call : \/ pc'[d] = pc[d] /\ mem'[d] = mem[d]
                          \/ pc'[d] \notin {"stamp", "tell"}
      BY <1>5 DEF Refuse, Goto, TypeOK
    <2> HIDE DEF row
    <2> QED
      BY <1>d, <2>1, <2>2, <2>3, UntellingRow
  <1>6. ASSUME NEW c \in Call, Meter(c) PROVE NoticeInv'
    <2> DEFINE row == Metered(period[month], mem[c].cost)
               entry == Capping(log[month], row.budget)
    <2>1. mem[c].cost \in Nat
      BY BudgetAssumption DEF TypeOK, Mem
    <2>2. row \in Row /\ row.here /\ row.told = period[month].told /\ row.budget \in Cap \cup {0}
      BY <1>a, <1>c, <2>1
    <2>3. /\ period' = [period EXCEPT ![month] = row]
          /\ log' = [log EXCEPT ![month] = entry]
      BY <1>6 DEF Meter, TypeOK
    <2>4. \A d \in Call : \/ pc'[d] = pc[d] /\ mem'[d] = mem[d]
                          \/ pc'[d] \notin {"stamp", "tell"}
      BY <1>6 DEF Meter, Goto, TypeOK
    <2> HIDE DEF row
    <2> QED
      BY <1>d, <2>2, <2>3, <2>4, UntellingRow
  <1>7. ASSUME NEW c \in Call, Settle(c) PROVE NoticeInv'
    <2>1. IsCapped(period[month]) \/ IsWarning(period[month]) => period[month].here
      BY <1>a DEF NoticeInv, Unstamped, IsCapped, IsWarning
    <2>2. period' = period /\ log' = log
      BY <1>7 DEF Settle
    <2>3. \A d \in Call : \/ pc'[d] = pc[d] /\ mem'[d] = mem[d]
                          \/ pc'[d] \notin {"stamp", "tell"}
                          \/ pc'[d] = "stamp" /\ period[mem'[d].at].here
      BY <1>7, <2>1 DEF Settle, Goto, TypeOK, Mem
    <2> QED
      BY <2>2, <2>3, UntellingStep
  <1>8. ASSUME NEW c \in Call, Stamp(c) PROVE NoticeInv'
    <2> DEFINE at == mem[c].at
               saw == mem[c].saw
    <2>1. /\ at \in Month /\ saw \in Notice /\ pc[c] = "stamp"
          /\ period[at].here /\ log' = log /\ month' = month
      BY <1>8 DEF Stamp, TypeOK, Mem, NoticeInv, Claimable
    <2>2. /\ \A m \in Month : period'[m].here = period[m].here
          /\ \A m \in Month : m # at => period'[m] = period[m]
          /\ \A n \in Notice : n # saw => period'[at].told[n] = period[at].told[n]
          /\ period'[at].told[saw]
      BY <1>8, <2>1 DEF Stamp, TypeOK, Row
    <2>3. \A d \in Call : d # c => pc'[d] = pc[d] /\ mem'[d] = mem[d]
      BY <1>8 DEF Stamp, Goto, TypeOK
    <2>4. /\ period[at].told[saw] => pc'[c] = "idle"
          /\ ~period[at].told[saw] => pc'[c] = "tell" /\ mem'[c] = mem[c]
      BY <1>8 DEF Stamp, Goto, TypeOK
    <2>5. Unstamped' /\ Claimable'
      <3>1. Unstamped'
        BY <2>1, <2>2 DEF NoticeInv, Unstamped
      <3>2. Claimable'
        BY <2>2, <2>3, <2>4 DEF NoticeInv, Claimable, TypeOK, Mem
      <3> QED
        BY <3>1, <3>2
    <2>6. Counted'
      <3> SUFFICES ASSUME NEW m \in Month, NEW n \in Notice
                   PROVE  log'[m].notices[n] + Cardinality(Telling(m, n)')
                             <= log'[m].clears + Stamped(m, n)'
        BY DEF Counted
      <3>1. log[m].notices[n] + Cardinality(Telling(m, n)) <= log[m].clears + Stamped(m, n)
        BY DEF NoticeInv, Counted
      <3>2. /\ log[m].notices[n] \in Nat /\ log[m].clears \in Nat
            /\ log' = log
        BY <2>1 DEF TypeOK, Log
      <3>3. IsFiniteSet(Telling(m, n)) /\ Cardinality(Telling(m, n)) \in Nat
        BY TellingFinite
      <3>4. CASE m = at /\ n = saw /\ ~period[at].told[saw]
        <4>1. Telling(m, n)' = Telling(m, n) \cup {c} /\ c \notin Telling(m, n)
          BY <2>1, <2>3, <2>4, <3>4 DEF Telling
        <4>2. Cardinality(Telling(m, n)') = Cardinality(Telling(m, n)) + 1
          BY <3>3, <4>1, FS_AddElement
        <4>3. Stamped(m, n) = 0 /\ Stamped(m, n)' = 1
          BY <2>2, <3>4 DEF Stamped
        <4> QED
          BY <3>1, <3>2, <3>3, <4>2, <4>3
      <3>5. CASE ~(m = at /\ n = saw /\ ~period[at].told[saw])
        <4>1. Telling(m, n)' = Telling(m, n)
          BY <2>1, <2>3, <2>4, <3>5 DEF Telling
        <4>2. Stamped(m, n)' = Stamped(m, n)
          BY <2>1, <2>2, <3>5 DEF Stamped
        <4> QED
          BY <3>1, <3>2, <4>1, <4>2
      <3> QED
        BY <3>4, <3>5
    <2> QED
      BY <2>5, <2>6 DEF NoticeInv
  <1>9. ASSUME NEW c \in Call, Tell(c) PROVE NoticeInv'
    <2> DEFINE at == mem[c].at
               saw == mem[c].saw
    <2>1. /\ at \in Month /\ saw \in Notice /\ pc[c] = "tell" /\ period' = period
          /\ pc'[c] = "idle"
      BY <1>9 DEF Tell, Goto, TypeOK, Mem
    <2>2. \A d \in Call : d # c => pc'[d] = pc[d] /\ mem'[d] = mem[d]
      BY <1>9 DEF Tell, Goto, TypeOK
    <2>3. /\ \A m \in Month : m # at => log'[m] = log[m]
          /\ \/ log'[at] = [log[at] EXCEPT !.notices[saw] = @ + 1]
             \/ log'[at] = [log[at] EXCEPT !.disturbed = TRUE]
      <3>1. \/ log' = [log EXCEPT ![at] = [log[at] EXCEPT !.notices[saw] = @ + 1]]
            \/ log' = [log EXCEPT ![at] = [log[at] EXCEPT !.disturbed = TRUE]]
        BY <1>9, <2>1 DEF Tell, TypeOK
      <3> QED
        BY <2>1, <3>1 DEF TypeOK
    <2>4. /\ log'[at].clears = log[at].clears
          /\ \A n \in Notice : n # saw => log'[at].notices[n] = log[at].notices[n]
          /\ \/ log'[at].notices[saw] = log[at].notices[saw] + 1
             \/ log'[at].notices[saw] = log[at].notices[saw]
      <3>1. log[at] \in Log /\ log[at].notices \in [Notice -> Nat]
        BY <2>1 DEF TypeOK, Log
      <3> HIDE DEF at, saw
      <3>2. CASE log'[at] = [log[at] EXCEPT !.notices[saw] = @ + 1]
        BY <2>1, <3>1, <3>2 DEF Log
      <3>3. CASE log'[at] = [log[at] EXCEPT !.disturbed = TRUE]
        BY <2>1, <3>1, <3>3 DEF Log
      <3> QED
        BY <2>3, <3>2, <3>3
    <2>5. Unstamped' /\ Claimable'
      BY <2>1, <2>2 DEF NoticeInv, Unstamped, Claimable
    <2>6. Counted'
      <3> SUFFICES ASSUME NEW m \in Month, NEW n \in Notice
                   PROVE  log'[m].notices[n] + Cardinality(Telling(m, n)')
                             <= log'[m].clears + Stamped(m, n)'
        BY DEF Counted
      <3>1. log[m].notices[n] + Cardinality(Telling(m, n)) <= log[m].clears + Stamped(m, n)
        BY DEF NoticeInv, Counted
      <3>2. /\ log[m].notices[n] \in Nat /\ log[m].clears \in Nat
            /\ Stamped(m, n)' = Stamped(m, n) /\ Stamped(m, n) \in Nat
        BY <2>1 DEF TypeOK, Log, Stamped
      <3>3. IsFiniteSet(Telling(m, n)) /\ Cardinality(Telling(m, n)) \in Nat
        BY TellingFinite
      <3>4. CASE m = at /\ n = saw
        <4>1. Telling(m, n)' = Telling(m, n) \ {c} /\ c \in Telling(m, n)
          BY <2>1, <2>2, <3>4 DEF Telling
        <4>2. Cardinality(Telling(m, n)') = Cardinality(Telling(m, n)) - 1
          BY <3>3, <4>1, FS_RemoveElement
        <4>3. log'[m].clears = log[m].clears /\ log'[m].notices[n] <= log[m].notices[n] + 1
              /\ log'[m].notices[n] \in Nat
          BY <2>4, <3>2, <3>4
        <4> QED
          BY <3>1, <3>2, <3>3, <4>2, <4>3
      <3>5. CASE ~(m = at /\ n = saw)
        <4>1. Telling(m, n)' = Telling(m, n)
          BY <2>1, <2>2, <3>5 DEF Telling
        <4>2. log'[m].clears = log[m].clears /\ log'[m].notices[n] = log[m].notices[n]
          BY <2>3, <2>4, <3>5
        <4> QED
          BY <3>1, <3>2, <4>1, <4>2
      <3> QED
        BY <3>4, <3>5
    <2> QED
      BY <2>5, <2>6 DEF NoticeInv
  <1>10. ASSUME NEW c \in Call, Crash(c) PROVE NoticeInv'
    <2>1. \A m \in Month : log'[m].notices = log[m].notices /\ log'[m].clears = log[m].clears
      BY <1>10 DEF Crash, TypeOK, Log
    <2>2. period' = period
      BY <1>10 DEF Crash
    <2>3. \A d \in Call : \/ pc'[d] = pc[d] /\ mem'[d] = mem[d]
                          \/ pc'[d] \notin {"stamp", "tell"}
      BY <1>10 DEF Crash, Goto, TypeOK
    <2> QED
      BY <2>1, <2>2, <2>3, UntellingStep
  <1>11. ASSUME NEW a \in Admin, Save(a) PROVE NoticeInv'
    BY <1>11, UntellingStep DEF Save
  <1>12. ASSUME NEW a \in Admin, Apply(a) PROVE NoticeInv'
    <2> DEFINE row == Recapped(period[month], desk[a].budget)
               entry == Clearing(Capping(log[month], desk[a].budget))
    <2>1. desk[a].budget \in Cap
      BY <1>12 DEF Apply, TypeOK, Errand, Idle
    <2>2. row \in Row /\ row.here /\ row.told = Untold
      BY <1>a, <2>1, Shapes DEF Recapped, Row
    <2>3. /\ entry \in Log /\ entry.notices = log[month].notices
          /\ entry.clears = log[month].clears + 1
      BY <1>a, <2>1, ClearedLog
    <2>4. /\ period' = [period EXCEPT ![month] = row]
          /\ log' = [log EXCEPT ![month] = entry]
          /\ pc' = pc /\ mem' = mem
      BY <1>12 DEF Apply
    <2> HIDE DEF row, entry
    <2> QED
      BY <2>2, <2>3, <2>4, UntellingRow
  <1>13. ASSUME NEW a \in Admin, OpenReset(a) PROVE NoticeInv'
    <2> DEFINE row == Opened(period[month], limits.budget)
               entry == Capping(log[month], row.budget)
    <2>1. row \in Row /\ row.here /\ row.told = period[month].told /\ row.budget \in Cap \cup {0}
      BY <1>a, <1>c
    <2>2. /\ period' = [period EXCEPT ![month] = row]
          /\ log' = [log EXCEPT ![month] = entry]
          /\ pc' = pc /\ mem' = mem
      BY <1>13 DEF OpenReset, TypeOK
    <2> HIDE DEF row
    <2> QED
      BY <1>d, <2>1, <2>2, UntellingRow
  <1>14. ASSUME NEW a \in Admin, Reset(a) PROVE NoticeInv'
    <2> DEFINE row == Zeroed(desk[a].budget)
               entry == Clearing(Capping(log[month], desk[a].budget))
    <2>1. desk[a].budget \in Cap
      BY <1>14 DEF Reset, TypeOK, Errand, Idle
    <2>2. row \in Row /\ row.here /\ row.told = Untold
      BY <1>a, <2>1, Shapes DEF Zeroed, NoRow, Row
    <2>3. /\ entry \in Log /\ entry.notices = log[month].notices
          /\ entry.clears = log[month].clears + 1
      BY <1>a, <2>1, ClearedLog
    <2>4. /\ period' = [period EXCEPT ![month] = row]
          /\ log' = [log EXCEPT ![month] = entry]
          /\ pc' = pc /\ mem' = mem
      BY <1>14 DEF Reset
    <2> HIDE DEF row, entry
    <2> QED
      BY <2>2, <2>3, <2>4, UntellingRow
  <1>15. CASE Look
    <2> DEFINE row == Opened(period[month], limits.budget)
    <2>1. row \in Row /\ row.here /\ row.told = period[month].told
      BY <1>a, <1>c
    <2>2. /\ period' = [period EXCEPT ![month] = row]
          /\ log' = [log EXCEPT ![month] = Capping(log[month], limits.budget)]
          /\ pc' = pc /\ mem' = mem
      BY <1>15 DEF Look
    <2> HIDE DEF row
    <2> QED
      BY <1>a, <1>d, <2>1, <2>2, UntellingRow
  <1>16. CASE NextMonth
    BY <1>16, UntellingStep DEF NextMonth
  <1>17. CASE UNCHANGED vars
    BY <1>17, UntellingStep DEF vars
  <1> QED
    BY <1>1, <1>2, <1>3, <1>4, <1>5, <1>6, <1>7, <1>8, <1>9, <1>10, <1>11, <1>12,
       <1>13, <1>14, <1>15, <1>16, <1>17 DEF Next, CallStep

LEMMA NoticeGoal == TypeOK /\ NoticeInv => NoticeOnce
  <1> SUFFICES ASSUME TypeOK, NoticeInv, NEW m \in Month, NEW n \in Notice
               PROVE  log[m].notices[n] <= 1 + log[m].clears
    BY DEF NoticeOnce
  <1>1. log[m].notices[n] \in Nat /\ log[m].clears \in Nat
    BY DEF TypeOK, Log
  <1>2. Cardinality(Telling(m, n)) \in Nat
    BY TellingFinite
  <1>3. log[m].notices[n] + Cardinality(Telling(m, n)) <= log[m].clears + Stamped(m, n)
    BY DEF NoticeInv, Counted
  <1> QED
    BY <1>1, <1>2, <1>3 DEF Stamped

\* However many calls cross a threshold at once, the admins hear of it once, and once more
\* for each time its flags are cleared.
THEOREM Notices == Spec => []NoticeOnce
  <1>1. Init => NoticeInv
    BY NoticeInit
  <1>2. TypeOK /\ TypeOK' /\ NoticeInv /\ [Next]_vars => NoticeInv'
    BY NoticeStep
  <1>3. TypeOK /\ NoticeInv => NoticeOnce
    BY NoticeGoal
  <1> QED
    BY <1>1, <1>2, <1>3, Typing, PTL DEF Spec
=============================================================================
