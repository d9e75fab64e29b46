------------------------------ MODULE AiBudget ------------------------------
(***************************************************************************)
(* The monthly cap on what the AI features may cost (packages/ai/src/      *)
(* run.ts, budget.ts, usage.ts) and the screen that sets it (packages/     *)
(* core/src/ai-admin.ts).                                                  *)
(*                                                                         *)
(* A call checks the month's row, then asks the provider, then meters what *)
(* came of it, then claims the notice of a threshold it finds crossed:     *)
(* four transactions with nothing held between them.  The month is the one *)
(* of the moment each of them runs.  A row's budget of 0 means unlimited.  *)
(*                                                                         *)
(* Money is counted in units of which the dearest call costs Worst.        *)
(***************************************************************************)
EXTENDS Integers, FiniteSets

CONSTANTS
    Call,         \* slots for concurrent calls
    Admin,        \* slots for concurrent saves and resets of the limits
    Cap,          \* values the budget field may be given
    Worst,        \* the pre-flight worst case of a call
    WarnPercent,  \* ai.budgetWarnPercent
    MaxMonth,     \* bound on the months
    MaxCalls,     \* bound on the calls
    Events,       \* what an instance lets happen, see EventKind
    MaxUpsets     \* bound on disturbances

\* crash: a call's process dies.  refuse: another reason refuses it (a feature that
\* is off, the hourly limit, no provider).  handlerless: the alt-text caller, which
\* passes no onBudgetEvent.  save, reset: the two buttons.  off: the save may switch
\* AI off.  notifyOnly: it may choose that behaviour.  look: a screen reads the budget.
EventKind == {"crash", "refuse", "handlerless", "save", "reset", "off", "notifyOnly", "look"}

ASSUME BudgetAssumption ==
    /\ IsFiniteSet(Call)
    /\ Cap \subseteq Nat
    /\ Worst \in Nat \ {0}
    /\ WarnPercent \in 1..100
    /\ MaxMonth \in Nat \ {0}
    /\ MaxCalls \in Nat
    /\ Events \subseteq EventKind
    /\ MaxUpsets \in Nat

VARIABLES
    month,    \* the current UTC month
    limits,   \* the settings of the limits screen
    period,   \* period[m]: the AiBudgetPeriod row
    pc,       \* pc[c]: where the call is
    mem,      \* mem[c]: its local variables
    desk,     \* desk[a]: what a save or a reset has still to do
    log,      \* log[m]: what has happened to the row (auxiliary)
    left,     \* calls still allowed (auxiliary)
    upsets    \* disturbances still allowed (auxiliary)

callVars == <<pc, mem>>
boundVars == <<left, upsets>>
vars == <<month, limits, period, callVars, desk, log, boundVars>>

-----------------------------------------------------------------------------
Month == 1..MaxMonth
Notice == {"warning", "capped"}
Limits == [on : BOOLEAN, budget : Cap, hard : BOOLEAN]    \* hard: capBehavior DISABLE

\* told[n]: warnedAt, and notifiedAt (which capReachedAt goes with).
Row == [here : BOOLEAN, cost : Nat, budget : Cap \cup {0}, told : [Notice -> BOOLEAN]]

Untold == [n \in Notice |-> FALSE]
NoRow == [here |-> FALSE, cost |-> 0, budget |-> 0, told |-> Untold]

Phase == {"idle", "check", "refuse", "ask", "meter", "settle", "stamp", "tell"}

\* hard, budget: limits, as loaded.  cost: what is to be metered.  at: the month of
\* the row that settleBudget read.  saw: the status it found.
Mem == [hard : BOOLEAN, budget : Cap \cup {0}, cost : 0..Worst, at : Month, saw : Notice]
Blank == [hard |-> TRUE, budget |-> 0, cost |-> 0, at |-> 1, saw |-> "capped"]

\* What a save or a reset of the limits has still to do.
Idle == [do |-> "none", budget |-> 0]
Errand == [do : {"apply", "reset"}, budget : Cap] \cup {Idle}

\* peak: the highest budget the row has had.  loose: it was ever unlimited, or a call
\* was let through by NOTIFY_ONLY.  clears: how often its flags were cleared.
\* notices[n]: the notices sent for it.  disturbed: a crash, an admin, or a call
\* without a handler had a part in it.
Log == [peak : Nat, loose : BOOLEAN, clears : Nat, notices : [Notice -> Nat],
        disturbed : BOOLEAN]
NoLog == [peak |-> 0, loose |-> FALSE, clears |-> 0, notices |-> [n \in Notice |-> 0],
          disturbed |-> FALSE]

\* The type invariant of the budget: the row, the settings, the calls, the desk.
TypeOK ==
    /\ month \in Month
    /\ limits \in Limits
    /\ period \in [Month -> Row]
    /\ pc \in [Call -> Phase]
    /\ mem \in [Call -> Mem]
    /\ desk \in [Admin -> Errand]
    /\ log \in [Month -> Log]
    /\ left \in 0..MaxCalls
    /\ upsets \in 0..MaxUpsets

Init ==
    /\ month = 1
    /\ limits \in {l \in Limits : l.on /\ l.hard}
    /\ period = [m \in Month |-> NoRow]
    /\ pc = [c \in Call |-> "idle"]
    /\ mem = [c \in Call |-> Blank]
    /\ desk = [a \in Admin |-> Idle]
    /\ log = [m \in Month |-> NoLog]
    /\ left = MaxCalls
    /\ upsets = MaxUpsets

Upset == upsets > 0 /\ upsets' = upsets - 1
Goto(c, phase) == pc' = [pc EXCEPT ![c] = phase]

-----------------------------------------------------------------------------
(***************************************************************************)
(* The month's row.                                                        *)
(***************************************************************************)
Larger(i, j) == IF i > j THEN i ELSE j

\* getBudgetState's upsert: a row that is there keeps the cap it started with.
Opened(row, budget) ==
    IF row.here THEN row ELSE [NoRow EXCEPT !.here = TRUE, !.budget = budget]

\* The log of a row whose budget is now b.
Capping(entry, b) ==
    [entry EXCEPT !.peak = Larger(@, b), !.loose = IF b = 0 THEN TRUE ELSE @]

\* ... and that of a row whose flags an admin has cleared.
Clearing(entry) == [entry EXCEPT !.clears = @ + 1, !.disturbed = TRUE]

\* applyBudgetSettings: a new cap, and the flags cleared; the spend is kept.
Recapped(row, b) == [row EXCEPT !.here = TRUE, !.budget = b, !.told = Untold]

\* resetBudgetPeriod: nothing is spent.
Zeroed(b) == [NoRow EXCEPT !.here = TRUE, !.budget = b]

\* status of toState: on the boundary is over it.
IsCapped(row) == row.budget > 0 /\ row.cost >= row.budget
IsWarning(row) == row.budget > 0 /\ ~IsCapped(row) /\ 100 * row.cost >= row.budget * WarnPercent

\* availableUsd bounds what is let through, unless there is no cap.
Affordable(row) == row.budget > 0 => Worst <= row.budget - row.cost

\* recordUsage's increment, or the row it creates when there is none.
Metered(row, cost) ==
    IF row.here THEN [row EXCEPT !.cost = @ + cost]
    ELSE [NoRow EXCEPT !.here = TRUE, !.cost = cost]

-----------------------------------------------------------------------------
(***************************************************************************)
(* A call: runAiTask, or streamAiTask.                                     *)
(***************************************************************************)
\* loadAiLimits.
Start(c) ==
    /\ pc[c] = "idle" /\ left > 0
    /\ mem' = [mem EXCEPT ![c] = [Blank EXCEPT !.hard = limits.hard, !.budget = limits.budget]]
    /\ Goto(c, IF limits.on THEN "check" ELSE "refuse")
    /\ left' = left - 1
    /\ UNCHANGED <<month, limits, period, desk, log, upsets>>

\* A refusal for another reason: before the budget is read (a feature that is off) or
\* after it.
RefuseEarly(c) ==
    /\ "refuse" \in Events
    /\ pc[c] = "check"
    /\ Upset
    /\ Goto(c, "refuse")
    /\ UNCHANGED <<month, limits, period, mem, desk, log, left>>

\* Mutant: no pre-flight.
AdmittedUnweighed(c, row) == mem[c].hard => ~IsCapped(row)

\* getBudgetState, and steps 4 to 7 of prepare, which read only what it returned: what
\* was loaded is not needed again.
Admitted(c, row) == mem[c].hard => ~IsCapped(row) /\ Affordable(row)

CheckBudget(c) ==
    /\ pc[c] = "check"
    /\ LET row == Opened(period[month], mem[c].budget)
           through == Admitted(c, row)
       IN  /\ period' = [period EXCEPT ![month] = row]
           /\ log' = [log EXCEPT ![month] =
                        [Capping(log[month], row.budget)
                            EXCEPT !.loose = IF through /\ ~mem[c].hard THEN TRUE ELSE @]]
           /\ Goto(c, IF through THEN "ask" ELSE "refuse")
    /\ mem' = [mem EXCEPT ![c] = Blank]
    /\ UNCHANGED <<month, limits, desk, boundVars>>

\* The provider answers, fails or is abandoned: the usage in hand is what is metered.
Answer(c) ==
    /\ pc[c] = "ask"
    /\ \E cost \in 0..Worst : mem' = [mem EXCEPT ![c].cost = cost]
    /\ Goto(c, "meter")
    /\ UNCHANGED <<month, limits, period, desk, log, boundVars>>

\* recordUsage of a refusal costs nothing; it may be the first to write the row.
Refuse(c) ==
    /\ pc[c] = "refuse"
    /\ period' = [period EXCEPT ![month] = Metered(@, 0)]
    /\ log' = [log EXCEPT ![month] = Capping(@, period'[month].budget)]
    /\ Goto(c, "idle")
    /\ mem' = [mem EXCEPT ![c] = Blank]
    /\ UNCHANGED <<month, limits, desk, boundVars>>

\* recordUsage.
Meter(c) ==
    /\ pc[c] = "meter"
    /\ period' = [period EXCEPT ![month] = Metered(@, mem[c].cost)]
    /\ log' = [log EXCEPT ![month] = Capping(@, period'[month].budget)]
    /\ Goto(c, "settle")
    /\ mem' = [mem EXCEPT ![c] = Blank]
    /\ UNCHANGED <<month, limits, desk, boundVars>>

\* claimBudgetEvent reads the row ...
Settle(c) ==
    /\ pc[c] = "settle"
    /\ \/ /\ IsCapped(period[month])
          /\ mem' = [mem EXCEPT ![c].at = month, ![c].saw = "capped"]
          /\ Goto(c, "stamp")
       \/ /\ IsWarning(period[month])
          /\ mem' = [mem EXCEPT ![c].at = month, ![c].saw = "warning"]
          /\ Goto(c, "stamp")
       \/ /\ ~IsCapped(period[month]) /\ ~IsWarning(period[month])
          /\ mem' = [mem EXCEPT ![c] = Blank]
          /\ Goto(c, "idle")
    /\ UNCHANGED <<month, limits, period, desk, log, boundVars>>

\* Mutant: the flag is not in the WHERE.
StampAnyway(c) ==
    /\ pc[c] = "stamp"
    /\ period' = [period EXCEPT ![mem[c].at].told[mem[c].saw] = TRUE]
    /\ Goto(c, "tell")
    /\ UNCHANGED <<month, limits, mem, desk, log, boundVars>>

\* Mutant: one flag for both thresholds.
StampShared(c) ==
    /\ pc[c] = "stamp"
    /\ LET told == \E n \in Notice : period[mem[c].at].told[n]
       IN  /\ period' = [period EXCEPT ![mem[c].at].told[mem[c].saw] = TRUE]
           /\ Goto(c, IF told THEN "idle" ELSE "tell")
           /\ mem' = IF told THEN [mem EXCEPT ![c] = Blank] ELSE mem
    /\ UNCHANGED <<month, limits, desk, log, boundVars>>

\* ... and stamps it where the flag is null; whoever does returns the event.
Stamp(c) ==
    /\ pc[c] = "stamp"
    /\ LET told == period[mem[c].at].told[mem[c].saw]
       IN  /\ period' = [period EXCEPT ![mem[c].at].told[mem[c].saw] = TRUE]
           /\ Goto(c, IF told THEN "idle" ELSE "tell")
           /\ mem' = IF told THEN [mem EXCEPT ![c] = Blank] ELSE mem
    /\ UNCHANGED <<month, limits, desk, log, boundVars>>

\* onBudgetEvent: notifyAiBudget, if the caller passed it.
Tell(c) ==
    /\ pc[c] = "tell"
    /\ \/ log' = [log EXCEPT ![mem[c].at].notices[mem[c].saw] = @ + 1]
       \/ /\ "handlerless" \in Events
          /\ log' = [log EXCEPT ![mem[c].at].disturbed = TRUE]
    /\ Goto(c, "idle")
    /\ mem' = [mem EXCEPT ![c] = Blank]
    /\ UNCHANGED <<month, limits, period, desk, boundVars>>

Crash(c) ==
    /\ "crash" \in Events
    /\ pc[c] # "idle"
    /\ Upset
    /\ Goto(c, "idle")
    /\ mem' = [mem EXCEPT ![c] = Blank]
    /\ log' = [m \in Month |-> [log[m] EXCEPT !.disturbed = TRUE]]
    /\ UNCHANGED <<month, limits, period, desk, left>>

CallStep(c) ==
    \/ CheckBudget(c) \/ Answer(c) \/ Refuse(c) \/ Meter(c)
    \/ Settle(c) \/ Stamp(c) \/ Tell(c)

-----------------------------------------------------------------------------
(***************************************************************************)
(* The limits screen.                                                      *)
(***************************************************************************)
\* saveAiLimits writes the settings ...
Save(a) ==
    /\ "save" \in Events
    /\ desk[a] = Idle
    /\ Upset
    /\ limits' \in {l \in Limits : /\ l.on \/ "off" \in Events
                                   /\ l.hard \/ "notifyOnly" \in Events}
    /\ desk' = [desk EXCEPT ![a] = [do |-> "apply", budget |-> limits'.budget]]
    /\ UNCHANGED <<month, period, callVars, log, left>>

\* ... then the month's row: applyBudgetSettings.
Apply(a) ==
    /\ desk[a].do = "apply"
    /\ period' = [period EXCEPT ![month] = Recapped(@, desk[a].budget)]
    /\ log' = [log EXCEPT ![month] = Clearing(Capping(@, desk[a].budget))]
    /\ desk' = [desk EXCEPT ![a] = Idle]
    /\ UNCHANGED <<month, limits, callVars, boundVars>>

\* resetAiBudget loads the limits and reads the budget ...
OpenReset(a) ==
    /\ "reset" \in Events
    /\ desk[a] = Idle
    /\ Upset
    /\ period' = [period EXCEPT ![month] = Opened(@, limits.budget)]
    /\ log' = [log EXCEPT ![month] = Capping(@, period'[month].budget)]
    /\ desk' = [desk EXCEPT ![a] = [do |-> "reset", budget |-> limits.budget]]
    /\ UNCHANGED <<month, limits, callVars, left>>

\* ... then zeroes the spend: resetBudgetPeriod.
Reset(a) ==
    /\ desk[a].do = "reset"
    /\ period' = [period EXCEPT ![month] = Zeroed(desk[a].budget)]
    /\ log' = [log EXCEPT ![month] = Clearing(Capping(@, desk[a].budget))]
    /\ desk' = [desk EXCEPT ![a] = Idle]
    /\ UNCHANGED <<month, limits, callVars, boundVars>>

\* loadAiLimitsView and the availability check open the month too.
Look ==
    /\ "look" \in Events
    /\ ~period[month].here
    /\ period' = [period EXCEPT ![month] = Opened(@, limits.budget)]
    /\ log' = [log EXCEPT ![month] = Capping(@, limits.budget)]
    /\ UNCHANGED <<month, limits, callVars, desk, boundVars>>

\* A new UTC month, whatever is under way.
NextMonth ==
    /\ month < MaxMonth
    /\ month' = month + 1
    /\ UNCHANGED <<limits, period, callVars, desk, log, boundVars>>

Next ==
    \/ \E c \in Call : Start(c) \/ RefuseEarly(c) \/ CallStep(c) \/ Crash(c)
    \/ \E a \in Admin : Save(a) \/ Apply(a) \/ OpenReset(a) \/ Reset(a)
    \/ Look \/ NextMonth

Spec == Init /\ [][Next]_vars

\* A call that has begun goes on: the provider answers or the client times out.
Fairness == \A c \in Call : WF_vars(CallStep(c))

FairSpec == Spec /\ Fairness

-----------------------------------------------------------------------------
\* What a month may cost when its cap was in force throughout: one call was let
\* through at the last moment, and each other call in flight may cost its worst.
Bound(m) == Larger(log[m].peak, Worst) + (Cardinality(Call) - 1) * Worst

\* Calls that check the same remaining budget at once overrun the cap by no more
\* than the other calls in flight can cost (run.ts step 7; ADR-100 #2).
OverrunBounded ==
    \A m \in Month : ~log[m].loose => period[m].cost <= Bound(m)

\* The admins hear of a threshold at most once a month, and once more for each time
\* the limits screen clears the flags (claimBudgetEvent's promise against a storm).
NoticeOnce ==
    \A m \in Month, n \in Notice : log[m].notices[n] <= 1 + log[m].clears

\* A month that its calls have taken to the cap is noticed: by one of them, unless it
\* crashes, has no handler or meters after the month's end, or an admin steps in.
CapIsNoticed ==
    \A m \in Month :
        IsCapped(period[m]) ~> \/ log[m].notices["capped"] > 0
                               \/ log[m].disturbed \/ month # m

\* A month has the cap the settings gave it: 0, unlimited, is only the cap of a month
\* that was given it (schema.prisma, AiBudgetPeriod.budgetUsd).  Not kept: see README.
CapIsCopied ==
    \A m \in Month : period[m].here => period[m].budget \in Cap

=============================================================================
