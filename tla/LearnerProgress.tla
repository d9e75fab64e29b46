-------------------------- MODULE LearnerProgress --------------------------
(***************************************************************************)
(* What one learner has finished (packages/core/src/progress.ts): a row    *)
(* per lesson, a row per course with the denormalised `lessonsCompleted'   *)
(* and `completedAt', and the transaction that recounts both under a lock  *)
(* on the course's row.  Rows belong to one learner, and so do the locks:  *)
(* one learner is enough, with any number of requests at once.             *)
(*                                                                         *)
(* The transaction reads at READ COMMITTED, so each of its reads is a step *)
(* of its own that sees what others committed; what it writes is seen at   *)
(* its commit.  QuizAttempts has the attempts, Learning the composition.   *)
(***************************************************************************)
EXTENDS Naturals, FiniteSets

CONSTANTS
    Lesson, Course, Quiz,
    CourseOf,      \* CourseOf[l]: fixed, moveLesson refuses another course
    Required,      \* the lessons with isRequired
    QuizOf,        \* QuizOf[l]: the quiz of a QUIZ_PASS lesson; None if MANUAL
    FinalQuiz,     \* FinalQuiz[c]: the course's final quiz, or None
    Question,      \* the questions of a quiz, one point each
    PassMark,      \* right answers that make a pass
    MaxAttempts,   \* Quiz.maxAttempts
    Request,       \* slots for the requests under way at once
    None,          \* no lesson, course, quiz or request
    Ops,           \* the requests an instance lets the learner make
    Events,        \* what else an instance lets happen, see EventKind
    MaxUpsets      \* bound on requests and events

\* crash: a request's process dies, or a statement of it throws or times out.
\* publish: lessons and quizzes are published and hidden.  purge: a hidden
\* quiz is purged.
EventKind == {"crash", "publish", "purge"}
OpKind == {"touch", "complete", "incomplete", "start", "answer", "submit"}

ASSUME LearningAssumption ==
    /\ None \notin Lesson \cup Course \cup Quiz \cup Request
    /\ CourseOf \in [Lesson -> Course]
    /\ Required \subseteq Lesson
    /\ QuizOf \in [Lesson -> Quiz \cup {None}]
    /\ FinalQuiz \in [Course -> Quiz \cup {None}]
    /\ IsFiniteSet(Lesson) /\ IsFiniteSet(Question) /\ Question # {}
    /\ PassMark \in Nat /\ MaxAttempts \in Nat \ {0} /\ MaxUpsets \in Nat
    /\ Ops \subseteq OpKind /\ Events \subseteq EventKind

VARIABLES
    live,      \* the lessons the public rule shows; their courses stay public
    quiz,      \* quiz[q]: open to the public, hidden, or purged
    attempt,   \* attempt[<<q, n>>]: the learner's QuizAttempt number n
    progress,  \* progress[l]: the LessonProgress row
    enroll,    \* enroll[c]: the CourseEnrollment row
    lock,      \* lock[c]: the request whose transaction holds that row
    pc,        \* pc[p]: where the request is
    mem,       \* mem[p]: its local variables
    clock,     \* the last completion date given
    stale,     \* stale[c]: the rule's data moved since a recount (auxiliary)
    upsets     \* requests and events still allowed (auxiliary)

siteVars == <<live, quiz>>
txVars == <<progress, enroll, lock, clock>>
vars == <<siteVars, attempt, txVars, pc, mem, stale, upsets>>

-----------------------------------------------------------------------------
Status == {"NONE", "IN_PROGRESS", "COMPLETED"}
Number == 1..(MaxAttempts + 1)
Grades == [Question -> {"none", "right", "wrong"}]
Attempt == [st : {"ABSENT", "OPEN", "DONE"}, grades : Grades, score : Nat, passed : BOOLEAN]
Enrollment == [is : BOOLEAN, count : Nat, done : Nat]

Handlers == {"number", "create", "write", "finalise", "lessons", "each", "courses", "recounts"}
InTx == {"count", "outstanding", "final", "commit"}
Phase == {"idle", "dead", "enroll", "lock"} \cup InTx \cup Handlers

\* op, l, c: what the transaction is for.  count, ready: what it has read so far.
\* clean: nothing it reads has moved since.  q, n, grades: the attempt in hand.
\* todo, courses: what a pass has still to credit and to recount.
Mem == [op : OpKind \cup {"none", "credit", "recount"}, l : Lesson \cup {None},
        c : Course \cup {None}, count : Nat, ready : BOOLEAN, clean : BOOLEAN,
        q : Quiz \cup {None}, n : Number, grades : Grades,
        todo : SUBSET Lesson, courses : SUBSET Course]

NoGrades == [k \in Question |-> "none"]
NoAttempt == [st |-> "ABSENT", grades |-> NoGrades, score |-> 0, passed |-> FALSE]
NoEnrollment == [is |-> FALSE, count |-> 0, done |-> 0]
Blank == [op |-> "none", l |-> None, c |-> None, count |-> 0, ready |-> FALSE,
          clean |-> FALSE, q |-> None, n |-> 1, grades |-> NoGrades,
          todo |-> {}, courses |-> {}]

Init ==
    /\ live = Lesson
    /\ quiz = [q \in Quiz |-> "open"]
    /\ attempt = [a \in Quiz \X Number |-> NoAttempt]
    /\ progress = [l \in Lesson |-> "NONE"]
    /\ enroll = [c \in Course |-> NoEnrollment]
    /\ lock = [c \in Course |-> None]
    /\ pc = [p \in Request |-> "idle"]
    /\ mem = [p \in Request |-> Blank]
    /\ clock = 0
    /\ stale = [c \in Course |-> FALSE]
    /\ upsets = MaxUpsets

-----------------------------------------------------------------------------
(***************************************************************************)
(* The rule.  Every definition takes the lesson rows as the reader sees    *)
(* them: a transaction sees its own write before anybody else does.        *)
(***************************************************************************)
\* publishedLessonWhere
Published(c) == {l \in live : CourseOf[l] = c}

\* blockingLessonWhere: a QUIZ_PASS lesson whose quiz is gone blocks nothing.
Blocking(c) ==
    {l \in Published(c) \cap Required :
        QuizOf[l] # None => quiz[QuizOf[l]] # "purged"}

Completed(c, rows) == {l \in Published(c) : rows[l] = "COMPLETED"}

Passed(q) == \E n \in Number : attempt[<<q, n>>].passed

\* A final quiz nobody can reach stops blocking (isQuizReachable).
FinalPassed(c) ==
    \/ FinalQuiz[c] = None
    \/ quiz[FinalQuiz[c]] # "open"
    \/ Passed(FinalQuiz[c])

NothingOutstanding(c, rows) ==
    Blocking(c) # {} /\ \A l \in Blocking(c) : rows[l] = "COMPLETED"

-----------------------------------------------------------------------------
Goto(p, where) == pc' = [pc EXCEPT ![p] = where]

\* The end of a request.
Ended(p) == Goto(p, "idle") /\ mem' = [mem EXCEPT ![p] = Blank]

Upset == upsets > 0 /\ upsets' = upsets - 1

\* The data of the recounts of the courses cs moves.
Moved(cs) == [c \in Course |-> stale[c] \/ c \in cs]
Unclean(cs) ==
    [p \in Request |-> IF mem[p].c \in cs THEN [mem[p] EXCEPT !.clean = FALSE] ELSE mem[p]]

\* Mutant: a visit writes the status of a lesson that was only to be visited.
UpsertedAnew(op, st) == IF op \in {"touch", "incomplete"} THEN "IN_PROGRESS" ELSE "COMPLETED"

\* The upsert of the lesson's row: a visit changes the status of no row there is.
Upserted(op, st) ==
    CASE op = "touch"      -> IF st = "NONE" THEN "IN_PROGRESS" ELSE st
      [] op = "incomplete" -> "IN_PROGRESS"
      [] OTHER             -> "COMPLETED"

\* The lesson rows as the transaction of p sees them.
Rows(p) ==
    [l \in Lesson |-> IF l = mem[p].l THEN Upserted(mem[p].op, progress[l]) ELSE progress[l]]

\* touchLesson, markLessonComplete, markLessonIncomplete: the lesson is found by
\* the public rule, and may be one with a quiz: only its page hides the controls.
Ask(p, op, l) ==
    /\ pc[p] = "idle" /\ op \in Ops \cap {"touch", "complete", "incomplete"}
    /\ l \in live
    /\ Upset
    /\ Goto(p, "enroll")
    /\ mem' = [mem EXCEPT ![p] = [Blank EXCEPT !.op = op, !.l = l, !.c = CourseOf[l]]]
    /\ UNCHANGED <<siteVars, attempt, txVars, stale>>

\* ensureEnrollment: the loser of two first writes goes on with the row it wanted.
Enrolled(c) == [enroll EXCEPT ![c].is = TRUE]

EnsureEnrollment(p) ==
    /\ pc[p] = "enroll"
    /\ enroll' = Enrolled(mem[p].c)
    /\ Goto(p, "lock")
    /\ UNCHANGED <<siteVars, attempt, progress, lock, clock, mem, stale, upsets>>

\* Mutant: the enrolment row is not locked.
TakeLockShared(p) ==
    /\ pc[p] = "lock"
    /\ lock' = [lock EXCEPT ![mem[p].c] = p]
    /\ Goto(p, "count")
    /\ UNCHANGED <<siteVars, attempt, progress, enroll, clock, mem, stale, upsets>>

\* withEnrollmentLock: the update of lastActiveAt takes the row, or waits for it.
TakeLock(p) ==
    /\ pc[p] = "lock" /\ lock[mem[p].c] = None
    /\ lock' = [lock EXCEPT ![mem[p].c] = p]
    /\ Goto(p, "count")
    /\ UNCHANGED <<siteVars, attempt, progress, enroll, clock, mem, stale, upsets>>

\* recomputeCourseCompletion, read by read: the completed lessons ...
CountCompleted(p) ==
    /\ pc[p] = "count"
    /\ mem' = [mem EXCEPT ![p] = [@ EXCEPT !.count = Cardinality(Completed(mem[p].c, Rows(p))),
                                          !.clean = TRUE]]
    /\ Goto(p, "outstanding")
    /\ UNCHANGED <<siteVars, attempt, txVars, stale, upsets>>

\* ... the required ones, and those still to do (two counts, one step) ...
CountOutstanding(p) ==
    /\ pc[p] = "outstanding"
    /\ mem' = [mem EXCEPT ![p].ready = NothingOutstanding(mem[p].c, Rows(p))]
    /\ Goto(p, "final")
    /\ UNCHANGED <<siteVars, attempt, txVars, stale, upsets>>

\* Mutant: the final quiz is not asked for.
SkipFinal(p) ==
    /\ pc[p] = "final"
    /\ Goto(p, "commit")
    /\ UNCHANGED <<siteVars, attempt, txVars, mem, stale, upsets>>

\* ... and the final quiz.
CheckFinal(p) ==
    /\ pc[p] = "final"
    /\ mem' = [mem EXCEPT ![p].ready = @ /\ FinalPassed(mem[p].c)]
    /\ Goto(p, "commit")
    /\ UNCHANGED <<siteVars, attempt, txVars, stale, upsets>>

\* Mutant: every recount of a finished course gives it a new date.
StampAnew(done, ready) == IF ready THEN clock + 1 ELSE 0

\* The ORIGINAL date stays; falling out of completion clears it.
Stamp(done, ready) ==
    IF ready THEN (IF done # 0 THEN done ELSE clock + 1) ELSE 0

\* A pass has more to do after its transaction, the other requests are at their end.
Back(p) ==
    IF mem[p].op \in {"credit", "recount"}
    THEN Goto(p, IF mem[p].op = "credit" THEN "each" ELSE "recounts") /\ UNCHANGED mem
    ELSE Ended(p)

\* The commit makes the lesson's row and the course's row visible at once.
Commit(p) ==
    LET c == mem[p].c
        done == Stamp(enroll[c].done, mem[p].ready)
    IN /\ pc[p] = "commit"
       /\ progress' = Rows(p)
       /\ enroll' = [enroll EXCEPT ![c] = [@ EXCEPT !.count = mem[p].count, !.done = done]]
       /\ clock' = IF done > clock THEN done ELSE clock
       /\ lock' = [lock EXCEPT ![c] = None]
       /\ stale' = [stale EXCEPT ![c] = ~mem[p].clean]
       /\ Back(p)
       /\ UNCHANGED <<siteVars, attempt, upsets>>

\* The process dies, or a statement throws: the transaction is rolled back, and
\* nobody goes on with the request.
Die(p) ==
    /\ "crash" \in Events /\ pc[p] \notin {"idle", "dead"}
    /\ Upset
    /\ Goto(p, "dead")
    /\ mem' = [mem EXCEPT ![p] = Blank]
    /\ lock' = [c \in Course |-> IF lock[c] = p THEN None ELSE lock[c]]
    /\ UNCHANGED <<siteVars, attempt, progress, enroll, clock, stale>>

TxStep(p) ==
    \/ EnsureEnrollment(p)
    \/ TakeLock(p)
    \/ CountCompleted(p)
    \/ CountOutstanding(p)
    \/ CheckFinal(p)
    \/ Commit(p)
=============================================================================
