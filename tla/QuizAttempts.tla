---------------------------- MODULE QuizAttempts ----------------------------
(***************************************************************************)
(* The learner's attempts at quizzes (packages/core/src/quizzes.ts): start *)
(* or resume, answer, submit, and what a pass does to the progress of the  *)
(* lessons and courses that use the quiz.  Each handler reads the attempt  *)
(* in one statement and writes it by id in a later one.                    *)
(***************************************************************************)
EXTENDS LearnerProgress

Open(q) == {n \in Number : attempt[<<q, n>>].st = "OPEN"}
Taken(q) == {n \in Number : attempt[<<q, n>>].st # "ABSENT"}
Right(g) == Cardinality({k \in Question : g[k] = "right"})

-----------------------------------------------------------------------------
\* startQuizAttempt finds no open attempt (one it finds it hands back) ...
StartQuizAttempt(p, q) ==
    /\ pc[p] = "idle" /\ "start" \in Ops
    /\ quiz[q] = "open" /\ Open(q) = {}
    /\ Upset
    /\ Goto(p, "number")
    /\ mem' = [mem EXCEPT ![p] = [Blank EXCEPT !.op = "start", !.q = q]]
    /\ UNCHANGED <<siteVars, attempt, txVars, stale>>

\* Mutant: the limit is read as the last attempt allowed.
CountAttemptsLax(p) ==
    /\ pc[p] = "number"
    /\ LET n == Cardinality(Taken(mem[p].q)) IN
       IF n > MaxAttempts THEN Ended(p)
       ELSE Goto(p, "create") /\ mem' = [mem EXCEPT ![p].n = n + 1]
    /\ UNCHANGED <<siteVars, attempt, txVars, stale, upsets>>

\* ... counts the attempts there are, and refuses one too many ...
CountAttempts(p) ==
    /\ pc[p] = "number"
    /\ LET n == Cardinality(Taken(mem[p].q)) IN
       IF n >= MaxAttempts THEN Ended(p)
       ELSE Goto(p, "create") /\ mem' = [mem EXCEPT ![p].n = n + 1]
    /\ UNCHANGED <<siteVars, attempt, txVars, stale, upsets>>

\* ... and creates the next: the unique key refuses a number another has taken.
CreateAttempt(p) ==
    /\ pc[p] = "create"
    /\ LET a == <<mem[p].q, mem[p].n>> IN
       attempt' = IF attempt[a].st = "ABSENT" /\ quiz[mem[p].q] # "purged"
                  THEN [attempt EXCEPT ![a] = [NoAttempt EXCEPT !.st = "OPEN"]]
                  ELSE attempt
    /\ Ended(p)
    /\ UNCHANGED <<siteVars, txVars, stale, upsets>>

-----------------------------------------------------------------------------
\* recordQuizAnswer reads the whole of `grades' of an attempt still open ...
RecordQuizAnswer(p, q, n, k, grade) ==
    /\ pc[p] = "idle" /\ "answer" \in Ops
    /\ n \in Open(q) /\ quiz[q] = "open"
    /\ Upset
    /\ Goto(p, "write")
    /\ mem' = [mem EXCEPT ![p] =
                  [Blank EXCEPT !.op = "answer", !.q = q, !.n = n,
                                !.grades = [attempt[<<q, n>>].grades EXCEPT ![k] = grade]]]
    /\ UNCHANGED <<siteVars, attempt, txVars, stale>>

\* ... and writes the whole of it back, by id.
WriteGrades(p) ==
    /\ pc[p] = "write"
    /\ LET a == <<mem[p].q, mem[p].n>> IN
       attempt' = IF attempt[a].st = "ABSENT" THEN attempt
                  ELSE [attempt EXCEPT ![a].grades = mem[p].grades]
    /\ Ended(p)
    /\ UNCHANGED <<siteVars, txVars, stale, upsets>>

-----------------------------------------------------------------------------
\* submitQuizAttempt reads the attempt, and has nothing to write if it is done.
SubmitQuizAttempt(p, q, n) ==
    /\ pc[p] = "idle" /\ "submit" \in Ops
    /\ n \in Open(q) /\ quiz[q] = "open"
    /\ Upset
    /\ Goto(p, "finalise")
    /\ mem' = [mem EXCEPT ![p] = [Blank EXCEPT !.op = "submit", !.q = q, !.n = n,
                                               !.grades = attempt[<<q, n>>].grades]]
    /\ UNCHANGED <<siteVars, attempt, txVars, stale>>

\* The courses in which the quiz is the final one.
Finals(q) == {c \in Course : FinalQuiz[c] = q /\ quiz[q] # "purged"}

\* The score of what was read is written by id; a pass is then applied.
Finalise(p) ==
    LET q == mem[p].q
        a == <<q, mem[p].n>>
        score == Right(mem[p].grades)
        passed == score >= PassMark
        moved == IF passed # attempt[a].passed THEN Finals(q) ELSE {}
    IN /\ pc[p] = "finalise"
       /\ IF attempt[a].st = "ABSENT"
          THEN /\ Ended(p)
               /\ UNCHANGED <<attempt, stale>>
          ELSE /\ attempt' = [attempt EXCEPT ![a] = [@ EXCEPT !.st = "DONE",
                                                    !.score = score, !.passed = passed]]
               /\ Goto(p, IF passed THEN "lessons" ELSE "idle")
               /\ stale' = Moved(moved)
               /\ mem' = IF passed THEN Unclean(moved)
                         ELSE [Unclean(moved) EXCEPT ![p] = Blank]
       /\ UNCHANGED <<siteVars, txVars, upsets>>

\* applyQuizPass: the published QUIZ_PASS lessons of the quiz ...
FindLessons(p) ==
    /\ pc[p] = "lessons"
    /\ mem' = [mem EXCEPT ![p].todo =
                  {l \in live : QuizOf[l] = mem[p].q /\ quiz[mem[p].q] # "purged"}]
    /\ Goto(p, "each")
    /\ UNCHANGED <<siteVars, attempt, txVars, stale, upsets>>

\* ... are credited one by one, each in a transaction of its own ...
CreditLesson(p, l) ==
    /\ pc[p] = "each" /\ l \in mem[p].todo
    /\ mem' = [mem EXCEPT ![p] = [@ EXCEPT !.op = "credit", !.l = l, !.c = CourseOf[l],
                                          !.clean = FALSE, !.todo = mem[p].todo \ {l}]]
    /\ Goto(p, "enroll")
    /\ UNCHANGED <<siteVars, attempt, txVars, stale, upsets>>

\* Mutant: only the first lesson of a quiz is credited.
FindCoursesEarly(p) ==
    /\ pc[p] = "each" /\ (mem[p].op = "credit" \/ mem[p].todo = {})
    /\ mem' = [mem EXCEPT ![p].courses = Finals(mem[p].q)]
    /\ Goto(p, "recounts")
    /\ UNCHANGED <<siteVars, attempt, txVars, stale, upsets>>

\* ... then the courses it is the final quiz of ...
FindCourses(p) ==
    /\ pc[p] = "each" /\ mem[p].todo = {}
    /\ mem' = [mem EXCEPT ![p].courses = Finals(mem[p].q)]
    /\ Goto(p, "recounts")
    /\ UNCHANGED <<siteVars, attempt, txVars, stale, upsets>>

\* ... are recounted, those the learner is enrolled in.
RecountCourse(p, c) ==
    /\ pc[p] = "recounts" /\ c \in mem[p].courses
    /\ IF enroll[c].is
       THEN /\ mem' = [mem EXCEPT ![p] = [@ EXCEPT !.op = "recount", !.l = None, !.c = c,
                                                  !.clean = FALSE, !.courses = mem[p].courses \ {c}]]
            /\ Goto(p, "lock")
       ELSE /\ mem' = [mem EXCEPT ![p].courses = @ \ {c}]
            /\ UNCHANGED pc
    /\ UNCHANGED <<siteVars, attempt, txVars, stale, upsets>>

PassApplied(p) ==
    /\ pc[p] = "recounts" /\ mem[p].courses = {}
    /\ Ended(p)
    /\ UNCHANGED <<siteVars, attempt, txVars, stale, upsets>>

AttemptStep(p) ==
    \/ CountAttempts(p)
    \/ CreateAttempt(p)
    \/ WriteGrades(p)
    \/ Finalise(p)
    \/ FindLessons(p)
    \/ \E l \in Lesson : CreditLesson(p, l)
    \/ FindCourses(p)
    \/ \E c \in Course : RecountCourse(p, c)
    \/ PassApplied(p)
=============================================================================
