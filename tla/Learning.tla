------------------------------ MODULE Learning ------------------------------
(***************************************************************************)
(* A learner's requests, the editors who publish and hide what they are    *)
(* about, and the properties of the whole.                                 *)
(***************************************************************************)
EXTENDS QuizAttempts

\* The courses whose rule reads the quiz.
Uses(q) == {c \in Course : FinalQuiz[c] = q \/ \E l \in Lesson : CourseOf[l] = c /\ QuizOf[l] = q}

\* A lesson is published, scheduled, hidden or put in the trash.
PublishLesson(l) ==
    /\ "publish" \in Events /\ Upset
    /\ live' = IF l \in live THEN live \ {l} ELSE live \cup {l}
    /\ stale' = Moved({CourseOf[l]})
    /\ mem' = Unclean({CourseOf[l]})
    /\ UNCHANGED <<quiz, attempt, txVars, pc>>

\* So is a quiz.
PublishQuiz(q) ==
    /\ "publish" \in Events /\ Upset
    /\ quiz[q] # "purged"
    /\ quiz' = [quiz EXCEPT ![q] = IF @ = "open" THEN "hidden" ELSE "open"]
    /\ stale' = Moved(Uses(q))
    /\ mem' = Unclean(Uses(q))
    /\ UNCHANGED <<live, attempt, txVars, pc>>

\* A quiz in the trash is deleted for good: its attempts go with it, and lessons
\* and courses let go of it (SetNull).
PurgeQuiz(q) ==
    /\ "purge" \in Events /\ Upset
    /\ quiz[q] = "hidden"
    /\ quiz' = [quiz EXCEPT ![q] = "purged"]
    /\ attempt' = [a \in Quiz \X Number |-> IF a[1] = q THEN NoAttempt ELSE attempt[a]]
    /\ stale' = Moved(Uses(q))
    /\ mem' = Unclean(Uses(q))
    /\ UNCHANGED <<live, txVars, pc>>

EditorNext ==
    \/ \E l \in Lesson : PublishLesson(l)
    \/ \E q \in Quiz : PublishQuiz(q) \/ PurgeQuiz(q)

LearnerNext ==
    \E p \in Request :
        \/ \E op \in OpKind, l \in Lesson : Ask(p, op, l)
        \/ \E q \in Quiz : StartQuizAttempt(p, q)
        \/ \E q \in Quiz, n \in Number, k \in Question, g \in {"right", "wrong"} :
              RecordQuizAnswer(p, q, n, k, g)
        \/ \E q \in Quiz, n \in Number : SubmitQuizAttempt(p, q, n)

Step(p) == TxStep(p) \/ AttemptStep(p)

Next ==
    \/ LearnerNext
    \/ \E p \in Request : Step(p) \/ Die(p)
    \/ EditorNext

Spec == Init /\ [][Next]_vars

\* A request under way goes on; nothing is assumed of learners and editors.
Fairness == \A p \in Request : WF_vars(Step(p))

FairSpec == Spec /\ Fairness

-----------------------------------------------------------------------------
\* Every variable keeps its type; an attempt's number is at most one past the limit
\* (QuizAttempt.attemptNumber).
TypeOK ==
    /\ live \subseteq Lesson
    /\ quiz \in [Quiz -> {"open", "hidden", "purged"}]
    /\ attempt \in [Quiz \X Number -> Attempt]
    /\ progress \in [Lesson -> Status]
    /\ enroll \in [Course -> Enrollment]
    /\ lock \in [Course -> Request \cup {None}]
    /\ pc \in [Request -> Phase]
    /\ mem \in [Request -> Mem]
    /\ clock \in Nat
    /\ stale \in [Course -> BOOLEAN]
    /\ upsets \in Nat

\* However requests interleave, the counter is the number of completed lessons the
\* public can see, unless what is published has moved since it was recounted
\* (withEnrollmentLock: "a counter that drifts under concurrency").
CounterIsTrue ==
    \A c \in Course :
        ~stale[c] => enroll[c].count = Cardinality(Completed(c, progress))

\* A course has a completion date exactly if every lesson that blocks is completed
\* and its final quiz passed (recomputeCourseCompletion, ADR-056 #7, ADR-084 #8).
DateIsTrue ==
    \A c \in Course :
        ~stale[c] => (enroll[c].done # 0 <=> NothingOutstanding(c, progress) /\ FinalPassed(c))

\* The date of a finished course is the first one, until it is not finished any more.
FirstDateStays ==
    [][\A c \in Course : enroll[c].done # 0 => enroll'[c].done \in {0, enroll[c].done}]_vars

\* However many starts cross, a learner has no more attempts than the quiz allows
\* (maxAttempts, and the unique attemptNumber).
AttemptsBounded == \A q \in Quiz : Cardinality(Taken(q)) <= MaxAttempts

\* A completed lesson is un-completed by the learner's own undo alone: never by a
\* visit, nor by a quiz (touchLesson).
OnlyUndoReopens ==
    [][\A l \in Lesson :
         progress[l] = "COMPLETED" /\ progress'[l] # "COMPLETED" =>
            \E p \in Request : pc[p] = "commit" /\ mem[p].op = "incomplete" /\ mem[p].l = l]_vars

\* The pass of a quiz that p has under way is still to credit the lesson.
Owes(p, l) == pc[p] = "lessons" /\ mem[p].q = QuizOf[l]

\* A pass reaches every published lesson of its quiz, unless the request dies on
\* the way, whoever else holds the locks (applyQuizPass).
PassReaches ==
    \A p \in Request, l \in Lesson :
        Owes(p, l) ~> progress[l] = "COMPLETED" \/ l \notin live \/ pc[p] = "dead"
                         \/ (QuizOf[l] # None /\ quiz[QuizOf[l]] = "purged")

\* Passing a quiz completes its QUIZ_PASS lessons (submitQuizAttempt: "Passing has
\* two side effects"; ADR-058 #6).  Not kept: see README.
PassIsCredited ==
    (\A p \in Request : pc[p] \in {"idle", "dead"}) =>
        \A l \in live :
            QuizOf[l] # None /\ Passed(QuizOf[l]) => progress[l] = "COMPLETED"

\* There is one attempt to resume (startQuizAttempt).  Not kept: see README.
OneOpenAttempt == \A q \in Quiz : Cardinality(Open(q)) <= 1

\* The score is that of the stored grades (ADR-058 #3).  Not kept: see README.
ScoreIsOfGrades ==
    \A a \in Quiz \X Number :
        attempt[a].st = "DONE" => attempt[a].score = Right(attempt[a].grades)

\* An answer once recorded is not lost to another question's.  Not kept: see README.
AnswersStay ==
    [][\A a \in Quiz \X Number, k \in Question :
         attempt[a].grades[k] # "none" /\ attempt'[a].st # "ABSENT"
            => attempt'[a].grades[k] # "none"]_vars
=============================================================================
