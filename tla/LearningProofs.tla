--------------------------- MODULE LearningProofs ---------------------------
(***************************************************************************)
(* What holds of Learning for any lessons, courses, quizzes and number of  *)
(* requests at once, checked by TLAPS.                                     *)
(***************************************************************************)
EXTENDS Learning, FiniteSetTheorems, TLAPS

\* Where a request works on a course's row.
AtCourse == {"enroll", "lock"} \cup InTx

\* A request in its transaction knows the course, and its lesson is of that course.
Placed ==
    \A p \in Request : pc[p] \in AtCourse =>
        /\ mem[p].c \in Course
        /\ mem[p].l # None => CourseOf[mem[p].l] = mem[p].c

\* What the reads count is finite.
LEMMA Counts ==
    ASSUME TypeOK
    PROVE  /\ \A c \in Course : \A rows : Cardinality(Completed(c, rows)) \in Nat
           /\ \A q : Cardinality(Taken(q)) \in Nat
           /\ \A g : Right(g) \in Nat
  <1>1. ASSUME NEW c \in Course, NEW rows PROVE Cardinality(Completed(c, rows)) \in Nat
    <2>1. Completed(c, rows) \subseteq Lesson
      BY DEF TypeOK, Completed, Published
    <2> QED
      BY <2>1, FS_Subset, FS_CardinalityType, LearningAssumption
  <1>2. ASSUME NEW q PROVE Cardinality(Taken(q)) \in Nat
    <2>1. IsFiniteSet(Number)
      BY FS_Interval, LearningAssumption DEF Number
    <2>2. Taken(q) \subseteq Number
      BY DEF Taken
    <2> QED
      BY <2>1, <2>2, FS_Subset, FS_CardinalityType
  <1>3. ASSUME NEW g PROVE Right(g) \in Nat
    <2>1. {k \in Question : g[k] = "right"} \subseteq Question
      OBVIOUS
    <2> QED
      BY <2>1, FS_Subset, FS_CardinalityType, LearningAssumption DEF Right
  <1> QED
    BY <1>1, <1>2, <1>3
\* What a request starts from, and what the rows it writes can be.
LEMMA Forms ==
    ASSUME TypeOK, NEW p \in Request
    PROVE  /\ Blank \in Mem /\ Blank.l = None
           /\ NoAttempt \in Attempt
           /\ Rows(p) \in [Lesson -> Status]
           /\ \A cs \in SUBSET Course : Moved(cs) \in [Course -> BOOLEAN]
           /\ \A cs \in SUBSET Course : Unclean(cs) \in [Request -> Mem]
  <1>1. 1 \in Number /\ NoGrades \in Grades
    BY LearningAssumption DEF Number, NoGrades, Grades
  <1>2. Blank \in Mem /\ Blank.l = None
    BY <1>1 DEF Blank, Mem
  <1>3. NoAttempt \in Attempt
    BY <1>1 DEF NoAttempt, Attempt
  <1>4. Rows(p) \in [Lesson -> Status]
    BY DEF TypeOK, Rows, Upserted, Status
  <1>5. \A cs \in SUBSET Course : Moved(cs) \in [Course -> BOOLEAN]
    BY DEF TypeOK, Moved
  <1>6. ASSUME NEW cs \in SUBSET Course PROVE Unclean(cs) \in [Request -> Mem]
    <2>1. \A r \in Request : [mem[r] EXCEPT !.clean = FALSE] \in Mem
      BY DEF TypeOK, Mem
    <2> QED
      BY <2>1 DEF TypeOK, Unclean
  <1> QED
    BY <1>2, <1>3, <1>4, <1>5, <1>6

LEMMA TypeInit == Init => TypeOK /\ Placed
  <1> SUFFICES ASSUME Init PROVE TypeOK /\ Placed
    OBVIOUS
  <1>1. 1 \in Number /\ NoGrades \in Grades
    BY LearningAssumption DEF Number, NoGrades, Grades
  <1>2. Blank \in Mem
    BY <1>1 DEF Blank, Mem
  <1>3. NoAttempt \in Attempt /\ NoEnrollment \in Enrollment
    BY <1>1 DEF NoAttempt, Attempt, NoEnrollment, Enrollment
  <1>4. TypeOK
    BY <1>2, <1>3, LearningAssumption DEF Init, TypeOK, Phase, Status
  <1>5. Placed
    BY DEF Init, Placed, AtCourse, InTx
  <1> QED
    BY <1>4, <1>5

\* A step of one request that leaves the memory of the others alone.
LEMMA PlacedByOne ==
    ASSUME TypeOK, Placed, NEW p \in Request,
           NEW where, pc' = [pc EXCEPT ![p] = where],
           \A r \in Request \ {p} : mem'[r].c = mem[r].c /\ mem'[r].l = mem[r].l,
           where \in AtCourse =>
              /\ mem'[p].c \in Course
              /\ mem'[p].l # None => CourseOf[mem'[p].l] = mem'[p].c
    PROVE  Placed'
  BY DEF TypeOK, Placed

LEMMA LearnerType ==
    ASSUME TypeOK, Placed, LearnerNext
    PROVE  TypeOK' /\ Placed'
  <1> USE LearningAssumption
  <1>1. ASSUME NEW p \in Request, NEW op \in OpKind, NEW l \in Lesson, Ask(p, op, l)
        PROVE  TypeOK' /\ Placed'
    <2> DEFINE m == [Blank EXCEPT !.op = op, !.l = l, !.c = CourseOf[l]]
    <2>1. m \in Mem /\ m.l = l /\ m.c = CourseOf[l] /\ m.c \in Course
      BY Forms DEF Mem
    <2>2. pc' = [pc EXCEPT ![p] = "enroll"] /\ mem' = [mem EXCEPT ![p] = m]
      BY <1>1 DEF Ask, Goto
    <2>3. TypeOK'
      BY <1>1, <2>1, <2>2 DEF TypeOK, Ask, Upset, Phase, siteVars, txVars
    <2>4. Placed'
      BY <2>1, <2>2, PlacedByOne DEF TypeOK
    <2> QED
      BY <2>3, <2>4
  <1>2. ASSUME NEW p \in Request, NEW q \in Quiz, StartQuizAttempt(p, q)
        PROVE  TypeOK' /\ Placed'
    <2> DEFINE m == [Blank EXCEPT !.op = "start", !.q = q]
    <2>1. m \in Mem
      BY Forms DEF Mem, OpKind
    <2>2. pc' = [pc EXCEPT ![p] = "number"] /\ mem' = [mem EXCEPT ![p] = m]
      BY <1>2 DEF StartQuizAttempt, Goto
    <2>3. TypeOK'
      BY <1>2, <2>1, <2>2 DEF TypeOK, StartQuizAttempt, Upset, Phase, Handlers, siteVars, txVars
    <2>4. Placed'
      BY <2>2, PlacedByOne DEF TypeOK, AtCourse, InTx
    <2> QED
      BY <2>3, <2>4
  <1>3. ASSUME NEW p \in Request, NEW q \in Quiz, NEW n \in Number, NEW k \in Question,
               NEW g \in {"right", "wrong"}, RecordQuizAnswer(p, q, n, k, g)
        PROVE  TypeOK' /\ Placed'
    <2> DEFINE gs == [attempt[<<q, n>>].grades EXCEPT ![k] = g]
               m == [Blank EXCEPT !.op = "answer", !.q = q, !.n = n, !.grades = gs]
    <2>1. attempt[<<q, n>>] \in Attempt
      BY DEF TypeOK
    <2>2. gs \in Grades
      BY <2>1 DEF Attempt, Grades
    <2>3. m \in Mem
      BY <2>2, Forms DEF Mem, OpKind
    <2>4. pc' = [pc EXCEPT ![p] = "write"] /\ mem' = [mem EXCEPT ![p] = m]
      BY <1>3 DEF RecordQuizAnswer, Goto
    <2>5. TypeOK'
      BY <1>3, <2>3, <2>4 DEF TypeOK, RecordQuizAnswer, Upset, Phase, Handlers, siteVars, txVars
    <2>6. Placed'
      BY <2>4, PlacedByOne DEF TypeOK, AtCourse, InTx
    <2> QED
      BY <2>5, <2>6
  <1>4. ASSUME NEW p \in Request, NEW q \in Quiz, NEW n \in Number, SubmitQuizAttempt(p, q, n)
        PROVE  TypeOK' /\ Placed'
    <2> DEFINE m == [Blank EXCEPT !.op = "submit", !.q = q, !.n = n,
                                  !.grades = attempt[<<q, n>>].grades]
    <2>1. attempt[<<q, n>>] \in Attempt
      BY DEF TypeOK
    <2>2. m \in Mem
      BY <2>1, Forms DEF Mem, OpKind, Attempt
    <2>3. pc' = [pc EXCEPT ![p] = "finalise"] /\ mem' = [mem EXCEPT ![p] = m]
      BY <1>4 DEF SubmitQuizAttempt, Goto
    <2>4. TypeOK'
      BY <1>4, <2>2, <2>3 DEF TypeOK, SubmitQuizAttempt, Upset, Phase, Handlers, siteVars, txVars
    <2>5. Placed'
      BY <2>3, PlacedByOne DEF TypeOK, AtCourse, InTx
    <2> QED
      BY <2>4, <2>5
  <1> QED
    BY <1>1, <1>2, <1>3, <1>4 DEF LearnerNext
LEMMA TxType ==
    ASSUME TypeOK, Placed, NEW p \in Request, TxStep(p)
    PROVE  TypeOK' /\ Placed'
  <1> USE LearningAssumption
  <1> DEFINE c == mem[p].c
  <1>1. mem[p] \in Mem
    BY DEF TypeOK
  <1>2. ASSUME EnsureEnrollment(p) PROVE TypeOK' /\ Placed'
    <2>1. enroll' \in [Course -> Enrollment]
      BY <1>2 DEF TypeOK, EnsureEnrollment, Enrolled, Enrollment
    <2>2. TypeOK'
      BY <1>2, <2>1 DEF TypeOK, EnsureEnrollment, Goto, Phase, siteVars
    <2>3. Placed'
      BY <1>2 DEF TypeOK, EnsureEnrollment, Goto, Placed, AtCourse
    <2> QED
      BY <2>2, <2>3
  <1>3. ASSUME TakeLock(p) PROVE TypeOK' /\ Placed'
    <2>1. lock' \in [Course -> Request \cup {None}]
      BY <1>3 DEF TypeOK, TakeLock
    <2>2. TypeOK'
      BY <1>3, <2>1 DEF TypeOK, TakeLock, Goto, Phase, InTx, siteVars
    <2>3. Placed'
      BY <1>3 DEF TypeOK, TakeLock, Goto, Placed, AtCourse
    <2> QED
      BY <2>2, <2>3
  <1>4. ASSUME CountCompleted(p) PROVE TypeOK' /\ Placed'
    <2>1. pc[p] \in AtCourse
      BY <1>4 DEF CountCompleted, AtCourse, InTx
    <2>2. c \in Course
      BY <2>1 DEF Placed
    <2> DEFINE n == Cardinality(Completed(c, Rows(p)))
    <2>3. n \in Nat
      BY <2>2, Counts
    <2> HIDE DEF n
    <2> DEFINE m == [mem[p] EXCEPT !.count = n, !.clean = TRUE]
    <2>4. m \in Mem /\ m.c = mem[p].c /\ m.l = mem[p].l
      BY <1>1, <2>3 DEF Mem
    <2>5. mem' = [mem EXCEPT ![p] = m]
      BY <1>4 DEF CountCompleted, n
    <2> HIDE DEF m
    <2>6. TypeOK'
      <3>1. pc' \in [Request -> Phase]
        BY <1>4 DEF TypeOK, CountCompleted, Goto, Phase, InTx
      <3>2. mem' \in [Request -> Mem]
        BY <2>4, <2>5 DEF TypeOK
      <3> QED
        BY <1>4, <3>1, <3>2 DEF TypeOK, CountCompleted, siteVars, txVars
    <2>7. Placed'
      BY <1>4, <2>1, <2>4, <2>5 DEF TypeOK, CountCompleted, Goto, Placed
    <2> QED
      BY <2>6, <2>7
  <1>5. ASSUME CountOutstanding(p) PROVE TypeOK' /\ Placed'
    <2> DEFINE b == NothingOutstanding(c, Rows(p))
    <2>1. b \in BOOLEAN
      BY DEF NothingOutstanding
    <2> HIDE DEF b
    <2>2. mem' = [mem EXCEPT ![p] = [mem[p] EXCEPT !.ready = b]]
      BY <1>5 DEF CountOutstanding, b, TypeOK
    <2>3. [mem[p] EXCEPT !.ready = b] \in Mem
      BY <1>1, <2>1 DEF Mem
    <2>4. TypeOK'
      BY <1>5, <2>2, <2>3 DEF TypeOK, CountOutstanding, Goto, Phase, InTx, siteVars, txVars
    <2>5. Placed'
      BY <1>5, <2>2, <1>1 DEF TypeOK, CountOutstanding, Goto, Placed, Mem, AtCourse, InTx
    <2> QED
      BY <2>4, <2>5
  <1>6. ASSUME CheckFinal(p) PROVE TypeOK' /\ Placed'
    <2> DEFINE b == mem[p].ready /\ FinalPassed(c)
    <2>1. b \in BOOLEAN
      OBVIOUS
    <2> HIDE DEF b
    <2>2. mem' = [mem EXCEPT ![p] = [mem[p] EXCEPT !.ready = b]]
      BY <1>6 DEF CheckFinal, b, TypeOK
    <2>3. [mem[p] EXCEPT !.ready = b] \in Mem
      BY <1>1, <2>1 DEF Mem
    <2>4. TypeOK'
      BY <1>6, <2>2, <2>3 DEF TypeOK, CheckFinal, Goto, Phase, InTx, siteVars, txVars
    <2>5. Placed'
      BY <1>6, <2>2, <1>1 DEF TypeOK, CheckFinal, Goto, Placed, Mem, AtCourse, InTx
    <2> QED
      BY <2>4, <2>5
  <1>7. ASSUME Commit(p) PROVE TypeOK' /\ Placed'
    <2>1. pc[p] \in AtCourse /\ c \in Course
      BY <1>7 DEF Commit, Placed, AtCourse, InTx
    <2> DEFINE done == Stamp(enroll[c].done, mem[p].ready)
    <2>2. enroll[c] \in Enrollment /\ done \in Nat
      BY <1>1, <2>1 DEF TypeOK, Enrollment, Stamp, Mem
    <2> HIDE DEF done
    <2>3. enroll' = [enroll EXCEPT ![c] = [enroll[c] EXCEPT !.count = mem[p].count, !.done = done]]
      BY <1>7 DEF Commit, done
    <2>4. enroll' \in [Course -> Enrollment]
      BY <1>1, <2>2, <2>3 DEF TypeOK, Enrollment, Mem
    <2>5. clock' \in Nat
      BY <1>7, <2>2 DEF TypeOK, Commit, done
    <2>6. progress' \in [Lesson -> Status]
      BY <1>7, Forms DEF Commit
    <2>7. /\ stale' \in [Course -> BOOLEAN]
          /\ lock' \in [Course -> Request \cup {None}]
      BY <1>7, <1>1 DEF TypeOK, Commit, Mem
    <2>8. /\ \E where \in {"idle", "each", "recounts"} : pc' = [pc EXCEPT ![p] = where]
          /\ mem' = mem \/ mem' = [mem EXCEPT ![p] = Blank]
      BY <1>7 DEF Commit, Back, Ended, Goto
    <2>9. pc' \in [Request -> Phase] /\ mem' \in [Request -> Mem]
      BY <2>8, Forms DEF TypeOK, Phase, Handlers
    <2>10. TypeOK'
      BY <1>7, <2>4, <2>5, <2>6, <2>7, <2>9 DEF TypeOK, Commit, siteVars
    <2>11. Placed'
      BY <2>8 DEF TypeOK, Placed, AtCourse, InTx
    <2> QED
      BY <2>10, <2>11
  <1> QED
    BY <1>2, <1>3, <1>4, <1>5, <1>6, <1>7 DEF TxStep
LEMMA AttemptType ==
    ASSUME TypeOK, Placed, NEW p \in Request, AttemptStep(p)
    PROVE  TypeOK' /\ Placed'
  <1> USE LearningAssumption
  <1>1. mem[p] \in Mem
    BY DEF TypeOK
  <1>2. ASSUME Ended(p), UNCHANGED <<siteVars, txVars, stale, upsets>>,
               attempt' \in [Quiz \X Number -> Attempt]
        PROVE  TypeOK' /\ Placed'
    <2>1. TypeOK'
      BY <1>2, Forms DEF TypeOK, Ended, Goto, Phase, siteVars, txVars
    <2>2. Placed'
      BY <1>2, PlacedByOne DEF Ended, Goto, TypeOK, AtCourse, InTx
    <2> QED
      BY <2>1, <2>2
  <1>3. ASSUME NEW where \in Phase \ AtCourse, NEW m \in Mem, Goto(p, where),
               mem' = [mem EXCEPT ![p] = m],
               UNCHANGED <<siteVars, attempt, txVars, stale, upsets>>
        PROVE  TypeOK' /\ Placed'
    <2>1. TypeOK'
      BY <1>3 DEF TypeOK, Goto, siteVars, txVars
    <2>2. Placed'
      BY <1>3, PlacedByOne DEF Goto, TypeOK
    <2> QED
      BY <2>1, <2>2
  <1>4. ASSUME CountAttempts(p) PROVE TypeOK' /\ Placed'
    <2> DEFINE n == Cardinality(Taken(mem[p].q))
               m == [mem[p] EXCEPT !.n = n + 1]
    <2>1. CASE n >= MaxAttempts
      BY <2>1, <1>4, <1>2 DEF CountAttempts, TypeOK
    <2>2. CASE ~(n >= MaxAttempts)
      <3>1. n \in Nat
        BY Counts
      <3>2. n + 1 \in Number
        BY <2>2, <3>1 DEF Number
      <3>3. m \in Mem
        BY <1>1, <3>2 DEF Mem
      <3>4. mem' = [mem EXCEPT ![p] = m] /\ Goto(p, "create")
        BY <1>4, <2>2 DEF CountAttempts, TypeOK
      <3>5. "create" \in Phase \ AtCourse
        BY DEF Phase, Handlers, AtCourse, InTx
      <3> HIDE DEF m, n
      <3> QED
        BY <1>4, <1>3, <3>3, <3>4, <3>5 DEF CountAttempts
    <2> QED
      BY <2>1, <2>2
  <1>5. ASSUME CreateAttempt(p) PROVE TypeOK' /\ Placed'
    <2>1. [NoAttempt EXCEPT !.st = "OPEN"] \in Attempt
      BY Forms DEF Attempt
    <2>2. attempt' \in [Quiz \X Number -> Attempt]
      BY <1>5, <2>1 DEF CreateAttempt, TypeOK
    <2> QED
      BY <1>5, <1>2, <2>2 DEF CreateAttempt
  <1>6. ASSUME WriteGrades(p) PROVE TypeOK' /\ Placed'
    <2> DEFINE a == <<mem[p].q, mem[p].n>>
    <2>1. ASSUME a \in Quiz \X Number
          PROVE  [attempt[a] EXCEPT !.grades = mem[p].grades] \in Attempt
      <3>1. attempt[a] \in Attempt
        BY <2>1 DEF TypeOK
      <3> HIDE DEF a
      <3> QED
        BY <1>1, <3>1 DEF Attempt, Mem
    <2>2. \/ attempt' = attempt
          \/ attempt' = [attempt EXCEPT ![a] = [attempt[a] EXCEPT !.grades = mem[p].grades]]
      BY <1>6 DEF WriteGrades
    <2> HIDE DEF a
    <2>3. attempt' \in [Quiz \X Number -> Attempt]
      BY <2>1, <2>2 DEF TypeOK
    <2> QED
      BY <1>6, <1>2, <2>3 DEF WriteGrades
  <1>7. ASSUME Finalise(p) PROVE TypeOK' /\ Placed'
    <2> DEFINE q == mem[p].q
               a == <<q, mem[p].n>>
               score == Right(mem[p].grades)
               passed == score >= PassMark
               moved == IF passed # attempt[a].passed THEN Finals(q) ELSE {}
               result == [attempt[a] EXCEPT !.st = "DONE", !.score = score, !.passed = passed]
    <2>1. CASE attempt[a].st = "ABSENT"
      BY <2>1, <1>7, <1>2 DEF Finalise, TypeOK
    <2>2. CASE attempt[a].st # "ABSENT"
      <3>1. score \in Nat /\ passed \in BOOLEAN
        BY Counts
      <3>2. moved \in SUBSET Course
        BY DEF Finals
      <3>3. ASSUME a \in Quiz \X Number PROVE result \in Attempt
        <4>1. attempt[a] \in Attempt
          BY <3>3 DEF TypeOK
        <4> HIDE DEF a, score, passed
        <4> QED
          BY <3>1, <4>1 DEF Attempt
      <3>4. attempt' = [attempt EXCEPT ![a] = result]
        BY <1>7, <2>2 DEF Finalise
      <3>5. /\ \E where \in {"lessons", "idle"} : pc' = [pc EXCEPT ![p] = where]
            /\ stale' = Moved(moved)
            /\ mem' = Unclean(moved) \/ mem' = [Unclean(moved) EXCEPT ![p] = Blank]
        BY <1>7, <2>2 DEF Finalise, Goto
      <3> HIDE DEF a, moved, result, score, passed
      <3>6. attempt' \in [Quiz \X Number -> Attempt]
        BY <3>3, <3>4 DEF TypeOK
      <3>7. mem' \in [Request -> Mem] /\ stale' \in [Course -> BOOLEAN]
        BY <3>2, <3>5, Forms
      <3>8. TypeOK'
        <4>1. pc' \in [Request -> Phase]
          BY <3>5 DEF TypeOK, Phase, Handlers
        <4>2. UNCHANGED <<siteVars, txVars, upsets>>
          BY <1>7 DEF Finalise
        <4> QED
          BY <3>6, <3>7, <4>1, <4>2 DEF TypeOK, siteVars, txVars
      <3>9. ASSUME NEW r \in Request \ {p}
            PROVE  mem'[r].c = mem[r].c /\ mem'[r].l = mem[r].l
        <4> DEFINE m == [mem[r] EXCEPT !.clean = FALSE]
        <4>1. m.c = mem[r].c /\ m.l = mem[r].l
          BY DEF TypeOK, Mem
        <4>2. mem'[r] = Unclean(moved)[r]
          BY <3>5 DEF Unclean
        <4> QED
          BY <4>1, <4>2 DEF Unclean
      <3>10. Placed'
        BY <3>5, <3>9, PlacedByOne DEF TypeOK, AtCourse, InTx
      <3> QED
        BY <3>8, <3>10
    <2> QED
      BY <2>1, <2>2
  <1>8. ASSUME FindLessons(p) PROVE TypeOK' /\ Placed'
    <2> DEFINE todo == {l \in live : QuizOf[l] = mem[p].q /\ quiz[mem[p].q] # "purged"}
               m == [mem[p] EXCEPT !.todo = todo]
    <2>1. m \in Mem
      BY <1>1 DEF TypeOK, Mem
    <2>2. mem' = [mem EXCEPT ![p] = m] /\ Goto(p, "each")
      BY <1>8 DEF FindLessons, TypeOK
    <2>3. "each" \in Phase \ AtCourse
      BY DEF Phase, Handlers, AtCourse, InTx
    <2> HIDE DEF m
    <2> QED
      BY <1>8, <1>3, <2>1, <2>2, <2>3 DEF FindLessons
  <1>9. ASSUME NEW l \in Lesson, CreditLesson(p, l) PROVE TypeOK' /\ Placed'
    <2> DEFINE m == [mem[p] EXCEPT !.op = "credit", !.l = l, !.c = CourseOf[l],
                                   !.clean = FALSE, !.todo = mem[p].todo \ {l}]
    <2>1. m \in Mem /\ m.l = l /\ m.c = CourseOf[l] /\ CourseOf[l] \in Course
      BY <1>1 DEF Mem
    <2>2. mem' = [mem EXCEPT ![p] = m] /\ pc' = [pc EXCEPT ![p] = "enroll"]
      BY <1>9 DEF CreditLesson, Goto
    <2> HIDE DEF m
    <2>3. TypeOK'
      BY <1>9, <2>1, <2>2 DEF CreditLesson, TypeOK, Phase, siteVars, txVars
    <2>4. Placed'
      BY <2>1, <2>2, PlacedByOne DEF TypeOK
    <2> QED
      BY <2>3, <2>4
  <1>10. ASSUME FindCourses(p) PROVE TypeOK' /\ Placed'
    <2> DEFINE m == [mem[p] EXCEPT !.courses = Finals(mem[p].q)]
    <2>1. m \in Mem
      BY <1>1 DEF Finals, Mem
    <2>2. mem' = [mem EXCEPT ![p] = m] /\ Goto(p, "recounts")
      BY <1>10 DEF FindCourses, TypeOK
    <2>3. "recounts" \in Phase \ AtCourse
      BY DEF Phase, Handlers, AtCourse, InTx
    <2> HIDE DEF m
    <2> QED
      BY <1>10, <1>3, <2>1, <2>2, <2>3 DEF FindCourses
  <1>11. ASSUME NEW c \in Course, RecountCourse(p, c) PROVE TypeOK' /\ Placed'
    <2> DEFINE rest == mem[p].courses \ {c}
               m1 == [mem[p] EXCEPT !.op = "recount", !.l = None, !.c = c,
                                    !.clean = FALSE, !.courses = rest]
               m2 == [mem[p] EXCEPT !.courses = rest]
    <2>1. CASE enroll[c].is
      <3>1. m1 \in Mem /\ m1.l = None /\ m1.c = c
        BY <1>1 DEF Mem
      <3>2. mem' = [mem EXCEPT ![p] = m1] /\ pc' = [pc EXCEPT ![p] = "lock"]
        BY <1>11, <2>1 DEF RecountCourse, Goto
      <3> HIDE DEF m1
      <3>3. TypeOK'
        BY <1>11, <3>1, <3>2 DEF RecountCourse, TypeOK, Phase, siteVars, txVars
      <3>4. Placed'
        BY <3>1, <3>2, PlacedByOne DEF TypeOK
      <3> QED
        BY <3>3, <3>4
    <2>2. CASE ~enroll[c].is
      <3>1. m2 \in Mem
        BY <1>1 DEF Mem
      <3>2. mem' = [mem EXCEPT ![p] = m2] /\ pc' = pc /\ pc[p] = "recounts"
        BY <1>11, <2>2 DEF RecountCourse, TypeOK
      <3>3. Goto(p, "recounts")
        BY <3>2 DEF TypeOK, Goto
      <3>4. "recounts" \in Phase \ AtCourse
        BY DEF Phase, Handlers, AtCourse, InTx
      <3> HIDE DEF m2
      <3> QED
        BY <1>11, <1>3, <3>1, <3>2, <3>3, <3>4 DEF RecountCourse
    <2> QED
      BY <2>1, <2>2
  <1>12. ASSUME PassApplied(p) PROVE TypeOK' /\ Placed'
    BY <1>12, <1>2 DEF PassApplied, TypeOK
  <1> QED
    BY <1>4, <1>5, <1>6, <1>7, <1>8, <1>9, <1>10, <1>11, <1>12 DEF AttemptStep

LEMMA WorldType ==
    ASSUME TypeOK, Placed, EditorNext \/ \E p \in Request : Die(p)
    PROVE  TypeOK' /\ Placed'
  <1> USE LearningAssumption
  <1>1. ASSUME NEW cs \in SUBSET Course, mem' = Unclean(cs), stale' = Moved(cs),
               UNCHANGED <<txVars, pc>>, live' \subseteq Lesson,
               quiz' \in [Quiz -> {"open", "hidden", "purged"}],
               attempt' \in [Quiz \X Number -> Attempt], Upset
        PROVE  TypeOK' /\ Placed'
    <2>1. mem' \in [Request -> Mem] /\ stale' \in [Course -> BOOLEAN]
      BY <1>1, Forms DEF Unclean, Moved, TypeOK, Mem
    <2>2. \A r \in Request : mem'[r].c = mem[r].c /\ mem'[r].l = mem[r].l
      BY <1>1 DEF Unclean, TypeOK, Mem
    <2>3. TypeOK'
      BY <1>1, <2>1 DEF TypeOK, Upset, txVars
    <2> QED
      BY <1>1, <2>2, <2>3 DEF Placed
  <1>2. ASSUME NEW l \in Lesson, PublishLesson(l) PROVE TypeOK' /\ Placed'
    <2>1. {CourseOf[l]} \in SUBSET Course
      OBVIOUS
    <2>2. live' \subseteq Lesson
      BY <1>2 DEF PublishLesson, TypeOK
    <2> QED
      BY <1>1, <1>2, <2>1, <2>2 DEF PublishLesson, TypeOK
  <1>3. ASSUME NEW q \in Quiz, PublishQuiz(q) PROVE TypeOK' /\ Placed'
    <2>1. Uses(q) \in SUBSET Course
      BY DEF Uses
    <2>2. quiz' \in [Quiz -> {"open", "hidden", "purged"}]
      BY <1>3 DEF PublishQuiz, TypeOK
    <2> QED
      BY <1>1, <1>3, <2>1, <2>2 DEF PublishQuiz, TypeOK
  <1>4. ASSUME NEW q \in Quiz, PurgeQuiz(q) PROVE TypeOK' /\ Placed'
    <2>1. Uses(q) \in SUBSET Course
      BY DEF Uses
    <2>2. /\ quiz' \in [Quiz -> {"open", "hidden", "purged"}]
          /\ attempt' \in [Quiz \X Number -> Attempt]
      BY <1>4, Counts DEF PurgeQuiz, TypeOK, NoAttempt, Attempt, NoGrades, Grades
    <2> QED
      BY <1>1, <1>4, <2>1, <2>2 DEF PurgeQuiz, TypeOK
  <1>5. ASSUME NEW p \in Request, Die(p) PROVE TypeOK' /\ Placed'
    <2>1. TypeOK'
      BY <1>5, Forms DEF Die, TypeOK, Upset, Goto, Phase, siteVars
    <2>2. Placed'
      BY <1>5, PlacedByOne DEF Die, Goto, TypeOK, AtCourse, InTx
    <2> QED
      BY <2>1, <2>2
  <1> QED
    BY <1>2, <1>3, <1>4, <1>5 DEF EditorNext

LEMMA TypeStep == TypeOK /\ Placed /\ [Next]_vars => TypeOK' /\ Placed'
  <1> SUFFICES ASSUME TypeOK, Placed, [Next]_vars PROVE TypeOK' /\ Placed'
    OBVIOUS
  <1>1. CASE Next
    BY <1>1, LearnerType, TxType, AttemptType, WorldType DEF Next, Step
  <1>2. CASE UNCHANGED vars
    BY <1>2 DEF TypeOK, Placed, vars, siteVars, txVars
  <1> QED
    BY <1>1, <1>2

\* Every variable of the learning side keeps its type: no attempt's number is more
\* than one past the limit (startQuizAttempt).
THEOREM Typing == Spec => []TypeOK
  <1>1. Spec => [](TypeOK /\ Placed)
    BY TypeInit, TypeStep, PTL DEF Spec
  <1> QED
    BY <1>1, PTL

-----------------------------------------------------------------------------
(***************************************************************************)
(* The counter and the date.  A commit writes what its transaction read    *)
(* earlier, so the invariant speaks of the reads: those of a transaction   *)
(* whose data has not moved since are still true, because it holds the     *)
(* lock on its course's row and no other writes that course's lessons.     *)
(***************************************************************************)
Held == \A p \in Request : pc[p] \in InTx => lock[mem[p].c] = p

\* An attempt that does not exist is not a pass.
AbsentFails ==
    \A q \in Quiz, n \in Number :
        attempt[<<q, n>>].st = "ABSENT" => ~attempt[<<q, n>>].passed

Reads(p) ==
    LET c == mem[p].c IN
    mem[p].clean =>
        /\ pc[p] \in {"outstanding", "final", "commit"} =>
              mem[p].count = Cardinality(Completed(c, Rows(p)))
        /\ pc[p] = "final" => (mem[p].ready <=> NothingOutstanding(c, Rows(p)))
        /\ pc[p] = "commit" =>
              (mem[p].ready <=> NothingOutstanding(c, Rows(p)) /\ FinalPassed(c))

ReadsAreTrue == \A p \in Request : Reads(p)

\* CounterIsTrue and DateIsTrue of one course.
CourseIsTrue(c) ==
    ~stale[c] =>
        /\ enroll[c].count = Cardinality(Completed(c, progress))
        /\ enroll[c].done # 0 <=> NothingOutstanding(c, progress) /\ FinalPassed(c)

CoursesAreTrue == \A c \in Course : CourseIsTrue(c)

Types == TypeOK /\ Placed
RecountInv == Held /\ AbsentFails /\ ReadsAreTrue /\ CoursesAreTrue

\* A step that leaves the rule of a course alone, and the rows of its lessons.
SameRule(c) ==
    /\ Published(c)' = Published(c)
    /\ Blocking(c)' = Blocking(c)
    /\ FinalPassed(c)' <=> FinalPassed(c)
SameRows(c) == \A l \in Lesson : CourseOf[l] = c => progress'[l] = progress[l]

LEMMA PublishedOf ==
    ASSUME TypeOK, NEW c
    PROVE  /\ \A l \in Published(c) : l \in Lesson /\ CourseOf[l] = c
           /\ Blocking(c) \subseteq Published(c)
  BY DEF TypeOK, Published, Blocking

\* Two views of the rows that agree on a course give the same answers.
LEMMA SameAnswers ==
    ASSUME TypeOK, NEW c, NEW before, NEW after, SameRule(c),
           \A l \in Lesson : CourseOf[l] = c => after[l] = before[l]
    PROVE  /\ {l \in Published(c)' : after[l] = "COMPLETED"} = Completed(c, before)
           /\ (Blocking(c)' # {} /\ \A l \in Blocking(c)' : after[l] = "COMPLETED")
                 <=> NothingOutstanding(c, before)
  BY PublishedOf DEF SameRule, Completed, NothingOutstanding

\* Unless a quiz's passes move, its attempts do not matter to a course.
LEMMA QuietRule ==
    ASSUME TypeOK, NEW c \in Course, live' = live, quiz' = quiz,
           FinalQuiz[c] # None /\ quiz[FinalQuiz[c]] = "open" =>
              \A n \in Number : attempt'[<<FinalQuiz[c], n>>].passed
                                 = attempt[<<FinalQuiz[c], n>>].passed
    PROVE  SameRule(c)
  BY DEF SameRule, Published, Blocking, FinalPassed, Passed

\* What a step does not touch of a course stays true.
LEMMA CourseStays ==
    ASSUME TypeOK, NEW c \in Course, CourseIsTrue(c), SameRows(c),
           enroll'[c].count = enroll[c].count, enroll'[c].done = enroll[c].done,
           ~stale'[c] => ~stale[c] /\ SameRule(c)
    PROVE  CourseIsTrue(c)'
  <1> SUFFICES ASSUME ~stale'[c]
               PROVE  /\ enroll'[c].count = Cardinality(Completed(c, progress)')
                      /\ enroll'[c].done # 0
                            <=> NothingOutstanding(c, progress)' /\ FinalPassed(c)'
    BY DEF CourseIsTrue
  <1>1. SameRule(c)
    OBVIOUS
  <1>2. /\ Completed(c, progress)' = Completed(c, progress)
        /\ NothingOutstanding(c, progress)' <=> NothingOutstanding(c, progress)
    <2> DEFINE after == progress'
    <2>1. /\ {l \in Published(c)' : after[l] = "COMPLETED"} = Completed(c, progress)
          /\ (Blocking(c)' # {} /\ \A l \in Blocking(c)' : after[l] = "COMPLETED")
                <=> NothingOutstanding(c, progress)
      BY <1>1, SameAnswers DEF SameRows
    <2> QED
      BY <2>1 DEF Completed, NothingOutstanding
  <1> QED
    BY <1>1, <1>2 DEF CourseIsTrue, SameRule

\* So do the reads of a request the step is not about.
LEMMA ReadsStay ==
    ASSUME TypeOK, NEW r \in Request, Reads(r), pc'[r] = pc[r],
           mem'[r].clean /\ pc[r] \in InTx =>
              /\ mem'[r] = mem[r]
              /\ SameRule(mem[r].c)
              /\ SameRows(mem[r].c)
    PROVE  Reads(r)'
  <1>1. CASE ~(mem'[r].clean /\ pc[r] \in InTx)
    BY <1>1 DEF Reads, InTx
  <1>2. CASE mem'[r].clean /\ pc[r] \in InTx
    <2>1. mem'[r] = mem[r] /\ SameRule(mem[r].c) /\ SameRows(mem[r].c)
      BY <1>2
    <2>2. /\ \A l \in Lesson : CourseOf[l] = mem[r].c => Rows(r)'[l] = Rows(r)[l]
      BY <2>1 DEF Rows, SameRows
    <2> DEFINE c == mem[r].c
               after == Rows(r)'
    <2>3. /\ {l \in Published(c)' : after[l] = "COMPLETED"} = Completed(c, Rows(r))
          /\ (Blocking(c)' # {} /\ \A l \in Blocking(c)' : after[l] = "COMPLETED")
                <=> NothingOutstanding(c, Rows(r))
      BY <2>1, <2>2, SameAnswers
    <2> QED
      BY <1>2, <2>1, <2>3 DEF Reads, Completed, NothingOutstanding, SameRule
  <1> QED
    BY <1>1, <1>2

\* A step of one request that moves no rule and no counter.
LEMMA QuietStep ==
    ASSUME Types, RecountInv, NEW p \in Request, NEW where \in Phase,
           UNCHANGED <<siteVars, progress, stale>>,
           \A c \in Course : enroll'[c].count = enroll[c].count /\ enroll'[c].done = enroll[c].done,
           \A q \in Quiz, n \in Number : attempt'[<<q, n>>].passed = attempt[<<q, n>>].passed,
           AbsentFails',
           pc' = [pc EXCEPT ![p] = where],
           \A r \in Request \ {p} : mem'[r] = mem[r],
           \A r \in Request \ {p} : pc[r] \in InTx => lock'[mem[r].c] = lock[mem[r].c],
           where \in InTx => lock'[mem'[p].c] = p,
           Reads(p)'
    PROVE  RecountInv'
  <1>1. Held'
    BY DEF Held, Types, TypeOK, RecountInv
  <1>2. \A c \in Course : SameRule(c) /\ SameRows(c)
    BY QuietRule, LearningAssumption DEF SameRows, Types, siteVars
  <1>3. CoursesAreTrue'
    <2> SUFFICES ASSUME NEW c \in Course PROVE CourseIsTrue(c)'
      BY DEF CoursesAreTrue
    <2> QED
      BY <1>2, CourseStays DEF RecountInv, CoursesAreTrue, Types
  <1>4. ReadsAreTrue'
    <2> SUFFICES ASSUME NEW r \in Request PROVE Reads(r)'
      BY DEF ReadsAreTrue
    <2>1. CASE r = p
      BY <2>1
    <2>2. CASE r # p
      <3>1. pc'[r] = pc[r] /\ mem'[r] = mem[r] /\ Reads(r)
        BY <2>2 DEF RecountInv, ReadsAreTrue, Types, TypeOK
      <3>2. pc[r] \in InTx => mem[r].c \in Course
        BY DEF Types, Placed, AtCourse
      <3> QED
        BY <1>2, <3>1, <3>2, ReadsStay DEF Types
    <2> QED
      BY <2>1, <2>2
  <1> QED
    BY <1>1, <1>3, <1>4 DEF RecountInv

\* A step that moves the data of some courses, and says so.
LEMMA MovingStep ==
    ASSUME Types, RecountInv, NEW cs \in SUBSET Course,
           UNCHANGED <<progress, enroll, lock>>,
           AbsentFails',
           stale' = Moved(cs),
           \A c \in Course \ cs : SameRule(c),
           \A r \in Request :
              \/ pc'[r] \notin InTx
              \/ pc'[r] = pc[r] /\ mem'[r] = Unclean(cs)[r]
    PROVE  RecountInv'
  <1>1. \A r \in Request : pc'[r] \in InTx =>
           /\ pc'[r] = pc[r] /\ mem[r].c \in Course /\ mem'[r].c = mem[r].c
           /\ mem'[r].clean => mem'[r] = mem[r] /\ mem[r].c \notin cs
    <2> SUFFICES ASSUME NEW r \in Request, pc'[r] \in InTx
                 PROVE  /\ pc'[r] = pc[r] /\ mem[r].c \in Course /\ mem'[r].c = mem[r].c
                        /\ mem'[r].clean => mem'[r] = mem[r] /\ mem[r].c \notin cs
      OBVIOUS
    <2>1. pc'[r] = pc[r] /\ mem'[r] = Unclean(cs)[r] /\ mem[r] \in Mem
      BY DEF Types, TypeOK
    <2>2. mem[r].c \in Course
      BY <2>1 DEF Types, Placed, AtCourse
    <2> DEFINE m == [mem[r] EXCEPT !.clean = FALSE]
    <2>3. m.c = mem[r].c /\ m.clean = FALSE
      BY <2>1 DEF Mem
    <2>4. mem'[r] = IF mem[r].c \in cs THEN m ELSE mem[r]
      BY <2>1 DEF Unclean
    <2> HIDE DEF m
    <2> QED
      BY <2>1, <2>2, <2>3, <2>4
  <1>2. Held'
    BY <1>1 DEF RecountInv, Held
  <1>3. CoursesAreTrue'
    <2> SUFFICES ASSUME NEW c \in Course PROVE CourseIsTrue(c)'
      BY DEF CoursesAreTrue
    <2>1. ~stale'[c] => ~stale[c] /\ SameRule(c)
      BY DEF Moved
    <2> QED
      BY <2>1, CourseStays DEF RecountInv, CoursesAreTrue, Types, SameRows
  <1>4. ReadsAreTrue'
    <2> SUFFICES ASSUME NEW r \in Request PROVE Reads(r)'
      BY DEF ReadsAreTrue
    <2>1. CASE pc'[r] \notin InTx
      BY <2>1 DEF Reads, InTx
    <2>2. CASE pc'[r] \in InTx
      <3>1. Reads(r)
        BY DEF RecountInv, ReadsAreTrue
      <3> QED
        BY <1>1, <2>2, <3>1, ReadsStay DEF Types, SameRows
    <2> QED
      BY <2>1, <2>2
  <1> QED
    BY <1>2, <1>3, <1>4 DEF RecountInv

\* A request that is not in its transaction after the step owes nothing to Reads.
LEMMA QuietOutside ==
    ASSUME Types, RecountInv, NEW p \in Request, NEW where \in Phase \ InTx,
           UNCHANGED <<siteVars, attempt, txVars, stale>>,
           pc' = [pc EXCEPT ![p] = where],
           \A r \in Request \ {p} : mem'[r] = mem[r]
    PROVE  RecountInv'
  <1>1. Reads(p)'
    BY DEF Reads, InTx, Types, TypeOK
  <1>2. AbsentFails'
    BY DEF AbsentFails, RecountInv
  <1> QED
    BY <1>1, <1>2, QuietStep DEF txVars

LEMMA RecountInit == Init => RecountInv
  <1> SUFFICES ASSUME Init PROVE RecountInv
    OBVIOUS
  <1>1. Held /\ ReadsAreTrue
    BY DEF Init, Held, ReadsAreTrue, Reads, InTx, Blank
  <1>2. AbsentFails
    BY DEF Init, AbsentFails, NoAttempt
  <1>3. CoursesAreTrue
    <2> SUFFICES ASSUME NEW c \in Course PROVE CourseIsTrue(c)
      BY DEF CoursesAreTrue
    <2>1. Completed(c, progress) = {}
      BY DEF Init, Completed, Published
    <2>2. ~NothingOutstanding(c, progress)
      BY DEF Init, NothingOutstanding, Blocking, Published
    <2> QED
      BY <2>1, <2>2, FS_EmptySet DEF Init, NoEnrollment, CourseIsTrue
  <1> QED
    BY <1>1, <1>2, <1>3 DEF RecountInv

LEMMA LearnerRecount ==
    ASSUME Types, RecountInv, LearnerNext
    PROVE  RecountInv'
  <1>1. \E p \in Request, where \in {"enroll", "number", "write", "finalise"} :
           /\ UNCHANGED <<siteVars, attempt, txVars, stale>>
           /\ pc' = [pc EXCEPT ![p] = where]
           /\ \E m : mem' = [mem EXCEPT ![p] = m]
    BY DEF LearnerNext, Ask, StartQuizAttempt, RecordQuizAnswer, SubmitQuizAttempt, Goto
  <1>2. {"enroll", "number", "write", "finalise"} \subseteq Phase \ InTx
    BY DEF Phase, Handlers, InTx
  <1>3. PICK p \in Request, where \in Phase \ InTx :
           /\ UNCHANGED <<siteVars, attempt, txVars, stale>>
           /\ pc' = [pc EXCEPT ![p] = where]
           /\ \E m : mem' = [mem EXCEPT ![p] = m]
    BY <1>1, <1>2
  <1>4. \A r \in Request \ {p} : mem'[r] = mem[r]
    BY <1>3 DEF Types, TypeOK
  <1> QED
    BY <1>3, <1>4, QuietOutside

\* What a request has read stays as it reads on.
LEMMA SameView ==
    ASSUME NEW p \in Request, UNCHANGED <<siteVars, attempt, progress>>,
           mem'[p].l = mem[p].l, mem'[p].op = mem[p].op, mem'[p].c = mem[p].c
    PROVE  /\ Completed(mem[p].c, Rows(p))' = Completed(mem[p].c, Rows(p))
           /\ NothingOutstanding(mem[p].c, Rows(p))' <=> NothingOutstanding(mem[p].c, Rows(p))
           /\ FinalPassed(mem[p].c)' <=> FinalPassed(mem[p].c)
  <1>1. Rows(p)' = Rows(p)
    BY DEF Rows
  <1> QED
    BY <1>1 DEF siteVars, Completed, NothingOutstanding, Published, Blocking, FinalPassed, Passed

LEMMA ReadingRecount ==
    ASSUME Types, RecountInv, NEW p \in Request,
           EnsureEnrollment(p) \/ TakeLock(p) \/ CountCompleted(p)
              \/ CountOutstanding(p) \/ CheckFinal(p)
    PROVE  RecountInv'
  <1> DEFINE c == mem[p].c
  <1>1. mem[p] \in Mem /\ Reads(p)
    BY DEF Types, TypeOK, RecountInv, ReadsAreTrue
  <1>2. pc[p] \in InTx => lock[c] = p
    BY DEF RecountInv, Held
  <1>3. ASSUME EnsureEnrollment(p) PROVE RecountInv'
    <2>1. /\ \A x \in Course : enroll'[x].count = enroll[x].count /\ enroll'[x].done = enroll[x].done
          /\ UNCHANGED <<siteVars, progress, stale, attempt, lock, mem>>
          /\ pc' = [pc EXCEPT ![p] = "lock"]
      BY <1>3 DEF EnsureEnrollment, Enrolled, Goto, Types, TypeOK, Enrollment
    <2>2. Reads(p)' /\ "lock" \in Phase \ InTx
      BY <2>1 DEF Reads, Types, TypeOK, Phase, InTx
    <2>3. AbsentFails'
      BY <2>1 DEF RecountInv, AbsentFails
    <2> QED
      BY <2>1, <2>2, <2>3, QuietStep
  <1>4. ASSUME TakeLock(p) PROVE RecountInv'
    <2>1. /\ UNCHANGED <<siteVars, progress, enroll, stale, attempt, mem>>
          /\ pc' = [pc EXCEPT ![p] = "count"]
          /\ lock' = [lock EXCEPT ![c] = p] /\ lock[c] = None
          /\ pc[p] = "lock"
      BY <1>4 DEF TakeLock, Goto
    <2>2. c \in Course
      BY <2>1 DEF Types, Placed, AtCourse
    <2>3. \A r \in Request \ {p} : pc[r] \in InTx => lock'[mem[r].c] = lock[mem[r].c]
      <3> SUFFICES ASSUME NEW r \in Request \ {p}, pc[r] \in InTx
                   PROVE  lock'[mem[r].c] = lock[mem[r].c]
        OBVIOUS
      <3>1. lock[mem[r].c] = r /\ mem[r].c \in Course
        BY DEF RecountInv, Held, Types, Placed, AtCourse
      <3>2. mem[r].c # c
        BY <2>1, <3>1, LearningAssumption
      <3> QED
        BY <2>1, <3>1, <3>2 DEF Types, TypeOK
    <2>4. lock'[mem'[p].c] = p
      BY <2>1, <2>2 DEF Types, TypeOK
    <2>5. Reads(p)' /\ "count" \in Phase
      BY <2>1 DEF Reads, Types, TypeOK, Phase, InTx
    <2>6. AbsentFails'
      BY <2>1 DEF RecountInv, AbsentFails
    <2> QED
      BY <2>1, <2>3, <2>4, <2>5, <2>6, QuietStep
  <1>5. ASSUME NEW where \in InTx, NEW m \in Mem, pc[p] \in InTx,
               UNCHANGED <<siteVars, attempt, txVars, stale>>,
               pc' = [pc EXCEPT ![p] = where], mem' = [mem EXCEPT ![p] = m],
               m.l = mem[p].l, m.op = mem[p].op, m.c = c, Reads(p)'
        PROVE  RecountInv'
    <2>1. AbsentFails'
      BY <1>5 DEF RecountInv, AbsentFails
    <2>2. lock'[mem'[p].c] = p
      BY <1>2, <1>5 DEF txVars, Types, TypeOK
    <2>3. where \in Phase
      BY DEF Phase
    <2>4. \A r \in Request \ {p} : mem'[r] = mem[r]
      BY <1>5 DEF Types, TypeOK
    <2> QED
      BY <1>5, <2>1, <2>2, <2>3, <2>4, QuietStep DEF txVars
  <1>6. ASSUME CountCompleted(p) PROVE RecountInv'
    <2> DEFINE n == Cardinality(Completed(c, Rows(p)))
               m == [mem[p] EXCEPT !.count = n, !.clean = TRUE]
    <2>1. n \in Nat
      BY <1>6, Counts DEF CountCompleted, Types, Placed, AtCourse, InTx
    <2> HIDE DEF n
    <2>2. m \in Mem /\ m.l = mem[p].l /\ m.op = mem[p].op /\ m.c = c /\ m.count = n
      BY <1>1, <2>1 DEF Mem
    <2>3. /\ mem' = [mem EXCEPT ![p] = m] /\ pc' = [pc EXCEPT ![p] = "outstanding"]
          /\ UNCHANGED <<siteVars, attempt, txVars, stale>> /\ pc[p] = "count"
      BY <1>6 DEF CountCompleted, Goto, n
    <2> HIDE DEF m
    <2>4. mem'[p] = m /\ pc'[p] = "outstanding"
      BY <2>3 DEF Types, TypeOK
    <2>5. n = Cardinality(Completed(c, Rows(p))')
      BY <2>2, <2>3, <2>4, SameView DEF n, txVars
    <2>6. Reads(p)'
      BY <2>2, <2>4, <2>5 DEF Reads, Completed
    <2> QED
      BY <1>5, <2>2, <2>3, <2>6 DEF InTx
  <1>7. ASSUME CountOutstanding(p) PROVE RecountInv'
    <2> DEFINE b == NothingOutstanding(c, Rows(p))
               m == [mem[p] EXCEPT !.ready = b]
    <2>1. b \in BOOLEAN
      BY DEF NothingOutstanding
    <2> HIDE DEF b
    <2>2. /\ m \in Mem /\ m.l = mem[p].l /\ m.op = mem[p].op /\ m.c = c
          /\ m.count = mem[p].count /\ m.clean = mem[p].clean /\ m.ready = b
      BY <1>1, <2>1 DEF Mem
    <2>3. /\ mem' = [mem EXCEPT ![p] = m] /\ pc' = [pc EXCEPT ![p] = "final"]
          /\ UNCHANGED <<siteVars, attempt, txVars, stale>> /\ pc[p] = "outstanding"
      BY <1>7 DEF CountOutstanding, Goto, b
    <2> HIDE DEF m
    <2>4. mem'[p] = m /\ pc'[p] = "final"
      BY <2>3 DEF Types, TypeOK
    <2>5. /\ Completed(c, Rows(p))' = Completed(c, Rows(p))
          /\ NothingOutstanding(c, Rows(p))' <=> b
      BY <2>2, <2>3, <2>4, SameView DEF b, txVars
    <2>6. Reads(p)'
      BY <1>1, <2>2, <2>3, <2>4, <2>5 DEF Reads
    <2> QED
      BY <1>5, <2>2, <2>3, <2>6 DEF InTx
  <1>8. ASSUME CheckFinal(p) PROVE RecountInv'
    <2> DEFINE b == mem[p].ready /\ FinalPassed(c)
               m == [mem[p] EXCEPT !.ready = b]
    <2>1. b \in BOOLEAN
      OBVIOUS
    <2> HIDE DEF b
    <2>2. /\ m \in Mem /\ m.l = mem[p].l /\ m.op = mem[p].op /\ m.c = c
          /\ m.count = mem[p].count /\ m.clean = mem[p].clean /\ m.ready = b
      BY <1>1, <2>1 DEF Mem
    <2>3. /\ mem' = [mem EXCEPT ![p] = m] /\ pc' = [pc EXCEPT ![p] = "commit"]
          /\ UNCHANGED <<siteVars, attempt, txVars, stale>> /\ pc[p] = "final"
      BY <1>8 DEF CheckFinal, Goto, b
    <2> HIDE DEF m
    <2>4. mem'[p] = m /\ pc'[p] = "commit"
      BY <2>3 DEF Types, TypeOK
    <2>5. /\ Completed(c, Rows(p))' = Completed(c, Rows(p))
          /\ NothingOutstanding(c, Rows(p))' <=> NothingOutstanding(c, Rows(p))
          /\ FinalPassed(c)' <=> FinalPassed(c)
      BY <2>2, <2>3, <2>4, SameView DEF txVars
    <2>6. Reads(p)'
      BY <1>1, <2>2, <2>3, <2>4, <2>5 DEF Reads, b
    <2> QED
      BY <1>5, <2>2, <2>3, <2>6 DEF InTx
  <1> QED
    BY <1>3, <1>4, <1>6, <1>7, <1>8

\* The commit writes the rows its transaction sees, and only those of its course.
LEMMA CommitRecount ==
    ASSUME Types, RecountInv, NEW p \in Request, Commit(p)
    PROVE  RecountInv'
  <1> DEFINE c == mem[p].c
             done == Stamp(enroll[c].done, mem[p].ready)
  <1>1. /\ mem[p] \in Mem /\ c \in Course /\ Reads(p) /\ lock[c] = p
        /\ mem[p].l # None => CourseOf[mem[p].l] = c
    BY DEF Commit, Types, TypeOK, Placed, AtCourse, InTx, RecountInv, ReadsAreTrue, Held
  <1>2. /\ UNCHANGED <<siteVars, attempt>>
        /\ progress' = Rows(p)
        /\ lock' = [lock EXCEPT ![c] = None]
        /\ stale' = [stale EXCEPT ![c] = ~mem[p].clean]
        /\ \E where \in {"idle", "each", "recounts"} : pc' = [pc EXCEPT ![p] = where]
        /\ mem' = mem \/ mem' = [mem EXCEPT ![p] = Blank]
    BY DEF Commit, Back, Ended, Goto
  <1>3. \A x \in Course : SameRule(x)
    BY <1>2, QuietRule, LearningAssumption DEF Types, siteVars
  <1>4. \A x \in Course \ {c} : SameRows(x)
    BY <1>1, <1>2, LearningAssumption DEF SameRows, Rows
  <1>5. enroll' = [enroll EXCEPT ![c] = [enroll[c] EXCEPT !.count = mem[p].count, !.done = done]]
    BY DEF Commit
  <1>6. Held'
    <2> SUFFICES ASSUME NEW r \in Request, pc'[r] \in InTx PROVE lock'[mem'[r].c] = r
      BY DEF Held
    <2>1. r # p /\ pc'[r] = pc[r] /\ mem'[r] = mem[r]
      BY <1>2 DEF Types, TypeOK, InTx
    <2>2. lock[mem[r].c] = r /\ mem[r].c \in Course
      BY <2>1 DEF RecountInv, Held, Types, Placed, AtCourse
    <2> QED
      BY <1>1, <1>2, <2>1, <2>2 DEF Types, TypeOK
  <1>7. AbsentFails'
    BY <1>2 DEF RecountInv, AbsentFails
  <1>8. ReadsAreTrue'
    <2> SUFFICES ASSUME NEW r \in Request PROVE Reads(r)'
      BY DEF ReadsAreTrue
    <2>1. CASE r = p
      BY <2>1, <1>2 DEF Reads, Types, TypeOK
    <2>2. CASE r # p
      <3>1. pc'[r] = pc[r] /\ mem'[r] = mem[r] /\ Reads(r)
        BY <2>2, <1>2 DEF Types, TypeOK, RecountInv, ReadsAreTrue
      <3>2. pc[r] \in InTx => mem[r].c \in Course /\ mem[r].c # c
        BY <1>1, <2>2 DEF RecountInv, Held, Types, Placed, AtCourse
      <3> QED
        BY <1>3, <1>4, <3>1, <3>2, ReadsStay DEF Types
    <2> QED
      BY <2>1, <2>2
  <1>9. CoursesAreTrue'
    <2> SUFFICES ASSUME NEW x \in Course PROVE CourseIsTrue(x)'
      BY DEF CoursesAreTrue
    <2>1. CASE x # c
      <3>1. enroll'[x] = enroll[x] /\ stale'[x] = stale[x] /\ CourseIsTrue(x)
        BY <2>1, <1>2, <1>5 DEF Types, TypeOK, RecountInv, CoursesAreTrue
      <3> QED
        BY <2>1, <3>1, <1>3, <1>4, CourseStays DEF Types
    <2>2. CASE x = c
      <3> SUFFICES ASSUME ~stale'[x] PROVE CourseIsTrue(x)'
        BY DEF CourseIsTrue
      <3>1. mem[p].clean
        BY <1>1, <1>2, <2>2 DEF Types, TypeOK, Mem
      <3>2. /\ mem[p].count = Cardinality(Completed(x, Rows(p)))
            /\ mem[p].ready <=> NothingOutstanding(x, Rows(p)) /\ FinalPassed(x)
        BY <1>1, <2>2, <3>1 DEF Reads, Commit
      <3>3. enroll'[x].count = mem[p].count /\ enroll'[x].done = done
        BY <1>1, <1>5, <2>2 DEF Types, TypeOK, Enrollment
      <3>4. done # 0 <=> mem[p].ready
        BY <1>1 DEF Stamp, Mem, Types, TypeOK
      <3> DEFINE after == progress'
      <3>5. /\ {l \in Published(x)' : after[l] = "COMPLETED"} = Completed(x, Rows(p))
            /\ (Blocking(x)' # {} /\ \A l \in Blocking(x)' : after[l] = "COMPLETED")
                  <=> NothingOutstanding(x, Rows(p))
        BY <1>2, <1>3, SameAnswers DEF Types
      <3>6. /\ Completed(x, progress)' = Completed(x, Rows(p))
            /\ NothingOutstanding(x, progress)' <=> NothingOutstanding(x, Rows(p))
        BY <3>5 DEF Completed, NothingOutstanding
      <3>7. FinalPassed(x)' <=> FinalPassed(x)
        BY <1>3 DEF SameRule
      <3> HIDE DEF c, done
      <3> QED
        BY <3>2, <3>3, <3>4, <3>6, <3>7 DEF CourseIsTrue
    <2> QED
      BY <2>1, <2>2
  <1> QED
    BY <1>6, <1>7, <1>8, <1>9 DEF RecountInv

\* The steps on the attempts that make no pass, and those on what a pass has to do.
LEMMA AttemptRecount ==
    ASSUME Types, RecountInv, NEW p \in Request, AttemptStep(p)
    PROVE  RecountInv'
  <1> USE LearningAssumption
  <1>1. ASSUME NEW where \in Phase \ InTx, pc' = [pc EXCEPT ![p] = where],
               UNCHANGED <<siteVars, txVars, stale>>,
               NEW m, mem' = [mem EXCEPT ![p] = m],
               \A q \in Quiz, n \in Number :
                  attempt'[<<q, n>>].passed = attempt[<<q, n>>].passed,
               AbsentFails'
        PROVE  RecountInv'
    <2>1. \A r \in Request \ {p} : mem'[r] = mem[r]
      BY <1>1 DEF Types, TypeOK
    <2>2. Reads(p)'
      BY <1>1 DEF Reads, InTx, Types, TypeOK
    <2> QED
      BY <1>1, <2>1, <2>2, QuietStep DEF txVars
  <1>2. /\ {"idle", "create", "each", "recounts", "enroll", "lock"} \subseteq Phase \ InTx
        /\ "lessons" \in Phase \ InTx
    BY DEF Phase, Handlers, InTx
  <1>3. ASSUME UNCHANGED <<siteVars, attempt, txVars, stale>>,
               NEW where \in Phase \ InTx, pc' = [pc EXCEPT ![p] = where],
               NEW m, mem' = [mem EXCEPT ![p] = m]
        PROVE  RecountInv'
    <2>1. \A r \in Request \ {p} : mem'[r] = mem[r]
      BY <1>3 DEF Types, TypeOK
    <2> QED
      BY <1>3, <2>1, QuietOutside
  <1>4. CASE CountAttempts(p)
    <2>1. /\ UNCHANGED <<siteVars, attempt, txVars, stale>>
          /\ \E where \in {"idle", "create"} : pc' = [pc EXCEPT ![p] = where]
          /\ \E m : mem' = [mem EXCEPT ![p] = m]
      BY <1>4 DEF CountAttempts, Ended, Goto
    <2> QED
      BY <2>1, <1>2, <1>3
  <1>5. CASE CreateAttempt(p)
    <2> DEFINE a == <<mem[p].q, mem[p].n>>
               new == [NoAttempt EXCEPT !.st = "OPEN"]
    <2>1. new.st = "OPEN" /\ new.passed = FALSE
      BY DEF NoAttempt
    <2>2. /\ UNCHANGED <<siteVars, txVars, stale>>
          /\ attempt' = attempt \/ (attempt[a].st = "ABSENT" /\ attempt' = [attempt EXCEPT ![a] = new])
          /\ pc' = [pc EXCEPT ![p] = "idle"]
          /\ mem' = [mem EXCEPT ![p] = Blank]
      BY <1>5 DEF CreateAttempt, Ended, Goto
    <2> HIDE DEF new, a
    <2>3. ASSUME NEW q \in Quiz, NEW n \in Number
          PROVE  /\ attempt'[<<q, n>>].passed = attempt[<<q, n>>].passed
                 /\ attempt'[<<q, n>>].st = "ABSENT" => ~attempt'[<<q, n>>].passed
      <3>1. attempt[<<q, n>>] \in Attempt
        BY DEF Types, TypeOK
      <3>2. attempt[<<q, n>>].st = "ABSENT" => attempt[<<q, n>>].passed = FALSE
        BY <3>1 DEF RecountInv, AbsentFails, Attempt
      <3>3. \/ attempt'[<<q, n>>] = attempt[<<q, n>>]
            \/ attempt[<<q, n>>].st = "ABSENT" /\ attempt'[<<q, n>>] = new
        BY <2>2 DEF Types, TypeOK
      <3> QED
        BY <2>1, <3>2, <3>3
    <2> QED
      BY <2>2, <2>3, <1>1, <1>2 DEF AbsentFails
  <1>6. CASE WriteGrades(p)
    <2> DEFINE a == <<mem[p].q, mem[p].n>>
               new == [attempt[a] EXCEPT !.grades = mem[p].grades]
    <2>1. /\ UNCHANGED <<siteVars, txVars, stale>>
          /\ attempt' = attempt \/ attempt' = [attempt EXCEPT ![a] = new]
          /\ pc' = [pc EXCEPT ![p] = "idle"]
          /\ mem' = [mem EXCEPT ![p] = Blank]
      BY <1>6 DEF WriteGrades, Ended, Goto
    <2>2. ASSUME NEW q \in Quiz, NEW n \in Number
          PROVE  /\ attempt'[<<q, n>>].passed = attempt[<<q, n>>].passed
                 /\ attempt'[<<q, n>>].st = "ABSENT" => ~attempt'[<<q, n>>].passed
      <3>1. attempt[<<q, n>>] \in Attempt
        BY DEF Types, TypeOK
      <3>2. a = <<q, n>> => new.passed = attempt[<<q, n>>].passed /\ new.st = attempt[<<q, n>>].st
        BY <3>1 DEF Attempt
      <3> HIDE DEF new, a
      <3>3. \/ attempt'[<<q, n>>] = attempt[<<q, n>>]
            \/ a = <<q, n>> /\ attempt'[<<q, n>>] = new
        BY <2>1 DEF Types, TypeOK
      <3> QED
        BY <3>2, <3>3 DEF RecountInv, AbsentFails
    <2> QED
      BY <2>1, <2>2, <1>1, <1>2 DEF AbsentFails
  <1>7. CASE Finalise(p)
    <2> DEFINE q == mem[p].q
               a == <<q, mem[p].n>>
               score == Right(mem[p].grades)
               passed == score >= PassMark
               moved == IF passed # attempt[a].passed THEN Finals(q) ELSE {}
               new == [attempt[a] EXCEPT !.st = "DONE", !.score = score, !.passed = passed]
    <2>1. CASE attempt[a].st = "ABSENT"
      <3>1. /\ UNCHANGED <<siteVars, attempt, txVars, stale>>
            /\ pc' = [pc EXCEPT ![p] = "idle"]
            /\ mem' = [mem EXCEPT ![p] = Blank]
        BY <1>7, <2>1 DEF Finalise, Ended, Goto
      <3> QED
        BY <3>1, <1>2, <1>3
    <2>2. CASE attempt[a].st # "ABSENT"
      <3>1. /\ UNCHANGED <<siteVars, txVars>>
            /\ attempt' = [attempt EXCEPT ![a] = new]
            /\ stale' = Moved(moved)
            /\ \E where \in {"lessons", "idle"} : pc' = [pc EXCEPT ![p] = where]
            /\ mem' = Unclean(moved) \/ mem' = [Unclean(moved) EXCEPT ![p] = Blank]
        BY <1>7, <2>2 DEF Finalise, Goto
      <3>2. moved \in SUBSET Course
        BY DEF Finals
      <3>3. ASSUME NEW x \in Quiz, NEW n \in Number
            PROVE  /\ attempt'[<<x, n>>].st = "ABSENT" => ~attempt'[<<x, n>>].passed
                   /\ \/ attempt'[<<x, n>>].passed = attempt[<<x, n>>].passed
                      \/ x = q /\ moved = Finals(q)
        <4>1. attempt[<<x, n>>] \in Attempt
          BY DEF Types, TypeOK
        <4>2. a = <<x, n>> => new.st = "DONE" /\ new.passed = passed /\ x = q
          BY <4>1 DEF Attempt
        <4>3. passed = attempt[a].passed \/ moved = Finals(q)
          OBVIOUS
        <4> HIDE DEF new, a, passed, moved, q
        <4>4. \/ attempt'[<<x, n>>] = attempt[<<x, n>>]
              \/ a = <<x, n>> /\ attempt'[<<x, n>>] = new
          BY <3>1 DEF Types, TypeOK
        <4> QED
          BY <4>2, <4>3, <4>4 DEF RecountInv, AbsentFails
      <3>4. AbsentFails'
        BY <3>3 DEF AbsentFails
      <3> HIDE DEF new, a, passed, moved
      <3>5. ASSUME NEW c \in Course \ moved PROVE SameRule(c)
        <4>1. CASE FinalQuiz[c] # None /\ quiz[FinalQuiz[c]] = "open"
          <5>1. FinalQuiz[c] \in Quiz /\ (FinalQuiz[c] = q => c \in Finals(q))
            BY <4>1 DEF Finals
          <5>2. \A n \in Number : attempt'[<<FinalQuiz[c], n>>].passed
                                  = attempt[<<FinalQuiz[c], n>>].passed
            BY <3>3, <5>1
          <5> QED
            BY <3>1, <5>2, QuietRule DEF siteVars, Types
        <4>2. CASE ~(FinalQuiz[c] # None /\ quiz[FinalQuiz[c]] = "open")
          BY <3>1, <4>2, QuietRule DEF siteVars, Types
        <4> QED
          BY <4>1, <4>2
      <3>6. \A r \in Request :
               \/ pc'[r] \notin InTx
               \/ pc'[r] = pc[r] /\ mem'[r] = Unclean(moved)[r]
        BY <3>1 DEF Types, TypeOK, InTx, Unclean
      <3> QED
        BY <3>1, <3>2, <3>4, <3>5, <3>6, MovingStep DEF txVars
    <2> QED
      BY <2>1, <2>2
  <1>8. CASE FindLessons(p) \/ FindCourses(p) \/ PassApplied(p)
    <2>1. /\ UNCHANGED <<siteVars, attempt, txVars, stale>>
          /\ \E where \in {"idle", "each", "recounts"} : pc' = [pc EXCEPT ![p] = where]
          /\ \E m : mem' = [mem EXCEPT ![p] = m]
      <3>1. CASE FindLessons(p)
        BY <3>1 DEF FindLessons, Goto
      <3>2. CASE FindCourses(p)
        BY <3>2 DEF FindCourses, Goto
      <3>3. CASE PassApplied(p)
        BY <3>3 DEF PassApplied, Ended, Goto
      <3> QED
        BY <1>8, <3>1, <3>2, <3>3
    <2> QED
      BY <2>1, <1>2, <1>3
  <1>9. ASSUME NEW l \in Lesson, CreditLesson(p, l) PROVE RecountInv'
    <2>1. /\ UNCHANGED <<siteVars, attempt, txVars, stale>>
          /\ pc' = [pc EXCEPT ![p] = "enroll"]
          /\ \E m : mem' = [mem EXCEPT ![p] = m]
      BY <1>9 DEF CreditLesson, Goto
    <2> QED
      BY <2>1, <1>2, <1>3
  <1>10. ASSUME NEW c \in Course, RecountCourse(p, c) PROVE RecountInv'
    <2>1. /\ UNCHANGED <<siteVars, attempt, txVars, stale>>
          /\ \E where \in {"lock", "recounts"} : pc' = [pc EXCEPT ![p] = where]
          /\ \E m : mem' = [mem EXCEPT ![p] = m]
      BY <1>10 DEF RecountCourse, Goto, Types, TypeOK
    <2> QED
      BY <2>1, <1>2, <1>3
  <1> QED
    BY <1>4, <1>5, <1>6, <1>7, <1>8, <1>9, <1>10 DEF AttemptStep

LEMMA WorldRecount ==
    ASSUME Types, RecountInv, EditorNext \/ \E p \in Request : Die(p)
    PROVE  RecountInv'
  <1> USE LearningAssumption
  <1>1. ASSUME NEW cs \in SUBSET Course, mem' = Unclean(cs), stale' = Moved(cs),
               UNCHANGED <<txVars, pc>>, \A c \in Course \ cs : SameRule(c), AbsentFails'
        PROVE  RecountInv'
    BY <1>1, MovingStep DEF txVars
  <1>2. ASSUME NEW l \in Lesson, PublishLesson(l) PROVE RecountInv'
    <2>1. {CourseOf[l]} \in SUBSET Course
      OBVIOUS
    <2>2. ASSUME NEW c \in Course \ {CourseOf[l]} PROVE SameRule(c)
      <3>1. Published(c)' = Published(c) /\ Blocking(c)' = Blocking(c)
        BY <1>2 DEF PublishLesson, Published, Blocking
      <3>2. FinalPassed(c)' <=> FinalPassed(c)
        BY <1>2 DEF PublishLesson, FinalPassed, Passed
      <3> QED
        BY <3>1, <3>2 DEF SameRule
    <2>3. AbsentFails'
      BY <1>2 DEF PublishLesson, AbsentFails, RecountInv
    <2> QED
      BY <1>1, <1>2, <2>1, <2>2, <2>3 DEF PublishLesson
  <1>3. ASSUME NEW q \in Quiz, UNCHANGED live,
               \A x \in Quiz \ {q} : quiz'[x] = quiz[x],
               \A x \in Quiz \ {q}, n \in Number : attempt'[<<x, n>>] = attempt[<<x, n>>],
               NEW c \in Course \ Uses(q)
        PROVE  SameRule(c)
    <2>1. Published(c)' = Published(c)
      BY <1>3 DEF Published
    <2>2. Blocking(c)' = Blocking(c)
      <3>1. ASSUME NEW l \in Published(c), QuizOf[l] # None
            PROVE  quiz'[QuizOf[l]] = quiz[QuizOf[l]]
        BY <1>3, <3>1, PublishedOf DEF Uses, Types
      <3> QED
        BY <2>1, <3>1 DEF Blocking
    <2>3. FinalPassed(c)' <=> FinalPassed(c)
      <3>1. CASE FinalQuiz[c] = None
        BY <3>1 DEF FinalPassed
      <3>2. CASE FinalQuiz[c] # None
        <4>1. FinalQuiz[c] \in Quiz \ {q}
          BY <3>2 DEF Uses
        <4>2. quiz'[FinalQuiz[c]] = quiz[FinalQuiz[c]]
          BY <1>3, <4>1
        <4>3. Passed(FinalQuiz[c])' <=> Passed(FinalQuiz[c])
          BY <1>3, <4>1 DEF Passed
        <4> QED
          BY <4>2, <4>3 DEF FinalPassed
      <3> QED
        BY <3>1, <3>2
    <2> QED
      BY <2>1, <2>2, <2>3 DEF SameRule
  <1>4. ASSUME NEW q \in Quiz, PublishQuiz(q) PROVE RecountInv'
    <2>1. Uses(q) \in SUBSET Course
      BY DEF Uses
    <2>2. \A c \in Course \ Uses(q) : SameRule(c)
      BY <1>3, <1>4 DEF PublishQuiz, Types, TypeOK
    <2>3. AbsentFails'
      BY <1>4 DEF PublishQuiz, AbsentFails, RecountInv
    <2> QED
      BY <1>1, <1>4, <2>1, <2>2, <2>3 DEF PublishQuiz
  <1>5. ASSUME NEW q \in Quiz, PurgeQuiz(q) PROVE RecountInv'
    <2>1. Uses(q) \in SUBSET Course
      BY DEF Uses
    <2>2. ASSUME NEW x \in Quiz, NEW n \in Number
          PROVE  attempt'[<<x, n>>] = IF x = q THEN NoAttempt ELSE attempt[<<x, n>>]
      BY <1>5 DEF PurgeQuiz
    <2>3. \A c \in Course \ Uses(q) : SameRule(c)
      BY <1>3, <1>5, <2>2 DEF PurgeQuiz, Types, TypeOK
    <2>4. AbsentFails'
      BY <2>2 DEF AbsentFails, RecountInv, NoAttempt
    <2> QED
      BY <1>1, <1>5, <2>1, <2>3, <2>4 DEF PurgeQuiz
  <1>6. ASSUME NEW p \in Request, Die(p) PROVE RecountInv'
    <2>1. /\ UNCHANGED <<siteVars, attempt, progress, enroll, stale>>
          /\ pc' = [pc EXCEPT ![p] = "dead"]
          /\ mem' = [mem EXCEPT ![p] = Blank]
          /\ lock' = [c \in Course |-> IF lock[c] = p THEN None ELSE lock[c]]
      BY <1>6 DEF Die, Goto
    <2>2. ASSUME NEW r \in Request \ {p}, pc[r] \in InTx
          PROVE  lock'[mem[r].c] = lock[mem[r].c]
      <3>1. lock[mem[r].c] = r /\ mem[r].c \in Course
        BY <2>2 DEF RecountInv, Held, Types, Placed, AtCourse
      <3> QED
        BY <2>1, <3>1
    <2>3. Reads(p)' /\ "dead" \in Phase \ InTx
      BY <2>1 DEF Reads, Types, TypeOK, Phase, InTx
    <2>4. AbsentFails'
      BY <2>1 DEF AbsentFails, RecountInv
    <2>5. \A r \in Request \ {p} : mem'[r] = mem[r]
      BY <2>1 DEF Types, TypeOK
    <2> QED
      BY <2>1, <2>2, <2>3, <2>4, <2>5, QuietStep
  <1> QED
    BY <1>2, <1>4, <1>5, <1>6 DEF EditorNext

LEMMA RecountStep == Types /\ RecountInv /\ [Next]_vars => RecountInv'
  <1> SUFFICES ASSUME Types, RecountInv, [Next]_vars PROVE RecountInv'
    OBVIOUS
  <1>1. CASE LearnerNext
    BY <1>1, LearnerRecount
  <1>2. ASSUME NEW p \in Request, TxStep(p) PROVE RecountInv'
    BY <1>2, ReadingRecount, CommitRecount DEF TxStep
  <1>3. ASSUME NEW p \in Request, AttemptStep(p) PROVE RecountInv'
    BY <1>3, AttemptRecount
  <1>4. CASE EditorNext \/ \E p \in Request : Die(p)
    BY <1>4, WorldRecount
  <1>5. CASE UNCHANGED vars
    <2>1. Held' /\ AbsentFails'
      BY <1>5 DEF RecountInv, Held, AbsentFails, vars, txVars
    <2>2. CoursesAreTrue'
      BY <1>5 DEF RecountInv, CoursesAreTrue, CourseIsTrue, Completed, NothingOutstanding,
                  Published, Blocking, FinalPassed, Passed, vars, siteVars, txVars
    <2>3. ReadsAreTrue'
      BY <1>5 DEF RecountInv, ReadsAreTrue, Reads, Rows, Completed, NothingOutstanding,
                  Published, Blocking, FinalPassed, Passed, vars, siteVars, txVars
    <2> QED
      BY <2>1, <2>2, <2>3 DEF RecountInv
  <1> QED
    BY <1>1, <1>2, <1>3, <1>4, <1>5 DEF Next, Step

LEMMA Recounts == Spec => [](Types /\ RecountInv)
  <1>1. Init => Types /\ RecountInv
    BY TypeInit, RecountInit DEF Types
  <1>2. Types /\ RecountInv /\ [Next]_vars => Types' /\ RecountInv'
    BY TypeStep, RecountStep DEF Types
  <1> QED
    BY <1>1, <1>2, PTL DEF Spec

\* For any number of requests at once, the counter of a course whose data has not
\* moved since its recount is the number of lessons completed (withEnrollmentLock).
THEOREM CounterAlways == Spec => []CounterIsTrue
  <1>1. Types /\ RecountInv => CounterIsTrue
    BY DEF RecountInv, CoursesAreTrue, CourseIsTrue, CounterIsTrue
  <1> QED
    BY <1>1, Recounts, PTL

\* So is its completion date that of a course finished by the rule
\* (recomputeCourseCompletion).
THEOREM DateAlways == Spec => []DateIsTrue
  <1>1. Types /\ RecountInv => DateIsTrue
    BY DEF RecountInv, CoursesAreTrue, CourseIsTrue, DateIsTrue
  <1> QED
    BY <1>1, Recounts, PTL

-----------------------------------------------------------------------------
(***************************************************************************)
(* What a step may do to a completed lesson and to a completion date.      *)
(***************************************************************************)
\* Only a commit writes the rows of lessons and courses.
LEMMA OnlyCommitWrites ==
    ASSUME TypeOK, [Next]_vars
    PROVE  \/ /\ progress' = progress
              /\ \A c \in Course : enroll'[c].done = enroll[c].done
           \/ \E p \in Request : Commit(p)
  <1> DEFINE Same == /\ progress' = progress
                     /\ \A c \in Course : enroll'[c].done = enroll[c].done
  <1>1. CASE LearnerNext
    BY <1>1 DEF LearnerNext, Ask, StartQuizAttempt, RecordQuizAnswer, SubmitQuizAttempt, txVars
  <1>2. ASSUME NEW p \in Request, TxStep(p) PROVE Same \/ Commit(p)
    <2>1. CASE EnsureEnrollment(p)
      BY <2>1 DEF EnsureEnrollment, Enrolled, TypeOK, Enrollment
    <2>2. CASE TakeLock(p) \/ CountCompleted(p) \/ CountOutstanding(p) \/ CheckFinal(p)
      BY <2>2 DEF TakeLock, CountCompleted, CountOutstanding, CheckFinal, txVars
    <2> QED
      BY <1>2, <2>1, <2>2 DEF TxStep
  <1>3. ASSUME NEW p \in Request, AttemptStep(p) PROVE Same
    BY <1>3 DEF AttemptStep, CountAttempts, CreateAttempt, WriteGrades, Finalise, FindLessons,
                CreditLesson, FindCourses, RecountCourse, PassApplied, txVars
  <1>4. CASE EditorNext \/ \E p \in Request : Die(p)
    BY <1>4 DEF EditorNext, PublishLesson, PublishQuiz, PurgeQuiz, Die, txVars
  <1>5. CASE UNCHANGED vars
    BY <1>5 DEF vars, txVars
  <1> QED
    BY <1>1, <1>2, <1>3, <1>4, <1>5 DEF Next, Step

\* A completed lesson stays completed until the learner undoes it (touchLesson).
THEOREM UndoAlways == Spec => OnlyUndoReopens
  <1> DEFINE Undone ==
        \A l \in Lesson : progress[l] = "COMPLETED" /\ progress'[l] # "COMPLETED" =>
           \E p \in Request : pc[p] = "commit" /\ mem[p].op = "incomplete" /\ mem[p].l = l
  <1>1. TypeOK /\ [Next]_vars => [Undone]_vars
    <2> SUFFICES ASSUME TypeOK, [Next]_vars PROVE Undone
      OBVIOUS
    <2>1. CASE progress' = progress
      BY <2>1
    <2>2. ASSUME NEW p \in Request, Commit(p) PROVE Undone
      BY <2>2 DEF Commit, Rows, Upserted
    <2> QED
      BY <2>1, <2>2, OnlyCommitWrites
  <1> QED
    BY <1>1, Typing, PTL DEF Spec, OnlyUndoReopens

\* A completion date is kept or cleared, never moved (recomputeCourseCompletion).
THEOREM FirstDateAlways == Spec => FirstDateStays
  <1> DEFINE Kept == \A c \in Course : enroll[c].done # 0 => enroll'[c].done \in {0, enroll[c].done}
  <1>1. TypeOK /\ [Next]_vars => [Kept]_vars
    <2> SUFFICES ASSUME TypeOK, [Next]_vars, NEW c \in Course, enroll[c].done # 0
                 PROVE  enroll'[c].done \in {0, enroll[c].done}
      OBVIOUS
    <2>1. CASE enroll'[c].done = enroll[c].done
      BY <2>1
    <2>2. ASSUME NEW p \in Request, Commit(p) PROVE enroll'[c].done \in {0, enroll[c].done}
      <3> DEFINE x == mem[p].c
                 done == Stamp(enroll[x].done, mem[p].ready)
      <3>1. enroll' = [enroll EXCEPT ![x] = [enroll[x] EXCEPT !.count = mem[p].count, !.done = done]]
        BY <2>2 DEF Commit
      <3>2. enroll[c] \in Enrollment
        BY DEF TypeOK
      <3>3. x = c => done \in {0, enroll[c].done}
        BY DEF Stamp
      <3> HIDE DEF x, done
      <3> QED
        BY <3>1, <3>2, <3>3 DEF TypeOK, Enrollment
    <2> QED
      BY <2>1, <2>2, OnlyCommitWrites
  <1> QED
    BY <1>1, Typing, PTL DEF Spec, FirstDateStays

-----------------------------------------------------------------------------
(***************************************************************************)
(* The limit on attempts: the number is refused before it is used, and the *)
(* number past the limit stays free.                                       *)
(***************************************************************************)
LimitInv ==
    /\ \A q \in Quiz : attempt[<<q, MaxAttempts + 1>>].st = "ABSENT"
    /\ \A p \in Request : pc[p] = "create" => mem[p].n <= MaxAttempts

LEMMA LimitStep == TypeOK /\ LimitInv /\ [Next]_vars => LimitInv'
  <1> SUFFICES ASSUME TypeOK, LimitInv, [Next]_vars PROVE LimitInv'
    OBVIOUS
  <1> USE LearningAssumption
  <1> DEFINE top == MaxAttempts + 1
  <1>1. top \in Number
    BY DEF Number
  <1>2. ASSUME NEW p \in Request, NEW where \in Phase \ {"create"},
               pc' = [pc EXCEPT ![p] = where],
               \A r \in Request \ {p} : mem'[r].n = mem[r].n,
               \A q \in Quiz : attempt'[<<q, top>>].st = "ABSENT"
        PROVE  LimitInv'
    BY <1>2 DEF LimitInv, TypeOK
  <1>3. {"enroll", "number", "write", "finalise", "idle", "lock", "dead", "lessons", "each",
         "recounts"} \cup InTx \subseteq Phase \ {"create"}
    BY DEF Phase, Handlers, InTx
  <1>4. ASSUME NEW p \in Request, NEW where \in Phase \ {"create"},
               pc' = [pc EXCEPT ![p] = where],
               mem' = mem \/ (\E m : mem' = [mem EXCEPT ![p] = m]),
               attempt' = attempt
        PROVE  LimitInv'
    <2>1. \A r \in Request \ {p} : mem'[r].n = mem[r].n
      BY <1>4 DEF TypeOK
    <2> QED
      BY <1>4, <2>1, <1>2 DEF LimitInv
  <1>5. CASE LearnerNext
    <2>1. \E p \in Request, where \in {"enroll", "number", "write", "finalise"} :
             /\ attempt' = attempt
             /\ pc' = [pc EXCEPT ![p] = where]
             /\ \E m : mem' = [mem EXCEPT ![p] = m]
      BY <1>5 DEF LearnerNext, Ask, StartQuizAttempt, RecordQuizAnswer, SubmitQuizAttempt, Goto
    <2> QED
      BY <2>1, <1>3, <1>4
  <1>6. ASSUME NEW p \in Request, TxStep(p) PROVE LimitInv'
    <2>1. \E where \in {"lock", "idle", "each", "recounts"} \cup InTx :
             /\ attempt' = attempt
             /\ pc' = [pc EXCEPT ![p] = where]
             /\ mem' = mem \/ (\E m : mem' = [mem EXCEPT ![p] = m])
      BY <1>6 DEF TxStep, EnsureEnrollment, TakeLock, CountCompleted, CountOutstanding,
                  CheckFinal, Commit, Back, Ended, Goto, InTx
    <2> QED
      BY <2>1, <1>3, <1>4
  <1>7. ASSUME NEW p \in Request, CountAttempts(p) PROVE LimitInv'
    <2> DEFINE n == Cardinality(Taken(mem[p].q))
    <2>1. CASE n >= MaxAttempts
      <3>1. attempt' = attempt /\ pc' = [pc EXCEPT ![p] = "idle"] /\ mem' = [mem EXCEPT ![p] = Blank]
        BY <1>7, <2>1 DEF CountAttempts, Ended, Goto
      <3> QED
        BY <3>1, <1>3, <1>4
    <2>2. CASE ~(n >= MaxAttempts)
      <3>1. n \in Nat /\ n + 1 <= MaxAttempts
        BY <2>2, Counts
      <3> DEFINE m == [mem[p] EXCEPT !.n = n + 1]
      <3>2. m.n = n + 1
        BY DEF TypeOK, Mem
      <3>3. attempt' = attempt /\ pc' = [pc EXCEPT ![p] = "create"] /\ mem' = [mem EXCEPT ![p] = m]
        BY <1>7, <2>2 DEF CountAttempts, Goto
      <3> HIDE DEF m, n
      <3> QED
        BY <3>1, <3>2, <3>3 DEF LimitInv, TypeOK
    <2> QED
      BY <2>1, <2>2
  <1>8. ASSUME NEW p \in Request, CreateAttempt(p) PROVE LimitInv'
    <2> DEFINE a == <<mem[p].q, mem[p].n>>
               new == [NoAttempt EXCEPT !.st = "OPEN"]
    <2>1. /\ attempt' = attempt \/ attempt' = [attempt EXCEPT ![a] = new]
          /\ pc' = [pc EXCEPT ![p] = "idle"] /\ mem' = [mem EXCEPT ![p] = Blank]
          /\ mem[p].n <= MaxAttempts
      BY <1>8 DEF CreateAttempt, Ended, Goto, LimitInv
    <2>2. \A q \in Quiz : a # <<q, top>>
      BY <2>1 DEF TypeOK, Mem, Number
    <2> HIDE DEF a, new
    <2>3. \A q \in Quiz : attempt'[<<q, top>>].st = "ABSENT"
      BY <2>1, <2>2, <1>1 DEF LimitInv, TypeOK
    <2>4. \A r \in Request \ {p} : mem'[r].n = mem[r].n
      BY <2>1 DEF TypeOK
    <2> QED
      BY <2>1, <2>3, <2>4, <1>2, <1>3
  <1>9. ASSUME NEW p \in Request, WriteGrades(p) PROVE LimitInv'
    <2> DEFINE a == <<mem[p].q, mem[p].n>>
               new == [attempt[a] EXCEPT !.grades = mem[p].grades]
    <2>1. /\ \/ attempt' = attempt
             \/ attempt[a].st # "ABSENT" /\ attempt' = [attempt EXCEPT ![a] = new]
          /\ pc' = [pc EXCEPT ![p] = "idle"] /\ mem' = [mem EXCEPT ![p] = Blank]
      BY <1>9 DEF WriteGrades, Ended, Goto
    <2> HIDE DEF a, new
    <2>2. \A q \in Quiz : attempt'[<<q, top>>].st = "ABSENT"
      BY <2>1, <1>1 DEF LimitInv, TypeOK
    <2>3. \A r \in Request \ {p} : mem'[r].n = mem[r].n
      BY <2>1 DEF TypeOK
    <2> QED
      BY <2>1, <2>2, <2>3, <1>2, <1>3
  <1>10. ASSUME NEW p \in Request, Finalise(p) PROVE LimitInv'
    <2> DEFINE q == mem[p].q
               a == <<q, mem[p].n>>
               score == Right(mem[p].grades)
               passed == score >= PassMark
               moved == IF passed # attempt[a].passed THEN Finals(q) ELSE {}
               new == [attempt[a] EXCEPT !.st = "DONE", !.score = score, !.passed = passed]
    <2>1. /\ \/ attempt' = attempt
             \/ attempt[a].st # "ABSENT" /\ attempt' = [attempt EXCEPT ![a] = new]
          /\ \E where \in {"idle", "lessons"} : pc' = [pc EXCEPT ![p] = where]
          /\ \/ mem' = [mem EXCEPT ![p] = Blank]
             \/ mem' = Unclean(moved) \/ mem' = [Unclean(moved) EXCEPT ![p] = Blank]
      BY <1>10 DEF Finalise, Ended, Goto
    <2> HIDE DEF a, new, moved
    <2>2. \A x \in Quiz : attempt'[<<x, top>>].st = "ABSENT"
      BY <2>1, <1>1 DEF LimitInv, TypeOK
    <2>3. \A r \in Request \ {p} : mem'[r].n = mem[r].n
      <3>1. \A r \in Request : [mem[r] EXCEPT !.clean = FALSE].n = mem[r].n
        BY DEF TypeOK, Mem
      <3> QED
        BY <2>1, <3>1 DEF TypeOK, Unclean
    <2> QED
      BY <2>1, <2>2, <2>3, <1>2, <1>3
  <1>11. ASSUME NEW p \in Request,
                \/ FindLessons(p)
                \/ \E l \in Lesson : CreditLesson(p, l)
                \/ FindCourses(p)
                \/ \E c \in Course : RecountCourse(p, c)
                \/ PassApplied(p)
         PROVE  LimitInv'
    <2>1. \E where \in {"each", "enroll", "recounts", "lock", "idle"} :
             /\ attempt' = attempt
             /\ pc' = [pc EXCEPT ![p] = where]
             /\ mem' = mem \/ (\E m : mem' = [mem EXCEPT ![p] = m])
      <3>1. CASE FindLessons(p)
        BY <3>1 DEF FindLessons, Goto
      <3>2. CASE \E l \in Lesson : CreditLesson(p, l)
        BY <3>2 DEF CreditLesson, Goto
      <3>3. CASE FindCourses(p)
        BY <3>3 DEF FindCourses, Goto
      <3>4. CASE \E c \in Course : RecountCourse(p, c)
        BY <3>4 DEF RecountCourse, Goto, TypeOK
      <3>5. CASE PassApplied(p)
        BY <3>5 DEF PassApplied, Ended, Goto
      <3> QED
        BY <1>11, <3>1, <3>2, <3>3, <3>4, <3>5
    <2> QED
      BY <2>1, <1>3, <1>4
  <1>12. ASSUME NEW p \in Request, Die(p) PROVE LimitInv'
    <2>1. attempt' = attempt /\ pc' = [pc EXCEPT ![p] = "dead"] /\ mem' = [mem EXCEPT ![p] = Blank]
      BY <1>12 DEF Die, Goto
    <2> QED
      BY <2>1, <1>3, <1>4
  <1>13. CASE EditorNext
    <2>1. \A r \in Request : [mem[r] EXCEPT !.clean = FALSE].n = mem[r].n
      BY DEF TypeOK, Mem
    <2>2. \A r \in Request : mem'[r].n = mem[r].n /\ pc' = pc
      BY <1>13, <2>1 DEF EditorNext, PublishLesson, PublishQuiz, PurgeQuiz, Unclean
    <2>3. \A q \in Quiz : attempt'[<<q, top>>].st = "ABSENT"
      <3>1. attempt' = attempt \/ \E x \in Quiz : PurgeQuiz(x)
        BY <1>13 DEF EditorNext, PublishLesson, PublishQuiz
      <3>2. ASSUME NEW x \in Quiz, PurgeQuiz(x), NEW q \in Quiz
            PROVE  attempt'[<<q, top>>].st = "ABSENT"
        <4>1. attempt'[<<q, top>>] = IF q = x THEN NoAttempt ELSE attempt[<<q, top>>]
          BY <3>2, <1>1 DEF PurgeQuiz
        <4> QED
          BY <4>1 DEF LimitInv, NoAttempt
      <3> QED
        BY <3>1, <3>2 DEF LimitInv
    <2> QED
      BY <2>2, <2>3 DEF LimitInv
  <1>14. CASE UNCHANGED vars
    BY <1>14 DEF LimitInv, vars
  <1> QED
    BY <1>5, <1>6, <1>7, <1>8, <1>9, <1>10, <1>11, <1>12, <1>13, <1>14
       DEF Next, Step, AttemptStep

\* For any number of requests at once, a learner has no more attempts at a quiz than
\* it allows (startQuizAttempt).
THEOREM AttemptsBoundedAlways == Spec => []AttemptsBounded
  <1>1. Init => LimitInv
    BY LearningAssumption DEF Init, LimitInv, NoAttempt, Number
  <1>2. TypeOK /\ LimitInv => AttemptsBounded
    <2> SUFFICES ASSUME TypeOK, LimitInv, NEW q \in Quiz
                 PROVE  Cardinality(Taken(q)) <= MaxAttempts
      BY DEF AttemptsBounded
    <2>1. Taken(q) \subseteq 1..MaxAttempts
      BY LearningAssumption DEF Taken, Number, LimitInv
    <2>2. IsFiniteSet(1..MaxAttempts) /\ Cardinality(1..MaxAttempts) = MaxAttempts
      BY FS_Interval, LearningAssumption
    <2> QED
      BY <2>1, <2>2, FS_Subset
  <1> QED
    BY <1>1, <1>2, LimitStep, Typing, PTL DEF Spec
=============================================================================
