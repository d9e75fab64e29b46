SPECIFICATION FairSpec
CONSTANTS
    l1 = l1  l2 = l2  c1 = c1  q1 = q1
    Lesson = {l1, l2}
    Course = {c1}
    Quiz = {q1}
    CourseOf <- OneCourse
    Required = {l1, l2}
    QuizOf <- OneQuiz
    FinalQuiz <- FinalToo
    Question = {k1}
    PassMark = 1
    MaxAttempts = 1
    Request = {p1, p2}
    None = None
    Ops = {"touch", "complete", "incomplete", "start", "answer", "submit"}
    Events = {"crash", "publish", "purge"}
    MaxUpsets = 5
CHECK_DEADLOCK FALSE
INVARIANTS CounterIsTrue DateIsTrue AttemptsBounded
PROPERTIES FirstDateStays OnlyUndoReopens PassReaches
