----------------------------- MODULE MCLearning -----------------------------
(***************************************************************************)
(* Learning for TLC: a course of two lessons that ask for one quiz, which  *)
(* is the final quiz as well.  A lesson can be marked by hand too.         *)
(***************************************************************************)
EXTENDS Learning, TLC

CONSTANTS l1, l2, c1, q1

OneCourse == (l1 :> c1) @@ (l2 :> c1)
OneQuiz == (l1 :> q1) @@ (l2 :> q1)
FinalToo == c1 :> q1
=============================================================================
