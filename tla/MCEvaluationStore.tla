-------------------------- MODULE MCEvaluationStore --------------------------
(* Small instances of EvaluationStore: one question, three runs that do not   *)
(* agree; the same judgments in two orders, others, a wrong score, a missing  *)
(* run.                                                                       *)
EXTENDS EvaluationStore, TLC

\* The sessions are alike: no definition tells one from another.
Symmetry == Permutations(Sessions)

OneQuestion == <<1>>

J(run, answer) == [run |-> run, question |-> 1, evidence |-> "text", answer |-> answer]
Score(n) == [satisfied |-> n, total |-> 1, failed |-> IF n = 1 THEN <<>> ELSE <<1>>]

InOrder == [judgments |-> <<J(1, "yes"), J(2, "no"), J(3, "yes")>>, score |-> Score(1)]
Shuffled == [judgments |-> <<J(3, "yes"), J(1, "yes"), J(2, "no")>>, score |-> Score(1)]
Other == [judgments |-> <<J(1, "no"), J(2, "no"), J(3, "yes")>>, score |-> Score(0)]
WrongScore == [judgments |-> <<J(1, "no"), J(2, "no"), J(3, "yes")>>, score |-> Score(1)]
Incomplete == [judgments |-> <<J(1, "yes"), J(2, "yes")>>, score |-> Score(1)]

SmallContents == {InOrder, Shuffled, Other, WrongScore, Incomplete}
==============================================================================
