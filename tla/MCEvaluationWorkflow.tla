------------------------ MODULE MCEvaluationWorkflow ------------------------
(* Small instances of EvaluationWorkflow: one question, answered yes, no, twice, *)
(* or not at all but with another one in its place.                              *)
EXTENDS EvaluationWorkflow

OneQuestion == <<1>>

J(question, answer) == [question |-> question, evidence |-> "text", answer |-> answer]

SmallOutputs == {<<J(1, "yes")>>, <<J(1, "no")>>, <<J(1, "yes"), J(1, "no")>>, <<J(2, "yes")>>}
==============================================================================
