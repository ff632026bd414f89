----------------------------- MODULE LLMSchemas -----------------------------
(***************************************************************************)
(* internal/llm/schemas.go and prompts.go: the schema sent with each       *)
(* prompt, which a strict provider makes the model keep to, and the        *)
(* Validate method GenerateJSON runs over each output it has decoded.      *)
(*                                                                         *)
(* Of a schema stay its list's minItems and maxItems and its enums; that   *)
(* the fields are there and are strings or integers is taken for granted.  *)
(***************************************************************************)
EXTENDS EvalCore

Items(least, most) == [least |-> least, most |-> most]
Fits(list, schema) == Len(list) \in schema.least..schema.most

NotBlank(drafts) == \A i \in DOMAIN drafts : drafts[i] # Blank

------------------------------------------------------------------------------
(* The schemas. *)

DimensionAnalysisSchema(limits) == Items(1, WithDefaults(limits).maxDimensions)

QuestionGenerationSchema(limits) == Items(1, WithDefaults(limits).maxCandidates)

WeightAssignmentSchema(limits, candidateCount) ==
  [least |-> candidateCount, most |-> candidateCount,
   weights |-> 0..WithDefaults(limits).maxSplit]

FitsWeights(ws, schema) ==
  Fits(ws, schema) /\ \A i \in DOMAIN ws : ws[i].weight \in schema.weights

QuestionSplittingSchema(splitCount) == Items(splitCount, splitCount)

BinaryJudgingSchema(questionCount) ==
  [least |-> questionCount, most |-> questionCount, answers |-> Answers]

FitsJudgments(judgments, schema) ==
  Fits(judgments, schema) /\ \A i \in DOMAIN judgments : judgments[i].answer \in schema.answers

------------------------------------------------------------------------------
(* The requests, of which only the schema they ask with is kept. *)

BuildDimensionAnalysisRequest(limits) == DimensionAnalysisSchema(WithDefaults(limits))
BuildQuestionGenerationRequest(limits) == QuestionGenerationSchema(WithDefaults(limits))

\* A weight for each candidate listed, a question for each point of the candidate's
\* weight, a judgment for each question listed.
BuildWeightAssignmentRequest(candidates, limits) ==
  WeightAssignmentSchema(WithDefaults(limits), Len(candidates))
BuildQuestionSplittingRequest(weight) == QuestionSplittingSchema(weight)
BuildBinaryJudgingRequest(questions) == BinaryJudgingSchema(Len(questions))

------------------------------------------------------------------------------
(* The Validate methods: the shape alone, under limits the output itself sets. *)

LimitsOf(list) == [f \in DOMAIN Defaults |-> Len(list)]

DimensionAnalysisOutputOK(drafts) == ValidDimensionGeneration(drafts, LimitsOf(drafts))
QuestionsOutputOK(drafts) == ValidQuestionGeneration(drafts, LimitsOf(drafts))
WeightAssignmentOutputOK(ws) == ValidWeightShape(ws)
BinaryJudgingOutputOK(judgments) == ValidJudgmentShape(judgments)
=============================================================================
