-------------------------- MODULE ChecklistPipeline --------------------------
(***************************************************************************)
(* The data of CreateChecklistWorkflow, from the limits the API process    *)
(* was configured with: what the model answers to each prompt, what the    *)
(* client, the activity and then the workflow accept of it, and what       *)
(* reaches the store.  The question_generation and question_splitting      *)
(* answers come in any order and are read in the order of the dimensions   *)
(* and of the candidates.  A refused answer ends the run in "failed": the  *)
(* errors are not retried (see ChecklistWorkflow for attempts).            *)
(***************************************************************************)
EXTENDS LLMSchemas, Config

CONSTANTS Environments,  \* the environments an API process may start in
          MaxAnswer,     \* bound: length of the lists the model answers with
          MaxWeight      \* bound: the largest weight the model answers with

ASSUME EnvironmentsAssumption ==
  \A e \in Environments, f \in DOMAIN Defaults : e[f] = Unset \/ e[f] \in Int

ASSUME BoundsAssumption == MaxAnswer \in Nat /\ MaxWeight \in Nat

VARIABLES stage, env, limits, dimensions, drafts, candidates, weights, splits, built

\* LLMActivity models the activities beside this data: ActivitiesProofs extends both
\* modules, so these names carry a prefix.
data == <<dimensions, drafts, candidates, weights, splits, built>>
pipelineVars == <<stage, env, limits, data>>

Lists == UNION {[1..n -> Texts] : n \in 0..MaxAnswer}

\* No answer yet, in drafts and in splits.
Pending == <<"pending">>

PipelineInit ==
  /\ stage = "configure"
  /\ env \in Environments
  /\ limits = Defaults
  /\ dimensions = <<>>
  /\ drafts = <<>>
  /\ candidates = <<>>
  /\ weights = <<>>
  /\ splits = <<>>
  /\ built = [error |-> "none", questions |-> <<>>]

Fail == stage' = "failed" /\ UNCHANGED <<env, limits, data>>

\* config.Load in main: the process serves under these limits, or exits.
Configure ==
  /\ stage = "configure"
  /\ IF LimitsLoad(env)
       THEN stage' = "validate_limits" /\ limits' = ConfiguredLimits(env)
       ELSE stage' = "exited" /\ UNCHANGED limits
  /\ UNCHANGED <<env, data>>

\* The first check of the workflow the process starts.
ValidateLimits ==
  /\ stage = "validate_limits"
  /\ stage' = IF ValidLimits(WithDefaults(limits)) THEN "dimension_analysis" ELSE "limits_refused"
  /\ UNCHANGED <<env, limits, data>>

AcceptsDimensions(answer) ==
  /\ DimensionAnalysisOutputOK(answer)
  /\ ValidDimensionGeneration(answer, limits)
  /\ ValidDimensions(AssignDimensionIDs(answer), limits)

\* AnalyzeDimensions; the workflow repeats its last check.
AnalyzeDimensions == \E answer \in Lists :
  LET ds == AssignDimensionIDs(answer) IN
  /\ stage = "dimension_analysis"
  /\ IF AcceptsDimensions(answer)
       THEN /\ stage' = "question_generation"
            /\ dimensions' = ds
            /\ drafts' = [i \in DOMAIN ds |-> Pending]
            /\ UNCHANGED <<env, limits, candidates, weights, splits, built>>
       ELSE Fail

AcceptsQuestions(answer) == QuestionsOutputOK(answer) /\ ValidQuestionGeneration(answer, limits)

\* One GenerateQuestionsForDimension answers; the others may or may not have.
GenerateQuestions == \E i \in DOMAIN drafts, answer \in Lists :
  /\ stage = "question_generation"
  /\ drafts[i] = Pending
  /\ IF AcceptsQuestions(answer)
       THEN /\ drafts' = [drafts EXCEPT ![i] = answer]
            /\ UNCHANGED <<stage, env, limits, dimensions, candidates, weights, splits, built>>
       ELSE Fail

\* The loop over the futures, in the order of the dimensions: collected[n] is what it
\* has after n of them.
Collected ==
  LET collected[n \in 0..Len(dimensions)] ==
        IF n = 0 THEN <<>>
        ELSE collected[n - 1] \o AssignCandidateQuestionIDs(
               dimensions[n].id, Len(collected[n - 1]) + 1, drafts[n])
  IN collected[Len(dimensions)]

CollectCandidates ==
  LET cs == Collected IN
  /\ stage = "question_generation"
  /\ \A i \in DOMAIN drafts : drafts[i] # Pending
  /\ IF ValidCandidateQuestions(dimensions, cs, limits)
       THEN /\ stage' = "weight_assignment"
            /\ candidates' = cs
            /\ UNCHANGED <<env, limits, dimensions, drafts, weights, splits, built>>
       ELSE Fail

\* The places of the candidates whose weight asks for a split.
ToSplit(ws) == {k \in DOMAIN candidates : WeightOf(ws, candidates[k].id) > 1}

\* The lists of weights the model may answer with: any weights for the candidates
\* in order, in reverse, without the last, or with the first twice.
Weight(c, w) == [candidate |-> c, text |-> "text", weight |-> w]
WeightLists ==
  LET n == Len(candidates) IN
  UNION {{[i \in 1..n |-> Weight(i, f[i])],
          [i \in 1..n |-> Weight(n + 1 - i, f[n + 1 - i])],
          [i \in 1..(n - 1) |-> Weight(i, f[i])],
          [i \in 1..(n + 1) |-> IF i = 1 THEN Weight(1, f[1]) ELSE Weight(i - 1, f[i - 1])]} :
         f \in [1..n -> 0..MaxWeight]}

AcceptsWeights(ws) == WeightAssignmentOutputOK(ws) /\ ValidWeights(candidates, ws, limits)

\* AssignWeights; then ValidateWeights again and the projected count in the workflow.
AssignWeights ==
  /\ stage = "weight_assignment"
  /\ \E ws \in WeightLists :
     IF AcceptsWeights(ws) /\ ValidProjection(ws, limits)
       THEN /\ stage' = "question_splitting"
            /\ weights' = ws
            /\ splits' = [k \in ToSplit(ws) |->
                           [candidate |-> candidates[k].id, questions |-> Pending]]
            /\ UNCHANGED <<env, limits, dimensions, drafts, candidates, built>>
       ELSE Fail

AcceptsSplit(c, answer) ==
  /\ QuestionsOutputOK(answer)
  /\ ValidSplitQuestions([candidate |-> c, questions |-> answer], WeightOf(weights, c))

\* One SplitQuestion answers.
SplitQuestion == \E i \in DOMAIN splits, answer \in Lists :
  /\ stage = "question_splitting"
  /\ splits[i].questions = Pending
  /\ IF AcceptsSplit(splits[i].candidate, answer)
       THEN /\ splits' = [splits EXCEPT ![i].questions = answer]
            /\ UNCHANGED <<stage, env, limits, dimensions, drafts, candidates, weights, built>>
       ELSE Fail

Build ==
  /\ stage = "question_splitting"
  /\ \A i \in DOMAIN splits : splits[i].questions # Pending
  /\ built' = BuildFinalChecklist(dimensions, candidates, weights, splits, limits)
  /\ stage' = IF built'.error = "none" THEN "succeed_checklist" ELSE "build_failed"
  /\ UNCHANGED <<env, limits, dimensions, drafts, candidates, weights, splits>>

PipelineNext ==
  \/ Configure \/ ValidateLimits
  \/ AnalyzeDimensions \/ GenerateQuestions \/ CollectCandidates
  \/ AssignWeights \/ SplitQuestion \/ Build

PipelineSpec == PipelineInit /\ [][PipelineNext]_pipelineVars

------------------------------------------------------------------------------
(* Properties. *)

\* The candidates of all dimensions are numbered 1, 2, 3 ... in the order of the
\* dimensions, in whatever order their questions came in.
CandidatesAreNumbered ==
  /\ \A k \in DOMAIN candidates : candidates[k].id = k /\ candidates[k].ordinal = k
  /\ \A j, k \in DOMAIN candidates : j <= k => candidates[j].dimension <= candidates[k].dimension

\* What the final checklist should be, said without building it: candidate c has
\* as many final questions as its weight, they stand in candidate order, and they
\* are numbered from 1 without a gap.
FinalQuestionsMatchWeights == stage = "succeed_checklist" =>
  LET final == built.questions IN
  /\ \A k \in DOMAIN candidates :
       Cardinality({i \in DOMAIN final : final[i].source = candidates[k].id})
         = WeightOf(weights, candidates[k].id)
  /\ \A i, j \in DOMAIN final : i <= j => final[i].source <= final[j].source
  /\ \A i \in DOMAIN final :
       /\ final[i].id = i /\ final[i].ordinal = i
       /\ candidates[final[i].source].dimension = final[i].dimension

\* Once the activities have answered, the only way to fail while building is that
\* every weight is 0: the projected count left no limit to hit, the splits fit.
BuildFailsOnlyWhenAllAreZero ==
  stage = "build_failed" => \A i \in DOMAIN weights : weights[i].weight = 0

\* The limits and the answers are checked in many places: in the configuration, in
\* the schema the provider keeps to, in the activity, over what the workflow has
\* collected and in the store.  None of them refuses what one before it let pass:
\* limits a process starts with are good for the workflow,
LimitsAgree == stage # "limits_refused"

\* an activity accepts an answer exactly when the answer fits the schema that was
\* sent, has no blank text and, for weights, names every candidate once,
SchemasAgree ==
  /\ stage = "dimension_analysis" => \A answer \in Lists :
       AcceptsDimensions(answer)
         <=> Fits(answer, BuildDimensionAnalysisRequest(limits)) /\ NotBlank(answer)
  /\ stage = "question_generation" => \A answer \in Lists :
       AcceptsQuestions(answer)
         <=> Fits(answer, BuildQuestionGenerationRequest(limits)) /\ NotBlank(answer)
  /\ stage = "weight_assignment" => \A ws \in WeightLists :
       AcceptsWeights(ws)
         <=> /\ FitsWeights(ws, BuildWeightAssignmentRequest(candidates, limits))
             /\ Values(ws, "candidate") = Values(candidates, "id")
  /\ stage = "question_splitting" => \A i \in DOMAIN splits, answer \in Lists :
       LET c == splits[i].candidate IN
       AcceptsSplit(c, answer)
         <=> Fits(answer, BuildQuestionSplittingRequest(WeightOf(weights, c))) /\ NotBlank(answer)

\* and what was accepted one answer at a time is accepted together.
StagesAgree ==
  /\ (stage = "question_generation" /\ \A i \in DOMAIN drafts : drafts[i] # Pending) =>
       ValidCandidateQuestions(dimensions, Collected, limits)
  /\ stage = "succeed_checklist" =>
       /\ ValidLimits(limits)
       /\ ValidDimensions(dimensions, limits)
       /\ ValidCandidateQuestions(dimensions, candidates, limits)
       /\ ValidWeights(candidates, weights, limits)
       /\ ValidFinalQuestions(dimensions, candidates, built.questions, limits)

\* All of these at once: no check turns down what an earlier one let pass.
ChecksAgree == LimitsAgree /\ SchemasAgree /\ StagesAgree
==============================================================================
