------------------------------ MODULE EvalCore ------------------------------
(***************************************************************************)
(* internal/evalcore: the pure functions between the model's answers and   *)
(* the store.                                                              *)
(*                                                                         *)
(* A text is blank or not; one text stands for the fields of a record that *)
(* must not be blank (name, rubric and rationale of a dimension, and so    *)
(* on).  An id is the number in it: "d1", "c1" and "q1" are 1; 0 is blank. *)
(* A validator is a predicate; its error code is the one its stage has.    *)
(***************************************************************************)
EXTENDS Integers, Sequences, FiniteSets, SequencesExt

Blank == "blank"
Texts == {"text", Blank}
Answers == {"yes", "no"}

Defaults == [maxDimensions |-> 6, maxCandidates |-> 8, maxSplit |-> 4, maxFinal |-> 64]
DefaultMaxEvaluationRuns == 5

WithDefaults(limits) ==
  [f \in DOMAIN Defaults |-> IF limits[f] <= 0 THEN Defaults[f] ELSE limits[f]]

ValidLimits(limits) == WithDefaults(limits).maxSplit <= Defaults.maxSplit

ValidEvaluationRuns(runs, max) ==
  /\ runs > 0
  /\ runs % 2 = 1
  /\ runs <= (IF max <= 0 THEN DefaultMaxEvaluationRuns ELSE max)

\* No two records of list agree on their field f.
Distinct(list, f) == \A i, j \in DOMAIN list : list[i][f] = list[j][f] => i = j
Values(list, f) == {list[i][f] : i \in DOMAIN list}

------------------------------------------------------------------------------
(* Dimensions and candidate questions. *)

ValidDimensionGeneration(drafts, limits) ==
  /\ Len(drafts) \in 1..WithDefaults(limits).maxDimensions
  /\ \A i \in DOMAIN drafts : drafts[i] # Blank

AssignDimensionIDs(drafts) ==
  [i \in DOMAIN drafts |-> [id |-> i, ordinal |-> i, text |-> drafts[i]]]

ValidDimensions(dimensions, limits) ==
  /\ Len(dimensions) \in 1..WithDefaults(limits).maxDimensions
  /\ Distinct(dimensions, "id")
  /\ \A i \in DOMAIN dimensions : LET d == dimensions[i] IN
       d.id # 0 /\ d.ordinal > 0 /\ d.text # Blank

\* Mutant: the limit is off by one.
ValidQuestionGenerationPlusOne(drafts, limits) ==
  /\ Len(drafts) \in 1..(WithDefaults(limits).maxCandidates + 1)
  /\ \A i \in DOMAIN drafts : drafts[i] # Blank

ValidQuestionGeneration(drafts, limits) ==
  /\ Len(drafts) \in 1..WithDefaults(limits).maxCandidates
  /\ \A i \in DOMAIN drafts : drafts[i] # Blank

\* Mutant: the first number is skipped.
AssignAfterStart(dimension, start, drafts) ==
  [i \in DOMAIN drafts |-> [id |-> start + i, ordinal |-> start + i,
                            dimension |-> dimension, text |-> drafts[i]]]

AssignCandidateQuestionIDs(dimension, start, drafts) ==
  [i \in DOMAIN drafts |-> [id |-> start + i - 1, ordinal |-> start + i - 1,
                            dimension |-> dimension, text |-> drafts[i]]]

ValidCandidateQuestions(dimensions, candidates, limits) ==
  /\ candidates # <<>>
  /\ Distinct(candidates, "id")
  /\ \A i \in DOMAIN candidates : LET c == candidates[i] IN
       c.id # 0 /\ c.ordinal > 0 /\ c.text # Blank /\ c.dimension \in Values(dimensions, "id")
  /\ \A d \in Values(dimensions, "id") :
       Cardinality({i \in DOMAIN candidates : candidates[i].dimension = d})
         <= WithDefaults(limits).maxCandidates

------------------------------------------------------------------------------
(* Weights and splits. *)

ValidWeightShape(weights) ==
  /\ weights # <<>>
  /\ Distinct(weights, "candidate")
  /\ \A i \in DOMAIN weights : LET w == weights[i] IN
       w.candidate # 0 /\ w.text # Blank /\ w.weight \in 0..Defaults.maxSplit

\* One weight for each candidate, in any order.
ValidWeights(candidates, weights, limits) ==
  /\ WithDefaults(limits).maxSplit <= Defaults.maxSplit
  /\ ValidWeightShape(weights)
  /\ 0 \notin Values(candidates, "id") /\ Distinct(candidates, "id")
  /\ Values(weights, "candidate") = Values(candidates, "id")
  /\ \A i \in DOMAIN weights : weights[i].weight <= WithDefaults(limits).maxSplit

WeightOf(weights, c) ==
  (CHOOSE w \in {weights[i] : i \in DOMAIN weights} : w.candidate = c).weight

\* count[n] : the questions the first n weights stand for.
ProjectedFinalQuestionCount(weights) ==
  LET count[n \in 0..Len(weights)] ==
        IF n = 0 THEN 0
        ELSE IF weights[n].weight > 0 THEN count[n - 1] + weights[n].weight
        ELSE count[n - 1]
  IN count[Len(weights)]

\* Mutant: the projection counts questions, not their split parts.
ProjectionOfSources(weights, limits) ==
  Cardinality({i \in DOMAIN weights : weights[i].weight > 0}) <= WithDefaults(limits).maxFinal

ValidProjection(weights, limits) ==
  ProjectedFinalQuestionCount(weights) <= WithDefaults(limits).maxFinal

ValidSplitQuestions(split, expected) ==
  /\ split.candidate # 0
  /\ expected > 1
  /\ Len(split.questions) = expected
  /\ \A i \in DOMAIN split.questions : split.questions[i] # Blank

------------------------------------------------------------------------------
(* The final checklist. *)

ValidSplits(candidates, weights, splits) ==
  /\ Distinct(splits, "candidate")
  /\ \A i \in DOMAIN splits :
       /\ splits[i].candidate \in Values(candidates, "id")
       /\ ValidSplitQuestions(splits[i], WeightOf(weights, splits[i].candidate))

\* Mutant: a candidate of weight 0 stays.
PartsOfEvery(c, weights, splits) ==
  LET w == WeightOf(weights, c.id)
      split == CHOOSE s \in {splits[i] : i \in DOMAIN splits} : s.candidate = c.id
  IN IF w <= 1 THEN <<c.text>> ELSE split.questions

\* The texts of the final questions candidate c becomes.
PartsOf(c, weights, splits) ==
  LET w == WeightOf(weights, c.id)
      split == CHOOSE s \in {splits[i] : i \in DOMAIN splits} : s.candidate = c.id
  IN CASE w = 0 -> <<>>
       [] w = 1 -> <<c.text>>
       [] OTHER -> split.questions

FinalParts(candidates, weights, splits) ==
  FlattenSeq([i \in DOMAIN candidates |->
    LET c == candidates[i]
        parts == PartsOf(c, weights, splits)
    IN [k \in DOMAIN parts |-> [dimension |-> c.dimension, source |-> c.id, text |-> parts[k]]]])

Numbered(parts) ==
  [i \in DOMAIN parts |-> [id |-> i, ordinal |-> i, dimension |-> parts[i].dimension,
                           source |-> parts[i].source, text |-> parts[i].text]]

ValidFinalQuestions(dimensions, candidates, questions, limits) ==
  /\ Len(questions) \in 1..WithDefaults(limits).maxFinal
  /\ Distinct(questions, "id") /\ Distinct(questions, "ordinal")
  /\ \A i \in DOMAIN questions : LET q == questions[i] IN
       /\ q.id # 0 /\ q.ordinal > 0 /\ q.text # Blank
       /\ q.dimension \in Values(dimensions, "id")
       /\ \E j \in DOMAIN candidates :
            candidates[j].id = q.source /\ candidates[j].dimension = q.dimension

BuildError(code) == [error |-> code, questions |-> <<>>]

SplitsAreComplete(candidates, weights, splits) ==
  /\ ValidSplits(candidates, weights, splits)
  /\ \A i \in DOMAIN candidates :
       WeightOf(weights, candidates[i].id) > 1 => candidates[i].id \in Values(splits, "candidate")

\* The checks in the order of their early returns.
BuildFinalChecklist(dimensions, candidates, weights, splits, limits) ==
  LET final == Numbered(FinalParts(candidates, weights, splits)) IN
  IF ~ValidDimensions(dimensions, limits) THEN BuildError("invalid_dimension_analysis")
  ELSE IF ~ValidCandidateQuestions(dimensions, candidates, limits)
    THEN BuildError("invalid_question_generation")
  ELSE IF ~ValidWeights(candidates, weights, limits) THEN BuildError("invalid_weights")
  ELSE IF ~SplitsAreComplete(candidates, weights, splits) THEN BuildError("invalid_splits")
  ELSE IF ~ValidFinalQuestions(dimensions, candidates, final, limits)
    THEN BuildError("invalid_final_checklist")
  ELSE [error |-> "none", questions |-> final]

------------------------------------------------------------------------------
(* Judgments and scores. *)

ValidJudgmentShape(judgments) ==
  /\ judgments # <<>>
  /\ Distinct(judgments, "question")
  /\ \A i \in DOMAIN judgments : LET j == judgments[i] IN
       j.question # 0 /\ j.evidence # Blank /\ j.answer \in Answers

\* questions is the list of the final question ids.
ValidJudgments(questions, judgments) ==
  /\ ValidJudgmentShape(judgments)
  /\ questions # <<>> /\ IsInjective(questions) /\ 0 \notin ToSet(questions)
  /\ Values(judgments, "question") = ToSet(questions)

\* answer : a function from the questions to their answers.
ScoreChecklist(questions, answer) ==
  LET failed == FlattenSeq([i \in DOMAIN questions |->
                  IF answer[questions[i]] = "yes" THEN <<>> ELSE <<questions[i]>>])
  IN
  [satisfied |-> Len(questions) - Len(failed), total |-> Len(questions), failed |-> failed]

\* The judgments of a run, at their places in the list.
OfRun(runJudgments, run) ==
  [i \in {k \in DOMAIN runJudgments : runJudgments[k].run = run} |-> runJudgments[i]]

ValidRunJudgments(questions, runJudgments, runs) ==
  /\ ValidEvaluationRuns(runs, runs)
  /\ \A i \in DOMAIN runJudgments : runJudgments[i].run \in 1..runs
  /\ \A r \in 1..runs : ValidJudgments(questions, OfRun(runJudgments, r))

YesCount(runJudgments, q) ==
  Cardinality({i \in DOMAIN runJudgments :
                 runJudgments[i].question = q /\ runJudgments[i].answer = "yes"})

\* Mutant: half the runs are enough.
MajorityOrTie(runJudgments, runs, q) ==
  IF YesCount(runJudgments, q) >= runs \div 2 THEN "yes" ELSE "no"

Majority(runJudgments, runs, q) ==
  IF YesCount(runJudgments, q) > runs \div 2 THEN "yes" ELSE "no"

\* AggregateJudgments of valid judgments.
AggregateScore(questions, runJudgments, runs) ==
  ScoreChecklist(questions, [q \in ToSet(questions) |-> Majority(runJudgments, runs, q)])
=============================================================================
