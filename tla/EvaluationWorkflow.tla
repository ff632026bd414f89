-------------------------- MODULE EvaluationWorkflow --------------------------
(***************************************************************************)
(* EvaluateAnswerWorkflow (internal/workflows/evaluate_answer.go): one     *)
(* binary_judging activity for each of the checklist's evaluation_runs,    *)
(* all at once, the majority per question, and what is left in the         *)
(* evaluations row.  See ChecklistWorkflow for what runs beside the        *)
(* workflow; the store is again the one-step store of Lifecycle, which     *)
(* EvaluationStore implements.                                             *)
(***************************************************************************)
EXTENDS LLMSchemas

CONSTANTS Questions,   \* the final questions of the checklist
          RunCounts,   \* values of evaluation_runs
          Outputs,     \* lists of judgments the model may answer with
          LLMErrors,   \* the kinds of error an LLM activity may end with
          MaxAttempts, MaxOrphans, NoError, NoDetails, NoFailure, NoScore

ASSUME RunCountsAssumption == RunCounts \subseteq Nat /\ \A n \in RunCounts : ValidEvaluationRuns(n, 0)

\* What decodes as the output of a judgment call, and as the ids of the questions.
ASSUME DataAssumption ==
  /\ \A output \in Outputs :
       output \in Seq([question : Nat, evidence : Texts, answer : STRING])
  /\ Questions \in Seq(Nat)

VARIABLES stage,    \* the stage the workflow waits in
          runs,     \* the checklist's evaluation_runs
          judged,   \* the result of each run's completed activity
          failing,  \* the failure being recorded, and its cause
          outcome,  \* how the workflow execution closed
          row,      \* the evaluations row, its judgments and its failure record
          task, bodies

vars == <<stage, runs, judged, failing, outcome, row, task, bodies>>

MaxRuns == DefaultMaxEvaluationRuns

StageNames == {"write_evaluation_input", "load_checklist", "binary_judging",
               "succeed_evaluation", "fail_evaluation"}

EvaluationTasks == StageNames \X (1..MaxRuns)

INSTANCE ActivityTasks WITH Tasks <- EvaluationTasks

ASSUME AttemptsAssumption == MaxAttempts \in Nat \ {0} /\ LLMErrors \subseteq ErrorKinds

\* No error is not an error.
ASSUME SentinelsAssumption ==
  /\ NoError # TimeoutError
  /\ \A k \in ErrorKinds, n \in 1..MaxAttempts : NoError # ToTemporalError(k, n)

StageTasks(s) == IF s = "binary_judging" THEN {s} \X (1..runs) ELSE {<<s, 1>>}

NotFailing == [record |-> NoFailure, cause |-> NoError]

StartFailure == [stage |-> "start_workflow", details |-> FailureDetails("infra_fatal", 1)]

NothingJudged == [r \in 1..MaxRuns |-> <<>>]

Running == [status |-> "running", judgments |-> NothingJudged, score |-> NoScore, failure |-> NoFailure]

------------------------------------------------------------------------------
Init == /\ stage = "start"
        /\ runs \in RunCounts
        /\ judged = NothingJudged
        /\ failing = NotFailing
        /\ outcome = "open"
        /\ row = Running
        /\ InitTasks

(* The workflow. *)

AllCompleted(s) == \A t \in StageTasks(s) : task[t].state = "completed"

\* Mutant: a failure is looked at once every other run has completed.
LastFailed(s, i) == /\ <<s, i>> \in StageTasks(s)
                    /\ task[<<s, i>>].state = "failed"
                    /\ \A t \in StageTasks(s) \ {<<s, i>>} : task[t].state = "completed"

\* The futures are read in the order of the runs; the first that failed is the cause.
FirstFailed(s, i) == /\ <<s, i>> \in StageTasks(s)
                     /\ task[<<s, i>>].state = "failed"
                     /\ \A j \in 1..(i - 1) : task[<<s, j>>].state = "completed"

Enter(s, ts) == /\ stage' = s
                /\ task' = Scheduled(ts)
                /\ UNCHANGED <<runs, judged, failing, outcome, row, bodies>>

\* failEvaluation: on a disconnected context.
FailEvaluation(s, cause) ==
  /\ failing' = [record |-> WorkflowFailureDetails(s, cause), cause |-> cause]
  /\ stage' = "fail_evaluation"
  /\ task' = Scheduled({<<"fail_evaluation", 1>>})
  /\ UNCHANGED <<runs, judged, outcome, row, bodies>>

Starts == stage = "start" /\ Enter("write_evaluation_input", {<<"write_evaluation_input", 1>>})

ActivityFails(s) ==
  /\ stage = s
  /\ \E i \in 1..MaxRuns : FirstFailed(s, i) /\ FailEvaluation(s, task[<<s, i>>].error)

InputWritten ==
  /\ stage = "write_evaluation_input"
  /\ AllCompleted(stage)
  /\ Enter("load_checklist", {<<"load_checklist", 1>>})

\* The checklist has succeeded (EvaluatedHasSucceeded of EvaluationStore); its
\* evaluation_runs are checked again.
ChecklistLoaded ==
  /\ stage = "load_checklist"
  /\ AllCompleted(stage)
  /\ IF ValidEvaluationRuns(runs, runs)
       THEN Enter("binary_judging", {"binary_judging"} \X (1..runs))
       ELSE FailEvaluation("load_checklist", WorkflowError("other"))

\* The judgments of the runs, in the order of the runs.
RunJudgments ==
  FlattenSeq([r \in 1..runs |-> [i \in DOMAIN judged[r] |->
    [run |-> r, question |-> judged[r][i].question,
     evidence |-> judged[r][i].evidence, answer |-> judged[r][i].answer]]])

\* AggregateJudgments, and the success the workflow asks for.
RunsJudged ==
  /\ stage = "binary_judging"
  /\ AllCompleted(stage)
  /\ IF ValidRunJudgments(Questions, RunJudgments, runs)
       THEN Enter("succeed_evaluation", {<<"succeed_evaluation", 1>>})
       ELSE FailEvaluation("score_checklist", WorkflowError("semantic"))

Close(o) == /\ stage' = "closed"
            /\ outcome' = o
            /\ UNCHANGED <<runs, judged, failing, row, task, bodies>>

Completes == stage = "succeed_evaluation" /\ AllCompleted(stage) /\ Close("completed")

FailureRecorded == stage = "fail_evaluation" /\ AllCompleted(stage) /\ Close("failed")

FailureNotRecorded == /\ stage = "fail_evaluation"
                      /\ task[<<"fail_evaluation", 1>>].state = "failed"
                      /\ Close("failed_unrecorded")

WorkflowStep == \/ Starts \/ InputWritten \/ ChecklistLoaded \/ RunsJudged
                \/ \E s \in StageNames \ {"fail_evaluation"} : ActivityFails(s)
                \/ Completes \/ FailureRecorded \/ FailureNotRecorded

------------------------------------------------------------------------------
(* The workers and the store. *)

StoreStages == {"succeed_evaluation", "fail_evaluation"}

Did(b, answer) == bodies' = (bodies \ {b}) \cup {[b EXCEPT !.did = answer]}

\* Store.FailEvaluation by an API handler that took the start for a failure.
StartFailureRecorded ==
  /\ row.status = "running"
  /\ row' = [row EXCEPT !.status = "failed", !.failure = StartFailure]
  /\ UNCHANGED <<stage, runs, judged, failing, outcome, task, bodies>>

Succeeded == [status |-> "succeeded", judgments |-> judged, failure |-> NoFailure,
              score |-> AggregateScore(Questions, RunJudgments, runs)]

Failed == [row EXCEPT !.status = "failed", !.failure = failing.record]

\* Mutant: the outcome is written over whatever the row holds.
CommitAnyway(b, new) == row' = new /\ Did(b, "ok")

\* SucceedEvaluation and FailEvaluation in one step: commit, or compare.
CommitOrCompare(b, new) ==
  \/ /\ row.status = "running"
     /\ row' = new
     /\ Did(b, "ok")
  \/ /\ row.status # "running"
     /\ Did(b, IF row = new THEN "ok" ELSE "conflict")
     /\ UNCHANGED row

CallsStore(b) ==
  /\ b.did = "nothing"
  /\ \/ b.task[1] = "succeed_evaluation" /\ CommitOrCompare(b, Succeeded)
     \/ b.task[1] = "fail_evaluation" /\ CommitOrCompare(b, Failed)
  /\ UNCHANGED <<stage, runs, judged, failing, outcome, task>>

Reports(b, error) == IF stage = "closed" THEN Crash(b) ELSE Report(b, error)

\* Mutant: the shape of the judgments is validated, not that they are of the questions.
AcceptsShape(judgments) == ValidJudgmentShape(judgments)

Accepts(judgments) == BinaryJudgingOutputOK(judgments) /\ ValidJudgments(Questions, judgments)

\* The workflow, while it runs, sees the result of the attempt that completed the task.
KeepResult(b, judgments) ==
  IF stage # "closed" /\ IsCurrent(b)
    THEN judged' = [judged EXCEPT ![b.task[2]] = judgments]
    ELSE UNCHANGED judged

\* JudgeAnswer, its validator included.
JudgeReturns(b) ==
  /\ b.task[1] = "binary_judging"
  /\ \E output \in Outputs :
       IF Accepts(output)
         THEN Reports(b, NoError) /\ KeepResult(b, output)
         ELSE Reports(b, ToTemporalError("semantic", b.attempt)) /\ UNCHANGED judged
  /\ UNCHANGED <<stage, runs, failing, outcome, row>>

\* The other activities, and every error a call to the model may end with.
Returns(b) ==
  LET s == b.task[1] IN
  {NoError : x \in {s} \cap {"write_evaluation_input", "load_checklist"}}
    \cup {NoError : x \in {b.did} \cap {"ok"}}
    \cup {ToTemporalError(k, b.attempt) : k \in IF s = "binary_judging" THEN LLMErrors ELSE {"other"}}

BodyReturns(b) ==
  /\ \E error \in Returns(b) : Reports(b, error)
  /\ UNCHANGED <<stage, runs, judged, failing, outcome, row>>

WorkerDies(b) == Crash(b) /\ UNCHANGED <<stage, runs, judged, failing, outcome, row>>

Server(t) == /\ stage # "closed"
             /\ Dispatch(t) \/ TimeOut(t)
             /\ UNCHANGED <<stage, runs, judged, failing, outcome, row>>

Next == \/ WorkflowStep
        \/ \E t \in EvaluationTasks : Server(t)
        \/ \E b \in bodies : CallsStore(b) \/ JudgeReturns(b) \/ BodyReturns(b) \/ WorkerDies(b)
        \/ StartFailureRecorded

Spec == Init /\ [][Next]_vars

\* As in ChecklistWorkflow: workers poll, timers fire, a body ends with its context.
Fairness == /\ WF_vars(WorkflowStep)
            /\ \A t \in EvaluationTasks : WF_vars(Server(t))
            /\ WF_vars(\E b \in Orphans : BodyReturns(b))

FairSpec == Spec /\ Fairness

------------------------------------------------------------------------------
(* Properties. *)

\* How the workflow closed agrees with the row, whoever else wrote to it.
OutcomeMatchesRow ==
  /\ outcome = "completed" => row.status = "succeeded"
  /\ outcome = "failed" => row.status = "failed" /\ row.failure = failing.record

YesRuns(q) == {r \in 1..runs : \E i \in DOMAIN judged[r] :
                 judged[r][i].question = q /\ judged[r][i].answer = "yes"}

\* A succeeded row has the judgments of all runs, those the workflow was given and
\* never one of an attempt it gave up on, and a question counts as failed exactly
\* when more runs answered it no than yes: with odd runs there is no tie.
ScoreIsTheMajority ==
  row.status = "succeeded" =>
    /\ AllCompleted("binary_judging")
    /\ row.judgments = judged
    /\ \A i \in DOMAIN Questions :
         LET yes == Cardinality(YesRuns(Questions[i])) IN
         (\E k \in DOMAIN row.score.failed : row.score.failed[k] = Questions[i])
           <=> runs - yes > yes
    /\ row.score.satisfied + Len(row.score.failed) = Len(Questions)

\* Judgments an activity accepted fit the schema they were asked for with, and those
\* of all runs can always be aggregated.
ScoringNeverFails ==
  /\ \A r \in 1..runs :
       judged[r] # <<>> => FitsJudgments(judged[r], BuildBinaryJudgingRequest(Questions))
  /\ failing # NotFailing => failing.record.stage # "score_checklist"

\* The workflow closes, whatever fails, times out or dies on the way.
WorkflowCloses == <>(stage = "closed")
==============================================================================
