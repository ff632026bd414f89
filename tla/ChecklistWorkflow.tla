-------------------------- MODULE ChecklistWorkflow --------------------------
(***************************************************************************)
(* CreateChecklistWorkflow (internal/workflows/create_checklist.go): its   *)
(* stages, the activities each one schedules and waits for, and what it    *)
(* leaves in the checklists row.                                           *)
(*                                                                         *)
(* The workflow's own code runs from one wait to the next without          *)
(* interruption; between waits the server, the workers, bodies that were   *)
(* given up on and an API handler that took the start for a failure do     *)
(* what they like.  The store is the one-step store of Lifecycle, which    *)
(* ChecklistStore implements.  What the model and the validators answer is *)
(* any outcome the code distinguishes; ChecklistPipeline has the data.     *)
(***************************************************************************)
EXTENDS Integers, FiniteSets

CONSTANTS MaxFanOut,    \* bound: dimensions, and candidates that need a split
          LLMErrors,    \* the kinds of error an LLM activity may end with
          MaxAttempts, MaxOrphans, NoError, NoDetails, NoFailure

ASSUME AttemptsAssumption == MaxAttempts \in Nat \ {0}

VARIABLES stage,     \* the stage the workflow waits in
          fanOut,    \* the number of tasks of each fan-out stage
          ordered,   \* whether the weights came in candidate order
          failing,   \* the failure being recorded, and its cause
          outcome,   \* how the workflow execution closed
          row,       \* the checklists row and its failure record
          task, bodies

vars == <<stage, fanOut, ordered, failing, outcome, row, task, bodies>>

FanOutStages == {"question_generation", "question_splitting"}
StageNames == {"write_checklist_inputs", "dimension_analysis", "weight_assignment",
               "succeed_checklist", "fail_checklist"} \cup FanOutStages

ChecklistTasks == StageNames \X (1..MaxFanOut)

INSTANCE ActivityTasks WITH Tasks <- ChecklistTasks

ASSUME BoundsAssumption == MaxFanOut \in Nat \ {0} /\ LLMErrors \subseteq ErrorKinds

\* No error and no details are not an error or details.
ASSUME SentinelsAssumption ==
  /\ NoError # TimeoutError
  /\ \A k \in ErrorKinds, n \in 1..MaxAttempts :
       NoError # ToTemporalError(k, n) /\ NoDetails # FailureDetails(k, n)

StageTasks(s) == IF s \in FanOutStages THEN {s} \X (1..fanOut[s]) ELSE {<<s, 1>>}

NotFailing == [record |-> NoFailure, cause |-> NoError]

StartFailure == [stage |-> "start_workflow", details |-> FailureDetails("infra_fatal", 1)]

------------------------------------------------------------------------------
Init == /\ stage = "validate_limits"
        /\ fanOut = [s \in FanOutStages |-> 0]
        /\ ordered \in BOOLEAN
        /\ failing = NotFailing
        /\ outcome = "open"
        /\ row = [status |-> "running", failure |-> NoFailure]
        /\ InitTasks

(* The workflow. *)

\* Mutant: the error of an awaited future is dropped.
AllEnded(s) == \A t \in StageTasks(s) : task[t].state \in {"completed", "failed"}

AllCompleted(s) == \A t \in StageTasks(s) : task[t].state = "completed"

\* Mutant: errors are looked at once every other future has completed.
LastFailed(s, i) == /\ <<s, i>> \in StageTasks(s)
                    /\ task[<<s, i>>].state = "failed"
                    /\ \A t \in StageTasks(s) \ {<<s, i>>} : task[t].state = "completed"

\* Mutant: whichever future failed is the cause, completed predecessors or not.
AnyFailed(s, i) == <<s, i>> \in StageTasks(s) /\ task[<<s, i>>].state = "failed"

\* The futures of a stage are read in order; the first one that failed is the cause.
FirstFailed(s, i) == /\ <<s, i>> \in StageTasks(s)
                     /\ task[<<s, i>>].state = "failed"
                     /\ \A j \in 1..(i - 1) : task[<<s, j>>].state = "completed"

Enter(s, ts) == /\ stage' = s
                /\ task' = Scheduled(ts)
                /\ UNCHANGED <<failing, outcome, row, bodies, ordered>>

\* failChecklist: on a disconnected context, so whatever else is going on.
FailChecklist(s, cause) ==
  /\ failing' = [record |-> WorkflowFailureDetails(s, cause), cause |-> cause]
  /\ stage' = "fail_checklist"
  /\ task' = Scheduled({<<"fail_checklist", 1>>})
  /\ UNCHANGED <<fanOut, ordered, outcome, row, bodies>>

ValidateLimits ==
  /\ stage = "validate_limits"
  /\ \/ Enter("write_checklist_inputs", {<<"write_checklist_inputs", 1>>}) /\ UNCHANGED fanOut
     \/ FailChecklist("validate_limits", WorkflowError("other"))

ActivityFails(s) ==
  /\ stage = s
  /\ \E i \in 1..MaxFanOut : FirstFailed(s, i) /\ FailChecklist(s, task[<<s, i>>].error)

\* The validators the workflow runs itself once the stage's results are in.
ValidatorRejects(s, reported) ==
  /\ stage = s
  /\ AllCompleted(s)
  /\ FailChecklist(reported, WorkflowError("semantic"))

InputsWritten ==
  /\ stage = "write_checklist_inputs"
  /\ AllCompleted(stage)
  /\ Enter("dimension_analysis", {<<"dimension_analysis", 1>>})
  /\ UNCHANGED fanOut

\* One question_generation activity for each dimension, all at once.
DimensionsAnalyzed ==
  /\ stage = "dimension_analysis"
  /\ AllCompleted(stage)
  /\ \E n \in 1..MaxFanOut :
       /\ fanOut' = [fanOut EXCEPT !["question_generation"] = n]
       /\ Enter("question_generation", {"question_generation"} \X (1..n))

QuestionsGenerated ==
  /\ stage = "question_generation"
  /\ AllCompleted(stage)
  /\ Enter("weight_assignment", {<<"weight_assignment", 1>>})
  /\ UNCHANGED fanOut

\* One question_splitting activity for each candidate of weight 2 or more.
WeightsAssigned ==
  /\ stage = "weight_assignment"
  /\ AllCompleted(stage)
  /\ \E n \in 0..MaxFanOut :
       /\ fanOut' = [fanOut EXCEPT !["question_splitting"] = n]
       /\ Enter("question_splitting", {"question_splitting"} \X (1..n))

ChecklistBuilt ==
  /\ stage = "question_splitting"
  /\ AllCompleted(stage)
  /\ Enter("succeed_checklist", {<<"succeed_checklist", 1>>})
  /\ UNCHANGED fanOut

Close(o) == /\ stage' = "closed"
            /\ outcome' = o
            /\ UNCHANGED <<fanOut, ordered, failing, row, task, bodies>>

Completes == /\ stage = "succeed_checklist"
             /\ AllCompleted(stage)
             /\ Close("completed")

\* failChecklist returns the cause, or the error of its own activity.
FailureRecorded == /\ stage = "fail_checklist"
                   /\ AllCompleted(stage)
                   /\ Close("failed")

FailureNotRecorded == /\ stage = "fail_checklist"
                      /\ task[<<"fail_checklist", 1>>].state = "failed"
                      /\ Close("failed_unrecorded")

WorkflowStep ==
  \/ ValidateLimits
  \/ \E s \in StageNames \ {"fail_checklist"} : ActivityFails(s)
  \/ ValidatorRejects("dimension_analysis", "dimension_analysis")
  \/ ValidatorRejects("question_generation", "question_generation")
  \/ ValidatorRejects("weight_assignment", "weight_assignment")
  \/ ValidatorRejects("question_splitting", "build_final_checklist")
  \/ InputsWritten \/ DimensionsAnalyzed \/ QuestionsGenerated \/ WeightsAssigned
  \/ ChecklistBuilt \/ Completes \/ FailureRecorded \/ FailureNotRecorded

------------------------------------------------------------------------------
(* The workers and the store. *)

StoreStages == {"succeed_checklist", "fail_checklist"}

Did(b, answer) == bodies' = (bodies \ {b}) \cup {[b EXCEPT !.did = answer]}

\* Store.FailChecklist called by an API handler whose start looked like a failure
\* although the workflow did start (see StartWorkflow).
StartFailureRecorded ==
  /\ row.status = "running"
  /\ row' = [status |-> "failed", failure |-> StartFailure]
  /\ UNCHANGED <<stage, fanOut, ordered, failing, outcome, task, bodies>>

\* Mutant: the success is written over whatever the row holds.
SucceedAnyway(b) ==
  /\ row' = [status |-> "succeeded", failure |-> NoFailure]
  /\ Did(b, "ok")

\* Store.SucceedChecklist in one step: commit, or compare with what is there.  A
\* retry compares equal only if the weights came in candidate order.
SucceedEffect(b) ==
  \/ /\ row.status = "running"
     /\ row' = [status |-> "succeeded", failure |-> NoFailure]
     /\ Did(b, "ok")
  \/ /\ row.status # "running"
     /\ Did(b, IF row.status = "succeeded" /\ ordered THEN "ok" ELSE "conflict")
     /\ UNCHANGED row

\* Store.FailChecklist in one step.
FailEffect(b) ==
  \/ /\ row.status = "running"
     /\ row' = [status |-> "failed", failure |-> failing.record]
     /\ Did(b, "ok")
  \/ /\ row.status # "running"
     /\ Did(b, IF row = [status |-> "failed", failure |-> failing.record] THEN "ok" ELSE "conflict")
     /\ UNCHANGED row

CallsStore(b) ==
  /\ b.did = "nothing"
  /\ \/ b.task[1] = "succeed_checklist" /\ SucceedEffect(b)
     \/ b.task[1] = "fail_checklist" /\ FailEffect(b)
  /\ UNCHANGED <<stage, fanOut, ordered, failing, outcome, task>>

\* What an activity may return.  A store call that fails, conflicts or loses its
\* acknowledgement returns the generic error; a validator turns down a success.
Returns(b) ==
  LET s == b.task[1] IN
  {NoError : x \in {s} \cap (StageNames \ StoreStages)}
    \cup {NoError : x \in {b.did} \cap {"ok"}}
    \cup {ToTemporalError(k, b.attempt) :
            k \in IF s = "write_checklist_inputs" \/ s \in StoreStages THEN {"other"} ELSE LLMErrors}

\* A body of a closed workflow reports to nobody.
Returned(b, error) ==
  /\ IF stage = "closed" THEN Crash(b) ELSE Report(b, error)
  /\ UNCHANGED <<stage, fanOut, ordered, failing, outcome, row>>

BodyReturns(b) == \E error \in Returns(b) : Returned(b, error)

WorkerDies(b) == Crash(b) /\ UNCHANGED <<stage, fanOut, ordered, failing, outcome, row>>

Server(t) == /\ stage # "closed"
             /\ Dispatch(t) \/ TimeOut(t)
             /\ UNCHANGED <<stage, fanOut, ordered, failing, outcome, row>>

Next == \/ WorkflowStep
        \/ \E t \in ChecklistTasks : Server(t)
        \/ \E b \in bodies : CallsStore(b) \/ BodyReturns(b) \/ WorkerDies(b)
        \/ StartFailureRecorded

Spec == Init /\ [][Next]_vars

\* Workers poll, the server's timers fire, and a body ends: its context carries
\* the StartToCloseTimeout as a deadline.
Fairness == /\ WF_vars(WorkflowStep)
            /\ \A t \in ChecklistTasks : WF_vars(Server(t))
            /\ WF_vars(\E b \in Orphans : BodyReturns(b))

FairSpec == Spec /\ Fairness

------------------------------------------------------------------------------
(* Properties. *)

\* How the workflow closed agrees with the row, whatever attempts it gave up on
\* were still doing and whoever else wrote: a completed workflow has a succeeded
\* row, one that recorded its failure has a row that failed with that record.
OutcomeMatchesRow ==
  /\ outcome = "completed" => row.status = "succeeded"
  /\ outcome = "failed" => row = [status |-> "failed", failure |-> failing.record]

\* A row only succeeds once every activity of every stage before has completed,
\* all questions and all splits included.
SuccessNeedsEveryStage ==
  row.status = "succeeded" =>
    \A s \in StageNames \ StoreStages :
      \A t \in StageTasks(s) : task[t].state = "completed"

\* The failure recorded for a fan-out is the one the loop over the futures meets
\* first, not the one that happened first.
FirstFailureIsRecorded ==
  LET s == failing.record.stage IN
  (failing # NotFailing /\ s \in FanOutStages /\ failing.cause # WorkflowError("semantic")) =>
    \E i \in 1..fanOut[s] :
      /\ task[<<s, i>>].state = "failed"
      /\ task[<<s, i>>].error = failing.cause
      /\ \A j \in 1..(i - 1) : task[<<s, j>>].state = "completed"

\* Only what may pass is retried, and it is retried to the end: a task that waits
\* for, or is on, a further attempt failed before for another reason than its
\* output, no task has more than MaxAttempts attempts (options.go), and a failure
\* an activity reports as retryable is one that all the attempts did not cure.
RetriedIffRetryable ==
  /\ \A t \in ChecklistTasks :
       /\ task[t].attempt <= MaxAttempts
       /\ (task[t].state \in {"scheduled", "started"} /\ task[t].error # NoError) =>
            task[t].error.kind \notin {"model_output", "semantic"}
  /\ (failing # NotFailing /\ failing.cause.carried # NoDetails /\ failing.record.details.retryable) =>
       failing.record.details.attempts = MaxAttempts

\* The record of a failed checklist has the final attempt's metadata: when an
\* activity's retries are exhausted, it says how many attempts there were, also
\* when the last one timed out.
FinalAttemptIsRecorded ==
  (failing # NotFailing /\ failing.record.stage # "validate_limits"
     /\ failing.record.details.retryable) =>
    failing.record.details.attempts = MaxAttempts

\* The workflow closes, whatever fails, times out or dies on the way.
WorkflowCloses == <>(stage = "closed")
==============================================================================
