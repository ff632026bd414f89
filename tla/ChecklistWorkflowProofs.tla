------------------------ MODULE ChecklistWorkflowProofs ------------------------
(***************************************************************************)
(* ChecklistWorkflow for any fan-out, any number of attempts and orphans,  *)
(* and any choice of the errors the activities end with: an inductive      *)
(* invariant of the tasks, the bodies, the stages and the row, and from it *)
(* that the outcome matches the row, that a success has every stage behind *)
(* it, which failure is recorded, and what is retried.                     *)
(***************************************************************************)
EXTENDS ChecklistWorkflow, TLAPS

Errors == {TimeoutError} \cup {ToTemporalError(k, n) : k \in ErrorKinds, n \in 1..MaxAttempts}

TaskType == [state : {"unscheduled", "scheduled", "started", "completed", "failed"},
             attempt : 0..MaxAttempts,
             error : Errors \cup {NoError}]

BodyType == [task : ChecklistTasks, attempt : 1..MaxAttempts, did : {"nothing", "ok", "conflict"}]

TypeOK ==
  /\ stage \in StageNames \cup {"validate_limits", "closed"}
  /\ fanOut \in [FanOutStages -> 0..MaxFanOut]
  /\ task \in [ChecklistTasks -> TaskType]
  /\ bodies \subseteq BodyType

\* A retryable failure that an activity reported came with the last attempt.
Exhausted(error) ==
  error.carried # NoDetails /\ error.carried.retryable => error.carried.attempts = MaxAttempts

\* A waiting task has an attempt left and, as a running one, failed before only with
\* an error that may pass.
TaskOK(r) ==
  /\ r.state = "scheduled" => r.attempt < MaxAttempts
  /\ r.state = "started" => r.attempt >= 1
  /\ r.state \in {"scheduled", "started"} /\ r.error # NoError =>
       r.error.kind \notin {"model_output", "semantic"}
  /\ r.state = "failed" => r.error \in Errors /\ Exhausted(r.error)

\* What it means that the store acknowledged an activity of stage s.
Acked(s) ==
  /\ s = "succeed_checklist" => row.status = "succeeded"
  /\ s = "fail_checklist" => row = [status |-> "failed", failure |-> failing.record]

\* The stages whose activities have all completed when the workflow waits in s.
Earlier(s) ==
  CASE s \in {"validate_limits", "write_checklist_inputs"} -> {}
    [] s = "dimension_analysis" -> {"write_checklist_inputs"}
    [] s = "question_generation" -> {"write_checklist_inputs", "dimension_analysis"}
    [] s = "weight_assignment" ->
         {"write_checklist_inputs", "dimension_analysis", "question_generation"}
    [] s = "question_splitting" ->
         {"write_checklist_inputs", "dimension_analysis", "question_generation",
          "weight_assignment"}
    [] s = "succeed_checklist" -> StageNames \ StoreStages

EveryStage == \A s \in StageNames \ StoreStages : AllCompleted(s)

\* Until the workflow fails or closes nothing of a later stage is scheduled.
Proceeding ==
  /\ failing = NotFailing
  /\ outcome = "open"
  /\ \A s \in Earlier(stage) : AllCompleted(s)
  /\ \A t \in ChecklistTasks : t[1] \notin Earlier(stage) \cup {stage} => task[t].state = "unscheduled"

\* The failure that is being recorded, when an activity reported it.
CauseOK ==
  (failing.cause.carried # NoDetails /\ failing.record.details.retryable) =>
    failing.record.details.attempts = MaxAttempts

TasksOK == \A t \in ChecklistTasks :
             /\ TaskOK(task[t])
             /\ task[t].state = "completed" => Acked(t[1])

BodiesOK == \A b \in bodies :
              /\ task[b.task].state # "unscheduled"
              /\ b.did = "ok" => Acked(b.task[1])

Succeeding == \E t \in ChecklistTasks : t[1] = "succeed_checklist" /\ task[t].state # "unscheduled"

StagesOK ==
  /\ Succeeding => EveryStage
  /\ row.status = "succeeded" => Succeeding
  /\ stage \notin {"fail_checklist", "closed"} => Proceeding
  /\ outcome # "open" => stage = "closed"

FailureOK == failing # NotFailing => CauseOK

IInv == /\ TypeOK /\ TasksOK /\ BodiesOK /\ StagesOK /\ FailureOK
        /\ OutcomeMatchesRow /\ FirstFailureIsRecorded

USE AttemptsAssumption, BoundsAssumption

------------------------------------------------------------------------------
(* Errors and tasks. *)

\* What ToTemporalError makes of an error of any kind in any attempt.
LEMMA ErrorFacts ==
  ASSUME NEW k \in ErrorKinds, NEW n \in 1..MaxAttempts, NEW error, error = ToTemporalError(k, n)
  PROVE  /\ error \in Errors /\ error # NoError
         /\ error.kind = k /\ error.carried # NoDetails
         /\ error.carried.attempts = n
         /\ Retried(error) <=> error.carried.retryable
         /\ error.carried.retryable => k \in {"infra_retryable", "other"}
  <1>1. error \in Errors /\ error # NoError
    BY SentinelsAssumption DEF Errors
  <1>2. error.kind = k /\ error.carried = FailureDetails(k, n) /\ error.carried # NoDetails
    BY SentinelsAssumption DEF ToTemporalError
  <1>3. error.carried.attempts = n /\ error.carried.class = ErrorClass(k)
        /\ error.carried.retryable = (k \in {"infra_retryable", "other"})
    BY <1>2 DEF FailureDetails
  <1>4. Retried(error) <=> error.carried.retryable
    BY <1>2, <1>3 DEF Retried, ErrorClass, ErrorKinds
  <1>. QED BY <1>1, <1>2, <1>3, <1>4

\* A timeout carries no details, may pass and is no output of the model.
LEMMA TimeoutFacts ==
  /\ TimeoutError \in Errors /\ TimeoutError # NoError
  /\ TimeoutError.kind = "other" /\ TimeoutError.carried = NoDetails
  BY SentinelsAssumption DEF Errors, TimeoutError

\* How a started task settles: the retry policy of options.go.
LEMMA SettledFacts ==
  ASSUME NEW t \in ChecklistTasks, task[t] \in TaskType,
         task[t].state = "started", TaskOK(task[t]),
         NEW error,
         \/ error = NoError
         \/ error = TimeoutError
         \/ \E k \in ErrorKinds : error = ToTemporalError(k, task[t].attempt)
  PROVE  /\ Settled(t, error) \in TaskType
         /\ TaskOK(Settled(t, error))
         /\ Settled(t, error).state # "unscheduled"
         /\ Settled(t, error).state = "completed" => error = NoError
  <1>1. task[t].attempt \in 1..MaxAttempts
    BY DEF TaskType, TaskOK
  <1>2. CASE error = NoError
    BY <1>2 DEF Settled, Ended, TaskType, TaskOK
  <1>3. CASE error # NoError
    <2>1. /\ error \in Errors
          /\ error.carried # NoDetails => error.carried.attempts = task[t].attempt
          /\ error.carried # NoDetails /\ error.carried.retryable => Retried(error)
          /\ Retried(error) => error.kind \notin {"model_output", "semantic"}
      <3>1. CASE error = TimeoutError
        BY <3>1, TimeoutFacts
      <3>2. ASSUME NEW k \in ErrorKinds, error = ToTemporalError(k, task[t].attempt)
            PROVE  <2>1!1 /\ <2>1!2 /\ <2>1!3 /\ <2>1!4
        BY <1>1, <3>2, ErrorFacts
      <3>. QED BY <1>3, <3>1, <3>2
    <2>2. CASE Retried(error) /\ task[t].attempt < MaxAttempts
      <3>1. Settled(t, error) = Again(t, error)
        BY <1>3, <2>2 DEF Settled
      <3>. QED BY <1>1, <2>1, <2>2, <3>1 DEF Again, TaskType, TaskOK
    <2>3. CASE ~(Retried(error) /\ task[t].attempt < MaxAttempts)
      <3>1. Settled(t, error) = Ended("failed", error)
        BY <1>3, <2>3 DEF Settled
      <3>2. Exhausted(error)
        BY <1>1, <2>1, <2>3 DEF Exhausted
      <3>. QED BY <1>1, <2>1, <3>1, <3>2 DEF Ended, TaskType, TaskOK
    <2>. QED BY <2>2, <2>3
  <1>. QED BY <1>2, <1>3

------------------------------------------------------------------------------
(* The steps of the server and of the bodies. *)

\* The activities of a stage are tasks of the workflow.
LEMMA StageTasksType ==
  ASSUME fanOut \in [FanOutStages -> 0..MaxFanOut], NEW s \in StageNames
  PROVE  StageTasks(s) \subseteq ChecklistTasks
  BY DEF StageTasks, ChecklistTasks, FanOutStages

\* One running or waiting task goes on or ends, and at most a new body for it comes
\* into being: nothing that a closed task or a stage says is disturbed.
LEMMA TaskStep ==
  ASSUME IInv, UNCHANGED <<stage, fanOut, failing, outcome, row>>,
         NEW t \in ChecklistTasks, NEW r \in TaskType,
         task[t].state \in {"scheduled", "started"},
         task' = [task EXCEPT ![t] = r],
         TaskOK(r), r.state # "unscheduled", r.state = "completed" => Acked(t[1]),
         bodies' \subseteq BodyType,
         \A b \in bodies' : b \in bodies \/ (b.task = t /\ b.did = "nothing")
  PROVE  IInv'
  <1> USE DEF IInv
  <1>0. /\ task' \in [ChecklistTasks -> TaskType]
        /\ task'[t] = r
        /\ \A u \in ChecklistTasks : u # t => task'[u] = task[u]
    BY DEF TypeOK
  <1>1. TypeOK'
    BY <1>0 DEF TypeOK
  <1>2. TasksOK'
    BY <1>0 DEF TasksOK, TaskOK, Acked
  <1>3. BodiesOK'
    <2>1. \A b \in bodies : b.task \in ChecklistTasks
      BY DEF TypeOK, BodyType
    <2>. QED BY <1>0, <2>1 DEF BodiesOK, Acked
  <1>c. ASSUME NEW s \in StageNames
        PROVE  AllCompleted(s) => AllCompleted(s)'
    <2>1. StageTasks(s) \subseteq ChecklistTasks /\ StageTasks(s)' = StageTasks(s)
      BY StageTasksType DEF TypeOK, StageTasks
    <2>. QED BY <1>0, <2>1 DEF AllCompleted
  <1>4. StagesOK'
    <2>1. Succeeding' = Succeeding
      BY <1>0 DEF Succeeding
    <2>2. EveryStage => EveryStage'
      BY <1>c DEF EveryStage
    <2>3. stage \notin {"fail_checklist", "closed"} /\ Proceeding => Proceeding'
      <3>1. Earlier(stage)' = Earlier(stage)
        BY DEF Earlier, StageNames, StoreStages, FanOutStages
      <3>2. stage \notin {"fail_checklist", "closed"} => Earlier(stage) \subseteq StageNames
        BY DEF Earlier, StageNames, TypeOK, StoreStages, FanOutStages
      <3>. QED BY <1>0, <1>c, <3>1, <3>2 DEF Proceeding
    <2>. QED BY <2>1, <2>2, <2>3 DEF StagesOK
  <1>5. FailureOK' /\ OutcomeMatchesRow'
    BY DEF FailureOK, CauseOK, OutcomeMatchesRow, NotFailing
  <1>6. FirstFailureIsRecorded'
    <2>1. \A s \in FanOutStages : \A i \in 1..fanOut[s] : <<s, i>> \in ChecklistTasks
      BY DEF TypeOK, ChecklistTasks, StageNames
    <2>2. \A s \in FanOutStages : \A i \in 1..fanOut[s] :
            task[<<s, i>>].state \in {"completed", "failed"} => task'[<<s, i>>] = task[<<s, i>>]
      BY <1>0, <2>1
    <2>3. \A s \in FanOutStages : \A i \in 1..fanOut[s] : \A j \in 1..(i - 1) : j \in 1..fanOut[s]
      BY DEF TypeOK
    <2>. QED BY <2>2, <2>3 DEF FirstFailureIsRecorded, NotFailing, WorkflowError
  <1>. QED BY <1>1, <1>2, <1>3, <1>4, <1>5, <1>6

\* A body does something to the row, or is gone.  The row changes once, from running:
\* to failed, or to succeeded by a body of the succeed activity.
LEMMA BodiesStep ==
  ASSUME IInv, UNCHANGED <<stage, fanOut, failing, outcome, task>>,
         \/ UNCHANGED row
         \/ row.status = "running" /\ row'.status = "failed"
         \/ row.status = "running" /\ row'.status = "succeeded" /\ Succeeding,
         bodies' \subseteq BodyType,
         \A c \in bodies' : \/ c \in bodies
                            \/ /\ \E b \in bodies : c.task = b.task
                               /\ c.did = "ok" => Acked(c.task[1])'
  PROVE  IInv'
  <1> USE DEF IInv
  <1>1. TypeOK' /\ FailureOK' /\ FirstFailureIsRecorded'
    BY DEF TypeOK, FailureOK, CauseOK, FirstFailureIsRecorded, NotFailing, WorkflowError
  <1>2. TasksOK'
    BY DEF TasksOK, TaskOK, Acked
  <1>3. BodiesOK'
    BY DEF BodiesOK, Acked
  <1>4. StagesOK'
    <2>1. EveryStage' = EveryStage /\ Succeeding' = Succeeding
      BY DEF EveryStage, AllCompleted, StageTasks, Succeeding
    <2>2. Proceeding' = Proceeding
      BY DEF Proceeding, Earlier, AllCompleted, StageTasks
    <2>. QED BY <2>1, <2>2 DEF StagesOK
  <1>5. OutcomeMatchesRow'
    BY DEF OutcomeMatchesRow
  <1>. QED BY <1>1, <1>2, <1>3, <1>4, <1>5

\* Dispatch, timeout, and the report of the current attempt.
LEMMA ServerStep ==
  ASSUME IInv, NEW t \in ChecklistTasks, Server(t)
  PROVE  IInv'
  <1> USE DEF Server
  <1>0. task[t] \in TaskType /\ TaskOK(task[t]) /\ bodies \subseteq BodyType
    BY DEF IInv, TypeOK, TasksOK
  <1>1. CASE Dispatch(t)
    <2> DEFINE r == [state |-> "started", attempt |-> task[t].attempt + 1, error |-> task[t].error]
    <2>1. task[t].state = "scheduled" /\ task' = [task EXCEPT ![t] = r]
          /\ bodies' = bodies \cup {Body(t, task[t].attempt + 1)}
      BY <1>1 DEF Dispatch
    <2>2. task[t].attempt + 1 \in 1..MaxAttempts
      BY <1>0, <2>1 DEF TaskType, TaskOK
    <2>3. r \in TaskType /\ TaskOK(r)
      BY <1>0, <2>1, <2>2 DEF TaskType, TaskOK
    <2>4. Body(t, task[t].attempt + 1) \in BodyType
      BY <2>2 DEF Body, BodyType
    <2>5. bodies' \subseteq BodyType /\ \A b \in bodies' : b \in bodies \/ (b.task = t /\ b.did = "nothing")
      BY <1>0, <2>1, <2>4 DEF Body
    <2>. QED BY <2>1, <2>3, <2>5, TaskStep
  <1>2. CASE TimeOut(t)
    <2>1. task[t].state = "started" /\ task' = [task EXCEPT ![t] = Settled(t, TimeoutError)]
          /\ bodies' = bodies
      BY <1>2 DEF TimeOut
    <2>2. PICK r \in TaskType : r = Settled(t, TimeoutError) /\ TaskOK(r)
                               /\ r.state \notin {"unscheduled", "completed"}
      BY <1>0, <2>1, SettledFacts, TimeoutFacts
    <2>. QED BY <1>0, <2>1, <2>2, TaskStep
  <1>. QED BY <1>1, <1>2

\* What a body may return: nothing but success, if the store acknowledged, or an error
\* with the details of its attempt.
LEMMA ReturnsFacts ==
  ASSUME NEW b \in BodyType, NEW error \in Returns(b)
  PROVE  /\ error = NoError \/ \E k \in ErrorKinds : error = ToTemporalError(k, b.attempt)
         /\ error = NoError => b.task[1] \notin StoreStages \/ b.did = "ok"
  <1>1. CASE error = NoError
    <2>1. b.attempt \in 1..MaxAttempts
      BY DEF BodyType
    <2>2. \A k \in ErrorKinds : error # ToTemporalError(k, b.attempt)
      BY <1>1, <2>1, SentinelsAssumption
    <2>. QED BY <1>1, <2>2 DEF Returns, ErrorKinds
  <1>2. CASE error # NoError
    BY <1>2 DEF Returns, ErrorKinds
  <1>. QED BY <1>1, <1>2

\* A body returns, of an open workflow to the server, of a closed one to nobody.
LEMMA BodyReturnsStep ==
  ASSUME IInv, NEW b \in bodies, BodyReturns(b)
  PROVE  IInv'
  <1>1. PICK error \in Returns(b) : Returned(b, error)
    BY DEF BodyReturns
  <1>2. b \in BodyType /\ bodies \subseteq BodyType
    BY DEF IInv, TypeOK
  <1>3. UNCHANGED <<stage, fanOut, failing, outcome, row>> /\ bodies' = bodies \ {b}
    BY <1>1 DEF Returned, Crash, Report
  <1>4. CASE task' = task
    BY <1>2, <1>3, <1>4, BodiesStep
  <1>5. CASE task' # task
    <2>1. IsCurrent(b) /\ task' = [task EXCEPT ![b.task] = Settled(b.task, error)]
      BY <1>1, <1>5 DEF Returned, Crash, Report
    <2>2. PICK t \in ChecklistTasks : t = b.task
      BY <1>2 DEF BodyType
    <2>3. task[t] \in TaskType /\ TaskOK(task[t]) /\ task[t].state = "started"
          /\ task[t].attempt = b.attempt
      BY <2>1, <2>2 DEF IsCurrent, IInv, TypeOK, TasksOK
    <2>4. PICK r \in TaskType : /\ r = Settled(t, error) /\ TaskOK(r) /\ r.state # "unscheduled"
                                /\ r.state = "completed" => error = NoError
      BY <1>2, <2>3, SettledFacts, ReturnsFacts
    <2>5. r.state = "completed" => Acked(t[1])
      <3>1. t[1] \in StoreStages /\ error = NoError => b.did = "ok"
        BY <1>2, <2>2, ReturnsFacts
      <3>2. b.did = "ok" => Acked(t[1])
        BY <2>2 DEF IInv, BodiesOK
      <3>3. t[1] \notin StoreStages => Acked(t[1])
        BY DEF Acked, StoreStages
      <3>. QED BY <2>4, <3>1, <3>2, <3>3
    <2>6. task' = [task EXCEPT ![t] = r] /\ bodies' \subseteq BodyType /\ \A c \in bodies' : c \in bodies
      BY <1>2, <1>3, <2>1, <2>2, <2>4
    <2>. QED BY <1>3, <2>3, <2>4, <2>5, <2>6, TaskStep
  <1>. QED BY <1>4, <1>5

\* A body calls SucceedChecklist or FailChecklist.
LEMMA CallsStoreStep ==
  ASSUME IInv, NEW b \in bodies, CallsStore(b)
  PROVE  IInv'
  <1>0. /\ b \in BodyType /\ bodies \subseteq BodyType /\ b.task \in ChecklistTasks
        /\ task[b.task].state # "unscheduled"
        /\ UNCHANGED <<stage, fanOut, failing, outcome, task>>
    BY DEF IInv, TypeOK, BodiesOK, BodyType, CallsStore
  <1>1. ASSUME NEW answer \in {"ok", "conflict"}, Did(b, answer),
               answer = "ok" => Acked(b.task[1])'
        PROVE  /\ bodies' \subseteq BodyType
               /\ \A c \in bodies' : \/ c \in bodies
                                     \/ /\ \E d \in bodies : c.task = d.task
                                        /\ c.did = "ok" => Acked(c.task[1])'
    <2>1. PICK c \in BodyType : c = [b EXCEPT !.did = answer] /\ c.task = b.task /\ c.did = answer
      <3>1. PICK t \in ChecklistTasks, n \in 1..MaxAttempts, did \in {"nothing", "ok", "conflict"} :
              b = [task |-> t, attempt |-> n, did |-> did]
        BY <1>0 DEF BodyType
      <3>2. [b EXCEPT !.did = answer] = [task |-> t, attempt |-> n, did |-> answer]
        BY <3>1
      <3>3. [task |-> t, attempt |-> n, did |-> answer] \in BodyType
        BY DEF BodyType
      <3>. QED BY <3>1, <3>2, <3>3
    <2>2. bodies' = (bodies \ {b}) \cup {c}
      BY <1>1, <2>1 DEF Did
    <2>. QED BY <1>0, <1>1, <2>1, <2>2
  <1>2. CASE b.task[1] = "succeed_checklist" /\ SucceedEffect(b)
    <2>1. Succeeding
      BY <1>0, <1>2 DEF Succeeding
    <2>2. PICK answer \in {"ok", "conflict"} :
            /\ Did(b, answer)
            /\ answer = "ok" => row'.status = "succeeded"
            /\ UNCHANGED row \/ (row.status = "running" /\ row'.status = "succeeded")
      BY <1>2 DEF SucceedEffect
    <2>3. answer = "ok" => Acked(b.task[1])'
      BY <1>0, <1>2, <2>2 DEF Acked
    <2>. QED BY <1>0, <1>1, <2>1, <2>2, <2>3, BodiesStep
  <1>3. CASE b.task[1] = "fail_checklist" /\ FailEffect(b)
    <2>1. PICK answer \in {"ok", "conflict"} :
            /\ Did(b, answer)
            /\ answer = "ok" => row' = [status |-> "failed", failure |-> failing.record]
            /\ UNCHANGED row \/ (row.status = "running" /\ row'.status = "failed")
      BY <1>3 DEF FailEffect
    <2>2. answer = "ok" => Acked(b.task[1])'
      BY <1>0, <1>3, <2>1 DEF Acked
    <2>. QED BY <1>0, <1>1, <2>1, <2>2, BodiesStep
  <1>. QED BY <1>2, <1>3 DEF CallsStore

\* A body that dies with its worker takes nothing with it.
LEMMA WorkerDiesStep ==
  ASSUME IInv, NEW b \in bodies, WorkerDies(b)
  PROVE  IInv'
  <1>1. UNCHANGED <<stage, fanOut, failing, outcome, row, task>> /\ bodies' = bodies \ {b}
    BY DEF WorkerDies, Crash
  <1>2. bodies \subseteq BodyType
    BY DEF IInv, TypeOK
  <1>. QED BY <1>1, <1>2, BodiesStep

\* The handler that takes a started workflow for one that did not start fails a running
\* row only, and nothing in the invariant relies on a row that is still running.
LEMMA StartFailureStep ==
  ASSUME IInv, StartFailureRecorded
  PROVE  IInv'
  <1>1. /\ UNCHANGED <<stage, fanOut, failing, outcome, task, bodies>>
        /\ row.status = "running" /\ row'.status = "failed"
    BY DEF StartFailureRecorded
  <1>2. bodies \subseteq BodyType
    BY DEF IInv, TypeOK
  <1>. QED BY <1>1, <1>2, BodiesStep

------------------------------------------------------------------------------
(* The steps of the workflow's own code. *)

\* The workflow schedules the activities of a stage of which nothing was scheduled:
\* closed tasks and the bodies going on are not disturbed.
LEMMA ScheduledFacts ==
  ASSUME IInv, NEW ts \in SUBSET ChecklistTasks,
         \A t \in ts : task[t].state = "unscheduled",
         task' = Scheduled(ts), UNCHANGED <<bodies, row>>,
         \A t \in ChecklistTasks : t[1] = "fail_checklist" =>
            failing' = failing \/ task[t].state = "unscheduled"
  PROVE  /\ task' \in [ChecklistTasks -> TaskType]
         /\ \A t \in ts : task'[t].state = "scheduled"
         /\ \A t \in ChecklistTasks \ ts : task'[t] = task[t]
         /\ \A t \in ChecklistTasks : task[t].state # "unscheduled" => task'[t] = task[t]
         /\ TasksOK'
         /\ BodiesOK'
  <1> USE DEF IInv
  <1> DEFINE r == [state |-> "scheduled", attempt |-> 0, error |-> NoError]
  <1>1. [Unscheduled EXCEPT !.state = "scheduled"] = r
    BY DEF Unscheduled
  <1>2. r \in TaskType /\ TaskOK(r) /\ r.state = "scheduled"
    BY DEF TaskType, TaskOK
  <1>3. task' = [t \in ChecklistTasks |-> IF t \in ts THEN r ELSE task[t]]
    BY <1>1 DEF Scheduled
  <1> HIDE DEF r
  <1>4. /\ task' \in [ChecklistTasks -> TaskType]
        /\ \A t \in ts : task'[t] = r
        /\ \A t \in ChecklistTasks \ ts : task'[t] = task[t]
        /\ \A t \in ChecklistTasks : task[t].state # "unscheduled" => task'[t] = task[t]
    BY <1>2, <1>3 DEF TypeOK
  <1>5. \A t \in ChecklistTasks : task[t].state # "unscheduled" /\ Acked(t[1]) => Acked(t[1])'
    BY DEF Acked
  <1>6. TasksOK'
    <2>1. ASSUME NEW t \in ChecklistTasks
          PROVE  TaskOK(task'[t]) /\ (task'[t].state = "completed" => Acked(t[1])')
      BY <1>2, <1>4, <1>5 DEF TasksOK
    <2>. QED BY <2>1 DEF TasksOK, TaskOK
  <1>7. BodiesOK'
    <2>1. \A b \in bodies : b.task \in ChecklistTasks
      BY DEF TypeOK, BodyType
    <2>. QED BY <1>4, <1>5, <2>1 DEF BodiesOK
  <1>. QED BY <1>2, <1>4, <1>6, <1>7

\* Before it fails or closes, a workflow has not scheduled the storing of a failure, and
\* schedules the storing of the success only in that stage.
LEMMA ProceedingFacts ==
  ASSUME IInv, stage \notin {"fail_checklist", "closed"}
  PROVE  /\ Proceeding /\ (~Succeeding \/ stage = "succeed_checklist")
         /\ \A t \in ChecklistTasks : t[1] = "fail_checklist" => task[t].state = "unscheduled"
  <1>1. "fail_checklist" \notin Earlier(stage) \cup {stage}
    BY DEF IInv, TypeOK, Earlier, StageNames, StoreStages, FanOutStages
  <1>2. "succeed_checklist" \notin Earlier(stage)
    BY DEF IInv, TypeOK, Earlier, StageNames, StoreStages, FanOutStages
  <1>. QED BY <1>1, <1>2 DEF IInv, StagesOK, Proceeding, Succeeding

\* The workflow goes on from its stage to the next one, s.
LEMMA EnterStep ==
  ASSUME IInv, stage \notin {"fail_checklist", "succeed_checklist", "closed"},
         NEW s \in StageNames \ {"fail_checklist"}, NEW ts \in SUBSET ({s} \X (1..MaxFanOut)),
         Enter(s, ts),
         s \notin Earlier(stage) \cup {stage},
         Earlier(s) = (Earlier(stage) \cup {stage}) \ {"validate_limits"},
         stage # "validate_limits" => AllCompleted(stage),
         fanOut' \in [FanOutStages -> 0..MaxFanOut],
         \A u \in FanOutStages \ {s} : fanOut'[u] = fanOut[u]
  PROVE  IInv'
  <1>0. /\ stage' = s /\ task' = Scheduled(ts) /\ UNCHANGED <<failing, outcome, row, bodies>>
        /\ ts \subseteq ChecklistTasks
    BY DEF Enter, ChecklistTasks
  <1>1. /\ Proceeding /\ ~Succeeding /\ row.status # "succeeded"
        /\ \A t \in ts : task[t].state = "unscheduled"
    BY <1>0, ProceedingFacts DEF Proceeding, IInv, StagesOK
  <1>2. /\ task' \in [ChecklistTasks -> TaskType]
        /\ \A t \in ChecklistTasks \ ts : task'[t] = task[t]
        /\ \A t \in ChecklistTasks : task[t].state # "unscheduled" => task'[t] = task[t]
        /\ TasksOK' /\ BodiesOK'
    BY <1>0, <1>1, ScheduledFacts
  <1>3. TypeOK'
    BY <1>0, <1>2 DEF IInv, TypeOK
  <1>4. Earlier(s) \subseteq StageNames \ {s} /\ "fail_checklist" \notin Earlier(s) \cup {s}
        /\ "succeed_checklist" \notin Earlier(s)
    BY DEF IInv, TypeOK, Earlier, StageNames, StoreStages, FanOutStages
  <1>5. ASSUME NEW u \in Earlier(s)
        PROVE  AllCompleted(u)'
    <2>1. AllCompleted(u) /\ u \in StageNames /\ u # s
      BY <1>1, <1>4 DEF Proceeding
    <2>2. StageTasks(u) \subseteq ChecklistTasks /\ StageTasks(u)' = StageTasks(u)
      BY <2>1, StageTasksType DEF IInv, TypeOK, StageTasks
    <2>. QED BY <1>2, <2>1, <2>2 DEF AllCompleted
  <1>6. Proceeding'
    <2>1. Earlier(stage)' = Earlier(s)
      BY <1>0 DEF Earlier, StageNames, StoreStages, FanOutStages
    <2>2. \A t \in ChecklistTasks : t[1] \notin Earlier(s) \cup {s} => task'[t].state = "unscheduled"
      <3>1. \A t \in ChecklistTasks : t[1] \in StageNames
        BY DEF ChecklistTasks
      <3>2. "validate_limits" \notin StageNames
        BY DEF StageNames, FanOutStages
      <3>. QED BY <1>1, <1>2, <3>1, <3>2 DEF Proceeding
    <2>. QED BY <1>0, <1>1, <1>5, <2>1, <2>2 DEF Proceeding, NotFailing
  <1>7. Succeeding' => EveryStage'
    <2>1. CASE s = "succeed_checklist"
      BY <1>5, <2>1 DEF EveryStage, Earlier
    <2>2. CASE s # "succeed_checklist"
      BY <1>1, <1>2, <2>2 DEF Succeeding
    <2>. QED BY <2>1, <2>2
  <1>8. StagesOK'
    BY <1>0, <1>1, <1>6, <1>7 DEF StagesOK, Proceeding
  <1>9. FailureOK' /\ OutcomeMatchesRow' /\ FirstFailureIsRecorded'
    BY <1>0, <1>1 DEF Proceeding, FailureOK, OutcomeMatchesRow, FirstFailureIsRecorded, NotFailing
  <1>. QED BY <1>2, <1>3, <1>8, <1>9 DEF IInv

\* The workflow fails in its stage and reports s; only an activity of a fan-out, or a
\* validator, fails as one.
LEMMA FailStep ==
  ASSUME IInv, stage \notin {"fail_checklist", "closed"},
         NEW s, NEW cause, FailChecklist(s, cause), Exhausted(cause),
         s \in FanOutStages /\ cause # WorkflowError("semantic") =>
           \E i \in 1..MaxFanOut : FirstFailed(s, i) /\ task[<<s, i>>].error = cause
  PROVE  IInv'
  <1> DEFINE ts == {<<"fail_checklist", 1>>}
  <1>0. /\ stage' = "fail_checklist" /\ task' = Scheduled(ts)
        /\ failing' = [record |-> WorkflowFailureDetails(s, cause), cause |-> cause]
        /\ UNCHANGED <<fanOut, outcome, row, bodies>>
        /\ ts \in SUBSET ChecklistTasks
    BY DEF FailChecklist, ChecklistTasks, StageNames
  <1>1. /\ outcome = "open" /\ \A t \in ts : task[t].state = "unscheduled"
        /\ \A t \in ChecklistTasks : t[1] = "fail_checklist" => task[t].state = "unscheduled"
    BY <1>0, ProceedingFacts DEF Proceeding, IInv, StagesOK
  <1>2. /\ task' \in [ChecklistTasks -> TaskType]
        /\ \A t \in ChecklistTasks \ ts : task'[t] = task[t]
        /\ \A t \in ChecklistTasks : task[t].state # "unscheduled" => task'[t] = task[t]
        /\ TasksOK' /\ BodiesOK'
    BY <1>0, <1>1, ScheduledFacts
  <1>3. TypeOK'
    BY <1>0, <1>2 DEF IInv, TypeOK, StageNames
  <1>4. StagesOK'
    <2>1. Succeeding' = Succeeding
      BY <1>2 DEF Succeeding
    <2>2. EveryStage => EveryStage'
      <3>1. \A u \in StageNames : StageTasks(u) \subseteq ChecklistTasks
        BY StageTasksType DEF IInv, TypeOK
      <3>2. \A u \in StageNames : AllCompleted(u) => AllCompleted(u)'
        BY <1>0, <1>2, <3>1 DEF AllCompleted, StageTasks
      <3>. QED BY <3>2 DEF EveryStage
    <2>. QED BY <1>0, <1>1, <2>1, <2>2 DEF IInv, StagesOK
  <1>5. FailureOK'
    BY <1>0 DEF FailureOK, CauseOK, WorkflowFailureDetails, Exhausted
  <1>6. OutcomeMatchesRow'
    BY <1>0, <1>1 DEF OutcomeMatchesRow
  <1>7. FirstFailureIsRecorded'
    <2>1. failing'.record.stage = s /\ failing'.cause = cause
      BY <1>0 DEF WorkflowFailureDetails
    <2>2. CASE s \in FanOutStages /\ cause # WorkflowError("semantic")
      <3>1. PICK i \in 1..MaxFanOut : FirstFailed(s, i) /\ task[<<s, i>>].error = cause
        BY <2>2
      <3>2. i \in 1..fanOut[s] /\ task[<<s, i>>].state = "failed"
            /\ \A j \in 1..(i - 1) : task[<<s, j>>].state = "completed"
        BY <2>2, <3>1 DEF FirstFailed, StageTasks
      <3>3. \A j \in 1..i : <<s, j>> \in ChecklistTasks
        BY <2>2 DEF ChecklistTasks, StageNames
      <3>4. task'[<<s, i>>] = task[<<s, i>>] /\ \A j \in 1..(i - 1) : task'[<<s, j>>] = task[<<s, j>>]
        BY <1>2, <3>2, <3>3
      <3>. QED BY <1>0, <2>1, <3>1, <3>2, <3>4 DEF FirstFailureIsRecorded
    <2>. QED BY <2>1, <2>2 DEF FirstFailureIsRecorded, WorkflowError
  <1>. QED BY <1>2, <1>3, <1>4, <1>5, <1>6, <1>7 DEF IInv

\* A workflow that closes on the row's own outcome keeps the invariant.
LEMMA CloseStep ==
  ASSUME IInv, NEW o, Close(o), stage # "closed",
         o = "completed" => row.status = "succeeded",
         o = "failed" => row = [status |-> "failed", failure |-> failing.record]
  PROVE  IInv'
  <1>0. stage' = "closed" /\ outcome' = o /\ UNCHANGED <<fanOut, failing, row, task, bodies>>
    BY DEF Close
  <1>1. TypeOK'
    BY <1>0 DEF IInv, TypeOK
  <1>2. TasksOK' /\ BodiesOK'
    BY <1>0 DEF IInv, TasksOK, TaskOK, BodiesOK, Acked
  <1>3. StagesOK'
    BY <1>0 DEF IInv, StagesOK, Succeeding, EveryStage, AllCompleted, StageTasks
  <1>4. FailureOK' /\ OutcomeMatchesRow' /\ FirstFailureIsRecorded'
    BY <1>0 DEF IInv, FailureOK, CauseOK, OutcomeMatchesRow, FirstFailureIsRecorded, NotFailing,
                WorkflowError
  <1>. QED BY <1>1, <1>2, <1>3, <1>4 DEF IInv

\* Each step of the workflow code keeps the invariant: it enters a stage, fails or closes.
LEMMA WorkflowCodeStep == IInv /\ WorkflowStep => IInv'
  <1> SUFFICES ASSUME IInv, WorkflowStep PROVE IInv'
    OBVIOUS
  <1>w. \A k : WorkflowError(k).carried = NoDetails
    BY DEF WorkflowError
  <1>f. fanOut \in [FanOutStages -> 0..MaxFanOut]
    BY DEF IInv, TypeOK
  <1>1. CASE ValidateLimits
    <2>1. CASE FailChecklist("validate_limits", WorkflowError("other"))
      BY <1>1, <1>w, <2>1, FailStep DEF ValidateLimits, FanOutStages, Exhausted
    <2>2. CASE Enter("write_checklist_inputs", {<<"write_checklist_inputs", 1>>}) /\ UNCHANGED fanOut
      <3>1. {<<"write_checklist_inputs", 1>>} \in SUBSET ({"write_checklist_inputs"} \X (1..MaxFanOut))
        OBVIOUS
      <3>. QED BY <1>1, <1>f, <2>2, <3>1, EnterStep DEF ValidateLimits, Earlier, StageNames, FanOutStages
    <2>. QED BY <1>1, <2>1, <2>2 DEF ValidateLimits
  <1>2. ASSUME NEW s \in StageNames \ {"fail_checklist"}, ActivityFails(s) PROVE IInv'
    <2>1. PICK i \in 1..MaxFanOut : FirstFailed(s, i) /\ FailChecklist(s, task[<<s, i>>].error)
      BY <1>2 DEF ActivityFails
    <2>2. <<s, i>> \in ChecklistTasks /\ task[<<s, i>>].state = "failed"
      BY <2>1 DEF FirstFailed, ChecklistTasks
    <2>3. Exhausted(task[<<s, i>>].error)
      BY <2>2 DEF IInv, TasksOK, TaskOK
    <2>4. stage = s /\ stage \notin {"fail_checklist", "closed"}
      BY <1>2 DEF ActivityFails, StageNames, FanOutStages
    <2>5. \E j \in 1..MaxFanOut : FirstFailed(s, j) /\ task[<<s, j>>].error = task[<<s, i>>].error
      BY <2>1
    <2>. QED BY <2>1, <2>3, <2>4, <2>5, FailStep
  <1>3. ASSUME NEW s \in StageNames \ StoreStages, NEW reported, ValidatorRejects(s, reported)
        PROVE  IInv'
    <2>1. stage \notin {"fail_checklist", "closed"} /\ FailChecklist(reported, WorkflowError("semantic"))
      BY <1>3 DEF ValidatorRejects, StageNames, StoreStages, FanOutStages
    <2>2. Exhausted(WorkflowError("semantic"))
      BY <1>w DEF Exhausted
    <2>. QED BY <2>1, <2>2, FailStep
  <1>4. CASE InputsWritten
    <2>1. {<<"dimension_analysis", 1>>} \in SUBSET ({"dimension_analysis"} \X (1..MaxFanOut))
      OBVIOUS
    <2>. QED BY <1>4, <1>f, <2>1, EnterStep DEF InputsWritten, Earlier, StageNames, FanOutStages
  <1>5. CASE DimensionsAnalyzed
    <2>1. PICK n \in 1..MaxFanOut :
            /\ fanOut' = [fanOut EXCEPT !["question_generation"] = n]
            /\ Enter("question_generation", {"question_generation"} \X (1..n))
      BY <1>5 DEF DimensionsAnalyzed
    <2>2. {"question_generation"} \X (1..n) \in SUBSET ({"question_generation"} \X (1..MaxFanOut))
      OBVIOUS
    <2>3. /\ fanOut' \in [FanOutStages -> 0..MaxFanOut]
          /\ \A u \in FanOutStages \ {"question_generation"} : fanOut'[u] = fanOut[u]
      <3>1. n \in 0..MaxFanOut
        OBVIOUS
      <3>. QED BY <1>f, <2>1, <3>1
    <2>. QED BY <1>5, <2>1, <2>2, <2>3, EnterStep DEF DimensionsAnalyzed, Earlier, StageNames, FanOutStages
  <1>6. CASE QuestionsGenerated
    <2>1. {<<"weight_assignment", 1>>} \in SUBSET ({"weight_assignment"} \X (1..MaxFanOut))
      OBVIOUS
    <2>. QED BY <1>6, <1>f, <2>1, EnterStep DEF QuestionsGenerated, Earlier, StageNames, FanOutStages
  <1>7. CASE WeightsAssigned
    <2>1. PICK n \in 0..MaxFanOut :
            /\ fanOut' = [fanOut EXCEPT !["question_splitting"] = n]
            /\ Enter("question_splitting", {"question_splitting"} \X (1..n))
      BY <1>7 DEF WeightsAssigned
    <2>2. {"question_splitting"} \X (1..n) \in SUBSET ({"question_splitting"} \X (1..MaxFanOut))
      OBVIOUS
    <2>3. /\ fanOut' \in [FanOutStages -> 0..MaxFanOut]
          /\ \A u \in FanOutStages \ {"question_splitting"} : fanOut'[u] = fanOut[u]
      BY <1>f, <2>1
    <2>. QED BY <1>7, <2>1, <2>2, <2>3, EnterStep DEF WeightsAssigned, Earlier, StageNames, FanOutStages
  <1>8. CASE ChecklistBuilt
    <2>1. {<<"succeed_checklist", 1>>} \in SUBSET ({"succeed_checklist"} \X (1..MaxFanOut))
      OBVIOUS
    <2>2. Earlier("succeed_checklist") = (Earlier("question_splitting") \cup {"question_splitting"})
                                           \ {"validate_limits"}
      BY DEF Earlier, StageNames, StoreStages, FanOutStages
    <2>3. "succeed_checklist" \notin Earlier("question_splitting")
      BY DEF Earlier
    <2>. QED BY <1>8, <1>f, <2>1, <2>2, <2>3, EnterStep DEF ChecklistBuilt, StageNames
  <1>9. CASE Completes
    <2>1. task[<<"succeed_checklist", 1>>].state = "completed"
          /\ <<"succeed_checklist", 1>> \in ChecklistTasks
      BY <1>9 DEF Completes, AllCompleted, StageTasks, ChecklistTasks, StageNames, FanOutStages
    <2>2. row.status = "succeeded"
      BY <2>1 DEF IInv, TasksOK, Acked
    <2>. QED BY <1>9, <2>2, CloseStep DEF Completes
  <1>10. CASE FailureRecorded
    <2>1. task[<<"fail_checklist", 1>>].state = "completed"
          /\ <<"fail_checklist", 1>> \in ChecklistTasks
      BY <1>10 DEF FailureRecorded, AllCompleted, StageTasks, ChecklistTasks, StageNames, FanOutStages
    <2>2. row = [status |-> "failed", failure |-> failing.record]
      BY <2>1 DEF IInv, TasksOK, Acked
    <2>. QED BY <1>10, <2>2, CloseStep DEF FailureRecorded
  <1>11. CASE FailureNotRecorded
    BY <1>11, CloseStep DEF FailureNotRecorded
  <1>. QED BY <1>1, <1>2, <1>3, <1>4, <1>5, <1>6, <1>7, <1>8, <1>9, <1>10, <1>11
           DEF WorkflowStep, StageNames, StoreStages, FanOutStages

------------------------------------------------------------------------------
(* The invariant and what follows from it. *)

\* A workflow starts with nothing scheduled and its row running.
LEMMA InvariantInit == Init => IInv
  <1> SUFFICES ASSUME Init PROVE IInv
    OBVIOUS
  <1> USE DEF Init, InitTasks
  <1>1. Unscheduled \in TaskType /\ TaskOK(Unscheduled) /\ Unscheduled.state = "unscheduled"
    BY DEF Unscheduled, TaskType, TaskOK
  <1>2. TypeOK
    BY <1>1 DEF TypeOK
  <1>3. TasksOK /\ BodiesOK /\ ~Succeeding
    BY <1>1 DEF TasksOK, BodiesOK, Succeeding
  <1>4. Proceeding
    BY <1>1 DEF Proceeding, Earlier
  <1>. QED BY <1>2, <1>3, <1>4 DEF IInv, StagesOK, FailureOK, OutcomeMatchesRow, FirstFailureIsRecorded

\* The workflow code, the server, the workers and the handler all keep the invariant.
LEMMA InvariantStep == IInv /\ [Next]_vars => IInv'
  <1> SUFFICES ASSUME IInv, [Next]_vars PROVE IInv'
    OBVIOUS
  <1>1. CASE UNCHANGED vars
    <2>1. UNCHANGED <<stage, fanOut, failing, outcome, row, task, bodies>> /\ bodies \subseteq BodyType
      BY <1>1 DEF vars, IInv, TypeOK
    <2>. QED BY <2>1, BodiesStep
  <1>. QED BY <1>1, WorkflowCodeStep, ServerStep, CallsStoreStep, BodyReturnsStep, WorkerDiesStep,
              StartFailureStep DEF Next

\* The inductive invariant of the workflow, its activities and its row.
THEOREM ChecklistWorkflowInvariant == Spec => []IInv
  BY InvariantInit, InvariantStep, PTL DEF Spec

\* CreateChecklistWorkflow completes only with a succeeded row, and fails as recorded only
\* with a row that failed with its own record, whatever orphans and the API handler wrote.
THEOREM ChecklistWorkflowOutcomeMatchesRow == Spec => []OutcomeMatchesRow
  <1>1. IInv => OutcomeMatchesRow
    BY DEF IInv
  <1>. QED BY <1>1, ChecklistWorkflowInvariant, PTL

\* A checklist succeeds only after every activity of every stage before has completed,
\* each question generation and each split included.
THEOREM ChecklistWorkflowSuccessNeedsEveryStage == Spec => []SuccessNeedsEveryStage
  <1>1. IInv => SuccessNeedsEveryStage
    BY DEF IInv, StagesOK, EveryStage, AllCompleted, SuccessNeedsEveryStage
  <1>. QED BY <1>1, ChecklistWorkflowInvariant, PTL

\* The failure of a fan-out is that of the first future, in order, that failed.
THEOREM ChecklistWorkflowFirstFailureIsRecorded == Spec => []FirstFailureIsRecorded
  <1>1. IInv => FirstFailureIsRecorded
    BY DEF IInv
  <1>. QED BY <1>1, ChecklistWorkflowInvariant, PTL

\* The retry policy of options.go: what may not pass is not retried, nothing has more than
\* MaximumAttempts attempts, and a reported retryable failure came with the last one.
THEOREM ChecklistWorkflowRetriedIffRetryable == Spec => []RetriedIffRetryable
  <1>1. IInv => RetriedIffRetryable
    <2> SUFFICES ASSUME IInv PROVE RetriedIffRetryable
      OBVIOUS
    <2>1. ASSUME NEW t \in ChecklistTasks
          PROVE  /\ task[t].attempt <= MaxAttempts
                 /\ (task[t].state \in {"scheduled", "started"} /\ task[t].error # NoError) =>
                      task[t].error.kind \notin {"model_output", "semantic"}
      BY DEF IInv, TypeOK, TaskType, TasksOK, TaskOK
    <2>2. (failing # NotFailing /\ failing.cause.carried # NoDetails
             /\ failing.record.details.retryable) => failing.record.details.attempts = MaxAttempts
      BY DEF IInv, FailureOK, CauseOK
    <2>. QED BY <2>1, <2>2 DEF RetriedIffRetryable
  <1>. QED BY <1>1, ChecklistWorkflowInvariant, PTL
==============================================================================
