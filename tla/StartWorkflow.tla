---------------------------- MODULE StartWorkflow ----------------------------
(***************************************************************************)
(* POST /checklists and POST /evaluations (internal/api/router.go): a      *)
(* handler inserts a running row, asks Temporal to start the workflow with *)
(* the row's id and answers.  When the start call fails it asks Temporal   *)
(* whether the workflow exists, and records a failure if it does not.      *)
(*                                                                         *)
(* A start request travels on its own: the SDK may send it again, it may   *)
(* be lost, or take effect after the handler stopped waiting for it.  The  *)
(* workflow is the one ChecklistWorkflow and EvaluationWorkflow describe:  *)
(* it gives the row an outcome if the row has none, and closes.            *)
(***************************************************************************)
EXTENDS Integers

CONSTANTS Checklists, Evaluations,
          MaxStarts,   \* bound: start requests in flight for one entity
          NoChecklist

\* The ids are those of two tables and of two kinds of workflow.
ASSUME EntitiesAssumption == Checklists \cap Evaluations = {}

VARIABLES pc,         \* the handler that creates the entity, or what it answered
          row,        \* the entity's row
          of,         \* the checklist an evaluation is of
          starts,     \* start requests in flight
          execution,  \* the workflow execution with the entity's workflow id
          executions  \* how many executions there have been

vars == <<pc, row, of, starts, execution, executions>>

Entities == Checklists \cup Evaluations

Working == {"check", "insert", "start", "starting", "describe", "persist"}
Answers == {"accepted", "refused", "error"}

\* The handler goes on to its next step, or answers.
Goto(e, step) == pc' = [pc EXCEPT ![e] = step]

Init == /\ pc = [e \in Entities |-> "idle"]
        /\ row = [e \in Entities |-> "absent"]
        /\ of = [e \in Evaluations |-> NoChecklist]
        /\ starts = [e \in Entities |-> 0]
        /\ execution = [e \in Entities |-> "none"]
        /\ executions = [e \in Entities |-> 0]

------------------------------------------------------------------------------
(* The handlers. *)

PostChecklist(e) ==
  /\ pc[e] = "idle"
  /\ Goto(e, "insert") \/ Goto(e, "refused")
  /\ UNCHANGED <<row, of, starts, execution, executions>>

PostEvaluation(e, c) ==
  /\ pc[e] = "idle"
  /\ of' = [of EXCEPT ![e] = c]
  /\ Goto(e, "check") \/ Goto(e, "refused")
  /\ UNCHANGED <<row, starts, execution, executions>>

\* Mutant: any checklist that exists will do.
CheckExists(e) ==
  /\ pc[e] = "check"
  /\ Goto(e, IF row[of[e]] # "absent" THEN "insert" ELSE "refused") \/ Goto(e, "error")
  /\ UNCHANGED <<row, of, starts, execution, executions>>

\* CreateEvaluationForWorkflow, first statement.
CheckChecklist(e) ==
  /\ pc[e] = "check"
  /\ Goto(e, IF row[of[e]] = "succeeded" THEN "insert" ELSE "refused") \/ Goto(e, "error")
  /\ UNCHANGED <<row, of, starts, execution, executions>>

\* The INSERT; an error may also hide an insert that took effect.
Insert(e) ==
  /\ pc[e] = "insert"
  /\ \/ row' = [row EXCEPT ![e] = "running"] /\ Goto(e, "start")
     \/ row' = [row EXCEPT ![e] = "running"] /\ Goto(e, "error")
     \/ UNCHANGED row /\ Goto(e, "error")
  /\ UNCHANGED <<of, starts, execution, executions>>

\* ExecuteWorkflow sends the start request, and sends it again while it waits.
SendStart(e) ==
  /\ pc[e] \in {"start", "starting"}
  /\ starts[e] < MaxStarts
  /\ starts' = [starts EXCEPT ![e] = @ + 1]
  /\ Goto(e, "starting")
  /\ UNCHANGED <<row, of, execution, executions>>

\* A request took effect and the answer arrives, AlreadyStarted included.
StartReturns(e) ==
  /\ pc[e] = "starting"
  /\ execution[e] # "none"
  /\ Goto(e, "accepted")
  /\ UNCHANGED <<row, of, starts, execution, executions>>

\* A deadline, a cancelled request context, an unreachable server.
StartFails(e) ==
  /\ pc[e] = "starting"
  /\ Goto(e, "describe")
  /\ UNCHANGED <<row, of, starts, execution, executions>>

\* Mutant: only a NotFound is taken for an error.
DescribeUnlessNotFound(e) ==
  /\ pc[e] = "describe"
  /\ Goto(e, IF execution[e] # "none" THEN "accepted" ELSE "persist") \/ Goto(e, "accepted")
  /\ UNCHANGED <<row, of, starts, execution, executions>>

\* DescribeWorkflowExecution: it exists, NotFound, or the outcome stays ambiguous.
Describe(e) ==
  /\ pc[e] = "describe"
  /\ Goto(e, IF execution[e] # "none" THEN "accepted" ELSE "persist") \/ Goto(e, "error")
  /\ UNCHANGED <<row, of, starts, execution, executions>>

\* Mutant: the failure is written whatever the row holds.
PersistAnyway(e) ==
  /\ pc[e] = "persist"
  /\ row' = [row EXCEPT ![e] = "start_failed"]
  /\ Goto(e, "error")
  /\ UNCHANGED <<of, starts, execution, executions>>

\* persistDefinitiveStartFailure; FailChecklist and FailEvaluation leave a
\* terminal row as it is, and may fail without having written.
Persist(e) ==
  /\ pc[e] = "persist"
  /\ \/ row[e] = "running" /\ row' = [row EXCEPT ![e] = "start_failed"]
     \/ UNCHANGED row
  /\ Goto(e, "error")
  /\ UNCHANGED <<of, starts, execution, executions>>

\* The API process dies, and with it the handler; what it sent is on its way.
ApiCrash(e) ==
  /\ pc[e] \in Working
  /\ Goto(e, "crashed")
  /\ UNCHANGED <<row, of, starts, execution, executions>>

------------------------------------------------------------------------------
(* Temporal and the workflow. *)

\* Mutant: a closed execution does not keep its workflow id (ALLOW_DUPLICATE).
StartAgain(e) ==
  /\ starts[e] > 0
  /\ starts' = [starts EXCEPT ![e] = @ - 1]
  /\ IF execution[e] # "open"
       THEN /\ execution' = [execution EXCEPT ![e] = "open"]
            /\ executions' = [executions EXCEPT ![e] = @ + 1]
       ELSE UNCHANGED <<execution, executions>>
  /\ UNCHANGED <<pc, row, of>>

\* A start request takes effect, unless the id is in use (USE_EXISTING) or was
\* used (REJECT_DUPLICATE).
StartTakesEffect(e) ==
  /\ starts[e] > 0
  /\ starts' = [starts EXCEPT ![e] = @ - 1]
  /\ IF execution[e] = "none"
       THEN /\ execution' = [execution EXCEPT ![e] = "open"]
            /\ executions' = [executions EXCEPT ![e] = @ + 1]
       ELSE UNCHANGED <<execution, executions>>
  /\ UNCHANGED <<pc, row, of>>

StartIsLost(e) ==
  /\ starts[e] > 0
  /\ starts' = [starts EXCEPT ![e] = @ - 1]
  /\ UNCHANGED <<pc, row, of, execution, executions>>

\* The terminal activity of the workflow commits an outcome.
WorkflowWrites(e) ==
  /\ execution[e] = "open"
  /\ row[e] = "running"
  /\ \E s \in {"succeeded", "failed"} : row' = [row EXCEPT ![e] = s]
  /\ UNCHANGED <<pc, of, starts, execution, executions>>

\* It may close without having written: the failure activity failed too, or the
\* row had its outcome from elsewhere.
WorkflowCloses(e) ==
  /\ execution[e] = "open"
  /\ execution' = [execution EXCEPT ![e] = "closed"]
  /\ UNCHANGED <<pc, row, of, starts, executions>>

------------------------------------------------------------------------------
Handler(e) == \/ Insert(e) \/ SendStart(e) \/ StartReturns(e) \/ StartFails(e)
              \/ Describe(e) \/ Persist(e)

Next == \/ \E e \in Checklists : PostChecklist(e)
        \/ \E e \in Evaluations : CheckChecklist(e) \/ \E c \in Checklists : PostEvaluation(e, c)
        \/ \E e \in Entities : \/ Handler(e) \/ ApiCrash(e)
                               \/ StartTakesEffect(e) \/ StartIsLost(e)
                               \/ WorkflowWrites(e) \/ WorkflowCloses(e)

Spec == Init /\ [][Next]_vars

\* Workflows close (ChecklistWorkflow); an API handler that does not crash goes on:
\* every call it makes ends, at the latest with its context.
Fairness == \A e \in Entities :
  /\ WF_vars(WorkflowCloses(e))
  /\ WF_vars(pc[e] \notin {"start", "starting"} /\ Handler(e))
  /\ WF_vars(pc[e] = "start" /\ SendStart(e))
  /\ WF_vars(StartFails(e))
  /\ WF_vars(e \in Evaluations /\ CheckChecklist(e))

FairSpec == Spec /\ Fairness

------------------------------------------------------------------------------
(* Properties. *)

\* A client that was told 202 has a workflow, and its row is not one that says the
\* workflow never started, however late the start took effect (startWorkflow).
AcceptedIsStarted ==
  \A e \in Entities : pc[e] = "accepted" => execution[e] # "none" /\ row[e] # "start_failed"

\* An execution has a row to write to, and there is one execution per entity, so
\* a request sent twice or landing late never runs a workflow again.
ExecutedAtMostOnce ==
  \A e \in Entities : executions[e] > 0 => row[e] # "absent" /\ executions[e] = 1

\* Evaluations exist for succeeded checklists only, although the status is read in
\* a statement of its own before the insert (CreateEvaluationForWorkflow).
EvaluatedHasSucceeded ==
  \A e \in Evaluations : row[e] # "absent" => row[of[e]] = "succeeded"

\* An entity is marked failed to start only when non-start is definitive.
DefinitiveNonStart ==
  \A e \in Entities : row[e] = "start_failed" => execution[e] = "none"

\* A row gets at most one outcome, from its workflow or from its handler.
LifecycleState ==
  [e \in Entities |-> CASE row[e] \in {"absent", "running"} -> <<row[e]>>
                        [] OTHER -> <<"done", row[e]>>]

Lifecycle == INSTANCE Lifecycle WITH Outcomes <- {"succeeded", "failed", "start_failed"},
                                     state <- LifecycleState
ImplementsLifecycle == Lifecycle!Spec

\* Every request is answered unless the process dies, and what was accepted has a
\* workflow that closes.
RequestsAreSettled == \A e \in Entities :
  pc[e] \in Working ~>
    pc[e] \in {"refused", "error", "crashed"} \/ (pc[e] = "accepted" /\ execution[e] = "closed")
==============================================================================
