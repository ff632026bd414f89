-------------------------- MODULE StartWorkflowProofs --------------------------
(***************************************************************************)
(* StartWorkflow for any checklists, evaluations and number of start       *)
(* requests in flight: an inductive invariant of each entity, and from it  *)
(* that accepted means started, that nothing is executed twice, that only  *)
(* succeeded checklists are evaluated, and the refinement of Lifecycle.    *)
(***************************************************************************)
EXTENDS StartWorkflow, TLAPS

Steps == {"idle", "crashed"} \cup Working \cup Answers
RowStatuses == {"absent", "running", "succeeded", "failed", "start_failed"}

TypeOK ==
  /\ pc \in [Entities -> Steps]
  /\ row \in [Entities -> RowStatuses]
  /\ of \in [Evaluations -> Checklists \cup {NoChecklist}]
  /\ starts \in [Entities -> Nat]
  /\ execution \in [Entities -> {"none", "open", "closed"}]
  /\ executions \in [Entities -> Nat]

\* How far the handler of e, its row and its executions have come together.  Only the
\* handler that inserted the row sends start requests, and only the one that then
\* answers with an error writes start_failed.
EntityOK(e) ==
  /\ pc[e] \in {"idle", "check", "insert", "refused"} => row[e] = "absent"
  /\ pc[e] \in {"start", "starting", "describe", "persist", "accepted"} => row[e] # "absent"
  /\ row[e] = "absent" => starts[e] = 0 /\ execution[e] = "none"
  /\ row[e] = "start_failed" => pc[e] = "error"
  /\ pc[e] = "accepted" => execution[e] # "none"
  /\ executions[e] = IF execution[e] = "none" THEN 0 ELSE 1

\* The checklist an evaluation is of has succeeded from the check on.
EvaluationOK(e) ==
  /\ pc[e] = "check" => of[e] \in Checklists
  /\ pc[e] = "insert" \/ row[e] # "absent" => of[e] \in Checklists /\ row[of[e]] = "succeeded"

IInv == /\ TypeOK
        /\ \A e \in Entities : EntityOK(e)
        /\ \A e \in Evaluations : EvaluationOK(e)

USE DEF Steps, RowStatuses, Working, Answers

------------------------------------------------------------------------------
(* What a step does to the rows. *)

\* A row changes by its insert or by its one outcome, from running.
RowChanges(e) ==
  \/ row[e] = "absent" /\ row' = [row EXCEPT ![e] = "running"]
  \/ /\ row[e] = "running"
     /\ \E s \in {"succeeded", "failed", "start_failed"} : row' = [row EXCEPT ![e] = s]

EntityStep(e) == \/ Handler(e) \/ ApiCrash(e)
                 \/ StartTakesEffect(e) \/ StartIsLost(e)
                 \/ WorkflowWrites(e) \/ WorkflowCloses(e)

\* A step leaves the rows alone or makes one of the few changes a row ever sees.
LEMMA RowStep ==
  ASSUME IInv, [Next]_vars
  PROVE  UNCHANGED row \/ \E e \in Entities : RowChanges(e)
  <1> USE DEF IInv
  <1>1. ASSUME NEW e \in Checklists, PostChecklist(e) PROVE UNCHANGED row
    BY <1>1 DEF PostChecklist
  <1>2. ASSUME NEW e \in Evaluations, NEW c \in Checklists, PostEvaluation(e, c) PROVE UNCHANGED row
    BY <1>2 DEF PostEvaluation
  <1>3. ASSUME NEW e \in Evaluations, CheckChecklist(e) PROVE UNCHANGED row
    BY <1>3 DEF CheckChecklist
  <1>4. ASSUME NEW e \in Entities, EntityStep(e) PROVE UNCHANGED row \/ RowChanges(e)
    <2>1. EntityOK(e)
      OBVIOUS
    <2>2. CASE Insert(e)
      BY <2>1, <2>2 DEF Insert, EntityOK, RowChanges
    <2>3. CASE Persist(e)
      BY <2>3 DEF Persist, RowChanges
    <2>4. CASE WorkflowWrites(e)
      BY <2>4 DEF WorkflowWrites, RowChanges
    <2>5. CASE SendStart(e) \/ StartReturns(e) \/ StartFails(e) \/ Describe(e) \/ ApiCrash(e)
               \/ StartTakesEffect(e) \/ StartIsLost(e) \/ WorkflowCloses(e)
      BY <2>5 DEF SendStart, StartReturns, StartFails, Describe, ApiCrash, StartTakesEffect,
                  StartIsLost, WorkflowCloses
    <2>. QED BY <1>4, <2>2, <2>3, <2>4, <2>5 DEF EntityStep, Handler
  <1>. QED BY <1>1, <1>2, <1>3, <1>4 DEF Next, EntityStep, vars

\* A checklist that has succeeded stays so.
LEMMA SucceededStays ==
  ASSUME IInv, [Next]_vars, NEW c \in Entities, row[c] = "succeeded"
  PROVE  row'[c] = "succeeded"
  BY RowStep DEF IInv, TypeOK, RowChanges

------------------------------------------------------------------------------
(* The invariant. *)

\* Nothing posted, nothing in flight, nothing executed.
LEMMA InvariantInit == Init => IInv
  BY DEF Init, IInv, TypeOK, EntityOK, EvaluationOK, Entities

\* A step of one entity's handler, requests or workflow keeps the types and what is
\* said of that entity, and touches no other.
LEMMA EntityStepOK ==
  ASSUME IInv, NEW e \in Entities, EntityStep(e)
  PROVE  /\ TypeOK' /\ EntityOK(e)' /\ UNCHANGED of
         /\ \A f \in Entities \ {e} :
              UNCHANGED <<pc[f], row[f], starts[f], execution[f], executions[f]>>
         /\ pc'[e] \notin {"check", "insert"}
         /\ row'[e] # "absent" => row[e] # "absent" \/ pc[e] = "insert"
  <1> USE DEF IInv, TypeOK, EntityOK, Goto
  <1>0. TypeOK /\ EntityOK(e)
    OBVIOUS
  <1> HIDE DEF IInv
  <1>1. CASE Insert(e)
    BY <1>0, <1>1 DEF Insert
  <1>2. CASE SendStart(e)
    BY <1>0, <1>2 DEF SendStart
  <1>3. CASE StartReturns(e)
    BY <1>0, <1>3 DEF StartReturns
  <1>4. CASE StartFails(e)
    BY <1>0, <1>4 DEF StartFails
  <1>5. CASE Describe(e)
    BY <1>0, <1>5 DEF Describe
  <1>6. CASE Persist(e)
    BY <1>0, <1>6 DEF Persist
  <1>7. CASE ApiCrash(e)
    BY <1>0, <1>7 DEF ApiCrash
  <1>8. CASE StartTakesEffect(e)
    BY <1>0, <1>8 DEF StartTakesEffect
  <1>9. CASE StartIsLost(e)
    BY <1>0, <1>9 DEF StartIsLost
  <1>10. CASE WorkflowWrites(e)
    BY <1>0, <1>10 DEF WorkflowWrites
  <1>11. CASE WorkflowCloses(e)
    BY <1>0, <1>11 DEF WorkflowCloses
  <1>. QED BY <1>1, <1>2, <1>3, <1>4, <1>5, <1>6, <1>7, <1>8, <1>9, <1>10, <1>11
           DEF EntityStep, Handler

\* Handlers, requests in flight and executions all keep the invariant.
LEMMA InvariantStep == IInv /\ [Next]_vars => IInv'
  <1> SUFFICES ASSUME IInv, [Next]_vars PROVE IInv'
    OBVIOUS
  <1>s. \A c \in Checklists : row[c] = "succeeded" => row'[c] = "succeeded"
    BY SucceededStays DEF Entities
  <1>k. ASSUME NEW f \in Evaluations, UNCHANGED <<pc[f], of[f], row[f]>>
        PROVE  EvaluationOK(f)'
    BY <1>k, <1>s DEF IInv, EvaluationOK
  <1>1. ASSUME NEW e \in Checklists, PostChecklist(e) PROVE IInv'
    <2>1. \A f \in Evaluations : f # e
      BY EntitiesAssumption
    <2>2. \A f \in Evaluations : EvaluationOK(f)'
      BY <1>1, <1>k, <2>1 DEF PostChecklist, Goto, IInv, TypeOK, Entities
    <2>. QED BY <1>1, <2>2 DEF PostChecklist, Goto, IInv, TypeOK, EntityOK, Entities
  <1>2. ASSUME NEW e \in Evaluations, NEW c \in Checklists, PostEvaluation(e, c) PROVE IInv'
    <2>1. e \in Entities /\ EntityOK(e) /\ TypeOK
      BY DEF IInv, Entities
    <2>2. TypeOK' /\ \A f \in Entities : EntityOK(f)'
      BY <1>2, <2>1 DEF PostEvaluation, Goto, IInv, TypeOK, EntityOK
    <2>3. EvaluationOK(e)'
      BY <1>2, <2>1 DEF PostEvaluation, Goto, TypeOK, EntityOK, EvaluationOK
    <2>4. \A f \in Evaluations \ {e} : UNCHANGED <<pc[f], of[f], row[f]>>
      BY <1>2, <2>1 DEF PostEvaluation, Goto, TypeOK, Entities
    <2>. QED BY <1>k, <2>2, <2>3, <2>4 DEF IInv
  <1>3. ASSUME NEW e \in Evaluations, CheckChecklist(e) PROVE IInv'
    <2>1. e \in Entities /\ EntityOK(e) /\ TypeOK /\ EvaluationOK(e)
      BY DEF IInv, Entities
    <2>2. TypeOK' /\ \A f \in Entities : EntityOK(f)'
      BY <1>3, <2>1 DEF CheckChecklist, Goto, IInv, TypeOK, EntityOK
    <2>3. EvaluationOK(e)'
      BY <1>3, <2>1 DEF CheckChecklist, Goto, TypeOK, EntityOK, EvaluationOK
    <2>4. \A f \in Evaluations \ {e} : UNCHANGED <<pc[f], of[f], row[f]>>
      BY <1>3, <2>1 DEF CheckChecklist, Goto, TypeOK, Entities
    <2>. QED BY <1>k, <2>2, <2>3, <2>4 DEF IInv
  <1>4. ASSUME NEW e \in Entities, EntityStep(e) PROVE IInv'
    <2>1. \A f \in Entities : EntityOK(f)'
      BY <1>4, EntityStepOK DEF IInv, EntityOK
    <2>2. ASSUME NEW f \in Evaluations PROVE EvaluationOK(f)'
      <3>1. CASE f = e
        <4>1. EvaluationOK(e)
          BY <3>1 DEF IInv
        <4>2. UNCHANGED of /\ pc'[e] \notin {"check", "insert"}
              /\ (row'[e] # "absent" => row[e] # "absent" \/ pc[e] = "insert")
          BY <1>4, EntityStepOK
        <4>. QED BY <1>s, <3>1, <4>1, <4>2 DEF EvaluationOK
      <3>2. CASE f # e
        BY <1>4, <1>k, <3>2, EntityStepOK DEF Entities
      <3>. QED BY <3>1, <3>2
    <2>. QED BY <1>4, <2>1, <2>2, EntityStepOK DEF IInv
  <1>5. CASE UNCHANGED vars
    BY <1>5 DEF vars, IInv, TypeOK, EntityOK, EvaluationOK
  <1>. QED BY <1>1, <1>2, <1>3, <1>4, <1>5 DEF Next, EntityStep

------------------------------------------------------------------------------
(* The theorems. *)

\* Handlers, requests, executions and rows fit together in every reachable state.
THEOREM StartInvariant == Spec => []IInv
  BY InvariantInit, InvariantStep, PTL DEF Spec

\* A 202 is followed by a workflow, and never by a row that says it did not start.
THEOREM StartAcceptedIsStarted == Spec => []AcceptedIsStarted
  <1>1. IInv => AcceptedIsStarted
    BY DEF IInv, EntityOK, AcceptedIsStarted
  <1>. QED BY <1>1, StartInvariant, PTL

\* However often a start request is sent and however late it lands, there is one
\* execution, and it has a row.
THEOREM StartExecutedAtMostOnce == Spec => []ExecutedAtMostOnce
  <1>1. IInv => ExecutedAtMostOnce
    BY DEF IInv, EntityOK, ExecutedAtMostOnce
  <1>. QED BY <1>1, StartInvariant, PTL

\* The status read before the insert still holds at the insert and ever after.
THEOREM StartEvaluatedHasSucceeded == Spec => []EvaluatedHasSucceeded
  <1>1. IInv => EvaluatedHasSucceeded
    BY DEF IInv, EvaluationOK, EvaluatedHasSucceeded
  <1>. QED BY <1>1, StartInvariant, PTL

\* Whoever writes it, workflow or handler, a row gets one outcome and keeps it.
THEOREM StartImplementsLifecycle == Spec => ImplementsLifecycle
  <1>1. Init => Lifecycle!Init
    BY DEF Init, Lifecycle!Init, LifecycleState
  <1>2. IInv /\ [Next]_vars => [Lifecycle!Next]_LifecycleState
    <2> SUFFICES ASSUME IInv, [Next]_vars PROVE [Lifecycle!Next]_LifecycleState
      OBVIOUS
    <2>1. CASE UNCHANGED row
      BY <2>1 DEF LifecycleState
    <2>2. ASSUME NEW e \in Entities, RowChanges(e) PROVE Lifecycle!Next
      <3>1. row \in [Entities -> RowStatuses]
        BY DEF IInv, TypeOK
      <3>2. CASE row[e] = "absent" /\ row' = [row EXCEPT ![e] = "running"]
        <4>1. LifecycleState[e] = <<"absent">>
          BY <3>2 DEF LifecycleState
        <4>2. LifecycleState' = [LifecycleState EXCEPT ![e] = <<"running">>]
          BY <3>1, <3>2 DEF LifecycleState
        <4>. QED BY <4>1, <4>2 DEF Lifecycle!Next, Lifecycle!Create
      <3>3. ASSUME NEW s \in {"succeeded", "failed", "start_failed"},
                   row[e] = "running", row' = [row EXCEPT ![e] = s]
            PROVE  Lifecycle!Next
        <4>1. LifecycleState[e] = <<"running">>
          BY <3>3 DEF LifecycleState
        <4>2. LifecycleState' = [LifecycleState EXCEPT ![e] = <<"done", s>>]
          BY <3>1, <3>3 DEF LifecycleState
        <4>3. Lifecycle!Finish(e, s)
          BY <4>1, <4>2 DEF Lifecycle!Finish, Lifecycle!Done
        <4>. QED BY <4>3 DEF Lifecycle!Next
      <3>. QED BY <2>2, <3>2, <3>3 DEF RowChanges
    <2>. QED BY <2>1, <2>2, RowStep
  <1>. QED BY <1>1, <1>2, StartInvariant, PTL DEF Spec, ImplementsLifecycle, Lifecycle!Spec
===============================================================================
