------------------------------ MODULE Lifecycle ------------------------------
(***************************************************************************)
(* What the store promises about the life of a checklist or an evaluation: *)
(* an entity is created running, reaches at most one outcome, and the      *)
(* outcome it has reached never changes.  An outcome is the whole of what  *)
(* a caller can later read back: the content of a success or the details   *)
(* of a failure, so half an outcome is not a state of this specification.  *)
(*                                                                         *)
(* ChecklistStore and EvaluationStore are shown to implement this module.  *)
(***************************************************************************)
CONSTANTS Entities,   \* identifiers of checklists or of evaluations
          Outcomes    \* the complete terminal outcomes

VARIABLE state        \* per entity: "absent", "running" or <<"done", outcome>>

Done(o) == <<"done", o>>

Init == state = [e \in Entities |-> <<"absent">>]

Create(e) == /\ state[e] = <<"absent">>
             /\ state' = [state EXCEPT ![e] = <<"running">>]

Finish(e, o) == /\ state[e] = <<"running">>
                /\ state' = [state EXCEPT ![e] = Done(o)]

Next == \E e \in Entities : Create(e) \/ \E o \in Outcomes : Finish(e, o)

Spec == Init /\ [][Next]_state
==============================================================================
