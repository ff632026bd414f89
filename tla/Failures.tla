------------------------------ MODULE Failures ------------------------------
(***************************************************************************)
(* How an error becomes a failure record: FailureDetails and               *)
(* ToTemporalError in an activity (internal/activities/errors.go), what    *)
(* Temporal's retry policy makes of it (internal/workflows/options.go) and *)
(* workflowFailureDetails in the workflow (internal/workflows/failure.go). *)
(*                                                                         *)
(* An error is its kind.  What a cause carries are the details the         *)
(* activity attached; a timeout, or an error of the workflow's own code,   *)
(* carries none.                                                           *)
(***************************************************************************)
EXTENDS Integers

CONSTANT NoDetails

\* The kinds: model_output and infra_* of internal/llm, semantic of evalcore,
\* response_size, and other for everything else (the store, the artifacts).
ErrorKinds == {"model_output", "semantic", "infra_fatal", "response_size",
               "infra_retryable", "other"}

ErrorClass(kind) ==
  CASE kind \in {"model_output", "semantic"} -> "model_output_invalid"
    [] kind \in {"infra_fatal", "response_size"} -> "infra_non_retryable"
    [] kind \in {"infra_retryable", "other"} -> "infra_retryable"

FailureDetails(kind, attempt) ==
  [kind |-> kind,
   class |-> ErrorClass(kind),
   retryable |-> kind \in {"infra_retryable", "other"},
   attempts |-> IF attempt <= 0 THEN 1 ELSE attempt]

\* What an activity attempt returns for an error: ToTemporalError.
ToTemporalError(kind, attempt) == [kind |-> kind, carried |-> FailureDetails(kind, attempt)]

\* The server ends an attempt itself; and an error made in the workflow's code.
TimeoutError == [kind |-> "other", carried |-> NoDetails]
WorkflowError(kind) == [kind |-> kind, carried |-> NoDetails]

\* NonRetryable of the application error, or a class the policy lists.
Retried(error) ==
  error.carried # NoDetails =>
    /\ error.carried.retryable
    /\ error.carried.class \notin {"model_output_invalid", "infra_non_retryable"}

WorkflowFailureDetails(stage, cause) ==
  [stage |-> stage,
   details |-> IF cause.carried # NoDetails THEN cause.carried ELSE FailureDetails(cause.kind, 1)]
=============================================================================
