---------------------------- MODULE ActivityTasks ----------------------------
(***************************************************************************)
(* Activities as the Temporal server and the workers run them, under the   *)
(* options of internal/workflows/options.go: StartToCloseTimeout, at most  *)
(* MaxAttempts attempts, no retry of the classes the policy lists.  The    *)
(* server and the SDK are external; this is what the code relies on.       *)
(*                                                                         *)
(* A body is one execution of an activity function in a worker.  The       *)
(* server gives up on an attempt when its timeout fires; the body does not *)
(* notice (no activity heartbeats) and runs on as an orphan beside its own *)
(* retry.  What an orphan reports is dropped, what it does is not.         *)
(***************************************************************************)
EXTENDS Failures, FiniteSets

CONSTANTS Tasks,        \* the activity tasks a workflow may schedule
          MaxAttempts,  \* RetryPolicy.MaximumAttempts
          MaxOrphans,   \* bound: orphans running at once
          NoError

VARIABLES task,    \* what the server knows of each task
          bodies   \* the executions going on in workers

Unscheduled == [state |-> "unscheduled", attempt |-> 0, error |-> NoError]

InitTasks == /\ task = [t \in Tasks |-> Unscheduled]
             /\ bodies = {}

\* did: what the body has done to the store so far, and was told about it.
Body(t, n) == [task |-> t, attempt |-> n, did |-> "nothing"]

IsCurrent(b) == task[b.task].state = "started" /\ task[b.task].attempt = b.attempt
Orphans == {b \in bodies : ~IsCurrent(b)}

Scheduled(ts) == [t \in Tasks |-> IF t \in ts THEN [Unscheduled EXCEPT !.state = "scheduled"]
                                             ELSE task[t]]

Dispatch(t) ==
  /\ task[t].state = "scheduled"
  /\ task' = [task EXCEPT ![t] =
                 [state |-> "started", attempt |-> task[t].attempt + 1, error |-> task[t].error]]
  /\ bodies' = bodies \cup {Body(t, task[t].attempt + 1)}

\* The server keeps of a closed task its result only.
Ended(s, error) == [state |-> s, attempt |-> 0, error |-> error]
Again(t, error) == [state |-> "scheduled", attempt |-> task[t].attempt, error |-> error]

\* Mutant: one retry too few.
SettledEarly(t, error) ==
  CASE error = NoError -> Ended("completed", NoError)
    [] error # NoError /\ Retried(error) /\ task[t].attempt < MaxAttempts - 1 -> Again(t, error)
    [] OTHER -> Ended("failed", error)

\* The task after its current attempt ended with error, or NoError.
Settled(t, error) ==
  CASE error = NoError -> Ended("completed", NoError)
    [] error # NoError /\ Retried(error) /\ task[t].attempt < MaxAttempts -> Again(t, error)
    [] OTHER -> Ended("failed", error)

\* A body returns.  The server takes the report of the current attempt only.
Report(b, error) ==
  /\ bodies' = bodies \ {b}
  /\ task' = IF IsCurrent(b) THEN [task EXCEPT ![b.task] = Settled(b.task, error)] ELSE task

\* The StartToCloseTimeout of the current attempt fires; its body runs on.
TimeOut(t) ==
  /\ task[t].state = "started"
  /\ (\E b \in bodies : b.task = t /\ IsCurrent(b)) => Cardinality(Orphans) < MaxOrphans
  /\ task' = [task EXCEPT ![t] = Settled(t, TimeoutError)]
  /\ UNCHANGED bodies

\* A worker dies: its bodies are gone and report nothing.
Crash(b) == bodies' = bodies \ {b} /\ UNCHANGED task
==============================================================================
