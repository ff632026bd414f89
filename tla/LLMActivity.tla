----------------------------- MODULE LLMActivity -----------------------------
(***************************************************************************)
(* One activity that calls the model (internal/activities/llm.go), over    *)
(* its attempts: the call, the trace stored in Garage under keys that      *)
(* carry the attempt, the validator and what is reported.  An attempt that *)
(* was given up on goes on storing while its retry runs.  Writes to Garage *)
(* (internal/artifacts) fail, and may have taken effect when they do.      *)
(***************************************************************************)
EXTENDS LLMClient

CONSTANTS MaxAttempts, MaxOrphans, NoError, NoDetails

ASSUME AttemptsAssumption == MaxAttempts \in Nat \ {0}

VARIABLES local,      \* per attempt: where its body is (at which part to store) and what it has
          artifacts,  \* Garage: what is stored under each key
          task, bodies

vars == <<local, artifacts, task, bodies>>

INSTANCE ActivityTasks WITH Tasks <- {"llm"}

Attempts == 1..MaxAttempts
Keys == {"request", "response"} \X Attempts
Nothing == [part |-> "nothing", attempt |-> 0]

Fresh == [pc |-> "call", kind |-> "none", parts |-> {}, references |-> {},
          artifactError |-> FALSE, whole |-> FALSE]

Init == /\ local = [n \in Attempts |-> Fresh]
        /\ artifacts = [k \in Keys |-> Nothing]
        /\ InitTasks

\* Mutant: a retry stores under the keys of the first attempt.
KeyOfPrompt(part, n) == <<part, 1>>

\* llmAttemptKey, with the attempt the Temporal server counted.
Key(part, n) == <<part, n>>

Goes(n, changes) == local' = [local EXCEPT ![n] = changes]

\* Whether the provider sent the arguments complete, in one response it can be read from.
SentWhole(x) == /\ x.route = "answered" /\ x.status = 200 /\ x.readable /\ x.valid /\ ~x.truncated
                /\ \/ \E i \in DOMAIN x.events : x.events[i] \in {Event("arguments_done", Whole),
                                                                    Event("item_done", Whole)}
                   \/ \A i \in 1..Pieces : i \in DOMAIN x.events /\ x.events[i] = Deltas[i]

\* What GenerateJSON may return.
Returns == {[kind |-> ErrorKind(x), parts |-> Parts(x), whole |-> SentWhole(x)] : x \in Exchanges}

\* GenerateJSON returns.
Generate(b) ==
  LET n == b.attempt IN
  /\ local[n].pc = "call"
  /\ \E r \in Returns :
       Goes(n, [local[n] EXCEPT !.pc = "request", !.kind = r.kind, !.parts = r.parts,
                                !.whole = r.whole])
  /\ UNCHANGED <<artifacts, task, bodies>>

\* Artifacts.Write: stored, failed, or stored without the caller learning of it.
Write(n, part, next) ==
  \/ /\ artifacts' = [artifacts EXCEPT ![Key(part, n)] = [part |-> part, attempt |-> n]]
     /\ Goes(n, [local[n] EXCEPT !.pc = next, !.references = @ \cup {Key(part, n)}])
  \/ /\ artifacts' = [artifacts EXCEPT ![Key(part, n)] = [part |-> part, attempt |-> n]]
     /\ Goes(n, [local[n] EXCEPT !.pc = next, !.artifactError = TRUE])
  \/ /\ UNCHANGED artifacts
     /\ Goes(n, [local[n] EXCEPT !.pc = next, !.artifactError = TRUE])

Skip(n, next) == Goes(n, [local[n] EXCEPT !.pc = next]) /\ UNCHANGED artifacts

\* runLLM: each part there is of the trace; a failed write does not stop the next.
Store(b, part, next) ==
  LET n == b.attempt IN
  /\ local[n].pc = part
  /\ IF part \in local[n].parts THEN Write(n, part, next) ELSE Skip(n, next)
  /\ UNCHANGED <<task, bodies>>

\* The error of the artifacts goes before the error of the call.
Reported(kind, artifactError) == IF artifactError THEN "other" ELSE kind

\* The activity returns; of an output that came through, the validator may turn
\* the content down.
Finish(b) ==
  LET n == b.attempt
      kind == Reported(local[n].kind, local[n].artifactError) IN
  /\ local[n].pc = "return"
  /\ \/ /\ kind # "none"
        /\ Report(b, ToTemporalError(kind, n))
        /\ Goes(n, [local[n] EXCEPT !.pc = "failed"])
     \/ /\ kind = "none"
        /\ Report(b, NoError)
        /\ Goes(n, [local[n] EXCEPT !.pc = "succeeded"])
     \/ /\ kind = "none"
        /\ Report(b, ToTemporalError(Reported("semantic", FALSE), n))
        /\ Goes(n, [local[n] EXCEPT !.pc = "failed", !.kind = "semantic"])
  /\ UNCHANGED artifacts

WorkflowSchedules == /\ task["llm"].state = "unscheduled"
                     /\ task' = Scheduled({"llm"})
                     /\ UNCHANGED <<local, artifacts, bodies>>

Server == /\ Dispatch("llm") \/ TimeOut("llm")
          /\ UNCHANGED <<local, artifacts>>

WorkerDies(b) == Crash(b) /\ UNCHANGED <<local, artifacts>>

Next == \/ WorkflowSchedules \/ Server
        \/ \E b \in bodies : \/ Generate(b)
                             \/ Store(b, "request", "response")
                             \/ Store(b, "response", "return")
                             \/ Finish(b) \/ WorkerDies(b)

Spec == Init /\ [][Next]_vars

------------------------------------------------------------------------------
(* Properties. *)

Returned(n) == local[n].pc \in {"failed", "succeeded"}

\* The evidence of a call stands.  What is stored under the keys of attempt n is the
\* trace of attempt n and of no other, orphans and retries side by side; an attempt
\* that has returned refers to what it stored, and if its writes did not fail that
\* is all of its trace, whether the call succeeded or not.
EvidenceStands ==
  /\ \A k \in Keys : artifacts[k] # Nothing => artifacts[k] = [part |-> k[1], attempt |-> k[2]]
  /\ \A n \in Attempts : Returned(n) =>
       /\ \A key \in local[n].references : artifacts[key] = [part |-> key[1], attempt |-> n]
       /\ ~local[n].artifactError => {key[1] : key \in local[n].references} = local[n].parts
       /\ ~local[n].artifactError => "request" \in local[n].parts

\* An activity only succeeds on output the provider sent complete and valid: a
\* stream cut short, failed on the way or over the size limit is never taken for it.
SuccessIsWhole == \A n \in Attempts : local[n].pc = "succeeded" => local[n].whole
==============================================================================
