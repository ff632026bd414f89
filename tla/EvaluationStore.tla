--------------------------- MODULE EvaluationStore ---------------------------
(***************************************************************************)
(* The evaluation half of internal/db/store.go on Postgres, read the way   *)
(* ChecklistStore is: sessions, statements, private writes until Commit,   *)
(* the row lock.  Checklists go through the Lifecycle ChecklistStore       *)
(* implements while evaluations are created, succeed, fail and are read;   *)
(* a succeeded checklist has the questions Questions and the runs Runs,    *)
(* any other has no questions yet.  The pool is not limited here.          *)
(***************************************************************************)
EXTENDS EvalCore

CONSTANTS Checklists, Evaluations, Sessions,
          Questions,    \* the final question ids of a succeeded checklist
          Runs,         \* its evaluation_runs
          Contents,     \* arguments of SucceedEvaluation: judgments and score
          Details,      \* arguments of FailEvaluation that pass Details.Validate
          NoFailure, NoSession, NoScore, NoChecklist

\* RunJudgment of evalcore; an id is the number in it.
Judgments == [run : Int, question : Nat, evidence : Texts, answer : STRING]

ASSUME ContentsAssumption == \A c \in Contents : c.judgments \in Seq(Judgments)
ASSUME QuestionsAssumption == Questions \in Seq(Nat)
ASSUME RunsAssumption == Runs \in Nat /\ ValidEvaluationRuns(Runs, Runs)
ASSUME SentinelAssumption == NoFailure \notin Details /\ NoSession \notin Sessions

VARIABLES checklist,  \* checklists.status
          status,     \* evaluations.status, "absent" before the insert
          of,         \* evaluations.checklist_id
          judgments,  \* the committed judgments rows
          score,      \* the committed points of the evaluations row
          failure,    \* the committed workflow_failures row
          lock, pc, call, result,
          readRow, readFailure, readJudgments  \* what GetEvaluation has read so far

reads == <<readRow, readFailure, readJudgments>>
database == <<checklist, status, of, judgments, score, failure, lock>>
vars == <<database, pc, call, result, reads>>

------------------------------------------------------------------------------
(* Data. *)

\* A judgments row, and the set of them a list of run judgments becomes: the
\* primary key is (evaluation_id, run_index, question_id).
RowsOf(runJudgments) == ToSet(runJudgments)

\* GetEvaluation lists the rows ORDER BY run_index, question_id.
Before(a, b) == a.run < b.run \/ (a.run = b.run /\ a.question < b.question)
Listed(rows) == CHOOSE list \in [1..Cardinality(rows) -> rows] :
                  \A i, j \in DOMAIN list : i < j => Before(list[i], list[j])

\* SucceedEvaluation before its transaction: AggregateJudgments, then the score.
IsScored(c) == /\ ValidRunJudgments(Questions, c.judgments, Runs)
               /\ c.score = AggregateScore(Questions, c.judgments, Runs)

NoRow == [status |-> "absent", of |-> NoChecklist, score |-> NoScore]

Terminal(e) == status[e] \in {"succeeded", "failed"}

\* Mutant: the lists of judgments are compared in order.
SameList(a, b) == a = b

\* runJudgmentsEqual: as long, and the same judgment under every key.
RunJudgmentsEqual(a, b) == Len(a) = Len(b) /\ ToSet(b) \subseteq ToSet(a)

------------------------------------------------------------------------------
Init == /\ checklist = [k \in Checklists |-> "running"]
        /\ status = [e \in Evaluations |-> "absent"]
        /\ of = [e \in Evaluations |-> NoChecklist]
        /\ judgments = [e \in Evaluations |-> {}]
        /\ score = [e \in Evaluations |-> NoScore]
        /\ failure = [e \in Evaluations |-> NoFailure]
        /\ lock = [e \in Evaluations |-> NoSession]
        /\ pc = [s \in Sessions |-> "idle"]
        /\ call = [s \in Sessions |-> [op |-> "none"]]
        /\ result = [s \in Sessions |-> "none"]
        /\ readRow = [s \in Sessions |-> NoRow]
        /\ readFailure = [s \in Sessions |-> NoFailure]
        /\ readJudgments = [s \in Sessions |-> {}]

\* SucceedChecklist or FailChecklist commits.
ChecklistEnds(k) ==
  /\ checklist[k] = "running"
  /\ \E st \in {"succeeded", "failed"} : checklist' = [checklist EXCEPT ![k] = st]
  /\ UNCHANGED <<status, of, judgments, score, failure, lock, pc, call, result, reads>>

Goto(s, step) == pc' = [pc EXCEPT ![s] = step] /\ UNCHANGED result
Return(s, r) == /\ pc' = [pc EXCEPT ![s] = "idle"]
                /\ result' = [result EXCEPT ![s] = r]

Unlock(s) == lock' = [e \in Evaluations |-> IF lock[e] = s THEN NoSession ELSE lock[e]]

Call(s, c, step) ==
  /\ pc[s] = "idle"
  /\ pc' = [pc EXCEPT ![s] = step]
  /\ call' = [call EXCEPT ![s] = c]
  /\ result' = [result EXCEPT ![s] = "none"]
  /\ readRow' = [readRow EXCEPT ![s] = NoRow]
  /\ readFailure' = [readFailure EXCEPT ![s] = NoFailure]
  /\ readJudgments' = [readJudgments EXCEPT ![s] = {}]
  /\ UNCHANGED database

CreateEvaluation(s, e, k) == Call(s, [op |-> "create", id |-> e, of |-> k], "check")
SucceedEvaluation(s, e, k, c) == Call(s, [op |-> "succeed", id |-> e, of |-> k, arg |-> c], "validate")
FailEvaluation(s, e, k, d) == Call(s, [op |-> "fail", id |-> e, of |-> k, arg |-> d], "lock")
GetEvaluation(s, e) == Call(s, [op |-> "get", id |-> e], "row")

\* CreateEvaluation, CreateEvaluationForWorkflow: one statement reads the status,
CheckChecklist(s) ==
  /\ pc[s] = "check"
  /\ IF checklist[call[s].of] = "succeeded" THEN Goto(s, "insert_row") ELSE Return(s, "conflict")
  /\ UNCHANGED <<database, call, reads>>

\* another one inserts the row, under an id nobody has.
InsertRow(s) ==
  /\ pc[s] = "insert_row"
  /\ status[call[s].id] = "absent"
  /\ status' = [status EXCEPT ![call[s].id] = "running"]
  /\ of' = [of EXCEPT ![call[s].id] = call[s].of]
  /\ Return(s, "ok")
  /\ UNCHANGED <<checklist, judgments, score, failure, lock, call, reads>>

\* Mutant: the score is taken from the caller.
ValidateUnscored(s) ==
  /\ pc[s] = "validate"
  /\ IF checklist[call[s].of] = "succeeded" /\ ValidRunJudgments(Questions, call[s].arg.judgments, Runs)
       THEN Goto(s, "lock")
       ELSE Return(s, "invalid")
  /\ UNCHANGED <<database, call, reads>>

\* GetChecklist, AggregateJudgments and scoreResultsEqual.
Validate(s) ==
  /\ pc[s] = "validate"
  /\ IF checklist[call[s].of] = "succeeded" /\ IsScored(call[s].arg)
       THEN Goto(s, "lock")
       ELSE Return(s, "invalid")
  /\ UNCHANGED <<database, call, reads>>

\* Mutant: the row is locked by its id alone.
LockAnyRunning(s) ==
  /\ pc[s] = "lock"
  /\ lock[call[s].id] = NoSession
  /\ status[call[s].id] = "running"
  /\ lock' = [lock EXCEPT ![call[s].id] = s]
  /\ Goto(s, "insert")
  /\ UNCHANGED <<checklist, status, of, judgments, score, failure, call, reads>>

\* WHERE id = $1 AND checklist_id = $2 FOR UPDATE finds a running row,
LockRunning(s) ==
  /\ pc[s] = "lock"
  /\ of[call[s].id] = call[s].of
  /\ lock[call[s].id] = NoSession
  /\ status[call[s].id] = "running"
  /\ lock' = [lock EXCEPT ![call[s].id] = s]
  /\ Goto(s, "insert")
  /\ UNCHANGED <<checklist, status, of, judgments, score, failure, call, reads>>

\* a terminal one: roll back and compare,
LockTerminal(s) ==
  /\ pc[s] = "lock"
  /\ of[call[s].id] = call[s].of
  /\ lock[call[s].id] = NoSession
  /\ Terminal(call[s].id)
  /\ Goto(s, "row")
  /\ UNCHANGED <<database, call, reads>>

\* or no row of that checklist.
LockNothing(s) ==
  /\ pc[s] = "lock"
  /\ of[call[s].id] # call[s].of
  /\ Return(s, "not_found")
  /\ UNCHANGED <<database, call, reads>>

\* The INSERTs, private to the transaction.
Insert(s) ==
  /\ pc[s] = "insert"
  /\ Goto(s, "update")
  /\ UNCHANGED <<database, call, reads>>

\* UPDATE ... WHERE status = 'running'.
Update(s) ==
  /\ pc[s] = "update"
  /\ IF status[call[s].id] = "running"
       THEN Goto(s, "commit") /\ UNCHANGED lock
       ELSE Return(s, "conflict") /\ Unlock(s)
  /\ UNCHANGED <<checklist, status, of, judgments, score, failure, call, reads>>

PublishSuccess(e, c) ==
  /\ status' = [status EXCEPT ![e] = "succeeded"]
  /\ judgments' = [judgments EXCEPT ![e] = RowsOf(c.judgments)]
  /\ score' = [score EXCEPT ![e] = c.score]
  /\ UNCHANGED failure

\* Mutant: the row fails in a statement of its own, the record never follows.
PublishFailureStatus(e, d) ==
  /\ status' = [status EXCEPT ![e] = "failed"]
  /\ UNCHANGED <<failure, judgments, score>>

PublishFailure(e, d) ==
  /\ status' = [status EXCEPT ![e] = "failed"]
  /\ failure' = [failure EXCEPT ![e] = d]
  /\ UNCHANGED <<judgments, score>>

\* The commit is acknowledged, or the acknowledgement is lost.
Commit(s) ==
  /\ pc[s] = "commit"
  /\ \/ call[s].op = "succeed" /\ PublishSuccess(call[s].id, call[s].arg)
     \/ call[s].op = "fail" /\ PublishFailure(call[s].id, call[s].arg)
  /\ Unlock(s)
  /\ Return(s, "ok") \/ Return(s, "error")
  /\ UNCHANGED <<checklist, of, call, reads>>

\* A statement fails, the context ends or the process dies.
Abort(s) ==
  /\ pc[s] # "idle"
  /\ Return(s, "error")
  /\ Unlock(s)
  /\ UNCHANGED <<checklist, status, of, judgments, score, failure, call, reads>>

(* GetEvaluation, on its own or to compare a retry. *)

ReadRow(s) ==
  LET e == call[s].id IN
  /\ pc[s] = "row"
  /\ IF status[e] = "absent" THEN Return(s, "not_found") /\ UNCHANGED readRow
     ELSE /\ readRow' = [readRow EXCEPT ![s] = [status |-> status[e], of |-> of[e], score |-> score[e]]]
          /\ Goto(s, IF status[e] = "failed" THEN "failure" ELSE "judgments")
  /\ UNCHANGED <<database, call, readFailure, readJudgments>>

ReadFailure(s) ==
  LET e == call[s].id IN
  /\ pc[s] = "failure"
  /\ readFailure' = [readFailure EXCEPT ![s] = failure[e]]
  /\ IF failure[e] = NoFailure THEN Return(s, "not_found") ELSE Goto(s, "judgments")
  /\ UNCHANGED <<database, call, readRow, readJudgments>>

ReadJudgments(s) ==
  /\ pc[s] = "judgments"
  /\ readJudgments' = [readJudgments EXCEPT ![s] = judgments[call[s].id]]
  /\ Goto(s, "answer")
  /\ UNCHANGED <<database, call, readRow, readFailure>>

\* compareSucceededEvaluation and compareFailedEvaluation.
Matches(c, row, f, rows) ==
  /\ row.of = c.of
  /\ CASE c.op = "succeed" -> /\ row.status = "succeeded"
                              /\ RunJudgmentsEqual(Listed(rows), c.arg.judgments)
                              /\ row.score = c.arg.score
       [] c.op = "fail" -> row.status = "failed" /\ f = c.arg

\* The judgments of a succeeded row are aggregated again with the checklist's
\* questions before anything is returned.
Answer(s) ==
  LET c == call[s]
      rows == readJudgments[s]
      whole == \/ readRow[s].status # "succeeded"
               \/ /\ checklist[readRow[s].of] = "succeeded"
                  /\ ValidRunJudgments(Questions, Listed(rows), Runs)
  IN /\ pc[s] = "answer"
     /\ Return(s, CASE ~whole -> "corrupt"
                    [] whole /\ c.op = "get" -> "found"
                    [] OTHER -> IF Matches(c, readRow[s], readFailure[s], rows) THEN "ok" ELSE "conflict")
     /\ UNCHANGED <<database, call, reads>>

\* Mutant: the judgments are read before the row.
ReadJudgmentsFirst(s) ==
  LET e == call[s].id IN
  \/ /\ pc[s] = "row"
     /\ readJudgments' = [readJudgments EXCEPT ![s] = judgments[e]]
     /\ Goto(s, "judgments")
     /\ UNCHANGED <<database, call, readRow, readFailure>>
  \/ /\ pc[s] = "judgments"
     /\ readRow' = [readRow EXCEPT ![s] = [status |-> status[e], of |-> of[e], score |-> score[e]]]
     /\ readFailure' = [readFailure EXCEPT ![s] = failure[e]]
     /\ Goto(s, "answer")
     /\ UNCHANGED <<database, call, readJudgments>>
  \/ Answer(s)

Read(s) == ReadRow(s) \/ ReadFailure(s) \/ ReadJudgments(s) \/ Answer(s)

Progress(s) == \/ CheckChecklist(s) \/ InsertRow(s) \/ Validate(s)
               \/ LockRunning(s) \/ LockTerminal(s) \/ LockNothing(s)
               \/ Insert(s) \/ Update(s) \/ Commit(s) \/ Read(s)

NewCall(s, e) == \/ GetEvaluation(s, e)
                 \/ \E k \in Checklists :
                      \/ CreateEvaluation(s, e, k)
                      \/ \E c \in Contents : SucceedEvaluation(s, e, k, c)
                      \/ \E d \in Details : FailEvaluation(s, e, k, d)

Next == \/ \E k \in Checklists : ChecklistEnds(k)
        \/ \E s \in Sessions : Progress(s) \/ Abort(s) \/ \E e \in Evaluations : NewCall(s, e)

Spec == Init /\ [][Next]_vars

Shown(st, points, rows, record) ==
  [status |-> st, score |-> points, judgments |-> rows, failure |-> record]

\* getEvaluation of the router: what the client is shown of what session s read.
Response(s) ==
  LET row == readRow[s]
      succeeded == row.status = "succeeded"
  IN Shown(row.status,
           IF succeeded THEN row.score ELSE NoScore,
           IF succeeded THEN readJudgments[s] ELSE {},
           IF row.status = "failed" THEN readFailure[s] ELSE NoFailure)

------------------------------------------------------------------------------
(* Properties. *)

\* A succeeded evaluation has a judgment of every question by every run and the
\* score that follows from them, whatever score its caller passed; a failed one has
\* its record and no judgments; one still running has none of these.
ScoreFollowsFromRows == \A e \in Evaluations :
  /\ status[e] = "succeeded" =>
       /\ {<<j.run, j.question>> : j \in judgments[e]} = (1..Runs) \X ToSet(Questions)
       /\ Cardinality(judgments[e]) = Runs * Len(Questions)
       /\ score[e] = AggregateScore(Questions, Listed(judgments[e]), Runs)
  /\ status[e] # "succeeded" => judgments[e] = {} /\ score[e] = NoScore
  /\ status[e] = "failed" <=> failure[e] # NoFailure

Holds(c) == /\ of[c.id] = c.of
            /\ CASE c.op = "succeed" -> /\ status[c.id] = "succeeded"
                                        /\ judgments[c.id] = RowsOf(c.arg.judgments)
                                        /\ score[c.id] = c.arg.score
                 [] c.op = "fail" -> status[c.id] = "failed" /\ failure[c.id] = c.arg
                 [] c.op = "create" -> status[c.id] # "absent"

\* A call that returned nil told the truth, about that checklist's evaluation.
AckedOutcomeStands == \A s \in Sessions : result[s] = "ok" => Holds(call[s])

\* Terminal operations are idempotent: a retry with the same judgments, in any
\* order, does not conflict.
IdenticalRetrySucceeds ==
  \A s \in Sessions : (result[s] = "conflict" /\ call[s].op # "create") => ~Holds(call[s])

\* GetEvaluation reads the row before the judgments and the handler shows by the
\* status of the row: a success never comes without its score and all of its
\* judgments (AggregateJudgments never fails on what was read), nor a failure
\* without its record, and nothing of an outcome is shown of a running evaluation.
ResponsesAreWhole == \A s \in Sessions :
  /\ result[s] # "corrupt"
  /\ result[s] = "found" => LET e == call[s].id IN
       Response(s) = CASE readRow[s].status = "succeeded" -> Shown("succeeded", score[e], judgments[e], NoFailure)
                       [] readRow[s].status = "failed" -> Shown("failed", NoScore, {}, failure[e])
                       [] OTHER -> Shown("running", NoScore, {}, NoFailure)

\* The statement-by-statement store implements the one-step life cycle; outcomes
\* are whole and never change.
Outcomes == {<<"succeeded", RowsOf(c.judgments), c.score>> : c \in {x \in Contents : IsScored(x)}}
              \cup {<<"failed", d>> : d \in Details}

LifecycleState ==
  [e \in Evaluations |->
     CASE status[e] = "succeeded" -> <<"done", <<"succeeded", judgments[e], score[e]>>>>
       [] status[e] = "failed" -> <<"done", <<"failed", failure[e]>>>>
       [] OTHER -> <<status[e]>>]

Lifecycle == INSTANCE Lifecycle WITH Entities <- Evaluations, state <- LifecycleState
ImplementsLifecycle == Lifecycle!Spec
==============================================================================
