--------------------------- MODULE ChecklistStore ---------------------------
(***************************************************************************)
(* The checklist half of internal/db/store.go on Postgres.                 *)
(*                                                                         *)
(* Sessions are the goroutines of the API and of the worker that are       *)
(* inside a Store method: an activity attempt, an attempt Temporal has     *)
(* already given up on, a retry, an HTTP handler.  Each runs one call at a *)
(* time, statement by statement.  A transaction's writes stay private      *)
(* until its Commit; SELECT ... FOR UPDATE holds the row lock from the     *)
(* lock step to the end of the transaction; the statements of GetChecklist *)
(* run outside any transaction, each against what is committed when it     *)
(* runs.  A transaction holds one connection of the pool from Begin to     *)
(* Commit or Rollback, also while it waits for the lock.                   *)
(***************************************************************************)
EXTENDS Sequences, FiniteSets, Integers

CONSTANTS Checklists,  \* checklist ids
          Sessions,    \* concurrent callers of the store
          Contents,    \* arguments of SucceedChecklist
          Details,     \* arguments of FailChecklist that pass Details.Validate
          PoolSizes,   \* the connections a pgx pool may be configured to have
          NoFailure,   \* no workflow_failures row
          NoSession    \* nobody holds the row lock

ASSUME PoolSizesAssumption == PoolSizes \subseteq Nat \ {0}
ASSUME ContentsAssumption ==
  \A c \in Contents : c = [dimensions |-> c.dimensions, candidates |-> c.candidates,
                           weights |-> c.weights, questions |-> c.questions]
ASSUME SentinelAssumption == NoFailure \notin Details /\ NoSession \notin Sessions

VARIABLES status,   \* checklists.status, "absent" before the insert
          rows,     \* the committed child rows, as GetChecklist's queries list them
          failure,  \* the committed workflow_failures row
          lock,     \* the session whose transaction holds the row lock
          pc,       \* where each session is in its call
          call,     \* the call each session runs, or last ran
          result,   \* what the session's last call returned
          readStatus, readFailure, readRows,  \* what GetChecklist has read so far
          pool      \* connections in the pool, the same for good

reads == <<readStatus, readFailure, readRows>>
database == <<status, rows, failure, lock, pool>>
vars == <<database, pc, call, result, reads>>

------------------------------------------------------------------------------
(* Data. *)

IsWeighted(c) == /\ DOMAIN c.candidates # {}
                 /\ {c.weights[i].candidate : i \in DOMAIN c.weights}
                      = {c.candidates[i] : i \in DOMAIN c.candidates}
                 /\ \A i, j \in DOMAIN c.weights :
                      c.weights[i].candidate = c.weights[j].candidate => i = j

\* The weight rows come back joined to the candidates, ORDER BY q.ordinal.
InCandidateOrder(c) ==
  [i \in DOMAIN c.candidates |->
     CHOOSE w \in {c.weights[j] : j \in DOMAIN c.weights} : w.candidate = c.candidates[i]]

AsRead(c) == [dimensions |-> c.dimensions, candidates |-> c.candidates,
              weights |-> InCandidateOrder(c), questions |-> c.questions]

ValidContents == {c \in Contents : IsWeighted(c)}

NoRows == [dimensions |-> <<>>, candidates |-> <<>>, weights |-> <<>>, questions |-> <<>>]

Tables == {"dimensions", "candidates", "weights", "questions"}
TxSteps == {"lock", "insert", "update", "commit"}
ReadSteps == {"status", "failure"} \cup Tables
Steps == {"idle", "begin"} \cup TxSteps \cup ReadSteps

Calls == [op : {"succeed"}, id : Checklists, arg : Contents]
           \cup [op : {"fail"}, id : Checklists, arg : Details]
           \cup [op : {"get"}, id : Checklists]
           \cup [op : {"none"}]

StoredRows == {NoRows} \cup {AsRead(c) : c \in ValidContents}

\* What a reader may hold: each table as some commit left it.
ReadRows == [dimensions : {r.dimensions : r \in StoredRows},
             candidates : {r.candidates : r \in StoredRows},
             weights : {r.weights : r \in StoredRows},
             questions : {r.questions : r \in StoredRows}]

Statuses == {"absent", "running", "succeeded", "failed"}

Results == {"none", "ok", "found", "conflict", "not_found", "invalid", "error"}

Terminal(id) == status[id] \in {"succeeded", "failed"}

\* Mutant: a terminal row is compared before the transaction is rolled back.
CompareInTransaction ==
  {s \in Sessions : pc[s] \in TxSteps \/ (pc[s] \in ReadSteps /\ call[s].op # "get")}

InTransaction == {s \in Sessions : pc[s] \in TxSteps}
ConnectionFree == Cardinality(InTransaction) < pool

------------------------------------------------------------------------------
Init == /\ status = [id \in Checklists |-> "absent"]
        /\ rows = [id \in Checklists |-> NoRows]
        /\ failure = [id \in Checklists |-> NoFailure]
        /\ lock = [id \in Checklists |-> NoSession]
        /\ pc = [s \in Sessions |-> "idle"]
        /\ call = [s \in Sessions |-> [op |-> "none"]]
        /\ result = [s \in Sessions |-> "none"]
        /\ readStatus = [s \in Sessions |-> "absent"]
        /\ readFailure = [s \in Sessions |-> NoFailure]
        /\ readRows = [s \in Sessions |-> NoRows]
        /\ pool \in PoolSizes

Return(s, r) == /\ pc' = [pc EXCEPT ![s] = "idle"]
                /\ result' = [result EXCEPT ![s] = r]

\* Ends the transaction of s: its private writes are gone, its lock is free.
Unlock(s) == lock' = [id \in Checklists |-> IF lock[id] = s THEN NoSession ELSE lock[id]]

\* Mutant: the INSERT becomes an upsert that resets the row.
UpsertChecklist(id) ==
  /\ status' = [status EXCEPT ![id] = "running"]
  /\ UNCHANGED <<rows, failure, lock, pc, call, result, reads, pool>>

\* CreateChecklist and CreateChecklistForWorkflow: one autocommitted INSERT.
CreateChecklist(id) ==
  /\ status[id] = "absent"
  /\ status' = [status EXCEPT ![id] = "running"]
  /\ UNCHANGED <<rows, failure, lock, pc, call, result, reads, pool>>

Call(s, c, step) ==
  /\ pc[s] = "idle"
  /\ pc' = [pc EXCEPT ![s] = step]
  /\ call' = [call EXCEPT ![s] = c]
  /\ result' = [result EXCEPT ![s] = "none"]
  /\ readStatus' = [readStatus EXCEPT ![s] = "absent"]
  /\ readFailure' = [readFailure EXCEPT ![s] = NoFailure]
  /\ readRows' = [readRows EXCEPT ![s] = NoRows]
  /\ UNCHANGED database

SucceedChecklist(s, id, c) == Call(s, [op |-> "succeed", id |-> id, arg |-> c], "begin")
FailChecklist(s, id, d) == Call(s, [op |-> "fail", id |-> id, arg |-> d], "begin")
GetChecklist(s, id) == Call(s, [op |-> "get", id |-> id], "status")

\* The evalcore validators turn the arguments down before any statement runs.
RejectContent(s) ==
  /\ pc[s] = "begin"
  /\ call[s].op = "succeed"
  /\ call[s].arg \notin ValidContents
  /\ Return(s, "invalid")
  /\ UNCHANGED <<database, call, reads>>

Begin(s) ==
  /\ pc[s] = "begin"
  /\ call[s].op = "succeed" => call[s].arg \in ValidContents
  /\ ConnectionFree
  /\ pc' = [pc EXCEPT ![s] = "lock"]
  /\ UNCHANGED <<database, call, result, reads>>

\* Mutant: the status is read without FOR UPDATE.
ReadRunning(s) ==
  /\ pc[s] = "lock"
  /\ status[call[s].id] = "running"
  /\ lock' = [lock EXCEPT ![call[s].id] = s]
  /\ pc' = [pc EXCEPT ![s] = "insert"]
  /\ UNCHANGED <<status, rows, failure, call, result, reads, pool>>

\* lockStatus finds the row running: the transaction keeps the lock.
LockRunning(s) ==
  /\ pc[s] = "lock"
  /\ lock[call[s].id] = NoSession
  /\ status[call[s].id] = "running"
  /\ lock' = [lock EXCEPT ![call[s].id] = s]
  /\ pc' = [pc EXCEPT ![s] = "insert"]
  /\ UNCHANGED <<status, rows, failure, call, result, reads, pool>>

\* Mutant: every terminal row is a conflict, an identical retry included.
ConflictAtOnce(s) ==
  /\ pc[s] = "lock"
  /\ lock[call[s].id] = NoSession
  /\ Terminal(call[s].id)
  /\ Return(s, "conflict")
  /\ UNCHANGED <<database, call, reads>>

\* lockStatus finds a terminal row: roll back, then compare outside the transaction.
LockTerminal(s) ==
  /\ pc[s] = "lock"
  /\ lock[call[s].id] = NoSession
  /\ Terminal(call[s].id)
  /\ pc' = [pc EXCEPT ![s] = "status"]
  /\ UNCHANGED <<database, call, result, reads>>

LockAbsent(s) ==
  /\ pc[s] = "lock"
  /\ status[call[s].id] = "absent"
  /\ Return(s, "not_found")
  /\ UNCHANGED <<database, call, reads>>

\* The INSERTs of the child rows, or of the workflow_failures row, private to
\* the transaction: what they write is call[s].arg.
Insert(s) ==
  /\ pc[s] = "insert"
  /\ pc' = [pc EXCEPT ![s] = "update"]
  /\ UNCHANGED <<database, call, result, reads>>

\* UPDATE checklists ... WHERE id = $1 AND status = 'running'; RowsAffected # 1,
\* or the terminal trigger (P0001), is a conflict and rolls the transaction back.
Update(s) ==
  /\ pc[s] = "update"
  /\ IF status[call[s].id] = "running"
       THEN pc' = [pc EXCEPT ![s] = "commit"] /\ UNCHANGED <<lock, result>>
       ELSE Return(s, "conflict") /\ Unlock(s)
  /\ UNCHANGED <<status, rows, failure, call, reads, pool>>

\* Mutant: a failed row is published without its failure record.
PublishStatusOnly(s) ==
  LET id == call[s].id IN
  /\ pc[s] = "commit"
  /\ Unlock(s)
  /\ \/ /\ call[s].op = "succeed"
        /\ status' = [status EXCEPT ![id] = "succeeded"]
        /\ rows' = [rows EXCEPT ![id] = AsRead(call[s].arg)]
     \/ /\ call[s].op = "fail"
        /\ status' = [status EXCEPT ![id] = "failed"]
        /\ UNCHANGED rows
  /\ UNCHANGED <<failure, call, reads, pool>>

Publish(s) ==
  LET id == call[s].id IN
  /\ pc[s] = "commit"
  /\ Unlock(s)
  /\ \/ /\ call[s].op = "succeed"
        /\ status' = [status EXCEPT ![id] = "succeeded"]
        /\ rows' = [rows EXCEPT ![id] = AsRead(call[s].arg)]
        /\ UNCHANGED failure
     \/ /\ call[s].op = "fail"
        /\ status' = [status EXCEPT ![id] = "failed"]
        /\ failure' = [failure EXCEPT ![id] = call[s].arg]
        /\ UNCHANGED rows
  /\ UNCHANGED <<call, reads, pool>>

Commit(s) == Publish(s) /\ Return(s, "ok")

\* The server commits and the connection breaks, or the caller's context ends,
\* before the acknowledgement arrives: the caller sees an error.
CommitAckLost(s) == Publish(s) /\ Return(s, "error")

\* A statement fails, the context is cancelled or the process dies: the
\* transaction, if there is one, rolls back.
Abort(s) ==
  /\ pc[s] # "idle"
  /\ Return(s, "error")
  /\ Unlock(s)
  /\ UNCHANGED <<status, rows, failure, call, reads, pool>>

\* GetChecklist, first statement: the checklists row.
ReadStatus(s) ==
  LET id == call[s].id IN
  /\ pc[s] = "status"
  /\ ConnectionFree
  /\ \/ /\ status[id] = "absent"
        /\ Return(s, "not_found")
        /\ UNCHANGED readStatus
     \/ /\ status[id] # "absent"
        /\ readStatus' = [readStatus EXCEPT ![s] = status[id]]
        /\ \/ status[id] = "failed" /\ pc' = [pc EXCEPT ![s] = "failure"]
           \/ status[id] # "failed" /\ pc' = [pc EXCEPT ![s] = "dimensions"]
        /\ UNCHANGED result
  /\ UNCHANGED <<database, call, readFailure, readRows>>

\* getWorkflowFailure; a failed row without a failure record reads as not found.
ReadFailure(s) ==
  LET id == call[s].id IN
  /\ pc[s] = "failure"
  /\ ConnectionFree
  /\ readFailure' = [readFailure EXCEPT ![s] = failure[id]]
  /\ IF failure[id] = NoFailure
       THEN Return(s, "not_found")
       ELSE pc' = [pc EXCEPT ![s] = "dimensions"] /\ UNCHANGED result
  /\ UNCHANGED <<database, call, readStatus, readRows>>

ReadTable(s, t, next) ==
  /\ pc[s] = t
  /\ ConnectionFree
  /\ readRows' = [readRows EXCEPT ![s] = [@ EXCEPT ![t] = rows[call[s].id][t]]]
  /\ pc' = [pc EXCEPT ![s] = next]
  /\ UNCHANGED <<database, call, result, readStatus, readFailure>>

\* Mutant: a retry of a success compares the status only.
AnswerByStatus(c, st, f, content) ==
  CASE c.op = "get" -> "found"
    [] c.op = "succeed" -> IF st = "succeeded" THEN "ok" ELSE "conflict"
    [] c.op = "fail" -> IF st = "failed" /\ f = c.arg THEN "ok" ELSE "conflict"

\* compareSucceededChecklist and compareFailedChecklist, given what GetChecklist
\* returned; a plain GetChecklist has nothing to compare.
Answer(c, st, f, content) ==
  CASE c.op = "get" -> "found"
    [] c.op = "succeed" -> IF st = "succeeded" /\ content = c.arg THEN "ok" ELSE "conflict"
    [] c.op = "fail" -> IF st = "failed" /\ f = c.arg THEN "ok" ELSE "conflict"

\* Mutant: the handler shows whatever GetChecklist has loaded.
ShowLoaded(s) == [status |-> readStatus[s], failure |-> readFailure[s], content |-> readRows[s]]

\* What the handler of GET /checklists/{id} makes of a GetChecklist that returned: the
\* content of a succeeded checklist only, the failure of a failed one only.
Response(s) ==
  [status |-> readStatus[s],
   failure |-> IF readStatus[s] = "failed" THEN readFailure[s] ELSE NoFailure,
   content |-> IF readStatus[s] = "succeeded" THEN readRows[s] ELSE NoRows]

\* The last query, and what the caller makes of everything read.
ReadQuestions(s) ==
  /\ pc[s] = "questions"
  /\ ConnectionFree
  /\ readRows' = [readRows EXCEPT ![s] = [@ EXCEPT !["questions"] = rows[call[s].id]["questions"]]]
  /\ Return(s, Answer(call[s], readStatus[s], readFailure[s], readRows'[s]))
  /\ UNCHANGED <<database, call, readStatus, readFailure>>

Read(s) == \/ ReadStatus(s)
           \/ ReadFailure(s)
           \/ ReadTable(s, "dimensions", "candidates")
           \/ ReadTable(s, "candidates", "weights")
           \/ ReadTable(s, "weights", "questions")
           \/ ReadQuestions(s)

Locking(s) == LockRunning(s) \/ LockTerminal(s) \/ LockAbsent(s)

\* What drives a call that has started to its end.
Progress(s) == \/ RejectContent(s) \/ Begin(s) \/ Locking(s)
               \/ Insert(s) \/ Update(s) \/ Commit(s) \/ CommitAckLost(s) \/ Read(s)

NewCall(s, id) == \/ \E c \in Contents : SucceedChecklist(s, id, c)
                  \/ \E d \in Details : FailChecklist(s, id, d)
                  \/ GetChecklist(s, id)

Next == \/ \E id \in Checklists : CreateChecklist(id)
        \/ \E s \in Sessions : Progress(s) \/ Abort(s) \/ \E id \in Checklists : NewCall(s, id)

Spec == Init /\ [][Next]_vars

\* Postgres and the pool serve waiters in order, so a step that keeps coming
\* up is taken; nothing obliges a session to call, to fail or to be created.
Fairness == \A s \in Sessions :
  /\ WF_vars(Progress(s))
  /\ SF_vars(Begin(s))
  /\ SF_vars(Locking(s))
  /\ SF_vars(Read(s))

FairSpec == Spec /\ Fairness

------------------------------------------------------------------------------
(* Properties. *)

\* Every variable stays within its type; in particular a transaction past its
\* lock step works for a row it holds the lock of (lockStatus, store.go).
TypeOK ==
  /\ status \in [Checklists -> Statuses]
  /\ rows \in [Checklists -> StoredRows]
  /\ failure \in [Checklists -> Details \cup {NoFailure}]
  /\ lock \in [Checklists -> Sessions \cup {NoSession}]
  /\ pc \in [Sessions -> Steps]
  /\ call \in [Sessions -> Calls]
  /\ result \in [Sessions -> Results]
  /\ readStatus \in [Sessions -> Statuses]
  /\ readFailure \in [Sessions -> Details \cup {NoFailure}]
  /\ readRows \in [Sessions -> ReadRows]
  /\ pool \in PoolSizes

\* The tables agree: a succeeded checklist has all its child rows and no failure
\* record, a failed one has its failure record and no child rows, and one that
\* is still running (or was never inserted) has neither.  Writers race, abort
\* and lose their acknowledgements on the way (SucceedChecklist, FailChecklist).
OutcomeComplete == \A id \in Checklists :
  /\ status[id] = "succeeded" => \E c \in ValidContents : rows[id] = AsRead(c)
  /\ status[id] # "succeeded" => rows[id] = NoRows
  /\ status[id] = "failed" <=> failure[id] # NoFailure

\* Once a checklist is terminal nothing any session does changes its status, its
\* content or its failure record: first writer wins, whoever comes second.
TerminalImmutable ==
  [][\A id \in Checklists : Terminal(id) =>
        UNCHANGED <<status[id], rows[id], failure[id]>>]_vars

\* The checklist has the very outcome that call c was to give it.
Holds(c) == \/ /\ c.op = "succeed"
               /\ status[c.id] = "succeeded"
               /\ rows[c.id] = AsRead(c.arg)
            \/ /\ c.op = "fail"
               /\ status[c.id] = "failed"
               /\ failure[c.id] = c.arg

\* A call that returned nil, by committing or by the comparison of a retry, told
\* the truth: the checklist has, and keeps, exactly the outcome it was given.
AckedOutcomeStands == \A s \in Sessions : result[s] = "ok" => Holds(call[s])

\* GetChecklist reads its tables one statement at a time while others commit.
\* What it returns as succeeded is the whole content, what it returns as failed
\* has its failure record and no content (the status row is read first).
WholeRead(s) ==
  LET id == call[s].id IN
  /\ call[s].op = "get"
  /\ readStatus[s] # "absent"
  /\ readStatus[s] = "succeeded" => /\ status[id] = "succeeded"
                                    /\ readRows[s] = rows[id]
                                    /\ rows[id] # NoRows
  /\ readStatus[s] = "failed" => /\ status[id] = "failed"
                                 /\ readFailure[s] = failure[id]
                                 /\ failure[id] # NoFailure
                                 /\ readRows[s] = NoRows

ReadsAreWhole == \A s \in Sessions : result[s] = "found" => WholeRead(s)

\* A GET shows one moment of the checklist, although it reads while others commit:
\* running with nothing else, or the terminal outcome it has from then on, whole.  What
\* was committed between two statements never shows beside the status read before it.
WholeResponse(r, id) ==
  \/ r = [status |-> "running", failure |-> NoFailure, content |-> NoRows]
  \/ /\ status[id] = "succeeded"
     /\ rows[id] # NoRows
     /\ r = [status |-> "succeeded", failure |-> NoFailure, content |-> rows[id]]
  \/ /\ status[id] = "failed"
     /\ failure[id] # NoFailure
     /\ r = [status |-> "failed", failure |-> failure[id], content |-> NoRows]

ResponsesAreWhole ==
  \A s \in Sessions : result[s] = "found" => WholeResponse(Response(s), call[s].id)

\* A call on a row that exists never reports ErrNotFound, in particular not
\* because the failure record of a failed row is not there yet.
ExistingRowsAreFound ==
  [][\A s \in Sessions :
        (pc[s] # "idle" /\ status[call[s].id] # "absent") => result'[s] # "not_found"]_vars

\* The inductive part of the argument, per session.  A transaction past its lock
\* step works on a running row and holds that row's lock, and only it does.
TransactionOK == \A s \in Sessions :
  /\ pc[s] # "idle" => call[s].op # "none" /\ result[s] = "none"
  /\ pc[s] = "begin" => call[s].op # "get"
  /\ pc[s] \in TxSteps => \/ call[s].op = "fail"
                          \/ call[s].op = "succeed" /\ call[s].arg \in ValidContents
  /\ pc[s] \in TxSteps \ {"lock"} => /\ status[call[s].id] = "running"
                                    /\ lock[call[s].id] = s
  /\ \A id \in Checklists : lock[id] = s => /\ pc[s] \in TxSteps \ {"lock"}
                                            /\ call[s].id = id

\* The tables a session at this step has read already.
TablesRead(step) == CASE step = "candidates" -> {"dimensions"}
                      [] step = "weights" -> {"dimensions", "candidates"}
                      [] step = "questions" -> {"dimensions", "candidates", "weights"}
                      [] OTHER -> {}

\* A reader that has seen a terminal status has seen the final rows ever since.
ReadingIsStable(s) == pc[s] \in ReadSteps =>
  LET id == call[s].id IN
  /\ call[s].op # "get" => Terminal(id)
  /\ pc[s] = "failure" => readStatus[s] = "failed"
  /\ pc[s] # "status" =>
       /\ readStatus[s] = "running" \/ (readStatus[s] = status[id] /\ Terminal(id))
       /\ readStatus[s] = "running" => call[s].op = "get"
  /\ (pc[s] \in Tables /\ readStatus[s] = "failed") => readFailure[s] = failure[id]
  /\ readStatus[s] # "running" =>
       \A t \in TablesRead(pc[s]) : readRows[s][t] = rows[id][t]

ReadingOK == \A s \in Sessions : ReadingIsStable(s)

\* ErrConflict is only reported for an outcome that differs from the call's,
\* provided the call lists its weights in candidate order.
TrueConflict(c) == /\ c.op \in {"succeed", "fail"}
                   /\ Terminal(c.id)
                   /\ Holds(c) => c.op = "succeed" /\ c.arg # AsRead(c.arg)

ConflictMeansDifferent == \A s \in Sessions : result[s] = "conflict" => TrueConflict(call[s])

\* Terminal store operations are idempotent for identical input: a call whose
\* outcome the checklist already has does not conflict, in whatever order the
\* model listed the weights.
IdenticalRetrySucceeds == \A s \in Sessions : result[s] = "conflict" => ~Holds(call[s])

\* The inductive invariant the proofs use.
IInv == /\ TypeOK /\ OutcomeComplete /\ TransactionOK /\ ReadingOK
        /\ AckedOutcomeStands /\ ReadsAreWhole /\ ConflictMeansDifferent

\* Every call returns: lock waiters and the bounded pool never leave a session
\* waiting for ever, because no transaction asks for a second connection.
CallsReturn == \A s \in Sessions : pc[s] # "idle" ~> pc[s] = "idle"

\* The statement-by-statement store implements the one-step life cycle.
Outcomes == {<<"succeeded", AsRead(c)>> : c \in ValidContents}
              \cup {<<"failed", d>> : d \in Details}

LifecycleState ==
  [id \in Checklists |->
     CASE status[id] = "succeeded" -> <<"done", <<"succeeded", rows[id]>>>>
       [] status[id] = "failed" -> <<"done", <<"failed", failure[id]>>>>
       [] OTHER -> <<status[id]>>]

Lifecycle == INSTANCE Lifecycle WITH Entities <- Checklists, state <- LifecycleState
ImplementsLifecycle == Lifecycle!Spec
==============================================================================
