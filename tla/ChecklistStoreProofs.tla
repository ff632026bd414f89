------------------------ MODULE ChecklistStoreProofs ------------------------
(***************************************************************************)
(* Proofs about ChecklistStore, for any number of sessions, checklists,    *)
(* contents and failure details.                                           *)
(***************************************************************************)
EXTENDS ChecklistStore, TLAPS

USE DEF Statuses, Tables, TxSteps, ReadSteps, Steps, Results, database, reads

------------------------------------------------------------------------------
(* Facts about the data. *)

\* A stored listing is a record of four fields, determined by them.
LEMMA StoredAreReadRows == StoredRows \subseteq ReadRows
  BY DEF StoredRows, ReadRows, NoRows, AsRead

\* A valid content has candidates, so what is stored for it is not the empty listing.
LEMMA ContentIsNotEmpty == \A c \in ValidContents : AsRead(c) # NoRows
  <1> SUFFICES ASSUME NEW c \in ValidContents, AsRead(c) = NoRows PROVE FALSE
    OBVIOUS
  <1>1. AsRead(c).candidates = c.candidates /\ NoRows.candidates = <<>>
    BY DEF AsRead, NoRows
  <1>2. DOMAIN c.candidates = {}
    BY <1>1, c.candidates = <<>>
  <1>. QED BY <1>2 DEF ValidContents, IsWeighted

\* The weights read back are listed by candidate, one for each: reading back a
\* content that was read back changes nothing.
LEMMA ReadBackIsCanonical == \A c \in ValidContents : AsRead(AsRead(c)) = AsRead(c)
  <1> SUFFICES ASSUME NEW c \in ValidContents PROVE AsRead(AsRead(c)) = AsRead(c)
    OBVIOUS
  <1> DEFINE N == DOMAIN c.candidates
             w == InCandidateOrder(c)
  <1>1. ASSUME NEW i \in N PROVE w[i].candidate = c.candidates[i]
    <2>1. \E x \in {c.weights[j] : j \in DOMAIN c.weights} : x.candidate = c.candidates[i]
      BY DEF ValidContents, IsWeighted
    <2>2. w[i] = CHOOSE x \in {c.weights[j] : j \in DOMAIN c.weights} : x.candidate = c.candidates[i]
      BY DEF InCandidateOrder
    <2>. QED BY <2>1, <2>2
  <1>2. ASSUME NEW i \in N, NEW j \in N, c.candidates[i] = c.candidates[j] PROVE w[i] = w[j]
    <2> DEFINE Pick(k) == CHOOSE x \in {c.weights[n] : n \in DOMAIN c.weights} : x.candidate = k
    <2>1. w[i] = Pick(c.candidates[i]) /\ w[j] = Pick(c.candidates[j])
      BY DEF InCandidateOrder
    <2> HIDE DEF w, Pick
    <2>. QED BY <1>2, <2>1
  <1>3. w = [i \in N |-> w[i]] /\ DOMAIN w = N
    BY DEF InCandidateOrder
  <1>4. AsRead(c).weights = w /\ AsRead(c).candidates = c.candidates
    BY DEF AsRead
  <1> HIDE DEF w
  <1>5. ASSUME NEW i \in N
        PROVE  (CHOOSE x \in {w[j] : j \in N} : x.candidate = c.candidates[i]) = w[i]
    <2>1. w[i] \in {w[j] : j \in N} /\ w[i].candidate = c.candidates[i]
      BY <1>1
    <2>2. \A x \in {w[j] : j \in N} : x.candidate = c.candidates[i] => x = w[i]
      BY <1>1, <1>2
    <2>. QED BY <2>1, <2>2
  <1>6. InCandidateOrder(AsRead(c)) = w
    BY <1>3, <1>4, <1>5 DEF InCandidateOrder
  <1>. QED BY <1>4, <1>6 DEF AsRead, w

\* The operation of a call says which arguments it has.
LEMMA CallTypes ==
  /\ \A c \in Calls : c.op \in {"succeed", "fail", "get", "none"}
  /\ \A c \in Calls : c.op # "none" => c.id \in Checklists
  /\ \A c \in Calls : c.op = "succeed" => c.arg \in Contents
  /\ \A c \in Calls : c.op = "fail" => c.arg \in Details
  BY DEF Calls

------------------------------------------------------------------------------
(* The type invariant and what a step does to a terminal checklist. *)

\* Nothing has been inserted or called yet: every variable has its type.
LEMMA TypeInit == Init => TypeOK
  <1> SUFFICES ASSUME Init PROVE TypeOK
    OBVIOUS
  <1>1. NoRows \in StoredRows
    BY DEF StoredRows
  <1>2. NoRows \in ReadRows
    BY <1>1, StoredAreReadRows
  <1>3. [op |-> "none"] \in Calls
    BY DEF Calls
  <1>. QED BY <1>1, <1>2, <1>3 DEF Init, TypeOK

\* Every step keeps the types: what is committed is a listing some valid content is read as.
LEMMA TypeStep == TypeOK /\ TransactionOK /\ [Next]_vars => TypeOK'
  <1> SUFFICES ASSUME TypeOK, TransactionOK, [Next]_vars PROVE TypeOK'
    OBVIOUS
  <1> USE DEF TypeOK
  <1>1. ASSUME NEW id \in Checklists, CreateChecklist(id) PROVE TypeOK'
    BY <1>1 DEF CreateChecklist
  <1>2. ASSUME NEW s \in Sessions, NEW id \in Checklists, NewCall(s, id) PROVE TypeOK'
    <2>1. NoRows \in ReadRows
      BY StoredAreReadRows DEF StoredRows
    <2>2. ASSUME NEW c \in Calls, NEW step \in Steps, Call(s, c, step) PROVE TypeOK'
      BY <2>1, <2>2 DEF Call
    <2>. QED BY <1>2, <2>2 DEF NewCall, SucceedChecklist, FailChecklist, GetChecklist, Calls
  <1>3. ASSUME NEW s \in Sessions, Abort(s) PROVE TypeOK'
    BY <1>3 DEF Abort, Return, Unlock
  <1>4. ASSUME NEW s \in Sessions, RejectContent(s) \/ Begin(s) PROVE TypeOK'
    BY <1>4 DEF RejectContent, Begin, Return
  <1>5. ASSUME NEW s \in Sessions, Locking(s) PROVE TypeOK'
    BY <1>5 DEF Locking, LockRunning, LockTerminal, LockAbsent, Return
  <1>6. ASSUME NEW s \in Sessions, Insert(s) \/ Update(s) PROVE TypeOK'
    BY <1>6 DEF Insert, Update, Return, Unlock
  <1>7. ASSUME NEW s \in Sessions, Commit(s) \/ CommitAckLost(s) PROVE TypeOK'
    <2>1. Publish(s) /\ (Return(s, "ok") \/ Return(s, "error"))
      BY <1>7 DEF Commit, CommitAckLost
    <2>2. pc[s] = "commit"
      BY <2>1 DEF Publish
    <2>3. call[s].op = "succeed" => AsRead(call[s].arg) \in StoredRows
      BY <2>2 DEF TransactionOK, StoredRows
    <2>4. call[s].op = "fail" => call[s].arg \in Details
      BY CallTypes
    <2>5. pc' \in [Sessions -> Steps] /\ result' \in [Sessions -> Results]
      BY <2>1 DEF Return
    <2>6. lock' \in [Checklists -> Sessions \cup {NoSession}] /\ UNCHANGED <<call, reads>>
      BY <2>1 DEF Publish, Unlock
    <2>7. CASE call[s].op = "succeed"
      BY <2>1, <2>3, <2>5, <2>6, <2>7 DEF Publish
    <2>8. CASE call[s].op = "fail"
      BY <2>1, <2>4, <2>5, <2>6, <2>8 DEF Publish
    <2>. QED BY <2>1, <2>7, <2>8 DEF Publish
  <1>8. ASSUME NEW s \in Sessions, Read(s) PROVE TypeOK'
    <2>1. call[s].op # "none" => call[s].id \in Checklists
      BY CallTypes
    <2>2. pc[s] \in ReadSteps
      BY <1>8 DEF Read, ReadStatus, ReadFailure, ReadTable, ReadQuestions
    <2>3. call[s].id \in Checklists
      BY <2>1, <2>2 DEF TransactionOK
    <2>4. rows[call[s].id] \in ReadRows
      BY <2>3, StoredAreReadRows
    <2>5. \A t \in Tables : [readRows[s] EXCEPT ![t] = rows[call[s].id][t]] \in ReadRows
      <3>1. readRows[s] \in ReadRows
        OBVIOUS
      <3>. QED BY <2>4, <3>1 DEF ReadRows
    <2>6. CASE ReadStatus(s)
      BY <2>3, <2>6 DEF ReadStatus, Return
    <2>7. CASE ReadFailure(s)
      BY <2>3, <2>7 DEF ReadFailure, Return
    <2>8. ASSUME NEW t \in Tables, NEW next \in Steps, ReadTable(s, t, next) PROVE TypeOK'
      <3>1. readRows' \in [Sessions -> ReadRows]
        BY <2>5, <2>8 DEF ReadTable
      <3>. QED BY <2>8, <3>1 DEF ReadTable
    <2>9. CASE ReadQuestions(s)
      <3>1. Answer(call[s], readStatus[s], readFailure[s], readRows'[s]) \in Results
        BY CallTypes, <2>2 DEF Answer, TransactionOK
      <3>2. readRows' \in [Sessions -> ReadRows]
        BY <2>5, <2>9 DEF ReadQuestions
      <3>. QED BY <2>9, <3>1, <3>2 DEF ReadQuestions, Return
    <2>. QED BY <1>8, <2>6, <2>7, <2>8, <2>9 DEF Read
  <1>9. CASE UNCHANGED vars
    BY <1>9 DEF vars
  <1>. QED BY <1>1, <1>2, <1>3, <1>4, <1>5, <1>6, <1>7, <1>8, <1>9 DEF Next, Progress

\* A step leaves the committed data alone, creates a running row, or publishes
\* the transaction of a session.
LEMMA DataStep ==
  ASSUME TypeOK, TransactionOK, [Next]_vars
  PROVE  \/ UNCHANGED <<status, rows, failure>>
         \/ \E id \in Checklists : CreateChecklist(id)
         \/ \E s \in Sessions : Publish(s) /\ (Return(s, "ok") \/ Return(s, "error"))
  BY DEF Next, vars, Progress, Abort, RejectContent, Begin, Locking, LockRunning, LockTerminal,
         LockAbsent, Insert, Update, Commit, CommitAckLost, Read, ReadStatus, ReadFailure,
         ReadTable, ReadQuestions, NewCall, SucceedChecklist, FailChecklist, GetChecklist,
         Call

\* What publishing means, in one place: the row was running, its lock was held.
LEMMA PublishStep ==
  ASSUME TypeOK, TransactionOK, NEW s \in Sessions, Publish(s)
  PROVE  /\ call[s].id \in Checklists
         /\ status[call[s].id] = "running"
         /\ lock[call[s].id] = s
         /\ \A id \in Checklists \ {call[s].id} : UNCHANGED <<status[id], rows[id], failure[id]>>
         /\ \/ /\ call[s].op = "succeed" /\ call[s].arg \in ValidContents
               /\ status'[call[s].id] = "succeeded"
               /\ rows'[call[s].id] = AsRead(call[s].arg)
               /\ failure' = failure
            \/ /\ call[s].op = "fail" /\ call[s].arg \in Details
               /\ status'[call[s].id] = "failed"
               /\ failure'[call[s].id] = call[s].arg
               /\ rows' = rows
  <1>1. pc[s] = "commit"
    BY DEF Publish
  <1>2. /\ call[s].op \in {"fail", "succeed"}
        /\ call[s].op = "succeed" => call[s].arg \in ValidContents
        /\ status[call[s].id] = "running" /\ lock[call[s].id] = s
    BY <1>1 DEF TransactionOK
  <1>3. call[s].id \in Checklists /\ (call[s].op = "fail" => call[s].arg \in Details)
    BY <1>2, CallTypes DEF TypeOK
  <1>. QED BY <1>2, <1>3 DEF Publish, TypeOK

\* Nothing creates or publishes a terminal row again.
LEMMA TerminalStep ==
  ASSUME TypeOK, TransactionOK, [Next]_vars, NEW id \in Checklists, Terminal(id)
  PROVE  UNCHANGED <<status[id], rows[id], failure[id]>>
  <1>1. ASSUME NEW k \in Checklists, CreateChecklist(k)
        PROVE  UNCHANGED <<status[id], rows[id], failure[id]>>
    BY <1>1 DEF CreateChecklist, Terminal, TypeOK
  <1>2. ASSUME NEW s \in Sessions, Publish(s) PROVE UNCHANGED <<status[id], rows[id], failure[id]>>
    BY <1>2, PublishStep DEF Terminal
  <1>. QED BY <1>1, <1>2, DataStep

\* The tables of a checklist keep agreeing: only a commit changes them, of a running row, all at once.
LEMMA OutcomeStep ==
  ASSUME TypeOK, TransactionOK, OutcomeComplete, [Next]_vars
  PROVE  OutcomeComplete'
  <1>1. CASE UNCHANGED <<status, rows, failure>>
    BY <1>1 DEF OutcomeComplete
  <1>2. ASSUME NEW k \in Checklists, CreateChecklist(k) PROVE OutcomeComplete'
    BY <1>2 DEF CreateChecklist, OutcomeComplete, TypeOK
  <1>3. ASSUME NEW s \in Sessions, Publish(s) PROVE OutcomeComplete'
    <2>1. PICK k \in Checklists : k = call[s].id
      BY <1>3, PublishStep
    <2>2. \A id \in Checklists \ {k} : UNCHANGED <<status[id], rows[id], failure[id]>>
      BY <1>3, <2>1, PublishStep
    <2>3. rows[k] = NoRows /\ failure[k] = NoFailure
      BY <1>3, <2>1, PublishStep DEF OutcomeComplete
    <2>4. \/ /\ status'[k] = "succeeded" /\ failure'[k] = NoFailure
             /\ \E c \in ValidContents : rows'[k] = AsRead(c)
          \/ status'[k] = "failed" /\ failure'[k] \in Details /\ rows'[k] = NoRows
      BY <1>3, <2>1, <2>3, PublishStep
    <2>. QED BY <2>2, <2>4, SentinelAssumption DEF OutcomeComplete
  <1>. QED BY <1>1, <1>2, <1>3, DataStep

\* Mutual exclusion of the transactions on one row.
LEMMA TransactionStep ==
  ASSUME TypeOK, TransactionOK, [Next]_vars
  PROVE  TransactionOK'
  <1> USE DEF TransactionOK
  <1>1. ASSUME NEW id \in Checklists, CreateChecklist(id) PROVE TransactionOK'
    BY <1>1 DEF CreateChecklist, TypeOK
  <1>2. ASSUME NEW s \in Sessions, NEW id \in Checklists, NewCall(s, id) PROVE TransactionOK'
    <2>1. ASSUME NEW c \in Calls, NEW step \in {"begin", "status"}, Call(s, c, step),
                 c.op # "none", step = "begin" => c.op # "get"
          PROVE  TransactionOK'
      BY <2>1 DEF Call, TypeOK
    <2>2. \/ \E c \in Contents : Call(s, [op |-> "succeed", id |-> id, arg |-> c], "begin")
          \/ \E d \in Details : Call(s, [op |-> "fail", id |-> id, arg |-> d], "begin")
          \/ Call(s, [op |-> "get", id |-> id], "status")
      BY <1>2 DEF NewCall, SucceedChecklist, FailChecklist, GetChecklist
    <2>3. ASSUME NEW c \in Contents, Call(s, [op |-> "succeed", id |-> id, arg |-> c], "begin")
          PROVE  TransactionOK'
      <3> DEFINE k == [op |-> "succeed", id |-> id, arg |-> c]
      <3>1. k \in Calls /\ k.op # "none" /\ k.op # "get"
        BY DEF Calls
      <3>2. Call(s, k, "begin")
        BY <2>3
      <3> HIDE DEF k
      <3>. QED BY <2>1, <3>1, <3>2
    <2>4. ASSUME NEW d \in Details, Call(s, [op |-> "fail", id |-> id, arg |-> d], "begin")
          PROVE  TransactionOK'
      <3> DEFINE k == [op |-> "fail", id |-> id, arg |-> d]
      <3>1. k \in Calls /\ k.op # "none" /\ k.op # "get"
        BY DEF Calls
      <3>2. Call(s, k, "begin")
        BY <2>4
      <3> HIDE DEF k
      <3>. QED BY <2>1, <3>1, <3>2
    <2>5. ASSUME Call(s, [op |-> "get", id |-> id], "status") PROVE TransactionOK'
      <3> DEFINE k == [op |-> "get", id |-> id]
      <3>1. k \in Calls /\ k.op # "none"
        BY DEF Calls
      <3>2. Call(s, k, "status")
        BY <2>5
      <3> HIDE DEF k
      <3>. QED BY <2>1, <3>1, <3>2
    <2>. QED BY <2>2, <2>3, <2>4, <2>5
  <1>3. ASSUME NEW s \in Sessions, Abort(s) PROVE TransactionOK'
    BY <1>3, SentinelAssumption, CallTypes DEF Abort, Return, Unlock, TypeOK
  <1>4. ASSUME NEW s \in Sessions, RejectContent(s) \/ Begin(s) PROVE TransactionOK'
    BY <1>4, CallTypes DEF RejectContent, Begin, Return, TypeOK
  <1>5. ASSUME NEW s \in Sessions, Locking(s) PROVE TransactionOK'
    <2>1. call[s].id \in Checklists
      BY <1>5, CallTypes DEF Locking, LockRunning, LockTerminal, LockAbsent, TypeOK
    <2>2. CASE LockRunning(s)
      BY <2>1, <2>2, SentinelAssumption DEF LockRunning, TypeOK
    <2>3. CASE LockTerminal(s) \/ LockAbsent(s)
      BY <2>3 DEF LockTerminal, LockAbsent, Return, TypeOK
    <2>. QED BY <1>5, <2>2, <2>3 DEF Locking
  <1>6. ASSUME NEW s \in Sessions, Insert(s) \/ Update(s) PROVE TransactionOK'
    BY <1>6, SentinelAssumption DEF Insert, Update, Return, Unlock, TypeOK
  <1>7. ASSUME NEW s \in Sessions, Publish(s), Return(s, "ok") \/ Return(s, "error")
        PROVE  TransactionOK'
    <2>1. /\ lock' = [id \in Checklists |-> IF lock[id] = s THEN NoSession ELSE lock[id]]
          /\ call' = call /\ pc' = [pc EXCEPT ![s] = "idle"]
          /\ \A t \in Sessions \ {s} : result'[t] = result[t]
      BY <1>7 DEF Publish, Return, Unlock, TypeOK
    <2>2. \A t \in Sessions \ {s} : pc[t] \in TxSteps \ {"lock"} =>
             call[t].id \in Checklists /\ call[t].id # call[s].id
      BY <1>7, PublishStep, CallTypes DEF TypeOK
    <2>3. \A t \in Sessions \ {s} : pc[t] \in TxSteps \ {"lock"} =>
             status'[call[t].id] = "running" /\ lock'[call[t].id] = t
      BY <1>7, <2>1, <2>2, PublishStep DEF TypeOK
    <2>. QED BY <2>1, <2>3, SentinelAssumption DEF TypeOK
  <1>8. ASSUME NEW s \in Sessions, Read(s) PROVE TransactionOK'
    <2>1. /\ UNCHANGED <<status, lock, call>>
          /\ pc[s] \in ReadSteps
          /\ \E step \in ReadSteps \cup {"idle"} : pc' = [pc EXCEPT ![s] = step]
          /\ pc'[s] # "idle" => result' = result
          /\ \A t \in Sessions \ {s} : result'[t] = result[t]
      BY <1>8 DEF Read, ReadStatus, ReadFailure, ReadTable, ReadQuestions, Return, TypeOK
    <2>. QED BY <2>1 DEF TypeOK
  <1>9. CASE UNCHANGED vars
    BY <1>9 DEF vars
  <1>. QED BY <1>1, <1>2, <1>3, <1>4, <1>5, <1>6, <1>7, <1>8, <1>9
           DEF Next, Progress, Commit, CommitAckLost

------------------------------------------------------------------------------
(* Readers. *)

\* A step is invisible to a session or it is that session's own.
LEMMA OwnStep ==
  ASSUME TypeOK, [Next]_vars, NEW t \in Sessions
  PROVE  \/ UNCHANGED <<pc[t], call[t], result[t], readStatus[t], readFailure[t], readRows[t]>>
         \/ Progress(t) \/ Abort(t) \/ \E id \in Checklists : NewCall(t, id)
  <1>1. ASSUME NEW id \in Checklists, CreateChecklist(id)
        PROVE  UNCHANGED <<pc[t], call[t], result[t], readStatus[t], readFailure[t], readRows[t]>>
    BY <1>1 DEF CreateChecklist
  <1>2. ASSUME NEW s \in Sessions, s # t,
               Progress(s) \/ Abort(s) \/ \E id \in Checklists : NewCall(s, id)
        PROVE  UNCHANGED <<pc[t], call[t], result[t], readStatus[t], readFailure[t], readRows[t]>>
    <2>1. CASE Abort(s) \/ \E id \in Checklists : NewCall(s, id)
      BY <1>2, <2>1 DEF NewCall, SucceedChecklist, FailChecklist, GetChecklist, Call, Abort,
                        Return, TypeOK
    <2>2. CASE RejectContent(s) \/ Begin(s) \/ Locking(s) \/ Insert(s) \/ Update(s)
      BY <1>2, <2>2 DEF RejectContent, Begin, Locking, LockRunning, LockTerminal, LockAbsent,
                        Insert, Update, Return, TypeOK
    <2>3. CASE Commit(s) \/ CommitAckLost(s)
      BY <1>2, <2>3 DEF Commit, CommitAckLost, Publish, Return, TypeOK
    <2>4. CASE Read(s)
      BY <1>2, <2>4 DEF Read, ReadStatus, ReadFailure, ReadTable, ReadQuestions, Return, TypeOK
    <2>. QED BY <1>2, <2>1, <2>2, <2>3, <2>4 DEF Progress
  <1>3. CASE UNCHANGED vars
    BY <1>3 DEF vars
  <1>. QED BY <1>1, <1>2, <1>3 DEF Next

\* A reading session calls for a checklist.
LEMMA ReaderId ==
  ASSUME TypeOK, TransactionOK, NEW s \in Sessions, pc[s] # "idle"
  PROVE  call[s].id \in Checklists /\ call[s].op \in {"succeed", "fail", "get"}
  BY CallTypes DEF TypeOK, TransactionOK

\* A reader that has seen a terminal row keeps holding final rows: others do not change them.
LEMMA ReadingStep ==
  ASSUME TypeOK, TransactionOK, ReadingOK, [Next]_vars
  PROVE  ReadingOK'
  <1> SUFFICES ASSUME NEW t \in Sessions PROVE ReadingIsStable(t)'
    BY DEF ReadingOK
  <1>1. ReadingIsStable(t)
    BY DEF ReadingOK
  <1>2. CASE UNCHANGED <<pc[t], call[t], result[t], readStatus[t], readFailure[t], readRows[t]>>
    <2> SUFFICES ASSUME pc[t] \in ReadSteps PROVE ReadingIsStable(t)'
      BY <1>2 DEF ReadingIsStable
    <2>1. PICK k \in Checklists : k = call[t].id
      BY ReaderId
    <2>2. Terminal(k) => UNCHANGED <<status[k], rows[k], failure[k]>>
      BY TerminalStep
    <2>3. CASE Terminal(k)
      BY <1>1, <1>2, <2>1, <2>2, <2>3 DEF ReadingIsStable, Terminal
    <2>4. CASE ~Terminal(k)
      <3>1. pc'[t] = pc[t] /\ call'[t] = call[t] /\ readStatus'[t] = readStatus[t]
        BY <1>2
      <3>2. call[t].op = "get" /\ pc[t] # "failure"
        BY <1>1, <2>1, <2>4 DEF ReadingIsStable
      <3>3. pc[t] # "status" => readStatus[t] = "running"
        BY <1>1, <2>1, <2>4 DEF ReadingIsStable
      <3>4. pc[t] = "status" => TablesRead(pc[t]) = {}
        BY DEF TablesRead
      <3>. QED BY <3>1, <3>2, <3>3, <3>4 DEF ReadingIsStable
    <2>. QED BY <2>3, <2>4
  <1>3. CASE \E id \in Checklists : NewCall(t, id)
    BY <1>3 DEF NewCall, SucceedChecklist, FailChecklist, GetChecklist, Call, TypeOK,
                ReadingIsStable, TablesRead
  <1>4. CASE RejectContent(t) \/ Begin(t) \/ Abort(t) \/ LockRunning(t) \/ LockAbsent(t)
             \/ Insert(t) \/ Update(t) \/ Commit(t) \/ CommitAckLost(t)
    <2>1. pc'[t] \notin ReadSteps
      BY <1>4 DEF RejectContent, Begin, Abort, LockRunning, LockAbsent, Insert, Update, Commit,
                  CommitAckLost, Return, Publish, TypeOK
    <2>. QED BY <2>1 DEF ReadingIsStable
  <1>5. CASE LockTerminal(t)
    BY <1>5 DEF LockTerminal, Terminal, TypeOK, ReadingIsStable, TablesRead
  <1>6. CASE Read(t)
    <2>1. PICK k \in Checklists : k = call[t].id
      BY <1>6, ReaderId DEF Read, ReadStatus, ReadFailure, ReadTable, ReadQuestions
    <2>2. UNCHANGED <<database, call>>
      BY <1>6 DEF Read, ReadStatus, ReadFailure, ReadTable, ReadQuestions
    <2>3. CASE ReadStatus(t)
      BY <1>1, <2>1, <2>2, <2>3, ReaderId
         DEF ReadStatus, Return, TypeOK, ReadingIsStable, Terminal, TablesRead
    <2>4. CASE ReadFailure(t)
      BY <1>1, <2>1, <2>2, <2>4
         DEF ReadFailure, Return, TypeOK, ReadingIsStable, Terminal, TablesRead
    <2>5. ASSUME NEW u \in Tables, NEW next \in Tables, ReadTable(t, u, next),
                 TablesRead(next) = TablesRead(u) \cup {u}
          PROVE  ReadingIsStable(t)'
      <3>1. /\ pc[t] = u /\ pc'[t] = next /\ readRows[t] \in ReadRows
            /\ readRows'[t] = [readRows[t] EXCEPT ![u] = rows[k][u]]
            /\ UNCHANGED <<readStatus, readFailure>>
        BY <2>1, <2>5 DEF ReadTable, TypeOK
      <3>2. \A v \in Tables : readRows'[t][v] = IF v = u THEN rows[k][u] ELSE readRows[t][v]
        BY <3>1 DEF ReadRows
      <3>3. TablesRead(u) \subseteq Tables
        BY DEF TablesRead
      <3>. QED BY <1>1, <2>1, <2>2, <2>5, <3>1, <3>2, <3>3 DEF ReadingIsStable, Terminal
    <2>6. CASE ReadQuestions(t)
      BY <2>6 DEF ReadQuestions, Return, TypeOK, ReadingIsStable
    <2>7. /\ TablesRead("candidates") = TablesRead("dimensions") \cup {"dimensions"}
          /\ TablesRead("weights") = TablesRead("candidates") \cup {"candidates"}
          /\ TablesRead("questions") = TablesRead("weights") \cup {"weights"}
      BY DEF TablesRead
    <2>. QED BY <1>6, <2>3, <2>4, <2>5, <2>6, <2>7 DEF Read
  <1>. QED BY <1>2, <1>3, <1>4, <1>5, <1>6, OwnStep DEF Progress, Locking

------------------------------------------------------------------------------
(* What calls return. *)

\* The answer a session gives at the end of GetChecklist is about the rows as
\* they are: either it saw a running row, or everything it holds is current.
LEMMA ReadIsCurrent ==
  ASSUME TypeOK, OutcomeComplete, TransactionOK, ReadingOK,
         NEW t \in Sessions, ReadQuestions(t), readStatus[t] # "running"
  PROVE  LET id == call[t].id IN
         /\ id \in Checklists /\ Terminal(id) /\ readStatus[t] = status[id]
         /\ readRows'[t] = rows[id]
         /\ status[id] = "failed" => readFailure[t] = failure[id]
  <1>1. PICK k \in Checklists : k = call[t].id
    BY ReaderId DEF ReadQuestions
  <1>2. /\ readStatus[t] = status[k] /\ Terminal(k)
        /\ status[k] = "failed" => readFailure[t] = failure[k]
        /\ \A u \in Tables \ {"questions"} : readRows[t][u] = rows[k][u]
    BY <1>1 DEF ReadQuestions, ReadingOK, ReadingIsStable, TablesRead
  <1>3. readRows[t] \in ReadRows /\ rows[k] \in ReadRows
    BY StoredAreReadRows DEF TypeOK
  <1>4. readRows'[t] = [readRows[t] EXCEPT !["questions"] = rows[k]["questions"]]
    BY <1>1 DEF ReadQuestions, TypeOK
  <1>5. readRows'[t] = rows[k]
    BY <1>2, <1>3, <1>4 DEF ReadRows
  <1>. QED BY <1>1, <1>2, <1>5

\* What a session was told remains true: terminal rows do not change.
LEMMA ToldStays ==
  ASSUME TypeOK, TransactionOK, [Next]_vars, NEW t \in Sessions,
         UNCHANGED <<call[t], result[t], readStatus[t], readFailure[t], readRows[t]>>
  PROVE  /\ Holds(call[t]) => Holds(call[t])'
         /\ TrueConflict(call[t]) => TrueConflict(call[t])'
         /\ WholeRead(t) => WholeRead(t)'
  <1>1. CASE call[t].op = "none"
    BY <1>1 DEF Holds, TrueConflict, WholeRead
  <1>2. CASE call[t].op # "none"
    <2>1. PICK k \in Checklists : k = call[t].id
      BY <1>2, CallTypes DEF TypeOK
    <2>2. Terminal(k) => UNCHANGED <<status[k], rows[k], failure[k]>>
      BY TerminalStep
    <2>. QED BY <2>1, <2>2 DEF Holds, TrueConflict, WholeRead, Terminal
  <1>. QED BY <1>1, <1>2

\* What a call returns is true of the rows at that moment, and terminal rows stay.
LEMMA ResultStep ==
  ASSUME IInv, [Next]_vars
  PROVE  AckedOutcomeStands' /\ ReadsAreWhole' /\ ConflictMeansDifferent'
  <1> USE DEF IInv
  <1> SUFFICES ASSUME NEW t \in Sessions
               PROVE  /\ (result[t] = "ok" => Holds(call[t]))'
                      /\ (result[t] = "found" => WholeRead(t))'
                      /\ (result[t] = "conflict" => TrueConflict(call[t]))'
    BY DEF AckedOutcomeStands, ReadsAreWhole, ConflictMeansDifferent
  <1>1. CASE UNCHANGED <<pc[t], call[t], result[t], readStatus[t], readFailure[t], readRows[t]>>
    BY <1>1, ToldStays DEF AckedOutcomeStands, ReadsAreWhole, ConflictMeansDifferent
  <1>2. CASE result'[t] \notin {"ok", "found", "conflict"}
    BY <1>2
  <1>3. CASE Commit(t)
    <2>1. Publish(t) /\ result'[t] = "ok" /\ call' = call
      BY <1>3 DEF Commit, Publish, Return, TypeOK
    <2>. QED BY <2>1, PublishStep DEF Holds
  <1>4. CASE ReadQuestions(t)
    <2>1. /\ result'[t] = Answer(call[t], readStatus[t], readFailure[t], readRows'[t])
          /\ UNCHANGED <<database, call, readStatus, readFailure>>
      BY <1>4 DEF ReadQuestions, Return, TypeOK
    <2>2. call[t].op \in {"succeed", "fail", "get"} /\ call[t].id \in Checklists
      BY <1>4, ReaderId DEF ReadQuestions
    <2>3. CASE readStatus[t] = "running"
      <3>1. call[t].op = "get"
        BY <1>4, <2>3 DEF ReadQuestions, ReadingOK, ReadingIsStable
      <3>. QED BY <2>1, <2>3, <3>1 DEF Answer, WholeRead
    <2>4. CASE readStatus[t] # "running"
      <3>1. PICK k \in Checklists :
              /\ k = call[t].id /\ Terminal(k) /\ readStatus[t] = status[k]
              /\ readRows'[t] = rows[k]
              /\ status[k] = "failed" => readFailure[t] = failure[k]
        BY <1>4, <2>4, ReadIsCurrent
      <3>2. CASE call[t].op = "get"
        <4>1. /\ status[k] = "succeeded" => rows[k] # NoRows
              /\ status[k] = "failed" => rows[k] = NoRows /\ failure[k] # NoFailure
          BY ContentIsNotEmpty DEF OutcomeComplete
        <4>. QED BY <2>1, <3>1, <3>2, <4>1 DEF Answer, WholeRead, Terminal
      <3>3. CASE call[t].op = "succeed"
        <4>1. CASE status[k] = "succeeded" /\ rows[k] = call[t].arg
          <5>1. result'[t] = "ok"
            BY <2>1, <3>1, <3>3, <4>1 DEF Answer
          <5>2. AsRead(call[t].arg) = call[t].arg
            BY <4>1, ReadBackIsCanonical DEF OutcomeComplete
          <5>. QED BY <2>1, <3>1, <3>3, <4>1, <5>1, <5>2 DEF Holds
        <4>2. CASE ~(status[k] = "succeeded" /\ rows[k] = call[t].arg)
          <5>1. result'[t] = "conflict"
            BY <2>1, <3>1, <3>3, <4>2 DEF Answer
          <5>. QED BY <2>1, <3>1, <3>3, <4>2, <5>1 DEF TrueConflict, Holds, Terminal
        <4>. QED BY <4>1, <4>2
      <3>4. CASE call[t].op = "fail"
        BY <2>1, <3>1, <3>4 DEF Answer, TrueConflict, Holds, Terminal
      <3>. QED BY <2>2, <3>2, <3>3, <3>4
    <2>. QED BY <2>3, <2>4
  <1>5. CASE Progress(t) \/ Abort(t) \/ \E id \in Checklists : NewCall(t, id)
    <2>1. ASSUME ~Commit(t), ~ReadQuestions(t)
          PROVE  result'[t] \notin {"ok", "found", "conflict"}
      <3>1. pc[t] # "idle" => result[t] = "none"
        BY DEF TransactionOK
      <3>2. CASE Abort(t) \/ CommitAckLost(t) \/ \E id \in Checklists : NewCall(t, id)
        BY <3>2 DEF Abort, CommitAckLost, NewCall, SucceedChecklist, FailChecklist, GetChecklist,
                    Call, Return, TypeOK
      <3>3. CASE RejectContent(t) \/ Begin(t) \/ Locking(t) \/ Insert(t)
        BY <3>1, <3>3 DEF RejectContent, Begin, Locking, LockRunning, LockTerminal, LockAbsent,
                          Insert, Return, TypeOK
      <3>4. CASE Update(t)
        BY <3>1, <3>4 DEF Update, TransactionOK, TypeOK
      <3>5. CASE Read(t)
        BY <2>1, <3>1, <3>5 DEF Read, ReadStatus, ReadFailure, ReadTable, Return, TypeOK
      <3>. QED BY <1>5, <2>1, <3>2, <3>3, <3>4, <3>5 DEF Progress
    <2>. QED BY <1>2, <1>3, <1>4, <2>1
  <1>. QED BY <1>1, <1>5, OwnStep

\* Only a reader that finds no checklists row, or a failed row without its failure
\* record, reports not_found; the second never happens, because a transaction
\* publishes both at once and the reader has seen the status first.
LEMMA FoundStep ==
  ASSUME IInv, [Next]_vars, NEW t \in Sessions, pc[t] # "idle", status[call[t].id] # "absent"
  PROVE  result'[t] # "not_found"
  <1> USE DEF IInv
  <1>1. result[t] = "none"
    BY DEF TransactionOK
  <1>2. CASE UNCHANGED <<pc[t], call[t], result[t], readStatus[t], readFailure[t], readRows[t]>>
    BY <1>1, <1>2
  <1>3. CASE Abort(t) \/ \E id \in Checklists : NewCall(t, id)
    BY <1>3 DEF Abort, NewCall, SucceedChecklist, FailChecklist, GetChecklist, Call, Return, TypeOK
  <1>4. CASE RejectContent(t) \/ Begin(t) \/ Locking(t) \/ Insert(t)
    BY <1>1, <1>4 DEF RejectContent, Begin, Locking, LockRunning, LockTerminal, LockAbsent,
                      Insert, Return, TypeOK
  <1>5. CASE Update(t) \/ Commit(t) \/ CommitAckLost(t)
    BY <1>1, <1>5 DEF Update, Commit, CommitAckLost, Return, TypeOK
  <1>6. CASE Read(t)
    <2>1. CASE ReadStatus(t)
      BY <1>1, <2>1 DEF ReadStatus
    <2>2. CASE ReadFailure(t)
      <3>1. PICK k \in Checklists : k = call[t].id
        BY <2>2, ReaderId DEF ReadFailure
      <3>2. status[k] = "failed"
        BY <2>2, <3>1 DEF ReadFailure, ReadingOK, ReadingIsStable
      <3>3. failure[k] # NoFailure
        BY <3>2 DEF OutcomeComplete
      <3>. QED BY <1>1, <2>2, <3>1, <3>3 DEF ReadFailure
    <2>3. ASSUME NEW u, NEW next, ReadTable(t, u, next) PROVE result'[t] # "not_found"
      BY <1>1, <2>3 DEF ReadTable
    <2>4. CASE ReadQuestions(t)
      <3>1. result'[t] = Answer(call[t], readStatus[t], readFailure[t], readRows'[t])
        BY <2>4 DEF ReadQuestions, Return, TypeOK
      <3>2. call[t].op \in {"succeed", "fail", "get"}
        BY <2>4, ReaderId DEF ReadQuestions
      <3>. QED BY <3>1, <3>2 DEF Answer
    <2>. QED BY <1>6, <2>1, <2>2, <2>3, <2>4 DEF Read
  <1>. QED BY <1>2, <1>3, <1>4, <1>5, <1>6, OwnStep DEF Progress

------------------------------------------------------------------------------
(* The refinement. *)

\* The state of one checklist in the life cycle, as a function of its rows.
LEMMA LifecycleOf == \A id \in Checklists :
  /\ status[id] = "succeeded" => LifecycleState[id] = <<"done", <<"succeeded", rows[id]>>>>
  /\ status[id] = "failed" => LifecycleState[id] = <<"done", <<"failed", failure[id]>>>>
  /\ status[id] \in {"absent", "running"} => LifecycleState[id] = <<status[id]>>
  BY DEF LifecycleState

\* The same of the next state.
LEMMA LifecycleOfPrimed == \A id \in Checklists :
  /\ status'[id] = "succeeded" => LifecycleState'[id] = <<"done", <<"succeeded", rows'[id]>>>>
  /\ status'[id] = "failed" => LifecycleState'[id] = <<"done", <<"failed", failure'[id]>>>>
  /\ status'[id] \in {"absent", "running"} => LifecycleState'[id] = <<status'[id]>>
  BY DEF LifecycleState

\* A function that differs at one argument only is an EXCEPT.
LEMMA ChangeAt ==
  ASSUME NEW f, NEW g, NEW S, NEW k \in S, NEW v,
         f = [x \in S |-> f[x]], g = [x \in S |-> g[x]],
         g[k] = v, \A x \in S \ {k} : g[x] = f[x]
  PROVE  g = [f EXCEPT ![k] = v]
  OBVIOUS

\* The refinement mapping is a function on the checklists, in both states.
LEMMA LifecycleFunctions ==
  /\ LifecycleState = [id \in Checklists |-> LifecycleState[id]]
  /\ LifecycleState' = [id \in Checklists |-> LifecycleState'[id]]
  BY DEF LifecycleState

\* Checklists whose rows a step leaves alone stay where they are in the life cycle.
LEMMA LifecycleUnchanged ==
  ASSUME NEW id \in Checklists, UNCHANGED <<status[id], rows[id], failure[id]>>
  PROVE  LifecycleState'[id] = LifecycleState[id]
  BY DEF LifecycleState

\* The INSERT of a checklist is the abstract Create.
LEMMA CreationIsCreate ==
  ASSUME TypeOK, NEW id \in Checklists, CreateChecklist(id)
  PROVE  Lifecycle!Create(id)
  <1>1. LifecycleState[id] = <<"absent">> /\ LifecycleState'[id] = <<"running">>
    BY LifecycleOf, LifecycleOfPrimed DEF CreateChecklist, TypeOK
  <1>2. \A k \in Checklists \ {id} : LifecycleState'[k] = LifecycleState[k]
    BY LifecycleUnchanged DEF CreateChecklist, TypeOK
  <1>3. LifecycleState' = [LifecycleState EXCEPT ![id] = <<"running">>]
    BY <1>1, <1>2, ChangeAt, LifecycleFunctions
  <1>. QED BY <1>1, <1>3 DEF Lifecycle!Create

\* A commit is the abstract Finish, with the outcome the transaction wrote.
LEMMA PublishingIsFinish ==
  ASSUME TypeOK, TransactionOK, NEW s \in Sessions, Publish(s)
  PROVE  \E o \in Outcomes : Lifecycle!Finish(call[s].id, o)
  <1>1. PICK k \in Checklists : k = call[s].id
    BY PublishStep
  <1>2. LifecycleState[k] = <<"running">>
    BY <1>1, PublishStep, LifecycleOf
  <1>3. PICK o \in Outcomes : LifecycleState'[k] = <<"done", o>>
    <2>1. CASE call[s].op = "succeed" /\ call[s].arg \in ValidContents
               /\ status'[k] = "succeeded" /\ rows'[k] = AsRead(call[s].arg)
      <3>1. <<"succeeded", AsRead(call[s].arg)>> \in Outcomes
        BY <2>1 DEF Outcomes
      <3>. QED BY <2>1, <3>1, LifecycleOfPrimed
    <2>2. CASE call[s].arg \in Details /\ status'[k] = "failed" /\ failure'[k] = call[s].arg
      <3>1. <<"failed", call[s].arg>> \in Outcomes
        BY <2>2 DEF Outcomes
      <3>. QED BY <2>2, <3>1, LifecycleOfPrimed
    <2>. QED BY <1>1, <2>1, <2>2, PublishStep
  <1>4. \A j \in Checklists \ {k} : LifecycleState'[j] = LifecycleState[j]
    BY <1>1, PublishStep, LifecycleUnchanged
  <1>5. LifecycleState' = [LifecycleState EXCEPT ![k] = <<"done", o>>]
    BY <1>3, <1>4, ChangeAt, LifecycleFunctions
  <1>. QED BY <1>1, <1>2, <1>5 DEF Lifecycle!Finish, Lifecycle!Done

------------------------------------------------------------------------------
(* The theorems. *)

\* Each part of the invariant is preserved.
LEMMA Inductive == IInv /\ [Next]_vars => IInv'
  BY TypeStep, OutcomeStep, TransactionStep, ReadingStep, ResultStep DEF IInv

\* The invariant holds of an empty database and idle sessions.
LEMMA Initial == Init => IInv
  <1> SUFFICES ASSUME Init PROVE IInv
    OBVIOUS
  <1>. QED BY TypeInit, SentinelAssumption
           DEF Init, IInv, OutcomeComplete, TransactionOK, ReadingOK, ReadingIsStable,
               AckedOutcomeStands, ReadsAreWhole, ConflictMeansDifferent, TablesRead

\* The inductive invariant holds in every reachable state: in particular every
\* variable keeps its type (TypeOK is its first conjunct).
THEOREM StoreInvariant == Spec => []IInv
  BY Initial, Inductive, PTL DEF Spec

\* The three tables of a checklist always agree on its outcome (store.go,
\* SucceedChecklist and FailChecklist).
THEOREM StoreOutcomeComplete == Spec => []OutcomeComplete
  BY StoreInvariant, PTL DEF IInv

\* A nil from SucceedChecklist or FailChecklist is the truth, for good.
THEOREM StoreAckedOutcomeStands == Spec => []AckedOutcomeStands
  BY StoreInvariant, PTL DEF IInv

\* A GET shows one moment of a checklist although GetChecklist reads table by table.
THEOREM StoreResponsesAreWhole == Spec => []ResponsesAreWhole
  <1>1. IInv => ResponsesAreWhole
    <2> SUFFICES ASSUME IInv, NEW s \in Sessions, result[s] = "found"
                 PROVE  WholeResponse(Response(s), call[s].id)
      BY DEF ResponsesAreWhole
    <2>1. WholeRead(s) /\ readStatus[s] \in Statuses
      BY DEF IInv, ReadsAreWhole, TypeOK
    <2>. QED BY <2>1 DEF WholeRead, WholeResponse, Response, Statuses
  <1>. QED BY <1>1, StoreInvariant, PTL

\* An ErrConflict is a real one unless the weights came in another order.
THEOREM StoreConflictMeansDifferent == Spec => []ConflictMeansDifferent
  BY StoreInvariant, PTL DEF IInv

\* No step changes a terminal checklist.
THEOREM StoreTerminalImmutable == Spec => TerminalImmutable
  <1>1. IInv /\ [Next]_vars =>
          [\A id \in Checklists : Terminal(id) =>
             UNCHANGED <<status[id], rows[id], failure[id]>>]_vars
    BY TerminalStep DEF IInv
  <1>. QED BY <1>1, StoreInvariant, PTL DEF Spec, TerminalImmutable

\* A call on a row that exists never reports ErrNotFound: GetChecklist reads the status
\* before the failure record, and the record is committed together with the status.
THEOREM StoreExistingRowsAreFound == Spec => ExistingRowsAreFound
  <1>1. IInv /\ [Next]_vars =>
          [\A s \in Sessions :
             (pc[s] # "idle" /\ status[call[s].id] # "absent") => result'[s] # "not_found"]_vars
    BY FoundStep
  <1>. QED BY <1>1, StoreInvariant, PTL DEF Spec, ExistingRowsAreFound

\* The store implements the one-step life cycle of Lifecycle.tla.
THEOREM StoreImplementsLifecycle == Spec => ImplementsLifecycle
  <1>1. Init => Lifecycle!Init
    BY DEF Init, Lifecycle!Init, LifecycleState
  <1>2. IInv /\ [Next]_vars => [Lifecycle!Next]_LifecycleState
    <2> SUFFICES ASSUME IInv, [Next]_vars PROVE [Lifecycle!Next]_LifecycleState
      OBVIOUS
    <2>1. CASE UNCHANGED <<status, rows, failure>>
      BY <2>1 DEF LifecycleState
    <2>2. ASSUME NEW id \in Checklists, CreateChecklist(id) PROVE Lifecycle!Next
      BY <2>2, CreationIsCreate DEF IInv, Lifecycle!Next
    <2>3. ASSUME NEW s \in Sessions, Publish(s) PROVE Lifecycle!Next
      <3>1. PICK o \in Outcomes : Lifecycle!Finish(call[s].id, o)
        BY <2>3, PublishingIsFinish DEF IInv
      <3>2. call[s].id \in Checklists
        BY <2>3, PublishStep DEF IInv
      <3>. QED BY <3>1, <3>2 DEF Lifecycle!Next
    <2>. QED BY <2>1, <2>2, <2>3, DataStep DEF IInv
  <1>. QED BY <1>1, <1>2, StoreInvariant, PTL DEF Spec, ImplementsLifecycle, Lifecycle!Spec
==============================================================================
