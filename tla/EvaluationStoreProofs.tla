------------------------ MODULE EvaluationStoreProofs ------------------------
(***************************************************************************)
(* Proofs about EvaluationStore, for any number of sessions, checklists,   *)
(* evaluations, questions, runs, contents and failure details.             *)
(***************************************************************************)
EXTENDS EvaluationStore, FiniteSetTheorems, TLAPS

Statuses == {"absent", "running", "succeeded", "failed"}
TxSteps == {"insert", "update", "commit"}
ReadSteps == {"row", "failure", "judgments", "answer"}
Steps == {"idle", "check", "insert_row", "validate", "lock"} \cup TxSteps \cup ReadSteps
Results == {"none", "ok", "conflict", "invalid", "not_found", "error", "corrupt", "found"}
Parents == Checklists \cup {NoChecklist}
Scores == {c.score : c \in Contents} \cup {NoScore}
Records == Details \cup {NoFailure}

Calls == [op : {"none"}] \cup [op : {"get"}, id : Evaluations]
           \cup [op : {"create"}, id : Evaluations, of : Checklists]
           \cup [op : {"succeed"}, id : Evaluations, of : Checklists, arg : Contents]
           \cup [op : {"fail"}, id : Evaluations, of : Checklists, arg : Details]

TypeOK ==
  /\ checklist \in [Checklists -> {"running", "succeeded", "failed"}]
  /\ status \in [Evaluations -> Statuses]
  /\ of \in [Evaluations -> Parents]
  /\ judgments \in [Evaluations -> SUBSET Judgments]
  /\ score \in [Evaluations -> Scores]
  /\ failure \in [Evaluations -> Records]
  /\ lock \in [Evaluations -> Sessions \cup {NoSession}]
  /\ pc \in [Sessions -> Steps]
  /\ call \in [Sessions -> Calls]
  /\ result \in [Sessions -> Results]
  /\ readRow \in [Sessions -> [status : Statuses, of : Parents, score : Scores]]
  /\ readFailure \in [Sessions -> Records]
  /\ readJudgments \in [Sessions -> SUBSET Judgments]

\* An evaluation is of a succeeded checklist, and its outcome is whole or not there.
EvaluationOK(e) ==
  /\ status[e] # "absent" => of[e] \in Checklists /\ checklist[of[e]] = "succeeded"
  /\ lock[e] # NoSession => status[e] = "running"
  /\ status[e] = "succeeded" =>
       /\ failure[e] = NoFailure
       /\ \E c \in Contents : /\ IsScored(c)
                             /\ judgments[e] = RowsOf(c.judgments)
                             /\ score[e] = c.score
  /\ status[e] # "succeeded" => judgments[e] = {} /\ score[e] = NoScore
  /\ status[e] = "failed" <=> failure[e] # NoFailure

\* Each step is one of the operation called, which gives an answer at its end.
CallOK(s) ==
  LET c == call[s] IN
  /\ pc[s] # "idle" => result[s] = "none" /\ c.op # "none"
  /\ c.op = "none" => result[s] = "none"
  /\ pc[s] \in {"check", "insert_row"} => c.op = "create"
  /\ pc[s] = "validate" => c.op = "succeed"
  /\ pc[s] \in {"lock"} \cup TxSteps => c.op \in {"succeed", "fail"}
  /\ pc[s] \in ReadSteps => c.op \in {"succeed", "fail", "get"}
  /\ pc[s] = "insert_row" => checklist[c.of] = "succeeded"
  /\ (c.op = "succeed" /\ pc[s] \in {"lock"} \cup TxSteps \cup ReadSteps) => IsScored(c.arg)

\* A transaction holds the lock of a running evaluation of its checklist; an operation
\* that compares does so with one that is terminal.
TransactionOK(s) ==
  LET c == call[s] IN
  /\ pc[s] \in TxSteps => status[c.id] = "running" /\ lock[c.id] = s /\ of[c.id] = c.of
  /\ (pc[s] \in ReadSteps /\ c.op # "get") => Terminal(c.id)

\* What has been read of a row with an outcome is that outcome.
ReadOK(s) ==
  LET e == call[s].id
      row == readRow[s]
  IN (pc[s] \in ReadSteps \ {"row"} \/ result[s] = "found") =>
       /\ call[s].op \in {"succeed", "fail", "get"}
       /\ row.status # "absent" /\ status[e] # "absent" /\ row.of = of[e]
       /\ call[s].op # "get" => Terminal(e) /\ row.status = status[e]
       /\ row.status = "succeeded" =>
            /\ status[e] = "succeeded" /\ row.score = score[e]
            /\ pc[s] \in {"judgments", "answer", "idle"}
            /\ pc[s] \in {"answer", "idle"} => readJudgments[s] = judgments[e]
       /\ row.status = "failed" =>
            /\ status[e] = "failed"
            /\ pc[s] # "failure" => readFailure[s] = failure[e]

\* What a session was told is true, and stays so.
ResultOK(s) ==
  LET c == call[s] IN
  /\ result[s] = "ok" => c.op \in {"create", "succeed", "fail"} /\ Holds(c)
  /\ (result[s] = "conflict" /\ c.op # "create") =>
       c.op \in {"succeed", "fail"} /\ Terminal(c.id) /\ ~Holds(c)
  /\ result[s] # "corrupt"

SessionOK(s) == CallOK(s) /\ TransactionOK(s) /\ ReadOK(s) /\ ResultOK(s)

IInv == /\ TypeOK
        /\ \A e \in Evaluations : EvaluationOK(e)
        /\ \A s \in Sessions : SessionOK(s)

------------------------------------------------------------------------------
(* Lists without duplicates and the sets of their members. *)

\* A list without duplicates is as long as its set of members is large.
LEMMA ListedOnce ==
  ASSUME NEW T, NEW s \in Seq(T), IsInjective(s)
  PROVE  IsFiniteSet(ToSet(s)) /\ Cardinality(ToSet(s)) = Len(s)
  <1>1. s \in Bijection(1..Len(s), ToSet(s))
    BY DEF IsInjective, ToSet, Bijection, Injection, Surjection
  <1>2. Len(s) \in Nat /\ ExistsBijection(1..Len(s), ToSet(s))
    BY <1>1 DEF ExistsBijection
  <1>. QED BY <1>2, FS_NatBijection, FS_CountingElements

\* Counting the places of the members with some property counts these members.
LEMMA PlacesOfMembers ==
  ASSUME NEW T, NEW s \in Seq(T), IsInjective(s), NEW P
  PROVE  Cardinality({i \in DOMAIN s : s[i] \in P}) = Cardinality(ToSet(s) \cap P)
  <1> DEFINE I == {i \in DOMAIN s : s[i] \in P}
             M == ToSet(s) \cap P
             f == [i \in I |-> s[i]]
  <1>1. f \in Bijection(I, M)
    BY DEF IsInjective, ToSet, Bijection, Injection, Surjection
  <1>2. IsFiniteSet(I)
    BY FS_Interval, FS_Subset
  <1>3. ExistsBijection(I, M)
    BY <1>1 DEF ExistsBijection
  <1>. QED BY <1>2, <1>3, FS_Bijection

------------------------------------------------------------------------------
(* The rows of a succeeded evaluation. *)

\* What AggregateJudgments checks, said of the rows: one judgment of every question
\* by every run, and each of them well formed.
WholeRows(R) ==
  /\ IsFiniteSet(R) /\ R \subseteq Judgments
  /\ \A a, b \in R : a.run = b.run /\ a.question = b.question => a = b
  /\ {<<j.run, j.question>> : j \in R} = (1..Runs) \X ToSet(Questions)
  /\ \A j \in R : j.question # 0 /\ j.evidence # Blank /\ j.answer \in Answers
  /\ Questions # <<>> /\ IsInjective(Questions) /\ 0 \notin ToSet(Questions)

\* Judgments that pass AggregateJudgments have no duplicates, and become whole rows.
LEMMA ValidAreWhole ==
  ASSUME NEW s \in Seq(Judgments), ValidRunJudgments(Questions, s, Runs)
  PROVE  IsInjective(s) /\ WholeRows(RowsOf(s))
  <1>1. \A i \in DOMAIN s : s[i] \in Judgments /\ s[i].run \in 1..Runs
    BY DEF ValidRunJudgments
  <1>2. \A r \in 1..Runs : ValidJudgments(Questions, OfRun(s, r))
    BY DEF ValidRunJudgments
  <1>3. ASSUME NEW r \in 1..Runs
        PROVE  /\ \A i, j \in DOMAIN s :
                    s[i].run = r /\ s[j].run = r /\ s[i].question = s[j].question => i = j
               /\ \A i \in DOMAIN s : s[i].run = r =>
                    /\ s[i].question # 0 /\ s[i].evidence # Blank /\ s[i].answer \in Answers
                    /\ s[i].question \in ToSet(Questions)
               /\ \A q \in ToSet(Questions) :
                    \E i \in DOMAIN s : s[i].run = r /\ s[i].question = q
    <2> DEFINE o == OfRun(s, r)
               D == {k \in DOMAIN s : s[k].run = r}
    <2>1. DOMAIN o = D /\ \A i \in D : o[i] = s[i]
      BY DEF OfRun
    <2>2. /\ \A i, j \in D : o[i].question = o[j].question => i = j
          /\ \A i \in D : o[i].question # 0 /\ o[i].evidence # Blank /\ o[i].answer \in Answers
          /\ {o[i].question : i \in D} = ToSet(Questions)
      <3>1. ValidJudgments(Questions, o)
        BY <1>2
      <3> HIDE DEF o
      <3>2. Distinct(o, "question") /\ Values(o, "question") = ToSet(Questions)
        BY <3>1 DEF ValidJudgments, ValidJudgmentShape
      <3>3. \A i \in DOMAIN o : o[i].question # 0 /\ o[i].evidence # Blank /\ o[i].answer \in Answers
        BY <3>1 DEF ValidJudgments, ValidJudgmentShape
      <3>. QED BY <2>1, <3>2, <3>3 DEF Distinct, Values
    <2> HIDE DEF o
    <2>. QED BY <2>1, <2>2
  <1>4. 1 \in 1..Runs
    BY RunsAssumption DEF ValidEvaluationRuns
  <1>5. Questions # <<>> /\ IsInjective(Questions) /\ 0 \notin ToSet(Questions)
    BY <1>2, <1>4 DEF ValidJudgments
  <1>6. \A i, j \in DOMAIN s : s[i].run = s[j].run /\ s[i].question = s[j].question => i = j
    BY <1>1, <1>3
  <1>7. IsInjective(s)
    BY <1>6 DEF IsInjective
  <1>8. IsFiniteSet(RowsOf(s))
    BY <1>7, ListedOnce DEF RowsOf
  <1>9. {<<j.run, j.question>> : j \in RowsOf(s)} = (1..Runs) \X ToSet(Questions)
    <2>1. \A i \in DOMAIN s : <<s[i].run, s[i].question>> \in (1..Runs) \X ToSet(Questions)
      BY <1>1, <1>3
    <2>2. ASSUME NEW r \in 1..Runs, NEW q \in ToSet(Questions)
          PROVE  \E j \in RowsOf(s) : <<j.run, j.question>> = <<r, q>>
      <3>1. PICK i \in DOMAIN s : s[i].run = r /\ s[i].question = q
        BY <1>3
      <3>. QED BY <3>1 DEF RowsOf, ToSet
    <2>3. \A j \in RowsOf(s) : \E i \in DOMAIN s : j = s[i]
      BY DEF RowsOf, ToSet
    <2>. QED BY <2>1, <2>2, <2>3
  <1>10. \A j \in RowsOf(s) : \E i \in DOMAIN s : j = s[i]
    BY DEF RowsOf, ToSet
  <1>. QED BY <1>1, <1>3, <1>5, <1>6, <1>7, <1>8, <1>9, <1>10 DEF WholeRows

\* Any list of whole rows without duplicates passes AggregateJudgments.
LEMMA WholeAreValid ==
  ASSUME NEW R, WholeRows(R), NEW s \in Seq(R), IsInjective(s), ToSet(s) = R
  PROVE  ValidRunJudgments(Questions, s, Runs)
  <1>1. \A i \in DOMAIN s : s[i] \in R
    OBVIOUS
  <1>2. \A j \in R : /\ <<j.run, j.question>> \in (1..Runs) \X ToSet(Questions)
                     /\ \E i \in DOMAIN s : s[i] = j
    BY DEF WholeRows, ToSet
  <1>3. ASSUME NEW r \in 1..Runs PROVE ValidJudgments(Questions, OfRun(s, r))
    <2> DEFINE o == OfRun(s, r)
               D == {k \in DOMAIN s : s[k].run = r}
    <2>1. DOMAIN o = D /\ \A i \in D : o[i] = s[i]
      BY DEF OfRun
    <2> HIDE DEF o
    <2>2. Distinct(o, "question")
      BY <1>1, <2>1 DEF Distinct, WholeRows, IsInjective
    <2>3. \A i \in DOMAIN o : o[i].question # 0 /\ o[i].evidence # Blank /\ o[i].answer \in Answers
      BY <1>1, <2>1 DEF WholeRows
    <2>4. ASSUME NEW q \in ToSet(Questions) PROVE \E i \in D : o[i].question = q
      <3>1. <<r, q>> \in {<<j.run, j.question>> : j \in R}
        BY DEF WholeRows
      <3>2. PICK j \in R : j.run = r /\ j.question = q
        BY <3>1
      <3>3. PICK i \in DOMAIN s : s[i] = j
        BY <1>2
      <3>. QED BY <2>1, <3>2, <3>3
    <2>5. Values(o, "question") = ToSet(Questions)
      <3>1. \A i \in D : o[i].question \in ToSet(Questions)
        BY <1>1, <1>2, <2>1
      <3>. QED BY <2>1, <2>4, <3>1 DEF Values
    <2>6. o # <<>>
      <3>1. Questions # <<>>
        BY DEF WholeRows
      <3>2. 1 \in DOMAIN Questions
        BY <3>1, QuestionsAssumption
      <3>3. \E i \in D : TRUE
        BY <2>4, <3>2 DEF ToSet
      <3>. QED BY <2>1, <3>3
    <2>. QED BY <2>2, <2>3, <2>5, <2>6 DEF ValidJudgments, ValidJudgmentShape, WholeRows, o
  <1>. QED BY <1>1, <1>2, <1>3, RunsAssumption DEF ValidRunJudgments

\* There are as many whole rows as runs times questions.
LEMMA WholeRowsCount ==
  ASSUME NEW R, WholeRows(R)
  PROVE  Cardinality(R) = Runs * Len(Questions)
  <1> DEFINE K == (1..Runs) \X ToSet(Questions)
             f == [j \in R |-> <<j.run, j.question>>]
  <1>1. \A j \in R : f[j] \in K
    BY DEF WholeRows
  <1>2. \A a, b \in R : f[a] = f[b] => a = b
    BY DEF WholeRows
  <1>3. \A k \in K : \E j \in R : f[j] = k
    <2>1. K = {<<j.run, j.question>> : j \in R}
      BY DEF WholeRows
    <2>. QED BY <2>1
  <1>4. f \in Bijection(R, K)
    BY <1>1, <1>2, <1>3 DEF IsInjective, Bijection, Injection, Surjection
  <1>5. Cardinality(R) = Cardinality(K)
    BY <1>4, FS_Bijection DEF ExistsBijection, WholeRows
  <1>6. IsFiniteSet(ToSet(Questions)) /\ Cardinality(ToSet(Questions)) = Len(Questions)
    BY ListedOnce, QuestionsAssumption DEF WholeRows
  <1>7. IsFiniteSet(1..Runs) /\ Cardinality(1..Runs) = Runs
    BY FS_Interval, RunsAssumption
  <1>8. Cardinality(K) = Cardinality(1..Runs) * Cardinality(ToSet(Questions))
    BY <1>6, <1>7, FS_Product
  <1>. QED BY <1>5, <1>6, <1>7, <1>8

\* Rows with different keys can be listed by their keys, and Listed does: each row
\* once.  The place of a row is the number of the rows up to it.
LEMMA ListedRows ==
  ASSUME NEW R, WholeRows(R)
  PROVE  /\ Listed(R) \in Seq(R) /\ Len(Listed(R)) = Cardinality(R)
         /\ IsInjective(Listed(R)) /\ ToSet(Listed(R)) = R
  <1> DEFINE n == Cardinality(R)
             UpTo(a) == {x \in R : x = a \/ Before(x, a)}
             place == [a \in R |-> Cardinality(UpTo(a))]
             Sorted(l) == \A i, j \in DOMAIN l : i < j => Before(l[i], l[j])
  <1>1. \A a \in R : a.run \in Int /\ a.question \in Nat
    BY DEF WholeRows, Judgments
  <1>2. ASSUME NEW a \in R, NEW b \in R, a # b
        PROVE  Before(a, b) <=> ~Before(b, a)
    <2>1. a.run # b.run \/ a.question # b.question
      BY <1>2 DEF WholeRows
    <2>. QED BY <1>1, <2>1 DEF Before
  <1>3. \A a, b, x \in R : Before(x, a) /\ Before(a, b) => Before(x, b)
    BY <1>1 DEF Before
  <1>4. \A a \in R : ~Before(a, a)
    BY <1>1 DEF Before
  <1>5. IsFiniteSet(R) /\ n \in Nat
    BY FS_CardinalityType DEF WholeRows
  <1>6. \A a \in R : IsFiniteSet(UpTo(a)) /\ Cardinality(UpTo(a)) \in Nat /\ Cardinality(UpTo(a)) <= n
    BY <1>5, FS_Subset, FS_CardinalityType
  <1>7. ASSUME NEW a \in R, NEW b \in R, Before(a, b)
        PROVE  place[a] < place[b]
    <2>1. UpTo(a) \subseteq UpTo(b)
      BY <1>3, <1>7
    <2>2. b \in UpTo(b) /\ b \notin UpTo(a)
      BY <1>2, <1>4, <1>7
    <2>3. Cardinality(UpTo(a)) <= Cardinality(UpTo(b))
      BY <1>6, <2>1, FS_Subset
    <2>4. Cardinality(UpTo(a)) # Cardinality(UpTo(b))
      <3>1. UpTo(a) # UpTo(b)
        BY <2>2
      <3> HIDE DEF UpTo
      <3>. QED BY <1>6, <2>1, <3>1, FS_Subset
    <2>. QED BY <1>6, <2>3, <2>4
  <1>8. \A a \in R : place[a] \in 1..n
    <2> SUFFICES ASSUME NEW a \in R PROVE Cardinality(UpTo(a)) \in 1..n
      OBVIOUS
    <2>1. a \in UpTo(a)
      OBVIOUS
    <2>2. Cardinality(UpTo(a)) # 0
      BY <1>6, <2>1, FS_EmptySet
    <2>. QED BY <1>5, <1>6, <2>2
  <1>9. \A a, b \in R : place[a] = place[b] => a = b
    <2> SUFFICES ASSUME NEW a \in R, NEW b \in R, a # b PROVE place[a] # place[b]
      OBVIOUS
    <2>1. place[a] \in Nat /\ place[b] \in Nat
      BY <1>6
    <2> HIDE DEF place
    <2>. QED BY <1>2, <1>7, <2>1
  <1>10. \A i \in 1..n : \E a \in R : place[a] = i
    <2>1. place \in Injection(R, 1..n)
      BY <1>8, <1>9 DEF Injection, IsInjective
    <2>2. IsFiniteSet(1..n) /\ Cardinality(1..n) = n
      BY <1>5, FS_Interval
    <2>3. place \in Surjection(R, 1..n)
      BY <1>5, <2>1, <2>2, FS_Injection
    <2>. QED BY <2>3 DEF Surjection
  <1> DEFINE list == [i \in 1..n |-> CHOOSE a \in R : place[a] = i]
  <1> HIDE DEF place
  <1>11. \A i \in 1..n : list[i] \in R /\ place[list[i]] = i
    BY <1>10
  <1> HIDE DEF list
  <1>12. list \in [1..n -> R]
    BY <1>11 DEF list
  <1>13. Sorted(list)
    <2> SUFFICES ASSUME NEW i \in 1..n, NEW j \in 1..n, i < j PROVE Before(list[i], list[j])
      BY <1>12
    <2>1. place[list[i]] = i /\ place[list[j]] = j /\ list[i] \in R /\ list[j] \in R
      BY <1>11
    <2>2. ~Before(list[j], list[i])
      BY <1>5, <1>7, <2>1
    <2>3. list[i] # list[j]
      BY <2>1, <1>5
    <2>. QED BY <1>2, <2>1, <2>2, <2>3
  <1>14. Listed(R) \in [1..n -> R] /\ Sorted(Listed(R))
    BY <1>12, <1>13 DEF Listed
  <1>15. IsInjective(Listed(R))
    <2> SUFFICES ASSUME NEW i \in 1..n, NEW j \in 1..n, i < j PROVE Listed(R)[i] # Listed(R)[j]
      BY <1>5, <1>14 DEF IsInjective
    <2>1. Before(Listed(R)[i], Listed(R)[j]) /\ Listed(R)[i] \in R
      BY <1>14
    <2>. QED BY <1>4, <2>1
  <1>16. ToSet(Listed(R)) = R
    <2>1. Listed(R) \in Injection(1..n, R)
      BY <1>14, <1>15 DEF Injection
    <2>2. IsFiniteSet(1..n) /\ Cardinality(1..n) = n
      BY <1>5, FS_Interval
    <2>3. Listed(R) \in Surjection(1..n, R)
      BY <1>5, <2>1, <2>2, FS_Injection
    <2>. QED BY <1>14, <2>3 DEF Surjection, ToSet
  <1>17. Listed(R) \in Seq(R) /\ Len(Listed(R)) = n
    BY <1>5, <1>14
  <1>. QED BY <1>15, <1>16, <1>17

\* The score depends on the judgments, not on their order.
LEMMA ScoreOfRows ==
  ASSUME NEW s \in Seq(Judgments), IsInjective(s),
         NEW t \in Seq(Judgments), IsInjective(t), ToSet(s) = ToSet(t)
  PROVE  AggregateScore(Questions, s, Runs) = AggregateScore(Questions, t, Runs)
  <1>1. ASSUME NEW q PROVE YesCount(s, q) = YesCount(t, q)
    <2> DEFINE P == {j \in Judgments : j.question = q /\ j.answer = "yes"}
    <2>1. Cardinality({i \in DOMAIN s : s[i] \in P}) = Cardinality(ToSet(s) \cap P)
      BY PlacesOfMembers
    <2>2. Cardinality({i \in DOMAIN t : t[i] \in P}) = Cardinality(ToSet(t) \cap P)
      BY PlacesOfMembers
    <2>3. {i \in DOMAIN s : s[i] \in P} = {i \in DOMAIN s : s[i].question = q /\ s[i].answer = "yes"}
      OBVIOUS
    <2>4. {i \in DOMAIN t : t[i] \in P} = {i \in DOMAIN t : t[i].question = q /\ t[i].answer = "yes"}
      OBVIOUS
    <2>. QED BY <2>1, <2>2, <2>3, <2>4 DEF YesCount
  <1>2. \A q : Majority(s, Runs, q) = Majority(t, Runs, q)
    BY <1>1 DEF Majority
  <1>3. [q \in ToSet(Questions) |-> Majority(s, Runs, q)] = [q \in ToSet(Questions) |-> Majority(t, Runs, q)]
    BY <1>2
  <1>. QED BY <1>3 DEF AggregateScore

------------------------------------------------------------------------------
(* The data of a state that satisfies the invariant. *)

USE DEF Statuses, TxSteps, ReadSteps, Steps, Results, Parents, Records, database, reads

\* What a call is about.
LEMMA CallTypes ==
  ASSUME NEW c \in Calls
  PROVE  /\ c.op \in {"none", "get", "create", "succeed", "fail"}
         /\ c.op # "none" => c.id \in Evaluations
         /\ c.op \in {"create", "succeed", "fail"} => c.of \in Checklists
         /\ c.op = "succeed" => c.arg \in Contents
         /\ c.op = "fail" => c.arg \in Details
  BY DEF Calls

\* The judgments of a scored content have no duplicates and become whole rows.
LEMMA ContentRows ==
  ASSUME NEW c \in Contents, IsScored(c)
  PROVE  /\ c.judgments \in Seq(Judgments) /\ IsInjective(c.judgments)
         /\ WholeRows(RowsOf(c.judgments))
  BY ValidAreWhole, ContentsAssumption DEF IsScored

\* The rows of a succeeded evaluation are whole.
LEMMA SucceededRows ==
  ASSUME NEW e \in Evaluations, EvaluationOK(e), status[e] = "succeeded"
  PROVE  WholeRows(judgments[e])
  BY ContentRows DEF EvaluationOK

\* What GetEvaluation lists of it is aggregated without an error.
LEMMA SucceededIsValid ==
  ASSUME NEW e \in Evaluations, EvaluationOK(e), status[e] = "succeeded"
  PROVE  ValidRunJudgments(Questions, Listed(judgments[e]), Runs)
  <1>1. WholeRows(judgments[e])
    BY SucceededRows
  <1>. QED BY <1>1, ListedRows, WholeAreValid

\* Comparing with the rows that are there tells whether they are the content's.
LEMMA SameRows ==
  ASSUME NEW R, WholeRows(R), NEW c \in Contents, IsScored(c)
  PROVE  RunJudgmentsEqual(Listed(R), c.judgments) <=> R = RowsOf(c.judgments)
  <1>1. /\ Len(Listed(R)) = Cardinality(R) /\ ToSet(Listed(R)) = R
        /\ IsFiniteSet(R)
    BY ListedRows DEF WholeRows
  <1>2. Cardinality(RowsOf(c.judgments)) = Len(c.judgments) /\ IsFiniteSet(RowsOf(c.judgments))
    BY ContentRows, ListedOnce DEF RowsOf
  <1>3. ASSUME RunJudgmentsEqual(Listed(R), c.judgments) PROVE R = RowsOf(c.judgments)
    <2>1. RowsOf(c.judgments) \in SUBSET R /\ Cardinality(RowsOf(c.judgments)) = Cardinality(R)
      BY <1>1, <1>2, <1>3 DEF RunJudgmentsEqual, RowsOf
    <2>. QED BY <1>1, <2>1, FS_Subset
  <1>4. ASSUME R = RowsOf(c.judgments) PROVE RunJudgmentsEqual(Listed(R), c.judgments)
    BY <1>1, <1>2, <1>4 DEF RunJudgmentsEqual, RowsOf
  <1>. QED BY <1>3, <1>4

------------------------------------------------------------------------------
(* What a session can rely on while others take steps. *)

Unseen(t) == UNCHANGED <<pc[t], call[t], result[t], readRow[t], readFailure[t], readJudgments[t]>>

\* Nothing is undone: not the success of a checklist, not a row, not its outcome, and
\* not the lock that t holds.
Stable(t) ==
  /\ \A k \in Checklists : checklist[k] = "succeeded" => checklist'[k] = "succeeded"
  /\ \A e \in Evaluations :
       /\ status[e] # "absent" => status'[e] # "absent" /\ of'[e] = of[e]
       /\ Terminal(e) => UNCHANGED <<status[e], judgments[e], score[e], failure[e]>>
       /\ lock[e] = t => lock'[e] = t /\ status'[e] = status[e]

\* What holds of a call for good once it holds or fails of a terminal evaluation.
LEMMA HoldsIsStable ==
  ASSUME NEW t, Stable(t), NEW c \in Calls, c.op \in {"create", "succeed", "fail"}
  PROVE  /\ Holds(c) => Holds(c)'
         /\ Terminal(c.id) /\ ~Holds(c) /\ c.op # "create" => ~Holds(c)'
  <1>1. c.id \in Evaluations
    BY CallTypes
  <1>2. CASE c.op = "create"
    BY <1>1, <1>2 DEF Stable, Holds
  <1>3. CASE c.op = "succeed"
    BY <1>1, <1>3 DEF Stable, Holds, Terminal
  <1>4. CASE c.op = "fail"
    BY <1>1, <1>4 DEF Stable, Holds, Terminal
  <1>. QED BY <1>2, <1>3, <1>4

\* A session that did not step, and whose rows stood, remains as the invariant says.
LEMMA OthersKeep ==
  ASSUME TypeOK, NEW t \in Sessions, SessionOK(t), Unseen(t), Stable(t)
  PROVE  SessionOK(t)'
  <1>1. PICK c \in Calls : c = call[t] /\ c = call'[t]
    BY DEF TypeOK, Unseen
  <1>2. /\ c.op # "none" => c.id \in Evaluations
        /\ c.op \in {"create", "succeed", "fail"} => c.of \in Checklists
    BY CallTypes
  <1>3. CallOK(t)'
    BY <1>1, <1>2 DEF SessionOK, CallOK, Unseen, Stable
  <1>4. TransactionOK(t)'
    BY <1>1, <1>2 DEF SessionOK, CallOK, TransactionOK, Unseen, Stable, Terminal
  <1>5. ReadOK(t)'
    <2>1. SUFFICES ASSUME pc[t] \in ReadSteps \ {"row"} \/ result[t] = "found"
                   PROVE  ReadOK(t)'
      BY DEF ReadOK, Unseen
    <2>2. PICK e \in Evaluations : e = c.id
      BY <1>1, <1>2, <2>1 DEF SessionOK, ReadOK
    <2>3. status[e] # "absent" => status'[e] # "absent" /\ of'[e] = of[e]
      BY DEF Stable
    <2>4. status[e] \in {"succeeded", "failed"} =>
             UNCHANGED <<status[e], judgments[e], score[e], failure[e]>>
      BY DEF Stable, Terminal
    <2>5. /\ c.op \in {"succeed", "fail", "get"} /\ readRow[t].status # "absent"
          /\ status[e] # "absent" /\ readRow[t].of = of[e]
          /\ c.op # "get" => Terminal(e) /\ readRow[t].status = status[e]
          /\ readRow[t].status = "succeeded" =>
               /\ status[e] = "succeeded" /\ readRow[t].score = score[e]
               /\ pc[t] \in {"judgments", "answer", "idle"}
               /\ pc[t] \in {"answer", "idle"} => readJudgments[t] = judgments[e]
          /\ readRow[t].status = "failed" =>
               /\ status[e] = "failed"
               /\ pc[t] # "failure" => readFailure[t] = failure[e]
      BY <1>1, <2>1, <2>2 DEF SessionOK, ReadOK
    <2>6. /\ c.op \in {"succeed", "fail", "get"} /\ readRow'[t].status # "absent"
          /\ status'[e] # "absent" /\ readRow'[t].of = of'[e]
          /\ c.op # "get" => Terminal(e)' /\ readRow'[t].status = status'[e]
          /\ readRow'[t].status = "succeeded" =>
               /\ status'[e] = "succeeded" /\ readRow'[t].score = score'[e]
               /\ pc'[t] \in {"judgments", "answer", "idle"}
               /\ pc'[t] \in {"answer", "idle"} => readJudgments'[t] = judgments'[e]
          /\ readRow'[t].status = "failed" =>
               /\ status'[e] = "failed"
               /\ pc'[t] # "failure" => readFailure'[t] = failure'[e]
      BY <2>3, <2>4, <2>5 DEF Unseen, Terminal
    <2>. QED BY <1>1, <2>2, <2>6 DEF ReadOK
  <1>6. ResultOK(t)'
    <2>1. result'[t] = result[t]
      BY DEF Unseen
    <2>2. result[t] = "ok" => c.op \in {"create", "succeed", "fail"} /\ Holds(c)'
      BY <1>1, HoldsIsStable DEF SessionOK, ResultOK
    <2>3. ASSUME result[t] = "conflict", c.op # "create"
          PROVE  c.op \in {"succeed", "fail"} /\ Terminal(c.id)' /\ ~Holds(c)'
      <3>1. c.op \in {"succeed", "fail"} /\ Terminal(c.id) /\ ~Holds(c)
        BY <1>1, <2>3 DEF SessionOK, ResultOK
      <3>2. ~Holds(c)'
        BY <3>1, HoldsIsStable
      <3>3. Terminal(c.id)'
        BY <1>2, <3>1 DEF Stable, Terminal
      <3>. QED BY <3>1, <3>2, <3>3
    <2>4. result[t] # "corrupt"
      BY DEF SessionOK, ResultOK
    <2>. QED BY <1>1, <2>1, <2>2, <2>3, <2>4 DEF ResultOK
  <1>. QED BY <1>3, <1>4, <1>5, <1>6 DEF SessionOK

------------------------------------------------------------------------------
(* The steps of a session. *)

\* A step that leaves the database alone.
LEMMA QuietStep ==
  ASSUME IInv, UNCHANGED database
  PROVE  (\A e \in Evaluations : EvaluationOK(e)') /\ \A t \in Sessions : Stable(t)
  BY DEF IInv, EvaluationOK, Stable

Others(s) == \A t \in Sessions \ {s} : Unseen(t)

\* A call starts with nothing read and nothing decided.
LEMMA NewCallStep ==
  ASSUME IInv, NEW s \in Sessions, NEW e \in Evaluations, NewCall(s, e)
  PROVE  UNCHANGED database /\ Others(s) /\ TypeOK' /\ SessionOK(s)'
  <1>1. ASSUME NEW c \in Calls, NEW step \in Steps, Call(s, c, step), c.op # "none",
               \/ step = "check" /\ c.op = "create"
               \/ step = "validate" /\ c.op = "succeed"
               \/ step = "lock" /\ c.op = "fail"
               \/ step = "row" /\ c.op = "get"
        PROVE  UNCHANGED database /\ Others(s) /\ TypeOK' /\ SessionOK(s)'
    <2>1. NoRow \in [status : Statuses, of : Parents, score : Scores]
      BY DEF NoRow, Scores
    <2>2. UNCHANGED database /\ Others(s) /\ TypeOK'
      BY <1>1, <2>1 DEF Call, IInv, TypeOK, Others, Unseen
    <2>3. pc'[s] = step /\ call'[s] = c /\ result'[s] = "none"
      BY <1>1 DEF Call, IInv, TypeOK
    <2>. QED BY <1>1, <2>2, <2>3 DEF SessionOK, CallOK, TransactionOK, ReadOK, ResultOK
  <1>2. ASSUME NEW k \in Checklists, CreateEvaluation(s, e, k)
        PROVE  UNCHANGED database /\ Others(s) /\ TypeOK' /\ SessionOK(s)'
    <2>1. PICK c \in Calls : c = [op |-> "create", id |-> e, of |-> k]
      BY DEF Calls
    <2>. QED BY <1>1, <1>2, <2>1 DEF CreateEvaluation
  <1>3. ASSUME NEW k \in Checklists, NEW a \in Contents, SucceedEvaluation(s, e, k, a)
        PROVE  UNCHANGED database /\ Others(s) /\ TypeOK' /\ SessionOK(s)'
    <2>1. PICK c \in Calls : c = [op |-> "succeed", id |-> e, of |-> k, arg |-> a]
      BY DEF Calls
    <2>. QED BY <1>1, <1>3, <2>1 DEF SucceedEvaluation
  <1>4. ASSUME NEW k \in Checklists, NEW d \in Details, FailEvaluation(s, e, k, d)
        PROVE  UNCHANGED database /\ Others(s) /\ TypeOK' /\ SessionOK(s)'
    <2>1. PICK c \in Calls : c = [op |-> "fail", id |-> e, of |-> k, arg |-> d]
      BY DEF Calls
    <2>. QED BY <1>1, <1>4, <2>1 DEF FailEvaluation
  <1>5. ASSUME GetEvaluation(s, e)
        PROVE  UNCHANGED database /\ Others(s) /\ TypeOK' /\ SessionOK(s)'
    <2>1. PICK c \in Calls : c = [op |-> "get", id |-> e]
      BY DEF Calls
    <2>. QED BY <1>1, <1>5, <2>1 DEF GetEvaluation
  <1>. QED BY <1>2, <1>3, <1>4, <1>5 DEF NewCall

\* The steps before and inside a transaction that do not write.
LEMMA LocalStep ==
  ASSUME IInv, NEW s \in Sessions,
         CheckChecklist(s) \/ Validate(s) \/ LockTerminal(s) \/ LockNothing(s) \/ Insert(s)
  PROVE  UNCHANGED database /\ Others(s) /\ TypeOK' /\ SessionOK(s)'
  <1> USE DEF Goto, Return
  <1>1. UNCHANGED <<database, call, reads>> /\ Others(s)
    BY DEF CheckChecklist, Validate, LockTerminal, LockNothing, Insert, IInv, TypeOK, Others, Unseen
  <1>2. TypeOK'
    BY <1>1 DEF CheckChecklist, Validate, LockTerminal, LockNothing, Insert, IInv, TypeOK
  <1>3. CallOK(s) /\ TransactionOK(s)
    BY DEF IInv, SessionOK
  <1>4. PICK c \in Calls : c = call[s] /\ c = call'[s]
    BY <1>1 DEF IInv, TypeOK
  <1>5. CASE CheckChecklist(s)
    <2>1. pc[s] = "check" /\ c.op = "create" /\ result[s] = "none"
      BY <1>3, <1>4, <1>5 DEF CheckChecklist, CallOK
    <2>2. \/ pc'[s] = "insert_row" /\ result'[s] = "none" /\ checklist'[c.of] = "succeeded"
          \/ pc'[s] = "idle" /\ result'[s] = "conflict"
      BY <1>1, <1>4, <1>5, <2>1 DEF CheckChecklist, IInv, TypeOK
    <2>. QED BY <1>1, <1>2, <1>4, <2>1, <2>2 DEF SessionOK, CallOK, TransactionOK, ReadOK, ResultOK
  <1>6. CASE Validate(s)
    <2>1. pc[s] = "validate" /\ c.op = "succeed" /\ result[s] = "none"
      BY <1>3, <1>4, <1>6 DEF Validate, CallOK
    <2>2. \/ pc'[s] = "lock" /\ result'[s] = "none" /\ IsScored(c.arg)
          \/ pc'[s] = "idle" /\ result'[s] = "invalid"
      BY <1>4, <1>6, <2>1 DEF Validate, IInv, TypeOK
    <2>. QED BY <1>1, <1>2, <1>4, <2>1, <2>2 DEF SessionOK, CallOK, TransactionOK, ReadOK, ResultOK
  <1>7. CASE LockTerminal(s)
    <2>1. /\ pc[s] = "lock" /\ c.op \in {"succeed", "fail"} /\ result[s] = "none"
          /\ c.op = "succeed" => IsScored(c.arg)
      BY <1>3, <1>4, <1>7 DEF LockTerminal, CallOK
    <2>2. pc'[s] = "row" /\ result'[s] = "none" /\ Terminal(c.id)
      BY <1>4, <1>7, <2>1 DEF LockTerminal, IInv, TypeOK
    <2>3. Terminal(c.id)'
      BY <1>1, <2>2 DEF Terminal
    <2>. QED BY <1>1, <1>2, <1>4, <2>1, <2>2, <2>3
             DEF SessionOK, CallOK, TransactionOK, ReadOK, ResultOK
  <1>8. CASE LockNothing(s)
    BY <1>1, <1>2, <1>3, <1>4, <1>8 DEF LockNothing, IInv, TypeOK, SessionOK, CallOK, TransactionOK,
                                        ReadOK, ResultOK
  <1>9. CASE Insert(s)
    <2>1. /\ pc[s] = "insert" /\ c.op \in {"succeed", "fail"} /\ result[s] = "none"
          /\ c.op = "succeed" => IsScored(c.arg)
          /\ status[c.id] = "running" /\ lock[c.id] = s /\ of[c.id] = c.of
      BY <1>3, <1>4, <1>9 DEF Insert, CallOK, TransactionOK
    <2>2. pc'[s] = "update" /\ result'[s] = "none"
      BY <1>4, <1>9, <2>1 DEF Insert, IInv, TypeOK
    <2>. QED BY <1>1, <1>2, <1>4, <2>1, <2>2 DEF SessionOK, CallOK, TransactionOK, ReadOK, ResultOK
  <1>. QED BY <1>5, <1>6, <1>7, <1>8, <1>9

\* The steps of GetEvaluation up to its last read.
LEMMA ReadStep ==
  ASSUME IInv, NEW s \in Sessions, ReadRow(s) \/ ReadFailure(s) \/ ReadJudgments(s)
  PROVE  UNCHANGED database /\ Others(s) /\ TypeOK' /\ SessionOK(s)'
  <1> USE DEF Goto, Return
  <1>1. UNCHANGED <<database, call>> /\ Others(s)
    BY DEF ReadRow, ReadFailure, ReadJudgments, IInv, TypeOK, Others, Unseen
  <1>2. PICK c \in Calls : c = call[s] /\ c = call'[s]
    BY <1>1 DEF IInv, TypeOK
  <1>3. /\ CallOK(s) /\ TransactionOK(s) /\ ReadOK(s)
        /\ c.op \in {"succeed", "fail", "get"} /\ result[s] = "none"
        /\ c.op = "succeed" => IsScored(c.arg)
    BY <1>2 DEF ReadRow, ReadFailure, ReadJudgments, IInv, SessionOK, CallOK
  <1>4. PICK e \in Evaluations : e = c.id
    BY <1>3, CallTypes
  <1>5. c.op # "get" => Terminal(e) /\ Terminal(e)'
    BY <1>1, <1>2, <1>3, <1>4 DEF TransactionOK, ReadRow, ReadFailure, ReadJudgments, Terminal
  <1>6. EvaluationOK(e)
    BY DEF IInv
  <1>7. CASE ReadRow(s)
    <2>1. PICK row \in [status : Statuses, of : Parents, score : Scores] :
             row = [status |-> status[e], of |-> of[e], score |-> score[e]]
      BY DEF IInv, TypeOK
    <2>2. TypeOK'
      <3>1. readRow' \in {readRow, [readRow EXCEPT ![s] = row]}
        BY <1>2, <1>4, <1>7, <2>1 DEF ReadRow
      <3>2. /\ UNCHANGED <<readFailure, readJudgments>>
            /\ pc' \in [Sessions -> Steps] /\ result' \in [Sessions -> Results]
        BY <1>7 DEF ReadRow, IInv, TypeOK
      <3>3. readRow' \in [Sessions -> [status : Statuses, of : Parents, score : Scores]]
        BY <3>1 DEF IInv, TypeOK
      <3>. QED BY <1>1, <3>2, <3>3 DEF IInv, TypeOK
    <2>3. \/ status[e] = "absent" /\ pc'[s] = "idle" /\ result'[s] = "not_found"
          \/ /\ status[e] # "absent" /\ result'[s] = "none"
             /\ readRow'[s] = [status |-> status[e], of |-> of[e], score |-> score[e]]
             /\ pc'[s] = IF status[e] = "failed" THEN "failure" ELSE "judgments"
      BY <1>2, <1>3, <1>4, <1>7 DEF ReadRow, IInv, TypeOK
    <2>4. CASE status[e] = "absent"
      BY <1>1, <1>2, <1>3, <1>4, <2>2, <2>3, <2>4
         DEF SessionOK, CallOK, TransactionOK, ReadOK, ResultOK
    <2>5. CASE status[e] # "absent"
      <3>1. /\ readRow'[s].status = status[e] /\ readRow'[s].of = of[e]
            /\ readRow'[s].score = score[e] /\ result'[s] = "none"
            /\ pc'[s] = IF status[e] = "failed" THEN "failure" ELSE "judgments"
        BY <2>3, <2>5
      <3>2. status[e] \in Statuses
        BY DEF IInv, TypeOK
      <3>3. ReadOK(s)'
        BY <1>1, <1>2, <1>3, <1>4, <1>5, <2>5, <3>1, <3>2 DEF ReadOK
      <3>4. CallOK(s)' /\ TransactionOK(s)' /\ ResultOK(s)'
        BY <1>1, <1>2, <1>3, <1>4, <1>5, <3>1 DEF CallOK, TransactionOK, ResultOK
      <3>. QED BY <1>1, <2>2, <3>3, <3>4 DEF SessionOK
    <2>. QED BY <2>4, <2>5
  <1>8. CASE ReadFailure(s)
    <2>1. TypeOK'
      BY <1>1, <1>2, <1>4, <1>8 DEF ReadFailure, IInv, TypeOK
    <2>2. /\ pc[s] = "failure" /\ readRow' = readRow /\ readJudgments' = readJudgments
          /\ readFailure'[s] = failure[e]
      BY <1>2, <1>4, <1>8 DEF ReadFailure, IInv, TypeOK
    <2>3. /\ status[e] # "absent" /\ readRow[s].status \in {"running", "failed"}
          /\ c.op # "get" => readRow[s].status = status[e]
          /\ readRow[s].of = of[e]
          /\ readRow[s].status = "failed" => status[e] = "failed"
      BY <1>2, <1>3, <1>4, <2>2 DEF ReadOK, IInv, TypeOK
    <2>4. \/ pc'[s] = "idle" /\ result'[s] = "not_found"
          \/ pc'[s] = "judgments" /\ result'[s] = "none"
      BY <1>3, <1>8 DEF ReadFailure, IInv, TypeOK
    <2>5. ReadOK(s)'
      BY <1>1, <1>2, <1>3, <1>4, <1>5, <2>2, <2>3, <2>4 DEF ReadOK
    <2>6. CallOK(s)' /\ TransactionOK(s)' /\ ResultOK(s)'
      BY <1>1, <1>2, <1>3, <1>4, <1>5, <2>4 DEF CallOK, TransactionOK, ResultOK
    <2>. QED BY <1>1, <2>1, <2>5, <2>6 DEF SessionOK
  <1>9. CASE ReadJudgments(s)
    <2>1. TypeOK'
      BY <1>1, <1>2, <1>4, <1>9 DEF ReadJudgments, IInv, TypeOK
    <2>2. /\ pc[s] = "judgments" /\ readRow' = readRow /\ readFailure' = readFailure
          /\ readJudgments'[s] = judgments[e]
          /\ pc'[s] = "answer" /\ result'[s] = "none"
      BY <1>2, <1>3, <1>4, <1>9 DEF ReadJudgments, IInv, TypeOK
    <2>3. ReadOK(s)'
      BY <1>1, <1>2, <1>3, <1>4, <1>5, <2>2 DEF ReadOK
    <2>4. CallOK(s)' /\ TransactionOK(s)' /\ ResultOK(s)'
      BY <1>1, <1>2, <1>3, <1>4, <1>5, <2>2 DEF CallOK, TransactionOK, ResultOK
    <2>. QED BY <1>1, <2>1, <2>3, <2>4 DEF SessionOK
  <1>. QED BY <1>7, <1>8, <1>9

\* The end of GetEvaluation: what was read is whole, and a comparison tells the truth.
LEMMA AnswerStep ==
  ASSUME IInv, NEW s \in Sessions, Answer(s)
  PROVE  UNCHANGED database /\ Others(s) /\ TypeOK' /\ SessionOK(s)'
  <1>1. PICK c \in Calls : c = call[s] /\ c = call'[s]
    BY DEF Answer, IInv, TypeOK
  <1>2. /\ pc[s] = "answer" /\ c.op \in {"succeed", "fail", "get"} /\ result[s] = "none"
        /\ c.op = "succeed" => IsScored(c.arg)
        /\ ReadOK(s)
    BY <1>1 DEF Answer, IInv, SessionOK, CallOK
  <1>3. PICK e \in Evaluations : e = c.id
    BY <1>2, CallTypes
  <1> DEFINE row == readRow[s]
             rows == readJudgments[s]
  <1>4. /\ status[e] # "absent" /\ row.status # "absent" /\ row.of = of[e]
        /\ c.op # "get" => Terminal(e) /\ row.status = status[e]
        /\ row.status = "succeeded" =>
             status[e] = "succeeded" /\ row.score = score[e] /\ rows = judgments[e]
        /\ row.status = "failed" => status[e] = "failed" /\ readFailure[s] = failure[e]
    BY <1>1, <1>2, <1>3 DEF ReadOK
  <1>5. EvaluationOK(e)
    BY DEF IInv
  <1>6. row.status = "succeeded" =>
          /\ checklist[row.of] = "succeeded"
          /\ ValidRunJudgments(Questions, Listed(rows), Runs)
    BY <1>4, <1>5, SucceededIsValid DEF EvaluationOK
  <1>7. ASSUME c.op # "get" PROVE Matches(c, row, readFailure[s], rows) <=> Holds(c)
    <2>1. row.status = status[e] /\ Terminal(e)
      BY <1>4, <1>7
    <2>2. CASE c.op = "fail"
      BY <1>2, <1>3, <1>4, <2>1, <2>2 DEF Matches, Holds
    <2>3. CASE c.op = "succeed" /\ status[e] # "succeeded"
      BY <1>2, <1>3, <1>4, <2>1, <2>3 DEF Matches, Holds
    <2>4. CASE c.op = "succeed" /\ status[e] = "succeeded"
      <3>1. c.arg \in Contents /\ IsScored(c.arg)
        BY <1>2, <2>4, CallTypes
      <3>2. RunJudgmentsEqual(Listed(judgments[e]), c.arg.judgments)
              <=> judgments[e] = RowsOf(c.arg.judgments)
        BY <1>5, <2>4, <3>1, SucceededRows, SameRows
      <3>. QED BY <1>3, <1>4, <2>1, <2>4, <3>2 DEF Matches, Holds
    <2>. QED BY <1>2, <1>7, <2>2, <2>3, <2>4
  <1>8. /\ pc'[s] = "idle"
        /\ result'[s] = IF c.op = "get" THEN "found" ELSE IF Holds(c) THEN "ok" ELSE "conflict"
    BY <1>1, <1>2, <1>6, <1>7 DEF Answer, Return, IInv, TypeOK
  <1>9. UNCHANGED <<database, call, reads>> /\ Others(s) /\ TypeOK'
    <2>1. UNCHANGED <<database, call, reads>> /\ pc' = [pc EXCEPT ![s] = "idle"]
      BY DEF Answer, Return
    <2>2. PICK r : result' = [result EXCEPT ![s] = r]
      BY DEF Answer, Return
    <2>3. r \in Results
      BY <1>8, <2>2 DEF IInv, TypeOK
    <2>. QED BY <2>1, <2>2, <2>3 DEF IInv, TypeOK, Others, Unseen
  <1>10. ReadOK(s)'
    <2>1. readRow'[s] = row /\ readJudgments'[s] = rows /\ readFailure'[s] = readFailure[s]
      BY <1>9
    <2>2. Terminal(e)' <=> Terminal(e)
      BY <1>9 DEF Terminal
    <2>. QED BY <1>1, <1>2, <1>3, <1>4, <1>8, <1>9, <2>1, <2>2 DEF ReadOK
  <1>11. CallOK(s)' /\ TransactionOK(s)'
    BY <1>1, <1>2, <1>8 DEF CallOK, TransactionOK
  <1>12. ResultOK(s)'
    <2>1. Holds(c)' <=> Holds(c)
      BY <1>9 DEF Holds
    <2>2. Terminal(c.id)' <=> Terminal(c.id)
      BY <1>9 DEF Terminal
    <2>. QED BY <1>1, <1>2, <1>3, <1>4, <1>8, <2>1, <2>2 DEF ResultOK
  <1>. QED BY <1>9, <1>10, <1>11, <1>12 DEF SessionOK

------------------------------------------------------------------------------
(* The steps that write to the database. *)

\* What a step leaves of the invariant: the evaluations are fine, and so are the
\* sessions, the one that took the step and those that saw nothing of it.
Keeps(s) == /\ TypeOK' /\ (\A e \in Evaluations : EvaluationOK(e)')
            /\ SessionOK(s)' /\ Others(s) /\ (\A t \in Sessions \ {s} : Stable(t))

\* An evaluation is inserted for a checklist that has succeeded, which it then remains.
LEMMA InsertRowStep ==
  ASSUME IInv, NEW s \in Sessions, InsertRow(s)
  PROVE  Keeps(s)
  <1> USE DEF Return
  <1>1. PICK c \in Calls : c = call[s] /\ c = call'[s]
    BY DEF InsertRow, IInv, TypeOK
  <1>2. /\ pc[s] = "insert_row" /\ c.op = "create" /\ checklist[c.of] = "succeeded"
    BY <1>1 DEF InsertRow, IInv, SessionOK, CallOK
  <1>3. PICK e \in Evaluations : e = c.id
    BY <1>2, CallTypes
  <1>4. PICK k \in Checklists : k = c.of
    BY <1>2, CallTypes
  <1>5. /\ status[e] = "absent" /\ status' = [status EXCEPT ![e] = "running"]
        /\ of' = [of EXCEPT ![e] = k]
        /\ pc' = [pc EXCEPT ![s] = "idle"] /\ result' = [result EXCEPT ![s] = "ok"]
        /\ UNCHANGED <<checklist, judgments, score, failure, lock, call, reads>>
    BY <1>1, <1>3, <1>4 DEF InsertRow
  <1>6. TypeOK' /\ Others(s)
    BY <1>5 DEF IInv, TypeOK, Others, Unseen
  <1>7. \A f \in Evaluations : EvaluationOK(f)'
    <2>1. ASSUME NEW f \in Evaluations \ {e} PROVE EvaluationOK(f)'
      BY <1>5 DEF IInv, TypeOK, EvaluationOK
    <2>2. EvaluationOK(e)'
      BY <1>2, <1>4, <1>5 DEF IInv, TypeOK, EvaluationOK
    <2>. QED BY <2>1, <2>2
  <1>8. ASSUME NEW t \in Sessions PROVE Stable(t)
    <2>1. lock[e] # t
      BY <1>5, SentinelAssumption DEF IInv, EvaluationOK
    <2>. QED BY <1>5, <2>1 DEF Stable, Terminal, IInv, TypeOK
  <1>9. pc'[s] = "idle" /\ result'[s] = "ok" /\ status'[e] = "running" /\ of'[e] = k
    BY <1>5 DEF IInv, TypeOK
  <1>10. Holds(c)'
    BY <1>2, <1>3, <1>4, <1>9 DEF Holds
  <1>11. CallOK(s)' /\ TransactionOK(s)' /\ ReadOK(s)'
    BY <1>1, <1>2, <1>9 DEF CallOK, TransactionOK, ReadOK
  <1>12. ResultOK(s)'
    BY <1>1, <1>2, <1>9, <1>10 DEF ResultOK, Holds
  <1>. QED BY <1>6, <1>7, <1>8, <1>11, <1>12 DEF Keeps, SessionOK

\* A transaction that finds the row running and unlocked is the only one to write it.
LEMMA LockStep ==
  ASSUME IInv, NEW s \in Sessions, LockRunning(s)
  PROVE  Keeps(s)
  <1> USE DEF Goto
  <1>1. PICK c \in Calls : c = call[s] /\ c = call'[s]
    BY DEF LockRunning, IInv, TypeOK
  <1>2. /\ pc[s] = "lock" /\ c.op \in {"succeed", "fail"} /\ result[s] = "none"
        /\ c.op = "succeed" => IsScored(c.arg)
    BY <1>1 DEF LockRunning, IInv, SessionOK, CallOK
  <1>3. PICK e \in Evaluations : e = c.id
    BY <1>2, CallTypes
  <1>4. /\ status[e] = "running" /\ of[e] = c.of /\ lock[e] = NoSession
        /\ lock' = [lock EXCEPT ![e] = s] /\ pc' = [pc EXCEPT ![s] = "insert"]
        /\ UNCHANGED <<checklist, status, of, judgments, score, failure, call, result, reads>>
    BY <1>1, <1>3 DEF LockRunning
  <1>5. TypeOK' /\ Others(s)
    BY <1>4 DEF IInv, TypeOK, Others, Unseen
  <1>6. \A f \in Evaluations : EvaluationOK(f)'
    BY <1>4 DEF IInv, TypeOK, EvaluationOK
  <1>7. ASSUME NEW t \in Sessions \ {s} PROVE Stable(t)
    BY <1>4, SentinelAssumption DEF Stable, Terminal, IInv, TypeOK
  <1>8. pc'[s] = "insert" /\ result'[s] = "none" /\ lock'[e] = s /\ status'[e] = "running" /\ of'[e] = c.of
    BY <1>2, <1>4 DEF IInv, TypeOK
  <1>9. CallOK(s)' /\ TransactionOK(s)' /\ ReadOK(s)' /\ ResultOK(s)'
    BY <1>1, <1>2, <1>3, <1>8 DEF CallOK, TransactionOK, ReadOK, ResultOK
  <1>. QED BY <1>5, <1>6, <1>7, <1>9 DEF Keeps, SessionOK

\* The row of a transaction is still running: its update goes through.
LEMMA UpdateStep ==
  ASSUME IInv, NEW s \in Sessions, Update(s)
  PROVE  Keeps(s)
  <1> USE DEF Goto, Return
  <1>1. PICK c \in Calls : c = call[s] /\ c = call'[s]
    BY DEF Update, IInv, TypeOK
  <1>2. /\ pc[s] = "update" /\ c.op \in {"succeed", "fail"} /\ result[s] = "none"
        /\ c.op = "succeed" => IsScored(c.arg)
        /\ status[c.id] = "running" /\ lock[c.id] = s /\ of[c.id] = c.of
    BY <1>1 DEF Update, IInv, SessionOK, CallOK, TransactionOK
  <1>3. UNCHANGED <<database, call, result, reads>> /\ pc' = [pc EXCEPT ![s] = "commit"]
    BY <1>1, <1>2 DEF Update
  <1>4. TypeOK' /\ Others(s)
    BY <1>3 DEF IInv, TypeOK, Others, Unseen
  <1>5. pc'[s] = "commit" /\ result'[s] = "none"
    BY <1>2, <1>3 DEF IInv, TypeOK
  <1>6. CallOK(s)' /\ TransactionOK(s)' /\ ReadOK(s)' /\ ResultOK(s)'
    BY <1>1, <1>2, <1>3, <1>5 DEF CallOK, TransactionOK, ReadOK, ResultOK
  <1>. QED BY <1>3, <1>4, <1>6, QuietStep DEF Keeps, SessionOK

\* What a transaction publishes: the outcome of a running evaluation it has locked,
\* as it was asked for.
LEMMA CommitEffect ==
  ASSUME IInv, NEW s \in Sessions, Commit(s), NEW c \in Calls, c = call[s]
  PROVE  \E e \in Evaluations :
           /\ c.op \in {"succeed", "fail"} /\ c.id = e /\ of[e] = c.of
           /\ status[e] = "running" /\ lock[e] = s
           /\ \/ c.op = "succeed" /\ c.arg \in Contents /\ IsScored(c.arg) /\ PublishSuccess(e, c.arg)
              \/ c.op = "fail" /\ c.arg \in Details /\ PublishFailure(e, c.arg)
  <1>1. CallOK(s) /\ TransactionOK(s) /\ pc[s] = "commit"
    BY DEF IInv, SessionOK, Commit
  <1>2. /\ c.op = "succeed" => IsScored(c.arg) /\ c.arg \in Contents
        /\ c.op = "fail" => c.arg \in Details
        /\ c.op \in {"succeed", "fail"} /\ c.id \in Evaluations
        /\ status[c.id] = "running" /\ lock[c.id] = s /\ of[c.id] = c.of
    BY <1>1, CallTypes DEF CallOK, TransactionOK
  <1>. QED BY <1>2 DEF Commit, PublishSuccess, PublishFailure

\* A commit gives a running row its one outcome, and its score follows from its judgments.
LEMMA CommitStep ==
  ASSUME IInv, NEW s \in Sessions, Commit(s)
  PROVE  Keeps(s)
  <1> USE DEF Return, Unlock
  <1>1. PICK c \in Calls : c = call[s] /\ c = call'[s]
    BY DEF Commit, IInv, TypeOK
  <1>2. PICK e \in Evaluations :
           /\ c.op \in {"succeed", "fail"} /\ c.id = e /\ of[e] = c.of
           /\ status[e] = "running" /\ lock[e] = s
           /\ \/ c.op = "succeed" /\ c.arg \in Contents /\ IsScored(c.arg) /\ PublishSuccess(e, c.arg)
              \/ c.op = "fail" /\ c.arg \in Details /\ PublishFailure(e, c.arg)
    BY <1>1, CommitEffect
  <1>3. /\ UNCHANGED <<checklist, of, call, reads>> /\ pc' = [pc EXCEPT ![s] = "idle"]
        /\ \E r \in {"ok", "error"} : result' = [result EXCEPT ![s] = r]
        /\ lock' = [f \in Evaluations |-> IF lock[f] = s THEN NoSession ELSE lock[f]]
    BY DEF Commit
  <1>4. /\ \A f \in Evaluations \ {e} : UNCHANGED <<status[f], judgments[f], score[f], failure[f]>>
        /\ c.op = "succeed" =>
             /\ status'[e] = "succeeded" /\ judgments'[e] = RowsOf(c.arg.judgments)
             /\ score'[e] = c.arg.score /\ failure'[e] = failure[e]
        /\ c.op = "fail" =>
             /\ status'[e] = "failed" /\ failure'[e] = c.arg
             /\ judgments'[e] = judgments[e] /\ score'[e] = score[e]
    BY <1>2 DEF PublishSuccess, PublishFailure, IInv, TypeOK
  <1>5. TypeOK' /\ Others(s)
    <2>1. Others(s) /\ UNCHANGED <<checklist, of, call, reads>>
      BY <1>3 DEF IInv, TypeOK, Others, Unseen
    <2>2. /\ pc' \in [Sessions -> Steps] /\ result' \in [Sessions -> Results]
          /\ lock' \in [Evaluations -> Sessions \cup {NoSession}]
      BY <1>3 DEF IInv, TypeOK
    <2>3. /\ status' \in [Evaluations -> Statuses] /\ judgments' \in [Evaluations -> SUBSET Judgments]
          /\ score' \in [Evaluations -> Scores] /\ failure' \in [Evaluations -> Records]
      <3>1. CASE PublishFailure(e, c.arg) /\ c.arg \in Details
        BY <3>1 DEF PublishFailure, IInv, TypeOK
      <3>2. CASE PublishSuccess(e, c.arg) /\ c.arg \in Contents /\ IsScored(c.arg)
        <4>1. c.arg.score \in Scores
          BY <3>2 DEF Scores
        <4>2. RowsOf(c.arg.judgments) \in SUBSET Judgments
          BY <3>2, ContentRows DEF WholeRows
        <4>. QED BY <3>2, <4>1, <4>2 DEF PublishSuccess, IInv, TypeOK
      <3>. QED BY <1>2, <3>1, <3>2
    <2>. QED BY <2>1, <2>2, <2>3 DEF IInv, TypeOK
  <1>6. \A f \in Evaluations : EvaluationOK(f)'
    <2>1. ASSUME NEW f \in Evaluations \ {e} PROVE EvaluationOK(f)'
      <3>1. EvaluationOK(f) /\ lock'[f] \in {lock[f], NoSession}
        BY <1>3 DEF IInv
      <3>. QED BY <1>3, <1>4, <3>1 DEF EvaluationOK
    <2>2. EvaluationOK(e) /\ lock'[e] = NoSession /\ status[e] = "running"
      BY <1>2, <1>3 DEF IInv
    <2>3. ASSUME c.op = "succeed" PROVE EvaluationOK(e)'
      BY <1>2, <1>3, <1>4, <2>2, <2>3 DEF EvaluationOK
    <2>4. ASSUME c.op = "fail" PROVE EvaluationOK(e)'
      BY <1>2, <1>3, <1>4, <2>2, <2>4, SentinelAssumption DEF EvaluationOK
    <2>. QED BY <1>2, <2>1, <2>3, <2>4
  <1>7. ASSUME NEW t \in Sessions \ {s} PROVE Stable(t)
    <2>1. \A f \in Evaluations : lock[f] = t => f # e /\ lock'[f] = t
      BY <1>2, <1>3
    <2>. QED BY <1>2, <1>3, <1>4, <2>1 DEF Stable, Terminal
  <1>8. pc'[s] = "idle" /\ result'[s] \in {"ok", "error"}
    BY <1>3 DEF IInv, TypeOK
  <1>9. Holds(c)'
    BY <1>2, <1>3, <1>4 DEF Holds
  <1>10. CallOK(s)' /\ TransactionOK(s)' /\ ReadOK(s)'
    BY <1>1, <1>2, <1>8 DEF CallOK, TransactionOK, ReadOK
  <1>11. ResultOK(s)'
    BY <1>1, <1>2, <1>8, <1>9 DEF ResultOK
  <1>. QED BY <1>5, <1>6, <1>7, <1>10, <1>11 DEF Keeps, SessionOK

\* An aborted call leaves the committed rows alone and gives its lock back.
LEMMA AbortStep ==
  ASSUME IInv, NEW s \in Sessions, Abort(s)
  PROVE  Keeps(s)
  <1> USE DEF Return, Unlock
  <1>1. /\ UNCHANGED <<checklist, status, of, judgments, score, failure, call, reads>>
        /\ pc' = [pc EXCEPT ![s] = "idle"] /\ result' = [result EXCEPT ![s] = "error"]
        /\ lock' = [f \in Evaluations |-> IF lock[f] = s THEN NoSession ELSE lock[f]]
        /\ call[s].op # "none"
    BY DEF Abort, IInv, SessionOK, CallOK
  <1>2. TypeOK' /\ Others(s)
    BY <1>1 DEF IInv, TypeOK, Others, Unseen
  <1>3. ASSUME NEW f \in Evaluations PROVE EvaluationOK(f)'
    <2>1. EvaluationOK(f) /\ lock'[f] \in {lock[f], NoSession}
      BY <1>1 DEF IInv
    <2>. QED BY <1>1, <2>1 DEF EvaluationOK
  <1>4. ASSUME NEW t \in Sessions \ {s} PROVE Stable(t)
    BY <1>1 DEF Stable
  <1>5. pc'[s] = "idle" /\ result'[s] = "error" /\ call'[s] = call[s]
    BY <1>1 DEF IInv, TypeOK
  <1>6. SessionOK(s)'
    BY <1>1, <1>5 DEF SessionOK, CallOK, TransactionOK, ReadOK, ResultOK
  <1>. QED BY <1>2, <1>3, <1>4, <1>6 DEF Keeps

------------------------------------------------------------------------------
(* The invariant. *)

\* The invariant holds of an empty database and idle sessions.
LEMMA InvariantInit == Init => IInv
  <1> SUFFICES ASSUME Init PROVE IInv
    OBVIOUS
  <1>1. NoRow \in [status : Statuses, of : Parents, score : Scores]
    BY DEF NoRow, Scores
  <1>2. [op |-> "none"] \in Calls
    BY DEF Calls
  <1>3. TypeOK
    BY <1>1, <1>2 DEF Init, TypeOK, Scores
  <1>4. \A e \in Evaluations : EvaluationOK(e)
    BY DEF Init, EvaluationOK
  <1>5. ASSUME NEW s \in Sessions PROVE SessionOK(s)
    <2>1. pc[s] = "idle" /\ result[s] = "none" /\ call[s].op = "none"
      BY DEF Init
    <2>. QED BY <2>1 DEF SessionOK, CallOK, TransactionOK, ReadOK, ResultOK
  <1>. QED BY <1>3, <1>4, <1>5 DEF IInv

SessionStep(s) == Progress(s) \/ Abort(s) \/ \E e \in Evaluations : NewCall(s, e)

\* Every step of a session keeps the invariant of the data and its own.
LEMMA SessionKeeps == ASSUME IInv, NEW s \in Sessions, SessionStep(s) PROVE Keeps(s)
  <1>1. ASSUME UNCHANGED database, Others(s), TypeOK', SessionOK(s)' PROVE Keeps(s)
    BY <1>1, QuietStep DEF Keeps
  <1>2. CASE CheckChecklist(s) \/ Validate(s) \/ LockTerminal(s) \/ LockNothing(s) \/ Insert(s)
    BY <1>1, <1>2, LocalStep
  <1>3. CASE Read(s)
    BY <1>1, <1>3, ReadStep, AnswerStep DEF Read
  <1>4. ASSUME NEW e \in Evaluations, NewCall(s, e) PROVE Keeps(s)
    BY <1>1, <1>4, NewCallStep
  <1>5. CASE InsertRow(s) \/ LockRunning(s) \/ Update(s) \/ Commit(s) \/ Abort(s)
    BY <1>5, InsertRowStep, LockStep, UpdateStep, CommitStep, AbortStep
  <1>. QED BY <1>2, <1>3, <1>4, <1>5 DEF SessionStep, Progress

\* Every step keeps the invariant: what one session does is stable for the others.
LEMMA InvariantStep == IInv /\ [Next]_vars => IInv'
  <1> SUFFICES ASSUME IInv, [Next]_vars PROVE IInv'
    OBVIOUS
  <1>1. ASSUME NEW s \in Sessions, SessionStep(s) PROVE IInv'
    <2>1. Keeps(s)
      BY <1>1, SessionKeeps
    <2>2. ASSUME NEW t \in Sessions \ {s} PROVE SessionOK(t)'
      BY <2>1, OthersKeep DEF Keeps, Others, IInv
    <2>. QED BY <2>1, <2>2 DEF Keeps, IInv
  <1>2. ASSUME NEW k \in Checklists, ChecklistEnds(k) PROVE IInv'
    <2>1. TypeOK' /\ (\A e \in Evaluations : EvaluationOK(e)')
      BY <1>2 DEF ChecklistEnds, IInv, TypeOK, EvaluationOK
    <2>2. ASSUME NEW t \in Sessions PROVE Unseen(t) /\ Stable(t)
      BY <1>2 DEF ChecklistEnds, IInv, TypeOK, Unseen, Stable
    <2>. QED BY <2>1, <2>2, OthersKeep DEF IInv
  <1>3. CASE UNCHANGED vars
    <2>1. TypeOK'
      BY <1>3 DEF vars, IInv, TypeOK
    <2>2. \A t \in Sessions : Unseen(t) /\ Stable(t)
      BY <1>3 DEF vars, Unseen, Stable
    <2>. QED BY <1>3, <2>1, <2>2, QuietStep, OthersKeep DEF vars, IInv
  <1>. QED BY <1>1, <1>2, <1>3 DEF Next, SessionStep

\* The rows of an evaluation, the answers and the reads in progress fit together at
\* every statement of every session.
THEOREM EvaluationInvariant == Spec => []IInv
  BY InvariantInit, InvariantStep, PTL DEF Spec

\* What GetEvaluation and the workflow store agree on: a succeeded row has all of its
\* judgments and the score SucceedEvaluation computed from them again, a failed one
\* its failure record, any other nothing.
THEOREM EvaluationScoreFollowsFromRows == Spec => []ScoreFollowsFromRows
  <1>1. ASSUME IInv, NEW e \in Evaluations, status[e] = "succeeded"
        PROVE  /\ {<<j.run, j.question>> : j \in judgments[e]} = (1..Runs) \X ToSet(Questions)
               /\ Cardinality(judgments[e]) = Runs * Len(Questions)
               /\ score[e] = AggregateScore(Questions, Listed(judgments[e]), Runs)
    <2>1. PICK c \in Contents : /\ IsScored(c) /\ judgments[e] = RowsOf(c.judgments)
                                /\ score[e] = c.score
      BY <1>1 DEF IInv, EvaluationOK
    <2>2. WholeRows(judgments[e]) /\ judgments[e] \subseteq Judgments
      BY <2>1, ContentRows DEF WholeRows
    <2>3. Listed(judgments[e]) \in Seq(Judgments) /\ IsInjective(Listed(judgments[e]))
          /\ ToSet(Listed(judgments[e])) = ToSet(c.judgments)
      BY <2>1, <2>2, ListedRows DEF RowsOf
    <2>4. AggregateScore(Questions, Listed(judgments[e]), Runs) = AggregateScore(Questions, c.judgments, Runs)
      BY <2>1, <2>3, ContentRows, ScoreOfRows
    <2>. QED BY <2>1, <2>2, <2>4, WholeRowsCount DEF WholeRows, IsScored
  <1>2. IInv => ScoreFollowsFromRows
    BY <1>1 DEF IInv, EvaluationOK, ScoreFollowsFromRows
  <1>. QED BY <1>2, EvaluationInvariant, PTL

\* A nil from CreateEvaluation, SucceedEvaluation or FailEvaluation is the truth about
\* that checklist's evaluation, for good.
THEOREM EvaluationAckedOutcomeStands == Spec => []AckedOutcomeStands
  <1>1. IInv => AckedOutcomeStands
    BY DEF IInv, SessionOK, ResultOK, AckedOutcomeStands
  <1>. QED BY <1>1, EvaluationInvariant, PTL

\* An ErrConflict of SucceedEvaluation or FailEvaluation is a real one: the same
\* judgments in any order never conflict with themselves.
THEOREM EvaluationIdenticalRetrySucceeds == Spec => []IdenticalRetrySucceeds
  <1>1. IInv => IdenticalRetrySucceeds
    BY DEF IInv, SessionOK, ResultOK, IdenticalRetrySucceeds
  <1>. QED BY <1>1, EvaluationInvariant, PTL

\* A GET of an evaluation shows one moment of it, although GetEvaluation reads its
\* row, its failure record and its judgments one after another, and it never fails on
\* the rows it finds.
THEOREM EvaluationResponsesAreWhole == Spec => []ResponsesAreWhole
  <1>1. ASSUME IInv, NEW s \in Sessions, result[s] = "found"
        PROVE  LET e == call[s].id IN
               Response(s) = CASE readRow[s].status = "succeeded" -> Shown("succeeded", score[e], judgments[e], NoFailure)
                               [] readRow[s].status = "failed" -> Shown("failed", NoScore, {}, failure[e])
                               [] OTHER -> Shown("running", NoScore, {}, NoFailure)
    <2>1. ReadOK(s) /\ CallOK(s) /\ readRow[s].status \in Statuses
      BY <1>1 DEF IInv, SessionOK, TypeOK
    <2>2. pc[s] = "idle"
      BY <1>1, <2>1 DEF CallOK, IInv, TypeOK
    <2>. QED BY <1>1, <2>1, <2>2 DEF ReadOK, Response, Shown
  <1>2. IInv => \A s \in Sessions : result[s] # "corrupt"
    BY DEF IInv, SessionOK, ResultOK
  <1>3. IInv => ResponsesAreWhole
    BY <1>1, <1>2 DEF ResponsesAreWhole
  <1>. QED BY <1>3, EvaluationInvariant, PTL

------------------------------------------------------------------------------
(* The refinement. *)

\* A step leaves the outcomes alone, inserts a row, or commits a transaction.
LEMMA DataStep ==
  ASSUME IInv, [Next]_vars
  PROVE  \/ UNCHANGED <<status, judgments, score, failure>>
         \/ \E s \in Sessions : InsertRow(s) \/ Commit(s)
  BY DEF Next, vars, ChecklistEnds, Progress, Abort, CheckChecklist, Validate, LockRunning,
         LockTerminal, LockNothing, Insert, Update, Read, ReadRow, ReadFailure, ReadJudgments,
         Answer, NewCall, CreateEvaluation, SucceedEvaluation, FailEvaluation, GetEvaluation, Call

\* A function that differs at one argument only is an EXCEPT.
LEMMA ChangeAt ==
  ASSUME NEW f, NEW g, NEW S, NEW k \in S, NEW v,
         f = [x \in S |-> f[x]], g = [x \in S |-> g[x]],
         g[k] = v, \A x \in S \ {k} : g[x] = f[x]
  PROVE  g = [f EXCEPT ![k] = v]
  OBVIOUS

\* The refinement mapping is a function on the evaluations, in both states.
LEMMA LifecycleFunctions ==
  /\ LifecycleState = [e \in Evaluations |-> LifecycleState[e]]
  /\ LifecycleState' = [e \in Evaluations |-> LifecycleState'[e]]
  BY DEF LifecycleState

\* Evaluations whose rows a step leaves alone stay where they are in the life cycle.
LEMMA LifecycleUnchanged ==
  ASSUME NEW e \in Evaluations, UNCHANGED <<status[e], judgments[e], score[e], failure[e]>>
  PROVE  LifecycleState'[e] = LifecycleState[e]
  BY DEF LifecycleState

\* The INSERT of an evaluation is the abstract Create.
LEMMA InsertionIsCreate ==
  ASSUME IInv, NEW s \in Sessions, InsertRow(s)
  PROVE  \E e \in Evaluations : Lifecycle!Create(e)
  <1>1. PICK e \in Evaluations : e = call[s].id
    <2>1. call[s] \in Calls /\ call[s].op = "create"
      BY DEF InsertRow, IInv, TypeOK, SessionOK, CallOK
    <2>. QED BY <2>1, CallTypes
  <1>2. /\ status[e] = "absent" /\ status' = [status EXCEPT ![e] = "running"]
        /\ UNCHANGED <<judgments, score, failure>>
    BY <1>1 DEF InsertRow
  <1>3. LifecycleState[e] = <<"absent">> /\ LifecycleState'[e] = <<"running">>
    BY <1>2 DEF LifecycleState, IInv, TypeOK
  <1>4. \A f \in Evaluations \ {e} : LifecycleState'[f] = LifecycleState[f]
    BY <1>2, LifecycleUnchanged DEF IInv, TypeOK
  <1>5. LifecycleState' = [LifecycleState EXCEPT ![e] = <<"running">>]
    BY <1>3, <1>4, ChangeAt, LifecycleFunctions
  <1>. QED BY <1>3, <1>5 DEF Lifecycle!Create

\* A commit is the abstract Finish, with the outcome the transaction wrote.
LEMMA CommitIsFinish ==
  ASSUME IInv, NEW s \in Sessions, Commit(s)
  PROVE  \E e \in Evaluations, o \in Outcomes : Lifecycle!Finish(e, o)
  <1>1. PICK c \in Calls : c = call[s]
    BY DEF IInv, TypeOK
  <1>2. PICK e \in Evaluations :
           /\ status[e] = "running"
           /\ \/ c.op = "succeed" /\ c.arg \in Contents /\ IsScored(c.arg) /\ PublishSuccess(e, c.arg)
              \/ c.op = "fail" /\ c.arg \in Details /\ PublishFailure(e, c.arg)
    BY <1>1, CommitEffect
  <1>3. LifecycleState[e] = <<"running">>
    BY <1>2 DEF LifecycleState
  <1>4. PICK o \in Outcomes : LifecycleState'[e] = <<"done", o>>
    <2>1. ASSUME c.arg \in Contents, IsScored(c.arg), PublishSuccess(e, c.arg)
          PROVE  \E o \in Outcomes : LifecycleState'[e] = <<"done", o>>
      <3>1. /\ status'[e] = "succeeded" /\ judgments'[e] = RowsOf(c.arg.judgments)
            /\ score'[e] = c.arg.score
        BY <2>1 DEF PublishSuccess, IInv, TypeOK
      <3>2. <<"succeeded", RowsOf(c.arg.judgments), c.arg.score>> \in Outcomes
        BY <2>1 DEF Outcomes
      <3>. QED BY <3>1, <3>2 DEF LifecycleState
    <2>2. ASSUME c.arg \in Details, PublishFailure(e, c.arg)
          PROVE  \E o \in Outcomes : LifecycleState'[e] = <<"done", o>>
      <3>1. status'[e] = "failed" /\ failure'[e] = c.arg
        BY <2>2 DEF PublishFailure, IInv, TypeOK
      <3>2. <<"failed", c.arg>> \in Outcomes
        BY <2>2 DEF Outcomes
      <3>. QED BY <3>1, <3>2 DEF LifecycleState
    <2>. QED BY <1>2, <2>1, <2>2
  <1>5. \A f \in Evaluations \ {e} : LifecycleState'[f] = LifecycleState[f]
    <2>1. \A f \in Evaluations \ {e} : UNCHANGED <<status[f], judgments[f], score[f], failure[f]>>
      BY <1>2 DEF PublishSuccess, PublishFailure, IInv, TypeOK
    <2>. QED BY <2>1, LifecycleUnchanged
  <1>6. LifecycleState' = [LifecycleState EXCEPT ![e] = <<"done", o>>]
    BY <1>4, <1>5, ChangeAt, LifecycleFunctions
  <1>. QED BY <1>3, <1>6 DEF Lifecycle!Finish, Lifecycle!Done

\* The evaluation half of store.go implements the one-step life cycle of Lifecycle.tla:
\* an outcome appears whole, once, and never changes.
THEOREM EvaluationImplementsLifecycle == Spec => ImplementsLifecycle
  <1>1. Init => Lifecycle!Init
    BY DEF Init, Lifecycle!Init, LifecycleState
  <1>2. IInv /\ [Next]_vars => [Lifecycle!Next]_LifecycleState
    <2> SUFFICES ASSUME IInv, [Next]_vars PROVE [Lifecycle!Next]_LifecycleState
      OBVIOUS
    <2>1. CASE UNCHANGED <<status, judgments, score, failure>>
      BY <2>1 DEF LifecycleState
    <2>2. ASSUME NEW s \in Sessions, InsertRow(s) PROVE Lifecycle!Next
      BY <2>2, InsertionIsCreate DEF Lifecycle!Next
    <2>3. ASSUME NEW s \in Sessions, Commit(s) PROVE Lifecycle!Next
      BY <2>3, CommitIsFinish DEF Lifecycle!Next
    <2>. QED BY <2>1, <2>2, <2>3, DataStep
  <1>. QED BY <1>1, <1>2, EvaluationInvariant, PTL DEF Spec, ImplementsLifecycle, Lifecycle!Spec
===============================================================================
