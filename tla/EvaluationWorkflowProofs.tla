----------------------- MODULE EvaluationWorkflowProofs -----------------------
(***************************************************************************)
(* EvaluationWorkflow for any questions, any judgments the model may       *)
(* answer with, any run counts the configuration admits and any number of  *)
(* attempts and orphans: an inductive invariant of the tasks, the bodies,  *)
(* the accepted judgments and the row, and from it that the outcome        *)
(* matches the row, that the score is that of the majority of the runs,    *)
(* and that accepted judgments can always be scored.                       *)
(***************************************************************************)
EXTENDS EvaluationWorkflow, FiniteSetTheorems, TLAPS

Errors == {TimeoutError} \cup {ToTemporalError(k, n) : k \in ErrorKinds, n \in 1..MaxAttempts}

TaskType == [state : {"unscheduled", "scheduled", "started", "completed", "failed"},
             attempt : 0..MaxAttempts,
             error : Errors \cup {NoError}]

BodyType == [task : EvaluationTasks, attempt : 1..MaxAttempts, did : {"nothing", "ok", "conflict"}]

Judgments == [question : Nat, evidence : Texts, answer : STRING]

TypeOK ==
  /\ stage \in StageNames \cup {"start", "closed"}
  /\ runs \in RunCounts
  /\ judged \in [1..MaxRuns -> Seq(Judgments)]
  /\ DOMAIN row = {"status", "judgments", "score", "failure"}
  /\ row = [f \in DOMAIN row |-> row[f]]
  /\ task \in [EvaluationTasks -> TaskType]
  /\ bodies \subseteq BodyType

\* A waiting task has an attempt left.
TaskOK(r) ==
  /\ r.state = "scheduled" => r.attempt < MaxAttempts
  /\ r.state = "started" => r.attempt >= 1

\* What it means that the store acknowledged an activity of stage s.
Acked(s) ==
  /\ s = "succeed_evaluation" => row.status = "succeeded"
  /\ s = "fail_evaluation" => row.status = "failed" /\ row.failure = failing.record

\* The stages that have not begun while the workflow waits in s.
Later(s) ==
  CASE s = "start" -> StageNames
    [] s = "write_evaluation_input" -> StageNames \ {"write_evaluation_input"}
    [] s = "load_checklist" -> {"binary_judging", "succeed_evaluation", "fail_evaluation"}
    [] s = "binary_judging" -> {"succeed_evaluation", "fail_evaluation"}
    [] s = "succeed_evaluation" -> {"fail_evaluation"}

Proceeding ==
  /\ failing = NotFailing
  /\ outcome = "open"
  /\ \A t \in EvaluationTasks : t[1] \in Later(stage) => task[t].state = "unscheduled"

\* A completed task left its result; no run beyond evaluation_runs is ever judged.
TasksOK == \A t \in EvaluationTasks :
             /\ TaskOK(task[t])
             /\ task[t].state = "completed" =>
                  Acked(t[1]) /\ (t[1] = "binary_judging" => Accepts(judged[t[2]]))
             /\ t[1] = "binary_judging" /\ t[2] > runs => task[t].state = "unscheduled"

BodiesOK == \A b \in bodies :
              /\ task[b.task].state # "unscheduled"
              /\ b.did = "ok" => Acked(b.task[1])
              /\ b.did # "nothing" => b.task[1] \in StoreStages

JudgedOK == \A r \in 1..MaxRuns : judged[r] # <<>> => Accepts(judged[r])

Succeeding == \E t \in EvaluationTasks : t[1] = "succeed_evaluation" /\ task[t].state # "unscheduled"

\* The row is written while every run is judged, and no run is judged after.
RowOK == row.status = "succeeded" =>
           /\ Succeeding
           /\ row.judgments = judged
           /\ row.score = AggregateScore(Questions, RunJudgments, runs)

StagesOK ==
  /\ Succeeding => AllCompleted("binary_judging")
  /\ stage \notin {"fail_evaluation", "closed"} => Proceeding
  /\ outcome # "open" => stage = "closed"

FailureOK == failing # NotFailing => failing.record.stage # "score_checklist"

IInv == /\ TypeOK /\ TasksOK /\ BodiesOK /\ JudgedOK /\ RowOK /\ StagesOK /\ FailureOK
        /\ OutcomeMatchesRow

USE AttemptsAssumption

------------------------------------------------------------------------------
(* Sequences of sequences. *)

\* Sets of naturals have a least element, which is how what holds for every number is shown.
LEMMA LeastNumber ==
  ASSUME NEW S \in SUBSET Nat, S # {}
  PROVE  \E m \in S : \A k \in S : m <= k
  <1>. DEFINE R == {ss \in Nat \X Nat : ss[1] < ss[2]}
  <1>1. IsWellFoundedOn(R, Nat)
    BY NatLessThanWellFounded DEF OpToRel
  <1>2. \A k, m \in Nat : <<k, m>> \notin R => m <= k
    OBVIOUS
  <1>. HIDE DEF R
  <1>3. PICK m \in S : \A k \in S : ~(<<k, m>> \in R)
    BY <1>1, WFMin
  <1>. QED BY <1>2, <1>3

\* f[i] is the concatenation of the first i sequences.
Concatenates(f, seqs, n) ==
  f[1] = seqs[1] /\ \A i \in 2..n : f[i] = f[i - 1] \o seqs[i]

\* FlattenSeq is computed from left to right: a function that keeps to its recursion is
\* the one that computes it.
LEMMA FlattenIs ==
  ASSUME NEW seqs, NEW n \in Nat \ {0}, Len(seqs) = n, NEW g, Concatenates(g, seqs, n)
  PROVE  FlattenSeq(seqs) = g[n]
  <1> DEFINE Keeps(f) == f = [i \in 1..Len(seqs) |-> IF i = 1 THEN seqs[i] ELSE f[i - 1] \o seqs[i]]
             flatten == CHOOSE f : Keeps(f)
  <1>0. \A i \in 1..n : g[i] = IF i = 1 THEN seqs[i] ELSE g[i - 1] \o seqs[i]
    <2>1. ASSUME NEW i \in 1..n, i # 1 PROVE g[i] = g[i - 1] \o seqs[i]
      <3>1. i \in 2..n
        BY <2>1
      <3>. QED BY <3>1 DEF Concatenates
    <2>2. g[1] = seqs[1]
      BY DEF Concatenates
    <2>. QED BY <2>1, <2>2
  <1>1. FlattenSeq(seqs) = flatten[n]
    BY DEF FlattenSeq
  <1>2. Keeps(flatten)
    <2> DEFINE h == [i \in 1..n |-> g[i]]
    <2>1. Keeps(h)
      <3>1. \A i \in 1..n : h[i] = IF i = 1 THEN seqs[i] ELSE h[i - 1] \o seqs[i]
        BY <1>0
      <3>. QED BY <3>1
    <2> HIDE DEF Keeps, h
    <2>. QED BY <2>1
  <1>3. \A i \in 1..n : flatten[i] = IF i = 1 THEN seqs[i] ELSE flatten[i - 1] \o seqs[i]
    BY <1>2
  <1> HIDE DEF flatten
  <1>4. \A i \in 1..n : flatten[i] = g[i]
    <2> DEFINE differ == {i \in 1..n : flatten[i] # g[i]}
    <2>1. SUFFICES ASSUME differ # {} PROVE FALSE
      OBVIOUS
    <2>4. differ \in SUBSET Nat
      OBVIOUS
    <2>2. PICK m \in differ : \A k \in differ : m <= k
      <3> HIDE DEF differ
      <3>. QED BY <2>1, <2>4, LeastNumber
    <2>3. m \in 1..n /\ flatten[m] # g[m] /\ (m # 1 => m - 1 \in 1..n /\ flatten[m - 1] = g[m - 1])
      BY <2>2
    <2>. QED BY <1>0, <1>3, <2>3
  <1>. QED BY <1>1, <1>4

\* There are such functions.
LEMMA ConcatenationsExist ==
  ASSUME NEW S, NEW n \in Nat \ {0}, NEW seqs \in [1..n -> Seq(S)]
  PROVE  \E f \in [1..n -> Seq(S)] : Concatenates(f, seqs, n)
  <1> DEFINE Upto(m) == \E f \in [1..m -> Seq(S)] : Concatenates(f, seqs, m)
             Fails == {m \in 1..n : ~Upto(m)}
  <1>1. Upto(1)
    <2> DEFINE f == [i \in 1..1 |-> seqs[i]]
    <2>1. f \in [1..1 -> Seq(S)] /\ Concatenates(f, seqs, 1)
      BY DEF Concatenates
    <2> HIDE DEF f
    <2>. QED BY <2>1
  <1>2. ASSUME NEW m \in 2..n, Upto(m - 1)
        PROVE  Upto(m)
    <2>1. m - 1 \in 1..n /\ m \in 1..n /\ m - 1 \in 1..(m - 1)
      OBVIOUS
    <2>2. PICK f \in [1..(m - 1) -> Seq(S)] : Concatenates(f, seqs, m - 1)
      BY <1>2
    <2>3. f[m - 1] \in Seq(S) /\ seqs[m] \in Seq(S)
      BY <2>1
    <2>4. PICK last \in Seq(S) : last = f[m - 1] \o seqs[m]
      <3>1. f[m - 1] \o seqs[m] \in Seq(S)
        BY <2>3
      <3>. QED BY <3>1
    <2> DEFINE g == [i \in 1..m |-> IF i < m THEN f[i] ELSE last]
    <2>5. g \in [1..m -> Seq(S)]
      BY <2>1
    <2>6. \A i \in 1..(m - 1) : g[i] = f[i]
      OBVIOUS
    <2>7. g[m] = last
      BY <2>1
    <2> HIDE DEF g
    <2>8. Concatenates(g, seqs, m)
      <3>1. g[1] = seqs[1]
        BY <2>1, <2>2, <2>6 DEF Concatenates
      <3>2. ASSUME NEW i \in 2..(m - 1)
            PROVE  g[i] = g[i - 1] \o seqs[i]
        <4>1. i \in 1..(m - 1) /\ i - 1 \in 1..(m - 1)
          OBVIOUS
        <4>2. f[i] = f[i - 1] \o seqs[i]
          BY <2>2 DEF Concatenates
        <4>. QED BY <2>6, <4>1, <4>2
      <3>3. g[m] = g[m - 1] \o seqs[m]
        BY <2>1, <2>4, <2>6, <2>7
      <3>4. \A i \in 2..m : i = m \/ i \in 2..(m - 1)
        OBVIOUS
      <3>. QED BY <3>1, <3>2, <3>3, <3>4 DEF Concatenates
    <2>. QED BY <2>5, <2>8
  <1> HIDE DEF Upto
  <1>3. Fails = {}
    <2>1. SUFFICES ASSUME Fails # {} PROVE FALSE
      OBVIOUS
    <2>2. Fails \in SUBSET Nat
      OBVIOUS
    <2>3. PICK m \in Fails : \A k \in Fails : m <= k
      <3> HIDE DEF Fails
      <3>. QED BY <2>1, <2>2, LeastNumber
    <2>4. m \in 1..n /\ ~Upto(m) /\ (m # 1 => m - 1 \in 1..n /\ Upto(m - 1))
      BY <2>3
    <2>5. m # 1 => m \in 2..n
      BY <2>4
    <2>. QED BY <1>1, <1>2, <2>4, <2>5
  <1>4. n \in 1..n
    OBVIOUS
  <1>5. Upto(n)
    BY <1>3, <1>4
  <1>. QED BY <1>5 DEF Upto

\* What stands where in a concatenation.
Appends(all, before, last) ==
  /\ Len(all) = Len(before) + Len(last)
  /\ \A k \in 1..Len(before) : k \in 1..Len(all) /\ all[k] = before[k]
  /\ \A i \in 1..Len(last) : Len(before) + i \in 1..Len(all) /\ all[Len(before) + i] = last[i]
  /\ \A k \in 1..Len(all) : k \in 1..Len(before) \/ \E i \in 1..Len(last) : k = Len(before) + i
  /\ Len(before) \in Nat /\ Len(last) \in Nat

\* Where the elements of two lists stand in the list that appends them.
LEMMA AppendFacts ==
  ASSUME NEW S, NEW before \in Seq(S), NEW last \in Seq(S)
  PROVE  Appends(before \o last, before, last)
  <1> DEFINE all == before \o last
  <1>1. Len(all) = Len(before) + Len(last) /\ Len(before) \in Nat /\ Len(last) \in Nat
    OBVIOUS
  <1>2. ASSUME NEW k \in 1..Len(all), k \notin 1..Len(before)
        PROVE  \E i \in 1..Len(last) : k = Len(before) + i
    <2>1. k - Len(before) \in 1..Len(last) /\ k = Len(before) + (k - Len(before))
      BY <1>1, <1>2
    <2>. QED BY <2>1
  <1>3. /\ \A k \in 1..Len(before) : k \in 1..Len(all) /\ all[k] = before[k]
        /\ \A i \in 1..Len(last) : Len(before) + i \in 1..Len(all) /\ all[Len(before) + i] = last[i]
    OBVIOUS
  <1>. QED BY <1>1, <1>2, <1>3 DEF Appends

\* flat is the sequences behind each other: the i-th element of sequence r is at
\* at[r] + i, and there is nothing else.
LaidOut(flat, seqs, n, at) ==
  /\ \A r \in 1..n : \A i \in 1..Len(seqs[r]) :
       at[r] + i \in 1..Len(flat) /\ flat[at[r] + i] = seqs[r][i]
  /\ \A k \in 1..Len(flat) : \E r \in 1..n : \E i \in 1..Len(seqs[r]) : k = at[r] + i

\* FlattenSeq is the sequences behind each other.
LEMMA FlattenFacts ==
  ASSUME NEW S, NEW n \in Nat \ {0}, NEW seqs \in [1..n -> Seq(S)]
  PROVE  /\ FlattenSeq(seqs) \in Seq(S)
         /\ \E at \in [1..n -> Nat] : LaidOut(FlattenSeq(seqs), seqs, n, at)
  <1>1. PICK f \in [1..n -> Seq(S)] : Concatenates(f, seqs, n)
    BY ConcatenationsExist
  <1>2. FlattenSeq(seqs) = f[n]
    <2>1. Len(seqs) = n
      OBVIOUS
    <2>. QED BY <1>1, <2>1, FlattenIs
  <1> DEFINE at == [r \in 1..n |-> IF r = 1 THEN 0 ELSE Len(f[r - 1])]
  <1>3. at \in [1..n -> Nat]
    OBVIOUS
  <1>4. \A r \in 1..n : at[r] = IF r = 1 THEN 0 ELSE Len(f[r - 1])
    OBVIOUS
  <1> HIDE DEF at
  <1> DEFINE Holds(m) == LaidOut(f[m], seqs, m, at)
             Fails == {m \in 1..n : ~Holds(m)}
  <1>5. Holds(1)
    <2>1. f[1] = seqs[1] /\ at[1] = 0 /\ seqs[1] \in Seq(S)
      BY <1>1, <1>4 DEF Concatenates
    <2>. QED BY <2>1 DEF LaidOut
  <1>6. ASSUME NEW m \in 2..n, Holds(m - 1)
        PROVE  Holds(m)
    <2>1. /\ m \in 1..n /\ m - 1 \in 1..n /\ m # 1
          /\ \A r \in 1..m : r = m \/ r \in 1..(m - 1)
          /\ \A r \in 1..(m - 1) : r \in 1..m
      OBVIOUS
    <2>2. f[m] = f[m - 1] \o seqs[m]
      BY <1>1 DEF Concatenates
    <2>3. at[m] = Len(f[m - 1])
      BY <1>4, <2>1
    <2>4. PICK before \in Seq(S), last \in Seq(S), all \in Seq(S) :
            before = f[m - 1] /\ last = seqs[m] /\ all = f[m]
      BY <2>1
    <2>5. /\ Len(all) = Len(before) + Len(last)
          /\ \A k \in 1..Len(before) : k \in 1..Len(all) /\ all[k] = before[k]
          /\ \A i \in 1..Len(last) : Len(before) + i \in 1..Len(all) /\ all[Len(before) + i] = last[i]
          /\ \A k \in 1..Len(all) : k \in 1..Len(before) \/ \E i \in 1..Len(last) : k = Len(before) + i
          /\ Len(before) \in Nat /\ Len(last) \in Nat
      <3>1. all = before \o last
        BY <2>2, <2>4
      <3>2. Appends(all, before, last)
        BY <3>1, AppendFacts
      <3>. QED BY <3>2 DEF Appends
    <2>6. /\ \A r \in 1..(m - 1) : \A i \in 1..Len(seqs[r]) :
               at[r] + i \in 1..Len(before) /\ before[at[r] + i] = seqs[r][i]
          /\ \A k \in 1..Len(before) : \E r \in 1..(m - 1) : \E i \in 1..Len(seqs[r]) : k = at[r] + i
      BY <1>6, <2>4 DEF LaidOut
    <2>7. ASSUME NEW r \in 1..m, NEW i \in 1..Len(seqs[r])
          PROVE  at[r] + i \in 1..Len(f[m]) /\ f[m][at[r] + i] = seqs[r][i]
      <3>1. CASE r = m
        BY <2>3, <2>4, <2>5, <3>1
      <3>2. CASE r \in 1..(m - 1)
        BY <2>4, <2>5, <2>6, <3>2
      <3>. QED BY <2>1, <3>1, <3>2
    <2>8. ASSUME NEW k \in 1..Len(f[m])
           PROVE  \E r \in 1..m : \E i \in 1..Len(seqs[r]) : k = at[r] + i
      <3>1. CASE k \in 1..Len(before)
        BY <2>1, <2>6, <3>1
      <3>2. CASE \E i \in 1..Len(last) : k = Len(before) + i
        <4>1. m \in 1..m
          BY <2>1
        <4>. QED BY <2>3, <2>4, <3>2, <4>1
      <3>. QED BY <2>4, <2>5, <3>1, <3>2
    <2>. QED BY <2>7, <2>8 DEF LaidOut
  <1> HIDE DEF Holds
  <1>7. Fails = {}
    <2>1. SUFFICES ASSUME Fails # {} PROVE FALSE
      OBVIOUS
    <2>2. Fails \in SUBSET Nat
      OBVIOUS
    <2>3. PICK m \in Fails : \A k \in Fails : m <= k
      <3> HIDE DEF Fails
      <3>. QED BY <2>1, <2>2, LeastNumber
    <2>4. m \in 1..n /\ ~Holds(m) /\ (m # 1 => m - 1 \in 1..n /\ Holds(m - 1))
      BY <2>3
    <2>5. m # 1 => m \in 2..n
      BY <2>4
    <2>. QED BY <1>5, <1>6, <2>4, <2>5
  <1>8. n \in 1..n
    OBVIOUS
  <1>9. Holds(n)
    BY <1>7, <1>8
  <1>10. f[n] \in Seq(S)
    OBVIOUS
  <1>11. LaidOut(FlattenSeq(seqs), seqs, n, at)
    BY <1>2, <1>9 DEF Holds
  <1>12. FlattenSeq(seqs) \in Seq(S)
    BY <1>2, <1>10
  <1>. QED BY <1>3, <1>11, <1>12

------------------------------------------------------------------------------
(* The judgments of the runs, together. *)

\* The workflow has judgments that were accepted from every run.
AllAccepted ==
  /\ runs \in RunCounts
  /\ judged \in [1..MaxRuns -> Seq(Judgments)]
  /\ \A r \in 1..runs : Accepts(judged[r])

\* evaluation_runs is odd and at most the default.
LEMMA RunsFacts ==
  ASSUME runs \in RunCounts
  PROVE  /\ runs \in Nat \ {0} /\ runs % 2 = 1 /\ runs <= MaxRuns
         /\ ValidEvaluationRuns(runs, runs)
         /\ MaxRuns = 5
  BY RunCountsAssumption DEF ValidEvaluationRuns, MaxRuns, DefaultMaxEvaluationRuns

\* Accepted judgments are as many as the questions: one of each.
LEMMA OneJudgmentEach ==
  ASSUME NEW js \in Seq(Judgments), Accepts(js)
  PROVE  Len(js) = Len(Questions)
  <1>0. /\ Questions \in Seq(Nat) /\ IsInjective(Questions)
        /\ Distinct(js, "question")
        /\ Values(js, "question") = ToSet(Questions)
    BY DataAssumption DEF Accepts, ValidJudgments, ValidJudgmentShape
  <1> DEFINE Q == ToSet(Questions)
             f == [i \in 1..Len(js) |-> js[i].question]
  <1>1. f \in Bijection(1..Len(js), Q)
    <2>1. \A i \in 1..Len(js) : f[i] \in Q
      BY <1>0 DEF Values
    <2>2. \A i, k \in 1..Len(js) : f[i] = f[k] => i = k
      BY <1>0 DEF Distinct
    <2>3. \A q \in Q : \E i \in 1..Len(js) : f[i] = q
      BY <1>0 DEF Values
    <2>. QED BY <2>1, <2>2, <2>3 DEF Bijection, Injection, Surjection, IsInjective
  <1>2. Questions \in Bijection(1..Len(Questions), Q)
    BY <1>0 DEF IsInjective, ToSet, Bijection, Injection, Surjection
  <1>3. Len(js) \in Nat /\ ExistsBijection(1..Len(js), Q)
        /\ Len(Questions) \in Nat /\ ExistsBijection(1..Len(Questions), Q)
    BY <1>0, <1>1, <1>2 DEF ExistsBijection
  <1>4. Cardinality(Q) = Len(js)
    BY <1>3, FS_NatBijection, FS_CountingElements
  <1>5. Cardinality(Q) = Len(Questions)
    BY <1>3, FS_NatBijection, FS_CountingElements
  <1>. QED BY <1>4, <1>5

\* Such judgments fit the schema they were asked for with.
LEMMA AcceptedFits ==
  ASSUME NEW js \in Seq(Judgments), Accepts(js)
  PROVE  FitsJudgments(js, BuildBinaryJudgingRequest(Questions))
  <1> DEFINE n == Len(Questions)
  <1>1. Len(js) = n /\ n \in Nat
    BY OneJudgmentEach, DataAssumption
  <1>2. \A i \in DOMAIN js : js[i].answer \in Answers
    BY DEF Accepts, ValidJudgments, ValidJudgmentShape
  <1> HIDE DEF n
  <1>3. BinaryJudgingSchema(n).least = n /\ BinaryJudgingSchema(n).most = n
        /\ BinaryJudgingSchema(n).answers = Answers
    BY DEF BinaryJudgingSchema
  <1>. QED BY <1>1, <1>2, <1>3 DEF FitsJudgments, Fits, BuildBinaryJudgingRequest, n

\* at[r] + i is the place of the i-th judgment of run r.
PlacedAt(at) ==
  /\ \A r \in 1..runs : \A i \in DOMAIN judged[r] :
       LET k == at[r] + i IN
       /\ k \in DOMAIN RunJudgments
       /\ RunJudgments[k].run = r
       /\ RunJudgments[k].question = judged[r][i].question
       /\ RunJudgments[k].evidence = judged[r][i].evidence
       /\ RunJudgments[k].answer = judged[r][i].answer
  /\ \A k \in DOMAIN RunJudgments : \E r \in 1..runs : \E i \in DOMAIN judged[r] : k = at[r] + i

\* Once all runs are accepted, their judgments stand in the list that is stored, run
\* after run.
LEMMA RunJudgmentsFacts ==
  ASSUME AllAccepted
  PROVE  \E at \in [1..runs -> Nat] : PlacedAt(at)
  <1> DEFINE OneOf(r, j) == [run |-> r, question |-> j.question, evidence |-> j.evidence, answer |-> j.answer]
             S == [run : Nat, question : Nat, evidence : Texts, answer : STRING]
             OfOne(r) == [i \in DOMAIN judged[r] |-> OneOf(r, judged[r][i])]
             seqs == [r \in 1..runs |-> OfOne(r)]
  <1>1. runs \in Nat \ {0} /\ \A r \in 1..runs : r \in 1..MaxRuns /\ judged[r] \in Seq(Judgments)
    BY RunsFacts DEF AllAccepted
  <1>2. ASSUME NEW r \in 1..runs
        PROVE  /\ OfOne(r) \in Seq(S) /\ DOMAIN judged[r] = 1..Len(OfOne(r))
               /\ \A i \in DOMAIN judged[r] : OfOne(r)[i] = OneOf(r, judged[r][i])
    <2>1. PICK js \in Seq(Judgments) : js = judged[r]
      BY <1>1
    <2>2. DOMAIN js = 1..Len(js) /\ \A i \in 1..Len(js) : js[i] \in Judgments
      OBVIOUS
    <2>3. \A i \in 1..Len(js) : OneOf(r, js[i]) \in S
      BY <1>1, <2>2 DEF Judgments
    <2> HIDE DEF OneOf, S
    <2>4. [i \in 1..Len(js) |-> OneOf(r, js[i])] \in Seq(S)
      BY <2>3
    <2>. QED BY <2>1, <2>2, <2>4
  <1>3. seqs \in [1..runs -> Seq(S)]
    BY <1>2
  <1>4. RunJudgments = FlattenSeq(seqs)
    BY DEF RunJudgments
  <1> HIDE DEF seqs
  <1>5. /\ FlattenSeq(seqs) \in Seq(S)
        /\ \E at \in [1..runs -> Nat] : LaidOut(FlattenSeq(seqs), seqs, runs, at)
    <2> HIDE DEF S
    <2>. QED BY <1>1, <1>3, FlattenFacts
  <1>p. PICK at \in [1..runs -> Nat] : LaidOut(FlattenSeq(seqs), seqs, runs, at)
    BY <1>5
  <1>6. RunJudgments \in Seq(S) /\ DOMAIN RunJudgments = 1..Len(RunJudgments)
    BY <1>4, <1>5
  <1>7. \A r \in 1..runs : seqs[r] = OfOne(r)
    BY DEF seqs
  <1>8. ASSUME NEW r \in 1..runs, NEW i \in DOMAIN judged[r]
        PROVE  /\ at[r] + i \in DOMAIN RunJudgments
               /\ RunJudgments[at[r] + i] = OneOf(r, judged[r][i])
    <2>1. i \in 1..Len(seqs[r]) /\ seqs[r][i] = OneOf(r, judged[r][i])
      BY <1>2, <1>7
    <2>. QED BY <1>4, <1>p, <1>6, <2>1 DEF LaidOut
  <1>9. ASSUME NEW k \in DOMAIN RunJudgments
        PROVE  \E r \in 1..runs : \E i \in DOMAIN judged[r] : k = at[r] + i
    <2>1. PICK r \in 1..runs : \E i \in 1..Len(seqs[r]) : k = at[r] + i
      BY <1>4, <1>p, <1>6 DEF LaidOut
    <2>2. DOMAIN judged[r] = 1..Len(seqs[r])
      BY <1>2, <1>7
    <2>. QED BY <2>1, <2>2
  <1>10. PlacedAt(at)
    <2>1. \A r \in 1..runs : \A i \in DOMAIN judged[r] :
            /\ OneOf(r, judged[r][i]).run = r
            /\ OneOf(r, judged[r][i]).question = judged[r][i].question
            /\ OneOf(r, judged[r][i]).evidence = judged[r][i].evidence
            /\ OneOf(r, judged[r][i]).answer = judged[r][i].answer
      OBVIOUS
    <2> HIDE DEF OneOf
    <2>. QED BY <1>8, <1>9, <2>1 DEF PlacedAt
  <1>. QED BY <1>10

\* Two judgments of one run on one question stand at the same place.
LEMMA OncePerRun ==
  ASSUME AllAccepted, NEW at \in [1..runs -> Nat], PlacedAt(at),
         NEW k \in DOMAIN RunJudgments, NEW l \in DOMAIN RunJudgments,
         RunJudgments[k].run = RunJudgments[l].run,
         RunJudgments[k].question = RunJudgments[l].question
  PROVE  k = l
  <1>1. PICK r \in 1..runs : \E i \in DOMAIN judged[r] : k = at[r] + i
    BY DEF PlacedAt
  <1>1i. PICK i \in DOMAIN judged[r] : k = at[r] + i
    BY <1>1
  <1>2. PICK s \in 1..runs : \E j \in DOMAIN judged[s] : l = at[s] + j
    BY DEF PlacedAt
  <1>2i. PICK j \in DOMAIN judged[s] : l = at[s] + j
    BY <1>2
  <1>3. /\ RunJudgments[k].run = r /\ RunJudgments[k].question = judged[r][i].question
        /\ RunJudgments[l].run = s /\ RunJudgments[l].question = judged[s][j].question
    BY <1>1i, <1>2i DEF PlacedAt
  <1>4. Distinct(judged[r], "question")
    BY DEF AllAccepted, Accepts, ValidJudgments, ValidJudgmentShape
  <1>5. r = s /\ i = j
    BY <1>3, <1>4 DEF Distinct
  <1>. QED BY <1>1i, <1>2i, <1>5

\* The judgments of a run are found again among those of all runs.
LEMMA OfRunIsValid ==
  ASSUME AllAccepted, NEW at \in [1..runs -> Nat], PlacedAt(at), NEW r \in 1..runs
  PROVE  ValidJudgments(Questions, OfRun(RunJudgments, r))
  <1> DEFINE K == {k \in DOMAIN RunJudgments : RunJudgments[k].run = r}
             mine == [k \in K |-> RunJudgments[k]]
  <1>1. ValidJudgments(Questions, judged[r]) /\ ValidJudgmentShape(judged[r])
    BY DEF AllAccepted, Accepts, ValidJudgments
  <1>2. ASSUME NEW k \in K
        PROVE  \E i \in DOMAIN judged[r] :
                 /\ mine[k].question = judged[r][i].question
                 /\ mine[k].evidence = judged[r][i].evidence
                 /\ mine[k].answer = judged[r][i].answer
    <2>1. PICK s \in 1..runs : \E i \in DOMAIN judged[s] : k = at[s] + i
      BY DEF PlacedAt
    <2>1i. PICK i \in DOMAIN judged[s] : k = at[s] + i
      BY <2>1
    <2>2. s = r
      BY <2>1i DEF PlacedAt
    <2>. QED BY <2>1i, <2>2 DEF PlacedAt
  <1>3. ASSUME NEW i \in DOMAIN judged[r]
        PROVE  \E k \in K : mine[k].question = judged[r][i].question
    <2>1. at[r] + i \in K /\ RunJudgments[at[r] + i].question = judged[r][i].question
      BY DEF PlacedAt
    <2>. QED BY <2>1
  <1>4. \A k, l \in K : mine[k].question = mine[l].question => k = l
    BY OncePerRun
  <1>5. PICK i \in DOMAIN judged[r] : TRUE
    <2>1. r \in 1..MaxRuns /\ judged[r] \in Seq(Judgments) /\ judged[r] # <<>>
      BY <1>1, RunsFacts DEF ValidJudgmentShape, AllAccepted
    <2>2. 1 \in DOMAIN judged[r]
      BY <2>1
    <2>. QED BY <2>2
  <1>6. DOMAIN mine = K
    OBVIOUS
  <1>7. K # {}
    BY <1>3, <1>5
  <1>8. OfRun(RunJudgments, r) = mine
    BY DEF OfRun
  <1> HIDE DEF mine, K
  <1>9. mine # <<>>
    BY <1>6, <1>7
  <1>10. Distinct(mine, "question")
    BY <1>4, <1>6 DEF Distinct
  <1>11. \A k \in DOMAIN mine :
           mine[k].question # 0 /\ mine[k].evidence # Blank /\ mine[k].answer \in Answers
    BY <1>1, <1>2, <1>6 DEF ValidJudgmentShape
  <1>12. Values(mine, "question") = Values(judged[r], "question")
    <2>1. \A x \in Values(mine, "question") : x \in Values(judged[r], "question")
      BY <1>2, <1>6 DEF Values
    <2>2. \A x \in Values(judged[r], "question") : x \in Values(mine, "question")
      BY <1>3, <1>6 DEF Values
    <2>. QED BY <2>1, <2>2
  <1>. QED BY <1>1, <1>8, <1>9, <1>10, <1>11, <1>12 DEF ValidJudgments, ValidJudgmentShape

\* The judgments of all runs can be aggregated.
LEMMA AcceptedAggregate ==
  ASSUME AllAccepted
  PROVE  ValidRunJudgments(Questions, RunJudgments, runs)
  <1>1. PICK at \in [1..runs -> Nat] : PlacedAt(at)
    BY RunJudgmentsFacts
  <1>2. ValidEvaluationRuns(runs, runs)
    BY RunsFacts DEF AllAccepted
  <1>3. \A k \in DOMAIN RunJudgments : RunJudgments[k].run \in 1..runs
    BY <1>1 DEF PlacedAt
  <1>. QED BY <1>1, <1>2, <1>3, OfRunIsValid DEF ValidRunJudgments

\* Among the judgments of all runs a question has one yes for each run that said yes.
LEMMA YesCountIsOfRuns ==
  ASSUME AllAccepted, NEW q
  PROVE  YesCount(RunJudgments, q) = Cardinality(YesRuns(q)) /\ YesCount(RunJudgments, q) \in Nat
  <1>1. PICK at \in [1..runs -> Nat] : PlacedAt(at)
    BY RunJudgmentsFacts
  <1> DEFINE K == {k \in DOMAIN RunJudgments :
                     RunJudgments[k].question = q /\ RunJudgments[k].answer = "yes"}
             f == [k \in K |-> RunJudgments[k].run]
  <1>2. \A k \in K : f[k] \in YesRuns(q)
    <2>1. SUFFICES ASSUME NEW k \in K PROVE RunJudgments[k].run \in YesRuns(q)
      OBVIOUS
    <2>2. PICK r \in 1..runs : \E i \in DOMAIN judged[r] : k = at[r] + i
      BY <1>1 DEF PlacedAt
    <2>2i. PICK i \in DOMAIN judged[r] : k = at[r] + i
      BY <2>2
    <2>3. RunJudgments[k].run = r /\ judged[r][i].question = q /\ judged[r][i].answer = "yes"
      BY <1>1, <2>2i DEF PlacedAt
    <2>. QED BY <2>3 DEF YesRuns
  <1>3. \A k, l \in K : f[k] = f[l] => k = l
    BY <1>1, OncePerRun
  <1>4. \A r \in YesRuns(q) : \E k \in K : f[k] = r
    <2>1. SUFFICES ASSUME NEW r \in YesRuns(q) PROVE \E k \in K : RunJudgments[k].run = r
      OBVIOUS
    <2>2. PICK i \in DOMAIN judged[r] : judged[r][i].question = q /\ judged[r][i].answer = "yes"
      BY DEF YesRuns
    <2>3. r \in 1..runs
      BY DEF YesRuns
    <2>4. at[r] + i \in K /\ RunJudgments[at[r] + i].run = r
      BY <1>1, <2>2, <2>3 DEF PlacedAt
    <2>. QED BY <2>4
  <1> HIDE DEF K
  <1>5. f \in Bijection(K, YesRuns(q))
    BY <1>2, <1>3, <1>4 DEF Bijection, Injection, Surjection, IsInjective
  <1>6. runs \in Nat
    BY RunsFacts DEF AllAccepted
  <1>7. IsFiniteSet(YesRuns(q))
    <2>1. YesRuns(q) \in SUBSET (1..runs)
      BY DEF YesRuns
    <2>. QED BY <1>6, <2>1, FS_Interval, FS_Subset
  <1>8. IsFiniteSet(K)
    BY <1>5, <1>7, FS_Injection DEF Bijection
  <1>9. ExistsBijection(K, YesRuns(q))
    BY <1>5 DEF ExistsBijection
  <1>10. Cardinality(YesRuns(q)) = Cardinality(K)
    BY <1>8, <1>9, FS_Bijection
  <1>11. YesCount(RunJudgments, q) = Cardinality(K)
    BY DEF YesCount, K
  <1>. QED BY <1>8, <1>10, <1>11, FS_CardinalityType

\* A question is listed as failed exactly when its answer is not yes.
LEMMA FailedAreListed ==
  ASSUME NEW answer, Questions # <<>>, NEW i \in DOMAIN Questions
  PROVE  (\E k \in DOMAIN ScoreChecklist(Questions, answer).failed :
            ScoreChecklist(Questions, answer).failed[k] = Questions[i])
           <=> answer[Questions[i]] # "yes"
  <1> DEFINE n == Len(Questions)
             seqs == [j \in 1..n |-> IF answer[Questions[j]] = "yes" THEN <<>> ELSE <<Questions[j]>>]
  <1>1. /\ Questions \in Seq(Nat) /\ n \in Nat \ {0} /\ DOMAIN Questions = 1..n
    BY DataAssumption
  <1>2. \A j \in 1..n : Questions[j] \in Nat
    BY <1>1
  <1>3. seqs \in [1..n -> Seq(Nat)]
    <2>1. \A j \in 1..n : <<>> \in Seq(Nat) /\ <<Questions[j]>> \in Seq(Nat)
      BY <1>2
    <2>. QED BY <2>1
  <1>4. ScoreChecklist(Questions, answer).failed = FlattenSeq(seqs)
    BY <1>1 DEF ScoreChecklist
  <1>5. \A j \in 1..n : seqs[j] = IF answer[Questions[j]] = "yes" THEN <<>> ELSE <<Questions[j]>>
    OBVIOUS
  <1> HIDE DEF seqs, n
  <1>6. PICK at \in [1..n -> Nat] : LaidOut(FlattenSeq(seqs), seqs, n, at)
    BY <1>1, <1>3, FlattenFacts
  <1>7. PICK flat \in Seq(Nat) : flat = FlattenSeq(seqs)
    BY <1>1, <1>3, FlattenFacts
  <1>8. LaidOut(flat, seqs, n, at) /\ DOMAIN flat = 1..Len(flat)
    BY <1>6, <1>7
  <1>9. ASSUME answer[Questions[i]] # "yes"
        PROVE  \E k \in DOMAIN flat : flat[k] = Questions[i]
    <2>1. seqs[i] = <<Questions[i]>> /\ i \in 1..n
      BY <1>1, <1>5, <1>9
    <2>2. 1 \in 1..Len(seqs[i]) /\ seqs[i][1] = Questions[i]
      BY <2>1
    <2>3. at[i] + 1 \in 1..Len(flat) /\ flat[at[i] + 1] = Questions[i]
      BY <1>8, <2>1, <2>2 DEF LaidOut
    <2>. QED BY <1>8, <2>3
  <1>10. ASSUME NEW k \in DOMAIN flat, flat[k] = Questions[i]
         PROVE  answer[Questions[i]] # "yes"
    <2>1. PICK j \in 1..n : \E l \in 1..Len(seqs[j]) : k = at[j] + l
      BY <1>8 DEF LaidOut
    <2>2. PICK l \in 1..Len(seqs[j]) : k = at[j] + l
      BY <2>1
    <2>3. seqs[j] # <<>>
      BY <2>2
    <2>4. answer[Questions[j]] # "yes" /\ seqs[j] = <<Questions[j]>>
      BY <1>5, <2>3
    <2>5. l = 1 /\ seqs[j][l] = Questions[j]
      BY <2>2, <2>4
    <2>6. flat[k] = Questions[j]
      BY <1>8, <2>2, <2>5 DEF LaidOut
    <2>. QED BY <1>10, <2>4, <2>6
  <1>. QED BY <1>4, <1>7, <1>9, <1>10

\* The score of the judgments of all runs is the majority's, question by question.
LEMMA ScoreFacts ==
  ASSUME AllAccepted, NEW score, score = AggregateScore(Questions, RunJudgments, runs)
  PROVE  /\ \A i \in DOMAIN Questions :
              LET yes == Cardinality(YesRuns(Questions[i])) IN
              (\E k \in DOMAIN score.failed : score.failed[k] = Questions[i]) <=> runs - yes > yes
         /\ score.satisfied + Len(score.failed) = Len(Questions)
  <1> DEFINE answer == [q \in ToSet(Questions) |-> Majority(RunJudgments, runs, q)]
  <1>1. score = ScoreChecklist(Questions, answer)
    BY DEF AggregateScore
  <1>2. runs \in Nat \ {0} /\ runs % 2 = 1
    BY RunsFacts DEF AllAccepted
  <1>3. Questions # <<>>
    <2>1. 1 \in 1..runs
      BY <1>2
    <2>. QED BY <2>1 DEF AllAccepted, Accepts, ValidJudgments
  <1>4. ASSUME NEW i \in DOMAIN Questions
        PROVE  LET yes == Cardinality(YesRuns(Questions[i])) IN
               (\E k \in DOMAIN score.failed : score.failed[k] = Questions[i]) <=> runs - yes > yes
    <2> DEFINE yes == Cardinality(YesRuns(Questions[i]))
    <2>1. answer[Questions[i]] = Majority(RunJudgments, runs, Questions[i])
      BY DEF ToSet
    <2>2. YesCount(RunJudgments, Questions[i]) = yes /\ yes \in Nat
      BY YesCountIsOfRuns
    <2>3. answer[Questions[i]] # "yes" <=> ~(yes > runs \div 2)
      BY <2>1, <2>2 DEF Majority
    <2> HIDE DEF yes, answer
    <2>4. ~(yes > runs \div 2) <=> runs - yes > yes
      BY <1>2, <2>2
    <2>5. (\E k \in DOMAIN score.failed : score.failed[k] = Questions[i]) <=> answer[Questions[i]] # "yes"
      BY <1>1, <1>3, FailedAreListed
    <2>. QED BY <2>3, <2>4, <2>5 DEF yes
  <1>5. score.satisfied + Len(score.failed) = Len(Questions)
    <2> DEFINE seqs == [j \in DOMAIN Questions |->
                          IF answer[Questions[j]] = "yes" THEN <<>> ELSE <<Questions[j]>>]
    <2>1. score.failed = FlattenSeq(seqs) /\ score.satisfied = Len(Questions) - Len(FlattenSeq(seqs))
      BY <1>1 DEF ScoreChecklist
    <2>2. Questions \in Seq(Nat) /\ Len(Questions) \in Nat \ {0} /\ DOMAIN Questions = 1..Len(Questions)
      BY <1>3, DataAssumption
    <2>3. seqs \in [1..Len(Questions) -> Seq(Nat)]
      <3>1. \A j \in DOMAIN Questions : <<>> \in Seq(Nat) /\ <<Questions[j]>> \in Seq(Nat)
        BY <2>2
      <3>. QED BY <2>2, <3>1
    <2> HIDE DEF seqs
    <2>4. FlattenSeq(seqs) \in Seq(Nat)
      BY <2>2, <2>3, FlattenFacts
    <2>5. Len(FlattenSeq(seqs)) \in Nat
      BY <2>4
    <2>. QED BY <2>1, <2>2, <2>5
  <1>. QED BY <1>4, <1>5

------------------------------------------------------------------------------
(* Errors and tasks. *)

\* An error of any kind in any attempt is an error.
LEMMA ErrorFacts ==
  ASSUME NEW k \in ErrorKinds, NEW n \in 1..MaxAttempts, NEW error, error = ToTemporalError(k, n)
  PROVE  error \in Errors /\ error # NoError
  BY SentinelsAssumption DEF Errors

\* So is a timeout.
LEMMA TimeoutFacts == TimeoutError \in Errors /\ TimeoutError # NoError
  BY SentinelsAssumption DEF Errors

\* How a started task settles: the retry policy of options.go.
LEMMA SettledFacts ==
  ASSUME NEW t \in EvaluationTasks, task[t] \in TaskType,
         task[t].state = "started", TaskOK(task[t]),
         NEW error \in Errors \cup {NoError}
  PROVE  /\ Settled(t, error) \in TaskType
         /\ TaskOK(Settled(t, error))
         /\ Settled(t, error).state # "unscheduled"
         /\ Settled(t, error).state = "completed" <=> error = NoError
  <1>1. task[t].attempt \in 1..MaxAttempts
    BY DEF TaskType, TaskOK
  <1>2. CASE error = NoError
    BY <1>2 DEF Settled, Ended, TaskType, TaskOK
  <1>3. CASE error # NoError /\ Retried(error) /\ task[t].attempt < MaxAttempts
    <2>1. Settled(t, error) = Again(t, error)
      BY <1>3 DEF Settled
    <2>. QED BY <1>1, <1>3, <2>1 DEF Again, TaskType, TaskOK
  <1>4. CASE error # NoError /\ ~(Retried(error) /\ task[t].attempt < MaxAttempts)
    <2>1. Settled(t, error) = Ended("failed", error)
      BY <1>4 DEF Settled
    <2>. QED BY <1>4, <2>1 DEF Ended, TaskType, TaskOK
  <1>. QED BY <1>2, <1>3, <1>4

------------------------------------------------------------------------------
(* The steps of the server and of the bodies. *)

\* The tasks of a stage are tasks; a task is its stage and its number.
LEMMA StageTasksType ==
  ASSUME runs \in RunCounts
  PROVE  /\ \A s \in StageNames : StageTasks(s) \subseteq EvaluationTasks
         /\ \A t \in EvaluationTasks : /\ t[1] \in StageNames /\ t[2] \in 1..MaxRuns
                                       /\ t = <<t[1], t[2]>>
  BY RunsFacts DEF StageTasks, EvaluationTasks

\* One running or waiting task goes on or ends, and at most a new body for it comes
\* into being; a judgment that completes leaves what it accepted.
LEMMA TaskStep ==
  ASSUME IInv, UNCHANGED <<stage, runs, failing, outcome, row>>,
         NEW t \in EvaluationTasks, NEW r \in TaskType,
         task[t].state \in {"scheduled", "started"},
         task' = [task EXCEPT ![t] = r],
         TaskOK(r), r.state # "unscheduled",
         r.state = "completed" =>
           Acked(t[1]) /\ (t[1] = "binary_judging" => Accepts(judged'[t[2]])),
         judged' \in [1..MaxRuns -> Seq(Judgments)],
         \/ judged' = judged
         \/ /\ t[1] = "binary_judging" /\ r.state = "completed"
            /\ \A q \in 1..MaxRuns : q # t[2] => judged'[q] = judged[q],
         bodies' \subseteq BodyType,
         \A b \in bodies' : b \in bodies \/ (b.task = t /\ b.did = "nothing")
  PROVE  IInv'
  <1> USE DEF IInv
  <1>0. /\ task' \in [EvaluationTasks -> TaskType]
        /\ task'[t] = r
        /\ \A u \in EvaluationTasks : u # t => task'[u] = task[u]
    BY DEF TypeOK
  <1>t. /\ \A s \in StageNames : StageTasks(s) \subseteq EvaluationTasks
        /\ \A u \in EvaluationTasks : /\ u[1] \in StageNames /\ u[2] \in 1..MaxRuns
                                      /\ u = <<u[1], u[2]>>
    BY StageTasksType DEF TypeOK
  <1>1. TypeOK'
    BY <1>0 DEF TypeOK
  <1>2. TasksOK'
    <2>1. ASSUME NEW u \in EvaluationTasks
          PROVE  /\ TaskOK(task'[u])
                 /\ task'[u].state = "completed" =>
                      Acked(u[1])' /\ (u[1] = "binary_judging" => Accepts(judged'[u[2]]))
                 /\ u[1] = "binary_judging" /\ u[2] > runs => task'[u].state = "unscheduled"
      <3>1. CASE u = t
        BY <1>0, <3>1 DEF TasksOK, Acked
      <3>2. CASE u # t
        <4>1. task'[u] = task[u]
          BY <1>0, <3>2
        <4>2. u[1] = "binary_judging" => judged'[u[2]] = judged[u[2]]
          BY <1>t, <3>2
        <4>. QED BY <4>1, <4>2 DEF TasksOK, Acked
      <3>. QED BY <3>1, <3>2
    <2>2. ASSUME NEW u \in EvaluationTasks, u[1] = "binary_judging"
          PROVE  Accepts(judged[u[2]])' = Accepts(judged'[u[2]])
      BY DEF Accepts
    <2>. QED BY <2>1, <2>2 DEF TasksOK, TaskOK
  <1>3. BodiesOK'
    <2>1. \A b \in bodies : b.task \in EvaluationTasks
      BY DEF TypeOK, BodyType
    <2>. QED BY <1>0, <2>1 DEF BodiesOK, Acked
  <1>4. JudgedOK'
    <2>1. ASSUME NEW q \in 1..MaxRuns, judged'[q] # <<>>
          PROVE  Accepts(judged'[q])
      BY <2>1 DEF JudgedOK
    <2>. QED BY <2>1 DEF JudgedOK, Accepts
  <1>5. Succeeding' = Succeeding
    BY <1>0 DEF Succeeding
  <1>6. AllCompleted("binary_judging") => AllCompleted("binary_judging")'
    <2>1. StageTasks("binary_judging")' = StageTasks("binary_judging")
          /\ StageTasks("binary_judging") \subseteq EvaluationTasks
      BY <1>t DEF StageTasks, StageNames
    <2>. QED BY <1>0, <2>1 DEF AllCompleted
  <1>7. RowOK'
    <2>1. ASSUME row.status = "succeeded" PROVE judged' = judged
      <3>1. AllCompleted("binary_judging")
        BY <2>1 DEF RowOK, StagesOK
      <3>2. t[1] # "binary_judging"
        <4>1. SUFFICES ASSUME t[1] = "binary_judging" PROVE FALSE
          OBVIOUS
        <4>2. t[2] \in 1..MaxRuns /\ ~(t[2] > runs) /\ t = <<"binary_judging", t[2]>>
          BY <1>t, <4>1 DEF TasksOK
        <4>3. t[2] \in 1..runs
          BY <4>2, RunsFacts DEF TypeOK
        <4>. QED BY <3>1, <4>2, <4>3 DEF AllCompleted, StageTasks
      <3>. QED BY <3>2
    <2>. QED BY <1>5, <2>1 DEF RowOK, RunJudgments
  <1>8. StagesOK'
    <2>1. Later(stage)' = Later(stage)
      BY DEF Later, StageNames
    <2>2. Proceeding /\ stage \notin {"fail_evaluation", "closed"} => Proceeding'
      BY <1>0, <2>1 DEF Proceeding
    <2>. QED BY <1>5, <1>6, <2>2 DEF StagesOK
  <1>9. FailureOK' /\ OutcomeMatchesRow'
    BY DEF FailureOK, OutcomeMatchesRow, NotFailing
  <1>. QED BY <1>1, <1>2, <1>3, <1>4, <1>7, <1>8, <1>9

\* A body does something to the row, or is gone.  The row changes once, from running:
\* to failed, or to what the succeed activity writes.
LEMMA BodiesStep ==
  ASSUME IInv, UNCHANGED <<stage, runs, judged, failing, outcome, task>>,
         \/ UNCHANGED row
         \/ row.status = "running" /\ row'.status = "failed"
         \/ row.status = "running" /\ row' = Succeeded /\ Succeeding,
         DOMAIN row' = DOMAIN row, row' = [f \in DOMAIN row' |-> row'[f]],
         bodies' \subseteq BodyType,
         \A c \in bodies' : \/ c \in bodies
                            \/ /\ \E b \in bodies : c.task = b.task
                               /\ c.did = "ok" => Acked(c.task[1])'
                               /\ c.task[1] \in StoreStages
  PROVE  IInv'
  <1> USE DEF IInv
  <1>0. row' = Succeeded => /\ row'.status = "succeeded" /\ row'.judgments = judged
                            /\ row'.score = AggregateScore(Questions, RunJudgments, runs)
    BY DEF Succeeded
  <1>1. TypeOK' /\ FailureOK'
    BY DEF TypeOK, FailureOK, NotFailing
  <1>2. TasksOK' /\ JudgedOK'
    BY <1>0 DEF TasksOK, TaskOK, Acked, JudgedOK, Accepts
  <1>3. BodiesOK'
    BY <1>0 DEF BodiesOK, Acked
  <1>4. RowOK'
    <2>1. Succeeding' = Succeeding /\ RunJudgments' = RunJudgments
      BY DEF Succeeding, RunJudgments
    <2>. QED BY <1>0, <2>1 DEF RowOK
  <1>5. StagesOK'
    BY DEF StagesOK, Succeeding, Proceeding, Later, AllCompleted, StageTasks
  <1>6. OutcomeMatchesRow'
    BY DEF OutcomeMatchesRow
  <1>. QED BY <1>1, <1>2, <1>3, <1>4, <1>5, <1>6

\* Dispatch and timeout.
LEMMA ServerStep ==
  ASSUME IInv, NEW t \in EvaluationTasks, Server(t)
  PROVE  IInv'
  <1> USE DEF Server
  <1>0. /\ task[t] \in TaskType /\ TaskOK(task[t]) /\ bodies \subseteq BodyType
        /\ judged' = judged /\ judged \in [1..MaxRuns -> Seq(Judgments)]
        /\ UNCHANGED <<stage, runs, failing, outcome, row>>
    BY DEF IInv, TypeOK, TasksOK
  <1>1. CASE Dispatch(t)
    <2> DEFINE r == [state |-> "started", attempt |-> task[t].attempt + 1, error |-> task[t].error]
    <2>1. task[t].state = "scheduled" /\ task' = [task EXCEPT ![t] = r]
          /\ bodies' = bodies \cup {Body(t, task[t].attempt + 1)}
      BY <1>1 DEF Dispatch
    <2>2. task[t].attempt + 1 \in 1..MaxAttempts
      BY <1>0, <2>1 DEF TaskType, TaskOK
    <2>3. r \in TaskType /\ TaskOK(r) /\ r.state = "started"
      BY <1>0, <2>1, <2>2 DEF TaskType, TaskOK
    <2>4. Body(t, task[t].attempt + 1) \in BodyType
      BY <2>2 DEF Body, BodyType
    <2>5. bodies' \subseteq BodyType /\ \A b \in bodies' : b \in bodies \/ (b.task = t /\ b.did = "nothing")
      BY <1>0, <2>1, <2>4 DEF Body
    <2> HIDE DEF r
    <2>. QED BY <1>0, <2>1, <2>3, <2>5, TaskStep
  <1>2. CASE TimeOut(t)
    <2>1. task[t].state = "started" /\ task' = [task EXCEPT ![t] = Settled(t, TimeoutError)]
          /\ bodies' = bodies
      BY <1>2 DEF TimeOut
    <2>2. PICK r \in TaskType : r = Settled(t, TimeoutError) /\ TaskOK(r)
                               /\ r.state \notin {"unscheduled", "completed"}
      BY <1>0, <2>1, SettledFacts, TimeoutFacts
    <2>. QED BY <1>0, <2>1, <2>2, TaskStep
  <1>. QED BY <1>1, <1>2

\* A body is gone and nothing else has changed.
LEMMA GoneStep ==
  ASSUME IInv, NEW b \in bodies, bodies' = bodies \ {b},
         UNCHANGED <<stage, runs, judged, failing, outcome, row, task>>
  PROVE  IInv'
  <1>1. bodies' \subseteq BodyType /\ DOMAIN row' = DOMAIN row /\ row' = [f \in DOMAIN row' |-> row'[f]]
    BY DEF IInv, TypeOK
  <1>. QED BY <1>1, BodiesStep

\* A body reports: dropped, or the end of its task.
LEMMA ReportStep ==
  ASSUME IInv, NEW b \in bodies, NEW error \in Errors \cup {NoError}, Reports(b, error),
         UNCHANGED <<stage, runs, failing, outcome, row>>,
         error = NoError =>
           Acked(b.task[1]) /\ (b.task[1] = "binary_judging" => Accepts(judged'[b.task[2]])),
         judged' \in [1..MaxRuns -> Seq(Judgments)],
         \/ judged' = judged
         \/ /\ b.task[1] = "binary_judging" /\ error = NoError
            /\ stage # "closed" /\ IsCurrent(b)
            /\ \A q \in 1..MaxRuns : q # b.task[2] => judged'[q] = judged[q]
  PROVE  IInv'
  <1>1. b \in BodyType /\ bodies \subseteq BodyType /\ bodies' = bodies \ {b}
    BY DEF IInv, TypeOK, Reports, Report, Crash
  <1>2. CASE stage = "closed" \/ ~IsCurrent(b)
    <2>1. task' = task /\ judged' = judged
      BY <1>2 DEF Reports, Report, Crash
    <2>. QED BY <1>1, <2>1, GoneStep
  <1>3. CASE stage # "closed" /\ IsCurrent(b)
    <2>1. task' = [task EXCEPT ![b.task] = Settled(b.task, error)]
      BY <1>3 DEF Reports, Report
    <2>2. PICK t \in EvaluationTasks : t = b.task
      BY <1>1 DEF BodyType
    <2>3. task[t] \in TaskType /\ TaskOK(task[t]) /\ task[t].state = "started"
      BY <1>3, <2>2 DEF IsCurrent, IInv, TypeOK, TasksOK
    <2>4. PICK r \in TaskType : /\ r = Settled(t, error) /\ TaskOK(r) /\ r.state # "unscheduled"
                                /\ r.state = "completed" <=> error = NoError
      BY <2>3, SettledFacts
    <2>5. task' = [task EXCEPT ![t] = r] /\ bodies' \subseteq BodyType /\ \A c \in bodies' : c \in bodies
      BY <1>1, <2>1, <2>2, <2>4
    <2>. QED BY <2>2, <2>3, <2>4, <2>5, TaskStep
  <1>. QED BY <1>2, <1>3

\* JudgeAnswer returns: what it accepted, or that it rejected.
LEMMA JudgeReturnsStep ==
  ASSUME IInv, NEW b \in bodies, JudgeReturns(b)
  PROVE  IInv'
  <1>1. /\ b \in BodyType /\ b.attempt \in 1..MaxAttempts /\ b.task \in EvaluationTasks
        /\ b.task[1] = "binary_judging" /\ b.task[2] \in 1..MaxRuns
        /\ UNCHANGED <<stage, runs, failing, outcome, row>>
        /\ judged \in [1..MaxRuns -> Seq(Judgments)]
    BY StageTasksType DEF IInv, TypeOK, BodyType, JudgeReturns
  <1>2. PICK output \in Outputs :
          IF Accepts(output)
            THEN Reports(b, NoError) /\ KeepResult(b, output)
            ELSE Reports(b, ToTemporalError("semantic", b.attempt)) /\ UNCHANGED judged
    BY DEF JudgeReturns
  <1>3. CASE Accepts(output)
    <2>1. output \in Seq(Judgments)
      BY DataAssumption DEF Judgments
    <2>2. Acked(b.task[1])
      BY <1>1 DEF Acked
    <2>3. CASE stage # "closed" /\ IsCurrent(b)
      <3>1. judged' = [judged EXCEPT ![b.task[2]] = output]
        BY <1>2, <1>3, <2>3 DEF KeepResult
      <3>2. /\ judged' \in [1..MaxRuns -> Seq(Judgments)]
            /\ judged'[b.task[2]] = output
            /\ \A q \in 1..MaxRuns : q # b.task[2] => judged'[q] = judged[q]
        BY <1>1, <2>1, <3>1
      <3>. QED BY <1>1, <1>2, <1>3, <2>2, <2>3, <3>2, ReportStep
    <2>4. CASE ~(stage # "closed" /\ IsCurrent(b))
      <3>1. judged' = judged /\ bodies' = bodies \ {b} /\ task' = task
        BY <1>2, <1>3, <2>4 DEF KeepResult, Reports, Report, Crash
      <3>. QED BY <1>1, <3>1, GoneStep
    <2>. QED BY <2>3, <2>4
  <1>4. CASE ~Accepts(output)
    <2>1. PICK error \in Errors : error = ToTemporalError("semantic", b.attempt) /\ error # NoError
      BY <1>1, ErrorFacts DEF ErrorKinds
    <2>. QED BY <1>1, <1>2, <1>4, <2>1, ReportStep
  <1>. QED BY <1>3, <1>4

\* Another body returns, or the call to the model ends with an error.
LEMMA BodyReturnsStep ==
  ASSUME IInv, NEW b \in bodies, BodyReturns(b)
  PROVE  IInv'
  <1>1. PICK error \in Returns(b) : Reports(b, error)
    BY DEF BodyReturns
  <1>2. /\ UNCHANGED <<stage, runs, judged, failing, outcome, row>>
        /\ judged \in [1..MaxRuns -> Seq(Judgments)]
        /\ b \in BodyType /\ b.attempt \in 1..MaxAttempts /\ b.task \in EvaluationTasks
        /\ b.task[1] \in StageNames
    BY StageTasksType DEF IInv, TypeOK, BodyType, BodyReturns
  <1>3. CASE error # NoError
    <2>1. \E k \in ErrorKinds : error = ToTemporalError(k, b.attempt)
      BY <1>3 DEF Returns, ErrorKinds
    <2>2. error \in Errors
      BY <1>2, <2>1, ErrorFacts
    <2>. QED BY <1>1, <1>2, <1>3, <2>2, ReportStep
  <1>4. CASE error = NoError
    <2>1. \A k \in ErrorKinds : error # ToTemporalError(k, b.attempt)
      BY <1>2, <1>4, SentinelsAssumption
    <2>2. b.task[1] \in {"write_evaluation_input", "load_checklist"} \/ b.did = "ok"
      BY <2>1 DEF Returns, ErrorKinds
    <2>3. Acked(b.task[1])
      BY <2>2 DEF IInv, BodiesOK, Acked
    <2>4. b.task[1] # "binary_judging"
      BY <2>2 DEF IInv, BodiesOK, StoreStages
    <2>. QED BY <1>1, <1>2, <1>4, <2>3, <2>4, ReportStep
  <1>. QED BY <1>3, <1>4

\* A body calls SucceedEvaluation or FailEvaluation.
LEMMA CallsStoreStep ==
  ASSUME IInv, NEW b \in bodies, CallsStore(b)
  PROVE  IInv'
  <1>0. /\ b \in BodyType /\ bodies \subseteq BodyType /\ b.task \in EvaluationTasks
        /\ task[b.task].state # "unscheduled"
        /\ UNCHANGED <<stage, runs, judged, failing, outcome, task>>
        /\ DOMAIN row = {"status", "judgments", "score", "failure"}
        /\ row = [f \in DOMAIN row |-> row[f]]
    BY DEF IInv, TypeOK, BodiesOK, BodyType, CallsStore
  <1>1. ASSUME NEW answer \in {"ok", "conflict"}, Did(b, answer),
               answer = "ok" => Acked(b.task[1])', b.task[1] \in StoreStages
        PROVE  /\ bodies' \subseteq BodyType
               /\ \A c \in bodies' : \/ c \in bodies
                                     \/ /\ \E d \in bodies : c.task = d.task
                                        /\ c.did = "ok" => Acked(c.task[1])'
                                        /\ c.task[1] \in StoreStages
    <2>1. PICK c \in BodyType : c = [b EXCEPT !.did = answer] /\ c.task = b.task /\ c.did = answer
      <3>1. PICK t \in EvaluationTasks, n \in 1..MaxAttempts, did \in {"nothing", "ok", "conflict"} :
              b = [task |-> t, attempt |-> n, did |-> did]
        BY <1>0 DEF BodyType
      <3>2. [b EXCEPT !.did = answer] = [task |-> t, attempt |-> n, did |-> answer]
        BY <3>1
      <3>3. [task |-> t, attempt |-> n, did |-> answer] \in BodyType
        BY DEF BodyType
      <3>. QED BY <3>1, <3>2, <3>3
    <2>2. bodies' = (bodies \ {b}) \cup {c}
      BY <1>1, <2>1 DEF Did
    <2>. QED BY <1>0, <1>1, <2>1, <2>2
  <1>2. CASE b.task[1] = "succeed_evaluation" /\ CommitOrCompare(b, Succeeded)
    <2>1. Succeeding
      BY <1>0, <1>2 DEF Succeeding
    <2>2. PICK new : new = Succeeded
      OBVIOUS
    <2>3. /\ new.status = "succeeded" /\ DOMAIN new = {"status", "judgments", "score", "failure"}
          /\ new = [f \in DOMAIN new |-> new[f]]
      BY <2>2 DEF Succeeded
    <2>4. PICK answer \in {"ok", "conflict"} :
            /\ Did(b, answer)
            /\ answer = "ok" => row' = new
            /\ UNCHANGED row \/ (row.status = "running" /\ row' = new)
      BY <1>2, <2>2 DEF CommitOrCompare
    <2>5. answer = "ok" => Acked(b.task[1])'
      BY <1>0, <1>2, <2>3, <2>4 DEF Acked
    <2>6. DOMAIN row' = DOMAIN row /\ row' = [f \in DOMAIN row' |-> row'[f]]
      BY <1>0, <2>3, <2>4
    <2>7. b.task[1] \in StoreStages
      BY <1>2 DEF StoreStages
    <2>. QED BY <1>0, <1>1, <2>1, <2>2, <2>4, <2>5, <2>6, <2>7, BodiesStep
  <1>3. CASE b.task[1] = "fail_evaluation" /\ CommitOrCompare(b, Failed)
    <2>1. PICK new : new = Failed
      OBVIOUS
    <2>2. /\ new.status = "failed" /\ new.failure = failing.record
          /\ DOMAIN new = {"status", "judgments", "score", "failure"}
          /\ new = [f \in DOMAIN new |-> new[f]]
      BY <1>0, <2>1 DEF Failed
    <2>3. PICK answer \in {"ok", "conflict"} :
            /\ Did(b, answer)
            /\ answer = "ok" => row' = new
            /\ UNCHANGED row \/ (row.status = "running" /\ row' = new)
      BY <1>3, <2>1 DEF CommitOrCompare
    <2>4. answer = "ok" => Acked(b.task[1])'
      BY <1>0, <1>3, <2>2, <2>3 DEF Acked
    <2>5. DOMAIN row' = DOMAIN row /\ row' = [f \in DOMAIN row' |-> row'[f]]
      BY <1>0, <2>2, <2>3
    <2>6. UNCHANGED row \/ (row.status = "running" /\ row'.status = "failed")
      BY <2>2, <2>3
    <2>7. b.task[1] \in StoreStages
      BY <1>3 DEF StoreStages
    <2>. QED BY <1>0, <1>1, <2>3, <2>4, <2>5, <2>6, <2>7, BodiesStep
  <1>. QED BY <1>2, <1>3 DEF CallsStore

\* A worker dies with what it was executing.
LEMMA WorkerDiesStep ==
  ASSUME IInv, NEW b \in bodies, WorkerDies(b)
  PROVE  IInv'
  BY GoneStep DEF WorkerDies, Crash

\* The API handler records a failed start.
LEMMA StartFailureStep ==
  ASSUME IInv, StartFailureRecorded
  PROVE  IInv'
  <1>1. /\ UNCHANGED <<stage, runs, judged, failing, outcome, task, bodies>>
        /\ row.status = "running" /\ bodies \subseteq BodyType
        /\ row' = [row EXCEPT !.status = "failed", !.failure = StartFailure]
        /\ DOMAIN row = {"status", "judgments", "score", "failure"}
    BY DEF StartFailureRecorded, IInv, TypeOK
  <1>2. DOMAIN row' = DOMAIN row /\ row' = [f \in DOMAIN row' |-> row'[f]] /\ row'.status = "failed"
    BY <1>1
  <1>. QED BY <1>1, <1>2, BodiesStep

------------------------------------------------------------------------------
(* The steps of the workflow's own code. *)

\* While the workflow goes on, nothing later is scheduled.
LEMMA ProceedingFacts ==
  ASSUME IInv, stage \notin {"fail_evaluation", "closed"}
  PROVE  /\ failing = NotFailing /\ outcome = "open"
         /\ \A t \in EvaluationTasks : t[1] \in Later(stage) => task[t].state = "unscheduled"
         /\ "fail_evaluation" \in Later(stage)
         /\ stage # "succeed_evaluation" => "succeed_evaluation" \in Later(stage)
  <1>1. Proceeding
    BY DEF IInv, StagesOK
  <1>2. "fail_evaluation" \in Later(stage)
        /\ (stage # "succeed_evaluation" => "succeed_evaluation" \in Later(stage))
    BY DEF IInv, TypeOK, Later, StageNames
  <1>. QED BY <1>1, <1>2 DEF Proceeding

\* The workflow schedules tasks of a later stage: closed tasks, the bodies going on and
\* the row are not disturbed.
LEMMA ScheduledFacts ==
  ASSUME IInv, stage \notin {"fail_evaluation", "closed"},
         NEW ts \in SUBSET EvaluationTasks,
         \A t \in ts : t[1] \in Later(stage) /\ (t[1] = "binary_judging" => t[2] <= runs),
         task' = Scheduled(ts), UNCHANGED <<runs, judged, bodies, row>>
  PROVE  /\ task' \in [EvaluationTasks -> TaskType]
         /\ \A t \in EvaluationTasks \ ts : task'[t] = task[t]
         /\ AllCompleted("binary_judging") => AllCompleted("binary_judging")'
         /\ TasksOK' /\ BodiesOK' /\ JudgedOK'
         /\ (Succeeding' <=> Succeeding) => RowOK'
         /\ row.status = "succeeded" => Succeeding
  <1> USE DEF IInv
  <1> DEFINE r == [state |-> "scheduled", attempt |-> 0, error |-> NoError]
  <1>1. [Unscheduled EXCEPT !.state = "scheduled"] = r
    BY DEF Unscheduled
  <1>2. r \in TaskType /\ TaskOK(r) /\ r.state = "scheduled"
    BY DEF TaskType, TaskOK
  <1>3. task' = [t \in EvaluationTasks |-> IF t \in ts THEN r ELSE task[t]]
    BY <1>1 DEF Scheduled
  <1> HIDE DEF r
  <1>4. /\ task' \in [EvaluationTasks -> TaskType]
        /\ \A t \in ts : task'[t] = r
        /\ \A t \in EvaluationTasks \ ts : task'[t] = task[t]
    BY <1>2, <1>3 DEF TypeOK
  <1>5. /\ \A t \in ts : task[t].state = "unscheduled"
        /\ \A t \in EvaluationTasks : t[1] = "fail_evaluation" => task[t].state = "unscheduled"
    BY ProceedingFacts
  <1>6. \A t \in EvaluationTasks : task[t].state # "unscheduled" => task'[t] = task[t]
    BY <1>4, <1>5
  <1>7. \A t \in EvaluationTasks : task[t].state # "unscheduled" /\ Acked(t[1]) => Acked(t[1])'
    BY <1>5 DEF Acked
  <1>8. TasksOK'
    <2>1. ASSUME NEW t \in EvaluationTasks
          PROVE  /\ TaskOK(task'[t])
                 /\ task'[t].state = "completed" =>
                      Acked(t[1])' /\ (t[1] = "binary_judging" => Accepts(judged[t[2]]))
                 /\ t[1] = "binary_judging" /\ t[2] > runs => task'[t].state = "unscheduled"
      <3>1. CASE t \in ts
        <4>1. t[1] = "binary_judging" => ~(t[2] > runs)
          <5>1. t[2] \in 1..MaxRuns /\ runs \in Nat /\ MaxRuns = 5
            BY StageTasksType, RunsFacts DEF TypeOK
          <5>. QED BY <3>1, <5>1
        <4>. QED BY <1>2, <1>4, <3>1, <4>1
      <3>2. CASE t \notin ts
        BY <1>4, <1>7, <3>2 DEF TasksOK
      <3>. QED BY <3>1, <3>2
    <2>. QED BY <2>1 DEF TasksOK, TaskOK, Accepts
  <1>9. BodiesOK'
    <2>1. \A b \in bodies : b.task \in EvaluationTasks
      BY DEF TypeOK, BodyType
    <2>. QED BY <1>6, <1>7, <2>1 DEF BodiesOK
  <1>10. JudgedOK' /\ RunJudgments' = RunJudgments
    BY DEF JudgedOK, Accepts, RunJudgments
  <1>11. AllCompleted("binary_judging") => AllCompleted("binary_judging")'
    <2>1. StageTasks("binary_judging") \subseteq EvaluationTasks
          /\ StageTasks("binary_judging")' = StageTasks("binary_judging")
      BY StageTasksType DEF TypeOK, StageTasks, StageNames
    <2>. QED BY <1>6, <2>1 DEF AllCompleted
  <1>. QED BY <1>4, <1>8, <1>9, <1>10, <1>11 DEF RowOK

\* The workflow goes on from its stage to the next one, s.
LEMMA EnterStep ==
  ASSUME IInv, stage \notin {"fail_evaluation", "succeed_evaluation", "closed"},
         NEW s \in StageNames \ {"fail_evaluation"}, NEW ts \in SUBSET ({s} \X (1..MaxRuns)),
         Enter(s, ts),
         s = "binary_judging" => ts = {s} \X (1..runs),
         s \in Later(stage), Later(s) = Later(stage) \ {s},
         s = "succeed_evaluation" => AllCompleted("binary_judging")
  PROVE  IInv'
  <1>0. /\ stage' = s /\ task' = Scheduled(ts)
        /\ UNCHANGED <<runs, judged, failing, outcome, row, bodies>>
        /\ ts \in SUBSET EvaluationTasks
        /\ \A t \in ts : t[1] = s /\ (t[1] = "binary_judging" => t[2] <= runs)
    <2>1. runs \in Nat
      BY RunsFacts DEF IInv, TypeOK
    <2>. QED BY <2>1 DEF Enter, EvaluationTasks
  <1>1. /\ task' \in [EvaluationTasks -> TaskType]
        /\ \A t \in EvaluationTasks \ ts : task'[t] = task[t]
        /\ AllCompleted("binary_judging") => AllCompleted("binary_judging")'
        /\ TasksOK' /\ BodiesOK' /\ JudgedOK'
        /\ (Succeeding' <=> Succeeding) => RowOK'
        /\ row.status = "succeeded" => Succeeding
    <2>1. \A t \in ts : t[1] \in Later(stage) /\ (t[1] = "binary_judging" => t[2] <= runs)
      BY <1>0
    <2>. QED BY <1>0, <2>1, ScheduledFacts
  <1>2. ~Succeeding /\ failing = NotFailing /\ outcome = "open"
    BY ProceedingFacts DEF Succeeding
  <1>3. TypeOK'
    BY <1>0, <1>1 DEF IInv, TypeOK
  <1>4. RowOK'
    <2>1. row'.status # "succeeded"
      BY <1>0, <1>1, <1>2
    <2>. QED BY <2>1 DEF RowOK
  <1>5. Proceeding'
    <2>1. Later(stage)' = Later(s)
      BY <1>0 DEF Later, StageNames
    <2>2. ASSUME NEW t \in EvaluationTasks, t[1] \in Later(s)
          PROVE  task'[t].state = "unscheduled"
      <3>1. t \notin ts /\ t[1] \in Later(stage)
        BY <1>0, <2>2
      <3>. QED BY <1>1, <3>1, ProceedingFacts
    <2>. QED BY <1>0, <1>2, <2>1, <2>2 DEF Proceeding, NotFailing
  <1>6. Succeeding' => AllCompleted("binary_judging")'
    <2>1. CASE s = "succeed_evaluation"
      BY <1>1, <2>1
    <2>2. CASE s # "succeed_evaluation"
      BY <1>0, <1>1, <1>2, <2>2 DEF Succeeding
    <2>. QED BY <2>1, <2>2
  <1>7. StagesOK'
    BY <1>0, <1>2, <1>5, <1>6 DEF StagesOK
  <1>8. FailureOK' /\ OutcomeMatchesRow'
    BY <1>0, <1>2 DEF IInv, FailureOK, OutcomeMatchesRow, NotFailing
  <1>. QED BY <1>1, <1>3, <1>4, <1>7, <1>8 DEF IInv

\* The workflow fails, and reports s.
LEMMA FailStep ==
  ASSUME IInv, stage \notin {"fail_evaluation", "closed"},
         NEW s, s # "score_checklist", NEW cause, FailEvaluation(s, cause)
  PROVE  IInv'
  <1> DEFINE ts == {<<"fail_evaluation", 1>>}
  <1>0. /\ stage' = "fail_evaluation" /\ task' = Scheduled(ts)
        /\ failing' = [record |-> WorkflowFailureDetails(s, cause), cause |-> cause]
        /\ UNCHANGED <<runs, judged, outcome, row, bodies>>
        /\ ts \in SUBSET EvaluationTasks
        /\ \A t \in ts : t[1] = "fail_evaluation"
    BY RunsFacts DEF FailEvaluation, EvaluationTasks, StageNames, IInv, TypeOK
  <1>1. /\ task' \in [EvaluationTasks -> TaskType]
        /\ \A t \in EvaluationTasks \ ts : task'[t] = task[t]
        /\ AllCompleted("binary_judging") => AllCompleted("binary_judging")'
        /\ TasksOK' /\ BodiesOK' /\ JudgedOK'
        /\ (Succeeding' <=> Succeeding) => RowOK'
    <2>1. \A t \in ts : t[1] \in Later(stage) /\ (t[1] = "binary_judging" => t[2] <= runs)
      BY <1>0, ProceedingFacts
    <2>. QED BY <1>0, <2>1, ScheduledFacts
  <1>2. outcome = "open"
    BY ProceedingFacts
  <1>3. TypeOK'
    BY <1>0, <1>1 DEF IInv, TypeOK, StageNames
  <1>4. Succeeding' <=> Succeeding
    BY <1>0, <1>1 DEF Succeeding
  <1>5. StagesOK'
    BY <1>0, <1>1, <1>2, <1>4 DEF IInv, StagesOK
  <1>6. FailureOK' /\ OutcomeMatchesRow'
    BY <1>0, <1>2 DEF FailureOK, OutcomeMatchesRow, WorkflowFailureDetails
  <1>. QED BY <1>1, <1>3, <1>4, <1>5, <1>6 DEF IInv

\* The workflow closes.
LEMMA CloseStep ==
  ASSUME IInv, NEW o, Close(o), stage # "closed",
         o = "completed" => row.status = "succeeded",
         o = "failed" => row.status = "failed" /\ row.failure = failing.record
  PROVE  IInv'
  <1>0. stage' = "closed" /\ outcome' = o /\ UNCHANGED <<runs, judged, failing, row, task, bodies>>
    BY DEF Close
  <1>1. TypeOK'
    BY <1>0 DEF IInv, TypeOK
  <1>2. TasksOK' /\ BodiesOK' /\ JudgedOK'
    BY <1>0 DEF IInv, TasksOK, TaskOK, BodiesOK, Acked, JudgedOK, Accepts
  <1>3. RowOK'
    <2>1. RunJudgments' = RunJudgments /\ Succeeding' = Succeeding
      BY <1>0 DEF RunJudgments, Succeeding
    <2>. QED BY <1>0, <2>1 DEF IInv, RowOK
  <1>4. StagesOK'
    BY <1>0 DEF IInv, StagesOK, Succeeding, AllCompleted, StageTasks
  <1>5. FailureOK' /\ OutcomeMatchesRow'
    BY <1>0 DEF IInv, FailureOK, OutcomeMatchesRow, NotFailing
  <1>. QED BY <1>1, <1>2, <1>3, <1>4, <1>5 DEF IInv

\* When every run has completed, the workflow holds accepted judgments of every run.
LEMMA CompletedIsAccepted == IInv /\ AllCompleted("binary_judging") => AllAccepted
  <1> SUFFICES ASSUME IInv, AllCompleted("binary_judging") PROVE AllAccepted
    OBVIOUS
  <1>1. runs \in RunCounts /\ judged \in [1..MaxRuns -> Seq(Judgments)]
    BY DEF IInv, TypeOK
  <1>2. ASSUME NEW r \in 1..runs PROVE Accepts(judged[r])
    <2>1. r \in 1..MaxRuns
      BY <1>1, RunsFacts
    <2>2. PICK t \in EvaluationTasks : t = <<"binary_judging", r>>
      BY <2>1 DEF EvaluationTasks, StageNames
    <2>3. task[t].state = "completed"
      BY <2>2 DEF AllCompleted, StageTasks
    <2>. QED BY <2>2, <2>3 DEF IInv, TasksOK
  <1>. QED BY <1>1, <1>2 DEF AllAccepted

\* Each step of the workflow code keeps the invariant: it enters a stage, fails or closes.
LEMMA WorkflowCodeStep == IInv /\ WorkflowStep => IInv'
  <1> SUFFICES ASSUME IInv, WorkflowStep PROVE IInv'
    OBVIOUS
  <1>r. runs \in Nat \ {0} /\ runs <= MaxRuns /\ MaxRuns = 5 /\ ValidEvaluationRuns(runs, runs)
    BY RunsFacts DEF IInv, TypeOK
  <1>s. \A s \in StageNames : {<<s, 1>>} \in SUBSET ({s} \X (1..MaxRuns))
    BY <1>r
  <1>1. CASE Starts
    <2>1. "write_evaluation_input" \in StageNames \ {"fail_evaluation"}
          /\ "write_evaluation_input" \in Later("start")
          /\ Later("write_evaluation_input") = Later("start") \ {"write_evaluation_input"}
      BY DEF StageNames, Later
    <2>. QED BY <1>1, <1>s, <2>1, EnterStep DEF Starts
  <1>2. ASSUME NEW s \in StageNames \ {"fail_evaluation"}, ActivityFails(s) PROVE IInv'
    <2>1. PICK i \in 1..MaxRuns : FailEvaluation(s, task[<<s, i>>].error)
      BY <1>2 DEF ActivityFails
    <2>2. stage = s /\ stage \notin {"fail_evaluation", "closed"} /\ s # "score_checklist"
      BY <1>2 DEF ActivityFails, StageNames
    <2>. QED BY <2>1, <2>2, FailStep
  <1>3. CASE InputWritten
    <2>1. "load_checklist" \in StageNames \ {"fail_evaluation"}
          /\ "load_checklist" \in Later("write_evaluation_input")
          /\ Later("load_checklist") = Later("write_evaluation_input") \ {"load_checklist"}
      BY DEF StageNames, Later
    <2>. QED BY <1>3, <1>s, <2>1, EnterStep DEF InputWritten
  <1>4. CASE ChecklistLoaded
    <2>1. Enter("binary_judging", {"binary_judging"} \X (1..runs)) /\ stage = "load_checklist"
      BY <1>4, <1>r DEF ChecklistLoaded
    <2>2. "binary_judging" \in StageNames \ {"fail_evaluation"}
          /\ "binary_judging" \in Later("load_checklist")
          /\ Later("binary_judging") = Later("load_checklist") \ {"binary_judging"}
      BY DEF StageNames, Later
    <2>3. {"binary_judging"} \X (1..runs) \in SUBSET ({"binary_judging"} \X (1..MaxRuns))
      BY <1>r
    <2>. QED BY <2>1, <2>2, <2>3, EnterStep
  <1>5. CASE RunsJudged
    <2>1. stage = "binary_judging" /\ AllCompleted("binary_judging")
      BY <1>5 DEF RunsJudged
    <2>2. ValidRunJudgments(Questions, RunJudgments, runs)
      BY <2>1, CompletedIsAccepted, AcceptedAggregate
    <2>3. Enter("succeed_evaluation", {<<"succeed_evaluation", 1>>})
      BY <1>5, <2>2 DEF RunsJudged
    <2>4. "succeed_evaluation" \in StageNames \ {"fail_evaluation"}
          /\ "succeed_evaluation" \in Later("binary_judging")
          /\ Later("succeed_evaluation") = Later("binary_judging") \ {"succeed_evaluation"}
      BY DEF StageNames, Later
    <2>. QED BY <1>s, <2>1, <2>3, <2>4, EnterStep
  <1>6. CASE Completes
    <2>1. task[<<"succeed_evaluation", 1>>].state = "completed"
          /\ <<"succeed_evaluation", 1>> \in EvaluationTasks
      BY <1>6, <1>r DEF Completes, AllCompleted, StageTasks, EvaluationTasks, StageNames
    <2>2. row.status = "succeeded"
      BY <2>1 DEF IInv, TasksOK, Acked
    <2>. QED BY <1>6, <2>2, CloseStep DEF Completes
  <1>7. CASE FailureRecorded
    <2>1. task[<<"fail_evaluation", 1>>].state = "completed"
          /\ <<"fail_evaluation", 1>> \in EvaluationTasks
      BY <1>7, <1>r DEF FailureRecorded, AllCompleted, StageTasks, EvaluationTasks, StageNames
    <2>2. row.status = "failed" /\ row.failure = failing.record
      BY <2>1 DEF IInv, TasksOK, Acked
    <2>. QED BY <1>7, <2>2, CloseStep DEF FailureRecorded
  <1>8. CASE FailureNotRecorded
    BY <1>8, CloseStep DEF FailureNotRecorded
  <1>. QED BY <1>1, <1>2, <1>3, <1>4, <1>5, <1>6, <1>7, <1>8 DEF WorkflowStep

------------------------------------------------------------------------------
(* The invariant and what follows from it. *)

\* A workflow starts with nothing scheduled and its row running.
LEMMA InvariantInit == Init => IInv
  <1> SUFFICES ASSUME Init PROVE IInv
    OBVIOUS
  <1> USE DEF Init, InitTasks
  <1>1. Unscheduled \in TaskType /\ TaskOK(Unscheduled) /\ Unscheduled.state = "unscheduled"
    BY DEF Unscheduled, TaskType, TaskOK
  <1>2. /\ DOMAIN row = {"status", "judgments", "score", "failure"}
        /\ row = [f \in DOMAIN row |-> row[f]] /\ row.status = "running"
    BY DEF Running
  <1>3. judged \in [1..MaxRuns -> Seq(Judgments)] /\ \A r \in 1..MaxRuns : judged[r] = <<>>
    BY DEF NothingJudged
  <1>4. TypeOK
    BY <1>1, <1>2, <1>3 DEF TypeOK
  <1>5. TasksOK /\ BodiesOK /\ JudgedOK /\ ~Succeeding
    BY <1>1, <1>3 DEF TasksOK, BodiesOK, JudgedOK, Succeeding
  <1>6. Proceeding
    BY <1>1 DEF Proceeding
  <1>. QED BY <1>2, <1>4, <1>5, <1>6 DEF IInv, StagesOK, RowOK, FailureOK, OutcomeMatchesRow

\* The workflow code, the server, the workers and the provider all keep the invariant.
LEMMA InvariantStep == IInv /\ [Next]_vars => IInv'
  <1> SUFFICES ASSUME IInv, [Next]_vars PROVE IInv'
    OBVIOUS
  <1>1. CASE UNCHANGED vars
    <2>1. /\ UNCHANGED <<stage, runs, judged, failing, outcome, row, task, bodies>>
          /\ bodies \subseteq BodyType /\ row = [f \in DOMAIN row |-> row[f]]
      BY <1>1 DEF vars, IInv, TypeOK
    <2>. QED BY <2>1, BodiesStep
  <1>. QED BY <1>1, WorkflowCodeStep, ServerStep, CallsStoreStep, JudgeReturnsStep,
              BodyReturnsStep, WorkerDiesStep, StartFailureStep DEF Next

\* The inductive invariant of the workflow, its activities, the judgments and the row.
THEOREM EvaluationWorkflowInvariant == Spec => []IInv
  BY InvariantInit, InvariantStep, PTL DEF Spec

\* EvaluateAnswerWorkflow completes only with a succeeded row, and fails as recorded only
\* with a row that failed with its own record, whatever orphans and the API handler wrote.
THEOREM EvaluationWorkflowOutcomeMatchesRow == Spec => []OutcomeMatchesRow
  <1>1. IInv => OutcomeMatchesRow
    BY DEF IInv
  <1>. QED BY <1>1, EvaluationWorkflowInvariant, PTL

\* A succeeded row has the judgments of all runs as the workflow was given them, and
\* AggregateJudgments counts a question as failed exactly when more runs said no than yes.
THEOREM EvaluationWorkflowScoreIsTheMajority == Spec => []ScoreIsTheMajority
  <1>1. IInv => ScoreIsTheMajority
    <2> SUFFICES ASSUME IInv, row.status = "succeeded" PROVE ScoreIsTheMajority
      BY DEF ScoreIsTheMajority
    <2>1. /\ AllCompleted("binary_judging") /\ row.judgments = judged
          /\ row.score = AggregateScore(Questions, RunJudgments, runs)
      BY DEF IInv, RowOK, StagesOK
    <2>2. AllAccepted
      BY <2>1, CompletedIsAccepted
    <2>. QED BY <2>1, <2>2, ScoreFacts DEF ScoreIsTheMajority
  <1>. QED BY <1>1, EvaluationWorkflowInvariant, PTL

\* What JudgeAnswer accepts fits the schema it asked with, one judgment for each question,
\* and the judgments of all runs are never rejected when they are aggregated.
THEOREM EvaluationWorkflowScoringNeverFails == Spec => []ScoringNeverFails
  <1>1. IInv => ScoringNeverFails
    <2> SUFFICES ASSUME IInv PROVE ScoringNeverFails
      OBVIOUS
    <2>1. ASSUME NEW r \in 1..runs, judged[r] # <<>>
          PROVE  FitsJudgments(judged[r], BuildBinaryJudgingRequest(Questions))
      <3>1. r \in 1..MaxRuns
        BY RunsFacts DEF IInv, TypeOK
      <3>2. judged[r] \in Seq(Judgments) /\ Accepts(judged[r])
        BY <2>1, <3>1 DEF IInv, TypeOK, JudgedOK
      <3>. QED BY <3>2, AcceptedFits
    <2>2. failing # NotFailing => failing.record.stage # "score_checklist"
      BY DEF IInv, FailureOK
    <2>. QED BY <2>1, <2>2 DEF ScoringNeverFails
  <1>. QED BY <1>1, EvaluationWorkflowInvariant, PTL
==============================================================================
