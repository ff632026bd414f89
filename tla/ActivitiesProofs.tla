---------------------------- MODULE ActivitiesProofs ----------------------------
(***************************************************************************)
(* What is proved of internal/activities, whose two sides have a module    *)
(* each.                                                                   *)
(*                                                                         *)
(* ChecklistPipeline, for every environment and whatever the model answers *)
(* to a prompt: what one check accepts no later check refuses, candidates  *)
(* are numbered in order, the final questions are as many as the weights   *)
(* say, and the count projected from the weights is exact.                 *)
(*                                                                         *)
(* LLMActivity, for any number of attempts, of orphans and of pieces of    *)
(* the output: the evidence of each attempt is its own and complete, and   *)
(* no attempt succeeds on an output that was cut short.  The second rests  *)
(* on what GenerateJSON decodes, of every exchange with the provider.      *)
(***************************************************************************)
EXTENDS LLMActivity, ChecklistPipeline, FiniteSetTheorems, WellFoundedInduction, TLAPS

------------------------------------------------------------------------------
(* Sequences of sequences. *)

\* Sets of naturals have a least element, which is how what holds for every number is shown.
LEMMA LeastNumber ==
  ASSUME NEW S \in SUBSET Nat, S # {}
  PROVE  \E m \in S : \A k \in S : m <= k
  <1>. DEFINE R == {ss \in Nat \X Nat : ss[1] < ss[2]}
  <1>1. IsWellFoundedOn(R, Nat)
    BY NatLessThanWellFounded DEF OpToRel
  <1>2. \A k, m \in Nat : <<k, m>> \notin R => m <= k
    OBVIOUS
  <1>. HIDE DEF R
  <1>3. PICK m \in S : \A k \in S : ~(<<k, m>> \in R)
    BY <1>1, WFMin
  <1>. QED BY <1>2, <1>3

\* f[i] is the concatenation of the first i sequences.
Concatenates(f, seqs, n) ==
  f[1] = seqs[1] /\ \A i \in 2..n : f[i] = f[i - 1] \o seqs[i]

\* FlattenSeq is computed from left to right: a function that keeps to its recursion is
\* the one that computes it.
LEMMA FlattenIs ==
  ASSUME NEW seqs, NEW n \in Nat \ {0}, Len(seqs) = n, NEW g, Concatenates(g, seqs, n)
  PROVE  FlattenSeq(seqs) = g[n]
  <1> DEFINE Keeps(f) == f = [i \in 1..Len(seqs) |-> IF i = 1 THEN seqs[i] ELSE f[i - 1] \o seqs[i]]
             flatten == CHOOSE f : Keeps(f)
  <1>0. \A i \in 1..n : g[i] = IF i = 1 THEN seqs[i] ELSE g[i - 1] \o seqs[i]
    <2>1. ASSUME NEW i \in 1..n, i # 1 PROVE g[i] = g[i - 1] \o seqs[i]
      <3>1. i \in 2..n
        BY <2>1
      <3>. QED BY <3>1 DEF Concatenates
    <2>2. g[1] = seqs[1]
      BY DEF Concatenates
    <2>. QED BY <2>1, <2>2
  <1>1. FlattenSeq(seqs) = flatten[n]
    BY DEF FlattenSeq
  <1>2. Keeps(flatten)
    <2> DEFINE h == [i \in 1..n |-> g[i]]
    <2>1. Keeps(h)
      <3>1. \A i \in 1..n : h[i] = IF i = 1 THEN seqs[i] ELSE h[i - 1] \o seqs[i]
        BY <1>0
      <3>. QED BY <3>1
    <2> HIDE DEF Keeps, h
    <2>. QED BY <2>1
  <1>3. \A i \in 1..n : flatten[i] = IF i = 1 THEN seqs[i] ELSE flatten[i - 1] \o seqs[i]
    BY <1>2
  <1> HIDE DEF flatten
  <1>4. \A i \in 1..n : flatten[i] = g[i]
    <2> DEFINE differ == {i \in 1..n : flatten[i] # g[i]}
    <2>1. SUFFICES ASSUME differ # {} PROVE FALSE
      OBVIOUS
    <2>4. differ \in SUBSET Nat
      OBVIOUS
    <2>2. PICK m \in differ : \A k \in differ : m <= k
      <3> HIDE DEF differ
      <3>. QED BY <2>1, <2>4, LeastNumber
    <2>3. m \in 1..n /\ flatten[m] # g[m] /\ (m # 1 => m - 1 \in 1..n /\ flatten[m - 1] = g[m - 1])
      BY <2>2
    <2>. QED BY <1>0, <1>3, <2>3
  <1>. QED BY <1>1, <1>4

\* There are such functions.
LEMMA ConcatenationsExist ==
  ASSUME NEW S, NEW n \in Nat \ {0}, NEW seqs \in [1..n -> Seq(S)]
  PROVE  \E f \in [1..n -> Seq(S)] : Concatenates(f, seqs, n)
  <1> DEFINE Upto(m) == \E f \in [1..m -> Seq(S)] : Concatenates(f, seqs, m)
             Fails == {m \in 1..n : ~Upto(m)}
  <1>1. Upto(1)
    <2> DEFINE f == [i \in 1..1 |-> seqs[i]]
    <2>1. f \in [1..1 -> Seq(S)] /\ Concatenates(f, seqs, 1)
      BY DEF Concatenates
    <2> HIDE DEF f
    <2>. QED BY <2>1
  <1>2. ASSUME NEW m \in 2..n, Upto(m - 1)
        PROVE  Upto(m)
    <2>1. m - 1 \in 1..n /\ m \in 1..n /\ m - 1 \in 1..(m - 1)
      OBVIOUS
    <2>2. PICK f \in [1..(m - 1) -> Seq(S)] : Concatenates(f, seqs, m - 1)
      BY <1>2
    <2>3. f[m - 1] \in Seq(S) /\ seqs[m] \in Seq(S)
      BY <2>1
    <2>4. PICK last \in Seq(S) : last = f[m - 1] \o seqs[m]
      <3>1. f[m - 1] \o seqs[m] \in Seq(S)
        BY <2>3
      <3>. QED BY <3>1
    <2> DEFINE g == [i \in 1..m |-> IF i < m THEN f[i] ELSE last]
    <2>5. g \in [1..m -> Seq(S)]
      BY <2>1
    <2>6. \A i \in 1..(m - 1) : g[i] = f[i]
      OBVIOUS
    <2>7. g[m] = last
      BY <2>1
    <2> HIDE DEF g
    <2>8. Concatenates(g, seqs, m)
      <3>1. g[1] = seqs[1]
        BY <2>1, <2>2, <2>6 DEF Concatenates
      <3>2. ASSUME NEW i \in 2..(m - 1)
            PROVE  g[i] = g[i - 1] \o seqs[i]
        <4>1. i \in 1..(m - 1) /\ i - 1 \in 1..(m - 1)
          OBVIOUS
        <4>2. f[i] = f[i - 1] \o seqs[i]
          BY <2>2 DEF Concatenates
        <4>. QED BY <2>6, <4>1, <4>2
      <3>3. g[m] = g[m - 1] \o seqs[m]
        BY <2>1, <2>4, <2>6, <2>7
      <3>4. \A i \in 2..m : i = m \/ i \in 2..(m - 1)
        OBVIOUS
      <3>. QED BY <3>1, <3>2, <3>3, <3>4 DEF Concatenates
    <2>. QED BY <2>5, <2>8
  <1> HIDE DEF Upto
  <1>3. Fails = {}
    <2>1. SUFFICES ASSUME Fails # {} PROVE FALSE
      OBVIOUS
    <2>2. Fails \in SUBSET Nat
      OBVIOUS
    <2>3. PICK m \in Fails : \A k \in Fails : m <= k
      <3> HIDE DEF Fails
      <3>. QED BY <2>1, <2>2, LeastNumber
    <2>4. m \in 1..n /\ ~Upto(m) /\ (m # 1 => m - 1 \in 1..n /\ Upto(m - 1))
      BY <2>3
    <2>5. m # 1 => m \in 2..n
      BY <2>4
    <2>. QED BY <1>1, <1>2, <2>4, <2>5
  <1>4. n \in 1..n
    OBVIOUS
  <1>5. Upto(n)
    BY <1>3, <1>4
  <1>. QED BY <1>5 DEF Upto

\* What stands where in a concatenation.
Appends(all, before, last) ==
  /\ Len(all) = Len(before) + Len(last)
  /\ \A k \in 1..Len(before) : k \in 1..Len(all) /\ all[k] = before[k]
  /\ \A i \in 1..Len(last) : Len(before) + i \in 1..Len(all) /\ all[Len(before) + i] = last[i]
  /\ \A k \in 1..Len(all) : k \in 1..Len(before) \/ \E i \in 1..Len(last) : k = Len(before) + i
  /\ Len(before) \in Nat /\ Len(last) \in Nat

\* Where the elements of two lists stand in the list that appends them.
LEMMA AppendFacts ==
  ASSUME NEW S, NEW before \in Seq(S), NEW last \in Seq(S)
  PROVE  Appends(before \o last, before, last)
  <1> DEFINE all == before \o last
  <1>1. Len(all) = Len(before) + Len(last) /\ Len(before) \in Nat /\ Len(last) \in Nat
    OBVIOUS
  <1>2. ASSUME NEW k \in 1..Len(all), k \notin 1..Len(before)
        PROVE  \E i \in 1..Len(last) : k = Len(before) + i
    <2>1. k - Len(before) \in 1..Len(last) /\ k = Len(before) + (k - Len(before))
      BY <1>1, <1>2
    <2>. QED BY <2>1
  <1>3. /\ \A k \in 1..Len(before) : k \in 1..Len(all) /\ all[k] = before[k]
        /\ \A i \in 1..Len(last) : Len(before) + i \in 1..Len(all) /\ all[Len(before) + i] = last[i]
    OBVIOUS
  <1>. QED BY <1>1, <1>2, <1>3 DEF Appends

\* flat is the sequences behind each other: the i-th element of sequence r is at
\* at[r] + i, a later sequence stands further on, and there is nothing else.
LaidOut(flat, seqs, n, at) ==
  /\ \A r \in 1..n : \A i \in 1..Len(seqs[r]) :
       at[r] + i \in 1..Len(flat) /\ flat[at[r] + i] = seqs[r][i]
  /\ \A k \in 1..Len(flat) : \E r \in 1..n : \E i \in 1..Len(seqs[r]) : k = at[r] + i
  /\ \A r \in 1..n : at[r] + Len(seqs[r]) <= Len(flat)
  /\ \A q, r \in 1..n : q < r => at[q] + Len(seqs[q]) <= at[r]

\* FlattenSeq is the sequences behind each other.
LEMMA FlattenFacts ==
  ASSUME NEW S, NEW n \in Nat \ {0}, NEW seqs \in [1..n -> Seq(S)]
  PROVE  /\ FlattenSeq(seqs) \in Seq(S)
         /\ \E at \in [1..n -> Nat] : LaidOut(FlattenSeq(seqs), seqs, n, at)
  <1>1. PICK f \in [1..n -> Seq(S)] : Concatenates(f, seqs, n)
    BY ConcatenationsExist
  <1>2. FlattenSeq(seqs) = f[n]
    <2>1. Len(seqs) = n
      OBVIOUS
    <2>. QED BY <1>1, <2>1, FlattenIs
  <1> DEFINE at == [r \in 1..n |-> IF r = 1 THEN 0 ELSE Len(f[r - 1])]
  <1>3. at \in [1..n -> Nat]
    OBVIOUS
  <1>4. \A r \in 1..n : at[r] = IF r = 1 THEN 0 ELSE Len(f[r - 1])
    OBVIOUS
  <1> HIDE DEF at
  <1> DEFINE Holds(m) == LaidOut(f[m], seqs, m, at)
             Fails == {m \in 1..n : ~Holds(m)}
  <1>5. Holds(1)
    <2>1. f[1] = seqs[1] /\ at[1] = 0 /\ seqs[1] \in Seq(S)
      BY <1>1, <1>4 DEF Concatenates
    <2>. QED BY <2>1 DEF LaidOut
  <1>6. ASSUME NEW m \in 2..n, Holds(m - 1)
        PROVE  Holds(m)
    <2>1. /\ m \in 1..n /\ m - 1 \in 1..n /\ m # 1
          /\ \A r \in 1..m : r = m \/ r \in 1..(m - 1)
          /\ \A r \in 1..(m - 1) : r \in 1..m
      OBVIOUS
    <2>2. f[m] = f[m - 1] \o seqs[m]
      BY <1>1 DEF Concatenates
    <2>3. at[m] = Len(f[m - 1])
      BY <1>4, <2>1
    <2>4. PICK before \in Seq(S), last \in Seq(S), all \in Seq(S) :
            before = f[m - 1] /\ last = seqs[m] /\ all = f[m]
      BY <2>1
    <2>5. /\ Len(all) = Len(before) + Len(last)
          /\ \A k \in 1..Len(before) : k \in 1..Len(all) /\ all[k] = before[k]
          /\ \A i \in 1..Len(last) : Len(before) + i \in 1..Len(all) /\ all[Len(before) + i] = last[i]
          /\ \A k \in 1..Len(all) : k \in 1..Len(before) \/ \E i \in 1..Len(last) : k = Len(before) + i
          /\ Len(before) \in Nat /\ Len(last) \in Nat
      <3>1. all = before \o last
        BY <2>2, <2>4
      <3>2. Appends(all, before, last)
        BY <3>1, AppendFacts
      <3>. QED BY <3>2 DEF Appends
    <2>6. /\ \A r \in 1..(m - 1) : \A i \in 1..Len(seqs[r]) :
               at[r] + i \in 1..Len(before) /\ before[at[r] + i] = seqs[r][i]
          /\ \A k \in 1..Len(before) : \E r \in 1..(m - 1) : \E i \in 1..Len(seqs[r]) : k = at[r] + i
          /\ \A r \in 1..(m - 1) : at[r] + Len(seqs[r]) <= Len(before)
          /\ \A q, r \in 1..(m - 1) : q < r => at[q] + Len(seqs[q]) <= at[r]
      BY <1>6, <2>4 DEF LaidOut
    <2>7. ASSUME NEW r \in 1..m, NEW i \in 1..Len(seqs[r])
          PROVE  at[r] + i \in 1..Len(f[m]) /\ f[m][at[r] + i] = seqs[r][i]
      <3>1. CASE r = m
        BY <2>3, <2>4, <2>5, <3>1
      <3>2. CASE r \in 1..(m - 1)
        BY <2>4, <2>5, <2>6, <3>2
      <3>. QED BY <2>1, <3>1, <3>2
    <2>8. ASSUME NEW k \in 1..Len(f[m])
           PROVE  \E r \in 1..m : \E i \in 1..Len(seqs[r]) : k = at[r] + i
      <3>1. CASE k \in 1..Len(before)
        BY <2>1, <2>6, <3>1
      <3>2. CASE \E i \in 1..Len(last) : k = Len(before) + i
        <4>1. m \in 1..m
          BY <2>1
        <4>. QED BY <2>3, <2>4, <3>2, <4>1
      <3>. QED BY <2>4, <2>5, <3>1, <3>2
    <2>9. \A r \in 1..m : at[r] \in Nat /\ Len(seqs[r]) \in Nat
      <3>1. \A r \in 1..m : r \in 1..n
        OBVIOUS
      <3>2. \A r \in 1..n : at[r] \in Nat /\ seqs[r] \in Seq(S)
        BY <1>3
      <3>. QED BY <3>1, <3>2
    <2>10. ASSUME NEW r \in 1..m
           PROVE  at[r] + Len(seqs[r]) <= Len(f[m])
      <3>1. CASE r = m
        BY <2>3, <2>4, <2>5, <3>1
      <3>2. CASE r \in 1..(m - 1)
        <4>1. at[r] + Len(seqs[r]) <= Len(before)
          BY <2>6, <3>2
        <4>2. at[r] \in Nat /\ Len(seqs[r]) \in Nat /\ Len(f[m]) = Len(before) + Len(last)
          BY <2>1, <2>4, <2>5, <2>9, <3>2
        <4>3. Len(before) \in Nat /\ Len(last) \in Nat
          BY <2>5
        <4>. QED BY <4>1, <4>2, <4>3
      <3>. QED BY <2>1, <3>1, <3>2
    <2>11. ASSUME NEW q \in 1..m, NEW r \in 1..m, q < r
           PROVE  at[q] + Len(seqs[q]) <= at[r]
      <3>1. CASE r = m
        <4>1. q \in 1..(m - 1)
          BY <2>11, <3>1
        <4>. QED BY <2>3, <2>4, <2>6, <3>1, <4>1
      <3>2. CASE r \in 1..(m - 1)
        <4>1. q \in 1..(m - 1)
          BY <2>11, <3>2
        <4>. QED BY <2>6, <2>11, <3>2, <4>1
      <3>. QED BY <2>1, <3>1, <3>2
    <2>. QED BY <2>7, <2>8, <2>10, <2>11 DEF LaidOut
  <1> HIDE DEF Holds
  <1>7. Fails = {}
    <2>1. SUFFICES ASSUME Fails # {} PROVE FALSE
      OBVIOUS
    <2>2. Fails \in SUBSET Nat
      OBVIOUS
    <2>3. PICK m \in Fails : \A k \in Fails : m <= k
      <3> HIDE DEF Fails
      <3>. QED BY <2>1, <2>2, LeastNumber
    <2>4. m \in 1..n /\ ~Holds(m) /\ (m # 1 => m - 1 \in 1..n /\ Holds(m - 1))
      BY <2>3
    <2>5. m # 1 => m \in 2..n
      BY <2>4
    <2>. QED BY <1>5, <1>6, <2>4, <2>5
  <1>8. n \in 1..n
    OBVIOUS
  <1>9. Holds(n)
    BY <1>7, <1>8
  <1>10. f[n] \in Seq(S)
    OBVIOUS
  <1>11. LaidOut(FlattenSeq(seqs), seqs, n, at)
    BY <1>2, <1>9 DEF Holds
  <1>12. FlattenSeq(seqs) \in Seq(S)
    BY <1>2, <1>10
  <1>. QED BY <1>3, <1>11, <1>12

------------------------------------------------------------------------------
(* The judgments of the runs, together. *)

\* f[n] is what n steps make of base.
Iterates(f, base, step, N) ==
  f[0] = base /\ \A n \in 1..N : f[n] = step[n][f[n - 1]]

\* The loops of the model do have values: a step can be taken any number of times.
LEMMA IterationExists ==
  ASSUME NEW S, NEW N \in Nat, NEW base \in S, NEW step \in [1..N -> [S -> S]]
  PROVE  \E f \in [0..N -> S] : Iterates(f, base, step, N)
  <1> DEFINE Upto(m) == \E f \in [0..m -> S] : Iterates(f, base, step, m)
             Fails == {m \in 0..N : ~Upto(m)}
  <1>1. Upto(0)
    <2> DEFINE f == [i \in 0..0 |-> base]
    <2>1. f \in [0..0 -> S] /\ Iterates(f, base, step, 0)
      BY DEF Iterates
    <2> HIDE DEF f
    <2>. QED BY <2>1
  <1>2. ASSUME NEW m \in 1..N, Upto(m - 1)
        PROVE  Upto(m)
    <2>1. m \in Nat /\ m - 1 \in 0..(m - 1) /\ 0 \in 0..(m - 1)
      OBVIOUS
    <2>2. PICK f \in [0..(m - 1) -> S] : Iterates(f, base, step, m - 1)
      BY <1>2
    <2>3. f[m - 1] \in S
      BY <2>1
    <2>4. PICK last \in S : last = step[m][f[m - 1]]
      BY <2>3
    <2> DEFINE g == [i \in 0..m |-> IF i < m THEN f[i] ELSE last]
    <2>5. g \in [0..m -> S]
      BY <2>1
    <2>6. \A i \in 0..(m - 1) : g[i] = f[i]
      BY <2>1
    <2>7. g[m] = last
      BY <2>1
    <2> HIDE DEF g
    <2>8. Iterates(g, base, step, m)
      <3>1. g[0] = base
        BY <2>1, <2>2, <2>6 DEF Iterates
      <3>2. ASSUME NEW i \in 1..(m - 1)
            PROVE  g[i] = step[i][g[i - 1]]
        <4>1. i \in 0..(m - 1) /\ i - 1 \in 0..(m - 1)
          OBVIOUS
        <4>2. f[i] = step[i][f[i - 1]]
          BY <2>2 DEF Iterates
        <4>. QED BY <2>6, <4>1, <4>2
      <3>3. g[m] = step[m][g[m - 1]]
        BY <2>1, <2>4, <2>6, <2>7
      <3>4. \A i \in 1..m : i = m \/ i \in 1..(m - 1)
        OBVIOUS
      <3>. QED BY <3>1, <3>2, <3>3, <3>4 DEF Iterates
    <2>. QED BY <2>5, <2>8
  <1> HIDE DEF Upto
  <1>3. Fails = {}
    <2>1. SUFFICES ASSUME Fails # {} PROVE FALSE
      OBVIOUS
    <2>2. Fails \in SUBSET Nat
      OBVIOUS
    <2>3. PICK m \in Fails : \A k \in Fails : m <= k
      <3> HIDE DEF Fails
      <3>. QED BY <2>1, <2>2, LeastNumber
    <2>4. m \in 0..N /\ ~Upto(m) /\ (m # 0 => m - 1 \in 0..N /\ Upto(m - 1))
      BY <2>3
    <2>5. m # 0 => m \in 1..N
      BY <2>4
    <2>. QED BY <1>1, <1>2, <2>4, <2>5
  <1>4. N \in 0..N
    OBVIOUS
  <1>5. Upto(N)
    BY <1>3, <1>4
  <1>. QED BY <1>5 DEF Upto

------------------------------------------------------------------------------
(* ChecklistPipeline: the invariant. *)

Limits == [DOMAIN Defaults -> Nat \ {0}]
LimitsOK == limits \in Limits /\ limits.maxSplit <= Defaults.maxSplit

\* n texts, none of them blank.
Filled(list, n) == list \in [1..n -> {"text"}]

Dimension == [id : Nat, ordinal : Nat, text : {"text"}]
Candidate == [id : Nat, ordinal : Nat, dimension : Nat, text : {"text"}]

\* The stages in which there are dimensions, candidates and weights.
Weighted == {"question_splitting", "succeed_checklist", "build_failed"}
Gathered == Weighted \cup {"weight_assignment"}
Dimensioned == Gathered \cup {"question_generation"}
Stages == Dimensioned \cup
          {"configure", "exited", "validate_limits", "limits_refused", "dimension_analysis", "failed"}

DimensionsAre(ds) ==
  /\ ds \in Seq(Dimension) /\ Len(ds) \in 1..limits.maxDimensions
  /\ \A i \in 1..Len(ds) : ds[i].id = i /\ ds[i].ordinal = i

DimensionsOK == stage \in Dimensioned => DimensionsAre(dimensions)

DraftOK(draft) == draft = Pending \/ \E n \in 1..limits.maxCandidates : Filled(draft, n)

DraftsOK == stage = "question_generation" =>
  DOMAIN drafts = 1..Len(dimensions) /\ \A i \in 1..Len(dimensions) : DraftOK(drafts[i])

\* cs : candidates of the first n dimensions.
CandidatesOf(cs, n) ==
  /\ cs \in Seq(Candidate)
  /\ n # 0 => Len(cs) # 0
  /\ \A k \in 1..Len(cs) : cs[k].id = k /\ cs[k].ordinal = k /\ cs[k].dimension \in 1..n
  /\ \A j, k \in 1..Len(cs) : j <= k => cs[j].dimension <= cs[k].dimension
  /\ \A d \in 1..n : Cardinality({k \in 1..Len(cs) : cs[k].dimension = d}) <= limits.maxCandidates

CandidatesOK == stage \in Gathered => CandidatesOf(candidates, Len(dimensions))

WeightType == [candidate : Nat, text : {"text"}, weight : Nat]

WeightsAre(ws) == /\ ws \in Seq(WeightType)
                  /\ ValidWeights(candidates, ws, limits)
                  /\ ValidProjection(ws, limits)

WeightsOK == stage \in Weighted => WeightsAre(weights)

\* The split that asked for candidate k's questions has them.
Split(k) == splits[k].candidate = k /\ Filled(splits[k].questions, WeightOf(weights, k))

SplitsOK == stage \in Weighted =>
  /\ DOMAIN splits = ToSplit(weights)
  /\ \A k \in DOMAIN splits :
       \/ Split(k)
       \/ splits[k] = [candidate |-> k, questions |-> Pending] /\ stage = "question_splitting"

\* Everything Build reads is there.
Answered ==
  /\ LimitsOK /\ DimensionsAre(dimensions) /\ CandidatesOf(candidates, Len(dimensions))
  /\ WeightsAre(weights)
  /\ DOMAIN splits = ToSplit(weights) /\ \A k \in DOMAIN splits : Split(k)

BuiltOK == stage \in {"succeed_checklist", "build_failed"} =>
  /\ built = BuildFinalChecklist(dimensions, candidates, weights, splits, limits)
  /\ (stage = "succeed_checklist") <=> (built.error = "none")

PipelineInv ==
  /\ stage \in Stages /\ env \in Environments
  /\ LimitsOK /\ LimitsAgree
  /\ DimensionsOK /\ DraftsOK /\ CandidatesOK /\ CandidatesAreNumbered
  /\ WeightsOK /\ SplitsOK /\ BuiltOK

------------------------------------------------------------------------------
(* The limits. *)

\* The limits by name; the defaults are good limits.
LEMMA LimitNames ==
  /\ DOMAIN Defaults = {"maxDimensions", "maxCandidates", "maxSplit", "maxFinal"}
  /\ Defaults \in Limits
  BY DEF Defaults, Limits

\* Positive limits are what WithDefaults leaves alone.
LEMMA LimitsFacts ==
  ASSUME NEW ls \in Limits
  PROVE  /\ WithDefaults(ls) = ls
         /\ ls.maxDimensions \in Nat \ {0} /\ ls.maxCandidates \in Nat \ {0}
         /\ ls.maxSplit \in Nat \ {0} /\ ls.maxFinal \in Nat \ {0}
  <1>1. \A f \in DOMAIN Defaults : ls[f] \in Nat \ {0}
    BY DEF Limits
  <1>2. ls = [f \in DOMAIN Defaults |-> ls[f]]
    BY DEF Limits
  <1>3. [f \in DOMAIN Defaults |-> IF ls[f] <= 0 THEN Defaults[f] ELSE ls[f]]
          = [f \in DOMAIN Defaults |-> ls[f]]
    BY <1>1
  <1>4. WithDefaults(ls) = ls
    BY <1>2, <1>3 DEF WithDefaults
  <1>5. ls.maxDimensions = ls["maxDimensions"] /\ ls.maxCandidates = ls["maxCandidates"]
    OBVIOUS
  <1>. QED BY <1>1, <1>4, LimitNames

\* What LimitsOK gives, without the function it is about.
LEMMA LimitsGood ==
  ASSUME LimitsOK
  PROVE  /\ WithDefaults(limits) = limits
         /\ limits.maxDimensions \in Nat \ {0} /\ limits.maxCandidates \in Nat \ {0}
         /\ limits.maxSplit \in 1..4 /\ limits.maxFinal \in Nat \ {0}
         /\ Defaults.maxSplit = 4
         /\ ValidLimits(limits)
  <1>1. limits \in Limits /\ Defaults.maxSplit = 4 /\ limits.maxSplit <= 4
    BY DEF LimitsOK, Defaults
  <1>. QED BY <1>1, LimitsFacts DEF ValidLimits

\* Whatever its environment, a process that loads its limits has good ones.
LEMMA ConfiguredLimitsGood ==
  ASSUME NEW e \in Environments, LimitsLoad(e)
  PROVE  /\ ConfiguredLimits(e) \in Limits
         /\ ConfiguredLimits(e).maxSplit <= Defaults.maxSplit
  <1>1. \A f \in DOMAIN Defaults : e[f] = Unset \/ e[f] \in Int
    BY EnvironmentsAssumption
  <1>2. \A f \in DOMAIN Defaults : Defaults[f] \in Nat \ {0}
    BY LimitNames DEF Limits
  <1>3. ASSUME NEW f \in DOMAIN Defaults
        PROVE  PositiveOr(e[f], Defaults[f]) \in Nat \ {0}
    <2>1. e[f] = Unset \/ e[f] > 0
      BY DEF LimitsLoad, Accepted
    <2>. QED BY <1>1, <1>2, <2>1 DEF PositiveOr
  <1>4. ConfiguredLimits(e) \in Limits
    BY <1>3 DEF ConfiguredLimits, Limits
  <1>5. ValidLimits(ConfiguredLimits(e))
    BY DEF LimitsLoad
  <1>. QED BY <1>4, <1>5, LimitsFacts DEF ValidLimits

------------------------------------------------------------------------------
(* One answer. *)

\* A list of texts without a blank one is filled, and the other way round.
LEMMA AnswerFacts ==
  ASSUME NEW answer \in Lists
  PROVE  /\ Len(answer) \in Nat
         /\ DOMAIN answer = 1..Len(answer)
         /\ NotBlank(answer) <=> Filled(answer, Len(answer))
  <1>1. PICK n \in 0..MaxAnswer : answer \in [1..n -> Texts]
    BY DEF Lists
  <1>2. n \in Nat /\ Len(answer) = n /\ DOMAIN answer = 1..n
    BY <1>1, BoundsAssumption
  <1>3. \A i \in 1..n : answer[i] # Blank <=> answer[i] \in {"text"}
    BY <1>1 DEF Texts, Blank
  <1>4. answer = [i \in 1..n |-> answer[i]]
    BY <1>1
  <1>. QED BY <1>2, <1>3, <1>4 DEF NotBlank, Filled

\* The Validate methods ask for a first element and for no blank text: the limits of the
\* output itself are never exceeded.
LEMMA OutputOK ==
  ASSUME NEW answer \in Lists
  PROVE  /\ DimensionAnalysisOutputOK(answer) <=> Len(answer) >= 1 /\ NotBlank(answer)
         /\ QuestionsOutputOK(answer) <=> Len(answer) >= 1 /\ NotBlank(answer)
  <1>1. Len(answer) \in Nat /\ DOMAIN answer = 1..Len(answer)
    BY AnswerFacts
  <1>2. \A f \in DOMAIN Defaults :
          WithDefaults(LimitsOf(answer))[f]
            = IF Len(answer) <= 0 THEN Defaults[f] ELSE Len(answer)
    BY DEF WithDefaults, LimitsOf
  <1>3. Len(answer) >= 1 =>
          /\ WithDefaults(LimitsOf(answer)).maxDimensions = Len(answer)
          /\ WithDefaults(LimitsOf(answer)).maxCandidates = Len(answer)
    BY <1>1, <1>2, LimitNames
  <1>4. DimensionAnalysisOutputOK(answer) <=> Len(answer) >= 1 /\ NotBlank(answer)
    BY <1>1, <1>3 DEF DimensionAnalysisOutputOK, ValidDimensionGeneration, NotBlank
  <1>5. QuestionsOutputOK(answer) <=> Len(answer) >= 1 /\ NotBlank(answer)
    BY <1>1, <1>3 DEF QuestionsOutputOK, ValidQuestionGeneration, NotBlank
  <1>. QED BY <1>4, <1>5

\* The numbered dimensions of an accepted answer.
LEMMA AssignedDimensions ==
  ASSUME LimitsOK, NEW answer \in Lists, Len(answer) \in 1..limits.maxDimensions, NotBlank(answer)
  PROVE  DimensionsAre(AssignDimensionIDs(answer))
  <1>1. /\ Len(answer) \in Nat /\ DOMAIN answer = 1..Len(answer)
        /\ answer \in [1..Len(answer) -> {"text"}]
    BY AnswerFacts DEF Filled
  <1> DEFINE ds == [i \in 1..Len(answer) |-> [id |-> i, ordinal |-> i, text |-> answer[i]]]
  <1>2. AssignDimensionIDs(answer) = ds
    BY <1>1 DEF AssignDimensionIDs
  <1>3. ds \in [1..Len(answer) -> Dimension]
    BY <1>1 DEF Dimension
  <1>4. \A i \in 1..Len(answer) : ds[i].id = i /\ ds[i].ordinal = i
    OBVIOUS
  <1> HIDE DEF ds
  <1>5. ds \in Seq(Dimension) /\ Len(ds) = Len(answer)
    BY <1>1, <1>3
  <1>. QED BY <1>2, <1>4, <1>5 DEF DimensionsAre

\* Dimensions numbered like this pass the workflow's check of them.
LEMMA DimensionsValid ==
  ASSUME LimitsOK, NEW ds, DimensionsAre(ds)
  PROVE  /\ ValidDimensions(ds, limits)
         /\ Values(ds, "id") = 1..Len(ds)
  <1>1. ds \in Seq(Dimension) /\ Len(ds) \in 1..limits.maxDimensions /\ DOMAIN ds = 1..Len(ds)
    BY DEF DimensionsAre
  <1>2. ASSUME NEW i \in 1..Len(ds)
        PROVE  ds[i].id = i /\ ds[i].ordinal = i /\ ds[i].text # Blank
    <2>1. ds[i] \in Dimension
      BY <1>1
    <2>. QED BY <2>1 DEF DimensionsAre, Dimension, Blank
  <1>3. Distinct(ds, "id")
    BY <1>1, <1>2 DEF Distinct
  <1>4. Values(ds, "id") = 1..Len(ds)
    BY <1>1, <1>2 DEF Values
  <1>5. ValidDimensions(ds, limits)
    BY <1>1, <1>2, <1>3, LimitsGood DEF ValidDimensions
  <1>. QED BY <1>4, <1>5

\* The three prompts that are answered with texts: what is accepted of an answer is what
\* the schema asks for.
LEMMA TextsAgree ==
  ASSUME LimitsOK, NEW answer \in Lists
  PROVE  /\ AcceptsDimensions(answer)
              <=> Len(answer) \in 1..limits.maxDimensions /\ NotBlank(answer)
         /\ AcceptsDimensions(answer)
              <=> Fits(answer, BuildDimensionAnalysisRequest(limits)) /\ NotBlank(answer)
         /\ AcceptsQuestions(answer)
              <=> Len(answer) \in 1..limits.maxCandidates /\ NotBlank(answer)
         /\ AcceptsQuestions(answer)
              <=> Fits(answer, BuildQuestionGenerationRequest(limits)) /\ NotBlank(answer)
  <1>1. /\ WithDefaults(limits) = limits
        /\ limits.maxDimensions \in Nat \ {0} /\ limits.maxCandidates \in Nat \ {0}
    BY LimitsGood
  <1>2. /\ Len(answer) \in Nat
        /\ DimensionAnalysisOutputOK(answer) <=> Len(answer) >= 1 /\ NotBlank(answer)
        /\ QuestionsOutputOK(answer) <=> Len(answer) >= 1 /\ NotBlank(answer)
    BY AnswerFacts, OutputOK
  <1>3. ValidDimensionGeneration(answer, limits)
          <=> Len(answer) \in 1..limits.maxDimensions /\ NotBlank(answer)
    BY <1>1 DEF ValidDimensionGeneration, NotBlank
  <1>4. Len(answer) \in 1..limits.maxDimensions /\ NotBlank(answer)
          => ValidDimensions(AssignDimensionIDs(answer), limits)
    BY AssignedDimensions, DimensionsValid
  <1>5. AcceptsDimensions(answer) <=> Len(answer) \in 1..limits.maxDimensions /\ NotBlank(answer)
    BY <1>1, <1>2, <1>3, <1>4 DEF AcceptsDimensions
  <1>6. Fits(answer, BuildDimensionAnalysisRequest(limits))
          <=> Len(answer) \in 1..limits.maxDimensions
    BY <1>1 DEF Fits, BuildDimensionAnalysisRequest, DimensionAnalysisSchema, Items
  <1>7. ValidQuestionGeneration(answer, limits)
          <=> Len(answer) \in 1..limits.maxCandidates /\ NotBlank(answer)
    BY <1>1 DEF ValidQuestionGeneration, NotBlank
  <1>8. AcceptsQuestions(answer) <=> Len(answer) \in 1..limits.maxCandidates /\ NotBlank(answer)
    BY <1>1, <1>2, <1>7 DEF AcceptsQuestions
  <1>9. Fits(answer, BuildQuestionGenerationRequest(limits))
          <=> Len(answer) \in 1..limits.maxCandidates
    BY <1>1 DEF Fits, BuildQuestionGenerationRequest, QuestionGenerationSchema, Items
  <1>. QED BY <1>5, <1>6, <1>8, <1>9

\* The same of the answers to a split into w questions.
LEMMA SplitsAgree ==
  ASSUME NEW answer \in Lists, NEW c \in Nat \ {0}, WeightOf(weights, c) \in Nat,
         WeightOf(weights, c) > 1
  PROVE  /\ AcceptsSplit(c, answer) <=> Len(answer) = WeightOf(weights, c) /\ NotBlank(answer)
         /\ AcceptsSplit(c, answer)
              <=> /\ Fits(answer, BuildQuestionSplittingRequest(WeightOf(weights, c)))
                  /\ NotBlank(answer)
  <1>1. /\ Len(answer) \in Nat
        /\ QuestionsOutputOK(answer) <=> Len(answer) >= 1 /\ NotBlank(answer)
    BY AnswerFacts, OutputOK
  <1>2. ValidSplitQuestions([candidate |-> c, questions |-> answer], WeightOf(weights, c))
          <=> Len(answer) = WeightOf(weights, c) /\ NotBlank(answer)
    BY DEF ValidSplitQuestions, NotBlank
  <1>3. Fits(answer, BuildQuestionSplittingRequest(WeightOf(weights, c)))
          <=> Len(answer) = WeightOf(weights, c)
    BY <1>1 DEF Fits, BuildQuestionSplittingRequest, QuestionSplittingSchema, Items
  <1>. QED BY <1>1, <1>2, <1>3 DEF AcceptsSplit

------------------------------------------------------------------------------
(* The candidates. *)

\* The questions of dimension n, added to the candidates of those before it.
LEMMA CollectStep ==
  ASSUME LimitsOK, NEW n \in Nat \ {0}, NEW cs, CandidatesOf(cs, n - 1),
         NEW m \in 1..limits.maxCandidates, NEW draft, Filled(draft, m)
  PROVE  CandidatesOf(cs \o AssignCandidateQuestionIDs(n, Len(cs) + 1, draft), n)
  <1> DEFINE new == AssignCandidateQuestionIDs(n, Len(cs) + 1, draft)
             all == cs \o new
  <1>1. cs \in Seq(Candidate) /\ Len(cs) \in Nat /\ m \in Nat
    BY DEF CandidatesOf
  <1>2. draft \in [1..m -> {"text"}] /\ DOMAIN draft = 1..m
    BY DEF Filled
  <1>3. new = [i \in 1..m |-> [id |-> Len(cs) + i, ordinal |-> Len(cs) + i,
                               dimension |-> n, text |-> draft[i]]]
    <2>1. \A i \in 1..m : Len(cs) + 1 + i - 1 = Len(cs) + i
      BY <1>1
    <2>. QED BY <1>2, <2>1 DEF AssignCandidateQuestionIDs
  <1>4. new \in [1..m -> Candidate]
    BY <1>1, <1>2, <1>3 DEF Candidate
  <1>5. new \in Seq(Candidate) /\ Len(new) = m
    BY <1>1, <1>4
  <1>6. \A i \in 1..m : new[i].id = Len(cs) + i /\ new[i].ordinal = Len(cs) + i /\ new[i].dimension = n
    BY <1>3
  <1> HIDE DEF new
  <1>7. Appends(all, cs, new) /\ all \in Seq(Candidate)
    BY <1>1, <1>5, AppendFacts
  <1> HIDE DEF all
  <1>8. /\ Len(all) = Len(cs) + m
        /\ \A k \in 1..Len(cs) : k \in 1..Len(all) /\ all[k] = cs[k]
        /\ \A i \in 1..m : Len(cs) + i \in 1..Len(all) /\ all[Len(cs) + i] = new[i]
        /\ \A k \in 1..Len(all) : k \in 1..Len(cs) \/ \E i \in 1..m : k = Len(cs) + i
    BY <1>5, <1>7 DEF Appends
  <1>9. ASSUME NEW k \in 1..Len(cs)
        PROVE  all[k].id = k /\ all[k].ordinal = k /\ all[k].dimension \in 1..(n - 1)
    BY <1>8 DEF CandidatesOf
  <1>10. ASSUME NEW k \in 1..Len(all), k \notin 1..Len(cs)
         PROVE  all[k].id = k /\ all[k].ordinal = k /\ all[k].dimension = n
    <2>1. PICK i \in 1..m : k = Len(cs) + i
      BY <1>8, <1>10
    <2>2. all[k] = new[i]
      BY <1>8, <2>1
    <2>. QED BY <1>6, <2>1, <2>2
  <1>11. ASSUME NEW j \in 1..Len(all), NEW k \in 1..Len(all), j <= k
         PROVE  all[j].dimension <= all[k].dimension
    <2>1. CASE k \in 1..Len(cs)
      <3>1. j \in 1..Len(cs)
        BY <1>11, <2>1
      <3>. QED BY <1>8, <1>11, <2>1, <3>1 DEF CandidatesOf
    <2>2. CASE k \notin 1..Len(cs)
      <3>1. all[k].dimension = n
        BY <1>10, <2>2
      <3>2. all[j].dimension = n \/ all[j].dimension \in 1..(n - 1)
        BY <1>9, <1>10
      <3>. QED BY <3>1, <3>2
    <2>. QED BY <2>1, <2>2
  <1>12. ASSUME NEW d \in 1..n
         PROVE  Cardinality({k \in 1..Len(all) : all[k].dimension = d}) <= limits.maxCandidates
    <2>1. CASE d = n
      <3>1. {k \in 1..Len(all) : all[k].dimension = d} = (Len(cs) + 1)..(Len(cs) + m)
        <4>1. \A k \in (Len(cs) + 1)..(Len(cs) + m) : k \in 1..Len(all) /\ k \notin 1..Len(cs)
          BY <1>1, <1>8
        <4>2. \A k \in 1..Len(all) : all[k].dimension = n => k \in (Len(cs) + 1)..(Len(cs) + m)
          <5>1. \A k \in 1..Len(cs) : all[k].dimension # n
            BY <1>9
          <5>2. \A k \in 1..Len(all) : k \notin 1..Len(cs) => k \in (Len(cs) + 1)..(Len(cs) + m)
            BY <1>1, <1>8
          <5>. QED BY <5>1, <5>2
        <4>. QED BY <1>10, <2>1, <4>1, <4>2
      <3>2. Cardinality((Len(cs) + 1)..(Len(cs) + m)) = m
        <4>1. Len(cs) + 1 \in Int /\ Len(cs) + m \in Int /\ Len(cs) + 1 <= Len(cs) + m
          BY <1>1
        <4>2. PICK a \in Int, b \in Int : a = Len(cs) + 1 /\ b = Len(cs) + m /\ a <= b
          BY <4>1
        <4>3. Cardinality(a..b) = b - a + 1
          BY <4>2, FS_Interval
        <4>. QED BY <1>1, <4>2, <4>3
      <3>3. m <= limits.maxCandidates
        BY LimitsGood
      <3>. QED BY <3>1, <3>2, <3>3
    <2>2. CASE d \in 1..(n - 1)
      <3>1. {k \in 1..Len(all) : all[k].dimension = d} = {k \in 1..Len(cs) : cs[k].dimension = d}
        <4>1. \A k \in 1..Len(all) : all[k].dimension = d => k \in 1..Len(cs)
          BY <1>10, <2>2
        <4>. QED BY <1>8, <4>1
      <3>. QED BY <2>2, <3>1 DEF CandidatesOf
    <2>3. d = n \/ d \in 1..(n - 1)
      OBVIOUS
    <2>. QED BY <2>1, <2>2, <2>3
  <1>13. \A k \in 1..Len(all) : all[k].id = k /\ all[k].ordinal = k /\ all[k].dimension \in 1..n
    <2>1. \A d : d \in 1..(n - 1) => d \in 1..n
      OBVIOUS
    <2>2. n \in 1..n
      OBVIOUS
    <2>. QED BY <1>9, <1>10, <2>1, <2>2
  <1>14. Len(all) # 0
    BY <1>1, <1>8
  <1>15. CandidatesOf(all, n)
    BY <1>7, <1>11, <1>12, <1>13, <1>14 DEF CandidatesOf
  <1>. QED BY <1>15 DEF all, new

\* What the workflow has collected when every dimension has answered.
LEMMA CollectedFacts ==
  ASSUME LimitsOK, DimensionsAre(dimensions),
         \A i \in 1..Len(dimensions) : \E m \in 1..limits.maxCandidates : Filled(drafts[i], m)
  PROVE  CandidatesOf(Collected, Len(dimensions))
  <1> DEFINE N == Len(dimensions)
             S == Seq(Candidate)
             Next1(n, cs) == cs \o AssignCandidateQuestionIDs(dimensions[n].id, Len(cs) + 1, drafts[n])
             Keeps(f) == f = [n \in 0..N |-> IF n = 0 THEN <<>> ELSE Next1(n, f[n - 1])]
             collected == CHOOSE f : Keeps(f)
  <1>1. N \in Nat /\ N \in 0..N /\ \A i \in 1..N : dimensions[i].id = i
    BY DEF DimensionsAre
  <1>2. Collected = collected[N]
    BY DEF Collected
  <1>3. \A n \in 1..N : \A cs \in S : Next1(n, cs) \in S
    <2> SUFFICES ASSUME NEW n \in 1..N, NEW cs \in S PROVE Next1(n, cs) \in S
      OBVIOUS
    <2>1. PICK m \in 1..limits.maxCandidates : Filled(drafts[n], m)
      OBVIOUS
    <2>2. drafts[n] \in [1..m -> {"text"}] /\ DOMAIN drafts[n] = 1..m /\ m \in Nat
      BY <2>1 DEF Filled
    <2> DEFINE new == AssignCandidateQuestionIDs(dimensions[n].id, Len(cs) + 1, drafts[n])
    <2>3. new = [i \in 1..m |-> [id |-> Len(cs) + 1 + i - 1, ordinal |-> Len(cs) + 1 + i - 1,
                                 dimension |-> n, text |-> drafts[n][i]]]
      BY <1>1, <2>2 DEF AssignCandidateQuestionIDs
    <2>4. new \in [1..m -> Candidate]
      <3>1. Len(cs) \in Nat /\ n \in Nat /\ \A i \in 1..m : Len(cs) + 1 + i - 1 \in Nat
        OBVIOUS
      <3>. QED BY <2>2, <2>3, <3>1 DEF Candidate
    <2> HIDE DEF new
    <2>5. new \in Seq(Candidate)
      BY <2>2, <2>4
    <2>. QED BY <2>5 DEF new
  <1> DEFINE step == [n \in 1..N |-> [cs \in S |-> Next1(n, cs)]]
  <1>4. step \in [1..N -> [S -> S]]
    BY <1>3
  <1>5. \A n \in 1..N : \A cs \in S : step[n][cs] = Next1(n, cs)
    OBVIOUS
  <1>6. <<>> \in S
    OBVIOUS
  <1> HIDE DEF step, S, Next1
  <1>7. PICK g \in [0..N -> S] : Iterates(g, <<>>, step, N)
    <2> HIDE DEF N
    <2>. QED BY <1>1, <1>4, <1>6, IterationExists
  <1>8. \A n \in 0..N : g[n] = IF n = 0 THEN <<>> ELSE Next1(n, g[n - 1])
    <2>1. ASSUME NEW n \in 1..N PROVE g[n] = Next1(n, g[n - 1])
      <3>1. n - 1 \in 0..N
        BY <1>1
      <3>. QED BY <1>5, <1>7, <3>1 DEF Iterates
    <2>2. g[0] = <<>>
      BY <1>7 DEF Iterates
    <2>3. \A n \in 0..N : n = 0 \/ n \in 1..N
      OBVIOUS
    <2>. QED BY <2>1, <2>2, <2>3
  <1>9. Keeps(g)
    <2>1. g = [n \in 0..N |-> g[n]]
      OBVIOUS
    <2>. QED BY <1>8, <2>1
  <1>10. Keeps(collected)
    <2> HIDE DEF Keeps
    <2>. QED BY <1>9
  <1>11. \A n \in 0..N : collected[n] = IF n = 0 THEN <<>> ELSE Next1(n, collected[n - 1])
    BY <1>10
  <1> HIDE DEF collected
  <1> DEFINE Fails == {n \in 0..N : ~CandidatesOf(collected[n], n)}
  <1>12. Fails = {}
    <2>1. SUFFICES ASSUME Fails # {} PROVE FALSE
      OBVIOUS
    <2>2. Fails \in SUBSET Nat
      BY <1>1
    <2>3. PICK n \in Fails : \A k \in Fails : n <= k
      <3> HIDE DEF Fails
      <3>. QED BY <2>1, <2>2, LeastNumber
    <2>4. n \in 0..N /\ n \in Nat /\ ~CandidatesOf(collected[n], n)
      BY <1>1, <2>3
    <2>5. CASE n = 0
      <3>1. collected[n] = <<>> /\ <<>> \in Seq(Candidate) /\ Len(<<>>) = 0
        BY <1>11, <2>4, <2>5
      <3>. QED BY <2>4, <2>5, <3>1 DEF CandidatesOf
    <2>6. CASE n # 0
      <3>1. n \in 1..N /\ n - 1 \in 0..N /\ n \in Nat \ {0} /\ n - 1 < n
        BY <1>1, <2>4, <2>6
      <3>2. CandidatesOf(collected[n - 1], n - 1)
        BY <2>3, <3>1
      <3>3. PICK m \in 1..limits.maxCandidates : Filled(drafts[n], m)
        BY <3>1
      <3>4. CandidatesOf(collected[n - 1] \o AssignCandidateQuestionIDs(
                           n, Len(collected[n - 1]) + 1, drafts[n]), n)
        BY <3>1, <3>2, <3>3, CollectStep
      <3>5. collected[n] = collected[n - 1] \o AssignCandidateQuestionIDs(
                             n, Len(collected[n - 1]) + 1, drafts[n])
        BY <1>1, <1>11, <2>6, <3>1 DEF Next1
      <3>. QED BY <2>4, <3>4, <3>5
    <2>. QED BY <2>5, <2>6
  <1>. QED BY <1>1, <1>2, <1>12

\* Candidates like these pass the workflow's check of them.
LEMMA CandidatesValid ==
  ASSUME LimitsOK, DimensionsAre(dimensions), NEW cs, CandidatesOf(cs, Len(dimensions))
  PROVE  /\ ValidCandidateQuestions(dimensions, cs, limits)
         /\ DOMAIN cs = 1..Len(cs) /\ Len(cs) \in Nat \ {0}
         /\ Values(cs, "id") = 1..Len(cs) /\ Distinct(cs, "id")
  <1>1. /\ cs \in Seq(Candidate) /\ DOMAIN cs = 1..Len(cs) /\ Len(dimensions) \in Nat \ {0}
        /\ Len(cs) \in Nat \ {0}
    BY LimitsGood DEF CandidatesOf, DimensionsAre
  <1>2. ASSUME NEW k \in 1..Len(cs)
        PROVE  /\ cs[k].id = k /\ cs[k].ordinal = k /\ cs[k].text # Blank
               /\ cs[k].dimension \in 1..Len(dimensions)
    <2>1. cs[k] \in Candidate
      BY <1>1
    <2>. QED BY <2>1 DEF CandidatesOf, Candidate, Blank
  <1>3. Distinct(cs, "id")
    BY <1>1, <1>2 DEF Distinct
  <1>4. Values(cs, "id") = 1..Len(cs)
    BY <1>1, <1>2 DEF Values
  <1>5. Values(dimensions, "id") = 1..Len(dimensions)
    BY DimensionsValid
  <1>6. \A d \in 1..Len(dimensions) :
          Cardinality({i \in DOMAIN cs : cs[i].dimension = d}) <= limits.maxCandidates
    BY <1>1 DEF CandidatesOf
  <1>7. cs # <<>>
    BY <1>1
  <1>8. ValidCandidateQuestions(dimensions, cs, limits)
    BY <1>1, <1>2, <1>3, <1>5, <1>6, <1>7, LimitsGood DEF ValidCandidateQuestions
  <1>. QED BY <1>1, <1>3, <1>4, <1>8

------------------------------------------------------------------------------
(* The weights. *)

\* Every list of weights the model may answer with is a list of weights.
LEMMA WeightListFacts ==
  ASSUME NEW ws \in WeightLists, Len(candidates) \in Nat \ {0}
  PROVE  /\ ws \in Seq(WeightType)
         /\ Len(ws) \in Nat /\ DOMAIN ws = 1..Len(ws)
         /\ \A i \in 1..Len(ws) : ws[i] \in WeightType /\ ws[i].candidate # 0
  <1> DEFINE n == Len(candidates)
             W == [1..n -> 0..MaxWeight]
  <1>1. PICK f \in W :
          \/ ws = [i \in 1..n |-> Weight(i, f[i])]
          \/ ws = [i \in 1..n |-> Weight(n + 1 - i, f[n + 1 - i])]
          \/ ws = [i \in 1..(n - 1) |-> Weight(i, f[i])]
          \/ ws = [i \in 1..(n + 1) |-> IF i = 1 THEN Weight(1, f[1]) ELSE Weight(i - 1, f[i - 1])]
    BY DEF WeightLists
  <1>2. ASSUME NEW c \in 1..n
        PROVE  Weight(c, f[c]) \in WeightType /\ Weight(c, f[c]).candidate # 0
    <2>1. f[c] \in Nat /\ c \in Nat \ {0}
      BY BoundsAssumption
    <2>. QED BY <2>1 DEF Weight, WeightType
  <1>3. PICK m \in Nat : /\ DOMAIN ws = 1..m
                         /\ \A i \in 1..m : \E c \in 1..n : ws[i] = Weight(c, f[c])
    <2>1. CASE ws = [i \in 1..n |-> Weight(i, f[i])]
      BY <2>1
    <2>2. CASE ws = [i \in 1..n |-> Weight(n + 1 - i, f[n + 1 - i])]
      <3>1. \A i \in 1..n : n + 1 - i \in 1..n
        OBVIOUS
      <3>. QED BY <2>2, <3>1
    <2>3. CASE ws = [i \in 1..(n - 1) |-> Weight(i, f[i])]
      <3>1. n - 1 \in Nat /\ \A i \in 1..(n - 1) : i \in 1..n
        OBVIOUS
      <3>. QED BY <2>3, <3>1
    <2>4. CASE ws = [i \in 1..(n + 1) |-> IF i = 1 THEN Weight(1, f[1]) ELSE Weight(i - 1, f[i - 1])]
      <3>1. n + 1 \in Nat /\ 1 \in 1..n /\ \A i \in 1..(n + 1) : i # 1 => i - 1 \in 1..n
        OBVIOUS
      <3>. QED BY <2>4, <3>1
    <2>. QED BY <1>1, <2>1, <2>2, <2>3, <2>4
  <1>4. \A i \in 1..m : ws[i] \in WeightType /\ ws[i].candidate # 0
    BY <1>2, <1>3
  <1>5. ws = [i \in 1..m |-> ws[i]]
    <2>1. ws = [i \in DOMAIN ws |-> ws[i]]
      BY <1>1
    <2>. QED BY <1>3, <2>1
  <1>6. ws \in [1..m -> WeightType]
    BY <1>4, <1>5
  <1>7. ws \in Seq(WeightType) /\ Len(ws) = m
    BY <1>6
  <1>. QED BY <1>3, <1>4, <1>7

\* Where the candidates of the weights are 1..n, there are n weights exactly when no
\* candidate has two.
LEMMA DistinctIsAsMany ==
  ASSUME NEW ws \in Seq(WeightType), NEW n \in Nat, Values(ws, "candidate") = 1..n
  PROVE  Distinct(ws, "candidate") <=> Len(ws) = n
  <1> DEFINE m == Len(ws)
             f == [i \in 1..m |-> ws[i].candidate]
  <1>1. m \in Nat /\ DOMAIN ws = 1..m
    OBVIOUS
  <1>2. \A i \in 1..m : ws[i].candidate \in 1..n
    BY <1>1 DEF Values
  <1>3. \A c \in 1..n : \E i \in 1..m : ws[i].candidate = c
    BY <1>1 DEF Values
  <1>4. f \in Surjection(1..m, 1..n)
    BY <1>2, <1>3 DEF Surjection
  <1>5. f \in Injection(1..m, 1..n) <=> Distinct(ws, "candidate")
    BY <1>1, <1>2 DEF Injection, IsInjective, Distinct
  <1> HIDE DEF f
  <1>6. /\ IsFiniteSet(1..m) /\ Cardinality(1..m) = m
        /\ IsFiniteSet(1..n) /\ Cardinality(1..n) = n
    <2> HIDE DEF m
    <2>1. 1 \in Int /\ m \in Int /\ n \in Int
      BY <1>1
    <2>2. /\ IsFiniteSet(1..m) /\ Cardinality(1..m) = IF 1 > m THEN 0 ELSE m - 1 + 1
          /\ IsFiniteSet(1..n) /\ Cardinality(1..n) = IF 1 > n THEN 0 ELSE n - 1 + 1
      BY <2>1, FS_Interval
    <2>. QED BY <1>1, <2>2
  <1>7. Cardinality(1..n) = Cardinality(1..m) <=> f \in Injection(1..m, 1..n)
    BY <1>4, <1>6, FS_Surjection
  <1>. QED BY <1>5, <1>6, <1>7

\* What is accepted of any list of weights is what its schema asks for, with every candidate
\* named.
LEMMA WeightsAgree ==
  ASSUME LimitsOK, DimensionsAre(dimensions), CandidatesOf(candidates, Len(dimensions)),
         NEW ws \in Seq(WeightType), \A i \in 1..Len(ws) : ws[i].candidate # 0
  PROVE  AcceptsWeights(ws)
           <=> /\ FitsWeights(ws, BuildWeightAssignmentRequest(candidates, limits))
               /\ Values(ws, "candidate") = Values(candidates, "id")
  <1> DEFINE n == Len(candidates)
             m == Len(ws)
  <1>1. n \in Nat \ {0} /\ Values(candidates, "id") = 1..n /\ Distinct(candidates, "id")
    BY CandidatesValid
  <1>2. /\ ws \in Seq(WeightType) /\ m \in Nat /\ DOMAIN ws = 1..m
        /\ \A i \in 1..m : ws[i] \in WeightType /\ ws[i].candidate # 0
    OBVIOUS
  <1>3. \A i \in 1..m : ws[i].weight \in Nat /\ ws[i].text # Blank
    BY <1>2 DEF WeightType, Blank
  <1>4. WithDefaults(limits) = limits /\ limits.maxSplit \in 1..4 /\ Defaults.maxSplit = 4
    BY LimitsGood
  <1>5. FitsWeights(ws, BuildWeightAssignmentRequest(candidates, limits))
          <=> m = n /\ \A i \in 1..m : ws[i].weight \in 0..limits.maxSplit
    BY <1>1, <1>2, <1>4
       DEF FitsWeights, Fits, BuildWeightAssignmentRequest, WeightAssignmentSchema
  <1>6. ASSUME Values(ws, "candidate") = 1..n
        PROVE  Distinct(ws, "candidate") <=> m = n
    <2> HIDE DEF n, m
    <2>1. n \in Nat
      BY <1>1
    <2>2. Distinct(ws, "candidate") <=> Len(ws) = n
      BY <1>2, <1>6, <2>1, DistinctIsAsMany
    <2>. QED BY <2>2 DEF m
  <1>7. ASSUME m = n PROVE ws # <<>>
    BY <1>1, <1>7
  <1>8. AcceptsWeights(ws)
          <=> /\ ws # <<>> /\ Distinct(ws, "candidate") /\ Values(ws, "candidate") = 1..n
              /\ \A i \in 1..m : ws[i].weight \in 0..limits.maxSplit
    <2>1. 0 \notin 1..n
      OBVIOUS
    <2>2. (\A i \in 1..m : ws[i].weight <= limits.maxSplit)
            <=> \A i \in 1..m : ws[i].weight \in 0..limits.maxSplit
      BY <1>3, <1>4
    <2>3. (\A i \in 1..m : ws[i].weight \in 0..limits.maxSplit)
            => \A i \in 1..m : ws[i].weight \in 0..4
      BY <1>3, <1>4
    <2>4. ValidWeightShape(ws)
            <=> /\ ws # <<>> /\ Distinct(ws, "candidate")
                /\ \A i \in 1..m : ws[i].weight \in 0..4
      BY <1>2, <1>3, <1>4 DEF ValidWeightShape
    <2>5. ValidWeights(candidates, ws, limits)
            <=> /\ ValidWeightShape(ws) /\ Values(ws, "candidate") = 1..n
                /\ \A i \in 1..m : ws[i].weight <= limits.maxSplit
      BY <1>1, <1>2, <1>4, <2>1 DEF ValidWeights
    <2>. QED BY <2>2, <2>3, <2>4, <2>5 DEF AcceptsWeights, WeightAssignmentOutputOK
  <1>. QED BY <1>1, <1>5, <1>6, <1>7, <1>8

\* Accepted weights: which place in the list is candidate c's, and what WeightOf finds.
LEMMA WeightOfFacts ==
  ASSUME NEW ws \in Seq(WeightType), Distinct(ws, "candidate"), NEW i \in 1..Len(ws)
  PROVE  WeightOf(ws, ws[i].candidate) = ws[i].weight /\ ws[i].weight \in Nat
  <1>1. DOMAIN ws = 1..Len(ws) /\ ws[i] \in WeightType
    OBVIOUS
  <1> DEFINE Found(w) == w \in {ws[j] : j \in DOMAIN ws} /\ w.candidate = ws[i].candidate
             found == CHOOSE w \in {ws[j] : j \in DOMAIN ws} : w.candidate = ws[i].candidate
  <1>2. Found(ws[i])
    BY <1>1
  <1>3. Found(found)
    BY <1>2
  <1>4. PICK j \in DOMAIN ws : found = ws[j]
    BY <1>3
  <1>5. j = i
    BY <1>1, <1>3, <1>4 DEF Distinct
  <1>. QED BY <1>1, <1>4, <1>5 DEF WeightOf, WeightType

\* Every candidate has a weight, and WeightOf finds it.
LEMMA CandidateWeights ==
  ASSUME LimitsOK, DimensionsAre(dimensions), CandidatesOf(candidates, Len(dimensions)),
         NEW ws, WeightsAre(ws)
  PROVE  /\ Distinct(ws, "candidate") /\ DOMAIN ws = 1..Len(ws) /\ Len(ws) \in Nat
         /\ \A i \in 1..Len(ws) :
              /\ ws[i].candidate \in 1..Len(candidates)
              /\ WeightOf(ws, ws[i].candidate) = ws[i].weight
              /\ ws[i].weight \in Nat
         /\ \A c \in 1..Len(candidates) :
              /\ WeightOf(ws, c) \in Nat
              /\ \E i \in 1..Len(ws) : ws[i].candidate = c
  <1>1. /\ ws \in Seq(WeightType) /\ Distinct(ws, "candidate")
        /\ Values(ws, "candidate") = Values(candidates, "id")
    BY DEF WeightsAre, ValidWeights, ValidWeightShape
  <1>2. Values(ws, "candidate") = 1..Len(candidates)
    BY <1>1, CandidatesValid
  <1>3. DOMAIN ws = 1..Len(ws) /\ Len(ws) \in Nat
    BY <1>1
  <1>4. ASSUME NEW i \in 1..Len(ws)
        PROVE  /\ ws[i].candidate \in 1..Len(candidates)
               /\ WeightOf(ws, ws[i].candidate) = ws[i].weight
               /\ ws[i].weight \in Nat
    <2>1. ws[i].candidate \in 1..Len(candidates)
      BY <1>2, <1>3 DEF Values
    <2>. QED BY <1>1, <2>1, WeightOfFacts
  <1>5. ASSUME NEW c \in 1..Len(candidates)
        PROVE  WeightOf(ws, c) \in Nat /\ \E i \in 1..Len(ws) : ws[i].candidate = c
    <2>1. PICK i \in 1..Len(ws) : ws[i].candidate = c
      BY <1>2, <1>3 DEF Values
    <2>. QED BY <1>4, <2>1
  <1>. QED BY <1>1, <1>3, <1>4, <1>5

------------------------------------------------------------------------------
(* The final checklist. *)

\* A candidate becomes as many questions as its weight says.
LEMMA PartsFacts ==
  ASSUME Answered, NEW c \in 1..Len(candidates)
  PROVE  /\ WeightOf(weights, c) \in Nat
         /\ Filled(PartsOf(candidates[c], weights, splits), WeightOf(weights, c))
  <1> DEFINE w == WeightOf(weights, c)
             Found(s) == s \in {splits[i] : i \in DOMAIN splits} /\ s.candidate = c
             split == CHOOSE s \in {splits[i] : i \in DOMAIN splits} : s.candidate = c
             parts == PartsOf(candidates[c], weights, splits)
  <1>1. /\ LimitsOK /\ DimensionsAre(dimensions) /\ CandidatesOf(candidates, Len(dimensions))
        /\ WeightsAre(weights) /\ DOMAIN splits = ToSplit(weights)
        /\ \A k \in DOMAIN splits : Split(k)
    BY DEF Answered
  <1>2. w \in Nat
    BY <1>1, CandidateWeights
  <1>3. candidates[c].id = c /\ candidates[c].text = "text" /\ DOMAIN candidates = 1..Len(candidates)
    <2>1. candidates[c] \in Candidate /\ DOMAIN candidates = 1..Len(candidates)
      BY <1>1 DEF CandidatesOf
    <2>. QED BY <1>1, <2>1 DEF CandidatesOf, Candidate
  <1>4. CASE w = 0
    <2>1. parts = <<>>
      BY <1>3, <1>4 DEF PartsOf
    <2>. QED BY <1>2, <1>4, <2>1 DEF Filled
  <1>5. CASE w = 1
    <2>1. parts = <<"text">>
      BY <1>3, <1>5 DEF PartsOf
    <2>. QED BY <1>2, <1>5, <2>1 DEF Filled
  <1>6. CASE w > 1
    <2>1. c \in DOMAIN splits
      BY <1>1, <1>3, <1>6 DEF ToSplit
    <2>2. Found(splits[c])
      BY <1>1, <2>1 DEF Split
    <2>3. Found(split)
      BY <2>2
    <2>4. PICK k \in DOMAIN splits : split = splits[k]
      BY <2>3
    <2>5. k = c
      BY <1>1, <2>3, <2>4 DEF Split
    <2>6. parts = split.questions
      BY <1>2, <1>3, <1>6 DEF PartsOf
    <2>7. Filled(split.questions, w)
      BY <1>1, <2>1, <2>4, <2>5 DEF Split
    <2>. QED BY <1>2, <2>6, <2>7
  <1>. QED BY <1>2, <1>4, <1>5, <1>6

Part == [dimension : Nat, source : Nat, text : {"text"}]

\* all : the questions of the candidates behind each other, those of candidate c after
\* place at[c].
InCandidateOrder(all, at) ==
  /\ all \in Seq(Part) /\ at \in [1..Len(candidates) -> Nat]
  /\ \A c \in 1..Len(candidates) : \A j \in 1..WeightOf(weights, c) :
       /\ at[c] + j \in 1..Len(all)
       /\ all[at[c] + j].source = c
       /\ all[at[c] + j].dimension = candidates[c].dimension
  /\ \A k \in 1..Len(all) : \E c \in 1..Len(candidates) : \E j \in 1..WeightOf(weights, c) :
       k = at[c] + j
  /\ \A b, c \in 1..Len(candidates) : b < c => at[b] + WeightOf(weights, b) <= at[c]

\* FinalParts is in candidate order.
LEMMA FinalPartsFacts ==
  ASSUME Answered
  PROVE  \E at : InCandidateOrder(FinalParts(candidates, weights, splits), at)
  <1> DEFINE n == Len(candidates)
             parts(c) == PartsOf(candidates[c], weights, splits)
             seq(c) == [k \in DOMAIN parts(c) |-> [dimension |-> candidates[c].dimension,
                                                   source |-> candidates[c].id, text |-> parts(c)[k]]]
             seqs == [c \in 1..n |-> seq(c)]
  <1>1. /\ CandidatesOf(candidates, Len(dimensions)) /\ n \in Nat \ {0} /\ DOMAIN candidates = 1..n
    BY CandidatesValid DEF Answered
  <1>2. FinalParts(candidates, weights, splits) = FlattenSeq(seqs)
    BY <1>1 DEF FinalParts
  <1>3. ASSUME NEW c \in 1..n
        PROVE  /\ seq(c) \in Seq(Part) /\ Len(seq(c)) = WeightOf(weights, c)
               /\ \A j \in 1..WeightOf(weights, c) :
                    seq(c)[j].source = c /\ seq(c)[j].dimension = candidates[c].dimension
    <2>1. WeightOf(weights, c) \in Nat /\ Filled(parts(c), WeightOf(weights, c))
      BY PartsFacts
    <2>2. PICK w \in Nat : w = WeightOf(weights, c) /\ parts(c) \in [1..w -> {"text"}]
      BY <2>1 DEF Filled
    <2>3. candidates[c].id = c /\ candidates[c].dimension \in Nat /\ c \in Nat
      <3>1. candidates[c] \in Candidate
        BY <1>1 DEF CandidatesOf
      <3>. QED BY <1>1, <3>1 DEF CandidatesOf, Candidate
    <2> HIDE DEF parts
    <2>4. seq(c) \in [1..w -> Part]
      BY <2>2, <2>3 DEF Part
    <2>5. \A j \in 1..w : seq(c)[j].source = c /\ seq(c)[j].dimension = candidates[c].dimension
      BY <2>2, <2>3
    <2> HIDE DEF seq
    <2>6. seq(c) \in Seq(Part) /\ Len(seq(c)) = w
      BY <2>4
    <2>. QED BY <2>2, <2>5, <2>6
  <1> HIDE DEF seq
  <1>4. seqs \in [1..n -> Seq(Part)] /\ \A c \in 1..n : seqs[c] = seq(c)
    BY <1>3
  <1> HIDE DEF seqs, n
  <1>5. /\ FlattenSeq(seqs) \in Seq(Part)
        /\ \E at \in [1..n -> Nat] : LaidOut(FlattenSeq(seqs), seqs, n, at)
    BY <1>1, <1>4, FlattenFacts
  <1>6. PICK at \in [1..n -> Nat] : LaidOut(FlattenSeq(seqs), seqs, n, at)
    BY <1>5
  <1>7. PICK all \in Seq(Part) : all = FlattenSeq(seqs)
    BY <1>5
  <1>8. LaidOut(all, seqs, n, at)
    BY <1>6, <1>7
  <1>9. \A c \in 1..n : /\ Len(seqs[c]) = WeightOf(weights, c)
                        /\ \A j \in 1..WeightOf(weights, c) :
                             seqs[c][j].source = c /\ seqs[c][j].dimension = candidates[c].dimension
    BY <1>3, <1>4
  <1>10. ASSUME NEW c \in 1..n, NEW j \in 1..WeightOf(weights, c)
         PROVE  /\ at[c] + j \in 1..Len(all)
                /\ all[at[c] + j].source = c
                /\ all[at[c] + j].dimension = candidates[c].dimension
    <2>1. j \in 1..Len(seqs[c])
      BY <1>9
    <2>2. at[c] + j \in 1..Len(all) /\ all[at[c] + j] = seqs[c][j]
      BY <1>8, <2>1 DEF LaidOut
    <2>. QED BY <1>9, <2>2
  <1>11. \A k \in 1..Len(all) : \E c \in 1..n : \E j \in 1..WeightOf(weights, c) : k = at[c] + j
    BY <1>8, <1>9 DEF LaidOut
  <1>12. \A b, c \in 1..n : b < c => at[b] + WeightOf(weights, b) <= at[c]
    BY <1>8, <1>9 DEF LaidOut
  <1>13. InCandidateOrder(all, at)
    BY <1>10, <1>11, <1>12 DEF InCandidateOrder, n
  <1>. QED BY <1>2, <1>7, <1>13

\* Questions in candidate order: whose they are, how many a candidate has, and that they
\* stand in the order of the candidates.
LEMMA OrderFacts ==
  ASSUME Answered, NEW all, NEW at, InCandidateOrder(all, at)
  PROVE  /\ \A k \in 1..Len(all) : /\ all[k].source \in 1..Len(candidates)
                                   /\ all[k].dimension = candidates[all[k].source].dimension
                                   /\ all[k].text = "text"
         /\ \A c \in 1..Len(candidates) :
              /\ IsFiniteSet({k \in 1..Len(all) : all[k].source = c})
              /\ Cardinality({k \in 1..Len(all) : all[k].source = c}) = WeightOf(weights, c)
         /\ \A i, j \in 1..Len(all) : i <= j => all[i].source <= all[j].source
  <1> DEFINE n == Len(candidates)
             W(c) == WeightOf(weights, c)
  <1>1. \A c \in 1..n : W(c) \in Nat /\ at[c] \in Nat
    <2>1. \A c \in 1..n : W(c) \in Nat
      BY PartsFacts
    <2>. QED BY <2>1 DEF InCandidateOrder
  <1>2. /\ \A c \in 1..n : \A j \in 1..W(c) :
             /\ at[c] + j \in 1..Len(all)
             /\ all[at[c] + j].source = c
             /\ all[at[c] + j].dimension = candidates[c].dimension
        /\ \A k \in 1..Len(all) : \E c \in 1..n : \E j \in 1..W(c) : k = at[c] + j
        /\ \A b, c \in 1..n : b < c => at[b] + W(b) <= at[c]
        /\ all \in Seq(Part)
    BY DEF InCandidateOrder
  <1> HIDE DEF W, n
  <1>3. ASSUME NEW k \in 1..Len(all)
        PROVE  /\ all[k].source \in 1..n
               /\ all[k].dimension = candidates[all[k].source].dimension
               /\ all[k].text = "text"
    <2>1. PICK c \in 1..n : \E j \in 1..W(c) : k = at[c] + j
      BY <1>2
    <2>2. all[k].source = c /\ all[k].dimension = candidates[c].dimension
      BY <1>2, <2>1
    <2>3. all[k] \in Part
      BY <1>2
    <2>. QED BY <2>2, <2>3 DEF Part
  <1>4. ASSUME NEW c \in 1..n, NEW k \in 1..Len(all), all[k].source = c
        PROVE  k \in (at[c] + 1)..(at[c] + W(c))
    <2>1. PICK b \in 1..n : \E j \in 1..W(b) : k = at[b] + j
      BY <1>2
    <2>2. PICK j \in 1..W(b) : k = at[b] + j
      BY <2>1
    <2>3. b = c
      BY <1>2, <1>4, <2>2
    <2>. QED BY <1>1, <2>2, <2>3
  <1>5. ASSUME NEW c \in 1..n
        PROVE  /\ IsFiniteSet({k \in 1..Len(all) : all[k].source = c})
               /\ Cardinality({k \in 1..Len(all) : all[k].source = c}) = W(c)
    <2>1. PICK a \in Int, b \in Int : a = at[c] + 1 /\ b = at[c] + W(c) /\ a <= b + 1
      <3>1. at[c] + 1 \in Int /\ at[c] + W(c) \in Int /\ at[c] + 1 <= at[c] + W(c) + 1
        BY <1>1
      <3>. QED BY <3>1
    <2>2. \A k \in a..b : k \in 1..Len(all) /\ all[k].source = c
      <3> SUFFICES ASSUME NEW k \in a..b PROVE k \in 1..Len(all) /\ all[k].source = c
        OBVIOUS
      <3>1. k - at[c] \in 1..W(c) /\ k = at[c] + (k - at[c])
        BY <1>1, <2>1
      <3>. QED BY <1>2, <3>1
    <2>3. {k \in 1..Len(all) : all[k].source = c} = a..b
      BY <1>4, <2>1, <2>2
    <2>4. IsFiniteSet(a..b) /\ Cardinality(a..b) = IF a > b THEN 0 ELSE b - a + 1
      BY FS_Interval
    <2>5. Cardinality(a..b) = W(c)
      <3>1. PICK w \in Nat, p \in Nat : w = W(c) /\ p = at[c]
        BY <1>1
      <3>2. (IF a > b THEN 0 ELSE b - a + 1) = w
        BY <2>1, <3>1
      <3>. QED BY <2>4, <3>1, <3>2
    <2>. QED BY <2>3, <2>4, <2>5
  <1>6. ASSUME NEW i \in 1..Len(all), NEW j \in 1..Len(all), i <= j
        PROVE  all[i].source <= all[j].source
    <2>1. PICK b \in 1..n, c \in 1..n : all[i].source = b /\ all[j].source = c
      BY <1>3
    <2>2. i <= at[b] + W(b) /\ at[c] + 1 <= j
      BY <1>1, <1>4, <2>1
    <2>3. ASSUME c < b PROVE FALSE
      <3>1. at[c] + W(c) <= at[b]
        BY <1>2, <2>3
      <3>2. at[b] + 1 <= i /\ j <= at[c] + W(c)
        BY <1>1, <1>4, <2>1
      <3>3. at[b] \in Nat /\ at[c] \in Nat /\ W(b) \in Nat /\ W(c) \in Nat /\ i \in Nat /\ j \in Nat
        BY <1>1
      <3>. QED BY <1>6, <3>1, <3>2, <3>3
    <2>4. b \in Int /\ c \in Int
      OBVIOUS
    <2>. QED BY <2>1, <2>3, <2>4
  <1>. QED BY <1>3, <1>5, <1>6 DEF n, W

\* The projection made from the weights alone is the number of questions there will be.
LEMMA ProjectionIsExact ==
  ASSUME Answered, NEW all, NEW at, InCandidateOrder(all, at)
  PROVE  ProjectedFinalQuestionCount(weights) = Len(all)
  <1> DEFINE m == Len(weights)
             Add(i, sum) == IF weights[i].weight > 0 THEN sum + weights[i].weight ELSE sum
             Keeps(f) == f = [i \in 0..m |-> IF i = 0 THEN 0
                                             ELSE IF weights[i].weight > 0 THEN f[i - 1] + weights[i].weight
                                             ELSE f[i - 1]]
             count == CHOOSE f : Keeps(f)
             first(i) == {k \in 1..Len(all) : \E j \in 1..i : all[k].source = weights[j].candidate}
             Counted(i) == IsFiniteSet(first(i)) /\ Cardinality(first(i)) = count[i]
             Fails == {i \in 0..m : ~Counted(i)}
  <1>1. /\ Distinct(weights, "candidate") /\ DOMAIN weights = 1..m /\ m \in Nat
        /\ \A i \in 1..m : /\ weights[i].candidate \in 1..Len(candidates)
                           /\ WeightOf(weights, weights[i].candidate) = weights[i].weight
                           /\ weights[i].weight \in Nat
        /\ \A c \in 1..Len(candidates) : \E i \in 1..m : weights[i].candidate = c
    BY CandidateWeights DEF Answered
  <1>2. Len(all) \in Nat
    BY DEF InCandidateOrder
  <1>3. /\ \A k \in 1..Len(all) : all[k].source \in 1..Len(candidates)
        /\ \A c \in 1..Len(candidates) :
             /\ IsFiniteSet({k \in 1..Len(all) : all[k].source = c})
             /\ Cardinality({k \in 1..Len(all) : all[k].source = c}) = WeightOf(weights, c)
    BY OrderFacts
  <1>4. ProjectedFinalQuestionCount(weights) = count[m]
    BY DEF ProjectedFinalQuestionCount
  <1>5. Keeps(count)
    <2> DEFINE step == [i \in 1..m |-> [sum \in Nat |-> Add(i, sum)]]
    <2>1. step \in [1..m -> [Nat -> Nat]] /\ \A i \in 1..m : \A sum \in Nat : step[i][sum] = Add(i, sum)
      BY <1>1
    <2> HIDE DEF step
    <2>2. PICK g \in [0..m -> Nat] : Iterates(g, 0, step, m)
      <3> HIDE DEF m
      <3>1. 0 \in Nat
        OBVIOUS
      <3>. QED BY <1>1, <2>1, <3>1, IterationExists
    <2>3. \A i \in 0..m : g[i] = IF i = 0 THEN 0
                                 ELSE IF weights[i].weight > 0 THEN g[i - 1] + weights[i].weight
                                 ELSE g[i - 1]
      <3>1. ASSUME NEW i \in 1..m PROVE g[i] = Add(i, g[i - 1])
        <4>1. i - 1 \in 0..m
          BY <1>1
        <4>. QED BY <2>1, <2>2, <4>1 DEF Iterates
      <3>2. g[0] = 0
        BY <2>2 DEF Iterates
      <3>3. \A i \in 0..m : i = 0 \/ i \in 1..m
        OBVIOUS
      <3>. QED BY <3>1, <3>2, <3>3
    <2>4. Keeps(g)
      <3>1. g = [i \in 0..m |-> g[i]]
        OBVIOUS
      <3>. QED BY <2>3, <3>1
    <2> HIDE DEF Keeps
    <2>. QED BY <2>4
  <1>6. count[0] = 0 /\ \A i \in 1..m : count[i] = Add(i, count[i - 1])
    <2>1. \A i \in 0..m : count[i] = IF i = 0 THEN 0
                                     ELSE IF weights[i].weight > 0 THEN count[i - 1] + weights[i].weight
                                     ELSE count[i - 1]
      BY <1>5
    <2> HIDE DEF count
    <2>2. \A i \in 1..m : i \in 0..m /\ i # 0
      OBVIOUS
    <2>. QED BY <1>1, <2>1, <2>2
  <1> HIDE DEF count
  <1>7. Counted(0)
    <2>1. first(0) = {}
      OBVIOUS
    <2>. QED BY <1>6, <2>1, FS_EmptySet
  <1>8. ASSUME NEW i \in 1..m, Counted(i - 1)
        PROVE  Counted(i)
    <2> DEFINE c == weights[i].candidate
               his == {k \in 1..Len(all) : all[k].source = c}
    <2>1. c \in 1..Len(candidates) /\ weights[i].weight \in Nat
      BY <1>1
    <2>2. IsFiniteSet(his) /\ Cardinality(his) = weights[i].weight
      BY <1>1, <1>3, <2>1
    <2>3. first(i) = first(i - 1) \cup his
      <3>1. \A j \in 1..i : j = i \/ j \in 1..(i - 1)
        OBVIOUS
      <3>2. i \in 1..i /\ \A j \in 1..(i - 1) : j \in 1..i
        OBVIOUS
      <3>. QED BY <3>1, <3>2
    <2>4. first(i - 1) \cap his = {}
      <3>1. ASSUME NEW j \in 1..(i - 1), weights[j].candidate = c PROVE FALSE
        <4>1. j \in 1..m /\ j # i
          OBVIOUS
        <4>. QED BY <1>1, <3>1, <4>1 DEF Distinct
      <3>. QED BY <3>1
    <2>5. IsFiniteSet(first(i - 1)) /\ Cardinality(first(i - 1)) = count[i - 1]
      BY <1>8
    <2> HIDE DEF first, his
    <2>6. /\ IsFiniteSet(first(i))
          /\ Cardinality(first(i)) = Cardinality(first(i - 1)) + Cardinality(his) - Cardinality({})
      BY <2>2, <2>3, <2>4, <2>5, FS_Union
    <2>7. Cardinality(first(i - 1)) \in Nat
      BY <2>5, FS_CardinalityType
    <2>8. Cardinality({}) = 0
      BY FS_EmptySet
    <2>9. count[i] = count[i - 1] + weights[i].weight
      BY <1>6, <2>1, <2>5, <2>7
    <2>10. Cardinality(first(i)) = count[i]
      BY <2>1, <2>2, <2>5, <2>6, <2>7, <2>8, <2>9
    <2>. QED BY <2>6, <2>10
  <1> HIDE DEF Counted
  <1>9. Fails = {}
    <2>1. SUFFICES ASSUME Fails # {} PROVE FALSE
      OBVIOUS
    <2>2. Fails \in SUBSET Nat
      BY <1>1
    <2>3. PICK i \in Fails : \A k \in Fails : i <= k
      <3> HIDE DEF Fails
      <3>. QED BY <2>1, <2>2, LeastNumber
    <2>4. i \in 0..m /\ ~Counted(i) /\ (i # 0 => i - 1 \in 0..m /\ Counted(i - 1))
      BY <1>1, <2>3
    <2>5. i # 0 => i \in 1..m
      BY <2>4
    <2>. QED BY <1>7, <1>8, <2>4, <2>5
  <1>10. Counted(m)
    BY <1>1, <1>9
  <1>11. first(m) = 1..Len(all)
    BY <1>1, <1>3
  <1>12. Cardinality(1..Len(all)) = Len(all)
    <2>1. Cardinality(1..Len(all)) = IF 1 > Len(all) THEN 0 ELSE Len(all) - 1 + 1
      BY <1>2, FS_Interval
    <2>. QED BY <1>2, <2>1
  <1>. QED BY <1>4, <1>10, <1>11, <1>12 DEF Counted

\* Building fails on accepted answers only if they leave no question.
LEMMA BuildIs ==
  ASSUME Answered
  PROVE  LET final == Numbered(FinalParts(candidates, weights, splits)) IN
         /\ \/ /\ BuildFinalChecklist(dimensions, candidates, weights, splits, limits)
                     = [error |-> "none", questions |-> final]
               /\ ValidFinalQuestions(dimensions, candidates, final, limits)
            \/ /\ BuildFinalChecklist(dimensions, candidates, weights, splits, limits).error # "none"
               /\ \A i \in DOMAIN weights : weights[i].weight = 0
         /\ \E at : InCandidateOrder(FinalParts(candidates, weights, splits), at)
         /\ DOMAIN final = 1..Len(FinalParts(candidates, weights, splits))
         /\ \A i \in DOMAIN final : LET part == FinalParts(candidates, weights, splits)[i] IN
              /\ final[i].id = i /\ final[i].ordinal = i
              /\ final[i].source = part.source /\ final[i].dimension = part.dimension
  <1>1. /\ LimitsOK /\ DimensionsAre(dimensions) /\ CandidatesOf(candidates, Len(dimensions))
        /\ WeightsAre(weights) /\ DOMAIN splits = ToSplit(weights)
        /\ \A k \in DOMAIN splits : Split(k)
    BY DEF Answered
  <1>2. PICK all, at : all = FinalParts(candidates, weights, splits) /\ InCandidateOrder(all, at)
    BY FinalPartsFacts
  <1>3. /\ all \in Seq(Part) /\ Len(all) \in Nat /\ DOMAIN all = 1..Len(all)
        /\ all = [k \in 1..Len(all) |-> all[k]]
    BY <1>2 DEF InCandidateOrder
  <1> DEFINE final == Numbered(all)
  <1>4. /\ DOMAIN final = 1..Len(all) /\ Len(final) = Len(all)
        /\ \A i \in 1..Len(all) :
             /\ final[i].id = i /\ final[i].ordinal = i /\ final[i].text = all[i].text
             /\ final[i].source = all[i].source /\ final[i].dimension = all[i].dimension
    BY <1>3 DEF Numbered
  <1> HIDE DEF final
  <1>5. ValidDimensions(dimensions, limits) /\ Values(dimensions, "id") = 1..Len(dimensions)
    BY <1>1, DimensionsValid
  <1>6. /\ ValidCandidateQuestions(dimensions, candidates, limits)
        /\ DOMAIN candidates = 1..Len(candidates) /\ Values(candidates, "id") = 1..Len(candidates)
    BY <1>1, CandidatesValid
  <1>7. ValidWeights(candidates, weights, limits) /\ ValidProjection(weights, limits)
    BY <1>1 DEF WeightsAre
  <1>8. \A c \in 1..Len(candidates) :
          candidates[c].id = c /\ candidates[c].dimension \in 1..Len(dimensions) /\ c # 0
    BY <1>1 DEF CandidatesOf
  <1>9. SplitsAreComplete(candidates, weights, splits)
    <2>1. ASSUME NEW k \in DOMAIN splits
          PROVE  /\ splits[k].candidate = k /\ k \in Values(candidates, "id")
                 /\ ValidSplitQuestions(splits[k], WeightOf(weights, k))
      <3>1. k \in 1..Len(candidates) /\ WeightOf(weights, k) > 1 /\ Split(k)
        BY <1>1, <1>6, <1>8, <2>1 DEF ToSplit
      <3>2. PICK w \in Nat : w = WeightOf(weights, k)
        BY <3>1, PartsFacts
      <3>3. splits[k].candidate = k /\ splits[k].questions \in [1..w -> {"text"}]
        BY <3>1, <3>2 DEF Split, Filled
      <3>4. Len(splits[k].questions) = w /\ DOMAIN splits[k].questions = 1..w
        BY <3>3
      <3>5. \A i \in 1..w : splits[k].questions[i] # Blank
        BY <3>3 DEF Blank
      <3>6. k # 0
        BY <3>1
      <3>. QED BY <1>6, <3>1, <3>2, <3>3, <3>4, <3>5, <3>6 DEF ValidSplitQuestions
    <2>2. Distinct(splits, "candidate")
      BY <2>1 DEF Distinct
    <2>3. ValidSplits(candidates, weights, splits)
      BY <2>1, <2>2 DEF ValidSplits
    <2>4. ASSUME NEW i \in DOMAIN candidates, WeightOf(weights, candidates[i].id) > 1
          PROVE  candidates[i].id \in Values(splits, "candidate")
      <3>1. i \in DOMAIN splits /\ candidates[i].id = i
        BY <1>1, <1>6, <1>8, <2>4 DEF ToSplit
      <3>. QED BY <2>1, <3>1 DEF Values
    <2>. QED BY <2>3, <2>4 DEF SplitsAreComplete
  <1>10. /\ \A k \in 1..Len(all) : /\ all[k].source \in 1..Len(candidates)
                                   /\ all[k].dimension = candidates[all[k].source].dimension
                                   /\ all[k].text = "text"
    BY <1>2, OrderFacts
  <1>11. Len(all) <= limits.maxFinal
    <2>1. ProjectedFinalQuestionCount(weights) = Len(all)
      BY <1>2, ProjectionIsExact
    <2>. QED BY <1>1, <1>7, <2>1, LimitsGood DEF ValidProjection
  <1>12. ASSUME Len(all) # 0
         PROVE  ValidFinalQuestions(dimensions, candidates, final, limits)
    <2>1. Len(final) \in 1..WithDefaults(limits).maxFinal
      <3>1. Len(all) \in 1..limits.maxFinal /\ WithDefaults(limits) = limits
        BY <1>1, <1>3, <1>11, <1>12, LimitsGood
      <3>. QED BY <1>4, <3>1
    <2>2. Distinct(final, "id") /\ Distinct(final, "ordinal")
      BY <1>4 DEF Distinct
    <2>3. ASSUME NEW i \in 1..Len(all)
          PROVE  /\ final[i].id # 0 /\ final[i].ordinal > 0 /\ final[i].text # Blank
                 /\ final[i].dimension \in 1..Len(dimensions)
                 /\ \E j \in DOMAIN candidates :
                      candidates[j].id = final[i].source /\ candidates[j].dimension = final[i].dimension
      <3>1. final[i].id = i /\ final[i].ordinal = i /\ final[i].text = "text" /\ i \in Nat \ {0}
        BY <1>4, <1>10
      <3>2. PICK c \in 1..Len(candidates) : final[i].source = c /\ final[i].dimension = candidates[c].dimension
        BY <1>4, <1>10
      <3>. QED BY <1>6, <1>8, <3>1, <3>2 DEF Blank
    <2>. QED BY <1>4, <1>5, <2>1, <2>2, <2>3 DEF ValidFinalQuestions
  <1>13. ASSUME Len(all) = 0, NEW i \in DOMAIN weights
         PROVE  weights[i].weight = 0
    <2>1. PICK c \in 1..Len(candidates) : c = weights[i].candidate /\ WeightOf(weights, c) = weights[i].weight
      BY <1>1, CandidateWeights
    <2>2. PICK w \in Nat : w = WeightOf(weights, c)
      BY PartsFacts
    <2>3. ASSUME 1 \in 1..w PROVE FALSE
      <3>1. at[c] + 1 \in 1..Len(all)
        BY <1>2, <2>2, <2>3 DEF InCandidateOrder
      <3>. QED BY <1>13, <3>1
    <2>. QED BY <2>1, <2>2, <2>3
  <1>14. CASE Len(all) # 0
    <2>1. BuildFinalChecklist(dimensions, candidates, weights, splits, limits)
            = [error |-> "none", questions |-> final]
      BY <1>2, <1>5, <1>6, <1>7, <1>9, <1>12, <1>14 DEF BuildFinalChecklist, final
    <2>. QED BY <1>2, <1>4, <1>12, <1>14, <2>1 DEF final
  <1>15. CASE Len(all) = 0
    <2>1. Len(final) \notin 1..WithDefaults(limits).maxFinal
      BY <1>4, <1>15
    <2>2. ~ValidFinalQuestions(dimensions, candidates, final, limits)
      BY <2>1 DEF ValidFinalQuestions
    <2>3. BuildFinalChecklist(dimensions, candidates, weights, splits, limits)
            = BuildError("invalid_final_checklist")
      BY <1>2, <1>5, <1>6, <1>7, <1>9, <2>2 DEF BuildFinalChecklist, final
    <2>4. BuildError("invalid_final_checklist").error # "none"
      BY DEF BuildError
    <2>. QED BY <1>2, <1>4, <1>13, <1>15, <2>3, <2>4 DEF final
  <1>. QED BY <1>14, <1>15

------------------------------------------------------------------------------
(* The invariant. *)

\* What a step that leaves the variables alone leaves true.
LEMMA Frames ==
  /\ LimitsOK /\ UNCHANGED limits => LimitsOK'
  /\ DimensionsAre(dimensions) /\ UNCHANGED <<limits, dimensions>> => DimensionsAre(dimensions)'
  /\ CandidatesOf(candidates, Len(dimensions)) /\ UNCHANGED <<limits, dimensions, candidates>>
       => CandidatesOf(candidates, Len(dimensions))'
  /\ CandidatesAreNumbered /\ UNCHANGED candidates => CandidatesAreNumbered'
  /\ WeightsAre(weights) /\ UNCHANGED <<limits, candidates, weights>> => WeightsAre(weights)'
  <1>1. LimitsOK /\ UNCHANGED limits => LimitsOK'
    BY DEF LimitsOK
  <1>2. DimensionsAre(dimensions) /\ UNCHANGED <<limits, dimensions>> => DimensionsAre(dimensions)'
    BY DEF DimensionsAre
  <1>3. CandidatesOf(candidates, Len(dimensions)) /\ UNCHANGED <<limits, dimensions, candidates>>
          => CandidatesOf(candidates, Len(dimensions))'
    BY DEF CandidatesOf
  <1>4. CandidatesAreNumbered /\ UNCHANGED candidates => CandidatesAreNumbered'
    BY DEF CandidatesAreNumbered
  <1>5. WeightsAre(weights) /\ UNCHANGED <<limits, candidates, weights>> => WeightsAre(weights)'
    BY DEF WeightsAre
  <1>. QED BY <1>1, <1>2, <1>3, <1>4, <1>5

\* A list with texts is not the mark of a missing answer.
LEMMA FilledIsNotPending ==
  ASSUME NEW n \in Nat
  PROVE  ~Filled(Pending, n)
  <1>1. SUFFICES ASSUME Pending \in [1..n -> {"text"}] PROVE FALSE
    BY DEF Filled
  <1>2. 1 \in DOMAIN Pending /\ Pending[1] = "pending"
    BY DEF Pending
  <1>. QED BY <1>1, <1>2

\* Nothing is there yet and the limits are the defaults.
LEMMA PipelineInvInit == PipelineInit => PipelineInv
  <1> SUFFICES ASSUME PipelineInit PROVE PipelineInv
    OBVIOUS
  <1> USE DEF PipelineInit
  <1>1. stage \in Stages /\ env \in Environments /\ LimitsAgree
    BY DEF Stages, LimitsAgree
  <1>2. LimitsOK
    BY LimitNames DEF LimitsOK, Defaults
  <1>3. DimensionsOK /\ DraftsOK /\ CandidatesOK /\ WeightsOK /\ SplitsOK /\ BuiltOK
    BY DEF DimensionsOK, DraftsOK, CandidatesOK, WeightsOK, SplitsOK, BuiltOK,
           Dimensioned, Gathered, Weighted
  <1>4. CandidatesAreNumbered
    BY DEF CandidatesAreNumbered
  <1>. QED BY <1>1, <1>2, <1>3, <1>4 DEF PipelineInv

\* A refused answer ends the run and disturbs nothing.
LEMMA FailStep ==
  ASSUME PipelineInv, Fail
  PROVE  PipelineInv'
  <1>1. stage' = "failed" /\ UNCHANGED <<env, limits, candidates>>
    BY DEF Fail, data
  <1>2. LimitsOK' /\ CandidatesAreNumbered'
    BY <1>1, Frames DEF PipelineInv
  <1>3. (stage \in Stages)' /\ (env \in Environments)' /\ LimitsAgree'
    BY <1>1 DEF PipelineInv, Stages, LimitsAgree
  <1>4. DimensionsOK' /\ DraftsOK' /\ CandidatesOK' /\ WeightsOK' /\ SplitsOK' /\ BuiltOK'
    BY <1>1 DEF DimensionsOK, DraftsOK, CandidatesOK, WeightsOK, SplitsOK, BuiltOK,
                Dimensioned, Gathered, Weighted
  <1>. QED BY <1>2, <1>3, <1>4 DEF PipelineInv

\* The limits a process serves under are positive, and a split has at most four parts.
LEMMA ConfigureStep ==
  ASSUME PipelineInv, Configure
  PROVE  PipelineInv'
  <1>1. /\ stage' \in {"validate_limits", "exited"} /\ UNCHANGED <<env, candidates>>
        /\ (LimitsLoad(env) /\ limits' = ConfiguredLimits(env)) \/ UNCHANGED limits
    BY DEF Configure, data
  <1>2. env \in Environments /\ LimitsOK
    BY DEF PipelineInv
  <1>3. LimitsOK'
    <2>1. CASE LimitsLoad(env) /\ limits' = ConfiguredLimits(env)
      BY <1>2, <2>1, ConfiguredLimitsGood DEF LimitsOK
    <2>2. CASE UNCHANGED limits
      BY <1>2, <2>2, Frames
    <2>. QED BY <1>1, <2>1, <2>2
  <1>4. CandidatesAreNumbered'
    BY <1>1, Frames DEF PipelineInv
  <1>5. (stage \in Stages)' /\ (env \in Environments)' /\ LimitsAgree'
    BY <1>1, <1>2 DEF Stages, LimitsAgree
  <1>6. DimensionsOK' /\ DraftsOK' /\ CandidatesOK' /\ WeightsOK' /\ SplitsOK' /\ BuiltOK'
    BY <1>1 DEF DimensionsOK, DraftsOK, CandidatesOK, WeightsOK, SplitsOK, BuiltOK,
                Dimensioned, Gathered, Weighted
  <1>. QED BY <1>3, <1>4, <1>5, <1>6 DEF PipelineInv

\* The workflow's own check of the limits never refuses them.
LEMMA ValidateLimitsStep ==
  ASSUME PipelineInv, ValidateLimits
  PROVE  PipelineInv'
  <1>1. UNCHANGED <<env, limits, candidates>>
    BY DEF ValidateLimits, data
  <1>2. stage' = "dimension_analysis"
    BY LimitsGood DEF PipelineInv, ValidateLimits
  <1>3. LimitsOK' /\ CandidatesAreNumbered'
    BY <1>1, Frames DEF PipelineInv
  <1>4. (stage \in Stages)' /\ (env \in Environments)' /\ LimitsAgree'
    BY <1>1, <1>2 DEF PipelineInv, Stages, LimitsAgree
  <1>5. DimensionsOK' /\ DraftsOK' /\ CandidatesOK' /\ WeightsOK' /\ SplitsOK' /\ BuiltOK'
    BY <1>2 DEF DimensionsOK, DraftsOK, CandidatesOK, WeightsOK, SplitsOK, BuiltOK,
                Dimensioned, Gathered, Weighted
  <1>. QED BY <1>3, <1>4, <1>5 DEF PipelineInv

\* Accepted dimensions are numbered from 1 and within the limit.
LEMMA AnalyzeDimensionsStep ==
  ASSUME PipelineInv, AnalyzeDimensions
  PROVE  PipelineInv'
  <1>1. PICK answer \in Lists :
          \/ /\ AcceptsDimensions(answer)
             /\ stage' = "question_generation"
             /\ dimensions' = AssignDimensionIDs(answer)
             /\ drafts' = [i \in DOMAIN AssignDimensionIDs(answer) |-> Pending]
             /\ UNCHANGED <<env, limits, candidates>>
          \/ Fail
    BY DEF AnalyzeDimensions
  <1>2. CASE Fail
    BY <1>2, FailStep
  <1>3. CASE /\ AcceptsDimensions(answer)
             /\ stage' = "question_generation"
             /\ dimensions' = AssignDimensionIDs(answer)
             /\ drafts' = [i \in DOMAIN AssignDimensionIDs(answer) |-> Pending]
             /\ UNCHANGED <<env, limits, candidates>>
    <2>1. LimitsOK' /\ CandidatesAreNumbered' /\ LimitsOK
      BY <1>3, Frames DEF PipelineInv
    <2>2. (stage \in Stages)' /\ (env \in Environments)' /\ LimitsAgree'
      BY <1>3 DEF PipelineInv, Stages, LimitsAgree, Dimensioned
    <2>3. DimensionsAre(AssignDimensionIDs(answer))
      <3>1. Len(answer) \in 1..limits.maxDimensions /\ NotBlank(answer)
        BY <1>3, <2>1, TextsAgree
      <3>. QED BY <2>1, <3>1, AssignedDimensions
    <2>4. DimensionsAre(dimensions)'
      BY <1>3, <2>3 DEF DimensionsAre
    <2>5. DOMAIN drafts' = 1..Len(dimensions') /\ \A i \in 1..Len(dimensions') : drafts'[i] = Pending
      <3>1. DOMAIN AssignDimensionIDs(answer) = 1..Len(AssignDimensionIDs(answer))
        BY <2>3 DEF DimensionsAre
      <3>. QED BY <1>3, <3>1
    <2>6. DraftsOK'
      BY <2>5 DEF DraftsOK, DraftOK
    <2>7. DimensionsOK'
      BY <2>4 DEF DimensionsOK
    <2>8. CandidatesOK' /\ WeightsOK' /\ SplitsOK' /\ BuiltOK'
      BY <1>3 DEF CandidatesOK, WeightsOK, SplitsOK, BuiltOK, Gathered, Weighted
    <2>. QED BY <2>1, <2>2, <2>6, <2>7, <2>8 DEF PipelineInv
  <1>. QED BY <1>1, <1>2, <1>3

\* One more dimension has its questions.
LEMMA GenerateQuestionsStep ==
  ASSUME PipelineInv, GenerateQuestions
  PROVE  PipelineInv'
  <1>1. PICK i \in DOMAIN drafts, answer \in Lists :
          /\ stage = "question_generation"
          /\ \/ /\ AcceptsQuestions(answer)
                /\ drafts' = [drafts EXCEPT ![i] = answer]
                /\ UNCHANGED <<stage, env, limits, dimensions, candidates>>
             \/ Fail
    BY DEF GenerateQuestions
  <1>2. CASE Fail
    BY <1>2, FailStep
  <1>3. CASE /\ AcceptsQuestions(answer)
             /\ drafts' = [drafts EXCEPT ![i] = answer]
             /\ UNCHANGED <<stage, env, limits, dimensions, candidates>>
    <2>1. LimitsOK' /\ CandidatesAreNumbered' /\ LimitsOK
      BY <1>3, Frames DEF PipelineInv
    <2>2. (stage \in Stages)' /\ (env \in Environments)' /\ LimitsAgree'
      BY <1>3 DEF PipelineInv, LimitsAgree
    <2>3. DimensionsAre(dimensions)'
      BY <1>1, <1>3, Frames DEF PipelineInv, DimensionsOK, Dimensioned
    <2>4. \E n \in 1..limits.maxCandidates : Filled(answer, n)
      BY <1>3, <2>1, TextsAgree, AnswerFacts
    <2>5. DOMAIN drafts = 1..Len(dimensions) /\ \A k \in 1..Len(dimensions) : DraftOK(drafts[k])
      BY <1>1 DEF PipelineInv, DraftsOK
    <2>6. DOMAIN drafts' = 1..Len(dimensions') /\ \A k \in 1..Len(dimensions') : DraftOK(drafts[k])'
      <3>1. ASSUME NEW k \in 1..Len(dimensions)
            PROVE  drafts'[k] = Pending \/ \E n \in 1..limits.maxCandidates : Filled(drafts'[k], n)
        <4>1. drafts'[k] = IF k = i THEN answer ELSE drafts[k]
          BY <1>3, <2>5
        <4>2. DraftOK(drafts[k])
          BY <2>5
        <4>. QED BY <2>4, <4>1, <4>2 DEF DraftOK
      <3>2. DOMAIN drafts' = DOMAIN drafts
        BY <1>3
      <3>. QED BY <1>3, <2>5, <3>1, <3>2 DEF DraftOK
    <2>7. DraftsOK' /\ DimensionsOK'
      BY <2>3, <2>6 DEF DraftsOK, DimensionsOK
    <2>8. CandidatesOK' /\ WeightsOK' /\ SplitsOK' /\ BuiltOK'
      BY <1>1, <1>3 DEF CandidatesOK, WeightsOK, SplitsOK, BuiltOK, Gathered, Weighted
    <2>. QED BY <2>1, <2>2, <2>7, <2>8 DEF PipelineInv
  <1>. QED BY <1>1, <1>2, <1>3

\* When every dimension has answered, in whatever order, the candidates collected pass
\* the workflow's check.
LEMMA CollectedOK ==
  ASSUME PipelineInv, stage = "question_generation", \A i \in DOMAIN drafts : drafts[i] # Pending
  PROVE  /\ LimitsOK /\ DimensionsAre(dimensions)
         /\ CandidatesOf(Collected, Len(dimensions))
         /\ ValidCandidateQuestions(dimensions, Collected, limits)
  <1>1. LimitsOK /\ DimensionsAre(dimensions)
    BY DEF PipelineInv, DimensionsOK, Dimensioned
  <1>2. \A i \in 1..Len(dimensions) : \E n \in 1..limits.maxCandidates : Filled(drafts[i], n)
    BY DEF PipelineInv, DraftsOK, DraftOK
  <1>3. CandidatesOf(Collected, Len(dimensions))
    BY <1>1, <1>2, CollectedFacts
  <1>. QED BY <1>1, <1>3, CandidatesValid

\* Collecting numbers the candidates.
LEMMA CollectCandidatesStep ==
  ASSUME PipelineInv, CollectCandidates
  PROVE  PipelineInv'
  <1>1. /\ stage = "question_generation" /\ \A i \in DOMAIN drafts : drafts[i] # Pending
        /\ \/ /\ stage' = "weight_assignment" /\ candidates' = Collected
              /\ UNCHANGED <<env, limits, dimensions>>
           \/ Fail
    BY DEF CollectCandidates
  <1>2. CASE Fail
    BY <1>2, FailStep
  <1>3. CASE /\ stage' = "weight_assignment" /\ candidates' = Collected
             /\ UNCHANGED <<env, limits, dimensions>>
    <2>1. /\ LimitsOK /\ DimensionsAre(dimensions)
          /\ CandidatesOf(Collected, Len(dimensions))
      BY <1>1, CollectedOK
    <2>2. LimitsOK' /\ DimensionsAre(dimensions)'
      BY <1>3, <2>1, Frames
    <2>3. (stage \in Stages)' /\ (env \in Environments)' /\ LimitsAgree'
      BY <1>3 DEF PipelineInv, Stages, LimitsAgree, Dimensioned, Gathered
    <2>4. PICK cs : cs = Collected /\ CandidatesOf(cs, Len(dimensions))
      BY <2>1
    <2>5. CandidatesOf(candidates, Len(dimensions))'
      BY <1>3, <2>4 DEF CandidatesOf
    <2>6. CandidatesAreNumbered'
      <3>1. DOMAIN cs = 1..Len(cs)
        BY <2>4 DEF CandidatesOf
      <3>. QED BY <1>3, <2>4, <3>1 DEF CandidatesOf, CandidatesAreNumbered
    <2>7. DimensionsOK' /\ CandidatesOK'
      BY <2>2, <2>5 DEF DimensionsOK, CandidatesOK
    <2>8. DraftsOK' /\ WeightsOK' /\ SplitsOK' /\ BuiltOK'
      BY <1>3 DEF DraftsOK, WeightsOK, SplitsOK, BuiltOK, Weighted
    <2>. QED BY <2>2, <2>3, <2>6, <2>7, <2>8 DEF PipelineInv
  <1>. QED BY <1>1, <1>2, <1>3

\* Accepted weights ask for the splits of the candidates that weigh more than 1.
LEMMA AssignWeightsStep ==
  ASSUME PipelineInv, AssignWeights
  PROVE  PipelineInv'
  <1>1. PICK ws \in WeightLists :
          /\ stage = "weight_assignment"
          /\ \/ /\ AcceptsWeights(ws) /\ ValidProjection(ws, limits)
                /\ stage' = "question_splitting" /\ weights' = ws
                /\ splits' = [k \in ToSplit(ws) |->
                                [candidate |-> candidates[k].id, questions |-> Pending]]
                /\ UNCHANGED <<env, limits, dimensions, candidates>>
             \/ Fail
    BY DEF AssignWeights
  <1>2. CASE Fail
    BY <1>2, FailStep
  <1>3. CASE /\ AcceptsWeights(ws) /\ ValidProjection(ws, limits)
             /\ stage' = "question_splitting" /\ weights' = ws
             /\ splits' = [k \in ToSplit(ws) |->
                             [candidate |-> candidates[k].id, questions |-> Pending]]
             /\ UNCHANGED <<env, limits, dimensions, candidates>>
    <2>1. LimitsOK /\ DimensionsAre(dimensions) /\ CandidatesOf(candidates, Len(dimensions))
      BY <1>1 DEF PipelineInv, DimensionsOK, CandidatesOK, Dimensioned, Gathered
    <2>2. /\ LimitsOK' /\ DimensionsAre(dimensions)' /\ CandidatesOf(candidates, Len(dimensions))'
          /\ CandidatesAreNumbered'
      BY <1>3, <2>1, Frames DEF PipelineInv
    <2>3. (stage \in Stages)' /\ (env \in Environments)' /\ LimitsAgree'
      BY <1>3 DEF PipelineInv, Stages, LimitsAgree, Dimensioned, Gathered, Weighted
    <2>4. WeightsAre(ws)
      <3>1. ws \in Seq(WeightType)
        BY <2>1, CandidatesValid, WeightListFacts
      <3>. QED BY <1>3, <3>1 DEF WeightsAre, AcceptsWeights
    <2>5. WeightsAre(weights)'
      BY <1>3, <2>4 DEF WeightsAre
    <2>6. \A k \in ToSplit(ws) : candidates[k].id = k
      BY DEF PipelineInv, CandidatesAreNumbered, ToSplit
    <2>7. DOMAIN splits' = ToSplit(ws) /\ ToSplit(weights)' = ToSplit(ws)
      BY <1>3 DEF ToSplit
    <2>8. \A k \in DOMAIN splits' : splits'[k] = [candidate |-> k, questions |-> Pending]
      BY <1>3, <2>6
    <2>9. SplitsOK'
      BY <1>3, <2>7, <2>8 DEF SplitsOK
    <2>10. DimensionsOK' /\ CandidatesOK' /\ WeightsOK'
      BY <2>2, <2>5 DEF DimensionsOK, CandidatesOK, WeightsOK
    <2>11. DraftsOK' /\ BuiltOK'
      BY <1>3 DEF DraftsOK, BuiltOK
    <2>. QED BY <2>2, <2>3, <2>9, <2>10, <2>11 DEF PipelineInv
  <1>. QED BY <1>1, <1>2, <1>3

\* While questions are split, everything else is there.
LEMMA SplittingFacts ==
  ASSUME PipelineInv, stage \in Weighted
  PROVE  /\ LimitsOK /\ DimensionsAre(dimensions) /\ CandidatesOf(candidates, Len(dimensions))
         /\ WeightsAre(weights) /\ DOMAIN splits = ToSplit(weights)
         /\ \A k \in DOMAIN splits :
              /\ k \in Nat \ {0} /\ splits[k].candidate = k
              /\ WeightOf(weights, k) \in Nat /\ WeightOf(weights, k) > 1
              /\ Split(k) \/ splits[k] = [candidate |-> k, questions |-> Pending]
              /\ Split(k) \/ stage = "question_splitting"
              /\ splits[k].questions # Pending => Split(k)
              /\ splits[k].questions = Pending => ~Split(k)
  <1>1. /\ LimitsOK /\ DimensionsAre(dimensions) /\ CandidatesOf(candidates, Len(dimensions))
        /\ WeightsAre(weights) /\ DOMAIN splits = ToSplit(weights)
    BY DEF PipelineInv, DimensionsOK, CandidatesOK, WeightsOK, SplitsOK, Dimensioned, Gathered
  <1>2. ASSUME NEW k \in DOMAIN splits
        PROVE  /\ k \in Nat \ {0} /\ splits[k].candidate = k
               /\ WeightOf(weights, k) \in Nat /\ WeightOf(weights, k) > 1
               /\ Split(k) \/ splits[k] = [candidate |-> k, questions |-> Pending]
               /\ Split(k) \/ stage = "question_splitting"
               /\ splits[k].questions # Pending => Split(k)
               /\ splits[k].questions = Pending => ~Split(k)
    <2>1. \/ Split(k)
          \/ splits[k] = [candidate |-> k, questions |-> Pending] /\ stage = "question_splitting"
      BY DEF PipelineInv, SplitsOK
    <2>2. k \in 1..Len(candidates) /\ candidates[k].id = k /\ Len(candidates) \in Nat
      <3>1. k \in DOMAIN candidates
        BY <1>1 DEF ToSplit
      <3>2. DOMAIN candidates = 1..Len(candidates) /\ Len(candidates) \in Nat
        BY <1>1, CandidatesValid
      <3>. QED BY <1>1, <3>1, <3>2 DEF CandidatesOf
    <2>3. WeightOf(weights, k) \in Nat
      BY <1>1, <2>2, CandidateWeights
    <2>4. WeightOf(weights, k) > 1
      BY <1>1, <2>2 DEF ToSplit
    <2>5. Split(k) => splits[k].questions # Pending /\ splits[k].candidate = k
      BY <2>3, FilledIsNotPending DEF Split
    <2>. QED BY <2>1, <2>2, <2>3, <2>4, <2>5
  <1>. QED BY <1>1, <1>2

\* One more split has as many questions as its candidate weighs.
LEMMA SplitQuestionStep ==
  ASSUME PipelineInv, SplitQuestion
  PROVE  PipelineInv'
  <1>1. PICK i \in DOMAIN splits, answer \in Lists :
          /\ stage = "question_splitting" /\ splits[i].questions = Pending
          /\ \/ /\ AcceptsSplit(splits[i].candidate, answer)
                /\ splits' = [splits EXCEPT ![i].questions = answer]
                /\ UNCHANGED <<stage, env, limits, dimensions, candidates, weights>>
             \/ Fail
    BY DEF SplitQuestion
  <1>2. CASE Fail
    BY <1>2, FailStep
  <1>3. CASE /\ AcceptsSplit(splits[i].candidate, answer)
             /\ splits' = [splits EXCEPT ![i].questions = answer]
             /\ UNCHANGED <<stage, env, limits, dimensions, candidates, weights>>
    <2>1. /\ LimitsOK /\ DimensionsAre(dimensions) /\ CandidatesOf(candidates, Len(dimensions))
          /\ WeightsAre(weights) /\ DOMAIN splits = ToSplit(weights)
          /\ \A k \in DOMAIN splits :
               Split(k) \/ splits[k] = [candidate |-> k, questions |-> Pending]
          /\ splits[i] = [candidate |-> i, questions |-> Pending]
          /\ i \in Nat \ {0} /\ WeightOf(weights, i) \in Nat /\ WeightOf(weights, i) > 1
      BY <1>1, SplittingFacts DEF Weighted
    <2>2. /\ LimitsOK' /\ DimensionsAre(dimensions)' /\ CandidatesOf(candidates, Len(dimensions))'
          /\ CandidatesAreNumbered' /\ WeightsAre(weights)'
      BY <1>3, <2>1, Frames DEF PipelineInv
    <2>3. (stage \in Stages)' /\ (env \in Environments)' /\ LimitsAgree'
      BY <1>3 DEF PipelineInv, LimitsAgree
    <2>4. Filled(answer, WeightOf(weights, i))
      <3>1. AcceptsSplit(i, answer)
        BY <1>3, <2>1
      <3>2. Len(answer) = WeightOf(weights, i) /\ NotBlank(answer)
        BY <2>1, <3>1, SplitsAgree
      <3>. QED BY <3>2, AnswerFacts
    <2>5. DOMAIN splits' = DOMAIN splits /\ ToSplit(weights)' = ToSplit(weights)
      BY <1>3 DEF ToSplit
    <2>6. ASSUME NEW k \in DOMAIN splits
          PROVE  \/ Split(k)'
                 \/ splits'[k] = [candidate |-> k, questions |-> Pending]
      <3>1. CASE k = i
        <4>1. splits'[k] = [splits[i] EXCEPT !.questions = answer]
          BY <1>3, <3>1
        <4>2. splits'[k].candidate = k /\ splits'[k].questions = answer
          BY <2>1, <3>1, <4>1
        <4>. QED BY <1>3, <2>4, <3>1, <4>2 DEF Split
      <3>2. CASE k # i
        <4>1. splits'[k] = splits[k]
          BY <1>3, <3>2
        <4>. QED BY <1>3, <2>1, <4>1 DEF Split
      <3>. QED BY <3>1, <3>2
    <2>7. SplitsOK'
      BY <1>1, <1>3, <2>1, <2>5, <2>6 DEF SplitsOK
    <2>8. DimensionsOK' /\ CandidatesOK' /\ WeightsOK'
      BY <2>2 DEF DimensionsOK, CandidatesOK, WeightsOK
    <2>9. DraftsOK' /\ BuiltOK'
      BY <1>1, <1>3 DEF DraftsOK, BuiltOK
    <2>. QED BY <2>2, <2>3, <2>7, <2>8, <2>9 DEF PipelineInv
  <1>. QED BY <1>1, <1>2, <1>3

\* Building changes nothing it read.
LEMMA BuildStep ==
  ASSUME PipelineInv, Build
  PROVE  PipelineInv'
  <1>1. /\ stage = "question_splitting" /\ \A k \in DOMAIN splits : splits[k].questions # Pending
        /\ built' = BuildFinalChecklist(dimensions, candidates, weights, splits, limits)
        /\ stage' = IF built'.error = "none" THEN "succeed_checklist" ELSE "build_failed"
        /\ UNCHANGED <<env, limits, dimensions, drafts, candidates, weights, splits>>
    BY DEF Build
  <1>2. /\ LimitsOK /\ DimensionsAre(dimensions) /\ CandidatesOf(candidates, Len(dimensions))
        /\ WeightsAre(weights) /\ DOMAIN splits = ToSplit(weights)
        /\ \A k \in DOMAIN splits : Split(k)
    BY <1>1, SplittingFacts DEF Weighted
  <1>3. /\ LimitsOK' /\ DimensionsAre(dimensions)' /\ CandidatesOf(candidates, Len(dimensions))'
        /\ CandidatesAreNumbered' /\ WeightsAre(weights)'
    BY <1>1, <1>2, Frames DEF PipelineInv
  <1>4. (stage \in Stages)' /\ (env \in Environments)' /\ LimitsAgree'
    BY <1>1 DEF PipelineInv, Stages, Dimensioned, Gathered, Weighted, LimitsAgree
  <1>5. SplitsOK'
    BY <1>1, <1>2 DEF SplitsOK, Split, ToSplit
  <1>6. BuiltOK'
    BY <1>1 DEF BuiltOK
  <1>7. DraftsOK'
    BY <1>1 DEF DraftsOK
  <1>8. DimensionsOK' /\ CandidatesOK' /\ WeightsOK'
    BY <1>3 DEF DimensionsOK, CandidatesOK, WeightsOK
  <1>. QED BY <1>3, <1>4, <1>5, <1>6, <1>7, <1>8 DEF PipelineInv

\* Every step of the pipeline keeps the invariant.
LEMMA PipelineInvStep == PipelineInv /\ [PipelineNext]_pipelineVars => PipelineInv'
  <1> SUFFICES ASSUME PipelineInv, [PipelineNext]_pipelineVars PROVE PipelineInv'
    OBVIOUS
  <1>1. CASE UNCHANGED pipelineVars
    <2>1. UNCHANGED <<stage, env, limits, dimensions, drafts, candidates, weights, splits, built>>
      BY <1>1 DEF pipelineVars, data
    <2>2. /\ LimitsOK' /\ CandidatesAreNumbered'
          /\ (stage \in Stages)' /\ (env \in Environments)' /\ LimitsAgree'
      BY <2>1, Frames DEF PipelineInv, LimitsAgree
    <2>3. DimensionsOK' /\ CandidatesOK' /\ WeightsOK'
      BY <2>1, Frames DEF PipelineInv, DimensionsOK, CandidatesOK, WeightsOK
    <2>4. DraftsOK'
      BY <2>1 DEF PipelineInv, DraftsOK, DraftOK
    <2>5. SplitsOK'
      BY <2>1 DEF PipelineInv, SplitsOK, Split, ToSplit
    <2>6. BuiltOK'
      BY <2>1 DEF PipelineInv, BuiltOK
    <2>. QED BY <2>2, <2>3, <2>4, <2>5, <2>6 DEF PipelineInv
  <1>. QED BY <1>1, ConfigureStep, ValidateLimitsStep, AnalyzeDimensionsStep, GenerateQuestionsStep,
              CollectCandidatesStep, AssignWeightsStep, SplitQuestionStep, BuildStep
           DEF PipelineNext

\* The inductive invariant: what each stage of CreateChecklistWorkflow hands to the next.
THEOREM PipelineInvariant == PipelineSpec => []PipelineInv
  BY PipelineInvInit, PipelineInvStep, PTL DEF PipelineSpec

\* The loop over the futures numbers the candidates of all dimensions in their order, in
\* whatever order the activities answered.
THEOREM PipelineCandidatesAreNumbered == PipelineSpec => []CandidatesAreNumbered
  <1>1. PipelineInv => CandidatesAreNumbered
    BY DEF PipelineInv
  <1>. QED BY <1>1, PipelineInvariant, PTL

\* Build found everything it needs.
LEMMA BuiltFacts ==
  ASSUME PipelineInv, stage \in {"succeed_checklist", "build_failed"}
  PROVE  /\ Answered
         /\ built = BuildFinalChecklist(dimensions, candidates, weights, splits, limits)
         /\ (stage = "succeed_checklist") <=> (built.error = "none")
  <1>1. Answered
    BY SplittingFacts DEF Answered, Weighted
  <1>. QED BY <1>1 DEF PipelineInv, BuiltOK

\* What a checklist that was built is like.
LEMMA SucceededFacts ==
  ASSUME PipelineInv, stage = "succeed_checklist"
  PROVE  FinalQuestionsMatchWeights /\ ValidFinalQuestions(dimensions, candidates, built.questions, limits)
  <1> DEFINE all == FinalParts(candidates, weights, splits)
             final == built.questions
  <1>1. Answered /\ built = BuildFinalChecklist(dimensions, candidates, weights, splits, limits)
        /\ built.error = "none"
    BY BuiltFacts
  <1>2. /\ final = Numbered(all) /\ ValidFinalQuestions(dimensions, candidates, Numbered(all), limits)
        /\ \E at : InCandidateOrder(all, at)
        /\ DOMAIN Numbered(all) = 1..Len(all)
        /\ \A i \in DOMAIN Numbered(all) :
             /\ Numbered(all)[i].id = i /\ Numbered(all)[i].ordinal = i
             /\ Numbered(all)[i].source = all[i].source /\ Numbered(all)[i].dimension = all[i].dimension
    BY <1>1, BuildIs
  <1>3. /\ DOMAIN candidates = 1..Len(candidates)
        /\ \A c \in 1..Len(candidates) : candidates[c].id = c
    BY <1>1, CandidatesValid DEF Answered, CandidatesOf
  <1> HIDE DEF all
  <1>4. PICK at : InCandidateOrder(all, at)
    BY <1>2
  <1>5. /\ \A k \in 1..Len(all) : /\ all[k].source \in 1..Len(candidates)
                                  /\ all[k].dimension = candidates[all[k].source].dimension
        /\ \A c \in 1..Len(candidates) :
             Cardinality({k \in 1..Len(all) : all[k].source = c}) = WeightOf(weights, c)
        /\ \A i, j \in 1..Len(all) : i <= j => all[i].source <= all[j].source
    BY <1>1, <1>4, OrderFacts
  <1> HIDE DEF final
  <1>6. /\ DOMAIN final = 1..Len(all)
        /\ \A i \in 1..Len(all) :
             /\ final[i].id = i /\ final[i].ordinal = i
             /\ final[i].source = all[i].source /\ final[i].dimension = all[i].dimension
    BY <1>2
  <1>7. \A c \in 1..Len(candidates) :
          Cardinality({i \in DOMAIN final : final[i].source = c}) = WeightOf(weights, c)
    <2>1. \A c : {i \in DOMAIN final : final[i].source = c} = {k \in 1..Len(all) : all[k].source = c}
      BY <1>6
    <2>. QED BY <1>5, <2>1
  <1>8. FinalQuestionsMatchWeights
    BY <1>3, <1>5, <1>6, <1>7 DEF FinalQuestionsMatchWeights, final
  <1>. QED BY <1>2, <1>8 DEF final

\* BuildFinalChecklist gives each candidate as many questions as its weight, in candidate
\* order and numbered without a gap.
THEOREM PipelineFinalQuestionsMatchWeights == PipelineSpec => []FinalQuestionsMatchWeights
  <1>1. PipelineInv => FinalQuestionsMatchWeights
    <2>1. stage # "succeed_checklist" => FinalQuestionsMatchWeights
      BY DEF FinalQuestionsMatchWeights
    <2>. QED BY <2>1, SucceededFacts
  <1>. QED BY <1>1, PipelineInvariant, PTL

\* On answers the activities accepted, BuildFinalChecklist returns an error only where the
\* weights leave no question.
THEOREM PipelineBuildFailsOnlyWhenAllAreZero == PipelineSpec => []BuildFailsOnlyWhenAllAreZero
  <1>1. PipelineInv => BuildFailsOnlyWhenAllAreZero
    <2>1. ASSUME PipelineInv, stage = "build_failed"
          PROVE  \A i \in DOMAIN weights : weights[i].weight = 0
      <3>1. /\ Answered /\ built.error # "none"
            /\ built = BuildFinalChecklist(dimensions, candidates, weights, splits, limits)
        BY <2>1, BuiltFacts
      <3>. QED BY <3>1, BuildIs
    <2>. QED BY <2>1 DEF BuildFailsOnlyWhenAllAreZero
  <1>. QED BY <1>1, PipelineInvariant, PTL

\* The count the workflow projects from the weights, before a question is split, is the
\* number of questions that reach the store.
THEOREM PipelineProjectionIsExact ==
  PipelineSpec => [](stage = "succeed_checklist" =>
                       Len(built.questions) = ProjectedFinalQuestionCount(weights))
  <1>1. ASSUME PipelineInv, stage = "succeed_checklist"
        PROVE  Len(built.questions) = ProjectedFinalQuestionCount(weights)
    <2>1. /\ Answered /\ built.error = "none"
          /\ built = BuildFinalChecklist(dimensions, candidates, weights, splits, limits)
      BY <1>1, BuiltFacts
    <2>2. PICK all, at : all = FinalParts(candidates, weights, splits) /\ InCandidateOrder(all, at)
      BY <2>1, FinalPartsFacts
    <2>3. built.questions = Numbered(all)
      BY <2>1, <2>2, BuildIs
    <2>4. all \in Seq(Part)
      BY <2>2 DEF InCandidateOrder
    <2>5. Len(Numbered(all)) = Len(all)
      BY <2>4 DEF Numbered
    <2>6. ProjectedFinalQuestionCount(weights) = Len(all)
      BY <2>1, <2>2, ProjectionIsExact
    <2>. QED BY <2>3, <2>5, <2>6
  <1>2. PipelineInv => (stage = "succeed_checklist" =>
                          Len(built.questions) = ProjectedFinalQuestionCount(weights))
    BY <1>1
  <1>. QED BY <1>2, PipelineInvariant, PTL

\* The limits of the configuration, the schemas, the activities, the workflow and the store
\* agree: no check refuses what one before it let pass.
THEOREM PipelineChecksAgree == PipelineSpec => []ChecksAgree
  <1>1. PipelineInv => ChecksAgree
    <2> SUFFICES ASSUME PipelineInv PROVE ChecksAgree
      OBVIOUS
    <2>1. LimitsOK /\ LimitsAgree
      BY DEF PipelineInv
    <2>2. SchemasAgree
      <3>1. ASSUME stage = "weight_assignment", NEW ws \in WeightLists
            PROVE  AcceptsWeights(ws)
                     <=> /\ FitsWeights(ws, BuildWeightAssignmentRequest(candidates, limits))
                         /\ Values(ws, "candidate") = Values(candidates, "id")
        <4>1. DimensionsAre(dimensions) /\ CandidatesOf(candidates, Len(dimensions))
          BY <3>1 DEF PipelineInv, DimensionsOK, CandidatesOK, Dimensioned, Gathered
        <4>2. ws \in Seq(WeightType) /\ \A i \in 1..Len(ws) : ws[i].candidate # 0
          BY <2>1, <4>1, CandidatesValid, WeightListFacts
        <4>. QED BY <2>1, <4>1, <4>2, WeightsAgree
      <3>2. ASSUME stage = "question_splitting", NEW i \in DOMAIN splits, NEW answer \in Lists
            PROVE  AcceptsSplit(splits[i].candidate, answer)
                     <=> /\ Fits(answer, BuildQuestionSplittingRequest(
                                            WeightOf(weights, splits[i].candidate)))
                         /\ NotBlank(answer)
        <4>1. /\ i \in Nat \ {0} /\ splits[i].candidate = i
              /\ WeightOf(weights, i) \in Nat /\ WeightOf(weights, i) > 1
          BY <3>2, SplittingFacts DEF Weighted
        <4>. QED BY <4>1, SplitsAgree
      <3>3. ASSUME NEW answer \in Lists
            PROVE  /\ AcceptsDimensions(answer)
                        <=> Fits(answer, BuildDimensionAnalysisRequest(limits)) /\ NotBlank(answer)
                   /\ AcceptsQuestions(answer)
                        <=> Fits(answer, BuildQuestionGenerationRequest(limits)) /\ NotBlank(answer)
        BY <2>1, TextsAgree
      <3>. QED BY <3>1, <3>2, <3>3 DEF SchemasAgree
    <2>3. StagesAgree
      <3>1. ASSUME stage = "succeed_checklist"
            PROVE  /\ ValidLimits(limits)
                   /\ ValidDimensions(dimensions, limits)
                   /\ ValidCandidateQuestions(dimensions, candidates, limits)
                   /\ ValidWeights(candidates, weights, limits)
                   /\ ValidFinalQuestions(dimensions, candidates, built.questions, limits)
        <4>1. /\ LimitsOK /\ DimensionsAre(dimensions) /\ CandidatesOf(candidates, Len(dimensions))
              /\ WeightsAre(weights)
          BY <3>1, SplittingFacts DEF Weighted
        <4>. QED BY <3>1, <4>1, LimitsGood, DimensionsValid, CandidatesValid, SucceededFacts
                 DEF WeightsAre
      <3>. QED BY <3>1, CollectedOK DEF StagesAgree
    <2>. QED BY <2>1, <2>2, <2>3 DEF ChecksAgree
  <1>. QED BY <1>1, PipelineInvariant, PTL

------------------------------------------------------------------------------
(* LLMActivity: the invariant. *)

PartNames == {"request", "response"}

LocalType == [pc : {"call", "request", "response", "return", "failed", "succeeded"},
              kind : {r.kind : r \in Returns} \cup {"none", "semantic"},
              parts : SUBSET PartNames,
              references : SUBSET Keys,
              artifactError : BOOLEAN,
              whole : BOOLEAN]

Artifact == [part : PartNames, attempt : Attempts]

\* Of the task only the number of its attempt matters here.
TypeOK ==
  /\ local \in [Attempts -> LocalType]
  /\ artifacts \in [Keys -> Artifact \cup {Nothing}]
  /\ task["llm"].attempt \in 0..MaxAttempts
  /\ task["llm"].state = "scheduled" => task["llm"].attempt < MaxAttempts
  /\ DOMAIN task = {"llm"}
  /\ \A b \in bodies : b.task = "llm" /\ b.attempt \in Attempts

\* The parts whose turn to be stored has come and gone when a body is at pc.
StoredBy(pc) == CASE pc \in {"call", "request"} -> {}
                  [] pc = "response" -> {"request"}
                  [] OTHER -> PartNames

\* What attempt n has, and what is in Garage for it.
AttemptOK(n) ==
  /\ local[n].pc # "call" => "request" \in local[n].parts
  /\ \A key \in local[n].references :
       key[2] = n /\ artifacts[key] = [part |-> key[1], attempt |-> n]
  /\ ~local[n].artifactError =>
       {key[1] : key \in local[n].references} = local[n].parts \cap StoredBy(local[n].pc)
  /\ local[n].pc # "call" /\ local[n].kind = "none" => local[n].whole
  /\ local[n].pc = "succeeded" => local[n].kind = "none"

KeysOK == \A k \in Keys : artifacts[k] # Nothing => artifacts[k] = [part |-> k[1], attempt |-> k[2]]

ActivityInv == TypeOK /\ KeysOK /\ \A n \in Attempts : AttemptOK(n)

USE AttemptsAssumption, PiecesAssumption DEF Attempts

------------------------------------------------------------------------------
(* Decoding: what GenerateJSON returns. *)

EventTypes == {"delta", "arguments_done", "item_done", "other_item_done", "end", "failed", "garbled"}

Events == [type : EventTypes, text : Seq(Nat)]

\* An event that is no delta; those that end a stream have no text.
NoDelta(e) == e.type # "delta" /\ (e.type \in {"end", "failed", "garbled"} => e.text = <<>>)

\* A stream that starts with the first m deltas and has no other.
HasDeltas(s, m) ==
  /\ s \in Seq(Events) /\ m \in 0..Pieces /\ m <= Len(s)
  /\ \A k \in 1..m : s[k] = Deltas[k]
  /\ \A k \in (m + 1)..Len(s) : NoDelta(s[k])

\* An event is its type and its text.
LEMMA EventFacts ==
  ASSUME NEW type \in EventTypes, NEW text \in Seq(Nat)
  PROVE  /\ Event(type, text) \in Events
         /\ Event(type, text).type = type /\ Event(type, text).text = text
  BY DEF Event, Events

\* An event is made of its type and its text.
LEMMA EventIs == ASSUME NEW e \in Events PROVE e = Event(e.type, e.text)
  BY DEF Event, Events

\* The streams of a provider that finishes have all deltas first, or none.
LEMMA StreamHasDeltas ==
  ASSUME NEW s \in Streams
  PROVE  \E m \in 0..Pieces : HasDeltas(s, m)
  <1>1. Whole \in Seq(Nat)
    BY DEF Whole
  <1>2. Deltas \in Seq(Events) /\ Len(Deltas) = Pieces
    <2>1. \A i \in 1..Pieces : <<i>> \in Seq(Nat)
      OBVIOUS
    <2>2. \A i \in 1..Pieces : Event("delta", <<i>>) \in Events
      BY <2>1, EventFacts DEF EventTypes
    <2>3. Deltas \in [1..Pieces -> Events]
      BY <2>2 DEF Deltas
    <2>. QED BY <2>3
  <1>3. ASSUME NEW a \in Events, NEW b \in Events, NoDelta(a), NoDelta(b), s = Deltas \o <<a, b>>
        PROVE  HasDeltas(s, Pieces)
    BY <1>2, <1>3 DEF HasDeltas
  <1>4. ASSUME NEW a \in Events, NEW b \in Events, NoDelta(a), NoDelta(b), s = <<a, b>>
        PROVE  HasDeltas(s, 0)
    BY <1>4 DEF HasDeltas
  <1>5. /\ \A t \in {"arguments_done", "item_done", "other_item_done"} :
             Event(t, Whole) \in Events /\ NoDelta(Event(t, Whole))
        /\ Event("arguments_done", <<>>) \in Events /\ NoDelta(Event("arguments_done", <<>>))
        /\ End \in Events /\ NoDelta(End)
    <2>1. <<>> \in Seq(Nat)
      OBVIOUS
    <2>. QED BY <1>1, <2>1, EventFacts DEF EventTypes, NoDelta, End
  <1>. QED BY <1>3, <1>4, <1>5 DEF Streams

\* A stream that was cut short, and maybe failed, has lost deltas from the end only.
LEMMA CutHasDeltas ==
  ASSUME NEW s \in CutStreams
  PROVE  \E m \in 0..Pieces : HasDeltas(s, m)
  <1> DEFINE tails == {<<>>, <<Event("failed", <<>>)>>, <<Event("garbled", <<>>)>>}
  <1>0. PICK t \in Streams : \E n \in 0..Len(t) : \E tail \in tails : s = SubSeq(t, 1, n) \o tail
    BY DEF CutStreams
  <1>1. PICK n \in 0..Len(t) : \E tail \in tails : s = SubSeq(t, 1, n) \o tail
    BY <1>0
  <1>8. PICK tail \in tails : s = SubSeq(t, 1, n) \o tail
    BY <1>1
  <1>2. PICK m \in 0..Pieces : HasDeltas(t, m)
    BY StreamHasDeltas
  <1> DEFINE head == SubSeq(t, 1, n)
             k == IF n < m THEN n ELSE m
  <1>3. n \in Nat /\ head \in Seq(Events) /\ Len(head) = n /\ \A i \in 1..n : head[i] = t[i]
    BY <1>2 DEF HasDeltas
  <1>4. tail \in Seq(Events) /\ \A i \in 1..Len(tail) : NoDelta(tail[i])
    <2>1. <<>> \in Seq(Nat)
      OBVIOUS
    <2>2. CASE tail = <<>>
      BY <2>2
    <2>3. ASSUME NEW type \in {"failed", "garbled"}, tail = <<Event(type, <<>>)>>
          PROVE  tail \in Seq(Events) /\ \A i \in 1..Len(tail) : NoDelta(tail[i])
      <3>1. PICK a : a = Event(type, <<>>)
        OBVIOUS
      <3>2. a \in Events /\ NoDelta(a)
        <4>1. type \in EventTypes /\ type # "delta"
          BY DEF EventTypes
        <4>2. a \in Events /\ a.type = type /\ a.text = <<>>
          BY <2>1, <3>1, <4>1, EventFacts
        <4>. QED BY <4>1, <4>2 DEF NoDelta
      <3>3. tail = <<a>>
        BY <2>3, <3>1
      <3>. QED BY <3>2, <3>3
    <2>. QED BY <2>2, <2>3
  <1> HIDE DEF head
  <1>5. /\ s \in Seq(Events) /\ Len(s) = n + Len(tail)
        /\ \A i \in 1..n : s[i] = t[i]
        /\ \A i \in (n + 1)..Len(s) : s[i] = tail[i - n]
    BY <1>8, <1>3, <1>4 DEF head
  <1>6. \A i \in (k + 1)..Len(s) : NoDelta(s[i])
    BY <1>2, <1>3, <1>4, <1>5 DEF HasDeltas
  <1>7. HasDeltas(s, k)
    BY <1>2, <1>3, <1>4, <1>5, <1>6 DEF HasDeltas
  <1>. QED BY <1>7, <1>2

\* The deltas are the pieces of the output in order.
LEMMA DeltaFacts ==
  ASSUME NEW s, NEW m, HasDeltas(s, m), NEW k \in 1..m
  PROVE  s[k].type = "delta" /\ s[k].text = <<k>>
  <1>1. k \in 1..Pieces /\ s[k] = Deltas[k]
    BY DEF HasDeltas
  <1>. QED BY <1>1 DEF Deltas, Event

\* What readStructuredResponsesStream makes of a stream that does not fail: arguments that
\* came whole in one event, or the deltas.
LEMMA ContentFacts ==
  ASSUME NEW s, NEW m, HasDeltas(s, m), ~ReadStream(s).failed, ReadStream(s).content = Whole
  PROVE  \/ \E i \in DOMAIN s : s[i] \in {Event("arguments_done", Whole), Event("item_done", Whole)}
         \/ m = Pieces
  <1> DEFINE stops == {i \in DOMAIN s : Stops(s[i])}
             last == IF stops = {} THEN End ELSE s[Min(stops)]
             before == IF stops = {} THEN s ELSE SubSeq(s, 1, Min(stops) - 1)
             texts == [i \in DOMAIN before |-> IF before[i].type = "delta" THEN before[i].text ELSE <<>>]
  <1>0. s \in Seq(Events) /\ m \in 0..Pieces /\ m <= Len(s) /\ DOMAIN s = 1..Len(s)
    BY DEF HasDeltas
  <1>1. /\ last.type \notin {"failed", "garbled"}
        /\ Whole = IF last.text # <<>> THEN last.text ELSE FlattenSeq(texts)
    BY DEF ReadStream
  <1>2. stops # {} => Min(stops) \in stops
    <2>1. stops \in SUBSET Nat
      BY <1>0
    <2> HIDE DEF stops
    <2>2. stops # {} => \E i \in stops : \A j \in stops : i <= j
      BY <2>1, LeastNumber
    <2>. QED BY <2>2 DEF Min
  <1>3. CASE last.text # <<>>
    <2>1. stops # {}
      BY <1>3 DEF End, Event
    <2>2. PICK i \in DOMAIN s : i = Min(stops) /\ Stops(s[i]) /\ last = s[i]
      BY <1>2, <2>1
    <2> HIDE DEF stops, last
    <2>3. s[i] \in Events /\ s[i].text = Whole
      BY <1>0, <1>1, <1>3, <2>2
    <2>4. i \in (m + 1)..Len(s)
      <3>1. CASE i \in 1..m
        BY <2>2, <3>1, DeltaFacts DEF Stops
      <3>. QED BY <1>0, <3>1
    <2>5. s[i].type \in {"arguments_done", "item_done"}
      <3>1. s[i].type # "end"
        BY <1>3, <2>2, <2>4 DEF HasDeltas, NoDelta
      <3>. QED BY <1>1, <2>2, <3>1 DEF Stops
    <2>6. s[i] = Event(s[i].type, Whole)
      BY <2>3, EventIs
    <2>. QED BY <2>5, <2>6
  <1>4. CASE last.text = <<>>
    <2>1. \A k \in 1..m : s[k].type = "delta" /\ s[k].text = <<k>>
      BY DeltaFacts
    <2>2. \A k \in (m + 1)..Len(s) : s[k].type # "delta"
      BY DEF HasDeltas, NoDelta
    <2>3. PICK n \in Nat : /\ m <= n /\ n <= Len(s) /\ DOMAIN before = 1..n
                           /\ \A k \in 1..n : before[k] = s[k]
      <3>1. CASE stops = {}
        <4>1. before = s
          BY <3>1
        <4> HIDE DEF before, stops
        <4>2. Len(s) \in Nat /\ m <= Len(s) /\ Len(s) <= Len(s)
          BY <1>0
        <4>3. DOMAIN before = 1..Len(s) /\ \A k \in 1..Len(s) : before[k] = s[k]
          BY <1>0, <4>1
        <4>. QED BY <4>2, <4>3
      <3>2. CASE stops # {}
        <4>1. PICK p \in DOMAIN s : p = Min(stops) /\ Stops(s[p])
          BY <1>2, <3>2
        <4>2. before = SubSeq(s, 1, p - 1)
          BY <3>2, <4>1
        <4>3. p \in 1..Len(s) /\ p > m
          BY <1>0, <2>1, <4>1 DEF Stops
        <4> HIDE DEF before, stops
        <4>4. p - 1 \in Nat /\ m <= p - 1 /\ p - 1 <= Len(s)
          BY <1>0, <4>3
        <4>5. DOMAIN before = 1..(p - 1) /\ \A k \in 1..(p - 1) : before[k] = s[k]
          BY <1>0, <4>2, <4>3
        <4>. QED BY <4>4, <4>5
      <3>. QED BY <3>1, <3>2
    <2> HIDE DEF before, last, stops
    <2>4. texts = [k \in 1..n |-> IF k <= m THEN <<k>> ELSE <<>>]
      <3>1. \A k \in 1..n : (IF before[k].type = "delta" THEN before[k].text ELSE <<>>)
                              = IF k <= m THEN <<k>> ELSE <<>>
        BY <1>0, <2>1, <2>2, <2>3
      <3>. QED BY <2>3, <3>1
    <2>t. Whole = FlattenSeq(texts)
      BY <1>1, <1>4
    <2> HIDE DEF texts
    <2>5. CASE n = 0
      <3>1. texts = <<>> /\ Len(texts) = 0
        BY <2>4, <2>5
      <3>2. Whole = <<>>
        BY <2>t, <3>1 DEF FlattenSeq
      <3>3. DOMAIN Whole = 1..Pieces
        BY DEF Whole
      <3>. QED BY <3>2, <3>3
    <2>6. CASE n # 0
      <3> DEFINE g == [k \in 1..n |-> [j \in 1..(IF k <= m THEN k ELSE m) |-> j]]
      <3>1. \A k \in 1..n : g[k] = IF k = 1 THEN texts[k] ELSE g[k - 1] \o texts[k]
        <4>1. ASSUME NEW k \in 1..n, k # 1
              PROVE  g[k] = g[k - 1] \o texts[k]
          <5>0. k <= m \/ k > m
            BY <1>0
          <5> DEFINE c == IF k - 1 <= m THEN k - 1 ELSE m
          <5>1. c \in Nat /\ k - 1 \in 1..n /\ g[k - 1] = [j \in 1..c |-> j]
            BY <1>0, <4>1
          <5>2. CASE k <= m
            <6>1. texts[k] = <<k>> /\ g[k] = [j \in 1..k |-> j] /\ c = k - 1
              <7>1. texts[k] = <<k>>
                BY <2>4, <5>2
              <7>2. g[k] = [j \in 1..k |-> j]
                BY <5>2
              <7>. QED BY <1>0, <5>2, <7>1, <7>2
            <6> HIDE DEF c, g
            <6>2. [j \in 1..c |-> j] \in Seq(Nat) /\ Len([j \in 1..c |-> j]) = c
              BY <5>1
            <6>. QED BY <4>1, <5>1, <6>1, <6>2
          <5>3. CASE k > m
            <6>1. texts[k] = <<>> /\ g[k] = g[k - 1]
              <7>1. texts[k] = <<>> /\ g[k] = [j \in 1..m |-> j] /\ c = m
                BY <1>0, <2>4, <5>3
              <7>2. g[k - 1] = [j \in 1..m |-> j]
                <8> HIDE DEF c, g
                <8>. QED BY <5>1, <7>1, Zenon
              <7>. QED BY <7>1, <7>2
            <6> HIDE DEF c, g
            <6>2. [j \in 1..c |-> j] \in Seq(Nat)
              BY <5>1
            <6>3. \A t \in Seq(Nat) : t \o <<>> = t
              OBVIOUS
            <6>4. g[k - 1] \in Seq(Nat)
              BY <5>1, <6>2, Zenon
            <6>. QED BY <6>1, <6>3, <6>4
          <5>. QED BY <5>0, <5>2, <5>3
        <4>2. g[1] = texts[1]
          <5>1. n >= 1
            BY <2>6
          <5>2. CASE 1 <= m
            BY <2>4, <5>1, <5>2
          <5>3. CASE m = 0
            BY <2>4, <5>1, <5>3
          <5>. QED BY <1>0, <5>2, <5>3
        <4>. QED BY <4>1, <4>2
      <3>2. FlattenSeq(texts) = g[n]
        <4>1. Len(texts) = n
          BY <2>4
        <4> HIDE DEF g
        <4>2. g[1] = texts[1] /\ \A k \in 2..n : g[k] = g[k - 1] \o texts[k]
          <5>1. 1 \in 1..n /\ \A k \in 2..n : k \in 1..n /\ k # 1
            BY <2>6
          <5>. QED BY <3>1, <5>1
        <4>3. Concatenates(g, texts, n)
          BY <4>2 DEF Concatenates
        <4>. QED BY <2>6, <4>1, <4>3, FlattenIs
      <3>3. Whole = [j \in 1..m |-> j]
        BY <1>0, <2>t, <2>3, <2>6, <3>2
      <3>4. DOMAIN Whole = 1..Pieces
        BY DEF Whole
      <3>. QED BY <1>0, <3>3, <3>4
    <2>. QED BY <2>5, <2>6
  <1>. QED BY <1>3, <1>4

\* GenerateJSON ends without an error only on arguments that were sent whole.
LEMMA AcceptedIsWhole ==
  ASSUME NEW x \in Exchanges, ErrorKind(x) = "none"
  PROVE  SentWhole(x)
  <1>1. /\ x.route = "answered" /\ x.readable /\ ~x.truncated /\ x.status = 200 /\ x.valid
        /\ ~ReadStream(x.events).failed /\ ReadStream(x.events).content = Whole
    BY DEF ErrorKind, Exchanges
  <1>2. x.events \in CutStreams \cup {<<>>}
    BY <1>1 DEF Exchanges
  <1>3. PICK m \in 0..Pieces : HasDeltas(x.events, m)
    <2>1. HasDeltas(<<>>, 0)
      BY DEF HasDeltas
    <2>. QED BY <1>2, <2>1, CutHasDeltas
  <1>4. CASE m = Pieces
    <2>1. \A i \in 1..Pieces : i \in DOMAIN x.events /\ x.events[i] = Deltas[i]
      BY <1>3, <1>4 DEF HasDeltas
    <2>. QED BY <1>1, <2>1 DEF SentWhole
  <1>. QED BY <1>1, <1>3, <1>4, ContentFacts DEF SentWhole

\* What GenerateJSON may return: at least the request is there to store.
LEMMA ReturnsFacts ==
  ASSUME NEW r \in Returns
  PROVE  /\ r.kind \in {q.kind : q \in Returns}
         /\ r.parts \in SUBSET PartNames /\ "request" \in r.parts
         /\ r.whole \in BOOLEAN
         /\ r.kind = "none" => r.whole
  <1>1. PICK x \in Exchanges :
          r = [kind |-> ErrorKind(x), parts |-> Parts(x), whole |-> SentWhole(x)]
    BY DEF Returns
  <1>2. r.parts \in SUBSET PartNames /\ "request" \in r.parts
    BY <1>1 DEF Parts, PartNames
  <1>3. SentWhole(x) \in BOOLEAN
    BY DEF SentWhole
  <1>4. r.kind = "none" => r.whole
    BY <1>1, AcceptedIsWhole
  <1>. QED BY <1>1, <1>2, <1>3, <1>4

------------------------------------------------------------------------------
(* The tasks. *)

\* Settling the task leaves it an attempt if it is tried again.
LEMMA SettledFacts ==
  ASSUME NEW error, task["llm"].attempt \in 0..MaxAttempts
  PROVE  /\ Settled("llm", error).attempt \in 0..MaxAttempts
         /\ Settled("llm", error).state = "scheduled" => Settled("llm", error).attempt < MaxAttempts
  <1>1. CASE error = NoError
    BY <1>1 DEF Settled, Ended
  <1>2. CASE error # NoError /\ Retried(error) /\ task["llm"].attempt < MaxAttempts
    BY <1>2 DEF Settled, Again
  <1>3. CASE error # NoError /\ ~(Retried(error) /\ task["llm"].attempt < MaxAttempts)
    BY <1>3 DEF Settled, Ended
  <1>. QED BY <1>1, <1>2, <1>3

\* What is said of the task and the bodies.
TaskTypeOK == /\ task["llm"].attempt \in 0..MaxAttempts
              /\ task["llm"].state = "scheduled" => task["llm"].attempt < MaxAttempts
              /\ DOMAIN task = {"llm"}
              /\ \A b \in bodies : b.task = "llm" /\ b.attempt \in Attempts

\* What a body reports leaves the task well-formed.
LEMMA ReportStep ==
  ASSUME TaskTypeOK, NEW b \in bodies, NEW error, Report(b, error)
  PROVE  TaskTypeOK'
  <1>1. CASE UNCHANGED task
    BY <1>1 DEF Report, TaskTypeOK
  <1>2. CASE task' # task
    <2>1. task' = [task EXCEPT ![b.task] = Settled(b.task, error)] /\ bodies' = bodies \ {b}
      BY <1>2 DEF Report
    <2>2. b.task = "llm"
      BY DEF TaskTypeOK
    <2>3. task'["llm"] = Settled("llm", error) /\ DOMAIN task' = {"llm"}
      BY <2>1, <2>2 DEF TaskTypeOK
    <2>. QED BY <2>1, <2>3, SettledFacts DEF TaskTypeOK
  <1>. QED BY <1>1, <1>2

\* So does what the server does with the task.
LEMMA TaskStep ==
  ASSUME TaskTypeOK,
         Dispatch("llm") \/ TimeOut("llm") \/ (task' = Scheduled({"llm"}) /\ UNCHANGED bodies)
  PROVE  TaskTypeOK'
  <1> USE DEF TaskTypeOK
  <1>1. CASE Dispatch("llm")
    <2>1. task'["llm"] = [state |-> "started", attempt |-> task["llm"].attempt + 1,
                          error |-> task["llm"].error]
      BY <1>1 DEF Dispatch
    <2>2. task["llm"].state = "scheduled" /\ DOMAIN task' = {"llm"}
          /\ bodies' = bodies \cup {Body("llm", task["llm"].attempt + 1)}
      BY <1>1 DEF Dispatch
    <2>. QED BY <2>1, <2>2 DEF Body
  <1>2. CASE TimeOut("llm")
    <2>1. task'["llm"] = Settled("llm", TimeoutError) /\ DOMAIN task' = {"llm"} /\ bodies' = bodies
      BY <1>2 DEF TimeOut
    <2>. QED BY <2>1, SettledFacts
  <1>3. CASE task' = Scheduled({"llm"}) /\ UNCHANGED bodies
    <2>1. [Unscheduled EXCEPT !.state = "scheduled"] =
            [state |-> "scheduled", attempt |-> 0, error |-> NoError]
      BY DEF Unscheduled
    <2>2. task'["llm"] = [state |-> "scheduled", attempt |-> 0, error |-> NoError] /\ DOMAIN task' = {"llm"}
      BY <1>3, <2>1 DEF Scheduled
    <2>. QED BY <1>3, <2>2
  <1>. QED BY <1>1, <1>2, <1>3

------------------------------------------------------------------------------
(* The attempts. *)

\* An attempt keeps to its own keys, and so leaves the others alone.
LEMMA AttemptStep ==
  ASSUME ActivityInv, NEW n \in Attempts, NEW r \in LocalType, local' = [local EXCEPT ![n] = r],
         artifacts' \in [Keys -> Artifact \cup {Nothing}], KeysOK',
         \A k \in Keys : k[2] # n => artifacts'[k] = artifacts[k],
         TaskTypeOK', AttemptOK(n)'
  PROVE  ActivityInv'
  <1>1. local' \in [Attempts -> LocalType] /\ \A m \in Attempts : m # n => local'[m] = local[m]
    BY DEF ActivityInv, TypeOK
  <1>2. ASSUME NEW m \in Attempts, m # n PROVE AttemptOK(m)'
    <2>1. local'[m] = local[m] /\ local[m] \in LocalType /\ AttemptOK(m)
      BY <1>1, <1>2 DEF ActivityInv, TypeOK
    <2>2. \A key \in local[m].references : artifacts'[key] = artifacts[key]
      <3>1. local[m].references \subseteq Keys
        BY <2>1 DEF LocalType
      <3>2. \A key \in local[m].references : key[2] = m
        BY <2>1 DEF AttemptOK
      <3>. QED BY <1>2, <3>1, <3>2
    <2>. QED BY <2>1, <2>2 DEF AttemptOK, StoredBy
  <1>. QED BY <1>1, <1>2 DEF ActivityInv, TypeOK, TaskTypeOK

\* A step of the server or of a worker that touches neither the attempts nor Garage.
LEMMA TaskOnlyStep ==
  ASSUME ActivityInv, UNCHANGED <<local, artifacts>>, TaskTypeOK'
  PROVE  ActivityInv'
  BY DEF ActivityInv, TypeOK, TaskTypeOK, KeysOK, AttemptOK, StoredBy

\* GenerateJSON returns.
LEMMA GenerateStep ==
  ASSUME ActivityInv, NEW b \in bodies, Generate(b)
  PROVE  ActivityInv'
  <1> DEFINE n == b.attempt
  <1>1. n \in Attempts /\ local[n] \in LocalType /\ AttemptOK(n) /\ local[n].pc = "call"
        /\ UNCHANGED <<artifacts, task, bodies>>
    BY DEF ActivityInv, TypeOK, Generate
  <1>2. PICK r \in Returns : local' = [local EXCEPT ![n] =
          [local[n] EXCEPT !.pc = "request", !.kind = r.kind, !.parts = r.parts, !.whole = r.whole]]
    BY DEF Generate, Goes
  <1>3. PICK q \in LocalType :
          /\ q = [local[n] EXCEPT !.pc = "request", !.kind = r.kind, !.parts = r.parts, !.whole = r.whole]
          /\ q.pc = "request" /\ q.kind = r.kind /\ q.parts = r.parts /\ q.whole = r.whole
          /\ q.references = local[n].references /\ q.artifactError = local[n].artifactError
    <2>. PICK l \in LocalType : l = local[n]
      BY <1>1
    <2>1. [l EXCEPT !.pc = "request", !.kind = r.kind, !.parts = r.parts, !.whole = r.whole] \in LocalType
      BY ReturnsFacts DEF LocalType
    <2>. QED BY <2>1 DEF LocalType
  <1>4. local' = [local EXCEPT ![n] = q] /\ local'[n] = q
    BY <1>1, <1>2, <1>3 DEF ActivityInv, TypeOK
  <1>5. AttemptOK(n)'
    <2>1. q.kind = "none" => q.whole
      BY <1>3, ReturnsFacts
    <2>2. "request" \in q.parts
      BY <1>3, ReturnsFacts
    <2>. QED BY <1>1, <1>3, <1>4, <2>1, <2>2 DEF AttemptOK, StoredBy
  <1>6. artifacts' \in [Keys -> Artifact \cup {Nothing}] /\ KeysOK' /\ TaskTypeOK'
    BY <1>1 DEF ActivityInv, TypeOK, KeysOK, TaskTypeOK
  <1>. QED BY <1>1, <1>4, <1>5, <1>6, AttemptStep

\* A part is stored, or its write fails, or there is none.
LEMMA StoreStep ==
  ASSUME ActivityInv, NEW b \in bodies, NEW part, NEW next,
         <<part, next>> \in {<<"request", "response">>, <<"response", "return">>},
         Store(b, part, next)
  PROVE  ActivityInv'
  <1> DEFINE n == b.attempt
  <1>1. n \in Attempts /\ local[n] \in LocalType /\ AttemptOK(n) /\ local[n].pc = part
        /\ UNCHANGED <<task, bodies>> /\ Key(part, n) \in Keys /\ part \in PartNames
    BY DEF ActivityInv, TypeOK, Store, Key, Keys, PartNames
  <1>p. next \in {"response", "return"} /\ StoredBy(next) = StoredBy(part) \cup {part}
        /\ part \notin StoredBy(part)
    BY DEF StoredBy, PartNames
  <1>2. PICK l \in LocalType : l = local[n]
    BY <1>1
  <1> DEFINE stored == [part |-> part, attempt |-> n]
  <1>3. TaskTypeOK'
    BY <1>1 DEF ActivityInv, TypeOK, TaskTypeOK
  <1>a. /\ l.pc = part /\ "request" \in l.parts
        /\ \A key \in l.references :
             key \in Keys /\ key[2] = n /\ artifacts[key] = [part |-> key[1], attempt |-> n]
        /\ ~l.artifactError => {key[1] : key \in l.references} = l.parts \cap StoredBy(part)
        /\ l.kind = "none" => l.whole
    BY <1>1, <1>2 DEF AttemptOK, LocalType
  <1>4. ASSUME artifacts' = [artifacts EXCEPT ![Key(part, n)] = stored]
        PROVE  /\ artifacts' \in [Keys -> Artifact \cup {Nothing}] /\ KeysOK'
               /\ \A k \in Keys : k[2] # n => artifacts'[k] = artifacts[k]
               /\ artifacts'[Key(part, n)] = stored
               /\ \A key \in l.references : artifacts'[key] = [part |-> key[1], attempt |-> n]
    <2>1. stored \in Artifact
      BY <1>1 DEF Artifact
    <2>2. artifacts' \in [Keys -> Artifact \cup {Nothing}] /\ artifacts'[Key(part, n)] = stored
          /\ \A k \in Keys : k # Key(part, n) => artifacts'[k] = artifacts[k]
      BY <1>1, <1>4, <2>1 DEF ActivityInv, TypeOK
    <2>3. \A k \in Keys : k = Key(part, n) <=> k[1] = part /\ k[2] = n
      BY DEF Key, Keys
    <2>. QED BY <1>a, <2>2, <2>3 DEF KeysOK, ActivityInv
  <1>5. ASSUME artifacts' = artifacts
        PROVE  /\ artifacts' \in [Keys -> Artifact \cup {Nothing}] /\ KeysOK'
               /\ \A k \in Keys : k[2] # n => artifacts'[k] = artifacts[k]
               /\ \A key \in l.references : artifacts'[key] = [part |-> key[1], attempt |-> n]
    BY <1>5, <1>a DEF ActivityInv, TypeOK, KeysOK
  <1>6. ASSUME NEW q \in LocalType, local' = [local EXCEPT ![n] = q],
               q.pc = next, q.kind = l.kind, q.parts = l.parts, q.whole = l.whole,
               \A key \in q.references : key[2] = n /\ artifacts'[key] = [part |-> key[1], attempt |-> n],
               ~q.artifactError =>
                 {key[1] : key \in q.references} = l.parts \cap (StoredBy(part) \cup {part})
        PROVE  AttemptOK(n)'
    <2>1. local'[n] = q
      BY <1>1, <1>6 DEF ActivityInv, TypeOK
    <2>. QED BY <1>1, <1>6, <1>a, <1>p, <2>1 DEF AttemptOK
  <1>7. CASE artifacts' = [artifacts EXCEPT ![Key(part, n)] = stored]
             /\ local' = [local EXCEPT ![n] = [l EXCEPT !.pc = next, !.references = @ \cup {Key(part, n)}]]
             /\ part \in l.parts
    <2>1. PICK q \in LocalType :
            /\ q = [l EXCEPT !.pc = next, !.references = @ \cup {Key(part, n)}]
            /\ q.pc = next /\ q.kind = l.kind /\ q.parts = l.parts /\ q.whole = l.whole
            /\ q.references = l.references \cup {Key(part, n)} /\ q.artifactError = l.artifactError
      <3> DEFINE e == [l EXCEPT !.pc = next, !.references = @ \cup {Key(part, n)}]
      <3>1. e \in LocalType
        BY <1>1, <1>p DEF LocalType
      <3>. QED BY <3>1 DEF LocalType
    <2>2. local' = [local EXCEPT ![n] = q]
      BY <1>7, <2>1
    <2>3. \A key \in q.references : key[2] = n /\ artifacts'[key] = [part |-> key[1], attempt |-> n]
      BY <1>7, <1>4, <1>a, <2>1 DEF Key
    <2>4. ~q.artifactError =>
            {key[1] : key \in q.references} = l.parts \cap (StoredBy(part) \cup {part})
      BY <1>7, <1>a, <2>1 DEF Key
    <2>. QED BY <1>1, <1>3, <1>4, <1>6, <1>7, <2>1, <2>2, <2>3, <2>4, AttemptStep
  <1>8. CASE /\ artifacts' = [artifacts EXCEPT ![Key(part, n)] = stored] \/ artifacts' = artifacts
             /\ local' = [local EXCEPT ![n] = [l EXCEPT !.pc = next, !.artifactError = TRUE]]
    <2>1. PICK q \in LocalType :
            /\ q = [l EXCEPT !.pc = next, !.artifactError = TRUE]
            /\ q.pc = next /\ q.kind = l.kind /\ q.parts = l.parts /\ q.whole = l.whole
            /\ q.references = l.references /\ q.artifactError
      <3> DEFINE e == [l EXCEPT !.pc = next, !.artifactError = TRUE]
      <3>1. e \in LocalType
        BY <1>p DEF LocalType
      <3>. QED BY <3>1 DEF LocalType
    <2>2. local' = [local EXCEPT ![n] = q]
      BY <1>8, <2>1
    <2>3. \A key \in q.references : key[2] = n /\ artifacts'[key] = [part |-> key[1], attempt |-> n]
      BY <1>8, <1>4, <1>5, <1>a, <2>1
    <2>. QED BY <1>1, <1>3, <1>4, <1>5, <1>6, <1>8, <2>1, <2>2, <2>3, AttemptStep
  <1>9. CASE artifacts' = artifacts /\ local' = [local EXCEPT ![n] = [l EXCEPT !.pc = next]]
             /\ part \notin l.parts
    <2>1. PICK q \in LocalType :
            /\ q = [l EXCEPT !.pc = next]
            /\ q.pc = next /\ q.kind = l.kind /\ q.parts = l.parts /\ q.whole = l.whole
            /\ q.references = l.references /\ q.artifactError = l.artifactError
      <3> DEFINE e == [l EXCEPT !.pc = next]
      <3>1. e \in LocalType
        BY <1>p DEF LocalType
      <3>. QED BY <3>1 DEF LocalType
    <2>2. local' = [local EXCEPT ![n] = q]
      BY <1>9, <2>1
    <2>3. \A key \in q.references : key[2] = n /\ artifacts'[key] = [part |-> key[1], attempt |-> n]
      BY <1>9, <1>5, <1>a, <2>1
    <2>4. ~q.artifactError =>
            {key[1] : key \in q.references} = l.parts \cap (StoredBy(part) \cup {part})
      BY <1>9, <1>a, <2>1
    <2>. QED BY <1>1, <1>3, <1>5, <1>6, <1>9, <2>1, <2>2, <2>3, <2>4, AttemptStep
  <1>. QED BY <1>1, <1>2, <1>7, <1>8, <1>9 DEF Store, Write, Skip, Goes

\* The activity returns, its output or an error.
LEMMA FinishStep ==
  ASSUME ActivityInv, NEW b \in bodies, Finish(b)
  PROVE  ActivityInv'
  <1> DEFINE n == b.attempt
  <1>1. n \in Attempts /\ local[n] \in LocalType /\ AttemptOK(n) /\ local[n].pc = "return"
        /\ UNCHANGED artifacts
    BY DEF ActivityInv, TypeOK, Finish
  <1>2. PICK l \in LocalType : l = local[n]
    BY <1>1
  <1>3. /\ l.pc = "return" /\ "request" \in l.parts /\ (l.kind = "none" => l.whole)
        /\ \A key \in l.references :
             key[2] = n /\ artifacts[key] = [part |-> key[1], attempt |-> n]
        /\ ~l.artifactError => {key[1] : key \in l.references} = l.parts \cap PartNames
    BY <1>1, <1>2 DEF AttemptOK, StoredBy
  <1>4. TaskTypeOK'
    <2>1. TaskTypeOK
      BY DEF ActivityInv, TypeOK, TaskTypeOK
    <2>2. \E error : Report(b, error)
      BY DEF Finish
    <2>. QED BY <2>1, <2>2, ReportStep
  <1>5. PICK q \in LocalType :
          /\ local' = [local EXCEPT ![n] = q]
          /\ q.parts = l.parts /\ q.whole = l.whole
          /\ q.references = l.references /\ q.artifactError = l.artifactError
          /\ \/ q.pc = "succeeded" /\ q.kind = l.kind /\ l.kind = "none"
             \/ q.pc = "failed" /\ q.kind \in {l.kind, "semantic"}
    <2>1. CASE local' = [local EXCEPT ![n] = [l EXCEPT !.pc = "failed"]]
      <3> DEFINE e == [l EXCEPT !.pc = "failed"]
      <3>1. e \in LocalType
        BY DEF LocalType
      <3>2. e.pc = "failed" /\ e.kind = l.kind /\ e.parts = l.parts /\ e.whole = l.whole
            /\ e.references = l.references /\ e.artifactError = l.artifactError
        BY DEF LocalType
      <3> HIDE DEF e
      <3>. QED BY <2>1, <3>1, <3>2 DEF e
    <2>2. CASE local' = [local EXCEPT ![n] = [l EXCEPT !.pc = "succeeded"]] /\ l.kind = "none"
      <3> DEFINE e == [l EXCEPT !.pc = "succeeded"]
      <3>1. e \in LocalType
        BY DEF LocalType
      <3>2. e.pc = "succeeded" /\ e.kind = l.kind /\ e.parts = l.parts /\ e.whole = l.whole
            /\ e.references = l.references /\ e.artifactError = l.artifactError
        BY DEF LocalType
      <3> HIDE DEF e
      <3>. QED BY <2>2, <3>1, <3>2 DEF e
    <2>3. CASE local' = [local EXCEPT ![n] = [l EXCEPT !.pc = "failed", !.kind = "semantic"]]
      <3> DEFINE e == [l EXCEPT !.pc = "failed", !.kind = "semantic"]
      <3>1. e \in LocalType
        BY DEF LocalType
      <3>2. e.pc = "failed" /\ e.kind = "semantic" /\ e.parts = l.parts /\ e.whole = l.whole
            /\ e.references = l.references /\ e.artifactError = l.artifactError
        BY DEF LocalType
      <3> HIDE DEF e
      <3>. QED BY <2>3, <3>1, <3>2 DEF e
    <2>. QED BY <1>1, <1>2, <2>1, <2>2, <2>3 DEF Finish, Goes, Reported
  <1>6. local'[n] = q
    BY <1>1, <1>5 DEF ActivityInv, TypeOK
  <1>7. AttemptOK(n)'
    <2>1. StoredBy(q.pc) = PartNames
      BY <1>5 DEF StoredBy
    <2>. QED BY <1>1, <1>3, <1>5, <1>6, <2>1 DEF AttemptOK
  <1>8. artifacts' \in [Keys -> Artifact \cup {Nothing}] /\ KeysOK'
    BY <1>1 DEF ActivityInv, TypeOK, KeysOK
  <1>. QED BY <1>1, <1>4, <1>5, <1>7, <1>8, AttemptStep

------------------------------------------------------------------------------
(* The invariant and what follows from it. *)

\* No attempt, no object and no evidence at the start.
LEMMA ActivityInvInit == Init => ActivityInv
  <1> SUFFICES ASSUME Init PROVE ActivityInv
    OBVIOUS
  <1>1. Fresh \in LocalType
    BY DEF Fresh, LocalType
  <1>2. task["llm"] = Unscheduled /\ DOMAIN task = {"llm"} /\ bodies = {}
    BY DEF Init, InitTasks
  <1>3. TypeOK
    BY <1>1, <1>2 DEF Init, TypeOK, Unscheduled
  <1>. QED BY <1>3 DEF Init, ActivityInv, KeysOK, AttemptOK, StoredBy, Fresh

\* The attempts, the server and Garage all keep the invariant.
LEMMA ActivityInvStep == ActivityInv /\ [Next]_vars => ActivityInv'
  <1> SUFFICES ASSUME ActivityInv, [Next]_vars PROVE ActivityInv'
    OBVIOUS
  <1>0. TaskTypeOK
    BY DEF ActivityInv, TypeOK, TaskTypeOK
  <1>1. CASE UNCHANGED vars
    BY <1>0, <1>1, TaskOnlyStep DEF vars, TaskTypeOK
  <1>2. CASE WorkflowSchedules
    BY <1>0, <1>2, TaskOnlyStep, TaskStep DEF WorkflowSchedules
  <1>3. CASE Server
    BY <1>0, <1>3, TaskOnlyStep, TaskStep DEF Server
  <1>4. ASSUME NEW b \in bodies, WorkerDies(b) PROVE ActivityInv'
    BY <1>0, <1>4, TaskOnlyStep DEF WorkerDies, Crash, TaskTypeOK
  <1>. QED BY <1>1, <1>2, <1>3, <1>4, GenerateStep, StoreStep, FinishStep DEF Next

\* The inductive invariant of an activity that calls the model, over all its attempts.
THEOREM LLMActivityInvariant == Spec => []ActivityInv
  BY ActivityInvInit, ActivityInvStep, PTL DEF Spec

\* The trace runLLM stores under the keys of an attempt is that attempt's, and complete if
\* no write failed, with orphans and retries side by side.
THEOREM LLMActivityEvidenceStands == Spec => []EvidenceStands
  <1>1. ActivityInv => EvidenceStands
    <2> SUFFICES ASSUME ActivityInv PROVE EvidenceStands
      OBVIOUS
    <2>1. ASSUME NEW n \in Attempts, Returned(n)
          PROVE  /\ \A key \in local[n].references : artifacts[key] = [part |-> key[1], attempt |-> n]
                 /\ ~local[n].artifactError => {key[1] : key \in local[n].references} = local[n].parts
                 /\ ~local[n].artifactError => "request" \in local[n].parts
      <3>1. local[n] \in LocalType /\ AttemptOK(n) /\ StoredBy(local[n].pc) = PartNames
            /\ local[n].pc # "call"
        BY <2>1 DEF ActivityInv, TypeOK, Returned, StoredBy
      <3>. QED BY <3>1 DEF AttemptOK, LocalType
    <2>. QED BY <2>1 DEF ActivityInv, KeysOK, EvidenceStands
  <1>. QED BY <1>1, LLMActivityInvariant, PTL

\* No attempt succeeds on a response that was cut short, failed or over the size limit.
THEOREM LLMActivitySuccessIsWhole == Spec => []SuccessIsWhole
  <1>1. ActivityInv => SuccessIsWhole
    BY DEF ActivityInv, AttemptOK, SuccessIsWhole
  <1>. QED BY <1>1, LLMActivityInvariant, PTL
==============================================================================
