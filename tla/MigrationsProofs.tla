--------------------------- MODULE MigrationsProofs ---------------------------
(***************************************************************************)
(* Migrations for any processes, checklists and number of faults: an       *)
(* inductive invariant, and from it that schema_migrations tells the truth *)
(* about the tables, that no row and no outcome is lost and that old       *)
(* evaluations stay readable.                                              *)
(***************************************************************************)
EXTENDS Migrations, FiniteSetTheorems, TLAPS

Steps == {"down", "checking", "applying", "recording", "committing", "serving"}

Database == [version : 0..4, rows : [Checklists -> Row]]

TypeOK ==
  /\ data \in Database
  /\ pc \in [Processes -> Steps]
  /\ file \in [Processes -> 1..5]

\* What the code of schema version v leaves in a row.
RowOK(v, r) ==
  /\ r.status = "absent" => r = NoRow
  /\ v < 3 => ~r.failure
  /\ v < 4 => r.judged = IF r.evaluation = "succeeded" THEN {0} ELSE {}
  /\ (v = 4 /\ r.evaluation = "succeeded") => r.judged = 1..r.runs

RowsOK(d) == \A c \in Checklists : RowOK(d.version, d.rows[c])

\* A process has come past recorded files only; the one past Apply holds the lock
\* and a transaction made from the tables as they are.
ProcessOK(p) ==
  /\ 1..(file[p] - 1) \subseteq recorded
  /\ pc[p] \in {"applying", "recording", "committing"} => file[p] \in Files
  /\ pc[p] \in {"recording", "committing"} =>
       pending = Transaction(p, Migrated(file[p], data))
  /\ pc[p] = "committing" => file[p] \notin recorded

IInv == /\ TypeOK
        /\ recorded = 1..data.version
        /\ RowsOK(data)
        /\ \A p \in Processes : ProcessOK(p)

------------------------------------------------------------------------------
(* Facts about rows and files. *)

\* A checklist nobody has created is an acceptable row of every version.
LEMMA NoRowIsOK == NoRow \in Row /\ \A v \in 0..4 : RowOK(v, NoRow)
  BY DEF NoRow, Row, Statuses, RowOK

\* 0003 leaves a row of version 2 acceptable to version 3 and keeps its outcome.
LEMMA WithFailuresOK ==
  ASSUME NEW r \in Row, RowOK(2, r)
  PROVE  WithFailures(r) \in Row /\ RowOK(3, WithFailures(r)) /\ Survives(r, WithFailures(r))
  <1>1. r.failure = FALSE
    BY DEF Row, RowOK
  <1>2. WithFailures(r) = r
    BY <1>1 DEF WithFailures, Row
  <1>. QED BY <1>2 DEF RowOK, Survives

\* 0004 leaves a row of version 3 acceptable to version 4, with the one judgment of
\* each question it had, as that of run 1.
LEMMA WithRunsOK ==
  ASSUME NEW r \in Row, RowOK(3, r)
  PROVE  WithRuns(r) \in Row /\ RowOK(4, WithRuns(r)) /\ Survives(r, WithRuns(r))
  <1> DEFINE n == WithRuns(r)
  <1>1. CASE r.status = "absent"
    BY <1>1 DEF WithRuns, RowOK, NoRow, Survives, Terminal
  <1>2. CASE r.status # "absent"
    <2>1. /\ n = [status |-> r.status, runs |-> IF r.evaluation = "absent" THEN 3 ELSE 1,
                  failure |-> r.failure, evaluation |-> r.evaluation,
                  judged |-> IF r.judged = {} THEN {} ELSE {1}]
      BY <1>2 DEF WithRuns, Row
    <2>2. n \in Row
      BY <2>1 DEF Row, Statuses
    <2>3. r.evaluation = "succeeded" => r.judged = {0} /\ n.judged = {1} /\ n.runs = 1
      BY <2>1 DEF RowOK
    <2>4. r.evaluation # "succeeded" => r.judged = {} /\ n.judged = {}
      BY <2>1 DEF RowOK
    <2>5. RowOK(4, n)
      <3>1. n.status # "absent" /\ n.evaluation = r.evaluation
        BY <1>2, <2>1
      <3> HIDE DEF n
      <3>2. r.evaluation = "succeeded" => n.judged = 1..n.runs
        <4>1. SUFFICES ASSUME r.evaluation = "succeeded" PROVE n.judged = 1..n.runs
          OBVIOUS
        <4>2. n.judged = {1} /\ n.runs = 1 /\ 1..1 = {1}
          BY <2>3, <4>1
        <4>. QED BY <4>2
      <3>. QED BY <3>1, <3>2 DEF RowOK
    <2>6. Cardinality(n.judged) = Cardinality(r.judged)
      <3>1. Cardinality({0}) = 1 /\ Cardinality({1}) = 1
        BY FS_Singleton
      <3>. QED BY <2>3, <2>4, <3>1
    <2>7. Survives(r, n)
      BY <1>2, <2>1, <2>6 DEF Survives, Terminal
    <2>. QED BY <2>2, <2>5, <2>7
  <1>. QED BY <1>1, <1>2

\* The file that follows the schema version gives tables of the next version.
LEMMA NextFile ==
  ASSUME NEW d \in Database, RowsOK(d), NEW n \in Files, d.version = n - 1
  PROVE  /\ Migrated(n, d) \in Database
         /\ Migrated(n, d).version = n
         /\ RowsOK(Migrated(n, d))
         /\ n > 2 => \A c \in Checklists : Survives(d.rows[c], Migrated(n, d).rows[c])
  <1> DEFINE m == Migrated(n, d)
  <1>1. CASE n \in {1, 2}
    <2>1. m = [version |-> n, rows |-> NoRows]
      BY <1>1 DEF Migrated
    <2>. QED BY <1>1, <2>1, NoRowIsOK DEF Database, RowsOK, NoRows, Files
  <1>2. CASE n = 3
    <2>1. m = [version |-> 3, rows |-> [c \in Checklists |-> WithFailures(d.rows[c])]]
      BY <1>2 DEF Migrated
    <2>2. \A c \in Checklists : d.rows[c] \in Row /\ RowOK(2, d.rows[c])
      BY <1>2 DEF Database, RowsOK
    <2>. QED BY <1>2, <2>1, <2>2, WithFailuresOK DEF Database, RowsOK
  <1>3. CASE n = 4
    <2>1. m = [version |-> 4, rows |-> [c \in Checklists |-> WithRuns(d.rows[c])]]
      BY <1>3 DEF Migrated
    <2>2. \A c \in Checklists : d.rows[c] \in Row /\ RowOK(3, d.rows[c])
      BY <1>3 DEF Database, RowsOK
    <2>. QED BY <1>3, <2>1, <2>2, WithRunsOK DEF Database, RowsOK
  <1>. QED BY <1>1, <1>2, <1>3 DEF Files

------------------------------------------------------------------------------
(* What a step does to the tables. *)

\* A process at its commit has applied the file that comes next.
LEMMA CommitIsNextFile ==
  ASSUME IInv, NEW p \in Processes, pc[p] = "committing"
  PROVE  /\ file[p] \in Files /\ data.version = file[p] - 1
         /\ pending = Transaction(p, Migrated(file[p], data))
  <1>1. ProcessOK(p) /\ recorded = 1..data.version /\ data.version \in 0..4
    BY DEF IInv, TypeOK, Database
  <1>2. file[p] \in Files /\ file[p] \notin recorded /\ 1..(file[p] - 1) \subseteq recorded
    BY <1>1 DEF ProcessOK
  <1>3. data.version < file[p]
    BY <1>1, <1>2 DEF Files
  <1>4. file[p] > 1 => file[p] - 1 \in 1..(file[p] - 1)
    BY <1>2 DEF Files
  <1>5. data.version >= file[p] - 1
    BY <1>1, <1>2, <1>4 DEF Files
  <1>. QED BY <1>1, <1>2, <1>3, <1>5 DEF ProcessOK, Files

\* A commit puts the next file in force, on rows it was written for.
LEMMA CommitStep ==
  ASSUME IInv, NEW p \in Processes, Committed(p)
  PROVE  /\ data' \in Database /\ RowsOK(data')
         /\ data'.version = file[p] /\ recorded' = 1..file[p]
         /\ data.version >= 2 => \A c \in Checklists : Survives(data.rows[c], data'.rows[c])
  <1>1. file[p] \in Files /\ data.version = file[p] - 1
    BY CommitIsNextFile DEF Committed
  <1>2. data' = Migrated(file[p], data)
    BY CommitIsNextFile DEF Committed, Transaction
  <1>3. data \in Database /\ RowsOK(data)
    BY DEF IInv, TypeOK
  <1>4. recorded' = (1..data.version) \cup {file[p]}
    BY DEF IInv, Committed
  <1>5. recorded' = 1..file[p]
    BY <1>1, <1>4 DEF Files
  <1>. QED BY <1>1, <1>2, <1>3, <1>5, NextFile DEF Files

\* A call of the store changes one row, while no migration transaction is open, and
\* no outcome.
LEMMA TrafficStep ==
  ASSUME IInv, Traffic
  PROVE  /\ ~pending.open /\ UNCHANGED <<recorded, pending, process>>
         /\ data' \in Database /\ RowsOK(data') /\ data'.version = data.version
         /\ \A c \in Checklists : Survives(data.rows[c], data'.rows[c])
  <1>1. PICK c \in Checklists : \/ CreateChecklist(c) \/ SucceedChecklist(c) \/ FailChecklist(c)
                                \/ CreateEvaluation(c) \/ SucceedEvaluation(c) \/ FailEvaluation(c)
    BY DEF Traffic
  <1> DEFINE v == data.version
  <1>0. data \in Database /\ v \in 0..4
    BY DEF IInv, TypeOK, Database
  <1>2. PICK r \in Row : r = data.rows[c] /\ RowOK(v, r)
    BY <1>0 DEF IInv, Database, RowsOK
  <1>3. \E n \in Row : RowOK(v, n) /\ Survives(r, n) /\ Update(c, n)
    <2>1. CASE CreateChecklist(c)
      <3>0. r = NoRow
        BY <1>2, <2>1 DEF CreateChecklist
      <3>1. PICK k \in {1, 3} : Update(c, [r EXCEPT !.status = "running", !.runs = k])
        BY <2>1, <3>0 DEF CreateChecklist
      <3>2. PICK m \in Row : m = [r EXCEPT !.status = "running"]
        BY DEF Row, Statuses
      <3>3. PICK new \in Row : new = [m EXCEPT !.runs = k]
        <4>1. k \in 0..3
          OBVIOUS
        <4>. QED BY <4>1 DEF Row
      <3>4. new.status = "running" /\ new.evaluation = "absent" /\ new.judged = {}
            /\ new.failure = FALSE
        BY <3>0, <3>2, <3>3 DEF NoRow, Row
      <3>5. RowOK(v, new)
        BY <1>0, <3>4 DEF RowOK
      <3>6. Survives(r, new)
        BY <3>0 DEF NoRow, Survives, Terminal
      <3>7. Update(c, new)
        BY <3>1, <3>2, <3>3
      <3>. QED BY <3>5, <3>6, <3>7
    <2>2. CASE SucceedChecklist(c)
      <3> DEFINE new == [r EXCEPT !.status = "succeeded"]
      <3>1. new \in Row /\ RowOK(v, new) /\ Survives(r, new)
        BY <1>0, <1>2, <2>2 DEF SucceedChecklist, Row, Statuses, RowOK, Survives, Terminal
      <3>. QED BY <1>2, <2>2, <3>1 DEF SucceedChecklist
    <2>3. CASE FailChecklist(c)
      <3>1. v >= 3 /\ r.status = "running"
            /\ Update(c, [r EXCEPT !.status = "failed", !.failure = TRUE])
        BY <1>2, <2>3 DEF FailChecklist
      <3>2. PICK m \in Row : m = [r EXCEPT !.status = "failed"]
        BY DEF Row, Statuses
      <3>3. PICK new \in Row : new = [m EXCEPT !.failure = TRUE]
        BY DEF Row
      <3>4. new.status = "failed" /\ new.evaluation = r.evaluation
            /\ new.judged = r.judged /\ new.runs = r.runs
        BY <3>2, <3>3 DEF Row
      <3>5. RowOK(v, new) /\ Survives(r, new)
        BY <1>0, <1>2, <3>1, <3>4 DEF RowOK, Survives, Terminal
      <3>6. Update(c, new)
        BY <3>1, <3>2, <3>3
      <3>. QED BY <3>5, <3>6
    <2>4. CASE CreateEvaluation(c)
      <3> DEFINE new == [r EXCEPT !.evaluation = "running"]
      <3>1. new \in Row /\ RowOK(v, new) /\ Survives(r, new)
        BY <1>0, <1>2, <2>4 DEF CreateEvaluation, Row, Statuses, RowOK, Survives, Terminal
      <3>. QED BY <1>2, <2>4, <3>1 DEF CreateEvaluation
    <2>5. CASE SucceedEvaluation(c)
      <3>1. v = 4 /\ r.evaluation = "running"
            /\ Update(c, [r EXCEPT !.evaluation = "succeeded", !.judged = 1..r.runs])
        BY <1>2, <2>5 DEF SucceedEvaluation
      <3>2. PICK m \in Row : m = [r EXCEPT !.evaluation = "succeeded"]
        BY DEF Row, Statuses
      <3>3. 1..r.runs \in SUBSET (0..3)
        BY DEF Row
      <3>4. PICK new \in Row : new = [m EXCEPT !.judged = 1..r.runs]
        BY <3>3 DEF Row
      <3>5. new.status = r.status /\ new.evaluation = "succeeded" /\ new.runs = r.runs
            /\ new.judged = 1..r.runs /\ new.failure = r.failure
        BY <3>2, <3>4 DEF Row
      <3>6. r.status # "absent"
        BY <1>2, <3>1 DEF RowOK, NoRow
      <3>7. RowOK(v, new) /\ Survives(r, new)
        BY <3>1, <3>5, <3>6 DEF RowOK, Survives, Terminal
      <3>8. Update(c, new)
        BY <3>1, <3>2, <3>4
      <3>. QED BY <3>7, <3>8
    <2>6. CASE FailEvaluation(c)
      <3> DEFINE new == [r EXCEPT !.evaluation = "failed"]
      <3>1. r.status # "absent"
        BY <1>0, <1>2, <2>6 DEF FailEvaluation, RowOK, NoRow
      <3>2. new \in Row /\ RowOK(v, new) /\ Survives(r, new)
        BY <1>0, <1>2, <2>6, <3>1 DEF FailEvaluation, Row, Statuses, RowOK, Survives, Terminal
      <3>. QED BY <1>2, <2>6, <3>2 DEF FailEvaluation
    <2>. QED BY <1>1, <2>1, <2>2, <2>3, <2>4, <2>5, <2>6
  <1>4. PICK n \in Row : RowOK(v, n) /\ Survives(r, n) /\ Update(c, n)
    BY <1>3
  <1>5. data' = [data EXCEPT !.rows[c] = n] /\ ~pending.open
        /\ UNCHANGED <<recorded, pending, process>>
    BY <1>4 DEF Update
  <1>6. /\ data'.version = v
        /\ data' \in Database
        /\ \A k \in Checklists : data'.rows[k] = IF k = c THEN n ELSE data.rows[k]
    BY <1>0, <1>5 DEF Database
  <1>7. \A k \in Checklists : Survives(data.rows[k], data.rows[k])
    BY DEF Survives
  <1>8. \A k \in Checklists : RowOK(v, data.rows[k])
    BY DEF IInv, RowsOK
  <1>9. RowsOK(data')
    BY <1>4, <1>6, <1>8 DEF RowsOK
  <1>10. \A k \in Checklists : Survives(data.rows[k], data'.rows[k])
    BY <1>2, <1>4, <1>6, <1>7
  <1>. QED BY <1>5, <1>6, <1>9, <1>10

\* Every other step leaves the tables and their records alone.
LEMMA OtherStep ==
  ASSUME NEW p \in Processes,
         \/ Start(p) \/ Check(p) \/ Apply(p) \/ Record(p) \/ ApplyCollides(p) \/ Crash(p)
  PROVE  UNCHANGED <<data, recorded>>
  BY DEF Start, Check, Apply, Record, ApplyCollides, Crash

------------------------------------------------------------------------------
(* The invariant. *)

\* Whatever an earlier version left satisfies the invariant.
LEMMA InvariantInit == Init => IInv
  <1> SUFFICES ASSUME Init PROVE IInv
    OBVIOUS
  <1>1. PICK v \in 0..3 : data \in [version : {v}, rows : [Checklists -> LegacyRows(v)]]
    BY DEF Init, LegacyDatabases
  <1>2. data.version = v /\ \A c \in Checklists : data.rows[c] \in LegacyRows(v)
    BY <1>1
  <1>3. LegacyRows(v) \subseteq Row /\ \A r \in LegacyRows(v) : RowOK(v, r)
    BY DEF LegacyRows, RowOK
  <1>4. data \in Database /\ RowsOK(data)
    BY <1>1, <1>2, <1>3 DEF Database, RowsOK
  <1>5. \A p \in Processes : ProcessOK(p)
    BY DEF Init, ProcessOK
  <1>. QED BY <1>4, <1>5 DEF Init, IInv, TypeOK, Steps

\* A process past Apply excludes any other: the transaction is its own.
LEMMA OneTransaction ==
  ASSUME IInv, NEW p \in Processes, pc[p] \in {"recording", "committing"}
  PROVE  /\ pending.open /\ HoldsLock(p)
         /\ \A q \in Processes : pc[q] \in {"recording", "committing"} => q = p
  <1>1. ASSUME NEW q \in Processes, pc[q] \in {"recording", "committing"}
        PROVE  pending = Transaction(q, Migrated(file[q], data))
    BY <1>1 DEF IInv, ProcessOK
  <1>2. ASSUME NEW q \in Processes, pc[q] \in {"recording", "committing"}
        PROVE  pending.open /\ pending.by = q
    BY <1>1, <1>2 DEF Transaction
  <1>. QED BY <1>2 DEF HoldsLock

\* Processes, faults and traffic all keep the invariant.
LEMMA InvariantStep == IInv /\ [Next]_vars => IInv'
  <1> SUFFICES ASSUME IInv, [Next]_vars PROVE IInv'
    OBVIOUS
  <1>t. /\ data.version \in 0..4 /\ recorded = 1..data.version
        /\ pc \in [Processes -> Steps] /\ file \in [Processes -> 1..5]
    BY DEF IInv, TypeOK, Database
  <1>o. ASSUME UNCHANGED <<data, recorded>>, pc' \in [Processes -> Steps],
               file' \in [Processes -> 1..5], \A p \in Processes : ProcessOK(p)'
        PROVE  IInv'
    BY <1>o DEF IInv, TypeOK, RowsOK
  <1>k. ASSUME NEW q \in Processes, UNCHANGED <<data, recorded>>,
               pc'[q] = pc[q], file'[q] = file[q],
               pc[q] \in {"recording", "committing"} => UNCHANGED pending
        PROVE  ProcessOK(q)'
    BY <1>k DEF IInv, ProcessOK
  <1>1. ASSUME NEW p \in Processes, Start(p) PROVE IInv'
    <2>1. pc'[p] = "checking" /\ file'[p] = 1 /\ UNCHANGED <<data, recorded, pending>>
      BY <1>1, <1>t DEF Start
    <2>2. ProcessOK(p)'
      BY <2>1 DEF ProcessOK
    <2>3. \A q \in Processes \ {p} : ProcessOK(q)'
      BY <1>1, <1>k, <1>t DEF Start
    <2>. QED BY <1>1, <1>o, <1>t, <2>2, <2>3 DEF Start, Steps
  <1>2. ASSUME NEW p \in Processes, Check(p) PROVE IInv'
    <2>0. UNCHANGED <<data, recorded, pending>> /\ pc[p] = "checking" /\ file[p] \in 1..5
          /\ 1..(file[p] - 1) \subseteq recorded
      BY <1>2, <1>t DEF Check, IInv, ProcessOK
    <2>3. \A q \in Processes \ {p} : pc'[q] = pc[q] /\ file'[q] = file[q]
      BY <1>2, <1>t DEF Check
    <2>4. \A q \in Processes \ {p} : ProcessOK(q)'
      BY <1>k, <2>0, <2>3
    <2>5. CASE file[p] > Latest /\ pc' = [pc EXCEPT ![p] = "serving"] /\ UNCHANGED file
      <3>1. ProcessOK(p)'
        BY <1>t, <2>0, <2>5 DEF ProcessOK
      <3>. QED BY <1>o, <1>t, <2>0, <2>4, <2>5, <3>1 DEF Steps
    <2>6. CASE file[p] \in recorded /\ file' = [file EXCEPT ![p] = @ + 1] /\ UNCHANGED pc
      <3>1. file[p] \in 1..4 /\ file'[p] = file[p] + 1
        BY <1>t, <2>6
      <3>2. 1..(file'[p] - 1) \subseteq recorded'
        BY <1>t, <2>0, <2>6, <3>1
      <3>3. ProcessOK(p)'
        BY <2>0, <2>6, <3>2 DEF ProcessOK
      <3>4. file' \in [Processes -> 1..5]
        BY <1>t, <2>6, <3>1
      <3>. QED BY <1>o, <1>t, <2>0, <2>4, <2>6, <3>3, <3>4
    <2>7. CASE file[p] \in Files \ recorded /\ pc' = [pc EXCEPT ![p] = "applying"] /\ UNCHANGED file
      <3>1. ProcessOK(p)'
        BY <1>t, <2>0, <2>7 DEF ProcessOK
      <3>. QED BY <1>o, <1>t, <2>0, <2>4, <2>7, <3>1 DEF Steps
    <2>. QED BY <1>2, <2>5, <2>6, <2>7 DEF Check
  <1>e. ASSUME NEW p \in Processes, Exit(p), UNCHANGED <<data, recorded>>,
               \A q \in Processes \ {p} : pc[q] \in {"recording", "committing"} => UNCHANGED pending
        PROVE  IInv'
    <2>1. pc' = [pc EXCEPT ![p] = "down"] /\ UNCHANGED file
      BY <1>e DEF Exit
    <2>2. ProcessOK(p)'
      BY <1>e, <1>t, <2>1 DEF IInv, ProcessOK
    <2>3. \A q \in Processes \ {p} : ProcessOK(q)'
      BY <1>e, <1>k, <1>t, <2>1
    <2>. QED BY <1>e, <1>o, <1>t, <2>1, <2>2, <2>3 DEF Steps
  <1>3. ASSUME NEW p \in Processes, Apply(p) PROVE IInv'
    <2>1. ~pending.open /\ UNCHANGED <<data, recorded>>
      BY <1>3 DEF Apply
    <2>2. \A q \in Processes : pc[q] \notin {"recording", "committing"}
      BY <2>1, OneTransaction
    <2>3. CASE Exit(p)
      BY <1>e, <2>1, <2>2, <2>3
    <2>4. CASE /\ pending' = Transaction(p, Migrated(file[p], data))
               /\ pc' = [pc EXCEPT ![p] = "recording"]
               /\ UNCHANGED file
      <3>1. file[p] \in Files
        BY <1>3 DEF Apply, IInv, ProcessOK
      <3>2. ProcessOK(p)'
        BY <1>t, <2>1, <2>4, <3>1 DEF IInv, ProcessOK
      <3>3. \A q \in Processes \ {p} : ProcessOK(q)'
        BY <1>k, <1>t, <2>1, <2>2, <2>4
      <3>. QED BY <1>o, <1>t, <2>1, <2>4, <3>2, <3>3 DEF Steps
    <2>. QED BY <1>3, <2>3, <2>4 DEF Apply
  <1>4. ASSUME NEW p \in Processes, ApplyCollides(p) PROVE IInv'
    BY <1>4, <1>e DEF ApplyCollides
  <1>5. ASSUME NEW p \in Processes, Record(p) PROVE IInv'
    <2>1. pc[p] = "recording" /\ UNCHANGED <<data, recorded>>
      BY <1>5 DEF Record
    <2>2. \A q \in Processes \ {p} : pc[q] \notin {"recording", "committing"}
      BY <2>1, OneTransaction
    <2>3. CASE Exit(p)
      BY <1>e, <2>1, <2>2, <2>3
    <2>4. CASE /\ file[p] \notin recorded
               /\ pc' = [pc EXCEPT ![p] = "committing"]
               /\ UNCHANGED <<pending, file>>
      <3>1. ProcessOK(p)'
        BY <1>t, <2>1, <2>4 DEF IInv, ProcessOK
      <3>2. \A q \in Processes \ {p} : ProcessOK(q)'
        BY <1>k, <1>t, <2>1, <2>4
      <3>. QED BY <1>o, <1>t, <2>1, <2>4, <3>1, <3>2 DEF Steps
    <2>. QED BY <1>5, <2>3, <2>4 DEF Record
  <1>6. ASSUME NEW p \in Processes, Commit(p) \/ CommitAckLost(p) PROVE IInv'
    <2>1. Committed(p) /\ pc[p] = "committing"
      BY <1>6 DEF Commit, CommitAckLost, Committed
    <2>2. /\ data' \in Database /\ RowsOK(data')
          /\ data'.version = file[p] /\ recorded' = 1..file[p]
      BY <2>1, CommitStep
    <2>3. file[p] \in Files /\ recorded = 1..(file[p] - 1)
      BY <1>t, <2>1, CommitIsNextFile
    <2>4. /\ pc'[p] \in {"checking", "down"} /\ file'[p] \in {file[p], file[p] + 1}
          /\ pc' \in [Processes -> Steps] /\ file' \in [Processes -> 1..5]
          /\ \A q \in Processes \ {p} : pc'[q] = pc[q] /\ file'[q] = file[q]
      BY <1>6, <1>t, <2>3 DEF Commit, CommitAckLost, Exit, Steps, Files
    <2>5. ProcessOK(p)'
      <3>1. 1..(file'[p] - 1) \subseteq recorded'
        BY <2>2, <2>3, <2>4 DEF Files
      <3>. QED BY <2>4, <3>1 DEF ProcessOK
    <2>6. ASSUME NEW q \in Processes \ {p} PROVE ProcessOK(q)'
      <3>1. pc[q] \notin {"recording", "committing"}
        BY <2>1, OneTransaction
      <3>2. recorded \subseteq recorded'
        BY <2>1 DEF Committed
      <3>3. ProcessOK(q)
        BY DEF IInv
      <3>. QED BY <2>4, <3>1, <3>2, <3>3 DEF ProcessOK
    <2>. QED BY <2>2, <2>4, <2>5, <2>6 DEF IInv, TypeOK
  <1>7. ASSUME NEW p \in Processes, Crash(p) PROVE IInv'
    <2>1. \A q \in Processes \ {p} : pc[q] \in {"recording", "committing"} => ~HoldsLock(p)
      BY OneTransaction DEF HoldsLock
    <2>. QED BY <1>7, <1>e, <2>1 DEF Crash
  <1>8. CASE Traffic
    <2>1. /\ ~pending.open /\ UNCHANGED <<recorded, pending, pc, file>>
          /\ data' \in Database /\ RowsOK(data') /\ data'.version = data.version
      BY <1>8, TrafficStep DEF process
    <2>2. \A p \in Processes : pc[p] \notin {"recording", "committing"}
      BY <2>1, OneTransaction
    <2>3. \A p \in Processes : ProcessOK(p)'
      BY <2>1, <2>2 DEF IInv, ProcessOK
    <2>. QED BY <1>t, <2>1, <2>3 DEF IInv, TypeOK
  <1>9. CASE UNCHANGED vars
    BY <1>9, <1>k, <1>o, <1>t DEF vars, process
  <1>. QED BY <1>1, <1>2, <1>3, <1>4, <1>5, <1>6, <1>7, <1>8, <1>9 DEF Next, Progress

------------------------------------------------------------------------------
(* Theorems. *)

\* In every reachable state the records, the rows and the open transaction fit the
\* schema version, however many processes migrate and crash (ApplyMigrations).
THEOREM MigrationsInvariant == Spec => []IInv
  BY InvariantInit, InvariantStep, PTL DEF Spec

\* schema_migrations lists the files in force whenever no transaction is open.
THEOREM MigrationsRecordedIsInForce == Spec => []RecordedIsInForce
  <1>1. IInv => RecordedIsInForce
    BY DEF IInv, RecordedIsInForce
  <1>. QED BY <1>1, MigrationsInvariant, PTL

\* A succeeded evaluation of any age has the judgments of exactly its runs.
THEOREM MigrationsSucceededStaysReadable == Spec => []SucceededStaysReadable
  <1>1. IInv => SucceededStaysReadable
    BY DEF IInv, RowsOK, RowOK, SucceededStaysReadable, Latest
  <1>. QED BY <1>1, MigrationsInvariant, PTL

\* From version 2 on no row disappears and no outcome changes: neither a late 0002
\* nor the rewriting of terminal rows by 0004 loses one.
THEOREM MigrationsRowsSurvive == Spec => RowsSurvive
  <1> DEFINE Survive == data.version >= 2 =>
                          \A c \in Checklists : Survives(data.rows[c], data'.rows[c])
  <1>1. IInv /\ [Next]_vars => [Survive]_vars
    <2> SUFFICES ASSUME IInv, Next PROVE Survive
      BY DEF vars
    <2>1. ASSUME NEW p \in Processes, Commit(p) \/ CommitAckLost(p) PROVE Survive
      BY <2>1, CommitStep DEF Commit, CommitAckLost
    <2>2. CASE Traffic
      BY <2>2, TrafficStep
    <2>3. UNCHANGED data => Survive
      BY DEF Survives
    <2>4. ASSUME NEW p \in Processes,
                 \/ Start(p) \/ Check(p) \/ Apply(p) \/ Record(p) \/ ApplyCollides(p) \/ Crash(p)
          PROVE  Survive
      BY <2>3, <2>4, OtherStep
    <2>. QED BY <2>1, <2>2, <2>4 DEF Next, Progress
  <1>. QED BY <1>1, MigrationsInvariant, PTL DEF Spec, RowsSurvive
===============================================================================
