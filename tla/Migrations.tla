----------------------------- MODULE Migrations -----------------------------
(***************************************************************************)
(* ApplyMigrations and the four files of migrations/, run at the start of  *)
(* every API process and before it serves, on the rows earlier versions    *)
(* left behind and beside a worker that serves at once.                    *)
(*                                                                         *)
(* A file and its record in schema_migrations are one transaction, but     *)
(* whether the file is recorded is asked before it, so two processes may   *)
(* both set out to apply a file.  Every file takes an exclusive lock on    *)
(* checklists with its first statement: `pending` is the open transaction  *)
(* that holds it, and nobody else writes, or reads, while it is open.      *)
(***************************************************************************)
EXTENDS Naturals, FiniteSets

CONSTANTS Processes,   \* API processes: instances, or a restart beside the old one
          Checklists,  \* checklist ids
          MaxFaults    \* bound: crashes and lost acknowledgements in a behaviour

ASSUME MaxFaultsAssumption == MaxFaults \in Nat

VARIABLES data,      \* the committed tables: schema version and rows
          recorded,  \* the files schema_migrations lists
          pending,   \* the open migration transaction, or none
          pc,        \* where each process is
          file,      \* the file each process is at
          faults     \* how many faults there were

process == <<pc, file>>
vars == <<data, recorded, pending, process, faults>>

Files == 1..4  \* 0001_init .. 0004_repeated_evaluations, in the order of their names
Latest == 4

------------------------------------------------------------------------------
(* Rows.  A checklist with its failure record and one evaluation of it.  0 is  *)
(* the value of a column that does not exist yet: runs before 0004, and the    *)
(* run index of judgments stored before 0004.                                  *)

Statuses == {"absent", "running", "succeeded", "failed"}

Row == [status : Statuses, runs : 0..3, failure : BOOLEAN,
        evaluation : Statuses, judged : SUBSET (0..3)]

NoRow == [status |-> "absent", runs |-> 0, failure |-> FALSE,
          evaluation |-> "absent", judged |-> {}]
NoRows == [c \in Checklists |-> NoRow]

\* What the code of schema version v, which judged once, can have left in a row.
\* A row may have failed under version 3 or before it, when no record was kept.
LegacyRows(v) ==
  {r \in Row :
     /\ r.runs = 0
     /\ r.status = "absent" \/ v = 0 => r = NoRow
     /\ r.failure => r.status = "failed" /\ v = 3
     /\ r.evaluation # "absent" => r.status = "succeeded"
     /\ r.judged = IF r.evaluation = "succeeded" THEN {0} ELSE {}}

LegacyDatabases == UNION {[version : {v}, rows : [Checklists -> LegacyRows(v)]] : v \in 0..3}

\* 0003: error_message goes, workflow_failures is created empty.
WithFailures(r) == [r EXCEPT !.failure = FALSE]

\* Mutant: 0004 without its UPDATE, every old checklist gets the default of three runs.
WithDefaultRuns(r) ==
  IF r.status = "absent" THEN r
  ELSE [r EXCEPT !.runs = 3, !.judged = IF @ = {} THEN {} ELSE {1}]

\* 0004: three runs by default, one where an evaluation exists; a stored judgment
\* becomes that of run 1.
WithRuns(r) ==
  IF r.status = "absent" THEN r
  ELSE [r EXCEPT !.runs = IF r.evaluation = "absent" THEN 3 ELSE 1,
                 !.judged = IF @ = {} THEN {} ELSE {1}]

\* The committed tables after file n has run on d.  0001 creates what is not
\* there; 0002 drops every table and starts again, whatever it finds.
Migrated(n, d) ==
  CASE n = 1 -> IF d.version = 0 THEN [version |-> 1, rows |-> NoRows] ELSE d
    [] n = 2 -> [version |-> 2, rows |-> NoRows]
    [] n = 3 -> [version |-> 3, rows |-> [c \in Checklists |-> WithFailures(d.rows[c])]]
    [] n = 4 -> [version |-> 4, rows |-> [c \in Checklists |-> WithRuns(d.rows[c])]]

\* Mutant: 0004 leaves the trigger that guards terminal checklists enabled.
RunsWithTrigger(n, d) ==
  /\ n > 2 => d.version = n - 1
  /\ n = 4 => \A c \in Checklists : d.rows[c].evaluation = "absent"

\* File n runs on d without an error: 0003 drops a column and 0004 adds one,
\* which works once; the first two run on any tables.
Runs(n, d) == n > 2 => d.version = n - 1

------------------------------------------------------------------------------
(* The API processes. *)

NoTransaction == [open |-> FALSE]
Transaction(p, d) == [open |-> TRUE, by |-> p, data |-> d]
HoldsLock(p) == pending.open /\ pending.by = p

Init == /\ data \in LegacyDatabases
        /\ recorded = 1..data.version
        /\ pending = NoTransaction
        /\ pc = [p \in Processes |-> "down"]
        /\ file = [p \in Processes |-> 1]
        /\ faults = 0

\* systemd starts the process (Restart=on-failure); ApplyMigrations creates
\* schema_migrations and lists the files.
Start(p) ==
  /\ pc[p] = "down"
  /\ pc' = [pc EXCEPT ![p] = "checking"]
  /\ file' = [file EXCEPT ![p] = 1]
  /\ UNCHANGED <<data, recorded, pending, faults>>

\* select exists(... schema_migrations ...), outside any transaction; after the
\* last file ApplyMigrations returns and main serves.
Check(p) ==
  /\ pc[p] = "checking"
  /\ \/ /\ file[p] > Latest
        /\ pc' = [pc EXCEPT ![p] = "serving"]
        /\ UNCHANGED file
     \/ /\ file[p] \in recorded
        /\ file' = [file EXCEPT ![p] = @ + 1]
        /\ UNCHANGED pc
     \/ /\ file[p] \in Files \ recorded
        /\ pc' = [pc EXCEPT ![p] = "applying"]
        /\ UNCHANGED file
  /\ UNCHANGED <<data, recorded, pending, faults>>

Exit(p) == pc' = [pc EXCEPT ![p] = "down"] /\ UNCHANGED file

\* Mutant: the statements of the file run on the pool instead of the transaction.
ApplyOutside(p) ==
  /\ pc[p] = "applying"
  /\ ~pending.open
  /\ \/ /\ Runs(file[p], data)
        /\ data' = Migrated(file[p], data)
        /\ pending' = Transaction(p, data')
        /\ pc' = [pc EXCEPT ![p] = "recording"]
        /\ UNCHANGED file
     \/ /\ ~Runs(file[p], data)
        /\ Exit(p)
        /\ UNCHANGED <<data, pending>>
  /\ UNCHANGED <<recorded, faults>>

\* Begin, and the statements of the file; an error rolls back and ends the process.
Apply(p) ==
  /\ pc[p] = "applying"
  /\ ~pending.open
  /\ \/ /\ Runs(file[p], data)
        /\ pending' = Transaction(p, Migrated(file[p], data))
        /\ pc' = [pc EXCEPT ![p] = "recording"]
        /\ UNCHANGED file
     \/ /\ ~Runs(file[p], data)
        /\ Exit(p)
        /\ UNCHANGED pending
  /\ UNCHANGED <<data, recorded, faults>>

\* Two transactions that create the same object collide in the catalogs: the
\* second one, which waited for the first, gets a duplicate key error.
ApplyCollides(p) ==
  /\ pc[p] = "applying"
  /\ pending.open
  /\ Exit(p)
  /\ UNCHANGED <<data, recorded, pending, faults>>

\* Mutant: a record that is there already does not stop the transaction.
RecordOnce(p) ==
  /\ pc[p] = "recording"
  /\ pc' = [pc EXCEPT ![p] = "committing"]
  /\ UNCHANGED <<data, recorded, pending, file, faults>>

\* insert into schema_migrations, in the transaction: the primary key turns down
\* a file somebody else has recorded meanwhile, and everything is rolled back.
Record(p) ==
  /\ pc[p] = "recording"
  /\ \/ /\ file[p] \in recorded
        /\ pending' = NoTransaction
        /\ Exit(p)
     \/ /\ file[p] \notin recorded
        /\ pc' = [pc EXCEPT ![p] = "committing"]
        /\ UNCHANGED <<pending, file>>
  /\ UNCHANGED <<data, recorded, faults>>

Committed(p) ==
  /\ pc[p] = "committing"
  /\ data' = pending.data
  /\ recorded' = recorded \cup {file[p]}
  /\ pending' = NoTransaction

Commit(p) ==
  /\ Committed(p)
  /\ file' = [file EXCEPT ![p] = @ + 1]
  /\ pc' = [pc EXCEPT ![p] = "checking"]
  /\ UNCHANGED faults

\* The commit takes effect, its acknowledgement does not arrive: the process exits.
CommitAckLost(p) ==
  /\ faults < MaxFaults
  /\ Committed(p)
  /\ Exit(p)
  /\ faults' = faults + 1

\* The process dies anywhere, serving included; Postgres rolls its transaction back.
Crash(p) ==
  /\ faults < MaxFaults
  /\ pc[p] # "down"
  /\ Exit(p)
  /\ pending' = IF HoldsLock(p) THEN NoTransaction ELSE pending
  /\ faults' = faults + 1
  /\ UNCHANGED <<data, recorded>>

------------------------------------------------------------------------------
(* Traffic.  Each step stands for one call of the store, which waits for the   *)
(* lock and needs the columns its statements name.                             *)

Update(c, r) == /\ ~pending.open
                /\ data' = [data EXCEPT !.rows[c] = r]
                /\ UNCHANGED <<recorded, pending, process, faults>>

Serving == \E p \in Processes : pc[p] = "serving"

CreateChecklist(c) ==
  /\ Serving
  /\ data.version = 4
  /\ data.rows[c] = NoRow
  /\ \E n \in {1, 3} : Update(c, [NoRow EXCEPT !.status = "running", !.runs = n])

SucceedChecklist(c) ==
  /\ data.version >= 2
  /\ data.rows[c].status = "running"
  /\ Update(c, [data.rows[c] EXCEPT !.status = "succeeded"])

FailChecklist(c) ==
  /\ data.version >= 3
  /\ data.rows[c].status = "running"
  /\ Update(c, [data.rows[c] EXCEPT !.status = "failed", !.failure = TRUE])

CreateEvaluation(c) ==
  /\ Serving
  /\ data.rows[c].status = "succeeded"
  /\ data.rows[c].evaluation = "absent"
  /\ Update(c, [data.rows[c] EXCEPT !.evaluation = "running"])

SucceedEvaluation(c) ==
  /\ data.version = 4
  /\ data.rows[c].evaluation = "running"
  /\ Update(c, [data.rows[c] EXCEPT !.evaluation = "succeeded",
                                    !.judged = 1..data.rows[c].runs])

FailEvaluation(c) ==
  /\ data.version >= 3
  /\ data.rows[c].evaluation = "running"
  /\ Update(c, [data.rows[c] EXCEPT !.evaluation = "failed"])

Traffic == \E c \in Checklists :
  \/ CreateChecklist(c) \/ SucceedChecklist(c) \/ FailChecklist(c)
  \/ CreateEvaluation(c) \/ SucceedEvaluation(c) \/ FailEvaluation(c)

Progress(p) == Start(p) \/ Check(p) \/ Apply(p) \/ Record(p) \/ Commit(p)

Next == \/ \E p \in Processes : Progress(p) \/ ApplyCollides(p) \/ CommitAckLost(p) \/ Crash(p)
        \/ Traffic

Spec == Init /\ [][Next]_vars

\* A process goes on while it can and is restarted when it exits; nothing obliges
\* it to fail, and nobody to send traffic.
FairSpec == Spec /\ \A p \in Processes : WF_vars(Progress(p))

------------------------------------------------------------------------------
(* Properties. *)

\* schema_migrations tells the truth about the tables whenever no transaction is
\* open: the recorded files are those in force, with no gap.  Crashes, lost
\* acknowledgements and a second process that applies the same file may not put
\* one ahead of the other, or a restart would skip a file or repeat 0002's drops.
RecordedIsInForce == ~pending.open => recorded = 1..data.version

Terminal(s) == s \in {"succeeded", "failed"}

\* `new` is a row that `old` may become: still there, and with the same outcome.
Survives(old, new) ==
  /\ old.status # "absent" => new.status # "absent"
  /\ old.evaluation # "absent" => new.evaluation # "absent"
  /\ Terminal(old.status) => new.status = old.status /\ old.failure = new.failure
  /\ Terminal(old.evaluation) =>
       /\ new.evaluation = old.evaluation
       /\ Cardinality(new.judged) = Cardinality(old.judged)

\* From 0002 on, which starts from empty tables, no row disappears and no outcome
\* changes: a process that decided to apply 0002 before another one did drops
\* everything in its transaction and must not commit it, and 0004 rewrites terminal
\* rows with their guard disabled.
RowsSurvive ==
  [][data.version >= 2 =>
       \A c \in Checklists : Survives(data.rows[c], data'.rows[c])]_vars

\* GetEvaluation aggregates what is stored again, with the runs of the checklist: a
\* succeeded evaluation, of whatever age, has the judgments of exactly those runs.
SucceededStaysReadable ==
  data.version = Latest =>
    \A c \in Checklists :
      data.rows[c].evaluation = "succeeded" => data.rows[c].judged = 1..data.rows[c].runs

\* Whatever tables the processes find, whoever of them applies a file first, and
\* after any crash on the way, every process comes to serve and stays.
EveryProcessServes == \A p \in Processes : <>[](pc[p] = "serving")
=============================================================================
