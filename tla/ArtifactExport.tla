--------------------------- MODULE ArtifactExport ---------------------------
(***************************************************************************)
(* captureartifacts: GarageWriter.Export copies the objects under some     *)
(* prefixes from Garage into a directory, then main writes manifest.json   *)
(* with what was copied.  The command may be run again into the same       *)
(* directory, whatever an earlier run left there, and activities go on     *)
(* writing objects meanwhile.  An object never changes once written: its   *)
(* key names the attempt it belongs to.                                    *)
(***************************************************************************)
EXTENDS Naturals, Sequences, FiniteSets, FiniteSetsExt

CONSTANTS Keys,      \* object keys, numbered in the order in which Garage lists them
          Prefixes,  \* the prefix lists a run may be given, each prefix as the keys it covers
          MaxRuns    \* bound: runs into the directory

ASSUME PrefixesAssumption == Keys \subseteq Nat /\ Prefixes \subseteq Seq(SUBSET Keys)

VARIABLES bucket,    \* keys of the objects in Garage
          files,     \* the copies in the directory
          manifest,  \* manifest.json
          step,      \* where the run is
          todo,      \* the prefixes still to be listed, the current one first
          listed,    \* keys of the current listing still to be looked at
          matched,   \* whether the current listing had any key
          exported,  \* keys of the objects copied by this run (seen, objects)
          wanted,    \* keys under the run's prefixes when it started
          runs       \* runs started so far

run == <<todo, listed, matched, exported, wanted>>
directory == <<files, manifest>>
vars == <<bucket, directory, step, run, runs>>

FileStates == {"none", "partial", "whole"}
NoManifest == [state |-> "none", objects |-> {}]
PartialManifest == [state |-> "partial", objects |-> {}]
Manifest(ks) == [state |-> "whole", objects |-> ks]

------------------------------------------------------------------------------
Init == /\ bucket \in SUBSET Keys
        /\ files = [k \in Keys |-> "none"]
        /\ manifest = NoManifest
        /\ step = "stopped"
        /\ todo = <<>>
        /\ listed = {}
        /\ matched = FALSE
        /\ exported = {}
        /\ wanted = {}
        /\ runs = 0

\* An activity stores an object (GarageWriter.Write).
Write(k) ==
  /\ k \notin bucket
  /\ bucket' = bucket \cup {k}
  /\ UNCHANGED <<directory, step, run, runs>>

\* main, and MkdirAll of the output directory, which keeps what is there.
Start ==
  /\ step \in {"stopped", "succeeded"}
  /\ runs < MaxRuns
  /\ \E ps \in Prefixes :
       /\ todo' = ps
       /\ wanted' = bucket \cap UNION {ps[i] : i \in DOMAIN ps}
  /\ step' = "listing"
  /\ listed' = {}
  /\ matched' = FALSE
  /\ exported' = {}
  /\ runs' = runs + 1
  /\ UNCHANGED <<bucket, directory>>

\* ListObjects of the next prefix: the keys there are now; after the last prefix
\* Export returns and main marshals the manifest.
List ==
  /\ step = "listing"
  /\ IF todo = <<>>
       THEN step' = "manifest" /\ UNCHANGED <<listed, matched>>
       ELSE /\ listed' = bucket \cap Head(todo)
            /\ matched' = (listed' # {})
            /\ step' = "object"
  /\ UNCHANGED <<bucket, directory, todo, exported, wanted, runs>>

\* Mutant: an object that is there already ends the listing of its prefix.
SkipRest ==
  /\ step = "object"
  /\ listed # {}
  /\ Min(listed) \in exported
  /\ listed' = {}
  /\ UNCHANGED <<bucket, directory, step, todo, matched, exported, wanted, runs>>

\* A key that another prefix has listed before is skipped.
Skip ==
  /\ step = "object"
  /\ listed # {}
  /\ Min(listed) \in exported
  /\ listed' = listed \ {Min(listed)}
  /\ UNCHANGED <<bucket, directory, step, todo, matched, exported, wanted, runs>>

\* Mutant: the destination is truncated instead of created exclusively.
OpenTruncate ==
  /\ step = "object"
  /\ listed # {}
  /\ Min(listed) \notin exported
  /\ files' = [files EXCEPT ![Min(listed)] = "partial"]
  /\ step' = "copy"
  /\ UNCHANGED <<bucket, manifest, run, runs>>

\* GetObject, then OpenFile with O_CREATE|O_EXCL: a file that is there already,
\* whoever left it, stops the run.
Open ==
  /\ step = "object"
  /\ listed # {}
  /\ Min(listed) \notin exported
  /\ IF files[Min(listed)] = "none"
       THEN files' = [files EXCEPT ![Min(listed)] = "partial"] /\ step' = "copy"
       ELSE step' = "stopped" /\ UNCHANGED files
  /\ UNCHANGED <<bucket, manifest, run, runs>>

\* io.Copy and Close; a copy that ends early, with an error or without, differs in
\* size from the object and stops the run.
Copy ==
  LET k == Min(listed) IN
  /\ step = "copy"
  /\ \/ /\ files' = [files EXCEPT ![k] = "whole"]
        /\ exported' = exported \cup {k}
        /\ listed' = listed \ {k}
        /\ step' = "object"
     \/ /\ step' = "stopped"
        /\ UNCHANGED <<files, exported, listed>>
  /\ UNCHANGED <<bucket, manifest, todo, matched, wanted, runs>>

\* The listing is through; a prefix without any object stops the run.
NextPrefix ==
  /\ step = "object"
  /\ listed = {}
  /\ IF matched
       THEN todo' = Tail(todo) /\ step' = "listing"
       ELSE step' = "stopped" /\ UNCHANGED todo
  /\ UNCHANGED <<bucket, directory, listed, matched, exported, wanted, runs>>

\* os.WriteFile truncates manifest.json, then writes it; main prints and exits with 0.
OpenManifest ==
  /\ step = "manifest"
  /\ manifest' = PartialManifest
  /\ step' = "writing"
  /\ UNCHANGED <<bucket, files, run, runs>>

WriteManifest ==
  /\ step = "writing"
  /\ manifest' = Manifest(exported)
  /\ step' = "succeeded"
  /\ UNCHANGED <<bucket, files, run, runs>>

\* Garage or the file system fails, or the process is killed: fatal, exit status 1.
Stop ==
  /\ step \notin {"stopped", "succeeded"}
  /\ step' = "stopped"
  /\ UNCHANGED <<bucket, directory, run, runs>>

Next == \/ \E k \in Keys : Write(k)
        \/ Start \/ List \/ Skip \/ Open \/ Copy \/ NextPrefix
        \/ OpenManifest \/ WriteManifest \/ Stop

Spec == Init /\ [][Next]_vars

------------------------------------------------------------------------------
(* Properties. *)

\* A manifest that can be read describes files that are there whole, through any
\* number of stopped and repeated runs into the directory: no run touches a file an
\* earlier manifest describes, and none describes a copy it did not finish.
ManifestIsTrue == \A k \in manifest.objects : files[k] = "whole"

\* A run that exits with 0 has described every object that was under its prefixes
\* when it started, also where the prefixes overlap and activities go on writing.
SuccessIsComplete == step = "succeeded" => wanted \subseteq manifest.objects
=============================================================================
