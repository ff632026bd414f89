------------------------- MODULE ArtifactExportProofs -------------------------
(***************************************************************************)
(* Artifact export for any keys, prefixes and number of runs: the manifest *)
(* describes only whole files, and a run that succeeds has described all   *)
(* that was under its prefixes when it started.                            *)
(***************************************************************************)
EXTENDS ArtifactExport, Integers, WellFoundedInduction, TLAPS

Steps == {"stopped", "listing", "object", "copy", "manifest", "writing", "succeeded"}

TypeOK ==
  /\ bucket \in SUBSET Keys
  /\ files \in [Keys -> FileStates]
  /\ manifest \in [state : {"none", "partial", "whole"}, objects : SUBSET Keys]
  /\ step \in Steps
  /\ todo \in Seq(SUBSET Keys)
  /\ listed \in SUBSET Keys
  /\ exported \in SUBSET Keys
  /\ wanted \in SUBSET bucket

\* The prefixes a run has not finished: all of todo, or all but the one it is listing.
ToList(k) == \E i \in DOMAIN todo : /\ k \in todo[i]
                                    /\ step \in {"object", "copy"} => i # 1

\* What has been copied is whole, whether this run or the manifest says so; the file
\* being copied is neither.
CopiesOK == /\ \A k \in exported \cup manifest.objects : files[k] = "whole"
            /\ step = "copy" => listed # {} /\ files[Min(listed)] = "partial"
            /\ step \in {"object", "copy"} => todo # <<>>

\* Each object wanted from a run under way is copied, listed, or under a prefix to come.
WantedOK == \A k \in wanted :
  /\ step = "listing" => k \in exported \/ ToList(k)
  /\ step \in {"object", "copy"} => k \in exported \/ k \in listed \/ ToList(k)
  /\ step \in {"manifest", "writing"} => k \in exported
  /\ step = "succeeded" => k \in manifest.objects

IInv == TypeOK /\ CopiesOK /\ WantedOK

------------------------------------------------------------------------------
(* The first key of a listing. *)

\* Every nonempty set of numbers has a least one.
LEMMA LeastNumber ==
  ASSUME NEW S \in SUBSET Nat, S # {}
  PROVE  \E m \in S : \A k \in S : m <= k
  <1>. DEFINE R == {ss \in Nat \X Nat : ss[1] < ss[2]}
  <1>1. IsWellFoundedOn(R, Nat)
    BY NatLessThanWellFounded DEF OpToRel
  <1>2. \A k, m \in Nat : <<k, m>> \notin R => m <= k
    OBVIOUS
  <1>. HIDE DEF R
  <1>3. PICK m \in S : \A k \in S : ~(<<k, m>> \in R)
    BY <1>1, WFMin
  <1>. QED BY <1>2, <1>3

\* Min picks a member of the listing.
LEMMA MinIsListed == ASSUME NEW S \in SUBSET Keys, S # {} PROVE Min(S) \in S
  <1>1. \E m \in S : \A k \in S : m <= k
    BY LeastNumber, PrefixesAssumption
  <1>. QED BY <1>1 DEF Min

------------------------------------------------------------------------------
(* The invariant. *)

\* In the initial states no run has been started and nothing is copied.
LEMMA InvariantInit == Init => IInv
  BY DEF Init, IInv, TypeOK, CopiesOK, WantedOK, NoManifest, FileStates, Steps

\* Each step of a run, and each object written meanwhile, keeps the invariant.
LEMMA InvariantStep == IInv /\ [Next]_vars => IInv'
  <1> SUFFICES ASSUME IInv, [Next]_vars PROVE IInv'
    OBVIOUS
  <1> USE DEF directory, run, FileStates, Steps
  <1>0. TypeOK /\ CopiesOK /\ WantedOK
    BY DEF IInv
  <1>m. listed # {} => Min(listed) \in listed
    BY <1>0, MinIsListed DEF TypeOK
  <1>1. ASSUME NEW k \in Keys, Write(k) PROVE IInv'
    BY <1>0, <1>1 DEF Write, IInv, TypeOK, CopiesOK, WantedOK, ToList
  <1>2. CASE Start
    <2>1. PICK ps \in Prefixes : /\ todo' = ps
                                 /\ wanted' = bucket \cap UNION {ps[i] : i \in DOMAIN ps}
      BY <1>2 DEF Start
    <2>2. ps \in Seq(SUBSET Keys)
      BY PrefixesAssumption
    <2>3. TypeOK' /\ CopiesOK'
      BY <1>0, <1>2, <2>1, <2>2 DEF Start, TypeOK, CopiesOK
    <2>4. \A k \in wanted' : \E i \in DOMAIN ps : k \in ps[i]
      BY <2>1
    <2>5. WantedOK'
      BY <1>2, <2>1, <2>4 DEF Start, WantedOK, ToList
    <2>. QED BY <2>3, <2>5 DEF IInv
  <1>3. CASE List
    <2>1. CASE todo = <<>>
      BY <1>0, <1>3, <2>1 DEF List, IInv, TypeOK, CopiesOK, WantedOK, ToList
    <2>2. CASE todo # <<>>
      <3>1. TypeOK' /\ CopiesOK'
        BY <1>0, <1>3, <2>2 DEF List, TypeOK, CopiesOK
      <3>2. \A k \in wanted : ToList(k) => k \in listed' \/ ToList(k)'
        BY <1>0, <1>3, <2>2 DEF List, TypeOK, ToList
      <3>3. WantedOK'
        BY <1>0, <1>3, <2>2, <3>2 DEF List, WantedOK
      <3>. QED BY <3>1, <3>3 DEF IInv
    <2>. QED BY <2>1, <2>2
  <1>4. CASE Skip
    BY <1>0, <1>4, <1>m DEF Skip, IInv, TypeOK, CopiesOK, WantedOK, ToList
  <1>5. CASE Open
    <2>1. Min(listed) \in Keys /\ Min(listed) \notin exported
      BY <1>0, <1>5, <1>m DEF Open, TypeOK
    <2>2. files[Min(listed)] = "none" => Min(listed) \notin manifest.objects
      BY <1>0 DEF CopiesOK
    <2>. QED BY <1>0, <1>5, <2>1, <2>2 DEF Open, IInv, TypeOK, CopiesOK, WantedOK, ToList
  <1>6. CASE Copy
    <2>1. Min(listed) \in listed /\ Min(listed) \in Keys
      BY <1>0, <1>6, <1>m DEF Copy, TypeOK, CopiesOK
    <2>. QED BY <1>0, <1>6, <2>1 DEF Copy, IInv, TypeOK, CopiesOK, WantedOK, ToList
  <1>7. CASE NextPrefix
    <2>1. CASE ~matched
      BY <1>0, <1>7, <2>1 DEF NextPrefix, IInv, TypeOK, CopiesOK, WantedOK
    <2>2. CASE matched
      <3>1. todo # <<>> /\ todo' = Tail(todo) /\ step' = "listing"
        BY <1>0, <1>7, <2>2 DEF NextPrefix, CopiesOK
      <3>2. TypeOK' /\ CopiesOK'
        BY <1>0, <1>7, <3>1 DEF NextPrefix, TypeOK, CopiesOK
      <3>3. ASSUME NEW k \in wanted, ToList(k) PROVE ToList(k)'
        <4>1. PICK i \in DOMAIN todo : k \in todo[i] /\ i # 1
          BY <1>7, <3>3 DEF NextPrefix, ToList
        <4>2. i - 1 \in DOMAIN todo' /\ todo'[i - 1] = todo[i]
          BY <1>0, <3>1, <4>1 DEF TypeOK
        <4>. QED BY <3>1, <4>1, <4>2 DEF ToList
      <3>4. WantedOK'
        BY <1>0, <1>7, <3>1, <3>3 DEF NextPrefix, WantedOK
      <3>. QED BY <3>2, <3>4 DEF IInv
    <2>. QED BY <2>1, <2>2
  <1>8. CASE OpenManifest
    BY <1>0, <1>8 DEF OpenManifest, PartialManifest, IInv, TypeOK, CopiesOK, WantedOK, ToList
  <1>9. CASE WriteManifest
    BY <1>0, <1>9 DEF WriteManifest, Manifest, IInv, TypeOK, CopiesOK, WantedOK
  <1>10. CASE Stop
    BY <1>0, <1>10 DEF Stop, IInv, TypeOK, CopiesOK, WantedOK
  <1>11. CASE UNCHANGED vars
    BY <1>0, <1>11 DEF vars, IInv, TypeOK, CopiesOK, WantedOK, ToList
  <1>. QED BY <1>1, <1>2, <1>3, <1>4, <1>5, <1>6, <1>7, <1>8, <1>9, <1>10, <1>11 DEF Next

\* Copies and manifest agree, and no wanted object gets lost, at every step of any
\* number of runs of captureartifacts into a directory.
THEOREM ExportInvariant == Spec => []IInv
  BY InvariantInit, InvariantStep, PTL DEF Spec

\* GarageWriter.Export never leaves a readable manifest that describes a file that is
\* missing or cut short, whatever earlier runs left in the directory.
THEOREM ExportManifestIsTrue == Spec => []ManifestIsTrue
  <1>1. IInv => ManifestIsTrue
    BY DEF IInv, CopiesOK, ManifestIsTrue
  <1>. QED BY <1>1, ExportInvariant, PTL

\* A run of captureartifacts that exits with 0 has every object that its prefixes
\* covered when it started in its manifest.
THEOREM ExportSuccessIsComplete == Spec => []SuccessIsComplete
  <1>1. IInv => SuccessIsComplete
    BY DEF IInv, WantedOK, SuccessIsComplete
  <1>. QED BY <1>1, ExportInvariant, PTL
=============================================================================
