---------------------------- MODULE GitOpsProofs ----------------------------
(***************************************************************************)
(* What a PASS of scripts/gitops_safety.py means, for any number of        *)
(* snapshot runs and any sources.                                          *)
(***************************************************************************)
EXTENDS GitOpsGate, TLAPS

TypeInv ==
    /\ snap \in [Snapshots -> {"new", "get", "open", "write", "PASS", "FAIL"}]
    /\ raw \in [Snapshots -> (SUBSET Defects) \cup {Nobody}]
    /\ file \in Snapshots \cup {Nobody} /\ written \in BOOLEAN
    /\ check \in {"new", "validate", "compare", "PASS", "FAIL"} \cup Parts
    /\ compares \in BOOLEAN /\ flawed \in BOOLEAN

\* The file belongs to one run for good: that run is past kubectl's answer, and
\* only it can be writing or have reported success.
FileInv ==
    /\ \A s \in Snapshots :
        /\ snap[s] \in {"write", "PASS"} => file = s
        /\ snap[s] = "PASS" => written
        /\ file = s => snap[s] \in {"write", "PASS", "FAIL"}

\* A file that has been faulty all through its part has not been read in it, or has
\* left its mark; so has every part that missed one.
CheckInv ==
    /\ check \in Parts => \A f \in neverRight : <<f, Concern(check)>> \in repo
    /\ ~flawed => missed = {} /\ neverRight \subseteq unread
    /\ check \in {"new", "sources"} => ~flawed
    /\ check \in {"compare", "PASS"} => ~flawed

IInv == TypeInv /\ FileInv /\ CheckInv /\ PassRestsOnLive

LEMMA InitIInv == Init => IInv
  BY SnapshotsAssumption DEF Init, IInv, TypeInv, FileInv, CheckInv, PassRestsOnLive

\* A snapshot run changes no other run, and nothing the check has read already.
LEMMA SnapshotPreserves ==
    ASSUME IInv, NEW s \in Snapshots,
           FindPathFree(s) \/ GetLive(s) \/ OpenFile(s) \/ WriteFile(s) \/ SnapshotFails(s)
    PROVE  IInv'
  <1> USE SnapshotsAssumption DEF SnapTo, SnapOnly, checkVars, readHistory
  <1>0. TypeInv /\ FileInv /\ CheckInv /\ PassRestsOnLive
    BY DEF IInv
  <1>1. UNCHANGED <<repo, check, unread, compares, flawed, neverRight, missed>>
    BY DEF FindPathFree, GetLive, OpenFile, WriteFile, SnapshotFails
  <1>2. CheckInv'
    BY <1>0, <1>1 DEF CheckInv
  <1>3. TypeInv' /\ FileInv' /\ PassRestsOnLive'
    <2>1. CASE FindPathFree(s)
      BY <1>0, <2>1 DEF FindPathFree, TypeInv, FileInv, PassRestsOnLive
    <2>2. CASE GetLive(s)
      <3>1. file # s
        BY <1>0, <2>2 DEF GetLive, FileInv
      <3>2. raw' \in [Snapshots -> (SUBSET Defects) \cup {Nobody}]
        BY <1>0, <2>2 DEF GetLive, TypeInv, Sanitizable, Defects
      <3> QED BY <1>0, <2>2, <3>1, <3>2 DEF GetLive, TypeInv, FileInv, PassRestsOnLive
    <2>3. CASE OpenFile(s)
      BY <1>0, <2>3 DEF OpenFile, TypeInv, FileInv, PassRestsOnLive
    <2>4. CASE WriteFile(s)
      BY <1>0, <2>4 DEF WriteFile, TypeInv, FileInv, PassRestsOnLive
    <2>5. CASE SnapshotFails(s)
      BY <1>0, <2>5 DEF SnapshotFails, TypeInv, FileInv, PassRestsOnLive
    <2> QED BY <2>1, <2>2, <2>3, <2>4, <2>5
  <1> QED BY <1>2, <1>3 DEF IInv

\* A step of the check takes one file off those to be read, which is right in that
\* moment or leaves its mark, and goes on to the next part with all of them read.
LEMMA CheckPreserves ==
    ASSUME IInv,
           \/ \E f \in Sources : InspectSource(f) \/ RenderSource(f)
           \/ Begin \/ EndPart \/ ValidateRendered \/ CompareLive \/ CheckFails
    PROVE  IInv'
  <1> USE DEF CheckOnly, snapVars, readHistory
  <1>0. TypeInv /\ FileInv /\ CheckInv /\ PassRestsOnLive
    BY DEF IInv
  <1>1. UNCHANGED <<repo, snap, raw, file, written, compares>>
    BY DEF Begin, InspectSource, RenderSource, EndPart, ValidateRendered, CompareLive, CheckFails
  <1>2. FileInv'
    BY <1>0, <1>1 DEF FileInv
  <1>3. TypeInv' /\ CheckInv' /\ PassRestsOnLive'
    <2> USE <1>0, <1>1 DEF TypeInv, CheckInv, PassRestsOnLive, Parts, PATHS
    <2>1. CASE Begin
      BY <2>1 DEF Begin, StartReading
    <2>2. ASSUME NEW f \in Sources, InspectSource(f)
          PROVE  TypeInv' /\ CheckInv' /\ PassRestsOnLive'
      <3>1. CASE <<f, "form">> \in repo
        BY <2>2, <3>1 DEF InspectSource, Concern
      <3>2. CASE <<f, "form">> \notin repo
        <4>1. f \notin neverRight
          BY <2>2, <3>2 DEF InspectSource, Concern
        <4> QED BY <2>2, <3>2, <4>1 DEF InspectSource
      <3> QED BY <3>1, <3>2
    <2>3. ASSUME NEW f \in Sources, RenderSource(f)
          PROVE  TypeInv' /\ CheckInv' /\ PassRestsOnLive'
      <3>1. <<f, "content">> \notin repo => f \notin neverRight
        BY <2>3 DEF RenderSource, Concern
      <3> QED BY <2>3, <3>1 DEF RenderSource
    <2>4. CASE EndPart
      <3>1. ~flawed => neverRight = {}
        BY <2>4 DEF EndPart
      <3>2. flawed' = flawed /\ (~flawed => missed' = {})
        BY <2>4, <3>1 DEF EndPart
      <3>3. CASE check = "argocd"
        BY <2>4, <3>2, <3>3 DEF EndPart
      <3>4. CASE check # "argocd"
        <4>1. check' \in PATHS /\ StartReading(check')
          BY <2>4, <3>4 DEF EndPart, Following, StartReading
        <4>2. neverRight' \subseteq unread' /\ \A f \in neverRight' : <<f, Concern(check')>> \in repo
          BY <4>1 DEF StartReading
        <4> QED BY <2>4, <3>2, <4>1, <4>2
      <3> QED BY <3>3, <3>4
    <2>5. CASE ValidateRendered
      <3>1. check' \in {"FAIL", "compare", "PASS"} /\ check = "validate" /\ neverRight' = neverRight
        BY <2>5 DEF ValidateRendered
      <3>2. Concern(check') = Concern(check)
        BY <3>1 DEF Concern
      <3>3. CASE flawed
        BY <2>5, <3>1, <3>2, <3>3 DEF ValidateRendered
      <3>4. CASE ~flawed /\ compares
        BY <2>5, <3>1, <3>2, <3>4 DEF ValidateRendered
      <3>5. CASE ~flawed /\ ~compares
        BY <2>5, <3>1, <3>2, <3>5 DEF ValidateRendered
      <3> QED BY <3>3, <3>4, <3>5
    <2>6. CASE CompareLive
      <3>1. Concern(check') = Concern(check)
        BY <2>6 DEF CompareLive, Concern
      <3> QED BY <2>6, <3>1 DEF CompareLive, Comparable
    <2>7. CASE CheckFails
      BY <2>7 DEF CheckFails, Concern
    <2> QED BY <2>1, <2>2, <2>3, <2>4, <2>5, <2>6, <2>7
  <1> QED BY <1>2, <1>3 DEF IInv

\* The gate holds for every number of snapshot runs, every set of sources and
\* whatever is built from them: its files, its reads and its evidence fit together
\* in every reachable state.
THEOREM InductiveInvariant == Spec => []IInv
  <1>1. Init => IInv
    BY InitIInv
  <1>2. IInv /\ [Next]_gateVars => IInv'
    <2> SUFFICES ASSUME IInv, [Next]_gateVars PROVE IInv'
      OBVIOUS
    <2>1. CASE RepoChanges
      BY <2>1 DEF RepoChanges, IInv, TypeInv, FileInv, CheckInv, PassRestsOnLive,
                  snapVars, checkVars
    <2>2. CASE UNCHANGED gateVars
      BY <2>2 DEF gateVars, snapVars, checkVars, readHistory, IInv, TypeInv, FileInv,
                  CheckInv, PassRestsOnLive
    <2> QED BY <2>1, <2>2, SnapshotPreserves, CheckPreserves DEF Next
  <1> QED BY <1>1, <1>2, PTL DEF Spec

\* scripts/gitops_safety.py, compare_live: a PASS rests on one state of the live
\* Deployment without any defect.
THEOREM PassNeedsEvidence == Spec => []PassRestsOnLive
  <1>1. IInv => PassRestsOnLive
    BY DEF IInv
  <1> QED BY <1>1, InductiveInvariant, PTL

\* scripts/gitops_safety.py, check: whatever edits the checkout sees between two
\* reads, a check that passes has seen the right form of every source, and the
\* reviewed content of every file of a path while it rendered that path.
THEOREM PassReadEverything == Spec => []PassReadAsReviewed
  <1>1. IInv => PassReadAsReviewed
    BY DEF IInv, CheckInv, PassReadAsReviewed
  <1> QED BY <1>1, InductiveInvariant, PTL

\* scripts/gitops_safety.py, snapshot_to_file: of all runs with one output path
\* one at most succeeds, and what it wrote stays.
THEOREM EvidenceKept == Spec => []EvidenceIsFinal
  <1>1. IInv => EvidenceIsFinal
    BY DEF IInv, FileInv, EvidenceIsFinal
  <1> QED BY <1>1, InductiveInvariant, PTL
=============================================================================
