----------------------------- MODULE GitOpsGate -----------------------------
(***************************************************************************)
(* scripts/gitops_safety.py: `snapshot` writes sanitized evidence of the   *)
(* live Deployment to a new file; `check` inspects the sources, renders    *)
(* the overlays one after the other and compares the evidence with them.   *)
(* Meanwhile the cluster and the checkout go on changing: every source is  *)
(* read on its own, and again by every rendering that is built from it.    *)
(* Several snapshots may be asked to write the same file, and one may be   *)
(* killed while it writes.                                                 *)
(***************************************************************************)
CONSTANTS
    Snapshots,   \* runs of `snapshot`, all with the same --output
    Nobody,
    Sources,     \* files below gitops/
    BuiltFrom    \* the sources of each of the PATHS, with the bases it refers to

\* What is rendered, in this order.
PATHS == {"dev", "rollback", "argocd"}

ASSUME SnapshotsAssumption == Nobody \notin Snapshots
ASSUME SourcesAssumption == BuiltFrom \in [PATHS -> SUBSET Sources]

\* The parts of a check that read the checkout: the inspection, which reads every
\* source, and the three renderings.
Parts == {"sources"} \cup PATHS
FilesOf(part) == IF part = "sources" THEN Sources ELSE BuiltFrom[part]

\* What can be wrong with a source: its form, with which the inspection finds
\* fault (links, remote references, generators, inline values, the environment of
\* the two patches), or its content, which makes what is built from it differ from
\* the exact contract.
Faults == {"form", "content"}
Concern(part) == IF part = "sources" THEN "form" ELSE "content"

\* In what the live Deployment can differ from the reviewed contract: in what has
\* been reviewed (its spec, the protected annotations, those Argo adds), or by
\* annotations nobody has reviewed.
Defects == {"reviewed", "unreviewed"}

VARIABLES
    repo,        \* the faults of the checkout, [source, fault] pairs
    snap,        \* where each run of `snapshot` stands
    raw,         \* what kubectl answered it
    file,        \* the run that created the file at --output
    written,     \* that run has written all of it
    check,       \* "new", a part, "validate", "compare", "PASS" or "FAIL"
    unread,      \* the files that part has still to read
    compares,    \* --live-snapshot was given
    flawed,      \* it has rendered something that is not the exact contract
    neverRight,  \* history: files of the part that have been faulty ever since the
                 \* part before it was read
    missed       \* history: parts during the whole of which one of their files
                 \* was faulty

snapVars == <<snap, raw, file, written>>
checkVars == <<check, unread, compares, flawed>>
readHistory == <<neverRight, missed>>
gateVars == <<repo, snapVars, checkVars, readHistory>>

Init ==
    /\ repo \in SUBSET (Sources \X Faults)
    /\ snap = [s \in Snapshots |-> "new"] /\ raw = [s \in Snapshots |-> Nobody]
    /\ file = Nobody /\ written = FALSE
    /\ check = "new" /\ unread = {} /\ compares \in BOOLEAN /\ flawed = FALSE
    /\ neverRight = {} /\ missed = {}

----------------------------------------------------------------------------
(* snapshot_to_file *)

SnapTo(s, point) == snap' = [snap EXCEPT ![s] = point]
SnapOnly == UNCHANGED <<repo, checkVars, readHistory>>

FindPathFree(s) ==
    /\ snap[s] = "new"
    /\ SnapTo(s, IF file = Nobody THEN "get" ELSE "FAIL")
    /\ UNCHANGED <<raw, file, written>> /\ SnapOnly

\* What sanitize_live can turn into evidence: the reviewed spec, every protected
\* annotation, nothing else in the place of a known one.  Annotations it does
\* not know are hashed.
Sanitizable(defects) == defects \subseteq {"unreviewed"}

\* Controllers and people change the Deployment at any time, so kubectl may find
\* it in any state, whatever another run found.
GetLive(s) ==
    /\ snap[s] = "get"
    /\ \E defects \in SUBSET Defects :
          IF Sanitizable(defects)
          THEN raw' = [raw EXCEPT ![s] = defects] /\ SnapTo(s, "open")
          ELSE UNCHANGED raw /\ SnapTo(s, "FAIL")
    /\ UNCHANGED <<file, written>> /\ SnapOnly

BugTruncateFile(s) ==
    /\ snap[s] = "open"
    /\ file' = s /\ written' = FALSE
    /\ SnapTo(s, "write")
    /\ UNCHANGED raw /\ SnapOnly

\* O_CREAT with O_EXCL
OpenFile(s) ==
    /\ snap[s] = "open"
    /\ IF file = Nobody
       THEN file' = s /\ SnapTo(s, "write")
       ELSE UNCHANGED file /\ SnapTo(s, "FAIL")
    /\ UNCHANGED <<raw, written>> /\ SnapOnly

WriteFile(s) ==
    /\ snap[s] = "write"
    /\ written' = TRUE
    /\ SnapTo(s, "PASS")
    /\ UNCHANGED <<raw, file>> /\ SnapOnly

\* kubectl fails or times out, the write fails, or the run is killed; what it
\* has written by then, nothing, a part or all, stays.
SnapshotFails(s) ==
    /\ snap[s] \notin {"PASS", "FAIL"}
    /\ SnapTo(s, "FAIL")
    /\ written' \in {written, written \/ snap[s] = "write"}
    /\ UNCHANGED <<raw, file>> /\ SnapOnly

----------------------------------------------------------------------------
(* check *)

CheckOnly == UNCHANGED <<repo, snapVars>>

StartReading(part) ==
    /\ check' = part
    /\ unread' = FilesOf(part)
    /\ neverRight' = {f \in FilesOf(part) : <<f, Concern(part)>> \in repo}

Begin ==
    /\ check = "new"
    /\ StartReading("sources")
    /\ UNCHANGED <<compares, flawed, missed>> /\ CheckOnly

\* inspect_sources, one file after the other: it raises at the first fault.
InspectSource(f) ==
    /\ check = "sources" /\ f \in unread
    /\ IF <<f, "form">> \in repo
       THEN check' = "FAIL" /\ UNCHANGED unread
       ELSE unread' = unread \ {f} /\ UNCHANGED check
    /\ UNCHANGED <<compares, flawed, readHistory>> /\ CheckOnly

\* A rendering that builds upon the one before it, reusing what that one has read.
BugReuseBase(f) ==
    /\ check \in PATHS /\ f \in unread
    /\ unread' = unread \ {f}
    /\ flawed' = (flawed \/ ( /\ <<f, "content">> \in repo
                              /\ check = "rollback" => f \notin BuiltFrom["dev"]))
    /\ UNCHANGED <<check, compares, readHistory>> /\ CheckOnly

\* kustomize reads the sources of a path once more.  What it makes of a faulty one
\* is not the exact contract, which shows when all three have been rendered.
RenderSource(f) ==
    /\ check \in PATHS /\ f \in unread
    /\ unread' = unread \ {f}
    /\ flawed' = (flawed \/ <<f, "content">> \in repo)
    /\ UNCHANGED <<check, compares, readHistory>> /\ CheckOnly

Following == [sources |-> "dev", dev |-> "rollback", rollback |-> "argocd"]

EndPart ==
    /\ check \in Parts /\ unread = {}
    /\ missed' = IF neverRight = {} THEN missed ELSE missed \cup {check}
    /\ IF check = "argocd"
       THEN check' = "validate" /\ neverRight' = {} /\ UNCHANGED unread
       ELSE StartReading(Following[check])
    /\ UNCHANGED <<compares, flawed>> /\ CheckOnly

ValidateRendered ==
    /\ check = "validate"
    /\ \/ flawed /\ check' = "FAIL"
       \/ ~flawed /\ check' = IF compares THEN "compare" ELSE "PASS"
    /\ UNCHANGED <<unread, compares, flawed, readHistory>> /\ CheckOnly

BugIgnoreHashes(defects) == Sanitizable(defects)
\* compare_live: the hashes show that there were unreviewed annotations.
Comparable(defects) == defects = {}

\* No file, or one that ends early and is no JSON, fails as well.
CompareLive ==
    /\ check = "compare"
    /\ check' = IF file # Nobody /\ written /\ Comparable(raw[file]) THEN "PASS" ELSE "FAIL"
    /\ UNCHANGED <<unread, compares, flawed, readHistory>> /\ CheckOnly

\* Rendering fails or times out, or a file cannot be read.
CheckFails ==
    /\ check \notin {"PASS", "FAIL"}
    /\ check' = "FAIL"
    /\ UNCHANGED <<unread, compares, flawed, readHistory>> /\ CheckOnly

----------------------------------------------------------------------------
(* The checkout *)

RepoChanges ==
    /\ \E p \in Sources \X Faults : repo' \in {repo \cup {p}, repo \ {p}}
    /\ neverRight' = {f \in neverRight : <<f, Concern(check)>> \in repo'}
    /\ UNCHANGED <<snapVars, checkVars, missed>>

Next ==
    \/ \E s \in Snapshots :
           FindPathFree(s) \/ GetLive(s) \/ OpenFile(s) \/ WriteFile(s) \/ SnapshotFails(s)
    \/ \E f \in Sources : InspectSource(f) \/ RenderSource(f)
    \/ Begin \/ EndPart \/ ValidateRendered \/ CompareLive \/ CheckFails
    \/ RepoChanges

Spec == Init /\ [][Next]_gateVars

----------------------------------------------------------------------------
\* A comparison that passes rests on one moment at which the live Deployment had
\* the reviewed spec, every protected annotation and nothing unreviewed, whatever
\* became of it before, between and after the two commands.
PassRestsOnLive ==
    check = "PASS" /\ compares => \E s \in Snapshots : file = s /\ raw[s] = {}

\* A check passes only if every source had the right form at some moment of the
\* inspection, and every file that a path is built from had the reviewed content at
\* some moment of that rendering.  An inspection that passed vouches for no later
\* content, and a file that two paths share has been judged for each of them.
\* (It need not be one moment for all files, and the form is not looked at again.)
PassReadAsReviewed == check = "PASS" => missed = {}

\* One snapshot at most reports success for a path, and the evidence at that
\* path is then its own and complete: no other run replaces or truncates it.
EvidenceIsFinal ==
    \A s \in Snapshots : snap[s] = "PASS" => file = s /\ written
=============================================================================
