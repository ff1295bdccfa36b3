---------------------------- MODULE BackupProofs ----------------------------
(***************************************************************************)
(* Proofs about BackupRestore, for any number of overlapping backup and    *)
(* restore runs and any dumps: what is published is right, is complete,    *)
(* belongs to one run and stays.                                           *)
(***************************************************************************)
EXTENDS BackupRestore, TLAPS

\* Points from which on a backup knows its bytes, its version, and that S3
\* stores the ones under the other; and from which on its file is complete.
HasBytes == {"put", "check", "write", "sync", "link", "unlink"}
HasVersion == HasBytes \ {"put"}
HasChecked == HasVersion \ {"check"}
HasFile == {"link", "unlink"}
\* Points at which a restore works from the published manifest.
HasManifest == {"exists", "write", "sync", "link", "unlink"}

Points == HasBytes \cup {"new", "read", "exists", "exited", "crashed"}

Files == {NoFile, Partial, Foreign} \cup {Manifest(v, d) : v \in Nat, d \in Contents}
            \cup {Dump(d) : d \in Contents}

TypeInv ==
    /\ pc \in [Runs -> Points]
    /\ code \in [Runs -> 0..2]
    /\ payload \in [Runs -> Contents]
    /\ version \in [Runs -> Nat]
    /\ temp \in [Runs -> Files]
    /\ file \in [Paths -> Files]
    /\ bucket \in Seq(Contents)
    /\ dump \in Dumps

\* The run has published and has not failed since.
Owns(r) == pc[r] = "unlink" \/ code[r] = 0

BackupInv(b) ==
    /\ pc[b] \in HasBytes => payload[b] \in Dumps
    /\ pc[b] \in HasVersion => version[b] \in 1..Len(bucket)
    /\ pc[b] \in HasChecked => bucket[version[b]] = payload[b]
    /\ pc[b] \in HasFile => temp[b] = Manifest(version[b], payload[b])
    /\ Owns(b) => file["manifest"] = Manifest(version[b], payload[b])

RestoreInv(r) ==
    /\ pc[r] \in HasManifest =>
          file["manifest"] = Manifest(version[r], payload[r])
    /\ pc[r] \in HasFile => temp[r] = Dump(payload[r])
    /\ Owns(r) => file["output"] = Dump(payload[r])

ExitInv(r) == code[r] = 0 => pc[r] = "exited" /\ temp[r] = NoFile

ManifestInv ==
    \/ file["manifest"] \in {NoFile, Foreign}
    \/ \E v \in 1..Len(bucket) :
          bucket[v] \in Dumps /\ file["manifest"] = Manifest(v, bucket[v])

OutputInv ==
    \/ file["output"] \in {NoFile, Foreign}
    \/ \E v \in 1..Len(bucket) :
          /\ bucket[v] \in Dumps
          /\ file["manifest"] = Manifest(v, bucket[v])
          /\ file["output"] = Dump(bucket[v])

OneOwner ==
    \A r, s \in Runs : Owns(r) /\ Owns(s) /\ Path(r) = Path(s) => r = s

IInv ==
    /\ TypeInv
    /\ \A b \in Backups : BackupInv(b)
    /\ \A r \in Restores : RestoreInv(r)
    /\ \A r \in Runs : ExitInv(r)
    /\ ManifestInv
    /\ OutputInv
    /\ OneOwner

----------------------------------------------------------------------------
(* What a step of one run means for the others *)

\* Only run r moves; what is published and what is stored stay.
OnlyRun(r) ==
    /\ \A s \in Runs \ {r} :
          /\ pc'[s] = pc[s] /\ code'[s] = code[s] /\ payload'[s] = payload[s]
          /\ version'[s] = version[s] /\ temp'[s] = temp[s]
    /\ \A p \in Paths : file[p] # NoFile => file'[p] = file[p]
    /\ Len(bucket) <= Len(bucket')
    /\ \A v \in 1..Len(bucket) : bucket'[v] = bucket[v]

OwnInv(r) ==
    /\ r \in Backups => BackupInv(r)
    /\ r \in Restores => RestoreInv(r)
    /\ ExitInv(r)

LEMMA KindsDiffer ==
    ASSUME NEW v, NEW d
    PROVE  /\ Manifest(v, d) # NoFile /\ Manifest(v, d) # Foreign
           /\ Dump(d) # NoFile /\ Dump(d) # Foreign
           /\ Manifest(v, d).kind = "manifest" /\ Dump(d).kind = "dump"
           /\ Manifest(v, d).version = v /\ Manifest(v, d).sha = d /\ Dump(d).data = d
           /\ NoFile # Foreign /\ NoFile # Partial
           /\ NoFile.kind = "none" /\ Foreign.kind = "foreign"
PROOF
  <1>1. /\ Manifest(v, d).kind = "manifest" /\ Manifest(v, d).version = v
        /\ Manifest(v, d).sha = d
    BY DEF Manifest
  <1>2. Dump(d).kind = "dump" /\ Dump(d).data = d
    BY DEF Dump
  <1>3. NoFile.kind = "none" /\ Foreign.kind = "foreign" /\ Partial.kind = "partial"
    BY DEF NoFile, Foreign, Partial
  <1> QED
    BY <1>1, <1>2, <1>3

LEMMA FilesAre ==
    /\ NoFile \in Files /\ Partial \in Files /\ Foreign \in Files
    /\ \A v \in Nat, d \in Contents : Manifest(v, d) \in Files
    /\ \A d \in Contents : Dump(d) \in Files
PROOF BY DEF Files

\* What holds of a run keeps holding while others move.
LEMMA OthersKeep ==
    ASSUME IInv, NEW r \in Runs, OnlyRun(r), NEW s \in Runs \ {r}
    PROVE  OwnInv(s)' /\ (Owns(s)' <=> Owns(s))
PROOF
  <1>1. /\ pc'[s] = pc[s] /\ code'[s] = code[s] /\ payload'[s] = payload[s]
        /\ version'[s] = version[s] /\ temp'[s] = temp[s]
    BY DEF OnlyRun
  <1>2. Owns(s)' <=> Owns(s)
    BY <1>1 DEF Owns
  <1>3. \A v, d : file["manifest"] = Manifest(v, d) => file'["manifest"] = Manifest(v, d)
    BY KindsDiffer DEF OnlyRun, Paths
  <1>4. \A d : file["output"] = Dump(d) => file'["output"] = Dump(d)
    BY KindsDiffer DEF OnlyRun, Paths
  <1>5. ASSUME s \in Backups PROVE BackupInv(s)'
    <2>1. BackupInv(s)
      BY <1>5 DEF IInv
    <2>2. pc[s] \in HasVersion =>
             version[s] \in 1..Len(bucket') /\ bucket'[version[s]] = bucket[version[s]]
      BY <2>1 DEF BackupInv, OnlyRun, IInv, TypeInv
    <2> QED
      BY <1>1, <1>2, <1>3, <2>1, <2>2
      DEF BackupInv, HasBytes, HasVersion, HasChecked
  <1>6. ASSUME s \in Restores PROVE RestoreInv(s)'
    <2>1. RestoreInv(s)
      BY <1>6 DEF IInv
    <2> QED
      BY <1>1, <1>2, <1>3, <1>4, <2>1 DEF RestoreInv
  <1>7. ExitInv(s)'
    BY <1>1 DEF IInv, ExitInv
  <1> QED
    BY <1>2, <1>5, <1>6, <1>7 DEF OwnInv

LEMMA RunsSplit ==
    ASSUME NEW r \in Runs
    PROVE  \/ r \in Backups /\ r \notin Restores
           \/ r \in Restores /\ r \notin Backups
PROOF BY BackupAssumption DEF Runs

\* Whoever owns a path sees its own file there.
LEMMA OwnedIsPublished ==
    ASSUME IInv, NEW r \in Runs, Owns(r)
    PROVE  file[Path(r)] # NoFile
PROOF
  <1>1. CASE r \in Backups
    <2>1. BackupInv(r)
      BY <1>1 DEF IInv
    <2> QED
      BY <1>1, <2>1, KindsDiffer DEF BackupInv, Path
  <1>2. CASE r \in Restores /\ r \notin Backups
    <2>1. RestoreInv(r)
      BY <1>2 DEF IInv
    <2> QED
      BY <1>2, <2>1, KindsDiffer DEF RestoreInv, Path
  <1> QED
    BY <1>1, <1>2, RunsSplit

\* A step of one run keeps the invariant if its own part of it does, and it
\* becomes the owner of no path that is taken.
LEMMA StepOfOne ==
    ASSUME IInv, NEW r \in Runs, OnlyRun(r), TypeInv', OwnInv(r)',
           ManifestInv', OutputInv',
           Owns(r)' => Owns(r) \/ file[Path(r)] = NoFile
    PROVE  IInv'
PROOF
  <1>1. \A s \in Runs : OwnInv(s)'
    BY OthersKeep
  <1>2. OneOwner'
    <2> SUFFICES ASSUME NEW s \in Runs, NEW t \in Runs,
                        Owns(s)', Owns(t)', Path(s) = Path(t), s # t
                 PROVE  FALSE
      BY DEF OneOwner
    <2>1. \A u \in Runs \ {r} : Owns(u)' => Owns(u) /\ file[Path(u)] # NoFile
      BY OthersKeep, OwnedIsPublished
    <2>2. \A u \in Runs : Owns(u)' /\ Path(u) = Path(s) => Owns(u)
      BY <2>1
    <2>3. Owns(s) /\ Owns(t)
      BY <2>2
    <2> QED
      BY <2>3 DEF IInv, OneOwner
  <1>3. /\ \A b \in Backups : BackupInv(b)'
        /\ \A s \in Restores : RestoreInv(s)'
        /\ \A s \in Runs : ExitInv(s)'
    BY <1>1 DEF OwnInv, Runs
  <1> QED
    BY <1>2, <1>3 DEF IInv

\* The published files are judged by what is stored, which only grows.
LEMMA FilesKeep ==
    ASSUME IInv, UNCHANGED file, Len(bucket) <= Len(bucket'),
           bucket' \in Seq(Contents),
           \A v \in 1..Len(bucket) : bucket'[v] = bucket[v]
    PROVE  ManifestInv' /\ OutputInv'
PROOF
  <1>1. ManifestInv /\ OutputInv /\ bucket \in Seq(Contents)
    BY DEF IInv, TypeInv
  <1>2. \A v \in 1..Len(bucket) : v \in 1..Len(bucket')
    BY <1>1
  <1>3. ManifestInv'
    BY <1>1, <1>2 DEF ManifestInv
  <1>4. OutputInv'
    BY <1>1, <1>2 DEF OutputInv
  <1> QED
    BY <1>3, <1>4

----------------------------------------------------------------------------
(* The steps *)

LEMMA FailsKeeps ==
    ASSUME IInv, NEW r \in Runs, Fails(r), pc[r] \notin {"unlink", "exited", "crashed"},
           UNCHANGED <<file, dump>>, bucket' \in Seq(Contents),
           Len(bucket) <= Len(bucket'),
           \A v \in 1..Len(bucket) : bucket'[v] = bucket[v]
    PROVE  IInv'
PROOF
  <1>1. pc'[r] = "exited" /\ code'[r] = 1
    BY DEF Fails, IInv, TypeInv
  <1>2. TypeInv'
    <2>1. pc' \in [Runs -> Points]
      BY DEF Fails, IInv, TypeInv, Points
    <2>2. temp' \in [Runs -> Files]
      BY FilesAre DEF Fails, IInv, TypeInv
    <2>3. code' \in [Runs -> 0..2]
      BY DEF Fails, IInv, TypeInv
    <2> QED
      BY <2>1, <2>2, <2>3 DEF Fails, IInv, TypeInv
  <1>3. OnlyRun(r)
    BY DEF Fails, OnlyRun, IInv, TypeInv
  <1>4. ~Owns(r)'
    BY <1>1 DEF Owns
  <1>5. OwnInv(r)'
    BY <1>1, <1>4 DEF OwnInv, BackupInv, RestoreInv, ExitInv, HasBytes, HasVersion,
                      HasChecked, HasFile, HasManifest
  <1>6. ManifestInv' /\ OutputInv'
    BY FilesKeep
  <1> QED
    BY <1>2, <1>3, <1>4, <1>5, <1>6, StepOfOne

\* A step that only goes to a point where no more is claimed of the run.
LEMMA KeepsKeeps ==
    ASSUME IInv, NEW r \in Runs, NEW point, Keeps(r, point),
           UNCHANGED <<file, bucket, dump>>, TypeInv', OwnInv(r)',
           point # "unlink", pc[r] \notin {"exited", "crashed"}
    PROVE  IInv'
PROOF
  <1>1. pc'[r] = point /\ code'[r] = code[r]
    BY DEF Keeps, Goto, IInv, TypeInv
  <1>2. OnlyRun(r)
    BY DEF Keeps, Goto, OnlyRun, IInv, TypeInv
  <1>3. Owns(r)' => Owns(r)
    BY <1>1 DEF Owns
  <1>4. ManifestInv' /\ OutputInv'
    BY FilesKeep DEF IInv, TypeInv
  <1> QED
    BY <1>2, <1>3, <1>4, StepOfOne

LEMMA MoveType ==
    ASSUME TypeInv, NEW r \in Runs, NEW point \in Points, Keeps(r, point),
           UNCHANGED <<file, bucket, dump>>
    PROVE  TypeInv' /\ pc'[r] = point
PROOF BY DEF TypeInv, Keeps, Goto

LEMMA BackupKeeps ==
    ASSUME IInv, NEW b \in Backups, Backup(b)
    PROVE  IInv'
PROOF
  <1> USE DEF Runs
  <1>0. /\ b \in Runs /\ b \notin Restores /\ TypeInv /\ BackupInv(b) /\ ExitInv(b)
        /\ Path(b) = "manifest"
    BY BackupAssumption DEF IInv, Path
  <1>1. CASE CheckManifestPath(b)
    <2>1. CASE Keeps(b, "read")
      <3>1. TypeInv' /\ pc'[b] = "read"
        BY <1>0, <1>1, <2>1, MoveType DEF CheckManifestPath, Points
      <3>2. OwnInv(b)'
        BY <1>0, <1>1, <2>1, <3>1
        DEF CheckManifestPath, OwnInv, BackupInv, ExitInv, Owns, Keeps, Goto,
            HasBytes, HasVersion, HasChecked, HasFile
      <3> QED
        BY <1>0, <1>1, <2>1, <3>1, <3>2, KeepsKeeps DEF CheckManifestPath
    <2>2. CASE Fails(b)
      BY <1>0, <1>1, <2>2, FailsKeeps DEF CheckManifestPath, TypeInv
    <2> QED
      BY <1>1, <2>1, <2>2 DEF CheckManifestPath
  <1>2. CASE ReadDump(b)
    <2>1. /\ pc[b] = "read" /\ pc'[b] = "put" /\ payload'[b] = dump
          /\ UNCHANGED <<code, version, temp, file, bucket, dump>>
      BY <1>0, <1>2 DEF ReadDump, Goto, TypeInv
    <2>2. TypeInv'
      <3>1. pc' \in [Runs -> Points]
        BY <1>0, <1>2 DEF ReadDump, Goto, TypeInv, Points, HasBytes
      <3>2. payload' \in [Runs -> Contents]
        BY <1>0, <1>2 DEF ReadDump, TypeInv, Contents
      <3> QED
        BY <1>0, <2>1, <3>1, <3>2 DEF TypeInv
    <2>3. OnlyRun(b)
      BY <1>0, <1>2, <2>1 DEF ReadDump, Goto, OnlyRun, TypeInv
    <2>4. ~Owns(b)'
      BY <1>0, <2>1 DEF Owns, ExitInv
    <2>5. OwnInv(b)'
      BY <1>0, <2>1, <2>4
      DEF OwnInv, BackupInv, ExitInv, Owns, TypeInv, HasVersion, HasChecked, HasFile, HasBytes
    <2>6. ManifestInv' /\ OutputInv'
      BY <1>0, <2>1, FilesKeep DEF TypeInv
    <2> QED
      BY <1>0, <2>2, <2>3, <2>4, <2>5, <2>6, StepOfOne
  <1>3. CASE PutObject(b)
    <2>1. PICK stored \in {payload[b], Garbage} : bucket' = Append(bucket, stored)
      BY <1>3 DEF PutObject
    <2>2. /\ stored \in Contents /\ bucket' \in Seq(Contents)
          /\ Len(bucket') = Len(bucket) + 1 /\ Len(bucket) \in Nat
          /\ \A v \in 1..Len(bucket) : bucket'[v] = bucket[v]
      BY <1>0, <2>1 DEF TypeInv, Contents
    <2>3. /\ pc[b] = "put" /\ pc'[b] = "check" /\ version'[b] = Len(bucket) + 1
          /\ UNCHANGED <<code, payload, temp, file, dump>>
      BY <1>0, <1>3 DEF PutObject, Goto, TypeInv
    <2>4. TypeInv'
      <3>1. pc' \in [Runs -> Points]
        BY <1>0, <1>3 DEF PutObject, Goto, TypeInv, Points, HasBytes
      <3>2. version' \in [Runs -> Nat]
        BY <1>0, <1>3, <2>2 DEF PutObject, TypeInv
      <3> QED
        BY <1>0, <2>2, <2>3, <3>1, <3>2 DEF TypeInv
    <2>5. OnlyRun(b)
      BY <1>0, <1>3, <2>2, <2>3 DEF PutObject, Goto, OnlyRun, TypeInv
    <2>6. ~Owns(b)'
      BY <1>0, <2>3 DEF Owns, ExitInv
    <2>7. OwnInv(b)'
      <3>1. payload'[b] \in Dumps /\ version'[b] \in 1..Len(bucket')
        BY <1>0, <2>2, <2>3 DEF BackupInv, HasBytes
      <3> QED
        BY <1>0, <2>3, <2>6, <3>1
        DEF OwnInv, BackupInv, ExitInv, Owns, HasChecked, HasVersion, HasFile
    <2>8. ManifestInv' /\ OutputInv'
      BY <2>2, <2>3, FilesKeep
    <2> QED
      BY <1>0, <2>4, <2>5, <2>6, <2>7, <2>8, StepOfOne
  <1>4. CASE PutUnconfirmed(b)
    <2>1. /\ bucket' \in Seq(Contents) /\ Len(bucket') = Len(bucket) + 1
          /\ Len(bucket) \in Nat
          /\ \A v \in 1..Len(bucket) : bucket'[v] = bucket[v]
      BY <1>0, <1>4 DEF PutUnconfirmed, TypeInv
    <2> QED
      BY <1>0, <1>4, <2>1, FailsKeeps DEF PutUnconfirmed
  <1>6. CASE PutAgain(b)
    <2>1. /\ bucket' \in Seq(Contents) /\ Len(bucket') = Len(bucket) + 1
          /\ Len(bucket) \in Nat
          /\ \A v \in 1..Len(bucket) : bucket'[v] = bucket[v]
      BY <1>0, <1>6 DEF PutAgain, TypeInv
    <2>2. UNCHANGED <<pc, code, payload, version, temp, file, dump>> /\ pc[b] = "put"
      BY <1>6 DEF PutAgain, runVars
    <2>3. TypeInv'
      BY <1>0, <2>1, <2>2 DEF TypeInv
    <2>4. OnlyRun(b)
      BY <2>1, <2>2 DEF OnlyRun
    <2>5. OwnInv(b)' /\ (Owns(b)' <=> Owns(b))
      BY <1>0, <2>2 DEF OwnInv, BackupInv, ExitInv, Owns, HasBytes, HasVersion,
                        HasChecked, HasFile
    <2>6. ManifestInv' /\ OutputInv'
      BY <2>1, <2>2, FilesKeep
    <2> QED
      BY <1>0, <2>3, <2>4, <2>5, <2>6, StepOfOne
  <1>5. CASE CheckAnswer(b)
    <2>1. CASE bucket[version[b]] = payload[b] /\ Keeps(b, "write")
      <3>1. TypeInv' /\ pc'[b] = "write"
        BY <1>0, <1>5, <2>1, MoveType DEF CheckAnswer, Points, HasBytes
      <3>2. OwnInv(b)'
        BY <1>0, <1>5, <2>1, <3>1
        DEF CheckAnswer, OwnInv, BackupInv, ExitInv, Owns, Keeps, Goto,
            HasBytes, HasVersion, HasChecked, HasFile
      <3> QED
        BY <1>0, <1>5, <2>1, <3>1, <3>2, KeepsKeeps DEF CheckAnswer
    <2>2. CASE Fails(b)
      BY <1>0, <1>5, <2>2, FailsKeeps DEF CheckAnswer, TypeInv
    <2> QED
      BY <1>5, <2>1, <2>2 DEF CheckAnswer
  <1> QED
    BY <1>1, <1>2, <1>3, <1>4, <1>5, <1>6 DEF Backup

LEMMA RestoreKeeps ==
    ASSUME IInv, NEW r \in Restores, Restore(r)
    PROVE  IInv'
PROOF
  <1> USE DEF Runs
  <1>0. /\ r \in Runs /\ r \notin Backups /\ TypeInv /\ RestoreInv(r) /\ ExitInv(r)
        /\ Path(r) = "output" /\ ManifestInv
    BY BackupAssumption DEF IInv, Path
  <1>1. CASE ReadManifest(r)
    <2>1. PICK v \in 1..Len(bucket) :
             IF file["manifest"].kind = "manifest" /\ file["manifest"].version = v
             THEN /\ version' = [version EXCEPT ![r] = v]
                  /\ payload' = [payload EXCEPT ![r] = file["manifest"].sha]
                  /\ Goto(r, "exists")
                  /\ UNCHANGED temp
             ELSE Fails(r)
      BY <1>1 DEF ReadManifest
    <2>2. CASE Fails(r)
      BY <1>0, <1>1, <2>2, FailsKeeps DEF ReadManifest, TypeInv
    <2>3. CASE /\ file["manifest"].kind = "manifest" /\ file["manifest"].version = v
               /\ version' = [version EXCEPT ![r] = v]
               /\ payload' = [payload EXCEPT ![r] = file["manifest"].sha]
               /\ Goto(r, "exists")
               /\ UNCHANGED temp
      <3>1. PICK w \in 1..Len(bucket) :
               bucket[w] \in Dumps /\ file["manifest"] = Manifest(w, bucket[w])
        BY <1>0, <2>3, KindsDiffer DEF ManifestInv
      <3>2. file["manifest"] = Manifest(v, bucket[v]) /\ file["manifest"].sha = bucket[v]
            /\ bucket[v] \in Contents
        BY <2>3, <3>1, KindsDiffer DEF Contents
      <3>3. /\ pc[r] = "new" /\ pc'[r] = "exists" /\ version'[r] = v
            /\ payload'[r] = bucket[v]
            /\ UNCHANGED <<code, temp, file, bucket, dump>>
        BY <1>0, <1>1, <2>3, <3>2 DEF ReadManifest, Goto, TypeInv
      <3>4. TypeInv'
        <4>1. pc' \in [Runs -> Points]
          BY <1>0, <2>3 DEF Goto, TypeInv, Points
        <4>2. version' \in [Runs -> Nat] /\ payload' \in [Runs -> Contents]
          BY <1>0, <2>3, <3>2 DEF TypeInv
        <4> QED
          BY <1>0, <3>3, <4>1, <4>2 DEF TypeInv
      <3>5. OnlyRun(r)
        BY <1>0, <2>3, <3>3 DEF Goto, OnlyRun, TypeInv
      <3>6. ~Owns(r)'
        BY <1>0, <3>3 DEF Owns, ExitInv
      <3>7. OwnInv(r)'
        BY <1>0, <3>2, <3>3, <3>6 DEF OwnInv, RestoreInv, ExitInv, Owns, HasFile
      <3>8. ManifestInv' /\ OutputInv'
        BY <1>0, <3>3, FilesKeep DEF TypeInv
      <3> QED
        BY <1>0, <3>4, <3>5, <3>6, <3>7, <3>8, StepOfOne
    <2> QED
      BY <2>1, <2>2, <2>3
  <1>2. CASE CheckOutputPath(r)
    <2>1. CASE Keeps(r, "write")
      <3>1. TypeInv' /\ pc'[r] = "write"
        BY <1>0, <1>2, <2>1, MoveType DEF CheckOutputPath, Points, HasBytes
      <3>2. OwnInv(r)'
        BY <1>0, <1>2, <2>1, <3>1
        DEF CheckOutputPath, OwnInv, RestoreInv, ExitInv, Owns, Keeps, Goto,
            HasManifest, HasFile
      <3> QED
        BY <1>0, <1>2, <2>1, <3>1, <3>2, KeepsKeeps DEF CheckOutputPath
    <2>2. CASE Fails(r)
      BY <1>0, <1>2, <2>2, FailsKeeps DEF CheckOutputPath, TypeInv
    <2> QED
      BY <1>2, <2>1, <2>2 DEF CheckOutputPath
  <1> QED
    BY <1>1, <1>2 DEF Restore

\* Only Publish changes what is published.
LEMMA PublishKeeps ==
    ASSUME IInv, NEW r \in Runs, pc[r] = "link", file[Path(r)] = NoFile,
           file' = [file EXCEPT ![Path(r)] = temp[r]], Keeps(r, "unlink"),
           UNCHANGED <<bucket, dump>>
    PROVE  IInv'
PROOF
  <1>1. TypeInv /\ ExitInv(r) /\ ManifestInv /\ OutputInv
    BY DEF IInv
  <1>2. pc'[r] = "unlink" /\ code' = code /\ Path(r) \in Paths
    BY <1>1 DEF Keeps, Goto, TypeInv, Path, Paths
  <1>3. TypeInv'
    <2>1. pc' \in [Runs -> Points]
      BY <1>1 DEF Keeps, Goto, TypeInv, Points, HasBytes
    <2>2. file' \in [Paths -> Files]
      BY <1>1, <1>2 DEF TypeInv
    <2> QED
      BY <1>1, <2>1, <2>2 DEF Keeps, Goto, TypeInv
  <1>4. OnlyRun(r)
    BY <1>1, <1>2 DEF Keeps, Goto, OnlyRun, TypeInv
  <1>5. CASE r \in Backups /\ r \notin Restores
    <2>1. Path(r) = "manifest" /\ BackupInv(r)
      BY <1>5 DEF Path, IInv
    <2>2. /\ file'["manifest"] = Manifest(version[r], payload[r])
          /\ file'["output"] = file["output"]
          /\ version[r] \in 1..Len(bucket) /\ bucket[version[r]] = payload[r]
          /\ payload[r] \in Dumps /\ temp[r] = Manifest(version[r], payload[r])
      BY <1>1, <2>1 DEF BackupInv, TypeInv, Paths, HasBytes, HasVersion, HasChecked, HasFile
    <2>3. OwnInv(r)'
      BY <1>1, <1>2, <1>5, <2>1, <2>2
      DEF OwnInv, BackupInv, ExitInv, Keeps, Goto
    <2>4. ManifestInv'
      BY <2>2 DEF ManifestInv
    <2>5. OutputInv'
      BY <1>1, <2>1, <2>2, KindsDiffer DEF OutputInv
    <2> QED
      BY <1>3, <1>4, <2>3, <2>4, <2>5, StepOfOne
  <1>6. CASE r \in Restores /\ r \notin Backups
    <2>1. Path(r) = "output" /\ RestoreInv(r)
      BY <1>6 DEF Path, IInv
    <2>2. /\ file'["output"] = Dump(payload[r])
          /\ file'["manifest"] = file["manifest"]
          /\ file["manifest"] = Manifest(version[r], payload[r])
          /\ temp[r] = Dump(payload[r])
      BY <1>1, <2>1 DEF RestoreInv, TypeInv, Paths, HasManifest, HasFile
    <2>3. OwnInv(r)'
      BY <1>1, <1>2, <1>6, <2>1, <2>2
      DEF OwnInv, RestoreInv, ExitInv, Keeps, Goto
    <2>4. ManifestInv'
      BY <1>1, <2>2 DEF ManifestInv
    <2>5. OutputInv'
      <3>1. PICK v \in 1..Len(bucket) :
               bucket[v] \in Dumps /\ file["manifest"] = Manifest(v, bucket[v])
        BY <1>1, <2>2, KindsDiffer DEF ManifestInv
      <3>2. payload[r] = bucket[v]
        <4>1. Manifest(version[r], payload[r]).sha = payload[r]
          BY KindsDiffer
        <4>2. Manifest(v, bucket[v]).sha = bucket[v]
          BY KindsDiffer
        <4> QED
          BY <2>2, <3>1, <4>1, <4>2
      <3> QED
        BY <2>2, <3>1, <3>2 DEF OutputInv
    <2> QED
      BY <1>3, <1>4, <2>3, <2>4, <2>5, StepOfOne
  <1> QED
    BY <1>5, <1>6, RunsSplit

\* WriteTemporary and the successful Complete: only the private file changes.
LEMMA TemporaryKeeps ==
    ASSUME IInv, NEW r \in Runs, NEW point \in {"sync", "link"}, NEW content \in Files,
           Goto(r, point), temp' = [temp EXCEPT ![r] = content],
           UNCHANGED <<payload, version, file, bucket, dump>>,
           pc[r] \in {"write", "sync"},
           point = "link" => content = IF r \in Backups THEN Manifest(version[r], payload[r])
                                                       ELSE Dump(payload[r])
    PROVE  IInv'
PROOF
  <1>1. TypeInv /\ ExitInv(r)
    BY DEF IInv
  <1>2. /\ pc'[r] = point /\ temp'[r] = content
        /\ UNCHANGED <<code, payload, version, file, bucket, dump>>
    BY <1>1 DEF Goto, TypeInv
  <1>3. TypeInv'
    <2>1. pc' \in [Runs -> Points]
      BY <1>1 DEF Goto, TypeInv, Points, HasBytes
    <2>2. temp' \in [Runs -> Files]
      BY <1>1 DEF TypeInv
    <2> QED
      BY <1>1, <1>2, <2>1, <2>2 DEF TypeInv
  <1>4. OnlyRun(r)
    BY <1>1, <1>2 DEF Goto, OnlyRun, TypeInv
  <1>5. ~Owns(r)'
    BY <1>1, <1>2 DEF Owns, ExitInv
  <1>6. OwnInv(r)'
    <2>1. CASE r \in Backups /\ r \notin Restores
      <3>1. BackupInv(r)
        BY <2>1 DEF IInv
      <3> QED
        BY <1>2, <1>5, <2>1, <3>1
        DEF OwnInv, BackupInv, ExitInv, Owns, HasBytes, HasVersion, HasChecked, HasFile
    <2>2. CASE r \in Restores /\ r \notin Backups
      <3>1. RestoreInv(r)
        BY <2>2 DEF IInv
      <3> QED
        BY <1>2, <1>5, <2>2, <3>1
        DEF OwnInv, RestoreInv, ExitInv, Owns, HasManifest, HasFile
    <2> QED
      BY <2>1, <2>2, RunsSplit
  <1>7. ManifestInv' /\ OutputInv'
    BY <1>1, <1>2, FilesKeep DEF TypeInv
  <1> QED
    BY <1>3, <1>4, <1>5, <1>6, <1>7, StepOfOne

LEMMA PublicationKeeps ==
    ASSUME IInv, NEW r \in Runs, Publication(r)
    PROVE  IInv'
PROOF
  <1>0. TypeInv /\ ExitInv(r)
    BY DEF IInv
  <1>1. CASE WriteTemporary(r)
    BY <1>1, TemporaryKeeps, FilesAre DEF WriteTemporary
  <1>2. CASE Complete(r)
    <2>0. pc[r] = "sync" /\ UNCHANGED <<file, bucket, dump>>
      BY <1>2 DEF Complete
    <2>1. CASE r \in Backups /\ temp' = [temp EXCEPT ![r] = Manifest(version[r], payload[r])]
               /\ Goto(r, "link") /\ UNCHANGED <<payload, version>>
      <3>1. Manifest(version[r], payload[r]) \in Files
        BY <1>0, FilesAre DEF TypeInv
      <3> QED
        BY <2>0, <2>1, <3>1, TemporaryKeeps
    <2>2. CASE Fails(r)
      BY <1>0, <2>0, <2>2, FailsKeeps DEF TypeInv
    <2>3. CASE r \in Restores /\ temp' = [temp EXCEPT ![r] = Dump(payload[r])]
               /\ Goto(r, "link") /\ UNCHANGED <<payload, version>>
      <3>1. Dump(payload[r]) \in Files
        BY <1>0, FilesAre DEF TypeInv
      <3>2. r \notin Backups
        BY <2>3, RunsSplit
      <3> QED
        BY <2>0, <2>3, <3>1, <3>2, TemporaryKeeps
    <2> QED
      BY <1>2, <2>1, <2>2, <2>3 DEF Complete
  <1>3. CASE Publish(r)
    <2>1. CASE Fails(r) /\ UNCHANGED file
      BY <1>0, <1>3, <2>1, FailsKeeps DEF Publish, TypeInv
    <2>2. CASE file[Path(r)] = NoFile /\ file' = [file EXCEPT ![Path(r)] = temp[r]]
               /\ Keeps(r, "unlink")
      BY <1>3, <2>2, PublishKeeps DEF Publish
    <2> QED
      BY <1>3, <2>1, <2>2 DEF Publish
  <1>4. CASE Unlink(r)
    <2>1. /\ pc[r] = "unlink" /\ pc'[r] = "exited"
          /\ UNCHANGED <<payload, version, file, bucket, dump>>
          /\ (code'[r] = 0 /\ temp'[r] = NoFile) \/ code'[r] = 1
      BY <1>0, <1>4 DEF Unlink, TypeInv
    <2>2. TypeInv'
      <3>1. pc' \in [Runs -> Points]
        BY <1>0, <1>4 DEF Unlink, TypeInv, Points
      <3>2. code' \in [Runs -> 0..2]
        BY <1>0, <1>4 DEF Unlink, TypeInv
      <3>3. temp' \in [Runs -> Files]
        BY <1>0, <1>4, FilesAre DEF Unlink, TypeInv
      <3> QED
        BY <1>0, <2>1, <3>1, <3>2, <3>3 DEF TypeInv
    <2>3. OnlyRun(r)
      BY <1>0, <1>4 DEF Unlink, OnlyRun, TypeInv
    <2>4. Owns(r)
      BY <2>1 DEF Owns
    <2>5. OwnInv(r)'
      <3>1. CASE r \in Backups /\ r \notin Restores
        <4>1. BackupInv(r)
          BY <3>1 DEF IInv
        <4> QED
          BY <2>1, <2>4, <3>1, <4>1
          DEF OwnInv, BackupInv, ExitInv, HasBytes, HasVersion, HasChecked, HasFile
      <3>2. CASE r \in Restores /\ r \notin Backups
        <4>1. RestoreInv(r)
          BY <3>2 DEF IInv
        <4> QED
          BY <2>1, <2>4, <3>2, <4>1 DEF OwnInv, RestoreInv, ExitInv, HasManifest, HasFile
      <3> QED
        BY <3>1, <3>2, RunsSplit
    <2>6. ManifestInv' /\ OutputInv'
      BY <1>0, <2>1, FilesKeep DEF TypeInv
    <2> QED
      BY <2>2, <2>3, <2>4, <2>5, <2>6, StepOfOne
  <1> QED
    BY <1>1, <1>2, <1>3, <1>4 DEF Publication

LEMMA CrashKeeps ==
    ASSUME IInv, NEW r \in Runs, Crash(r)
    PROVE  IInv'
PROOF
  <1>1. TypeInv /\ ExitInv(r)
    BY DEF IInv
  <1>2. TypeInv' /\ pc'[r] = "crashed"
    BY <1>1, MoveType DEF Crash, Points
  <1>3. code'[r] # 0
    BY <1>1 DEF Crash, Keeps, Goto, ExitInv
  <1>4. OwnInv(r)'
    BY <1>2, <1>3 DEF OwnInv, BackupInv, RestoreInv, ExitInv, Owns, HasBytes,
                      HasVersion, HasChecked, HasFile, HasManifest
  <1> QED
    BY <1>2, <1>4, KeepsKeeps DEF Crash

\* Whoever else creates a file finds the path free; no run relies on that.
LEMMA MeddleKeeps ==
    ASSUME IInv, Meddle
    PROVE  IInv'
PROOF
  <1>1. UNCHANGED <<pc, code, payload, version, temp, bucket>>
    BY DEF Meddle, runVars
  <1>2. TypeInv
    BY DEF IInv
  <1>3. CASE dump' \in Dumps \ {dump} /\ UNCHANGED file
    <2>1. TypeInv'
      BY <1>1, <1>2, <1>3 DEF TypeInv
    <2> QED
      BY <1>1, <1>3, <2>1
      DEF IInv, BackupInv, RestoreInv, ExitInv, Owns, ManifestInv, OutputInv, OneOwner
  <1>4. CASE \E p \in Paths : /\ file[p] = NoFile
                              /\ file' = [file EXCEPT ![p] = Foreign]
                              /\ UNCHANGED dump
    <2>1. PICK p \in Paths : /\ file[p] = NoFile
                             /\ file' = [file EXCEPT ![p] = Foreign]
                             /\ UNCHANGED dump
      BY <1>4
    <2>2. TypeInv'
      BY <1>1, <1>2, <2>1, FilesAre DEF TypeInv
    <2>3. \A q \in Paths : file[q] # NoFile => file'[q] = file[q]
      BY <1>2, <2>1 DEF TypeInv
    <2>4. \A q \in Paths : file[q] = NoFile => file'[q] \in {NoFile, Foreign}
      BY <1>2, <2>1 DEF TypeInv
    <2>5. \A v, d : file["manifest"] = Manifest(v, d) => file'["manifest"] = Manifest(v, d)
      BY <2>3, KindsDiffer DEF Paths
    <2>6. \A d : file["output"] = Dump(d) => file'["output"] = Dump(d)
      BY <2>3, KindsDiffer DEF Paths
    <2>7. \A b \in Backups : BackupInv(b)'
      BY <1>1, <2>5 DEF IInv, BackupInv, Owns
    <2>8. \A r \in Restores : RestoreInv(r)'
      BY <1>1, <2>5, <2>6 DEF IInv, RestoreInv, Owns
    <2>9. ManifestInv'
      BY <1>1, <2>3, <2>4 DEF IInv, ManifestInv, Paths
    <2>10. OutputInv'
      <3>1. CASE file["output"] \in {NoFile, Foreign}
        BY <2>3, <2>4, <3>1 DEF OutputInv, Paths
      <3>2. CASE \E v \in 1..Len(bucket) :
                    /\ bucket[v] \in Dumps
                    /\ file["manifest"] = Manifest(v, bucket[v])
                    /\ file["output"] = Dump(bucket[v])
        BY <1>1, <2>5, <2>6, <3>2 DEF OutputInv
      <3> QED
        BY <3>1, <3>2 DEF IInv, OutputInv
    <2> QED
      BY <1>1, <2>2, <2>7, <2>8, <2>9, <2>10 DEF IInv, ExitInv, Owns, OneOwner
  <1> QED
    BY <1>3, <1>4 DEF Meddle

----------------------------------------------------------------------------
\* tools/mlflow_backup_s3.py, both commands: every run's knowledge, the bucket
\* and the published files agree in every reachable state.
THEOREM InductiveInvariant == Spec => []IInv
PROOF
  <1>1. Init => IInv
    <2> SUFFICES ASSUME Init PROVE IInv
      OBVIOUS
    <2>1. TypeInv
      <3>1. temp \in [Runs -> Files] /\ file \in [Paths -> Files]
        BY FilesAre DEF Init
      <3> QED
        BY <3>1 DEF Init, TypeInv, Points, Contents
    <2>2. \A r \in Runs : ~Owns(r) /\ pc[r] = "new" /\ code[r] = 2
      BY DEF Init, Owns
    <2>3. \A b \in Backups : BackupInv(b)
      BY <2>2 DEF Runs, BackupInv, HasBytes, HasVersion, HasChecked, HasFile
    <2>4. \A r \in Restores : RestoreInv(r)
      BY <2>2 DEF Runs, RestoreInv, HasManifest, HasFile
    <2>5. ManifestInv /\ OutputInv
      BY DEF Init, ManifestInv, OutputInv, Paths
    <2> QED
      BY <2>1, <2>2, <2>3, <2>4, <2>5 DEF IInv, ExitInv, OneOwner
  <1>2. IInv /\ [Next]_vars => IInv'
    <2> SUFFICES ASSUME IInv, [Next]_vars PROVE IInv'
      OBVIOUS
    <2>1. ASSUME NEW r \in Runs, Error(r) PROVE IInv'
      BY <2>1, FailsKeeps DEF Error, IInv, TypeInv
    <2>2. CASE UNCHANGED vars
      BY <2>2 DEF vars, runVars, IInv, TypeInv, BackupInv, RestoreInv, ExitInv, Owns,
                  ManifestInv, OutputInv, OneOwner
    <2> QED
      BY <2>1, <2>2, BackupKeeps, RestoreKeeps, PublicationKeeps, CrashKeeps, MeddleKeeps
      DEF Next
  <1> QED
    BY <1>1, <1>2, PTL DEF Spec

\* tools/mlflow_backup_s3.py, the checks of the answer before _save_manifest: what
\* a visible manifest promises is stored, whatever S3 answers and whoever crashes.
THEOREM ManifestStored == Spec => []ManifestMeansStored
PROOF
  <1>1. IInv => ManifestMeansStored
    <2> SUFFICES ASSUME ManifestInv PROVE ManifestMeansStored
      BY DEF IInv
    <2> QED
      BY KindsDiffer DEF ManifestInv, ManifestMeansStored
  <1> QED
    BY <1>1, InductiveInvariant, PTL

\* tools/mlflow_backup_s3.py, restore: a visible dump is the one the published
\* manifest was written for; a broken or corrupted transfer is never visible.
THEOREM RestoredIsBackedUp == Spec => []RestoredMatchesManifest
PROOF
  <1>1. IInv => RestoredMatchesManifest
    <2> SUFFICES ASSUME OutputInv PROVE RestoredMatchesManifest
      BY DEF IInv
    <2> QED
      BY KindsDiffer DEF OutputInv, RestoredMatchesManifest
  <1> QED
    BY <1>1, InductiveInvariant, PTL

\* tools/mlflow_backup_s3.py, os.link: however many runs race for a path, at most
\* one of them reports success, and what it published is still there.
THEOREM SuccessIsUnique == Spec => []OneSuccessPerPath
PROOF
  <1>1. IInv => OneSuccessPerPath
    <2> SUFFICES ASSUME IInv PROVE OneSuccessPerPath
      OBVIOUS
    <2>1. \A r, s \in Runs : code[r] = 0 /\ code[s] = 0 /\ Path(r) = Path(s) => r = s
      BY DEF IInv, OneOwner, Owns
    <2>2. ASSUME NEW r \in Runs, code[r] = 0
          PROVE  /\ temp[r] = NoFile
                 /\ file[Path(r)] = IF r \in Backups THEN Manifest(version[r], payload[r])
                                                     ELSE Dump(payload[r])
      <3>1. temp[r] = NoFile /\ Owns(r)
        BY <2>2 DEF IInv, ExitInv, Owns
      <3>2. CASE r \in Backups
        BY <3>1, <3>2 DEF IInv, BackupInv, Path
      <3>3. CASE r \in Restores /\ r \notin Backups
        BY <3>1, <3>3 DEF IInv, RestoreInv, Path
      <3> QED
        BY <3>1, <3>2, <3>3, RunsSplit
    <2> QED
      BY <2>1, <2>2 DEF OneSuccessPerPath
  <1> QED
    BY <1>1, InductiveInvariant, PTL

\* tools/mlflow_backup_s3.py, os.link: no step replaces what exists at a
\* published path, although a run looked whether it was free long before.
THEOREM PublishedStays == Spec => NothingOverwritten
PROOF
  <1>1. IInv /\ [Next]_vars =>
           [\A p \in Paths : file[p] # NoFile => file'[p] = file[p]]_vars
    <2> SUFFICES ASSUME IInv, Next, NEW p \in Paths, file[p] # NoFile
                 PROVE  file'[p] = file[p]
      OBVIOUS
    <2>0. file \in [Paths -> Files]
      BY DEF IInv, TypeInv
    <2>1. CASE \E b \in Backups : Backup(b)
      BY <2>1 DEF Backup, CheckManifestPath, ReadDump, PutObject, PutAgain, PutUnconfirmed,
                  CheckAnswer
    <2>2. CASE \E r \in Restores : Restore(r)
      BY <2>2 DEF Restore, ReadManifest, CheckOutputPath
    <2>3. ASSUME NEW r \in Runs, Publication(r) PROVE file'[p] = file[p]
      <3>1. CASE Publish(r)
        BY <2>0, <3>1 DEF Publish
      <3>2. CASE WriteTemporary(r) \/ Complete(r) \/ Unlink(r)
        BY <3>2 DEF WriteTemporary, Complete, Unlink
      <3> QED
        BY <2>3, <3>1, <3>2 DEF Publication
    <2>4. CASE \E r \in Runs : Error(r) \/ Crash(r)
      BY <2>4 DEF Error, Crash
    <2>5. CASE Meddle
      BY <2>0, <2>5 DEF Meddle
    <2> QED
      BY <2>1, <2>2, <2>3, <2>4, <2>5 DEF Next
  <1> QED
    BY <1>1, InductiveInvariant, PTL DEF Spec, NothingOverwritten

----------------------------------------------------------------------------
(* All runs together are one archive *)

LEMMA HeldIs ==
    ASSUME NEW v, NEW d
    PROVE  /\ Held(NoFile) = {} /\ Held(Foreign) = {Garbage}
           /\ Held(Manifest(v, d)) = {d} /\ Held(Dump(d)) = {d}
PROOF
  <1>1. Held(NoFile) = {}
    BY KindsDiffer DEF Held
  <1>2. Held(Foreign) = {Garbage}
    BY KindsDiffer DEF Held
  <1>3. Held(Manifest(v, d)) = {d}
    BY KindsDiffer DEF Held
  <1>4. Held(Dump(d)) = {d}
    BY KindsDiffer DEF Held
  <1> QED
    BY <1>1, <1>2, <1>3, <1>4

\* Only run r moves, and it has not reported success before.
Moves(r) ==
    /\ code[r] # 0
    /\ \A s \in Runs \ {r} : pc'[s] = pc[s] /\ code'[s] = code[s]

\* A step that leaves the published paths alone reports success, gives up what it
\* has published, or cannot be seen.
LEMMA FilesStay ==
    ASSUME NEW r \in Runs, Moves(r), UNCHANGED file, Owns(r)' => Owns(r)
    PROVE  Archive!Next \/ UNCHANGED Archive!archiveVars
PROOF
  <1> DEFINE claims == {s \in Runs : pc[s] = "unlink" \/ code[s] = 0}
             succeeded == {s \in Runs : code[s] = 0}
  <1>1. \A s \in Runs \ {r} : (s \in claims' <=> s \in claims)
                             /\ (s \in succeeded' <=> s \in succeeded)
    BY DEF Moves
  <1>2. r \notin succeeded /\ (r \in claims <=> Owns(r)) /\ (r \in claims' <=> Owns(r)')
    BY DEF Moves, Owns
  <1>3. r \in Backups \cup Restores
    BY DEF Runs
  <1> HIDE DEF claims, succeeded
  <1>5. claims \subseteq Runs /\ succeeded \subseteq Runs
        /\ claims' \subseteq Runs /\ succeeded' \subseteq Runs
    BY DEF claims, succeeded
  <1>6. CASE r \in succeeded'
    <2>1. Owns(r)' /\ Owns(r)
      BY <1>6 DEF Owns, succeeded
    <2>2. claims' = claims /\ succeeded' = succeeded \cup {r} /\ r \in claims
      BY <1>1, <1>2, <1>5, <1>6, <2>1
    <2>3. Archive!Succeed(r)
      BY <2>2 DEF Archive!Succeed, claims, succeeded
    <2> QED
      BY <1>3, <2>3 DEF Archive!Next
  <1>7. CASE r \notin succeeded' /\ Owns(r) /\ ~Owns(r)'
    <2>1. claims' = claims \ {r} /\ succeeded' = succeeded /\ r \in claims \ succeeded
      BY <1>1, <1>2, <1>5, <1>7
    <2>2. Archive!GiveUp(r)
      BY <2>1 DEF Archive!GiveUp, claims, succeeded
    <2> QED
      BY <1>3, <2>2 DEF Archive!Next
  <1>8. CASE r \notin succeeded' /\ (Owns(r) <=> Owns(r)')
    <2>1. claims' = claims /\ succeeded' = succeeded
      BY <1>1, <1>2, <1>5, <1>8
    <2> QED
      BY <2>1 DEF Archive!archiveVars, claims, succeeded
  <1> QED
    BY <1>6, <1>7, <1>8

\* os.link of a complete file at a free path is the moment of archiving or restoring.
LEMMA LinkArchives ==
    ASSUME IInv, NEW r \in Runs, pc[r] = "link", file[Path(r)] = NoFile,
           file' = [file EXCEPT ![Path(r)] = temp[r]], Keeps(r, "unlink")
    PROVE  Archive!Next
PROOF
  <1> DEFINE claims == {s \in Runs : pc[s] = "unlink" \/ code[s] = 0}
             succeeded == {s \in Runs : code[s] = 0}
  <1>1. TypeInv
    BY DEF IInv
  <1>2. code' = code /\ \A s \in Runs : pc'[s] = IF s = r THEN "unlink" ELSE pc[s]
    BY <1>1 DEF Keeps, Goto, TypeInv
  <1>3. claims' = claims \cup {r} /\ succeeded' = succeeded
    BY <1>2
  <1> HIDE DEF claims, succeeded
  <1>4. CASE r \in Backups
    <2>1. Path(r) = "manifest" /\ BackupInv(r)
      BY <1>4 DEF Path, IInv
    <2>2. temp[r] = Manifest(version[r], payload[r]) /\ payload[r] \in Dumps
      BY <2>1 DEF BackupInv, HasBytes, HasFile
    <2>3. /\ file'["manifest"] = Manifest(version[r], payload[r])
          /\ file'["output"] = file["output"]
      BY <1>1, <2>1, <2>2 DEF TypeInv, Paths
    <2>4. /\ Held(file["manifest"]) = {}
          /\ Held(file'["manifest"]) = {payload[r]}
          /\ Held(file'["output"]) = Held(file["output"])
      BY <2>1, <2>3, HeldIs
    <2>5. Archive!Archive(r)
      BY <1>3, <2>2, <2>4 DEF Archive!Archive, claims, succeeded
    <2> QED
      BY <1>4, <2>5 DEF Archive!Next
  <1>5. CASE r \in Restores /\ r \notin Backups
    <2>1. Path(r) = "output" /\ RestoreInv(r)
      BY <1>5 DEF Path, IInv
    <2>2. /\ temp[r] = Dump(payload[r])
          /\ file["manifest"] = Manifest(version[r], payload[r])
      BY <2>1 DEF RestoreInv, HasManifest, HasFile
    <2>3. file'["output"] = Dump(payload[r]) /\ file'["manifest"] = file["manifest"]
      BY <1>1, <2>1, <2>2 DEF TypeInv, Paths
    <2>4. PICK v \in 1..Len(bucket) :
             bucket[v] \in Dumps /\ file["manifest"] = Manifest(v, bucket[v])
      BY <2>2, KindsDiffer DEF IInv, ManifestInv
    <2>5. payload[r] = bucket[v]
      <3>1. Manifest(version[r], payload[r]).sha = payload[r]
        BY KindsDiffer
      <3>2. Manifest(v, bucket[v]).sha = bucket[v]
        BY KindsDiffer
      <3> QED
        BY <2>2, <2>4, <3>1, <3>2
    <2>6. Held(file["manifest"]) = {payload[r]}
      BY <2>2, HeldIs
    <2>7. Held(file["output"]) = {} /\ Held(file'["output"]) = {payload[r]}
      BY <2>1, <2>3, HeldIs
    <2>8. Archive!Restore(r)
      BY <1>3, <2>3, <2>4, <2>5, <2>6, <2>7 DEF Archive!Restore, claims, succeeded
    <2> QED
      BY <1>5, <2>8 DEF Archive!Next
  <1> QED
    BY <1>4, <1>5, RunsSplit

LEMMA StepsOfArchive ==
    ASSUME IInv, [Next]_vars
    PROVE  Archive!Next \/ UNCHANGED Archive!archiveVars
PROOF
  <1>0. TypeInv
    BY DEF IInv
  <1>1. ASSUME NEW r \in Runs, pc[r] \notin {"unlink", "exited"}, Fails(r), UNCHANGED file
        PROVE  Archive!Next \/ UNCHANGED Archive!archiveVars
    <2>1. Moves(r) /\ ~Owns(r)'
      BY <1>0, <1>1 DEF Fails, Moves, Owns, IInv, ExitInv, TypeInv
    <2> QED
      BY <1>1, <2>1, FilesStay
  <1>2. ASSUME NEW r \in Runs, NEW point \in Points, pc[r] # "exited", point # "unlink",
               Goto(r, point), UNCHANGED file
        PROVE  Archive!Next \/ UNCHANGED Archive!archiveVars
    <2>1. Moves(r) /\ ~Owns(r)'
      BY <1>0, <1>2 DEF Goto, Moves, Owns, IInv, ExitInv, TypeInv
    <2> QED
      BY <1>2, <2>1, FilesStay
  <1>3. \A point \in {"read", "put", "check", "write", "exists", "sync", "link", "crashed"} :
           point \in Points /\ point # "unlink"
    BY DEF Points, HasBytes
  <1>4. ASSUME NEW b \in Backups, Backup(b)
        PROVE  Archive!Next \/ UNCHANGED Archive!archiveVars
    <2>0. b \in Runs
      BY DEF Runs
    <2>1. UNCHANGED file /\ pc[b] \notin {"unlink", "exited"}
      BY <1>4 DEF Backup, CheckManifestPath, ReadDump, PutObject, PutAgain, PutUnconfirmed,
                  CheckAnswer
    <2>2. \/ UNCHANGED <<pc, code>>
          \/ Fails(b)
          \/ \E point \in {"read", "put", "check", "write"} : Goto(b, point)
      BY <1>4 DEF Backup, CheckManifestPath, ReadDump, PutObject, PutAgain, PutUnconfirmed,
                  CheckAnswer, Keeps, runVars
    <2>3. CASE UNCHANGED <<pc, code>>
      BY <2>1, <2>3 DEF Archive!archiveVars
    <2> QED
      BY <1>1, <1>2, <1>3, <2>0, <2>1, <2>2, <2>3
  <1>5. ASSUME NEW r \in Restores, Restore(r)
        PROVE  Archive!Next \/ UNCHANGED Archive!archiveVars
    <2>0. r \in Runs
      BY DEF Runs
    <2>1. UNCHANGED file /\ pc[r] \notin {"unlink", "exited"}
      BY <1>5 DEF Restore, ReadManifest, CheckOutputPath
    <2>2. Fails(r) \/ \E point \in {"exists", "write"} : Goto(r, point)
      BY <1>5 DEF Restore, ReadManifest, CheckOutputPath, Keeps
    <2> QED
      BY <1>1, <1>2, <1>3, <2>0, <2>1, <2>2
  <1>6. ASSUME NEW r \in Runs, Publication(r)
        PROVE  Archive!Next \/ UNCHANGED Archive!archiveVars
    <2>1. CASE WriteTemporary(r)
      BY <1>2, <1>3, <2>1 DEF WriteTemporary
    <2>2. CASE Complete(r)
      <3>1. UNCHANGED file /\ pc[r] = "sync"
        BY <2>2 DEF Complete
      <3>2. Fails(r) \/ Goto(r, "link")
        BY <2>2 DEF Complete
      <3> QED
        BY <1>1, <1>2, <1>3, <3>1, <3>2
    <2>3. CASE Publish(r)
      <3>1. CASE Fails(r) /\ UNCHANGED file
        BY <1>1, <2>3, <3>1 DEF Publish
      <3>2. CASE file[Path(r)] = NoFile /\ file' = [file EXCEPT ![Path(r)] = temp[r]]
                 /\ Keeps(r, "unlink")
        BY <2>3, <3>2, LinkArchives DEF Publish
      <3> QED
        BY <2>3, <3>1, <3>2 DEF Publish
    <2>4. CASE Unlink(r)
      <3>1. pc[r] = "unlink" /\ UNCHANGED file
        BY <2>4 DEF Unlink
      <3>2. Moves(r) /\ Owns(r)
        BY <1>0, <2>4, <3>1 DEF Unlink, Moves, Owns, IInv, ExitInv, TypeInv
      <3> QED
        BY <3>1, <3>2, FilesStay
    <2> QED
      BY <1>6, <2>1, <2>2, <2>3, <2>4 DEF Publication
  <1>7. ASSUME NEW r \in Runs, Error(r)
        PROVE  Archive!Next \/ UNCHANGED Archive!archiveVars
    BY <1>1, <1>7 DEF Error
  <1>8. ASSUME NEW r \in Runs, Crash(r)
        PROVE  Archive!Next \/ UNCHANGED Archive!archiveVars
    BY <1>2, <1>3, <1>8 DEF Crash, Keeps
  <1>9. CASE Meddle
    <2>1. pc' = pc /\ code' = code
      BY <1>9 DEF Meddle, runVars
    <2>2. CASE UNCHANGED file
      BY <2>1, <2>2 DEF Archive!archiveVars
    <2>3. ASSUME NEW p \in Paths, file[p] = NoFile, file' = [file EXCEPT ![p] = Foreign]
          PROVE  Archive!Next
      <3>1. file'[p] = Foreign /\ \A q \in Paths \ {p} : file'[q] = file[q]
        BY <1>0, <2>3 DEF TypeInv
      <3>2. Held(file[p]) = {} /\ Held(file'[p]) = {Garbage}
        BY <2>3, <3>1, HeldIs
      <3>3. CASE p = "manifest"
        BY <2>1, <3>1, <3>2, <3>3 DEF Archive!Next, Archive!Occupy, Paths
      <3>4. CASE p = "output"
        BY <2>1, <3>1, <3>2, <3>4 DEF Archive!Next, Archive!Occupy, Paths
      <3> QED
        BY <3>3, <3>4 DEF Paths
    <2> QED
      BY <1>9, <2>2, <2>3 DEF Meddle
  <1>10. CASE UNCHANGED vars
    BY <1>10 DEF vars, runVars, Archive!archiveVars
  <1> QED
    BY <1>4, <1>5, <1>6, <1>7, <1>8, <1>9, <1>10 DEF Next

\* tools/mlflow_backup_s3.py, both commands: however runs overlap, fail and crash,
\* a dump is archived and restored as a whole or not at all, nothing at a path is
\* replaced, and only the run that published reports success.
THEOREM RunsImplementArchive == Spec => ImplementsArchive
PROOF
  <1>1. Init => Archive!Init
    BY HeldIs DEF Init, Archive!Init, Paths
  <1>2. IInv /\ [Next]_vars => [Archive!Next]_(Archive!archiveVars)
    BY StepsOfArchive
  <1> QED
    BY <1>1, <1>2, InductiveInvariant, PTL DEF Spec, ImplementsArchive, Archive!Spec
=============================================================================
