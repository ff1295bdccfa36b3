--------------------------- MODULE BackupRestore ----------------------------
(***************************************************************************)
(* tools/mlflow_backup_s3.py: command-line runs that upload a logical dump *)
(* once and publish a manifest for it, or download the version a manifest  *)
(* names and publish the verified dump.  Runs overlap, fail and crash at   *)
(* any point; S3 may take effect without answering and may return anything.*)
(***************************************************************************)
EXTENDS Naturals, Sequences, FiniteSets

CONSTANTS
    Backups, Restores,  \* runs of the two commands
    Dumps,              \* contents of the logical dump; SHA-256 tells them apart
    Garbage,            \* any content that is none of these
    MaxVersions         \* bound on the versions stored when a request is sent again

Runs == Backups \cup Restores
Contents == Dumps \cup {Garbage}

ASSUME BackupAssumption ==
    /\ Backups \cap Restores = {}
    /\ Garbage \notin Dumps
    /\ MaxVersions \in Nat

\* Every backup run is given one manifest path, every restore run one output path.
Paths == {"manifest", "output"}
Path(r) == IF r \in Backups THEN "manifest" ELSE "output"

NoFile == [kind |-> "none"]
Partial == [kind |-> "partial"]
Foreign == [kind |-> "foreign"]
Manifest(v, d) == [kind |-> "manifest", version |-> v, sha |-> d]
Dump(d) == [kind |-> "dump", data |-> d]

VARIABLES
    pc,       \* where each run stands
    code,     \* its exit code, 2 while there is none
    payload,  \* bytes a backup read, or the digest a restore expects
    version,  \* VersionId it got from S3, or was told to fetch
    temp,     \* its private temporary file
    file,     \* what the two published paths hold
    bucket,   \* content of every object version stored, by VersionId
    dump      \* the dump file as it is now; something else may rewrite it

runVars == <<pc, code, payload, version, temp>>
vars == <<runVars, file, bucket, dump>>

Init ==
    /\ pc = [r \in Runs |-> "new"] /\ code = [r \in Runs |-> 2]
    /\ payload = [r \in Runs |-> Garbage] /\ version = [r \in Runs |-> 0]
    /\ temp = [r \in Runs |-> NoFile]
    /\ file = [p \in Paths |-> NoFile]
    /\ bucket = <<>> /\ dump \in Dumps

Goto(r, point) == pc' = [pc EXCEPT ![r] = point] /\ UNCHANGED code

\* Every error before publication: exit code 1, the temporary file is removed.
Fails(r) ==
    /\ pc' = [pc EXCEPT ![r] = "exited"]
    /\ code' = [code EXCEPT ![r] = 1]
    /\ temp' = [temp EXCEPT ![r] = NoFile]
    /\ UNCHANGED <<payload, version>>

Keeps(r, point) == Goto(r, point) /\ UNCHANGED <<payload, version, temp>>

----------------------------------------------------------------------------
(* backup *)

\* main(): the manifest's path must not exist yet.
CheckManifestPath(b) ==
    /\ pc[b] = "new"
    /\ IF file["manifest"] = NoFile THEN Keeps(b, "read") ELSE Fails(b)
    /\ UNCHANGED <<file, bucket, dump>>

\* The dump is read once: what is hashed is what is sent.
ReadDump(b) ==
    /\ pc[b] = "read"
    /\ payload' = [payload EXCEPT ![b] = dump]
    /\ Goto(b, "put")
    /\ UNCHANGED <<version, temp, file, bucket, dump>>

\* put_object stores a new version; its answer carries the stored checksum.
PutObject(b) ==
    /\ pc[b] = "put"
    /\ \E stored \in {payload[b], Garbage} : bucket' = Append(bucket, stored)
    /\ version' = [version EXCEPT ![b] = Len(bucket) + 1]
    /\ Goto(b, "check")
    /\ UNCHANGED <<payload, temp, file, dump>>

\* The object is stored and the answer lost.  The client retries on its own
\* (create_s3_client leaves its default retries on), so that the same bytes are
\* stored once more as another version ...
PutAgain(b) ==
    /\ pc[b] = "put" /\ Len(bucket) < MaxVersions
    /\ bucket' = Append(bucket, payload[b])
    /\ UNCHANGED <<runVars, file, dump>>

\* ... until it gives up, which is an error; the tool itself sends nothing again.
PutUnconfirmed(b) ==
    /\ pc[b] = "put"
    /\ bucket' = Append(bucket, payload[b])
    /\ Fails(b)
    /\ UNCHANGED <<file, dump>>

\* Encryption, VersionId, ETag and checksum of the answer.
BugSkipChecksum(b) ==
    /\ pc[b] = "check"
    /\ Keeps(b, "write")
    /\ UNCHANGED <<file, bucket, dump>>
CheckAnswer(b) ==
    /\ pc[b] = "check"
    /\ IF bucket[version[b]] = payload[b] THEN Keeps(b, "write") ELSE Fails(b)
    /\ UNCHANGED <<file, bucket, dump>>

----------------------------------------------------------------------------
(* restore *)

\* The manifest is read and has to agree with the reference on the command line.
ReadManifest(r) ==
    /\ pc[r] = "new"
    /\ \E v \in 1..Len(bucket) :
          IF file["manifest"].kind = "manifest" /\ file["manifest"].version = v
          THEN /\ version' = [version EXCEPT ![r] = v]
               /\ payload' = [payload EXCEPT ![r] = file["manifest"].sha]
               /\ Goto(r, "exists")
               /\ UNCHANGED temp
          ELSE Fails(r)
    /\ UNCHANGED <<file, bucket, dump>>

CheckOutputPath(r) ==
    /\ pc[r] = "exists"
    /\ IF file["output"] = NoFile THEN Keeps(r, "write") ELSE Fails(r)
    /\ UNCHANGED <<file, bucket, dump>>

----------------------------------------------------------------------------
(* Publication, the same for both: private file, fsync, link, unlink *)

WriteTemporary(r) ==
    /\ pc[r] = "write"
    /\ temp' = [temp EXCEPT ![r] = Partial]
    /\ Goto(r, "sync")
    /\ UNCHANGED <<payload, version, file, bucket, dump>>

BugTrustDownload(r) ==
    /\ pc[r] = "sync"
    /\ \E data \in {bucket[version[r]], Garbage} :
          temp' = [temp EXCEPT ![r] = IF r \in Backups THEN Manifest(version[r], payload[r])
                                                       ELSE Dump(data)]
    /\ Goto(r, "link")
    /\ UNCHANGED <<payload, version, file, bucket, dump>>

\* A download of the wrong size or checksum never gets further than this.
Complete(r) ==
    /\ pc[r] = "sync"
    /\ \/ /\ r \in Backups
          /\ temp' = [temp EXCEPT ![r] = Manifest(version[r], payload[r])]
          /\ Goto(r, "link")
          /\ UNCHANGED <<payload, version>>
       \/ /\ r \in Restores
          /\ \E data \in {bucket[version[r]], Garbage} :
                IF data = payload[r]
                THEN /\ temp' = [temp EXCEPT ![r] = Dump(data)]
                     /\ Goto(r, "link")
                     /\ UNCHANGED <<payload, version>>
                ELSE Fails(r)
    /\ UNCHANGED <<file, bucket, dump>>

BugReplace(r) ==
    /\ pc[r] = "link"
    /\ file' = [file EXCEPT ![Path(r)] = temp[r]]
    /\ Keeps(r, "unlink")
    /\ UNCHANGED <<bucket, dump>>
BugExistingIsFine(r) ==
    /\ pc[r] = "link"
    /\ file' = IF file[Path(r)] = NoFile THEN [file EXCEPT ![Path(r)] = temp[r]] ELSE file
    /\ Keeps(r, "unlink")
    /\ UNCHANGED <<bucket, dump>>

\* os.link fails if anything is at the path by now.
Publish(r) ==
    /\ pc[r] = "link"
    /\ IF file[Path(r)] = NoFile
       THEN file' = [file EXCEPT ![Path(r)] = temp[r]] /\ Keeps(r, "unlink")
       ELSE Fails(r) /\ UNCHANGED file
    /\ UNCHANGED <<bucket, dump>>

\* The `finally` block; if unlink() itself fails the run ends with 1 although
\* it has published.
Unlink(r) ==
    /\ pc[r] = "unlink"
    /\ pc' = [pc EXCEPT ![r] = "exited"]
    /\ \/ code' = [code EXCEPT ![r] = 0] /\ temp' = [temp EXCEPT ![r] = NoFile]
       \/ code' = [code EXCEPT ![r] = 1] /\ UNCHANGED temp
    /\ UNCHANGED <<payload, version, file, bucket, dump>>

----------------------------------------------------------------------------
\* Configuration, S3 and file errors, wherever they strike before publication.
Error(r) ==
    /\ pc[r] \notin {"unlink", "exited", "crashed"}
    /\ Fails(r)
    /\ UNCHANGED <<file, bucket, dump>>

Crash(r) ==
    /\ pc[r] \notin {"exited", "crashed"}
    /\ Keeps(r, "crashed")
    /\ UNCHANGED <<file, bucket, dump>>

\* Someone else creates one of the files, or takes a new dump.
Meddle ==
    /\ \/ \E p \in Paths : /\ file[p] = NoFile
                           /\ file' = [file EXCEPT ![p] = Foreign]
                           /\ UNCHANGED dump
       \/ dump' \in Dumps \ {dump} /\ UNCHANGED file
    /\ UNCHANGED <<runVars, bucket>>

Backup(b) == CheckManifestPath(b) \/ ReadDump(b) \/ PutObject(b) \/ PutAgain(b)
                \/ PutUnconfirmed(b) \/ CheckAnswer(b)
Restore(r) == ReadManifest(r) \/ CheckOutputPath(r)
Publication(r) == WriteTemporary(r) \/ Complete(r) \/ Publish(r) \/ Unlink(r)

Next ==
    \/ \E b \in Backups : Backup(b)
    \/ \E r \in Restores : Restore(r)
    \/ \E r \in Runs : Publication(r) \/ Error(r) \/ Crash(r)
    \/ Meddle

Spec == Init /\ [][Next]_vars

----------------------------------------------------------------------------
\* A manifest that can be seen at all is complete, and the version it names is
\* stored with exactly the bytes whose digest it records.
ManifestMeansStored ==
    LET m == file["manifest"]
    IN \/ m.kind \in {"none", "foreign"}
       \/ m.kind = "manifest" /\ m.version \in 1..Len(bucket) /\ bucket[m.version] = m.sha

\* A restored dump that can be seen at all is, byte for byte, the one that was
\* backed up under the published manifest, whatever S3 returned.
RestoredMatchesManifest ==
    LET o == file["output"]
    IN \/ o.kind \in {"none", "foreign"}
       \/ /\ o.kind = "dump" /\ file["manifest"].kind = "manifest"
          /\ o.data = file["manifest"].sha /\ o.data \in Dumps

\* Nothing that exists at a published path is ever replaced, not even by a run
\* that found the path free when it started.
NothingOverwritten ==
    [][\A p \in Paths : file[p] # NoFile => file'[p] = file[p]]_vars

\* Of the runs that race for a path at most one exits with 0; it then owns what
\* is there and left no temporary file behind.
OneSuccessPerPath ==
    /\ \A r, s \in Runs : code[r] = 0 /\ code[s] = 0 /\ Path(r) = Path(s) => r = s
    /\ \A r \in Runs : code[r] = 0 =>
          /\ temp[r] = NoFile
          /\ file[Path(r)] = IF r \in Backups THEN Manifest(version[r], payload[r])
                                              ELSE Dump(payload[r])

\* What a file at one of the two paths stands for.
Held(f) == CASE f.kind = "manifest" -> {f.sha}
             [] f.kind = "dump"     -> {f.data}
             [] f.kind = "foreign"  -> {Garbage}
             [] OTHER               -> {}

\* All runs together are one archive: what they upload, download, check, link and
\* clean up, and wherever they fail, only ever archives or restores a dump as a whole.
Archive == INSTANCE DumpArchive WITH
    Other <- Garbage,
    archived <- Held(file["manifest"]),
    restored <- Held(file["output"]),
    claims <- {r \in Runs : pc[r] = "unlink" \/ code[r] = 0},
    succeeded <- {r \in Runs : code[r] = 0}

ImplementsArchive == Archive!Spec
=============================================================================
