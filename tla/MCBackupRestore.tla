--------------------------- MODULE MCBackupRestore ---------------------------
(***************************************************************************)
(* BackupRestore for TLC: runs of one command, and the contents of a dump, *)
(* are interchangeable.                                                    *)
(***************************************************************************)
EXTENDS BackupRestore, TLC

MCSymmetry == Permutations(Backups) \cup Permutations(Dumps)
=============================================================================
