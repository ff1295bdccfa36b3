---------------------------- MODULE MCGitOpsGate ----------------------------
(***************************************************************************)
(* The gates of gitops/ on three sources: the base and patch that the dev  *)
(* and the rollback overlay share, one patch of the rollback overlay alone *)
(* and the Argo CD objects.                                                *)
(***************************************************************************)
EXTENDS GitOpsGate, TLC

MCSources == {"base", "image.patch", "application"}

MCBuiltFrom == [dev      |-> {"base"},
                rollback |-> {"base", "image.patch"},
                argocd   |-> {"application"}]

MCSymmetry == Permutations(Snapshots)
=============================================================================
