-------------------------- MODULE MCArtifactQuota --------------------------
(* Small instances of ArtifactQuota for TLC.                               *)
EXTENDS ArtifactQuota, TLC

Symmetry == Permutations(Writer) \cup Permutations(Maintainer)

=============================================================================
