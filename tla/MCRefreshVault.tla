--------------------------- MODULE MCRefreshVault ---------------------------
(* Small instances of RefreshVault for TLC.                                *)
EXTENDS RefreshVault, TLC

(* Values of each kind are interchangeable: the store only compares them.  *)
Symmetry ==
  Permutations(Auth) \cup Permutations(Code) \cup Permutations(FamilyId)
  \cup Permutations(Handle) \cup Permutations(Request)

=============================================================================
