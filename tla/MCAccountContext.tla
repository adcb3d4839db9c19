-------------------------- MODULE MCAccountContext --------------------------
(* Small instances of AccountContext for TLC.                              *)
EXTENDS AccountContext, TLC

Symmetry == Permutations(Call) \cup Permutations(Context)

=============================================================================
