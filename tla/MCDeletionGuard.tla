-------------------------- MODULE MCDeletionGuard --------------------------
(* An instance of DeletionGuard for TLC. *)
EXTENDS DeletionGuard, TLC

CONSTANTS f1, f2, f3, f4

MCFiles == {f1, f2, f3, f4}
MCSymmetry == Permutations(MCFiles)

=============================================================================
