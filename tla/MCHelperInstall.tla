--------------------------- MODULE MCHelperInstall ---------------------------
(* HelperInstall for TLC: builds are interchangeable. *)
EXTENDS HelperInstall, TLC

Symmetry == Permutations(Builds)

=============================================================================
