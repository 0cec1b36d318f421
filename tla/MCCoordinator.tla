---------------------------- MODULE MCCoordinator ----------------------------
EXTENDS Coordinator, TLC

\* Callers differ only by their names.
MCSymmetry == Permutations(Calls)

=============================================================================
