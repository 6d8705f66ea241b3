---------------------------- MODULE MCCoordinator ----------------------------
EXTENDS Coordinator, TLC

CallSymmetry == Permutations(Calls)
==============================================================================
