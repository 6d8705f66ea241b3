------------------------------ MODULE MCDetector -----------------------------
EXTENDS Detector, TLC
TickSymmetry == Permutations(Ticks)
==============================================================================
