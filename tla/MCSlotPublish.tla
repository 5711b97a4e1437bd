--------------------------- MODULE MCSlotPublish ----------------------------
EXTENDS SlotPublish, TLC

CONSTANTS a, b, p1, p2

MCSymmetry == Permutations(Procs)
=============================================================================
