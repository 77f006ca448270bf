---------------------------- MODULE MCSlotQueue ----------------------------
EXTENDS SlotQueue

CONSTANTS p1, p2, p3
=============================================================================
