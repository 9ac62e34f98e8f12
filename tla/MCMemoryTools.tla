---------------------------- MODULE MCMemoryTools ----------------------------
(* Small instances of MemoryTools for TLC. *)
EXTENDS MemoryTools, TLC

CONSTANTS i1, i2, i3, i4

Symmetry == Permutations({i1, i2, i3, i4})
=============================================================================
