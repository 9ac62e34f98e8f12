----------------------------- MODULE MCUploads -----------------------------
(* Small instances of Uploads for TLC. *)
EXTENDS Uploads, TLC

CONSTANTS a, b, x, y, t1, t2

Symmetry == Permutations({a, b}) \cup Permutations({x, y}) \cup Permutations(Tokens)
=============================================================================
