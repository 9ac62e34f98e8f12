---------------------------- MODULE MCLocalCache ----------------------------
(* Small instances of LocalCache for TLC. *)
EXTENDS LocalCacheHistory, TLC

CONSTANTS i1, i2, x, y, a, b, server, cron

Symmetry == Permutations({i1, i2}) \cup Permutations({x, y})
              \cup Permutations({server, cron})
=============================================================================
