--------------------------- MODULE MCPagedSync ---------------------------
(* Small instances of PagedSync and PagedListing for TLC. *)
EXTENDS PagedSync

CONSTANTS r1, r2, r3, r4
=============================================================================
