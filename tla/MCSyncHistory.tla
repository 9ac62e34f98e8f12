---------------------------- MODULE MCSyncHistory ----------------------------
(* SyncHistory on the small instances of FeishuMemory. *)
EXTENDS SyncHistory, MCFeishuMemory
=============================================================================
