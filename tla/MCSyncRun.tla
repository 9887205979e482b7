----------------------------- MODULE MCSyncRun -----------------------------
(***************************************************************************)
(* Small instances of SyncRun: three concurrent requests with two keys are *)
(* enough for two of them to race with the same key against a third.       *)
(***************************************************************************)
EXTENDS SyncRun
=============================================================================
