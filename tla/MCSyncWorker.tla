---------------------------- MODULE MCSyncWorker ----------------------------
(* The upload worker with one plan and accounts that change. *)
EXTENDS SyncWorker
=============================================================================
