----------------------------- MODULE MCIpcSession -----------------------------
(* Instances of the IPC session for TLC.                                   *)
EXTENDS IpcSession
=============================================================================
