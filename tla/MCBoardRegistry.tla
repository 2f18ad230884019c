---------------------------- MODULE MCBoardRegistry ----------------------------
(* Instances of the server's registry of boards for TLC.                   *)
EXTENDS BoardRegistry
=============================================================================
