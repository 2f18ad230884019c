----------------------------- MODULE MCHPSSockets -----------------------------
(* Instances of a board's socket table for TLC.                            *)
EXTENDS HPSSockets
=============================================================================
