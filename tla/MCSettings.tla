------------------------------ MODULE MCSettings ------------------------------
(* Instances of the settings for TLC.                                      *)
EXTENDS Settings
=============================================================================
