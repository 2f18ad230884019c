-------------------------- MODULE MCAcquisitionFaults --------------------------
(* Instances of the acquisition with faults for TLC.                       *)
EXTENDS AcquisitionFaults
=============================================================================
