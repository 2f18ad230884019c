-------------------------- MODULE MCAcquisitionRetry --------------------------
(* Instances of the acquisition with a script that may give up, for TLC.   *)
EXTENDS AcquisitionRetry, AcquisitionInvariant

(* Numbers no count of an instance reaches, one of them negative.          *)
StackCounts == {-3, 99}
=============================================================================
