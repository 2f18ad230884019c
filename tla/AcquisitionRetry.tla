--------------------------- MODULE AcquisitionRetry ---------------------------
(***************************************************************************)
(* The acquisition when the script calls ipcWait with a timeout and, when  *)
(* it expires, goes on and queries again (dataServer.py:204-212).  A new   *)
(* query sets the server's recvCount to zero but not p_idx of the sockets, *)
(* and what the boards still have to say about the old query is counted    *)
(* for the new one.                                                        *)
(***************************************************************************)
EXTENDS Acquisition

CONSTANT MaxGiveUps        \* bound: how often the script loses patience

ASSUME MaxGiveUpsAssumption == MaxGiveUps \in Nat

VARIABLE giveUps

retryVars == <<vars, giveUps>>

RetryInit == Init /\ giveUps = 0

(* select finds nothing to read for the given time: ipcWait returns 0.     *)
UIGiveUp == /\ ui = "waiting"
            /\ ipcOut = 0
            /\ giveUps < MaxGiveUps
            /\ giveUps' = giveUps + 1
            /\ ui' = "ready"
            /\ UNCHANGED <<ipcIn, ipcOut, serverVars, netVars, boardVars>>

(* The script happens to wait until every board has timed out without      *)
(* having sent anything.                                                   *)
PatientGiveUp == UIGiveUp /\ \A b \in Boards : GaveUp(b)

Continue == Next /\ UNCHANGED giveUps

RetrySpec == RetryInit /\ [][Continue \/ UIGiveUp]_retryVars

PatientSpec == RetryInit /\ [][Continue \/ PatientGiveUp]_retryVars

PatientFairSpec == PatientSpec /\ Fairness

-----------------------------------------------------------------------------
(* "return the value '0' and continue the regular running of the program"  *)
(* (dataServer.py:203): giving up leaves the server fit for the next       *)
(* query, in particular with no socket about to write past its segment.    *)
GivingUpIsHarmless == StaysInSegment

(* "used to synchronize transmit and receive systems" (dataServer.py:202): *)
(* when the script queries, no notification of an earlier query is left in *)
(* the IPC socket for ipcWait to take for the answer to this one.          *)
AnswersAreFresh == [][ui = "ready" /\ ui' = "waiting" => ipcOut = 0]_retryVars
=============================================================================
