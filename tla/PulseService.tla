---------------------------- MODULE PulseService ----------------------------
(***************************************************************************)
(* What the acquisition promises the user interface, apart from how many   *)
(* boards, ports and packets do it: after the user interface asks for the  *)
(* data of a pulse, every unit of every record arrives exactly once, in    *)
(* whatever order, and the user interface is told when the last one has.   *)
(***************************************************************************)
CONSTANT Units        \* everything one pulse delivers

VARIABLES phase,      \* "rest", "asked" or "told"
          got         \* the units that have arrived since the question

pulseVars == <<phase, got>>

PulseInit == phase = "rest" /\ got = {}

Ask == /\ phase = "rest"
       /\ phase' = "asked"
       /\ UNCHANGED got

(* New units arrive; the arrival that completes the set ends the pulse.    *)
Collect == \E U \in SUBSET (Units \ got) :
             /\ phase = "asked"
             /\ U # {}
             /\ IF got \cup U = Units
                  THEN phase' = "told" /\ got' = {}
                  ELSE phase' = phase /\ got' = got \cup U

Resume == /\ phase = "told"
          /\ phase' = "rest"
          /\ UNCHANGED got

(* The user interface gives up a question that nothing has answered.       *)
Withdraw == /\ phase = "asked"
            /\ got = {}
            /\ phase' = "rest"
            /\ UNCHANGED got

PulseNext == Ask \/ Collect \/ Resume \/ Withdraw

PulseSpec == PulseInit /\ [][PulseNext]_pulseVars
=============================================================================
