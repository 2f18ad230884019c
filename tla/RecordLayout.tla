---------------------------- MODULE RecordLayout ----------------------------
(***************************************************************************)
(* How one board's record is cut into the segments its data ports carry.   *)
(* The server (cServer.c, setDataAddrPointers) and the board               *)
(* (client_funcs.h, setDataAddrPointers) cut it independently, each with   *)
(* its own arithmetic, and nothing on the wire delimits a segment: the     *)
(* protocol works only because both arrive at the same lengths.            *)
(*                                                                         *)
(* The unit is the byte: RecLen stands for 8*g_recLen and PacketSize for   *)
(* 8*g_packetsize.  Scaling both by 8 changes no port count.               *)
(***************************************************************************)
EXTENDS Naturals

CONSTANTS RecLen,      \* bytes of one board's record
          PacketSize   \* bytes one data port carries

(* What the SET_RECORD_LENGTH handlers of server and board let through.    *)
ASSUME RecordAssumption == /\ RecLen \in Nat \ {0}
                           /\ PacketSize \in 1..RecLen

(* g_numPorts: the data ports that carry a record, numbered from 1.        *)
NumPorts == (RecLen - 1) \div PacketSize + 1
Ports == 1..NumPorts

(* The board walks its sockets from port 1 with addrRmndr, the bytes still *)
(* to place, and gives each min(g_packetsize, addrRmndr).                  *)
AddrRemainder(p) == RecLen - (p - 1) * PacketSize
ClientLen(p) == IF PacketSize < AddrRemainder(p) THEN PacketSize
                                                 ELSE AddrRemainder(p)

(* The samples it sends from: data_addr, with the length of this port for  *)
(* its stride.                                                             *)
ClientSource(p) == (p - 1) * ClientLen(p)

(* The server gives every port a whole packet, except the last connected   *)
(* one (g_portMax) when the packet size does not divide the record.        *)
ServerLen(p) == IF RecLen % PacketSize # 0 /\ p = NumPorts
                  THEN RecLen % PacketSize
                  ELSE PacketSize

(* Where in its board's part of the data array the server stores byte i of *)
(* port p: data_addr + p_idx.                                              *)
RecordOffset(p, i) == (p - 1) * PacketSize + i
=============================================================================
