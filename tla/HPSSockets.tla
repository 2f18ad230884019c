------------------------------ MODULE HPSSockets ------------------------------
(***************************************************************************)
(* A board's socket table (client_funcs.h, HPSmain.c): the chain of        *)
(* ENETsock structures, one for the comm port (0) and one for each data    *)
(* port ever needed, and the file descriptors they hold.  The table        *)
(* follows the number of ports the record needs: sockets are added,        *)
(* connected and disconnected by setDataAddrPointers.                      *)
(*                                                                         *)
(* Descriptors are the kernel's: socket() returns the lowest free one, and *)
(* a structure without a socket has sockfd = 0, which is also the number   *)
(* of the console.  A connect is taken to succeed in the end (the code     *)
(* tries for ten minutes and goes on as if it had).                        *)
(***************************************************************************)
EXTENDS Naturals, FiniteSets, FiniteSetsExt

CONSTANT MaxPorts          \* bound: the most data ports a record needs

ASSUME MaxPortsAssumption == MaxPorts \in Nat \ {0}

VARIABLES
  up,        \* "running", or what the program has died of
  numPorts,  \* g_numPorts
  table,     \* the chain, the descriptors and g_maxfd (see Table)
  shrunk     \* a record has needed fewer ports than the one before

sockVars == <<up, numPorts, table, shrunk>>

AllPorts == 0..MaxPorts    \* 0 is COMM_PORT
Stdin == 0
FirstFd == 4               \* after the console's three and /dev/mem
Fds == {Stdin} \cup FirstFd..(FirstFd + MaxPorts)

(* What a descriptor is when it is not the socket of a port.              *)
Free == MaxPorts + 1
Console == MaxPorts + 2

Table == [last    : AllPorts,        \* the chain is 0..last along prev
          head    : AllPorts,        \* the port of the structure at *ENET
          fd      : [AllPorts -> Fds],
          active  : [AllPorts -> BOOLEAN],
          owner   : [Fds -> 0..Console],
          watched : SUBSET Fds,      \* masterfds
          maxfd   : Fds]             \* g_maxfd

-----------------------------------------------------------------------------
(* The operations on the table *)

NewFd(t) == Min({f \in Fds : t.owner[f] = Free})

(* Connects that leave the head at the socket they have just connected,    *)
(* take the new descriptor for the largest, and keep in g_maxfd what       *)
(* select wants, the largest descriptor plus one.                          *)
MutantConnectMaxfd(t, p) ==
  LET f  == NewFd(t)
      on == [t.active EXCEPT ![p] = TRUE]
  IN  [t EXCEPT !.fd[p] = f, !.active = on, !.owner[f] = p,
                !.watched = @ \cup {f},
                !.head = Max({q \in p..t.last : on[q]}),
                !.maxfd = f]

MutantConnectNfds(t, p) ==
  LET f  == NewFd(t)
      fd == [t.fd EXCEPT ![p] = f]
      on == [t.active EXCEPT ![p] = TRUE]
      from == {q \in p..t.last : on[q]}
  IN  [t EXCEPT !.fd = fd, !.active = on, !.owner[f] = p,
                !.watched = @ \cup {f},
                !.head = Max(from),
                !.maxfd = 1 + Max({fd[q] : q \in 0..(p - 1) \cup from})]

(* connectEnetSock: the head moves to the last active socket from p on.    *)
Connect(t, p) ==
  LET f  == NewFd(t)
      fd == [t.fd EXCEPT ![p] = f]
      on == [t.active EXCEPT ![p] = TRUE]
      from == {q \in p..t.last : on[q]}
  IN  [t EXCEPT !.fd = fd, !.active = on, !.owner[f] = p,
                !.watched = @ \cup {f},
                !.head = Max(from),
                !.maxfd = Max({fd[q] : q \in 0..(p - 1) \cup from})]

(* A disconnect that forgets the flag, and one that goes on watching.      *)
MutantDisconnectActive(t, ports) ==
  LET closed == {t.fd[p] : p \in ports}
  IN  [t EXCEPT !.owner = [f \in Fds |-> IF f \in closed THEN Free ELSE @[f]],
                !.watched = @ \ closed,
                !.fd = [p \in AllPorts |-> IF p \in ports THEN 0 ELSE @[p]]]
MutantDisconnectWatches(t, ports) ==
  LET closed == {t.fd[p] : p \in ports}
  IN  [t EXCEPT !.owner = [f \in Fds |-> IF f \in closed THEN Free ELSE @[f]],
                !.fd = [p \in AllPorts |-> IF p \in ports THEN 0 ELSE @[p]],
                !.active = [p \in AllPorts |-> p \notin ports /\ @[p]]]

(* disconnectEnetSock for each of some ports, none of which changes what   *)
(* another one does.  It closes whatever sockfd says, 0 for a socket that  *)
(* is not connected.  sockfd is 0 when it is compared with g_maxfd, which  *)
(* a connected comm socket keeps above 0: head and g_maxfd stay as they    *)
(* are.                                                                    *)
Disconnect(t, ports) ==
  LET closed == {t.fd[p] : p \in ports}
  IN  [t EXCEPT !.owner = [f \in Fds |-> IF f \in closed THEN Free ELSE @[f]],
                !.watched = @ \ closed,
                !.fd = [p \in AllPorts |-> IF p \in ports THEN 0 ELSE @[p]],
                !.active = [p \in AllPorts |-> p \notin ports /\ @[p]]]

(* Those of the ports 1..n that are idle are connected, one by one.        *)
ConnectIfIdle(t, p) == IF t.active[p] THEN t ELSE Connect(t, p)
ConnectIdle(t, n) ==
  LET upTo[p \in 0..n] == IF p = 0 THEN t ELSE ConnectIfIdle(upTo[p - 1], p)
  IN  upTo[n]

(* addEnetSock makes the structure after the head: when the head is not    *)
(* the end of the chain, the end stays without a successor, and the walk   *)
(* that asked for one steps on to a null pointer.                          *)
LosesChain(t, n) == n > t.last /\ t.head # t.last

Grow(t, n) == IF n > t.last THEN [t EXCEPT !.last = n, !.head = n] ELSE t

(* setDataAddrPointers for n ports: add the missing sockets, disconnect    *)
(* the surplus ones, connect those in use that are not connected, and      *)
(* disconnect the surplus ones again.                                      *)
SetDataAddrPointers(t, n) ==
  LET grown   == Grow(t, n)
      surplus == (n + 1)..grown.last
  IN  Disconnect(ConnectIdle(Disconnect(grown, surplus), n), surplus)

-----------------------------------------------------------------------------
NoSockets == [last |-> 0, head |-> 0,
              fd |-> [p \in AllPorts |-> 0],
              active |-> [p \in AllPorts |-> FALSE],
              owner |-> [f \in Fds |-> IF f = Stdin THEN Console ELSE Free],
              watched |-> {}, maxfd |-> 0]

(* main connects the comm socket; g_numPorts is already 1.                 *)
Init == /\ up = "running"
        /\ numPorts = 1
        /\ table = Connect(NoSockets, 0)
        /\ shrunk = FALSE

(* Point the sockets at the data of n ports.                               *)
Arrange(n) == IF LosesChain(table, n)
                THEN up' = "chain lost" /\ UNCHANGED table
                ELSE /\ table' = SetDataAddrPointers(table, n)
                     /\ UNCHANGED up

(* CASE_RECLEN with a record that needs n ports.                           *)
RecLenMessage(n) == /\ up = "running"
                    /\ numPorts' = n
                    /\ shrunk' = (shrunk \/ n < numPorts)
                    /\ Arrange(n)

(* CASE_DATAGO, when it starts the acquisition.                            *)
DataGo == /\ up = "running"
          /\ Arrange(numPorts)
          /\ UNCHANGED <<numPorts, shrunk>>

(* CASE_QUERY_DATA for one packet, before there is any data socket.        *)
QueryWithoutSockets == /\ up = "running"
                       /\ table.last = 0
                       /\ up' = "no data socket"
                       /\ UNCHANGED <<numPorts, table, shrunk>>

(* The server closes a data connection.  The first structure in the chain  *)
(* with that descriptor is disconnected; for a later one recv just fails.  *)
ServerCloses(f) ==
  LET holders == {p \in 1..Min({numPorts, table.last}) : table.fd[p] = f}
  IN  /\ up = "running"
      /\ f \in table.watched
      /\ holders # {}
      /\ table' = Disconnect(table, {Min(holders)})
      /\ UNCHANGED <<up, numPorts, shrunk>>

SockNext(n) == \/ RecLenMessage(n)
               \/ DataGo
               \/ QueryWithoutSockets
               \/ \E f \in Fds : ServerCloses(f)

Spec == Init /\ [][\E n \in 1..MaxPorts : SockNext(n)]_sockVars

-----------------------------------------------------------------------------
(* The descriptors the program uses are as many as its ports: none leaks.  *)
TypeOK == /\ up \in {"running", "chain lost", "no data socket"}
          /\ numPorts \in 1..MaxPorts
          /\ table \in Table
          /\ shrunk \in BOOLEAN

(* "go through the list of active sockets, connect them if they aren't     *)
(* already" (client_funcs.h:246): an active port holds a descriptor that   *)
(* is open and its own, so its segment goes out on its own connection.     *)
EachPortOwnsItsSocket ==
  \A p \in AllPorts : table.active[p] => table.owner[table.fd[p]] = p

(* So it is as long as no record needs fewer ports than the one before,    *)
(* whatever connections the server closes in between, and the sockets a    *)
(* record needs can be added (client_funcs.h:229); after a record that     *)
(* needed fewer ports the chain may be lost.                               *)
GrowingKeepsSockets == ~shrunk => EachPortOwnsItsSocket /\ up # "chain lost"

(* The board stays reachable whatever happens to its data ports: the comm  *)
(* socket keeps its descriptor, and select watches it and goes far enough. *)
CommSocketHeard == LET f == table.fd[0]
                   IN  /\ table.active[0]
                       /\ table.owner[f] = 0
                       /\ f \in table.watched
                       /\ f <= table.maxfd

(* No descriptor is watched that select does not look at, and none that    *)
(* has been closed: select would fail for all of them.                     *)
WatchedAreOpen == \A f \in table.watched : /\ f <= table.maxfd
                                           /\ table.owner[f] # Free

=============================================================================
