------------------------------ MODULE MCParts -------------------------------
(***************************************************************************)
(* The parts of libcsp around RDP, and the two programs that use it over a *)
(* serial line, for one run of TLC.  A behaviour is a behaviour of one of  *)
(* them, chosen at the start; the state of the others does not change.     *)
(***************************************************************************)
EXTENDS Sfp, Kiss, Can, Rtable, Node, Net, Uart

\* Sfp: blobs of two and more fragments, and of exactly two; one of one.
BlobSizes == <<4, 4, 5, 2, 4>>

\* Kiss: packets with each of the special bytes, and of the largest size.
KissPackets ==
  <<<<"DATA", "FEND", "TFEND">>, <<"FESC", "TFESC">>, <<"FEND", "TNC", "FESC">>>>

\* Can: two tasks of one node, one of another; packets of two frames, of one
\* frame, and one that is longer than a buffer.
CanNodes == [t \in CanTasks |-> IF t = "b" THEN 2 ELSE 1]
CanLengths == <<10, 10, 2, 11>>

\* Rtable: y is the interface of x with a via address.  Three entries may have
\* more characters than are read.
RouteNames ==
  [r \in Ifaces |-> IF r = "x" THEN <<NoRoute, "x">> ELSE <<NoRoute, "x", "x", "y">>]

\* Node: who calls how often, all with the same priority.
SamePri == [c \in Clients |-> 0]
NumCalls == [c \in Clients |-> IF c = "a" THEN 2 ELSE 1]

\* Net: hosts 1 on x and 2 on y, a router 3 and a bridge 4 on both.
NetAttached == [l \in NetLinks |-> IF l = "x" THEN {1, 3, 4} ELSE {2, 3, 4}]
NetRoutes ==
  [n \in {1, 2, 3} |-> [d \in {1, 2, 3, Everyone} |->
     IF n = 1 THEN "x" ELSE IF n = 3 /\ d = 1 THEN "x" ELSE "y"]]
NetTraffic == <<<<1, 2>>, <<2, Everyone>>>>

\* Uart: one line that fits the interface but not the read, two that are too
\* long for the interface, and two that fit both.
LineLengths == <<3, 5, 1, 5, 1>>

VARIABLE part

vars == <<part, sfpVars, kissVars, canVars, rtVars, nodeVars, netVars, uartVars>>

Init ==
  /\ part \in {"sfp", "kiss", "can", "rtable", "node", "net", "uart"}
  /\ SfpInit /\ KissInit /\ CanInit /\ RtInit /\ NodeInit /\ NetInit /\ UartInit
  /\ part = "uart" \/ fifoMode

InNode(step) ==
  /\ part = "node" /\ step
  /\ UNCHANGED <<part, sfpVars, kissVars, canVars, rtVars, netVars, uartVars>>
InNet(step) ==
  /\ part = "net" /\ step
  /\ UNCHANGED <<part, sfpVars, kissVars, canVars, rtVars, nodeVars, uartVars>>

Next ==
  \/ /\ part = "sfp" /\ SfpNext
     /\ UNCHANGED <<part, kissVars, canVars, rtVars, nodeVars, netVars, uartVars>>
  \/ /\ part = "kiss" /\ KissNext
     /\ UNCHANGED <<part, sfpVars, canVars, rtVars, nodeVars, netVars, uartVars>>
  \/ /\ part = "can" /\ CanNext
     /\ UNCHANGED <<part, sfpVars, kissVars, rtVars, nodeVars, netVars, uartVars>>
  \/ /\ part = "rtable" /\ RtNext
     /\ UNCHANGED <<part, sfpVars, kissVars, canVars, nodeVars, netVars, uartVars>>
  \/ InNode(NodeNext)
  \/ InNet(NetNext)
  \/ /\ part = "uart" /\ UartNext
     /\ UNCHANGED <<part, sfpVars, kissVars, canVars, rtVars, nodeVars, netVars>>

\* The tasks of a node, and the routers and bridges of the network, run; as
\* NodeFairness and NetFairness say of the part that was chosen.
Fairness ==
  /\ \A c \in Clients : WF_vars(InNode(ClientNext(c)))
  /\ WF_vars(InNode(RouterNext)) /\ WF_vars(InNode(ServerNext))
  /\ \A n \in Routers : WF_vars(InNet(RouterWorks(n)))
  /\ \A n \in Bridges : WF_vars(InNet(BridgeWorks(n)))

Spec == Init /\ [][Next]_vars /\ Fairness

=============================================================================
