-------------------------------- MODULE Net --------------------------------
(***************************************************************************)
(* A network of nodes on shared links: csp_route_work as far as it decides *)
(* what becomes of a packet, with the duplicate filter of csp_dedup.c, and *)
(* csp_bridge.c, which copies between two links and has neither filter nor *)
(* routes.  What a node sends on a link reaches all others on it.          *)
(*                                                                         *)
(* A node's queue is kept as one sequence per link; the router takes from  *)
(* any, since links differ in delay.  The checksum the filter compares is  *)
(* taken to tell the packets apart.                                        *)
(***************************************************************************)
EXTENDS Integers, Sequences, FiniteSets

CONSTANTS
  NetLinks,
  Attached,    \* Attached[l]: the nodes on link l
  Bridges,     \* the nodes that run csp_bridge, on two links each
  Route,       \* Route[n][d]: the link of csp_rtable_find_route, or NoLink
  NetPacket,   \* NetPacket[k]: source and destination of the k-th packet
  Everyone,    \* CSP_BROADCAST_ADDR
  NoLink,
  DedupCount,  \* CSP_DEDUP_COUNT
  MaxLost,     \* bound on the packets that links, queues and interfaces lose
  MaxExpired   \* bound on the times a window of CSP_DEDUP_WINDOW_MS runs out

Stations == UNION {Attached[l] : l \in NetLinks}
Routers == Stations \ Bridges
NetPackets == 1..Len(NetPacket)
LinksOf(n) == {l \in NetLinks : n \in Attached[l]}
Source(p) == NetPacket[p][1]
Target(p) == NetPacket[p][2]

\* With more packets on their way than the filter remembers, a loop of routers
\* may never end, nor does a loop of bridges.
ASSUME NetAssumption ==
  /\ \A n \in Bridges : Cardinality(LinksOf(n)) = 2
  /\ \A p \in NetPackets : Source(p) \in Routers
  /\ Len(NetPacket) \in Nat /\ Len(NetPacket) <= DedupCount
  /\ IsFiniteSet(NetLinks) /\ NoLink \notin NetLinks /\ Everyone \notin Stations
  /\ DedupCount \in Nat \ {0} /\ MaxLost \in Nat /\ MaxExpired \in Nat

VARIABLES
  inbox,      \* inbox[n][l]: what has come to n on l
  seen,       \* seen[n]: csp_dedup_array, 0 for an entry that no longer counts
  seenIn,     \* seenIn[n]: csp_dedup_in
  originated, \* the packets sent by their source
  accepted,   \* accepted[n][p]: how often n has taken p for itself
  lostHere,   \* history: the packets of which a copy was lost
  lost, expired

netVars == <<inbox, seen, seenIn, originated, accepted, lostHere, lost, expired>>

NetInit ==
  /\ inbox = [n \in Stations |-> [l \in LinksOf(n) |-> <<>>]]
  /\ seen = [n \in Routers |-> [i \in 0..DedupCount - 1 |-> 0]]
  /\ seenIn = [n \in Routers |-> 0]
  /\ originated = {} /\ accepted = [n \in Routers |-> [p \in NetPackets |-> 0]]
  /\ lostHere = {} /\ lost = 0 /\ expired = 0

\* The inboxes after n has taken a packet from `from` and sent p on `to`; either
\* may be NoLink.
Moved(n, from, p, to) ==
  [m \in Stations |-> [l \in LinksOf(m) |->
    LET left == IF m = n /\ l = from THEN Tail(inbox[m][l]) ELSE inbox[m][l]
    IN  IF m # n /\ l = to THEN Append(left, p) ELSE left]]

\* csp_send: what a node sends itself does not pass its filter.
Originate(p) ==
  /\ p \notin originated
  /\ originated' = originated \cup {p}
  /\ inbox' = Moved(Source(p), NoLink, p,
                    IF Target(p) = Everyone
                    THEN CHOOSE l \in LinksOf(Source(p)) : TRUE
                    ELSE Route[Source(p)][Target(p)])
  /\ UNCHANGED <<seen, seenIn, accepted, lostHere, lost, expired>>

----------------------------------------------------------------------------
\* csp_route_work

OnlyMe(n, p) == Target(p) = n  \* mutant: broadcasts are routed
ForMe(n, p) == Target(p) \in {n, Everyone}

\* csp_dedup_is_duplicate
Duplicate(n, p) == \E i \in DOMAIN seen[n] : seen[n][i] = p

NextStays(i) == i  \* mutant: the ring buffer has one entry
NextIn(i) == (i + 1) % DedupCount

RememberMine(n, p) ==  \* mutant: what goes on to other nodes is not stored
  /\ seen' = IF ForMe(n, p) THEN [seen EXCEPT ![n][seenIn[n]] = p] ELSE seen
  /\ seenIn' = IF ForMe(n, p) THEN [seenIn EXCEPT ![n] = NextIn(@)] ELSE seenIn
Remember(n, p) ==
  /\ seen' = [seen EXCEPT ![n][seenIn[n]] = p]
  /\ seenIn' = [seenIn EXCEPT ![n] = NextIn(@)]

\* The link a packet that is not for n goes out on.
Onward(n, p, from) == IF Route[n][Target(p)] = from THEN NoLink ELSE Route[n][Target(p)]

Work(n, l) ==
  LET p == Head(inbox[n][l])
  IN  /\ inbox[n][l] # <<>>
      /\ \/ /\ Duplicate(n, p)
            /\ inbox' = Moved(n, l, p, NoLink)
            /\ UNCHANGED <<seen, seenIn, accepted>>
         \/ /\ ~Duplicate(n, p) /\ ForMe(n, p)
            /\ Remember(n, p)
            /\ accepted' = [accepted EXCEPT ![n][p] = @ + 1]
            /\ inbox' = Moved(n, l, p, NoLink)
         \/ /\ ~Duplicate(n, p) /\ ~ForMe(n, p)
            /\ Remember(n, p)
            /\ inbox' = Moved(n, l, p, Onward(n, p, l))
            /\ UNCHANGED accepted
      /\ UNCHANGED <<originated, lostHere, lost, expired>>

\* The task csp_bridge
Bridge(n, l) ==
  /\ inbox[n][l] # <<>>
  /\ \E other \in LinksOf(n) \ {l} : inbox' = Moved(n, l, Head(inbox[n][l]), other)
  /\ UNCHANGED <<seen, seenIn, originated, accepted, lostHere, lost, expired>>

----------------------------------------------------------------------------
\* A link or a full queue loses a packet.
Lose(n, l) ==
  /\ inbox[n][l] # <<>> /\ lost < MaxLost
  /\ lostHere' = lostHere \cup {Head(inbox[n][l])}
  /\ lost' = lost + 1
  /\ inbox' = Moved(n, l, 0, NoLink)
  /\ UNCHANGED <<seen, seenIn, originated, accepted, expired>>

\* An entry gets older than the window.
Expire(n) ==
  /\ expired < MaxExpired
  /\ \E i \in DOMAIN seen[n] :
       seen[n][i] # 0 /\ seen' = [seen EXCEPT ![n][i] = 0]
  /\ expired' = expired + 1
  /\ UNCHANGED <<inbox, seenIn, originated, accepted, lostHere, lost>>

RouterWorks(n) == \E l \in LinksOf(n) : Work(n, l)
BridgeWorks(n) == \E l \in LinksOf(n) : Bridge(n, l)

NetNext ==
  \/ \E p \in NetPackets : Originate(p)
  \/ \E n \in Routers : RouterWorks(n)
  \/ \E n \in Bridges : BridgeWorks(n)
  \/ \E n \in Stations : \E l \in LinksOf(n) : Lose(n, l)
  \/ \E n \in Routers : Expire(n)

NetSpec == NetInit /\ [][NetNext]_netVars

\* The router and bridge tasks run.
NetFairness ==
  /\ \A n \in Routers : WF_netVars(RouterWorks(n))
  /\ \A n \in Bridges : WF_netVars(BridgeWorks(n))

----------------------------------------------------------------------------
\* Properties

NetQuiet == \A n \in Stations : \A l \in LinksOf(n) : inbox[n][l] = <<>>

\* Along how many ways a packet comes, and although the routes may lead it back
\* to where it was, a node takes it once while its window lasts.
AcceptedOnce ==
  expired = 0 => \A n \in Routers, p \in NetPackets : accepted[n][p] <= 1

\* The filter, the split horizon and the copies of bridges and routers do not
\* together drop the last copy of a packet: it reaches whom it is for, unless
\* a copy of it was lost.
Receivers(p) == IF Target(p) = Everyone THEN Routers \ {Source(p)} ELSE Routers \cap {Target(p)}
NetDelivers ==
  NetQuiet => \A p \in originated \ lostHere : \A n \in Receivers(p) : accepted[n][p] >= 1

\* Loops come to an end: routers and bridges fall silent.
DiesOut == <>[]NetQuiet

=============================================================================
