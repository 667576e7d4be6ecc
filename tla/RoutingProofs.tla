---------------------------- MODULE RoutingProofs ----------------------------
(***************************************************************************)
(* Proofs about the routing table and about networks of routers and        *)
(* bridges.                                                                *)
(***************************************************************************)
EXTENDS Net, Rtable, FiniteSetTheorems, SequenceTheorems, WellFoundedInduction,
        TLAPS

----------------------------------------------------------------------------
(***************************************************************************)
(* Module Net, for every network, all routes, and any number of packets    *)
(* that the duplicate filter can hold.                                     *)
(***************************************************************************)

Entries == 0..DedupCount - 1

SeenType ==
  /\ seen \in [Routers -> [Entries -> 0..Len(NetPacket)]]
  /\ seenIn \in [Routers -> Entries]
  /\ accepted \in [Routers -> [NetPackets -> Nat]]
  /\ expired \in Nat

InboxType ==
  /\ inbox = [n \in Stations |-> [l \in LinksOf(n) |-> inbox[n][l]]]
  /\ \A n \in Stations : \A l \in LinksOf(n) : inbox[n][l] \in Seq(NetPackets)

TypeOK == SeenType /\ InboxType

\* While no window has run out, the first k entries of n's ring buffer are
\* packets, no two the same, and the others are free.
Filled(n, k) ==
  /\ \A i \in Entries : seen[n][i] # 0 <=> i < k
  /\ \A i, j \in Entries : i < k /\ seen[n][i] = seen[n][j] => i = j
  /\ seenIn[n] = IF k = DedupCount THEN 0 ELSE k

\* What n has taken, it has taken once, and it is in the ring buffer.
Taken(n) ==
  \A p \in NetPackets :
    accepted[n][p] # 0 => accepted[n][p] = 1 /\ \E i \in Entries : seen[n][i] = p

FilterOK ==
  expired = 0 => \A n \in Routers : (\E k \in 0..DedupCount : Filled(n, k)) /\ Taken(n)

NetInv == TypeOK /\ FilterOK

----------------------------------------------------------------------------
\* A ring buffer that has been filled holds all packets.
LEMMA FullHoldsAll ==
  ASSUME SeenType, NEW n \in Routers, Filled(n, DedupCount), NEW p \in NetPackets
  PROVE  \E i \in Entries : seen[n][i] = p
<1> SUFFICES ASSUME \A i \in Entries : seen[n][i] # p PROVE FALSE
  OBVIOUS
<1> DEFINE Rest == NetPackets \ {p}
<1>1. IsFiniteSet(NetPackets) /\ Cardinality(NetPackets) = Len(NetPacket)
  <2>1. Len(NetPacket) \in Nat /\ p \in 1..Len(NetPacket)
    BY NetAssumption DEF NetPackets
  <2>2. Len(NetPacket) \in Int /\ Len(NetPacket) >= 1
    BY <2>1
  <2>3. /\ IsFiniteSet(1..Len(NetPacket))
        /\ Cardinality(1..Len(NetPacket)) = IF 1 > Len(NetPacket) THEN 0 ELSE Len(NetPacket) - 1 + 1
    BY <2>2, FS_Interval
  <2> QED
    BY <2>2, <2>3 DEF NetPackets
<1>2. IsFiniteSet(Rest) /\ Cardinality(Rest) = Len(NetPacket) - 1
  BY <1>1, FS_RemoveElement
<1>3. IsFiniteSet(Entries) /\ Cardinality(Entries) = DedupCount
  <2>1. DedupCount \in Nat /\ DedupCount > 0 /\ DedupCount - 1 \in Int
    BY NetAssumption
  <2> QED
    BY <2>1, FS_Interval DEF Entries
<1>4. seen[n] \in [Entries -> Rest]
  <2>1. seen[n] \in [Entries -> 0..Len(NetPacket)]
    BY DEF SeenType
  <2>2. \A i \in Entries : seen[n][i] # 0
    BY NetAssumption DEF Filled, Entries
  <2>3. \A i \in Entries : seen[n][i] \in Rest
    BY <2>1, <2>2, NetAssumption DEF NetPackets
  <2> QED
    BY <2>1, <2>3
<1>5. Cardinality(Rest) < Cardinality(Entries)
  BY <1>2, <1>3, NetAssumption
<1>6. PICK i, j \in Entries : i # j /\ seen[n][i] = seen[n][j]
  BY <1>2, <1>3, <1>4, <1>5, FS_PigeonHole
<1> QED
  BY <1>6, NetAssumption DEF Filled, Entries

LEMMA NextInType ==
  ASSUME NEW i \in Entries
  PROVE  /\ NextIn(i) \in Entries
         /\ NextIn(i) = IF i + 1 = DedupCount THEN 0 ELSE i + 1
<1>1. DedupCount \in Nat \ {0}
  BY NetAssumption
<1> QED
  BY <1>1 DEF NextIn, Entries

LEMMA RememberType ==
  ASSUME SeenType, NEW n \in Routers, NEW p \in NetPackets, Remember(n, p)
  PROVE  /\ seen' \in [Routers -> [Entries -> 0..Len(NetPacket)]]
         /\ seenIn' \in [Routers -> Entries]
<1>1. p \in 0..Len(NetPacket)
  BY NetAssumption DEF NetPackets
<1>2. seenIn[n] \in Entries
  BY DEF SeenType
<1>3. NextIn(seenIn[n]) \in Entries
  BY <1>2, NextInType
<1> QED
  BY <1>1, <1>2, <1>3 DEF SeenType, Remember

\* The packet of a step that is no duplicate takes the next free entry.
LEMMA RememberFills ==
  ASSUME SeenType, NEW n \in Routers, NEW p \in NetPackets, Remember(n, p),
         ~Duplicate(n, p), NEW k \in 0..DedupCount, Filled(n, k)
  PROVE  /\ k + 1 \in 0..DedupCount
         /\ Filled(n, k + 1)'
         /\ \A i \in Entries : seen[n][i] # 0 => seen'[n][i] = seen[n][i]
         /\ \E i \in Entries : seen'[n][i] = p
<1>1. DOMAIN seen[n] = Entries /\ DedupCount \in Nat \ {0} /\ p # 0
  BY NetAssumption DEF SeenType, NetPackets
<1>2. \A i \in Entries : seen[n][i] # p
  BY <1>1 DEF Duplicate
<1>3. k # DedupCount
  BY <1>2, FullHoldsAll
<1>4. k \in Entries /\ seenIn[n] = k /\ k + 1 \in 0..DedupCount
  BY <1>1, <1>3 DEF Filled, Entries
<1>5. seen'[n] = [seen[n] EXCEPT ![k] = p] /\ seenIn'[n] = NextIn(k)
  BY <1>4 DEF Remember, SeenType
<1>6. seen'[n][k] = p /\ \A i \in Entries : i # k => seen'[n][i] = seen[n][i]
  BY <1>1, <1>4, <1>5
<1>7. seenIn'[n] = IF k + 1 = DedupCount THEN 0 ELSE k + 1
  BY <1>4, <1>5, NextInType
<1>8. \A i \in Entries : i \in Int
  BY DEF Entries
<1>9. \A i \in Entries : seen'[n][i] # 0 <=> i < k + 1
  BY <1>1, <1>4, <1>6, <1>8 DEF Filled
<1>10. \A i, j \in Entries : i < k + 1 /\ seen'[n][i] = seen'[n][j] => i = j
  BY <1>1, <1>2, <1>4, <1>6, <1>8 DEF Filled
<1>11. \A i \in Entries : seen[n][i] # 0 => seen'[n][i] = seen[n][i]
  BY <1>4, <1>6, <1>8 DEF Filled
<1> QED
  BY <1>4, <1>6, <1>7, <1>9, <1>10, <1>11 DEF Filled

----------------------------------------------------------------------------
LEMMA MovedType ==
  ASSUME InboxType, NEW n, NEW from, NEW p, NEW to, p \in NetPackets \/ to = NoLink,
         n \in Stations => (from \in LinksOf(n) => inbox[n][from] # <<>>),
         inbox' = Moved(n, from, p, to)
  PROVE  InboxType'
<1>1. \A m \in Stations : \A l \in LinksOf(m) : inbox'[m][l] \in Seq(NetPackets)
  <2> SUFFICES ASSUME NEW m \in Stations, NEW l \in LinksOf(m)
               PROVE  inbox'[m][l] \in Seq(NetPackets)
    OBVIOUS
  <2> DEFINE left == IF m = n /\ l = from THEN Tail(inbox[m][l]) ELSE inbox[m][l]
  <2>1. inbox'[m][l] = IF m # n /\ l = to THEN Append(left, p) ELSE left
    BY DEF Moved
  <2>2. inbox[m][l] \in Seq(NetPackets)
    BY DEF InboxType
  <2>3. left \in Seq(NetPackets)
    BY <2>2, HeadTailProperties
  <2> HIDE DEF left
  <2>4. CASE p \in NetPackets
    BY <2>1, <2>3, <2>4
  <2>5. CASE to = NoLink
    BY <2>1, <2>3, <2>5, NetAssumption DEF LinksOf
  <2> QED
    BY <2>4, <2>5
<1>2. inbox' = [m \in Stations |-> [l \in LinksOf(m) |-> inbox'[m][l]]]
  BY DEF Moved
<1> QED
  BY <1>1, <1>2 DEF InboxType

LEMMA NetInitInv == NetInit => NetInv
<1> SUFFICES ASSUME NetInit PROVE NetInv
  OBVIOUS
<1>1. DedupCount \in Nat \ {0} /\ Len(NetPacket) \in Nat /\ 0 \in Entries
  BY NetAssumption DEF Entries
<1>2. SeenType
  BY <1>1 DEF NetInit, SeenType, Entries
<1>3. InboxType
  BY DEF NetInit, InboxType
<1>4. ASSUME NEW n \in Routers PROVE Filled(n, 0) /\ Taken(n)
  <2>1. \A i \in Entries : seen[n][i] = 0 /\ i \in Nat
    BY DEF NetInit, Entries
  <2>2. seenIn[n] = 0
    BY DEF NetInit
  <2>3. Filled(n, 0)
    BY <1>1, <2>1, <2>2 DEF Filled
  <2>4. \A p \in NetPackets : accepted[n][p] = 0
    BY DEF NetInit
  <2> QED
    BY <2>3, <2>4 DEF Taken
<1> QED
  BY <1>1, <1>2, <1>3, <1>4 DEF NetInv, TypeOK, FilterOK

\* A step that leaves the filters and the acceptances alone.
LEMMA FilterKept ==
  ASSUME FilterOK, UNCHANGED <<seen, seenIn, accepted, expired>>
  PROVE  FilterOK'
BY DEF FilterOK, Filled, Taken

\* The router takes a packet: what becomes of its filter.
LEMMA WorkKeepsFilter ==
  ASSUME TypeOK, FilterOK, NEW r \in Routers, NEW l \in LinksOf(r), Work(r, l)
  PROVE  SeenType' /\ FilterOK'
<1> DEFINE p == Head(inbox[r][l])
<1>1. inbox[r][l] # <<>> /\ expired' = expired
  BY DEF Work
<1>2. p \in NetPackets
  BY <1>1, HeadTailProperties DEF TypeOK, InboxType, Routers
<1>3. CASE UNCHANGED <<seen, seenIn, accepted>>
  BY <1>1, <1>3, FilterKept DEF TypeOK, SeenType
<1>4. CASE ~Duplicate(r, p) /\ Remember(r, p)
           /\ (accepted' = accepted \/ accepted' = [accepted EXCEPT ![r][p] = @ + 1])
  <2>1. SeenType'
    <3>1. accepted' \in [Routers -> [NetPackets -> Nat]]
      <4>1. accepted \in [Routers -> [NetPackets -> Nat]] /\ accepted[r][p] + 1 \in Nat
        BY <1>2 DEF TypeOK, SeenType
      <4>2. [accepted[r] EXCEPT ![p] = accepted[r][p] + 1] \in [NetPackets -> Nat]
        BY <4>1
      <4> QED
        BY <1>4, <4>1, <4>2
    <3> QED
      BY <1>1, <1>2, <1>4, <3>1, RememberType DEF TypeOK, SeenType
  <2>2. ASSUME expired = 0, NEW n \in Routers
        PROVE  (\E k \in 0..DedupCount : Filled(n, k)') /\ Taken(n)'
    <3>1. PICK k \in 0..DedupCount : Filled(n, k)
      BY <2>2 DEF FilterOK
    <3>2. Taken(n)
      BY <2>2 DEF FilterOK
    <3>3. CASE n # r
      <4>1. seen'[n] = seen[n] /\ seenIn'[n] = seenIn[n] /\ accepted'[n] = accepted[n]
        BY <1>4, <3>3 DEF Remember, TypeOK, SeenType
      <4> QED
        BY <3>1, <3>2, <4>1 DEF Filled, Taken
    <3>4. CASE n = r
      <4>1. /\ k + 1 \in 0..DedupCount /\ Filled(n, k + 1)'
            /\ \A i \in Entries : seen[n][i] # 0 => seen'[n][i] = seen[n][i]
            /\ \E i \in Entries : seen'[n][i] = p
        BY <1>2, <1>4, <3>1, <3>4, RememberFills DEF TypeOK
      <4>2. \A i \in Entries : seen[n][i] # p
        BY <1>4, <3>4 DEF Duplicate, TypeOK, SeenType
      <4>3. accepted[n][p] = 0
        BY <1>2, <3>2, <4>2 DEF Taken
      <4>4. ASSUME NEW q \in NetPackets, accepted'[n][q] # 0
            PROVE  accepted'[n][q] = 1 /\ \E i \in Entries : seen'[n][i] = q
        <5>1. CASE q = p
          BY <1>2, <1>4, <3>4, <4>1, <4>3, <4>4, <5>1 DEF TypeOK, SeenType
        <5>2. CASE q # p
          <6>1. accepted'[n][q] = accepted[n][q]
            BY <1>2, <1>4, <3>4, <5>2 DEF TypeOK, SeenType
          <6>2. accepted[n][q] = 1 /\ \E i \in Entries : seen[n][i] = q
            BY <3>2, <4>4, <6>1 DEF Taken
          <6>3. q # 0
            BY NetAssumption DEF NetPackets
          <6> QED
            BY <4>1, <6>1, <6>2, <6>3
        <5> QED
          BY <5>1, <5>2
      <4> QED
        BY <4>1, <4>4 DEF Taken
    <3> QED
      BY <3>3, <3>4
  <2> QED
    BY <1>1, <2>1, <2>2 DEF FilterOK
<1> QED
  BY <1>3, <1>4 DEF Work

LEMMA WorkInv ==
  ASSUME NetInv, NEW r \in Routers, NEW l \in LinksOf(r), Work(r, l)
  PROVE  NetInv'
<1>1. inbox[r][l] # <<>> /\ r \in Stations
  BY DEF Work, Routers
<1>2. Head(inbox[r][l]) \in NetPackets
  BY <1>1, HeadTailProperties DEF NetInv, TypeOK, InboxType
<1>3. \E to : inbox' = Moved(r, l, Head(inbox[r][l]), to)
  BY DEF Work
<1>4. InboxType'
  BY <1>1, <1>2, <1>3, MovedType DEF NetInv, TypeOK
<1> QED
  BY <1>4, WorkKeepsFilter DEF NetInv, TypeOK

LEMMA BridgeInv ==
  ASSUME NetInv, NEW b \in Bridges, NEW l \in LinksOf(b), b \in Stations, Bridge(b, l)
  PROVE  NetInv'
<1>1. inbox[b][l] # <<>>
  BY DEF Bridge
<1>2. Head(inbox[b][l]) \in NetPackets
  BY <1>1, HeadTailProperties DEF NetInv, TypeOK, InboxType
<1>3. \E to : inbox' = Moved(b, l, Head(inbox[b][l]), to)
  BY DEF Bridge
<1>4. InboxType'
  BY <1>1, <1>2, <1>3, MovedType DEF NetInv, TypeOK
<1>5. UNCHANGED <<seen, seenIn, accepted, expired>>
  BY DEF Bridge
<1> QED
  BY <1>4, <1>5, FilterKept DEF NetInv, TypeOK, SeenType

LEMMA LoseInv ==
  ASSUME NetInv, NEW n \in Stations, NEW l \in LinksOf(n), Lose(n, l)
  PROVE  NetInv'
<1>1. InboxType'
  BY MovedType DEF NetInv, TypeOK, Lose
<1>2. UNCHANGED <<seen, seenIn, accepted, expired>>
  BY DEF Lose
<1> QED
  BY <1>1, <1>2, FilterKept DEF NetInv, TypeOK, SeenType

LEMMA OriginateInv ==
  ASSUME NetInv, NEW p \in NetPackets, Originate(p)
  PROVE  NetInv'
<1>1. \E to : inbox' = Moved(Source(p), NoLink, p, to)
  BY DEF Originate
<1>2. NoLink \notin LinksOf(Source(p))
  BY NetAssumption DEF LinksOf
<1>3. InboxType'
  BY <1>1, <1>2, MovedType DEF NetInv, TypeOK
<1>4. UNCHANGED <<seen, seenIn, accepted, expired>>
  BY DEF Originate
<1> QED
  BY <1>3, <1>4, FilterKept DEF NetInv, TypeOK, SeenType

LEMMA ExpireInv ==
  ASSUME NetInv, NEW n \in Routers, Expire(n)
  PROVE  NetInv'
<1>1. expired' = expired + 1 /\ expired \in Nat /\ inbox' = inbox
  BY DEF Expire, NetInv, TypeOK, SeenType
<1>2. PICK i \in Entries : seen' = [seen EXCEPT ![n][i] = 0]
  BY DEF Expire, NetInv, TypeOK, SeenType
<1>3. 0 \in 0..Len(NetPacket)
  BY NetAssumption
<1>4. SeenType'
  BY <1>1, <1>2, <1>3 DEF Expire, NetInv, TypeOK, SeenType
<1>5. expired' # 0
  BY <1>1
<1> QED
  BY <1>1, <1>4, <1>5 DEF NetInv, TypeOK, InboxType, FilterOK

LEMMA NetStep == NetInv /\ [NetNext]_netVars => NetInv'
<1> SUFFICES ASSUME NetInv, [NetNext]_netVars PROVE NetInv'
  OBVIOUS
<1>1. CASE \E p \in NetPackets : Originate(p)
  BY <1>1, OriginateInv
<1>2. CASE \E n \in Routers : RouterWorks(n)
  BY <1>2, WorkInv DEF RouterWorks
<1>3. CASE \E n \in Bridges : BridgeWorks(n)
  <2>0. PICK b \in Bridges : \E l \in LinksOf(b) : Bridge(b, l)
    BY <1>3 DEF BridgeWorks
  <2>1. PICK l \in LinksOf(b) : Bridge(b, l)
    BY <2>0
  <2>2. b \in Stations
    BY DEF LinksOf, Stations
  <2> QED
    BY <2>1, <2>2, BridgeInv
<1>4. CASE \E n \in Stations : \E l \in LinksOf(n) : Lose(n, l)
  BY <1>4, LoseInv
<1>5. CASE \E n \in Routers : Expire(n)
  BY <1>5, ExpireInv
<1>6. CASE UNCHANGED netVars
  BY <1>6, FilterKept DEF netVars, NetInv, TypeOK, SeenType, InboxType
<1> QED
  BY <1>1, <1>2, <1>3, <1>4, <1>5, <1>6 DEF NetNext

LEMMA NetInvCorrect == NetSpec => []NetInv
<1> QED
  BY NetInitInv, NetStep, PTL DEF NetSpec

\* Type correctness: queues hold packets of the network, and the index of the
\* ring buffer of csp_dedup.c stays within it.
THEOREM NetTypeCorrect == NetSpec => []TypeOK
<1>1. NetInv => TypeOK
  BY DEF NetInv
<1> QED
  BY <1>1, NetInvCorrect, PTL

\* No node takes a packet twice while its window of csp_dedup.c lasts, whatever
\* the network, the routes and the order in which copies arrive.
THEOREM AcceptedOnceCorrect == NetSpec => []AcceptedOnce
<1>1. NetInv => AcceptedOnce
  <2> SUFFICES ASSUME NetInv, expired = 0, NEW n \in Routers, NEW p \in NetPackets
               PROVE  accepted[n][p] <= 1
    BY DEF AcceptedOnce
  <2>1. accepted[n][p] # 0 => accepted[n][p] = 1
    BY DEF NetInv, FilterOK, Taken
  <2> QED
    BY <2>1
<1> QED
  BY <1>1, NetInvCorrect, PTL

----------------------------------------------------------------------------
\* No last copy is dropped.

\* What m does with p, once it has come to all stations of the links C, keeps p
\* within C.
Within(m, p, C) ==
  /\ m \in Bridges => LinksOf(m) \subseteq C
  /\ m \in Routers /\ ~ForMe(m, p) => Route[m][Target(p)] \in C \cup {NoLink}

\* The link its source sends p on.
FirstLink(p) ==
  IF Target(p) = Everyone THEN CHOOSE l \in LinksOf(Source(p)) : TRUE
  ELSE Route[Source(p)][Target(p)]

\* The routes lead: by the links p is sent on, if nothing is lost and no copy is
\* held for a duplicate, it comes to those it is for.  No node has a route out
\* for itself.
RoutesLead ==
  /\ \A p \in NetPackets : FirstLink(p) \in NetLinks /\ Target(p) # Source(p)
  /\ \A m \in Routers : \A p \in NetPackets :
       ~ForMe(m, p) => Route[m][Target(p)] \in NetLinks \cup {NoLink}
  /\ \A p \in NetPackets : \A C \in SUBSET NetLinks :
       FirstLink(p) \in C /\ (\A l \in C : \A m \in Attached[l] : Within(m, p, C))
         => \A n \in Receivers(p) : \E l \in C : n \in Attached[l]

Has(m, l, p) == \E i \in 1..Len(inbox[m][l]) : inbox[m][l][i] = p

\* m is done with p.
Handled(m, p, C) ==
  Within(m, p, C) /\ (m \in Receivers(p) => accepted[m][p] >= 1)

\* p has been sent on the links C: who is on one of them has p before it or is
\* done with it, and so is whose filter holds p.
Carried(p, C) ==
  /\ FirstLink(p) \in C
  /\ \A l \in C : \A m \in Attached[l] : Has(m, l, p) \/ Handled(m, p, C)
  /\ \A m \in Stations : \A l \in LinksOf(m) : Has(m, l, p) => l \in C
  /\ \A m \in Routers : Duplicate(m, p) => Handled(m, p, C)

Nowhere(p) ==
  /\ \A m \in Stations : \A l \in LinksOf(m) : ~Has(m, l, p)
  /\ \A m \in Routers : ~Duplicate(m, p)

DeliverInv ==
  /\ originated \subseteq NetPackets
  /\ \A p \in NetPackets \ originated : Nowhere(p)
  /\ \A p \in originated \ lostHere : \E C \in SUBSET NetLinks : Carried(p, C)

\* What a move leaves where it was, and what it brings.
LEMMA MovedHas ==
  ASSUME TypeOK, NEW n, NEW from, NEW q, NEW to, inbox' = Moved(n, from, q, to),
         n \in Stations => (from \in LinksOf(n) => inbox[n][from] # <<>>),
         NEW m \in Stations, NEW l \in LinksOf(m), NEW p
  PROVE  /\ Has(m, l, p)' => Has(m, l, p) \/ (p = q /\ m # n /\ l = to)
         /\ Has(m, l, p) =>
              Has(m, l, p)' \/ (m = n /\ l = from /\ p = Head(inbox[m][l]))
         /\ m # n /\ l = to /\ p = q => Has(m, l, p)'
<1> DEFINE s == inbox[m][l]
           left == IF m = n /\ l = from THEN Tail(s) ELSE s
<1>1. inbox'[m][l] = IF m # n /\ l = to THEN Append(left, q) ELSE left
  BY DEF Moved
<1>2. s \in Seq(NetPackets)
  BY DEF TypeOK, InboxType
<1>3. \E S : left \in Seq(S)
  BY <1>2, HeadTailProperties
<1>4. ASSUME m = n, l = from
      PROVE  /\ s # <<>> /\ left = Tail(s) /\ Len(left) = Len(s) - 1 /\ Len(s) \in Nat
             /\ \A i \in 1..Len(left) : left[i] = s[i + 1]
             /\ Head(s) = s[1]
  BY <1>2, <1>4, HeadTailProperties
<1>5. (\E i \in 1..Len(left) : left[i] = p) => Has(m, l, p)
  <2>1. CASE m = n /\ l = from
    <3> HIDE DEF left, s
    <3>1. \A i \in 1..Len(left) : i + 1 \in 1..Len(s)
      BY <1>4, <2>1
    <3> QED
      BY <1>4, <2>1, <3>1 DEF Has, s
  <2>2. CASE ~(m = n /\ l = from)
    BY <2>2 DEF Has
  <2> QED
    BY <2>1, <2>2
<1>6. Has(m, l, p) =>
        (\E i \in 1..Len(left) : left[i] = p) \/ (m = n /\ l = from /\ p = Head(s))
  <2>1. CASE m = n /\ l = from
    <3> SUFFICES ASSUME NEW i \in 1..Len(s), s[i] = p, i # 1
                 PROVE  \E j \in 1..Len(left) : left[j] = p
      BY <1>4, <2>1 DEF Has
    <3> HIDE DEF left, s
    <3>1. i - 1 \in 1..Len(left) /\ i = (i - 1) + 1
      BY <1>4, <2>1
    <3> QED
      BY <1>4, <2>1, <3>1
  <2>2. CASE ~(m = n /\ l = from)
    BY <2>2 DEF Has
  <2> QED
    BY <2>1, <2>2
<1> HIDE DEF left
<1>7. PICK S : left \in Seq(S)
  BY <1>3
<1>8. CASE m # n /\ l = to
  <2>1. inbox'[m][l] = Append(left, q)
    BY <1>1, <1>8
  <2>2. Len(left) \in Nat
    BY <1>7
  <2>3. /\ Len(Append(left, q)) = Len(left) + 1
        /\ Append(left, q)[Len(left) + 1] = q
        /\ \A i \in 1..Len(left) : Append(left, q)[i] = left[i]
    <3>1. left \in Seq(S \cup {q}) /\ q \in S \cup {q}
      BY <1>7
    <3> QED
      BY <3>1, AppendProperties
  <2>4. \A i : i \in 1..Len(left) + 1 <=> i \in 1..Len(left) \/ i = Len(left) + 1
    BY <2>2
  <2>5. Has(m, l, p)' <=> (\E i \in 1..Len(left) : left[i] = p) \/ p = q
    BY <2>1, <2>3, <2>4 DEF Has
  <2> QED
    BY <1>5, <1>6, <1>8, <2>5
<1>9. CASE ~(m # n /\ l = to)
  <2>1. inbox'[m][l] = left
    BY <1>1, <1>9
  <2>2. Has(m, l, p)' <=> \E i \in 1..Len(left) : left[i] = p
    BY <2>1 DEF Has
  <2> QED
    BY <1>5, <1>6, <1>9, <2>2
<1> QED
  BY <1>8, <1>9

LEMMA HandledMore ==
  ASSUME NEW m, NEW p, NEW C, NEW D, C \subseteq D, Handled(m, p, C) PROVE Handled(m, p, D)
BY DEF Handled, Within

\* A step that moves q, after which the links p is sent on are D.
LEMMA CarriedKept ==
  ASSUME TypeOK, NEW n, NEW from, NEW q, NEW to, inbox' = Moved(n, from, q, to),
         n \in Stations => (from \in LinksOf(n) => inbox[n][from] # <<>>),
         NEW p, NEW C \in SUBSET NetLinks, NEW D \in SUBSET NetLinks, C \subseteq D,
         Carried(p, C),
         \A m \in Routers : accepted[m][p] >= 1 => accepted'[m][p] >= 1,
         \A m \in Routers : Duplicate(m, p)' => Duplicate(m, p) \/ Handled(m, p, D)',
         n \in Stations /\ from \in LinksOf(n) /\ p = Head(inbox[n][from])
           => Handled(n, p, D)',
         \A l \in D \ C : l = to /\ p = q /\ (n \in Attached[l] => Handled(n, p, D)'),
         p = q /\ to \in NetLinks => to \in D
  PROVE  Carried(p, D)'
<1>1. ASSUME NEW m \in Stations \cup Routers, Handled(m, p, C) PROVE Handled(m, p, D)'
  <2>1. m \in Receivers(p) => m \in Routers
    BY DEF Receivers
  <2> QED
    BY <1>1, <2>1 DEF Handled, Within
<1>2. \A l \in NetLinks : \A m \in Attached[l] : m \in Stations /\ l \in LinksOf(m)
  BY DEF Stations, LinksOf
<1>3. ASSUME NEW m \in Stations, NEW l \in LinksOf(m)
      PROVE  /\ Has(m, l, p)' => Has(m, l, p) \/ (p = q /\ m # n /\ l = to)
             /\ Has(m, l, p) =>
                  Has(m, l, p)' \/ (m = n /\ l = from /\ p = Head(inbox[m][l]))
             /\ m # n /\ l = to /\ p = q => Has(m, l, p)'
  BY MovedHas
<1>4. ASSUME NEW l \in D, NEW m \in Attached[l] PROVE Has(m, l, p)' \/ Handled(m, p, D)'
  <2>1. m \in Stations /\ l \in LinksOf(m)
    BY <1>2
  <2>2. CASE l \in C
    <3>1. CASE Has(m, l, p)
      BY <1>3, <2>1, <3>1
    <3>2. CASE Handled(m, p, C)
      BY <1>1, <2>1, <3>2
    <3> QED
      BY <2>2, <3>1, <3>2 DEF Carried
  <2>3. CASE l \notin C
    BY <1>3, <2>1, <2>3
  <2> QED
    BY <2>2, <2>3
<1>5. ASSUME NEW m \in Stations, NEW l \in LinksOf(m), Has(m, l, p)' PROVE l \in D
  <2>1. CASE Has(m, l, p)
    BY <2>1 DEF Carried
  <2>2. CASE p = q /\ l = to
    BY <2>2 DEF LinksOf
  <2> QED
    BY <1>3, <1>5, <2>1, <2>2
<1>6. ASSUME NEW m \in Routers, Duplicate(m, p)' PROVE Handled(m, p, D)'
  <2>1. CASE Duplicate(m, p)
    BY <1>1, <2>1 DEF Carried
  <2> QED
    BY <1>6, <2>1
<1>7. FirstLink(p) \in D
  BY DEF Carried
<1> QED
  BY <1>4, <1>5, <1>6, <1>7 DEF Carried

\* A packet not yet sent stays nowhere.
LEMMA NowhereKept ==
  ASSUME TypeOK, NEW n, NEW from, NEW q, NEW to, inbox' = Moved(n, from, q, to),
         n \in Stations => (from \in LinksOf(n) => inbox[n][from] # <<>>),
         NEW p, Nowhere(p), p # q,
         \A m \in Routers : Duplicate(m, p)' => Duplicate(m, p)
  PROVE  Nowhere(p)'
<1>1. ASSUME NEW m \in Stations, NEW l \in LinksOf(m) PROVE ~Has(m, l, p)'
  <2>1. Has(m, l, p)' => Has(m, l, p) \/ (p = q /\ m # n /\ l = to)
    BY MovedHas
  <2> QED
    BY <2>1 DEF Nowhere
<1> QED
  BY <1>1 DEF Nowhere

\* What is taken from an inbox was there.
LEMMA HeadHas ==
  ASSUME TypeOK, NEW n \in Stations, NEW l \in LinksOf(n), inbox[n][l] # <<>>
  PROVE  Head(inbox[n][l]) \in NetPackets /\ Has(n, l, Head(inbox[n][l]))
<1>1. inbox[n][l] \in Seq(NetPackets)
  BY DEF TypeOK, InboxType
<1>2. /\ Head(inbox[n][l]) \in NetPackets /\ Head(inbox[n][l]) = inbox[n][l][1]
      /\ Len(inbox[n][l]) \in Nat /\ Len(inbox[n][l]) > 0
  BY <1>1, HeadTailProperties, EmptySeq
<1>3. 1 \in 1..Len(inbox[n][l])
  BY <1>2
<1> QED
  BY <1>2, <1>3 DEF Has

\* A packet in an inbox has been sent.
LEMMA HasOriginated ==
  ASSUME DeliverInv, NEW p \in NetPackets, NEW n \in Stations, NEW l \in LinksOf(n),
         Has(n, l, p)
  PROVE  p \in originated
BY DEF DeliverInv, Nowhere

\* The filter after a step that remembers p holds p and what it held before.
LEMMA RememberHas ==
  ASSUME SeenType, NEW n \in Routers, NEW p \in NetPackets, Remember(n, p),
         NEW m \in Routers, NEW q
  PROVE  Duplicate(m, q)' => Duplicate(m, q) \/ (m = n /\ q = p)
<1>1. seenIn[n] \in Entries /\ seen \in [Routers -> [Entries -> 0..Len(NetPacket)]]
  BY DEF SeenType
<1>2. seen' = [seen EXCEPT ![n] = [seen[n] EXCEPT ![seenIn[n]] = p]]
  BY <1>1 DEF Remember
<1>3. CASE m # n
  <2>1. seen'[m] = seen[m]
    BY <1>1, <1>2, <1>3
  <2> QED
    BY <2>1 DEF Duplicate
<1>4. CASE m = n
  <2>1. seen'[m] = [seen[m] EXCEPT ![seenIn[n]] = p]
    BY <1>1, <1>2, <1>4
  <2>2. DOMAIN seen'[m] = Entries /\ DOMAIN seen[m] = Entries
    BY <1>1, <2>1
  <2>3. \A i \in Entries : seen'[m][i] = p \/ seen'[m][i] = seen[m][i]
    BY <1>1, <2>1, <2>2
  <2> QED
    BY <1>4, <2>2, <2>3 DEF Duplicate
<1> QED
  BY <1>3, <1>4

LEMMA WorkDelivers ==
  ASSUME RoutesLead, NetInv, DeliverInv, NEW n \in Routers, NEW l \in LinksOf(n),
         Work(n, l)
  PROVE  DeliverInv'
<1>0. PICK q : q = Head(inbox[n][l])
  OBVIOUS
<1>1. inbox[n][l] # <<>> /\ n \in Stations /\ originated' = originated /\ lostHere' = lostHere
  BY DEF Work, Routers
<1>2. q \in NetPackets /\ Has(n, l, q) /\ q \in originated
  BY <1>0, <1>1, HeadHas, HasOriginated DEF NetInv
<1>3. TypeOK /\ SeenType
  BY DEF NetInv, TypeOK
<1>4. PICK to : inbox' = Moved(n, l, q, to)
  BY <1>0 DEF Work
<1>5. \A m \in Routers : \A p \in NetPackets :
        /\ Duplicate(m, p)' => Duplicate(m, p) \/ (m = n /\ p = q)
        /\ accepted[m][p] >= 1 => accepted'[m][p] >= 1
  <2> SUFFICES ASSUME NEW m \in Routers, NEW p \in NetPackets
               PROVE  /\ Duplicate(m, p)' => Duplicate(m, p) \/ (m = n /\ p = q)
                      /\ accepted[m][p] >= 1 => accepted'[m][p] >= 1
    OBVIOUS
  <2>1. ASSUME UNCHANGED seen PROVE Duplicate(m, p)' => Duplicate(m, p)
    BY <2>1 DEF Duplicate
  <2>2. ASSUME Remember(n, q)
        PROVE  Duplicate(m, p)' => Duplicate(m, p) \/ (m = n /\ p = q)
    BY <1>2, <1>3, <2>2, RememberHas
  <2>3. UNCHANGED seen \/ Remember(n, q)
    BY <1>0 DEF Work
  <2>4. accepted' = accepted \/ accepted' = [accepted EXCEPT ![n][q] = @ + 1]
    BY <1>0 DEF Work
  <2>5. accepted \in [Routers -> [NetPackets -> Nat]]
    BY <1>3 DEF SeenType
  <2>6. accepted[m][p] \in Nat
    BY <2>5
  <2>7. accepted[m][p] >= 1 => accepted'[m][p] >= 1
    BY <2>4, <2>5, <2>6
  <2> QED
    BY <2>1, <2>2, <2>3, <2>7
<1>6. ASSUME NEW p \in NetPackets, p \notin originated PROVE Nowhere(p)'
  <2>1. Nowhere(p) /\ p # q
    BY <1>2, <1>6 DEF DeliverInv
  <2>2. \A m \in Routers : Duplicate(m, p)' => Duplicate(m, p)
    BY <1>5, <2>1
  <2> QED
    BY <1>1, <1>3, <1>4, <2>1, <2>2, NowhereKept
<1>7. ASSUME NEW p \in originated \ lostHere, p # q
      PROVE  \E C \in SUBSET NetLinks : Carried(p, C)'
  <2>1. PICK C \in SUBSET NetLinks : Carried(p, C)
    BY <1>7 DEF DeliverInv
  <2>2. /\ \A m \in Routers : Duplicate(m, p)' => Duplicate(m, p)
        /\ \A m \in Routers : accepted[m][p] >= 1 => accepted'[m][p] >= 1
    BY <1>5, <1>7 DEF DeliverInv
  <2>3. p # Head(inbox[n][l])
    BY <1>0, <1>7
  <2>4. Carried(p, C)'
    BY <1>1, <1>3, <1>4, <1>7, <2>1, <2>2, <2>3, CarriedKept
  <2> QED
    BY <2>4
<1>8. ASSUME q \notin lostHere PROVE \E C \in SUBSET NetLinks : Carried(q, C)'
  <2>1. PICK C \in SUBSET NetLinks : Carried(q, C)
    BY <1>2, <1>8 DEF DeliverInv
  <2>2. l \in C
    BY <1>1, <1>2, <2>1 DEF Carried
  <2>3. /\ \A m \in Routers : Duplicate(m, q)' => Duplicate(m, q) \/ m = n
        /\ \A m \in Routers : accepted[m][q] >= 1 => accepted'[m][q] >= 1
    BY <1>2, <1>5
  <2>4. n \notin Bridges
    BY DEF Routers
  <2>5. CASE Duplicate(n, q) /\ inbox' = Moved(n, l, q, NoLink)
    <3>1. Handled(n, q, C)
      BY <2>1, <2>5 DEF Carried
    <3>2. Handled(n, q, C)'
      BY <2>3, <3>1 DEF Handled
    <3>3. NoLink \notin NetLinks
      BY NetAssumption
    <3>4. \A m \in Routers : Duplicate(m, q)' => Duplicate(m, q) \/ Handled(m, q, C)'
      BY <2>3, <3>2
    <3>5. inbox' = Moved(n, l, q, NoLink)
      BY <2>5
    <3>6. Carried(q, C)'
      BY <1>1, <1>3, <2>1, <2>3, <3>2, <3>3, <3>4, <3>5, CarriedKept
    <3> QED
      BY <3>6
  <2>6. CASE /\ ForMe(n, q) /\ inbox' = Moved(n, l, q, NoLink)
             /\ accepted' = [accepted EXCEPT ![n][q] = @ + 1]
    <3>1. accepted'[n][q] >= 1
      <4>1. accepted \in [Routers -> [NetPackets -> Nat]] /\ accepted[n][q] \in Nat
        BY <1>2, <1>3 DEF SeenType
      <4>2. accepted'[n][q] = accepted[n][q] + 1
        BY <1>2, <2>6, <4>1
      <4> QED
        BY <4>1, <4>2
    <3>2. Handled(n, q, C)'
      BY <2>4, <2>6, <3>1 DEF Handled, Within
    <3>3. NoLink \notin NetLinks
      BY NetAssumption
    <3>4. \A m \in Routers : Duplicate(m, q)' => Duplicate(m, q) \/ Handled(m, q, C)'
      BY <2>3, <3>2
    <3>5. inbox' = Moved(n, l, q, NoLink)
      BY <2>6
    <3>6. Carried(q, C)'
      BY <1>1, <1>3, <2>1, <2>3, <3>2, <3>3, <3>4, <3>5, CarriedKept
    <3> QED
      BY <3>6
  <2>7. CASE ~ForMe(n, q) /\ inbox' = Moved(n, l, q, Onward(n, q, l))
    <3> DEFINE link == Route[n][Target(q)]
               D == C \cup ({link} \cap NetLinks)
    <3>1. link \in NetLinks \cup {NoLink}
      BY <1>2, <2>7 DEF RoutesLead
    <3>2. n \notin Receivers(q)
      BY <2>7 DEF Receivers, ForMe, Routers, Stations
    <3>3. Handled(n, q, D)'
      BY <2>4, <3>1, <3>2 DEF Handled, Within
    <3>4. D \in SUBSET NetLinks /\ C \subseteq D
      OBVIOUS
    <3>5. \A k \in D \ C : k = Onward(n, q, l)
      BY <2>2 DEF Onward
    <3>6. Onward(n, q, l) \in NetLinks => Onward(n, q, l) \in D
      BY NetAssumption DEF Onward
    <3>7. \A m \in Routers : Duplicate(m, q)' => Duplicate(m, q) \/ Handled(m, q, D)'
      BY <2>3, <3>3
    <3>8. inbox' = Moved(n, l, q, Onward(n, q, l))
      BY <2>7
    <3>9. PICK out : out = Onward(n, q, l)
      OBVIOUS
    <3>10. \A k \in D \ C : k = out /\ (n \in Attached[k] => Handled(n, q, D)')
      BY <3>3, <3>5, <3>9
    <3>11. inbox' = Moved(n, l, q, out) /\ (out \in NetLinks => out \in D)
      BY <3>6, <3>8, <3>9
    <3> HIDE DEF D
    <3>12. Carried(q, D)'
      BY <1>1, <1>3, <2>1, <2>3, <3>3, <3>4, <3>7, <3>10, <3>11, CarriedKept
    <3> QED
      BY <3>4, <3>12
  <2> QED
    BY <1>0, <2>5, <2>6, <2>7 DEF Work
<1> QED
  BY <1>1, <1>2, <1>6, <1>7, <1>8 DEF DeliverInv

LEMMA BridgeDelivers ==
  ASSUME NetInv, DeliverInv, NEW b \in Bridges, NEW l \in LinksOf(b), Bridge(b, l)
  PROVE  DeliverInv'
<1>0. PICK q : q = Head(inbox[b][l])
  OBVIOUS
<1>1. /\ inbox[b][l] # <<>> /\ b \in Stations /\ b \notin Routers
      /\ UNCHANGED <<seen, accepted, originated, lostHere>>
  BY DEF Bridge, Routers, LinksOf, Stations
<1>2. q \in NetPackets /\ Has(b, l, q) /\ q \in originated
  BY <1>0, <1>1, HeadHas, HasOriginated DEF NetInv
<1>3. TypeOK
  BY DEF NetInv
<1>4. PICK to \in LinksOf(b) \ {l} : inbox' = Moved(b, l, q, to)
  BY <1>0 DEF Bridge
<1>5. \A m, p : /\ Duplicate(m, p)' <=> Duplicate(m, p)
                /\ accepted'[m][p] = accepted[m][p]
  BY <1>1 DEF Duplicate
<1>6. ASSUME NEW p \in NetPackets, p \notin originated PROVE Nowhere(p)'
  <2>1. Nowhere(p) /\ p # q
    BY <1>2, <1>6 DEF DeliverInv
  <2> QED
    BY <1>1, <1>3, <1>4, <1>5, <2>1, NowhereKept
<1>7. ASSUME NEW p \in originated \ lostHere, p # q
      PROVE  \E C \in SUBSET NetLinks : Carried(p, C)'
  <2>1. PICK C \in SUBSET NetLinks : Carried(p, C)
    BY <1>7 DEF DeliverInv
  <2>2. p # Head(inbox[b][l])
    BY <1>0, <1>7
  <2>3. Carried(p, C)'
    BY <1>1, <1>3, <1>4, <1>5, <1>7, <2>1, <2>2, CarriedKept
  <2> QED
    BY <2>3
<1>8. ASSUME q \notin lostHere PROVE \E C \in SUBSET NetLinks : Carried(q, C)'
  <2>1. PICK C \in SUBSET NetLinks : Carried(q, C)
    BY <1>2, <1>8 DEF DeliverInv
  <2>2. l \in C
    BY <1>1, <1>2, <2>1 DEF Carried
  <2> DEFINE D == C \cup {to}
  <2>3. LinksOf(b) = {l, to}
    <3>1. IsFiniteSet(LinksOf(b)) /\ Cardinality(LinksOf(b)) = 2
      <4>1. IsFiniteSet(NetLinks) /\ LinksOf(b) \subseteq NetLinks
        BY NetAssumption DEF LinksOf
      <4>2. Cardinality(LinksOf(b)) = 2
        BY NetAssumption
      <4> QED
        BY <4>1, <4>2, FS_Subset
    <3> DEFINE Others == LinksOf(b) \ {l}
    <3>2. IsFiniteSet(Others) /\ Cardinality(Others) = 1
      BY <3>1, FS_RemoveElement
    <3>3. IsFiniteSet(Others \ {to}) /\ Cardinality(Others \ {to}) = 0
      BY <1>4, <3>2, FS_RemoveElement
    <3>4. Others \ {to} = {}
      BY <3>3, FS_EmptySet
    <3> QED
      BY <1>4, <3>4
  <2>4. Handled(b, q, D)'
    <3>1. b \notin Receivers(q)
      BY <1>1 DEF Receivers
    <3> QED
      BY <1>1, <2>2, <2>3, <3>1 DEF Handled, Within
  <2>5. to \in NetLinks /\ D \in SUBSET NetLinks /\ C \subseteq D
    BY <1>4 DEF LinksOf
  <2>6. \A k \in D \ C : k = to /\ (b \in Attached[k] => Handled(b, q, D)')
    BY <2>4
  <2>7. to \in D
    OBVIOUS
  <2> HIDE DEF D
  <2>8. Carried(q, D)'
    BY <1>1, <1>3, <1>4, <1>5, <2>1, <2>4, <2>5, <2>6, <2>7, CarriedKept
  <2> QED
    BY <2>5, <2>8
<1> QED
  BY <1>1, <1>2, <1>6, <1>7, <1>8 DEF DeliverInv

LEMMA LoseDelivers ==
  ASSUME NetInv, DeliverInv, NEW n \in Stations, NEW l \in LinksOf(n), Lose(n, l)
  PROVE  DeliverInv'
<1>0. PICK q : q = Head(inbox[n][l])
  OBVIOUS
<1>1. /\ inbox[n][l] # <<>> /\ inbox' = Moved(n, l, 0, NoLink)
      /\ UNCHANGED <<seen, accepted, originated>> /\ lostHere' = lostHere \cup {q}
  BY <1>0 DEF Lose
<1>2. TypeOK
  BY DEF NetInv
<1>3. \A m, p : /\ Duplicate(m, p)' <=> Duplicate(m, p)
                /\ accepted'[m][p] = accepted[m][p]
  BY <1>1 DEF Duplicate
<1>4. \A p \in NetPackets : p # 0
  BY NetAssumption DEF NetPackets
<1>5. ASSUME NEW p \in NetPackets, p \notin originated PROVE Nowhere(p)'
  <2>1. Nowhere(p) /\ p # 0
    BY <1>4, <1>5 DEF DeliverInv
  <2>2. PICK none : none = 0
    OBVIOUS
  <2>3. inbox' = Moved(n, l, none, NoLink) /\ p # none
    BY <1>1, <2>1, <2>2
  <2> QED
    BY <1>1, <1>2, <1>3, <2>1, <2>3, NowhereKept
<1>6. ASSUME NEW p \in originated \ lostHere'
      PROVE  \E C \in SUBSET NetLinks : Carried(p, C)'
  <2>1. PICK C \in SUBSET NetLinks : Carried(p, C)
    BY <1>1, <1>6 DEF DeliverInv
  <2>2. p # Head(inbox[n][l])
    BY <1>0, <1>1, <1>6
  <2>3. PICK none : none = 0
    OBVIOUS
  <2>4. inbox' = Moved(n, l, none, NoLink) /\ p # none
    BY <1>1, <1>4, <1>6, <2>3 DEF DeliverInv
  <2>5. Carried(p, C)'
    BY <1>1, <1>2, <1>3, <1>6, <2>1, <2>2, <2>4, CarriedKept
  <2> QED
    BY <2>5
<1> QED
  BY <1>1, <1>5, <1>6 DEF DeliverInv

LEMMA OriginateDelivers ==
  ASSUME RoutesLead, NetInv, DeliverInv, NEW q \in NetPackets, Originate(q)
  PROVE  DeliverInv'
<1>1. /\ q \notin originated /\ originated' = originated \cup {q}
      /\ UNCHANGED <<seen, accepted, lostHere>>
  BY DEF Originate
<1> DEFINE s == Source(q)
           to == FirstLink(q)
           C == {to}
<1>2. inbox' = Moved(s, NoLink, q, to)
  BY DEF Originate, FirstLink
<1>3. /\ TypeOK /\ s \in Routers /\ s \notin Bridges /\ s \in Stations
      /\ NoLink \notin LinksOf(s)
  BY NetAssumption DEF NetInv, LinksOf, Routers
<1>4. \A m, p : /\ Duplicate(m, p)' <=> Duplicate(m, p)
                /\ accepted'[m][p] = accepted[m][p]
  BY <1>1 DEF Duplicate
<1>5. to \in NetLinks /\ Target(q) # s
  BY DEF RoutesLead
<1>6. PICK none : none = NoLink
  OBVIOUS
<1>7. PICK out, src : out = to /\ src = s
  OBVIOUS
<1>8. /\ inbox' = Moved(src, none, q, out) /\ none \notin LinksOf(src)
      /\ src \in Stations
  BY <1>2, <1>3, <1>6, <1>7
<1>9. ASSUME NEW p \in NetPackets, p \notin originated' PROVE Nowhere(p)'
  <2>1. Nowhere(p) /\ p # q
    BY <1>1, <1>9 DEF DeliverInv
  <2> HIDE DEF s, to
  <2> QED
    BY <1>3, <1>4, <1>8, <2>1, NowhereKept
<1>10. ASSUME NEW p \in originated \ lostHere
      PROVE  \E D \in SUBSET NetLinks : Carried(p, D)'
  <2>1. PICK D \in SUBSET NetLinks : Carried(p, D)
    BY <1>10 DEF DeliverInv
  <2>2. p # q
    BY <1>1, <1>10
  <2> HIDE DEF s, to
  <2>3. Carried(p, D)'
    BY <1>3, <1>4, <1>8, <1>10, <2>1, <2>2, CarriedKept
  <2> QED
    BY <2>3
<1>11. Carried(q, C)'
  <2>1. Nowhere(q)
    BY <1>1 DEF DeliverInv
  <2>2. ASSUME NEW m \in Stations, NEW l \in LinksOf(m)
        PROVE  /\ Has(m, l, q)' => m # s /\ l = to
               /\ m # s /\ l = to => Has(m, l, q)'
    <3>1. ~Has(m, l, q)
      BY <2>1 DEF Nowhere
    <3> HIDE DEF s, to
    <3>2. /\ Has(m, l, q)' => Has(m, l, q) \/ (q = q /\ m # src /\ l = out)
          /\ m # src /\ l = out /\ q = q => Has(m, l, q)'
      BY <1>3, <1>8, MovedHas
    <3> QED
      BY <1>7, <3>1, <3>2
  <2>3. Within(s, q, C)
    <3>1. CASE Target(q) = Everyone
      BY <1>3, <3>1 DEF Within, ForMe
    <3>2. CASE Target(q) # Everyone
      BY <1>3, <3>2 DEF Within, FirstLink
    <3> QED
      BY <3>1, <3>2
  <2>4. s \notin Receivers(q)
    BY <1>5 DEF Receivers
  <2>5. Handled(s, q, C)'
    BY <2>3, <2>4 DEF Handled
  <2>6. \A l \in C : \A m \in Attached[l] : m \in Stations /\ l \in LinksOf(m)
    BY <1>5 DEF Stations, LinksOf
  <2>7. \A l \in C : \A m \in Attached[l] : Has(m, l, q)' \/ Handled(m, q, C)'
    BY <2>2, <2>5, <2>6
  <2>8. \A m \in Routers : ~Duplicate(m, q)'
    BY <1>4, <2>1 DEF Nowhere
  <2> QED
    BY <2>2, <2>7, <2>8 DEF Carried
<1>12. C \in SUBSET NetLinks
  BY <1>5
<1> HIDE DEF C, s, to
<1> QED
  BY <1>1, <1>9, <1>10, <1>11, <1>12 DEF DeliverInv

LEMMA ExpireDelivers ==
  ASSUME NetInv, DeliverInv, NEW n \in Routers, Expire(n)
  PROVE  DeliverInv'
<1>1. UNCHANGED <<inbox, accepted, originated, lostHere>>
  BY DEF Expire
<1>2. SeenType
  BY DEF NetInv, TypeOK
<1>3. PICK i \in Entries : seen' = [seen EXCEPT ![n][i] = 0]
  BY <1>2 DEF Expire, SeenType
<1>4. ASSUME NEW m \in Routers, NEW p \in NetPackets, Duplicate(m, p)'
      PROVE  Duplicate(m, p)
  <2>1. p # 0
    BY NetAssumption DEF NetPackets
  <2>2. DOMAIN seen[m] = Entries /\ DOMAIN seen'[m] = Entries
    BY <1>2, <1>3 DEF SeenType
  <2>3. \A j \in Entries : seen'[m][j] = 0 \/ seen'[m][j] = seen[m][j]
    BY <1>2, <1>3 DEF SeenType
  <2> QED
    BY <1>4, <2>1, <2>2, <2>3 DEF Duplicate
<1>5. \A m, l, p : Has(m, l, p)' <=> Has(m, l, p)
  BY <1>1 DEF Has
<1>6. \A m, p, C : Handled(m, p, C)' <=> Handled(m, p, C)
  BY <1>1 DEF Handled
<1>7. ASSUME NEW p \in NetPackets, NEW C, Carried(p, C) PROVE Carried(p, C)'
  BY <1>4, <1>5, <1>6, <1>7 DEF Carried
<1>8. ASSUME NEW p \in NetPackets, Nowhere(p) PROVE Nowhere(p)'
  BY <1>4, <1>5, <1>8 DEF Nowhere
<1> QED
  BY <1>1, <1>7, <1>8 DEF DeliverInv

LEMMA DeliverInit == NetInit => DeliverInv
<1> SUFFICES ASSUME NetInit, NEW p \in NetPackets PROVE Nowhere(p)
  BY DEF DeliverInv, NetInit
<1>1. p # 0
  BY NetAssumption DEF NetPackets
<1>2. ASSUME NEW m \in Stations, NEW l \in LinksOf(m) PROVE ~Has(m, l, p)
  <2>1. inbox[m][l] = <<>>
    BY DEF NetInit
  <2> QED
    BY <2>1 DEF Has
<1>3. ASSUME NEW m \in Routers PROVE ~Duplicate(m, p)
  <2>1. seen[m] = [i \in Entries |-> 0]
    BY DEF NetInit, Entries
  <2> QED
    BY <1>1, <2>1 DEF Duplicate
<1> QED
  BY <1>2, <1>3 DEF Nowhere

LEMMA DeliverStep ==
  RoutesLead /\ NetInv /\ DeliverInv /\ [NetNext]_netVars => DeliverInv'
<1> SUFFICES ASSUME RoutesLead, NetInv, DeliverInv, [NetNext]_netVars PROVE DeliverInv'
  OBVIOUS
<1>1. CASE \E p \in NetPackets : Originate(p)
  BY <1>1, OriginateDelivers
<1>2. CASE \E n \in Routers : RouterWorks(n)
  BY <1>2, WorkDelivers DEF RouterWorks
<1>3. CASE \E n \in Bridges : BridgeWorks(n)
  BY <1>3, BridgeDelivers DEF BridgeWorks
<1>4. CASE \E n \in Stations : \E l \in LinksOf(n) : Lose(n, l)
  BY <1>4, LoseDelivers
<1>5. CASE \E n \in Routers : Expire(n)
  BY <1>5, ExpireDelivers
<1>6. CASE UNCHANGED netVars
  <2>1. UNCHANGED <<inbox, seen, accepted, originated, lostHere>>
    BY <1>6 DEF netVars
  <2> QED
    BY <2>1 DEF DeliverInv, Nowhere, Carried, Has, Duplicate, Handled
<1> QED
  BY <1>1, <1>2, <1>3, <1>4, <1>5, <1>6 DEF NetNext

\* Where the routes lead to those a packet is for, it gets to them, whatever
\* other ways it takes as well: no node drops for a duplicate what it has not
\* passed on, and the split horizon only drops what the link has had.
THEOREM NetDeliversCorrect == RoutesLead => (NetSpec => []NetDelivers)
<1> SUFFICES ASSUME RoutesLead PROVE NetSpec => []NetDelivers
  OBVIOUS
<1>1. NetInit => DeliverInv
  BY DeliverInit
<1>2. NetInv /\ DeliverInv /\ [NetNext]_netVars => DeliverInv'
  BY DeliverStep
<1>3. DeliverInv => NetDelivers
  <2> SUFFICES ASSUME DeliverInv, NetQuiet, NEW p \in originated \ lostHere,
                      NEW n \in Receivers(p)
               PROVE  accepted[n][p] >= 1
    BY DEF NetDelivers
  <2>1. p \in NetPackets
    BY DEF DeliverInv
  <2>2. accepted[n][p] >= 1
    <3>1. PICK C \in SUBSET NetLinks : Carried(p, C)
      BY DEF DeliverInv
    <3>2. \A l \in C : \A m \in Attached[l] : Handled(m, p, C)
      <4> SUFFICES ASSUME NEW l \in C, NEW m \in Attached[l] PROVE Handled(m, p, C)
        OBVIOUS
      <4>1. m \in Stations /\ l \in LinksOf(m)
        BY DEF Stations, LinksOf
      <4>2. inbox[m][l] = <<>>
        BY <4>1 DEF NetQuiet
      <4>3. ~Has(m, l, p)
        BY <4>2 DEF Has
      <4> QED
        BY <3>1, <4>3 DEF Carried
    <3>3. \E l \in C : n \in Attached[l]
      BY <2>1, <3>1, <3>2 DEF RoutesLead, Carried, Handled
    <3> QED
      BY <3>2, <3>3 DEF Handled
  <2> QED
    BY <2>2
<1> QED
  BY <1>1, <1>2, <1>3, NetInvCorrect, PTL DEF NetSpec

----------------------------------------------------------------------------
(***************************************************************************)
(* Module Rtable, for every size of addresses, all interfaces and tables   *)
(* of any length.                                                          *)
(***************************************************************************)

Entry == [address : Nat, mask : Masks, route : Ifaces \cup {Loopback}]

SameKey(e, f) == e.address = f.address /\ e.mask = f.mask

\* No table has two entries for the same address and mask.
IsTable(t) ==
  /\ t \in Seq(Entry)
  /\ \A i, j \in 1..Len(t) : SameKey(t[i], t[j]) => i = j

----------------------------------------------------------------------------
\* Induction over the steps of a loop

LEMMA LeastElement ==
  ASSUME NEW T, T \subseteq Nat, T # {}
  PROVE  \E x \in T : \A y \in T : ~(y < x)
<1> DEFINE R == OpToRel(<, Nat)
<1>1. IsWellFoundedOn(R, Nat)
  BY NatLessThanWellFounded
<1>2. \A x, y \in Nat : x < y <=> <<x, y>> \in R
  BY DEF OpToRel
<1> HIDE DEF R
<1>3. \E x \in T : \A y \in T : ~(<<y, x>> \in R)
  BY <1>1, WFMin
<1> QED
  BY <1>2, <1>3

LEMMA Induction ==
  ASSUME NEW S, 0 \in S, \A n \in Nat : n \in S => n + 1 \in S
  PROVE  Nat \subseteq S
<1>1. CASE Nat \ S # {}
  <2>1. PICK x \in Nat \ S : \A y \in Nat \ S : ~(y < x)
    BY <1>1, LeastElement
  <2>2. x # 0 /\ x \in Nat
    BY <2>1
  <2>3. x - 1 \in Nat /\ x - 1 < x /\ (x - 1) + 1 = x
    BY <2>2
  <2> QED
    BY <2>1, <2>2, <2>3
<1> QED
  BY <1>1

\* The recursive function that stands for a loop of N steps exists.
Steps(f, N, V, base, step) ==
  f \in [0..N -> V] /\ f[0] = base /\ \A i \in 1..N : f[i] = step[<<f[i - 1], i>>]

LEMMA LoopExists ==
  ASSUME NEW N \in Nat, NEW V, NEW base \in V, NEW step \in [V \X (1..N) -> V]
  PROVE  \E f : Steps(f, N, V, base, step)
<1> DEFINE Good(f, n) ==
      f \in [0..n -> V] /\ f[0] = base /\ \A i \in 1..n : f[i] = step[<<f[i - 1], i>>]
<1> DEFINE S == {n \in Nat : n <= N => \E f : Good(f, n)}
<1>1. 0 \in S
  <2> DEFINE f == [i \in 0..0 |-> base]
  <2>1. Good(f, 0)
    OBVIOUS
  <2> QED
    BY <2>1
<1>2. ASSUME NEW n \in Nat, n \in S PROVE n + 1 \in S
  <2> SUFFICES ASSUME n + 1 <= N PROVE \E f : Good(f, n + 1)
    OBVIOUS
  <2>1. n <= N
    OBVIOUS
  <2>2. PICK f : Good(f, n)
    BY <1>2, <2>1
  <2> DEFINE g == [i \in 0..n + 1 |-> IF i = n + 1 THEN step[<<f[n], n + 1>>] ELSE f[i]]
  <2>3. n + 1 \in 1..N /\ n \in 0..n /\ f[n] \in V
    BY <2>2
  <2>4. step[<<f[n], n + 1>>] \in V
    BY <2>3
  <2>5. g \in [0..n + 1 -> V]
    BY <2>2, <2>4
  <2>6. g[0] = base
    BY <2>2
  <2>7. ASSUME NEW i \in 1..n + 1 PROVE g[i] = step[<<g[i - 1], i>>]
    <3>1. i - 1 \in 0..n /\ i - 1 # n + 1 /\ i - 1 \in 0..n + 1 /\ i \in 0..n + 1
      OBVIOUS
    <3>2. g[i - 1] = f[i - 1]
      BY <3>1
    <3>3. CASE i = n + 1
      <4>1. i - 1 = n /\ g[i] = step[<<f[n], n + 1>>]
        BY <3>1, <3>3
      <4> QED
        BY <3>2, <3>3, <4>1
    <3>4. CASE i # n + 1
      <4>1. i \in 1..n
        BY <3>4
      <4>2. g[i] = f[i]
        BY <3>1, <3>4
      <4> QED
        BY <2>2, <4>1, <4>2, <3>2
    <3> QED
      BY <3>3, <3>4
  <2>8. Good(g, n + 1)
    BY <2>5, <2>6, <2>7
  <2> QED
    BY <2>8
<1>3. N \in S
  <2> HIDE DEF S
  <2> QED
    BY <1>1, <1>2, Induction
<1>4. PICK f : Good(f, N)
  BY <1>3
<1> QED
  BY <1>4 DEF Steps

----------------------------------------------------------------------------
\* csp_rtable_find

Best == [entry : Nat, mask : Nat, stop : BOOLEAN]

LEMMA VisitType ==
  ASSUME NEW best \in Best, NEW i \in Nat, NEW e \in Entry, NEW a, NEW mask, NEW exact \in BOOLEAN
  PROVE  Visit(best, i, e, a, mask, exact) \in Best
<1>1. e.mask \in Nat
  BY RtableAssumption DEF Entry, Masks
<1> QED
  BY <1>1 DEF Best, Visit

\* The steps of the loop, as a function u of the entries looked at.
IsLoop(u, t, a, mask, exact) ==
  /\ u \in [0..Len(t) -> Best]
  /\ u[0] = Nothing
  /\ \A i \in 1..Len(t) : u[i] = Visit(u[i - 1], i, t[i], a, mask, exact)

LEMMA FindLoop ==
  ASSUME NEW t \in Seq(Entry), NEW a, NEW mask, NEW exact \in BOOLEAN
  PROVE  \E u : IsLoop(u, t, a, mask, exact) /\ Find(t, a, mask, exact) = u[Len(t)].entry
<1> DEFINE R(f) == [i \in 0..Len(t) |->
                     IF i = 0 THEN Nothing ELSE Visit(f[i - 1], i, t[i], a, mask, exact)]
<1>1. Len(t) \in Nat /\ \A i \in 1..Len(t) : t[i] \in Entry /\ i \in Nat
  OBVIOUS
<1>2. Nothing \in Best
  BY DEF Nothing, Best
<1>3. PICK step \in [Best \X (1..Len(t)) -> Best] :
        \A v \in Best, i \in 1..Len(t) : step[<<v, i>>] = Visit(v, i, t[i], a, mask, exact)
  <2> DEFINE s == [x \in Best \X (1..Len(t)) |-> Visit(x[1], x[2], t[x[2]], a, mask, exact)]
  <2>1. \A v \in Best, i \in 1..Len(t) : s[<<v, i>>] = Visit(v, i, t[i], a, mask, exact)
    OBVIOUS
  <2>2. s \in [Best \X (1..Len(t)) -> Best]
    <3> SUFFICES ASSUME NEW x \in Best \X (1..Len(t))
                 PROVE  Visit(x[1], x[2], t[x[2]], a, mask, exact) \in Best
      OBVIOUS
    <3>1. x[1] \in Best /\ x[2] \in Nat /\ t[x[2]] \in Entry
      BY <1>1
    <3> QED
      BY <3>1, VisitType
  <2> HIDE DEF s
  <2> QED
    BY <2>1, <2>2
<1>4. PICK f : Steps(f, Len(t), Best, Nothing, step)
  <2>1. Len(t) \in Nat
    OBVIOUS
  <2> QED
    BY <1>2, <1>3, <2>1, LoopExists
<1>5. /\ f \in [0..Len(t) -> Best]
      /\ f[0] = Nothing /\ \A i \in 1..Len(t) : f[i] = step[<<f[i - 1], i>>]
  BY <1>4 DEF Steps
<1>6. f = R(f)
  <2>1. \A i \in 0..Len(t) : i # 0 => i \in 1..Len(t) /\ f[i - 1] \in Best
    <3> SUFFICES ASSUME NEW i \in 0..Len(t), i # 0 PROVE i \in 1..Len(t) /\ f[i - 1] \in Best
      OBVIOUS
    <3>1. i \in 1..Len(t) /\ i - 1 \in 0..Len(t)
      BY <1>1
    <3> QED
      BY <1>5, <3>1
  <2>2. \A i \in 0..Len(t) : i # 0 => f[i] = Visit(f[i - 1], i, t[i], a, mask, exact)
    BY <1>3, <1>5, <2>1
  <2> QED
    BY <1>5, <2>2
<1> DEFINE u == CHOOSE g : g = R(g)
           N == Len(t)
<1>7. u = R(u)
  BY <1>6
<1>8. Find(t, a, mask, exact) = u[N].entry
  BY DEF Find
<1> HIDE DEF u
<1>9. \A i \in 0..N : u[i] = IF i = 0 THEN Nothing ELSE Visit(u[i - 1], i, t[i], a, mask, exact)
  BY <1>7
<1>10. \A i \in 0..N : u[i] \in Best
  <2> DEFINE S == {i \in Nat : i <= N => u[i] \in Best}
  <2>1. 0 \in S
    BY <1>1, <1>2, <1>9
  <2>2. ASSUME NEW n \in Nat, n \in S PROVE n + 1 \in S
    <3> SUFFICES ASSUME n + 1 <= N PROVE u[n + 1] \in Best
      OBVIOUS
    <3>1. n + 1 \in 0..N /\ n + 1 # 0 /\ (n + 1) - 1 = n /\ n <= N /\ n + 1 \in 1..N
      BY <1>1
    <3>2. u[n] \in Best
      BY <2>2, <3>1
    <3>3. u[n + 1] = Visit(u[n], n + 1, t[n + 1], a, mask, exact)
      BY <1>9, <3>1
    <3> QED
      BY <1>1, <3>1, <3>2, <3>3, VisitType
  <2>3. Nat \subseteq S
    <3> HIDE DEF S
    <3> QED
      BY <2>1, <2>2, Induction
  <2> QED
    BY <1>1, <2>3
<1>11. u \in [0..N -> Best]
  BY <1>7, <1>10
<1>12. IsLoop(u, t, a, mask, exact)
  <2>1. \A i \in 1..N : i \in 0..N /\ i # 0
    OBVIOUS
  <2> QED
    BY <1>1, <1>9, <1>11, <2>1 DEF IsLoop
<1> QED
  BY <1>8, <1>12

----------------------------------------------------------------------------
\* What the loop finds when it looks for an exact match ...

HasKey(e, a, mask) == e.address = a /\ e.mask = mask

LEMMA FindExact ==
  ASSUME NEW t \in Seq(Entry), NEW a, NEW mask
  PROVE  /\ Find(t, a, mask, TRUE) \in 0..Len(t)
         /\ IF Find(t, a, mask, TRUE) = 0
            THEN \A j \in 1..Len(t) : ~HasKey(t[j], a, mask)
            ELSE HasKey(t[Find(t, a, mask, TRUE)], a, mask)
<1> DEFINE exact == TRUE
<1> HIDE DEF exact
<1>1. exact /\ exact \in BOOLEAN
  BY DEF exact
<1>2. PICK u : IsLoop(u, t, a, mask, exact) /\ Find(t, a, mask, exact) = u[Len(t)].entry
  BY <1>1, FindLoop
<1>3. Len(t) \in Nat /\ \A i \in 1..Len(t) : t[i] \in Entry
  OBVIOUS
<1> DEFINE Ok(i) == IF u[i].stop
                    THEN u[i].entry \in 1..i /\ HasKey(t[u[i].entry], a, mask)
                    ELSE u[i].entry = 0 /\ \A j \in 1..i : ~HasKey(t[j], a, mask)
           S == {i \in Nat : i <= Len(t) => Ok(i)}
<1>4. 0 \in S
  BY <1>2 DEF IsLoop, Nothing
<1>5. ASSUME NEW n \in Nat, n \in S PROVE n + 1 \in S
  <2> SUFFICES ASSUME n + 1 <= Len(t) PROVE Ok(n + 1)
    OBVIOUS
  <2>1. n + 1 \in 1..Len(t) /\ (n + 1) - 1 = n /\ n \in 0..Len(t) /\ n <= Len(t)
    BY <1>3
  <2>2. Ok(n) /\ u[n] \in Best
    BY <1>2, <1>5, <2>1 DEF IsLoop
  <2>3. u[n + 1] = Visit(u[n], n + 1, t[n + 1], a, mask, exact)
    BY <1>2, <2>1 DEF IsLoop
  <2>4. CASE u[n].stop
    <3>1. u[n + 1] = u[n]
      BY <2>3, <2>4 DEF Visit
    <3> QED
      BY <2>2, <2>4, <3>1
  <2>5. CASE ~u[n].stop /\ HasKey(t[n + 1], a, mask)
    <3>1. u[n + 1] = [u[n] EXCEPT !.entry = n + 1, !.stop = TRUE]
      BY <2>3, <2>5 DEF Visit, HasKey
    <3>2. u[n + 1].entry = n + 1 /\ u[n + 1].stop
      BY <2>2, <3>1 DEF Best
    <3> QED
      BY <2>5, <3>2
  <2>6. CASE ~u[n].stop /\ ~HasKey(t[n + 1], a, mask)
    <3>1. u[n + 1] = u[n]
      BY <1>1, <2>3, <2>6 DEF Visit, HasKey
    <3>2. \A j \in 1..n + 1 : j \in 1..n \/ j = n + 1
      OBVIOUS
    <3> QED
      BY <2>2, <2>6, <3>1, <3>2
  <2> QED
    BY <2>4, <2>5, <2>6
<1>6. Ok(Len(t))
  <2>1. Nat \subseteq S
    <3> HIDE DEF S
    <3> QED
      BY <1>4, <1>5, Induction
  <2> QED
    BY <1>3, <2>1
<1>7. /\ u[Len(t)].entry \in 0..Len(t)
      /\ IF u[Len(t)].entry = 0
         THEN \A j \in 1..Len(t) : ~HasKey(t[j], a, mask)
         ELSE HasKey(t[u[Len(t)].entry], a, mask)
  BY <1>3, <1>6
<1> QED
  BY <1>2, <1>7 DEF exact

\* ... and when it routes a packet.
IsRoute(t, a, i) ==
  /\ i \in 0..Len(t)
  /\ i = 0 => \A j \in 1..Len(t) : ~Covers(t[j], a)
  /\ i # 0 => /\ Covers(t[i], a)
              /\ \A j \in 1..Len(t) : Covers(t[j], a) =>
                   t[j].mask < t[i].mask \/ (t[j].mask = t[i].mask /\ j <= i)

LEMMA HostCovers ==
  ASSUME NEW e \in Entry, NEW a \in Nat, e.mask = HostSize
  PROVE  Covers(e, a) <=> e.address = a
<1>1. HostSize - e.mask = 0 /\ 2^0 = 1
  BY RtableAssumption
<1>2. e.address \in Nat /\ \A n \in Nat : n \div 1 = n
  BY DEF Entry
<1> QED
  BY <1>1, <1>2 DEF Covers

LEMMA RouteFound ==
  ASSUME NEW t, IsTable(t), NEW a \in Nat
  PROVE  IsRoute(t, a, Find(t, a, HostSize, FALSE))
<1> DEFINE exact == FALSE
<1> HIDE DEF exact
<1>1. ~exact /\ exact \in BOOLEAN
  BY DEF exact
<1>2. t \in Seq(Entry) /\ HostSize \in Nat
  BY RtableAssumption DEF IsTable
<1>3. PICK u : IsLoop(u, t, a, HostSize, exact) /\ Find(t, a, HostSize, exact) = u[Len(t)].entry
  BY <1>1, <1>2, FindLoop
<1>4. Len(t) \in Nat /\ \A i \in 1..Len(t) : t[i] \in Entry /\ t[i].mask \in 0..HostSize
  <2>1. Len(t) \in Nat /\ \A i \in 1..Len(t) : t[i] \in Entry
    BY <1>2
  <2>2. \A e \in Entry : e.mask \in 0..HostSize
    BY DEF Entry, Masks
  <2> QED
    BY <2>1, <2>2
<1> DEFINE Longest(i, e) ==
             Covers(t[e], a) /\ \A j \in 1..i : Covers(t[j], a) =>
                   t[j].mask < t[e].mask \/ (t[j].mask = t[e].mask /\ j <= e)
           Ok(i) == IF u[i].stop
                    THEN u[i].entry \in 1..i /\ HasKey(t[u[i].entry], a, HostSize)
                    ELSE /\ u[i].entry \in 0..i
                         /\ u[i].entry = 0 => u[i].mask = 0 /\ \A j \in 1..i : ~Covers(t[j], a)
                         /\ u[i].entry # 0 => u[i].mask = t[u[i].entry].mask /\ Longest(i, u[i].entry)
           S == {i \in Nat : i <= Len(t) => Ok(i)}
<1>5. 0 \in S
  BY <1>3 DEF IsLoop, Nothing
<1>6. ASSUME NEW n \in Nat, n \in S PROVE n + 1 \in S
  <2> SUFFICES ASSUME n + 1 <= Len(t) PROVE Ok(n + 1)
    OBVIOUS
  <2>1. n + 1 \in 1..Len(t) /\ (n + 1) - 1 = n /\ n \in 0..Len(t) /\ n <= Len(t)
    BY <1>4
  <2>2. Ok(n) /\ u[n] \in Best
    BY <1>3, <1>6, <2>1 DEF IsLoop
  <2>3. u[n + 1] = Visit(u[n], n + 1, t[n + 1], a, HostSize, exact)
    BY <1>3, <2>1 DEF IsLoop
  <2>4. \A j \in 1..n + 1 : j \in 1..n \/ j = n + 1
    OBVIOUS
  <2>5. CASE u[n].stop
    <3>1. u[n + 1] = u[n]
      BY <2>3, <2>5 DEF Visit
    <3> QED
      BY <2>2, <2>5, <3>1
  <2>6. CASE ~u[n].stop /\ HasKey(t[n + 1], a, HostSize)
    <3>1. u[n + 1] = [u[n] EXCEPT !.entry = n + 1, !.stop = TRUE]
      BY <2>3, <2>6 DEF Visit, HasKey
    <3>2. u[n + 1].entry = n + 1 /\ u[n + 1].stop
      BY <2>2, <3>1 DEF Best
    <3> QED
      BY <2>6, <3>2
  <2>7. CASE /\ ~u[n].stop /\ ~HasKey(t[n + 1], a, HostSize)
             /\ Covers(t[n + 1], a) /\ t[n + 1].mask >= u[n].mask
    <3>1. u[n + 1] = [u[n] EXCEPT !.entry = n + 1, !.mask = t[n + 1].mask]
      BY <1>1, <2>3, <2>7 DEF Visit, HasKey, Better
    <3>2. u[n + 1].entry = n + 1 /\ ~u[n + 1].stop /\ u[n + 1].mask = t[n + 1].mask
      BY <2>2, <2>7, <3>1 DEF Best
    <3>3. t[n + 1].mask \in Nat /\ u[n].mask \in Nat /\ \A j \in 1..n : t[j].mask \in Nat
      BY <1>2, <1>4, <2>1, <2>2 DEF Best
    <3>4. ASSUME NEW j \in 1..n, Covers(t[j], a)
          PROVE  t[j].mask <= u[n].mask
      <4>1. u[n].entry # 0 /\ u[n].mask = t[u[n].entry].mask /\ Longest(n, u[n].entry)
        BY <2>2, <2>7, <3>4
      <4>2. t[j].mask < u[n].mask \/ t[j].mask = u[n].mask
        BY <3>4, <4>1
      <4> QED
        BY <3>3, <4>2
    <3>5. Longest(n + 1, n + 1)
      <4> SUFFICES ASSUME NEW j \in 1..n + 1, Covers(t[j], a)
                   PROVE  t[j].mask < t[n + 1].mask \/ (t[j].mask = t[n + 1].mask /\ j <= n + 1)
        BY <2>7
      <4>1. CASE j = n + 1
        BY <4>1
      <4>2. CASE j \in 1..n
        <5>1. t[j].mask <= u[n].mask /\ t[j].mask \in Nat
          BY <3>3, <3>4, <4>2
        <5> QED
          BY <2>7, <3>3, <4>2, <5>1
      <4> QED
        BY <2>4, <4>1, <4>2
    <3> QED
      BY <2>1, <3>2, <3>5
  <2>8. CASE /\ ~u[n].stop /\ ~HasKey(t[n + 1], a, HostSize)
             /\ ~(Covers(t[n + 1], a) /\ t[n + 1].mask >= u[n].mask)
    <3>1. u[n + 1] = u[n]
      BY <1>1, <2>3, <2>8 DEF Visit, HasKey, Better
    <3>2. t[n + 1].mask \in Nat /\ u[n].mask \in Nat
      BY <1>2, <1>4, <2>1, <2>2 DEF Best
    <3>3. CASE u[n].entry = 0
      BY <2>2, <2>4, <2>8, <3>1, <3>2, <3>3
    <3>4. CASE u[n].entry # 0
      BY <2>2, <2>4, <2>8, <3>1, <3>2, <3>4
    <3> QED
      BY <3>3, <3>4
  <2> QED
    BY <2>5, <2>6, <2>7, <2>8
<1>7. Ok(Len(t))
  <2>1. Nat \subseteq S
    <3> HIDE DEF S
    <3> QED
      BY <1>5, <1>6, Induction
  <2> QED
    BY <1>4, <2>1
<1> DEFINE e == u[Len(t)].entry
<1>8. IsRoute(t, a, e)
  <2>1. CASE u[Len(t)].stop
    <3>1. e \in 1..Len(t) /\ HasKey(t[e], a, HostSize)
      BY <1>7, <2>1
    <3>2. ASSUME NEW j \in 1..Len(t), Covers(t[j], a)
          PROVE  t[j].mask < t[e].mask \/ (t[j].mask = t[e].mask /\ j <= e)
      <4>1. CASE t[j].mask # HostSize
        BY <1>2, <1>4, <3>1, <4>1 DEF HasKey
      <4>2. CASE t[j].mask = HostSize
        <5>1. SameKey(t[j], t[e])
          BY <1>4, <3>1, <3>2, <4>2, HostCovers DEF HasKey, SameKey
        <5>2. j = e
          BY <3>1, <5>1 DEF IsTable
        <5> QED
          BY <5>2
      <4> QED
        BY <4>1, <4>2
    <3>3. Covers(t[e], a)
      BY <1>4, <3>1, HostCovers DEF HasKey
    <3>4. e # 0 /\ e \in 0..Len(t)
      BY <1>4, <3>1
    <3> QED
      BY <3>2, <3>3, <3>4 DEF IsRoute
  <2>2. CASE ~u[Len(t)].stop
    BY <1>4, <1>7, <2>2 DEF IsRoute
  <2> QED
    BY <2>1, <2>2
<1> QED
  BY <1>3, <1>8 DEF exact

----------------------------------------------------------------------------
\* A table stays one, whatever is set.

NewEntry(a, mask, r) == [address |-> a, mask |-> mask, route |-> r]

\* In table s entry e is put behind those of t, or at place i of t.
Stored(s, t, e, i) ==
  /\ i = 0 => s = Append(t, e) /\ \A j \in 1..Len(t) : ~HasKey(t[j], e.address, e.mask)
  /\ i # 0 => /\ i \in 1..Len(t) /\ HasKey(t[i], e.address, e.mask)
              /\ s = [t EXCEPT ![i] = e]

LEMMA SetKeepsTable ==
  ASSUME NEW t, IsTable(t), NEW a \in Nat, NEW mask \in Masks, NEW r \in Ifaces \cup {Loopback}
  PROVE  /\ IsTable(SetInternal(t, a, mask, r))
         /\ \E i : Stored(SetInternal(t, a, mask, r), t, NewEntry(a, mask, r), i)
<1> DEFINE i == Find(t, a, mask, TRUE)
           e == NewEntry(a, mask, r)
           s == SetInternal(t, a, mask, r)
<1>1. t \in Seq(Entry) /\ Len(t) \in Nat
  BY DEF IsTable
<1>2. e \in Entry
  BY DEF Entry, NewEntry
<1>3. /\ i \in 0..Len(t)
      /\ IF i = 0 THEN \A j \in 1..Len(t) : ~HasKey(t[j], a, mask) ELSE HasKey(t[i], a, mask)
  BY <1>1, FindExact
<1>4. s = IF i = 0 THEN Append(t, e) ELSE [t EXCEPT ![i] = e]
  BY DEF SetInternal, NewEntry
<1>5. e.address = a /\ e.mask = mask
  BY DEF NewEntry
<1> HIDE DEF i, e, s
<1>6. CASE i = 0
  <2>1. s = Append(t, e) /\ s \in Seq(Entry)
    BY <1>1, <1>2, <1>4, <1>6
  <2>2. Len(s) = Len(t) + 1 /\ s[Len(t) + 1] = e /\ \A j \in 1..Len(t) : s[j] = t[j]
    BY <1>1, <1>2, <2>1
  <2>3. ASSUME NEW j \in 1..Len(s), NEW k \in 1..Len(s), SameKey(s[j], s[k]) PROVE j = k
    <3>1. \A x \in 1..Len(s) : x \in 1..Len(t) \/ x = Len(t) + 1
      BY <1>1, <2>2
    <3>2. \A x \in 1..Len(t) : ~SameKey(s[x], e) /\ ~SameKey(e, s[x])
      BY <1>3, <1>5, <1>6, <2>2 DEF SameKey, HasKey
    <3>3. CASE j \in 1..Len(t) /\ k \in 1..Len(t)
      BY <2>2, <2>3, <3>3 DEF IsTable
    <3> QED
      BY <2>2, <2>3, <3>1, <3>2, <3>3
  <2>4. IsTable(s)
    BY <2>1, <2>3 DEF IsTable
  <2> QED
    BY <1>3, <1>5, <1>6, <2>1, <2>4 DEF Stored, s, e
<1>7. CASE i # 0
  <2>1. i \in 1..Len(t) /\ s = [t EXCEPT ![i] = e] /\ HasKey(t[i], a, mask)
    BY <1>1, <1>3, <1>4, <1>7
  <2>2. s \in Seq(Entry) /\ Len(s) = Len(t)
    BY <1>1, <1>2, <2>1
  <2>3. \A j \in 1..Len(t) : s[j] = IF j = i THEN e ELSE t[j]
    BY <1>1, <2>1
  <2>4. \A j, k \in 1..Len(s) : SameKey(s[j], s[k]) => j = k
    <3>1. \A j \in 1..Len(t) : s[j].address = t[j].address /\ s[j].mask = t[j].mask
      BY <1>5, <2>1, <2>3 DEF HasKey
    <3> QED
      BY <2>2, <3>1 DEF SameKey, IsTable
  <2>5. IsTable(s)
    BY <2>2, <2>4 DEF IsTable
  <2> QED
    BY <1>5, <1>7, <2>1, <2>5 DEF Stored, s, e
<1> QED
  BY <1>6, <1>7

LEMMA ClearedIsTable ==
  /\ IsTable(<<>>)
  /\ IsTable(Cleared)
  /\ Cleared = <<[address |-> Own, mask |-> HostSize, route |-> Loopback]>>
<1>1. IsTable(<<>>)
  BY DEF IsTable
<1>2. Own \in Nat /\ HostSize \in Masks /\ Loopback \in Ifaces \cup {Loopback}
  <2>1. Own \in Addresses /\ HostSize \in Nat
    BY RtableAssumption
  <2> QED
    BY <2>1 DEF Addresses, Masks
<1>3. IsTable(Cleared) /\ \E i : Stored(Cleared, <<>>, NewEntry(Own, HostSize, Loopback), i)
  BY <1>1, <1>2, SetKeepsTable DEF Cleared
<1>4. \A e : Append(<<>>, e) = <<e>>
  OBVIOUS
<1>5. \A i : i \notin 1..Len(<<>>)
  OBVIOUS
<1> QED
  BY <1>1, <1>3, <1>4, <1>5 DEF Stored, NewEntry

LEMMA Powers == \A k \in 0..7 : 2^k \in Nat \ {0}
<1>1. /\ 2^0 \in Nat \ {0} /\ 2^1 \in Nat \ {0} /\ 2^2 \in Nat \ {0} /\ 2^3 \in Nat \ {0}
      /\ 2^4 \in Nat \ {0} /\ 2^5 \in Nat \ {0} /\ 2^6 \in Nat \ {0} /\ 2^7 \in Nat \ {0}
  OBVIOUS
<1>2. \A k \in 0..7 : k = 0 \/ k = 1 \/ k = 2 \/ k = 3 \/ k = 4 \/ k = 5 \/ k = 6 \/ k = 7
  OBVIOUS
<1> QED
  BY <1>1, <1>2

LEMMA Ranges ==
  /\ HostSize \in Nat /\ HostSize > 0
  /\ HostMax \in Nat /\ DefaultRoute \in Nat /\ DefaultRoute = HostMax + 1
  /\ DefaultRoute = 2^HostSize
  /\ Addresses \subseteq Nat /\ Own \in Addresses
  /\ Loopback \notin Ifaces /\ NoRoute \notin Ifaces /\ NoRoute # Loopback
<1>1. HostSize \in Nat /\ HostSize > 0 /\ HostSize \in 0..7
  BY RtableAssumption
<1>2. 2^HostSize \in Nat \ {0}
  BY <1>1, Powers
<1> QED
  BY <1>1, <1>2, RtableAssumption DEF HostMax, DefaultRoute, Addresses, Loopback, NoRoute

\* csp_rtable_set stores an address below 256, a mask and an interface.
Address(address) == IF address = DefaultRoute THEN 0 ELSE address
Mask(address, netmask) == IF address = DefaultRoute THEN 0 ELSE netmask

LEMMA SetStores ==
  ASSUME NEW address \in Addresses \cup {DefaultRoute, Other}, NEW netmask \in Masks
  PROVE  Address(address) \in Nat /\ Mask(address, netmask) \in Masks
BY Ranges DEF Address, Mask, Masks, Other

TableInv == IsTable(rtable)

LEMMA TableInit == RtInit => TableInv
BY ClearedIsTable DEF RtInit, TableInv

LEMMA TableStep ==
  ASSUME TableInv, [RtNext]_rtVars
  PROVE  TableInv'
<1>1. CASE UNCHANGED rtVars
  BY <1>1 DEF TableInv, rtVars
<1>2. ASSUME NEW address \in Addresses \cup {DefaultRoute, Other}, NEW netmask \in Masks,
             NEW r \in Ifaces, RtSet(address, netmask, r)
      PROVE  TableInv'
  <2>1. rtable' = SetInternal(rtable, Address(address), Mask(address, netmask), r)
    BY <1>2 DEF RtSet, Address, Mask
  <2>2. r \in Ifaces \cup {Loopback}
    OBVIOUS
  <2>3. IsTable(SetInternal(rtable, Address(address), Mask(address, netmask), r))
    BY <2>2, SetStores, SetKeepsTable DEF TableInv
  <2> QED
    BY <2>1, <2>3 DEF TableInv
<1>3. CASE RtClear
  BY <1>3, ClearedIsTable DEF RtClear, TableInv
<1>4. CASE RtFree
  BY <1>4, ClearedIsTable DEF RtFree, TableInv
<1> QED
  BY <1>1, <1>2, <1>3, <1>4 DEF RtNext

LEMMA TableIsTable == RtSpec => []TableInv
<1>1. RtInit => TableInv
  BY TableInit
<1>2. TableInv /\ [RtNext]_rtVars => TableInv'
  BY TableStep
<1> QED
  BY <1>1, <1>2, PTL DEF RtSpec

\* There is one entry that routes an address, or none.
LEMMA OneRoute ==
  ASSUME NEW t, NEW a, NEW i, NEW j, Len(t) \in Nat, IsRoute(t, a, i), IsRoute(t, a, j),
         \A k \in 1..Len(t) : t[k].mask \in Nat
  PROVE  i = j
<1>1. i \in 0..Len(t) /\ j \in 0..Len(t)
  BY DEF IsRoute
<1>2. CASE i = 0 \/ j = 0
  BY <1>1, <1>2 DEF IsRoute
<1>3. CASE i # 0 /\ j # 0
  <2>1. i \in 1..Len(t) /\ j \in 1..Len(t)
    BY <1>1, <1>3
  <2> QED
    BY <1>3, <2>1 DEF IsRoute
<1> QED
  BY <1>2, <1>3

LEMMA TableEntries ==
  ASSUME NEW t, IsTable(t)
  PROVE  /\ Len(t) \in Nat
         /\ \A i \in 1..Len(t) : /\ t[i] \in Entry /\ t[i].address \in Nat
                                 /\ t[i].mask \in Nat /\ t[i].mask <= HostSize
                                 /\ t[i].route \in Ifaces \cup {Loopback}
<1>1. Len(t) \in Nat /\ \A i \in 1..Len(t) : t[i] \in Entry
  BY DEF IsTable
<1>2. \A e \in Entry : e.address \in Nat /\ e.mask \in 0..HostSize /\ e.route \in Ifaces \cup {Loopback}
  BY DEF Entry, Masks
<1> QED
  BY <1>1, <1>2, Ranges

\* csp_rtable_find, which takes the last of the best and stops at an exact
\* match, finds the entry with the longest mask, whatever was set before in
\* whatever order.
THEOREM FindCorrect == RtSpec => []FindIsLongestPrefix
<1>1. ASSUME TableInv PROVE FindIsLongestPrefix
  <2> SUFFICES ASSUME NEW a \in Addresses
               PROVE  LET covering == {i \in 1..Len(rtable) : Covers(rtable[i], a)}
                          longest == {i \in covering : \A j \in covering : rtable[j].mask <= rtable[i].mask}
                      IN  FindRoute(rtable, a) =
                            IF covering = {} THEN NoRoute
                            ELSE rtable[CHOOSE i \in longest : \A j \in longest : j <= i].route
    BY DEF FindIsLongestPrefix
  <2> DEFINE covering == {i \in 1..Len(rtable) : Covers(rtable[i], a)}
             longest == {i \in covering : \A j \in covering : rtable[j].mask <= rtable[i].mask}
             f == Find(rtable, a, HostSize, FALSE)
             last == CHOOSE i \in longest : \A j \in longest : j <= i
  <2>1. IsTable(rtable) /\ a \in Nat
    BY <1>1, Ranges DEF TableInv
  <2>2. IsRoute(rtable, a, f)
    BY <2>1, RouteFound
  <2>3. Len(rtable) \in Nat /\ \A k \in 1..Len(rtable) : rtable[k].mask \in Nat
    BY <2>1, TableEntries
  <2>4. FindRoute(rtable, a) = IF f = 0 THEN NoRoute ELSE rtable[f].route
    BY DEF FindRoute
  <2> HIDE DEF f
  <2>5. CASE f = 0
    <3>1. covering = {}
      BY <2>2, <2>5 DEF IsRoute
    <3> QED
      BY <2>4, <2>5, <3>1
  <2>6. CASE f # 0
    <3>1. f \in 1..Len(rtable) /\ f \in covering
      BY <2>2, <2>3, <2>6 DEF IsRoute
    <3>2. \A j \in covering : j \in 1..Len(rtable) /\
            (rtable[j].mask < rtable[f].mask \/ (rtable[j].mask = rtable[f].mask /\ j <= f))
      BY <2>2, <2>6 DEF IsRoute
    <3>3. f \in longest
      BY <2>3, <3>1, <3>2
    <3>4. \A j \in longest : rtable[j].mask = rtable[f].mask /\ j <= f
      BY <2>3, <3>1, <3>2
    <3>5. \A i \in longest : (\A j \in longest : j <= i) => i = f
      BY <3>1, <3>2, <3>3, <3>4
    <3> HIDE DEF longest
    <3>6. last = f
      BY <3>3, <3>4, <3>5
    <3>7. covering # {}
      BY <3>1
    <3> HIDE DEF last, covering
    <3>8. FindRoute(rtable, a) = IF covering = {} THEN NoRoute ELSE rtable[last].route
      BY <2>4, <2>6, <3>6, <3>7
    <3> QED
      BY <3>8 DEF last, longest, covering
  <2> QED
    BY <2>5, <2>6
<1> QED
  BY <1>1, TableIsTable, PTL

----------------------------------------------------------------------------
\* The array of csp_rtable_static.c, which has a place for each host and one
\* for the default route.

Simple(e) ==
  \/ e.mask = HostSize /\ e.address \in Addresses
  \/ e.mask = 0 /\ e.address = 0
Place(e) == StaticIndex(e.address, e.mask)
Routes == Ifaces \cup {Loopback, NoRoute}

\* As long as only such routes were set, the array has the routes of the list.
SameRoutes(t, array) ==
  /\ \A i \in 1..Len(t) : Simple(t[i]) /\ array[Place(t[i])] = t[i].route
  /\ \A x \in 0..DefaultRoute :
       array[x] # NoRoute => \E i \in 1..Len(t) : Place(t[i]) = x

StaticInv ==
  /\ TableInv
  /\ simple \in BOOLEAN
  /\ static \in [0..DefaultRoute -> Routes]
  /\ simple => SameRoutes(rtable, static)

LEMMA Places ==
  ASSUME NEW e, Simple(e)
  PROVE  /\ Place(e) \in 0..DefaultRoute
         /\ Place(e) = DefaultRoute <=> e.mask = 0
         /\ Place(e) # DefaultRoute => Place(e) = e.address /\ e.mask = HostSize
BY Ranges DEF Simple, Place, StaticIndex, Addresses

LEMMA OnePlace ==
  ASSUME NEW e, NEW f, Simple(e), Simple(f), Place(e) = Place(f)
  PROVE  SameKey(e, f)
BY Places, Ranges DEF Simple, SameKey

\* One more route is set in both tables.
LEMMA SetKeepsSame ==
  ASSUME NEW t, IsTable(t), NEW array \in [0..DefaultRoute -> Routes], SameRoutes(t, array),
         NEW e \in Entry, Simple(e)
  PROVE  SameRoutes(SetInternal(t, e.address, e.mask, e.route), [array EXCEPT ![Place(e)] = e.route])
<1> DEFINE s == SetInternal(t, e.address, e.mask, e.route)
           after == [array EXCEPT ![Place(e)] = e.route]
<1>1. PICK i : Stored(s, t, e, i)
  <2>1. /\ e.address \in Nat /\ e.mask \in Masks /\ e.route \in Ifaces \cup {Loopback}
        /\ e = NewEntry(e.address, e.mask, e.route)
    BY DEF Entry, NewEntry
  <2> QED
    BY <2>1, SetKeepsTable
<1>2. Len(t) \in Nat /\ t \in Seq(Entry) /\ e \in Entry
  BY DEF IsTable
<1>3. Place(e) \in 0..DefaultRoute
  BY Places
<1>4. \A x \in 0..DefaultRoute : after[x] = IF x = Place(e) THEN e.route ELSE array[x]
  BY <1>3
<1>5. \A j \in 1..Len(t) : Simple(t[j]) /\ array[Place(t[j])] = t[j].route
  BY DEF SameRoutes
<1>6. \A j \in 1..Len(t) : Place(t[j]) = Place(e) => HasKey(t[j], e.address, e.mask)
  BY <1>5, OnePlace DEF SameKey, HasKey
<1> HIDE DEF s, after
<1>7. CASE i = 0
  <2>1. Len(s) = Len(t) + 1 /\ s[Len(t) + 1] = e /\ \A j \in 1..Len(t) : s[j] = t[j]
    BY <1>1, <1>2, <1>7 DEF Stored
  <2>2. \A j \in 1..Len(s) : j \in 1..Len(t) \/ j = Len(t) + 1
    BY <1>2, <2>1
  <2>3. \A j \in 1..Len(t) : Place(t[j]) # Place(e) /\ Place(t[j]) \in 0..DefaultRoute
    BY <1>1, <1>5, <1>6, <1>7, Places DEF Stored
  <2>4. \A j \in 1..Len(s) : Simple(s[j]) /\ after[Place(s[j])] = s[j].route
    BY <1>3, <1>4, <1>5, <2>1, <2>2, <2>3
  <2>5. ASSUME NEW x \in 0..DefaultRoute, after[x] # NoRoute
        PROVE  \E j \in 1..Len(s) : Place(s[j]) = x
    <3>1. CASE x = Place(e)
      BY <1>2, <2>1, <3>1
    <3>2. CASE x # Place(e)
      <4>1. PICK j \in 1..Len(t) : Place(t[j]) = x
        BY <1>4, <2>5, <3>2 DEF SameRoutes
      <4> QED
        BY <1>2, <2>1, <4>1
    <3> QED
      BY <3>1, <3>2
  <2>6. SameRoutes(s, after)
    BY <2>4, <2>5 DEF SameRoutes
  <2> QED
    BY <2>6 DEF s, after
<1>8. CASE i # 0
  <2>1. i \in 1..Len(t) /\ s = [t EXCEPT ![i] = e] /\ HasKey(t[i], e.address, e.mask)
    BY <1>1, <1>8 DEF Stored
  <2>2. Len(s) = Len(t) /\ \A j \in 1..Len(t) : s[j] = IF j = i THEN e ELSE t[j]
    BY <1>2, <2>1
  <2>3. \A j \in 1..Len(t) : j # i => Place(t[j]) # Place(e)
    <3> SUFFICES ASSUME NEW j \in 1..Len(t), Place(t[j]) = Place(e) PROVE j = i
      OBVIOUS
    <3>1. SameKey(t[j], t[i])
      BY <1>6, <2>1 DEF HasKey, SameKey
    <3> QED
      BY <2>1, <3>1 DEF IsTable
  <2>4. Place(t[i]) = Place(e)
    BY <2>1 DEF HasKey, Place
  <2>5. \A j \in 1..Len(t) : Place(t[j]) \in 0..DefaultRoute
    BY <1>5, Places
  <2>6. \A j \in 1..Len(s) : Simple(s[j]) /\ after[Place(s[j])] = s[j].route
    BY <1>3, <1>4, <1>5, <2>2, <2>3, <2>5
  <2>7. ASSUME NEW x \in 0..DefaultRoute, after[x] # NoRoute
        PROVE  \E j \in 1..Len(s) : Place(s[j]) = x
    <3>1. CASE x = Place(e)
      BY <2>1, <2>2, <3>1
    <3>2. CASE x # Place(e)
      <4>1. PICK j \in 1..Len(t) : Place(t[j]) = x
        BY <1>4, <2>7, <3>2 DEF SameRoutes
      <4> QED
        BY <2>2, <2>4, <3>2, <4>1
    <3> QED
      BY <3>1, <3>2
  <2>8. SameRoutes(s, after)
    BY <2>6, <2>7 DEF SameRoutes
  <2> QED
    BY <2>8 DEF s, after
<1> QED
  BY <1>7, <1>8

LEMMA ClearedSame ==
  /\ StaticCleared \in [0..DefaultRoute -> Routes] /\ SameRoutes(Cleared, StaticCleared)
  /\ SameRoutes(<<>>, [i \in 0..DefaultRoute |-> NoRoute])
<1> DEFINE e == [address |-> Own, mask |-> HostSize, route |-> Loopback]
<1>1. StaticCleared \in [0..DefaultRoute -> Routes]
  BY DEF StaticCleared, Routes
<1>2. Own \in 0..DefaultRoute /\ Own \in Addresses /\ HostSize # 0
  BY Ranges DEF Addresses
<1>3. e.address = Own /\ e.mask = HostSize /\ e.route = Loopback
  OBVIOUS
<1>4. Cleared = <<e>> /\ Len(<<e>>) = 1 /\ <<e>>[1] = e
  BY ClearedIsTable
<1> HIDE DEF e
<1>5. Simple(e) /\ Place(e) = Own
  BY <1>2, <1>3 DEF Simple, Place, StaticIndex
<1>6. SameRoutes(Cleared, StaticCleared)
  <2>1. \A x \in 0..DefaultRoute : StaticCleared[x] = IF x = Own THEN Loopback ELSE NoRoute
    BY DEF StaticCleared
  <2>2. \A i \in 1..Len(Cleared) : i = 1
    BY <1>4
  <2> QED
    BY <1>2, <1>3, <1>4, <1>5, <2>1, <2>2 DEF SameRoutes
<1>7. SameRoutes(<<>>, [i \in 0..DefaultRoute |-> NoRoute])
  BY DEF SameRoutes
<1> QED
  BY <1>1, <1>6, <1>7

LEMMA StaticInit == RtInit => StaticInv
BY ClearedIsTable, ClearedSame DEF RtInit, StaticInv, TableInv

LEMMA StaticStep ==
  ASSUME StaticInv, [RtNext]_rtVars
  PROVE  StaticInv'
<1>0. TableInv'
  BY TableStep DEF StaticInv
<1>1. CASE UNCHANGED rtVars
  BY <1>0, <1>1 DEF StaticInv, rtVars
<1>2. ASSUME NEW address \in Addresses \cup {DefaultRoute, Other}, NEW netmask \in Masks,
             NEW r \in Ifaces, RtSet(address, netmask, r)
      PROVE  StaticInv'
  <2> DEFINE a == Address(address)
             mask == Mask(address, netmask)
             e == [address |-> a, mask |-> mask, route |-> r]
             host == mask = HostSize /\ a \in Addresses
  <2>1. a \in Nat /\ mask \in Masks
    BY SetStores
  <2>2. /\ rtable' = SetInternal(rtable, a, mask, r)
        /\ simple' = (simple /\ (host \/ (mask = 0 /\ a = 0)))
        /\ static' = IF host \/ mask = 0 THEN [static EXCEPT ![StaticIndex(a, mask)] = r] ELSE static
    BY <1>2 DEF RtSet, Address, Mask
  <2>3. e.address = a /\ e.mask = mask /\ e.route = r
        /\ e = [address |-> e.address, mask |-> e.mask, route |-> e.route]
    OBVIOUS
  <2> HIDE DEF a, mask, e
  <2>4. simple' \in BOOLEAN
    BY <2>2 DEF StaticInv
  <2>5. host \/ mask = 0 => StaticIndex(a, mask) \in 0..DefaultRoute
    <3>1. DefaultRoute \in 0..DefaultRoute /\ \A x \in Addresses : x \in 0..DefaultRoute
      BY Ranges DEF Addresses
    <3> QED
      BY <3>1 DEF StaticIndex
  <2>6. r \in Routes
    BY DEF Routes
  <2>7. static' \in [0..DefaultRoute -> Routes]
    BY <2>2, <2>5, <2>6 DEF StaticInv
  <2>8. simple' => SameRoutes(rtable, static)' 
    <3> SUFFICES ASSUME simple' PROVE SameRoutes(rtable, static)'
      OBVIOUS
    <3>1. simple /\ (host \/ (mask = 0 /\ a = 0))
      BY <2>2
    <3>2. Simple(e)
      BY <2>3, <3>1 DEF Simple
    <3>3. static' = [static EXCEPT ![Place(e)] = e.route]
      BY <2>2, <2>3, <3>1 DEF Place
    <3>4. rtable' = SetInternal(rtable, e.address, e.mask, e.route)
      BY <2>2, <2>3
    <3>5. IsTable(rtable) /\ static \in [0..DefaultRoute -> Routes] /\ SameRoutes(rtable, static)
      BY <3>1 DEF StaticInv, TableInv
    <3>6. e \in Entry
      BY <2>1 DEF e, Entry
    <3>7. SameRoutes(SetInternal(rtable, e.address, e.mask, e.route), [static EXCEPT ![Place(e)] = e.route])
      BY <2>3, <3>2, <3>5, <3>6, SetKeepsSame
    <3> QED
      BY <3>3, <3>4, <3>7
  <2> QED
    BY <1>0, <2>4, <2>7, <2>8 DEF StaticInv
<1>3. CASE RtClear
  BY <1>0, <1>3, ClearedSame DEF RtClear, StaticInv
<1>4. CASE RtFree
  <2>1. [i \in 0..DefaultRoute |-> NoRoute] \in [0..DefaultRoute -> Routes]
    BY DEF Routes
  <2> QED
    BY <1>0, <1>4, <2>1, ClearedSame DEF RtFree, StaticInv
<1> QED
  BY <1>1, <1>2, <1>3, <1>4 DEF RtNext

LEMMA DefaultCovers ==
  ASSUME NEW e, e.mask = 0, e.address = 0, NEW a \in Addresses
  PROVE  Covers(e, a)
<1>1. HostSize - e.mask = HostSize /\ 2^HostSize \in Nat \ {0} /\ 2^HostSize = DefaultRoute
  BY Ranges, RtableAssumption, Powers
<1>2. a \in 0..DefaultRoute - 1
  BY Ranges DEF Addresses
<1>3. \A h \in Nat \ {0} : \A x \in 0..h - 1 : x \div h = 0
  OBVIOUS
<1>4. a \div 2^HostSize = 0 /\ 0 \div 2^HostSize = 0
  BY <1>1, <1>2, <1>3
<1> QED
  BY <1>1, <1>4 DEF Covers

\* csp_rtable_static.c and csp_rtable_cidr.c route every packet alike as long
\* as only routes to hosts and the default route are set.
THEOREM StaticCorrect == RtSpec => []StaticAgrees
<1>1. ASSUME StaticInv PROVE StaticAgrees
  <2> SUFFICES ASSUME simple, NEW a \in Addresses
               PROVE  StaticFindRoute(a) = FindRoute(rtable, a)
    BY DEF StaticAgrees
  <2>1. IsTable(rtable) /\ SameRoutes(rtable, static) /\ static \in [0..DefaultRoute -> Routes]
    BY <1>1 DEF StaticInv, TableInv
  <2> DEFINE f == Find(rtable, a, HostSize, FALSE)
  <2>2. IsRoute(rtable, a, f)
    BY <2>1, Ranges, RouteFound
  <2>3. FindRoute(rtable, a) = IF f = 0 THEN NoRoute ELSE rtable[f].route
    BY DEF FindRoute
  <2> HIDE DEF f
  <2>4. a \in Nat /\ a \in 0..DefaultRoute /\ a # DefaultRoute /\ DefaultRoute \in 0..DefaultRoute
    BY Ranges DEF Addresses
  <2>5. /\ Len(rtable) \in Nat
        /\ \A i \in 1..Len(rtable) : /\ rtable[i] \in Entry /\ rtable[i].mask \in Nat /\ rtable[i].mask <= HostSize
                                     /\ Simple(rtable[i]) /\ static[Place(rtable[i])] = rtable[i].route
                                     /\ rtable[i].route # NoRoute
    <3>1. \A i \in 1..Len(rtable) : Simple(rtable[i]) /\ static[Place(rtable[i])] = rtable[i].route
      BY <2>1 DEF SameRoutes
    <3> QED
      BY <2>1, <3>1, TableEntries, Ranges
  <2>6. \A x \in 0..DefaultRoute : static[x] # NoRoute => \E i \in 1..Len(rtable) : Place(rtable[i]) = x
    BY <2>1 DEF SameRoutes
  <2>7. CASE f = 0
    <3>1. \A j \in 1..Len(rtable) : ~Covers(rtable[j], a)
      BY <2>2, <2>7 DEF IsRoute
    <3>2. static[a] = NoRoute
      <4> SUFFICES ASSUME NEW i \in 1..Len(rtable), Place(rtable[i]) = a PROVE FALSE
        BY <2>4, <2>6
      <4>1. rtable[i].address = a /\ rtable[i].mask = HostSize
        BY <2>4, <2>5, Places
      <4> QED
        BY <2>4, <2>5, <3>1, <4>1, HostCovers
    <3>3. static[DefaultRoute] = NoRoute
      <4> SUFFICES ASSUME NEW i \in 1..Len(rtable), Place(rtable[i]) = DefaultRoute PROVE FALSE
        BY <2>4, <2>6
      <4>1. rtable[i].mask = 0 /\ rtable[i].address = 0
        BY <2>5, Places, Ranges DEF Simple
      <4> QED
        BY <3>1, <4>1, DefaultCovers
    <3> QED
      BY <2>3, <2>7, <3>2, <3>3 DEF StaticFindRoute
  <2>8. CASE f # 0
    <3>1. f \in 1..Len(rtable) /\ Covers(rtable[f], a)
          /\ \A j \in 1..Len(rtable) : Covers(rtable[j], a) => rtable[j].mask <= rtable[f].mask
      BY <2>2, <2>5, <2>8 DEF IsRoute
    <3>2. FindRoute(rtable, a) = static[Place(rtable[f])] /\ static[Place(rtable[f])] # NoRoute
      BY <2>3, <2>5, <2>8, <3>1
    <3>3. CASE rtable[f].mask = HostSize
      <4>1. rtable[f].address = a
        BY <2>4, <2>5, <3>1, <3>3, HostCovers
      <4>2. Place(rtable[f]) = a
        BY <3>3, <4>1, Ranges DEF Place, StaticIndex
      <4> QED
        BY <3>2, <4>2 DEF StaticFindRoute
    <3>4. CASE rtable[f].mask # HostSize
      <4>1. rtable[f].mask = 0 /\ Place(rtable[f]) = DefaultRoute
        BY <2>5, <3>1, <3>4 DEF Simple, Place, StaticIndex
      <4>2. static[a] = NoRoute
        <5> SUFFICES ASSUME NEW i \in 1..Len(rtable), Place(rtable[i]) = a PROVE FALSE
          BY <2>4, <2>6
        <5>1. rtable[i].address = a /\ rtable[i].mask = HostSize
          BY <2>4, <2>5, Places
        <5>2. Covers(rtable[i], a)
          BY <2>4, <2>5, <5>1, HostCovers
        <5> QED
          BY <3>1, <4>1, <5>1, <5>2, Ranges
      <4> QED
        BY <3>2, <4>1, <4>2 DEF StaticFindRoute
    <3> QED
      BY <3>3, <3>4
  <2> QED
    BY <2>7, <2>8
<1>2. RtInit => StaticInv
  BY StaticInit
<1>3. StaticInv /\ [RtNext]_rtVars => StaticInv'
  BY StaticStep
<1> QED
  BY <1>1, <1>2, <1>3, PTL DEF RtSpec

----------------------------------------------------------------------------
\* csp_rtable_save: the text has the entries of the table in their order, but
\* for those of the loopback interface.

Line == [address : Nat, mask : Masks \cup {NoMask}, route : Ifaces, at : Nat]

\* What csp_rtable_save has written: the entries and their characters.
Texts == [text : Seq(Line), len : Nat]

LEMMA LengthType ==
  ASSUME NEW e \in Line
  PROVE  KeyLength(e) \in Nat /\ LineLength(e) \in Nat /\ LineLength(e) = KeyLength(e) + Len(Spelled[e.route])
<1>1. e.route \in Ifaces
  BY DEF Line
<1>2. Spelled[e.route] \in Seq(Ifaces \cup {NoRoute})
  BY <1>1, TextAssumption
<1>3. Len(Spelled[e.route]) \in Nat
  BY <1>2
<1>4. Digits(e.address) \in Nat
  BY DEF Digits
<1> QED
  BY <1>3, <1>4 DEF KeyLength, LineLength

LEMMA SavedLine ==
  ASSUME NEW e \in Entry, e.route # Loopback, NEW at \in Nat
  PROVE  Saved(e, at) \in Line /\ Saved(e, at).at = at
BY DEF Entry, Line, Saved, Entered

\* An entry that is written goes behind the others, which stay.
LEMMA ListedOne ==
  ASSUME NEW c \in Texts, NEW e \in Entry, e.route # Loopback
  PROVE  \E at \in Nat : /\ c.len <= at
                         /\ Listed(c, e).text = Append(c.text, Saved(e, at))
                         /\ Listed(c, e).len = at + LineLength(Saved(e, at))
<1> DEFINE at == IF c.len = 0 THEN 0 ELSE c.len + 1
<1>1. at \in Nat /\ c.len <= at
  BY DEF Texts
<1>2. Listed(c, e) = [text |-> Append(c.text, Saved(e, at)), len |-> at + LineLength(Saved(e, at))]
  BY DEF Listed
<1> HIDE DEF at
<1> QED
  BY <1>1, <1>2

LEMMA ListedLines ==
  ASSUME NEW c \in Texts, NEW e \in Entry
  PROVE  Listed(c, e) \in Texts
<1>1. CASE e.route = Loopback
  BY <1>1 DEF Listed
<1>2. CASE e.route # Loopback
  <2> DEFINE at == IF c.len = 0 THEN 0 ELSE c.len + 1
  <2>1. at \in Nat /\ c.text \in Seq(Line)
    BY DEF Texts
  <2>2. Listed(c, e) = [text |-> Append(c.text, Saved(e, at)), len |-> at + LineLength(Saved(e, at))]
    BY <1>2 DEF Listed
  <2> HIDE DEF at
  <2>3. Saved(e, at) \in Line
    BY <1>2, <2>1, SavedLine
  <2>4. LineLength(Saved(e, at)) \in Nat
    BY <2>3, LengthType
  <2>5. Append(c.text, Saved(e, at)) \in Seq(Line)
    BY <2>1, <2>3
  <2> QED
    BY <2>1, <2>2, <2>4, <2>5 DEF Texts
<1> QED
  BY <1>1, <1>2

NoText == [text |-> <<>>, len |-> 0]

IsTextLoop(u, t) ==
  /\ u \in [0..Len(t) -> Texts]
  /\ u[0] = NoText
  /\ \A i \in 1..Len(t) : u[i] = Listed(u[i - 1], t[i])

LEMMA TextLoop ==
  ASSUME NEW t \in Seq(Entry)
  PROVE  \E u : IsTextLoop(u, t) /\ Saving(t) = u[Len(t)]
<1> DEFINE R(f) == [i \in 0..Len(t) |-> IF i = 0 THEN NoText ELSE Listed(f[i - 1], t[i])]
           V == Texts
<1>1. Len(t) \in Nat /\ \A i \in 1..Len(t) : t[i] \in Entry /\ i \in Nat
  OBVIOUS
<1>2. NoText \in Texts
  BY DEF NoText, Texts
<1>3. PICK step \in [Texts \X (1..Len(t)) -> Texts] :
        \A v \in Texts, i \in 1..Len(t) : step[<<v, i>>] = Listed(v, t[i])
  <2> DEFINE s == [x \in V \X (1..Len(t)) |-> Listed(x[1], t[x[2]])]
  <2>1. \A v \in V, i \in 1..Len(t) : s[<<v, i>>] = Listed(v, t[i])
    OBVIOUS
  <2>2. s \in [V \X (1..Len(t)) -> V]
    <3> SUFFICES ASSUME NEW x \in V \X (1..Len(t))
                 PROVE  Listed(x[1], t[x[2]]) \in V
      OBVIOUS
    <3>1. x[1] \in V /\ t[x[2]] \in Entry
      BY <1>1
    <3> QED
      BY <3>1, ListedLines
  <2> HIDE DEF s
  <2> QED
    BY <2>1, <2>2
<1> HIDE DEF V
<1>4. PICK f : Steps(f, Len(t), V, NoText, step)
  <2>1. Len(t) \in Nat /\ step \in [V \X (1..Len(t)) -> V] /\ NoText \in V
    BY <1>1, <1>2, <1>3 DEF V
  <2> QED
    BY <2>1, LoopExists
<1>5. /\ f \in [0..Len(t) -> V]
      /\ f[0] = NoText /\ \A i \in 1..Len(t) : f[i] = step[<<f[i - 1], i>>]
  BY <1>4 DEF Steps
<1>6. f = R(f)
  <2>1. \A i \in 0..Len(t) : i # 0 => i \in 1..Len(t) /\ f[i - 1] \in V
    <3> SUFFICES ASSUME NEW i \in 0..Len(t), i # 0 PROVE i \in 1..Len(t) /\ f[i - 1] \in V
      OBVIOUS
    <3>1. i \in 1..Len(t) /\ i - 1 \in 0..Len(t)
      BY <1>1
    <3> QED
      BY <1>5, <3>1
  <2>2. \A i \in 0..Len(t) : i # 0 => f[i] = Listed(f[i - 1], t[i])
    BY <1>3, <1>5, <2>1 DEF V
  <2> QED
    BY <1>5, <2>2
<1> DEFINE u == CHOOSE g : g = R(g)
           N == Len(t)
<1>7. u = R(u)
  BY <1>6
<1>8. Saving(t) = u[N]
  BY DEF Saving, NoText
<1> HIDE DEF u
<1>9. \A i \in 0..N : u[i] = IF i = 0 THEN NoText ELSE Listed(u[i - 1], t[i])
  BY <1>7
<1>10. \A i \in 0..N : u[i] \in Texts
  <2> DEFINE S == {i \in Nat : i <= N => u[i] \in Texts}
  <2>1. 0 \in S
    <3>1. 0 \in 0..N
      BY <1>1
    <3>2. u[0] = NoText
      BY <1>9, <3>1
    <3> QED
      BY <1>2, <3>2
  <2>2. ASSUME NEW n \in Nat, n \in S PROVE n + 1 \in S
    <3> SUFFICES ASSUME n + 1 <= N PROVE u[n + 1] \in Texts
      OBVIOUS
    <3>1. n + 1 \in 0..N /\ n + 1 # 0 /\ (n + 1) - 1 = n /\ n <= N /\ n + 1 \in 1..N
      BY <1>1
    <3>2. u[n] \in Texts
      BY <2>2, <3>1
    <3>3. u[n + 1] = Listed(u[n], t[n + 1])
      BY <1>9, <3>1
    <3> QED
      BY <1>1, <3>1, <3>2, <3>3, ListedLines
  <2>3. Nat \subseteq S
    <3> HIDE DEF S
    <3> QED
      BY <2>1, <2>2, Induction
  <2> QED
    BY <1>1, <2>3
<1>11. u \in [0..N -> Texts]
  BY <1>7, <1>10
<1>12. IsTextLoop(u, t)
  <2>1. \A i \in 1..N : i \in 0..N /\ i # 0
    OBVIOUS
  <2> QED
    BY <1>1, <1>9, <1>11, <2>1 DEF IsTextLoop
<1> QED
  BY <1>8, <1>12

Rises(g, S) == \A j, k \in S : j < k => g[j] < g[k]

\* The lines of x end before character n.
EndsBy(x, n) == \A j \in 1..Len(x) : x[j].at + LineLength(x[j]) <= n

LEMMA EndsByLess ==
  ASSUME NEW x \in Seq(Line), NEW n \in Nat, EndsBy(x, n), NEW m \in Nat, n <= m
  PROVE  EndsBy(x, m)
<1> SUFFICES ASSUME NEW j \in 1..Len(x) PROVE x[j].at + LineLength(x[j]) <= m
  BY DEF EndsBy
<1> DEFINE b == x[j].at
           d == LineLength(x[j])
<1>1. x[j] \in Line
  OBVIOUS
<1>2. b \in Nat /\ d \in Nat
  BY <1>1, LengthType DEF Line
<1>3. b + d <= n
  BY DEF EndsBy
<1> HIDE DEF b, d
<1>4. b + d <= m
  BY <1>2, <1>3
<1> QED
  BY <1>4 DEF b, d

\* Text x has the first n entries of t, those of loopback left out; its line
\* j is entry g[j].
Lists(x, t, n, g) ==
  /\ x \in Seq(Line) /\ g \in [1..Len(x) -> 1..n]
  /\ Rises(g, 1..Len(x))
  /\ \A j \in 1..Len(x) : t[g[j]].route # Loopback /\ x[j] = Saved(t[g[j]], x[j].at)
  /\ \A i \in 1..n : t[i].route # Loopback => \E j \in 1..Len(x) : g[j] = i

\* What is written is behind what was.
LEMMA EndsByMore ==
  ASSUME NEW c \in Texts, EndsBy(c.text, c.len), NEW e \in Entry
  PROVE  EndsBy(Listed(c, e).text, Listed(c, e).len)
<1>1. CASE e.route = Loopback
  BY <1>1 DEF Listed
<1>2. CASE e.route # Loopback
  <2>1. PICK at \in Nat : /\ c.len <= at
                         /\ Listed(c, e).text = Append(c.text, Saved(e, at))
                         /\ Listed(c, e).len = at + LineLength(Saved(e, at))
    BY <1>2, ListedOne
  <2> DEFINE x == c.text
             l == Saved(e, at)
             y == Listed(c, e).text
             k == Listed(c, e).len
  <2>2. x \in Seq(Line) /\ c.len \in Nat /\ Len(x) \in Nat
    BY DEF Texts
  <2>3. l \in Line /\ l.at = at
    BY <1>2, SavedLine
  <2>4. LineLength(l) \in Nat
    BY <2>3, LengthType
  <2>5. y = Append(x, l) /\ k = at + LineLength(l)
    BY <2>1
  <2>6. \A j \in 1..Len(x) : x[j] \in Line /\ x[j].at + LineLength(x[j]) <= c.len
    BY <2>2 DEF EndsBy
  <2> HIDE DEF x, l, y, k
  <2>7. /\ Len(y) = Len(x) + 1 /\ y[Len(x) + 1] = l
        /\ \A j \in 1..Len(x) : y[j] = x[j]
    BY <2>2, <2>3, <2>5
  <2>8. ASSUME NEW j \in 1..Len(y) PROVE y[j].at + LineLength(y[j]) <= k
    <3>1. CASE j = Len(x) + 1
      <4>1. y[j] = l
        BY <2>7, <3>1
      <4>2. y[j].at + LineLength(y[j]) = k
        BY <2>3, <2>5, <4>1
      <4> QED
        BY <2>1, <2>4, <2>5, <4>2
    <3>2. CASE j \in 1..Len(x)
      <4> DEFINE d == LineLength(x[j])
                 b == x[j].at
      <4>1. y[j] = x[j] /\ b + d <= c.len
        BY <2>6, <2>7, <3>2
      <4>2. d \in Nat
        BY <2>6, <3>2, LengthType
      <4>3. b \in Nat
        BY <2>6, <3>2 DEF Line
      <4>4. y[j].at + LineLength(y[j]) = b + d
        BY <4>1
      <4> HIDE DEF b, d
      <4>5. b + d <= k
        BY <2>1, <2>2, <2>4, <2>5, <4>1, <4>2, <4>3
      <4> QED
        BY <4>4, <4>5
    <3> QED
      BY <2>2, <2>7, <3>1, <3>2
  <2> QED
    BY <2>8 DEF EndsBy, y, k
<1> QED
  BY <1>1, <1>2

LEMMA ListsMore ==
  ASSUME NEW t \in Seq(Entry), NEW n \in Nat, n + 1 <= Len(t), NEW c \in Texts, NEW g,
         Lists(c.text, t, n, g)
  PROVE  \E h : Lists(Listed(c, t[n + 1]).text, t, n + 1, h)
<1> DEFINE x == c.text
<1>0. Lists(x, t, n, g)
  OBVIOUS
<1> HIDE DEF x
<1>1. /\ x \in Seq(Line) /\ g \in [1..Len(x) -> 1..n] /\ Len(x) \in Nat
      /\ Rises(g, 1..Len(x))
      /\ \A j \in 1..Len(x) : t[g[j]].route # Loopback /\ x[j] = Saved(t[g[j]], x[j].at)
      /\ \A i \in 1..n : t[i].route # Loopback => \E j \in 1..Len(x) : g[j] = i
  BY <1>0 DEF Lists
<1>2. \A i \in 1..n + 1 : i \in 1..n \/ i = n + 1
  OBVIOUS
<1>3. CASE t[n + 1].route = Loopback
  <2>1. Listed(c, t[n + 1]).text = x
    BY <1>3 DEF Listed, x
  <2>2. g \in [1..Len(x) -> 1..n + 1]
    BY <1>1
  <2>3. Lists(x, t, n + 1, g)
    BY <1>1, <1>2, <1>3, <2>2 DEF Lists
  <2> QED
    BY <2>1, <2>3
<1>4. CASE t[n + 1].route # Loopback
  <2>2. n + 1 \in 1..Len(t) /\ t[n + 1] \in Entry
    OBVIOUS
  <2>0. PICK at \in Nat : Listed(c, t[n + 1]).text = Append(c.text, Saved(t[n + 1], at))
    BY <1>4, <2>2, ListedOne
  <2> DEFINE y == Append(x, Saved(t[n + 1], at))
             h == [j \in 1..Len(x) + 1 |-> IF j = Len(x) + 1 THEN n + 1 ELSE g[j]]
  <2>1. Listed(c, t[n + 1]).text = y
    BY <2>0 DEF x
  <2>3. Saved(t[n + 1], at) \in Line /\ Saved(t[n + 1], at).at = at
    BY <1>4, <2>2, SavedLine
  <2>4. /\ y \in Seq(Line) /\ Len(y) = Len(x) + 1 /\ y[Len(x) + 1] = Saved(t[n + 1], at)
        /\ \A j \in 1..Len(x) : y[j] = x[j]
    BY <1>1, <2>3
  <2>5. h \in [1..Len(x) + 1 -> 1..n + 1] /\ h[Len(x) + 1] = n + 1 /\ \A j \in 1..Len(x) : h[j] = g[j]
    BY <1>1
  <2>6. \A j \in 1..Len(x) + 1 : j \in 1..Len(x) \/ j = Len(x) + 1
    BY <1>1
  <2> HIDE DEF y, h
  <2>7. Rises(h, 1..Len(y))
    <3> SUFFICES ASSUME NEW j \in 1..Len(x) + 1, NEW k \in 1..Len(x) + 1, j < k PROVE h[j] < h[k]
      BY <2>4 DEF Rises
    <3>1. j \in 1..Len(x) /\ g[j] \in 1..n
      BY <1>1
    <3>2. CASE k = Len(x) + 1
      BY <2>5, <3>1, <3>2
    <3>3. CASE k \in 1..Len(x)
      BY <1>1, <2>5, <3>1, <3>3 DEF Rises
    <3> QED
      BY <2>6, <3>2, <3>3
  <2>8. \A j \in 1..Len(y) : t[h[j]].route # Loopback /\ y[j] = Saved(t[h[j]], y[j].at)
    BY <1>1, <1>4, <2>3, <2>4, <2>5, <2>6
  <2>9. ASSUME NEW i \in 1..n + 1, t[i].route # Loopback
        PROVE  \E j \in 1..Len(y) : h[j] = i
    <3>1. CASE i = n + 1
      BY <1>1, <2>4, <2>5, <3>1
    <3>2. CASE i \in 1..n
      <4>1. PICK j \in 1..Len(x) : g[j] = i
        BY <1>1, <2>9, <3>2
      <4>2. j \in 1..Len(y) /\ h[j] = i
        BY <1>1, <2>4, <2>5, <4>1
      <4> QED
        BY <4>2
    <3> QED
      BY <1>2, <3>1, <3>2
  <2>10. Lists(y, t, n + 1, h)
    BY <2>4, <2>5, <2>7, <2>8, <2>9 DEF Lists
  <2> QED
    BY <2>1, <2>10
<1> QED
  BY <1>3, <1>4

LEMMA TextLists ==
  ASSUME NEW t \in Seq(Entry)
  PROVE  /\ EndsBy(Text(t), TextLength(t)) /\ TextLength(t) \in Nat
         /\ \E g : Lists(Text(t), t, Len(t), g)
<1>1. PICK u : IsTextLoop(u, t) /\ Saving(t) = u[Len(t)]
  BY TextLoop
<1>2. Len(t) \in Nat
  OBVIOUS
<1> DEFINE Ok(n) == EndsBy(u[n].text, u[n].len) /\ \E g : Lists(u[n].text, t, n, g)
           S == {n \in Nat : n <= Len(t) => Ok(n)}
<1>3. 0 \in S
  <2>1. u[0].text = <<>> /\ u[0].len = 0
    BY <1>1 DEF IsTextLoop, NoText
  <2>2. Lists(<<>>, t, 0, [j \in 1..0 |-> 0])
    BY DEF Lists, Rises
  <2>3. EndsBy(<<>>, 0)
    BY DEF EndsBy
  <2> QED
    BY <2>1, <2>2, <2>3
<1>4. ASSUME NEW n \in Nat, n \in S PROVE n + 1 \in S
  <2> HIDE DEF Ok
  <2> SUFFICES ASSUME n + 1 <= Len(t) PROVE Ok(n + 1)
    OBVIOUS
  <2> USE DEF Ok
  <2>1. n <= Len(t) /\ n + 1 \in 1..Len(t) /\ (n + 1) - 1 = n /\ n \in 0..Len(t)
    BY <1>2
  <2>2. EndsBy(u[n].text, u[n].len)
    BY <1>4, <2>1
  <2>3. PICK g : Lists(u[n].text, t, n, g)
    BY <1>4, <2>1
  <2>4. u[n] \in Texts /\ u[n + 1] = Listed(u[n], t[n + 1])
    BY <1>1, <2>1 DEF IsTextLoop
  <2>5. t[n + 1] \in Entry
    BY <2>1
  <2>6. EndsBy(u[n + 1].text, u[n + 1].len)
    BY <2>2, <2>4, <2>5, EndsByMore
  <2>7. \E h : Lists(u[n + 1].text, t, n + 1, h)
    BY <2>1, <2>3, <2>4, ListsMore
  <2> QED
    BY <2>6, <2>7
<1>5. Nat \subseteq S
  <2> HIDE DEF S
  <2> QED
    BY <1>3, <1>4, Induction
<1>6. Ok(Len(t))
  BY <1>2, <1>5
<1>7. u[Len(t)] \in Texts
  BY <1>1, <1>2 DEF IsTextLoop
<1> QED
  BY <1>1, <1>6, <1>7 DEF Text, TextLength, Texts

----------------------------------------------------------------------------
\* csp_rtable_load of such a text into a table that has been cleared.

Read(e) == [address |-> e.address, mask |-> IF e.mask = NoMask THEN HostSize ELSE e.mask, route |-> e.route]

LEMMA ReadSaved ==
  ASSUME NEW e \in Entry, NEW at
  PROVE  Read(Saved(e, at)) = e /\ Saved(e, at).address = e.address
<1> DEFINE a == e.address
           m == e.mask
           r == e.route
<1>1. e = [address |-> a, mask |-> m, route |-> r] /\ m \in 0..HostSize
  BY DEF Entry, Masks
<1>2. m # NoMask /\ HostSize # NoMask
  BY <1>1, Ranges DEF NoMask
<1> HIDE DEF a, m, r
<1>3. Saved(e, at) = [address |-> a, mask |-> IF m = HostSize THEN NoMask ELSE m, route |-> r, at |-> at]
  BY <1>1 DEF Saved, Entered
<1> QED
  BY <1>1, <1>2, <1>3 DEF Read

LEMMA ReadLine ==
  ASSUME NEW e \in Line
  PROVE  /\ Read(e) \in Entry
         /\ e.address \in Nat /\ e.route \in Ifaces \cup {Loopback}
         /\ (IF e.mask = NoMask THEN HostSize ELSE e.mask) \in Masks
<1>1. HostSize \in Masks
  BY Ranges DEF Masks
<1> QED
  BY <1>1 DEF Line, Entry, Read

Tables == [table : {t \in Seq(Entry) : IsTable(t)}, ok : BOOLEAN]

LEMMA ReadType ==
  ASSUME NEW e \in Line, NEW n \in Int
  PROVE  RouteRead(e, n) \in Ifaces \cup {NoRoute}
<1> DEFINE m == n - KeyLength(e)
           s == Spelled[e.route]
           k == IF m < Len(s) THEN m ELSE Len(s)
<1>1. s \in Seq(Ifaces \cup {NoRoute}) /\ s # <<>>
  BY TextAssumption DEF Line
<1>2. m \in Int
  BY LengthType
<1>3. RouteRead(e, n) = IF m <= 0 THEN NoRoute ELSE s[k]
  BY DEF RouteRead
<1> HIDE DEF m, s
<1>4. ASSUME ~(m <= 0) PROVE k \in 1..Len(s)
  BY <1>1, <1>2, <1>4
<1> HIDE DEF k
<1>5. ASSUME ~(m <= 0) PROVE s[k] \in Ifaces \cup {NoRoute}
  BY <1>1, <1>4, <1>5
<1> QED
  BY <1>3, <1>5

\* A line that ends before the cut names its route.
LEMMA WholeRead ==
  ASSUME NEW e \in Line, e.at + LineLength(e) <= TextMax
  PROVE  RouteRead(e, TextMax - e.at) = e.route /\ e.route # NoRoute
<1> DEFINE m == (TextMax - e.at) - KeyLength(e)
           s == Spelled[e.route]
           k == IF m < Len(s) THEN m ELSE Len(s)
<1>1. /\ s \in Seq(Ifaces \cup {NoRoute}) /\ s # <<>> /\ s[Len(s)] = e.route
      /\ e.at \in Nat /\ e.route \in Ifaces
  BY TextAssumption DEF Line
<1>2. Len(s) \in Nat /\ Len(s) # 0
  BY <1>1
<1>3. m \in Int /\ Len(s) <= m
  BY <1>1, <1>2, LengthType, TextAssumption
<1>4. RouteRead(e, TextMax - e.at) = IF m <= 0 THEN NoRoute ELSE s[k]
  BY DEF RouteRead
<1> HIDE DEF m, s
<1>5. ~(m <= 0) /\ k = Len(s)
  BY <1>2, <1>3
<1>6. e.route # NoRoute
  BY <1>1, RtableAssumption
<1> HIDE DEF k
<1> QED
  BY <1>1, <1>4, <1>5, <1>6

LEMMA ParseTables ==
  ASSUME NEW v \in Tables, NEW e \in Line
  PROVE  Parse(v, e) \in Tables
<1> DEFINE mask == IF e.mask = NoMask THEN HostSize ELSE e.mask
           r == RouteRead(e, TextMax - e.at)
           s == SetInternal(v.table, e.address, mask, r)
<1>1. v = [table |-> v.table, ok |-> v.ok] /\ IsTable(v.table) /\ v.table \in Seq(Entry) /\ v.ok \in BOOLEAN
  BY DEF Tables
<1>2. mask \in Masks /\ e.address \in Nat
  BY ReadLine
<1>3. r \in Ifaces \cup {NoRoute}
  <2>1. TextMax - e.at \in Int
    BY TextAssumption DEF Line
  <2> QED
    BY <2>1, ReadType
<1>4. Parse(v, e) = IF ~v.ok \/ e.address > HostMax \/ r = NoRoute
                    THEN [v EXCEPT !.ok = FALSE] ELSE [v EXCEPT !.table = s]
  BY DEF Parse
<1> HIDE DEF mask, r
<1>5. ASSUME r # NoRoute PROVE IsTable(s)
  <2>1. r \in Ifaces \cup {Loopback}
    BY <1>3, <1>5
  <2> QED
    BY <1>1, <1>2, <2>1, SetKeepsTable
<1> HIDE DEF s
<1>6. [v EXCEPT !.ok = FALSE] \in Tables
  BY DEF Tables
<1>7. ASSUME r # NoRoute PROVE [v EXCEPT !.table = s] \in Tables
  <2>1. IsTable(s) /\ s \in Seq(Entry)
    BY <1>5, <1>7 DEF IsTable
  <2> QED
    BY <2>1 DEF Tables
<1> QED
  BY <1>4, <1>6, <1>7

IsLoadLoop(u, text) ==
  /\ u \in [0..Len(text) -> Tables]
  /\ u[0] = [table |-> Cleared, ok |-> TRUE]
  /\ \A i \in 1..Len(text) : u[i] = Parse(u[i - 1], text[i])

LEMMA LoadLoop ==
  ASSUME NEW text \in Seq(Line)
  PROVE  \E u : IsLoadLoop(u, text) /\ Load(Cleared, text) = u[Len(text)].table
<1> DEFINE start == [table |-> Cleared, ok |-> TRUE]
           R(f) == [i \in 0..Len(text) |-> IF i = 0 THEN start ELSE Parse(f[i - 1], text[i])]
<1>1. Len(text) \in Nat /\ \A i \in 1..Len(text) : text[i] \in Line /\ i \in Nat
  OBVIOUS
<1>2. start \in Tables
  BY ClearedIsTable DEF Tables, IsTable
<1>3. PICK step \in [Tables \X (1..Len(text)) -> Tables] :
        \A v \in Tables, i \in 1..Len(text) : step[<<v, i>>] = Parse(v, text[i])
  <2> DEFINE s == [x \in Tables \X (1..Len(text)) |-> Parse(x[1], text[x[2]])]
  <2>1. \A v \in Tables, i \in 1..Len(text) : s[<<v, i>>] = Parse(v, text[i])
    OBVIOUS
  <2>2. s \in [Tables \X (1..Len(text)) -> Tables]
    <3> SUFFICES ASSUME NEW x \in Tables \X (1..Len(text))
                 PROVE  Parse(x[1], text[x[2]]) \in Tables
      OBVIOUS
    <3>1. x[1] \in Tables /\ text[x[2]] \in Line
      BY <1>1
    <3> QED
      BY <3>1, ParseTables
  <2> HIDE DEF s
  <2> QED
    BY <2>1, <2>2
<1>4. \E f : f = R(f)
  <2> HIDE DEF start
  <2>1. PICK f : Steps(f, Len(text), Tables, start, step)
    <3>1. Len(text) \in Nat
      BY <1>1
    <3> QED
      BY <1>2, <1>3, <3>1, LoopExists
  <2>2. /\ f \in [0..Len(text) -> Tables]
        /\ f[0] = start /\ \A i \in 1..Len(text) : f[i] = step[<<f[i - 1], i>>]
    BY <2>1 DEF Steps
  <2>3. \A i \in 0..Len(text) : i # 0 => i \in 1..Len(text) /\ f[i - 1] \in Tables
    <3> SUFFICES ASSUME NEW i \in 0..Len(text), i # 0 PROVE i \in 1..Len(text) /\ f[i - 1] \in Tables
      OBVIOUS
    <3>1. i \in 1..Len(text) /\ i - 1 \in 0..Len(text)
      BY <1>1
    <3> QED
      BY <2>2, <3>1
  <2>4. \A i \in 0..Len(text) : i # 0 => f[i] = Parse(f[i - 1], text[i])
    BY <1>3, <2>2, <2>3
  <2>5. f = R(f)
    BY <2>2, <2>4
  <2> QED
    BY <2>5
<1> DEFINE u == CHOOSE g : g = R(g)
           N == Len(text)
<1>5. u = R(u)
  BY <1>4
<1>6. Load(Cleared, text) = u[N].table
  BY DEF Load
<1> HIDE DEF u
<1>7. \A i \in 0..N : u[i] = IF i = 0 THEN start ELSE Parse(u[i - 1], text[i])
  BY <1>5
<1>8. \A i \in 0..N : u[i] \in Tables
  <2> DEFINE S == {i \in Nat : i <= N => u[i] \in Tables}
  <2>1. 0 \in S
    <3>1. 0 \in 0..N
      BY <1>1
    <3>2. u[0] = start
      BY <1>7, <3>1
    <3> QED
      BY <1>2, <3>2
  <2>2. ASSUME NEW n \in Nat, n \in S PROVE n + 1 \in S
    <3> SUFFICES ASSUME n + 1 <= N PROVE u[n + 1] \in Tables
      OBVIOUS
    <3>1. n + 1 \in 0..N /\ n + 1 # 0 /\ (n + 1) - 1 = n /\ n <= N /\ n + 1 \in 1..N
      BY <1>1
    <3>2. u[n] \in Tables
      BY <2>2, <3>1
    <3>3. u[n + 1] = Parse(u[n], text[n + 1])
      BY <1>7, <3>1
    <3> QED
      BY <1>1, <3>1, <3>2, <3>3, ParseTables
  <2>3. Nat \subseteq S
    <3> HIDE DEF S
    <3> QED
      BY <2>1, <2>2, Induction
  <2> QED
    BY <1>1, <2>3
<1>9. u \in [0..N -> Tables]
  BY <1>5, <1>8
<1>10. IsLoadLoop(u, text)
  <2>1. \A i \in 1..N : i \in 0..N /\ i # 0
    OBVIOUS
  <2>2. u[0] = start
    <3>1. 0 \in 0..N
      BY <1>1
    <3> QED
      BY <1>7, <3>1
  <2> QED
    BY <1>1, <1>7, <1>9, <2>1, <2>2 DEF IsLoadLoop
<1> QED
  BY <1>6, <1>10

OwnKey(e) == HasKey(e, Own, HostSize)

\* Table s is what the first n lines of text x make of a cleared one: their
\* entries in their order, but the node's own comes first; entry j > 1 is line
\* h[j].
Loaded(s, x, n, h) ==
  /\ IsTable(s) /\ Len(s) >= 1 /\ OwnKey(s[1])
  /\ h \in [2..Len(s) -> 1..n]
  /\ Rises(h, 2..Len(s))
  /\ \A j \in 2..Len(s) : s[j] = Read(x[h[j]])
  /\ \A p \in 1..n : \/ OwnKey(Read(x[p])) /\ s[1] = Read(x[p])
                     \/ \E j \in 2..Len(s) : h[j] = p
  /\ (\A p \in 1..n : ~OwnKey(Read(x[p]))) => s[1] = NewEntry(Own, HostSize, Loopback)

\* A text that loads: no key twice, no address that no packet has, nothing
\* behind the characters that are read.
Loads(x) ==
  /\ x \in Seq(Line)
  /\ \A p, q \in 1..Len(x) : SameKey(Read(x[p]), Read(x[q])) => p = q
  /\ \A p \in 1..Len(x) : x[p].address <= HostMax
  /\ EndsBy(x, TextMax)

LEMMA LoadedMore ==
  ASSUME NEW x, Loads(x), NEW n \in Nat, n + 1 <= Len(x), NEW s, NEW h, Loaded(s, x, n, h),
         NEW z, NEW i, Stored(z, s, Read(x[n + 1]), i), IsTable(z)
  PROVE  \E g : Loaded(z, x, n + 1, g)
<1> DEFINE e == Read(x[n + 1])
<1>1. /\ IsTable(s) /\ s \in Seq(Entry) /\ Len(s) \in Nat /\ Len(s) >= 1 /\ OwnKey(s[1])
      /\ h \in [2..Len(s) -> 1..n] /\ Rises(h, 2..Len(s))
      /\ \A j \in 2..Len(s) : s[j] = Read(x[h[j]])
      /\ \A p \in 1..n : \/ OwnKey(Read(x[p])) /\ s[1] = Read(x[p])
                         \/ \E j \in 2..Len(s) : h[j] = p
      /\ (\A p \in 1..n : ~OwnKey(Read(x[p]))) => s[1] = NewEntry(Own, HostSize, Loopback)
  BY DEF Loaded, IsTable
<1>2. Len(x) \in Nat /\ n + 1 \in 1..Len(x) /\ x[n + 1] \in Line /\ \A p \in 1..n : p \in 1..Len(x)
  BY DEF Loads
<1>3. e \in Entry
  BY <1>2, ReadLine
<1>4. \A p \in 1..n + 1 : p \in 1..n \/ p = n + 1
  OBVIOUS
<1>5. /\ i = 0 => z = Append(s, e) /\ \A j \in 1..Len(s) : ~SameKey(s[j], e)
      /\ i # 0 => i \in 1..Len(s) /\ SameKey(s[i], e) /\ z = [s EXCEPT ![i] = e]
  BY DEF Stored, HasKey, SameKey
<1>6. \A p \in 1..n : ~SameKey(Read(x[p]), e)
  <2> SUFFICES ASSUME NEW p \in 1..n, SameKey(Read(x[p]), e) PROVE FALSE
    OBVIOUS
  <2>1. p = n + 1
    BY <1>2 DEF Loads
  <2> QED
    BY <2>1
<1> HIDE DEF e
<1>7. CASE i = 0
  <2> DEFINE g == [j \in 2..Len(s) + 1 |-> IF j = Len(s) + 1 THEN n + 1 ELSE h[j]]
  <2>1. /\ Len(z) = Len(s) + 1 /\ z[Len(s) + 1] = e
        /\ \A j \in 1..Len(s) : z[j] = s[j]
    BY <1>1, <1>3, <1>5, <1>7
  <2>2. /\ g \in [2..Len(z) -> 1..n + 1] /\ g[Len(s) + 1] = n + 1
        /\ \A j \in 2..Len(s) : g[j] = h[j] /\ h[j] \in 1..n
    <3>1. \A j \in 2..Len(s) + 1 : j # Len(s) + 1 => j \in 2..Len(s)
      BY <1>1
    <3>2. \A j \in 2..Len(s) : h[j] \in 1..n /\ h[j] \in 1..n + 1 /\ j # Len(s) + 1 /\ j \in 2..Len(s) + 1
      BY <1>1, SMTT(40)
    <3>3. n + 1 \in 1..n + 1 /\ Len(s) + 1 \in 2..Len(s) + 1
      BY <1>1
    <3> QED
      BY <2>1, <3>1, <3>2, <3>3
  <2>3. \A j \in 2..Len(z) : j \in 2..Len(s) \/ j = Len(s) + 1
    BY <1>1, <2>1
  <2> HIDE DEF g
  <2>4. OwnKey(z[1]) /\ z[1] = s[1] /\ Len(z) >= 1 /\ ~OwnKey(e)
    BY <1>1, <1>5, <1>7, <2>1 DEF OwnKey, HasKey, SameKey
  <2>5. Rises(g, 2..Len(z))
    <3> SUFFICES ASSUME NEW j \in 2..Len(z), NEW k \in 2..Len(z), j < k PROVE g[j] < g[k]
      BY DEF Rises
    <3>1. j \in 2..Len(s)
      BY <1>1, <2>1
    <3>2. CASE k = Len(s) + 1
      BY <2>2, <3>1, <3>2
    <3>3. CASE k \in 2..Len(s)
      BY <1>1, <2>2, <3>1, <3>3 DEF Rises
    <3> QED
      BY <2>3, <3>2, <3>3
  <2>6. \A j \in 2..Len(z) : z[j] = Read(x[g[j]])
    <3>1. \A j \in 2..Len(s) : j \in 1..Len(s)
      OBVIOUS
    <3> QED
      BY <1>1, <2>1, <2>2, <2>3, <3>1 DEF e
  <2>7. ASSUME NEW p \in 1..n + 1
        PROVE  (OwnKey(Read(x[p])) /\ z[1] = Read(x[p])) \/ \E j \in 2..Len(z) : g[j] = p
    <3>1. CASE p = n + 1
      <4>1. Len(s) + 1 \in 2..Len(z)
        BY <1>1, <2>1
      <4> QED
        BY <2>2, <3>1, <4>1
    <3>2. CASE p \in 1..n /\ \E j \in 2..Len(s) : h[j] = p
      <4>1. PICK j \in 2..Len(s) : h[j] = p
        BY <3>2
      <4>2. j \in 2..Len(z) /\ g[j] = p
        BY <1>1, <2>1, <2>2, <4>1
      <4> QED
        BY <4>2
    <3>3. CASE p \in 1..n /\ OwnKey(Read(x[p])) /\ s[1] = Read(x[p])
      BY <2>4, <3>3
    <3> QED
      BY <1>1, <1>4, <3>1, <3>2, <3>3
  <2>8. (\A p \in 1..n + 1 : ~OwnKey(Read(x[p]))) => z[1] = NewEntry(Own, HostSize, Loopback)
    <3>1. \A p \in 1..n : p \in 1..n + 1
      OBVIOUS
    <3> QED
      BY <1>1, <2>4, <3>1
  <2>9. Loaded(z, x, n + 1, g)
    BY <2>2, <2>4, <2>5, <2>6, <2>7, <2>8 DEF Loaded
  <2> QED
    BY <2>9
<1>8. CASE i # 0
  <2>1. i \in 1..Len(s) /\ SameKey(s[i], e) /\ z = [s EXCEPT ![i] = e]
    BY <1>5, <1>8
  <2>2. i = 1
    <3> SUFFICES ASSUME i # 1 PROVE FALSE
      OBVIOUS
    <3>1. i \in 2..Len(s)
      BY <1>1, <2>1
    <3>2. h[i] \in 1..n /\ s[i] = Read(x[h[i]])
      BY <1>1, <3>1
    <3> QED
      BY <1>6, <2>1, <3>2
  <2>3. /\ Len(z) = Len(s) /\ z[1] = e
        /\ \A j \in 2..Len(s) : z[j] = s[j]
    BY <1>1, <1>3, <2>1, <2>2
  <2>4. OwnKey(e)
    BY <1>1, <2>1, <2>2 DEF OwnKey, HasKey, SameKey
  <2>5. \A p \in 1..n : ~OwnKey(Read(x[p]))
    BY <1>6, <2>4 DEF OwnKey, HasKey, SameKey
  <2>6. h \in [2..Len(z) -> 1..n + 1]
    BY <1>1, <2>3
  <2>7. \A p \in 1..n + 1 : \/ OwnKey(Read(x[p])) /\ z[1] = Read(x[p])
                           \/ \E j \in 2..Len(z) : h[j] = p
    BY <1>1, <1>4, <2>3, <2>4, <2>5 DEF e
  <2>8. n + 1 \in 1..n + 1 /\ OwnKey(Read(x[n + 1]))
    BY <2>4 DEF e
  <2>9. Len(z) >= 1 /\ OwnKey(z[1]) /\ Rises(h, 2..Len(z)) /\ \A j \in 2..Len(z) : z[j] = Read(x[h[j]])
    BY <1>1, <2>3, <2>4
  <2>10. Loaded(z, x, n + 1, h)
    BY <2>6, <2>7, <2>8, <2>9 DEF Loaded
  <2> QED
    BY <2>10
<1> QED
  BY <1>7, <1>8

LEMMA LoadLoads ==
  ASSUME NEW x, Loads(x)
  PROVE  \E h : Loaded(Load(Cleared, x), x, Len(x), h)
<1>1. x \in Seq(Line) /\ Len(x) \in Nat
  BY DEF Loads
<1>2. PICK u : IsLoadLoop(u, x) /\ Load(Cleared, x) = u[Len(x)].table
  BY <1>1, LoadLoop
<1> DEFINE Ok(n) == u[n].ok = TRUE /\ \E h : Loaded(u[n].table, x, n, h)
           S == {n \in Nat : n <= Len(x) => Ok(n)}
<1>3. 0 \in S
  <2>1. u[0].table = Cleared /\ u[0].ok = TRUE
    BY <1>2 DEF IsLoadLoop
  <2>2. IsTable(Cleared) /\ Len(Cleared) = 1 /\ Cleared[1] = NewEntry(Own, HostSize, Loopback)
    BY ClearedIsTable DEF NewEntry
  <2>3. OwnKey(NewEntry(Own, HostSize, Loopback))
    BY DEF NewEntry, OwnKey, HasKey
  <2>4. Loaded(Cleared, x, 0, [j \in 2..1 |-> 0])
    BY <2>2, <2>3 DEF Loaded, Rises
  <2> QED
    BY <2>1, <2>4
<1>4. ASSUME NEW n \in Nat, n \in S PROVE n + 1 \in S
  <2> HIDE DEF Ok
  <2> SUFFICES ASSUME n + 1 <= Len(x) PROVE Ok(n + 1)
    OBVIOUS
  <2> USE DEF Ok
  <2>1. n <= Len(x) /\ n + 1 \in 1..Len(x) /\ (n + 1) - 1 = n /\ n \in 0..Len(x)
    BY <1>1
  <2>2. PICK h : Loaded(u[n].table, x, n, h)
    BY <1>4, <2>1
  <2>3. u[n] \in Tables /\ u[n].ok = TRUE /\ u[n + 1] = Parse(u[n], x[n + 1])
    BY <1>2, <1>4, <2>1 DEF IsLoadLoop
  <2> DEFINE e == x[n + 1]
             mask == IF e.mask = NoMask THEN HostSize ELSE e.mask
             z == SetInternal(u[n].table, e.address, mask, e.route)
  <2>4. e \in Line /\ e.address <= HostMax /\ e.address \in Nat
    BY <1>1, <2>1, ReadLine DEF Loads
  <2>5. ~(e.address > HostMax) /\ RouteRead(e, TextMax - e.at) = e.route /\ e.route # NoRoute
    <3>1. e.at + LineLength(e) <= TextMax
      BY <2>1 DEF Loads, EndsBy
    <3>2. RouteRead(e, TextMax - e.at) = e.route /\ e.route # NoRoute
      <4> HIDE DEF e
      <4> QED
        BY <2>4, <3>1, WholeRead
    <3> QED
      BY <2>4, <3>2, Ranges
  <2>6. u[n + 1] = [u[n] EXCEPT !.table = z]
    BY <2>3, <2>5 DEF Parse
  <2>7. u[n + 1].table = z /\ u[n + 1].ok = TRUE
    BY <2>3, <2>6 DEF Tables
  <2>8. mask \in Masks /\ e.address \in Nat /\ e.route \in Ifaces \cup {Loopback}
    BY <2>4, ReadLine
  <2>9. Read(x[n + 1]) = NewEntry(e.address, mask, e.route)
    BY DEF Read, NewEntry
  <2>10. IsTable(u[n].table)
    BY <2>2 DEF Loaded
  <2> HIDE DEF z, mask, e
  <2>11. PICK i : Stored(z, u[n].table, NewEntry(e.address, mask, e.route), i)
    BY <2>8, <2>10, SetKeepsTable DEF z
  <2>12. IsTable(z)
    BY <2>8, <2>10, SetKeepsTable DEF z
  <2>13. \E g : Loaded(z, x, n + 1, g)
    BY <2>1, <2>2, <2>9, <2>11, <2>12, LoadedMore
  <2> QED
    BY <2>7, <2>13
<1>5. Nat \subseteq S
  <2> HIDE DEF S
  <2> QED
    BY <1>3, <1>4, Induction
<1> QED
  BY <1>1, <1>2, <1>5

\* Only the node's own route is the loopback interface.
Settable(e) ==
  /\ e.address \in Addresses \cup {Other}
  /\ e.route = Loopback => OwnKey(e)
RoutesInv == TableInv /\ \A i \in 1..Len(rtable) : Settable(rtable[i])

LEMMA ClearedSettable == \A i \in 1..Len(Cleared) : Settable(Cleared[i])
<1>1. Len(Cleared) = 1 /\ Cleared[1] = NewEntry(Own, HostSize, Loopback)
  BY ClearedIsTable DEF NewEntry
<1>2. Settable(NewEntry(Own, HostSize, Loopback))
  BY Ranges DEF Settable, NewEntry, OwnKey, HasKey
<1> QED
  BY <1>1, <1>2

LEMMA RoutesInit == RtInit => RoutesInv
BY ClearedSettable, TableInit DEF RtInit, RoutesInv

LEMMA RoutesStep ==
  ASSUME RoutesInv, [RtNext]_rtVars
  PROVE  RoutesInv'
<1>0. TableInv'
  BY TableStep DEF RoutesInv
<1>1. CASE UNCHANGED rtVars
  BY <1>0, <1>1 DEF RoutesInv, rtVars
<1>2. ASSUME NEW address \in Addresses \cup {DefaultRoute, Other}, NEW netmask \in Masks,
             NEW r \in Ifaces, RtSet(address, netmask, r)
      PROVE  RoutesInv'
  <2> DEFINE a == Address(address)
             mask == Mask(address, netmask)
             e == NewEntry(a, mask, r)
  <2>1. a \in Nat /\ mask \in Masks /\ r \in Ifaces \cup {Loopback}
    BY SetStores
  <2>2. a \in Addresses \cup {Other}
    <3>1. 0 \in Addresses
      BY Ranges DEF Addresses
    <3> QED
      BY <3>1 DEF Address
  <2>3. rtable' = SetInternal(rtable, a, mask, r)
    BY <1>2 DEF RtSet, Address, Mask
  <2> HIDE DEF a, mask
  <2>4. Settable(e) /\ e \in Entry
    BY <2>1, <2>2, Ranges DEF Settable, NewEntry, Entry
  <2>5. PICK i : Stored(rtable', rtable, e, i)
    BY <2>1, <2>3, SetKeepsTable DEF RoutesInv, TableInv
  <2>6. rtable \in Seq(Entry) /\ \A j \in 1..Len(rtable) : Settable(rtable[j])
    BY DEF RoutesInv, TableInv, IsTable
  <2> HIDE DEF e
  <2>7. CASE i = 0
    <3>1. rtable' = Append(rtable, e)
      BY <2>5, <2>7 DEF Stored
    <3>2. Len(rtable') = Len(rtable) + 1 /\ rtable'[Len(rtable) + 1] = e
          /\ \A j \in 1..Len(rtable) : rtable'[j] = rtable[j]
      BY <2>4, <2>6, <3>1
    <3>3. \A j \in 1..Len(rtable') : j \in 1..Len(rtable) \/ j = Len(rtable) + 1
      BY <2>6, <3>2
    <3>4. \A j \in 1..Len(rtable') : Settable(rtable'[j])
      BY <2>4, <2>6, <3>2, <3>3
    <3> QED
      BY <1>0, <3>4 DEF RoutesInv
  <2>8. CASE i # 0
    <3>1. i \in 1..Len(rtable) /\ rtable' = [rtable EXCEPT ![i] = e]
      BY <2>5, <2>8 DEF Stored
    <3>2. Len(rtable') = Len(rtable) /\ \A j \in 1..Len(rtable) : rtable'[j] = IF j = i THEN e ELSE rtable[j]
      BY <2>4, <2>6, <3>1
    <3>3. \A j \in 1..Len(rtable') : Settable(rtable'[j])
      BY <2>4, <2>6, <3>2
    <3> QED
      BY <1>0, <3>3 DEF RoutesInv
  <2> QED
    BY <2>7, <2>8
<1>3. CASE RtClear
  BY <1>0, <1>3, ClearedSettable DEF RtClear, RoutesInv
<1>4. CASE RtFree
  BY <1>0, <1>4 DEF RtFree, RoutesInv
<1> QED
  BY <1>1, <1>2, <1>3, <1>4 DEF RtNext

LEMMA TextLoads ==
  ASSUME NEW t, IsTable(t), \A i \in 1..Len(t) : t[i].address \in Addresses,
         NEW x, NEW g, Lists(x, t, Len(t), g), EndsBy(x, TextMax)
  PROVE  Loads(x) /\ \A p \in 1..Len(x) : g[p] \in 1..Len(t) /\ Read(x[p]) = t[g[p]]
<1>1. /\ x \in Seq(Line) /\ g \in [1..Len(x) -> 1..Len(t)] /\ Rises(g, 1..Len(x))
      /\ \A j \in 1..Len(x) : x[j] = Saved(t[g[j]], x[j].at)
  BY DEF Lists
<1>2. \A p \in 1..Len(x) : g[p] \in 1..Len(t) /\ t[g[p]] \in Entry
  BY <1>1, TableEntries
<1>3. \A p \in 1..Len(x) : g[p] \in 1..Len(t) /\ Read(x[p]) = t[g[p]] /\ x[p].address = t[g[p]].address
  BY <1>1, <1>2, ReadSaved
<1>4. ASSUME NEW p \in 1..Len(x), NEW q \in 1..Len(x), SameKey(Read(x[p]), Read(x[q])) PROVE p = q
  <2>1. g[p] = g[q]
    BY <1>3, <1>4 DEF IsTable
  <2>2. g[p] \in Nat /\ p \in Int /\ q \in Int
    BY <1>3
  <2> QED
    BY <1>1, <1>2, <2>1, <2>2 DEF Rises
<1>5. \A p \in 1..Len(x) : x[p].address <= HostMax
  BY <1>3, Ranges DEF Addresses
<1> QED
  BY <1>1, <1>3, <1>4, <1>5 DEF Loads

\* csp_rtable_load of what csp_rtable_save wrote, which has at most TextMax
\* characters, routes every packet as before, although the table is not the
\* same: the entries keep their order, and the node's own, which comes first,
\* is alone of its length.
THEOREM ReloadCorrect == RtSpec => []ReloadKeepsRoutes
<1>1. ASSUME RoutesInv PROVE ReloadKeepsRoutes
  <2> SUFFICES ASSUME TextLength(rtable) <= TextMax,
                      \A i \in 1..Len(rtable) : rtable[i].address # Other,
                      NEW a \in Addresses,
                      a # Own \/ Find(rtable, Own, HostSize, TRUE) # 0
               PROVE  FindRoute(Load(Cleared, Text(rtable)), a) = FindRoute(rtable, a)
    BY DEF ReloadKeepsRoutes
  <2> DEFINE t == rtable
             x == Text(rtable)
             s == Load(Cleared, Text(rtable))
             i == Find(rtable, a, HostSize, FALSE)
             j == Find(s, a, HostSize, FALSE)
  <2>1. /\ IsTable(t) /\ a \in Nat /\ Own \in Nat /\ Len(t) \in Nat
        /\ \A k \in 1..Len(t) : /\ t[k] \in Entry /\ t[k].mask \in Nat /\ t[k].mask <= HostSize
                                /\ t[k].address \in Addresses /\ (t[k].route = Loopback => OwnKey(t[k]))
    BY <1>1, Ranges, TableEntries DEF RoutesInv, TableInv, Settable
  <2>2. a = Own => \E k \in 1..Len(t) : OwnKey(t[k])
    <3> DEFINE k == Find(t, Own, HostSize, TRUE)
    <3>1. k \in 0..Len(t) /\ (k # 0 => HasKey(t[k], Own, HostSize)) /\ (a = Own => k # 0)
      BY <2>1, FindExact DEF IsTable
    <3> HIDE DEF k
    <3> QED
      BY <2>1, <3>1 DEF OwnKey
  <2>3. PICK g : Lists(x, t, Len(t), g)
    BY <2>1, TextLists DEF IsTable
  <2>4. Loads(x) /\ \A p \in 1..Len(x) : g[p] \in 1..Len(t) /\ Read(x[p]) = t[g[p]]
    <3>1. EndsBy(x, TextMax)
      <4>1. EndsBy(x, TextLength(t)) /\ TextLength(t) \in Nat /\ TextLength(t) <= TextMax
        BY <2>1, TextLists DEF IsTable
      <4>2. x \in Seq(Line)
        BY <2>3 DEF Lists
      <4> QED
        BY <4>1, <4>2, TextAssumption, EndsByLess
    <3> QED
      BY <2>1, <2>3, <3>1, TextLoads
  <2>5. PICK h : Loaded(s, x, Len(x), h)
    BY <2>4, LoadLoads
  <2>6. /\ IsTable(s) /\ Len(s) \in Nat /\ Len(s) >= 1 /\ OwnKey(s[1])
        /\ Rises(h, 2..Len(s)) /\ Rises(g, 1..Len(x))
        /\ \A k \in 2..Len(s) : h[k] \in 1..Len(x) /\ g[h[k]] \in 1..Len(t) /\ s[k] = t[g[h[k]]]
        /\ \A k \in 1..Len(s) : s[k] \in Entry /\ s[k].mask \in Nat /\ s[k].mask <= HostSize
    <3>1. /\ IsTable(s) /\ Len(s) >= 1 /\ OwnKey(s[1]) /\ h \in [2..Len(s) -> 1..Len(x)]
          /\ Rises(h, 2..Len(s)) /\ \A k \in 2..Len(s) : s[k] = Read(x[h[k]])
      BY <2>5 DEF Loaded
    <3>2. \A k \in 2..Len(s) : h[k] \in 1..Len(x) /\ g[h[k]] \in 1..Len(t) /\ s[k] = t[g[h[k]]]
      BY <2>4, <3>1
    <3>3. Rises(g, 1..Len(x))
      BY <2>3 DEF Lists
    <3>4. Len(s) \in Nat /\ \A k \in 1..Len(s) : s[k] \in Entry /\ s[k].mask \in Nat /\ s[k].mask <= HostSize
      BY <3>1, TableEntries
    <3> QED
      BY <3>1, <3>2, <3>3, <3>4
  <2>7. ASSUME NEW k \in 1..Len(t), OwnKey(t[k])
        PROVE  s[1] = t[k]
    <3>1. CASE t[k].route = Loopback
      <4>1. t[k] = NewEntry(Own, HostSize, Loopback)
        BY <2>1, <2>7, <3>1 DEF Entry, OwnKey, HasKey, NewEntry
      <4>2. ASSUME NEW p \in 1..Len(x), OwnKey(Read(x[p])) PROVE FALSE
        <5>1. g[p] \in 1..Len(t) /\ SameKey(t[g[p]], t[k])
          BY <2>4, <2>7, <4>2 DEF OwnKey, HasKey, SameKey
        <5>2. g[p] = k
          BY <2>1, <5>1 DEF IsTable
        <5>3. t[g[p]].route # Loopback
          BY <2>3 DEF Lists
        <5> QED
          BY <3>1, <5>2, <5>3
      <4> QED
        BY <2>5, <4>1, <4>2 DEF Loaded
    <3>2. CASE t[k].route # Loopback
      <4>1. PICK p \in 1..Len(x) : g[p] = k
        BY <2>3, <3>2 DEF Lists
      <4>2. Read(x[p]) = t[k]
        BY <2>4, <4>1
      <4>3. CASE \E q \in 2..Len(s) : h[q] = p
        <5>1. PICK q \in 2..Len(s) : h[q] = p
          BY <4>3
        <5>2. SameKey(s[q], s[1]) /\ q \in 1..Len(s) /\ 1 \in 1..Len(s) /\ q # 1
          BY <2>6, <2>7, <4>1, <5>1 DEF OwnKey, HasKey, SameKey
        <5> QED
          BY <2>6, <5>2 DEF IsTable
      <4> QED
        BY <2>5, <4>2, <4>3 DEF Loaded
    <3> QED
      BY <3>1, <3>2
  <2>8. ASSUME NEW k \in 1..Len(t), ~OwnKey(t[k])
        PROVE  \E q \in 2..Len(s) : g[h[q]] = k
    <3>1. PICK p \in 1..Len(x) : g[p] = k
      BY <2>1, <2>3, <2>8 DEF Lists
    <3>2. Read(x[p]) = t[k]
      BY <2>4, <3>1
    <3> QED
      BY <2>5, <2>8, <3>1, <3>2 DEF Loaded
  <2>9. IsRoute(t, a, i) /\ IsRoute(s, a, j)
    BY <2>1, <2>6, RouteFound
  <2>10. /\ FindRoute(t, a) = IF i = 0 THEN NoRoute ELSE t[i].route
         /\ FindRoute(s, a) = IF j = 0 THEN NoRoute ELSE s[j].route
    BY DEF FindRoute
  <2> HIDE DEF t, x, s, i, j
  <2>11. ASSUME Covers(s[1], a) PROVE a = Own
    <3>1. s[1] \in Entry /\ s[1].address = Own /\ s[1].mask = HostSize
      BY <2>6 DEF OwnKey, HasKey
    <3> QED
      BY <2>1, <2>11, <3>1, HostCovers
  <2>12. \A k \in 1..Len(s) : k = 1 \/ k \in 2..Len(s)
    BY <2>6
  <2>13. CASE i = 0
    <3>1. \A k \in 1..Len(t) : ~Covers(t[k], a)
      BY <2>9, <2>13 DEF IsRoute
    <3>2. ~Covers(s[1], a)
      BY <2>2, <2>7, <2>11, <3>1
    <3>3. \A k \in 1..Len(s) : ~Covers(s[k], a)
      BY <2>6, <2>12, <3>1, <3>2
    <3>4. j = 0
      BY <2>6, <2>9, <3>3 DEF IsRoute
    <3> QED
      BY <2>10, <2>13, <3>4 DEF s, t
  <2>14. CASE i # 0
    <3>1. /\ i \in 1..Len(t) /\ Covers(t[i], a)
          /\ \A k \in 1..Len(t) : Covers(t[k], a) =>
               t[k].mask < t[i].mask \/ (t[k].mask = t[i].mask /\ k <= i)
      BY <2>1, <2>9, <2>14 DEF IsRoute
    <3>2. CASE OwnKey(t[i])
      <4>1. s[1] = t[i] /\ 1 \in 1..Len(s) /\ 1 \in 0..Len(s)
        BY <2>6, <2>7, <3>1, <3>2, SMTT(40)
      <4>2. a = Own
        BY <2>11, <3>1, <4>1
      <4>3. ASSUME NEW k \in 1..Len(s), Covers(s[k], a)
            PROVE  s[k].mask < s[1].mask \/ (s[k].mask = s[1].mask /\ k <= 1)
        <5>1. s[1].mask = HostSize /\ s[k] \in Entry
          BY <2>6 DEF OwnKey, HasKey
        <5>2. CASE s[k].mask = HostSize
          <6>1. s[k].address = a
            BY <2>1, <4>3, <5>1, <5>2, HostCovers
          <6>2. SameKey(s[k], s[1])
            BY <2>6, <4>2, <5>2, <6>1 DEF OwnKey, HasKey, SameKey
          <6>3. k = 1
            BY <2>6, <4>1, <6>2 DEF IsTable
          <6> QED
            BY <6>3
        <5>3. CASE s[k].mask # HostSize
          BY <2>6, <5>1, <5>3, Ranges
        <5> QED
          BY <5>2, <5>3
      <4>4. IsRoute(s, a, 1)
        BY <3>1, <4>1, <4>3 DEF IsRoute
      <4>5. j = 1
        BY <2>6, <2>9, <4>4, OneRoute
      <4> QED
        BY <2>10, <2>14, <4>1, <4>5 DEF s, t
    <3>3. CASE ~OwnKey(t[i])
      <4>1. PICK q \in 2..Len(s) : g[h[q]] = i
        BY <2>8, <3>1, <3>3
      <4>2. s[q] = t[i] /\ q \in 1..Len(s) /\ q \in 0..Len(s) /\ q # 0
        BY <2>6, <4>1
      <4>3. ~Covers(s[1], a)
        <5> SUFFICES ASSUME Covers(s[1], a) PROVE FALSE
          OBVIOUS
        <5>1. a = Own
          BY <2>11
        <5>2. PICK k \in 1..Len(t) : OwnKey(t[k])
          BY <2>2, <5>1
        <5>3. s[1] = t[k] /\ Covers(t[k], a) /\ t[k].mask = HostSize
          BY <2>7, <5>2 DEF OwnKey, HasKey
        <5>4. t[i].mask = HostSize
          <6>1. t[k].mask < t[i].mask \/ t[k].mask = t[i].mask
            BY <3>1, <5>3
          <6> QED
            BY <2>1, <3>1, <5>3, <6>1, Ranges
        <5>5. t[i].address = a
          BY <2>1, <3>1, <5>4, HostCovers
        <5> QED
          BY <3>3, <5>1, <5>4, <5>5 DEF OwnKey, HasKey
      <4>4. ASSUME NEW k \in 1..Len(s), Covers(s[k], a)
            PROVE  s[k].mask < s[q].mask \/ (s[k].mask = s[q].mask /\ k <= q)
        <5>1. k \in 2..Len(s)
          BY <2>12, <4>3, <4>4
        <5>2. s[k] = t[g[h[k]]] /\ g[h[k]] \in 1..Len(t)
          BY <2>6, <5>1
        <5>3. t[g[h[k]]].mask < t[i].mask \/ (t[g[h[k]]].mask = t[i].mask /\ g[h[k]] <= i)
          BY <3>1, <4>4, <5>2
        <5>4. ASSUME q < k PROVE i < g[h[k]]
          <6>1. h[q] \in 1..Len(x) /\ h[k] \in 1..Len(x) /\ h[q] < h[k]
            BY <2>6, <4>1, <5>1, <5>4 DEF Rises
          <6>2. g[h[q]] < g[h[k]]
            BY <2>6, <6>1 DEF Rises
          <6> QED
            BY <4>1, <6>2
        <5>5. k \in Int /\ q \in Int /\ i \in Int /\ g[h[k]] \in Int
          BY <3>1, <5>2
        <5>6. g[h[k]] <= i => k <= q
          BY <5>4, <5>5
        <5> QED
          BY <4>2, <5>2, <5>3, <5>6
      <4>5. Covers(s[q], a)
        BY <3>1, <4>2
      <4>6. IsRoute(s, a, q)
        BY <4>2, <4>4, <4>5 DEF IsRoute
      <4>7. j = q
        BY <2>6, <2>9, <4>6, OneRoute
      <4> QED
        BY <2>10, <2>14, <4>2, <4>7 DEF s, t
    <3> QED
      BY <3>2, <3>3
  <2> QED
    BY <2>13, <2>14
<1>2. RtInit => RoutesInv
  BY RoutesInit
<1>3. RoutesInv /\ [RtNext]_rtVars => RoutesInv'
  BY RoutesStep
<1> QED
  BY <1>1, <1>2, <1>3, PTL DEF RtSpec

=============================================================================
