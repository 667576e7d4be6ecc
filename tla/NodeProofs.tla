------------------------------ MODULE NodeProofs ------------------------------
(***************************************************************************)
(* Proofs about module Node for any number of clients, calls, buffers and  *)
(* slots that NodeAssumption allows: no packet is lost or held twice, no   *)
(* slot leaks or has two owners, the router wakes for every packet, and a  *)
(* client finds the answer to its own request.                             *)
(***************************************************************************)
EXTENDS Node, FiniteSetTheorems, SequenceTheorems, WellFoundedInduction, TLAPS

Ports == ServerPort + 1..PortMax
NumBuffers == Cardinality(Buffers)
Used == Buffers \ free

Elems(q) == {q[i] : i \in 1..Len(q)}
NoRepeat(q) == \A i, j \in 1..Len(q) : q[i] = q[j] => i = j

\* For queues of packets, one for each priority: the packets in them, and that
\* no two places hold the same.
All(q) == UNION {Elems(q[p]) : p \in Prios}
Apart(q) ==
  /\ \A p \in Prios : NoRepeat(q[p])
  /\ \A p, r \in Prios : \A b \in Elems(q[p]) : b \in Elems(q[r]) => p = r

InFifo == All(qfifo)

----------------------------------------------------------------------------
\* Types, and where a task has a connection and a packet

Calling == Clients \X Nat
Packet == [id : Nat \X Nat, pri : Nat, call : Calling \cup {NoId}, reply : BOOLEAN]
Conn == [open : BOOLEAN, client : BOOLEAN, id : Nat \X Nat, post : BOOLEAN,
         rx : [Prios -> Seq(Buffers)], events : Nat]
ClientAts == {"idle", "new", "flushed", "connected", "sent", "read", "event", "close", "closing"}
ServerAts == {"accept", "read", "event", "serve", "replied", "close", "closing"}
RouterAts == {"wait", "find", "new", "flushed", "put", "event", "post"}
MaybeSlot == SlotIds \cup {None}
MaybeBuffer == Buffers \cup {None}
Client == [at : ClientAts, call : Nat, slot : MaybeSlot, buf : MaybeBuffer]

PoolType ==
  /\ free \subseteq Buffers
  /\ content \in [Buffers -> Packet]
  /\ qfifo \in [Prios -> Seq(Buffers)] /\ qfifoEvents \in Nat
ConnType ==
  /\ conn \in [SlotIds -> Conn]
  /\ lastGiven \in SlotIds
  /\ accepting \in Seq(SlotIds)
TaskType ==
  /\ client \in [Clients -> Client]
  /\ server \in [at : ServerAts, slot : MaybeSlot, buf : MaybeBuffer]
  /\ router \in [at : RouterAts, slot : MaybeSlot, buf : MaybeBuffer]
  /\ sport \in Nat /\ timedOut \in BOOLEAN

Shape ==
  /\ \A c \in Clients : /\ client[c].slot = None <=> client[c].at = "idle"
                        /\ client[c].buf # None => client[c].at = "close"
  /\ server.slot = None <=> server.at = "accept"
  /\ server.buf # None <=> server.at = "serve"
  /\ router.slot # None <=> router.at \in {"new", "flushed", "put", "event", "post"}
  /\ router.buf # None <=> router.at \in {"find", "new", "flushed", "put", "event"}

TypeInv == PoolType /\ ConnType /\ TaskType /\ Shape

\* conn_lock is held by at most one task, and what it closes is closed.
Locks ==
  /\ \A c \in Clients : client[c].at = "closing" =>
       /\ ~conn[client[c].slot].open
       /\ server.at # "closing" /\ \A d \in Clients : client[d].at = "closing" => c = d
  /\ server.at = "closing" => ~conn[server.slot].open

\* A connection whose socket has not been told of it is the router's.
Flags ==
  /\ \A s \in SlotIds : conn[s].client <=> s # Socket
  /\ \A s \in SlotIds : conn[s].open /\ conn[s].post =>
       router.slot = s /\ router.at \in {"put", "event", "post"}
  /\ router.slot # Socket

Queues ==
  /\ NoRepeat(accepting) /\ Apart(qfifo)
  /\ \A s \in SlotIds : Apart(conn[s].rx)

----------------------------------------------------------------------------
\* Who owns a slot, and where a packet is

ServerHas(s) == server.slot = s /\ server.at # "closing"
ClientHas(c, s) == client[c].slot = s /\ client[c].at # "closing"
ServerSide(s) == ServerHas(s) \/ RouterOwns(s) \/ s \in Elems(accepting)

Tags ==
  {<<"socket", 0>>, <<"server", 0>>, <<"router", 0>>, <<"accepting", 0>>, <<"nobody", 0>>}
  \cup {<<"client", c>> : c \in Clients}
OwnedBy(s, x) ==
  /\ s = Socket <=> x = <<"socket", 0>>
  /\ ServerHas(s) <=> x = <<"server", 0>>
  /\ RouterOwns(s) <=> x = <<"router", 0>>
  /\ \A c \in Clients : ClientHas(c, s) <=> x = <<"client", c>>
  /\ s \in Elems(accepting) <=> x = <<"accepting", 0>>
  /\ ~conn[s].open <=> x = <<"nobody", 0>>
Owned == \A s \in SlotIds : \E x \in Tags : OwnedBy(s, x)

Spots ==
  {<<"free", 0>>, <<"router", 0>>, <<"server", 0>>, <<"fifo", 0>>}
  \cup {<<"client", c>> : c \in Clients} \cup {<<"conn", s>> : s \in SlotIds}
HeldAt(b, x) ==
  /\ b \in free <=> x = <<"free", 0>>
  /\ router.buf = b /\ router.at # "event" <=> x = <<"router", 0>>
  /\ server.buf = b <=> x = <<"server", 0>>
  /\ b \in InFifo <=> x = <<"fifo", 0>>
  /\ \A c \in Clients : client[c].buf = b <=> x = <<"client", c>>
  /\ \A s \in SlotIds : b \in Queued(s) <=> x = <<"conn", s>>
Held == \A b \in Buffers : \E x \in Spots : HeldAt(b, x)

----------------------------------------------------------------------------
\* How many events a connection can have.  The router stores a packet and then
\* its event; a reader takes an event and then a packet.

Storing(s) == IF router.slot = s /\ router.at \in {"put", "event"} THEN 1 ELSE 0
Stored(s) == IF router.slot = s /\ router.at = "event" THEN 1 ELSE 0
Taking(s) ==
  IF \/ server.slot = s /\ server.at = "event"
     \/ \E c \in Clients : client[c].slot = s /\ client[c].at = "event"
  THEN 1 ELSE 0
Debt(s) == conn[s].events + Stored(s) + Taking(s)
Count(s) == Cardinality(Queued(s))

\* The port of the client that a packet is from or for, and the packets that
\* the router may yet find to be for the client of connection s.
Port(id) == IF id[1] = ServerPort THEN id[2] ELSE id[1]
InFlight(s) ==
  {b \in Used : /\ Port(content[b].id) = conn[s].id[2]
                /\ \A c \in Clients : client[c].buf # b
                /\ b \notin Queued(s)
                /\ ~(router.buf = b /\ router.at = "put" /\ router.slot = s)}

Opening(c, s) == client[c].slot = s /\ client[c].at \in {"new", "flushed"}
Working(c, s) == client[c].slot = s /\ client[c].at \notin {"new", "flushed", "closing"}
Vacant(s) == ~conn[s].open /\ server.slot # s /\ \A c \in Clients : client[c].slot # s
SlotBounds(s) ==
  /\ Vacant(s) => conn[s].events + Storing(s) <= 1
  /\ ~conn[s].open => conn[s].events + Storing(s) <= NumBuffers + 1
  /\ ServerHas(s) \/ s \in Elems(accepting) => Debt(s) <= Count(s) + 1
  /\ RouterOwns(s) => conn[s].events <= IF router.at \in {"put", "event"} THEN 0 ELSE 1
  /\ \A c \in Clients :
       /\ Opening(c, s) => conn[s].events + Storing(s) + Cardinality(InFlight(s)) <= NumBuffers + 1
       /\ Working(c, s) => Debt(s) <= Count(s) + 1
Bounds == \A s \in SlotIds : SlotBounds(s)

----------------------------------------------------------------------------
\* Whose packets are whose

ConnIds ==
  /\ \A s \in SlotIds : \A c \in Clients : ClientHas(c, s) =>
       conn[s].id[1] = ServerPort /\ conn[s].id[2] \in Ports
  /\ \A s \in SlotIds : ServerSide(s) =>
       conn[s].id[2] = ServerPort /\ conn[s].id[1] \in Ports
  /\ \A c, d \in Clients, s, u \in SlotIds :
       ClientHas(c, s) /\ ClientHas(d, u) /\ conn[s].id[2] = conn[u].id[2] => s = u

PacketOK(k) ==
  /\ IF k.reply THEN k.id[1] = ServerPort /\ k.id[2] \in Ports
                ELSE k.id[2] = ServerPort /\ k.id[1] \in Ports
  /\ k.pri \in Prios /\ k.call[1] \in Clients /\ k.call[2] <= client[k.call[1]].call
  /\ k.call[2] = client[k.call[1]].call =>
       client[k.call[1]].at \notin {"new", "flushed", "connected"}

\* What the server and its connections hold is for them.
PacketIds ==
  /\ \A b \in Used : PacketOK(content[b])
  /\ \A s \in SlotIds : ServerSide(s) /\ ~(router.slot = s /\ router.at = "new") =>
       \A b \in Queued(s) : content[b].id = conn[s].id
  /\ router.at \in {"new", "flushed"} => content[router.buf].id = conn[router.slot].id
  /\ router.at = "put" /\ ServerSide(router.slot) => content[router.buf].id = conn[router.slot].id
  /\ server.at = "serve" => content[server.buf].id = conn[server.slot].id

\* While a call is not over its packet is not found in another's hands.
Hers(b, d) ==
  /\ Port(content[b].id) = conn[client[d].slot].id[2]
  /\ content[b].reply =>
       /\ server.buf # b
       /\ \A c \in Clients : client[c].buf = b => c = d
       /\ \A s \in SlotIds : b \in Queued(s) => s = client[d].slot
       /\ router.at = "put" /\ router.buf = b => router.slot = client[d].slot
Mine == \A b \in Used : ~Over(content[b].call) => Hers(b, content[b].call[1])

\* Until a csp_read times out there is at most one packet of a client, and it
\* is of the call that is running.
HasNone(c) ==
  \/ client[c].at \in {"idle", "new", "flushed", "connected", "closing"}
  \/ client[c].at = "close" /\ client[c].buf = None
InTime ==
  /\ \A b \in Used : ~Over(content[b].call)
  /\ \A b, x \in Used : content[b].call[1] = content[x].call[1] => b = x
  /\ \A c \in Clients : HasNone(c) => \A b \in Used : content[b].call[1] # c
  /\ \A s \in SlotIds : ~conn[s].open => conn[s].events = 0 /\ Storing(s) = 0 /\ Queued(s) = {}
  /\ \A s \in SlotIds : conn[s].open => Debt(s) <= Count(s)
  /\ router.at = "put" => conn[router.slot].id = content[router.buf].id
  /\ router.at \in {"new", "flushed"} => Queued(router.slot) = {}
  /\ \A b \in Used : ~content[b].reply =>
       /\ \A c \in Clients : client[c].buf # b
       /\ \A s \in SlotIds : b \in Queued(s) => ServerSide(s)
  /\ server.at \notin {"close", "closing"}
NoTimeout == ~timedOut => InTime

\* What of it must hold together
Storage == TypeInv /\ Locks /\ Flags /\ Queues /\ Owned /\ Held
NodeInv == Storage /\ Bounds /\ FifoWakes /\ ConnIds /\ PacketIds /\ Mine /\ NoTimeout

----------------------------------------------------------------------------
\* Sequences

LEMMA LeastNumber ==
  ASSUME NEW T, T \subseteq Nat, T # {}
  PROVE  \E x \in T : \A y \in T : x <= y
<1> DEFINE R == OpToRel(<, Nat)
<1>1. IsWellFoundedOn(R, Nat)
  BY NatLessThanWellFounded
<1>2. \A x, y \in Nat : x < y <=> <<x, y>> \in R
  BY DEF OpToRel
<1> HIDE DEF R
<1>3. \E x \in T : \A y \in T : ~(<<y, x>> \in R)
  BY <1>1, WFMin
<1>4. PICK x \in T : \A y \in T : ~(y < x)
  BY <1>2, <1>3
<1> QED
  BY <1>4

LEMMA AppendElems ==
  ASSUME NEW S, NEW q \in Seq(S), NEW x \in S
  PROVE  /\ Append(q, x) \in Seq(S)
         /\ Elems(Append(q, x)) = Elems(q) \cup {x}
         /\ NoRepeat(q) /\ x \notin Elems(q) => NoRepeat(Append(q, x))
<1> DEFINE a == Append(q, x)
<1>1. a \in Seq(S) /\ Len(q) \in Nat /\ Len(a) = Len(q) + 1 /\ a[Len(q) + 1] = x
      /\ \A i \in 1..Len(q) : a[i] = q[i]
  OBVIOUS
<1> HIDE DEF a
<1>2. \A i \in 1..Len(a) : i \in 1..Len(q) \/ i = Len(q) + 1
  BY <1>1
<1>3. \A i \in 1..Len(q) : i \in 1..Len(a)
  BY <1>1
<1>4. Len(q) + 1 \in 1..Len(a)
  BY <1>1
<1>5. Elems(a) = Elems(q) \cup {x}
  <2>1. \A y \in Elems(a) : y \in Elems(q) \cup {x}
    BY <1>1, <1>2 DEF Elems
  <2>2. \A y \in Elems(q) \cup {x} : y \in Elems(a)
    BY <1>1, <1>3, <1>4 DEF Elems
  <2> QED
    BY <2>1, <2>2
<1>6. ASSUME NoRepeat(q), x \notin Elems(q) PROVE NoRepeat(a)
  <2> SUFFICES ASSUME NEW i \in 1..Len(a), NEW j \in 1..Len(a), a[i] = a[j] PROVE i = j
    BY DEF NoRepeat
  <2>1. \A k \in 1..Len(q) : q[k] # x
    BY <1>6 DEF Elems
  <2>2. CASE i \in 1..Len(q) /\ j \in 1..Len(q)
    BY <1>1, <1>6, <2>2 DEF NoRepeat
  <2> QED
    BY <1>1, <1>2, <2>1, <2>2
<1> QED
  BY <1>1, <1>5, <1>6 DEF a

LEMMA TailElems ==
  ASSUME NEW S, NEW q \in Seq(S), q # <<>>
  PROVE  /\ Tail(q) \in Seq(S) /\ Head(q) \in Elems(q) /\ Head(q) \in S
         /\ Elems(Tail(q)) \subseteq Elems(q)
         /\ Elems(q) \subseteq Elems(Tail(q)) \cup {Head(q)}
         /\ NoRepeat(q) => /\ NoRepeat(Tail(q))
                           /\ Elems(Tail(q)) = Elems(q) \ {Head(q)}
<1> DEFINE t == Tail(q)
<1>1. t \in Seq(S) /\ Len(q) \in Nat /\ Len(q) > 0 /\ Len(t) = Len(q) - 1 /\ Head(q) = q[1]
      /\ \A i \in 1..Len(t) : t[i] = q[i + 1]
  OBVIOUS
<1>2. Head(q) \in S
  OBVIOUS
<1> HIDE DEF t
<1>3. \A i \in 1..Len(t) : i + 1 \in 1..Len(q) /\ i + 1 # 1
  BY <1>1
<1>4. \A i \in 1..Len(q) : i # 1 => i - 1 \in 1..Len(t) /\ t[i - 1] = q[i]
  BY <1>1
<1>5. Head(q) \in Elems(q) /\ 1 \in 1..Len(q)
  BY <1>1 DEF Elems
<1>6. Elems(t) \subseteq Elems(q)
  BY <1>1, <1>3 DEF Elems
<1>7. Elems(q) \subseteq Elems(t) \cup {Head(q)}
  <2> SUFFICES ASSUME NEW i \in 1..Len(q), i # 1 PROVE q[i] \in Elems(t)
    BY <1>1 DEF Elems
  <2> QED
    BY <1>4 DEF Elems
<1>8. ASSUME NoRepeat(q) PROVE NoRepeat(t) /\ Head(q) \notin Elems(t)
  <2>1. ASSUME NEW i \in 1..Len(t), NEW j \in 1..Len(t), t[i] = t[j] PROVE i = j
    <3>1. i + 1 = j + 1
      BY <1>1, <1>3, <1>8, <2>1 DEF NoRepeat
    <3> QED
      BY <3>1
  <2>2. ASSUME NEW i \in 1..Len(t), t[i] = Head(q) PROVE FALSE
    BY <1>1, <1>3, <1>5, <1>8, <2>2 DEF NoRepeat
  <2> QED
    BY <2>1, <2>2 DEF NoRepeat, Elems
<1> QED
  BY <1>1, <1>2, <1>5, <1>6, <1>7, <1>8 DEF t

LEMMA BuffersFinite ==
  /\ IsFiniteSet(Buffers) /\ NumBuffers \in Nat
  /\ NumBuffers <= FifoLength /\ NumBuffers < QueueLength
  /\ {FifoLength, QueueLength, Backlog} \subseteq Nat
  /\ None \notin Buffers /\ Buffers \subseteq Nat
  /\ IsFiniteSet(Clients) /\ Slots \in Nat /\ Slots > 1
  /\ ServerPort \in Nat /\ PortMax \in Nat
<1>1. IsFiniteSet(Buffers) /\ NumBuffers \in Nat
  BY NodeAssumption, FS_CardinalityType DEF NumBuffers
<1> QED
  BY <1>1, NodeAssumption DEF None, NumBuffers

LEMMA LenElems ==
  ASSUME NEW q \in Seq(Buffers), NoRepeat(q)
  PROVE  Cardinality(Elems(q)) = Len(q) /\ Len(q) <= NumBuffers
<1>1. Len(q) \in Nat /\ Elems(q) \subseteq Buffers
  BY DEF Elems
<1>2. IsFiniteSet(Elems(q)) /\ Cardinality(Elems(q)) <= NumBuffers
  BY <1>1, BuffersFinite, FS_Subset DEF NumBuffers
<1>3. IsFiniteSet(1..Len(q)) /\ Cardinality(1..Len(q)) = Len(q)
  <2>1. 1 \in Int /\ Len(q) \in Int
    BY <1>1
  <2>2. IsFiniteSet(1..Len(q)) /\ Cardinality(1..Len(q)) = IF 1 > Len(q) THEN 0 ELSE Len(q) - 1 + 1
    BY <2>1, FS_Interval
  <2> QED
    BY <1>1, <2>2
<1>4. Cardinality(Elems(q)) = Len(q)
  <2> DEFINE f == [i \in 1..Len(q) |-> q[i]]
  <2>1. f \in [1..Len(q) -> Elems(q)]
    BY DEF Elems
  <2>2. \A y \in Elems(q) : \E i \in 1..Len(q) : f[i] = y
    BY DEF Elems
  <2>3. \A i, j \in 1..Len(q) : f[i] = f[j] => i = j
    BY DEF NoRepeat
  <2> HIDE DEF f
  <2>4. f \in Injection(1..Len(q), Elems(q))
    BY <2>1, <2>3 DEF Injection, IsInjective
  <2>5. f \in Surjection(1..Len(q), Elems(q))
    BY <2>1, <2>2 DEF Surjection
  <2> QED
    BY <1>2, <1>3, <2>4, <2>5, FS_Injection
<1> QED
  BY <1>1, <1>2, <1>4

----------------------------------------------------------------------------
\* Queues of packets, one for each priority

LEMMA AllElems ==
  ASSUME NEW q, NEW b
  PROVE  b \in All(q) <=> \E p \in Prios : b \in Elems(q[p])
BY DEF All

LEMMA AllBuffers ==
  ASSUME NEW q \in [Prios -> Seq(Buffers)]
  PROVE  /\ All(q) \subseteq Buffers /\ IsFiniteSet(All(q))
         /\ Cardinality(All(q)) \in Nat /\ Cardinality(All(q)) <= NumBuffers
<1>1. \A p \in Prios : Elems(q[p]) \subseteq Buffers
  BY DEF Elems
<1>2. All(q) \subseteq Buffers
  BY <1>1 DEF All
<1> QED
  BY <1>2, BuffersFinite, FS_Subset, FS_CardinalityType DEF NumBuffers

LEMMA AllEmpty ==
  /\ EmptyRx \in [Prios -> Seq(Buffers)] /\ Apart(EmptyRx) /\ All(EmptyRx) = {}
<1>1. EmptyRx \in [Prios -> Seq(Buffers)] /\ \A p \in Prios : EmptyRx[p] = <<>>
  BY DEF EmptyRx
<1>2. Elems(<<>>) = {} /\ NoRepeat(<<>>)
  BY DEF Elems, NoRepeat
<1>3. All(EmptyRx) = {}
  BY <1>1, <1>2 DEF All
<1> QED
  BY <1>1, <1>2, <1>3 DEF Apart

LEMMA ArrayPut ==
  ASSUME NEW q \in [Prios -> Seq(Buffers)], Apart(q), NEW p \in Prios,
         NEW b \in Buffers, b \notin All(q), NEW t, t = [q EXCEPT ![p] = Append(@, b)]
  PROVE  /\ t \in [Prios -> Seq(Buffers)] /\ Apart(t)
         /\ All(t) = All(q) \cup {b} /\ t # q
         /\ Len(q[p]) < NumBuffers
<1>1. /\ t \in [Prios -> Seq(Buffers)]
      /\ t[p] = Append(q[p], b) /\ \A r \in Prios : r # p => t[r] = q[r]
      /\ \A r \in Prios : q[r] \in Seq(Buffers)
  OBVIOUS
<1>2. \A r \in Prios : b \notin Elems(q[r])
  BY AllElems
<1>3. /\ NoRepeat(t[p]) /\ Elems(t[p]) = Elems(q[p]) \cup {b}
      /\ \A r \in Prios : r # p => Elems(t[r]) = Elems(q[r]) /\ NoRepeat(t[r])
  BY <1>1, <1>2, AppendElems DEF Apart
<1>4. Apart(t)
  BY <1>2, <1>3 DEF Apart
<1>5. All(t) = All(q) \cup {b}
  <2>1. \A x : x \in All(t) <=> x \in All(q) \cup {b}
    BY <1>3, AllElems
  <2> QED
    BY <2>1
<1>6. Len(q[p]) < NumBuffers
  <2>1. Cardinality(Elems(t[p])) = Len(t[p]) /\ Len(t[p]) <= NumBuffers
    BY <1>1, <1>3, LenElems
  <2>2. Len(t[p]) = Len(q[p]) + 1 /\ Len(q[p]) \in Nat
    BY <1>1
  <2> QED
    BY <2>1, <2>2, BuffersFinite
<1>7. t # q
  BY <1>5
<1> QED
  BY <1>1, <1>4, <1>5, <1>6, <1>7

LEMMA ArrayTake ==
  ASSUME NEW q \in [Prios -> Seq(Buffers)], Apart(q), NEW p \in Prios, q[p] # <<>>,
         NEW t, t = [q EXCEPT ![p] = Tail(@)]
  PROVE  /\ t \in [Prios -> Seq(Buffers)] /\ Apart(t)
         /\ Head(q[p]) \in Buffers /\ Head(q[p]) \in All(q)
         /\ All(t) = All(q) \ {Head(q[p])}
<1>1. /\ \A r \in Prios : q[r] \in Seq(Buffers)
      /\ t[p] = Tail(q[p]) /\ \A r \in Prios : r # p => t[r] = q[r]
  OBVIOUS
<1>2. /\ t[p] \in Seq(Buffers) /\ NoRepeat(t[p]) /\ Elems(t[p]) = Elems(q[p]) \ {Head(q[p])}
      /\ Head(q[p]) \in Elems(q[p]) /\ Head(q[p]) \in Buffers
      /\ \A r \in Prios : r # p => Elems(t[r]) = Elems(q[r]) /\ NoRepeat(t[r])
  BY <1>1, TailElems DEF Apart
<1>3. t \in [Prios -> Seq(Buffers)]
  BY <1>1, <1>2
<1>4. \A r \in Prios : r # p => Head(q[p]) \notin Elems(q[r])
  BY <1>2 DEF Apart
<1>5. Apart(t)
  BY <1>2 DEF Apart
<1>6. All(t) = All(q) \ {Head(q[p])}
  <2> DEFINE h == Head(q[p])
  <2>1. /\ Elems(t[p]) = Elems(q[p]) \ {h} /\ h \in Elems(q[p])
        /\ \A r \in Prios : r # p => Elems(t[r]) = Elems(q[r]) /\ h \notin Elems(t[r])
    BY <1>2, <1>4
  <2> HIDE DEF h
  <2>2. \A x : x \in All(t) <=> x \in All(q) \ {h}
    BY <2>1, AllElems
  <2> QED
    BY <2>2 DEF h
<1> QED
  BY <1>2, <1>3, <1>5, <1>6, AllElems

----------------------------------------------------------------------------
\* What a step does to the connections and to the tasks

\* Slot s has the given fields and packets after the step, and the others are
\* as they were.
Becomes(s, open, id, post, events, held) ==
  /\ conn' \in [SlotIds -> Conn] /\ \A u \in SlotIds : Apart(conn'[u].rx)
  /\ conn'[s].open <=> open
  /\ conn'[s].post <=> post
  /\ conn'[s].client <=> conn[s].client
  /\ conn'[s].id = id /\ conn'[s].events = events
  /\ \A u \in SlotIds : u = s => Queued(u)' = held
  /\ \A u \in SlotIds : u # s => conn'[u] = conn[u] /\ Queued(u)' = Queued(u)

ClientIs(c, at, call, slot, buf) ==
  /\ client' \in [Clients -> Client]
  /\ client'[c].at = at /\ client'[c].call = call /\ client'[c].slot = slot /\ client'[c].buf = buf
  /\ \A d \in Clients : d # c => client'[d] = client[d]
RouterIs(at, slot, buf) ==
  /\ router' \in [at : RouterAts, slot : MaybeSlot, buf : MaybeBuffer]
  /\ router'.at = at /\ router'.slot = slot /\ router'.buf = buf
ServerIs(at, slot, buf) ==
  /\ server' \in [at : ServerAts, slot : MaybeSlot, buf : MaybeBuffer]
  /\ server'.at = at /\ server'.slot = slot /\ server'.buf = buf

LEMMA QueuedAll ==
  ASSUME NEW s \in SlotIds
  PROVE  Queued(s) = All(conn[s].rx) /\ Queued(s)' = All(conn'[s].rx)
BY DEF Queued, All, Elems

LEMMA SlotIdsType ==
  /\ SlotIds \subseteq Nat /\ Socket \in SlotIds /\ None \notin SlotIds
  /\ Prios \subseteq Nat
<1>1. \A c \in Clients : Pri[c] \in Nat
  BY NodeAssumption
<1> QED
  BY <1>1, BuffersFinite DEF SlotIds, Socket, None, Prios

\* The connection as it is after a step that sets the fields of slot s.
LEMMA BecomesIs ==
  ASSUME TypeInv, Queues, NEW s \in SlotIds, NEW r \in Conn, Apart(r.rx),
         r.client = conn[s].client, conn' = [conn EXCEPT ![s] = r]
  PROVE  Becomes(s, r.open, r.id, r.post, r.events, All(r.rx))
<1>1. conn \in [SlotIds -> Conn] /\ \A u \in SlotIds : Apart(conn[u].rx)
  BY DEF TypeInv, ConnType, Queues
<1>2. conn' \in [SlotIds -> Conn]
  BY <1>1
<1>3. conn'[s] = r /\ \A u \in SlotIds : u # s => conn'[u] = conn[u]
  BY <1>1
<1>4. \A u \in SlotIds : Apart(conn'[u].rx)
  BY <1>1, <1>3
<1>5. Queued(s)' = All(r.rx)
  BY <1>3, QueuedAll
<1>6. \A u \in SlotIds : u # s => Queued(u)' = Queued(u)
  BY <1>3, QueuedAll
<1> QED
  BY <1>2, <1>3, <1>4, <1>5, <1>6 DEF Becomes

LEMMA AllocateIs ==
  ASSUME TypeInv, Flags, Queues, NEW s \in SlotIds, s # Socket, ~conn[s].open,
         NEW id \in Nat \X Nat, Allocate(s, id)
  PROVE  /\ Becomes(s, TRUE, id, FALSE, conn[s].events, Queued(s))
         /\ ~Locked /\ lastGiven' = s
<1> DEFINE r == [conn[s] EXCEPT !.open = TRUE, !.client = TRUE, !.post = FALSE, !.id = id]
<1>1. conn \in [SlotIds -> Conn] /\ conn[s] \in Conn
  BY DEF TypeInv, ConnType
<1>2. conn[s].client = TRUE
  <2>1. conn[s].client <=> s # Socket
    BY DEF Flags
  <2>2. conn[s].client \in BOOLEAN
    BY <1>1 DEF Conn
  <2> QED
    BY <2>1, <2>2
<1>3. conn' = [conn EXCEPT ![s] = r]
  BY <1>1 DEF Allocate
<1>4. r \in Conn /\ r.open = TRUE /\ r.client = TRUE /\ r.id = id /\ r.post = FALSE
      /\ r.rx = conn[s].rx /\ r.events = conn[s].events
  BY <1>1 DEF Conn
<1> HIDE DEF r
<1>5. conn[s].rx \in [Prios -> Seq(Buffers)] /\ conn[s].events \in Nat /\ Apart(conn[s].rx)
  BY <1>1 DEF Conn, Queues
<1>6. Becomes(s, TRUE, id, FALSE, conn[s].events, All(conn[s].rx))
  BY <1>2, <1>3, <1>4, <1>5, BecomesIs
<1> QED
  BY <1>6, QueuedAll DEF Allocate

LEMMA ConnFields ==
  ASSUME TypeInv, Queues, NEW s \in SlotIds
  PROVE  /\ conn \in [SlotIds -> Conn] /\ conn[s] \in Conn
         /\ conn[s].open \in BOOLEAN /\ conn[s].id \in Nat \X Nat /\ conn[s].post \in BOOLEAN
         /\ conn[s].rx \in [Prios -> Seq(Buffers)] /\ conn[s].events \in Nat
         /\ Apart(conn[s].rx)
BY DEF TypeInv, ConnType, Conn, Queues

LEMMA FlushPacketsIs ==
  ASSUME TypeInv, Queues, NEW s \in SlotIds,
         FlushPackets(s)
  PROVE  Becomes(s, conn[s].open, conn[s].id, conn[s].post, conn[s].events, {})
<1> DEFINE r == [conn[s] EXCEPT !.rx = EmptyRx]
<1>1. /\ conn \in [SlotIds -> Conn] /\ conn[s] \in Conn
      /\ conn[s].open \in BOOLEAN /\ conn[s].id \in Nat \X Nat /\ conn[s].post \in BOOLEAN
      /\ conn[s].rx \in [Prios -> Seq(Buffers)] /\ conn[s].events \in Nat
      /\ Apart(conn[s].rx) /\ Queued(s) = All(conn[s].rx)
  BY ConnFields, QueuedAll
<1>2. conn' = [conn EXCEPT ![s] = r]
  BY <1>1 DEF FlushPackets
<1>3. EmptyRx \in [Prios -> Seq(Buffers)] /\ Apart(EmptyRx) /\ All(EmptyRx) = {}
  BY AllEmpty
<1>4. /\ r \in Conn /\ r.open = conn[s].open /\ r.id = conn[s].id /\ r.post = conn[s].post /\ r.rx = EmptyRx
      /\ r.events = conn[s].events /\ r.client = conn[s].client
  BY <1>1, <1>3 DEF Conn
<1> HIDE DEF r
<1> QED
  BY <1>1, <1>2, <1>4, <1>3, BecomesIs

LEMMA FlushEventsIs ==
  ASSUME TypeInv, Queues, NEW s \in SlotIds,
         FlushEvents(s)
  PROVE  Becomes(s, conn[s].open, conn[s].id, conn[s].post, 0, Queued(s))
<1> DEFINE r == [conn[s] EXCEPT !.events = 0]
<1>1. /\ conn \in [SlotIds -> Conn] /\ conn[s] \in Conn
      /\ conn[s].open \in BOOLEAN /\ conn[s].id \in Nat \X Nat /\ conn[s].post \in BOOLEAN
      /\ conn[s].rx \in [Prios -> Seq(Buffers)] /\ conn[s].events \in Nat
      /\ Apart(conn[s].rx) /\ Queued(s) = All(conn[s].rx)
  BY ConnFields, QueuedAll
<1>2. conn' = [conn EXCEPT ![s] = r]
  BY <1>1 DEF FlushEvents
<1>4. /\ r \in Conn /\ r.open = conn[s].open /\ r.id = conn[s].id /\ r.post = conn[s].post /\ r.rx = conn[s].rx
      /\ r.events = 0 /\ r.client = conn[s].client
  BY <1>1 DEF Conn
<1> HIDE DEF r
<1> QED
  BY <1>1, <1>2, <1>4, BecomesIs

LEMMA CloseIs ==
  ASSUME TypeInv, Queues, NEW s \in SlotIds,
         NEW held, Close(s, held)
  PROVE  Becomes(s, FALSE, conn[s].id, conn[s].post, conn[s].events, {})
<1> DEFINE r == [conn[s] EXCEPT !.open = FALSE, !.rx = EmptyRx]
<1>1. /\ conn \in [SlotIds -> Conn] /\ conn[s] \in Conn
      /\ conn[s].open \in BOOLEAN /\ conn[s].id \in Nat \X Nat /\ conn[s].post \in BOOLEAN
      /\ conn[s].rx \in [Prios -> Seq(Buffers)] /\ conn[s].events \in Nat
      /\ Apart(conn[s].rx) /\ Queued(s) = All(conn[s].rx)
  BY ConnFields, QueuedAll
<1>2. conn' = [conn EXCEPT ![s] = r]
  BY <1>1 DEF Close
<1>3. EmptyRx \in [Prios -> Seq(Buffers)] /\ Apart(EmptyRx) /\ All(EmptyRx) = {}
  BY AllEmpty
<1>4. /\ r \in Conn /\ r.open = FALSE /\ r.id = conn[s].id /\ r.post = conn[s].post /\ r.rx = EmptyRx
      /\ r.events = conn[s].events /\ r.client = conn[s].client
  BY <1>1, <1>3 DEF Conn
<1> HIDE DEF r
<1> QED
  BY <1>1, <1>2, <1>4, <1>3, BecomesIs

LEMMA RouterCloseIs ==
  ASSUME TypeInv, Queues, NEW s \in SlotIds,
         RouterClose(s)
  PROVE  Becomes(s, FALSE, conn[s].id, conn[s].post, 0, {})
<1> DEFINE r == [conn[s] EXCEPT !.open = FALSE, !.rx = EmptyRx, !.events = 0]
<1>1. /\ conn \in [SlotIds -> Conn] /\ conn[s] \in Conn
      /\ conn[s].open \in BOOLEAN /\ conn[s].id \in Nat \X Nat /\ conn[s].post \in BOOLEAN
      /\ conn[s].rx \in [Prios -> Seq(Buffers)] /\ conn[s].events \in Nat
      /\ Apart(conn[s].rx) /\ Queued(s) = All(conn[s].rx)
  BY ConnFields, QueuedAll
<1>2. conn' = [conn EXCEPT ![s] = r]
  BY <1>1 DEF RouterClose
<1>3. EmptyRx \in [Prios -> Seq(Buffers)] /\ Apart(EmptyRx) /\ All(EmptyRx) = {}
  BY AllEmpty
<1>4. /\ r \in Conn /\ r.open = FALSE /\ r.id = conn[s].id /\ r.post = conn[s].post /\ r.rx = EmptyRx
      /\ r.events = 0 /\ r.client = conn[s].client
  BY <1>1, <1>3 DEF Conn
<1> HIDE DEF r
<1> QED
  BY <1>1, <1>2, <1>4, <1>3, BecomesIs

LEMMA ReadEventIs ==
  ASSUME TypeInv, Queues, NEW s \in SlotIds,
         ReadEvent(s)
  PROVE  Becomes(s, conn[s].open, conn[s].id, conn[s].post, conn[s].events - 1, Queued(s))
<1>1. /\ conn \in [SlotIds -> Conn] /\ conn[s] \in Conn
      /\ conn[s].events \in Nat /\ Apart(conn[s].rx) /\ Queued(s) = All(conn[s].rx)
  BY ConnFields, QueuedAll
<1>2. PICK e : e = conn[s].events - 1
  OBVIOUS
<1>3. e \in Nat
  BY <1>1, <1>2 DEF ReadEvent
<1>4. PICK r : r = [conn[s] EXCEPT !.events = e]
  OBVIOUS
<1>5. conn' = [conn EXCEPT ![s] = r]
  BY <1>1, <1>2, <1>4 DEF ReadEvent
<1>6. /\ r \in Conn /\ r.open = conn[s].open /\ r.id = conn[s].id /\ r.post = conn[s].post /\ r.rx = conn[s].rx
      /\ r.events = e /\ r.client = conn[s].client
  BY <1>1, <1>3, <1>4 DEF Conn
<1>7. Becomes(s, r.open, r.id, r.post, r.events, All(r.rx))
  BY <1>1, <1>5, <1>6, BecomesIs
<1> QED
  BY <1>1, <1>2, <1>6, <1>7

LEMMA PostedIs ==
  ASSUME TypeInv, Queues, NEW s \in SlotIds,
         Posted(s)
  PROVE  Becomes(s, conn[s].open, conn[s].id, FALSE, conn[s].events, Queued(s))
<1> DEFINE r == [conn[s] EXCEPT !.post = FALSE]
<1>1. /\ conn \in [SlotIds -> Conn] /\ conn[s] \in Conn
      /\ conn[s].open \in BOOLEAN /\ conn[s].id \in Nat \X Nat /\ conn[s].post \in BOOLEAN
      /\ conn[s].rx \in [Prios -> Seq(Buffers)] /\ conn[s].events \in Nat
      /\ Apart(conn[s].rx) /\ Queued(s) = All(conn[s].rx)
  BY ConnFields, QueuedAll
<1>2. conn' = [conn EXCEPT ![s] = r]
  BY <1>1 DEF Posted
<1>4. /\ r \in Conn /\ r.open = conn[s].open /\ r.id = conn[s].id /\ r.post = FALSE /\ r.rx = conn[s].rx
      /\ r.events = conn[s].events /\ r.client = conn[s].client
  BY <1>1 DEF Conn
<1> HIDE DEF r
<1> QED
  BY <1>1, <1>2, <1>4, BecomesIs

LEMMA EventIs ==
  ASSUME TypeInv, Queues, NEW s \in SlotIds,
         conn' = [conn EXCEPT ![s].events = @ + 1]
  PROVE  Becomes(s, conn[s].open, conn[s].id, conn[s].post, conn[s].events + 1, Queued(s))
<1>1. /\ conn \in [SlotIds -> Conn] /\ conn[s] \in Conn
      /\ conn[s].events \in Nat /\ Apart(conn[s].rx) /\ Queued(s) = All(conn[s].rx)
  BY ConnFields, QueuedAll
<1>2. PICK e : e = conn[s].events + 1
  OBVIOUS
<1>3. e \in Nat
  BY <1>1, <1>2
<1>4. PICK r : r = [conn[s] EXCEPT !.events = e]
  OBVIOUS
<1>5. conn' = [conn EXCEPT ![s] = r]
  BY <1>1, <1>2, <1>4
<1>6. /\ r \in Conn /\ r.open = conn[s].open /\ r.id = conn[s].id /\ r.post = conn[s].post /\ r.rx = conn[s].rx
      /\ r.events = e /\ r.client = conn[s].client
  BY <1>1, <1>3, <1>4 DEF Conn
<1>7. Becomes(s, r.open, r.id, r.post, r.events, All(r.rx))
  BY <1>1, <1>5, <1>6, BecomesIs
<1> QED
  BY <1>1, <1>2, <1>6, <1>7

LEMMA StoreSocketIs ==
  ASSUME TypeInv, Queues, NEW s \in SlotIds,
         conn' = [conn EXCEPT ![s].events = 0, ![s].post = TRUE]
  PROVE  Becomes(s, conn[s].open, conn[s].id, TRUE, 0, Queued(s))
<1> DEFINE r == [conn[s] EXCEPT !.events = 0, !.post = TRUE]
<1>1. /\ conn \in [SlotIds -> Conn] /\ conn[s] \in Conn
      /\ conn[s].open \in BOOLEAN /\ conn[s].id \in Nat \X Nat /\ conn[s].post \in BOOLEAN
      /\ conn[s].rx \in [Prios -> Seq(Buffers)] /\ conn[s].events \in Nat
      /\ Apart(conn[s].rx) /\ Queued(s) = All(conn[s].rx)
  BY ConnFields, QueuedAll
<1>2. conn' = [conn EXCEPT ![s] = r]
  BY <1>1
<1>4. /\ r \in Conn /\ r.open = conn[s].open /\ r.id = conn[s].id /\ r.post = TRUE /\ r.rx = conn[s].rx
      /\ r.events = 0 /\ r.client = conn[s].client
  BY <1>1 DEF Conn
<1> HIDE DEF r
<1>5. Becomes(s, r.open, r.id, r.post, r.events, All(r.rx))
  BY <1>1, <1>2, <1>4, BecomesIs
<1> QED
  BY <1>1, <1>4, <1>5

LEMMA PutIs ==
  ASSUME TypeInv, Queues, NEW s \in SlotIds, NEW p \in Prios, NEW b \in Buffers, b \notin Queued(s),
         conn' = [conn EXCEPT ![s].rx[p] = Append(@, b)]
  PROVE  Becomes(s, conn[s].open, conn[s].id, conn[s].post, conn[s].events, Queued(s) \cup {b})
<1>1. /\ conn \in [SlotIds -> Conn] /\ conn[s] \in Conn
      /\ conn[s].rx \in [Prios -> Seq(Buffers)]
      /\ Apart(conn[s].rx) /\ Queued(s) = All(conn[s].rx)
  BY ConnFields, QueuedAll
<1>2. PICK q : q = conn[s].rx
  OBVIOUS
<1>3. PICK rx : rx = [q EXCEPT ![p] = Append(@, b)]
  OBVIOUS
<1>4. rx \in [Prios -> Seq(Buffers)] /\ Apart(rx) /\ All(rx) = All(q) \cup {b}
  <2>1. q \in [Prios -> Seq(Buffers)] /\ Apart(q) /\ b \notin All(q)
    BY <1>1, <1>2
  <2> QED
    BY <1>3, <2>1, ArrayPut
<1>5. PICK r : r = [conn[s] EXCEPT !.rx = rx]
  OBVIOUS
<1>6. conn' = [conn EXCEPT ![s] = r]
  BY <1>1, <1>2, <1>3, <1>5
<1>7. /\ r \in Conn /\ r.open = conn[s].open /\ r.id = conn[s].id /\ r.post = conn[s].post /\ r.rx = rx
      /\ r.events = conn[s].events /\ r.client = conn[s].client
  BY <1>1, <1>4, <1>5 DEF Conn
<1>8. Becomes(s, r.open, r.id, r.post, r.events, All(r.rx))
  BY <1>4, <1>6, <1>7, BecomesIs
<1> QED
  BY <1>1, <1>2, <1>4, <1>7, <1>8

LEMMA ReadPacketIs ==
  ASSUME TypeInv, Queues, NEW s \in SlotIds, NEW b, ReadPacket(s, b)
  PROVE  /\ Becomes(s, conn[s].open, conn[s].id, conn[s].post, conn[s].events, Queued(s) \ {b})
         /\ b \in Queued(s) /\ b \in Buffers
<1>1. /\ conn \in [SlotIds -> Conn] /\ conn[s] \in Conn
      /\ conn[s].rx \in [Prios -> Seq(Buffers)]
      /\ Apart(conn[s].rx) /\ Queued(s) = All(conn[s].rx)
  BY ConnFields, QueuedAll
<1>2. PICK q : q = conn[s].rx
  OBVIOUS
<1>3. PICK p \in Prios : q[p] # <<>> /\ b = Head(q[p])
                         /\ conn' = [conn EXCEPT ![s].rx[p] = Tail(@)]
  BY <1>2 DEF ReadPacket
<1>4. PICK rx : rx = [q EXCEPT ![p] = Tail(@)]
  OBVIOUS
<1>5. /\ rx \in [Prios -> Seq(Buffers)] /\ Apart(rx) /\ All(rx) = All(q) \ {b}
      /\ b \in All(q) /\ b \in Buffers
  <2>1. q \in [Prios -> Seq(Buffers)] /\ Apart(q)
    BY <1>1, <1>2
  <2> QED
    BY <1>3, <1>4, <2>1, ArrayTake
<1>6. PICK r : r = [conn[s] EXCEPT !.rx = rx]
  OBVIOUS
<1>7. conn' = [conn EXCEPT ![s] = r]
  BY <1>1, <1>2, <1>3, <1>4, <1>6
<1>8. /\ r \in Conn /\ r.open = conn[s].open /\ r.id = conn[s].id /\ r.post = conn[s].post /\ r.rx = rx
      /\ r.events = conn[s].events /\ r.client = conn[s].client
  BY <1>1, <1>5, <1>6 DEF Conn
<1>9. Becomes(s, r.open, r.id, r.post, r.events, All(r.rx))
  BY <1>5, <1>7, <1>8, BecomesIs
<1> QED
  BY <1>1, <1>2, <1>5, <1>8, <1>9

LEMMA ClientStepIs ==
  ASSUME TypeInv, NEW c \in Clients, NEW at \in ClientAts, Step(c, at)
  PROVE  ClientIs(c, at, client[c].call, client[c].slot, client[c].buf)
<1>1. client \in [Clients -> Client]
  BY DEF TypeInv, TaskType
<1>2. client' = [client EXCEPT ![c].at = at]
  BY DEF Step
<1>3. client' \in [Clients -> Client]
  BY <1>1, <1>2 DEF Client
<1> QED
  BY <1>1, <1>2, <1>3 DEF ClientIs, Client

LEMMA ServerStepIs ==
  ASSUME TypeInv, NEW at \in ServerAts, ServerAt(at)
  PROVE  ServerIs(at, server.slot, server.buf)
<1>1. server \in [at : ServerAts, slot : MaybeSlot, buf : MaybeBuffer]
  BY DEF TypeInv, TaskType
<1>2. server' = [server EXCEPT !.at = at]
  BY DEF ServerAt
<1> QED
  BY <1>1, <1>2 DEF ServerIs

LEMMA RouterDoneIs ==
  ASSUME router' = RouterDone
  PROVE  RouterIs("wait", None, None)
BY DEF RouterDone, RouterIs, RouterAts, MaybeSlot, MaybeBuffer

----------------------------------------------------------------------------
\* What Owned and Held exclude

LEMMA OneOwner ==
  ASSUME Owned, NEW s \in SlotIds
  PROVE  /\ conn[s].open \/ ~(s = Socket \/ ServerHas(s) \/ RouterOwns(s) \/ s \in Elems(accepting))
         /\ \A c \in Clients : ClientHas(c, s) =>
              /\ conn[s].open /\ s # Socket /\ ~ServerSide(s)
              /\ \A d \in Clients : ClientHas(d, s) => d = c
         /\ conn[s].open => \/ s = Socket \/ ServerSide(s)
                            \/ \E c \in Clients : ClientHas(c, s)
         /\ ServerHas(s) => s # Socket /\ ~RouterOwns(s) /\ s \notin Elems(accepting)
         /\ RouterOwns(s) => s # Socket /\ s \notin Elems(accepting)
         /\ s \in Elems(accepting) => s # Socket
<1>1. PICK x \in Tags : OwnedBy(s, x)
  BY DEF Owned
<1>2. \A c, d \in Clients : x = <<"client", c>> /\ x = <<"client", d>> => c = d
  OBVIOUS
<1>3. \A c \in Clients : x = <<"client", c>> =>
        /\ x # <<"socket", 0>> /\ x # <<"server", 0>> /\ x # <<"router", 0>>
        /\ x # <<"accepting", 0>> /\ x # <<"nobody", 0>>
  OBVIOUS
<1>4. /\ x = <<"nobody", 0>> => x # <<"socket", 0>> /\ x # <<"server", 0>> /\ x # <<"router", 0>>
                               /\ x # <<"accepting", 0>>
      /\ x = <<"server", 0>> => x # <<"socket", 0>> /\ x # <<"router", 0>> /\ x # <<"accepting", 0>>
      /\ x = <<"router", 0>> => x # <<"socket", 0>> /\ x # <<"accepting", 0>>
      /\ x = <<"accepting", 0>> => x # <<"socket", 0>>
  OBVIOUS
<1>5. \/ x = <<"socket", 0>> \/ x = <<"server", 0>> \/ x = <<"router", 0>> \/ x = <<"accepting", 0>>
      \/ x = <<"nobody", 0>> \/ \E c \in Clients : x = <<"client", c>>
  BY DEF Tags
<1> QED
  BY <1>1, <1>2, <1>3, <1>4, <1>5 DEF OwnedBy, ServerSide

LEMMA OnePlace ==
  ASSUME Held, NEW b \in Buffers
  PROVE  /\ b \in free => /\ b \notin InFifo /\ server.buf # b
                          /\ ~(router.buf = b /\ router.at # "event")
                          /\ \A c \in Clients : client[c].buf # b
                          /\ \A s \in SlotIds : b \notin Queued(s)
         /\ b \in InFifo => /\ server.buf # b /\ ~(router.buf = b /\ router.at # "event")
                            /\ \A c \in Clients : client[c].buf # b
                            /\ \A s \in SlotIds : b \notin Queued(s)
         /\ server.buf = b => /\ ~(router.buf = b /\ router.at # "event")
                              /\ \A c \in Clients : client[c].buf # b
                              /\ \A s \in SlotIds : b \notin Queued(s)
         /\ router.buf = b /\ router.at # "event" =>
              /\ \A c \in Clients : client[c].buf # b
              /\ \A s \in SlotIds : b \notin Queued(s)
         /\ \A c \in Clients : client[c].buf = b =>
              /\ \A d \in Clients : client[d].buf = b => c = d
              /\ \A s \in SlotIds : b \notin Queued(s)
         /\ \A s, u \in SlotIds : b \in Queued(s) /\ b \in Queued(u) => s = u
<1>1. PICK x \in Spots : HeldAt(b, x)
  BY DEF Held
<1>2. /\ \A c, d \in Clients : x = <<"client", c>> /\ x = <<"client", d>> => c = d
      /\ \A s, u \in SlotIds : x = <<"conn", s>> /\ x = <<"conn", u>> => s = u
      /\ \A c \in Clients, s \in SlotIds : ~(x = <<"client", c>> /\ x = <<"conn", s>>)
  OBVIOUS
<1>3. /\ \A c \in Clients : x = <<"client", c>> =>
           x # <<"free", 0>> /\ x # <<"server", 0>> /\ x # <<"router", 0>> /\ x # <<"fifo", 0>>
      /\ \A s \in SlotIds : x = <<"conn", s>> =>
           x # <<"free", 0>> /\ x # <<"server", 0>> /\ x # <<"router", 0>> /\ x # <<"fifo", 0>>
  OBVIOUS
<1>4. /\ x = <<"free", 0>> => x # <<"server", 0>> /\ x # <<"router", 0>> /\ x # <<"fifo", 0>>
      /\ x = <<"server", 0>> => x # <<"router", 0>> /\ x # <<"fifo", 0>>
      /\ x = <<"router", 0>> => x # <<"fifo", 0>>
  OBVIOUS
<1> QED
  BY <1>1, <1>2, <1>3, <1>4 DEF HeldAt

----------------------------------------------------------------------------
\* The choices that csp_conn_allocate, csp_connect and csp_buffer_get make

LEMMA LeastValue ==
  ASSUME NEW S, S # {}, NEW f, \A x \in S : f[x] \in Nat
  PROVE  \E x \in S : \A y \in S : f[x] <= f[y]
<1> DEFINE T == {f[x] : x \in S}
<1>1. T \subseteq Nat /\ T # {}
  OBVIOUS
<1> HIDE DEF T
<1>2. PICK t \in T : \A u \in T : t <= u
  BY <1>1, LeastNumber
<1> QED
  BY <1>2 DEF T

LEMMA NextSlotIs ==
  ASSUME TypeInv, Flags, Owned, FreeSlots # {}
  PROVE  /\ NextSlot \in SlotIds /\ ~conn[NextSlot].open /\ NextSlot # Socket
<1> DEFINE f == [s \in FreeSlots |-> After(s)]
<1>1. \A s \in FreeSlots : f[s] \in Nat
  <2> SUFFICES ASSUME NEW s \in FreeSlots PROVE After(s) \in Nat
    OBVIOUS
  <2>1. s \in Int /\ lastGiven \in Int /\ Slots \in Nat /\ Slots > 0
    BY SlotIdsType, BuffersFinite DEF TypeInv, ConnType, FreeSlots
  <2>2. s - lastGiven - 1 + Slots \in Int
    BY <2>1
  <2> QED
    BY <2>1, <2>2 DEF After
<1>2. \E s \in FreeSlots : \A u \in FreeSlots : f[s] <= f[u]
  <2> HIDE DEF f
  <2> QED
    BY <1>1, LeastValue
<1>3. \E s \in FreeSlots : \A u \in FreeSlots : After(s) <= After(u)
  BY <1>2
<1>4. NextSlot \in FreeSlots
  BY <1>3 DEF NextSlot
<1>5. NextSlot \in SlotIds /\ ~conn[NextSlot].open
  BY <1>4 DEF FreeSlots
<1> QED
  BY <1>5, SlotIdsType, OneOwner

LEMMA FirstPortIs ==
  ASSUME TypeInv, Candidates # {}
  PROVE  /\ FirstPort \in Ports /\ FirstPort \in Nat
         /\ \A s \in SlotIds : conn[s].open /\ conn[s].client => conn[s].id[2] # FirstPort
<1> DEFINE f == [p \in Candidates |-> Turn(p)]
<1>1. Candidates \subseteq Ports /\ Ports \subseteq Nat
  BY BuffersFinite DEF Candidates, Ports
<1>2. \A p \in Candidates : f[p] \in Nat
  BY <1>1, BuffersFinite DEF Turn
<1>3. \E p \in Candidates : \A q \in Candidates : f[p] <= f[q]
  <2> HIDE DEF f
  <2> QED
    BY <1>2, LeastValue
<1>4. FirstPort \in Candidates
  <2>1. \E p \in Candidates : \A q \in Candidates : Turn(p) <= Turn(q)
    BY <1>3
  <2> QED
    BY <2>1 DEF FirstPort
<1>5. Unused(FirstPort)
  BY <1>4 DEF Candidates
<1> QED
  BY <1>1, <1>4, <1>5 DEF Unused

LEMMA BufferIs ==
  ASSUME TypeInv, free # {}
  PROVE  (CHOOSE x \in free : \A y \in free : x <= y) \in free
<1>1. free \subseteq Nat
  BY BuffersFinite DEF TypeInv, PoolType
<1>2. \E x \in free : \A y \in free : x <= y
  BY <1>1, LeastNumber
<1> QED
  BY <1>2

----------------------------------------------------------------------------
\* There is room

LEMMA FifoPutIs ==
  ASSUME TypeInv, Queues, NEW b \in Buffers, b \notin InFifo, NEW p \in Prios, NEW others,
         FifoPut(b, p, others)
  PROVE  /\ qfifo' \in [Prios -> Seq(Buffers)] /\ Apart(qfifo')
         /\ InFifo' = InFifo \cup {b} /\ qfifo' # qfifo /\ free' = others
<1>1. qfifo \in [Prios -> Seq(Buffers)] /\ Apart(qfifo) /\ b \notin All(qfifo)
  BY DEF TypeInv, PoolType, Queues, InFifo
<1>2. PICK t : t = [qfifo EXCEPT ![p] = Append(@, b)]
  OBVIOUS
<1>3. /\ t \in [Prios -> Seq(Buffers)] /\ Apart(t) /\ All(t) = All(qfifo) \cup {b} /\ t # qfifo
      /\ Len(qfifo[p]) < NumBuffers
  BY <1>1, <1>2, ArrayPut
<1>4. Len(qfifo[p]) \in Nat
  BY <1>1
<1>5. Len(qfifo[p]) < FifoLength
  BY <1>3, <1>4, BuffersFinite
<1>6. qfifo' = t /\ free' = others
  BY <1>2, <1>5 DEF FifoPut
<1> QED
  BY <1>3, <1>6 DEF InFifo

LEMMA FifoTakeIs ==
  ASSUME TypeInv, Queues, NEW p \in Prios, qfifo[p] # <<>>, qfifo' = [qfifo EXCEPT ![p] = Tail(@)]
  PROVE  /\ qfifo' \in [Prios -> Seq(Buffers)] /\ Apart(qfifo')
         /\ Head(qfifo[p]) \in InFifo /\ Head(qfifo[p]) \in Buffers
         /\ InFifo' = InFifo \ {Head(qfifo[p])}
<1>1. qfifo \in [Prios -> Seq(Buffers)] /\ Apart(qfifo)
  BY DEF TypeInv, PoolType, Queues
<1> QED
  BY <1>1, ArrayTake DEF InFifo

LEMMA RxRoom ==
  ASSUME TypeInv, Queues, NEW s \in SlotIds, NEW p \in Prios, NEW b \in Buffers, b \notin Queued(s)
  PROVE  Len(conn[s].rx[p]) < QueueLength
<1>1. /\ conn[s].rx \in [Prios -> Seq(Buffers)] /\ Apart(conn[s].rx) /\ b \notin All(conn[s].rx)
  BY ConnFields, QueuedAll
<1>2. Len(conn[s].rx[p]) < NumBuffers
  BY <1>1, ArrayPut
<1>3. Len(conn[s].rx[p]) \in Nat
  BY <1>1
<1> QED
  BY <1>2, <1>3, BuffersFinite

LEMMA CountIs ==
  ASSUME TypeInv, Queues, NEW s \in SlotIds
  PROVE  /\ Queued(s) \subseteq Buffers /\ IsFiniteSet(Queued(s))
         /\ Count(s) \in Nat /\ Count(s) <= NumBuffers
         /\ Queued(s) = {} <=> Count(s) = 0
BY ConnFields, QueuedAll, AllBuffers, FS_EmptySet DEF Count

LEMMA UsedFinite ==
  /\ IsFiniteSet(Used) /\ Cardinality(Used) \in Nat /\ Cardinality(Used) <= NumBuffers
  /\ \A s \in SlotIds : /\ IsFiniteSet(InFlight(s)) /\ InFlight(s) \subseteq Buffers
                        /\ Cardinality(InFlight(s)) \in Nat /\ Cardinality(InFlight(s)) <= NumBuffers
<1>1. Used \subseteq Buffers /\ \A s \in SlotIds : InFlight(s) \subseteq Buffers
  BY DEF Used, InFlight
<1> QED
  BY <1>1, BuffersFinite, FS_Subset, FS_CardinalityType DEF NumBuffers

LEMMA EventRoom ==
  ASSUME NodeInv, router.at = "event"
  PROVE  /\ router.slot \in SlotIds /\ conn[router.slot].events < QueueLength
<1>s. PICK s : s = router.slot
  OBVIOUS
<1>1. s \in SlotIds /\ s # Socket
  BY <1>s DEF NodeInv, Storage, TypeInv, TaskType, Shape, MaybeSlot, Flags
<1>2. conn[s].events \in Nat /\ Count(s) \in Nat /\ Count(s) <= NumBuffers /\ Cardinality(InFlight(s)) \in Nat
  BY <1>1, ConnFields, CountIs, UsedFinite DEF NodeInv, Storage
<1>3. Storing(s) = 1 /\ Stored(s) = 1 /\ Taking(s) \in 0..1
  BY <1>s DEF Storing, Stored, Taking
<1>4. SlotBounds(s)
  BY <1>1 DEF NodeInv, Bounds
<1>5. NumBuffers \in Nat /\ NumBuffers < QueueLength /\ QueueLength \in Nat
  BY BuffersFinite
<1> SUFFICES conn[s].events < QueueLength
  BY <1>s, <1>1
<1>6. CASE ~conn[s].open
  BY <1>2, <1>3, <1>4, <1>5, <1>6 DEF SlotBounds
<1>7. CASE ServerHas(s) \/ s \in Elems(accepting)
  <2>1. Debt(s) <= Count(s) + 1
    BY <1>4, <1>7 DEF SlotBounds
  <2> QED
    BY <1>2, <1>3, <1>5, <2>1 DEF Debt
<1>8. CASE RouterOwns(s)
  <2>1. conn[s].events <= 0
    BY <1>4, <1>8 DEF SlotBounds
  <2> QED
    BY <1>2, <1>5, <2>1
<1>9. CASE \E c \in Clients : ClientHas(c, s)
  <2>1. PICK c \in Clients : client[c].slot = s /\ client[c].at # "closing"
    BY <1>9 DEF ClientHas
  <2>2. CASE client[c].at \in {"new", "flushed"}
    <3>1. conn[s].events + Storing(s) + Cardinality(InFlight(s)) <= NumBuffers + 1
      BY <1>4, <2>1, <2>2 DEF SlotBounds, Opening
    <3> QED
      BY <1>2, <1>3, <1>5, <3>1
  <2>3. CASE client[c].at \notin {"new", "flushed"}
    <3>1. Debt(s) <= Count(s) + 1
      BY <1>4, <2>1, <2>3 DEF SlotBounds, Working
    <3> QED
      BY <1>2, <1>3, <1>5, <3>1 DEF Debt
  <2> QED
    BY <2>2, <2>3
<1> QED
  BY <1>1, <1>6, <1>7, <1>8, <1>9, OneOwner DEF NodeInv, Storage, ServerSide

LEMMA FifoCount ==
  ASSUME TypeInv
  PROVE  /\ {b \in Buffers : \E p \in Prios : Indices(qfifo[p], b) # {}} = InFifo
         /\ IsFiniteSet(InFifo) /\ Cardinality(InFifo) \in Nat /\ Cardinality(InFifo) <= NumBuffers
         /\ IsFiniteSet(Writing) /\ Cardinality(Writing) \in Nat
<1>1. qfifo \in [Prios -> Seq(Buffers)]
  BY DEF TypeInv, PoolType
<1>2. InFifo \subseteq Buffers
  BY <1>1, AllBuffers DEF InFifo
<1>3. \A b, p : Indices(qfifo[p], b) # {} <=> b \in Elems(qfifo[p])
  BY DEF Indices, Elems
<1>4. {b \in Buffers : \E p \in Prios : Indices(qfifo[p], b) # {}} = InFifo
  <2>1. \A b : b \in InFifo <=> \E p \in Prios : b \in Elems(qfifo[p])
    BY AllElems DEF InFifo
  <2> QED
    BY <1>2, <1>3, <2>1
<1>5. Writing \subseteq Clients
  BY DEF Writing
<1> QED
  BY <1>1, <1>4, <1>5, AllBuffers, BuffersFinite, FS_Subset, FS_CardinalityType DEF InFifo

LEMMA FifoEventIs ==
  ASSUME NodeInv, FifoEvent, server.at = "replied" \/ \E c \in Clients : client[c].at = "sent"
  PROVE  qfifoEvents' = qfifoEvents + 1
<1>1. /\ Cardinality(InFifo) = qfifoEvents + Cardinality(Writing) + IF server.at = "replied" THEN 1 ELSE 0
      /\ Cardinality(InFifo) \in Nat /\ Cardinality(InFifo) <= NumBuffers
      /\ IsFiniteSet(Writing) /\ Cardinality(Writing) \in Nat /\ qfifoEvents \in Nat
  BY FifoCount DEF NodeInv, Storage, TypeInv, PoolType, FifoWakes
<1>2. CASE server.at = "replied"
  BY <1>1, <1>2, BuffersFinite DEF FifoEvent
<1>3. CASE \E c \in Clients : client[c].at = "sent"
  <2>1. Writing # {}
    BY <1>3 DEF Writing
  <2>2. Cardinality(Writing) # 0
    BY <1>1, <2>1, FS_EmptySet
  <2> QED
    BY <1>1, <2>2, BuffersFinite DEF FifoEvent
<1> QED
  BY <1>2, <1>3

----------------------------------------------------------------------------
\* What each action does

LEMMA Unpack ==
  ASSUME NodeInv
  PROVE  /\ TypeInv /\ Locks /\ Flags /\ Queues /\ Owned /\ Held /\ Bounds /\ FifoWakes
         /\ ConnIds /\ PacketIds /\ Mine /\ NoTimeout
BY DEF NodeInv, Storage

LEMMA ClientFacts ==
  ASSUME NodeInv, NEW c \in Clients
  PROVE  /\ client \in [Clients -> Client]
         /\ client[c].at \in ClientAts /\ client[c].call \in Nat /\ client[c].buf \in MaybeBuffer
         /\ client[c].at = "idle" <=> client[c].slot = None
         /\ client[c].at # "close" => client[c].buf = None
         /\ client[c].at # "idle" =>
              /\ client[c].slot \in SlotIds /\ client[c].slot # Socket
              /\ client[c].at # "closing" => ClientHas(c, client[c].slot) /\ conn[client[c].slot].open
              /\ client[c].at = "closing" => ~conn[client[c].slot].open
<1>1. /\ client \in [Clients -> Client] /\ client[c].at \in ClientAts /\ client[c].call \in Nat
      /\ client[c].buf \in MaybeBuffer /\ client[c].slot \in MaybeSlot
      /\ client[c].at = "idle" <=> client[c].slot = None
      /\ client[c].at # "close" => client[c].buf = None
  BY Unpack DEF TypeInv, TaskType, Shape, Client
<1>2. ASSUME client[c].at # "idle", client[c].at # "closing"
      PROVE  /\ ClientHas(c, client[c].slot) /\ client[c].slot # Socket /\ conn[client[c].slot].open
  <2>1. client[c].slot \in SlotIds /\ ClientHas(c, client[c].slot)
    BY <1>1, <1>2 DEF MaybeSlot, ClientHas
  <2> QED
    BY <2>1, Unpack, OneOwner
<1>3. ASSUME client[c].at = "closing"
      PROVE  client[c].slot # Socket /\ ~conn[client[c].slot].open
  <2>1. client[c].slot \in SlotIds /\ ~conn[client[c].slot].open
    BY <1>1, <1>3, Unpack DEF MaybeSlot, Locks
  <2> QED
    BY <2>1, Unpack, OneOwner
<1> QED
  BY <1>1, <1>2, <1>3 DEF MaybeSlot

LEMMA ServerFacts ==
  ASSUME NodeInv
  PROVE  /\ server \in [at : ServerAts, slot : MaybeSlot, buf : MaybeBuffer]
         /\ server.at = "accept" <=> server.slot = None
         /\ server.at # "serve" => server.buf = None
         /\ server.at = "serve" => server.buf \in Buffers
         /\ server.at # "accept" =>
              /\ server.slot \in SlotIds /\ server.slot # Socket
              /\ server.at # "closing" => ServerHas(server.slot) /\ conn[server.slot].open
              /\ server.at = "closing" => ~conn[server.slot].open
<1>1. /\ server \in [at : ServerAts, slot : MaybeSlot, buf : MaybeBuffer]
      /\ server.slot \in MaybeSlot /\ server.buf \in MaybeBuffer
      /\ server.at = "accept" <=> server.slot = None
      /\ server.buf # None <=> server.at = "serve"
  BY Unpack DEF TypeInv, TaskType, Shape
<1>2. ASSUME server.at # "accept" PROVE server.slot \in SlotIds
  BY <1>1, <1>2 DEF MaybeSlot
<1>3. ASSUME server.at # "accept", server.at # "closing"
      PROVE  /\ ServerHas(server.slot) /\ server.slot # Socket /\ conn[server.slot].open
  BY <1>2, <1>3, Unpack, OneOwner DEF ServerHas
<1>4. ASSUME server.at = "closing"
      PROVE  server.slot # Socket /\ ~conn[server.slot].open
  BY <1>2, <1>4, Unpack, OneOwner DEF Locks
<1> QED
  BY <1>1, <1>2, <1>3, <1>4 DEF MaybeBuffer

LEMMA RouterFacts ==
  ASSUME NodeInv
  PROVE  /\ router \in [at : RouterAts, slot : MaybeSlot, buf : MaybeBuffer]
         /\ router.at \in {"new", "flushed", "put", "event", "post"} <=> router.slot # None
         /\ router.at \in {"new", "flushed", "put", "event", "post"} => router.slot \in SlotIds
         /\ router.slot # Socket
         /\ router.at \in {"new", "flushed"} => RouterOwns(router.slot) /\ conn[router.slot].open
         /\ router.at \in {"find", "new", "flushed", "put", "event"} <=> router.buf # None
         /\ router.at \in {"find", "new", "flushed", "put", "event"} => router.buf \in Buffers
<1>1. /\ router \in [at : RouterAts, slot : MaybeSlot, buf : MaybeBuffer]
      /\ router.slot \in MaybeSlot /\ router.buf \in MaybeBuffer /\ router.slot # Socket
      /\ router.slot # None <=> router.at \in {"new", "flushed", "put", "event", "post"}
      /\ router.buf # None <=> router.at \in {"find", "new", "flushed", "put", "event"}
  BY Unpack DEF TypeInv, TaskType, Shape, Flags
<1>2. ASSUME router.at \in {"new", "flushed"}
      PROVE  RouterOwns(router.slot) /\ conn[router.slot].open
  <2>1. router.slot \in SlotIds /\ RouterOwns(router.slot)
    BY <1>1, <1>2 DEF MaybeSlot, RouterOwns
  <2> QED
    BY <2>1, Unpack, OneOwner
<1> QED
  BY <1>1, <1>2 DEF MaybeSlot, MaybeBuffer

LEMMA Stays ==
  /\ UNCHANGED conn => \A u \in SlotIds : Queued(u)' = Queued(u)
  /\ UNCHANGED qfifo => InFifo' = InFifo
BY DEF Queued, InFifo

LEMMA ConnectIs ==
  ASSUME NodeInv, NEW c \in Clients, Connect(c)
  PROVE  /\ TypeInv' /\ Queues' /\ client[c].at = "idle"
         /\ UNCHANGED <<free, content, InFifo, qfifoEvents, server, router, accepting, timedOut>>
         /\ \/ /\ ClientIs(c, "idle", client[c].call + 1, None, None)
               /\ conn' = conn /\ \A u \in SlotIds : Queued(u)' = Queued(u)
            \/ \E s \in SlotIds, p \in Ports :
                 /\ ~conn[s].open /\ s # Socket /\ ~Locked
                 /\ \A u \in SlotIds : conn[u].open /\ conn[u].client => conn[u].id[2] # p
                 /\ ClientIs(c, "new", client[c].call + 1, s, None)
                 /\ Becomes(s, TRUE, <<ServerPort, p>>, FALSE, conn[s].events, Queued(s))
<1>1. /\ TypeInv /\ Flags /\ Queues /\ Owned /\ client \in [Clients -> Client]
      /\ client[c].at = "idle" /\ client[c].slot = None /\ client[c].buf = None /\ client[c].call \in Nat
  BY Unpack, ClientFacts DEF Connect
<1>2. /\ UNCHANGED <<free, content, qfifo, qfifoEvents, server, router, accepting, timedOut>>
      /\ InFifo' = InFifo
  BY Stays DEF Connect, bufVars, fifoVars
<1>3. sport' \in Nat
  BY <1>1, FirstPortIs DEF Connect, TypeInv, TaskType
<1>4. CASE Candidates = {} \/ FreeSlots = {}
  <2>1. client' = [client EXCEPT ![c].call = @ + 1] /\ UNCHANGED <<conn, lastGiven>>
    BY <1>4 DEF Connect
  <2>2. client' \in [Clients -> Client]
    BY <1>1, <2>1 DEF Client
  <2>3. ClientIs(c, "idle", client[c].call + 1, None, None)
    BY <1>1, <2>1, <2>2 DEF ClientIs, Client
  <2>4. TypeInv'
    BY <1>1, <1>2, <1>3, <2>1, <2>3 DEF TypeInv, PoolType, ConnType, TaskType, Shape, ClientIs
  <2>5. Queues'
    BY <1>1, <1>2, <2>1 DEF Queues
  <2> QED
    BY <1>1, <1>2, <2>1, <2>3, <2>4, <2>5, Stays
<1>5. CASE ~(Candidates = {} \/ FreeSlots = {})
  <2> DEFINE s == NextSlot
             p == FirstPort
  <2>1. /\ s \in SlotIds /\ ~conn[s].open /\ s # Socket /\ p \in Ports /\ p \in Nat
        /\ \A u \in SlotIds : conn[u].open /\ conn[u].client => conn[u].id[2] # p
    BY <1>1, <1>5, NextSlotIs, FirstPortIs
  <2>2. /\ Allocate(s, <<ServerPort, p>>)
        /\ client' = [client EXCEPT ![c] = [at |-> "new", call |-> @.call + 1, slot |-> s, buf |-> None]]
    BY <1>5 DEF Connect
  <2> HIDE DEF s, p
  <2>3. <<ServerPort, p>> \in Nat \X Nat
    BY <2>1, BuffersFinite
  <2>4. Becomes(s, TRUE, <<ServerPort, p>>, FALSE, conn[s].events, Queued(s)) /\ ~Locked /\ lastGiven' = s
    BY <1>1, <2>1, <2>2, <2>3, AllocateIs
  <2>5. client' \in [Clients -> Client]
    BY <1>1, <2>1, <2>2 DEF Client, ClientAts, MaybeSlot, MaybeBuffer
  <2>6. ClientIs(c, "new", client[c].call + 1, s, None)
    BY <1>1, <2>2, <2>5 DEF ClientIs
  <2>7. TypeInv'
    <3>1. PoolType'
      BY <1>1, <1>2 DEF TypeInv, PoolType
    <3>2. ConnType'
      BY <1>1, <1>2, <2>1, <2>4 DEF TypeInv, ConnType, Becomes
    <3>3. TaskType'
      BY <1>1, <1>2, <1>3, <2>6 DEF TypeInv, TaskType, ClientIs
    <3>4. Shape'
      BY <1>1, <1>2, <2>1, <2>6, SlotIdsType DEF TypeInv, Shape, ClientIs
    <3> QED
      BY <3>1, <3>2, <3>3, <3>4 DEF TypeInv
  <2>8. Queues'
    BY <1>1, <1>2, <2>4 DEF Queues, Becomes
  <2> QED
    BY <1>1, <1>2, <2>1, <2>4, <2>6, <2>7, <2>8
<1> QED
  BY <1>4, <1>5

LEMMA ClientFlushPacketsIs ==
  ASSUME NodeInv, NEW c \in Clients, ClientFlushPackets(c)
  PROVE  LET s == client[c].slot
         IN  /\ TypeInv' /\ Queues' /\ client[c].at = "new"
             /\ ClientIs(c, "flushed", client[c].call, s, None)
             /\ Becomes(s, conn[s].open, conn[s].id, conn[s].post, conn[s].events, {})
             /\ free' = free \cup Queued(s)
             /\ UNCHANGED <<content, InFifo, qfifoEvents, server, router, accepting, timedOut>>
<1> DEFINE s == client[c].slot
<1>1. /\ TypeInv /\ Queues /\ client[c].at = "new" /\ client[c].buf = None /\ s \in SlotIds
  BY Unpack, ClientFacts DEF ClientFlushPackets
<1>2. /\ UNCHANGED <<content, qfifo, qfifoEvents, lastGiven, server, router, sport, accepting, timedOut>>
      /\ InFifo' = InFifo /\ Step(c, "flushed") /\ FlushPackets(s) /\ free' = free \cup Queued(s)
  BY Stays DEF ClientFlushPackets, fifoVars, portVars, FlushPackets
<1>3. ClientIs(c, "flushed", client[c].call, s, None)
  BY <1>1, <1>2, ClientStepIs DEF ClientAts
<1> HIDE DEF s
<1>4. Becomes(s, conn[s].open, conn[s].id, conn[s].post, conn[s].events, {})
  BY <1>1, <1>2, FlushPacketsIs
<1>5. free' \subseteq Buffers
  BY <1>1, <1>2, CountIs DEF TypeInv, PoolType
<1>6. TypeInv'
  <2>1. PoolType' /\ ConnType'
    BY <1>1, <1>2, <1>4, <1>5 DEF TypeInv, PoolType, ConnType, Becomes
  <2>2. TaskType'
    BY <1>1, <1>2, <1>3 DEF TypeInv, TaskType, ClientIs
  <2>3. Shape'
    BY <1>1, <1>2, <1>3, SlotIdsType DEF TypeInv, Shape, ClientIs
  <2> QED
    BY <2>1, <2>2, <2>3 DEF TypeInv
<1>7. Queues'
  BY <1>1, <1>2, <1>4 DEF Queues, Becomes
<1> QED
  BY <1>1, <1>2, <1>3, <1>4, <1>6, <1>7 DEF s

LEMMA ClientFlushEventsIs ==
  ASSUME NodeInv, NEW c \in Clients, ClientFlushEvents(c)
  PROVE  LET s == client[c].slot
         IN  /\ TypeInv' /\ Queues' /\ client[c].at = "flushed"
             /\ ClientIs(c, "connected", client[c].call, s, None)
             /\ Becomes(s, conn[s].open, conn[s].id, conn[s].post, 0, Queued(s))
             /\ UNCHANGED <<free, content, InFifo, qfifoEvents, server, router, accepting, timedOut>>
<1> DEFINE s == client[c].slot
<1>1. /\ TypeInv /\ Queues /\ client[c].at = "flushed" /\ s \in SlotIds
      /\ client[c].buf \in MaybeBuffer /\ client[c].call \in Nat /\ client[c] \in Client
      /\ client[c].at # "close" => client[c].buf = None
  BY Unpack, ClientFacts DEF ClientFlushEvents, Client
<1>2. /\ UNCHANGED <<content, qfifo, lastGiven, sport, accepting, server, router, free, qfifoEvents, timedOut>>
      /\ InFifo' = InFifo /\ Step(c, "connected") /\ FlushEvents(s)
  BY Stays DEF ClientFlushEvents, bufVars, fifoVars, portVars
<1>3. ClientIs(c, "connected", client[c].call, s, None)
  BY <1>1, <1>2, ClientStepIs DEF ClientAts
<1> HIDE DEF s
<1>4. Becomes(s, conn[s].open, conn[s].id, conn[s].post, 0, Queued(s))
  BY <1>1, <1>2, FlushEventsIs
<1>6. TypeInv'
  <2>1. PoolType' /\ ConnType'
    BY <1>1, <1>2, <1>4 DEF TypeInv, PoolType, ConnType, Becomes
  <2>2. TaskType'
    BY <1>1, <1>2, <1>3 DEF TypeInv, TaskType, ClientIs
  <2>3. Shape'
    BY <1>1, <1>2, <1>3, SlotIdsType DEF TypeInv, Shape, ClientIs
  <2> QED
    BY <2>1, <2>2, <2>3 DEF TypeInv
<1>7. Queues'
  BY <1>1, <1>2, <1>4 DEF Queues, Becomes
<1> QED
  BY <1>1, <1>2, <1>3, <1>4, <1>6, <1>7 DEF s

LEMMA ClientSendEventIs ==
  ASSUME NodeInv, NEW c \in Clients, ClientSendEvent(c)
  PROVE  LET s == client[c].slot
         IN  /\ TypeInv' /\ Queues' /\ client[c].at = "sent"
             /\ ClientIs(c, "read", client[c].call, s, None)
             /\ conn' = conn /\ \A u \in SlotIds : Queued(u)' = Queued(u)
             /\ qfifoEvents' = qfifoEvents + 1
             /\ UNCHANGED <<free, content, InFifo, server, router, accepting, timedOut>>
<1> DEFINE s == client[c].slot
<1>1. /\ TypeInv /\ Queues /\ client[c].at = "sent" /\ s \in SlotIds
      /\ client[c].buf \in MaybeBuffer /\ client[c].call \in Nat /\ client[c] \in Client
      /\ client[c].at # "close" => client[c].buf = None
  BY Unpack, ClientFacts DEF ClientSendEvent, Client
<1>2. /\ UNCHANGED <<content, qfifo, lastGiven, sport, accepting, server, router, free, timedOut, conn>>
      /\ InFifo' = InFifo /\ Step(c, "read")
      /\ FifoEvent
  BY Stays DEF ClientSendEvent, bufVars, fifoVars, portVars
<1>3. ClientIs(c, "read", client[c].call, s, None)
  BY <1>1, <1>2, ClientStepIs DEF ClientAts
<1> HIDE DEF s
<1>4. \A u \in SlotIds : Queued(u)' = Queued(u)
  BY <1>2, Stays
<1>5. qfifoEvents' = qfifoEvents + 1
  BY <1>1, <1>2, FifoEventIs
<1>6. TypeInv'
  BY <1>1, <1>2, <1>3, <1>5, SlotIdsType
     DEF TypeInv, PoolType, ConnType, TaskType, Shape, ClientIs
<1>7. Queues'
  BY <1>1, <1>2, <1>4 DEF Queues
<1> QED
  BY <1>1, <1>2, <1>3, <1>4, <1>5, <1>6, <1>7 DEF s

LEMMA ClientReadIs ==
  ASSUME NodeInv, NEW c \in Clients, ClientRead(c)
  PROVE  LET s == client[c].slot
         IN  /\ TypeInv' /\ Queues' /\ client[c].at = "read" /\ conn[s].events > 0
             /\ ClientIs(c, "event", client[c].call, s, None)
             /\ Becomes(s, conn[s].open, conn[s].id, conn[s].post, conn[s].events - 1, Queued(s))
             /\ UNCHANGED <<free, content, InFifo, qfifoEvents, server, router, accepting, timedOut>>
<1> DEFINE s == client[c].slot
<1>1. /\ TypeInv /\ Queues /\ client[c].at = "read" /\ s \in SlotIds /\ conn[s].events > 0
      /\ client[c].buf \in MaybeBuffer /\ client[c].call \in Nat /\ client[c] \in Client
      /\ client[c].at # "close" => client[c].buf = None
  BY Unpack, ClientFacts DEF ClientRead, Client, ReadEvent
<1>2. /\ UNCHANGED <<content, qfifo, lastGiven, sport, accepting, server, router, free, qfifoEvents, timedOut>>
      /\ InFifo' = InFifo /\ Step(c, "event") /\ ReadEvent(s)
  BY Stays DEF ClientRead, bufVars, fifoVars, portVars
<1>3. ClientIs(c, "event", client[c].call, s, None)
  BY <1>1, <1>2, ClientStepIs DEF ClientAts
<1> HIDE DEF s
<1>4. Becomes(s, conn[s].open, conn[s].id, conn[s].post, conn[s].events - 1, Queued(s))
  BY <1>1, <1>2, ReadEventIs
<1>6. TypeInv'
  <2>1. PoolType' /\ ConnType'
    BY <1>1, <1>2, <1>4 DEF TypeInv, PoolType, ConnType, Becomes
  <2>2. TaskType'
    BY <1>1, <1>2, <1>3 DEF TypeInv, TaskType, ClientIs
  <2>3. Shape'
    BY <1>1, <1>2, <1>3, SlotIdsType DEF TypeInv, Shape, ClientIs
  <2> QED
    BY <2>1, <2>2, <2>3 DEF TypeInv
<1>7. Queues'
  BY <1>1, <1>2, <1>4 DEF Queues, Becomes
<1> QED
  BY <1>1, <1>2, <1>3, <1>4, <1>6, <1>7 DEF s

LEMMA ClientTimeoutIs ==
  ASSUME NodeInv, NEW c \in Clients, ClientTimeout(c)
  PROVE  LET s == client[c].slot
         IN  /\ TypeInv' /\ Queues' /\ client[c].at = "read" /\ conn[s].events = 0
             /\ ClientIs(c, "close", client[c].call, s, None)
             /\ conn' = conn /\ \A u \in SlotIds : Queued(u)' = Queued(u)
             /\ timedOut' = TRUE
             /\ UNCHANGED <<free, content, InFifo, qfifoEvents, server, router, accepting>>
<1> DEFINE s == client[c].slot
<1>1. /\ TypeInv /\ Queues /\ client[c].at = "read" /\ s \in SlotIds /\ conn[s].events = 0
      /\ client[c].buf \in MaybeBuffer /\ client[c].call \in Nat /\ client[c] \in Client
      /\ client[c].at # "close" => client[c].buf = None
  BY Unpack, ClientFacts DEF ClientTimeout, Client
<1>2. /\ UNCHANGED <<content, qfifo, lastGiven, sport, accepting, server, router, free, qfifoEvents, conn>>
      /\ InFifo' = InFifo /\ Step(c, "close")
      /\ timedOut' = TRUE
  BY Stays DEF ClientTimeout, bufVars, fifoVars, portVars
<1>3. ClientIs(c, "close", client[c].call, s, None)
  BY <1>1, <1>2, ClientStepIs DEF ClientAts
<1> HIDE DEF s
<1>4. \A u \in SlotIds : Queued(u)' = Queued(u)
  BY <1>2, Stays
<1>6. TypeInv'
  BY <1>1, <1>2, <1>3, SlotIdsType
     DEF TypeInv, PoolType, ConnType, TaskType, Shape, ClientIs
<1>7. Queues'
  BY <1>1, <1>2, <1>4 DEF Queues
<1> QED
  BY <1>1, <1>2, <1>3, <1>4, <1>6, <1>7 DEF s

LEMMA ClientCloseIs ==
  ASSUME NodeInv, NEW c \in Clients, ClientClose(c)
  PROVE  LET s == client[c].slot
         IN  /\ TypeInv' /\ Queues' /\ client[c].at = "close" /\ ~Locked
             /\ ClientIs(c, "closing", client[c].call, s, None)
             /\ Becomes(s, FALSE, conn[s].id, conn[s].post, conn[s].events, {})
             /\ free' = free \cup ({client[c].buf} \ {None}) \cup Queued(s)
             /\ UNCHANGED <<content, InFifo, qfifoEvents, server, router, accepting, timedOut>>
<1> DEFINE s == client[c].slot
<1>1. /\ TypeInv /\ Queues /\ client[c].at = "close" /\ s \in SlotIds /\ ~Locked
      /\ client[c].buf \in MaybeBuffer /\ client[c].call \in Nat /\ client[c] \in Client
      /\ client[c].at # "close" => client[c].buf = None
  BY Unpack, ClientFacts DEF ClientClose, Client, Close
<1>2. /\ UNCHANGED <<content, qfifo, lastGiven, sport, accepting, server, router, qfifoEvents, timedOut>>
      /\ InFifo' = InFifo /\ client' = [client EXCEPT ![c].at = "closing", ![c].buf = None] /\ Close(s, {client[c].buf} \ {None})
      /\ free' = free \cup ({client[c].buf} \ {None}) \cup Queued(s)
  BY Stays DEF ClientClose, bufVars, fifoVars, portVars, Close
<1>3. ClientIs(c, "closing", client[c].call, s, None)
  BY <1>1, <1>2 DEF TypeInv, TaskType, Client, ClientIs, ClientAts, MaybeBuffer
<1> HIDE DEF s
<1>4. Becomes(s, FALSE, conn[s].id, conn[s].post, conn[s].events, {})
  BY <1>1, <1>2, CloseIs
<1>5. free' \subseteq Buffers
  BY <1>1, <1>2, CountIs DEF TypeInv, PoolType, MaybeBuffer
<1>6. TypeInv'
  <2>1. PoolType' /\ ConnType'
    BY <1>1, <1>2, <1>4, <1>5 DEF TypeInv, PoolType, ConnType, Becomes
  <2>2. TaskType'
    BY <1>1, <1>2, <1>3 DEF TypeInv, TaskType, ClientIs
  <2>3. Shape'
    BY <1>1, <1>2, <1>3, SlotIdsType DEF TypeInv, Shape, ClientIs
  <2> QED
    BY <2>1, <2>2, <2>3 DEF TypeInv
<1>7. Queues'
  BY <1>1, <1>2, <1>4 DEF Queues, Becomes
<1> QED
  BY <1>1, <1>2, <1>3, <1>4, <1>6, <1>7 DEF s

LEMMA ClientCloseEndsIs ==
  ASSUME NodeInv, NEW c \in Clients, ClientCloseEnds(c)
  PROVE  LET s == client[c].slot
         IN  /\ TypeInv' /\ Queues' /\ client[c].at = "closing"
             /\ ClientIs(c, "idle", client[c].call, None, None)
             /\ Becomes(s, conn[s].open, conn[s].id, conn[s].post, 0, Queued(s))
             /\ UNCHANGED <<free, content, InFifo, qfifoEvents, server, router, accepting, timedOut>>
<1> DEFINE s == client[c].slot
<1>1. /\ TypeInv /\ Queues /\ client[c].at = "closing" /\ s \in SlotIds
      /\ client[c].buf \in MaybeBuffer /\ client[c].call \in Nat /\ client[c] \in Client
      /\ client[c].at # "close" => client[c].buf = None
  BY Unpack, ClientFacts DEF ClientCloseEnds, Client
<1>2. /\ UNCHANGED <<content, qfifo, lastGiven, sport, accepting, server, router, free, qfifoEvents, timedOut>>
      /\ InFifo' = InFifo /\ client' = [client EXCEPT ![c].at = "idle", ![c].slot = None] /\ FlushEvents(s)
  BY Stays DEF ClientCloseEnds, bufVars, fifoVars, portVars
<1>3. ClientIs(c, "idle", client[c].call, None, None)
  BY <1>1, <1>2 DEF TypeInv, TaskType, Client, ClientIs, ClientAts, MaybeBuffer, MaybeSlot
<1> HIDE DEF s
<1>4. Becomes(s, conn[s].open, conn[s].id, conn[s].post, 0, Queued(s))
  BY <1>1, <1>2, FlushEventsIs
<1>6. TypeInv'
  <2>1. PoolType' /\ ConnType'
    BY <1>1, <1>2, <1>4 DEF TypeInv, PoolType, ConnType, Becomes
  <2>2. TaskType'
    BY <1>1, <1>2, <1>3 DEF TypeInv, TaskType, ClientIs
  <2>3. Shape'
    BY <1>1, <1>2, <1>3, SlotIdsType DEF TypeInv, Shape, ClientIs
  <2> QED
    BY <2>1, <2>2, <2>3 DEF TypeInv
<1>7. Queues'
  BY <1>1, <1>2, <1>4 DEF Queues, Becomes
<1> QED
  BY <1>1, <1>2, <1>3, <1>4, <1>6, <1>7 DEF s

LEMMA RouterFlushPacketsIs ==
  ASSUME NodeInv, RouterFlushPackets
  PROVE  LET s == router.slot
         IN  /\ TypeInv' /\ Queues' /\ router.at = "new"
             /\ RouterIs("flushed", s, router.buf)
             /\ Becomes(s, conn[s].open, conn[s].id, conn[s].post, conn[s].events, {})
             /\ free' = free \cup Queued(s)
             /\ UNCHANGED <<content, InFifo, qfifoEvents, client, server, accepting, timedOut>>
<1> DEFINE s == router.slot
<1>1. /\ TypeInv /\ Queues /\ router.at = "new" /\ s \in SlotIds
      /\ router.at \in {"new", "flushed", "put", "event"} => router.buf \in Buffers
  BY Unpack, RouterFacts DEF RouterFlushPackets
<1>2. /\ UNCHANGED <<content, qfifo, lastGiven, sport, accepting, client, server, qfifoEvents, timedOut>>
      /\ InFifo' = InFifo /\ router' = [router EXCEPT !.at = "flushed"] /\ FlushPackets(s)
      /\ free' = free \cup Queued(s)
  BY Stays DEF RouterFlushPackets, bufVars, fifoVars, portVars, FlushPackets
<1>3. RouterIs("flushed", s, router.buf)
  BY <1>1, <1>2, RouterFacts DEF RouterIs, RouterAts
<1> HIDE DEF s
<1>4. Becomes(s, conn[s].open, conn[s].id, conn[s].post, conn[s].events, {})
  BY <1>1, <1>2, FlushPacketsIs
<1>5. free' \subseteq Buffers
  BY <1>1, <1>2, CountIs DEF TypeInv, PoolType, MaybeBuffer
<1>6. TypeInv'
  BY <1>1, <1>2, <1>3, <1>4, <1>5, SlotIdsType
     DEF TypeInv, PoolType, ConnType, TaskType, Shape, RouterIs, Becomes
<1>7. Queues'
  BY <1>1, <1>2, <1>4 DEF Queues, Becomes
<1> QED
  BY <1>1, <1>2, <1>3, <1>4, <1>6, <1>7 DEF s

LEMMA RouterFlushEventsIs ==
  ASSUME NodeInv, RouterFlushEvents
  PROVE  LET s == router.slot
         IN  /\ TypeInv' /\ Queues' /\ router.at = "flushed"
             /\ RouterIs("put", s, router.buf)
             /\ Becomes(s, conn[s].open, conn[s].id, TRUE, 0, Queued(s))
             /\ UNCHANGED <<free, content, InFifo, qfifoEvents, client, server, accepting, timedOut>>
<1> DEFINE s == router.slot
<1>1. /\ TypeInv /\ Queues /\ router.at = "flushed" /\ s \in SlotIds
      /\ router.at \in {"new", "flushed", "put", "event"} => router.buf \in Buffers
  BY Unpack, RouterFacts DEF RouterFlushEvents
<1>2. /\ UNCHANGED <<content, qfifo, lastGiven, sport, accepting, client, server, free, qfifoEvents, timedOut>>
      /\ InFifo' = InFifo /\ router' = [router EXCEPT !.at = "put"] /\ conn' = [conn EXCEPT ![s].events = 0, ![s].post = TRUE]
  BY Stays DEF RouterFlushEvents, bufVars, fifoVars, portVars
<1>3. RouterIs("put", s, router.buf)
  BY <1>1, <1>2, RouterFacts DEF RouterIs, RouterAts
<1> HIDE DEF s
<1>4. Becomes(s, conn[s].open, conn[s].id, TRUE, 0, Queued(s))
  BY <1>1, <1>2, StoreSocketIs
<1>6. TypeInv'
  BY <1>1, <1>2, <1>3, <1>4, SlotIdsType
     DEF TypeInv, PoolType, ConnType, TaskType, Shape, RouterIs, Becomes
<1>7. Queues'
  BY <1>1, <1>2, <1>4 DEF Queues, Becomes
<1> QED
  BY <1>1, <1>2, <1>3, <1>4, <1>6, <1>7 DEF s

LEMMA ServerReadIs ==
  ASSUME NodeInv, ServerRead
  PROVE  LET s == server.slot
         IN  /\ TypeInv' /\ Queues' /\ server.at = "read" /\ conn[s].events > 0
             /\ ServerIs("event", s, None)
             /\ Becomes(s, conn[s].open, conn[s].id, conn[s].post, conn[s].events - 1, Queued(s))
             /\ UNCHANGED <<free, content, InFifo, qfifoEvents, client, router, accepting, timedOut>>
<1> DEFINE s == server.slot
<1>1. /\ TypeInv /\ Queues /\ server.at = "read" /\ s \in SlotIds /\ conn[s].events > 0
      /\ server.at # "serve" => server.buf = None
  BY Unpack, ServerFacts DEF ServerRead, ReadEvent
<1>2. /\ UNCHANGED <<content, qfifo, lastGiven, sport, accepting, client, router, free, qfifoEvents, timedOut>>
      /\ InFifo' = InFifo /\ ServerAt("event") /\ ReadEvent(s)
  BY Stays DEF ServerRead, bufVars, fifoVars, portVars
<1>3. ServerIs("event", s, None)
  BY <1>1, <1>2, ServerStepIs DEF ServerAts
<1> HIDE DEF s
<1>4. Becomes(s, conn[s].open, conn[s].id, conn[s].post, conn[s].events - 1, Queued(s))
  BY <1>1, <1>2, ReadEventIs
<1>6. TypeInv'
  BY <1>1, <1>2, <1>3, <1>4, SlotIdsType
     DEF TypeInv, PoolType, ConnType, TaskType, Shape, ServerIs, Becomes
<1>7. Queues'
  BY <1>1, <1>2, <1>4 DEF Queues, Becomes
<1> QED
  BY <1>1, <1>2, <1>3, <1>4, <1>6, <1>7 DEF s

LEMMA ServerTimeoutIs ==
  ASSUME NodeInv, ServerTimeout
  PROVE  LET s == server.slot
         IN  /\ TypeInv' /\ Queues' /\ server.at = "read" /\ conn[s].events = 0
             /\ ServerIs("close", s, None)
             /\ conn' = conn /\ \A u \in SlotIds : Queued(u)' = Queued(u)
             /\ timedOut' = TRUE
             /\ UNCHANGED <<free, content, InFifo, qfifoEvents, client, router, accepting>>
<1> DEFINE s == server.slot
<1>1. /\ TypeInv /\ Queues /\ server.at = "read" /\ s \in SlotIds /\ conn[s].events = 0
      /\ server.at # "serve" => server.buf = None
  BY Unpack, ServerFacts DEF ServerTimeout
<1>2. /\ UNCHANGED <<content, qfifo, lastGiven, sport, accepting, client, router, free, qfifoEvents, conn>>
      /\ InFifo' = InFifo /\ ServerAt("close")
      /\ timedOut' = TRUE
  BY Stays DEF ServerTimeout, bufVars, fifoVars, portVars
<1>3. ServerIs("close", s, None)
  BY <1>1, <1>2, ServerStepIs DEF ServerAts
<1> HIDE DEF s
<1>4. \A u \in SlotIds : Queued(u)' = Queued(u)
  BY <1>2, Stays
<1>6. TypeInv'
  BY <1>1, <1>2, <1>3, SlotIdsType
     DEF TypeInv, PoolType, ConnType, TaskType, Shape, ServerIs
<1>7. Queues'
  BY <1>1, <1>2, <1>4 DEF Queues
<1> QED
  BY <1>1, <1>2, <1>3, <1>4, <1>6, <1>7 DEF s

LEMMA ServerSendEventIs ==
  ASSUME NodeInv, ServerSendEvent
  PROVE  LET s == server.slot
         IN  /\ TypeInv' /\ Queues' /\ server.at = "replied"
             /\ ServerIs("read", s, None)
             /\ conn' = conn /\ \A u \in SlotIds : Queued(u)' = Queued(u)
             /\ qfifoEvents' = qfifoEvents + 1
             /\ UNCHANGED <<free, content, InFifo, client, router, accepting, timedOut>>
<1> DEFINE s == server.slot
<1>1. /\ TypeInv /\ Queues /\ server.at = "replied" /\ s \in SlotIds
      /\ server.at # "serve" => server.buf = None
  BY Unpack, ServerFacts DEF ServerSendEvent
<1>2. /\ UNCHANGED <<content, qfifo, lastGiven, sport, accepting, client, router, free, timedOut, conn>>
      /\ InFifo' = InFifo /\ ServerAt("read")
      /\ FifoEvent
  BY Stays DEF ServerSendEvent, bufVars, fifoVars, portVars
<1>3. ServerIs("read", s, None)
  BY <1>1, <1>2, ServerStepIs DEF ServerAts
<1> HIDE DEF s
<1>4. \A u \in SlotIds : Queued(u)' = Queued(u)
  BY <1>2, Stays
<1>5. qfifoEvents' = qfifoEvents + 1
  BY <1>1, <1>2, FifoEventIs
<1>6. TypeInv'
  BY <1>1, <1>2, <1>3, <1>5, SlotIdsType
     DEF TypeInv, PoolType, ConnType, TaskType, Shape, ServerIs
<1>7. Queues'
  BY <1>1, <1>2, <1>4 DEF Queues
<1> QED
  BY <1>1, <1>2, <1>3, <1>4, <1>5, <1>6, <1>7 DEF s

LEMMA ServerCloseIs ==
  ASSUME NodeInv, ServerClose
  PROVE  LET s == server.slot
         IN  /\ TypeInv' /\ Queues' /\ server.at = "close" /\ ~Locked
             /\ ServerIs("closing", s, None)
             /\ Becomes(s, FALSE, conn[s].id, conn[s].post, conn[s].events, {})
             /\ free' = free \cup Queued(s)
             /\ UNCHANGED <<content, InFifo, qfifoEvents, client, router, accepting, timedOut>>
<1> DEFINE s == server.slot
<1>1. /\ TypeInv /\ Queues /\ server.at = "close" /\ s \in SlotIds /\ ~Locked
      /\ server.at # "serve" => server.buf = None
  BY Unpack, ServerFacts DEF ServerClose, Close
<1>2. /\ UNCHANGED <<content, qfifo, lastGiven, sport, accepting, client, router, qfifoEvents, timedOut>>
      /\ InFifo' = InFifo /\ ServerAt("closing") /\ Close(s, {})
      /\ free' = free \cup Queued(s)
  BY Stays DEF ServerClose, bufVars, fifoVars, portVars, Close
<1>3. ServerIs("closing", s, None)
  BY <1>1, <1>2, ServerStepIs DEF ServerAts
<1> HIDE DEF s
<1>4. Becomes(s, FALSE, conn[s].id, conn[s].post, conn[s].events, {})
  BY <1>1, <1>2, CloseIs
<1>5. free' \subseteq Buffers
  BY <1>1, <1>2, CountIs DEF TypeInv, PoolType, MaybeBuffer
<1>6. TypeInv'
  BY <1>1, <1>2, <1>3, <1>4, <1>5, SlotIdsType
     DEF TypeInv, PoolType, ConnType, TaskType, Shape, ServerIs, Becomes
<1>7. Queues'
  BY <1>1, <1>2, <1>4 DEF Queues, Becomes
<1> QED
  BY <1>1, <1>2, <1>3, <1>4, <1>6, <1>7 DEF s

LEMMA ServerCloseEndsIs ==
  ASSUME NodeInv, ServerCloseEnds
  PROVE  LET s == server.slot
         IN  /\ TypeInv' /\ Queues' /\ server.at = "closing"
             /\ ServerIs("accept", None, None)
             /\ Becomes(s, conn[s].open, conn[s].id, conn[s].post, 0, Queued(s))
             /\ UNCHANGED <<free, content, InFifo, qfifoEvents, client, router, accepting, timedOut>>
<1> DEFINE s == server.slot
<1>1. /\ TypeInv /\ Queues /\ server.at = "closing" /\ s \in SlotIds
      /\ server.at # "serve" => server.buf = None
  BY Unpack, ServerFacts DEF ServerCloseEnds
<1>2. /\ UNCHANGED <<content, qfifo, lastGiven, sport, accepting, client, router, free, qfifoEvents, timedOut>>
      /\ InFifo' = InFifo /\ server' = [at |-> "accept", slot |-> None, buf |-> None] /\ FlushEvents(s)
  BY Stays DEF ServerCloseEnds, bufVars, fifoVars, portVars
<1>3. ServerIs("accept", None, None)
  BY <1>1, <1>2 DEF ServerIs, ServerAts, MaybeSlot, MaybeBuffer
<1> HIDE DEF s
<1>4. Becomes(s, conn[s].open, conn[s].id, conn[s].post, 0, Queued(s))
  BY <1>1, <1>2, FlushEventsIs
<1>6. TypeInv'
  BY <1>1, <1>2, <1>3, <1>4, SlotIdsType
     DEF TypeInv, PoolType, ConnType, TaskType, Shape, ServerIs, Becomes
<1>7. Queues'
  BY <1>1, <1>2, <1>4 DEF Queues, Becomes
<1> QED
  BY <1>1, <1>2, <1>3, <1>4, <1>6, <1>7 DEF s

\* Packet b gets the given fields, and the others are as they were.
PacketIs(b, id, pri, call, reply) ==
  /\ content' \in [Buffers -> Packet]
  /\ content'[b].id = id /\ content'[b].pri = pri /\ content'[b].call = call /\ content'[b].reply = reply
  /\ \A x \in Buffers : x # b => content'[x] = content[x]

LEMMA ClientSendIs ==
  ASSUME NodeInv, NEW c \in Clients, ClientSend(c)
  PROVE  LET s == client[c].slot
         IN  /\ TypeInv' /\ Queues' /\ client[c].at = "connected"
             /\ conn' = conn /\ \A u \in SlotIds : Queued(u)' = Queued(u)
             /\ UNCHANGED <<qfifoEvents, server, router, accepting, timedOut>>
             /\ \/ /\ free = {} /\ ClientIs(c, "close", client[c].call, s, None)
                   /\ UNCHANGED <<free, content, InFifo>>
                \/ \E b \in free :
                     /\ b \in Buffers /\ ClientIs(c, "sent", client[c].call, s, None)
                     /\ PacketIs(b, <<conn[s].id[2], ServerPort>>, Pri[c], <<c, client[c].call>>, FALSE)
                     /\ free' = free \ {b} /\ InFifo' = InFifo \cup {b}
<1> DEFINE s == client[c].slot
<1>1. /\ TypeInv /\ Queues /\ Held /\ client[c].at = "connected" /\ s \in SlotIds
      /\ client[c].buf = None /\ client[c].call \in Nat /\ client[c] \in Client
      /\ conn[s].id \in Nat \X Nat /\ ServerPort \in Nat
      /\ free \subseteq Buffers /\ content \in [Buffers -> Packet]
  BY Unpack, ClientFacts, ConnFields, BuffersFinite DEF ClientSend, Client, TypeInv, PoolType
<1>2. /\ UNCHANGED <<qfifoEvents, conn, lastGiven, sport, server, router, accepting, timedOut>>
      /\ \A u \in SlotIds : Queued(u)' = Queued(u)
  BY Stays DEF ClientSend, portVars
<1>3. CASE free = {}
  <2>1. Step(c, "close") /\ UNCHANGED <<free, content, qfifo>> /\ InFifo' = InFifo
    BY <1>3, Stays DEF ClientSend, bufVars
  <2>2. ClientIs(c, "close", client[c].call, s, None)
    BY <1>1, <2>1, ClientStepIs DEF ClientAts
  <2> HIDE DEF s
  <2>3. TypeInv'
    <3>1. PoolType' /\ ConnType'
      BY <1>1, <1>2, <2>1 DEF TypeInv, PoolType, ConnType
    <3>2. TaskType'
      BY <1>1, <1>2, <2>2 DEF TypeInv, TaskType, ClientIs
    <3>3. Shape'
      BY <1>1, <1>2, <2>2, SlotIdsType DEF TypeInv, Shape, ClientIs
    <3> QED
      BY <3>1, <3>2, <3>3 DEF TypeInv
  <2>4. Queues'
    BY <1>1, <1>2, <2>1 DEF Queues
  <2> QED
    BY <1>1, <1>2, <1>3, <2>1, <2>2, <2>3, <2>4 DEF s
<1>4. CASE free # {}
  <2> DEFINE b == CHOOSE x \in free : \A y \in free : x <= y
             sent == [id |-> <<conn[s].id[2], ServerPort>>, pri |-> Pri[c],
                      call |-> <<c, client[c].call>>, reply |-> FALSE]
  <2>1. /\ content' = [content EXCEPT ![b] = sent] /\ FifoPut(b, Pri[c], free \ {b})
        /\ Step(c, IF qfifo' = qfifo THEN "read" ELSE "sent")
    BY <1>4 DEF ClientSend
  <2>2. b \in free
    BY <1>1, <1>4, BufferIs
  <2> HIDE DEF b
  <2>3. b \in Buffers /\ b \notin InFifo /\ Pri[c] \in Prios /\ Pri[c] \in Nat
    BY <1>1, <2>2, OnePlace, NodeAssumption DEF Prios
  <2>4. /\ qfifo' \in [Prios -> Seq(Buffers)] /\ Apart(qfifo')
        /\ InFifo' = InFifo \cup {b} /\ qfifo' # qfifo /\ free' = free \ {b}
    BY <1>1, <2>1, <2>3, FifoPutIs
  <2>5. ClientIs(c, "sent", client[c].call, s, None)
    <3>1. Step(c, "sent")
      BY <2>1, <2>4
    <3> QED
      BY <1>1, <3>1, ClientStepIs DEF ClientAts
  <2>6. PacketIs(b, <<conn[s].id[2], ServerPort>>, Pri[c], <<c, client[c].call>>, FALSE)
    <3>1. <<conn[s].id[2], ServerPort>> \in Nat \X Nat /\ <<c, client[c].call>> \in Calling
      BY <1>1 DEF Calling
    <3>2. sent \in Packet
      BY <2>3, <3>1 DEF Packet
    <3>3. content' \in [Buffers -> Packet]
      BY <1>1, <2>1, <3>2
    <3> QED
      BY <1>1, <2>1, <2>3, <3>3 DEF PacketIs
  <2> HIDE DEF s, sent
  <2>7. TypeInv'
    <3>1. PoolType'
      BY <1>1, <1>2, <2>4, <2>6 DEF TypeInv, PoolType, PacketIs
    <3>2. ConnType' /\ TaskType'
      BY <1>1, <1>2, <2>5 DEF TypeInv, ConnType, TaskType, ClientIs
    <3>3. Shape'
      BY <1>1, <1>2, <2>5, SlotIdsType DEF TypeInv, Shape, ClientIs
    <3> QED
      BY <3>1, <3>2, <3>3 DEF TypeInv
  <2>8. Queues'
    BY <1>1, <1>2, <2>4 DEF Queues
  <2> QED
    BY <1>1, <1>2, <2>2, <2>3, <2>4, <2>5, <2>6, <2>7, <2>8 DEF s
<1> QED
  BY <1>3, <1>4

LEMMA ClientReadPacketIs ==
  ASSUME NodeInv, NEW c \in Clients, ClientReadPacket(c)
  PROVE  LET s == client[c].slot
         IN  /\ TypeInv' /\ Queues' /\ client[c].at = "event"
             /\ UNCHANGED <<free, content, InFifo, qfifoEvents, server, router, accepting, timedOut>>
             /\ \/ \E b \in Queued(s) :
                     /\ b \in Buffers /\ ClientIs(c, "close", client[c].call, s, b)
                     /\ Becomes(s, conn[s].open, conn[s].id, conn[s].post, conn[s].events, Queued(s) \ {b})
                \/ /\ Queued(s) = {} /\ ClientIs(c, "close", client[c].call, s, None)
                   /\ conn' = conn /\ \A u \in SlotIds : Queued(u)' = Queued(u)
<1> DEFINE s == client[c].slot
<1>1. /\ TypeInv /\ Queues /\ client[c].at = "event" /\ s \in SlotIds
      /\ client[c].buf = None /\ client[c] \in Client /\ client \in [Clients -> Client]
  BY Unpack, ClientFacts DEF ClientReadPacket
<1>2. /\ UNCHANGED <<free, content, qfifo, qfifoEvents, lastGiven, sport, server, router, accepting, timedOut>>
      /\ InFifo' = InFifo
  BY Stays DEF ClientReadPacket, bufVars, fifoVars, portVars
<1>3. \/ \E b \in Buffers :
           ReadPacket(s, b) /\ client' = [client EXCEPT ![c].at = "close", ![c].buf = b]
      \/ Queued(s) = {} /\ Step(c, "close") /\ UNCHANGED conn
  BY DEF ClientReadPacket
<1>4. CASE \E b \in Buffers :
             ReadPacket(s, b) /\ client' = [client EXCEPT ![c].at = "close", ![c].buf = b]
  <2>1. PICK b \in Buffers :
          ReadPacket(s, b) /\ client' = [client EXCEPT ![c].at = "close", ![c].buf = b]
    BY <1>4
  <2>2. /\ Becomes(s, conn[s].open, conn[s].id, conn[s].post, conn[s].events, Queued(s) \ {b})
        /\ b \in Queued(s)
    BY <1>1, <2>1, ReadPacketIs
  <2>3. ClientIs(c, "close", client[c].call, s, b)
    <3>1. client' \in [Clients -> Client]
      BY <1>1, <2>1 DEF Client, ClientAts, MaybeBuffer
    <3> QED
      BY <1>1, <2>1, <3>1 DEF ClientIs, Client
  <2> HIDE DEF s
  <2>4. TypeInv'
    BY <1>1, <1>2, <2>2, <2>3, SlotIdsType
       DEF TypeInv, PoolType, ConnType, TaskType, Shape, ClientIs, Becomes
  <2>5. Queues'
    BY <1>1, <1>2, <2>2 DEF Queues, Becomes
  <2> QED
    BY <1>1, <1>2, <2>2, <2>3, <2>4, <2>5 DEF s
<1>5. CASE Queued(s) = {} /\ Step(c, "close") /\ UNCHANGED conn
  <2>1. ClientIs(c, "close", client[c].call, s, None)
    BY <1>1, <1>5, ClientStepIs DEF ClientAts
  <2> HIDE DEF s
  <2>2. TypeInv'
    BY <1>1, <1>2, <1>5, <2>1, SlotIdsType
       DEF TypeInv, PoolType, ConnType, TaskType, Shape, ClientIs
  <2>3. Queues'
    BY <1>1, <1>2, <1>5 DEF Queues
  <2> QED
    BY <1>1, <1>2, <1>5, <2>1, <2>2, <2>3, Stays DEF s
<1> QED
  BY <1>3, <1>4, <1>5

LEMMA RouterReadIs ==
  ASSUME NodeInv, RouterRead
  PROVE  /\ TypeInv' /\ Queues' /\ router.at = "wait"
         /\ \E b \in InFifo : /\ b \in Buffers /\ RouterIs("find", None, b)
                              /\ InFifo' = InFifo \ {b}
         /\ qfifoEvents > 0 /\ qfifoEvents' = qfifoEvents - 1
         /\ conn' = conn /\ \A u \in SlotIds : Queued(u)' = Queued(u)
         /\ UNCHANGED <<free, content, client, server, accepting, timedOut>>
<1>1. /\ TypeInv /\ Queues /\ router.at = "wait" /\ router.slot = None /\ router.buf = None
      /\ router \in [at : RouterAts, slot : MaybeSlot, buf : MaybeBuffer]
      /\ qfifoEvents \in Nat /\ qfifoEvents > 0 /\ qfifoEvents' = qfifoEvents - 1
  BY Unpack, RouterFacts DEF RouterRead, TypeInv, PoolType
<1>2. /\ UNCHANGED <<free, content, conn, lastGiven, sport, client, server, accepting, timedOut>>
      /\ \A u \in SlotIds : Queued(u)' = Queued(u)
  BY Stays DEF RouterRead, bufVars, portVars
<1>3. PICK p \in Prios :
        /\ qfifo[p] # <<>> /\ qfifo' = [qfifo EXCEPT ![p] = Tail(@)]
        /\ router' = [router EXCEPT !.at = "find", !.buf = Head(qfifo[p])]
  BY DEF RouterRead
<1>4. /\ qfifo' \in [Prios -> Seq(Buffers)] /\ Apart(qfifo')
      /\ Head(qfifo[p]) \in InFifo /\ Head(qfifo[p]) \in Buffers
      /\ InFifo' = InFifo \ {Head(qfifo[p])}
  BY <1>1, <1>3, FifoTakeIs
<1>5. RouterIs("find", None, Head(qfifo[p]))
  BY <1>1, <1>3, <1>4 DEF RouterIs, RouterAts, MaybeBuffer, MaybeSlot
<1>6. TypeInv'
  BY <1>1, <1>2, <1>4, <1>5, SlotIdsType, BuffersFinite, SMTT(40)
    DEF TypeInv, PoolType, ConnType, TaskType, Shape, RouterIs
<1>7. Queues'
  BY <1>1, <1>2, <1>4 DEF Queues
<1> QED
  BY <1>1, <1>2, <1>4, <1>5, <1>6, <1>7

LEMMA RouterFindIs ==
  ASSUME NodeInv, RouterFind
  PROVE  LET b == router.buf
         IN  /\ TypeInv' /\ Queues' /\ router.at = "find" /\ b \in Buffers /\ router.slot = None
             /\ UNCHANGED <<content, InFifo, qfifoEvents, client, server, accepting, timedOut>>
             /\ \/ \E s \in SlotIds :
                     /\ conn[s].open /\ s # Socket /\ conn[s].id = content[b].id
                     /\ RouterIs("put", s, b) /\ free' = free
                     /\ conn' = conn /\ \A u \in SlotIds : Queued(u)' = Queued(u)
                \/ \E s \in SlotIds :
                     /\ ~conn[s].open /\ s # Socket /\ ~Locked /\ content[b].id[2] = ServerPort
                     /\ RouterIs("new", s, b) /\ free' = free
                     /\ Becomes(s, TRUE, content[b].id, FALSE, conn[s].events, Queued(s))
                \/ /\ RouterIs("wait", None, None) /\ free' = free \cup {b}
                   /\ conn' = conn /\ \A u \in SlotIds : Queued(u)' = Queued(u)
<1> DEFINE b == router.buf
<1>1. /\ TypeInv /\ Queues /\ Flags /\ Owned /\ router.at = "find" /\ router.slot = None /\ b \in Buffers
      /\ router \in [at : RouterAts, slot : MaybeSlot, buf : MaybeBuffer]
      /\ free \subseteq Buffers /\ content \in [Buffers -> Packet]
  BY Unpack, RouterFacts DEF RouterFind, TypeInv, PoolType
<1>2. content[b].id \in Nat \X Nat
  BY <1>1 DEF Packet
<1>3. /\ UNCHANGED <<content, qfifo, qfifoEvents, sport, client, server, accepting, timedOut>>
      /\ InFifo' = InFifo
  BY Stays DEF RouterFind, fifoVars, portVars
<1>4. \/ \E s \in Matching(content[b].id) :
           /\ router' = [router EXCEPT !.at = "put", !.slot = s]
           /\ UNCHANGED <<free, conn, lastGiven>>
      \/ /\ content[b].id[2] = ServerPort /\ FreeSlots # {}
         /\ Allocate(NextSlot, content[b].id) /\ UNCHANGED free
         /\ router' = [router EXCEPT !.at = "new", !.slot = NextSlot]
      \/ Drop(b) /\ UNCHANGED <<conn, lastGiven>>
  BY DEF RouterFind
<1>5. CASE \E s \in Matching(content[b].id) :
             /\ router' = [router EXCEPT !.at = "put", !.slot = s]
             /\ UNCHANGED <<free, conn, lastGiven>>
  <2>1. PICK s \in SlotIds :
          /\ conn[s].open /\ conn[s].client /\ conn[s].id = content[b].id
          /\ router' = [router EXCEPT !.at = "put", !.slot = s]
          /\ UNCHANGED <<free, conn, lastGiven>>
    BY <1>5 DEF Matching
  <2>2. s # Socket
    BY <1>1, <2>1 DEF Flags
  <2>3. RouterIs("put", s, b)
    BY <1>1, <2>1 DEF RouterIs, RouterAts, MaybeSlot
  <2> HIDE DEF b
  <2>4. TypeInv'
    BY <1>1, <1>3, <2>1, <2>3, SlotIdsType, BuffersFinite
       DEF TypeInv, PoolType, ConnType, TaskType, Shape, RouterIs
  <2>5. Queues'
    BY <1>1, <1>3, <2>1 DEF Queues
  <2> QED
    BY <1>1, <1>3, <2>1, <2>2, <2>3, <2>4, <2>5, Stays DEF b
<1>6. CASE /\ content[b].id[2] = ServerPort /\ FreeSlots # {}
           /\ Allocate(NextSlot, content[b].id) /\ UNCHANGED free
           /\ router' = [router EXCEPT !.at = "new", !.slot = NextSlot]
  <2> DEFINE s == NextSlot
  <2>1. s \in SlotIds /\ ~conn[s].open /\ s # Socket
    BY <1>1, <1>6, NextSlotIs
  <2>2. Allocate(s, content[b].id) /\ router' = [router EXCEPT !.at = "new", !.slot = s]
    BY <1>6
  <2> HIDE DEF s
  <2>3. /\ Becomes(s, TRUE, content[b].id, FALSE, conn[s].events, Queued(s)) /\ ~Locked /\ lastGiven' = s
    BY <1>1, <1>2, <2>1, <2>2, AllocateIs
  <2>4. RouterIs("new", s, b)
    BY <1>1, <2>1, <2>2 DEF RouterIs, RouterAts, MaybeSlot
  <2> HIDE DEF b
  <2>5. TypeInv'
    BY <1>1, <1>3, <1>6, <2>1, <2>3, <2>4, SlotIdsType, BuffersFinite
       DEF TypeInv, PoolType, ConnType, TaskType, Shape, RouterIs, Becomes
  <2>6. Queues'
    BY <1>1, <1>3, <2>3 DEF Queues, Becomes
  <2> QED
    BY <1>1, <1>3, <1>6, <2>1, <2>3, <2>4, <2>5, <2>6 DEF b
<1>7. CASE Drop(b) /\ UNCHANGED <<conn, lastGiven>>
  <2>1. free' = free \cup {b} /\ RouterIs("wait", None, None)
    BY <1>7, RouterDoneIs DEF Drop
  <2> HIDE DEF b
  <2>2. TypeInv'
    BY <1>1, <1>3, <1>7, <2>1, SlotIdsType, BuffersFinite
       DEF TypeInv, PoolType, ConnType, TaskType, Shape, RouterIs
  <2>3. Queues'
    BY <1>1, <1>3, <1>7 DEF Queues
  <2> QED
    BY <1>1, <1>3, <1>7, <2>1, <2>2, <2>3, Stays DEF b
<1> QED
  BY <1>4, <1>5, <1>6, <1>7

\* A packet that is not free is as the invariant says.
LEMMA PacketFacts ==
  ASSUME NodeInv, NEW b \in Buffers, b \notin free
  PROVE  /\ b \in Used /\ PacketOK(content[b]) /\ content[b].pri \in Prios
         /\ content[b] \in Packet /\ content[b].id \in Nat \X Nat /\ content[b].reply \in BOOLEAN
         /\ content[b].call[1] \in Clients /\ content[b].call[2] \in Nat
<1>1. b \in Used /\ PacketOK(content[b]) /\ content[b] \in Packet
  BY Unpack DEF Used, PacketIds, TypeInv, PoolType
<1>2. content[b].call \in Calling \cup {NoId}
  BY <1>1 DEF Packet
<1>3. content[b].call[2] \in Nat
  BY <1>2 DEF Calling, NoId
<1> QED
  BY <1>1, <1>3 DEF PacketOK, Packet

LEMMA RouterPutIs ==
  ASSUME NodeInv, RouterPut
  PROVE  LET s == router.slot
             b == router.buf
         IN  /\ TypeInv' /\ Queues' /\ router.at = "put" /\ s \in SlotIds /\ b \in Buffers
             /\ b \notin free /\ b \notin Queued(s)
             /\ RouterIs("event", s, b)
             /\ Becomes(s, conn[s].open, conn[s].id, conn[s].post, conn[s].events, Queued(s) \cup {b})
             /\ UNCHANGED <<free, content, InFifo, qfifoEvents, client, server, accepting, timedOut>>
<1> DEFINE s == router.slot
           b == router.buf
           p == content[b].pri
<1>1. /\ TypeInv /\ Queues /\ Held /\ router.at = "put" /\ s \in SlotIds /\ b \in Buffers
      /\ router \in [at : RouterAts, slot : MaybeSlot, buf : MaybeBuffer]
  BY Unpack, RouterFacts DEF RouterPut
<1>2. b \notin free /\ b \notin Queued(s)
  BY <1>1, OnePlace
<1>3. p \in Prios
  BY <1>1, <1>2, PacketFacts
<1>4. Len(conn[s].rx[p]) < QueueLength
  BY <1>1, <1>2, <1>3, RxRoom
<1>5. /\ UNCHANGED <<free, content, qfifo, qfifoEvents, lastGiven, sport, client, server, accepting, timedOut>>
      /\ InFifo' = InFifo
      /\ conn' = [conn EXCEPT ![s].rx[p] = Append(@, b)]
      /\ router' = [router EXCEPT !.at = "event"]
  BY <1>4, Stays DEF RouterPut, fifoVars, portVars
<1>6. RouterIs("event", s, b)
  BY <1>1, <1>5 DEF RouterIs, RouterAts
<1> HIDE DEF s, b, p
<1>7. Becomes(s, conn[s].open, conn[s].id, conn[s].post, conn[s].events, Queued(s) \cup {b})
  BY <1>1, <1>2, <1>3, <1>5, PutIs
<1>8. TypeInv'
  BY <1>1, <1>5, <1>6, <1>7, SlotIdsType, BuffersFinite
     DEF TypeInv, PoolType, ConnType, TaskType, Shape, RouterIs, Becomes
<1>9. Queues'
  BY <1>1, <1>5, <1>7 DEF Queues, Becomes
<1> QED
  BY <1>1, <1>2, <1>5, <1>6, <1>7, <1>8, <1>9 DEF s, b

LEMMA RouterEventIs ==
  ASSUME NodeInv, RouterEvent
  PROVE  LET s == router.slot
         IN  /\ TypeInv' /\ Queues' /\ router.at = "event" /\ s \in SlotIds
             /\ RouterIs("post", s, None)
             /\ Becomes(s, conn[s].open, conn[s].id, conn[s].post, conn[s].events + 1, Queued(s))
             /\ UNCHANGED <<free, content, InFifo, qfifoEvents, client, server, accepting, timedOut>>
<1> DEFINE s == router.slot
<1>1. /\ TypeInv /\ Queues /\ router.at = "event" /\ s \in SlotIds
      /\ router \in [at : RouterAts, slot : MaybeSlot, buf : MaybeBuffer]
      /\ conn[s].events < QueueLength
  BY Unpack, RouterFacts, EventRoom DEF RouterEvent
<1>2. /\ UNCHANGED <<free, content, qfifo, qfifoEvents, lastGiven, sport, client, server, accepting, timedOut>>
      /\ InFifo' = InFifo
      /\ conn' = [conn EXCEPT ![s].events = @ + 1]
      /\ router' = [router EXCEPT !.at = "post", !.buf = None]
  BY <1>1, Stays DEF RouterEvent, fifoVars, portVars
<1>3. RouterIs("post", s, None)
  BY <1>1, <1>2 DEF RouterIs, RouterAts, MaybeBuffer
<1> HIDE DEF s
<1>4. Becomes(s, conn[s].open, conn[s].id, conn[s].post, conn[s].events + 1, Queued(s))
  BY <1>1, <1>2, EventIs
<1>5. TypeInv'
  BY <1>1, <1>2, <1>3, <1>4, SlotIdsType, BuffersFinite
     DEF TypeInv, PoolType, ConnType, TaskType, Shape, RouterIs, Becomes
<1>6. Queues'
  BY <1>1, <1>2, <1>4 DEF Queues, Becomes
<1> QED
  BY <1>1, <1>2, <1>3, <1>4, <1>5, <1>6 DEF s

LEMMA RouterPostIs ==
  ASSUME NodeInv, RouterPost
  PROVE  LET s == router.slot
         IN  /\ TypeInv' /\ Queues' /\ router.at = "post" /\ s \in SlotIds
             /\ RouterIs("wait", None, None)
             /\ UNCHANGED <<content, InFifo, qfifoEvents, client, server, timedOut>>
             /\ \/ /\ ~conn[s].post /\ free' = free /\ accepting' = accepting
                   /\ conn' = conn /\ \A u \in SlotIds : Queued(u)' = Queued(u)
                \/ /\ conn[s].post /\ free' = free /\ Elems(accepting') = Elems(accepting) \cup {s}
                   /\ Becomes(s, conn[s].open, conn[s].id, FALSE, conn[s].events, Queued(s))
                \/ /\ conn[s].post /\ free' = free \cup Queued(s) /\ accepting' = accepting /\ ~Locked
                   /\ Becomes(s, FALSE, conn[s].id, conn[s].post, 0, {})
<1> DEFINE s == router.slot
<1>1. /\ TypeInv /\ Queues /\ Owned /\ router.at = "post" /\ s \in SlotIds
      /\ accepting \in Seq(SlotIds) /\ NoRepeat(accepting) /\ free \subseteq Buffers
  BY Unpack, RouterFacts DEF RouterPost, TypeInv, ConnType, Queues, PoolType
<1>2. /\ UNCHANGED <<content, qfifo, qfifoEvents, lastGiven, sport, client, server, timedOut>>
      /\ InFifo' = InFifo /\ RouterIs("wait", None, None)
  BY Stays, RouterDoneIs DEF RouterPost, fifoVars, portVars
<1>3. \/ ~conn[s].post /\ UNCHANGED <<free, conn, accepting>>
      \/ conn[s].post /\ accepting' = Append(accepting, s) /\ Posted(s) /\ UNCHANGED free
      \/ conn[s].post /\ RouterClose(s) /\ UNCHANGED accepting
  BY DEF RouterPost
<1>4. CASE ~conn[s].post /\ UNCHANGED <<free, conn, accepting>>
  <2> HIDE DEF s
  <2>1. TypeInv'
    BY <1>1, <1>2, <1>4, SlotIdsType, BuffersFinite
       DEF TypeInv, PoolType, ConnType, TaskType, Shape, RouterIs
  <2>2. Queues'
    BY <1>1, <1>2, <1>4 DEF Queues
  <2> QED
    BY <1>1, <1>2, <1>4, <2>1, <2>2, Stays DEF s
<1>5. CASE conn[s].post /\ accepting' = Append(accepting, s) /\ Posted(s) /\ UNCHANGED free
  <2>1. s \notin Elems(accepting)
    BY <1>1, <1>5, OneOwner DEF RouterOwns
  <2> HIDE DEF s
  <2>2. /\ accepting' \in Seq(SlotIds) /\ NoRepeat(accepting')
        /\ Elems(accepting') = Elems(accepting) \cup {s}
    BY <1>1, <1>5, <2>1, AppendElems
  <2>3. Becomes(s, conn[s].open, conn[s].id, FALSE, conn[s].events, Queued(s))
    BY <1>1, <1>5, PostedIs
  <2>4. TypeInv'
    BY <1>1, <1>2, <1>5, <2>2, <2>3, SlotIdsType, BuffersFinite
       DEF TypeInv, PoolType, ConnType, TaskType, Shape, RouterIs, Becomes
  <2>5. Queues'
    BY <1>1, <1>2, <2>2, <2>3 DEF Queues, Becomes
  <2> QED
    BY <1>1, <1>2, <1>5, <2>2, <2>3, <2>4, <2>5 DEF s
<1>6. CASE conn[s].post /\ RouterClose(s) /\ UNCHANGED accepting
  <2> HIDE DEF s
  <2>1. Becomes(s, FALSE, conn[s].id, conn[s].post, 0, {})
    BY <1>1, <1>6, RouterCloseIs
  <2>2. free' = free \cup Queued(s) /\ free' \subseteq Buffers /\ ~Locked
    BY <1>1, <1>6, CountIs DEF RouterClose
  <2>3. TypeInv'
    BY <1>1, <1>2, <1>6, <2>1, <2>2, SlotIdsType, BuffersFinite
       DEF TypeInv, PoolType, ConnType, TaskType, Shape, RouterIs, Becomes
  <2>4. Queues'
    BY <1>1, <1>2, <1>6, <2>1 DEF Queues, Becomes
  <2> QED
    BY <1>1, <1>2, <1>6, <2>1, <2>2, <2>3, <2>4 DEF s
<1> QED
  BY <1>3, <1>4, <1>5, <1>6

LEMMA AcceptIs ==
  ASSUME NodeInv, Accept
  PROVE  /\ TypeInv' /\ Queues' /\ server.at = "accept"
         /\ \E s \in Elems(accepting) :
              /\ s \in SlotIds /\ ServerIs("read", s, None)
              /\ Elems(accepting') = Elems(accepting) \ {s}
         /\ conn' = conn /\ \A u \in SlotIds : Queued(u)' = Queued(u)
         /\ UNCHANGED <<free, content, InFifo, qfifoEvents, client, router, timedOut>>
<1> DEFINE s == Head(accepting)
<1>1. /\ TypeInv /\ Queues /\ server.at = "accept" /\ server.buf = None
      /\ server \in [at : ServerAts, slot : MaybeSlot, buf : MaybeBuffer]
      /\ accepting \in Seq(SlotIds) /\ NoRepeat(accepting) /\ accepting # <<>>
  BY Unpack, ServerFacts DEF Accept, TypeInv, ConnType, Queues
<1>2. /\ UNCHANGED <<free, content, qfifo, qfifoEvents, conn, lastGiven, sport, client, router, timedOut>>
      /\ InFifo' = InFifo /\ \A u \in SlotIds : Queued(u)' = Queued(u)
      /\ server' = [server EXCEPT !.at = "read", !.slot = s] /\ accepting' = Tail(accepting)
  BY Stays DEF Accept, bufVars, fifoVars, portVars
<1>3. /\ s \in Elems(accepting) /\ s \in SlotIds
      /\ accepting' \in Seq(SlotIds) /\ NoRepeat(accepting')
      /\ Elems(accepting') = Elems(accepting) \ {s}
  BY <1>1, <1>2, TailElems
<1> HIDE DEF s
<1>4. ServerIs("read", s, None)
  BY <1>1, <1>2, <1>3 DEF ServerIs, ServerAts, MaybeSlot
<1>5. TypeInv'
  BY <1>1, <1>2, <1>3, <1>4, SlotIdsType, BuffersFinite
     DEF TypeInv, PoolType, ConnType, TaskType, Shape, ServerIs
<1>6. Queues'
  BY <1>1, <1>2, <1>3 DEF Queues
<1> QED
  BY <1>1, <1>2, <1>3, <1>4, <1>5, <1>6

LEMMA ServerReadPacketIs ==
  ASSUME NodeInv, ServerReadPacket
  PROVE  LET s == server.slot
         IN  /\ TypeInv' /\ Queues' /\ server.at = "event" /\ s \in SlotIds
             /\ UNCHANGED <<free, content, InFifo, qfifoEvents, client, router, accepting, timedOut>>
             /\ \/ \E b \in Queued(s) :
                     /\ b \in Buffers /\ ServerIs("serve", s, b)
                     /\ Becomes(s, conn[s].open, conn[s].id, conn[s].post, conn[s].events, Queued(s) \ {b})
                \/ /\ Queued(s) = {} /\ ServerIs("close", s, None)
                   /\ conn' = conn /\ \A u \in SlotIds : Queued(u)' = Queued(u)
<1> DEFINE s == server.slot
<1>1. /\ TypeInv /\ Queues /\ server.at = "event" /\ s \in SlotIds /\ server.buf = None
      /\ server \in [at : ServerAts, slot : MaybeSlot, buf : MaybeBuffer]
  BY Unpack, ServerFacts DEF ServerReadPacket
<1>2. /\ UNCHANGED <<free, content, qfifo, qfifoEvents, lastGiven, sport, client, router, accepting, timedOut>>
      /\ InFifo' = InFifo
  BY Stays DEF ServerReadPacket, bufVars, fifoVars, portVars
<1>3. \/ \E b \in Buffers :
           ReadPacket(s, b) /\ server' = [server EXCEPT !.at = "serve", !.buf = b]
      \/ Queued(s) = {} /\ ServerAt("close") /\ UNCHANGED conn
  BY DEF ServerReadPacket
<1>4. CASE \E b \in Buffers :
             ReadPacket(s, b) /\ server' = [server EXCEPT !.at = "serve", !.buf = b]
  <2>1. PICK b \in Buffers :
          ReadPacket(s, b) /\ server' = [server EXCEPT !.at = "serve", !.buf = b]
    BY <1>4
  <2>2. /\ Becomes(s, conn[s].open, conn[s].id, conn[s].post, conn[s].events, Queued(s) \ {b})
        /\ b \in Queued(s)
    BY <1>1, <2>1, ReadPacketIs
  <2>3. ServerIs("serve", s, b)
    BY <1>1, <2>1 DEF ServerIs, ServerAts, MaybeBuffer
  <2> HIDE DEF s
  <2>4. b # None
    BY BuffersFinite
  <2>5. TypeInv'
    BY <1>1, <1>2, <2>2, <2>3, <2>4, SlotIdsType
       DEF TypeInv, PoolType, ConnType, TaskType, Shape, ServerIs, Becomes
  <2>6. Queues'
    BY <1>1, <1>2, <2>2 DEF Queues, Becomes
  <2> QED
    BY <1>1, <1>2, <2>2, <2>3, <2>5, <2>6 DEF s
<1>5. CASE Queued(s) = {} /\ ServerAt("close") /\ UNCHANGED conn
  <2>1. ServerIs("close", s, None)
    BY <1>1, <1>5, ServerStepIs DEF ServerAts
  <2> HIDE DEF s
  <2>2. TypeInv'
    BY <1>1, <1>2, <1>5, <2>1, SlotIdsType
       DEF TypeInv, PoolType, ConnType, TaskType, Shape, ServerIs
  <2>3. Queues'
    BY <1>1, <1>2, <1>5 DEF Queues
  <2> QED
    BY <1>1, <1>2, <1>5, <2>1, <2>2, <2>3, Stays DEF s
<1> QED
  BY <1>3, <1>4, <1>5

LEMMA ServeIs ==
  ASSUME NodeInv, Serve
  PROVE  LET s == server.slot
             b == server.buf
         IN  /\ TypeInv' /\ Queues' /\ server.at = "serve" /\ s \in SlotIds /\ b \in Buffers
             /\ b \notin free /\ b \notin InFifo
             /\ conn' = conn /\ \A u \in SlotIds : Queued(u)' = Queued(u)
             /\ UNCHANGED <<qfifoEvents, client, router, accepting, timedOut>>
             /\ \/ /\ PacketIs(b, <<ServerPort, conn[s].id[1]>>, content[b].pri, content[b].call, TRUE)
                   /\ ServerIs("replied", s, None) /\ free' = free /\ InFifo' = InFifo \cup {b}
                \/ /\ ServerIs("read", s, None) /\ free' = free \cup {b}
                   /\ UNCHANGED <<content, InFifo>>
<1> DEFINE s == server.slot
           b == server.buf
<1>1. /\ TypeInv /\ Queues /\ Held /\ server.at = "serve" /\ s \in SlotIds /\ b \in Buffers
      /\ server \in [at : ServerAts, slot : MaybeSlot, buf : MaybeBuffer]
      /\ free \subseteq Buffers /\ content \in [Buffers -> Packet]
  BY Unpack, ServerFacts DEF Serve, TypeInv, PoolType
<1>2. b \notin free /\ b \notin InFifo
  BY <1>1, OnePlace
<1>3. /\ UNCHANGED <<qfifoEvents, conn, lastGiven, sport, client, router, accepting, timedOut>>
      /\ \A u \in SlotIds : Queued(u)' = Queued(u)
  BY Stays DEF Serve, portVars
<1>4. \/ /\ content' = [content EXCEPT ![b] = Reply(b)]
         /\ FifoPut(b, content[b].pri, free)
         /\ server' = [server EXCEPT !.at = IF qfifo' = qfifo THEN "read" ELSE "replied", !.buf = None]
      \/ /\ free' = free \cup {b} /\ UNCHANGED <<content, qfifo>>
         /\ server' = [server EXCEPT !.at = "read", !.buf = None]
  BY DEF Serve
<1>5. CASE /\ content' = [content EXCEPT ![b] = Reply(b)]
           /\ FifoPut(b, content[b].pri, free)
           /\ server' = [server EXCEPT !.at = IF qfifo' = qfifo THEN "read" ELSE "replied", !.buf = None]
  <2>1. content[b].pri \in Prios /\ content[b] \in Packet
    BY <1>1, <1>2, PacketFacts
  <2>2. /\ qfifo' \in [Prios -> Seq(Buffers)] /\ Apart(qfifo')
        /\ InFifo' = InFifo \cup {b} /\ qfifo' # qfifo /\ free' = free
    BY <1>1, <1>2, <1>5, <2>1, FifoPutIs
  <2>3. ServerIs("replied", s, None)
    BY <1>1, <1>5, <2>2 DEF ServerIs, ServerAts, MaybeBuffer
  <2>4. PacketIs(b, <<ServerPort, conn[s].id[1]>>, content[b].pri, content[b].call, TRUE)
    <3>1. conn[s].id \in Nat \X Nat /\ ServerPort \in Nat
      BY <1>1, ConnFields, BuffersFinite
    <3>2. PICK r : r = [content[b] EXCEPT !.id = <<ServerPort, conn[s].id[1]>>, !.reply = TRUE]
      OBVIOUS
    <3>3. <<ServerPort, conn[s].id[1]>> \in Nat \X Nat
      BY <3>1
    <3>4. /\ r \in Packet /\ r.id = <<ServerPort, conn[s].id[1]>> /\ r.reply = TRUE
          /\ r.pri = content[b].pri /\ r.call = content[b].call
      BY <2>1, <3>2, <3>3 DEF Packet
    <3>5. content' = [content EXCEPT ![b] = r]
      BY <1>5, <3>2 DEF Reply
    <3> HIDE DEF b
    <3> QED
      BY <1>1, <3>4, <3>5 DEF PacketIs
  <2> HIDE DEF s, b
  <2>5. TypeInv'
    BY <1>1, <1>3, <2>2, <2>3, <2>4, SlotIdsType
       DEF TypeInv, PoolType, ConnType, TaskType, Shape, ServerIs, PacketIs
  <2>6. Queues'
    BY <1>1, <1>3, <2>2 DEF Queues
  <2> QED
    BY <1>1, <1>2, <1>3, <2>2, <2>3, <2>4, <2>5, <2>6 DEF s, b
<1>6. CASE /\ free' = free \cup {b} /\ UNCHANGED <<content, qfifo>>
           /\ server' = [server EXCEPT !.at = "read", !.buf = None]
  <2>1. ServerIs("read", s, None) /\ InFifo' = InFifo
    BY <1>1, <1>6, Stays DEF ServerIs, ServerAts, MaybeBuffer
  <2> HIDE DEF s, b
  <2>2. TypeInv'
    BY <1>1, <1>3, <1>6, <2>1, SlotIdsType
       DEF TypeInv, PoolType, ConnType, TaskType, Shape, ServerIs
  <2>3. Queues'
    BY <1>1, <1>3, <1>6 DEF Queues
  <2> QED
    BY <1>1, <1>2, <1>3, <1>6, <2>1, <2>2, <2>3 DEF s, b
<1> QED
  BY <1>4, <1>5, <1>6

----------------------------------------------------------------------------
\* Locks and flags

LEMMA LocksStep ==
  ASSUME NodeInv, NodeNext
  PROVE  Locks'
<1>0. /\ Locks /\ \A d \in Clients : client[d].at = "closing" => client[d].slot \in SlotIds
      /\ server.at = "closing" => server.slot \in SlotIds
  BY Unpack, ClientFacts, ServerFacts
<1>1. ASSUME NEW c \in Clients, Connect(c) PROVE Locks'
  BY <1>0, <1>1, ConnectIs DEF Locks, Locked, ClientIs, ServerIs, Becomes
<1>2. ASSUME NEW c \in Clients, ClientFlushPackets(c) PROVE Locks'
  BY <1>0, <1>2, ClientFlushPacketsIs DEF Locks, Locked, ClientIs, ServerIs, Becomes
<1>3. ASSUME NEW c \in Clients, ClientFlushEvents(c) PROVE Locks'
  BY <1>0, <1>3, ClientFlushEventsIs DEF Locks, Locked, ClientIs, ServerIs, Becomes
<1>4. ASSUME NEW c \in Clients, ClientSend(c) PROVE Locks'
  BY <1>0, <1>4, ClientSendIs DEF Locks, Locked, ClientIs, ServerIs, Becomes
<1>5. ASSUME NEW c \in Clients, ClientSendEvent(c) PROVE Locks'
  BY <1>0, <1>5, ClientSendEventIs DEF Locks, Locked, ClientIs, ServerIs, Becomes
<1>6. ASSUME NEW c \in Clients, ClientRead(c) PROVE Locks'
  BY <1>0, <1>6, ClientReadIs DEF Locks, Locked, ClientIs, ServerIs, Becomes
<1>7. ASSUME NEW c \in Clients, ClientTimeout(c) PROVE Locks'
  BY <1>0, <1>7, ClientTimeoutIs, ZenonT(60) DEF Locks, Locked, ClientIs, ServerIs, Becomes
<1>8. ASSUME NEW c \in Clients, ClientReadPacket(c) PROVE Locks'
  BY <1>0, <1>8, ClientReadPacketIs DEF Locks, Locked, ClientIs, ServerIs, Becomes
<1>9. ASSUME NEW c \in Clients, ClientClose(c) PROVE Locks'
  BY <1>0, <1>9, ClientCloseIs DEF Locks, Locked, ClientIs, ServerIs, Becomes
<1>10. ASSUME NEW c \in Clients, ClientCloseEnds(c) PROVE Locks'
  BY <1>0, <1>10, ClientCloseEndsIs DEF Locks, Locked, ClientIs, ServerIs, Becomes
<1>11. ASSUME RouterRead PROVE Locks'
  BY <1>0, <1>11, RouterReadIs DEF Locks, Locked, ClientIs, ServerIs, Becomes
<1>12. ASSUME RouterFind PROVE Locks'
  BY <1>0, <1>12, RouterFindIs DEF Locks, Locked, ClientIs, ServerIs, Becomes
<1>13. ASSUME RouterFlushPackets PROVE Locks'
  BY <1>0, <1>13, RouterFlushPacketsIs DEF Locks, Locked, ClientIs, ServerIs, Becomes
<1>14. ASSUME RouterFlushEvents PROVE Locks'
  BY <1>0, <1>14, RouterFlushEventsIs DEF Locks, Locked, ClientIs, ServerIs, Becomes
<1>15. ASSUME RouterPut PROVE Locks'
  BY <1>0, <1>15, RouterPutIs DEF Locks, Locked, ClientIs, ServerIs, Becomes
<1>16. ASSUME RouterEvent PROVE Locks'
  BY <1>0, <1>16, RouterEventIs DEF Locks, Locked, ClientIs, ServerIs, Becomes
<1>17. ASSUME RouterPost PROVE Locks'
  BY <1>0, <1>17, RouterPostIs DEF Locks, Locked, ClientIs, ServerIs, Becomes
<1>18. ASSUME Accept PROVE Locks'
  BY <1>0, <1>18, AcceptIs DEF Locks, Locked, ClientIs, ServerIs, Becomes
<1>19. ASSUME ServerRead PROVE Locks'
  BY <1>0, <1>19, ServerReadIs DEF Locks, Locked, ClientIs, ServerIs, Becomes
<1>20. ASSUME ServerTimeout PROVE Locks'
  BY <1>0, <1>20, ServerTimeoutIs DEF Locks, Locked, ClientIs, ServerIs, Becomes
<1>21. ASSUME ServerReadPacket PROVE Locks'
  BY <1>0, <1>21, ServerReadPacketIs DEF Locks, Locked, ClientIs, ServerIs, Becomes
<1>22. ASSUME Serve PROVE Locks'
  BY <1>0, <1>22, ServeIs DEF Locks, Locked, ClientIs, ServerIs, Becomes
<1>23. ASSUME ServerSendEvent PROVE Locks'
  BY <1>0, <1>23, ServerSendEventIs DEF Locks, Locked, ClientIs, ServerIs, Becomes
<1>24. ASSUME ServerClose PROVE Locks'
  BY <1>0, <1>24, ServerCloseIs DEF Locks, Locked, ClientIs, ServerIs, Becomes
<1>25. ASSUME ServerCloseEnds PROVE Locks'
  BY <1>0, <1>25, ServerCloseEndsIs DEF Locks, Locked, ClientIs, ServerIs, Becomes
<1> QED
  BY <1>1, <1>2, <1>3, <1>4, <1>5, <1>6, <1>7, <1>8, <1>9, <1>10, <1>11, <1>12, <1>13, <1>14, <1>15, <1>16, <1>17, <1>18, <1>19, <1>20, <1>21, <1>22, <1>23, <1>24, <1>25
     DEF NodeNext, ClientNext, RouterNext, ServerNext

LEMMA FlagsStep ==
  ASSUME NodeInv, NodeNext
  PROVE  Flags'
<1>0. /\ Flags
      /\ router.at \in {"new", "flushed", "put", "event", "post"} => router.slot \in SlotIds
      /\ None # Socket
  BY Unpack, RouterFacts DEF None, Socket
<1>1. ASSUME NEW c \in Clients, Connect(c) PROVE Flags'
  BY <1>0, <1>1, ConnectIs DEF Flags, ClientIs, ServerIs, RouterIs, Becomes
<1>2. ASSUME NEW c \in Clients, ClientFlushPackets(c) PROVE Flags'
  BY <1>0, <1>2, ClientFlushPacketsIs DEF Flags, ClientIs, ServerIs, RouterIs, Becomes
<1>3. ASSUME NEW c \in Clients, ClientFlushEvents(c) PROVE Flags'
  BY <1>0, <1>3, ClientFlushEventsIs DEF Flags, ClientIs, ServerIs, RouterIs, Becomes
<1>4. ASSUME NEW c \in Clients, ClientSend(c) PROVE Flags'
  BY <1>0, <1>4, ClientSendIs DEF Flags, ClientIs, ServerIs, RouterIs, Becomes
<1>5. ASSUME NEW c \in Clients, ClientSendEvent(c) PROVE Flags'
  BY <1>0, <1>5, ClientSendEventIs DEF Flags, ClientIs, ServerIs, RouterIs, Becomes
<1>6. ASSUME NEW c \in Clients, ClientRead(c) PROVE Flags'
  BY <1>0, <1>6, ClientReadIs DEF Flags, ClientIs, ServerIs, RouterIs, Becomes
<1>7. ASSUME NEW c \in Clients, ClientTimeout(c) PROVE Flags'
  BY <1>0, <1>7, ClientTimeoutIs DEF Flags, ClientIs, ServerIs, RouterIs, Becomes
<1>8. ASSUME NEW c \in Clients, ClientReadPacket(c) PROVE Flags'
  BY <1>0, <1>8, ClientReadPacketIs DEF Flags, ClientIs, ServerIs, RouterIs, Becomes
<1>9. ASSUME NEW c \in Clients, ClientClose(c) PROVE Flags'
  BY <1>0, <1>9, ClientCloseIs DEF Flags, ClientIs, ServerIs, RouterIs, Becomes
<1>10. ASSUME NEW c \in Clients, ClientCloseEnds(c) PROVE Flags'
  BY <1>0, <1>10, ClientCloseEndsIs DEF Flags, ClientIs, ServerIs, RouterIs, Becomes
<1>11. ASSUME RouterRead PROVE Flags'
  BY <1>0, <1>11, RouterReadIs DEF Flags, ClientIs, ServerIs, RouterIs, Becomes
<1>12. ASSUME RouterFind PROVE Flags'
  BY <1>0, <1>12, RouterFindIs DEF Flags, ClientIs, ServerIs, RouterIs, Becomes
<1>13. ASSUME RouterFlushPackets PROVE Flags'
  BY <1>0, <1>13, RouterFlushPacketsIs DEF Flags, ClientIs, ServerIs, RouterIs, Becomes
<1>14. ASSUME RouterFlushEvents PROVE Flags'
  BY <1>0, <1>14, RouterFlushEventsIs DEF Flags, ClientIs, ServerIs, RouterIs, Becomes
<1>15. ASSUME RouterPut PROVE Flags'
  BY <1>0, <1>15, RouterPutIs DEF Flags, ClientIs, ServerIs, RouterIs, Becomes
<1>16. ASSUME RouterEvent PROVE Flags'
  BY <1>0, <1>16, RouterEventIs DEF Flags, ClientIs, ServerIs, RouterIs, Becomes
<1>17. ASSUME RouterPost PROVE Flags'
  BY <1>0, <1>17, RouterPostIs DEF Flags, ClientIs, ServerIs, RouterIs, Becomes
<1>18. ASSUME Accept PROVE Flags'
  BY <1>0, <1>18, AcceptIs DEF Flags, ClientIs, ServerIs, RouterIs, Becomes
<1>19. ASSUME ServerRead PROVE Flags'
  BY <1>0, <1>19, ServerReadIs DEF Flags, ClientIs, ServerIs, RouterIs, Becomes
<1>20. ASSUME ServerTimeout PROVE Flags'
  BY <1>0, <1>20, ServerTimeoutIs DEF Flags, ClientIs, ServerIs, RouterIs, Becomes
<1>21. ASSUME ServerReadPacket PROVE Flags'
  BY <1>0, <1>21, ServerReadPacketIs DEF Flags, ClientIs, ServerIs, RouterIs, Becomes
<1>22. ASSUME Serve PROVE Flags'
  BY <1>0, <1>22, ServeIs DEF Flags, ClientIs, ServerIs, RouterIs, Becomes
<1>23. ASSUME ServerSendEvent PROVE Flags'
  BY <1>0, <1>23, ServerSendEventIs DEF Flags, ClientIs, ServerIs, RouterIs, Becomes
<1>24. ASSUME ServerClose PROVE Flags'
  BY <1>0, <1>24, ServerCloseIs DEF Flags, ClientIs, ServerIs, RouterIs, Becomes
<1>25. ASSUME ServerCloseEnds PROVE Flags'
  BY <1>0, <1>25, ServerCloseEndsIs DEF Flags, ClientIs, ServerIs, RouterIs, Becomes
<1> QED
  BY <1>1, <1>2, <1>3, <1>4, <1>5, <1>6, <1>7, <1>8, <1>9, <1>10, <1>11, <1>12, <1>13, <1>14, <1>15, <1>16, <1>17, <1>18, <1>19, <1>20, <1>21, <1>22, <1>23, <1>24, <1>25
     DEF NodeNext, ClientNext, RouterNext, ServerNext

----------------------------------------------------------------------------
\* Every open slot keeps one owner

LEMMA OwnedByClient ==
  ASSUME NEW s \in SlotIds, s # Socket, conn'[s].open, ~ServerHas(s)', ~RouterOwns(s)', s \notin Elems(accepting'),
             NEW c \in Clients, \A d \in Clients : ClientHas(d, s)' <=> d = c
  PROVE  \E x \in Tags : OwnedBy(s, x)'
<1> DEFINE y == <<"client", c>>
<1>1. y \in Tags
  BY DEF Tags
<1>2. /\ y # <<"socket", 0>> /\ y # <<"server", 0>> /\ y # <<"router", 0>> /\ y # <<"accepting", 0>> /\ y # <<"nobody", 0>>
      /\ \A d \in Clients : y = <<"client", d>> <=> d = c
  OBVIOUS
<1> HIDE DEF y
<1>4. OwnedBy(s, y)'
  BY <1>1, <1>2 DEF OwnedBy
<1> QED
  BY <1>1, <1>4

LEMMA OwnedByServer ==
  ASSUME NEW s \in SlotIds, s # Socket, conn'[s].open, ServerHas(s)', ~RouterOwns(s)', s \notin Elems(accepting'),
             \A d \in Clients : ~ClientHas(d, s)'
  PROVE  \E x \in Tags : OwnedBy(s, x)'
<1> DEFINE y == <<"server", 0>>
<1>1. y \in Tags
  BY DEF Tags
<1>2. /\ y # <<"socket", 0>> /\ y # <<"router", 0>> /\ y # <<"accepting", 0>> /\ y # <<"nobody", 0>>
      /\ \A d \in Clients : y # <<"client", d>>
  OBVIOUS
<1>3. y = <<"server", 0>>
  OBVIOUS
<1> HIDE DEF y
<1>4. OwnedBy(s, y)'
  BY <1>1, <1>2, <1>3 DEF OwnedBy
<1> QED
  BY <1>1, <1>4

LEMMA OwnedByRouter ==
  ASSUME NEW s \in SlotIds, s # Socket, conn'[s].open, ~ServerHas(s)', RouterOwns(s)', s \notin Elems(accepting'),
             \A d \in Clients : ~ClientHas(d, s)'
  PROVE  \E x \in Tags : OwnedBy(s, x)'
<1> DEFINE y == <<"router", 0>>
<1>1. y \in Tags
  BY DEF Tags
<1>2. /\ y # <<"socket", 0>> /\ y # <<"server", 0>> /\ y # <<"accepting", 0>> /\ y # <<"nobody", 0>>
      /\ \A d \in Clients : y # <<"client", d>>
  OBVIOUS
<1>3. y = <<"router", 0>>
  OBVIOUS
<1> HIDE DEF y
<1>4. OwnedBy(s, y)'
  BY <1>1, <1>2, <1>3 DEF OwnedBy
<1> QED
  BY <1>1, <1>4

LEMMA OwnedByQueue ==
  ASSUME NEW s \in SlotIds, s # Socket, conn'[s].open, ~ServerHas(s)', ~RouterOwns(s)', s \in Elems(accepting'),
             \A d \in Clients : ~ClientHas(d, s)'
  PROVE  \E x \in Tags : OwnedBy(s, x)'
<1> DEFINE y == <<"accepting", 0>>
<1>1. y \in Tags
  BY DEF Tags
<1>2. /\ y # <<"socket", 0>> /\ y # <<"server", 0>> /\ y # <<"router", 0>> /\ y # <<"nobody", 0>>
      /\ \A d \in Clients : y # <<"client", d>>
  OBVIOUS
<1>3. y = <<"accepting", 0>>
  OBVIOUS
<1> HIDE DEF y
<1>4. OwnedBy(s, y)'
  BY <1>1, <1>2, <1>3 DEF OwnedBy
<1> QED
  BY <1>1, <1>4

LEMMA OwnedByNobody ==
  ASSUME NEW s \in SlotIds, s # Socket, ~conn'[s].open, ~ServerHas(s)', ~RouterOwns(s)', s \notin Elems(accepting'),
             \A d \in Clients : ~ClientHas(d, s)'
  PROVE  \E x \in Tags : OwnedBy(s, x)'
<1> DEFINE y == <<"nobody", 0>>
<1>1. y \in Tags
  BY DEF Tags
<1>2. /\ y # <<"socket", 0>> /\ y # <<"server", 0>> /\ y # <<"router", 0>> /\ y # <<"accepting", 0>>
      /\ \A d \in Clients : y # <<"client", d>>
  OBVIOUS
<1>3. y = <<"nobody", 0>>
  OBVIOUS
<1> HIDE DEF y
<1>4. OwnedBy(s, y)'
  BY <1>1, <1>2, <1>3 DEF OwnedBy
<1> QED
  BY <1>1, <1>4

\* The slots that keep their owner need no proof.
SameOwner(s) ==
  /\ conn'[s].open <=> conn[s].open
  /\ ServerHas(s)' <=> ServerHas(s)
  /\ RouterOwns(s)' <=> RouterOwns(s)
  /\ \A c \in Clients : ClientHas(c, s)' <=> ClientHas(c, s)
  /\ s \in Elems(accepting') <=> s \in Elems(accepting)

LEMMA OwnedKept ==
  ASSUME Owned, NEW s \in SlotIds, SameOwner(s)
  PROVE  \E x \in Tags : OwnedBy(s, x)'
<1>1. PICK x \in Tags : OwnedBy(s, x)
  BY DEF Owned
<1>2. OwnedBy(s, x)'
  BY <1>1 DEF OwnedBy, SameOwner
<1> QED
  BY <1>2

LEMMA OwnedMoves ==
  ASSUME Owned, NEW s \in SlotIds, \E x \in Tags : OwnedBy(s, x)',
         \A u \in SlotIds : u # s => SameOwner(u)
  PROVE  Owned'
BY OwnedKept DEF Owned

LEMMA OwnedStays ==
  ASSUME Owned, \A u \in SlotIds : SameOwner(u)
  PROVE  Owned'
BY OwnedKept DEF Owned

LEMMA OwnedStep ==
  ASSUME NodeInv, NodeNext
  PROVE  Owned'
<1>0. /\ Owned /\ Flags /\ None \notin SlotIds
      /\ router.at \in {"new", "flushed", "put", "event", "post"} <=> router.slot # None
      /\ \A d \in Clients : client[d].at = "idle" <=> client[d].slot = None
      /\ server.at = "accept" <=> server.slot = None
  BY Unpack, ClientFacts, ServerFacts, RouterFacts, SlotIdsType
<1>1. ASSUME NEW c \in Clients, Connect(c) PROVE Owned'
  <2>1. CASE /\ ClientIs(c, "idle", client[c].call + 1, None, None)
             /\ conn' = conn
    <3>1. \A u \in SlotIds : SameOwner(u)
      BY <1>0, <1>1, <2>1, ConnectIs DEF SameOwner, ServerHas, RouterOwns, ClientHas, ClientIs, ServerIs, RouterIs, Becomes
    <3> QED
      BY <1>0, <3>1, OwnedStays
  <2>2. CASE \E s \in SlotIds, p \in Ports :
               /\ ~conn[s].open /\ s # Socket
               /\ ClientIs(c, "new", client[c].call + 1, s, None)
               /\ Becomes(s, TRUE, <<ServerPort, p>>, FALSE, conn[s].events, Queued(s))
    <3>1. PICK s \in SlotIds, p \in Ports :
            /\ ~conn[s].open /\ s # Socket
            /\ ClientIs(c, "new", client[c].call + 1, s, None)
            /\ Becomes(s, TRUE, <<ServerPort, p>>, FALSE, conn[s].events, Queued(s))
      BY <2>2
    <3>2. UNCHANGED <<server, router, accepting>> /\ client[c].at = "idle"
      BY <1>1, ConnectIs
    <3>3. /\ ~ServerHas(s) /\ ~RouterOwns(s) /\ s \notin Elems(accepting)
          /\ \A d \in Clients : ~ClientHas(d, s)
      BY <1>0, <3>1, OneOwner
    <3>4. \E x \in Tags : OwnedBy(s, x)'
      <4>1. ~ServerHas(s)' /\ ~RouterOwns(s)' /\ s \notin Elems(accepting') /\ conn'[s].open
        BY <3>1, <3>2, <3>3 DEF ServerHas, RouterOwns, Becomes
      <4>2. \A d \in Clients : ClientHas(d, s)' <=> d = c
        BY <3>1, <3>3 DEF ClientHas, ClientIs
      <4> QED
        BY <3>1, <4>1, <4>2, OwnedByClient
    <3>5. \A u \in SlotIds : u # s => SameOwner(u)
      BY <1>0, <3>1, <3>2 DEF SameOwner, ServerHas, RouterOwns, ClientHas, ClientIs, Becomes
    <3> QED
      BY <1>0, <3>4, <3>5, OwnedMoves
  <2> QED
    BY <1>1, <2>1, <2>2, ConnectIs
<1>2. ASSUME NEW c \in Clients, ClientFlushPackets(c) PROVE Owned'
  <2>1. \A u \in SlotIds : SameOwner(u)
    BY <1>0, <1>2, ClientFlushPacketsIs DEF SameOwner, ServerHas, RouterOwns, ClientHas, ClientIs, ServerIs, RouterIs, Becomes
  <2> QED
    BY <1>0, <2>1, OwnedStays
<1>3. ASSUME NEW c \in Clients, ClientFlushEvents(c) PROVE Owned'
  <2>1. \A u \in SlotIds : SameOwner(u)
    BY <1>0, <1>3, ClientFlushEventsIs DEF SameOwner, ServerHas, RouterOwns, ClientHas, ClientIs, ServerIs, RouterIs, Becomes
  <2> QED
    BY <1>0, <2>1, OwnedStays
<1>4. ASSUME NEW c \in Clients, ClientSend(c) PROVE Owned'
  <2>1. \A u \in SlotIds : SameOwner(u)
    BY <1>0, <1>4, ClientSendIs DEF SameOwner, ServerHas, RouterOwns, ClientHas, ClientIs, ServerIs, RouterIs, Becomes
  <2> QED
    BY <1>0, <2>1, OwnedStays
<1>5. ASSUME NEW c \in Clients, ClientSendEvent(c) PROVE Owned'
  <2>1. \A u \in SlotIds : SameOwner(u)
    BY <1>0, <1>5, ClientSendEventIs DEF SameOwner, ServerHas, RouterOwns, ClientHas, ClientIs, ServerIs, RouterIs, Becomes
  <2> QED
    BY <1>0, <2>1, OwnedStays
<1>6. ASSUME NEW c \in Clients, ClientRead(c) PROVE Owned'
  <2>1. \A u \in SlotIds : SameOwner(u)
    BY <1>0, <1>6, ClientReadIs DEF SameOwner, ServerHas, RouterOwns, ClientHas, ClientIs, ServerIs, RouterIs, Becomes
  <2> QED
    BY <1>0, <2>1, OwnedStays
<1>7. ASSUME NEW c \in Clients, ClientTimeout(c) PROVE Owned'
  <2>1. \A u \in SlotIds : SameOwner(u)
    BY <1>0, <1>7, ClientTimeoutIs DEF SameOwner, ServerHas, RouterOwns, ClientHas, ClientIs, ServerIs, RouterIs, Becomes
  <2> QED
    BY <1>0, <2>1, OwnedStays
<1>8. ASSUME NEW c \in Clients, ClientReadPacket(c) PROVE Owned'
  <2>1. \A u \in SlotIds : SameOwner(u)
    BY <1>0, <1>8, ClientReadPacketIs DEF SameOwner, ServerHas, RouterOwns, ClientHas, ClientIs, ServerIs, RouterIs, Becomes
  <2> QED
    BY <1>0, <2>1, OwnedStays
<1>9. ASSUME NEW c \in Clients, ClientClose(c) PROVE Owned'
  <2>0. PICK s : s = client[c].slot
    OBVIOUS
  <2>1. /\ s \in SlotIds /\ s # Socket /\ ClientHas(c, s)
        /\ UNCHANGED <<server, router, accepting>>
        /\ ClientIs(c, "closing", client[c].call, s, None)
        /\ Becomes(s, FALSE, conn[s].id, conn[s].post, conn[s].events, {})
    BY <1>9, <2>0, ClientCloseIs, ClientFacts
  <2>2. /\ ~ServerHas(s) /\ ~RouterOwns(s) /\ s \notin Elems(accepting)
        /\ \A d \in Clients : ClientHas(d, s) => d = c
    BY <1>0, <2>1, OneOwner DEF ServerSide
  <2>3. /\ ~ServerHas(s)' /\ ~RouterOwns(s)' /\ s \notin Elems(accepting') /\ ~conn'[s].open
    BY <2>1, <2>2 DEF ServerHas, RouterOwns, Becomes
  <2>4. \A d \in Clients : ~ClientHas(d, s)'
    BY <2>1, <2>2 DEF ClientHas, ClientIs
  <2>5. \A u \in SlotIds : u # s => SameOwner(u)
    BY <1>0, <2>1 DEF SameOwner, ServerHas, RouterOwns, ClientHas, ClientIs, Becomes
  <2> QED
    BY <1>0, <2>1, <2>3, <2>4, <2>5, OwnedByNobody, OwnedMoves
<1>10. ASSUME NEW c \in Clients, ClientCloseEnds(c) PROVE Owned'
  <2>1. \A u \in SlotIds : SameOwner(u)
    BY <1>0, <1>10, ClientCloseEndsIs DEF SameOwner, ServerHas, RouterOwns, ClientHas, ClientIs, ServerIs, RouterIs, Becomes
  <2> QED
    BY <1>0, <2>1, OwnedStays
<1>11. ASSUME RouterRead PROVE Owned'
  <2>1. \A u \in SlotIds : SameOwner(u)
    BY <1>0, <1>11, RouterReadIs DEF SameOwner, ServerHas, RouterOwns, ClientHas, ClientIs, ServerIs, RouterIs, Becomes
  <2> QED
    BY <1>0, <2>1, OwnedStays
<1>12. ASSUME RouterFind PROVE Owned'
  <2> DEFINE b == router.buf
  <2>0. router.slot = None /\ UNCHANGED <<client, server, accepting>>
    BY <1>12, RouterFindIs
  <2>1. CASE \E s \in SlotIds : conn[s].open /\ RouterIs("put", s, b) /\ conn' = conn
    <3>1. \A u \in SlotIds : SameOwner(u)
      BY <1>0, <2>0, <2>1 DEF SameOwner, Flags, ServerHas, RouterOwns, RouterIs, ClientHas
    <3> QED
      BY <1>0, <3>1, OwnedStays
  <2>2. CASE \E s \in SlotIds :
               /\ ~conn[s].open /\ s # Socket /\ RouterIs("new", s, b)
               /\ Becomes(s, TRUE, content[b].id, FALSE, conn[s].events, Queued(s))
    <3>1. PICK s \in SlotIds :
            /\ ~conn[s].open /\ s # Socket /\ RouterIs("new", s, b)
            /\ Becomes(s, TRUE, content[b].id, FALSE, conn[s].events, Queued(s))
      BY <2>2
    <3>2. /\ ~ServerHas(s) /\ s \notin Elems(accepting) /\ \A d \in Clients : ~ClientHas(d, s)
      BY <1>0, <3>1, OneOwner
    <3>3. \E x \in Tags : OwnedBy(s, x)'
      <4>1. /\ ~ServerHas(s)' /\ RouterOwns(s)' /\ s \notin Elems(accepting') /\ conn'[s].open
            /\ \A d \in Clients : ~ClientHas(d, s)'
        BY <2>0, <3>1, <3>2 DEF ServerHas, RouterOwns, RouterIs, ClientHas, Becomes
      <4> QED
        BY <3>1, <4>1, OwnedByRouter
    <3>4. \A u \in SlotIds : u # s => SameOwner(u)
      BY <1>0, <2>0, <3>1 DEF SameOwner, ServerHas, RouterOwns, RouterIs, ClientHas, Becomes
    <3> QED
      BY <1>0, <3>3, <3>4, OwnedMoves
  <2>3. CASE RouterIs("wait", None, None) /\ conn' = conn
    <3>1. \A u \in SlotIds : SameOwner(u)
      BY <1>0, <2>0, <2>3 DEF SameOwner, ServerHas, RouterOwns, RouterIs, ClientHas
    <3> QED
      BY <1>0, <3>1, OwnedStays
  <2> QED
    BY <1>12, <2>1, <2>2, <2>3, RouterFindIs
<1>13. ASSUME RouterFlushPackets PROVE Owned'
  <2>1. \A u \in SlotIds : SameOwner(u)
    BY <1>0, <1>13, RouterFlushPacketsIs DEF SameOwner, ServerHas, RouterOwns, ClientHas, ClientIs, ServerIs, RouterIs, Becomes
  <2> QED
    BY <1>0, <2>1, OwnedStays
<1>14. ASSUME RouterFlushEvents PROVE Owned'
  <2>1. \A u \in SlotIds : SameOwner(u)
    BY <1>0, <1>14, RouterFlushEventsIs DEF SameOwner, ServerHas, RouterOwns, ClientHas, ClientIs, ServerIs, RouterIs, Becomes
  <2> QED
    BY <1>0, <2>1, OwnedStays
<1>15. ASSUME RouterPut PROVE Owned'
  <2>1. \A u \in SlotIds : SameOwner(u)
    BY <1>0, <1>15, RouterPutIs DEF SameOwner, ServerHas, RouterOwns, ClientHas, ClientIs, ServerIs, RouterIs, Becomes
  <2> QED
    BY <1>0, <2>1, OwnedStays
<1>16. ASSUME RouterEvent PROVE Owned'
  <2>1. \A u \in SlotIds : SameOwner(u)
    BY <1>0, <1>16, RouterEventIs DEF SameOwner, ServerHas, RouterOwns, ClientHas, ClientIs, ServerIs, RouterIs, Becomes
  <2> QED
    BY <1>0, <2>1, OwnedStays
<1>17. ASSUME RouterPost PROVE Owned'
  <2>s. PICK s : s = router.slot
    OBVIOUS
  <2>0. /\ s = router.slot /\ s \in SlotIds /\ s # Socket /\ router.at = "post" /\ RouterIs("wait", None, None)
        /\ UNCHANGED <<client, server>>
    BY <1>17, <2>s, RouterPostIs, RouterFacts
  <2>1. CASE ~conn[s].post /\ accepting' = accepting /\ conn' = conn
    <3>1. \A u \in SlotIds : SameOwner(u)
      BY <1>0, <2>0, <2>1 DEF SameOwner, ServerHas, RouterOwns, RouterIs, ClientHas
    <3> QED
      BY <1>0, <3>1, OwnedStays
  <2>2. ASSUME conn[s].post
        PROVE  /\ ~ServerHas(s) /\ s \notin Elems(accepting) /\ conn[s].open
               /\ \A d \in Clients : ~ClientHas(d, s)
    <3>1. RouterOwns(s)
      BY <2>s, <2>2 DEF RouterOwns
    <3> QED
      BY <1>0, <2>0, <3>1, OneOwner DEF ServerSide
  <2>3. CASE /\ conn[s].post /\ Elems(accepting') = Elems(accepting) \cup {s}
             /\ Becomes(s, conn[s].open, conn[s].id, FALSE, conn[s].events, Queued(s))
    <3>1. \E x \in Tags : OwnedBy(s, x)'
      <4>1. /\ ~ServerHas(s)' /\ ~RouterOwns(s)' /\ s \in Elems(accepting') /\ conn'[s].open
            /\ \A d \in Clients : ~ClientHas(d, s)'
        BY <1>0, <2>0, <2>2, <2>3 DEF ServerHas, RouterOwns, RouterIs, ClientHas, Becomes
      <4> QED
        BY <2>0, <4>1, OwnedByQueue
    <3>2. \A u \in SlotIds : u # s => SameOwner(u)
      BY <1>0, <2>0, <2>3 DEF SameOwner, ServerHas, RouterOwns, RouterIs, ClientHas, Becomes
    <3> QED
      BY <1>0, <2>0, <3>1, <3>2, OwnedMoves
  <2>4. CASE /\ conn[s].post /\ accepting' = accepting
             /\ Becomes(s, FALSE, conn[s].id, conn[s].post, 0, {})
    <3>1. \E x \in Tags : OwnedBy(s, x)'
      <4>1. /\ ~ServerHas(s)' /\ ~RouterOwns(s)' /\ s \notin Elems(accepting') /\ ~conn'[s].open
            /\ \A d \in Clients : ~ClientHas(d, s)'
        BY <1>0, <2>0, <2>2, <2>4 DEF ServerHas, RouterOwns, RouterIs, ClientHas, Becomes
      <4> QED
        BY <2>0, <4>1, OwnedByNobody
    <3>2. \A u \in SlotIds : u # s => SameOwner(u)
      BY <1>0, <2>0, <2>4 DEF SameOwner, ServerHas, RouterOwns, RouterIs, ClientHas, Becomes
    <3> QED
      BY <1>0, <2>0, <3>1, <3>2, OwnedMoves
  <2> QED
    BY <1>17, <2>s, <2>1, <2>3, <2>4, RouterPostIs
<1>18. ASSUME Accept PROVE Owned'
  <2>1. PICK s \in Elems(accepting) :
          s \in SlotIds /\ ServerIs("read", s, None) /\ Elems(accepting') = Elems(accepting) \ {s}
    BY <1>18, AcceptIs
  <2>2. conn' = conn /\ UNCHANGED <<client, router>> /\ server.at = "accept"
    BY <1>18, AcceptIs
  <2>3. /\ s # Socket /\ conn[s].open /\ ~ServerHas(s) /\ ~RouterOwns(s)
        /\ \A d \in Clients : ~ClientHas(d, s)
    BY <1>0, <2>1, OneOwner DEF ServerSide
  <2>4. \E x \in Tags : OwnedBy(s, x)'
    <3>1. /\ ServerHas(s)' /\ ~RouterOwns(s)' /\ s \notin Elems(accepting') /\ conn'[s].open
          /\ \A d \in Clients : ~ClientHas(d, s)'
      BY <2>1, <2>2, <2>3 DEF ServerHas, ServerIs, RouterOwns, ClientHas
    <3> QED
      BY <2>1, <2>3, <3>1, OwnedByServer
  <2>5. \A u \in SlotIds : u # s => SameOwner(u)
    BY <1>0, <2>1, <2>2 DEF SameOwner, ServerHas, ServerIs, RouterOwns, ClientHas
  <2> QED
    BY <1>0, <2>1, <2>4, <2>5, OwnedMoves
<1>19. ASSUME ServerRead PROVE Owned'
  <2>1. \A u \in SlotIds : SameOwner(u)
    BY <1>0, <1>19, ServerReadIs DEF SameOwner, ServerHas, RouterOwns, ClientHas, ClientIs, ServerIs, RouterIs, Becomes
  <2> QED
    BY <1>0, <2>1, OwnedStays
<1>20. ASSUME ServerTimeout PROVE Owned'
  <2>1. \A u \in SlotIds : SameOwner(u)
    BY <1>0, <1>20, ServerTimeoutIs DEF SameOwner, ServerHas, RouterOwns, ClientHas, ClientIs, ServerIs, RouterIs, Becomes
  <2> QED
    BY <1>0, <2>1, OwnedStays
<1>21. ASSUME ServerReadPacket PROVE Owned'
  <2>1. \A u \in SlotIds : SameOwner(u)
    BY <1>0, <1>21, ServerReadPacketIs DEF SameOwner, ServerHas, RouterOwns, ClientHas, ClientIs, ServerIs, RouterIs, Becomes
  <2> QED
    BY <1>0, <2>1, OwnedStays
<1>22. ASSUME Serve PROVE Owned'
  <2>1. \A u \in SlotIds : SameOwner(u)
    BY <1>0, <1>22, ServeIs DEF SameOwner, ServerHas, RouterOwns, ClientHas, ClientIs, ServerIs, RouterIs, Becomes
  <2> QED
    BY <1>0, <2>1, OwnedStays
<1>23. ASSUME ServerSendEvent PROVE Owned'
  <2>1. \A u \in SlotIds : SameOwner(u)
    BY <1>0, <1>23, ServerSendEventIs DEF SameOwner, ServerHas, RouterOwns, ClientHas, ClientIs, ServerIs, RouterIs, Becomes
  <2> QED
    BY <1>0, <2>1, OwnedStays
<1>24. ASSUME ServerClose PROVE Owned'
  <2>0. PICK s : s = server.slot
    OBVIOUS
  <2>1. /\ s \in SlotIds /\ s # Socket /\ ServerHas(s)
        /\ UNCHANGED <<client, router, accepting>>
        /\ ServerIs("closing", s, None)
        /\ Becomes(s, FALSE, conn[s].id, conn[s].post, conn[s].events, {})
    BY <1>24, <2>0, ServerCloseIs, ServerFacts
  <2>2. /\ ~RouterOwns(s) /\ s \notin Elems(accepting)
        /\ \A d \in Clients : ~ClientHas(d, s)
    BY <1>0, <2>1, OneOwner DEF ServerSide
  <2>3. /\ ~ServerHas(s)' /\ ~RouterOwns(s)' /\ s \notin Elems(accepting') /\ ~conn'[s].open
    BY <2>1, <2>2 DEF ServerHas, ServerIs, RouterOwns, Becomes
  <2>4. \A d \in Clients : ~ClientHas(d, s)'
    BY <2>1, <2>2 DEF ClientHas
  <2>5. \A u \in SlotIds : u # s => SameOwner(u)
    BY <1>0, <1>24, <2>1 DEF SameOwner, ServerHas, ServerIs, RouterOwns, ClientHas, Becomes
  <2> QED
    BY <1>0, <2>1, <2>3, <2>4, <2>5, OwnedByNobody, OwnedMoves
<1>25. ASSUME ServerCloseEnds PROVE Owned'
  <2>1. \A u \in SlotIds : SameOwner(u)
    BY <1>0, <1>25, ServerCloseEndsIs DEF SameOwner, ServerHas, RouterOwns, ClientHas, ClientIs, ServerIs, RouterIs, Becomes
  <2> QED
    BY <1>0, <2>1, OwnedStays
<1> QED
  BY <1>1, <1>2, <1>3, <1>4, <1>5, <1>6, <1>7, <1>8, <1>9, <1>10, <1>11, <1>12, <1>13, <1>14, <1>15, <1>16, <1>17, <1>18, <1>19, <1>20, <1>21, <1>22, <1>23, <1>24, <1>25
     DEF NodeNext, ClientNext, RouterNext, ServerNext

----------------------------------------------------------------------------
\* Every packet keeps one place

LEMMA IsFree ==
  ASSUME NEW b \in Buffers,
         b \in free',
         b \notin InFifo',
         server'.buf # b,
         ~(router'.buf = b /\ router'.at # "event"),
         \A d \in Clients : client'[d].buf # b,
         \A u \in SlotIds : b \notin Queued(u)'
  PROVE  \E x \in Spots : HeldAt(b, x)'
<1> DEFINE y == <<"free", 0>>
<1>1. y \in Spots
  BY DEF Spots
<1>2. /\ y # <<"fifo", 0>> /\ y # <<"server", 0>> /\ y # <<"router", 0>>
      /\ \A d \in Clients : y # <<"client", d>>
      /\ \A u \in SlotIds : y # <<"conn", u>>
  OBVIOUS
<1>3. y = <<"free", 0>>
  OBVIOUS
<1> HIDE DEF y
<1>4. HeldAt(b, y)'
  BY <1>1, <1>2, <1>3 DEF HeldAt
<1> QED
  BY <1>1, <1>4

LEMMA IsInFifo ==
  ASSUME NEW b \in Buffers,
         b \notin free',
         b \in InFifo',
         server'.buf # b,
         ~(router'.buf = b /\ router'.at # "event"),
         \A d \in Clients : client'[d].buf # b,
         \A u \in SlotIds : b \notin Queued(u)'
  PROVE  \E x \in Spots : HeldAt(b, x)'
<1> DEFINE y == <<"fifo", 0>>
<1>1. y \in Spots
  BY DEF Spots
<1>2. /\ y # <<"free", 0>> /\ y # <<"server", 0>> /\ y # <<"router", 0>>
      /\ \A d \in Clients : y # <<"client", d>>
      /\ \A u \in SlotIds : y # <<"conn", u>>
  OBVIOUS
<1>3. y = <<"fifo", 0>>
  OBVIOUS
<1> HIDE DEF y
<1>4. HeldAt(b, y)'
  BY <1>1, <1>2, <1>3 DEF HeldAt
<1> QED
  BY <1>1, <1>4

LEMMA IsAtServer ==
  ASSUME NEW b \in Buffers,
         b \notin free',
         b \notin InFifo',
         server'.buf = b,
         ~(router'.buf = b /\ router'.at # "event"),
         \A d \in Clients : client'[d].buf # b,
         \A u \in SlotIds : b \notin Queued(u)'
  PROVE  \E x \in Spots : HeldAt(b, x)'
<1> DEFINE y == <<"server", 0>>
<1>1. y \in Spots
  BY DEF Spots
<1>2. /\ y # <<"free", 0>> /\ y # <<"fifo", 0>> /\ y # <<"router", 0>>
      /\ \A d \in Clients : y # <<"client", d>>
      /\ \A u \in SlotIds : y # <<"conn", u>>
  OBVIOUS
<1>3. y = <<"server", 0>>
  OBVIOUS
<1> HIDE DEF y
<1>4. HeldAt(b, y)'
  BY <1>1, <1>2, <1>3 DEF HeldAt
<1> QED
  BY <1>1, <1>4

LEMMA IsAtRouter ==
  ASSUME NEW b \in Buffers,
         b \notin free',
         b \notin InFifo',
         server'.buf # b,
         router'.buf = b /\ router'.at # "event",
         \A d \in Clients : client'[d].buf # b,
         \A u \in SlotIds : b \notin Queued(u)'
  PROVE  \E x \in Spots : HeldAt(b, x)'
<1> DEFINE y == <<"router", 0>>
<1>1. y \in Spots
  BY DEF Spots
<1>2. /\ y # <<"free", 0>> /\ y # <<"fifo", 0>> /\ y # <<"server", 0>>
      /\ \A d \in Clients : y # <<"client", d>>
      /\ \A u \in SlotIds : y # <<"conn", u>>
  OBVIOUS
<1>3. y = <<"router", 0>>
  OBVIOUS
<1> HIDE DEF y
<1>4. HeldAt(b, y)'
  BY <1>1, <1>2, <1>3 DEF HeldAt
<1> QED
  BY <1>1, <1>4

LEMMA IsAtClient ==
  ASSUME NEW b \in Buffers,
         b \notin free',
         b \notin InFifo',
         server'.buf # b,
         ~(router'.buf = b /\ router'.at # "event"),
         NEW c \in Clients, \A d \in Clients : client'[d].buf = b <=> d = c,
         \A u \in SlotIds : b \notin Queued(u)'
  PROVE  \E x \in Spots : HeldAt(b, x)'
<1> DEFINE y == <<"client", c>>
<1>1. y \in Spots
  BY DEF Spots
<1>2. /\ y # <<"free", 0>> /\ y # <<"fifo", 0>> /\ y # <<"server", 0>> /\ y # <<"router", 0>>
      /\ \A d \in Clients : y = <<"client", d>> <=> d = c
      /\ \A u \in SlotIds : y # <<"conn", u>>
  OBVIOUS
<1> HIDE DEF y
<1>4. HeldAt(b, y)'
  BY <1>1, <1>2 DEF HeldAt
<1> QED
  BY <1>1, <1>4

LEMMA IsQueued ==
  ASSUME NEW b \in Buffers,
         b \notin free',
         b \notin InFifo',
         server'.buf # b,
         ~(router'.buf = b /\ router'.at # "event"),
         \A d \in Clients : client'[d].buf # b,
         NEW s \in SlotIds, \A u \in SlotIds : b \in Queued(u)' <=> u = s
  PROVE  \E x \in Spots : HeldAt(b, x)'
<1> DEFINE y == <<"conn", s>>
<1>1. y \in Spots
  BY DEF Spots
<1>2. /\ y # <<"free", 0>> /\ y # <<"fifo", 0>> /\ y # <<"server", 0>> /\ y # <<"router", 0>>
      /\ \A d \in Clients : y # <<"client", d>>
      /\ \A u \in SlotIds : y = <<"conn", u>> <=> u = s
  OBVIOUS
<1> HIDE DEF y
<1>4. HeldAt(b, y)'
  BY <1>1, <1>2 DEF HeldAt
<1> QED
  BY <1>1, <1>4

\* The packets that keep their place need no proof.
SameSpot(b) ==
  /\ b \in free' <=> b \in free
  /\ b \in InFifo' <=> b \in InFifo
  /\ server'.buf = b <=> server.buf = b
  /\ (router'.buf = b /\ router'.at # "event") <=> (router.buf = b /\ router.at # "event")
  /\ \A c \in Clients : client'[c].buf = b <=> client[c].buf = b
  /\ \A s \in SlotIds : b \in Queued(s)' <=> b \in Queued(s)

LEMMA HeldKept ==
  ASSUME Held, NEW b \in Buffers, SameSpot(b)
  PROVE  \E x \in Spots : HeldAt(b, x)'
<1>1. PICK x \in Spots : HeldAt(b, x)
  BY DEF Held
<1>2. HeldAt(b, x)'
  BY <1>1 DEF HeldAt, SameSpot
<1> QED
  BY <1>2

LEMMA HeldStep ==
  ASSUME NodeInv, NodeNext
  PROVE  Held'
<1> SUFFICES ASSUME NEW b \in Buffers PROVE \E x \in Spots : HeldAt(b, x)'
  BY DEF Held
<1>0. Held /\ b # None
  BY Unpack, BuffersFinite
<1>a. /\ b \in free =>
           /\ b \notin InFifo /\ server.buf # b /\ ~(router.buf = b /\ router.at # "event")
           /\ \A d \in Clients : client[d].buf # b
           /\ \A u \in SlotIds : b \notin Queued(u)
      /\ b \in InFifo =>
           /\ server.buf # b /\ ~(router.buf = b /\ router.at # "event")
           /\ \A d \in Clients : client[d].buf # b
           /\ \A u \in SlotIds : b \notin Queued(u)
      /\ server.buf = b =>
           /\ ~(router.buf = b /\ router.at # "event")
           /\ \A d \in Clients : client[d].buf # b
           /\ \A u \in SlotIds : b \notin Queued(u)
      /\ router.buf = b /\ router.at # "event" =>
           /\ \A d \in Clients : client[d].buf # b
           /\ \A u \in SlotIds : b \notin Queued(u)
      /\ \A d \in Clients : client[d].buf = b =>
           /\ \A e \in Clients : client[e].buf = b => e = d
           /\ \A u \in SlotIds : b \notin Queued(u)
      /\ \A u, v \in SlotIds : b \in Queued(u) /\ b \in Queued(v) => u = v
  BY <1>0, OnePlace
<1>1. ASSUME NEW c \in Clients, Connect(c) PROVE \E x \in Spots : HeldAt(b, x)'
  <2>1. SameSpot(b)
    BY <1>0, <1>a, <1>1, ClientFacts, ConnectIs DEF SameSpot, ClientIs, ServerIs, RouterIs, Becomes
  <2> QED
    BY <1>0, <2>1, HeldKept
<1>2. ASSUME NEW c \in Clients, ClientFlushPackets(c) PROVE \E x \in Spots : HeldAt(b, x)'
  <2>1. PICK s : s = client[c].slot
    OBVIOUS
  <2>2. /\ s \in SlotIds /\ free' = free \cup Queued(s) /\ UNCHANGED <<InFifo, server, router>>
        /\ \A d \in Clients : client'[d].buf = client[d].buf
        /\ \A u \in SlotIds : u = s => Queued(u)' = {}
        /\ \A u \in SlotIds : u # s => Queued(u)' = Queued(u)
    <3>1. client[c].at = "new"
      BY <1>2, ClientFlushPacketsIs
    <3>2. s \in SlotIds /\ client[c].buf = None
      BY <2>1, <3>1, ClientFacts
    <3> QED
      BY <1>2, <2>1, <3>2, ClientFlushPacketsIs DEF ClientIs, Becomes
  <2>3. CASE b \in Queued(s)
    <3>1. /\ b \notin InFifo /\ server.buf # b /\ ~(router.buf = b /\ router.at # "event")
          /\ \A d \in Clients : client[d].buf # b
          /\ \A u \in SlotIds : b \in Queued(u) => u = s
      BY <1>a, <2>2, <2>3
    <3>2. \A u \in SlotIds : b \notin Queued(u)'
      BY <2>2, <3>1
    <3> QED
      BY <2>2, <2>3, <3>1, <3>2, IsFree
  <2>4. CASE b \notin Queued(s)
    <3>1. SameSpot(b)
      BY <2>2, <2>4 DEF SameSpot
    <3> QED
      BY <1>0, <3>1, HeldKept
  <2> QED
    BY <2>3, <2>4
<1>3. ASSUME NEW c \in Clients, ClientFlushEvents(c) PROVE \E x \in Spots : HeldAt(b, x)'
  <2>1. SameSpot(b)
    BY <1>0, <1>a, <1>3, ClientFacts, ClientFlushEventsIs DEF SameSpot, ClientIs, ServerIs, RouterIs, Becomes
  <2> QED
    BY <1>0, <2>1, HeldKept
<1>4. ASSUME NEW c \in Clients, ClientSend(c) PROVE \E x \in Spots : HeldAt(b, x)'
  <2>1. CASE UNCHANGED <<free, content, InFifo>> /\ ClientIs(c, "close", client[c].call, client[c].slot, None)
    <3>1. SameSpot(b)
      BY <1>0, <1>a, <1>4, <2>1, ClientFacts, ClientSendIs DEF SameSpot, ClientIs, ServerIs, RouterIs, Becomes
    <3> QED
      BY <1>0, <3>1, HeldKept
  <2>2. CASE \E x \in free :
               /\ x \in Buffers /\ ClientIs(c, "sent", client[c].call, client[c].slot, None)
               /\ free' = free \ {x} /\ InFifo' = InFifo \cup {x}
    <3>1. PICK x \in free :
            /\ x \in Buffers /\ ClientIs(c, "sent", client[c].call, client[c].slot, None)
            /\ free' = free \ {x} /\ InFifo' = InFifo \cup {x}
      BY <2>2
    <3>2. CASE b = x
      <4>1. /\ UNCHANGED <<server, router>>
            /\ \A u \in SlotIds : Queued(u)' = Queued(u)
            /\ \A d \in Clients : client'[d].buf = None \/ client'[d].buf = client[d].buf
        BY <1>4, <3>1, ClientSendIs DEF ClientIs
      <4>2. /\ b \notin InFifo /\ server.buf # b /\ ~(router.buf = b /\ router.at # "event")
            /\ \A d \in Clients : client[d].buf # b
            /\ \A u \in SlotIds : b \notin Queued(u)
        BY <1>a, <3>2
      <4>3. \A d \in Clients : client'[d].buf # b
        BY <1>0, <4>1, <4>2
      <4>4. b \notin free' /\ b \in InFifo'
        BY <3>1, <3>2
      <4> QED
        BY <4>1, <4>2, <4>3, <4>4, IsInFifo
    <3>3. CASE b # x
      <4>1. SameSpot(b)
        BY <1>0, <1>a, <1>4, <3>1, <3>3, ClientFacts, ClientSendIs DEF SameSpot, ClientIs, ServerIs, RouterIs, Becomes
      <4> QED
        BY <1>0, <4>1, HeldKept
    <3> QED
      BY <3>2, <3>3
  <2> QED
    BY <1>4, <2>1, <2>2, ClientSendIs
<1>5. ASSUME NEW c \in Clients, ClientSendEvent(c) PROVE \E x \in Spots : HeldAt(b, x)'
  <2>1. SameSpot(b)
    BY <1>0, <1>a, <1>5, ClientFacts, ClientSendEventIs DEF SameSpot, ClientIs, ServerIs, RouterIs, Becomes
  <2> QED
    BY <1>0, <2>1, HeldKept
<1>6. ASSUME NEW c \in Clients, ClientRead(c) PROVE \E x \in Spots : HeldAt(b, x)'
  <2>1. SameSpot(b)
    BY <1>0, <1>a, <1>6, ClientFacts, ClientReadIs DEF SameSpot, ClientIs, ServerIs, RouterIs, Becomes
  <2> QED
    BY <1>0, <2>1, HeldKept
<1>7. ASSUME NEW c \in Clients, ClientTimeout(c) PROVE \E x \in Spots : HeldAt(b, x)'
  <2>1. SameSpot(b)
    BY <1>0, <1>a, <1>7, ClientFacts, ClientTimeoutIs DEF SameSpot, ClientIs, ServerIs, RouterIs, Becomes
  <2> QED
    BY <1>0, <2>1, HeldKept
<1>8. ASSUME NEW c \in Clients, ClientReadPacket(c) PROVE \E x \in Spots : HeldAt(b, x)'
  <2>1. CASE \E x \in Queued(client[c].slot) :
               LET s == client[c].slot
               IN  /\ x \in Buffers /\ ClientIs(c, "close", client[c].call, s, x)
                   /\ Becomes(s, conn[s].open, conn[s].id, conn[s].post, conn[s].events, Queued(s) \ {x})
    <3>1. PICK x \in Queued(client[c].slot) :
            LET s == client[c].slot
            IN  /\ x \in Buffers /\ ClientIs(c, "close", client[c].call, s, x)
                /\ Becomes(s, conn[s].open, conn[s].id, conn[s].post, conn[s].events, Queued(s) \ {x})
      BY <2>1
    <3>2. CASE b = x
      <4>1. /\ b \notin free'
            /\ b \notin InFifo'
            /\ server'.buf # b
            /\ ~(router'.buf = b /\ router'.at # "event")
            /\ \A d \in Clients : client'[d].buf = b <=> d = c
            /\ \A u \in SlotIds : b \notin Queued(u)'
        BY <1>0, <1>a, <1>8, <3>1, <3>2, ClientFacts, ClientReadPacketIs, ZenonT(60) DEF ClientIs, ServerIs, RouterIs, Becomes
      <4> QED
        BY <4>1, IsAtClient
    <3>3. CASE b # x
      <4>1. SameSpot(b)
        BY <1>0, <1>a, <1>8, <3>1, <3>3, ClientFacts, ClientReadPacketIs, ZenonT(60) DEF SameSpot, ClientIs, ServerIs, RouterIs, Becomes
      <4> QED
        BY <1>0, <4>1, HeldKept
    <3> QED
      BY <3>2, <3>3
  <2>2. CASE ClientIs(c, "close", client[c].call, client[c].slot, None) /\ \A u \in SlotIds : Queued(u)' = Queued(u)
    <3>1. SameSpot(b)
      BY <1>0, <1>a, <1>8, <2>2, ClientFacts, ClientReadPacketIs DEF SameSpot, ClientIs, ServerIs, RouterIs, Becomes
    <3> QED
      BY <1>0, <3>1, HeldKept
  <2> QED
    BY <1>8, <2>1, <2>2, ClientReadPacketIs
<1>9. ASSUME NEW c \in Clients, ClientClose(c) PROVE \E x \in Spots : HeldAt(b, x)'
  <2>1. PICK s : s = client[c].slot
    OBVIOUS
  <2>2. /\ s \in SlotIds /\ free' = free \cup ({client[c].buf} \ {None}) \cup Queued(s)
        /\ UNCHANGED <<InFifo, server, router>>
        /\ client'[c].buf = None
        /\ \A d \in Clients : d # c => client'[d].buf = client[d].buf
        /\ \A u \in SlotIds : u = s => Queued(u)' = {}
        /\ \A u \in SlotIds : u # s => Queued(u)' = Queued(u)
    BY <1>9, <2>1, ClientFacts, ClientCloseIs, ZenonT(60) DEF ClientIs, Becomes
  <2>3. CASE b \in Queued(s)
    <3>1. /\ b \notin InFifo /\ server.buf # b /\ ~(router.buf = b /\ router.at # "event")
          /\ \A d \in Clients : client[d].buf # b
          /\ \A u \in SlotIds : b \in Queued(u) => u = s
      BY <1>a, <2>2, <2>3
    <3>2. \A u \in SlotIds : b \notin Queued(u)'
      BY <2>2, <3>1
    <3>3. \A d \in Clients : client'[d].buf # b
      BY <1>0, <2>2, <3>1
    <3> QED
      BY <2>2, <2>3, <3>1, <3>2, <3>3, IsFree
  <2>4. CASE b = client[c].buf
    <3>1. /\ b \notin InFifo /\ server.buf # b /\ ~(router.buf = b /\ router.at # "event")
          /\ \A d \in Clients : client[d].buf = b => d = c
          /\ \A u \in SlotIds : b \notin Queued(u)
      BY <1>a, <2>4
    <3>2. \A u \in SlotIds : b \notin Queued(u)'
      BY <2>2, <3>1
    <3>3. \A d \in Clients : client'[d].buf # b
      BY <1>0, <2>2, <3>1
    <3>4. b \in free'
      BY <1>0, <2>2, <2>4
    <3> QED
      BY <2>2, <3>1, <3>2, <3>3, <3>4, IsFree
  <2>5. CASE b \notin Queued(s) /\ b # client[c].buf
    <3>1. SameSpot(b)
      <4>1. b \in free' <=> b \in free
        BY <2>2, <2>5
      <4>2. \A d \in Clients : client'[d].buf = b <=> client[d].buf = b
        BY <1>0, <2>2, <2>5
      <4>3. \A u \in SlotIds : b \in Queued(u)' <=> b \in Queued(u)
        BY <2>2, <2>5
      <4> QED
        BY <2>2, <4>1, <4>2, <4>3 DEF SameSpot
    <3> QED
      BY <1>0, <3>1, HeldKept
  <2> QED
    BY <2>3, <2>4, <2>5
<1>10. ASSUME NEW c \in Clients, ClientCloseEnds(c) PROVE \E x \in Spots : HeldAt(b, x)'
  <2>1. SameSpot(b)
    BY <1>0, <1>a, <1>10, ClientFacts, ClientCloseEndsIs DEF SameSpot, ClientIs, ServerIs, RouterIs, Becomes
  <2> QED
    BY <1>0, <2>1, HeldKept
<1>11. ASSUME RouterRead PROVE \E x \in Spots : HeldAt(b, x)'
  <2>1. PICK x \in InFifo : /\ RouterIs("find", None, x) /\ InFifo' = InFifo \ {x}
    BY <1>11, RouterReadIs
  <2>2. CASE b = x
    <3>1. /\ b \notin free'
          /\ b \notin InFifo'
          /\ server'.buf # b
          /\ router'.buf = b /\ router'.at # "event"
          /\ \A d \in Clients : client'[d].buf # b
          /\ \A u \in SlotIds : b \notin Queued(u)'
      BY <1>0, <1>a, <1>11, <2>1, <2>2, RouterFacts, RouterReadIs DEF ClientIs, ServerIs, RouterIs, Becomes
    <3> QED
      BY <3>1, IsAtRouter
  <2>3. CASE b # x
    <3>1. SameSpot(b)
      BY <1>0, <1>a, <1>11, <2>1, <2>3, RouterFacts, RouterReadIs DEF SameSpot, ClientIs, ServerIs, RouterIs, Becomes
    <3> QED
      BY <1>0, <3>1, HeldKept
  <2> QED
    BY <2>2, <2>3
<1>12. ASSUME RouterFind PROVE \E x \in Spots : HeldAt(b, x)'
  <2>1. CASE \E s \in SlotIds : RouterIs("put", s, router.buf) /\ free' = free /\ \A u \in SlotIds : Queued(u)' = Queued(u)
    <3>1. SameSpot(b)
      BY <1>0, <1>a, <1>12, <2>1, RouterFacts, RouterFindIs DEF SameSpot, ClientIs, ServerIs, RouterIs, Becomes
    <3> QED
      BY <1>0, <3>1, HeldKept
  <2>2. CASE \E s \in SlotIds :
               /\ RouterIs("new", s, router.buf) /\ free' = free
               /\ Becomes(s, TRUE, content[router.buf].id, FALSE, conn[s].events, Queued(s))
    <3>1. SameSpot(b)
      BY <1>0, <1>a, <1>12, <2>2, RouterFacts, RouterFindIs DEF SameSpot, ClientIs, ServerIs, RouterIs, Becomes
    <3> QED
      BY <1>0, <3>1, HeldKept
  <2>3. CASE /\ RouterIs("wait", None, None) /\ free' = free \cup {router.buf}
             /\ \A u \in SlotIds : Queued(u)' = Queued(u)
    <3>1. router.at = "find"
      BY <1>12, RouterFindIs
    <3>2. CASE b = router.buf
      <4>1. /\ b \in free'
            /\ b \notin InFifo'
            /\ server'.buf # b
            /\ ~(router'.buf = b /\ router'.at # "event")
            /\ \A d \in Clients : client'[d].buf # b
            /\ \A u \in SlotIds : b \notin Queued(u)'
        BY <1>0, <1>a, <1>12, <2>3, <3>1, <3>2, RouterFacts, RouterFindIs DEF ClientIs, ServerIs, RouterIs, Becomes
      <4> QED
        BY <4>1, IsFree
    <3>3. CASE b # router.buf
      <4>1. SameSpot(b)
        BY <1>0, <1>a, <1>12, <2>3, <3>1, <3>3, RouterFacts, RouterFindIs DEF SameSpot, ClientIs, ServerIs, RouterIs, Becomes
      <4> QED
        BY <1>0, <4>1, HeldKept
    <3> QED
      BY <3>2, <3>3
  <2> QED
    BY <1>12, <2>1, <2>2, <2>3, RouterFindIs
<1>13. ASSUME RouterFlushPackets PROVE \E x \in Spots : HeldAt(b, x)'
  <2>1. CASE b \in Queued(router.slot)
    <3>1. /\ b \in free' /\ b \notin InFifo' /\ server'.buf # b
          /\ ~(router'.buf = b /\ router'.at # "event")
          /\ \A d \in Clients : client'[d].buf # b
          /\ \A u \in SlotIds : b \notin Queued(u)'
      BY <1>0, <1>a, <1>13, <2>1, RouterFacts, RouterFlushPacketsIs DEF ClientIs, ServerIs, RouterIs, Becomes
    <3> QED
      BY <3>1, IsFree
  <2>2. CASE b \notin Queued(router.slot)
    <3>1. SameSpot(b)
      BY <1>0, <1>a, <1>13, <2>2, RouterFacts, RouterFlushPacketsIs DEF SameSpot, ClientIs, ServerIs, RouterIs, Becomes
    <3> QED
      BY <1>0, <3>1, HeldKept
  <2> QED
    BY <2>1, <2>2
<1>14. ASSUME RouterFlushEvents PROVE \E x \in Spots : HeldAt(b, x)'
  <2>1. SameSpot(b)
    BY <1>0, <1>a, <1>14, RouterFacts, RouterFlushEventsIs DEF SameSpot, ClientIs, ServerIs, RouterIs, Becomes
  <2> QED
    BY <1>0, <2>1, HeldKept
<1>15. ASSUME RouterPut PROVE \E x \in Spots : HeldAt(b, x)'
  <2>1. router.slot \in SlotIds /\ router.at = "put" /\ router.buf \in Buffers
    BY <1>15, RouterPutIs
  <2>2. CASE b = router.buf
    <3>1. /\ b \notin free'
          /\ b \notin InFifo'
          /\ server'.buf # b
          /\ ~(router'.buf = b /\ router'.at # "event")
          /\ \A d \in Clients : client'[d].buf # b
          /\ \A u \in SlotIds : b \in Queued(u)' <=> u = router.slot
      BY <1>0, <1>a, <1>15, <2>1, <2>2, RouterFacts, RouterPutIs DEF ClientIs, ServerIs, RouterIs, Becomes
    <3> QED
      BY <3>1, IsQueued, <2>1
  <2>3. CASE b # router.buf
    <3>1. SameSpot(b)
      BY <1>0, <1>a, <1>15, <2>1, <2>3, RouterFacts, RouterPutIs DEF SameSpot, ClientIs, ServerIs, RouterIs, Becomes
    <3> QED
      BY <1>0, <3>1, HeldKept
  <2> QED
    BY <2>2, <2>3
<1>16. ASSUME RouterEvent PROVE \E x \in Spots : HeldAt(b, x)'
  <2>1. SameSpot(b)
    BY <1>0, <1>a, <1>16, RouterFacts, RouterEventIs DEF SameSpot, ClientIs, ServerIs, RouterIs, Becomes
  <2> QED
    BY <1>0, <2>1, HeldKept
<1>17. ASSUME RouterPost PROVE \E x \in Spots : HeldAt(b, x)'
  <2>1. CASE free' = free /\ \A u \in SlotIds : Queued(u)' = Queued(u)
    <3>1. SameSpot(b)
      BY <1>0, <1>a, <1>17, <2>1, RouterFacts, RouterPostIs DEF SameSpot, ClientIs, ServerIs, RouterIs, Becomes
    <3> QED
      BY <1>0, <3>1, HeldKept
  <2>2. CASE LET s == router.slot
             IN  free' = free /\ Becomes(s, conn[s].open, conn[s].id, FALSE, conn[s].events, Queued(s))
    <3>1. SameSpot(b)
      BY <1>0, <1>a, <1>17, <2>2, RouterFacts, RouterPostIs DEF SameSpot, ClientIs, ServerIs, RouterIs, Becomes
    <3> QED
      BY <1>0, <3>1, HeldKept
  <2>3. CASE LET s == router.slot
             IN  free' = free \cup Queued(s) /\ Becomes(s, FALSE, conn[s].id, conn[s].post, 0, {})
    <3>1. CASE b \in Queued(router.slot)
      <4>1. /\ b \in free' /\ b \notin InFifo' /\ server'.buf # b
            /\ ~(router'.buf = b /\ router'.at # "event")
            /\ \A d \in Clients : client'[d].buf # b
            /\ \A u \in SlotIds : b \notin Queued(u)'
        BY <1>0, <1>a, <1>17, <2>3, <3>1, RouterFacts, RouterPostIs DEF ClientIs, ServerIs, RouterIs, Becomes
      <4> QED
        BY <4>1, IsFree
    <3>2. CASE b \notin Queued(router.slot)
      <4>1. SameSpot(b)
        BY <1>0, <1>a, <1>17, <2>3, <3>2, RouterFacts, RouterPostIs DEF SameSpot, ClientIs, ServerIs, RouterIs, Becomes
      <4> QED
        BY <1>0, <4>1, HeldKept
    <3> QED
      BY <3>1, <3>2
  <2> QED
    BY <1>17, <2>1, <2>2, <2>3, RouterPostIs
<1>18. ASSUME Accept PROVE \E x \in Spots : HeldAt(b, x)'
  <2>1. SameSpot(b)
    BY <1>0, <1>a, <1>18, ServerFacts, AcceptIs DEF SameSpot, ClientIs, ServerIs, RouterIs, Becomes
  <2> QED
    BY <1>0, <2>1, HeldKept
<1>19. ASSUME ServerRead PROVE \E x \in Spots : HeldAt(b, x)'
  <2>1. SameSpot(b)
    BY <1>0, <1>a, <1>19, ServerFacts, ServerReadIs DEF SameSpot, ClientIs, ServerIs, RouterIs, Becomes
  <2> QED
    BY <1>0, <2>1, HeldKept
<1>20. ASSUME ServerTimeout PROVE \E x \in Spots : HeldAt(b, x)'
  <2>1. SameSpot(b)
    BY <1>0, <1>a, <1>20, ServerFacts, ServerTimeoutIs DEF SameSpot, ClientIs, ServerIs, RouterIs, Becomes
  <2> QED
    BY <1>0, <2>1, HeldKept
<1>21. ASSUME ServerReadPacket PROVE \E x \in Spots : HeldAt(b, x)'
  <2>1. CASE \E x \in Queued(server.slot) :
               LET s == server.slot
               IN  /\ x \in Buffers /\ ServerIs("serve", s, x)
                   /\ Becomes(s, conn[s].open, conn[s].id, conn[s].post, conn[s].events, Queued(s) \ {x})
    <3>1. PICK x \in Queued(server.slot) :
            LET s == server.slot
            IN  /\ x \in Buffers /\ ServerIs("serve", s, x)
                /\ Becomes(s, conn[s].open, conn[s].id, conn[s].post, conn[s].events, Queued(s) \ {x})
      BY <2>1
    <3>2. CASE b = x
      <4>1. PICK s : s = server.slot
        OBVIOUS
      <4>2. /\ s \in SlotIds /\ server'.buf = b /\ UNCHANGED <<free, InFifo, client, router>>
            /\ \A u \in SlotIds : u = s => Queued(u)' = Queued(s) \ {b}
            /\ \A u \in SlotIds : u # s => Queued(u)' = Queued(u)
        BY <1>21, <3>1, <3>2, <4>1, ServerReadPacketIs DEF ServerIs, Becomes
      <4>3. b \in Queued(s)
        BY <3>1, <3>2, <4>1
      <4>4. /\ b \notin free /\ b \notin InFifo /\ ~(router.buf = b /\ router.at # "event")
            /\ \A d \in Clients : client[d].buf # b
            /\ \A u \in SlotIds : b \in Queued(u) => u = s
        BY <1>a, <4>2, <4>3
      <4>5. \A u \in SlotIds : b \notin Queued(u)'
        BY <4>2, <4>4
      <4> QED
        BY <4>2, <4>4, <4>5, IsAtServer
    <3>3. CASE b # x
      <4>1. SameSpot(b)
        BY <1>0, <1>a, <1>21, <3>1, <3>3, ServerFacts, ServerReadPacketIs DEF SameSpot, ClientIs, ServerIs, RouterIs, Becomes
      <4> QED
        BY <1>0, <4>1, HeldKept
    <3> QED
      BY <3>2, <3>3
  <2>2. CASE ServerIs("close", server.slot, None) /\ \A u \in SlotIds : Queued(u)' = Queued(u)
    <3>1. SameSpot(b)
      BY <1>0, <1>a, <1>21, <2>2, ServerFacts, ServerReadPacketIs DEF SameSpot, ClientIs, ServerIs, RouterIs, Becomes
    <3> QED
      BY <1>0, <3>1, HeldKept
  <2> QED
    BY <1>21, <2>1, <2>2, ServerReadPacketIs
<1>22. ASSUME Serve PROVE \E x \in Spots : HeldAt(b, x)'
  <2>1. CASE ServerIs("replied", server.slot, None) /\ free' = free /\ InFifo' = InFifo \cup {server.buf}
    <3>1. server.at = "serve"
      BY <1>22, ServeIs
    <3>2. CASE b = server.buf
      <4>1. /\ b \notin free'
            /\ b \in InFifo'
            /\ server'.buf # b
            /\ ~(router'.buf = b /\ router'.at # "event")
            /\ \A d \in Clients : client'[d].buf # b
            /\ \A u \in SlotIds : b \notin Queued(u)'
        BY <1>0, <1>a, <1>22, <2>1, <3>1, <3>2, ServerFacts, ServeIs DEF ClientIs, ServerIs, RouterIs, Becomes
      <4> QED
        BY <4>1, IsInFifo
    <3>3. CASE b # server.buf
      <4>1. SameSpot(b)
        BY <1>0, <1>a, <1>22, <2>1, <3>1, <3>3, ServerFacts, ServeIs DEF SameSpot, ClientIs, ServerIs, RouterIs, Becomes
      <4> QED
        BY <1>0, <4>1, HeldKept
    <3> QED
      BY <3>2, <3>3
  <2>2. CASE ServerIs("read", server.slot, None) /\ free' = free \cup {server.buf} /\ InFifo' = InFifo
    <3>1. server.at = "serve"
      BY <1>22, ServeIs
    <3>2. CASE b = server.buf
      <4>1. /\ b \in free'
            /\ b \notin InFifo'
            /\ server'.buf # b
            /\ ~(router'.buf = b /\ router'.at # "event")
            /\ \A d \in Clients : client'[d].buf # b
            /\ \A u \in SlotIds : b \notin Queued(u)'
        BY <1>0, <1>a, <1>22, <2>2, <3>1, <3>2, ServerFacts, ServeIs DEF ClientIs, ServerIs, RouterIs, Becomes
      <4> QED
        BY <4>1, IsFree
    <3>3. CASE b # server.buf
      <4>1. SameSpot(b)
        BY <1>0, <1>a, <1>22, <2>2, <3>1, <3>3, ServerFacts, ServeIs DEF SameSpot, ClientIs, ServerIs, RouterIs, Becomes
      <4> QED
        BY <1>0, <4>1, HeldKept
    <3> QED
      BY <3>2, <3>3
  <2> QED
    BY <1>22, <2>1, <2>2, ServeIs
<1>23. ASSUME ServerSendEvent PROVE \E x \in Spots : HeldAt(b, x)'
  <2>1. SameSpot(b)
    BY <1>0, <1>a, <1>23, ServerFacts, ServerSendEventIs DEF SameSpot, ClientIs, ServerIs, RouterIs, Becomes
  <2> QED
    BY <1>0, <2>1, HeldKept
<1>24. ASSUME ServerClose PROVE \E x \in Spots : HeldAt(b, x)'
  <2>1. CASE b \in Queued(server.slot)
    <3>1. /\ b \in free' /\ b \notin InFifo' /\ server'.buf # b
          /\ ~(router'.buf = b /\ router'.at # "event")
          /\ \A d \in Clients : client'[d].buf # b
          /\ \A u \in SlotIds : b \notin Queued(u)'
      BY <1>0, <1>a, <1>24, <2>1, ServerFacts, ServerCloseIs DEF ClientIs, ServerIs, RouterIs, Becomes
    <3> QED
      BY <3>1, IsFree
  <2>2. CASE b \notin Queued(server.slot)
    <3>1. SameSpot(b)
      BY <1>0, <1>a, <1>24, <2>2, ServerFacts, ServerCloseIs DEF SameSpot, ClientIs, ServerIs, RouterIs, Becomes
    <3> QED
      BY <1>0, <3>1, HeldKept
  <2> QED
    BY <2>1, <2>2
<1>25. ASSUME ServerCloseEnds PROVE \E x \in Spots : HeldAt(b, x)'
  <2>1. SameSpot(b)
    BY <1>0, <1>a, <1>25, ServerFacts, ServerCloseEndsIs DEF SameSpot, ClientIs, ServerIs, RouterIs, Becomes
  <2> QED
    BY <1>0, <2>1, HeldKept
<1> QED
  BY <1>1, <1>2, <1>3, <1>4, <1>5, <1>6, <1>7, <1>8, <1>9, <1>10, <1>11, <1>12, <1>13, <1>14, <1>15, <1>16, <1>17, <1>18, <1>19, <1>20, <1>21, <1>22, <1>23, <1>24, <1>25
     DEF NodeNext, ClientNext, RouterNext, ServerNext

----------------------------------------------------------------------------
\* The packets for a client that opens its connection only become fewer

LEMMA FlightShrinks ==
  ASSUME NEW u \in SlotIds, conn'[u].id = conn[u].id,
         \A b \in Used' : b \in Used \/ Port(content'[b].id) # conn[u].id[2],
         \A b \in Used' : b \in Used => Port(content'[b].id) = Port(content[b].id),
         \A b \in Used' : \A c \in Clients : client[c].buf = b => client'[c].buf = b,
         \A b \in Used' : b \in Queued(u) => b \in Queued(u)',
         \A b \in Used' : router.buf = b /\ router.at = "put" /\ router.slot = u =>
           \/ b \in Queued(u)'
           \/ router'.buf = b /\ router'.at = "put" /\ router'.slot = u
  PROVE  InFlight(u)' \subseteq InFlight(u)
<1> SUFFICES ASSUME NEW b \in InFlight(u)' PROVE b \in InFlight(u)
  OBVIOUS
<1>1. /\ b \in Used' /\ Port(content'[b].id) = conn'[u].id[2]
      /\ \A c \in Clients : client'[c].buf # b
      /\ b \notin Queued(u)'
      /\ ~(router'.buf = b /\ router'.at = "put" /\ router'.slot = u)
  BY DEF InFlight
<1>2. b \in Used /\ Port(content[b].id) = conn[u].id[2]
  BY <1>1
<1>3. \A c \in Clients : client[c].buf # b
  BY <1>1
<1>4. b \notin Queued(u) /\ ~(router.buf = b /\ router.at = "put" /\ router.slot = u)
  BY <1>1
<1> QED
  BY <1>2, <1>3, <1>4 DEF InFlight

\* Most steps change neither the packets nor who has them.
LEMMA FlightStays ==
  ASSUME NEW u \in SlotIds, conn'[u].id = conn[u].id, UNCHANGED content,
         \A b \in Used' : b \in Used,
         \A b \in Used' : \A c \in Clients : client[c].buf = b => client'[c].buf = b,
         \A b \in Used' : b \in Queued(u) => b \in Queued(u)',
         \A b \in Used' : router.buf = b /\ router.at = "put" /\ router.slot = u =>
           \/ b \in Queued(u)'
           \/ router'.buf = b /\ router'.at = "put" /\ router'.slot = u
  PROVE  InFlight(u)' \subseteq InFlight(u)
<1>1. /\ \A b \in Used' : b \in Used \/ Port(content'[b].id) # conn[u].id[2]
      /\ \A b \in Used' : b \in Used => Port(content'[b].id) = Port(content[b].id)
  OBVIOUS
<1> QED
  BY <1>1, FlightShrinks

LEMMA RequestPort ==
  ASSUME NEW id, id[1] \in Ports, id[2] = ServerPort
  PROVE  Port(id) = id[1]
BY BuffersFinite DEF Port, Ports

LEMMA OpeningFacts ==
  ASSUME NodeInv, NEW d \in Clients, NEW u \in SlotIds, Opening(d, u)
  PROVE  /\ conn[u].open /\ u # Socket /\ client[d].slot = u /\ client[d].at \in {"new", "flushed"}
         /\ ClientHas(d, u) /\ ~ServerSide(u) /\ server.slot # u /\ u \notin Elems(accepting)
         /\ ~RouterOwns(u)
         /\ \A e \in Clients : client[e].slot = u => e = d
         /\ router.slot = u => ~conn[u].post
         /\ conn[u].id[1] = ServerPort /\ conn[u].id[2] \in Ports
<1>1. /\ client[d].slot = u /\ client[d].at \in {"new", "flushed"} /\ ClientHas(d, u)
  BY DEF Opening, ClientHas
<1>2. /\ conn[u].open /\ u # Socket /\ ~ServerSide(u) /\ \A e \in Clients : ClientHas(e, u) => e = d
  BY <1>1, Unpack, OneOwner
<1>3. server.slot # u
  BY <1>2, ServerFacts DEF ServerSide, ServerHas
<1>4. \A e \in Clients : client[e].slot = u => e = d
  BY <1>2, ClientFacts DEF ClientHas
<1>5. conn[u].id[1] = ServerPort /\ conn[u].id[2] \in Ports
  BY <1>1, Unpack DEF ConnIds
<1> QED
  BY <1>1, <1>2, <1>3, <1>4, <1>5 DEF ServerSide, RouterOwns

LEMMA FlightStep ==
  ASSUME NodeInv, NodeNext, NEW d \in Clients, NEW u \in SlotIds, Opening(d, u)
  PROVE  InFlight(u)' \subseteq InFlight(u)
<1>0. /\ conn[u].open /\ client[d].slot = u /\ client[d].at \in {"new", "flushed"}
      /\ server.slot # u /\ ~RouterOwns(u) /\ \A e \in Clients : client[e].slot = u => e = d
      /\ ClientHas(d, u) /\ client[d].buf = None
  BY OpeningFacts, ClientFacts
<1>a. None \notin Buffers /\ Used \subseteq Buffers /\ Used' \subseteq Buffers
  BY BuffersFinite DEF Used
<1>1. ASSUME NEW c \in Clients, Connect(c) PROVE InFlight(u)' \subseteq InFlight(u)
  <2>1. client[c].at = "idle" /\ UNCHANGED <<free, content, router>>
    BY <1>1, ConnectIs
  <2>2. client[c].buf = None
    BY <2>1, ClientFacts
  <2>3. conn'[u].id = conn[u].id /\ Queued(u)' = Queued(u)
    BY <1>0, <1>1, ConnectIs DEF Becomes
  <2>4. \A e \in Clients : e # c => client'[e] = client[e]
    BY <1>1, ConnectIs DEF ClientIs
  <2> QED
    BY <1>a, <2>1, <2>2, <2>3, <2>4, FlightStays DEF Used
<1>2. ASSUME NEW c \in Clients, ClientFlushPackets(c) PROVE InFlight(u)' \subseteq InFlight(u)
  <2>1. PICK s : s = client[c].slot
    OBVIOUS
  <2>2. client[c].at = "new" /\ UNCHANGED <<content, router>> /\ free' = free \cup Queued(s)
    BY <1>2, <2>1, ClientFlushPacketsIs
  <2>3. client[c].buf = None /\ s \in SlotIds
    BY <2>1, <2>2, ClientFacts
  <2>4. conn'[u].id = conn[u].id /\ (u # s => Queued(u)' = Queued(u))
    BY <1>2, <2>1, <2>3, ClientFlushPacketsIs DEF Becomes
  <2>5. \A e \in Clients : e # c => client'[e] = client[e]
    BY <1>2, ClientFlushPacketsIs DEF ClientIs
  <2>6. \A b \in Used' : b \in Queued(u) => b \in Queued(u)'
    BY <2>2, <2>4 DEF Used
  <2> QED
    BY <1>a, <2>2, <2>3, <2>4, <2>5, <2>6, FlightStays DEF Used
<1>3. ASSUME NEW c \in Clients, ClientFlushEvents(c) PROVE InFlight(u)' \subseteq InFlight(u)
  <2>1. client[c].at = "flushed" /\ UNCHANGED <<free, content, router>>
    BY <1>3, ClientFlushEventsIs
  <2>2. client[c].buf = None
    BY <2>1, ClientFacts
  <2>3. conn'[u].id = conn[u].id /\ Queued(u)' = Queued(u)
    BY <1>0, <1>3, ClientFlushEventsIs DEF Becomes
  <2>4. \A e \in Clients : e # c => client'[e] = client[e]
    BY <1>3, ClientFlushEventsIs DEF ClientIs
  <2> QED
    BY <1>a, <2>1, <2>2, <2>3, <2>4, FlightStays DEF Used
<1>4. ASSUME NEW c \in Clients, ClientSend(c) PROVE InFlight(u)' \subseteq InFlight(u)
  <2>1. PICK s : s = client[c].slot
    OBVIOUS
  <2>2. client[c].at = "connected" /\ UNCHANGED <<conn, router>> /\ Queued(u)' = Queued(u)
    BY <1>4, ClientSendIs
  <2>3. client[c].buf = None /\ s \in SlotIds /\ ClientHas(c, s)
    BY <2>1, <2>2, ClientFacts
  <2>4. \A e \in Clients : e # c => client'[e] = client[e]
    BY <1>4, ClientSendIs DEF ClientIs
  <2>5. CASE UNCHANGED <<free, content>>
    BY <1>a, <2>2, <2>3, <2>4, <2>5, FlightStays DEF Used
  <2>6. CASE \E b \in free :
              /\ PacketIs(b, <<conn[s].id[2], ServerPort>>, Pri[c], <<c, client[c].call>>, FALSE)
              /\ free' = free \ {b}
    <3>1. PICK b \in free :
              /\ PacketIs(b, <<conn[s].id[2], ServerPort>>, Pri[c], <<c, client[c].call>>, FALSE)
              /\ free' = free \ {b}
      BY <2>6
    <3>2. conn[s].id[2] # conn[u].id[2] /\ conn[s].id[2] \in Ports
      <4>1. s # u
        BY <1>0, <2>1, <2>2
      <4> QED
        BY <1>0, <2>3, <4>1, Unpack DEF ConnIds
    <3>3. b \in Buffers /\ Port(content'[b].id) = conn[s].id[2]
      <4>1. b \in Buffers
        BY Unpack DEF TypeInv, PoolType
      <4>2. content'[b].id = <<conn[s].id[2], ServerPort>>
        BY <3>1 DEF PacketIs
      <4> QED
        BY <3>2, <4>1, <4>2, RequestPort
    <3>4. \A x \in Used' : x \in Used \/ x = b
      BY <3>1 DEF Used
    <3>5. \A x \in Used' : x \in Used => Port(content'[x].id) = Port(content[x].id)
      BY <3>1, <1>a DEF Used, PacketIs
    <3>6. \A x \in Used' : x \in Used \/ Port(content'[x].id) # conn[u].id[2]
      BY <3>2, <3>3, <3>4
    <3>7. \A x \in Used' : \A e \in Clients : client[e].buf = x => client'[e].buf = x
      BY <1>a, <2>3, <2>4
    <3> QED
      BY <2>2, <3>5, <3>6, <3>7, FlightShrinks
  <2> QED
    BY <1>4, <2>1, <2>5, <2>6, ClientSendIs
<1>5. ASSUME NEW c \in Clients, ClientSendEvent(c) PROVE InFlight(u)' \subseteq InFlight(u)
  <2>1. client[c].at = "sent" /\ UNCHANGED <<free, content, router>>
    BY <1>5, ClientSendEventIs
  <2>2. client[c].buf = None
    BY <2>1, ClientFacts
  <2>3. conn'[u].id = conn[u].id /\ Queued(u)' = Queued(u)
    BY <1>0, <1>5, ClientSendEventIs DEF Becomes
  <2>4. \A e \in Clients : e # c => client'[e] = client[e]
    BY <1>5, ClientSendEventIs DEF ClientIs
  <2> QED
    BY <1>a, <2>1, <2>2, <2>3, <2>4, FlightStays DEF Used
<1>6. ASSUME NEW c \in Clients, ClientRead(c) PROVE InFlight(u)' \subseteq InFlight(u)
  <2>1. client[c].at = "read" /\ UNCHANGED <<free, content, router>>
    BY <1>6, ClientReadIs
  <2>2. client[c].buf = None
    BY <2>1, ClientFacts
  <2>3. conn'[u].id = conn[u].id /\ Queued(u)' = Queued(u)
    BY <1>0, <1>6, ClientReadIs DEF Becomes
  <2>4. \A e \in Clients : e # c => client'[e] = client[e]
    BY <1>6, ClientReadIs DEF ClientIs
  <2> QED
    BY <1>a, <2>1, <2>2, <2>3, <2>4, FlightStays DEF Used
<1>7. ASSUME NEW c \in Clients, ClientTimeout(c) PROVE InFlight(u)' \subseteq InFlight(u)
  <2>1. client[c].at = "read" /\ UNCHANGED <<free, content, router>>
    BY <1>7, ClientTimeoutIs
  <2>2. client[c].buf = None
    BY <2>1, ClientFacts
  <2>3. conn'[u].id = conn[u].id /\ Queued(u)' = Queued(u)
    BY <1>0, <1>7, ClientTimeoutIs DEF Becomes
  <2>4. \A e \in Clients : e # c => client'[e] = client[e]
    BY <1>7, ClientTimeoutIs DEF ClientIs
  <2> QED
    BY <1>a, <2>1, <2>2, <2>3, <2>4, FlightStays DEF Used
<1>8. ASSUME NEW c \in Clients, ClientReadPacket(c) PROVE InFlight(u)' \subseteq InFlight(u)
  <2>1. PICK s : s = client[c].slot
    OBVIOUS
  <2>2. client[c].at = "event" /\ UNCHANGED <<free, content, router>>
    BY <1>8, ClientReadPacketIs
  <2>3. client[c].buf = None /\ s \in SlotIds
    BY <2>1, <2>2, ClientFacts
  <2>4. s # u
    BY <1>0, <2>1, <2>2
  <2>5. conn'[u].id = conn[u].id /\ Queued(u)' = Queued(u)
    BY <1>8, <2>1, <2>4, ClientReadPacketIs DEF Becomes
  <2>6. \A e \in Clients : e # c => client'[e] = client[e]
    BY <1>8, ClientReadPacketIs DEF ClientIs
  <2> QED
    BY <1>a, <2>2, <2>3, <2>5, <2>6, FlightStays DEF Used
<1>9. ASSUME NEW c \in Clients, ClientClose(c) PROVE InFlight(u)' \subseteq InFlight(u)
  <2>1. PICK s : s = client[c].slot
    OBVIOUS
  <2>2. /\ client[c].at = "close" /\ UNCHANGED <<content, router>>
        /\ free' = free \cup ({client[c].buf} \ {None}) \cup Queued(s)
    BY <1>9, <2>1, ClientCloseIs
  <2>3. s # u
    BY <1>0, <2>1, <2>2
  <2>4. conn'[u].id = conn[u].id /\ Queued(u)' = Queued(u)
    BY <1>9, <2>1, <2>3, ClientCloseIs DEF Becomes
  <2>5. \A e \in Clients : e # c => client'[e] = client[e]
    BY <1>9, ClientCloseIs DEF ClientIs
  <2>6. \A b \in Used' : \A e \in Clients : client[e].buf = b => client'[e].buf = b
    BY <1>a, <2>2, <2>5 DEF Used
  <2> QED
    BY <2>2, <2>4, <2>6, FlightStays DEF Used
<1>10. ASSUME NEW c \in Clients, ClientCloseEnds(c) PROVE InFlight(u)' \subseteq InFlight(u)
  <2>1. client[c].at = "closing" /\ UNCHANGED <<free, content, router>>
    BY <1>10, ClientCloseEndsIs
  <2>2. client[c].buf = None
    BY <2>1, ClientFacts
  <2>3. conn'[u].id = conn[u].id /\ Queued(u)' = Queued(u)
    BY <1>0, <1>10, ClientCloseEndsIs DEF Becomes
  <2>4. \A e \in Clients : e # c => client'[e] = client[e]
    BY <1>10, ClientCloseEndsIs DEF ClientIs
  <2> QED
    BY <1>a, <2>1, <2>2, <2>3, <2>4, FlightStays DEF Used
<1>11. ASSUME RouterRead PROVE InFlight(u)' \subseteq InFlight(u)
  <2>1. router.at = "wait" /\ UNCHANGED <<content, client>> /\ \A b \in Used' : b \in Used
    BY <1>11, RouterReadIs DEF Used
  <2>2. conn'[u].id = conn[u].id /\ Queued(u)' = Queued(u)
    BY <1>0, <1>11, RouterReadIs DEF Becomes
  <2> QED
    BY <2>1, <2>2, FlightStays
<1>12. ASSUME RouterFind PROVE InFlight(u)' \subseteq InFlight(u)
  <2>1. router.at = "find" /\ UNCHANGED <<content, client>> /\ \A b \in Used' : b \in Used
    BY <1>12, RouterFindIs DEF Used
  <2>2. conn'[u].id = conn[u].id /\ Queued(u)' = Queued(u)
    BY <1>0, <1>12, RouterFindIs DEF Becomes
  <2> QED
    BY <2>1, <2>2, FlightStays
<1>13. ASSUME RouterFlushPackets PROVE InFlight(u)' \subseteq InFlight(u)
  <2>1. router.at = "new" /\ UNCHANGED <<content, client>> /\ \A b \in Used' : b \in Used
    BY <1>13, RouterFlushPacketsIs DEF Used
  <2>2. router.slot # u
    BY <1>0, <2>1 DEF RouterOwns
  <2>3. conn'[u].id = conn[u].id /\ Queued(u)' = Queued(u)
    BY <1>13, <2>2, RouterFlushPacketsIs DEF Becomes
  <2> QED
    BY <2>1, <2>3, FlightStays
<1>14. ASSUME RouterFlushEvents PROVE InFlight(u)' \subseteq InFlight(u)
  <2>1. router.at = "flushed" /\ UNCHANGED <<content, client>> /\ \A b \in Used' : b \in Used
    BY <1>14, RouterFlushEventsIs DEF Used
  <2>2. router.slot # u
    BY <1>0, <2>1 DEF RouterOwns
  <2>3. conn'[u].id = conn[u].id /\ Queued(u)' = Queued(u)
    BY <1>14, <2>2, RouterFlushEventsIs DEF Becomes
  <2> QED
    BY <2>1, <2>3, FlightStays
<1>15. ASSUME RouterPut PROVE InFlight(u)' \subseteq InFlight(u)
  <2>1. PICK s, x : s = router.slot /\ x = router.buf
    OBVIOUS
  <2>2. /\ router.at = "put" /\ UNCHANGED <<free, content, client>>
        /\ s \in SlotIds /\ conn'[u].id = conn[u].id
        /\ \A v \in SlotIds : v = s => Queued(v)' = Queued(s) \cup {x}
        /\ \A v \in SlotIds : v # s => Queued(v)' = Queued(v)
    BY <1>15, <2>1, RouterPutIs DEF Becomes
  <2>3. \A b \in Used' : b \in Queued(u) => b \in Queued(u)'
    BY <2>2
  <2>4. \A b \in Used' : router.buf = b /\ router.slot = u => b \in Queued(u)'
    BY <2>1, <2>2
  <2> QED
    BY <2>2, <2>3, <2>4, FlightStays DEF Used
<1>16. ASSUME RouterEvent PROVE InFlight(u)' \subseteq InFlight(u)
  <2>1. router.at = "event" /\ UNCHANGED <<free, content, client>>
    BY <1>16, RouterEventIs
  <2>2. conn'[u].id = conn[u].id /\ Queued(u)' = Queued(u)
    BY <1>16, RouterEventIs DEF Becomes
  <2> QED
    BY <2>1, <2>2, FlightStays DEF Used
<1>17. ASSUME RouterPost PROVE InFlight(u)' \subseteq InFlight(u)
  <2>1. router.at = "post" /\ UNCHANGED <<content, client>> /\ \A b \in Used' : b \in Used
    BY <1>17, RouterPostIs DEF Used
  <2>2. router.slot # u \/ ~conn[u].post
    BY <1>0 DEF RouterOwns
  <2>3. conn'[u].id = conn[u].id /\ Queued(u)' = Queued(u)
    BY <1>17, <2>2, RouterPostIs DEF Becomes
  <2> QED
    BY <2>1, <2>3, FlightStays
<1>18. ASSUME Accept PROVE InFlight(u)' \subseteq InFlight(u)
  <2>1. UNCHANGED <<content, client, router>> /\ \A b \in Used' : b \in Used
    BY <1>18, AcceptIs DEF Used
  <2>2. conn'[u].id = conn[u].id /\ Queued(u)' = Queued(u)
    BY <1>0, <1>18, AcceptIs DEF Becomes
  <2> QED
    BY <2>1, <2>2, FlightStays
<1>19. ASSUME ServerRead PROVE InFlight(u)' \subseteq InFlight(u)
  <2>1. UNCHANGED <<content, client, router>> /\ \A b \in Used' : b \in Used
    BY <1>19, ServerReadIs DEF Used
  <2>2. conn'[u].id = conn[u].id /\ Queued(u)' = Queued(u)
    BY <1>0, <1>19, ServerReadIs DEF Becomes
  <2> QED
    BY <2>1, <2>2, FlightStays
<1>20. ASSUME ServerTimeout PROVE InFlight(u)' \subseteq InFlight(u)
  <2>1. UNCHANGED <<content, client, router>> /\ \A b \in Used' : b \in Used
    BY <1>20, ServerTimeoutIs DEF Used
  <2>2. conn'[u].id = conn[u].id /\ Queued(u)' = Queued(u)
    BY <1>0, <1>20, ServerTimeoutIs DEF Becomes
  <2> QED
    BY <2>1, <2>2, FlightStays
<1>21. ASSUME ServerReadPacket PROVE InFlight(u)' \subseteq InFlight(u)
  <2>1. UNCHANGED <<content, client, router>> /\ \A b \in Used' : b \in Used
    BY <1>21, ServerReadPacketIs DEF Used
  <2>2. conn'[u].id = conn[u].id /\ Queued(u)' = Queued(u)
    BY <1>0, <1>21, ServerReadPacketIs DEF Becomes
  <2> QED
    BY <2>1, <2>2, FlightStays
<1>22. ASSUME Serve PROVE InFlight(u)' \subseteq InFlight(u)
  <2>1. PICK s, b : s = server.slot /\ b = server.buf
    OBVIOUS
  <2>2. /\ server.at = "serve" /\ s \in SlotIds /\ b \in Buffers /\ b \notin free
        /\ UNCHANGED <<conn, client, router>> /\ Queued(u)' = Queued(u)
        /\ \A x \in Used' : x \in Used
    BY <1>22, <2>1, ServeIs DEF Used
  <2>3. CASE UNCHANGED content
    BY <2>2, <2>3, FlightStays
  <2>4. CASE PacketIs(b, <<ServerPort, conn[s].id[1]>>, content[b].pri, content[b].call, TRUE)
    <3>1. content[b].id = conn[s].id /\ conn[s].id[1] \in Ports /\ conn[s].id[2] = ServerPort
      BY <2>1, <2>2, Unpack DEF PacketIds, ConnIds, ServerSide, ServerHas
    <3>2. Port(content[b].id) = conn[s].id[1]
      BY <3>1, RequestPort
    <3>3. content'[b].id = <<ServerPort, conn[s].id[1]>>
      BY <2>4 DEF PacketIs
    <3>4. Port(content'[b].id) = conn[s].id[1]
      BY <3>3 DEF Port
    <3>5. \A x \in Used' : Port(content'[x].id) = Port(content[x].id)
      BY <1>a, <2>4, <3>2, <3>4 DEF PacketIs
    <3>6. \A x \in Used' : x \in Used \/ Port(content'[x].id) # conn[u].id[2]
      BY <2>2
    <3> QED
      BY <2>2, <3>5, <3>6, FlightShrinks
  <2> QED
    BY <1>22, <2>1, <2>3, <2>4, ServeIs
<1>23. ASSUME ServerSendEvent PROVE InFlight(u)' \subseteq InFlight(u)
  <2>1. UNCHANGED <<content, client, router>> /\ \A b \in Used' : b \in Used
    BY <1>23, ServerSendEventIs DEF Used
  <2>2. conn'[u].id = conn[u].id /\ Queued(u)' = Queued(u)
    BY <1>0, <1>23, ServerSendEventIs DEF Becomes
  <2> QED
    BY <2>1, <2>2, FlightStays
<1>24. ASSUME ServerClose PROVE InFlight(u)' \subseteq InFlight(u)
  <2>1. UNCHANGED <<content, client, router>> /\ \A b \in Used' : b \in Used
    BY <1>24, ServerCloseIs DEF Used
  <2>2. conn'[u].id = conn[u].id /\ Queued(u)' = Queued(u)
    BY <1>0, <1>24, ServerCloseIs DEF Becomes
  <2> QED
    BY <2>1, <2>2, FlightStays
<1>25. ASSUME ServerCloseEnds PROVE InFlight(u)' \subseteq InFlight(u)
  <2>1. UNCHANGED <<content, client, router>> /\ \A b \in Used' : b \in Used
    BY <1>25, ServerCloseEndsIs DEF Used
  <2>2. conn'[u].id = conn[u].id /\ Queued(u)' = Queued(u)
    BY <1>0, <1>25, ServerCloseEndsIs DEF Becomes
  <2> QED
    BY <2>1, <2>2, FlightStays
<1> QED
  BY <1>1, <1>2, <1>3, <1>4, <1>5, <1>6, <1>7, <1>8, <1>9, <1>10, <1>11, <1>12, <1>13, <1>14, <1>15, <1>16, <1>17, <1>18, <1>19, <1>20, <1>21, <1>22, <1>23, <1>24, <1>25
     DEF NodeNext, ClientNext, RouterNext, ServerNext

----------------------------------------------------------------------------
\* The bounds of a slot that a step does not give to another owner

Served(u) == ServerHas(u) \/ u \in Elems(accepting)
Keeps(u) ==
  /\ conn[u].open => conn'[u].open
  /\ Vacant(u)' => Vacant(u)
  /\ Served(u)' => Served(u)
  /\ RouterOwns(u)' => conn'[u].events <= IF router'.at \in {"put", "event"} THEN 0 ELSE 1
  /\ \A c \in Clients : /\ Opening(c, u)' => Opening(c, u)
                        /\ Working(c, u)' => Working(c, u)
  /\ ~conn'[u].open => conn'[u].events + Storing(u)' <= conn[u].events + Storing(u)
  /\ Served(u)' \/ (\E c \in Clients : Working(c, u)') => Debt(u)' + Count(u) <= Debt(u) + Count(u)'
  /\ (\E c \in Clients : Opening(c, u)') =>
       conn'[u].events + Storing(u)' + Cardinality(InFlight(u)')
         <= conn[u].events + Storing(u) + Cardinality(InFlight(u))

LEMMA BoundTypes ==
  ASSUME TypeInv, Queues, TypeInv', Queues', NEW u \in SlotIds
  PROVE  /\ conn[u].events \in Nat /\ conn'[u].events \in Nat
         /\ Storing(u) \in 0..1 /\ Storing(u)' \in 0..1
         /\ Stored(u) \in 0..1 /\ Stored(u)' \in 0..1
         /\ Taking(u) \in 0..1 /\ Taking(u)' \in 0..1
         /\ Debt(u) \in Nat /\ Debt(u)' \in Nat
         /\ Count(u) \in Nat /\ Count(u) <= NumBuffers
         /\ Count(u)' \in Nat /\ Count(u)' <= NumBuffers
         /\ Cardinality(InFlight(u)) \in Nat /\ Cardinality(InFlight(u)) <= NumBuffers
         /\ Cardinality(InFlight(u)') \in Nat /\ Cardinality(InFlight(u)') <= NumBuffers
         /\ IsFiniteSet(InFlight(u)) /\ IsFiniteSet(Queued(u)) /\ Queued(u) \subseteq Buffers
         /\ NumBuffers \in Nat
<1>1. conn[u].events \in Nat /\ conn'[u].events \in Nat
  BY DEF TypeInv, ConnType, Conn
<1>2. /\ Storing(u) \in 0..1 /\ Storing(u)' \in 0..1
      /\ Stored(u) \in 0..1 /\ Stored(u)' \in 0..1
      /\ Taking(u) \in 0..1 /\ Taking(u)' \in 0..1
  BY DEF Storing, Stored, Taking
<1>3. Debt(u) \in Nat /\ Debt(u)' \in Nat
  BY <1>1, <1>2 DEF Debt
<1>4. /\ Count(u) \in Nat /\ Count(u) <= NumBuffers
      /\ IsFiniteSet(Queued(u)) /\ Queued(u) \subseteq Buffers
  BY CountIs
<1>5. Count(u)' \in Nat /\ Count(u)' <= NumBuffers
  <2>1. conn'[u].rx \in [Prios -> Seq(Buffers)]
    BY DEF TypeInv, ConnType, Conn
  <2>2. Queued(u)' = All(conn'[u].rx)
    BY QueuedAll
  <2>3. Cardinality(Queued(u)') \in Nat /\ Cardinality(Queued(u)') <= NumBuffers
    BY <2>1, <2>2, AllBuffers
  <2> QED
    BY <2>3 DEF Count
<1>6. /\ Cardinality(InFlight(u)) \in Nat /\ Cardinality(InFlight(u)) <= NumBuffers
      /\ IsFiniteSet(InFlight(u))
  BY UsedFinite
<1>7. Cardinality(InFlight(u)') \in Nat /\ Cardinality(InFlight(u)') <= NumBuffers
  <2>1. InFlight(u)' \subseteq Buffers
    BY DEF InFlight, Used
  <2> QED
    BY <2>1, BuffersFinite, FS_Subset, FS_CardinalityType DEF NumBuffers
<1> QED
  BY <1>1, <1>2, <1>3, <1>4, <1>5, <1>6, <1>7, BuffersFinite

LEMMA KeepsBounds ==
  ASSUME TypeInv, Queues, TypeInv', Queues', NEW u \in SlotIds, SlotBounds(u), Keeps(u)
  PROVE  SlotBounds(u)'
<1>1. PICK e, e1, s, s1, d, d1, n, n1, f, f1 :
        /\ e = conn[u].events /\ e1 = conn'[u].events /\ s = Storing(u) /\ s1 = Storing(u)'
        /\ d = Debt(u) /\ d1 = Debt(u)' /\ n = Count(u) /\ n1 = Count(u)'
        /\ f = Cardinality(InFlight(u)) /\ f1 = Cardinality(InFlight(u)')
  OBVIOUS
<1>2. /\ {e, e1, s, s1, d, d1, n, n1, f, f1} \subseteq Nat /\ NumBuffers \in Nat
  BY <1>1, BoundTypes
<1>3. /\ Vacant(u) => e + s <= 1
      /\ ~conn[u].open => e + s <= NumBuffers + 1
      /\ Served(u) => d <= n + 1
      /\ \A c \in Clients : Opening(c, u) => e + s + f <= NumBuffers + 1
      /\ \A c \in Clients : Working(c, u) => d <= n + 1
  BY <1>1 DEF SlotBounds, Served
<1>4. /\ conn[u].open => conn'[u].open
      /\ Vacant(u)' => Vacant(u)
      /\ Served(u)' => Served(u)
      /\ \A c \in Clients : Opening(c, u)' => Opening(c, u)
      /\ \A c \in Clients : Working(c, u)' => Working(c, u)
      /\ ~conn'[u].open => e1 + s1 <= e + s
      /\ Served(u)' \/ (\E c \in Clients : Working(c, u)') => d1 + n <= d + n1
      /\ (\E c \in Clients : Opening(c, u)') => e1 + s1 + f1 <= e + s + f
      /\ RouterOwns(u)' => conn'[u].events <= IF router'.at \in {"put", "event"} THEN 0 ELSE 1
  BY <1>1 DEF Keeps
<1>5. Vacant(u)' => e1 + s1 <= 1
  <2>1. Vacant(u)' => ~conn'[u].open
    BY DEF Vacant
  <2> QED
    BY <1>2, <1>3, <1>4, <2>1
<1>6. ~conn'[u].open => e1 + s1 <= NumBuffers + 1
  BY <1>2, <1>3, <1>4
<1>7. Served(u)' => d1 <= n1 + 1
  BY <1>2, <1>3, <1>4
<1>8. \A c \in Clients : Opening(c, u)' => e1 + s1 + f1 <= NumBuffers + 1
  BY <1>2, <1>3, <1>4
<1>9. \A c \in Clients : Working(c, u)' => d1 <= n1 + 1
  BY <1>2, <1>3, <1>4
<1> QED
  BY <1>1, <1>4, <1>5, <1>6, <1>7, <1>8, <1>9 DEF SlotBounds, Served

\* Slots that a step has nothing to do with
LEMMA CountSame ==
  ASSUME NEW u \in SlotIds, Queued(u)' = Queued(u)
  PROVE  Count(u)' = Count(u)
BY DEF Count

LEMMA FlightCount ==
  ASSUME NodeInv, NodeNext, TypeInv', Queues', NEW u \in SlotIds, NEW d \in Clients, Opening(d, u)
  PROVE  Cardinality(InFlight(u)') <= Cardinality(InFlight(u))
<1>1. InFlight(u)' \subseteq InFlight(u)
  BY FlightStep
<1> QED
  BY <1>1, UsedFinite, FS_Subset

\* If neither the numbers nor the owner of a slot change, nor what they wait for
LEMMA KeepsSame ==
  ASSUME NodeInv, NodeNext, TypeInv', Queues', NEW u \in SlotIds,
         conn'[u] = conn[u], Queued(u)' = Queued(u),
         Storing(u)' = Storing(u), Stored(u)' = Stored(u), Taking(u)' = Taking(u),
         Vacant(u)' => Vacant(u), Served(u)' => Served(u),
         RouterOwns(u)' => /\ RouterOwns(u)
                           /\ router'.at \in {"put", "event"} <=> router.at \in {"put", "event"},
         \A c \in Clients : Opening(c, u)' => Opening(c, u),
         \A c \in Clients : Working(c, u)' => Working(c, u)
  PROVE  Keeps(u)
<1>1. TypeInv /\ Queues /\ SlotBounds(u)
  BY Unpack DEF Bounds
<1>2. conn'[u].open = conn[u].open /\ conn'[u].events = conn[u].events /\ Count(u)' = Count(u)
  BY CountSame
<1>3. RouterOwns(u)' => conn'[u].events <= IF router'.at \in {"put", "event"} THEN 0 ELSE 1
  BY <1>1, <1>2 DEF SlotBounds
<1>4. Debt(u)' = Debt(u)
  BY <1>2 DEF Debt
<1>5. PICK e, s, d, n, f, f1 :
        /\ e = conn[u].events /\ s = Storing(u) /\ d = Debt(u) /\ n = Count(u)
        /\ f = Cardinality(InFlight(u)) /\ f1 = Cardinality(InFlight(u)')
  OBVIOUS
<1>6. {e, s, d, n, f, f1} \subseteq Nat
  BY <1>1, <1>5, BoundTypes
<1>7. \A c \in Clients : Opening(c, u) => f1 <= f
  BY <1>5, FlightCount
<1>8. e + s <= e + s /\ d + n <= d + n /\ (f1 <= f => e + s + f1 <= e + s + f)
  BY <1>6
<1> QED
  BY <1>2, <1>3, <1>4, <1>5, <1>7, <1>8 DEF Keeps

LEMMA ClientKeeps ==
  ASSUME NodeInv, NodeNext, TypeInv', Queues', NEW u \in SlotIds, NEW c \in Clients,
         UNCHANGED <<server, router, accepting>>,
         \A d \in Clients : d # c => client'[d] = client[d],
         client[c].slot # u, client'[c].slot # u,
         conn'[u] = conn[u], Queued(u)' = Queued(u)
  PROVE  Keeps(u)
<1>1. /\ Storing(u)' = Storing(u) /\ Stored(u)' = Stored(u)
      /\ Served(u)' => Served(u)
      /\ RouterOwns(u)' => RouterOwns(u)
  BY DEF Storing, Stored, Served, ServerHas, RouterOwns
<1>2. \A d \in Clients : /\ client'[d].slot = u <=> client[d].slot = u
                         /\ client[d].slot = u => client'[d].at = client[d].at
  OBVIOUS
<1>3. Taking(u)' = Taking(u) /\ (Vacant(u)' => Vacant(u))
  BY <1>2 DEF Taking, Vacant
<1>4. \A d \in Clients : /\ Opening(d, u)' => Opening(d, u)
                         /\ Working(d, u)' => Working(d, u)
  BY <1>2 DEF Opening, Working
<1> QED
  BY <1>1, <1>3, <1>4, KeepsSame

LEMMA RouterKeeps ==
  ASSUME NodeInv, NodeNext, TypeInv', Queues', NEW u \in SlotIds,
         UNCHANGED <<client, server>>, u \in Elems(accepting') => u \in Elems(accepting),
         router.slot # u, router'.slot # u,
         conn'[u] = conn[u], Queued(u)' = Queued(u)
  PROVE  Keeps(u)
<1>1. /\ Storing(u)' = Storing(u) /\ Stored(u)' = Stored(u)
      /\ Served(u)' => Served(u)
      /\ ~RouterOwns(u)'
  BY DEF Storing, Stored, Served, ServerHas, RouterOwns
<1>2. Taking(u)' = Taking(u) /\ (Vacant(u)' => Vacant(u))
  BY DEF Taking, Vacant
<1>3. \A d \in Clients : /\ Opening(d, u)' => Opening(d, u)
                         /\ Working(d, u)' => Working(d, u)
  BY DEF Opening, Working
<1> QED
  BY <1>1, <1>2, <1>3, KeepsSame

LEMMA ServerKeeps ==
  ASSUME NodeInv, NodeNext, TypeInv', Queues', NEW u \in SlotIds,
         UNCHANGED <<client, router>>, u \in Elems(accepting') => u \in Elems(accepting),
         server.slot # u, server'.slot # u,
         conn'[u] = conn[u], Queued(u)' = Queued(u)
  PROVE  Keeps(u)
<1>1. /\ Storing(u)' = Storing(u) /\ Stored(u)' = Stored(u)
      /\ Served(u)' => Served(u)
      /\ RouterOwns(u)' => RouterOwns(u)
  BY DEF Storing, Stored, Served, ServerHas, RouterOwns
<1>2. Taking(u)' = Taking(u) /\ (Vacant(u)' => Vacant(u))
  BY DEF Taking, Vacant
<1>3. \A d \in Clients : /\ Opening(d, u)' => Opening(d, u)
                         /\ Working(d, u)' => Working(d, u)
  BY DEF Opening, Working
<1> QED
  BY <1>1, <1>2, <1>3, KeepsSame

----------------------------------------------------------------------------
\* The bounds of the slot that a step is about, from who has it afterwards

OwnerFacts ==
  \A s \in SlotIds :
    /\ ~conn[s].open => ~ServerHas(s) /\ ~RouterOwns(s) /\ s \notin Elems(accepting)
    /\ \A c \in Clients : ClientHas(c, s) =>
         /\ conn[s].open /\ ~ServerSide(s) /\ \A d \in Clients : ClientHas(d, s) => d = c
    /\ ServerHas(s) => ~RouterOwns(s) /\ s \notin Elems(accepting)
    /\ RouterOwns(s) => s \notin Elems(accepting)

LEMMA OwnerFactsHold == Owned => OwnerFacts
<1> SUFFICES ASSUME Owned, NEW s \in SlotIds
             PROVE  /\ ~conn[s].open => ~ServerHas(s) /\ ~RouterOwns(s) /\ s \notin Elems(accepting)
                    /\ \A c \in Clients : ClientHas(c, s) =>
                         /\ conn[s].open /\ ~ServerSide(s)
                         /\ \A d \in Clients : ClientHas(d, s) => d = c
                    /\ ServerHas(s) => ~RouterOwns(s) /\ s \notin Elems(accepting)
                    /\ RouterOwns(s) => s \notin Elems(accepting)
  BY DEF OwnerFacts
<1> QED
  BY OneOwner

LEMMA NextOwnerFacts ==
  ASSUME NodeInv, NodeNext
  PROVE  OwnerFacts /\ OwnerFacts'
<1>1. Owned' => OwnerFacts'
  BY OwnerFactsHold, PTL
<1> QED
  BY <1>1, OwnedStep, OwnerFactsHold, Unpack

LEMMA ClosedBound ==
  ASSUME NodeInv, NodeNext, TypeInv', NEW s \in SlotIds, ~conn'[s].open,
         Vacant(s)' => conn'[s].events + Storing(s)' <= 1,
         conn'[s].events + Storing(s)' <= NumBuffers + 1
  PROVE  SlotBounds(s)'
<1>1. /\ ~ServerHas(s)' /\ ~RouterOwns(s)' /\ s \notin Elems(accepting')
      /\ \A c \in Clients : ~ClientHas(c, s)'
  BY NextOwnerFacts DEF OwnerFacts
<1>2. \A c \in Clients : ~Opening(c, s)' /\ ~Working(c, s)'
  BY <1>1 DEF ClientHas, Opening, Working
<1> QED
  BY <1>1, <1>2 DEF SlotBounds

LEMMA ClientBound ==
  ASSUME NodeInv, NodeNext, NEW s \in SlotIds, NEW c \in Clients, ClientHas(c, s)',
         Opening(c, s)' =>
           conn'[s].events + Storing(s)' + Cardinality(InFlight(s)') <= NumBuffers + 1,
         Working(c, s)' => Debt(s)' <= Count(s)' + 1
  PROVE  SlotBounds(s)'
<1>1. /\ conn'[s].open /\ ~ServerHas(s)' /\ ~RouterOwns(s)' /\ s \notin Elems(accepting')
      /\ \A d \in Clients : ClientHas(d, s)' => d = c
  BY NextOwnerFacts DEF OwnerFacts, ServerSide
<1>2. ~Vacant(s)' /\ \A d \in Clients : Opening(d, s)' \/ Working(d, s)' => d = c
  BY <1>1 DEF Vacant, ClientHas, Opening, Working
<1> QED
  BY <1>1, <1>2 DEF SlotBounds

LEMMA ServedBound ==
  ASSUME NodeInv, NodeNext, NEW s \in SlotIds, Served(s)', Debt(s)' <= Count(s)' + 1
  PROVE  SlotBounds(s)'
<1>1. /\ conn'[s].open /\ ~RouterOwns(s)' /\ \A d \in Clients : ~ClientHas(d, s)'
  BY NextOwnerFacts DEF OwnerFacts, ServerSide, Served
<1>2. ~Vacant(s)' /\ \A d \in Clients : ~Opening(d, s)' /\ ~Working(d, s)'
  BY <1>1 DEF Vacant, ClientHas, Opening, Working
<1> QED
  BY <1>1, <1>2 DEF SlotBounds, Served

LEMMA RouterBound ==
  ASSUME NodeInv, NodeNext, NEW s \in SlotIds, RouterOwns(s)',
         conn'[s].events <= IF router'.at \in {"put", "event"} THEN 0 ELSE 1
  PROVE  SlotBounds(s)'
<1>1. /\ conn'[s].open /\ ~ServerHas(s)' /\ s \notin Elems(accepting')
      /\ \A d \in Clients : ~ClientHas(d, s)'
  BY NextOwnerFacts DEF OwnerFacts, ServerSide
<1>2. ~Vacant(s)' /\ \A d \in Clients : ~Opening(d, s)' /\ ~Working(d, s)'
  BY <1>1 DEF Vacant, ClientHas, Opening, Working
<1> QED
  BY <1>1, <1>2 DEF SlotBounds

LEMMA BoundsFrom ==
  ASSUME NodeInv, TypeInv', Queues', \A u \in SlotIds : Keeps(u) \/ SlotBounds(u)'
  PROVE  Bounds'
<1> SUFFICES ASSUME NEW u \in SlotIds PROVE SlotBounds(u)'
  BY DEF Bounds
<1>1. TypeInv /\ Queues /\ SlotBounds(u)
  BY Unpack DEF Bounds
<1> QED
  BY <1>1, KeepsBounds

\* Only the owner of a connection takes events from it.
LEMMA TakingIs ==
  ASSUME NodeInv, NodeNext, NEW s \in SlotIds
  PROVE  /\ \A c \in Clients : ClientHas(c, s) =>
              Taking(s) = IF client[c].at = "event" THEN 1 ELSE 0
         /\ \A c \in Clients : ClientHas(c, s)' =>
              Taking(s)' = IF client'[c].at = "event" THEN 1 ELSE 0
         /\ ServerHas(s) => Taking(s) = IF server.at = "event" THEN 1 ELSE 0
         /\ ServerHas(s)' => Taking(s)' = IF server'.at = "event" THEN 1 ELSE 0
         /\ s \in Elems(accepting) => Taking(s) = 0
         /\ s \in Elems(accepting') => Taking(s)' = 0
<1>1. OwnerFacts /\ OwnerFacts'
  BY NextOwnerFacts
<1>2. /\ \A c \in Clients : ClientHas(c, s) =>
           ~ServerHas(s) /\ \A d \in Clients : ClientHas(d, s) => d = c
      /\ ServerHas(s) => \A d \in Clients : ~ClientHas(d, s)
      /\ s \in Elems(accepting) => ~ServerHas(s) /\ \A d \in Clients : ~ClientHas(d, s)
  BY <1>1 DEF OwnerFacts, ServerSide
<1>3. /\ \A c \in Clients : ClientHas(c, s)' =>
           ~ServerHas(s)' /\ \A d \in Clients : ClientHas(d, s)' => d = c
      /\ ServerHas(s)' => \A d \in Clients : ~ClientHas(d, s)'
      /\ s \in Elems(accepting') => ~ServerHas(s)' /\ \A d \in Clients : ~ClientHas(d, s)'
  BY <1>1 DEF OwnerFacts, ServerSide
<1>4. /\ \A c \in Clients : ClientHas(c, s) =>
           Taking(s) = IF client[c].at = "event" THEN 1 ELSE 0
      /\ ServerHas(s) => Taking(s) = IF server.at = "event" THEN 1 ELSE 0
      /\ s \in Elems(accepting) => Taking(s) = 0
  BY <1>2 DEF Taking, ClientHas, ServerHas
<1>5. /\ \A c \in Clients : ClientHas(c, s)' =>
           Taking(s)' = IF client'[c].at = "event" THEN 1 ELSE 0
      /\ ServerHas(s)' => Taking(s)' = IF server'.at = "event" THEN 1 ELSE 0
      /\ s \in Elems(accepting') => Taking(s)' = 0
  BY <1>3 DEF Taking, ClientHas, ServerHas
<1> QED
  BY <1>4, <1>5

\* A step of a client leaves the slots of others as they were.
LEMMA ClientBounds ==
  ASSUME NodeInv, NodeNext, TypeInv', Queues', NEW c \in Clients, NEW s \in SlotIds,
         UNCHANGED <<server, router, accepting>>,
         \A d \in Clients : d # c => client'[d] = client[d],
         client[c].slot \in {s, None}, client'[c].slot \in {s, None},
         \A u \in SlotIds : u # s => conn'[u] = conn[u] /\ Queued(u)' = Queued(u),
         SlotBounds(s)'
  PROVE  Bounds'
<1>1. \A u \in SlotIds : u # s => Keeps(u)
  <2> SUFFICES ASSUME NEW u \in SlotIds, u # s PROVE Keeps(u)
    OBVIOUS
  <2>1. client[c].slot # u /\ client'[c].slot # u
    BY SlotIdsType
  <2> QED
    BY <2>1, ClientKeeps
<1> QED
  BY <1>1, BoundsFrom

LEMMA ServerBounds ==
  ASSUME NodeInv, NodeNext, TypeInv', Queues', NEW s \in SlotIds,
         UNCHANGED <<client, router>>, \A u \in Elems(accepting') : u \in Elems(accepting),
         server.slot \in {s, None}, server'.slot \in {s, None},
         \A u \in SlotIds : u # s => conn'[u] = conn[u] /\ Queued(u)' = Queued(u),
         SlotBounds(s)'
  PROVE  Bounds'
<1>1. \A u \in SlotIds : u # s => Keeps(u)
  <2> SUFFICES ASSUME NEW u \in SlotIds, u # s PROVE Keeps(u)
    OBVIOUS
  <2>1. server.slot # u /\ server'.slot # u
    BY SlotIdsType
  <2> QED
    BY <2>1, ServerKeeps
<1> QED
  BY <1>1, BoundsFrom

LEMMA RouterBounds ==
  ASSUME NodeInv, NodeNext, TypeInv', Queues', NEW s \in SlotIds,
         UNCHANGED <<client, server>>, \A u \in Elems(accepting') : u = s \/ u \in Elems(accepting),
         router.slot \in {s, None}, router'.slot \in {s, None},
         \A u \in SlotIds : u # s => conn'[u] = conn[u] /\ Queued(u)' = Queued(u),
         SlotBounds(s)' \/ Keeps(s)
  PROVE  Bounds'
<1>1. \A u \in SlotIds : u # s => Keeps(u)
  <2> SUFFICES ASSUME NEW u \in SlotIds, u # s PROVE Keeps(u)
    OBVIOUS
  <2>1. router.slot # u /\ router'.slot # u
    BY SlotIdsType
  <2> QED
    BY <2>1, RouterKeeps
<1> QED
  BY <1>1, BoundsFrom

LEMMA ConnectBounds ==
  ASSUME NodeInv, NodeNext, NEW c \in Clients, Connect(c)
  PROVE  Bounds'
<1>1. /\ TypeInv' /\ Queues' /\ client[c].at = "idle" /\ client[c].slot = None
      /\ UNCHANGED <<server, router, accepting>>
  BY ConnectIs, ClientFacts
<1>2. CASE /\ ClientIs(c, "idle", client[c].call + 1, None, None)
           /\ conn' = conn /\ \A u \in SlotIds : Queued(u)' = Queued(u)
  <2>1. client'[c].slot = None /\ \A d \in Clients : d # c => client'[d] = client[d]
    BY <1>2 DEF ClientIs
  <2>2. \A u \in SlotIds : Keeps(u)
    <3> SUFFICES ASSUME NEW u \in SlotIds PROVE Keeps(u)
      OBVIOUS
    <3>1. u # None
      BY SlotIdsType
    <3> QED
      BY <1>1, <1>2, <2>1, <3>1, ClientKeeps
  <2> QED
    BY <1>1, <2>2, BoundsFrom
<1>3. ASSUME NEW s \in SlotIds, NEW p \in Ports, ~conn[s].open, s # Socket, ~Locked,
             ClientIs(c, "new", client[c].call + 1, s, None),
             Becomes(s, TRUE, <<ServerPort, p>>, FALSE, conn[s].events, Queued(s))
      PROVE  Bounds'
  <2>1. /\ client'[c].slot = s /\ client'[c].at = "new" /\ ClientHas(c, s)'
        /\ \A d \in Clients : d # c => client'[d] = client[d]
    BY <1>3 DEF ClientIs, ClientHas
  <2>2. /\ \A u \in SlotIds : u # s => conn'[u] = conn[u] /\ Queued(u)' = Queued(u)
        /\ conn'[s].events = conn[s].events
    BY <1>3 DEF Becomes
  <2>3. Vacant(s)
    <3>1. ~ServerHas(s) /\ \A d \in Clients : ~ClientHas(d, s)
      BY <1>3, Unpack, OneOwner
    <3> QED
      BY <1>3, <3>1 DEF Vacant, ServerHas, ClientHas, Locked
  <2>4. conn[s].events + Storing(s) <= 1
    BY <2>3, Unpack DEF Bounds, SlotBounds
  <2>5. Storing(s)' = Storing(s)
    BY <1>1 DEF Storing
  <2>6. conn'[s].events + Storing(s)' + Cardinality(InFlight(s)') <= NumBuffers + 1
    <3>1. PICK e, t, f : e = conn[s].events /\ t = Storing(s) /\ f = Cardinality(InFlight(s)')
      OBVIOUS
    <3>2. e \in Nat /\ t \in Nat /\ f \in Nat /\ f <= NumBuffers /\ NumBuffers \in Nat
      BY <1>1, <3>1, BoundTypes, Unpack
    <3>3. e + t + f <= NumBuffers + 1
      BY <2>4, <3>1, <3>2
    <3> QED
      BY <2>2, <2>5, <3>1, <3>3
  <2>7. SlotBounds(s)'
    <3>1. ~Working(c, s)'
      BY <2>1 DEF Working
    <3> QED
      BY <2>1, <2>6, <3>1, ClientBound
  <2> QED
    BY <1>1, <2>1, <2>2, <2>7, ClientBounds
<1> QED
  BY <1>2, <1>3, ConnectIs

LEMMA ClientFlushPacketsBounds ==
  ASSUME NodeInv, NodeNext, NEW c \in Clients, ClientFlushPackets(c)
  PROVE  Bounds'
<1>1. PICK s : s = client[c].slot
  OBVIOUS
<1>2. /\ client[c].at = "new" /\ TypeInv' /\ Queues' /\ UNCHANGED <<server, router, accepting>>
  BY ClientFlushPacketsIs
<1>3. s \in SlotIds /\ client[c].slot = s /\ SlotBounds(s) /\ ClientHas(c, s)
  BY <1>1, <1>2, ClientFacts, Unpack DEF Bounds
<1>4. /\ client'[c].slot = s /\ client'[c].at = "flushed" /\ ClientHas(c, s)'
      /\ \A d \in Clients : d # c => client'[d] = client[d]
  BY <1>1, ClientFlushPacketsIs DEF ClientIs, ClientHas
<1>5. /\ \A u \in SlotIds : u # s => conn'[u] = conn[u] /\ Queued(u)' = Queued(u)
      /\ conn'[s].events = conn[s].events
  BY <1>1, ClientFlushPacketsIs DEF Becomes
<1>6. Opening(c, s) /\ ~Working(c, s)' /\ Storing(s)' = Storing(s)
  BY <1>2, <1>3, <1>4 DEF Opening, Working, Storing
<1>7. conn'[s].events + Storing(s)' + Cardinality(InFlight(s)') <= NumBuffers + 1
  <2>1. PICK e, t, f, f1 : /\ e = conn[s].events /\ t = Storing(s)
                           /\ f = Cardinality(InFlight(s)) /\ f1 = Cardinality(InFlight(s)')
    OBVIOUS
  <2>2. {e, t, f, f1} \subseteq Nat /\ NumBuffers \in Nat
    BY <1>2, <1>3, <2>1, BoundTypes, Unpack
  <2>3. e + t + f <= NumBuffers + 1
    BY <1>3, <1>6, <2>1 DEF SlotBounds
  <2>4. f1 <= f
    BY <1>2, <1>3, <1>6, <2>1, FlightCount
  <2>5. e + t + f1 <= NumBuffers + 1
    BY <2>2, <2>3, <2>4
  <2> QED
    BY <1>5, <1>6, <2>1, <2>5
<1>8. SlotBounds(s)'
  BY <1>3, <1>4, <1>6, <1>7, ClientBound
<1> QED
  BY <1>2, <1>3, <1>4, <1>5, <1>8, ClientBounds

LEMMA ClientFlushEventsBounds ==
  ASSUME NodeInv, NodeNext, NEW c \in Clients, ClientFlushEvents(c)
  PROVE  Bounds'
<1>1. PICK s : s = client[c].slot
  OBVIOUS
<1>2. /\ client[c].at = "flushed" /\ TypeInv' /\ Queues' /\ UNCHANGED <<server, router, accepting>>
  BY ClientFlushEventsIs
<1>3. s \in SlotIds /\ client[c].slot = s /\ SlotBounds(s) /\ ClientHas(c, s)
  BY <1>1, <1>2, ClientFacts, Unpack DEF Bounds
<1>4. /\ client'[c].slot = s /\ client'[c].at = "connected" /\ ClientHas(c, s)'
      /\ \A d \in Clients : d # c => client'[d] = client[d]
  BY <1>1, ClientFlushEventsIs DEF ClientIs, ClientHas
<1>5. /\ \A u \in SlotIds : u # s => conn'[u] = conn[u] /\ Queued(u)' = Queued(u)
      /\ conn'[s].events = 0 /\ Queued(s)' = Queued(s)
  BY <1>1, <1>3, ClientFlushEventsIs DEF Becomes
<1>6. ~Opening(c, s)' /\ Stored(s)' = Stored(s) /\ Count(s)' = Count(s)
  BY <1>2, <1>3, <1>4, <1>5, CountSame DEF Opening, Working, Stored
<1>7. Taking(s) = 0 /\ Taking(s)' = 0
  BY <1>2, <1>3, <1>4, TakingIs
<1>8. Debt(s)' <= Count(s)' + 1
  <2>1. PICK e, e1, t, n : /\ e = conn[s].events /\ e1 = conn'[s].events /\ t = Stored(s) /\ n = Count(s)
    OBVIOUS
  <2>2. e \in Nat /\ e1 \in Nat /\ t \in 0..1 /\ n \in Nat
    BY <1>2, <1>3, <2>1, BoundTypes, Unpack
  <2>3. TRUE
    BY <1>3, <1>6, <1>7, <2>1 DEF SlotBounds, Debt
  <2>4. e1 + t + 0 <= n + 1
    BY <1>5, <2>1, <2>2, <2>3
  <2> QED
    BY <1>6, <1>7, <2>1, <2>4 DEF Debt
<1>9. SlotBounds(s)'
  BY <1>3, <1>4, <1>6, <1>8, ClientBound
<1> QED
  BY <1>2, <1>3, <1>4, <1>5, <1>9, ClientBounds

LEMMA ClientSendBounds ==
  ASSUME NodeInv, NodeNext, NEW c \in Clients, ClientSend(c)
  PROVE  Bounds'
<1>1. PICK s : s = client[c].slot
  OBVIOUS
<1>2. /\ client[c].at = "connected" /\ TypeInv' /\ Queues' /\ UNCHANGED <<server, router, accepting>>
  BY ClientSendIs
<1>3. s \in SlotIds /\ client[c].slot = s /\ SlotBounds(s) /\ ClientHas(c, s)
  BY <1>1, <1>2, ClientFacts, Unpack DEF Bounds
<1>4. /\ client'[c].slot = s /\ client'[c].at \in {"sent", "close"} /\ ClientHas(c, s)'
      /\ \A d \in Clients : d # c => client'[d] = client[d]
  BY <1>1, ClientSendIs DEF ClientIs, ClientHas
<1>5. /\ \A u \in SlotIds : u # s => conn'[u] = conn[u] /\ Queued(u)' = Queued(u)
      /\ conn'[s].events = conn[s].events /\ Queued(s)' = Queued(s)
  BY <1>1, <1>3, ClientSendIs DEF Becomes
<1>6. ~Opening(c, s)' /\ Stored(s)' = Stored(s) /\ Count(s)' = Count(s) /\ Working(c, s)
  BY <1>2, <1>3, <1>4, <1>5, CountSame DEF Opening, Working, Stored
<1>7. Taking(s) = 0 /\ Taking(s)' = 0
  BY <1>2, <1>3, <1>4, TakingIs
<1>8. Debt(s)' <= Count(s)' + 1
  <2>1. PICK e, e1, t, n : /\ e = conn[s].events /\ e1 = conn'[s].events /\ t = Stored(s) /\ n = Count(s)
    OBVIOUS
  <2>2. e \in Nat /\ e1 \in Nat /\ t \in 0..1 /\ n \in Nat
    BY <1>2, <1>3, <2>1, BoundTypes, Unpack
  <2>3. e + t + 0 <= n + 1
    BY <1>3, <1>6, <1>7, <2>1 DEF SlotBounds, Debt
  <2>4. e1 + t + 0 <= n + 1
    BY <1>5, <2>1, <2>2, <2>3
  <2> QED
    BY <1>6, <1>7, <2>1, <2>4 DEF Debt
<1>9. SlotBounds(s)'
  BY <1>3, <1>4, <1>6, <1>8, ClientBound
<1> QED
  BY <1>2, <1>3, <1>4, <1>5, <1>9, ClientBounds

LEMMA ClientSendEventBounds ==
  ASSUME NodeInv, NodeNext, NEW c \in Clients, ClientSendEvent(c)
  PROVE  Bounds'
<1>1. PICK s : s = client[c].slot
  OBVIOUS
<1>2. /\ client[c].at = "sent" /\ TypeInv' /\ Queues' /\ UNCHANGED <<server, router, accepting>>
  BY ClientSendEventIs
<1>3. s \in SlotIds /\ client[c].slot = s /\ SlotBounds(s) /\ ClientHas(c, s)
  BY <1>1, <1>2, ClientFacts, Unpack DEF Bounds
<1>4. /\ client'[c].slot = s /\ client'[c].at = "read" /\ ClientHas(c, s)'
      /\ \A d \in Clients : d # c => client'[d] = client[d]
  BY <1>1, ClientSendEventIs DEF ClientIs, ClientHas
<1>5. /\ \A u \in SlotIds : u # s => conn'[u] = conn[u] /\ Queued(u)' = Queued(u)
      /\ conn'[s].events = conn[s].events /\ Queued(s)' = Queued(s)
  BY <1>1, <1>3, ClientSendEventIs DEF Becomes
<1>6. ~Opening(c, s)' /\ Stored(s)' = Stored(s) /\ Count(s)' = Count(s) /\ Working(c, s)
  BY <1>2, <1>3, <1>4, <1>5, CountSame DEF Opening, Working, Stored
<1>7. Taking(s) = 0 /\ Taking(s)' = 0
  BY <1>2, <1>3, <1>4, TakingIs
<1>8. Debt(s)' <= Count(s)' + 1
  <2>1. PICK e, e1, t, n : /\ e = conn[s].events /\ e1 = conn'[s].events /\ t = Stored(s) /\ n = Count(s)
    OBVIOUS
  <2>2. e \in Nat /\ e1 \in Nat /\ t \in 0..1 /\ n \in Nat
    BY <1>2, <1>3, <2>1, BoundTypes, Unpack
  <2>3. e + t + 0 <= n + 1
    BY <1>3, <1>6, <1>7, <2>1 DEF SlotBounds, Debt
  <2>4. e1 + t + 0 <= n + 1
    BY <1>5, <2>1, <2>2, <2>3
  <2> QED
    BY <1>6, <1>7, <2>1, <2>4 DEF Debt
<1>9. SlotBounds(s)'
  BY <1>3, <1>4, <1>6, <1>8, ClientBound
<1> QED
  BY <1>2, <1>3, <1>4, <1>5, <1>9, ClientBounds

LEMMA ClientTimeoutBounds ==
  ASSUME NodeInv, NodeNext, NEW c \in Clients, ClientTimeout(c)
  PROVE  Bounds'
<1>1. PICK s : s = client[c].slot
  OBVIOUS
<1>2. /\ client[c].at = "read" /\ TypeInv' /\ Queues' /\ UNCHANGED <<server, router, accepting>>
  BY ClientTimeoutIs
<1>3. s \in SlotIds /\ client[c].slot = s /\ SlotBounds(s) /\ ClientHas(c, s)
  BY <1>1, <1>2, ClientFacts, Unpack DEF Bounds
<1>4. /\ client'[c].slot = s /\ client'[c].at = "close" /\ ClientHas(c, s)'
      /\ \A d \in Clients : d # c => client'[d] = client[d]
  BY <1>1, ClientTimeoutIs DEF ClientIs, ClientHas
<1>5. /\ \A u \in SlotIds : u # s => conn'[u] = conn[u] /\ Queued(u)' = Queued(u)
      /\ conn'[s].events = conn[s].events /\ Queued(s)' = Queued(s)
  BY <1>1, <1>3, ClientTimeoutIs DEF Becomes
<1>6. ~Opening(c, s)' /\ Stored(s)' = Stored(s) /\ Count(s)' = Count(s) /\ Working(c, s)
  BY <1>2, <1>3, <1>4, <1>5, CountSame DEF Opening, Working, Stored
<1>7. Taking(s) = 0 /\ Taking(s)' = 0
  BY <1>2, <1>3, <1>4, TakingIs
<1>8. Debt(s)' <= Count(s)' + 1
  <2>1. PICK e, e1, t, n : /\ e = conn[s].events /\ e1 = conn'[s].events /\ t = Stored(s) /\ n = Count(s)
    OBVIOUS
  <2>2. e \in Nat /\ e1 \in Nat /\ t \in 0..1 /\ n \in Nat
    BY <1>2, <1>3, <2>1, BoundTypes, Unpack
  <2>3. e + t + 0 <= n + 1
    BY <1>3, <1>6, <1>7, <2>1 DEF SlotBounds, Debt
  <2>4. e1 + t + 0 <= n + 1
    BY <1>5, <2>1, <2>2, <2>3
  <2> QED
    BY <1>6, <1>7, <2>1, <2>4 DEF Debt
<1>9. SlotBounds(s)'
  BY <1>3, <1>4, <1>6, <1>8, ClientBound
<1> QED
  BY <1>2, <1>3, <1>4, <1>5, <1>9, ClientBounds

LEMMA ClientReadBounds ==
  ASSUME NodeInv, NodeNext, NEW c \in Clients, ClientRead(c)
  PROVE  Bounds'
<1>1. PICK s : s = client[c].slot
  OBVIOUS
<1>2. /\ client[c].at = "read" /\ TypeInv' /\ Queues' /\ UNCHANGED <<server, router, accepting>>
  BY ClientReadIs
<1>3. s \in SlotIds /\ client[c].slot = s /\ SlotBounds(s) /\ ClientHas(c, s)
  BY <1>1, <1>2, ClientFacts, Unpack DEF Bounds
<1>4. /\ client'[c].slot = s /\ client'[c].at = "event" /\ ClientHas(c, s)'
      /\ \A d \in Clients : d # c => client'[d] = client[d]
  BY <1>1, ClientReadIs DEF ClientIs, ClientHas
<1>5. /\ \A u \in SlotIds : u # s => conn'[u] = conn[u] /\ Queued(u)' = Queued(u)
      /\ conn'[s].events = conn[s].events - 1 /\ Queued(s)' = Queued(s)
  BY <1>1, <1>3, ClientReadIs DEF Becomes
<1>6. ~Opening(c, s)' /\ Stored(s)' = Stored(s) /\ Count(s)' = Count(s) /\ Working(c, s)
  BY <1>2, <1>3, <1>4, <1>5, CountSame DEF Opening, Working, Stored
<1>7. Taking(s) = 0 /\ Taking(s)' = 1
  BY <1>2, <1>3, <1>4, TakingIs
<1>8. Debt(s)' <= Count(s)' + 1
  <2>1. PICK e, e1, t, n : /\ e = conn[s].events /\ e1 = conn'[s].events /\ t = Stored(s) /\ n = Count(s)
    OBVIOUS
  <2>2. e \in Nat /\ e1 \in Nat /\ t \in 0..1 /\ n \in Nat
    BY <1>2, <1>3, <2>1, BoundTypes, Unpack
  <2>3. e + t + 0 <= n + 1
    BY <1>3, <1>6, <1>7, <2>1 DEF SlotBounds, Debt
  <2>4. e1 + t + 1 <= n + 1
    BY <1>5, <2>1, <2>2, <2>3
  <2> QED
    BY <1>6, <1>7, <2>1, <2>4 DEF Debt
<1>9. SlotBounds(s)'
  BY <1>3, <1>4, <1>6, <1>8, ClientBound
<1> QED
  BY <1>2, <1>3, <1>4, <1>5, <1>9, ClientBounds


LEMMA ClientReadPacketBounds ==
  ASSUME NodeInv, NodeNext, NEW c \in Clients, ClientReadPacket(c)
  PROVE  Bounds'
<1>1. PICK s : s = client[c].slot
  OBVIOUS
<1>2. /\ client[c].at = "event" /\ TypeInv' /\ Queues' /\ UNCHANGED <<server, router, accepting>>
  BY ClientReadPacketIs
<1>3. s \in SlotIds /\ client[c].slot = s /\ SlotBounds(s) /\ ClientHas(c, s)
  BY <1>1, <1>2, ClientFacts, Unpack DEF Bounds
<1>4. /\ client'[c].slot = s /\ client'[c].at = "close" /\ ClientHas(c, s)'
      /\ \A d \in Clients : d # c => client'[d] = client[d]
  BY <1>1, ClientReadPacketIs DEF ClientIs, ClientHas
<1>5. /\ \A u \in SlotIds : u # s => conn'[u] = conn[u] /\ Queued(u)' = Queued(u)
      /\ conn'[s].events = conn[s].events
      /\ Queued(s)' = Queued(s) \/ \E b \in Queued(s) : Queued(s)' = Queued(s) \ {b}
  BY <1>1, <1>3, ClientReadPacketIs DEF Becomes
<1>6. ~Opening(c, s)' /\ Working(c, s) /\ Stored(s)' = Stored(s)
  BY <1>2, <1>3, <1>4 DEF Opening, Working, Stored
<1>7. Taking(s) = 1 /\ Taking(s)' = 0
  BY <1>2, <1>3, <1>4, TakingIs
<1>8. Debt(s)' <= Count(s)' + 1
  <2>1. PICK e, t, n, m : /\ e = conn[s].events /\ t = Stored(s) /\ n = Count(s) /\ m = Count(s)'
    OBVIOUS
  <2>2. e \in Nat /\ t \in 0..1 /\ n \in Nat /\ m \in Nat
    BY <1>2, <1>3, <2>1, BoundTypes, Unpack
  <2>3. e + t + 1 <= n + 1
    BY <1>3, <1>6, <1>7, <2>1 DEF SlotBounds, Debt
  <2>4. m = n \/ m = n - 1
    BY <1>3, <1>5, <2>1, Unpack, CountIs, FS_RemoveElement DEF Count
  <2>5. e + t + 0 <= m + 1
    BY <2>2, <2>3, <2>4
  <2> QED
    BY <1>5, <1>6, <1>7, <2>1, <2>5 DEF Debt
<1>9. SlotBounds(s)'
  BY <1>3, <1>4, <1>6, <1>8, ClientBound
<1> QED
  BY <1>2, <1>3, <1>4, <1>5, <1>9, ClientBounds

\* What the events of a connection come to when its packets are flushed
LEMMA CloseRoom ==
  ASSUME NodeInv, NEW s \in SlotIds, Debt(s) <= Count(s) + 1
  PROVE  conn[s].events + Storing(s) <= NumBuffers + 1
<1>1. PICK e, t, n, st, tk, d : /\ e = conn[s].events /\ t = Storing(s) /\ n = Count(s)
                                /\ st = Stored(s) /\ tk = Taking(s) /\ d = Debt(s)
  OBVIOUS
<1>2. /\ e \in Nat /\ n \in Nat /\ n <= NumBuffers /\ NumBuffers \in Nat
  BY <1>1, Unpack, ConnFields, CountIs, BuffersFinite
<1>3. /\ t \in 0..1 /\ st \in 0..1 /\ tk \in 0..1 /\ d = e + st + tk
  BY <1>1 DEF Storing, Stored, Taking, Debt
<1>4. t = st \/ n <= NumBuffers - 1
  <2>1. CASE router.slot = s /\ router.at = "put"
    <3>1. PICK b : b = router.buf
      OBVIOUS
    <3>2. b \in Buffers /\ b \notin Queued(s)
      BY <2>1, <3>1, RouterFacts, Unpack, OnePlace
    <3>3. Queued(s) \subseteq Buffers \ {b} /\ IsFiniteSet(Buffers \ {b})
      BY <3>2, Unpack, CountIs, BuffersFinite, FS_RemoveElement
    <3>4. Cardinality(Buffers \ {b}) = NumBuffers - 1
      BY <3>2, BuffersFinite, FS_RemoveElement DEF NumBuffers
    <3>5. Cardinality(Queued(s)) <= NumBuffers - 1
      BY <3>3, <3>4, FS_Subset
    <3> QED
      BY <1>1, <3>5 DEF Count
  <2>2. CASE ~(router.slot = s /\ router.at = "put")
    BY <1>1, <2>2 DEF Storing, Stored
  <2> QED
    BY <2>1, <2>2
<1>5. e + t <= NumBuffers + 1
  BY <1>1, <1>2, <1>3, <1>4
<1> QED
  BY <1>1, <1>5

LEMMA ClientCloseBounds ==
  ASSUME NodeInv, NodeNext, NEW c \in Clients, ClientClose(c)
  PROVE  Bounds'
<1>1. PICK s : s = client[c].slot
  OBVIOUS
<1>2. /\ client[c].at = "close" /\ TypeInv' /\ Queues' /\ UNCHANGED <<server, router, accepting>>
  BY ClientCloseIs
<1>3. s \in SlotIds /\ client[c].slot = s /\ SlotBounds(s) /\ ClientHas(c, s)
  BY <1>1, <1>2, ClientFacts, Unpack DEF Bounds
<1>4. /\ client'[c].slot = s
      /\ \A d \in Clients : d # c => client'[d] = client[d]
  BY <1>1, ClientCloseIs DEF ClientIs
<1>5. /\ \A u \in SlotIds : u # s => conn'[u] = conn[u] /\ Queued(u)' = Queued(u)
      /\ conn'[s].events = conn[s].events /\ ~conn'[s].open
  BY <1>1, <1>3, ClientCloseIs DEF Becomes
<1>6. Working(c, s) /\ Storing(s)' = Storing(s) /\ ~Vacant(s)'
  BY <1>2, <1>3, <1>4 DEF Working, Storing, Vacant
<1>7. conn[s].events + Storing(s) <= NumBuffers + 1
  BY <1>3, <1>6, CloseRoom DEF SlotBounds
<1>8. SlotBounds(s)'
  BY <1>2, <1>3, <1>5, <1>6, <1>7, ClosedBound
<1> QED
  BY <1>2, <1>3, <1>4, <1>5, <1>8, ClientBounds

LEMMA ClientCloseEndsBounds ==
  ASSUME NodeInv, NodeNext, NEW c \in Clients, ClientCloseEnds(c)
  PROVE  Bounds'
<1>1. PICK s : s = client[c].slot
  OBVIOUS
<1>2. /\ client[c].at = "closing" /\ TypeInv' /\ Queues' /\ UNCHANGED <<server, router, accepting>>
  BY ClientCloseEndsIs
<1>3. s \in SlotIds /\ client[c].slot = s /\ SlotBounds(s)
  BY <1>1, <1>2, ClientFacts, Unpack DEF Bounds
<1>4. /\ client'[c].slot = None
      /\ \A d \in Clients : d # c => client'[d] = client[d]
  BY <1>1, ClientCloseEndsIs DEF ClientIs
<1>5. /\ \A u \in SlotIds : u # s => conn'[u] = conn[u] /\ Queued(u)' = Queued(u)
      /\ conn'[s].events = 0 /\ ~conn'[s].open
  BY <1>1, <1>2, <1>3, ClientCloseEndsIs, ClientFacts DEF Becomes
<1>6. Storing(s)' \in 0..1
  BY DEF Storing
<1>7. SlotBounds(s)'
  BY <1>2, <1>3, <1>5, <1>6, BuffersFinite, ClosedBound
<1> QED
  BY <1>2, <1>3, <1>4, <1>5, <1>7, ClientBounds

LEMMA ServerReadBounds ==
  ASSUME NodeInv, NodeNext, ServerRead
  PROVE  Bounds'
<1>1. PICK s : s = server.slot
  OBVIOUS
<1>2. /\ server.at = "read" /\ TypeInv' /\ Queues' /\ UNCHANGED <<client, router, accepting>>
  BY ServerReadIs
<1>3. s \in SlotIds /\ server.slot = s /\ SlotBounds(s) /\ ServerHas(s)
  BY <1>1, <1>2, ServerFacts, Unpack DEF Bounds
<1>4. /\ server'.slot = s /\ server'.at = "event" /\ ServerHas(s)'
  BY <1>1, ServerReadIs DEF ServerIs, ServerHas
<1>5. /\ \A u \in SlotIds : u # s => conn'[u] = conn[u] /\ Queued(u)' = Queued(u)
      /\ conn'[s].events = conn[s].events - 1 /\ Queued(s)' = Queued(s)
  BY <1>1, <1>3, ServerReadIs DEF Becomes
<1>6. Stored(s)' = Stored(s) /\ Count(s)' = Count(s)
  BY <1>2, <1>3, <1>5, CountSame DEF Stored
<1>7. Taking(s) = 0 /\ Taking(s)' = 1
  BY <1>2, <1>3, <1>4, TakingIs
<1>8. Debt(s)' <= Count(s)' + 1
  <2>1. PICK e, e1, t, n : /\ e = conn[s].events /\ e1 = conn'[s].events /\ t = Stored(s) /\ n = Count(s)
    OBVIOUS
  <2>2. e \in Nat /\ e1 \in Nat /\ t \in 0..1 /\ n \in Nat
    BY <1>2, <1>3, <2>1, BoundTypes, Unpack
  <2>3. e + t + 0 <= n + 1
    BY <1>3, <1>6, <1>7, <2>1 DEF SlotBounds, Debt
  <2>4. e1 + t + 1 <= n + 1
    BY <1>5, <2>1, <2>2, <2>3
  <2> QED
    BY <1>6, <1>7, <2>1, <2>4 DEF Debt
<1>9. SlotBounds(s)'
  BY <1>3, <1>4, <1>8, ServedBound DEF Served
<1> QED
  BY <1>2, <1>3, <1>4, <1>5, <1>9, ServerBounds

LEMMA ServerTimeoutBounds ==
  ASSUME NodeInv, NodeNext, ServerTimeout
  PROVE  Bounds'
<1>1. PICK s : s = server.slot
  OBVIOUS
<1>2. /\ server.at = "read" /\ TypeInv' /\ Queues' /\ UNCHANGED <<client, router, accepting>>
  BY ServerTimeoutIs
<1>3. s \in SlotIds /\ server.slot = s /\ SlotBounds(s) /\ ServerHas(s)
  BY <1>1, <1>2, ServerFacts, Unpack DEF Bounds
<1>4. /\ server'.slot = s /\ server'.at = "close" /\ ServerHas(s)'
  BY <1>1, ServerTimeoutIs DEF ServerIs, ServerHas
<1>5. /\ \A u \in SlotIds : u # s => conn'[u] = conn[u] /\ Queued(u)' = Queued(u)
      /\ conn'[s].events = conn[s].events /\ Queued(s)' = Queued(s)
  BY <1>1, <1>3, ServerTimeoutIs DEF Becomes
<1>6. Stored(s)' = Stored(s) /\ Count(s)' = Count(s)
  BY <1>2, <1>3, <1>5, CountSame DEF Stored
<1>7. Taking(s) = 0 /\ Taking(s)' = 0
  BY <1>2, <1>3, <1>4, TakingIs
<1>8. Debt(s)' <= Count(s)' + 1
  <2>1. PICK e, e1, t, n : /\ e = conn[s].events /\ e1 = conn'[s].events /\ t = Stored(s) /\ n = Count(s)
    OBVIOUS
  <2>2. e \in Nat /\ e1 \in Nat /\ t \in 0..1 /\ n \in Nat
    BY <1>2, <1>3, <2>1, BoundTypes, Unpack
  <2>3. e + t + 0 <= n + 1
    BY <1>3, <1>6, <1>7, <2>1 DEF SlotBounds, Debt
  <2>4. e1 + t + 0 <= n + 1
    BY <1>5, <2>1, <2>2, <2>3
  <2> QED
    BY <1>6, <1>7, <2>1, <2>4 DEF Debt
<1>9. SlotBounds(s)'
  BY <1>3, <1>4, <1>8, ServedBound DEF Served
<1> QED
  BY <1>2, <1>3, <1>4, <1>5, <1>9, ServerBounds

LEMMA ServeBounds ==
  ASSUME NodeInv, NodeNext, Serve
  PROVE  Bounds'
<1>1. PICK s : s = server.slot
  OBVIOUS
<1>2. /\ server.at = "serve" /\ TypeInv' /\ Queues' /\ UNCHANGED <<client, router, accepting>>
  BY ServeIs
<1>3. s \in SlotIds /\ server.slot = s /\ SlotBounds(s) /\ ServerHas(s)
  BY <1>1, <1>2, ServerFacts, Unpack DEF Bounds
<1>4. /\ server'.slot = s /\ server'.at \in {"replied", "read"} /\ ServerHas(s)'
  BY <1>1, ServeIs DEF ServerIs, ServerHas
<1>5. /\ \A u \in SlotIds : u # s => conn'[u] = conn[u] /\ Queued(u)' = Queued(u)
      /\ conn'[s].events = conn[s].events /\ Queued(s)' = Queued(s)
  BY <1>1, <1>3, ServeIs DEF Becomes
<1>6. Stored(s)' = Stored(s) /\ Count(s)' = Count(s)
  BY <1>2, <1>3, <1>5, CountSame DEF Stored
<1>7. Taking(s) = 0 /\ Taking(s)' = 0
  BY <1>2, <1>3, <1>4, TakingIs
<1>8. Debt(s)' <= Count(s)' + 1
  <2>1. PICK e, e1, t, n : /\ e = conn[s].events /\ e1 = conn'[s].events /\ t = Stored(s) /\ n = Count(s)
    OBVIOUS
  <2>2. e \in Nat /\ e1 \in Nat /\ t \in 0..1 /\ n \in Nat
    BY <1>2, <1>3, <2>1, BoundTypes, Unpack
  <2>3. e + t + 0 <= n + 1
    BY <1>3, <1>6, <1>7, <2>1 DEF SlotBounds, Debt
  <2>4. e1 + t + 0 <= n + 1
    BY <1>5, <2>1, <2>2, <2>3
  <2> QED
    BY <1>6, <1>7, <2>1, <2>4 DEF Debt
<1>9. SlotBounds(s)'
  BY <1>3, <1>4, <1>8, ServedBound DEF Served
<1> QED
  BY <1>2, <1>3, <1>4, <1>5, <1>9, ServerBounds

LEMMA ServerSendEventBounds ==
  ASSUME NodeInv, NodeNext, ServerSendEvent
  PROVE  Bounds'
<1>1. PICK s : s = server.slot
  OBVIOUS
<1>2. /\ server.at = "replied" /\ TypeInv' /\ Queues' /\ UNCHANGED <<client, router, accepting>>
  BY ServerSendEventIs
<1>3. s \in SlotIds /\ server.slot = s /\ SlotBounds(s) /\ ServerHas(s)
  BY <1>1, <1>2, ServerFacts, Unpack DEF Bounds
<1>4. /\ server'.slot = s /\ server'.at = "read" /\ ServerHas(s)'
  BY <1>1, ServerSendEventIs DEF ServerIs, ServerHas
<1>5. /\ \A u \in SlotIds : u # s => conn'[u] = conn[u] /\ Queued(u)' = Queued(u)
      /\ conn'[s].events = conn[s].events /\ Queued(s)' = Queued(s)
  BY <1>1, <1>3, ServerSendEventIs DEF Becomes
<1>6. Stored(s)' = Stored(s) /\ Count(s)' = Count(s)
  BY <1>2, <1>3, <1>5, CountSame DEF Stored
<1>7. Taking(s) = 0 /\ Taking(s)' = 0
  BY <1>2, <1>3, <1>4, TakingIs
<1>8. Debt(s)' <= Count(s)' + 1
  <2>1. PICK e, e1, t, n : /\ e = conn[s].events /\ e1 = conn'[s].events /\ t = Stored(s) /\ n = Count(s)
    OBVIOUS
  <2>2. e \in Nat /\ e1 \in Nat /\ t \in 0..1 /\ n \in Nat
    BY <1>2, <1>3, <2>1, BoundTypes, Unpack
  <2>3. e + t + 0 <= n + 1
    BY <1>3, <1>6, <1>7, <2>1 DEF SlotBounds, Debt
  <2>4. e1 + t + 0 <= n + 1
    BY <1>5, <2>1, <2>2, <2>3
  <2> QED
    BY <1>6, <1>7, <2>1, <2>4 DEF Debt
<1>9. SlotBounds(s)'
  BY <1>3, <1>4, <1>8, ServedBound DEF Served
<1> QED
  BY <1>2, <1>3, <1>4, <1>5, <1>9, ServerBounds

LEMMA ServerReadPacketBounds ==
  ASSUME NodeInv, NodeNext, ServerReadPacket
  PROVE  Bounds'
<1>1. PICK s : s = server.slot
  OBVIOUS
<1>2. /\ server.at = "event" /\ TypeInv' /\ Queues' /\ UNCHANGED <<client, router, accepting>>
  BY ServerReadPacketIs
<1>3. s \in SlotIds /\ server.slot = s /\ SlotBounds(s) /\ ServerHas(s)
  BY <1>1, <1>2, ServerFacts, Unpack DEF Bounds
<1>4. /\ server'.slot = s /\ server'.at \in {"serve", "close"} /\ ServerHas(s)'
  BY <1>1, ServerReadPacketIs DEF ServerIs, ServerHas
<1>5. /\ \A u \in SlotIds : u # s => conn'[u] = conn[u] /\ Queued(u)' = Queued(u)
      /\ conn'[s].events = conn[s].events
      /\ Queued(s)' = Queued(s) \/ \E b \in Queued(s) : Queued(s)' = Queued(s) \ {b}
  BY <1>1, <1>3, ServerReadPacketIs DEF Becomes
<1>6. Stored(s)' = Stored(s)
  BY <1>2, <1>3 DEF Stored
<1>7. Taking(s) = 1 /\ Taking(s)' = 0
  BY <1>2, <1>3, <1>4, TakingIs
<1>8. Debt(s)' <= Count(s)' + 1
  <2>1. PICK e, t, n, m : /\ e = conn[s].events /\ t = Stored(s) /\ n = Count(s) /\ m = Count(s)'
    OBVIOUS
  <2>2. e \in Nat /\ t \in 0..1 /\ n \in Nat /\ m \in Nat
    BY <1>2, <1>3, <2>1, BoundTypes, Unpack
  <2>3. e + t + 1 <= n + 1
    BY <1>3, <1>7, <2>1 DEF SlotBounds, Debt
  <2>4. m = n \/ m = n - 1
    BY <1>3, <1>5, <2>1, Unpack, CountIs, FS_RemoveElement DEF Count
  <2>5. e + t + 0 <= m + 1
    BY <2>2, <2>3, <2>4
  <2> QED
    BY <1>5, <1>6, <1>7, <2>1, <2>5 DEF Debt
<1>9. SlotBounds(s)'
  BY <1>3, <1>4, <1>8, ServedBound DEF Served
<1> QED
  BY <1>2, <1>3, <1>4, <1>5, <1>9, ServerBounds

LEMMA ServerCloseBounds ==
  ASSUME NodeInv, NodeNext, ServerClose
  PROVE  Bounds'
<1>1. PICK s : s = server.slot
  OBVIOUS
<1>2. /\ server.at = "close" /\ TypeInv' /\ Queues' /\ UNCHANGED <<client, router, accepting>>
  BY ServerCloseIs
<1>3. s \in SlotIds /\ server.slot = s /\ SlotBounds(s) /\ ServerHas(s)
  BY <1>1, <1>2, ServerFacts, Unpack DEF Bounds
<1>4. server'.slot = s
  BY <1>1, ServerCloseIs DEF ServerIs
<1>5. /\ \A u \in SlotIds : u # s => conn'[u] = conn[u] /\ Queued(u)' = Queued(u)
      /\ conn'[s].events = conn[s].events /\ ~conn'[s].open
  BY <1>1, <1>3, ServerCloseIs DEF Becomes
<1>6. Storing(s)' = Storing(s) /\ ~Vacant(s)'
  BY <1>2, <1>3, <1>4 DEF Storing, Vacant
<1>7. conn[s].events + Storing(s) <= NumBuffers + 1
  BY <1>3, CloseRoom DEF SlotBounds
<1>8. SlotBounds(s)'
  BY <1>2, <1>3, <1>5, <1>6, <1>7, ClosedBound
<1> QED
  BY <1>2, <1>3, <1>4, <1>5, <1>8, ServerBounds

LEMMA ServerCloseEndsBounds ==
  ASSUME NodeInv, NodeNext, ServerCloseEnds
  PROVE  Bounds'
<1>1. PICK s : s = server.slot
  OBVIOUS
<1>2. /\ server.at = "closing" /\ TypeInv' /\ Queues' /\ UNCHANGED <<client, router, accepting>>
  BY ServerCloseEndsIs
<1>3. s \in SlotIds /\ server.slot = s /\ SlotBounds(s)
  BY <1>1, <1>2, ServerFacts, Unpack DEF Bounds
<1>4. server'.slot = None
  BY <1>1, ServerCloseEndsIs DEF ServerIs
<1>5. /\ \A u \in SlotIds : u # s => conn'[u] = conn[u] /\ Queued(u)' = Queued(u)
      /\ conn'[s].events = 0 /\ ~conn'[s].open
  BY <1>1, <1>2, <1>3, ServerCloseEndsIs, ServerFacts DEF Becomes
<1>6. Storing(s)' \in 0..1
  BY DEF Storing
<1>7. SlotBounds(s)'
  BY <1>2, <1>3, <1>5, <1>6, BuffersFinite, ClosedBound
<1> QED
  BY <1>2, <1>3, <1>4, <1>5, <1>7, ServerBounds

LEMMA AcceptBounds ==
  ASSUME NodeInv, NodeNext, Accept
  PROVE  Bounds'
<1>1. /\ server.at = "accept" /\ server.slot = None /\ TypeInv' /\ Queues'
      /\ UNCHANGED <<client, router>> /\ conn' = conn /\ \A u \in SlotIds : Queued(u)' = Queued(u)
  BY AcceptIs, ServerFacts
<1>2. PICK s \in SlotIds : /\ s \in Elems(accepting) /\ ServerIs("read", s, None)
                           /\ Elems(accepting') = Elems(accepting) \ {s}
  BY AcceptIs
<1>3. server'.slot = s /\ server'.at = "read" /\ ServerHas(s)' /\ SlotBounds(s)
  BY <1>2, Unpack DEF ServerIs, ServerHas, Bounds
<1>4. Stored(s)' = Stored(s) /\ Count(s)' = Count(s)
  BY <1>1, CountSame DEF Stored
<1>5. Taking(s) = 0 /\ Taking(s)' = 0
  BY <1>2, <1>3, TakingIs
<1>6. Debt(s)' = Debt(s) /\ Debt(s) <= Count(s) + 1
  BY <1>1, <1>2, <1>3, <1>4, <1>5 DEF Debt, SlotBounds
<1>7. SlotBounds(s)'
  BY <1>3, <1>4, <1>6, ServedBound DEF Served
<1> QED
  BY <1>1, <1>2, <1>3, <1>7, ServerBounds


LEMMA RouterReadBounds ==
  ASSUME NodeInv, NodeNext, RouterRead
  PROVE  Bounds'
<1>1. /\ TypeInv' /\ Queues' /\ router.at = "wait" /\ UNCHANGED <<client, server, accepting>>
      /\ conn' = conn /\ \A u \in SlotIds : Queued(u)' = Queued(u)
  BY RouterReadIs
<1>2. router.slot = None /\ router'.slot = None
  BY <1>1, RouterReadIs, RouterFacts DEF RouterIs
<1>3. \A u \in SlotIds : Keeps(u)
  <2> SUFFICES ASSUME NEW u \in SlotIds PROVE Keeps(u)
    OBVIOUS
  <2> QED
    BY <1>1, <1>2, SlotIdsType, RouterKeeps
<1> QED
  BY <1>1, <1>3, BoundsFrom

\* The router has found the connection of its packet.
LEMMA FoundKeeps ==
  ASSUME NodeInv, NodeNext, TypeInv', Queues', NEW s \in SlotIds, NEW b \in Buffers,
         router.at = "find", router.buf = b, router.slot = None,
         UNCHANGED <<content, client, server, accepting, free>>,
         conn[s].open, s # Socket, conn[s].id = content[b].id,
         RouterIs("put", s, b), conn' = conn, \A u \in SlotIds : Queued(u)' = Queued(u)
  PROVE  Keeps(s)
<1>1. /\ router'.at = "put" /\ router'.slot = s /\ router'.buf = b /\ s # None
  BY SlotIdsType DEF RouterIs
<1>2. Storing(s) = 0 /\ Storing(s)' = 1 /\ Stored(s) = 0 /\ Stored(s)' = 0
  BY <1>1 DEF Storing, Stored
<1>3. Taking(s)' = Taking(s) /\ Count(s)' = Count(s) /\ (Served(s)' => Served(s)) /\ ~Vacant(s)'
  BY CountSame DEF Taking, Served, ServerHas, Vacant
<1>4. Debt(s)' = Debt(s)
  BY <1>2, <1>3 DEF Debt
<1>5. ~RouterOwns(s)'
  <2>1. ~conn[s].post
    BY Unpack, <1>1 DEF Flags
  <2> QED
    BY <1>1, <2>1 DEF RouterOwns
<1>6. \A c \in Clients : /\ Opening(c, s)' <=> Opening(c, s)
                         /\ Working(c, s)' <=> Working(c, s)
  BY DEF Opening, Working
<1>7. ASSUME NEW c \in Clients, Opening(c, s)
      PROVE  Cardinality(InFlight(s)') + 1 <= Cardinality(InFlight(s))
  <2>1. InFlight(s)' \subseteq InFlight(s)
    BY <1>7, FlightStep
  <2>2. b \in InFlight(s)
    <3>1. /\ b \notin free /\ \A d \in Clients : client[d].buf # b
          /\ b \notin Queued(s)
      BY Unpack, OnePlace
    <3>2. conn[s].id[1] = ServerPort
      BY <1>7, OpeningFacts
    <3> QED
      BY <1>1, <3>1, <3>2 DEF InFlight, Used, Port
  <2>3. b \notin InFlight(s)'
    BY <1>1 DEF InFlight
  <2>4. InFlight(s)' \subseteq InFlight(s) \ {b} /\ IsFiniteSet(InFlight(s))
    BY <2>1, <2>3, UsedFinite
  <2>5. Cardinality(InFlight(s) \ {b}) = Cardinality(InFlight(s)) - 1 /\ IsFiniteSet(InFlight(s) \ {b})
    BY <2>2, <2>4, FS_RemoveElement
  <2>6. Cardinality(InFlight(s)') <= Cardinality(InFlight(s)) - 1
    BY <2>4, <2>5, FS_Subset
  <2> QED
    BY <2>6, BoundTypes, Unpack
<1>8. (\E c \in Clients : Opening(c, s)') =>
        conn'[s].events + Storing(s)' + Cardinality(InFlight(s)')
          <= conn[s].events + Storing(s) + Cardinality(InFlight(s))
  <2>1. PICK e, f, f1 : /\ e = conn[s].events /\ f = Cardinality(InFlight(s))
                        /\ f1 = Cardinality(InFlight(s)')
    OBVIOUS
  <2>2. {e, f, f1} \subseteq Nat
    BY <2>1, BoundTypes, Unpack
  <2>3. f1 + 1 <= f => e + 1 + f1 <= e + 0 + f
    BY <2>2
  <2> QED
    BY <1>2, <1>6, <1>7, <2>1, <2>3
<1>9. Debt(s)' + Count(s) <= Debt(s) + Count(s)'
  BY <1>3, <1>4, BoundTypes, Unpack
<1> QED
  BY <1>3, <1>5, <1>6, <1>8, <1>9 DEF Keeps

LEMMA RouterFindBounds ==
  ASSUME NodeInv, NodeNext, RouterFind
  PROVE  Bounds'
<1>1. PICK b : b = router.buf
  OBVIOUS
<1>2. /\ TypeInv' /\ Queues' /\ router.at = "find" /\ b \in Buffers /\ router.slot = None
      /\ UNCHANGED <<content, client, server, accepting>>
  BY <1>1, RouterFindIs
<1>3. ASSUME NEW s \in SlotIds, conn[s].open, s # Socket, conn[s].id = content[b].id,
             RouterIs("put", s, b), free' = free,
             conn' = conn, \A u \in SlotIds : Queued(u)' = Queued(u)
      PROVE  Bounds'
  <2>1. Keeps(s) /\ router'.slot = s
    BY <1>1, <1>2, <1>3, FoundKeeps DEF RouterIs
  <2> QED
    BY <1>2, <1>3, <2>1, RouterBounds
<1>4. ASSUME NEW s \in SlotIds, ~conn[s].open, s # Socket, ~Locked, RouterIs("new", s, b),
             Becomes(s, TRUE, content[b].id, FALSE, conn[s].events, Queued(s))
      PROVE  Bounds'
  <2>1. /\ router'.slot = s /\ router'.at = "new" /\ RouterOwns(s)'
    BY <1>4 DEF RouterIs, RouterOwns
  <2>2. /\ \A u \in SlotIds : u # s => conn'[u] = conn[u] /\ Queued(u)' = Queued(u)
        /\ conn'[s].events = conn[s].events
    BY <1>4 DEF Becomes
  <2>3. Vacant(s)
    <3>1. ~ServerHas(s) /\ \A d \in Clients : ~ClientHas(d, s)
      BY <1>4, Unpack, OneOwner
    <3> QED
      BY <1>4, <3>1 DEF Vacant, ServerHas, ClientHas, Locked
  <2>4. conn[s].events + Storing(s) <= 1
    BY <2>3, Unpack DEF Bounds, SlotBounds
  <2>5. conn[s].events <= 1
    <3>1. conn[s].events \in Nat /\ Storing(s) \in 0..1
      BY <1>2, BoundTypes, Unpack
    <3> QED
      BY <2>4, <3>1
  <2>6. SlotBounds(s)'
    BY <2>1, <2>2, <2>5, RouterBound
  <2> QED
    BY <1>2, <2>1, <2>2, <2>6, RouterBounds
<1>5. CASE /\ RouterIs("wait", None, None)
           /\ conn' = conn /\ \A u \in SlotIds : Queued(u)' = Queued(u)
  <2>1. router'.slot = None
    BY <1>5 DEF RouterIs
  <2>2. \A u \in SlotIds : Keeps(u)
    <3> SUFFICES ASSUME NEW u \in SlotIds PROVE Keeps(u)
      OBVIOUS
    <3> QED
      BY <1>2, <1>5, <2>1, SlotIdsType, RouterKeeps
  <2> QED
    BY <1>2, <2>2, BoundsFrom
<1> QED
  BY <1>1, <1>3, <1>4, <1>5, RouterFindIs

LEMMA RouterFlushPacketsBounds ==
  ASSUME NodeInv, NodeNext, RouterFlushPackets
  PROVE  Bounds'
<1>1. PICK s : s = router.slot
  OBVIOUS
<1>2. /\ router.at = "new" /\ TypeInv' /\ Queues' /\ UNCHANGED <<client, server, accepting>>
  BY RouterFlushPacketsIs
<1>3. s \in SlotIds /\ router.slot = s /\ SlotBounds(s) /\ RouterOwns(s)
  BY <1>1, <1>2, RouterFacts, Unpack DEF Bounds
<1>4. router'.slot = s /\ router'.at = "flushed" /\ RouterOwns(s)'
  BY <1>1, RouterFlushPacketsIs DEF RouterIs, RouterOwns
<1>5. /\ \A u \in SlotIds : u # s => conn'[u] = conn[u] /\ Queued(u)' = Queued(u)
      /\ conn'[s].events = conn[s].events
  BY <1>1, RouterFlushPacketsIs DEF Becomes
<1>6. conn'[s].events <= 1
  BY <1>2, <1>3, <1>5 DEF SlotBounds
<1>7. SlotBounds(s)'
  BY <1>3, <1>4, <1>6, RouterBound
<1> QED
  BY <1>2, <1>3, <1>4, <1>5, <1>7, RouterBounds

LEMMA RouterFlushEventsBounds ==
  ASSUME NodeInv, NodeNext, RouterFlushEvents
  PROVE  Bounds'
<1>1. PICK s : s = router.slot
  OBVIOUS
<1>2. /\ router.at = "flushed" /\ TypeInv' /\ Queues' /\ UNCHANGED <<client, server, accepting>>
  BY RouterFlushEventsIs
<1>3. s \in SlotIds /\ router.slot = s
  BY <1>1, <1>2, RouterFacts
<1>4. router'.slot = s /\ router'.at = "put" /\ conn'[s].post
  BY <1>1, RouterFlushEventsIs DEF RouterIs, Becomes
<1>5. /\ \A u \in SlotIds : u # s => conn'[u] = conn[u] /\ Queued(u)' = Queued(u)
      /\ conn'[s].events = 0
  BY <1>1, RouterFlushEventsIs DEF Becomes
<1>6. SlotBounds(s)'
  BY <1>3, <1>4, <1>5, RouterBound DEF RouterOwns
<1> QED
  BY <1>2, <1>3, <1>4, <1>5, <1>6, RouterBounds

\* The router stores its packet, and then the event for it.
LEMMA StoringKeeps ==
  ASSUME NodeInv, NodeNext, TypeInv', Queues', NEW s \in SlotIds,
         UNCHANGED <<client, server, accepting>>, router.slot = s, router'.slot = s,
         conn'[s].open <=> conn[s].open, conn'[s].post <=> conn[s].post,
         router.at \in {"put", "event"}, router'.at \in {"event", "post"},
         conn'[s].events + Storing(s)' = conn[s].events + Storing(s),
         conn'[s].events + Stored(s)' + Count(s) = conn[s].events + Stored(s) + Count(s)',
         conn'[s].events <= conn[s].events + (IF router'.at = "post" THEN 1 ELSE 0)
  PROVE  Keeps(s)
<1>1. /\ Taking(s)' = Taking(s) /\ (Served(s)' => Served(s)) /\ (Vacant(s)' => Vacant(s))
      /\ RouterOwns(s)' => RouterOwns(s)
  BY DEF Taking, Served, ServerHas, Vacant, RouterOwns
<1>2. \A c \in Clients : /\ Opening(c, s)' <=> Opening(c, s)
                         /\ Working(c, s)' <=> Working(c, s)
  BY DEF Opening, Working
<1>3. PICK e, e1, t, t1, st, st1, tk, n, n1, f, f1 :
        /\ e = conn[s].events /\ e1 = conn'[s].events /\ t = Storing(s) /\ t1 = Storing(s)'
        /\ st = Stored(s) /\ st1 = Stored(s)' /\ tk = Taking(s) /\ n = Count(s) /\ n1 = Count(s)'
        /\ f = Cardinality(InFlight(s)) /\ f1 = Cardinality(InFlight(s)')
  OBVIOUS
<1>4. {e, e1, t, t1, st, st1, tk, n, n1, f, f1} \subseteq Nat
  BY <1>1, <1>3, BoundTypes, Unpack
<1>5. RouterOwns(s)' => conn'[s].events <= IF router'.at \in {"put", "event"} THEN 0 ELSE 1
  <2>1. RouterOwns(s) => e <= 0
    BY <1>3, Unpack DEF Bounds, SlotBounds
  <2>2. e1 <= e + (IF router'.at = "post" THEN 1 ELSE 0)
    BY <1>3
  <2> QED
    BY <1>1, <1>3, <1>4, <2>1, <2>2
<1>6. Debt(s)' + Count(s) <= Debt(s) + Count(s)'
  <2>1. e1 + st1 + n = e + st + n1
    BY <1>3
  <2>2. e1 + st1 + tk + n <= e + st + tk + n1
    BY <1>4, <2>1
  <2> QED
    BY <1>1, <1>3, <2>2 DEF Debt
<1>7. ASSUME NEW c \in Clients, Opening(c, s)
      PROVE  conn'[s].events + Storing(s)' + Cardinality(InFlight(s)')
               <= conn[s].events + Storing(s) + Cardinality(InFlight(s))
  <2>1. f1 <= f
    BY <1>3, <1>7, FlightCount
  <2>2. e1 + t1 = e + t
    BY <1>3
  <2>3. e1 + t1 + f1 <= e + t + f
    BY <1>4, <2>1, <2>2
  <2> QED
    BY <1>3, <2>3
<1>8. conn'[s].events + Storing(s)' <= conn[s].events + Storing(s)
  BY <1>3, <1>4
<1> QED
  BY <1>1, <1>2, <1>5, <1>6, <1>7, <1>8 DEF Keeps

LEMMA RouterPutBounds ==
  ASSUME NodeInv, NodeNext, RouterPut
  PROVE  Bounds'
<1>1. PICK s, b : s = router.slot /\ b = router.buf
  OBVIOUS
<1>2. /\ router.at = "put" /\ TypeInv' /\ Queues' /\ UNCHANGED <<client, server, accepting>>
      /\ s \in SlotIds /\ router.slot = s /\ b \in Buffers /\ b \notin Queued(s)
  BY <1>1, RouterPutIs
<1>3. router'.slot = s /\ router'.at = "event"
  BY <1>1, RouterPutIs DEF RouterIs
<1>4. /\ \A u \in SlotIds : u # s => conn'[u] = conn[u] /\ Queued(u)' = Queued(u)
      /\ conn'[s].events = conn[s].events /\ Queued(s)' = Queued(s) \cup {b}
      /\ conn'[s].open <=> conn[s].open
      /\ conn'[s].post <=> conn[s].post
  BY <1>1, <1>2, RouterPutIs DEF Becomes
<1>5. Storing(s) = 1 /\ Storing(s)' = 1 /\ Stored(s) = 0 /\ Stored(s)' = 1
  BY <1>2, <1>3 DEF Storing, Stored
<1>6. Count(s)' = Count(s) + 1
  BY <1>2, <1>4, CountIs, Unpack, FS_AddElement DEF Count
<1>7. Keeps(s)
  <2>1. conn[s].events \in Nat /\ Count(s) \in Nat
    BY <1>2, BoundTypes, Unpack
  <2>2. /\ conn'[s].events + Storing(s)' = conn[s].events + Storing(s)
        /\ conn'[s].events + Stored(s)' + Count(s) = conn[s].events + Stored(s) + Count(s)'
        /\ conn'[s].events <= conn[s].events + (IF router'.at = "post" THEN 1 ELSE 0)
    BY <1>3, <1>4, <1>5, <1>6, <2>1
  <2> QED
    BY <1>2, <1>3, <1>4, <2>2, StoringKeeps
<1> QED
  BY <1>2, <1>3, <1>4, <1>7, RouterBounds

LEMMA RouterEventBounds ==
  ASSUME NodeInv, NodeNext, RouterEvent
  PROVE  Bounds'
<1>1. PICK s : s = router.slot
  OBVIOUS
<1>2. /\ router.at = "event" /\ TypeInv' /\ Queues' /\ UNCHANGED <<client, server, accepting>>
      /\ s \in SlotIds /\ router.slot = s
  BY <1>1, RouterEventIs
<1>3. router'.slot = s /\ router'.at = "post"
  BY <1>1, RouterEventIs DEF RouterIs
<1>4. /\ \A u \in SlotIds : u # s => conn'[u] = conn[u] /\ Queued(u)' = Queued(u)
      /\ conn'[s].events = conn[s].events + 1 /\ Queued(s)' = Queued(s)
      /\ conn'[s].open <=> conn[s].open
      /\ conn'[s].post <=> conn[s].post
  BY <1>1, <1>2, RouterEventIs DEF Becomes
<1>5. Storing(s) = 1 /\ Storing(s)' = 0 /\ Stored(s) = 1 /\ Stored(s)' = 0 /\ Count(s)' = Count(s)
  BY <1>2, <1>3, <1>4, CountSame DEF Storing, Stored
<1>6. Keeps(s)
  <2>1. conn[s].events \in Nat /\ Count(s) \in Nat
    BY <1>2, BoundTypes, Unpack
  <2>2. /\ conn'[s].events + Storing(s)' = conn[s].events + Storing(s)
        /\ conn'[s].events + Stored(s)' + Count(s) = conn[s].events + Stored(s) + Count(s)'
        /\ conn'[s].events <= conn[s].events + (IF router'.at = "post" THEN 1 ELSE 0)
    BY <1>3, <1>4, <1>5, <2>1
  <2> QED
    BY <1>2, <1>3, <1>4, <2>2, StoringKeeps
<1> QED
  BY <1>2, <1>3, <1>4, <1>6, RouterBounds

LEMMA RouterPostBounds ==
  ASSUME NodeInv, NodeNext, RouterPost
  PROVE  Bounds'
<1>1. PICK s : s = router.slot
  OBVIOUS
<1>2. /\ router.at = "post" /\ TypeInv' /\ Queues' /\ UNCHANGED <<client, server>>
      /\ s \in SlotIds /\ router.slot = s
  BY <1>1, RouterPostIs
<1>3. router'.slot = None /\ router'.at = "wait" /\ None # s
  BY <1>2, RouterPostIs, SlotIdsType DEF RouterIs
<1>4. Storing(s) = 0 /\ Storing(s)' = 0 /\ Stored(s) = 0 /\ Stored(s)' = 0
  BY <1>2, <1>3 DEF Storing, Stored
<1>5. CASE /\ ~conn[s].post /\ accepting' = accepting
           /\ conn' = conn /\ \A u \in SlotIds : Queued(u)' = Queued(u)
  <2>1. /\ Taking(s)' = Taking(s) /\ (Served(s)' => Served(s)) /\ (Vacant(s)' => Vacant(s))
        /\ ~RouterOwns(s)'
    BY <1>3, <1>5, <1>2 DEF Taking, Served, ServerHas, Vacant, RouterOwns
  <2>2. \A c \in Clients : /\ Opening(c, s)' => Opening(c, s)
                           /\ Working(c, s)' => Working(c, s)
    BY <1>2 DEF Opening, Working
  <2>3. Keeps(s)
    BY <1>2, <1>4, <1>5, <2>1, <2>2, KeepsSame
  <2> QED
    BY <1>2, <1>3, <1>5, <2>3, RouterBounds
<1>6. CASE /\ conn[s].post /\ Elems(accepting') = Elems(accepting) \cup {s}
           /\ Becomes(s, conn[s].open, conn[s].id, FALSE, conn[s].events, Queued(s))
  <2>1. /\ \A u \in SlotIds : u # s => conn'[u] = conn[u] /\ Queued(u)' = Queued(u)
        /\ conn'[s].events = conn[s].events
    BY <1>6 DEF Becomes
  <2>2. RouterOwns(s) /\ conn[s].events <= 1
    <3>1. RouterOwns(s)
      BY <1>2, <1>6 DEF RouterOwns
    <3> QED
      BY <1>2, <3>1, Unpack DEF Bounds, SlotBounds
  <2>3. s \in Elems(accepting')
    BY <1>6
  <2>4. Taking(s)' = 0
    BY <1>2, <2>3, TakingIs
  <2>5. Debt(s)' <= Count(s)' + 1
    <3>1. conn[s].events \in Nat /\ Count(s)' \in Nat
      BY <1>2, BoundTypes, Unpack
    <3>2. Debt(s)' = conn[s].events
      BY <1>4, <2>1, <2>4, <3>1 DEF Debt
    <3> QED
      BY <2>2, <3>1, <3>2
  <2>6. SlotBounds(s)'
    BY <1>2, <2>3, <2>5, ServedBound DEF Served
  <2> QED
    BY <1>2, <1>3, <1>6, <2>1, <2>6, RouterBounds
<1>7. CASE /\ accepting' = accepting
           /\ Becomes(s, FALSE, conn[s].id, conn[s].post, 0, {})
  <2>1. /\ \A u \in SlotIds : u # s => conn'[u] = conn[u] /\ Queued(u)' = Queued(u)
        /\ conn'[s].events = 0 /\ ~conn'[s].open
    BY <1>2, <1>7 DEF Becomes
  <2>2. SlotBounds(s)'
    BY <1>2, <1>4, <2>1, ClosedBound, BuffersFinite
  <2> QED
    BY <1>2, <1>3, <1>7, <2>1, <2>2, RouterBounds
<1> QED
  BY <1>1, <1>5, <1>6, <1>7, RouterPostIs

LEMMA BoundsStep ==
  ASSUME NodeInv, NodeNext
  PROVE  Bounds'
BY ConnectBounds, ClientFlushPacketsBounds, ClientFlushEventsBounds, ClientSendBounds, ClientSendEventBounds,
   ClientReadBounds, ClientTimeoutBounds, ClientReadPacketBounds, ClientCloseBounds, ClientCloseEndsBounds,
   RouterReadBounds, RouterFindBounds, RouterFlushPacketsBounds, RouterFlushEventsBounds, RouterPutBounds,
   RouterEventBounds, RouterPostBounds, AcceptBounds, ServerReadBounds, ServerTimeoutBounds,
   ServerReadPacketBounds, ServeBounds, ServerSendEventBounds, ServerCloseBounds, ServerCloseEndsBounds
   DEF NodeNext, ClientNext, RouterNext, ServerNext

----------------------------------------------------------------------------
\* Every packet in the router's queue has its event

WakeSet == {b \in Buffers : \E p \in Prios : Indices(qfifo[p], b) # {}}
Replied == IF server.at = "replied" THEN 1 ELSE 0

WakeSetIsFifo == WakeSet = InFifo
LEMMA WakeSetIs == TypeInv => WakeSetIsFifo
BY FifoCount DEF WakeSet, WakeSetIsFifo

LEMMA FifoWakesIs ==
  ASSUME NodeInv, TypeInv'
  PROVE  /\ Cardinality(InFifo) = qfifoEvents + Cardinality(Writing) + Replied
         /\ FifoWakes' <=> Cardinality(InFifo') = qfifoEvents' + Cardinality(Writing') + Replied'
         /\ Cardinality(InFifo) \in Nat /\ Cardinality(Writing) \in Nat /\ Replied \in 0..1
         /\ qfifoEvents \in Nat /\ IsFiniteSet(InFifo) /\ IsFiniteSet(Writing)
<1>1. WakeSet' = InFifo'
  <2>1. TypeInv' => WakeSetIsFifo'
    BY WakeSetIs, PTL
  <2> QED
    BY <2>1 DEF WakeSetIsFifo
<1>2. FifoWakes' <=> Cardinality(InFifo') = qfifoEvents' + Cardinality(Writing') + Replied'
  <2>1. FifoWakes <=> Cardinality(WakeSet) = qfifoEvents + Cardinality(Writing) + Replied
    BY DEF FifoWakes, WakeSet, Replied
  <2>2. FifoWakes' <=> Cardinality(WakeSet') = qfifoEvents' + Cardinality(Writing') + Replied'
    BY DEF FifoWakes, WakeSet, Replied
  <2> QED
    BY <1>1, <2>2
<1>3. Cardinality(InFifo) = qfifoEvents + Cardinality(Writing) + Replied
  BY Unpack, FifoCount DEF FifoWakes, Replied
<1> QED
  BY <1>2, <1>3, Unpack, FifoCount DEF TypeInv, PoolType, Replied

LEMMA FifoStays ==
  ASSUME NodeInv, TypeInv', UNCHANGED <<InFifo, qfifoEvents>>,
         \A d \in Clients : client'[d].at = "sent" <=> client[d].at = "sent",
         server'.at = "replied" <=> server.at = "replied"
  PROVE  FifoWakes'
<1>1. Writing' = Writing /\ Replied' = Replied
  BY DEF Writing, Replied
<1> QED
  BY <1>1, FifoWakesIs

LEMMA FifoWakesStep ==
  ASSUME NodeInv, NodeNext
  PROVE  FifoWakes'
<1>1. ASSUME NEW c \in Clients, Connect(c) PROVE FifoWakes'
  BY <1>1, ConnectIs, FifoStays DEF ClientIs
<1>2. ASSUME NEW c \in Clients, ClientFlushPackets(c) PROVE FifoWakes'
  BY <1>2, ClientFlushPacketsIs, FifoStays DEF ClientIs
<1>3. ASSUME NEW c \in Clients, ClientFlushEvents(c) PROVE FifoWakes'
  BY <1>3, ClientFlushEventsIs, FifoStays DEF ClientIs
<1>4. ASSUME NEW c \in Clients, ClientSend(c) PROVE FifoWakes'
  <2>1. TypeInv' /\ client[c].at = "connected" /\ UNCHANGED <<qfifoEvents, server>>
    BY <1>4, ClientSendIs
  <2>2. CASE client'[c].at = "close" /\ UNCHANGED InFifo /\ \A d \in Clients : d # c => client'[d] = client[d]
    BY <2>1, <2>2, FifoStays
  <2>3. ASSUME NEW b \in free, InFifo' = InFifo \cup {b}, client'[c].at = "sent",
               \A d \in Clients : d # c => client'[d] = client[d]
        PROVE  FifoWakes'
    <3>1. Writing' = Writing \cup {c} /\ c \notin Writing /\ Replied' = Replied
      BY <2>1, <2>3 DEF Writing, Replied
    <3>2. b \notin InFifo
      BY Unpack, OnePlace DEF TypeInv, PoolType
    <3>3. Cardinality(Writing') = Cardinality(Writing) + 1 /\ Cardinality(InFifo') = Cardinality(InFifo) + 1
      BY <2>1, <2>3, <3>1, <3>2, FifoWakesIs, FS_AddElement
    <3> QED
      BY <2>1, <3>1, <3>3, FifoWakesIs
  <2> QED
    BY <1>4, <2>2, <2>3, ClientSendIs DEF ClientIs
<1>5. ASSUME NEW c \in Clients, ClientSendEvent(c) PROVE FifoWakes'
  <2>1. /\ TypeInv' /\ client[c].at = "sent" /\ UNCHANGED <<InFifo, server>>
        /\ qfifoEvents' = qfifoEvents + 1 /\ client'[c].at = "read"
        /\ \A d \in Clients : d # c => client'[d] = client[d]
    BY <1>5, ClientSendEventIs DEF ClientIs
  <2>2. Writing' = Writing \ {c} /\ c \in Writing /\ Replied' = Replied
    BY <2>1 DEF Writing, Replied
  <2>3. Cardinality(Writing') = Cardinality(Writing) - 1
    BY <2>1, <2>2, FifoWakesIs, FS_RemoveElement
  <2> QED
    BY <2>1, <2>2, <2>3, FifoWakesIs
<1>6. ASSUME NEW c \in Clients, ClientRead(c) PROVE FifoWakes'
  BY <1>6, ClientReadIs, FifoStays DEF ClientIs
<1>7. ASSUME NEW c \in Clients, ClientTimeout(c) PROVE FifoWakes'
  BY <1>7, ClientTimeoutIs, FifoStays DEF ClientIs
<1>8. ASSUME NEW c \in Clients, ClientReadPacket(c) PROVE FifoWakes'
  BY <1>8, ClientReadPacketIs, FifoStays DEF ClientIs
<1>9. ASSUME NEW c \in Clients, ClientClose(c) PROVE FifoWakes'
  BY <1>9, ClientCloseIs, FifoStays DEF ClientIs
<1>10. ASSUME NEW c \in Clients, ClientCloseEnds(c) PROVE FifoWakes'
  BY <1>10, ClientCloseEndsIs, FifoStays DEF ClientIs
<1>11. ASSUME RouterRead PROVE FifoWakes'
  <2>1. /\ TypeInv' /\ UNCHANGED <<client, server>> /\ qfifoEvents' = qfifoEvents - 1
    BY <1>11, RouterReadIs
  <2>2. PICK b \in InFifo : InFifo' = InFifo \ {b}
    BY <1>11, RouterReadIs
  <2>3. Writing' = Writing /\ Replied' = Replied
    BY <2>1 DEF Writing, Replied
  <2>4. Cardinality(InFifo') = Cardinality(InFifo) - 1
    BY <2>1, <2>2, FifoWakesIs, FS_RemoveElement
  <2> QED
    BY <2>1, <2>3, <2>4, FifoWakesIs
<1>12. ASSUME RouterFind PROVE FifoWakes'
  BY <1>12, RouterFindIs, FifoStays DEF ServerIs
<1>13. ASSUME RouterFlushPackets PROVE FifoWakes'
  BY <1>13, RouterFlushPacketsIs, FifoStays DEF ServerIs
<1>14. ASSUME RouterFlushEvents PROVE FifoWakes'
  BY <1>14, RouterFlushEventsIs, FifoStays DEF ServerIs
<1>15. ASSUME RouterPut PROVE FifoWakes'
  BY <1>15, RouterPutIs, FifoStays DEF ServerIs
<1>16. ASSUME RouterEvent PROVE FifoWakes'
  BY <1>16, RouterEventIs, FifoStays DEF ServerIs
<1>17. ASSUME RouterPost PROVE FifoWakes'
  BY <1>17, RouterPostIs, FifoStays DEF ServerIs
<1>18. ASSUME Accept PROVE FifoWakes'
  BY <1>18, AcceptIs, FifoStays DEF ServerIs
<1>19. ASSUME ServerRead PROVE FifoWakes'
  BY <1>19, ServerReadIs, FifoStays DEF ServerIs
<1>20. ASSUME ServerTimeout PROVE FifoWakes'
  BY <1>20, ServerTimeoutIs, FifoStays DEF ServerIs
<1>21. ASSUME ServerReadPacket PROVE FifoWakes'
  BY <1>21, ServerReadPacketIs, FifoStays DEF ServerIs
<1>22. ASSUME Serve PROVE FifoWakes'
  <2>1. PICK b : b = server.buf
    OBVIOUS
  <2>2. TypeInv' /\ server.at = "serve" /\ b \notin InFifo /\ UNCHANGED <<qfifoEvents, client>>
    BY <1>22, <2>1, ServeIs
  <2>3. CASE server'.at = "replied" /\ InFifo' = InFifo \cup {b}
    <3>1. Writing' = Writing /\ Replied' = 1 /\ Replied = 0
      BY <2>2, <2>3 DEF Writing, Replied
    <3>2. Cardinality(InFifo') = Cardinality(InFifo) + 1
      BY <2>2, <2>3, FifoWakesIs, FS_AddElement
    <3> QED
      BY <2>2, <3>1, <3>2, FifoWakesIs
  <2>4. CASE server'.at = "read" /\ UNCHANGED InFifo
    BY <2>2, <2>4, FifoStays
  <2> QED
    BY <1>22, <2>1, <2>3, <2>4, ServeIs DEF ServerIs
<1>23. ASSUME ServerSendEvent PROVE FifoWakes'
  <2>1. /\ TypeInv' /\ server.at = "replied" /\ server'.at = "read" /\ UNCHANGED <<InFifo, client>>
        /\ qfifoEvents' = qfifoEvents + 1
    BY <1>23, ServerSendEventIs DEF ServerIs
  <2>2. Writing' = Writing /\ Replied = 1 /\ Replied' = 0
    BY <2>1 DEF Writing, Replied
  <2> QED
    BY <2>1, <2>2, FifoWakesIs
<1>24. ASSUME ServerClose PROVE FifoWakes'
  BY <1>24, ServerCloseIs, FifoStays DEF ServerIs
<1>25. ASSUME ServerCloseEnds PROVE FifoWakes'
  BY <1>25, ServerCloseEndsIs, FifoStays DEF ServerIs
<1> QED
  BY <1>1, <1>2, <1>3, <1>4, <1>5, <1>6, <1>7, <1>8, <1>9, <1>10, <1>11, <1>12, <1>13, <1>14, <1>15, <1>16, <1>17, <1>18, <1>19, <1>20, <1>21, <1>22, <1>23, <1>24, <1>25
     DEF NodeNext, ClientNext, RouterNext, ServerNext

----------------------------------------------------------------------------
\* What a step may do to a packet, to a client, to a slot, and to where the
\* router and the server are

Sent(c, b) ==
  /\ client[c].at = "connected" /\ client'[c].at = "sent" /\ client'[c].call = client[c].call
  /\ client'[c].slot = client[c].slot /\ client'[c].buf = None
  /\ b \in free /\ b \in Buffers /\ free' = free \ {b}
  /\ content'[b].id = <<conn[client[c].slot].id[2], ServerPort>> /\ content'[b].pri = Pri[c]
  /\ content'[b].call = <<c, client[c].call>> /\ ~content'[b].reply
  /\ \A d \in Clients : d # c => client'[d] = client[d]
  /\ UNCHANGED <<conn, server, router, accepting>>
Answered(b) ==
  /\ server.at = "serve" /\ server.buf = b /\ server'.buf = None
  /\ content'[b].id = <<ServerPort, conn[server.slot].id[1]>> /\ content'[b].reply
  /\ content'[b].pri = content[b].pri /\ content'[b].call = content[b].call
  /\ UNCHANGED <<conn, client, router, accepting>>
PacketMoves(b) ==
  \/ b \in Used /\ content'[b] = content[b]
  \/ \E c \in Clients : Sent(c, b)
  \/ b \in Used /\ Answered(b)

ClientMoves(d) ==
  \/ client'[d] = client[d]
  \/ /\ client[d].at = "idle" /\ client'[d].at \in {"idle", "new"}
     /\ client'[d].call = client[d].call + 1 /\ client'[d].buf = None
  \/ /\ client[d].at # "idle" /\ client'[d].call = client[d].call
     /\ client[d].at = "closing" <=> client'[d].at = "idle"
     /\ client[d].at = "close" <=> client'[d].at = "closing"
     /\ client[d].at = "new" <=> client'[d].at = "flushed"
     /\ client[d].at = "flushed" <=> client'[d].at = "connected"
     /\ client'[d].at # "new"
     /\ client'[d].at # "idle" => client'[d].slot = client[d].slot
     /\ client'[d].buf # None => client[d].at = "event" /\ client'[d].buf \in Queued(client[d].slot)
     /\ client'[d].at = "closing" => client[d].buf \in free' \cup {None}
     /\ client'[d].at = "close" =>
          \/ client[d].at = "connected" \/ timedOut'
          \/ client[d].at = "event" /\ (client'[d].buf = None => Queued(client[d].slot) = {})

LEMMA PacketStep ==
  ASSUME NodeInv, NodeNext, NEW b \in Used'
  PROVE  PacketMoves(b)
<1>0. b \in Buffers /\ b \notin free'
  BY DEF Used
<1>1. ASSUME NEW c \in Clients, Connect(c) PROVE PacketMoves(b)
  BY <1>0, <1>1, ConnectIs DEF PacketMoves, Used
<1>2. ASSUME NEW c \in Clients, ClientFlushPackets(c) PROVE PacketMoves(b)
  BY <1>0, <1>2, ClientFlushPacketsIs DEF PacketMoves, Used
<1>3. ASSUME NEW c \in Clients, ClientFlushEvents(c) PROVE PacketMoves(b)
  BY <1>0, <1>3, ClientFlushEventsIs DEF PacketMoves, Used
<1>4. ASSUME NEW c \in Clients, ClientSend(c) PROVE PacketMoves(b)
  <2>1. PICK s : s = client[c].slot
    OBVIOUS
  <2>2. CASE UNCHANGED <<free, content>>
    BY <1>0, <2>2 DEF PacketMoves, Used
  <2>3. ASSUME NEW x \in free, x \in Buffers, ClientIs(c, "sent", client[c].call, s, None),
               PacketIs(x, <<conn[s].id[2], ServerPort>>, Pri[c], <<c, client[c].call>>, FALSE),
               free' = free \ {x}
        PROVE  PacketMoves(b)
    <3>1. CASE b = x
      <4>1. Sent(c, b)
        BY <1>4, <2>1, <2>3, <3>1, ClientSendIs DEF Sent, ClientIs, PacketIs
      <4> QED
        BY <4>1 DEF PacketMoves
    <3>2. CASE b # x
      BY <1>0, <2>3, <3>2 DEF PacketMoves, Used, PacketIs
    <3> QED
      BY <3>1, <3>2
  <2> QED
    BY <1>4, <2>1, <2>2, <2>3, ClientSendIs
<1>5. ASSUME NEW c \in Clients, ClientSendEvent(c) PROVE PacketMoves(b)
  BY <1>0, <1>5, ClientSendEventIs DEF PacketMoves, Used
<1>6. ASSUME NEW c \in Clients, ClientRead(c) PROVE PacketMoves(b)
  BY <1>0, <1>6, ClientReadIs DEF PacketMoves, Used
<1>7. ASSUME NEW c \in Clients, ClientTimeout(c) PROVE PacketMoves(b)
  BY <1>0, <1>7, ClientTimeoutIs DEF PacketMoves, Used
<1>8. ASSUME NEW c \in Clients, ClientReadPacket(c) PROVE PacketMoves(b)
  BY <1>0, <1>8, ClientReadPacketIs DEF PacketMoves, Used
<1>9. ASSUME NEW c \in Clients, ClientClose(c) PROVE PacketMoves(b)
  BY <1>0, <1>9, ClientCloseIs DEF PacketMoves, Used
<1>10. ASSUME NEW c \in Clients, ClientCloseEnds(c) PROVE PacketMoves(b)
  BY <1>0, <1>10, ClientCloseEndsIs DEF PacketMoves, Used
<1>11. ASSUME RouterRead PROVE PacketMoves(b)
  BY <1>0, <1>11, RouterReadIs DEF PacketMoves, Used
<1>12. ASSUME RouterFind PROVE PacketMoves(b)
  BY <1>0, <1>12, RouterFindIs DEF PacketMoves, Used
<1>13. ASSUME RouterFlushPackets PROVE PacketMoves(b)
  BY <1>0, <1>13, RouterFlushPacketsIs DEF PacketMoves, Used
<1>14. ASSUME RouterFlushEvents PROVE PacketMoves(b)
  BY <1>0, <1>14, RouterFlushEventsIs DEF PacketMoves, Used
<1>15. ASSUME RouterPut PROVE PacketMoves(b)
  BY <1>0, <1>15, RouterPutIs DEF PacketMoves, Used
<1>16. ASSUME RouterEvent PROVE PacketMoves(b)
  BY <1>0, <1>16, RouterEventIs DEF PacketMoves, Used
<1>17. ASSUME RouterPost PROVE PacketMoves(b)
  BY <1>0, <1>17, RouterPostIs DEF PacketMoves, Used
<1>18. ASSUME Accept PROVE PacketMoves(b)
  BY <1>0, <1>18, AcceptIs DEF PacketMoves, Used
<1>19. ASSUME ServerRead PROVE PacketMoves(b)
  BY <1>0, <1>19, ServerReadIs DEF PacketMoves, Used
<1>20. ASSUME ServerTimeout PROVE PacketMoves(b)
  BY <1>0, <1>20, ServerTimeoutIs DEF PacketMoves, Used
<1>21. ASSUME ServerReadPacket PROVE PacketMoves(b)
  BY <1>0, <1>21, ServerReadPacketIs DEF PacketMoves, Used
<1>22. ASSUME Serve PROVE PacketMoves(b)
  <2>1. PICK s, x : s = server.slot /\ x = server.buf
    OBVIOUS
  <2>2. CASE UNCHANGED content
    BY <1>0, <1>22, <2>2, ServeIs DEF PacketMoves, Used
  <2>3. CASE /\ PacketIs(x, <<ServerPort, conn[s].id[1]>>, content[x].pri, content[x].call, TRUE)
             /\ ServerIs("replied", s, None) /\ free' = free
    <3>1. CASE b = x
      <4>1. Answered(b)
        BY <1>22, <2>1, <2>3, <3>1, ServeIs DEF Answered, ServerIs, PacketIs
      <4> QED
        BY <1>0, <2>3, <4>1 DEF PacketMoves, Used
    <3>2. CASE b # x
      BY <1>0, <2>3, <3>2 DEF PacketMoves, Used, PacketIs
    <3> QED
      BY <3>1, <3>2
  <2> QED
    BY <1>22, <2>1, <2>2, <2>3, ServeIs
<1>23. ASSUME ServerSendEvent PROVE PacketMoves(b)
  BY <1>0, <1>23, ServerSendEventIs DEF PacketMoves, Used
<1>24. ASSUME ServerClose PROVE PacketMoves(b)
  BY <1>0, <1>24, ServerCloseIs DEF PacketMoves, Used
<1>25. ASSUME ServerCloseEnds PROVE PacketMoves(b)
  BY <1>0, <1>25, ServerCloseEndsIs DEF PacketMoves, Used
<1> QED
  BY <1>1, <1>2, <1>3, <1>4, <1>5, <1>6, <1>7, <1>8, <1>9, <1>10, <1>11, <1>12, <1>13, <1>14, <1>15, <1>16, <1>17, <1>18, <1>19, <1>20, <1>21, <1>22, <1>23, <1>24, <1>25
     DEF NodeNext, ClientNext, RouterNext, ServerNext

LEMMA ClientMove ==
  ASSUME NodeInv, NodeNext, NEW d \in Clients
  PROVE  ClientMoves(d)
<1>1. ASSUME NEW c \in Clients, Connect(c) PROVE ClientMoves(d)
  BY <1>1, ConnectIs DEF ClientMoves, ClientIs
<1>2. ASSUME NEW c \in Clients, ClientFlushPackets(c) PROVE ClientMoves(d)
  BY <1>2, ClientFlushPacketsIs DEF ClientMoves, ClientIs
<1>3. ASSUME NEW c \in Clients, ClientFlushEvents(c) PROVE ClientMoves(d)
  BY <1>3, ClientFlushEventsIs DEF ClientMoves, ClientIs
<1>4. ASSUME NEW c \in Clients, ClientSend(c) PROVE ClientMoves(d)
  BY <1>4, ClientSendIs DEF ClientMoves, ClientIs
<1>5. ASSUME NEW c \in Clients, ClientSendEvent(c) PROVE ClientMoves(d)
  BY <1>5, ClientSendEventIs DEF ClientMoves, ClientIs
<1>6. ASSUME NEW c \in Clients, ClientRead(c) PROVE ClientMoves(d)
  BY <1>6, ClientReadIs DEF ClientMoves, ClientIs
<1>7. ASSUME NEW c \in Clients, ClientTimeout(c) PROVE ClientMoves(d)
  BY <1>7, ClientTimeoutIs DEF ClientMoves, ClientIs
<1>8. ASSUME NEW c \in Clients, ClientReadPacket(c) PROVE ClientMoves(d)
  <2>1. PICK s : s = client[c].slot
    OBVIOUS
  <2>2. client[c].at = "event" /\ None \notin Buffers
    BY <1>8, ClientReadPacketIs, BuffersFinite
  <2>3. \A e \in Clients : e # c => client'[e] = client[e]
    BY <1>8, ClientReadPacketIs DEF ClientIs
  <2>4. /\ client'[c].at = "close" /\ client'[c].call = client[c].call /\ client'[c].slot = s
        /\ \/ client'[c].buf \in Queued(s) /\ client'[c].buf \in Buffers
           \/ client'[c].buf = None /\ Queued(s) = {}
    BY <1>8, <2>1, ClientReadPacketIs DEF ClientIs
  <2> QED
    BY <2>1, <2>2, <2>3, <2>4 DEF ClientMoves
<1>9. ASSUME NEW c \in Clients, ClientClose(c) PROVE ClientMoves(d)
  BY <1>9, ClientCloseIs DEF ClientMoves, ClientIs
<1>10. ASSUME NEW c \in Clients, ClientCloseEnds(c) PROVE ClientMoves(d)
  BY <1>10, ClientCloseEndsIs DEF ClientMoves, ClientIs
<1>11. ASSUME RouterRead PROVE ClientMoves(d)
  BY <1>11, RouterReadIs DEF ClientMoves
<1>12. ASSUME RouterFind PROVE ClientMoves(d)
  BY <1>12, RouterFindIs DEF ClientMoves
<1>13. ASSUME RouterFlushPackets PROVE ClientMoves(d)
  BY <1>13, RouterFlushPacketsIs DEF ClientMoves
<1>14. ASSUME RouterFlushEvents PROVE ClientMoves(d)
  BY <1>14, RouterFlushEventsIs DEF ClientMoves
<1>15. ASSUME RouterPut PROVE ClientMoves(d)
  BY <1>15, RouterPutIs DEF ClientMoves
<1>16. ASSUME RouterEvent PROVE ClientMoves(d)
  BY <1>16, RouterEventIs DEF ClientMoves
<1>17. ASSUME RouterPost PROVE ClientMoves(d)
  BY <1>17, RouterPostIs DEF ClientMoves
<1>18. ASSUME Accept PROVE ClientMoves(d)
  BY <1>18, AcceptIs DEF ClientMoves
<1>19. ASSUME ServerRead PROVE ClientMoves(d)
  BY <1>19, ServerReadIs DEF ClientMoves
<1>20. ASSUME ServerTimeout PROVE ClientMoves(d)
  BY <1>20, ServerTimeoutIs DEF ClientMoves
<1>21. ASSUME ServerReadPacket PROVE ClientMoves(d)
  BY <1>21, ServerReadPacketIs DEF ClientMoves
<1>22. ASSUME Serve PROVE ClientMoves(d)
  BY <1>22, ServeIs DEF ClientMoves
<1>23. ASSUME ServerSendEvent PROVE ClientMoves(d)
  BY <1>23, ServerSendEventIs DEF ClientMoves
<1>24. ASSUME ServerClose PROVE ClientMoves(d)
  BY <1>24, ServerCloseIs DEF ClientMoves
<1>25. ASSUME ServerCloseEnds PROVE ClientMoves(d)
  BY <1>25, ServerCloseEndsIs DEF ClientMoves
<1> QED
  BY <1>1, <1>2, <1>3, <1>4, <1>5, <1>6, <1>7, <1>8, <1>9, <1>10, <1>11, <1>12, <1>13, <1>14, <1>15, <1>16, <1>17, <1>18, <1>19, <1>20, <1>21, <1>22, <1>23, <1>24, <1>25
     DEF NodeNext, ClientNext, RouterNext, ServerNext


Connected(s) ==
  /\ ~conn[s].open /\ \A u \in SlotIds : u # s => conn'[u] = conn[u]
  /\ \E p \in Ports :
       /\ conn'[s].id = <<ServerPort, p>>
       /\ \A u \in SlotIds : conn[u].open /\ conn[u].client => conn[u].id[2] # p
Requested(s) ==
  /\ ~conn[s].open /\ router.at = "find" /\ router'.at = "new" /\ router'.slot = s
  /\ conn'[s].id = content[router.buf].id /\ content[router.buf].id[2] = ServerPort
ClientSlot(c, s) == ClientHas(c, s) \/ Connected(s)
SlotMoves(s) ==
  /\ conn[s].open => conn'[s].id = conn[s].id
  /\ \A c \in Clients : ClientHas(c, s)' => ClientSlot(c, s)
  /\ ServerSide(s)' => ServerSide(s) \/ Requested(s)
  /\ ServerSide(s) => ServerSide(s)' \/ Queued(s)' = {}
  /\ \A b \in Queued(s)' : \/ b \in Queued(s)
                           \/ router.at = "put" /\ router.slot = s /\ router.buf = b

LEMMA SlotMove ==
  ASSUME NodeInv, NodeNext, NEW s \in SlotIds
  PROVE  SlotMoves(s)
<1>0. /\ \A c \in Clients : client[c].at # "idle" => client[c].slot \in SlotIds
      /\ server.at # "accept" => server.slot \in SlotIds
      /\ router.at \in {"new", "flushed", "put", "event", "post"} => router.slot \in SlotIds
      /\ s # None
  BY ClientFacts, ServerFacts, RouterFacts, SlotIdsType
<1>1. ASSUME NEW c \in Clients, Connect(c) PROVE SlotMoves(s)
  <2>1. UNCHANGED <<server, router, accepting>>
    BY <1>1, ConnectIs
  <2>2. CASE /\ ClientIs(c, "idle", client[c].call + 1, None, None)
             /\ conn' = conn /\ \A u \in SlotIds : Queued(u)' = Queued(u)
    <3>1. client'[c].slot = None /\ \A d \in Clients : d # c => client'[d] = client[d]
      BY <2>2 DEF ClientIs
    <3>2. \A d \in Clients : ClientHas(d, s)' => ClientHas(d, s)
      BY <3>1, SlotIdsType DEF ClientHas
    <3> QED
      BY <2>1, <2>2, <3>2 DEF SlotMoves, ClientSlot, ServerSide, ServerHas, RouterOwns
  <2>3. ASSUME NEW u \in SlotIds, NEW p \in Ports, ~conn[u].open,
               \A v \in SlotIds : conn[v].open /\ conn[v].client => conn[v].id[2] # p,
               ClientIs(c, "new", client[c].call + 1, u, None),
               Becomes(u, TRUE, <<ServerPort, p>>, FALSE, conn[u].events, Queued(u))
        PROVE  SlotMoves(s)
    <3>1. /\ client'[c].slot = u /\ \A d \in Clients : d # c => client'[d] = client[d]
          /\ \A v \in SlotIds : v # u => conn'[v] = conn[v]
          /\ \A v \in SlotIds : Queued(v)' = Queued(v)
          /\ conn'[u].id = <<ServerPort, p>> /\ ~conn'[u].post
      BY <2>3 DEF ClientIs, Becomes
    <3>2. Connected(u)
      BY <2>3, <3>1 DEF Connected
    <3>3. \A d \in Clients : ClientHas(d, s)' => ClientSlot(d, s)
      BY <3>1, <3>2 DEF ClientHas, ClientSlot
    <3>4. ServerSide(s)' <=> ServerSide(s)
      <4>1. CASE s # u
        BY <2>1, <3>1, <4>1 DEF ServerSide, ServerHas, RouterOwns
      <4>2. CASE s = u
        <5>1. ~ServerSide(s) /\ ~(router.slot = s /\ router.at \in {"new", "flushed"})
          BY <2>3, <4>2, Unpack, OneOwner DEF ServerSide, RouterOwns
        <5> QED
          BY <2>1, <3>1, <4>2, <5>1 DEF ServerSide, ServerHas, RouterOwns
      <4> QED
        BY <4>1, <4>2
    <3> QED
      BY <2>3, <3>1, <3>3, <3>4 DEF SlotMoves
  <2> QED
    BY <1>1, <2>2, <2>3, ConnectIs
<1>2. ASSUME NEW c \in Clients, ClientFlushPackets(c) PROVE SlotMoves(s)
  BY <1>0, <1>2, ClientFlushPacketsIs DEF SlotMoves, ClientSlot, ClientHas, ServerSide, ServerHas, RouterOwns, ClientIs, Becomes
<1>3. ASSUME NEW c \in Clients, ClientFlushEvents(c) PROVE SlotMoves(s)
  BY <1>0, <1>3, ClientFlushEventsIs DEF SlotMoves, ClientSlot, ClientHas, ServerSide, ServerHas, RouterOwns, ClientIs, Becomes
<1>4. ASSUME NEW c \in Clients, ClientSend(c) PROVE SlotMoves(s)
  BY <1>0, <1>4, ClientSendIs DEF SlotMoves, ClientSlot, ClientHas, ServerSide, ServerHas, RouterOwns, ClientIs, Becomes
<1>5. ASSUME NEW c \in Clients, ClientSendEvent(c) PROVE SlotMoves(s)
  BY <1>0, <1>5, ClientSendEventIs DEF SlotMoves, ClientSlot, ClientHas, ServerSide, ServerHas, RouterOwns, ClientIs, Becomes
<1>6. ASSUME NEW c \in Clients, ClientRead(c) PROVE SlotMoves(s)
  BY <1>0, <1>6, ClientReadIs DEF SlotMoves, ClientSlot, ClientHas, ServerSide, ServerHas, RouterOwns, ClientIs, Becomes
<1>7. ASSUME NEW c \in Clients, ClientTimeout(c) PROVE SlotMoves(s)
  BY <1>0, <1>7, ClientTimeoutIs DEF SlotMoves, ClientSlot, ClientHas, ServerSide, ServerHas, RouterOwns, ClientIs, Becomes
<1>8. ASSUME NEW c \in Clients, ClientReadPacket(c) PROVE SlotMoves(s)
  <2>1. PICK u : u = client[c].slot
    OBVIOUS
  <2>2. /\ client[c].at = "event" /\ client'[c].slot = u /\ client'[c].at = "close"
        /\ UNCHANGED <<server, router, accepting>> /\ \A d \in Clients : d # c => client'[d] = client[d]
    BY <1>8, <2>1, ClientReadPacketIs DEF ClientIs
  <2>3. /\ conn'[s].id = conn[s].id
        /\ conn'[s].post <=> conn[s].post
        /\ Queued(s)' \subseteq Queued(s)
    BY <1>0, <1>8, <2>1, <2>2, ClientReadPacketIs DEF Becomes
  <2>4. \A d \in Clients : ClientHas(d, s)' => ClientHas(d, s)
    BY <2>1, <2>2 DEF ClientHas
  <2> QED
    BY <2>2, <2>3, <2>4 DEF SlotMoves, ClientSlot, ServerSide, ServerHas, RouterOwns
<1>9. ASSUME NEW c \in Clients, ClientClose(c) PROVE SlotMoves(s)
  BY <1>0, <1>9, ClientCloseIs DEF SlotMoves, ClientSlot, ClientHas, ServerSide, ServerHas, RouterOwns, ClientIs, Becomes
<1>10. ASSUME NEW c \in Clients, ClientCloseEnds(c) PROVE SlotMoves(s)
  BY <1>0, <1>10, ClientCloseEndsIs DEF SlotMoves, ClientSlot, ClientHas, ServerSide, ServerHas, RouterOwns, ClientIs, Becomes
<1>11. ASSUME RouterRead PROVE SlotMoves(s)
  <2>1. /\ UNCHANGED <<conn, client, server, accepting>> /\ Queued(s)' = Queued(s)
        /\ router.at = "wait" /\ router'.at = "find" /\ router'.slot = None
    BY <1>11, RouterReadIs DEF RouterIs
  <2>2. router.slot = None
    BY <2>1, RouterFacts
  <2> QED
    BY <1>0, <2>1, <2>2 DEF SlotMoves, ClientSlot, ClientHas, ServerSide, ServerHas, RouterOwns
<1>12. ASSUME RouterFind PROVE SlotMoves(s)
  <2>1. PICK b : b = router.buf
    OBVIOUS
  <2>2. /\ router.at = "find" /\ router.slot = None /\ UNCHANGED <<client, server, accepting>>
    BY <1>12, RouterFindIs
  <2>3. /\ \A c \in Clients : ClientHas(c, s)' => ClientHas(c, s)
        /\ ServerHas(s)' <=> ServerHas(s)
        /\ ~RouterOwns(s)
    BY <2>2, SlotIdsType DEF ClientHas, ServerHas, RouterOwns
  <2>4. ASSUME NEW u \in SlotIds, conn[u].open, RouterIs("put", u, b),
               conn' = conn, \A v \in SlotIds : Queued(v)' = Queued(v)
        PROVE  SlotMoves(s)
    <3>1. ~RouterOwns(s)'
      <4>1. ~conn[u].post
        BY <2>2, <2>4, Unpack, SlotIdsType DEF Flags
      <4> QED
        BY <2>4, <4>1 DEF RouterIs, RouterOwns
    <3> QED
      BY <2>2, <2>3, <2>4, <3>1 DEF SlotMoves, ClientSlot, ServerSide
  <2>5. ASSUME NEW u \in SlotIds, ~conn[u].open, content[b].id[2] = ServerPort, RouterIs("new", u, b),
               Becomes(u, TRUE, content[b].id, FALSE, conn[u].events, Queued(u))
        PROVE  SlotMoves(s)
    <3>1. /\ \A v \in SlotIds : v # u => conn'[v] = conn[v]
          /\ \A v \in SlotIds : Queued(v)' = Queued(v)
          /\ conn'[u].id = content[b].id /\ router'.slot = u /\ router'.at = "new"
      BY <2>5 DEF RouterIs, Becomes
    <3>2. Requested(u)
      BY <2>1, <2>2, <2>5, <3>1 DEF Requested
    <3>3. RouterOwns(s)' => Requested(s)
      BY <3>1, <3>2 DEF RouterOwns
    <3> QED
      BY <2>2, <2>3, <2>5, <3>1, <3>3 DEF SlotMoves, ClientSlot, ServerSide
  <2>6. CASE /\ RouterIs("wait", None, None)
             /\ conn' = conn /\ \A u \in SlotIds : Queued(u)' = Queued(u)
    <3>1. ~RouterOwns(s)'
      BY <2>6, SlotIdsType DEF RouterIs, RouterOwns
    <3> QED
      BY <2>2, <2>3, <2>6, <3>1 DEF SlotMoves, ClientSlot, ServerSide
  <2> QED
    BY <1>12, <2>1, <2>4, <2>5, <2>6, RouterFindIs
<1>13. ASSUME RouterFlushPackets PROVE SlotMoves(s)
  BY <1>0, <1>13, RouterFlushPacketsIs DEF SlotMoves, ClientSlot, ClientHas, ServerSide, ServerHas, RouterOwns, RouterIs, Becomes
<1>14. ASSUME RouterFlushEvents PROVE SlotMoves(s)
  BY <1>0, <1>14, RouterFlushEventsIs DEF SlotMoves, ClientSlot, ClientHas, ServerSide, ServerHas, RouterOwns, RouterIs, Becomes
<1>15. ASSUME RouterPut PROVE SlotMoves(s)
  BY <1>0, <1>15, RouterPutIs DEF SlotMoves, ClientSlot, ClientHas, ServerSide, ServerHas, RouterOwns, RouterIs, Becomes
<1>16. ASSUME RouterEvent PROVE SlotMoves(s)
  BY <1>0, <1>16, RouterEventIs DEF SlotMoves, ClientSlot, ClientHas, ServerSide, ServerHas, RouterOwns, RouterIs, Becomes
<1>17. ASSUME RouterPost PROVE SlotMoves(s)
  <2>1. PICK u : u = router.slot
    OBVIOUS
  <2>2. /\ u \in SlotIds /\ router.at = "post" /\ UNCHANGED <<client, server>>
        /\ router'.at = "wait" /\ router'.slot = None
    BY <1>17, <2>1, RouterPostIs DEF RouterIs
  <2>3. /\ conn'[s].id = conn[s].id /\ Queued(s)' \subseteq Queued(s)
    BY <1>17, <2>1, <2>2, RouterPostIs DEF Becomes
  <2>4. /\ \A c \in Clients : ClientHas(c, s)' => ClientHas(c, s)
        /\ ServerHas(s)' <=> ServerHas(s)
        /\ ~RouterOwns(s)'
        /\ RouterOwns(s) <=> s = u /\ conn[s].post
    BY <1>0, <2>1, <2>2 DEF ClientHas, ServerHas, RouterOwns
  <2>5. \/ ~conn[u].post /\ accepting' = accepting
        \/ conn[u].post /\ Elems(accepting') = Elems(accepting) \cup {u}
        \/ conn[u].post /\ accepting' = accepting /\ Queued(u)' = {}
    BY <1>17, <2>1, <2>2, RouterPostIs DEF Becomes
  <2>6. ServerSide(s)' => ServerSide(s)
    BY <2>4, <2>5 DEF ServerSide
  <2>7. ServerSide(s) => ServerSide(s)' \/ Queued(s)' = {}
    BY <2>4, <2>5 DEF ServerSide
  <2> QED
    BY <2>3, <2>4, <2>6, <2>7 DEF SlotMoves, ClientSlot
<1>18. ASSUME Accept PROVE SlotMoves(s)
  <2>1. /\ UNCHANGED <<conn, client, router>> /\ Queued(s)' = Queued(s) /\ server.at = "accept"
    BY <1>18, AcceptIs
  <2>2. PICK u \in Elems(accepting) : /\ ServerIs("read", u, None)
                                     /\ Elems(accepting') = Elems(accepting) \ {u}
    BY <1>18, AcceptIs
  <2>3. server.slot = None /\ server'.slot = u /\ server'.at = "read"
    BY <2>1, <2>2, ServerFacts DEF ServerIs
  <2> QED
    BY <1>0, <2>1, <2>2, <2>3 DEF SlotMoves, ClientSlot, ClientHas, ServerSide, ServerHas, RouterOwns
<1>19. ASSUME ServerRead PROVE SlotMoves(s)
  BY <1>0, <1>19, ServerReadIs DEF SlotMoves, ClientSlot, ClientHas, ServerSide, ServerHas, RouterOwns, ServerIs, Becomes
<1>20. ASSUME ServerTimeout PROVE SlotMoves(s)
  BY <1>0, <1>20, ServerTimeoutIs DEF SlotMoves, ClientSlot, ClientHas, ServerSide, ServerHas, RouterOwns, ServerIs, Becomes
<1>21. ASSUME ServerReadPacket PROVE SlotMoves(s)
  BY <1>0, <1>21, ServerReadPacketIs DEF SlotMoves, ClientSlot, ClientHas, ServerSide, ServerHas, RouterOwns, ServerIs, Becomes
<1>22. ASSUME Serve PROVE SlotMoves(s)
  BY <1>0, <1>22, ServeIs DEF SlotMoves, ClientSlot, ClientHas, ServerSide, ServerHas, RouterOwns, ServerIs, Becomes
<1>23. ASSUME ServerSendEvent PROVE SlotMoves(s)
  BY <1>0, <1>23, ServerSendEventIs DEF SlotMoves, ClientSlot, ClientHas, ServerSide, ServerHas, RouterOwns, ServerIs, Becomes
<1>24. ASSUME ServerClose PROVE SlotMoves(s)
  BY <1>0, <1>24, ServerCloseIs DEF SlotMoves, ClientSlot, ClientHas, ServerSide, ServerHas, RouterOwns, ServerIs, Becomes
<1>25. ASSUME ServerCloseEnds PROVE SlotMoves(s)
  BY <1>0, <1>25, ServerCloseEndsIs DEF SlotMoves, ClientSlot, ClientHas, ServerSide, ServerHas, RouterOwns, ServerIs, Becomes
<1> QED
  BY <1>1, <1>2, <1>3, <1>4, <1>5, <1>6, <1>7, <1>8, <1>9, <1>10, <1>11, <1>12, <1>13, <1>14, <1>15, <1>16, <1>17, <1>18, <1>19, <1>20, <1>21, <1>22, <1>23, <1>24, <1>25
     DEF NodeNext, ClientNext, RouterNext, ServerNext


RouterMoves ==
  /\ router'.at \in {"new", "flushed"} =>
       /\ router'.buf = router.buf
       /\ \/ router.at \in {"new", "flushed"} /\ router'.slot = router.slot
          \/ Requested(router'.slot) /\ UNCHANGED content
  /\ router'.at = "put" =>
       /\ router'.buf = router.buf
       /\ \/ router.at \in {"flushed", "put"} /\ router'.slot = router.slot
          \/ /\ router.at = "find" /\ UNCHANGED <<conn, content>>
             /\ conn[router'.slot].open /\ router'.slot # Socket
             /\ conn[router'.slot].id = content[router.buf].id
  /\ \A s \in SlotIds : router.slot = s /\ router.at = "new" =>
       Queued(s)' = {} \/ (router'.slot = s /\ router'.at = "new")

LEMMA RouterMove ==
  ASSUME NodeInv, NodeNext
  PROVE  RouterMoves
<1>0. router.at \in {"new", "flushed", "put", "event", "post"} => router.slot \in SlotIds
  BY RouterFacts
<1>1. ASSUME NEW c \in Clients, Connect(c) PROVE RouterMoves
  BY <1>0, <1>1, ConnectIs DEF RouterMoves
<1>2. ASSUME NEW c \in Clients, ClientFlushPackets(c) PROVE RouterMoves
  BY <1>0, <1>2, ClientFlushPacketsIs DEF RouterMoves
<1>3. ASSUME NEW c \in Clients, ClientFlushEvents(c) PROVE RouterMoves
  BY <1>0, <1>3, ClientFlushEventsIs DEF RouterMoves
<1>4. ASSUME NEW c \in Clients, ClientSend(c) PROVE RouterMoves
  BY <1>0, <1>4, ClientSendIs DEF RouterMoves
<1>5. ASSUME NEW c \in Clients, ClientSendEvent(c) PROVE RouterMoves
  BY <1>0, <1>5, ClientSendEventIs DEF RouterMoves
<1>6. ASSUME NEW c \in Clients, ClientRead(c) PROVE RouterMoves
  BY <1>0, <1>6, ClientReadIs DEF RouterMoves
<1>7. ASSUME NEW c \in Clients, ClientTimeout(c) PROVE RouterMoves
  BY <1>0, <1>7, ClientTimeoutIs DEF RouterMoves
<1>8. ASSUME NEW c \in Clients, ClientReadPacket(c) PROVE RouterMoves
  BY <1>0, <1>8, ClientReadPacketIs DEF RouterMoves
<1>9. ASSUME NEW c \in Clients, ClientClose(c) PROVE RouterMoves
  BY <1>0, <1>9, ClientCloseIs DEF RouterMoves
<1>10. ASSUME NEW c \in Clients, ClientCloseEnds(c) PROVE RouterMoves
  BY <1>0, <1>10, ClientCloseEndsIs DEF RouterMoves
<1>11. ASSUME RouterRead PROVE RouterMoves
  BY <1>0, <1>11, RouterReadIs DEF RouterMoves, RouterIs, Becomes
<1>12. ASSUME RouterFind PROVE RouterMoves
  <2>1. PICK b : b = router.buf
    OBVIOUS
  <2>2. /\ router.at = "find" /\ UNCHANGED content
    BY <1>12, RouterFindIs
  <2>3. ASSUME NEW u \in SlotIds, conn[u].open, u # Socket, conn[u].id = content[b].id,
               RouterIs("put", u, b), conn' = conn
        PROVE  RouterMoves
    BY <2>1, <2>2, <2>3 DEF RouterMoves, RouterIs
  <2>4. ASSUME NEW u \in SlotIds, ~conn[u].open, content[b].id[2] = ServerPort, RouterIs("new", u, b),
               Becomes(u, TRUE, content[b].id, FALSE, conn[u].events, Queued(u))
        PROVE  RouterMoves
    <3>1. router'.at = "new" /\ router'.slot = u /\ router'.buf = b /\ conn'[u].id = content[b].id
      BY <2>4 DEF RouterIs, Becomes
    <3>2. Requested(u)
      BY <2>1, <2>2, <2>4, <3>1 DEF Requested
    <3> QED
      BY <2>1, <2>2, <3>1, <3>2 DEF RouterMoves
  <2>5. CASE RouterIs("wait", None, None)
    BY <2>2, <2>5 DEF RouterMoves, RouterIs
  <2> QED
    BY <1>12, <2>1, <2>3, <2>4, <2>5, RouterFindIs
<1>13. ASSUME RouterFlushPackets PROVE RouterMoves
  BY <1>0, <1>13, RouterFlushPacketsIs DEF RouterMoves, RouterIs, Becomes
<1>14. ASSUME RouterFlushEvents PROVE RouterMoves
  BY <1>0, <1>14, RouterFlushEventsIs DEF RouterMoves, RouterIs, Becomes
<1>15. ASSUME RouterPut PROVE RouterMoves
  BY <1>0, <1>15, RouterPutIs DEF RouterMoves, RouterIs, Becomes
<1>16. ASSUME RouterEvent PROVE RouterMoves
  BY <1>0, <1>16, RouterEventIs DEF RouterMoves, RouterIs, Becomes
<1>17. ASSUME RouterPost PROVE RouterMoves
  BY <1>0, <1>17, RouterPostIs DEF RouterMoves, RouterIs, Becomes
<1>18. ASSUME Accept PROVE RouterMoves
  BY <1>0, <1>18, AcceptIs DEF RouterMoves
<1>19. ASSUME ServerRead PROVE RouterMoves
  BY <1>0, <1>19, ServerReadIs DEF RouterMoves
<1>20. ASSUME ServerTimeout PROVE RouterMoves
  BY <1>0, <1>20, ServerTimeoutIs DEF RouterMoves
<1>21. ASSUME ServerReadPacket PROVE RouterMoves
  BY <1>0, <1>21, ServerReadPacketIs DEF RouterMoves
<1>22. ASSUME Serve PROVE RouterMoves
  BY <1>0, <1>22, ServeIs DEF RouterMoves
<1>23. ASSUME ServerSendEvent PROVE RouterMoves
  BY <1>0, <1>23, ServerSendEventIs DEF RouterMoves
<1>24. ASSUME ServerClose PROVE RouterMoves
  BY <1>0, <1>24, ServerCloseIs DEF RouterMoves
<1>25. ASSUME ServerCloseEnds PROVE RouterMoves
  BY <1>0, <1>25, ServerCloseEndsIs DEF RouterMoves
<1> QED
  BY <1>1, <1>2, <1>3, <1>4, <1>5, <1>6, <1>7, <1>8, <1>9, <1>10, <1>11, <1>12, <1>13, <1>14, <1>15, <1>16, <1>17, <1>18, <1>19, <1>20, <1>21, <1>22, <1>23, <1>24, <1>25
     DEF NodeNext, ClientNext, RouterNext, ServerNext

ServerMoves ==
  /\ server'.buf # None =>
       /\ server'.slot = server.slot
       /\ \/ server'.buf = server.buf
          \/ server.at = "event" /\ server'.buf \in Queued(server.slot)
  /\ server'.at = "close" =>
       \/ server.at = "close" \/ timedOut'
       \/ server.at = "event" /\ Queued(server.slot) = {}
  /\ server'.at = "closing" => server.at \in {"close", "closing"}

LEMMA ServerMove ==
  ASSUME NodeInv, NodeNext
  PROVE  ServerMoves
<1>1. ASSUME NEW c \in Clients, Connect(c) PROVE ServerMoves
  BY <1>1, ConnectIs DEF ServerMoves
<1>2. ASSUME NEW c \in Clients, ClientFlushPackets(c) PROVE ServerMoves
  BY <1>2, ClientFlushPacketsIs DEF ServerMoves
<1>3. ASSUME NEW c \in Clients, ClientFlushEvents(c) PROVE ServerMoves
  BY <1>3, ClientFlushEventsIs DEF ServerMoves
<1>4. ASSUME NEW c \in Clients, ClientSend(c) PROVE ServerMoves
  BY <1>4, ClientSendIs DEF ServerMoves
<1>5. ASSUME NEW c \in Clients, ClientSendEvent(c) PROVE ServerMoves
  BY <1>5, ClientSendEventIs DEF ServerMoves
<1>6. ASSUME NEW c \in Clients, ClientRead(c) PROVE ServerMoves
  BY <1>6, ClientReadIs DEF ServerMoves
<1>7. ASSUME NEW c \in Clients, ClientTimeout(c) PROVE ServerMoves
  BY <1>7, ClientTimeoutIs DEF ServerMoves
<1>8. ASSUME NEW c \in Clients, ClientReadPacket(c) PROVE ServerMoves
  BY <1>8, ClientReadPacketIs DEF ServerMoves
<1>9. ASSUME NEW c \in Clients, ClientClose(c) PROVE ServerMoves
  BY <1>9, ClientCloseIs DEF ServerMoves
<1>10. ASSUME NEW c \in Clients, ClientCloseEnds(c) PROVE ServerMoves
  BY <1>10, ClientCloseEndsIs DEF ServerMoves
<1>11. ASSUME RouterRead PROVE ServerMoves
  BY <1>11, RouterReadIs DEF ServerMoves
<1>12. ASSUME RouterFind PROVE ServerMoves
  BY <1>12, RouterFindIs DEF ServerMoves
<1>13. ASSUME RouterFlushPackets PROVE ServerMoves
  BY <1>13, RouterFlushPacketsIs DEF ServerMoves
<1>14. ASSUME RouterFlushEvents PROVE ServerMoves
  BY <1>14, RouterFlushEventsIs DEF ServerMoves
<1>15. ASSUME RouterPut PROVE ServerMoves
  BY <1>15, RouterPutIs DEF ServerMoves
<1>16. ASSUME RouterEvent PROVE ServerMoves
  BY <1>16, RouterEventIs DEF ServerMoves
<1>17. ASSUME RouterPost PROVE ServerMoves
  BY <1>17, RouterPostIs DEF ServerMoves
<1>18. ASSUME Accept PROVE ServerMoves
  BY <1>18, AcceptIs DEF ServerMoves, ServerIs
<1>19. ASSUME ServerRead PROVE ServerMoves
  BY <1>19, ServerReadIs DEF ServerMoves, ServerIs
<1>20. ASSUME ServerTimeout PROVE ServerMoves
  BY <1>20, ServerTimeoutIs DEF ServerMoves, ServerIs
<1>21. ASSUME ServerReadPacket PROVE ServerMoves
  BY <1>21, ServerReadPacketIs DEF ServerMoves, ServerIs
<1>22. ASSUME Serve PROVE ServerMoves
  BY <1>22, ServeIs DEF ServerMoves, ServerIs
<1>23. ASSUME ServerSendEvent PROVE ServerMoves
  BY <1>23, ServerSendEventIs DEF ServerMoves, ServerIs
<1>24. ASSUME ServerClose PROVE ServerMoves
  BY <1>24, ServerCloseIs DEF ServerMoves, ServerIs
<1>25. ASSUME ServerCloseEnds PROVE ServerMoves
  BY <1>25, ServerCloseEndsIs DEF ServerMoves, ServerIs
<1> QED
  BY <1>1, <1>2, <1>3, <1>4, <1>5, <1>6, <1>7, <1>8, <1>9, <1>10, <1>11, <1>12, <1>13, <1>14, <1>15, <1>16, <1>17, <1>18, <1>19, <1>20, <1>21, <1>22, <1>23, <1>24, <1>25
     DEF NodeNext, ClientNext, RouterNext, ServerNext

----------------------------------------------------------------------------
\* Packets that are somewhere are not free, and what a step does to them

InUse ==
  /\ \A b \in Buffers : router.buf = b /\ router.at # "event" => b \in Used
  /\ \A b \in Buffers : server.buf = b => b \in Used
  /\ \A c \in Clients : \A b \in Buffers : client[c].buf = b => b \in Used
  /\ \A s \in SlotIds : \A b \in Buffers : b \in Queued(s) => b \in Used

LEMMA HeldInUse == Held => InUse
BY OnePlace DEF InUse, Used

LEMMA InUseStays ==
  ASSUME NodeInv, NodeNext
  PROVE  InUse /\ InUse'
<1>1. Held' => InUse'
  BY HeldInUse, PTL
<1> QED
  BY <1>1, HeldStep, HeldInUse, Unpack

LEMMA ContentSame ==
  ASSUME NodeInv, NodeNext, NEW b \in Used', b \in Used
  PROVE  /\ content'[b].call = content[b].call /\ content'[b].pri = content[b].pri
         /\ server.buf # b => content'[b] = content[b]
<1>1. PacketMoves(b)
  BY PacketStep
<1>2. \A c \in Clients : ~Sent(c, b)
  BY DEF Sent, Used
<1> QED
  BY <1>1, <1>2 DEF PacketMoves, Answered

\* A call that is not over after the step was not over before it, and its
\* client kept its connection.
LEMMA LiveCall ==
  ASSUME NodeInv, NodeNext, NEW call \in Calling, NEW d \in Clients, d = call[1],
         call[2] <= client[d].call, ~Over(call)'
  PROVE  /\ ~Over(call) /\ call[2] = client[d].call /\ client'[d].call = client[d].call
         /\ client[d].at \notin {"idle", "closing"} /\ ClientHas(d, client[d].slot)
         /\ client'[d].at \notin {"idle", "closing"} /\ ClientHas(d, client[d].slot)'
         /\ client[d].slot \in SlotIds /\ client'[d].slot = client[d].slot
         /\ conn[client[d].slot].open /\ conn'[client[d].slot].id = conn[client[d].slot].id
<1>1. /\ ~(call[2] < client'[d].call) /\ client'[d].at \notin {"idle", "closing"}
  BY DEF Over
<1>2. ClientMoves(d) /\ client[d].call \in Nat /\ call[2] \in Nat
  BY ClientMove, ClientFacts DEF Calling
<1>3. /\ client[d].at \notin {"idle", "closing"} /\ client'[d].call = client[d].call
      /\ client'[d].slot = client[d].slot
  BY <1>1, <1>2 DEF ClientMoves
<1>4. call[2] = client[d].call
  BY <1>1, <1>2, <1>3
<1>5. /\ ClientHas(d, client[d].slot) /\ client[d].slot \in SlotIds /\ conn[client[d].slot].open
      /\ ClientHas(d, client[d].slot)'
  <2>1. PICK s : s = client[d].slot
    OBVIOUS
  <2>2. ClientHas(d, s) /\ s \in SlotIds /\ conn[s].open
    BY <1>3, <2>1, ClientFacts
  <2>3. client'[d].slot = s /\ client'[d].at # "closing"
    BY <1>1, <1>3, <2>1
  <2> QED
    BY <1>1, <1>3, <2>1, <2>2, <2>3 DEF ClientHas
<1>6. conn'[client[d].slot].id = conn[client[d].slot].id
  BY <1>5, SlotMove DEF SlotMoves
<1>7. ~Over(call)
  BY <1>2, <1>3, <1>4 DEF Over
<1> QED
  BY <1>1, <1>3, <1>4, <1>5, <1>6, <1>7


----------------------------------------------------------------------------
\* Identifiers and whose packets are whose

LEMMA PortKinds ==
  ASSUME NodeInv, NEW b \in Used
  PROVE  /\ ServerPort \notin Ports
         /\ content[b].reply <=> content[b].id[1] = ServerPort
         /\ content[b].reply => content[b].id[2] \in Ports /\ Port(content[b].id) = content[b].id[2]
         /\ content[b].reply <=> content[b].id[2] # ServerPort
         /\ ~content[b].reply => content[b].id[1] \in Ports /\ Port(content[b].id) = content[b].id[1]
         /\ content[b].reply \in BOOLEAN
<1>1. ServerPort \notin Ports
  BY BuffersFinite DEF Ports
<1>2. /\ PacketOK(content[b]) /\ content[b].reply \in BOOLEAN
  BY PacketFacts DEF Used
<1> QED
  BY <1>1, <1>2 DEF PacketOK, Port

LEMMA ConnIdsStep ==
  ASSUME NodeInv, NodeNext
  PROVE  ConnIds'
<1>1. ASSUME NEW s \in SlotIds, NEW c \in Clients, ClientHas(c, s)'
      PROVE  conn'[s].id[1] = ServerPort /\ conn'[s].id[2] \in Ports
  <2>1. SlotMoves(s)
    BY SlotMove
  <2>2. CASE ClientHas(c, s)
    <3>1. conn[s].open
      BY <2>2, Unpack, OneOwner
    <3> QED
      BY <2>1, <2>2, <3>1, Unpack DEF SlotMoves, ConnIds
  <2>3. CASE Connected(s)
    BY <2>3 DEF Connected
  <2> QED
    BY <1>1, <2>1, <2>2, <2>3 DEF SlotMoves, ClientSlot
<1>2. ASSUME NEW s \in SlotIds, ServerSide(s)'
      PROVE  conn'[s].id[2] = ServerPort /\ conn'[s].id[1] \in Ports
  <2>1. SlotMoves(s)
    BY SlotMove
  <2>2. CASE ServerSide(s)
    <3>1. conn[s].open
      BY <2>2, Unpack, OneOwner DEF ServerSide
    <3> QED
      BY <2>1, <2>2, <3>1, Unpack DEF SlotMoves, ConnIds
  <2>3. CASE Requested(s)
    <3>1. PICK b : b = router.buf
      OBVIOUS
    <3>2. b \in Used
      BY <2>3, <3>1, RouterFacts, InUseStays DEF InUse, Requested
    <3> QED
      BY <2>3, <3>1, <3>2, PortKinds DEF Requested
  <2> QED
    BY <1>2, <2>1, <2>2, <2>3 DEF SlotMoves
\* a slot that was given to a client in this step has a port of its own
<1>3. ASSUME NEW s \in SlotIds, NEW u \in SlotIds, NEW c \in Clients, NEW d \in Clients,
             ClientHas(c, s)', ClientHas(d, u)', conn'[s].id[2] = conn'[u].id[2], Connected(s)
      PROVE  s = u
  <2> SUFFICES ASSUME s # u PROVE FALSE
    OBVIOUS
  <2>1. conn'[u] = conn[u] /\ SlotMoves(u)
    BY <1>3, SlotMove DEF Connected
  <2>2. conn'[u].open
    BY <1>3, NextOwnerFacts DEF OwnerFacts
  <2>3. ClientHas(d, u)
    BY <1>3, <2>1, <2>2 DEF SlotMoves, ClientSlot, Connected
  <2>4. u # Socket
    BY <2>3, Unpack, OneOwner
  <2>5. conn[u].open /\ conn[u].client
    BY <2>1, <2>2, <2>4, Unpack DEF Flags
  <2>6. PICK p \in Ports : /\ conn'[s].id = <<ServerPort, p>>
                           /\ \A v \in SlotIds : conn[v].open /\ conn[v].client => conn[v].id[2] # p
    BY <1>3 DEF Connected
  <2> QED
    BY <1>3, <2>1, <2>5, <2>6
<1>4. ASSUME NEW c \in Clients, NEW d \in Clients, NEW s \in SlotIds, NEW u \in SlotIds,
             ClientHas(c, s)', ClientHas(d, u)', conn'[s].id[2] = conn'[u].id[2]
      PROVE  s = u
  <2>1. ClientSlot(c, s) /\ ClientSlot(d, u)
    BY <1>4, SlotMove DEF SlotMoves
  <2>2. CASE Connected(s)
    BY <1>3, <1>4, <2>2
  <2>3. CASE Connected(u)
    BY <1>3, <1>4, <2>3
  <2>4. CASE ClientHas(c, s) /\ ClientHas(d, u)
    <3>1. conn'[s].id = conn[s].id /\ conn'[u].id = conn[u].id
      BY <2>4, Unpack, OneOwner, SlotMove DEF SlotMoves
    <3> QED
      BY <1>4, <2>4, <3>1, Unpack DEF ConnIds
  <2> QED
    BY <2>1, <2>2, <2>3, <2>4 DEF ClientSlot
<1> QED
  BY <1>1, <1>2, <1>4 DEF ConnIds

LEMMA PacketOKStep ==
  ASSUME NodeInv, NodeNext, NEW b \in Used'
  PROVE  PacketOK(content[b])'
<1>1. CASE b \in Used
  <2>1. PICK d : d = content[b].call[1]
    OBVIOUS
  <2>2. /\ PacketOK(content[b]) /\ d \in Clients /\ content[b].call[2] \in Nat
    BY <1>1, <2>1, PacketFacts DEF Used
  <2>3. content'[b].call = content[b].call /\ content'[b].pri = content[b].pri
    BY <1>1, ContentSame
  <2>4. IF content'[b].reply THEN content'[b].id[1] = ServerPort /\ content'[b].id[2] \in Ports
                             ELSE content'[b].id[2] = ServerPort /\ content'[b].id[1] \in Ports
    <3>1. CASE content'[b] = content[b]
      BY <2>2, <3>1 DEF PacketOK
    <3>2. CASE Answered(b)
      <4>1. conn[server.slot].id[1] \in Ports
        <5>1. PICK s : s = server.slot
          OBVIOUS
        <5>2. s \in SlotIds /\ ServerHas(s)
          BY <3>2, <5>1, ServerFacts DEF Answered
        <5> QED
          BY <5>1, <5>2, Unpack DEF ConnIds, ServerSide
      <4> QED
        BY <3>2, <4>1 DEF Answered
    <3> QED
      BY <1>1, <3>1, <3>2, PacketStep DEF PacketMoves, Sent, Used
  <2>5. /\ content[b].call[2] <= client'[d].call
        /\ content[b].call[2] = client'[d].call => client'[d].at \notin {"new", "flushed", "connected"}
    <3>1. /\ content[b].call[2] <= client[d].call
          /\ content[b].call[2] = client[d].call => client[d].at \notin {"new", "flushed", "connected"}
      BY <2>1, <2>2 DEF PacketOK
    <3>2. ClientMoves(d) /\ client[d].call \in Nat
      BY <2>2, ClientMove, ClientFacts
    <3> QED
      BY <2>2, <3>1, <3>2 DEF ClientMoves
  <2>6. content'[b].pri \in Prios
    BY <2>2, <2>3 DEF PacketOK
  <2> QED
    BY <2>1, <2>2, <2>3, <2>4, <2>5, <2>6 DEF PacketOK
<1>2. CASE \E c \in Clients : Sent(c, b)
  <2>1. PICK c \in Clients : Sent(c, b)
    BY <1>2
  <2>2. conn[client[c].slot].id[2] \in Ports
    <3>1. PICK s : s = client[c].slot
      OBVIOUS
    <3>2. s \in SlotIds /\ ClientHas(c, s)
      BY <2>1, <3>1, ClientFacts DEF Sent
    <3> QED
      BY <3>1, <3>2, Unpack DEF ConnIds
  <2>3. client[c].call \in Nat /\ Pri[c] \in Prios
    BY ClientFacts DEF Prios
  <2>4. /\ content'[b].id[1] = conn[client[c].slot].id[2] /\ content'[b].id[2] = ServerPort
        /\ content'[b].call[1] = c /\ content'[b].call[2] = client[c].call
        /\ content'[b].pri = Pri[c] /\ ~content'[b].reply
    BY <2>1 DEF Sent
  <2>5. client'[c].call = client[c].call /\ client'[c].at = "sent"
    BY <2>1 DEF Sent
  <2> QED
    BY <2>2, <2>3, <2>4, <2>5 DEF PacketOK
<1> QED
  BY <1>1, <1>2, PacketStep DEF PacketMoves

LEMMA TypeStep ==
  ASSUME NodeInv, NodeNext
  PROVE  TypeInv' /\ Queues'
BY ConnectIs, ClientFlushPacketsIs, ClientFlushEventsIs, ClientSendIs, ClientSendEventIs,
   ClientReadIs, ClientTimeoutIs, ClientReadPacketIs, ClientCloseIs, ClientCloseEndsIs,
   RouterReadIs, RouterFindIs, RouterFlushPacketsIs, RouterFlushEventsIs, RouterPutIs,
   RouterEventIs, RouterPostIs, AcceptIs, ServerReadIs, ServerTimeoutIs,
   ServerReadPacketIs, ServeIs, ServerSendEventIs, ServerCloseIs, ServerCloseEndsIs
   DEF NodeNext, ClientNext, RouterNext, ServerNext

\* Packets of the router and in queues are as they were.
LEMMA HeldContent ==
  ASSUME NodeInv, NodeNext, NEW b \in Used', NEW s \in SlotIds,
         b \in Queued(s) \/ (router.buf = b /\ router.at # "event")
  PROVE  b \in Used /\ content'[b] = content[b]
<1>1. b \in Buffers
  BY DEF Used
<1>2. b \in Used /\ server.buf # b
  BY <1>1, InUseStays, Unpack, OnePlace DEF InUse
<1> QED
  BY <1>2, ContentSame

LEMMA PacketIdsStep ==
  ASSUME NodeInv, NodeNext
  PROVE  PacketIds'
<1>1. ASSUME NEW s \in SlotIds, ServerSide(s)', ~(router'.slot = s /\ router'.at = "new"),
             NEW b \in Queued(s)'
      PROVE  content'[b].id = conn'[s].id
  <2>0. b \in Buffers /\ b \in Used'
    <3>1. Queued(s)' \subseteq Buffers
      <4>1. TypeInv'
        BY TypeStep
      <4>2. conn'[s].rx \in [Prios -> Seq(Buffers)]
        BY <4>1 DEF TypeInv, ConnType, Conn
      <4> QED
        BY <4>2, QueuedAll, AllBuffers
    <3> QED
      BY <3>1, InUseStays DEF InUse
  <2>1. SlotMoves(s) /\ RouterMoves
    BY SlotMove, RouterMove
  <2>2. ServerSide(s)
    BY <1>1, <2>1 DEF SlotMoves, Requested
  <2>3. conn'[s].id = conn[s].id
    BY <2>1, <2>2, Unpack, OneOwner DEF SlotMoves, ServerSide
  <2>4. CASE b \in Queued(s)
    <3>1. content'[b] = content[b]
      BY <2>0, <2>4, HeldContent
    <3>2. ~(router.slot = s /\ router.at = "new")
      BY <1>1, <2>1 DEF RouterMoves
    <3> QED
      BY <2>2, <2>3, <2>4, <3>1, <3>2, Unpack DEF PacketIds
  <2>5. CASE router.at = "put" /\ router.slot = s /\ router.buf = b
    <3>1. content'[b] = content[b]
      BY <2>0, <2>5, HeldContent
    <3> QED
      BY <2>2, <2>3, <2>5, <3>1, Unpack DEF PacketIds
  <2> QED
    BY <2>1, <2>4, <2>5 DEF SlotMoves
<1>2. ASSUME router'.at \in {"new", "flushed", "put"}
      PROVE  router'.slot \in SlotIds /\ router'.buf \in Buffers /\ router'.buf \in Used'
  <2>1. TypeInv' /\ InUse'
    BY TypeStep, InUseStays
  <2>2. router'.slot \in MaybeSlot /\ router'.buf \in MaybeBuffer
    BY <2>1 DEF TypeInv, TaskType
  <2>3. router'.slot # None /\ router'.buf # None
    BY <1>2, <2>1 DEF TypeInv, Shape
  <2> QED
    BY <1>2, <2>1, <2>2, <2>3 DEF MaybeSlot, MaybeBuffer, InUse
<1>3. ASSUME router'.at \in {"new", "flushed"} PROVE content'[router'.buf].id = conn'[router'.slot].id
  <2>1. RouterMoves /\ router'.buf = router.buf
    BY <1>3, RouterMove DEF RouterMoves
  <2>2. CASE router.at \in {"new", "flushed"} /\ router'.slot = router.slot
    <3>1. PICK s, b : s = router.slot /\ b = router.buf
      OBVIOUS
    <3>2. s \in SlotIds /\ conn[s].open /\ content[b].id = conn[s].id
      BY <2>2, <3>1, RouterFacts, Unpack DEF PacketIds
    <3>3. content'[b] = content[b]
      BY <1>2, <1>3, <2>1, <2>2, <3>1, <3>2, HeldContent
    <3>4. conn'[s].id = conn[s].id
      BY <3>2, SlotMove DEF SlotMoves
    <3> QED
      BY <2>1, <2>2, <3>1, <3>2, <3>3, <3>4
  <2>3. CASE Requested(router'.slot) /\ UNCHANGED content
    BY <2>1, <2>3 DEF Requested
  <2> QED
    BY <1>3, <2>1, <2>2, <2>3 DEF RouterMoves
<1>4. ASSUME router'.at = "put", ServerSide(router.slot)'
      PROVE  content'[router'.buf].id = conn'[router'.slot].id
  <2>1. PICK s, b : s = router'.slot /\ b = router'.buf
    OBVIOUS
  <2>2. /\ s \in SlotIds /\ b \in Used' /\ ServerSide(s)'
    BY <1>2, <1>4, <2>1
  <2>3. RouterMoves /\ SlotMoves(s) /\ router.buf = b
    BY <1>4, <2>1, <2>2, RouterMove, SlotMove DEF RouterMoves
  <2>4. CASE router.at \in {"flushed", "put"} /\ router.slot = s
    <3>1. ServerSide(s)
      BY <2>2, <2>3, <2>4 DEF SlotMoves, Requested
    <3>2. content[b].id = conn[s].id
      BY <2>3, <2>4, <3>1, Unpack DEF PacketIds
    <3>3. conn'[s].id = conn[s].id
      BY <2>2, <2>3, <3>1, Unpack, OneOwner DEF SlotMoves, ServerSide
    <3>4. content'[b] = content[b]
      BY <2>2, <2>3, <2>4, HeldContent
    <3> QED
      BY <2>1, <3>2, <3>3, <3>4
  <2>5. CASE UNCHANGED <<conn, content>> /\ conn[s].id = content[b].id
    BY <2>1, <2>5
  <2> QED
    BY <1>4, <2>1, <2>3, <2>4, <2>5 DEF RouterMoves
<1>5. ASSUME server'.at = "serve" PROVE content'[server'.buf].id = conn'[server'.slot].id
  <2>1. PICK s, b : s = server.slot /\ b = server'.buf
    OBVIOUS
  <2>2. /\ b \in Buffers /\ b \in Used' /\ b # None
    <3>1. TypeInv' /\ InUse'
      BY TypeStep, InUseStays
    <3>2. server'.buf \in MaybeBuffer /\ server'.buf # None
      BY <1>5, <3>1 DEF TypeInv, TaskType, Shape
    <3> QED
      BY <2>1, <3>1, <3>2 DEF MaybeBuffer, InUse
  <2>3. server'.slot = s /\ (server.buf = b \/ (server.at = "event" /\ b \in Queued(s)))
    BY <2>1, <2>2, ServerMove DEF ServerMoves
  <2>4. s \in SlotIds /\ conn[s].open /\ ServerHas(s)
    <3>1. server.at \in {"serve", "event"}
      BY <2>2, <2>3, ServerFacts
    <3> QED
      BY <2>1, <3>1, ServerFacts
  <2>5. conn'[s].id = conn[s].id
    BY <2>4, SlotMove DEF SlotMoves
  <2>6. CASE server.buf = b
    <3>1. content[b].id = conn[s].id
      BY <2>1, <2>2, <2>6, ServerFacts, Unpack DEF PacketIds
    <3>2. b \in Used /\ ~Answered(b)
      BY <2>1, <2>2, <2>6, InUseStays DEF InUse, Answered
    <3>3. content'[b] = content[b]
      BY <2>2, <3>2, PacketStep DEF PacketMoves, Sent, Used
    <3> QED
      BY <2>1, <2>3, <2>5, <3>1, <3>3
  <2>7. CASE b \in Queued(s)
    <3>1. content'[b] = content[b]
      BY <2>2, <2>4, <2>7, HeldContent
    <3>2. ~(router.slot = s /\ router.at = "new")
      BY <2>4, Unpack, OneOwner DEF RouterOwns
    <3>3. content[b].id = conn[s].id
      BY <2>4, <2>7, <3>2, Unpack DEF PacketIds, ServerSide
    <3> QED
      BY <2>1, <2>3, <2>5, <3>1, <3>3
  <2> QED
    BY <2>3, <2>6, <2>7
<1> QED
  BY <1>1, <1>3, <1>4, <1>5, PacketOKStep DEF PacketIds

\* A reply that somebody has, and where the router takes it
LEMMA ReplyStays ==
  ASSUME NodeInv, NodeNext, NEW b \in Used', b \in Used, NEW d \in Clients, d = content[b].call[1],
         content'[b] = content[b], content[b].reply, Hers(b, d), ClientHas(d, client[d].slot),
         client[d].slot \in SlotIds, client'[d].slot = client[d].slot
  PROVE  /\ server'.buf # b
         /\ \A c \in Clients : client'[c].buf = b => c = d
         /\ \A s \in SlotIds : b \in Queued(s)' => s = client[d].slot
         /\ router'.at = "put" /\ router'.buf = b => router'.slot = client[d].slot
<1>1. PICK h : h = client[d].slot
  OBVIOUS
<1>2. /\ b \in Buffers /\ b # None /\ h \in SlotIds /\ ClientHas(d, h)
  BY <1>1, BuffersFinite DEF Used
<1>3. /\ server.buf # b
      /\ \A c \in Clients : client[c].buf = b => c = d
      /\ \A s \in SlotIds : b \in Queued(s) => s = h
      /\ router.at = "put" /\ router.buf = b => router.slot = h
      /\ Port(content[b].id) = conn[h].id[2]
  BY <1>1 DEF Hers
<1>4. /\ ~ServerSide(h) /\ \A c \in Clients : ClientHas(c, h) => c = d
  BY <1>2, Unpack, OneOwner
<1>5. server'.buf # b
  <2> SUFFICES ASSUME server'.buf = b PROVE FALSE
    OBVIOUS
  <2>1. server.at = "event" /\ b \in Queued(server.slot)
    BY <1>2, <1>3, ServerMove DEF ServerMoves
  <2>2. PICK s : s = server.slot
    OBVIOUS
  <2>3. s \in SlotIds /\ ServerHas(s)
    BY <2>1, <2>2, ServerFacts
  <2> QED
    BY <1>3, <1>4, <2>1, <2>2, <2>3 DEF ServerSide
<1>6. ASSUME NEW c \in Clients, client'[c].buf = b PROVE c = d
  <2>1. CASE client'[c] = client[c]
    BY <1>3, <1>6, <2>1
  <2>2. CASE client[c].at = "event" /\ b \in Queued(client[c].slot)
    <3>1. PICK s : s = client[c].slot
      OBVIOUS
    <3>2. s \in SlotIds /\ ClientHas(c, s)
      BY <2>2, <3>1, ClientFacts
    <3> QED
      BY <1>3, <1>4, <2>2, <3>1, <3>2
  <2> QED
    BY <1>2, <1>6, <2>1, <2>2, ClientMove DEF ClientMoves
<1>7. ASSUME NEW s \in SlotIds, b \in Queued(s)' PROVE s = h
  BY <1>3, <1>7, SlotMove DEF SlotMoves
<1>8. ASSUME router'.at = "put", router'.buf = b PROVE router'.slot = h
  <2>1. PICK s : s = router'.slot
    OBVIOUS
  <2>2. s \in SlotIds
    <3>1. TypeInv'
      BY TypeStep
    <3>2. s \in MaybeSlot /\ s # None
      BY <1>8, <2>1, <3>1 DEF TypeInv, TaskType, Shape
    <3> QED
      BY <3>2 DEF MaybeSlot
  <2>3. RouterMoves /\ router.buf = b
    BY <1>8, RouterMove DEF RouterMoves
  <2>4. \A u \in SlotIds : ServerSide(u) => content[b].id # conn[u].id
    <3>1. \A u \in SlotIds : ServerSide(u) => conn[u].id[2] = ServerPort
      BY Unpack DEF ConnIds
    <3>2. content[b].id[2] # ServerPort
      BY PortKinds
    <3> QED
      BY <3>1, <3>2
  <2>5. CASE router.at = "put" /\ router.slot = s
    BY <1>3, <2>1, <2>3, <2>5
  <2>6. CASE router.at = "flushed" /\ router.slot = s
    <3>1. content[b].id = conn[s].id /\ ServerSide(s)
      BY <2>3, <2>6, RouterFacts, Unpack DEF PacketIds, ServerSide
    <3> QED
      BY <2>2, <2>4, <3>1
  <2>7. CASE conn[s].open /\ s # Socket /\ conn[s].id = content[b].id
    <3>1. PICK c \in Clients : ClientHas(c, s)
      BY <2>2, <2>4, <2>7, Unpack, OneOwner
    <3>2. conn[s].id[2] = conn[h].id[2]
      BY <1>3, <2>7, PortKinds
    <3> QED
      BY <1>2, <2>1, <2>2, <3>1, <3>2, Unpack DEF ConnIds
  <2> QED
    BY <1>8, <2>1, <2>3, <2>5, <2>6, <2>7 DEF RouterMoves
<1> QED
  BY <1>1, <1>5, <1>6, <1>7, <1>8

LEMMA MineStep ==
  ASSUME NodeInv, NodeNext
  PROVE  Mine'
<1> SUFFICES ASSUME NEW b \in Used', ~Over(content[b].call)'
             PROVE  Hers(b, content[b].call[1])'
  BY DEF Mine
<1>0. b \in Buffers /\ b # None
  BY BuffersFinite DEF Used
<1>1. CASE b \in Used
  <2>1. PICK call, d : call = content[b].call /\ d = call[1]
    OBVIOUS
  <2>2. /\ content'[b].call = call /\ d \in Clients /\ call \in Calling /\ call[2] <= client[d].call
    <3>1. /\ PacketOK(content[b]) /\ content[b].call \in Calling \cup {NoId}
      BY <1>1, PacketFacts DEF Used, Packet
    <3>2. d \in Clients /\ call[2] <= client[d].call
      BY <2>1, <3>1 DEF PacketOK
    <3>3. call[2] \in Nat /\ call = <<call[1], call[2]>>
      BY <2>1, <3>1 DEF Calling, NoId
    <3>4. content'[b].call = call
      BY <1>1, <2>1, ContentSame
    <3> QED
      BY <2>1, <3>2, <3>3, <3>4 DEF Calling
  <2>3. ~Over(call)'
    BY <2>2
  <2>4. PICK h : h = client[d].slot
    OBVIOUS
  <2>5. /\ ~Over(call) /\ h \in SlotIds /\ ClientHas(d, h) /\ client'[d].slot = h
        /\ conn'[h].id = conn[h].id
    BY <2>1, <2>2, <2>3, <2>4, LiveCall
  <2>6. Hers(b, d)
    BY <1>1, <2>1, <2>5, Unpack DEF Mine
  <2>7. Port(content[b].id) = conn[h].id[2]
    BY <2>4, <2>6 DEF Hers
  <2>8. CASE content'[b] = content[b]
    <3>1. Port(content'[b].id) = conn'[client'[d].slot].id[2]
      BY <2>5, <2>7, <2>8
    <3>2. ASSUME content'[b].reply
          PROVE  /\ server'.buf # b
                 /\ \A c \in Clients : client'[c].buf = b => c = d
                 /\ \A s \in SlotIds : b \in Queued(s)' => s = client'[d].slot
                 /\ router'.at = "put" /\ router'.buf = b => router'.slot = client'[d].slot
      <4>1. /\ b \in Used' /\ d \in Clients /\ d = content[b].call[1] /\ content[b].reply
            /\ client'[d].slot = client[d].slot /\ client[d].slot \in SlotIds
            /\ ClientHas(d, client[d].slot)
        BY <2>1, <2>2, <2>4, <2>5, <2>8, <3>2
      <4>2. /\ server'.buf # b
            /\ \A c \in Clients : client'[c].buf = b => c = d
            /\ \A s \in SlotIds : b \in Queued(s)' => s = client[d].slot
            /\ router'.at = "put" /\ router'.buf = b => router'.slot = client[d].slot
        BY <1>1, <2>6, <2>8, <4>1, ReplyStays
      <4> QED
        BY <4>1, <4>2
    <3> QED
      BY <2>1, <2>2, <3>1, <3>2 DEF Hers
  <2>9. CASE Answered(b)
    <3>1. PICK s : s = server.slot
      OBVIOUS
    <3>2. s \in SlotIds /\ ServerHas(s) /\ content[b].id = conn[s].id
      BY <2>9, <3>1, ServerFacts, Unpack DEF Answered, PacketIds
    <3>3. conn[s].id[1] \in Ports /\ conn[s].id[2] = ServerPort
      BY <3>2, Unpack DEF ConnIds, ServerSide
    <3>4. Port(content'[b].id) = Port(content[b].id)
      <4>1. Port(content[b].id) = conn[s].id[1]
        BY <3>2, <3>3, RequestPort
      <4>2. content'[b].id[1] = ServerPort /\ content'[b].id[2] = conn[s].id[1]
        BY <2>9, <3>1 DEF Answered
      <4> QED
        BY <4>1, <4>2 DEF Port
    <3>5. Port(content'[b].id) = conn'[client'[d].slot].id[2]
      BY <2>5, <2>7, <3>4
    <3>6. /\ server'.buf # b /\ UNCHANGED <<conn, client, router>> /\ server.buf = b
      BY <1>0, <2>9 DEF Answered
    <3>7. /\ \A c \in Clients : client'[c].buf # b
          /\ ~(router'.at = "put" /\ router'.buf = b)
          /\ \A u \in SlotIds : b \notin Queued(u)'
      BY <1>0, <3>6, Unpack, OnePlace, Stays
    <3> QED
      BY <2>1, <2>2, <3>5, <3>6, <3>7 DEF Hers
  <2> QED
    BY <1>1, <2>8, <2>9, PacketStep DEF PacketMoves, Sent, Used
<1>2. CASE \E c \in Clients : Sent(c, b)
  <2>1. PICK c \in Clients : Sent(c, b)
    BY <1>2
  <2>2. PICK s : s = client[c].slot
    OBVIOUS
  <2>3. /\ s \in SlotIds /\ ClientHas(c, s) /\ client'[c].slot = s /\ conn' = conn
        /\ content'[b].call[1] = c /\ content'[b].id = <<conn[s].id[2], ServerPort>> /\ ~content'[b].reply
    BY <2>1, <2>2, ClientFacts DEF Sent
  <2>4. conn[s].id[2] \in Ports
    BY <2>3, Unpack DEF ConnIds
  <2>5. Port(content'[b].id) = conn[s].id[2]
    BY <2>3, <2>4, RequestPort
  <2> QED
    BY <2>3, <2>5 DEF Hers
<1> QED
  BY <1>1, <1>2, PacketStep DEF PacketMoves

----------------------------------------------------------------------------
\* Until a csp_read times out

\* What a client finds, or is about to find, is of its own call.
LEMMA OwnPacket ==
  ASSUME NodeInv, InTime, NEW c \in Clients, NEW s \in SlotIds, ClientHas(c, s), NEW x \in Buffers,
         x \in Queued(s) \/ (router.at = "put" /\ router.slot = s /\ router.buf = x)
  PROVE  x \in Used /\ content[x].reply /\ content[x].call[1] = c
<1>1. x \in Used
  BY Unpack, HeldInUse DEF InUse
<1>2. ~ServerSide(s) /\ conn[s].id[2] \in Ports
  BY Unpack, OneOwner DEF ConnIds
<1>3. content[x].reply
  <2>1. CASE x \in Queued(s)
    BY <1>1, <1>2, <2>1 DEF InTime
  <2>2. CASE router.at = "put" /\ router.slot = s /\ router.buf = x
    BY <1>1, <1>2, <2>2, PortKinds DEF InTime
  <2> QED
    BY <2>1, <2>2
<1>4. PICK call, d : call = content[x].call /\ d = call[1]
  OBVIOUS
<1>5. d \in Clients /\ ~Over(call) /\ Hers(x, d)
  BY <1>1, <1>4, PacketFacts, Unpack DEF InTime, Mine, Used
<1>6. client[d].slot = s
  BY <1>3, <1>5 DEF Hers
<1>7. client[d].at # "closing"
  BY <1>4, <1>5 DEF Over
<1> QED
  BY <1>1, <1>3, <1>4, <1>5, <1>6, <1>7, Unpack, OneOwner DEF ClientHas

LEMMA OwnBuffer ==
  ASSUME NodeInv, InTime, NEW c \in Clients, NEW x \in Buffers, client[c].buf = x
  PROVE  x \in Used /\ content[x].call[1] = c
<1>1. x \in Used /\ content[x].reply
  BY Unpack, HeldInUse, PortKinds DEF InUse, InTime
<1>2. Hers(x, content[x].call[1]) /\ content[x].call[1] \in Clients
  BY <1>1, PacketFacts, Unpack DEF InTime, Mine, Used
<1> QED
  BY <1>1, <1>2 DEF Hers

\* A connection has no packets if its client has none or has taken its packet.
LEMMA EmptySlot ==
  ASSUME NodeInv, InTime, NEW c \in Clients, NEW s \in SlotIds, ClientHas(c, s),
         HasNone(c) \/ client[c].at = "close"
  PROVE  /\ Queued(s) = {} /\ ~(router.at = "put" /\ router.slot = s)
         /\ \A x \in Used : content[x].call[1] = c => client[c].buf = x
<1>1. \A x \in Used : content[x].call[1] = c => client[c].buf = x
  <2> SUFFICES ASSUME NEW x \in Used, content[x].call[1] = c PROVE client[c].buf = x
    OBVIOUS
  <2>1. ~HasNone(c)
    BY DEF InTime
  <2>2. client[c].at = "close" /\ client[c].buf # None
    BY <2>1 DEF HasNone
  <2>3. client[c].buf \in Buffers
    BY <2>2, ClientFacts DEF MaybeBuffer
  <2>4. client[c].buf \in Used /\ content[client[c].buf].call[1] = c
    BY <2>3, OwnBuffer
  <2> QED
    BY <2>4 DEF InTime
<1>2. \A x \in Buffers : ~(x \in Queued(s) \/ (router.at = "put" /\ router.slot = s /\ router.buf = x))
  <2> SUFFICES ASSUME NEW x \in Buffers,
                      x \in Queued(s) \/ (router.at = "put" /\ router.slot = s /\ router.buf = x)
               PROVE  FALSE
    OBVIOUS
  <2>1. client[c].buf = x
    BY <1>1, OwnPacket
  <2> QED
    BY <2>1, Unpack, OnePlace
<1>3. Queued(s) \subseteq Buffers
  BY Unpack, CountIs
<1>4. router.at = "put" => router.buf \in Buffers
  BY RouterFacts
<1> QED
  BY <1>1, <1>2, <1>3, <1>4

LEMMA TimePackets ==
  ASSUME NodeInv, NodeNext, InTime, ~timedOut'
  PROVE  /\ \A b \in Used' : ~Over(content[b].call)'
         /\ \A b, x \in Used' : content'[b].call[1] = content'[x].call[1] => b = x
         /\ \A c \in Clients : HasNone(c)' => \A b \in Used' : content'[b].call[1] # c
<1>0. /\ \A b \in Used' : b \in Used \/ \E c \in Clients : Sent(c, b)
      /\ \A b \in Used' : b \in Used => content'[b].call = content[b].call
  BY PacketStep, ContentSame DEF PacketMoves
\* a packet whose client closes is freed
<1>1. ASSUME NEW b \in Used', b \in Used, NEW c \in Clients, content[b].call[1] = c,
             client'[c].at = "closing", client[c].at = "close"
      PROVE  FALSE
  <2>1. PICK s : s = client[c].slot
    OBVIOUS
  <2>2. s \in SlotIds /\ ClientHas(c, s)
    BY <1>1, <2>1, ClientFacts
  <2>3. client[c].buf = b
    BY <1>1, <2>2, EmptySlot
  <2>4. b \in Buffers /\ b # None /\ b \notin free'
    BY BuffersFinite DEF Used
  <2>5. client[c].buf \in free' \cup {None}
    BY <1>1, ClientMove DEF ClientMoves
  <2> QED
    BY <2>3, <2>4, <2>5
<1>2. ASSUME NEW b \in Used' PROVE ~Over(content[b].call)'
  <2>1. CASE b \in Used
    <3>1. PICK call, d : call = content[b].call /\ d = call[1]
      OBVIOUS
    <3>2. /\ content'[b].call = call /\ d \in Clients /\ call[2] \in Nat /\ ~Over(call)
      BY <1>0, <2>1, <3>1, PacketFacts DEF InTime, Used
    <3>3. ~(call[2] < client[d].call) /\ client[d].at \notin {"idle", "closing"}
      BY <3>1, <3>2 DEF Over
    <3>4. ClientMoves(d)
      BY <3>2, ClientMove
    <3>5. ~(client'[d].at = "closing" /\ client[d].at = "close")
      BY <1>1, <2>1, <3>1, <3>2
    <3>6. client'[d].call = client[d].call /\ client'[d].at \notin {"idle", "closing"}
      BY <3>3, <3>4, <3>5 DEF ClientMoves
    <3>7. ~Over(call)'
      BY <3>1, <3>3, <3>6 DEF Over
    <3> QED
      BY <3>2, <3>7
  <2>2. CASE \E c \in Clients : Sent(c, b)
    <3>1. PICK c \in Clients : Sent(c, b)
      BY <2>2
    <3>2. /\ content'[b].call = <<c, client[c].call>> /\ client'[c].call = client[c].call
          /\ client'[c].at = "sent" /\ client[c].call \in Nat
      BY <3>1, ClientFacts DEF Sent
    <3>3. content'[b].call[1] = c /\ content'[b].call[2] = client[c].call
      BY <3>2
    <3> QED
      BY <3>2, <3>3 DEF Over
  <2> QED
    BY <1>0, <2>1, <2>2
<1>3. ASSUME NEW b \in Used', NEW x \in Used', b \in Used, content'[b].call[1] = content'[x].call[1],
             NEW c \in Clients, Sent(c, x)
      PROVE  FALSE
  <2>1. content[b].call[1] = c
    BY <1>0, <1>3 DEF Sent
  <2>2. HasNone(c)
    BY <1>3 DEF HasNone, Sent
  <2> QED
    BY <1>3, <2>1, <2>2 DEF InTime
<1>4. ASSUME NEW b \in Used', NEW x \in Used', content'[b].call[1] = content'[x].call[1] PROVE b = x
  <2>1. CASE b \in Used /\ x \in Used
    BY <1>0, <1>4, <2>1 DEF InTime
  <2>2. CASE b \notin Used /\ x \notin Used
    <3>1. PICK c \in Clients : Sent(c, b)
      BY <1>0, <2>2
    <3>2. free' = free \ {b} /\ x \in Buffers /\ x \notin free' /\ x \in free
      BY <2>2, <3>1 DEF Sent, Used
    <3> QED
      BY <3>2
  <2>3. CASE b \in Used /\ x \notin Used
    BY <1>0, <1>3, <1>4, <2>3
  <2>4. CASE b \notin Used /\ x \in Used
    BY <1>0, <1>3, <1>4, <2>4
  <2> QED
    BY <2>1, <2>2, <2>3, <2>4
<1>5. ASSUME NEW c \in Clients, HasNone(c)', NEW b \in Used', content'[b].call[1] = c PROVE FALSE
  <2>1. b \in Used /\ content[b].call[1] = c
    <3>1. ASSUME NEW d \in Clients, Sent(d, b) PROVE FALSE
      <4>1. d = c /\ client'[c].at = "sent"
        BY <1>5, <3>1 DEF Sent
      <4> QED
        BY <1>5, <4>1 DEF HasNone
    <3> QED
      BY <1>0, <1>5, <3>1
  <2>2. ~HasNone(c)
    BY <2>1 DEF InTime
  <2>3. /\ client[c].at \notin {"idle", "new", "flushed", "connected", "closing"}
        /\ client[c].at = "close" => client[c].buf # None
    BY <2>2 DEF HasNone
  <2>4. ClientMoves(c) /\ client'[c] # client[c]
    BY <1>5, <2>2, ClientMove DEF HasNone
  <2>5. CASE client'[c].at = "closing"
    <3>1. client[c].at = "close"
      BY <2>3, <2>4, <2>5 DEF ClientMoves
    <3> QED
      BY <1>1, <2>1, <2>5, <3>1
  <2>6. CASE client'[c].at = "close" /\ client'[c].buf = None
    <3>1. client[c].at = "event" /\ Queued(client[c].slot) = {}
      BY <2>3, <2>4, <2>6 DEF ClientMoves
    <3>2. PICK s : s = client[c].slot
      OBVIOUS
    <3>3. s \in SlotIds /\ ClientHas(c, s) /\ conn[s].open /\ Count(s) = 0
      BY <3>1, <3>2, ClientFacts, Unpack, CountIs
    <3>4. Taking(s) = 1
      BY <3>1, <3>3, TakingIs
    <3>5. conn[s].events \in Nat /\ Stored(s) \in 0..1
      BY <3>3, ConnFields, Unpack DEF Stored
    <3>6. Debt(s) <= 0
      BY <3>3 DEF InTime
    <3> QED
      BY <3>4, <3>5, <3>6 DEF Debt
  <2> QED
    BY <1>5, <2>3, <2>4, <2>5, <2>6 DEF HasNone, ClientMoves
<1> QED
  BY <1>2, <1>4, <1>5

LEMMA NextRouter ==
  ASSUME NodeInv, NodeNext, router'.at \in {"new", "flushed", "put"}
  PROVE  router'.slot \in SlotIds /\ router'.buf \in Buffers /\ router'.buf \in Used'
<1>1. TypeInv' /\ InUse'
  BY TypeStep, InUseStays
<1>2. router'.slot \in MaybeSlot /\ router'.buf \in MaybeBuffer
  BY <1>1 DEF TypeInv, TaskType
<1>3. router'.slot # None /\ router'.buf # None
  BY <1>1 DEF TypeInv, Shape
<1> QED
  BY <1>1, <1>2, <1>3 DEF MaybeSlot, MaybeBuffer, InUse

LEMMA TimeRouter ==
  ASSUME NodeInv, NodeNext, InTime
  PROVE  /\ router'.at = "put" => conn'[router'.slot].id = content'[router'.buf].id
         /\ router'.at \in {"new", "flushed"} => Queued(router.slot)' = {}
<1>1. ASSUME router'.at = "put" PROVE conn'[router'.slot].id = content'[router'.buf].id
  <2>1. PICK s, b : s = router'.slot /\ b = router'.buf
    OBVIOUS
  <2>2. s \in SlotIds /\ b \in Used' /\ RouterMoves /\ router.buf = b
    BY <1>1, <2>1, NextRouter, RouterMove DEF RouterMoves
  <2>3. CASE router.at \in {"flushed", "put"} /\ router.slot = s
    <3>1. conn[s].open
      <4>1. CASE router.at = "put"
        <5>1. Storing(s) = 1
          BY <2>3, <4>1 DEF Storing
        <5> QED
          BY <2>2, <5>1 DEF InTime
      <4>2. CASE router.at = "flushed"
        BY <2>3, <4>2, RouterFacts
      <4> QED
        BY <2>3, <4>1, <4>2
    <3>2. conn[s].id = content[b].id
      BY <2>2, <2>3, Unpack DEF InTime, PacketIds
    <3>3. conn'[s].id = conn[s].id
      BY <2>2, <3>1, SlotMove DEF SlotMoves
    <3>4. content'[b] = content[b]
      BY <2>2, <2>3, HeldContent
    <3> QED
      BY <2>1, <3>2, <3>3, <3>4
  <2>4. CASE UNCHANGED <<conn, content>> /\ conn[s].id = content[b].id
    BY <2>1, <2>4
  <2> QED
    BY <1>1, <2>1, <2>2, <2>3, <2>4 DEF RouterMoves
<1>2. ASSUME router'.at \in {"new", "flushed"} PROVE Queued(router.slot)' = {}
  <2>1. PICK s : s = router'.slot
    OBVIOUS
  <2>2. s \in SlotIds /\ RouterMoves /\ SlotMoves(s)
    BY <1>2, <2>1, NextRouter, RouterMove, SlotMove
  <2>3. Queued(s) = {} /\ router.at # "put"
    <3>1. CASE router.at \in {"new", "flushed"} /\ router.slot = s
      BY <3>1 DEF InTime
    <3>2. CASE Requested(s)
      BY <2>2, <3>2 DEF InTime, Requested
    <3> QED
      BY <1>2, <2>1, <2>2, <3>1, <3>2 DEF RouterMoves
  <2>4. Queued(s)' = {}
    BY <2>2, <2>3 DEF SlotMoves
  <2> QED
    BY <2>1, <2>4
<1> QED
  BY <1>1, <1>2

LEMMA TimeRequests ==
  ASSUME NodeInv, NodeNext, InTime, NEW b \in Used', ~content'[b].reply
  PROVE  /\ \A c \in Clients : client'[c].buf # b
         /\ \A s \in SlotIds : b \in Queued(s)' => ServerSide(s)'
<1>0. b \in Buffers /\ b # None
  BY BuffersFinite DEF Used
<1>1. CASE \E c \in Clients : Sent(c, b)
  <2>1. PICK c \in Clients : Sent(c, b)
    BY <1>1
  <2>2. b \notin Used /\ client'[c].buf = None /\ \A d \in Clients : d # c => client'[d] = client[d]
    BY <2>1 DEF Sent, Used
  <2>3. \A d \in Clients : client'[d].buf # b
    BY <1>0, <2>2, InUseStays DEF InUse
  <2>4. \A s \in SlotIds : b \notin Queued(s)'
    BY <1>0, <2>2, InUseStays, SlotMove DEF InUse, SlotMoves
  <2> QED
    BY <2>3, <2>4
<1>2. CASE b \in Used /\ content'[b] = content[b]
  <2>1. /\ \A c \in Clients : client[c].buf # b
        /\ \A s \in SlotIds : b \in Queued(s) => ServerSide(s)
    BY <1>2 DEF InTime
  <2>2. ASSUME NEW c \in Clients, client'[c].buf = b PROVE FALSE
    <3>1. client[c].at = "event" /\ b \in Queued(client[c].slot)
      BY <1>0, <2>1, <2>2, ClientMove DEF ClientMoves
    <3>2. PICK s : s = client[c].slot
      OBVIOUS
    <3>3. s \in SlotIds /\ ClientHas(c, s)
      BY <3>1, <3>2, ClientFacts
    <3> QED
      BY <2>1, <3>1, <3>2, <3>3, Unpack, OneOwner
  <2>3. ASSUME NEW s \in SlotIds, b \in Queued(s)' PROVE ServerSide(s)'
    <3>1. ServerSide(s)
      <4>1. CASE b \in Queued(s)
        BY <2>1, <4>1
      <4>2. CASE router.at = "put" /\ router.slot = s /\ router.buf = b
        <5>1. Storing(s) = 1 /\ s # Socket
          BY <4>2, RouterFacts DEF Storing
        <5>2. conn[s].open /\ conn[s].id = content[b].id
          BY <4>2, <5>1 DEF InTime
        <5>3. conn[s].id[2] = ServerPort /\ ServerPort \notin Ports
          BY <1>2, <5>2, PortKinds
        <5>4. \A c \in Clients : ~ClientHas(c, s)
          BY <5>3, Unpack DEF ConnIds
        <5> QED
          BY <5>1, <5>2, <5>4, Unpack, OneOwner
      <4> QED
        BY <2>3, <4>1, <4>2, SlotMove DEF SlotMoves
    <3> QED
      BY <2>3, <3>1, SlotMove DEF SlotMoves
  <2> QED
    BY <2>2, <2>3
<1> QED
  BY <1>1, <1>2, PacketStep DEF PacketMoves, Answered

LEMMA TimeServer ==
  ASSUME NodeInv, NodeNext, InTime, ~timedOut'
  PROVE  server'.at \notin {"close", "closing"}
<1> SUFFICES ASSUME server'.at \in {"close", "closing"} PROVE FALSE
  OBVIOUS
<1>1. server.at = "event" /\ Queued(server.slot) = {}
  BY ServerMove DEF ServerMoves, InTime
<1>2. PICK s : s = server.slot
  OBVIOUS
<1>3. s \in SlotIds /\ ServerHas(s) /\ conn[s].open /\ Count(s) = 0
  BY <1>1, <1>2, ServerFacts, Unpack, CountIs
<1>4. Taking(s) = 1
  BY <1>1, <1>3, TakingIs
<1>5. conn[s].events \in Nat /\ Stored(s) \in 0..1
  BY <1>3, ConnFields, Unpack DEF Stored
<1>6. Debt(s) <= 0
  BY <1>3 DEF InTime
<1> QED
  BY <1>4, <1>5, <1>6 DEF Debt

TimeSlot(u) ==
  /\ ~conn[u].open => conn[u].events = 0 /\ Storing(u) = 0 /\ Queued(u) = {}
  /\ conn[u].open => Debt(u) <= Count(u)

LEMMA TimeSame ==
  ASSUME InTime, NEW u \in SlotIds, conn'[u] = conn[u], Queued(u)' = Queued(u),
         Storing(u)' = Storing(u), Stored(u)' = Stored(u), Taking(u)' = Taking(u)
  PROVE  TimeSlot(u)'
BY CountSame DEF InTime, TimeSlot, Debt

LEMMA ClientTime ==
  ASSUME NodeInv, InTime, NEW c \in Clients, NEW s \in MaybeSlot,
         UNCHANGED <<server, router>>, \A d \in Clients : d # c => client'[d] = client[d],
         client[c].slot \in {s, None}, client'[c].slot \in {s, None},
         \A u \in SlotIds : u # s => conn'[u] = conn[u] /\ Queued(u)' = Queued(u),
         s \in SlotIds => TimeSlot(s)'
  PROVE  \A u \in SlotIds : TimeSlot(u)'
<1> SUFFICES ASSUME NEW u \in SlotIds, u # s PROVE TimeSlot(u)'
  OBVIOUS
<1>1. client[c].slot # u /\ client'[c].slot # u
  BY SlotIdsType
<1>2. \A d \in Clients : /\ client'[d].slot = u <=> client[d].slot = u
                         /\ client[d].slot = u => client'[d].at = client[d].at
  BY <1>1
<1>3. Storing(u)' = Storing(u) /\ Stored(u)' = Stored(u) /\ Taking(u)' = Taking(u)
  BY <1>2 DEF Storing, Stored, Taking
<1> QED
  BY <1>3, TimeSame

LEMMA ServerTime ==
  ASSUME NodeInv, InTime, NEW s \in SlotIds, UNCHANGED <<client, router>>,
         server.slot \in {s, None}, server'.slot \in {s, None},
         \A u \in SlotIds : u # s => conn'[u] = conn[u] /\ Queued(u)' = Queued(u),
         TimeSlot(s)'
  PROVE  \A u \in SlotIds : TimeSlot(u)'
<1> SUFFICES ASSUME NEW u \in SlotIds, u # s PROVE TimeSlot(u)'
  OBVIOUS
<1>1. server.slot # u /\ server'.slot # u
  BY SlotIdsType
<1>2. Storing(u)' = Storing(u) /\ Stored(u)' = Stored(u) /\ Taking(u)' = Taking(u)
  BY <1>1 DEF Storing, Stored, Taking
<1> QED
  BY <1>2, TimeSame

LEMMA RouterTime ==
  ASSUME NodeInv, InTime, NEW s \in MaybeSlot, UNCHANGED <<client, server>>,
         router.slot \in {s, None}, router'.slot \in {s, None},
         \A u \in SlotIds : u # s => conn'[u] = conn[u] /\ Queued(u)' = Queued(u),
         s \in SlotIds => TimeSlot(s)'
  PROVE  \A u \in SlotIds : TimeSlot(u)'
<1> SUFFICES ASSUME NEW u \in SlotIds, u # s PROVE TimeSlot(u)'
  OBVIOUS
<1>1. router.slot # u /\ router'.slot # u
  BY SlotIdsType
<1>2. Storing(u)' = Storing(u) /\ Stored(u)' = Stored(u) /\ Taking(u)' = Taking(u)
  BY <1>1 DEF Storing, Stored, Taking
<1> QED
  BY <1>2, TimeSame

\* The numbers of a connection, and how they change
LEMMA TimeOpen ==
  ASSUME NodeInv, NodeNext, NEW s \in SlotIds, TimeSlot(s), conn[s].open, conn'[s].open,
         conn'[s].events + Stored(s)' + Taking(s)' + Count(s)
           <= conn[s].events + Stored(s) + Taking(s) + Count(s)'
  PROVE  TimeSlot(s)'
<1>1. PICK e, e1, t, t1, k, k1, n, n1 :
        /\ e = conn[s].events /\ e1 = conn'[s].events /\ t = Stored(s) /\ t1 = Stored(s)'
        /\ k = Taking(s) /\ k1 = Taking(s)' /\ n = Count(s) /\ n1 = Count(s)'
  OBVIOUS
<1>2. {e, e1, t, t1, k, k1, n, n1} \subseteq Nat
  BY <1>1, BoundTypes, TypeStep, Unpack
<1>3. e + t + k <= n /\ e1 + t1 + k1 + n <= e + t + k + n1
  BY <1>1 DEF TimeSlot, Debt
<1>4. e1 + t1 + k1 <= n1
  BY <1>2, <1>3
<1> QED
  BY <1>1, <1>4 DEF TimeSlot, Debt

LEMMA TimeOpened ==
  ASSUME NodeInv, NodeNext, NEW s \in SlotIds, TimeSlot(s), ~conn[s].open, conn'[s].open,
         conn'[s].events = conn[s].events, Stored(s)' = 0, Taking(s)' = 0
  PROVE  TimeSlot(s)'
<1>1. conn'[s].events = 0 /\ Count(s)' \in Nat
  BY BoundTypes, TypeStep, Unpack DEF TimeSlot
<1> QED
  BY <1>1 DEF TimeSlot, Debt

LEMMA NumberTypes ==
  ASSUME NodeInv, NodeNext, NEW s \in SlotIds
  PROVE  /\ conn[s].events \in Nat /\ conn'[s].events \in Nat
         /\ Stored(s) \in 0..1 /\ Stored(s)' \in 0..1 /\ Taking(s) \in 0..1 /\ Taking(s)' \in 0..1
         /\ Storing(s) \in 0..1 /\ Count(s) \in Nat /\ Count(s)' \in Nat
BY BoundTypes, TypeStep, Unpack

LEMMA ConnectTime ==
  ASSUME NodeInv, NodeNext, InTime, NEW c \in Clients, Connect(c)
  PROVE  \A u \in SlotIds : TimeSlot(u)'
<1>1. client[c].slot = None /\ UNCHANGED <<server, router>>
  BY ConnectIs, ClientFacts
<1>2. CASE /\ ClientIs(c, "idle", client[c].call + 1, None, None)
           /\ conn' = conn /\ \A u \in SlotIds : Queued(u)' = Queued(u)
  <2>1. client'[c].slot = None /\ \A d \in Clients : d # c => client'[d] = client[d]
    BY <1>2 DEF ClientIs
  <2>2. None \in MaybeSlot /\ None \notin SlotIds
    BY SlotIdsType DEF MaybeSlot
  <2> QED
    BY <1>1, <1>2, <2>1, <2>2, ClientTime
<1>3. ASSUME NEW s \in SlotIds, NEW p \in Ports, ~conn[s].open,
             ClientIs(c, "new", client[c].call + 1, s, None),
             Becomes(s, TRUE, <<ServerPort, p>>, FALSE, conn[s].events, Queued(s))
      PROVE  \A u \in SlotIds : TimeSlot(u)'
  <2>1. /\ client'[c].slot = s /\ client'[c].at = "new" /\ ClientHas(c, s)'
        /\ \A d \in Clients : d # c => client'[d] = client[d]
    BY <1>3 DEF ClientIs, ClientHas
  <2>2. /\ \A u \in SlotIds : u # s => conn'[u] = conn[u] /\ Queued(u)' = Queued(u)
        /\ conn'[s].events = conn[s].events /\ conn'[s].open
    BY <1>3 DEF Becomes
  <2>3. Stored(s)' = 0
    <3>1. Storing(s) = 0
      BY <1>3 DEF InTime
    <3> QED
      BY <1>1, <3>1 DEF Storing, Stored
  <2>4. Taking(s)' = 0
    BY <2>1, TakingIs
  <2>5. TimeSlot(s)'
    BY <1>3, <2>2, <2>3, <2>4, TimeOpened DEF InTime, TimeSlot
  <2> QED
    BY <1>1, <2>1, <2>2, <2>5, ClientTime DEF MaybeSlot
<1> QED
  BY <1>2, <1>3, ConnectIs

LEMMA ClientFlushPacketsTime ==
  ASSUME NodeInv, NodeNext, InTime, NEW c \in Clients, ClientFlushPackets(c)
  PROVE  \A u \in SlotIds : TimeSlot(u)'
<1>1. PICK s : s = client[c].slot
  OBVIOUS
<1>2. client[c].at = "new" /\ UNCHANGED <<server, router>>
  BY ClientFlushPacketsIs
<1>3. s \in SlotIds /\ client[c].slot = s /\ ClientHas(c, s) /\ conn[s].open /\ TimeSlot(s)
  BY <1>1, <1>2, ClientFacts DEF InTime, TimeSlot
<1>4. /\ client'[c].slot = s /\ client'[c].at = "flushed" /\ ClientHas(c, s)'
      /\ \A d \in Clients : d # c => client'[d] = client[d]
  BY <1>1, ClientFlushPacketsIs DEF ClientIs, ClientHas
<1>5. /\ \A u \in SlotIds : u # s => conn'[u] = conn[u] /\ Queued(u)' = Queued(u)
      /\ conn'[s].events = conn[s].events /\ conn'[s].open
      /\ Queued(s)' = {}
  BY <1>1, <1>3, ClientFlushPacketsIs DEF Becomes
<1>6. Stored(s)' = Stored(s) /\ Taking(s) = 0 /\ Taking(s)' = 0
  BY <1>2, <1>3, <1>4, TakingIs DEF Stored
<1>7. Count(s)' = Count(s)
  <2>1. Queued(s) = {}
    BY <1>2, <1>3, EmptySlot DEF HasNone
  <2> QED
    BY <1>3, <1>5, <2>1, CountSame
<1>8. TimeSlot(s)'
  BY <1>3, <1>5, <1>6, <1>7, NumberTypes, TimeOpen
<1> QED
  BY <1>2, <1>3, <1>4, <1>5, <1>8, ClientTime DEF MaybeSlot

LEMMA ClientFlushEventsTime ==
  ASSUME NodeInv, NodeNext, InTime, NEW c \in Clients, ClientFlushEvents(c)
  PROVE  \A u \in SlotIds : TimeSlot(u)'
<1>1. PICK s : s = client[c].slot
  OBVIOUS
<1>2. client[c].at = "flushed" /\ UNCHANGED <<server, router>>
  BY ClientFlushEventsIs
<1>3. s \in SlotIds /\ client[c].slot = s /\ ClientHas(c, s) /\ conn[s].open /\ TimeSlot(s)
  BY <1>1, <1>2, ClientFacts DEF InTime, TimeSlot
<1>4. /\ client'[c].slot = s /\ client'[c].at = "connected" /\ ClientHas(c, s)'
      /\ \A d \in Clients : d # c => client'[d] = client[d]
  BY <1>1, ClientFlushEventsIs DEF ClientIs, ClientHas
<1>5. /\ \A u \in SlotIds : u # s => conn'[u] = conn[u] /\ Queued(u)' = Queued(u)
      /\ conn'[s].events = 0 /\ conn'[s].open
      /\ Queued(s)' = Queued(s)
  BY <1>1, <1>3, ClientFlushEventsIs DEF Becomes
<1>6. Stored(s)' = Stored(s) /\ Taking(s) = 0 /\ Taking(s)' = 0
  BY <1>2, <1>3, <1>4, TakingIs DEF Stored
<1>7. Count(s)' = Count(s)
  BY <1>3, <1>5, CountSame
<1>8. TimeSlot(s)'
  BY <1>3, <1>5, <1>6, <1>7, NumberTypes, TimeOpen
<1> QED
  BY <1>2, <1>3, <1>4, <1>5, <1>8, ClientTime DEF MaybeSlot

LEMMA ClientSendTime ==
  ASSUME NodeInv, NodeNext, InTime, NEW c \in Clients, ClientSend(c)
  PROVE  \A u \in SlotIds : TimeSlot(u)'
<1>1. PICK s : s = client[c].slot
  OBVIOUS
<1>2. client[c].at = "connected" /\ UNCHANGED <<server, router>>
  BY ClientSendIs
<1>3. s \in SlotIds /\ client[c].slot = s /\ ClientHas(c, s) /\ conn[s].open /\ TimeSlot(s)
  BY <1>1, <1>2, ClientFacts DEF InTime, TimeSlot
<1>4. /\ client'[c].slot = s /\ client'[c].at \in {"sent", "close"} /\ ClientHas(c, s)'
      /\ \A d \in Clients : d # c => client'[d] = client[d]
  BY <1>1, ClientSendIs DEF ClientIs, ClientHas
<1>5. /\ \A u \in SlotIds : u # s => conn'[u] = conn[u] /\ Queued(u)' = Queued(u)
      /\ conn'[s].events = conn[s].events /\ conn'[s].open
      /\ Queued(s)' = Queued(s)
  BY <1>1, <1>3, ClientSendIs DEF Becomes
<1>6. Stored(s)' = Stored(s) /\ Taking(s) = 0 /\ Taking(s)' = 0
  BY <1>2, <1>3, <1>4, TakingIs DEF Stored
<1>7. Count(s)' = Count(s)
  BY <1>3, <1>5, CountSame
<1>8. TimeSlot(s)'
  BY <1>3, <1>5, <1>6, <1>7, NumberTypes, TimeOpen
<1> QED
  BY <1>2, <1>3, <1>4, <1>5, <1>8, ClientTime DEF MaybeSlot

LEMMA ClientSendEventTime ==
  ASSUME NodeInv, NodeNext, InTime, NEW c \in Clients, ClientSendEvent(c)
  PROVE  \A u \in SlotIds : TimeSlot(u)'
<1>1. PICK s : s = client[c].slot
  OBVIOUS
<1>2. client[c].at = "sent" /\ UNCHANGED <<server, router>>
  BY ClientSendEventIs
<1>3. s \in SlotIds /\ client[c].slot = s /\ ClientHas(c, s) /\ conn[s].open /\ TimeSlot(s)
  BY <1>1, <1>2, ClientFacts DEF InTime, TimeSlot
<1>4. /\ client'[c].slot = s /\ client'[c].at = "read" /\ ClientHas(c, s)'
      /\ \A d \in Clients : d # c => client'[d] = client[d]
  BY <1>1, ClientSendEventIs DEF ClientIs, ClientHas
<1>5. /\ \A u \in SlotIds : u # s => conn'[u] = conn[u] /\ Queued(u)' = Queued(u)
      /\ conn'[s].events = conn[s].events /\ conn'[s].open
      /\ Queued(s)' = Queued(s)
  BY <1>1, <1>3, ClientSendEventIs DEF Becomes
<1>6. Stored(s)' = Stored(s) /\ Taking(s) = 0 /\ Taking(s)' = 0
  BY <1>2, <1>3, <1>4, TakingIs DEF Stored
<1>7. Count(s)' = Count(s)
  BY <1>3, <1>5, CountSame
<1>8. TimeSlot(s)'
  BY <1>3, <1>5, <1>6, <1>7, NumberTypes, TimeOpen
<1> QED
  BY <1>2, <1>3, <1>4, <1>5, <1>8, ClientTime DEF MaybeSlot

LEMMA ClientTimeoutTime ==
  ASSUME NodeInv, NodeNext, InTime, NEW c \in Clients, ClientTimeout(c)
  PROVE  \A u \in SlotIds : TimeSlot(u)'
<1>1. PICK s : s = client[c].slot
  OBVIOUS
<1>2. client[c].at = "read" /\ UNCHANGED <<server, router>>
  BY ClientTimeoutIs
<1>3. s \in SlotIds /\ client[c].slot = s /\ ClientHas(c, s) /\ conn[s].open /\ TimeSlot(s)
  BY <1>1, <1>2, ClientFacts DEF InTime, TimeSlot
<1>4. /\ client'[c].slot = s /\ client'[c].at = "close" /\ ClientHas(c, s)'
      /\ \A d \in Clients : d # c => client'[d] = client[d]
  BY <1>1, ClientTimeoutIs DEF ClientIs, ClientHas
<1>5. /\ \A u \in SlotIds : u # s => conn'[u] = conn[u] /\ Queued(u)' = Queued(u)
      /\ conn'[s].events = conn[s].events /\ conn'[s].open
      /\ Queued(s)' = Queued(s)
  BY <1>1, <1>3, ClientTimeoutIs DEF Becomes
<1>6. Stored(s)' = Stored(s) /\ Taking(s) = 0 /\ Taking(s)' = 0
  BY <1>2, <1>3, <1>4, TakingIs DEF Stored
<1>7. Count(s)' = Count(s)
  BY <1>3, <1>5, CountSame
<1>8. TimeSlot(s)'
  BY <1>3, <1>5, <1>6, <1>7, NumberTypes, TimeOpen
<1> QED
  BY <1>2, <1>3, <1>4, <1>5, <1>8, ClientTime DEF MaybeSlot

LEMMA ClientReadTime ==
  ASSUME NodeInv, NodeNext, InTime, NEW c \in Clients, ClientRead(c)
  PROVE  \A u \in SlotIds : TimeSlot(u)'
<1>1. PICK s : s = client[c].slot
  OBVIOUS
<1>2. client[c].at = "read" /\ UNCHANGED <<server, router>>
  BY ClientReadIs
<1>3. s \in SlotIds /\ client[c].slot = s /\ ClientHas(c, s) /\ conn[s].open /\ TimeSlot(s)
  BY <1>1, <1>2, ClientFacts DEF InTime, TimeSlot
<1>4. /\ client'[c].slot = s /\ client'[c].at = "event" /\ ClientHas(c, s)'
      /\ \A d \in Clients : d # c => client'[d] = client[d]
  BY <1>1, ClientReadIs DEF ClientIs, ClientHas
<1>5. /\ \A u \in SlotIds : u # s => conn'[u] = conn[u] /\ Queued(u)' = Queued(u)
      /\ conn'[s].events = conn[s].events - 1 /\ conn'[s].open
      /\ Queued(s)' = Queued(s)
  BY <1>1, <1>3, ClientReadIs DEF Becomes
<1>6. Stored(s)' = Stored(s) /\ Taking(s) = 0 /\ Taking(s)' = 1
  BY <1>2, <1>3, <1>4, TakingIs DEF Stored
<1>7. Count(s)' = Count(s)
  BY <1>3, <1>5, CountSame
<1>8. TimeSlot(s)'
  BY <1>3, <1>5, <1>6, <1>7, NumberTypes, TimeOpen
<1> QED
  BY <1>2, <1>3, <1>4, <1>5, <1>8, ClientTime DEF MaybeSlot

LEMMA ClientReadPacketTime ==
  ASSUME NodeInv, NodeNext, InTime, NEW c \in Clients, ClientReadPacket(c)
  PROVE  \A u \in SlotIds : TimeSlot(u)'
<1>1. PICK s : s = client[c].slot
  OBVIOUS
<1>2. client[c].at = "event" /\ UNCHANGED <<server, router>>
  BY ClientReadPacketIs
<1>3. s \in SlotIds /\ client[c].slot = s /\ ClientHas(c, s) /\ conn[s].open /\ TimeSlot(s)
  BY <1>1, <1>2, ClientFacts DEF InTime, TimeSlot
<1>4. /\ client'[c].slot = s /\ client'[c].at = "close" /\ ClientHas(c, s)'
      /\ \A d \in Clients : d # c => client'[d] = client[d]
  BY <1>1, ClientReadPacketIs DEF ClientIs, ClientHas
<1>5. /\ \A u \in SlotIds : u # s => conn'[u] = conn[u] /\ Queued(u)' = Queued(u)
      /\ conn'[s].events = conn[s].events /\ conn'[s].open
      /\ Queued(s)' = Queued(s) \/ \E b \in Queued(s) : Queued(s)' = Queued(s) \ {b}
  BY <1>1, <1>3, ClientReadPacketIs DEF Becomes
<1>6. Stored(s)' = Stored(s) /\ Taking(s) = 1 /\ Taking(s)' = 0
  BY <1>2, <1>3, <1>4, TakingIs DEF Stored
<1>7. Count(s)' = Count(s) \/ Count(s)' = Count(s) - 1
  BY <1>3, <1>5, Unpack, CountIs, FS_RemoveElement DEF Count
<1>8. TimeSlot(s)'
  BY <1>3, <1>5, <1>6, <1>7, NumberTypes, TimeOpen
<1> QED
  BY <1>2, <1>3, <1>4, <1>5, <1>8, ClientTime DEF MaybeSlot

LEMMA ClientCloseTime ==
  ASSUME NodeInv, NodeNext, InTime, NEW c \in Clients, ClientClose(c)
  PROVE  \A u \in SlotIds : TimeSlot(u)'
<1>1. PICK s : s = client[c].slot
  OBVIOUS
<1>2. client[c].at = "close" /\ UNCHANGED <<server, router>>
  BY ClientCloseIs
<1>3. s \in SlotIds /\ client[c].slot = s /\ ClientHas(c, s) /\ conn[s].open /\ TimeSlot(s)
  BY <1>1, <1>2, ClientFacts DEF InTime, TimeSlot
<1>4. client'[c].slot = s /\ \A d \in Clients : d # c => client'[d] = client[d]
  BY <1>1, ClientCloseIs DEF ClientIs
<1>5. /\ \A u \in SlotIds : u # s => conn'[u] = conn[u] /\ Queued(u)' = Queued(u)
      /\ conn'[s].events = conn[s].events /\ ~conn'[s].open /\ Queued(s)' = {}
  BY <1>1, <1>3, ClientCloseIs DEF Becomes
<1>6. Count(s) = 0 /\ ~(router.at = "put" /\ router.slot = s)
  BY <1>2, <1>3, EmptySlot, Unpack, CountIs
<1>7. conn[s].events = 0 /\ Stored(s) = 0
  BY <1>3, <1>6, NumberTypes DEF TimeSlot, Debt
<1>8. Storing(s)' = 0
  BY <1>2, <1>6, <1>7 DEF Storing, Stored
<1>9. TimeSlot(s)'
  BY <1>5, <1>7, <1>8 DEF TimeSlot
<1> QED
  BY <1>2, <1>3, <1>4, <1>5, <1>9, ClientTime DEF MaybeSlot

LEMMA ClientCloseEndsTime ==
  ASSUME NodeInv, NodeNext, InTime, NEW c \in Clients, ClientCloseEnds(c)
  PROVE  \A u \in SlotIds : TimeSlot(u)'
<1>1. PICK s : s = client[c].slot
  OBVIOUS
<1>2. client[c].at = "closing" /\ UNCHANGED <<server, router>>
  BY ClientCloseEndsIs
<1>3. s \in SlotIds /\ client[c].slot = s /\ ~conn[s].open /\ TimeSlot(s)
  BY <1>1, <1>2, ClientFacts DEF InTime, TimeSlot
<1>4. client'[c].slot = None /\ \A d \in Clients : d # c => client'[d] = client[d]
  BY <1>1, ClientCloseEndsIs DEF ClientIs
<1>5. /\ \A u \in SlotIds : u # s => conn'[u] = conn[u] /\ Queued(u)' = Queued(u)
      /\ conn'[s].events = 0 /\ ~conn'[s].open /\ Queued(s)' = Queued(s)
  BY <1>1, <1>3, ClientCloseEndsIs DEF Becomes
<1>6. Storing(s)' = Storing(s)
  BY <1>2 DEF Storing
<1>7. TimeSlot(s)'
  BY <1>3, <1>5, <1>6 DEF TimeSlot
<1> QED
  BY <1>2, <1>3, <1>4, <1>5, <1>7, ClientTime DEF MaybeSlot

LEMMA ServerReadTime ==
  ASSUME NodeInv, NodeNext, InTime, ServerRead
  PROVE  \A u \in SlotIds : TimeSlot(u)'
<1>1. PICK s : s = server.slot
  OBVIOUS
<1>2. server.at = "read" /\ UNCHANGED <<client, router>>
  BY ServerReadIs
<1>3. s \in SlotIds /\ server.slot = s /\ ServerHas(s) /\ conn[s].open /\ TimeSlot(s)
  BY <1>1, <1>2, ServerFacts DEF InTime, TimeSlot
<1>4. server'.slot = s /\ server'.at = "event" /\ ServerHas(s)'
  BY <1>1, ServerReadIs DEF ServerIs, ServerHas
<1>5. /\ \A u \in SlotIds : u # s => conn'[u] = conn[u] /\ Queued(u)' = Queued(u)
      /\ conn'[s].events = conn[s].events - 1 /\ conn'[s].open
      /\ Queued(s)' = Queued(s)
  BY <1>1, <1>3, ServerReadIs DEF Becomes
<1>6. Stored(s)' = Stored(s) /\ Taking(s) = 0 /\ Taking(s)' = 1
  BY <1>2, <1>3, <1>4, TakingIs DEF Stored
<1>7. Count(s)' = Count(s)
  BY <1>3, <1>5, CountSame
<1>8. TimeSlot(s)'
  BY <1>3, <1>5, <1>6, <1>7, NumberTypes, TimeOpen
<1> QED
  BY <1>2, <1>3, <1>4, <1>5, <1>8, ServerTime

LEMMA ServerTimeoutTime ==
  ASSUME NodeInv, NodeNext, InTime, ServerTimeout
  PROVE  \A u \in SlotIds : TimeSlot(u)'
<1>1. PICK s : s = server.slot
  OBVIOUS
<1>2. server.at = "read" /\ UNCHANGED <<client, router>>
  BY ServerTimeoutIs
<1>3. s \in SlotIds /\ server.slot = s /\ ServerHas(s) /\ conn[s].open /\ TimeSlot(s)
  BY <1>1, <1>2, ServerFacts DEF InTime, TimeSlot
<1>4. server'.slot = s /\ server'.at = "close" /\ ServerHas(s)'
  BY <1>1, ServerTimeoutIs DEF ServerIs, ServerHas
<1>5. /\ \A u \in SlotIds : u # s => conn'[u] = conn[u] /\ Queued(u)' = Queued(u)
      /\ conn'[s].events = conn[s].events /\ conn'[s].open
      /\ Queued(s)' = Queued(s)
  BY <1>1, <1>3, ServerTimeoutIs DEF Becomes
<1>6. Stored(s)' = Stored(s) /\ Taking(s) = 0 /\ Taking(s)' = 0
  BY <1>2, <1>3, <1>4, TakingIs DEF Stored
<1>7. Count(s)' = Count(s)
  BY <1>3, <1>5, CountSame
<1>8. TimeSlot(s)'
  BY <1>3, <1>5, <1>6, <1>7, NumberTypes, TimeOpen
<1> QED
  BY <1>2, <1>3, <1>4, <1>5, <1>8, ServerTime

LEMMA ServeTime ==
  ASSUME NodeInv, NodeNext, InTime, Serve
  PROVE  \A u \in SlotIds : TimeSlot(u)'
<1>1. PICK s : s = server.slot
  OBVIOUS
<1>2. server.at = "serve" /\ UNCHANGED <<client, router>>
  BY ServeIs
<1>3. s \in SlotIds /\ server.slot = s /\ ServerHas(s) /\ conn[s].open /\ TimeSlot(s)
  BY <1>1, <1>2, ServerFacts DEF InTime, TimeSlot
<1>4. server'.slot = s /\ server'.at \in {"replied", "read"} /\ ServerHas(s)'
  BY <1>1, ServeIs DEF ServerIs, ServerHas
<1>5. /\ \A u \in SlotIds : u # s => conn'[u] = conn[u] /\ Queued(u)' = Queued(u)
      /\ conn'[s].events = conn[s].events /\ conn'[s].open
      /\ Queued(s)' = Queued(s)
  BY <1>1, <1>3, ServeIs DEF Becomes
<1>6. Stored(s)' = Stored(s) /\ Taking(s) = 0 /\ Taking(s)' = 0
  BY <1>2, <1>3, <1>4, TakingIs DEF Stored
<1>7. Count(s)' = Count(s)
  BY <1>3, <1>5, CountSame
<1>8. TimeSlot(s)'
  BY <1>3, <1>5, <1>6, <1>7, NumberTypes, TimeOpen
<1> QED
  BY <1>2, <1>3, <1>4, <1>5, <1>8, ServerTime

LEMMA ServerSendEventTime ==
  ASSUME NodeInv, NodeNext, InTime, ServerSendEvent
  PROVE  \A u \in SlotIds : TimeSlot(u)'
<1>1. PICK s : s = server.slot
  OBVIOUS
<1>2. server.at = "replied" /\ UNCHANGED <<client, router>>
  BY ServerSendEventIs
<1>3. s \in SlotIds /\ server.slot = s /\ ServerHas(s) /\ conn[s].open /\ TimeSlot(s)
  BY <1>1, <1>2, ServerFacts DEF InTime, TimeSlot
<1>4. server'.slot = s /\ server'.at = "read" /\ ServerHas(s)'
  BY <1>1, ServerSendEventIs DEF ServerIs, ServerHas
<1>5. /\ \A u \in SlotIds : u # s => conn'[u] = conn[u] /\ Queued(u)' = Queued(u)
      /\ conn'[s].events = conn[s].events /\ conn'[s].open
      /\ Queued(s)' = Queued(s)
  BY <1>1, <1>3, ServerSendEventIs DEF Becomes
<1>6. Stored(s)' = Stored(s) /\ Taking(s) = 0 /\ Taking(s)' = 0
  BY <1>2, <1>3, <1>4, TakingIs DEF Stored
<1>7. Count(s)' = Count(s)
  BY <1>3, <1>5, CountSame
<1>8. TimeSlot(s)'
  BY <1>3, <1>5, <1>6, <1>7, NumberTypes, TimeOpen
<1> QED
  BY <1>2, <1>3, <1>4, <1>5, <1>8, ServerTime

LEMMA ServerReadPacketTime ==
  ASSUME NodeInv, NodeNext, InTime, ServerReadPacket
  PROVE  \A u \in SlotIds : TimeSlot(u)'
<1>1. PICK s : s = server.slot
  OBVIOUS
<1>2. server.at = "event" /\ UNCHANGED <<client, router>>
  BY ServerReadPacketIs
<1>3. s \in SlotIds /\ server.slot = s /\ ServerHas(s) /\ conn[s].open /\ TimeSlot(s)
  BY <1>1, <1>2, ServerFacts DEF InTime, TimeSlot
<1>4. server'.slot = s /\ server'.at \in {"serve", "close"} /\ ServerHas(s)'
  BY <1>1, ServerReadPacketIs DEF ServerIs, ServerHas
<1>5. /\ \A u \in SlotIds : u # s => conn'[u] = conn[u] /\ Queued(u)' = Queued(u)
      /\ conn'[s].events = conn[s].events /\ conn'[s].open
      /\ Queued(s)' = Queued(s) \/ \E b \in Queued(s) : Queued(s)' = Queued(s) \ {b}
  BY <1>1, <1>3, ServerReadPacketIs DEF Becomes
<1>6. Stored(s)' = Stored(s) /\ Taking(s) = 1 /\ Taking(s)' = 0
  BY <1>2, <1>3, <1>4, TakingIs DEF Stored
<1>7. Count(s)' = Count(s) \/ Count(s)' = Count(s) - 1
  BY <1>3, <1>5, Unpack, CountIs, FS_RemoveElement DEF Count
<1>8. TimeSlot(s)'
  BY <1>3, <1>5, <1>6, <1>7, NumberTypes, TimeOpen
<1> QED
  BY <1>2, <1>3, <1>4, <1>5, <1>8, ServerTime

LEMMA AcceptTime ==
  ASSUME NodeInv, NodeNext, InTime, Accept
  PROVE  \A u \in SlotIds : TimeSlot(u)'
<1>1. /\ server.at = "accept" /\ server.slot = None /\ UNCHANGED <<conn, client, router>>
      /\ \A u \in SlotIds : Queued(u)' = Queued(u)
  BY AcceptIs, ServerFacts
<1>2. PICK s \in SlotIds : s \in Elems(accepting) /\ ServerIs("read", s, None)
  BY AcceptIs
<1>3. server'.slot = s /\ server'.at = "read" /\ ServerHas(s)'
  BY <1>2 DEF ServerIs, ServerHas
<1>4. Storing(s)' = Storing(s) /\ Stored(s)' = Stored(s) /\ Taking(s) = 0 /\ Taking(s)' = 0
  BY <1>1, <1>2, <1>3, TakingIs DEF Storing, Stored
<1>5. TimeSlot(s)'
  BY <1>1, <1>2, <1>4, TimeSame
<1> QED
  BY <1>1, <1>2, <1>3, <1>5, ServerTime


LEMMA RouterReadTime ==
  ASSUME NodeInv, NodeNext, InTime, RouterRead
  PROVE  \A u \in SlotIds : TimeSlot(u)'
<1>1. /\ router.at = "wait" /\ router'.slot = None /\ UNCHANGED <<conn, client, server>>
      /\ \A u \in SlotIds : Queued(u)' = Queued(u)
  BY RouterReadIs DEF RouterIs
<1>2. router.slot = None /\ None \in MaybeSlot /\ None \notin SlotIds
  BY <1>1, RouterFacts, SlotIdsType DEF MaybeSlot
<1> QED
  BY <1>1, <1>2, RouterTime

LEMMA RouterFindTime ==
  ASSUME NodeInv, NodeNext, InTime, RouterFind
  PROVE  \A u \in SlotIds : TimeSlot(u)'
<1>1. router.at = "find" /\ router.slot = None /\ UNCHANGED <<client, server>>
  BY RouterFindIs
<1>2. \A u \in SlotIds : Storing(u) = 0 /\ Stored(u) = 0 /\ Taking(u)' = Taking(u) /\ TimeSlot(u)
  BY <1>1 DEF Storing, Stored, Taking, InTime, TimeSlot
<1>3. ASSUME NEW s \in SlotIds, conn[s].open, RouterIs("put", s, router.buf),
             conn' = conn, \A u \in SlotIds : Queued(u)' = Queued(u)
      PROVE  \A u \in SlotIds : TimeSlot(u)'
  <2>1. router'.slot = s /\ router'.at = "put"
    BY <1>3 DEF RouterIs
  <2>2. Stored(s)' = 0 /\ Count(s)' = Count(s) /\ Stored(s) = 0 /\ Taking(s)' = Taking(s)
    BY <1>2, <1>3, <2>1, CountSame DEF Stored
  <2>3. TimeSlot(s)'
    BY <1>2, <1>3, <2>2, NumberTypes, TimeOpen
  <2> QED
    BY <1>1, <1>3, <2>1, <2>3, RouterTime DEF MaybeSlot
<1>4. ASSUME NEW s \in SlotIds, ~conn[s].open, RouterIs("new", s, router.buf),
             Becomes(s, TRUE, content[router.buf].id, FALSE, conn[s].events, Queued(s))
      PROVE  \A u \in SlotIds : TimeSlot(u)'
  <2>1. router'.slot = s /\ router'.at = "new"
    BY <1>4 DEF RouterIs
  <2>2. /\ \A u \in SlotIds : u # s => conn'[u] = conn[u] /\ Queued(u)' = Queued(u)
        /\ conn'[s].events = conn[s].events /\ conn'[s].open
    BY <1>4 DEF Becomes
  <2>3. Stored(s)' = 0
    BY <2>1 DEF Stored
  <2>4. Taking(s)' = 0
    <3>1. ~ServerHas(s) /\ \A c \in Clients : ~ClientHas(c, s)
      BY <1>4, Unpack, OneOwner
    <3> QED
      BY <1>2, <3>1 DEF Taking, ServerHas, ClientHas
  <2>5. TimeSlot(s)'
    BY <1>2, <1>4, <2>2, <2>3, <2>4, TimeOpened
  <2> QED
    BY <1>1, <2>1, <2>2, <2>5, RouterTime DEF MaybeSlot
<1>5. ASSUME RouterIs("wait", None, None), conn' = conn, \A u \in SlotIds : Queued(u)' = Queued(u)
      PROVE  \A u \in SlotIds : TimeSlot(u)'
  <2>1. router'.slot = None /\ None \in MaybeSlot /\ None \notin SlotIds
    BY <1>5, SlotIdsType DEF RouterIs, MaybeSlot
  <2> QED
    BY <1>1, <1>5, <2>1, RouterTime
<1> QED
  BY <1>3, <1>4, <1>5, RouterFindIs

LEMMA RouterFlushPacketsTime ==
  ASSUME NodeInv, NodeNext, InTime, RouterFlushPackets
  PROVE  \A u \in SlotIds : TimeSlot(u)'
<1>1. PICK s : s = router.slot
  OBVIOUS
<1>2. router.at = "new" /\ UNCHANGED <<client, server>>
  BY RouterFlushPacketsIs
<1>3. s \in SlotIds /\ conn[s].open /\ Queued(s) = {} /\ TimeSlot(s)
  BY <1>1, <1>2, RouterFacts DEF InTime, TimeSlot
<1>4. router'.slot = s /\ router'.at = "flushed"
  BY <1>1, RouterFlushPacketsIs DEF RouterIs
<1>5. /\ \A u \in SlotIds : u # s => conn'[u] = conn[u] /\ Queued(u)' = Queued(u)
      /\ conn'[s].events = conn[s].events /\ conn'[s].open /\ Queued(s)' = {}
  BY <1>1, <1>3, RouterFlushPacketsIs DEF Becomes
<1>6. Stored(s)' = 0 /\ Stored(s) = 0 /\ Taking(s)' = Taking(s) /\ Count(s)' = Count(s)
  BY <1>1, <1>2, <1>3, <1>4, <1>5, CountSame DEF Stored, Taking
<1>7. TimeSlot(s)'
  BY <1>3, <1>5, <1>6, NumberTypes, TimeOpen
<1> QED
  BY <1>1, <1>2, <1>3, <1>4, <1>5, <1>7, RouterTime DEF MaybeSlot

LEMMA RouterFlushEventsTime ==
  ASSUME NodeInv, NodeNext, InTime, RouterFlushEvents
  PROVE  \A u \in SlotIds : TimeSlot(u)'
<1>1. PICK s : s = router.slot
  OBVIOUS
<1>2. router.at = "flushed" /\ UNCHANGED <<client, server>>
  BY RouterFlushEventsIs
<1>3. s \in SlotIds /\ conn[s].open /\ TimeSlot(s)
  BY <1>1, <1>2, RouterFacts DEF InTime, TimeSlot
<1>4. router'.slot = s /\ router'.at = "put"
  BY <1>1, RouterFlushEventsIs DEF RouterIs
<1>5. /\ \A u \in SlotIds : u # s => conn'[u] = conn[u] /\ Queued(u)' = Queued(u)
      /\ conn'[s].events = 0 /\ conn'[s].open /\ Queued(s)' = Queued(s)
  BY <1>1, <1>3, RouterFlushEventsIs DEF Becomes
<1>6. Stored(s)' = 0 /\ Stored(s) = 0 /\ Taking(s)' = Taking(s) /\ Count(s)' = Count(s)
  BY <1>1, <1>2, <1>3, <1>4, <1>5, CountSame DEF Stored, Taking
<1>7. TimeSlot(s)'
  BY <1>3, <1>5, <1>6, NumberTypes, TimeOpen
<1> QED
  BY <1>1, <1>2, <1>3, <1>4, <1>5, <1>7, RouterTime DEF MaybeSlot

LEMMA RouterPutTime ==
  ASSUME NodeInv, NodeNext, InTime, RouterPut
  PROVE  \A u \in SlotIds : TimeSlot(u)'
<1>1. PICK s, b : s = router.slot /\ b = router.buf
  OBVIOUS
<1>2. /\ router.at = "put" /\ s \in SlotIds /\ b \notin Queued(s)
      /\ UNCHANGED <<client, server>>
  BY <1>1, RouterPutIs
<1>3. Storing(s) = 1 /\ TimeSlot(s)
  BY <1>1, <1>2 DEF InTime, TimeSlot, Storing
<1>4. conn[s].open
  BY <1>3 DEF TimeSlot
<1>5. router'.slot = s /\ router'.at = "event"
  BY <1>1, RouterPutIs DEF RouterIs
<1>6. /\ \A u \in SlotIds : u # s => conn'[u] = conn[u] /\ Queued(u)' = Queued(u)
      /\ conn'[s].events = conn[s].events /\ conn'[s].open
      /\ Queued(s)' = Queued(s) \cup {b}
  BY <1>1, <1>2, <1>4, RouterPutIs DEF Becomes
<1>7. Stored(s)' = 1 /\ Stored(s) = 0 /\ Taking(s)' = Taking(s)
  BY <1>1, <1>2, <1>5 DEF Stored, Taking
<1>8. Count(s)' = Count(s) + 1
  BY <1>2, <1>6, Unpack, CountIs, FS_AddElement, ZenonT(60) DEF Count
<1>9. TimeSlot(s)'
  BY <1>2, <1>3, <1>4, <1>6, <1>7, <1>8, NumberTypes, TimeOpen
<1> QED
  BY <1>1, <1>2, <1>5, <1>6, <1>9, RouterTime DEF MaybeSlot

LEMMA RouterEventTime ==
  ASSUME NodeInv, NodeNext, InTime, RouterEvent
  PROVE  \A u \in SlotIds : TimeSlot(u)'
<1>1. PICK s : s = router.slot
  OBVIOUS
<1>2. router.at = "event" /\ s \in SlotIds /\ UNCHANGED <<client, server>>
  BY <1>1, RouterEventIs
<1>3. Storing(s) = 1 /\ TimeSlot(s)
  BY <1>1, <1>2 DEF InTime, TimeSlot, Storing
<1>4. conn[s].open
  BY <1>3 DEF TimeSlot
<1>5. router'.slot = s /\ router'.at = "post"
  BY <1>1, RouterEventIs DEF RouterIs
<1>6. /\ \A u \in SlotIds : u # s => conn'[u] = conn[u] /\ Queued(u)' = Queued(u)
      /\ conn'[s].events = conn[s].events + 1 /\ conn'[s].open
      /\ Queued(s)' = Queued(s)
  BY <1>1, <1>2, <1>4, RouterEventIs DEF Becomes
<1>7. Stored(s)' = 0 /\ Stored(s) = 1 /\ Taking(s)' = Taking(s) /\ Count(s)' = Count(s)
  BY <1>1, <1>2, <1>5, <1>6, CountSame DEF Stored, Taking
<1>8. TimeSlot(s)'
  BY <1>2, <1>3, <1>4, <1>6, <1>7, NumberTypes, TimeOpen
<1> QED
  BY <1>1, <1>2, <1>5, <1>6, <1>8, RouterTime DEF MaybeSlot

LEMMA RouterPostTime ==
  ASSUME NodeInv, NodeNext, InTime, RouterPost
  PROVE  \A u \in SlotIds : TimeSlot(u)'
<1>1. PICK s : s = router.slot
  OBVIOUS
<1>2. /\ router.at = "post" /\ s \in SlotIds /\ UNCHANGED <<client, server>>
      /\ router'.slot = None /\ router'.at = "wait" /\ TimeSlot(s)
  BY <1>1, RouterPostIs DEF RouterIs, InTime, TimeSlot
<1>3. Storing(s) = 0 /\ Storing(s)' = 0 /\ Stored(s) = 0 /\ Stored(s)' = 0 /\ Taking(s)' = Taking(s)
  BY <1>2 DEF Storing, Stored, Taking
<1>4. CASE conn' = conn /\ \A u \in SlotIds : Queued(u)' = Queued(u)
  <2>1. TimeSlot(s)'
    BY <1>2, <1>3, <1>4, TimeSame
  <2> QED
    BY <1>1, <1>2, <1>4, <2>1, RouterTime DEF MaybeSlot
<1>5. CASE Becomes(s, conn[s].open, conn[s].id, FALSE, conn[s].events, Queued(s))
  <2>1. /\ \A u \in SlotIds : u # s => conn'[u] = conn[u] /\ Queued(u)' = Queued(u)
        /\ conn'[s].events = conn[s].events /\ (conn'[s].open <=> conn[s].open)
        /\ Queued(s)' = Queued(s) /\ Count(s)' = Count(s)
    BY <1>2, <1>5, CountSame DEF Becomes
  <2>2. TimeSlot(s)'
    BY <1>2, <1>3, <2>1 DEF TimeSlot, Debt
  <2> QED
    BY <1>1, <1>2, <2>1, <2>2, RouterTime DEF MaybeSlot
<1>6. CASE Becomes(s, FALSE, conn[s].id, conn[s].post, 0, {})
  <2>1. /\ \A u \in SlotIds : u # s => conn'[u] = conn[u] /\ Queued(u)' = Queued(u)
        /\ conn'[s].events = 0 /\ ~conn'[s].open /\ Queued(s)' = {}
    BY <1>2, <1>6 DEF Becomes
  <2>2. TimeSlot(s)'
    BY <1>3, <2>1 DEF TimeSlot
  <2> QED
    BY <1>1, <1>2, <2>1, <2>2, RouterTime DEF MaybeSlot
<1> QED
  BY <1>1, <1>4, <1>5, <1>6, RouterPostIs

LEMMA TimeSlots ==
  ASSUME NodeInv, NodeNext, InTime
  PROVE  \A u \in SlotIds : TimeSlot(u)'
<1>1. ASSUME NEW c \in Clients, ClientNext(c) PROVE \A u \in SlotIds : TimeSlot(u)'
  BY <1>1, ConnectTime, ClientFlushPacketsTime, ClientFlushEventsTime, ClientSendTime,
     ClientSendEventTime, ClientReadTime, ClientTimeoutTime, ClientReadPacketTime,
     ClientCloseTime, ClientCloseEndsTime DEF ClientNext
<1>2. ASSUME RouterNext PROVE \A u \in SlotIds : TimeSlot(u)'
  BY <1>2, RouterReadTime, RouterFindTime, RouterFlushPacketsTime, RouterFlushEventsTime,
     RouterPutTime, RouterEventTime, RouterPostTime DEF RouterNext
<1>3. ASSUME ServerNext PROVE \A u \in SlotIds : TimeSlot(u)'
  <2>1. ~ServerClose /\ ~ServerCloseEnds
    BY DEF InTime, ServerClose, ServerCloseEnds
  <2> QED
    BY <1>3, <2>1, AcceptTime, ServerReadTime, ServerTimeoutTime, ServerReadPacketTime,
       ServeTime, ServerSendEventTime DEF ServerNext
<1> QED
  BY <1>1, <1>2, <1>3 DEF NodeNext


LEMMA NoTimeoutStep ==
  ASSUME NodeInv, NodeNext
  PROVE  NoTimeout'
<1> SUFFICES ASSUME ~timedOut' PROVE InTime'
  BY DEF NoTimeout
<1>1. ~timedOut
  BY DEF NodeNext, ClientNext, RouterNext, ServerNext, Connect, ClientFlushPackets,
     ClientFlushEvents, ClientSend, ClientSendEvent, ClientRead, ClientTimeout,
     ClientReadPacket, ClientClose, ClientCloseEnds, RouterRead, RouterFind,
     RouterFlushPackets, RouterFlushEvents, RouterPut, RouterEvent, RouterPost, Accept,
     ServerRead, ServerTimeout, ServerReadPacket, Serve, ServerSendEvent, ServerClose,
     ServerCloseEnds
<1>2. InTime
  BY <1>1, Unpack DEF NoTimeout
<1>3. /\ \A b \in Used' : ~Over(content[b].call)'
      /\ \A b, x \in Used' : content'[b].call[1] = content'[x].call[1] => b = x
      /\ \A c \in Clients : HasNone(c)' => \A b \in Used' : content'[b].call[1] # c
  BY <1>2, TimePackets
<1>4. \A s \in SlotIds : TimeSlot(s)'
  BY <1>2, TimeSlots
<1>5. /\ router'.at = "put" => conn'[router'.slot].id = content'[router'.buf].id
      /\ router'.at \in {"new", "flushed"} => Queued(router.slot)' = {}
  BY <1>2, TimeRouter
<1>6. \A b \in Used' : ~content'[b].reply =>
        /\ \A c \in Clients : client'[c].buf # b
        /\ \A s \in SlotIds : b \in Queued(s)' => ServerSide(s)'
  BY <1>2, TimeRequests
<1>7. server'.at \notin {"close", "closing"}
  BY <1>2, TimeServer
<1>8. /\ \A s \in SlotIds : ~conn'[s].open => conn'[s].events = 0 /\ Storing(s)' = 0 /\ Queued(s)' = {}
      /\ \A s \in SlotIds : conn'[s].open => Debt(s)' <= Count(s)'
  BY <1>4 DEF TimeSlot
<1> QED
  BY <1>3, <1>5, <1>6, <1>7, <1>8 DEF InTime

----------------------------------------------------------------------------
\* The invariant of all behaviours

LEMMA NodeInvStep ==
  ASSUME NodeInv, NodeNext
  PROVE  NodeInv'
<1>1. TypeInv' /\ Queues' /\ Locks' /\ Flags' /\ Owned' /\ Held'
  BY TypeStep, LocksStep, FlagsStep, OwnedStep, HeldStep
<1>2. Bounds' /\ FifoWakes' /\ ConnIds' /\ PacketIds' /\ Mine' /\ NoTimeout'
  BY BoundsStep, FifoWakesStep, ConnIdsStep, PacketIdsStep, MineStep, NoTimeoutStep
<1> QED
  BY <1>1, <1>2 DEF NodeInv, Storage

LEMMA NodeInvStutters ==
  ASSUME NodeInv, UNCHANGED nodeVars
  PROVE  NodeInv'
<1>1. /\ UNCHANGED <<free, content, qfifo, qfifoEvents, conn, lastGiven>>
      /\ UNCHANGED <<sport, client, server, router, accepting, timedOut>>
  BY DEF nodeVars
<1>2. TypeInv'
  BY <1>1, Unpack DEF TypeInv, PoolType, ConnType, TaskType, Shape
<1>3. Locks' /\ Flags' /\ Queues'
  BY <1>1, Unpack DEF Locks, Flags, Queues, All
<1>4. Owned'
  BY <1>1, Unpack DEF Owned, OwnedBy, ServerHas, ClientHas, RouterOwns
<1>5. Held'
  BY <1>1, Unpack DEF Held, HeldAt, Queued, InFifo
<1>6. Bounds'
  <2>1. ASSUME NEW s \in SlotIds
        PROVE  /\ Queued(s)' = Queued(s) /\ Storing(s)' = Storing(s) /\ Debt(s)' = Debt(s)
               /\ Count(s)' = Count(s) /\ InFlight(s)' = InFlight(s)
    <3>1. Queued(s)' = Queued(s)
      BY <1>1 DEF Queued
    <3> QED
      BY <1>1, <3>1 DEF Storing, Stored, Taking, Debt, Count, InFlight, Used
  <2>2. \A s \in SlotIds :
          /\ Vacant(s)' <=> Vacant(s)
          /\ ServerHas(s)' <=> ServerHas(s)
          /\ RouterOwns(s)' <=> RouterOwns(s)
          /\ \A c \in Clients : (Opening(c, s)' <=> Opening(c, s)) /\ (Working(c, s)' <=> Working(c, s))
    BY <1>1 DEF Vacant, ServerHas, RouterOwns, Opening, Working
  <2> SUFFICES ASSUME NEW s \in SlotIds PROVE SlotBounds(s)'
    BY DEF Bounds
  <2>3. SlotBounds(s)
    BY Unpack DEF Bounds
  <2> QED
    BY <1>1, <2>1, <2>2, <2>3 DEF SlotBounds
<1>7. FifoWakes'
  BY <1>1, Unpack DEF FifoWakes, Writing
<1>8. ConnIds' /\ PacketIds'
  BY <1>1, Unpack DEF ConnIds, PacketIds, PacketOK, ClientHas, ServerSide, ServerHas, RouterOwns,
     Used, Queued
<1>9. Mine'
  <2>1. Used' = Used /\ \A s \in SlotIds : Queued(s)' = Queued(s)
    BY <1>1 DEF Used, Queued
  <2> SUFFICES ASSUME NEW b \in Used, ~Over(content[b].call)' PROVE Hers(b, content[b].call[1])'
    BY <2>1 DEF Mine
  <2>2. ~Over(content[b].call)
    BY <1>1 DEF Over
  <2>3. Hers(b, content[b].call[1])
    BY <2>2, Unpack DEF Mine
  <2> QED
    BY <1>1, <2>1, <2>3 DEF Hers
<1>10. NoTimeout'
  <2> SUFFICES ASSUME InTime PROVE InTime'
    BY <1>1, Unpack DEF NoTimeout
  <2>1. \A s \in SlotIds : TimeSlot(s)'
    <3> SUFFICES ASSUME NEW s \in SlotIds PROVE TimeSlot(s)'
      OBVIOUS
    <3> QED
      BY <1>1, TimeSame DEF Queued, Storing, Stored, Taking
  <2>2. /\ \A b \in Used : Over(content[b].call)' <=> Over(content[b].call)
        /\ \A c \in Clients : HasNone(c)' <=> HasNone(c)
        /\ \A s \in SlotIds : (ServerSide(s)' <=> ServerSide(s)) /\ Queued(s)' = Queued(s)
        /\ Used' = Used
    BY <1>1 DEF Over, HasNone, ServerSide, ServerHas, RouterOwns, Queued, Used
  <2>3. router.at \in {"new", "flushed"} => Queued(router.slot)' = {}
    BY <1>1 DEF Queued, InTime
  <2>4. /\ \A s \in SlotIds : ~conn'[s].open => conn'[s].events = 0 /\ Storing(s)' = 0 /\ Queued(s)' = {}
        /\ \A s \in SlotIds : conn'[s].open => Debt(s)' <= Count(s)'
    BY <2>1 DEF TimeSlot
  <2> QED
    BY <1>1, <2>2, <2>3, <2>4 DEF InTime
<1> QED
  BY <1>2, <1>3, <1>4, <1>5, <1>6, <1>7, <1>8, <1>9, <1>10 DEF NodeInv, Storage


LEMMA NodeInitInv ==
  ASSUME NodeInit
  PROVE  NodeInv
<1>1. /\ free = Buffers /\ qfifo = [p \in Prios |-> <<>>] /\ qfifoEvents = 0
      /\ content = [b \in Buffers |-> [id |-> NoId, pri |-> 0, call |-> NoId, reply |-> FALSE]]
      /\ lastGiven = Socket /\ sport = ServerPort + 1 /\ accepting = <<>> /\ timedOut = FALSE
      /\ client = [c \in Clients |-> [at |-> "idle", call |-> 0, slot |-> None, buf |-> None]]
      /\ server.at = "accept" /\ server.slot = None /\ server.buf = None
      /\ router.at = "wait" /\ router.slot = None /\ router.buf = None
      /\ server = [at |-> "accept", slot |-> None, buf |-> None]
      /\ router = [at |-> "wait", slot |-> None, buf |-> None]
  BY DEF NodeInit
<1>2. \A s \in SlotIds : /\ conn[s].open <=> s = Socket
                         /\ conn[s].client <=> s # Socket
                         /\ ~conn[s].post /\ conn[s].id = NoId
                         /\ conn[s].rx = [p \in Prios |-> <<>>] /\ conn[s].events = 0
  BY DEF NodeInit, Closed
<1>3. Socket \in SlotIds /\ None \notin SlotIds /\ None \in MaybeSlot /\ None \in MaybeBuffer
  BY SlotIdsType DEF MaybeSlot, MaybeBuffer
<1>4. None \notin Buffers /\ ServerPort \in Nat
  BY BuffersFinite, NodeAssumption DEF None
<1>5. \A c \in Clients : client[c].at = "idle" /\ client[c].slot = None /\ client[c].buf = None
  BY <1>1
<1>6. Used = {} /\ InFifo = {} /\ \A s \in SlotIds : Queued(s) = {} /\ Count(s) = 0
  <2>1. Used = {} /\ InFifo = {}
    BY <1>1 DEF Used, InFifo, All, Elems
  <2>2. \A s \in SlotIds : Queued(s) = {}
    BY <1>2 DEF Queued
  <2> QED
    BY <2>1, <2>2, FS_EmptySet DEF Count
<1>7. Elems(accepting) = {}
  BY <1>1 DEF Elems
<1>8. \A s \in SlotIds : /\ ~ServerHas(s) /\ ~RouterOwns(s) /\ ~ServerSide(s)
                         /\ \A c \in Clients : ~ClientHas(c, s)
                         /\ Storing(s) = 0 /\ Debt(s) = 0
  BY <1>1, <1>2, <1>3, <1>5, <1>7
     DEF ServerHas, RouterOwns, ServerSide, ClientHas, Storing, Debt, Stored, Taking
<1>9. TypeInv
  <2>1. \A b \in Buffers : content[b] \in Packet
    BY <1>1 DEF Packet, NoId
  <2>2. PoolType
    <3>1. content \in [Buffers -> Packet]
      BY <1>1, <2>1
    <3>2. qfifo \in [Prios -> Seq(Buffers)]
      BY <1>1
    <3> QED
      BY <1>1, <3>1, <3>2 DEF PoolType
  <2>3. conn \in [SlotIds -> Conn]
    <3>1. [p \in Prios |-> <<>>] \in [Prios -> Seq(Buffers)]
      OBVIOUS
    <3> QED
      BY <3>1 DEF NodeInit, Closed, Conn, NoId
  <2>4. ConnType
    BY <1>1, <1>3, <2>3 DEF ConnType
  <2>5. TaskType
    <3>1. client \in [Clients -> Client]
      BY <1>1, <1>3 DEF Client, ClientAts
    <3>2. server \in [at : ServerAts, slot : MaybeSlot, buf : MaybeBuffer]
      BY <1>1, <1>3 DEF ServerAts
    <3>3. router \in [at : RouterAts, slot : MaybeSlot, buf : MaybeBuffer]
      BY <1>1, <1>3 DEF RouterAts
    <3>4. sport \in Nat
      <4>1. sport = ServerPort + 1
        BY <1>1
      <4> QED
        BY <1>4, <4>1
    <3>5. timedOut \in BOOLEAN
      <4>1. timedOut = FALSE
        BY <1>1
      <4> QED
        BY <4>1
    <3> QED
      BY <3>1, <3>2, <3>3, <3>4, <3>5 DEF TaskType
  <2>6. Shape
    BY <1>1, <1>5 DEF Shape
  <2> QED
    BY <2>2, <2>4, <2>5, <2>6 DEF TypeInv
<1>10. Locks /\ Flags
  BY <1>1, <1>2, <1>3, <1>5 DEF Locks, Flags
<1>11. Queues
  <2>1. NoRepeat(accepting) /\ Apart(qfifo)
    BY <1>1 DEF NoRepeat, Apart, Elems
  <2>2. \A s \in SlotIds : Apart(conn[s].rx)
    BY <1>2 DEF NoRepeat, Apart, Elems
  <2> QED
    BY <2>1, <2>2 DEF Queues
<1>12. Owned
  <2> SUFFICES ASSUME NEW s \in SlotIds PROVE \E x \in Tags : OwnedBy(s, x)
    BY DEF Owned
  <2>1. CASE s = Socket
    <3>1. <<"socket", 0>> \in Tags
      BY DEF Tags
    <3>2. OwnedBy(s, <<"socket", 0>>)
      BY <1>2, <1>7, <1>8, <2>1 DEF OwnedBy
    <3> QED
      BY <3>1, <3>2
  <2>2. CASE s # Socket
    <3>1. <<"nobody", 0>> \in Tags
      BY DEF Tags
    <3>2. OwnedBy(s, <<"nobody", 0>>)
      BY <1>2, <1>7, <1>8, <2>2 DEF OwnedBy
    <3> QED
      BY <3>1, <3>2
  <2> QED
    BY <2>1, <2>2
<1>13. Held
  <2> SUFFICES ASSUME NEW b \in Buffers PROVE \E x \in Spots : HeldAt(b, x)
    BY DEF Held
  <2>1. <<"free", 0>> \in Spots
    BY DEF Spots
  <2>2. HeldAt(b, <<"free", 0>>)
    BY <1>1, <1>4, <1>5, <1>6 DEF HeldAt
  <2> QED
    BY <2>1, <2>2
<1>14. Bounds
  <2> SUFFICES ASSUME NEW s \in SlotIds PROVE SlotBounds(s)
    BY DEF Bounds
  <2>1. \A c \in Clients : ~Opening(c, s) /\ ~Working(c, s)
    BY <1>3, <1>5 DEF Opening, Working
  <2>2. conn[s].events + Storing(s) = 0 /\ NumBuffers \in Nat
    BY <1>2, <1>8, BuffersFinite DEF NumBuffers
  <2> QED
    BY <1>2, <1>6, <1>7, <1>8, <2>1, <2>2 DEF SlotBounds
<1>15. FifoWakes
  <2>1. Writing = {}
    BY <1>5 DEF Writing
  <2>2. {b \in Buffers : \E p \in Prios : Indices(qfifo[p], b) # {}} = {}
    BY <1>1 DEF Indices
  <2>3. Cardinality({b \in Buffers : \E p \in Prios : Indices(qfifo[p], b) # {}}) = 0
    BY <2>2, FS_EmptySet
  <2>4. Cardinality(Writing) = 0
    BY <2>1, FS_EmptySet
  <2> QED
    BY <1>1, <2>3, <2>4 DEF FifoWakes
<1>16. ConnIds
  BY <1>8 DEF ConnIds
<1>17. PacketIds
  BY <1>1, <1>6, <1>8 DEF PacketIds
<1>18. Mine /\ NoTimeout
  <2>1. InTime
    BY <1>1, <1>2, <1>6, <1>8 DEF InTime
  <2> QED
    BY <1>6, <2>1 DEF Mine, NoTimeout
<1> QED
  BY <1>9, <1>10, <1>11, <1>12, <1>13, <1>14, <1>15, <1>16, <1>17, <1>18 DEF NodeInv, Storage

\* NodeInv is an invariant of the node.
THEOREM NodeInvCorrect == NodeSpec => []NodeInv
<1>1. NodeInv /\ [NodeNext]_nodeVars => NodeInv'
  BY NodeInvStep, NodeInvStutters
<1> QED
  BY <1>1, NodeInitInv, PTL DEF NodeSpec


----------------------------------------------------------------------------
\* What follows from the invariant

LEMMA PlacesAre ==
  ASSUME NEW b \in Buffers, NEW y
  PROVE  y \in Places(b) <=>
           \/ b \in free /\ y = <<"free", 0, 0, 0>>
           \/ router.buf = b /\ router.at # "event" /\ y = <<"router", 0, 0, 0>>
           \/ server.buf = b /\ y = <<"server", 0, 0, 0>>
           \/ \E c \in Clients : client[c].buf = b /\ y = <<"client", c, 0, 0>>
           \/ \E p \in Prios : \E i \in Indices(qfifo[p], b) : y = <<"fifo", p, i, 0>>
           \/ \E s \in SlotIds, p \in Prios :
                \E i \in Indices(conn[s].rx[p], b) : y = <<"conn", s, p, i>>
<1> DEFINE F == {<<"free", 0, 0, 0>> : x \in free \cap {b}}
           R == {<<"router", 0, 0, 0>> : x \in IF router.at = "event" THEN {} ELSE {router.buf} \cap {b}}
           S == {<<"server", 0, 0, 0>> : x \in {server.buf} \cap {b}}
           C == {<<"client", c, 0, 0>> : c \in {d \in Clients : client[d].buf = b}}
           Q == UNION {{<<"fifo", p, i, 0>> : i \in Indices(qfifo[p], b)} : p \in Prios}
           In(s, p) == {<<"conn", s, p, i>> : i \in Indices(conn[s].rx[p], b)}
           N == UNION {In(s, p) : s \in SlotIds, p \in Prios}
<1>1. y \in F <=> b \in free /\ y = <<"free", 0, 0, 0>>
  OBVIOUS
<1>2. y \in R <=> router.buf = b /\ router.at # "event" /\ y = <<"router", 0, 0, 0>>
  OBVIOUS
<1>3. y \in S <=> server.buf = b /\ y = <<"server", 0, 0, 0>>
  OBVIOUS
<1>4. y \in C <=> \E c \in Clients : client[c].buf = b /\ y = <<"client", c, 0, 0>>
  OBVIOUS
<1>5. y \in Q <=> \E p \in Prios : \E i \in Indices(qfifo[p], b) : y = <<"fifo", p, i, 0>>
  OBVIOUS
<1>6. y \in N <=> \E s \in SlotIds, p \in Prios : y \in In(s, p)
  <2> HIDE DEF In
  <2> QED
    OBVIOUS
<1>7. \A s, p : y \in In(s, p) <=> \E i \in Indices(conn[s].rx[p], b) : y = <<"conn", s, p, i>>
  OBVIOUS
<1>8. Places(b) = ((((F \cup R) \cup S) \cup C) \cup Q) \cup N
  BY DEF Places
<1> HIDE DEF F, R, S, C, Q, N, In
<1>9. y \in Places(b) <=> y \in F \/ y \in R \/ y \in S \/ y \in C \/ y \in Q \/ y \in N
  BY <1>8
<1> QED
  BY <1>1, <1>2, <1>3, <1>4, <1>5, <1>6, <1>7, <1>9

LEMMA Single ==
  ASSUME NEW S, NEW z, \A y : y \in S <=> y = z
  PROVE  S = {z}
OBVIOUS

\* A packet in a set of queues has one place there.
OneIndex(q, b) ==
  \E p \in Prios : \E i \in Indices(q[p], b) :
    \A r \in Prios : \A j \in Indices(q[r], b) : r = p /\ j = i

LEMMA OneIndexOf ==
  ASSUME NEW q, Apart(q), NEW b \in All(q)
  PROVE  OneIndex(q, b)
<1>1. PICK p \in Prios : \E i \in 1..Len(q[p]) : q[p][i] = b
  BY DEF All, Elems
<1>2. PICK i \in 1..Len(q[p]) : q[p][i] = b
  BY <1>1
<1>3. ASSUME NEW r \in Prios, NEW j \in Indices(q[r], b) PROVE r = p /\ j = i
  <2>1. j \in 1..Len(q[r]) /\ q[r][j] = b
    BY <1>3 DEF Indices
  <2>2. r = p
    BY <1>2, <2>1 DEF Apart, Elems
  <2> QED
    BY <1>2, <2>1, <2>2 DEF Apart, NoRepeat
<1>4. i \in Indices(q[p], b)
  BY <1>2 DEF Indices
<1> QED
  BY <1>3, <1>4 DEF OneIndex

LEMMA NoIndexOf ==
  ASSUME NEW q, NEW b, b \notin All(q)
  PROVE  \A p \in Prios : Indices(q[p], b) = {}
BY DEF All, Elems, Indices

LEMMA HeldOnce == NodeInv => BufferHeldOnce
<1> SUFFICES ASSUME NodeInv, NEW b \in Buffers PROVE \E z : Places(b) = {z}
  BY FS_Singleton DEF BufferHeldOnce
<1>1. PICK x \in Spots : HeldAt(b, x)
  BY Unpack DEF Held
<1>2. /\ b \notin InFifo => \A p \in Prios : Indices(qfifo[p], b) = {}
      /\ \A s \in SlotIds : b \notin Queued(s) => \A p \in Prios : Indices(conn[s].rx[p], b) = {}
  BY QueuedAll, NoIndexOf DEF InFifo
<1>3. \/ x \in {<<"free", 0>>, <<"router", 0>>, <<"server", 0>>, <<"fifo", 0>>}
      \/ \E c \in Clients : x = <<"client", c>>
      \/ \E s \in SlotIds : x = <<"conn", s>>
  BY DEF Spots
<1>4. CASE x = <<"free", 0>>
  <2>1. \A y : y \in Places(b) <=> y = <<"free", 0, 0, 0>>
    BY <1>1, <1>2, <1>4, PlacesAre DEF HeldAt
  <2>2. Places(b) = {<<"free", 0, 0, 0>>}
    BY <2>1, Single
  <2> QED
    BY <2>2
<1>5. CASE x = <<"router", 0>>
  <2>1. \A y : y \in Places(b) <=> y = <<"router", 0, 0, 0>>
    BY <1>1, <1>2, <1>5, PlacesAre DEF HeldAt
  <2>2. Places(b) = {<<"router", 0, 0, 0>>}
    BY <2>1, Single
  <2> QED
    BY <2>2
<1>6. CASE x = <<"server", 0>>
  <2>1. \A y : y \in Places(b) <=> y = <<"server", 0, 0, 0>>
    BY <1>1, <1>2, <1>6, PlacesAre DEF HeldAt
  <2>2. Places(b) = {<<"server", 0, 0, 0>>}
    BY <2>1, Single
  <2> QED
    BY <2>2
<1>7. CASE x = <<"fifo", 0>>
  <2>1. b \in InFifo /\ Apart(qfifo)
    BY <1>1, <1>7, Unpack DEF HeldAt, Queues
  <2>2. OneIndex(qfifo, b)
    BY <2>1, OneIndexOf DEF InFifo
  <2>3. PICK p \in Prios : \E i \in Indices(qfifo[p], b) :
          \A r \in Prios : \A j \in Indices(qfifo[r], b) : r = p /\ j = i
    BY <2>2 DEF OneIndex
  <2>4. PICK i \in Indices(qfifo[p], b) :
          \A r \in Prios : \A j \in Indices(qfifo[r], b) : r = p /\ j = i
    BY <2>3
  <2>5. \A y : y \in Places(b) <=>
          \E r \in Prios : \E j \in Indices(qfifo[r], b) : y = <<"fifo", r, j, 0>>
    BY <1>1, <1>2, <1>7, PlacesAre DEF HeldAt
  <2>6. \A y : y \in Places(b) <=> y = <<"fifo", p, i, 0>>
    BY <2>4, <2>5
  <2>7. Places(b) = {<<"fifo", p, i, 0>>}
    BY <2>6, Single
  <2> QED
    BY <2>7
<1>8. ASSUME NEW c \in Clients, x = <<"client", c>> PROVE \E z : Places(b) = {z}
  <2>1. \A d \in Clients : client[d].buf = b <=> d = c
    BY <1>1, <1>8 DEF HeldAt
  <2>2. \A y : y \in Places(b) <=> \E d \in Clients : client[d].buf = b /\ y = <<"client", d, 0, 0>>
    BY <1>1, <1>2, <1>8, PlacesAre DEF HeldAt
  <2>3. \A y : y \in Places(b) <=> y = <<"client", c, 0, 0>>
    BY <2>1, <2>2
  <2>4. Places(b) = {<<"client", c, 0, 0>>}
    BY <2>3, Single
  <2> QED
    BY <2>4
<1>9. ASSUME NEW s \in SlotIds, x = <<"conn", s>> PROVE \E z : Places(b) = {z}
  <2>1. \A u \in SlotIds : b \in Queued(u) <=> u = s
    BY <1>1, <1>9 DEF HeldAt
  <2>2. OneIndex(conn[s].rx, b)
    BY <2>1, QueuedAll, OneIndexOf, Unpack DEF Queues
  <2>3. PICK p \in Prios : \E i \in Indices(conn[s].rx[p], b) :
          \A r \in Prios : \A j \in Indices(conn[s].rx[r], b) : r = p /\ j = i
    BY <2>2 DEF OneIndex
  <2>4. PICK i \in Indices(conn[s].rx[p], b) :
          \A r \in Prios : \A j \in Indices(conn[s].rx[r], b) : r = p /\ j = i
    BY <2>3
  <2>5. \A y : y \in Places(b) <=>
          \E u \in SlotIds, r \in Prios : \E j \in Indices(conn[u].rx[r], b) : y = <<"conn", u, r, j>>
    BY <1>1, <1>2, <1>9, PlacesAre DEF HeldAt
  <2>6. \A u \in SlotIds, r \in Prios : \A j \in Indices(conn[u].rx[r], b) : u = s /\ r = p /\ j = i
    BY <1>2, <2>1, <2>4
  <2>7. \A y : y \in Places(b) <=> y = <<"conn", s, p, i>>
    BY <2>4, <2>5, <2>6
  <2>8. Places(b) = {<<"conn", s, p, i>>}
    BY <2>7, Single
  <2> QED
    BY <2>8
<1> QED
  BY <1>3, <1>4, <1>5, <1>6, <1>7, <1>8, <1>9

LEMMA OwnersAre ==
  ASSUME NEW s \in SlotIds, NEW y
  PROVE  y \in Owners(s) <=>
           \/ s = Socket /\ y = <<"socket", 0>>
           \/ ServerHas(s) /\ y = <<"server", 0>>
           \/ RouterOwns(s) /\ y = <<"router", 0>>
           \/ \E c \in Clients : ClientHas(c, s) /\ y = <<"client", c>>
           \/ \E i \in Indices(accepting, s) : y = <<"accepting", i>>
<1>1. y \in {<<"socket", 0>> : x \in {Socket} \cap {s}} <=> s = Socket /\ y = <<"socket", 0>>
  OBVIOUS
<1>2. y \in {<<"server", 0>> : x \in {u \in {s} : server.slot = u /\ server.at # "closing"}}
        <=> ServerHas(s) /\ y = <<"server", 0>>
  BY DEF ServerHas
<1>3. y \in {<<"router", 0>> : x \in {u \in {s} : RouterOwns(u)}} <=> RouterOwns(s) /\ y = <<"router", 0>>
  OBVIOUS
<1>4. y \in {<<"client", c>> : c \in {d \in Clients : client[d].slot = s /\ client[d].at # "closing"}}
        <=> \E c \in Clients : ClientHas(c, s) /\ y = <<"client", c>>
  BY DEF ClientHas
<1>5. y \in {<<"accepting", i>> : i \in Indices(accepting, s)}
        <=> \E i \in Indices(accepting, s) : y = <<"accepting", i>>
  OBVIOUS
<1> QED
  BY <1>1, <1>2, <1>3, <1>4, <1>5 DEF Owners

LEMMA OwnedOnce == NodeInv => SlotOneOwner
<1> SUFFICES ASSUME NodeInv, NEW s \in SlotIds
             PROVE  Cardinality(Owners(s)) = IF conn[s].open THEN 1 ELSE 0
  BY DEF SlotOneOwner
<1>1. PICK x \in Tags : OwnedBy(s, x)
  BY Unpack DEF Owned
<1>2. s \notin Elems(accepting) => Indices(accepting, s) = {}
  BY DEF Elems, Indices
<1>3. \/ x \in {<<"socket", 0>>, <<"server", 0>>, <<"router", 0>>, <<"accepting", 0>>, <<"nobody", 0>>}
      \/ \E c \in Clients : x = <<"client", c>>
  BY DEF Tags
<1>4. CASE x = <<"nobody", 0>>
  <2>1. ~conn[s].open /\ \A y : y \notin Owners(s)
    BY <1>1, <1>2, <1>4, OwnersAre DEF OwnedBy
  <2>2. Owners(s) = {}
    BY <2>1
  <2> QED
    BY <2>1, <2>2, FS_EmptySet
<1>5. CASE \E z : Owners(s) = {z} /\ x # <<"nobody", 0>>
  <2>1. conn[s].open
    BY <1>1, <1>5 DEF OwnedBy
  <2> QED
    BY <1>5, <2>1, FS_Singleton
<1>6. CASE x = <<"socket", 0>>
  <2>1. \A y : y \in Owners(s) <=> y = <<"socket", 0>>
    BY <1>1, <1>2, <1>6, OwnersAre DEF OwnedBy
  <2>2. Owners(s) = {<<"socket", 0>>}
    BY <2>1, Single
  <2> QED
    BY <1>5, <1>6, <2>2
<1>7. CASE x = <<"server", 0>>
  <2>1. \A y : y \in Owners(s) <=> y = <<"server", 0>>
    BY <1>1, <1>2, <1>7, OwnersAre DEF OwnedBy
  <2>2. Owners(s) = {<<"server", 0>>}
    BY <2>1, Single
  <2> QED
    BY <1>5, <1>7, <2>2
<1>8. CASE x = <<"router", 0>>
  <2>1. \A y : y \in Owners(s) <=> y = <<"router", 0>>
    BY <1>1, <1>2, <1>8, OwnersAre DEF OwnedBy
  <2>2. Owners(s) = {<<"router", 0>>}
    BY <2>1, Single
  <2> QED
    BY <1>5, <1>8, <2>2
<1>9. CASE x = <<"accepting", 0>>
  <2>1. s \in Elems(accepting) /\ NoRepeat(accepting)
    BY <1>1, <1>9, Unpack DEF OwnedBy, Queues
  <2>2. PICK i \in 1..Len(accepting) : accepting[i] = s
    BY <2>1 DEF Elems
  <2>3. \A j : j \in Indices(accepting, s) <=> j = i
    BY <2>1, <2>2 DEF Indices, NoRepeat
  <2>4. \A y : y \in Owners(s) <=> \E j \in Indices(accepting, s) : y = <<"accepting", j>>
    BY <1>1, <1>9, OwnersAre DEF OwnedBy
  <2>5. \A y : y \in Owners(s) <=> y = <<"accepting", i>>
    BY <2>3, <2>4
  <2>6. Owners(s) = {<<"accepting", i>>}
    BY <2>5, Single
  <2> QED
    BY <1>5, <1>9, <2>6
<1>10. ASSUME NEW c \in Clients, x = <<"client", c>>
       PROVE  Cardinality(Owners(s)) = IF conn[s].open THEN 1 ELSE 0
  <2>1. \A d \in Clients : ClientHas(d, s) <=> d = c
    BY <1>1, <1>10 DEF OwnedBy
  <2>2. \A y : y \in Owners(s) <=> \E d \in Clients : ClientHas(d, s) /\ y = <<"client", d>>
    BY <1>1, <1>2, <1>10, OwnersAre DEF OwnedBy
  <2>3. \A y : y \in Owners(s) <=> y = <<"client", c>>
    BY <2>1, <2>2
  <2>4. Owners(s) = {<<"client", c>>}
    BY <2>3, Single
  <2> QED
    BY <1>5, <1>10, <2>4
<1> QED
  BY <1>3, <1>4, <1>6, <1>7, <1>8, <1>9, <1>10

LEMMA AnswerIsOwn == NodeInv => ReplyIsOwn
<1> SUFFICES ASSUME NodeInv, NEW c \in Clients, client[c].at \notin {"idle", "new", "closing"},
                    NEW b \in Readable(c)
             PROVE  \/ content[b].reply /\ content[b].call = <<c, client[c].call>>
                    \/ timedOut /\ (content[b].reply => Over(content[b].call))
  BY DEF ReplyIsOwn
<1>1. PICK s : s = client[c].slot
  OBVIOUS
<1>2. s \in SlotIds /\ ClientHas(c, s) /\ ~ServerSide(s)
  BY <1>1, ClientFacts, Unpack, OneOwner DEF ClientHas
<1>3. b \in Queued(s) \/ client[c].buf = b
  BY <1>1 DEF Readable
<1>4. b \in Used
  <2>1. b \in Buffers
    <3>1. b # None \/ b \in Queued(s)
      BY <1>1 DEF Readable
    <3>2. Queued(s) \subseteq Buffers /\ client[c].buf \in MaybeBuffer
      BY <1>2, Unpack, CountIs, ClientFacts
    <3> QED
      BY <1>3, <3>1, <3>2 DEF MaybeBuffer
  <2> QED
    BY <1>2, <1>3, <2>1, HeldInUse, Unpack DEF InUse
<1>5. ASSUME content[b].reply, ~Over(content[b].call)
      PROVE  content[b].call = <<c, client[c].call>>
  <2>1. PICK d : d = content[b].call[1]
    OBVIOUS
  <2>2. PacketOK(content[b]) /\ content[b] \in Packet
    BY <1>4, Unpack DEF PacketIds, TypeInv, PoolType, Used
  <2>3. d \in Clients /\ content[b].call[2] <= client[d].call /\ content[b].call[2] \in Nat
    BY <2>1, <2>2 DEF PacketOK, Packet, Calling, NoId
  <2>4. client[d].call \in Nat /\ client[d].at \notin {"idle", "closing"}
        /\ ~(content[b].call[2] < client[d].call)
    BY <1>5, <2>1, <2>3, ClientFacts DEF Over
  <2>5. Hers(b, d)
    BY <1>4, <1>5, <2>1, Unpack DEF Mine
  <2>6. d = c
    <3>1. CASE b \in Queued(s)
      <4>1. client[d].slot = s
        BY <1>2, <1>5, <2>5, <3>1 DEF Hers
      <4> QED
        BY <1>2, <2>3, <2>4, <4>1, Unpack, OneOwner DEF ClientHas
    <3>2. CASE client[c].buf = b
      BY <1>5, <2>5, <3>2 DEF Hers
    <3> QED
      BY <1>3, <3>1, <3>2
  <2>7. content[b].call[2] = client[c].call
    BY <2>3, <2>4, <2>6
  <2>8. content[b].call = <<content[b].call[1], content[b].call[2]>>
    BY <2>2 DEF Packet, Calling, NoId
  <2> QED
    BY <2>1, <2>6, <2>7, <2>8
<1>6. CASE timedOut
  BY <1>5, <1>6
<1>7. CASE ~timedOut
  <2>1. InTime
    BY <1>7, Unpack DEF NoTimeout
  <2>2. content[b].reply /\ ~Over(content[b].call)
    BY <1>2, <1>3, <1>4, <2>1 DEF InTime
  <2> QED
    BY <1>5, <2>2
<1> QED
  BY <1>6, <1>7

\* No packet is lost, freed while it is in use or held twice, although tasks
\* free each other's packets and the router fills connections without the
\* lock: of any number of buffers each is always in one place.
THEOREM BufferHeldOnceCorrect == NodeSpec => []BufferHeldOnce
BY NodeInvCorrect, HeldOnce, PTL

\* An open connection has one owner among the socket, the clients, the server,
\* the router and the queue of csp_accept, and a closed one has none.
THEOREM SlotOneOwnerCorrect == NodeSpec => []SlotOneOwner
BY NodeInvCorrect, OwnedOnce, PTL

\* There is an event for every packet in the router's queues whose writer is
\* done: csp_route_work never sleeps while there is one, and never wakes for
\* none.
THEOREM FifoWakesCorrect == NodeSpec => []FifoWakes
<1>1. NodeInv => FifoWakes
  BY Unpack
<1> QED
  BY NodeInvCorrect, <1>1, PTL

\* What csp_transaction reads is the answer to its own request until a csp_read
\* has timed out, and after that never the answer to a call that still waits.
THEOREM ReplyIsOwnCorrect == NodeSpec => []ReplyIsOwn
BY NodeInvCorrect, AnswerIsOwn, PTL


=============================================================================
