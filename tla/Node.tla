-------------------------------- MODULE Node --------------------------------
(***************************************************************************)
(* One node talking to itself over the loopback interface without RDP:     *)
(* clients that call csp_transaction, the router task, and a server task   *)
(* that answers with csp_service_handler or not.  They share the buffers,  *)
(* the router's queue, the connection table and the connections' queues,   *)
(* in the build with QoS, where every queue of packets has a queue of      *)
(* events beside it.                                                       *)
(*                                                                         *)
(* An action is what a task does up to its next access to something        *)
(* another task can change in between.  csp_conn_allocate and              *)
(* csp_conn_close hold conn_lock; the router finds a connection and fills  *)
(* its queues without the lock, also while they are flushed.               *)
(***************************************************************************)
EXTENDS Integers, Sequences, FiniteSets

CONSTANTS
  Clients,
  Pri,         \* Pri[c]: the priority client c connects with
  Calls,       \* Calls[c]: how often client c calls csp_transaction
  Buffers,     \* the packet buffers, a set of numbers
  FifoLength,  \* fifo_length
  Slots,       \* conn_max; the server's socket takes one
  QueueLength, \* conn_queue_length
  Backlog,     \* of csp_listen
  ServerPort,  \* the bound port, also port_max_bind
  PortMax      \* CSP_ID_PORT_MAX

\* The router's queue holds all packets (10 and 25 by default), a connection's
\* one more: an event may outlive its packet, and when the queue of events is
\* full csp_udp_new_packet frees a packet that it has queued.  There are ports
\* for all, or csp_connect might not return.
ASSUME NodeAssumption ==
  /\ Buffers \subseteq Nat /\ IsFiniteSet(Buffers) /\ IsFiniteSet(Clients)
  /\ Pri \in [Clients -> Nat] /\ Calls \in [Clients -> Nat]
  /\ {Backlog, FifoLength, QueueLength} \subseteq Nat /\ Slots \in Nat /\ Slots > 1
  /\ Cardinality(Buffers) <= FifoLength /\ Cardinality(Buffers) < QueueLength
  /\ ServerPort \in Nat /\ PortMax \in Nat /\ PortMax - ServerPort >= Cardinality(Clients)

VARIABLES
  free,      \* csp_buffers
  content,   \* content[b]: ports, priority and transaction of the packet in b
  qfifo, qfifoEvents,
  conn,      \* arr_conn
  lastGiven, \* csp_conn_last_given
  sport, sportLock,  \* the last source port, and who holds its lock
  client,    \* client[c]: where the call is, its connection and its buffer
  server, router, \* the same for these tasks
  accepting, \* the queue of the server's socket
  timedOut   \* history: a csp_read timed out

nodeVars == <<free, content, qfifo, qfifoEvents, conn, lastGiven, sport, sportLock,
              client, server, router, accepting, timedOut>>

Prios == {Pri[c] : c \in Clients}
SlotIds == 0..Slots - 1
Socket == 1  \* the first slot csp_conn_allocate gives
None == -1
NoId == <<0, 0>>

Closed == [open |-> FALSE, client |-> TRUE, id |-> NoId, post |-> FALSE,
           rx |-> [p \in Prios |-> <<>>], events |-> 0]

NodeInit ==
  /\ free = Buffers /\ content = [b \in Buffers |-> [id |-> NoId, pri |-> 0, call |-> NoId, reply |-> FALSE]]
  /\ qfifo = [p \in Prios |-> <<>>] /\ qfifoEvents = 0
  /\ conn = [s \in SlotIds |-> [Closed EXCEPT !.open = (s = Socket), !.client = (s # Socket)]]
  /\ lastGiven = Socket
  /\ sport = ServerPort + 1 /\ sportLock = {}
  /\ client = [c \in Clients |-> [at |-> "idle", call |-> 0, slot |-> None, buf |-> None]]
  /\ server = [at |-> "accept", slot |-> None, buf |-> None]
  /\ router = [at |-> "wait", slot |-> None, buf |-> None]
  /\ accepting = <<>> /\ timedOut = FALSE

bufVars == <<free, content>>
fifoVars == <<qfifo, qfifoEvents>>
portVars == <<sport, sportLock>>

----------------------------------------------------------------------------
\* Connections

\* csp_conn_find with CSP_ID_CONN_MASK.  An id is source and destination port.
Matching(id) == {s \in SlotIds : conn[s].open /\ conn[s].client /\ conn[s].id = id}

\* The slot csp_conn_allocate gives: the next free one after the last given.
FreeSlots == {s \in SlotIds : ~conn[s].open}
After(s) == (s - lastGiven - 1 + Slots) % Slots
NextSlot == CHOOSE s \in FreeSlots : \A u \in FreeSlots : After(s) <= After(u)

\* conn_lock is held for longer than a step while a task closes.
Locked == server.at = "closing" \/ \E c \in Clients : client[c].at = "closing"

\* csp_conn_allocate, and the ids that csp_conn_new stores.
Allocate(s, id) ==
  /\ ~Locked
  /\ conn' = [conn EXCEPT ![s].open = TRUE, ![s].client = TRUE, ![s].post = FALSE, ![s].id = id]
  /\ lastGiven' = s

Queued(s) == UNION {{conn[s].rx[p][i] : i \in 1..Len(conn[s].rx[p])} : p \in Prios}
EmptyRx == [p \in Prios |-> <<>>]

\* The two halves of csp_conn_flush_rx_queue
FlushPackets(s) ==
  /\ free' = free \cup Queued(s)
  /\ conn' = [conn EXCEPT ![s].rx = EmptyRx]
FlushEvents(s) == conn' = [conn EXCEPT ![s].events = 0]

\* csp_conn_close of an open connection, with `held` freed before it, up to
\* the events, which FlushEvents flushes.
Close(s, held) ==
  /\ ~Locked
  /\ free' = free \cup held \cup Queued(s)
  /\ conn' = [conn EXCEPT ![s].open = FALSE, ![s].rx = EmptyRx]

\* The router itself closes: nobody else fills the queues or reads them.
RouterClose(s) ==
  /\ ~Locked
  /\ free' = free \cup Queued(s)
  /\ conn' = [conn EXCEPT ![s].open = FALSE, ![s].rx = EmptyRx, ![s].events = 0]

----------------------------------------------------------------------------
\* csp_qfifo_write and csp_read, each in its two parts

\* Packet b of priority p; when there is no room it is freed.
FifoPut(b, p, others) ==
  IF Len(qfifo[p]) < FifoLength
  THEN qfifo' = [qfifo EXCEPT ![p] = Append(@, b)] /\ free' = others
  ELSE free' = others \cup {b} /\ UNCHANGED qfifo

FifoFlag ==  \* mutant: one event stands for all packets
  qfifoEvents' = 1
FifoEvent ==
  qfifoEvents' = IF qfifoEvents < FifoLength THEN qfifoEvents + 1 ELSE qfifoEvents

ReadEvent(s) ==
  /\ conn[s].events > 0
  /\ conn' = [conn EXCEPT ![s].events = @ - 1]

ReadPacket(s, b) ==
  \E p \in Prios :
    /\ conn[s].rx[p] # <<>> /\ \A r \in Prios : r < p => conn[s].rx[r] = <<>>
    /\ b = Head(conn[s].rx[p])
    /\ conn' = [conn EXCEPT ![s].rx[p] = Tail(@)]

----------------------------------------------------------------------------
\* A client: csp_transaction_w_opts

Step(c, at) == client' = [client EXCEPT ![c].at = at]

\* csp_connect: the first source port after the last that no open connection
\* has.  The last itself is tried only if it is the first of all.
AnyPort(p) == TRUE  \* mutant: a port in use is taken
Unused(p) == \A s \in SlotIds : conn[s].open /\ conn[s].client => conn[s].id[2] # p
Turn(p) == IF p > sport THEN p ELSE p + PortMax
Candidates == {p \in ServerPort + 1..PortMax :
                 Unused(p) /\ (p # sport \/ sport = ServerPort + 1)}
FirstPort == CHOOSE p \in Candidates : \A q \in Candidates : Turn(p) <= Turn(q)

Connect(c) ==
  /\ client[c].at = "idle" /\ client[c].call < Calls[c]
  /\ sportLock = {}
  /\ sport' = IF Candidates = {} THEN sport ELSE FirstPort
  /\ IF Candidates = {} \/ FreeSlots = {}
     THEN /\ client' = [client EXCEPT ![c].call = @ + 1]
          /\ UNCHANGED <<conn, lastGiven, sportLock>>
     ELSE /\ Allocate(NextSlot, <<ServerPort, FirstPort>>)
          /\ client' = [client EXCEPT ![c] =
               [at |-> "new", call |-> @.call + 1, slot |-> NextSlot, buf |-> None]]
          /\ sportLock' = {c}
  /\ UNCHANGED <<bufVars, fifoVars, server, router, accepting, timedOut>>

ClientFlushPackets(c) ==
  /\ client[c].at = "new" /\ Step(c, "flushed")
  /\ FlushPackets(client[c].slot)
  /\ UNCHANGED <<content, fifoVars, lastGiven, portVars, server, router, accepting, timedOut>>

ClientFlushEvents(c) ==
  /\ client[c].at = "flushed" /\ Step(c, "connected")
  /\ FlushEvents(client[c].slot)
  /\ sportLock' = {}
  /\ UNCHANGED <<bufVars, fifoVars, lastGiven, sport, server, router, accepting, timedOut>>

\* csp_buffer_get, csp_send, csp_qfifo_write
ClientSend(c) ==
  /\ client[c].at = "connected"
  /\ IF free = {}
     THEN Step(c, "close") /\ UNCHANGED <<bufVars, qfifo>>
     ELSE LET b == CHOOSE x \in free : \A y \in free : x <= y
              port == conn[client[c].slot].id[2]
              sent == [id |-> <<port, ServerPort>>, pri |-> Pri[c],
                       call |-> <<c, client[c].call>>, reply |-> FALSE]
          IN  /\ content' = [content EXCEPT ![b] = sent]
              /\ FifoPut(b, Pri[c], free \ {b})
              /\ Step(c, IF qfifo' = qfifo THEN "read" ELSE "sent")
  /\ UNCHANGED <<qfifoEvents, conn, lastGiven, portVars, server, router, accepting, timedOut>>

ClientSendEvent(c) ==
  /\ client[c].at = "sent" /\ Step(c, "read")
  /\ FifoEvent
  /\ UNCHANGED <<bufVars, qfifo, conn, lastGiven, portVars, server, router, accepting, timedOut>>

ClientRead(c) ==
  /\ client[c].at = "read" /\ Step(c, "event")
  /\ ReadEvent(client[c].slot)
  /\ UNCHANGED <<bufVars, fifoVars, lastGiven, portVars, server, router, accepting, timedOut>>

ClientTimeout(c) ==
  /\ client[c].at = "read" /\ Step(c, "close")
  /\ conn[client[c].slot].events = 0
  /\ timedOut' = TRUE
  /\ UNCHANGED <<bufVars, fifoVars, conn, lastGiven, portVars, server, router, accepting>>

\* An event without a packet makes csp_read return NULL at once.
ClientReadPacket(c) ==
  /\ client[c].at = "event"
  /\ \/ \E b \in Buffers :
          ReadPacket(client[c].slot, b)
          /\ client' = [client EXCEPT ![c].at = "close", ![c].buf = b]
     \/ Queued(client[c].slot) = {} /\ Step(c, "close") /\ UNCHANGED conn
  /\ UNCHANGED <<bufVars, fifoVars, lastGiven, portVars, server, router, accepting, timedOut>>

ClientClose(c) ==
  /\ client[c].at = "close"
  /\ Close(client[c].slot, {client[c].buf} \ {None})
  /\ client' = [client EXCEPT ![c].at = "closing", ![c].buf = None]
  /\ UNCHANGED <<content, fifoVars, lastGiven, portVars, server, router, accepting, timedOut>>

ClientCloseEnds(c) ==
  /\ client[c].at = "closing"
  /\ FlushEvents(client[c].slot)
  /\ client' = [client EXCEPT ![c].at = "idle", ![c].slot = None]
  /\ UNCHANGED <<bufVars, fifoVars, lastGiven, portVars, server, router, accepting, timedOut>>

----------------------------------------------------------------------------
\* The router: csp_route_work and csp_udp_new_packet

RouterRead ==
  /\ router.at = "wait" /\ qfifoEvents > 0
  /\ qfifoEvents' = qfifoEvents - 1
  /\ \E p \in Prios :
       /\ qfifo[p] # <<>> /\ \A r \in Prios : r < p => qfifo[r] = <<>>
       /\ router' = [router EXCEPT !.at = "find", !.buf = Head(qfifo[p])]
       /\ qfifo' = [qfifo EXCEPT ![p] = Tail(@)]
  /\ UNCHANGED <<bufVars, conn, lastGiven, portVars, client, server, accepting, timedOut>>

RouterDone == [at |-> "wait", slot |-> None, buf |-> None]
Forget(b) == UNCHANGED free /\ router' = RouterDone  \* mutant: not freed
Drop(b) == free' = free \cup {b} /\ router' = RouterDone

RouterFind ==
  LET b == router.buf
      id == content[b].id
  IN  /\ router.at = "find"
      /\ \/ \E s \in Matching(id) :
              /\ router' = [router EXCEPT !.at = "put", !.slot = s]
              /\ UNCHANGED <<free, conn, lastGiven>>
         \/ /\ Matching(id) = {}
            /\ IF id[2] = ServerPort /\ FreeSlots # {}
               THEN /\ Allocate(NextSlot, id)
                    /\ router' = [router EXCEPT !.at = "new", !.slot = NextSlot]
                    /\ UNCHANGED free
               ELSE Drop(b) /\ UNCHANGED <<conn, lastGiven>>
      /\ UNCHANGED <<content, fifoVars, portVars, client, server, accepting, timedOut>>

RouterFlushPackets ==
  /\ router.at = "new"
  /\ FlushPackets(router.slot)
  /\ router' = [router EXCEPT !.at = "flushed"]
  /\ UNCHANGED <<content, fifoVars, lastGiven, portVars, client, server, accepting, timedOut>>

\* ... and the socket's queue and options are stored.
RouterFlushEvents ==
  /\ router.at = "flushed"
  /\ conn' = [conn EXCEPT ![router.slot].events = 0, ![router.slot].post = TRUE]
  /\ router' = [router EXCEPT !.at = "put"]
  /\ UNCHANGED <<bufVars, fifoVars, lastGiven, portVars, client, server, accepting, timedOut>>

\* csp_conn_enqueue_packet
RouterPut ==
  LET s == router.slot
      p == content[router.buf].pri
  IN  /\ router.at = "put"
      /\ IF Len(conn[s].rx[p]) < QueueLength
         THEN /\ conn' = [conn EXCEPT ![s].rx[p] = Append(@, router.buf)]
              /\ router' = [router EXCEPT !.at = "event"]
              /\ UNCHANGED free
         ELSE Drop(router.buf) /\ UNCHANGED conn
      /\ UNCHANGED <<content, fifoVars, lastGiven, portVars, client, server, accepting, timedOut>>

RouterEvent ==
  LET s == router.slot
  IN  /\ router.at = "event"
      /\ IF conn[s].events < QueueLength
         THEN /\ conn' = [conn EXCEPT ![s].events = @ + 1]
              /\ router' = [router EXCEPT !.at = "post", !.buf = None]
              /\ UNCHANGED free
         ELSE Drop(router.buf) /\ UNCHANGED conn
      /\ UNCHANGED <<content, fifoVars, lastGiven, portVars, client, server, accepting, timedOut>>

\* csp_udp_new_packet: the connection is given to the socket once.
Kept(s) == UNCHANGED conn  \* mutant: conn->socket is not reset
Posted(s) == conn' = [conn EXCEPT ![s].post = FALSE]

RouterPost ==
  LET s == router.slot
  IN  /\ router.at = "post" /\ router' = RouterDone
      /\ \/ ~conn[s].post /\ UNCHANGED <<free, conn, accepting>>
         \/ /\ conn[s].post /\ Len(accepting) < Backlog
            /\ accepting' = Append(accepting, s)
            /\ Posted(s) /\ UNCHANGED free
         \/ /\ conn[s].post /\ Len(accepting) >= Backlog
            /\ RouterClose(s) /\ UNCHANGED accepting
      /\ UNCHANGED <<content, fifoVars, lastGiven, portVars, client, server, timedOut>>

----------------------------------------------------------------------------
\* The server's loop: accept, read until nothing comes, close

ServerAt(at) == server' = [server EXCEPT !.at = at]

Accept ==
  /\ server.at = "accept" /\ accepting # <<>>
  /\ server' = [server EXCEPT !.at = "read", !.slot = Head(accepting)]
  /\ accepting' = Tail(accepting)
  /\ UNCHANGED <<bufVars, fifoVars, conn, lastGiven, portVars, client, router, timedOut>>

ServerRead ==
  /\ server.at = "read" /\ ServerAt("event")
  /\ ReadEvent(server.slot)
  /\ UNCHANGED <<bufVars, fifoVars, lastGiven, portVars, client, router, accepting, timedOut>>

ServerWaits == FALSE /\ UNCHANGED nodeVars  \* mutant: the server never gives up
ServerTimeout ==
  /\ server.at = "read" /\ ServerAt("close")
  /\ conn[server.slot].events = 0
  /\ timedOut' = TRUE
  /\ UNCHANGED <<bufVars, fifoVars, conn, lastGiven, portVars, client, router, accepting>>

ServerReadPacket ==
  /\ server.at = "event"
  /\ \/ \E b \in Buffers :
          ReadPacket(server.slot, b) /\ server' = [server EXCEPT !.at = "serve", !.buf = b]
     \/ Queued(server.slot) = {} /\ ServerAt("close") /\ UNCHANGED conn
  /\ UNCHANGED <<bufVars, fifoVars, lastGiven, portVars, client, router, accepting, timedOut>>

\* csp_service_handler answers in the buffer of the request, or frees it.
Reply(b) == [content[b] EXCEPT !.id = <<ServerPort, conn[server.slot].id[1]>>, !.reply = TRUE]

Serve ==
  LET b == server.buf
      next(at) == server' = [server EXCEPT !.at = at, !.buf = None]
  IN  /\ server.at = "serve"
      /\ \/ /\ content' = [content EXCEPT ![b] = Reply(b)]
            /\ FifoPut(b, content[b].pri, free)
            /\ next(IF qfifo' = qfifo THEN "read" ELSE "replied")
         \/ /\ free' = free \cup {b} /\ next("read")
            /\ UNCHANGED <<content, qfifo>>
      /\ UNCHANGED <<qfifoEvents, conn, lastGiven, portVars, client, router, accepting, timedOut>>

ServerSendEvent ==
  /\ server.at = "replied" /\ ServerAt("read")
  /\ FifoEvent
  /\ UNCHANGED <<bufVars, qfifo, conn, lastGiven, portVars, client, router, accepting, timedOut>>

ServerClose ==
  /\ server.at = "close"
  /\ Close(server.slot, {})
  /\ ServerAt("closing")
  /\ UNCHANGED <<content, fifoVars, lastGiven, portVars, client, router, accepting, timedOut>>

ServerCloseEnds ==
  /\ server.at = "closing"
  /\ FlushEvents(server.slot)
  /\ server' = [at |-> "accept", slot |-> None, buf |-> None]
  /\ UNCHANGED <<bufVars, fifoVars, lastGiven, portVars, client, router, accepting, timedOut>>

----------------------------------------------------------------------------
ClientNext(c) ==
  \/ Connect(c) \/ ClientFlushPackets(c) \/ ClientFlushEvents(c)
  \/ ClientSend(c) \/ ClientSendEvent(c)
  \/ ClientRead(c) \/ ClientTimeout(c) \/ ClientReadPacket(c)
  \/ ClientClose(c) \/ ClientCloseEnds(c)
RouterNext ==
  \/ RouterRead \/ RouterFind \/ RouterFlushPackets \/ RouterFlushEvents
  \/ RouterPut \/ RouterEvent \/ RouterPost
ServerNext ==
  \/ Accept \/ ServerRead \/ ServerTimeout \/ ServerReadPacket
  \/ Serve \/ ServerSendEvent \/ ServerClose \/ ServerCloseEnds

NodeNext == (\E c \in Clients : ClientNext(c)) \/ RouterNext \/ ServerNext

NodeSpec == NodeInit /\ [][NodeNext]_nodeVars

\* The tasks run, and csp_read returns when its timeout is over.
NodeFairness ==
  /\ \A c \in Clients : WF_nodeVars(ClientNext(c))
  /\ WF_nodeVars(RouterNext) /\ WF_nodeVars(ServerNext)

----------------------------------------------------------------------------
\* Properties

\* Although tasks free each other's packets and the router does not know
\* whether its connection is still the one it found, no packet is freed while
\* it is in use, none is held twice and none gets lost: a buffer is always in
\* one place.
Indices(seq, b) == {i \in 1..Len(seq) : seq[i] = b}
Places(b) ==
  {<<"free", 0, 0, 0>> : x \in free \cap {b}}
  \cup {<<"router", 0, 0, 0>> : x \in IF router.at = "event" THEN {} ELSE {router.buf} \cap {b}}
  \cup {<<"server", 0, 0, 0>> : x \in {server.buf} \cap {b}}
  \cup {<<"client", c, 0, 0>> : c \in {d \in Clients : client[d].buf = b}}
  \cup (UNION {{<<"fifo", p, i, 0>> : i \in Indices(qfifo[p], b)} : p \in Prios})
  \cup (UNION {{<<"conn", s, p, i>> : i \in Indices(conn[s].rx[p], b)} : s \in SlotIds, p \in Prios})
BufferHeldOnce == \A b \in Buffers : Cardinality(Places(b)) = 1

\* Connections do not leak and none is given to two: an open slot belongs to
\* the socket, to a client, to the server, to the router that made it or to
\* the queue of connections to accept, and to one of these.
RouterOwns(s) ==
  /\ router.slot = s
  /\ router.at \in {"new", "flushed"} \/ conn[s].post
Owners(s) ==
  {<<"socket", 0>> : x \in {Socket} \cap {s}}
  \cup {<<"server", 0>> : x \in {u \in {s} : server.slot = u /\ server.at # "closing"}}
  \cup {<<"router", 0>> : x \in {u \in {s} : RouterOwns(u)}}
  \cup {<<"client", c>> : c \in {d \in Clients : client[d].slot = s /\ client[d].at # "closing"}}
  \cup {<<"accepting", i>> : i \in Indices(accepting, s)}
SlotOneOwner ==
  \A s \in SlotIds : Cardinality(Owners(s)) = IF conn[s].open THEN 1 ELSE 0

\* The router sleeps on its events alone: every packet in its queues has one,
\* but for those whose writer is about to add it.
Writing == {c \in Clients : client[c].at = "sent"}
FifoWakes ==
  Cardinality({b \in Buffers : \E p \in Prios : Indices(qfifo[p], b) # {}})
    = qfifoEvents + Cardinality(Writing) + IF server.at = "replied" THEN 1 ELSE 0

\* What a client finds in its connection is the answer to its request until a
\* csp_read times out.  After that it may find packets the router took to a
\* connection that was closed under it; an answer to somebody else is then one
\* whose call is over.
Over(call) ==
  call[2] < client[call[1]].call \/ client[call[1]].at \in {"idle", "closing"}
Readable(c) == Queued(client[c].slot) \cup ({client[c].buf} \ {None})
ReplyIsOwn ==
  \A c \in Clients :
    client[c].at \notin {"idle", "new", "closing"} =>
      \A b \in Readable(c) :
        \/ content[b].reply /\ content[b].call = <<c, client[c].call>>
        \/ timedOut /\ (content[b].reply => Over(content[b].call))

\* When all calls are over everything comes back: the router and the server
\* are waiting, the socket has the only open connection, and the packets that
\* are not free lie in a closed connection, whose next user frees them.
Quiet ==
  /\ \A c \in Clients : client[c].at = "idle"
  /\ router.at = "wait" /\ server.at = "accept" /\ accepting = <<>>
  /\ \A s \in SlotIds : conn[s].open => s = Socket
  /\ Buffers = free \cup UNION {Queued(s) : s \in SlotIds}
PoolRefills == <>[]Quiet

=============================================================================
