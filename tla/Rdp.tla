-------------------------------- MODULE Rdp --------------------------------
(***************************************************************************)
(* The reliable datagram protocol of libcsp 1.6 (transport/csp_rdp.c): one *)
(* client and one server connection, the user task and the router task of  *)
(* each node, and the link between them.                                   *)
(*                                                                         *)
(* One action is one call of the code run to completion: the router's      *)
(* csp_rdp_new_packet and csp_rdp_check_timeouts, and the user's           *)
(* csp_connect, csp_send, csp_read and csp_close.  Calls that wait         *)
(* (csp_connect for the handshake, csp_send for the window) are split at   *)
(* the wait, and csp_send again between csp_rdp_send, which composes the   *)
(* segment, and csp_send_direct, which hands it to the interface.          *)
(*                                                                         *)
(* Time is abstract: a timer may be found expired whenever it is looked    *)
(* at.  The link is a set of segments: any of them may be next to arrive,  *)
(* and any may be lost.  A segment that is sent again while an identical   *)
(* one is in flight is not counted twice.                                  *)
(***************************************************************************)
EXTENDS Integers, FiniteSets, Sequences

CONSTANTS
  SeqMod,       \* size of the sequence number space, 2^16 in the code
  Window,       \* rdp.window_size, the same at both ends
  AckDelay,     \* rdp.ack_delay_count
  DelayedAcks,  \* rdp.delayed_acks
  ConnQueue,    \* csp_conf.conn_queue_length
  MaxWindow,    \* csp_conf.rdp_max_window
  FastClose,    \* CSP_USE_RDP_FAST_CLOSE
  IssOf,        \* IssOf[e][n]: what rand() returns to e the n-th time
  MsgLimit,     \* MsgLimit[e]: bound on the messages e sends on a connection
  NetCap,       \* bound on the segments in flight in each direction
  MaxFail,      \* bound on failing allocations, interfaces and backlogs
  MaxReboot,    \* bound on reboots of the client
  Closers,      \* the endpoints whose user may call csp_close
  ConnTimeouts  \* whether conn_timeout may pass while something waits for it

Client == "client"
Server == "server"
Endpoint == {Client, Server}
Peer(e) == IF e = Client THEN Server ELSE Client

SeqNr == 0..(SeqMod - 1)

ASSUME SeqModAssumption == SeqMod \in Nat /\ SeqMod > 1
ASSUME SizeAssumption ==
  /\ Window \in Nat \ {0} /\ AckDelay \in Nat
  /\ ConnQueue \in Nat \ {0} /\ MaxWindow \in Nat \ {0}
  /\ NetCap \in Nat /\ MaxFail \in Nat /\ MaxReboot \in Nat
ASSUME FlagAssumption ==
  /\ DelayedAcks \in BOOLEAN /\ FastClose \in BOOLEAN /\ ConnTimeouts \in BOOLEAN
ASSUME IssAssumption == IssOf \in [Endpoint -> Seq(SeqNr)]
ASSUME LimitAssumption == MsgLimit \in [Endpoint -> Nat] /\ Closers \subseteq Endpoint

RdpStates == {"CLOSED", "SYN_SENT", "SYN_RCVD", "OPEN", "CLOSE_WAIT"}
ByUser == "CLOSED_BY_USERSPACE"
ByProtocol == "CLOSED_BY_PROTOCOL"
ByTimeout == "CLOSED_BY_TIMEOUT"
ClosedByAll == {ByUser, ByProtocol, ByTimeout}

\* What a data segment carries: the n-th message of the sender's life-th
\* connection.  Null is the NULL packet that tells a user of a closed peer.
Payload == Nat \X Nat
NoData == <<0, 0>>
Null == <<0, 1>>

Segment == [flags : SUBSET {"SYN", "ACK", "EAK", "RST"}, seq : SeqNr,
            ack : SeqNr, data : Payload, eacks : SUBSET SeqNr]

VARIABLES
  conn,     \* conn[e]: the csp_conn_t of endpoint e
  net,      \* the segments in flight, each with the endpoint it is sent to
  user,     \* user[e]: where the user task of e is
  hand,     \* hand[e]: the segment csp_send has composed and not yet sent
  retry,    \* the local variable retry of csp_rdp_connect
  backlog,  \* the server's accept queue holds the connection
  router,   \* router[e]: idle, ready for a packet, or in csp_rdp_rx_queue_flush
  picks,    \* picks[e]: how often e has drawn an initial sequence number
  fails,    \* how often a call to the environment has failed
  reboots,  \* how often the client has rebooted
  sent,     \* history: messages csp_rdp_send accepted on this connection
  got,      \* history: payloads csp_read returned on this connection
  eof,      \* history: csp_read returned the NULL packet of this connection
  accepts   \* history: connections csp_accept has returned

envVars == <<picks, fails, reboots>>
histVars == <<sent, got, eof, accepts>>
vars == <<conn, net, user, hand, retry, backlog, router, envVars, histVars>>

----------------------------------------------------------------------------
\* Sequence numbers

PlusUnwrapped(a, b) == a + b  \* mutant: an int instead of a uint16_t

Plus(a, b) == (a + b) % SeqMod

\* Note: `start` and `end` may lie below 0, as the code's uint16_t casts do.
SeqBetween(seq, start, end) == (end - start) % SeqMod >= (seq - start) % SeqMod
SeqBefore(seq, cmp) == (seq - cmp) % SeqMod >= SeqMod \div 2
SeqAfter(seq, cmp) == SeqBefore(cmp, seq)

----------------------------------------------------------------------------
\* Sending.  An operator that can send returns the connection it leaves
\* behind and the set of segments it has put on the link.

Result(c, out) == [c |-> c, out |-> out]

Cmp(flags, seq, ack) ==
  [flags |-> flags, seq |-> seq, ack |-> ack, data |-> NoData, eacks |-> {}]

\* csp_rdp_send_cmp: ok says whether buffer and interface were available.
SendCmp(c, seg, ok) ==
  Result(IF ok /\ "ACK" \in seg.flags THEN [c EXCEPT !.lsa = seg.ack] ELSE c,
         IF ok THEN {seg} ELSE {})

\* tx_queue: its order does not matter (it is searched by number and the link
\* reorders), so it is a set.  The same SYN/ACK may be queued more than once:
\* `copy` tells those apart.  The stored ack_nr is rewritten when sent again.
TxRoom(c) == Cardinality(c.txq) < MaxWindow
TxQueued(txq, seg) ==
  LET stored == [seg EXCEPT !.ack = 0]
  IN txq \cup {[copy |-> Cardinality({x \in txq : x.seg = stored}), seg |-> stored]}

\* csp_rdp_send_cmp with RDP_SYN: a copy waits in tx_queue to be sent again.
\* The interface may fail after that.
SendSyn(c, seg, cloned, ok) ==
  SendCmp(IF (ok \/ cloned) /\ TxRoom(c) THEN [c EXCEPT !.txq = TxQueued(@, seg)] ELSE c, seg, ok)

SendEack(c, ok) ==
  SendCmp(c, [Cmp({"ACK", "EAK"}, c.nxt, c.cur)
                EXCEPT !.eacks = {s.seq : s \in c.rxq}], ok)

SendSynAck(c, cloned, ok) ==
  SendSyn(c, Cmp({"SYN", "ACK"}, c.iss, c.irs), cloned, ok)

ShouldAck(c, due) ==
  \/ ~DelayedAcks
  \/ due
  \/ SeqAfter(c.cur, Plus(c.lsa, AckDelay))

CheckAck(c, due, ok) ==
  IF ConnQueue - Len(c.rx) > 2 * Window /\ ShouldAck(c, due)
  THEN SendCmp(c, Cmp({"ACK"}, c.nxt, c.cur), ok)
  ELSE Result(c, {})

\* Mutant: one segment too many.
ReadyForTxLate(c) == ~SeqAfter(c.nxt, Plus(c.una, Window))

ReadyForTx(c) == ~SeqAfter(c.nxt, Plus(c.una, Window - 1))

----------------------------------------------------------------------------
\* Receiving

HasRoom(c) == Len(c.rx) < ConnQueue
Enqueue(c, x) == IF HasRoom(c) THEN [c EXCEPT !.rx = Append(@, x)] ELSE c

InRxQueue(c, seq) == \E s \in c.rxq : s.seq = seq

\* One round of the loop in csp_rdp_rx_queue_flush: the stored segment that
\* follows rcv_cur goes to the user, and is gone if the user's queue is full.
NextStored(c) == {s \in c.rxq : s.seq = Plus(c.cur, 1)}
FlushOneStays(c, s) == [Enqueue(c, s.data) EXCEPT !.rxq = @ \ {s}]  \* mutant: no rcv_cur++
FlushOne(c, s) == [Enqueue(c, s.data) EXCEPT !.rxq = @ \ {s}, !.cur = s.seq]

\* Mutant: an EACK also acknowledges what lies before it.
FlushEackUpTo(c, eacks) ==
  [c EXCEPT !.txq = {x \in @ : \A n \in eacks : SeqAfter(x.seg.seq, n)}]

FlushEack(c, eacks) ==
  [c EXCEPT !.txq = {x \in @ : x.seg.seq \notin eacks}]

----------------------------------------------------------------------------
\* Closing

\* What csp_conn_close does once RDP lets go: the slot is free again.
Released(c) ==
  [c EXCEPT !.open = FALSE, !.rx = <<>>, !.txq = {}, !.rxq = {}]

\* csp_conn_new: the RDP fields keep what the slot's last user left there.
NewConn(c, socket) ==
  [c EXCEPT !.open = TRUE, !.socket = socket, !.rx = <<>>]

\* closed_by |= by, and whether all three parties have now closed.
ClosedByLast(before, by) == by  \* mutant: = instead of |=
ClosedBy(before, by) == before \cup by

AgreedByStack(closedBy) == {ByProtocol, ByTimeout} \subseteq closedBy  \* mutant: not the user
Agreed(closedBy) == closedBy = ClosedByAll

RdpClose(c, by, rst, ok) ==
  LET entering == c.state # "CLOSE_WAIT"
      c1 == [c EXCEPT !.closedBy = ClosedBy(@, by), !.state = "CLOSE_WAIT",
                      !.sem = @ \/ entering]
      r == IF entering /\ rst
           THEN SendCmp(c1, Cmp({"ACK", "RST"}, c.nxt, c.cur), ok)
           ELSE Result(c1, {})
  IN IF c.state = "CLOSED" THEN Result(c, {})
     ELSE IF ~Agreed(r.c.closedBy) THEN r
     ELSE Result([r.c EXCEPT !.state = "CLOSED", !.closedBy = {}], r.out)

ConnClose(c, by, ok) ==
  LET r == RdpClose(c, by, TRUE, ok)
  IN IF ~c.open THEN Result(c, {})
     ELSE IF r.c.state # "CLOSED" THEN r
     ELSE Result(Released(r.c), r.out)

\* Mutant: the user is not told.
DiscardCloseQuietly(c, by, ok) ==
  ConnClose(c, IF c.socket THEN by \cup {ByUser} ELSE by, ok)

\* The label discard_close of csp_rdp_new_packet.
DiscardClose(c, by, ok) ==
  IF c.socket THEN ConnClose(c, by \cup {ByUser}, ok)
  ELSE LET r == ConnClose(c, by, ok) IN Result(Enqueue(r.c, Null), r.out)

----------------------------------------------------------------------------
InitConn ==
  [open |-> FALSE, socket |-> FALSE, state |-> "CLOSED", closedBy |-> {},
   nxt |-> 0, una |-> 0, iss |-> 0, cur |-> 0, irs |-> 0, lsa |-> 0,
   txq |-> {}, rxq |-> {}, rx |-> <<>>, sem |-> TRUE]

NoSegment == Cmp({}, 0, 0)

Init ==
  /\ conn = [e \in Endpoint |-> InitConn]
  /\ net = {}
  /\ user = [e \in Endpoint |-> "none"]
  /\ hand = [e \in Endpoint |-> NoSegment]
  /\ retry = TRUE
  /\ backlog = FALSE
  /\ router = [e \in Endpoint |-> "idle"]
  /\ picks = [e \in Endpoint |-> 0]
  /\ fails = 0 /\ reboots = 0
  /\ sent = [e \in Endpoint |-> 0]
  /\ got = [e \in Endpoint |-> <<>>]
  /\ eof = [e \in Endpoint |-> FALSE]
  /\ accepts = 0

\* Take `used` off the link, put `out` on its way from e to its peer.
Transmit(e, used, out) ==
  /\ net' = (net \ used) \cup {[to |-> Peer(e), seg |-> s] : s \in out}
  /\ Cardinality({m \in net' : m.to = Peer(e)}) <= NetCap

\* A call to the environment succeeds, or fails while the bound allows.
Outcome(ok) ==
  /\ ok \/ fails < MaxFail
  /\ fails' = IF ok THEN fails ELSE fails + 1

CanPick(e) == picks[e] < Len(IssOf[e])
Pick(e) == IssOf[e][picks[e] + 1]

----------------------------------------------------------------------------
\* The user task

\* From the label retry of csp_rdp_connect to its wait for the SYN/ACK.  When
\* the SYN cannot be sent the connection is given up (label error, csp_close),
\* and a copy of the SYN left in tx_queue is never sent.
SendSynRequest(e, c0, again) ==
  LET iss == Pick(e)
      c1 == [c0 EXCEPT !.iss = iss, !.nxt = Plus(iss, 1), !.una = iss,
                       !.sem = FALSE, !.state = "SYN_SENT"]
  IN \E ok \in BOOLEAN :
       LET r == SendSyn(c1, Cmp({"SYN"}, iss, 0), FALSE, ok)
           failed == ConnClose(RdpClose(r.c, {ByProtocol}, FALSE, ok).c, {ByUser}, ok)
       IN /\ CanPick(e) /\ Outcome(ok)
          /\ picks' = [picks EXCEPT ![e] = @ + 1]
          /\ conn' = [conn EXCEPT ![e] = IF ok THEN r.c ELSE failed.c]
          /\ Transmit(e, {}, r.out)
          /\ user' = [user EXCEPT ![e] = IF ok THEN "connecting" ELSE "closed"]
          /\ retry' = again

Connect ==
  /\ user[Client] = "none" /\ ~conn[Client].open
  /\ SendSynRequest(Client, NewConn(conn[Client], FALSE), TRUE)
  /\ sent' = [sent EXCEPT ![Client] = 0]
  /\ got' = [got EXCEPT ![Client] = <<>>]
  /\ eof' = [eof EXCEPT ![Client] = FALSE]
  /\ UNCHANGED <<hand, backlog, router, reboots, accepts>>

\* csp_rdp_connect fails: csp_rdp_close_internal without RST, then csp_close.
ConnectFails ==
  \E ok \in BOOLEAN :
    LET c == RdpClose(conn[Client], {ByProtocol}, FALSE, ok).c
        r == ConnClose(c, {ByUser}, ok)
    IN /\ Outcome(ok)
       /\ conn' = [conn EXCEPT ![Client] = r.c]
       /\ Transmit(Client, {}, r.out)
       /\ user' = [user EXCEPT ![Client] = "closed"]
       /\ UNCHANGED <<hand, retry, backlog, router, picks, reboots, histVars>>

ConnectOpened ==
  /\ user[Client] = "connecting" /\ conn[Client].sem
  /\ conn[Client].state = "OPEN"
  /\ conn' = [conn EXCEPT ![Client].sem = FALSE]
  /\ user' = [user EXCEPT ![Client] = "ready"]
  /\ UNCHANGED <<net, hand, retry, backlog, router, envVars, histVars>>

ConnectRetry ==
  /\ user[Client] = "connecting" /\ conn[Client].sem
  /\ conn[Client].state = "SYN_SENT" /\ retry
  /\ SendSynRequest(Client, [conn[Client] EXCEPT !.txq = {}, !.rxq = {}], FALSE)
  /\ UNCHANGED <<hand, backlog, router, reboots, histVars>>

ConnectRefused ==
  /\ user[Client] = "connecting" /\ conn[Client].sem
  /\ conn[Client].state # "OPEN"
  /\ conn[Client].state = "SYN_SENT" => ~retry
  /\ ConnectFails

ConnectTimeout ==
  /\ ConnTimeouts /\ user[Client] = "connecting" /\ ~conn[Client].sem
  /\ ConnectFails

Accept ==
  /\ backlog /\ user[Server] = "none"
  /\ backlog' = FALSE
  /\ user' = [user EXCEPT ![Server] = "ready"]
  /\ accepts' = accepts + 1
  /\ UNCHANGED <<conn, net, hand, retry, router, envVars, sent, got, eof>>

\* csp_rdp_send finds the window full and waits for tx_wait.
SendBlocks(e) ==
  /\ user[e] = "ready" /\ conn[e].open
  /\ conn[e].state = "OPEN" /\ sent[e] < MsgLimit[e] /\ ~ReadyForTx(conn[e])
  /\ user' = [user EXCEPT ![e] = "waiting"]
  /\ UNCHANGED <<conn, net, hand, retry, backlog, router, envVars, histVars>>

\* It is woken and looks again: the window is still full, or the connection
\* is no longer open and the call fails.
SendWakes(e) ==
  /\ user[e] = "waiting" /\ conn[e].sem
  /\ conn[e].state = "OPEN" => ~ReadyForTx(conn[e])
  /\ conn' = [conn EXCEPT ![e].sem = FALSE]
  /\ user' = IF conn[e].state = "OPEN" THEN user
             ELSE [user EXCEPT ![e] = "ready"]
  /\ UNCHANGED <<net, hand, retry, backlog, router, envVars, histVars>>

SendTimeout(e) ==
  /\ ConnTimeouts /\ user[e] = "waiting" /\ ~conn[e].sem
  /\ user' = [user EXCEPT ![e] = "ready"]
  /\ UNCHANGED <<conn, net, hand, retry, backlog, router, envVars, histVars>>

\* The window is open: compose the segment and queue a copy of it.
RdpSend(e) ==
  LET c == conn[e]
      seg == [Cmp({"ACK"}, c.nxt, c.cur) EXCEPT !.data = <<picks[e], sent[e] + 1>>]
  IN /\ \/ user[e] = "ready" /\ c.open
        \/ user[e] = "waiting" /\ c.sem
     /\ c.state = "OPEN" /\ ReadyForTx(c)
     /\ sent[e] < MsgLimit[e]
     /\ TxRoom(c)
     /\ conn' = [conn EXCEPT
          ![e] = [c EXCEPT !.txq = TxQueued(@, seg),
                           !.nxt = Plus(@, 1),
                           !.sem = @ /\ user[e] = "ready"]]
     /\ hand' = [hand EXCEPT ![e] = seg]
     /\ user' = [user EXCEPT ![e] = "sending"]
     /\ sent' = [sent EXCEPT ![e] = @ + 1]
     /\ UNCHANGED <<net, retry, backlog, router, envVars, got, eof, accepts>>

\* The retransmission queue is full: csp_rdp_send returns CSP_ERR_NOBUFS.
SendNoBufs(e) ==
  /\ \/ user[e] = "ready" /\ conn[e].open
     \/ user[e] = "waiting" /\ conn[e].sem
  /\ conn[e].state = "OPEN" /\ ReadyForTx(conn[e])
  /\ sent[e] < MsgLimit[e]
  /\ ~TxRoom(conn[e])
  /\ conn' = [conn EXCEPT ![e].sem = @ /\ user[e] = "ready"]
  /\ user' = [user EXCEPT ![e] = "ready"]
  /\ UNCHANGED <<net, hand, retry, backlog, router, envVars, histVars>>

\* csp_send_direct: the interface takes the segment, or fails and csp_send
\* returns 0 although tx_queue holds the copy that csp_rdp_send queued.
SendOut(e) ==
  /\ user[e] = "sending"
  /\ \E ok \in BOOLEAN :
       /\ Outcome(ok)
       /\ Transmit(e, {}, IF ok THEN {hand[e]} ELSE {})
  /\ hand' = [hand EXCEPT ![e] = NoSegment]
  /\ user' = [user EXCEPT ![e] = "ready"]
  /\ UNCHANGED <<conn, retry, backlog, router, picks, reboots, sent, got, eof, accepts>>

Read(e) ==
  /\ user[e] = "ready" /\ conn[e].open /\ conn[e].rx # <<>>
  /\ \E ok, due \in BOOLEAN :
       LET c == [conn[e] EXCEPT !.rx = Tail(@)]
           r == IF DelayedAcks THEN CheckAck(c, due, ok) ELSE Result(c, {})
       IN /\ Outcome(ok)
          /\ conn' = [conn EXCEPT ![e] = r.c]
          /\ Transmit(e, {}, r.out)
  /\ LET x == Head(conn[e].rx)
     IN IF x = Null THEN eof' = [eof EXCEPT ![e] = TRUE] /\ got' = got
        ELSE got' = [got EXCEPT ![e] = Append(@, x)] /\ eof' = eof
  /\ UNCHANGED <<user, hand, retry, backlog, router, picks, reboots, sent, accepts>>

Close(e) ==
  /\ user[e] = "ready" /\ e \in Closers
  /\ \E ok \in BOOLEAN :
       LET r == ConnClose(conn[e], {ByUser}, ok)
       IN /\ Outcome(ok)
          /\ conn' = [conn EXCEPT ![e] = r.c]
          /\ Transmit(e, {}, r.out)
  /\ user' = [user EXCEPT ![e] = IF e = Server THEN "none" ELSE "closed"]
  /\ UNCHANGED <<hand, retry, backlog, router, picks, reboots, histVars>>

----------------------------------------------------------------------------
\* The router task: csp_rdp_check_timeouts

RouterUnchanged == UNCHANGED <<user, hand, retry, backlog, picks, reboots, histVars>>

Checked(e, r, ok) ==
  /\ router[e] # "flush"
  /\ Outcome(ok)
  /\ conn' = [conn EXCEPT ![e] = r.c]
  /\ Transmit(e, {}, r.out)
  /\ router' = [router EXCEPT ![e] = "ready"]
  /\ RouterUnchanged

\* There is nothing to check: no connection, or one that waits to be closed.
CheckNothing(e) ==
  /\ router[e] = "idle"
  /\ ~conn[e].open \/ conn[e].state = "CLOSE_WAIT"
  /\ router' = [router EXCEPT ![e] = "ready"]
  /\ UNCHANGED <<conn, net, fails>>
  /\ RouterUnchanged

\* The user never learned of the connection, and conn_timeout has passed.
LostConnection(e) ==
  /\ ConnTimeouts /\ conn[e].open /\ conn[e].socket
  /\ \E ok \in BOOLEAN : Checked(e, ConnClose(conn[e], ClosedByAll, ok), ok)

CloseWaitTimeout(e) ==
  /\ ConnTimeouts /\ conn[e].open /\ ~conn[e].socket
  /\ conn[e].state = "CLOSE_WAIT"
  /\ \E ok \in BOOLEAN :
       Checked(e, ConnClose(conn[e], {ByProtocol, ByTimeout}, ok), ok)

\* Free what is acknowledged, send again the segments in the set `expired`,
\* then acknowledge and wake the user task.
UnackedAfter(c) == {x \in c.txq : SeqAfter(x.seg.seq, c.una)}  \* mutant: <= for <
UnackedFromLast(c) ==  \* mutant: una is taken for the last acknowledged number
  {x \in c.txq : ~SeqBefore(x.seg.seq, Plus(c.una, SeqMod - 1))}
Unacked(c) == {x \in c.txq : ~SeqBefore(x.seg.seq, c.una)}

\* Mutant: the wake-up is lost.
RetransmittedSilently(c, expired, due, ok) ==
  LET c1 == [c EXCEPT !.txq = Unacked(c)]
      again == IF ok THEN {[x.seg EXCEPT !.ack = c.cur] : x \in expired} ELSE {}
      r == IF DelayedAcks THEN CheckAck(c1, due, ok) ELSE Result(c1, {})
  IN IF c.state # "OPEN" THEN Result(c1, again) ELSE Result(r.c, again \cup r.out)

Retransmitted(c, expired, due, ok) ==
  LET c1 == [c EXCEPT !.txq = Unacked(c)]
      again == IF ok THEN {[x.seg EXCEPT !.ack = c.cur] : x \in expired} ELSE {}
      r == IF DelayedAcks THEN CheckAck(c1, due, ok) ELSE Result(c1, {})
  IN IF c.state # "OPEN" THEN Result(c1, again)
     ELSE Result([r.c EXCEPT !.sem = @ \/ ReadyForTx(c)], again \cup r.out)

CheckMessages(e) ==
  /\ conn[e].open /\ conn[e].state # "CLOSE_WAIT"
  /\ \E ok, due \in BOOLEAN, expired \in SUBSET Unacked(conn[e]) :
       Checked(e, Retransmitted(conn[e], expired, due, ok), ok)

----------------------------------------------------------------------------
\* The router task: csp_rdp_new_packet.  Each action is one way the segment p
\* is handled by connection c of endpoint e.

\* csp_route_work: the connection found, or a new one for a listening server.
Target(e) == IF conn[e].open THEN conn[e] ELSE NewConn(conn[e], TRUE)
Arrives(e, p) ==
  /\ router[e] = "ready" /\ [to |-> e, seg |-> p] \in net
  /\ conn[e].open \/ e = Server

HandledThen(e, p, r, ok, next) ==
  /\ Outcome(ok)
  /\ conn' = [conn EXCEPT ![e] = r.c]
  /\ Transmit(e, {[to |-> e, seg |-> p]}, r.out)
  /\ router' = [router EXCEPT ![e] = next]
  /\ UNCHANGED <<user, hand, retry, reboots>>

Handled(e, p, r, ok) == HandledThen(e, p, r, ok, "idle")

\* No handler below needs more than this unless it accepts a connection.
Quiet == UNCHANGED <<backlog, picks, histVars>>

\* A reset stores the acknowledgement before anything else.
AckOfRst(c, p) == IF "ACK" \in p.flags THEN [c EXCEPT !.una = Plus(p.ack, 1)] ELSE c

\* csp_route_work finds neither connection nor socket.
DropUnknown(e, p) ==
  /\ router[e] = "ready" /\ [to |-> e, seg |-> p] \in net
  /\ ~conn[e].open /\ e # Server
  /\ Handled(e, p, Result(conn[e], {}), TRUE) /\ Quiet

RstInClosed(e, p) ==
  /\ Arrives(e, p) /\ "RST" \in p.flags /\ Target(e).state = "CLOSED"
  /\ LET c == AckOfRst(Target(e), p)
     IN Handled(e, p, IF c.socket THEN ConnClose(c, {ByUser}, TRUE) ELSE Result(c, {}), TRUE)
  /\ Quiet

RstInCloseWait(e, p) ==
  /\ Arrives(e, p) /\ "RST" \in p.flags /\ Target(e).state = "CLOSE_WAIT"
  /\ LET by == IF FastClose /\ "ACK" \in p.flags
               THEN {ByProtocol, ByTimeout} ELSE {ByProtocol}
     IN Handled(e, p, DiscardClose(AckOfRst(Target(e), p), by, TRUE), TRUE)
  /\ Quiet

\* The comparison is made on ints: rcv_cur + 1 does not wrap.
RstIsNext(c, p) == p.seq = c.cur + 1

RstInSequence(e, p) ==
  /\ Arrives(e, p) /\ "RST" \in p.flags
  /\ Target(e).state \notin {"CLOSED", "CLOSE_WAIT"} /\ RstIsNext(Target(e), p)
  /\ \E ok \in BOOLEAN :
       LET c == [AckOfRst(Target(e), p) EXCEPT !.state = "CLOSE_WAIT"]
           r == SendCmp(c, Cmp({"ACK", "RST"}, c.nxt, c.cur), ok)
           by == IF FastClose THEN {ByProtocol, ByTimeout} ELSE {ByProtocol}
           d == DiscardClose(r.c, by, ok)
       IN Handled(e, p, Result(d.c, r.out \cup d.out), ok)
  /\ Quiet

RstOutOfSequence(e, p) ==
  /\ Arrives(e, p) /\ "RST" \in p.flags
  /\ Target(e).state \notin {"CLOSED", "CLOSE_WAIT"} /\ ~RstIsNext(Target(e), p)
  /\ Handled(e, p, Result(AckOfRst(Target(e), p), {}), TRUE) /\ Quiet

\* From here on p is not a reset.
Receives(e, p, states) ==
  Arrives(e, p) /\ "RST" \notin p.flags /\ Target(e).state \in states

NoSynInClosed(e, p) ==
  /\ Receives(e, p, {"CLOSED"}) /\ "SYN" \notin p.flags
  /\ \E ok \in BOOLEAN :
       LET c == Target(e)
           r == SendCmp(c, Cmp({"RST"}, c.nxt, c.cur), ok)
           d == DiscardClose(r.c, {ByProtocol}, ok)
       IN Handled(e, p, Result(d.c, r.out \cup d.out), ok)
  /\ Quiet

SynInClosed(e, p) ==
  /\ Receives(e, p, {"CLOSED"}) /\ "SYN" \in p.flags
  /\ CanPick(e)
  /\ LET c == [Target(e) EXCEPT
                 !.iss = Pick(e), !.nxt = Plus(Pick(e), 1), !.una = Pick(e),
                 !.cur = p.seq, !.irs = p.seq, !.lsa = p.seq,
                 !.state = "SYN_RCVD"]
     IN \E ok, cloned \in BOOLEAN : Handled(e, p, SendSynAck(c, cloned, ok), ok)
  /\ picks' = [picks EXCEPT ![e] = @ + 1]
  /\ sent' = [sent EXCEPT ![e] = 0]
  /\ got' = [got EXCEPT ![e] = <<>>]
  /\ eof' = [eof EXCEPT ![e] = FALSE]
  /\ UNCHANGED <<backlog, accepts>>

SynAckInSynSent(e, p) ==
  /\ Receives(e, p, {"SYN_SENT"}) /\ {"SYN", "ACK"} \subseteq p.flags
  /\ LET c == [Target(e) EXCEPT
                 !.cur = p.seq, !.irs = p.seq, !.lsa = (p.seq - 1) % SeqMod,
                 !.una = Plus(p.ack, 1), !.state = "OPEN", !.sem = TRUE]
     IN \E ok \in BOOLEAN :
          Handled(e, p, SendCmp(c, Cmp({"ACK"}, c.nxt, c.cur), ok), ok)
  /\ Quiet

\* The SYN hit a connection that was already open: reset it and try again.
\* (A segment with neither SYN/ACK nor ACK never comes to SYN_SENT: what is
\* sent without ACK is the client's SYN, or a reset.)
HalfOpen(e, p) ==
  /\ Receives(e, p, {"SYN_SENT"}) /\ "ACK" \in p.flags /\ "SYN" \notin p.flags
  /\ LET c == [Target(e) EXCEPT !.sem = TRUE]
     IN \E ok \in BOOLEAN :
          Handled(e, p, SendCmp(c, Cmp({"RST"}, c.nxt, c.cur), ok), ok)
  /\ Quiet

BadFlags(p) == "SYN" \in p.flags \/ "ACK" \notin p.flags

DuplicateSyn(e, p) ==
  /\ Receives(e, p, {"SYN_RCVD", "OPEN"}) /\ BadFlags(p) /\ p.seq = Target(e).irs
  /\ Handled(e, p, Result(Target(e), {}), TRUE) /\ Quiet

InvalidSyn(e, p) ==
  /\ Receives(e, p, {"SYN_RCVD", "OPEN"}) /\ BadFlags(p) /\ p.seq # Target(e).irs
  /\ \E ok \in BOOLEAN : Handled(e, p, DiscardClose(Target(e), {ByProtocol}, ok), ok)
  /\ Quiet

SeqInWindow(c, p) == SeqBetween(p.seq, c.cur + 1, c.cur + 2 * Window)
AckInWindow(c, p) == SeqBetween(p.ack, c.una - 1 - 2 * Window, c.nxt - 1)

OutOfWindow(e, p) ==
  /\ Receives(e, p, {"SYN_RCVD", "OPEN"}) /\ ~BadFlags(p) /\ ~SeqInWindow(Target(e), p)
  /\ \E ok, cloned \in BOOLEAN :
       Handled(e, p, IF Target(e).state = "SYN_RCVD" THEN SendSynAck(Target(e), cloned, ok)
                     ELSE SendEack(Target(e), ok), ok)
  /\ Quiet

InvalidAck(e, p) ==
  /\ Receives(e, p, {"SYN_RCVD", "OPEN"}) /\ ~BadFlags(p)
  /\ SeqInWindow(Target(e), p) /\ ~AckInWindow(Target(e), p)
  /\ Handled(e, p, Result(Target(e), {}), TRUE) /\ Quiet

Acceptable(e, p, states) ==
  /\ Receives(e, p, states) /\ ~BadFlags(p)
  /\ SeqInWindow(Target(e), p) /\ AckInWindow(Target(e), p)

AcksAny(c, p) == TRUE  \* mutant: the check is dropped
AcksIss(c, p) == p.ack = c.iss

WrongAckInSynRcvd(e, p) ==
  /\ Acceptable(e, p, {"SYN_RCVD"}) /\ ~AcksIss(Target(e), p)
  /\ \E ok \in BOOLEAN : Handled(e, p, DiscardClose(Target(e), {ByProtocol}, ok), ok)
  /\ Quiet

\* The handshake is complete but the socket cannot queue the connection, which
\* counts as the failure; the reset that follows may be sent or fail as well.
BacklogFull(e, p) ==
  /\ Acceptable(e, p, {"SYN_RCVD"}) /\ AcksIss(Target(e), p) /\ Target(e).socket
  /\ \E sends \in BOOLEAN :
       Handled(e, p, DiscardClose([Target(e) EXCEPT !.state = "OPEN"], {ByProtocol}, sends),
               FALSE)
  /\ Quiet

TakenStays(c, p) == Enqueue(c, p.data)  \* mutant: rcv_cur is not updated
Taken(c, p) == [Enqueue(c, p.data) EXCEPT !.cur = p.seq]

\* The rest of the handler, for a connection that is open.
HandleData(c0, p, due, ok) ==
  LET c == [c0 EXCEPT !.una = Plus(p.ack, 1)]
      inSequence == p.seq = Plus(c.cur, 1)
      storable == ~InRxQueue(c, p.seq) /\ Cardinality(c.rxq) < 2 * MaxWindow
      stored == [c EXCEPT !.rxq = @ \cup {[seq |-> p.seq, data |-> p.data]}]
  IN IF "EAK" \in p.flags THEN Result(FlushEack(c, p.eacks), {})
     ELSE IF p.data = NoData THEN Result(c, {})
     ELSE IF ~inSequence
          THEN IF storable THEN SendEack(stored, ok) ELSE CheckAck(c, due, ok)
     ELSE IF ~HasRoom(c) THEN Result(c, {})
     ELSE CheckAck(Taken(c, p), due, ok)

\* Only data taken in sequence is followed by csp_rdp_rx_queue_flush.
HandledData(e, p, c, due, ok) ==
  LET r == HandleData(c, p, due, ok)
  IN HandledThen(e, p, r, ok,
       IF r.c.cur # c.cur /\ NextStored(r.c) # {} THEN "flush" ELSE "idle")

DataInOpen(e, p) ==
  /\ Acceptable(e, p, {"OPEN"})
  /\ \E ok, due \in BOOLEAN : HandledData(e, p, Target(e), due, ok)
  /\ Quiet

FlushNext(e) ==
  /\ router[e] = "flush"
  /\ \E s \in NextStored(conn[e]) :
       LET c == FlushOne(conn[e], s)
       IN /\ conn' = [conn EXCEPT ![e] = c]
          /\ router' = [router EXCEPT ![e] = IF NextStored(c) # {} THEN "flush" ELSE "idle"]
  /\ UNCHANGED <<net, user, hand, retry, backlog, envVars, histVars>>

OpenedKept(c) == [c EXCEPT !.state = "OPEN"]  \* mutant: conn->socket is not reset
Opened(c) == [c EXCEPT !.state = "OPEN", !.socket = FALSE]

HandshakeDone(e, p) ==
  /\ Acceptable(e, p, {"SYN_RCVD"}) /\ AcksIss(Target(e), p)
  /\ \E ok, due \in BOOLEAN : HandledData(e, p, Opened(Target(e)), due, ok)
  /\ backlog' = (backlog \/ Target(e).socket)
  /\ UNCHANGED <<picks, histVars>>

IgnoredInCloseWait(e, p) ==
  /\ Receives(e, p, {"CLOSE_WAIT"})
  /\ BadFlags(p) \/ ~AckInWindow(Target(e), p)
  /\ Handled(e, p, Result(Target(e), {}), TRUE) /\ Quiet

AckInCloseWait(e, p) ==
  /\ Receives(e, p, {"CLOSE_WAIT"}) /\ ~BadFlags(p) /\ AckInWindow(Target(e), p)
  /\ LET c == [Target(e) EXCEPT !.una = Plus(p.ack, 1)]
     IN \E ok \in BOOLEAN :
          Handled(e, p, SendCmp(c, Cmp({"ACK", "RST"}, c.nxt, c.cur), ok), ok)
  /\ Quiet

NewPacket(e, p) ==
  \/ DropUnknown(e, p)
  \/ RstInClosed(e, p) \/ RstInCloseWait(e, p)
  \/ RstInSequence(e, p) \/ RstOutOfSequence(e, p)
  \/ NoSynInClosed(e, p) \/ SynInClosed(e, p)
  \/ SynAckInSynSent(e, p) \/ HalfOpen(e, p)
  \/ DuplicateSyn(e, p) \/ InvalidSyn(e, p)
  \/ OutOfWindow(e, p) \/ InvalidAck(e, p)
  \/ WrongAckInSynRcvd(e, p) \/ BacklogFull(e, p) \/ HandshakeDone(e, p)
  \/ DataInOpen(e, p)
  \/ IgnoredInCloseWait(e, p) \/ AckInCloseWait(e, p)

----------------------------------------------------------------------------
\* The environment

Lose(m) ==
  /\ m \in net
  /\ net' = net \ {m}
  /\ UNCHANGED <<conn, user, hand, retry, backlog, router, envVars, histVars>>

\* The client's computer restarts and comes up with the same port numbers.
Reboot ==
  /\ reboots < MaxReboot /\ reboots' = reboots + 1
  /\ user[Client] # "none"
  /\ conn' = [conn EXCEPT ![Client] = InitConn]
  /\ user' = [user EXCEPT ![Client] = "none"]
  /\ hand' = [hand EXCEPT ![Client] = NoSegment]
  /\ retry' = TRUE
  /\ router' = [router EXCEPT ![Client] = "idle"]
  /\ UNCHANGED <<net, backlog, picks, fails, histVars>>

UserTask(e) ==
  \/ SendBlocks(e) \/ SendWakes(e) \/ SendTimeout(e)
  \/ RdpSend(e) \/ SendNoBufs(e) \/ SendOut(e)
  \/ Read(e) \/ Close(e)

Connecting ==
  \/ Connect \/ ConnectOpened \/ ConnectRetry \/ ConnectRefused \/ ConnectTimeout

CheckTimeouts(e) ==
  \/ CheckNothing(e) \/ LostConnection(e) \/ CloseWaitTimeout(e) \/ CheckMessages(e)

Arrival == \E m \in net : NewPacket(m.to, m.seg)

Next ==
  \/ Connecting
  \/ Accept
  \/ \E e \in Endpoint : UserTask(e) \/ CheckTimeouts(e) \/ FlushNext(e)
  \/ Arrival
  \/ \E m \in net : Lose(m)
  \/ Reboot

Spec == Init /\ [][Next]_vars

----------------------------------------------------------------------------
\* Properties

Conn ==
  [open : BOOLEAN, socket : BOOLEAN, state : RdpStates, closedBy : SUBSET ClosedByAll,
   nxt : SeqNr, una : SeqNr, iss : SeqNr, cur : SeqNr, irs : SeqNr, lsa : SeqNr,
   txq : SUBSET [copy : Nat, seg : Segment], rxq : SUBSET [seq : SeqNr, data : Payload],
   rx : Seq(Payload), sem : BOOLEAN]

TypeOK ==
  /\ conn \in [Endpoint -> Conn] /\ \A e \in Endpoint : IsFiniteSet(conn[e].txq)
  /\ net \in SUBSET [to : Endpoint, seg : Segment]
  /\ user \in [Endpoint -> {"none", "connecting", "ready", "waiting", "sending", "closed"}]
  /\ hand \in [Endpoint -> Segment]
  /\ retry \in BOOLEAN /\ backlog \in BOOLEAN
  /\ router \in [Endpoint -> {"idle", "ready", "flush"}]
  /\ picks \in [Endpoint -> Nat] /\ fails \in Nat /\ reboots \in Nat
  /\ sent \in [Endpoint -> Nat]
  /\ got \in [Endpoint -> Seq(Payload)]
  /\ eof \in [Endpoint -> BOOLEAN]
  /\ accepts \in Nat

\* The messages of a queue, without NULL packets.
Messages(q) ==
  LET kept[i \in 0..Len(q)] ==
        IF i = 0 THEN <<>> ELSE IF q[i] = Null THEN kept[i - 1] ELSE Append(kept[i - 1], q[i])
  IN kept[Len(q)]

\* What has reached the user of e: read already, or waiting in its queue.
Delivered(e) == got[e] \o Messages(conn[e].rx)

\* On one connection the user never gets a message twice, never out of order
\* and never one of an earlier connection, though segments are repeated,
\* delayed and stored out of order (csp_rdp_new_packet, csp_rdp_rx_queue_*).
InOrderOnce ==
  \A e \in Endpoint :
    LET d == got[e] \o conn[e].rx
    IN \A i, j \in 1..Len(d) :
         i < j /\ d[i] # Null /\ d[j] # Null => d[i][1] = d[j][1] /\ d[i][2] < d[j][2]

BothOpen == \A e \in Endpoint : conn[e].open /\ conn[e].state = "OPEN"
Synchronised == BothOpen /\ \A e \in Endpoint : conn[e].irs = conn[Peer(e)].iss

\* A message csp_rdp_send has accepted is always somewhere: with the sender,
\* to be sent again, with the receiver, to be put in order, or with the user.
\* Acknowledgements (csp_rdp_check_ack, csp_rdp_send_eack) free it too early
\* if they cover what the receiver does not keep.
Custody ==
  Synchronised =>
    \A e \in Endpoint : \A n \in 1..sent[e] :
      LET x == <<picks[e], n>>
          d == Delivered(Peer(e))
      IN \/ \E i \in 1..Len(d) : d[i] = x
         \/ \E t \in conn[e].txq : t.seg.data = x
         \/ \E s \in conn[Peer(e)].rxq : s.data = x

\* The sender is never more than a window ahead of what the receiver has taken
\* in sequence (csp_rdp_is_conn_ready_for_tx), although acknowledgements that
\* arrive late move snd_una backwards.
WithinReceiveWindow ==
  Synchronised =>
    \A e \in Endpoint : (conn[e].nxt - 1 - conn[Peer(e)].cur) % SeqMod <= Window

\* When csp_rdp_send would refuse what the window allows, because tx_queue is
\* full, it is full of segments that are acknowledged: the next
\* csp_rdp_check_timeouts frees them, and the send can be tried again.
RefusalIsTransient ==
  \A e \in Endpoint :
    LET c == conn[e]
    IN c.state = "OPEN" /\ ReadyForTx(c) /\ ~TxRoom(c) => Cardinality(Unacked(c)) < MaxWindow

\* A user whose connection was closed by its peer has read the NULL packet that
\* says so, or will find it in its queue (discard_close of csp_rdp_new_packet).
PeerCloseIsTold ==
  \A e \in Endpoint :
    conn[e].open /\ ByProtocol \in conn[e].closedBy /\ ByUser \notin conn[e].closedBy
      => eof[e] \/ \E i \in 1..Len(conn[e].rx) : conn[e].rx[i] = Null

\* The slot of a connection is freed, to be given to someone else, only when no
\* user task holds the connection and none can be handed it by csp_accept.
ReleasedOnlyWhenUnused ==
  [][\A e \in Endpoint :
       conn[e].open /\ ~conn'[e].open
         => user'[e] \in {"none", "closed"} /\ (e = Server => ~backlog')]_vars

\* csp_accept never returns more connections than the client has asked for:
\* repeated and delayed SYNs do not make up a connection of their own.
NoGhostAccept == accepts <= picks[Client]

\* A reset that follows rcv_cur, modulo the size of the number space, is never
\* taken for one that is out of sequence.
InSequenceRstCloses ==
  [][\A m \in net :
       m.seg.seq = Plus(conn[m.to].cur, 1) => ~RstOutOfSequence(m.to, m.seg)]_vars

----------------------------------------------------------------------------
\* RDP implements the two queues of module Link, on a connection that stays.

Numbers(xs) == [i \in 1..Len(xs) |-> xs[i][2]]

Queues == INSTANCE Link WITH
            End <- Endpoint,
            Message <- 1..(MsgLimit[Client] + MsgLimit[Server]),
            accepted <- [e \in Endpoint |-> [n \in 1..sent[e] |-> n]],
            delivered <- [e \in Endpoint |-> Numbers(Delivered(Peer(e)))]

\* Each direction of a connection is a queue: a message is delivered once, in
\* the order of csp_send, and only what was sent is delivered.
IsQueue == Queues!Spec

----------------------------------------------------------------------------
\* Why a slot is only released when nobody uses it.

\* The user task of e neither holds the connection nor will csp_accept give it
\* the connection.
UserDone(e) == user[e] \in {"none", "closed"} /\ (e = Server => ~backlog)

\* The fields of a connection agree with each other, and with whether its user
\* is done with it.
SlotOK(c, done) ==
  /\ ~c.open => c.state = "CLOSED" /\ done
  /\ c.open => c.state # "CLOSED"
  /\ c.closedBy # {} => c.state = "CLOSE_WAIT"
  /\ ByUser \in c.closedBy => done
  /\ c.open /\ c.socket => done

\* Who has closed a connection, in what state it is and which task holds it:
\* the csp_conn_t is CLOSED and free, or open and then its user has closed it,
\* or has never been given it, or still holds it.
SlotInv ==
  /\ \A e \in Endpoint : SlotOK(conn[e], UserDone(e))
  /\ conn[Client].open => ~conn[Client].socket
  /\ user[Server] # "closed" /\ (backlog => user[Server] = "none")

----------------------------------------------------------------------------
\* Fairness

\* csp_rdp_check_timeouts, called again and again, in the end finds every timer
\* of an open connection expired and sends what it has to.
ResendAll(e) ==
  /\ conn[e].open /\ conn[e].state # "CLOSE_WAIT"
  /\ Checked(e, Retransmitted(conn[e], Unacked(conn[e]), TRUE, TRUE), TRUE)

\* A task that waits for the window and has been woken looks at it again.
Resumes(e) == user[e] = "waiting" /\ (SendWakes(e) \/ RdpSend(e) \/ SendNoBufs(e))

\* The link holds nothing back for ever: what is on its way to e arrives or is
\* lost before the timers have filled the link again.
LinkDelivers(e) == []<>(\A m \in net : m.to # e)

Senders == {e \in Endpoint : MsgLimit[e] > 0}

Fairness ==
  /\ WF_vars(ConnectOpened) /\ WF_vars(Accept)
  /\ \A e \in Endpoint :
       /\ WF_vars(Read(e)) /\ WF_vars(FlushNext(e))
       /\ WF_vars(CheckTimeouts(e)) /\ SF_vars(ResendAll(e))
       /\ WF_vars(LostConnection(e)) /\ WF_vars(CloseWaitTimeout(e))
       /\ LinkDelivers(e)
  /\ \A e \in Senders : WF_vars(Resumes(e)) /\ SF_vars(SendOut(e))

FairSpec == Spec /\ Fairness

LosesNothing == [][\A m \in net : ~Lose(m)]_vars

Closed(e) == ~conn[e].open \/ conn[e].closedBy # {}
AllRead(e) == Len(got[Peer(e)]) >= sent[e] \/ \E f \in Endpoint : Closed(f)

\* Once the link stops losing segments, the other user catches up again and
\* again with all that csp_send has accepted, unless an end closes the
\* connection first, and no task waits for the window for ever: retransmission,
\* the window, its wake-ups (csp_rdp_check_timeouts) and the acknowledgements
\* that are delayed or withheld (csp_rdp_check_ack) never wait for each other.
EventuallyRead ==
  <>LosesNothing => \A e \in Endpoint : []<>AllRead(e) /\ []<>(user[e] # "waiting")

\* A connection its user has closed gives its slot back in the end, whether the
\* peer answers the reset or not.
ClosedSlotReturns == \A e \in Endpoint : ByUser \in conn[e].closedBy ~> ~conn[e].open

=============================================================================
