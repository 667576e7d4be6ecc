------------------------------ MODULE RdpProofs ------------------------------
(***************************************************************************)
(* Proofs about module Rdp, for every value of its constants: that its     *)
(* variables keep their types, that the slot of a connection is only freed *)
(* when no user task holds the connection, and that a connection which no  *)
(* user, timeout or reboot ends implements a queue in each direction: what *)
(* csp_rdp_send accepts is always somewhere, arrives once and in order,    *)
(* and is never more than a window ahead.                                  *)
(***************************************************************************)
EXTENDS Rdp, FiniteSetTheorems, SequenceTheorems, WellFoundedInduction, TLAPS

----------------------------------------------------------------------------
\* What the operators of Rdp return.

\* Arithmetic on sequence numbers stays among them.
LEMMA PlusType == ASSUME NEW a \in Int, NEW b \in Int PROVE Plus(a, b) \in SeqNr
  BY SeqModAssumption DEF Plus, SeqNr

\* A sequence number less one is a sequence number, as in rcv_lsa = seq_nr - 1.
LEMMA MinusType == ASSUME NEW a \in Int PROVE (a - 1) % SeqMod \in SeqNr
  BY SeqModAssumption DEF SeqNr

\* A control message is a segment.
LEMMA CmpType ==
  ASSUME NEW flags \in SUBSET {"SYN", "ACK", "EAK", "RST"}, NEW s \in SeqNr, NEW a \in SeqNr
  PROVE Cmp(flags, s, a) \in Segment
  BY SeqModAssumption DEF Cmp, Segment, NoData, Payload, SeqNr

ConnOK(c) == c \in Conn /\ IsFiniteSet(c.txq)
ResultOK(r) == ConnOK(r.c) /\ r.out \in SUBSET Segment

\* A connection and what it has sent make a result.
LEMMA ResultType ==
  ASSUME NEW c, NEW out, ConnOK(c), out \in SUBSET Segment
  PROVE ResultOK(Result(c, out))
  BY DEF ResultOK, Result

\* csp_rdp_send_cmp leaves a connection and sends a segment.
LEMMA SendCmpType ==
  ASSUME NEW c, ConnOK(c), NEW seg \in Segment, NEW ok
  PROVE ResultOK(SendCmp(c, seg, ok))
  BY DEF SendCmp, ResultOK, Result, ConnOK, Conn, Segment

\* A control message with the numbers of the connection itself.
LEMMA SendOwnType ==
  ASSUME NEW c, ConnOK(c), NEW ok,
         NEW flags \in SUBSET {"SYN", "ACK", "EAK", "RST"}
  PROVE ResultOK(SendCmp(c, Cmp(flags, c.nxt, c.cur), ok))
<1>1. c.nxt \in SeqNr /\ c.cur \in SeqNr
  BY DEF ConnOK, Conn
<1> QED
  BY <1>1, CmpType, SendCmpType

\* A copy in tx_queue is one more element of a finite set.
LEMMA TxQueuedType ==
  ASSUME NEW c, ConnOK(c), NEW seg \in Segment
  PROVE ConnOK([c EXCEPT !.txq = TxQueued(@, seg)])
<1> DEFINE stored == [seg EXCEPT !.ack = 0]
           same == {x \in c.txq : x.seg = stored}
<1>1. IsFiniteSet(same) /\ Cardinality(same) \in Nat
  BY FS_Subset, FS_CardinalityType DEF ConnOK
<1>2. stored \in Segment
  BY SeqModAssumption DEF Segment, SeqNr
<1>3. [copy |-> Cardinality(same), seg |-> stored] \in [copy : Nat, seg : Segment]
  BY <1>1, <1>2
<1>4. TxQueued(c.txq, seg) \in SUBSET [copy : Nat, seg : Segment]
  BY <1>3 DEF TxQueued, ConnOK, Conn
<1>5. IsFiniteSet(TxQueued(c.txq, seg))
  BY FS_AddElement DEF TxQueued, ConnOK
<1> QED
  BY <1>4, <1>5 DEF ConnOK, Conn

\* csp_rdp_send_syn: a SYN is queued and sent.
LEMMA SendSynType ==
  ASSUME NEW c, ConnOK(c), NEW seg \in Segment, NEW cloned, NEW ok
  PROVE ResultOK(SendSyn(c, seg, cloned, ok))
  BY TxQueuedType, SendCmpType DEF SendSyn

\* The SYN/ACK carries the numbers of the connection.
LEMMA SendSynAckType ==
  ASSUME NEW c, ConnOK(c), NEW cloned, NEW ok
  PROVE ResultOK(SendSynAck(c, cloned, ok))
<1>1. c.iss \in SeqNr /\ c.irs \in SeqNr
  BY DEF ConnOK, Conn
<1> QED
  BY <1>1, CmpType, SendSynType DEF SendSynAck

\* csp_rdp_send_eack lists the numbers of the stored segments.
LEMMA SendEackType ==
  ASSUME NEW c, ConnOK(c), NEW ok
  PROVE ResultOK(SendEack(c, ok))
<1> DEFINE seg == Cmp({"ACK", "EAK"}, c.nxt, c.cur)
           eacks == {s.seq : s \in c.rxq}
<1>1. c.nxt \in SeqNr /\ c.cur \in SeqNr /\ eacks \in SUBSET SeqNr
  BY DEF ConnOK, Conn
<1>2. seg \in Segment
  BY <1>1, CmpType
<1>3. [seg EXCEPT !.eacks = eacks] \in Segment
  BY <1>1, <1>2 DEF Segment
<1> QED
  BY <1>3, SendCmpType DEF SendEack

\* csp_rdp_check_ack sends an acknowledgement or nothing.
LEMMA CheckAckType ==
  ASSUME NEW c, ConnOK(c), NEW due, NEW ok
  PROVE ResultOK(CheckAck(c, due, ok))
<1>1. ResultOK(SendCmp(c, Cmp({"ACK"}, c.nxt, c.cur), ok))
  BY SendOwnType
<1>2. ResultOK(Result(c, {}))
  BY ResultType
<1> QED
  BY <1>1, <1>2 DEF CheckAck

\* csp_conn_enqueue_packet adds to the user's queue or drops.
LEMMA EnqueueType ==
  ASSUME NEW c, ConnOK(c), NEW x \in Payload
  PROVE ConnOK(Enqueue(c, x))
<1>1. c.rx \in Seq(Payload)
  BY DEF ConnOK, Conn
<1>2. Append(c.rx, x) \in Seq(Payload)
  BY <1>1
<1>3. ConnOK([c EXCEPT !.rx = Append(@, x)])
  BY <1>2 DEF ConnOK, Conn
<1> QED
  BY <1>3 DEF Enqueue

\* The NULL packet and an empty segment are payloads.
LEMMA NullType == Null \in Payload /\ NoData \in Payload
  BY DEF Null, NoData, Payload

\* One round of csp_rdp_rx_queue_flush.
LEMMA FlushOneType ==
  ASSUME NEW c, ConnOK(c), NEW s \in c.rxq
  PROVE ConnOK(FlushOne(c, s))
<1>1. s \in [seq : SeqNr, data : Payload]
  BY DEF ConnOK, Conn
<1>2. ConnOK(Enqueue(c, s.data))
  BY <1>1, EnqueueType
<1> QED
  BY <1>1, <1>2 DEF FlushOne, ConnOK, Conn

\* csp_rdp_flush_eack only removes from tx_queue.
LEMMA FlushEackType ==
  ASSUME NEW c, ConnOK(c), NEW eacks
  PROVE ConnOK(FlushEack(c, eacks))
<1>1. IsFiniteSet({x \in c.txq : x.seg.seq \notin eacks})
  BY FS_Subset DEF ConnOK
<1> QED
  BY <1>1 DEF FlushEack, ConnOK, Conn

\* csp_conn_new keeps what the slot held.
LEMMA NewConnType ==
  ASSUME NEW c, ConnOK(c), NEW socket \in BOOLEAN
  PROVE ConnOK(NewConn(c, socket))
<1>1. <<>> \in Seq(Payload)
  OBVIOUS
<1> QED
  BY <1>1 DEF NewConn, ConnOK, Conn

\* csp_conn_close empties the queues of the slot.
LEMMA ReleasedType ==
  ASSUME NEW c, ConnOK(c)
  PROVE ConnOK(Released(c))
<1>1. <<>> \in Seq(Payload) /\ IsFiniteSet({})
  BY FS_EmptySet
<1> QED
  BY <1>1 DEF Released, ConnOK, Conn

\* csp_rdp_close only adds to closed_by and changes the state.
LEMMA RdpCloseType ==
  ASSUME NEW c, ConnOK(c), NEW by \in SUBSET ClosedByAll, NEW rst, NEW ok
  PROVE ResultOK(RdpClose(c, by, rst, ok))
<1> DEFINE entering == c.state # "CLOSE_WAIT"
           c1 == [c EXCEPT !.closedBy = ClosedBy(@, by), !.state = "CLOSE_WAIT",
                           !.sem = @ \/ entering]
           r == IF entering /\ rst
                THEN SendCmp(c1, Cmp({"ACK", "RST"}, c.nxt, c.cur), ok)
                ELSE Result(c1, {})
<1>1. ConnOK(c1) /\ c1.nxt = c.nxt /\ c1.cur = c.cur
  BY DEF ClosedBy, ConnOK, Conn, RdpStates
<1>2. ResultOK(r)
  BY <1>1, SendOwnType, ResultType
<1>3. ResultOK(Result([r.c EXCEPT !.state = "CLOSED", !.closedBy = {}], r.out))
  <2>1. ConnOK(r.c) /\ r.out \in SUBSET Segment
    BY <1>2 DEF ResultOK
  <2> HIDE DEF r
  <2>2. ConnOK([r.c EXCEPT !.state = "CLOSED", !.closedBy = {}])
    BY <2>1 DEF ConnOK, Conn, RdpStates
  <2> QED
    BY <2>1, <2>2, ResultType
<1>4. ResultOK(Result(c, {}))
  BY ResultType
<1> HIDE DEF r
<1> QED
  BY <1>2, <1>3, <1>4 DEF RdpClose, r

\* csp_conn_close ends with the connection or with a free slot.
LEMMA ConnCloseType ==
  ASSUME NEW c, ConnOK(c), NEW by \in SUBSET ClosedByAll, NEW ok
  PROVE ResultOK(ConnClose(c, by, ok))
<1> DEFINE r == RdpClose(c, by, TRUE, ok)
<1>1. ResultOK(r)
  BY RdpCloseType
<1>2. ResultOK(Result(Released(r.c), r.out))
  BY <1>1, ReleasedType, ResultType DEF ResultOK
<1>3. ResultOK(Result(c, {}))
  BY ResultType
<1> HIDE DEF r
<1> QED
  BY <1>1, <1>2, <1>3 DEF ConnClose, r

\* The label discard_close.
LEMMA DiscardCloseType ==
  ASSUME NEW c, ConnOK(c), NEW by \in SUBSET ClosedByAll, NEW ok
  PROVE ResultOK(DiscardClose(c, by, ok))
<1>1. ByUser \in ClosedByAll
  BY DEF ClosedByAll
<1>2. ResultOK(ConnClose(c, by \cup {ByUser}, ok)) /\ ResultOK(ConnClose(c, by, ok))
  BY <1>1, ConnCloseType
<1>3. ResultOK(Result(Enqueue(ConnClose(c, by, ok).c, Null), ConnClose(c, by, ok).out))
  BY <1>2, EnqueueType, NullType, ResultType DEF ResultOK
<1> QED
  BY <1>2, <1>3 DEF DiscardClose

\* The part of csp_rdp_check_timeouts that sends again.
LEMMA RetransmittedType ==
  ASSUME NEW c, ConnOK(c), NEW expired \in SUBSET Unacked(c), NEW due, NEW ok
  PROVE ResultOK(Retransmitted(c, expired, due, ok))
<1> DEFINE c1 == [c EXCEPT !.txq = Unacked(c)]
           again == IF ok THEN {[x.seg EXCEPT !.ack = c.cur] : x \in expired} ELSE {}
           r == IF DelayedAcks THEN CheckAck(c1, due, ok) ELSE Result(c1, {})
<1>1. Unacked(c) \subseteq c.txq /\ IsFiniteSet(Unacked(c))
  BY FS_Subset DEF Unacked, ConnOK
<1>2. ConnOK(c1)
  BY <1>1 DEF ConnOK, Conn
<1>3. again \in SUBSET Segment
  BY <1>1 DEF ConnOK, Conn, Segment
<1>4. ResultOK(r)
  BY <1>2, CheckAckType, ResultType
<1> HIDE DEF c1, again, r
<1>5. ConnOK([r.c EXCEPT !.sem = @ \/ ReadyForTx(c)]) /\ again \cup r.out \in SUBSET Segment
  BY <1>3, <1>4 DEF ResultOK, ConnOK, Conn
<1>6. ResultOK(Result([r.c EXCEPT !.sem = @ \/ ReadyForTx(c)], again \cup r.out))
  BY <1>5, ResultType
<1>7. ResultOK(Result(c1, again))
  BY <1>2, <1>3, ResultType
<1> QED
  BY <1>6, <1>7 DEF Retransmitted, c1, again, r

\* The part of csp_rdp_new_packet that takes data.
LEMMA HandleDataType ==
  ASSUME NEW c0, ConnOK(c0), NEW p \in Segment, NEW due, NEW ok
  PROVE ResultOK(HandleData(c0, p, due, ok))
<1> DEFINE c == [c0 EXCEPT !.una = Plus(p.ack, 1)]
           stored == [c EXCEPT !.rxq = @ \cup {[seq |-> p.seq, data |-> p.data]}]
<1>1. /\ p.seq \in SeqNr /\ p.ack \in SeqNr /\ p.data \in Payload
      /\ Plus(p.ack, 1) \in SeqNr
  BY PlusType DEF Segment, SeqNr
<1>2. ConnOK(c)
  BY <1>1 DEF ConnOK, Conn
<1> HIDE DEF c
<1>3. ConnOK(stored)
  <2>1. [seq |-> p.seq, data |-> p.data] \in [seq : SeqNr, data : Payload]
    BY <1>1
  <2>2. c.rxq \cup {[seq |-> p.seq, data |-> p.data]} \in SUBSET [seq : SeqNr, data : Payload]
    BY <2>1, <1>2 DEF ConnOK, Conn
  <2> QED
    BY <2>2, <1>2 DEF ConnOK, Conn
<1>4. ConnOK(Taken(c, p))
  BY <1>1, <1>2, EnqueueType DEF Taken, ConnOK, Conn
<1> HIDE DEF stored
<1>5. ResultOK(SendEack(stored, ok)) /\ ResultOK(CheckAck(c, due, ok))
  BY <1>2, <1>3, SendEackType, CheckAckType
<1>6. ResultOK(CheckAck(Taken(c, p), due, ok))
  BY <1>4, CheckAckType
<1>7. ResultOK(Result(FlushEack(c, p.eacks), {})) /\ ResultOK(Result(c, {}))
  BY <1>2, FlushEackType, ResultType
<1> QED
  BY <1>5, <1>6, <1>7 DEF HandleData, c, stored

\* The acknowledgement a reset carries.
LEMMA AckOfRstType ==
  ASSUME NEW c, ConnOK(c), NEW p \in Segment
  PROVE ConnOK(AckOfRst(c, p))
<1>1. Plus(p.ack, 1) \in SeqNr
  BY PlusType DEF Segment, SeqNr
<1> QED
  BY <1>1 DEF AckOfRst, ConnOK, Conn

----------------------------------------------------------------------------
\* The parts of TypeOK that the frames of the actions keep.

LinkType ==
  /\ \A e \in Endpoint : ConnOK(conn[e])
  /\ conn \in [Endpoint -> Conn]
  /\ net \in SUBSET [to : Endpoint, seg : Segment]
  /\ fails \in Nat

TaskType ==
  /\ user \in [Endpoint -> {"none", "connecting", "ready", "waiting", "sending", "closed"}]
  /\ hand \in [Endpoint -> Segment]
  /\ retry \in BOOLEAN
  /\ reboots \in Nat

RouterType == router \in [Endpoint -> {"idle", "ready", "flush"}]

QuietType ==
  /\ backlog \in BOOLEAN
  /\ picks \in [Endpoint -> Nat]
  /\ sent \in [Endpoint -> Nat]
  /\ got \in [Endpoint -> Seq(Payload)]
  /\ eof \in [Endpoint -> BOOLEAN]
  /\ accepts \in Nat

\* TypeOK, split by who changes the variables.
LEMMA TypeParts == TypeOK <=> LinkType /\ TaskType /\ RouterType /\ QuietType
  BY DEF TypeOK, LinkType, TaskType, RouterType, QuietType, ConnOK

\* The same after a step.
LEMMA TypePartsNext ==
  ASSUME LinkType', TaskType', RouterType', QuietType' PROVE TypeOK'
  BY DEF TypeOK, LinkType, TaskType, RouterType, QuietType, ConnOK

\* A step that leaves one well-formed connection and sends segments.
LEMMA TransmitType ==
  ASSUME LinkType, NEW e \in Endpoint, NEW used, NEW r, ResultOK(r), NEW ok \in BOOLEAN,
         Outcome(ok), conn' = [conn EXCEPT ![e] = r.c], Transmit(e, used, r.out)
  PROVE LinkType'
<1>1. Peer(e) \in Endpoint
  BY DEF Peer, Endpoint
<1>2. net' \in SUBSET [to : Endpoint, seg : Segment]
  BY <1>1 DEF LinkType, Transmit, ResultOK
<1>3. fails' \in Nat
  BY DEF LinkType, Outcome
<1>4. \A f \in Endpoint : ConnOK(conn'[f])
  BY DEF LinkType, ResultOK
<1>5. conn' \in [Endpoint -> Conn]
  BY DEF LinkType, ResultOK, ConnOK
<1> QED
  BY <1>2, <1>3, <1>4, <1>5 DEF LinkType

\* A call of csp_rdp_new_packet.
LEMMA HandledType ==
  ASSUME TypeOK, NEW e \in Endpoint, NEW p, NEW r, ResultOK(r), NEW ok \in BOOLEAN,
         NEW next \in {"idle", "ready", "flush"}, HandledThen(e, p, r, ok, next)
  PROVE LinkType' /\ TaskType' /\ RouterType'
<1>1. LinkType'
  BY TypeParts, TransmitType DEF HandledThen
<1>2. TaskType'
  BY TypeParts DEF TaskType, HandledThen
<1>3. RouterType'
  BY TypeParts DEF RouterType, HandledThen
<1> QED
  BY <1>1, <1>2, <1>3

\* A handler that is Quiet keeps the types of the rest.
LEMMA QuietKeeps == ASSUME TypeOK, Quiet PROVE QuietType'
  BY TypeParts DEF QuietType, Quiet, histVars

\* A call of csp_rdp_check_timeouts.
LEMMA CheckedType ==
  ASSUME TypeOK, NEW e \in Endpoint, NEW r, ResultOK(r), NEW ok \in BOOLEAN,
         Checked(e, r, ok)
  PROVE TypeOK'
<1>1. LinkType'
  BY TypeParts, TransmitType DEF Checked
<1>2. TaskType'
  BY TypeParts DEF TaskType, Checked, RouterUnchanged
<1>3. RouterType'
  BY TypeParts DEF RouterType, Checked
<1>4. QuietType'
  BY TypeParts DEF QuietType, Checked, RouterUnchanged, histVars
<1> QED
  BY <1>1, <1>2, <1>3, <1>4, TypePartsNext

\* What arrives is a segment, and its target a connection.
LEMMA ArrivesType ==
  ASSUME TypeOK, NEW e \in Endpoint, NEW p, Arrives(e, p)
  PROVE p \in Segment /\ ConnOK(Target(e))
<1>1. p \in Segment
  BY DEF TypeOK, Arrives
<1>2. ConnOK(conn[e])
  BY TypeParts DEF LinkType
<1>3. ConnOK(Target(e))
  BY <1>2, NewConnType DEF Target
<1> QED
  BY <1>1, <1>3

----------------------------------------------------------------------------
\* Each action keeps the types.

\* What rand() returns is a sequence number.
LEMMA PickType ==
  ASSUME TypeOK, NEW e \in Endpoint, CanPick(e) PROVE Pick(e) \in SeqNr
<1>1. picks[e] \in Nat /\ IssOf[e] \in Seq(SeqNr)
  BY IssAssumption DEF TypeOK
<1>2. picks[e] + 1 \in 1..Len(IssOf[e])
  BY <1>1 DEF CanPick
<1> QED
  BY <1>1, <1>2 DEF Pick

\* csp_rdp_connect, up to its wait.
LEMMA SendSynRequestType ==
  ASSUME TypeOK, NEW e \in Endpoint, NEW c0, ConnOK(c0), NEW again \in BOOLEAN,
         SendSynRequest(e, c0, again)
  PROVE /\ LinkType'
        /\ picks' \in [Endpoint -> Nat]
        /\ user' \in [Endpoint -> {"none", "connecting", "ready", "waiting", "sending", "closed"}]
        /\ retry' \in BOOLEAN
<1> DEFINE iss == Pick(e)
           c1 == [c0 EXCEPT !.iss = iss, !.nxt = Plus(iss, 1), !.una = iss,
                            !.sem = FALSE, !.state = "SYN_SENT"]
<1>1. iss \in SeqNr /\ Plus(iss, 1) \in SeqNr /\ 0 \in SeqNr
  <2>2. iss \in SeqNr
    BY PickType DEF SendSynRequest
  <2> HIDE DEF iss
  <2>3. iss \in Int /\ 0 \in SeqNr
    BY <2>2, SeqModAssumption DEF SeqNr
  <2> QED
    BY <2>2, <2>3, PlusType
<1>2. ConnOK(c1)
  BY <1>1 DEF ConnOK, Conn, RdpStates
<1>3. PICK ok \in BOOLEAN :
        LET r == SendSyn(c1, Cmp({"SYN"}, iss, 0), FALSE, ok)
            failed == ConnClose(RdpClose(r.c, {ByProtocol}, FALSE, ok).c, {ByUser}, ok)
        IN /\ CanPick(e) /\ Outcome(ok)
           /\ picks' = [picks EXCEPT ![e] = @ + 1]
           /\ conn' = [conn EXCEPT ![e] = IF ok THEN r.c ELSE failed.c]
           /\ Transmit(e, {}, r.out)
           /\ user' = [user EXCEPT ![e] = IF ok THEN "connecting" ELSE "closed"]
           /\ retry' = again
  BY DEF SendSynRequest
<1> DEFINE r == SendSyn(c1, Cmp({"SYN"}, iss, 0), FALSE, ok)
           failed == ConnClose(RdpClose(r.c, {ByProtocol}, FALSE, ok).c, {ByUser}, ok)
           done == Result(IF ok THEN r.c ELSE failed.c, r.out)
<1>4. ResultOK(r)
  BY <1>1, <1>2, CmpType, SendSynType
<1>5. ResultOK(failed)
  BY <1>4, RdpCloseType, ConnCloseType DEF ResultOK, ClosedByAll
<1>6. ResultOK(done) /\ done.c = (IF ok THEN r.c ELSE failed.c) /\ done.out = r.out
  BY <1>4, <1>5 DEF ResultOK, Result
<1>7. LinkType'
  <2> HIDE DEF done, r, failed, c1, iss
  <2>1. conn' = [conn EXCEPT ![e] = done.c] /\ Transmit(e, {}, done.out) /\ Outcome(ok)
    BY <1>3, <1>6 DEF r, failed, c1, iss
  <2> QED
    BY <2>1, <1>6, TypeParts, TransmitType
<1> QED
  BY <1>3, <1>7 DEF TypeOK

\* csp_connect, the first attempt.
LEMMA ConnectType == ASSUME TypeOK, Connect PROVE TypeOK'
<1>1. ConnOK(NewConn(conn[Client], FALSE)) /\ Client \in Endpoint
  BY TypeParts, NewConnType DEF LinkType, Endpoint
<1>2. /\ LinkType' /\ picks' \in [Endpoint -> Nat]
      /\ user' \in [Endpoint -> {"none", "connecting", "ready", "waiting", "sending", "closed"}]
      /\ retry' \in BOOLEAN
  BY <1>1, SendSynRequestType DEF Connect
<1>3. <<>> \in Seq(Payload)
  OBVIOUS
<1> QED
  BY <1>2, <1>3 DEF Connect, TypeOK, LinkType, ConnOK

\* csp_rdp_connect, the second attempt.
LEMMA ConnectRetryType == ASSUME TypeOK, ConnectRetry PROVE TypeOK'
<1> DEFINE c == [conn[Client] EXCEPT !.txq = {}, !.rxq = {}]
<1>1. ConnOK(c) /\ Client \in Endpoint
  BY FS_EmptySet, TypeParts DEF LinkType, Endpoint, ConnOK, Conn
<1>2. /\ LinkType' /\ picks' \in [Endpoint -> Nat]
      /\ user' \in [Endpoint -> {"none", "connecting", "ready", "waiting", "sending", "closed"}]
      /\ retry' \in BOOLEAN
  BY <1>1, SendSynRequestType DEF ConnectRetry
<1> QED
  BY <1>2 DEF ConnectRetry, TypeOK, LinkType, ConnOK, histVars

\* csp_rdp_connect, the label error.
LEMMA ConnectFailsType == ASSUME TypeOK, ConnectFails PROVE TypeOK'
<1>1. PICK ok \in BOOLEAN :
        LET c == RdpClose(conn[Client], {ByProtocol}, FALSE, ok).c
            r == ConnClose(c, {ByUser}, ok)
        IN /\ Outcome(ok)
           /\ conn' = [conn EXCEPT ![Client] = r.c]
           /\ Transmit(Client, {}, r.out)
           /\ user' = [user EXCEPT ![Client] = "closed"]
           /\ UNCHANGED <<hand, retry, backlog, router, picks, reboots, histVars>>
  BY DEF ConnectFails
<1> DEFINE c == RdpClose(conn[Client], {ByProtocol}, FALSE, ok).c
           r == ConnClose(c, {ByUser}, ok)
<1>2. Client \in Endpoint /\ ConnOK(conn[Client])
  BY TypeParts DEF LinkType, Endpoint
<1>3. ResultOK(r)
  BY <1>2, RdpCloseType, ConnCloseType DEF ResultOK, ClosedByAll
<1> HIDE DEF c, r
<1>4. LinkType'
  BY <1>1, <1>2, <1>3, TypeParts, TransmitType DEF c, r
<1> QED
  BY <1>1, <1>4 DEF TypeOK, LinkType, ConnOK, histVars

\* The user task: the actions that send nothing.
LEMMA PlainUserType ==
  ASSUME TypeOK, NEW e \in Endpoint,
         \/ ConnectOpened \/ Accept
         \/ SendBlocks(e) \/ SendWakes(e) \/ SendTimeout(e) \/ SendNoBufs(e)
  PROVE TypeOK'
<1>1. ASSUME NEW f \in Endpoint, NEW b \in BOOLEAN
      PROVE /\ [conn EXCEPT ![f].sem = b] \in [Endpoint -> Conn]
            /\ \A g \in Endpoint : IsFiniteSet([conn EXCEPT ![f].sem = b][g].txq)
  <2>1. [conn[f] EXCEPT !.sem = b] \in Conn /\ [conn[f] EXCEPT !.sem = b].txq = conn[f].txq
    <3>1. conn[f] \in Conn
      BY DEF TypeOK
    <3> QED
      BY <3>1 DEF Conn
  <2> QED
    BY <2>1 DEF TypeOK
<1>2. CASE ConnectOpened
  BY <1>1, <1>2 DEF ConnectOpened, TypeOK, envVars, histVars, Endpoint
<1>3. CASE Accept
  <2>1. user' \in [Endpoint -> {"none", "connecting", "ready", "waiting", "sending", "closed"}]
    BY <1>3 DEF Accept, TypeOK
  <2>2. accepts' \in Nat
    BY <1>3 DEF Accept, TypeOK
  <2>3. backlog' = FALSE
    BY <1>3 DEF Accept
  <2> QED
    BY <1>3, <2>1, <2>2, <2>3 DEF Accept, TypeOK, envVars
<1>4. CASE SendBlocks(e)
  BY <1>4 DEF SendBlocks, TypeOK, envVars, histVars
<1>5. CASE SendWakes(e)
  BY <1>1, <1>5 DEF SendWakes, TypeOK, envVars, histVars
<1>6. CASE SendTimeout(e)
  BY <1>6 DEF SendTimeout, TypeOK, envVars, histVars
<1>7. CASE SendNoBufs(e)
  <2>1. (conn[e].sem /\ user[e] = "ready") \in BOOLEAN
    OBVIOUS
  <2>2. conn' = [conn EXCEPT ![e].sem = conn[e].sem /\ user[e] = "ready"]
    BY <1>7 DEF SendNoBufs
  <2>3. conn' \in [Endpoint -> Conn] /\ \A g \in Endpoint : IsFiniteSet(conn'[g].txq)
    BY <1>1, <2>1, <2>2
  <2> QED
    BY <1>7, <2>3 DEF SendNoBufs, TypeOK, envVars, histVars
<1> QED
  BY <1>2, <1>3, <1>4, <1>5, <1>6, <1>7

\* csp_rdp_send composes and queues a segment.
LEMMA RdpSendType == ASSUME TypeOK, NEW e \in Endpoint, RdpSend(e) PROVE TypeOK'
<1> DEFINE c == conn[e]
           base == Cmp({"ACK"}, c.nxt, c.cur)
           seg == [base EXCEPT !.data = <<picks[e], sent[e] + 1>>]
           queued == [c EXCEPT !.txq = TxQueued(@, seg)]
           d == [queued EXCEPT !.nxt = Plus(c.nxt, 1), !.sem = @ /\ user[e] = "ready"]
<1>1. ConnOK(c) /\ c.nxt \in SeqNr /\ c.cur \in SeqNr
  BY TypeParts DEF LinkType, ConnOK, Conn
<1>2. <<picks[e], sent[e] + 1>> \in Payload
  BY DEF TypeOK, Payload
<1>3. base \in Segment
  BY <1>1, CmpType
<1>4. seg \in Segment
  BY <1>2, <1>3 DEF Segment
<1>5. Plus(c.nxt, 1) \in SeqNr
  <2>1. c.nxt \in Int
    BY <1>1 DEF SeqNr
  <2> QED
    BY <2>1, PlusType
<1>6. ConnOK(queued)
  BY <1>1, <1>4, TxQueuedType
<1>7. ConnOK(d)
  <2> HIDE DEF queued
  <2> QED
    BY <1>5, <1>6 DEF ConnOK, Conn
<1>8. conn' = [conn EXCEPT ![e] = d]
  <2>1. d = [c EXCEPT !.txq = TxQueued(@, seg), !.nxt = Plus(@, 1),
                      !.sem = @ /\ user[e] = "ready"]
    BY <1>1 DEF ConnOK, Conn
  <2> QED
    BY <2>1 DEF RdpSend
<1> HIDE DEF d, seg
<1>9. conn' \in [Endpoint -> Conn] /\ \A g \in Endpoint : IsFiniteSet(conn'[g].txq)
  BY <1>7, <1>8 DEF TypeOK, ConnOK
<1>10. hand' \in [Endpoint -> Segment]
  BY <1>4 DEF RdpSend, TypeOK, seg
<1>11. /\ user' \in [Endpoint -> {"none", "connecting", "ready", "waiting", "sending", "closed"}]
       /\ sent' \in [Endpoint -> Nat]
  BY DEF RdpSend, TypeOK
<1> HIDE DEF c
<1> QED
  BY <1>9, <1>10, <1>11 DEF RdpSend, TypeOK, envVars

\* csp_send_direct puts the segment on the link.
LEMMA SendOutType == ASSUME TypeOK, NEW e \in Endpoint, SendOut(e) PROVE TypeOK'
<1>1. PICK ok \in BOOLEAN :
        /\ Outcome(ok)
        /\ Transmit(e, {}, IF ok THEN {hand[e]} ELSE {})
  BY DEF SendOut
<1>2. hand[e] \in Segment /\ hand[e].data \in Payload
  BY DEF TypeOK, Segment
<1>3. ConnOK(conn[e])
  BY TypeParts DEF LinkType
<1>4. ResultOK(Result(conn[e], IF ok THEN {hand[e]} ELSE {}))
  BY <1>2, <1>3, ResultType
<1>5. LinkType'
  <2>1. conn' = [conn EXCEPT ![e] = conn[e]]
    BY DEF SendOut, TypeOK
  <2> DEFINE r == Result(conn[e], IF ok THEN {hand[e]} ELSE {})
  <2>2. conn' = [conn EXCEPT ![e] = r.c] /\ Transmit(e, {}, r.out)
    BY <1>1, <2>1 DEF Result
  <2> HIDE DEF r
  <2> QED
    BY <1>1, <1>4, <2>2, TypeParts, TransmitType DEF r
<1>6. NoSegment \in Segment
  BY CmpType, SeqModAssumption DEF NoSegment, SeqNr
<1> QED
  BY <1>1, <1>2, <1>5, <1>6 DEF SendOut, TypeOK, LinkType, ConnOK

\* csp_read takes a packet from the user's queue.
LEMMA ReadType == ASSUME TypeOK, NEW e \in Endpoint, Read(e) PROVE TypeOK'
<1>1. PICK ok \in BOOLEAN, due \in BOOLEAN :
        LET c == [conn[e] EXCEPT !.rx = Tail(@)]
            r == IF DelayedAcks THEN CheckAck(c, due, ok) ELSE Result(c, {})
        IN /\ Outcome(ok)
           /\ conn' = [conn EXCEPT ![e] = r.c]
           /\ Transmit(e, {}, r.out)
  BY DEF Read
<1> DEFINE c == [conn[e] EXCEPT !.rx = Tail(@)]
           r == IF DelayedAcks THEN CheckAck(c, due, ok) ELSE Result(c, {})
<1>2. conn[e].rx \in Seq(Payload) /\ conn[e].rx # <<>>
  BY DEF TypeOK, Conn, Read
<1>3. Tail(conn[e].rx) \in Seq(Payload) /\ Head(conn[e].rx) \in Payload
  BY <1>2
<1>4. ConnOK(c)
  BY <1>3, TypeParts, ZenonT(60) DEF LinkType, ConnOK, Conn
<1> HIDE DEF c
<1>5. ResultOK(r)
  BY <1>4, CheckAckType, ResultType
<1> HIDE DEF r
<1>6. LinkType'
  BY <1>1, <1>5, TypeParts, TransmitType DEF c, r
<1>7. got' \in [Endpoint -> Seq(Payload)] /\ eof' \in [Endpoint -> BOOLEAN]
  <2>1. got[e] \in Seq(Payload)
    BY DEF TypeOK
  <2>2. Append(got[e], Head(conn[e].rx)) \in Seq(Payload)
    BY <1>3, <2>1
  <2> QED
    BY <2>2, ZenonT(60) DEF Read, TypeOK
<1> QED
  BY <1>6, <1>7 DEF Read, TypeOK, LinkType, ConnOK

\* csp_close by the user.
LEMMA CloseType == ASSUME TypeOK, NEW e \in Endpoint, Close(e) PROVE TypeOK'
<1>1. PICK ok \in BOOLEAN :
        LET r == ConnClose(conn[e], {ByUser}, ok)
        IN /\ Outcome(ok)
           /\ conn' = [conn EXCEPT ![e] = r.c]
           /\ Transmit(e, {}, r.out)
  BY DEF Close
<1> DEFINE r == ConnClose(conn[e], {ByUser}, ok)
<1>2. ResultOK(r)
  BY TypeParts, ConnCloseType DEF LinkType, ClosedByAll
<1> HIDE DEF r
<1>3. LinkType'
  BY <1>1, <1>2, TypeParts, TransmitType DEF r
<1> QED
  BY <1>3 DEF Close, TypeOK, LinkType, ConnOK, histVars

\* The router task: csp_rdp_check_timeouts.
LEMMA CheckTimeoutsType ==
  ASSUME TypeOK, NEW e \in Endpoint, CheckTimeouts(e) PROVE TypeOK'
<1>1. ConnOK(conn[e])
  BY TypeParts DEF LinkType
<1>2. CASE CheckNothing(e)
  BY <1>2 DEF CheckNothing, TypeOK, RouterUnchanged, histVars
<1>3. CASE LostConnection(e)
  BY <1>1, <1>3, ConnCloseType, CheckedType DEF LostConnection
<1>4. CASE CloseWaitTimeout(e)
  <2>1. {ByProtocol, ByTimeout} \in SUBSET ClosedByAll
    BY DEF ClosedByAll
  <2> QED
    BY <1>1, <1>4, <2>1, ConnCloseType, CheckedType DEF CloseWaitTimeout
<1>5. CASE CheckMessages(e)
  BY <1>1, <1>5, RetransmittedType, CheckedType DEF CheckMessages
<1> QED
  BY <1>2, <1>3, <1>4, <1>5 DEF CheckTimeouts

\* csp_rdp_rx_queue_flush moves the next stored segment.
LEMMA FlushNextType == ASSUME TypeOK, NEW e \in Endpoint, FlushNext(e) PROVE TypeOK'
<1>1. PICK s \in NextStored(conn[e]) :
        /\ conn' = [conn EXCEPT ![e] = FlushOne(conn[e], s)]
        /\ router' = [router EXCEPT ![e] = IF NextStored(FlushOne(conn[e], s)) # {}
                                            THEN "flush" ELSE "idle"]
  BY DEF FlushNext
<1>2. ConnOK(FlushOne(conn[e], s))
  BY TypeParts, FlushOneType DEF LinkType, NextStored
<1> QED
  BY <1>1, <1>2 DEF FlushNext, TypeOK, ConnOK, envVars, histVars

\* A reboot, or a segment that is lost.
LEMMA EnvironmentType ==
  ASSUME TypeOK, Reboot \/ \E m \in net : Lose(m) PROVE TypeOK'
<1>1. CASE Reboot
  <2>1. InitConn \in Conn /\ IsFiniteSet(InitConn.txq)
    BY FS_EmptySet, SeqModAssumption DEF InitConn, Conn, RdpStates, SeqNr
  <2>2. NoSegment \in Segment
    BY CmpType, SeqModAssumption DEF NoSegment, SeqNr
  <2>3. conn' \in [Endpoint -> Conn] /\ \A e \in Endpoint : IsFiniteSet(conn'[e].txq)
    BY <1>1, <2>1 DEF Reboot, TypeOK
  <2>4. /\ user' \in [Endpoint -> {"none", "connecting", "ready", "waiting", "sending", "closed"}]
        /\ router' \in [Endpoint -> {"idle", "ready", "flush"}]
    BY <1>1 DEF Reboot, TypeOK
  <2>7. reboots' \in Nat
    BY <1>1 DEF Reboot, TypeOK
  <2>6. hand' \in [Endpoint -> Segment]
    BY <1>1, <2>2 DEF Reboot, TypeOK
  <2>5. retry' = TRUE
    BY <1>1 DEF Reboot
  <2> QED
    BY <1>1, <2>3, <2>4, <2>5, <2>6, <2>7 DEF Reboot, TypeOK, histVars
<1>2. CASE \E m \in net : Lose(m)
  BY <1>2 DEF Lose, TypeOK, envVars, histVars
<1> QED
  BY <1>1, <1>2

\* The router task: csp_rdp_new_packet.

\* A handler that leaves a well-formed connection and sends segments keeps the
\* types, if it touches nothing else.
LEMMA QuietHandlerType ==
  ASSUME TypeOK, NEW e \in Endpoint, NEW p, NEW r, ResultOK(r), NEW ok \in BOOLEAN,
         NEW next \in {"idle", "ready", "flush"}, HandledThen(e, p, r, ok, next), Quiet
  PROVE TypeOK'
<1>1. LinkType' /\ TaskType' /\ RouterType'
  BY HandledType
<1>2. QuietType'
  BY QuietKeeps
<1> QED
  BY <1>1, <1>2, TypePartsNext

\* Two results in a row.
LEMMA BothType ==
  ASSUME NEW r, ResultOK(r), NEW d, ResultOK(d)
  PROVE ResultOK(Result(d.c, r.out \cup d.out))
  BY DEF ResultOK, Result

\* The sets of closers that are passed to csp_rdp_close.
LEMMA ClosersType ==
  /\ {ByProtocol} \in SUBSET ClosedByAll /\ {ByUser} \in SUBSET ClosedByAll
  /\ {ByProtocol, ByTimeout} \in SUBSET ClosedByAll
  BY DEF ClosedByAll

\* The handlers of a reset.
LEMMA RstType ==
  ASSUME TypeOK, NEW e \in Endpoint, NEW p,
         \/ RstInClosed(e, p) \/ RstInCloseWait(e, p)
         \/ RstInSequence(e, p) \/ RstOutOfSequence(e, p)
  PROVE TypeOK'
<1> DEFINE c == AckOfRst(Target(e), p)
<1>1. Arrives(e, p)
  BY DEF RstInClosed, RstInCloseWait, RstInSequence, RstOutOfSequence
<1>2. ConnOK(c)
  BY <1>1, ArrivesType, AckOfRstType
<1> HIDE DEF c
<1>3. CASE RstInClosed(e, p)
  <2>1. ResultOK(IF c.socket THEN ConnClose(c, {ByUser}, TRUE) ELSE Result(c, {}))
    BY <1>2, ClosersType, ConnCloseType, ResultType
  <2> QED
    BY <1>3, <2>1, QuietHandlerType DEF RstInClosed, Handled, c
<1>4. CASE RstInCloseWait(e, p)
  <2> DEFINE by == IF FastClose /\ "ACK" \in p.flags THEN {ByProtocol, ByTimeout} ELSE {ByProtocol}
  <2>1. ResultOK(DiscardClose(c, by, TRUE))
    BY <1>2, ClosersType, DiscardCloseType
  <2> QED
    BY <1>4, <2>1, QuietHandlerType DEF RstInCloseWait, Handled, c
<1>5. CASE RstInSequence(e, p)
  <2> DEFINE w == [c EXCEPT !.state = "CLOSE_WAIT"]
             r(ok) == SendCmp(w, Cmp({"ACK", "RST"}, w.nxt, w.cur), ok)
             by == IF FastClose THEN {ByProtocol, ByTimeout} ELSE {ByProtocol}
             d(ok) == DiscardClose(r(ok).c, by, ok)
  <2>1. PICK ok \in BOOLEAN : Handled(e, p, Result(d(ok).c, r(ok).out \cup d(ok).out), ok)
    BY <1>5 DEF RstInSequence, c
  <2>2. ConnOK(w)
    BY <1>2 DEF ConnOK, Conn, RdpStates
  <2>3. ResultOK(r(ok))
    BY <2>2, SendOwnType
  <2>4. ResultOK(d(ok))
    BY <2>3, ClosersType, DiscardCloseType DEF ResultOK
  <2>5. ResultOK(Result(d(ok).c, r(ok).out \cup d(ok).out))
    BY <2>3, <2>4, BothType
  <2> QED
    BY <1>5, <2>1, <2>5, QuietHandlerType DEF RstInSequence, Handled
<1>6. CASE RstOutOfSequence(e, p)
  BY <1>2, <1>6, ResultType, QuietHandlerType DEF RstOutOfSequence, Handled, c
<1> QED
  BY <1>3, <1>4, <1>5, <1>6

\* The handlers that leave the connection as it is, or answer with its numbers.
LEMMA AnswerType ==
  ASSUME TypeOK, NEW e \in Endpoint, NEW p,
         \/ DropUnknown(e, p) \/ DuplicateSyn(e, p) \/ InvalidAck(e, p)
         \/ IgnoredInCloseWait(e, p) \/ OutOfWindow(e, p) \/ HalfOpen(e, p)
         \/ AckInCloseWait(e, p)
  PROVE TypeOK'
<1>1. CASE DropUnknown(e, p)
  <2>1. ResultOK(Result(conn[e], {}))
    BY TypeParts, ResultType DEF LinkType
  <2> QED
    BY <1>1, <2>1, QuietHandlerType DEF DropUnknown, Handled
<1>2. ASSUME Arrives(e, p) PROVE p \in Segment /\ ConnOK(Target(e)) /\ ResultOK(Result(Target(e), {}))
  BY <1>2, ArrivesType, ResultType
<1>3. CASE DuplicateSyn(e, p) \/ InvalidAck(e, p) \/ IgnoredInCloseWait(e, p)
  BY <1>2, <1>3, QuietHandlerType
  DEF DuplicateSyn, InvalidAck, IgnoredInCloseWait, Receives, Handled
<1>4. CASE OutOfWindow(e, p)
  <2>1. PICK ok \in BOOLEAN, cloned \in BOOLEAN :
          Handled(e, p, IF Target(e).state = "SYN_RCVD" THEN SendSynAck(Target(e), cloned, ok)
                        ELSE SendEack(Target(e), ok), ok)
    BY <1>4 DEF OutOfWindow
  <2>2. ConnOK(Target(e))
    BY <1>2, <1>4 DEF OutOfWindow, Receives
  <2>3. ResultOK(IF Target(e).state = "SYN_RCVD" THEN SendSynAck(Target(e), cloned, ok)
                 ELSE SendEack(Target(e), ok))
    BY <2>2, SendSynAckType, SendEackType
  <2> QED
    BY <1>4, <2>1, <2>3, QuietHandlerType DEF OutOfWindow, Handled
<1>5. CASE HalfOpen(e, p)
  <2> DEFINE c == [Target(e) EXCEPT !.sem = TRUE]
             r(ok) == SendCmp(c, Cmp({"RST"}, c.nxt, c.cur), ok)
  <2>1. PICK ok \in BOOLEAN : Handled(e, p, r(ok), ok)
    BY <1>5 DEF HalfOpen
  <2>2. ConnOK(c)
    BY <1>2, <1>5 DEF HalfOpen, Receives, ConnOK, Conn
  <2>3. ResultOK(r(ok))
    BY <2>2, SendOwnType
  <2> QED
    BY <1>5, <2>1, <2>3, QuietHandlerType DEF HalfOpen, Handled
<1>6. CASE AckInCloseWait(e, p)
  <2> DEFINE c == [Target(e) EXCEPT !.una = Plus(p.ack, 1)]
             r(ok) == SendCmp(c, Cmp({"ACK", "RST"}, c.nxt, c.cur), ok)
  <2>1. PICK ok \in BOOLEAN : Handled(e, p, r(ok), ok)
    BY <1>6 DEF AckInCloseWait
  <2>2. p \in Segment /\ ConnOK(Target(e))
    BY <1>2, <1>6 DEF AckInCloseWait, Receives
  <2>3. Plus(p.ack, 1) \in SeqNr
    BY <2>2, PlusType DEF Segment, SeqNr
  <2>4. ConnOK(c)
    BY <2>2, <2>3 DEF ConnOK, Conn
  <2>5. ResultOK(r(ok))
    BY <2>4, SendOwnType
  <2> QED
    BY <1>6, <2>1, <2>5, QuietHandlerType DEF AckInCloseWait, Handled
<1> QED
  BY <1>1, <1>3, <1>4, <1>5, <1>6

\* The handlers that close the connection.
LEMMA DiscardType ==
  ASSUME TypeOK, NEW e \in Endpoint, NEW p,
         \/ InvalidSyn(e, p) \/ WrongAckInSynRcvd(e, p) \/ BacklogFull(e, p)
         \/ NoSynInClosed(e, p)
  PROVE TypeOK'
<1>1. ConnOK(Target(e))
  BY ArrivesType DEF InvalidSyn, WrongAckInSynRcvd, BacklogFull, NoSynInClosed,
                     Acceptable, Receives
<1>2. CASE InvalidSyn(e, p) \/ WrongAckInSynRcvd(e, p)
  <2>1. PICK ok \in BOOLEAN : Handled(e, p, DiscardClose(Target(e), {ByProtocol}, ok), ok)
    BY <1>2 DEF InvalidSyn, WrongAckInSynRcvd
  <2>2. ResultOK(DiscardClose(Target(e), {ByProtocol}, ok))
    BY <1>1, ClosersType, DiscardCloseType
  <2> QED
    BY <1>2, <2>1, <2>2, QuietHandlerType DEF InvalidSyn, WrongAckInSynRcvd, Handled
<1>3. CASE BacklogFull(e, p)
  <2> DEFINE c == [Target(e) EXCEPT !.state = "OPEN"]
  <2>1. ConnOK(c)
    BY <1>1 DEF ConnOK, Conn, RdpStates
  <2>2. PICK sends \in BOOLEAN : Handled(e, p, DiscardClose(c, {ByProtocol}, sends), FALSE)
    BY <1>3 DEF BacklogFull
  <2>3. ResultOK(DiscardClose(c, {ByProtocol}, sends))
    BY <2>1, ClosersType, DiscardCloseType
  <2> QED
    BY <1>3, <2>2, <2>3, QuietHandlerType DEF BacklogFull, Handled
<1>4. CASE NoSynInClosed(e, p)
  <2> DEFINE c == Target(e)
             r(ok) == SendCmp(c, Cmp({"RST"}, c.nxt, c.cur), ok)
             d(ok) == DiscardClose(r(ok).c, {ByProtocol}, ok)
  <2>1. PICK ok \in BOOLEAN : Handled(e, p, Result(d(ok).c, r(ok).out \cup d(ok).out), ok)
    BY <1>4 DEF NoSynInClosed
  <2>2. ResultOK(r(ok))
    BY <1>1, SendOwnType
  <2>3. ResultOK(d(ok))
    BY <2>2, ClosersType, DiscardCloseType DEF ResultOK
  <2>4. ResultOK(Result(d(ok).c, r(ok).out \cup d(ok).out))
    BY <2>2, <2>3, BothType
  <2> QED
    BY <1>4, <2>1, <2>4, QuietHandlerType DEF NoSynInClosed, Handled
<1> QED
  BY <1>2, <1>3, <1>4

\* The handlers of the handshake and of data.
LEMMA SynInClosedType ==
  ASSUME TypeOK, NEW e \in Endpoint, NEW p, SynInClosed(e, p) PROVE TypeOK'
<1> DEFINE c == [Target(e) EXCEPT
                   !.iss = Pick(e), !.nxt = Plus(Pick(e), 1), !.una = Pick(e),
                   !.cur = p.seq, !.irs = p.seq, !.lsa = p.seq,
                   !.state = "SYN_RCVD"]
<1>1. p \in Segment /\ ConnOK(Target(e))
  BY ArrivesType DEF SynInClosed, Receives
<1>2. Pick(e) \in SeqNr
  BY PickType DEF SynInClosed
<1>3. Plus(Pick(e), 1) \in SeqNr
  BY <1>2, PlusType DEF SeqNr
<1>4. p.seq \in SeqNr
  BY <1>1 DEF Segment
<1>5. ConnOK(c)
  BY <1>1, <1>2, <1>3, <1>4 DEF ConnOK, Conn, RdpStates
<1>6. PICK ok \in BOOLEAN, cloned \in BOOLEAN : Handled(e, p, SendSynAck(c, cloned, ok), ok)
  BY DEF SynInClosed
<1> HIDE DEF c
<1>7. ResultOK(SendSynAck(c, cloned, ok))
  BY <1>5, SendSynAckType
<1>8. LinkType' /\ TaskType' /\ RouterType'
  BY <1>6, <1>7, HandledType DEF Handled
<1>9. <<>> \in Seq(Payload)
  OBVIOUS
<1>10. QuietType'
  BY <1>9 DEF QuietType, TypeOK, SynInClosed
<1> QED
  BY <1>8, <1>10, TypePartsNext

\* The SYN/ACK that opens the client.
LEMMA SynAckInSynSentType ==
  ASSUME TypeOK, NEW e \in Endpoint, NEW p, SynAckInSynSent(e, p) PROVE TypeOK'
<1> DEFINE c == [Target(e) EXCEPT
                   !.cur = p.seq, !.irs = p.seq, !.lsa = (p.seq - 1) % SeqMod,
                   !.una = Plus(p.ack, 1), !.state = "OPEN", !.sem = TRUE]
           r(ok) == SendCmp(c, Cmp({"ACK"}, c.nxt, c.cur), ok)
<1>1. p \in Segment /\ ConnOK(Target(e))
  BY ArrivesType DEF SynAckInSynSent, Receives
<1>2. p.seq \in SeqNr /\ p.ack \in SeqNr
  BY <1>1 DEF Segment
<1>3. p.seq \in Int /\ p.ack \in Int
  BY <1>2 DEF SeqNr
<1>4. (p.seq - 1) % SeqMod \in SeqNr /\ Plus(p.ack, 1) \in SeqNr
  BY <1>3, PlusType, MinusType
<1>5. ConnOK(c)
  BY <1>1, <1>2, <1>4 DEF ConnOK, Conn, RdpStates
<1>6. PICK ok \in BOOLEAN : Handled(e, p, r(ok), ok)
  BY DEF SynAckInSynSent
<1> HIDE DEF c
<1>7. ResultOK(r(ok))
  BY <1>5, SendOwnType
<1> QED
  BY <1>6, <1>7, QuietHandlerType DEF SynAckInSynSent, Handled

\* The handlers of data, and of the ACK that ends the handshake.
LEMMA DataType ==
  ASSUME TypeOK, NEW e \in Endpoint, NEW p, DataInOpen(e, p) \/ HandshakeDone(e, p)
  PROVE TypeOK'
<1>1. p \in Segment /\ ConnOK(Target(e))
  BY ArrivesType DEF DataInOpen, HandshakeDone, Acceptable, Receives
<1>2. ConnOK(Opened(Target(e)))
  BY <1>1 DEF Opened, ConnOK, Conn, RdpStates
<1>3. ASSUME NEW c, ConnOK(c), NEW due \in BOOLEAN, NEW ok \in BOOLEAN,
             HandledData(e, p, c, due, ok)
      PROVE LinkType' /\ TaskType' /\ RouterType'
  <2>1. ResultOK(HandleData(c, p, due, ok))
    BY <1>1, <1>3, HandleDataType
  <2>2. PICK next \in {"idle", "ready", "flush"} :
          HandledThen(e, p, HandleData(c, p, due, ok), ok, next)
    BY <1>3 DEF HandledData
  <2> QED
    BY <2>1, <2>2, HandledType
<1>4. CASE DataInOpen(e, p)
  <2>1. QuietType'
    BY <1>4, QuietKeeps DEF DataInOpen
  <2> QED
    BY <1>1, <1>3, <1>4, <2>1, TypePartsNext DEF DataInOpen
<1>5. CASE HandshakeDone(e, p)
  <2>1. QuietType'
    BY <1>5 DEF HandshakeDone, QuietType, TypeOK, histVars
  <2> QED
    BY <1>2, <1>3, <1>5, <2>1, TypePartsNext DEF HandshakeDone
<1> QED
  BY <1>4, <1>5

\* All of csp_rdp_new_packet.
LEMMA ArrivalType == ASSUME TypeOK, Arrival PROVE TypeOK'
<1>1. PICK m \in net : NewPacket(m.to, m.seg)
  BY DEF Arrival
<1>2. m.to \in Endpoint
  BY DEF TypeOK
<1> QED
  BY <1>1, <1>2, RstType, AnswerType, DiscardType, SynInClosedType,
     SynAckInSynSentType, DataType DEF NewPacket

----------------------------------------------------------------------------
\* Type correctness.

\* The types hold in the beginning.
LEMMA TypeInit == Init => TypeOK
<1> SUFFICES ASSUME Init PROVE TypeOK
  OBVIOUS
<1>1. InitConn \in Conn /\ IsFiniteSet(InitConn.txq)
  BY FS_EmptySet, SeqModAssumption DEF InitConn, Conn, RdpStates, SeqNr
<1>2. NoSegment \in Segment
  BY CmpType, SeqModAssumption DEF NoSegment, SeqNr
<1>3. <<>> \in Seq(Payload)
  OBVIOUS
<1> QED
  BY <1>1, <1>2, <1>3 DEF Init, TypeOK

\* Every step keeps the types.
LEMMA TypeNext == TypeOK /\ [Next]_vars => TypeOK'
<1> SUFFICES ASSUME TypeOK, [Next]_vars PROVE TypeOK'
  OBVIOUS
<1>1. Client \in Endpoint
  BY DEF Endpoint
<1>2. CASE Connecting
  BY <1>1, <1>2, ConnectType, PlainUserType, ConnectRetryType, ConnectFailsType
  DEF Connecting, ConnectRefused, ConnectTimeout
<1>3. CASE Accept
  BY <1>1, <1>3, PlainUserType
<1>4. ASSUME NEW e \in Endpoint, UserTask(e) PROVE TypeOK'
  BY <1>4, PlainUserType, RdpSendType, SendOutType, ReadType, CloseType DEF UserTask
<1>5. ASSUME NEW e \in Endpoint, CheckTimeouts(e) \/ FlushNext(e) PROVE TypeOK'
  BY <1>5, CheckTimeoutsType, FlushNextType
<1>6. CASE Arrival
  BY <1>6, ArrivalType
<1>7. CASE (\E m \in net : Lose(m)) \/ Reboot
  BY <1>7, EnvironmentType
<1>8. CASE UNCHANGED vars
  BY <1>8 DEF TypeOK, vars, envVars, histVars
<1> QED
  BY <1>2, <1>3, <1>4, <1>5, <1>6, <1>7, <1>8 DEF Next

\* Every variable keeps its type: the sequence numbers of both connections and
\* of all segments stay within the number space, whatever is sent and received.
THEOREM TypeCorrect == Spec => []TypeOK
<1>1. Init => TypeOK
  BY TypeInit
<1>2. TypeOK /\ [Next]_vars => TypeOK'
  BY TypeNext
<1> QED
  BY <1>1, <1>2, PTL DEF Spec

----------------------------------------------------------------------------
\* The slot of a connection.  What the operators do to the fields that say who
\* holds it.

Slot(c) == <<c.open, c.socket, c.state, c.closedBy>>

\* SlotOK depends on these fields only.
LEMMA SlotOfSlot ==
  ASSUME NEW c, NEW d, Slot(d) = Slot(c), NEW done, SlotOK(c, done)
  PROVE SlotOK(d, done)
  BY DEF Slot, SlotOK

\* Sending changes none of them.
LEMMA SendCmpSlot ==
  ASSUME NEW c, ConnOK(c), NEW seg, NEW ok
  PROVE Slot(SendCmp(c, seg, ok).c) = Slot(c)
  BY DEF SendCmp, Result, Slot, ConnOK, Conn

\* Neither does queueing a SYN.
LEMMA SendSynSlot ==
  ASSUME NEW c, ConnOK(c), NEW seg \in Segment, NEW cloned, NEW ok
  PROVE Slot(SendSyn(c, seg, cloned, ok).c) = Slot(c)
<1>1. ConnOK([c EXCEPT !.txq = TxQueued(@, seg)])
  BY TxQueuedType
<1>2. Slot([c EXCEPT !.txq = TxQueued(@, seg)]) = Slot(c)
  BY DEF Slot, ConnOK, Conn
<1> QED
  BY <1>1, <1>2, SendCmpSlot DEF SendSyn

\* Neither does an acknowledgement.
LEMMA CheckAckSlot ==
  ASSUME NEW c, ConnOK(c), NEW due, NEW ok
  PROVE Slot(CheckAck(c, due, ok).c) = Slot(c)
  BY SendCmpSlot DEF CheckAck, Result

\* Neither does a packet for the user.
LEMMA EnqueueSlot ==
  ASSUME NEW c, ConnOK(c), NEW x
  PROVE Slot(Enqueue(c, x)) = Slot(c)
  BY DEF Enqueue, Slot, ConnOK, Conn

ClosedAs(c, d, done) ==
  /\ d.open = c.open /\ d.socket = c.socket
  /\ d.state # "CLOSED" => SlotOK(d, done)
  /\ d.state = "CLOSED" => d.closedBy = {} /\ done

\* csp_rdp_close: the user, if it is one of those who close, is done.
LEMMA RdpCloseSlot ==
  ASSUME NEW c, ConnOK(c), NEW done \in BOOLEAN, SlotOK(c, done),
         NEW by \in SUBSET ClosedByAll, ByUser \in by => done, NEW rst, NEW ok
  PROVE ClosedAs(c, RdpClose(c, by, rst, ok).c, done)
<1> DEFINE entering == c.state # "CLOSE_WAIT"
           c1 == [c EXCEPT !.closedBy = ClosedBy(@, by), !.state = "CLOSE_WAIT",
                           !.sem = @ \/ entering]
           r == IF entering /\ rst
                THEN SendCmp(c1, Cmp({"ACK", "RST"}, c.nxt, c.cur), ok)
                ELSE Result(c1, {})
           e == [r.c EXCEPT !.state = "CLOSED", !.closedBy = {}]
           d == RdpClose(c, by, rst, ok).c
<1>1. ConnOK(c1)
  BY DEF ClosedBy, ConnOK, Conn, RdpStates
<1>2. /\ c1.open = c.open /\ c1.socket = c.socket
      /\ c1.state = "CLOSE_WAIT" /\ c1.closedBy = c.closedBy \cup by
  BY DEF ClosedBy, ConnOK, Conn
<1>3. ResultOK(r) /\ Slot(r.c) = Slot(c1)
  <2> DEFINE seg == Cmp({"ACK", "RST"}, c.nxt, c.cur)
  <2>1. seg \in Segment
    BY CmpType DEF ConnOK, Conn
  <2> HIDE DEF c1, seg
  <2>2. ResultOK(SendCmp(c1, seg, ok)) /\ Slot(SendCmp(c1, seg, ok).c) = Slot(c1)
    BY <1>1, <2>1, SendCmpType, SendCmpSlot
  <2>3. ResultOK(Result(c1, {})) /\ Result(c1, {}).c = c1
    BY <1>1, ResultType DEF Result
  <2> QED
    BY <2>2, <2>3 DEF seg
<1>4. d = IF c.state = "CLOSED" THEN c ELSE IF ~Agreed(r.c.closedBy) THEN r.c ELSE e
  BY DEF RdpClose, Result
<1> HIDE DEF c1, r, d
<1>5. /\ r.c.open = c.open /\ r.c.socket = c.socket
      /\ r.c.state = "CLOSE_WAIT" /\ r.c.closedBy = c.closedBy \cup by
  BY <1>2, <1>3 DEF Slot
<1>6. /\ e.open = c.open /\ e.socket = c.socket
      /\ e.state = "CLOSED" /\ e.closedBy = {}
  BY <1>3, <1>5 DEF ResultOK, ConnOK, Conn
<1>7. CASE c.state = "CLOSED"
  <2>1. d = c /\ ~c.open /\ c.closedBy = {} /\ done
    BY <1>4, <1>7 DEF SlotOK, ConnOK, Conn
  <2> QED
    BY <2>1, <1>7 DEF d, ClosedAs
<1>8. CASE c.state # "CLOSED" /\ ~Agreed(r.c.closedBy)
  <2>1. d = r.c /\ c.open
    BY <1>4, <1>8 DEF SlotOK
  <2>2. SlotOK(r.c, done)
    BY <1>5, <2>1 DEF SlotOK
  <2> QED
    BY <1>5, <2>1, <2>2 DEF d, ClosedAs
<1>9. CASE c.state # "CLOSED" /\ Agreed(r.c.closedBy)
  <2>1. d = e
    BY <1>4, <1>9
  <2>2. ByUser \in c.closedBy \cup by
    BY <1>5, <1>9 DEF Agreed, ClosedByAll
  <2>3. done
    BY <2>2 DEF SlotOK
  <2> QED
    BY <1>6, <2>1, <2>3 DEF d, ClosedAs
<1> QED
  BY <1>7, <1>8, <1>9

\* d is what an operator has made of connection c.
KeepsSlot(c, d, done) == SlotOK(d, done) /\ (d.open => d.socket = c.socket)

\* csp_conn_close keeps the fields in agreement.
LEMMA ConnCloseSlot ==
  ASSUME NEW c, ConnOK(c), NEW done \in BOOLEAN, SlotOK(c, done),
         NEW by \in SUBSET ClosedByAll, ByUser \in by => done, NEW ok
  PROVE KeepsSlot(c, ConnClose(c, by, ok).c, done)
<1> DEFINE d == RdpClose(c, by, TRUE, ok).c
<1>1. ClosedAs(c, d, done)
  BY RdpCloseSlot
<1>2. ConnOK(d)
  BY RdpCloseType DEF ResultOK
<1>3. ConnClose(c, by, ok).c =
        IF ~c.open THEN c ELSE IF d.state # "CLOSED" THEN d ELSE Released(d)
  BY DEF ConnClose, Result
<1> HIDE DEF d
<1>4. ASSUME d.state = "CLOSED" PROVE SlotOK(Released(d), done) /\ ~Released(d).open
  BY <1>1, <1>2, <1>4 DEF ClosedAs, Released, SlotOK, ConnOK, Conn
<1>5. CASE ~c.open
  BY <1>3, <1>5 DEF KeepsSlot
<1>6. CASE c.open
  BY <1>1, <1>3, <1>4, <1>6 DEF ClosedAs, KeepsSlot
<1> QED
  BY <1>5, <1>6

\* csp_conn_close frees a new connection whose handshake has not begun.
LEMMA CloseNewSlot ==
  ASSUME NEW c, ConnOK(c), c.open, c.state = "CLOSED", c.closedBy = {}, NEW by, NEW ok
  PROVE LET d == ConnClose(c, by, ok).c IN SlotOK(d, TRUE) /\ ~d.open
<1>1. RdpClose(c, by, TRUE, ok).c = c
  BY DEF RdpClose, Result
<1>2. ConnClose(c, by, ok).c = Released(c)
  BY <1>1 DEF ConnClose, Result
<1> QED
  BY <1>2 DEF Released, SlotOK, ConnOK, Conn

\* The label discard_close: when it closes for the user too, there is none.
LEMMA DiscardCloseSlot ==
  ASSUME NEW c, ConnOK(c), NEW done \in BOOLEAN, SlotOK(c, done), c.open,
         NEW by \in SUBSET {ByProtocol, ByTimeout}, NEW ok
  PROVE KeepsSlot(c, DiscardClose(c, by, ok).c, done)
<1> DEFINE d == ConnClose(c, by, ok).c
           all == by \cup {ByUser}
<1>1. /\ by \in SUBSET ClosedByAll /\ all \in SUBSET ClosedByAll
      /\ ByUser \notin by
  BY DEF ClosedByAll, ByUser, ByProtocol, ByTimeout
<1>2. CASE c.socket
  <2>1. ByUser \in all => done
    BY <1>2 DEF SlotOK
  <2>2. DiscardClose(c, by, ok).c = ConnClose(c, all, ok).c
    BY <1>2 DEF DiscardClose
  <2> HIDE DEF all
  <2> QED
    BY <1>1, <2>1, <2>2, ConnCloseSlot
<1>3. CASE ~c.socket
  <2>1. KeepsSlot(c, d, done)
    BY <1>1, ConnCloseSlot
  <2>2. ConnOK(d)
    BY <1>1, ConnCloseType DEF ResultOK
  <2>3. DiscardClose(c, by, ok).c = Enqueue(d, Null)
    BY <1>3 DEF DiscardClose, Result
  <2> HIDE DEF d
  <2>4. Slot(Enqueue(d, Null)) = Slot(d)
    BY <2>2, EnqueueSlot
  <2> QED
    BY <2>1, <2>3, <2>4, SlotOfSlot DEF Slot, KeepsSlot
<1> QED
  BY <1>2, <1>3

\* Neither does data.
LEMMA HandleDataSlot ==
  ASSUME NEW c0, ConnOK(c0), NEW p \in Segment, NEW due, NEW ok
  PROVE Slot(HandleData(c0, p, due, ok).c) = Slot(c0)
<1> DEFINE c == [c0 EXCEPT !.una = Plus(p.ack, 1)]
           stored == [c EXCEPT !.rxq = @ \cup {[seq |-> p.seq, data |-> p.data]}]
<1>1. /\ p.seq \in SeqNr /\ p.ack \in SeqNr /\ p.data \in Payload
      /\ Plus(p.ack, 1) \in SeqNr
  BY PlusType DEF Segment, SeqNr
<1>2. ConnOK(c) /\ Slot(c) = Slot(c0)
  BY <1>1 DEF ConnOK, Conn, Slot
<1> HIDE DEF c
<1>3. ConnOK(stored) /\ Slot(stored) = Slot(c)
  <2>1. [seq |-> p.seq, data |-> p.data] \in [seq : SeqNr, data : Payload]
    BY <1>1
  <2>2. c.rxq \cup {[seq |-> p.seq, data |-> p.data]} \in SUBSET [seq : SeqNr, data : Payload]
    BY <2>1, <1>2 DEF ConnOK, Conn
  <2> QED
    BY <2>2, <1>2 DEF ConnOK, Conn, Slot
<1>4. ConnOK(Taken(c, p)) /\ Slot(Taken(c, p)) = Slot(c)
  <2>1. ConnOK(Enqueue(c, p.data)) /\ Slot(Enqueue(c, p.data)) = Slot(c)
    BY <1>1, <1>2, EnqueueType, EnqueueSlot
  <2> QED
    BY <1>1, <2>1 DEF Taken, ConnOK, Conn, Slot
<1> HIDE DEF stored
<1>5. Slot(SendEack(stored, ok).c) = Slot(c)
  BY <1>3, SendCmpSlot DEF SendEack
<1>6. Slot(CheckAck(c, due, ok).c) = Slot(c) /\ Slot(CheckAck(Taken(c, p), due, ok).c) = Slot(c)
  BY <1>2, <1>4, CheckAckSlot
<1>7. Slot(FlushEack(c, p.eacks)) = Slot(c)
  BY <1>2 DEF FlushEack, Slot, ConnOK, Conn
<1> QED
  BY <1>2, <1>5, <1>6, <1>7 DEF HandleData, Result, c, stored

\* Neither does sending again.
LEMMA RetransmittedSlot ==
  ASSUME NEW c, ConnOK(c), NEW expired, NEW due, NEW ok
  PROVE Slot(Retransmitted(c, expired, due, ok).c) = Slot(c)
<1> DEFINE c1 == [c EXCEPT !.txq = Unacked(c)]
           r == IF DelayedAcks THEN CheckAck(c1, due, ok) ELSE Result(c1, {})
           d == [r.c EXCEPT !.sem = @ \/ ReadyForTx(c)]
<1>1. IsFiniteSet(Unacked(c)) /\ Unacked(c) \subseteq c.txq
  BY FS_Subset DEF Unacked, ConnOK
<1>2. ConnOK(c1) /\ Slot(c1) = Slot(c)
  BY <1>1 DEF ConnOK, Conn, Slot
<1>3. ResultOK(r) /\ Slot(r.c) = Slot(c1)
  <2> HIDE DEF c1
  <2>1. ResultOK(CheckAck(c1, due, ok)) /\ Slot(CheckAck(c1, due, ok).c) = Slot(c1)
    BY <1>2, CheckAckType, CheckAckSlot
  <2>2. ResultOK(Result(c1, {})) /\ Result(c1, {}).c = c1
    BY <1>2, ResultType DEF Result
  <2> QED
    BY <2>1, <2>2
<1>4. Slot(d) = Slot(r.c)
  <2> HIDE DEF r
  <2> QED
    BY <1>3 DEF ResultOK, ConnOK, Conn, Slot
<1>5. Retransmitted(c, expired, due, ok).c = IF c.state # "OPEN" THEN c1 ELSE d
  BY DEF Retransmitted, Result
<1> HIDE DEF c1, d
<1> QED
  BY <1>2, <1>3, <1>4, <1>5

----------------------------------------------------------------------------
\* Each action keeps SlotInv.

Done(e, u, b) == u \in {"none", "closed"} /\ (e = Server => ~b)

\* One endpoint gets connection d, and its user task goes to u.
LEMMA SlotStep ==
  ASSUME TypeOK, SlotInv, NEW e \in Endpoint, NEW d, NEW u,
         conn' = [conn EXCEPT ![e] = d], user' = [user EXCEPT ![e] = u],
         e = Client => backlog' = backlog /\ (d.open => ~d.socket),
         e = Server => u # "closed" /\ (backlog' => u = "none"),
         SlotOK(d, Done(e, u, backlog'))
  PROVE SlotInv'
<1>1. Client # Server /\ Client \in Endpoint /\ Server \in Endpoint
  BY DEF Client, Server, Endpoint
<1>2. conn'[e] = d /\ user'[e] = u
  BY DEF TypeOK
<1>3. ASSUME NEW f \in Endpoint \ {e} PROVE conn'[f] = conn[f] /\ user'[f] = user[f]
  BY DEF TypeOK
<1>4. SlotOK(conn'[e], UserDone(e)')
  BY <1>2 DEF UserDone, Done
<1>5. ASSUME NEW f \in Endpoint \ {e} PROVE SlotOK(conn'[f], UserDone(f)')
  <2>1. UserDone(f)' = UserDone(f)
    BY <1>1, <1>3 DEF UserDone, Endpoint
  <2> QED
    BY <1>3, <2>1 DEF SlotInv
<1>6. conn'[Client].open => ~conn'[Client].socket
  BY <1>1, <1>2, <1>3 DEF SlotInv
<1>7. user'[Server] # "closed" /\ (backlog' => user'[Server] = "none")
  BY <1>1, <1>2, <1>3 DEF SlotInv, Endpoint
<1> QED
  BY <1>4, <1>5, <1>6, <1>7 DEF SlotInv

\* The same when no user task moves.
LEMMA SlotStill ==
  ASSUME TypeOK, SlotInv, NEW e \in Endpoint, NEW d,
         conn' = [conn EXCEPT ![e] = d], UNCHANGED <<user, backlog>>,
         e = Client => (d.open => ~d.socket), SlotOK(d, UserDone(e))
  PROVE SlotInv'
<1>1. user' = [user EXCEPT ![e] = user[e]]
  BY DEF TypeOK
<1>2. SlotOK(d, Done(e, user[e], backlog'))
  BY DEF Done, UserDone
<1> QED
  BY <1>1, <1>2, SlotStep DEF SlotInv

\* The connection a segment arrives for is CLOSED only if it is new, and then
\* no user knows of it.
LEMMA ArrivesSlot ==
  ASSUME TypeOK, SlotInv, NEW e \in Endpoint, NEW p, Arrives(e, p)
  PROVE LET c == Target(e)
        IN /\ c.state = "CLOSED" =>
                c.open /\ c.socket /\ c.closedBy = {} /\ UserDone(e) /\ e = Server
           /\ c.state # "CLOSED" =>
                c.open /\ SlotOK(c, UserDone(e)) /\ (e = Client => ~c.socket)
<1>1. conn[e] \in Conn /\ SlotOK(conn[e], UserDone(e))
  BY DEF TypeOK, SlotInv
<1>2. CASE conn[e].open
  <2>1. Target(e) = conn[e]
    BY <1>2 DEF Target
  <2> QED
    BY <1>1, <1>2, <2>1 DEF SlotOK, SlotInv
<1>3. CASE ~conn[e].open
  <2>1. Target(e) = NewConn(conn[e], TRUE) /\ e = Server
    BY <1>3 DEF Target, Arrives
  <2>2. conn[e].state = "CLOSED" /\ conn[e].closedBy = {} /\ UserDone(e)
    BY <1>1, <1>3 DEF SlotOK, Conn
  <2> QED
    BY <1>1, <2>1, <2>2 DEF NewConn, Conn
<1> QED
  BY <1>2, <1>3

\* A handler that leaves the fields in agreement, and moves no user task.
LEMMA HandlerSlot ==
  ASSUME TypeOK, SlotInv, NEW e \in Endpoint, NEW p, NEW r, NEW ok, NEW next,
         HandledThen(e, p, r, ok, next), backlog' = backlog,
         SlotOK(r.c, UserDone(e)), e = Client => (r.c.open => ~r.c.socket)
  PROVE SlotInv'
  BY SlotStill DEF HandledThen

\* UserDone is a Boolean.
LEMMA UserDoneType == ASSUME NEW e PROVE UserDone(e) \in BOOLEAN
  BY DEF UserDone

\* The handlers of a reset.
LEMMA RstSlot ==
  ASSUME TypeOK, SlotInv, NEW e \in Endpoint, NEW p,
         \/ RstInClosed(e, p) \/ RstInCloseWait(e, p)
         \/ RstInSequence(e, p) \/ RstOutOfSequence(e, p)
  PROVE SlotInv'
<1> DEFINE c == AckOfRst(Target(e), p)
<1>1. Arrives(e, p)
  BY DEF RstInClosed, RstInCloseWait, RstInSequence, RstOutOfSequence
<1>2. ConnOK(Target(e)) /\ ConnOK(c)
  BY <1>1, ArrivesType, AckOfRstType
<1>3. Slot(c) = Slot(Target(e)) /\ c.state = Target(e).state
  BY <1>2 DEF AckOfRst, Slot, ConnOK, Conn
<1> HIDE DEF c
<1>4. CASE RstInClosed(e, p)
  <2>1. c.open /\ c.socket /\ c.closedBy = {} /\ c.state = "CLOSED" /\ UserDone(e)
    BY <1>1, <1>3, <1>4, ArrivesSlot DEF RstInClosed, Slot
  <2>2. SlotOK(ConnClose(c, {ByUser}, TRUE).c, UserDone(e)) /\ ~ConnClose(c, {ByUser}, TRUE).c.open
    BY <1>2, <2>1, CloseNewSlot
  <2>3. HandledThen(e, p, ConnClose(c, {ByUser}, TRUE), TRUE, "idle") /\ backlog' = backlog
    BY <1>4, <2>1 DEF RstInClosed, Handled, Quiet, c
  <2> QED
    BY <2>2, <2>3, HandlerSlot
<1>5. ASSUME Target(e).state # "CLOSED"
      PROVE c.open /\ SlotOK(c, UserDone(e)) /\ (e = Client => ~c.socket)
  BY <1>1, <1>3, <1>5, ArrivesSlot, SlotOfSlot, UserDoneType DEF Slot
<1>6. CASE RstInCloseWait(e, p)
  <2> DEFINE by == IF FastClose /\ "ACK" \in p.flags THEN {ByProtocol, ByTimeout} ELSE {ByProtocol}
             r == DiscardClose(c, by, TRUE)
  <2>1. HandledThen(e, p, r, TRUE, "idle") /\ backlog' = backlog
    BY <1>6 DEF RstInCloseWait, Handled, Quiet, c
  <2>2. c.open /\ SlotOK(c, UserDone(e)) /\ (e = Client => ~c.socket)
    BY <1>5, <1>6 DEF RstInCloseWait
  <2>3. by \in SUBSET {ByProtocol, ByTimeout}
    OBVIOUS
  <2> HIDE DEF by
  <2>4. \A ok \in BOOLEAN : KeepsSlot(c, DiscardClose(c, by, ok).c, UserDone(e))
    BY <1>2, <2>2, <2>3, UserDoneType, DiscardCloseSlot
  <2>5. KeepsSlot(c, r.c, UserDone(e))
    BY <2>4
  <2>6. SlotOK(r.c, UserDone(e)) /\ (r.c.open => r.c.socket = c.socket)
    BY <2>5 DEF KeepsSlot
  <2> HIDE DEF r
  <2> QED
    BY <2>1, <2>2, <2>6, HandlerSlot
<1>7. CASE RstInSequence(e, p)
  <2> DEFINE w == [c EXCEPT !.state = "CLOSE_WAIT"]
             r(ok) == SendCmp(w, Cmp({"ACK", "RST"}, w.nxt, w.cur), ok)
             by == IF FastClose THEN {ByProtocol, ByTimeout} ELSE {ByProtocol}
             d(ok) == DiscardClose(r(ok).c, by, ok)
             s(ok) == Result(d(ok).c, r(ok).out \cup d(ok).out)
  <2>1. PICK ok \in BOOLEAN : HandledThen(e, p, s(ok), ok, "idle")
    BY <1>7 DEF RstInSequence, Handled, c
  <2>2. c.open /\ SlotOK(c, UserDone(e)) /\ (e = Client => ~c.socket)
    BY <1>5, <1>7 DEF RstInSequence
  <2>3. ConnOK(w) /\ SlotOK(w, UserDone(e)) /\ w.open = c.open /\ w.socket = c.socket
    BY <1>2, <2>2 DEF ConnOK, Conn, RdpStates, SlotOK
  <2>4. by \in SUBSET {ByProtocol, ByTimeout}
    OBVIOUS
  <2> HIDE DEF w, by
  <2>5. ResultOK(r(ok)) /\ Slot(r(ok).c) = Slot(w)
    BY <2>3, SendOwnType, SendCmpSlot
  <2> HIDE DEF r
  <2>6. /\ SlotOK(r(ok).c, UserDone(e)) /\ ConnOK(r(ok).c)
        /\ r(ok).c.open /\ r(ok).c.socket = c.socket
    BY <2>2, <2>3, <2>5, SlotOfSlot, UserDoneType DEF Slot, ResultOK
  <2>7. SlotOK(d(ok).c, UserDone(e)) /\ (d(ok).c.open => d(ok).c.socket = c.socket)
    BY <2>4, <2>6, UserDoneType, DiscardCloseSlot DEF KeepsSlot
  <2>8. s(ok).c = d(ok).c
    BY DEF Result
  <2>9. backlog' = backlog
    BY <1>7 DEF RstInSequence, Quiet
  <2> HIDE DEF d, s
  <2> QED
    BY <2>1, <2>2, <2>7, <2>8, <2>9, HandlerSlot
<1>8. CASE RstOutOfSequence(e, p)
  <2>1. HandledThen(e, p, Result(c, {}), TRUE, "idle") /\ backlog' = backlog
    BY <1>8 DEF RstOutOfSequence, Handled, Quiet, c
  <2>2. c.open /\ SlotOK(c, UserDone(e)) /\ (e = Client => ~c.socket)
    BY <1>5, <1>8 DEF RstOutOfSequence
  <2>3. Result(c, {}).c = c
    BY DEF Result
  <2> QED
    BY <2>1, <2>2, <2>3, HandlerSlot
<1> QED
  BY <1>4, <1>6, <1>7, <1>8

\* The handlers that answer, and leave the fields as they are.
LEMMA AnswerSlot ==
  ASSUME TypeOK, SlotInv, NEW e \in Endpoint, NEW p,
         \/ DropUnknown(e, p) \/ DuplicateSyn(e, p) \/ InvalidAck(e, p)
         \/ IgnoredInCloseWait(e, p) \/ OutOfWindow(e, p) \/ HalfOpen(e, p)
         \/ AckInCloseWait(e, p)
  PROVE SlotInv'
<1>1. ASSUME NEW states, "CLOSED" \notin states, Receives(e, p, states)
      PROVE /\ ConnOK(Target(e)) /\ SlotOK(Target(e), UserDone(e)) /\ p \in Segment
            /\ e = Client => ~Target(e).socket
  BY <1>1, ArrivesType, ArrivesSlot DEF Receives
<1>2. ASSUME NEW r, NEW ok, Handled(e, p, r, ok), Quiet, Slot(r.c) = Slot(Target(e)),
             SlotOK(Target(e), UserDone(e)), e = Client => ~Target(e).socket
      PROVE SlotInv'
  <2>1. SlotOK(r.c, UserDone(e)) /\ (e = Client => ~r.c.socket)
    BY <1>2, SlotOfSlot, UserDoneType DEF Slot
  <2> QED
    BY <1>2, <2>1, HandlerSlot DEF Handled, Quiet
<1>3. CASE DropUnknown(e, p)
  <2>1. SlotOK(conn[e], UserDone(e)) /\ Result(conn[e], {}).c = conn[e]
    BY DEF SlotInv, Result
  <2>2. e = Client => (conn[e].open => ~conn[e].socket)
    BY DEF SlotInv
  <2>3. HandledThen(e, p, Result(conn[e], {}), TRUE, "idle") /\ backlog' = backlog
    BY <1>3 DEF DropUnknown, Handled, Quiet
  <2> QED
    BY <2>1, <2>2, <2>3, HandlerSlot
<1>4. CASE DuplicateSyn(e, p) \/ InvalidAck(e, p) \/ IgnoredInCloseWait(e, p)
  <2>1. PICK states \in {{"SYN_RCVD", "OPEN"}, {"CLOSE_WAIT"}} : Receives(e, p, states)
    BY <1>4 DEF DuplicateSyn, InvalidAck, IgnoredInCloseWait
  <2>2. "CLOSED" \notin states
    BY <2>1
  <2>3. Handled(e, p, Result(Target(e), {}), TRUE) /\ Quiet
    BY <1>4 DEF DuplicateSyn, InvalidAck, IgnoredInCloseWait
  <2>4. Slot(Result(Target(e), {}).c) = Slot(Target(e))
    BY DEF Result
  <2> QED
    BY <1>1, <1>2, <2>1, <2>2, <2>3, <2>4
<1>5. CASE OutOfWindow(e, p)
  <2> DEFINE r(ok, cloned) == IF Target(e).state = "SYN_RCVD" THEN SendSynAck(Target(e), cloned, ok)
                      ELSE SendEack(Target(e), ok)
  <2>1. PICK ok \in BOOLEAN, cloned \in BOOLEAN : Handled(e, p, r(ok, cloned), ok)
    BY <1>5 DEF OutOfWindow
  <2>2. ConnOK(Target(e)) /\ SlotOK(Target(e), UserDone(e)) /\ (e = Client => ~Target(e).socket)
    BY <1>1, <1>5 DEF OutOfWindow
  <2>3. Slot(SendSynAck(Target(e), cloned, ok).c) = Slot(Target(e))
    <3>1. Cmp({"SYN", "ACK"}, Target(e).iss, Target(e).irs) \in Segment
      BY <2>2, CmpType DEF ConnOK, Conn
    <3> QED
      BY <2>2, <3>1, SendSynSlot DEF SendSynAck
  <2>4. Slot(SendEack(Target(e), ok).c) = Slot(Target(e))
    BY <2>2, SendCmpSlot DEF SendEack
  <2>5. Slot(r(ok, cloned).c) = Slot(Target(e))
    BY <2>3, <2>4
  <2>6. Quiet
    BY <1>5 DEF OutOfWindow
  <2> HIDE DEF r
  <2> QED
    BY <1>2, <2>1, <2>2, <2>5, <2>6
<1>6. CASE HalfOpen(e, p)
  <2> DEFINE c == [Target(e) EXCEPT !.sem = TRUE]
             r(ok) == SendCmp(c, Cmp({"RST"}, c.nxt, c.cur), ok)
  <2>1. PICK ok \in BOOLEAN : Handled(e, p, r(ok), ok)
    BY <1>6 DEF HalfOpen
  <2>2. ConnOK(Target(e)) /\ SlotOK(Target(e), UserDone(e)) /\ (e = Client => ~Target(e).socket)
    BY <1>1, <1>6 DEF HalfOpen
  <2>3. ConnOK(c) /\ Slot(c) = Slot(Target(e))
    BY <2>2 DEF ConnOK, Conn, Slot
  <2> HIDE DEF c
  <2>4. Slot(r(ok).c) = Slot(Target(e))
    BY <2>3, SendCmpSlot
  <2>5. Quiet
    BY <1>6 DEF HalfOpen
  <2> HIDE DEF r
  <2> QED
    BY <1>2, <2>1, <2>2, <2>4, <2>5
<1>7. CASE AckInCloseWait(e, p)
  <2> DEFINE c == [Target(e) EXCEPT !.una = Plus(p.ack, 1)]
             r(ok) == SendCmp(c, Cmp({"ACK", "RST"}, c.nxt, c.cur), ok)
  <2>1. PICK ok \in BOOLEAN : Handled(e, p, r(ok), ok)
    BY <1>7 DEF AckInCloseWait
  <2>2. /\ ConnOK(Target(e)) /\ SlotOK(Target(e), UserDone(e))
        /\ (e = Client => ~Target(e).socket) /\ p \in Segment
    BY <1>1, <1>7 DEF AckInCloseWait
  <2>3. Plus(p.ack, 1) \in SeqNr
    BY <2>2, PlusType DEF Segment, SeqNr
  <2>4. ConnOK(c) /\ Slot(c) = Slot(Target(e))
    BY <2>2, <2>3 DEF ConnOK, Conn, Slot
  <2> HIDE DEF c
  <2>5. Slot(r(ok).c) = Slot(Target(e))
    BY <2>4, SendCmpSlot
  <2>6. Quiet
    BY <1>7 DEF AckInCloseWait
  <2> HIDE DEF r
  <2> QED
    BY <1>2, <2>1, <2>2, <2>5, <2>6
<1> QED
  BY <1>3, <1>4, <1>5, <1>6, <1>7

\* The handlers that close the connection for the protocol.
LEMMA DiscardSlot ==
  ASSUME TypeOK, SlotInv, NEW e \in Endpoint, NEW p,
         InvalidSyn(e, p) \/ WrongAckInSynRcvd(e, p) \/ BacklogFull(e, p)
  PROVE SlotInv'
<1> DEFINE c == IF BacklogFull(e, p) THEN [Target(e) EXCEPT !.state = "OPEN"] ELSE Target(e)
<1>1. Arrives(e, p) /\ Target(e).state \in {"SYN_RCVD", "OPEN"} /\ Quiet
  BY DEF InvalidSyn, WrongAckInSynRcvd, BacklogFull, Acceptable, Receives
<1>2. /\ ConnOK(Target(e)) /\ SlotOK(Target(e), UserDone(e)) /\ Target(e).open
      /\ e = Client => ~Target(e).socket
  BY <1>1, ArrivesType, ArrivesSlot
<1>3. /\ ConnOK(c) /\ SlotOK(c, UserDone(e)) /\ c.open
      /\ e = Client => ~c.socket
  <2>1. Target(e).closedBy = {}
    BY <1>1, <1>2 DEF SlotOK
  <2> QED
    BY <1>2, <2>1 DEF ConnOK, Conn, RdpStates, SlotOK
<1>4. PICK sends, ok \in BOOLEAN : Handled(e, p, DiscardClose(c, {ByProtocol}, sends), ok)
  <2>1. CASE BacklogFull(e, p)
    BY <2>1 DEF BacklogFull
  <2>2. CASE ~BacklogFull(e, p)
    BY <2>2 DEF InvalidSyn, WrongAckInSynRcvd
  <2> QED
    BY <2>1, <2>2
<1> HIDE DEF c
<1>5. KeepsSlot(c, DiscardClose(c, {ByProtocol}, sends).c, UserDone(e))
  BY <1>3, UserDoneType, DiscardCloseSlot
<1> DEFINE r == DiscardClose(c, {ByProtocol}, sends)
<1>6. SlotOK(r.c, UserDone(e)) /\ (r.c.open => r.c.socket = c.socket)
  BY <1>5 DEF KeepsSlot
<1>7. HandledThen(e, p, r, ok, "idle") /\ backlog' = backlog
  BY <1>1, <1>4 DEF Handled, Quiet
<1> HIDE DEF r
<1> QED
  BY <1>3, <1>6, <1>7, HandlerSlot

\* A new connection whose first segment is not a SYN is freed at once.
LEMMA NoSynInClosedSlot ==
  ASSUME TypeOK, SlotInv, NEW e \in Endpoint, NEW p, NoSynInClosed(e, p) PROVE SlotInv'
<1> DEFINE c == Target(e)
           r(ok) == SendCmp(c, Cmp({"RST"}, c.nxt, c.cur), ok)
           d(ok) == DiscardClose(r(ok).c, {ByProtocol}, ok)
           s(ok) == Result(d(ok).c, r(ok).out \cup d(ok).out)
<1>1. PICK ok \in BOOLEAN : Handled(e, p, s(ok), ok) /\ Quiet
  BY DEF NoSynInClosed
<1>2. Arrives(e, p) /\ c.state = "CLOSED"
  BY DEF NoSynInClosed, Receives
<1>3. /\ ConnOK(c) /\ c.open /\ c.socket /\ c.closedBy = {} /\ UserDone(e)
  BY <1>2, ArrivesType, ArrivesSlot
<1> HIDE DEF c
<1>4. ResultOK(r(ok)) /\ Slot(r(ok).c) = Slot(c)
  BY <1>3, SendOwnType, SendCmpSlot
<1> HIDE DEF r
<1>5. /\ ConnOK(r(ok).c) /\ r(ok).c.open /\ r(ok).c.socket
      /\ r(ok).c.state = "CLOSED" /\ r(ok).c.closedBy = {}
  BY <1>2, <1>3, <1>4 DEF Slot, ResultOK
<1>6. d(ok).c = ConnClose(r(ok).c, {ByProtocol} \cup {ByUser}, ok).c
  BY <1>5 DEF DiscardClose
<1>7. SlotOK(d(ok).c, TRUE) /\ ~d(ok).c.open
  BY <1>5, <1>6, CloseNewSlot
<1>8. s(ok).c = d(ok).c
  BY DEF Result
<1>9. HandledThen(e, p, s(ok), ok, "idle") /\ backlog' = backlog
  BY <1>1 DEF Handled, Quiet
<1>10. SlotOK(s(ok).c, UserDone(e)) /\ ~s(ok).c.open
  BY <1>3, <1>7, <1>8 DEF SlotOK
<1> HIDE DEF d, s
<1> QED
  BY <1>9, <1>10, HandlerSlot

\* A SYN begins the handshake of a new connection nobody uses yet.
LEMMA SynInClosedSlot ==
  ASSUME TypeOK, SlotInv, NEW e \in Endpoint, NEW p, SynInClosed(e, p) PROVE SlotInv'
<1> DEFINE c == [Target(e) EXCEPT
                   !.iss = Pick(e), !.nxt = Plus(Pick(e), 1), !.una = Pick(e),
                   !.cur = p.seq, !.irs = p.seq, !.lsa = p.seq,
                   !.state = "SYN_RCVD"]
<1>1. p \in Segment /\ ConnOK(Target(e))
  BY ArrivesType DEF SynInClosed, Receives
<1>2. Pick(e) \in SeqNr
  BY PickType DEF SynInClosed
<1>3. Plus(Pick(e), 1) \in SeqNr
  BY <1>2, PlusType DEF SeqNr
<1>4. p.seq \in SeqNr
  BY <1>1 DEF Segment
<1>5. Target(e).open /\ Target(e).closedBy = {} /\ UserDone(e) /\ e = Server
  BY ArrivesSlot DEF SynInClosed, Receives
<1>6. ConnOK(c) /\ SlotOK(c, UserDone(e))
  BY <1>1, <1>2, <1>3, <1>4, <1>5, ZenonT(60) DEF ConnOK, Conn, RdpStates, SlotOK
<1>7. PICK ok \in BOOLEAN, cloned \in BOOLEAN :
        HandledThen(e, p, SendSynAck(c, cloned, ok), ok, "idle")
  BY DEF SynInClosed, Handled
<1> HIDE DEF c
<1>8. Slot(SendSynAck(c, cloned, ok).c) = Slot(c)
  <2>1. Cmp({"SYN", "ACK"}, c.iss, c.irs) \in Segment
    BY <1>6, CmpType DEF ConnOK, Conn
  <2> QED
    BY <1>6, <2>1, SendSynSlot DEF SendSynAck
<1>9. SlotOK(SendSynAck(c, cloned, ok).c, UserDone(e))
  BY <1>6, <1>8, UserDoneType, SlotOfSlot
<1>10. backlog' = backlog /\ e # Client
  BY <1>5 DEF SynInClosed, Client, Server
<1> QED
  BY <1>7, <1>9, <1>10, HandlerSlot

\* The SYN/ACK opens a connection nobody has closed.
LEMMA SynAckInSynSentSlot ==
  ASSUME TypeOK, SlotInv, NEW e \in Endpoint, NEW p, SynAckInSynSent(e, p) PROVE SlotInv'
<1> DEFINE c == [Target(e) EXCEPT
                   !.cur = p.seq, !.irs = p.seq, !.lsa = (p.seq - 1) % SeqMod,
                   !.una = Plus(p.ack, 1), !.state = "OPEN", !.sem = TRUE]
           r(ok) == SendCmp(c, Cmp({"ACK"}, c.nxt, c.cur), ok)
<1>1. p \in Segment /\ ConnOK(Target(e))
  BY ArrivesType DEF SynAckInSynSent, Receives
<1>2. p.seq \in SeqNr /\ p.ack \in SeqNr /\ p.seq \in Int /\ p.ack \in Int
  BY <1>1 DEF Segment, SeqNr
<1>3. (p.seq - 1) % SeqMod \in SeqNr /\ Plus(p.ack, 1) \in SeqNr
  BY <1>2, PlusType, MinusType
<1>4. Target(e).state = "SYN_SENT" /\ Arrives(e, p)
  BY DEF SynAckInSynSent, Receives
<1>5. SlotOK(Target(e), UserDone(e)) /\ Target(e).open /\ (e = Client => ~Target(e).socket)
  BY <1>4, ArrivesSlot
<1>6. ConnOK(c) /\ SlotOK(c, UserDone(e)) /\ (e = Client => ~c.socket)
  <2>1. Target(e).closedBy = {}
    BY <1>4, <1>5 DEF SlotOK
  <2> QED
    BY <1>1, <1>2, <1>3, <1>5, <2>1 DEF ConnOK, Conn, RdpStates, SlotOK
<1>7. PICK ok \in BOOLEAN : HandledThen(e, p, r(ok), ok, "idle")
  BY DEF SynAckInSynSent, Handled
<1> HIDE DEF c
<1>8. Slot(r(ok).c) = Slot(c)
  BY <1>6, SendCmpSlot
<1>9. SlotOK(r(ok).c, UserDone(e)) /\ (e = Client => ~r(ok).c.socket)
  BY <1>6, <1>8, UserDoneType, SlotOfSlot DEF Slot
<1>10. backlog' = backlog
  BY DEF SynAckInSynSent, Quiet
<1> HIDE DEF r
<1> QED
  BY <1>7, <1>9, <1>10, HandlerSlot

\* Data changes none of the fields; the handshake gives the connection to the
\* socket, once.
LEMMA DataSlot ==
  ASSUME TypeOK, SlotInv, NEW e \in Endpoint, NEW p, DataInOpen(e, p) \/ HandshakeDone(e, p)
  PROVE SlotInv'
<1>1. Arrives(e, p) /\ Target(e).state \in {"SYN_RCVD", "OPEN"}
  BY DEF DataInOpen, HandshakeDone, Acceptable, Receives
<1>2. /\ p \in Segment /\ ConnOK(Target(e)) /\ Target(e).open
      /\ SlotOK(Target(e), UserDone(e)) /\ (e = Client => ~Target(e).socket)
  BY <1>1, ArrivesType, ArrivesSlot
<1>3. CASE DataInOpen(e, p)
  <2>1. PICK ok \in BOOLEAN, due \in BOOLEAN : HandledData(e, p, Target(e), due, ok)
    BY <1>3 DEF DataInOpen
  <2> DEFINE r == HandleData(Target(e), p, due, ok)
  <2>2. PICK next : HandledThen(e, p, r, ok, next)
    BY <2>1 DEF HandledData
  <2>3. Slot(r.c) = Slot(Target(e))
    BY <1>2, HandleDataSlot
  <2>4. SlotOK(r.c, UserDone(e)) /\ (e = Client => ~r.c.socket)
    BY <1>2, <2>3, SlotOfSlot, UserDoneType DEF Slot
  <2>5. backlog' = backlog
    BY <1>3 DEF DataInOpen, Quiet
  <2> HIDE DEF r
  <2> QED
    BY <2>2, <2>4, <2>5, HandlerSlot
<1>4. CASE HandshakeDone(e, p)
  <2> DEFINE c == Opened(Target(e))
  <2>1. PICK ok \in BOOLEAN, due \in BOOLEAN : HandledData(e, p, c, due, ok)
    BY <1>4 DEF HandshakeDone
  <2> DEFINE r == HandleData(c, p, due, ok)
  <2>2. PICK next : HandledThen(e, p, r, ok, next)
    BY <2>1 DEF HandledData
  <2>3. Target(e).closedBy = {}
    BY <1>1, <1>2 DEF SlotOK
  <2>4. ConnOK(c) /\ c.open /\ ~c.socket /\ c.state = "OPEN" /\ c.closedBy = {}
    BY <1>2, <2>3 DEF Opened, ConnOK, Conn, RdpStates
  <2> HIDE DEF c
  <2>5. Slot(r.c) = Slot(c)
    BY <1>2, <2>4, HandleDataSlot
  <2> HIDE DEF r
  <2>6. r.c.open /\ ~r.c.socket /\ r.c.state = "OPEN" /\ r.c.closedBy = {}
    BY <2>4, <2>5 DEF Slot
  <2>7. SlotOK(r.c, Done(e, user[e], backlog'))
    BY <2>6 DEF SlotOK
  <2>8. conn' = [conn EXCEPT ![e] = r.c] /\ user' = user
    BY <2>2 DEF HandledThen
  <2>9. user' = [user EXCEPT ![e] = user[e]]
    BY <2>8 DEF TypeOK
  <2>10. backlog' = (backlog \/ Target(e).socket)
    BY <1>4 DEF HandshakeDone
  <2>11. e = Client => backlog' = backlog
    BY <1>2, <2>10 DEF TypeOK
  <2>12. e = Server => user[e] # "closed" /\ (backlog' => user[e] = "none")
    BY <1>2, <2>10 DEF SlotInv, SlotOK, UserDone
  <2> QED
    BY <2>6, <2>7, <2>8, <2>9, <2>11, <2>12, SlotStep
<1> QED
  BY <1>3, <1>4

\* All of csp_rdp_new_packet.
LEMMA ArrivalSlot == ASSUME TypeOK, SlotInv, Arrival PROVE SlotInv'
<1>1. PICK m \in net : NewPacket(m.to, m.seg)
  BY DEF Arrival
<1>2. m.to \in Endpoint
  BY DEF TypeOK
<1> QED
  BY <1>1, <1>2, RstSlot, AnswerSlot, DiscardSlot, NoSynInClosedSlot, SynInClosedSlot,
     SynAckInSynSentSlot, DataSlot DEF NewPacket

\* The user task.  Whoever holds a connection is not done with it.
Holding == {"connecting", "ready", "waiting", "sending"}

\* Its connection is open and not a socket's, and the backlog is empty.
LEMMA HolderSlot ==
  ASSUME TypeOK, SlotInv, NEW e \in Endpoint, user[e] \in Holding
  PROVE /\ conn[e].open /\ SlotOK(conn[e], FALSE) /\ SlotOK(conn[e], TRUE)
        /\ ~conn[e].socket
        /\ e = Server => ~backlog
<1>1. ~UserDone(e)
  BY DEF UserDone, Holding
<1>2. SlotOK(conn[e], UserDone(e)) /\ (e = Client => (conn[e].open => ~conn[e].socket))
  BY DEF SlotInv
<1>3. conn[e] \in Conn
  BY DEF TypeOK
<1>4. conn[e].open /\ ~conn[e].socket /\ SlotOK(conn[e], FALSE)
  BY <1>1, <1>2, <1>3 DEF SlotOK, Conn
<1>5. SlotOK(conn[e], TRUE)
  BY <1>4 DEF SlotOK
<1>6. e = Server => ~backlog
  BY DEF SlotInv, Holding
<1> QED
  BY <1>4, <1>5, <1>6

\* It goes on holding it.
LEMMA HeldStep ==
  ASSUME TypeOK, SlotInv, NEW e \in Endpoint, user[e] \in Holding,
         NEW d, Slot(d) = Slot(conn[e]), conn' = [conn EXCEPT ![e] = d],
         NEW u \in Holding, user' = [user EXCEPT ![e] = u], backlog' = backlog
  PROVE SlotInv'
<1>1. /\ conn[e].open /\ SlotOK(conn[e], FALSE)
      /\ ~conn[e].socket
      /\ e = Server => ~backlog
  BY HolderSlot
<1>2. SlotOK(d, FALSE)
  BY <1>1, SlotOfSlot
<1>3. Done(e, u, backlog') = FALSE
  BY DEF Done, Holding
<1>4. u # "closed"
  BY DEF Holding
<1>5. SlotOK(d, Done(e, u, backlog'))
  BY <1>2, <1>3 DEF SlotOK
<1>6. ~d.socket
  BY <1>1 DEF Slot
<1> QED
  BY <1>1, <1>4, <1>5, <1>6, SlotStep

\* It closes it.
LEMMA DoneStep ==
  ASSUME TypeOK, SlotInv, NEW e \in Endpoint, user[e] \in Holding,
         NEW d, KeepsSlot(conn[e], d, TRUE), conn' = [conn EXCEPT ![e] = d],
         NEW u, user' = [user EXCEPT ![e] = u], u \in {"none", "closed"},
         e = Server => u = "none", backlog' = backlog
  PROVE SlotInv'
<1>1. ~conn[e].socket /\ (e = Server => ~backlog)
  BY HolderSlot
<1>2. Done(e, u, backlog') = TRUE
  BY <1>1 DEF Done
<1>3. SlotOK(d, Done(e, u, backlog')) /\ (d.open => ~d.socket)
  BY <1>1, <1>2 DEF KeepsSlot
<1> QED
  BY <1>1, <1>3, SlotStep

\* csp_connect gives up: csp_rdp_close_internal without RST, then csp_close.
LEMMA GivenUpSlot ==
  ASSUME NEW c, ConnOK(c), c.open, SlotOK(c, TRUE), NEW ok
  PROVE KeepsSlot(c, ConnClose(RdpClose(c, {ByProtocol}, FALSE, ok).c, {ByUser}, ok).c, TRUE)
<1> DEFINE m == RdpClose(c, {ByProtocol}, FALSE, ok).c
           d == ConnClose(m, {ByUser}, ok).c
<1>1. ConnOK(m) /\ ClosedAs(c, m, TRUE)
  BY ClosersType, RdpCloseType, RdpCloseSlot DEF ResultOK
<1> HIDE DEF m
<1>2. m.open /\ m.socket = c.socket
  BY <1>1 DEF ClosedAs
<1>3. CASE m.state = "CLOSED"
  <2>1. m.closedBy = {}
    BY <1>1, <1>3 DEF ClosedAs
  <2>2. SlotOK(d, TRUE) /\ ~d.open
    BY <1>1, <1>2, <1>3, <2>1, CloseNewSlot
  <2> HIDE DEF d
  <2>3. KeepsSlot(c, d, TRUE)
    BY <2>2 DEF KeepsSlot
  <2> QED
    BY <2>3 DEF d, m
<1>4. CASE m.state # "CLOSED"
  <2>1. SlotOK(m, TRUE)
    BY <1>1, <1>4 DEF ClosedAs
  <2>2. KeepsSlot(m, d, TRUE)
    BY <1>1, <2>1, ClosersType, ConnCloseSlot
  <2> HIDE DEF d
  <2>3. KeepsSlot(c, d, TRUE)
    BY <1>2, <2>2 DEF KeepsSlot
  <2> QED
    BY <2>3 DEF d, m
<1> QED
  BY <1>3, <1>4

\* From a connection without a socket that nobody has closed, csp_rdp_connect
\* comes to wait for the handshake or gives up.
LEMMA SendSynRequestSlot ==
  ASSUME TypeOK, SlotInv, NEW c0, ConnOK(c0), c0.open, ~c0.socket, c0.closedBy = {},
         NEW again, SendSynRequest(Client, c0, again), backlog' = backlog
  PROVE SlotInv'
<1> DEFINE iss == Pick(Client)
           c1 == [c0 EXCEPT !.iss = iss, !.nxt = Plus(iss, 1), !.una = iss,
                            !.sem = FALSE, !.state = "SYN_SENT"]
           r(ok) == SendSyn(c1, Cmp({"SYN"}, iss, 0), FALSE, ok)
           failed(ok) == ConnClose(RdpClose(r(ok).c, {ByProtocol}, FALSE, ok).c, {ByUser}, ok)
<1>1. PICK ok \in BOOLEAN :
        /\ CanPick(Client)
        /\ conn' = [conn EXCEPT ![Client] = IF ok THEN r(ok).c ELSE failed(ok).c]
        /\ user' = [user EXCEPT ![Client] = IF ok THEN "connecting" ELSE "closed"]
  BY DEF SendSynRequest
<1>2. Client \in Endpoint /\ Client # Server
  BY DEF Endpoint, Client, Server
<1>3. iss \in SeqNr
  BY <1>1, <1>2, PickType
<1>4. Plus(iss, 1) \in SeqNr
  BY <1>3, PlusType DEF SeqNr
<1>5. Cmp({"SYN"}, iss, 0) \in Segment
  BY <1>3, CmpType, SeqModAssumption DEF SeqNr
<1> HIDE DEF iss
<1>6. ConnOK(c1) /\ Slot(c1) = <<TRUE, FALSE, "SYN_SENT", {}>>
  BY <1>3, <1>4 DEF ConnOK, Conn, RdpStates, Slot
<1> HIDE DEF c1
<1>7. ConnOK(r(ok).c) /\ Slot(r(ok).c) = Slot(c1)
  <2> DEFINE syn == Cmp({"SYN"}, iss, 0)
  <2> HIDE DEF syn
  <2>1. \A cloned \in BOOLEAN : /\ ConnOK(SendSyn(c1, syn, cloned, ok).c)
                                /\ Slot(SendSyn(c1, syn, cloned, ok).c) = Slot(c1)
    <3> TAKE cloned \in BOOLEAN
    <3>1. syn \in Segment
      BY <1>5 DEF syn
    <3>2. ResultOK(SendSyn(c1, syn, cloned, ok))
      BY <1>6, <3>1, SendSynType
    <3>3. Slot(SendSyn(c1, syn, cloned, ok).c) = Slot(c1)
      <4>1. ConnOK(c1)
        BY <1>6
      <4> QED
        BY <4>1, <3>1, SendSynSlot
    <3> QED
      BY <3>2, <3>3 DEF ResultOK
  <2> QED
    BY <2>1 DEF syn
<1> HIDE DEF r
<1>8. /\ r(ok).c.open /\ ~r(ok).c.socket
      /\ SlotOK(r(ok).c, TRUE) /\ SlotOK(r(ok).c, FALSE)
  BY <1>6, <1>7 DEF Slot, SlotOK
<1>9. CASE ok
  <2>1. conn' = [conn EXCEPT ![Client] = r(ok).c] /\ user' = [user EXCEPT ![Client] = "connecting"]
    BY <1>1, <1>9
  <2>2. Done(Client, "connecting", backlog') = FALSE
    BY DEF Done
  <2>3. SlotOK(r(ok).c, Done(Client, "connecting", backlog'))
    BY <1>8, <2>2 DEF SlotOK
  <2> QED
    BY <1>2, <1>8, <2>1, <2>3, SlotStep
<1>10. CASE ~ok
  <2>1. conn' = [conn EXCEPT ![Client] = failed(ok).c] /\ user' = [user EXCEPT ![Client] = "closed"]
    BY <1>1, <1>10
  <2>2. KeepsSlot(r(ok).c, failed(ok).c, TRUE)
    BY <1>7, <1>8, GivenUpSlot
  <2> HIDE DEF failed
  <2>3. SlotOK(failed(ok).c, TRUE) /\ (failed(ok).c.open => ~failed(ok).c.socket)
    BY <1>8, <2>2 DEF KeepsSlot
  <2>4. Done(Client, "closed", backlog') = TRUE
    BY <1>2 DEF Done
  <2>5. SlotOK(failed(ok).c, Done(Client, "closed", backlog'))
    BY <2>3, <2>4 DEF SlotOK
  <2> QED
    BY <1>2, <2>1, <2>3, <2>5, SlotStep
<1> QED
  BY <1>9, <1>10

\* All of csp_connect.
LEMMA ConnectingSlot == ASSUME TypeOK, SlotInv, Connecting PROVE SlotInv'
<1>1. Client \in Endpoint /\ Client # Server /\ ConnOK(conn[Client])
  BY TypeParts DEF LinkType, Endpoint, Client, Server
<1>2. CASE Connect
  <2> DEFINE c == NewConn(conn[Client], FALSE)
  <2>1. conn[Client].closedBy = {}
    BY <1>1, <1>2 DEF Connect, SlotInv, SlotOK
  <2>2. ConnOK(c) /\ c.open /\ ~c.socket /\ c.closedBy = {}
    BY <1>1, <2>1, NewConnType DEF NewConn, ConnOK, Conn
  <2>3. SendSynRequest(Client, c, TRUE) /\ backlog' = backlog
    BY <1>2 DEF Connect
  <2> HIDE DEF c
  <2> QED
    BY <2>2, <2>3, SendSynRequestSlot
<1>3. ASSUME user[Client] = "connecting"
      PROVE /\ user[Client] \in Holding /\ conn[Client].open /\ ~conn[Client].socket
            /\ SlotOK(conn[Client], TRUE)
  BY <1>1, <1>3, HolderSlot DEF Holding
<1>4. CASE ConnectOpened
  <2> DEFINE d == [conn[Client] EXCEPT !.sem = FALSE]
  <2>1. conn' = [conn EXCEPT ![Client] = d]
    BY <1>1, <1>4 DEF ConnectOpened, TypeOK
  <2>2. Slot(d) = Slot(conn[Client])
    BY <1>1 DEF Slot, ConnOK, Conn
  <2>3. user' = [user EXCEPT ![Client] = "ready"] /\ backlog' = backlog
    BY <1>4 DEF ConnectOpened
  <2>4. user[Client] \in Holding
    BY <1>3, <1>4 DEF ConnectOpened
  <2> HIDE DEF d
  <2> QED
    BY <1>1, <2>1, <2>2, <2>3, <2>4, HeldStep DEF Holding
<1>5. CASE ConnectRetry
  <2> DEFINE c == [conn[Client] EXCEPT !.txq = {}, !.rxq = {}]
  <2>1. conn[Client].open /\ ~conn[Client].socket /\ conn[Client].closedBy = {}
    BY <1>3, <1>5 DEF ConnectRetry, SlotOK
  <2>2. ConnOK(c) /\ c.open /\ ~c.socket /\ c.closedBy = {}
    BY <1>1, <2>1, FS_EmptySet DEF ConnOK, Conn
  <2>3. SendSynRequest(Client, c, FALSE) /\ backlog' = backlog
    BY <1>5 DEF ConnectRetry
  <2> HIDE DEF c
  <2> QED
    BY <2>2, <2>3, SendSynRequestSlot
<1>6. CASE ConnectRefused \/ ConnectTimeout
  <2>1. user[Client] = "connecting" /\ ConnectFails
    BY <1>6 DEF ConnectRefused, ConnectTimeout
  <2> DEFINE d(ok) == ConnClose(RdpClose(conn[Client], {ByProtocol}, FALSE, ok).c, {ByUser}, ok).c
  <2>2. PICK ok \in BOOLEAN : conn' = [conn EXCEPT ![Client] = d(ok)]
    BY <2>1 DEF ConnectFails
  <2>3. user' = [user EXCEPT ![Client] = "closed"] /\ backlog' = backlog
    BY <2>1 DEF ConnectFails
  <2>4. KeepsSlot(conn[Client], d(ok), TRUE)
    BY <1>1, <1>3, <2>1, GivenUpSlot
  <2> HIDE DEF d
  <2> QED
    BY <1>1, <1>3, <2>1, <2>2, <2>3, <2>4, DoneStep
<1> QED
  BY <1>2, <1>4, <1>5, <1>6 DEF Connecting

\* csp_accept hands the connection from the backlog to the user.
LEMMA AcceptSlot == ASSUME TypeOK, SlotInv, Accept PROVE SlotInv'
<1>1. Server \in Endpoint /\ Client # Server
  BY DEF Endpoint, Client, Server
<1>2. conn' = [conn EXCEPT ![Server] = conn[Server]]
  BY DEF Accept, TypeOK
<1>3. ~UserDone(Server) /\ SlotOK(conn[Server], UserDone(Server))
  BY <1>1 DEF Accept, UserDone, SlotInv
<1>4. Done(Server, "ready", backlog') = FALSE
  BY DEF Done
<1>5. SlotOK(conn[Server], Done(Server, "ready", backlog'))
  BY <1>3, <1>4 DEF SlotOK
<1>6. user' = [user EXCEPT ![Server] = "ready"] /\ backlog' = FALSE
  BY DEF Accept
<1> QED
  BY <1>1, <1>2, <1>5, <1>6, SlotStep

\* All other calls of the user task.
LEMMA UserTaskSlot ==
  ASSUME TypeOK, SlotInv, NEW e \in Endpoint, UserTask(e) PROVE SlotInv'
<1>1. conn[e] \in Conn /\ ConnOK(conn[e])
  BY TypeParts DEF LinkType, TypeOK
<1>2. CASE SendBlocks(e) \/ SendTimeout(e) \/ SendOut(e)
  <2>1. conn' = [conn EXCEPT ![e] = conn[e]] /\ backlog' = backlog
    BY <1>2 DEF SendBlocks, SendTimeout, SendOut, TypeOK
  <2>2. user[e] \in Holding /\ \E u \in Holding : user' = [user EXCEPT ![e] = u]
    BY <1>2 DEF SendBlocks, SendTimeout, SendOut, Holding
  <2> QED
    BY <2>1, <2>2, HeldStep
<1>3. CASE SendWakes(e)
  <2> DEFINE d == [conn[e] EXCEPT !.sem = FALSE]
  <2>1. conn' = [conn EXCEPT ![e] = d]
    BY <1>3 DEF SendWakes, TypeOK
  <2>2. Slot(d) = Slot(conn[e])
    BY <1>1 DEF Slot, Conn
  <2>3. user[e] \in Holding /\ \E u \in Holding : user' = [user EXCEPT ![e] = u]
    <3>1. user = [user EXCEPT ![e] = user[e]] /\ user[e] = "waiting"
      BY <1>3 DEF SendWakes, TypeOK
    <3> QED
      BY <1>3, <3>1 DEF SendWakes, Holding
  <2> HIDE DEF d
  <2> QED
    BY <1>3, <2>1, <2>2, <2>3, HeldStep DEF SendWakes
<1>4. CASE RdpSend(e)
  <2> DEFINE seg == [Cmp({"ACK"}, conn[e].nxt, conn[e].cur)
                       EXCEPT !.data = <<picks[e], sent[e] + 1>>]
             d == [conn[e] EXCEPT !.txq = TxQueued(@, seg), !.nxt = Plus(@, 1),
                                  !.sem = @ /\ user[e] = "ready"]
  <2>1. conn' = [conn EXCEPT ![e] = d] /\ user' = [user EXCEPT ![e] = "sending"]
    BY <1>4 DEF RdpSend
  <2>2. Slot(d) = Slot(conn[e])
    BY <1>1 DEF Slot, Conn
  <2>3. user[e] \in Holding /\ backlog' = backlog
    BY <1>4 DEF RdpSend, Holding
  <2> HIDE DEF d
  <2> QED
    BY <2>1, <2>2, <2>3, HeldStep DEF Holding
<1>5. CASE SendNoBufs(e)
  <2> DEFINE d == [conn[e] EXCEPT !.sem = @ /\ user[e] = "ready"]
  <2>1. conn' = [conn EXCEPT ![e] = d]
    BY <1>5 DEF SendNoBufs, TypeOK
  <2>2. Slot(d) = Slot(conn[e])
    BY <1>1 DEF Slot, Conn
  <2>3. user[e] \in Holding /\ backlog' = backlog /\ user' = [user EXCEPT ![e] = "ready"]
    BY <1>5 DEF SendNoBufs, Holding
  <2> HIDE DEF d
  <2> QED
    BY <2>1, <2>2, <2>3, HeldStep DEF Holding
<1>6. CASE Read(e)
  <2> DEFINE c == [conn[e] EXCEPT !.rx = Tail(@)]
             r(ok, due) == IF DelayedAcks THEN CheckAck(c, due, ok) ELSE Result(c, {})
  <2>1. PICK ok \in BOOLEAN, due \in BOOLEAN : conn' = [conn EXCEPT ![e] = r(ok, due).c]
    BY <1>6 DEF Read
  <2>2. Tail(conn[e].rx) \in Seq(Payload)
    BY <1>1, <1>6 DEF Read, Conn
  <2>3. ConnOK(c) /\ Slot(c) = Slot(conn[e])
    BY <1>1, <2>2 DEF ConnOK, Conn, Slot
  <2> HIDE DEF c
  <2>4. Slot(r(ok, due).c) = Slot(conn[e])
    BY <2>3, CheckAckSlot DEF Result
  <2>5. user[e] \in Holding /\ backlog' = backlog /\ user' = [user EXCEPT ![e] = user[e]]
    BY <1>6 DEF Read, Holding, TypeOK
  <2> HIDE DEF r
  <2> QED
    BY <2>1, <2>4, <2>5, HeldStep
<1>7. CASE Close(e)
  <2>1. PICK ok \in BOOLEAN : conn' = [conn EXCEPT ![e] = ConnClose(conn[e], {ByUser}, ok).c]
    BY <1>7 DEF Close
  <2>2. user[e] \in Holding /\ backlog' = backlog
    BY <1>7 DEF Close, Holding
  <2>3. KeepsSlot(conn[e], ConnClose(conn[e], {ByUser}, ok).c, TRUE)
    BY <1>1, <2>2, HolderSlot, ClosersType, ConnCloseSlot
  <2>4. user' = [user EXCEPT ![e] = IF e = Server THEN "none" ELSE "closed"]
    BY <1>7 DEF Close
  <2> QED
    BY <2>1, <2>2, <2>3, <2>4, DoneStep
<1> QED
  BY <1>2, <1>3, <1>4, <1>5, <1>6, <1>7 DEF UserTask

\* The router's timers.
LEMMA CheckTimeoutsSlot ==
  ASSUME TypeOK, SlotInv, NEW e \in Endpoint, CheckTimeouts(e) \/ FlushNext(e)
  PROVE SlotInv'
<1>1. /\ ConnOK(conn[e]) /\ SlotOK(conn[e], UserDone(e))
      /\ e = Client => (conn[e].open => ~conn[e].socket)
  BY TypeParts DEF LinkType, SlotInv
<1>2. ASSUME NEW r, NEW ok, Checked(e, r, ok), KeepsSlot(conn[e], r.c, UserDone(e)),
             conn[e].open
      PROVE SlotInv'
  <2>1. conn' = [conn EXCEPT ![e] = r.c] /\ UNCHANGED <<user, backlog>>
    BY <1>2 DEF Checked, RouterUnchanged
  <2>2. SlotOK(r.c, UserDone(e)) /\ (e = Client => (r.c.open => ~r.c.socket))
    BY <1>1, <1>2 DEF KeepsSlot
  <2> QED
    BY <2>1, <2>2, SlotStill
<1>3. CASE CheckNothing(e)
  <2>1. conn' = [conn EXCEPT ![e] = conn[e]] /\ UNCHANGED <<user, backlog>>
    BY <1>3 DEF CheckNothing, RouterUnchanged, TypeOK
  <2> QED
    BY <1>1, <2>1, SlotStill
<1>4. CASE LostConnection(e)
  <2>1. UserDone(e)
    BY <1>1, <1>4 DEF LostConnection, SlotOK
  <2>2. PICK ok \in BOOLEAN : Checked(e, ConnClose(conn[e], ClosedByAll, ok), ok)
    BY <1>4 DEF LostConnection
  <2>3. KeepsSlot(conn[e], ConnClose(conn[e], ClosedByAll, ok).c, UserDone(e))
    BY <1>1, <2>1, UserDoneType, ConnCloseSlot
  <2> QED
    BY <1>2, <1>4, <2>2, <2>3 DEF LostConnection
<1>5. CASE CloseWaitTimeout(e)
  <2>1. PICK ok \in BOOLEAN : Checked(e, ConnClose(conn[e], {ByProtocol, ByTimeout}, ok), ok)
    BY <1>5 DEF CloseWaitTimeout
  <2>2. ByUser \notin {ByProtocol, ByTimeout}
    BY DEF ByUser, ByProtocol, ByTimeout
  <2>3. KeepsSlot(conn[e], ConnClose(conn[e], {ByProtocol, ByTimeout}, ok).c, UserDone(e))
    BY <1>1, <2>2, UserDoneType, ClosersType, ConnCloseSlot
  <2> QED
    BY <1>2, <1>5, <2>1, <2>3 DEF CloseWaitTimeout
<1>6. CASE CheckMessages(e)
  <2>1. PICK ok \in BOOLEAN, due \in BOOLEAN, expired \in SUBSET Unacked(conn[e]) :
          Checked(e, Retransmitted(conn[e], expired, due, ok), ok)
    BY <1>6 DEF CheckMessages
  <2> DEFINE r == Retransmitted(conn[e], expired, due, ok)
  <2>2. Slot(r.c) = Slot(conn[e])
    BY <1>1, RetransmittedSlot
  <2> HIDE DEF r
  <2>3. KeepsSlot(conn[e], r.c, UserDone(e))
    BY <1>1, <2>2, SlotOfSlot, UserDoneType DEF KeepsSlot, Slot
  <2> QED
    BY <1>2, <1>6, <2>1, <2>3 DEF CheckMessages, r
<1>7. CASE FlushNext(e)
  <2>1. PICK s \in NextStored(conn[e]) : conn' = [conn EXCEPT ![e] = FlushOne(conn[e], s)]
    BY <1>7 DEF FlushNext
  <2> DEFINE d == FlushOne(conn[e], s)
  <2>2. Slot(d) = Slot(conn[e])
    <3>1. Slot(Enqueue(conn[e], s.data)) = Slot(conn[e])
      BY <1>1, EnqueueSlot
    <3>2. s.data \in Payload
      BY <1>1 DEF NextStored, ConnOK, Conn
    <3>3. ConnOK(Enqueue(conn[e], s.data))
      BY <1>1, <3>2, EnqueueType
    <3> QED
      BY <3>1, <3>3 DEF FlushOne, Slot, ConnOK, Conn
  <2>3. UNCHANGED <<user, backlog>>
    BY <1>7 DEF FlushNext
  <2> HIDE DEF d
  <2>4. SlotOK(d, UserDone(e)) /\ (e = Client => (d.open => ~d.socket))
    BY <1>1, <2>2, SlotOfSlot, UserDoneType DEF Slot
  <2> QED
    BY <2>1, <2>3, <2>4, SlotStill DEF d
<1> QED
  BY <1>3, <1>4, <1>5, <1>6, <1>7 DEF CheckTimeouts

\* SlotInv depends on these variables only.
LEMMA SlotUnchanged ==
  ASSUME SlotInv, UNCHANGED <<conn, user, backlog>> PROVE SlotInv'
  BY DEF SlotInv, UserDone

\* A reboot of the client clears its slot and its task.
LEMMA RebootSlot == ASSUME TypeOK, SlotInv, Reboot PROVE SlotInv'
<1>1. Client \in Endpoint /\ Client # Server
  BY DEF Endpoint, Client, Server
<1>2. Done(Client, "none", backlog') = TRUE
  BY <1>1 DEF Done
<1>3. SlotOK(InitConn, Done(Client, "none", backlog')) /\ ~InitConn.open
  BY <1>2 DEF InitConn, SlotOK
<1>4. /\ conn' = [conn EXCEPT ![Client] = InitConn]
      /\ user' = [user EXCEPT ![Client] = "none"] /\ backlog' = backlog
  BY DEF Reboot
<1> QED
  BY <1>1, <1>3, <1>4, SlotStep

\* Both slots are free in the beginning.
LEMMA SlotInit == Init => SlotInv
<1> SUFFICES ASSUME Init PROVE SlotInv
  OBVIOUS
<1>1. \A e \in Endpoint : conn[e] = InitConn /\ user[e] = "none" /\ ~backlog
  BY DEF Init
<1>2. \A e \in Endpoint : UserDone(e)
  BY <1>1 DEF UserDone
<1>3. \A e \in Endpoint : SlotOK(conn[e], UserDone(e)) /\ ~conn[e].open
  BY <1>1, <1>2 DEF SlotOK, InitConn
<1> QED
  BY <1>1, <1>3 DEF SlotInv, Endpoint

\* Every step keeps SlotInv.
LEMMA SlotNext == TypeOK /\ SlotInv /\ [Next]_vars => SlotInv'
<1> SUFFICES ASSUME TypeOK, SlotInv, [Next]_vars PROVE SlotInv'
  OBVIOUS
<1>1. CASE \E m \in net : Lose(m)
  BY <1>1, SlotUnchanged DEF Lose
<1>2. CASE UNCHANGED vars
  BY <1>2, SlotUnchanged DEF vars
<1>3. CASE Arrival
  BY <1>3, ArrivalSlot
<1>4. CASE Connecting
  BY <1>4, ConnectingSlot
<1>5. CASE Accept
  BY <1>5, AcceptSlot
<1>6. CASE Reboot
  BY <1>6, RebootSlot
<1>7. CASE \E e \in Endpoint : UserTask(e) \/ CheckTimeouts(e) \/ FlushNext(e)
  BY <1>7, UserTaskSlot, CheckTimeoutsSlot
<1> QED
  BY <1>1, <1>2, <1>3, <1>4, <1>5, <1>6, <1>7 DEF Next

\* Whatever is sent, lost, timed out or rebooted, in every state the fields of
\* both connections say truly who still uses the slot (csp_rdp_close with its
\* closed_by flags, csp_conn_close, discard_close).
THEOREM SlotCorrect == Spec => []SlotInv
<1>1. Init => SlotInv
  BY SlotInit
<1>2. TypeOK /\ SlotInv /\ [Next]_vars => SlotInv'
  BY SlotNext
<1> QED
  BY <1>1, <1>2, TypeCorrect, PTL DEF Spec

\* A connection is given back to the pool only when no user task holds it and
\* csp_accept cannot hand it out any more.
THEOREM ReleasedCorrect == Spec => ReleasedOnlyWhenUnused
<1> DEFINE Step == \A e \in Endpoint :
             conn[e].open /\ ~conn'[e].open
               => user'[e] \in {"none", "closed"} /\ (e = Server => ~backlog')
<1>1. SlotInv' => Step
  <2> SUFFICES ASSUME SlotInv', NEW e \in Endpoint, ~conn'[e].open
               PROVE user'[e] \in {"none", "closed"} /\ (e = Server => ~backlog')
    OBVIOUS
  <2>1. SlotOK(conn'[e], UserDone(e)')
    BY DEF SlotInv
  <2>2. UserDone(e)'
    BY <2>1 DEF SlotOK
  <2> QED
    BY <2>2 DEF UserDone
<1> HIDE DEF Step
<1>2. [][Step]_vars => ReleasedOnlyWhenUnused
  BY DEF Step, ReleasedOnlyWhenUnused
<1> QED
  BY <1>1, <1>2, SlotCorrect, PTL DEF Spec

----------------------------------------------------------------------------
\* Sequence numbers.

\* A quotient and a remainder are the only ones.
LEMMA ModUnique ==
  ASSUME NEW q \in Int, NEW r \in 0..(SeqMod - 1) PROVE (q * SeqMod + r) % SeqMod = r
  BY SeqModAssumption

\* Counting on modulo the size of the number space.
LEMMA PlusPlus ==
  ASSUME NEW a \in Int, NEW i \in Int PROVE Plus(Plus(a, i), 1) = Plus(a, i + 1)
<1> DEFINE x == a + i
           q == x \div SeqMod
           r == x % SeqMod
<1>1. x \in Int /\ q \in Int /\ r \in 0..(SeqMod - 1) /\ x = q * SeqMod + r
  BY SeqModAssumption
<1> HIDE DEF q, r, x
<1>2. CASE r + 1 < SeqMod
  <2>1. x + 1 = q * SeqMod + (r + 1)
    BY <1>1, SeqModAssumption
  <2>2. (x + 1) % SeqMod = r + 1
    BY <2>1, <1>1, <1>2, ModUnique, SeqModAssumption
  <2>3. (r + 1) % SeqMod = r + 1
    BY <1>1, <1>2, SeqModAssumption
  <2> QED
    BY <2>2, <2>3 DEF Plus, r, x
<1>3. CASE r + 1 = SeqMod
  <2>1. x + 1 = (q + 1) * SeqMod + 0
    BY <1>1, <1>3, SeqModAssumption
  <2>2. (x + 1) % SeqMod = 0
    BY <2>1, <1>1, ModUnique, SeqModAssumption
  <2>3. (r + 1) % SeqMod = 0
    BY <1>1, <1>3, SeqModAssumption
  <2> QED
    BY <2>2, <2>3 DEF Plus, r, x
<1> QED
  BY <1>1, <1>2, <1>3, SeqModAssumption

\* A sequence number is its own remainder.
LEMMA PlusZero == ASSUME NEW a \in SeqNr PROVE Plus(a, 0) = a
  BY SeqModAssumption DEF Plus, SeqNr

\* An initial sequence number and a limit.
LEMMA IssType ==
  ASSUME NEW e \in Endpoint
  PROVE /\ Peer(e) \in Endpoint /\ Peer(Peer(e)) = e
        /\ Len(IssOf[e]) \in Nat /\ MsgLimit[e] \in Nat
        /\ \A l \in 1..Len(IssOf[e]) : IssOf[e][l] \in SeqNr /\ IssOf[e][l] \in Int
<1>1. IssOf[e] \in Seq(SeqNr) /\ MsgLimit[e] \in Nat
  BY IssAssumption, LimitAssumption
<1>2. Peer(e) \in Endpoint /\ Peer(Peer(e)) = e
  BY DEF Peer, Endpoint, Client, Server
<1>3. \A l \in 1..Len(IssOf[e]) : IssOf[e][l] \in SeqNr
  BY <1>1, ElementOfSeq
<1> QED
  BY <1>1, <1>2, <1>3 DEF SeqNr

----------------------------------------------------------------------------
\* What the proofs about data share.

\* A queue without messages.
OnlyNull(q) == \A i \in 1..Len(q) : q[i] = Null

\* A NULL packet may be added to a queue without messages.
LEMMA OnlyNullAppend ==
  ASSUME NEW q \in Seq(Payload), OnlyNull(q) PROVE OnlyNull(Append(q, Null))
<1>1. /\ Len(Append(q, Null)) = Len(q) + 1 /\ Append(q, Null)[Len(q) + 1] = Null
      /\ \A i \in 1..Len(q) : Append(q, Null)[i] = q[i]
  BY NullType, AppendProperties
<1>2. Len(q) \in Nat
  OBVIOUS
<1> QED
  BY <1>1, <1>2 DEF OnlyNull

\* The connection is closed, or waits for the others to close it.
Shut(c) == c.state \in {"CLOSE_WAIT", "CLOSED"}

\* Sending a control message leaves the user's queue alone.
LEMMA SendCmpRx ==
  ASSUME NEW c, ConnOK(c), NEW seg, NEW ok PROVE SendCmp(c, seg, ok).c.rx = c.rx
  BY DEF SendCmp, Result, ConnOK, Conn

\* What is new on the link comes from e.
NewFrom(e, out) == \A m \in net' : m \in net \/ \E s \in out : m = [to |-> Peer(e), seg |-> s]

\* What Transmit puts on the link.
LEMMA TransmitData ==
  ASSUME NEW e, NEW used, NEW out, Transmit(e, used, out) PROVE NewFrom(e, out)
  BY DEF Transmit, NewFrom

----------------------------------------------------------------------------
\* A connection that stays: the hypotheses.

\* No user closes the connection, no timeout does, and no computer restarts.
Stays == MaxReboot = 0 /\ Closers = {} /\ ~ConnTimeouts

\* Each end has an initial sequence number to draw, and the server does not
\* draw its first one again.
NewIss ==
  /\ \A e \in Endpoint : IssOf[e] # <<>>
  /\ \A l \in 2..Len(IssOf[Server]) : IssOf[Server][l] # IssOf[Server][1]

\* The messages of an end fit in half of the number space, so that comparing
\* two of their numbers tells which is the later.
Ample == \A e \in Endpoint : 2 * MsgLimit[e] <= SeqMod

\* csp_rdp_rx_queue_flush never finds the user's queue full.
FlushFindsRoom ==
  \A e \in Endpoint : router[e] = "flush" /\ NextStored(conn[e]) # {} => HasRoom(conn[e])

----------------------------------------------------------------------------
\* The inductive invariant: StayInv.  The two ends agree about who has sent and
\* got what, and so does every segment in flight; or the connection has failed
\* before a message reached anyone.

\* The number of the n-th message of e.
Nr(e, n) == Plus(IssOf[e][1], n)

\* How many messages the user of c has got, g read and the others in its queue.
Has(c, g) == Len(g) + Len(c.rx)

\* The n-th message is with that user, or waits to be put in order.
HasMsg(c, g, n) == n <= Has(c, g) \/ \E x \in c.rxq : x.data = <<1, n>>

\* The messages g that the user has read, and those of its queue q after them,
\* are the first ones of the peer, in turn.
InTurn(g, q) ==
  /\ \A i \in 1..Len(g) : g[i] = <<1, i>>
  /\ \A i \in 1..Len(q) : q[i] = <<1, Len(g) + i>>

\* What e may say in a segment after it has sent s messages.
Said(e, x, s) ==
  /\ "RST" \notin x.flags
  /\ "SYN" \in x.flags =>
       x.seq = IssOf[e][1] /\ x.data = NoData /\ (e = Client => "ACK" \notin x.flags)
  /\ "SYN" \notin x.flags => "ACK" \in x.flags
  /\ x.data # NoData => \E n \in 1..s : x.data = <<1, n>> /\ x.seq = Nr(e, n)

\* It acknowledges nothing that its end, c and g, does not have or hold.
Acks(e, x, c, g) ==
  /\ "ACK" \in x.flags => \E j \in 0..Has(c, g) : x.ack = Nr(Peer(e), j)
  /\ \A a \in x.eacks :
       \E n \in 1..MsgLimit[Peer(e)] : a = Nr(Peer(e), n) /\ HasMsg(c, g, n)

\* Segment x is one that e may send, from connection c whose user has read g.
SaidOK(e, x, s, c, g) ==
  /\ Said(e, x, s) /\ Acks(e, x, c, g)
  /\ c.state # "CLOSED" /\ ("SYN" \notin x.flags => c.state = "OPEN")

\* Connection c of e, its n-th, which has sent s messages, whose user has read
\* g, and whose peer has sent q messages.
Own(e, c, n, s, g, q) ==
  /\ s <= MsgLimit[e] /\ q <= MsgLimit[Peer(e)]
  /\ c.state = "CLOSED" => c.txq = {} /\ n = 0
  /\ c.state # "CLOSED" =>
       n = 1 /\ n <= Len(IssOf[e]) /\ c.iss = IssOf[e][1] /\ c.nxt = Nr(e, s + 1)
  /\ c.state # "OPEN" => s = 0 /\ g = <<>> /\ c.rx = <<>> /\ c.rxq = {}
  /\ c.state \in {"SYN_RCVD", "OPEN"} =>
       c.irs = IssOf[Peer(e)][1] /\ c.cur = Nr(Peer(e), Has(c, g))
  /\ InTurn(g, c.rx) /\ Has(c, g) <= q
  /\ \A x \in c.rxq : \E i \in 1..q : x.seq = Nr(Peer(e), i) /\ x.data = <<1, i>>
  /\ \A x \in c.txq :
       Said(e, x.seg, s) /\ x.seg.eacks = {} /\ ("SYN" \notin x.seg.flags => c.state = "OPEN")

\* What it has sent and acknowledged, seen from its peer, d and h.
Across(e, c, s, d, h) ==
  /\ c.state = "OPEN" => \E j \in 0..Has(d, h) : c.una = Nr(e, j + 1)
  /\ s <= Has(d, h) + Window
  /\ \A n \in 1..s : HasMsg(d, h, n) \/ \E x \in c.txq : x.seg.data = <<1, n>>

\* What connection c of e has to agree with: its place in the life of e, what
\* it has sent and its user has read, and what its peer has sent and got.
Context(e) ==
  [n |-> picks[e], s |-> sent[e], g |-> got[e],
   q |-> sent[Peer(e)], d |-> conn[Peer(e)], h |-> got[Peer(e)]]

\* One end agrees with itself and with the other.
EndOK(e, c, v) == Own(e, c, v.n, v.s, v.g, v.q) /\ Across(e, c, v.s, v.d, v.h)

\* The states the two ends go through, and the task that connects.
Opening ==
  LET cc == conn[Client].state
      cs == conn[Server].state
  IN /\ cc \in {"CLOSED", "SYN_SENT", "OPEN"} /\ cs \in {"CLOSED", "SYN_RCVD", "OPEN"}
     /\ cc = "OPEN" => cs # "CLOSED"
     /\ cs # "CLOSED" => cc # "CLOSED"
     /\ cs = "OPEN" => cc = "OPEN"
     /\ cc = "SYN_SENT" => ~conn[Client].sem
     /\ cc = "CLOSED" => user[Client] = "none"

\* The ends agree.
Agree ==
  /\ Opening
  /\ \A e \in Endpoint : EndOK(e, conn[e], Context(e))
  /\ \A m \in net :
       LET f == Peer(m.to) IN SaidOK(f, m.seg, sent[f], conn[f], got[f])
  /\ \A e \in Endpoint :
       user[e] = "sending" => SaidOK(e, hand[e], sent[e], conn[e], got[e])

\* A user that has got nothing.
Nothing(c, g) == g = <<>> /\ OnlyNull(c.rx) /\ c.rxq = {}

\* The socket had no room for the connection: the server has given it up, or
\* a later one that a late SYN began.  None of them becomes open.
ServerBroken(c, n, s, g) ==
  /\ c.state \in {"CLOSED", "SYN_RCVD", "CLOSE_WAIT"} /\ n >= 1 /\ s = 0
  /\ c.state = "SYN_RCVD" => n \in 2..Len(IssOf[Server]) /\ c.iss = IssOf[Server][n]
  /\ Nothing(c, g) /\ \A x \in c.txq : x.seg.data = NoData

\* The client may take its own to be open until it learns of that.
ClientBroken(c, g) ==
  /\ c.state \in {"OPEN", "CLOSE_WAIT", "CLOSED"}
  /\ c.state # "CLOSED" => c.cur = IssOf[Server][1]
  /\ Nothing(c, g) /\ \A x \in c.txq : "RST" \notin x.seg.flags

\* The client's segments acknowledge the first connection.
OfTheFirst(x) == "SYN" \in x.flags \/ "RST" \in x.flags \/ x.ack = IssOf[Server][1]

\* A connection the server has given up.
Broken ==
  /\ ClientBroken(conn[Client], got[Client]) /\ user[Client] # "none"
  /\ ServerBroken(conn[Server], picks[Server], sent[Server], got[Server])
  /\ conn[Client].state = "OPEN" => conn[Server].state = "CLOSE_WAIT"
  /\ user[Server] = "sending" => hand[Server].data = NoData
  /\ user[Client] = "sending" => "RST" \notin hand[Client].flags /\ OfTheFirst(hand[Client])
  /\ \A m \in net :
       /\ m.to = Client => m.seg.data = NoData
       /\ m.to = Server =>
            ("RST" \in m.seg.flags => conn[Client].state # "OPEN") /\ OfTheFirst(m.seg)

\* The client could not send its SYN and has given up.
Failed ==
  /\ conn[Client].state \in {"CLOSE_WAIT", "CLOSED"} /\ user[Client] = "closed"
  /\ conn[Server].state = "CLOSED" /\ net = {}
  /\ \A e \in Endpoint : Nothing(conn[e], got[e]) /\ sent[e] = 0

\* The ends agree, until the connection fails as it begins.
StayInv == Agree \/ Broken \/ Failed

----------------------------------------------------------------------------
\* Comparing numbers.

\* Numbers that are apart by a multiple of the size of the space.
LEMMA ModShift ==
  ASSUME NEW x \in Int, NEW y \in Int, NEW t \in Int, x = y + t * SeqMod
  PROVE x % SeqMod = y % SeqMod
<1> DEFINE q == y \div SeqMod
           r == y % SeqMod
<1>1. q \in Int /\ r \in 0..(SeqMod - 1) /\ y = q * SeqMod + r
  BY SeqModAssumption
<1> HIDE DEF q, r
<1>2. x = (q + t) * SeqMod + r /\ q + t \in Int
  BY <1>1, SeqModAssumption
<1>3. x % SeqMod = r
  BY <1>1, <1>2, ModUnique
<1> QED
  BY <1>3 DEF r

\* A number is its count less a multiple of the size of the space.
LEMMA PlusIs ==
  ASSUME NEW a \in Int, NEW i \in Int
  PROVE \E t \in Int : Plus(a, i) = a + i + t * SeqMod
<1> DEFINE x == a + i
           q == x \div SeqMod
           r == x % SeqMod
<1>1. x \in Int /\ q \in Int /\ r \in 0..(SeqMod - 1) /\ x = q * SeqMod + r
  BY SeqModAssumption
<1> HIDE DEF q, r
<1>2. r = x + (-q) * SeqMod /\ -q \in Int
  BY <1>1, SeqModAssumption
<1>3. Plus(a, i) = r
  BY DEF Plus, r
<1> QED
  BY <1>2, <1>3

\* Counting on.
LEMMA PlusMore ==
  ASSUME NEW a \in Int, NEW i \in Int, NEW j \in Int PROVE Plus(Plus(a, i), j) = Plus(a, i + j)
<1>1. PICK t \in Int : Plus(a, i) = a + i + t * SeqMod
  BY PlusIs
<1>2. Plus(a, i) + j \in Int /\ a + (i + j) \in Int /\ Plus(a, i) + j = a + (i + j) + t * SeqMod
  BY <1>1, SeqModAssumption
<1>3. (Plus(a, i) + j) % SeqMod = (a + (i + j)) % SeqMod
  BY <1>2, ModShift
<1> QED
  BY <1>3 DEF Plus

\* The distance of two numbers.
LEMMA PlusLess ==
  ASSUME NEW a \in Int, NEW i \in Int, NEW j \in Int
  PROVE (Plus(a, i) - Plus(a, j)) % SeqMod = (i - j) % SeqMod
<1>1. PICK t \in Int : Plus(a, i) = a + i + t * SeqMod
  BY PlusIs
<1>2. PICK u \in Int : Plus(a, j) = a + j + u * SeqMod
  BY PlusIs
<1>3. /\ Plus(a, i) - Plus(a, j) = (i - j) + (t - u) * SeqMod
      /\ Plus(a, i) - Plus(a, j) \in Int /\ t - u \in Int /\ i - j \in Int
  BY <1>1, <1>2, SeqModAssumption
<1> QED
  BY <1>3, ModShift

\* A small distance is its own remainder, and a small negative one is near the
\* end of the space.
LEMMA SmallMod ==
  ASSUME NEW d \in Int
  PROVE /\ 0 <= d /\ d < SeqMod => d % SeqMod = d
        /\ -SeqMod <= d /\ d < 0 => d % SeqMod = d + SeqMod
<1>1. ASSUME 0 <= d, d < SeqMod PROVE d % SeqMod = d
  <2>1. d = 0 * SeqMod + d /\ d \in 0..(SeqMod - 1)
    BY <1>1, SeqModAssumption
  <2> QED
    BY <2>1, ModUnique
<1>2. ASSUME -SeqMod <= d, d < 0 PROVE d % SeqMod = d + SeqMod
  <2> DEFINE f == d + SeqMod
  <2>1. d = (-1) * SeqMod + f /\ f \in 0..(SeqMod - 1)
    BY <1>2, SeqModAssumption
  <2> HIDE DEF f
  <2>2. d % SeqMod = f
    BY <2>1, ModUnique
  <2> QED
    BY <2>2 DEF f
<1> QED
  BY <1>1, <1>2

\* Numbers less than the size of the space apart are equal only if they are
\* the number of the same message.
LEMMA PlusEqual ==
  ASSUME NEW a \in Int, NEW i \in Int, NEW j \in Int, i - j < SeqMod, j - i < SeqMod,
         Plus(a, i) = Plus(a, j)
  PROVE i = j
<1>1. (i - j) % SeqMod = 0
  <2>1. (Plus(a, i) - Plus(a, j)) % SeqMod = (i - j) % SeqMod
    BY PlusLess
  <2>2. Plus(a, i) - Plus(a, j) = 0
    <3>1. Plus(a, j) \in Int
      BY SeqModAssumption DEF Plus
    <3> QED
      BY <3>1
  <2>3. 0 % SeqMod = 0
    BY SmallMod, SeqModAssumption
  <2> QED
    BY <2>1, <2>2, <2>3
<1>2. ASSUME i - j < 0 PROVE FALSE
  <2>1. i - j \in Int /\ -SeqMod <= i - j
    BY SeqModAssumption
  <2>2. (i - j) % SeqMod = i - j + SeqMod
    BY <1>2, <2>1, SmallMod
  <2> QED
    BY <1>1, <2>2, SeqModAssumption
<1>3. ASSUME i - j > 0 PROVE FALSE
  <2>1. (i - j) % SeqMod = i - j
    BY <1>3, SmallMod
  <2> QED
    BY <1>1, <1>3, <2>1
<1> QED
  BY <1>2, <1>3

\* Initial numbers, and the numbers counted from them.
LEMMA NrType ==
  ASSUME NewIss, NEW e \in Endpoint
  PROVE /\ IssOf[e][1] \in SeqNr /\ IssOf[e][1] \in Int
        /\ \A n \in Int : Nr(e, n) \in SeqNr /\ Nr(e, n) \in Int
        /\ Nr(e, 0) = IssOf[e][1]
        /\ \A n, i \in Int : Plus(Nr(e, n), i) = Nr(e, n + i)
<1>1. IssOf[e] \in Seq(SeqNr) /\ IssOf[e] # <<>>
  BY IssAssumption DEF NewIss
<1>2. 1 \in 1..Len(IssOf[e])
  BY <1>1, EmptySeq
<1>3. IssOf[e][1] \in SeqNr /\ IssOf[e][1] \in Int
  BY <1>2, IssType
<1>4. \A n \in Int : Nr(e, n) \in SeqNr /\ Nr(e, n) \in Int
  <2>1. \A n \in Int : Nr(e, n) \in SeqNr
    BY <1>3, PlusType DEF Nr
  <2> QED
    BY <2>1 DEF SeqNr
<1>5. Nr(e, 0) = IssOf[e][1]
  BY <1>3, PlusZero DEF Nr
<1>6. \A n, i \in Int : Plus(Nr(e, n), i) = Nr(e, n + i)
  BY <1>3, PlusMore DEF Nr
<1> QED
  BY <1>3, <1>4, <1>5, <1>6

\* Few messages: less than the size of the space.
LEMMA Few ==
  ASSUME Ample, NEW e \in Endpoint
  PROVE MsgLimit[e] \in Nat /\ 2 * MsgLimit[e] <= SeqMod /\ MsgLimit[e] < SeqMod
<1>1. MsgLimit[e] \in Nat
  BY IssType
<1>2. 2 * MsgLimit[e] <= SeqMod
  BY DEF Ample
<1> QED
  BY <1>1, <1>2, SeqModAssumption

\* Messages of one connection with one number are one message.
LEMMA SameNr ==
  ASSUME NewIss, Ample, NEW e \in Endpoint, NEW i \in 1..(MsgLimit[e] + 1),
         NEW j \in 1..MsgLimit[e], Nr(e, i) = Nr(e, j)
  PROVE i = j
<1>1. MsgLimit[e] \in Nat /\ MsgLimit[e] < SeqMod
  BY Few
<1>2. i \in Int /\ j \in Int /\ i - j < SeqMod /\ j - i < SeqMod
  BY <1>1, SeqModAssumption
<1>3. IssOf[e][1] \in Int
  BY NrType
<1> QED
  BY <1>2, <1>3, PlusEqual DEF Nr

\* A later number of the connection is not before an earlier one.
LEMMA NotBefore ==
  ASSUME NewIss, Ample, NEW e \in Endpoint, NEW i \in Int, NEW j \in Int,
         j <= i, i - j < MsgLimit[e]
  PROVE ~SeqBefore(Nr(e, i), Nr(e, j))
<1>1. MsgLimit[e] \in Nat /\ 2 * MsgLimit[e] <= SeqMod /\ MsgLimit[e] < SeqMod
  BY Few
<1>2. (Nr(e, i) - Nr(e, j)) % SeqMod = (i - j) % SeqMod
  BY NrType, PlusLess DEF Nr
<1>3. (i - j) % SeqMod = i - j
  <2>1. i - j \in Int /\ 0 <= i - j /\ i - j < SeqMod
    BY <1>1, SeqModAssumption
  <2> QED
    BY <2>1, SmallMod
<1>4. i - j < SeqMod \div 2
  BY <1>1, SeqModAssumption
<1> QED
  BY <1>2, <1>3, <1>4, SeqModAssumption DEF SeqBefore

\* csp_rdp_is_conn_ready_for_tx: the next message is in the window that begins
\* behind the last one acknowledged, although that may be an old one.
LEMMA ReadyIsInWindow ==
  ASSUME NewIss, Ample, NEW e \in Endpoint, NEW c, NEW j \in Nat, NEW s \in Nat,
         j <= s, s < MsgLimit[e], c.una = Nr(e, j + 1), c.nxt = Nr(e, s + 1), ReadyForTx(c)
  PROVE s + 1 <= j + Window
<1>1. /\ MsgLimit[e] \in Nat /\ 2 * MsgLimit[e] <= SeqMod /\ MsgLimit[e] < SeqMod
      /\ Window \in Nat /\ Window >= 1
  BY Few, SizeAssumption
<1>2. Plus(c.una, Window - 1) = Nr(e, j + Window)
  <2>1. j + 1 \in Int /\ Window - 1 \in Int /\ (j + 1) + (Window - 1) = j + Window
    BY <1>1
  <2>2. Plus(Nr(e, j + 1), Window - 1) = Nr(e, (j + 1) + (Window - 1))
    BY <2>1, NrType
  <2> QED
    BY <2>1, <2>2
<1> DEFINE d == (j + Window) - (s + 1)
<1>3. j + Window \in Int /\ s + 1 \in Int /\ d \in Int
  BY <1>1
<1>4. (Nr(e, j + Window) - Nr(e, s + 1)) % SeqMod = d % SeqMod
  BY <1>3, NrType, PlusLess, ZenonT(60) DEF Nr
<1>5. d % SeqMod < SeqMod \div 2
  <2>1. ~(d % SeqMod >= SeqMod \div 2)
    BY <1>2, <1>4 DEF ReadyForTx, SeqAfter, SeqBefore
  <2>2. d % SeqMod \in Int /\ SeqMod \div 2 \in Int
    BY <1>3, SeqModAssumption
  <2> QED
    BY <2>1, <2>2
<1>6. ASSUME d < 0 PROVE FALSE
  <2>1. -MsgLimit[e] <= d
    BY <1>1
  <2>2. -SeqMod <= d
    BY <1>1, <1>3, <2>1, SeqModAssumption
  <2>3. d % SeqMod = d + SeqMod
    BY <1>3, <1>6, <2>2, SmallMod
  <2> HIDE DEF d
  <2>4. d + SeqMod >= SeqMod \div 2
    BY <1>1, <1>3, <2>1, SeqModAssumption
  <2> QED
    BY <1>5, <2>3, <2>4, <1>3, SeqModAssumption
<1> QED
  BY <1>3, <1>6

----------------------------------------------------------------------------
\* What the operators of Rdp do while the ends agree.

\* The types of a context.
ContextOK(v) ==
  /\ v.n \in Nat /\ v.s \in Nat /\ v.q \in Nat
  /\ v.g \in Seq(Payload) /\ v.h \in Seq(Payload) /\ ConnOK(v.d)

\* The fields the agreement depends on.
View(c) == <<c.state, c.iss, c.nxt, c.una, c.cur, c.irs, c.txq, c.rxq, c.rx>>

\* Connection d has all that c has: nothing is taken from the user or lost.
Later(c, g, d, h) ==
  Has(c, g) <= Has(d, h) /\ \A n \in Nat : HasMsg(c, g, n) => HasMsg(d, h, n)

\* An operator has made r of connection c of e, and both ends still agree.
Kept(e, c, v, r) ==
  /\ EndOK(e, r.c, v)
  /\ r.c.state = c.state /\ (c.state = "SYN_SENT" => r.c.sem = c.sem)
  /\ Later(c, v.g, r.c, v.g)
  /\ \A x \in r.out : SaidOK(e, x, v.s, r.c, v.g)

\* What a user has got is a number.
LEMMA HasType ==
  ASSUME NEW c, ConnOK(c), NEW g \in Seq(Payload)
  PROVE Has(c, g) \in Nat /\ Len(g) \in Nat /\ Len(c.rx) \in Nat /\ c.rx \in Seq(Payload)
<1>1. c.rx \in Seq(Payload)
  BY DEF ConnOK, Conn
<1> QED
  BY <1>1 DEF Has

\* The agreement is about View only.
LEMMA EndOfView ==
  ASSUME NEW c, NEW d, View(d) = View(c)
  PROVE /\ \A e, v : EndOK(e, c, v) => EndOK(e, d, v)
        /\ \A e, x, s, g : SaidOK(e, x, s, c, g) => SaidOK(e, x, s, d, g)
        /\ \A g : Has(d, g) = Has(c, g) /\ \A n : HasMsg(d, g, n) <=> HasMsg(c, g, n)
<1>1. /\ d.state = c.state /\ d.iss = c.iss /\ d.nxt = c.nxt /\ d.una = c.una
      /\ d.cur = c.cur /\ d.irs = c.irs /\ d.txq = c.txq /\ d.rxq = c.rxq /\ d.rx = c.rx
  BY DEF View
<1>2. \A g : Has(d, g) = Has(c, g)
  BY <1>1 DEF Has
<1>3. \A g, n : HasMsg(d, g, n) <=> HasMsg(c, g, n)
  BY <1>1, <1>2 DEF HasMsg
<1>4. \A e, x, s, g : SaidOK(e, x, s, c, g) => SaidOK(e, x, s, d, g)
  BY <1>1, <1>2, <1>3 DEF SaidOK, Acks
<1>5. \A e, v : EndOK(e, c, v) => EndOK(e, d, v)
  <2> SUFFICES ASSUME NEW e, NEW v, EndOK(e, c, v) PROVE EndOK(e, d, v)
    OBVIOUS
  <2>1. Has(d, v.g) = Has(c, v.g)
    BY <1>2
  <2>2. Own(e, d, v.n, v.s, v.g, v.q)
    BY <1>1, <2>1 DEF EndOK, Own
  <2>3. Across(e, d, v.s, v.d, v.h)
    BY <1>1 DEF EndOK, Across
  <2> QED
    BY <2>2, <2>3 DEF EndOK
<1> QED
  BY <1>2, <1>3, <1>4, <1>5

\* A connection that has the same has it still.
LEMMA LaterSame ==
  ASSUME NEW c, ConnOK(c), NEW d, NEW g \in Seq(Payload),
         Has(d, g) = Has(c, g) /\ \A n : HasMsg(d, g, n) <=> HasMsg(c, g, n)
  PROVE Later(c, g, d, g)
<1>1. Has(c, g) \in Nat
  BY HasType
<1> QED
  BY <1>1 DEF Later

\* What was true when a segment was sent stays true.
LEMMA SaidLater ==
  ASSUME NEW e, NEW x, NEW s \in Nat, NEW t \in Nat, s <= t,
         NEW c, ConnOK(c), NEW g \in Seq(Payload), NEW d, ConnOK(d), NEW h \in Seq(Payload),
         Later(c, g, d, h), SaidOK(e, x, s, c, g),
         d.state # "CLOSED", c.state = "OPEN" => d.state = "OPEN"
  PROVE SaidOK(e, x, t, d, h)
<1>1. Has(c, g) \in Nat /\ Has(d, h) \in Nat /\ Has(c, g) <= Has(d, h)
  BY HasType DEF Later
<1>2. "ACK" \in x.flags => \E j \in 0..Has(d, h) : x.ack = Nr(Peer(e), j)
  BY <1>1 DEF SaidOK, Acks
<1>3. \A a \in x.eacks :
        \E n \in 1..MsgLimit[Peer(e)] : a = Nr(Peer(e), n) /\ HasMsg(d, h, n)
  BY DEF SaidOK, Acks, Later
<1>4. x.data # NoData => \E n \in 1..t : x.data = <<1, n>> /\ x.seq = Nr(e, n)
  BY DEF SaidOK, Said
<1>5. Said(e, x, t)
  BY <1>4 DEF SaidOK, Said
<1> QED
  BY <1>2, <1>3, <1>5 DEF SaidOK, Acks

\* A connection that sends nothing.
LEMMA KeptStill ==
  ASSUME NEW e, NEW c, ConnOK(c), NEW v, ContextOK(v), EndOK(e, c, v)
  PROVE Kept(e, c, v, Result(c, {}))
<1>1. Later(c, v.g, c, v.g)
  BY LaterSame DEF ContextOK
<1> QED
  BY <1>1 DEF Kept, Result

\* csp_rdp_send_cmp only changes rcv_lsa.
LEMMA KeptSendCmp ==
  ASSUME NEW e, NEW c, ConnOK(c), NEW v, ContextOK(v), EndOK(e, c, v),
         NEW seg, SaidOK(e, seg, v.s, c, v.g), NEW ok
  PROVE Kept(e, c, v, SendCmp(c, seg, ok))
<1> DEFINE r == SendCmp(c, seg, ok)
<1>1. View(r.c) = View(c) /\ r.c.sem = c.sem /\ r.c.state = c.state /\ r.out \subseteq {seg}
  BY DEF SendCmp, Result, View, ConnOK, Conn
<1> HIDE DEF r
<1>2. /\ EndOK(e, r.c, v) /\ SaidOK(e, seg, v.s, r.c, v.g)
      /\ Has(r.c, v.g) = Has(c, v.g) /\ \A n : HasMsg(r.c, v.g, n) <=> HasMsg(c, v.g, n)
  <2>1. /\ EndOK(e, c, v) => EndOK(e, r.c, v)
        /\ SaidOK(e, seg, v.s, c, v.g) => SaidOK(e, seg, v.s, r.c, v.g)
        /\ Has(r.c, v.g) = Has(c, v.g) /\ \A n : HasMsg(r.c, v.g, n) <=> HasMsg(c, v.g, n)
    BY <1>1, EndOfView
  <2> QED
    BY <2>1
<1>3. Later(c, v.g, r.c, v.g)
  BY <1>2, LaterSame DEF ContextOK
<1> QED
  BY <1>1, <1>2, <1>3 DEF Kept, r

\* Two steps of one call.
LEMMA KeptThen ==
  ASSUME NEW e, NEW c, NEW b, NEW v, NEW r, Kept(e, b, v, r), b.state = c.state,
         c.state # "SYN_SENT", Later(c, v.g, b, v.g), ContextOK(v), ConnOK(b), ConnOK(c), ConnOK(r.c)
  PROVE Kept(e, c, v, r)
<1>1. Has(c, v.g) \in Nat /\ Has(b, v.g) \in Nat /\ Has(r.c, v.g) \in Nat
  BY HasType DEF ContextOK
<1>2. Later(c, v.g, r.c, v.g)
  BY <1>1 DEF Kept, Later
<1> QED
  BY <1>2 DEF Kept

\* An acknowledgement of what has been taken in sequence.
LEMMA OwnAck ==
  ASSUME NewIss, NEW e \in Endpoint, NEW c, ConnOK(c), NEW v, ContextOK(v), EndOK(e, c, v),
         c.state = "OPEN"
  PROVE /\ SaidOK(e, Cmp({"ACK"}, c.nxt, c.cur), v.s, c, v.g)
        /\ SaidOK(e, [Cmp({"ACK", "EAK"}, c.nxt, c.cur) EXCEPT !.eacks = {x.seq : x \in c.rxq}],
                  v.s, c, v.g)
<1>1. c.cur = Nr(Peer(e), Has(c, v.g)) /\ Has(c, v.g) \in Nat
  BY HasType DEF EndOK, Own, ContextOK
<1>2. \E j \in 0..Has(c, v.g) : c.cur = Nr(Peer(e), j)
  BY <1>1
<1> DEFINE a == Cmp({"ACK"}, c.nxt, c.cur)
           b == [Cmp({"ACK", "EAK"}, c.nxt, c.cur) EXCEPT !.eacks = {x.seq : x \in c.rxq}]
<1>3. /\ a.flags = {"ACK"} /\ a.data = NoData /\ a.eacks = {} /\ a.ack = c.cur
      /\ b.flags = {"ACK", "EAK"} /\ b.data = NoData /\ b.ack = c.cur
      /\ b.eacks = {x.seq : x \in c.rxq}
  BY DEF Cmp
<1> HIDE DEF a, b
<1>4. \A x \in c.rxq : \E i \in 1..MsgLimit[Peer(e)] : x.seq = Nr(Peer(e), i) /\ HasMsg(c, v.g, i)
  <2> SUFFICES ASSUME NEW x \in c.rxq
               PROVE \E i \in 1..MsgLimit[Peer(e)] : x.seq = Nr(Peer(e), i) /\ HasMsg(c, v.g, i)
    OBVIOUS
  <2>1. PICK i \in 1..v.q : x.seq = Nr(Peer(e), i) /\ x.data = <<1, i>>
    BY DEF EndOK, Own
  <2>2. v.q <= MsgLimit[Peer(e)] /\ v.q \in Nat /\ MsgLimit[Peer(e)] \in Nat
    BY IssType DEF EndOK, Own, ContextOK
  <2>3. HasMsg(c, v.g, i)
    BY <2>1 DEF HasMsg
  <2>4. i \in 1..MsgLimit[Peer(e)]
    BY <2>2
  <2> QED
    BY <2>1, <2>3, <2>4
<1>5. Acks(e, a, c, v.g)
  BY <1>2, <1>3 DEF Acks
<1>6. Acks(e, b, c, v.g)
  BY <1>2, <1>3, <1>4 DEF Acks
<1> QED
  BY <1>3, <1>5, <1>6 DEF SaidOK, Said, a, b

\* csp_rdp_check_ack.
LEMMA KeptCheckAck ==
  ASSUME NewIss, NEW e \in Endpoint, NEW c, ConnOK(c), NEW v, ContextOK(v), EndOK(e, c, v),
         c.state = "OPEN", NEW due, NEW ok
  PROVE Kept(e, c, v, CheckAck(c, due, ok))
  BY OwnAck, KeptSendCmp, KeptStill DEF CheckAck

\* csp_rdp_send_eack.
LEMMA KeptSendEack ==
  ASSUME NewIss, NEW e \in Endpoint, NEW c, ConnOK(c), NEW v, ContextOK(v), EndOK(e, c, v),
         c.state = "OPEN", NEW ok
  PROVE Kept(e, c, v, SendEack(c, ok))
  BY OwnAck, KeptSendCmp DEF SendEack

\* A copy in tx_queue of a message that the peer does not hold yet.
LEMMA Copy ==
  ASSUME NEW e \in Endpoint, NEW c, NEW v, EndOK(e, c, v), NEW n \in 1..v.s,
         ~HasMsg(v.d, v.h, n), ContextOK(v)
  PROVE \E x \in c.txq : x.seg.data = <<1, n>> /\ x.seg.seq = Nr(e, n)
<1>1. PICK x \in c.txq : x.seg.data = <<1, n>>
  BY DEF EndOK, Across
<1>2. <<1, n>> # NoData
  BY DEF NoData, ContextOK
<1>3. PICK i \in 1..v.s : <<1, n>> = <<1, i>> /\ x.seg.seq = Nr(e, i)
  BY <1>1, <1>2 DEF EndOK, Own, Said
<1>4. i = n
  BY <1>3
<1> QED
  BY <1>1, <1>3, <1>4

\* tx_queue may lose what the peer holds.
LEMMA KeptTxq ==
  ASSUME NEW e \in Endpoint, NEW c, ConnOK(c), NEW v, ContextOK(v), EndOK(e, c, v),
         NEW q, q \subseteq c.txq,
         \A n \in 1..v.s : \A x \in c.txq :
           ~HasMsg(v.d, v.h, n) /\ x.seg.data = <<1, n>> /\ x.seg.seq = Nr(e, n) => x \in q
  PROVE EndOK(e, [c EXCEPT !.txq = q], v)
<1> DEFINE b == [c EXCEPT !.txq = q]
<1>1. /\ b.state = c.state /\ b.iss = c.iss /\ b.nxt = c.nxt /\ b.una = c.una
      /\ b.cur = c.cur /\ b.irs = c.irs /\ b.txq = q /\ b.rxq = c.rxq /\ b.rx = c.rx
  BY DEF ConnOK, Conn
<1>2. Has(b, v.g) = Has(c, v.g)
  BY <1>1 DEF Has
<1>3. \A n \in 1..v.s : HasMsg(v.d, v.h, n) \/ \E x \in q : x.seg.data = <<1, n>>
  <2> SUFFICES ASSUME NEW n \in 1..v.s, ~HasMsg(v.d, v.h, n)
               PROVE \E x \in q : x.seg.data = <<1, n>>
    OBVIOUS
  <2>1. PICK x \in c.txq : x.seg.data = <<1, n>> /\ x.seg.seq = Nr(e, n)
    BY Copy
  <2>2. x \in q
    BY <2>1
  <2> QED
    BY <2>1, <2>2
<1> HIDE DEF b
<1>4. Across(e, b, v.s, v.d, v.h)
  BY <1>1, <1>3 DEF EndOK, Across
<1>5. Own(e, b, v.n, v.s, v.g, v.q)
  <2>1. \A x \in b.txq :
          Said(e, x.seg, v.s) /\ x.seg.eacks = {} /\ ("SYN" \notin x.seg.flags => b.state = "OPEN")
    BY <1>1 DEF EndOK, Own
  <2>2. b.state = "CLOSED" => b.txq = {}
    BY <1>1 DEF EndOK, Own
  <2> QED
    BY <1>1, <1>2, <2>1, <2>2 DEF EndOK, Own
<1> QED
  BY <1>4, <1>5 DEF EndOK, b

\* csp_rdp_send_syn of a connection that waits for the handshake.
LEMMA KeptSendSyn ==
  ASSUME NEW e \in Endpoint, NEW c, ConnOK(c), NEW v, ContextOK(v), EndOK(e, c, v),
         NEW seg \in Segment, SaidOK(e, seg, v.s, c, v.g), "SYN" \in seg.flags, seg.eacks = {},
         NEW cloned, NEW ok
  PROVE Kept(e, c, v, SendSyn(c, seg, cloned, ok))
<1> DEFINE b == [c EXCEPT !.txq = TxQueued(@, seg)]
           stored == [seg EXCEPT !.ack = 0]
<1>1. ConnOK(b)
  BY TxQueuedType
<1>2. /\ b.state = c.state /\ b.iss = c.iss /\ b.nxt = c.nxt /\ b.una = c.una /\ b.sem = c.sem
      /\ b.cur = c.cur /\ b.irs = c.irs /\ b.rxq = c.rxq /\ b.rx = c.rx
      /\ b.txq = TxQueued(c.txq, seg)
  BY DEF ConnOK, Conn
<1>3. stored.flags = seg.flags /\ stored.data = seg.data /\ stored.seq = seg.seq /\ stored.eacks = {}
  BY DEF Segment
<1>4. Said(e, stored, v.s)
  BY <1>3 DEF SaidOK, Said
<1>5. \A x \in b.txq : x \in c.txq \/ x.seg = stored
  BY <1>2 DEF TxQueued
<1>6. c.txq \subseteq b.txq
  BY <1>2 DEF TxQueued
<1> HIDE DEF b, stored
<1>7. Has(b, v.g) = Has(c, v.g) /\ \A n : HasMsg(b, v.g, n) <=> HasMsg(c, v.g, n)
  BY <1>2 DEF Has, HasMsg
<1>8. c.state # "CLOSED"
  BY DEF SaidOK
<1>9. \A x \in b.txq :
        Said(e, x.seg, v.s) /\ x.seg.eacks = {} /\ ("SYN" \notin x.seg.flags => b.state = "OPEN")
  BY <1>2, <1>3, <1>4, <1>5 DEF EndOK, Own
<1>10. Own(e, b, v.n, v.s, v.g, v.q)
  BY <1>2, <1>7, <1>8, <1>9 DEF EndOK, Own
<1>11. Across(e, b, v.s, v.d, v.h)
  BY <1>2, <1>6 DEF EndOK, Across
<1>12. EndOK(e, b, v)
  BY <1>10, <1>11 DEF EndOK
<1>13. SaidOK(e, seg, v.s, b, v.g)
  BY <1>2, <1>7 DEF SaidOK, Acks
<1>14. Kept(e, b, v, SendCmp(b, seg, ok)) /\ Kept(e, c, v, SendCmp(c, seg, ok))
  BY <1>1, <1>12, <1>13, KeptSendCmp
<1>15. ConnOK(SendCmp(b, seg, ok).c)
  BY <1>1, SendCmpType DEF ResultOK
<1>16. Kept(e, c, v, SendCmp(b, seg, ok))
  <2> DEFINE r == SendCmp(b, seg, ok)
  <2>1. Has(c, v.g) \in Nat /\ Has(b, v.g) \in Nat /\ Has(r.c, v.g) \in Nat
    BY <1>1, <1>15, HasType DEF ContextOK
  <2> HIDE DEF r
  <2>2. Kept(e, b, v, r)
    BY <1>14 DEF r
  <2>3. Later(c, v.g, r.c, v.g)
    BY <1>7, <2>1, <2>2 DEF Kept, Later
  <2>4. Kept(e, c, v, r)
    BY <1>2, <2>2, <2>3 DEF Kept
  <2> QED
    BY <2>4 DEF r
<1> QED
  BY <1>14, <1>16 DEF SendSyn, b

\* The SYN/ACK of the server.
LEMMA KeptSendSynAck ==
  ASSUME NewIss, NEW c, ConnOK(c), NEW v, ContextOK(v), EndOK(Server, c, v),
         c.state = "SYN_RCVD", NEW cloned, NEW ok
  PROVE Kept(Server, c, v, SendSynAck(c, cloned, ok))
<1> DEFINE seg == Cmp({"SYN", "ACK"}, c.iss, c.irs)
<1>1. Server \in Endpoint /\ Client # Server /\ Peer(Server) = Client /\ Client \in Endpoint
  BY DEF Endpoint, Peer, Client, Server
<1>2. c.iss = IssOf[Server][1] /\ c.irs = IssOf[Client][1] /\ c.iss \in SeqNr /\ c.irs \in SeqNr
  BY <1>1 DEF EndOK, Own, ConnOK, Conn
<1>3. /\ seg \in Segment /\ seg.flags = {"SYN", "ACK"} /\ seg.data = NoData /\ seg.eacks = {}
      /\ seg.seq = IssOf[Server][1] /\ seg.ack = IssOf[Client][1]
  BY <1>2, CmpType DEF Cmp
<1> HIDE DEF seg
<1>4. Has(c, v.g) \in Nat
  BY HasType DEF ContextOK
<1>5. \E j \in 0..Has(c, v.g) : seg.ack = Nr(Client, j)
  <2>1. Nr(Client, 0) = IssOf[Client][1] /\ 0 \in 0..Has(c, v.g)
    <3>1. Nr(Client, 0) = IssOf[Client][1]
      BY <1>1, NrType
    <3> QED
      BY <3>1, <1>4
  <2> QED
    BY <1>3, <2>1
<1>6. SaidOK(Server, seg, v.s, c, v.g)
  BY <1>1, <1>3, <1>5 DEF SaidOK, Said, Acks
<1> QED
  BY <1>1, <1>3, <1>6, KeptSendSyn DEF SendSynAck, seg

\* What waits in tx_queue may be sent again.
LEMMA SaidAgain ==
  ASSUME NewIss, NEW e \in Endpoint, NEW c, ConnOK(c), NEW v, ContextOK(v), EndOK(e, c, v),
         c.state \in {"SYN_SENT", "SYN_RCVD", "OPEN"}, c.state = "SYN_SENT" => e = Client,
         NEW x \in c.txq
  PROVE SaidOK(e, [x.seg EXCEPT !.ack = c.cur], v.s, c, v.g)
<1> DEFINE y == [x.seg EXCEPT !.ack = c.cur]
<1>1. x.seg \in Segment
  BY DEF ConnOK, Conn
<1>2. /\ y.flags = x.seg.flags /\ y.data = x.seg.data /\ y.seq = x.seg.seq
      /\ y.eacks = x.seg.eacks /\ y.ack = c.cur
  BY <1>1 DEF Segment
<1> HIDE DEF y
<1>3. Said(e, x.seg, v.s) /\ x.seg.eacks = {} /\ ("SYN" \notin x.seg.flags => c.state = "OPEN")
  BY DEF EndOK, Own
<1>4. Said(e, y, v.s)
  BY <1>2, <1>3 DEF Said
<1>5. Has(c, v.g) \in Nat
  BY HasType DEF ContextOK
<1>6. ASSUME "ACK" \in y.flags PROVE \E j \in 0..Has(c, v.g) : y.ack = Nr(Peer(e), j)
  <2>1. c.state \in {"SYN_RCVD", "OPEN"}
    BY <1>2, <1>3, <1>6 DEF Said
  <2>2. y.ack = Nr(Peer(e), Has(c, v.g))
    BY <1>2, <2>1 DEF EndOK, Own
  <2> QED
    BY <1>5, <2>2
<1>7. Acks(e, y, c, v.g)
  BY <1>2, <1>3, <1>6 DEF Acks
<1>8. c.state # "CLOSED" /\ ("SYN" \notin y.flags => c.state = "OPEN")
  BY <1>2, <1>3
<1> QED
  BY <1>4, <1>7, <1>8 DEF SaidOK, y

\* The part of csp_rdp_check_timeouts that frees and sends again.
LEMMA KeptRetransmitted ==
  ASSUME NewIss, Ample, NEW e \in Endpoint, NEW c, ConnOK(c), NEW v, ContextOK(v), EndOK(e, c, v),
         c.state \in {"SYN_SENT", "SYN_RCVD", "OPEN"}, c.state = "SYN_SENT" => e = Client,
         NEW expired \in SUBSET Unacked(c), NEW due, NEW ok
  PROVE Kept(e, c, v, Retransmitted(c, expired, due, ok))
<1> DEFINE b == [c EXCEPT !.txq = Unacked(c)]
           again == IF ok THEN {[x.seg EXCEPT !.ack = c.cur] : x \in expired} ELSE {}
           r == IF DelayedAcks THEN CheckAck(b, due, ok) ELSE Result(b, {})
<1>1. Unacked(c) \subseteq c.txq /\ IsFiniteSet(Unacked(c))
  BY FS_Subset DEF Unacked, ConnOK
<1>2. ConnOK(b)
  BY <1>1 DEF ConnOK, Conn
<1>3. EndOK(e, b, v)
  <2> SUFFICES ASSUME NEW n \in 1..v.s, NEW x \in c.txq, ~HasMsg(v.d, v.h, n),
                      x.seg.data = <<1, n>>, x.seg.seq = Nr(e, n)
               PROVE x \in Unacked(c)
    BY <1>1, KeptTxq
  <2>1. v.s \in Nat /\ v.s <= MsgLimit[e] /\ v.s # 0
    BY DEF EndOK, Own, ContextOK
  <2>2. PICK j \in 0..Has(v.d, v.h) : c.una = Nr(e, j + 1)
    BY <2>1 DEF EndOK, Own, Across
  <2>3. Has(v.d, v.h) \in Nat
    BY HasType DEF ContextOK
  <2>4. j < n
    BY <2>2, <2>3 DEF HasMsg
  <2>5. j + 1 \in Int /\ n \in Int /\ j + 1 <= n /\ n - (j + 1) < MsgLimit[e]
    BY <2>1, <2>2, <2>3, <2>4, Few
  <2>6. ~SeqBefore(Nr(e, n), Nr(e, j + 1))
    BY <2>5, NotBefore
  <2> QED
    BY <2>2, <2>6 DEF Unacked
<1>4. \A y \in again : SaidOK(e, y, v.s, c, v.g)
  <2>1. \A x \in expired : SaidOK(e, [x.seg EXCEPT !.ack = c.cur], v.s, c, v.g)
    BY <1>1, SaidAgain
  <2> QED
    BY <2>1
<1>5. b.state = c.state /\ b.rx = c.rx /\ b.rxq = c.rxq /\ b.sem = c.sem
  BY DEF ConnOK, Conn
<1> HIDE DEF b, again
<1>6. Has(b, v.g) = Has(c, v.g) /\ \A n : HasMsg(b, v.g, n) <=> HasMsg(c, v.g, n)
  BY <1>5 DEF Has, HasMsg
<1>7. Later(c, v.g, b, v.g)
  BY <1>6, LaterSame DEF ContextOK
<1>8. CASE c.state # "OPEN"
  <2>1. Retransmitted(c, expired, due, ok) = Result(b, again)
    BY <1>8 DEF Retransmitted, b, again
  <2>2. \A y \in again : SaidOK(e, y, v.s, b, v.g)
    BY <1>4, <1>5, <1>6 DEF SaidOK, Acks
  <2>3. Kept(e, c, v, Result(b, again))
    BY <1>3, <1>5, <1>7, <2>2 DEF Kept, Result
  <2> QED
    BY <2>1, <2>3
<1>9. CASE c.state = "OPEN"
  <2>1. Kept(e, b, v, r) /\ ConnOK(r.c)
    <3>1. Kept(e, b, v, CheckAck(b, due, ok)) /\ Kept(e, b, v, Result(b, {}))
      BY <1>2, <1>3, <1>5, <1>9, KeptCheckAck, KeptStill
    <3>2. ConnOK(CheckAck(b, due, ok).c) /\ ConnOK(Result(b, {}).c)
      BY <1>2, CheckAckType, ResultType DEF ResultOK, Result
    <3> QED
      BY <3>1, <3>2
  <2> DEFINE d == [r.c EXCEPT !.sem = @ \/ ReadyForTx(c)]
  <2>2. Retransmitted(c, expired, due, ok) = Result(d, again \cup r.out)
    BY <1>9 DEF Retransmitted, b, again
  <2> HIDE DEF r
  <2>3. Kept(e, c, v, r)
    BY <1>2, <1>5, <1>7, <1>9, <2>1, KeptThen
  <2>4. View(d) = View(r.c) /\ d.state = r.c.state
    BY <2>1 DEF View, ConnOK, Conn
  <2> HIDE DEF d
  <2>5. /\ EndOK(e, d, v) /\ Has(d, v.g) = Has(r.c, v.g)
        /\ \A n : HasMsg(d, v.g, n) <=> HasMsg(r.c, v.g, n)
        /\ \A x \in r.out : SaidOK(e, x, v.s, d, v.g)
    BY <2>3, <2>4, EndOfView DEF Kept
  <2>6. Later(c, v.g, d, v.g)
    BY <2>3, <2>5 DEF Kept, Later
  <2>7. \A y \in again : SaidOK(e, y, v.s, d, v.g)
    <3> SUFFICES ASSUME NEW y \in again PROVE SaidOK(e, y, v.s, d, v.g)
      OBVIOUS
    <3>1. SaidOK(e, y, v.s, c, v.g) /\ d.state = "OPEN"
      BY <1>4, <1>9, <2>3, <2>4 DEF Kept
    <3>2. ConnOK(d)
      BY <2>1 DEF d, ConnOK, Conn
    <3>3. v.s \in Nat /\ v.g \in Seq(Payload)
      BY DEF ContextOK
    <3> QED
      BY <3>1, <3>2, <3>3, <2>6, SaidLater
  <2>8. Kept(e, c, v, Result(d, again \cup r.out))
    BY <1>9, <2>3, <2>4, <2>5, <2>6, <2>7 DEF Kept, Result
  <2> QED
    BY <2>2, <2>8
<1> QED
  BY <1>8, <1>9

\* An acknowledgement moves snd_una behind a message the peer has.
LEMMA AckedIs ==
  ASSUME NewIss, NEW e \in Endpoint, NEW v, ContextOK(v), NEW p,
         SaidOK(Peer(e), p, v.q, v.d, v.h), "ACK" \in p.flags
  PROVE \E j \in 0..Has(v.d, v.h) : Plus(p.ack, 1) = Nr(e, j + 1)
<1>1. PICK j \in 0..Has(v.d, v.h) : p.ack = Nr(e, j)
  BY IssType DEF SaidOK, Acks
<1>2. Plus(Nr(e, j), 1) = Nr(e, j + 1)
  BY NrType
<1> QED
  BY <1>1, <1>2

\* snd_una = ack_nr + 1, of a connection that is open or becomes it.
Acknowledged(c, p, b) ==
  /\ b.state = "OPEN" /\ b.iss = c.iss /\ b.nxt = c.nxt /\ b.una = Plus(p.ack, 1)
  /\ b.cur = c.cur /\ b.irs = c.irs /\ b.txq = c.txq /\ b.rxq = c.rxq /\ b.rx = c.rx

\* The agreement survives it.
LEMMA EndAcked ==
  ASSUME NewIss, NEW e \in Endpoint, NEW c, ConnOK(c), NEW v, ContextOK(v), EndOK(e, c, v), NEW p,
         c.state \in {"SYN_RCVD", "OPEN"},
         SaidOK(Peer(e), p, v.q, v.d, v.h), "ACK" \in p.flags, NEW b, Acknowledged(c, p, b)
  PROVE EndOK(e, b, v)
<1>1. Has(b, v.g) = Has(c, v.g)
  BY DEF Has, Acknowledged
<1>2. \E j \in 0..Has(v.d, v.h) : b.una = Nr(e, j + 1)
  BY AckedIs DEF Acknowledged
<1>3. Across(e, b, v.s, v.d, v.h)
  BY <1>2 DEF EndOK, Across, Acknowledged
<1>4. Own(e, b, v.n, v.s, v.g, v.q)
  BY <1>1 DEF EndOK, Own, Acknowledged
<1> QED
  BY <1>3, <1>4 DEF EndOK

\* A data segment is the message its number says.
LEMMA DataIs ==
  ASSUME NewIss, Ample, NEW e \in Endpoint, NEW v, ContextOK(v), v.q <= MsgLimit[Peer(e)],
         NEW k \in 0..v.q, NEW i \in 1..v.q, Nr(Peer(e), i) = Nr(Peer(e), k + 1)
  PROVE i = k + 1
<1>1. /\ Peer(e) \in Endpoint /\ MsgLimit[Peer(e)] \in Nat
      /\ k + 1 \in 1..(MsgLimit[Peer(e)] + 1) /\ i \in 1..MsgLimit[Peer(e)]
  BY IssType DEF ContextOK
<1> QED
  BY <1>1, SameNr

\* A packet more in the user's queue.
LEMMA HasMore ==
  ASSUME NEW c, ConnOK(c), NEW g \in Seq(Payload), NEW x \in Payload,
         NEW b, b.rx = Append(c.rx, x)
  PROVE /\ Has(b, g) = Has(c, g) + 1
        /\ Len(b.rx) = Len(c.rx) + 1 /\ \A k \in 1..Len(c.rx) : b.rx[k] = c.rx[k]
        /\ b.rx[Len(c.rx) + 1] = x
        /\ Has(c, g) + 1 = Len(g) + (Len(c.rx) + 1)
<1>1. c.rx \in Seq(Payload) /\ Len(c.rx) \in Nat /\ Len(g) \in Nat
  BY HasType
<1>2. /\ Len(b.rx) = Len(c.rx) + 1 /\ \A k \in 1..Len(c.rx) : b.rx[k] = c.rx[k]
      /\ b.rx[Len(c.rx) + 1] = x
  BY <1>1, AppendProperties
<1>3. Has(c, g) = Len(g) + Len(c.rx) /\ Has(b, g) = Len(g) + Len(b.rx)
  BY DEF Has
<1> DEFINE l == Len(g)
           m == Len(c.rx)
<1>4. l \in Nat /\ m \in Nat /\ Has(c, g) = l + m /\ Has(b, g) = l + (m + 1)
  BY <1>1, <1>2, <1>3
<1> HIDE DEF l, m
<1>5. Has(b, g) = Has(c, g) + 1 /\ Has(c, g) + 1 = l + (m + 1)
  BY <1>4
<1> QED
  BY <1>2, <1>5 DEF l, m

\* Connection b is c when the user has got the i-th message and the segments
\* `keep` stay in rx_queue.
TakesNext(e, c, b, g, i, keep) ==
  /\ b.state = c.state /\ b.iss = c.iss /\ b.nxt = c.nxt /\ b.una = c.una
  /\ b.cur = Nr(Peer(e), i) /\ b.irs = c.irs /\ b.txq = c.txq /\ b.rxq = keep
  /\ b.rx = Append(c.rx, <<1, i>>)
  /\ i = Has(c, g) + 1
  /\ keep \subseteq c.rxq /\ \A x \in c.rxq : x \in keep \/ x.data = <<1, i>>

\* The user gets the next message.
LEMMA EndTakes ==
  ASSUME NewIss, NEW e \in Endpoint, NEW c, ConnOK(c), NEW v, ContextOK(v), EndOK(e, c, v),
         c.state = "OPEN", NEW i \in 1..v.q, NEW keep, NEW b, TakesNext(e, c, b, v.g, i, keep)
  PROVE EndOK(e, b, v) /\ Later(c, v.g, b, v.g)
<1>1. /\ Has(c, v.g) \in Nat /\ Len(v.g) \in Nat /\ Len(c.rx) \in Nat /\ c.rx \in Seq(Payload)
      /\ <<1, i>> \in Payload /\ v.g \in Seq(Payload)
  BY HasType DEF ContextOK, Payload
<1>2. /\ b.state = c.state /\ b.iss = c.iss /\ b.nxt = c.nxt /\ b.una = c.una
      /\ b.cur = Nr(Peer(e), i) /\ b.irs = c.irs /\ b.txq = c.txq /\ b.rxq = keep
      /\ b.rx = Append(c.rx, <<1, i>>)
      /\ keep \subseteq c.rxq /\ \A x \in c.rxq : x \in keep \/ x.data = <<1, i>>
  BY DEF TakesNext
<1>3. /\ Len(b.rx) = Len(c.rx) + 1 /\ \A k \in 1..Len(c.rx) : b.rx[k] = c.rx[k]
      /\ b.rx[Len(c.rx) + 1] = <<1, i>>
  BY <1>1, <1>2, HasMore
<1>4. /\ Has(b, v.g) = Has(c, v.g) + 1 /\ Has(b, v.g) = i
      /\ i = Len(v.g) + (Len(c.rx) + 1)
  <2> DEFINE x == <<1, i>>
  <2>1. x \in Payload /\ b.rx = Append(c.rx, x)
    BY <1>1, <1>2
  <2> HIDE DEF x
  <2> DEFINE g == v.g
  <2>4. g \in Seq(Payload)
    BY <1>1
  <2> HIDE DEF g
  <2>5. Has(b, g) = Has(c, g) + 1 /\ Has(c, g) + 1 = Len(g) + (Len(c.rx) + 1)
    BY <2>1, <2>4, HasMore
  <2>2. Has(b, v.g) = Has(c, v.g) + 1 /\ Has(c, v.g) + 1 = Len(v.g) + (Len(c.rx) + 1)
    BY <2>5 DEF g
  <2>3. i = Has(c, v.g) + 1
    BY DEF TakesNext
  <2> QED
    BY <2>2, <2>3
<1>5. InTurn(v.g, b.rx)
  <2>1. InTurn(v.g, c.rx) /\ i = Len(v.g) + (Len(c.rx) + 1)
    BY <1>4 DEF EndOK, Own
  <2>2. \A k \in 1..Len(b.rx) : k \in 1..Len(c.rx) \/ k = Len(c.rx) + 1
    BY <1>1, <1>3
  <2>3. \A k \in 1..Len(b.rx) : b.rx[k] = <<1, Len(v.g) + k>>
    BY <1>3, <2>1, <2>2 DEF InTurn
  <2> QED
    BY <2>1, <2>3 DEF InTurn
<1>6. Own(e, b, v.n, v.s, v.g, v.q)
  <2>1. Has(b, v.g) <= v.q
    <3>1. i <= v.q
      BY DEF ContextOK
    <3>2. Has(b, v.g) = i
      BY <1>4
    <3> QED
      BY <3>1, <3>2, Zenon
  <2>2. \A x \in b.rxq : \E k \in 1..v.q : x.seq = Nr(Peer(e), k) /\ x.data = <<1, k>>
    BY <1>2 DEF EndOK, Own
  <2>3. b.cur = Nr(Peer(e), Has(b, v.g)) /\ b.state = "OPEN"
    BY <1>2, <1>4
  <2>4. /\ v.s <= MsgLimit[e] /\ v.q <= MsgLimit[Peer(e)]
        /\ v.n = 1 /\ v.n <= Len(IssOf[e]) /\ b.iss = IssOf[e][1] /\ b.nxt = Nr(e, v.s + 1)
        /\ b.irs = IssOf[Peer(e)][1]
        /\ \A x \in b.txq :
             /\ Said(e, x.seg, v.s) /\ x.seg.eacks = {}
             /\ "SYN" \notin x.seg.flags => b.state = "OPEN"
    BY <1>2 DEF EndOK, Own
  <2> QED
    BY <1>5, <2>1, <2>2, <2>3, <2>4 DEF Own
<1>7. Across(e, b, v.s, v.d, v.h)
  BY <1>2 DEF EndOK, Across
<1>8. Later(c, v.g, b, v.g)
  <2>1. ASSUME NEW n \in Nat, HasMsg(c, v.g, n) PROVE HasMsg(b, v.g, n)
    <3>1. CASE n <= Has(c, v.g)
      BY <1>1, <1>4, <3>1 DEF HasMsg
    <3>2. CASE \E x \in c.rxq : x.data = <<1, n>>
      <4>1. PICK x \in c.rxq : x.data = <<1, n>>
        BY <3>2
      <4>2. CASE x \in keep
        BY <1>2, <4>1, <4>2 DEF HasMsg
      <4>3. CASE x.data = <<1, i>>
        <5>1. n = i
          BY <4>1, <4>3
        <5>2. n <= Has(b, v.g)
          <6>1. n <= n
            OBVIOUS
          <6>2. Has(b, v.g) = n
            BY <1>4, <5>1, Zenon
          <6> QED
            BY <6>1, <6>2, Zenon
        <5> QED
          BY <5>2 DEF HasMsg
      <4> QED
        BY <1>2, <4>1, <4>2, <4>3
    <3> QED
      BY <2>1, <3>1, <3>2 DEF HasMsg
  <2> QED
    BY <1>1, <1>4, <2>1 DEF Later
<1> QED
  BY <1>6, <1>7, <1>8 DEF EndOK

\* One round of csp_rdp_rx_queue_flush, with room in the user's queue.
LEMMA KeptFlushOne ==
  ASSUME NewIss, Ample, NEW e \in Endpoint, NEW c, ConnOK(c), NEW v, ContextOK(v), EndOK(e, c, v),
         NEW x \in NextStored(c), HasRoom(c)
  PROVE /\ EndOK(e, FlushOne(c, x), v) /\ FlushOne(c, x).state = c.state /\ c.state = "OPEN"
        /\ Later(c, v.g, FlushOne(c, x), v.g)
        /\ Has(FlushOne(c, x), v.g) = Has(c, v.g) + 1
<1>1. x \in c.rxq /\ x.seq = Plus(c.cur, 1)
  BY DEF NextStored
<1>2. c.state = "OPEN"
  BY <1>1 DEF EndOK, Own
<1>3. PICK i \in 1..v.q : x.seq = Nr(Peer(e), i) /\ x.data = <<1, i>>
  BY <1>1 DEF EndOK, Own
<1>4. /\ Has(c, v.g) \in Nat /\ Has(c, v.g) \in 0..v.q /\ v.q <= MsgLimit[Peer(e)]
      /\ c.cur = Nr(Peer(e), Has(c, v.g)) /\ Peer(e) \in Endpoint
  <2>1. /\ Has(c, v.g) <= v.q /\ v.q <= MsgLimit[Peer(e)]
        /\ c.cur = Nr(Peer(e), Has(c, v.g))
    BY <1>2 DEF EndOK, Own
  <2>2. v.g \in Seq(Payload) /\ v.q \in Nat
    BY DEF ContextOK
  <2>3. Has(c, v.g) \in Nat
    BY <2>2, HasType
  <2>4. Peer(e) \in Endpoint
    BY IssType
  <2> QED
    BY <2>1, <2>2, <2>3, <2>4
<1>5. i = Has(c, v.g) + 1
  <2>1. Plus(Nr(Peer(e), Has(c, v.g)), 1) = Nr(Peer(e), Has(c, v.g) + 1)
    BY <1>4, NrType
  <2> QED
    BY <1>1, <1>3, <1>4, <2>1, DataIs
<1> DEFINE keep == {y \in c.rxq : y # x}
           b == [[c EXCEPT !.rx = Append(@, <<1, i>>)] EXCEPT !.cur = Nr(Peer(e), i), !.rxq = keep]
<1>6. FlushOne(c, x) = b
  <2>1. Enqueue(c, x.data) = [c EXCEPT !.rx = Append(@, <<1, i>>)]
    BY <1>3 DEF Enqueue
  <2>2. Enqueue(c, x.data).rxq \ {x} = keep
    BY <2>1 DEF ConnOK, Conn
  <2>3. FlushOne(c, x) = [Enqueue(c, x.data) EXCEPT !.rxq = keep, !.cur = x.seq]
    BY <2>2 DEF FlushOne
  <2> HIDE DEF keep
  <2>4. FlushOne(c, x) =
          [[c EXCEPT !.rx = Append(@, <<1, i>>)] EXCEPT !.rxq = keep, !.cur = Nr(Peer(e), i)]
    BY <1>3, <2>1, <2>3
  <2> QED
    BY <2>4 DEF ConnOK, Conn
<1>7. keep \subseteq c.rxq /\ \A y \in c.rxq : y \in keep \/ y.data = <<1, i>>
  BY <1>3
<1>8. b.state = c.state /\ b.rx = Append(c.rx, <<1, i>>)
  BY DEF ConnOK, Conn
<1>9. TakesNext(e, c, b, v.g, i, keep)
  BY <1>5, <1>7 DEF TakesNext, ConnOK, Conn
<1> HIDE DEF keep, b
<1>10. EndOK(e, b, v) /\ Later(c, v.g, b, v.g)
  BY <1>2, <1>9, EndTakes
<1>11. Has(b, v.g) = Has(c, v.g) + 1
  <2> DEFINE y == <<1, i>>
  <2>1. y \in Payload
    BY DEF Payload
  <2>2. v.g \in Seq(Payload)
    BY DEF ContextOK
  <2>3. b.rx = Append(c.rx, y)
    BY <1>8
  <2> HIDE DEF y
  <2> QED
    BY <2>1, <2>2, <2>3, HasMore
<1> QED
  BY <1>2, <1>6, <1>8, <1>10, <1>11

\* A segment out of order is put in rx_queue.
LEMMA EndStores ==
  ASSUME NEW e \in Endpoint, NEW c, ConnOK(c), NEW v, ContextOK(v), EndOK(e, c, v),
         c.state = "OPEN", NEW p \in Segment, Said(Peer(e), p, v.q), p.data # NoData
  PROVE LET b == [c EXCEPT !.rxq = @ \cup {[seq |-> p.seq, data |-> p.data]}]
        IN EndOK(e, b, v) /\ b.state = c.state /\ Later(c, v.g, b, v.g) /\ ConnOK(b)
<1> DEFINE x == [seq |-> p.seq, data |-> p.data]
           q == c.rxq \cup {x}
           b == [c EXCEPT !.rxq = q]
<1>1. /\ b.state = c.state /\ b.iss = c.iss /\ b.nxt = c.nxt /\ b.una = c.una
      /\ b.cur = c.cur /\ b.irs = c.irs /\ b.txq = c.txq /\ b.rxq = q /\ b.rx = c.rx
  BY DEF ConnOK, Conn
<1>2. x \in [seq : SeqNr, data : Payload] /\ x.seq = p.seq /\ x.data = p.data
  BY DEF Segment
<1>3. ConnOK(b)
  <2>1. q \in SUBSET [seq : SeqNr, data : Payload]
    BY <1>2 DEF ConnOK, Conn
  <2> HIDE DEF q
  <2> QED
    BY <2>1 DEF ConnOK, Conn
<1>4. PICK i \in 1..v.q : p.data = <<1, i>> /\ p.seq = Nr(Peer(e), i)
  BY DEF Said
<1>5. \A y \in q : \E k \in 1..v.q : y.seq = Nr(Peer(e), k) /\ y.data = <<1, k>>
  <2>1. \A y \in c.rxq : \E k \in 1..v.q : y.seq = Nr(Peer(e), k) /\ y.data = <<1, k>>
    BY DEF EndOK, Own
  <2>2. \E k \in 1..v.q : x.seq = Nr(Peer(e), k) /\ x.data = <<1, k>>
    BY <1>2, <1>4
  <2> HIDE DEF x
  <2> QED
    BY <2>1, <2>2
<1>6. c.rxq \subseteq q
  OBVIOUS
<1> HIDE DEF b, q, x
<1>7. Has(b, v.g) = Has(c, v.g)
  BY <1>1 DEF Has
<1>8. Own(e, b, v.n, v.s, v.g, v.q)
  BY <1>1, <1>5, <1>7 DEF EndOK, Own
<1>9. Across(e, b, v.s, v.d, v.h)
  BY <1>1 DEF EndOK, Across
<1>10. Later(c, v.g, b, v.g)
  <2>1. Has(c, v.g) \in Nat
    BY HasType DEF ContextOK
  <2>2. \A n \in Nat : HasMsg(c, v.g, n) => HasMsg(b, v.g, n)
    BY <1>1, <1>6, <1>7 DEF HasMsg
  <2> QED
    BY <1>7, <2>1, <2>2 DEF Later
<1> QED
  BY <1>1, <1>3, <1>8, <1>9, <1>10 DEF EndOK, b, q, x

\* Segments that an EACK names are held by the peer.
LEMMA EndFlushed ==
  ASSUME NewIss, Ample, NEW e \in Endpoint, NEW c, ConnOK(c), NEW v, ContextOK(v), EndOK(e, c, v),
         NEW p, SaidOK(Peer(e), p, v.q, v.d, v.h)
  PROVE EndOK(e, FlushEack(c, p.eacks), v)
<1> DEFINE q == {x \in c.txq : x.seg.seq \notin p.eacks}
<1>1. \A n \in 1..v.s : \A x \in c.txq :
        ~HasMsg(v.d, v.h, n) /\ x.seg.data = <<1, n>> /\ x.seg.seq = Nr(e, n) => x \in q
  <2> SUFFICES ASSUME NEW n \in 1..v.s, NEW x \in c.txq, ~HasMsg(v.d, v.h, n),
                      x.seg.seq = Nr(e, n), Nr(e, n) \in p.eacks
               PROVE FALSE
    OBVIOUS
  <2>1. Peer(Peer(e)) = e /\ MsgLimit[e] \in Nat /\ v.s <= MsgLimit[e] /\ v.s \in Nat
    BY IssType DEF EndOK, Own, ContextOK
  <2>2. PICK m \in 1..MsgLimit[e] : Nr(e, n) = Nr(e, m) /\ HasMsg(v.d, v.h, m)
    BY <2>1 DEF SaidOK, Acks
  <2>3. n \in 1..(MsgLimit[e] + 1)
    BY <2>1
  <2>4. n = m
    BY <2>2, <2>3, SameNr
  <2> QED
    BY <2>2, <2>4
<1>2. q \subseteq c.txq
  OBVIOUS
<1>3. FlushEack(c, p.eacks) = [c EXCEPT !.txq = q]
  BY DEF FlushEack
<1> HIDE DEF q
<1>4. EndOK(e, [c EXCEPT !.txq = q], v)
  BY <1>1, <1>2, KeptTxq
<1>5. \A x, y : x = y /\ EndOK(e, y, v) => EndOK(e, x, v)
  OBVIOUS
<1> QED
  BY <1>3, <1>4, <1>5, Zenon

\* Data in sequence is taken.
LEMMA EndTaken ==
  ASSUME NewIss, Ample, NEW e \in Endpoint, NEW c, ConnOK(c), NEW v, ContextOK(v), EndOK(e, c, v),
         c.state = "OPEN", NEW p \in Segment, Said(Peer(e), p, v.q), p.data # NoData,
         p.seq = Plus(c.cur, 1), HasRoom(c)
  PROVE /\ EndOK(e, Taken(c, p), v) /\ Taken(c, p).state = c.state
        /\ Later(c, v.g, Taken(c, p), v.g) /\ ConnOK(Taken(c, p))
        /\ Has(Taken(c, p), v.g) = Has(c, v.g) + 1
<1>1. PICK i \in 1..v.q : p.data = <<1, i>> /\ p.seq = Nr(Peer(e), i)
  BY DEF Said
<1>2. /\ Has(c, v.g) \in Nat /\ Has(c, v.g) \in 0..v.q /\ v.q <= MsgLimit[Peer(e)]
      /\ c.cur = Nr(Peer(e), Has(c, v.g)) /\ Peer(e) \in Endpoint
  BY HasType, IssType, SMTT(30) DEF EndOK, Own, ContextOK
<1>3. i = Has(c, v.g) + 1
  <2>1. Plus(Nr(Peer(e), Has(c, v.g)), 1) = Nr(Peer(e), Has(c, v.g) + 1)
    BY <1>2, NrType
  <2> QED
    BY <1>1, <1>2, <2>1, DataIs
<1> DEFINE b == Taken(c, p)
<1>4. ConnOK(b)
  <2>1. p.data \in Payload /\ p.seq \in SeqNr
    BY DEF Segment
  <2>2. ConnOK(Enqueue(c, p.data))
    BY <2>1, EnqueueType
  <2> QED
    BY <2>1, <2>2 DEF Taken, ConnOK, Conn
<1>5. b = [[c EXCEPT !.rx = Append(@, <<1, i>>)] EXCEPT !.cur = Nr(Peer(e), i)]
  BY <1>1 DEF Taken, Enqueue
<1>6. TakesNext(e, c, b, v.g, i, c.rxq) /\ b.state = c.state /\ b.rx = Append(c.rx, <<1, i>>)
  BY <1>3, <1>5 DEF TakesNext, ConnOK, Conn
<1> HIDE DEF b
<1>7. EndOK(e, b, v) /\ Later(c, v.g, b, v.g)
  BY <1>6, EndTakes
<1>8. Has(b, v.g) = Has(c, v.g) + 1
  <2> DEFINE g == v.g
             x == <<1, i>>
  <2>1. x \in Payload /\ g \in Seq(Payload) /\ b.rx = Append(c.rx, x)
    BY <1>6 DEF ContextOK, Payload
  <2> HIDE DEF g, x
  <2>2. Has(b, g) = Has(c, g) + 1
    BY <2>1, HasMore
  <2> QED
    BY <2>2 DEF g
<1> QED
  BY <1>4, <1>6, <1>7, <1>8 DEF b

\* csp_rdp_new_packet with a segment of an open connection, from the label
\* that takes the acknowledgement.
LEMMA KeptHandleData ==
  ASSUME NewIss, Ample, NEW e \in Endpoint, NEW c0, ConnOK(c0), NEW v, ContextOK(v),
         NEW p \in Segment, SaidOK(Peer(e), p, v.q, v.d, v.h), NEW due, NEW ok,
         EndOK(e, [c0 EXCEPT !.una = Plus(p.ack, 1)], v), c0.state = "OPEN"
  PROVE LET b == [c0 EXCEPT !.una = Plus(p.ack, 1)]
            r == HandleData(c0, p, due, ok)
        IN /\ Kept(e, b, v, r)
           /\ Has(r.c, v.g) = Has(b, v.g) \/ Has(r.c, v.g) = Has(b, v.g) + 1
<1> DEFINE c == [c0 EXCEPT !.una = Plus(p.ack, 1)]
           stored == [c EXCEPT !.rxq = @ \cup {[seq |-> p.seq, data |-> p.data]}]
           r == HandleData(c0, p, due, ok)
           Right(x) == /\ Kept(e, c, v, x)
                       /\ Has(x.c, v.g) = Has(c, v.g) \/ Has(x.c, v.g) = Has(c, v.g) + 1
<1>1. ConnOK(c) /\ c.state = "OPEN"
  <2>1. Plus(p.ack, 1) \in SeqNr
    BY PlusType DEF Segment, SeqNr
  <2> QED
    BY <2>1 DEF ConnOK, Conn
<1>2. EndOK(e, c, v)
  OBVIOUS
<1>3. Said(Peer(e), p, v.q)
  BY DEF SaidOK
<1> HIDE DEF c
<1>4. Right(Result(c, {})) /\ Right(CheckAck(c, due, ok))
  <2>1. Kept(e, c, v, Result(c, {})) /\ Kept(e, c, v, CheckAck(c, due, ok))
    BY <1>1, <1>2, KeptStill, KeptCheckAck
  <2>2. View(CheckAck(c, due, ok).c) = View(c)
    BY <1>1 DEF CheckAck, SendCmp, Result, View, ConnOK, Conn
  <2>3. Has(CheckAck(c, due, ok).c, v.g) = Has(c, v.g)
    BY <2>2, EndOfView
  <2> QED
    BY <2>1, <2>3 DEF Result
<1>5. CASE "EAK" \in p.flags
  <2>1. EndOK(e, FlushEack(c, p.eacks), v)
    BY <1>1, <1>2, EndFlushed
  <2>2. /\ FlushEack(c, p.eacks).state = c.state /\ FlushEack(c, p.eacks).rx = c.rx
        /\ FlushEack(c, p.eacks).rxq = c.rxq
    BY <1>1 DEF FlushEack, ConnOK, Conn
  <2> DEFINE b == FlushEack(c, p.eacks)
  <2>3. b.state = c.state /\ b.rx = c.rx /\ b.rxq = c.rxq /\ EndOK(e, b, v)
    BY <2>1, <2>2
  <2>4. r = Result(b, {})
    BY <1>5 DEF HandleData, c
  <2> HIDE DEF b, r
  <2>5. Has(b, v.g) = Has(c, v.g) /\ \A n : HasMsg(b, v.g, n) <=> HasMsg(c, v.g, n)
    BY <2>3 DEF Has, HasMsg
  <2>6. Later(c, v.g, b, v.g)
    BY <1>1, <2>5, LaterSame DEF ContextOK
  <2>7. Right(Result(b, {}))
    BY <1>1, <2>3, <2>5, <2>6 DEF Kept, Result
  <2> QED
    BY <2>4, <2>7 DEF r, c
<1>6. CASE "EAK" \notin p.flags /\ p.data # NoData /\ p.seq # Plus(c.cur, 1)
  <2>1. r = SendEack(stored, ok) \/ r = CheckAck(c, due, ok)
    BY <1>6 DEF HandleData, c
  <2>2. EndOK(e, stored, v) /\ stored.state = c.state /\ Later(c, v.g, stored, v.g) /\ ConnOK(stored)
    BY <1>1, <1>2, <1>3, <1>6, EndStores
  <2>3. stored.rx = c.rx
    BY <1>1 DEF ConnOK, Conn
  <2> HIDE DEF stored, r
  <2>4. Kept(e, stored, v, SendEack(stored, ok)) /\ ConnOK(SendEack(stored, ok).c)
    BY <1>1, <2>2, KeptSendEack, SendEackType DEF ResultOK
  <2>5. Kept(e, c, v, SendEack(stored, ok))
    BY <1>1, <2>2, <2>4, KeptThen
  <2>6. View(SendEack(stored, ok).c) = View(stored)
    BY <2>2 DEF SendEack, SendCmp, Result, View, ConnOK, Conn
  <2>7. Has(SendEack(stored, ok).c, v.g) = Has(c, v.g)
    <3>1. Has(stored, v.g) = Has(c, v.g)
      BY <2>3 DEF Has
    <3> QED
      BY <2>6, <3>1, EndOfView
  <2> QED
    BY <1>4, <2>1, <2>5, <2>7 DEF r, c
<1>7. CASE "EAK" \notin p.flags /\ p.data # NoData /\ p.seq = Plus(c.cur, 1) /\ HasRoom(c)
  <2>1. r = CheckAck(Taken(c, p), due, ok)
    BY <1>7 DEF HandleData, c
  <2> DEFINE b == Taken(c, p)
  <2>2. /\ EndOK(e, b, v) /\ b.state = c.state /\ Later(c, v.g, b, v.g) /\ ConnOK(b)
        /\ Has(b, v.g) = Has(c, v.g) + 1
    BY <1>1, <1>2, <1>3, <1>7, EndTaken
  <2> HIDE DEF b, r
  <2>3. Kept(e, b, v, CheckAck(b, due, ok)) /\ ConnOK(CheckAck(b, due, ok).c)
    BY <1>1, <2>2, KeptCheckAck, CheckAckType DEF ResultOK
  <2>4. Kept(e, c, v, CheckAck(b, due, ok))
    BY <1>1, <2>2, <2>3, KeptThen
  <2>5. View(CheckAck(b, due, ok).c) = View(b)
    BY <2>2 DEF CheckAck, SendCmp, Result, View, ConnOK, Conn
  <2>6. Has(CheckAck(b, due, ok).c, v.g) = Has(c, v.g) + 1
    BY <2>2, <2>5, EndOfView
  <2> QED
    BY <2>1, <2>4, <2>6 DEF r, c, b
<1>8. CASE \/ "EAK" \notin p.flags /\ p.data = NoData
           \/ "EAK" \notin p.flags /\ p.data # NoData /\ p.seq = Plus(c.cur, 1) /\ ~HasRoom(c)
  <2>1. r = Result(c, {})
    BY <1>8 DEF HandleData, c
  <2> QED
    BY <1>4, <2>1 DEF c
<1> QED
  BY <1>5, <1>6, <1>7, <1>8

----------------------------------------------------------------------------
\* One end takes a step while the ends agree.

\* The same for other values of its own part.
ContextOf(e, n, s, g) ==
  [n |-> n, s |-> s, g |-> g, q |-> sent[Peer(e)], d |-> conn[Peer(e)], h |-> got[Peer(e)]]

\* The hands of the users: a segment is composed by e, or was before.
HandsFrom(e, s, c, g) ==
  \A f \in Endpoint : user'[f] = "sending" =>
    \/ user[f] = "sending" /\ hand'[f] = hand[f]
    \/ f = e /\ SaidOK(e, hand'[f], s, c, g)

\* Types of what an end has to agree with.
LEMMA ContextType ==
  ASSUME TypeOK, NEW e \in Endpoint, NEW n \in Nat, NEW s \in Nat, NEW g \in Seq(Payload)
  PROVE /\ ContextOK(ContextOf(e, n, s, g)) /\ ContextOK(Context(e))
        /\ ConnOK(conn[e]) /\ picks[e] \in Nat /\ sent[e] \in Nat /\ got[e] \in Seq(Payload)
        /\ Context(e) = ContextOf(e, picks[e], sent[e], got[e])
        /\ Peer(e) \in Endpoint /\ Peer(Peer(e)) = e /\ Peer(e) # e
        /\ Endpoint = {e, Peer(e)}
<1>1. Peer(e) \in Endpoint /\ Peer(Peer(e)) = e /\ Peer(e) # e /\ Endpoint = {e, Peer(e)}
  BY DEF Peer, Endpoint, Client, Server
<1>2. \A f \in Endpoint :
        ConnOK(conn[f]) /\ picks[f] \in Nat /\ sent[f] \in Nat /\ got[f] \in Seq(Payload)
  BY TypeParts DEF LinkType, QuietType
<1> QED
  BY <1>1, <1>2 DEF ContextOK, ContextOf, Context

\* The other end still agrees.
LEMMA PeerKept ==
  ASSUME NEW e, NEW c, ConnOK(c), NEW v, NEW w, ContextOK(v), ContextOK(w), EndOK(e, c, v),
         w.n = v.n, w.s = v.s, w.g = v.g, v.q <= w.q, w.q <= MsgLimit[Peer(e)],
         Later(v.d, v.h, w.d, w.h)
  PROVE EndOK(e, c, w)
<1> DEFINE q == v.q
           t == w.q
           i == Has(v.d, v.h)
           j == Has(w.d, w.h)
           k == Has(c, v.g)
           s == v.s
<1>1. /\ q \in Nat /\ t \in Nat /\ q <= t /\ i \in Nat /\ j \in Nat /\ i <= j /\ s \in Nat
      /\ k \in Nat /\ Window \in Nat
  BY HasType, SizeAssumption DEF ContextOK, Later
<1>2. 1..q \subseteq 1..t /\ 0..i \subseteq 0..j
  <2> HIDE DEF q, t, i, j
  <2> QED
    BY <1>1
<1>3. k <= q => k <= t
  <2> HIDE DEF q, t, k
  <2> QED
    BY <1>1
<1>4. s <= i + Window => s <= j + Window
  <2> HIDE DEF s, i, j
  <2> QED
    BY <1>1
<1>5. \A n \in 1..s : HasMsg(v.d, v.h, n) => HasMsg(w.d, w.h, n)
  BY <1>1 DEF Later
<1>6. Own(e, c, v.n, v.s, v.g, v.q) /\ Across(e, c, v.s, v.d, v.h)
  BY DEF EndOK
<1>7. Own(e, c, v.n, v.s, v.g, w.q)
  BY <1>2, <1>3, <1>6 DEF Own
<1>8. Across(e, c, v.s, w.d, w.h)
  BY <1>2, <1>4, <1>5, <1>6 DEF Across
<1> QED
  BY <1>7, <1>8 DEF EndOK

\* An end takes a step: what it has and says is right, and nothing of what it
\* had is gone.
LEMMA AgreeStep ==
  ASSUME TypeOK, TypeOK', Agree, Opening', NEW e \in Endpoint,
         NEW n \in Nat, NEW s \in Nat, NEW g \in Seq(Payload), NEW r,
         conn' = [conn EXCEPT ![e] = r.c], picks' = [picks EXCEPT ![e] = n],
         sent' = [sent EXCEPT ![e] = s], got' = [got EXCEPT ![e] = g],
         EndOK(e, r.c, ContextOf(e, n, s, g)), Later(conn[e], got[e], r.c, g),
         \A x \in r.out : SaidOK(e, x, s, r.c, g), sent[e] <= s,
         conn[e].state # "CLOSED" => r.c.state # "CLOSED",
         conn[e].state = "OPEN" => r.c.state = "OPEN",
         NewFrom(e, r.out), HandsFrom(e, s, r.c, g)
  PROVE Agree'
<1>1. PICK f : f = Peer(e)
  OBVIOUS
<1>2. f \in Endpoint /\ Peer(f) = e /\ f # e /\ Endpoint = {e, f}
  BY <1>1, ContextType
<1>3. /\ conn'[e] = r.c /\ picks'[e] = n /\ sent'[e] = s /\ got'[e] = g
      /\ conn'[f] = conn[f] /\ picks'[f] = picks[f] /\ sent'[f] = sent[f] /\ got'[f] = got[f]
  BY <1>2 DEF TypeOK
<1>4. /\ ConnOK(conn[e]) /\ picks[e] \in Nat /\ sent[e] \in Nat /\ got[e] \in Seq(Payload)
      /\ ConnOK(conn[f]) /\ picks[f] \in Nat /\ sent[f] \in Nat /\ got[f] \in Seq(Payload)
  BY <1>2, ContextType
<1>5. ConnOK(r.c)
  <2>1. conn' \in [Endpoint -> Conn] /\ IsFiniteSet(conn'[e].txq)
    BY DEF TypeOK
  <2> QED
    BY <1>3, <2>1 DEF ConnOK
<1> DEFINE v == ContextOf(e, n, s, g)
           w == ContextOf(f, picks[f], sent[f], got[f])
           u == [n |-> picks[f], s |-> sent[f], g |-> got[f], q |-> s, d |-> r.c, h |-> g]
<1>6. EndOK(e, r.c, v) /\ s <= MsgLimit[e]
  BY DEF EndOK, Own, ContextOf
<1>7. EndOK(f, conn[f], u)
  <2>1. EndOK(f, conn[f], w)
    BY <1>2, <1>4, ContextType DEF Agree
  <2>2. ContextOK(w) /\ ContextOK(u)
    BY <1>2, <1>4, <1>5 DEF ContextOK, ContextOf
  <2>3. /\ u.n = w.n /\ u.s = w.s /\ u.g = w.g /\ u.q = s /\ u.d = r.c /\ u.h = g
        /\ w.q = sent[e] /\ w.d = conn[e] /\ w.h = got[e]
    BY <1>2 DEF ContextOf
  <2> HIDE DEF u, w
  <2>4. w.q <= u.q /\ u.q <= MsgLimit[Peer(f)] /\ Later(w.d, w.h, u.d, u.h)
    BY <1>2, <1>6, <2>3
  <2> QED
    BY <1>4, <2>1, <2>2, <2>3, <2>4, PeerKept
<1>8. Context(e)' = v /\ Context(f)' = u
  <2>1. Context(e)' = v
    <3>1. /\ conn'[Peer(e)] = conn[Peer(e)] /\ sent'[Peer(e)] = sent[Peer(e)]
          /\ got'[Peer(e)] = got[Peer(e)]
      BY <1>1, <1>3
    <3> QED
      BY <1>3, <3>1 DEF Context, ContextOf
  <2>2. u = [n |-> picks[f], s |-> sent[f], g |-> got[f], q |-> s, d |-> r.c, h |-> g]
    OBVIOUS
  <2>3. Context(f)' = u
    <3>1. Context(f)' = [n |-> picks'[f], s |-> sent'[f], g |-> got'[f],
                         q |-> sent'[e], d |-> conn'[e], h |-> got'[e]]
      BY <1>2 DEF Context
    <3> HIDE DEF u
    <3> QED
      BY <1>3, <2>2, <3>1
  <2> QED
    BY <2>1, <2>3
<1>9. \A k \in Endpoint : EndOK(k, conn[k], Context(k))'
  BY <1>2, <1>3, <1>6, <1>7, <1>8
<1>10. \A k \in Endpoint : \A x :
         SaidOK(k, x, sent[k], conn[k], got[k]) => SaidOK(k, x, sent'[k], conn'[k], got'[k])
  <2>1. \A x : SaidOK(e, x, sent[e], conn[e], got[e]) => SaidOK(e, x, s, r.c, g)
    <3> SUFFICES ASSUME NEW x, SaidOK(e, x, sent[e], conn[e], got[e])
                 PROVE SaidOK(e, x, s, r.c, g)
      OBVIOUS
    <3>1. r.c.state # "CLOSED" /\ (conn[e].state = "OPEN" => r.c.state = "OPEN")
      BY DEF SaidOK
    <3> QED
      BY <1>4, <1>5, <3>1, SaidLater
  <2> QED
    BY <1>2, <1>3, <2>1
<1>11. \A m \in net' :
         LET k == Peer(m.to) IN SaidOK(k, m.seg, sent'[k], conn'[k], got'[k])
  <2> SUFFICES ASSUME NEW m \in net', NEW k, k = Peer(m.to)
               PROVE SaidOK(k, m.seg, sent'[k], conn'[k], got'[k])
    OBVIOUS
  <2>1. CASE m \in net
    <3>1. k \in Endpoint /\ SaidOK(k, m.seg, sent[k], conn[k], got[k])
      <4>1. m.to \in Endpoint
        BY <2>1 DEF TypeOK
      <4>2. k \in Endpoint
        BY <4>1 DEF Peer, Endpoint
      <4> QED
        BY <2>1, <4>2 DEF Agree
    <3> QED
      BY <1>10, <3>1
  <2>2. CASE \E x \in r.out : m = [to |-> f, seg |-> x]
    <3>1. PICK x \in r.out : m = [to |-> f, seg |-> x]
      BY <2>2
    <3>2. k = e /\ m.seg = x
      BY <1>2, <3>1
    <3> QED
      BY <1>3, <3>2
  <2> QED
    BY <1>1, <2>1, <2>2 DEF NewFrom
<1>12. \A k \in Endpoint :
         user'[k] = "sending" => SaidOK(k, hand'[k], sent'[k], conn'[k], got'[k])
  <2> SUFFICES ASSUME NEW k \in Endpoint, user'[k] = "sending"
               PROVE SaidOK(k, hand'[k], sent'[k], conn'[k], got'[k])
    OBVIOUS
  <2>1. CASE user[k] = "sending" /\ hand'[k] = hand[k]
    BY <1>10, <2>1 DEF Agree
  <2>2. CASE k = e /\ SaidOK(e, hand'[k], s, r.c, g)
    BY <1>3, <2>2
  <2> QED
    BY <2>1, <2>2 DEF HandsFrom
<1> QED
  BY <1>9, <1>11, <1>12 DEF Agree

\* An end takes a step in which no message is accepted, composed or read.
LEMMA AgreeKept ==
  ASSUME TypeOK, TypeOK', Agree, NEW e \in Endpoint, NEW r,
         Kept(e, conn[e], Context(e), r), conn' = [conn EXCEPT ![e] = r.c],
         UNCHANGED <<picks, sent, got>>, NewFrom(e, r.out),
         \A f \in Endpoint : user'[f] = "sending" => user[f] = "sending" /\ hand'[f] = hand[f],
         user[Client] = "none" => user'[Client] = "none"
  PROVE Agree'
<1> DEFINE n == picks[e]
           s == sent[e]
           g == got[e]
<1>1. n \in Nat /\ s \in Nat /\ g \in Seq(Payload) /\ Context(e) = ContextOf(e, n, s, g) /\ sent[e] = s
  BY ContextType DEF TypeOK
<1>2. /\ picks' = [picks EXCEPT ![e] = n] /\ sent' = [sent EXCEPT ![e] = s]
      /\ got' = [got EXCEPT ![e] = g]
  BY DEF TypeOK
<1>3. /\ EndOK(e, r.c, ContextOf(e, n, s, g)) /\ Later(conn[e], g, r.c, g)
      /\ \A x \in r.out : SaidOK(e, x, s, r.c, g)
  BY <1>1 DEF Kept, ContextOf
<1>4. /\ conn'[e].state = conn[e].state
      /\ conn[e].state = "SYN_SENT" => conn'[e].sem = conn[e].sem
      /\ \A f \in Endpoint \ {e} : conn'[f] = conn[f]
  BY DEF Kept, TypeOK
<1>5. Opening'
  <2>1. conn'[Client].state = conn[Client].state /\ conn'[Server].state = conn[Server].state
    BY <1>4 DEF Endpoint
  <2>2. conn[Client].state = "SYN_SENT" => conn'[Client].sem = conn[Client].sem
    BY <1>4 DEF Endpoint
  <2> QED
    BY <2>1, <2>2 DEF Agree, Opening
<1>6. r.c.state = conn[e].state
  BY DEF Kept
<1>7. HandsFrom(e, s, r.c, g) /\ got[e] = g /\ s <= s
  BY <1>1 DEF HandsFrom
<1>8. Later(conn[e], got[e], r.c, g)
  BY <1>3
<1> HIDE DEF n, s, g
<1>9. sent[e] <= s
  BY <1>1
<1> QED
  BY <1>1, <1>2, <1>3, <1>5, <1>6, <1>7, <1>8, <1>9, AgreeStep

\* Nothing changes that the agreement is about, but a segment may be lost.
LEMMA AgreeSame ==
  ASSUME TypeOK, TypeOK', Agree, UNCHANGED <<conn, picks, sent, got>>, net' \subseteq net,
         \A f \in Endpoint : user'[f] = "sending" => user[f] = "sending" /\ hand'[f] = hand[f],
         user[Client] = "none" => user'[Client] = "none"
  PROVE Agree'
<1> DEFINE r == Result(conn[Client], {})
<1>1. Client \in Endpoint
  BY DEF Endpoint
<1>2. Kept(Client, conn[Client], Context(Client), r)
  <2>1. /\ ConnOK(conn[Client]) /\ ContextOK(Context(Client))
        /\ EndOK(Client, conn[Client], Context(Client))
    <3>1. 0 \in Nat /\ <<>> \in Seq(Payload)
      OBVIOUS
    <3> QED
      BY <1>1, <3>1, ContextType DEF Agree
  <2> QED
    BY <2>1, KeptStill
<1>3. conn' = [conn EXCEPT ![Client] = r.c]
  BY <1>1 DEF Result, TypeOK
<1>4. NewFrom(Client, r.out)
  BY DEF NewFrom
<1> HIDE DEF r
<1> QED
  BY <1>1, <1>2, <1>3, <1>4, AgreeKept

\* A call of csp_rdp_new_packet.
LEMMA AgreeHandled ==
  ASSUME TypeOK, TypeOK', Agree, NEW e \in Endpoint, NEW p, NEW r, NEW ok, NEW next,
         HandledThen(e, p, r, ok, next), UNCHANGED <<picks, sent, got>>,
         Kept(e, conn[e], Context(e), r)
  PROVE Agree'
<1>1. NewFrom(e, r.out)
  BY TransmitData DEF HandledThen
<1> QED
  BY <1>1, AgreeKept DEF HandledThen

\* What arrives while the ends agree, and where.
LEMMA ArrivesAgree ==
  ASSUME TypeOK, SlotInv, Agree, NEW e \in Endpoint, NEW p, Arrives(e, p)
  PROVE /\ p \in Segment /\ ConnOK(conn[e]) /\ ContextOK(Context(e)) /\ Peer(Peer(e)) = e
        /\ EndOK(e, conn[e], Context(e))
        /\ SaidOK(Peer(e), p, sent[Peer(e)], conn[Peer(e)], got[Peer(e)])
        /\ "RST" \notin p.flags /\ Peer(e) \in Endpoint
        /\ IF conn[e].state = "CLOSED"
           THEN e = Server /\ Target(e) = NewConn(conn[e], TRUE) /\ Target(e).state = "CLOSED"
           ELSE Target(e) = conn[e]
<1>1. p \in Segment
  BY ArrivesType
<1>2. /\ ConnOK(conn[e]) /\ ContextOK(Context(e)) /\ Peer(e) \in Endpoint /\ Peer(Peer(e)) = e
  <2>1. 0 \in Nat /\ <<>> \in Seq(Payload)
    OBVIOUS
  <2> QED
    BY <2>1, ContextType
<1>3. EndOK(e, conn[e], Context(e))
  BY DEF Agree
<1>4. SaidOK(Peer(e), p, sent[Peer(e)], conn[Peer(e)], got[Peer(e)])
  BY DEF Arrives, Agree
<1>5. "RST" \notin p.flags
  BY <1>4 DEF SaidOK, Said
<1>6. conn[e].open <=> conn[e].state # "CLOSED"
  BY <1>2 DEF SlotInv, SlotOK, ConnOK, Conn
<1>7. NewConn(conn[e], TRUE).state = conn[e].state
  BY <1>2 DEF NewConn, ConnOK, Conn
<1> QED
  BY <1>1, <1>2, <1>3, <1>4, <1>5, <1>6, <1>7 DEF Target, Arrives

\* While the ends agree nobody sends a reset, a segment that does not fit, or
\* one to a closed connection.
LEMMA NothingUnexpected ==
  ASSUME NewIss, TypeOK, SlotInv, Agree, NEW e \in Endpoint, NEW p
  PROVE /\ ~RstInClosed(e, p) /\ ~RstInCloseWait(e, p)
        /\ ~RstInSequence(e, p) /\ ~RstOutOfSequence(e, p)
        /\ ~NoSynInClosed(e, p) /\ ~HalfOpen(e, p) /\ ~InvalidSyn(e, p)
        /\ ~WrongAckInSynRcvd(e, p) /\ ~IgnoredInCloseWait(e, p) /\ ~AckInCloseWait(e, p)
<1>1. ASSUME Arrives(e, p), "RST" \in p.flags PROVE FALSE
  BY <1>1, ArrivesAgree
<1>2. conn[Client].state \in {"CLOSED", "SYN_SENT", "OPEN"}
      /\ conn[Server].state \in {"CLOSED", "SYN_RCVD", "OPEN"}
      /\ (conn[Client].state = "OPEN" => conn[Server].state # "CLOSED")
      /\ (conn[Server].state = "OPEN" => conn[Client].state = "OPEN")
      /\ Peer(Client) = Server /\ Peer(Server) = Client /\ Endpoint = {Client, Server}
      /\ Client # Server
  BY DEF Agree, Opening, Peer, Endpoint, Client, Server
<1>3. ASSUME Receives(e, p, {"CLOSE_WAIT"}) PROVE FALSE
  BY <1>2, <1>3, ArrivesAgree DEF Receives
<1>4. ASSUME NoSynInClosed(e, p) PROVE FALSE
  <2>1. Arrives(e, p) /\ "SYN" \notin p.flags /\ Target(e).state = "CLOSED"
    BY <1>4 DEF NoSynInClosed, Receives
  <2>2. e = Server /\ conn[Server].state = "CLOSED"
    BY <2>1, ArrivesAgree
  <2>3. conn[Client].state = "OPEN"
    BY <1>2, <2>1, <2>2, ArrivesAgree DEF SaidOK
  <2> QED
    BY <1>2, <2>2, <2>3
<1>5. ASSUME HalfOpen(e, p) PROVE FALSE
  <2>1. Arrives(e, p) /\ "SYN" \notin p.flags /\ Target(e).state = "SYN_SENT"
    BY <1>5 DEF HalfOpen, Receives
  <2>2. conn[e].state = "SYN_SENT"
    BY <2>1, ArrivesAgree
  <2>3. e = Client
    BY <1>2, <2>2
  <2>4. conn[Server].state = "OPEN"
    BY <1>2, <2>1, <2>3, ArrivesAgree DEF SaidOK
  <2> QED
    BY <1>2, <2>2, <2>3, <2>4
<1>6. ASSUME InvalidSyn(e, p) PROVE FALSE
  <2>1. /\ Arrives(e, p) /\ BadFlags(p) /\ p.seq # Target(e).irs
        /\ Target(e).state \in {"SYN_RCVD", "OPEN"}
    BY <1>6 DEF InvalidSyn, Receives
  <2>2. Target(e) = conn[e] /\ conn[e].state \in {"SYN_RCVD", "OPEN"}
    BY <2>1, ArrivesAgree
  <2>3. conn[e].irs = IssOf[Peer(e)][1]
    BY <2>1, <2>2, ArrivesAgree DEF EndOK, Own
  <2>4. Said(Peer(e), p, sent[Peer(e)])
    BY <2>1, ArrivesAgree DEF SaidOK
  <2>5. p.seq = IssOf[Peer(e)][1]
    BY <2>1, <2>4 DEF BadFlags, Said
  <2> QED
    BY <2>1, <2>2, <2>3, <2>5
<1>7. ASSUME WrongAckInSynRcvd(e, p) PROVE FALSE
  <2>1. Arrives(e, p) /\ ~BadFlags(p) /\ ~AcksIss(Target(e), p) /\ Target(e).state = "SYN_RCVD"
    BY <1>7 DEF WrongAckInSynRcvd, Acceptable, Receives
  <2>2. e = Server /\ Target(e) = conn[e] /\ conn[Server].state = "SYN_RCVD"
    BY <1>2, <2>1, ArrivesAgree
  <2>3. /\ SaidOK(Client, p, sent[Client], conn[Client], got[Client])
        /\ EndOK(Server, conn[Server], Context(Server))
        /\ EndOK(Client, conn[Client], Context(Client))
    BY <1>2, <2>1, <2>2, ArrivesAgree DEF Agree
  <2>4. PICK j \in 0..Has(conn[Client], got[Client]) : p.ack = Nr(Server, j)
    BY <1>2, <2>1, <2>3 DEF BadFlags, SaidOK, Acks
  <2>5. sent[Server] = 0 /\ conn[Server].iss = IssOf[Server][1]
    BY <2>2, <2>3 DEF EndOK, Own, Context
  <2>6. Has(conn[Client], got[Client]) <= sent[Server]
    BY <1>2, <2>3 DEF EndOK, Own, Context
  <2>7. Has(conn[Client], got[Client]) \in Nat
    BY <1>2, HasType, ContextType, TypeParts DEF LinkType, QuietType
  <2>8. j = 0
    BY <2>5, <2>6, <2>7
  <2>9. p.ack = IssOf[Server][1]
    BY <1>2, <2>4, <2>8, NrType
  <2> QED
    BY <2>1, <2>2, <2>5, <2>9 DEF AcksIss
<1> QED
  BY <1>1, <1>3, <1>4, <1>5, <1>6, <1>7
     DEF RstInClosed, RstInCloseWait, RstInSequence, RstOutOfSequence,
         IgnoredInCloseWait, AckInCloseWait

\* The handlers that leave the connection as it is, or answer with its numbers.
LEMMA AnswerAgree ==
  ASSUME NewIss, TypeOK, TypeOK', SlotInv, Agree, NEW e \in Endpoint, NEW p,
         DropUnknown(e, p) \/ DuplicateSyn(e, p) \/ InvalidAck(e, p) \/ OutOfWindow(e, p)
  PROVE Agree'
<1>1. UNCHANGED <<picks, sent, got>>
  BY DEF DropUnknown, DuplicateSyn, InvalidAck, OutOfWindow, Quiet, histVars
<1>2. /\ ConnOK(conn[e]) /\ ContextOK(Context(e)) /\ EndOK(e, conn[e], Context(e))
      /\ Kept(e, conn[e], Context(e), Result(conn[e], {}))
  <2>1. ConnOK(conn[e]) /\ ContextOK(Context(e)) /\ EndOK(e, conn[e], Context(e))
    <3>1. 0 \in Nat /\ <<>> \in Seq(Payload)
      OBVIOUS
    <3> QED
      BY <3>1, ContextType DEF Agree
  <2> QED
    BY <2>1, KeptStill
<1>3. CASE DropUnknown(e, p) \/ DuplicateSyn(e, p) \/ InvalidAck(e, p)
  <2>1. HandledThen(e, p, Result(conn[e], {}), TRUE, "idle")
    BY <1>3, ArrivesAgree DEF DropUnknown, DuplicateSyn, InvalidAck, Receives, Handled
  <2> QED
    BY <1>1, <1>2, <2>1, AgreeHandled
<1>4. CASE OutOfWindow(e, p)
  <2> DEFINE r(ok, cloned) == IF Target(e).state = "SYN_RCVD"
                              THEN SendSynAck(Target(e), cloned, ok)
                              ELSE SendEack(Target(e), ok)
  <2>1. PICK ok \in BOOLEAN, cloned \in BOOLEAN : HandledThen(e, p, r(ok, cloned), ok, "idle")
    BY <1>4 DEF OutOfWindow, Handled
  <2>2. Target(e) = conn[e] /\ conn[e].state \in {"SYN_RCVD", "OPEN"}
    BY <1>4, ArrivesAgree DEF OutOfWindow, Receives
  <2>3. Kept(e, conn[e], Context(e), r(ok, cloned))
    <3>1. CASE conn[e].state = "SYN_RCVD"
      <4>1. e = Server
        BY <3>1 DEF Agree, Opening, Endpoint
      <4>2. Kept(Server, conn[e], Context(e), SendSynAck(conn[e], cloned, ok))
        BY <1>2, <3>1, <4>1, KeptSendSynAck
      <4> QED
        BY <2>2, <3>1, <4>1, <4>2
    <3>2. CASE conn[e].state = "OPEN"
      BY <1>2, <2>2, <3>2, KeptSendEack
    <3> QED
      BY <2>2, <3>1, <3>2
  <2> HIDE DEF r
  <2> QED
    BY <1>1, <2>1, <2>3, AgreeHandled
<1> QED
  BY <1>3, <1>4

\* A call of csp_rdp_new_packet that changes the state of the connection.
LEMMA AgreeTurned ==
  ASSUME TypeOK, TypeOK', Agree, Opening', NEW e \in Endpoint, NEW p, NEW r, NEW ok, NEW next,
         HandledThen(e, p, r, ok, next), UNCHANGED <<sent, got>>, NEW n \in Nat,
         picks' = [picks EXCEPT ![e] = n],
         EndOK(e, r.c, ContextOf(e, n, sent[e], got[e])), Later(conn[e], got[e], r.c, got[e]),
         \A x \in r.out : SaidOK(e, x, sent[e], r.c, got[e]),
         r.c.state # "CLOSED", conn[e].state = "OPEN" => r.c.state = "OPEN"
  PROVE Agree'
<1> DEFINE s == sent[e]
           g == got[e]
<1>1. s \in Nat /\ g \in Seq(Payload) /\ s <= s
  BY DEF TypeOK
<1>2. sent' = [sent EXCEPT ![e] = s] /\ got' = [got EXCEPT ![e] = g] /\ sent[e] <= s
  BY <1>1 DEF HandledThen, TypeOK
<1>3. NewFrom(e, r.out) /\ HandsFrom(e, s, r.c, g) /\ conn' = [conn EXCEPT ![e] = r.c]
  BY TransmitData DEF HandledThen, HandsFrom
<1>4. /\ EndOK(e, r.c, ContextOf(e, n, s, g)) /\ Later(conn[e], got[e], r.c, g)
      /\ \A x \in r.out : SaidOK(e, x, s, r.c, g)
  OBVIOUS
<1> HIDE DEF s, g
<1> QED
  BY <1>1, <1>2, <1>3, <1>4, AgreeStep

\* A segment of an open connection.
LEMMA DataInOpenAgree ==
  ASSUME NewIss, Ample, TypeOK, TypeOK', SlotInv, Agree, NEW e \in Endpoint, NEW p, DataInOpen(e, p)
  PROVE Agree'
<1>1. /\ Arrives(e, p) /\ Target(e).state = "OPEN" /\ ~BadFlags(p)
      /\ UNCHANGED <<picks, sent, got>>
  BY DEF DataInOpen, Acceptable, Receives, Quiet, histVars
<1>2. Target(e) = conn[e] /\ conn[e].state = "OPEN" /\ "ACK" \in p.flags
  BY <1>1, ArrivesAgree DEF BadFlags
<1> DEFINE c == conn[e]
           v == Context(e)
           b == [c EXCEPT !.una = Plus(p.ack, 1)]
           r(due, ok) == HandleData(c, p, due, ok)
<1>3. PICK ok \in BOOLEAN, due \in BOOLEAN :
        HandledThen(e, p, r(due, ok), ok,
          IF r(due, ok).c.cur # c.cur /\ NextStored(r(due, ok).c) # {} THEN "flush" ELSE "idle")
  BY <1>2 DEF DataInOpen, HandledData
<1>4. /\ p \in Segment /\ ConnOK(c) /\ ContextOK(v) /\ EndOK(e, c, v)
      /\ SaidOK(Peer(e), p, v.q, v.d, v.h)
  BY <1>1, ArrivesAgree DEF Context
<1>5. Acknowledged(c, p, b)
  BY <1>2, <1>4 DEF Acknowledged, ConnOK, Conn
<1>6. /\ b.state = c.state /\ b.rx = c.rx /\ b.rxq = c.rxq
  BY <1>4 DEF ConnOK, Conn
<1>7. ConnOK(b)
  <2>1. Plus(p.ack, 1) \in SeqNr
    BY <1>4, PlusType DEF Segment, SeqNr
  <2> QED
    BY <1>4, <2>1 DEF ConnOK, Conn
<1>8. c.state = "OPEN"
  BY <1>2
<1>9. \A u : Kept(e, b, v, r(due, ok)) => r(due, ok).c.state = "OPEN"
  BY <1>6, <1>8 DEF Kept
<1>10. ConnOK(r(due, ok).c)
  BY <1>4, HandleDataType DEF ResultOK
<1> HIDE DEF c, v
<1>11. EndOK(e, b, v)
  <2> HIDE DEF b
  <2>1. c.state \in {"SYN_RCVD", "OPEN"}
    BY <1>8
  <2> QED
    BY <1>2, <1>4, <1>5, <2>1, EndAcked
<1>12. Kept(e, b, v, r(due, ok))
  BY <1>4, <1>8, <1>11, KeptHandleData
<1> HIDE DEF b, r
<1>13. Later(c, v.g, b, v.g)
  <2>1. Has(b, v.g) = Has(c, v.g) /\ \A n : HasMsg(b, v.g, n) <=> HasMsg(c, v.g, n)
    BY <1>6 DEF Has, HasMsg
  <2> QED
    BY <1>4, <2>1, LaterSame DEF ContextOK
<1>14. Kept(e, c, v, r(due, ok))
  BY <1>4, <1>6, <1>7, <1>8, <1>10, <1>12, <1>13, KeptThen
<1> QED
  BY <1>1, <1>3, <1>14, AgreeHandled DEF c, v

\* The acknowledgement that completes the handshake, which may carry data.
LEMMA HandshakeDoneAgree ==
  ASSUME NewIss, Ample, TypeOK, TypeOK', SlotInv, Agree, NEW e \in Endpoint, NEW p,
         HandshakeDone(e, p)
  PROVE Agree'
<1>1. /\ Arrives(e, p) /\ Target(e).state = "SYN_RCVD" /\ ~BadFlags(p)
      /\ UNCHANGED <<picks, sent, got>>
  BY DEF HandshakeDone, Acceptable, Receives, histVars
<1>2. Target(e) = conn[e] /\ conn[e].state = "SYN_RCVD" /\ "ACK" \in p.flags /\ "SYN" \notin p.flags
  BY <1>1, ArrivesAgree DEF BadFlags
<1>3. e = Server /\ Peer(e) = Client
  BY <1>2 DEF Agree, Opening, Endpoint, Peer, Client, Server
<1> DEFINE c == conn[e]
           v == Context(e)
           a == Opened(c)
           b == [a EXCEPT !.una = Plus(p.ack, 1)]
           r(due, ok) == HandleData(a, p, due, ok)
<1>4. PICK ok \in BOOLEAN, due \in BOOLEAN :
        HandledThen(e, p, r(due, ok), ok,
          IF r(due, ok).c.cur # a.cur /\ NextStored(r(due, ok).c) # {} THEN "flush" ELSE "idle")
  BY <1>2 DEF HandshakeDone, HandledData
<1>5. /\ p \in Segment /\ ConnOK(c) /\ ContextOK(v) /\ EndOK(e, c, v)
      /\ SaidOK(Peer(e), p, v.q, v.d, v.h) /\ v.g = got[e] /\ v.s = sent[e]
  BY <1>1, ArrivesAgree DEF Context
<1>6. /\ b.state = "OPEN" /\ b.rx = c.rx /\ b.rxq = c.rxq /\ a.state = "OPEN"
      /\ Acknowledged(c, p, b)
  BY <1>5 DEF Acknowledged, Opened, ConnOK, Conn
<1>7. ConnOK(a) /\ ConnOK(b)
  <2>1. Plus(p.ack, 1) \in SeqNr
    BY <1>5, PlusType DEF Segment, SeqNr
  <2> QED
    BY <1>5, <2>1 DEF Opened, ConnOK, Conn, RdpStates
<1>8. c.state = "SYN_RCVD"
  BY <1>2
<1>9. conn[Client].state = "OPEN"
  BY <1>2, <1>3, <1>5 DEF SaidOK, Context
<1>10. ConnOK(r(due, ok).c)
  BY <1>5, <1>7, HandleDataType DEF ResultOK
<1> HIDE DEF c, v
<1>11. EndOK(e, b, v)
  <2> HIDE DEF b
  <2>1. c.state \in {"SYN_RCVD", "OPEN"}
    BY <1>8
  <2> QED
    BY <1>2, <1>5, <1>6, <2>1, EndAcked
<1>12. Kept(e, b, v, r(due, ok))
  <2> HIDE DEF a
  <2> QED
    BY <1>5, <1>6, <1>7, <1>11, KeptHandleData
<1> HIDE DEF a, b, r
<1>13. Later(c, v.g, b, v.g)
  <2>1. Has(b, v.g) = Has(c, v.g) /\ \A n : HasMsg(b, v.g, n) <=> HasMsg(c, v.g, n)
    BY <1>6 DEF Has, HasMsg
  <2> QED
    BY <1>5, <2>1, LaterSame DEF ContextOK
<1>14. Later(c, v.g, r(due, ok).c, v.g) /\ r(due, ok).c.state = "OPEN"
  <2>1. Has(c, v.g) \in Nat /\ Has(b, v.g) \in Nat /\ Has(r(due, ok).c, v.g) \in Nat
    BY <1>5, <1>7, <1>10, HasType DEF ContextOK
  <2> QED
    BY <1>6, <1>12, <1>13, <2>1 DEF Kept, Later
<1>15. Opening'
  <2>1. conn'[Client] = conn[Client] /\ conn'[Server].state = "OPEN" /\ user' = user
    BY <1>3, <1>4, <1>14 DEF HandledThen, TypeOK, Client, Server, Endpoint
  <2> QED
    BY <1>9, <2>1 DEF Agree, Opening
<1> DEFINE n == picks[e]
<1>16. /\ n \in Nat /\ picks' = [picks EXCEPT ![e] = n] /\ v = ContextOf(e, n, sent[e], got[e])
  BY <1>1 DEF TypeOK, v, Context, ContextOf
<1>17. /\ EndOK(e, r(due, ok).c, v)
       /\ \A x \in r(due, ok).out : SaidOK(e, x, sent[e], r(due, ok).c, got[e])
       /\ Later(conn[e], got[e], r(due, ok).c, got[e])
  BY <1>5, <1>12, <1>14 DEF Kept, c
<1> HIDE DEF n
<1> QED
  BY <1>1, <1>4, <1>14, <1>15, <1>16, <1>17, AgreeTurned

\* An end that has not got anything yet.
LEMMA LaterEmpty ==
  ASSUME NEW c, ConnOK(c), NEW g \in Seq(Payload), Has(c, g) = 0, c.rxq = {},
         NEW d, ConnOK(d), NEW h \in Seq(Payload)
  PROVE Later(c, g, d, h)
<1>1. Has(d, h) \in Nat
  BY HasType
<1> QED
  BY <1>1 DEF Later, HasMsg

\* A user that has got nothing.
LEMMA HasNothing ==
  ASSUME NEW c, NEW g, g = <<>>, c.rx = <<>> PROVE Has(c, g) = 0 /\ InTurn(g, c.rx)
  BY DEF Has, InTurn

\* Counting from the initial number.
LEMMA FirstNr ==
  ASSUME NewIss, NEW e \in Endpoint
  PROVE Plus(IssOf[e][1], 1) = Nr(e, 1) /\ Nr(e, 0) = IssOf[e][1]
  BY NrType DEF Nr

\* The connection the SYN begins.
LEMMA EndBegins ==
  ASSUME NewIss, NEW c, NEW v, ContextOK(v), v.n = 1, v.s = 0, v.g = <<>>, v.q \in Nat,
         v.q <= MsgLimit[Client], 1 <= Len(IssOf[Server]), c.state = "SYN_RCVD",
         c.iss = IssOf[Server][1], c.nxt = Plus(c.iss, 1), c.cur = IssOf[Client][1],
         c.irs = IssOf[Client][1], c.txq = {}, c.rxq = {}, c.rx = <<>>
  PROVE EndOK(Server, c, v)
<1>1. Client \in Endpoint /\ Server \in Endpoint /\ Peer(Server) = Client
  BY DEF Endpoint, Peer, Client, Server
<1>2. Has(c, v.g) = 0 /\ InTurn(v.g, c.rx)
  BY HasNothing
<1>3. /\ c.nxt = Nr(Server, 0 + 1) /\ c.cur = Nr(Client, 0)
      /\ MsgLimit[Server] \in Nat
  BY <1>1, FirstNr, IssType
<1>4. Own(Server, c, v.n, v.s, v.g, v.q)
  BY <1>1, <1>2, <1>3 DEF Own
<1>5. Has(v.d, v.h) \in Nat /\ Window \in Nat
  BY HasType, SizeAssumption DEF ContextOK
<1>6. Across(Server, c, v.s, v.d, v.h)
  BY <1>5 DEF Across
<1> QED
  BY <1>4, <1>6 DEF EndOK

\* A SYN for the listening socket.
LEMMA SynInClosedAgree ==
  ASSUME NewIss, TypeOK, TypeOK', SlotInv, Agree, NEW e \in Endpoint, NEW p, SynInClosed(e, p)
  PROVE Agree'
<1>1. /\ Arrives(e, p) /\ "SYN" \in p.flags /\ Target(e).state = "CLOSED" /\ CanPick(e)
      /\ picks' = [picks EXCEPT ![e] = @ + 1] /\ sent' = [sent EXCEPT ![e] = 0]
      /\ got' = [got EXCEPT ![e] = <<>>]
  BY DEF SynInClosed, Receives
<1>2. /\ e = Server /\ conn[e].state = "CLOSED" /\ Target(e) = NewConn(conn[e], TRUE)
      /\ p \in Segment /\ ConnOK(conn[e]) /\ Peer(e) = Client /\ Peer(Client) = e
      /\ EndOK(e, conn[e], Context(e)) /\ Client \in Endpoint /\ Server # Client
      /\ SaidOK(Client, p, sent[Client], conn[Client], got[Client])
  <2>1. e = Server /\ Peer(e) = Client /\ Client \in Endpoint /\ Server # Client
    BY <1>1, ArrivesAgree DEF Peer, Endpoint, Server, Client
  <2> QED
    BY <1>1, <2>1, ArrivesAgree
<1>3. picks[e] = 0 /\ sent[e] = 0 /\ got[e] = <<>> /\ conn[e].rx = <<>>
      /\ conn[e].rxq = {} /\ conn[e].txq = {}
  BY <1>2 DEF EndOK, Own, Context
<1>4. /\ conn[Client].state # "CLOSED" /\ p.seq = IssOf[Client][1]
      /\ conn[Client].state \in {"SYN_SENT", "OPEN"}
  BY <1>1, <1>2 DEF SaidOK, Said, Agree, Opening
<1> DEFINE c == [Target(e) EXCEPT
                   !.iss = Pick(e), !.nxt = Plus(Pick(e), 1), !.una = Pick(e),
                   !.cur = p.seq, !.irs = p.seq, !.lsa = p.seq, !.state = "SYN_RCVD"]
           r(ok, cloned) == SendSynAck(c, cloned, ok)
<1>5. PICK ok \in BOOLEAN, cloned \in BOOLEAN : HandledThen(e, p, r(ok, cloned), ok, "idle")
  BY DEF SynInClosed, Handled
<1>6. Pick(e) = IssOf[Server][1] /\ 1 <= Len(IssOf[Server]) /\ Pick(e) \in SeqNr
  <2>1. Pick(e) = IssOf[Server][1] /\ 0 < Len(IssOf[Server])
    BY <1>1, <1>2, <1>3 DEF CanPick, Pick
  <2>2. Len(IssOf[Server]) \in Nat
    BY <1>2, IssAssumption
  <2>3. 1 <= Len(IssOf[Server])
    BY <2>1, <2>2
  <2> QED
    BY <1>1, <2>1, <2>3, PickType
<1>7. ConnOK(c)
  <2>1. Plus(Pick(e), 1) \in SeqNr /\ p.seq \in SeqNr /\ ConnOK(Target(e))
    <3>1. Pick(e) \in Int
      BY <1>6 DEF SeqNr
    <3>2. p.seq \in SeqNr
      BY <1>2 DEF Segment
    <3>3. ConnOK(Target(e))
      BY <1>1, ArrivesType
    <3> QED
      BY <3>1, <3>2, <3>3, PlusType
  <2> QED
    BY <1>6, <2>1 DEF ConnOK, Conn, RdpStates
<1>8. /\ c.state = "SYN_RCVD" /\ c.iss = IssOf[Server][1] /\ c.nxt = Plus(c.iss, 1)
      /\ c.cur = IssOf[Client][1] /\ c.irs = IssOf[Client][1]
      /\ c.txq = {} /\ c.rxq = {} /\ c.rx = <<>>
  BY <1>2, <1>3, <1>4, <1>6 DEF NewConn, ConnOK, Conn
<1> HIDE DEF c
<1> DEFINE g == got[e]
           v == ContextOf(e, 1, sent[e], g)
<1>9. /\ v.n = 1 /\ v.s = 0 /\ v.g = <<>> /\ v.q = sent[Client] /\ g = <<>>
      /\ v.g = g /\ v.s = sent[e]
  BY <1>2, <1>3 DEF ContextOf
<1>10. ContextOK(v) /\ sent[Client] \in Nat /\ sent[Client] <= MsgLimit[Client] /\ g \in Seq(Payload)
  <2>1. 1 \in Nat /\ sent[e] \in Nat /\ g \in Seq(Payload) /\ sent[Client] \in Nat
    BY <1>2 DEF TypeOK
  <2>2. EndOK(Client, conn[Client], Context(Client))
    BY <1>2 DEF Agree
  <2>3. sent[Client] <= MsgLimit[Client]
    BY <2>2 DEF EndOK, Own, Context
  <2> QED
    BY <2>1, <2>3, ContextType
<1> HIDE DEF v
<1>11. EndOK(Server, c, v)
  BY <1>6, <1>8, <1>9, <1>10, EndBegins
<1>12. Kept(Server, c, v, r(ok, cloned)) /\ ConnOK(r(ok, cloned).c)
  BY <1>7, <1>8, <1>10, <1>11, KeptSendSynAck, SendSynAckType DEF ResultOK
<1> HIDE DEF r
<1>13. Later(conn[e], g, r(ok, cloned).c, g)
  BY <1>2, <1>3, <1>9, <1>10, <1>12, HasNothing, LaterEmpty
<1>14. r(ok, cloned).c.state = "SYN_RCVD"
  BY <1>8, <1>12 DEF Kept
<1>15. Opening'
  <2>1. conn'[Client] = conn[Client] /\ conn'[Server].state = "SYN_RCVD" /\ user' = user
    BY <1>2, <1>5, <1>14 DEF HandledThen, TypeOK
  <2> QED
    BY <1>4, <2>1 DEF Agree, Opening
<1>16. /\ picks' = [picks EXCEPT ![e] = 1] /\ sent' = sent /\ got' = got /\ 1 \in Nat
  BY <1>1, <1>3 DEF TypeOK
<1>17. /\ EndOK(e, r(ok, cloned).c, ContextOf(e, 1, sent[e], got[e]))
       /\ \A x \in r(ok, cloned).out : SaidOK(e, x, sent[e], r(ok, cloned).c, got[e])
       /\ Later(conn[e], got[e], r(ok, cloned).c, got[e])
  BY <1>2, <1>9, <1>12, <1>13 DEF Kept, v, g
<1> QED
  BY <1>2, <1>5, <1>14, <1>15, <1>16, <1>17, AgreeTurned

\* The SYN/ACK opens the connection of the client.
LEMMA SynAckInSynSentAgree ==
  ASSUME NewIss, TypeOK, TypeOK', SlotInv, Agree, NEW e \in Endpoint, NEW p,
         SynAckInSynSent(e, p)
  PROVE Agree'
<1>1. /\ Arrives(e, p) /\ {"SYN", "ACK"} \subseteq p.flags /\ Target(e).state = "SYN_SENT"
      /\ UNCHANGED <<picks, sent, got>>
  BY DEF SynAckInSynSent, Receives, Quiet, histVars
<1>2. Target(e) = conn[e] /\ conn[e].state = "SYN_SENT"
  BY <1>1, ArrivesAgree
<1>3. e = Client /\ Peer(e) = Server /\ Server # Client
  BY <1>2 DEF Agree, Opening, Endpoint, Peer, Client, Server
<1> DEFINE c == conn[e]
           v == Context(e)
           b == [c EXCEPT !.cur = p.seq, !.irs = p.seq, !.lsa = (p.seq - 1) % SeqMod,
                          !.una = Plus(p.ack, 1), !.state = "OPEN", !.sem = TRUE]
           r(ok) == SendCmp(b, Cmp({"ACK"}, b.nxt, b.cur), ok)
<1>4. PICK ok \in BOOLEAN : HandledThen(e, p, r(ok), ok, "idle")
  BY <1>2 DEF SynAckInSynSent, Handled
<1>5. /\ p \in Segment /\ ConnOK(c) /\ ContextOK(v) /\ EndOK(e, c, v) /\ Peer(e) \in Endpoint
      /\ SaidOK(Peer(e), p, v.q, v.d, v.h) /\ v.g = got[e] /\ v.s = sent[e] /\ v.d = conn[Server]
  BY <1>1, <1>3, ArrivesAgree DEF Context
<1>6. /\ b.state = "OPEN" /\ b.iss = c.iss /\ b.nxt = c.nxt /\ b.una = Plus(p.ack, 1)
      /\ b.cur = p.seq /\ b.irs = p.seq /\ b.txq = c.txq /\ b.rxq = c.rxq /\ b.rx = c.rx
  BY <1>5 DEF ConnOK, Conn
<1>7. ConnOK(b)
  <2>1. Plus(p.ack, 1) \in SeqNr /\ (p.seq - 1) % SeqMod \in SeqNr /\ p.seq \in SeqNr
    BY <1>5, PlusType, MinusType DEF Segment, SeqNr
  <2> QED
    BY <1>5, <2>1 DEF ConnOK, Conn, RdpStates
<1>8. c.state = "SYN_SENT" /\ conn[Server].state \in {"SYN_RCVD", "OPEN"}
  BY <1>2, <1>3, <1>5 DEF SaidOK, Agree, Opening
<1>9. v.g \in Seq(Payload) /\ v.g = <<>> /\ c.rx = <<>> /\ c.rxq = {} /\ v.s = 0
  BY <1>5, <1>8 DEF EndOK, Own, ContextOK
<1>10. p.seq = IssOf[Server][1]
  BY <1>1, <1>3, <1>5 DEF SaidOK, Said
<1> HIDE DEF c, v, b
<1>11. Has(b, v.g) = 0 /\ Has(c, v.g) = 0
  BY <1>6, <1>9, HasNothing
<1>12. \E j \in 0..Has(v.d, v.h) : b.una = Nr(e, j + 1)
  BY <1>1, <1>5, <1>6, AckedIs
<1>13. EndOK(e, b, v)
  <2>1. b.cur = Nr(Peer(e), 0)
    BY <1>3, <1>5, <1>6, <1>10, FirstNr
  <2>2. Own(e, b, v.n, v.s, v.g, v.q)
    BY <1>3, <1>5, <1>6, <1>8, <1>9, <1>10, <1>11, <2>1 DEF EndOK, Own
  <2>3. Across(e, b, v.s, v.d, v.h)
    BY <1>5, <1>6, <1>12 DEF EndOK, Across
  <2> QED
    BY <2>2, <2>3 DEF EndOK
<1>14. Kept(e, b, v, r(ok))
  BY <1>5, <1>6, <1>7, <1>13, OwnAck, KeptSendCmp
<1>15. ConnOK(r(ok).c)
  BY <1>7, SendOwnType DEF ResultOK
<1> HIDE DEF r
<1>16. Later(c, v.g, r(ok).c, v.g)
  BY <1>5, <1>9, <1>11, <1>15, LaterEmpty
<1>17. r(ok).c.state = "OPEN"
  BY <1>6, <1>14 DEF Kept
<1>18. Opening'
  <2>1. conn'[Server] = conn[Server] /\ conn'[Client].state = "OPEN" /\ user' = user
    BY <1>3, <1>4, <1>17 DEF HandledThen, TypeOK
  <2> QED
    BY <1>8, <2>1 DEF Agree, Opening
<1> DEFINE n == picks[e]
<1>19. /\ n \in Nat /\ picks' = [picks EXCEPT ![e] = n] /\ v = ContextOf(e, n, sent[e], got[e])
  BY <1>1 DEF TypeOK, v, Context, ContextOf
<1>20. /\ EndOK(e, r(ok).c, v)
       /\ \A x \in r(ok).out : SaidOK(e, x, sent[e], r(ok).c, got[e])
       /\ Later(conn[e], got[e], r(ok).c, got[e])
  BY <1>5, <1>14, <1>16 DEF Kept, c
<1> HIDE DEF n
<1> QED
  BY <1>1, <1>4, <1>17, <1>18, <1>19, <1>20, <1>2, AgreeTurned

\* What agrees in this state, with the types that the lemmas ask for.
LEMMA EndAgrees ==
  ASSUME TypeOK, Agree, NEW e \in Endpoint
  PROVE /\ ConnOK(conn[e]) /\ ContextOK(Context(e)) /\ EndOK(e, conn[e], Context(e))
        /\ Context(e) = ContextOf(e, picks[e], sent[e], got[e])
        /\ Peer(e) \in Endpoint /\ Peer(Peer(e)) = e
<1>1. 0 \in Nat /\ <<>> \in Seq(Payload)
  OBVIOUS
<1> QED
  BY <1>1, ContextType DEF Agree

\* Only the semaphore, or what the agreement is not about, changes.
LEMMA KeptView ==
  ASSUME TypeOK, Agree, NEW e \in Endpoint, NEW d, View(d) = View(conn[e]),
         conn[e].state = "SYN_SENT" => d.sem = conn[e].sem
  PROVE Kept(e, conn[e], Context(e), Result(d, {}))
<1> DEFINE c == conn[e]
           v == Context(e)
           g == v.g
<1>1. ConnOK(c) /\ EndOK(e, c, v) /\ g \in Seq(Payload) /\ View(d) = View(c)
  BY EndAgrees DEF ContextOK
<1> HIDE DEF c, v, g
<1>2. EndOK(e, d, v) /\ Has(d, g) = Has(c, g) /\ \A n : HasMsg(d, g, n) <=> HasMsg(c, g, n)
  BY <1>1, EndOfView
<1>3. Later(c, g, d, g)
  BY <1>1, <1>2, LaterSame
<1>4. d.state = c.state
  BY <1>1 DEF View
<1> QED
  BY <1>2, <1>3, <1>4 DEF Kept, Result, c, v, g

\* A step of a user task or of a timer that leaves what both ends have.
LEMMA AgreeView ==
  ASSUME TypeOK, TypeOK', Agree, NEW e \in Endpoint, NEW d, View(d) = View(conn[e]),
         conn[e].state = "SYN_SENT" => d.sem = conn[e].sem, conn' = [conn EXCEPT ![e] = d],
         UNCHANGED <<picks, sent, got, net>>,
         \A f \in Endpoint : user'[f] = "sending" => user[f] = "sending" /\ hand'[f] = hand[f],
         user[Client] = "none" => user'[Client] = "none"
  PROVE Agree'
<1> DEFINE r == Result(d, {})
<1>1. Kept(e, conn[e], Context(e), r) /\ conn' = [conn EXCEPT ![e] = r.c] /\ NewFrom(e, r.out)
  BY KeptView DEF Result, NewFrom
<1> HIDE DEF r
<1> QED
  BY <1>1, AgreeKept

\* csp_rdp_connect and csp_accept after the SYN has been sent.
LEMMA OpenedAgree ==
  ASSUME TypeOK, TypeOK', Agree, ConnectOpened \/ Accept
  PROVE Agree'
<1>1. CASE ConnectOpened
  <2> DEFINE d == [conn[Client] EXCEPT !.sem = FALSE]
  <2>1. Client \in Endpoint /\ ConnOK(conn[Client])
    BY EndAgrees DEF Endpoint
  <2>2. View(d) = View(conn[Client]) /\ conn[Client].state # "SYN_SENT"
    BY <1>1, <2>1 DEF ConnectOpened, View, ConnOK, Conn
  <2>3. conn' = [conn EXCEPT ![Client] = d]
    BY <1>1 DEF ConnectOpened
  <2> HIDE DEF d
  <2>4. /\ UNCHANGED <<picks, sent, got, net>> /\ user[Client] # "none"
        /\ \A f \in Endpoint : user'[f] = "sending" => user[f] = "sending" /\ hand'[f] = hand[f]
    BY <1>1 DEF ConnectOpened, TypeOK, envVars, histVars
  <2> QED
    BY <2>1, <2>2, <2>3, <2>4, AgreeView
<1>2. CASE Accept
  <2>1. /\ UNCHANGED <<conn, picks, sent, got>> /\ net' \subseteq net /\ Client # Server
        /\ \A f \in Endpoint : user'[f] = "sending" => user[f] = "sending" /\ hand'[f] = hand[f]
    BY <1>2 DEF Accept, TypeOK, envVars, Client, Server
  <2>2. user[Client] = "none" => user'[Client] = "none"
    BY <1>2, <2>1 DEF Accept, TypeOK, Endpoint
  <2> QED
    BY <2>1, <2>2, AgreeSame
<1> QED
  BY <1>1, <1>2

\* Nothing refuses the connection while the ends agree.
LEMMA NeverRefused ==
  ASSUME Stays, TypeOK, Agree
  PROVE ~ConnectRetry /\ ~ConnectRefused /\ ~ConnectTimeout
  BY DEF Stays, Agree, Opening, ConnectRetry, ConnectRefused, ConnectTimeout

\* csp_rdp_check_timeouts.
LEMMA CheckTimeoutsAgree ==
  ASSUME Stays, NewIss, Ample, TypeOK, TypeOK', SlotInv, Agree, NEW e \in Endpoint, CheckTimeouts(e)
  PROVE Agree'
<1>1. CASE CheckNothing(e)
  BY <1>1, AgreeSame DEF CheckNothing, RouterUnchanged, histVars
<1>2. CASE CheckMessages(e)
  <2>1. PICK ok \in BOOLEAN, due \in BOOLEAN, expired \in SUBSET Unacked(conn[e]) :
          Checked(e, Retransmitted(conn[e], expired, due, ok), ok)
    BY <1>2 DEF CheckMessages
  <2>2. conn[e].state \in {"SYN_SENT", "SYN_RCVD", "OPEN"} /\ (conn[e].state = "SYN_SENT" => e = Client)
    BY <1>2 DEF CheckMessages, SlotInv, SlotOK, Agree, Opening, Endpoint
  <2> DEFINE r == Retransmitted(conn[e], expired, due, ok)
  <2>3. Kept(e, conn[e], Context(e), r)
    BY <2>2, EndAgrees, KeptRetransmitted
  <2> HIDE DEF r
  <2>4. NewFrom(e, r.out) /\ conn' = [conn EXCEPT ![e] = r.c]
        /\ UNCHANGED <<picks, sent, got, user, hand>>
    BY <2>1, TransmitData DEF Checked, RouterUnchanged, histVars, r
  <2> QED
    BY <2>3, <2>4, AgreeKept
<1> QED
  BY <1>1, <1>2 DEF CheckTimeouts, LostConnection, CloseWaitTimeout, Stays

\* csp_rdp_rx_queue_flush.
LEMMA FlushNextAgree ==
  ASSUME NewIss, Ample, TypeOK, TypeOK', Agree, FlushFindsRoom, NEW e \in Endpoint, FlushNext(e)
  PROVE Agree'
<1>1. PICK x \in NextStored(conn[e]) : conn' = [conn EXCEPT ![e] = FlushOne(conn[e], x)]
  BY DEF FlushNext
<1>2. HasRoom(conn[e])
  BY DEF FlushFindsRoom, FlushNext
<1> DEFINE d == FlushOne(conn[e], x)
           r == Result(d, {})
           v == Context(e)
<1>3. v = Context(e)
  OBVIOUS
<1> HIDE DEF d, v
<1>4. /\ EndOK(e, d, v) /\ d.state = conn[e].state /\ conn[e].state = "OPEN"
      /\ Later(conn[e], v.g, d, v.g)
  BY <1>2, <1>3, EndAgrees, KeptFlushOne DEF d
<1>5. Kept(e, conn[e], v, r) /\ conn' = [conn EXCEPT ![e] = r.c] /\ NewFrom(e, r.out)
  BY <1>1, <1>4 DEF Kept, Result, NewFrom, FlushNext, d
<1> HIDE DEF r
<1>6. UNCHANGED <<picks, sent, got, user, hand>>
  BY DEF FlushNext, envVars, histVars
<1> QED
  BY <1>3, <1>5, <1>6, AgreeKept

\* csp_send that waits, fails or hands its segment to the interface.
LEMMA PlainUserAgree ==
  ASSUME TypeOK, TypeOK', Agree, NEW e \in Endpoint,
         SendBlocks(e) \/ SendWakes(e) \/ SendNoBufs(e) \/ SendOut(e)
  PROVE Agree'
<1>1. CASE SendBlocks(e)
  <2>1. /\ UNCHANGED <<conn, picks, sent, got>> /\ net' \subseteq net
        /\ \A f \in Endpoint : user'[f] = "sending" => user[f] = "sending" /\ hand'[f] = hand[f]
        /\ user[e] = "ready" /\ user' = [user EXCEPT ![e] = "waiting"]
    BY <1>1 DEF SendBlocks, TypeOK, envVars, histVars
  <2>2. user[Client] = "none" => user'[Client] = "none"
    BY <2>1 DEF TypeOK, Endpoint
  <2> QED
    BY <2>1, <2>2, AgreeSame
<1>2. CASE SendWakes(e) \/ SendNoBufs(e)
  <2>1. PICK b : conn' = [conn EXCEPT ![e] = [conn[e] EXCEPT !.sem = b]]
    BY <1>2 DEF SendWakes, SendNoBufs
  <2> DEFINE a == [conn[e] EXCEPT !.sem = b]
  <2>2. ConnOK(conn[e]) /\ View(a) = View(conn[e])
    BY EndAgrees DEF View, ConnOK, Conn
  <2>3. conn[e].state # "SYN_SENT"
    BY <1>2 DEF SendWakes, SendNoBufs, Agree, Opening, Endpoint
  <2>4. conn' = [conn EXCEPT ![e] = a]
    BY <2>1
  <2> HIDE DEF a
  <2>5. /\ UNCHANGED <<picks, sent, got, net, hand>> /\ user[e] # "none"
        /\ user' = user \/ user' = [user EXCEPT ![e] = "ready"]
    BY <1>2 DEF SendWakes, SendNoBufs, envVars, histVars
  <2>6. /\ \A f \in Endpoint : user'[f] = "sending" => user[f] = "sending" /\ hand'[f] = hand[f]
        /\ user[Client] = "none" => user'[Client] = "none"
    BY <2>5 DEF TypeOK, Endpoint
  <2> QED
    BY <2>2, <2>3, <2>4, <2>5, <2>6, AgreeView
<1>3. CASE SendOut(e)
  <2>1. PICK out : (out = {} \/ out = {hand[e]}) /\ NewFrom(e, out)
    BY <1>3, TransmitData DEF SendOut
  <2> DEFINE r == Result(conn[e], out)
  <2>2. Kept(e, conn[e], Context(e), Result(conn[e], {}))
    BY EndAgrees, KeptStill
  <2>3. SaidOK(e, hand[e], sent[e], conn[e], got[e])
    BY <1>3 DEF SendOut, Agree
  <2>4. Kept(e, conn[e], Context(e), r)
    BY <2>1, <2>2, <2>3 DEF Kept, Result, Context
  <2>5. conn' = [conn EXCEPT ![e] = r.c] /\ NewFrom(e, r.out)
    BY <1>3, <2>1 DEF SendOut, Result, TypeOK
  <2> HIDE DEF r
  <2>6. /\ UNCHANGED <<picks, sent, got>> /\ user[e] # "none"
        /\ \A f \in Endpoint : user'[f] = "sending" => user[f] = "sending" /\ hand'[f] = hand[f]
    BY <1>3 DEF SendOut, TypeOK
  <2>7. user[Client] = "none" => user'[Client] = "none"
    BY <1>3 DEF SendOut, TypeOK, Endpoint
  <2> QED
    BY <2>4, <2>5, <2>6, <2>7, AgreeKept
<1> QED
  BY <1>1, <1>2, <1>3

\* Connection b is c after csp_rdp_send has queued a copy of seg.
Queued(c, seg, b) ==
  /\ b.state = c.state /\ b.iss = c.iss /\ b.nxt = Plus(c.nxt, 1) /\ b.una = c.una
  /\ b.cur = c.cur /\ b.irs = c.irs /\ b.txq = TxQueued(c.txq, seg) /\ b.rxq = c.rxq
  /\ b.rx = c.rx

\* The context of an end that has sent s messages and whose user has read g.
Moved(v, w, s, g) ==
  w.n = v.n /\ w.s = s /\ w.g = g /\ w.q = v.q /\ w.d = v.d /\ w.h = v.h

\* An end accepts its next message, which is in the window of its peer, and
\* keeps a copy of it.
LEMMA EndSends ==
  ASSUME NewIss, Ample, NEW e \in Endpoint, NEW c, ConnOK(c), NEW v, ContextOK(v), EndOK(e, c, v),
         Has(v.d, v.h) <= v.s, c.state = "OPEN", ReadyForTx(c), v.s < MsgLimit[e],
         NEW seg \in Segment,
         seg = [Cmp({"ACK"}, c.nxt, c.cur) EXCEPT !.data = <<1, v.s + 1>>],
         NEW w, Moved(v, w, v.s + 1, v.g), NEW b, Queued(c, seg, b)
  PROVE /\ EndOK(e, b, w) /\ b.state = "OPEN" /\ Later(c, v.g, b, v.g)
        /\ SaidOK(e, seg, v.s + 1, b, v.g)
<1> DEFINE s == v.s
           i == Has(v.d, v.h)
           g == v.g
           stored == [seg EXCEPT !.ack = 0]
<1>1. s \in Nat /\ i \in Nat /\ g \in Seq(Payload) /\ i <= s /\ s < MsgLimit[e]
      /\ Has(c, g) \in Nat /\ Window \in Nat /\ MsgLimit[e] \in Nat
  BY HasType, SizeAssumption, Few DEF ContextOK
<1>2. /\ w.n = v.n /\ w.s = s + 1 /\ w.g = g /\ w.q = v.q /\ w.d = v.d /\ w.h = v.h
  BY DEF Moved
<1>3. /\ b.state = c.state /\ b.iss = c.iss /\ b.nxt = Plus(c.nxt, 1) /\ b.una = c.una
      /\ b.cur = c.cur /\ b.irs = c.irs /\ b.txq = TxQueued(c.txq, seg) /\ b.rxq = c.rxq
      /\ b.rx = c.rx
  BY DEF Queued
<1>4. /\ seg.flags = {"ACK"} /\ seg.seq = c.nxt /\ seg.ack = c.cur /\ seg.eacks = {}
      /\ seg.data = <<1, s + 1>>
      /\ stored.flags = {"ACK"} /\ stored.seq = c.nxt /\ stored.eacks = {}
      /\ stored.data = <<1, s + 1>>
  BY DEF Cmp
<1>5. /\ \A x \in b.txq : x \in c.txq \/ x.seg = stored
      /\ c.txq \subseteq b.txq /\ \E x \in b.txq : x.seg = stored
  <2>1. PICK k : TxQueued(c.txq, seg) = c.txq \cup {[copy |-> k, seg |-> stored]}
    BY DEF TxQueued
  <2> DEFINE x == [copy |-> k, seg |-> stored]
  <2>2. b.txq = c.txq \cup {x} /\ x.seg = stored
    BY <1>3, <2>1
  <2> HIDE DEF x, stored
  <2> QED
    BY <2>2
<1> HIDE DEF stored
<1> DEFINE t == s + 1
<1>6. /\ Own(e, c, v.n, s, g, v.q) /\ Across(e, c, s, v.d, v.h)
      /\ c.nxt = Nr(e, t) /\ c.iss = IssOf[e][1]
  BY DEF EndOK, Own
<1>7. b.nxt = Nr(e, t + 1)
  <2>1. t \in Int
    BY <1>1
  <2> HIDE DEF t
  <2> QED
    BY <1>3, <1>6, <2>1, NrType
<1>8. Has(b, g) = Has(c, g) /\ \A n : HasMsg(b, g, n) <=> HasMsg(c, g, n)
  BY <1>3 DEF Has, HasMsg
<1>9. t \in 1..t /\ t <= MsgLimit[e] /\ 1..s \subseteq 1..t /\ \A n \in 1..t : n \in 1..s \/ n = t
  <2> HIDE DEF s
  <2> QED
    BY <1>1
<1>10. \A x : Said(e, x, s) => Said(e, x, t)
  BY <1>9 DEF Said
<1>11. Said(e, stored, t) /\ Said(e, seg, t)
  <2>1. \E n \in 1..t : <<1, t>> = <<1, n>> /\ c.nxt = Nr(e, n)
    BY <1>6, <1>9
  <2> HIDE DEF t
  <2>2. stored.data = <<1, t>> /\ seg.data = <<1, t>>
    BY <1>4 DEF t
  <2> QED
    BY <1>4, <2>1, <2>2 DEF Said
<1>12. \A x \in b.txq :
         Said(e, x.seg, t) /\ x.seg.eacks = {} /\ ("SYN" \notin x.seg.flags => b.state = "OPEN")
  BY <1>3, <1>4, <1>5, <1>6, <1>10, <1>11 DEF Own
<1>13. Own(e, b, v.n, t, g, v.q)
  BY <1>3, <1>6, <1>7, <1>8, <1>9, <1>12 DEF Own
<1>14. t <= i + Window
  <2>1. PICK j \in 0..i : c.una = Nr(e, j + 1)
    BY <1>6 DEF Across
  <2> HIDE DEF s, i
  <2>2. j \in Nat /\ j <= s /\ c.nxt = Nr(e, s + 1)
    BY <1>1, <1>6, <2>1
  <2>3. s + 1 <= j + Window
    BY <1>1, <2>1, <2>2, ReadyIsInWindow
  <2> QED
    BY <1>1, <2>1, <2>2, <2>3
<1>15. \A n \in 1..t : HasMsg(v.d, v.h, n) \/ \E x \in b.txq : x.seg.data = <<1, n>>
  <2>1. \A n \in 1..s : HasMsg(v.d, v.h, n) \/ \E x \in b.txq : x.seg.data = <<1, n>>
    BY <1>5, <1>6 DEF Across
  <2>2. \E x \in b.txq : x.seg.data = <<1, t>>
    BY <1>4, <1>5
  <2> HIDE DEF t, s
  <2> QED
    BY <1>9, <2>1, <2>2
<1>16. Across(e, b, t, v.d, v.h)
  <2>1. Across(e, c, s, v.d, v.h) /\ b.state = c.state /\ b.una = c.una
    BY <1>3, <1>6
  <2> HIDE DEF t, s, i
  <2> QED
    BY <1>14, <1>15, <2>1 DEF Across, i
<1>17. EndOK(e, b, w)
  BY <1>2, <1>13, <1>16 DEF EndOK
<1>18. Later(c, g, b, g)
  BY <1>1, <1>8, LaterSame
<1>19. SaidOK(e, seg, t, b, g)
  <2>1. \E j \in 0..Has(b, g) : c.cur = Nr(Peer(e), j)
    <3>1. c.cur = Nr(Peer(e), Has(c, g))
      BY <1>6 DEF Own
    <3> HIDE DEF g
    <3> QED
      BY <1>1, <1>8, <3>1
  <2>2. Acks(e, seg, b, g)
    BY <1>4, <2>1 DEF Acks
  <2> QED
    BY <1>3, <1>11, <2>2 DEF SaidOK
<1> QED
  BY <1>3, <1>17, <1>18, <1>19

\* csp_rdp_send accepts a message.
LEMMA RdpSendAgree ==
  ASSUME NewIss, Ample, TypeOK, TypeOK', Agree, NEW e \in Endpoint, RdpSend(e)
  PROVE Agree'
<1> DEFINE c == conn[e]
           v == Context(e)
           g == got[e]
           n == picks[e]
           s == sent[e] + 1
           seg == [Cmp({"ACK"}, c.nxt, c.cur) EXCEPT !.data = <<n, s>>]
           w == [v EXCEPT !.s = v.s + 1]
           sem == c.sem /\ user[e] = "ready"
           b == [c EXCEPT !.txq = TxQueued(@, seg), !.nxt = Plus(@, 1), !.sem = sem]
           r == Result(b, {})
<1>1. /\ ConnOK(c) /\ ContextOK(v) /\ EndOK(e, c, v) /\ Peer(e) \in Endpoint /\ Peer(Peer(e)) = e
      /\ v = ContextOf(e, n, sent[e], g)
  BY EndAgrees
<1>2. c.state = "OPEN" /\ ReadyForTx(c) /\ sent[e] < MsgLimit[e] /\ user[e] # "none"
  BY DEF RdpSend
<1>3. /\ conn' = [conn EXCEPT ![e] = b] /\ hand' = [hand EXCEPT ![e] = seg]
      /\ user' = [user EXCEPT ![e] = "sending"] /\ sent' = [sent EXCEPT ![e] = s]
      /\ UNCHANGED <<net, picks, got>>
  BY <1>1 DEF RdpSend, TypeOK, envVars, ConnOK, Conn
<1>4. /\ v.n = n /\ v.s = sent[e] /\ v.g = g /\ n = 1 /\ n \in Nat /\ s \in Nat /\ sent[e] \in Nat
      /\ v.q = sent[Peer(e)] /\ v.d = conn[Peer(e)] /\ v.h = got[Peer(e)] /\ g \in Seq(Payload)
  <2>1. /\ v.n = n /\ v.s = sent[e] /\ v.g = g /\ v.q = sent[Peer(e)]
        /\ v.d = conn[Peer(e)] /\ v.h = got[Peer(e)]
    BY DEF Context
  <2>2. sent[e] \in Nat /\ got[e] \in Seq(Payload)
    BY DEF TypeOK
  <2>3. v.n = 1
    BY <1>1, <1>2 DEF EndOK, Own
  <2> HIDE DEF c, v
  <2> QED
    BY <2>1, <2>2, <2>3
<1>5. seg \in Segment /\ sem \in BOOLEAN
  <2>1. c.nxt \in SeqNr /\ c.cur \in SeqNr /\ c.sem \in BOOLEAN
    BY <1>1 DEF ConnOK, Conn
  <2>2. Cmp({"ACK"}, c.nxt, c.cur) \in Segment
    BY <2>1, CmpType
  <2>3. <<n, s>> \in Payload
    BY <1>4 DEF Payload
  <2> QED
    BY <2>1, <2>2, <2>3 DEF Segment
<1>6. Has(v.d, v.h) <= v.s
  <2>1. EndOK(Peer(e), conn[Peer(e)], Context(Peer(e)))
    BY <1>1 DEF Agree
  <2>2. Has(conn[Peer(e)], got[Peer(e)]) <= sent[e]
    BY <1>1, <2>1 DEF EndOK, Own, Context
  <2> QED
    BY <1>4, <2>2
<1>7. seg = [Cmp({"ACK"}, c.nxt, c.cur) EXCEPT !.data = <<1, v.s + 1>>] /\ v.s < MsgLimit[e]
  BY <1>2, <1>4
<1>8. w = ContextOf(e, n, s, g)
  BY <1>1, <1>4 DEF ContextOf
<1>9. sent' = [sent EXCEPT ![e] = s] /\ got' = [got EXCEPT ![e] = g]
      /\ picks' = [picks EXCEPT ![e] = n] /\ sent[e] <= s /\ s = v.s + 1
  BY <1>3, <1>4 DEF TypeOK
<1> HIDE DEF c, v, seg, sem
<1>10. /\ EndOK(e, b, w) /\ b.state = "OPEN" /\ Later(c, v.g, b, v.g)
       /\ SaidOK(e, seg, v.s + 1, b, v.g)
  <2>1. Moved(v, w, v.s + 1, v.g)
    BY <1>1 DEF Moved, ContextOK, ContextOf
  <2>2. Queued(c, seg, b) /\ c.state = "OPEN"
    BY <1>1, <1>2 DEF Queued, ConnOK, Conn
  <2> HIDE DEF b, w
  <2>3. b.state = "OPEN"
    BY <2>2 DEF Queued
  <2> QED
    BY <1>1, <1>2, <1>5, <1>6, <1>7, <2>1, <2>2, <2>3, EndSends
<1> HIDE DEF b, w
<1>11. Opening'
  <2>1. conn'[Client].state = conn[Client].state /\ conn'[Server].state = conn[Server].state
        /\ (conn[Client].state # "OPEN" => conn'[Client] = conn[Client] /\ user'[Client] = user[Client])
    BY <1>2, <1>3, <1>10 DEF TypeOK, Endpoint, c
  <2> QED
    BY <2>1 DEF Agree, Opening
<1>12. r.c = b /\ r.out = {}
  BY DEF Result
<1> HIDE DEF r
<1>13. conn' = [conn EXCEPT ![e] = r.c] /\ EndOK(e, r.c, ContextOf(e, n, s, g))
       /\ Later(conn[e], got[e], r.c, g) /\ r.c.state = "OPEN"
       /\ (\A x \in r.out : SaidOK(e, x, s, r.c, g)) /\ NewFrom(e, r.out)
  BY <1>3, <1>4, <1>8, <1>10, <1>12 DEF c, NewFrom
<1>14. HandsFrom(e, s, r.c, g)
  <2>1. \A f \in Endpoint : f # e => user'[f] = user[f] /\ hand'[f] = hand[f]
    BY <1>3 DEF TypeOK
  <2>2. hand'[e] = seg
    BY <1>3 DEF TypeOK
  <2>3. SaidOK(e, hand'[e], s, r.c, g)
    BY <1>4, <1>9, <1>10, <1>12, <2>2
  <2> QED
    BY <2>1, <2>3 DEF HandsFrom
<1> HIDE DEF n, s, g
<1> QED
  BY <1>4, <1>9, <1>11, <1>13, <1>14, AgreeStep

\* The first message of a queue that is in turn.
LEMMA InTurnRead ==
  ASSUME NEW g \in Seq(Payload), NEW q \in Seq(Payload), InTurn(g, q), q # <<>>
  PROVE /\ Head(q) = <<1, Len(g) + 1>> /\ Head(q) # Null
        /\ InTurn(Append(g, Head(q)), Tail(q)) /\ Append(g, Head(q)) \in Seq(Payload)
        /\ Len(Append(g, Head(q))) + Len(Tail(q)) = Len(g) + Len(q)
<1> DEFINE x == Head(q)
           t == Tail(q)
           r == Append(g, x)
<1>1. /\ x \in Payload /\ x = q[1] /\ t \in Seq(Payload)
      /\ Len(q) \in Nat /\ Len(q) >= 1 /\ Len(t) = Len(q) - 1
      /\ \A i \in 1..Len(t) : t[i] = q[i + 1]
  BY HeadTailProperties, EmptySeq
<1>2. /\ Len(r) = Len(g) + 1 /\ \A i \in 1..Len(g) : r[i] = g[i]
      /\ r[Len(g) + 1] = x /\ r \in Seq(Payload)
  BY <1>1, AppendProperties
<1>3. Len(g) \in Nat
  OBVIOUS
<1> HIDE DEF x, t, r
<1>4. x = <<1, Len(g) + 1>>
  BY <1>1 DEF InTurn
<1>5. x # Null
  BY <1>3, <1>4 DEF Null
<1>6. \A i \in 1..Len(r) : r[i] = <<1, i>>
  <2>1. \A i \in 1..Len(r) : i \in 1..Len(g) \/ i = Len(g) + 1
    BY <1>2, <1>3
  <2> QED
    BY <1>2, <1>4, <2>1 DEF InTurn
<1>7. \A i \in 1..Len(t) : t[i] = <<1, Len(r) + i>>
  <2> SUFFICES ASSUME NEW i \in 1..Len(t) PROVE t[i] = <<1, Len(r) + i>>
    OBVIOUS
  <2>1. i + 1 \in 1..Len(q) /\ t[i] = q[i + 1] /\ Len(g) + (i + 1) = Len(r) + i
    BY <1>1, <1>2, <1>3
  <2>2. q[i + 1] = <<1, Len(g) + (i + 1)>>
    BY <2>1 DEF InTurn
  <2> QED
    BY <2>1, <2>2
<1>8. Len(r) + Len(t) = Len(g) + Len(q)
  BY <1>1, <1>2, <1>3
<1> QED
  BY <1>2, <1>4, <1>5, <1>6, <1>7, <1>8 DEF InTurn, x, t, r

\* The user of connection c, which has read h, reads the next message.
ReadFrom(c, h, b, g) ==
  /\ b.state = c.state /\ b.iss = c.iss /\ b.nxt = c.nxt /\ b.una = c.una
  /\ b.cur = c.cur /\ b.irs = c.irs /\ b.txq = c.txq /\ b.rxq = c.rxq
  /\ b.rx = Tail(c.rx) /\ g = Append(h, Head(c.rx))

\* The same for an end that agrees, in its contexts before and after.
EndReading(e, c, v, b, g, w) ==
  /\ ConnOK(c) /\ ContextOK(v) /\ EndOK(e, c, v) /\ c.rx # <<>>
  /\ ReadFrom(c, v.g, b, g) /\ ConnOK(b) /\ Moved(v, w, v.s, g)

\* That end still agrees, and what it has is the same.
LEMMA EndReads ==
  ASSUME NEW e \in Endpoint, NEW c, NEW v, NEW b, NEW g, NEW w, EndReading(e, c, v, b, g, w)
  PROVE /\ EndOK(e, b, w) /\ Later(c, v.g, b, g) /\ g \in Seq(Payload) /\ c.state = "OPEN"
        /\ b.state = c.state /\ Head(c.rx) # Null /\ ContextOK(w)
        /\ Has(b, g) = Has(c, v.g)
<1>0. /\ ConnOK(c) /\ ContextOK(v) /\ EndOK(e, c, v) /\ c.rx # <<>>
      /\ ReadFrom(c, v.g, b, g) /\ ConnOK(b) /\ Moved(v, w, v.s, g)
  BY DEF EndReading
<1>1. /\ c.rx \in Seq(Payload) /\ v.g \in Seq(Payload) /\ InTurn(v.g, c.rx) /\ c.state = "OPEN"
  BY <1>0 DEF ContextOK, ConnOK, Conn, EndOK, Own
<1>2. /\ Head(c.rx) # Null /\ InTurn(g, Tail(c.rx)) /\ g \in Seq(Payload)
      /\ Len(g) + Len(Tail(c.rx)) = Len(v.g) + Len(c.rx) /\ Tail(c.rx) \in Seq(Payload)
  <2> DEFINE a == v.g
             q == c.rx
  <2>1. a \in Seq(Payload) /\ q \in Seq(Payload) /\ InTurn(a, q) /\ q # <<>> /\ g = Append(a, Head(q))
    BY <1>0, <1>1 DEF ReadFrom
  <2> HIDE DEF a, q
  <2>2. /\ Head(q) # Null /\ InTurn(Append(a, Head(q)), Tail(q)) /\ Append(a, Head(q)) \in Seq(Payload)
        /\ Len(Append(a, Head(q))) + Len(Tail(q)) = Len(a) + Len(q) /\ Tail(q) \in Seq(Payload)
    BY <1>0, <2>1, InTurnRead
  <2>3. /\ Head(q) # Null /\ InTurn(g, Tail(q)) /\ g \in Seq(Payload)
        /\ Len(g) + Len(Tail(q)) = Len(a) + Len(q) /\ Tail(q) \in Seq(Payload)
    BY <1>0, <2>1, <2>2
  <2> QED
    BY <1>0, <2>3 DEF a, q
<1>3. /\ b.state = c.state /\ b.iss = c.iss /\ b.nxt = c.nxt /\ b.una = c.una
      /\ b.cur = c.cur /\ b.irs = c.irs /\ b.txq = c.txq /\ b.rxq = c.rxq
      /\ b.rx = Tail(c.rx)
  BY <1>0 DEF ReadFrom
<1>4. /\ w.n = v.n /\ w.s = v.s /\ w.g = g /\ w.q = v.q /\ w.d = v.d /\ w.h = v.h
  BY <1>0 DEF Moved
<1>6. Has(b, g) = Has(c, v.g)
  BY <1>0, <1>2, <1>3 DEF Has
<1>7. \A n : HasMsg(b, g, n) <=> HasMsg(c, v.g, n)
  BY <1>0, <1>3, <1>6 DEF HasMsg
<1>8. Own(e, b, v.n, v.s, g, v.q)
  BY <1>0, <1>1, <1>2, <1>3, <1>6 DEF EndOK, Own
<1>9. Across(e, b, v.s, v.d, v.h)
  BY <1>0, <1>3 DEF EndOK, Across
<1>10. Later(c, v.g, b, g)
  <2>1. Has(c, v.g) \in Nat
    BY <1>0, <1>1, HasType
  <2>2. Has(c, v.g) <= Has(c, v.g)
    BY <1>0, <2>1
  <2>3. Has(c, v.g) <= Has(b, g)
    BY <1>0, <1>6, <2>2, Zenon
  <2> QED
    BY <1>0, <1>7, <2>3, Zenon DEF Later
<1>11. ContextOK(w)
  BY <1>0, <1>2, <1>4 DEF ContextOK
<1> QED
  BY <1>0, <1>1, <1>2, <1>3, <1>4, <1>6, <1>8, <1>9, <1>10, <1>11 DEF EndOK

\* csp_read gives the user the head of its queue.
LEMMA ReadAgree ==
  ASSUME NewIss, TypeOK, TypeOK', Agree, NEW e \in Endpoint, Read(e)
  PROVE /\ Agree' /\ Head(conn[e].rx) # Null /\ got'[e] = Append(got[e], Head(conn[e].rx))
        /\ Has(conn[e], got[e])' = Has(conn[e], got[e])
<1> DEFINE c == conn[e]
           v == Context(e)
           g == Append(got[e], Head(conn[e].rx))
           n == picks[e]
           s == sent[e]
           w == ContextOf(e, n, s, g)
           b == [c EXCEPT !.rx = Tail(@)]
           r(ok, due) == IF DelayedAcks THEN CheckAck(b, due, ok) ELSE Result(b, {})
<1>1. PICK ok \in BOOLEAN, due \in BOOLEAN :
        conn' = [conn EXCEPT ![e] = r(ok, due).c] /\ Transmit(e, {}, r(ok, due).out)
  BY DEF Read
<1>2. ConnOK(c) /\ ContextOK(v) /\ EndOK(e, c, v) /\ c.rx # <<>> /\ user[e] = "ready"
  BY EndAgrees DEF Read
<1>3. Moved(v, w, v.s, g) /\ w.s = s /\ w.g = g /\ v.g = got[e] /\ g = Append(v.g, Head(c.rx))
  BY DEF Moved, Context, ContextOf
<1>4. n \in Nat /\ s \in Nat
  BY DEF TypeOK
<1>5. /\ EndOK(e, b, w) /\ Later(c, v.g, b, g) /\ g \in Seq(Payload) /\ c.state = "OPEN"
      /\ ConnOK(b) /\ b.state = c.state /\ Head(c.rx) # Null /\ ContextOK(w)
      /\ Has(b, g) = Has(c, v.g)
  <2>1. Tail(c.rx) \in Seq(Payload)
    <3>1. c.rx \in Seq(Payload) /\ c.rx # <<>>
      BY <1>2 DEF ConnOK, Conn
    <3> HIDE DEF c
    <3> QED
      BY <3>1, HeadTailProperties
  <2>2. ConnOK(b) /\ ReadFrom(c, got[e], b, g)
    BY <1>2, <2>1 DEF ConnOK, Conn, ReadFrom
  <2> HIDE DEF b, c, v, w, g
  <2>3. ReadFrom(c, v.g, b, g)
    BY <1>3, <2>2
  <2>4. EndReading(e, c, v, b, g, w)
    BY <1>2, <1>3, <2>2, <2>3 DEF EndReading
  <2>5. /\ EndOK(e, b, w) /\ Later(c, v.g, b, g) /\ g \in Seq(Payload) /\ c.state = "OPEN"
        /\ b.state = c.state /\ Head(c.rx) # Null /\ ContextOK(w)
        /\ Has(b, g) = Has(c, v.g)
    BY <2>4, EndReads
  <2> QED
    BY <2>2, <2>5
<1>6. got' = [got EXCEPT ![e] = g] /\ UNCHANGED <<sent, picks, user, hand>>
  BY <1>5 DEF Read
<1> HIDE DEF b, c, v, w, g
<1>7. Kept(e, b, w, r(ok, due)) /\ ConnOK(r(ok, due).c)
  <2>1. Kept(e, b, w, CheckAck(b, due, ok)) /\ Kept(e, b, w, Result(b, {}))
    BY <1>5, KeptCheckAck, KeptStill
  <2>2. ConnOK(CheckAck(b, due, ok).c) /\ ConnOK(Result(b, {}).c)
    BY <1>5, CheckAckType, ResultType DEF ResultOK, Result
  <2> QED
    BY <2>1, <2>2
<1>8. Has(r(ok, due).c, g) = Has(b, g)
  <2>1. View(CheckAck(b, due, ok).c) = View(b) /\ View(Result(b, {}).c) = View(b)
    BY <1>5 DEF CheckAck, SendCmp, Result, View, ConnOK, Conn
  <2>2. View(r(ok, due).c) = View(b)
    BY <2>1
  <2> HIDE DEF r
  <2> QED
    BY <2>2, EndOfView
<1> HIDE DEF r
<1>9. Later(c, v.g, r(ok, due).c, g)
  <2>1. Has(c, v.g) \in Nat /\ Has(b, g) \in Nat /\ Has(r(ok, due).c, g) \in Nat
    BY <1>2, <1>5, <1>7, HasType DEF ContextOK
  <2> QED
    BY <1>3, <1>5, <1>7, <2>1 DEF Kept, Later
<1>10. r(ok, due).c.state = "OPEN"
  BY <1>5, <1>7 DEF Kept
<1>11. Opening'
  <2>1. conn'[Client].state = conn[Client].state /\ conn'[Server].state = conn[Server].state
        /\ (conn[Client].state # "OPEN" => conn'[Client] = conn[Client]) /\ user' = user
    BY <1>1, <1>5, <1>6, <1>10 DEF TypeOK, Endpoint, c
  <2> QED
    BY <2>1 DEF Agree, Opening
<1>12. /\ NewFrom(e, r(ok, due).out) /\ HandsFrom(e, s, r(ok, due).c, g)
       /\ picks' = [picks EXCEPT ![e] = n] /\ sent' = [sent EXCEPT ![e] = s] /\ sent[e] <= s
  <2>1. s <= s
    BY <1>4
  <2> QED
    BY <1>1, <1>6, <2>1, TransmitData DEF HandsFrom, TypeOK
<1>13. /\ EndOK(e, r(ok, due).c, ContextOf(e, n, s, g)) /\ Later(conn[e], got[e], r(ok, due).c, g)
       /\ \A x \in r(ok, due).out : SaidOK(e, x, s, r(ok, due).c, g)
  BY <1>3, <1>7, <1>9 DEF Kept, w, c
<1>14. got'[e] = g /\ conn'[e] = r(ok, due).c
  BY <1>1, <1>6 DEF TypeOK
<1>15. /\ Head(conn[e].rx) # Null /\ g = Append(got[e], Head(conn[e].rx))
       /\ Has(r(ok, due).c, g) = Has(conn[e], got[e])
  BY <1>3, <1>5, <1>8 DEF c, g
<1>16. Has(conn[e], got[e])' = Has(r(ok, due).c, g)
  BY <1>14
<1> HIDE DEF n, s
<1>17. Agree'
  BY <1>1, <1>4, <1>5, <1>6, <1>10, <1>11, <1>12, <1>13, AgreeStep
<1> QED
  BY <1>14, <1>15, <1>16, <1>17

----------------------------------------------------------------------------
\* Giving a connection up.

\* Connection c is closed, which leaves r: nothing is added to what it has,
\* except that its user is told, and the peer is sent resets.
Quits(c, r) ==
  /\ r.c.cur = c.cur /\ r.c.txq \subseteq c.txq
  /\ OnlyNull(c.rx) => OnlyNull(r.c.rx)
  /\ c.rxq = {} => r.c.rxq = {}
  /\ \A x \in r.out : x.data = NoData /\ "RST" \in x.flags

\* csp_rdp_close.
LEMMA RdpCloseQuits ==
  ASSUME NEW c, ConnOK(c), NEW by \in SUBSET ClosedByAll, NEW rst, NEW ok
  PROVE Quits(c, RdpClose(c, by, rst, ok)) /\ Shut(RdpClose(c, by, rst, ok).c)
        /\ (~rst => RdpClose(c, by, rst, ok).out = {})
<1> DEFINE entering == c.state # "CLOSE_WAIT"
           c1 == [c EXCEPT !.closedBy = ClosedBy(@, by), !.state = "CLOSE_WAIT",
                           !.sem = @ \/ entering]
           seg == Cmp({"ACK", "RST"}, c.nxt, c.cur)
           r == IF entering /\ rst THEN SendCmp(c1, seg, ok) ELSE Result(c1, {})
           z == [r.c EXCEPT !.state = "CLOSED", !.closedBy = {}]
           q == RdpClose(c, by, rst, ok)
<1>1. /\ c1.state = "CLOSE_WAIT" /\ c1.txq = c.txq /\ c1.cur = c.cur /\ c1.rxq = c.rxq
      /\ c1.rx = c.rx /\ ConnOK(c1)
  BY DEF ClosedBy, ConnOK, Conn, RdpStates
<1>2. seg.data = NoData /\ seg \in Segment /\ "RST" \in seg.flags
  BY CmpType DEF Cmp, ConnOK, Conn
<1> HIDE DEF c1, seg
<1>3. /\ r.c.state = "CLOSE_WAIT" /\ r.c.txq = c.txq /\ r.c.cur = c.cur /\ r.c.rxq = c.rxq
      /\ r.c.rx = c.rx /\ r.out \subseteq {seg} /\ (~rst => r.out = {}) /\ r.c \in Conn
  <2> DEFINE s == SendCmp(c1, seg, ok)
             u == Result(c1, {})
  <2>1. /\ s.c.state = "CLOSE_WAIT" /\ s.c.txq = c.txq /\ s.c.cur = c.cur /\ s.c.rxq = c.rxq
        /\ s.c.rx = c.rx /\ s.out \subseteq {seg}
    BY <1>1 DEF SendCmp, Result, ConnOK, Conn
  <2>2. s.c \in Conn
    BY <1>1, <1>2, SendCmpType DEF ResultOK, ConnOK
  <2>3. u.c = c1 /\ u.out = {}
    BY DEF Result
  <2> HIDE DEF s, u
  <2>4. (r = s /\ rst) \/ r = u
    BY DEF s, u
  <2> QED
    BY <1>1, <2>1, <2>2, <2>3, <2>4 DEF ConnOK
<1> HIDE DEF r
<1>4. /\ z.state = "CLOSED" /\ z.txq = c.txq /\ z.cur = c.cur /\ z.rxq = c.rxq /\ z.rx = c.rx
  BY <1>3 DEF Conn
<1>5. \/ q.c = c /\ q.out = {} /\ c.state = "CLOSED"
      \/ q.c = r.c /\ q.out = r.out
      \/ q.c = z /\ q.out = r.out
  BY DEF RdpClose, Result, r, c1, seg
<1> HIDE DEF q, z
<1>6. /\ q.c.txq = c.txq /\ q.c.cur = c.cur /\ q.c.rxq = c.rxq /\ q.c.rx = c.rx
      /\ q.c.state \in {"CLOSE_WAIT", "CLOSED"} /\ q.out \subseteq {seg} /\ (~rst => q.out = {})
  BY <1>3, <1>4, <1>5
<1>7. Quits(c, q) /\ Shut(q.c) /\ (~rst => q.out = {})
  BY <1>2, <1>6 DEF Quits, Shut
<1> QED
  BY <1>7 DEF q

\* csp_conn_close.
LEMMA ConnCloseQuits ==
  ASSUME NEW c, ConnOK(c), NEW by \in SUBSET ClosedByAll, NEW ok
  PROVE Quits(c, ConnClose(c, by, ok)) /\ (c.open \/ Shut(c) => Shut(ConnClose(c, by, ok).c))
<1> DEFINE r == RdpClose(c, by, TRUE, ok)
           f == Released(r.c)
           q == ConnClose(c, by, ok)
<1>1. Quits(c, r) /\ Shut(r.c) /\ ConnOK(r.c)
  BY RdpCloseQuits, RdpCloseType DEF ResultOK
<1>2. \/ q.c = c /\ q.out = {} /\ ~c.open
      \/ q.c = r.c /\ q.out = r.out
      \/ q.c = f /\ q.out = r.out
  BY DEF ConnClose, Result
<1> HIDE DEF r
<1>3. f.txq = {} /\ f.cur = r.c.cur /\ f.state = r.c.state /\ f.rx = <<>> /\ f.rxq = {}
  BY <1>1 DEF Released, ConnOK, Conn
<1>4. OnlyNull(<<>>)
  BY DEF OnlyNull
<1> HIDE DEF f, q
<1>5. CASE q.c = c /\ q.out = {} /\ ~c.open
  <2>1. Quits(c, q)
    BY <1>5 DEF Quits
  <2> QED
    BY <1>5, <2>1 DEF q
<1>6. CASE q.c = r.c /\ q.out = r.out
  <2>1. Quits(c, q) /\ Shut(q.c)
    BY <1>1, <1>6 DEF Quits
  <2> QED
    BY <2>1 DEF q
<1>7. CASE q.c = f /\ q.out = r.out
  <2>1. Quits(c, q) /\ Shut(q.c)
    BY <1>1, <1>3, <1>4, <1>7 DEF Quits, Shut
  <2> QED
    BY <2>1 DEF q
<1> QED
  BY <1>2, <1>5, <1>6, <1>7

\* The label discard_close.
LEMMA DiscardCloseQuits ==
  ASSUME NEW c, ConnOK(c), NEW by \in SUBSET ClosedByAll, NEW ok
  PROVE Quits(c, DiscardClose(c, by, ok)) /\ (c.open \/ Shut(c) => Shut(DiscardClose(c, by, ok).c))
<1> DEFINE r == ConnClose(c, by, ok)
           d == [r.c EXCEPT !.rx = Append(@, Null)]
           z == Result(Enqueue(r.c, Null), r.out)
<1>1. by \cup {ByUser} \in SUBSET ClosedByAll
  BY DEF ClosedByAll
<1>2. Quits(c, r) /\ ConnOK(r.c) /\ (c.open \/ Shut(c) => Shut(r.c))
  BY ConnCloseQuits, ConnCloseType DEF ResultOK
<1> HIDE DEF r
<1>3. /\ d.txq = r.c.txq /\ d.cur = r.c.cur /\ d.state = r.c.state /\ d.rxq = r.c.rxq
      /\ d.rx = Append(r.c.rx, Null) /\ r.c.rx \in Seq(Payload)
  BY <1>2 DEF ConnOK, Conn
<1>4. OnlyNull(r.c.rx) => OnlyNull(d.rx)
  BY <1>3, OnlyNullAppend
<1>5. z.out = r.out /\ z.c \in {r.c, d}
  BY DEF Result, Enqueue
<1> HIDE DEF d, z
<1>8. Quits(c, z) /\ (c.open \/ Shut(c) => Shut(z.c))
  <2>1. CASE z.c = r.c
    BY <1>2, <1>5, <2>1 DEF Quits, Shut
  <2>2. CASE z.c = d
    BY <1>2, <1>3, <1>4, <1>5, <2>2 DEF Quits, Shut
  <2> QED
    BY <1>5, <2>1, <2>2
<1>9. CASE c.socket
  BY <1>1, <1>9, ConnCloseQuits DEF DiscardClose
<1>10. CASE ~c.socket
  <2>1. DiscardClose(c, by, ok) = z
    BY <1>10 DEF DiscardClose, z, r
  <2> QED
    BY <1>8, <2>1
<1> QED
  BY <1>9, <1>10

\* The connection csp_rdp_connect begins.
LEMMA EndConnects ==
  ASSUME NewIss, NEW c, NEW v, ContextOK(v), v.n = 1, v.s = 0, v.g = <<>>, v.q = 0,
         1 <= Len(IssOf[Client]), c.state = "SYN_SENT", c.iss = IssOf[Client][1],
         c.nxt = Plus(c.iss, 1), c.txq = {}, c.rxq = {}, c.rx = <<>>
  PROVE EndOK(Client, c, v) /\ SaidOK(Client, Cmp({"SYN"}, c.iss, 0), v.s, c, v.g)
<1>1. Client \in Endpoint /\ Server \in Endpoint /\ Peer(Client) = Server
  BY DEF Endpoint, Peer, Client, Server
<1>2. Has(c, v.g) = 0 /\ InTurn(v.g, c.rx)
  BY HasNothing
<1>3. c.nxt = Nr(Client, 0 + 1) /\ MsgLimit[Client] \in Nat /\ MsgLimit[Server] \in Nat
  BY <1>1, FirstNr, IssType
<1>4. Own(Client, c, v.n, v.s, v.g, v.q)
  BY <1>1, <1>2, <1>3 DEF Own
<1>5. Has(v.d, v.h) \in Nat /\ Window \in Nat
  BY HasType, SizeAssumption DEF ContextOK
<1>6. Across(Client, c, v.s, v.d, v.h)
  BY <1>5 DEF Across
<1>7. SaidOK(Client, Cmp({"SYN"}, c.iss, 0), v.s, c, v.g)
  BY DEF SaidOK, Said, Acks, Cmp
<1> QED
  BY <1>4, <1>6, <1>7 DEF EndOK

\* Before the client connects nothing has been said.
LEMMA NotBegun ==
  ASSUME TypeOK, SlotInv, Agree, Connect
  PROVE /\ conn[Client].state = "CLOSED" /\ conn[Server].state = "CLOSED" /\ net = {}
        /\ \A e \in Endpoint :
             /\ picks[e] = 0 /\ sent[e] = 0 /\ got[e] = <<>>
             /\ conn[e].rx = <<>> /\ conn[e].rxq = {} /\ conn[e].txq = {}
<1>1. Client \in Endpoint /\ ~conn[Client].open
  BY DEF Connect, Endpoint
<1>2. conn[Client].state = "CLOSED" /\ conn[Server].state = "CLOSED"
  BY <1>1 DEF SlotInv, SlotOK, Agree, Opening
<1>3. \A e \in Endpoint : conn[e].state = "CLOSED"
  BY <1>2 DEF Endpoint
<1>4. net = {}
  <2> SUFFICES ASSUME NEW m \in net PROVE FALSE
    OBVIOUS
  <2>1. Peer(m.to) \in Endpoint
    BY DEF TypeOK, Peer, Endpoint
  <2> QED
    BY <1>3, <2>1 DEF Agree, SaidOK
<1>5. ASSUME NEW e \in Endpoint
      PROVE /\ picks[e] = 0 /\ sent[e] = 0 /\ got[e] = <<>>
            /\ conn[e].rx = <<>> /\ conn[e].rxq = {} /\ conn[e].txq = {}
  <2>1. Own(e, conn[e], picks[e], sent[e], got[e], sent[Peer(e)])
    BY DEF Agree, EndOK, Context
  <2> QED
    BY <1>3, <2>1 DEF Own
<1> QED
  BY <1>2, <1>4, <1>5

\* csp_rdp_connect sends the first SYN, or cannot.
LEMMA ConnectAgree ==
  ASSUME NewIss, TypeOK, TypeOK', SlotInv, Agree, Connect
  PROVE Agree' \/ Failed'
<1> DEFINE e == Client
           c0 == NewConn(conn[e], FALSE)
           iss == Pick(e)
           c1 == [c0 EXCEPT !.iss = iss, !.nxt = Plus(iss, 1), !.una = iss,
                            !.sem = FALSE, !.state = "SYN_SENT"]
           seg == Cmp({"SYN"}, iss, 0)
           r(ok) == SendSyn(c1, seg, FALSE, ok)
           m(ok) == RdpClose(r(ok).c, {ByProtocol}, FALSE, ok).c
           failed(ok) == ConnClose(m(ok), {ByUser}, ok)
<1>1. PICK ok \in BOOLEAN :
        /\ CanPick(e) /\ picks' = [picks EXCEPT ![e] = @ + 1]
        /\ conn' = [conn EXCEPT ![e] = IF ok THEN r(ok).c ELSE failed(ok).c]
        /\ Transmit(e, {}, r(ok).out)
        /\ user' = [user EXCEPT ![e] = IF ok THEN "connecting" ELSE "closed"]
  BY DEF Connect, SendSynRequest
<1>2. /\ sent' = [sent EXCEPT ![e] = 0] /\ got' = [got EXCEPT ![e] = <<>>] /\ hand' = hand
      /\ user[e] = "none" /\ e \in Endpoint /\ Server \in Endpoint /\ Peer(e) = Server
      /\ e # Server
  BY DEF Connect, Endpoint, Peer, Client, Server
<1>3. /\ conn[e].state = "CLOSED" /\ conn[Server].state = "CLOSED" /\ net = {}
      /\ \A f \in Endpoint :
             /\ picks[f] = 0 /\ sent[f] = 0 /\ got[f] = <<>>
             /\ conn[f].rx = <<>> /\ conn[f].rxq = {} /\ conn[f].txq = {}
  BY NotBegun
<1>4. iss = IssOf[e][1] /\ 1 <= Len(IssOf[e]) /\ iss \in SeqNr
  <2>1. iss = IssOf[e][1] /\ 0 < Len(IssOf[e])
    <3>1. picks[e] = 0
      BY <1>2, <1>3
    <3>2. 0 < Len(IssOf[e])
      <4>1. CanPick(e)
        BY <1>1
      <4> QED
        BY <3>1, <4>1 DEF CanPick
    <3>3. Pick(e) = IssOf[e][0 + 1]
      BY <3>1 DEF Pick
    <3> QED
      BY <3>2, <3>3
  <2>2. Len(IssOf[e]) \in Nat
    BY <1>2, IssAssumption
  <2>3. 1 <= Len(IssOf[e])
    BY <2>1, <2>2
  <2> QED
    BY <1>1, <1>2, <2>1, <2>3, PickType
<1>5. ConnOK(c1) /\ seg \in Segment /\ "SYN" \in seg.flags /\ seg.eacks = {}
  <2>1. Plus(iss, 1) \in SeqNr /\ 0 \in SeqNr
    <3>1. iss \in Int
      BY <1>4 DEF SeqNr
    <3>2. 0 \in SeqNr
      BY SeqModAssumption DEF SeqNr
    <3> HIDE DEF iss
    <3> QED
      BY <3>1, <3>2, PlusType
  <2>2. ConnOK(conn[e])
    BY <1>2, EndAgrees
  <2>3. ConnOK(c1)
    <3>1. ConnOK(c0)
      BY <2>2, NewConnType
    <3> HIDE DEF c0, iss
    <3> QED
      BY <1>4, <2>1, <3>1, ZenonT(60) DEF ConnOK, Conn, RdpStates
  <2> QED
    BY <1>4, <2>1, <2>3, CmpType DEF Cmp
<1>6. /\ c1.state = "SYN_SENT" /\ c1.iss = IssOf[Client][1] /\ c1.nxt = Plus(c1.iss, 1)
      /\ c1.txq = {} /\ c1.rxq = {} /\ c1.rx = <<>> /\ c1.sem = FALSE /\ c1.open
      /\ seg = Cmp({"SYN"}, c1.iss, 0)
  <2>1. ConnOK(conn[e])
    BY <1>2, EndAgrees
  <2> QED
    BY <1>2, <1>3, <1>4, <2>1 DEF NewConn, ConnOK, Conn
<1> HIDE DEF c0, c1, iss, seg
<1> DEFINE g == got[e]
           v == ContextOf(e, 1, sent[e], g)
<1>7. /\ v.n = 1 /\ v.s = 0 /\ v.g = <<>> /\ v.q = 0 /\ g = <<>> /\ v.g = g /\ v.s = sent[e]
      /\ ContextOK(v) /\ g \in Seq(Payload) /\ ConnOK(conn[e])
  <2>1. /\ v.n = 1 /\ v.s = 0 /\ v.g = <<>> /\ v.q = 0 /\ g = <<>> /\ v.g = g /\ v.s = sent[e]
    BY <1>2, <1>3 DEF ContextOf
  <2>2. 1 \in Nat /\ sent[e] \in Nat /\ g \in Seq(Payload)
    BY <1>2 DEF TypeOK
  <2> QED
    BY <1>2, <2>1, <2>2, ContextType
<1> HIDE DEF v
<1>8. EndOK(e, c1, v) /\ SaidOK(e, seg, v.s, c1, v.g)
  BY <1>4, <1>6, <1>7, EndConnects
<1>9. Kept(e, c1, v, r(ok)) /\ ConnOK(r(ok).c)
  BY <1>2, <1>5, <1>7, <1>8, KeptSendSyn, SendSynType DEF ResultOK
<1>10. /\ ~ok => r(ok).out = {} /\ r(ok).c = c1
  BY DEF SendSyn, SendCmp, Result
<1> HIDE DEF r
<1>11. CASE ok
  <2>1. conn' = [conn EXCEPT ![e] = r(ok).c] /\ NewFrom(e, r(ok).out)
    BY <1>1, <1>11, TransmitData
  <2>2. Later(conn[e], g, r(ok).c, g)
    <3>1. Has(conn[e], g) = 0 /\ conn[e].rxq = {}
      BY <1>2, <1>3, <1>7, HasNothing
    <3> HIDE DEF g
    <3> QED
      BY <1>7, <1>9, <3>1, LaterEmpty
  <2>3. r(ok).c.state = "SYN_SENT" /\ ~r(ok).c.sem
    BY <1>6, <1>9 DEF Kept
  <2>4. Opening'
    <3>1. conn'[Client] = r(ok).c /\ conn'[Server] = conn[Server]
      BY <1>2, <2>1 DEF TypeOK
    <3> QED
      BY <1>3, <2>3, <3>1 DEF Opening
  <2>5. /\ picks' = [picks EXCEPT ![e] = 1] /\ sent' = [sent EXCEPT ![e] = sent[e]]
        /\ got' = [got EXCEPT ![e] = g] /\ 1 \in Nat /\ sent[e] \in Nat
    <3>1. picks[e] = 0 /\ sent[e] = 0 /\ g = <<>>
      BY <1>2, <1>3
    <3>2. picks' = [picks EXCEPT ![e] = picks[e] + 1]
      BY <1>1
    <3>3. picks[e] + 1 = 1
      BY <3>1
    <3> QED
      BY <1>2, <3>1, <3>2, <3>3
  <2>6. /\ EndOK(e, r(ok).c, ContextOf(e, 1, sent[e], g))
        /\ \A x \in r(ok).out : SaidOK(e, x, sent[e], r(ok).c, g)
    BY <1>7, <1>9 DEF Kept, v
  <2>7. HandsFrom(e, sent[e], r(ok).c, g)
    BY <1>1, <1>2, <1>11 DEF HandsFrom, TypeOK
  <2>8. Later(conn[e], got[e], r(ok).c, g) /\ sent[e] <= sent[e]
    BY <1>2, <1>3, <2>2
  <2> DEFINE s == sent[e]
  <2>9. /\ s \in Nat /\ sent[e] <= s /\ sent' = [sent EXCEPT ![e] = s]
        /\ EndOK(e, r(ok).c, ContextOf(e, 1, s, g))
        /\ (\A x \in r(ok).out : SaidOK(e, x, s, r(ok).c, g)) /\ HandsFrom(e, s, r(ok).c, g)
    BY <2>5, <2>6, <2>7, <2>8
  <2> HIDE DEF s, g
  <2>10. Agree'
    BY <1>2, <1>3, <1>7, <2>1, <2>3, <2>4, <2>5, <2>8, <2>9, AgreeStep
  <2> QED
    BY <2>10
<1>12. CASE ~ok
  <2>1. ConnOK(r(ok).c) /\ r(ok).c.open /\ OnlyNull(r(ok).c.rx) /\ r(ok).c.rxq = {} /\ r(ok).out = {}
    BY <1>6, <1>9, <1>10, <1>12 DEF OnlyNull
  <2>2. Quits(r(ok).c, RdpClose(r(ok).c, {ByProtocol}, FALSE, ok)) /\ Shut(m(ok)) /\ ConnOK(m(ok))
    BY <2>1, ClosersType, RdpCloseQuits, RdpCloseType DEF ResultOK
  <2>3. OnlyNull(m(ok).rx) /\ m(ok).rxq = {}
    BY <2>1, <2>2 DEF Quits
  <2> HIDE DEF m
  <2>4. Quits(m(ok), failed(ok)) /\ Shut(failed(ok).c)
    BY <2>2, ClosersType, ConnCloseQuits
  <2> HIDE DEF failed
  <2>5. OnlyNull(failed(ok).c.rx) /\ failed(ok).c.rxq = {}
    BY <2>3, <2>4 DEF Quits
  <2>6. conn'[Client] = failed(ok).c /\ conn'[Server] = conn[Server] /\ user'[Client] = "closed"
    BY <1>1, <1>2, <1>12 DEF TypeOK
  <2>7. net' = {}
    BY <1>1, <1>3, <2>1 DEF Transmit
  <2>8. \A f \in Endpoint : sent'[f] = 0 /\ got'[f] = <<>>
    BY <1>2, <1>3 DEF TypeOK
  <2>9. \A f \in Endpoint : OnlyNull(conn'[f].rx) /\ conn'[f].rxq = {}
    BY <1>2, <1>3, <2>5, <2>6 DEF Endpoint, OnlyNull
  <2> QED
    BY <1>3, <2>4, <2>6, <2>7, <2>8, <2>9 DEF Failed, Nothing, Shut
<1> QED
  BY <1>11, <1>12

----------------------------------------------------------------------------
\* The server has given the connection up.

\* What the users' hands hold, if they hold a segment, is not new.
HandsKept == \A f \in Endpoint : user'[f] = "sending" => user[f] = "sending" /\ hand'[f] = hand[f]

\* The server takes a step.
LEMMA BrokenServerStep ==
  ASSUME TypeOK, Broken, NEW r, conn' = [conn EXCEPT ![Server] = r.c],
         ServerBroken(r.c, picks'[Server], sent'[Server], got'[Server]),
         conn[Client].state = "OPEN" => r.c.state = "CLOSE_WAIT",
         \A x \in r.out : x.data = NoData, NewFrom(Server, r.out), HandsKept,
         got'[Client] = got[Client], user'[Client] # "none"
  PROVE Broken'
<1>1. /\ Client \in Endpoint /\ Server \in Endpoint /\ Client # Server /\ Peer(Server) = Client
  BY DEF Endpoint, Peer, Client, Server
<1>2. conn'[Client] = conn[Client] /\ conn'[Server] = r.c
  BY <1>1 DEF TypeOK
<1>3. ASSUME NEW m \in net'
      PROVE /\ m.to = Client => m.seg.data = NoData
            /\ m.to = Server =>
                 ("RST" \in m.seg.flags => conn[Client].state # "OPEN") /\ OfTheFirst(m.seg)
  <2>1. CASE m \in net
    BY <2>1 DEF Broken
  <2>2. CASE \E x \in r.out : m = [to |-> Client, seg |-> x]
    BY <1>1, <2>2
  <2> QED
    BY <1>1, <2>1, <2>2 DEF NewFrom
<1> QED
  BY <1>1, <1>2, <1>3 DEF Broken, HandsKept

\* The client takes a step, and its user may compose a segment.
LEMMA BrokenClientStep ==
  ASSUME TypeOK, Broken, NEW r, conn' = [conn EXCEPT ![Client] = r.c],
         ClientBroken(r.c, got'[Client]),
         r.c.state = "OPEN" => conn[Client].state = "OPEN",
         \A x \in r.out : ("RST" \in x.flags => r.c.state # "OPEN") /\ OfTheFirst(x),
         NewFrom(Client, r.out),
         user'[Server] = "sending" => user[Server] = "sending" /\ hand'[Server] = hand[Server],
         user'[Client] = "sending" =>
           \/ user[Client] = "sending" /\ hand'[Client] = hand[Client]
           \/ "RST" \notin hand'[Client].flags /\ OfTheFirst(hand'[Client]),
         picks'[Server] = picks[Server], sent'[Server] = sent[Server],
         got'[Server] = got[Server], user'[Client] # "none"
  PROVE Broken'
<1>1. /\ Client \in Endpoint /\ Server \in Endpoint /\ Client # Server /\ Peer(Client) = Server
  BY DEF Endpoint, Peer, Client, Server
<1>2. conn'[Server] = conn[Server] /\ conn'[Client] = r.c
  BY <1>1 DEF TypeOK
<1>3. ASSUME NEW m \in net'
      PROVE /\ m.to = Client => m.seg.data = NoData
            /\ m.to = Server =>
                 ("RST" \in m.seg.flags => r.c.state # "OPEN") /\ OfTheFirst(m.seg)
  <2>1. CASE m \in net
    BY <2>1 DEF Broken
  <2>2. CASE \E x \in r.out : m = [to |-> Server, seg |-> x]
    BY <1>1, <2>2
  <2> QED
    BY <1>1, <2>1, <2>2 DEF NewFrom
<1> QED
  BY <1>1, <1>2, <1>3 DEF Broken

\* Only segments are lost, or what this is not about changes.
LEMMA BrokenSame ==
  ASSUME TypeOK, Broken, UNCHANGED <<conn, picks, sent, got>>, net' \subseteq net, HandsKept,
         user'[Client] # "none"
  PROVE Broken'
<1> DEFINE r == Result(conn[Client], {})
<1>1. /\ conn' = [conn EXCEPT ![Client] = r.c] /\ r.c = conn[Client] /\ r.out = {}
  BY DEF Result, TypeOK, Endpoint
<1> HIDE DEF r
<1>2. ClientBroken(r.c, got'[Client]) /\ NewFrom(Client, r.out)
  BY <1>1 DEF Broken, NewFrom
<1>3. Client \in Endpoint /\ Server \in Endpoint
  BY DEF Endpoint
<1> QED
  BY <1>1, <1>2, <1>3, BrokenClientStep DEF HandsKept

\* The same for a change of the view of one connection.
LEMMA BrokenView ==
  ASSUME TypeOK, Broken, NEW e \in Endpoint, NEW d, View(d) = View(conn[e]),
         conn' = [conn EXCEPT ![e] = d],
         UNCHANGED <<picks, sent, got, net>>, HandsKept, user'[Client] # "none"
  PROVE Broken'
<1> DEFINE r == Result(d, {})
           c == conn[e]
<1>1. /\ conn' = [conn EXCEPT ![e] = r.c] /\ r.c = d /\ r.out = {}
  BY DEF Result
<1> HIDE DEF r
<1>2. /\ d.state = c.state /\ d.cur = c.cur /\ d.rxq = c.rxq /\ d.rx = c.rx /\ d.txq = c.txq
      /\ d.iss = c.iss
  BY DEF View
<1>3. Client \in Endpoint /\ Server \in Endpoint /\ NewFrom(e, r.out)
  BY <1>1 DEF Endpoint, NewFrom
<1>4. CASE e = Client
  <2>1. ClientBroken(r.c, got'[Client])
    BY <1>1, <1>2, <1>4 DEF Broken, ClientBroken, Nothing
  <2> QED
    BY <1>1, <1>2, <1>3, <1>4, <2>1, BrokenClientStep DEF HandsKept
<1>5. CASE e = Server
  <2>1. ServerBroken(r.c, picks'[Server], sent'[Server], got'[Server])
    BY <1>1, <1>2, <1>5 DEF Broken, ServerBroken, Nothing
  <2>2. conn[Client].state = "OPEN" => r.c.state = "CLOSE_WAIT"
    BY <1>1, <1>2, <1>5 DEF Broken
  <2> QED
    BY <1>1, <1>3, <1>5, <2>1, <2>2, BrokenServerStep
<1> QED
  BY <1>4, <1>5 DEF Endpoint

\* A connection that is closed.
LEMMA BrokenQuits ==
  ASSUME NEW c, NEW r, Quits(c, r), Shut(r.c)
  PROVE /\ \A g : ClientBroken(c, g) /\ (c.state = "CLOSED" => r.c.state = "CLOSED") => ClientBroken(r.c, g)
        /\ \A n, s, g : ServerBroken(c, n, s, g) => ServerBroken(r.c, n, s, g)
  BY DEF Quits, Shut, ClientBroken, ServerBroken, Nothing

\* A connection task that holds no connection has not begun one: csp_connect
\* is where the client gets its connection.
ClientUses == user[Client] = "none" => ~conn[Client].open

\* csp_conn_close of a connection that is not agreed to be closed.
LEMMA GivenUpWaits ==
  ASSUME NEW c, ConnOK(c), c.open, c.socket, c.state = "OPEN", c.closedBy = {}, NEW ok
  PROVE /\ DiscardClose(c, {ByProtocol}, ok).c.state = "CLOSE_WAIT"
        /\ Quits(c, DiscardClose(c, {ByProtocol}, ok))
<1> DEFINE by == {ByProtocol} \cup {ByUser}
           c1 == [c EXCEPT !.closedBy = ClosedBy(@, by), !.state = "CLOSE_WAIT", !.sem = @ \/ TRUE]
           r == SendCmp(c1, Cmp({"ACK", "RST"}, c.nxt, c.cur), ok)
<1>1. by # ClosedByAll /\ by \in SUBSET ClosedByAll
  BY DEF ClosedByAll, ByUser, ByProtocol, ByTimeout
<1>2. ConnOK(c1) /\ c1.closedBy = by /\ c1.state = "CLOSE_WAIT"
  BY <1>1 DEF ConnOK, Conn, ClosedBy, RdpStates
<1>3. r.c.closedBy = by /\ r.c.state = "CLOSE_WAIT"
  <2> HIDE DEF c1, by
  <2>1. Slot(r.c) = Slot(c1)
    BY <1>2, SendCmpSlot
  <2> HIDE DEF r
  <2> QED
    BY <1>2, <2>1 DEF Slot
<1>4. RdpClose(c, by, TRUE, ok) = r
  <2>1. ~Agreed(r.c.closedBy)
    BY <1>1, <1>3 DEF Agreed
  <2> QED
    BY <2>1 DEF RdpClose
<1> HIDE DEF c1, r, by
<1>5. ConnClose(c, by, ok) = r
  BY <1>3, <1>4 DEF ConnClose
<1>6. DiscardClose(c, {ByProtocol}, ok) = ConnClose(c, by, ok)
  BY DEF DiscardClose, by
<1>7. Quits(c, ConnClose(c, by, ok))
  BY <1>1, ConnCloseQuits
<1> QED
  BY <1>3, <1>5, <1>6, <1>7

\* While the server's connection is half open, no message has been sent by it
\* or taken from it.
LEMMA NothingBack ==
  ASSUME NewIss, TypeOK, Agree, conn[Server].state = "SYN_RCVD"
  PROVE /\ picks[Server] = 1 /\ sent[Server] = 0
        /\ \A e \in Endpoint : got[e] = <<>> /\ conn[e].rx = <<>> /\ conn[e].rxq = {}
        /\ \A x \in conn[Server].txq : x.seg.data = NoData
        /\ \A x : Said(Server, x, 0) => x.data = NoData
        /\ \A x : SaidOK(Client, x, sent[Client], conn[Client], got[Client]) =>
             "RST" \notin x.flags /\ OfTheFirst(x)
        /\ conn[Client].state = "OPEN" => conn[Client].cur = IssOf[Server][1]
        /\ \A x \in conn[Client].txq : "RST" \notin x.seg.flags
<1>1. /\ Client \in Endpoint /\ Server \in Endpoint /\ Peer(Client) = Server /\ Peer(Server) = Client
  BY DEF Endpoint, Peer, Client, Server
<1>2. \A e \in Endpoint : Own(e, conn[e], picks[e], sent[e], got[e], sent[Peer(e)])
  BY DEF Agree, EndOK, Context
<1>3. /\ picks[Server] = 1 /\ sent[Server] = 0 /\ got[Server] = <<>> /\ conn[Server].rx = <<>>
      /\ conn[Server].rxq = {}
  BY <1>1, <1>2 DEF Own
<1>4. Has(conn[Client], got[Client]) = 0 /\ conn[Client].rxq = {}
  <2>1. ConnOK(conn[Client]) /\ got[Client] \in Seq(Payload)
    BY <1>1, EndAgrees DEF TypeOK
  <2>2. Has(conn[Client], got[Client]) \in Nat
    BY <2>1, HasType
  <2>3. Own(Client, conn[Client], picks[Client], sent[Client], got[Client], 0)
    BY <1>1, <1>2, <1>3
  <2>4. Has(conn[Client], got[Client]) <= 0
    BY <2>3 DEF Own
  <2>5. conn[Client].rxq = {}
    <3> SUFFICES ASSUME NEW x \in conn[Client].rxq PROVE FALSE
      OBVIOUS
    <3>1. \E i \in 1..0 : x.data = <<1, i>>
      BY <2>3 DEF Own
    <3> QED
      BY <3>1
  <2> QED
    BY <2>2, <2>4, <2>5
<1>5. got[Client] = <<>> /\ conn[Client].rx = <<>>
  <2>1. Len(got[Client]) \in Nat /\ Len(conn[Client].rx) \in Nat /\ got[Client] \in Seq(Payload)
        /\ conn[Client].rx \in Seq(Payload)
    BY <1>1, EndAgrees, HasType DEF TypeOK
  <2> DEFINE a == Len(got[Client])
             b == Len(conn[Client].rx)
  <2>2. a \in Nat /\ b \in Nat /\ a + b = 0
    BY <1>4, <2>1 DEF Has
  <2> HIDE DEF a, b
  <2>3. a = 0 /\ b = 0
    BY <2>2
  <2> QED
    BY <2>1, <2>3, EmptySeq DEF a, b
<1>6. \A x : Said(Server, x, 0) => x.data = NoData
  <2> SUFFICES ASSUME NEW x, Said(Server, x, 0), x.data # NoData PROVE FALSE
    OBVIOUS
  <2>1. \E n \in 1..0 : x.data = <<1, n>>
    BY DEF Said
  <2> QED
    BY <2>1
<1>7. \A x \in conn[Server].txq : x.seg.data = NoData
  <2>1. \A x \in conn[Server].txq : Said(Server, x.seg, 0)
    BY <1>1, <1>2, <1>3 DEF Own
  <2> QED
    BY <1>6, <2>1
<1>8. Nr(Server, 0) = IssOf[Server][1]
  BY <1>1, NrType
<1>9. \A x : SaidOK(Client, x, sent[Client], conn[Client], got[Client]) =>
             "RST" \notin x.flags /\ OfTheFirst(x)
  <2> SUFFICES ASSUME NEW x, SaidOK(Client, x, sent[Client], conn[Client], got[Client]),
                      "SYN" \notin x.flags
               PROVE "RST" \notin x.flags /\ x.ack = IssOf[Server][1]
    BY DEF OfTheFirst, SaidOK, Said
  <2>1. "RST" \notin x.flags /\ "ACK" \in x.flags
    BY DEF SaidOK, Said
  <2>2. \E j \in 0..0 : x.ack = Nr(Server, j)
    BY <1>1, <1>4, <2>1 DEF SaidOK, Acks
  <2> QED
    BY <1>8, <2>1, <2>2
<1>10. conn[Client].state = "OPEN" => conn[Client].cur = IssOf[Server][1]
  BY <1>1, <1>2, <1>4, <1>8 DEF Own
<1>11. \A x \in conn[Client].txq : "RST" \notin x.seg.flags
  BY <1>1, <1>2 DEF Own, Said
<1>12. \A e \in Endpoint : got[e] = <<>> /\ conn[e].rx = <<>> /\ conn[e].rxq = {}
  BY <1>3, <1>4, <1>5 DEF Endpoint
<1> QED
  BY <1>3, <1>6, <1>7, <1>9, <1>10, <1>11, <1>12

\* The accept queue of the socket is full.
LEMMA BacklogFullBreaks ==
  ASSUME NewIss, TypeOK, SlotInv, ClientUses, Agree, NEW e \in Endpoint, NEW p, BacklogFull(e, p)
  PROVE Broken'
<1>1. /\ Arrives(e, p) /\ Target(e).state = "SYN_RCVD" /\ "SYN" \notin p.flags /\ Target(e).socket
      /\ UNCHANGED <<picks, sent, got>>
  BY DEF BacklogFull, Acceptable, Receives, BadFlags, Quiet, histVars
<1>10. PICK sends \in BOOLEAN :
         HandledThen(e, p, DiscardClose([Target(e) EXCEPT !.state = "OPEN"], {ByProtocol}, sends),
                     FALSE, "idle")
  BY DEF BacklogFull, Handled
<1> DEFINE c == [conn[e] EXCEPT !.state = "OPEN"]
           r == DiscardClose(c, {ByProtocol}, sends)
<1>2. /\ ConnOK(conn[e]) /\ Target(e) = conn[e] /\ conn[e].state = "SYN_RCVD"
      /\ SaidOK(Peer(e), p, sent[Peer(e)], conn[Peer(e)], got[Peer(e)])
  BY <1>1, ArrivesAgree
<1>3. e = Server /\ Peer(e) = Client /\ Client # Server /\ Client \in Endpoint
  BY <1>2 DEF Agree, Opening, Endpoint, Peer, Client, Server
<1>4. conn[Client].state = "OPEN" /\ user[Client] # "none" /\ ConnOK(conn[Client])
  <2>1. conn[Client].state = "OPEN"
    BY <1>1, <1>2, <1>3 DEF SaidOK
  <2>2. conn[Client].open
    BY <1>3, <2>1 DEF SlotInv, SlotOK
  <2>3. ConnOK(conn[Client])
    BY <1>3, EndAgrees
  <2> QED
    BY <2>1, <2>2, <2>3 DEF ClientUses, ConnOK, Conn
<1>5. /\ ConnOK(c) /\ c.open /\ c.socket /\ c.state = "OPEN" /\ c.closedBy = {}
      /\ c.rx = conn[e].rx /\ c.rxq = conn[e].rxq /\ c.txq = conn[e].txq
  <2>1. conn[e].open /\ conn[e].closedBy = {} /\ conn[e].socket
    BY <1>1, <1>2 DEF SlotInv, SlotOK, ConnOK, Conn
  <2> QED
    BY <1>2, <2>1 DEF ConnOK, Conn, RdpStates
<1> HIDE DEF c
<1>6. r.c.state = "CLOSE_WAIT" /\ Quits(c, r)
  BY <1>5, GivenUpWaits
<1>7. conn' = [conn EXCEPT ![e] = r.c] /\ NewFrom(e, r.out) /\ user' = user /\ hand' = hand
  BY <1>2, <1>10, TransmitData DEF HandledThen, c
<1> HIDE DEF r
<1>8. /\ picks[Server] = 1 /\ sent[Server] = 0
      /\ \A f \in Endpoint : got[f] = <<>> /\ conn[f].rx = <<>> /\ conn[f].rxq = {}
      /\ \A x \in conn[Server].txq : x.seg.data = NoData
      /\ \A x : Said(Server, x, 0) => x.data = NoData
      /\ \A x : SaidOK(Client, x, sent[Client], conn[Client], got[Client]) =>
             "RST" \notin x.flags /\ OfTheFirst(x)
      /\ conn[Client].state = "OPEN" => conn[Client].cur = IssOf[Server][1]
      /\ \A x \in conn[Client].txq : "RST" \notin x.seg.flags
  BY <1>2, <1>3, NothingBack
<1>9. OnlyNull(<<>>)
  BY DEF OnlyNull
<1>11. conn'[Client] = conn[Client] /\ conn'[Server] = r.c
  BY <1>3, <1>7 DEF TypeOK
<1>12. ClientBroken(conn'[Client], got'[Client])
  BY <1>1, <1>3, <1>4, <1>8, <1>9, <1>11 DEF ClientBroken, Nothing
<1>13. ServerBroken(conn'[Server], picks'[Server], sent'[Server], got'[Server])
  BY <1>1, <1>3, <1>5, <1>6, <1>8, <1>9, <1>11 DEF ServerBroken, Nothing, Quits
<1>14. \A m \in net' :
         /\ m.to = Client => m.seg.data = NoData
         /\ m.to = Server =>
              ("RST" \in m.seg.flags => conn'[Client].state # "OPEN") /\ OfTheFirst(m.seg)
  <2> SUFFICES ASSUME NEW m \in net'
               PROVE /\ m.to = Client => m.seg.data = NoData
                     /\ m.to = Server => "RST" \notin m.seg.flags /\ OfTheFirst(m.seg)
    OBVIOUS
  <2>1. CASE m \in net
    <3>1. m.to = Client => Said(Server, m.seg, 0)
      BY <1>3, <1>8, <2>1 DEF Agree, SaidOK, Peer
    <3>2. m.to = Server => SaidOK(Client, m.seg, sent[Client], conn[Client], got[Client])
      BY <1>3, <2>1 DEF Agree
    <3> QED
      BY <1>8, <3>1, <3>2
  <2>2. CASE \E x \in r.out : m = [to |-> Client, seg |-> x]
    BY <1>3, <1>6, <2>2 DEF Quits
  <2> QED
    BY <1>3, <1>7, <2>1, <2>2 DEF NewFrom
<1>15. user[Server] = "sending" => hand[Server].data = NoData
  BY <1>3, <1>8 DEF Agree, SaidOK
<1>16. user[Client] = "sending" => "RST" \notin hand[Client].flags /\ OfTheFirst(hand[Client])
  BY <1>3, <1>8 DEF Agree
<1> QED
  BY <1>4, <1>6, <1>7, <1>11, <1>12, <1>13, <1>14, <1>15, <1>16 DEF Broken

\* csp_rdp_new_packet while the ends agree.
LEMMA ArrivalAgree ==
  ASSUME NewIss, Ample, TypeOK, TypeOK', SlotInv, ClientUses, Agree, Arrival
  PROVE Agree' \/ Broken'
<1>1. PICK m \in net : NewPacket(m.to, m.seg)
  BY DEF Arrival
<1> DEFINE e == m.to
           p == m.seg
<1>2. e \in Endpoint
  BY DEF TypeOK
<1> HIDE DEF e, p
<1>3. NewPacket(e, p)
  BY <1>1 DEF e, p
<1>4. \/ DropUnknown(e, p) \/ DuplicateSyn(e, p) \/ InvalidAck(e, p) \/ OutOfWindow(e, p)
      \/ SynInClosed(e, p)
      \/ SynAckInSynSent(e, p)
      \/ BacklogFull(e, p)
      \/ HandshakeDone(e, p)
      \/ DataInOpen(e, p)
  BY <1>2, <1>3, NothingUnexpected DEF NewPacket
<1>5. CASE DropUnknown(e, p) \/ DuplicateSyn(e, p) \/ InvalidAck(e, p) \/ OutOfWindow(e, p)
  BY <1>2, <1>5, AnswerAgree
<1>6. CASE SynInClosed(e, p)
  BY <1>2, <1>6, SynInClosedAgree
<1>7. CASE SynAckInSynSent(e, p)
  BY <1>2, <1>7, SynAckInSynSentAgree
<1>8. CASE BacklogFull(e, p)
  BY <1>2, <1>8, BacklogFullBreaks
<1>9. CASE HandshakeDone(e, p)
  BY <1>2, <1>9, HandshakeDoneAgree
<1>10. CASE DataInOpen(e, p)
  BY <1>2, <1>10, DataInOpenAgree
<1> QED
  BY <1>4, <1>5, <1>6, <1>7, <1>8, <1>9, <1>10

\* Both ends agree after every step, unless a socket or an interface refuses
\* the connection as it begins.
LEMMA AgreeNext ==
  ASSUME Stays, NewIss, Ample, TypeOK, TypeOK', SlotInv, ClientUses, FlushFindsRoom, Agree,
         [Next]_vars
  PROVE StayInv'
<1>1. CASE \E m \in net : Lose(m)
  <2>1. /\ UNCHANGED <<conn, picks, sent, got, user, hand>> /\ net' \subseteq net
    BY <1>1 DEF Lose, envVars, histVars
  <2> QED
    BY <2>1, AgreeSame DEF StayInv
<1>2. CASE UNCHANGED vars
  <2>1. /\ UNCHANGED <<conn, picks, sent, got, user, hand>> /\ net' \subseteq net
    BY <1>2 DEF vars, envVars, histVars
  <2> QED
    BY <2>1, AgreeSame DEF StayInv
<1>3. CASE Arrival
  BY <1>3, ArrivalAgree DEF StayInv
<1>4. CASE Connecting
  BY <1>4, ConnectAgree, OpenedAgree, NeverRefused DEF Connecting, StayInv
<1>5. CASE Accept
  BY <1>5, OpenedAgree DEF StayInv
<1>6. ASSUME NEW e \in Endpoint, UserTask(e) PROVE StayInv'
  <2>1. CASE SendBlocks(e) \/ SendWakes(e) \/ SendNoBufs(e) \/ SendOut(e)
    BY <2>1, PlainUserAgree DEF StayInv
  <2>2. CASE RdpSend(e)
    BY <2>2, RdpSendAgree DEF StayInv
  <2>3. CASE Read(e)
    BY <2>3, ReadAgree DEF StayInv
  <2>4. ~SendTimeout(e) /\ ~Close(e)
    BY DEF Stays, SendTimeout, Close
  <2> QED
    BY <1>6, <2>1, <2>2, <2>3, <2>4 DEF UserTask
<1>7. ASSUME NEW e \in Endpoint, CheckTimeouts(e) PROVE StayInv'
  BY <1>7, CheckTimeoutsAgree DEF StayInv
<1>8. ASSUME NEW e \in Endpoint, FlushNext(e) PROVE StayInv'
  BY <1>8, FlushNextAgree DEF StayInv
<1>9. ~Reboot
  BY SizeAssumption DEF Stays, Reboot, TypeOK
<1> QED
  BY <1>1, <1>2, <1>3, <1>4, <1>5, <1>6, <1>7, <1>8, <1>9 DEF Next

----------------------------------------------------------------------------
\* The client's connection is the one its user asked for.

\* What csp_rdp_new_packet does to tasks and to the other endpoint.
PacketIsLocal(e) ==
  /\ user' = user /\ \A f \in Endpoint \ {e} : conn'[f] = conn[f]
  /\ e = Client /\ ~conn[e].open => conn' = conn

\* A segment that is handled.
LEMMA HandledIsLocal ==
  ASSUME TypeOK, NEW e \in Endpoint, NEW p, Arrives(e, p),
         \E r, ok, next : HandledThen(e, p, r, ok, next)
  PROVE PacketIsLocal(e)
<1>1. e = Client => conn[e].open
  BY DEF Arrives, Client, Server
<1> QED
  BY <1>1 DEF HandledThen, PacketIsLocal, TypeOK

\* Every way to handle one.
LEMMA PacketLocal ==
  ASSUME TypeOK, NEW e \in Endpoint, NEW p, NewPacket(e, p)
  PROVE PacketIsLocal(e)
<1>1. ASSUME DropUnknown(e, p) PROVE PacketIsLocal(e)
  BY <1>1 DEF DropUnknown, Handled, HandledThen, Result, PacketIsLocal, TypeOK
<1>2. ASSUME RstInClosed(e, p) \/ RstInCloseWait(e, p) \/ RstInSequence(e, p) \/ RstOutOfSequence(e, p)
      PROVE PacketIsLocal(e)
  BY <1>2, HandledIsLocal DEF RstInClosed, RstInCloseWait, RstInSequence, RstOutOfSequence, Handled
<1>3. ASSUME NoSynInClosed(e, p) \/ SynInClosed(e, p) \/ SynAckInSynSent(e, p) \/ HalfOpen(e, p)
      PROVE PacketIsLocal(e)
  BY <1>3, HandledIsLocal
     DEF NoSynInClosed, SynInClosed, SynAckInSynSent, HalfOpen, Receives, Handled
<1>4. ASSUME DuplicateSyn(e, p) \/ InvalidSyn(e, p) \/ OutOfWindow(e, p) \/ InvalidAck(e, p)
      PROVE PacketIsLocal(e)
  BY <1>4, HandledIsLocal DEF DuplicateSyn, InvalidSyn, OutOfWindow, InvalidAck, Receives, Handled
<1>5. ASSUME WrongAckInSynRcvd(e, p) \/ BacklogFull(e, p) \/ HandshakeDone(e, p) \/ DataInOpen(e, p)
      PROVE PacketIsLocal(e)
  BY <1>5, HandledIsLocal
     DEF WrongAckInSynRcvd, BacklogFull, HandshakeDone, DataInOpen, Acceptable, Receives, Handled,
         HandledData
<1>6. ASSUME IgnoredInCloseWait(e, p) \/ AckInCloseWait(e, p) PROVE PacketIsLocal(e)
  BY <1>6, HandledIsLocal DEF IgnoredInCloseWait, AckInCloseWait, Receives, Handled
<1> QED
  BY <1>1, <1>2, <1>3, <1>4, <1>5, <1>6 DEF NewPacket

\* A user task that has no connection begins with csp_connect.
LEMMA ClientUsesNext == TypeOK /\ ClientUses /\ [Next]_vars => ClientUses'
<1> SUFFICES ASSUME TypeOK, ClientUses, [Next]_vars, user'[Client] = "none" PROVE ~conn'[Client].open
  BY DEF ClientUses
<1>0. Client \in Endpoint /\ Server \in Endpoint /\ Client # Server /\ Endpoint = {Client, Server}
  BY DEF Endpoint, Client, Server
<1>1. CASE (\E m \in net : Lose(m)) \/ UNCHANGED vars
  BY <1>1 DEF Lose, vars, ClientUses
<1>2. CASE Arrival
  <2>1. PICK m \in net : NewPacket(m.to, m.seg)
    BY <1>2 DEF Arrival
  <2>2. m.to \in Endpoint
    BY DEF TypeOK
  <2>3. PacketIsLocal(m.to)
    BY <2>1, <2>2, PacketLocal
  <2> QED
    BY <1>0, <2>2, <2>3 DEF PacketIsLocal, ClientUses
<1>3. CASE Connecting
  <2>1. \E x \in {"connecting", "closed", "ready"} : user' = [user EXCEPT ![Client] = x]
    <3>1. ASSUME NEW c, NEW again, SendSynRequest(Client, c, again)
          PROVE \E x \in {"connecting", "closed", "ready"} : user' = [user EXCEPT ![Client] = x]
      <4>1. PICK ok \in BOOLEAN : user' = [user EXCEPT ![Client] = IF ok THEN "connecting" ELSE "closed"]
        BY <3>1 DEF SendSynRequest
      <4> QED
        BY <4>1
    <3>2. CASE Connect \/ ConnectRetry
      BY <3>1, <3>2 DEF Connect, ConnectRetry
    <3>3. CASE ConnectOpened
      BY <3>3 DEF ConnectOpened
    <3>4. CASE ConnectRefused \/ ConnectTimeout
      BY <3>4 DEF ConnectRefused, ConnectTimeout, ConnectFails
    <3> QED
      BY <1>3, <3>2, <3>3, <3>4 DEF Connecting
  <2> QED
    BY <1>0, <2>1 DEF TypeOK
<1>4. CASE Accept
  BY <1>0, <1>4 DEF Accept, TypeOK, ClientUses
<1>5. ASSUME NEW e \in Endpoint, UserTask(e) PROVE ~conn'[Client].open
  <2>1. user[e] # "none"
    BY <1>5 DEF UserTask, SendBlocks, SendWakes, SendTimeout, RdpSend, SendNoBufs, SendOut, Read, Close
  <2>2. user'[e] # "none" \/ e = Server
    BY <1>0, <1>5, <2>1 DEF UserTask, SendBlocks, SendWakes, SendTimeout, RdpSend, SendNoBufs, SendOut, Read, Close,
       TypeOK
  <2>3. e = Server
    BY <1>0, <2>2
  <2>4. user'[Client] = user[Client] /\ conn'[Client] = conn[Client]
    BY <1>0, <1>5, <2>3 DEF UserTask, SendBlocks, SendWakes, SendTimeout, RdpSend, SendNoBufs, SendOut, Read, Close,
       TypeOK
  <2> QED
    BY <2>4 DEF ClientUses
<1>6. ASSUME NEW e \in Endpoint, CheckTimeouts(e) PROVE ~conn'[Client].open
  <2>1. user' = user
    BY <1>6 DEF CheckTimeouts, CheckNothing, LostConnection, CloseWaitTimeout, CheckMessages, Checked,
       RouterUnchanged
  <2>2. ~conn[Client].open
    BY <2>1 DEF ClientUses
  <2>3. conn' = conn \/ e = Server
    BY <1>0, <1>6, <2>2 DEF CheckTimeouts, CheckNothing, LostConnection, CloseWaitTimeout, CheckMessages
  <2>4. conn'[Client] = conn[Client]
    <3>1. CASE e = Server
      BY <1>0, <1>6, <3>1 DEF CheckTimeouts, CheckNothing, LostConnection, CloseWaitTimeout,
         CheckMessages, Checked, TypeOK
    <3> QED
      BY <2>3, <3>1
  <2> QED
    BY <2>2, <2>4
<1>7. ASSUME NEW e \in Endpoint, FlushNext(e) PROVE ~conn'[Client].open
  <2>1. PICK x \in NextStored(conn[e]) : conn' = [conn EXCEPT ![e] = FlushOne(conn[e], x)]
    BY <1>7 DEF FlushNext
  <2>2. user' = user /\ ~conn[Client].open
    BY <1>7 DEF FlushNext, ClientUses
  <2>3. FlushOne(conn[e], x).open = conn[e].open
    <3>1. conn[e] \in Conn
      BY DEF TypeOK
    <3> QED
      BY <3>1 DEF FlushOne, Enqueue, Conn
  <2> QED
    BY <1>0, <2>1, <2>2, <2>3 DEF TypeOK
<1>8. CASE Reboot
  BY <1>0, <1>8 DEF Reboot, InitConn, TypeOK
<1> QED
  BY <1>1, <1>2, <1>3, <1>4, <1>5, <1>6, <1>7, <1>8 DEF Next

----------------------------------------------------------------------------
\* The server has given the connection up: what it receives.

\* The fields on which it depends that a connection is broken.
Bare(c) == <<c.open, c.state, c.cur, c.iss, c.rx, c.rxq, c.txq>>

\* They are enough.
LEMMA BareEnough ==
  ASSUME NEW c, NEW d, Bare(d) = Bare(c)
  PROVE /\ \A g : ClientBroken(c, g) => ClientBroken(d, g)
        /\ \A n, s, g : ServerBroken(c, n, s, g) => ServerBroken(d, n, s, g)
        /\ d.open = c.open /\ d.state = c.state /\ d.cur = c.cur
<1>1. /\ d.open = c.open /\ d.state = c.state /\ d.cur = c.cur /\ d.iss = c.iss
      /\ d.rx = c.rx /\ d.rxq = c.rxq /\ d.txq = c.txq
  BY DEF Bare
<1> QED
  BY <1>1 DEF ClientBroken, ServerBroken, Nothing

\* csp_rdp_send_cmp.
LEMMA BareSent ==
  ASSUME NEW c, ConnOK(c), NEW seg, NEW ok
  PROVE Bare(SendCmp(c, seg, ok).c) = Bare(c) /\ SendCmp(c, seg, ok).out \subseteq {seg}
  BY DEF SendCmp, Result, Bare, ConnOK, Conn

\* An acknowledgement is stored.
LEMMA BareAcked ==
  ASSUME NEW c, ConnOK(c), NEW p
  PROVE Bare(AckOfRst(c, p)) = Bare(c) /\ Bare([c EXCEPT !.una = Plus(p.ack, 1)]) = Bare(c)
  BY DEF AckOfRst, Bare, ConnOK, Conn

\* The server's connection when a segment arrives.
LEMMA ServerTarget ==
  ASSUME TypeOK, SlotInv, Broken
  PROVE LET t == Target(Server)
        IN /\ ServerBroken(t, picks[Server], sent[Server], got[Server])
           /\ ConnOK(t) /\ t.open /\ t.state = conn[Server].state
<1> DEFINE c == conn[Server]
           t == NewConn(c, TRUE)
<1>1. ConnOK(c) /\ ServerBroken(c, picks[Server], sent[Server], got[Server])
  BY DEF Broken, TypeOK, ConnOK, Endpoint
<1> HIDE DEF c
<1>2. CASE c.open
  BY <1>1, <1>2 DEF Target, c
<1>3. CASE ~c.open
  <2>1. /\ ConnOK(t) /\ t.open /\ t.state = c.state /\ t.iss = c.iss /\ t.txq = c.txq
        /\ t.rxq = c.rxq /\ t.rx = <<>>
    BY <1>1, NewConnType DEF NewConn, ConnOK, Conn
  <2>2. Target(Server) = t
    BY <1>3 DEF Target, c
  <2> HIDE DEF t
  <2>3. OnlyNull(<<>>)
    BY DEF OnlyNull
  <2>4. ServerBroken(t, picks[Server], sent[Server], got[Server])
    BY <1>1, <2>1, <2>3 DEF ServerBroken, Nothing
  <2> QED
    BY <2>1, <2>2, <2>4 DEF c
<1> QED
  BY <1>2, <1>3

\* A call of csp_rdp_new_packet for the server.
LEMMA BrokenServerHandled ==
  ASSUME TypeOK, Broken, NEW p, NEW r, NEW ok, NEW next, HandledThen(Server, p, r, ok, next),
         UNCHANGED <<picks, sent, got>>,
         ServerBroken(r.c, picks[Server], sent[Server], got[Server]),
         conn[Client].state = "OPEN" => r.c.state = "CLOSE_WAIT",
         \A x \in r.out : x.data = NoData
  PROVE Broken'
<1>1. /\ conn' = [conn EXCEPT ![Server] = r.c] /\ NewFrom(Server, r.out) /\ HandsKept
      /\ user' = user
  BY TransmitData DEF HandledThen, HandsKept
<1>2. ServerBroken(r.c, picks'[Server], sent'[Server], got'[Server]) /\ user'[Client] # "none"
      /\ got'[Client] = got[Client]
  BY <1>1 DEF Broken
<1> QED
  BY <1>1, <1>2, BrokenServerStep

\* The reset, and segments that it refuses.
LEMMA BrokenServerCloses ==
  ASSUME TypeOK, SlotInv, Broken, NEW p,
         \/ RstInClosed(Server, p) \/ RstInCloseWait(Server, p) \/ RstInSequence(Server, p)
         \/ NoSynInClosed(Server, p) \/ InvalidSyn(Server, p) \/ WrongAckInSynRcvd(Server, p)
  PROVE Broken'
<1> DEFINE t == Target(Server)
           n == picks[Server]
           s == sent[Server]
           g == got[Server]
<1>1. /\ ServerBroken(t, n, s, g) /\ ConnOK(t) /\ t.open /\ t.state = conn[Server].state
  BY ServerTarget
<1>2. UNCHANGED <<picks, sent, got>>
  BY DEF RstInClosed, RstInCloseWait, RstInSequence, NoSynInClosed, InvalidSyn, WrongAckInSynRcvd,
     Quiet, histVars
<1>3. conn[Client].state # "OPEN"
  <2>1. ASSUME RstInClosed(Server, p) \/ RstInCloseWait(Server, p) \/ RstInSequence(Server, p)
        PROVE conn[Client].state # "OPEN"
    <3>1. [to |-> Server, seg |-> p] \in net /\ "RST" \in p.flags
      BY <2>1 DEF RstInClosed, RstInCloseWait, RstInSequence, Arrives
    <3> QED
      BY <3>1 DEF Broken
  <2>2. ASSUME NoSynInClosed(Server, p) \/ InvalidSyn(Server, p) \/ WrongAckInSynRcvd(Server, p)
        PROVE conn[Client].state # "OPEN"
    <3>1. t.state # "CLOSE_WAIT"
      BY <2>2 DEF NoSynInClosed, InvalidSyn, WrongAckInSynRcvd, Acceptable, Receives
    <3> QED
      BY <1>1, <3>1 DEF Broken
  <2> QED
    BY <2>1, <2>2
<1>4. ASSUME NEW r, NEW ok, HandledThen(Server, p, r, ok, "idle"),
             ServerBroken(r.c, n, s, g), \A x \in r.out : x.data = NoData
      PROVE Broken'
  BY <1>2, <1>3, <1>4, BrokenServerHandled
<1>5. ASSUME NEW c, ConnOK(c), c.open, ServerBroken(c, n, s, g), NEW by \in SUBSET ClosedByAll, NEW ok,
             NEW r, r \in {ConnClose(c, by, ok), DiscardClose(c, by, ok)}
      PROVE ServerBroken(r.c, n, s, g) /\ \A x \in r.out : x.data = NoData
  <2>1. Quits(c, r) /\ Shut(r.c)
    BY <1>5, ConnCloseQuits, DiscardCloseQuits
  <2> QED
    BY <1>5, <2>1, BrokenQuits DEF Quits
<1>6. ASSUME NEW d, ConnOK(d), d.open, ServerBroken(d, n, s, g), NEW seg \in Segment, seg.data = NoData,
             NEW by \in SUBSET ClosedByAll, NEW ok \in BOOLEAN,
             HandledThen(Server, p,
               Result(DiscardClose(SendCmp(d, seg, ok).c, by, ok).c,
                      SendCmp(d, seg, ok).out \cup DiscardClose(SendCmp(d, seg, ok).c, by, ok).out),
               ok, "idle")
      PROVE Broken'
  <2> DEFINE r == SendCmp(d, seg, ok)
             f == DiscardClose(r.c, by, ok)
             z == Result(f.c, r.out \cup f.out)
  <2>1. ConnOK(r.c)
    BY <1>6, SendCmpType DEF ResultOK
  <2>2. Bare(r.c) = Bare(d) /\ r.out \subseteq {seg}
    BY <1>6, BareSent
  <2> HIDE DEF r
  <2>3. r.c.open /\ ServerBroken(r.c, n, s, g)
    BY <1>6, <2>2, BareEnough
  <2>4. ServerBroken(f.c, n, s, g) /\ \A x \in f.out : x.data = NoData
    BY <1>5, <1>6, <2>1, <2>3
  <2> HIDE DEF f
  <2>5. ServerBroken(z.c, n, s, g) /\ \A x \in z.out : x.data = NoData
    BY <1>6, <2>2, <2>4 DEF Result
  <2>6. HandledThen(Server, p, z, ok, "idle")
    BY <1>6 DEF z, f, r
  <2> HIDE DEF z
  <2> QED
    BY <1>4, <2>5, <2>6
<1> HIDE DEF n, s, g
<1>7. \A x \in SUBSET {"ACK", "RST"} : \A c : ConnOK(c) =>
        Cmp(x, c.nxt, c.cur) \in Segment /\ Cmp(x, c.nxt, c.cur).data = NoData
  BY CmpType DEF Cmp, ConnOK, Conn
<1>8. ConnOK(AckOfRst(t, p)) /\ AckOfRst(t, p).open /\ ServerBroken(AckOfRst(t, p), n, s, g)
  <2>1. p \in Segment
    <3>1. [to |-> Server, seg |-> p] \in net
      BY DEF RstInClosed, RstInCloseWait, RstInSequence, NoSynInClosed, InvalidSyn, WrongAckInSynRcvd,
         Acceptable, Receives, Arrives
    <3> QED
      BY <3>1 DEF TypeOK
  <2>2. ConnOK(AckOfRst(t, p))
    BY <1>1, <2>1, AckOfRstType
  <2> HIDE DEF t
  <2>3. Bare(AckOfRst(t, p)) = Bare(t)
    BY <1>1, BareAcked
  <2> QED
    BY <1>1, <2>2, <2>3, BareEnough
<1> HIDE DEF t
<1>9. CASE RstInClosed(Server, p)
  <2> DEFINE c == AckOfRst(t, p)
             r == IF c.socket THEN ConnClose(c, {ByUser}, TRUE) ELSE Result(c, {})
  <2>1. HandledThen(Server, p, r, TRUE, "idle")
    BY <1>9 DEF RstInClosed, Handled, t
  <2> HIDE DEF c
  <2>2. ServerBroken(r.c, n, s, g) /\ \A x \in r.out : x.data = NoData
    <3>1. ServerBroken(ConnClose(c, {ByUser}, TRUE).c, n, s, g)
          /\ \A x \in ConnClose(c, {ByUser}, TRUE).out : x.data = NoData
      BY <1>5, <1>8, ClosersType DEF c
    <3> QED
      BY <1>8, <3>1 DEF Result, c
  <2> HIDE DEF r
  <2> QED
    BY <1>4, <2>1, <2>2
<1>10. CASE RstInCloseWait(Server, p)
  <2>1. PICK by \in {{ByProtocol, ByTimeout}, {ByProtocol}} :
          HandledThen(Server, p, DiscardClose(AckOfRst(t, p), by, TRUE), TRUE, "idle")
    BY <1>10 DEF RstInCloseWait, Handled, t
  <2> DEFINE r == DiscardClose(AckOfRst(t, p), by, TRUE)
  <2>2. ServerBroken(r.c, n, s, g) /\ \A x \in r.out : x.data = NoData
    BY <1>5, <1>8, ClosersType
  <2> HIDE DEF r
  <2> QED
    BY <1>4, <2>1, <2>2 DEF r
<1>11. CASE RstInSequence(Server, p)
  <2> DEFINE c == [AckOfRst(t, p) EXCEPT !.state = "CLOSE_WAIT"]
             seg == Cmp({"ACK", "RST"}, c.nxt, c.cur)
  <2>1. PICK by \in {{ByProtocol, ByTimeout}, {ByProtocol}}, ok \in BOOLEAN :
             HandledThen(Server, p,
               Result(DiscardClose(SendCmp(c, seg, ok).c, by, ok).c,
                      SendCmp(c, seg, ok).out \cup DiscardClose(SendCmp(c, seg, ok).c, by, ok).out),
               ok, "idle")
    BY <1>11 DEF RstInSequence, Handled, t
  <2>2. ConnOK(c) /\ c.open /\ ServerBroken(c, n, s, g)
    <3> DEFINE d == AckOfRst(t, p)
    <3>1. ConnOK(d) /\ d.open /\ ServerBroken(d, n, s, g)
      BY <1>8
    <3>2. c = [d EXCEPT !.state = "CLOSE_WAIT"]
      OBVIOUS
    <3> HIDE DEF d, c
    <3>3. /\ ConnOK(c) /\ c.open /\ c.state = "CLOSE_WAIT" /\ c.rx = d.rx /\ c.rxq = d.rxq /\ c.txq = d.txq
      BY <3>1, <3>2 DEF ConnOK, Conn, RdpStates
    <3> QED
      BY <3>1, <3>3 DEF ServerBroken, Nothing
  <2>3. by \in SUBSET ClosedByAll /\ seg \in Segment /\ seg.data = NoData
    BY <1>7, <2>2, ClosersType
  <2> HIDE DEF c, seg
  <2> QED
    BY <1>6, <2>1, <2>2, <2>3
<1>12. CASE NoSynInClosed(Server, p)
  <2> DEFINE seg == Cmp({"RST"}, t.nxt, t.cur)
  <2>1. PICK ok \in BOOLEAN :
             HandledThen(Server, p,
               Result(DiscardClose(SendCmp(t, seg, ok).c, {ByProtocol}, ok).c,
                      SendCmp(t, seg, ok).out \cup DiscardClose(SendCmp(t, seg, ok).c, {ByProtocol}, ok).out),
               ok, "idle")
    BY <1>12 DEF NoSynInClosed, Handled, t
  <2>3. {ByProtocol} \in SUBSET ClosedByAll /\ seg \in Segment /\ seg.data = NoData
    BY <1>1, <1>7, ClosersType
  <2> HIDE DEF seg
  <2> QED
    BY <1>1, <1>6, <2>1, <2>3
<1>13. CASE InvalidSyn(Server, p) \/ WrongAckInSynRcvd(Server, p)
  <2>1. PICK ok \in BOOLEAN : HandledThen(Server, p, DiscardClose(t, {ByProtocol}, ok), ok, "idle")
    BY <1>13 DEF InvalidSyn, WrongAckInSynRcvd, Handled, t
  <2> DEFINE r == DiscardClose(t, {ByProtocol}, ok)
  <2>2. ServerBroken(r.c, n, s, g) /\ \A x \in r.out : x.data = NoData
    BY <1>1, <1>5, ClosersType
  <2> HIDE DEF r
  <2> QED
    BY <1>4, <2>1, <2>2 DEF r
<1> QED
  BY <1>9, <1>10, <1>11, <1>12, <1>13

\* The SYN/ACK of a connection that the first one is not.
LEMMA SynAckBroken ==
  ASSUME NEW c, ConnOK(c), NEW n, NEW s, NEW g, ServerBroken(c, n, s, g), NEW cloned, NEW ok
  PROVE LET r == SendSynAck(c, cloned, ok)
        IN /\ ServerBroken(r.c, n, s, g) /\ r.c.state = c.state
           /\ \A x \in r.out : x.data = NoData
<1> DEFINE seg == Cmp({"SYN", "ACK"}, c.iss, c.irs)
           b == [c EXCEPT !.txq = TxQueued(@, seg)]
           d == IF (ok \/ cloned) /\ TxRoom(c) THEN b ELSE c
           r == SendSynAck(c, cloned, ok)
<1>1. seg \in Segment /\ seg.data = NoData
  BY CmpType DEF Cmp, ConnOK, Conn
<1>2. /\ b.open = c.open /\ b.state = c.state /\ b.cur = c.cur /\ b.iss = c.iss
      /\ b.rx = c.rx /\ b.rxq = c.rxq /\ b.txq = TxQueued(c.txq, seg)
  BY DEF ConnOK, Conn
<1>3. ConnOK(b)
  BY <1>1, TxQueuedType
<1>4. \A x \in TxQueued(c.txq, seg) : x \in c.txq \/ x.seg.data = NoData
  <2> DEFINE stored == [seg EXCEPT !.ack = 0]
             k == Cardinality({x \in c.txq : x.seg = stored})
  <2>1. stored.data = NoData
    BY <1>1 DEF Segment
  <2>2. TxQueued(c.txq, seg) = c.txq \cup {[copy |-> k, seg |-> stored]}
    BY DEF TxQueued
  <2> HIDE DEF stored, k, seg
  <2> QED
    BY <2>1, <2>2
<1>5. r = SendCmp(d, seg, ok)
  BY DEF SendSynAck, SendSyn
<1> HIDE DEF b, seg
<1>6. ServerBroken(b, n, s, g)
  BY <1>2, <1>4 DEF ServerBroken, Nothing
<1>7. ConnOK(d) /\ ServerBroken(d, n, s, g) /\ d.state = c.state
  BY <1>2, <1>3, <1>6
<1> HIDE DEF d, r
<1>8. Bare(r.c) = Bare(d) /\ r.out \subseteq {seg}
  BY <1>5, <1>7, BareSent
<1>9. /\ ServerBroken(r.c, n, s, g) /\ r.c.state = c.state /\ \A x \in r.out : x.data = NoData
  BY <1>1, <1>7, <1>8, BareEnough
<1> QED
  BY <1>9 DEF r

\* Segments that the server's connection stores or answers.
LEMMA BrokenServerAnswers ==
  ASSUME TypeOK, SlotInv, Broken, NEW p,
         \/ RstOutOfSequence(Server, p) \/ DuplicateSyn(Server, p) \/ InvalidAck(Server, p)
         \/ IgnoredInCloseWait(Server, p) \/ AckInCloseWait(Server, p) \/ OutOfWindow(Server, p)
  PROVE Broken'
<1> DEFINE t == Target(Server)
           n == picks[Server]
           s == sent[Server]
           g == got[Server]
           a == [t EXCEPT !.una = Plus(p.ack, 1)]
           seg == Cmp({"ACK", "RST"}, a.nxt, a.cur)
<1>1. /\ ServerBroken(t, n, s, g) /\ ConnOK(t) /\ t.open /\ t.state = conn[Server].state
      /\ t.state \in {"CLOSED", "SYN_RCVD", "CLOSE_WAIT"}
      /\ conn[Client].state = "OPEN" => t.state = "CLOSE_WAIT"
  BY ServerTarget DEF Broken, ServerBroken
<1>2. UNCHANGED <<picks, sent, got>>
  BY DEF RstOutOfSequence, DuplicateSyn, InvalidAck, IgnoredInCloseWait, AckInCloseWait, OutOfWindow,
     Quiet, histVars
<1>3. ASSUME NEW r, NEW ok, HandledThen(Server, p, r, ok, "idle"),
             ServerBroken(r.c, n, s, g), r.c.state = t.state, \A x \in r.out : x.data = NoData
      PROVE Broken'
  BY <1>1, <1>2, <1>3, BrokenServerHandled
<1>4. p \in Segment
  <2>1. [to |-> Server, seg |-> p] \in net
    BY DEF RstOutOfSequence, DuplicateSyn, InvalidAck, IgnoredInCloseWait, AckInCloseWait, OutOfWindow,
       Receives, Arrives
  <2> QED
    BY <2>1 DEF TypeOK
<1>5. /\ Bare(t) = Bare(t) /\ Bare(AckOfRst(t, p)) = Bare(t) /\ Bare(a) = Bare(t) /\ ConnOK(a)
  <2>1. Plus(p.ack, 1) \in SeqNr
    <3>1. p.ack \in Int
      BY <1>4 DEF Segment, SeqNr
    <3> QED
      BY <3>1, PlusType
  <2>2. ConnOK(a)
    BY <1>1, <2>1 DEF ConnOK, Conn
  <2> HIDE DEF t
  <2> QED
    BY <1>1, <2>2, BareAcked
<1>6. seg \in Segment /\ seg.data = NoData
  BY <1>5, CmpType DEF Cmp, ConnOK, Conn
<1> HIDE DEF t, n, s, g, a, seg
<1>7. ASSUME NEW d \in {t, AckOfRst(t, p)}, HandledThen(Server, p, Result(d, {}), TRUE, "idle")
      PROVE Broken'
  <2> DEFINE r == Result(d, {})
  <2>1. Bare(r.c) = Bare(t) /\ r.out = {}
    BY <1>5 DEF Result
  <2>2. HandledThen(Server, p, r, TRUE, "idle")
    BY <1>7
  <2> HIDE DEF r
  <2>3. ServerBroken(r.c, n, s, g) /\ r.c.state = t.state
    BY <1>1, <2>1, BareEnough
  <2> QED
    BY <1>3, <2>1, <2>2, <2>3
<1>8. CASE RstOutOfSequence(Server, p)
  BY <1>7, <1>8 DEF RstOutOfSequence, Handled, t
<1>9. CASE DuplicateSyn(Server, p) \/ InvalidAck(Server, p) \/ IgnoredInCloseWait(Server, p)
  BY <1>7, <1>9 DEF DuplicateSyn, InvalidAck, IgnoredInCloseWait, Handled, t
<1>10. CASE AckInCloseWait(Server, p)
  <2>1. PICK ok \in BOOLEAN : HandledThen(Server, p, SendCmp(a, seg, ok), ok, "idle")
    BY <1>10 DEF AckInCloseWait, Handled, t, a, seg
  <2> DEFINE r == SendCmp(a, seg, ok)
  <2>2. Bare(r.c) = Bare(a) /\ r.out \subseteq {seg}
    BY <1>5, BareSent
  <2>3. HandledThen(Server, p, r, ok, "idle")
    BY <2>1
  <2> HIDE DEF r
  <2>4. Bare(r.c) = Bare(t)
    BY <1>5, <2>2
  <2>5. ServerBroken(r.c, n, s, g) /\ r.c.state = t.state
    BY <1>1, <2>4, BareEnough
  <2> QED
    BY <1>3, <1>6, <2>2, <2>3, <2>5
<1>11. CASE OutOfWindow(Server, p)
  <2>1. t.state = "SYN_RCVD"
    BY <1>1, <1>11 DEF OutOfWindow, Receives, t
  <2>2. PICK ok \in BOOLEAN, cloned \in BOOLEAN :
          HandledThen(Server, p, SendSynAck(t, cloned, ok), ok, "idle")
    BY <1>11, <2>1 DEF OutOfWindow, Handled, t
  <2> DEFINE r == SendSynAck(t, cloned, ok)
  <2>3. ServerBroken(r.c, n, s, g) /\ r.c.state = t.state /\ \A x \in r.out : x.data = NoData
    BY <1>1, SynAckBroken
  <2>4. HandledThen(Server, p, r, ok, "idle")
    BY <2>2
  <2> HIDE DEF r
  <2> QED
    BY <1>3, <2>3, <2>4
<1> QED
  BY <1>8, <1>9, <1>10, <1>11

\* A late SYN begins another connection.
LEMMA BrokenSyn ==
  ASSUME TypeOK, SlotInv, Broken, NEW p, SynInClosed(Server, p)
  PROVE Broken'
<1> DEFINE t == Target(Server)
           n == picks[Server] + 1
           c == [t EXCEPT !.iss = Pick(Server), !.nxt = Plus(Pick(Server), 1), !.una = Pick(Server),
                          !.cur = p.seq, !.irs = p.seq, !.lsa = p.seq, !.state = "SYN_RCVD"]
           r(ok, cloned) == SendSynAck(c, cloned, ok)
<1>1. /\ ServerBroken(t, picks[Server], sent[Server], got[Server]) /\ ConnOK(t)
      /\ t.state = conn[Server].state
  BY ServerTarget
<1>2. /\ Arrives(Server, p) /\ t.state = "CLOSED" /\ CanPick(Server)
      /\ picks' = [picks EXCEPT ![Server] = n] /\ sent' = [sent EXCEPT ![Server] = 0]
      /\ got' = [got EXCEPT ![Server] = <<>>]
  BY DEF SynInClosed, Receives
<1>3. PICK ok \in BOOLEAN, cloned \in BOOLEAN : HandledThen(Server, p, r(ok, cloned), ok, "idle")
  BY DEF SynInClosed, Handled
<1>4. Client \in Endpoint /\ Server \in Endpoint /\ Client # Server
  BY DEF Endpoint, Client, Server
<1>5. /\ n \in 2..Len(IssOf[Server]) /\ Pick(Server) = IssOf[Server][n] /\ Pick(Server) \in SeqNr
  <2>1. picks[Server] \in Nat /\ Len(IssOf[Server]) \in Nat
    BY <1>4, IssAssumption DEF TypeOK
  <2>2. picks[Server] >= 1 /\ picks[Server] < Len(IssOf[Server])
    BY <1>2 DEF Broken, ServerBroken, CanPick
  <2>3. n \in 2..Len(IssOf[Server])
    BY <2>1, <2>2
  <2> QED
    BY <1>2, <1>4, <2>3, PickType DEF Pick
<1>6. ConnOK(c)
  <2>1. Plus(Pick(Server), 1) \in SeqNr /\ p.seq \in SeqNr
    <3>1. Pick(Server) \in Int
      BY <1>5 DEF SeqNr
    <3>2. p.seq \in SeqNr
      BY <1>2 DEF Arrives, TypeOK, Segment
    <3> QED
      BY <3>1, <3>2, PlusType
  <2> HIDE DEF t
  <2> QED
    BY <1>1, <1>5, <2>1 DEF ConnOK, Conn, RdpStates
<1>7. /\ c.state = "SYN_RCVD" /\ c.iss = IssOf[Server][n] /\ c.rx = t.rx /\ c.rxq = t.rxq
      /\ c.txq = t.txq
  <2> HIDE DEF t, n
  <2> QED
    BY <1>1, <1>5 DEF ConnOK, Conn
<1>8. ServerBroken(c, n, 0, <<>>)
  <2> HIDE DEF t, n, c
  <2>1. n >= 1
    BY <1>5
  <2> QED
    BY <1>1, <1>5, <1>7, <2>1 DEF ServerBroken, Nothing
<1> HIDE DEF c, t
<1>9. /\ ServerBroken(r(ok, cloned).c, n, 0, <<>>) /\ \A x \in r(ok, cloned).out : x.data = NoData
  BY <1>6, <1>8, SynAckBroken
<1>10. conn[Client].state # "OPEN"
  BY <1>1, <1>2 DEF Broken
<1>11. /\ conn' = [conn EXCEPT ![Server] = r(ok, cloned).c] /\ NewFrom(Server, r(ok, cloned).out)
       /\ HandsKept /\ user' = user
  BY <1>3, TransmitData DEF HandledThen, HandsKept
<1> HIDE DEF r
<1>12. ServerBroken(r(ok, cloned).c, picks'[Server], sent'[Server], got'[Server])
       /\ got'[Client] = got[Client]
  BY <1>2, <1>4, <1>9 DEF TypeOK
<1>13. user'[Client] # "none"
  BY <1>11 DEF Broken
<1> QED
  BY <1>9, <1>10, <1>11, <1>12, <1>13, BrokenServerStep

\* Nothing opens the server's connection: what arrives acknowledges the first.
LEMMA NeverOpens ==
  ASSUME NewIss, TypeOK, SlotInv, Broken, NEW p
  PROVE /\ ~DropUnknown(Server, p) /\ ~SynAckInSynSent(Server, p) /\ ~HalfOpen(Server, p)
        /\ ~BacklogFull(Server, p) /\ ~HandshakeDone(Server, p) /\ ~DataInOpen(Server, p)
<1> DEFINE t == Target(Server)
<1>1. ServerBroken(t, picks[Server], sent[Server], got[Server])
  BY ServerTarget
<1>2. t.state \in {"CLOSED", "SYN_RCVD", "CLOSE_WAIT"}
  BY <1>1 DEF ServerBroken
<1>3. ASSUME Acceptable(Server, p, {"SYN_RCVD"}), AcksIss(t, p) PROVE FALSE
  <2>1. /\ [to |-> Server, seg |-> p] \in net /\ "SYN" \notin p.flags /\ "RST" \notin p.flags
        /\ t.state = "SYN_RCVD"
    BY <1>3 DEF Acceptable, Receives, Arrives, BadFlags
  <2>2. p.ack = IssOf[Server][1]
    BY <2>1 DEF Broken, OfTheFirst
  <2>3. p.ack = t.iss
    BY <1>3 DEF AcksIss
  <2>4. picks[Server] \in 2..Len(IssOf[Server]) /\ t.iss = IssOf[Server][picks[Server]]
    BY <1>1, <2>1 DEF ServerBroken
  <2> QED
    BY <2>2, <2>3, <2>4 DEF NewIss
<1> QED
  BY <1>2, <1>3 DEF DropUnknown, SynAckInSynSent, HalfOpen, BacklogFull, HandshakeDone, DataInOpen,
     Acceptable, Receives

\* What the client may send: nothing that a connection it has can take for a
\* part of another.
ClientSays(c, x) == ("RST" \in x.flags => c.state # "OPEN") /\ OfTheFirst(x)

\* A call of csp_rdp_new_packet for the client.
LEMMA BrokenClientHandled ==
  ASSUME TypeOK, Broken, NEW p, NEW r, NEW ok, NEW next, HandledThen(Client, p, r, ok, next),
         UNCHANGED <<picks, sent, got>>, ClientBroken(r.c, got[Client]),
         r.c.state = "OPEN" => conn[Client].state = "OPEN",
         \A x \in r.out : ClientSays(r.c, x)
  PROVE Broken'
<1>1. /\ conn' = [conn EXCEPT ![Client] = r.c] /\ NewFrom(Client, r.out)
      /\ user' = user /\ hand' = hand
  BY TransmitData DEF HandledThen
<1>2. ClientBroken(r.c, got'[Client]) /\ user'[Client] # "none"
  BY <1>1 DEF Broken
<1> QED
  BY <1>1, <1>2, BrokenClientStep DEF ClientSays

\* What arrives at the client's connection.
LEMMA ClientTarget ==
  ASSUME TypeOK, SlotInv, Broken, NEW p, Arrives(Client, p)
  PROVE LET c == conn[Client]
        IN /\ Target(Client) = c /\ ConnOK(c) /\ c.open /\ c.state \in {"OPEN", "CLOSE_WAIT"}
           /\ ClientBroken(c, got[Client]) /\ p \in Segment /\ p.data = NoData
           /\ c.cur = IssOf[Server][1]
<1> DEFINE c == conn[Client]
<1>1. Client \in Endpoint /\ Client # Server
  BY DEF Endpoint, Client, Server
<1>2. c.open /\ ConnOK(c) /\ c.state # "CLOSED"
  <2>1. ConnOK(c) /\ c.open
    BY <1>1 DEF Arrives, TypeOK, ConnOK
  <2> QED
    BY <1>1, <2>1 DEF SlotInv, SlotOK
<1>3. p \in Segment /\ p.data = NoData
  <2>1. [to |-> Client, seg |-> p] \in net
    BY DEF Arrives
  <2> QED
    BY <2>1 DEF TypeOK, Broken
<1>4. ClientBroken(c, got[Client])
  BY DEF Broken
<1>5. Target(Client) = c
  BY <1>2 DEF Target
<1>6. c.state \in {"OPEN", "CLOSE_WAIT"} /\ c.cur = IssOf[Server][1]
  BY <1>2, <1>4 DEF ClientBroken
<1> QED
  BY <1>2, <1>3, <1>4, <1>5, <1>6

\* The client learns that its connection is closed.
LEMMA BrokenClientCloses ==
  ASSUME TypeOK, SlotInv, Broken, NEW p,
         RstInCloseWait(Client, p) \/ RstInSequence(Client, p) \/ InvalidSyn(Client, p)
  PROVE Broken'
<1> DEFINE c == conn[Client]
           g == got[Client]
<1>1. Arrives(Client, p)
  BY DEF RstInCloseWait, RstInSequence, InvalidSyn, Receives
<1>2. /\ Target(Client) = c /\ ConnOK(c) /\ c.open /\ c.state \in {"OPEN", "CLOSE_WAIT"}
      /\ ClientBroken(c, g) /\ p \in Segment
  BY <1>1, ClientTarget
<1>3. UNCHANGED <<picks, sent, got>>
  BY DEF RstInCloseWait, RstInSequence, InvalidSyn, Quiet, histVars
<1>4. ASSUME NEW r, NEW ok, HandledThen(Client, p, r, ok, "idle"),
             ClientBroken(r.c, g), Shut(r.c), \A x \in r.out : "RST" \in x.flags
      PROVE Broken'
  BY <1>3, <1>4, BrokenClientHandled DEF Shut, ClientSays, OfTheFirst
<1>5. ASSUME NEW d, ConnOK(d), d.open, ClientBroken(d, g), d.state # "CLOSED",
             NEW by \in SUBSET ClosedByAll, NEW ok
      PROVE LET r == DiscardClose(d, by, ok)
            IN ClientBroken(r.c, g) /\ Shut(r.c) /\ \A x \in r.out : "RST" \in x.flags
  <2> DEFINE r == DiscardClose(d, by, ok)
  <2>1. Quits(d, r) /\ Shut(r.c)
    BY <1>5, DiscardCloseQuits
  <2> HIDE DEF r
  <2>2. ClientBroken(r.c, g) /\ Shut(r.c) /\ \A x \in r.out : "RST" \in x.flags
    BY <1>5, <2>1, BrokenQuits DEF Quits
  <2> QED
    BY <2>2 DEF r
<1> DEFINE a == AckOfRst(c, p)
<1>6. ConnOK(a) /\ a.open /\ a.state = c.state /\ ClientBroken(a, g)
  <2>1. ConnOK(a)
    BY <1>2, AckOfRstType
  <2> HIDE DEF c
  <2>2. Bare(a) = Bare(c)
    BY <1>2, BareAcked
  <2> HIDE DEF a
  <2> QED
    BY <1>2, <2>1, <2>2, BareEnough
<1> HIDE DEF a, c, g
<1>7. CASE RstInCloseWait(Client, p)
  <2>1. PICK by \in {{ByProtocol, ByTimeout}, {ByProtocol}} :
          HandledThen(Client, p, DiscardClose(a, by, TRUE), TRUE, "idle")
    BY <1>2, <1>7 DEF RstInCloseWait, Handled, a
  <2> DEFINE r == DiscardClose(a, by, TRUE)
  <2>2. ClientBroken(r.c, g) /\ Shut(r.c) /\ \A x \in r.out : "RST" \in x.flags
    BY <1>2, <1>5, <1>6, ClosersType
  <2>3. HandledThen(Client, p, r, TRUE, "idle")
    BY <2>1
  <2> HIDE DEF r
  <2> QED
    BY <1>4, <2>2, <2>3
<1>8. CASE RstInSequence(Client, p)
  <2> DEFINE d == [a EXCEPT !.state = "CLOSE_WAIT"]
             seg == Cmp({"ACK", "RST"}, d.nxt, d.cur)
  <2>1. PICK by \in {{ByProtocol, ByTimeout}, {ByProtocol}}, ok \in BOOLEAN :
             HandledThen(Client, p,
               Result(DiscardClose(SendCmp(d, seg, ok).c, by, ok).c,
                      SendCmp(d, seg, ok).out \cup DiscardClose(SendCmp(d, seg, ok).c, by, ok).out),
               ok, "idle")
    BY <1>2, <1>8 DEF RstInSequence, Handled, a
  <2>2. /\ ConnOK(d) /\ d.open /\ ClientBroken(d, g) /\ d.state # "CLOSED"
    <3>1. /\ ConnOK(d) /\ d.open /\ d.state = "CLOSE_WAIT" /\ d.rx = a.rx /\ d.rxq = a.rxq
          /\ d.txq = a.txq /\ d.cur = a.cur
      BY <1>6 DEF ConnOK, Conn, RdpStates
    <3> HIDE DEF d
    <3> QED
      BY <1>2, <1>6, <3>1 DEF ClientBroken, Nothing
  <2>3. by \in SUBSET ClosedByAll /\ seg \in Segment /\ "RST" \in seg.flags
    BY <2>2, ClosersType, CmpType DEF Cmp, ConnOK, Conn
  <2> HIDE DEF d, seg
  <2> DEFINE r == SendCmp(d, seg, ok)
             f == DiscardClose(r.c, by, ok)
             z == Result(f.c, r.out \cup f.out)
  <2>4. ConnOK(r.c)
    BY <2>2, <2>3, SendCmpType DEF ResultOK
  <2>5. Bare(r.c) = Bare(d) /\ r.out \subseteq {seg}
    BY <2>2, BareSent
  <2>6. HandledThen(Client, p, z, ok, "idle")
    BY <2>1
  <2> HIDE DEF r
  <2>7. r.c.open /\ ClientBroken(r.c, g) /\ r.c.state # "CLOSED"
    BY <2>2, <2>5, BareEnough
  <2>8. ClientBroken(f.c, g) /\ Shut(f.c) /\ \A x \in f.out : "RST" \in x.flags
    BY <1>5, <2>3, <2>4, <2>7
  <2> HIDE DEF f
  <2>9. ClientBroken(z.c, g) /\ Shut(z.c) /\ \A x \in z.out : "RST" \in x.flags
    BY <2>3, <2>5, <2>8 DEF Result
  <2> HIDE DEF z
  <2> QED
    BY <1>4, <2>6, <2>9
<1>9. CASE InvalidSyn(Client, p)
  <2>1. PICK ok \in BOOLEAN : HandledThen(Client, p, DiscardClose(c, {ByProtocol}, ok), ok, "idle")
    BY <1>2, <1>9 DEF InvalidSyn, Handled
  <2> DEFINE r == DiscardClose(c, {ByProtocol}, ok)
  <2>2. ClientBroken(r.c, g) /\ Shut(r.c) /\ \A x \in r.out : "RST" \in x.flags
    BY <1>2, <1>5, ClosersType
  <2>3. HandledThen(Client, p, r, ok, "idle")
    BY <2>1
  <2> HIDE DEF r
  <2> QED
    BY <1>4, <2>2, <2>3
<1> QED
  BY <1>7, <1>8, <1>9

\* Segments that the client's connection stores or answers.
LEMMA BrokenClientAnswers ==
  ASSUME TypeOK, SlotInv, Broken, NEW p,
         \/ RstOutOfSequence(Client, p) \/ DuplicateSyn(Client, p) \/ InvalidAck(Client, p)
         \/ IgnoredInCloseWait(Client, p) \/ AckInCloseWait(Client, p) \/ OutOfWindow(Client, p)
         \/ DataInOpen(Client, p)
  PROVE Broken'
<1> DEFINE t == conn[Client]
           g == got[Client]
           a == [t EXCEPT !.una = Plus(p.ack, 1)]
           seg == Cmp({"ACK", "RST"}, a.nxt, a.cur)
           eack == [Cmp({"ACK", "EAK"}, t.nxt, t.cur) EXCEPT !.eacks = {s.seq : s \in t.rxq}]
<1>0. Arrives(Client, p)
  BY DEF RstOutOfSequence, DuplicateSyn, InvalidAck, IgnoredInCloseWait, AckInCloseWait, OutOfWindow,
     DataInOpen, Acceptable, Receives
<1>1. /\ Target(Client) = t /\ ConnOK(t) /\ t.open /\ t.state \in {"OPEN", "CLOSE_WAIT"}
      /\ ClientBroken(t, g) /\ p \in Segment /\ p.data = NoData /\ t.cur = IssOf[Server][1]
  BY <1>0, ClientTarget
<1>2. UNCHANGED <<picks, sent, got>>
  BY DEF RstOutOfSequence, DuplicateSyn, InvalidAck, IgnoredInCloseWait, AckInCloseWait, OutOfWindow,
     DataInOpen, Quiet, histVars
<1>3. ASSUME NEW r, NEW ok, NEW next, HandledThen(Client, p, r, ok, next),
             ClientBroken(r.c, g), r.c.state = t.state, \A x \in r.out : ClientSays(r.c, x)
      PROVE Broken'
  BY <1>2, <1>3, BrokenClientHandled
<1>4. /\ Bare(t) = Bare(t) /\ Bare(AckOfRst(t, p)) = Bare(t) /\ Bare(a) = Bare(t) /\ ConnOK(a)
  <2>1. Plus(p.ack, 1) \in SeqNr
    <3>1. p.ack \in Int
      BY <1>1 DEF Segment, SeqNr
    <3> QED
      BY <3>1, PlusType
  <2>2. ConnOK(a)
    BY <1>1, <2>1 DEF ConnOK, Conn
  <2> HIDE DEF t
  <2> QED
    BY <1>1, <2>2, BareAcked
<1>5. "RST" \in seg.flags
  BY DEF Cmp
<1>6. "RST" \notin eack.flags /\ eack.ack = IssOf[Server][1]
  BY <1>1 DEF Cmp
<1> HIDE DEF t, g, a, seg, eack
<1>7. ASSUME NEW d, Bare(d) = Bare(t), NEW next, HandledThen(Client, p, Result(d, {}), TRUE, next)
      PROVE Broken'
  <2> DEFINE r == Result(d, {})
  <2>1. Bare(r.c) = Bare(t) /\ r.out = {}
    BY <1>7 DEF Result
  <2>2. HandledThen(Client, p, r, TRUE, next)
    BY <1>7
  <2> HIDE DEF r
  <2>3. ClientBroken(r.c, g) /\ r.c.state = t.state
    BY <1>1, <2>1, BareEnough
  <2> QED
    BY <1>3, <2>1, <2>2, <2>3
<1>8. CASE RstOutOfSequence(Client, p)
  BY <1>1, <1>4, <1>7, <1>8 DEF RstOutOfSequence, Handled
<1>9. CASE DuplicateSyn(Client, p) \/ InvalidAck(Client, p) \/ IgnoredInCloseWait(Client, p)
  BY <1>1, <1>7, <1>9 DEF DuplicateSyn, InvalidAck, IgnoredInCloseWait, Handled
<1>10. CASE AckInCloseWait(Client, p)
  <2>1. PICK ok \in BOOLEAN : HandledThen(Client, p, SendCmp(a, seg, ok), ok, "idle")
    BY <1>1, <1>10 DEF AckInCloseWait, Handled, a, seg
  <2>2. t.state = "CLOSE_WAIT"
    BY <1>1, <1>10 DEF AckInCloseWait, Receives
  <2> DEFINE r == SendCmp(a, seg, ok)
  <2>3. Bare(r.c) = Bare(a) /\ r.out \subseteq {seg}
    BY <1>4, BareSent
  <2>4. HandledThen(Client, p, r, ok, "idle")
    BY <2>1
  <2> HIDE DEF r
  <2>5. ClientBroken(r.c, g) /\ r.c.state = t.state
    BY <1>1, <1>4, <2>3, BareEnough
  <2>6. \A x \in r.out : ClientSays(r.c, x)
    BY <1>5, <2>2, <2>3, <2>5 DEF ClientSays, OfTheFirst
  <2> QED
    BY <1>3, <2>4, <2>5, <2>6
<1>11. CASE OutOfWindow(Client, p)
  <2>1. t.state = "OPEN"
    BY <1>1, <1>11 DEF OutOfWindow, Receives
  <2>2. PICK ok \in BOOLEAN : HandledThen(Client, p, SendEack(t, ok), ok, "idle")
    BY <1>1, <1>11, <2>1 DEF OutOfWindow, Handled
  <2> DEFINE r == SendCmp(t, eack, ok)
  <2>3. Bare(r.c) = Bare(t) /\ r.out \subseteq {eack}
    BY <1>1, BareSent
  <2>4. HandledThen(Client, p, r, ok, "idle")
    BY <2>2 DEF SendEack, eack
  <2> HIDE DEF r
  <2>5. ClientBroken(r.c, g) /\ r.c.state = t.state
    BY <1>1, <2>3, BareEnough
  <2>6. \A x \in r.out : ClientSays(r.c, x)
    BY <1>6, <2>3 DEF ClientSays, OfTheFirst
  <2> QED
    BY <1>3, <2>4, <2>5, <2>6
<1>12. CASE DataInOpen(Client, p)
  <2>1. PICK ok \in BOOLEAN, due \in BOOLEAN : HandledData(Client, p, t, due, ok)
    BY <1>1, <1>12 DEF DataInOpen
  <2> DEFINE r == HandleData(t, p, due, ok)
  <2>2. PICK next : HandledThen(Client, p, r, ok, next)
    BY <2>1 DEF HandledData
  <2>3. r = Result(a, {}) \/ r = Result(FlushEack(a, p.eacks), {})
    BY <1>1 DEF HandleData, a
  <2> HIDE DEF r
  <2>4. CASE r = Result(a, {})
    <3>1. ClientBroken(a, g) /\ a.state = t.state
      BY <1>1, <1>4, BareEnough
    <3>2. r.c = a /\ r.out = {}
      BY <2>4 DEF Result
    <3> QED
      BY <1>3, <2>2, <3>1, <3>2
  <2>5. CASE r = Result(FlushEack(a, p.eacks), {})
    <3> DEFINE b == FlushEack(a, p.eacks)
    <3>1. ClientBroken(a, g) /\ a.state = t.state
      BY <1>1, <1>4, BareEnough
    <3>2. /\ b.state = a.state /\ b.cur = a.cur /\ b.rx = a.rx /\ b.rxq = a.rxq /\ b.txq \subseteq a.txq
      BY <1>4 DEF FlushEack, ConnOK, Conn
    <3>3. r.c = b /\ r.out = {}
      BY <2>5 DEF Result
    <3> HIDE DEF b
    <3>4. ClientBroken(b, g)
      BY <3>1, <3>2 DEF ClientBroken, Nothing
    <3> QED
      BY <1>3, <2>2, <3>1, <3>2, <3>3, <3>4
  <2> QED
    BY <2>3, <2>4, <2>5
<1> QED
  BY <1>8, <1>9, <1>10, <1>11, <1>12

\* csp_rdp_new_packet after the server has given the connection up.
LEMMA BrokenArrival ==
  ASSUME NewIss, TypeOK, SlotInv, Broken, Arrival
  PROVE Broken'
<1>1. PICK m \in net : NewPacket(m.to, m.seg)
  BY DEF Arrival
<1>2. m.to \in Endpoint
  BY DEF TypeOK
<1>3. CASE m.to = Server
  <2> DEFINE p == m.seg
  <2>1. NewPacket(Server, p)
    BY <1>1, <1>3
  <2> HIDE DEF p
  <2> QED
    BY <2>1, BrokenServerCloses, BrokenServerAnswers, BrokenSyn, NeverOpens DEF NewPacket
<1>4. CASE m.to = Client
  <2> DEFINE p == m.seg
  <2>1. NewPacket(Client, p)
    BY <1>1, <1>4
  <2> HIDE DEF p
  <2>2. CASE DropUnknown(Client, p)
    <3> DEFINE r == Result(conn[Client], {})
    <3>1. HandledThen(Client, p, r, TRUE, "idle") /\ UNCHANGED <<picks, sent, got>>
      BY <2>2 DEF DropUnknown, Handled, Quiet, histVars
    <3>2. r.c = conn[Client] /\ r.out = {}
      BY DEF Result
    <3> HIDE DEF r
    <3>3. ClientBroken(r.c, got[Client])
      BY <3>2 DEF Broken
    <3>4. \A x \in r.out : ClientSays(r.c, x)
      BY <3>2
    <3> QED
      BY <3>1, <3>2, <3>3, <3>4, BrokenClientHandled
  <2>3. CASE Arrives(Client, p)
    <3>1. Target(Client).state \in {"OPEN", "CLOSE_WAIT"}
      BY <2>3, ClientTarget
    <3>2. /\ ~RstInClosed(Client, p) /\ ~NoSynInClosed(Client, p) /\ ~SynInClosed(Client, p)
          /\ ~SynAckInSynSent(Client, p) /\ ~HalfOpen(Client, p) /\ ~WrongAckInSynRcvd(Client, p)
          /\ ~BacklogFull(Client, p) /\ ~HandshakeDone(Client, p)
      BY <3>1 DEF RstInClosed, NoSynInClosed, SynInClosed, SynAckInSynSent, HalfOpen, WrongAckInSynRcvd,
         BacklogFull, HandshakeDone, Acceptable, Receives
    <3> QED
      BY <2>1, <2>2, <3>2, BrokenClientCloses, BrokenClientAnswers DEF NewPacket
  <2>4. DropUnknown(Client, p) \/ Arrives(Client, p)
    BY <2>1 DEF NewPacket, RstInClosed, RstInCloseWait, RstInSequence, RstOutOfSequence, NoSynInClosed,
       SynInClosed, SynAckInSynSent, HalfOpen, DuplicateSyn, InvalidSyn, OutOfWindow, InvalidAck,
       WrongAckInSynRcvd, BacklogFull, HandshakeDone, DataInOpen, IgnoredInCloseWait, AckInCloseWait,
       Acceptable, Receives
  <2> QED
    BY <2>2, <2>3, <2>4
<1> QED
  BY <1>2, <1>3, <1>4 DEF Endpoint

----------------------------------------------------------------------------
\* The server has given the connection up: the user tasks and the timers.

\* csp_rdp_check_ack.
LEMMA BareCheckAck ==
  ASSUME NEW c, ConnOK(c), NEW due, NEW ok
  PROVE LET r == CheckAck(c, due, ok)
        IN Bare(r.c) = Bare(c) /\ \A x \in r.out : x = Cmp({"ACK"}, c.nxt, c.cur)
<1> DEFINE seg == Cmp({"ACK"}, c.nxt, c.cur)
           r == SendCmp(c, seg, ok)
           u == Result(c, {})
<1>1. Bare(r.c) = Bare(c) /\ r.out \subseteq {seg}
  BY BareSent
<1>2. u.c = c /\ u.out = {}
  BY DEF Result
<1>3. CheckAck(c, due, ok) \in {r, u}
  BY DEF CheckAck
<1> HIDE DEF r, u, seg
<1>4. Bare(CheckAck(c, due, ok).c) = Bare(c) /\ \A x \in CheckAck(c, due, ok).out : x = seg
  BY <1>1, <1>2, <1>3
<1> QED
  BY <1>4 DEF seg

\* The client's user or router sends, and the state of its connection stays.
LEMMA BrokenClientSends ==
  ASSUME TypeOK, Broken, NEW r, conn' = [conn EXCEPT ![Client] = r.c],
         ClientBroken(r.c, got[Client]), r.c.state = conn[Client].state,
         \A x \in r.out : "RST" \notin x.flags /\ OfTheFirst(x),
         NewFrom(Client, r.out), HandsKept, UNCHANGED <<picks, sent, got>>, user'[Client] # "none"
  PROVE Broken'
<1>1. Client \in Endpoint /\ Server \in Endpoint
  BY DEF Endpoint
<1> QED
  BY <1>1, BrokenClientStep DEF HandsKept

\* The server's user or router sends, and the state of its connection stays.
LEMMA BrokenServerSends ==
  ASSUME TypeOK, Broken, NEW r, conn' = [conn EXCEPT ![Server] = r.c],
         ServerBroken(r.c, picks[Server], sent[Server], got[Server]),
         r.c.state = conn[Server].state, \A x \in r.out : x.data = NoData,
         NewFrom(Server, r.out), HandsKept, UNCHANGED <<picks, sent, got>>, user'[Client] # "none"
  PROVE Broken'
<1>1. conn[Client].state = "OPEN" => r.c.state = "CLOSE_WAIT"
  BY DEF Broken
<1> QED
  BY <1>1, BrokenServerStep

\* csp_connect learns that the connection is open, or that it is closed again.
LEMMA BrokenConnecting ==
  ASSUME Stays, TypeOK, SlotInv, Broken, Connecting
  PROVE Broken'
<1> DEFINE c == conn[Client]
<1>0. Client \in Endpoint /\ Server \in Endpoint /\ Client # Server /\ Peer(Client) = Server
  BY DEF Endpoint, Peer, Client, Server
<1>1. ConnOK(c) /\ ClientBroken(c, got[Client]) /\ user[Client] # "none"
  BY <1>0 DEF TypeOK, ConnOK, Broken
<1>2. ~Connect /\ ~ConnectRetry /\ ~ConnectTimeout
  BY <1>1 DEF Connect, ConnectRetry, ConnectTimeout, ClientBroken, Stays
<1>3. CASE ConnectOpened
  <2> DEFINE d == [c EXCEPT !.sem = FALSE]
  <2>1. View(d) = View(c)
    BY <1>1 DEF View, ConnOK, Conn
  <2>2. conn' = [conn EXCEPT ![Client] = d]
    BY <1>3 DEF ConnectOpened
  <2> HIDE DEF d
  <2>3. UNCHANGED <<picks, sent, got, net>> /\ HandsKept /\ user'[Client] # "none"
    BY <1>0, <1>3 DEF ConnectOpened, TypeOK, envVars, histVars, HandsKept
  <2> QED
    BY <1>0, <2>1, <2>2, <2>3, BrokenView
<1>4. CASE ConnectRefused
  <2> DEFINE q(ok) == RdpClose(c, {ByProtocol}, FALSE, ok)
             r(ok) == ConnClose(q(ok).c, {ByUser}, ok)
  <2>1. PICK ok \in BOOLEAN :
          /\ conn' = [conn EXCEPT ![Client] = r(ok).c] /\ Transmit(Client, {}, r(ok).out)
          /\ user' = [user EXCEPT ![Client] = "closed"] /\ UNCHANGED <<hand, picks, sent, got>>
    BY <1>4 DEF ConnectRefused, ConnectFails, histVars
  <2>2. c.state # "OPEN" /\ c.state \in {"CLOSE_WAIT", "CLOSED"} /\ c.open
    <3>1. ~UserDone(Client)
      BY <1>4 DEF ConnectRefused, UserDone
    <3> QED
      BY <1>0, <1>1, <1>4, <3>1 DEF ConnectRefused, ClientBroken, SlotInv, SlotOK
  <2>3. Quits(c, q(ok)) /\ Shut(q(ok).c) /\ ConnOK(q(ok).c)
    BY <1>1, ClosersType, RdpCloseQuits, RdpCloseType DEF ResultOK
  <2>4. c.state = "CLOSE_WAIT"
    BY <1>0, <2>2 DEF SlotInv, SlotOK
  <2> HIDE DEF c
  <2>5. ClientBroken(q(ok).c, got[Client])
    BY <1>1, <2>3, <2>4, BrokenQuits
  <2> DEFINE d == q(ok).c
  <2> HIDE DEF q
  <2>6. Quits(d, r(ok)) /\ (d.open \/ Shut(d) => Shut(r(ok).c))
    BY <2>3, ClosersType, ConnCloseQuits
  <2>7. Shut(d)
    BY <2>3
  <2>8. d.state = "CLOSED" => r(ok).c.state = "CLOSED"
    <3> SUFFICES ASSUME d.state = "CLOSED" PROVE r(ok).c.state = "CLOSED"
      OBVIOUS
    <3>1. RdpClose(d, {ByUser}, TRUE, ok).c = d
      BY DEF RdpClose, Result
    <3>2. d.state = "CLOSED" => Released(d).state = "CLOSED"
      BY <2>3 DEF Released, ConnOK, Conn
    <3> QED
      BY <3>1, <3>2 DEF ConnClose, Result
  <2> HIDE DEF d, r
  <2>9. ClientBroken(r(ok).c, got[Client]) /\ Shut(r(ok).c)
    BY <2>5, <2>6, <2>7, <2>8, BrokenQuits DEF d
  <2>10. \A x \in r(ok).out : ("RST" \in x.flags => r(ok).c.state # "OPEN") /\ OfTheFirst(x)
    BY <2>6, <2>9 DEF Quits, Shut, OfTheFirst
  <2>11. NewFrom(Client, r(ok).out) /\ user'[Client] = "closed" /\ user'[Server] = user[Server]
    BY <1>0, <2>1, TransmitData DEF TypeOK
  <2> QED
    BY <1>0, <2>1, <2>9, <2>10, <2>11, BrokenClientStep DEF Shut
<1> QED
  BY <1>2, <1>3, <1>4 DEF Connecting

\* csp_read returns the NULL packet.
LEMMA BrokenRead ==
  ASSUME TypeOK, SlotInv, Broken, NEW e \in Endpoint, Read(e)
  PROVE Broken' /\ Head(conn[e].rx) = Null /\ got' = got
<1> DEFINE c == conn[e]
           b == [c EXCEPT !.rx = Tail(@)]
           r(ok, due) == IF DelayedAcks THEN CheckAck(b, due, ok) ELSE Result(b, {})
           seg == Cmp({"ACK"}, b.nxt, b.cur)
<1>1. PICK ok \in BOOLEAN, due \in BOOLEAN :
        conn' = [conn EXCEPT ![e] = r(ok, due).c] /\ Transmit(e, {}, r(ok, due).out)
  BY DEF Read
<1>2. Nothing(c, got[e])
  BY DEF Broken, ClientBroken, ServerBroken, Endpoint
<1>3. c.rx \in Seq(Payload) /\ c.rx # <<>> /\ ConnOK(c) /\ c.open
  BY DEF Read, TypeOK, ConnOK, Conn
<1>4. /\ Tail(c.rx) \in Seq(Payload) /\ Head(c.rx) = Null /\ OnlyNull(Tail(c.rx))
  <2> DEFINE q == c.rx
  <2>1. q \in Seq(Payload) /\ q # <<>> /\ OnlyNull(q)
    BY <1>2, <1>3 DEF Nothing
  <2> HIDE DEF c, q
  <2>2. Tail(q) \in Seq(Payload) /\ Len(Tail(q)) = Len(q) - 1 /\ Len(q) \in Nat
        /\ \A i \in 1..Len(Tail(q)) : Tail(q)[i] = q[i + 1]
    BY <2>1, HeadTailProperties
  <2>3. Len(q) >= 1 /\ Head(q) = q[1]
    BY <2>1
  <2>4. \A i \in 1..Len(Tail(q)) : i + 1 \in 1..Len(q)
    BY <2>2
  <2> QED
    BY <2>1, <2>2, <2>3, <2>4 DEF OnlyNull, q
<1>5. /\ ConnOK(b) /\ b.state = c.state /\ b.cur = c.cur /\ b.iss = c.iss /\ b.txq = c.txq
      /\ b.rxq = c.rxq /\ OnlyNull(b.rx)
  BY <1>3, <1>4 DEF ConnOK, Conn
<1>6. got' = got /\ UNCHANGED <<picks, sent, user, hand>>
  BY <1>4 DEF Read
<1>7. seg.data = NoData /\ seg.flags = {"ACK"} /\ seg.ack = c.cur
  BY <1>5 DEF Cmp
<1> HIDE DEF b, c
<1>8. Bare(r(ok, due).c) = Bare(b) /\ \A x \in r(ok, due).out : x = seg
  <2> DEFINE a == CheckAck(b, due, ok)
             u == Result(b, {})
  <2>1. Bare(a.c) = Bare(b) /\ \A x \in a.out : x = seg
    BY <1>5, BareCheckAck
  <2>2. u.c = b /\ u.out = {}
    BY DEF Result
  <2>3. r(ok, due) \in {a, u}
    OBVIOUS
  <2> HIDE DEF a, u, r, seg
  <2> QED
    BY <2>1, <2>2, <2>3
<1> HIDE DEF r, seg
<1>9. NewFrom(e, r(ok, due).out) /\ HandsKept /\ user'[Client] # "none"
  BY <1>1, <1>6, TransmitData DEF HandsKept, Broken
<1>10. CASE e = Client
  <2>1. ClientBroken(b, got[Client]) /\ c.state # "CLOSED"
    BY <1>3, <1>5, <1>10 DEF Broken, ClientBroken, Nothing, SlotInv, SlotOK, c
  <2>2. ClientBroken(r(ok, due).c, got[Client]) /\ r(ok, due).c.state = conn[Client].state
    BY <1>5, <1>8, <1>10, <2>1, BareEnough DEF c
  <2>3. c.cur = IssOf[Server][1]
    BY <1>5, <2>1 DEF ClientBroken
  <2>4. \A x \in r(ok, due).out : "RST" \notin x.flags /\ OfTheFirst(x)
    BY <1>7, <1>8, <2>3 DEF OfTheFirst
  <2>5. Broken'
    BY <1>1, <1>6, <1>9, <1>10, <2>2, <2>4, BrokenClientSends
  <2> QED
    BY <1>4, <1>6, <2>5 DEF c
<1>11. CASE e = Server
  <2>1. ServerBroken(b, picks[Server], sent[Server], got[Server])
    BY <1>5, <1>11 DEF Broken, ServerBroken, Nothing, c
  <2>2. ServerBroken(r(ok, due).c, picks[Server], sent[Server], got[Server])
        /\ r(ok, due).c.state = conn[Server].state
    BY <1>5, <1>8, <1>11, <2>1, BareEnough DEF c
  <2>4. \A x \in r(ok, due).out : x.data = NoData
    BY <1>7, <1>8
  <2>5. Broken'
    BY <1>1, <1>6, <1>9, <1>11, <2>2, <2>4, BrokenServerSends
  <2> QED
    BY <1>4, <1>6, <2>5 DEF c
<1> QED
  BY <1>10, <1>11 DEF Endpoint

\* csp_send: the client composes a segment that nobody will take.
LEMMA BrokenRdpSend ==
  ASSUME TypeOK, SlotInv, Broken, NEW e \in Endpoint, RdpSend(e)
  PROVE Broken' /\ e = Client
<1> DEFINE c == conn[e]
           seg == [Cmp({"ACK"}, c.nxt, c.cur) EXCEPT !.data = <<picks[e], sent[e] + 1>>]
           sem == c.sem /\ user[e] = "ready"
           b == [c EXCEPT !.txq = TxQueued(@, seg), !.nxt = Plus(@, 1), !.sem = sem]
           r == Result(b, {})
<1>1. /\ conn' = [conn EXCEPT ![e] = b] /\ hand' = [hand EXCEPT ![e] = seg]
      /\ user' = [user EXCEPT ![e] = "sending"] /\ sent' = [sent EXCEPT ![e] = @ + 1]
      /\ UNCHANGED <<net, picks, got>> /\ c.state = "OPEN"
  BY DEF RdpSend, TypeOK, envVars, ConnOK, Conn
<1>2. e = Client /\ Client # Server /\ Server \in Endpoint
  BY <1>1 DEF Broken, ServerBroken, Endpoint, Client, Server
<1>3. ClientBroken(c, got[Client]) /\ ConnOK(c)
  BY <1>2 DEF Broken, TypeOK, ConnOK
<1>4. seg.flags = {"ACK"} /\ seg.ack = IssOf[Server][1]
  BY <1>1, <1>3 DEF ClientBroken, Cmp
<1>5. /\ b.state = c.state /\ b.cur = c.cur /\ b.rx = c.rx /\ b.rxq = c.rxq
      /\ b.txq = TxQueued(c.txq, seg)
  BY <1>3 DEF ConnOK, Conn
<1>6. \A x \in b.txq : x \in c.txq \/ x.seg.flags = {"ACK"}
  <2> DEFINE stored == [seg EXCEPT !.ack = 0]
             k == Cardinality({x \in c.txq : x.seg = stored})
  <2>1. stored.flags = {"ACK"}
    BY <1>4
  <2>2. b.txq = c.txq \cup {[copy |-> k, seg |-> stored]}
    BY <1>5 DEF TxQueued
  <2> HIDE DEF stored, k, seg, b
  <2> QED
    BY <2>1, <2>2
<1> HIDE DEF seg, sem
<1>7. r.c = b /\ r.out = {}
  BY DEF Result
<1> HIDE DEF b, r
<1>8. ClientBroken(r.c, got'[Client])
  BY <1>1, <1>3, <1>5, <1>6, <1>7 DEF ClientBroken, Nothing
<1>9. /\ r.c.state = "OPEN" => conn[Client].state = "OPEN"
      /\ \A x \in r.out : ("RST" \in x.flags => r.c.state # "OPEN") /\ OfTheFirst(x)
      /\ NewFrom(Client, r.out)
  BY <1>1, <1>2, <1>7 DEF NewFrom
<1>10. /\ user'[Server] = user[Server] /\ hand'[Server] = hand[Server]
       /\ user'[Client] = "sending" /\ hand'[Client] = seg /\ sent'[Server] = sent[Server]
  BY <1>1, <1>2 DEF TypeOK
<1>11. "RST" \notin hand'[Client].flags /\ OfTheFirst(hand'[Client])
  BY <1>4, <1>10 DEF OfTheFirst
<1> HIDE DEF c
<1>12. conn' = [conn EXCEPT ![Client] = r.c]
  BY <1>1, <1>2, <1>7
<1>13. Broken'
  BY <1>1, <1>8, <1>9, <1>10, <1>11, <1>12, BrokenClientStep
<1> QED
  BY <1>2, <1>13

\* The other steps of the user tasks.
LEMMA BrokenPlainUser ==
  ASSUME TypeOK, Broken, NEW e \in Endpoint,
         SendBlocks(e) \/ SendWakes(e) \/ SendNoBufs(e) \/ SendOut(e)
  PROVE Broken'
<1>0. user[Client] # "none" /\ Client \in Endpoint /\ Server \in Endpoint /\ Client # Server
      /\ ConnOK(conn[e])
  BY DEF Broken, Endpoint, Client, Server, TypeOK, ConnOK
<1>1. CASE SendBlocks(e)
  <2>1. /\ UNCHANGED <<conn, picks, sent, got>> /\ net' \subseteq net /\ HandsKept
        /\ user'[Client] # "none"
    BY <1>0, <1>1 DEF SendBlocks, TypeOK, envVars, histVars, HandsKept
  <2> QED
    BY <2>1, BrokenSame
<1>2. CASE SendWakes(e) \/ SendNoBufs(e)
  <2>1. PICK b : conn' = [conn EXCEPT ![e] = [conn[e] EXCEPT !.sem = b]]
    BY <1>2 DEF SendWakes, SendNoBufs
  <2> DEFINE a == [conn[e] EXCEPT !.sem = b]
  <2>2. View(a) = View(conn[e])
    BY <1>0 DEF View, ConnOK, Conn
  <2>3. conn' = [conn EXCEPT ![e] = a]
    BY <2>1
  <2> HIDE DEF a
  <2>4. /\ UNCHANGED <<picks, sent, got, net, hand>>
        /\ user' = user \/ user' = [user EXCEPT ![e] = "ready"]
    BY <1>2 DEF SendWakes, SendNoBufs, envVars, histVars
  <2>5. HandsKept /\ user'[Client] # "none"
    BY <1>0, <2>4 DEF TypeOK, HandsKept
  <2> QED
    BY <2>2, <2>3, <2>4, <2>5, BrokenView
<1>3. CASE SendOut(e)
  <2>1. PICK out : (out = {} \/ out = {hand[e]}) /\ NewFrom(e, out)
    BY <1>3, TransmitData DEF SendOut
  <2> DEFINE r == Result(conn[e], out)
  <2>2. r.c = conn[e] /\ r.out = out /\ conn' = [conn EXCEPT ![e] = r.c]
    BY <1>3, <2>1 DEF SendOut, Result, TypeOK
  <2> HIDE DEF r
  <2>3. /\ UNCHANGED <<picks, sent, got>> /\ user[e] = "sending" /\ HandsKept /\ user'[Client] # "none"
    BY <1>0, <1>3 DEF SendOut, TypeOK, HandsKept
  <2>4. CASE e = Client
    <3>1. ClientBroken(r.c, got[Client]) /\ r.c.state = conn[Client].state
          /\ \A x \in r.out : "RST" \notin x.flags /\ OfTheFirst(x)
      BY <2>1, <2>2, <2>3, <2>4 DEF Broken
    <3> QED
      BY <2>1, <2>2, <2>3, <2>4, <3>1, BrokenClientSends
  <2>5. CASE e = Server
    <3>1. ServerBroken(r.c, picks[Server], sent[Server], got[Server])
          /\ r.c.state = conn[Server].state /\ \A x \in r.out : x.data = NoData
      BY <2>1, <2>2, <2>3, <2>5 DEF Broken
    <3> QED
      BY <2>1, <2>2, <2>3, <2>5, <3>1, BrokenServerSends
  <2> QED
    BY <2>4, <2>5 DEF Endpoint
<1> QED
  BY <1>1, <1>2, <1>3

\* What r has sent for connection c are acknowledgements and copies of what
\* waits in tx_queue, from which the call may have freed some.
Resends(c, r) ==
  /\ r.c.state = c.state /\ r.c.cur = c.cur /\ r.c.iss = c.iss /\ r.c.rx = c.rx
  /\ r.c.rxq = c.rxq /\ r.c.txq \subseteq c.txq
  /\ \A x \in r.out :
       x = Cmp({"ACK"}, c.nxt, c.cur) \/ \E y \in c.txq : x = [y.seg EXCEPT !.ack = c.cur]

\* csp_rdp_check_timeouts sends again what waits.
LEMMA BareRetransmitted ==
  ASSUME NEW c, ConnOK(c), NEW expired \in SUBSET c.txq, NEW due, NEW ok
  PROVE Resends(c, Retransmitted(c, expired, due, ok))
<1> DEFINE c1 == [c EXCEPT !.txq = Unacked(c)]
           again == IF ok THEN {[x.seg EXCEPT !.ack = c.cur] : x \in expired} ELSE {}
           k == CheckAck(c1, due, ok)
           u == Result(c1, {})
           r == IF DelayedAcks THEN k ELSE u
           z == [r.c EXCEPT !.sem = @ \/ ReadyForTx(c)]
           q == Retransmitted(c, expired, due, ok)
<1>1. Unacked(c) \subseteq c.txq
  BY DEF Unacked
<1>2. /\ ConnOK(c1) /\ c1.state = c.state /\ c1.cur = c.cur /\ c1.iss = c.iss /\ c1.rx = c.rx
      /\ c1.rxq = c.rxq /\ c1.txq \subseteq c.txq /\ c1.nxt = c.nxt
  BY <1>1, FS_Subset DEF ConnOK, Conn
<1>3. \A x \in again : \E y \in c.txq : x = [y.seg EXCEPT !.ack = c.cur]
  OBVIOUS
<1>4. u.c = c1 /\ u.out = {}
  BY DEF Result
<1> HIDE DEF c1, again, u
<1>5. Bare(k.c) = Bare(c1) /\ ConnOK(k.c) /\ \A x \in k.out : x = Cmp({"ACK"}, c1.nxt, c1.cur)
  BY <1>2, BareCheckAck, CheckAckType DEF ResultOK
<1> HIDE DEF k
<1>6. Bare(r.c) = Bare(c1) /\ ConnOK(r.c) /\ \A x \in r.out : x = Cmp({"ACK"}, c.nxt, c.cur)
  BY <1>2, <1>4, <1>5
<1> HIDE DEF r
<1>7. Bare(z) = Bare(r.c)
  BY <1>6 DEF Bare, ConnOK, Conn
<1> HIDE DEF z
<1>8. \/ q.c = c1 /\ q.out = again
      \/ q.c = z /\ q.out = again \cup r.out
  BY DEF Retransmitted, Result, c1, again, k, u, r, z
<1> HIDE DEF q
<1>9. Bare(q.c) = Bare(c1)
  BY <1>6, <1>7, <1>8
<1>10. /\ q.c.state = c.state /\ q.c.cur = c.cur /\ q.c.iss = c.iss /\ q.c.rx = c.rx
       /\ q.c.rxq = c.rxq /\ q.c.txq \subseteq c.txq
  BY <1>2, <1>9 DEF Bare
<1>11. \A x \in q.out :
         \/ x = Cmp({"ACK"}, c.nxt, c.cur)
         \/ \E y \in c.txq : x = [y.seg EXCEPT !.ack = c.cur]
  BY <1>3, <1>6, <1>8
<1>12. Resends(c, q)
  BY <1>10, <1>11 DEF Resends
<1> QED
  BY <1>12 DEF q

\* csp_rdp_check_timeouts.
LEMMA BrokenCheckTimeouts ==
  ASSUME Stays, TypeOK, SlotInv, Broken, NEW e \in Endpoint, CheckTimeouts(e)
  PROVE Broken'
<1>1. CASE CheckNothing(e)
  <2>1. /\ UNCHANGED <<conn, picks, sent, got>> /\ net' \subseteq net /\ HandsKept
        /\ user'[Client] # "none"
    BY <1>1 DEF CheckNothing, RouterUnchanged, histVars, HandsKept, Broken
  <2> QED
    BY <2>1, BrokenSame
<1>2. CASE CheckMessages(e)
  <2> DEFINE c == conn[e]
  <2>1. PICK ok \in BOOLEAN, due \in BOOLEAN, expired \in SUBSET Unacked(c) :
          Checked(e, Retransmitted(c, expired, due, ok), ok)
    BY <1>2 DEF CheckMessages
  <2>2. expired \in SUBSET c.txq /\ ConnOK(c) /\ c.state # "CLOSE_WAIT" /\ c.state # "CLOSED"
    BY <1>2, <2>1 DEF CheckMessages, Unacked, TypeOK, ConnOK, SlotInv, SlotOK
  <2> DEFINE r == Retransmitted(c, expired, due, ok)
  <2>3. /\ conn' = [conn EXCEPT ![e] = r.c] /\ NewFrom(e, r.out) /\ HandsKept
        /\ UNCHANGED <<picks, sent, got>> /\ user'[Client] # "none"
    BY <2>1, TransmitData DEF Checked, RouterUnchanged, histVars, HandsKept, Broken
  <2> HIDE DEF c
  <2>4. Resends(c, r)
    BY <2>2, BareRetransmitted
  <2> HIDE DEF r
  <2>5. \A y \in c.txq : y.seg \in Segment
    BY <2>2 DEF ConnOK, Conn
  <2>6. CASE e = Client
    <3>1. ClientBroken(c, got[Client])
      BY <2>6 DEF Broken, c
    <3>2. c.cur = IssOf[Server][1] /\ ClientBroken(r.c, got[Client])
      BY <2>2, <2>4, <3>1 DEF ClientBroken, Nothing, Resends
    <3>3. ASSUME NEW x \in r.out PROVE "RST" \notin x.flags /\ OfTheFirst(x)
      <4>1. CASE x = Cmp({"ACK"}, c.nxt, c.cur)
        BY <3>2, <4>1 DEF Cmp, OfTheFirst
      <4>2. CASE \E y \in c.txq : x = [y.seg EXCEPT !.ack = c.cur]
        <5>1. PICK y \in c.txq : x = [y.seg EXCEPT !.ack = c.cur]
          BY <4>2
        <5>2. "RST" \notin y.seg.flags /\ y.seg \in Segment
          BY <2>5, <3>1 DEF ClientBroken
        <5>3. x.flags = y.seg.flags /\ x.ack = c.cur
          BY <5>1, <5>2 DEF Segment
        <5> QED
          BY <3>2, <5>2, <5>3 DEF OfTheFirst
      <4> QED
        BY <2>4, <4>1, <4>2 DEF Resends
    <3>4. r.c.state = conn[Client].state
      BY <2>4, <2>6 DEF c, Resends
    <3> QED
      BY <2>3, <2>6, <3>2, <3>3, <3>4, BrokenClientSends
  <2>7. CASE e = Server
    <3>1. ServerBroken(c, picks[Server], sent[Server], got[Server])
      BY <2>7 DEF Broken, c
    <3>2. ServerBroken(r.c, picks[Server], sent[Server], got[Server])
      BY <2>4, <3>1 DEF ServerBroken, Nothing, Resends
    <3>3. ASSUME NEW x \in r.out PROVE x.data = NoData
      <4>1. CASE x = Cmp({"ACK"}, c.nxt, c.cur)
        BY <4>1 DEF Cmp
      <4>2. CASE \E y \in c.txq : x = [y.seg EXCEPT !.ack = c.cur]
        <5>1. PICK y \in c.txq : x = [y.seg EXCEPT !.ack = c.cur]
          BY <4>2
        <5>2. y.seg.data = NoData /\ y.seg \in Segment
          BY <2>5, <3>1 DEF ServerBroken
        <5> QED
          BY <5>1, <5>2 DEF Segment
      <4> QED
        BY <2>4, <4>1, <4>2 DEF Resends
    <3>4. r.c.state = conn[Server].state
      BY <2>4, <2>7 DEF c, Resends
    <3> QED
      BY <2>3, <2>7, <3>2, <3>3, <3>4, BrokenServerSends
  <2> QED
    BY <2>6, <2>7 DEF Endpoint
<1> QED
  BY <1>1, <1>2 DEF CheckTimeouts, LostConnection, CloseWaitTimeout, Stays

\* A connection that is given up stays so: no message is delivered.
LEMMA BrokenNext ==
  ASSUME Stays, NewIss, TypeOK, SlotInv, Broken, [Next]_vars
  PROVE Broken'
<1>0. user[Client] # "none" /\ Client # Server /\ Client \in Endpoint
  BY DEF Broken, Client, Server, Endpoint
<1>1. CASE (\E m \in net : Lose(m)) \/ UNCHANGED vars
  <2>1. /\ UNCHANGED <<conn, picks, sent, got, user, hand>> /\ net' \subseteq net
    BY <1>1 DEF Lose, vars, envVars, histVars
  <2> QED
    BY <1>0, <2>1, BrokenSame DEF HandsKept
<1>2. CASE Arrival
  BY <1>2, BrokenArrival
<1>3. CASE Connecting
  BY <1>3, BrokenConnecting
<1>4. CASE Accept
  <2>1. /\ UNCHANGED <<conn, picks, sent, got>> /\ net' \subseteq net /\ HandsKept
        /\ user'[Client] # "none"
    BY <1>0, <1>4 DEF Accept, TypeOK, envVars, HandsKept
  <2> QED
    BY <2>1, BrokenSame
<1>5. ASSUME NEW e \in Endpoint, UserTask(e) PROVE Broken'
  <2>1. ~SendTimeout(e) /\ ~Close(e)
    BY DEF Stays, SendTimeout, Close
  <2> QED
    BY <1>5, <2>1, BrokenPlainUser, BrokenRdpSend, BrokenRead DEF UserTask
<1>6. ASSUME NEW e \in Endpoint, CheckTimeouts(e) PROVE Broken'
  BY <1>6, BrokenCheckTimeouts
<1>7. ASSUME NEW e \in Endpoint PROVE ~FlushNext(e)
  <2>1. conn[e].rxq = {}
    BY DEF Broken, ClientBroken, ServerBroken, Nothing, Endpoint
  <2> QED
    BY <2>1 DEF FlushNext, NextStored
<1>8. ~Reboot
  BY SizeAssumption DEF Stays, Reboot, TypeOK
<1> QED
  BY <1>1, <1>2, <1>3, <1>4, <1>5, <1>6, <1>7, <1>8 DEF Next

\* A client that has given up does nothing more, and nothing comes from it.
LEMMA FailedNext ==
  ASSUME Stays, TypeOK, SlotInv, Failed, [Next]_vars
  PROVE Failed' /\ UNCHANGED <<conn, sent, got>>
<1>0. Client # Server /\ Client \in Endpoint /\ Server \in Endpoint /\ Endpoint = {Client, Server}
  BY DEF Client, Server, Endpoint
<1>1. /\ user[Client] = "closed" /\ user[Server] \in {"none", "closed"} /\ ~backlog
      /\ ~conn[Server].open /\ conn[Server].state = "CLOSED"
      /\ conn[Client].open => conn[Client].state = "CLOSE_WAIT"
  <2>1. conn[Server].state = "CLOSED" /\ user[Client] = "closed"
    BY DEF Failed
  <2>2. ~conn[Server].open
    BY <1>0, <2>1 DEF SlotInv, SlotOK, TypeOK, Conn
  <2>3. UserDone(Server)
    BY <1>0, <2>2 DEF SlotInv, SlotOK, TypeOK, Conn
  <2>4. conn[Client].open => conn[Client].state = "CLOSE_WAIT"
    BY <1>0 DEF SlotInv, SlotOK, Failed
  <2> QED
    BY <2>1, <2>2, <2>3, <2>4 DEF UserDone
<1>2. ~Connecting /\ ~Accept /\ ~Arrival /\ ~\E m \in net : Lose(m)
  BY <1>1 DEF Connecting, Connect, ConnectOpened, ConnectRetry, ConnectRefused, ConnectTimeout, Accept,
     Arrival, Failed
<1>3. ASSUME NEW e \in Endpoint PROVE ~UserTask(e) /\ ~FlushNext(e)
  <2>1. user[e] \in {"none", "closed"} /\ conn[e].rxq = {}
    BY <1>0, <1>1 DEF Failed, Nothing
  <2>2. ~UserTask(e)
    BY <2>1 DEF UserTask, SendBlocks, SendWakes, SendTimeout, RdpSend, SendNoBufs, SendOut, Read, Close
  <2> QED
    BY <2>1, <2>2 DEF FlushNext, NextStored
<1>4. ASSUME NEW e \in Endpoint, CheckTimeouts(e) PROVE UNCHANGED <<conn, net, user, sent, got>>
  <2>1. conn[e].open => conn[e].state = "CLOSE_WAIT"
    BY <1>0, <1>1
  <2>2. CheckNothing(e)
    BY <1>4, <2>1 DEF CheckTimeouts, LostConnection, CloseWaitTimeout, CheckMessages, Stays
  <2> QED
    BY <2>2 DEF CheckNothing, RouterUnchanged, histVars
<1>5. ~Reboot
  BY SizeAssumption DEF Stays, Reboot, TypeOK
<1>6. UNCHANGED <<conn, net, user, sent, got>>
  BY <1>2, <1>3, <1>4, <1>5 DEF Next, vars, histVars
<1> QED
  BY <1>6 DEF Failed

\* The inductive invariant holds at the start.
LEMMA StayInit == NewIss /\ Init => Agree /\ ClientUses
<1> SUFFICES ASSUME NewIss, Init PROVE Agree /\ ClientUses
  OBVIOUS
<1>0. Client # Server /\ Client \in Endpoint /\ Server \in Endpoint /\ Endpoint = {Client, Server}
  BY DEF Client, Server, Endpoint
<1>1. \A e \in Endpoint :
        /\ conn[e] = InitConn /\ user[e] = "none" /\ sent[e] = 0 /\ got[e] = <<>> /\ picks[e] = 0
        /\ Peer(e) \in Endpoint
  BY <1>0 DEF Init, Peer
<1>2. net = {}
  BY DEF Init
<1>3. Opening /\ ClientUses
  BY <1>0, <1>1 DEF Opening, InitConn, ClientUses
<1>4. ASSUME NEW e \in Endpoint PROVE EndOK(e, conn[e], Context(e))
  <2> DEFINE c == conn[e]
             v == Context(e)
  <2>1. /\ c.state = "CLOSED" /\ c.rx = <<>> /\ c.rxq = {} /\ c.txq = {}
        /\ v.n = 0 /\ v.s = 0 /\ v.g = <<>> /\ v.q = 0 /\ v.h = <<>> /\ v.d = InitConn
    BY <1>1 DEF InitConn, Context
  <2>2. MsgLimit[e] \in Nat /\ MsgLimit[Peer(e)] \in Nat /\ Window \in Nat
    BY <1>1, IssType, SizeAssumption
  <2>3. Has(c, v.g) = 0 /\ InTurn(v.g, c.rx) /\ Has(v.d, v.h) = 0
    <3>1. InitConn.rx = <<>>
      BY DEF InitConn
    <3> HIDE DEF c, v
    <3> QED
      BY <2>1, <3>1, HasNothing
  <2> HIDE DEF c, v
  <2>4. Own(e, c, v.n, v.s, v.g, v.q)
    BY <2>1, <2>2, <2>3 DEF Own
  <2>5. Across(e, c, v.s, v.d, v.h)
    BY <2>1, <2>2, <2>3 DEF Across
  <2> QED
    BY <2>4, <2>5 DEF EndOK, c, v
<1>5. \A e \in Endpoint : user[e] # "sending"
  BY <1>1
<1> QED
  BY <1>2, <1>3, <1>4, <1>5 DEF Agree

\* Every step keeps the invariant.
LEMMA StayNext ==
  ASSUME Stays, NewIss, Ample, TypeOK, TypeOK', SlotInv, ClientUses, FlushFindsRoom, StayInv,
         [Next]_vars
  PROVE StayInv'
<1>1. CASE Agree
  BY <1>1, AgreeNext
<1>2. CASE Broken
  BY <1>2, BrokenNext DEF StayInv
<1>3. CASE Failed
  BY <1>3, FailedNext DEF StayInv
<1> QED
  BY <1>1, <1>2, <1>3 DEF StayInv

----------------------------------------------------------------------------
\* The messages in a queue.

\* A set of naturals has a least element.
LEMMA Least ==
  ASSUME NEW T, T \subseteq Nat, T # {}
  PROVE  \E x \in T : \A y \in T : ~(y < x)
<1> DEFINE R == OpToRel(<, Nat)
<1>1. IsWellFoundedOn(R, Nat)
  BY NatLessThanWellFounded
<1>2. \A x, y \in Nat : x < y <=> <<x, y>> \in R
  BY DEF OpToRel
<1> HIDE DEF R
<1>3. \E x \in T : \A y \in T : ~(<<y, x>> \in R)
  BY <1>1, WFMin
<1> QED
  BY <1>2, <1>3

\* f[i] is what the first i elements of queue q leave.
Leaves(f, q) ==
  f = [i \in 0..Len(q) |->
         IF i = 0 THEN <<>> ELSE IF q[i] = Null THEN f[i - 1] ELSE Append(f[i - 1], q[i])]

\* Only one function does that, so Messages is its last value.
LEMMA MessagesAre ==
  ASSUME NEW q, Len(q) \in Nat, NEW g, Leaves(g, q)
  PROVE Messages(q) = g[Len(q)]
<1> DEFINE kept == CHOOSE f : Leaves(f, q)
           n == Len(q)
           T == {i \in 0..n : kept[i] # g[i]}
<1>1. Leaves(kept, q)
  OBVIOUS
<1>2. Messages(q) = kept[n]
  BY DEF Messages, Leaves
<1> HIDE DEF kept
<1>3. \A i \in 1..n : i - 1 \in 0..n /\ i - 1 < i /\ i \in 0..n /\ i # 0
  OBVIOUS
<1>4. kept[0] = <<>> /\ g[0] = <<>>
  <2>1. 0 \in 0..Len(q)
    OBVIOUS
  <2> QED
    BY <1>1, <2>1 DEF Leaves
<1>5. \A i \in 1..n :
        /\ kept[i] = IF q[i] = Null THEN kept[i - 1] ELSE Append(kept[i - 1], q[i])
        /\ g[i] = IF q[i] = Null THEN g[i - 1] ELSE Append(g[i - 1], q[i])
  BY <1>1, <1>3 DEF Leaves
<1>6. T = {}
  <2> SUFFICES ASSUME T # {} PROVE FALSE
    OBVIOUS
  <2>1. T \subseteq Nat
    OBVIOUS
  <2>2. PICK i \in T : \A j \in T : ~(j < i)
    BY <2>1, Least
  <2>3. i \in 1..n
    BY <1>4, <2>2
  <2>4. kept[i - 1] = g[i - 1]
    BY <1>3, <2>2, <2>3
  <2>5. kept[i] = g[i]
    BY <1>5, <2>3, <2>4
  <2> QED
    BY <2>2, <2>5
<1>7. n \in 0..n
  OBVIOUS
<1> HIDE DEF n
<1>8. kept[n] = g[n]
  BY <1>6, <1>7
<1> QED
  BY <1>2, <1>8 DEF n

\* A queue without the NULL packet holds messages only.
LEMMA MessagesAll ==
  ASSUME NEW q \in Seq(Payload), \A i \in 1..Len(q) : q[i] # Null
  PROVE Messages(q) = q
<1> DEFINE n == Len(q)
           p(j) == [k \in 1..j |-> q[k]]
           g == [j \in 0..n |-> p(j)]
<1>1. n \in Nat /\ q = p(n)
  OBVIOUS
<1>2. \A j \in 0..n : p(j) \in Seq(Payload) /\ Len(p(j)) = j
  OBVIOUS
<1>3. p(0) = <<>>
  OBVIOUS
<1>4. \A j \in 1..n : p(j) = Append(p(j - 1), q[j])
  <2> SUFFICES ASSUME NEW j \in 1..n PROVE p(j) = Append(p(j - 1), q[j])
    OBVIOUS
  <2> DEFINE a == p(j)
             b == p(j - 1)
  <2>1. a \in Seq(Payload) /\ Len(a) = j /\ b \in Seq(Payload) /\ Len(b) = j - 1
    BY <1>2
  <2>2. /\ a \in [1..j -> Payload] /\ b = [k \in 1..(j - 1) |-> q[k]] /\ q[j] \in Payload
        /\ \A k \in 1..j : a[k] = q[k]
        /\ \A k \in 1..(j - 1) : b[k] = q[k]
    OBVIOUS
  <2> DEFINE c == Append(b, q[j])
  <2> HIDE DEF a, b
  <2>3. c \in Seq(Payload) /\ Len(c) = j /\ c[j] = q[j] /\ \A k \in 1..(j - 1) : c[k] = q[k]
    BY <2>1, <2>2
  <2> HIDE DEF c
  <2>4. \A k \in 1..j : k = j \/ k \in 1..(j - 1)
    OBVIOUS
  <2>5. \A k \in 1..j : a[k] = c[k]
    BY <2>2, <2>3, <2>4
  <2>6. a = c
    BY <2>1, <2>3, <2>5
  <2> QED
    BY <2>6 DEF a, b, c
<1>5. Leaves(g, q)
  <2>1. \A j \in 0..n : g[j] = p(j)
    OBVIOUS
  <2>2. \A j \in 0..n : j # 0 => j \in 1..n /\ j - 1 \in 0..n
    BY <1>1
  <2>3. \A j \in 0..n :
          g[j] = IF j = 0 THEN <<>> ELSE IF q[j] = Null THEN g[j - 1] ELSE Append(g[j - 1], q[j])
    <3> HIDE DEF p, g
    <3> QED
      BY <1>3, <1>4, <2>1, <2>2
  <2>4. g = [j \in 0..n |-> g[j]]
    OBVIOUS
  <2> HIDE DEF g
  <2> QED
    BY <2>3, <2>4 DEF Leaves
<1>6. Messages(q) = g[n]
  <2> HIDE DEF g
  <2> QED
    BY <1>1, <1>5, MessagesAre
<1>7. g[n] = p(n)
  BY <1>1
<1> QED
  BY <1>1, <1>6, <1>7

\* A queue of NULL packets holds no message.
LEMMA MessagesNone ==
  ASSUME NEW q \in Seq(Payload), OnlyNull(q)
  PROVE Messages(q) = <<>>
<1> DEFINE g == [j \in 0..Len(q) |-> <<>>]
<1>1. Leaves(g, q) /\ Len(q) \in Nat
  <2>1. \A j \in 0..Len(q) : g[j] = <<>>
    OBVIOUS
  <2>2. \A j \in 0..Len(q) : j # 0 => j \in 1..Len(q) /\ j - 1 \in 0..Len(q)
    OBVIOUS
  <2>3. \A j \in 0..Len(q) :
          g[j] = IF j = 0 THEN <<>> ELSE IF q[j] = Null THEN g[j - 1] ELSE Append(g[j - 1], q[j])
    BY <2>1, <2>2 DEF OnlyNull
  <2>4. g = [j \in 0..Len(q) |-> g[j]]
    OBVIOUS
  <2> HIDE DEF g
  <2> QED
    BY <2>3, <2>4 DEF Leaves
<1>2. g[Len(q)] = <<>>
  BY <1>1
<1> HIDE DEF g
<1> QED
  BY <1>1, <1>2, MessagesAre

----------------------------------------------------------------------------
\* Each direction is a queue: what a step does to what the users have got.

\* How many messages the user of e has got.
Had(e) == Has(conn[e], got[e])

\* The operators that leave the user's queue alone.
LEMMA SendsKeepRx ==
  ASSUME NEW c, ConnOK(c), NEW ok
  PROVE /\ \A seg, cloned : SendSyn(c, seg, cloned, ok).c.rx = c.rx
        /\ \A due : CheckAck(c, due, ok).c.rx = c.rx
        /\ SendEack(c, ok).c.rx = c.rx
        /\ \A cloned : SendSynAck(c, cloned, ok).c.rx = c.rx
<1>1. \A seg : SendCmp(c, seg, ok).c.rx = c.rx
  BY SendCmpRx
<1>2. ASSUME NEW seg, NEW cloned PROVE SendSyn(c, seg, cloned, ok).c.rx = c.rx
  BY DEF SendSyn, SendCmp, Result, ConnOK, Conn
<1>3. \A due : CheckAck(c, due, ok).c.rx = c.rx
  BY <1>1 DEF CheckAck, Result
<1>4. SendEack(c, ok).c.rx = c.rx
  BY <1>1 DEF SendEack
<1>5. \A cloned : SendSynAck(c, cloned, ok).c.rx = c.rx
  BY <1>2 DEF SendSynAck
<1> QED
  BY <1>2, <1>3, <1>4, <1>5

\* csp_rdp_new_packet puts one packet in it, at most.
LEMMA HandleDataRx ==
  ASSUME NEW c0, ConnOK(c0), NEW p \in Segment, NEW due, NEW ok
  PROVE LET r == HandleData(c0, p, due, ok)
        IN r.c.rx = c0.rx \/ r.c.rx = Append(c0.rx, p.data)
<1> DEFINE c == [c0 EXCEPT !.una = Plus(p.ack, 1)]
           stored == [c EXCEPT !.rxq = @ \cup {[seq |-> p.seq, data |-> p.data]}]
           f == FlushEack(c, p.eacks)
           t == Taken(c, p)
           r == HandleData(c0, p, due, ok)
<1>1. ConnOK(c) /\ c.rx = c0.rx
  <2>1. Plus(p.ack, 1) \in SeqNr
    BY PlusType DEF Segment, SeqNr
  <2> QED
    BY <2>1 DEF ConnOK, Conn
<1> HIDE DEF c
<1>2. ConnOK(stored) /\ stored.rx = c.rx
  <2>1. [seq |-> p.seq, data |-> p.data] \in [seq : SeqNr, data : Payload]
    BY DEF Segment
  <2> QED
    BY <1>1, <2>1 DEF ConnOK, Conn
<1>3. f.rx = c.rx
  BY <1>1 DEF FlushEack, ConnOK, Conn
<1>4. ConnOK(t) /\ (t.rx = c.rx \/ t.rx = Append(c.rx, p.data))
  <2> DEFINE a == [c EXCEPT !.rx = Append(@, p.data)]
  <2>1. c.rx \in Seq(Payload) /\ p.data \in Payload /\ p.seq \in SeqNr
    BY <1>1 DEF ConnOK, Conn, Segment
  <2>2. ConnOK(a) /\ a.rx = Append(c.rx, p.data)
    <3>1. Append(c.rx, p.data) \in Seq(Payload)
      BY <2>1
    <3> QED
      BY <1>1, <3>1 DEF ConnOK, Conn
  <2>3. t = [c EXCEPT !.cur = p.seq] \/ t = [a EXCEPT !.cur = p.seq]
    BY DEF Taken, Enqueue
  <2>4. \A d : ConnOK(d) => ConnOK([d EXCEPT !.cur = p.seq]) /\ [d EXCEPT !.cur = p.seq].rx = d.rx
    BY <2>1 DEF ConnOK, Conn
  <2> HIDE DEF a, t
  <2> QED
    BY <1>1, <2>2, <2>3, <2>4
<1> HIDE DEF stored, f, t
<1>5. \/ r = Result(f, {}) \/ r = Result(c, {})
      \/ r = SendEack(stored, ok) \/ r = CheckAck(c, due, ok) \/ r = CheckAck(t, due, ok)
  BY DEF HandleData, c, stored, f, t
<1>6. /\ Result(f, {}).c = f /\ Result(c, {}).c = c
      /\ SendEack(stored, ok).c.rx = stored.rx /\ CheckAck(c, due, ok).c.rx = c.rx
      /\ CheckAck(t, due, ok).c.rx = t.rx
  <2> HIDE DEF r
  <2>1. Result(f, {}).c = f /\ Result(c, {}).c = c
    BY DEF Result
  <2>2. SendEack(stored, ok).c.rx = stored.rx
    BY <1>2, SendsKeepRx
  <2>3. CheckAck(c, due, ok).c.rx = c.rx
    BY <1>1, SendsKeepRx, ZenonT(60)
  <2>4. CheckAck(t, due, ok).c.rx = t.rx
    BY <1>4, SendsKeepRx
  <2> QED
    BY <2>1, <2>2, <2>3, <2>4
<1> HIDE DEF r
<1>7. r.c.rx = c0.rx \/ r.c.rx = Append(c0.rx, p.data)
  BY <1>1, <1>2, <1>3, <1>4, <1>5, <1>6
<1> QED
  BY <1>7 DEF r

\* csp_rdp_check_timeouts.
LEMMA RetransmittedRx ==
  ASSUME NEW c, ConnOK(c), NEW expired \in SUBSET Unacked(c), NEW due, NEW ok
  PROVE Retransmitted(c, expired, due, ok).c.rx = c.rx
<1>1. expired \in SUBSET c.txq
  BY DEF Unacked
<1> QED
  BY <1>1, BareRetransmitted DEF Resends

\* One user at most gets a message, and then no message is accepted.
GetsOne(e) ==
  /\ Had(e)' = Had(e) + 1 /\ \A f \in Endpoint \ {e} : Had(f)' = Had(f)
  /\ UNCHANGED sent
GetsNone == (\A f \in Endpoint : Had(f)' = Had(f)) /\ UNCHANGED sent
Gets == GetsNone \/ \E e \in Endpoint : GetsOne(e)

\* One connection changes, and its user reads nothing.
LEMMA QueueGets ==
  ASSUME TypeOK, NEW e \in Endpoint, NEW d, conn' = [conn EXCEPT ![e] = d],
         UNCHANGED <<got, sent>>, NEW x,
         d.rx = conn[e].rx \/ d.rx = Append(conn[e].rx, x)
  PROVE Gets
<1>1. conn'[e] = d /\ \A f \in Endpoint \ {e} : conn'[f] = conn[f]
  BY DEF TypeOK
<1>2. \A f \in Endpoint \ {e} : Had(f)' = Had(f)
  BY <1>1 DEF Had
<1>3. Had(e)' = Len(got[e]) + Len(d.rx)
  BY <1>1 DEF Had, Has
<1>4. conn[e].rx \in Seq(Payload) /\ Len(got[e]) \in Nat /\ Len(conn[e].rx) \in Nat
  BY DEF TypeOK, Conn
<1>5. CASE d.rx = conn[e].rx
  <2>1. Had(e)' = Had(e)
    BY <1>3, <1>5 DEF Had, Has
  <2> QED
    BY <1>2, <2>1 DEF Gets, GetsNone
<1>6. CASE d.rx = Append(conn[e].rx, x)
  <2>1. Len(d.rx) = Len(conn[e].rx) + 1
    BY <1>4, <1>6
  <2> DEFINE a == Len(got[e])
             b == Len(conn[e].rx)
  <2>2. Had(e)' = a + (b + 1) /\ Had(e) = a + b /\ a \in Nat /\ b \in Nat
    BY <1>3, <1>4, <2>1 DEF Had, Has
  <2> HIDE DEF a, b
  <2>3. Had(e)' = Had(e) + 1
    BY <2>2
  <2> QED
    BY <1>2, <2>3 DEF Gets, GetsOne
<1> QED
  BY <1>5, <1>6

\* Before a connection is open nothing is got on it.
LEMMA NoneBefore ==
  ASSUME TypeOK, Agree, NEW e \in Endpoint, conn[e].state # "OPEN"
  PROVE Had(e) = 0 /\ sent[e] = 0 /\ got[e] = <<>> /\ conn[e].rx = <<>>
<1>1. Own(e, conn[e], picks[e], sent[e], got[e], sent[Peer(e)])
  BY DEF Agree, EndOK, Context
<1>2. got[e] = <<>> /\ conn[e].rx = <<>> /\ sent[e] = 0
  BY <1>1 DEF Own
<1> QED
  BY <1>2, HasNothing DEF Had

\* The user's part of an end that agrees: what has reached it, and is in turn.
LEMMA DeliveredAgree ==
  ASSUME TypeOK, Agree, NEW e \in Endpoint
  PROVE Had(e) \in Nat /\ Delivered(e) = [i \in 1..Had(e) |-> <<1, i>>]
<1> DEFINE g == got[e]
           q == conn[e].rx
           d == g \o q
           a == Len(g)
           b == Len(q)
<1>1. g \in Seq(Payload) /\ q \in Seq(Payload) /\ a \in Nat /\ b \in Nat
  BY DEF TypeOK, Conn
<1>2. /\ \A i \in 1..a : g[i] = <<1, i>>
      /\ \A i \in 1..b : q[i] = <<1, a + i>>
  BY DEF Agree, EndOK, Context, Own, InTurn
<1>3. Had(e) = a + b
  BY DEF Had, Has
<1>4. Delivered(e) = d
  <2>1. \A i \in 1..b : q[i] # Null
    BY <1>2 DEF Null
  <2> HIDE DEF q
  <2>2. Messages(q) = q
    BY <1>1, <2>1, MessagesAll
  <2> QED
    BY <2>2 DEF Delivered, q
<1> HIDE DEF g, q
<1>5. d \in Seq(Payload) /\ Len(d) = a + b
  BY <1>1
<1>6. ASSUME NEW i \in 1..(a + b) PROVE d[i] = <<1, i>>
  <2>1. CASE i <= a
    <3>1. d[i] = g[i] /\ i \in 1..a
      BY <1>1, <2>1
    <3> QED
      BY <1>2, <3>1
  <2>2. CASE ~(i <= a)
    <3>1. d[i] = q[i - a] /\ i - a \in 1..b /\ a + (i - a) = i
      BY <1>1, <2>2
    <3>2. q[i - a] = <<1, a + (i - a)>>
      BY <1>2, <3>1
    <3> QED
      BY <3>1, <3>2
  <2> QED
    BY <2>1, <2>2
<1> DEFINE n == a + b
<1> HIDE DEF a, b, d
<1>7. n \in Nat
  BY <1>1
<1>8. d = [i \in 1..n |-> <<1, i>>]
  <2>1. DOMAIN d = 1..n /\ d = [i \in DOMAIN d |-> d[i]]
    BY <1>5 DEF n
  <2>2. \A i \in 1..n : d[i] = <<1, i>>
    BY <1>6 DEF n
  <2> HIDE DEF n
  <2> QED
    BY <2>1, <2>2
<1> QED
  BY <1>3, <1>4, <1>7, <1>8 DEF n

\* Nothing has reached the users of a connection that failed.
LEMMA DeliveredNothing ==
  ASSUME TypeOK, Broken \/ Failed, NEW e \in Endpoint
  PROVE Delivered(e) = <<>> /\ Nothing(conn[e], got[e])
<1>1. Nothing(conn[e], got[e])
  BY DEF Broken, Failed, ClientBroken, ServerBroken, Endpoint
<1>2. got[e] = <<>> /\ OnlyNull(conn[e].rx) /\ conn[e].rx \in Seq(Payload)
  BY <1>1 DEF Nothing, TypeOK, Conn
<1>3. Messages(conn[e].rx) = <<>>
  BY <1>2, MessagesNone
<1>4. <<>> \o <<>> = <<>>
  OBVIOUS
<1> QED
  BY <1>1, <1>2, <1>3, <1>4 DEF Delivered

\* Both ends are open only while they agree.
LEMMA OpenAgree ==
  ASSUME StayInv, Synchronised
  PROVE Agree /\ \A e \in Endpoint : conn[e].state = "OPEN"
<1>1. \A e \in Endpoint : conn[e].state = "OPEN"
  BY DEF Synchronised, BothOpen
<1>2. Client \in Endpoint /\ Server \in Endpoint
  BY DEF Endpoint
<1>3. ~Broken /\ ~Failed
  BY <1>1, <1>2 DEF Broken, Failed
<1> QED
  BY <1>1, <1>3 DEF StayInv

\* A message that is sent and that the user does not have waits at one of the ends.
LEMMA StayCustody ==
  ASSUME TypeOK, StayInv PROVE Custody
<1> SUFFICES ASSUME Synchronised, NEW e \in Endpoint, NEW n \in 1..sent[e]
             PROVE LET x == <<picks[e], n>>
                       d == Delivered(Peer(e))
                   IN \/ \E i \in 1..Len(d) : d[i] = x
                      \/ \E t \in conn[e].txq : t.seg.data = x
                      \/ \E s \in conn[Peer(e)].rxq : s.data = x
  BY DEF Custody
<1> DEFINE f == Peer(e)
           d == Delivered(f)
<1>1. Agree /\ conn[e].state = "OPEN"
  BY OpenAgree
<1>2. f \in Endpoint
  BY DEF Peer, Endpoint
<1>3. picks[e] = 1
  BY <1>1 DEF Agree, EndOK, Context, Own
<1>4. HasMsg(conn[f], got[f], n) \/ \E t \in conn[e].txq : t.seg.data = <<1, n>>
  BY <1>1 DEF Agree, EndOK, Context, Across
<1>5. CASE \E t \in conn[e].txq : t.seg.data = <<1, n>>
  BY <1>3, <1>5
<1>6. CASE n <= Has(conn[f], got[f])
  <2>1. Had(f) \in Nat /\ d = [i \in 1..Had(f) |-> <<1, i>>]
    BY <1>1, <1>2, DeliveredAgree
  <2>2. n \in 1..Had(f)
    BY <1>6, <2>1 DEF Had, TypeOK
  <2> HIDE DEF d
  <2>3. Len(d) = Had(f)
    BY <2>1
  <2>4. d[n] = <<1, n>>
    BY <2>1, <2>2
  <2> QED
    BY <1>3, <2>2, <2>3, <2>4 DEF d
<1>7. CASE \E s \in conn[f].rxq : s.data = <<1, n>>
  BY <1>3, <1>7
<1> QED
  BY <1>4, <1>5, <1>6, <1>7 DEF HasMsg

\* The sender is a window ahead of the user at most.
LEMMA StayWithin ==
  ASSUME NewIss, Ample, TypeOK, StayInv PROVE WithinReceiveWindow
<1> SUFFICES ASSUME Synchronised, NEW e \in Endpoint
             PROVE (conn[e].nxt - 1 - conn[Peer(e)].cur) % SeqMod <= Window
  BY DEF WithinReceiveWindow
<1> DEFINE f == Peer(e)
           s == sent[e]
           h == Has(conn[f], got[f])
<1>1. Agree /\ f \in Endpoint /\ Peer(f) = e
  BY OpenAgree DEF Peer, Endpoint, Client, Server
<1>2. conn[e].state = "OPEN" /\ conn[f].state = "OPEN"
  BY <1>1, OpenAgree
<1>3. s \in Nat /\ h \in Nat /\ Window \in Nat /\ MsgLimit[e] < SeqMod /\ MsgLimit[e] \in Nat
  <2>1. Had(f) \in Nat
    BY <1>1, DeliveredAgree
  <2> QED
    BY <2>1, Few, SizeAssumption DEF TypeOK, Had
<1>4. conn[e].nxt = Nr(e, s + 1) /\ s <= MsgLimit[e]
  BY <1>1, <1>2 DEF Agree, EndOK, Context, Own
<1>5. conn[f].cur = Nr(e, h) /\ h <= s
  BY <1>1, <1>2 DEF Agree, EndOK, Context, Own
<1>6. s <= h + Window
  BY <1>1, <1>2 DEF Agree, EndOK, Context, Across
<1> HIDE DEF s, h, f
<1>7. (conn[e].nxt - 1 - conn[f].cur) % SeqMod = (s - h) % SeqMod
  <2> DEFINE i == IssOf[e][1]
             k == s + 1
  <2>1. i \in Int /\ k \in Int /\ h \in Int
    <3>1. k \in Int /\ h \in Int
      BY <1>3
    <3> HIDE DEF k
    <3>2. i \in Int
      BY NrType
    <3> QED
      BY <3>1, <3>2
  <2> HIDE DEF i, k
  <2>2. PICK t \in Int : Plus(i, k) = i + k + t * SeqMod
    BY <2>1, PlusIs
  <2>3. PICK u \in Int : Plus(i, h) = i + h + u * SeqMod
    BY <2>1, PlusIs
  <2>4. Nr(e, s + 1) = Plus(i, k) /\ Nr(e, h) = Plus(i, h)
    BY DEF Nr, i, k
  <2>6. /\ Nr(e, s + 1) - 1 - Nr(e, h) = (s - h) + (t - u) * SeqMod
        /\ Nr(e, s + 1) - 1 - Nr(e, h) \in Int /\ s - h \in Int /\ t - u \in Int
    BY <1>3, <2>1, <2>2, <2>3, <2>4, SeqModAssumption DEF k
  <2> QED
    BY <1>4, <1>5, <2>6, ModShift
<1>8. (s - h) % SeqMod = s - h
  <2>1. s - h \in Int /\ 0 <= s - h /\ s - h < SeqMod
    BY <1>3, <1>4, <1>5, SeqModAssumption
  <2> QED
    BY <2>1, SmallMod
<1> QED
  BY <1>3, <1>6, <1>7, <1>8 DEF f

\* A connection that stays, of which the ends agree until it fails.
LEMMA StayCorrect ==
  Stays /\ NewIss /\ Ample => (Spec /\ []FlushFindsRoom => [](StayInv /\ ClientUses))
<1> SUFFICES ASSUME Stays, NewIss, Ample PROVE Spec /\ []FlushFindsRoom => [](StayInv /\ ClientUses)
  OBVIOUS
<1>1. Init => StayInv /\ ClientUses
  BY StayInit DEF StayInv
<1>2. TypeOK /\ TypeOK' /\ SlotInv /\ FlushFindsRoom /\ StayInv /\ ClientUses /\ [Next]_vars => StayInv'
  BY StayNext
<1>3. TypeOK /\ ClientUses /\ [Next]_vars => ClientUses'
  BY ClientUsesNext
<1> QED
  BY <1>1, <1>2, <1>3, TypeCorrect, SlotCorrect, PTL DEF Spec

\* On a connection that stays, a message csp_rdp_send has accepted is with its
\* sender, with the receiver or with its user, whatever the link loses, repeats
\* and reorders and whichever calls fail.
THEOREM CustodyCorrect ==
  Stays /\ NewIss /\ Ample => (Spec /\ []FlushFindsRoom => []Custody)
<1> SUFFICES ASSUME Stays, NewIss, Ample PROVE Spec /\ []FlushFindsRoom => []Custody
  OBVIOUS
<1>1. TypeOK /\ StayInv => Custody
  BY StayCustody
<1>2. Spec /\ []FlushFindsRoom => [](StayInv /\ ClientUses)
  BY StayCorrect
<1> QED
  BY <1>1, <1>2, TypeCorrect, PTL

\* On such a connection the sender is never more than a window ahead.
THEOREM WithinReceiveWindowCorrect ==
  Stays /\ NewIss /\ Ample => (Spec /\ []FlushFindsRoom => []WithinReceiveWindow)
<1> SUFFICES ASSUME Stays, NewIss, Ample PROVE Spec /\ []FlushFindsRoom => []WithinReceiveWindow
  OBVIOUS
<1>1. TypeOK /\ StayInv => WithinReceiveWindow
  BY StayWithin
<1>2. Spec /\ []FlushFindsRoom => [](StayInv /\ ClientUses)
  BY StayCorrect
<1> QED
  BY <1>1, <1>2, TypeCorrect, PTL

\* A queue that holds all the messages of a connection always has room.
AllFit == \A e \in Endpoint : MsgLimit[Peer(e)] <= ConnQueue

\* Then csp_rdp_rx_queue_flush always has room: the segment it moves is one of
\* the messages that fit, and the user does not have it yet.
LEMMA AllFitHasRoom ==
  ASSUME NewIss, Ample, AllFit, TypeOK, StayInv PROVE FlushFindsRoom
<1> SUFFICES ASSUME NEW e \in Endpoint, NextStored(conn[e]) # {} PROVE HasRoom(conn[e])
  BY DEF FlushFindsRoom
<1> DEFINE f == Peer(e)
           h == Has(conn[e], got[e])
<1>1. Agree
  <2>1. conn[e].rxq # {}
    BY DEF NextStored
  <2> QED
    BY <2>1, DeliveredNothing DEF StayInv, Nothing
<1>2. f \in Endpoint /\ Peer(f) = e
  BY DEF Peer, Endpoint, Client, Server
<1>3. ConnOK(conn[e]) /\ h \in Nat /\ h = Len(got[e]) + Len(conn[e].rx)
      /\ Len(got[e]) \in Nat /\ Len(conn[e].rx) \in Nat
  <2>1. ConnOK(conn[e]) /\ got[e] \in Seq(Payload)
    BY <1>1, EndAgrees DEF TypeOK
  <2> QED
    BY <2>1, HasType DEF Has
<1>4. PICK x \in conn[e].rxq : x.seq = Plus(conn[e].cur, 1)
  BY DEF NextStored
<1>5. /\ conn[e].state = "OPEN" /\ conn[e].cur = Nr(f, h) /\ sent[f] <= MsgLimit[f] /\ h <= sent[f]
      /\ \E i \in 1..sent[f] : x.seq = Nr(f, i)
  <2>1. Own(e, conn[e], picks[e], sent[e], got[e], sent[f])
    BY <1>1 DEF Agree, EndOK, Context
  <2>2. conn[e].state = "OPEN"
    BY <1>4, <2>1 DEF Own
  <2> QED
    BY <1>4, <2>1, <2>2 DEF Own
<1>6. PICK i \in 1..sent[f] : x.seq = Nr(f, i)
  BY <1>5
<1>7. sent[f] \in Nat /\ MsgLimit[f] \in Nat /\ ConnQueue \in Nat /\ MsgLimit[f] <= ConnQueue
  <2>1. MsgLimit[f] <= ConnQueue
    BY DEF AllFit
  <2> QED
    BY <1>2, <2>1, Few, SizeAssumption DEF TypeOK
<1> HIDE DEF f, h
<1>8. Nr(f, i) = Nr(f, h + 1)
  <2>1. h \in Int /\ 1 \in Int
    BY <1>3
  <2>2. Plus(Nr(f, h), 1) = Nr(f, h + 1)
    BY <1>2, <2>1, NrType
  <2> QED
    BY <1>4, <1>5, <1>6, <2>2
<1>9. i = h + 1
  <2> DEFINE s == sent[f]
             l == MsgLimit[f]
  <2>1. s \in Nat /\ l \in Nat /\ h \in Nat /\ h <= s /\ s <= l /\ i \in 1..s
    BY <1>3, <1>5, <1>7
  <2> HIDE DEF s, l
  <2>2. h + 1 \in 1..(l + 1) /\ i \in 1..l
    BY <2>1
  <2>3. h + 1 \in 1..(MsgLimit[f] + 1) /\ i \in 1..MsgLimit[f]
    BY <2>2 DEF l
  <2>4. ASSUME NEW j \in 1..(MsgLimit[f] + 1), Nr(f, j) = Nr(f, i) PROVE j = i
    BY <1>2, <2>3, <2>4, SameNr
  <2> QED
    BY <1>8, <2>3, <2>4
<1>10. Len(conn[e].rx) < ConnQueue
  <2> DEFINE a == Len(got[e])
             b == Len(conn[e].rx)
  <2>1. a \in Nat /\ b \in Nat /\ h = a + b
    BY <1>3
  <2> HIDE DEF a, b
  <2>2. b < ConnQueue
    BY <1>5, <1>7, <1>9, <2>1
  <2> QED
    BY <2>2 DEF b
<1> QED
  BY <1>10 DEF HasRoom

\* So the hypothesis about the user's queue holds when all messages fit in it,
\* and then what follows from it does not depend on how the system runs.
THEOREM RoomCorrect ==
  Stays /\ NewIss /\ Ample /\ AllFit => (Spec => []FlushFindsRoom)
<1> SUFFICES ASSUME Stays, NewIss, Ample, AllFit PROVE Spec => []FlushFindsRoom
  OBVIOUS
<1>1. Init => StayInv /\ ClientUses
  BY StayInit DEF StayInv
<1>2. TypeOK /\ TypeOK' /\ SlotInv /\ FlushFindsRoom /\ StayInv /\ ClientUses /\ [Next]_vars => StayInv'
  BY StayNext
<1>3. TypeOK /\ ClientUses /\ [Next]_vars => ClientUses'
  BY ClientUsesNext
<1>4. TypeOK /\ StayInv => FlushFindsRoom
  BY AllFitHasRoom
<1> QED
  BY <1>1, <1>2, <1>3, <1>4, TypeCorrect, SlotCorrect, PTL DEF Spec

\* A segment is handled: the user's queue is the one of the result.
LEMMA HandledGets ==
  ASSUME TypeOK, NEW e \in Endpoint, NEW p, NEW r, NEW ok, NEW next,
         HandledThen(e, p, r, ok, next), UNCHANGED <<sent, got>>, NEW x,
         r.c.rx = conn[e].rx \/ r.c.rx = Append(conn[e].rx, x)
  PROVE Gets
<1> DEFINE d == r.c
<1>1. conn' = [conn EXCEPT ![e] = d] /\ (d.rx = conn[e].rx \/ d.rx = Append(conn[e].rx, x))
  BY DEF HandledThen
<1> HIDE DEF d
<1> QED
  BY <1>1, QueueGets

\* csp_rdp_new_packet puts one message at most in the user's queue.
LEMMA AnswerGets ==
  ASSUME TypeOK, SlotInv, Agree, NEW e \in Endpoint, NEW p,
         DropUnknown(e, p) \/ DuplicateSyn(e, p) \/ InvalidAck(e, p) \/ OutOfWindow(e, p)
  PROVE Gets
<1>1. UNCHANGED <<sent, got>>
  BY DEF DropUnknown, DuplicateSyn, InvalidAck, OutOfWindow, Quiet, histVars
<1>2. CASE DropUnknown(e, p) \/ DuplicateSyn(e, p) \/ InvalidAck(e, p)
  <2> DEFINE r == Result(conn[e], {})
  <2>1. HandledThen(e, p, r, TRUE, "idle")
    BY <1>2, ArrivesAgree DEF DropUnknown, DuplicateSyn, InvalidAck, Receives, Handled
  <2>2. r.c.rx = conn[e].rx
    BY DEF Result
  <2> HIDE DEF r
  <2> QED
    BY <1>1, <2>1, <2>2, HandledGets
<1>3. CASE OutOfWindow(e, p)
  <2> DEFINE r(ok, cloned) == IF Target(e).state = "SYN_RCVD"
                              THEN SendSynAck(Target(e), cloned, ok)
                              ELSE SendEack(Target(e), ok)
  <2>1. PICK ok \in BOOLEAN, cloned \in BOOLEAN : HandledThen(e, p, r(ok, cloned), ok, "idle")
    BY <1>3 DEF OutOfWindow, Handled
  <2>2. Target(e) = conn[e] /\ ConnOK(conn[e])
    BY <1>3, ArrivesAgree DEF OutOfWindow, Receives
  <2> DEFINE c == conn[e]
             s == SendSynAck(c, cloned, ok)
             t == SendEack(c, ok)
             u == r(ok, cloned)
  <2>3. u = s \/ u = t
    BY <2>2
  <2>4. s.c.rx = c.rx /\ t.c.rx = c.rx
    <3> HIDE DEF c
    <3>1. ConnOK(c)
      BY <2>2 DEF c
    <3> QED
      BY <3>1, SendsKeepRx
  <2>5. HandledThen(e, p, u, ok, "idle")
    BY <2>1
  <2> HIDE DEF s, t, u, r
  <2> QED
    BY <1>1, <2>3, <2>4, <2>5, HandledGets
<1> QED
  BY <1>2, <1>3

\* What csp_rdp_new_packet does with data.
LEMMA HandledDataGets ==
  ASSUME TypeOK, NEW e \in Endpoint, NEW p \in Segment, NEW c, ConnOK(c), c.rx = conn[e].rx,
         NEW due, NEW ok, HandledData(e, p, c, due, ok), UNCHANGED <<sent, got>>
  PROVE Gets
<1> DEFINE r == HandleData(c, p, due, ok)
<1>1. PICK next : HandledThen(e, p, r, ok, next)
  BY DEF HandledData
<1>2. r.c.rx = conn[e].rx \/ r.c.rx = Append(conn[e].rx, p.data)
  BY HandleDataRx
<1> HIDE DEF r
<1> QED
  BY <1>1, <1>2, HandledGets

\* The handlers that take data.
LEMMA DataGets ==
  ASSUME TypeOK, SlotInv, Agree, NEW e \in Endpoint, NEW p,
         DataInOpen(e, p) \/ HandshakeDone(e, p)
  PROVE Gets
<1>1. Arrives(e, p) /\ Target(e).state \in {"SYN_RCVD", "OPEN"} /\ UNCHANGED <<sent, got>>
  BY DEF DataInOpen, HandshakeDone, Acceptable, Receives, Quiet, histVars
<1>2. Target(e) = conn[e] /\ ConnOK(conn[e]) /\ p \in Segment
  BY <1>1, ArrivesAgree
<1>3. ConnOK(Opened(conn[e])) /\ Opened(conn[e]).rx = conn[e].rx
  BY <1>2 DEF Opened, ConnOK, Conn, RdpStates
<1>4. CASE DataInOpen(e, p)
  <2>1. PICK ok \in BOOLEAN, due \in BOOLEAN : HandledData(e, p, conn[e], due, ok)
    BY <1>2, <1>4 DEF DataInOpen
  <2> QED
    BY <1>1, <1>2, <2>1, HandledDataGets
<1>5. CASE HandshakeDone(e, p)
  <2>1. PICK ok \in BOOLEAN, due \in BOOLEAN : HandledData(e, p, Opened(conn[e]), due, ok)
    BY <1>2, <1>5 DEF HandshakeDone
  <2> QED
    BY <1>1, <1>2, <1>3, <2>1, HandledDataGets
<1> QED
  BY <1>4, <1>5

\* The handlers that begin and open a connection give its user nothing.
LEMMA BeginGets ==
  ASSUME NewIss, TypeOK, SlotInv, Agree, NEW e \in Endpoint, NEW p,
         SynInClosed(e, p) \/ SynAckInSynSent(e, p)
  PROVE Gets
<1>1. CASE SynInClosed(e, p)
  <2>1. Arrives(e, p) /\ CanPick(e) /\ p \in Segment /\ Target(e).state = "CLOSED"
    BY <1>1, ArrivesAgree DEF SynInClosed, Receives
  <2>2. conn[e].state = "CLOSED"
    BY <2>1, ArrivesAgree
  <2>3. Had(e) = 0 /\ sent[e] = 0 /\ got[e] = <<>> /\ conn[e].rx = <<>>
    BY <2>2, NoneBefore
  <2> DEFINE c == [Target(e) EXCEPT
                     !.iss = Pick(e), !.nxt = Plus(Pick(e), 1), !.una = Pick(e),
                     !.cur = p.seq, !.irs = p.seq, !.lsa = p.seq, !.state = "SYN_RCVD"]
             r(ok, cloned) == SendSynAck(c, cloned, ok)
  <2>4. PICK ok \in BOOLEAN, cloned \in BOOLEAN : HandledThen(e, p, r(ok, cloned), ok, "idle")
    BY <1>1 DEF SynInClosed, Handled
  <2>5. Target(e) = NewConn(conn[e], TRUE) /\ ConnOK(Target(e))
    BY <2>1, <2>2, ArrivesAgree, ArrivesType
  <2>6. Target(e).rx = <<>>
    BY <2>5 DEF NewConn, ConnOK, Conn, TypeOK
  <2>7. ConnOK(c) /\ c.rx = <<>>
    <3>1. Pick(e) \in SeqNr /\ Pick(e) \in Int
      BY <2>1, PickType DEF SeqNr
    <3>2. Plus(Pick(e), 1) \in SeqNr /\ p.seq \in SeqNr
      BY <2>1, <3>1, PlusType DEF Segment
    <3> QED
      BY <2>5, <2>6, <3>1, <3>2 DEF ConnOK, Conn, RdpStates
  <2> DEFINE u == r(ok, cloned)
  <2>8. u.c.rx = conn[e].rx
    <3> HIDE DEF c
    <3>1. SendSynAck(c, cloned, ok).c.rx = c.rx
      BY <2>7, SendsKeepRx, ZenonT(60)
    <3> QED
      BY <2>3, <2>7, <3>1
  <2>9. sent' = sent /\ got' = got
    BY <1>1, <2>3 DEF SynInClosed, TypeOK
  <2>10. HandledThen(e, p, u, ok, "idle")
    BY <2>4
  <2> HIDE DEF u, c, r
  <2> QED
    BY <2>8, <2>9, <2>10, HandledGets
<1>2. CASE SynAckInSynSent(e, p)
  <2>1. Arrives(e, p) /\ p \in Segment /\ Target(e).state = "SYN_SENT" /\ UNCHANGED <<sent, got>>
    BY <1>2, ArrivesAgree DEF SynAckInSynSent, Receives, Quiet, histVars
  <2>2. Target(e) = conn[e] /\ ConnOK(conn[e])
    BY <2>1, ArrivesAgree
  <2> DEFINE c == [conn[e] EXCEPT
                     !.cur = p.seq, !.irs = p.seq, !.lsa = (p.seq - 1) % SeqMod,
                     !.una = Plus(p.ack, 1), !.state = "OPEN", !.sem = TRUE]
             r(ok) == SendCmp(c, Cmp({"ACK"}, c.nxt, c.cur), ok)
  <2>3. PICK ok \in BOOLEAN : HandledThen(e, p, r(ok), ok, "idle")
    BY <1>2, <2>2 DEF SynAckInSynSent, Handled
  <2> DEFINE u == r(ok)
  <2>4. u.c.rx = conn[e].rx
    BY <2>2 DEF SendCmp, Result, ConnOK, Conn
  <2>5. HandledThen(e, p, u, ok, "idle")
    BY <2>3
  <2> HIDE DEF u, c, r
  <2> QED
    BY <2>1, <2>4, <2>5, HandledGets
<1> QED
  BY <1>1, <1>2

\* The connections and what the users have read stay.
LEMMA SameGets ==
  ASSUME UNCHANGED <<conn, sent, got>>
  PROVE Gets
BY DEF Gets, GetsNone, Had

\* Of the calls of the user task only csp_send and csp_read matter, and none
\* gives the user a new message.
LEMMA UserGets ==
  ASSUME NewIss, TypeOK, TypeOK', Agree, NEW e \in Endpoint,
         \/ SendBlocks(e) \/ SendWakes(e) \/ SendNoBufs(e) \/ SendOut(e) \/ Read(e)
         \/ ConnectOpened \/ Accept
  PROVE Gets
<1>1. CASE SendBlocks(e) \/ SendOut(e) \/ Accept
  <2>1. UNCHANGED <<conn, sent, got>>
    BY <1>1 DEF SendBlocks, SendOut, Accept, histVars
  <2> QED
    BY <2>1, SameGets
<1>2. ASSUME NEW f \in Endpoint, NEW s \in BOOLEAN,
             conn' = [conn EXCEPT ![f].sem = s], UNCHANGED <<sent, got>>
      PROVE Gets
  <2> DEFINE d == [conn[f] EXCEPT !.sem = s]
  <2>1. conn' = [conn EXCEPT ![f] = d]
    BY <1>2
  <2>2. d.rx = conn[f].rx
    BY DEF TypeOK, Conn
  <2> HIDE DEF d
  <2> QED
    BY <1>2, <2>1, <2>2, QueueGets
<1>3. CASE SendWakes(e)
  BY <1>2, <1>3 DEF SendWakes, histVars
<1>4. CASE ConnectOpened
  <2>1. Client \in Endpoint
    BY DEF Endpoint
  <2> QED
    BY <1>2, <1>4, <2>1 DEF ConnectOpened, histVars
<1>5. CASE SendNoBufs(e)
  <2> DEFINE s == conn[e].sem /\ user[e] = "ready"
  <2>1. conn' = [conn EXCEPT ![e].sem = s] /\ UNCHANGED <<sent, got>> /\ s \in BOOLEAN
    BY <1>5 DEF SendNoBufs, histVars, TypeOK, Conn
  <2> HIDE DEF s
  <2> QED
    BY <1>2, <2>1
<1>6. CASE Read(e)
  <2>1. Had(e)' = Had(e) /\ Head(conn[e].rx) # Null /\ UNCHANGED sent
    BY <1>6, ReadAgree DEF Had, Read
  <2>2. \A f \in Endpoint \ {e} : conn'[f] = conn[f] /\ got'[f] = got[f]
    BY <1>6, <2>1 DEF Read, TypeOK
  <2>3. \A f \in Endpoint \ {e} : Had(f)' = Had(f)
    BY <2>2 DEF Had
  <2> QED
    BY <2>1, <2>3 DEF Gets, GetsNone
<1> QED
  BY <1>1, <1>3, <1>4, <1>5, <1>6

\* csp_rdp_check_timeouts gives the user nothing, and csp_rdp_rx_queue_flush
\* one message.
LEMMA RouterGets ==
  ASSUME Stays, TypeOK, NEW e \in Endpoint, CheckTimeouts(e) \/ FlushNext(e)
  PROVE Gets
<1>1. ConnOK(conn[e])
  BY TypeParts DEF LinkType
<1>2. CASE CheckNothing(e)
  BY <1>2, SameGets DEF CheckNothing, RouterUnchanged, histVars
<1>3. CASE CheckMessages(e)
  <2> DEFINE r(expired, due, ok) == Retransmitted(conn[e], expired, due, ok)
  <2>1. PICK ok \in BOOLEAN, due \in BOOLEAN, expired \in SUBSET Unacked(conn[e]) :
          Checked(e, r(expired, due, ok), ok)
    BY <1>3 DEF CheckMessages
  <2> DEFINE d == r(expired, due, ok).c
  <2>2. d.rx = conn[e].rx
    BY <1>1, RetransmittedRx
  <2>3. conn' = [conn EXCEPT ![e] = d] /\ UNCHANGED <<sent, got>>
    BY <2>1 DEF Checked, RouterUnchanged, histVars
  <2> HIDE DEF d, r
  <2> QED
    BY <2>2, <2>3, QueueGets
<1>4. CASE FlushNext(e)
  <2>1. PICK x \in NextStored(conn[e]) : conn' = [conn EXCEPT ![e] = FlushOne(conn[e], x)]
    BY <1>4 DEF FlushNext
  <2> DEFINE d == FlushOne(conn[e], x)
  <2>2. d.rx = conn[e].rx \/ d.rx = Append(conn[e].rx, x.data)
    BY <1>1 DEF FlushOne, Enqueue, ConnOK, Conn
  <2>3. conn' = [conn EXCEPT ![e] = d] /\ UNCHANGED <<sent, got>>
    BY <1>4, <2>1 DEF FlushNext, histVars
  <2> HIDE DEF d
  <2> QED
    BY <2>2, <2>3, QueueGets
<1>5. ~LostConnection(e) /\ ~CloseWaitTimeout(e)
  BY DEF Stays, LostConnection, CloseWaitTimeout
<1> QED
  BY <1>2, <1>3, <1>4, <1>5 DEF CheckTimeouts

\* csp_send accepts one message from e.
SendsOne(e) ==
  /\ sent[e] < MsgLimit[e] /\ sent' = [sent EXCEPT ![e] = @ + 1]
  /\ \A f \in Endpoint : Had(f)' = Had(f)

\* csp_rdp_send does.
LEMMA RdpSendOne ==
  ASSUME TypeOK, NEW e \in Endpoint, RdpSend(e)
  PROVE SendsOne(e)
<1>1. sent[e] < MsgLimit[e] /\ sent' = [sent EXCEPT ![e] = @ + 1] /\ got' = got
  BY DEF RdpSend
<1>2. conn'[e].rx = conn[e].rx /\ \A f \in Endpoint \ {e} : conn'[f] = conn[f]
  BY DEF RdpSend, TypeOK, Conn
<1>3. \A f \in Endpoint : conn'[f].rx = conn[f].rx
  BY <1>2
<1> QED
  BY <1>1, <1>3 DEF SendsOne, Had, Has

\* The connection fails as it begins: nothing has been sent.
Begins == UNCHANGED sent /\ \A e \in Endpoint : Had(e) = 0

\* csp_connect, which may fail to send the SYN.
LEMMA ConnectBegins ==
  ASSUME TypeOK, SlotInv, Agree, Connect
  PROVE Begins /\ \A e \in Endpoint : sent[e] = 0
<1>1. \A e \in Endpoint : sent[e] = 0 /\ got[e] = <<>> /\ conn[e].rx = <<>>
  BY NotBegun
<1>2. \A e \in Endpoint : Had(e) = 0
  BY <1>1, HasNothing DEF Had
<1>3. sent' = sent
  BY <1>1 DEF Connect, TypeOK, Endpoint
<1> QED
  BY <1>1, <1>2, <1>3 DEF Begins

\* The socket's queue is full.
LEMMA BacklogFullBegins ==
  ASSUME NewIss, TypeOK, SlotInv, Agree, NEW e \in Endpoint, NEW p, BacklogFull(e, p)
  PROVE Begins
<1>1. Arrives(e, p) /\ Target(e).state = "SYN_RCVD" /\ UNCHANGED sent
  BY DEF BacklogFull, Acceptable, Receives, Quiet, histVars
<1>2. conn[e].state = "SYN_RCVD"
  BY <1>1, ArrivesAgree
<1>3. e = Server
  BY <1>2 DEF Agree, Opening, Endpoint
<1>4. \A f \in Endpoint : got[f] = <<>> /\ conn[f].rx = <<>>
  BY <1>2, <1>3, NothingBack
<1>5. \A f \in Endpoint : Had(f) = 0
  BY <1>4, HasNothing DEF Had
<1> QED
  BY <1>1, <1>5 DEF Begins

\* What a step does to the queues of two ends that agree.
StaysAgreed == Agree' /\ (Gets \/ \E e \in Endpoint : SendsOne(e))
Failing ==
  /\ Begins
  /\ \/ Broken' \/ Failed'
     \/ Agree' /\ \A e \in Endpoint : sent[e] = 0

\* csp_rdp_new_packet.
LEMMA ArrivalGets ==
  ASSUME NewIss, Ample, TypeOK, TypeOK', SlotInv, ClientUses, Agree, Arrival
  PROVE StaysAgreed \/ Failing
<1>1. PICK m \in net : NewPacket(m.to, m.seg)
  BY DEF Arrival
<1> DEFINE e == m.to
           p == m.seg
<1>2. e \in Endpoint
  BY DEF TypeOK
<1> HIDE DEF e, p
<1>3. NewPacket(e, p)
  BY <1>1 DEF e, p
<1>4. \/ DropUnknown(e, p) \/ DuplicateSyn(e, p) \/ InvalidAck(e, p) \/ OutOfWindow(e, p)
      \/ SynInClosed(e, p) \/ SynAckInSynSent(e, p)
      \/ BacklogFull(e, p)
      \/ HandshakeDone(e, p) \/ DataInOpen(e, p)
  BY <1>2, <1>3, NothingUnexpected DEF NewPacket
<1>5. CASE DropUnknown(e, p) \/ DuplicateSyn(e, p) \/ InvalidAck(e, p) \/ OutOfWindow(e, p)
  BY <1>2, <1>5, AnswerGets, AnswerAgree DEF StaysAgreed
<1>6. CASE SynInClosed(e, p) \/ SynAckInSynSent(e, p)
  BY <1>2, <1>6, BeginGets, SynInClosedAgree, SynAckInSynSentAgree DEF StaysAgreed
<1>7. CASE BacklogFull(e, p)
  <2>1. Begins
    BY <1>2, <1>7, BacklogFullBegins
  <2>2. Broken'
    BY <1>2, <1>7, BacklogFullBreaks
  <2> QED
    BY <2>1, <2>2 DEF Failing
<1>8. CASE HandshakeDone(e, p) \/ DataInOpen(e, p)
  BY <1>2, <1>8, DataGets, HandshakeDoneAgree, DataInOpenAgree DEF StaysAgreed
<1> QED
  BY <1>4, <1>5, <1>6, <1>7, <1>8

\* Every step.
LEMMA AgreeGets ==
  ASSUME Stays, NewIss, Ample, TypeOK, TypeOK', SlotInv, ClientUses, FlushFindsRoom, Agree,
         [Next]_vars
  PROVE StaysAgreed \/ Failing
<1>1. CASE (\E m \in net : Lose(m)) \/ UNCHANGED vars
  <2>1. UNCHANGED <<conn, picks, sent, got, user, hand>> /\ net' \subseteq net
    BY <1>1 DEF Lose, vars, envVars, histVars
  <2> QED
    BY <2>1, SameGets, AgreeSame DEF StaysAgreed
<1>2. CASE Arrival
  BY <1>2, ArrivalGets
<1>3. CASE Connecting
  <2>1. CASE Connect
    BY <2>1, ConnectBegins, ConnectAgree DEF Failing
  <2>2. CASE ConnectOpened
    <3>1. Client \in Endpoint
      BY DEF Endpoint
    <3> QED
      BY <2>2, <3>1, UserGets, OpenedAgree DEF StaysAgreed
  <2> QED
    BY <1>3, <2>1, <2>2, NeverRefused DEF Connecting
<1>4. CASE Accept
  <2>1. Client \in Endpoint
    BY DEF Endpoint
  <2> QED
    BY <1>4, <2>1, UserGets, OpenedAgree DEF StaysAgreed
<1>5. ASSUME NEW e \in Endpoint, UserTask(e) PROVE StaysAgreed
  <2>1. CASE RdpSend(e)
    BY <2>1, RdpSendOne, RdpSendAgree DEF StaysAgreed
  <2>2. CASE Read(e)
    BY <2>2, UserGets, ReadAgree DEF StaysAgreed
  <2>3. CASE SendBlocks(e) \/ SendWakes(e) \/ SendNoBufs(e) \/ SendOut(e)
    BY <2>3, UserGets, PlainUserAgree DEF StaysAgreed
  <2>4. ~SendTimeout(e) /\ ~Close(e)
    BY DEF Stays, SendTimeout, Close
  <2> QED
    BY <1>5, <2>1, <2>2, <2>3, <2>4 DEF UserTask
<1>6. ASSUME NEW e \in Endpoint, CheckTimeouts(e) \/ FlushNext(e) PROVE StaysAgreed
  BY <1>6, RouterGets, CheckTimeoutsAgree, FlushNextAgree DEF StaysAgreed
<1>7. ~Reboot
  BY SizeAssumption DEF Stays, Reboot, TypeOK
<1> QED
  BY <1>1, <1>2, <1>3, <1>4, <1>5, <1>6, <1>7 DEF Next

----------------------------------------------------------------------------
\* RDP implements the two queues of module Link.

\* The first k messages.
Run(k) == [i \in 1..k |-> <<1, i>>]

\* What every user has got: the first messages, or none.
GotHad ==
  \A e \in Endpoint : Had(e) \in 0..sent[Peer(e)] /\ Delivered(e) = Run(Had(e))
GotNone == \A e \in Endpoint : Delivered(e) = <<>>

\* Ends that agree have got the first messages of their peer.
LEMMA AgreeGot == TypeOK /\ Agree => GotHad
<1> SUFFICES ASSUME TypeOK, Agree, NEW e \in Endpoint
             PROVE Had(e) \in 0..sent[Peer(e)] /\ Delivered(e) = Run(Had(e))
  BY DEF GotHad
<1>1. Had(e) \in Nat /\ Delivered(e) = Run(Had(e))
  BY DeliveredAgree DEF Run
<1>2. Had(e) <= sent[Peer(e)]
  BY DEF Had, Agree, EndOK, Own, Context
<1>3. sent[Peer(e)] \in Nat
  BY DEF TypeOK, Peer, Endpoint
<1> QED
  BY <1>1, <1>2, <1>3

\* Users of a connection that failed have got nothing.
LEMMA FailedGot == TypeOK /\ (Broken \/ Failed) => GotNone
  BY DeliveredNothing DEF GotNone

\* The steps of module Link, in terms of this one.
LinkSame == UNCHANGED sent /\ \A f \in Endpoint : Delivered(f)' = Delivered(f)
LinkSends(e) ==
  /\ sent[e] < MsgLimit[e] /\ sent' = [sent EXCEPT ![e] = @ + 1]
  /\ \A f \in Endpoint : Delivered(f)' = Delivered(f)
LinkGets(e) ==
  /\ UNCHANGED sent
  /\ \E k \in Nat : k < sent[Peer(e)] /\ Delivered(e) = Run(k) /\ Delivered(e)' = Run(k + 1)
  /\ \A f \in Endpoint \ {e} : Delivered(f)' = Delivered(f)
LinkStep == LinkSame \/ \E e \in Endpoint : LinkSends(e) \/ LinkGets(e)

\* Two ends that agree, before and after.
LEMMA AgreeLinks ==
  ASSUME TypeOK, TypeOK', Agree, Agree', Gets \/ \E e \in Endpoint : SendsOne(e)
  PROVE LinkStep
<1>1. GotHad /\ GotHad'
  BY AgreeGot, PTL
<1>2. /\ \A f \in Endpoint : Had(f) \in Nat /\ Delivered(f) = Run(Had(f))
      /\ \A f \in Endpoint : Had(f)' <= sent'[Peer(f)] /\ Delivered(f)' = Run(Had(f)')
  BY <1>1 DEF GotHad, Run, Peer, TypeOK
<1>3. CASE GetsNone
  BY <1>1, <1>2, <1>3 DEF GetsNone, LinkStep, LinkSame
<1>4. ASSUME NEW e \in Endpoint, GetsOne(e) PROVE LinkGets(e)
  <2> DEFINE k == Had(e)
             s == sent[Peer(e)]
  <2>1. Peer(e) \in Endpoint
    BY DEF Peer, Endpoint
  <2>2. k \in Nat /\ s \in Nat /\ Delivered(e) = Run(k) /\ Delivered(e)' = Run(k + 1) /\ k + 1 <= s
    BY <1>1, <1>2, <1>4, <2>1 DEF GetsOne, TypeOK
  <2>3. \A f \in Endpoint \ {e} : Delivered(f)' = Delivered(f)
    BY <1>1, <1>2, <1>4 DEF GetsOne
  <2>4. k < s
    <3> HIDE DEF k, s
    <3> QED
      BY <2>2
  <2> QED
    BY <1>4, <2>2, <2>3, <2>4 DEF LinkGets, GetsOne
<1>5. ASSUME NEW e \in Endpoint, SendsOne(e) PROVE LinkSends(e)
  BY <1>1, <1>2, <1>5 DEF SendsOne, LinkSends
<1> QED
  BY <1>3, <1>4, <1>5 DEF Gets, LinkStep

\* The connection fails as it begins.
LEMMA BeginLinks ==
  ASSUME TypeOK, TypeOK', Agree, Begins, Broken' \/ Failed'
  PROVE LinkStep
<1>1. \A f \in Endpoint : Delivered(f) = <<>>
  <2>1. \A f \in Endpoint : Delivered(f) = Run(0)
    BY DeliveredAgree DEF Run, Begins
  <2>2. Run(0) = <<>>
    BY DEF Run
  <2> QED
    BY <2>1, <2>2
<1>2. GotNone'
  BY FailedGot, PTL
<1> QED
  BY <1>1, <1>2 DEF LinkStep, LinkSame, Begins, GotNone

\* Which actions change what is sent.
LEMMA SentStep ==
  ASSUME [Next]_vars
  PROVE UNCHANGED sent \/ Connect \/ (\E e \in Endpoint : RdpSend(e))
        \/ \E m \in net : SynInClosed(m.to, m.seg)
<1>1. CASE UNCHANGED vars
  BY <1>1 DEF vars, histVars
<1>2. CASE Connecting
  BY <1>2 DEF Connecting, ConnectOpened, ConnectRetry, ConnectRefused, ConnectTimeout, ConnectFails, histVars
<1>3. CASE Accept \/ (\E m \in net : Lose(m)) \/ Reboot
  BY <1>3 DEF Accept, Lose, Reboot, histVars
<1>4. ASSUME NEW e \in Endpoint, UserTask(e), ~RdpSend(e) PROVE UNCHANGED sent
  BY <1>4 DEF UserTask, SendBlocks, SendWakes, SendTimeout, SendNoBufs, SendOut, Read, Close, histVars
<1>5. ASSUME NEW e \in Endpoint, CheckTimeouts(e) \/ FlushNext(e) PROVE UNCHANGED sent
  BY <1>5 DEF CheckTimeouts, CheckNothing, LostConnection, CloseWaitTimeout, CheckMessages, Checked,
     RouterUnchanged, FlushNext, histVars
<1>6. CASE Arrival
  <2>1. PICK m \in net : NewPacket(m.to, m.seg)
    BY <1>6 DEF Arrival
  <2> DEFINE e == m.to
             p == m.seg
  <2>2. NewPacket(e, p)
    BY <2>1
  <2> HIDE DEF e, p
  <2>3. SynInClosed(e, p) \/ UNCHANGED sent
    BY <2>2 DEF NewPacket, DropUnknown, RstInClosed, RstInCloseWait, RstInSequence,
       RstOutOfSequence, NoSynInClosed, SynAckInSynSent, HalfOpen, DuplicateSyn, InvalidSyn,
       OutOfWindow, InvalidAck, WrongAckInSynRcvd, BacklogFull, HandshakeDone, DataInOpen,
       IgnoredInCloseWait, AckInCloseWait, Quiet, histVars
  <2> QED
    BY <2>3 DEF e, p
<1> QED
  BY <1>1, <1>2, <1>3, <1>4, <1>5, <1>6 DEF Next

\* Every step of two ends that agree is one of module Link, or none of its.
LEMMA AgreeStepLinks ==
  ASSUME Stays, NewIss, Ample, TypeOK, TypeOK', SlotInv, ClientUses, FlushFindsRoom, Agree,
         [Next]_vars
  PROVE LinkStep
<1>1. CASE StaysAgreed
  BY <1>1, AgreeLinks DEF StaysAgreed
<1>2. CASE Begins /\ (Broken' \/ Failed')
  BY <1>2, BeginLinks
<1>3. CASE Begins /\ Agree' /\ \A e \in Endpoint : sent[e] = 0
  <2>1. GotHad /\ GotHad'
    BY <1>3, AgreeGot, PTL
  <2>2. \A e \in Endpoint : Had(e)' = 0 /\ Delivered(e)' = Run(Had(e)')
    <3>1. \A e \in Endpoint : Peer(e) \in Endpoint
      BY DEF Peer, Endpoint
    <3>2. \A e \in Endpoint : Had(e)' \in 0..sent'[Peer(e)] /\ Delivered(e)' = Run(Had(e)')
      BY <2>1 DEF GotHad, Run, Peer
    <3>3. \A e \in Endpoint : sent'[Peer(e)] = 0
      BY <1>3, <3>1 DEF Begins
    <3> QED
      BY <3>2, <3>3
  <2>3. \A e \in Endpoint : Delivered(e) = Run(0)
    BY <1>3, <2>1 DEF GotHad, Begins
  <2> QED
    BY <1>3, <2>2, <2>3 DEF LinkStep, LinkSame, Begins
<1> QED
  BY <1>1, <1>2, <1>3, AgreeGets DEF Failing

\* And so is every step after that has failed.
LEMMA BrokenLinks ==
  ASSUME Stays, NewIss, TypeOK, TypeOK', SlotInv, Broken, [Next]_vars
  PROVE LinkStep
<1>0. Client # Server /\ Endpoint = {Client, Server}
  BY DEF Client, Server, Endpoint
<1>1. \A e \in Endpoint : Delivered(e)' = Delivered(e)
  <2>1. Broken'
    BY BrokenNext
  <2>2. GotNone /\ GotNone'
    BY <2>1, FailedGot, PTL
  <2> QED
    BY <2>2 DEF GotNone
<1>2. ~Connect
  BY DEF Connect, Broken
<1>3. ASSUME NEW e \in Endpoint, RdpSend(e) PROVE LinkSends(e)
  BY <1>1, <1>3 DEF RdpSend, LinkSends
<1>4. ASSUME NEW m \in net, SynInClosed(m.to, m.seg) PROVE UNCHANGED sent
  <2> DEFINE e == m.to
             p == m.seg
  <2>1. e \in Endpoint /\ SynInClosed(e, p)
    BY <1>4 DEF TypeOK
  <2> HIDE DEF e, p
  <2>2. e = Server
    <3> SUFFICES ASSUME e = Client PROVE FALSE
      BY <1>0, <2>1
    <3> QED
      BY <2>1, ClientTarget DEF SynInClosed, Receives
  <2>3. sent[Server] = 0 /\ sent' = [sent EXCEPT ![Server] = 0]
    BY <2>1, <2>2 DEF SynInClosed, Broken, ServerBroken
  <2> QED
    BY <1>0, <2>3 DEF TypeOK
<1>5. CASE UNCHANGED sent
  BY <1>1, <1>5 DEF LinkStep, LinkSame
<1> QED
  BY <1>2, <1>3, <1>4, <1>5, SentStep DEF LinkStep

\* Every step of the system is one of module Link, or none of its.
LEMMA StayLinks ==
  ASSUME Stays, NewIss, Ample, TypeOK, TypeOK', SlotInv, ClientUses, FlushFindsRoom, StayInv,
         [Next]_vars
  PROVE LinkStep
<1>1. CASE Agree
  BY <1>1, AgreeStepLinks
<1>2. CASE Broken
  BY <1>2, BrokenLinks
<1>3. CASE Failed
  <2>1. Failed' /\ UNCHANGED sent
    BY <1>3, FailedNext
  <2>2. GotNone /\ GotNone'
    BY <1>3, <2>1, FailedGot, PTL
  <2> QED
    BY <2>1, <2>2 DEF GotNone, LinkStep, LinkSame
<1> QED
  BY <1>1, <1>2, <1>3 DEF StayInv

----------------------------------------------------------------------------
\* The refinement mapping.

\* The numbers of the first k messages.
UpTo(k) == [n \in 1..k |-> n]

\* Counting the messages.
LEMMA UpToType ==
  ASSUME NEW k \in Nat
  PROVE /\ UpTo(k) \in Seq(Nat) /\ Len(UpTo(k)) = k /\ \A n \in 1..k : UpTo(k)[n] = n
        /\ Append(UpTo(k), k + 1) = UpTo(k + 1)
        /\ Numbers(Run(k)) = UpTo(k)
<1>1. UpTo(k) \in Seq(Nat) /\ Len(UpTo(k)) = k /\ \A n \in 1..k : UpTo(k)[n] = n
  BY DEF UpTo
<1>2. Append(UpTo(k), k + 1) = UpTo(k + 1)
  <2> DEFINE a == UpTo(k)
             b == UpTo(k + 1)
             c == Append(a, k + 1)
  <2>1. b \in Seq(Nat) /\ Len(b) = k + 1 /\ \A n \in 1..(k + 1) : b[n] = n
    BY DEF UpTo
  <2> HIDE DEF a, b
  <2>2. c \in Seq(Nat) /\ Len(c) = k + 1 /\ c[k + 1] = k + 1 /\ \A n \in 1..k : c[n] = n
    BY <1>1 DEF a
  <2> HIDE DEF c
  <2>3. \A n \in 1..(k + 1) : n = k + 1 \/ n \in 1..k
    OBVIOUS
  <2>4. \A n \in 1..(k + 1) : c[n] = b[n]
    BY <2>1, <2>2, <2>3
  <2>5. c = b
    BY <2>1, <2>2, <2>4
  <2> QED
    BY <2>5 DEF a, b, c
<1>3. Numbers(Run(k)) = UpTo(k)
  <2>1. Run(k) \in Seq(Nat \X Nat) /\ Len(Run(k)) = k /\ \A i \in 1..k : Run(k)[i] = <<1, i>>
    BY DEF Run
  <2> HIDE DEF Run
  <2> QED
    BY <2>1 DEF Numbers, UpTo
<1> QED
  BY <1>1, <1>2, <1>3

\* The variables of module Link.
Accepted == [e \in Endpoint |-> [n \in 1..sent[e] |-> n]]
Handed == [e \in Endpoint |-> Numbers(Delivered(Peer(e)))]

\* A step of the system is a step of module Link.
LEMMA LinkMaps ==
  ASSUME TypeOK, TypeOK', LinkStep
  PROVE [Queues!Next]_Queues!vars
<1>0. \A e \in Endpoint :
        /\ Peer(e) \in Endpoint /\ Peer(Peer(e)) = e
        /\ sent[e] \in Nat /\ sent'[e] \in Nat /\ MsgLimit[e] \in Nat
  BY IssType DEF TypeOK, Peer, Endpoint, Client, Server
<1>1. \A e \in Endpoint : Accepted[e] = UpTo(sent[e]) /\ Accepted'[e] = UpTo(sent'[e])
  BY DEF Accepted, UpTo
<1>2. \A e \in Endpoint :
        Handed[e] = Numbers(Delivered(Peer(e))) /\ Handed'[e] = Numbers(Delivered(Peer(e))')
  BY DEF Handed, Peer
<1>3. /\ Accepted = [e \in Endpoint |-> Accepted[e]] /\ Accepted' = [e \in Endpoint |-> Accepted'[e]]
      /\ Handed = [e \in Endpoint |-> Handed[e]] /\ Handed' = [e \in Endpoint |-> Handed'[e]]
  BY DEF Accepted, Handed
<1>4. /\ Queues!vars = <<Accepted, Handed>> /\ Queues!vars' = <<Accepted', Handed'>>
  BY DEF Queues!vars, Accepted, Handed
<1>5. (\A f \in Endpoint : Delivered(f)' = Delivered(f)) => Handed' = Handed
  BY <1>0, <1>2, <1>3
<1>6. sent' = sent => Accepted' = Accepted
  BY DEF Accepted
<1>7. CASE LinkSame
  BY <1>4, <1>5, <1>6, <1>7 DEF LinkSame
<1>8. ASSUME NEW e \in Endpoint, LinkSends(e) PROVE Queues!Next
  <2> DEFINE s == sent[e]
             m == s + 1
  <2>1. s \in Nat /\ s < MsgLimit[e] /\ sent' = [sent EXCEPT ![e] = s + 1] /\ sent'[e] = s + 1
    BY <1>0, <1>8 DEF LinkSends, TypeOK
  <2>2. Accepted' = [Accepted EXCEPT ![e] = Append(@, m)]
    <3>1. Accepted'[e] = Append(Accepted[e], m)
      BY <1>1, <2>1, UpToType
    <3>2. \A f \in Endpoint \ {e} : Accepted'[f] = Accepted[f]
      BY <1>1, <1>8 DEF LinkSends, TypeOK
    <3> QED
      BY <1>3, <3>1, <3>2
  <2>3. Handed' = Handed
    BY <1>5, <1>8 DEF LinkSends
  <2>4. m \in 1..(MsgLimit[Client] + MsgLimit[Server])
    <3>1. MsgLimit[Client] \in Nat /\ MsgLimit[Server] \in Nat /\ e \in {Client, Server}
      BY <1>0 DEF Endpoint
    <3> HIDE DEF s
    <3> QED
      BY <2>1, <3>1
  <2> HIDE DEF m, s
  <2>5. Queues!Send(e)
    BY <2>2, <2>3, <2>4 DEF Queues!Send, Accepted, Handed
  <2> QED
    BY <2>5 DEF Queues!Next
<1>9. ASSUME NEW f \in Endpoint, LinkGets(f) PROVE Queues!Next
  <2> DEFINE e == Peer(f)
  <2>1. PICK k \in Nat : k < sent[e] /\ Delivered(f) = Run(k) /\ Delivered(f)' = Run(k + 1)
    BY <1>9 DEF LinkGets
  <2>2. e \in Endpoint /\ Peer(e) = f /\ sent[e] \in Nat
    BY <1>0
  <2>3. Handed[e] = UpTo(k) /\ Handed'[e] = UpTo(k + 1)
    <3>1. Numbers(Run(k)) = UpTo(k) /\ Numbers(Run(k + 1)) = UpTo(k + 1)
      <4>1. k \in Nat /\ k + 1 \in Nat
        OBVIOUS
      <4> QED
        BY <4>1, UpToType
    <3>2. Handed[e] = Numbers(Delivered(f)) /\ Handed'[e] = Numbers(Delivered(f)')
      <4> HIDE DEF e
      <4> QED
        BY <1>2, <2>2
    <3> QED
      BY <2>1, <3>1, <3>2
  <2>4. \A g \in Endpoint \ {e} : Handed'[g] = Handed[g]
    <3>1. \A g \in Endpoint \ {e} : Peer(g) \in Endpoint \ {f}
      BY <1>0, <2>2
    <3> QED
      BY <1>2, <1>9, <3>1 DEF LinkGets
  <2>5. Accepted' = Accepted
    BY <1>6, <1>9 DEF LinkGets
  <2>6. Len(Handed[e]) = k /\ Accepted[e][k + 1] = k + 1 /\ Len(Accepted[e]) = sent[e]
    <3>1. k + 1 \in 1..sent[e]
      BY <2>1, <2>2
    <3> QED
      BY <1>1, <2>2, <2>3, <3>1, UpToType
  <2> HIDE DEF e
  <2>7. Handed' = [Handed EXCEPT ![e] = Append(@, Accepted[e][Len(@) + 1])]
    <3>1. Handed'[e] = Append(Handed[e], Accepted[e][Len(Handed[e]) + 1])
      BY <2>3, <2>6, UpToType
    <3> QED
      BY <1>3, <2>2, <2>4, <3>1
  <2>8. Len(Handed[e]) < Len(Accepted[e])
    BY <2>1, <2>6
  <2>9. Queues!Deliver(e)
    BY <2>5, <2>7, <2>8 DEF Queues!Deliver, Accepted, Handed
  <2> QED
    BY <2>2, <2>9 DEF Queues!Next
<1> QED
  BY <1>7, <1>8, <1>9 DEF LinkStep

\* The first state maps to its first state.
LEMMA LinkMapsInit == NewIss /\ Init => Queues!Init
<1> SUFFICES ASSUME NewIss, Init PROVE Queues!Init
  OBVIOUS
<1>1. GotHad /\ \A e \in Endpoint : sent[e] = 0 /\ Peer(e) \in Endpoint
  BY StayInit, TypeInit, AgreeGot DEF Init, Peer, Endpoint
<1>2. \A e \in Endpoint : Accepted[e] = UpTo(0)
  BY <1>1 DEF Accepted, UpTo
<1>3. \A e \in Endpoint : Handed[e] = UpTo(0)
  <2> SUFFICES ASSUME NEW e \in Endpoint PROVE Handed[e] = UpTo(0)
    OBVIOUS
  <2> DEFINE f == Peer(e)
  <2>1. f \in Endpoint /\ sent[Peer(f)] = 0
    BY <1>1
  <2>2. Had(f) = 0 /\ Delivered(f) = Run(0)
    BY <1>1, <2>1 DEF GotHad
  <2> QED
    BY <2>2, UpToType DEF Handed
<1>4. UpTo(0) = <<>>
  BY DEF UpTo
<1>5. Accepted = [e \in Endpoint |-> <<>>] /\ Handed = [e \in Endpoint |-> <<>>]
  BY <1>2, <1>3, <1>4 DEF Accepted, Handed
<1> QED
  BY <1>5 DEF Queues!Init, Accepted, Handed

\* Each direction of a connection that stays is a queue: RDP hands the messages
\* of csp_send to the other user once and in order, and nothing else.
THEOREM IsQueueCorrect ==
  Stays /\ NewIss /\ Ample => (Spec /\ []FlushFindsRoom => IsQueue)
<1> SUFFICES ASSUME Stays, NewIss, Ample PROVE Spec /\ []FlushFindsRoom => IsQueue
  OBVIOUS
<1>1. Init => Queues!Init
  BY LinkMapsInit
<1>2. TypeOK /\ TypeOK' /\ SlotInv /\ FlushFindsRoom /\ StayInv /\ ClientUses /\ [Next]_vars
        => [Queues!Next]_Queues!vars
  BY StayLinks, LinkMaps
<1>3. Spec /\ []FlushFindsRoom => [](StayInv /\ ClientUses)
  BY StayCorrect
<1> QED
  BY <1>1, <1>2, <1>3, TypeCorrect, SlotCorrect, PTL DEF Spec, IsQueue, Queues!Spec

=============================================================================
