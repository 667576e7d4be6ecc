---------------------------- MODULE RdpDataProofs -----------------------------
(***************************************************************************)
(* Proofs about module Rdp, for every value of its constants: what reaches *)
(* a user is in order, without repetition, and of one connection, through  *)
(* every loss, repetition, close, timeout and reboot of the model, as long *)
(* as no two connections of an endpoint use the same sequence numbers; a   *)
(* user is told that its peer has closed, if its queue has room then; and  *)
(* the server accepts no more connections than the client has asked for.   *)
(***************************************************************************)
EXTENDS RdpProofs

----------------------------------------------------------------------------
\* The hypothesis of the proof.

\* The sequence numbers of the messages of one connection differ, and from
\* those of every other connection of the endpoint.  rand() makes that likely
\* in the code, and nothing in the protocol makes up for it when it fails.
NumbersApart ==
  \A e \in Endpoint : \A l, m \in 1..Len(IssOf[e]) :
    \A i \in 1..(MsgLimit[e] + 1), j \in 1..MsgLimit[e] :
      Plus(IssOf[e][l], i) = Plus(IssOf[e][m], j) => l = m /\ i = j

----------------------------------------------------------------------------
\* The inductive invariant.

\* t is the n-th message of the l-th connection of e, with its own number.
Numbered(e, t) ==
  \E l \in 1..Len(IssOf[e]), n \in 1..MsgLimit[e] :
    t.data = <<l, n>> /\ t.seq = Plus(IssOf[e][l], n)

\* A segment e has sent: data has its own number, a SYN has an initial one.
SegOK(e, s) ==
  /\ s.data # NoData => Numbered(e, s)
  /\ "SYN" \in s.flags => \E l \in 1..Len(IssOf[e]) : s.seq = IssOf[e][l]

\* What the user has read, g, and then its queue q hold messages of life l of
\* the peer, in order, none of them after the k-th.
Ordered(g, q, l, k) ==
  /\ \A i \in 1..Len(g) : g[i][1] = l /\ g[i][2] <= k
  /\ \A i \in 1..Len(q) : q[i] # Null => q[i][1] = l /\ q[i][2] <= k
  /\ \A i, j \in 1..Len(g) : i < j => g[i][2] < g[j][2]
  /\ \A i, j \in 1..Len(q) : i < j /\ q[i] # Null /\ q[j] # Null => q[i][2] < q[j][2]
  /\ \A i \in 1..Len(g), j \in 1..Len(q) : q[j] # Null => g[i][2] < q[j][2]

\* The sending side of connection c of e, which is the n-th and has sent s
\* messages: snd_nxt is the number of the next message.
Sending(e, c, n, s) ==
  /\ \A x \in c.txq : SegOK(e, x.seg)
  /\ c.state # "CLOSED" =>
       n \in 1..Len(IssOf[e]) /\ c.iss = IssOf[e][n] /\ c.nxt = Plus(c.iss, s + 1)
  /\ c.state = "SYN_SENT" => s = 0

\* The receiving side: rcv_cur is the number of the last message that is with
\* the user, or was dropped because the user's queue was full.
Running(e, c, g) ==
  \E l \in 1..Len(IssOf[Peer(e)]), k \in 0..MsgLimit[Peer(e)] :
    c.cur = Plus(IssOf[Peer(e)][l], k) /\ Ordered(g, c.rx, l, k)

\* No message can be added to what the user has.
Ended(e, c, g) ==
  /\ c.rxq = {} /\ OnlyNull(c.rx)
  /\ \E l, k \in Nat : Ordered(g, c.rx, l, k)

Taking(e, c, g) ==
  /\ \A t \in c.rxq : Numbered(Peer(e), t)
  /\ Running(e, c, g) \/ Ended(e, c, g)
  /\ c.state \in {"SYN_RCVD", "OPEN"} => Running(e, c, g)
  /\ c.state = "SYN_SENT" => Ended(e, c, g) /\ g = <<>>

DataOK(e, c, n, s, g) ==
  /\ Sending(e, c, n, s) /\ Taking(e, c, g)
  /\ c.state = "CLOSED" => Ended(e, c, g)

\* Every message that is stored, sent, on the link or with the user has the
\* number and the place that csp_rdp_send gave it.
DataInv ==
  /\ \A e \in Endpoint : DataOK(e, conn[e], picks[e], sent[e], got[e])
  /\ \A m \in net : SegOK(Peer(m.to), m.seg)
  /\ \A e \in Endpoint : SegOK(e, hand[e])

----------------------------------------------------------------------------
\* What the user has, and what is added to it.

\* The place of a message on its connection.
LEMMA PlaceType ==
  ASSUME NEW q \in Seq(Payload) PROVE \A i \in 1..Len(q) : q[i][2] \in Nat
  BY ElementOfSeq DEF Payload

\* A message that follows the last one goes to the end of the queue.
LEMMA OrderedAppend ==
  ASSUME NEW g \in Seq(Payload), NEW q \in Seq(Payload), NEW l \in Nat, NEW k \in Nat,
         Ordered(g, q, l, k)
  PROVE Ordered(g, Append(q, <<l, k + 1>>), l, k + 1)
<1> DEFINE x == <<l, k + 1>>
           r == Append(q, x)
<1>1. x \in Payload /\ x[1] = l /\ x[2] = k + 1
  BY DEF Payload
<1>2. /\ Len(r) = Len(q) + 1 /\ \A i \in 1..Len(q) : r[i] = q[i]
      /\ r[Len(q) + 1] = x
  BY <1>1, AppendProperties
<1>3. Len(g) \in Nat /\ Len(q) \in Nat
  OBVIOUS
<1>4. (\A i \in 1..Len(g) : g[i][2] \in Nat) /\ (\A i \in 1..Len(q) : q[i][2] \in Nat)
  BY PlaceType
<1> HIDE DEF x, r
<1>5. \A i \in 1..Len(r) : i \in 1..Len(q) \/ i = Len(q) + 1
  BY <1>2, <1>3
<1>6. \A i \in 1..Len(g) : g[i][1] = l /\ g[i][2] <= k + 1
  <2> SUFFICES ASSUME NEW i \in 1..Len(g) PROVE g[i][1] = l /\ g[i][2] <= k + 1
    OBVIOUS
  <2>1. g[i][1] = l /\ g[i][2] <= k
    BY DEF Ordered
  <2> QED
    BY <1>4, <2>1
<1>7. \A i \in 1..Len(r) : r[i] # Null => r[i][1] = l /\ r[i][2] <= k + 1
  <2> SUFFICES ASSUME NEW i \in 1..Len(r), r[i] # Null
               PROVE r[i][1] = l /\ r[i][2] <= k + 1
    OBVIOUS
  <2>1. CASE i \in 1..Len(q)
    <3>1. r[i] = q[i] /\ q[i][2] \in Nat
      BY <1>2, <1>4, <2>1
    <3>2. q[i][1] = l /\ q[i][2] <= k
      BY <2>1, <3>1 DEF Ordered
    <3> QED
      BY <3>1, <3>2
  <2>2. CASE i = Len(q) + 1
    BY <1>1, <1>2, <2>2
  <2> QED
    BY <1>5, <2>1, <2>2
<1>8. \A i, j \in 1..Len(r) : i < j /\ r[i] # Null /\ r[j] # Null => r[i][2] < r[j][2]
  <2> SUFFICES ASSUME NEW i \in 1..Len(r), NEW j \in 1..Len(r), i < j,
                      r[i] # Null, r[j] # Null
               PROVE r[i][2] < r[j][2]
    OBVIOUS
  <2>1. i \in 1..Len(q) /\ r[i] = q[i] /\ q[i][2] \in Nat
    <3>1. i \in 1..Len(q)
      BY <1>2, <1>3, <1>5
    <3> QED
      BY <1>2, <1>4, <3>1
  <2>2. CASE j \in 1..Len(q)
    <3>1. r[j] = q[j]
      BY <1>2, <2>2
    <3>2. q[i][2] < q[j][2]
      BY <2>1, <2>2, <3>1 DEF Ordered
    <3> QED
      BY <2>1, <3>1, <3>2
  <2>3. CASE j = Len(q) + 1
    <3>1. q[i][2] <= k
      BY <2>1 DEF Ordered
    <3>2. r[j][2] = k + 1
      BY <1>1, <1>2, <2>3
    <3> QED
      BY <2>1, <3>1, <3>2
  <2> QED
    BY <1>5, <2>2, <2>3
<1>9. \A i \in 1..Len(g), j \in 1..Len(r) : r[j] # Null => g[i][2] < r[j][2]
  <2> SUFFICES ASSUME NEW i \in 1..Len(g), NEW j \in 1..Len(r), r[j] # Null
               PROVE g[i][2] < r[j][2]
    OBVIOUS
  <2>1. CASE j \in 1..Len(q)
    <3>1. r[j] = q[j]
      BY <1>2, <2>1
    <3>2. g[i][2] < q[j][2]
      BY <2>1, <3>1 DEF Ordered
    <3> QED
      BY <3>1, <3>2
  <2>2. CASE j = Len(q) + 1
    <3>1. g[i][2] <= k /\ g[i][2] \in Nat
      BY <1>4 DEF Ordered
    <3>2. r[j][2] = k + 1
      BY <1>1, <1>2, <2>2
    <3> QED
      BY <3>1, <3>2
  <2> QED
    BY <1>5, <2>1, <2>2
<1>10. \A i, j \in 1..Len(g) : i < j => g[i][2] < g[j][2]
  BY DEF Ordered
<1> QED
  BY <1>6, <1>7, <1>8, <1>9, <1>10 DEF Ordered, r, x

\* The message may also be dropped.
LEMMA OrderedMore ==
  ASSUME NEW g \in Seq(Payload), NEW q \in Seq(Payload), NEW l \in Nat, NEW k \in Nat,
         Ordered(g, q, l, k)
  PROVE Ordered(g, q, l, k + 1)
<1>1. (\A i \in 1..Len(g) : g[i][2] \in Nat) /\ (\A i \in 1..Len(q) : q[i][2] \in Nat)
  BY PlaceType
<1> QED
  BY <1>1 DEF Ordered

\* The NULL packet may be added at any time.
LEMMA OrderedNull ==
  ASSUME NEW g \in Seq(Payload), NEW q \in Seq(Payload), NEW l, NEW k, Ordered(g, q, l, k)
  PROVE Ordered(g, Append(q, Null), l, k)
<1> DEFINE r == Append(q, Null)
<1>1. /\ Len(r) = Len(q) + 1 /\ \A i \in 1..Len(q) : r[i] = q[i]
      /\ r[Len(q) + 1] = Null
  BY NullType, AppendProperties
<1>2. Len(q) \in Nat
  OBVIOUS
<1> HIDE DEF r
<1>3. \A i \in 1..Len(r) : r[i] # Null => i \in 1..Len(q)
  BY <1>1, <1>2
<1> QED
  BY <1>1, <1>3 DEF Ordered, r

\* The user's queue is emptied.
LEMMA OrderedClear ==
  ASSUME NEW g, NEW q, NEW l, NEW k, Ordered(g, q, l, k)
  PROVE Ordered(g, <<>>, l, k) /\ OnlyNull(<<>>)
  BY DEF Ordered, OnlyNull

\* A connection begins with nothing.
LEMMA OrderedStart ==
  ASSUME NEW q, OnlyNull(q), NEW l PROVE Ordered(<<>>, q, l, 0)
  BY DEF Ordered, OnlyNull

\* The user reads a message.
LEMMA OrderedRead ==
  ASSUME NEW g \in Seq(Payload), NEW q \in Seq(Payload), NEW l \in Nat, NEW k \in Nat,
         Ordered(g, q, l, k), q # <<>>
  PROVE /\ Head(q) # Null => Ordered(Append(g, Head(q)), Tail(q), l, k)
        /\ Ordered(g, Tail(q), l, k)
        /\ OnlyNull(q) => Head(q) = Null /\ OnlyNull(Tail(q))
<1> DEFINE x == Head(q)
           t == Tail(q)
           r == Append(g, x)
<1>1. /\ x \in Payload /\ x = q[1] /\ t \in Seq(Payload)
      /\ Len(q) \in Nat /\ Len(q) >= 1 /\ Len(t) = Len(q) - 1
      /\ \A i \in 1..Len(t) : t[i] = q[i + 1]
  BY HeadTailProperties, EmptySeq
<1>2. /\ Len(r) = Len(g) + 1 /\ \A i \in 1..Len(g) : r[i] = g[i]
      /\ r[Len(g) + 1] = x
  BY <1>1, AppendProperties
<1>3. Len(g) \in Nat
  OBVIOUS
<1> HIDE DEF x, t, r
<1>4. (\A i \in 1..Len(g) : g[i][2] \in Nat) /\ (\A i \in 1..Len(q) : q[i][2] \in Nat)
  BY PlaceType
<1>5. \A i \in 1..Len(t) : i + 1 \in 1..Len(q)
  BY <1>1
<1>6. Ordered(g, t, l, k)
  <2>1. \A i \in 1..Len(t) : t[i] # Null => t[i][1] = l /\ t[i][2] <= k
    BY <1>1, <1>5 DEF Ordered
  <2>2. \A i, j \in 1..Len(t) : i < j /\ t[i] # Null /\ t[j] # Null => t[i][2] < t[j][2]
    <3> SUFFICES ASSUME NEW i \in 1..Len(t), NEW j \in 1..Len(t), i < j, t[i] # Null, t[j] # Null
                 PROVE t[i][2] < t[j][2]
      OBVIOUS
    <3>1. i + 1 \in 1..Len(q) /\ j + 1 \in 1..Len(q) /\ i + 1 < j + 1
      BY <1>1, <1>5
    <3> QED
      BY <1>1, <3>1 DEF Ordered
  <2>3. \A i \in 1..Len(g), j \in 1..Len(t) : t[j] # Null => g[i][2] < t[j][2]
    BY <1>1, <1>5 DEF Ordered
  <2> QED
    BY <2>1, <2>2, <2>3 DEF Ordered
<1>7. OnlyNull(q) => x = Null /\ OnlyNull(t)
  BY <1>1, <1>5 DEF OnlyNull
<1>8. ASSUME x # Null PROVE Ordered(r, t, l, k)
  <2>1. \A i \in 1..Len(r) : i \in 1..Len(g) \/ i = Len(g) + 1
    BY <1>2, <1>3
  <2>2. x[1] = l /\ x[2] <= k /\ x[2] \in Nat
    BY <1>1, <1>4, <1>8 DEF Ordered
  <2>3. \A i \in 1..Len(g) : g[i][2] < x[2]
    BY <1>1, <1>8 DEF Ordered
  <2>4. \A j \in 1..Len(t) : t[j] # Null => x[2] < t[j][2]
    BY <1>1, <1>5, <1>8, SMTT(30) DEF Ordered
  <2>5. \A i \in 1..Len(r) : r[i][1] = l /\ r[i][2] <= k
    BY <1>2, <2>1, <2>2 DEF Ordered
  <2>6. \A i, j \in 1..Len(r) : i < j => r[i][2] < r[j][2]
    BY <1>2, <1>3, <2>1, <2>3 DEF Ordered
  <2>7. \A i \in 1..Len(r), j \in 1..Len(t) : t[j] # Null => r[i][2] < t[j][2]
    BY <1>2, <1>6, <2>1, <2>4 DEF Ordered
  <2> QED
    BY <1>6, <2>5, <2>6, <2>7 DEF Ordered
<1> QED
  BY <1>6, <1>7, <1>8 DEF x, t, r

\* What is in order on both sides of csp_read is in order.
LEMMA OrderedRises ==
  ASSUME NEW g \in Seq(Payload), NEW q \in Seq(Payload), NEW l, NEW k, Ordered(g, q, l, k)
  PROVE LET d == g \o q
        IN \A i, j \in 1..Len(d) :
             i < j /\ d[i] # Null /\ d[j] # Null => d[i][1] = d[j][1] /\ d[i][2] < d[j][2]
<1> DEFINE d == g \o q
<1>1. Len(g) \in Nat /\ Len(q) \in Nat
  OBVIOUS
<1>2. Len(d) = Len(g) + Len(q)
      /\ \A i \in 1..Len(d) : d[i] = IF i <= Len(g) THEN g[i] ELSE q[i - Len(g)]
  BY ConcatProperties
<1> HIDE DEF d
<1>3. \A i \in 1..Len(d) : \/ i \in 1..Len(g) /\ d[i] = g[i]
                           \/ i - Len(g) \in 1..Len(q) /\ d[i] = q[i - Len(g)] /\ i > Len(g)
  BY <1>1, <1>2
<1>4. \A i \in 1..Len(d) : d[i] # Null => d[i][1] = l
  BY <1>3 DEF Ordered
<1>5. SUFFICES ASSUME NEW i \in 1..Len(d), NEW j \in 1..Len(d), i < j, d[i] # Null, d[j] # Null
               PROVE d[i][2] < d[j][2]
  BY <1>4 DEF d
<1>6. CASE i \in 1..Len(g) /\ j \in 1..Len(g) /\ d[i] = g[i] /\ d[j] = g[j]
  BY <1>5, <1>6 DEF Ordered
<1>7. CASE i \in 1..Len(g) /\ d[i] = g[i] /\ j - Len(g) \in 1..Len(q) /\ d[j] = q[j - Len(g)]
  BY <1>5, <1>7 DEF Ordered
<1>8. CASE /\ i - Len(g) \in 1..Len(q) /\ d[i] = q[i - Len(g)]
           /\ j - Len(g) \in 1..Len(q) /\ d[j] = q[j - Len(g)]
  <2>1. i - Len(g) < j - Len(g)
    BY <1>1, <1>5
  <2> QED
    BY <1>5, <1>8, <2>1 DEF Ordered
<1>9. /\ \/ i \in 1..Len(g) /\ d[i] = g[i]
         \/ i - Len(g) \in 1..Len(q) /\ d[i] = q[i - Len(g)] /\ i > Len(g)
      /\ \/ j \in 1..Len(g) /\ d[j] = g[j]
         \/ j - Len(g) \in 1..Len(q) /\ d[j] = q[j - Len(g)] /\ j > Len(g)
  BY <1>3, <1>5
<1>10. ~(i > Len(g) /\ j \in 1..Len(g))
  BY <1>1, <1>2, <1>5
<1> QED
  BY <1>6, <1>7, <1>8, <1>9, <1>10

----------------------------------------------------------------------------
\* What the operators of Rdp do to the data.

\* The fields DataOK depends on.
Data(c) == <<c.state, c.iss, c.nxt, c.cur, c.txq, c.rxq, c.rx>>

\* DataOK depends on these fields only.
LEMMA DataOfData ==
  ASSUME NEW c, NEW d, Data(d) = Data(c), NEW e, NEW n, NEW s, NEW g, DataOK(e, c, n, s, g)
  PROVE DataOK(e, d, n, s, g)
  BY DEF Data, DataOK, Sending, Taking, Running, Ended

AllSent(e, out) == \A s \in out : SegOK(e, s)
ResultData(e, r, n, s, g) == DataOK(e, r.c, n, s, g) /\ AllSent(e, r.out)

\* A connection that sends nothing.
LEMMA StillData ==
  ASSUME NEW e, NEW c, NEW n, NEW s, NEW g, DataOK(e, c, n, s, g)
  PROVE ResultData(e, Result(c, {}), n, s, g)
  BY DEF ResultData, Result, AllSent

\* A control message other than a SYN.
LEMMA ControlData ==
  ASSUME NEW e, NEW flags, "SYN" \notin flags, NEW a, NEW b
  PROVE /\ SegOK(e, Cmp(flags, a, b))
        /\ \A eacks : SegOK(e, [Cmp(flags, a, b) EXCEPT !.eacks = eacks])
  BY DEF SegOK, Cmp

\* A SYN with an initial sequence number.
LEMMA SynData ==
  ASSUME NEW e, NEW l \in 1..Len(IssOf[e]), NEW flags, NEW b
  PROVE SegOK(e, Cmp(flags, IssOf[e][l], b))
  BY DEF SegOK, Cmp

\* What has been sent may be sent again with another ack_nr.
LEMMA AgainData ==
  ASSUME NEW e, NEW seg \in Segment, SegOK(e, seg), NEW a
  PROVE SegOK(e, [seg EXCEPT !.ack = a])
<1> DEFINE again == [seg EXCEPT !.ack = a]
<1>1. again.data = seg.data /\ again.seq = seg.seq /\ again.flags = seg.flags
  BY DEF Segment
<1> HIDE DEF again
<1>2. SegOK(e, again)
  BY <1>1 DEF SegOK, Numbered
<1> QED
  BY <1>2 DEF again

\* csp_rdp_send_cmp only changes rcv_lsa.
LEMMA SendCmpData ==
  ASSUME NEW e, NEW c, ConnOK(c), NEW n, NEW s, NEW g, DataOK(e, c, n, s, g),
         NEW seg, SegOK(e, seg), NEW ok
  PROVE ResultData(e, SendCmp(c, seg, ok), n, s, g)
<1>1. Data(SendCmp(c, seg, ok).c) = Data(c)
  BY DEF SendCmp, Result, Data, ConnOK, Conn
<1>2. AllSent(e, SendCmp(c, seg, ok).out)
  BY DEF SendCmp, Result, AllSent
<1> QED
  BY <1>1, <1>2, DataOfData DEF ResultData

\* What is put in tx_queue is what is sent.
LEMMA TxQueuedData ==
  ASSUME NEW e, NEW txq, \A x \in txq : SegOK(e, x.seg), NEW seg \in Segment, SegOK(e, seg)
  PROVE \A x \in TxQueued(txq, seg) : SegOK(e, x.seg)
  BY AgainData DEF TxQueued

\* csp_rdp_send_syn.
LEMMA SendSynData ==
  ASSUME NEW e, NEW c, ConnOK(c), NEW n, NEW s, NEW g, DataOK(e, c, n, s, g),
         NEW seg \in Segment, SegOK(e, seg), NEW cloned, NEW ok
  PROVE ResultData(e, SendSyn(c, seg, cloned, ok), n, s, g)
<1> DEFINE d == [c EXCEPT !.txq = TxQueued(@, seg)]
<1>1. ConnOK(d)
  BY TxQueuedType
<1>2. /\ d.txq = TxQueued(c.txq, seg) /\ d.state = c.state /\ d.iss = c.iss
      /\ d.nxt = c.nxt /\ d.cur = c.cur /\ d.rxq = c.rxq /\ d.rx = c.rx
  BY DEF ConnOK, Conn
<1>3. \A x \in TxQueued(c.txq, seg) : SegOK(e, x.seg)
  BY TxQueuedData DEF DataOK, Sending
<1> HIDE DEF d
<1>4. DataOK(e, d, n, s, g)
  BY <1>2, <1>3 DEF DataOK, Sending, Taking, Running, Ended
<1>5. ResultData(e, SendCmp(d, seg, ok), n, s, g) /\ ResultData(e, SendCmp(c, seg, ok), n, s, g)
  BY <1>1, <1>4, SendCmpData
<1> QED
  BY <1>5 DEF SendSyn, d

\* A control message with the numbers of the connection itself.
LEMMA SendOwnData ==
  ASSUME NEW e, NEW c, ConnOK(c), NEW n, NEW s, NEW g, DataOK(e, c, n, s, g),
         NEW flags, "SYN" \notin flags, NEW ok
  PROVE ResultData(e, SendCmp(c, Cmp(flags, c.nxt, c.cur), ok), n, s, g)
  BY ControlData, SendCmpData

\* The SYN/ACK.
LEMMA SendSynAckData ==
  ASSUME NEW e, NEW c, ConnOK(c), NEW n, NEW s, NEW g, DataOK(e, c, n, s, g),
         c.state # "CLOSED", NEW cloned, NEW ok
  PROVE ResultData(e, SendSynAck(c, cloned, ok), n, s, g)
<1>1. n \in 1..Len(IssOf[e]) /\ c.iss = IssOf[e][n]
  BY DEF DataOK, Sending
<1>2. SegOK(e, Cmp({"SYN", "ACK"}, c.iss, c.irs))
  BY <1>1, SynData
<1>3. Cmp({"SYN", "ACK"}, c.iss, c.irs) \in Segment
  BY CmpType DEF ConnOK, Conn
<1> QED
  BY <1>2, <1>3, SendSynData DEF SendSynAck

\* csp_rdp_send_eack.
LEMMA SendEackData ==
  ASSUME NEW e, NEW c, ConnOK(c), NEW n, NEW s, NEW g, DataOK(e, c, n, s, g), NEW ok
  PROVE ResultData(e, SendEack(c, ok), n, s, g)
<1> DEFINE eacks == {t.seq : t \in c.rxq}
           seg == [Cmp({"ACK", "EAK"}, c.nxt, c.cur) EXCEPT !.eacks = eacks]
<1> HIDE DEF eacks
<1>1. SegOK(e, seg)
  BY ControlData
<1> HIDE DEF seg
<1>2. ResultData(e, SendCmp(c, seg, ok), n, s, g)
  BY <1>1, SendCmpData
<1> QED
  BY <1>2 DEF SendEack, seg, eacks

\* csp_rdp_check_ack.
LEMMA CheckAckData ==
  ASSUME NEW e, NEW c, ConnOK(c), NEW n, NEW s, NEW g, DataOK(e, c, n, s, g), NEW due, NEW ok
  PROVE ResultData(e, CheckAck(c, due, ok), n, s, g)
<1>1. ResultData(e, SendCmp(c, Cmp({"ACK"}, c.nxt, c.cur), ok), n, s, g)
  BY SendOwnData
<1> QED
  BY <1>1, StillData DEF CheckAck

\* The NULL packet for the user.
LEMMA EnqueueNullData ==
  ASSUME NEW e, NEW c, ConnOK(c), NEW n, NEW s, NEW g \in Seq(Payload), DataOK(e, c, n, s, g)
  PROVE DataOK(e, Enqueue(c, Null), n, s, g)
<1> DEFINE d == [c EXCEPT !.rx = Append(@, Null)]
<1>1. c.rx \in Seq(Payload)
  BY DEF ConnOK, Conn
<1>2. /\ d.rx = Append(c.rx, Null) /\ d.state = c.state /\ d.iss = c.iss
      /\ d.nxt = c.nxt /\ d.cur = c.cur /\ d.rxq = c.rxq /\ d.txq = c.txq
  BY DEF ConnOK, Conn
<1>3. \A l, k : Ordered(g, c.rx, l, k) => Ordered(g, d.rx, l, k)
  BY <1>1, <1>2, OrderedNull
<1>4. OnlyNull(c.rx) => OnlyNull(d.rx)
  BY <1>1, <1>2, OnlyNullAppend
<1> HIDE DEF d
<1>5. /\ Running(e, c, g) => Running(e, d, g)
      /\ Ended(e, c, g) => Ended(e, d, g)
  BY <1>2, <1>3, <1>4 DEF Running, Ended
<1>6. DataOK(e, d, n, s, g)
  BY <1>2, <1>5 DEF DataOK, Sending, Taking
<1> QED
  BY <1>6 DEF Enqueue, d

\* While it closes a connection has no claim to be CLOSED and empty.
ClosingData(e, c, n, s, g) == Sending(e, c, n, s) /\ Taking(e, c, g)

\* csp_rdp_close: the state changes, and a reset is sent.
LEMMA RdpCloseData ==
  ASSUME NEW e, NEW c, ConnOK(c), NEW n, NEW s, NEW g, ClosingData(e, c, n, s, g),
         NEW by \in SUBSET ClosedByAll, NEW rst, NEW ok
  PROVE LET r == RdpClose(c, by, rst, ok)
        IN ClosingData(e, r.c, n, s, g) /\ AllSent(e, r.out)
<1> DEFINE entering == c.state # "CLOSE_WAIT"
           c1 == [c EXCEPT !.closedBy = ClosedBy(@, by), !.state = "CLOSE_WAIT",
                           !.sem = @ \/ entering]
           seg == Cmp({"ACK", "RST"}, c.nxt, c.cur)
           r == IF entering /\ rst THEN SendCmp(c1, seg, ok) ELSE Result(c1, {})
           z == [r.c EXCEPT !.state = "CLOSED", !.closedBy = {}]
<1>1. ConnOK(c1)
  BY DEF ClosedBy, ConnOK, Conn, RdpStates
<1>2. /\ c1.state = "CLOSE_WAIT" /\ c1.txq = c.txq /\ c1.iss = c.iss /\ c1.rx = c.rx
      /\ c1.nxt = c.nxt /\ c1.cur = c.cur /\ c1.rxq = c.rxq
  BY DEF ConnOK, Conn
<1>3. SegOK(e, seg) /\ seg \in Segment
  BY ControlData, CmpType DEF ConnOK, Conn
<1>4. CASE c.state = "CLOSED"
  <2>1. RdpClose(c, by, rst, ok) = Result(c, {})
    BY <1>4 DEF RdpClose
  <2> QED
    BY <2>1 DEF Result, AllSent
<1>5. CASE c.state # "CLOSED"
  <2> HIDE DEF c1, seg
  <2>1. DataOK(e, c1, n, s, g)
    BY <1>2, <1>5 DEF ClosingData, DataOK, Sending, Taking, Running, Ended
  <2>2. ResultData(e, r, n, s, g) /\ ResultOK(r)
    BY <1>1, <1>3, <2>1, SendCmpData, StillData, SendCmpType, ResultType
  <2> HIDE DEF r
  <2>3. /\ z.state = "CLOSED" /\ z.txq = r.c.txq /\ z.iss = r.c.iss /\ z.rx = r.c.rx
        /\ z.nxt = r.c.nxt /\ z.cur = r.c.cur /\ z.rxq = r.c.rxq
    BY <2>2 DEF ResultOK, ConnOK, Conn
  <2> HIDE DEF z
  <2>4. ClosingData(e, r.c, n, s, g) /\ ClosingData(e, z, n, s, g) /\ AllSent(e, r.out)
    BY <2>2, <2>3 DEF ResultData, ClosingData, DataOK, Sending, Taking, Running, Ended
  <2>5. RdpClose(c, by, rst, ok) = IF ~Agreed(r.c.closedBy) THEN r ELSE Result(z, r.out)
    BY <1>5 DEF RdpClose, r, z, c1, seg
  <2> QED
    BY <2>4, <2>5 DEF Result
<1> QED
  BY <1>4, <1>5

\* csp_conn_close ends with the connection or with a free slot.
LEMMA ConnCloseData ==
  ASSUME NEW e \in Endpoint, NEW c, ConnOK(c), NEW n, NEW s, NEW g,
         ClosingData(e, c, n, s, g), c.open \/ DataOK(e, c, n, s, g),
         NEW by \in SUBSET ClosedByAll, NEW ok
  PROVE ResultData(e, ConnClose(c, by, ok), n, s, g)
<1> DEFINE r == RdpClose(c, by, TRUE, ok)
           f == Released(r.c)
<1>1. ClosingData(e, r.c, n, s, g) /\ AllSent(e, r.out) /\ ConnOK(r.c)
  BY RdpCloseData, RdpCloseType DEF ResultOK
<1> HIDE DEF r
<1>2. CASE ~c.open
  BY <1>2, StillData DEF ConnClose
<1>3. CASE c.open /\ r.c.state # "CLOSED"
  <2>1. DataOK(e, r.c, n, s, g)
    BY <1>1, <1>3 DEF ClosingData, DataOK
  <2>2. ConnClose(c, by, ok) = r
    BY <1>3 DEF ConnClose, r
  <2> QED
    BY <1>1, <2>1, <2>2 DEF ResultData
<1>4. CASE c.open /\ r.c.state = "CLOSED"
  <2>1. f.state = "CLOSED" /\ f.txq = {} /\ f.rxq = {} /\ f.rx = <<>>
    BY <1>1, <1>4 DEF Released, ConnOK, Conn
  <2>2. \E l, k \in Nat : Ordered(g, r.c.rx, l, k)
    BY <1>1, IssType DEF ClosingData, Taking, Running, Ended
  <2> HIDE DEF f
  <2>3. Ended(e, f, g)
    BY <2>1, <2>2, OrderedClear DEF Ended
  <2>4. DataOK(e, f, n, s, g)
    BY <2>1, <2>3 DEF DataOK, Sending, Taking
  <2>5. ConnClose(c, by, ok) = Result(f, r.out)
    BY <1>4 DEF ConnClose, r, f
  <2> QED
    BY <1>1, <2>4, <2>5 DEF ResultData, Result
<1> QED
  BY <1>2, <1>3, <1>4

\* The label discard_close.
LEMMA DiscardCloseData ==
  ASSUME NEW e \in Endpoint, NEW c, ConnOK(c), NEW n, NEW s, NEW g \in Seq(Payload),
         DataOK(e, c, n, s, g), NEW by \in SUBSET ClosedByAll, NEW ok
  PROVE ResultData(e, DiscardClose(c, by, ok), n, s, g)
<1> DEFINE r == ConnClose(c, by, ok)
           all == by \cup {ByUser}
<1>1. all \in SUBSET ClosedByAll /\ ClosingData(e, c, n, s, g)
  BY DEF ClosedByAll, ClosingData, DataOK
<1> HIDE DEF all
<1>2. ResultData(e, ConnClose(c, all, ok), n, s, g)
  BY <1>1, ConnCloseData
<1>3. ResultData(e, r, n, s, g) /\ ConnOK(r.c)
  BY <1>1, ConnCloseData, ConnCloseType DEF ResultOK
<1> HIDE DEF r
<1>4. DataOK(e, Enqueue(r.c, Null), n, s, g)
  BY <1>3, EnqueueNullData DEF ResultData
<1>5. ResultData(e, Result(Enqueue(r.c, Null), r.out), n, s, g)
  BY <1>3, <1>4 DEF ResultData, Result
<1> QED
  BY <1>2, <1>5 DEF DiscardClose, r, all

\* The part of csp_rdp_check_timeouts that sends again.
LEMMA RetransmittedData ==
  ASSUME NEW e, NEW c, ConnOK(c), NEW n, NEW s, NEW g, DataOK(e, c, n, s, g),
         NEW expired \in SUBSET Unacked(c), NEW due, NEW ok
  PROVE ResultData(e, Retransmitted(c, expired, due, ok), n, s, g)
<1> DEFINE c1 == [c EXCEPT !.txq = Unacked(c)]
           again == IF ok THEN {[x.seg EXCEPT !.ack = c.cur] : x \in expired} ELSE {}
           r == IF DelayedAcks THEN CheckAck(c1, due, ok) ELSE Result(c1, {})
           d == [r.c EXCEPT !.sem = @ \/ ReadyForTx(c)]
<1>1. Unacked(c) \subseteq c.txq /\ IsFiniteSet(Unacked(c))
  BY FS_Subset DEF Unacked, ConnOK
<1>2. ConnOK(c1)
  BY <1>1 DEF ConnOK, Conn
<1>3. /\ c1.txq = Unacked(c) /\ c1.state = c.state /\ c1.iss = c.iss /\ c1.rx = c.rx
      /\ c1.nxt = c.nxt /\ c1.cur = c.cur /\ c1.rxq = c.rxq
  BY DEF ConnOK, Conn
<1>4. AllSent(e, again)
  <2>1. \A x \in expired : x.seg \in Segment /\ SegOK(e, x.seg)
    BY <1>1 DEF ConnOK, Conn, DataOK, Sending
  <2>2. \A x \in expired : SegOK(e, [x.seg EXCEPT !.ack = c.cur])
    BY <2>1, AgainData
  <2> QED
    BY <2>2 DEF AllSent
<1> HIDE DEF c1, again
<1>5. DataOK(e, c1, n, s, g)
  BY <1>1, <1>3 DEF DataOK, Sending, Taking, Running, Ended
<1>6. ResultData(e, r, n, s, g) /\ ResultOK(r)
  BY <1>2, <1>5, CheckAckData, StillData, CheckAckType, ResultType
<1> HIDE DEF r
<1>7. Data(d) = Data(r.c)
  BY <1>6 DEF Data, ResultOK, ConnOK, Conn
<1> HIDE DEF d
<1>8. DataOK(e, d, n, s, g)
  BY <1>6, <1>7, DataOfData DEF ResultData
<1>9. ResultData(e, Result(c1, again), n, s, g)
  BY <1>4, <1>5 DEF ResultData, Result
<1>10. ResultData(e, Result(d, again \cup r.out), n, s, g)
  BY <1>4, <1>6, <1>8 DEF ResultData, Result, AllSent
<1> QED
  BY <1>9, <1>10 DEF Retransmitted, c1, again, r, d

\* The message whose number follows rcv_cur is the next one of the connection:
\* no other connection of the peer has sent that number.
LEMMA NextMessage ==
  ASSUME NumbersApart, NEW e \in Endpoint, NEW c, ConnOK(c), NEW g \in Seq(Payload),
         Running(e, c, g), NEW t, Numbered(Peer(e), t), t.seq = Plus(c.cur, 1),
         NEW d, d.cur = t.seq, d.rx \in {c.rx, Append(c.rx, t.data)}
  PROVE Running(e, d, g)
<1> DEFINE f == Peer(e)
<1>1. f \in Endpoint /\ Len(IssOf[f]) \in Nat /\ MsgLimit[f] \in Nat
  BY IssType
<1>2. PICK l \in 1..Len(IssOf[f]), k \in 0..MsgLimit[f] :
        c.cur = Plus(IssOf[f][l], k) /\ Ordered(g, c.rx, l, k)
  BY DEF Running
<1>3. PICK m \in 1..Len(IssOf[f]), n \in 1..MsgLimit[f] :
        t.data = <<m, n>> /\ t.seq = Plus(IssOf[f][m], n)
  BY DEF Numbered
<1>4. c.rx \in Seq(Payload)
  BY DEF ConnOK, Conn
<1> HIDE DEF f
<1>5. t.seq = Plus(IssOf[f][l], k + 1)
  <2>1. IssOf[f][l] \in Int /\ k \in Int
    BY <1>1, <1>2, IssType
  <2> QED
    BY <1>2, <2>1, PlusPlus
<1>6. m = l /\ n = k + 1
  <2>1. k + 1 \in 1..(MsgLimit[f] + 1)
    BY <1>1, <1>2
  <2>2. Plus(IssOf[f][l], k + 1) = Plus(IssOf[f][m], n)
    BY <1>3, <1>5
  <2>3. \A i \in 1..(MsgLimit[f] + 1), j \in 1..MsgLimit[f] :
          Plus(IssOf[f][l], i) = Plus(IssOf[f][m], j) => l = m /\ i = j
    BY <1>1 DEF NumbersApart
  <2> QED
    BY <2>1, <2>2, <2>3
<1>7. l \in Nat /\ k \in Nat /\ k + 1 \in 0..MsgLimit[f]
  BY <1>1, <1>2, <1>3, <1>6
<1>8. Ordered(g, Append(c.rx, <<l, k + 1>>), l, k + 1) /\ Ordered(g, c.rx, l, k + 1)
  BY <1>2, <1>4, <1>7, OrderedAppend, OrderedMore
<1>9. Ordered(g, d.rx, l, k + 1)
  BY <1>3, <1>6, <1>8
<1> QED
  BY <1>2, <1>5, <1>7, <1>9 DEF Running, f

\* One round of csp_rdp_rx_queue_flush.
LEMMA FlushOneData ==
  ASSUME NumbersApart, NEW e \in Endpoint, NEW c, ConnOK(c), NEW n, NEW s,
         NEW g \in Seq(Payload), DataOK(e, c, n, s, g), NEW t \in NextStored(c)
  PROVE DataOK(e, FlushOne(c, t), n, s, g)
<1> DEFINE d == FlushOne(c, t)
<1>1. t \in c.rxq /\ t.seq = Plus(c.cur, 1) /\ t.seq \in SeqNr /\ t.data \in Payload
  BY DEF NextStored, ConnOK, Conn
<1>2. ConnOK(Enqueue(c, t.data))
  BY <1>1, EnqueueType
<1>3. /\ d.cur = t.seq /\ d.rxq = c.rxq \ {t} /\ d.state = c.state
      /\ d.iss = c.iss /\ d.nxt = c.nxt /\ d.txq = c.txq
      /\ d.rx \in {c.rx, Append(c.rx, t.data)}
  BY DEF FlushOne, Enqueue, ConnOK, Conn
<1> HIDE DEF d
<1>4. Running(e, c, g) /\ c.state # "CLOSED" /\ c.state # "SYN_SENT" /\ Numbered(Peer(e), t)
  BY <1>1 DEF DataOK, Taking, Ended
<1>5. Running(e, d, g)
  BY <1>1, <1>3, <1>4, NextMessage
<1>6. DataOK(e, d, n, s, g)
  BY <1>3, <1>4, <1>5 DEF DataOK, Sending, Taking
<1> QED
  BY <1>6 DEF d

\* The part of csp_rdp_new_packet that takes data.
LEMMA HandleDataData ==
  ASSUME NumbersApart, NEW e \in Endpoint, NEW c0, ConnOK(c0), NEW n, NEW s,
         NEW g \in Seq(Payload), DataOK(e, c0, n, s, g), c0.state = "OPEN",
         NEW p \in Segment, SegOK(Peer(e), p), NEW due, NEW ok
  PROVE ResultData(e, HandleData(c0, p, due, ok), n, s, g)
<1> DEFINE c == [c0 EXCEPT !.una = Plus(p.ack, 1)]
           t == [seq |-> p.seq, data |-> p.data]
           stored == [c EXCEPT !.rxq = @ \cup {t}]
           taken == Taken(c, p)
           flushed == FlushEack(c, p.eacks)
<1>1. /\ p.seq \in SeqNr /\ p.ack \in SeqNr /\ p.data \in Payload
      /\ Plus(p.ack, 1) \in SeqNr
  BY PlusType DEF Segment, SeqNr
<1>2. ConnOK(c) /\ Data(c) = Data(c0)
  BY <1>1 DEF ConnOK, Conn, Data
<1> HIDE DEF c
<1>3. DataOK(e, c, n, s, g) /\ c.state = "OPEN" /\ Running(e, c, g)
  BY <1>2, DataOfData DEF Data, DataOK, Taking
<1>4. ResultData(e, Result(flushed, {}), n, s, g)
  <2>1. /\ flushed.txq \subseteq c.txq /\ flushed.state = c.state /\ flushed.iss = c.iss
        /\ flushed.nxt = c.nxt /\ flushed.cur = c.cur /\ flushed.rxq = c.rxq
        /\ flushed.rx = c.rx
    BY <1>2 DEF FlushEack, ConnOK, Conn
  <2> HIDE DEF flushed
  <2>2. DataOK(e, flushed, n, s, g)
    BY <1>3, <2>1 DEF DataOK, Sending, Taking, Running, Ended
  <2> QED
    BY <2>2, StillData
<1>5. ASSUME p.data # NoData PROVE ResultData(e, SendEack(stored, ok), n, s, g)
  <2>1. t \in [seq : SeqNr, data : Payload] /\ t.seq = p.seq /\ t.data = p.data
    BY <1>1
  <2>2. Numbered(Peer(e), t)
    BY <1>5, <2>1 DEF SegOK, Numbered
  <2> HIDE DEF t
  <2>3. ConnOK(stored)
    <3>1. c.rxq \cup {t} \in SUBSET [seq : SeqNr, data : Payload]
      BY <2>1, <1>2 DEF ConnOK, Conn
    <3> QED
      BY <3>1, <1>2 DEF ConnOK, Conn
  <2>4. /\ stored.rxq = c.rxq \cup {t} /\ stored.state = c.state /\ stored.iss = c.iss
        /\ stored.nxt = c.nxt /\ stored.cur = c.cur /\ stored.txq = c.txq
        /\ stored.rx = c.rx
    BY <1>2 DEF ConnOK, Conn
  <2> HIDE DEF stored
  <2>5. DataOK(e, stored, n, s, g)
    BY <1>3, <2>2, <2>4 DEF DataOK, Sending, Taking, Running
  <2> QED
    BY <2>3, <2>5, SendEackData
<1>6. ASSUME p.data # NoData, p.seq = Plus(c.cur, 1)
      PROVE ResultData(e, CheckAck(taken, due, ok), n, s, g)
  <2>1. ConnOK(taken)
    BY <1>1, <1>2, EnqueueType DEF Taken, ConnOK, Conn
  <2>2. ConnOK(Enqueue(c, p.data))
    BY <1>1, <1>2, EnqueueType
  <2>3. /\ taken.cur = p.seq /\ taken.rxq = c.rxq /\ taken.state = c.state
        /\ taken.iss = c.iss /\ taken.nxt = c.nxt /\ taken.txq = c.txq
        /\ taken.rx \in {c.rx, Append(c.rx, p.data)}
    BY <1>2, <2>2 DEF Taken, Enqueue, ConnOK, Conn
  <2> HIDE DEF taken
  <2>4. Running(e, taken, g)
    BY <1>2, <1>3, <1>6, <2>3, NextMessage DEF SegOK
  <2>5. DataOK(e, taken, n, s, g)
    BY <1>3, <2>3, <2>4 DEF DataOK, Sending, Taking
  <2> QED
    BY <2>1, <2>5, CheckAckData
<1>7. ResultData(e, CheckAck(c, due, ok), n, s, g) /\ ResultData(e, Result(c, {}), n, s, g)
  BY <1>2, <1>3, CheckAckData, StillData
<1> HIDE DEF stored, taken, flushed
<1> QED
  BY <1>4, <1>5, <1>6, <1>7 DEF HandleData, c, stored, taken, flushed, t

\* csp_conn_new gives a free slot.
LEMMA NewConnData ==
  ASSUME NEW e \in Endpoint, NEW c, ConnOK(c), NEW n, NEW s, NEW g, DataOK(e, c, n, s, g),
         c.state = "CLOSED", NEW socket
  PROVE LET d == NewConn(c, socket)
        IN DataOK(e, d, n, s, g) /\ d.state = "CLOSED" /\ d.rxq = {} /\ d.rx = <<>>
<1> DEFINE d == NewConn(c, socket)
<1>1. /\ d.rx = <<>> /\ d.rxq = c.rxq /\ d.state = "CLOSED" /\ d.txq = c.txq
  BY DEF NewConn, ConnOK, Conn
<1>2. Ended(e, c, g)
  BY DEF DataOK
<1> HIDE DEF d
<1>3. Ended(e, d, g)
  BY <1>1, <1>2, OrderedClear DEF Ended
<1>4. DataOK(e, d, n, s, g) /\ d.rxq = {}
  BY <1>1, <1>3 DEF DataOK, Sending, Taking, Ended
<1> QED
  BY <1>1, <1>4 DEF d

----------------------------------------------------------------------------
\* The actions of the router keep DataInv.

\* One endpoint gets a connection, and sends.
LEMMA DataStep ==
  ASSUME TypeOK, DataInv, NEW e \in Endpoint, NEW r, NEW n, NEW s, NEW g,
         ResultData(e, r, n, s, g), NewFrom(e, r.out),
         conn' = [conn EXCEPT ![e] = r.c], picks' = [picks EXCEPT ![e] = n],
         sent' = [sent EXCEPT ![e] = s], got' = [got EXCEPT ![e] = g],
         \A f \in Endpoint : SegOK(f, hand'[f])
  PROVE DataInv'
<1>1. DataOK(e, conn'[e], picks'[e], sent'[e], got'[e])
  BY DEF TypeOK, ResultData
<1>2. \A f \in Endpoint \ {e} : DataOK(f, conn'[f], picks'[f], sent'[f], got'[f])
  BY DEF TypeOK, DataInv
<1>3. \A m \in net' : SegOK(Peer(m.to), m.seg)
  <2> SUFFICES ASSUME NEW m \in net' PROVE SegOK(Peer(m.to), m.seg)
    OBVIOUS
  <2>1. CASE m \in net
    BY <2>1 DEF DataInv
  <2>2. CASE \E t \in r.out : m = [to |-> Peer(e), seg |-> t]
    BY <2>2, IssType DEF ResultData, AllSent
  <2> QED
    BY <2>1, <2>2 DEF NewFrom
<1> QED
  BY <1>1, <1>2, <1>3 DEF DataInv

\* The same when no message is accepted, composed or read.
LEMMA DataStill ==
  ASSUME TypeOK, DataInv, NEW e \in Endpoint, NEW r,
         ResultData(e, r, picks[e], sent[e], got[e]), NewFrom(e, r.out),
         conn' = [conn EXCEPT ![e] = r.c], UNCHANGED <<picks, sent, got, hand>>
  PROVE DataInv'
<1>1. /\ picks' = [picks EXCEPT ![e] = picks[e]] /\ sent' = [sent EXCEPT ![e] = sent[e]]
      /\ got' = [got EXCEPT ![e] = got[e]]
  BY DEF TypeOK
<1>2. \A f \in Endpoint : SegOK(f, hand'[f])
  BY DEF DataInv
<1> DEFINE n == picks[e]
           s == sent[e]
           g == got[e]
<1>3. /\ ResultData(e, r, n, s, g) /\ picks' = [picks EXCEPT ![e] = n]
      /\ sent' = [sent EXCEPT ![e] = s] /\ got' = [got EXCEPT ![e] = g]
  BY <1>1
<1> HIDE DEF n, s, g
<1> QED
  BY <1>2, <1>3, DataStep

\* A call of csp_rdp_new_packet.
LEMMA HandlerData ==
  ASSUME TypeOK, DataInv, NEW e \in Endpoint, NEW p, NEW r, NEW ok, NEW next,
         HandledThen(e, p, r, ok, next), UNCHANGED <<picks, sent, got>>,
         ResultData(e, r, picks[e], sent[e], got[e])
  PROVE DataInv'
<1>1. NewFrom(e, r.out)
  BY TransmitData DEF HandledThen
<1> QED
  BY <1>1, DataStill DEF HandledThen

\* The data of endpoint e in this state.
Holds(e, c) == DataOK(e, c, picks[e], sent[e], got[e])
Gives(e, r) == ResultData(e, r, picks[e], sent[e], got[e])

\* What arrives has been sent by the peer; its target is a connection, and an
\* empty one if it is new.
LEMMA ArrivesData ==
  ASSUME TypeOK, SlotInv, DataInv, NEW e \in Endpoint, NEW p, Arrives(e, p)
  PROVE /\ p \in Segment /\ SegOK(Peer(e), p) /\ got[e] \in Seq(Payload)
        /\ ConnOK(Target(e)) /\ Holds(e, Target(e))
        /\ Target(e).state = "CLOSED" => Target(e).rxq = {} /\ OnlyNull(Target(e).rx)
<1>1. p \in Segment /\ ConnOK(Target(e)) /\ ConnOK(conn[e]) /\ got[e] \in Seq(Payload)
  BY ArrivesType, TypeParts DEF LinkType, QuietType
<1>2. SegOK(Peer(e), p)
  BY DEF Arrives, DataInv
<1>3. Holds(e, conn[e]) /\ (~conn[e].open => conn[e].state = "CLOSED")
  BY DEF DataInv, Holds, SlotInv, SlotOK
<1>4. Holds(e, Target(e))
  BY <1>1, <1>3, NewConnData DEF Target, Holds
<1>5. Target(e).state = "CLOSED" => Target(e).rxq = {} /\ OnlyNull(Target(e).rx)
  BY <1>4 DEF Holds, DataOK, Ended
<1> QED
  BY <1>1, <1>2, <1>4, <1>5

\* A connection that is not closed goes to CLOSE_WAIT, or to OPEN at the end of
\* the handshake.
LEMMA StateData ==
  ASSUME NEW e, NEW c, NEW n, NEW s, NEW g, DataOK(e, c, n, s, g), NEW d,
         d.iss = c.iss, d.nxt = c.nxt, d.cur = c.cur, d.txq = c.txq, d.rxq = c.rxq,
         d.rx = c.rx,
         \/ d.state = "CLOSE_WAIT" /\ c.state # "CLOSED"
         \/ d.state = "OPEN" /\ c.state \in {"SYN_RCVD", "OPEN"}
  PROVE DataOK(e, d, n, s, g)
<1>1. Running(e, c, g) => Running(e, d, g)
  BY DEF Running
<1>2. Ended(e, c, g) => Ended(e, d, g)
  BY DEF Ended
<1> QED
  BY <1>1, <1>2 DEF DataOK, Sending, Taking

\* The handlers of a reset.
LEMMA RstData ==
  ASSUME TypeOK, SlotInv, DataInv, NEW e \in Endpoint, NEW p,
         \/ RstInClosed(e, p) \/ RstInCloseWait(e, p)
         \/ RstInSequence(e, p) \/ RstOutOfSequence(e, p)
  PROVE DataInv'
<1> DEFINE c == AckOfRst(Target(e), p)
<1>1. Arrives(e, p) /\ UNCHANGED <<picks, sent, got>>
  BY DEF RstInClosed, RstInCloseWait, RstInSequence, RstOutOfSequence, Quiet, histVars
<1>2. ConnOK(Target(e)) /\ ConnOK(c) /\ Holds(e, Target(e)) /\ got[e] \in Seq(Payload)
  BY <1>1, ArrivesData, AckOfRstType
<1>3. Data(c) = Data(Target(e)) /\ c.state = Target(e).state
  BY <1>2 DEF AckOfRst, Data, ConnOK, Conn
<1> HIDE DEF c
<1>4. Holds(e, c)
  BY <1>2, <1>3, DataOfData DEF Holds
<1>5. Gives(e, Result(c, {}))
  BY <1>4, StillData DEF Holds, Gives
<1>6. \A by \in SUBSET ClosedByAll : \A ok : Gives(e, ConnClose(c, by, ok))
  BY <1>2, <1>4, ConnCloseData DEF Holds, Gives, ClosingData, DataOK
<1>7. \A by \in SUBSET ClosedByAll : \A ok : Gives(e, DiscardClose(c, by, ok))
  BY <1>2, <1>4, DiscardCloseData DEF Holds, Gives
<1>8. CASE RstInClosed(e, p)
  <2>1. Gives(e, IF c.socket THEN ConnClose(c, {ByUser}, TRUE) ELSE Result(c, {}))
    BY <1>5, <1>6, ClosersType
  <2> QED
    BY <1>1, <1>8, <2>1, HandlerData DEF RstInClosed, Handled, Gives, c
<1>9. CASE RstInCloseWait(e, p)
  <2> DEFINE by == IF FastClose /\ "ACK" \in p.flags THEN {ByProtocol, ByTimeout} ELSE {ByProtocol}
  <2>1. by \in SUBSET ClosedByAll
    BY ClosersType
  <2>2. HandledThen(e, p, DiscardClose(c, by, TRUE), TRUE, "idle")
    BY <1>9 DEF RstInCloseWait, Handled, c
  <2> HIDE DEF by
  <2> QED
    BY <1>1, <1>7, <2>1, <2>2, HandlerData DEF Gives
<1>10. CASE RstInSequence(e, p)
  <2> DEFINE w == [c EXCEPT !.state = "CLOSE_WAIT"]
             r(ok) == SendCmp(w, Cmp({"ACK", "RST"}, w.nxt, w.cur), ok)
             by == IF FastClose THEN {ByProtocol, ByTimeout} ELSE {ByProtocol}
             d(ok) == DiscardClose(r(ok).c, by, ok)
             s(ok) == Result(d(ok).c, r(ok).out \cup d(ok).out)
  <2>1. PICK ok \in BOOLEAN : HandledThen(e, p, s(ok), ok, "idle")
    BY <1>10 DEF RstInSequence, Handled, c
  <2>2. ConnOK(w)
    BY <1>2 DEF ConnOK, Conn, RdpStates
  <2>3. /\ w.state = "CLOSE_WAIT" /\ w.iss = c.iss /\ w.nxt = c.nxt /\ w.cur = c.cur
        /\ w.txq = c.txq /\ w.rxq = c.rxq /\ w.rx = c.rx /\ c.state # "CLOSED"
    BY <1>2, <1>3, <1>10 DEF RstInSequence, ConnOK, Conn
  <2>4. by \in SUBSET ClosedByAll
    BY ClosersType
  <2> HIDE DEF w, by
  <2>5. Holds(e, w)
    BY <1>4, <2>3, StateData DEF Holds
  <2>6. Gives(e, r(ok)) /\ ResultOK(r(ok))
    BY <2>2, <2>5, SendOwnData, SendOwnType DEF Holds, Gives
  <2> HIDE DEF r
  <2>7. Gives(e, d(ok))
    BY <1>2, <2>4, <2>6, DiscardCloseData DEF Gives, ResultData, ResultOK
  <2> HIDE DEF d
  <2>8. Gives(e, s(ok))
    BY <2>6, <2>7 DEF Gives, ResultData, Result, AllSent
  <2> HIDE DEF s
  <2> QED
    BY <1>1, <2>1, <2>8, HandlerData DEF Gives
<1>11. CASE RstOutOfSequence(e, p)
  BY <1>1, <1>5, <1>11, HandlerData DEF RstOutOfSequence, Handled, Gives, c
<1> QED
  BY <1>8, <1>9, <1>10, <1>11

\* The handlers that leave the connection as it is, or answer with its numbers.
LEMMA AnswerData ==
  ASSUME TypeOK, SlotInv, DataInv, NEW e \in Endpoint, NEW p,
         \/ DropUnknown(e, p) \/ DuplicateSyn(e, p) \/ InvalidAck(e, p)
         \/ IgnoredInCloseWait(e, p) \/ OutOfWindow(e, p) \/ HalfOpen(e, p)
         \/ AckInCloseWait(e, p)
  PROVE DataInv'
<1>1. UNCHANGED <<picks, sent, got>>
  BY DEF DropUnknown, DuplicateSyn, InvalidAck, IgnoredInCloseWait, OutOfWindow,
         HalfOpen, AckInCloseWait, Quiet, histVars
<1>2. ASSUME Arrives(e, p)
      PROVE /\ p \in Segment /\ ConnOK(Target(e)) /\ Holds(e, Target(e))
            /\ Gives(e, Result(Target(e), {}))
  BY <1>2, ArrivesData, StillData DEF Holds, Gives
<1>3. CASE DropUnknown(e, p)
  <2>1. Gives(e, Result(conn[e], {}))
    BY StillData DEF Gives, DataInv
  <2> QED
    BY <1>1, <1>3, <2>1, HandlerData DEF DropUnknown, Handled, Gives
<1>4. CASE DuplicateSyn(e, p) \/ InvalidAck(e, p) \/ IgnoredInCloseWait(e, p)
  <2>1. HandledThen(e, p, Result(Target(e), {}), TRUE, "idle") /\ Arrives(e, p)
    BY <1>4 DEF DuplicateSyn, InvalidAck, IgnoredInCloseWait, Receives, Handled
  <2> QED
    BY <1>1, <1>2, <2>1, HandlerData DEF Gives
<1>5. CASE OutOfWindow(e, p)
  <2> DEFINE r(ok, cloned) == IF Target(e).state = "SYN_RCVD"
                              THEN SendSynAck(Target(e), cloned, ok)
                              ELSE SendEack(Target(e), ok)
  <2>1. PICK ok \in BOOLEAN, cloned \in BOOLEAN : HandledThen(e, p, r(ok, cloned), ok, "idle")
    BY <1>5 DEF OutOfWindow, Handled
  <2>2. ConnOK(Target(e)) /\ Holds(e, Target(e))
    BY <1>2, <1>5 DEF OutOfWindow, Receives
  <2>3. Gives(e, r(ok, cloned))
    BY <2>2, SendSynAckData, SendEackData DEF Holds, Gives
  <2> HIDE DEF r
  <2> QED
    BY <1>1, <2>1, <2>3, HandlerData DEF Gives
<1>6. CASE HalfOpen(e, p)
  <2> DEFINE c == [Target(e) EXCEPT !.sem = TRUE]
             r(ok) == SendCmp(c, Cmp({"RST"}, c.nxt, c.cur), ok)
  <2>1. PICK ok \in BOOLEAN : HandledThen(e, p, r(ok), ok, "idle")
    BY <1>6 DEF HalfOpen, Handled
  <2>2. ConnOK(c) /\ Data(c) = Data(Target(e)) /\ Holds(e, Target(e))
    BY <1>2, <1>6 DEF HalfOpen, Receives, ConnOK, Conn, Data
  <2> HIDE DEF c
  <2>3. Holds(e, c)
    BY <2>2, DataOfData DEF Holds
  <2>4. Gives(e, r(ok))
    BY <2>2, <2>3, SendOwnData DEF Holds, Gives
  <2> HIDE DEF r
  <2> QED
    BY <1>1, <2>1, <2>4, HandlerData DEF Gives
<1>7. CASE AckInCloseWait(e, p)
  <2> DEFINE c == [Target(e) EXCEPT !.una = Plus(p.ack, 1)]
             r(ok) == SendCmp(c, Cmp({"ACK", "RST"}, c.nxt, c.cur), ok)
  <2>1. PICK ok \in BOOLEAN : HandledThen(e, p, r(ok), ok, "idle")
    BY <1>7 DEF AckInCloseWait, Handled
  <2>2. p \in Segment /\ ConnOK(Target(e)) /\ Holds(e, Target(e))
    BY <1>2, <1>7 DEF AckInCloseWait, Receives
  <2>3. Plus(p.ack, 1) \in SeqNr
    BY <2>2, PlusType DEF Segment, SeqNr
  <2>4. ConnOK(c) /\ Data(c) = Data(Target(e))
    BY <2>2, <2>3 DEF ConnOK, Conn, Data
  <2> HIDE DEF c
  <2>5. Holds(e, c)
    BY <2>2, <2>4, DataOfData DEF Holds
  <2>6. Gives(e, r(ok))
    BY <2>4, <2>5, SendOwnData DEF Holds, Gives
  <2> HIDE DEF r
  <2> QED
    BY <1>1, <2>1, <2>6, HandlerData DEF Gives
<1> QED
  BY <1>3, <1>4, <1>5, <1>6, <1>7

\* The handlers that close the connection.
LEMMA DiscardData ==
  ASSUME TypeOK, SlotInv, DataInv, NEW e \in Endpoint, NEW p,
         \/ InvalidSyn(e, p) \/ WrongAckInSynRcvd(e, p) \/ BacklogFull(e, p)
         \/ NoSynInClosed(e, p)
  PROVE DataInv'
<1>1. Arrives(e, p) /\ UNCHANGED <<picks, sent, got>>
  BY DEF InvalidSyn, WrongAckInSynRcvd, BacklogFull, NoSynInClosed, Acceptable, Receives,
         Quiet, histVars
<1>2. ConnOK(Target(e)) /\ Holds(e, Target(e)) /\ got[e] \in Seq(Payload)
  BY <1>1, ArrivesData
<1>3. ASSUME NEW c, ConnOK(c), Holds(e, c), NEW ok
      PROVE Gives(e, DiscardClose(c, {ByProtocol}, ok))
  BY <1>2, <1>3, ClosersType, DiscardCloseData DEF Holds, Gives
<1>4. CASE InvalidSyn(e, p) \/ WrongAckInSynRcvd(e, p)
  <2>1. PICK ok \in BOOLEAN :
          HandledThen(e, p, DiscardClose(Target(e), {ByProtocol}, ok), ok, "idle")
    BY <1>4 DEF InvalidSyn, WrongAckInSynRcvd, Handled
  <2>2. Gives(e, DiscardClose(Target(e), {ByProtocol}, ok))
    BY <1>2, <1>3
  <2> QED
    BY <1>1, <2>1, <2>2, HandlerData DEF Gives
<1>5. CASE BacklogFull(e, p)
  <2> DEFINE c == [Target(e) EXCEPT !.state = "OPEN"]
  <2>1. ConnOK(c)
    BY <1>2 DEF ConnOK, Conn, RdpStates
  <2>2. /\ c.state = "OPEN" /\ c.iss = Target(e).iss /\ c.nxt = Target(e).nxt
        /\ c.cur = Target(e).cur /\ c.txq = Target(e).txq /\ c.rxq = Target(e).rxq
        /\ c.rx = Target(e).rx /\ Target(e).state = "SYN_RCVD"
    BY <1>2, <1>5 DEF BacklogFull, Acceptable, Receives, ConnOK, Conn
  <2>3. PICK sends \in BOOLEAN :
          HandledThen(e, p, DiscardClose(c, {ByProtocol}, sends), FALSE, "idle")
    BY <1>5 DEF BacklogFull, Handled
  <2> HIDE DEF c
  <2>4. Holds(e, c)
    BY <1>2, <2>2, StateData DEF Holds
  <2>5. Gives(e, DiscardClose(c, {ByProtocol}, sends))
    BY <1>3, <2>1, <2>4
  <2> QED
    BY <1>1, <2>3, <2>5, HandlerData DEF Gives
<1>6. CASE NoSynInClosed(e, p)
  <2> DEFINE c == Target(e)
             r(ok) == SendCmp(c, Cmp({"RST"}, c.nxt, c.cur), ok)
             d(ok) == DiscardClose(r(ok).c, {ByProtocol}, ok)
             s(ok) == Result(d(ok).c, r(ok).out \cup d(ok).out)
  <2>1. PICK ok \in BOOLEAN : HandledThen(e, p, s(ok), ok, "idle")
    BY <1>6 DEF NoSynInClosed, Handled
  <2> HIDE DEF c
  <2>2. Gives(e, r(ok)) /\ ResultOK(r(ok))
    BY <1>2, SendOwnData, SendOwnType DEF Holds, Gives, c
  <2> HIDE DEF r
  <2>3. Gives(e, d(ok))
    BY <1>3, <2>2 DEF Gives, Holds, ResultData, ResultOK
  <2> HIDE DEF d
  <2>4. Gives(e, s(ok))
    BY <2>2, <2>3 DEF Gives, ResultData, Result, AllSent
  <2> HIDE DEF s
  <2> QED
    BY <1>1, <2>1, <2>4, HandlerData DEF Gives
<1> QED
  BY <1>4, <1>5, <1>6

\* A SYN begins a new connection with nothing of the old one.
LEMMA SynInClosedData ==
  ASSUME TypeOK, SlotInv, DataInv, NEW e \in Endpoint, NEW p, SynInClosed(e, p)
  PROVE DataInv'
<1> DEFINE c == [Target(e) EXCEPT
                   !.iss = Pick(e), !.nxt = Plus(Pick(e), 1), !.una = Pick(e),
                   !.cur = p.seq, !.irs = p.seq, !.lsa = p.seq,
                   !.state = "SYN_RCVD"]
           n == picks[e] + 1
           r(ok, cloned) == SendSynAck(c, cloned, ok)
<1>1. Arrives(e, p) /\ Target(e).state = "CLOSED" /\ "SYN" \in p.flags /\ CanPick(e)
  BY DEF SynInClosed, Receives
<1>2. /\ p \in Segment /\ SegOK(Peer(e), p) /\ ConnOK(Target(e)) /\ Holds(e, Target(e))
      /\ Target(e).rxq = {} /\ OnlyNull(Target(e).rx)
  BY <1>1, ArrivesData
<1>3. Pick(e) \in SeqNr /\ p.seq \in SeqNr
  BY <1>1, <1>2, PickType DEF Segment
<1>4. Plus(Pick(e), 1) \in SeqNr
  BY <1>3, PlusType DEF SeqNr
<1>5. ConnOK(c)
  BY <1>2, <1>3, <1>4 DEF ConnOK, Conn, RdpStates
<1>6. /\ c.state = "SYN_RCVD" /\ c.iss = Pick(e) /\ c.nxt = Plus(Pick(e), 1)
      /\ c.cur = p.seq /\ c.txq = Target(e).txq /\ c.rxq = {} /\ c.rx = Target(e).rx
  BY <1>2 DEF ConnOK, Conn
<1> HIDE DEF c
<1>7. n \in 1..Len(IssOf[e]) /\ Pick(e) = IssOf[e][n]
  <2>1. picks[e] \in Nat /\ Len(IssOf[e]) \in Nat
    BY IssType DEF TypeOK
  <2> QED
    BY <1>1, <2>1 DEF CanPick, Pick
<1> HIDE DEF n
<1>8. Sending(e, c, n, 0)
  BY <1>2, <1>6, <1>7 DEF Sending, Holds, DataOK
<1>9. Running(e, c, <<>>)
  <2>1. PICK l \in 1..Len(IssOf[Peer(e)]) : p.seq = IssOf[Peer(e)][l]
    BY <1>1, <1>2 DEF SegOK
  <2>2. p.seq = Plus(IssOf[Peer(e)][l], 0)
    BY <1>3, <2>1, PlusZero
  <2>3. Ordered(<<>>, c.rx, l, 0)
    BY <1>2, <1>6, OrderedStart
  <2>4. 0 \in 0..MsgLimit[Peer(e)]
    BY IssType
  <2> QED
    BY <1>6, <2>1, <2>2, <2>3, <2>4 DEF Running
<1>10. DataOK(e, c, n, 0, <<>>)
  BY <1>6, <1>8, <1>9 DEF DataOK, Taking
<1>11. PICK ok \in BOOLEAN, cloned \in BOOLEAN : HandledThen(e, p, r(ok, cloned), ok, "idle")
  BY DEF SynInClosed, Handled, c
<1>12. ResultData(e, r(ok, cloned), n, 0, <<>>)
  BY <1>5, <1>6, <1>10, SendSynAckData
<1> HIDE DEF r
<1>13. NewFrom(e, r(ok, cloned).out) /\ conn' = [conn EXCEPT ![e] = r(ok, cloned).c] /\ hand' = hand
  BY <1>11, TransmitData DEF HandledThen
<1>14. /\ picks' = [picks EXCEPT ![e] = n] /\ sent' = [sent EXCEPT ![e] = 0]
       /\ got' = [got EXCEPT ![e] = <<>>]
  BY DEF SynInClosed, n, TypeOK
<1>15. \A f \in Endpoint : SegOK(f, hand'[f])
  BY <1>13 DEF DataInv
<1> QED
  BY <1>12, <1>13, <1>14, <1>15, DataStep

\* The SYN/ACK tells the client the number of the peer's connection.
LEMMA SynAckInSynSentData ==
  ASSUME TypeOK, SlotInv, DataInv, NEW e \in Endpoint, NEW p, SynAckInSynSent(e, p)
  PROVE DataInv'
<1> DEFINE c == [Target(e) EXCEPT
                   !.cur = p.seq, !.irs = p.seq, !.lsa = (p.seq - 1) % SeqMod,
                   !.una = Plus(p.ack, 1), !.state = "OPEN", !.sem = TRUE]
           r(ok) == SendCmp(c, Cmp({"ACK"}, c.nxt, c.cur), ok)
<1>1. Arrives(e, p) /\ Target(e).state = "SYN_SENT" /\ "SYN" \in p.flags
  BY DEF SynAckInSynSent, Receives
<1>2. p \in Segment /\ SegOK(Peer(e), p) /\ ConnOK(Target(e)) /\ Holds(e, Target(e))
  BY <1>1, ArrivesData
<1>3. p.seq \in SeqNr /\ p.seq \in Int /\ p.ack \in Int
  BY <1>2 DEF Segment, SeqNr
<1>4. (p.seq - 1) % SeqMod \in SeqNr /\ Plus(p.ack, 1) \in SeqNr
  BY <1>3, PlusType, MinusType
<1>5. ConnOK(c)
  BY <1>2, <1>3, <1>4 DEF ConnOK, Conn, RdpStates
<1>6. /\ c.state = "OPEN" /\ c.iss = Target(e).iss /\ c.nxt = Target(e).nxt
      /\ c.cur = p.seq /\ c.txq = Target(e).txq /\ c.rxq = Target(e).rxq
      /\ c.rx = Target(e).rx
  BY <1>2 DEF ConnOK, Conn
<1> HIDE DEF c
<1>7. Ended(e, Target(e), got[e]) /\ got[e] = <<>>
  BY <1>1, <1>2 DEF Holds, DataOK, Taking
<1>8. Running(e, c, got[e])
  <2>1. PICK l \in 1..Len(IssOf[Peer(e)]) : p.seq = IssOf[Peer(e)][l]
    BY <1>1, <1>2 DEF SegOK
  <2>2. p.seq = Plus(IssOf[Peer(e)][l], 0)
    BY <1>3, <2>1, PlusZero
  <2>3. Ordered(got[e], c.rx, l, 0)
    BY <1>6, <1>7, OrderedStart DEF Ended
  <2>4. 0 \in 0..MsgLimit[Peer(e)]
    BY IssType
  <2> QED
    BY <1>6, <2>1, <2>2, <2>3, <2>4 DEF Running
<1>9. Holds(e, c)
  BY <1>1, <1>2, <1>6, <1>8 DEF Holds, DataOK, Sending, Taking
<1>10. PICK ok \in BOOLEAN : HandledThen(e, p, r(ok), ok, "idle")
  BY DEF SynAckInSynSent, Handled, c
<1>11. Gives(e, r(ok))
  BY <1>5, <1>9, SendOwnData DEF Holds, Gives
<1>12. UNCHANGED <<picks, sent, got>>
  BY DEF SynAckInSynSent, Quiet, histVars
<1> HIDE DEF r
<1> QED
  BY <1>10, <1>11, <1>12, HandlerData DEF Gives

\* The handlers of data, and of the ACK that ends the handshake.
LEMMA DataInOpenData ==
  ASSUME NumbersApart, TypeOK, SlotInv, DataInv, NEW e \in Endpoint, NEW p,
         DataInOpen(e, p) \/ HandshakeDone(e, p)
  PROVE DataInv'
<1> DEFINE c == IF HandshakeDone(e, p) THEN Opened(Target(e)) ELSE Target(e)
           r(ok, due) == HandleData(c, p, due, ok)
<1>1. /\ Arrives(e, p) /\ UNCHANGED <<picks, sent, got>>
      /\ Target(e).state = IF HandshakeDone(e, p) THEN "SYN_RCVD" ELSE "OPEN"
  BY DEF DataInOpen, HandshakeDone, Acceptable, Receives, Quiet, histVars
<1>2. /\ p \in Segment /\ SegOK(Peer(e), p) /\ ConnOK(Target(e)) /\ Holds(e, Target(e))
      /\ got[e] \in Seq(Payload)
  BY <1>1, ArrivesData
<1>3. ConnOK(c) /\ c.state = "OPEN"
  BY <1>1, <1>2 DEF Opened, ConnOK, Conn, RdpStates
<1>4. /\ c.iss = Target(e).iss /\ c.nxt = Target(e).nxt /\ c.cur = Target(e).cur
      /\ c.txq = Target(e).txq /\ c.rxq = Target(e).rxq /\ c.rx = Target(e).rx
  BY <1>2 DEF Opened, ConnOK, Conn
<1>5. PICK ok \in BOOLEAN, due \in BOOLEAN : HandledData(e, p, c, due, ok)
  BY DEF DataInOpen, HandshakeDone
<1> HIDE DEF c
<1>6. Holds(e, c)
  BY <1>1, <1>2, <1>3, <1>4, StateData DEF Holds
<1>7. Gives(e, r(ok, due))
  BY <1>2, <1>3, <1>6, HandleDataData DEF Holds, Gives
<1>8. PICK next : HandledThen(e, p, r(ok, due), ok, next)
  BY <1>5 DEF HandledData
<1> HIDE DEF r
<1> QED
  BY <1>1, <1>7, <1>8, HandlerData DEF Gives

\* All of csp_rdp_new_packet.
LEMMA ArrivalData ==
  ASSUME NumbersApart, TypeOK, SlotInv, DataInv, Arrival PROVE DataInv'
<1>1. PICK m \in net : NewPacket(m.to, m.seg)
  BY DEF Arrival
<1>2. m.to \in Endpoint
  BY DEF TypeOK
<1> QED
  BY <1>1, <1>2, RstData, AnswerData, DiscardData, SynInClosedData,
     SynAckInSynSentData, DataInOpenData DEF NewPacket

\* csp_rdp_check_timeouts and csp_rdp_rx_queue_flush.
LEMMA CheckTimeoutsData ==
  ASSUME NumbersApart, TypeOK, SlotInv, DataInv, NEW e \in Endpoint,
         CheckTimeouts(e) \/ FlushNext(e)
  PROVE DataInv'
<1>1. /\ ConnOK(conn[e]) /\ Holds(e, conn[e]) /\ ClosingData(e, conn[e], picks[e], sent[e], got[e])
      /\ got[e] \in Seq(Payload)
  BY TypeParts DEF LinkType, QuietType, DataInv, Holds, ClosingData, DataOK
<1>2. ASSUME NEW r, NEW ok, Checked(e, r, ok), Gives(e, r) PROVE DataInv'
  <2>1. NewFrom(e, r.out)
    BY <1>2, TransmitData DEF Checked
  <2> QED
    BY <1>2, <2>1, DataStill DEF Checked, RouterUnchanged, histVars, Gives
<1>3. ASSUME NEW d, Holds(e, d), conn' = [conn EXCEPT ![e] = d],
             UNCHANGED <<net, picks, sent, got, hand>>
      PROVE DataInv'
  <2> DEFINE r == Result(d, {})
  <2>1. conn' = [conn EXCEPT ![e] = r.c] /\ NewFrom(e, r.out) /\ Gives(e, r)
    BY <1>3, StillData DEF Result, NewFrom, Holds, Gives
  <2> HIDE DEF r
  <2> QED
    BY <1>3, <2>1, DataStill DEF Gives
<1>4. CASE CheckNothing(e)
  <2>1. conn' = [conn EXCEPT ![e] = conn[e]]
    BY <1>4 DEF CheckNothing, TypeOK
  <2> QED
    BY <1>1, <1>3, <1>4, <2>1 DEF CheckNothing, RouterUnchanged, histVars
<1>5. CASE LostConnection(e)
  <2>1. PICK ok \in BOOLEAN : Checked(e, ConnClose(conn[e], ClosedByAll, ok), ok)
    BY <1>5 DEF LostConnection
  <2>2. Gives(e, ConnClose(conn[e], ClosedByAll, ok))
    BY <1>1, ConnCloseData DEF Holds, Gives
  <2> QED
    BY <1>2, <2>1, <2>2
<1>6. CASE CloseWaitTimeout(e)
  <2>1. PICK ok \in BOOLEAN : Checked(e, ConnClose(conn[e], {ByProtocol, ByTimeout}, ok), ok)
    BY <1>6 DEF CloseWaitTimeout
  <2>2. Gives(e, ConnClose(conn[e], {ByProtocol, ByTimeout}, ok))
    BY <1>1, ClosersType, ConnCloseData DEF Holds, Gives
  <2> QED
    BY <1>2, <2>1, <2>2
<1>7. CASE CheckMessages(e)
  <2>1. PICK ok \in BOOLEAN, due \in BOOLEAN, expired \in SUBSET Unacked(conn[e]) :
          Checked(e, Retransmitted(conn[e], expired, due, ok), ok)
    BY <1>7 DEF CheckMessages
  <2>2. Gives(e, Retransmitted(conn[e], expired, due, ok))
    BY <1>1, RetransmittedData DEF Holds, Gives
  <2> QED
    BY <1>2, <2>1, <2>2
<1>8. CASE FlushNext(e)
  <2>1. PICK t \in NextStored(conn[e]) : conn' = [conn EXCEPT ![e] = FlushOne(conn[e], t)]
    BY <1>8 DEF FlushNext
  <2>2. Holds(e, FlushOne(conn[e], t))
    BY <1>1, FlushOneData DEF Holds
  <2>3. UNCHANGED <<net, picks, sent, got, hand>>
    BY <1>8 DEF FlushNext, envVars, histVars
  <2> QED
    BY <1>3, <2>1, <2>2, <2>3
<1> QED
  BY <1>4, <1>5, <1>6, <1>7, <1>8 DEF CheckTimeouts

----------------------------------------------------------------------------
\* The actions of the user task and of the environment keep DataInv.

\* csp_rdp_close does not free the slot.
LEMMA RdpCloseOpen ==
  ASSUME NEW c, ConnOK(c), NEW by \in SUBSET ClosedByAll, NEW rst, NEW ok
  PROVE RdpClose(c, by, rst, ok).c.open = c.open
<1> DEFINE entering == c.state # "CLOSE_WAIT"
           c1 == [c EXCEPT !.closedBy = ClosedBy(@, by), !.state = "CLOSE_WAIT",
                           !.sem = @ \/ entering]
           r == IF entering /\ rst
                THEN SendCmp(c1, Cmp({"ACK", "RST"}, c.nxt, c.cur), ok)
                ELSE Result(c1, {})
           z == [r.c EXCEPT !.state = "CLOSED", !.closedBy = {}]
<1>1. ConnOK(c1) /\ c1.open = c.open
  BY DEF ClosedBy, ConnOK, Conn, RdpStates
<1>2. Cmp({"ACK", "RST"}, c.nxt, c.cur) \in Segment
  BY CmpType DEF ConnOK, Conn
<1>3. ConnOK(r.c) /\ r.c.open = c.open
  <2> HIDE DEF c1
  <2>1. Slot(r.c) = Slot(c1) /\ ResultOK(r)
    BY <1>1, <1>2, SendCmpSlot, SendCmpType, ResultType DEF Result
  <2> QED
    BY <1>1, <2>1 DEF Slot, ResultOK
<1> HIDE DEF r
<1>4. z.open = c.open
  BY <1>3 DEF ConnOK, Conn
<1>5. RdpClose(c, by, rst, ok).c =
        IF c.state = "CLOSED" THEN c ELSE IF ~Agreed(r.c.closedBy) THEN r.c ELSE z
  BY DEF RdpClose, Result, r
<1> QED
  BY <1>3, <1>4, <1>5

\* csp_connect gives up: csp_rdp_close_internal without RST, then csp_close.
LEMMA GivenUpData ==
  ASSUME NEW e \in Endpoint, NEW c, ConnOK(c), c.open, NEW n, NEW s, NEW g,
         DataOK(e, c, n, s, g), NEW ok
  PROVE ResultData(e, ConnClose(RdpClose(c, {ByProtocol}, FALSE, ok).c, {ByUser}, ok), n, s, g)
<1> DEFINE m == RdpClose(c, {ByProtocol}, FALSE, ok).c
<1>1. ConnOK(m)
  BY ClosersType, RdpCloseType DEF ResultOK
<1>2. m.open
  BY ClosersType, RdpCloseOpen
<1>3. ClosingData(e, m, n, s, g)
  BY ClosersType, RdpCloseData DEF ClosingData, DataOK
<1> HIDE DEF m
<1>4. ResultData(e, ConnClose(m, {ByUser}, ok), n, s, g)
  BY <1>1, <1>2, <1>3, ClosersType, ConnCloseData
<1> QED
  BY <1>4 DEF m

\* From a connection that holds no data of an earlier one, csp_rdp_connect sends
\* a SYN with a new initial sequence number.
LEMMA SendSynRequestData ==
  ASSUME TypeOK, DataInv, NEW c0, ConnOK(c0), c0.open, c0.rxq = {}, OnlyNull(c0.rx),
         \A x \in c0.txq : SegOK(Client, x.seg),
         NEW again, SendSynRequest(Client, c0, again), hand' = hand,
         sent' = [sent EXCEPT ![Client] = 0], got' = [got EXCEPT ![Client] = <<>>]
  PROVE DataInv'
<1> DEFINE iss == Pick(Client)
           c1 == [c0 EXCEPT !.iss = iss, !.nxt = Plus(iss, 1), !.una = iss,
                            !.sem = FALSE, !.state = "SYN_SENT"]
           syn == Cmp({"SYN"}, iss, 0)
           r(ok) == SendSyn(c1, syn, FALSE, ok)
           failed(ok) == ConnClose(RdpClose(r(ok).c, {ByProtocol}, FALSE, ok).c, {ByUser}, ok)
           done(ok) == Result(IF ok THEN r(ok).c ELSE failed(ok).c, r(ok).out)
           n == picks[Client] + 1
<1>1. PICK ok \in BOOLEAN :
        /\ CanPick(Client) /\ picks' = [picks EXCEPT ![Client] = @ + 1]
        /\ conn' = [conn EXCEPT ![Client] = IF ok THEN r(ok).c ELSE failed(ok).c]
        /\ Transmit(Client, {}, r(ok).out)
  BY DEF SendSynRequest
<1>2. Client \in Endpoint
  BY DEF Endpoint
<1>3. iss \in SeqNr
  BY <1>1, <1>2, PickType
<1>4. Plus(iss, 1) \in SeqNr
  BY <1>3, PlusType DEF SeqNr
<1>5. n \in 1..Len(IssOf[Client]) /\ iss = IssOf[Client][n]
  <2>1. picks[Client] \in Nat /\ Len(IssOf[Client]) \in Nat
    BY <1>2, IssType DEF TypeOK
  <2>2. CanPick(Client)
    BY <1>1
  <2>3. picks[Client] < Len(IssOf[Client])
    BY <2>2 DEF CanPick
  <2>4. n \in 1..Len(IssOf[Client])
    BY <2>1, <2>3
  <2>5. iss = IssOf[Client][n]
    BY DEF Pick
  <2> QED
    BY <2>4, <2>5
<1>6. syn \in Segment /\ SegOK(Client, syn)
  <2>1. 0 \in SeqNr
    BY SeqModAssumption DEF SeqNr
  <2> QED
    BY <1>3, <1>5, <2>1, CmpType, SynData
<1> HIDE DEF iss
<1>7. /\ ConnOK(c1) /\ c1.open /\ c1.state = "SYN_SENT" /\ c1.iss = iss
      /\ c1.nxt = Plus(iss, 1) /\ c1.txq = c0.txq /\ c1.rxq = {} /\ c1.rx = c0.rx
  BY <1>3, <1>4 DEF ConnOK, Conn, RdpStates
<1> HIDE DEF c1, syn
<1>8. ConnOK(r(ok).c) /\ r(ok).c.open
  <2>1. ResultOK(SendSyn(c1, syn, FALSE, ok)) /\ Slot(SendSyn(c1, syn, FALSE, ok).c) = Slot(c1)
    BY <1>6, <1>7, SendSynType, SendSynSlot, ZenonT(60)
  <2> QED
    BY <1>7, <2>1 DEF ResultOK, Slot
<1>9. DataOK(Client, c1, n, 0, <<>>)
  <2> HIDE DEF n
  <2>1. Sending(Client, c1, n, 0)
    BY <1>5, <1>7 DEF Sending
  <2>2. Ended(Client, c1, <<>>)
    <3>1. Ordered(<<>>, c1.rx, 0, 0)
      BY <1>7, OrderedStart
    <3> QED
      BY <1>7, <3>1 DEF Ended
  <2> QED
    BY <1>7, <2>1, <2>2 DEF DataOK, Taking
<1>10. ResultData(Client, r(ok), n, 0, <<>>)
  BY <1>6, <1>7, <1>9, SendSynData
<1> HIDE DEF r
<1>11. ResultData(Client, failed(ok), n, 0, <<>>)
  BY <1>2, <1>8, <1>10, GivenUpData DEF ResultData
<1> HIDE DEF failed
<1>12. ResultData(Client, done(ok), n, 0, <<>>)
  BY <1>10, <1>11 DEF ResultData, Result
<1>13. conn' = [conn EXCEPT ![Client] = done(ok).c] /\ NewFrom(Client, done(ok).out)
  BY <1>1, TransmitData DEF Result
<1>14. picks' = [picks EXCEPT ![Client] = n] /\ \A f \in Endpoint : SegOK(f, hand'[f])
  BY <1>1 DEF DataInv
<1> HIDE DEF done, n
<1> QED
  BY <1>2, <1>12, <1>13, <1>14, DataStep

\* A connection of which only the semaphore is taken or given.
LEMMA SemData ==
  ASSUME TypeOK, DataInv, NEW e \in Endpoint, NEW b \in BOOLEAN,
         conn' = [conn EXCEPT ![e] = [conn[e] EXCEPT !.sem = b]],
         UNCHANGED <<net, hand, picks, sent, got>>
  PROVE DataInv'
<1> DEFINE d == [conn[e] EXCEPT !.sem = b]
           r == Result(d, {})
<1>1. conn[e] \in Conn /\ Holds(e, conn[e])
  BY DEF TypeOK, DataInv, Holds
<1>2. Data(d) = Data(conn[e])
  BY <1>1 DEF Data, Conn
<1>3. conn' = [conn EXCEPT ![e] = r.c] /\ NewFrom(e, r.out)
  BY DEF Result, NewFrom
<1> HIDE DEF d
<1>4. Gives(e, r)
  BY <1>1, <1>2, DataOfData, StillData DEF Holds, Gives
<1> HIDE DEF r
<1> QED
  BY <1>3, <1>4, DataStill DEF Gives

\* DataInv depends on these variables only.
LEMMA DataUnchanged ==
  ASSUME DataInv, UNCHANGED <<conn, hand, picks, sent, got>>, net' \subseteq net
  PROVE DataInv'
  BY DEF DataInv

\* All of csp_connect.
LEMMA ConnectingData == ASSUME TypeOK, SlotInv, DataInv, Connecting PROVE DataInv'
<1>1. /\ Client \in Endpoint /\ ConnOK(conn[Client]) /\ Holds(Client, conn[Client])
  BY TypeParts DEF LinkType, Endpoint, DataInv, Holds
<1>2. CASE Connect
  <2> DEFINE c == NewConn(conn[Client], FALSE)
  <2>1. conn[Client].state = "CLOSED"
    BY <1>1, <1>2 DEF Connect, SlotInv, SlotOK
  <2>2. ConnOK(c) /\ c.open
    BY <1>1, NewConnType DEF NewConn, ConnOK, Conn
  <2> DEFINE n == picks[Client]
             s == sent[Client]
             g == got[Client]
             old == conn[Client]
  <2>6. DataOK(Client, old, n, s, g)
    BY <1>1 DEF Holds
  <2>7. ConnOK(old) /\ old.state = "CLOSED"
    BY <1>1, <2>1
  <2> HIDE DEF n, s, g, old
  <2>8. LET d == NewConn(old, FALSE)
        IN DataOK(Client, d, n, s, g) /\ d.state = "CLOSED" /\ d.rxq = {} /\ d.rx = <<>>
    BY <1>1, <2>6, <2>7, NewConnData, ZenonT(60)
  <2>9. DataOK(Client, c, n, s, g) /\ c.rxq = {} /\ c.rx = <<>>
    BY <2>8 DEF old
  <2> HIDE DEF c
  <2>3. c.rxq = {} /\ c.rx = <<>> /\ \A x \in c.txq : SegOK(Client, x.seg)
    BY <2>9 DEF DataOK, Sending
  <2>10. Len(c.rx) = 0
    BY <2>3
  <2>4. OnlyNull(c.rx)
    BY <2>10 DEF OnlyNull
  <2> USE DEF c
  <2>5. /\ SendSynRequest(Client, c, TRUE) /\ hand' = hand
        /\ sent' = [sent EXCEPT ![Client] = 0] /\ got' = [got EXCEPT ![Client] = <<>>]
    BY <1>2 DEF Connect
  <2> HIDE DEF c
  <2> QED
    BY <2>2, <2>3, <2>4, <2>5, SendSynRequestData
<1>3. CASE ConnectOpened
  BY <1>1, <1>3, SemData DEF ConnectOpened, envVars, histVars
<1>4. CASE ConnectRetry
  <2> DEFINE c == [conn[Client] EXCEPT !.txq = {}, !.rxq = {}]
  <2>1. conn[Client].state = "SYN_SENT" /\ conn[Client].open
    BY <1>1, <1>4 DEF ConnectRetry, SlotInv, SlotOK
  <2>2. ConnOK(c) /\ c.open /\ c.rxq = {} /\ c.txq = {} /\ c.rx = conn[Client].rx
    BY <1>1, <2>1, FS_EmptySet DEF ConnOK, Conn
  <2>3. OnlyNull(conn[Client].rx) /\ sent[Client] = 0 /\ got[Client] = <<>>
    BY <1>1, <2>1 DEF Holds, DataOK, Sending, Taking, Ended
  <2>4. /\ SendSynRequest(Client, c, FALSE) /\ hand' = hand
        /\ sent' = [sent EXCEPT ![Client] = 0] /\ got' = [got EXCEPT ![Client] = <<>>]
    BY <1>1, <1>4, <2>3 DEF ConnectRetry, histVars, TypeOK
  <2> HIDE DEF c
  <2> QED
    BY <2>2, <2>3, <2>4, SendSynRequestData
<1>5. CASE ConnectRefused \/ ConnectTimeout
  <2>1. user[Client] = "connecting" /\ ConnectFails
    BY <1>5 DEF ConnectRefused, ConnectTimeout
  <2> DEFINE r(ok) == ConnClose(RdpClose(conn[Client], {ByProtocol}, FALSE, ok).c, {ByUser}, ok)
  <2>2. PICK ok \in BOOLEAN :
          conn' = [conn EXCEPT ![Client] = r(ok).c] /\ Transmit(Client, {}, r(ok).out)
    BY <2>1 DEF ConnectFails
  <2>3. conn[Client].open
    BY <1>1, <2>1, HolderSlot DEF Holding
  <2>4. Gives(Client, r(ok))
    BY <1>1, <2>3, GivenUpData DEF Holds, Gives
  <2>5. UNCHANGED <<picks, sent, got, hand>>
    BY <2>1 DEF ConnectFails, histVars
  <2> HIDE DEF r
  <2> QED
    BY <1>1, <2>2, <2>4, <2>5, TransmitData, DataStill DEF Gives
<1> QED
  BY <1>2, <1>3, <1>4, <1>5 DEF Connecting

\* csp_rdp_send numbers the message, queues a copy and leaves it in hand.
LEMMA RdpSendData ==
  ASSUME TypeOK, SlotInv, DataInv, NEW e \in Endpoint, RdpSend(e) PROVE DataInv'
<1> DEFINE c == conn[e]
           n == picks[e]
           s == sent[e]
           base == Cmp({"ACK"}, c.nxt, c.cur)
           seg == [base EXCEPT !.data = <<n, s + 1>>]
           d == [c EXCEPT !.txq = TxQueued(@, seg), !.nxt = Plus(@, 1),
                          !.sem = @ /\ user[e] = "ready"]
           r == Result(d, {})
<1>1. ConnOK(c) /\ c.nxt \in SeqNr /\ c.cur \in SeqNr /\ Holds(e, c)
  BY TypeParts DEF LinkType, ConnOK, Conn, DataInv, Holds
<1>2. c.state = "OPEN" /\ s \in Nat /\ s + 1 \in 1..MsgLimit[e]
  <2>1. s \in Nat /\ MsgLimit[e] \in Nat
    BY IssType DEF TypeOK
  <2> QED
    BY <2>1 DEF RdpSend
<1>3. n \in 1..Len(IssOf[e]) /\ c.iss = IssOf[e][n] /\ c.nxt = Plus(IssOf[e][n], s + 1)
  BY <1>1, <1>2 DEF Holds, DataOK, Sending
<1>4. base \in Segment /\ base.flags = {"ACK"} /\ base.seq = c.nxt
  BY <1>1, CmpType DEF Cmp
<1> HIDE DEF base
<1>5. <<n, s + 1>> \in Payload
  BY DEF TypeOK, Payload
<1>6. /\ seg \in Segment /\ seg.flags = {"ACK"} /\ seg.seq = c.nxt
      /\ seg.data = <<n, s + 1>>
  BY <1>4, <1>5 DEF Segment
<1> HIDE DEF seg
<1>7. SegOK(e, seg)
  BY <1>2, <1>3, <1>6 DEF SegOK, Numbered
<1>8. Plus(c.nxt, 1) = Plus(c.iss, (s + 1) + 1)
  <2> DEFINE a == IssOf[e][n]
             i == s + 1
  <2>1. a \in Int /\ i \in Int
    BY <1>2, <1>3, IssType
  <2>2. c.nxt = Plus(a, i) /\ c.iss = a
    BY <1>3
  <2> HIDE DEF a, i
  <2>3. Plus(Plus(a, i), 1) = Plus(a, i + 1)
    BY <2>1, PlusPlus
  <2>4. Plus(c.nxt, 1) = Plus(c.iss, i + 1)
    BY <2>2, <2>3
  <2> QED
    BY <2>4 DEF i
<1>9. /\ d.txq = TxQueued(c.txq, seg) /\ d.nxt = Plus(c.nxt, 1) /\ d.iss = c.iss
      /\ d.state = c.state /\ d.cur = c.cur /\ d.rxq = c.rxq /\ d.rx = c.rx
  BY <1>1 DEF ConnOK, Conn
<1>10. \A x \in d.txq : SegOK(e, x.seg)
  BY <1>1, <1>6, <1>7, <1>9, TxQueuedData DEF Holds, DataOK, Sending
<1>11. conn' = [conn EXCEPT ![e] = d]
  BY DEF RdpSend, seg, base
<1> HIDE DEF d
<1>12. Sending(e, d, n, s + 1)
  BY <1>2, <1>3, <1>8, <1>9, <1>10 DEF Sending
<1>13. Taking(e, d, got[e])
  BY <1>1, <1>2, <1>9 DEF Holds, DataOK, Taking, Running, Ended
<1>14. ResultData(e, r, n, s + 1, got[e])
  BY <1>2, <1>9, <1>12, <1>13, StillData DEF DataOK
<1>15. conn' = [conn EXCEPT ![e] = r.c] /\ NewFrom(e, r.out)
  BY <1>11 DEF Result, NewFrom, RdpSend
<1>16. /\ picks' = [picks EXCEPT ![e] = n] /\ sent' = [sent EXCEPT ![e] = s + 1]
       /\ got' = [got EXCEPT ![e] = got[e]]
  BY DEF RdpSend, envVars, TypeOK
<1>17. \A f \in Endpoint : SegOK(f, hand'[f])
  <2>1. hand' = [hand EXCEPT ![e] = seg]
    BY DEF RdpSend, seg, base
  <2> QED
    BY <1>7, <2>1 DEF DataInv, TypeOK
<1> HIDE DEF r, n, s
<1> QED
  BY <1>14, <1>15, <1>16, <1>17, DataStep

\* csp_read gives the user the head of its queue.
LEMMA ReadData ==
  ASSUME TypeOK, SlotInv, DataInv, NEW e \in Endpoint, Read(e) PROVE DataInv'
<1> DEFINE c == [conn[e] EXCEPT !.rx = Tail(@)]
           r(ok, due) == IF DelayedAcks THEN CheckAck(c, due, ok) ELSE Result(c, {})
           x == Head(conn[e].rx)
           g == IF x = Null THEN got[e] ELSE Append(got[e], x)
<1>1. PICK ok \in BOOLEAN, due \in BOOLEAN :
        conn' = [conn EXCEPT ![e] = r(ok, due).c] /\ Transmit(e, {}, r(ok, due).out)
  BY DEF Read
<1>2. /\ ConnOK(conn[e]) /\ conn[e].rx \in Seq(Payload) /\ conn[e].rx # <<>>
      /\ got[e] \in Seq(Payload) /\ Holds(e, conn[e])
  BY TypeParts DEF LinkType, QuietType, ConnOK, Conn, Read, DataInv, Holds
<1>3. ConnOK(c)
  <2>1. Tail(conn[e].rx) \in Seq(Payload)
    BY <1>2
  <2> QED
    BY <1>2, <2>1 DEF ConnOK, Conn
<1>4. /\ c.rx = Tail(conn[e].rx) /\ c.state = conn[e].state /\ c.iss = conn[e].iss
      /\ c.nxt = conn[e].nxt /\ c.cur = conn[e].cur /\ c.txq = conn[e].txq
      /\ c.rxq = conn[e].rxq
  BY <1>2 DEF ConnOK, Conn
<1> HIDE DEF c, x
<1>5. \A l, k \in Nat : Ordered(got[e], conn[e].rx, l, k) => Ordered(g, c.rx, l, k)
  BY <1>2, <1>4, OrderedRead DEF x
<1>6. OnlyNull(conn[e].rx) => OnlyNull(c.rx) /\ g = got[e]
  <2>1. \E l, k \in Nat : Ordered(got[e], conn[e].rx, l, k)
    BY <1>2, IssType DEF Holds, DataOK, Taking, Running, Ended
  <2> QED
    BY <1>2, <1>4, <2>1, OrderedRead DEF x
<1>7. g = got[e] \/ g = Append(got[e], x)
  OBVIOUS
<1>8. got' = [got EXCEPT ![e] = g]
  BY DEF Read, x, TypeOK
<1> HIDE DEF g
<1>9. Running(e, conn[e], got[e]) => Running(e, c, g)
  BY <1>4, <1>5, IssType DEF Running
<1>10. Ended(e, conn[e], got[e]) => Ended(e, c, g) /\ g = got[e]
  BY <1>4, <1>5, <1>6 DEF Ended
<1>11. DataOK(e, c, picks[e], sent[e], g)
  BY <1>2, <1>4, <1>9, <1>10 DEF Holds, DataOK, Sending, Taking
<1>12. ResultData(e, r(ok, due), picks[e], sent[e], g)
  BY <1>3, <1>11, CheckAckData, StillData
<1> HIDE DEF r
<1>13. NewFrom(e, r(ok, due).out)
  BY <1>1, TransmitData
<1> DEFINE n == picks[e]
           s == sent[e]
<1>14. ResultData(e, r(ok, due), n, s, g)
  BY <1>12
<1>15. picks' = [picks EXCEPT ![e] = n] /\ sent' = [sent EXCEPT ![e] = s] /\ hand' = hand
  BY DEF Read, TypeOK
<1>16. \A f \in Endpoint : SegOK(f, hand'[f])
  BY <1>15 DEF DataInv
<1> HIDE DEF n, s
<1> QED
  BY <1>1, <1>8, <1>13, <1>14, <1>15, <1>16, DataStep

\* All other calls of the user task.
LEMMA UserTaskData ==
  ASSUME TypeOK, SlotInv, DataInv, NEW e \in Endpoint, UserTask(e) PROVE DataInv'
<1>1. conn[e] \in Conn /\ ConnOK(conn[e]) /\ Holds(e, conn[e])
  BY TypeParts DEF LinkType, TypeOK, DataInv, Holds
<1>2. CASE SendBlocks(e) \/ SendTimeout(e)
  BY <1>2, DataUnchanged DEF SendBlocks, SendTimeout, envVars, histVars
<1>3. CASE SendWakes(e)
  BY <1>3, SemData DEF SendWakes, envVars, histVars
<1>4. CASE SendNoBufs(e)
  <2>1. (conn[e].sem /\ user[e] = "ready") \in BOOLEAN
    OBVIOUS
  <2>2. conn' = [conn EXCEPT ![e] = [conn[e] EXCEPT !.sem = conn[e].sem /\ user[e] = "ready"]]
    BY <1>4 DEF SendNoBufs
  <2>3. UNCHANGED <<net, hand, picks, sent, got>>
    BY <1>4 DEF SendNoBufs, envVars, histVars
  <2> QED
    BY <2>1, <2>2, <2>3, SemData
<1>5. CASE SendOut(e)
  <2>1. PICK ok \in BOOLEAN : Transmit(e, {}, IF ok THEN {hand[e]} ELSE {})
    BY <1>5 DEF SendOut
  <2> DEFINE r == Result(conn[e], IF ok THEN {hand[e]} ELSE {})
             n == picks[e]
             s == sent[e]
             g == got[e]
  <2>2. ResultData(e, r, n, s, g)
    BY <1>1 DEF ResultData, Result, AllSent, Holds, DataInv
  <2>3. conn' = [conn EXCEPT ![e] = r.c] /\ NewFrom(e, r.out)
    BY <1>5, <2>1, TransmitData DEF SendOut, Result, TypeOK
  <2>4. /\ picks' = [picks EXCEPT ![e] = n] /\ sent' = [sent EXCEPT ![e] = s]
        /\ got' = [got EXCEPT ![e] = g]
    BY <1>5 DEF SendOut, TypeOK
  <2>5. \A f \in Endpoint : SegOK(f, hand'[f])
    <3>1. SegOK(e, NoSegment)
      BY ControlData DEF NoSegment
    <3>2. hand' = [hand EXCEPT ![e] = NoSegment]
      BY <1>5 DEF SendOut
    <3> HIDE DEF r, n, s, g
    <3> QED
      BY <3>1, <3>2 DEF DataInv, TypeOK
  <2> HIDE DEF r, n, s, g
  <2> QED
    BY <2>2, <2>3, <2>4, <2>5, DataStep
<1>6. CASE Close(e)
  <2>1. PICK ok \in BOOLEAN : /\ conn' = [conn EXCEPT ![e] = ConnClose(conn[e], {ByUser}, ok).c]
                              /\ Transmit(e, {}, ConnClose(conn[e], {ByUser}, ok).out)
    BY <1>6 DEF Close
  <2>2. Gives(e, ConnClose(conn[e], {ByUser}, ok))
    BY <1>1, ClosersType, ConnCloseData DEF Holds, Gives, ClosingData, DataOK
  <2>3. UNCHANGED <<picks, sent, got, hand>>
    BY <1>6 DEF Close, histVars
  <2> QED
    BY <2>1, <2>2, <2>3, TransmitData, DataStill DEF Gives
<1> QED
  BY <1>2, <1>3, <1>4, <1>5, <1>6, RdpSendData, ReadData DEF UserTask

\* A reboot of the client forgets the connection, not what its user has read.
LEMMA RebootData == ASSUME TypeOK, DataInv, Reboot PROVE DataInv'
<1> DEFINE n == picks[Client]
           s == sent[Client]
           g == got[Client]
           r == Result(InitConn, {})
<1>1. Client \in Endpoint
  BY DEF Endpoint
<1>2. DataOK(Client, InitConn, n, s, g)
  <2>1. \E l, k \in Nat : Ordered(g, conn[Client].rx, l, k)
    BY <1>1, IssType DEF DataInv, DataOK, Taking, Running, Ended
  <2>2. \E l, k \in Nat : Ordered(g, <<>>, l, k)
    BY <2>1, OrderedClear
  <2> HIDE DEF n, s, g
  <2> QED
    BY <2>2, OrderedClear DEF InitConn, DataOK, Sending, Taking, Ended
<1>3. ResultData(Client, r, n, s, g)
  BY <1>2, StillData
<1>4. conn' = [conn EXCEPT ![Client] = r.c] /\ NewFrom(Client, r.out)
  BY DEF Reboot, Result, NewFrom
<1>5. /\ picks' = [picks EXCEPT ![Client] = n] /\ sent' = [sent EXCEPT ![Client] = s]
      /\ got' = [got EXCEPT ![Client] = g]
  BY DEF Reboot, histVars, TypeOK
<1>6. \A f \in Endpoint : SegOK(f, hand'[f])
  <2>1. SegOK(Client, NoSegment)
    BY ControlData DEF NoSegment
  <2>2. hand' = [hand EXCEPT ![Client] = NoSegment]
    BY DEF Reboot
  <2> QED
    BY <2>1, <2>2 DEF DataInv, TypeOK
<1> HIDE DEF r, n, s, g
<1> QED
  BY <1>1, <1>3, <1>4, <1>5, <1>6, DataStep

----------------------------------------------------------------------------
\* What reaches the users is in order.

\* Nothing is sent or stored in the beginning.
LEMMA DataInit == Init => DataInv
<1> SUFFICES ASSUME Init PROVE DataInv
  OBVIOUS
<1>1. \A e \in Endpoint : /\ conn[e] = InitConn /\ hand[e] = NoSegment
                          /\ got[e] = <<>>
  BY DEF Init
<1>2. ASSUME NEW e \in Endpoint PROVE DataOK(e, InitConn, picks[e], sent[e], <<>>)
  <2>1. OnlyNull(<<>>) /\ Ordered(<<>>, <<>>, 0, 0)
    BY DEF OnlyNull, Ordered
  <2> QED
    BY <2>1 DEF InitConn, DataOK, Sending, Taking, Ended
<1>3. \A e \in Endpoint : SegOK(e, NoSegment)
  BY ControlData DEF NoSegment
<1>4. net = {}
  BY DEF Init
<1> QED
  BY <1>1, <1>2, <1>3, <1>4 DEF DataInv

\* Every step keeps DataInv.
LEMMA DataNext == NumbersApart /\ TypeOK /\ SlotInv /\ DataInv /\ [Next]_vars => DataInv'
<1> SUFFICES ASSUME NumbersApart, TypeOK, SlotInv, DataInv, [Next]_vars PROVE DataInv'
  OBVIOUS
<1>1. CASE \E m \in net : Lose(m)
  BY <1>1, DataUnchanged DEF Lose, envVars, histVars
<1>2. CASE UNCHANGED vars
  BY <1>2, DataUnchanged DEF vars, envVars, histVars
<1>3. CASE Arrival
  BY <1>3, ArrivalData
<1>4. CASE Connecting
  BY <1>4, ConnectingData
<1>5. CASE Accept
  BY <1>5, DataUnchanged DEF Accept, envVars
<1>6. CASE Reboot
  BY <1>6, RebootData
<1>7. CASE \E e \in Endpoint : UserTask(e) \/ CheckTimeouts(e) \/ FlushNext(e)
  BY <1>7, UserTaskData, CheckTimeoutsData
<1> QED
  BY <1>1, <1>2, <1>3, <1>4, <1>5, <1>6, <1>7 DEF Next

\* Whatever the link loses, repeats or delays, whoever closes, times out or
\* reboots, the messages that reach a user on one connection are of one
\* connection of the peer, in the order of csp_send, and none comes twice.
THEOREM InOrderOnceCorrect == NumbersApart => (Spec => []InOrderOnce)
<1> SUFFICES ASSUME NumbersApart PROVE Spec => []InOrderOnce
  OBVIOUS
<1>1. Init => DataInv
  BY DataInit
<1>2. TypeOK /\ SlotInv /\ DataInv /\ [Next]_vars => DataInv'
  BY DataNext
<1>3. TypeOK /\ DataInv => InOrderOnce
  <2> SUFFICES ASSUME TypeOK, DataInv, NEW e \in Endpoint,
                      NEW i \in 1..Len(got[e] \o conn[e].rx),
                      NEW j \in 1..Len(got[e] \o conn[e].rx)
               PROVE LET d == got[e] \o conn[e].rx
                     IN i < j /\ d[i] # Null /\ d[j] # Null
                          => d[i][1] = d[j][1] /\ d[i][2] < d[j][2]
    BY DEF InOrderOnce
  <2>1. got[e] \in Seq(Payload) /\ conn[e].rx \in Seq(Payload)
    BY DEF TypeOK, Conn
  <2>2. \E l, k : Ordered(got[e], conn[e].rx, l, k)
    BY DEF DataInv, DataOK, Taking, Running, Ended
  <2> QED
    BY <2>1, <2>2, OrderedRises
<1> QED
  BY <1>1, <1>2, <1>3, TypeCorrect, SlotCorrect, PTL DEF Spec

----------------------------------------------------------------------------
\* The user is told that its peer has closed.

HasNull(c) == \E i \in 1..Len(c.rx) : c.rx[i] = Null

\* The connection is closed by others than its user.
Waits(c) == c.open /\ c.state = "CLOSE_WAIT" /\ ByUser \notin c.closedBy

ToldOK(c, x) == Waits(c) => x \/ HasNull(c)

\* The inductive invariant: PeerCloseIsTold for every way into CLOSE_WAIT.
ToldInv == \A e \in Endpoint : ToldOK(conn[e], eof[e])

\* The queue of the user is not full when its connection enters CLOSE_WAIT.
\* Without this the NULL packet is dropped, and csp_read learns nothing.
RoomStep ==
  \A e \in Endpoint :
    conn[e].open /\ conn[e].state # "CLOSE_WAIT" /\ conn'[e].state = "CLOSE_WAIT"
      => HasRoom(conn[e])
RoomWhenClosed == [][RoomStep]_vars

\* d is what an operator that does not close has made of connection c.
Keeps(c, d) == Waits(d) => Waits(c) /\ (HasNull(c) => HasNull(d))

\* d is what closing for others than the user has made of c.
Tells(c, d) ==
  Waits(d) => /\ c.open /\ ~c.socket /\ ByUser \notin c.closedBy
              /\ HasRoom(c) \/ HasNull(c) => HasNull(d)

\* A connection of which only other fields are changed.
LEMMA SameTold ==
  ASSUME NEW c, NEW d, Slot(d) = Slot(c), d.rx = c.rx PROVE Keeps(c, d)
  BY DEF Slot, Keeps, Waits, HasNull

\* A packet more for the user: what is in the queue stays.
LEMMA EnqueueTold ==
  ASSUME NEW c, ConnOK(c), NEW x \in Payload
  PROVE /\ HasNull(c) => HasNull(Enqueue(c, x))
        /\ HasRoom(c) /\ x = Null => HasNull(Enqueue(c, x))
<1> DEFINE d == [c EXCEPT !.rx = Append(@, x)]
           q == c.rx
<1>1. q \in Seq(Payload)
  BY DEF ConnOK, Conn
<1>2. d.rx = Append(q, x)
  BY DEF ConnOK, Conn
<1>3. Enqueue(c, x) = IF HasRoom(c) THEN d ELSE c
  BY DEF Enqueue
<1> HIDE DEF d
<1>4. HasNull(c) <=> \E i \in 1..Len(q) : q[i] = Null
  BY DEF HasNull
<1> HIDE DEF q
<1>5. /\ Len(d.rx) = Len(q) + 1 /\ Len(q) \in Nat
      /\ \A i \in 1..Len(q) : d.rx[i] = q[i]
      /\ d.rx[Len(q) + 1] = x
  BY <1>1, <1>2, AppendProperties
<1>6. HasNull(c) => HasNull(d)
  BY <1>4, <1>5 DEF HasNull
<1>7. x = Null => HasNull(d)
  BY <1>5 DEF HasNull
<1> QED
  BY <1>3, <1>6, <1>7

\* csp_rdp_close leaves the user's queue alone and adds to closed_by.
LEMMA RdpCloseTold ==
  ASSUME NEW c, ConnOK(c), NEW by \in SUBSET ClosedByAll, NEW rst, NEW ok
  PROVE LET d == RdpClose(c, by, rst, ok).c
        IN d.rx = c.rx /\ (d.state = "CLOSE_WAIT" => d.closedBy = c.closedBy \cup by)
<1> DEFINE entering == c.state # "CLOSE_WAIT"
           c1 == [c EXCEPT !.closedBy = ClosedBy(@, by), !.state = "CLOSE_WAIT",
                           !.sem = @ \/ entering]
           r == IF entering /\ rst
                THEN SendCmp(c1, Cmp({"ACK", "RST"}, c.nxt, c.cur), ok)
                ELSE Result(c1, {})
           z == [r.c EXCEPT !.state = "CLOSED", !.closedBy = {}]
<1>1. ConnOK(c1) /\ c1.rx = c.rx /\ c1.closedBy = c.closedBy \cup by
  BY DEF ClosedBy, ConnOK, Conn, RdpStates
<1>2. Cmp({"ACK", "RST"}, c.nxt, c.cur) \in Segment
  BY CmpType DEF ConnOK, Conn
<1>3. ConnOK(r.c) /\ r.c.rx = c.rx /\ r.c.closedBy = c.closedBy \cup by
  <2> HIDE DEF c1
  <2>1. Slot(r.c) = Slot(c1) /\ ResultOK(r) /\ r.c.rx = c1.rx
    BY <1>1, <1>2, SendCmpSlot, SendCmpType, SendCmpRx, ResultType DEF Result
  <2> QED
    BY <1>1, <2>1 DEF Slot, ResultOK
<1> HIDE DEF r
<1>4. z.rx = c.rx /\ z.state = "CLOSED"
  BY <1>3 DEF ConnOK, Conn
<1>5. RdpClose(c, by, rst, ok).c =
        IF c.state = "CLOSED" THEN c ELSE IF ~Agreed(r.c.closedBy) THEN r.c ELSE z
  BY DEF RdpClose, Result, r
<1> QED
  BY <1>3, <1>4, <1>5

\* csp_conn_close either frees the slot or does the same.
LEMMA ConnCloseTold ==
  ASSUME NEW c, ConnOK(c), NEW by \in SUBSET ClosedByAll, NEW ok
  PROVE LET d == ConnClose(c, by, ok).c
        IN Waits(d) => c.open /\ d.rx = c.rx /\ d.closedBy = c.closedBy \cup by
<1> DEFINE m == RdpClose(c, by, TRUE, ok).c
<1>1. ConnOK(m)
  BY RdpCloseType DEF ResultOK
<1>2. m.rx = c.rx /\ (m.state = "CLOSE_WAIT" => m.closedBy = c.closedBy \cup by)
  <2>1. \A rst : LET d == RdpClose(c, by, rst, ok).c
                 IN d.rx = c.rx /\ (d.state = "CLOSE_WAIT" => d.closedBy = c.closedBy \cup by)
    BY RdpCloseTold
  <2> QED
    BY <2>1
<1>3. ConnClose(c, by, ok).c =
        IF ~c.open THEN c ELSE IF m.state # "CLOSED" THEN m ELSE Released(m)
  BY DEF ConnClose, Result
<1> HIDE DEF m
<1>4. ~Released(m).open
  BY <1>1 DEF Released, ConnOK, Conn
<1> QED
  BY <1>2, <1>3, <1>4 DEF Waits

\* csp_conn_close for the user, among others, leaves nothing to be told.
LEMMA UserCloseTold ==
  ASSUME NEW c, ConnOK(c), NEW by \in SUBSET ClosedByAll, ByUser \in by, NEW ok
  PROVE ~Waits(ConnClose(c, by, ok).c)
  BY ConnCloseTold DEF Waits

\* The label discard_close: the NULL packet follows, if the queue takes it.
LEMMA DiscardCloseTold ==
  ASSUME NEW c, ConnOK(c), NEW by \in SUBSET ClosedByAll, NEW ok
  PROVE Tells(c, DiscardClose(c, by, ok).c)
<1> DEFINE m == ConnClose(c, by, ok).c
           d == DiscardClose(c, by, ok).c
<1>1. ConnOK(m)
  BY ConnCloseType DEF ResultOK
<1>2. Waits(m) => c.open /\ m.rx = c.rx /\ m.closedBy = c.closedBy \cup by
  BY ConnCloseTold
<1>3. CASE c.socket
  <2>1. d = ConnClose(c, by \cup {ByUser}, ok).c
    BY <1>3 DEF DiscardClose
  <2>2. ~Waits(d)
    BY <2>1, ClosersType, UserCloseTold
  <2> HIDE DEF d
  <2>3. Tells(c, d)
    BY <2>2 DEF Tells
  <2> QED
    BY <2>3 DEF d
<1>4. CASE ~c.socket
  <2>1. d = Enqueue(m, Null)
    BY <1>4 DEF DiscardClose, Result
  <2> HIDE DEF m, d
  <2>2. Slot(d) = Slot(m)
    BY <1>1, <2>1, EnqueueSlot
  <2>3. Waits(d) => Waits(m)
    BY <2>2 DEF Slot, Waits
  <2>4. ASSUME Waits(m) PROVE HasRoom(c) \/ HasNull(c) => HasNull(d)
    <3>1. (HasRoom(m) <=> HasRoom(c)) /\ (HasNull(m) <=> HasNull(c))
      BY <1>2, <2>4 DEF HasRoom, HasNull
    <3> QED
      BY <1>1, <2>1, <3>1, NullType, EnqueueTold
  <2>5. Tells(c, d)
    BY <1>2, <1>4, <2>3, <2>4 DEF Tells, Waits
  <2> QED
    BY <2>5 DEF d
<1> QED
  BY <1>3, <1>4

----------------------------------------------------------------------------
\* Each action keeps ToldInv.

\* One endpoint gets a connection.
LEMMA ToldStep ==
  ASSUME TypeOK, ToldInv, NEW e \in Endpoint, NEW d, NEW x,
         conn' = [conn EXCEPT ![e] = d], eof' = [eof EXCEPT ![e] = x], ToldOK(d, x)
  PROVE ToldInv'
<1>1. conn'[e] = d /\ eof'[e] = x
  BY DEF TypeOK
<1>2. ASSUME NEW f \in Endpoint \ {e} PROVE conn'[f] = conn[f] /\ eof'[f] = eof[f]
  BY DEF TypeOK
<1> QED
  BY <1>1, <1>2 DEF ToldInv

\* It gets one in which the user is told what it was told before.
LEMMA ToldKept ==
  ASSUME TypeOK, ToldInv, NEW e \in Endpoint, NEW d,
         conn' = [conn EXCEPT ![e] = d], eof' = eof, ~Waits(d) \/ Keeps(conn[e], d)
  PROVE ToldInv'
<1>1. eof' = [eof EXCEPT ![e] = eof[e]]
  BY DEF TypeOK
<1>2. ToldOK(conn[e], eof[e])
  BY DEF ToldInv
<1>3. ToldOK(d, eof[e])
  BY <1>2 DEF ToldOK, Keeps
<1> QED
  BY <1>1, <1>3, ToldStep

\* A new connection is CLOSED, so nobody waits on it.
LEMMA ArrivesTold ==
  ASSUME TypeOK, SlotInv, NEW e \in Endpoint, NEW p, Arrives(e, p)
  PROVE \/ conn[e].open /\ Target(e) = conn[e]
        \/ Target(e).socket /\ ~Waits(Target(e))
<1>1. conn[e] \in Conn /\ (~conn[e].open => conn[e].state = "CLOSED")
  BY DEF TypeOK, SlotInv, SlotOK
<1>2. CASE ~conn[e].open
  <2>1. Target(e) = NewConn(conn[e], TRUE)
    BY <1>2 DEF Target
  <2>2. NewConn(conn[e], TRUE).socket /\ NewConn(conn[e], TRUE).state = "CLOSED"
    BY <1>1, <1>2 DEF NewConn, Conn
  <2> QED
    BY <2>1, <2>2 DEF Waits
<1>3. CASE conn[e].open
  <2>1. Target(e) = conn[e]
    BY <1>3 DEF Target
  <2> QED
    BY <1>3, <2>1
<1> QED
  BY <1>2, <1>3

\* A handler of csp_rdp_new_packet that does not close the connection.
LEMMA HandlerKept ==
  ASSUME TypeOK, SlotInv, ToldInv, NEW e \in Endpoint, NEW p, NEW r, NEW ok, NEW next,
         HandledThen(e, p, r, ok, next), eof' = eof,
         ~Waits(r.c) \/ (Arrives(e, p) /\ Keeps(Target(e), r.c))
  PROVE ToldInv'
<1>1. conn' = [conn EXCEPT ![e] = r.c]
  BY DEF HandledThen
<1>2. ~Waits(r.c) \/ Keeps(conn[e], r.c)
  BY ArrivesTold DEF Keeps
<1> QED
  BY <1>1, <1>2, ToldKept

\* A handler that closes it for others than its user: c is what it had made of
\* the connection before.
LEMMA HandlerTells ==
  ASSUME TypeOK, SlotInv, ToldInv, RoomStep, NEW e \in Endpoint, NEW p, NEW r, NEW ok,
         NEW next, HandledThen(e, p, r, ok, next), eof' = eof, Arrives(e, p),
         NEW c, Tells(c, r.c), c.rx = Target(e).rx, c.socket = Target(e).socket,
         c.closedBy = Target(e).closedBy
  PROVE ToldInv'
<1>1. conn' = [conn EXCEPT ![e] = r.c] /\ eof' = [eof EXCEPT ![e] = eof[e]]
  BY DEF HandledThen, TypeOK
<1>2. ToldOK(r.c, eof[e])
  <2> SUFFICES ASSUME Waits(r.c), ~eof[e] PROVE HasNull(r.c)
    BY DEF ToldOK
  <2>1. ~Target(e).socket /\ ByUser \notin Target(e).closedBy
    BY DEF Tells
  <2>2. conn[e].open /\ Target(e) = conn[e]
    BY <2>1, ArrivesTold
  <2>3. CASE conn[e].state = "CLOSE_WAIT"
    <3>1. HasNull(conn[e])
      BY <2>1, <2>2, <2>3 DEF ToldInv, ToldOK, Waits
    <3> QED
      BY <2>2, <3>1 DEF Tells, HasNull
  <2>4. CASE conn[e].state # "CLOSE_WAIT"
    <3>1. conn'[e].state = "CLOSE_WAIT"
      BY <1>1 DEF Waits, TypeOK
    <3>2. HasRoom(conn[e])
      BY <2>2, <2>4, <3>1 DEF RoomStep
    <3> QED
      BY <2>2, <3>2 DEF Tells, HasRoom
  <2> QED
    BY <2>3, <2>4
<1> QED
  BY <1>1, <1>2, ToldStep

\* The handlers of a reset.
LEMMA RstTold ==
  ASSUME TypeOK, SlotInv, ToldInv, RoomStep, NEW e \in Endpoint, NEW p,
         \/ RstInClosed(e, p) \/ RstInCloseWait(e, p)
         \/ RstInSequence(e, p) \/ RstOutOfSequence(e, p)
  PROVE ToldInv'
<1> DEFINE c == AckOfRst(Target(e), p)
<1>1. Arrives(e, p) /\ eof' = eof
  BY DEF RstInClosed, RstInCloseWait, RstInSequence, RstOutOfSequence, Quiet, histVars
<1>2. ConnOK(Target(e)) /\ ConnOK(c)
  BY <1>1, ArrivesType, AckOfRstType
<1>3. Slot(c) = Slot(Target(e)) /\ c.rx = Target(e).rx
  BY <1>2 DEF AckOfRst, Slot, ConnOK, Conn
<1> HIDE DEF c
<1>4. /\ c.socket = Target(e).socket /\ c.closedBy = Target(e).closedBy
      /\ c.state = Target(e).state
  BY <1>3 DEF Slot
<1>5. CASE RstInClosed(e, p)
  <2> DEFINE r == IF c.socket THEN ConnClose(c, {ByUser}, TRUE) ELSE Result(c, {})
  <2>1. HandledThen(e, p, r, TRUE, "idle") /\ c.state = "CLOSED"
    BY <1>4, <1>5 DEF RstInClosed, Handled, c
  <2>2. ~Waits(ConnClose(c, {ByUser}, TRUE).c)
    BY <1>2, ClosersType, UserCloseTold
  <2>3. ~Waits(r.c)
    BY <2>1, <2>2 DEF Result, Waits
  <2> HIDE DEF r
  <2> QED
    BY <1>1, <2>1, <2>3, HandlerKept
<1>6. CASE RstInCloseWait(e, p)
  <2> DEFINE by == IF FastClose /\ "ACK" \in p.flags THEN {ByProtocol, ByTimeout} ELSE {ByProtocol}
             r == DiscardClose(c, by, TRUE)
  <2>1. by \in SUBSET ClosedByAll
    BY ClosersType
  <2>2. HandledThen(e, p, r, TRUE, "idle")
    BY <1>6 DEF RstInCloseWait, Handled, c
  <2> HIDE DEF by
  <2>3. Tells(c, r.c)
    BY <1>2, <2>1, DiscardCloseTold
  <2> HIDE DEF r
  <2> QED
    BY <1>1, <1>3, <1>4, <2>2, <2>3, HandlerTells
<1>7. CASE RstInSequence(e, p)
  <2> DEFINE w == [c EXCEPT !.state = "CLOSE_WAIT"]
             r(ok) == SendCmp(w, Cmp({"ACK", "RST"}, w.nxt, w.cur), ok)
             by == IF FastClose THEN {ByProtocol, ByTimeout} ELSE {ByProtocol}
             d(ok) == DiscardClose(r(ok).c, by, ok)
             s(ok) == Result(d(ok).c, r(ok).out \cup d(ok).out)
  <2>1. PICK ok \in BOOLEAN : HandledThen(e, p, s(ok), ok, "idle")
    BY <1>7 DEF RstInSequence, Handled, c
  <2>2. ConnOK(w) /\ w.rx = c.rx /\ w.socket = c.socket /\ w.closedBy = c.closedBy
    BY <1>2 DEF ConnOK, Conn, RdpStates
  <2>3. by \in SUBSET ClosedByAll
    BY ClosersType
  <2> HIDE DEF w, by
  <2>4. ResultOK(r(ok)) /\ Slot(r(ok).c) = Slot(w) /\ r(ok).c.rx = w.rx
    BY <2>2, SendOwnType, SendCmpSlot, SendCmpRx
  <2> DEFINE v == r(ok).c
  <2>5. ConnOK(v) /\ v.rx = c.rx /\ v.socket = c.socket /\ v.closedBy = c.closedBy
    BY <2>2, <2>4 DEF ResultOK, Slot
  <2>6. d(ok) = DiscardClose(v, by, ok)
    OBVIOUS
  <2>7. s(ok).c = d(ok).c
    BY DEF Result
  <2> HIDE DEF v, d, s
  <2>8. Tells(v, s(ok).c)
    BY <2>3, <2>5, <2>6, <2>7, DiscardCloseTold
  <2>9. v.rx = Target(e).rx /\ v.socket = Target(e).socket /\ v.closedBy = Target(e).closedBy
    BY <1>3, <1>4, <2>5
  <2> QED
    BY <1>1, <2>1, <2>8, <2>9, HandlerTells
<1>8. CASE RstOutOfSequence(e, p)
  <2>1. HandledThen(e, p, Result(c, {}), TRUE, "idle") /\ c.state # "CLOSE_WAIT"
    BY <1>4, <1>8 DEF RstOutOfSequence, Handled, c
  <2>2. ~Waits(Result(c, {}).c)
    BY <2>1 DEF Result, Waits
  <2> QED
    BY <1>1, <2>1, <2>2, HandlerKept
<1> QED
  BY <1>5, <1>6, <1>7, <1>8

\* The handlers that leave the connection as it is, or answer.
LEMMA AnswerTold ==
  ASSUME TypeOK, SlotInv, ToldInv, NEW e \in Endpoint, NEW p,
         \/ DropUnknown(e, p) \/ DuplicateSyn(e, p) \/ InvalidAck(e, p)
         \/ IgnoredInCloseWait(e, p) \/ OutOfWindow(e, p) \/ HalfOpen(e, p)
         \/ AckInCloseWait(e, p)
  PROVE ToldInv'
<1>1. eof' = eof
  BY DEF DropUnknown, DuplicateSyn, InvalidAck, IgnoredInCloseWait, OutOfWindow,
         HalfOpen, AckInCloseWait, Quiet, histVars
<1>2. ASSUME NEW states, Receives(e, p, states)
      PROVE /\ p \in Segment /\ ConnOK(Target(e)) /\ Arrives(e, p)
            /\ Target(e).state \in states
  BY <1>2, ArrivesType DEF Receives
<1>3. CASE DropUnknown(e, p)
  <2>1. HandledThen(e, p, Result(conn[e], {}), TRUE, "idle") /\ ~conn[e].open
    BY <1>3 DEF DropUnknown, Handled
  <2>2. ~Waits(Result(conn[e], {}).c)
    BY <2>1 DEF Result, Waits
  <2> QED
    BY <1>1, <2>1, <2>2, HandlerKept
<1>4. CASE DuplicateSyn(e, p) \/ InvalidAck(e, p) \/ IgnoredInCloseWait(e, p)
  <2>1. HandledThen(e, p, Result(Target(e), {}), TRUE, "idle") /\ Arrives(e, p)
    BY <1>4 DEF DuplicateSyn, InvalidAck, IgnoredInCloseWait, Receives, Handled
  <2>2. Keeps(Target(e), Result(Target(e), {}).c)
    BY DEF Result, Keeps
  <2> QED
    BY <1>1, <2>1, <2>2, HandlerKept
<1>5. CASE OutOfWindow(e, p)
  <2> DEFINE c == Target(e)
             r(ok, cloned) == IF c.state = "SYN_RCVD" THEN SendSynAck(c, cloned, ok)
                              ELSE SendEack(c, ok)
  <2>1. PICK ok \in BOOLEAN, cloned \in BOOLEAN : HandledThen(e, p, r(ok, cloned), ok, "idle")
    BY <1>5 DEF OutOfWindow, Handled
  <2>2. ConnOK(c) /\ c.state # "CLOSE_WAIT"
    BY <1>2, <1>5 DEF OutOfWindow
  <2> HIDE DEF c
  <2>3. Slot(SendSynAck(c, cloned, ok).c) = Slot(c)
    <3>1. Cmp({"SYN", "ACK"}, c.iss, c.irs) \in Segment
      BY <2>2, CmpType DEF ConnOK, Conn
    <3> QED
      BY <2>2, <3>1, SendSynSlot DEF SendSynAck
  <2>4. Slot(SendEack(c, ok).c) = Slot(c)
    BY <2>2, SendCmpSlot DEF SendEack
  <2>5. Slot(r(ok, cloned).c) = Slot(c)
    BY <2>3, <2>4
  <2> HIDE DEF r
  <2>6. ~Waits(r(ok, cloned).c)
    BY <2>2, <2>5 DEF Slot, Waits
  <2> QED
    BY <1>1, <2>1, <2>6, HandlerKept
<1>6. CASE HalfOpen(e, p)
  <2> DEFINE c == [Target(e) EXCEPT !.sem = TRUE]
             r(ok) == SendCmp(c, Cmp({"RST"}, c.nxt, c.cur), ok)
  <2>1. PICK ok \in BOOLEAN : HandledThen(e, p, r(ok), ok, "idle")
    BY <1>6 DEF HalfOpen, Handled
  <2>2. ConnOK(c) /\ c.state # "CLOSE_WAIT"
    <3>1. ConnOK(Target(e)) /\ Target(e).state = "SYN_SENT"
      BY <1>2, <1>6 DEF HalfOpen
    <3> QED
      BY <3>1 DEF ConnOK, Conn
  <2> HIDE DEF c
  <2>3. Slot(r(ok).c) = Slot(c)
    BY <2>2, SendCmpSlot
  <2> HIDE DEF r
  <2>4. ~Waits(r(ok).c)
    BY <2>2, <2>3 DEF Slot, Waits
  <2> QED
    BY <1>1, <2>1, <2>4, HandlerKept
<1>7. CASE AckInCloseWait(e, p)
  <2> DEFINE c == [Target(e) EXCEPT !.una = Plus(p.ack, 1)]
             r(ok) == SendCmp(c, Cmp({"ACK", "RST"}, c.nxt, c.cur), ok)
  <2>1. PICK ok \in BOOLEAN : HandledThen(e, p, r(ok), ok, "idle")
    BY <1>7 DEF AckInCloseWait, Handled
  <2>2. p \in Segment /\ ConnOK(Target(e)) /\ Arrives(e, p)
    BY <1>2, <1>7 DEF AckInCloseWait
  <2>3. Plus(p.ack, 1) \in SeqNr
    BY <2>2, PlusType DEF Segment, SeqNr
  <2>4. ConnOK(c) /\ Slot(c) = Slot(Target(e)) /\ c.rx = Target(e).rx
    BY <2>2, <2>3 DEF ConnOK, Conn, Slot
  <2> HIDE DEF c
  <2>5. Slot(r(ok).c) = Slot(c) /\ r(ok).c.rx = c.rx
    BY <2>4, SendCmpSlot, SendCmpRx
  <2> HIDE DEF r
  <2>6. Keeps(Target(e), r(ok).c)
    BY <2>4, <2>5, SameTold
  <2> QED
    BY <1>1, <2>1, <2>2, <2>6, HandlerKept
<1> QED
  BY <1>3, <1>4, <1>5, <1>6, <1>7

\* The handlers that close the connection for the protocol.
LEMMA DiscardTold ==
  ASSUME TypeOK, SlotInv, ToldInv, RoomStep, NEW e \in Endpoint, NEW p,
         \/ InvalidSyn(e, p) \/ WrongAckInSynRcvd(e, p) \/ BacklogFull(e, p)
         \/ NoSynInClosed(e, p)
  PROVE ToldInv'
<1>1. Arrives(e, p) /\ eof' = eof
  BY DEF InvalidSyn, WrongAckInSynRcvd, BacklogFull, NoSynInClosed, Acceptable, Receives,
         Quiet, histVars
<1>2. ConnOK(Target(e)) /\ {ByProtocol} \in SUBSET ClosedByAll
  BY <1>1, ArrivesType, ClosersType
<1>3. CASE InvalidSyn(e, p) \/ WrongAckInSynRcvd(e, p)
  <2> DEFINE c == Target(e)
             r(ok) == DiscardClose(c, {ByProtocol}, ok)
  <2>1. PICK ok \in BOOLEAN : HandledThen(e, p, r(ok), ok, "idle")
    BY <1>3 DEF InvalidSyn, WrongAckInSynRcvd, Handled
  <2>2. Tells(c, r(ok).c)
    BY <1>2, DiscardCloseTold
  <2>3. c.rx = Target(e).rx /\ c.socket = Target(e).socket /\ c.closedBy = Target(e).closedBy
    OBVIOUS
  <2> HIDE DEF r, c
  <2> QED
    BY <1>1, <2>1, <2>2, <2>3, HandlerTells
<1>4. CASE BacklogFull(e, p)
  <2> DEFINE c == [Target(e) EXCEPT !.state = "OPEN"]
             r(ok) == DiscardClose(c, {ByProtocol}, ok)
  <2>1. PICK ok \in BOOLEAN : HandledThen(e, p, r(ok), FALSE, "idle")
    BY <1>4 DEF BacklogFull, Handled
  <2>2. ConnOK(c)
    BY <1>2 DEF ConnOK, Conn, RdpStates
  <2>3. c.rx = Target(e).rx /\ c.socket = Target(e).socket /\ c.closedBy = Target(e).closedBy
    BY <1>2 DEF ConnOK, Conn
  <2> HIDE DEF c
  <2>4. Tells(c, r(ok).c)
    BY <1>2, <2>2, DiscardCloseTold
  <2> HIDE DEF r
  <2> QED
    BY <1>1, <2>1, <2>3, <2>4, HandlerTells
<1>5. CASE NoSynInClosed(e, p)
  <2> DEFINE c == Target(e)
             r(ok) == SendCmp(c, Cmp({"RST"}, c.nxt, c.cur), ok)
             d(ok) == DiscardClose(r(ok).c, {ByProtocol}, ok)
             s(ok) == Result(d(ok).c, r(ok).out \cup d(ok).out)
  <2>1. PICK ok \in BOOLEAN : HandledThen(e, p, s(ok), ok, "idle")
    BY <1>5 DEF NoSynInClosed, Handled
  <2>2. c = Target(e)
    OBVIOUS
  <2> HIDE DEF c
  <2>3. ResultOK(r(ok)) /\ Slot(r(ok).c) = Slot(c) /\ r(ok).c.rx = c.rx
    BY <1>2, <2>2, SendOwnType, SendCmpSlot, SendCmpRx
  <2> DEFINE v == r(ok).c
  <2>4. ConnOK(v) /\ v.rx = c.rx /\ v.socket = c.socket /\ v.closedBy = c.closedBy
    BY <2>3 DEF ResultOK, Slot
  <2>5. d(ok) = DiscardClose(v, {ByProtocol}, ok) /\ s(ok).c = d(ok).c
    BY DEF Result
  <2> HIDE DEF v, d, s
  <2>6. Tells(v, s(ok).c)
    BY <1>2, <2>4, <2>5, DiscardCloseTold
  <2> QED
    BY <1>1, <2>1, <2>2, <2>4, <2>6, HandlerTells
<1> QED
  BY <1>3, <1>4, <1>5

\* The handlers that begin, open or use a connection.
LEMMA OpenTold ==
  ASSUME TypeOK, SlotInv, ToldInv, NEW e \in Endpoint, NEW p,
         SynAckInSynSent(e, p) \/ DataInOpen(e, p) \/ HandshakeDone(e, p)
  PROVE ToldInv'
<1>1. Arrives(e, p) /\ eof' = eof
  BY DEF SynAckInSynSent, DataInOpen, HandshakeDone, Acceptable, Receives, Quiet, histVars
<1>2. p \in Segment /\ ConnOK(Target(e))
  BY <1>1, ArrivesType
<1>3. CASE SynAckInSynSent(e, p)
  <2> DEFINE c == [Target(e) EXCEPT
                     !.cur = p.seq, !.irs = p.seq, !.lsa = (p.seq - 1) % SeqMod,
                     !.una = Plus(p.ack, 1), !.state = "OPEN", !.sem = TRUE]
             r(ok) == SendCmp(c, Cmp({"ACK"}, c.nxt, c.cur), ok)
  <2>1. p.seq \in SeqNr /\ p.ack \in SeqNr /\ p.seq \in Int /\ p.ack \in Int
    BY <1>2 DEF Segment, SeqNr
  <2>2. (p.seq - 1) % SeqMod \in SeqNr /\ Plus(p.ack, 1) \in SeqNr
    BY <2>1, PlusType, MinusType
  <2>3. ConnOK(c) /\ c.state = "OPEN"
    BY <1>2, <2>1, <2>2 DEF ConnOK, Conn, RdpStates
  <2>4. PICK ok \in BOOLEAN : HandledThen(e, p, r(ok), ok, "idle")
    BY <1>3 DEF SynAckInSynSent, Handled
  <2> HIDE DEF c
  <2>5. Slot(r(ok).c) = Slot(c)
    BY <2>3, SendCmpSlot
  <2> HIDE DEF r
  <2>6. ~Waits(r(ok).c)
    BY <2>3, <2>5 DEF Slot, Waits
  <2> QED
    BY <1>1, <2>4, <2>6, HandlerKept
<1>4. ASSUME NEW c, ConnOK(c), c.state = "OPEN", NEW due, NEW ok, HandledData(e, p, c, due, ok)
      PROVE ToldInv'
  <2> DEFINE r == HandleData(c, p, due, ok)
  <2>1. PICK next : HandledThen(e, p, r, ok, next)
    BY <1>4 DEF HandledData
  <2>2. Slot(r.c) = Slot(c)
    BY <1>2, <1>4, HandleDataSlot
  <2> HIDE DEF r
  <2>3. ~Waits(r.c)
    BY <1>4, <2>2 DEF Slot, Waits
  <2> QED
    BY <1>1, <2>1, <2>3, HandlerKept
<1>5. CASE DataInOpen(e, p)
  BY <1>2, <1>4, <1>5 DEF DataInOpen, Acceptable, Receives
<1>6. CASE HandshakeDone(e, p)
  <2> DEFINE c == Opened(Target(e))
  <2>1. ConnOK(c) /\ c.state = "OPEN"
    BY <1>2 DEF Opened, ConnOK, Conn, RdpStates
  <2>2. \E ok, due \in BOOLEAN : HandledData(e, p, c, due, ok)
    BY <1>6 DEF HandshakeDone
  <2> HIDE DEF c
  <2> QED
    BY <1>4, <2>1, <2>2
<1> QED
  BY <1>3, <1>5, <1>6

\* A SYN begins a new connection.
LEMMA SynInClosedTold ==
  ASSUME TypeOK, SlotInv, ToldInv, NEW e \in Endpoint, NEW p, SynInClosed(e, p)
  PROVE ToldInv'
<1> DEFINE c == [Target(e) EXCEPT
                   !.iss = Pick(e), !.nxt = Plus(Pick(e), 1), !.una = Pick(e),
                   !.cur = p.seq, !.irs = p.seq, !.lsa = p.seq,
                   !.state = "SYN_RCVD"]
           r(ok, cloned) == SendSynAck(c, cloned, ok)
<1>1. p \in Segment /\ ConnOK(Target(e))
  BY ArrivesType DEF SynInClosed, Receives
<1>2. Pick(e) \in SeqNr
  BY PickType DEF SynInClosed
<1>3. Plus(Pick(e), 1) \in SeqNr /\ p.seq \in SeqNr
  BY <1>1, <1>2, PlusType DEF SeqNr, Segment
<1>4. ConnOK(c) /\ c.state = "SYN_RCVD"
  BY <1>1, <1>2, <1>3 DEF ConnOK, Conn, RdpStates
<1>5. PICK ok \in BOOLEAN, cloned \in BOOLEAN : HandledThen(e, p, r(ok, cloned), ok, "idle")
  BY DEF SynInClosed, Handled
<1> HIDE DEF c
<1>6. Slot(r(ok, cloned).c) = Slot(c)
  <2>1. Cmp({"SYN", "ACK"}, c.iss, c.irs) \in Segment
    BY <1>4, CmpType DEF ConnOK, Conn
  <2> QED
    BY <1>4, <2>1, SendSynSlot DEF SendSynAck
<1> HIDE DEF r
<1>7. ToldOK(r(ok, cloned).c, FALSE)
  BY <1>4, <1>6 DEF Slot, Waits, ToldOK
<1>8. /\ conn' = [conn EXCEPT ![e] = r(ok, cloned).c]
      /\ eof' = [eof EXCEPT ![e] = FALSE]
  BY <1>5 DEF HandledThen, SynInClosed
<1> QED
  BY <1>7, <1>8, ToldStep

\* All of csp_rdp_new_packet.
LEMMA ArrivalTold == ASSUME TypeOK, SlotInv, ToldInv, RoomStep, Arrival PROVE ToldInv'
<1>1. PICK m \in net : NewPacket(m.to, m.seg)
  BY DEF Arrival
<1>2. m.to \in Endpoint
  BY DEF TypeOK
<1> QED
  BY <1>1, <1>2, RstTold, AnswerTold, DiscardTold, SynInClosedTold, OpenTold DEF NewPacket

\* csp_rdp_check_timeouts and csp_rdp_rx_queue_flush.
LEMMA CheckTimeoutsTold ==
  ASSUME TypeOK, SlotInv, ToldInv, NEW e \in Endpoint, CheckTimeouts(e) \/ FlushNext(e)
  PROVE ToldInv'
<1>1. ConnOK(conn[e])
  BY TypeParts DEF LinkType
<1>2. ASSUME NEW r, NEW ok, Checked(e, r, ok), ~Waits(r.c) \/ Keeps(conn[e], r.c)
      PROVE ToldInv'
  <2>1. conn' = [conn EXCEPT ![e] = r.c] /\ eof' = eof
    BY <1>2 DEF Checked, RouterUnchanged, histVars
  <2> QED
    BY <1>2, <2>1, ToldKept
<1>3. CASE CheckNothing(e)
  BY <1>3 DEF CheckNothing, RouterUnchanged, histVars, ToldInv
<1>4. CASE LostConnection(e)
  <2>1. PICK ok \in BOOLEAN : Checked(e, ConnClose(conn[e], ClosedByAll, ok), ok)
    BY <1>4 DEF LostConnection
  <2>2. ByUser \in ClosedByAll
    BY DEF ClosedByAll
  <2>3. ~Waits(ConnClose(conn[e], ClosedByAll, ok).c)
    BY <1>1, <2>2, UserCloseTold
  <2> QED
    BY <1>2, <2>1, <2>3
<1>5. CASE CloseWaitTimeout(e)
  <2> DEFINE c == conn[e]
             d(ok) == ConnClose(c, {ByProtocol, ByTimeout}, ok).c
  <2>1. PICK ok \in BOOLEAN : Checked(e, ConnClose(c, {ByProtocol, ByTimeout}, ok), ok)
    BY <1>5 DEF CloseWaitTimeout
  <2>2. ConnOK(c) /\ c.state = "CLOSE_WAIT"
    BY <1>1, <1>5 DEF CloseWaitTimeout
  <2>3. c = conn[e]
    OBVIOUS
  <2> HIDE DEF c
  <2>4. Waits(d(ok)) => /\ c.open /\ d(ok).rx = c.rx
                        /\ d(ok).closedBy = c.closedBy \cup {ByProtocol, ByTimeout}
    <3> DEFINE by == {ByProtocol, ByTimeout}
    <3>1. by \in SUBSET ClosedByAll
      BY ClosersType
    <3> HIDE DEF by
    <3>2. LET z == ConnClose(c, by, ok).c
          IN Waits(z) => c.open /\ z.rx = c.rx /\ z.closedBy = c.closedBy \cup by
      BY <2>2, <3>1, ConnCloseTold
    <3> QED
      BY <3>2 DEF by
  <2> HIDE DEF d
  <2>5. Keeps(c, d(ok))
    BY <2>2, <2>4 DEF Keeps, Waits, HasNull
  <2> QED
    BY <1>2, <2>1, <2>3, <2>5 DEF d
<1>6. CASE CheckMessages(e)
  <2>1. PICK ok \in BOOLEAN, due \in BOOLEAN, expired \in SUBSET Unacked(conn[e]) :
          Checked(e, Retransmitted(conn[e], expired, due, ok), ok)
    BY <1>6 DEF CheckMessages
  <2> DEFINE r == Retransmitted(conn[e], expired, due, ok)
  <2>2. Slot(r.c) = Slot(conn[e]) /\ conn[e].state # "CLOSE_WAIT"
    BY <1>1, <1>6, RetransmittedSlot DEF CheckMessages
  <2> HIDE DEF r
  <2>3. ~Waits(r.c)
    BY <2>2 DEF Slot, Waits
  <2> QED
    BY <1>2, <2>1, <2>3 DEF r
<1>7. CASE FlushNext(e)
  <2>1. PICK s \in NextStored(conn[e]) : conn' = [conn EXCEPT ![e] = FlushOne(conn[e], s)]
    BY <1>7 DEF FlushNext
  <2> DEFINE c == conn[e]
             q == Enqueue(c, s.data)
             d == FlushOne(c, s)
  <2>2. s.data \in Payload /\ ConnOK(c)
    BY <1>1 DEF NextStored, ConnOK, Conn
  <2>3. c = conn[e]
    OBVIOUS
  <2> HIDE DEF c
  <2>4. ConnOK(q) /\ Slot(q) = Slot(c) /\ (HasNull(c) => HasNull(q))
    BY <2>2, EnqueueType, EnqueueSlot, EnqueueTold
  <2>5. d.rx = q.rx /\ Slot(d) = Slot(q)
    <3>1. d = [q EXCEPT !.rxq = @ \ {s}, !.cur = s.seq]
      BY DEF FlushOne
    <3> HIDE DEF q, d
    <3> QED
      BY <2>4, <3>1 DEF ConnOK, Conn, Slot
  <2> HIDE DEF q
  <2>6. conn' = [conn EXCEPT ![e] = d] /\ eof' = eof
    BY <1>7, <2>1, <2>3 DEF FlushNext, histVars
  <2> HIDE DEF d
  <2>7. Keeps(c, d)
    BY <2>4, <2>5 DEF Keeps, Slot, Waits, HasNull
  <2> QED
    BY <2>3, <2>6, <2>7, ToldKept
<1> QED
  BY <1>3, <1>4, <1>5, <1>6, <1>7 DEF CheckTimeouts

\* csp_rdp_connect sends a SYN, or its caller has closed the connection.
LEMMA SendSynRequestTold ==
  ASSUME TypeOK, NEW c0, ConnOK(c0), NEW again, SendSynRequest(Client, c0, again)
  PROVE \E d : ~Waits(d) /\ conn' = [conn EXCEPT ![Client] = d]
<1> DEFINE iss == Pick(Client)
           c1 == [c0 EXCEPT !.iss = iss, !.nxt = Plus(iss, 1), !.una = iss,
                            !.sem = FALSE, !.state = "SYN_SENT"]
           syn == Cmp({"SYN"}, iss, 0)
           r(ok) == SendSyn(c1, syn, FALSE, ok)
           m(ok) == RdpClose(r(ok).c, {ByProtocol}, FALSE, ok).c
           failed(ok) == ConnClose(m(ok), {ByUser}, ok)
<1>1. PICK ok \in BOOLEAN :
        /\ CanPick(Client)
        /\ conn' = [conn EXCEPT ![Client] = IF ok THEN r(ok).c ELSE failed(ok).c]
  BY DEF SendSynRequest
<1>2. Client \in Endpoint
  BY DEF Endpoint
<1>3. iss \in SeqNr
  BY <1>1, <1>2, PickType
<1>4. Plus(iss, 1) \in SeqNr
  BY <1>3, PlusType DEF SeqNr
<1>5. syn \in Segment
  BY <1>3, CmpType, SeqModAssumption DEF SeqNr
<1> HIDE DEF iss, syn
<1>6. ConnOK(c1) /\ c1.state = "SYN_SENT"
  BY <1>3, <1>4 DEF ConnOK, Conn, RdpStates
<1> HIDE DEF c1
<1>7. ConnOK(r(ok).c) /\ ~Waits(r(ok).c)
  <2>1. \A cloned : /\ ResultOK(SendSyn(c1, syn, cloned, ok))
                    /\ Slot(SendSyn(c1, syn, cloned, ok).c) = Slot(c1)
    BY <1>5, <1>6, SendSynType, SendSynSlot
  <2> QED
    BY <1>6, <2>1 DEF ResultOK, Slot, Waits
<1> HIDE DEF r
<1>8. ConnOK(m(ok))
  BY <1>7, ClosersType, RdpCloseType DEF ResultOK
<1> HIDE DEF m
<1>9. ~Waits(failed(ok).c)
  BY <1>8, ClosersType, UserCloseTold
<1> QED
  BY <1>1, <1>7, <1>9

\* All of csp_connect.
LEMMA ConnectingTold == ASSUME TypeOK, SlotInv, ToldInv, Connecting PROVE ToldInv'
<1>1. Client \in Endpoint /\ ConnOK(conn[Client])
  BY TypeParts DEF LinkType, Endpoint
<1>2. CASE Connect
  <2>1. ConnOK(NewConn(conn[Client], FALSE))
    BY <1>1, NewConnType
  <2>2. PICK d : ~Waits(d) /\ conn' = [conn EXCEPT ![Client] = d]
    BY <1>2, <2>1, SendSynRequestTold DEF Connect
  <2>3. eof' = [eof EXCEPT ![Client] = FALSE] /\ ToldOK(d, FALSE)
    BY <1>2, <2>2 DEF Connect, ToldOK
  <2> QED
    BY <1>1, <2>2, <2>3, ToldStep
<1>3. CASE ConnectOpened
  <2> DEFINE d == [conn[Client] EXCEPT !.sem = FALSE]
  <2>1. conn' = [conn EXCEPT ![Client] = d] /\ eof' = eof
    BY <1>1, <1>3 DEF ConnectOpened, histVars, TypeOK
  <2>2. Slot(d) = Slot(conn[Client]) /\ d.rx = conn[Client].rx
    BY <1>1 DEF Slot, ConnOK, Conn
  <2> HIDE DEF d
  <2> QED
    BY <1>1, <2>1, <2>2, SameTold, ToldKept
<1>4. CASE ConnectRetry
  <2> DEFINE c == [conn[Client] EXCEPT !.txq = {}, !.rxq = {}]
  <2>1. ConnOK(c)
    BY <1>1, FS_EmptySet DEF ConnOK, Conn
  <2>2. SendSynRequest(Client, c, FALSE) /\ eof' = eof
    BY <1>4 DEF ConnectRetry, histVars
  <2> HIDE DEF c
  <2>3. PICK d : ~Waits(d) /\ conn' = [conn EXCEPT ![Client] = d]
    BY <2>1, <2>2, SendSynRequestTold
  <2> QED
    BY <1>1, <2>2, <2>3, ToldKept
<1>5. CASE ConnectRefused \/ ConnectTimeout
  <2> DEFINE m(ok) == RdpClose(conn[Client], {ByProtocol}, FALSE, ok).c
             d(ok) == ConnClose(m(ok), {ByUser}, ok).c
  <2>1. ConnectFails
    BY <1>5 DEF ConnectRefused, ConnectTimeout
  <2>2. PICK ok \in BOOLEAN : conn' = [conn EXCEPT ![Client] = d(ok)]
    BY <2>1 DEF ConnectFails
  <2>3. ConnOK(m(ok))
    BY <1>1, ClosersType, RdpCloseType DEF ResultOK
  <2> HIDE DEF m
  <2>4. ~Waits(d(ok))
    BY <2>3, ClosersType, UserCloseTold
  <2>5. eof' = eof
    BY <2>1 DEF ConnectFails, histVars
  <2> HIDE DEF d
  <2> QED
    BY <1>1, <2>2, <2>4, <2>5, ToldKept
<1> QED
  BY <1>2, <1>3, <1>4, <1>5 DEF Connecting

\* csp_read: the NULL packet is in the queue, or has been read.
LEMMA ReadTold == ASSUME TypeOK, ToldInv, NEW e \in Endpoint, Read(e) PROVE ToldInv'
<1> DEFINE c == [conn[e] EXCEPT !.rx = Tail(@)]
           r(ok, due) == IF DelayedAcks THEN CheckAck(c, due, ok) ELSE Result(c, {})
           q == conn[e].rx
           x == IF Head(q) = Null THEN TRUE ELSE eof[e]
<1>1. PICK ok \in BOOLEAN, due \in BOOLEAN : conn' = [conn EXCEPT ![e] = r(ok, due).c]
  BY DEF Read
<1>2. conn[e] \in Conn /\ ConnOK(conn[e]) /\ q \in Seq(Payload) /\ q # <<>>
  BY TypeParts DEF LinkType, ConnOK, Conn, Read
<1>3. /\ Tail(q) \in Seq(Payload) /\ Len(q) \in Nat /\ Len(Tail(q)) = Len(q) - 1
      /\ Head(q) = q[1] /\ \A i \in 1..Len(Tail(q)) : Tail(q)[i] = q[i + 1]
  BY <1>2, HeadTailProperties
<1>4. ConnOK(c) /\ Slot(c) = Slot(conn[e]) /\ c.rx = Tail(q)
  BY <1>2, <1>3 DEF ConnOK, Conn, Slot
<1>5. HasNull(conn[e]) => Head(q) = Null \/ HasNull(c)
  <2> HIDE DEF c
  <2> SUFFICES ASSUME NEW i \in 1..Len(q), q[i] = Null, i # 1 PROVE HasNull(c)
    BY <1>3 DEF HasNull
  <2>1. i - 1 \in 1..Len(Tail(q)) /\ Tail(q)[i - 1] = q[(i - 1) + 1] /\ (i - 1) + 1 = i
    BY <1>3
  <2> QED
    BY <1>4, <2>1 DEF HasNull
<1>6. eof' = [eof EXCEPT ![e] = x]
  BY DEF Read, TypeOK
<1> HIDE DEF c
<1>7. Slot(r(ok, due).c) = Slot(conn[e]) /\ r(ok, due).c.rx = c.rx
  BY <1>4, CheckAckSlot, SendCmpRx DEF CheckAck, Result
<1> HIDE DEF r
<1>8. ToldOK(conn[e], eof[e])
  BY DEF ToldInv
<1>9. Waits(r(ok, due).c) => Waits(conn[e])
  BY <1>7 DEF Slot, Waits
<1>10. HasNull(c) => HasNull(r(ok, due).c)
  BY <1>7 DEF HasNull
<1>11. ToldOK(r(ok, due).c, x)
  BY <1>5, <1>8, <1>9, <1>10 DEF ToldOK
<1> HIDE DEF x
<1> QED
  BY <1>1, <1>6, <1>11, ToldStep

\* All calls of the user task.
LEMMA UserTaskTold ==
  ASSUME TypeOK, SlotInv, ToldInv, NEW e \in Endpoint, UserTask(e) PROVE ToldInv'
<1>1. ConnOK(conn[e])
  BY TypeParts DEF LinkType
<1>2. CASE SendBlocks(e) \/ SendTimeout(e) \/ SendOut(e)
  BY <1>2 DEF SendBlocks, SendTimeout, SendOut, histVars, ToldInv
<1>3. CASE SendWakes(e)
  <2> DEFINE d == [conn[e] EXCEPT !.sem = FALSE]
  <2>1. conn' = [conn EXCEPT ![e] = d] /\ eof' = eof
    BY <1>3 DEF SendWakes, histVars
  <2>2. Slot(d) = Slot(conn[e]) /\ d.rx = conn[e].rx
    BY <1>1 DEF Slot, ConnOK, Conn
  <2> HIDE DEF d
  <2> QED
    BY <2>1, <2>2, SameTold, ToldKept
<1>4. CASE RdpSend(e)
  <2> DEFINE seg == [Cmp({"ACK"}, conn[e].nxt, conn[e].cur)
                       EXCEPT !.data = <<picks[e], sent[e] + 1>>]
             d == [conn[e] EXCEPT !.txq = TxQueued(@, seg), !.nxt = Plus(@, 1),
                                  !.sem = @ /\ user[e] = "ready"]
  <2>1. conn' = [conn EXCEPT ![e] = d] /\ eof' = eof
    BY <1>4 DEF RdpSend
  <2>2. Slot(d) = Slot(conn[e]) /\ d.rx = conn[e].rx
    BY <1>1 DEF Slot, ConnOK, Conn
  <2> HIDE DEF d
  <2> QED
    BY <2>1, <2>2, SameTold, ToldKept
<1>5. CASE SendNoBufs(e)
  <2> DEFINE d == [conn[e] EXCEPT !.sem = @ /\ user[e] = "ready"]
  <2>1. conn' = [conn EXCEPT ![e] = d] /\ eof' = eof
    BY <1>5 DEF SendNoBufs, histVars, TypeOK
  <2>2. Slot(d) = Slot(conn[e]) /\ d.rx = conn[e].rx
    BY <1>1 DEF Slot, ConnOK, Conn
  <2> HIDE DEF d
  <2> QED
    BY <2>1, <2>2, SameTold, ToldKept
<1>6. CASE Close(e)
  <2>1. PICK ok \in BOOLEAN : conn' = [conn EXCEPT ![e] = ConnClose(conn[e], {ByUser}, ok).c]
    BY <1>6 DEF Close
  <2>2. ~Waits(ConnClose(conn[e], {ByUser}, ok).c)
    BY <1>1, ClosersType, UserCloseTold
  <2>3. eof' = eof
    BY <1>6 DEF Close, histVars
  <2> QED
    BY <2>1, <2>2, <2>3, ToldKept
<1> QED
  BY <1>2, <1>3, <1>4, <1>5, <1>6, ReadTold DEF UserTask

\* Every step that finds room for the NULL packet keeps ToldInv.
LEMMA ToldNext == TypeOK /\ SlotInv /\ ToldInv /\ RoomStep /\ [Next]_vars => ToldInv'
<1> SUFFICES ASSUME TypeOK, SlotInv, ToldInv, RoomStep, [Next]_vars PROVE ToldInv'
  OBVIOUS
<1>1. CASE (\E m \in net : Lose(m)) \/ Accept
  BY <1>1 DEF Lose, Accept, histVars, ToldInv
<1>2. CASE UNCHANGED vars
  BY <1>2 DEF vars, histVars, ToldInv
<1>3. CASE Arrival
  BY <1>3, ArrivalTold
<1>4. CASE Connecting
  BY <1>4, ConnectingTold
<1>5. CASE Reboot
  <2>1. Client \in Endpoint /\ ~Waits(InitConn)
    BY DEF Endpoint, InitConn, Waits
  <2>2. conn' = [conn EXCEPT ![Client] = InitConn] /\ eof' = eof
    BY <1>5 DEF Reboot, histVars
  <2> QED
    BY <2>1, <2>2, ToldKept
<1>6. CASE \E e \in Endpoint : UserTask(e) \/ CheckTimeouts(e) \/ FlushNext(e)
  BY <1>6, UserTaskTold, CheckTimeoutsTold
<1> QED
  BY <1>1, <1>2, <1>3, <1>4, <1>5, <1>6 DEF Next

\* A user whose connection was closed by others has read the NULL packet that
\* says so or will find it in its queue, through every way csp_rdp_new_packet
\* and the timers have to close it, when the queue has room for that packet.
THEOREM PeerCloseCorrect == Spec /\ RoomWhenClosed => []PeerCloseIsTold
<1>1. Init => ToldInv
  <2>1. Init => \A e \in Endpoint : conn[e] = InitConn
    BY DEF Init
  <2>2. ~Waits(InitConn)
    BY DEF Waits, InitConn
  <2> QED
    BY <2>1, <2>2 DEF ToldInv, ToldOK
<1>2. TypeOK /\ SlotInv /\ ToldInv /\ [RoomStep]_vars /\ [Next]_vars => ToldInv'
  <2>1. CASE UNCHANGED vars
    BY <2>1 DEF vars, histVars, ToldInv
  <2> QED
    BY <2>1, ToldNext
<1>3. SlotInv /\ ToldInv => PeerCloseIsTold
  <2> SUFFICES ASSUME SlotInv, ToldInv, NEW e \in Endpoint, conn[e].open,
                      ByProtocol \in conn[e].closedBy, ByUser \notin conn[e].closedBy
               PROVE eof[e] \/ HasNull(conn[e])
    BY DEF PeerCloseIsTold, HasNull
  <2>1. conn[e].state = "CLOSE_WAIT"
    BY DEF SlotInv, SlotOK
  <2> QED
    BY <2>1 DEF ToldInv, ToldOK, Waits
<1> QED
  BY <1>1, <1>2, <1>3, TypeCorrect, SlotCorrect, PTL DEF Spec, RoomWhenClosed

----------------------------------------------------------------------------
\* A connection that is accepted was asked for.

\* The server never uses an initial sequence number again, not even as the
\* number of a message.
StartsApart ==
  \A l, m \in 1..Len(IssOf[Server]), j \in 0..MsgLimit[Server] :
    IssOf[Server][l] = Plus(IssOf[Server][m], j) => l = m /\ j = 0

\* A segment that can end a handshake.
PlainAck(s) == "ACK" \in s.flags /\ "SYN" \notin s.flags /\ "RST" \notin s.flags

\* An acknowledgement of a, if a begins a connection of the server, is for one
\* whose SYN/ACK the client has taken: A holds those.
Vouched(A, a) == \A l \in 1..Len(IssOf[Server]) : a = IssOf[Server][l] => l \in A
Vouches(A, s) == PlainAck(s) => Vouched(A, s.ack)
AllVouch(A, out) == \A s \in out : Vouches(A, s)

OnlySyns(txq) == \A x \in txq : "SYN" \in x.seg.flags

Talking == {"ready", "waiting", "sending"}

\* The client's connection c, whose user task is at u: what it acknowledges is
\* vouched for, and before the handshake it sends SYNs only.
ClientOK(A, c, u) ==
  /\ c.state # "SYN_RCVD"
  /\ c.state = "OPEN" \/ u \in Talking => Vouched(A, c.cur)
  /\ c.state = "SYN_SENT" => OnlySyns(c.txq)
  /\ ~c.open => c.txq = {}

One(b) == IF b THEN 1 ELSE 0

\* Each connection in A was taken by the client, and for each of them there was
\* a csp_connect.
ClientSide(A) ==
  /\ A \subseteq 1..Len(IssOf[Server])
  /\ Cardinality(A) + One(conn[Client].state = "SYN_SENT") <= picks[Client]
  /\ \A m \in net : m.to = Server => Vouches(A, m.seg)
  /\ Vouches(A, hand[Client])
  /\ ClientOK(A, conn[Client], user[Client])

\* Each connection in D has passed the handshake of the server, and for each
\* connection that csp_accept has returned, or will return, there is one in D.
ServerSide(D) ==
  /\ D \subseteq 1..picks[Server]
  /\ accepts + One(backlog) <= Cardinality(D)
  /\ conn[Server].state = "SYN_RCVD" => picks[Server] \notin D

GhostOK(A, D) == ClientSide(A) /\ ServerSide(D) /\ D \subseteq A

\* The inductive invariant.
GhostInv == \E A, D : GhostOK(A, D)

----------------------------------------------------------------------------
\* What the operators of Rdp do to the state, and what they acknowledge.

\* d is what an operator that begins no connection has made of c.
Calm(c, d) ==
  /\ d.state \in {"OPEN", "SYN_SENT", "SYN_RCVD"} => d.state = c.state
  /\ d.state = "SYN_SENT" => d.txq \subseteq c.txq
  /\ d.open \/ d.txq = {} \/ (~c.open /\ d.txq \subseteq c.txq)

\* r answers for a connection that may acknowledge rcv_cur.
Speaks(A, c, r) ==
  /\ Calm(c, r.c)
  /\ Vouched(A, c.cur) => Vouched(A, r.c.cur) /\ AllVouch(A, r.out)

\* r acknowledges nothing.
Mute(A, c, r) ==
  /\ Calm(c, r.c)
  /\ Vouched(A, c.cur) => Vouched(A, r.c.cur)
  /\ AllVouch(A, r.out)

\* The fields Calm and Speaks depend on.
Face(c) == <<c.open, c.state, c.cur, c.txq>>

\* A connection of which only other fields are changed.
LEMMA SameFace ==
  ASSUME NEW c, NEW d, Face(d) = Face(c) PROVE Calm(c, d) /\ d.cur = c.cur
  BY DEF Face, Calm

\* One operator after another.
LEMMA CalmCalm ==
  ASSUME NEW b, NEW c, NEW d, Calm(b, c), Calm(c, d) PROVE Calm(b, d)
  BY DEF Calm

\* One of them may acknowledge.
LEMMA MuteMute ==
  ASSUME NEW A, NEW b, NEW q, NEW r, Mute(A, b, q), Mute(A, q.c, r)
  PROVE Mute(A, b, r) /\ Mute(A, b, Result(r.c, q.out \cup r.out))
<1>1. Calm(b, r.c)
  BY CalmCalm DEF Mute
<1> QED
  BY <1>1 DEF Mute, Result, AllVouch

LEMMA MuteSpeaks == ASSUME NEW A, NEW c, NEW r, Mute(A, c, r) PROVE Speaks(A, c, r)
  BY DEF Mute, Speaks

\* Nothing is sent.
LEMMA StillMute ==
  ASSUME NEW A, NEW c, NEW d, Face(d) = Face(c) PROVE Mute(A, c, Result(d, {}))
  BY SameFace DEF Mute, Result, AllVouch

\* Only other fields were changed before.
LEMMA FaceMute ==
  ASSUME NEW A, NEW b, NEW c, Face(c) = Face(b), NEW r, Mute(A, c, r) PROVE Mute(A, b, r)
  BY DEF Face, Mute, Calm

\* A control message that is no plain acknowledgement, and one that is.
LEMMA CmpVouches ==
  ASSUME NEW A, NEW flags, NEW a, NEW b
  PROVE /\ ("ACK" \notin flags \/ "SYN" \in flags \/ "RST" \in flags)
             => Vouches(A, Cmp(flags, a, b))
        /\ Vouched(A, b) => Vouches(A, Cmp(flags, a, b))
        /\ \A eacks : Vouched(A, b) => Vouches(A, [Cmp(flags, a, b) EXCEPT !.eacks = eacks])
  BY DEF Vouches, PlainAck, Cmp

\* csp_rdp_send_cmp.
LEMMA SendCmpFace ==
  ASSUME NEW c, ConnOK(c), NEW seg, NEW ok
  PROVE Face(SendCmp(c, seg, ok).c) = Face(c) /\ SendCmp(c, seg, ok).out \subseteq {seg}
  BY DEF SendCmp, Result, Face, ConnOK, Conn

LEMMA SendMute ==
  ASSUME NEW A, NEW c, ConnOK(c), NEW seg, NEW ok, Vouches(A, seg)
  PROVE Mute(A, c, SendCmp(c, seg, ok))
<1>1. Face(SendCmp(c, seg, ok).c) = Face(c) /\ SendCmp(c, seg, ok).out \subseteq {seg}
  BY SendCmpFace
<1> QED
  BY <1>1, SameFace DEF Mute, AllVouch

\* csp_rdp_check_ack.
LEMMA CheckAckSpeaks ==
  ASSUME NEW A, NEW c, ConnOK(c), NEW due, NEW ok PROVE Speaks(A, c, CheckAck(c, due, ok))
<1> DEFINE r == SendCmp(c, Cmp({"ACK"}, c.nxt, c.cur), ok)
<1>1. Speaks(A, c, Result(c, {}))
  BY StillMute, MuteSpeaks
<1>2. Face(r.c) = Face(c) /\ r.out \subseteq {Cmp({"ACK"}, c.nxt, c.cur)}
  BY SendCmpFace
<1>3. Vouched(A, c.cur) => Vouches(A, Cmp({"ACK"}, c.nxt, c.cur))
  BY CmpVouches
<1> HIDE DEF r
<1>4. Speaks(A, c, r)
  BY <1>2, <1>3, SameFace DEF Speaks, AllVouch
<1> QED
  BY <1>1, <1>4 DEF CheckAck, r

\* It leaves rcv_cur alone.
LEMMA CheckAckCur ==
  ASSUME NEW c, ConnOK(c), NEW due, NEW ok PROVE CheckAck(c, due, ok).c.cur = c.cur
  BY SendCmpFace DEF CheckAck, Result, Face

\* csp_rdp_send_eack.
LEMMA SendEackSpeaks ==
  ASSUME NEW A, NEW c, ConnOK(c), NEW ok PROVE Speaks(A, c, SendEack(c, ok))
<1> DEFINE eacks == {s.seq : s \in c.rxq}
           seg == [Cmp({"ACK", "EAK"}, c.nxt, c.cur) EXCEPT !.eacks = eacks]
           r == SendCmp(c, seg, ok)
<1> HIDE DEF eacks
<1>1. Vouched(A, c.cur) => Vouches(A, seg)
  BY CmpVouches
<1> HIDE DEF seg
<1>2. Face(r.c) = Face(c) /\ r.out \subseteq {seg}
  BY SendCmpFace
<1> HIDE DEF r
<1>3. Speaks(A, c, r)
  BY <1>1, <1>2, SameFace DEF Speaks, AllVouch
<1> QED
  BY <1>3 DEF SendEack, r, seg, eacks

\* r has put a SYN on the link and in tx_queue, at most.
Sends(c, r) ==
  /\ r.c.state = c.state /\ r.c.open = c.open /\ r.c.cur = c.cur
  /\ OnlySyns(c.txq) => OnlySyns(r.c.txq)
  /\ \A s \in r.out : "SYN" \in s.flags

\* csp_rdp_send_syn.
LEMMA SendSynFace ==
  ASSUME NEW c, ConnOK(c), NEW seg \in Segment, "SYN" \in seg.flags, NEW cloned, NEW ok
  PROVE Sends(c, SendSyn(c, seg, cloned, ok))
<1> DEFINE d == [c EXCEPT !.txq = TxQueued(@, seg)]
           r == SendSyn(c, seg, cloned, ok)
<1>1. ConnOK(d)
  BY TxQueuedType
<1>2. d.state = c.state /\ d.open = c.open /\ d.cur = c.cur /\ d.txq = TxQueued(c.txq, seg)
  BY DEF ConnOK, Conn
<1> HIDE DEF d
<1>3. \E b \in {c, d} : ConnOK(b) /\ r = SendCmp(b, seg, ok)
  BY <1>1 DEF SendSyn, d
<1>4. PICK b \in {c, d} : ConnOK(b) /\ r = SendCmp(b, seg, ok)
  BY <1>3
<1> HIDE DEF r
<1>5. Face(r.c) = Face(b) /\ r.out \subseteq {seg}
  BY <1>4, SendCmpFace
<1>6. \A s \in r.out : "SYN" \in s.flags
  BY <1>5
<1>7. OnlySyns(c.txq) => OnlySyns(d.txq)
  BY <1>2 DEF TxQueued, Segment, OnlySyns
<1>8. r.c.state = c.state /\ r.c.open = c.open /\ r.c.cur = c.cur /\ r.c.txq = b.txq
  BY <1>2, <1>5 DEF Face
<1> QED
  BY <1>6, <1>7, <1>8 DEF r, Sends

\* The SYN/ACK, which only a server sends.
LEMMA SendSynAckCalm ==
  ASSUME NEW c, ConnOK(c), c.open, c.state # "SYN_SENT", NEW cloned, NEW ok
  PROVE Calm(c, SendSynAck(c, cloned, ok).c)
<1> DEFINE synack == Cmp({"SYN", "ACK"}, c.iss, c.irs)
<1>1. synack \in Segment /\ "SYN" \in synack.flags
  BY CmpType DEF ConnOK, Conn, Cmp
<1> HIDE DEF synack
<1> DEFINE r == SendSyn(c, synack, cloned, ok)
<1>2. r.c.state = c.state /\ r.c.open = c.open
  <2>1. Sends(c, r)
    BY <1>1, SendSynFace
  <2> QED
    BY <2>1 DEF Sends
<1> HIDE DEF r
<1>3. Calm(c, r.c)
  BY <1>2 DEF Calm
<1> QED
  BY <1>3 DEF SendSynAck, synack, r

\* csp_rdp_close: the state changes, and a reset is sent.
LEMMA RdpCloseMute ==
  ASSUME NEW A, NEW c, ConnOK(c), NEW by \in SUBSET ClosedByAll, NEW rst, NEW ok
  PROVE LET r == RdpClose(c, by, rst, ok)
        IN Mute(A, c, r) /\ r.c.open = c.open /\ r.c.txq = c.txq /\ Shut(r.c)
<1> DEFINE entering == c.state # "CLOSE_WAIT"
           c1 == [c EXCEPT !.closedBy = ClosedBy(@, by), !.state = "CLOSE_WAIT",
                           !.sem = @ \/ entering]
           seg == Cmp({"ACK", "RST"}, c.nxt, c.cur)
           r == IF entering /\ rst THEN SendCmp(c1, seg, ok) ELSE Result(c1, {})
           z == [r.c EXCEPT !.state = "CLOSED", !.closedBy = {}]
           q == RdpClose(c, by, rst, ok)
<1>1. ConnOK(c1)
  BY DEF ClosedBy, ConnOK, Conn, RdpStates
<1>2. c1.open = c.open /\ c1.txq = c.txq /\ c1.cur = c.cur /\ c1.state = "CLOSE_WAIT"
  BY DEF ConnOK, Conn
<1>3. Vouches(A, seg) /\ seg \in Segment
  BY CmpVouches, CmpType DEF ConnOK, Conn
<1> HIDE DEF c1, seg
<1>4. Face(r.c) = Face(c1) /\ AllVouch(A, r.out) /\ ResultOK(r)
  BY <1>1, <1>3, SendCmpFace, SendCmpType, ResultType DEF Result, AllVouch
<1> HIDE DEF r
<1>5. /\ r.c.open = c.open /\ r.c.txq = c.txq /\ r.c.cur = c.cur
      /\ r.c.state = "CLOSE_WAIT"
  BY <1>2, <1>4 DEF Face
<1>6. z.open = c.open /\ z.txq = c.txq /\ z.cur = c.cur /\ z.state = "CLOSED"
  BY <1>4, <1>5 DEF ResultOK, ConnOK, Conn
<1> HIDE DEF z
<1>7. q = IF c.state = "CLOSED" THEN Result(c, {})
          ELSE IF ~Agreed(r.c.closedBy) THEN r ELSE Result(z, r.out)
  BY DEF RdpClose, r, z, c1, seg
<1>8. q \in {Result(c, {}), r, Result(z, r.out)}
  BY <1>7
<1> HIDE DEF q
<1>9. \/ q.c = c /\ q.out = {}
      \/ q.c \in {r.c, z} /\ q.out = r.out
  BY <1>8 DEF Result
<1>10. /\ q.c.open = c.open /\ q.c.txq = c.txq /\ q.c.cur = c.cur /\ AllVouch(A, q.out)
       /\ q.c.state \in {c.state, "CLOSE_WAIT", "CLOSED"}
  BY <1>4, <1>5, <1>6, <1>9 DEF AllVouch
<1>11. Mute(A, c, q)
  BY <1>10 DEF Mute, Calm
<1>12. Shut(q.c)
  BY <1>5, <1>6, <1>7 DEF Shut, Result
<1> QED
  BY <1>10, <1>11, <1>12 DEF q

\* csp_conn_close.
LEMMA ConnCloseMute ==
  ASSUME NEW A, NEW c, ConnOK(c), NEW by \in SUBSET ClosedByAll, NEW ok
  PROVE Mute(A, c, ConnClose(c, by, ok)) /\ (c.open => Shut(ConnClose(c, by, ok).c))
<1> DEFINE r == RdpClose(c, by, TRUE, ok)
           f == Released(r.c)
           q == ConnClose(c, by, ok)
<1>1. Mute(A, c, r) /\ ConnOK(r.c) /\ Shut(r.c)
  BY RdpCloseMute, RdpCloseType DEF ResultOK
<1>2. q = IF ~c.open THEN Result(c, {}) ELSE IF r.c.state # "CLOSED" THEN r
          ELSE Result(f, r.out)
  BY DEF ConnClose
<1> HIDE DEF r
<1>3. f.txq = {} /\ f.cur = r.c.cur /\ f.state = r.c.state
  BY <1>1 DEF Released, ConnOK, Conn
<1> HIDE DEF f, q
<1>4. ASSUME ~c.open PROVE Mute(A, c, q)
  BY <1>2, <1>4, StillMute
<1>5. ASSUME c.open, r.c.state # "CLOSED" PROVE Mute(A, c, q)
  BY <1>1, <1>2, <1>5
<1>6. ASSUME c.open, r.c.state = "CLOSED" PROVE Mute(A, c, q)
  <2>1. q.c = f /\ q.out = r.out
    BY <1>2, <1>6 DEF Result
  <2> QED
    BY <1>1, <1>3, <1>6, <2>1 DEF Mute, Calm
<1>7. Mute(A, c, q)
  BY <1>4, <1>5, <1>6
<1>8. c.open => Shut(q.c)
  BY <1>1, <1>2, <1>3 DEF Shut, Result
<1> QED
  BY <1>7, <1>8 DEF q

\* A packet for the user.
LEMMA EnqueueFace == ASSUME NEW c, ConnOK(c), NEW x PROVE Face(Enqueue(c, x)) = Face(c)
  BY DEF Enqueue, Face, ConnOK, Conn

\* The label discard_close.
LEMMA DiscardCloseMute ==
  ASSUME NEW A, NEW c, ConnOK(c), NEW by \in SUBSET ClosedByAll, NEW ok
  PROVE Mute(A, c, DiscardClose(c, by, ok)) /\ (c.open => Shut(DiscardClose(c, by, ok).c))
<1> DEFINE r == ConnClose(c, by, ok)
           all == by \cup {ByUser}
           d == Enqueue(r.c, Null)
<1>1. all \in SUBSET ClosedByAll
  BY DEF ClosedByAll
<1> HIDE DEF all
<1>2. /\ Mute(A, c, ConnClose(c, all, ok)) /\ Mute(A, c, r) /\ ConnOK(r.c)
      /\ c.open => Shut(ConnClose(c, all, ok).c) /\ Shut(r.c)
  BY <1>1, ConnCloseMute, ConnCloseType DEF ResultOK
<1> HIDE DEF r
<1>3. Face(d) = Face(r.c)
  BY <1>2, EnqueueFace
<1> HIDE DEF d
<1>4. Mute(A, r.c, Result(d, {}))
  BY <1>3, StillMute
<1>5. Mute(A, c, Result(d, r.out))
  <2>1. Mute(A, c, Result(Result(d, {}).c, r.out \cup Result(d, {}).out))
    BY <1>2, <1>4, MuteMute
  <2> QED
    BY <2>1 DEF Result
<1>6. c.open => Shut(d)
  BY <1>2, <1>3 DEF Shut, Face
<1>7. DiscardClose(c, by, ok) \in {ConnClose(c, all, ok), Result(d, r.out)}
  BY DEF DiscardClose, r, all, d
<1> QED
  BY <1>2, <1>5, <1>6, <1>7 DEF Result

\* csp_connect gives up.
LEMMA GivenUpMute ==
  ASSUME NEW A, NEW c, ConnOK(c), NEW ok
  PROVE Mute(A, c, ConnClose(RdpClose(c, {ByProtocol}, FALSE, ok).c, {ByUser}, ok))
<1> DEFINE q == RdpClose(c, {ByProtocol}, FALSE, ok)
<1>1. Mute(A, c, q) /\ ConnOK(q.c)
  BY ClosersType, RdpCloseMute, RdpCloseType DEF ResultOK
<1> HIDE DEF q
<1>2. Mute(A, q.c, ConnClose(q.c, {ByUser}, ok))
  BY <1>1, ClosersType, ConnCloseMute
<1>3. Mute(A, c, ConnClose(q.c, {ByUser}, ok))
  BY <1>1, <1>2, MuteMute
<1> QED
  BY <1>3 DEF q

\* What is sent again by csp_rdp_check_timeouts are SYNs, or acknowledges
\* rcv_cur.
LEMMA RetransmittedSpeaks ==
  ASSUME NEW A, NEW c, ConnOK(c), NEW expired \in SUBSET Unacked(c), NEW due, NEW ok
  PROVE LET r == Retransmitted(c, expired, due, ok)
        IN /\ Speaks(A, c, r)
           /\ c.state # "OPEN" /\ OnlySyns(c.txq) => Mute(A, c, r)
<1> DEFINE c1 == [c EXCEPT !.txq = Unacked(c)]
           again == IF ok THEN {[x.seg EXCEPT !.ack = c.cur] : x \in expired} ELSE {}
           r == IF DelayedAcks THEN CheckAck(c1, due, ok) ELSE Result(c1, {})
           d == [r.c EXCEPT !.sem = @ \/ ReadyForTx(c)]
           q == Retransmitted(c, expired, due, ok)
<1>1. Unacked(c) \subseteq c.txq /\ IsFiniteSet(Unacked(c))
  BY FS_Subset DEF Unacked, ConnOK
<1>2. ConnOK(c1)
  BY <1>1 DEF ConnOK, Conn
<1>3. c1.txq = Unacked(c) /\ c1.state = c.state /\ c1.cur = c.cur /\ c1.open = c.open
  BY DEF ConnOK, Conn
<1>4. \A x \in expired : x \in c.txq /\ x.seg \in Segment
  BY <1>1 DEF ConnOK, Conn
<1>5. \A t \in again : \E x \in c.txq : t.ack = c.cur /\ t.flags = x.seg.flags
  <2>1. \A x \in expired : LET t == [x.seg EXCEPT !.ack = c.cur]
                           IN t.ack = c.cur /\ t.flags = x.seg.flags
    BY <1>4 DEF Segment
  <2> QED
    BY <1>4, <2>1
<1> HIDE DEF c1, again
<1>6. Speaks(A, c1, r) /\ ResultOK(r)
  BY <1>2, CheckAckSpeaks, CheckAckType, ResultType, StillMute, MuteSpeaks
<1> HIDE DEF r
<1>7. Face(d) = Face(r.c)
  BY <1>6 DEF ResultOK, ConnOK, Conn, Face
<1> HIDE DEF d
<1>8. q = IF c.state # "OPEN" THEN Result(c1, again) ELSE Result(d, again \cup r.out)
  BY DEF Retransmitted, c1, again, r, d
<1> HIDE DEF q
<1>9. Calm(c, c1) /\ Calm(c, d)
  <2>1. Calm(c, c1)
    BY <1>1, <1>3 DEF Calm
  <2>2. Calm(c1, d)
    BY <1>6, <1>7 DEF Speaks, Calm, Face
  <2> QED
    BY <2>1, <2>2, CalmCalm
<1>10. Vouched(A, c.cur) => AllVouch(A, again) /\ AllVouch(A, r.out) /\ Vouched(A, d.cur)
  BY <1>3, <1>5, <1>6, <1>7 DEF AllVouch, Vouches, Speaks, Face
<1>11. OnlySyns(c.txq) => AllVouch(A, again)
  BY <1>5 DEF OnlySyns, AllVouch, Vouches, PlainAck
<1>12. CASE c.state # "OPEN"
  <2>1. q.c = c1 /\ q.out = again
    BY <1>8, <1>12 DEF Result
  <2>2. Speaks(A, c, q) /\ (OnlySyns(c.txq) => Mute(A, c, q))
    BY <1>3, <1>9, <1>10, <1>11, <2>1 DEF Speaks, Mute
  <2> QED
    BY <2>2 DEF q
<1>13. CASE c.state = "OPEN"
  <2>1. q.c = d /\ q.out = again \cup r.out
    BY <1>8, <1>13 DEF Result
  <2>2. Speaks(A, c, q)
    BY <1>9, <1>10, <2>1 DEF Speaks, AllVouch
  <2> QED
    BY <1>13, <2>2 DEF q
<1> QED
  BY <1>12, <1>13
\* csp_rdp_new_packet for an open connection: rcv_cur may move to a message.
LEMMA HandleDataSpeaks ==
  ASSUME NEW A, NEW c0, ConnOK(c0), c0.open, c0.state = "OPEN", NEW p \in Segment,
         p.data # NoData => Vouched(A, p.seq), NEW due, NEW ok
  PROVE Speaks(A, c0, HandleData(c0, p, due, ok))
<1> DEFINE c == [c0 EXCEPT !.una = Plus(p.ack, 1)]
           stored == [c EXCEPT !.rxq = @ \cup {[seq |-> p.seq, data |-> p.data]}]
           flushed == FlushEack(c, p.eacks)
           taken == Taken(c, p)
           q == HandleData(c0, p, due, ok)
<1>1. /\ p.seq \in SeqNr /\ p.ack \in SeqNr /\ p.data \in Payload
      /\ Plus(p.ack, 1) \in SeqNr
  BY PlusType DEF Segment, SeqNr
<1>2. ConnOK(c) /\ c.cur = c0.cur
  BY <1>1 DEF ConnOK, Conn
<1> HIDE DEF c
<1>3. ConnOK(stored) /\ stored.cur = c.cur
  <2>1. [seq |-> p.seq, data |-> p.data] \in [seq : SeqNr, data : Payload]
    BY <1>1
  <2>2. c.rxq \cup {[seq |-> p.seq, data |-> p.data]} \in SUBSET [seq : SeqNr, data : Payload]
    BY <2>1, <1>2 DEF ConnOK, Conn
  <2> QED
    BY <2>2, <1>2 DEF ConnOK, Conn
<1>4. ConnOK(taken) /\ taken.cur = p.seq
  <2>1. ConnOK(Enqueue(c, p.data))
    BY <1>1, <1>2, EnqueueType
  <2> QED
    BY <1>1, <2>1 DEF Taken, ConnOK, Conn
<1>5. flushed.cur = c.cur
  BY <1>2 DEF FlushEack, ConnOK, Conn
<1> HIDE DEF stored, flushed, taken
<1>6. Speaks(A, stored, SendEack(stored, ok))
  BY <1>3, SendEackSpeaks
<1>7. Speaks(A, c, CheckAck(c, due, ok)) /\ Speaks(A, taken, CheckAck(taken, due, ok))
  BY <1>2, <1>4, CheckAckSpeaks
<1>8. \/ q = Result(flushed, {}) \/ q = Result(c, {})
      \/ q = SendEack(stored, ok) \/ q = CheckAck(c, due, ok)
      \/ p.data # NoData /\ q = CheckAck(taken, due, ok)
  BY DEF HandleData, c, stored, flushed, taken
<1>9. Slot(q.c) = Slot(c0)
  BY HandleDataSlot
<1> HIDE DEF q
<1>10. Calm(c0, q.c)
  BY <1>9 DEF Slot, Calm
<1>11. ASSUME Vouched(A, c0.cur) PROVE Vouched(A, q.c.cur) /\ AllVouch(A, q.out)
  <2>1. CASE q = Result(flushed, {}) \/ q = Result(c, {})
    <3>1. q.c \in {flushed, c} /\ q.out = {}
      BY <2>1 DEF Result
    <3> QED
      BY <1>2, <1>5, <1>11, <3>1 DEF AllVouch
  <2>2. CASE q = SendEack(stored, ok) \/ q = CheckAck(c, due, ok)
    BY <1>2, <1>3, <1>6, <1>7, <1>11, <2>2 DEF Speaks
  <2>3. CASE p.data # NoData /\ q = CheckAck(taken, due, ok)
    BY <1>4, <1>7, <2>3 DEF Speaks
  <2> QED
    BY <1>8, <2>1, <2>2, <2>3
<1>12. Speaks(A, c0, q)
  BY <1>10, <1>11 DEF Speaks
<1> QED
  BY <1>12 DEF q

----------------------------------------------------------------------------
\* Each action keeps GhostInv.

\* Sets of connections of the server are finite.
LEMMA StartsFinite ==
  ASSUME NEW A, A \subseteq 1..Len(IssOf[Server])
  PROVE IsFiniteSet(A) /\ Cardinality(A) \in Nat
<1>1. Len(IssOf[Server]) \in Nat
  BY IssType DEF Endpoint
<1> DEFINE S == 1..Len(IssOf[Server])
<1>2. IsFiniteSet(S)
  BY <1>1, FS_Interval
<1>3. A \in SUBSET S
  OBVIOUS
<1> HIDE DEF S
<1>4. IsFiniteSet(A)
  BY <1>2, <1>3, FS_Subset
<1> QED
  BY <1>4, FS_CardinalityType

\* An endpoint gets a connection that it has not begun, and sends.
LEMMA GhostStep ==
  ASSUME TypeOK, NEW A, NEW D, GhostOK(A, D), NEW e \in Endpoint, NEW r,
         conn' = [conn EXCEPT ![e] = r.c], NewFrom(e, r.out), Calm(conn[e], r.c),
         e = Client => AllVouch(A, r.out) /\ (Vouched(A, conn[e].cur) => Vouched(A, r.c.cur)),
         user'[Client] \in Talking => user[Client] \in Talking \/ conn[Client].state = "OPEN",
         Vouches(A, hand'[Client]), UNCHANGED <<picks, backlog, accepts>>
  PROVE GhostInv'
<1>1. Client # Server /\ Client \in Endpoint /\ Server \in Endpoint /\ Peer(Server) = Client
  BY DEF Client, Server, Endpoint, Peer
<1>2. conn'[e] = r.c /\ \A f \in Endpoint \ {e} : conn'[f] = conn[f]
  BY DEF TypeOK
<1>3. \A m \in net' : m.to = Server => Vouches(A, m.seg)
  <2> SUFFICES ASSUME NEW m \in net', m.to = Server PROVE Vouches(A, m.seg)
    OBVIOUS
  <2>1. CASE m \in net
    BY <2>1 DEF GhostOK, ClientSide, ServerSide
  <2>2. CASE \E s \in r.out : m = [to |-> Peer(e), seg |-> s]
    BY <1>1, <2>2 DEF AllVouch, Endpoint
  <2> QED
    BY <2>1, <2>2 DEF NewFrom
<1>4. ClientOK(A, conn'[Client], user'[Client])
  <2>1. ClientOK(A, conn[Client], user[Client])
    BY DEF GhostOK, ClientSide, ServerSide
  <2>2. CASE e = Client
    BY <1>2, <2>1, <2>2 DEF ClientOK, Calm, OnlySyns
  <2>3. CASE e # Client
    BY <1>1, <1>2, <2>1, <2>3 DEF ClientOK
  <2> QED
    BY <2>2, <2>3
<1>5. conn'[Client].state = "SYN_SENT" => conn[Client].state = "SYN_SENT"
  BY <1>1, <1>2 DEF Calm
<1>6. conn'[Server].state = "SYN_RCVD" => picks[Server] \notin D
  BY <1>1, <1>2 DEF Calm, GhostOK, ClientSide, ServerSide
<1>7. Cardinality(A) + One(conn'[Client].state = "SYN_SENT") <= picks[Client]
  <2>1. Cardinality(A) + One(conn[Client].state = "SYN_SENT") <= picks[Client]
    BY DEF GhostOK, ClientSide, ServerSide
  <2>2. Cardinality(A) \in Nat /\ picks[Client] \in Nat
    BY <1>1, StartsFinite DEF GhostOK, ClientSide, ServerSide, TypeOK
  <2> QED
    BY <1>5, <2>1, <2>2 DEF One
<1>8. GhostOK(A, D)'
  BY <1>3, <1>4, <1>6, <1>7 DEF GhostOK, ClientSide, ServerSide
<1> QED
  BY <1>8 DEF GhostInv

\* What arrives at the client arrives at its connection, and an answer that is
\* calm towards the target is so towards the connection.
LEMMA ArrivesCalm ==
  ASSUME TypeOK, SlotInv, NEW e \in Endpoint, NEW p, Arrives(e, p), NEW d, Calm(Target(e), d)
  PROVE Calm(conn[e], d)
<1>1. Target(e).open /\ conn[e] \in Conn
  BY ArrivesSlot DEF TypeOK
<1>2. Target(e).state = conn[e].state /\ Target(e).txq = conn[e].txq
  BY <1>1 DEF Target, NewConn, Conn
<1> QED
  BY <1>1, <1>2 DEF Calm

\* The client is never in the state of a server.
LEMMA ArrivesClient ==
  ASSUME NEW A, NEW D, GhostOK(A, D), NEW p, Arrives(Client, p)
  PROVE Target(Client) = conn[Client] /\ Target(Client).state # "SYN_RCVD"
  BY DEF Arrives, Target, Client, Server, GhostOK, ClientSide, ServerSide, ClientOK

\* A handler of csp_rdp_new_packet.
LEMMA GhostHandler ==
  ASSUME TypeOK, SlotInv, NEW A, NEW D, GhostOK(A, D), NEW e \in Endpoint, NEW p, NEW r,
         NEW ok, NEW next, HandledThen(e, p, r, ok, next), Quiet, Arrives(e, p),
         Calm(Target(e), r.c),
         e = Client => \/ Mute(A, Target(e), r)
                       \/ Target(e).state = "OPEN" /\ Speaks(A, Target(e), r)
  PROVE GhostInv'
<1>1. NewFrom(e, r.out)
  BY TransmitData DEF HandledThen
<1>2. e = Client => Target(e) = conn[e]
  BY DEF Arrives, Target, Client, Server
<1>3. e = Client => AllVouch(A, r.out) /\ (Vouched(A, conn[e].cur) => Vouched(A, r.c.cur))
  <2> SUFFICES ASSUME e = Client
               PROVE AllVouch(A, r.out) /\ (Vouched(A, conn[e].cur) => Vouched(A, r.c.cur))
    OBVIOUS
  <2>1. conn[Client].state = "OPEN" => Vouched(A, conn[Client].cur)
    BY DEF GhostOK, ClientSide, ServerSide, ClientOK
  <2> QED
    BY <1>2, <2>1 DEF Mute, Speaks
<1>4. Vouches(A, hand'[Client]) /\ user' = user
  BY DEF HandledThen, GhostOK, ClientSide, ServerSide
<1>5. UNCHANGED <<picks, backlog, accepts>>
  BY DEF Quiet, histVars
<1> QED
  BY <1>1, <1>3, <1>4, <1>5, ArrivesCalm, GhostStep DEF HandledThen

\* One that acknowledges nothing.
LEMMA GhostMute ==
  ASSUME TypeOK, SlotInv, NEW A, NEW D, GhostOK(A, D), NEW e \in Endpoint, NEW p, NEW r,
         NEW ok, NEW next, HandledThen(e, p, r, ok, next), Quiet, Arrives(e, p),
         Mute(A, Target(e), r)
  PROVE GhostInv'
  BY GhostHandler DEF Mute

\* The handlers of a reset.
LEMMA RstGhost ==
  ASSUME TypeOK, SlotInv, NEW A, NEW D, GhostOK(A, D), NEW e \in Endpoint, NEW p,
         \/ RstInClosed(e, p) \/ RstInCloseWait(e, p)
         \/ RstInSequence(e, p) \/ RstOutOfSequence(e, p)
  PROVE GhostInv'
<1> DEFINE b == Target(e)
           c == AckOfRst(b, p)
<1>1. Arrives(e, p) /\ Quiet
  BY DEF RstInClosed, RstInCloseWait, RstInSequence, RstOutOfSequence
<1>2. ConnOK(b) /\ ConnOK(c)
  BY <1>1, ArrivesType, AckOfRstType
<1>3. Face(c) = Face(b)
  BY <1>2 DEF AckOfRst, Face, ConnOK, Conn
<1> HIDE DEF c
<1>4. Mute(A, b, Result(c, {})) /\ Result(c, {}).c = c
  BY <1>3, StillMute DEF Result
<1> DEFINE q == Result(c, {})
<1>5. ASSUME NEW r, Mute(A, c, r) PROVE Mute(A, b, r)
  <2>1. Mute(A, b, q) /\ Mute(A, q.c, r)
    BY <1>4, <1>5
  <2> HIDE DEF q
  <2> QED
    BY <2>1, MuteMute
<1>6. ASSUME NEW by \in SUBSET ClosedByAll, NEW ok
      PROVE Mute(A, b, ConnClose(c, by, ok)) /\ Mute(A, b, DiscardClose(c, by, ok))
  BY <1>2, <1>5, ConnCloseMute, DiscardCloseMute
<1>7. CASE RstInClosed(e, p)
  <2> DEFINE r == IF c.socket THEN ConnClose(c, {ByUser}, TRUE) ELSE Result(c, {})
  <2>1. HandledThen(e, p, r, TRUE, "idle")
    BY <1>7 DEF RstInClosed, Handled, c
  <2>2. Mute(A, b, r)
    BY <1>4, <1>6, ClosersType
  <2> HIDE DEF r
  <2> QED
    BY <1>1, <2>1, <2>2, GhostMute
<1>8. CASE RstInCloseWait(e, p)
  <2> DEFINE by == IF FastClose /\ "ACK" \in p.flags THEN {ByProtocol, ByTimeout} ELSE {ByProtocol}
             r == DiscardClose(c, by, TRUE)
  <2>1. by \in SUBSET ClosedByAll
    BY ClosersType
  <2>2. HandledThen(e, p, r, TRUE, "idle")
    BY <1>8 DEF RstInCloseWait, Handled, c
  <2> HIDE DEF by
  <2>3. Mute(A, b, r)
    BY <1>6, <2>1
  <2> HIDE DEF r
  <2> QED
    BY <1>1, <2>2, <2>3, GhostMute
<1>9. CASE RstInSequence(e, p)
  <2> DEFINE w == [c EXCEPT !.state = "CLOSE_WAIT"]
             seg == Cmp({"ACK", "RST"}, w.nxt, w.cur)
             r(ok) == SendCmp(w, seg, ok)
             by == IF FastClose THEN {ByProtocol, ByTimeout} ELSE {ByProtocol}
             d(ok) == DiscardClose(r(ok).c, by, ok)
             s(ok) == Result(d(ok).c, r(ok).out \cup d(ok).out)
  <2>1. PICK ok \in BOOLEAN : HandledThen(e, p, s(ok), ok, "idle")
    BY <1>9 DEF RstInSequence, Handled, c
  <2>2. ConnOK(w) /\ w.state = "CLOSE_WAIT" /\ w.cur = c.cur /\ w.txq = c.txq /\ w.open = c.open
    BY <1>2 DEF ConnOK, Conn, RdpStates
  <2>3. by \in SUBSET ClosedByAll
    BY ClosersType
  <2>4. Vouches(A, seg) /\ seg \in Segment
    BY <2>2, CmpVouches, CmpType DEF ConnOK, Conn
  <2> HIDE DEF w, by, seg
  <2>5. Mute(A, b, Result(w, {})) /\ Result(w, {}).c = w
    BY <1>3, <2>2 DEF Mute, Calm, Face, Result, AllVouch
  <2>6. Mute(A, w, r(ok)) /\ ConnOK(r(ok).c)
    BY <2>2, <2>4, SendMute, SendCmpType DEF ResultOK
  <2> HIDE DEF r
  <2>7. Mute(A, b, r(ok))
    BY <2>5, <2>6, MuteMute
  <2>8. Mute(A, r(ok).c, d(ok))
    BY <2>3, <2>6, DiscardCloseMute
  <2> HIDE DEF d
  <2>9. Mute(A, b, s(ok))
    BY <2>7, <2>8, MuteMute
  <2> HIDE DEF s
  <2> QED
    BY <1>1, <2>1, <2>9, GhostMute
<1>10. CASE RstOutOfSequence(e, p)
  <2>1. HandledThen(e, p, Result(c, {}), TRUE, "idle")
    BY <1>10 DEF RstOutOfSequence, Handled, c
  <2> QED
    BY <1>1, <1>4, <2>1, GhostMute
<1> QED
  BY <1>7, <1>8, <1>9, <1>10

\* The handlers that leave the connection as it is, or answer with its numbers.
LEMMA AnswerGhost ==
  ASSUME TypeOK, SlotInv, NEW A, NEW D, GhostOK(A, D), NEW e \in Endpoint, NEW p,
         \/ DropUnknown(e, p) \/ DuplicateSyn(e, p) \/ InvalidAck(e, p)
         \/ IgnoredInCloseWait(e, p) \/ OutOfWindow(e, p) \/ HalfOpen(e, p)
         \/ AckInCloseWait(e, p)
  PROVE GhostInv'
<1>1. Quiet
  BY DEF DropUnknown, DuplicateSyn, InvalidAck, IgnoredInCloseWait, OutOfWindow,
         HalfOpen, AckInCloseWait
<1>2. ASSUME Arrives(e, p) PROVE p \in Segment /\ ConnOK(Target(e))
  BY <1>2, ArrivesType
<1> DEFINE b == Target(e)
<1>3. CASE DropUnknown(e, p)
  <2> DEFINE r == Result(conn[e], {})
  <2>1. HandledThen(e, p, r, TRUE, "idle")
    BY <1>3 DEF DropUnknown, Handled
  <2>2. Mute(A, conn[e], r)
    BY StillMute
  <2> HIDE DEF r
  <2>3. conn' = [conn EXCEPT ![e] = r.c] /\ NewFrom(e, r.out) /\ user' = user /\ hand' = hand
    BY <2>1, TransmitData DEF HandledThen
  <2>4. UNCHANGED <<picks, backlog, accepts>> /\ Vouches(A, hand'[Client])
    BY <1>1, <2>3 DEF Quiet, histVars, GhostOK, ClientSide, ServerSide
  <2> QED
    BY <2>2, <2>3, <2>4, GhostStep DEF Mute
<1>4. CASE DuplicateSyn(e, p) \/ InvalidAck(e, p) \/ IgnoredInCloseWait(e, p)
  <2>1. HandledThen(e, p, Result(b, {}), TRUE, "idle") /\ Arrives(e, p)
    BY <1>4 DEF DuplicateSyn, InvalidAck, IgnoredInCloseWait, Receives, Acceptable, Handled
  <2> QED
    BY <1>1, <2>1, StillMute, GhostMute
<1>5. CASE OutOfWindow(e, p)
  <2> DEFINE r(ok, cloned) == IF b.state = "SYN_RCVD" THEN SendSynAck(b, cloned, ok)
                              ELSE SendEack(b, ok)
  <2>1. PICK ok \in BOOLEAN, cloned \in BOOLEAN : HandledThen(e, p, r(ok, cloned), ok, "idle")
    BY <1>5 DEF OutOfWindow, Handled
  <2>2. Arrives(e, p) /\ b.state \in {"SYN_RCVD", "OPEN"}
    BY <1>5 DEF OutOfWindow, Receives
  <2>3. ConnOK(b) /\ b.open
    BY <1>2, <2>2, ArrivesSlot
  <2>4. e = Client => b.state = "OPEN"
    BY <2>2, ArrivesClient
  <2>5. Calm(b, SendSynAck(b, cloned, ok).c) \/ b.state # "SYN_RCVD"
    BY <2>3, SendSynAckCalm
  <2>6. Speaks(A, b, SendEack(b, ok))
    BY <2>3, SendEackSpeaks
  <2>7. Calm(b, r(ok, cloned).c) /\ (b.state = "OPEN" => Speaks(A, b, r(ok, cloned)))
    BY <2>5, <2>6 DEF Speaks
  <2> HIDE DEF r
  <2> QED
    BY <1>1, <2>1, <2>2, <2>4, <2>7, GhostHandler
<1>6. CASE HalfOpen(e, p)
  <2> DEFINE c == [b EXCEPT !.sem = TRUE]
             seg == Cmp({"RST"}, c.nxt, c.cur)
             r(ok) == SendCmp(c, seg, ok)
  <2>1. PICK ok \in BOOLEAN : HandledThen(e, p, r(ok), ok, "idle")
    BY <1>6 DEF HalfOpen, Handled
  <2>2. ConnOK(c) /\ Face(c) = Face(b) /\ Arrives(e, p)
    BY <1>2, <1>6 DEF HalfOpen, Receives, ConnOK, Conn, Face
  <2>3. Vouches(A, seg)
    BY CmpVouches
  <2> HIDE DEF c, seg
  <2>4. Mute(A, c, r(ok))
    BY <2>2, <2>3, SendMute
  <2> HIDE DEF r
  <2>5. Mute(A, b, r(ok))
    BY <2>2, <2>4, FaceMute
  <2> QED
    BY <1>1, <2>1, <2>2, <2>5, GhostMute
<1>7. CASE AckInCloseWait(e, p)
  <2> DEFINE c == [b EXCEPT !.una = Plus(p.ack, 1)]
             seg == Cmp({"ACK", "RST"}, c.nxt, c.cur)
             r(ok) == SendCmp(c, seg, ok)
  <2>1. PICK ok \in BOOLEAN : HandledThen(e, p, r(ok), ok, "idle")
    BY <1>7 DEF AckInCloseWait, Handled
  <2>2. Arrives(e, p) /\ p \in Segment /\ ConnOK(b)
    BY <1>2, <1>7 DEF AckInCloseWait, Receives
  <2>3. Plus(p.ack, 1) \in SeqNr
    BY <2>2, PlusType DEF Segment, SeqNr
  <2>4. ConnOK(c) /\ Face(c) = Face(b)
    BY <2>2, <2>3 DEF ConnOK, Conn, Face
  <2>5. Vouches(A, seg)
    BY CmpVouches
  <2> HIDE DEF c, seg
  <2>6. Mute(A, c, r(ok))
    BY <2>4, <2>5, SendMute
  <2> HIDE DEF r
  <2>7. Mute(A, b, r(ok))
    BY <2>4, <2>6, FaceMute
  <2> QED
    BY <1>1, <2>1, <2>2, <2>7, GhostMute
<1> QED
  BY <1>3, <1>4, <1>5, <1>6, <1>7

\* The handlers that close the connection.
LEMMA DiscardGhost ==
  ASSUME TypeOK, SlotInv, NEW A, NEW D, GhostOK(A, D), NEW e \in Endpoint, NEW p,
         \/ InvalidSyn(e, p) \/ WrongAckInSynRcvd(e, p) \/ BacklogFull(e, p)
         \/ NoSynInClosed(e, p)
  PROVE GhostInv'
<1> DEFINE b == Target(e)
<1>1. Arrives(e, p) /\ Quiet
  BY DEF InvalidSyn, WrongAckInSynRcvd, BacklogFull, NoSynInClosed, Acceptable, Receives
<1>2. ConnOK(b) /\ b.open
  BY <1>1, ArrivesType, ArrivesSlot
<1>3. CASE InvalidSyn(e, p) \/ WrongAckInSynRcvd(e, p)
  <2>1. PICK ok \in BOOLEAN :
          HandledThen(e, p, DiscardClose(b, {ByProtocol}, ok), ok, "idle")
    BY <1>3 DEF InvalidSyn, WrongAckInSynRcvd, Handled
  <2>2. Mute(A, b, DiscardClose(b, {ByProtocol}, ok))
    BY <1>2, ClosersType, DiscardCloseMute
  <2> QED
    BY <1>1, <2>1, <2>2, GhostMute
<1>4. CASE BacklogFull(e, p)
  <2> DEFINE c == [b EXCEPT !.state = "OPEN"]
             r(ok) == DiscardClose(c, {ByProtocol}, ok)
  <2>1. /\ b.state = "SYN_RCVD" /\ b.socket
        /\ \E ok \in BOOLEAN : HandledThen(e, p, r(ok), FALSE, "idle")
    BY <1>4 DEF BacklogFull, Acceptable, Receives, Handled
  <2>2. e # Client
    BY <1>1, <2>1, ArrivesClient
  <2>3. ConnOK(c) /\ c.open /\ c.state = "OPEN"
    BY <1>2 DEF ConnOK, Conn, RdpStates
  <2> HIDE DEF c
  <2>4. PICK ok \in BOOLEAN : HandledThen(e, p, r(ok), FALSE, "idle")
    BY <2>1
  <2>5. r(ok).c.state \notin {"OPEN", "SYN_SENT", "SYN_RCVD"} /\ (r(ok).c.open \/ r(ok).c.txq = {})
    <3>1. Mute(A, c, r(ok))
      BY <2>3, ClosersType, DiscardCloseMute
    <3>2. Shut(r(ok).c)
      BY <2>3, ClosersType, DiscardCloseMute
    <3> QED
      BY <2>3, <3>1, <3>2 DEF Mute, Calm, Shut
  <2> HIDE DEF r
  <2>6. Calm(b, r(ok).c)
    BY <2>5 DEF Calm
  <2> QED
    BY <1>1, <2>2, <2>4, <2>6, GhostHandler
<1>5. CASE NoSynInClosed(e, p)
  <2> DEFINE seg == Cmp({"RST"}, b.nxt, b.cur)
             r(ok) == SendCmp(b, seg, ok)
             d(ok) == DiscardClose(r(ok).c, {ByProtocol}, ok)
             s(ok) == Result(d(ok).c, r(ok).out \cup d(ok).out)
  <2>1. PICK ok \in BOOLEAN : HandledThen(e, p, s(ok), ok, "idle")
    BY <1>5 DEF NoSynInClosed, Handled
  <2>2. Vouches(A, seg) /\ seg \in Segment
    BY <1>2, CmpVouches, CmpType DEF ConnOK, Conn
  <2> HIDE DEF seg
  <2>3. Mute(A, b, r(ok)) /\ ConnOK(r(ok).c)
    BY <1>2, <2>2, SendMute, SendCmpType DEF ResultOK
  <2> HIDE DEF r
  <2>4. Mute(A, r(ok).c, d(ok))
    BY <2>3, ClosersType, DiscardCloseMute
  <2> HIDE DEF d
  <2>5. Mute(A, b, s(ok))
    BY <2>3, <2>4, MuteMute
  <2> HIDE DEF s
  <2> QED
    BY <1>1, <2>1, <2>5, GhostMute
<1> QED
  BY <1>3, <1>4, <1>5

\* What the server does, the client's side does not see.
LEMMA ClientKept ==
  ASSUME TypeOK, NEW A, ClientSide(A), NEW r, conn' = [conn EXCEPT ![Server] = r.c],
         NewFrom(Server, r.out), UNCHANGED <<user, hand>>, picks'[Client] = picks[Client]
  PROVE ClientSide(A)'
<1>1. Client # Server /\ Client \in Endpoint /\ Peer(Server) = Client
  BY DEF Client, Server, Endpoint, Peer
<1>2. conn'[Client] = conn[Client]
  BY <1>1 DEF TypeOK
<1>3. \A m \in net' : m.to = Server => m \in net
  BY <1>1 DEF NewFrom
<1> QED
  BY <1>2, <1>3 DEF ClientSide

\* What the client does, the server's side does not see.
LEMMA ServerKept ==
  ASSUME TypeOK, NEW D, ServerSide(D), NEW d, conn' = [conn EXCEPT ![Client] = d],
         picks'[Server] = picks[Server], UNCHANGED <<backlog, accepts>>
  PROVE ServerSide(D)'
<1>1. Client # Server /\ Server \in Endpoint
  BY DEF Client, Server, Endpoint
<1>2. conn'[Server] = conn[Server]
  BY <1>1 DEF TypeOK
<1> QED
  BY <1>2 DEF ServerSide

\* A SYN draws an initial sequence number that no handshake has used.
LEMMA SynInClosedGhost ==
  ASSUME TypeOK, SlotInv, NEW A, NEW D, GhostOK(A, D), NEW e \in Endpoint, NEW p,
         SynInClosed(e, p)
  PROVE GhostInv'
<1> DEFINE b == Target(e)
           c == [b EXCEPT !.iss = Pick(e), !.nxt = Plus(Pick(e), 1), !.una = Pick(e),
                          !.cur = p.seq, !.irs = p.seq, !.lsa = p.seq,
                          !.state = "SYN_RCVD"]
           r(ok, cloned) == SendSynAck(c, cloned, ok)
<1>1. PICK ok \in BOOLEAN, cloned \in BOOLEAN : HandledThen(e, p, r(ok, cloned), ok, "idle")
  BY DEF SynInClosed, Handled
<1>2. Arrives(e, p) /\ b.state = "CLOSED"
  BY DEF SynInClosed, Receives
<1>3. e = Server
  BY <1>2, ArrivesSlot
<1> HIDE DEF r
<1>4. /\ conn' = [conn EXCEPT ![Server] = r(ok, cloned).c] /\ NewFrom(Server, r(ok, cloned).out)
      /\ UNCHANGED <<user, hand, backlog, accepts>>
  BY <1>1, <1>3, TransmitData DEF HandledThen, SynInClosed
<1>5. /\ picks'[Client] = picks[Client] /\ picks'[Server] = picks[Server] + 1
      /\ picks[Server] \in Nat
  <2>1. picks' = [picks EXCEPT ![Server] = @ + 1]
    BY <1>3 DEF SynInClosed
  <2>2. picks \in [Endpoint -> Nat] /\ Client \in Endpoint /\ Server \in Endpoint /\ Client # Server
    BY DEF TypeOK, Endpoint, Client, Server
  <2> QED
    BY <2>1, <2>2
<1>6. ClientSide(A)'
  BY <1>4, <1>5, ClientKept DEF GhostOK
<1>7. ServerSide(D)'
  BY <1>4, <1>5 DEF GhostOK, ServerSide
<1>8. GhostOK(A, D)'
  BY <1>6, <1>7 DEF GhostOK
<1> QED
  BY <1>8 DEF GhostInv

\* No acknowledgement of a message can be taken for one of a new connection.
LEMMA MessageVouched ==
  ASSUME StartsApart, NEW A, NEW p, Numbered(Server, p) PROVE Vouched(A, p.seq)
<1>1. PICK l \in 1..Len(IssOf[Server]), n \in 1..MsgLimit[Server] :
        p.seq = Plus(IssOf[Server][l], n)
  BY DEF Numbered
<1>2. MsgLimit[Server] \in Nat
  BY IssType DEF Endpoint
<1>3. n \in 0..MsgLimit[Server] /\ n # 0
  BY <1>2
<1>4. \A k \in 1..Len(IssOf[Server]) : IssOf[Server][k] # Plus(IssOf[Server][l], n)
  BY <1>3 DEF StartsApart
<1> QED
  BY <1>1, <1>4 DEF Vouched

\* An initial sequence number is vouched for by its one connection.
LEMMA StartVouched ==
  ASSUME StartsApart, NEW A, NEW l \in 1..Len(IssOf[Server]) PROVE
    Vouched(A \cup {l}, IssOf[Server][l])
<1>1. MsgLimit[Server] \in Nat /\ \A k \in 1..Len(IssOf[Server]) : IssOf[Server][k] \in SeqNr
  BY IssType DEF Endpoint
<1>2. IssOf[Server][l] = Plus(IssOf[Server][l], 0)
  BY <1>1, PlusZero
<1>3. 0 \in 0..MsgLimit[Server]
  BY <1>1
<1> QED
  BY <1>2, <1>3 DEF StartsApart, Vouched

\* The server's connection is not one of SYN_RCVD any more.
LEMMA ServerMoves ==
  ASSUME TypeOK, NEW A, NEW D, GhostOK(A, D), NEW r, conn' = [conn EXCEPT ![Server] = r.c],
         NewFrom(Server, r.out), UNCHANGED <<user, hand, picks, backlog, accepts>>,
         r.c.state # "SYN_RCVD"
  PROVE GhostInv'
<1>1. Server \in Endpoint
  BY DEF Endpoint
<1>2. conn'[Server] = r.c
  BY <1>1 DEF TypeOK
<1>3. ClientSide(A)'
  BY ClientKept DEF GhostOK
<1>4. ServerSide(D)'
  BY <1>2 DEF GhostOK, ServerSide
<1>5. GhostOK(A, D)'
  BY <1>3, <1>4 DEF GhostOK
<1> QED
  BY <1>5 DEF GhostInv

\* The client takes a SYN/ACK, and from now on acknowledges its connection.
LEMMA SynAckInSynSentGhost ==
  ASSUME StartsApart, TypeOK, SlotInv, DataInv, NEW A, NEW D, GhostOK(A, D),
         NEW e \in Endpoint, NEW p, SynAckInSynSent(e, p)
  PROVE GhostInv'
<1> DEFINE b == Target(e)
           c == [b EXCEPT !.cur = p.seq, !.irs = p.seq, !.lsa = (p.seq - 1) % SeqMod,
                          !.una = Plus(p.ack, 1), !.state = "OPEN", !.sem = TRUE]
           seg == Cmp({"ACK"}, c.nxt, c.cur)
           r(ok) == SendCmp(c, seg, ok)
<1>1. PICK ok \in BOOLEAN : HandledThen(e, p, r(ok), ok, "idle")
  BY DEF SynAckInSynSent, Handled
<1>2. Arrives(e, p) /\ b.state = "SYN_SENT" /\ "SYN" \in p.flags
  BY DEF SynAckInSynSent, Receives
<1>3. p \in Segment /\ SegOK(Peer(e), p) /\ ConnOK(b) /\ b.open
  BY <1>2, ArrivesData, ArrivesSlot
<1>4. p.seq \in SeqNr /\ (p.seq - 1) % SeqMod \in SeqNr /\ Plus(p.ack, 1) \in SeqNr
  <2>1. p.seq \in SeqNr /\ p.ack \in SeqNr
    BY <1>3 DEF Segment
  <2>2. p.seq \in Int /\ p.ack \in Int
    BY <2>1 DEF SeqNr
  <2> QED
    BY <2>1, <2>2, PlusType, MinusType
<1>5. ConnOK(c) /\ c.state = "OPEN" /\ c.open /\ c.cur = p.seq
  BY <1>3, <1>4 DEF ConnOK, Conn, RdpStates
<1> HIDE DEF c
<1>6. \A S : Vouched(S, p.seq) => Vouches(S, seg)
  BY <1>5, CmpVouches
<1> HIDE DEF seg
<1>7. Face(r(ok).c) = Face(c) /\ r(ok).out \subseteq {seg}
  BY <1>5, SendCmpFace
<1> HIDE DEF r
<1>8. r(ok).c.state = "OPEN" /\ r(ok).c.open /\ r(ok).c.cur = p.seq
  BY <1>5, <1>7 DEF Face
<1>9. /\ conn' = [conn EXCEPT ![e] = r(ok).c] /\ NewFrom(e, r(ok).out)
      /\ UNCHANGED <<user, hand, picks, backlog, accepts>>
  BY <1>1, TransmitData DEF HandledThen, SynAckInSynSent, Quiet, histVars
<1>10. CASE e = Server
  BY <1>8, <1>9, <1>10, ServerMoves
<1>11. CASE e = Client
  <2>1. /\ Peer(Client) = Server /\ Client # Server /\ Client \in Endpoint
        /\ Target(Client) = conn[Client]
    BY <1>2, <1>11 DEF Peer, Client, Server, Endpoint, Arrives, Target
  <2>2. PICK l \in 1..Len(IssOf[Server]) : p.seq = IssOf[Server][l]
    BY <1>2, <1>3, <1>11, <2>1 DEF SegOK
  <2> DEFINE B == A \cup {l}
  <2>3. Vouched(B, p.seq)
    BY <2>2, StartVouched
  <2>4. B \subseteq 1..Len(IssOf[Server]) /\ A \subseteq B
    BY DEF GhostOK, ClientSide
  <2>5. Cardinality(B) \in Nat /\ Cardinality(A) \in Nat /\ Cardinality(B) <= Cardinality(A) + 1
    <3>1. IsFiniteSet(A) /\ Cardinality(A) \in Nat
      BY StartsFinite DEF GhostOK, ClientSide
    <3>2. Cardinality(B) = IF l \in A THEN Cardinality(A) ELSE Cardinality(A) + 1
      BY <3>1, FS_AddElement
    <3> HIDE DEF B
    <3> QED
      BY <3>1, <3>2
  <2>6. \A s : Vouches(A, s) => Vouches(B, s)
    BY <2>4 DEF Vouches, Vouched
  <2> HIDE DEF B
  <2>7. conn'[Client] = r(ok).c
    BY <1>9, <1>11, <2>1 DEF TypeOK
  <2>8. Cardinality(B) + One(conn'[Client].state = "SYN_SENT") <= picks[Client]
    <3>1. conn[Client].state = "SYN_SENT" /\ conn'[Client].state # "SYN_SENT"
      BY <1>2, <1>8, <1>11, <2>1, <2>7
    <3>2. Cardinality(A) + 1 <= picks[Client] /\ picks[Client] \in Nat
      BY <2>1, <3>1 DEF GhostOK, ClientSide, One, TypeOK
    <3> QED
      BY <2>5, <3>1, <3>2 DEF One
  <2>9. \A m \in net' : m.to = Server => Vouches(B, m.seg)
    <3>1. \A m \in net : m.to = Server => Vouches(A, m.seg)
      BY DEF GhostOK, ClientSide
    <3>2. Vouches(B, seg)
      BY <1>6, <2>3
    <3> QED
      BY <1>7, <1>9, <2>6, <3>1, <3>2 DEF NewFrom
  <2>10. Vouches(B, hand'[Client])
    BY <1>9, <2>6 DEF GhostOK, ClientSide
  <2>11. ClientOK(B, conn'[Client], user'[Client])
    BY <1>8, <2>3, <2>7 DEF ClientOK
  <2>12. ClientSide(B)'
    BY <1>9, <2>4, <2>8, <2>9, <2>10, <2>11 DEF ClientSide
  <2>13. ServerSide(D)'
    BY <1>9, <1>11, ServerKept DEF GhostOK
  <2>14. GhostOK(B, D)'
    BY <2>4, <2>12, <2>13 DEF GhostOK
  <2> QED
    BY <2>14 DEF GhostInv
<1> QED
  BY <1>10, <1>11 DEF Endpoint

\* Data for an open connection.
LEMMA DataInOpenGhost ==
  ASSUME StartsApart, TypeOK, SlotInv, DataInv, NEW A, NEW D, GhostOK(A, D),
         NEW e \in Endpoint, NEW p, DataInOpen(e, p)
  PROVE GhostInv'
<1> DEFINE b == Target(e)
           r(ok, due) == HandleData(b, p, due, ok)
<1>1. PICK ok \in BOOLEAN, due \in BOOLEAN : HandledData(e, p, b, due, ok)
  BY DEF DataInOpen
<1>2. PICK next : HandledThen(e, p, r(ok, due), ok, next)
  BY <1>1 DEF HandledData
<1>3. Arrives(e, p) /\ b.state = "OPEN" /\ Quiet
  BY DEF DataInOpen, Acceptable, Receives
<1>4. p \in Segment /\ SegOK(Peer(e), p) /\ ConnOK(b) /\ b.open
  BY <1>3, ArrivesData, ArrivesSlot
<1>5. Slot(r(ok, due).c) = Slot(b)
  BY <1>4, HandleDataSlot
<1>6. e = Client => Speaks(A, b, r(ok, due))
  <2> SUFFICES ASSUME e = Client PROVE Speaks(A, b, r(ok, due))
    OBVIOUS
  <2>1. p.data # NoData => Vouched(A, p.seq)
    <3>1. Peer(e) = Server
      BY DEF Peer, Client, Server
    <3> QED
      BY <1>4, <3>1, MessageVouched DEF SegOK
  <2> QED
    BY <1>3, <1>4, <2>1, HandleDataSpeaks
<1> HIDE DEF r
<1>7. Calm(b, r(ok, due).c)
  BY <1>3, <1>4, <1>5 DEF Calm, Slot
<1> QED
  BY <1>2, <1>3, <1>6, <1>7, GhostHandler

\* The acknowledgement that ends a handshake was sent for this connection.
LEMMA HandshakeDoneGhost ==
  ASSUME TypeOK, SlotInv, DataInv, NEW A, NEW D, GhostOK(A, D), NEW e \in Endpoint, NEW p,
         HandshakeDone(e, p)
  PROVE GhostInv'
<1> DEFINE b == Target(e)
           c == Opened(b)
           r(ok, due) == HandleData(c, p, due, ok)
<1>0. PICK n : n = picks[Server]
  OBVIOUS
<1> DEFINE E == D \cup {n}
<1>1. PICK ok \in BOOLEAN, due \in BOOLEAN : HandledData(e, p, c, due, ok)
  BY DEF HandshakeDone
<1>2. PICK next : HandledThen(e, p, r(ok, due), ok, next)
  BY <1>1 DEF HandledData
<1>3. Arrives(e, p) /\ b.state = "SYN_RCVD" /\ PlainAck(p) /\ p.ack = b.iss
  BY DEF HandshakeDone, Acceptable, Receives, BadFlags, AcksIss, PlainAck
<1>4. e = Server
  BY <1>3, ArrivesClient DEF Endpoint
<1>5. p \in Segment /\ ConnOK(b) /\ Holds(Server, b)
  BY <1>3, <1>4, ArrivesData
<1>6. n \in 1..Len(IssOf[Server]) /\ b.iss = IssOf[Server][n]
  BY <1>0, <1>3, <1>5 DEF Holds, DataOK, Sending
<1>7. n \in A
  <2>1. Vouched(A, p.ack)
    BY <1>3, <1>4 DEF Arrives, GhostOK, ClientSide, Vouches
  <2> QED
    BY <1>3, <1>6, <2>1 DEF Vouched
<1>8. n \notin D
  <2>1. conn[Server].state = "SYN_RCVD"
    <3>1. conn[Server] \in Conn
      BY <1>4 DEF TypeOK
    <3> QED
      BY <1>3, <1>4, <3>1 DEF Target, NewConn, Conn
  <2> QED
    BY <1>0, <2>1 DEF GhostOK, ServerSide
<1>9. Cardinality(E) = Cardinality(D) + 1 /\ Cardinality(D) \in Nat
  <2>1. D \subseteq 1..Len(IssOf[Server])
    BY DEF GhostOK, ClientSide
  <2>2. IsFiniteSet(D) /\ Cardinality(D) \in Nat
    BY <2>1, StartsFinite
  <2>3. Cardinality(E) = IF n \in D THEN Cardinality(D) ELSE Cardinality(D) + 1
    BY <2>2, FS_AddElement
  <2> QED
    BY <1>8, <2>2, <2>3
<1>10. r(ok, due).c.state = "OPEN"
  <2>1. ConnOK(c) /\ c.state = "OPEN"
    BY <1>5 DEF Opened, ConnOK, Conn, RdpStates
  <2> HIDE DEF c
  <2>2. Slot(r(ok, due).c) = Slot(c)
    BY <1>5, <2>1, HandleDataSlot
  <2> QED
    BY <2>1, <2>2 DEF Slot
<1> HIDE DEF r, c
<1>11. /\ conn' = [conn EXCEPT ![Server] = r(ok, due).c] /\ NewFrom(Server, r(ok, due).out)
       /\ UNCHANGED <<user, hand, picks, accepts>>
  BY <1>2, <1>4, TransmitData DEF HandledThen, HandshakeDone, histVars
<1>12. ClientSide(A)'
  BY <1>11, ClientKept DEF GhostOK
<1>13. D \subseteq 1..n /\ n \in Nat
  BY <1>0, <1>4 DEF GhostOK, ServerSide, TypeOK
<1>14. accepts + One(backlog') <= Cardinality(E)
  <2>1. accepts + One(backlog) <= Cardinality(D) /\ accepts \in Nat
    BY DEF GhostOK, ServerSide, TypeOK
  <2> HIDE DEF E
  <2> QED
    BY <1>9, <2>1 DEF One
<1>15. E \subseteq 1..n /\ E \subseteq A
  <2>1. n \in 1..n
    BY <1>6, <1>13
  <2>2. D \subseteq A
    BY DEF GhostOK
  <2> QED
    BY <1>7, <1>13, <2>1, <2>2
<1>16. conn'[Server].state = "OPEN"
  BY <1>4, <1>10, <1>11 DEF TypeOK
<1> HIDE DEF E
<1>17. ServerSide(E)'
  BY <1>0, <1>11, <1>14, <1>15, <1>16 DEF ServerSide
<1>18. GhostOK(A, E)'
  BY <1>12, <1>15, <1>17 DEF GhostOK
<1> QED
  BY <1>18 DEF GhostInv

\* All of csp_rdp_new_packet.
LEMMA ArrivalGhost ==
  ASSUME StartsApart, TypeOK, SlotInv, DataInv, NEW A, NEW D, GhostOK(A, D), Arrival
  PROVE GhostInv'
<1>1. PICK m \in net : NewPacket(m.to, m.seg)
  BY DEF Arrival
<1>2. m.to \in Endpoint
  BY DEF TypeOK
<1> QED
  BY <1>1, <1>2, RstGhost, AnswerGhost, DiscardGhost, SynInClosedGhost,
     SynAckInSynSentGhost, DataInOpenGhost, HandshakeDoneGhost DEF NewPacket

\* csp_rdp_check_timeouts and csp_rdp_rx_queue_flush.
LEMMA CheckTimeoutsGhost ==
  ASSUME StartsApart, TypeOK, SlotInv, DataInv, NEW A, NEW D, GhostOK(A, D),
         NEW e \in Endpoint, CheckTimeouts(e) \/ FlushNext(e)
  PROVE GhostInv'
<1> DEFINE c == conn[e]
<1>1. ConnOK(c) /\ conn[e] \in Conn
  BY TypeParts DEF LinkType, TypeOK
<1>2. ASSUME NEW r, Calm(c, r.c), NewFrom(e, r.out), conn' = [conn EXCEPT ![e] = r.c],
             UNCHANGED <<user, hand, picks, backlog, accepts>>,
             e = Client => \/ Mute(A, c, r)
                           \/ conn[e].state = "OPEN" /\ Speaks(A, c, r)
      PROVE GhostInv'
  <2>1. e = Client => AllVouch(A, r.out) /\ (Vouched(A, conn[e].cur) => Vouched(A, r.c.cur))
    <3> SUFFICES ASSUME e = Client
                 PROVE AllVouch(A, r.out) /\ (Vouched(A, conn[e].cur) => Vouched(A, r.c.cur))
      OBVIOUS
    <3>1. conn[Client].state = "OPEN" => Vouched(A, conn[Client].cur)
      BY DEF GhostOK, ClientSide, ClientOK
    <3> QED
      BY <1>2, <3>1 DEF Mute, Speaks
  <2>2. Vouches(A, hand'[Client])
    BY <1>2 DEF GhostOK, ClientSide
  <2> QED
    BY <1>2, <2>1, <2>2, GhostStep
<1>3. ASSUME NEW r, NEW ok, Checked(e, r, ok)
      PROVE /\ NewFrom(e, r.out) /\ conn' = [conn EXCEPT ![e] = r.c]
            /\ UNCHANGED <<user, hand, picks, backlog, accepts>>
  BY <1>3, TransmitData DEF Checked, RouterUnchanged, histVars
<1>4. CASE CheckNothing(e)
  <2> DEFINE r == Result(c, {})
  <2>1. conn' = [conn EXCEPT ![e] = r.c] /\ NewFrom(e, r.out)
    BY <1>4 DEF CheckNothing, TypeOK, Result, NewFrom
  <2>2. Mute(A, c, r)
    BY StillMute
  <2>3. UNCHANGED <<user, hand, picks, backlog, accepts>>
    BY <1>4 DEF CheckNothing, RouterUnchanged, histVars
  <2> HIDE DEF r
  <2> QED
    BY <1>2, <2>1, <2>2, <2>3 DEF Mute
<1>5. CASE LostConnection(e) \/ CloseWaitTimeout(e)
  <2>1. PICK ok \in BOOLEAN, by \in SUBSET ClosedByAll : Checked(e, ConnClose(c, by, ok), ok)
    BY <1>5, ClosersType DEF LostConnection, CloseWaitTimeout
  <2> DEFINE r == ConnClose(c, by, ok)
  <2>2. Mute(A, c, r)
    BY <1>1, ConnCloseMute
  <2>3. Checked(e, r, ok)
    BY <2>1
  <2> HIDE DEF r
  <2> QED
    BY <1>2, <1>3, <2>2, <2>3 DEF Mute
<1>6. CASE CheckMessages(e)
  <2>1. PICK ok \in BOOLEAN, due \in BOOLEAN, expired \in SUBSET Unacked(c) :
          Checked(e, Retransmitted(c, expired, due, ok), ok)
    BY <1>6 DEF CheckMessages
  <2> DEFINE r == Retransmitted(c, expired, due, ok)
  <2>2. Speaks(A, c, r) /\ (c.state # "OPEN" /\ OnlySyns(c.txq) => Mute(A, c, r))
    BY <1>1, RetransmittedSpeaks
  <2>3. Checked(e, r, ok)
    BY <2>1
  <2> HIDE DEF r
  <2>4. e = Client => c.state = "OPEN" \/ OnlySyns(c.txq)
    <3> SUFFICES ASSUME e = Client PROVE c.state = "OPEN" \/ OnlySyns(c.txq)
      OBVIOUS
    <3>1. c.open /\ c.state # "CLOSE_WAIT" /\ c.state # "CLOSED" /\ c.state \in RdpStates
      BY <1>1, <1>6 DEF CheckMessages, SlotInv, SlotOK, Conn
    <3>2. ClientOK(A, c, user[Client])
      BY DEF GhostOK, ClientSide
    <3> QED
      BY <3>1, <3>2 DEF ClientOK, RdpStates
  <2> QED
    BY <1>2, <1>3, <2>2, <2>3, <2>4 DEF Speaks
<1>7. CASE FlushNext(e)
  <2>1. PICK s \in NextStored(c) : conn' = [conn EXCEPT ![e] = FlushOne(c, s)]
    BY <1>7 DEF FlushNext
  <2> DEFINE d == FlushOne(c, s)
             r == Result(d, {})
  <2>2. s \in c.rxq /\ s.seq \in SeqNr
    BY <1>1 DEF NextStored, Conn
  <2>3. d.open = c.open /\ d.state = c.state /\ d.txq = c.txq /\ d.cur = s.seq
    <3>1. ConnOK(Enqueue(c, s.data)) /\ Face(Enqueue(c, s.data)) = Face(c)
      <4>1. s.data \in Payload
        BY <1>1, <2>2 DEF Conn
      <4> QED
        BY <1>1, <4>1, EnqueueType, EnqueueFace
    <3> QED
      BY <3>1 DEF FlushOne, Face, ConnOK, Conn
  <2>4. e = Client => Vouched(A, s.seq)
    <3> SUFFICES ASSUME e = Client PROVE Vouched(A, s.seq)
      OBVIOUS
    <3>1. Numbered(Server, s)
      BY <2>2 DEF DataInv, DataOK, Taking, Peer, Client, Server
    <3> QED
      BY <3>1, MessageVouched
  <2> HIDE DEF d
  <2>5. r.c = d /\ r.out = {} /\ conn' = [conn EXCEPT ![e] = r.c] /\ NewFrom(e, r.out)
    BY <1>7, <2>1 DEF FlushNext, Result, NewFrom, d
  <2>6. UNCHANGED <<user, hand, picks, backlog, accepts>>
    BY <1>7 DEF FlushNext, envVars, histVars
  <2> HIDE DEF r
  <2>7. Calm(c, r.c)
    BY <2>3, <2>5 DEF Calm
  <2>8. e = Client => Mute(A, c, r)
    BY <2>3, <2>4, <2>5, <2>7 DEF Mute, AllVouch
  <2> QED
    BY <1>2, <2>5, <2>6, <2>7, <2>8
<1> QED
  BY <1>4, <1>5, <1>6, <1>7 DEF CheckTimeouts

\* csp_send, csp_read and csp_close.
LEMMA UserTaskGhost ==
  ASSUME TypeOK, SlotInv, NEW A, NEW D, GhostOK(A, D), NEW e \in Endpoint, UserTask(e)
  PROVE GhostInv'
<1> DEFINE c == conn[e]
<1>1. ConnOK(c) /\ c \in Conn /\ Client \in Endpoint
  BY TypeParts DEF LinkType, TypeOK, Endpoint
<1>2. UNCHANGED <<picks, backlog, accepts>>
  BY DEF UserTask, SendBlocks, SendWakes, SendTimeout, RdpSend, SendNoBufs, SendOut, Read,
         Close, envVars, histVars
<1>3. user'[Client] \in Talking => user[Client] \in Talking
  <2>1. user[e] \in Talking
    BY DEF UserTask, SendBlocks, SendWakes, SendTimeout, RdpSend, SendNoBufs, SendOut, Read,
           Close, Talking
  <2>2. user' = user \/ \E u : user' = [user EXCEPT ![e] = u]
    BY DEF UserTask, SendBlocks, SendWakes, SendTimeout, RdpSend, SendNoBufs, SendOut, Read,
           Close
  <2> QED
    BY <1>1, <2>1, <2>2 DEF TypeOK
<1>4. Vouches(A, hand[Client]) /\ (user[Client] \in Talking => Vouched(A, conn[Client].cur))
  BY DEF GhostOK, ClientSide, ClientOK
<1>5. ASSUME NEW r, conn' = [conn EXCEPT ![e] = r.c], NewFrom(e, r.out), Calm(c, r.c),
             r.c.cur = c.cur, e = Client => AllVouch(A, r.out), Vouches(A, hand'[Client])
      PROVE GhostInv'
  BY <1>2, <1>3, <1>5, GhostStep
<1>6. ASSUME NEW d, Face(d) = Face(c), conn' = [conn EXCEPT ![e] = d], UNCHANGED <<net, hand>>
      PROVE GhostInv'
  <2> DEFINE r == Result(d, {})
  <2>1. r.c = d /\ r.out = {} /\ NewFrom(e, r.out) /\ Calm(c, r.c) /\ r.c.cur = c.cur
    BY <1>6, SameFace DEF Result, NewFrom
  <2> HIDE DEF r
  <2>2. AllVouch(A, r.out) /\ Vouches(A, hand'[Client])
    BY <1>4, <1>6, <2>1 DEF AllVouch
  <2> QED
    BY <1>5, <1>6, <2>1, <2>2
<1>7. CASE SendBlocks(e) \/ SendTimeout(e)
  <2>1. conn' = [conn EXCEPT ![e] = c] /\ UNCHANGED <<net, hand>>
    BY <1>7 DEF SendBlocks, SendTimeout, TypeOK
  <2> QED
    BY <1>6, <2>1
<1>8. CASE SendWakes(e) \/ SendNoBufs(e)
  <2>1. PICK x : conn' = [conn EXCEPT ![e] = [c EXCEPT !.sem = x]]
    BY <1>8 DEF SendWakes, SendNoBufs
  <2>2. Face([c EXCEPT !.sem = x]) = Face(c)
    BY <1>1 DEF Face, Conn
  <2>3. UNCHANGED <<net, hand>>
    BY <1>8 DEF SendWakes, SendNoBufs
  <2> QED
    BY <1>6, <2>1, <2>2, <2>3
<1>9. CASE RdpSend(e)
  <2> DEFINE base == Cmp({"ACK"}, c.nxt, c.cur)
             seg == [base EXCEPT !.data = <<picks[e], sent[e] + 1>>]
             d == [c EXCEPT !.txq = TxQueued(@, seg), !.nxt = Plus(@, 1),
                            !.sem = @ /\ user[e] = "ready"]
             r == Result(d, {})
  <2>1. /\ conn' = [conn EXCEPT ![e] = d] /\ hand' = [hand EXCEPT ![e] = seg] /\ net' = net
        /\ c.state = "OPEN" /\ user[e] \in Talking
    BY <1>9 DEF RdpSend, Talking
  <2>2. seg.ack = c.cur
    BY DEF Cmp
  <2> HIDE DEF seg
  <2>3. d.open = c.open /\ d.state = c.state /\ d.cur = c.cur
    BY <1>1 DEF Conn
  <2> HIDE DEF d
  <2>4. /\ r.c = d /\ NewFrom(e, r.out) /\ AllVouch(A, r.out) /\ Calm(c, r.c)
    <3>1. c.open
      BY <1>1, <2>1 DEF SlotInv, SlotOK, Conn
    <3> QED
      BY <2>1, <2>3, <3>1 DEF Result, NewFrom, AllVouch, Calm
  <2>5. Vouches(A, hand'[Client])
    <3>1. CASE e = Client
      BY <1>1, <1>4, <2>1, <2>2, <3>1 DEF Vouches, TypeOK
    <3>2. CASE e # Client
      BY <1>1, <1>4, <2>1, <3>2 DEF TypeOK
    <3> QED
      BY <3>1, <3>2
  <2> HIDE DEF r
  <2> QED
    BY <1>5, <2>1, <2>3, <2>4, <2>5
<1>10. CASE SendOut(e)
  <2>1. PICK ok \in BOOLEAN : Transmit(e, {}, IF ok THEN {hand[e]} ELSE {})
    BY <1>10 DEF SendOut
  <2> DEFINE r == Result(c, IF ok THEN {hand[e]} ELSE {})
  <2>2. conn' = [conn EXCEPT ![e] = r.c] /\ NewFrom(e, r.out) /\ r.c = c /\ r.out \subseteq {hand[e]}
    BY <1>10, <2>1, TransmitData DEF SendOut, Result, TypeOK
  <2> HIDE DEF r
  <2>3. Calm(c, r.c) /\ (e = Client => AllVouch(A, r.out))
    BY <1>4, <2>2 DEF Calm, AllVouch
  <2>4. Vouches(A, hand'[Client])
    <3>1. Vouches(A, NoSegment)
      BY CmpVouches DEF NoSegment
    <3>2. hand' = [hand EXCEPT ![e] = NoSegment]
      BY <1>10 DEF SendOut
    <3> QED
      BY <1>1, <1>4, <3>1, <3>2 DEF TypeOK
  <2> QED
    BY <1>5, <2>2, <2>3, <2>4
<1>11. CASE Read(e)
  <2> DEFINE t == [c EXCEPT !.rx = Tail(@)]
             r(ok, due) == IF DelayedAcks THEN CheckAck(t, due, ok) ELSE Result(t, {})
  <2>1. PICK ok \in BOOLEAN, due \in BOOLEAN :
          conn' = [conn EXCEPT ![e] = r(ok, due).c] /\ Transmit(e, {}, r(ok, due).out)
    BY <1>11 DEF Read
  <2>2. ConnOK(t) /\ Face(t) = Face(c)
    <3>1. c.rx \in Seq(Payload) /\ c.rx # <<>>
      BY <1>1, <1>11 DEF Conn, Read
    <3>2. Tail(c.rx) \in Seq(Payload)
      BY <3>1
    <3> QED
      BY <1>1, <3>2 DEF ConnOK, Conn, Face
  <2> HIDE DEF t
  <2>3. /\ Speaks(A, t, r(ok, due)) /\ r(ok, due).c.cur = t.cur
        /\ Calm(t, r(ok, due).c)
    <3>1. Speaks(A, t, CheckAck(t, due, ok)) /\ CheckAck(t, due, ok).c.cur = t.cur
      BY <2>2, CheckAckSpeaks, CheckAckCur
    <3>2. Speaks(A, t, Result(t, {})) /\ Result(t, {}).c.cur = t.cur
      BY StillMute, MuteSpeaks DEF Result
    <3> QED
      BY <3>1, <3>2 DEF Speaks
  <2>4. NewFrom(e, r(ok, due).out)
    BY <2>1, TransmitData
  <2> HIDE DEF r
  <2>5. user[e] \in Talking /\ hand' = hand
    BY <1>11 DEF Read, Talking
  <2>6. Calm(c, r(ok, due).c) /\ r(ok, due).c.cur = c.cur
    BY <2>2, <2>3 DEF Face, Calm
  <2>7. e = Client => AllVouch(A, r(ok, due).out)
    BY <1>4, <2>2, <2>3, <2>5 DEF Speaks, Face
  <2> QED
    BY <1>4, <1>5, <2>1, <2>4, <2>5, <2>6, <2>7
<1>12. CASE Close(e)
  <2> DEFINE r(ok) == ConnClose(c, {ByUser}, ok)
  <2>1. PICK ok \in BOOLEAN : conn' = [conn EXCEPT ![e] = r(ok).c] /\ Transmit(e, {}, r(ok).out)
    BY <1>12 DEF Close
  <2>2. Mute(A, c, r(ok))
    BY <1>1, ClosersType, ConnCloseMute
  <2>3. NewFrom(e, r(ok).out)
    BY <2>1, TransmitData
  <2>4. Vouches(A, hand'[Client])
    BY <1>4, <1>12 DEF Close
  <2> HIDE DEF r
  <2> QED
    BY <1>2, <1>3, <2>1, <2>2, <2>3, <2>4, GhostStep DEF Mute
<1> QED
  BY <1>7, <1>8, <1>9, <1>10, <1>11, <1>12 DEF UserTask

\* csp_rdp_connect draws an initial sequence number and sends a SYN.
LEMMA SendSynRequestGhost ==
  ASSUME TypeOK, SlotInv, NEW A, NEW D, GhostOK(A, D), NEW c0, ConnOK(c0), c0.open,
         c0.txq = {}, NEW again, SendSynRequest(Client, c0, again),
         UNCHANGED <<hand, backlog, accepts>>
  PROVE GhostInv'
<1> DEFINE iss == Pick(Client)
           c1 == [c0 EXCEPT !.iss = iss, !.nxt = Plus(iss, 1), !.una = iss,
                            !.sem = FALSE, !.state = "SYN_SENT"]
           syn == Cmp({"SYN"}, iss, 0)
           r(ok) == SendSyn(c1, syn, FALSE, ok)
           failed(ok) == ConnClose(RdpClose(r(ok).c, {ByProtocol}, FALSE, ok).c, {ByUser}, ok)
           d(ok) == IF ok THEN r(ok).c ELSE failed(ok).c
<1>1. PICK ok \in BOOLEAN :
        /\ CanPick(Client) /\ picks' = [picks EXCEPT ![Client] = @ + 1]
        /\ conn' = [conn EXCEPT ![Client] = d(ok)] /\ Transmit(Client, {}, r(ok).out)
        /\ user' = [user EXCEPT ![Client] = IF ok THEN "connecting" ELSE "closed"]
  BY DEF SendSynRequest
<1>2. Client \in Endpoint /\ Server \in Endpoint /\ Client # Server
  BY DEF Endpoint, Client, Server
<1>3. iss \in SeqNr
  BY <1>1, <1>2, PickType
<1>4. Plus(iss, 1) \in SeqNr
  BY <1>3, PlusType DEF SeqNr
<1>5. syn \in Segment /\ "SYN" \in syn.flags
  <2>1. 0 \in SeqNr
    BY SeqModAssumption DEF SeqNr
  <2> QED
    BY <1>3, <2>1, CmpType DEF Cmp
<1> HIDE DEF iss
<1>6. ConnOK(c1) /\ c1.open /\ c1.state = "SYN_SENT" /\ c1.txq = {}
  BY <1>3, <1>4 DEF ConnOK, Conn, RdpStates
<1> HIDE DEF c1, syn
<1>7. Sends(c1, r(ok)) /\ ResultOK(r(ok))
  BY <1>5, <1>6, SendSynFace, SendSynType
<1> HIDE DEF r
<1>8. /\ r(ok).c.state = "SYN_SENT" /\ r(ok).c.open /\ OnlySyns(r(ok).c.txq)
      /\ ConnOK(r(ok).c) /\ AllVouch(A, r(ok).out)
  BY <1>6, <1>7 DEF Sends, OnlySyns, ResultOK, AllVouch, Vouches, PlainAck
<1>9. Mute(A, r(ok).c, failed(ok)) /\ Shut(failed(ok).c)
  <2> DEFINE q == RdpClose(r(ok).c, {ByProtocol}, FALSE, ok).c
  <2>1. ConnOK(q) /\ q.open
    BY <1>8, ClosersType, RdpCloseType, RdpCloseOpen DEF ResultOK
  <2>2. Shut(failed(ok).c)
    <3> HIDE DEF q
    <3>1. Shut(ConnClose(q, {ByUser}, ok).c)
      BY <2>1, ClosersType, ConnCloseMute
    <3> QED
      BY <3>1 DEF q
  <2> QED
    BY <1>8, <2>2, GivenUpMute
<1> HIDE DEF failed
<1>10. /\ d(ok).state \in {"SYN_SENT", "CLOSE_WAIT", "CLOSED"}
       /\ d(ok).state = "SYN_SENT" => OnlySyns(d(ok).txq)
       /\ ~d(ok).open => d(ok).txq = {}
  BY <1>8, <1>9 DEF Shut, Mute, Calm
<1> HIDE DEF d
<1>11. conn'[Client] = d(ok) /\ user'[Client] \notin Talking
  BY <1>1, <1>2 DEF TypeOK, Talking
<1>12. ClientOK(A, conn'[Client], user'[Client])
  BY <1>10, <1>11 DEF ClientOK
<1>13. \A m \in net' : m.to = Server => Vouches(A, m.seg)
  <2>1. NewFrom(Client, r(ok).out)
    BY <1>1, TransmitData
  <2>2. \A m \in net : m.to = Server => Vouches(A, m.seg)
    BY DEF GhostOK, ClientSide
  <2> QED
    BY <1>8, <2>1, <2>2 DEF NewFrom, AllVouch
<1>14. Cardinality(A) + One(conn'[Client].state = "SYN_SENT") <= picks'[Client]
  <2>1. picks'[Client] = picks[Client] + 1 /\ picks[Client] \in Nat
    BY <1>1, <1>2 DEF TypeOK
  <2>2. Cardinality(A) + One(conn[Client].state = "SYN_SENT") <= picks[Client]
    BY DEF GhostOK, ClientSide
  <2>3. Cardinality(A) \in Nat
    BY StartsFinite DEF GhostOK, ClientSide
  <2> QED
    BY <2>1, <2>2, <2>3 DEF One
<1>15. Vouches(A, hand'[Client]) /\ A \subseteq 1..Len(IssOf[Server])
  BY DEF GhostOK, ClientSide
<1>16. ClientSide(A)'
  BY <1>12, <1>13, <1>14, <1>15 DEF ClientSide
<1>17. picks'[Server] = picks[Server]
  BY <1>1, <1>2 DEF TypeOK
<1>18. ServerSide(D)'
  BY <1>1, <1>17, ServerKept DEF GhostOK
<1>19. GhostOK(A, D)'
  BY <1>16, <1>18 DEF GhostOK
<1> QED
  BY <1>19 DEF GhostInv

\* All of csp_connect.
LEMMA ConnectingGhost ==
  ASSUME TypeOK, SlotInv, NEW A, NEW D, GhostOK(A, D), Connecting
  PROVE GhostInv'
<1>1. /\ Client \in Endpoint /\ ConnOK(conn[Client]) /\ conn[Client] \in Conn
      /\ ClientOK(A, conn[Client], user[Client]) /\ Vouches(A, hand[Client])
  BY TypeParts DEF LinkType, TypeOK, Endpoint, GhostOK, ClientSide
<1>2. CASE Connect
  <2> DEFINE c == NewConn(conn[Client], FALSE)
  <2>1. ~conn[Client].open /\ conn[Client].txq = {}
    BY <1>1, <1>2 DEF Connect, ClientOK
  <2>2. ConnOK(c) /\ c.open /\ c.txq = {}
    BY <1>1, <2>1, NewConnType DEF NewConn, ConnOK, Conn
  <2>3. SendSynRequest(Client, c, TRUE) /\ UNCHANGED <<hand, backlog, accepts>>
    BY <1>2 DEF Connect
  <2> HIDE DEF c
  <2> QED
    BY <2>2, <2>3, SendSynRequestGhost
<1>3. CASE ConnectOpened
  <2> DEFINE d == [conn[Client] EXCEPT !.sem = FALSE]
             r == Result(d, {})
  <2>1. Face(d) = Face(conn[Client])
    BY <1>1 DEF Face, Conn
  <2>2. conn' = [conn EXCEPT ![Client] = r.c] /\ r.out = {} /\ r.c = d
    BY <1>3 DEF ConnectOpened, Result
  <2>3. /\ NewFrom(Client, r.out) /\ conn[Client].state = "OPEN"
        /\ UNCHANGED <<hand, picks, backlog, accepts>>
    BY <1>3, <2>2 DEF ConnectOpened, NewFrom, envVars, histVars
  <2> HIDE DEF d, r
  <2>4. Calm(conn[Client], r.c) /\ r.c.cur = conn[Client].cur /\ AllVouch(A, r.out)
    BY <2>1, <2>2, SameFace DEF AllVouch
  <2> QED
    BY <1>1, <2>2, <2>3, <2>4, GhostStep
<1>4. CASE ConnectRetry
  <2> DEFINE c == [conn[Client] EXCEPT !.txq = {}, !.rxq = {}]
  <2>1. conn[Client].open
    BY <1>1, <1>4 DEF ConnectRetry, SlotInv, SlotOK
  <2>2. ConnOK(c) /\ c.open /\ c.txq = {}
    BY <1>1, <2>1, FS_EmptySet DEF ConnOK, Conn
  <2>3. SendSynRequest(Client, c, FALSE) /\ UNCHANGED <<hand, backlog, accepts>>
    BY <1>4 DEF ConnectRetry, histVars
  <2> HIDE DEF c
  <2> QED
    BY <2>2, <2>3, SendSynRequestGhost
<1>5. CASE ConnectRefused \/ ConnectTimeout
  <2>1. ConnectFails
    BY <1>5 DEF ConnectRefused, ConnectTimeout
  <2> DEFINE r(ok) == ConnClose(RdpClose(conn[Client], {ByProtocol}, FALSE, ok).c, {ByUser}, ok)
  <2>2. PICK ok \in BOOLEAN :
          conn' = [conn EXCEPT ![Client] = r(ok).c] /\ Transmit(Client, {}, r(ok).out)
    BY <2>1 DEF ConnectFails
  <2>3. Mute(A, conn[Client], r(ok))
    BY <1>1, GivenUpMute
  <2>4. UNCHANGED <<hand, picks, backlog, accepts>> /\ user'[Client] \notin Talking
    BY <1>1, <2>1 DEF ConnectFails, histVars, TypeOK, Talking
  <2> HIDE DEF r
  <2> QED
    BY <1>1, <2>2, <2>3, <2>4, TransmitData, GhostStep DEF Mute
<1> QED
  BY <1>2, <1>3, <1>4, <1>5 DEF Connecting

\* csp_accept returns a connection that has passed the handshake.
LEMMA AcceptGhost ==
  ASSUME TypeOK, NEW A, NEW D, GhostOK(A, D), Accept
  PROVE GhostInv'
<1>1. /\ UNCHANGED <<conn, net, hand, picks>> /\ user'[Client] = user[Client]
      /\ backlog /\ ~backlog' /\ accepts' = accepts + 1
  BY DEF Accept, envVars, TypeOK, Client, Server, Endpoint
<1>2. ClientSide(A)'
  BY <1>1 DEF GhostOK, ClientSide
<1>3. accepts' + One(backlog') = accepts + One(backlog)
  BY <1>1 DEF One, TypeOK
<1>4. ServerSide(D)'
  BY <1>1, <1>3 DEF GhostOK, ServerSide
<1>5. GhostOK(A, D)'
  BY <1>2, <1>4 DEF GhostOK
<1> QED
  BY <1>5 DEF GhostInv

\* The client's computer restarts: what it has acknowledged stays vouched for.
LEMMA RebootGhost ==
  ASSUME TypeOK, NEW A, NEW D, GhostOK(A, D), Reboot
  PROVE GhostInv'
<1>1. Client \in Endpoint /\ Server \in Endpoint /\ Client # Server
  BY DEF Client, Server, Endpoint
<1>2. /\ conn' = [conn EXCEPT ![Client] = InitConn] /\ conn'[Client] = InitConn
      /\ user'[Client] = "none" /\ hand'[Client] = NoSegment
      /\ UNCHANGED <<net, backlog, picks, accepts>>
  BY <1>1 DEF Reboot, histVars, TypeOK
<1>3. ClientOK(A, InitConn, "none")
  BY DEF ClientOK, InitConn, Talking
<1>4. Vouches(A, NoSegment)
  BY DEF Vouches, PlainAck, NoSegment, Cmp
<1>5. Cardinality(A) + One(InitConn.state = "SYN_SENT") <= picks[Client]
  <2>1. Cardinality(A) + One(conn[Client].state = "SYN_SENT") <= picks[Client]
    BY DEF GhostOK, ClientSide
  <2>2. Cardinality(A) \in Nat /\ picks[Client] \in Nat
    BY <1>1, StartsFinite DEF GhostOK, ClientSide, TypeOK
  <2>3. InitConn.state # "SYN_SENT"
    BY DEF InitConn
  <2> QED
    BY <2>1, <2>2, <2>3 DEF One
<1>6. ClientSide(A)'
  BY <1>2, <1>3, <1>4, <1>5 DEF GhostOK, ClientSide
<1>7. ServerSide(D)'
  BY <1>2, ServerKept DEF GhostOK
<1>8. GhostOK(A, D)'
  BY <1>6, <1>7 DEF GhostOK
<1> QED
  BY <1>8 DEF GhostInv

\* Losing a segment, and doing nothing.
LEMMA GhostUnchanged ==
  ASSUME GhostInv, UNCHANGED <<conn, user, hand, backlog, picks, accepts>>, net' \subseteq net
  PROVE GhostInv'
<1>1. PICK A, D : GhostOK(A, D)
  BY DEF GhostInv
<1>2. GhostOK(A, D)'
  BY <1>1 DEF GhostOK, ClientSide, ServerSide
<1> QED
  BY <1>2 DEF GhostInv

\* In the beginning no connection has been asked for.
LEMMA GhostInit == Init => GhostInv
<1> SUFFICES ASSUME Init PROVE GhostInv
  OBVIOUS
<1>1. /\ Client \in Endpoint /\ Server \in Endpoint
      /\ \A e \in Endpoint : conn[e] = InitConn /\ user[e] = "none" /\ hand[e] = NoSegment
                             /\ picks[e] = 0
      /\ net = {} /\ ~backlog /\ accepts = 0
  BY DEF Init, Client, Server, Endpoint
<1>2. Cardinality({}) = 0
  BY FS_EmptySet
<1>3. ClientOK({}, InitConn, "none") /\ InitConn.state = "CLOSED"
  BY DEF ClientOK, InitConn, Talking
<1>4. Vouches({}, NoSegment)
  BY DEF Vouches, PlainAck, NoSegment, Cmp
<1>5. ClientSide({})
  BY <1>1, <1>2, <1>3, <1>4 DEF ClientSide, One
<1>6. ServerSide({})
  BY <1>1, <1>2, <1>3 DEF ServerSide, One
<1>7. GhostOK({}, {})
  BY <1>5, <1>6 DEF GhostOK
<1> QED
  BY <1>7 DEF GhostInv

\* Every step keeps GhostInv.
LEMMA GhostNext ==
  NumbersApart /\ StartsApart /\ TypeOK /\ SlotInv /\ DataInv /\ GhostInv /\ [Next]_vars
    => GhostInv'
<1> SUFFICES ASSUME NumbersApart, StartsApart, TypeOK, SlotInv, DataInv, GhostInv, [Next]_vars
             PROVE GhostInv'
  OBVIOUS
<1>1. CASE \E m \in net : Lose(m)
  BY <1>1, GhostUnchanged DEF Lose, envVars, histVars
<1>2. CASE UNCHANGED vars
  BY <1>2, GhostUnchanged DEF vars, envVars, histVars
<1>3. PICK A, D : GhostOK(A, D)
  BY DEF GhostInv
<1>4. CASE Arrival
  BY <1>3, <1>4, ArrivalGhost
<1>5. CASE Connecting
  BY <1>3, <1>5, ConnectingGhost
<1>6. CASE Accept
  BY <1>3, <1>6, AcceptGhost
<1>7. CASE Reboot
  BY <1>3, <1>7, RebootGhost
<1>8. CASE \E e \in Endpoint : UserTask(e) \/ CheckTimeouts(e) \/ FlushNext(e)
  BY <1>3, <1>8, UserTaskGhost, CheckTimeoutsGhost
<1> QED
  BY <1>1, <1>2, <1>4, <1>5, <1>6, <1>7, <1>8 DEF Next

\* csp_accept never returns more connections than csp_connect has asked for:
\* a SYN that is repeated or comes late, also from before a reboot, makes up
\* no connection of its own, as the handshake ends only with an acknowledgement
\* of an initial sequence number that the server has drawn for it.
THEOREM NoGhostAcceptCorrect ==
  NumbersApart /\ StartsApart => (Spec => []NoGhostAccept)
<1> SUFFICES ASSUME NumbersApart, StartsApart PROVE Spec => []NoGhostAccept
  OBVIOUS
<1>1. Init => DataInv /\ GhostInv
  BY DataInit, GhostInit
<1>2. TypeOK /\ SlotInv /\ DataInv /\ [Next]_vars => DataInv'
  BY DataNext
<1>3. TypeOK /\ SlotInv /\ DataInv /\ GhostInv /\ [Next]_vars => GhostInv'
  BY GhostNext
<1>4. TypeOK /\ GhostInv => NoGhostAccept
  <2> SUFFICES ASSUME TypeOK, GhostInv PROVE accepts <= picks[Client]
    BY DEF NoGhostAccept
  <2>1. PICK A, D : GhostOK(A, D)
    BY DEF GhostInv
  <2>2. A \subseteq 1..Len(IssOf[Server]) /\ D \subseteq A
    BY <2>1 DEF GhostOK, ClientSide
  <2>3. IsFiniteSet(A) /\ Cardinality(A) \in Nat
    BY <2>2, StartsFinite
  <2>4. Cardinality(D) <= Cardinality(A) /\ Cardinality(D) \in Nat
    BY <2>2, <2>3, FS_Subset, FS_CardinalityType
  <2>5. Cardinality(A) + One(conn[Client].state = "SYN_SENT") <= picks[Client]
    BY <2>1 DEF GhostOK, ClientSide
  <2>6. accepts + One(backlog) <= Cardinality(D)
    BY <2>1 DEF GhostOK, ServerSide
  <2>7. accepts \in Nat /\ picks[Client] \in Nat
    BY DEF TypeOK, Client, Endpoint
  <2> QED
    BY <2>3, <2>4, <2>5, <2>6, <2>7 DEF One
<1> QED
  BY <1>1, <1>2, <1>3, <1>4, TypeCorrect, SlotCorrect, PTL DEF Spec

=============================================================================
