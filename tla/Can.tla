-------------------------------- MODULE Can --------------------------------
(***************************************************************************)
(* csp_if_can.c and csp_if_can_pbuf.c: packets cut into CAN frames and put *)
(* together by one receiver.  A frame names its node, an identifier that   *)
(* wraps around, and how many frames remain.  The bus keeps the order of   *)
(* the frames and may lose some, so a frame is received when it is sent.   *)
(*                                                                         *)
(* Of a packet's data the model keeps which bytes of which packet they     *)
(* are.  csp_can_rx is only given what csp_can_tx sends: no short first    *)
(* frames and no unknown types.                                            *)
(***************************************************************************)
EXTENDS Integers, Sequences

CONSTANTS
  CanTasks,     \* the tasks that send
  CanNode,      \* CanNode[t]: the node of task t
  CanLength,    \* CanLength[n]: the length of the data of the n-th packet sent
  IdMod,        \* 2^CFP_ID_SIZE
  Elements,     \* PBUF_ELEMENTS
  DataSize,     \* csp_buffer_data_size of the receiver
  CanMaxFaults  \* bound on the frames lost and the calls of tx_func that fail

ASSUME CanAssumption ==
  /\ CanNode \in [CanTasks -> Nat] /\ CanLength \in Seq(Nat)
  /\ {IdMod, Elements, DataSize} \subseteq Nat \ {0} /\ CanMaxFaults \in Nat

MaxBytes == 8  \* MAX_BYTES_IN_CAN_FRAME
Overhead == 6  \* CFP_OVERHEAD

VARIABLES
  frameId,   \* frameId[node]: cfp_frame_id
  csend,     \* csend[t]: what csp_can_tx of task t is at
  packets,   \* history: node and identifier of the packets sent
  pbuf,      \* csp_can_pbuf
  canOut,    \* history: the packets given to the router
  hit,       \* history: the packets that lost a frame, a buffer or an element
  clash,     \* history: the packets that had the identifier of another one
             \* of their node that was being sent
  canFaults  \* how many frames were lost and calls failed

canVars == <<frameId, csend, packets, pbuf, canOut, hit, clash, canFaults>>

NotSending == [at |-> "idle", packet |-> 0, ident |-> 0, count |-> 0]
Free == [used |-> FALSE, id |-> <<0, 0>>, packet |-> 0, remain |-> 0, count |-> 0, parts |-> <<>>]

CanInit ==
  /\ frameId = [n \in {CanNode[t] : t \in CanTasks} |-> 0]
  /\ csend = [t \in CanTasks |-> NotSending]
  /\ packets = <<>> /\ pbuf = [i \in 1..Elements |-> Free] /\ canOut = <<>>
  /\ hit = {} /\ clash = {} /\ canFaults = 0

----------------------------------------------------------------------------
\* Receiving a frame f.  Each operator says what becomes of pbuf, of what is
\* delivered, and of the packets that are hit.

\* mutant: the identifier alone is looked for
FoundByIdent(f) == {i \in 1..Elements : pbuf[i].used /\ pbuf[i].id[2] = f.id[2]}
Found(f) == {i \in 1..Elements : pbuf[i].used /\ pbuf[i].id = f.id}

\* csp_can_pbuf_new takes the first element that is free or has expired.
MayTake(i) == \A j \in 1..i - 1 : pbuf[j].used
NoElement == \A i \in 1..Elements : pbuf[i].used

\* A new packet in element e; one that is there is dropped and its buffer used.
BeginKeepsCount(e, f) ==  \* mutant: rx_count is not reset
  [used |-> TRUE, id |-> f.id, packet |-> f.packet, remain |-> f.remain + 1,
   count |-> e.count, parts |-> e.parts]
Begin(e, f) ==
  [used |-> TRUE, id |-> f.id, packet |-> f.packet, remain |-> f.remain + 1,
   count |-> 0, parts |-> <<>>]

\* The common part of both types of frames, for element i that holds e.
AddData(i, e, f) ==
  LET count == e.count + f.size
      parts == Append(e.parts, [packet |-> f.packet, offset |-> f.offset, size |-> f.size])
      length == CanLength[e.packet]
  IN  IF f.remain # e.remain - 1 \/ count > length
      THEN pbuf' = [pbuf EXCEPT ![i] = Free] /\ UNCHANGED canOut
      ELSE IF count = length
      THEN /\ pbuf' = [pbuf EXCEPT ![i] = Free]
           /\ canOut' = Append(canOut, [packet |-> e.packet, parts |-> parts])
      ELSE /\ pbuf' = [pbuf EXCEPT ![i] = [e EXCEPT !.remain = e.remain - 1,
                                                    !.count = count, !.parts = parts]]
           /\ UNCHANGED canOut

BeginIn(i, e, f) ==
  IF CanLength[f.packet] > DataSize
  THEN pbuf' = [pbuf EXCEPT ![i] = Free] /\ UNCHANGED canOut
  ELSE AddData(i, Begin(e, f), f)

TooLong(f) == IF CanLength[f.packet] > DataSize THEN {f.packet} ELSE {}
Expired(i) == IF pbuf[i].used THEN {pbuf[i].packet} ELSE {}

RxBegin(f) ==
  \/ \E i \in Found(f) :
       BeginIn(i, pbuf[i], f) /\ hit' = hit \cup TooLong(f)
  \/ \E i \in 1..Elements :
       /\ Found(f) = {} /\ MayTake(i)
       /\ BeginIn(i, pbuf[i], f) /\ hit' = hit \cup TooLong(f) \cup Expired(i)
  \/ \E i \in 1..Elements :  \* csp_buffer_get fails
       /\ Found(f) = {} /\ MayTake(i)
       /\ pbuf' = [pbuf EXCEPT ![i] = Free]
       /\ hit' = hit \cup {f.packet} \cup Expired(i)
       /\ UNCHANGED canOut
  \/ /\ Found(f) = {} /\ NoElement
     /\ hit' = hit \cup {f.packet}
     /\ UNCHANGED <<pbuf, canOut>>

RxMore(f) ==
  /\ \/ \E i \in Found(f) : AddData(i, pbuf[i], f)
     \/ Found(f) = {} /\ UNCHANGED <<pbuf, canOut>>
  /\ UNCHANGED hit

----------------------------------------------------------------------------
\* Sending

\* cfp_frame_id++ is a read and a write, without a lock.
ReadIdent(t) ==
  LET ident == frameId[CanNode[t]]
      n == Len(packets) + 1
      same == {u \in CanTasks :
                 CanNode[u] = CanNode[t] /\ csend[u].at # "idle" /\ csend[u].ident = ident}
  IN  /\ csend[t].at = "idle" /\ n <= Len(CanLength)
      /\ csend' = [csend EXCEPT ![t] = [at |-> "read", packet |-> n, ident |-> ident, count |-> 0]]
      /\ packets' = Append(packets, <<CanNode[t], ident>>)
      /\ clash' = clash \cup IF same = {} THEN {} ELSE {n} \cup {csend[u].packet : u \in same}
      /\ UNCHANGED <<frameId, pbuf, canOut, hit, canFaults>>

WriteIdent(t) ==
  /\ csend[t].at = "read"
  /\ frameId' = [frameId EXCEPT ![CanNode[t]] = (csend[t].ident + 1) % IdMod]
  /\ csend' = [csend EXCEPT ![t].at = "begin"]
  /\ UNCHANGED <<packets, pbuf, canOut, hit, clash, canFaults>>

\* The frame csp_can_tx sends next.
Frame(t) ==
  LET s == csend[t]
      left == CanLength[s.packet] - s.count
      room == IF s.at = "begin" THEN MaxBytes - Overhead ELSE MaxBytes
      size == IF left <= room THEN left ELSE room
  IN  [id |-> <<CanNode[t], s.ident>>, packet |-> s.packet, offset |-> s.count, size |-> size,
       remain |-> IF s.at = "begin"
                  THEN (left + Overhead - 1) \div MaxBytes
                  ELSE (left - size + MaxBytes - 1) \div MaxBytes]

Sent(t, f) ==
  csend' = [csend EXCEPT ![t] =
    IF f.offset + f.size < CanLength[f.packet]
    THEN [@ EXCEPT !.at = "more", !.count = f.offset + f.size]
    ELSE NotSending]

SendBegin(t) ==
  /\ csend[t].at = "begin"
  /\ Sent(t, Frame(t)) /\ RxBegin(Frame(t))
  /\ UNCHANGED <<frameId, packets, clash, canFaults>>

SendMore(t) ==
  /\ csend[t].at = "more"
  /\ Sent(t, Frame(t)) /\ RxMore(Frame(t))
  /\ UNCHANGED <<frameId, packets, clash, canFaults>>

\* The frame is lost, or tx_func fails and the rest is not sent.
SendLost(t) ==
  /\ csend[t].at \in {"begin", "more"} /\ canFaults < CanMaxFaults
  /\ Sent(t, Frame(t)) \/ csend' = [csend EXCEPT ![t] = NotSending]
  /\ hit' = hit \cup {csend[t].packet}
  /\ canFaults' = canFaults + 1
  /\ UNCHANGED <<frameId, packets, pbuf, canOut, clash>>

CanNext ==
  \E t \in CanTasks :
    ReadIdent(t) \/ WriteIdent(t) \/ SendBegin(t) \/ SendMore(t) \/ SendLost(t)

CanSpec == CanInit /\ [][CanNext]_canVars

----------------------------------------------------------------------------
\* Properties

Whole(p) ==
  /\ \A i \in 1..Len(p.parts) : p.parts[i].packet = p.packet
  /\ \A i \in 1..Len(p.parts) - 1 :
       p.parts[i + 1].offset = p.parts[i].offset + p.parts[i].size
  /\ p.parts[1].offset = 0

\* What the router is given is a packet that was sent, and not the frames of
\* several, as long as identifiers are not used again, or, when they are, as
\* long as no two tasks of a node get the same one and at most one frame is lost.
CanIntact ==
  \/ \A m, n \in 1..Len(packets) : packets[m] = packets[n] => m = n
  \/ clash = {} /\ canFaults <= 1
  => \A k \in 1..Len(canOut) : Whole(canOut[k])

\* A packet is not held up by others: if it lost no frame, no buffer and no
\* element, and no other task used its identifier meanwhile, it gets through.
CanDelivers ==
  \A n \in 1..Len(packets) :
    n \notin hit \cup clash /\ (\A t \in CanTasks : csend[t].packet # n)
      => \E k \in 1..Len(canOut) : canOut[k].packet = n

=============================================================================
