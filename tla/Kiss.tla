-------------------------------- MODULE Kiss --------------------------------
(***************************************************************************)
(* csp_if_kiss.c: frames on a serial line.  Several tasks share the        *)
(* interface; the transmitter is guarded by a mutex and hands the driver a *)
(* frame in pieces.  The line may drop, change or invent a byte.           *)
(*                                                                         *)
(* A byte is one of the framing bytes or a plain one.  The header is one   *)
(* byte here, and so is the checksum: on the line it is "CRC", and it is   *)
(* the checksum of the data of the frame it was sent in.  Every byte on    *)
(* the line carries the number of its frame, which nothing in the receiver *)
(* looks at but for that.                                                  *)
(***************************************************************************)
EXTENDS Integers, Sequences

CONSTANTS
  KissTasks,   \* the tasks that send
  KissPacket,  \* KissPacket[n]: header and data of the n-th frame sent
  MaxRxLength, \* max_rx_length
  WireCap,     \* bound on the bytes on the line
  KissMaxNoise,    \* bound on the bytes disturbed
  KissMaxNoBuffer  \* bound on failing buffer allocations

Special == {"FEND", "FESC", "TFEND", "TFESC", "TNC"}
Bytes == Special \cup {"DATA"}
HeaderLength == 1
CrcLength == 1

ASSUME KissAssumption ==
  /\ KissPacket \in Seq(Seq(Bytes) \ {<<>>})
  /\ MaxRxLength \in Nat /\ WireCap \in Nat
  /\ KissMaxNoise \in Nat /\ KissMaxNoBuffer \in Nat
  /\ \A n \in 1..Len(KissPacket) : Len(KissPacket[n]) + CrcLength <= MaxRxLength

VARIABLES
  tx,       \* tx[t]: the frame task t sends and how many bytes of it are out
  holder,   \* the tasks that hold the mutex
  frames,   \* the number of frames started
  wire,     \* the bytes on the line
  rxMode, rxFirst, rxBytes,  \* rx_mode, rx_first, and the rx_length bytes
  rxPacket,   \* rx_packet is not NULL
  delivered,  \* history: what was given to the router
  disturbed,  \* history: frames hit by noise or by the lack of a buffer
  kissNoise, kissNoBuffer   \* how much of either there was

kissVars == <<tx, holder, frames, wire, rxMode, rxFirst, rxBytes, rxPacket,
              delivered, disturbed, kissNoise, kissNoBuffer>>

Idle == [frame |-> 0, sent |-> 0]

KissInit ==
  /\ tx = [t \in KissTasks |-> Idle] /\ holder = {} /\ frames = 0 /\ wire = <<>>
  /\ rxMode = "NOT_STARTED" /\ rxFirst = FALSE /\ rxBytes = <<>> /\ rxPacket = FALSE
  /\ delivered = <<>> /\ disturbed = {} /\ kissNoise = 0 /\ kissNoBuffer = 0

Data(n) == Tail(KissPacket[n])

----------------------------------------------------------------------------
\* Sending

rxVars == <<rxMode, rxFirst, rxBytes, rxPacket, delivered>>
kissFaults == <<disturbed, kissNoise, kissNoBuffer>>

Contents(n) == KissPacket[n] \o <<"CRC">>

\* What tx_func is given for the i-th byte, 0 for the start of the frame.
Piece(n, i) ==
  CASE i = 0 -> <<"FEND", "TNC">>
    [] i > Len(Contents(n)) -> <<"FEND">>
    [] i \in 1..Len(Contents(n)) ->
         CASE Contents(n)[i] = "FEND" -> <<"FESC", "TFEND">>
           [] Contents(n)[i] = "FESC" -> <<"FESC", "TFESC">>
           [] OTHER -> <<Contents(n)[i]>>

NoMutex(t) == TRUE  \* mutant: the mutex is not taken
MayLock(t) == holder = {}

KissLock(t) ==
  /\ tx[t] = Idle /\ frames < Len(KissPacket) /\ MayLock(t)
  /\ holder' = holder \cup {t}
  /\ frames' = frames + 1
  /\ tx' = [tx EXCEPT ![t] = [frame |-> frames + 1, sent |-> 0]]
  /\ UNCHANGED <<wire, rxVars, kissFaults>>

Transmit(t) ==
  LET n == tx[t].frame
      i == tx[t].sent
      piece == Piece(n, i)
  IN  /\ tx[t] # Idle /\ Len(wire) < WireCap
      /\ wire' = wire \o [j \in 1..Len(piece) |-> [byte |-> piece[j], frame |-> n]]
      /\ IF i > Len(Contents(n))
         THEN holder' = holder \ {t} /\ tx' = [tx EXCEPT ![t] = Idle]
         ELSE tx' = [tx EXCEPT ![t].sent = i + 1] /\ UNCHANGED holder
      /\ UNCHANGED <<frames, rxVars, kissFaults>>

----------------------------------------------------------------------------
\* The line

Noise ==
  /\ wire # <<>> /\ kissNoise < KissMaxNoise
  /\ \/ wire' = Tail(wire)
     \/ \E b \in {"FEND", "FESC", "DATA"} : wire' = [wire EXCEPT ![1].byte = b]
     \/ \E b \in {"FEND", "FESC", "DATA"} :
          wire' = <<[byte |-> b, frame |-> Head(wire).frame]>> \o wire
  /\ kissNoise' = kissNoise + 1
  /\ disturbed' = disturbed \cup {Head(wire).frame}
  /\ UNCHANGED <<tx, holder, frames, rxVars, kissNoBuffer>>

----------------------------------------------------------------------------
\* Receiving: csp_kiss_rx for one byte

Overflow == Len(rxBytes) > MaxRxLength
\* The state in which the byte is looked at, once an overflow is dealt with.
Mode == IF Overflow THEN "NOT_STARTED" ELSE rxMode
Received == IF Overflow THEN <<>> ELSE rxBytes

Store(b) == Append(Received, [byte |-> b, frame |-> Head(wire).frame])

\* csp_crc32_verify without the header: the data are those the checksum,
\* its last bytes, was made of.
AnyCrc(bytes) == TRUE  \* mutant: the checksum is not verified
CrcOk(bytes) ==
  LET last == bytes[Len(bytes)]
  IN  last.byte = "CRC" /\ [i \in 1..Len(bytes) - 2 |-> bytes[i + 1].byte] = Data(last.frame)

LongEnough(bytes) == Len(bytes) >= HeaderLength + CrcLength

RxNotStarted ==
  /\ wire # <<>> /\ Mode = "NOT_STARTED"
  /\ \/ /\ Head(wire).byte # "FEND"
        /\ rxMode' = Mode /\ rxBytes' = Received
        /\ UNCHANGED <<rxFirst, rxPacket, disturbed, kissNoBuffer>>
     \/ /\ Head(wire).byte = "FEND"
        /\ rxMode' = "STARTED" /\ rxFirst' = TRUE /\ rxPacket' = TRUE /\ rxBytes' = <<>>
        /\ UNCHANGED <<disturbed, kissNoBuffer>>
     \/ /\ Head(wire).byte = "FEND" /\ ~rxPacket /\ kissNoBuffer < KissMaxNoBuffer
        /\ rxMode' = "SKIP_FRAME" /\ rxBytes' = Received
        /\ disturbed' = disturbed \cup {Head(wire).frame}
        /\ kissNoBuffer' = kissNoBuffer + 1
        /\ UNCHANGED <<rxFirst, rxPacket>>
  /\ wire' = Tail(wire)
  /\ UNCHANGED <<tx, holder, frames, delivered, kissNoise>>

\* The end of a frame.  One without content is none: the byte then belongs to
\* the start of the next frame.
EmptyEnds == "NOT_STARTED"  \* mutant: any end byte ends a frame
EmptyStays == "STARTED"

RxEnd ==
  /\ wire # <<>> /\ Mode = "STARTED" /\ Head(wire).byte = "FEND"
  /\ rxMode' = IF Received = <<>> THEN EmptyStays ELSE "NOT_STARTED"
  /\ IF Received # <<>> /\ LongEnough(Received) /\ CrcOk(Received)
     THEN /\ delivered' = Append(delivered,
               [frame |-> Received[Len(Received)].frame,
                data |-> [i \in 1..Len(Received) - 2 |-> Received[i + 1].byte]])
          /\ rxPacket' = FALSE
     ELSE UNCHANGED <<delivered, rxPacket>>
  /\ rxBytes' = Received
  /\ wire' = Tail(wire)
  /\ UNCHANGED <<tx, holder, frames, rxFirst, kissFaults>>

RxStarted ==
  /\ wire # <<>> /\ Mode = "STARTED" /\ Head(wire).byte # "FEND"
  /\ \/ /\ Head(wire).byte = "FESC"
        /\ rxMode' = "ESCAPED" /\ rxBytes' = Received /\ UNCHANGED rxFirst
     \/ /\ Head(wire).byte # "FESC" /\ rxFirst
        /\ rxFirst' = FALSE /\ rxMode' = Mode /\ rxBytes' = Received
     \/ /\ Head(wire).byte # "FESC" /\ ~rxFirst
        /\ rxBytes' = Store(Head(wire).byte) /\ rxMode' = Mode /\ UNCHANGED rxFirst
  /\ wire' = Tail(wire)
  /\ UNCHANGED <<tx, holder, frames, rxPacket, delivered, kissFaults>>

RxEscaped ==
  /\ wire # <<>> /\ Mode = "ESCAPED"
  /\ rxBytes' = CASE Head(wire).byte = "TFESC" -> Store("FESC")
                  [] Head(wire).byte = "TFEND" -> Store("FEND")
                  [] OTHER -> Received
  /\ rxMode' = "STARTED"
  /\ wire' = Tail(wire)
  /\ UNCHANGED <<tx, holder, frames, rxFirst, rxPacket, delivered, kissFaults>>

RxSkip ==
  /\ wire # <<>> /\ Mode = "SKIP_FRAME"
  /\ rxMode' = IF Head(wire).byte = "FEND" THEN "NOT_STARTED" ELSE Mode
  /\ rxBytes' = Received
  /\ wire' = Tail(wire)
  /\ UNCHANGED <<tx, holder, frames, rxFirst, rxPacket, delivered, kissFaults>>

KissNext ==
  \/ \E t \in KissTasks : KissLock(t) \/ Transmit(t)
  \/ Noise
  \/ RxNotStarted \/ RxEnd \/ RxStarted \/ RxEscaped \/ RxSkip

KissSpec == KissInit /\ [][KissNext]_kissVars

----------------------------------------------------------------------------
\* Properties

\* Whatever state noise or a missing buffer leaves the receiver in, it is back
\* in step after one whole frame: a frame that got through the line untouched
\* behind another one is given to the router.
Passed(n) ==
  /\ n \in 1..frames
  /\ \A t \in KissTasks : tx[t].frame # n
  /\ \A i \in 1..Len(wire) : wire[i].frame # n
KissResync ==
  \A n \in 1..frames :
    Passed(n) /\ n \notin disturbed /\ n - 1 \notin disturbed
      => \E k \in 1..Len(delivered) : delivered[k].frame = n

\* The interface is a lossy queue of packets' data: escaping, resynchronising
\* and the checksum let nothing through that was not sent, nothing twice and
\* nothing out of order.  (The header is not covered by the checksum.)
KissQueue == INSTANCE LossyQueue WITH
  Message <- {Data(n) : n \in 1..Len(KissPacket)},
  chan <- LET last == IF delivered = <<>> THEN 0 ELSE delivered[Len(delivered)].frame
          IN  [i \in 1..frames - last |-> Data(last + i)],
  got <- [k \in 1..Len(delivered) |-> delivered[k].data]
KissIsLossyQueue == KissQueue!Spec

=============================================================================
