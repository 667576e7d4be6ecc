------------------------------ MODULE SerialProofs --------------------------
(***************************************************************************)
(* Proofs about the modules of the serial line: Kiss, for all tasks and    *)
(* packets and any amount of noise, and Uart, the programs that send       *)
(* packets over a line or a pipe without frames, for all messages, sizes   *)
(* of packets and numbers of buffers.                                      *)
(***************************************************************************)
EXTENDS Kiss, Uart, SequenceTheorems, TLAPS

----------------------------------------------------------------------------
\* Module Kiss

Symbols == Bytes \cup {"CRC"}
LineBytes == [byte : Symbols, frame : Nat]

\* The frame of the last delivery, and the last whose checksum has been sent.
Last == IF delivered = <<>> THEN 0 ELSE delivered[Len(delivered)].frame
Unsent(t) == tx[t] # Idle /\ tx[t].sent <= Len(Contents(tx[t].frame))
Limit == IF \E t \in KissTasks : Unsent(t) THEN frames - 1 ELSE frames

KissType ==
  /\ frames \in 0..Len(KissPacket)
  /\ tx \in [KissTasks -> [frame : Nat, sent : Nat]]
  /\ wire \in Seq(LineBytes) /\ rxBytes \in Seq(LineBytes)
  /\ delivered \in Seq([frame : Nat, data : Seq(Bytes)])

\* One task sends at a time, and it sends the last frame that was started.
Mutex ==
  \A t \in KissTasks : tx[t] # Idle => holder = {t} /\ tx[t].frame = frames /\ frames > 0

\* Checksums are on the line in the order of their frames, after those the
\* receiver holds, and these after those it has used.
Fresh(b, last, limit) == b.byte = "CRC" => last < b.frame /\ b.frame <= limit
Before(a, b) == a.byte = "CRC" /\ b.byte = "CRC" => a.frame < b.frame
Ordered ==
  /\ Last <= Limit
  /\ \A i \in 1..Len(wire) : Fresh(wire[i], Last, Limit)
  /\ \A i, j \in 1..Len(wire) : i < j => Before(wire[i], wire[j])
  /\ rxMode \in {"STARTED", "ESCAPED"} =>
       \A k \in 1..Len(rxBytes) :
         Fresh(rxBytes[k], Last, Limit) /\ \A i \in 1..Len(wire) : Before(rxBytes[k], wire[i])

KissInv == KissType /\ Mutex /\ Ordered

----------------------------------------------------------------------------
LEMMA PacketCount == Len(KissPacket) \in Nat
BY KissAssumption

LEMMA PacketFacts ==
  ASSUME NEW n \in 1..Len(KissPacket)
  PROVE  /\ Data(n) \in Seq(Bytes)
         /\ Len(Contents(n)) \in Nat /\ Len(Contents(n)) > 0
         /\ \A i \in 1..Len(Contents(n)) :
              Contents(n)[i] \in Symbols /\ (Contents(n)[i] = "CRC" => i = Len(Contents(n)))
<1>1. KissPacket[n] \in Seq(Bytes) /\ KissPacket[n] # <<>>
  BY KissAssumption
<1>2. "CRC" \in Symbols /\ "CRC" \notin Bytes /\ Bytes \subseteq Symbols
  BY DEF Symbols, Bytes, Special
<1> DEFINE k == Len(KissPacket[n])
<1>3. k \in Nat /\ k > 0 /\ \A i \in 1..k : KissPacket[n][i] \in Bytes
  BY <1>1
<1>4. Data(n) \in Seq(Bytes)
  BY <1>1 DEF Data
<1>5. /\ Len(Contents(n)) = k + 1
      /\ \A i \in 1..k + 1 :
           Contents(n)[i] = IF i <= k THEN KissPacket[n][i] ELSE "CRC"
  <2>1. <<"CRC">> \in Seq(Symbols) /\ KissPacket[n] \in Seq(Symbols) /\ Len(<<"CRC">>) = 1
    BY <1>1, <1>2
  <2> QED
    BY <1>3, <2>1 DEF Contents
<1> HIDE DEF k
<1>6. ASSUME NEW i \in 1..k + 1
      PROVE  Contents(n)[i] \in Symbols /\ (Contents(n)[i] = "CRC" => i = k + 1)
  <2>1. CASE i = k + 1
    BY <1>2, <1>3, <1>5, <2>1
  <2>2. CASE i \in 1..k
    BY <1>2, <1>3, <1>5, <2>2
  <2> QED
    BY <1>3, <2>1, <2>2
<1> QED
  BY <1>3, <1>4, <1>5, <1>6

\* A piece for the driver is one or two bytes; the checksum is one of its own.
LEMMA PieceFacts ==
  ASSUME NEW n \in 1..Len(KissPacket), NEW i \in Nat
  PROVE  /\ Len(Piece(n, i)) \in {1, 2}
         /\ \A j \in 1..Len(Piece(n, i)) : Piece(n, i)[j] \in Symbols
         /\ i # Len(Contents(n)) =>
              \A j \in 1..Len(Piece(n, i)) : Piece(n, i)[j] # "CRC"
         /\ i = Len(Contents(n)) =>
              Len(Piece(n, i)) = 1 \/ \A j \in 1..Len(Piece(n, i)) : Piece(n, i)[j] # "CRC"
<1> DEFINE k == Len(Contents(n))
           c == Contents(n)[i]
<1>1. {"FEND", "FESC", "TFEND", "TFESC", "TNC"} \subseteq Symbols
  BY DEF Symbols, Bytes, Special
<1>2. k \in Nat /\ k > 0 /\ (i \in 1..k => c \in Symbols /\ (c = "CRC" => i = k))
  BY PacketFacts
<1>3. \/ i = 0 /\ Piece(n, i) = <<"FEND", "TNC">>
      \/ i > k /\ Piece(n, i) = <<"FEND">>
      \/ i \in 1..k /\ (\/ Piece(n, i) = <<"FESC", "TFEND">>
                        \/ Piece(n, i) = <<"FESC", "TFESC">>
                        \/ Piece(n, i) = <<c>>)
  BY <1>2 DEF Piece
<1> HIDE DEF k, c
<1>4. CASE Piece(n, i) \in {<<"FEND", "TNC">>, <<"FEND">>, <<"FESC", "TFEND">>, <<"FESC", "TFESC">>}
  BY <1>1, <1>4 DEF k
<1>5. CASE i \in 1..k /\ Piece(n, i) = <<c>>
  BY <1>2, <1>5 DEF k
<1> QED
  BY <1>3, <1>4, <1>5

LEMMA WireTail ==
  ASSUME KissType, wire # <<>>
  PROVE  /\ Len(wire) \in Nat /\ Len(wire) > 0 /\ Head(wire) = wire[1]
         /\ wire[1] \in LineBytes /\ wire[1].byte \in Symbols /\ wire[1].frame \in Nat
         /\ Tail(wire) \in Seq(LineBytes) /\ Len(Tail(wire)) = Len(wire) - 1
         /\ \A i \in 1..Len(Tail(wire)) :
              i + 1 \in 1..Len(wire) /\ Tail(wire)[i] = wire[i + 1]
<1>1. wire \in Seq(LineBytes)
  BY DEF KissType
<1>2. Len(wire) \in Nat /\ Len(wire) > 0 /\ wire[1] \in LineBytes /\ Head(wire) = wire[1]
  BY <1>1
<1>3. wire[1].byte \in Symbols /\ wire[1].frame \in Nat
  BY <1>2 DEF LineBytes
<1> QED
  BY <1>1, <1>2, <1>3

LEMMA LastNat == ASSUME KissType PROVE Last \in Nat
<1>1. ASSUME delivered # <<>> PROVE delivered[Len(delivered)].frame \in Nat
  <2>1. delivered \in Seq([frame : Nat, data : Seq(Bytes)])
    BY DEF KissType
  <2>2. Len(delivered) \in 1..Len(delivered)
    BY <1>1, <2>1
  <2>3. delivered[Len(delivered)] \in [frame : Nat, data : Seq(Bytes)]
    BY <2>1, <2>2, ElementOfSeq
  <2> QED
    BY <2>3
<1> QED
  BY <1>1 DEF Last

LEMMA LimitInt == ASSUME KissType PROVE Limit \in Int /\ Limit <= frames /\ frames \in Int
BY DEF KissType, Limit

\* What a task that starts or goes on does to the limit.
LEMMA LimitOfLock ==
  ASSUME KissType, Mutex, NEW t \in KissTasks, KissLock(t)
  PROVE  Limit' = Limit
<1>1. \A u \in KissTasks : tx[u] = Idle
  BY DEF KissLock, MayLock, Mutex
<1>2. tx'[t] = [frame |-> frames + 1, sent |-> 0] /\ frames' = frames + 1
  BY DEF KissLock, KissType
<1>3. frames + 1 \in 1..Len(KissPacket) /\ frames \in Nat
  BY KissAssumption DEF KissLock, KissType
<1>4. Unsent(t)'
  BY <1>2, <1>3, PacketFacts DEF Unsent, Idle
<1>5. Limit' = frames
  BY <1>2, <1>3, <1>4 DEF Limit
<1> QED
  BY <1>1, <1>5 DEF Limit, Unsent

LEMMA LimitOfTransmit ==
  ASSUME KissType, Mutex, NEW t \in KissTasks, Transmit(t)
  PROVE  /\ tx[t].frame = frames /\ frames \in 1..Len(KissPacket) /\ tx[t].sent \in Nat
         /\ frames' = frames
         /\ tx[t].sent # Len(Contents(frames)) => Limit' = Limit
         /\ tx[t].sent = Len(Contents(frames)) => Limit = frames - 1 /\ Limit' = frames
<1> DEFINE i == tx[t].sent
           k == Len(Contents(frames))
<1>1. tx[t].frame = frames /\ frames \in 1..Len(KissPacket) /\ i \in Nat /\ frames' = frames
  BY KissAssumption DEF Transmit, Mutex, KissType
<1>2. \A u \in KissTasks : u # t => tx[u] = Idle /\ tx'[u] = Idle
  BY DEF Transmit, Mutex, KissType
<1>3. k \in Nat /\ tx[t] # Idle
  BY <1>1, PacketFacts DEF Transmit
<1>4. tx'[t] = IF i > k THEN Idle ELSE [tx[t] EXCEPT !.sent = i + 1]
  BY <1>1 DEF Transmit, KissType
<1>5. i <= k => tx'[t].frame = frames /\ tx'[t].sent = i + 1 /\ tx'[t] # Idle
  BY <1>1, <1>3, <1>4 DEF KissType, Idle
<1> HIDE DEF i, k
<1>6. Unsent(t) <=> i <= k
  BY <1>1, <1>3 DEF Unsent, i, k
<1>7. Unsent(t)' <=> i < k
  <2>1. CASE i > k
    BY <1>1, <1>3, <1>4, <2>1 DEF Unsent
  <2>2. CASE i <= k
    BY <1>1, <1>3, <1>5, <2>2 DEF Unsent, k
  <2> QED
    BY <1>1, <1>3, <2>1, <2>2
<1>8. \A u \in KissTasks : u # t => ~Unsent(u) /\ ~Unsent(u)'
  BY <1>2 DEF Unsent
<1>9. Limit = IF i <= k THEN frames - 1 ELSE frames
  BY <1>6, <1>8 DEF Limit
<1>10. Limit' = IF i < k THEN frames - 1 ELSE frames
  BY <1>1, <1>7, <1>8 DEF Limit
<1> QED
  BY <1>1, <1>3, <1>9, <1>10 DEF i, k

LEMMA LimitKept == ASSUME UNCHANGED <<tx, frames>> PROVE Limit' = Limit
BY DEF Limit, Unsent

----------------------------------------------------------------------------
\* The bytes that a receiver's step leaves in its buffer.
LEMMA StoreFacts ==
  ASSUME KissType, wire # <<>>, ~Overflow, NEW b \in Symbols
  PROVE  /\ Received = rxBytes /\ Store(b) \in Seq(LineBytes)
         /\ Len(Store(b)) = Len(rxBytes) + 1 /\ Len(rxBytes) \in Nat
         /\ \A k \in 1..Len(rxBytes) : Store(b)[k] = rxBytes[k]
         /\ Store(b)[Len(rxBytes) + 1] = [byte |-> b, frame |-> wire[1].frame]
<1>1. rxBytes \in Seq(LineBytes) /\ Received = rxBytes
  BY DEF KissType, Received
<1>2. [byte |-> b, frame |-> Head(wire).frame] \in LineBytes /\ Head(wire) = wire[1]
  BY WireTail DEF LineBytes
<1> QED
  BY <1>1, <1>2 DEF Store

\* What CrcOk says of the bytes received.
LEMMA DeliveryFacts ==
  ASSUME KissType, Mutex, Ordered, RxEnd, delivered' # delivered
  PROVE  \E n \in Nat, k \in 1..Len(rxBytes) :
           /\ rxBytes[k].byte = "CRC" /\ n = rxBytes[k].frame
           /\ Last < n /\ n <= Limit /\ n \in 1..Len(KissPacket) /\ n <= frames
           /\ delivered' = Append(delivered, [frame |-> n, data |-> Data(n)])
           /\ Last' = n /\ delivered' # <<>>
<1>1. Received = rxBytes /\ rxMode = "STARTED" /\ rxBytes # <<>>
  BY DEF RxEnd, Mode, Received
<1> DEFINE last == rxBytes[Len(rxBytes)]
           data == [i \in 1..Len(rxBytes) - 2 |-> rxBytes[i + 1].byte]
           n == last.frame
<1>2. last.byte = "CRC" /\ data = Data(n)
  BY <1>1 DEF RxEnd, CrcOk
<1>3. delivered' = Append(delivered, [frame |-> n, data |-> data])
  BY <1>1 DEF RxEnd
<1>4. Len(rxBytes) \in 1..Len(rxBytes) /\ last \in LineBytes
  BY <1>1 DEF KissType
<1>5. n \in Nat /\ Last < n /\ n <= Limit
  BY <1>1, <1>2, <1>4 DEF Ordered, Fresh, LineBytes
<1>6. Last \in Nat
  BY LastNat
<1>7. n \in 1..Len(KissPacket) /\ n <= frames
  <2>1. frames \in 0..Len(KissPacket)
    BY DEF KissType
  <2> QED
    BY <1>5, <1>6, <2>1, LimitInt, PacketCount
<1> HIDE DEF last, data, n
<1>8. Last' = n /\ delivered' # <<>>
  <2> DEFINE d == [frame |-> n, data |-> data]
  <2>1. /\ Len(delivered') = Len(delivered) + 1 /\ Len(delivered) \in Nat
        /\ delivered'[Len(delivered) + 1] = d
    BY <1>3 DEF KissType
  <2>2. delivered' # <<>>
    BY <2>1
  <2>3. Last' = d.frame
    BY <2>1, <2>2 DEF Last
  <2> QED
    BY <2>2, <2>3
<1> QED
  BY <1>2, <1>3, <1>4, <1>5, <1>7, <1>8 DEF n, last

LEMMA KissInvInit == KissInit => KissInv
<1> SUFFICES ASSUME KissInit PROVE KissInv
  OBVIOUS
<1>1. KissType
  <2>1. Len(KissPacket) \in Nat
    BY KissAssumption
  <2>2. tx \in [KissTasks -> [frame : Nat, sent : Nat]]
    BY DEF KissInit, Idle
  <2>3. wire \in Seq(LineBytes) /\ rxBytes \in Seq(LineBytes)
        /\ delivered \in Seq([frame : Nat, data : Seq(Bytes)])
    BY DEF KissInit
  <2> QED
    BY <2>1, <2>2, <2>3 DEF KissInit, KissType
<1>2. Mutex
  BY DEF KissInit, Mutex
<1>3. Ordered
  <2>1. Len(wire) = 0 /\ rxMode = "NOT_STARTED" /\ Last = 0 /\ frames = 0
    BY DEF KissInit, Last
  <2>2. Limit = 0
    BY <2>1 DEF KissInit, Limit, Unsent
  <2> QED
    BY <2>1, <2>2 DEF Ordered
<1> QED
  BY <1>1, <1>2, <1>3 DEF KissInv

LEMMA KissTypeStep == ASSUME KissInv, KissNext PROVE KissType'
<1> USE DEF KissInv
<1>1. ASSUME NEW t \in KissTasks, KissLock(t) PROVE KissType'
  <2>1. frames' \in 0..Len(KissPacket) /\ frames + 1 \in Nat
    BY <1>1, KissAssumption DEF KissLock, KissType
  <2>2. tx' \in [KissTasks -> [frame : Nat, sent : Nat]]
    BY <1>1, <2>1 DEF KissLock, KissType
  <2> QED
    BY <1>1, <2>1, <2>2 DEF KissLock, KissType, rxVars
<1>2. ASSUME NEW t \in KissTasks, Transmit(t) PROVE KissType'
  <2> DEFINE n == tx[t].frame
             i == tx[t].sent
             piece == Piece(n, i)
             add == [j \in 1..Len(piece) |-> [byte |-> piece[j], frame |-> n]]
  <2>1. n \in 1..Len(KissPacket) /\ i \in Nat /\ frames' = frames
    BY <1>2, LimitOfTransmit
  <2>2. n \in Nat /\ Len(piece) \in Nat /\ \A j \in 1..Len(piece) : piece[j] \in Symbols
    BY <2>1, PieceFacts, PacketCount
  <2> HIDE DEF piece
  <2>3. add \in Seq(LineBytes)
    BY <2>2 DEF LineBytes
  <2>4. wire' = wire \o add
    BY <1>2 DEF Transmit, piece
  <2>5. wire' \in Seq(LineBytes)
    BY <2>3, <2>4 DEF KissType
  <2>6. tx' \in [KissTasks -> [frame : Nat, sent : Nat]]
    <3>1. Idle \in [frame : Nat, sent : Nat] /\ [tx[t] EXCEPT !.sent = i + 1] \in [frame : Nat, sent : Nat]
      BY <2>1 DEF Idle, KissType
    <3>2. tx' = [tx EXCEPT ![t] = Idle] \/ tx' = [tx EXCEPT ![t].sent = i + 1]
      BY <1>2 DEF Transmit
    <3> QED
      BY <3>1, <3>2 DEF KissType
  <2> QED
    BY <1>2, <2>1, <2>5, <2>6 DEF Transmit, KissType, rxVars
<1>3. CASE Noise
  <2>1. {"FEND", "FESC", "DATA"} \subseteq Symbols
    BY DEF Symbols, Bytes, Special
  <2>2. CASE wire' = Tail(wire)
    BY <1>3, <2>2, WireTail DEF Noise, KissType, rxVars
  <2>3. ASSUME NEW b \in {"FEND", "FESC", "DATA"}, wire' = [wire EXCEPT ![1].byte = b]
        PROVE  KissType'
    <3>1. [wire[1] EXCEPT !.byte = b] \in LineBytes
      BY <1>3, <2>1, WireTail DEF Noise, LineBytes
    <3>2. wire' = [wire EXCEPT ![1] = [wire[1] EXCEPT !.byte = b]]
      BY <2>3
    <3>3. wire' \in Seq(LineBytes)
      BY <1>3, <3>1, <3>2 DEF KissType, Noise
    <3> QED
      BY <1>3, <3>3 DEF Noise, KissType, rxVars
  <2>4. ASSUME NEW b \in {"FEND", "FESC", "DATA"},
               wire' = <<[byte |-> b, frame |-> Head(wire).frame]>> \o wire
        PROVE  KissType'
    <3>1. [byte |-> b, frame |-> Head(wire).frame] \in LineBytes
      BY <1>3, <2>1, WireTail DEF Noise, LineBytes
    <3>2. wire' \in Seq(LineBytes)
      BY <2>4, <3>1 DEF KissType
    <3> QED
      BY <1>3, <3>2 DEF Noise, KissType, rxVars
  <2> QED
    BY <1>3, <2>2, <2>3, <2>4 DEF Noise
<1>4. ASSUME wire # <<>>, wire' = Tail(wire), rxBytes' \in Seq(LineBytes),
             UNCHANGED <<tx, frames, delivered>>
      PROVE  KissType'
  BY <1>4, WireTail DEF KissType
<1>5. Received \in Seq(LineBytes) /\ <<>> \in Seq(LineBytes)
  BY DEF Received, KissType
<1>6. CASE RxNotStarted
  BY <1>4, <1>5, <1>6 DEF RxNotStarted
<1>7. CASE RxEnd
  <2>1. wire # <<>> /\ wire' = Tail(wire) /\ rxBytes' = Received /\ UNCHANGED <<tx, frames>>
    BY <1>7 DEF RxEnd
  <2>2. CASE delivered' = delivered
    BY <1>4, <1>5, <2>1, <2>2
  <2>3. CASE delivered' # delivered
    <3>1. PICK n \in Nat : /\ n \in 1..Len(KissPacket)
                           /\ delivered' = Append(delivered, [frame |-> n, data |-> Data(n)])
      BY <1>7, <2>3, DeliveryFacts
    <3>2. delivered' \in Seq([frame : Nat, data : Seq(Bytes)])
      BY <3>1, PacketFacts DEF KissType
    <3> QED
      BY <1>5, <2>1, <3>2, WireTail DEF KissType
  <2> QED
    BY <2>2, <2>3
<1>8. CASE RxStarted
  <2>1. wire # <<>> /\ wire' = Tail(wire) /\ ~Overflow /\ UNCHANGED <<tx, frames, delivered>>
    BY <1>8 DEF RxStarted, Mode
  <2>2. Store(Head(wire).byte) \in Seq(LineBytes)
    BY <2>1, WireTail, StoreFacts
  <2> QED
    BY <1>4, <1>5, <1>8, <2>1, <2>2 DEF RxStarted
<1>9. CASE RxEscaped
  <2>1. wire # <<>> /\ wire' = Tail(wire) /\ ~Overflow /\ UNCHANGED <<tx, frames, delivered>>
    BY <1>9 DEF RxEscaped, Mode
  <2>2. Store("FESC") \in Seq(LineBytes) /\ Store("FEND") \in Seq(LineBytes)
    BY <2>1, StoreFacts DEF Symbols, Bytes, Special
  <2> QED
    BY <1>4, <1>5, <1>9, <2>1, <2>2 DEF RxEscaped
<1>10. CASE RxSkip
  BY <1>4, <1>5, <1>10 DEF RxSkip
<1> QED
  BY <1>1, <1>2, <1>3, <1>6, <1>7, <1>8, <1>9, <1>10 DEF KissNext

LEMMA MutexStep == ASSUME KissInv, KissNext PROVE Mutex'
<1> USE DEF KissInv
<1>1. ASSUME NEW t \in KissTasks, KissLock(t) PROVE Mutex'
  BY <1>1 DEF KissLock, MayLock, Mutex, KissType
<1>2. ASSUME NEW t \in KissTasks, Transmit(t) PROVE Mutex'
  <2>1. tx[t] # Idle /\ holder = {t} /\ tx[t].frame = frames /\ frames > 0 /\ frames' = frames
    BY <1>2 DEF Transmit, Mutex
  <2>2. \A u \in KissTasks : u # t => tx'[u] = Idle
    BY <1>2 DEF Transmit, Mutex, KissType
  <2>3. tx'[t] = Idle \/ (tx'[t].frame = frames /\ holder' = holder)
    BY <1>2, <2>1 DEF Transmit, KissType
  <2> QED
    BY <2>1, <2>2, <2>3 DEF Mutex
<1>3. ASSUME UNCHANGED <<tx, holder, frames>> PROVE Mutex'
  BY <1>3 DEF Mutex
<1> QED
  BY <1>1, <1>2, <1>3
     DEF KissNext, Noise, RxNotStarted, RxEnd, RxStarted, RxEscaped, RxSkip

----------------------------------------------------------------------------
\* The order of the checksums.
Active == rxMode \in {"STARTED", "ESCAPED"}

\* A checksum in the receiver's buffer after a step was there before, or it
\* is the byte received.
LEMMA OrderedReceive ==
  ASSUME KissInv, wire # <<>>, wire' = Tail(wire), UNCHANGED <<tx, frames, delivered>>,
         ASSUME NEW k \in 1..Len(rxBytes'), Active', rxBytes'[k].byte = "CRC"
         PROVE  \/ wire[1].byte = "CRC" /\ rxBytes'[k].frame = wire[1].frame
                \/ Active /\ \E m \in 1..Len(rxBytes) : rxBytes'[k] = rxBytes[m]
  PROVE  Ordered'
<1>1. Ordered /\ Last' = Last /\ Limit' = Limit
  BY LimitKept DEF KissInv, Last
<1>2. /\ Len(wire) \in Nat /\ Len(wire') = Len(wire) - 1 /\ 1 \in 1..Len(wire)
      /\ \A i \in 1..Len(wire') : i + 1 \in 1..Len(wire) /\ wire'[i] = wire[i + 1]
  BY WireTail DEF KissInv
<1>3. \A i \in 1..Len(wire') : Fresh(wire[i + 1], Last, Limit) /\ Before(wire[1], wire[i + 1])
  BY <1>1, <1>2 DEF Ordered
<1>4. \A i, j \in 1..Len(wire') : i < j => Before(wire[i + 1], wire[j + 1])
  BY <1>1, <1>2 DEF Ordered
<1>5. ASSUME Active', NEW k \in 1..Len(rxBytes')
      PROVE  Fresh(rxBytes'[k], Last', Limit') /\ \A i \in 1..Len(wire') : Before(rxBytes'[k], wire'[i])
  <2> SUFFICES ASSUME rxBytes'[k].byte = "CRC"
               PROVE  /\ Fresh(rxBytes'[k], Last', Limit')
                      /\ \A i \in 1..Len(wire') : Before(rxBytes'[k], wire'[i])
    BY DEF Fresh, Before
  <2>1. CASE wire[1].byte = "CRC" /\ rxBytes'[k].frame = wire[1].frame
    <3>1. Fresh(wire[1], Last, Limit)
      BY <1>1, <1>2 DEF Ordered
    <3> QED
      BY <1>1, <1>2, <1>3, <2>1, <3>1 DEF Fresh, Before
  <2>2. ASSUME Active, NEW m \in 1..Len(rxBytes), rxBytes'[k] = rxBytes[m]
        PROVE  /\ Fresh(rxBytes'[k], Last', Limit')
               /\ \A i \in 1..Len(wire') : Before(rxBytes'[k], wire'[i])
    <3>1. Fresh(rxBytes[m], Last, Limit) /\ \A i \in 1..Len(wire) : Before(rxBytes[m], wire[i])
      BY <1>1, <2>2 DEF Ordered, Active
    <3> QED
      BY <1>1, <1>2, <2>2, <3>1 DEF Fresh
  <2> QED
    BY <1>5, <2>1, <2>2
<1>6. \A i \in 1..Len(wire') : Fresh(wire'[i], Last', Limit')
  BY <1>1, <1>2, <1>3 DEF Fresh
<1>7. \A i, j \in 1..Len(wire') : i < j => Before(wire'[i], wire'[j])
  BY <1>2, <1>4
<1> QED
  BY <1>1, <1>5, <1>6, <1>7 DEF Ordered, Active, Before

\* What is added to the line is no checksum, or that of the frame being sent.
LEMMA OrderedSend ==
  ASSUME KissInv, NEW t \in KissTasks, Transmit(t) PROVE Ordered'
<1> DEFINE n == frames
           i == tx[t].sent
           piece == Piece(n, i)
           add == [j \in 1..Len(piece) |-> [byte |-> piece[j], frame |-> n]]
           k == Len(wire)
<1> USE DEF KissInv
<1>1. /\ tx[t].frame = n /\ n \in 1..Len(KissPacket) /\ i \in Nat /\ frames' = frames
      /\ i # Len(Contents(n)) => Limit' = Limit
      /\ i = Len(Contents(n)) => Limit = n - 1 /\ Limit' = n
  BY LimitOfTransmit
<1>2. /\ Len(piece) \in {1, 2} /\ \A j \in 1..Len(piece) : piece[j] \in Symbols
      /\ i # Len(Contents(n)) => \A j \in 1..Len(piece) : piece[j] # "CRC"
      /\ i = Len(Contents(n)) =>
           Len(piece) = 1 \/ \A j \in 1..Len(piece) : piece[j] # "CRC"
  BY <1>1, PieceFacts
<1>3. n \in Nat /\ Limit \in Int /\ Last' = Last /\ rxBytes' = rxBytes /\ rxMode' = rxMode
  BY <1>1, LimitInt, PacketCount DEF Transmit, rxVars, Last
<1>4. Limit <= Limit' /\ Limit' \in Int
  BY <1>1, <1>3
<1> HIDE DEF piece
<1>5. wire' = wire \o add
  BY <1>1 DEF Transmit, piece
<1>6. /\ k \in Nat /\ Len(wire') = k + Len(piece)
      /\ \A j \in 1..k : wire'[j] = wire[j]
      /\ \A j \in k + 1..Len(wire') :
           j - k \in 1..Len(piece) /\ wire'[j].byte = piece[j - k] /\ wire'[j].frame = n
  <2>1. add \in Seq(LineBytes) /\ Len(add) = Len(piece)
    BY <1>2, <1>3 DEF LineBytes
  <2>2. wire \in Seq(LineBytes) /\ Len(piece) \in Nat
    BY <1>2 DEF KissType
  <2>3. /\ k \in Nat /\ Len(wire') = k + Len(piece)
        /\ \A j \in 1..Len(wire') : wire'[j] = IF j <= k THEN wire[j] ELSE add[j - k]
    BY <1>5, <2>1, <2>2
  <2> HIDE DEF k
  <2>4. \A j \in k + 1..Len(wire') : j - k \in 1..Len(piece) /\ wire'[j] = add[j - k]
    BY <2>2, <2>3
  <2>5. \A j \in 1..k : wire'[j] = wire[j]
    <3> SUFFICES ASSUME NEW j \in 1..k PROVE wire'[j] = wire[j]
      OBVIOUS
    <3>1. j \in 1..Len(wire') /\ j <= k
      BY <2>2, <2>3
    <3> QED
      BY <2>3, <3>1
  <2>6. \A j \in 1..Len(piece) : add[j].byte = piece[j] /\ add[j].frame = n
    OBVIOUS
  <2> HIDE DEF add
  <2> QED
    BY <2>3, <2>4, <2>5, <2>6
<1> HIDE DEF add, k
\* A checksum that is added is the only byte added, and Limit rises to it.
<1>7. ASSUME NEW j \in k + 1..Len(wire'), wire'[j].byte = "CRC"
      PROVE  j = Len(wire') /\ j = k + 1 /\ wire'[j].frame = n /\ Limit' = n /\ Limit = n - 1
  <2>1. j - k \in 1..Len(piece) /\ piece[j - k] = "CRC" /\ wire'[j].frame = n
    BY <1>6, <1>7
  <2>2. i = Len(Contents(n)) /\ Len(piece) = 1
    BY <1>1, <1>2, <2>1
  <2>3. j \in Int /\ j = k + 1 /\ j = Len(wire')
    BY <1>6, <2>1, <2>2
  <2> QED
    BY <1>1, <2>1, <2>2, <2>3
<1>8. Last <= Limit /\ Last \in Int
  BY LastNat DEF Ordered
<1>9. \A b \in LineBytes : Fresh(b, Last, Limit) => Fresh(b, Last', Limit')
  BY <1>3, <1>4, <1>8 DEF Fresh, LineBytes
<1>10. /\ \A j \in 1..k : wire[j] \in LineBytes /\ Fresh(wire[j], Last, Limit)
       /\ \A j \in 1..Len(rxBytes) : rxBytes[j] \in LineBytes
  <2>1. wire \in Seq(LineBytes) /\ rxBytes \in Seq(LineBytes)
    BY DEF KissType
  <2>2. \A j \in 1..k : Fresh(wire[j], Last, Limit)
    BY DEF Ordered, k
  <2>3. \A j \in 1..k : wire[j] \in LineBytes
    BY <2>1 DEF k
  <2>4. \A j \in 1..Len(rxBytes) : rxBytes[j] \in LineBytes
    BY <2>1
  <2> QED
    BY <2>2, <2>3, <2>4
<1>11. ASSUME NEW j \in 1..Len(wire') PROVE Fresh(wire'[j], Last', Limit')
  <2>1. CASE j \in 1..k
    BY <1>6, <1>9, <1>10, <2>1
  <2>2. CASE j \in k + 1..Len(wire')
    BY <1>3, <1>7, <1>8, <2>2 DEF Fresh
  <2> QED
    BY <1>6, <2>1, <2>2
<1>12. ASSUME NEW g \in 1..Len(wire'), NEW j \in 1..Len(wire'), g < j
       PROVE  Before(wire'[g], wire'[j])
  <2>1. CASE j \in 1..k
    <3>1. g \in 1..k
      BY <1>6, <1>12, <2>1
    <3> QED
      BY <1>6, <1>12, <2>1, <3>1 DEF Ordered, k
  <2>2. CASE j \in k + 1..Len(wire')
    <3> SUFFICES ASSUME wire'[g].byte = "CRC", wire'[j].byte = "CRC"
                 PROVE  wire'[g].frame < wire'[j].frame
      BY DEF Before
    <3>1. j = k + 1 /\ wire'[j].frame = n /\ Limit = n - 1
      BY <1>7, <2>2
    <3>2. g \in 1..k /\ wire'[g] = wire[g]
      BY <1>6, <1>12, <3>1
    <3> QED
      BY <1>3, <1>10, <3>1, <3>2 DEF Fresh, LineBytes
  <2> QED
    BY <1>6, <2>1, <2>2
<1>13. ASSUME Active', NEW g \in 1..Len(rxBytes')
       PROVE  Fresh(rxBytes'[g], Last', Limit') /\ \A j \in 1..Len(wire') : Before(rxBytes'[g], wire'[j])
  <2>1. Fresh(rxBytes[g], Last, Limit) /\ \A j \in 1..k : Before(rxBytes[g], wire[j])
    BY <1>3, <1>13 DEF Ordered, Active, k
  <2>2. Fresh(rxBytes'[g], Last', Limit')
    BY <1>3, <1>9, <1>10, <2>1
  <2>3. ASSUME NEW j \in 1..Len(wire') PROVE Before(rxBytes[g], wire'[j])
    <3>1. CASE j \in 1..k
      BY <1>6, <2>1, <3>1
    <3>2. CASE j \in k + 1..Len(wire')
      BY <1>3, <1>7, <1>10, <2>1, <3>2 DEF Fresh, Before, LineBytes
    <3> QED
      BY <1>6, <3>1, <3>2
  <2> QED
    BY <1>3, <2>2, <2>3
<1> QED
  BY <1>3, <1>4, <1>8, <1>11, <1>12, <1>13 DEF Ordered, Active, Before

LEMMA OrderedStep == ASSUME KissInv, KissNext PROVE Ordered'
<1> USE DEF KissInv
<1>1. ASSUME NEW t \in KissTasks, KissLock(t) PROVE Ordered'
  <2>1. /\ Limit' = Limit /\ UNCHANGED <<wire, rxMode, rxBytes, delivered>>
    BY <1>1, LimitOfLock DEF KissLock, rxVars
  <2>2. Last' = Last
    BY <2>1 DEF Last
  <2> QED
    BY <2>1, <2>2 DEF Ordered, Before
<1>2. ASSUME NEW t \in KissTasks, Transmit(t) PROVE Ordered'
  BY <1>2, OrderedSend
<1>3. CASE Noise
  <2> DEFINE n == Len(wire)
  <2>1. wire # <<>> /\ UNCHANGED <<tx, frames, rxMode, rxBytes, delivered>>
    BY <1>3 DEF Noise, rxVars
  <2>2. Last' = Last /\ Limit' = Limit
    BY <2>1, LimitKept DEF Last
  <2>3. wire \in Seq(LineBytes) /\ n \in Nat /\ n > 0 /\ Head(wire) = wire[1]
    BY <2>1, WireTail DEF KissType
  <2>4. CASE wire' = Tail(wire)
    BY <2>1, <2>4, OrderedReceive DEF Active
  <2>5. ASSUME NEW b \in {"FEND", "FESC", "DATA"}, wire' = [wire EXCEPT ![1].byte = b]
        PROVE  Ordered'
    <3>1. /\ Len(wire') = n /\ wire'[1].byte # "CRC"
          /\ \A i \in 1..n : i # 1 => wire'[i] = wire[i]
      <4>1. wire[1] \in LineBytes
        BY <2>1, WireTail
      <4>2. wire' = [wire EXCEPT ![1] = [wire[1] EXCEPT !.byte = b]]
        BY <2>5
      <4>3. [wire[1] EXCEPT !.byte = b].byte = b /\ b # "CRC"
        BY <4>1 DEF LineBytes
      <4> QED
        BY <2>3, <4>2, <4>3
    <3> HIDE DEF n
    <3>2. \A i \in 1..n : wire'[i].byte = "CRC" => wire'[i] = wire[i]
      BY <3>1
    <3> QED
      BY <2>1, <2>2, <3>1, <3>2 DEF Ordered, Fresh, Before, n
  <2>6. ASSUME NEW b \in {"FEND", "FESC", "DATA"},
               wire' = <<[byte |-> b, frame |-> Head(wire).frame]>> \o wire
        PROVE  Ordered'
    <3>1. /\ Len(wire') = n + 1 /\ wire'[1].byte # "CRC"
          /\ \A i \in 1..n + 1 : i # 1 => i - 1 \in 1..n /\ wire'[i] = wire[i - 1]
      <4> DEFINE first == [byte |-> b, frame |-> Head(wire).frame]
      <4>1. first \in LineBytes /\ first.byte # "CRC"
        BY <2>1, WireTail DEF LineBytes, Symbols, Bytes, Special
      <4> HIDE DEF first
      <4>2. wire' = <<first>> \o wire
        BY <2>6 DEF first
      <4>3. /\ Len(wire') = n + 1 /\ wire'[1] = first
            /\ \A i \in 2..n + 1 : wire'[i] = wire[i - 1]
        BY <2>3, <4>1, <4>2
      <4> QED
        BY <2>3, <4>1, <4>3
    <3> HIDE DEF n
    <3>2. \A i \in 1..n + 1 : wire'[i].byte = "CRC" => i # 1
      BY <3>1
    <3>3. \A i \in 1..n + 1 : Fresh(wire'[i], Last', Limit')
      BY <2>2, <3>1, <3>2 DEF Ordered, Fresh, n
    <3>4. \A i, j \in 1..n + 1 : i < j => Before(wire'[i], wire'[j])
      <4> SUFFICES ASSUME NEW i \in 1..n + 1, NEW j \in 1..n + 1, i < j,
                          wire'[i].byte = "CRC", wire'[j].byte = "CRC"
                   PROVE  wire'[i].frame < wire'[j].frame
        BY DEF Before
      <4>1. i - 1 \in 1..n /\ j - 1 \in 1..n /\ i - 1 < j - 1
        BY <2>3, <3>1, <3>2 DEF n
      <4>2. wire'[i] = wire[i - 1] /\ wire'[j] = wire[j - 1]
        BY <3>1, <3>2
      <4>3. Before(wire[i - 1], wire[j - 1])
        BY <4>1 DEF Ordered, n
      <4> QED
        BY <4>2, <4>3 DEF Before
    <3>5. Active => \A k \in 1..Len(rxBytes) : \A i \in 1..n + 1 : Before(rxBytes[k], wire'[i])
      <4> SUFFICES ASSUME Active, NEW k \in 1..Len(rxBytes), NEW i \in 1..n + 1,
                          wire'[i].byte = "CRC"
                   PROVE  Before(rxBytes[k], wire'[i])
        BY DEF Before
      <4> QED
        BY <3>1, <3>2 DEF Ordered, Active, n
    <3> QED
      BY <2>1, <2>2, <3>1, <3>3, <3>4, <3>5 DEF Ordered, Active, Before
  <2> QED
    BY <1>3, <2>4, <2>5, <2>6 DEF Noise
\* A step that only drops bytes of the buffer, or all of them.
<1>4. ASSUME wire # <<>>, wire' = Tail(wire), UNCHANGED <<tx, frames, delivered>>,
             rxBytes' = <<>> \/ ~Active' \/ (Active /\ rxBytes' = rxBytes)
      PROVE  Ordered'
  <2>1. ASSUME NEW k \in 1..Len(rxBytes'), Active', rxBytes'[k].byte = "CRC"
        PROVE  Active /\ \E m \in 1..Len(rxBytes) : rxBytes'[k] = rxBytes[m]
    <3>1. rxBytes' # <<>>
      BY <2>1
    <3> QED
      BY <1>4, <2>1, <3>1
  <2> QED
    BY <1>4, <2>1, OrderedReceive
<1>5. Received = rxBytes \/ Received = <<>>
  BY DEF Received
<1>6. CASE RxNotStarted
  <2>1. /\ wire # <<>> /\ wire' = Tail(wire) /\ UNCHANGED <<tx, frames, delivered>>
        /\ Mode = "NOT_STARTED"
    BY <1>6 DEF RxNotStarted
  <2>2. rxMode' \in {"NOT_STARTED", "SKIP_FRAME"} \/ rxBytes' = <<>>
    BY <1>6 DEF RxNotStarted
  <2> QED
    BY <1>4, <2>1, <2>2 DEF Active
<1>7. CASE RxEnd
  <2>1. /\ wire # <<>> /\ wire' = Tail(wire) /\ UNCHANGED <<tx, frames>>
        /\ rxMode = "STARTED" /\ rxBytes' = rxBytes
        /\ delivered' # delivered => rxMode' = "NOT_STARTED"
    BY <1>7 DEF RxEnd, Mode, Received
  <2>2. CASE delivered' = delivered
    BY <1>4, <2>1, <2>2 DEF Active
  <2>3. CASE delivered' # delivered
    <3>1. PICK n \in Nat, k \in 1..Len(rxBytes) :
            rxBytes[k].byte = "CRC" /\ n = rxBytes[k].frame /\ n <= Limit /\ Last' = n
      BY <1>7, <2>3, DeliveryFacts
    <3>2. Limit' = Limit
      BY <2>1, LimitKept
    <3>3. /\ Len(wire') = Len(wire) - 1 /\ Len(wire) \in Nat
          /\ \A i \in 1..Len(wire') : i + 1 \in 1..Len(wire) /\ wire'[i] = wire[i + 1]
      BY <2>1, WireTail
    <3>4. \A i \in 1..Len(wire) : Fresh(wire[i], n, Limit)
      BY <2>1, <3>1 DEF Ordered, Before, Fresh
    <3>5. \A i \in 1..Len(wire') : Fresh(wire'[i], Last', Limit')
      BY <3>1, <3>2, <3>3, <3>4
    <3>6. ASSUME NEW i \in 1..Len(wire'), NEW j \in 1..Len(wire'), i < j
          PROVE  Before(wire'[i], wire'[j])
      <4>1. /\ i + 1 \in 1..Len(wire) /\ j + 1 \in 1..Len(wire) /\ i + 1 < j + 1
            /\ wire'[i] = wire[i + 1] /\ wire'[j] = wire[j + 1]
        BY <3>3, <3>6
      <4>2. Before(wire[i + 1], wire[j + 1])
        BY <4>1 DEF Ordered
      <4> QED
        BY <4>1, <4>2
    <3> QED
      BY <2>1, <2>3, <3>1, <3>2, <3>5, <3>6 DEF Ordered, Before
  <2> QED
    BY <2>2, <2>3
<1>8. CASE RxStarted
  <2>1. /\ wire # <<>> /\ wire' = Tail(wire) /\ UNCHANGED <<tx, frames, delivered>>
        /\ Active /\ ~Overflow /\ Received = rxBytes
    BY <1>8 DEF RxStarted, Mode, Active, Received
  <2>2. CASE rxBytes' = rxBytes
    BY <1>4, <2>1, <2>2
  <2>3. CASE rxBytes' = Store(Head(wire).byte)
    <3>1. /\ Len(rxBytes') = Len(rxBytes) + 1 /\ Len(rxBytes) \in Nat
          /\ \A k \in 1..Len(rxBytes) : rxBytes'[k] = rxBytes[k]
          /\ rxBytes'[Len(rxBytes) + 1] = [byte |-> wire[1].byte, frame |-> wire[1].frame]
      BY <2>1, <2>3, WireTail, StoreFacts
    <3>2. ASSUME NEW k \in 1..Len(rxBytes'), rxBytes'[k].byte = "CRC"
          PROVE  \/ wire[1].byte = "CRC" /\ rxBytes'[k].frame = wire[1].frame
                 \/ Active /\ \E m \in 1..Len(rxBytes) : rxBytes'[k] = rxBytes[m]
      <4>1. CASE k = Len(rxBytes) + 1
        BY <3>1, <3>2, <4>1
      <4>2. CASE k \in 1..Len(rxBytes)
        BY <2>1, <3>1, <4>2
      <4> QED
        BY <3>1, <4>1, <4>2
    <3> QED
      BY <2>1, <3>2, OrderedReceive
  <2> QED
    BY <1>8, <2>1, <2>2, <2>3 DEF RxStarted
<1>9. CASE RxEscaped
  <2>1. /\ wire # <<>> /\ wire' = Tail(wire) /\ UNCHANGED <<tx, frames, delivered>>
        /\ Active /\ ~Overflow /\ Received = rxBytes
    BY <1>9 DEF RxEscaped, Mode, Active, Received
  <2>2. CASE rxBytes' = rxBytes
    BY <1>4, <2>1, <2>2
  <2>3. ASSUME NEW b \in {"FESC", "FEND"}, rxBytes' = Store(b)
        PROVE  Ordered'
    <3>1. /\ Len(rxBytes') = Len(rxBytes) + 1 /\ Len(rxBytes) \in Nat
          /\ \A k \in 1..Len(rxBytes) : rxBytes'[k] = rxBytes[k]
          /\ rxBytes'[Len(rxBytes) + 1].byte = b
      <4>1. b \in Symbols
        BY DEF Symbols, Bytes, Special
      <4>2. rxBytes'[Len(rxBytes) + 1] = [byte |-> b, frame |-> wire[1].frame]
        BY <2>1, <2>3, <4>1, StoreFacts
      <4> QED
        BY <2>1, <2>3, <4>1, <4>2, StoreFacts
    <3>2. ASSUME NEW k \in 1..Len(rxBytes'), rxBytes'[k].byte = "CRC"
          PROVE  \E m \in 1..Len(rxBytes) : rxBytes'[k] = rxBytes[m]
      <4>1. k # Len(rxBytes) + 1
        BY <3>1, <3>2
      <4> QED
        BY <3>1, <4>1
    <3> QED
      BY <2>1, <3>2, OrderedReceive
  <2> QED
    BY <1>9, <2>1, <2>2, <2>3 DEF RxEscaped
<1>10. CASE RxSkip
  <2>1. /\ wire # <<>> /\ wire' = Tail(wire) /\ UNCHANGED <<tx, frames, delivered>>
        /\ Mode = "SKIP_FRAME" /\ rxMode' \in {"NOT_STARTED", "SKIP_FRAME"}
    BY <1>10 DEF RxSkip
  <2> QED
    BY <1>4, <2>1 DEF Active
<1> QED
  BY <1>1, <1>2, <1>3, <1>6, <1>7, <1>8, <1>9, <1>10 DEF KissNext

LEMMA KissInvStep == ASSUME KissInv, [KissNext]_kissVars PROVE KissInv'
<1>1. CASE KissNext
  BY <1>1, KissTypeStep, MutexStep, OrderedStep DEF KissInv
<1>2. CASE UNCHANGED kissVars
  <2>1. UNCHANGED <<tx, holder, frames, wire, rxMode, rxBytes, delivered>>
    BY <1>2 DEF kissVars
  <2>2. KissType' /\ Mutex'
    BY <2>1 DEF KissInv, KissType, Mutex
  <2>3. Last' = Last /\ Limit' = Limit
    BY <2>1, LimitKept DEF Last
  <2> QED
    BY <2>1, <2>2, <2>3 DEF KissInv, Ordered
<1> QED
  BY <1>1, <1>2

----------------------------------------------------------------------------
\* The frames that may still come out, and the data that did.
Waiting == [i \in 1..frames - Last |-> Data(Last + i)]
Came == [k \in 1..Len(delivered) |-> delivered[k].data]

LEMMA WaitingSeq ==
  ASSUME KissInv
  PROVE  /\ Waiting \in Seq(Seq(Bytes)) /\ Len(Waiting) = frames - Last
         /\ frames - Last \in Nat /\ Last \in Nat /\ frames \in 0..Len(KissPacket)
<1>1. Last \in Nat /\ frames \in 0..Len(KissPacket) /\ Last <= frames
  BY LastNat, LimitInt DEF KissInv, KissType, Ordered
<1>2. frames - Last \in Nat
  BY <1>1, PacketCount
<1>3. \A i \in 1..frames - Last : Last + i \in 1..Len(KissPacket)
  BY <1>1, PacketCount
<1> QED
  BY <1>1, <1>2, <1>3, PacketFacts DEF Waiting

\* A frame that is started is put into the queue.
LEMMA LockPuts ==
  ASSUME KissInv, NEW t \in KissTasks, KissLock(t)
  PROVE  \E n \in 1..Len(KissPacket) : Waiting' = Append(Waiting, Data(n)) /\ Came' = Came
<1>1. frames' = frames + 1 /\ frames < Len(KissPacket) /\ delivered' = delivered
  BY DEF KissLock, rxVars
<1>2. Last' = Last /\ Came' = Came
  BY <1>1 DEF Last, Came
<1> DEFINE n == frames + 1
           k == frames - Last
<1>3. /\ k \in Nat /\ Last \in Nat /\ frames \in 0..Len(KissPacket)
      /\ n \in 1..Len(KissPacket) /\ Last + (k + 1) = n
  BY <1>1, WaitingSeq, PacketCount
<1>4. Waiting' = [i \in 1..k + 1 |-> Data(Last + i)]
  <2>1. frames' - Last' = k + 1
    BY <1>1, <1>2, <1>3
  <2> QED
    BY <1>2, <2>1 DEF Waiting
<1>5. Waiting = [i \in 1..k |-> Data(Last + i)]
  BY DEF Waiting
<1> HIDE DEF n, k
<1>6. Append(Waiting, Data(n)) = [i \in 1..k + 1 |-> IF i = k + 1 THEN Data(n) ELSE Data(Last + i)]
  <2>1. Waiting \in Seq(Seq(Bytes)) /\ Len(Waiting) = k
    BY WaitingSeq DEF k
  <2> QED
    BY <1>3, <1>5, <2>1
<1> QED
  BY <1>2, <1>3, <1>4, <1>6

\* A delivery gets its data from the queue.
LEMMA EndGets ==
  ASSUME KissInv, RxEnd, delivered' # delivered
  PROVE  \E i \in 1..Len(Waiting) :
           /\ Came' = Append(Came, Waiting[i])
           /\ Waiting' = SubSeq(Waiting, i + 1, Len(Waiting))
<1>1. PICK n \in Nat : /\ Last < n /\ n \in 1..Len(KissPacket) /\ n <= frames
                       /\ delivered' = Append(delivered, [frame |-> n, data |-> Data(n)])
                       /\ Last' = n
  BY DeliveryFacts DEF KissInv
<1>2. frames' = frames
  BY DEF RxEnd
<1> DEFINE i == n - Last
           k == frames - Last
<1>3. /\ Waiting \in Seq(Seq(Bytes)) /\ Len(Waiting) = k
      /\ k \in Nat /\ Last \in Nat /\ frames \in Nat
  BY WaitingSeq, PacketCount
<1>4. i \in 1..k /\ Last + i = n /\ frames - n = k - i /\ k - i \in Nat
  BY <1>1, <1>3
<1>5. Waiting = [j \in 1..k |-> Data(Last + j)]
  BY DEF Waiting
<1>6. Waiting' = [j \in 1..k - i |-> Data(n + j)]
  <2>1. frames' - Last' = k - i
    BY <1>1, <1>2, <1>4
  <2> QED
    BY <1>1, <2>1 DEF Waiting
<1>7. /\ i \in Int /\ \A j \in 1..k - i : i + j \in 1..k /\ Last + (i + j) = n + j
  BY <1>1, <1>3, <1>4
<1> HIDE DEF i, k
<1>8. SubSeq(Waiting, i + 1, k) = [j \in 1..k - i |-> Data(n + j)]
  <2>1. SubSeq(Waiting, i + 1, k) = [j \in 1..k - i |-> Waiting[i + j]]
    BY <1>3, <1>4, <1>7
  <2> QED
    BY <1>5, <1>7, <2>1
<1>9. Waiting[i] = Data(n)
  BY <1>4, <1>5
<1>10. Came' = Append(Came, Data(n))
  <2> DEFINE d == [frame |-> n, data |-> Data(n)]
             m == Len(delivered)
  <2>1. delivered \in Seq([frame : Nat, data : Seq(Bytes)])
    BY DEF KissInv, KissType
  <2>2. /\ m \in Nat /\ Len(delivered') = m + 1 /\ delivered'[m + 1] = d
        /\ \A j \in 1..m : delivered'[j] = delivered[j]
    BY <1>1, <2>1
  <2>3. d.data = Data(n)
    OBVIOUS
  <2> HIDE DEF d, m
  <2>4. \A j \in 1..m : delivered[j].data \in Seq(Bytes)
    <3>1. \A j \in 1..m : delivered[j] \in [frame : Nat, data : Seq(Bytes)]
      BY <2>1, ElementOfSeq DEF m
    <3> QED
      BY <3>1
  <2>5. Came \in Seq(Seq(Bytes)) /\ Len(Came) = m /\ \A j \in 1..m : Came[j] = delivered[j].data
    BY <2>2, <2>4 DEF Came, m
  <2>6. Came' = [j \in 1..m + 1 |-> IF j = m + 1 THEN Data(n) ELSE delivered[j].data]
    BY <2>2, <2>3 DEF Came, m
  <2>7. Append(Came, Data(n)) = [j \in 1..m + 1 |-> IF j = m + 1 THEN Data(n) ELSE Came[j]]
    <3> DEFINE after == Append(Came, Data(n))
    <3>1. Data(n) \in Seq(Bytes)
      BY <1>1, PacketFacts
    <3>2. /\ after \in Seq(Seq(Bytes)) /\ Len(after) = m + 1 /\ after[m + 1] = Data(n)
          /\ \A j \in 1..m : after[j] = Came[j]
      BY <2>2, <2>5, <3>1, AppendProperties
    <3> HIDE DEF after
    <3>3. after = [j \in 1..m + 1 |-> after[j]]
      BY <3>2
    <3>4. \A j \in 1..m + 1 : after[j] = IF j = m + 1 THEN Data(n) ELSE Came[j]
      BY <2>2, <3>2
    <3>5. after = [j \in 1..m + 1 |-> IF j = m + 1 THEN Data(n) ELSE Came[j]]
      BY <3>3, <3>4
    <3> QED
      BY <3>5 DEF after
  <2> QED
    BY <2>2, <2>5, <2>6, <2>7
<1> QED
  BY <1>3, <1>4, <1>6, <1>8, <1>9, <1>10

LEMMA KissMapsInit == KissInit => KissQueue!Init
<1> SUFFICES ASSUME KissInit PROVE KissQueue!Init
  OBVIOUS
<1>1. frames = 0 /\ delivered = <<>> /\ Len(delivered) = 0
  BY DEF KissInit
<1> QED
  BY <1>1 DEF KissQueue!Init

LEMMA KissMapsStep ==
  ASSUME KissInv, KissInv', [KissNext]_kissVars
  PROVE  [KissQueue!Next]_KissQueue!vars
<1>1. ASSUME NEW t \in KissTasks, KissLock(t) PROVE KissQueue!Next
  <2>1. PICK n \in 1..Len(KissPacket) : Waiting' = Append(Waiting, Data(n)) /\ Came' = Came
    BY <1>1, LockPuts
  <2>2. KissQueue!Put(Data(n))
    BY <2>1 DEF KissQueue!Put, Waiting, Came, Last
  <2> QED
    BY <2>2 DEF KissQueue!Next
<1>2. ASSUME RxEnd, delivered' # delivered PROVE KissQueue!Next
  <2>1. PICK i \in 1..Len(Waiting) :
           /\ Came' = Append(Came, Waiting[i])
           /\ Waiting' = SubSeq(Waiting, i + 1, Len(Waiting))
    BY <1>2, EndGets
  <2>2. KissQueue!Get(i)
    BY <2>1 DEF KissQueue!Get, Waiting, Came, Last
  <2> QED
    BY <2>1, <2>2 DEF KissQueue!Next, Waiting, Last
<1>3. ASSUME UNCHANGED <<frames, delivered>> PROVE UNCHANGED KissQueue!vars
  BY <1>3 DEF KissQueue!vars
<1> QED
  BY <1>1, <1>2, <1>3
     DEF KissNext, kissVars, Transmit, Noise, RxNotStarted, RxEnd, RxStarted, RxEscaped,
         RxSkip, rxVars

\* However many tasks share a KISS interface, whatever they send, and however
\* often the line drops, changes or invents a byte: what the receiver gives to
\* the router is a lossy queue of what was sent.  The mutex keeps frames whole
\* on the line, so the checksums arrive in the order of their frames.
THEOREM KissRefines == KissSpec => KissIsLossyQueue
<1>1. KissInv /\ KissInv' /\ [KissNext]_kissVars => [KissQueue!Next]_KissQueue!vars
  BY KissMapsStep
<1> QED
  BY <1>1, KissInvInit, KissInvStep, KissMapsInit, PTL
     DEF KissSpec, KissIsLossyQueue, KissQueue!Spec

----------------------------------------------------------------------------
\* Back in step.  A spot is a byte of a frame's pieces: the piece, and the
\* place in it.
SpotOK(n, s) ==
  s \in (0..Len(Contents(n)) + 1) \X {1, 2} /\ s[2] <= Len(Piece(n, s[1]))
LastSpot(n) == <<Len(Contents(n)) + 1, 1>>
AfterSpot(n, s) ==
  IF s[2] < Len(Piece(n, s[1])) THEN <<s[1], s[2] + 1>> ELSE <<s[1] + 1, 1>>

\* The byte behind spot s of frame n may be spot r of frame m.
Goes(n, s, m, r) ==
  \/ m = n /\ (n \notin disturbed => s # LastSpot(n) /\ r = AfterSpot(n, s))
  \/ m = n + 1 /\ (n \notin disturbed => s = LastSpot(n)) /\ (m \notin disturbed => r = <<0, 1>>)

\* What the transmitter sends next.
Coming(m, r) ==
  \/ \E t \in KissTasks : tx[t] # Idle /\ m = frames /\ r = <<tx[t].sent, 1>>
  \/ (\A t \in KissTasks : tx[t] = Idle) /\ m = frames + 1 /\ r = <<0, 1>>

\* The bytes on the line are at the spots pos.
AtSpot(b, s) ==
  b.frame \notin disturbed => SpotOK(b.frame, s) /\ b.byte = Piece(b.frame, s[1])[s[2]]
Placed(pos) ==
  /\ \A x \in 1..Len(wire) : AtSpot(wire[x], pos[x])
  /\ \A x \in 1..Len(wire) - 1 : Goes(wire[x].frame, pos[x], wire[x + 1].frame, pos[x + 1])
  /\ wire # <<>> =>
       \A m, r : Coming(m, r) => Goes(wire[Len(wire)].frame, pos[Len(wire)], m, r)

\* The receiver is between two frames.
InStep == Mode = "NOT_STARTED" \/ (Mode = "STARTED" /\ Received = <<>> /\ rxFirst)
\* In a frame that came untouched behind another one, it is as far as its bytes.
Follows(n, s) ==
  CASE s = <<0, 1>> -> InStep
    [] s = <<0, 2>> -> Mode = "STARTED" /\ Received = <<>> /\ rxFirst
    [] OTHER ->
         /\ ~rxFirst /\ Mode = (IF s[2] = 1 THEN "STARTED" ELSE "ESCAPED")
         /\ Len(Received) = s[1] - 1
         /\ \A j \in 1..s[1] - 1 : Received[j] = [byte |-> Contents(n)[j], frame |-> n]
\* In one that came untouched, whatever the state in which it met its start.
Settles(s) ==
  \/ Mode = "NOT_STARTED"
  \/ s = <<0, 2>> /\ Mode = "STARTED"
  \/ /\ s[1] > 0 /\ ~rxFirst
     /\ IF s[2] = 1 THEN Mode = "STARTED" /\ (s[1] > 1 => Received # <<>>) ELSE Mode = "ESCAPED"
Tuned(n, s) ==
  n \notin disturbed =>
    /\ s # <<0, 1>> => Settles(s)
    /\ n - 1 \notin disturbed => Follows(n, s)

FramesOK ==
  /\ disturbed \subseteq 1..frames
  /\ \A x \in 1..Len(wire) : wire[x].frame \in 1..frames
  /\ \A t \in KissTasks : tx[t] # Idle => tx[t].sent <= Len(Contents(tx[t].frame)) + 1
TunedToLine ==
  /\ \E pos : Placed(pos) /\ (wire # <<>> => Tuned(wire[1].frame, pos[1]))
  /\ wire = <<>> => \A m, r : Coming(m, r) => Tuned(m, r)
ResyncInv == FramesOK /\ TunedToLine /\ KissResync

LEMMA SpotByte ==
  ASSUME NEW n \in 1..Len(KissPacket), NEW s, SpotOK(n, s), NEW b, b = Piece(n, s[1])[s[2]]
  PROVE  \/ s = <<0, 1>> /\ s # LastSpot(n) /\ b = "FEND" /\ AfterSpot(n, s) = <<0, 2>>
         \/ s = <<0, 2>> /\ s # LastSpot(n) /\ b = "TNC" /\ AfterSpot(n, s) = <<1, 1>>
         \/ s = LastSpot(n) /\ b = "FEND"
         \/ \E i \in 1..Len(Contents(n)) :
              /\ s # LastSpot(n)
              /\ \/ /\ s = <<i, 1>> /\ b = Contents(n)[i] /\ b \notin {"FEND", "FESC"}
                    /\ AfterSpot(n, s) = <<i + 1, 1>>
                 \/ s = <<i, 1>> /\ b = "FESC" /\ AfterSpot(n, s) = <<i, 2>>
                 \/ /\ s = <<i, 2>> /\ b = "TFEND" /\ Contents(n)[i] = "FEND"
                    /\ AfterSpot(n, s) = <<i + 1, 1>>
                 \/ /\ s = <<i, 2>> /\ b = "TFESC" /\ Contents(n)[i] = "FESC"
                    /\ AfterSpot(n, s) = <<i + 1, 1>>
<1> DEFINE k == Len(Contents(n))
<1>1. k \in Nat /\ k > 0
  BY PacketFacts
<1>2. PICK i \in 0..k + 1, j \in {1, 2} : s = <<i, j>>
  BY DEF SpotOK
<1>3. j <= Len(Piece(n, i)) /\ b = Piece(n, i)[j]
  BY <1>2 DEF SpotOK
<1>4. AfterSpot(n, s) = IF j < Len(Piece(n, i)) THEN <<i, j + 1>> ELSE <<i + 1, 1>>
  BY <1>2 DEF AfterSpot
<1>5. LastSpot(n) = <<k + 1, 1>>
  BY DEF LastSpot
<1>6. CASE i = 0
  <2>1. Piece(n, i) = <<"FEND", "TNC">>
    BY <1>6 DEF Piece
  <2> HIDE DEF k
  <2>2. CASE j = 1
    BY <1>1, <1>2, <1>3, <1>4, <1>5, <1>6, <2>1, <2>2
  <2>3. CASE j = 2
    <3>1. s = <<0, 2>> /\ s # LastSpot(n)
      BY <1>2, <1>5, <1>6, <2>3
    <3>2. AfterSpot(n, s) = <<1, 1>>
      <4>1. Len(Piece(n, i)) = 2 /\ i + 1 = 1
        BY <1>6, <2>1
      <4> QED
        BY <1>4, <2>3, <4>1
    <3>3. b = "TNC"
      BY <1>3, <2>1, <2>3
    <3> QED
      BY <3>1, <3>2, <3>3
  <2> QED
    BY <2>2, <2>3
<1>7. CASE i = k + 1
  <2>1. Piece(n, i) = <<"FEND">>
    BY <1>1, <1>7 DEF Piece
  <2> HIDE DEF k
  <2>2. j = 1
    BY <1>3, <2>1
  <2> QED
    BY <1>2, <1>3, <1>5, <1>7, <2>1, <2>2
<1>8. CASE i \in 1..k
  <2> DEFINE c == Contents(n)[i]
  <2>1. i # 0 /\ ~(i > k)
    BY <1>1, <1>8
  <2>2. Piece(n, i) = CASE c = "FEND" -> <<"FESC", "TFEND">>
                        [] c = "FESC" -> <<"FESC", "TFESC">>
                        [] OTHER -> <<c>>
    BY <1>8, <2>1 DEF Piece
  <2>3. s # LastSpot(n) /\ i \in 1..Len(Contents(n))
    BY <1>1, <1>2, <1>5, <1>8
  <2> DEFINE plain == s = <<i, 1>> /\ b = c /\ b \notin {"FEND", "FESC"}
                      /\ AfterSpot(n, s) = <<i + 1, 1>>
             esc == s = <<i, 1>> /\ b = "FESC" /\ AfterSpot(n, s) = <<i, 2>>
             tfend == s = <<i, 2>> /\ b = "TFEND" /\ c = "FEND" /\ AfterSpot(n, s) = <<i + 1, 1>>
             tfesc == s = <<i, 2>> /\ b = "TFESC" /\ c = "FESC" /\ AfterSpot(n, s) = <<i + 1, 1>>
  <2>4. plain \/ esc \/ tfend \/ tfesc
    <3> HIDE DEF c
    <3>1. CASE c = "FEND"
      <4>1. Piece(n, i) = <<"FESC", "TFEND">>
        BY <2>2, <3>1
      <4>2. CASE j = 1
        BY <1>2, <1>3, <1>4, <4>1, <4>2
      <4>3. CASE j = 2
        BY <1>2, <1>3, <1>4, <3>1, <4>1, <4>3
      <4> QED
        BY <4>2, <4>3
    <3>2. CASE c = "FESC"
      <4>1. Piece(n, i) = <<"FESC", "TFESC">>
        BY <2>2, <3>2
      <4>2. CASE j = 1
        BY <1>2, <1>3, <1>4, <4>1, <4>2
      <4>3. CASE j = 2
        BY <1>2, <1>3, <1>4, <3>2, <4>1, <4>3
      <4> QED
        BY <4>2, <4>3
    <3>3. CASE c \notin {"FEND", "FESC"}
      <4>1. Piece(n, i) = <<c>>
        BY <2>2, <3>3
      <4>2. j = 1 /\ Len(Piece(n, i)) = 1
        BY <1>3, <4>1
      <4>3. b = c
        BY <1>3, <4>1, <4>2
      <4> QED
        BY <1>2, <1>4, <3>3, <4>2, <4>3
    <3> QED
      BY <3>1, <3>2, <3>3
  <2> QED
    BY <2>3, <2>4
<1> QED
  BY <1>1, <1>6, <1>7, <1>8

\* What is left of the bytes received when the next byte is looked at.
LEMMA ReceivedType ==
  ASSUME KissType
  PROVE  /\ Received \in Seq(LineBytes) /\ Len(Received) \in Nat
         /\ Len(Received) <= MaxRxLength /\ MaxRxLength \in Nat
         /\ Mode # "NOT_STARTED" => ~Overflow /\ Received = rxBytes /\ Mode = rxMode
<1>1. rxBytes \in Seq(LineBytes) /\ MaxRxLength \in Nat
  BY KissAssumption DEF KissType
<1>2. CASE Overflow
  BY <1>1, <1>2 DEF Received, Mode
<1>3. CASE ~Overflow
  BY <1>1, <1>3 DEF Received, Mode, Overflow
<1> QED
  BY <1>2, <1>3

LEMMA BytesKept ==
  ASSUME KissType, rxBytes' = Received
  PROVE  Mode' = rxMode' /\ Received' = Received
<1>1. ~Overflow'
  BY ReceivedType DEF Overflow
<1> QED
  BY <1>1 DEF Mode, Received

LEMMA ByteStored ==
  ASSUME KissType, wire # <<>>, NEW c \in Symbols, rxBytes' = Store(c)
  PROVE  /\ Mode' = "NOT_STARTED" \/ (Mode' = rxMode' /\ Received' # <<>>)
         /\ Len(Received) < MaxRxLength =>
              /\ Mode' = rxMode' /\ Len(Received') = Len(Received) + 1
              /\ Received'[Len(Received) + 1] = [byte |-> c, frame |-> wire[1].frame]
              /\ \A j \in 1..Len(Received) : Received'[j] = Received[j]
<1> DEFINE d == [byte |-> c, frame |-> wire[1].frame]
           k == Len(Received)
<1>1. d \in LineBytes /\ Head(wire) = wire[1]
  BY WireTail DEF LineBytes
<1>2. Received \in Seq(LineBytes) /\ k \in Nat /\ MaxRxLength \in Nat
  BY ReceivedType
<1>3. rxBytes' = Append(Received, d)
  BY <1>1 DEF Store
<1> HIDE DEF d
<1>4. /\ Len(rxBytes') = k + 1 /\ rxBytes'[k + 1] = d
      /\ \A j \in 1..k : rxBytes'[j] = Received[j]
  BY <1>1, <1>2, <1>3
<1>5. rxBytes' # <<>>
  BY <1>2, <1>4
<1> HIDE DEF k
<1>6. CASE Overflow'
  <2>1. Mode' = "NOT_STARTED" /\ k + 1 > MaxRxLength
    BY <1>4, <1>6 DEF Mode, Overflow
  <2> QED
    BY <1>2, <2>1 DEF k
<1>7. CASE ~Overflow'
  <2>1. Mode' = rxMode' /\ Received' = rxBytes'
    BY <1>7 DEF Mode, Received
  <2> QED
    BY <1>4, <1>5, <2>1 DEF d, k
<1> QED
  BY <1>6, <1>7

----------------------------------------------------------------------------
\* A byte for the receiver.
Receive == RxNotStarted \/ RxEnd \/ RxStarted \/ RxEscaped \/ RxSkip

LEMMA ReceiveFrame ==
  ASSUME Receive
  PROVE  /\ wire # <<>> /\ wire' = Tail(wire) /\ tx' = tx /\ frames' = frames
         /\ disturbed' = disturbed \/ disturbed' = disturbed \cup {Head(wire).frame}
         /\ delivered' = delivered \/ \E d : delivered' = Append(delivered, d)
BY DEF Receive, RxNotStarted, RxEnd, RxStarted, RxEscaped, RxSkip, kissFaults

LEMMA RxEffect ==
  ASSUME KissType, Receive, NEW b, b = wire[1].byte, wire[1].frame \notin disturbed'
  PROVE  /\ Mode = "NOT_STARTED" /\ b # "FEND" => Mode' = "NOT_STARTED"
         /\ Mode = "NOT_STARTED" /\ b = "FEND" => Mode' = "STARTED" /\ rxFirst' /\ Received' = <<>>
         /\ Mode = "STARTED" /\ b = "FEND" /\ Received = <<>> =>
              Mode' = "STARTED" /\ rxFirst' = rxFirst /\ Received' = <<>>
         /\ Mode = "STARTED" /\ b = "FEND" /\ Received # <<>> => Mode' = "NOT_STARTED"
         /\ Mode = "STARTED" /\ b = "FESC" =>
              Mode' = "ESCAPED" /\ rxFirst' = rxFirst /\ Received' = Received
         /\ Mode = "STARTED" /\ b \notin {"FEND", "FESC"} /\ rxFirst =>
              Mode' = "STARTED" /\ ~rxFirst' /\ Received' = Received
         /\ Mode = "STARTED" /\ b \notin {"FEND", "FESC"} /\ ~rxFirst =>
              ~rxFirst' /\ rxBytes' = Store(b) /\ rxMode' = "STARTED"
         /\ Mode = "ESCAPED" /\ b = "TFEND" =>
              rxFirst' = rxFirst /\ rxBytes' = Store("FEND") /\ rxMode' = "STARTED"
         /\ Mode = "ESCAPED" /\ b = "TFESC" =>
              rxFirst' = rxFirst /\ rxBytes' = Store("FESC") /\ rxMode' = "STARTED"
         /\ b = "FEND" => Mode' \in {"NOT_STARTED", "STARTED"}
<1>1. wire # <<>> /\ Head(wire) = wire[1]
  BY ReceiveFrame, WireTail
<1>2. CASE RxNotStarted
  <2>1. ASSUME b # "FEND" PROVE Mode' = "NOT_STARTED" /\ Mode = "NOT_STARTED"
    <3>1. rxBytes' = Received /\ rxMode' = "NOT_STARTED" /\ Mode = "NOT_STARTED"
      BY <1>1, <1>2, <2>1 DEF RxNotStarted
    <3> QED
      BY <3>1, BytesKept
  <2>2. ASSUME b = "FEND"
        PROVE  /\ Mode' = "STARTED" /\ rxFirst' /\ Received' = <<>>
               /\ Mode = "NOT_STARTED"
    <3>1. rxBytes' = <<>> /\ rxMode' = "STARTED" /\ rxFirst' = TRUE /\ Mode = "NOT_STARTED"
      BY <1>1, <1>2, <2>2 DEF RxNotStarted
    <3>2. ~Overflow'
      BY <3>1, ReceivedType DEF Overflow
    <3> QED
      BY <3>1, <3>2 DEF Mode, Received
  <2> QED
    BY <2>1, <2>2
<1>3. CASE RxEnd
  <2>1. /\ b = "FEND" /\ rxBytes' = Received /\ rxFirst' = rxFirst /\ Mode = "STARTED"
        /\ rxMode' = IF Received = <<>> THEN "STARTED" ELSE "NOT_STARTED"
    BY <1>1, <1>3 DEF RxEnd, EmptyStays
  <2>2. Mode' = rxMode' /\ Received' = Received
    BY <2>1, BytesKept
  <2> QED
    BY <2>1, <2>2
<1>4. CASE RxStarted
  <2>1. Mode = "STARTED" /\ b # "FEND"
    BY <1>1, <1>4 DEF RxStarted
  <2>2. ASSUME b = "FESC" PROVE Mode' = "ESCAPED" /\ rxFirst' = rxFirst /\ Received' = Received
    <3>1. rxBytes' = Received /\ rxMode' = "ESCAPED" /\ rxFirst' = rxFirst
      BY <1>1, <1>4, <2>2 DEF RxStarted
    <3> QED
      BY <3>1, BytesKept
  <2>3. ASSUME b # "FESC", rxFirst PROVE Mode' = "STARTED" /\ ~rxFirst' /\ Received' = Received
    <3>1. rxBytes' = Received /\ rxMode' = "STARTED" /\ ~rxFirst'
      BY <1>1, <1>4, <2>1, <2>3 DEF RxStarted
    <3> QED
      BY <3>1, BytesKept
  <2>4. ASSUME b # "FESC", ~rxFirst
        PROVE  ~rxFirst' /\ rxBytes' = Store(b) /\ rxMode' = "STARTED"
    BY <1>1, <1>4, <2>1, <2>4 DEF RxStarted
  <2> QED
    BY <2>1, <2>2, <2>3, <2>4
<1>5. CASE RxEscaped
  <2>1. /\ Mode = "ESCAPED" /\ rxFirst' = rxFirst /\ rxMode' = "STARTED"
        /\ rxBytes' = CASE b = "TFESC" -> Store("FESC")
                        [] b = "TFEND" -> Store("FEND")
                        [] OTHER -> Received
    BY <1>1, <1>5 DEF RxEscaped
  <2>2. b = "FEND" => Mode' = "STARTED"
    <3> SUFFICES ASSUME b = "FEND" PROVE Mode' = "STARTED"
      OBVIOUS
    <3>1. rxBytes' = Received
      BY <2>1
    <3> QED
      BY <2>1, <3>1, BytesKept
  <2>3. b = "TFEND" => rxBytes' = Store("FEND")
    BY <2>1
  <2>4. b = "TFESC" => rxBytes' = Store("FESC")
    BY <2>1
  <2> QED
    BY <2>1, <2>2, <2>3, <2>4
<1>6. CASE RxSkip
  <2>1. /\ Mode = "SKIP_FRAME" /\ rxBytes' = Received
        /\ rxMode' = IF b = "FEND" THEN "NOT_STARTED" ELSE Mode
    BY <1>1, <1>6 DEF RxSkip
  <2>2. b = "FEND" => Mode' = "NOT_STARTED"
    BY <2>1, BytesKept
  <2> QED
    BY <2>1, <2>2
<1> QED
  BY <1>2, <1>3, <1>4, <1>5, <1>6 DEF Receive

\* One more byte of an untouched frame, for a receiver in whatever state.
LEMMA SettlesOn ==
  ASSUME KissType, Receive, NEW n \in 1..Len(KissPacket), NEW s, SpotOK(n, s),
         n = wire[1].frame, n \notin disturbed', wire[1].byte = Piece(n, s[1])[s[2]],
         s # <<0, 1>> => Settles(s), NEW r, r = AfterSpot(n, s)
  PROVE  /\ s # LastSpot(n) => r # <<0, 1>> /\ Settles(r)'
         /\ s = LastSpot(n) => InStep'
<1> DEFINE b == wire[1].byte
           k == Len(Contents(n))
<1>1. wire # <<>> /\ k \in Nat /\ k > 0 /\ b \in Symbols
  BY ReceiveFrame, WireTail, PacketFacts
<1>2. /\ Mode = "NOT_STARTED" /\ b # "FEND" => Mode' = "NOT_STARTED"
      /\ Mode = "NOT_STARTED" /\ b = "FEND" => Mode' = "STARTED" /\ rxFirst' /\ Received' = <<>>
      /\ Mode = "STARTED" /\ b = "FEND" /\ Received # <<>> => Mode' = "NOT_STARTED"
      /\ Mode = "STARTED" /\ b = "FESC" =>
           Mode' = "ESCAPED" /\ rxFirst' = rxFirst /\ Received' = Received
      /\ Mode = "STARTED" /\ b \notin {"FEND", "FESC"} /\ rxFirst =>
           Mode' = "STARTED" /\ ~rxFirst' /\ Received' = Received
      /\ Mode = "STARTED" /\ b \notin {"FEND", "FESC"} /\ ~rxFirst =>
           ~rxFirst' /\ rxBytes' = Store(b) /\ rxMode' = "STARTED"
      /\ Mode = "ESCAPED" /\ b = "TFEND" =>
           rxFirst' = rxFirst /\ rxBytes' = Store("FEND") /\ rxMode' = "STARTED"
      /\ Mode = "ESCAPED" /\ b = "TFESC" =>
           rxFirst' = rxFirst /\ rxBytes' = Store("FESC") /\ rxMode' = "STARTED"
      /\ b = "FEND" => Mode' \in {"NOT_STARTED", "STARTED"}
  BY RxEffect
<1>3. ASSUME NEW c \in Symbols, rxBytes' = Store(c), rxMode' = "STARTED"
      PROVE  Mode' = "NOT_STARTED" \/ (Mode' = "STARTED" /\ Received' # <<>>)
  BY <1>1, <1>3, ByteStored
<1>4. {"FEND", "FESC"} \subseteq Symbols
  BY DEF Symbols, Bytes, Special
<1>5. /\ Mode = "STARTED" /\ b \notin {"FEND", "FESC"} /\ ~rxFirst =>
           ~rxFirst' /\ (Mode' = "NOT_STARTED" \/ (Mode' = "STARTED" /\ Received' # <<>>))
      /\ Mode = "ESCAPED" /\ b \in {"TFEND", "TFESC"} =>
           rxFirst' = rxFirst /\ (Mode' = "NOT_STARTED" \/ (Mode' = "STARTED" /\ Received' # <<>>))
  BY <1>1, <1>2, <1>3, <1>4
<1>6. CASE s = <<0, 1>> /\ s # LastSpot(n) /\ b = "FEND" /\ r = <<0, 2>>
  BY <1>2, <1>6 DEF Settles
<1>7. CASE s = <<0, 2>> /\ s # LastSpot(n) /\ b = "TNC" /\ r = <<1, 1>>
  <2>1. Mode \in {"NOT_STARTED", "STARTED"}
    BY <1>7 DEF Settles
  <2>2. Mode' = "NOT_STARTED" \/ (Mode' = "STARTED" /\ ~rxFirst')
    BY <1>2, <1>5, <1>7, <2>1
  <2> QED
    BY <1>7, <2>2 DEF Settles
<1>8. CASE s = LastSpot(n) /\ b = "FEND"
  <2>1. s[1] = k + 1 /\ s[2] = 1 /\ s # <<0, 1>> /\ s # <<0, 2>> /\ s[1] > 1
    BY <1>1, <1>8 DEF LastSpot
  <2>2. Mode = "NOT_STARTED" \/ (Mode = "STARTED" /\ Received # <<>>)
    BY <2>1 DEF Settles
  <2>3. InStep'
    BY <1>2, <1>8, <2>2 DEF InStep
  <2> QED
    BY <1>8, <2>3
<1>9. ASSUME NEW i \in 1..k, s # LastSpot(n), s = <<i, 1>>, b \notin {"FEND", "FESC"}, r = <<i + 1, 1>>
      PROVE  r # <<0, 1>> /\ Settles(r)'
  <2>1. r[1] > 0 /\ r[2] = 1 /\ r # <<0, 1>> /\ s # <<0, 1>> /\ s # <<0, 2>> /\ s[2] = 1
    BY <1>1, <1>9
  <2>2. Mode = "NOT_STARTED" \/ (Mode = "STARTED" /\ ~rxFirst)
    BY <2>1 DEF Settles
  <2>3. Mode' = "NOT_STARTED" \/ (Mode' = "STARTED" /\ ~rxFirst' /\ Received' # <<>>)
    BY <1>2, <1>5, <1>9, <2>2
  <2> QED
    BY <2>1, <2>3 DEF Settles
<1>10. ASSUME NEW i \in 1..k, s # LastSpot(n), s = <<i, 1>>, b = "FESC", r = <<i, 2>>
       PROVE  r # <<0, 1>> /\ Settles(r)'
  <2>1. r[1] > 0 /\ r[2] = 2 /\ r # <<0, 1>> /\ s # <<0, 1>> /\ s # <<0, 2>> /\ s[2] = 1
    BY <1>1, <1>10
  <2>2. Mode = "NOT_STARTED" \/ (Mode = "STARTED" /\ ~rxFirst)
    BY <2>1 DEF Settles
  <2>3. Mode' = "NOT_STARTED" \/ (Mode' = "ESCAPED" /\ ~rxFirst')
    BY <1>2, <1>10, <2>2
  <2> QED
    BY <2>1, <2>3 DEF Settles
<1>11. ASSUME NEW i \in 1..k, s # LastSpot(n), s = <<i, 2>>, b \in {"TFEND", "TFESC"}, r = <<i + 1, 1>>
       PROVE  r # <<0, 1>> /\ Settles(r)'
  <2>1. r[1] > 0 /\ r[2] = 1 /\ r # <<0, 1>> /\ s # <<0, 1>> /\ s # <<0, 2>> /\ s[2] = 2
    BY <1>1, <1>11
  <2>2. Mode = "NOT_STARTED" \/ (Mode = "ESCAPED" /\ ~rxFirst)
    BY <2>1 DEF Settles
  <2>3. Mode' = "NOT_STARTED" \/ (Mode' = "STARTED" /\ ~rxFirst' /\ Received' # <<>>)
    BY <1>2, <1>5, <1>11, <2>2
  <2> QED
    BY <2>1, <2>3 DEF Settles
<1> HIDE DEF b, k
<1>12. \/ s = <<0, 1>> /\ s # LastSpot(n) /\ b = "FEND" /\ r = <<0, 2>>
       \/ s = <<0, 2>> /\ s # LastSpot(n) /\ b = "TNC" /\ r = <<1, 1>>
       \/ s = LastSpot(n) /\ b = "FEND"
       \/ \E i \in 1..k :
            /\ s # LastSpot(n)
            /\ \/ s = <<i, 1>> /\ b \notin {"FEND", "FESC"} /\ r = <<i + 1, 1>>
               \/ s = <<i, 1>> /\ b = "FESC" /\ r = <<i, 2>>
               \/ s = <<i, 2>> /\ b \in {"TFEND", "TFESC"} /\ r = <<i + 1, 1>>
  BY SpotByte DEF b, k
<1> QED
  BY <1>6, <1>7, <1>8, <1>9, <1>10, <1>11, <1>12

LEMMA ContentsFacts ==
  ASSUME NEW n \in 1..Len(KissPacket)
  PROVE  /\ Len(Contents(n)) \in Nat /\ Len(Contents(n)) > 1 /\ Len(Contents(n)) <= MaxRxLength
         /\ MaxRxLength \in Nat /\ Contents(n)[Len(Contents(n))] = "CRC"
         /\ Data(n) = [i \in 1..Len(Contents(n)) - 2 |-> Contents(n)[i + 1]]
<1> DEFINE p == KissPacket[n]
           k == Len(p)
<1>1. p \in Seq(Bytes) /\ p # <<>> /\ k + 1 <= MaxRxLength /\ MaxRxLength \in Nat
  BY KissAssumption DEF CrcLength
<1>2. k \in Nat /\ k > 0
  BY <1>1
<1>3. /\ Len(Contents(n)) = k + 1 /\ Contents(n)[k + 1] = "CRC"
      /\ \A i \in 1..k : Contents(n)[i] = p[i]
  <2>1. p \in Seq(Symbols) /\ <<"CRC">> \in Seq(Symbols) /\ Len(<<"CRC">>) = 1 /\ <<"CRC">>[1] = "CRC"
    BY <1>1 DEF Symbols
  <2>2. Contents(n) = p \o <<"CRC">>
    BY DEF Contents
  <2> HIDE DEF p
  <2> QED
    BY <1>2, <2>1, <2>2
<1>4. Data(n) = [i \in 1..k - 1 |-> p[i + 1]]
  <2>1. Data(n) = Tail(p)
    BY DEF Data
  <2>2. ASSUME NEW q \in Seq(Bytes), q # <<>>
        PROVE  Tail(q) = [i \in 1..Len(q) - 1 |-> q[i + 1]]
    <3> DEFINE t == Tail(q)
    <3>1. t \in Seq(Bytes) /\ Len(t) = Len(q) - 1 /\ \A i \in 1..Len(t) : t[i] = q[i + 1]
      BY <2>2, HeadTailProperties
    <3> HIDE DEF t
    <3>2. t = [i \in 1..Len(t) |-> t[i]]
      BY <3>1
    <3>3. t = [i \in 1..Len(q) - 1 |-> q[i + 1]]
      BY <3>1, <3>2
    <3> QED
      BY <3>3 DEF t
  <2> HIDE DEF p
  <2> QED
    BY <1>1, <2>1, <2>2 DEF k
<1> HIDE DEF p, k
<1>5. (k + 1) - 2 = k - 1 /\ \A i \in 1..k - 1 : i + 1 \in 1..k
  BY <1>2
<1>6. Data(n) = [i \in 1..k - 1 |-> Contents(n)[i + 1]]
  BY <1>3, <1>4, <1>5
<1> QED
  BY <1>1, <1>2, <1>3, <1>5, <1>6

\* The end of a frame that the receiver has whole.
LEMMA WholeFrameEnds ==
  ASSUME KissType, RxEnd, NEW n \in 1..Len(KissPacket),
         Len(Received) = Len(Contents(n)),
         \A j \in 1..Len(Contents(n)) : Received[j] = [byte |-> Contents(n)[j], frame |-> n]
  PROVE  \E k \in 1..Len(delivered') : delivered'[k].frame = n
<1> DEFINE K == Len(Contents(n))
           c == Contents(n)
<1>1. K \in Nat /\ K > 1 /\ c[K] = "CRC" /\ K \in 1..K
  BY ContentsFacts
<1> HIDE DEF K, c
<1>0. \A j \in 1..K : Received[j].byte = c[j] /\ Received[j].frame = n
  <2> SUFFICES ASSUME NEW j \in 1..K PROVE Received[j].byte = c[j] /\ Received[j].frame = n
    OBVIOUS
  <2>1. Received[j] = [byte |-> c[j], frame |-> n]
    BY DEF K, c
  <2> QED
    BY <2>1
<1>2. Received[K].byte = "CRC" /\ Received[K].frame = n
  BY <1>0, <1>1
<1>3. [i \in 1..Len(Received) - 2 |-> Received[i + 1].byte] = Data(n)
  <2>1. Data(n) = [i \in 1..K - 2 |-> c[i + 1]]
    BY ContentsFacts DEF K, c
  <2>2. \A i \in 1..K - 2 : i + 1 \in 1..K
    BY <1>1
  <2>3. \A i \in 1..K - 2 : Received[i + 1].byte = c[i + 1]
    BY <1>0, <2>2
  <2>4. Len(Received) = K
    BY DEF K
  <2> QED
    BY <2>1, <2>3, <2>4
<1>4. CrcOk(Received)
  <2>1. Len(Received) = K
    BY DEF K
  <2> QED
    BY <1>2, <1>3, <2>1 DEF CrcOk
<1>5. Received # <<>> /\ LongEnough(Received)
  <2>1. Received \in Seq(LineBytes) /\ Len(Received) > 1
    BY <1>1, ReceivedType DEF K
  <2> QED
    BY <2>1 DEF LongEnough, HeaderLength, CrcLength
<1>6. PICK d : delivered' = Append(delivered, d) /\ d.frame = n
  <2>1. Received[Len(Received)].frame = n
    BY <1>2 DEF K
  <2> QED
    BY <1>4, <1>5, <2>1 DEF RxEnd
<1>7. delivered' # delivered /\ Len(delivered') = Len(delivered) + 1
      /\ Len(delivered) \in Nat /\ delivered'[Len(delivered) + 1] = d
  BY <1>6 DEF KissType
<1> QED
  BY <1>6, <1>7

\* One more byte of an untouched frame, for a receiver that is in step.
LEMMA FollowsOn ==
  ASSUME KissType, Receive, NEW n \in 1..Len(KissPacket), NEW s, SpotOK(n, s),
         n = wire[1].frame, n \notin disturbed', wire[1].byte = Piece(n, s[1])[s[2]],
         Follows(n, s), NEW r, r = AfterSpot(n, s)
  PROVE  /\ s # LastSpot(n) => Follows(n, r)'
         /\ s = LastSpot(n) => \E j \in 1..Len(delivered') : delivered'[j].frame = n
<1> DEFINE b == wire[1].byte
           k == Len(Contents(n))
           c(j) == [byte |-> Contents(n)[j], frame |-> n]
<1>1. /\ wire # <<>> /\ k \in Nat /\ k > 1 /\ b \in Symbols /\ Len(Received) \in Nat
      /\ k <= MaxRxLength /\ MaxRxLength \in Nat
  BY ReceiveFrame, WireTail, ContentsFacts, ReceivedType
<1>2. /\ Mode = "NOT_STARTED" /\ b = "FEND" => Mode' = "STARTED" /\ rxFirst' /\ Received' = <<>>
      /\ Mode = "STARTED" /\ b = "FEND" /\ Received = <<>> =>
           Mode' = "STARTED" /\ rxFirst' = rxFirst /\ Received' = <<>>
      /\ Mode = "STARTED" /\ b = "FESC" =>
           Mode' = "ESCAPED" /\ rxFirst' = rxFirst /\ Received' = Received
      /\ Mode = "STARTED" /\ b \notin {"FEND", "FESC"} /\ rxFirst =>
           Mode' = "STARTED" /\ ~rxFirst' /\ Received' = Received
      /\ Mode = "STARTED" /\ b \notin {"FEND", "FESC"} /\ ~rxFirst =>
           ~rxFirst' /\ rxBytes' = Store(b) /\ rxMode' = "STARTED"
      /\ Mode = "ESCAPED" /\ b = "TFEND" =>
           rxFirst' = rxFirst /\ rxBytes' = Store("FEND") /\ rxMode' = "STARTED"
      /\ Mode = "ESCAPED" /\ b = "TFESC" =>
           rxFirst' = rxFirst /\ rxBytes' = Store("FESC") /\ rxMode' = "STARTED"
  BY RxEffect
<1>3. {"FEND", "FESC"} \subseteq Symbols
  BY DEF Symbols, Bytes, Special
\* A spot behind the start, and what the receiver then has.
<1>4. ASSUME NEW i \in 1..k + 1, NEW q \in {1, 2}, s = <<i, q>>
      PROVE  /\ ~rxFirst /\ Mode = (IF q = 1 THEN "STARTED" ELSE "ESCAPED")
             /\ Len(Received) = i - 1 /\ \A j \in 1..i - 1 : Received[j] = c(j)
  <2>1. s # <<0, 1>> /\ s # <<0, 2>> /\ s[1] = i /\ s[2] = q
    BY <1>1, <1>4
  <2> QED
    BY <2>1 DEF Follows
\* A byte of the contents is stored.
<1>5. ASSUME NEW i \in 1..k, NEW q \in {1, 2}, s = <<i, q>>, r = <<i + 1, 1>>, ~rxFirst',
             rxMode' = "STARTED", NEW x \in Symbols, x = Contents(n)[i], rxBytes' = Store(x)
      PROVE  Follows(n, r)'
  <2>1. Len(Received) = i - 1 /\ \A j \in 1..i - 1 : Received[j] = c(j)
    BY <1>1, <1>4, <1>5
  <2>2. Len(Received) < MaxRxLength
    BY <1>1, <2>1
  <2>3. /\ Mode' = "STARTED" /\ Len(Received') = Len(Received) + 1
        /\ Received'[Len(Received) + 1] = [byte |-> x, frame |-> wire[1].frame]
        /\ \A j \in 1..Len(Received) : Received'[j] = Received[j]
    BY <1>1, <1>5, <2>2, ByteStored
  <2>4. Len(Received') = i /\ Received'[i] = c(i)
    BY <1>1, <1>5, <2>1, <2>3
  <2>5. ASSUME NEW j \in 1..i PROVE Received'[j] = c(j)
    <3>1. CASE j = i
      BY <2>4, <3>1
    <3>2. CASE j \in 1..i - 1
      <4>1. Received'[j] = Received[j]
        BY <2>1, <2>3, <3>2
      <4> QED
        BY <2>1, <3>2, <4>1
    <3> QED
      BY <3>1, <3>2
  <2>6. r # <<0, 1>> /\ r # <<0, 2>> /\ r[1] = i + 1 /\ r[2] = 1 /\ (i + 1) - 1 = i
    BY <1>1, <1>5
  <2>7. r[1] - 1 = i
    BY <2>6
  <2>8. \A j \in 1..r[1] - 1 : Received'[j] = [byte |-> Contents(n)[j], frame |-> n]
    BY <2>5, <2>7
  <2>9. ~rxFirst' /\ Mode' = (IF r[2] = 1 THEN "STARTED" ELSE "ESCAPED") /\ Len(Received') = r[1] - 1
    BY <1>5, <2>3, <2>4, <2>6, <2>7
  <2> QED
    BY <2>6, <2>8, <2>9 DEF Follows
<1>6. CASE s = <<0, 1>> /\ s # LastSpot(n) /\ b = "FEND" /\ r = <<0, 2>>
  <2>1. InStep
    BY <1>6 DEF Follows
  <2>2. Mode' = "STARTED" /\ Received' = <<>> /\ rxFirst'
    BY <1>2, <1>6, <2>1 DEF InStep
  <2> QED
    BY <1>6, <2>2 DEF Follows
<1>7. CASE s = <<0, 2>> /\ s # LastSpot(n) /\ b = "TNC" /\ r = <<1, 1>>
  <2>1. Mode = "STARTED" /\ Received = <<>> /\ rxFirst
    BY <1>7 DEF Follows
  <2>2. Mode' = "STARTED" /\ Received' = <<>> /\ ~rxFirst'
    BY <1>2, <1>7, <2>1
  <2>3. r # <<0, 1>> /\ r # <<0, 2>> /\ r[1] = 1 /\ r[2] = 1 /\ Len(Received') = 0
    BY <1>7, <2>2
  <2> QED
    BY <1>7, <2>2, <2>3 DEF Follows
<1>8. CASE s = LastSpot(n) /\ b = "FEND"
  <2>1. k + 1 \in 1..k + 1 /\ s = <<k + 1, 1>> /\ (k + 1) - 1 = k
    BY <1>1, <1>8 DEF LastSpot
  <2>2. Mode = "STARTED" /\ Len(Received) = k /\ \A j \in 1..k : Received[j] = c(j)
    BY <1>4, <2>1
  <2>3. RxEnd
    BY <1>1, <1>8, <2>2, WireTail
       DEF Receive, RxNotStarted, RxStarted, RxEscaped, RxSkip
  <2> QED
    BY <1>8, <2>2, <2>3, WholeFrameEnds
<1>9. ASSUME NEW i \in 1..k, s # LastSpot(n), s = <<i, 1>>, b = Contents(n)[i],
             b \notin {"FEND", "FESC"}, r = <<i + 1, 1>>
      PROVE  Follows(n, r)'
  <2>1. ~rxFirst /\ Mode = "STARTED"
    BY <1>1, <1>4, <1>9
  <2> QED
    BY <1>1, <1>2, <1>5, <1>9, <2>1
<1>10. ASSUME NEW i \in 1..k, s # LastSpot(n), s = <<i, 1>>, b = "FESC", r = <<i, 2>>
       PROVE  Follows(n, r)'
  <2>1. /\ ~rxFirst /\ Mode = "STARTED" /\ Len(Received) = i - 1
        /\ \A j \in 1..i - 1 : Received[j] = c(j)
    BY <1>1, <1>4, <1>10
  <2>2. Mode' = "ESCAPED" /\ ~rxFirst' /\ Received' = Received
    BY <1>2, <1>10, <2>1
  <2>3. r # <<0, 1>> /\ r # <<0, 2>> /\ r[1] = i /\ r[2] = 2
    BY <1>1, <1>10
  <2> QED
    BY <2>1, <2>2, <2>3 DEF Follows
<1>11. ASSUME NEW i \in 1..k, s # LastSpot(n), s = <<i, 2>>, NEW x \in {"FEND", "FESC"},
              x = Contents(n)[i], b = (IF x = "FEND" THEN "TFEND" ELSE "TFESC"), r = <<i + 1, 1>>
       PROVE  Follows(n, r)'
  <2>1. ~rxFirst /\ Mode = "ESCAPED"
    BY <1>1, <1>4, <1>11
  <2>2. ~rxFirst' /\ rxMode' = "STARTED" /\ rxBytes' = Store(x)
    BY <1>2, <1>11, <2>1
  <2> QED
    BY <1>1, <1>3, <1>5, <1>11, <2>2
<1> HIDE DEF b, k, c
<1>12. \/ s = <<0, 1>> /\ s # LastSpot(n) /\ b = "FEND" /\ r = <<0, 2>>
       \/ s = <<0, 2>> /\ s # LastSpot(n) /\ b = "TNC" /\ r = <<1, 1>>
       \/ s = LastSpot(n) /\ b = "FEND"
       \/ \E i \in 1..k :
            /\ s # LastSpot(n)
            /\ \/ s = <<i, 1>> /\ b = Contents(n)[i] /\ b \notin {"FEND", "FESC"} /\ r = <<i + 1, 1>>
               \/ s = <<i, 1>> /\ b = "FESC" /\ r = <<i, 2>>
               \/ s = <<i, 2>> /\ b = "TFEND" /\ Contents(n)[i] = "FEND" /\ r = <<i + 1, 1>>
               \/ s = <<i, 2>> /\ b = "TFESC" /\ Contents(n)[i] = "FESC" /\ r = <<i + 1, 1>>
  BY SpotByte DEF b, k
<1>13. ASSUME NEW i \in 1..k, s # LastSpot(n),
              \/ s = <<i, 1>> /\ b = Contents(n)[i] /\ b \notin {"FEND", "FESC"} /\ r = <<i + 1, 1>>
              \/ s = <<i, 1>> /\ b = "FESC" /\ r = <<i, 2>>
              \/ s = <<i, 2>> /\ b = "TFEND" /\ Contents(n)[i] = "FEND" /\ r = <<i + 1, 1>>
              \/ s = <<i, 2>> /\ b = "TFESC" /\ Contents(n)[i] = "FESC" /\ r = <<i + 1, 1>>
       PROVE  Follows(n, r)'
  <2>1. CASE s = <<i, 2>> /\ b = "TFEND" /\ Contents(n)[i] = "FEND" /\ r = <<i + 1, 1>>
    BY <1>11, <1>13, <2>1
  <2>2. CASE s = <<i, 2>> /\ b = "TFESC" /\ Contents(n)[i] = "FESC" /\ r = <<i + 1, 1>>
    BY <1>11, <1>13, <2>2
  <2> QED
    BY <1>9, <1>10, <1>13, <2>1, <2>2
<1> QED
  BY <1>6, <1>7, <1>8, <1>12, <1>13

----------------------------------------------------------------------------
\* The bytes on the line.
LEMMA GoesOn ==
  ASSUME disturbed \subseteq disturbed', NEW n, NEW s, NEW m, NEW r, Goes(n, s, m, r)
  PROVE  Goes(n, s, m, r)'
BY DEF Goes

\* Behind a byte of a frame that was disturbed, anything may come.
LEMMA DisturbedTunes ==
  ASSUME NEW n \in Nat, n \in disturbed', NEW s, NEW m, NEW r, Goes(n, s, m, r)'
  PROVE  Tuned(m, r)'
<1>1. CASE m = n
  BY <1>1 DEF Tuned
<1>2. CASE m = n + 1 /\ (m \notin disturbed' => r = <<0, 1>>)
  <2>1. m - 1 = n
    BY <1>2
  <2> QED
    BY <1>2, <2>1 DEF Tuned
<1> QED
  BY <1>1, <1>2 DEF Goes

\* The first byte leaves the line.
LEMMA LineAdvances ==
  ASSUME KissType, FramesOK, NEW pos, Placed(pos), wire # <<>>, wire' = Tail(wire),
         tx' = tx, frames' = frames, NEW h, h = wire[1].frame, NEW s, s = pos[1],
         disturbed' = disturbed \/ disturbed' = disturbed \cup {h},
         \A m, r : Goes(h, s, m, r)' => Tuned(m, r)'
  PROVE  FramesOK' /\ TunedToLine'
<1>0. PICK l, q : l = Len(wire) /\ q = [x \in 1..l - 1 |-> pos[x + 1]]
  OBVIOUS
<1>1. /\ l \in Nat /\ l > 0 /\ Len(wire') = l - 1 /\ 1 \in 1..l
      /\ \A x \in 1..l - 1 : x + 1 \in 1..l /\ wire'[x] = wire[x + 1]
  BY <1>0, WireTail
<1>2. h \in 1..frames /\ disturbed \subseteq disturbed'
  BY <1>1 DEF FramesOK
<1>3. FramesOK'
  <2>1. disturbed' \subseteq 1..frames'
    BY <1>2 DEF FramesOK
  <2>2. \A x \in 1..Len(wire') : wire'[x].frame \in 1..frames'
    BY <1>1 DEF FramesOK
  <2> QED
    BY <2>1, <2>2 DEF FramesOK
<1>4. \A m, r : Coming(m, r)' <=> Coming(m, r)
  BY DEF Coming
<1>5. ASSUME NEW x \in 1..l - 1
      PROVE  wire'[x].frame \notin disturbed' =>
               /\ SpotOK(wire'[x].frame, q[x])
               /\ wire'[x].byte = Piece(wire'[x].frame, q[x][1])[q[x][2]]
  <2>1. AtSpot(wire[x + 1], pos[x + 1]) /\ wire'[x] = wire[x + 1] /\ q[x] = pos[x + 1]
    BY <1>0, <1>1 DEF Placed
  <2> QED
    BY <1>2, <2>1 DEF AtSpot
<1>6. ASSUME NEW x \in 1..(l - 1) - 1
      PROVE  Goes(wire[x].frame, q[x], wire[x + 1].frame, q[x + 1])'
  <2>1. /\ x \in 1..l - 1 /\ x + 1 \in 1..l - 1 /\ (x + 1) \in 1..l - 1 /\ (x + 1) + 1 \in 1..l
    BY <1>1
  <2>2. Goes(wire[x + 1].frame, pos[x + 1], wire[(x + 1) + 1].frame, pos[(x + 1) + 1])
    BY <1>0, <2>1 DEF Placed
  <2>3. PICK a, b, c, d : /\ a = wire[x + 1].frame /\ b = pos[x + 1]
                          /\ c = wire[(x + 1) + 1].frame /\ d = pos[(x + 1) + 1]
    OBVIOUS
  <2>4. Goes(a, b, c, d)'
    BY <1>2, <2>2, <2>3, GoesOn
  <2>5. a = wire'[x].frame /\ b = q[x] /\ c = wire'[x + 1].frame /\ d = q[x + 1]
    BY <1>0, <1>1, <2>1, <2>3
  <2> QED
    BY <2>4, <2>5 DEF Goes
<1>7. ASSUME wire' # <<>>, NEW m, NEW r, Coming(m, r)'
      PROVE  Goes(wire[Len(wire)].frame, q[Len(wire)], m, r)'
  <2>1. l - 1 \in 1..l - 1 /\ (l - 1) + 1 = l
    <3>1. wire' \in Seq(LineBytes)
      BY WireTail
    <3>2. Len(wire') # 0
      BY <1>7, <3>1, EmptySeq
    <3> QED
      BY <1>1, <3>2
  <2>2. Goes(wire[l].frame, pos[l], m, r)
    BY <1>0, <1>4, <1>7 DEF Placed
  <2>3. PICK a, b : a = wire[l].frame /\ b = pos[l]
    OBVIOUS
  <2>4. Goes(a, b, m, r)'
    BY <1>2, <2>2, <2>3, GoesOn
  <2>5. a = wire'[Len(wire')].frame /\ b = q[Len(wire')]
    BY <1>0, <1>1, <2>1, <2>3
  <2> QED
    BY <2>4, <2>5 DEF Goes
<1>8. Placed(q)'
  <2>1. \A x \in 1..Len(wire') : AtSpot(wire[x], q[x])'
    BY <1>1, <1>5 DEF AtSpot
  <2>2. \A x \in 1..Len(wire') - 1 : Goes(wire[x].frame, q[x], wire[x + 1].frame, q[x + 1])'
    BY <1>1, <1>6
  <2>3. wire' # <<>> =>
          \A m, r : Coming(m, r)' => Goes(wire[Len(wire)].frame, q[Len(wire)], m, r)'
    BY <1>7
  <2> QED
    BY <2>1, <2>2, <2>3 DEF Placed
\* What is behind the first byte is tuned.
<1>9. ASSUME wire' # <<>> PROVE Tuned(wire[1].frame, q[1])'
  <2>1. Len(wire') > 0
    <3>1. wire' \in Seq(LineBytes)
      BY WireTail
    <3> QED
      BY <1>9, <3>1, EmptySeq
  <2>2. 1 \in 1..l - 1 /\ 1 + 1 = 2
    BY <1>1, <2>1
  <2>3. Goes(wire[1].frame, pos[1], wire[2].frame, pos[2])
    BY <1>0, <2>2 DEF Placed
  <2>4. PICK c, d : c = wire[2].frame /\ d = pos[2]
    OBVIOUS
  <2>5. Goes(h, s, c, d)'
    BY <1>2, <2>3, <2>4, GoesOn
  <2>6. Tuned(c, d)'
    BY <2>5
  <2>7. c = wire'[1].frame /\ d = q[1]
    BY <1>0, <1>1, <2>2, <2>4
  <2> QED
    BY <2>6, <2>7 DEF Tuned, Settles, Follows
<1>10. ASSUME wire' = <<>>, NEW m, NEW r, Coming(m, r)' PROVE Tuned(m, r)'
  <2>1. l = 1
    <3>1. PICK w : w = wire'
      OBVIOUS
    <3>2. l \in Nat /\ Len(w) = l - 1
      BY <1>1, <3>1
    <3>3. w = <<>>
      BY <1>10, <3>1
    <3> QED
      BY <3>2, <3>3
  <2>2. Goes(wire[1].frame, pos[1], m, r)
    BY <1>0, <1>4, <1>10, <2>1 DEF Placed
  <2>3. Goes(h, s, m, r)'
    BY <1>2, <2>2, GoesOn
  <2> QED
    BY <2>3
<1> QED
  BY <1>3, <1>8, <1>9, <1>10 DEF TunedToLine

\* What the receiver makes of the first byte suits the byte behind it.
LEMMA ReceiveTunes ==
  ASSUME KissInv, FramesOK, Receive, NEW pos, Placed(pos), Tuned(wire[1].frame, pos[1]),
         NEW h, h = wire[1].frame, NEW s, s = pos[1], NEW m, NEW r, Goes(h, s, m, r)'
  PROVE  Tuned(m, r)'
<1>1. wire # <<>> /\ Len(wire) \in Nat /\ Len(wire) > 0 /\ 1 \in 1..Len(wire)
  BY ReceiveFrame, WireTail DEF KissInv
<1>2. h \in 1..frames /\ h \in 1..Len(KissPacket) /\ h \in Nat
  BY <1>1, PacketCount DEF FramesOK, KissInv, KissType
<1>3. CASE h \in disturbed'
  BY <1>2, <1>3, DisturbedTunes
<1>4. CASE h \notin disturbed'
  <2>1. h \notin disturbed /\ disturbed' = disturbed
    BY <1>1, <1>4, ReceiveFrame, WireTail DEF KissInv
  <2>2. SpotOK(h, s) /\ wire[1].byte = Piece(h, s[1])[s[2]]
    BY <1>1, <2>1 DEF Placed, AtSpot
  <2>3. s # <<0, 1>> => Settles(s)
    BY <2>1 DEF Tuned
  <2>4. h - 1 \notin disturbed => Follows(h, s)
    BY <2>1 DEF Tuned
  <2>5. PICK e : e = AfterSpot(h, s)
    OBVIOUS
  <2>6. /\ s # LastSpot(h) => e # <<0, 1>> /\ Settles(e)'
        /\ s = LastSpot(h) => InStep'
    BY <1>2, <1>4, <2>2, <2>3, <2>5, SettlesOn DEF KissInv
  <2>7. CASE m = h /\ s # LastSpot(h) /\ r = e
    <3>1. h - 1 \notin disturbed' => Follows(h, e)'
      BY <1>2, <1>4, <2>1, <2>2, <2>4, <2>5, <2>7, FollowsOn DEF KissInv
    <3> QED
      BY <2>6, <2>7, <3>1 DEF Tuned
  <2>8. CASE m = h + 1 /\ s = LastSpot(h) /\ (m \notin disturbed' => r = <<0, 1>>)
    BY <2>6, <2>8 DEF Tuned, Follows
  <2> QED
    BY <1>4, <2>5, <2>7, <2>8 DEF Goes
<1> QED
  BY <1>3, <1>4

LEMMA LineByReceive ==
  ASSUME KissInv, FramesOK, TunedToLine, Receive PROVE FramesOK' /\ TunedToLine'
<1>1. /\ wire # <<>> /\ wire' = Tail(wire) /\ tx' = tx /\ frames' = frames
      /\ disturbed' = disturbed \/ disturbed' = disturbed \cup {wire[1].frame}
  BY ReceiveFrame, WireTail DEF KissInv
<1>2. PICK pos : Placed(pos) /\ Tuned(wire[1].frame, pos[1])
  BY <1>1 DEF TunedToLine
<1>3. PICK h, s : h = wire[1].frame /\ s = pos[1]
  OBVIOUS
<1>4. \A m, r : Goes(h, s, m, r)' => Tuned(m, r)'
  BY <1>2, <1>3, ReceiveTunes
<1> QED
  BY <1>1, <1>2, <1>3, <1>4, LineAdvances DEF KissInv

\* The line drops, changes or invents a byte.
LEMMA LineByNoise ==
  ASSUME KissInv, FramesOK, TunedToLine, Noise PROVE FramesOK' /\ TunedToLine'
<1> USE DEF KissInv
<1>1. /\ wire # <<>> /\ tx' = tx /\ frames' = frames /\ UNCHANGED rxVars
      /\ disturbed' = disturbed \cup {wire[1].frame}
  BY WireTail DEF Noise
<1>2. PICK pos : Placed(pos) /\ Tuned(wire[1].frame, pos[1])
  BY <1>1 DEF TunedToLine
<1>3. PICK h, s, l : h = wire[1].frame /\ s = pos[1] /\ l = Len(wire)
  OBVIOUS
<1>4. l \in Nat /\ l > 0 /\ 1 \in 1..l /\ wire \in Seq(LineBytes)
  BY <1>1, <1>3, WireTail DEF KissType
<1>5. h \in 1..frames /\ h \in Nat /\ h \in disturbed' /\ disturbed \subseteq disturbed'
  BY <1>1, <1>3, <1>4, PacketCount DEF FramesOK, KissType
<1>6. disturbed' \subseteq 1..frames'
  BY <1>1, <1>3, <1>5 DEF FramesOK
<1>7. \A m, r : Coming(m, r)' <=> Coming(m, r)
  BY <1>1 DEF Coming
<1>8. \A t \in KissTasks : tx'[t] # Idle => tx'[t].sent <= Len(Contents(tx'[t].frame)) + 1
  BY <1>1 DEF FramesOK
<1>9. CASE wire' = Tail(wire)
  <2>1. \A m, r : Goes(h, s, m, r)' => Tuned(m, r)'
    BY <1>5, DisturbedTunes
  <2> QED
    BY <1>1, <1>2, <1>3, <1>9, <2>1, LineAdvances
\* The first byte is another one.
<1>10. ASSUME NEW b, wire' = [wire EXCEPT ![1].byte = b] PROVE FramesOK' /\ TunedToLine'
  <2>1. /\ Len(wire') = l /\ wire'[1].frame = h
        /\ \A x \in 2..l : wire'[x] = wire[x]
    BY <1>3, <1>4, <1>10 DEF LineBytes
  <2>2. \A x \in 1..l : wire'[x].frame = wire[x].frame
    BY <1>3, <1>4, <2>1
  <2>3. FramesOK'
    BY <1>1, <1>3, <1>6, <1>8, <2>1, <2>2 DEF FramesOK
  <2>4. ASSUME NEW x \in 1..l PROVE AtSpot(wire[x], pos[x])'
    <3>1. CASE x = 1
      BY <1>5, <2>1, <3>1 DEF AtSpot
    <3>2. CASE x \in 2..l
      <4>1. AtSpot(wire[x], pos[x])
        BY <1>2, <1>3 DEF Placed
      <4>2. wire'[x] = wire[x]
        BY <2>1, <3>2
      <4> QED
        BY <1>5, <4>1, <4>2 DEF AtSpot
    <3> QED
      BY <1>4, <3>1, <3>2
  <2>5. ASSUME NEW x \in 1..l - 1
        PROVE  Goes(wire[x].frame, pos[x], wire[x + 1].frame, pos[x + 1])'
    <3>1. Goes(wire[x].frame, pos[x], wire[x + 1].frame, pos[x + 1])
      BY <1>2, <1>3 DEF Placed
    <3>2. wire'[x].frame = wire[x].frame /\ wire'[x + 1].frame = wire[x + 1].frame
      BY <1>4, <2>2
    <3> QED
      BY <1>5, <3>1, <3>2 DEF Goes
  <2>6. ASSUME NEW m, NEW r, Coming(m, r)' PROVE Goes(wire[Len(wire)].frame, pos[Len(wire)], m, r)'
    <3>1. Goes(wire[l].frame, pos[l], m, r)
      BY <1>1, <1>2, <1>3, <1>7, <2>6 DEF Placed
    <3>2. wire'[Len(wire')].frame = wire[l].frame /\ Len(wire') = l
      BY <1>4, <2>1, <2>2
    <3> QED
      BY <1>5, <3>1, <3>2 DEF Goes
  <2>7. Placed(pos)'
    BY <2>1, <2>4, <2>5, <2>6 DEF Placed
  <2>8. Tuned(wire[1].frame, pos[1])'
    BY <1>5, <2>1 DEF Tuned
  <2>9. wire' # <<>>
    BY <1>4, <2>1
  <2> QED
    BY <2>3, <2>7, <2>8, <2>9 DEF TunedToLine
\* A byte comes before the first.
<1>11. ASSUME NEW b \in {"FEND", "FESC", "DATA"},
              wire' = <<[byte |-> b, frame |-> Head(wire).frame]>> \o wire
       PROVE  FramesOK' /\ TunedToLine'
  <2>1. PICK q : q = [x \in 1..l + 1 |-> IF x = 1 THEN s ELSE pos[x - 1]]
    OBVIOUS
  <2> DEFINE d == [byte |-> b, frame |-> h]
  <2>2. d \in LineBytes /\ d.frame = h /\ wire' = <<d>> \o wire
    <3>1. b \in Symbols /\ Head(wire) = wire[1]
      BY <1>1, WireTail DEF Symbols, Bytes, Special
    <3> QED
      BY <1>3, <1>5, <1>11, <3>1 DEF LineBytes
  <2> HIDE DEF d
  <2>3. Len(wire') = l + 1 /\ wire'[1] = d /\ \A x \in 2..l + 1 : wire'[x] = wire[x - 1]
    <3>1. <<d>> \in Seq(LineBytes) /\ Len(<<d>>) = 1 /\ <<d>>[1] = d
      BY <2>2
    <3> QED
      BY <1>3, <1>4, <2>2, <3>1, ConcatProperties
  <2>4. q[1] = s /\ \A x \in 2..l + 1 : q[x] = pos[x - 1] /\ x - 1 \in 1..l
    BY <1>4, <2>1
  <2>5. FramesOK'
    <3>1. \A x \in 1..Len(wire') : wire'[x].frame \in 1..frames'
      <4> SUFFICES ASSUME NEW x \in 1..l + 1 PROVE wire'[x].frame \in 1..frames'
        BY <2>3
      <4>1. CASE x = 1
        BY <1>1, <1>5, <2>2, <2>3, <4>1
      <4>2. CASE x \in 2..l + 1
        BY <1>1, <1>3, <2>3, <2>4, <4>2 DEF FramesOK
      <4> QED
        BY <1>4, <4>1, <4>2
    <3> QED
      BY <1>6, <1>8, <3>1 DEF FramesOK
  <2>6. ASSUME NEW x \in 1..l + 1 PROVE AtSpot(wire[x], q[x])'
    <3>1. CASE x = 1
      BY <1>5, <2>2, <2>3, <3>1 DEF AtSpot
    <3>2. CASE x \in 2..l + 1
      <4>1. AtSpot(wire[x - 1], pos[x - 1]) /\ wire'[x] = wire[x - 1] /\ q[x] = pos[x - 1]
        BY <1>2, <1>3, <2>3, <2>4, <3>2 DEF Placed
      <4> QED
        BY <1>5, <4>1 DEF AtSpot
    <3> QED
      BY <1>4, <3>1, <3>2
  <2>7. ASSUME NEW x \in 1..(l + 1) - 1
        PROVE  Goes(wire[x].frame, q[x], wire[x + 1].frame, q[x + 1])'
    <3>1. CASE x = 1
      <4>1. wire'[x].frame = h /\ wire'[x + 1].frame = h
        <5>1. x + 1 \in 2..l + 1 /\ (x + 1) - 1 = 1
          BY <1>4, <3>1
        <5> QED
          BY <1>3, <2>2, <2>3, <3>1, <5>1
      <4> QED
        BY <1>5, <4>1 DEF Goes
    <3>2. CASE x \in 2..l
      <4>1. x - 1 \in 1..l - 1 /\ (x - 1) + 1 = x /\ x \in 2..l + 1
            /\ x + 1 \in 2..l + 1 /\ (x + 1) - 1 = x
        BY <1>4, <3>2
      <4>2. Goes(wire[x - 1].frame, pos[x - 1], wire[x].frame, pos[x])
        BY <1>2, <1>3, <4>1 DEF Placed
      <4>3. /\ wire'[x].frame = wire[x - 1].frame /\ q[x] = pos[x - 1]
            /\ wire'[x + 1].frame = wire[x].frame /\ q[x + 1] = pos[x]
        BY <2>3, <2>4, <4>1
      <4> QED
        BY <1>5, <4>2, <4>3 DEF Goes
    <3> QED
      BY <1>4, <3>1, <3>2
  <2>8. ASSUME NEW m, NEW r, Coming(m, r)' PROVE Goes(wire[Len(wire)].frame, q[Len(wire)], m, r)'
    <3>1. Goes(wire[l].frame, pos[l], m, r)
      BY <1>1, <1>2, <1>3, <1>7, <2>8 DEF Placed
    <3>2. l + 1 \in 2..l + 1 /\ (l + 1) - 1 = l
      BY <1>4
    <3>3. wire'[Len(wire')].frame = wire[l].frame /\ q[Len(wire')] = pos[l]
      BY <2>3, <2>4, <3>2
    <3> QED
      BY <1>5, <3>1, <3>3 DEF Goes
  <2>9. Placed(q)'
    BY <2>3, <2>6, <2>7, <2>8 DEF Placed
  <2>10. Tuned(wire[1].frame, q[1])'
    BY <1>5, <2>2, <2>3 DEF Tuned
  <2>11. wire' # <<>>
    BY <1>4, <2>3
  <2> QED
    BY <2>5, <2>9, <2>10, <2>11 DEF TunedToLine
<1> QED
  BY <1>9, <1>10, <1>11 DEF Noise

\* A task starts a frame: what comes next on the line is what was to come.
LEMMA LineByLock ==
  ASSUME KissInv, FramesOK, TunedToLine, NEW t \in KissTasks, KissLock(t)
  PROVE  FramesOK' /\ TunedToLine'
<1> USE DEF KissInv
<1>1. \A u \in KissTasks : tx[u] = Idle
  BY DEF KissLock, MayLock, Mutex
<1>2. /\ tx' = [tx EXCEPT ![t] = [frame |-> frames + 1, sent |-> 0]] /\ frames' = frames + 1
      /\ wire' = wire /\ disturbed' = disturbed /\ UNCHANGED rxVars
  BY DEF KissLock, kissFaults
<1>3. frames \in Nat /\ frames + 1 \in 1..Len(KissPacket)
  BY PacketCount DEF KissLock, KissType
<1>4. tx'[t] = [frame |-> frames + 1, sent |-> 0] /\ tx'[t] # Idle
  BY <1>2, <1>3 DEF KissType, Idle
<1>5. \A u \in KissTasks : u # t => tx'[u] = Idle
  BY <1>1, <1>2 DEF KissType
<1>6. FramesOK'
  <2>1. 1..frames \subseteq 1..frames'
    BY <1>2, <1>3
  <2>2. \A u \in KissTasks : tx'[u] # Idle => tx'[u].sent <= Len(Contents(tx'[u].frame)) + 1
    <3>1. Len(Contents(frames + 1)) \in Nat
      BY <1>3, PacketFacts
    <3>2. tx'[t].sent <= Len(Contents(tx'[t].frame)) + 1
      BY <1>4, <3>1
    <3> QED
      BY <1>5, <3>2
  <2> QED
    BY <1>2, <2>1, <2>2 DEF FramesOK
<1>7. ASSUME NEW m, NEW r, Coming(m, r)' PROVE Coming(m, r)
  <2>1. m = frames + 1 /\ r = <<0, 1>>
    BY <1>2, <1>4, <1>5, <1>7 DEF Coming
  <2> QED
    BY <1>1, <2>1 DEF Coming
<1>8. ASSUME NEW m, NEW r, Tuned(m, r) PROVE Tuned(m, r)'
  BY <1>2, <1>8 DEF Tuned, Settles, Follows, InStep, Mode, Received, Overflow, rxVars
<1>9. ASSUME NEW pos, Placed(pos) PROVE Placed(pos)'
  BY <1>2, <1>7, <1>9 DEF Placed, AtSpot, Goes
<1>10. \E pos : Placed(pos)' /\ (wire' # <<>> => Tuned(wire[1].frame, pos[1])')
  <2>1. PICK pos : Placed(pos) /\ (wire # <<>> => Tuned(wire[1].frame, pos[1]))
    BY DEF TunedToLine
  <2>2. PICK m, r : m = wire[1].frame /\ r = pos[1]
    OBVIOUS
  <2>3. wire' # <<>> => Tuned(m, r)'
    BY <1>2, <1>8, <2>1, <2>2
  <2>4. wire' # <<>> => Tuned(wire[1].frame, pos[1])'
    BY <1>2, <2>2, <2>3 DEF Tuned
  <2> QED
    BY <1>9, <2>1, <2>4
<1>11. wire' = <<>> => \A m, r : Coming(m, r)' => Tuned(m, r)'
  BY <1>2, <1>7, <1>8 DEF TunedToLine
<1> QED
  BY <1>6, <1>10, <1>11 DEF TunedToLine

\* What is on the line after piece i of frame n is handed over.
PieceOnLine(n, i, k, l) ==
  /\ n = frames /\ k = Len(Piece(n, i)) /\ l = Len(wire)
  /\ n \in 1..Len(KissPacket) /\ i \in 0..Len(Contents(n)) + 1
  /\ k \in {1, 2} /\ l \in Nat
  /\ Coming(n, <<i, 1>>) /\ Len(wire') = l + k
  /\ \A x \in 1..l : wire'[x] = wire[x]
  /\ \A j \in 1..k : wire'[l + j] = [byte |-> Piece(n, i)[j], frame |-> n]
  /\ frames' = frames /\ disturbed' = disturbed /\ UNCHANGED rxVars
  /\ i <= Len(Contents(n)) => \A m, r : Coming(m, r)' => m = n /\ r = <<i + 1, 1>>
  /\ i > Len(Contents(n)) => \A m, r : Coming(m, r)' => m = n + 1 /\ r = <<0, 1>>
  /\ \A u \in KissTasks : tx'[u] # Idle => tx'[u].sent <= Len(Contents(tx'[u].frame)) + 1

LEMMA PieceSent ==
  ASSUME KissInv, FramesOK, NEW t \in KissTasks, Transmit(t)
  PROVE  \E n, i, k, l : PieceOnLine(n, i, k, l)
<1>0. PICK n, i : n = frames /\ i = tx[t].sent
  OBVIOUS
<1>a. PICK k, l : k = Len(Piece(n, i)) /\ l = Len(wire)
  OBVIOUS
<1> USE DEF KissInv
<1> DEFINE c == Len(Contents(n))
           add == [j \in 1..k |-> [byte |-> Piece(n, i)[j], frame |-> n]]
<1>1. tx[t].frame = n /\ n \in 1..Len(KissPacket) /\ i \in Nat /\ tx[t] # Idle
      /\ frames' = frames /\ disturbed' = disturbed /\ UNCHANGED rxVars
  BY <1>0, LimitOfTransmit DEF Transmit, kissFaults
<1>2. c \in Nat /\ k \in {1, 2} /\ \A j \in 1..k : Piece(n, i)[j] \in Symbols
  BY <1>1, <1>a, PieceFacts, PacketFacts
<1>3. i \in 0..c + 1
  BY <1>0, <1>1, <1>2 DEF FramesOK
<1>4. Coming(n, <<i, 1>>)
  BY <1>0, <1>1 DEF Coming
<1>5. wire' = wire \o add
  BY <1>0, <1>1, <1>a DEF Transmit
<1>6. add \in Seq(LineBytes) /\ Len(add) = k
  <2>1. \A j \in 1..k : [byte |-> Piece(n, i)[j], frame |-> n] \in LineBytes
    BY <1>1, <1>2, PacketCount DEF LineBytes
  <2> QED
    BY <1>2, <2>1
<1>7. wire \in Seq(LineBytes) /\ l \in Nat
  BY <1>a DEF KissType
<1>8. /\ Len(wire') = l + k
      /\ \A x \in 1..l : wire'[x] = wire[x]
      /\ \A j \in 1..k : wire'[l + j] = add[j]
  <2> HIDE DEF add
  <2>1. /\ Len(wire \o add) = l + k
        /\ \A x \in 1..l + k : (wire \o add)[x] = IF x <= l THEN wire[x] ELSE add[x - l]
    <3>1. PICK s : s = wire
      OBVIOUS
    <3>2. s \in Seq(LineBytes) /\ Len(s) = l
      BY <1>7, <1>a, <3>1
    <3>3. /\ Len(s \o add) = Len(s) + Len(add)
          /\ \A x \in 1..Len(s) + Len(add) :
               (s \o add)[x] = IF x <= Len(s) THEN s[x] ELSE add[x - Len(s)]
      BY <1>6, <3>2, ConcatProperties
    <3> QED
      BY <1>6, <3>1, <3>2, <3>3
  <2>2. \A j \in 1..k : l + j \in 1..l + k /\ ~(l + j <= l) /\ (l + j) - l = j
    BY <1>2, <1>7
  <2>3. \A x \in 1..l : x \in 1..l + k /\ x <= l
    BY <1>2, <1>7
  <2> QED
    BY <1>5, <2>1, <2>2, <2>3
<1>9. \A u \in KissTasks : u # t => tx'[u] = Idle
  BY <1>1 DEF Transmit, Mutex, KissType
<1>10. ASSUME i <= c
       PROVE  tx'[t].sent = i + 1 /\ tx'[t].frame = n /\ tx'[t] # Idle
  BY <1>0, <1>1, <1>2, <1>10, PacketCount DEF Transmit, KissType, Idle
<1>11. ASSUME i > c PROVE tx'[t] = Idle
  BY <1>0, <1>1, <1>11 DEF Transmit, KissType
<1> HIDE DEF c
<1>12. \A u \in KissTasks : tx'[u] # Idle => tx'[u].sent <= Len(Contents(tx'[u].frame)) + 1
  <2>1. tx'[t] # Idle => tx'[t].sent <= Len(Contents(tx'[t].frame)) + 1
    <3>1. CASE i <= c
      BY <1>1, <1>2, <1>10, <3>1 DEF c
    <3>2. CASE i > c
      BY <1>11, <3>2
    <3> QED
      BY <1>1, <1>2, <3>1, <3>2
  <2> QED
    BY <1>9, <2>1
<1>13. i <= c => \A m, r : Coming(m, r)' => m = n /\ r = <<i + 1, 1>>
  BY <1>0, <1>1, <1>9, <1>10 DEF Coming
<1>14. i > c => \A m, r : Coming(m, r)' => m = n + 1 /\ r = <<0, 1>>
  BY <1>0, <1>1, <1>9, <1>11 DEF Coming
<1>15. \A j \in 1..k : wire'[l + j] = [byte |-> Piece(n, i)[j], frame |-> n]
  <2> SUFFICES ASSUME NEW j \in 1..k
               PROVE  wire'[l + j] = [byte |-> Piece(n, i)[j], frame |-> n]
    OBVIOUS
  <2>1. add[j] = [byte |-> Piece(n, i)[j], frame |-> n]
    OBVIOUS
  <2> HIDE DEF add
  <2>2. wire'[l + j] = add[j]
    BY <1>8
  <2> QED
    BY <2>1, <2>2
<1> HIDE DEF add
<1>16. /\ n = frames /\ k = Len(Piece(n, i)) /\ l = Len(wire)
       /\ n \in 1..Len(KissPacket) /\ i \in 0..Len(Contents(n)) + 1
       /\ k \in {1, 2} /\ l \in Nat
  BY <1>0, <1>1, <1>2, <1>3, <1>7, <1>a DEF c
<1>17. /\ Coming(n, <<i, 1>>) /\ Len(wire') = l + k
       /\ \A x \in 1..l : wire'[x] = wire[x]
       /\ frames' = frames /\ disturbed' = disturbed /\ UNCHANGED rxVars
  BY <1>1, <1>4, <1>8
<1>18. /\ i <= Len(Contents(n)) => \A m, r : Coming(m, r)' => m = n /\ r = <<i + 1, 1>>
       /\ i > Len(Contents(n)) => \A m, r : Coming(m, r)' => m = n + 1 /\ r = <<0, 1>>
  BY <1>13, <1>14 DEF c
<1>19. PieceOnLine(n, i, k, l)
  BY <1>12, <1>15, <1>16, <1>17, <1>18 DEF PieceOnLine
<1> QED
  BY <1>19

LEMMA LineByTransmit ==
  ASSUME KissInv, FramesOK, TunedToLine, NEW t \in KissTasks, Transmit(t)
  PROVE  FramesOK' /\ TunedToLine'
<1>0. PICK n, i, k, l : PieceOnLine(n, i, k, l)
  BY PieceSent
<1>3. /\ n \in 1..Len(KissPacket) /\ i \in 0..Len(Contents(n)) + 1
      /\ k \in {1, 2} /\ l \in Nat
      /\ Coming(n, <<i, 1>>) /\ Len(wire') = l + k
      /\ \A x \in 1..l : wire'[x] = wire[x]
      /\ \A j \in 1..k : wire'[l + j] = [byte |-> Piece(n, i)[j], frame |-> n]
      /\ frames' = frames /\ disturbed' = disturbed /\ UNCHANGED rxVars
      /\ i <= Len(Contents(n)) => \A m, r : Coming(m, r)' => m = n /\ r = <<i + 1, 1>>
      /\ i > Len(Contents(n)) => \A m, r : Coming(m, r)' => m = n + 1 /\ r = <<0, 1>>
      /\ \A u \in KissTasks : tx'[u] # Idle => tx'[u].sent <= Len(Contents(tx'[u].frame)) + 1
  BY <1>0 DEF PieceOnLine
<1>1. n = frames
  BY <1>0 DEF PieceOnLine
<1>2. k = Len(Piece(n, i)) /\ l = Len(wire)
  BY <1>0 DEF PieceOnLine
<1>4. PICK pos : Placed(pos) /\ (wire # <<>> => Tuned(wire[1].frame, pos[1]))
  BY DEF TunedToLine
<1>5. PICK q : q = [x \in 1..l + k |-> IF x <= l THEN pos[x] ELSE <<i, x - l>>]
  OBVIOUS
<1>6. /\ \A x \in 1..l : q[x] = pos[x] /\ x \in 1..l + k
      /\ \A j \in 1..k : q[l + j] = <<i, j>> /\ l + j \in 1..l + k
  BY <1>3, <1>5
<1>7. \A x \in 1..l + k : x \in 1..l \/ \E j \in 1..k : x = l + j
  <2> SUFFICES ASSUME NEW x \in 1..l + k, x \notin 1..l PROVE \E j \in 1..k : x = l + j
    OBVIOUS
  <2>1. l \in Nat /\ k \in Nat
    BY <1>3
  <2>2. x - l \in 1..k /\ x = l + (x - l)
    BY <2>1
  <2> QED
    BY <2>2
<1>8. \A j \in 1..k : wire'[l + j].frame = n /\ wire'[l + j].byte = Piece(n, i)[j]
  <2> SUFFICES ASSUME NEW j \in 1..k
               PROVE  wire'[l + j].frame = n /\ wire'[l + j].byte = Piece(n, i)[j]
    OBVIOUS
  <2>1. wire'[l + j] = [byte |-> Piece(n, i)[j], frame |-> n]
    BY <1>3
  <2> QED
    BY <2>1
<1>9. FramesOK'
  <2>1. \A x \in 1..l + k : wire'[x].frame \in 1..frames'
    <3>1. n \in 1..frames'
      BY <1>1, <1>3
    <3>2. \A x \in 1..l : wire'[x].frame \in 1..frames'
      BY <1>2, <1>3 DEF FramesOK
    <3>3. \A j \in 1..k : wire'[l + j].frame \in 1..frames'
      BY <1>8, <3>1
    <3> QED
      BY <1>7, <3>2, <3>3
  <2> QED
    BY <1>3, <2>1 DEF FramesOK
<1>10. ASSUME NEW x \in 1..l + k PROVE AtSpot(wire[x], q[x])'
  <2>1. CASE x \in 1..l
    <3>1. AtSpot(wire[x], pos[x])
      BY <1>2, <1>4, <2>1 DEF Placed
    <3> QED
      BY <1>3, <1>6, <2>1, <3>1 DEF AtSpot
  <2>2. ASSUME NEW j \in 1..k, x = l + j PROVE AtSpot(wire[x], q[x])'
    <3>1. SpotOK(n, <<i, j>>)
      <4>1. j \in {1, 2} /\ j <= Len(Piece(n, i))
        BY <1>2, <1>3, SMTT(40)
      <4>2. i \in 0..Len(Contents(n)) + 1
        BY <1>3
      <4> QED
        BY <4>1, <4>2 DEF SpotOK
    <3> QED
      BY <1>6, <1>8, <2>2, <3>1 DEF AtSpot
  <2> QED
    BY <1>7, <2>1, <2>2
\* The last spot of the piece and what the transmitter goes on with.
<1>11. ASSUME NEW m, NEW r, Coming(m, r)' PROVE Goes(n, <<i, k>>, m, r)
  <2> DEFINE c == Len(Contents(n))
  <2>1. c \in Nat
    BY <1>3, PacketFacts
  <2>2. CASE i <= c
    <3>1. m = n /\ r = <<i + 1, 1>>
      BY <1>3, <1>11, <2>2
    <3>2. <<i, k>> # LastSpot(n)
      BY <1>3, <2>1, <2>2 DEF LastSpot
    <3>3. AfterSpot(n, <<i, k>>) = <<i + 1, 1>>
      BY <1>2, <1>3 DEF AfterSpot
    <3> QED
      BY <3>1, <3>2, <3>3 DEF Goes
  <2>3. CASE i > c
    <3>1. m = n + 1 /\ r = <<0, 1>>
      BY <1>3, <1>11, <2>3
    <3>2. i = c + 1 /\ Piece(n, i) = <<"FEND">>
      BY <1>3, <2>1, <2>3 DEF Piece
    <3>3. <<i, k>> = LastSpot(n)
      BY <1>2, <3>2 DEF LastSpot
    <3> QED
      BY <3>1, <3>3 DEF Goes
  <2> QED
    BY <1>3, <2>1, <2>2, <2>3
<1>12. ASSUME NEW x \in 1..(l + k) - 1
       PROVE  Goes(wire[x].frame, q[x], wire[x + 1].frame, q[x + 1])'
  <2>1. CASE x \in 1..l - 1
    <3>1. x \in 1..l /\ x + 1 \in 1..l
      BY <1>3, <2>1
    <3>2. Goes(wire[x].frame, pos[x], wire[x + 1].frame, pos[x + 1])
      BY <1>2, <1>4, <2>1 DEF Placed
    <3>3. /\ wire'[x].frame = wire[x].frame /\ q[x] = pos[x]
          /\ wire'[x + 1].frame = wire[x + 1].frame /\ q[x + 1] = pos[x + 1]
      BY <1>3, <1>6, <3>1
    <3> QED
      BY <1>3, <3>2, <3>3 DEF Goes
  <2>2. CASE x = l
    <3>1. x \in 1..l /\ x + 1 = l + 1 /\ 1 \in 1..k
      BY <1>3, <2>2
    <3>2. wire # <<>>
      BY <1>2, <3>1
    <3>3. Goes(wire[x].frame, pos[x], n, <<i, 1>>)
      BY <1>2, <1>3, <1>4, <2>2, <3>2 DEF Placed
    <3>4. /\ wire'[x].frame = wire[x].frame /\ q[x] = pos[x]
          /\ wire'[x + 1].frame = n /\ q[x + 1] = <<i, 1>>
      BY <1>3, <1>6, <1>8, <3>1
    <3> QED
      BY <1>3, <3>3, <3>4 DEF Goes
  <2>3. CASE x = l + 1 /\ k = 2
    <3>1. 1 \in 1..k /\ 2 \in 1..k /\ x + 1 = l + 2
      BY <1>3, <2>3
    <3>2. /\ wire'[x].frame = n /\ q[x] = <<i, 1>>
          /\ wire'[x + 1].frame = n /\ q[x + 1] = <<i, 2>>
      BY <1>6, <1>8, <2>3, <3>1
    <3>5. Len(Piece(n, i)) = 2
      BY <1>2, <2>3
    <3>3. AfterSpot(n, <<i, 1>>) = <<i, 2>>
      BY <3>5 DEF AfterSpot
    <3>4. <<i, 1>> # LastSpot(n)
      <4>1. Len(Contents(n)) \in Nat
        BY <1>3, PacketFacts
      <4>2. ASSUME i = Len(Contents(n)) + 1 PROVE FALSE
        <5>1. Piece(n, i) = <<"FEND">>
          BY <4>1, <4>2 DEF Piece
        <5> QED
          BY <3>5, <5>1
      <4> QED
        BY <4>2 DEF LastSpot
    <3> QED
      BY <3>2, <3>3, <3>4 DEF Goes
  <2>4. x \in 1..l - 1 \/ x = l \/ (x = l + 1 /\ k = 2)
    BY <1>3, SMTT(40)
  <2> QED
    BY <2>1, <2>2, <2>3, <2>4
<1>13. ASSUME NEW m, NEW r, Coming(m, r)' PROVE Goes(wire[Len(wire)].frame, q[Len(wire)], m, r)'
  <2>1. wire'[l + k].frame = n /\ q[l + k] = <<i, k>>
    <3>1. k \in 1..k
      BY <1>3
    <3> QED
      BY <1>6, <1>8, <3>1
  <2>2. Goes(n, <<i, k>>, m, r)
    BY <1>11, <1>13
  <2> QED
    BY <1>3, <2>1, <2>2 DEF Goes
<1>14. Placed(q)'
  BY <1>3, <1>10, <1>12, <1>13 DEF Placed
<1>15. ASSUME NEW m, NEW r, Tuned(m, r) PROVE Tuned(m, r)'
  BY <1>3, <1>15 DEF Tuned, Settles, Follows, InStep, Mode, Received, Overflow, rxVars
<1>16. Tuned(wire[1].frame, q[1])'
  <2>1. CASE wire # <<>>
    <3>1. 1 \in 1..l
      BY <1>2, <2>1, WireTail DEF KissInv
    <3>2. PICK m, r : m = wire[1].frame /\ r = pos[1]
      OBVIOUS
    <3>3. Tuned(m, r)'
      BY <1>4, <1>15, <2>1, <3>2
    <3>4. wire'[1].frame = m /\ q[1] = r
      BY <1>3, <1>6, <3>1, <3>2
    <3> QED
      BY <3>3, <3>4 DEF Tuned
  <2>2. CASE wire = <<>>
    <3>1. l = 0 /\ 1 \in 1..k /\ l + 1 = 1
      BY <1>2, <1>3, <2>2
    <3>2. PICK r : r = <<i, 1>>
      OBVIOUS
    <3>3. Tuned(n, r)'
      BY <1>3, <1>15, <2>2, <3>2 DEF TunedToLine
    <3>4. wire'[1].frame = n /\ q[1] = r
      BY <1>6, <1>8, <3>1, <3>2
    <3> QED
      BY <3>3, <3>4 DEF Tuned
  <2> QED
    BY <2>1, <2>2
<1>17. wire' # <<>>
  BY <1>3
<1> QED
  BY <1>9, <1>14, <1>16, <1>17 DEF TunedToLine

----------------------------------------------------------------------------
\* A frame that has passed is with the router.
LEMMA StillDelivered ==
  ASSUME KissType, delivered' = delivered \/ \E d : delivered' = Append(delivered, d),
         NEW n, \E k \in 1..Len(delivered) : delivered[k].frame = n
  PROVE  \E k \in 1..Len(delivered') : delivered'[k].frame = n
<1>1. PICK k \in 1..Len(delivered) : delivered[k].frame = n
  OBVIOUS
<1>2. CASE delivered' = delivered
  BY <1>1, <1>2
<1>3. ASSUME NEW d, delivered' = Append(delivered, d)
      PROVE  k \in 1..Len(delivered') /\ delivered'[k] = delivered[k]
  BY <1>3 DEF KissType
<1> QED
  BY <1>1, <1>2, <1>3

\* The receiver takes the last byte of a frame.
LEMMA LastByteEnds ==
  ASSUME KissInv, FramesOK, TunedToLine, Receive, NEW n, n = wire[1].frame, Passed(n)',
         n \notin disturbed', n - 1 \notin disturbed'
  PROVE  \E k \in 1..Len(delivered') : delivered'[k].frame = n
<1> USE DEF KissInv
<1>1. /\ wire # <<>> /\ wire' = Tail(wire) /\ tx' = tx /\ frames' = frames
      /\ disturbed \subseteq disturbed'
  BY ReceiveFrame
<1>2. PICK l : l = Len(wire)
  OBVIOUS
<1>3. /\ l \in Nat /\ l > 0 /\ Len(wire') = l - 1 /\ 1 \in 1..l
      /\ \A x \in 1..l - 1 : x + 1 \in 1..l /\ wire'[x] = wire[x + 1]
  BY <1>1, <1>2, WireTail
<1>4. n \in 1..frames /\ frames \in Nat /\ n \in 1..Len(KissPacket)
  BY <1>1, <1>2, <1>3, PacketCount DEF FramesOK, KissType
<1>5. PICK pos : Placed(pos) /\ Tuned(wire[1].frame, pos[1])
  BY <1>1 DEF TunedToLine
<1>6. PICK s : s = pos[1]
  OBVIOUS
<1>7. SpotOK(n, s) /\ wire[1].byte = Piece(n, s[1])[s[2]] /\ Follows(n, s)
  BY <1>1, <1>2, <1>3, <1>5, <1>6 DEF Placed, AtSpot, Tuned
<1>8. ASSUME NEW m, NEW r, Goes(n, s, m, r), m # n PROVE s = LastSpot(n)
  BY <1>1, <1>8 DEF Goes
<1>9. s = LastSpot(n)
  <2>1. CASE l > 1
    <3>1. 1 \in 1..l - 1 /\ 1 + 1 = 2
      BY <1>3, <2>1
    <3>2. wire'[1] = wire[2] /\ wire'[1].frame # n
      BY <1>3, <3>1 DEF Passed
    <3>3. Goes(n, s, wire[2].frame, pos[2])
      BY <1>2, <1>5, <1>6, <3>1 DEF Placed
    <3> QED
      BY <1>8, <3>2, <3>3
  <2>2. CASE l = 1
    <3>1. \A m, r : Coming(m, r) => Goes(n, s, m, r)
      BY <1>1, <1>2, <1>5, <1>6, <2>2 DEF Placed
    <3>2. CASE \E t \in KissTasks : tx[t] # Idle
      <4>1. PICK t \in KissTasks : tx[t] # Idle
        BY <3>2
      <4>2. tx[t].frame = frames /\ tx[t].frame # n
        BY <1>1, <4>1 DEF Mutex, Passed
      <4>3. Coming(frames, <<tx[t].sent, 1>>)
        BY <4>1 DEF Coming
      <4> QED
        BY <1>8, <3>1, <4>2, <4>3
    <3>3. CASE \A t \in KissTasks : tx[t] = Idle
      <4>1. Coming(frames + 1, <<0, 1>>)
        BY <3>3 DEF Coming
      <4>2. frames + 1 # n
        BY <1>4
      <4> QED
        BY <1>8, <3>1, <4>1, <4>2
    <3> QED
      BY <3>2, <3>3
  <2> QED
    BY <1>3, <2>1, <2>2
<1>10. PICK r : r = AfterSpot(n, s)
  OBVIOUS
<1> QED
  BY <1>4, <1>7, <1>9, <1>10, FollowsOn

LEMMA ResyncStep ==
  ASSUME KissInv, FramesOK, TunedToLine, KissResync, KissNext PROVE KissResync'
<1> USE DEF KissInv
<1> SUFFICES ASSUME NEW n \in 1..frames', Passed(n)', n \notin disturbed', n - 1 \notin disturbed'
             PROVE  \E k \in 1..Len(delivered') : delivered'[k].frame = n
  BY DEF KissResync
<1>1. frames \in Nat
  BY PacketCount DEF KissType
<1>2. ASSUME Passed(n), disturbed \subseteq disturbed',
             delivered' = delivered \/ \E d : delivered' = Append(delivered, d)
      PROVE  \E k \in 1..Len(delivered') : delivered'[k].frame = n
  <2>1. n \in 1..frames
    BY <1>2 DEF Passed
  <2>2. n \notin disturbed /\ n - 1 \notin disturbed
    BY <1>2
  <2>3. \E k \in 1..Len(delivered) : delivered[k].frame = n
    BY <1>2, <2>1, <2>2 DEF KissResync
  <2> QED
    BY <1>2, <2>3, StillDelivered
<1>3. ASSUME NEW t \in KissTasks, KissLock(t)
      PROVE  \E k \in 1..Len(delivered') : delivered'[k].frame = n
  <2>1. /\ tx' = [tx EXCEPT ![t] = [frame |-> frames + 1, sent |-> 0]] /\ frames' = frames + 1
        /\ wire' = wire /\ disturbed' = disturbed /\ delivered' = delivered /\ tx[t] = Idle
    BY <1>3 DEF KissLock, kissFaults, rxVars
  <2>2. tx'[t].frame = frames + 1 /\ \A u \in KissTasks : u # t => tx'[u] = tx[u]
    BY <2>1 DEF KissType
  <2>3. n # frames + 1 /\ n \in Nat /\ n > 0
    BY <1>1, <2>1, <2>2 DEF Passed
  <2>4. n \in 1..frames
    BY <1>1, <2>1, <2>3
  <2>5. tx[t].frame # n
    BY <2>1, <2>3 DEF Idle
  <2>6. Passed(n)
    BY <2>1, <2>2, <2>4, <2>5 DEF Passed
  <2> QED
    BY <1>2, <2>1, <2>6
<1>4. ASSUME NEW t \in KissTasks, Transmit(t)
      PROVE  \E k \in 1..Len(delivered') : delivered'[k].frame = n
  <2>1. PICK m, i, k, l : PieceOnLine(m, i, k, l)
    BY <1>4, PieceSent
  <2>2. /\ m = frames /\ l = Len(wire) /\ l \in Nat /\ k \in {1, 2}
        /\ Len(wire') = l + k /\ frames' = frames /\ disturbed' = disturbed
        /\ UNCHANGED rxVars
    BY <2>1 DEF PieceOnLine
  <2>3. \A x \in 1..l : wire'[x] = wire[x]
    BY <2>1 DEF PieceOnLine
  <2>4. wire'[l + 1].frame = m
    <3>1. 1 \in 1..k
      BY <2>2
    <3>2. wire'[l + 1] = [byte |-> Piece(m, i)[1], frame |-> m]
      BY <2>1, <3>1 DEF PieceOnLine
    <3> QED
      BY <3>2
  <2>5. l + 1 \in 1..Len(wire') /\ \A x \in 1..l : x \in 1..Len(wire')
    BY <2>2
  <2>6. n # frames
    BY <2>2, <2>4, <2>5 DEF Passed
  <2>7. \A u \in KissTasks : tx[u].frame # n
    <3> SUFFICES ASSUME NEW u \in KissTasks, tx[u] # Idle PROVE tx[u].frame # n
      BY DEF Idle
    <3> QED
      BY <2>6 DEF Mutex
  <2>8. \A x \in 1..Len(wire) : wire[x].frame # n
    BY <2>2, <2>3, <2>5 DEF Passed
  <2>9. Passed(n)
    BY <2>2, <2>7, <2>8 DEF Passed
  <2> QED
    BY <1>2, <2>2, <2>9 DEF rxVars
<1>5. ASSUME Noise PROVE \E k \in 1..Len(delivered') : delivered'[k].frame = n
  <2>1. /\ wire # <<>> /\ tx' = tx /\ frames' = frames /\ delivered' = delivered
        /\ disturbed' = disturbed \cup {wire[1].frame}
    BY <1>5, WireTail DEF Noise, rxVars
  <2>2. PICK l : l = Len(wire)
    OBVIOUS
  <2>3. /\ l \in Nat /\ l > 0 /\ 1 \in 1..l /\ wire \in Seq(LineBytes)
        /\ Head(wire) = wire[1] /\ wire[1] \in LineBytes
    BY <2>1, <2>2, WireTail DEF KissType
  <2>4. wire[1].frame # n
    BY <2>1
  <2>5. ASSUME NEW x \in 2..l PROVE wire[x].frame # n
    <3>1. CASE wire' = Tail(wire)
      <4>1. x - 1 \in 1..Len(wire') /\ (x - 1) + 1 = x /\ wire'[x - 1] = wire[(x - 1) + 1]
        BY <2>1, <2>2, <2>3, <3>1, WireTail
      <4> QED
        BY <4>1 DEF Passed
    <3>2. ASSUME NEW b, wire' = [wire EXCEPT ![1].byte = b] PROVE wire[x].frame # n
      <4>1. Len(wire') = l /\ wire'[x] = wire[x]
        BY <2>2, <2>3, <3>2
      <4>2. x \in 1..l
        BY <2>3
      <4> QED
        BY <4>1, <4>2 DEF Passed
    <3>3. ASSUME NEW b \in {"FEND", "FESC", "DATA"},
                 wire' = <<[byte |-> b, frame |-> Head(wire).frame]>> \o wire
          PROVE  wire[x].frame # n
      <4> DEFINE d == [byte |-> b, frame |-> Head(wire).frame]
      <4>1. d \in LineBytes
        <5>1. b \in Symbols
          BY DEF Symbols, Bytes, Special
        <5> QED
          BY <2>3, <5>1 DEF LineBytes
      <4>2. wire' = <<d>> \o wire
        BY <3>3
      <4> HIDE DEF d
      <4>3. <<d>> \in Seq(LineBytes) /\ Len(<<d>>) = 1
        BY <4>1
      <4>4. x + 1 \in 1..l + 1 /\ ~(x + 1 <= 1) /\ (x + 1) - 1 = x
        BY <2>3
      <4>5. Len(wire') = l + 1 /\ wire'[x + 1] = wire[x]
        BY <2>2, <2>3, <4>2, <4>3, <4>4, ConcatProperties
      <4> QED
        BY <4>4, <4>5 DEF Passed
    <3> QED
      BY <1>5, <3>1, <3>2, <3>3 DEF Noise
  <2>6. Passed(n)
    <3>1. \A x \in 1..Len(wire) : wire[x].frame # n
      BY <2>2, <2>3, <2>4, <2>5
    <3> QED
      BY <2>1, <3>1 DEF Passed
  <2> QED
    BY <1>2, <2>1, <2>6
<1>6. ASSUME Receive PROVE \E k \in 1..Len(delivered') : delivered'[k].frame = n
  <2>1. /\ wire # <<>> /\ wire' = Tail(wire) /\ tx' = tx /\ frames' = frames
        /\ disturbed \subseteq disturbed'
        /\ delivered' = delivered \/ \E d : delivered' = Append(delivered, d)
    BY <1>6, ReceiveFrame
  <2>2. CASE wire[1].frame = n
    BY <1>6, <2>2, LastByteEnds
  <2>3. CASE wire[1].frame # n
    <3>1. PICK l : l = Len(wire)
      OBVIOUS
    <3>2. /\ l \in Nat /\ l > 0 /\ Len(wire') = l - 1
          /\ \A x \in 1..l - 1 : wire'[x] = wire[x + 1]
      BY <2>1, <3>1, WireTail
    <3>3. \A x \in 1..l - 1 : wire[x + 1].frame # n
      BY <3>2 DEF Passed
    <3>4. \A x \in 1..l : x = 1 \/ (x - 1 \in 1..l - 1 /\ (x - 1) + 1 = x)
      BY <3>2
    <3>5. \A x \in 1..l : wire[x].frame # n
      BY <2>3, <3>3, <3>4
    <3>6. Passed(n)
      BY <2>1, <3>1, <3>5 DEF Passed
    <3> QED
      BY <1>2, <2>1, <3>6
  <2> QED
    BY <2>2, <2>3
<1> QED
  BY <1>3, <1>4, <1>5, <1>6 DEF KissNext, Receive

LEMMA ResyncInvInit == KissInit => ResyncInv
<1> SUFFICES ASSUME KissInit PROVE ResyncInv
  OBVIOUS
<1>1. /\ frames = 0 /\ wire = <<>> /\ Len(wire) = 0 /\ disturbed = {}
      /\ \A t \in KissTasks : tx[t] = Idle
  BY DEF KissInit
<1>2. FramesOK
  BY <1>1 DEF FramesOK
<1>3. Mode = "NOT_STARTED"
  BY DEF KissInit, Mode
<1>4. ASSUME NEW m, NEW r, Coming(m, r) PROVE Tuned(m, r)
  <2>1. r = <<0, 1>>
    BY <1>1, <1>4 DEF Coming
  <2> QED
    BY <1>3, <2>1 DEF Tuned, Follows, InStep
<1>5. TunedToLine
  <2>1. \A x \in 1..Len(wire) : FALSE
    BY <1>1
  <2>2. \A x \in 1..Len(wire) - 1 : FALSE
    BY <1>1
  <2>3. Placed(<<>>)
    BY <1>1, <2>1, <2>2 DEF Placed
  <2> QED
    BY <1>1, <1>4, <2>3 DEF TunedToLine
<1>6. KissResync
  BY <1>1 DEF KissResync
<1> QED
  BY <1>2, <1>5, <1>6 DEF ResyncInv

LEMMA ResyncInvStep == ASSUME KissInv, ResyncInv, [KissNext]_kissVars PROVE ResyncInv'
<1>1. FramesOK /\ TunedToLine /\ KissResync
  BY DEF ResyncInv
<1>2. CASE KissNext
  <2>1. FramesOK' /\ TunedToLine'
    BY <1>1, <1>2, LineByLock, LineByTransmit, LineByNoise, LineByReceive DEF KissNext, Receive
  <2> QED
    BY <1>1, <1>2, <2>1, ResyncStep DEF ResyncInv
<1>3. CASE UNCHANGED kissVars
  <2>1. FramesOK' /\ KissResync'
    BY <1>1, <1>3 DEF kissVars, FramesOK, KissResync, Passed
  <2>2. \A m, r : Coming(m, r)' <=> Coming(m, r)
    BY <1>3 DEF kissVars, Coming
  <2>3. ASSUME NEW m, NEW r, Tuned(m, r) PROVE Tuned(m, r)'
    BY <1>3, <2>3 DEF kissVars, Tuned, Settles, Follows, InStep, Mode, Received, Overflow
  <2>4. PICK pos : Placed(pos) /\ (wire # <<>> => Tuned(wire[1].frame, pos[1]))
    BY <1>1 DEF TunedToLine
  <2>5. Placed(pos)'
    BY <1>3, <2>2, <2>4 DEF kissVars, Placed, AtSpot, Goes
  <2>6. PICK m, r : m = wire[1].frame /\ r = pos[1]
    OBVIOUS
  <2>7. wire' # <<>> => Tuned(m, r)'
    BY <1>3, <2>3, <2>4, <2>6 DEF kissVars
  <2>8. wire' # <<>> => Tuned(wire[1].frame, pos[1])'
    BY <1>3, <2>6, <2>7 DEF kissVars, Tuned
  <2>9. wire' = <<>> => \A n, s : Coming(n, s)' => Tuned(n, s)'
    BY <1>1, <1>3, <2>2, <2>3 DEF kissVars, TunedToLine
  <2> QED
    BY <2>1, <2>5, <2>8, <2>9 DEF ResyncInv, TunedToLine
<1> QED
  BY <1>2, <1>3

\* Whatever noise on the line or a missing buffer did to the receiver, however
\* many tasks send, whatever the packets hold: it is back in step after one
\* frame that came untouched, and gives the next one to the router.
THEOREM KissResyncCorrect == KissSpec => []KissResync
<1>1. KissInit => KissInv /\ ResyncInv
  BY KissInvInit, ResyncInvInit
<1>2. KissInv /\ ResyncInv /\ [KissNext]_kissVars => KissInv' /\ ResyncInv'
  BY KissInvStep, ResyncInvStep
<1>3. ResyncInv => KissResync
  BY DEF ResyncInv
<1> QED
  BY <1>1, <1>2, <1>3, PTL DEF KissSpec

----------------------------------------------------------------------------
\* Module Uart

Messages == Lines \cup {0}
Entries == [msg : Messages, whole : BOOLEAN]

UartType ==
  /\ fifoMode \in BOOLEAN /\ entered \in 0..Len(MsgLength) /\ session \in 1..entered + 1
  /\ sessionOf \in [Lines -> Sessions]
  /\ pipe \in Seq(Messages \X Nat) /\ fifo \in Seq(Entries) /\ rxq \in [Sessions -> Seq(Entries)]
  /\ pending \in Seq(Sessions) /\ serving \in [at : {"accept", "read", "close"}, on : Sessions]
  /\ readOut \in Seq(Messages)

\* Where a message is: its first byte in the pipe, a packet that begins with
\* it in a queue, or what was read.  It is in one of these at a time, and once.
At(q, x) == {i \in 1..Len(q) : q[i] = x}
Among(q, n) == {i \in 1..Len(q) : q[i].msg = n}
Begun(n) == At(pipe, <<n, 1>>)
Routed(n) == Among(fifo, n)
Stored(s, n) == Among(rxq[s], n)
Reads(n) == At(readOut, n)

Single(S) == \A i, j \in S : i = j
InOnePlace(n) ==
  /\ Single(Begun(n)) /\ Single(Routed(n)) /\ Single(Reads(n))
  /\ \A s \in Sessions : Single(Stored(s, n)) /\ (Stored(s, n) # {} => s = sessionOf[n])
  /\ Begun(n) # {} => Routed(n) = {}
  /\ Begun(n) # {} \/ Routed(n) # {} => \A s \in Sessions : Stored(s, n) = {}
  /\ Begun(n) # {} \/ Routed(n) # {} \/ (\E s \in Sessions : Stored(s, n) # {}) => Reads(n) = {}
  /\ n > entered => /\ Begun(n) = {} /\ Routed(n) = {} /\ Reads(n) = {}
                    /\ sessionOf[n] = 0 /\ \A s \in Sessions : Stored(s, n) = {}

\* A pipe in which no two messages met holds one, and the packets are whole.
NeverMet ==
  fifoMode /\ crowded = {} =>
    /\ pipe # <<>> => \E n \in Lines : pipe = Written(n)
    /\ \A i \in 1..Len(fifo) : fifo[i].whole /\ fifo[i].msg # 0
    /\ \A s \in Sessions : \A i \in 1..Len(rxq[s]) : rxq[s][i].whole /\ rxq[s][i].msg # 0
    /\ \A i \in 1..Len(readOut) : readOut[i] # 0

\* A message that has the line to itself, and on which no connection is closed
WholeMsg(n) == [msg |-> n, whole |-> TRUE]
GetsThrough(n) ==
  \/ pipe = Written(n) \o Feed /\ reading
  \/ \E i \in 1..Len(fifo) : fifo[i] = WholeMsg(n)
  \/ \E s \in Sessions : \E i \in 1..Len(rxq[s]) : rxq[s][i] = WholeMsg(n)
  \/ \E i \in 1..Len(readOut) : readOut[i] = n
Undisturbed ==
  \A n \in 1..entered : sessionOf[n] # 0 /\ n \notin crowded \cup shut => GetsThrough(n)

UartInv ==
  /\ UartType /\ NeverMet /\ Undisturbed
  /\ \A n \in Lines : InOnePlace(n)

----------------------------------------------------------------------------
LEMMA LinesType ==
  /\ Len(MsgLength) \in Nat /\ Lines \subseteq Nat /\ 0 \notin Lines
  /\ Sessions \subseteq Nat /\ 0 \in Sessions
  /\ \A n \in Lines : MsgLength[n] \in Nat \ {0}
  /\ HeaderSize \in Nat \ {0} /\ PacketSize \in Nat \ {0}
<1>1. MsgLength \in Seq(Nat \ {0}) /\ Len(MsgLength) \in Nat
  BY UartAssumption
<1>2. \A n \in Lines : MsgLength[n] \in Nat \ {0}
  BY <1>1 DEF Lines
<1> QED
  BY <1>1, <1>2, UartAssumption DEF Lines, Sessions

LEMMA WrittenIs ==
  ASSUME NEW n \in Lines
  PROVE  /\ Written(n) \in Seq(Messages \X Nat) /\ Len(Written(n)) = MsgLength[n] + HeaderSize
         /\ \A i \in 1..MsgLength[n] + HeaderSize : Written(n)[i] = <<n, i>>
         /\ Feed \in Seq(Messages \X Nat) /\ \A i \in 1..Len(Feed) : Feed[i] = <<0, 1>>
         /\ Len(Feed) \in Nat /\ (fifoMode => Feed = <<>>)
<1>1. MsgLength[n] + HeaderSize \in Nat
  BY LinesType
<1>2. \A i \in 1..MsgLength[n] + HeaderSize : <<n, i>> \in Messages \X Nat
  BY <1>1 DEF Messages
<1>3. Written(n) \in Seq(Messages \X Nat)
  BY <1>1, <1>2, IsASeq DEF Written
<1>4. Len(Written(n)) = MsgLength[n] + HeaderSize
  BY <1>1 DEF Written
<1>5. \A i \in 1..MsgLength[n] + HeaderSize : Written(n)[i] = <<n, i>>
  BY <1>1 DEF Written
<1>6. CASE fifoMode
  <2>1. Feed = <<>> /\ <<>> \in Seq(Messages \X Nat) /\ Len(<<>>) = 0
    BY <1>6 DEF Feed
  <2> QED
    BY <1>3, <1>4, <1>5, <2>1
<1>7. CASE ~fifoMode
  <2>1. <<0, 1>> \in Messages \X Nat
    BY DEF Messages
  <2>2. Feed = <<<<0, 1>>>>
    BY <1>7 DEF Feed
  <2>3. Feed \in Seq(Messages \X Nat) /\ Len(Feed) = 1 /\ Feed[1] = <<0, 1>>
    BY <2>1, <2>2
  <2>4. \A i \in 1..Len(Feed) : Feed[i] = <<0, 1>>
    BY <2>3
  <2> QED
    BY <1>3, <1>4, <1>5, <1>7, <2>3, <2>4
<1> QED
  BY <1>6, <1>7

\* Queues that gain a last or lose their first element
LEMMA AppendIs ==
  ASSUME NEW S, NEW q \in Seq(S), NEW x \in S
  PROVE  /\ Append(q, x) \in Seq(S) /\ Len(Append(q, x)) = Len(q) + 1 /\ Len(q) \in Nat
         /\ \A i \in 1..Len(q) : Append(q, x)[i] = q[i]
         /\ Append(q, x)[Len(q) + 1] = x
OBVIOUS

LEMMA TailIs ==
  ASSUME NEW S, NEW q \in Seq(S), q # <<>>
  PROVE  /\ Tail(q) \in Seq(S) /\ Len(Tail(q)) = Len(q) - 1 /\ Len(q) \in Nat /\ Len(q) > 0
         /\ \A i \in 1..Len(q) - 1 : Tail(q)[i] = q[i + 1]
         /\ Head(q) = q[1] /\ Head(q) \in S
OBVIOUS

LEMMA ParsedIs ==
  ASSUME UartType, NEW k \in Nat, 1 <= k, k <= Len(pipe)
  PROVE  LET p == Parsed(SubSeq(pipe, 1, k))
         IN  /\ p \in Entries
             /\ p.msg # 0 => pipe[1] = <<p.msg, 1>> /\ p.msg \in Lines
             /\ \A n \in Lines : k = Len(pipe) /\ pipe = Written(n) \o Feed => p = WholeMsg(n)
<1> DEFINE bytes == SubSeq(pipe, 1, k)
           n == bytes[1][1]
           Begins(h) == Len(bytes) >= h /\ \A i \in 1..h : bytes[i] = <<n, i>>
           p == Parsed(bytes)
<1>1. pipe \in Seq(Messages \X Nat) /\ Len(pipe) \in Nat
  BY DEF UartType
<1>2. bytes \in Seq(Messages \X Nat) /\ Len(bytes) = k /\ \A i \in 1..k : bytes[i] = pipe[i]
  BY <1>1
<1>3. n \in Messages /\ bytes[1] = pipe[1]
  <2>1. bytes[1] \in Messages \X Nat
    BY <1>2
  <2> QED
    BY <1>2, <2>1
<1>4. p = IF n # 0 /\ Begins(HeaderSize)
          THEN [msg |-> n, whole |-> Begins(HeaderSize + MsgLength[n])]
          ELSE [msg |-> 0, whole |-> FALSE]
  BY DEF Parsed
<1>5. HeaderSize \in Nat \ {0}
  BY LinesType
<1> HIDE DEF bytes, p, n
<1>6. p \in Entries
  BY <1>3, <1>4 DEF Entries, Messages
<1>7. ASSUME p.msg # 0 PROVE pipe[1] = <<p.msg, 1>> /\ p.msg \in Lines
  <2>1. n # 0 /\ Begins(HeaderSize) /\ p.msg = n
    BY <1>4, <1>7
  <2>2. bytes[1] = <<n, 1>>
    BY <1>5, <2>1
  <2> QED
    BY <1>3, <2>1, <2>2 DEF Messages
<1>8. ASSUME NEW m \in Lines, k = Len(pipe), pipe = Written(m) \o Feed
      PROVE  p = WholeMsg(m)
  <2>1. MsgLength[m] + HeaderSize \in Nat /\ MsgLength[m] \in Nat \ {0} /\ m # 0
    BY LinesType
  <2>2. \A i \in 1..MsgLength[m] + HeaderSize : pipe[i] = <<m, i>>
    BY <1>8, <2>1, WrittenIs
  <2>3. Len(pipe) >= MsgLength[m] + HeaderSize
    BY <1>8, <2>1, WrittenIs
  <2>4. \A i \in 1..MsgLength[m] + HeaderSize : bytes[i] = <<m, i>>
    <3> TAKE i \in 1..MsgLength[m] + HeaderSize
    <3>1. i \in 1..k
      BY <1>8, <2>1, <2>3
    <3> QED
      BY <1>2, <2>2, <3>1
  <2>5. n = m
    <3>1. bytes[1] = <<m, 1>>
      BY <1>5, <2>1, <2>4
    <3> QED
      BY <3>1 DEF n
  <2>6. Begins(HeaderSize) /\ Begins(HeaderSize + MsgLength[n])
    BY <1>2, <1>5, <1>8, <2>1, <2>3, <2>4, <2>5, SMTT(40)
  <2> QED
    BY <1>4, <2>1, <2>5, <2>6 DEF WholeMsg
<1> QED
  BY <1>6, <1>7, <1>8 DEF p, bytes

LEMMA UartInitInv == UartInit => UartInv
<1> SUFFICES ASSUME UartInit PROVE UartInv
  OBVIOUS
<1>1. UartType
  <2>1. sessionOf \in [Lines -> Sessions] /\ rxq \in [Sessions -> Seq(Entries)]
    BY LinesType DEF UartInit
  <2>2. serving \in [at : {"accept", "read", "close"}, on : Sessions]
    BY LinesType DEF UartInit, NoSession
  <2> QED
    BY <2>1, <2>2, LinesType DEF UartInit, UartType
<1>2. NeverMet
  BY DEF UartInit, NeverMet
<1>3. Undisturbed
  BY DEF UartInit, Undisturbed
<1>4. \A n \in Lines : InOnePlace(n)
  BY DEF UartInit, InOnePlace, Begun, Routed, Stored, Reads, Single, At, Among
<1> QED
  BY <1>1, <1>2, <1>3, <1>4 DEF UartInv

----------------------------------------------------------------------------
\* What the places hold when a queue grows or shrinks.

LEMMA AtAppend ==
  ASSUME NEW S, NEW q \in Seq(S), NEW x \in S, NEW y
  PROVE  /\ x # y => At(Append(q, x), y) = At(q, y)
         /\ x = y => At(Append(q, x), y) # {}
         /\ x = y /\ At(q, y) = {} => Single(At(Append(q, x), y))
<1> DEFINE a == Append(q, x)
<1>1. /\ Len(a) = Len(q) + 1 /\ Len(q) \in Nat /\ a[Len(q) + 1] = x
      /\ \A i \in 1..Len(q) : a[i] = q[i]
  BY AppendIs
<1> HIDE DEF a
<1>2. \A i \in 1..Len(a) : i = Len(q) + 1 \/ i \in 1..Len(q)
  BY <1>1
<1>3. \A i \in 1..Len(q) : i \in 1..Len(a)
  BY <1>1
<1>4. Len(q) + 1 \in 1..Len(a)
  BY <1>1
<1>5. ASSUME x # y PROVE At(a, y) = At(q, y)
  BY <1>1, <1>2, <1>3, <1>5 DEF At
<1>6. x = y => At(a, y) # {}
  BY <1>1, <1>4 DEF At
<1>7. ASSUME At(q, y) = {} PROVE Single(At(a, y))
  <2>1. \A i \in At(a, y) : i = Len(q) + 1
    BY <1>1, <1>2, <1>7 DEF At
  <2> QED
    BY <2>1 DEF Single
<1> QED
  BY <1>5, <1>6, <1>7 DEF a

LEMMA AmongAppend ==
  ASSUME NEW S, NEW q \in Seq(S), NEW x \in S, NEW n
  PROVE  /\ x.msg # n => Among(Append(q, x), n) = Among(q, n)
         /\ x.msg = n => Among(Append(q, x), n) # {}
         /\ x.msg = n /\ Among(q, n) = {} => Single(Among(Append(q, x), n))
<1> DEFINE a == Append(q, x)
<1>1. /\ Len(a) = Len(q) + 1 /\ Len(q) \in Nat /\ a[Len(q) + 1] = x
      /\ \A i \in 1..Len(q) : a[i] = q[i]
  BY AppendIs
<1> HIDE DEF a
<1>2. \A i \in 1..Len(a) : i = Len(q) + 1 \/ i \in 1..Len(q)
  BY <1>1
<1>3. \A i \in 1..Len(q) : i \in 1..Len(a)
  BY <1>1
<1>4. Len(q) + 1 \in 1..Len(a)
  BY <1>1
<1>5. ASSUME x.msg # n PROVE Among(a, n) = Among(q, n)
  BY <1>1, <1>2, <1>3, <1>5 DEF Among
<1>6. x.msg = n => Among(a, n) # {}
  BY <1>1, <1>4 DEF Among
<1>7. ASSUME Among(q, n) = {} PROVE Single(Among(a, n))
  <2>1. \A i \in Among(a, n) : i = Len(q) + 1
    BY <1>1, <1>2, <1>7 DEF Among
  <2> QED
    BY <2>1 DEF Single
<1> QED
  BY <1>5, <1>6, <1>7 DEF a

LEMMA AtRest ==
  ASSUME NEW S, NEW q \in Seq(S), NEW k \in Nat, 1 <= k, k <= Len(q), NEW y
  PROVE  LET r == SubSeq(q, k + 1, Len(q))
         IN  /\ r \in Seq(S) /\ (k = Len(q) => r = <<>>)
             /\ At(r, y) # {} => At(q, y) # {}
             /\ Single(At(q, y)) => Single(At(r, y)) /\ (q[1] = y => At(r, y) = {})
<1> DEFINE r == SubSeq(q, k + 1, Len(q))
<1>1. Len(q) \in Nat /\ r \in Seq(S) /\ Len(r) = Len(q) - k
      /\ \A i \in 1..Len(q) - k : r[i] = q[k + i]
  OBVIOUS
<1>2. k = Len(q) => r = <<>>
  BY <1>1
<1> HIDE DEF r
<1>3. \A i \in At(r, y) : i \in Int /\ i + k \in At(q, y) /\ i + k # 1
  BY <1>1 DEF At
<1>4. At(r, y) # {} => At(q, y) # {}
  BY <1>3
<1>5. ASSUME Single(At(q, y)) PROVE Single(At(r, y))
  <2>1. ASSUME NEW i \in At(r, y), NEW j \in At(r, y) PROVE i = j
    <3>1. i + k = j + k
      BY <1>3, <1>5 DEF Single
    <3> QED
      BY <1>3, <3>1
  <2> QED
    BY <2>1 DEF Single
<1>6. ASSUME Single(At(q, y)), q[1] = y PROVE At(r, y) = {}
  <2>1. 1 \in At(q, y)
    BY <1>1, <1>6 DEF At
  <2> QED
    BY <1>3, <1>6, <2>1 DEF Single
<1> QED
  BY <1>1, <1>2, <1>4, <1>5, <1>6 DEF r

LEMMA AmongTail ==
  ASSUME NEW S, NEW q \in Seq(S), q # <<>>, NEW n
  PROVE  /\ Among(Tail(q), n) # {} => Among(q, n) # {}
         /\ Head(q).msg = n => Among(q, n) # {}
         /\ Single(Among(q, n)) => Single(Among(Tail(q), n))
         /\ Single(Among(q, n)) /\ Head(q).msg = n => Among(Tail(q), n) = {}
<1> DEFINE r == Tail(q)
<1>1. /\ r \in Seq(S) /\ Len(r) = Len(q) - 1 /\ Len(q) \in Nat /\ Len(q) > 0
      /\ \A i \in 1..Len(q) - 1 : r[i] = q[i + 1]
      /\ Head(q) = q[1]
  BY TailIs
<1> HIDE DEF r
<1>3. \A i \in Among(r, n) : i \in Int /\ i + 1 \in Among(q, n) /\ i + 1 # 1
  BY <1>1 DEF Among
<1>4. Among(r, n) # {} => Among(q, n) # {}
  BY <1>3
<1>5. ASSUME Single(Among(q, n)) PROVE Single(Among(r, n))
  <2>1. ASSUME NEW i \in Among(r, n), NEW j \in Among(r, n) PROVE i = j
    <3>1. i + 1 = j + 1
      BY <1>3, <1>5 DEF Single
    <3> QED
      BY <1>3, <3>1
  <2> QED
    BY <2>1 DEF Single
<1>6. Head(q).msg = n => 1 \in Among(q, n)
  BY <1>1 DEF Among
<1>7. ASSUME Single(Among(q, n)), Head(q).msg = n PROVE Among(r, n) = {}
  BY <1>3, <1>6, <1>7 DEF Single
<1> QED
  BY <1>4, <1>5, <1>6, <1>7 DEF r

----------------------------------------------------------------------------
\* The steps

LEMMA InvFacts ==
  ASSUME UartInv
  PROVE  /\ UartType /\ NeverMet /\ Undisturbed /\ \A n \in Lines : InOnePlace(n)
         /\ pipe \in Seq(Messages \X Nat) /\ fifo \in Seq(Entries)
         /\ rxq \in [Sessions -> Seq(Entries)] /\ readOut \in Seq(Messages)
         /\ entered \in Nat /\ session \in Sessions
BY LinesType DEF UartInv, UartType, Sessions

LEMMA ConcatIs ==
  ASSUME NEW S, NEW q \in Seq(S), NEW r \in Seq(S)
  PROVE  /\ q \o r \in Seq(S) /\ Len(q \o r) = Len(q) + Len(r)
         /\ Len(q) \in Nat /\ Len(r) \in Nat
         /\ \A i \in 1..Len(q) : (q \o r)[i] = q[i]
         /\ \A i \in Len(q) + 1..Len(q) + Len(r) : (q \o r)[i] = r[i - Len(q)]
<1>1. Len(q) \in Nat /\ Len(r) \in Nat
  OBVIOUS
<1> QED
  BY <1>1, ConcatProperties

\* What the client writes has one first byte.
LEMMA WrittenBegins ==
  ASSUME NEW n \in Lines, NEW q \in Seq(Messages \X Nat), NEW m \in Lines
  PROVE  LET w == Written(n) \o Feed
         IN  /\ q \o w \in Seq(Messages \X Nat) /\ w \in Seq(Messages \X Nat) /\ w # <<>>
             /\ m # n => At(q \o w, <<m, 1>>) = At(q, <<m, 1>>)
             /\ At(q, <<n, 1>>) = {} => Single(At(q \o w, <<n, 1>>))
<1> DEFINE w == Written(n) \o Feed
           L == MsgLength[n] + HeaderSize
           c == q \o w
<1>1. /\ Written(n) \in Seq(Messages \X Nat) /\ Len(Written(n)) = L
      /\ \A i \in 1..L : Written(n)[i] = <<n, i>>
      /\ Feed \in Seq(Messages \X Nat) /\ \A i \in 1..Len(Feed) : Feed[i] = <<0, 1>>
      /\ Len(Feed) \in Nat
  BY WrittenIs
<1>2. L \in Nat \ {0} /\ 0 \notin Lines /\ Len(q) \in Nat
  BY LinesType
<1> HIDE DEF L
<1>3. /\ w \in Seq(Messages \X Nat) /\ Len(w) = L + Len(Feed) /\ Len(w) \in Nat
      /\ \A i \in 1..L : w[i] = <<n, i>>
      /\ \A i \in L + 1..Len(w) : w[i] = <<0, 1>>
  <2>1. /\ w \in Seq(Messages \X Nat) /\ Len(w) = L + Len(Feed)
        /\ \A i \in 1..L : w[i] = Written(n)[i]
        /\ \A i \in L + 1..L + Len(Feed) : w[i] = Feed[i - L]
    <3> DEFINE S == Messages \X Nat
    <3>1. Written(n) \in Seq(S) /\ Feed \in Seq(S) /\ Len(Written(n)) = L
      BY <1>1
    <3> HIDE DEF S
    <3>2. /\ w \in Seq(S) /\ Len(w) = Len(Written(n)) + Len(Feed)
          /\ \A i \in 1..Len(Written(n)) : w[i] = Written(n)[i]
          /\ \A i \in Len(Written(n)) + 1..Len(Written(n)) + Len(Feed) :
               w[i] = Feed[i - Len(Written(n))]
      BY <3>1, ConcatIs
    <3> HIDE DEF w
    <3> QED
      BY <3>1, <3>2 DEF S
  <2> HIDE DEF w
  <2>3. ASSUME NEW i \in 1..L PROVE w[i] = <<n, i>>
    BY <1>1, <2>1
  <2>4. ASSUME NEW i \in L + 1..Len(w) PROVE w[i] = <<0, 1>>
    <3>1. i - L \in 1..Len(Feed) /\ i \in L + 1..L + Len(Feed)
      BY <1>1, <1>2, <2>1
    <3> QED
      BY <1>1, <2>1, <3>1
  <2> QED
    BY <1>1, <1>2, <2>1, <2>3, <2>4
<1> HIDE DEF w
<1>4. w # <<>>
  BY <1>2, <1>3
<1>5. /\ c \in Seq(Messages \X Nat) /\ Len(c) = Len(q) + Len(w)
      /\ \A i \in 1..Len(q) : c[i] = q[i]
      /\ \A i \in Len(q) + 1..Len(c) : c[i] = w[i - Len(q)]
  <2> DEFINE S == Messages \X Nat
  <2>1. q \in Seq(S) /\ w \in Seq(S)
    BY <1>3
  <2> HIDE DEF S
  <2>2. /\ c \in Seq(S) /\ Len(c) = Len(q) + Len(w)
        /\ \A i \in 1..Len(q) : c[i] = q[i]
        /\ \A i \in Len(q) + 1..Len(q) + Len(w) : c[i] = w[i - Len(q)]
    BY <2>1, ConcatIs
  <2> HIDE DEF c
  <2> QED
    BY <2>2 DEF S
<1> HIDE DEF c
<1>6. \A i \in 1..Len(c) : i \in 1..Len(q) \/ (i \in Len(q) + 1..Len(c) /\ i - Len(q) \in 1..Len(w))
  BY <1>2, <1>3, <1>5
<1>7. \A i \in 1..Len(q) : i \in 1..Len(c)
  BY <1>2, <1>3, <1>5
<1>8. \A j \in 1..Len(w) : j \in 1..L \/ j \in L + 1..Len(w)
  BY <1>2, <1>3
<1>9. \A j \in 1..Len(w), x \in Lines : w[j] = <<x, 1>> => x = n /\ j = 1
  <2> TAKE j \in 1..Len(w), x \in Lines
  <2>1. CASE j \in 1..L
    BY <1>3, <2>1
  <2>2. CASE j \in L + 1..Len(w)
    BY <1>2, <1>3, <2>2
  <2> QED
    BY <1>8, <2>1, <2>2
<1>10. ASSUME m # n PROVE At(c, <<m, 1>>) = At(q, <<m, 1>>)
  <2>1. \A i \in 1..Len(c) : c[i] = <<m, 1>> => i \in 1..Len(q)
    <3> SUFFICES ASSUME NEW i \in 1..Len(c), c[i] = <<m, 1>>, i \notin 1..Len(q) PROVE FALSE
      OBVIOUS
    <3>1. i \in Len(q) + 1..Len(c) /\ i - Len(q) \in 1..Len(w)
      BY <1>6
    <3>2. w[i - Len(q)] = <<m, 1>>
      BY <1>5, <3>1
    <3> QED
      BY <1>9, <1>10, <3>1, <3>2
  <2> QED
    BY <1>5, <1>7, <2>1 DEF At
<1>11. ASSUME At(q, <<n, 1>>) = {} PROVE Single(At(c, <<n, 1>>))
  <2>1. \A i \in At(c, <<n, 1>>) : i \in Int /\ i - Len(q) = 1
    <3> SUFFICES ASSUME NEW i \in 1..Len(c), c[i] = <<n, 1>> PROVE i - Len(q) = 1
      BY DEF At
    <3>1. i \notin 1..Len(q)
      BY <1>5, <1>11 DEF At
    <3>2. i \in Len(q) + 1..Len(c) /\ i - Len(q) \in 1..Len(w)
      BY <1>6, <3>1
    <3>3. w[i - Len(q)] = <<n, 1>>
      BY <1>5, <3>2
    <3> QED
      BY <1>9, <3>2, <3>3
  <2> QED
    BY <1>2, <2>1 DEF Single
<1> QED
  BY <1>3, <1>4, <1>5, <1>10, <1>11 DEF c, w
LEMMA EnterStep ==
  ASSUME UartInv, Enter
  PROVE  UartInv'
<1>0. PICK n \in Nat : n = entered + 1
  BY InvFacts
<1> DEFINE bytes == Written(n) \o Feed
<1>1. /\ UartType /\ NeverMet /\ Undisturbed /\ \A m \in Lines : InOnePlace(m)
      /\ pipe \in Seq(Messages \X Nat) /\ fifo \in Seq(Entries)
      /\ rxq \in [Sessions -> Seq(Entries)] /\ readOut \in Seq(Messages)
      /\ entered \in Nat /\ session \in Sessions
  BY InvFacts
<1>2. /\ n \in Lines /\ entered' = n /\ n \in Nat /\ n # 0 /\ n <= Len(MsgLength) /\ Len(MsgLength) \in Nat
      /\ UNCHANGED <<fifoMode, reading, fifo, rxq, pending, serving, readOut, shut>>
  <2>1. n \in Lines /\ entered' = n
    BY <1>0 DEF Enter
  <2>2. UNCHANGED <<fifoMode, reading, fifo, rxq, pending, serving, readOut, shut>>
    BY DEF Enter, readVars, connVars
  <2> QED
    BY <1>1, <2>1, <2>2, LinesType DEF Lines
<1>3. /\ Begun(n) = {} /\ Routed(n) = {} /\ Reads(n) = {} /\ sessionOf[n] = 0
      /\ \A s \in Sessions : Stored(s, n) = {}
  BY <1>0, <1>1, <1>2 DEF InOnePlace
<1>4. /\ \A m \in Lines : (Routed(m))' = Routed(m) /\ (Reads(m))' = Reads(m)
      /\ \A s \in Sessions, m \in Lines : (Stored(s, m))' = Stored(s, m)
  BY <1>2 DEF Routed, Reads, Stored
<1>5. \/ /\ UNCHANGED <<sessionOf, pipe, crowded>>
         /\ session' \in {session, session + 1}
      \/ /\ pipe' = pipe \o bytes
         /\ sessionOf' = [sessionOf EXCEPT ![n] = session]
         /\ crowded' = crowded \cup (IF pipe = <<>> THEN {} ELSE {n} \cup InPipe)
                               \cup (IF reading THEN {} ELSE {n})
         /\ session' = session
  BY <1>0 DEF Enter
<1>6. session' \in 1..entered' + 1
  BY <1>0, <1>1, <1>2, <1>5 DEF UartType
<1> HIDE DEF bytes
<1>7. ASSUME pipe' \in Seq(Messages \X Nat), sessionOf' \in [Lines -> Sessions]
      PROVE  UartType'
  BY <1>1, <1>2, <1>6, <1>7 DEF UartType
<1>8. CASE UNCHANGED <<sessionOf, pipe, crowded>>
  <2>1. UartType'
    BY <1>1, <1>7, <1>8 DEF UartType
  <2>2. NeverMet'
    BY <1>1, <1>2, <1>8 DEF NeverMet, Written
  <2>3. Undisturbed'
    <3> SUFFICES ASSUME NEW m \in 1..n, sessionOf[m] # 0, m \notin crowded \cup shut
                 PROVE  GetsThrough(m)'
      BY <1>2, <1>8 DEF Undisturbed
    <3>1. m \in 1..entered
      BY <1>0, <1>1, <1>2, <1>3
    <3>2. GetsThrough(m)
      BY <1>1, <3>1 DEF Undisturbed
    <3> QED
      BY <1>2, <1>8, <3>2 DEF GetsThrough, Written, Feed
  <2>4. ASSUME NEW m \in Lines PROVE InOnePlace(m)'
    <3>1. InOnePlace(m) /\ m \in Nat
      BY <1>1, LinesType
    <3>2. m > n => m > entered
      BY <1>0, <1>1, <3>1
    <3>3. (Begun(m))' = Begun(m)
      BY <1>8 DEF Begun
    <3> QED
      BY <1>2, <1>4, <1>8, <3>1, <3>2, <3>3 DEF InOnePlace
  <2> QED
    BY <2>1, <2>2, <2>3, <2>4 DEF UartInv
<1>9. CASE /\ pipe' = pipe \o bytes
           /\ sessionOf' = [sessionOf EXCEPT ![n] = session]
           /\ crowded' = crowded \cup (IF pipe = <<>> THEN {} ELSE {n} \cup InPipe)
                                 \cup (IF reading THEN {} ELSE {n})
  <2>1. /\ pipe' \in Seq(Messages \X Nat) /\ bytes \in Seq(Messages \X Nat)
        /\ \A m \in Lines : m # n => (Begun(m))' = Begun(m)
        /\ Single((Begun(n))')
    <3>1. \A m \in Lines : /\ pipe' \in Seq(Messages \X Nat) /\ bytes \in Seq(Messages \X Nat)
                           /\ m # n => At(pipe', <<m, 1>>) = At(pipe, <<m, 1>>)
                           /\ At(pipe, <<n, 1>>) = {} => Single(At(pipe', <<n, 1>>))
      BY <1>1, <1>2, <1>9, WrittenBegins DEF bytes
    <3> QED
      BY <1>2, <1>3, <3>1 DEF Begun
  <2>2. UartType'
    BY <1>1, <1>2, <1>7, <1>9, <2>1 DEF UartType
  <2>3. pipe = <<>> => pipe' = bytes
    BY <1>9, <2>1, ConcatEmptySeq
  <2>4. NeverMet'
    <3> SUFFICES ASSUME fifoMode', crowded' = {} PROVE NeverMet'
      BY DEF NeverMet
    <3>1. fifoMode /\ crowded = {} /\ pipe = <<>>
      BY <1>2, <1>9
    <3>2. Feed = <<>> /\ Written(n) \in Seq(Messages \X Nat)
      BY <1>2, <3>1, WrittenIs
    <3>3. pipe' = Written(n)
      BY <2>3, <3>1, <3>2, ConcatEmptySeq DEF bytes
    <3>4. (Written(n))' = Written(n)
      BY <1>2 DEF Written
    <3> QED
      BY <1>1, <1>2, <3>1, <3>3, <3>4 DEF NeverMet, Written
  <2>5. Undisturbed'
    <3> SUFFICES ASSUME NEW m \in 1..n, sessionOf'[m] # 0, m \notin crowded' \cup shut
                 PROVE  GetsThrough(m)'
      BY <1>2 DEF Undisturbed
    <3>1. CASE m = n
      <4>1. pipe = <<>> /\ reading
        BY <1>9, <3>1
      <4>2. pipe' = Written(m) \o Feed /\ reading'
        BY <1>2, <2>3, <3>1, <4>1 DEF bytes
      <4> QED
        BY <1>2, <4>2 DEF GetsThrough, Written, Feed
    <3>2. CASE m # n
      <4>1. m \in 1..entered /\ m \in Lines
        BY <1>0, <1>1, <1>2, <3>2 DEF Lines
      <4>2. sessionOf[m] # 0
        BY <1>1, <1>2, <1>9, <3>2, <4>1 DEF UartType
      <4>3. GetsThrough(m)
        BY <1>1, <1>9, <4>1, <4>2 DEF Undisturbed
      <4>4. ASSUME pipe = Written(m) \o Feed PROVE FALSE
        <5>1. pipe # <<>> /\ Len(pipe) \in Nat
          <6>1. Written(m) \o Feed # <<>>
            BY <1>1, <4>1, WrittenBegins
          <6> QED
            BY <1>1, <4>4, <6>1
        <5>2. pipe[1] = <<m, 1>> /\ Len(pipe) > 0
          <6>1. /\ Written(m) \in Seq(Messages \X Nat) /\ Len(Written(m)) = MsgLength[m] + HeaderSize
                /\ \A i \in 1..MsgLength[m] + HeaderSize : Written(m)[i] = <<m, i>>
                /\ Feed \in Seq(Messages \X Nat)
            BY <4>1, WrittenIs
          <6>2. 1 \in 1..MsgLength[m] + HeaderSize /\ MsgLength[m] + HeaderSize \in Nat
            BY <4>1, LinesType
          <6>3. pipe[1] = Written(m)[1]
            BY <4>4, <6>1, <6>2, ConcatIs
          <6>4. Len(pipe) > 0
            BY <1>1, <5>1
          <6> QED
            BY <6>1, <6>2, <6>3, <6>4
        <5>3. m \in InPipe
          BY <5>1, <5>2 DEF InPipe
        <5> QED
          BY <1>9, <5>1, <5>3
      <4> QED
        BY <1>2, <4>3, <4>4 DEF GetsThrough
    <3> QED
      BY <3>1, <3>2
  <2>6. ASSUME NEW m \in Lines PROVE InOnePlace(m)'
    <3>1. InOnePlace(m) /\ m \in Nat
      BY <1>1, LinesType
    <3>2. m > n => m > entered
      BY <1>0, <1>1, <3>1
    <3>3. CASE m = n
      <4>1. /\ Single((Begun(m))') /\ (Routed(m))' = {} /\ (Reads(m))' = {}
            /\ \A s \in Sessions : (Stored(s, m))' = {}
        BY <1>2, <1>3, <1>4, <2>1, <3>3
      <4>2. ~(m > entered')
        BY <1>2, <3>3
      <4> QED
        BY <4>1, <4>2 DEF InOnePlace, Single
    <3>4. CASE m # n
      <4>1. (Begun(m))' = Begun(m) /\ sessionOf'[m] = sessionOf[m]
        BY <1>1, <1>9, <2>1, <3>4 DEF UartType
      <4>2. /\ (Routed(m))' = Routed(m) /\ (Reads(m))' = Reads(m)
            /\ \A s \in Sessions : (Stored(s, m))' = Stored(s, m)
        BY <1>4
      <4> QED
        BY <1>2, <3>1, <3>2, <4>1, <4>2 DEF InOnePlace
    <3> QED
      BY <3>3, <3>4
  <2> QED
    BY <2>2, <2>4, <2>5, <2>6 DEF UartInv
<1> QED
  BY <1>5, <1>8, <1>9
\* A message whose bytes are in the pipe met those that come next.
LEMMA WholeInPipe ==
  ASSUME NEW m \in Lines, pipe = Written(m) \o Feed
  PROVE  m \in InPipe
<1>1. /\ Written(m) \in Seq(Messages \X Nat) /\ Len(Written(m)) = MsgLength[m] + HeaderSize
      /\ \A i \in 1..MsgLength[m] + HeaderSize : Written(m)[i] = <<m, i>>
      /\ Feed \in Seq(Messages \X Nat)
  BY WrittenIs
<1>2. 1 \in 1..MsgLength[m] + HeaderSize /\ MsgLength[m] + HeaderSize \in Nat
  BY LinesType
<1>3. pipe[1] = Written(m)[1] /\ Len(pipe) = MsgLength[m] + HeaderSize + Len(Feed) /\ Len(Feed) \in Nat
  <2>1. ASSUME NEW S, Written(m) \in Seq(S), Feed \in Seq(S)
        PROVE  /\ pipe[1] = Written(m)[1] /\ Len(Feed) \in Nat
               /\ Len(pipe) = MsgLength[m] + HeaderSize + Len(Feed)
    BY <1>1, <1>2, <2>1, ConcatIs
  <2> QED
    BY <1>1, <2>1
<1>4. pipe[1] = <<m, 1>> /\ 1 \in 1..Len(pipe)
  BY <1>1, <1>2, <1>3
<1> QED
  BY <1>4 DEF InPipe

LEMMA FifoRxStep ==
  ASSUME UartInv, FifoRx
  PROVE  UartInv'
<1>1. /\ UartType /\ NeverMet /\ Undisturbed /\ \A m \in Lines : InOnePlace(m)
      /\ pipe \in Seq(Messages \X Nat) /\ fifo \in Seq(Entries)
      /\ rxq \in [Sessions -> Seq(Entries)] /\ readOut \in Seq(Messages)
      /\ entered \in Nat /\ session \in Sessions
  BY InvFacts
<1>2. PICK k \in Chunks :
        /\ fifo' = Append(fifo, Parsed(SubSeq(pipe, 1, k)))
        /\ pipe' = SubSeq(pipe, k + 1, Len(pipe))
        /\ crowded' = crowded \cup IF k = Len(pipe) THEN {} ELSE InPipe
  BY DEF FifoRx
<1>3. /\ pipe # <<>>
      /\ UNCHANGED <<fifoMode, entered, session, sessionOf, reading, rxq, pending, serving, readOut, shut>>
  BY DEF FifoRx, clientVars, connVars
<1>4. k \in Nat /\ 1 <= k /\ k <= Len(pipe) /\ Len(pipe) \in Nat
  <2>1. Len(pipe) \in Nat /\ Len(pipe) >= 1
    BY <1>1, <1>3
  <2> DEFINE most == IF Len(pipe) < PacketSize THEN Len(pipe) ELSE PacketSize
  <2>2. most \in Nat /\ 1 <= most /\ most <= Len(pipe)
    BY <2>1, LinesType
  <2>3. k \in {most} \/ k \in 1..most
    BY <1>2 DEF Chunks
  <2> HIDE DEF most
  <2> QED
    BY <2>1, <2>2, <2>3
<1>5. PICK p : p = Parsed(SubSeq(pipe, 1, k))
  OBVIOUS
<1>6. /\ p \in Entries
      /\ p.msg # 0 => pipe[1] = <<p.msg, 1>> /\ p.msg \in Lines
      /\ \A m \in Lines : k = Len(pipe) /\ pipe = Written(m) \o Feed => p = WholeMsg(m)
  BY <1>1, <1>4, <1>5, ParsedIs
<1>7. fifo' = Append(fifo, p)
  BY <1>2, <1>5
<1>8. /\ fifo' \in Seq(Entries) /\ Len(fifo') = Len(fifo) + 1 /\ Len(fifo) \in Nat
      /\ \A i \in 1..Len(fifo) : fifo'[i] = fifo[i]
      /\ fifo'[Len(fifo) + 1] = p
  BY <1>1, <1>6, <1>7, AppendIs
<1>9. /\ pipe' \in Seq(Messages \X Nat) /\ (k = Len(pipe) => pipe' = <<>>)
      /\ \A m : /\ At(pipe', <<m, 1>>) # {} => At(pipe, <<m, 1>>) # {}
                /\ Single(At(pipe, <<m, 1>>)) =>
                     Single(At(pipe', <<m, 1>>)) /\ (pipe[1] = <<m, 1>> => At(pipe', <<m, 1>>) = {})
  BY <1>1, <1>2, <1>4, AtRest
<1>10. UartType'
  BY <1>1, <1>3, <1>8, <1>9 DEF UartType
<1>11. k # Len(pipe) => InPipe \subseteq crowded' /\ InPipe # {}
  <2>1. 1 \in 1..Len(pipe)
    BY <1>4
  <2> QED
    BY <1>2, <2>1 DEF InPipe
<1>12. NeverMet'
  <2> SUFFICES ASSUME fifoMode', crowded' = {} PROVE NeverMet'
    BY DEF NeverMet
  <2>1. fifoMode /\ crowded = {} /\ k = Len(pipe)
    BY <1>2, <1>3, <1>11
  <2>2. PICK m \in Lines : pipe = Written(m)
    BY <1>1, <1>3, <2>1 DEF NeverMet
  <2>3. pipe = Written(m) \o Feed
    <3>1. Feed = <<>> /\ Written(m) \in Seq(Messages \X Nat)
      BY <2>1, WrittenIs
    <3> QED
      BY <2>2, <3>1, ConcatEmptySeq
  <2>4. p.whole /\ p.msg # 0
    <3>1. p = WholeMsg(m)
      BY <1>6, <2>1, <2>3
    <3> QED
      BY <3>1, LinesType DEF WholeMsg
  <2>5. \A i \in 1..Len(fifo') : fifo'[i].whole /\ fifo'[i].msg # 0
    <3> TAKE i \in 1..Len(fifo')
    <3>1. CASE i = Len(fifo) + 1
      BY <1>8, <2>4, <3>1
    <3>2. CASE i # Len(fifo) + 1
      <4>1. i \in 1..Len(fifo)
        BY <1>8, <3>2
      <4> QED
        BY <1>1, <1>8, <2>1, <4>1 DEF NeverMet
    <3> QED
      BY <3>1, <3>2
  <2> QED
    BY <1>1, <1>3, <1>9, <2>1, <2>5 DEF NeverMet
<1>13. Undisturbed'
  <2> SUFFICES ASSUME NEW m \in 1..entered, sessionOf[m] # 0, m \notin crowded' \cup shut
               PROVE  GetsThrough(m)'
    BY <1>3 DEF Undisturbed
  <2>1. GetsThrough(m) /\ m \in Lines
    BY <1>1, <1>2 DEF Undisturbed, UartType, Lines
  <2>2. ASSUME pipe = Written(m) \o Feed
        PROVE  \E i \in 1..Len(fifo') : fifo'[i] = WholeMsg(m)
    <3>1. m \in InPipe
      BY <2>1, <2>2, WholeInPipe
    <3>2. p = WholeMsg(m)
      BY <1>6, <1>11, <2>1, <2>2, <3>1
    <3>3. Len(fifo) + 1 \in 1..Len(fifo')
      BY <1>8
    <3> QED
      BY <1>8, <3>2, <3>3
  <2>3. ASSUME NEW i \in 1..Len(fifo), fifo[i] = WholeMsg(m)
        PROVE  \E j \in 1..Len(fifo') : fifo'[j] = WholeMsg(m)
    <3>1. i \in 1..Len(fifo')
      BY <1>8
    <3> QED
      BY <1>8, <2>3, <3>1
  <2> QED
    BY <1>3, <2>1, <2>2, <2>3 DEF GetsThrough, WholeMsg
<1>14. ASSUME NEW m \in Lines PROVE InOnePlace(m)'
  <2>1. InOnePlace(m)
    BY <1>1
  <2>2. /\ Single((Begun(m))') /\ ((Begun(m))' # {} => Begun(m) # {})
        /\ pipe[1] = <<m, 1>> => (Begun(m))' = {} /\ Begun(m) # {}
    <3>1. Single(Begun(m))
      BY <2>1 DEF InOnePlace
    <3>2. pipe[1] = <<m, 1>> => 1 \in Begun(m)
      BY <1>4 DEF Begun, At
    <3> QED
      BY <1>9, <3>1, <3>2 DEF Begun
  <2>3. /\ p.msg # m => (Routed(m))' = Routed(m)
        /\ p.msg = m /\ Routed(m) = {} => Single((Routed(m))')
    BY <1>1, <1>6, <1>7, AmongAppend DEF Routed
  <2>4. (Reads(m))' = Reads(m) /\ \A s \in Sessions : (Stored(s, m))' = Stored(s, m)
    BY <1>3 DEF Reads, Stored
  <2>5. CASE p.msg = m
    <3>1. (Begun(m))' = {} /\ Begun(m) # {}
      BY <1>6, <2>2, <2>5, LinesType
    <3>2. Routed(m) = {} /\ Reads(m) = {} /\ (\A s \in Sessions : Stored(s, m) = {}) /\ ~(m > entered)
      BY <2>1, <3>1 DEF InOnePlace
    <3> QED
      BY <1>3, <2>2, <2>3, <2>4, <2>5, <3>1, <3>2 DEF InOnePlace, Single
  <2>6. CASE p.msg # m
    BY <1>3, <2>1, <2>2, <2>3, <2>4, <2>6 DEF InOnePlace
  <2> QED
    BY <2>5, <2>6
<1> QED
  BY <1>10, <1>12, <1>13, <1>14 DEF UartInv

LEMMA FifoRxFailsStep ==
  ASSUME UartInv, FifoRxFails
  PROVE  UartInv'
<1>1. /\ UartType /\ NeverMet /\ Undisturbed /\ \A m \in Lines : InOnePlace(m)
      /\ pipe \in Seq(Messages \X Nat)
  BY InvFacts
<1>2. /\ pipe # <<>> /\ crowded' = crowded \cup InPipe
      /\ UNCHANGED <<fifoMode, entered, session, sessionOf, pipe, fifo, rxq, pending, serving, readOut, shut>>
  BY DEF FifoRxFails, clientVars, connVars
<1>3. UartType'
  BY <1>1, <1>2 DEF UartType
<1>4. NeverMet'
  <2>1. 1 \in 1..Len(pipe)
    BY <1>1, <1>2
  <2>2. crowded' # {}
    BY <1>2, <2>1 DEF InPipe
  <2> QED
    BY <2>2 DEF NeverMet
<1>5. Undisturbed'
  <2> SUFFICES ASSUME NEW m \in 1..entered, sessionOf[m] # 0, m \notin crowded' \cup shut
               PROVE  GetsThrough(m)'
    BY <1>2 DEF Undisturbed
  <2>1. GetsThrough(m) /\ m \in Lines
    BY <1>1, <1>2 DEF Undisturbed, UartType, Lines
  <2>2. pipe # Written(m) \o Feed
    BY <1>2, <2>1, WholeInPipe
  <2> QED
    BY <1>2, <2>1, <2>2 DEF GetsThrough, WholeMsg
<1>6. ASSUME NEW m \in Lines PROVE InOnePlace(m)'
  <2>1. InOnePlace(m)
    BY <1>1
  <2>2. /\ (Begun(m))' = Begun(m) /\ (Routed(m))' = Routed(m) /\ (Reads(m))' = Reads(m)
        /\ \A s \in Sessions : (Stored(s, m))' = Stored(s, m)
    BY <1>2 DEF Begun, Routed, Reads, Stored
  <2> QED
    BY <1>2, <2>1, <2>2 DEF InOnePlace
<1> QED
  BY <1>3, <1>4, <1>5, <1>6 DEF UartInv
LEMMA UartRouteStep ==
  ASSUME UartInv, UartRoute
  PROVE  UartInv'
<1>1. /\ UartType /\ NeverMet /\ Undisturbed /\ \A m \in Lines : InOnePlace(m)
      /\ pipe \in Seq(Messages \X Nat) /\ fifo \in Seq(Entries)
      /\ rxq \in [Sessions -> Seq(Entries)] /\ readOut \in Seq(Messages)
      /\ entered \in Nat /\ session \in Sessions
  BY InvFacts
<1>2. /\ fifo # <<>> /\ fifo' = Tail(fifo)
      /\ UNCHANGED <<fifoMode, entered, session, sessionOf, pipe, reading, serving, readOut, crowded>>
  BY DEF UartRoute, clientVars, readVars
<1>3. PICK p : p = Head(fifo)
  OBVIOUS
<1>4. /\ fifo' \in Seq(Entries) /\ Len(fifo') = Len(fifo) - 1 /\ Len(fifo) \in Nat /\ Len(fifo) > 0
      /\ \A i \in 1..Len(fifo) - 1 : fifo'[i] = fifo[i + 1]
      /\ p = fifo[1] /\ p \in Entries
  BY <1>1, <1>2, <1>3, TailIs
<1>5. p.msg \in Messages /\ (p.msg # 0 => p.msg \in Lines /\ sessionOf[p.msg] \in Sessions)
  BY <1>1, <1>4 DEF Entries, Messages, UartType
<1>6. \/ \E s \in Sessions :
           /\ p.msg # 0 => s = sessionOf[p.msg]
           /\ rxq' = [rxq EXCEPT ![s] = Append(@, p)]
           /\ pending' = pending \/ pending' = Append(pending, s)
           /\ shut' = shut
      \/ UNCHANGED <<rxq, pending>> /\ (p.msg # 0 => shut' = shut \cup {p.msg}) /\ shut \subseteq shut'
  <2>1. ASSUME NEW s \in Sessions, p.msg # 0 => s = sessionOf[p.msg], Deliver(p, s)
        PROVE  \/ /\ p.msg # 0 => s = sessionOf[p.msg]
                  /\ rxq' = [rxq EXCEPT ![s] = Append(@, p)]
                  /\ pending' = pending \/ pending' = Append(pending, s)
                  /\ shut' = shut
               \/ UNCHANGED <<rxq, pending>> /\ (p.msg # 0 => shut' = shut \cup {p.msg}) /\ shut \subseteq shut'
    BY <2>1 DEF Deliver, connVars
  <2>2. \/ p.msg # 0 /\ Deliver(p, sessionOf[p.msg])
        \/ p.msg = 0 /\ (Discard \/ \E s \in {0, session} : Deliver(p, s))
    BY <1>3 DEF UartRoute
  <2>3. CASE p.msg # 0
    BY <1>5, <2>1, <2>2, <2>3
  <2>4. CASE p.msg = 0 /\ Discard
    BY <2>4 DEF Discard, connVars
  <2>5. ASSUME p.msg = 0, NEW s \in {0, session}, Deliver(p, s)
        PROVE  \/ \E d \in Sessions :
                    /\ p.msg # 0 => d = sessionOf[p.msg]
                    /\ rxq' = [rxq EXCEPT ![d] = Append(@, p)]
                    /\ pending' = pending \/ pending' = Append(pending, d)
                    /\ shut' = shut
               \/ UNCHANGED <<rxq, pending>> /\ (p.msg # 0 => shut' = shut \cup {p.msg}) /\ shut \subseteq shut'
    <3>1. s \in Sessions
      BY <1>1, LinesType
    <3> QED
      BY <2>1, <2>5, <3>1
  <2> QED
    BY <2>2, <2>3, <2>4, <2>5
<1>7. ASSUME NEW m \in Lines
      PROVE  /\ (Begun(m))' = Begun(m) /\ (Reads(m))' = Reads(m)
             /\ ((Routed(m))' # {} => Routed(m) # {}) /\ (p.msg = m => Routed(m) # {})
             /\ Single(Routed(m)) => Single((Routed(m))') /\ (p.msg = m => (Routed(m))' = {})
  <2>1. (Begun(m))' = Begun(m) /\ (Reads(m))' = Reads(m)
    BY <1>2 DEF Begun, Reads
  <2>2. /\ Among(fifo', m) # {} => Among(fifo, m) # {}
        /\ p.msg = m => Among(fifo, m) # {}
        /\ Single(Among(fifo, m)) => Single(Among(fifo', m))
        /\ Single(Among(fifo, m)) /\ p.msg = m => Among(fifo', m) = {}
    BY <1>1, <1>2, <1>3, AmongTail
  <2> QED
    BY <2>1, <2>2 DEF Routed
<1>8. \A i \in 1..Len(fifo') : i + 1 \in 1..Len(fifo) /\ fifo'[i] = fifo[i + 1]
  BY <1>4
<1>9. ASSUME NEW m, NEW i \in 1..Len(fifo), fifo[i] = WholeMsg(m)
      PROVE  p = WholeMsg(m) \/ \E j \in 1..Len(fifo') : fifo'[j] = WholeMsg(m)
  <2>1. CASE i = 1
    BY <1>4, <1>9, <2>1
  <2>2. CASE i # 1
    <3>1. i - 1 \in 1..Len(fifo) - 1 /\ (i - 1) + 1 = i
      BY <1>4, <2>2
    <3>2. fifo'[i - 1] = fifo[i] /\ i - 1 \in 1..Len(fifo')
      BY <1>4, <3>1
    <3> QED
      BY <1>9, <3>2
  <2> QED
    BY <2>1, <2>2
<1>10. CASE UNCHANGED <<rxq, pending>> /\ (p.msg # 0 => shut' = shut \cup {p.msg}) /\ shut \subseteq shut'
  <2>1. UartType'
    BY <1>1, <1>2, <1>4, <1>10 DEF UartType
  <2>2. NeverMet'
    <3> SUFFICES ASSUME fifoMode', crowded' = {} PROVE NeverMet'
      BY DEF NeverMet
    <3>1. \A i \in 1..Len(fifo') : fifo'[i].whole /\ fifo'[i].msg # 0
      BY <1>1, <1>2, <1>8 DEF NeverMet
    <3> QED
      BY <1>1, <1>2, <1>10, <3>1 DEF NeverMet, Written
  <2>3. Undisturbed'
    <3> SUFFICES ASSUME NEW m \in 1..entered, sessionOf[m] # 0, m \notin crowded \cup shut'
                 PROVE  GetsThrough(m)'
      BY <1>2 DEF Undisturbed
    <3>1. GetsThrough(m) /\ m # 0
      BY <1>1, <1>10 DEF Undisturbed
    <3>2. p # WholeMsg(m)
      BY <1>10, <3>1 DEF WholeMsg
    <3>3. (WholeMsg(m))' = WholeMsg(m)
      BY DEF WholeMsg
    <3> QED
      BY <1>2, <1>9, <1>10, <3>1, <3>2, <3>3 DEF GetsThrough, Written, Feed
  <2>4. ASSUME NEW m \in Lines PROVE InOnePlace(m)'
    <3>1. InOnePlace(m)
      BY <1>1
    <3>2. \A s \in Sessions : (Stored(s, m))' = Stored(s, m)
      BY <1>10 DEF Stored
    <3>3. /\ (Begun(m))' = Begun(m) /\ (Reads(m))' = Reads(m)
          /\ ((Routed(m))' # {} => Routed(m) # {}) /\ Single((Routed(m))')
      BY <1>7, <3>1 DEF InOnePlace
    <3> QED
      BY <1>2, <3>1, <3>2, <3>3 DEF InOnePlace
  <2> QED
    BY <2>1, <2>2, <2>3, <2>4 DEF UartInv
<1>11. ASSUME NEW s \in Sessions,
              p.msg # 0 => s = sessionOf[p.msg],
              rxq' = [rxq EXCEPT ![s] = Append(@, p)],
              pending' = pending \/ pending' = Append(pending, s),
              shut' = shut
       PROVE  UartInv'
  <2>1. /\ rxq'[s] = Append(rxq[s], p) /\ rxq' \in [Sessions -> Seq(Entries)] /\ rxq[s] \in Seq(Entries)
        /\ \A t \in Sessions : t # s => rxq'[t] = rxq[t]
    BY <1>1, <1>4, <1>11
  <2>2. /\ Len(rxq'[s]) = Len(rxq[s]) + 1 /\ Len(rxq[s]) \in Nat
        /\ \A i \in 1..Len(rxq[s]) : rxq'[s][i] = rxq[s][i]
        /\ rxq'[s][Len(rxq[s]) + 1] = p
    BY <1>4, <2>1, AppendIs
  <2>3. UartType'
    <3>1. pending' \in Seq(Sessions)
      <4>1. pending \in Seq(Sessions)
        BY <1>1 DEF UartType
      <4>2. Append(pending, s) \in Seq(Sessions)
        BY <4>1, AppendIs
      <4> QED
        BY <1>11, <4>1, <4>2
    <3> QED
      BY <1>1, <1>2, <1>4, <2>1, <3>1 DEF UartType
  <2>4. NeverMet'
    <3> SUFFICES ASSUME fifoMode', crowded' = {} PROVE NeverMet'
      BY DEF NeverMet
    <3>1. \A i \in 1..Len(fifo') : fifo'[i].whole /\ fifo'[i].msg # 0
      BY <1>1, <1>2, <1>8 DEF NeverMet
    <3>2. p.whole /\ p.msg # 0
      BY <1>1, <1>2, <1>4 DEF NeverMet
    <3>3. ASSUME NEW t \in Sessions, NEW i \in 1..Len(rxq'[t])
          PROVE  rxq'[t][i].whole /\ rxq'[t][i].msg # 0
      <4>1. CASE t # s
        BY <1>1, <1>2, <2>1, <3>3, <4>1 DEF NeverMet
      <4>2. CASE t = s /\ i = Len(rxq[s]) + 1
        BY <2>2, <3>2, <4>2
      <4>3. CASE t = s /\ i # Len(rxq[s]) + 1
        <5>1. i \in 1..Len(rxq[s])
          BY <2>2, <4>3
        <5> QED
          BY <1>1, <1>2, <2>2, <4>3, <5>1, ZenonT(60) DEF NeverMet
      <4> QED
        BY <4>1, <4>2, <4>3
    <3> QED
      BY <1>1, <1>2, <3>1, <3>3 DEF NeverMet, Written
  <2>5. Undisturbed'
    <3> SUFFICES ASSUME NEW m \in 1..entered, sessionOf[m] # 0, m \notin crowded \cup shut
                 PROVE  GetsThrough(m)'
      BY <1>2, <1>11 DEF Undisturbed
    <3>1. GetsThrough(m)
      BY <1>1 DEF Undisturbed
    <3>2. ASSUME p = WholeMsg(m)
          PROVE  \E t \in Sessions : \E i \in 1..Len(rxq'[t]) : rxq'[t][i] = WholeMsg(m)
      <4>1. Len(rxq[s]) + 1 \in 1..Len(rxq'[s])
        BY <2>2
      <4> QED
        BY <2>2, <3>2, <4>1
    <3>3. ASSUME NEW t \in Sessions, NEW i \in 1..Len(rxq[t]), rxq[t][i] = WholeMsg(m)
          PROVE  \E j \in 1..Len(rxq'[t]) : rxq'[t][j] = WholeMsg(m)
      <4>1. CASE t # s
        BY <2>1, <3>3, <4>1
      <4>2. CASE t = s
        <5>1. i \in 1..Len(rxq'[s])
          BY <2>2, <4>2
        <5> QED
          BY <2>2, <3>3, <4>2, <5>1
      <4> QED
        BY <4>1, <4>2
    <3>4. (WholeMsg(m))' = WholeMsg(m)
      BY DEF WholeMsg
    <3> QED
      BY <1>2, <1>9, <3>1, <3>2, <3>3, <3>4 DEF GetsThrough, Written, Feed
  <2>6. ASSUME NEW m \in Lines PROVE InOnePlace(m)'
    <3>1. InOnePlace(m) /\ m # 0
      BY <1>1, LinesType
    <3>2. /\ (Begun(m))' = Begun(m) /\ (Reads(m))' = Reads(m)
          /\ ((Routed(m))' # {} => Routed(m) # {}) /\ (p.msg = m => Routed(m) # {})
          /\ Single((Routed(m))') /\ (p.msg = m => (Routed(m))' = {})
      BY <1>7, <3>1 DEF InOnePlace
    <3>3. \A t \in Sessions : t # s => (Stored(t, m))' = Stored(t, m)
      BY <2>1 DEF Stored
    <3>4. /\ p.msg # m => (Stored(s, m))' = Stored(s, m)
          /\ p.msg = m /\ Stored(s, m) = {} => Single((Stored(s, m))')
      BY <1>4, <2>1, AmongAppend DEF Stored
    <3>5. CASE p.msg = m
      <4>1. /\ Begun(m) = {} /\ Reads(m) = {} /\ \A t \in Sessions : Stored(t, m) = {}
            /\ ~(m > entered) /\ s = sessionOf[m]
        BY <1>11, <3>1, <3>2, <3>5 DEF InOnePlace
      <4>2. \A t \in Sessions : /\ Single((Stored(t, m))')
                                /\ (Stored(t, m))' # {} => t = sessionOf[m]
        <5> TAKE t \in Sessions
        <5>1. CASE t = s
          BY <3>4, <3>5, <4>1, <5>1
        <5>2. CASE t # s
          BY <3>3, <4>1, <5>2 DEF Single
        <5> QED
          BY <5>1, <5>2
      <4>3. /\ (Begun(m))' = {} /\ (Reads(m))' = {} /\ (Routed(m))' = {}
            /\ Single((Begun(m))') /\ Single((Reads(m))') /\ Single((Routed(m))')
        BY <3>2, <3>5, <4>1 DEF Single
      <4>4. ~(m > entered') /\ sessionOf' = sessionOf
        BY <1>2, <4>1
      <4> QED
        BY <4>2, <4>3, <4>4 DEF InOnePlace
    <3>6. CASE p.msg # m
      <4>1. \A t \in Sessions : (Stored(t, m))' = Stored(t, m)
        <5> TAKE t \in Sessions
        <5>1. CASE t = s
          BY <3>4, <3>6, <5>1
        <5> QED
          BY <3>3, <5>1
      <4> QED
        BY <1>2, <3>1, <3>2, <4>1 DEF InOnePlace
    <3> QED
      BY <3>5, <3>6
  <2> QED
    BY <2>3, <2>4, <2>5, <2>6 DEF UartInv
<1> QED
  BY <1>6, <1>10, <1>11
\* Steps that move no byte and no packet
LEMMA QuietStep ==
  ASSUME UartInv, UartType',
         UNCHANGED <<fifoMode, entered, sessionOf, pipe, reading, fifo, rxq, readOut, crowded, shut>>
  PROVE  UartInv'
<1>1. NeverMet /\ Undisturbed /\ \A m \in Lines : InOnePlace(m)
  BY InvFacts
<1>2. NeverMet'
  BY <1>1 DEF NeverMet, Written
<1>3. Undisturbed'
  BY <1>1, ZenonT(60) DEF Undisturbed, GetsThrough, WholeMsg, Written, Feed
<1>4. ASSUME NEW m \in Lines PROVE InOnePlace(m)'
  <2>1. InOnePlace(m)
    BY <1>1
  <2>2. /\ (Begun(m))' = Begun(m) /\ (Routed(m))' = Routed(m) /\ (Reads(m))' = Reads(m)
        /\ \A s \in Sessions : (Stored(s, m))' = Stored(s, m)
    BY DEF Begun, Routed, Reads, Stored
  <2> QED
    BY <2>1, <2>2 DEF InOnePlace
<1> QED
  BY <1>2, <1>3, <1>4 DEF UartInv

LEMMA ServerAcceptStep ==
  ASSUME UartInv, ServerAccept
  PROVE  UartInv'
<1>1. UartType /\ pending \in Seq(Sessions)
  BY InvFacts DEF UartType
<1>2. /\ pending # <<>> /\ pending' = Tail(pending) /\ serving' = [at |-> "read", on |-> Head(pending)]
      /\ UNCHANGED <<fifoMode, entered, session, sessionOf, pipe, reading, fifo, rxq, readOut, crowded, shut>>
  BY DEF ServerAccept, clientVars, readVars
<1>3. pending' \in Seq(Sessions) /\ Head(pending) \in Sessions
  BY <1>1, <1>2, TailIs
<1>4. UartType'
  BY <1>1, <1>2, <1>3 DEF UartType
<1> QED
  BY <1>2, <1>4, QuietStep

LEMMA ServerGivesUpStep ==
  ASSUME UartInv, ServerGivesUp
  PROVE  UartInv'
<1>1. UartType
  BY InvFacts
<1>2. /\ serving' = [serving EXCEPT !.at = "close"]
      /\ UNCHANGED <<fifoMode, entered, session, sessionOf, pipe, reading, fifo, rxq, pending,
                     readOut, crowded, shut>>
  BY DEF ServerGivesUp, clientVars, readVars, connVars
<1>3. UartType'
  BY <1>1, <1>2 DEF UartType
<1> QED
  BY <1>2, <1>3, QuietStep

LEMMA UartStutters ==
  ASSUME UartInv, UNCHANGED uartVars
  PROVE  UartInv'
<1>1. UNCHANGED <<fifoMode, entered, session, sessionOf, pipe, reading, fifo, rxq, pending, serving,
                  readOut, crowded, shut>>
  BY DEF uartVars, clientVars, readVars, connVars
<1>2. UartType'
  BY <1>1, InvFacts DEF UartType
<1> QED
  BY <1>1, <1>2, QuietStep

LEMMA ServerReadsStep ==
  ASSUME UartInv, ServerReads
  PROVE  UartInv'
<1>1. /\ UartType /\ NeverMet /\ Undisturbed /\ \A m \in Lines : InOnePlace(m)
      /\ rxq \in [Sessions -> Seq(Entries)] /\ readOut \in Seq(Messages)
      /\ serving.on \in Sessions
  BY InvFacts DEF UartType
<1>2. PICK s \in Sessions : s = serving.on
  BY <1>1
<1>3. PICK p : p = Head(rxq[s])
  OBVIOUS
<1>4. PICK r : r = IF p.whole THEN p.msg ELSE 0
  OBVIOUS
<1>5. /\ rxq[s] # <<>> /\ rxq' = [rxq EXCEPT ![s] = Tail(@)] /\ readOut' = Append(readOut, r)
      /\ UNCHANGED <<fifoMode, entered, session, sessionOf, pipe, reading, fifo, pending, serving, crowded, shut>>
  BY <1>2, <1>3, <1>4 DEF ServerReads, clientVars, readVars
<1>6. /\ rxq'[s] = Tail(rxq[s]) /\ rxq[s] \in Seq(Entries)
      /\ \A t \in Sessions : t # s => rxq'[t] = rxq[t]
  BY <1>1, <1>5
<1>7. /\ rxq'[s] \in Seq(Entries) /\ Len(rxq'[s]) = Len(rxq[s]) - 1 /\ Len(rxq[s]) \in Nat /\ Len(rxq[s]) > 0
      /\ \A i \in 1..Len(rxq[s]) - 1 : rxq'[s][i] = rxq[s][i + 1]
      /\ p = rxq[s][1] /\ p \in Entries
  <2>1. PICK q \in Seq(Entries) : q = rxq[s] /\ q # <<>>
    BY <1>5, <1>6
  <2>2. /\ Tail(q) \in Seq(Entries) /\ Len(Tail(q)) = Len(q) - 1 /\ Len(q) \in Nat /\ Len(q) > 0
        /\ \A i \in 1..Len(q) - 1 : Tail(q)[i] = q[i + 1]
        /\ Head(q) = q[1] /\ Head(q) \in Entries
    BY <2>1, TailIs
  <2> QED
    BY <1>3, <1>6, <2>1, <2>2
<1>8. p.msg \in Messages /\ p.whole \in BOOLEAN /\ r \in Messages
  BY <1>4, <1>7 DEF Entries, Messages
<1>9. /\ readOut' \in Seq(Messages) /\ Len(readOut') = Len(readOut) + 1 /\ Len(readOut) \in Nat
      /\ \A i \in 1..Len(readOut) : readOut'[i] = readOut[i]
      /\ readOut'[Len(readOut) + 1] = r
  BY <1>1, <1>5, <1>8, AppendIs
<1>10. UartType'
  <2>1. rxq' \in [Sessions -> Seq(Entries)]
    BY <1>1, <1>5, <1>6, <1>7
  <2> QED
    BY <1>1, <1>5, <1>9, <2>1 DEF UartType
<1>11. NeverMet'
  <2> SUFFICES ASSUME fifoMode', crowded' = {} PROVE NeverMet'
    BY DEF NeverMet
  <2>1. r # 0
    <3>1. 1 \in 1..Len(rxq[s])
      BY <1>7
    <3> QED
      BY <1>1, <1>4, <1>5, <1>7, <3>1 DEF NeverMet
  <2>2. ASSUME NEW t \in Sessions, NEW i \in 1..Len(rxq'[t])
        PROVE  rxq'[t][i].whole /\ rxq'[t][i].msg # 0
    <3>1. CASE t # s
      BY <1>1, <1>5, <1>6, <2>2, <3>1 DEF NeverMet
    <3>2. CASE t = s
      <4>1. i \in 1..Len(rxq[s]) - 1 /\ i + 1 \in 1..Len(rxq[s])
        BY <1>7, <3>2
      <4> QED
        BY <1>1, <1>5, <1>7, <3>2, <4>1 DEF NeverMet
    <3> QED
      BY <3>1, <3>2
  <2>3. \A i \in 1..Len(readOut') : readOut'[i] # 0
    <3> TAKE i \in 1..Len(readOut')
    <3>1. i = Len(readOut) + 1 \/ i \in 1..Len(readOut)
      BY <1>9
    <3> QED
      BY <1>1, <1>5, <1>9, <2>1, <3>1 DEF NeverMet
  <2> QED
    BY <1>1, <1>5, <2>2, <2>3 DEF NeverMet, Written
<1>12. Undisturbed'
  <2> SUFFICES ASSUME NEW m \in 1..entered, sessionOf[m] # 0, m \notin crowded \cup shut
               PROVE  GetsThrough(m)'
    BY <1>5 DEF Undisturbed
  <2>1. GetsThrough(m)
    BY <1>1 DEF Undisturbed
  <2>2. ASSUME NEW t \in Sessions, NEW i \in 1..Len(rxq[t]), rxq[t][i] = WholeMsg(m)
        PROVE  \/ \E d \in Sessions : \E j \in 1..Len(rxq'[d]) : rxq'[d][j] = WholeMsg(m)
               \/ \E j \in 1..Len(readOut') : readOut'[j] = m
    <3>1. CASE t # s
      BY <1>6, <2>2, <3>1
    <3>2. CASE t = s /\ i = 1
      <4>1. r = m
        BY <1>4, <1>7, <2>2, <3>2 DEF WholeMsg
      <4>2. Len(readOut) + 1 \in 1..Len(readOut')
        BY <1>9
      <4> QED
        BY <1>9, <4>1, <4>2
    <3>3. CASE t = s /\ i # 1
      <4>1. i - 1 \in 1..Len(rxq[s]) - 1 /\ (i - 1) + 1 = i
        BY <1>7, <3>3
      <4>2. i - 1 \in 1..Len(rxq'[s]) /\ rxq'[s][i - 1] = rxq[s][i]
        BY <1>7, <4>1
      <4> QED
        BY <2>2, <3>3, <4>2
    <3> QED
      BY <3>1, <3>2, <3>3
  <2>3. ASSUME NEW i \in 1..Len(readOut), readOut[i] = m
        PROVE  \E j \in 1..Len(readOut') : readOut'[j] = m
    <3>1. i \in 1..Len(readOut')
      BY <1>9
    <3> QED
      BY <1>9, <2>3, <3>1
  <2>4. (WholeMsg(m))' = WholeMsg(m)
    BY DEF WholeMsg
  <2> QED
    BY <1>5, <2>1, <2>2, <2>3, <2>4 DEF GetsThrough, Written, Feed
<1>13. ASSUME NEW m \in Lines PROVE InOnePlace(m)'
  <2>1. InOnePlace(m) /\ m # 0
    BY <1>1, LinesType
  <2>2. (Begun(m))' = Begun(m) /\ (Routed(m))' = Routed(m) /\ \A t \in Sessions \ {s} : (Stored(t, m))' = Stored(t, m)
    BY <1>5, <1>6 DEF Begun, Routed, Stored
  <2>3. /\ (Stored(s, m))' # {} => Stored(s, m) # {}
        /\ p.msg = m => Stored(s, m) # {}
        /\ Single(Stored(s, m)) => Single((Stored(s, m))')
        /\ Single(Stored(s, m)) /\ p.msg = m => (Stored(s, m))' = {}
    <3>1. /\ Among(rxq'[s], m) # {} => Among(rxq[s], m) # {}
          /\ p.msg = m => Among(rxq[s], m) # {}
          /\ Single(Among(rxq[s], m)) => Single(Among(rxq'[s], m))
          /\ Single(Among(rxq[s], m)) /\ p.msg = m => Among(rxq'[s], m) = {}
      BY <1>3, <1>5, <1>6, AmongTail
    <3> QED
      BY <3>1 DEF Stored
  <2>4. /\ r # m => (Reads(m))' = Reads(m)
        /\ r = m /\ Reads(m) = {} => Single((Reads(m))')
    <3>1. /\ r # m => At(readOut', m) = At(readOut, m)
          /\ r = m /\ At(readOut, m) = {} => Single(At(readOut', m))
      BY <1>1, <1>5, <1>8, AtAppend
    <3> QED
      BY <3>1 DEF Reads
  <2>5. \A t \in Sessions : /\ Single((Stored(t, m))')
                            /\ (Stored(t, m))' # {} => Stored(t, m) # {} /\ t = sessionOf[m]
    <3> TAKE t \in Sessions
    <3>1. Single(Stored(t, m)) /\ (Stored(t, m) # {} => t = sessionOf[m])
      BY <2>1 DEF InOnePlace
    <3>2. CASE t = s
      BY <2>3, <3>1, <3>2
    <3>3. CASE t # s
      BY <2>2, <3>1, <3>3
    <3> QED
      BY <3>2, <3>3
  <2>6. CASE r = m
    <3>1. p.msg = m /\ Stored(s, m) # {} /\ (Stored(s, m))' = {} /\ s = sessionOf[m]
      BY <1>4, <2>1, <2>3, <2>6 DEF InOnePlace
    <3>2. Begun(m) = {} /\ Routed(m) = {} /\ Reads(m) = {} /\ ~(m > entered)
      BY <2>1, <3>1 DEF InOnePlace
    <3>3. \A t \in Sessions : (Stored(t, m))' = {}
      BY <2>5, <3>1
    <3>4. /\ (Begun(m))' = {} /\ (Routed(m))' = {} /\ Single((Reads(m))')
          /\ Single((Begun(m))') /\ Single((Routed(m))') /\ ~(m > entered') /\ sessionOf' = sessionOf
      BY <1>5, <2>2, <2>4, <2>6, <3>2 DEF Single
    <3> QED
      BY <2>5, <3>3, <3>4 DEF InOnePlace
  <2>7. CASE r # m
    <3>1. (Reads(m))' = Reads(m) /\ sessionOf' = sessionOf /\ entered' = entered
      BY <1>5, <2>4, <2>7
    <3> QED
      BY <2>1, <2>2, <2>5, <3>1 DEF InOnePlace
  <2> QED
    BY <2>6, <2>7
<1> QED
  BY <1>10, <1>11, <1>12, <1>13 DEF UartInv

LEMMA ServerClosesStep ==
  ASSUME UartInv, ServerCloses
  PROVE  UartInv'
<1>1. /\ UartType /\ NeverMet /\ Undisturbed /\ \A m \in Lines : InOnePlace(m)
      /\ rxq \in [Sessions -> Seq(Entries)] /\ serving.on \in Sessions
  BY InvFacts DEF UartType
<1>2. PICK s \in Sessions : s = serving.on
  BY <1>1
<1>3. /\ serving' = NoSession /\ rxq' = [rxq EXCEPT ![s] = <<>>] /\ shut' = shut \cup Holds(s)
      /\ UNCHANGED <<fifoMode, entered, session, sessionOf, pipe, reading, fifo, pending, readOut, crowded>>
  BY <1>2 DEF ServerCloses, clientVars, readVars
<1>4. /\ rxq'[s] = <<>> /\ \A t \in Sessions : t # s => rxq'[t] = rxq[t]
      /\ rxq' \in [Sessions -> Seq(Entries)]
  BY <1>1, <1>3
<1>5. UartType'
  <2>1. NoSession \in [at : {"accept", "read", "close"}, on : Sessions]
    BY LinesType DEF NoSession
  <2> QED
    BY <1>1, <1>3, <1>4, <2>1 DEF UartType
<1>6. NeverMet'
  <2> SUFFICES ASSUME fifoMode', crowded' = {} PROVE NeverMet'
    BY DEF NeverMet
  <2>1. ASSUME NEW t \in Sessions, NEW i \in 1..Len(rxq'[t])
        PROVE  t # s /\ rxq'[t][i].whole /\ rxq'[t][i].msg # 0
    <3>1. t # s
      BY <1>4, <2>1
    <3> QED
      BY <1>1, <1>3, <1>4, <2>1, <3>1 DEF NeverMet
  <2> QED
    BY <1>1, <1>3, <2>1 DEF NeverMet, Written
<1>7. Undisturbed'
  <2> SUFFICES ASSUME NEW m \in 1..entered, sessionOf[m] # 0, m \notin crowded \cup shut'
               PROVE  GetsThrough(m)'
    BY <1>3 DEF Undisturbed
  <2>1. GetsThrough(m)
    BY <1>1, <1>3 DEF Undisturbed
  <2>2. ASSUME NEW t \in Sessions, NEW i \in 1..Len(rxq[t]), rxq[t][i] = WholeMsg(m)
        PROVE  \E d \in Sessions : \E j \in 1..Len(rxq'[d]) : rxq'[d][j] = WholeMsg(m)
    <3>1. t # s
      <4>1. t = s => m \in Holds(s)
        BY <2>2 DEF Holds, WholeMsg
      <4> QED
        BY <1>3, <4>1
    <3> QED
      BY <1>4, <2>2, <3>1
  <2>3. (WholeMsg(m))' = WholeMsg(m)
    BY DEF WholeMsg
  <2> QED
    BY <1>3, <2>1, <2>2, <2>3 DEF GetsThrough, Written, Feed
<1>8. ASSUME NEW m \in Lines PROVE InOnePlace(m)'
  <2>1. InOnePlace(m)
    BY <1>1
  <2>2. (Begun(m))' = Begun(m) /\ (Routed(m))' = Routed(m) /\ (Reads(m))' = Reads(m)
    BY <1>3 DEF Begun, Routed, Reads
  <2>3. \A t \in Sessions : /\ Single((Stored(t, m))')
                            /\ (Stored(t, m))' # {} => Stored(t, m) # {} /\ t = sessionOf[m]
    <3> TAKE t \in Sessions
    <3>1. Single(Stored(t, m)) /\ (Stored(t, m) # {} => t = sessionOf[m])
      BY <2>1 DEF InOnePlace
    <3>2. t # s => (Stored(t, m))' = Stored(t, m)
      BY <1>4 DEF Stored
    <3>3. t = s => (Stored(t, m))' = {}
      BY <1>4 DEF Stored, Among
    <3> QED
      BY <3>1, <3>2, <3>3 DEF Single
  <2>4. sessionOf' = sessionOf /\ entered' = entered
    BY <1>3
  <2> QED
    BY <2>1, <2>2, <2>3, <2>4 DEF InOnePlace
<1> QED
  BY <1>5, <1>6, <1>7, <1>8 DEF UartInv

----------------------------------------------------------------------------
LEMMA UartInvCorrect == UartSpec => []UartInv
<1>1. UartInv /\ [UartNext]_uartVars => UartInv'
  BY EnterStep, FifoRxStep, FifoRxFailsStep, UartRouteStep, ServerAcceptStep, ServerReadsStep,
     ServerGivesUpStep, ServerClosesStep, UartStutters DEF UartNext
<1> QED
  BY UartInitInv, <1>1, PTL DEF UartSpec

\* However the bytes are cut and whatever the sizes and the lines are, no
\* message is read twice, and over a pipe on which no two messages met all
\* that is read is whole: a packet that is taken for the n-th message took
\* that message's only first byte.
THEOREM UartIntactCorrect == UartSpec => []UartIntact
<1>1. UartInv => UartIntact
  <2> SUFFICES ASSUME UartInv PROVE UartIntact
    OBVIOUS
  <2>1. NeverMet /\ readOut \in Seq(Messages) /\ \A n \in Lines : InOnePlace(n)
    BY InvFacts
  <2>2. ASSUME NEW i \in 1..Len(readOut), NEW j \in 1..Len(readOut), i # j, readOut[i] = readOut[j]
        PROVE  readOut[i] = 0
    <3> SUFFICES ASSUME readOut[i] # 0 PROVE FALSE
      OBVIOUS
    <3>1. readOut[i] \in Lines
      BY <2>1 DEF Messages
    <3>2. i \in Reads(readOut[i]) /\ j \in Reads(readOut[i])
      BY <2>2 DEF Reads, At
    <3>3. Single(Reads(readOut[i]))
      BY <2>1, <3>1 DEF InOnePlace
    <3> QED
      BY <2>2, <3>2, <3>3 DEF Single
  <2> QED
    BY <2>1, <2>2 DEF UartIntact, NeverMet
<1> QED
  BY UartInvCorrect, <1>1, PTL

\* The stream finds its step again after any garbage: a message that has the
\* line to itself is read whole, unless the server closes on it.
THEOREM UartResyncCorrect == UartSpec => []UartResync
<1>1. UartInv => UartResync
  <2> SUFFICES ASSUME UartInv, NEW n \in 1..entered,
                      sessionOf[n] # 0, n \notin crowded \cup InPipe \cup shut, ~InServer(n)
               PROVE  \E i \in 1..Len(readOut) : readOut[i] = n
    BY DEF UartResync
  <2>1. GetsThrough(n) /\ n \in Lines
    BY InvFacts DEF Undisturbed, UartType, Lines
  <2>2. pipe # Written(n) \o Feed
    BY <2>1, WholeInPipe
  <2>3. ~ \E i \in 1..Len(fifo) : fifo[i] = WholeMsg(n)
    BY DEF InServer, WholeMsg
  <2>4. ~ \E s \in Sessions : \E i \in 1..Len(rxq[s]) : rxq[s][i] = WholeMsg(n)
    BY DEF InServer, Holds, WholeMsg
  <2> QED
    BY <2>1, <2>2, <2>3, <2>4 DEF GetsThrough
<1> QED
  BY UartInvCorrect, <1>1, PTL

=============================================================================
