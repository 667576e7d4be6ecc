--------------------------- MODULE FragmentProofs ----------------------------
(***************************************************************************)
(* Proofs about the two protocols that send a packet in parts.             *)
(***************************************************************************)
EXTENDS Sfp, Can, SequenceTheorems, TLAPS

----------------------------------------------------------------------------
(***************************************************************************)
(* Module Sfp, for all blobs, all fragment sizes, and any number of losses *)
(* and failures.                                                           *)
(***************************************************************************)

Contents == Blobs \X Nat

Pieces ==
  {p \in [frag : {TRUE}, offset : Nat, total : Nat, blob : Blobs, bytes : Seq(Contents)] :
     /\ p.total = BlobSize[p.blob]
     /\ Len(p.bytes) > 0 /\ p.offset + Len(p.bytes) <= p.total
     /\ \A i \in 1..Len(p.bytes) : p.bytes[i] = Byte(p.blob, p.offset + i - 1)}
Packets == Pieces \cup {[frag |-> FALSE, blob |-> 0]}

End(p) == p.offset + Len(p.bytes)
Unfinished(p) == p.frag /\ End(p) < p.total

SfpType ==
  /\ blob \in 0..Len(BlobSize) /\ count \in Nat /\ sending \in BOOLEAN
  /\ sending => blob \in Blobs /\ count < BlobSize[blob]
  /\ link \in Seq(Packets)
  /\ data \in Seq(Contents) /\ datasize \in Nat /\ (datasize = 0 <=> data = <<>>)
  /\ returned \in Seq(Seq(Contents))
  /\ sfpLost \in Nat /\ sfpFailed \in Nat

\* What BlobsIntact assumes of the faults.
FewFaults == sfpLost = 0 \/ sfpLost + sfpFailed <= 1

\* The blob whose first bytes the receiver holds.
Source == data[1][1]
DataOK ==
  datasize # 0 =>
    /\ Source \in Blobs /\ datasize = BlobSize[Source] /\ Len(data) < datasize
    /\ \A i \in 1..Len(data) : data[i] = Byte(Source, i - 1)

\* A fragment of blob b at o that comes after p begins the blob or goes on
\* where p ends.
Follows(p, b, o) == o = 0 \/ (p.frag /\ p.blob = b /\ End(p) = o)
Linked ==
  /\ \A i \in 1..Len(link) - 1 :
       link[i + 1].frag => Follows(link[i], link[i + 1].blob, link[i + 1].offset)
  /\ sending /\ link # <<>> => Follows(link[Len(link)], blob, count)

\* The fragment the receiver meets next is of its blob if it fits its offset.
NoMix ==
  datasize # 0 =>
    /\ link # <<>> /\ link[1].frag /\ link[1].offset = Len(data) => link[1].blob = Source
    /\ link = <<>> /\ sending /\ count = Len(data) => blob = Source

\* Without any fault what has been begun goes on.
Unbroken ==
  sfpLost = 0 /\ sfpFailed = 0 =>
    /\ \A i \in 1..Len(link) - 1 :
         Unfinished(link[i]) => link[i + 1].frag /\ link[i + 1].offset = End(link[i])
    /\ link # <<>> /\ Unfinished(link[Len(link)]) => sending /\ count = End(link[Len(link)])
    /\ datasize # 0 /\ link # <<>> => link[1].frag /\ link[1].offset = Len(data)
    /\ datasize # 0 /\ link = <<>> => sending /\ count = Len(data)

ReturnedOK == \A k \in 1..Len(returned) : \E n \in Blobs : returned[k] = Content(n)

Safe == FewFaults => DataOK /\ Linked /\ NoMix /\ Unbroken /\ ReturnedOK
SfpInv == SfpType /\ Safe

----------------------------------------------------------------------------
LEMMA SfpConstants ==
  /\ Len(BlobSize) \in Nat /\ Blobs = 1..Len(BlobSize)
  /\ \A n \in Blobs : BlobSize[n] \in Nat /\ BlobSize[n] > 0
  /\ Mtu \in Nat /\ Mtu > 0
BY SfpAssumption DEF Blobs

LEMMA PacketIsPiece ==
  ASSUME NEW p \in Packets, p.frag
  PROVE  /\ p \in Pieces
         /\ p.offset \in Nat /\ p.blob \in Blobs /\ p.bytes \in Seq(Contents)
         /\ p.total = BlobSize[p.blob] /\ p.total \in Nat
         /\ Len(p.bytes) \in Nat /\ Len(p.bytes) > 0
         /\ End(p) \in Nat /\ End(p) > p.offset /\ End(p) <= p.total
         /\ \A i \in 1..Len(p.bytes) : p.bytes[i] = Byte(p.blob, p.offset + i - 1)
<1>1. p \in Pieces
  BY DEF Packets
<1>2. p.offset \in Nat /\ p.total \in Nat /\ p.blob \in Blobs /\ p.bytes \in Seq(Contents)
  BY <1>1 DEF Pieces
<1>3. Len(p.bytes) \in Nat
  BY <1>2
<1>4. /\ p.total = BlobSize[p.blob]
      /\ Len(p.bytes) > 0 /\ p.offset + Len(p.bytes) <= p.total
      /\ \A i \in 1..Len(p.bytes) : p.bytes[i] = Byte(p.blob, p.offset + i - 1)
  BY <1>1 DEF Pieces
<1>5. End(p) \in Nat /\ End(p) > p.offset /\ End(p) <= p.total
  BY <1>2, <1>3, <1>4 DEF End
<1> QED
  BY <1>1, <1>2, <1>3, <1>4, <1>5

LEMMA PieceRecord ==
  ASSUME NEW o \in Nat, NEW t \in Nat, NEW b \in Blobs, NEW bs \in Seq(Contents)
  PROVE  [frag |-> TRUE, offset |-> o, total |-> t, blob |-> b, bytes |-> bs]
           \in [frag : {TRUE}, offset : Nat, total : Nat, blob : Blobs, bytes : Seq(Contents)]
OBVIOUS

\* What one turn of the sending loop adds.
LEMMA FragmentIsPiece ==
  ASSUME SfpType, sending, NEW size, size = Shorter(BlobSize[blob] - count, Mtu),
         NEW f, f = Fragment(size)
  PROVE  /\ size \in Nat /\ size > 0 /\ count + size <= BlobSize[blob]
         /\ f \in Packets /\ f.frag /\ f.blob = blob /\ f.offset = count
         /\ f.total = BlobSize[blob] /\ End(f) = count + size
<1>1. /\ blob \in Blobs /\ count \in Nat /\ count < BlobSize[blob]
      /\ BlobSize[blob] \in Nat
  BY SfpConstants DEF SfpType
<1>2. size \in Nat /\ size > 0 /\ count + size <= BlobSize[blob]
  BY <1>1, SfpConstants DEF Shorter
<1> DEFINE bs == [i \in 1..size |-> Byte(blob, count + i - 1)]
<1>3. \A i \in 1..size : Byte(blob, count + i - 1) \in Contents
  BY <1>1, <1>2 DEF Byte, Contents
<1>4. bs \in Seq(Contents) /\ Len(bs) = size
  BY <1>2, <1>3
<1>5. f = [frag |-> TRUE, offset |-> count, total |-> BlobSize[blob], blob |-> blob,
           bytes |-> bs]
  BY DEF Fragment
<1> HIDE DEF bs
<1>6. f \in [frag : {TRUE}, offset : Nat, total : Nat, blob : Blobs, bytes : Seq(Contents)]
  <2>1. [frag |-> TRUE, offset |-> count, total |-> BlobSize[blob], blob |-> blob, bytes |-> bs]
          \in [frag : {TRUE}, offset : Nat, total : Nat, blob : Blobs, bytes : Seq(Contents)]
    BY <1>1, <1>4, PieceRecord
  <2> QED
    BY <2>1, <1>5, Zenon
<1>7. \A i \in 1..Len(bs) : bs[i] = Byte(blob, count + i - 1)
  BY <1>4 DEF bs
<1>8. f.frag /\ f.offset = count /\ f.total = BlobSize[blob] /\ f.blob = blob /\ f.bytes = bs
  BY <1>5
<1>9. f \in Pieces
  BY <1>1, <1>2, <1>4, <1>6, <1>7, <1>8 DEF Pieces
<1> QED
  BY <1>2, <1>4, <1>8, <1>9 DEF End, Packets

LEMMA TailOfLink ==
  ASSUME SfpType, link # <<>>
  PROVE  /\ Tail(link) \in Seq(Packets) /\ link[1] \in Packets /\ Head(link) = link[1]
         /\ Len(link) \in Nat /\ Len(link) > 0 /\ Len(Tail(link)) = Len(link) - 1
         /\ \A i \in 1..Len(Tail(link)) : Tail(link)[i] = link[i + 1]
         /\ Tail(link) = <<>> <=> Len(link) = 1
<1>1. link \in Seq(Packets)
  BY DEF SfpType
<1>2. Len(link) \in Nat /\ Len(link) > 0 /\ link[1] \in Packets /\ Head(link) = link[1]
  BY <1>1
<1>3. /\ Tail(link) \in Seq(Packets) /\ Len(Tail(link)) = Len(link) - 1
      /\ \A i \in 1..Len(Tail(link)) : Tail(link)[i] = link[i + 1]
  BY <1>1, <1>2
<1>4. Tail(link) = <<>> <=> Len(Tail(link)) = 0
  BY <1>3, EmptySeq
<1> QED
  BY <1>2, <1>3, <1>4

\* What the receiver has after taking p is the beginning of p's blob.
LEMMA TakenBytes ==
  ASSUME SfpType, DataOK, NoMix, link # <<>>, NEW p, p = link[1], Consistent(p),
         NEW all, all = data \o p.bytes
  PROVE  /\ p \in Packets /\ p.frag /\ p.blob \in Blobs /\ p.total = BlobSize[p.blob]
         /\ all \in Seq(Contents) /\ Len(all) = End(p)
         /\ End(p) \in Nat /\ End(p) > 0 /\ End(p) <= p.total
         /\ \A i \in 1..Len(all) : all[i] = Byte(p.blob, i - 1)
<1>1. p \in Packets /\ p.frag /\ p.offset = Len(data)
  BY TailOfLink DEF Consistent, Expected, HasHeader
<1>2. /\ p.offset \in Nat /\ p.blob \in Blobs /\ p.bytes \in Seq(Contents)
      /\ p.total = BlobSize[p.blob]
      /\ Len(p.bytes) \in Nat /\ Len(p.bytes) > 0
      /\ End(p) \in Nat /\ End(p) > p.offset /\ End(p) <= p.total
      /\ \A i \in 1..Len(p.bytes) : p.bytes[i] = Byte(p.blob, p.offset + i - 1)
  BY <1>1, PacketIsPiece
<1>3. data \in Seq(Contents) /\ Len(data) \in Nat
  BY DEF SfpType
<1>4. /\ all \in Seq(Contents) /\ Len(all) = Len(data) + Len(p.bytes)
      /\ \A i \in 1..Len(all) :
           all[i] = IF i <= Len(data) THEN data[i] ELSE p.bytes[i - Len(data)]
  BY <1>2, <1>3
<1>5. \A i \in 1..Len(data) : data[i] = Byte(p.blob, i - 1)
  <2>1. CASE datasize = 0
    BY <2>1 DEF SfpType
  <2>2. CASE datasize # 0
    BY <1>1, <2>2 DEF DataOK, NoMix
  <2> QED
    BY <2>1, <2>2
<1>6. \A i \in 1..Len(all) : all[i] = Byte(p.blob, i - 1)
  <2> SUFFICES ASSUME NEW i \in 1..Len(all) PROVE all[i] = Byte(p.blob, i - 1)
    OBVIOUS
  <2>1. CASE i <= Len(data)
    BY <1>3, <1>4, <1>5, <2>1
  <2>2. CASE i > Len(data)
    <3>1. i - Len(data) \in 1..Len(p.bytes) /\ all[i] = p.bytes[i - Len(data)]
      BY <1>2, <1>3, <1>4, <2>2
    <3>2. p.offset + (i - Len(data)) - 1 = i - 1
      BY <1>1, <1>3
    <3> QED
      BY <1>2, <3>1, <3>2
  <2> QED
    BY <1>3, <1>4, <2>1, <2>2
<1> QED
  BY <1>1, <1>2, <1>3, <1>4, <1>6 DEF End

----------------------------------------------------------------------------
\* Types.
LEMMA SfpTypeInit == SfpInit => SfpType
<1> SUFFICES ASSUME SfpInit PROVE SfpType
  OBVIOUS
<1>1. link \in Seq(Packets) /\ data \in Seq(Contents) /\ returned \in Seq(Seq(Contents))
  BY DEF SfpInit
<1>2. blob \in 0..Len(BlobSize) /\ count \in Nat /\ sfpLost \in Nat /\ sfpFailed \in Nat
  BY SfpConstants DEF SfpInit
<1> QED
  BY <1>1, <1>2 DEF SfpInit, SfpType

LEMMA SfpTypeSending ==
  ASSUME SfpType, SfpSend \/ SfpSendFragment \/ SfpSendFails \/ SfpSendPlain
  PROVE  SfpType'
<1>1. CASE SfpSend
  BY <1>1, SfpConstants DEF SfpSend, SfpType, recvVars
<1>2. CASE SfpSendFragment
  <2> DEFINE size == Shorter(BlobSize[blob] - count, Mtu)
             f == Fragment(size)
  <2>1. /\ sending /\ link' = Append(link, f) /\ count' = count + size
        /\ sending' = (count' < BlobSize[blob])
        /\ UNCHANGED <<blob, data, datasize, returned, sfpLost, sfpFailed>>
    BY <1>2 DEF SfpSendFragment, recvVars
  <2>2. size \in Nat /\ f \in Packets
    BY <2>1, FragmentIsPiece
  <2> HIDE DEF size, f
  <2>3. link' \in Seq(Packets) /\ count' \in Nat
    BY <2>1, <2>2 DEF SfpType
  <2>4. sending' \in BOOLEAN
    BY <2>1
  <2>5. blob \in Blobs
    BY <2>1 DEF SfpType
  <2> QED
    BY <2>1, <2>3, <2>4, <2>5 DEF SfpType
<1>3. CASE SfpSendFails
  <2>1. sending' = FALSE /\ sfpFailed' = sfpFailed + 1
        /\ UNCHANGED <<blob, count, link, data, datasize, returned, sfpLost>>
    BY <1>3 DEF SfpSendFails, recvVars
  <2>2. sfpFailed' \in Nat
    BY <2>1 DEF SfpType
  <2> QED
    BY <2>1, <2>2 DEF SfpType
<1>4. CASE SfpSendPlain
  <2>1. [frag |-> FALSE, blob |-> 0] \in Packets
    BY DEF Packets
  <2>2. link' = Append(link, [frag |-> FALSE, blob |-> 0])
    BY <1>4 DEF SfpSendPlain
  <2>3. link' \in Seq(Packets)
    BY <2>1, <2>2 DEF SfpType
  <2> QED
    BY <1>4, <2>3 DEF SfpSendPlain, SfpType, sendVars, recvVars
<1> QED
  BY <1>1, <1>2, <1>3, <1>4

LEMMA SfpTypeReceiving ==
  ASSUME SfpType, FewFaults => DataOK /\ NoMix,
         SfpLose \/ SfpTake \/ SfpReject \/ SfpNoMemory \/ SfpTimeout
  PROVE  SfpType'
<1> DEFINE Rest == link # <<>> /\ link' = Tail(link)
<1>1. Rest => link' \in Seq(Packets)
  BY TailOfLink
<1>2. CASE SfpLose
  <2>1. /\ Rest /\ sfpLost' = sfpLost + 1
        /\ UNCHANGED <<blob, count, sending, data, datasize, returned, sfpFailed>>
    BY <1>2 DEF SfpLose, sendVars, recvVars
  <2>2. sfpLost' \in Nat
    BY <2>1 DEF SfpType
  <2> QED
    BY <1>1, <2>1, <2>2 DEF SfpType
<1>3. CASE SfpNoMemory
  <2>1. /\ Rest /\ sfpFailed' = sfpFailed + 1
        /\ UNCHANGED <<blob, count, sending, data, datasize, returned, sfpLost>>
    BY <1>3 DEF SfpNoMemory, sendVars, recvVars
  <2>2. sfpFailed' \in Nat
    BY <2>1 DEF SfpType
  <2> QED
    BY <1>1, <2>1, <2>2 DEF SfpType
<1>4. CASE SfpReject
  <2>1. /\ Rest /\ data' = <<>> /\ datasize' = 0
        /\ UNCHANGED <<blob, count, sending, returned, sfpLost, sfpFailed>>
    BY <1>4 DEF SfpReject, GiveUp, sendVars
  <2>2. data' \in Seq(Contents)
    BY <2>1
  <2> QED
    BY <1>1, <2>1, <2>2 DEF SfpType
<1>5. CASE SfpTimeout
  <2>1. /\ data' = <<>> /\ datasize' = 0 /\ sfpFailed' = sfpFailed + 1
        /\ UNCHANGED <<blob, count, sending, link, returned, sfpLost>>
    BY <1>5 DEF SfpTimeout, GiveUp, sendVars
  <2>2. data' \in Seq(Contents) /\ sfpFailed' \in Nat
    BY <2>1 DEF SfpType
  <2> QED
    BY <2>1, <2>2 DEF SfpType
<1>6. CASE SfpTake
  <2> DEFINE p == link[1]
             all == data \o p.bytes
  <2>1. /\ Rest /\ Consistent(p)
        /\ UNCHANGED <<blob, count, sending, sfpLost, sfpFailed>>
    BY <1>6, TailOfLink DEF SfpTake, sendVars
  <2>2. \/ returned' = Append(returned, all) /\ data' = <<>> /\ datasize' = 0
        \/ data' = all /\ datasize' = p.total /\ returned' = returned
    BY <1>6, TailOfLink DEF SfpTake
  <2>3. p \in Packets /\ p.frag
    BY <2>1, TailOfLink DEF Consistent, Expected, HasHeader
  <2>4. /\ p.bytes \in Seq(Contents) /\ p.total \in Nat /\ p.total > 0
        /\ Len(p.bytes) > 0
    BY <2>3, PacketIsPiece
  <2>5. all \in Seq(Contents) /\ all # <<>>
    <3>1. data \in Seq(Contents)
      BY DEF SfpType
    <3>2. all \in Seq(Contents) /\ Len(all) = Len(data) + Len(p.bytes)
      BY <2>4, <3>1
    <3>3. Len(all) > 0
      BY <2>4, <3>1, <3>2
    <3> QED
      BY <3>2, <3>3
  <2> HIDE DEF p, all
  <2>6. data' \in Seq(Contents) /\ datasize' \in Nat /\ (datasize' = 0 <=> data' = <<>>)
    <3>1. <<>> \in Seq(Contents)
      OBVIOUS
    <3>2. CASE data' = <<>> /\ datasize' = 0
      BY <3>1, <3>2
    <3>3. CASE data' = all /\ datasize' = p.total
      BY <2>4, <2>5, <3>3
    <3> QED
      BY <2>2, <3>2, <3>3
  <2>7. returned' \in Seq(Seq(Contents))
    <3>1. returned \in Seq(Seq(Contents))
      BY DEF SfpType
    <3>2. Append(returned, all) \in Seq(Seq(Contents))
      BY <2>5, <3>1, AppendProperties
    <3> QED
      BY <2>2, <3>1, <3>2
  <2> QED
    BY <1>1, <2>1, <2>6, <2>7 DEF SfpType
<1> QED
  BY <1>2, <1>3, <1>4, <1>5, <1>6

----------------------------------------------------------------------------
\* The receiver.
\* What follows the head when it is gone.
LEMMA GoesOn ==
  ASSUME SfpType, Linked, link # <<>>, link' = Tail(link), UNCHANGED <<blob, count, sending>>
  PROVE  /\ link' # <<>> /\ link'[1].frag =>
              Follows(link[1], link'[1].blob, link'[1].offset)
         /\ link' = <<>> /\ sending => Follows(link[1], blob, count)
<1>1. link' # <<>> => 1 \in 1..Len(link) - 1 /\ link'[1] = link[2]
  <2> SUFFICES ASSUME link' # <<>> PROVE 1 \in 1..Len(link) - 1 /\ link'[1] = link[2]
    OBVIOUS
  <2>1. Len(link) \in Nat /\ Len(link) > 1 /\ Len(Tail(link)) = Len(link) - 1
    BY TailOfLink
  <2> QED
    BY <2>1, TailOfLink
<1>2. link' = <<>> => Len(link) = 1
  BY TailOfLink
<1> QED
  BY <1>1, <1>2 DEF Linked

LEMMA TailLinked ==
  ASSUME SfpType, Linked, link # <<>>, link' = Tail(link), UNCHANGED <<blob, count, sending>>
  PROVE  Linked'
<1>1. /\ Len(link) \in Nat /\ Len(link) > 0 /\ Len(link') = Len(link) - 1
      /\ \A i \in 1..Len(link') : link'[i] = link[i + 1]
      /\ link' = <<>> <=> Len(link) = 1
  BY TailOfLink
<1>2. ASSUME NEW i \in 1..Len(link') - 1, link'[i + 1].frag
      PROVE  Follows(link'[i], link'[i + 1].blob, link'[i + 1].offset)
  <2>1. i + 1 \in 1..Len(link) - 1 /\ i \in 1..Len(link') /\ i + 1 \in 1..Len(link')
    BY <1>1
  <2>2. link'[i] = link[i + 1] /\ link'[i + 1] = link[(i + 1) + 1]
    BY <1>1, <2>1
  <2> QED
    BY <1>2, <2>1, <2>2 DEF Linked
<1>3. ASSUME sending, link' # <<>>
      PROVE  Follows(link'[Len(link')], blob, count)
  <2>1. link'[Len(link')] = link[Len(link)]
    BY <1>1, <1>3
  <2> QED
    BY <1>3, <2>1 DEF Linked
<1> QED
  BY <1>2, <1>3 DEF Linked, Follows

LEMMA TailUnbroken ==
  ASSUME SfpType, Unbroken, link # <<>>, link' = Tail(link), UNCHANGED <<count, sending>>,
         sfpLost = 0 /\ sfpFailed = 0
  PROVE  /\ \A i \in 1..Len(link') - 1 :
              Unfinished(link'[i]) => link'[i + 1].frag /\ link'[i + 1].offset = End(link'[i])
         /\ link' # <<>> /\ Unfinished(link'[Len(link')]) =>
              sending /\ count = End(link'[Len(link')])
         /\ Unfinished(link[1]) =>
              IF link' # <<>> THEN link'[1].frag /\ link'[1].offset = End(link[1])
                              ELSE sending /\ count = End(link[1])
<1>1. /\ Len(link) \in Nat /\ Len(link) > 0 /\ Len(link') = Len(link) - 1
      /\ \A i \in 1..Len(link') : link'[i] = link[i + 1]
      /\ link' = <<>> <=> Len(link) = 1
  BY TailOfLink
<1>2. ASSUME NEW i \in 1..Len(link') - 1, Unfinished(link'[i])
      PROVE  link'[i + 1].frag /\ link'[i + 1].offset = End(link'[i])
  <2>1. i + 1 \in 1..Len(link) - 1 /\ i \in 1..Len(link') /\ i + 1 \in 1..Len(link')
    BY <1>1
  <2>2. link'[i] = link[i + 1] /\ link'[i + 1] = link[(i + 1) + 1]
    BY <1>1, <2>1
  <2> QED
    BY <1>2, <2>1, <2>2 DEF Unbroken
<1>3. ASSUME link' # <<>>, Unfinished(link'[Len(link')])
      PROVE  sending /\ count = End(link'[Len(link')])
  <2>1. link'[Len(link')] = link[Len(link)]
    BY <1>1, <1>3
  <2> QED
    BY <1>3, <2>1 DEF Unbroken
<1>4. ASSUME Unfinished(link[1])
      PROVE  IF link' # <<>> THEN link'[1].frag /\ link'[1].offset = End(link[1])
                             ELSE sending /\ count = End(link[1])
  <2>1. CASE link' # <<>>
    <3>1. 1 \in 1..Len(link) - 1 /\ 1 \in 1..Len(link')
      BY <1>1, <2>1
    <3>2. link'[1] = link[1 + 1]
      BY <1>1, <3>1
    <3> QED
      BY <1>4, <2>1, <3>1, <3>2 DEF Unbroken
  <2>2. CASE link' = <<>>
    BY <1>1, <1>4, <2>2 DEF Unbroken
  <2> QED
    BY <2>1, <2>2
<1> QED
  BY <1>2, <1>3, <1>4

LEMMA SafeLose == ASSUME SfpType, Safe, SfpLose PROVE Safe'
<1> SUFFICES ASSUME FewFaults' PROVE (DataOK /\ Linked /\ NoMix /\ Unbroken /\ ReturnedOK)'
  BY DEF Safe
<1>1. /\ link # <<>> /\ link' = Tail(link) /\ sfpLost' = sfpLost + 1
      /\ UNCHANGED <<blob, count, sending, data, datasize, returned, sfpFailed>>
  BY DEF SfpLose, sendVars, recvVars
<1>2. sfpLost = 0 /\ sfpFailed = 0 /\ sfpLost' # 0
  BY <1>1 DEF FewFaults, SfpType
<1>3. DataOK /\ Linked /\ NoMix /\ Unbroken /\ ReturnedOK
  BY <1>2 DEF Safe, FewFaults
<1>4. DataOK' /\ ReturnedOK' /\ Unbroken'
  BY <1>1, <1>2, <1>3 DEF DataOK, Source, ReturnedOK, Unbroken
<1>5. Linked'
  BY <1>1, <1>3, TailLinked
<1>6. NoMix'
  <2> SUFFICES ASSUME datasize # 0 PROVE NoMix'
    BY <1>1 DEF NoMix
  <2>1. link[1].frag /\ link[1].offset = Len(data)
    BY <1>1, <1>2, <1>3 DEF Unbroken
  <2>2. link[1].blob = Source /\ End(link[1]) \in Nat /\ End(link[1]) > Len(data)
    BY <1>1, <1>3, <2>1, TailOfLink, PacketIsPiece DEF NoMix
  <2>3. Len(data) \in Nat /\ Len(data) > 0
    BY DEF SfpType
  <2>4. /\ link' # <<>> /\ link'[1].frag => link'[1].offset # Len(data)
        /\ link' = <<>> /\ sending => count # Len(data)
    BY <1>1, <1>3, <2>2, <2>3, GoesOn DEF Follows
  <2> QED
    BY <1>1, <2>4 DEF NoMix
<1> QED
  BY <1>3, <1>4, <1>5, <1>6

LEMMA SafeTake == ASSUME SfpType, Safe, SfpTake PROVE Safe'
<1> DEFINE p == link[1]
           all == data \o p.bytes
<1> SUFFICES ASSUME FewFaults' PROVE (DataOK /\ Linked /\ NoMix /\ Unbroken /\ ReturnedOK)'
  BY DEF Safe
<1>1. /\ link # <<>> /\ link' = Tail(link) /\ Consistent(p)
      /\ UNCHANGED <<blob, count, sending, sfpLost, sfpFailed>>
  BY TailOfLink DEF SfpTake, sendVars
<1>2. \/ Len(all) >= p.total /\ returned' = Append(returned, all) /\ datasize' = 0
      \/ ~(Len(all) >= p.total) /\ data' = all /\ datasize' = p.total /\ returned' = returned
  BY TailOfLink DEF SfpTake
<1>3. DataOK /\ Linked /\ NoMix /\ Unbroken /\ ReturnedOK
  BY <1>1 DEF Safe, FewFaults
<1>4. /\ p.frag /\ p.blob \in Blobs /\ p.total = BlobSize[p.blob]
      /\ all \in Seq(Contents) /\ Len(all) = End(p)
      /\ End(p) \in Nat /\ End(p) > 0 /\ End(p) <= p.total
      /\ \A i \in 1..Len(all) : all[i] = Byte(p.blob, i - 1)
  BY <1>1, <1>3, TakenBytes
<1>5. Linked'
  BY <1>1, <1>3, TailLinked
<1>6. p.total \in Nat
  BY <1>4, SfpConstants
<1> HIDE DEF p, all
<1>7. CASE Len(all) >= p.total
  <2>1. returned' = Append(returned, all) /\ datasize' = 0
    BY <1>2, <1>7
  <2>2. all = Content(p.blob)
    <3>1. Len(all) = BlobSize[p.blob] /\ BlobSize[p.blob] \in Nat
      BY <1>4, <1>6, <1>7
    <3>2. all = [i \in 1..Len(all) |-> all[i]]
      BY <1>4
    <3> QED
      BY <1>4, <3>1, <3>2 DEF Content
  <2>3. ReturnedOK'
    <3>1. /\ Len(returned') = Len(returned) + 1 /\ Len(returned) \in Nat
          /\ returned'[Len(returned) + 1] = all
          /\ \A k \in 1..Len(returned) : returned'[k] = returned[k]
      BY <2>1 DEF SfpType
    <3>2. ASSUME NEW k \in 1..Len(returned') PROVE \E n \in Blobs : returned'[k] = Content(n)
      <4>1. CASE k = Len(returned) + 1
        BY <1>4, <2>2, <3>1, <4>1
      <4>2. CASE k \in 1..Len(returned)
        BY <1>3, <3>1, <4>2 DEF ReturnedOK
      <4> QED
        BY <3>1, <4>1, <4>2
    <3> QED
      BY <3>2 DEF ReturnedOK, Content, Byte
  <2>4. Unbroken'
    BY <1>1, <1>3, <2>1, TailUnbroken DEF Unbroken
  <2> QED
    BY <1>5, <2>1, <2>3, <2>4 DEF DataOK, NoMix
<1>8. CASE ~(Len(all) >= p.total)
  <2>1. data' = all /\ datasize' = p.total /\ returned' = returned
    BY <1>2, <1>8
  <2>2. Source' = p.blob
    <3>1. all[1] = Byte(p.blob, 0)
      BY <1>4
    <3> QED
      BY <2>1, <3>1 DEF Source, Byte
  <2>3. Len(all) < p.total /\ Len(all) > 0
    BY <1>4, <1>6, <1>8
  <2>4. DataOK'
    <3>1. \A i \in 1..Len(data') : data'[i] = Byte(Source', i - 1)
      BY <1>4, <2>1, <2>2
    <3> QED
      BY <1>4, <2>1, <2>2, <2>3, <3>1 DEF DataOK, Byte
  <2>5. NoMix'
    <3>1. /\ link' # <<>> /\ link'[1].frag /\ link'[1].offset = Len(all) => link'[1].blob = p.blob
          /\ link' = <<>> /\ sending /\ count = Len(all) => blob = p.blob
      BY <1>1, <1>3, <1>4, <2>3, GoesOn DEF Follows, p
    <3> QED
      BY <1>1, <2>1, <2>2, <3>1 DEF NoMix
  <2>6. Unbroken'
    <3> SUFFICES ASSUME sfpLost = 0 /\ sfpFailed = 0 PROVE Unbroken'
      BY <1>1 DEF Unbroken
    <3>1. Unfinished(link[1]) /\ End(link[1]) = Len(data')
      BY <1>4, <2>1, <2>3 DEF Unfinished, p
    <3>2. IF link' # <<>> THEN link'[1].frag /\ link'[1].offset = Len(data')
                          ELSE sending /\ count = Len(data')
      BY <1>1, <1>3, <3>1, TailUnbroken
    <3> QED
      BY <1>1, <1>3, <3>2, TailUnbroken DEF Unbroken, Unfinished, End
  <2>7. ReturnedOK'
    BY <1>3, <2>1 DEF ReturnedOK
  <2> QED
    BY <1>5, <2>4, <2>5, <2>6, <2>7
<1> QED
  BY <1>7, <1>8

LEMMA SafeReject == ASSUME SfpType, Safe, SfpReject PROVE Safe'
<1> SUFFICES ASSUME FewFaults' PROVE (DataOK /\ Linked /\ NoMix /\ Unbroken /\ ReturnedOK)'
  BY DEF Safe
<1>1. /\ link # <<>> /\ link' = Tail(link) /\ datasize' = 0
      /\ UNCHANGED <<blob, count, sending, returned, sfpLost, sfpFailed>>
  BY DEF SfpReject, GiveUp, sendVars
<1>2. Linked /\ Unbroken /\ ReturnedOK
  BY <1>1 DEF Safe, FewFaults
<1>3. Linked'
  BY <1>1, <1>2, TailLinked
<1>4. Unbroken'
  BY <1>1, <1>2, TailUnbroken DEF Unbroken
<1> QED
  BY <1>1, <1>2, <1>3, <1>4 DEF DataOK, NoMix, ReturnedOK

LEMMA SafeNoMemory == ASSUME SfpType, Safe, SfpNoMemory PROVE Safe'
<1> SUFFICES ASSUME FewFaults' PROVE (DataOK /\ Linked /\ NoMix /\ Unbroken /\ ReturnedOK)'
  BY DEF Safe
<1>1. /\ link # <<>> /\ link' = Tail(link) /\ datasize = 0 /\ datasize' = 0
      /\ sfpFailed' = sfpFailed + 1
      /\ UNCHANGED <<blob, count, sending, returned, sfpLost>>
  BY DEF SfpNoMemory, sendVars, recvVars
<1>2. FewFaults /\ sfpFailed' # 0
  BY <1>1 DEF FewFaults, SfpType
<1>3. Linked /\ ReturnedOK
  BY <1>2 DEF Safe
<1>4. Linked'
  BY <1>1, <1>3, TailLinked
<1> QED
  BY <1>1, <1>2, <1>3, <1>4 DEF DataOK, NoMix, ReturnedOK, Unbroken

LEMMA SafeTimeout == ASSUME SfpType, Safe, SfpTimeout PROVE Safe'
<1> SUFFICES ASSUME FewFaults' PROVE (DataOK /\ Linked /\ NoMix /\ Unbroken /\ ReturnedOK)'
  BY DEF Safe
<1>1. /\ datasize' = 0 /\ sfpFailed' = sfpFailed + 1
      /\ UNCHANGED <<blob, count, sending, link, returned, sfpLost>>
  BY DEF SfpTimeout, GiveUp, sendVars
<1>2. FewFaults /\ sfpFailed' # 0
  BY <1>1 DEF FewFaults, SfpType
<1>3. Linked /\ ReturnedOK
  BY <1>2 DEF Safe
<1> QED
  BY <1>1, <1>2, <1>3 DEF DataOK, NoMix, ReturnedOK, Unbroken, Linked, Follows, End

----------------------------------------------------------------------------
\* The sender.
LEMMA SafeSend == ASSUME SfpType, Safe, SfpSend PROVE Safe'
<1> SUFFICES ASSUME FewFaults' PROVE (DataOK /\ Linked /\ NoMix /\ Unbroken /\ ReturnedOK)'
  BY DEF Safe
<1>1. /\ ~sending /\ count' = 0
      /\ UNCHANGED <<link, data, datasize, returned, sfpLost, sfpFailed>>
  BY DEF SfpSend, recvVars
<1>2. DataOK /\ Linked /\ NoMix /\ Unbroken /\ ReturnedOK
  BY <1>1 DEF Safe, FewFaults
<1>3. DataOK' /\ ReturnedOK'
  BY <1>1, <1>2 DEF DataOK, Source, ReturnedOK
<1>4. Linked'
  BY <1>1, <1>2 DEF Linked, Follows, End
<1>5. NoMix'
  <2>1. datasize # 0 => Len(data) # 0
    BY DEF SfpType
  <2> QED
    BY <1>1, <1>2, <2>1 DEF NoMix, Source
<1>6. Unbroken'
  BY <1>1, <1>2 DEF Unbroken, Unfinished, End
<1> QED
  BY <1>3, <1>4, <1>5, <1>6

LEMMA SafeSendFails == ASSUME SfpType, Safe, SfpSendFails PROVE Safe'
<1> SUFFICES ASSUME FewFaults' PROVE (DataOK /\ Linked /\ NoMix /\ Unbroken /\ ReturnedOK)'
  BY DEF Safe
<1>1. /\ sending' = FALSE /\ sfpFailed' = sfpFailed + 1
      /\ UNCHANGED <<blob, count, link, data, datasize, returned, sfpLost>>
  BY DEF SfpSendFails, recvVars
<1>2. FewFaults /\ sfpFailed' # 0
  BY <1>1 DEF FewFaults, SfpType
<1>3. DataOK /\ Linked /\ NoMix /\ ReturnedOK
  BY <1>2 DEF Safe
<1>4. DataOK' /\ NoMix' /\ ReturnedOK'
  BY <1>1, <1>3 DEF DataOK, NoMix, Source, ReturnedOK
<1> QED
  BY <1>1, <1>2, <1>3, <1>4 DEF Unbroken, Linked, Follows, End

LEMMA SafeSendPlain == ASSUME SfpType, Safe, SfpSendPlain PROVE Safe'
<1> DEFINE plain == [frag |-> FALSE, blob |-> 0]
           n == Len(link)
<1> SUFFICES ASSUME FewFaults' PROVE (DataOK /\ Linked /\ NoMix /\ Unbroken /\ ReturnedOK)'
  BY DEF Safe
<1>1. /\ ~sending /\ link' = Append(link, plain)
      /\ UNCHANGED <<blob, count, sending, data, datasize, returned, sfpLost, sfpFailed>>
  BY DEF SfpSendPlain, sendVars, recvVars
<1>2. DataOK /\ Linked /\ NoMix /\ Unbroken /\ ReturnedOK
  BY <1>1 DEF Safe, FewFaults
<1>3. /\ n \in Nat /\ Len(link') = n + 1 /\ link' # <<>> /\ ~link'[n + 1].frag
      /\ \A i \in 1..n : link'[i] = link[i]
      /\ link = <<>> <=> n = 0
  <2>1. link \in Seq(Packets)
    BY DEF SfpType
  <2>2. link = <<>> <=> n = 0
    BY <2>1, EmptySeq
  <2> QED
    BY <1>1, <2>1, <2>2
<1> HIDE DEF plain, n
<1>4. DataOK' /\ ReturnedOK'
  BY <1>1, <1>2 DEF DataOK, Source, ReturnedOK
<1>5. Linked'
  <2>1. ASSUME NEW i \in 1..Len(link') - 1, link'[i + 1].frag
        PROVE  Follows(link'[i], link'[i + 1].blob, link'[i + 1].offset)
    <3>1. i \in 1..n - 1 /\ i + 1 \in 1..n /\ i \in 1..n
      BY <1>3, <2>1
    <3> QED
      BY <1>2, <1>3, <2>1, <3>1 DEF Linked, n
  <2> QED
    BY <1>1, <2>1 DEF Linked, Follows, End
<1>6. NoMix'
  BY <1>1, <1>2, <1>3 DEF NoMix, Source
<1>7. Unbroken'
  <2> SUFFICES ASSUME sfpLost = 0 /\ sfpFailed = 0 PROVE Unbroken'
    BY <1>1 DEF Unbroken
  <2>1. ~(link # <<>> /\ Unfinished(link[n])) /\ ~(datasize # 0 /\ link = <<>>)
    BY <1>1, <1>2 DEF Unbroken, n
  <2>2. ASSUME NEW i \in 1..Len(link') - 1, Unfinished(link'[i])
        PROVE  link'[i + 1].frag /\ link'[i + 1].offset = End(link'[i])
    <3>1. i \in 1..n /\ i # n
      BY <1>3, <2>1, <2>2
    <3>2. i \in 1..n - 1 /\ i + 1 \in 1..n
      BY <1>3, <3>1
    <3> QED
      BY <1>2, <1>3, <2>2, <3>1, <3>2 DEF Unbroken, n
  <2>3. ~Unfinished(link'[Len(link')])
    BY <1>3 DEF Unfinished
  <2>4. datasize # 0 => link'[1].frag /\ link'[1].offset = Len(data)
    BY <1>2, <1>3, <2>1 DEF Unbroken
  <2> QED
    BY <1>1, <1>3, <2>2, <2>3, <2>4 DEF Unbroken, Unfinished, End
<1> QED
  BY <1>4, <1>5, <1>6, <1>7

LEMMA SafeSendFragment == ASSUME SfpType, Safe, SfpSendFragment PROVE Safe'
<1> DEFINE size == Shorter(BlobSize[blob] - count, Mtu)
           f == Fragment(size)
           n == Len(link)
<1> SUFFICES ASSUME FewFaults' PROVE (DataOK /\ Linked /\ NoMix /\ Unbroken /\ ReturnedOK)'
  BY DEF Safe
<1>1. /\ sending /\ link' = Append(link, f) /\ count' = count + size
      /\ sending' = (count' < BlobSize[blob])
      /\ UNCHANGED <<blob, data, datasize, returned, sfpLost, sfpFailed>>
  BY DEF SfpSendFragment, recvVars
<1>2. DataOK /\ Linked /\ NoMix /\ Unbroken /\ ReturnedOK
  BY <1>1 DEF Safe, FewFaults
<1>3. /\ n \in Nat /\ Len(link') = n + 1 /\ link' # <<>> /\ link'[n + 1] = f
      /\ \A i \in 1..n : link'[i] = link[i]
      /\ link = <<>> <=> n = 0
  <2>1. link \in Seq(Packets)
    BY DEF SfpType
  <2>2. link = <<>> <=> n = 0
    BY <2>1, EmptySeq
  <2> QED
    BY <1>1, <2>1, <2>2
<1>4. /\ f.frag /\ f.blob = blob /\ f.offset = count /\ f.total = BlobSize[blob]
      /\ End(f) = count'
  BY <1>1, FragmentIsPiece
<1> HIDE DEF size, f, n
<1>5. DataOK' /\ ReturnedOK'
  BY <1>1, <1>2 DEF DataOK, Source, ReturnedOK
<1>6. Linked'
  <2>1. ASSUME NEW i \in 1..Len(link') - 1, link'[i + 1].frag
        PROVE  Follows(link'[i], link'[i + 1].blob, link'[i + 1].offset)
    <3>1. CASE i = n
      <4>1. link # <<>> /\ link'[i] = link[n] /\ link'[i + 1] = f
        BY <1>3, <2>1, <3>1
      <4> QED
        BY <1>1, <1>2, <1>4, <4>1 DEF Linked, n
    <3>2. CASE i # n
      <4>1. i \in 1..n - 1 /\ i + 1 \in 1..n /\ i \in 1..n
        BY <1>3, <2>1, <3>2
      <4> QED
        BY <1>2, <1>3, <2>1, <4>1 DEF Linked, n
    <3> QED
      BY <3>1, <3>2
  <2>2. Follows(link'[Len(link')], blob, count')
    BY <1>3, <1>4 DEF Follows
  <2> QED
    BY <1>1, <2>1, <2>2 DEF Linked, Follows, End
<1>7. NoMix'
  <2> SUFFICES ASSUME datasize # 0 PROVE NoMix'
    BY <1>1 DEF NoMix
  <2>1. CASE link = <<>>
    <3>1. link'[1] = f
      BY <1>3, <2>1
    <3> QED
      BY <1>1, <1>2, <1>3, <1>4, <2>1, <3>1 DEF NoMix, Source
  <2>2. CASE link # <<>>
    <3>1. link'[1] = link[1]
      BY <1>3, <2>2
    <3> QED
      BY <1>1, <1>2, <1>3, <2>2, <3>1 DEF NoMix, Source
  <2> QED
    BY <2>1, <2>2
<1>8. Unbroken'
  <2> SUFFICES ASSUME sfpLost = 0 /\ sfpFailed = 0 PROVE Unbroken'
    BY <1>1 DEF Unbroken
  <2>1. ASSUME NEW i \in 1..Len(link') - 1, Unfinished(link'[i])
        PROVE  link'[i + 1].frag /\ link'[i + 1].offset = End(link'[i])
    <3>1. CASE i = n
      <4>1. link # <<>> /\ link'[i] = link[n] /\ link'[i + 1] = f
        BY <1>3, <2>1, <3>1
      <4> QED
        BY <1>2, <1>4, <2>1, <4>1 DEF Unbroken, n
    <3>2. CASE i # n
      <4>1. i \in 1..n - 1 /\ i + 1 \in 1..n /\ i \in 1..n
        BY <1>3, <2>1, <3>2
      <4> QED
        BY <1>2, <1>3, <2>1, <4>1 DEF Unbroken, n
    <3> QED
      BY <3>1, <3>2
  <2>2. Unfinished(link'[Len(link')]) => sending' /\ count' = End(link'[Len(link')])
    BY <1>1, <1>3, <1>4 DEF Unfinished
  <2>3. datasize # 0 => link'[1].frag /\ link'[1].offset = Len(data)
    <3>1. CASE link = <<>>
      BY <1>2, <1>3, <1>4, <3>1 DEF Unbroken
    <3>2. CASE link # <<>>
      BY <1>2, <1>3, <3>2 DEF Unbroken
    <3> QED
      BY <3>1, <3>2
  <2> QED
    BY <1>1, <1>3, <2>1, <2>2, <2>3 DEF Unbroken, Unfinished, End
<1> QED
  BY <1>5, <1>6, <1>7, <1>8

----------------------------------------------------------------------------
LEMMA SfpInvInit == SfpInit => SfpInv
<1> SUFFICES ASSUME SfpInit PROVE SfpInv
  OBVIOUS
<1>1. SfpType
  BY SfpTypeInit
<1>2. /\ link = <<>> /\ Len(link) = 0 /\ ~sending /\ datasize = 0 /\ Len(returned) = 0
  BY DEF SfpInit
<1> QED
  BY <1>1, <1>2 DEF SfpInv, Safe, DataOK, Linked, NoMix, Unbroken, ReturnedOK

LEMMA SfpInvStep == ASSUME SfpInv, [SfpNext]_sfpVars PROVE SfpInv'
<1>1. SfpType /\ Safe
  BY DEF SfpInv, Safe
<1>2. ASSUME SfpNext PROVE SfpType' /\ Safe'
  <2>1. CASE SfpSend
    BY <1>1, <2>1, SfpTypeSending, SafeSend
  <2>2. CASE SfpSendFragment
    BY <1>1, <2>2, SfpTypeSending, SafeSendFragment
  <2>3. CASE SfpSendFails
    BY <1>1, <2>3, SfpTypeSending, SafeSendFails
  <2>4. CASE SfpSendPlain
    BY <1>1, <2>4, SfpTypeSending, SafeSendPlain
  <2>5. CASE SfpLose
    BY <1>1, <2>5, SfpTypeReceiving, SafeLose DEF Safe
  <2>6. CASE SfpTake
    BY <1>1, <2>6, SfpTypeReceiving, SafeTake DEF Safe
  <2>7. CASE SfpReject
    BY <1>1, <2>7, SfpTypeReceiving, SafeReject DEF Safe
  <2>8. CASE SfpNoMemory
    BY <1>1, <2>8, SfpTypeReceiving, SafeNoMemory DEF Safe
  <2>9. CASE SfpTimeout
    BY <1>1, <2>9, SfpTypeReceiving, SafeTimeout DEF Safe
  <2> QED
    BY <1>2, <2>1, <2>2, <2>3, <2>4, <2>5, <2>6, <2>7, <2>8, <2>9 DEF SfpNext
<1>3. ASSUME UNCHANGED sfpVars PROVE SfpType' /\ Safe'
  <2>1. UNCHANGED <<blob, count, sending, link, data, datasize, returned, sfpLost, sfpFailed>>
    BY <1>3 DEF sfpVars
  <2>2. SfpType' = SfpType
    BY <2>1 DEF SfpType
  <2>3. /\ DataOK' = DataOK /\ Linked' = Linked /\ NoMix' = NoMix
        /\ Unbroken' = Unbroken /\ ReturnedOK' = ReturnedOK /\ FewFaults' = FewFaults
    BY <2>1 DEF DataOK, Linked, NoMix, Unbroken, ReturnedOK, FewFaults, Source, Follows, Unfinished, End
  <2> QED
    BY <1>1, <2>2, <2>3 DEF Safe
<1> QED
  BY <1>2, <1>3 DEF SfpInv, Safe

\* The counters, the packets on the way and the receiver's memory keep their
\* types: what csp_sfp_send puts in a header is always a piece of the blob
\* that ends within it.
THEOREM SfpTypeCorrect == SfpSpec => []SfpType
<1>1. SfpInv => SfpType
  BY DEF SfpInv
<1> QED
  BY <1>1, SfpInvInit, SfpInvStep, PTL DEF SfpSpec

\* Whatever the sizes of blobs and fragments, and however many calls are
\* made: with no packet lost, or a single fault, csp_sfp_recv returns only
\* blobs as csp_sfp_send was given them.
THEOREM BlobsIntactCorrect == SfpSpec => []BlobsIntact
<1>1. SfpInv => BlobsIntact
  BY DEF SfpInv, Safe, FewFaults, ReturnedOK, BlobsIntact
<1> QED
  BY <1>1, SfpInvInit, SfpInvStep, PTL DEF SfpSpec

----------------------------------------------------------------------------
\* Getting back into step: what is on the way, and what the receiver has when
\* the next fragment comes.

\* What is unspoilt comes fragment by fragment and is sent to its end.
Complete ==
  /\ \A i \in 1..Len(link) - 1 :
       Unfinished(link[i]) /\ link[i].blob \notin spoilt =>
         /\ link[i + 1].frag /\ link[i + 1].blob = link[i].blob
         /\ link[i + 1].offset = End(link[i])
  /\ link # <<>> /\ Unfinished(link[Len(link)]) /\ link[Len(link)].blob \notin spoilt =>
       sending /\ blob = link[Len(link)].blob /\ count = End(link[Len(link)])
  /\ ~sending /\ blob \in Blobs /\ blob \notin spoilt => count = BlobSize[blob]
\* Fragments are on the way in the order in which they were sent.
Ordered ==
  /\ \A i, j \in 1..Len(link) : i < j /\ link[i].frag /\ link[j].frag =>
       /\ link[i].blob <= link[j].blob
       /\ link[i].blob = link[j].blob => End(link[i]) <= link[j].offset
  /\ \A i \in 1..Len(link) : link[i].frag =>
       link[i].blob <= blob /\ (link[i].blob = blob => End(link[i]) <= count)
\* What was sent later than a fragment that is on the way is on the way.
NoGap ==
  \A i \in 1..Len(link) : link[i].frag =>
    /\ \A k \in Blobs : link[i].blob < k /\ Through(k) /\ k \notin spoilt => OnTheWay(k)
    /\ link[i].blob < blob /\ count > 0 => OnTheWay(blob)
Stream ==
  /\ Linked /\ Complete /\ Ordered /\ NoGap
  /\ spoilt \subseteq Nat /\ (blob = 0 => link = <<>> /\ count = 0)

\* The receiver has c bytes of blob b.
Has(b, c) ==
  /\ Len(data) = c /\ datasize = BlobSize[b]
  /\ \A i \in 1..c : data[i] = Byte(b, i - 1)
\* What it has when the byte at c of blob b comes next.
Ready(b, c) ==
  /\ c = 0 /\ b - 1 \notin spoilt => data = <<>>
  /\ c > 0 /\ b \notin spoilt /\ c < BlobSize[b] =>
       Has(b, c) \/ (data = <<>> /\ b - 1 \in spoilt)
  /\ c > 0 /\ b \notin spoilt /\ c = BlobSize[b] => data = <<>>
FirstLeft(i) == i \in 1..Len(link) /\ link[i].frag /\ \A j \in 1..i - 1 : ~link[j].frag
NoneLeft == \A i \in 1..Len(link) : ~link[i].frag
InPlace ==
  /\ \A i \in 1..Len(link) : FirstLeft(i) => Ready(link[i].blob, link[i].offset)
  /\ NoneLeft => Ready(blob, count)

ResyncInv == Stream /\ InPlace /\ BlobsResync
LEMMA LinkFacts ==
  ASSUME SfpType, NEW i \in 1..Len(link)
  PROVE  /\ Len(link) \in Nat /\ link[i] \in Packets
         /\ link[i].frag => /\ link[i].blob \in Blobs /\ link[i].blob \in Nat
                            /\ link[i].offset \in Nat /\ link[i].total = BlobSize[link[i].blob]
                            /\ End(link[i]) \in Nat /\ End(link[i]) > link[i].offset
                            /\ End(link[i]) <= link[i].total /\ link[i].total \in Nat
         /\ ~link[i].frag => link[i].blob = 0
<1>1. link \in Seq(Packets) /\ Len(link) \in Nat
  BY DEF SfpType
<1>2. link[i] \in Packets
  BY <1>1
<1>3. ASSUME link[i].frag
      PROVE  /\ link[i].blob \in Blobs /\ link[i].blob \in Nat
             /\ link[i].offset \in Nat /\ link[i].total = BlobSize[link[i].blob]
             /\ End(link[i]) \in Nat /\ End(link[i]) > link[i].offset
             /\ End(link[i]) <= link[i].total /\ link[i].total \in Nat
  BY <1>2, <1>3, PacketIsPiece, SfpConstants
<1>4. ASSUME ~link[i].frag PROVE link[i].blob = 0
  <2>1. link[i] \notin Pieces
    BY <1>4 DEF Pieces
  <2>2. link[i] = [frag |-> FALSE, blob |-> 0]
    BY <1>2, <2>1 DEF Packets
  <2> QED
    BY <2>2
<1> QED
  BY <1>1, <1>2, <1>3, <1>4

LEMMA TailStream ==
  ASSUME SfpType, Stream, link # <<>>, link' = Tail(link), UNCHANGED <<blob, count, sending>>,
         spoilt \subseteq spoilt', spoilt' \subseteq Nat
  PROVE  Stream'
<1>1. /\ Len(link) \in Nat /\ Len(link) > 0 /\ Len(link') = Len(link) - 1
      /\ \A i \in 1..Len(link') : link'[i] = link[i + 1]
      /\ link' = <<>> <=> Len(link) = 1
  BY TailOfLink
<1>2. \A i \in 1..Len(link') : i + 1 \in 1..Len(link) /\ i + 1 > 1
  BY <1>1
<1>3. Linked'
  BY TailLinked DEF Stream
<1>4. Complete'
  <2>1. ASSUME NEW i \in 1..Len(link') - 1, Unfinished(link'[i]), link'[i].blob \notin spoilt'
        PROVE  /\ link'[i + 1].frag /\ link'[i + 1].blob = link'[i].blob
               /\ link'[i + 1].offset = End(link'[i])
    <3>1. i + 1 \in 1..Len(link) - 1 /\ i \in 1..Len(link') /\ i + 1 \in 1..Len(link')
      BY <1>1
    <3>2. link'[i] = link[i + 1] /\ link'[i + 1] = link[(i + 1) + 1]
      BY <1>1, <3>1
    <3> QED
      BY <2>1, <3>1, <3>2 DEF Stream, Complete
  <2>2. ASSUME link' # <<>>, Unfinished(link'[Len(link')]), link'[Len(link')].blob \notin spoilt'
        PROVE  sending /\ blob = link'[Len(link')].blob /\ count = End(link'[Len(link')])
    <3>1. link'[Len(link')] = link[Len(link)]
      BY <1>1, <2>2
    <3> QED
      BY <2>2, <3>1 DEF Stream, Complete
  <2>3. ~sending /\ blob \in Blobs /\ blob \notin spoilt' => count = BlobSize[blob]
    BY DEF Stream, Complete
  <2> QED
    BY <2>1, <2>2, <2>3 DEF Complete, Unfinished, End
<1>5. Ordered'
  <2>1. ASSUME NEW i \in 1..Len(link'), NEW j \in 1..Len(link'), i < j,
               link'[i].frag, link'[j].frag
        PROVE  /\ link'[i].blob <= link'[j].blob
               /\ link'[i].blob = link'[j].blob => End(link'[i]) <= link'[j].offset
    <3>1. i + 1 \in 1..Len(link) /\ j + 1 \in 1..Len(link) /\ i + 1 < j + 1
      BY <1>1, <2>1
    <3>2. link'[i] = link[i + 1] /\ link'[j] = link[j + 1]
      BY <1>1
    <3> QED
      BY <2>1, <3>1, <3>2 DEF Stream, Ordered
  <2>2. ASSUME NEW i \in 1..Len(link'), link'[i].frag
        PROVE  link'[i].blob <= blob /\ (link'[i].blob = blob => End(link'[i]) <= count)
    BY <1>1, <1>2, <2>2 DEF Stream, Ordered
  <2> QED
    BY <2>1, <2>2 DEF Ordered, End
<1>6. NoGap'
  <2> SUFFICES ASSUME NEW i \in 1..Len(link'), link'[i].frag
               PROVE  /\ \A k \in Blobs : link'[i].blob < k /\ Through(k) /\ k \notin spoilt' =>
                           OnTheWay(k)'
                      /\ link'[i].blob < blob /\ count > 0 => OnTheWay(blob)'
    BY DEF NoGap, Through, OnTheWay
  <2>1. i + 1 \in 1..Len(link) /\ link'[i] = link[i + 1] /\ link[i + 1].frag
    BY <1>1, <1>2
  <2>2. \A k \in Nat : link'[i].blob < k /\ OnTheWay(k) => OnTheWay(k)'
    <3> SUFFICES ASSUME NEW k \in Nat, link'[i].blob < k, OnTheWay(k) PROVE OnTheWay(k)'
      OBVIOUS
    <3>1. PICK j \in 1..Len(link) : link[j].blob = k
      BY DEF OnTheWay
    <3>2. link[i + 1].blob \in Nat
      BY <2>1, LinkFacts
    <3>3. k > 0
      BY <2>1, <3>2
    <3>4. link[j].frag
      BY <3>1, <3>3, LinkFacts
    <3>5. j # 1
      <4> SUFFICES ASSUME j = 1 PROVE FALSE
        OBVIOUS
      <4>1. j < i + 1
        OBVIOUS
      <4>2. link[j].blob <= link[i + 1].blob
        BY <2>1, <3>4, <4>1 DEF Stream, Ordered
      <4> QED
        BY <2>1, <3>1, <3>2, <4>2
    <3>6. j - 1 \in 1..Len(link') /\ (j - 1) + 1 = j
      BY <1>1, <3>5
    <3>7. link'[j - 1].blob = k
      BY <1>1, <3>1, <3>6
    <3> QED
      BY <3>6, <3>7 DEF OnTheWay
  <2>3. Blobs \subseteq Nat
    BY SfpConstants
  <2>4. blob \in Nat
    BY SfpConstants DEF SfpType
  <2>5. \A k \in Blobs : link'[i].blob < k /\ Through(k) /\ k \notin spoilt' => OnTheWay(k)
    BY <2>1 DEF Stream, NoGap
  <2>6. link'[i].blob < blob /\ count > 0 => OnTheWay(blob)
    BY <2>1 DEF Stream, NoGap
  <2>7. link'[i].blob < blob /\ count > 0 => OnTheWay(blob)'
    <3>1. PICK k : k = blob
      OBVIOUS
    <3>2. k \in Nat /\ (link'[i].blob < k /\ count > 0 => OnTheWay(k))
      BY <2>4, <2>6, <3>1
    <3>3. link'[i].blob < k /\ count > 0 => OnTheWay(k)'
      BY <2>2, <3>2
    <3> QED
      BY <3>1, <3>3 DEF OnTheWay
  <2> QED
    BY <2>2, <2>3, <2>5, <2>7
<1>7. blob = 0 => link' = <<>> /\ count = 0
  BY DEF Stream
<1> QED
  BY <1>3, <1>4, <1>5, <1>6, <1>7 DEF Stream

\* What comes after a fragment: the next fragment of its blob, or the beginning
\* of another blob; and if the blob before that one is unspoilt, it ends here.
LEMMA AfterHead ==
  ASSUME SfpType, Stream, link # <<>>, NEW p, p = link[1], p.frag, link' = Tail(link),
         UNCHANGED <<blob, count, sending>>, NEW b, NEW c,
         \/ \E i \in 1..Len(link') : FirstLeft(i)' /\ b = link'[i].blob /\ c = link'[i].offset
         \/ NoneLeft' /\ b = blob /\ c = count
  PROVE  /\ b \in Blobs /\ c \in Nat
         /\ c = 0 => /\ b > p.blob
                     /\ b - 1 \notin spoilt => b - 1 = p.blob /\ End(p) = BlobSize[p.blob]
         /\ c > 0 /\ b \notin spoilt => b = p.blob /\ c = End(p)
<1>1. /\ Len(link) \in Nat /\ Len(link) > 0 /\ Len(link') = Len(link) - 1
      /\ \A i \in 1..Len(link') : link'[i] = link[i + 1]
      /\ link' = <<>> <=> Len(link) = 1
  BY TailOfLink
<1>2. /\ 1 \in 1..Len(link) /\ p.blob \in Blobs /\ p.blob \in Nat /\ p.offset \in Nat
      /\ p.total = BlobSize[p.blob] /\ p.total \in Nat
      /\ End(p) \in Nat /\ End(p) > 0 /\ End(p) <= p.total
  <2>1. 1 \in 1..Len(link)
    BY <1>1
  <2>2. /\ p.blob \in Blobs /\ p.blob \in Nat /\ p.offset \in Nat
        /\ p.total = BlobSize[p.blob] /\ p.total \in Nat
        /\ End(p) \in Nat /\ End(p) > p.offset /\ End(p) <= p.total
    BY <2>1, LinkFacts
  <2> QED
    BY <2>1, <2>2
<1>3. \A k \in Blobs : p.blob < k /\ Through(k) /\ k \notin spoilt => OnTheWay(k)
  BY <1>2 DEF Stream, NoGap
<1>4. p.blob < blob /\ count > 0 => OnTheWay(blob)
  BY <1>2 DEF Stream, NoGap
<1>5. ASSUME NEW k \in Nat, p.blob < k, OnTheWay(k)
      PROVE  \E j \in 1..Len(link') : link'[j].frag /\ link'[j].blob = k
  <2>1. PICK j \in 1..Len(link) : link[j].blob = k
    BY <1>5 DEF OnTheWay
  <2>2. j # 1 /\ link[j].frag
    BY <1>2, <1>5, <2>1, LinkFacts
  <2>3. j - 1 \in 1..Len(link') /\ (j - 1) + 1 = j
    BY <1>1, <2>2
  <2>4. link'[j - 1] = link[j]
    BY <1>1, <2>3
  <2> QED
    BY <2>1, <2>2, <2>3, <2>4
\* Who follows an unfinished head that is unspoilt.
<1>6. p.blob \notin spoilt /\ Unfinished(p) =>
        \/ 1 \in 1..Len(link') /\ link'[1].frag /\ link'[1].blob = p.blob
        \/ link' = <<>> /\ sending /\ blob = p.blob
  <2> SUFFICES ASSUME p.blob \notin spoilt, Unfinished(p)
               PROVE  \/ 1 \in 1..Len(link') /\ link'[1].frag /\ link'[1].blob = p.blob
                      \/ link' = <<>> /\ sending /\ blob = p.blob
    OBVIOUS
  <2>1. CASE Len(link) = 1
    BY <1>1, <2>1 DEF Stream, Complete
  <2>2. CASE Len(link) # 1
    <3>1. 1 \in 1..Len(link) - 1 /\ 1 \in 1..Len(link') /\ link'[1] = link[1 + 1]
      BY <1>1, <2>2
    <3> QED
      BY <3>1 DEF Stream, Complete
  <2> QED
    BY <2>1, <2>2
<1>7. ~Unfinished(p) => End(p) = BlobSize[p.blob]
  BY <1>2 DEF Unfinished
<1>8. CASE \E i \in 1..Len(link') : FirstLeft(i)' /\ b = link'[i].blob /\ c = link'[i].offset
  <2>1. PICK i \in 1..Len(link') : FirstLeft(i)' /\ b = link'[i].blob /\ c = link'[i].offset
    BY <1>8
  <2>2. link'[i].frag /\ \A j \in 1..i - 1 : ~link'[j].frag
    BY <2>1 DEF FirstLeft
  <2>3. i + 1 \in 1..Len(link) /\ link'[i] = link[i + 1] /\ 1 < i + 1
    BY <1>1
  <2>4. b \in Blobs /\ c \in Nat /\ b \in Nat
    BY <2>1, <2>2, <2>3, LinkFacts
  <2>5. p.blob <= b /\ (p.blob = b => End(p) <= c) /\ b <= blob
    BY <1>2, <2>1, <2>2, <2>3 DEF Stream, Ordered
  <2>6. ASSUME c = 0
        PROVE  b > p.blob
    BY <1>2, <2>4, <2>5, <2>6
  <2>7. ASSUME c = 0, b - 1 \notin spoilt
        PROVE  b - 1 = p.blob /\ End(p) = BlobSize[p.blob]
    <3>1. b - 1 = p.blob
      <4> SUFFICES ASSUME b - 1 # p.blob PROVE FALSE
        OBVIOUS
      <4>1. b - 1 \in Nat /\ p.blob < b - 1 /\ b - 1 \in Blobs /\ b - 1 < blob
        <5>1. b > p.blob /\ b <= blob /\ blob \in Nat /\ p.blob >= 1 /\ b <= Len(BlobSize)
          BY <1>2, <2>4, <2>5, <2>6, <2>7, SfpConstants DEF SfpType
        <5>2. b - 1 \in Nat /\ p.blob < b - 1 /\ b - 1 < blob /\ b - 1 \in 1..Len(BlobSize)
          BY <1>2, <2>4, <5>1, SfpConstants, SMTT(40)
        <5> QED
          BY <5>2, SfpConstants
      <4>2. OnTheWay(b - 1)
        BY <1>3, <2>7, <4>1 DEF Through
      <4>3. PICK k : k = b - 1
        OBVIOUS
      <4>4. k \in Nat /\ p.blob < k /\ OnTheWay(k)
        BY <4>1, <4>2, <4>3
      <4>5. PICK j \in 1..Len(link') : link'[j].frag /\ link'[j].blob = k
        BY <1>5, <4>4
      <4>6. j \notin 1..i - 1
        BY <2>2, <4>5
      <4>7. j # i
        BY <2>1, <2>4, <4>3, <4>5
      <4>8. i < j
        BY <1>1, <4>6, <4>7
      <4>9. j + 1 \in 1..Len(link) /\ i + 1 < j + 1 /\ link'[j] = link[j + 1]
        BY <1>1, <4>8
      <4>10. link[i + 1].blob <= link[j + 1].blob
        BY <2>2, <2>3, <4>5, <4>9 DEF Stream, Ordered
      <4> QED
        BY <2>1, <2>3, <2>4, <4>3, <4>5, <4>9, <4>10
    <3>2. ~Unfinished(p)
      <4> SUFFICES ASSUME Unfinished(p) PROVE FALSE
        OBVIOUS
      <4>1. 1 \in 1..Len(link') /\ link'[1].frag /\ link'[1].blob = p.blob
        BY <1>1, <1>6, <2>3, <2>7, <3>1
      <4>2. i = 1
        <5>1. 1 \notin 1..i - 1
          BY <2>2, <4>1
        <5> QED
          BY <1>1, <5>1
      <4> QED
        BY <2>1, <2>6, <2>7, <4>1, <4>2, <1>2
    <3> QED
      BY <1>7, <3>1, <3>2
  <2>8. ASSUME c > 0
        PROVE  b = p.blob /\ c = End(p)
    <3>1. i \in 1..Len(link) - 1
      BY <1>1
    <3>2. Follows(link[i], b, c)
      BY <2>1, <2>2, <2>3, <3>1 DEF Stream, Linked
    <3>3. link[i].frag /\ link[i].blob = b /\ End(link[i]) = c
      BY <2>4, <2>8, <3>2 DEF Follows
    <3>4. i = 1
      <4> SUFFICES ASSUME i # 1 PROVE FALSE
        OBVIOUS
      <4>1. i - 1 \in 1..Len(link') /\ (i - 1) + 1 = i /\ i - 1 \in 1..i - 1
        BY <1>1
      <4>2. link'[i - 1] = link[i]
        BY <1>1, <4>1
      <4> QED
        BY <2>2, <3>3, <4>1, <4>2
    <3> QED
      BY <3>3, <3>4
  <2> QED
    BY <2>4, <2>6, <2>7, <2>8
<1>9. CASE NoneLeft' /\ b = blob /\ c = count
  <2>1. \A j \in 1..Len(link') : ~link'[j].frag
    BY <1>9 DEF NoneLeft
  <2>2. p.blob <= blob /\ (p.blob = blob => End(p) <= count)
    BY <1>2 DEF Stream, Ordered
  <2>3. b \in Blobs /\ c \in Nat /\ b \in Nat
    BY <1>2, <1>9, <2>2, SfpConstants DEF SfpType
  <2>4. ASSUME c = 0 PROVE b > p.blob
    BY <1>2, <1>9, <2>2, <2>3, <2>4
  <2>5. ASSUME NEW k \in Nat, p.blob < k, OnTheWay(k) PROVE FALSE
    BY <1>5, <2>1, <2>5
  <2>6. ASSUME c = 0, b - 1 \notin spoilt
        PROVE  b - 1 = p.blob /\ End(p) = BlobSize[p.blob]
    <3>1. b - 1 = p.blob
      <4> SUFFICES ASSUME b - 1 # p.blob PROVE FALSE
        OBVIOUS
      <4>1. b - 1 \in Nat /\ p.blob < b - 1 /\ b - 1 \in Blobs /\ b - 1 < blob
        BY <1>2, <1>9, <2>3, <2>4, <2>6, SfpConstants
      <4>2. OnTheWay(b - 1)
        BY <1>3, <2>6, <4>1 DEF Through
      <4>3. PICK k : k = b - 1
        OBVIOUS
      <4>4. k \in Nat /\ p.blob < k /\ OnTheWay(k)
        BY <4>1, <4>2, <4>3
      <4> QED
        BY <2>5, <4>4
    <3>2. ~Unfinished(p)
      <4> SUFFICES ASSUME Unfinished(p) PROVE FALSE
        OBVIOUS
      <4>1. b > p.blob /\ p.blob \notin spoilt
        BY <2>4, <2>6, <3>1
      <4>2. blob # p.blob
        BY <1>2, <1>9, <2>3, <4>1
      <4>3. 1 \in 1..Len(link') /\ link'[1].frag
        BY <1>6, <4>1, <4>2
      <4> QED
        BY <2>1, <4>3
    <3> QED
      BY <1>7, <3>1, <3>2
  <2>7. ASSUME c > 0, b \notin spoilt
        PROVE  b = p.blob /\ c = End(p)
    <3>1. b = p.blob
      <4> SUFFICES ASSUME p.blob < b PROVE FALSE
        BY <1>2, <1>9, <2>2, <2>3
      <4>1. OnTheWay(b)
        BY <1>4, <1>9, <2>7
      <4> QED
        BY <2>3, <2>5, <4>1
    <3>2. CASE Unfinished(p)
      <4>1. Len(link) = 1
        BY <1>1, <1>6, <2>1, <2>7, <3>1, <3>2
      <4> QED
        BY <1>1, <1>9, <2>7, <3>1, <3>2, <4>1 DEF Stream, Complete
    <3>3. CASE ~Unfinished(p)
      <4>1. End(p) = BlobSize[b] /\ End(p) <= c
        BY <1>7, <1>9, <2>2, <3>1, <3>3
      <4>2. sending => c < BlobSize[b]
        BY <1>9 DEF SfpType
      <4>3. ~sending => c = BlobSize[b]
        BY <1>9, <2>3, <2>7 DEF Stream, Complete
      <4> QED
        BY <1>2, <2>3, <3>1, <4>1, <4>2, <4>3
    <3> QED
      BY <3>1, <3>2, <3>3
  <2> QED
    BY <2>3, <2>4, <2>6, <2>7
<1> QED
  BY <1>8, <1>9

\* The first fragment when there is one in front.
LEMMA HeadIsFirst ==
  ASSUME SfpType, InPlace, link # <<>>, link[1].frag
  PROVE  Ready(link[1].blob, link[1].offset)
<1>1. 1 \in 1..Len(link) /\ FirstLeft(1)
  BY TailOfLink DEF FirstLeft
<1> QED
  BY <1>1 DEF InPlace

\* To show that the receiver has what it should, for all that may come next.
LEMMA InPlaceAfter ==
  ASSUME \A b, c : (\/ \E i \in 1..Len(link') :
                         FirstLeft(i)' /\ b = link'[i].blob /\ c = link'[i].offset
                    \/ NoneLeft' /\ b = blob' /\ c = count')
                     => Ready(b, c)'
  PROVE  InPlace'
<1>1. ASSUME NEW i \in 1..Len(link'), FirstLeft(i)' PROVE Ready(link[i].blob, link[i].offset)'
  <2>1. PICK b, c : b = link'[i].blob /\ c = link'[i].offset
    OBVIOUS
  <2>2. Ready(b, c)'
    BY <1>1, <2>1
  <2> QED
    BY <2>1, <2>2 DEF Ready, Has
<1>2. ASSUME NoneLeft' PROVE Ready(blob, count)'
  <2>1. PICK b, c : b = blob' /\ c = count'
    OBVIOUS
  <2>2. Ready(b, c)'
    BY <1>2, <2>1
  <2> QED
    BY <2>1, <2>2 DEF Ready, Has
<1> QED
  BY <1>1, <1>2 DEF InPlace

\* A fragment that is the next of an unspoilt blob after an unspoilt one is taken.
LEMMA NextIsTaken ==
  ASSUME SfpType, NEW p \in Packets, p.frag, Ready(p.blob, p.offset),
         p.blob \notin spoilt, p.blob - 1 \notin spoilt
  PROVE  Consistent(p)
<1>1. /\ p.offset \in Nat /\ p.blob \in Blobs
      /\ p.total = BlobSize[p.blob] /\ p.total \in Nat /\ p.total > 0
      /\ Len(p.bytes) \in Nat /\ End(p) > p.offset /\ End(p) <= p.total
      /\ End(p) = p.offset + Len(p.bytes)
  BY PacketIsPiece, SfpConstants DEF End
<1>2. p.offset < p.total /\ p.offset <= p.total
  BY <1>1
<1>3. datasize \in Nat /\ (datasize = 0 <=> data = <<>>) /\ Len(<<>>) = 0
  BY DEF SfpType
<1>4. CASE p.offset = 0
  <2>1. data = <<>> /\ datasize = 0 /\ Len(data) = 0
    BY <1>3, <1>4 DEF Ready
  <2> QED
    BY <1>1, <1>2, <1>4, <2>1 DEF Consistent, Expected, HasHeader, SizesAgree
<1>5. CASE p.offset # 0
  <2>1. Len(data) = p.offset /\ datasize = p.total
    BY <1>1, <1>2, <1>5 DEF Ready, Has
  <2> QED
    BY <1>1, <1>2, <2>1 DEF Consistent, Expected, HasHeader, SizesAgree
<1> QED
  BY <1>4, <1>5

\* A fragment that is taken for an unspoilt blob goes on where the blob's bytes end.
LEMMA TakenGoesOn ==
  ASSUME SfpType, NEW p \in Packets, p.frag, Ready(p.blob, p.offset),
         p.blob \notin spoilt, Consistent(p), NEW all, all = data \o p.bytes
  PROVE  /\ all \in Seq(Contents) /\ Len(all) = End(p)
         /\ \A i \in 1..Len(all) : all[i] = Byte(p.blob, i - 1)
         /\ End(p) = BlobSize[p.blob] => all = Content(p.blob)
<1>1. p.offset = Len(data)
  BY DEF Consistent, Expected
<1>2. /\ p.offset \in Nat /\ p.blob \in Blobs /\ p.bytes \in Seq(Contents)
      /\ p.total = BlobSize[p.blob] /\ p.total \in Nat
      /\ Len(p.bytes) \in Nat /\ Len(p.bytes) > 0
      /\ End(p) \in Nat /\ End(p) > p.offset /\ End(p) <= p.total
      /\ \A i \in 1..Len(p.bytes) : p.bytes[i] = Byte(p.blob, p.offset + i - 1)
  BY PacketIsPiece
<1>3. data \in Seq(Contents) /\ Len(data) \in Nat
  BY DEF SfpType
<1>4. /\ all \in Seq(Contents) /\ Len(all) = Len(data) + Len(p.bytes)
      /\ \A i \in 1..Len(all) :
           all[i] = IF i <= Len(data) THEN data[i] ELSE p.bytes[i - Len(data)]
  BY <1>2, <1>3
<1>5. \A i \in 1..Len(data) : data[i] = Byte(p.blob, i - 1)
  <2>1. CASE p.offset = 0
    BY <1>1, <2>1
  <2>2. CASE p.offset # 0
    <3>1. p.offset > 0 /\ p.offset < BlobSize[p.blob] /\ data # <<>>
      BY <1>1, <1>2, <2>2
    <3> QED
      BY <1>1, <3>1 DEF Ready, Has
  <2> QED
    BY <2>1, <2>2
<1>6. \A i \in 1..Len(all) : all[i] = Byte(p.blob, i - 1)
  <2> SUFFICES ASSUME NEW i \in 1..Len(all) PROVE all[i] = Byte(p.blob, i - 1)
    OBVIOUS
  <2>1. CASE i <= Len(data)
    BY <1>3, <1>4, <1>5, <2>1
  <2>2. CASE i > Len(data)
    <3>1. i - Len(data) \in 1..Len(p.bytes) /\ all[i] = p.bytes[i - Len(data)]
      BY <1>2, <1>3, <1>4, <2>2
    <3>2. p.offset + (i - Len(data)) - 1 = i - 1
      BY <1>1, <1>3
    <3> QED
      BY <1>2, <3>1, <3>2
  <2> QED
    BY <1>3, <1>4, <2>1, <2>2
<1>7. Len(all) = End(p)
  BY <1>1, <1>4 DEF End
<1>8. ASSUME End(p) = BlobSize[p.blob] PROVE all = Content(p.blob)
  <2>1. Len(all) = BlobSize[p.blob]
    BY <1>7, <1>8
  <2>2. all = [i \in 1..Len(all) |-> all[i]]
    BY <1>4
  <2> QED
    BY <1>6, <2>1, <2>2 DEF Content
<1> QED
  BY <1>4, <1>6, <1>7, <1>8

\* Of which blobs the receiver has seen the last: after an unspoilt one is passed
\* nothing of it is on the way.
LEMMA LastPasses ==
  ASSUME SfpType, Stream, link # <<>>, NEW p, p = link[1], link' = Tail(link),
         NEW n \in Blobs, Through(n), n \notin spoilt, OnTheWay(n), ~OnTheWay(n)'
  PROVE  p.frag /\ p.blob = n /\ End(p) = BlobSize[n]
<1>1. /\ Len(link) \in Nat /\ Len(link) > 0 /\ Len(link') = Len(link) - 1
      /\ \A i \in 1..Len(link') : link'[i] = link[i + 1]
      /\ 1 \in 1..Len(link)
  BY TailOfLink
<1>2. PICK j \in 1..Len(link) : link[j].blob = n
  BY DEF OnTheWay
<1>3. j = 1
  <2> SUFFICES ASSUME j # 1 PROVE FALSE
    OBVIOUS
  <2>1. j - 1 \in 1..Len(link') /\ (j - 1) + 1 = j
    BY <1>1
  <2>2. link'[j - 1].blob = n
    BY <1>1, <1>2, <2>1
  <2> QED
    BY <2>1, <2>2 DEF OnTheWay
<1>4. p.blob = n /\ p.frag
  BY <1>1, <1>2, <1>3, LinkFacts, SfpConstants
<1>5. /\ End(p) \in Nat /\ End(p) <= p.total /\ p.total = BlobSize[n] /\ p.total \in Nat
  BY <1>1, <1>4, LinkFacts
<1>6. ~Unfinished(p)
  <2> SUFFICES ASSUME Unfinished(p) PROVE FALSE
    OBVIOUS
  <2>1. CASE Len(link) = 1
    BY <1>1, <1>4, <2>1, SfpConstants DEF Stream, Complete, Through
  <2>2. CASE Len(link) # 1
    <3>1. 1 \in 1..Len(link) - 1 /\ 1 \in 1..Len(link') /\ link'[1] = link[1 + 1]
      BY <1>1, <2>2
    <3>2. link'[1].blob = n
      BY <1>4, <3>1 DEF Stream, Complete
    <3> QED
      BY <3>1, <3>2 DEF OnTheWay
  <2> QED
    BY <2>1, <2>2
<1> QED
  BY <1>4, <1>5, <1>6 DEF Unfinished

\* A packet without a header is followed by the beginning of a blob.
LEMMA AfterPlain ==
  ASSUME SfpType, Stream, link # <<>>, ~link[1].frag, link' = Tail(link),
         UNCHANGED <<blob, count, sending>>, NEW b, NEW c,
         \/ \E i \in 1..Len(link') : FirstLeft(i)' /\ b = link'[i].blob /\ c = link'[i].offset
         \/ NoneLeft' /\ b = blob /\ c = count
  PROVE  /\ InPlace => Ready(b, c)
         /\ c \in Nat
         /\ c > 0 /\ b \notin spoilt => c = BlobSize[b]
<1>1. /\ Len(link) \in Nat /\ Len(link) > 0 /\ Len(link') = Len(link) - 1
      /\ \A i \in 1..Len(link') : link'[i] = link[i + 1]
      /\ link' = <<>> <=> Len(link) = 1
  BY TailOfLink
<1>2. CASE \E i \in 1..Len(link') : FirstLeft(i)' /\ b = link'[i].blob /\ c = link'[i].offset
  <2>1. PICK i \in 1..Len(link') : FirstLeft(i)' /\ b = link'[i].blob /\ c = link'[i].offset
    BY <1>2
  <2>2. link'[i].frag /\ \A j \in 1..i - 1 : ~link'[j].frag
    BY <2>1 DEF FirstLeft
  <2>3. i + 1 \in 1..Len(link) /\ i \in 1..Len(link) - 1 /\ link'[i] = link[i + 1]
    BY <1>1
  <2>4. \A j \in 1..(i + 1) - 1 : ~link[j].frag
    <3> SUFFICES ASSUME NEW j \in 1..(i + 1) - 1 PROVE ~link[j].frag
      OBVIOUS
    <3>1. CASE j = 1
      BY <3>1
    <3>2. CASE j # 1
      <4>1. j - 1 \in 1..i - 1 /\ j - 1 \in 1..Len(link') /\ (j - 1) + 1 = j
        BY <1>1, <2>3, <3>2
      <4>2. link'[j - 1] = link[j]
        BY <1>1, <4>1
      <4> QED
        BY <2>2, <4>1, <4>2
    <3> QED
      BY <3>1, <3>2
  <2>5. FirstLeft(i + 1)
    BY <2>2, <2>3, <2>4 DEF FirstLeft
  <2>6. ~link[i].frag
    <3>1. i \in 1..(i + 1) - 1
      BY <1>1
    <3> QED
      BY <2>4, <3>1
  <2>7. c = 0
    BY <2>1, <2>2, <2>3, <2>6 DEF Stream, Linked, Follows
  <2> QED
    BY <2>1, <2>3, <2>5, <2>7 DEF InPlace
<1>3. CASE NoneLeft' /\ b = blob /\ c = count
  <2>1. NoneLeft
    <3> SUFFICES ASSUME NEW j \in 1..Len(link), link[j].frag PROVE FALSE
      BY DEF NoneLeft
    <3>1. j # 1
      OBVIOUS
    <3>2. j - 1 \in 1..Len(link') /\ (j - 1) + 1 = j
      BY <1>1, <3>1
    <3>3. link'[j - 1] = link[j]
      BY <1>1, <3>2
    <3> QED
      BY <1>3, <3>2, <3>3 DEF NoneLeft
  <2>2. ASSUME c > 0, b \notin spoilt PROVE c = BlobSize[b]
    <3>1. ~sending
      <4> SUFFICES ASSUME sending PROVE FALSE
        OBVIOUS
      <4>1. Follows(link[Len(link)], blob, count)
        BY DEF Stream, Linked
      <4>2. ~link[Len(link)].frag
        BY <1>1, <2>1 DEF NoneLeft
      <4> QED
        BY <1>3, <2>2, <4>1, <4>2 DEF Follows
    <3>2. blob \in Blobs
      BY <1>3, <2>2, SfpConstants DEF Stream, SfpType
    <3> QED
      BY <1>3, <2>2, <3>1, <3>2 DEF Stream, Complete
  <2>3. c \in Nat
    BY <1>3 DEF SfpType
  <2> QED
    BY <1>3, <2>1, <2>2, <2>3 DEF InPlace
<1> QED
  BY <1>2, <1>3

LEMMA ReturnedKept ==
  ASSUME SfpType, NEW w, returned' = returned \/ returned' = Append(returned, w), NEW n,
         \/ \E k \in 1..Len(returned) : returned[k] = Content(n)
         \/ returned' = Append(returned, w) /\ w = Content(n)
  PROVE  \E k \in 1..Len(returned') : returned'[k] = Content(n)
<1>1. CASE returned' = returned /\ \E k \in 1..Len(returned) : returned[k] = Content(n)
  BY <1>1
<1>2. CASE returned' = Append(returned, w)
  <2>1. PICK S : S = Seq(Contents) \cup {w}
    OBVIOUS
  <2>2. returned \in Seq(S) /\ w \in S
    <3>1. returned \in Seq(Seq(Contents)) /\ Seq(Contents) \subseteq S
      BY <2>1 DEF SfpType
    <3> QED
      BY <2>1, <3>1
  <2>3. /\ Len(returned') = Len(returned) + 1 /\ Len(returned) \in Nat
        /\ returned'[Len(returned) + 1] = w
        /\ \A k \in 1..Len(returned) : returned'[k] = returned[k]
    BY <1>2, <2>2, AppendProperties
  <2>4. CASE w = Content(n)
    <3>1. Len(returned) + 1 \in 1..Len(returned')
      BY <2>3
    <3> QED
      BY <2>3, <2>4, <3>1
  <2>5. CASE \E k \in 1..Len(returned) : returned[k] = Content(n)
    <3>1. PICK k \in 1..Len(returned) : returned[k] = Content(n)
      BY <2>5
    <3>2. k \in 1..Len(returned') /\ returned'[k] = Content(n)
      BY <2>3, <3>1
    <3> QED
      BY <3>2
  <2> QED
    BY <2>4, <2>5
<1> QED
  BY <1>1, <1>2

\* That BlobsResync is kept takes only to look at what has been passed just now.
LEMMA ResyncAfter ==
  ASSUME SfpType, BlobsResync, NEW w, returned' = returned \/ returned' = Append(returned, w),
         spoilt \subseteq spoilt',
         \A n \in Blobs :
           Through(n)' /\ ~OnTheWay(n)' /\ n \notin spoilt' /\ n - 1 \notin spoilt' =>
             \/ Through(n) /\ ~OnTheWay(n)
             \/ returned' = Append(returned, w) /\ w = Content(n)
  PROVE  BlobsResync'
<1> SUFFICES ASSUME NEW n \in Blobs,
                    Through(n)', ~OnTheWay(n)', n \notin spoilt', n - 1 \notin spoilt'
             PROVE  \E k \in 1..Len(returned') : returned'[k] = Content(n)
  BY DEF BlobsResync, Content, Byte
<1>1. \/ \E k \in 1..Len(returned) : returned[k] = Content(n)
      \/ returned' = Append(returned, w) /\ w = Content(n)
  BY DEF BlobsResync
<1> QED
  BY <1>1, ReturnedKept

LEMMA ResyncTake == ASSUME SfpType, ResyncInv, SfpTake PROVE ResyncInv'
<1>1. PICK p, all : p = link[1] /\ all = data \o p.bytes
  OBVIOUS
<1>2. /\ link # <<>> /\ link' = Tail(link) /\ Consistent(p)
      /\ UNCHANGED <<blob, count, sending, spoilt>>
      /\ \/ Len(all) >= p.total /\ returned' = Append(returned, all) /\ data' = <<>>
         \/ ~(Len(all) >= p.total) /\ data' = all /\ datasize' = p.total /\ returned' = returned
  BY <1>1, TailOfLink DEF SfpTake, sendVars
<1>3. Stream /\ InPlace /\ BlobsResync /\ spoilt \subseteq Nat
  BY DEF ResyncInv, Stream
<1>4. p \in Packets /\ p.frag
  BY <1>1, <1>2, TailOfLink DEF Consistent, Expected, HasHeader
<1>5. /\ p.total = BlobSize[p.blob] /\ p.total \in Nat /\ p.offset = Len(data)
      /\ End(p) \in Nat /\ End(p) <= p.total /\ Len(all) = End(p)
  <2>1. /\ p.total = BlobSize[p.blob] /\ p.total \in Nat /\ p.bytes \in Seq(Contents)
        /\ End(p) \in Nat /\ End(p) <= p.total
    BY <1>4, PacketIsPiece
  <2>2. p.offset = Len(data) /\ data \in Seq(Contents)
    BY <1>2 DEF Consistent, Expected, SfpType
  <2>3. Len(all) = Len(data) + Len(p.bytes)
    BY <1>1, <2>1, <2>2
  <2> QED
    BY <2>1, <2>2, <2>3 DEF End
<1>6. Ready(p.blob, p.offset)
  BY <1>1, <1>2, <1>3, <1>4, HeadIsFirst
<1>7. Stream'
  BY <1>2, <1>3, TailStream
<1>8. ASSUME p.blob \notin spoilt
      PROVE  /\ \A i \in 1..Len(all) : all[i] = Byte(p.blob, i - 1)
             /\ End(p) = BlobSize[p.blob] => all = Content(p.blob)
  BY <1>1, <1>2, <1>4, <1>6, <1>8, TakenGoesOn, ZenonT(60)
<1>9. End(p) = BlobSize[p.blob] => returned' = Append(returned, all) /\ data' = <<>>
  BY <1>2, <1>5
<1>10. ASSUME NEW b, NEW c,
              \/ \E i \in 1..Len(link') :
                   FirstLeft(i)' /\ b = link'[i].blob /\ c = link'[i].offset
              \/ NoneLeft' /\ b = blob' /\ c = count'
       PROVE  Ready(b, c)'
  <2>1. /\ b \in Blobs /\ c \in Nat
        /\ c = 0 /\ b - 1 \notin spoilt => End(p) = BlobSize[p.blob]
        /\ c > 0 /\ b \notin spoilt => b = p.blob /\ c = End(p)
    BY <1>1, <1>2, <1>3, <1>4, <1>10, AfterHead
  <2>2. c = 0 /\ b - 1 \notin spoilt' => data' = <<>>
    BY <1>2, <1>9, <2>1
  <2>3. ASSUME c > 0, b \notin spoilt', c = BlobSize[b] PROVE data' = <<>>
    BY <1>2, <1>9, <2>1, <2>3
  <2>4. ASSUME c > 0, b \notin spoilt', c < BlobSize[b] PROVE Has(b, c)'
    <3>1. b = p.blob /\ c = End(p) /\ ~(Len(all) >= p.total)
      BY <1>2, <1>5, <2>1, <2>4
    <3>2. data' = all /\ datasize' = p.total /\ Len(all) = c
      BY <1>2, <1>5, <3>1
    <3>3. \A i \in 1..c : data'[i] = Byte(b, i - 1)
      BY <1>2, <1>8, <2>4, <3>1, <3>2
    <3> QED
      BY <1>5, <3>1, <3>2, <3>3 DEF Has, Byte
  <2> QED
    BY <2>2, <2>3, <2>4 DEF Ready
<1>11. InPlace'
  BY <1>10, InPlaceAfter
<1>12. BlobsResync'
  <2>1. ASSUME NEW n \in Blobs,
               Through(n)', ~OnTheWay(n)', n \notin spoilt', n - 1 \notin spoilt'
        PROVE  \/ Through(n) /\ ~OnTheWay(n)
               \/ returned' = Append(returned, all) /\ all = Content(n)
    <3>1. Through(n)
      BY <1>2, <2>1 DEF Through
    <3>2. OnTheWay(n) => p.blob = n /\ End(p) = BlobSize[n]
      BY <1>1, <1>2, <1>3, <2>1, <3>1, LastPasses
    <3> QED
      BY <1>2, <1>8, <1>9, <2>1, <3>1, <3>2
  <2>2. returned' = returned \/ returned' = Append(returned, all)
    BY <1>2
  <2> QED
    BY <1>2, <1>3, <2>1, <2>2, ResyncAfter
<1> QED
  BY <1>7, <1>11, <1>12 DEF ResyncInv

LEMMA ResyncReject == ASSUME SfpType, ResyncInv, SfpReject PROVE ResyncInv'
<1>1. PICK p : p = link[1]
  OBVIOUS
<1>2. /\ link # <<>> /\ link' = Tail(link) /\ ~Consistent(p) /\ data' = <<>>
      /\ UNCHANGED <<blob, count, sending, spoilt, returned>>
  BY <1>1, TailOfLink DEF SfpReject, GiveUp, sendVars
<1>3. Stream /\ InPlace /\ BlobsResync /\ spoilt \subseteq Nat
  BY DEF ResyncInv, Stream
<1>4. p \in Packets
  BY <1>1, <1>2, TailOfLink
<1>5. Stream'
  BY <1>2, <1>3, TailStream
<1>6. p.frag => p.blob \in spoilt \/ p.blob - 1 \in spoilt
  <2> SUFFICES ASSUME p.frag, p.blob \notin spoilt, p.blob - 1 \notin spoilt PROVE FALSE
    OBVIOUS
  <2>1. Ready(p.blob, p.offset)
    BY <1>1, <1>2, <1>3, HeadIsFirst
  <2> QED
    BY <1>2, <1>4, <2>1, NextIsTaken
<1>7. ASSUME NEW b, NEW c,
             \/ \E i \in 1..Len(link') :
                  FirstLeft(i)' /\ b = link'[i].blob /\ c = link'[i].offset
             \/ NoneLeft' /\ b = blob' /\ c = count'
      PROVE  Ready(b, c)'
  <2>1. ASSUME c > 0, b \notin spoilt', c < BlobSize[b] PROVE b - 1 \in spoilt'
    <3>1. CASE p.frag
      <4>1. b = p.blob
        BY <1>1, <1>2, <1>3, <1>7, <2>1, <3>1, AfterHead
      <4> QED
        BY <1>2, <1>6, <2>1, <3>1, <4>1
    <3>2. CASE ~p.frag
      <4>1. c \in Nat /\ c = BlobSize[b]
        BY <1>1, <1>2, <1>3, <1>7, <2>1, <3>2, AfterPlain
      <4> QED
        BY <2>1, <4>1
    <3> QED
      BY <3>1, <3>2
  <2> QED
    BY <1>2, <2>1 DEF Ready
<1>8. InPlace'
  BY <1>7, InPlaceAfter
<1>9. BlobsResync'
  <2>1. ASSUME NEW n \in Blobs,
               Through(n)', ~OnTheWay(n)', n \notin spoilt', n - 1 \notin spoilt'
        PROVE  Through(n) /\ ~OnTheWay(n)
    <3>1. Through(n)
      BY <1>2, <2>1 DEF Through
    <3>2. OnTheWay(n) => p.frag /\ p.blob = n
      BY <1>1, <1>2, <1>3, <2>1, <3>1, LastPasses
    <3> QED
      BY <1>2, <1>6, <2>1, <3>1, <3>2
  <2> QED
    BY <1>2, <1>3, <2>1, ResyncAfter
<1> QED
  BY <1>5, <1>8, <1>9 DEF ResyncInv

\* A fragment is lost on its way, or for lack of memory.
LEMMA ResyncLose == ASSUME SfpType, ResyncInv, SfpLose \/ SfpNoMemory PROVE ResyncInv'
<1>1. PICK p : p = link[1]
  OBVIOUS
<1>2. /\ link # <<>> /\ link' = Tail(link) /\ spoilt' = spoilt \cup {p.blob}
      /\ UNCHANGED <<blob, count, sending, data, datasize, returned>>
  BY <1>1, TailOfLink DEF SfpLose, SfpNoMemory, sendVars, recvVars
<1>3. Stream /\ InPlace /\ BlobsResync /\ spoilt \subseteq Nat
  BY DEF ResyncInv, Stream
<1>4. spoilt \subseteq spoilt' /\ spoilt' \subseteq Nat
  <2>1. p.blob \in Nat
    BY <1>1, <1>2, TailOfLink, LinkFacts
  <2> QED
    BY <1>2, <1>3, <2>1
<1>5. Stream'
  BY <1>2, <1>3, <1>4, TailStream
<1>6. ASSUME NEW b, NEW c,
             \/ \E i \in 1..Len(link') :
                  FirstLeft(i)' /\ b = link'[i].blob /\ c = link'[i].offset
             \/ NoneLeft' /\ b = blob' /\ c = count'
      PROVE  Ready(b, c)'
  <2>1. CASE p.frag
    <3>1. /\ c = 0 /\ b - 1 \notin spoilt => b - 1 = p.blob
          /\ c > 0 /\ b \notin spoilt => b = p.blob
      BY <1>1, <1>2, <1>3, <1>6, <2>1, AfterHead, ZenonT(60)
    <3>2. ~(c = 0 /\ b - 1 \notin spoilt') /\ ~(c > 0 /\ b \notin spoilt')
      BY <1>2, <3>1
    <3> QED
      BY <3>2 DEF Ready
  <2>2. CASE ~p.frag
    <3>1. Ready(b, c)
      BY <1>1, <1>2, <1>3, <1>6, <2>2, AfterPlain
    <3> QED
      BY <1>2, <1>4, <3>1 DEF Ready, Has
  <2> QED
    BY <2>1, <2>2
<1>7. InPlace'
  BY <1>6, InPlaceAfter
<1>8. BlobsResync'
  <2>1. ASSUME NEW n \in Blobs,
               Through(n)', ~OnTheWay(n)', n \notin spoilt', n - 1 \notin spoilt'
        PROVE  Through(n) /\ ~OnTheWay(n)
    <3>1. Through(n) /\ n \notin spoilt
      BY <1>2, <2>1 DEF Through
    <3>2. OnTheWay(n) => p.blob = n
      BY <1>1, <1>2, <1>3, <2>1, <3>1, LastPasses
    <3> QED
      BY <1>2, <2>1, <3>1, <3>2
  <2> QED
    BY <1>2, <1>3, <1>4, <2>1, ResyncAfter
<1> QED
  BY <1>5, <1>7, <1>8 DEF ResyncInv

\* A call that fails on either side.
LEMMA ResyncTimeout == ASSUME SfpType, ResyncInv, SfpTimeout PROVE ResyncInv'
<1>1. PICK s : s = data[Len(data)][1]
  OBVIOUS
<1>2. /\ data # <<>> /\ data' = <<>> /\ spoilt' = spoilt \cup {s}
      /\ UNCHANGED <<blob, count, sending, link, returned>>
  BY <1>1 DEF SfpTimeout, GiveUp, sendVars, SfpType
<1>3. Stream /\ InPlace /\ BlobsResync /\ spoilt \subseteq Nat
  BY DEF ResyncInv, Stream
<1>4. s \in Nat
  <2>1. data \in Seq(Contents)
    BY DEF SfpType
  <2>2. data[Len(data)] \in Contents
    BY <1>2, <2>1
  <2>3. s \in Blobs
    BY <1>1, <2>2 DEF Contents
  <2> QED
    BY <2>3, SfpConstants
<1>5. Stream'
  BY <1>2, <1>3, <1>4
     DEF Stream, Linked, Follows, End, Complete, Unfinished, Ordered, NoGap, Through, OnTheWay
<1>6. ASSUME NEW b, NEW c,
             \/ \E i \in 1..Len(link') :
                  FirstLeft(i)' /\ b = link'[i].blob /\ c = link'[i].offset
             \/ NoneLeft' /\ b = blob' /\ c = count'
      PROVE  Ready(b, c)'
  <2>1. Ready(b, c)
    BY <1>2, <1>3, <1>6 DEF InPlace, FirstLeft, NoneLeft
  <2>2. ASSUME c > 0, b \notin spoilt', c < BlobSize[b] PROVE FALSE
    <3>1. Has(b, c)
      BY <1>2, <2>1, <2>2 DEF Ready
    <3>2. c \in Nat
      BY <3>1 DEF Has, SfpType
    <3>3. data[Len(data)] = Byte(b, c - 1)
      BY <2>2, <3>1, <3>2 DEF Has
    <3> QED
      BY <1>1, <1>2, <2>2, <3>3 DEF Byte
  <2> QED
    BY <1>2, <2>2 DEF Ready
<1>7. InPlace'
  BY <1>6, InPlaceAfter
<1>8. BlobsResync'
  BY <1>2, <1>3 DEF BlobsResync, Through, OnTheWay, Content, Byte
<1> QED
  BY <1>5, <1>7, <1>8 DEF ResyncInv

LEMMA ResyncSendFails == ASSUME SfpType, ResyncInv, SfpSendFails PROVE ResyncInv'
<1>1. /\ sending /\ sending' = FALSE /\ spoilt' = spoilt \cup {blob}
      /\ UNCHANGED <<blob, count, link, data, datasize, returned>>
  BY DEF SfpSendFails, recvVars
<1>2. Stream /\ InPlace /\ BlobsResync /\ spoilt \subseteq Nat /\ blob \in Nat
  BY SfpConstants DEF ResyncInv, Stream, SfpType
<1>3. \A n \in Blobs : Through(n)' /\ n \notin spoilt' => Through(n) /\ n \notin spoilt
  BY <1>1 DEF Through
<1>4. Linked'
  BY <1>1, <1>2 DEF Stream, Linked, Follows, End
<1>5. Complete'
  BY <1>1, <1>2 DEF Stream, Complete, Unfinished, End
<1>6. Ordered'
  BY <1>1, <1>2 DEF Stream, Ordered, End
<1>7. NoGap'
  BY <1>1, <1>2, <1>3 DEF Stream, NoGap, OnTheWay
<1>8. Stream'
  BY <1>1, <1>2, <1>4, <1>5, <1>6, <1>7 DEF Stream
<1>9. InPlace'
  BY <1>1, <1>2 DEF InPlace, FirstLeft, NoneLeft, Ready, Has
<1>10. BlobsResync'
  BY <1>1, <1>2, <1>3 DEF BlobsResync, OnTheWay, Content, Byte
<1> QED
  BY <1>8, <1>9, <1>10 DEF ResyncInv

\* A new blob: what was sent before is complete or spoilt.
LEMMA ResyncSend == ASSUME SfpType, ResyncInv, SfpSend PROVE ResyncInv'
<1>1. /\ ~sending /\ sending' = TRUE /\ blob' = blob + 1 /\ count' = 0
      /\ UNCHANGED <<link, data, datasize, returned, spoilt>>
  BY DEF SfpSend, recvVars
<1>2. Stream /\ InPlace /\ BlobsResync /\ spoilt \subseteq Nat /\ blob \in Nat
  BY SfpConstants DEF ResyncInv, Stream, SfpType
<1>3. \A n \in Blobs : Through(n)' <=> Through(n)
  <2>1. Blobs \subseteq Nat
    BY SfpConstants
  <2> QED
    BY <1>1, <1>2, <2>1 DEF Through
<1>4. Linked'
  BY <1>1, <1>2 DEF Stream, Linked, Follows, End
<1>5. Complete'
  BY <1>1, <1>2 DEF Stream, Complete, Unfinished, End
<1>6. Ordered'
  <2>1. ASSUME NEW i \in 1..Len(link), link[i].frag PROVE link[i].blob < blob'
    <3>1. link[i].blob <= blob /\ link[i].blob \in Nat
      BY <1>2, <2>1, LinkFacts DEF Stream, Ordered
    <3> QED
      BY <1>1, <1>2, <3>1
  <2>2. \A i \in 1..Len(link) : link[i].frag => link[i].blob \in Nat
    BY LinkFacts
  <2>3. \A i \in 1..Len(link) : link[i].frag =>
          link[i].blob <= blob' /\ (link[i].blob = blob' => End(link[i]) <= count')
    BY <1>1, <1>2, <2>1, <2>2
  <2> QED
    BY <1>1, <1>2, <2>3 DEF Stream, Ordered, End
<1>7. NoGap'
  BY <1>1, <1>2, <1>3 DEF Stream, NoGap, OnTheWay
<1>8. Stream'
  BY <1>1, <1>2, <1>4, <1>5, <1>6, <1>7 DEF Stream
<1>9. ASSUME NEW b, NEW c,
             \/ \E i \in 1..Len(link') :
                  FirstLeft(i)' /\ b = link'[i].blob /\ c = link'[i].offset
             \/ NoneLeft' /\ b = blob' /\ c = count'
      PROVE  Ready(b, c)'
  <2>1. CASE \E i \in 1..Len(link') :
               FirstLeft(i)' /\ b = link'[i].blob /\ c = link'[i].offset
    <3>1. Ready(b, c)
      BY <1>1, <1>2, <2>1 DEF InPlace, FirstLeft
    <3> QED
      BY <1>1, <3>1 DEF Ready, Has
  <2>2. CASE NoneLeft' /\ b = blob' /\ c = count'
    <3>1. Ready(blob, count)
      BY <1>1, <1>2, <2>2 DEF InPlace, NoneLeft
    <3>2. b - 1 = blob /\ c = 0
      BY <1>1, <1>2, <2>2
    <3>3. ASSUME blob \notin spoilt PROVE data = <<>>
      <4>1. CASE blob = 0
        <5>1. count = 0 /\ blob - 1 \notin spoilt
          BY <1>2, <4>1 DEF Stream
        <5> QED
          BY <3>1, <5>1 DEF Ready
      <4>2. CASE blob # 0
        <5>1. blob \in Blobs
          BY <4>2, SfpConstants DEF SfpType
        <5>2. count = BlobSize[blob] /\ count > 0
          BY <1>1, <1>2, <3>3, <5>1, SfpConstants DEF Stream, Complete
        <5> QED
          BY <3>1, <3>3, <5>2 DEF Ready
      <4> QED
        BY <4>1, <4>2
    <3>4. ~(c > 0)
      BY <3>2
    <3> QED
      BY <1>1, <3>2, <3>3, <3>4 DEF Ready
  <2> QED
    BY <1>9, <2>1, <2>2
<1>10. InPlace'
  BY <1>9, InPlaceAfter
<1>11. BlobsResync'
  BY <1>1, <1>2, <1>3 DEF BlobsResync, OnTheWay, Content, Byte
<1> QED
  BY <1>8, <1>10, <1>11 DEF ResyncInv

\* A packet is put behind the others.
LEMMA Appended ==
  ASSUME SfpType, NEW f, link' = Append(link, f), NEW n, n = Len(link)
  PROVE  /\ n \in Nat /\ Len(link') = n + 1 /\ link' # <<>> /\ link'[n + 1] = f
         /\ \A i \in 1..n : link'[i] = link[i] /\ i \in 1..Len(link')
         /\ link = <<>> <=> n = 0
         /\ \A m : OnTheWay(m) => OnTheWay(m)'
         /\ OnTheWay(f.blob)'
<1>1. PICK S : S = Packets \cup {f}
  OBVIOUS
<1>2. link \in Seq(S) /\ f \in S /\ link \in Seq(Packets)
  <2>1. link \in Seq(Packets) /\ Packets \subseteq S
    BY <1>1 DEF SfpType
  <2> QED
    BY <1>1, <2>1
<1>3. /\ n \in Nat /\ Len(link') = n + 1 /\ link'[n + 1] = f
      /\ \A i \in 1..n : link'[i] = link[i]
  BY <1>2, AppendProperties
<1>4. link' # <<>> /\ (link = <<>> <=> n = 0)
  BY <1>2, <1>3, EmptySeq
<1>5. \A i \in 1..n + 1 : i \in 1..Len(link')
  BY <1>3
<1>6. \A i \in 1..n : i \in 1..Len(link') /\ i \in 1..n + 1
  BY <1>3
<1>7. ASSUME NEW m, OnTheWay(m) PROVE OnTheWay(m)'
  BY <1>3, <1>6, <1>7 DEF OnTheWay
<1>8. OnTheWay(f.blob)'
  <2>1. n + 1 \in 1..Len(link') /\ link'[n + 1].blob = f.blob
    BY <1>3
  <2> QED
    BY <2>1 DEF OnTheWay
<1> QED
  BY <1>3, <1>4, <1>6, <1>7, <1>8

LEMMA AppendedLinked ==
  ASSUME SfpType, Linked, NEW f, link' = Append(link, f),
         f.frag => sending /\ f.blob = blob /\ f.offset = count,
         sending' => Follows(f, blob', count')
  PROVE  Linked'
<1>1. PICK n : n = Len(link)
  OBVIOUS
<1>2. /\ n \in Nat /\ Len(link') = n + 1 /\ link'[n + 1] = f
      /\ \A i \in 1..n : link'[i] = link[i]
      /\ link = <<>> <=> n = 0
  BY <1>1, Appended
<1>3. ASSUME NEW i \in 1..Len(link') - 1, link'[i + 1].frag
      PROVE  Follows(link'[i], link'[i + 1].blob, link'[i + 1].offset)
  <2>1. CASE i = n
    <3>1. link # <<>> /\ link'[i] = link[n] /\ link'[i + 1] = f
      BY <1>2, <1>3, <2>1
    <3> QED
      BY <1>1, <1>3, <3>1 DEF Linked
  <2>2. CASE i # n
    <3>1. i \in 1..n - 1 /\ i + 1 \in 1..n /\ i \in 1..n
      BY <1>2, <1>3, <2>2
    <3> QED
      BY <1>1, <1>2, <1>3, <3>1 DEF Linked
  <2> QED
    BY <2>1, <2>2
<1> QED
  BY <1>2, <1>3 DEF Linked, Follows, End

\* What comes first, when a packet is put behind the others.
LEMMA AppendedFirst ==
  ASSUME SfpType, InPlace, NEW f, link' = Append(link, f),
         UNCHANGED <<blob, data, datasize, spoilt>>,
         f.frag => f.blob = blob /\ f.offset = count,
         ~f.frag => count' = count
  PROVE  InPlace'
<1>1. PICK n : n = Len(link)
  OBVIOUS
<1>2. /\ n \in Nat /\ Len(link') = n + 1 /\ link'[n + 1] = f
      /\ \A i \in 1..n : link'[i] = link[i] /\ i \in 1..Len(link')
  BY <1>1, Appended
<1>3. ASSUME NEW b, NEW c,
             \/ \E i \in 1..Len(link') :
                  FirstLeft(i)' /\ b = link'[i].blob /\ c = link'[i].offset
             \/ NoneLeft' /\ b = blob' /\ c = count'
      PROVE  Ready(b, c)'
  <2>1. Ready(b, c)
    <3>1. CASE \E i \in 1..Len(link') :
                 FirstLeft(i)' /\ b = link'[i].blob /\ c = link'[i].offset
      <4>1. PICK i \in 1..Len(link') :
              FirstLeft(i)' /\ b = link'[i].blob /\ c = link'[i].offset
        BY <3>1
      <4>2. link'[i].frag /\ \A j \in 1..i - 1 : ~link'[j].frag
        BY <4>1 DEF FirstLeft
      <4>3. CASE i = n + 1
        <5>1. \A j \in 1..n : ~link[j].frag
          BY <1>2, <4>2, <4>3
        <5>2. NoneLeft
          BY <1>1, <5>1 DEF NoneLeft
        <5>3. b = blob /\ c = count
          BY <1>2, <4>1, <4>2, <4>3
        <5> QED
          BY <5>2, <5>3 DEF InPlace
      <4>4. CASE i # n + 1
        <5>1. i \in 1..n /\ \A j \in 1..i - 1 : j \in 1..n
          BY <1>2, <4>4
        <5>2. FirstLeft(i) /\ link'[i] = link[i]
          BY <1>1, <1>2, <4>2, <5>1 DEF FirstLeft
        <5> QED
          BY <1>1, <4>1, <5>1, <5>2 DEF InPlace
      <4> QED
        BY <4>3, <4>4
    <3>2. CASE NoneLeft' /\ b = blob' /\ c = count'
      <4>1. \A j \in 1..Len(link') : ~link'[j].frag
        BY <3>2 DEF NoneLeft
      <4>2. n + 1 \in 1..Len(link')
        BY <1>2
      <4>3. ~f.frag
        BY <1>2, <4>1, <4>2
      <4>4. NoneLeft
        BY <1>1, <1>2, <4>1 DEF NoneLeft
      <4> QED
        BY <3>2, <4>3, <4>4 DEF InPlace
    <3> QED
      BY <1>3, <3>1, <3>2
  <2> QED
    BY <2>1 DEF Ready, Has
<1> QED
  BY <1>3, InPlaceAfter

LEMMA ResyncSendPlain == ASSUME SfpType, ResyncInv, SfpSendPlain PROVE ResyncInv'
<1>1. PICK f : f = [frag |-> FALSE, blob |-> 0]
  OBVIOUS
<1>2. /\ ~sending /\ blob > 0 /\ link' = Append(link, f) /\ ~f.frag
      /\ UNCHANGED <<blob, count, sending, data, datasize, returned, spoilt>>
  BY <1>1 DEF SfpSendPlain, sendVars, recvVars
<1>3. Stream /\ InPlace /\ BlobsResync /\ spoilt \subseteq Nat
  BY DEF ResyncInv, Stream
<1>4. PICK n : n = Len(link)
  OBVIOUS
<1>5. /\ n \in Nat /\ Len(link') = n + 1 /\ link' # <<>> /\ link'[n + 1] = f
      /\ \A i \in 1..n : link'[i] = link[i] /\ i \in 1..Len(link')
      /\ link = <<>> <=> n = 0
      /\ \A m : OnTheWay(m) => OnTheWay(m)'
  BY <1>2, <1>4, Appended
<1>6. \A i \in 1..Len(link') : link'[i].frag => i \in 1..n /\ link'[i] = link[i]
  BY <1>2, <1>5
<1>7. Linked'
  BY <1>2, <1>3, AppendedLinked DEF Stream
<1>8. Complete'
  <2>1. ASSUME NEW i \in 1..Len(link') - 1, Unfinished(link'[i]), link'[i].blob \notin spoilt
        PROVE  /\ link'[i + 1].frag /\ link'[i + 1].blob = link'[i].blob
               /\ link'[i + 1].offset = End(link'[i])
    <3>1. i \in 1..n /\ link'[i] = link[i]
      BY <1>5
    <3>2. i # n
      BY <1>2, <1>3, <1>4, <1>5, <2>1, <3>1 DEF Stream, Complete
    <3>3. i \in 1..n - 1 /\ i + 1 \in 1..n
      BY <1>5, <3>1, <3>2
    <3> QED
      BY <1>3, <1>4, <1>5, <2>1, <3>1, <3>3 DEF Stream, Complete
  <2>2. ~Unfinished(link'[Len(link')])
    BY <1>2, <1>5 DEF Unfinished
  <2>3. ~sending /\ blob \in Blobs /\ blob \notin spoilt => count = BlobSize[blob]
    BY <1>3 DEF Stream, Complete
  <2> QED
    BY <1>2, <2>1, <2>2, <2>3 DEF Complete, Unfinished, End
<1>9. Ordered'
  BY <1>2, <1>3, <1>4, <1>6 DEF Stream, Ordered, End
<1>10. NoGap'
  BY <1>2, <1>3, <1>4, <1>5, <1>6 DEF Stream, NoGap, Through, OnTheWay
<1>11. Stream'
  BY <1>2, <1>3, <1>7, <1>8, <1>9, <1>10 DEF Stream
<1>12. InPlace'
  BY <1>2, <1>3, AppendedFirst
<1>13. BlobsResync'
  BY <1>2, <1>3, <1>5 DEF BlobsResync, Through, Content, Byte
<1> QED
  BY <1>11, <1>12, <1>13 DEF ResyncInv

LEMMA ResyncSendFragment == ASSUME SfpType, ResyncInv, SfpSendFragment PROVE ResyncInv'
<1>1. PICK size, f : size = Shorter(BlobSize[blob] - count, Mtu) /\ f = Fragment(size)
  OBVIOUS
<1>2. /\ sending /\ link' = Append(link, f) /\ count' = count + size
      /\ sending' = (count' < BlobSize[blob])
      /\ UNCHANGED <<blob, data, datasize, returned, spoilt>>
  BY <1>1 DEF SfpSendFragment, recvVars
<1>3. Stream /\ InPlace /\ BlobsResync /\ spoilt \subseteq Nat
  BY DEF ResyncInv, Stream
<1>4. /\ blob \in Blobs /\ blob \in Nat /\ blob > 0 /\ count \in Nat /\ BlobSize[blob] \in Nat
  BY <1>2, SfpConstants DEF SfpType
<1>5. /\ size \in Nat /\ size > 0 /\ count' <= BlobSize[blob]
      /\ f.frag /\ f.blob = blob /\ f.offset = count
      /\ f.total = BlobSize[blob] /\ End(f) = count'
  BY <1>1, <1>2, FragmentIsPiece
<1>6. PICK n : n = Len(link)
  OBVIOUS
<1>7. /\ n \in Nat /\ Len(link') = n + 1 /\ link' # <<>> /\ link'[n + 1] = f
      /\ \A i \in 1..n : link'[i] = link[i] /\ i \in 1..Len(link')
      /\ link = <<>> <=> n = 0
      /\ \A m : OnTheWay(m) => OnTheWay(m)'
      /\ OnTheWay(f.blob)'
  BY <1>2, <1>6, Appended
<1>8. \A i \in 1..Len(link') : i = n + 1 \/ (i \in 1..n /\ link'[i] = link[i])
  BY <1>7
<1>9. Linked'
  BY <1>2, <1>3, <1>5, AppendedLinked DEF Stream, Follows
<1>10. Complete'
  <2>1. ASSUME NEW i \in 1..Len(link') - 1, Unfinished(link'[i]), link'[i].blob \notin spoilt
        PROVE  /\ link'[i + 1].frag /\ link'[i + 1].blob = link'[i].blob
               /\ link'[i + 1].offset = End(link'[i])
    <3>1. i \in 1..n /\ link'[i] = link[i]
      BY <1>7
    <3>2. CASE i = n
      BY <1>3, <1>5, <1>6, <1>7, <2>1, <3>1, <3>2 DEF Stream, Complete
    <3>3. CASE i # n
      <4>1. i \in 1..n - 1 /\ i + 1 \in 1..n
        BY <1>7, <3>1, <3>3
      <4> QED
        BY <1>3, <1>6, <1>7, <2>1, <3>1, <4>1 DEF Stream, Complete
    <3> QED
      BY <3>2, <3>3
  <2>2. Unfinished(link'[Len(link')]) =>
          sending' /\ blob = link'[Len(link')].blob /\ count' = End(link'[Len(link')])
    BY <1>2, <1>5, <1>7 DEF Unfinished
  <2>3. ~sending' => count' = BlobSize[blob]
    <3>1. count' \in Nat
      BY <1>2, <1>4, <1>5
    <3>2. sending' <=> count' < BlobSize[blob]
      BY <1>2
    <3> QED
      BY <1>4, <1>5, <3>1, <3>2
  <2> QED
    BY <1>2, <2>1, <2>2, <2>3 DEF Complete, Unfinished, End
<1>11. Ordered'
  <2>1. ASSUME NEW i \in 1..n, link[i].frag
        PROVE  link[i].blob <= blob /\ (link[i].blob = blob => End(link[i]) <= count)
    BY <1>3, <1>6, <2>1 DEF Stream, Ordered
  <2>2. ASSUME NEW i \in 1..Len(link'), NEW j \in 1..Len(link'), i < j,
               link'[i].frag, link'[j].frag
        PROVE  /\ link'[i].blob <= link'[j].blob
               /\ link'[i].blob = link'[j].blob => End(link'[i]) <= link'[j].offset
    <3>1. i \in 1..n /\ link'[i] = link[i]
      BY <1>7, <2>2
    <3>2. CASE j = n + 1
      BY <1>5, <1>7, <2>1, <2>2, <3>1, <3>2
    <3>3. CASE j # n + 1
      <4>1. j \in 1..n /\ link'[j] = link[j]
        BY <1>8, <3>3
      <4> QED
        BY <1>3, <1>6, <2>2, <3>1, <4>1 DEF Stream, Ordered
    <3> QED
      BY <3>2, <3>3
  <2>3. ASSUME NEW i \in 1..Len(link'), link'[i].frag
        PROVE  link'[i].blob <= blob /\ (link'[i].blob = blob => End(link'[i]) <= count')
    <3>1. CASE i = n + 1
      BY <1>2, <1>4, <1>5, <1>7, <3>1
    <3>2. CASE i # n + 1
      <4>1. i \in 1..n /\ link'[i] = link[i] /\ link[i].frag
        BY <1>8, <2>3, <3>2
      <4>2. link[i].blob <= blob /\ (link[i].blob = blob => End(link[i]) <= count)
        BY <2>1, <4>1
      <4>3. End(link[i]) \in Nat
        BY <1>6, <4>1, LinkFacts
      <4>4. End(link[i]) <= count => End(link[i]) <= count'
        BY <1>2, <1>4, <1>5, <4>3
      <4> QED
        BY <4>1, <4>2, <4>4
    <3> QED
      BY <3>1, <3>2
  <2> QED
    BY <1>2, <2>2, <2>3 DEF Ordered, End
<1>12. NoGap'
  <2> SUFFICES ASSUME NEW i \in 1..Len(link'), link'[i].frag
               PROVE  /\ \A k \in Blobs : link'[i].blob < k /\ Through(k)' /\ k \notin spoilt =>
                           OnTheWay(k)'
                      /\ link'[i].blob < blob /\ count' > 0 => OnTheWay(blob)'
    BY <1>2 DEF NoGap, OnTheWay
  <2>1. OnTheWay(blob)'
    BY <1>2, <1>5, <1>7 DEF OnTheWay
  <2>2. ASSUME NEW k \in Blobs, link'[i].blob < k, Through(k)', k \notin spoilt
        PROVE  OnTheWay(k)'
    <3>1. k \in Nat
      BY SfpConstants
    <3>2. CASE k = blob
      BY <1>2, <2>1, <3>2 DEF OnTheWay
    <3>3. CASE k # blob
      <4>1. k < blob /\ Through(k)
        BY <1>2, <2>2, <3>3 DEF Through
      <4>2. i \in 1..n /\ link'[i] = link[i]
        <5>1. i # n + 1
          BY <1>4, <1>5, <1>7, <2>2, <3>1, <4>1
        <5> QED
          BY <1>8, <5>1
      <4>3. OnTheWay(k)
        BY <1>3, <1>6, <2>2, <4>1, <4>2 DEF Stream, NoGap
      <4> QED
        BY <1>7, <4>3
    <3> QED
      BY <3>2, <3>3
  <2> QED
    BY <2>1, <2>2
<1>13. Stream'
  BY <1>2, <1>3, <1>4, <1>9, <1>10, <1>11, <1>12 DEF Stream
<1>14. InPlace'
  BY <1>2, <1>3, <1>5, AppendedFirst
<1>15. BlobsResync'
  <2>1. ASSUME NEW m \in Blobs, Through(m)', ~OnTheWay(m)'
        PROVE  Through(m) /\ ~OnTheWay(m)
    BY <1>2, <1>5, <1>7, <2>1 DEF Through
  <2> QED
    BY <1>2, <1>3, <2>1 DEF BlobsResync, Content, Byte
<1> QED
  BY <1>13, <1>14, <1>15 DEF ResyncInv

\* Whatever was lost and whichever calls failed before, for all sizes of blobs
\* and fragments: csp_sfp_recv returns a blob that comes through unspoilt
\* after one that came through unspoilt.
THEOREM BlobsResyncCorrect == SfpSpec => []BlobsResync
<1>1. SfpInit => ResyncInv
  <2> SUFFICES ASSUME SfpInit PROVE ResyncInv
    OBVIOUS
  <2>1. /\ blob = 0 /\ count = 0 /\ ~sending /\ link = <<>> /\ data = <<>> /\ spoilt = {}
        /\ Len(link) = 0
    BY DEF SfpInit
  <2>2. Stream
    <3>1. 0 \notin Blobs
      BY SfpConstants
    <3> QED
      BY <2>1, <3>1 DEF Stream, Linked, Complete, Ordered, NoGap
  <2>3. InPlace
    BY <2>1 DEF InPlace, Ready
  <2>4. BlobsResync
    <3>1. \A n \in Blobs : n \in Nat /\ n > 0
      BY SfpConstants
    <3> QED
      BY <2>1, <3>1 DEF BlobsResync, Through
  <2> QED
    BY <2>2, <2>3, <2>4 DEF ResyncInv
<1>2. SfpInv /\ ResyncInv /\ [SfpNext]_sfpVars => ResyncInv'
  <2> SUFFICES ASSUME SfpType, ResyncInv, [SfpNext]_sfpVars PROVE ResyncInv'
    BY DEF SfpInv
  <2>1. CASE UNCHANGED sfpVars
    <3>1. UNCHANGED <<blob, count, sending, link, data, datasize, returned, spoilt>>
      BY <2>1 DEF sfpVars
    <3>2. Stream'
      BY <3>1 DEF ResyncInv, Stream, Linked, Follows, End, Complete, Unfinished, Ordered, NoGap,
                  Through, OnTheWay
    <3>3. InPlace' /\ BlobsResync'
      BY <3>1 DEF ResyncInv, InPlace, FirstLeft, NoneLeft, Ready, Has, BlobsResync, Through,
                  OnTheWay, Content, Byte
    <3> QED
      BY <3>2, <3>3 DEF ResyncInv
  <2> QED
    BY <2>1, ResyncSend, ResyncSendFragment, ResyncSendFails, ResyncSendPlain, ResyncLose,
       ResyncTake, ResyncReject, ResyncTimeout DEF SfpNext
<1>3. ResyncInv => BlobsResync
  BY DEF ResyncInv
<1> QED
  BY <1>1, <1>2, <1>3, SfpInvInit, SfpInvStep, PTL DEF SfpSpec

----------------------------------------------------------------------------
(***************************************************************************)
(* Module Can, for all tasks, packets and identifiers, any number of       *)
(* elements, and all losses.                                               *)
(***************************************************************************)

Nodes == {CanNode[t] : t \in CanTasks}
PacketIds == 1..Len(CanLength)
Parts == [packet : PacketIds, offset : Nat, size : Nat]

SenderType ==
  /\ frameId \in [Nodes -> Nat]
  /\ csend \in [CanTasks -> [at : {"idle", "read", "begin", "more"}, packet : Nat,
                             ident : Nat, count : Nat]]
  /\ packets \in Seq(Nodes \X Nat) /\ Len(packets) <= Len(CanLength)
  /\ canFaults \in Nat

ElementType == [used : BOOLEAN, id : Nat \X Nat, packet : Nat, remain : Int, count : Nat,
                parts : Seq(Parts)]
ReceiverType ==
  /\ pbuf \in [1..Elements -> ElementType]
  /\ \A i \in 1..Elements : pbuf[i].used => pbuf[i].packet \in PacketIds
  /\ canOut \in Seq([packet : PacketIds, parts : Seq(Parts)])

\* The first frame has room for two bytes of data.
InStep(n) == \E k \in Nat : n = (MaxBytes - Overhead) + MaxBytes * k

\* What each csp_can_tx is at: its packet, of which other tasks know nothing.
Busy(t) == csend[t].at # "idle"
SenderOK(t) ==
  /\ Busy(t) => csend[t].packet \in 1..Len(packets)
                /\ packets[csend[t].packet] = <<CanNode[t], csend[t].ident>>
  /\ csend[t].at \in {"read", "begin"} => csend[t].count = 0
  /\ csend[t].at = "more" => csend[t].count < CanLength[csend[t].packet] /\ InStep(csend[t].count)
Senders ==
  /\ \A t \in CanTasks : SenderOK(t)
  /\ clash = {} =>
       \A t, u \in CanTasks :
         Busy(t) /\ Busy(u) /\ CanNode[t] = CanNode[u] /\ csend[t].ident = csend[u].ident => t = u

\* The parts of packet p received one after the other up to byte `end`.
Chain(parts, p, end) ==
  /\ Len(parts) > 0 /\ parts[1].offset = 0
  /\ \A i \in 1..Len(parts) : parts[i].packet = p
  /\ \A i \in 1..Len(parts) - 1 : parts[i + 1].offset = parts[i].offset + parts[i].size
  /\ parts[Len(parts)].offset + parts[Len(parts)].size = end

\* The frames that carry what is left after `n` bytes.
FramesLeft(p, n) == (CanLength[p] - n + MaxBytes - 1) \div MaxBytes

ElementOK(e) ==
  /\ e.packet \in 1..Len(packets) /\ e.id = packets[e.packet]
  /\ e.count < CanLength[e.packet] /\ InStep(e.count)
  /\ e.remain = FramesLeft(e.packet, e.count)
  /\ Chain(e.parts, e.packet, e.count)
NoTwins ==
  \A i, j \in 1..Elements : pbuf[i].used /\ pbuf[j].used /\ pbuf[i].id = pbuf[j].id => i = j
ElementsOK == \A i \in 1..Elements : pbuf[i].used => ElementOK(pbuf[i])

\* What CanIntact assumes: no identifier is used twice, or it is used by one
\* task at a time and there is at most one fault.
Distinct == \A m, n \in 1..Len(packets) : packets[m] = packets[n] => m = n
Careful == clash = {} /\ canFaults <= 1

\* An element with the identifier a task is sending with is for its packet.
Matched ==
  Careful =>
    \A t \in CanTasks, i \in 1..Elements :
      csend[t].at = "more" /\ pbuf[i].used /\ pbuf[i].id = <<CanNode[t], csend[t].ident>>
        => pbuf[i].packet = csend[t].packet
\* Without faults every element has a task that goes on where it ends.
Alive ==
  clash = {} /\ canFaults = 0 =>
    \A i \in 1..Elements : pbuf[i].used =>
      \E t \in CanTasks : /\ csend[t].at = "more" /\ csend[t].packet = pbuf[i].packet
                          /\ csend[t].count = pbuf[i].count

AllWhole == \A k \in 1..Len(canOut) : Whole(canOut[k])

CanSafe == Distinct \/ Careful => ElementsOK /\ Matched /\ Alive /\ AllWhole
CanInv == SenderType /\ ReceiverType /\ Senders /\ NoTwins /\ CanSafe

----------------------------------------------------------------------------
LEMMA CanConstants ==
  /\ Elements \in Nat /\ Elements > 0 /\ IdMod \in Nat /\ IdMod > 0
  /\ CanLength \in Seq(Nat) /\ Len(CanLength) \in Nat /\ PacketIds = 1..Len(CanLength)
  /\ \A p \in PacketIds : CanLength[p] \in Nat
  /\ \A t \in CanTasks : CanNode[t] \in Nodes /\ CanNode[t] \in Nat
BY CanAssumption DEF PacketIds, Nodes

\* A busy task's packet.
LEMMA BusyFacts ==
  ASSUME SenderType, Senders, NEW t \in CanTasks, Busy(t)
  PROVE  /\ csend[t].packet \in 1..Len(packets) /\ csend[t].packet \in PacketIds
         /\ packets[csend[t].packet] = <<CanNode[t], csend[t].ident>>
         /\ CanLength[csend[t].packet] \in Nat
         /\ csend[t].ident \in Nat /\ csend[t].count \in Nat /\ CanNode[t] \in Nat
<1>1. Len(packets) \in Nat /\ Len(packets) <= Len(CanLength)
  BY DEF SenderType
<1>2. csend[t].packet \in 1..Len(packets) /\ packets[csend[t].packet] = <<CanNode[t], csend[t].ident>>
  BY DEF Senders, SenderOK
<1>3. csend[t].packet \in PacketIds
  BY <1>1, <1>2, CanConstants
<1>4. csend[t].ident \in Nat /\ csend[t].count \in Nat
  BY DEF SenderType
<1> QED
  BY <1>2, <1>3, <1>4, CanConstants

\* The frame csp_can_tx sends next.
LEMMA FrameFacts ==
  ASSUME SenderType, Senders, NEW t \in CanTasks, csend[t].at \in {"begin", "more"},
         NEW f, f = Frame(t), NEW l, l = CanLength[csend[t].packet]
  PROVE  /\ f.id = <<CanNode[t], csend[t].ident>> /\ f.id = packets[f.packet]
         /\ f.id \in Nat \X Nat
         /\ f.packet = csend[t].packet /\ f.packet \in 1..Len(packets) /\ f.packet \in PacketIds
         /\ f.offset = csend[t].count
         /\ l \in Nat /\ f.offset \in Nat /\ f.size \in Nat /\ f.remain \in Int
         /\ f.offset + f.size <= l
         /\ f.offset + f.size < l =>
              InStep(f.offset + f.size) /\ f.remain = FramesLeft(f.packet, f.offset + f.size)
         /\ csend[t].at = "begin" => f.offset = 0
         /\ csend[t].at = "more" => /\ InStep(f.offset) /\ f.offset < l
                                    /\ f.remain = FramesLeft(f.packet, f.offset) - 1
<1> DEFINE s == csend[t]
           left == l - s.count
           room == IF s.at = "begin" THEN MaxBytes - Overhead ELSE MaxBytes
           size == IF left <= room THEN left ELSE room
<1>1. /\ s.packet \in 1..Len(packets) /\ s.packet \in PacketIds
      /\ packets[s.packet] = <<CanNode[t], s.ident>>
      /\ l \in Nat /\ s.ident \in Nat /\ s.count \in Nat /\ CanNode[t] \in Nat
  BY BusyFacts DEF Busy
<1>2. /\ s.at = "begin" => s.count = 0
      /\ s.at = "more" => s.count < l /\ InStep(s.count)
  BY DEF Senders, SenderOK
<1>3. /\ f.id = <<CanNode[t], s.ident>> /\ f.packet = s.packet /\ f.offset = s.count /\ f.size = size
      /\ f.remain = IF s.at = "begin"
                    THEN (left + Overhead - 1) \div MaxBytes
                    ELSE (left - size + MaxBytes - 1) \div MaxBytes
  BY DEF Frame
<1> HIDE DEF s
<1>4. s.at \in {"begin", "more"}
  BY DEF s
<1>5. /\ f.id = <<CanNode[t], csend[t].ident>> /\ f.id = packets[f.packet]
      /\ f.id \in Nat \X Nat
      /\ f.packet = csend[t].packet /\ f.packet \in 1..Len(packets) /\ f.packet \in PacketIds
      /\ f.offset = csend[t].count
  BY <1>1, <1>3 DEF s
<1>6. CASE s.at = "begin"
  <2>1. f.size = (IF l <= 2 THEN l ELSE 2) /\ f.remain = (l + 5) \div 8 /\ f.offset = 0
    BY <1>1, <1>2, <1>3, <1>6 DEF MaxBytes, Overhead
  <2>2. f.size \in Nat /\ f.remain \in Int /\ f.size <= l
    BY <1>1, <2>1
  <2>3. f.size < l => f.size = 2 /\ f.remain = (l - 2 + 8 - 1) \div 8
    BY <1>1, <2>1
  <2>4. InStep(2)
    <3>1. 2 = (8 - 6) + 8 * 0 /\ 0 \in Nat
      OBVIOUS
    <3> QED
      BY <3>1 DEF InStep, MaxBytes, Overhead
  <2>5. f.size < l => InStep(f.offset + f.size) /\ f.remain = FramesLeft(f.packet, f.offset + f.size)
    BY <1>1, <1>3, <2>1, <2>3, <2>4, SMTT(40) DEF FramesLeft, MaxBytes, s
  <2>6. f.offset = 0 /\ f.offset \in Nat /\ f.offset + f.size <= l
    BY <1>1, <2>1, <2>2
  <2>7. csend[t].at # "more"
    BY <1>6 DEF s
  <2> QED
    BY <1>1, <1>5, <2>2, <2>5, <2>6, <2>7, SMTT(40)
<1>7. CASE s.at = "more"
  <2>1. /\ left = l - s.count /\ left \in Nat /\ left > 0
        /\ f.size = (IF left <= 8 THEN left ELSE 8) /\ f.remain = (left - f.size + 7) \div 8
    <3>1. left \in Nat /\ left > 0
      BY <1>1, <1>2, <1>7
    <3> HIDE DEF left
    <3>2. f.size = (IF left <= 8 THEN left ELSE 8)
      BY <1>3, <1>7 DEF MaxBytes
    <3>3. f.remain = (left - f.size + 8 - 1) \div 8
      BY <1>3, <1>7 DEF MaxBytes
    <3>4. left - f.size + 8 - 1 = left - f.size + 7
      BY <3>1, <3>2
    <3> QED
      BY <3>1, <3>2, <3>3, <3>4 DEF left
  <2> HIDE DEF left
  <2>2. /\ f.size \in Nat /\ f.remain \in Int /\ f.offset + f.size <= l /\ f.offset \in Nat
        /\ left - f.size \in Nat
    <3>1. f.size \in Nat /\ f.size <= left
      BY <2>1
    <3>2. left - f.size + 7 \in Nat
      BY <2>1, <3>1
    <3>3. f.remain \in Int
      BY <2>1, <3>2
    <3>4. f.offset \in Nat /\ f.offset + left = l /\ left \in Nat
      BY <1>1, <1>3, <2>1
    <3>5. \A o, z, r \in Nat : o + r = l /\ z <= r => o + z <= l /\ r - z \in Nat
      BY <1>1
    <3>6. f.offset + f.size <= l /\ left - f.size \in Nat
      BY <3>1, <3>4, <3>5
    <3> QED
      BY <3>1, <3>3, <3>4, <3>6
  <2>3. f.remain = (left + 7) \div 8 - 1
    BY <2>1
  <2>4. f.remain = FramesLeft(f.packet, f.offset) - 1
    <3>1. l - f.offset + 8 - 1 = left + 7
      BY <1>1, <1>3, <2>1
    <3> QED
      BY <1>3, <2>3, <3>1 DEF FramesLeft, MaxBytes, s
  <2>5. f.remain = FramesLeft(f.packet, f.offset + f.size)
    <3>2. \A o, z, r \in Nat : o + r = l => l - (o + z) + 8 - 1 = r - z + 7
      BY <1>1
    <3>1. l - (f.offset + f.size) + 8 - 1 = left - f.size + 7
      <4>1. f.offset + left = l
        BY <1>1, <1>3, <2>1
      <4> QED
        BY <2>1, <2>2, <3>2, <4>1
    <3> QED
      BY <1>3, <2>1, <3>1 DEF FramesLeft, MaxBytes, s
  <2>6. ASSUME f.offset + f.size < l PROVE InStep(f.offset + f.size)
    <3>1. PICK k \in Nat : s.count = 2 + 8 * k
      BY <1>2, <1>7 DEF InStep, MaxBytes, Overhead
    <3>2. f.size = 8
      BY <1>1, <1>3, <2>1, <2>6, SMTT(40)
    <3>3. f.offset + f.size = (8 - 6) + 8 * (k + 1) /\ k + 1 \in Nat
      BY <1>3, <3>1, <3>2
    <3> QED
      BY <3>3 DEF InStep, MaxBytes, Overhead
  <2>7. InStep(f.offset) /\ f.offset < l /\ csend[t].at # "begin"
    BY <1>2, <1>3, <1>7 DEF s
  <2> QED
    BY <1>1, <1>5, <2>2, <2>4, <2>5, <2>6, <2>7
<1> QED
  BY <1>4, <1>6, <1>7

\* What becomes of the sender: it goes on, or it is done.
LEMMA SentFacts ==
  ASSUME SenderType, NEW t \in CanTasks, NEW f, Sent(t, f), f.packet = csend[t].packet,
         f.offset \in Nat, f.size \in Nat, csend[t].packet \in PacketIds
  PROVE  /\ \A u \in CanTasks : u # t => csend'[u] = csend[u]
         /\ csend'[t] = IF f.offset + f.size < CanLength[f.packet]
                        THEN [at |-> "more", packet |-> csend[t].packet,
                              ident |-> csend[t].ident, count |-> f.offset + f.size]
                        ELSE NotSending
         /\ csend' \in [CanTasks -> [at : {"idle", "read", "begin", "more"}, packet : Nat,
                                     ident : Nat, count : Nat]]
<1> DEFINE Records == [at : {"idle", "read", "begin", "more"}, packet : Nat, ident : Nat,
                       count : Nat]
           new == IF f.offset + f.size < CanLength[f.packet]
                  THEN [csend[t] EXCEPT !.at = "more", !.count = f.offset + f.size]
                  ELSE NotSending
<1>1. csend \in [CanTasks -> Records]
  BY DEF SenderType
<1>2. f.offset + f.size \in Nat
  OBVIOUS
<1>3. csend' = [csend EXCEPT ![t] = new]
  BY <1>1 DEF Sent
<1>4. new = IF f.offset + f.size < CanLength[f.packet]
            THEN [at |-> "more", packet |-> csend[t].packet,
                  ident |-> csend[t].ident, count |-> f.offset + f.size]
            ELSE NotSending
  <2>1. csend[t] \in Records
    BY <1>1
  <2>2. ASSUME NEW r \in Records, NEW c \in Nat
        PROVE  [r EXCEPT !.at = "more", !.count = c]
                 = [at |-> "more", packet |-> r.packet, ident |-> r.ident, count |-> c]
    <3> DEFINE a == [r EXCEPT !.at = "more", !.count = c]
               b == [at |-> "more", packet |-> r.packet, ident |-> r.ident, count |-> c]
    <3>1. a \in Records /\ b \in Records
      OBVIOUS
    <3>2. a.at = b.at /\ a.packet = b.packet /\ a.ident = b.ident /\ a.count = b.count
      OBVIOUS
    <3> HIDE DEF a, b
    <3>3. a = b
      BY <3>1, <3>2
    <3> QED
      BY <3>3 DEF a, b
  <2>3. [csend[t] EXCEPT !.at = "more", !.count = f.offset + f.size]
          = [at |-> "more", packet |-> csend[t].packet, ident |-> csend[t].ident,
             count |-> f.offset + f.size]
    BY <1>2, <2>1, <2>2
  <2> QED
    BY <2>3
<1>5. new \in Records
  BY <1>1, <1>4, <1>2 DEF NotSending
<1> HIDE DEF new, Records
<1>6. csend' \in [CanTasks -> Records]
  BY <1>1, <1>3, <1>5
<1>7. csend'[t] = new /\ \A u \in CanTasks : u # t => csend'[u] = csend[u]
  BY <1>1, <1>3
<1> QED
  BY <1>4, <1>6, <1>7 DEF Records

----------------------------------------------------------------------------
\* Receiving a frame.  Part(f) is what is noted of its data, and Begun and
\* Longer are the elements that a first frame and a later one leave behind.

Part(f) == [packet |-> f.packet, offset |-> f.offset, size |-> f.size]
Begun(f) ==
  [used |-> TRUE, id |-> f.id, packet |-> f.packet, remain |-> f.remain, count |-> f.size,
   parts |-> <<Part(f)>>]
Longer(e, f) ==
  [e EXCEPT !.remain = e.remain - 1, !.count = e.count + f.size, !.parts = Append(e.parts, Part(f))]
Delivery(e, f) == [packet |-> e.packet, parts |-> Append(e.parts, Part(f))]

FrameType(f) == /\ f.id \in Nat \X Nat /\ f.packet \in PacketIds /\ f.offset \in Nat
                /\ f.size \in Nat /\ f.remain \in Int

LEMMA FreeType == Free \in ElementType
<1>1. <<>> \in Seq(Parts) /\ <<0, 0>> \in Nat \X Nat
  BY EmptySeq
<1> QED
  BY <1>1 DEF Free, ElementType

LEMMA AppendPart ==
  ASSUME NEW s \in Seq(Parts), NEW f, FrameType(f)
  PROVE  /\ Append(s, Part(f)) \in Seq(Parts)
         /\ Len(s) \in Nat /\ Len(Append(s, Part(f))) = Len(s) + 1
         /\ \A i \in 1..Len(s) : Append(s, Part(f))[i] = s[i]
         /\ Append(s, Part(f))[Len(s) + 1] = Part(f)
<1>1. Part(f) \in Parts
  BY DEF FrameType, Part, Parts
<1> QED
  BY <1>1, AppendProperties

\* csp_can_process_frame of a later frame, and of the data of a first one.
LEMMA AddDataFacts ==
  ASSUME ReceiverType, NEW i \in 1..Elements, NEW e \in ElementType, NEW f, FrameType(f),
         AddData(i, e, f), e.packet \in PacketIds
  PROVE  /\ pbuf' \in [1..Elements -> ElementType]
         /\ \A j \in 1..Elements : j # i => pbuf'[j] = pbuf[j]
         /\ pbuf'[i].used =>
              /\ pbuf'[i] = Longer(e, f) /\ f.remain = e.remain - 1
              /\ e.count + f.size < CanLength[e.packet]
         /\ \/ canOut' = canOut
            \/ /\ canOut' = Append(canOut, Delivery(e, f)) /\ f.remain = e.remain - 1
               /\ e.count + f.size = CanLength[e.packet] /\ ~pbuf'[i].used
         /\ canOut' \in Seq([packet : PacketIds, parts : Seq(Parts)])
<1> DEFINE sum == e.count + f.size
           parts == Append(e.parts, Part(f))
           length == CanLength[e.packet]
           new == [e EXCEPT !.remain = e.remain - 1, !.count = sum, !.parts = parts]
           Deliveries == [packet : PacketIds, parts : Seq(Parts)]
<1>1. /\ pbuf \in [1..Elements -> ElementType] /\ canOut \in Seq(Deliveries)
      /\ e.parts \in Seq(Parts) /\ e.count \in Nat /\ e.remain \in Int
  BY DEF ReceiverType, ElementType
<1>2. parts \in Seq(Parts) /\ length \in Nat /\ sum \in Nat
  <2>1. parts \in Seq(Parts)
    BY <1>1, AppendPart
  <2>2. length \in Nat
    BY CanConstants
  <2>3. f.size \in Nat
    BY DEF FrameType
  <2>4. sum \in Nat
    BY <1>1, <2>3
  <2> QED
    BY <2>1, <2>2, <2>4
<1>3. new = Longer(e, f) /\ new \in ElementType
  <2>1. e.remain - 1 \in Int
    BY <1>1
  <2> HIDE DEF parts, sum
  <2>2. new \in ElementType
    BY <1>2, <2>1 DEF ElementType
  <2> QED
    BY <2>2 DEF Longer, parts, sum
<1>4. \/ pbuf' = [pbuf EXCEPT ![i] = Free] /\ canOut' = canOut
      \/ /\ f.remain = e.remain - 1 /\ sum = length
         /\ pbuf' = [pbuf EXCEPT ![i] = Free] /\ canOut' = Append(canOut, Delivery(e, f))
      \/ /\ f.remain = e.remain - 1 /\ sum <= length /\ sum # length
         /\ pbuf' = [pbuf EXCEPT ![i] = new] /\ canOut' = canOut
  BY <1>1, <1>2 DEF AddData, Part, Delivery
<1>5. Delivery(e, f) \in Deliveries
  BY <1>2 DEF Delivery
<1>6. canOut' \in Seq(Deliveries)
  <2>1. Append(canOut, Delivery(e, f)) \in Seq(Deliveries)
    BY <1>1, <1>5, AppendProperties
  <2> QED
    BY <1>1, <1>4, <2>1
<1> HIDE DEF new, parts, Deliveries
<1>7. CASE pbuf' = [pbuf EXCEPT ![i] = Free]
  <2>1. pbuf' \in [1..Elements -> ElementType] /\ \A j \in 1..Elements : j # i => pbuf'[j] = pbuf[j]
    BY <1>1, <1>7, FreeType
  <2>2. ~pbuf'[i].used
    BY <1>1, <1>7 DEF Free
  <2> QED
    BY <1>4, <1>6, <2>1, <2>2 DEF Deliveries
<1>8. CASE /\ f.remain = e.remain - 1 /\ sum <= length /\ sum # length
           /\ pbuf' = [pbuf EXCEPT ![i] = new] /\ canOut' = canOut
  <2>1. /\ pbuf' \in [1..Elements -> ElementType] /\ pbuf'[i] = new
        /\ \A j \in 1..Elements : j # i => pbuf'[j] = pbuf[j]
    BY <1>1, <1>3, <1>8
  <2>2. sum < length
    BY <1>2, <1>8
  <2> QED
    BY <1>3, <1>6, <1>8, <2>1, <2>2 DEF Deliveries
<1> QED
  BY <1>4, <1>7, <1>8


\* The first frame put into element i.
LEMMA BeginInFacts ==
  ASSUME ReceiverType, NEW i \in 1..Elements, NEW f, FrameType(f), BeginIn(i, pbuf[i], f)
  PROVE  /\ pbuf' \in [1..Elements -> ElementType]
         /\ \A j \in 1..Elements : j # i => pbuf'[j] = pbuf[j]
         /\ pbuf'[i].used => pbuf'[i] = Begun(f) /\ f.size < CanLength[f.packet]
         /\ \/ canOut' = canOut
            \/ canOut' = Append(canOut, [packet |-> f.packet, parts |-> <<Part(f)>>])
         /\ canOut' \in Seq([packet : PacketIds, parts : Seq(Parts)])
<1> DEFINE b == Begin(pbuf[i], f)
<1>1. pbuf \in [1..Elements -> ElementType]
      /\ canOut \in Seq([packet : PacketIds, parts : Seq(Parts)])
  BY DEF ReceiverType, ElementType
<1>2. /\ b \in ElementType /\ b.packet = f.packet /\ b.packet \in PacketIds
      /\ b.count = 0 /\ b.parts = <<>> /\ b.remain = f.remain + 1
      /\ b = [used |-> TRUE, id |-> f.id, packet |-> f.packet, remain |-> f.remain + 1,
              count |-> 0, parts |-> <<>>]
  <2>1. f.remain + 1 \in Int /\ f.packet \in Nat /\ <<>> \in Seq(Parts)
    BY EmptySeq, CanConstants DEF FrameType
  <2> QED
    BY <2>1 DEF Begin, ElementType, FrameType
<1>3. CASE CanLength[f.packet] > DataSize
  <2>1. pbuf' = [pbuf EXCEPT ![i] = Free] /\ canOut' = canOut
    BY <1>3 DEF BeginIn
  <2>2. pbuf' \in [1..Elements -> ElementType] /\ \A j \in 1..Elements : j # i => pbuf'[j] = pbuf[j]
    BY <1>1, <2>1, FreeType
  <2>3. ~pbuf'[i].used
    BY <1>1, <2>1 DEF Free
  <2> QED
    BY <1>1, <2>1, <2>2, <2>3
<1>4. CASE ~(CanLength[f.packet] > DataSize)
  <2>1. AddData(i, b, f)
    BY <1>4 DEF BeginIn
  <2>2. f.remain \in Int /\ f.size \in Nat
    BY DEF FrameType
  <2>3. Append(b.parts, Part(f)) = <<Part(f)>>
    <3>1. Part(f) \in Parts
      BY DEF FrameType, Part, Parts
    <3>2. Append(<<>>, Part(f)) = <<Part(f)>>
      BY <3>1
    <3> QED
      BY <1>2, <3>2
  <2>4. Longer(b, f) = Begun(f)
    <3>1. b.remain - 1 = f.remain /\ b.count + f.size = f.size
      BY <1>2, <2>2
    <3>2. Longer(b, f) = [b EXCEPT !.remain = f.remain, !.count = f.size, !.parts = <<Part(f)>>]
      BY <2>3, <3>1 DEF Longer
    <3> HIDE DEF b
    <3> DEFINE r == [b EXCEPT !.remain = f.remain, !.count = f.size, !.parts = <<Part(f)>>]
    <3>3. <<Part(f)>> \in Seq(Parts) /\ f.packet \in Nat /\ f.id \in Nat \X Nat
      BY CanConstants DEF FrameType, Part, Parts
    <3>4. r \in ElementType /\ Begun(f) \in ElementType
      BY <1>2, <2>2, <3>3 DEF Begun, ElementType
    <3>5. /\ r.used = Begun(f).used /\ r.id = Begun(f).id /\ r.packet = Begun(f).packet
          /\ r.remain = Begun(f).remain /\ r.count = Begun(f).count /\ r.parts = Begun(f).parts
      BY <1>2 DEF Begun, ElementType
    <3> HIDE DEF r
    <3>6. r = Begun(f)
      BY <3>4, <3>5 DEF ElementType
    <3> QED
      BY <3>2, <3>6 DEF r
  <2>5. Delivery(b, f) = [packet |-> f.packet, parts |-> <<Part(f)>>]
    BY <1>2, <2>3 DEF Delivery
  <2>6. b.count + f.size = f.size
    BY <1>2, <2>2
  <2> HIDE DEF b
  <2>7. /\ pbuf' \in [1..Elements -> ElementType]
        /\ \A j \in 1..Elements : j # i => pbuf'[j] = pbuf[j]
        /\ pbuf'[i].used =>
             /\ pbuf'[i] = Longer(b, f) /\ f.remain = b.remain - 1
             /\ b.count + f.size < CanLength[b.packet]
        /\ \/ canOut' = canOut
           \/ /\ canOut' = Append(canOut, Delivery(b, f)) /\ f.remain = b.remain - 1
              /\ b.count + f.size = CanLength[b.packet] /\ ~pbuf'[i].used
        /\ canOut' \in Seq([packet : PacketIds, parts : Seq(Parts)])
    BY <1>2, <2>1, AddDataFacts
  <2> QED
    BY <1>2, <2>4, <2>5, <2>6, <2>7
<1> QED
  BY <1>3, <1>4

\* What the receiver does with a first frame: the elements it leaves are those
\* it had with other identifiers, and one that begins the frame's packet.
LEMMA BeginEffect ==
  ASSUME ReceiverType, NoTwins, NEW f, FrameType(f), RxBegin(f)
  PROVE  /\ pbuf' \in [1..Elements -> ElementType]
         /\ \A j \in 1..Elements : pbuf'[j].used =>
              \/ pbuf'[j] = pbuf[j] /\ pbuf[j].id # f.id
              \/ pbuf'[j] = Begun(f) /\ f.size < CanLength[f.packet]
         /\ NoTwins'
         /\ \/ canOut' = canOut
            \/ canOut' = Append(canOut, [packet |-> f.packet, parts |-> <<Part(f)>>])
         /\ canOut' \in Seq([packet : PacketIds, parts : Seq(Parts)])
<1> DEFINE Kept(j) == pbuf'[j] = pbuf[j] /\ pbuf[j].id # f.id
<1>1. pbuf \in [1..Elements -> ElementType]
      /\ canOut \in Seq([packet : PacketIds, parts : Seq(Parts)])
  BY DEF ReceiverType, ElementType
<1>2. ASSUME NEW i \in 1..Elements, BeginIn(i, pbuf[i], f),
             \A j \in 1..Elements : j # i /\ pbuf[j].used => pbuf[j].id # f.id
      PROVE  /\ \A j \in 1..Elements : j # i /\ pbuf'[j].used => Kept(j)
             /\ pbuf'[i].used => pbuf'[i] = Begun(f) /\ f.size < CanLength[f.packet]
             /\ pbuf' \in [1..Elements -> ElementType]
             /\ \/ canOut' = canOut
                \/ canOut' = Append(canOut, [packet |-> f.packet, parts |-> <<Part(f)>>])
             /\ canOut' \in Seq([packet : PacketIds, parts : Seq(Parts)])
  BY <1>2, BeginInFacts
<1>3. ASSUME NEW i \in 1..Elements,
             \A j \in 1..Elements : j # i /\ pbuf'[j].used => Kept(j),
             pbuf'[i].used => pbuf'[i] = Begun(f) /\ f.size < CanLength[f.packet]
      PROVE  NoTwins'
  <2>1. pbuf'[i].used => pbuf'[i].id = f.id
    BY <1>3 DEF Begun
  <2>2. \A j \in 1..Elements : j # i /\ pbuf'[j].used => pbuf'[j] = pbuf[j] /\ pbuf'[j].id # f.id
    BY <1>3
  <2> QED
    BY <2>1, <2>2 DEF NoTwins
<1>4. CASE \E i \in Found(f) : BeginIn(i, pbuf[i], f)
  <2>1. PICK i \in Found(f) : BeginIn(i, pbuf[i], f)
    BY <1>4
  <2>2. i \in 1..Elements /\ pbuf[i].used /\ pbuf[i].id = f.id
    BY DEF Found
  <2>3. \A j \in 1..Elements : j # i /\ pbuf[j].used => pbuf[j].id # f.id
    BY <2>2 DEF NoTwins
  <2> QED
    BY <1>2, <1>3, <2>1, <2>2, <2>3
<1>5. CASE \E i \in 1..Elements : Found(f) = {} /\ BeginIn(i, pbuf[i], f)
  <2>1. PICK i \in 1..Elements : Found(f) = {} /\ BeginIn(i, pbuf[i], f)
    BY <1>5
  <2>2. \A j \in 1..Elements : pbuf[j].used => pbuf[j].id # f.id
    BY <2>1 DEF Found
  <2> QED
    BY <1>2, <1>3, <2>1, <2>2
<1>6. CASE \E i \in 1..Elements : Found(f) = {} /\ pbuf' = [pbuf EXCEPT ![i] = Free] /\ canOut' = canOut
  <2>1. PICK i \in 1..Elements : Found(f) = {} /\ pbuf' = [pbuf EXCEPT ![i] = Free] /\ canOut' = canOut
    BY <1>6
  <2>2. \A j \in 1..Elements : pbuf[j].used => pbuf[j].id # f.id
    BY <2>1 DEF Found
  <2>3. ~pbuf'[i].used /\ \A j \in 1..Elements : j # i => pbuf'[j] = pbuf[j]
    BY <1>1, <2>1 DEF Free
  <2>4. pbuf' \in [1..Elements -> ElementType]
    BY <1>1, <2>1, FreeType
  <2>5. \A j \in 1..Elements : pbuf'[j].used => j # i /\ Kept(j)
    BY <2>2, <2>3
  <2>6. NoTwins'
    BY <1>3, <2>3, <2>5
  <2> QED
    BY <1>1, <2>1, <2>4, <2>5, <2>6
<1>7. CASE Found(f) = {} /\ pbuf' = pbuf /\ canOut' = canOut
  <2>1. \A j \in 1..Elements : pbuf[j].used => pbuf[j].id # f.id
    BY <1>7 DEF Found
  <2>2. NoTwins'
    BY <1>7 DEF NoTwins
  <2> QED
    BY <1>1, <1>7, <2>1, <2>2
<1> QED
  BY <1>4, <1>5, <1>6, <1>7 DEF RxBegin

\* What the receiver does with a later frame: the element with its identifier
\* gets the data, is freed with what it has, or is freed and delivered.
LEMMA MoreEffect ==
  ASSUME ReceiverType, NoTwins, NEW f, FrameType(f), RxMore(f)
  PROVE  /\ pbuf' \in [1..Elements -> ElementType]
         /\ \A j \in 1..Elements : pbuf'[j].used =>
              /\ pbuf[j].used
              /\ \/ pbuf'[j] = pbuf[j] /\ pbuf[j].id # f.id
                 \/ /\ pbuf'[j] = Longer(pbuf[j], f) /\ pbuf[j].id = f.id
                    /\ f.remain = pbuf[j].remain - 1
                    /\ pbuf[j].count + f.size < CanLength[pbuf[j].packet]
         /\ NoTwins'
         /\ \/ canOut' = canOut
            \/ \E j \in 1..Elements :
                 /\ pbuf[j].used /\ pbuf[j].id = f.id /\ f.remain = pbuf[j].remain - 1
                 /\ pbuf[j].count + f.size = CanLength[pbuf[j].packet]
                 /\ canOut' = Append(canOut, Delivery(pbuf[j], f))
         /\ canOut' \in Seq([packet : PacketIds, parts : Seq(Parts)])
<1>1. pbuf \in [1..Elements -> ElementType]
      /\ canOut \in Seq([packet : PacketIds, parts : Seq(Parts)])
  BY DEF ReceiverType, ElementType
<1>2. CASE \E i \in Found(f) : AddData(i, pbuf[i], f)
  <2>1. PICK i \in Found(f) : AddData(i, pbuf[i], f)
    BY <1>2
  <2>2. /\ i \in 1..Elements /\ pbuf[i].used /\ pbuf[i].id = f.id
        /\ pbuf[i] \in ElementType /\ pbuf[i].packet \in PacketIds
    BY <1>1 DEF Found, ReceiverType
  <2>3. /\ pbuf' \in [1..Elements -> ElementType]
        /\ \A j \in 1..Elements : j # i => pbuf'[j] = pbuf[j]
        /\ pbuf'[i].used =>
             /\ pbuf'[i] = Longer(pbuf[i], f) /\ f.remain = pbuf[i].remain - 1
             /\ pbuf[i].count + f.size < CanLength[pbuf[i].packet]
        /\ \/ canOut' = canOut
           \/ /\ canOut' = Append(canOut, Delivery(pbuf[i], f)) /\ f.remain = pbuf[i].remain - 1
              /\ pbuf[i].count + f.size = CanLength[pbuf[i].packet]
        /\ canOut' \in Seq([packet : PacketIds, parts : Seq(Parts)])
    BY <2>1, <2>2, AddDataFacts
  <2>4. \A j \in 1..Elements : j # i /\ pbuf[j].used => pbuf[j].id # f.id
    BY <2>2 DEF NoTwins
  <2>5. Longer(pbuf[i], f).id = f.id
    BY <2>2 DEF Longer, ElementType
  <2>6. NoTwins'
    <3>1. pbuf'[i].used => pbuf'[i].id = f.id
      BY <2>3, <2>5
    <3>2. \A j \in 1..Elements : j # i /\ pbuf'[j].used => pbuf'[j] = pbuf[j] /\ pbuf'[j].id # f.id
      BY <2>3, <2>4
    <3> QED
      BY <3>1, <3>2 DEF NoTwins
  <2>7. ASSUME NEW j \in 1..Elements, pbuf'[j].used
        PROVE  /\ pbuf[j].used
               /\ \/ pbuf'[j] = pbuf[j] /\ pbuf[j].id # f.id
                  \/ /\ pbuf'[j] = Longer(pbuf[j], f) /\ pbuf[j].id = f.id
                     /\ f.remain = pbuf[j].remain - 1
                     /\ pbuf[j].count + f.size < CanLength[pbuf[j].packet]
    <3>1. CASE j = i
      BY <2>2, <2>3, <2>7, <3>1
    <3>2. CASE j # i
      BY <2>3, <2>4, <2>7, <3>2
    <3> QED
      BY <3>1, <3>2
  <2> QED
    BY <2>2, <2>3, <2>6, <2>7
<1>3. CASE Found(f) = {} /\ UNCHANGED <<pbuf, canOut>>
  <2>1. pbuf' = pbuf /\ canOut' = canOut
    BY <1>3
  <2>2. \A j \in 1..Elements : pbuf[j].used => pbuf[j].id # f.id
    BY <1>3 DEF Found
  <2>3. NoTwins'
    BY <2>1 DEF NoTwins
  <2> QED
    BY <1>1, <2>1, <2>2, <2>3
<1> QED
  BY <1>2, <1>3 DEF RxMore


----------------------------------------------------------------------------
LEMMA ChainBegins ==
  ASSUME NEW f, FrameType(f), f.offset = 0
  PROVE  Chain(<<Part(f)>>, f.packet, f.size)
<1>1. Len(<<Part(f)>>) = 1 /\ <<Part(f)>>[1] = Part(f)
  OBVIOUS
<1>2. Part(f).packet = f.packet /\ Part(f).offset = 0 /\ Part(f).size = f.size /\ f.size \in Nat
  BY DEF Part, FrameType
<1>3. \A i \in 1..Len(<<Part(f)>>) : i = 1
  BY <1>1
<1>4. \A i \in 1..Len(<<Part(f)>>) - 1 : FALSE
  BY <1>1
<1> QED
  BY <1>1, <1>2, <1>3, <1>4 DEF Chain

LEMMA ChainGrows ==
  ASSUME NEW s \in Seq(Parts), NEW p, NEW end, Chain(s, p, end),
         NEW f, FrameType(f), f.packet = p, f.offset = end
  PROVE  Chain(Append(s, Part(f)), p, end + f.size)
<1> DEFINE a == Append(s, Part(f))
           n == Len(s)
<1>1. n \in Nat /\ Len(a) = n + 1 /\ a[n + 1] = Part(f) /\ \A i \in 1..n : a[i] = s[i]
  BY AppendPart
<1>2. /\ Part(f).packet = p /\ Part(f).offset = end /\ Part(f).size = f.size
  BY DEF Part
<1>3. /\ n > 0 /\ s[1].offset = 0 /\ s[n].offset + s[n].size = end
      /\ \A i \in 1..n : s[i].packet = p
      /\ \A i \in 1..n - 1 : s[i + 1].offset = s[i].offset + s[i].size
  BY DEF Chain
<1> HIDE DEF a, n
<1>4. 1 \in 1..n /\ n \in 1..n
  BY <1>1, <1>3
<1>5. Len(a) > 0 /\ a[1].offset = 0
  BY <1>1, <1>3, <1>4
<1>6. ASSUME NEW i \in 1..Len(a) PROVE a[i].packet = p
  <2>1. i \in 1..n \/ i = n + 1
    BY <1>1
  <2> QED
    BY <1>1, <1>2, <1>3, <2>1
<1>7. ASSUME NEW i \in 1..Len(a) - 1 PROVE a[i + 1].offset = a[i].offset + a[i].size
  <2>1. i \in 1..n /\ a[i] = s[i]
    BY <1>1
  <2>2. CASE i = n
    BY <1>1, <1>2, <1>3, <2>1, <2>2
  <2>3. CASE i # n
    <3>1. i \in 1..n - 1 /\ i + 1 \in 1..n
      BY <1>1, <2>1, <2>3
    <3> QED
      BY <1>1, <1>3, <2>1, <3>1
  <2> QED
    BY <2>2, <2>3
<1>8. a[Len(a)].offset + a[Len(a)].size = end + f.size
  BY <1>1, <1>2
<1>9. Chain(a, p, end + f.size)
  BY <1>5, <1>6, <1>7, <1>8 DEF Chain
<1> QED
  BY <1>9 DEF a

LEMMA ChainWhole ==
  ASSUME NEW s, NEW p, NEW end, Chain(s, p, end)
  PROVE  Whole([packet |-> p, parts |-> s])
BY DEF Chain, Whole

\* How many frames remain tells how many bytes there are, among those counts
\* a sender stops at.
LEMMA CountsAgree ==
  ASSUME NEW p \in PacketIds, NEW c \in Nat, NEW o \in Nat, InStep(c), InStep(o),
         c < CanLength[p], o < CanLength[p], FramesLeft(p, c) = FramesLeft(p, o)
  PROVE  c = o
<1> DEFINE l == CanLength[p]
<1>1. l \in Nat
  BY CanConstants
<1>2. PICK j \in Nat : c = 2 + 8 * j
  BY DEF InStep, MaxBytes, Overhead
<1>3. PICK k \in Nat : o = 2 + 8 * k
  BY DEF InStep, MaxBytes, Overhead
<1>4. FramesLeft(p, c) = (l - c + 7) \div 8 /\ FramesLeft(p, o) = (l - o + 7) \div 8
  BY <1>1 DEF FramesLeft, MaxBytes
<1> HIDE DEF l
<1>5. (l - c + 7) \div 8 = (l + 5) \div 8 - j
  BY <1>1, <1>2
<1>6. (l - o + 7) \div 8 = (l + 5) \div 8 - k
  BY <1>1, <1>3
<1>7. (l + 5) \div 8 \in Int
  BY <1>1
<1>8. j = k
  <2>1. \A q \in Int : q - j = q - k => j = k
    OBVIOUS
  <2> QED
    BY <1>4, <1>5, <1>6, <1>7, <2>1
<1> QED
  BY <1>2, <1>3, <1>8

\* The element of a task's packet that takes its next frame is where the task is.
LEMMA ElementGoesOn ==
  ASSUME SenderType, Senders, NEW t \in CanTasks, csend[t].at = "more", NEW f, f = Frame(t),
         NEW e \in ElementType, ElementOK(e), e.packet = f.packet, f.remain = e.remain - 1
  PROVE  /\ e.count = f.offset
         /\ Chain(Append(e.parts, Part(f)), e.packet, e.count + f.size)
         /\ e.count + f.size < CanLength[e.packet] => ElementOK(Longer(e, f))
<1>1. /\ f.packet \in PacketIds /\ f.packet \in 1..Len(packets)
      /\ f.offset \in Nat /\ f.size \in Nat /\ f.remain \in Int /\ f.id \in Nat \X Nat
      /\ f.offset < CanLength[f.packet] /\ InStep(f.offset)
      /\ f.remain = FramesLeft(f.packet, f.offset) - 1
      /\ f.offset + f.size < CanLength[f.packet] =>
           InStep(f.offset + f.size) /\ f.remain = FramesLeft(f.packet, f.offset + f.size)
  BY FrameFacts
<1>2. e.remain \in Int /\ e.count \in Nat /\ e.parts \in Seq(Parts) /\ CanLength[f.packet] \in Nat
  BY <1>1, CanConstants DEF ElementType
<1>3. FramesLeft(f.packet, f.offset) \in Int
  <2>1. \A l, o \in Nat : o < l => (l - o + 8 - 1) \div 8 \in Int
    OBVIOUS
  <2>2. (CanLength[f.packet] - f.offset + 8 - 1) \div 8 \in Int
    BY <1>1, <1>2, <2>1
  <2> QED
    BY <2>2 DEF FramesLeft, MaxBytes
<1>4. /\ e.remain = FramesLeft(f.packet, e.count) /\ InStep(e.count)
      /\ e.count < CanLength[f.packet] /\ Chain(e.parts, e.packet, e.count)
      /\ e.id = packets[e.packet]
  BY DEF ElementOK
<1>5. FramesLeft(f.packet, e.count) = FramesLeft(f.packet, f.offset)
  <2>1. \A x, y, z \in Int : z = x - 1 /\ z = y - 1 => x = y
    OBVIOUS
  <2> QED
    BY <1>1, <1>2, <1>3, <1>4, <2>1
<1>6. e.count = f.offset
  BY <1>1, <1>2, <1>4, <1>5, CountsAgree
<1>7. Chain(Append(e.parts, Part(f)), e.packet, e.count + f.size)
  <2>1. FrameType(f)
    BY <1>1 DEF FrameType
  <2> QED
    BY <1>2, <1>4, <1>6, <2>1, ChainGrows
<1>8. ASSUME e.count + f.size < CanLength[e.packet] PROVE ElementOK(Longer(e, f))
  <2>1. /\ Longer(e, f).packet = e.packet /\ Longer(e, f).id = e.id
        /\ Longer(e, f).remain = e.remain - 1 /\ Longer(e, f).count = e.count + f.size
        /\ Longer(e, f).parts = Append(e.parts, Part(f))
    BY DEF Longer, ElementType
  <2>2. InStep(e.count + f.size) /\ f.remain = FramesLeft(e.packet, e.count + f.size)
    BY <1>1, <1>6, <1>8
  <2> QED
    BY <1>1, <1>4, <1>7, <1>8, <2>1, <2>2 DEF ElementOK
<1> QED
  BY <1>6, <1>7, <1>8

LEMMA BegunOK ==
  ASSUME SenderType, Senders, NEW t \in CanTasks, csend[t].at = "begin", NEW f, f = Frame(t),
         f.size < CanLength[f.packet]
  PROVE  ElementOK(Begun(f))
<1>1. /\ f.packet \in PacketIds /\ f.packet \in 1..Len(packets) /\ f.id = packets[f.packet]
      /\ f.offset = 0 /\ f.size \in Nat /\ f.remain \in Int /\ f.id \in Nat \X Nat
      /\ f.offset + f.size < CanLength[f.packet] =>
           InStep(f.offset + f.size) /\ f.remain = FramesLeft(f.packet, f.offset + f.size)
  BY FrameFacts
<1>2. f.offset + f.size = f.size
  BY <1>1
<1>3. Chain(<<Part(f)>>, f.packet, f.size)
  BY <1>1, ChainBegins DEF FrameType
<1> QED
  BY <1>1, <1>2, <1>3 DEF ElementOK, Begun

LEMMA DeliveredWhole ==
  ASSUME ReceiverType, AllWhole, NEW w \in [packet : PacketIds, parts : Seq(Parts)], Whole(w),
         canOut' = Append(canOut, w)
  PROVE  AllWhole'
<1>1. canOut \in Seq([packet : PacketIds, parts : Seq(Parts)])
  BY DEF ReceiverType
<1>2. /\ Len(canOut) \in Nat /\ Len(canOut') = Len(canOut) + 1
      /\ \A k \in 1..Len(canOut) : canOut'[k] = canOut[k]
      /\ canOut'[Len(canOut) + 1] = w
  BY <1>1, AppendProperties
<1>3. ASSUME NEW k \in 1..Len(canOut') PROVE Whole(canOut'[k])
  <2>1. k \in 1..Len(canOut) \/ k = Len(canOut) + 1
    BY <1>2
  <2> QED
    BY <1>2, <2>1 DEF AllWhole
<1> QED
  BY <1>3 DEF AllWhole


----------------------------------------------------------------------------
\* The steps.  Each part of the invariant is kept by each step.

Assumed == Distinct \/ Careful

LEMMA FrameIsTyped ==
  ASSUME SenderType, Senders, NEW t \in CanTasks, csend[t].at \in {"begin", "more"},
         NEW f, f = Frame(t)
  PROVE  FrameType(f)
BY FrameFacts DEF FrameType

\* What every step that sends does to its task and to nobody else's.
LEMMA SendersKept ==
  ASSUME SenderType, Senders, NEW t \in CanTasks, csend[t].at \in {"begin", "more"},
         Sent(t, Frame(t)) \/ csend' = [csend EXCEPT ![t] = NotSending],
         UNCHANGED <<frameId, packets, clash>>, canFaults' \in Nat
  PROVE  /\ SenderType' /\ Senders'
         /\ \A u \in CanTasks : u # t => csend'[u] = csend[u]
         /\ csend'[t].at = "more" =>
              /\ csend'[t].packet = csend[t].packet /\ csend'[t].ident = csend[t].ident
              /\ csend'[t].count = Frame(t).offset + Frame(t).size
              /\ csend'[t].count < CanLength[csend[t].packet]
         /\ csend'[t].at \in {"idle", "more"}
         /\ Sent(t, Frame(t)) /\ Frame(t).offset + Frame(t).size < CanLength[csend[t].packet] =>
              csend'[t].at = "more"
<1> DEFINE f == Frame(t)
           Records == [at : {"idle", "read", "begin", "more"}, packet : Nat, ident : Nat,
                       count : Nat]
<1>1. /\ f.packet = csend[t].packet /\ csend[t].packet \in 1..Len(packets)
      /\ csend[t].packet \in PacketIds /\ f.offset \in Nat /\ f.size \in Nat
      /\ f.offset + f.size < CanLength[csend[t].packet] => InStep(f.offset + f.size)
  BY FrameFacts
<1>2. /\ \A u \in CanTasks : u # t => csend'[u] = csend[u]
      /\ csend' \in [CanTasks -> Records]
      /\ \/ csend'[t] = NotSending
         \/ /\ f.offset + f.size < CanLength[f.packet]
            /\ csend'[t] = [at |-> "more", packet |-> csend[t].packet,
                            ident |-> csend[t].ident, count |-> f.offset + f.size]
      /\ Sent(t, f) /\ f.offset + f.size < CanLength[f.packet] => csend'[t].at = "more"
  <2> HIDE DEF f
  <2>1. CASE Sent(t, f)
    BY <1>1, <2>1, SentFacts
  <2>2. CASE csend' = [csend EXCEPT ![t] = NotSending]
    <3>1. csend \in [CanTasks -> Records] /\ NotSending \in Records
      BY DEF SenderType, NotSending
    <3> HIDE DEF Records
    <3>2. /\ csend' \in [CanTasks -> Records] /\ csend'[t] = NotSending
          /\ \A u \in CanTasks : u # t => csend'[u] = csend[u]
      BY <2>2, <3>1
    <3>3. ASSUME Sent(t, f), f.offset + f.size < CanLength[f.packet] PROVE csend'[t].at = "more"
      <4>1. csend'[t] = IF f.offset + f.size < CanLength[f.packet]
                        THEN [at |-> "more", packet |-> csend[t].packet,
                              ident |-> csend[t].ident, count |-> f.offset + f.size]
                        ELSE NotSending
        BY <1>1, <3>3, SentFacts
      <4> QED
        BY <3>3, <4>1
    <3> QED
      BY <3>2, <3>3 DEF Records
  <2> QED
    BY <2>1, <2>2 DEF f
<1> HIDE DEF f
<1>3. SenderType'
  BY <1>2 DEF SenderType
<1>4. /\ csend'[t].at \in {"idle", "more"}
      /\ csend'[t].at = "more" =>
           /\ csend'[t].packet = csend[t].packet /\ csend'[t].ident = csend[t].ident
           /\ csend'[t].count = f.offset + f.size
           /\ csend'[t].count < CanLength[csend[t].packet]
  BY <1>1, <1>2 DEF NotSending
<1>5. packets[csend[t].packet] = <<CanNode[t], csend[t].ident>>
  BY BusyFacts DEF Busy
<1>6. \A u \in CanTasks : SenderOK(u)'
  <2>1. ASSUME NEW u \in CanTasks, u # t PROVE SenderOK(u)'
    <3>1. csend'[u] = csend[u] /\ packets' = packets /\ SenderOK(u)
      BY <1>2, <2>1 DEF Senders
    <3> QED
      BY <3>1 DEF SenderOK, Busy
  <2>2. SenderOK(t)'
    <3>1. packets' = packets
      OBVIOUS
    <3>2. csend'[t].at = "more" => InStep(csend'[t].count)
      BY <1>1, <1>4
    <3> QED
      BY <1>1, <1>4, <1>5, <3>1, <3>2 DEF SenderOK, Busy
  <2> QED
    BY <2>1, <2>2
<1>7. ASSUME clash' = {}, NEW u \in CanTasks, NEW v \in CanTasks, Busy(u)', Busy(v)',
             CanNode[u] = CanNode[v], csend'[u].ident = csend'[v].ident
      PROVE  u = v
  <2>1. ASSUME NEW w \in CanTasks, Busy(w)' PROVE Busy(w) /\ csend'[w].ident = csend[w].ident
    <3>1. CASE w = t
      BY <1>4, <2>1, <3>1 DEF Busy
    <3>2. CASE w # t
      BY <1>2, <2>1, <3>2 DEF Busy
    <3> QED
      BY <3>1, <3>2
  <2>2. clash = {}
    BY <1>7
  <2> QED
    BY <1>7, <2>1, <2>2 DEF Senders
<1>8. Senders'
  BY <1>6, <1>7 DEF Senders
<1> QED
  BY <1>1, <1>2, <1>3, <1>4, <1>8 DEF f

\* An element with a task's identifier is for its packet, if no packet has the
\* identifier of another.
LEMMA SameIdentSamePacket ==
  ASSUME SenderType, Senders, Distinct, NEW t \in CanTasks, Busy(t),
         NEW e, ElementOK(e), e.id = <<CanNode[t], csend[t].ident>>
  PROVE  e.packet = csend[t].packet
BY BusyFacts DEF ElementOK, Distinct


\* Careful's Matched and Alive speak of the identifiers that tasks send with.
LEMMA OneSender ==
  ASSUME Senders, clash = {}, NEW t \in CanTasks, NEW u \in CanTasks, Busy(t), Busy(u),
         CanNode[t] = CanNode[u], csend[t].ident = csend[u].ident
  PROVE  t = u
BY DEF Senders

LEMMA ElementsKept ==
  ASSUME packets' = packets, \A j \in 1..Elements : pbuf'[j].used => ElementOK(pbuf'[j])
  PROVE  ElementsOK'
BY DEF ElementsOK, ElementOK, FramesLeft, Chain, InStep

LEMMA BeginStep ==
  ASSUME CanInv, NEW t \in CanTasks, SendBegin(t)
  PROVE  CanInv'
<1> DEFINE f == Frame(t)
           l == CanLength[csend[t].packet]
<1> USE DEF CanInv
<1>1. csend[t].at = "begin" /\ Sent(t, f) /\ RxBegin(f) /\ UNCHANGED <<frameId, packets, clash, canFaults>>
  BY DEF SendBegin
<1>2. /\ f.id = <<CanNode[t], csend[t].ident>> /\ f.packet = csend[t].packet
      /\ f.packet \in PacketIds /\ f.offset = 0 /\ f.size \in Nat /\ FrameType(f)
  BY <1>1, FrameFacts, FrameIsTyped
<1> HIDE DEF f
<1>3. /\ SenderType' /\ Senders'
      /\ \A u \in CanTasks : u # t => csend'[u] = csend[u]
      /\ csend'[t].at = "more" =>
           /\ csend'[t].packet = csend[t].packet /\ csend'[t].ident = csend[t].ident
           /\ csend'[t].count = f.offset + f.size
      /\ f.offset + f.size < l => csend'[t].at = "more"
  <2>1. canFaults' \in Nat
    BY <1>1 DEF SenderType
  <2> QED
    BY <1>1, <2>1, SendersKept DEF f
<1>4. /\ pbuf' \in [1..Elements -> ElementType]
      /\ \A j \in 1..Elements : pbuf'[j].used =>
           \/ pbuf'[j] = pbuf[j] /\ pbuf[j].id # f.id
           \/ pbuf'[j] = Begun(f) /\ f.size < CanLength[f.packet]
      /\ NoTwins'
      /\ \/ canOut' = canOut
         \/ canOut' = Append(canOut, [packet |-> f.packet, parts |-> <<Part(f)>>])
      /\ canOut' \in Seq([packet : PacketIds, parts : Seq(Parts)])
  BY <1>1, <1>2, BeginEffect
<1>5. /\ Begun(f).packet = f.packet /\ Begun(f).id = f.id /\ Begun(f).count = f.size
  BY DEF Begun
<1>6. ReceiverType'
  <2>1. \A j \in 1..Elements : pbuf'[j].used => pbuf'[j].packet \in PacketIds
    BY <1>2, <1>4, <1>5 DEF ReceiverType
  <2> QED
    BY <1>4, <2>1 DEF ReceiverType
<1>7. ASSUME Assumed' PROVE ElementsOK' /\ Matched' /\ Alive' /\ AllWhole'
  <2>1. Assumed /\ (Careful' => Careful) /\ packets' = packets /\ clash' = clash /\ canFaults' = canFaults
    BY <1>1, <1>7 DEF Assumed, Distinct, Careful
  <2>2. ElementsOK /\ Matched /\ Alive /\ AllWhole
    BY <2>1 DEF CanSafe, Assumed
  <2>3. ASSUME NEW j \in 1..Elements, pbuf'[j].used PROVE ElementOK(pbuf'[j])
    <3>1. CASE pbuf'[j] = pbuf[j]
      BY <2>2, <2>3, <3>1 DEF ElementsOK
    <3>2. CASE pbuf'[j] = Begun(f) /\ f.size < CanLength[f.packet]
      BY <1>1, <3>2, BegunOK DEF f
    <3> QED
      BY <1>4, <2>3, <3>1, <3>2
  <2>4. Matched'
    <3> SUFFICES ASSUME Careful', NEW u \in CanTasks, NEW i \in 1..Elements,
                        csend'[u].at = "more", pbuf'[i].used,
                        pbuf'[i].id = <<CanNode[u], csend'[u].ident>>
                 PROVE  pbuf'[i].packet = csend'[u].packet
      BY DEF Matched
    <3>1. Careful /\ clash = {}
      BY <2>1 DEF Careful
    <3>2. CASE u = t
      <4>1. csend'[t].packet = csend[t].packet /\ csend'[t].ident = csend[t].ident
        BY <1>3, <3>2
      <4>2. pbuf'[i].id = f.id
        BY <1>2, <3>2, <4>1
      <4>3. pbuf'[i] = Begun(f)
        BY <1>4, <4>2
      <4> QED
        BY <1>2, <1>5, <3>2, <4>1, <4>3
    <3>3. CASE u # t
      <4>1. csend'[u] = csend[u] /\ csend[u].at = "more"
        BY <1>3, <3>3
      <4>2. CASE pbuf'[i] = pbuf[i]
        BY <2>2, <3>1, <4>1, <4>2 DEF Matched
      <4>3. CASE pbuf'[i] = Begun(f)
        <5>1. CanNode[u] = CanNode[t] /\ csend[u].ident = csend[t].ident
          BY <1>2, <1>5, <4>1, <4>3
        <5> QED
          BY <1>1, <3>1, <3>3, <4>1, <5>1, OneSender DEF Busy
      <4> QED
        BY <1>4, <4>2, <4>3
    <3> QED
      BY <3>2, <3>3
  <2>5. Alive'
    <3> SUFFICES ASSUME clash' = {}, canFaults' = 0, NEW i \in 1..Elements, pbuf'[i].used
                 PROVE  \E u \in CanTasks : /\ csend'[u].at = "more"
                                            /\ csend'[u].packet = pbuf'[i].packet
                                            /\ csend'[u].count = pbuf'[i].count
      BY DEF Alive
    <3>1. clash = {} /\ canFaults = 0
      BY <2>1
    <3>2. CASE pbuf'[i] = pbuf[i]
      <4>1. PICK u \in CanTasks : /\ csend[u].at = "more" /\ csend[u].packet = pbuf[i].packet
                                  /\ csend[u].count = pbuf[i].count
        BY <2>2, <3>1, <3>2 DEF Alive
      <4>2. u # t
        BY <1>1, <4>1
      <4> QED
        BY <1>3, <3>2, <4>1, <4>2
    <3>3. CASE pbuf'[i] = Begun(f) /\ f.size < CanLength[f.packet]
      <4>1. f.offset + f.size = f.size
        BY <1>2
      <4>2. csend'[t].at = "more"
        BY <1>2, <1>3, <3>3, <4>1
      <4> QED
        BY <1>2, <1>3, <1>5, <3>3, <4>1, <4>2
    <3> QED
      BY <1>4, <3>2, <3>3
  <2>6. AllWhole'
    <3>1. CASE canOut' = canOut
      BY <2>2, <3>1 DEF AllWhole
    <3>2. CASE canOut' = Append(canOut, [packet |-> f.packet, parts |-> <<Part(f)>>])
      <4> DEFINE w == [packet |-> f.packet, parts |-> <<Part(f)>>]
      <4>1. Whole(w)
        BY <1>2, ChainBegins, ChainWhole
      <4>2. w \in [packet : PacketIds, parts : Seq(Parts)]
        <5>1. <<Part(f)>> \in Seq(Parts)
          BY <1>2 DEF FrameType, Part, Parts
        <5> QED
          BY <1>2, <5>1
      <4> HIDE DEF w
      <4> QED
        BY <2>2, <3>2, <4>1, <4>2, DeliveredWhole DEF w
    <3> QED
      BY <1>4, <3>1, <3>2
  <2>7. ElementsOK'
    BY <2>1, <2>3, ElementsKept
  <2> QED
    BY <2>4, <2>5, <2>6, <2>7
<1> QED
  BY <1>3, <1>4, <1>6, <1>7 DEF CanSafe, Assumed


LEMMA MoreStep ==
  ASSUME CanInv, NEW t \in CanTasks, SendMore(t)
  PROVE  CanInv'
<1> DEFINE f == Frame(t)
           l == CanLength[csend[t].packet]
<1> USE DEF CanInv
<1>1. csend[t].at = "more" /\ Sent(t, f) /\ RxMore(f) /\ UNCHANGED <<frameId, packets, clash, canFaults>>
  BY DEF SendMore
<1>2. /\ f.id = <<CanNode[t], csend[t].ident>> /\ f.packet = csend[t].packet
      /\ f.packet \in PacketIds /\ f.size \in Nat /\ f.offset \in Nat /\ FrameType(f)
      /\ f.packet \in 1..Len(packets) /\ f.id = packets[f.packet]
  BY <1>1, FrameFacts, FrameIsTyped
<1> HIDE DEF f
<1>3. /\ SenderType' /\ Senders'
      /\ \A u \in CanTasks : u # t => csend'[u] = csend[u]
      /\ csend'[t].at = "more" =>
           /\ csend'[t].packet = csend[t].packet /\ csend'[t].ident = csend[t].ident
           /\ csend'[t].count = f.offset + f.size
      /\ f.offset + f.size < l => csend'[t].at = "more"
  <2>1. canFaults' \in Nat
    BY <1>1 DEF SenderType
  <2> QED
    BY <1>1, <2>1, SendersKept DEF f
<1>4. /\ pbuf' \in [1..Elements -> ElementType]
      /\ \A j \in 1..Elements : pbuf'[j].used =>
           /\ pbuf[j].used
           /\ \/ pbuf'[j] = pbuf[j] /\ pbuf[j].id # f.id
              \/ /\ pbuf'[j] = Longer(pbuf[j], f) /\ pbuf[j].id = f.id
                 /\ f.remain = pbuf[j].remain - 1
                 /\ pbuf[j].count + f.size < CanLength[pbuf[j].packet]
      /\ NoTwins'
      /\ \/ canOut' = canOut
         \/ \E j \in 1..Elements :
              /\ pbuf[j].used /\ pbuf[j].id = f.id /\ f.remain = pbuf[j].remain - 1
              /\ pbuf[j].count + f.size = CanLength[pbuf[j].packet]
              /\ canOut' = Append(canOut, Delivery(pbuf[j], f))
      /\ canOut' \in Seq([packet : PacketIds, parts : Seq(Parts)])
  BY <1>1, <1>2, MoreEffect
<1>5. ASSUME NEW e \in ElementType
      PROVE  /\ Longer(e, f).packet = e.packet /\ Longer(e, f).id = e.id
             /\ Longer(e, f).count = e.count + f.size
  BY DEF Longer, ElementType
<1>6. \A j \in 1..Elements : pbuf[j] \in ElementType /\ (pbuf[j].used => pbuf[j].packet \in PacketIds)
  BY DEF ReceiverType
<1>7. \A j \in 1..Elements : pbuf'[j].used =>
        pbuf[j].used /\ pbuf'[j].packet = pbuf[j].packet /\ pbuf'[j].id = pbuf[j].id
  BY <1>4, <1>5, <1>6
<1>8. ReceiverType'
  <2>1. \A j \in 1..Elements : pbuf'[j].used => pbuf'[j].packet \in PacketIds
    BY <1>6, <1>7
  <2> QED
    BY <1>4, <2>1 DEF ReceiverType
<1>9. ASSUME Assumed' PROVE ElementsOK' /\ Matched' /\ Alive' /\ AllWhole'
  <2>1. Assumed /\ (Careful' => Careful) /\ packets' = packets /\ clash' = clash /\ canFaults' = canFaults
    BY <1>1, <1>9 DEF Assumed, Distinct, Careful
  <2>2. ElementsOK /\ Matched /\ Alive /\ AllWhole
    BY <2>1 DEF CanSafe, Assumed
  \* The element that takes the frame is for the task's packet.
  <2>3. ASSUME NEW j \in 1..Elements, pbuf[j].used, pbuf[j].id = f.id
        PROVE  pbuf[j].packet = f.packet /\ ElementOK(pbuf[j])
    <3>1. ElementOK(pbuf[j])
      BY <2>2, <2>3 DEF ElementsOK
    <3>2. CASE Distinct
      BY <1>1, <1>2, <2>3, <3>1, <3>2, SameIdentSamePacket DEF Busy
    <3>3. CASE Careful
      <4>1. pbuf[j].id = <<CanNode[t], csend[t].ident>>
        BY <1>2, <2>3
      <4>2. pbuf[j].packet = csend[t].packet
        BY <1>1, <2>2, <2>3, <3>3, <4>1 DEF Matched
      <4> QED
        BY <1>2, <3>1, <4>2
    <3> QED
      BY <2>1, <3>1, <3>2, <3>3 DEF Assumed
  <2>4. ASSUME NEW j \in 1..Elements, pbuf[j].used, pbuf[j].id = f.id, f.remain = pbuf[j].remain - 1
        PROVE  /\ pbuf[j].count = f.offset
               /\ Chain(Append(pbuf[j].parts, Part(f)), pbuf[j].packet, pbuf[j].count + f.size)
               /\ pbuf[j].count + f.size < CanLength[pbuf[j].packet] => ElementOK(Longer(pbuf[j], f))
    <3> DEFINE e == pbuf[j]
    <3>1. e \in ElementType /\ e.packet = f.packet /\ ElementOK(e) /\ f.remain = e.remain - 1
      BY <1>6, <2>3, <2>4
    <3> HIDE DEF e
    <3>2. /\ e.count = f.offset
          /\ Chain(Append(e.parts, Part(f)), e.packet, e.count + f.size)
          /\ e.count + f.size < CanLength[e.packet] => ElementOK(Longer(e, f))
      BY <1>1, <3>1, ElementGoesOn DEF f
    <3> QED
      BY <3>2 DEF e
  <2>5. ElementsOK'
    <3>1. ASSUME NEW j \in 1..Elements, pbuf'[j].used PROVE ElementOK(pbuf'[j])
      <4>1. CASE pbuf'[j] = pbuf[j]
        BY <1>4, <2>2, <3>1, <4>1 DEF ElementsOK
      <4>2. CASE /\ pbuf'[j] = Longer(pbuf[j], f) /\ pbuf[j].id = f.id
                 /\ f.remain = pbuf[j].remain - 1
                 /\ pbuf[j].count + f.size < CanLength[pbuf[j].packet]
        BY <1>4, <2>4, <3>1, <4>2
      <4> QED
        BY <1>4, <3>1, <4>1, <4>2
    <3> QED
      BY <2>1, <3>1, ElementsKept
  <2>6. Matched'
    <3> SUFFICES ASSUME Careful', NEW u \in CanTasks, NEW i \in 1..Elements,
                        csend'[u].at = "more", pbuf'[i].used,
                        pbuf'[i].id = <<CanNode[u], csend'[u].ident>>
                 PROVE  pbuf'[i].packet = csend'[u].packet
      BY DEF Matched
    <3>1. Careful
      BY <2>1
    <3>2. csend[u].at = "more" /\ csend'[u].packet = csend[u].packet /\ csend'[u].ident = csend[u].ident
      BY <1>1, <1>3
    <3> QED
      BY <1>7, <2>2, <3>1, <3>2 DEF Matched
  <2>7. Alive'
    <3> SUFFICES ASSUME clash' = {}, canFaults' = 0, NEW i \in 1..Elements, pbuf'[i].used
                 PROVE  \E u \in CanTasks : /\ csend'[u].at = "more"
                                            /\ csend'[u].packet = pbuf'[i].packet
                                            /\ csend'[u].count = pbuf'[i].count
      BY DEF Alive
    <3>1. pbuf[i].used /\ ElementOK(pbuf[i])
      BY <1>4, <2>2 DEF ElementsOK
    <3>2. CASE pbuf'[i] = pbuf[i] /\ pbuf[i].id # f.id
      <4>1. PICK u \in CanTasks : /\ csend[u].at = "more" /\ csend[u].packet = pbuf[i].packet
                                  /\ csend[u].count = pbuf[i].count
        BY <2>1, <2>2, <3>1 DEF Alive
      <4>2. u # t
        BY <1>2, <3>1, <3>2, <4>1 DEF ElementOK
      <4> QED
        BY <1>3, <3>2, <4>1, <4>2
    <3>3. CASE /\ pbuf'[i] = Longer(pbuf[i], f) /\ pbuf[i].id = f.id
               /\ f.remain = pbuf[i].remain - 1
               /\ pbuf[i].count + f.size < CanLength[pbuf[i].packet]
      <4>1. pbuf[i].packet = csend[t].packet /\ pbuf[i].count = f.offset
        BY <1>2, <2>3, <2>4, <3>1, <3>3
      <4>2. csend'[t].at = "more" /\ csend'[t].packet = csend[t].packet
            /\ csend'[t].count = f.offset + f.size
        BY <1>3, <3>3, <4>1
      <4>3. pbuf'[i].packet = pbuf[i].packet /\ pbuf'[i].count = f.offset + f.size
        BY <1>5, <1>6, <3>3, <4>1
      <4> QED
        BY <4>1, <4>2, <4>3
    <3> QED
      BY <1>4, <3>2, <3>3
  <2>8. AllWhole'
    <3>1. CASE canOut' = canOut
      BY <2>2, <3>1 DEF AllWhole
    <3>2. ASSUME NEW j \in 1..Elements, pbuf[j].used, pbuf[j].id = f.id,
                 f.remain = pbuf[j].remain - 1, canOut' = Append(canOut, Delivery(pbuf[j], f))
          PROVE  AllWhole'
      <4>1. Whole(Delivery(pbuf[j], f))
        BY <2>4, <3>2, ChainWhole DEF Delivery
      <4>2. Delivery(pbuf[j], f) \in [packet : PacketIds, parts : Seq(Parts)]
        <5>1. pbuf[j].packet \in PacketIds /\ pbuf[j].parts \in Seq(Parts)
          BY <1>6, <3>2 DEF ElementType
        <5>2. Append(pbuf[j].parts, Part(f)) \in Seq(Parts)
          BY <1>2, <5>1, AppendPart
        <5> QED
          BY <5>1, <5>2 DEF Delivery
      <4> QED
        BY <2>2, <3>2, <4>1, <4>2, DeliveredWhole
    <3> QED
      BY <1>4, <3>1, <3>2
  <2> QED
    BY <2>5, <2>6, <2>7, <2>8
<1> QED
  BY <1>3, <1>4, <1>8, <1>9 DEF CanSafe, Assumed

LEMMA LostStep ==
  ASSUME CanInv, NEW t \in CanTasks, SendLost(t)
  PROVE  CanInv'
<1> DEFINE f == Frame(t)
<1> USE DEF CanInv
<1>1. /\ csend[t].at \in {"begin", "more"}
      /\ Sent(t, f) \/ csend' = [csend EXCEPT ![t] = NotSending]
      /\ canFaults' = canFaults + 1 /\ UNCHANGED <<frameId, packets, pbuf, canOut, clash>>
  BY DEF SendLost
<1>2. canFaults \in Nat /\ canFaults' \in Nat /\ canFaults' # 0
  BY <1>1 DEF SenderType
<1>3. /\ SenderType' /\ Senders'
      /\ \A u \in CanTasks : u # t => csend'[u] = csend[u]
      /\ csend'[t].at = "more" =>
           csend'[t].packet = csend[t].packet /\ csend'[t].ident = csend[t].ident
  BY <1>1, <1>2, SendersKept
<1>4. ReceiverType' /\ NoTwins'
  BY <1>1 DEF ReceiverType, NoTwins
<1>5. ASSUME Assumed' PROVE ElementsOK' /\ Matched' /\ Alive' /\ AllWhole'
  <2>1. Assumed /\ packets' = packets /\ clash' = clash
    BY <1>1, <1>2, <1>5 DEF Assumed, Distinct, Careful
  <2>2. ElementsOK /\ Matched /\ Alive /\ AllWhole
    BY <2>1 DEF CanSafe, Assumed
  <2>3. ElementsOK' /\ AllWhole'
    BY <1>1, <2>2, ElementsKept DEF ElementsOK, AllWhole
  <2>4. Alive'
    BY <1>2 DEF Alive
  <2>5. Matched'
    <3> SUFFICES ASSUME Careful', NEW u \in CanTasks, NEW i \in 1..Elements,
                        csend'[u].at = "more", pbuf'[i].used,
                        pbuf'[i].id = <<CanNode[u], csend'[u].ident>>
                 PROVE  pbuf'[i].packet = csend'[u].packet
      BY DEF Matched
    <3>1. Careful /\ clash = {} /\ canFaults = 0 /\ pbuf' = pbuf
      BY <1>1, <1>2, <2>1 DEF Careful
    <3>2. CASE csend[u].at = "more"
      <4>1. csend'[u].packet = csend[u].packet /\ csend'[u].ident = csend[u].ident
        BY <1>3
      <4> QED
        BY <2>2, <3>1, <3>2, <4>1 DEF Matched
    \* Its first frame was lost, and without a fault before no element has the
    \* identifier.
    <3>3. CASE csend[u].at # "more"
      <4>1. u = t /\ csend'[t].ident = csend[t].ident
        BY <1>3, <3>3
      <4>2. ElementOK(pbuf[i]) /\ pbuf[i].used
        BY <2>2, <3>1 DEF ElementsOK
      <4>3. PICK v \in CanTasks : csend[v].at = "more" /\ csend[v].packet = pbuf[i].packet
        BY <2>2, <3>1, <4>2 DEF Alive
      <4>4. <<CanNode[v], csend[v].ident>> = <<CanNode[t], csend[t].ident>>
        <5>1. packets[csend[v].packet] = <<CanNode[v], csend[v].ident>>
          BY <4>3, BusyFacts DEF Busy
        <5>2. pbuf[i].id = packets[csend[v].packet]
          BY <4>2, <4>3 DEF ElementOK
        <5> QED
          BY <3>1, <4>1, <5>1, <5>2
      <4>5. v = t
        BY <1>1, <3>1, <4>3, <4>4, OneSender DEF Busy
      <4> QED
        BY <3>3, <4>1, <4>3, <4>5
    <3> QED
      BY <3>2, <3>3
  <2> QED
    BY <2>3, <2>4, <2>5
<1> QED
  BY <1>3, <1>4, <1>5 DEF CanSafe, Assumed


LEMMA ReadStep ==
  ASSUME CanInv, NEW t \in CanTasks, ReadIdent(t)
  PROVE  CanInv'
<1> DEFINE ident == frameId[CanNode[t]]
           n == Len(packets) + 1
           same == {u \in CanTasks : CanNode[u] = CanNode[t] /\ Busy(u) /\ csend[u].ident = ident}
           new == [at |-> "read", packet |-> n, ident |-> ident, count |-> 0]
           Records == [at : {"idle", "read", "begin", "more"}, packet : Nat, ident : Nat,
                       count : Nat]
<1> USE DEF CanInv
<1>1. /\ csend[t].at = "idle" /\ n <= Len(CanLength)
      /\ csend' = [csend EXCEPT ![t] = new]
      /\ packets' = Append(packets, <<CanNode[t], ident>>)
      /\ clash' = clash \cup IF same = {} THEN {} ELSE {n} \cup {csend[u].packet : u \in same}
      /\ UNCHANGED <<frameId, pbuf, canOut, hit, canFaults>>
  BY DEF ReadIdent, Busy
<1>2. /\ csend \in [CanTasks -> Records] /\ packets \in Seq(Nodes \X Nat)
      /\ ident \in Nat /\ CanNode[t] \in Nodes
  BY CanConstants DEF SenderType
<1>3. /\ Len(packets) \in Nat /\ n \in Nat /\ packets' \in Seq(Nodes \X Nat)
      /\ Len(packets') = n /\ packets'[n] = <<CanNode[t], ident>>
      /\ \A k \in 1..Len(packets) : packets'[k] = packets[k]
  <2>1. <<CanNode[t], ident>> \in Nodes \X Nat
    BY <1>2
  <2> HIDE DEF ident
  <2> QED
    BY <1>1, <1>2, <2>1, AppendProperties
<1>4. new \in Records
  BY <1>2, <1>3
<1> HIDE DEF Records
<1>5. /\ csend' \in [CanTasks -> Records] /\ csend'[t] = new
      /\ \A u \in CanTasks : u # t => csend'[u] = csend[u]
  BY <1>1, <1>2, <1>4
<1>6. SenderType'
  <2>1. frameId' \in [Nodes -> Nat] /\ canFaults' \in Nat
    BY <1>1 DEF SenderType
  <2>2. Len(packets') <= Len(CanLength)
    BY <1>1, <1>3
  <2> QED
    BY <1>3, <1>5, <2>1, <2>2 DEF SenderType, Records
<1> HIDE DEF n, ident
<1>7. ASSUME NEW u \in CanTasks PROVE SenderOK(u)'
  <2>1. CASE u = t
    <3>1. /\ csend'[t].at = "read" /\ csend'[t].count = 0 /\ csend'[t].packet = n
          /\ csend'[t].ident = ident /\ n \in 1..Len(packets')
      BY <1>3, <1>5 DEF n
    <3> QED
      BY <1>3, <2>1, <3>1 DEF SenderOK, Busy
  <2>2. CASE u # t
    <3>1. csend'[u] = csend[u] /\ SenderOK(u)
      BY <1>5, <2>2 DEF Senders
    <3>2. \A k \in 1..Len(packets) : k \in 1..Len(packets') /\ packets'[k] = packets[k]
      BY <1>3 DEF n
    <3> QED
      BY <3>1, <3>2 DEF SenderOK, Busy
  <2> QED
    BY <2>1, <2>2
<1>8. ASSUME clash' = {} PROVE clash = {} /\ same = {}
  <2> HIDE DEF same
  <2> QED
    BY <1>1, <1>8
<1>9. Senders'
  <2>1. ASSUME clash' = {}, NEW u \in CanTasks, NEW v \in CanTasks, Busy(u)', Busy(v)',
               CanNode[u] = CanNode[v], csend'[u].ident = csend'[v].ident
        PROVE  u = v
    <3>1. clash = {} /\ same = {} /\ csend'[t].ident = ident
      BY <1>5, <1>8, <2>1
    <3>2. \A w \in CanTasks : w # t /\ Busy(w)' => Busy(w) /\ csend'[w].ident = csend[w].ident
      BY <1>5 DEF Busy
    <3>3. \A w \in CanTasks : ~(CanNode[w] = CanNode[t] /\ Busy(w) /\ csend[w].ident = ident)
      BY <3>1
    <3> HIDE DEF same
    <3>4. CASE u # t /\ v # t
      BY <2>1, <3>1, <3>2, <3>4, OneSender
    <3>5. CASE u = t /\ v # t
      BY <2>1, <3>1, <3>2, <3>3, <3>5
    <3>6. CASE u # t /\ v = t
      BY <2>1, <3>1, <3>2, <3>3, <3>6
    <3> QED
      BY <3>4, <3>5, <3>6
  <2> QED
    BY <1>7, <2>1 DEF Senders
<1>10. ReceiverType' /\ NoTwins'
  BY <1>1 DEF ReceiverType, NoTwins
<1>11. ASSUME Assumed' PROVE ElementsOK' /\ Matched' /\ Alive' /\ AllWhole'
  <2>1. Distinct' => Distinct
    <3>1. \A k \in 1..Len(packets) : k \in 1..Len(packets') /\ packets'[k] = packets[k]
      BY <1>3 DEF n
    <3> QED
      BY <3>1 DEF Distinct
  <2>2. (Careful' => Careful) /\ (clash' = {} => clash = {})
    BY <1>1, <1>8 DEF Careful
  <2>3. ElementsOK /\ Matched /\ Alive /\ AllWhole
    BY <1>11, <2>1, <2>2 DEF Assumed, CanSafe
  <2>4. \A u \in CanTasks : csend'[u].at = "more" => csend'[u] = csend[u]
    BY <1>5
  <2>5. Matched'
    BY <1>1, <2>2, <2>3, <2>4 DEF Matched
  <2>6. Alive'
    <3>1. \A u \in CanTasks : csend[u].at = "more" => csend'[u] = csend[u]
      BY <1>1, <1>5
    <3> QED
      BY <1>1, <2>2, <2>3, <3>1 DEF Alive
  <2>7. AllWhole'
    BY <1>1, <2>3 DEF AllWhole
  <2>8. ElementsOK'
    <3>1. \A k \in 1..Len(packets) : k \in 1..Len(packets') /\ packets'[k] = packets[k]
      BY <1>3 DEF n
    <3>2. pbuf' = pbuf
      BY <1>1
    <3> QED
      BY <2>3, <3>1, <3>2 DEF ElementsOK, ElementOK, FramesLeft, Chain, InStep
  <2> QED
    BY <2>5, <2>6, <2>7, <2>8
<1> QED
  BY <1>6, <1>9, <1>10, <1>11 DEF CanSafe, Assumed

LEMMA WriteStep ==
  ASSUME CanInv, NEW t \in CanTasks, WriteIdent(t)
  PROVE  CanInv'
<1> DEFINE Records == [at : {"idle", "read", "begin", "more"}, packet : Nat, ident : Nat,
                       count : Nat]
<1> USE DEF CanInv
<1>1. /\ csend[t].at = "read"
      /\ frameId' = [frameId EXCEPT ![CanNode[t]] = (csend[t].ident + 1) % IdMod]
      /\ csend' = [csend EXCEPT ![t].at = "begin"]
      /\ UNCHANGED <<packets, pbuf, canOut, hit, clash, canFaults>>
  BY DEF WriteIdent
<1>2. csend \in [CanTasks -> Records] /\ frameId \in [Nodes -> Nat] /\ csend[t].ident \in Nat
  BY DEF SenderType
<1>3. frameId' \in [Nodes -> Nat]
  <2>1. \A k, m \in Nat : m > 0 => (k + 1) % m \in Nat
    OBVIOUS
  <2>2. (csend[t].ident + 1) % IdMod \in Nat
    BY <1>2, <2>1, CanConstants
  <2> QED
    BY <1>1, <1>2, <2>2
<1>4. /\ csend' \in [CanTasks -> Records] /\ csend'[t].at = "begin"
      /\ csend'[t].packet = csend[t].packet /\ csend'[t].ident = csend[t].ident
      /\ csend'[t].count = csend[t].count
      /\ \A u \in CanTasks : u # t => csend'[u] = csend[u]
  BY <1>1, <1>2
<1>5. SenderType'
  BY <1>1, <1>3, <1>4 DEF SenderType
<1>6. \A u \in CanTasks : (Busy(u)' <=> Busy(u)) /\ csend'[u].ident = csend[u].ident
  BY <1>1, <1>4 DEF Busy
<1>7. ASSUME NEW u \in CanTasks PROVE SenderOK(u)'
  <2>1. SenderOK(u)
    BY DEF Senders
  <2>2. CASE u = t
    BY <1>1, <1>4, <2>1, <2>2 DEF SenderOK, Busy
  <2>3. CASE u # t
    BY <1>1, <1>4, <2>1, <2>3 DEF SenderOK, Busy
  <2> QED
    BY <2>2, <2>3
<1>8. Senders'
  BY <1>1, <1>6, <1>7 DEF Senders
<1>9. ReceiverType' /\ NoTwins'
  BY <1>1 DEF ReceiverType, NoTwins
<1>10. ASSUME Assumed' PROVE ElementsOK' /\ Matched' /\ Alive' /\ AllWhole'
  <2>1. ElementsOK /\ Matched /\ Alive /\ AllWhole /\ (Careful' => Careful)
    BY <1>1, <1>10 DEF Assumed, CanSafe, Distinct, Careful
  <2>2. \A u \in CanTasks : csend'[u].at = "more" => csend'[u] = csend[u]
    BY <1>4
  <2>3. \A u \in CanTasks : csend[u].at = "more" => csend'[u] = csend[u]
    BY <1>1, <1>4
  <2>4. Matched'
    BY <1>1, <2>1, <2>2 DEF Matched
  <2>5. Alive'
    BY <1>1, <2>1, <2>3 DEF Alive
  <2>6. AllWhole' /\ ElementsOK'
    BY <1>1, <2>1, ElementsKept DEF AllWhole, ElementsOK
  <2> QED
    BY <2>4, <2>5, <2>6
<1> QED
  BY <1>5, <1>8, <1>9, <1>10 DEF CanSafe, Assumed

----------------------------------------------------------------------------
\* The types hold and the elements of the receiver match the tasks that send
\* to it, for any number of tasks, elements, packets and losses.
THEOREM CanInvCorrect == CanSpec => []CanInv
<1>1. CanInit => CanInv
  <2> SUFFICES ASSUME CanInit PROVE CanInv
    OBVIOUS
  <2>1. /\ frameId = [n \in Nodes |-> 0] /\ csend = [t \in CanTasks |-> NotSending]
        /\ packets = <<>> /\ pbuf = [i \in 1..Elements |-> Free] /\ canOut = <<>>
        /\ clash = {} /\ canFaults = 0
    BY DEF CanInit, Nodes
  <2>2. SenderType
    <3>1. packets \in Seq(Nodes \X Nat) /\ Len(packets) = 0
      BY <2>1, EmptySeq
    <3>2. frameId \in [Nodes -> Nat] /\ canFaults \in Nat
      BY <2>1
    <3>3. csend \in [CanTasks -> [at : {"idle", "read", "begin", "more"}, packet : Nat,
                                  ident : Nat, count : Nat]]
      BY <2>1 DEF NotSending
    <3> QED
      BY <3>1, <3>2, <3>3, CanConstants DEF SenderType
  <2>3. \A i \in 1..Elements : ~pbuf[i].used
    BY <2>1 DEF Free
  <2>4. canOut \in Seq([packet : PacketIds, parts : Seq(Parts)]) /\ Len(canOut) = 0
    BY <2>1, EmptySeq
  <2>5. ReceiverType
    BY <2>1, <2>3, <2>4, FreeType DEF ReceiverType
  <2>6. \A t \in CanTasks : csend[t].at = "idle"
    BY <2>1 DEF NotSending
  <2>7. Senders
    BY <2>6 DEF Senders, SenderOK, Busy
  <2>8. NoTwins /\ ElementsOK /\ Matched /\ Alive
    BY <2>3 DEF NoTwins, ElementsOK, Matched, Alive
  <2>9. AllWhole
    BY <2>4 DEF AllWhole
  <2> QED
    BY <2>2, <2>5, <2>7, <2>8, <2>9 DEF CanInv, CanSafe
<1>2. CanInv /\ [CanNext]_canVars => CanInv'
  <2> SUFFICES ASSUME CanInv, [CanNext]_canVars PROVE CanInv'
    OBVIOUS
  <2>1. ASSUME NEW t \in CanTasks,
               ReadIdent(t) \/ WriteIdent(t) \/ SendBegin(t) \/ SendMore(t) \/ SendLost(t)
        PROVE  CanInv'
    BY <2>1, ReadStep, WriteStep, BeginStep, MoreStep, LostStep
  <2>2. CASE UNCHANGED canVars
    <3>1. /\ frameId' = frameId /\ csend' = csend /\ packets' = packets /\ pbuf' = pbuf
          /\ canOut' = canOut /\ clash' = clash /\ canFaults' = canFaults
      BY <2>2 DEF canVars
    <3>2. SenderType' /\ ReceiverType'
      BY <3>1 DEF CanInv, SenderType, ReceiverType
    <3>3. Senders' /\ NoTwins'
      BY <3>1 DEF CanInv, Senders, SenderOK, Busy, NoTwins
    <3>4. Distinct' \/ Careful' => Distinct \/ Careful
      BY <3>1 DEF Distinct, Careful
    <3>5. ASSUME ElementsOK, Matched, Alive, AllWhole
          PROVE  ElementsOK' /\ Matched' /\ Alive' /\ AllWhole'
      <4>1. ElementsOK' /\ AllWhole'
        BY <3>1, <3>5, ElementsKept DEF ElementsOK, AllWhole
      <4>2. Matched' /\ Alive'
        BY <3>1, <3>5 DEF Matched, Alive, Careful
      <4> QED
        BY <4>1, <4>2
    <3> QED
      BY <3>2, <3>3, <3>4, <3>5 DEF CanInv, CanSafe
  <2> QED
    BY <2>1, <2>2 DEF CanNext
<1> QED
  BY <1>1, <1>2, PTL DEF CanSpec

\* csp_if_can.c gives the router no mixture of packets: if no identifier is used
\* twice, whatever is lost, and if one is, as long as no two tasks of a node
\* have it at a time and at most one frame is lost.
THEOREM CanIntactCorrect == CanSpec => []CanIntact
<1>1. CanInv => CanIntact
  BY DEF CanInv, CanSafe, Distinct, Careful, AllWhole, CanIntact
<1> QED
  BY <1>1, CanInvCorrect, PTL

----------------------------------------------------------------------------
\* Packets get through.

\* A packet of which nothing was lost and whose identifier no other had meanwhile.
Clear(n) == n \notin hit \cup clash

\* Two tasks of a node that send with one identifier clash.
Clashes ==
  \A t, u \in CanTasks :
    t # u /\ Busy(t) /\ Busy(u) /\ CanNode[t] = CanNode[u] /\ csend[t].ident = csend[u].ident
      => csend[t].packet \in clash

\* An element holds what task t has sent of its packet.
Held(t) ==
  \E i \in 1..Elements :
    /\ pbuf[i].used /\ pbuf[i].packet = csend[t].packet /\ pbuf[i].count = csend[t].count
    /\ ElementOK(pbuf[i])
GotThrough(n) == \E k \in 1..Len(canOut) : canOut[k].packet = n

CanDeliverInv ==
  /\ Clashes
  /\ \A t \in CanTasks : csend[t].at = "more" /\ Clear(csend[t].packet) => Held(t)
  /\ \A n \in 1..Len(packets) :
       Clear(n) /\ (\A t \in CanTasks : Busy(t) => csend[t].packet # n) => GotThrough(n)

\* A frame that is the next of its element goes into it or completes it.
LEMMA AddDataTakes ==
  ASSUME ReceiverType, NEW i \in 1..Elements, NEW e \in ElementType, NEW f, FrameType(f),
         AddData(i, e, f), e.packet \in PacketIds, f.remain = e.remain - 1
  PROVE  /\ e.count + f.size < CanLength[e.packet] => pbuf'[i] = Longer(e, f)
         /\ e.count + f.size = CanLength[e.packet] => canOut' = Append(canOut, Delivery(e, f))
<1> DEFINE sum == e.count + f.size
           length == CanLength[e.packet]
<1>1. length \in Nat /\ sum \in Nat /\ pbuf \in [1..Elements -> ElementType]
  <2>1. e.count \in Nat /\ f.size \in Nat
    BY DEF ElementType, FrameType
  <2>2. length \in Nat
    BY CanConstants
  <2> QED
    BY <2>1, <2>2 DEF ReceiverType
<1>2. CASE sum < length
  <2>1. ~(sum > length) /\ sum # length
    BY <1>1, <1>2
  <2>2. pbuf' = [pbuf EXCEPT ![i] = Longer(e, f)]
    BY <2>1 DEF AddData, Longer, Part
  <2> QED
    BY <1>1, <1>2, <2>1, <2>2
<1>3. CASE sum = length
  <2>1. ~(sum > length)
    BY <1>1, <1>3
  <2>2. canOut' = Append(canOut, Delivery(e, f))
    BY <1>3, <2>1 DEF AddData, Delivery, Part
  <2>3. ~(sum < length)
    BY <1>1, <1>3
  <2> QED
    BY <2>2, <2>3
<1> QED
  BY <1>1, <1>2, <1>3

LEMMA BeginInTakes ==
  ASSUME ReceiverType, NEW i \in 1..Elements, NEW f, FrameType(f), BeginIn(i, pbuf[i], f),
         f.size <= CanLength[f.packet]
  PROVE  \/ f.packet \in TooLong(f)
         \/ f.size < CanLength[f.packet] /\ pbuf'[i] = Begun(f)
         \/ /\ f.size = CanLength[f.packet]
            /\ \E w : w.packet = f.packet /\ canOut' = Append(canOut, w)
<1> SUFFICES ASSUME ~(CanLength[f.packet] > DataSize)
             PROVE  \/ f.size < CanLength[f.packet] /\ pbuf'[i] = Begun(f)
                    \/ /\ f.size = CanLength[f.packet]
                       /\ \E w : w.packet = f.packet /\ canOut' = Append(canOut, w)
  BY DEF TooLong
<1> DEFINE b == Begin(pbuf[i], f)
<1>1. AddData(i, b, f)
  BY DEF BeginIn
<1>2. /\ b \in ElementType /\ b.packet = f.packet /\ b.used
      /\ b.count = 0 /\ b.remain = f.remain + 1
  <2>1. f.remain + 1 \in Int /\ f.packet \in Nat /\ <<>> \in Seq(Parts)
    BY EmptySeq, CanConstants DEF FrameType
  <2> QED
    BY <2>1 DEF Begin, ElementType, FrameType
<1>3. f.remain \in Int /\ f.size \in Nat /\ f.packet \in PacketIds /\ CanLength[f.packet] \in Nat
  BY CanConstants DEF FrameType
<1>4. f.remain = b.remain - 1 /\ b.count + f.size = f.size
  BY <1>2, <1>3
<1> HIDE DEF b
<1>5. /\ b.count + f.size < CanLength[b.packet] => pbuf'[i] = Longer(b, f)
      /\ b.count + f.size = CanLength[b.packet] => canOut' = Append(canOut, Delivery(b, f))
  BY <1>1, <1>2, <1>3, <1>4, AddDataTakes, ZenonT(60)
<1>6. CASE f.size < CanLength[f.packet]
  <2>1. pbuf'[i] = Longer(b, f)
    BY <1>2, <1>4, <1>5, <1>6
  <2>2. Longer(b, f).used
    BY <1>2 DEF Longer, ElementType
  <2>3. pbuf'[i].used => pbuf'[i] = Begun(f)
    BY BeginInFacts
  <2> QED
    BY <1>6, <2>1, <2>2, <2>3
<1>7. CASE f.size = CanLength[f.packet]
  <2>1. canOut' = Append(canOut, Delivery(b, f)) /\ Delivery(b, f).packet = f.packet
    BY <1>2, <1>4, <1>5, <1>7 DEF Delivery
  <2> QED
    BY <1>7, <2>1
<1> QED
  BY <1>3, <1>6, <1>7

\* A first frame is lost for its packet, or put into an element, or is all of its
\* packet; of other elements that are in use it takes one only if it expires.
LEMMA BeginTakes ==
  ASSUME ReceiverType, NoTwins, NEW f, FrameType(f), RxBegin(f), f.size <= CanLength[f.packet]
  PROVE  /\ hit \subseteq hit'
         /\ \A j \in 1..Elements : pbuf[j].used /\ pbuf[j].id # f.id =>
              pbuf'[j] = pbuf[j] \/ pbuf[j].packet \in hit'
         /\ \/ f.packet \in hit'
            \/ f.size < CanLength[f.packet] /\ \E i \in 1..Elements : pbuf'[i] = Begun(f)
            \/ /\ f.size = CanLength[f.packet]
               /\ \E w : w.packet = f.packet /\ canOut' = Append(canOut, w)
<1>1. pbuf \in [1..Elements -> ElementType]
  BY DEF ReceiverType
<1>2. CASE \E i \in Found(f) : BeginIn(i, pbuf[i], f) /\ hit' = hit \cup TooLong(f)
  <2>1. PICK i \in Found(f) : BeginIn(i, pbuf[i], f) /\ hit' = hit \cup TooLong(f)
    BY <1>2
  <2>2. i \in 1..Elements /\ pbuf[i].id = f.id
    BY DEF Found
  <2> QED
    BY <2>1, <2>2, BeginInFacts, BeginInTakes
<1>3. CASE \E i \in 1..Elements :
              BeginIn(i, pbuf[i], f) /\ hit' = hit \cup TooLong(f) \cup Expired(i)
  <2>1. PICK i \in 1..Elements :
          BeginIn(i, pbuf[i], f) /\ hit' = hit \cup TooLong(f) \cup Expired(i)
    BY <1>3
  <2>2. pbuf[i].used => pbuf[i].packet \in hit'
    BY <2>1 DEF Expired
  <2> QED
    BY <2>1, <2>2, BeginInFacts, BeginInTakes
<1>4. CASE \E i \in 1..Elements :
             pbuf' = [pbuf EXCEPT ![i] = Free] /\ hit' = hit \cup {f.packet} \cup Expired(i)
  <2>1. PICK i \in 1..Elements :
          pbuf' = [pbuf EXCEPT ![i] = Free] /\ hit' = hit \cup {f.packet} \cup Expired(i)
    BY <1>4
  <2>2. pbuf[i].used => pbuf[i].packet \in hit'
    BY <2>1 DEF Expired
  <2> QED
    BY <1>1, <2>1, <2>2
<1>5. CASE pbuf' = pbuf /\ hit' = hit \cup {f.packet}
  BY <1>5
<1> QED
  BY <1>2, <1>3, <1>4, <1>5 DEF RxBegin

\* A later frame that is the next of an element goes into it or completes it.
LEMMA MoreTakes ==
  ASSUME ReceiverType, NoTwins, NEW f, FrameType(f), RxMore(f),
         NEW i \in 1..Elements, pbuf[i].used, pbuf[i].id = f.id, f.remain = pbuf[i].remain - 1
  PROVE  /\ \A j \in 1..Elements : j # i => pbuf'[j] = pbuf[j]
         /\ pbuf[i].count + f.size < CanLength[pbuf[i].packet] =>
              pbuf'[i] = Longer(pbuf[i], f)
         /\ pbuf[i].count + f.size = CanLength[pbuf[i].packet] =>
              canOut' = Append(canOut, Delivery(pbuf[i], f))
<1>1. i \in Found(f) /\ \A j \in Found(f) : j = i
  BY DEF Found, NoTwins
<1>2. AddData(i, pbuf[i], f)
  BY <1>1 DEF RxMore
<1>3. PICK e : e = pbuf[i]
  OBVIOUS
<1>4. e \in ElementType /\ e.packet \in PacketIds /\ f.remain = e.remain - 1 /\ AddData(i, e, f)
  BY <1>2, <1>3 DEF ReceiverType
<1>5. /\ e.count + f.size < CanLength[e.packet] => pbuf'[i] = Longer(e, f)
      /\ e.count + f.size = CanLength[e.packet] => canOut' = Append(canOut, Delivery(e, f))
  BY <1>4, AddDataTakes
<1>6. \A j \in 1..Elements : j # i => pbuf'[j] = pbuf[j]
  BY <1>4, AddDataFacts
<1> QED
  BY <1>3, <1>5, <1>6

\* A later frame leaves elements of other identifiers alone.
LEMMA MoreLeaves ==
  ASSUME ReceiverType, NEW f, FrameType(f), RxMore(f),
         NEW j \in 1..Elements, pbuf[j].used, pbuf[j].id # f.id
  PROVE  pbuf'[j] = pbuf[j]
<1>1. CASE \E i \in Found(f) : AddData(i, pbuf[i], f)
  <2>1. PICK i \in Found(f) : AddData(i, pbuf[i], f)
    BY <1>1
  <2>2. i \in 1..Elements /\ i # j /\ pbuf[i] \in ElementType /\ pbuf[i].packet \in PacketIds
    BY DEF Found, ReceiverType
  <2> QED
    BY <2>1, <2>2, AddDataFacts
<1>2. CASE UNCHANGED pbuf
  BY <1>2
<1> QED
  BY <1>1, <1>2 DEF RxMore

\* What has got through stays.
LEMMA StaysThrough ==
  ASSUME ReceiverType, canOut' = canOut \/ \E w : canOut' = Append(canOut, w), NEW n,
         GotThrough(n)
  PROVE  GotThrough(n)'
<1>1. CASE canOut' = canOut
  BY <1>1 DEF GotThrough
<1>2. CASE \E w : canOut' = Append(canOut, w)
  <2>1. PICK w : canOut' = Append(canOut, w)
    BY <1>2
  <2>2. PICK k \in 1..Len(canOut) : canOut[k].packet = n
    BY DEF GotThrough
  <2>3. PICK S : canOut \in Seq(S)
    BY DEF ReceiverType
  <2>4. canOut \in Seq(S \cup {w}) /\ w \in S \cup {w}
    BY <2>3
  <2>5. /\ Len(canOut') = Len(canOut) + 1 /\ \A m \in 1..Len(canOut) : canOut'[m] = canOut[m]
        /\ Len(canOut) \in Nat
    BY <2>1, <2>4, AppendProperties
  <2>6. k \in 1..Len(canOut') /\ canOut'[k].packet = n
    BY <2>2, <2>5
  <2> QED
    BY <2>6 DEF GotThrough
<1> QED
  BY <1>1, <1>2

LEMMA LastThrough ==
  ASSUME ReceiverType, NEW w, canOut' = Append(canOut, w)
  PROVE  GotThrough(w.packet)'
<1>1. PICK S : canOut \in Seq(S)
  BY DEF ReceiverType
<1>2. canOut \in Seq(S \cup {w}) /\ w \in S \cup {w}
  BY <1>1
<1>3. /\ Len(canOut') = Len(canOut) + 1 /\ canOut'[Len(canOut) + 1] = w /\ Len(canOut) \in Nat
  BY <1>2, AppendProperties
<1>4. Len(canOut) + 1 \in 1..Len(canOut') /\ canOut'[Len(canOut) + 1].packet = w.packet
  BY <1>3
<1> QED
  BY <1>4 DEF GotThrough

\* Two tasks that send for one packet, or with one identifier, clash.
LEMMA ClearAlone ==
  ASSUME SenderType, Senders, Clashes, NEW t \in CanTasks, NEW u \in CanTasks, Busy(t), Busy(u),
         \/ csend[t].packet = csend[u].packet
         \/ packets[csend[t].packet] = packets[csend[u].packet],
         Clear(csend[t].packet)
  PROVE  t = u
<1>1. /\ packets[csend[t].packet] = <<CanNode[t], csend[t].ident>>
      /\ packets[csend[u].packet] = <<CanNode[u], csend[u].ident>>
  BY BusyFacts
<1>2. CanNode[t] = CanNode[u] /\ csend[t].ident = csend[u].ident
  BY <1>1
<1> QED
  BY <1>2 DEF Clashes, Clear

\* What a step that sends leaves to be shown: of the task that sends, and of its
\* packet.
LEMMA SendKeeps ==
  ASSUME CanInv, CanDeliverInv, NEW t \in CanTasks, csend[t].at \in {"begin", "more"},
         SenderType', Senders', packets' = packets, clash' = clash, hit \subseteq hit',
         csend'[t].at \in {"idle", "more"},
         csend'[t].at = "more" =>
           csend'[t].packet = csend[t].packet /\ csend'[t].ident = csend[t].ident,
         \A u \in CanTasks : u # t => csend'[u] = csend[u],
         canOut' = canOut \/ \E w : canOut' = Append(canOut, w),
         \A u \in CanTasks, i \in 1..Elements :
           /\ u # t /\ csend[u].at = "more" /\ csend[u].packet \notin hit' \cup clash' /\ pbuf[i].used
           /\ pbuf[i].packet = csend[u].packet /\ ElementOK(pbuf[i])
           => pbuf'[i] = pbuf[i],
         csend[t].packet \notin hit' \cup clash' =>
           /\ csend'[t].at = "more" => Held(t)'
           /\ csend'[t].at # "more" => \A n : n = csend[t].packet => GotThrough(n)'
  PROVE  CanDeliverInv'
<1>1. \A n : Clear(n)' => Clear(n)
  BY DEF Clear
<1>2. Clashes'
  <2> SUFFICES ASSUME NEW u \in CanTasks, NEW v \in CanTasks, u # v, Busy(u)', Busy(v)',
                      CanNode[u] = CanNode[v], csend'[u].ident = csend'[v].ident
               PROVE  csend'[u].packet \in clash'
    BY DEF Clashes
  <2>1. \A w \in CanTasks : Busy(w)' =>
          Busy(w) /\ csend'[w].ident = csend[w].ident /\ csend'[w].packet = csend[w].packet
    BY DEF Busy
  <2> QED
    BY <2>1 DEF CanDeliverInv, Clashes
<1>3. ASSUME NEW u \in CanTasks, csend'[u].at = "more", Clear(csend[u].packet)'
      PROVE  Held(u)'
  <2>1. CASE u = t
    BY <1>3, <2>1 DEF Clear
  <2>2. CASE u # t
    <3>1. csend'[u] = csend[u] /\ Clear(csend[u].packet)
      BY <1>1, <1>3, <2>2
    <3>2. PICK i \in 1..Elements : /\ pbuf[i].used /\ pbuf[i].packet = csend[u].packet
                                   /\ pbuf[i].count = csend[u].count /\ ElementOK(pbuf[i])
      BY <1>3, <3>1 DEF CanDeliverInv, Held
    <3>3. pbuf'[i] = pbuf[i]
      BY <1>3, <2>2, <3>1, <3>2 DEF Clear
    <3>4. ElementOK(pbuf[i])'
      BY <3>2, <3>3 DEF ElementOK, FramesLeft, Chain, InStep
    <3> QED
      BY <3>1, <3>2, <3>3, <3>4 DEF Held
  <2> QED
    BY <2>1, <2>2
<1>4. ASSUME NEW n \in 1..Len(packets), Clear(n)',
             \A u \in CanTasks : Busy(u)' => csend'[u].packet # n
      PROVE  GotThrough(n)'
  <2>1. CASE n = csend[t].packet
    <3>1. csend'[t].at # "more"
      BY <1>4, <2>1 DEF Busy
    <3> QED
      BY <1>4, <2>1, <3>1 DEF Clear
  <2>2. CASE n # csend[t].packet
    <3>1. \A u \in CanTasks : Busy(u) => csend[u].packet # n
      BY <1>4, <2>2 DEF Busy
    <3>2. GotThrough(n)
      BY <1>1, <1>4, <3>1 DEF CanDeliverInv
    <3> QED
      BY <3>2, StaysThrough DEF CanInv
  <2> QED
    BY <2>1, <2>2
<1> QED
  BY <1>2, <1>3, <1>4 DEF CanDeliverInv

LEMMA BeginDelivers ==
  ASSUME CanInv, CanDeliverInv, NEW t \in CanTasks, SendBegin(t)
  PROVE  CanDeliverInv'
<1>0. PICK f : f = Frame(t)
  OBVIOUS
<1>1. /\ csend[t].at = "begin" /\ Sent(t, f) /\ RxBegin(f)
      /\ UNCHANGED <<frameId, packets, clash, canFaults>>
  BY <1>0 DEF SendBegin
<1>2. SenderType /\ Senders /\ ReceiverType /\ NoTwins /\ Clashes
  BY DEF CanInv, CanDeliverInv
<1>3. /\ f.id = packets[f.packet] /\ f.packet = csend[t].packet
      /\ f.packet \in PacketIds /\ f.offset = 0 /\ f.size \in Nat /\ FrameType(f)
      /\ CanLength[f.packet] \in Nat /\ f.offset + f.size <= CanLength[f.packet]
  BY <1>0, <1>1, <1>2, FrameFacts, FrameIsTyped
<1>4. f.offset + f.size = f.size
  BY <1>3
<1>5. /\ SenderType' /\ Senders'
      /\ \A u \in CanTasks : u # t => csend'[u] = csend[u]
      /\ csend'[t].at = "more" =>
           /\ csend'[t].packet = csend[t].packet /\ csend'[t].ident = csend[t].ident
           /\ csend'[t].count = f.size /\ f.size < CanLength[f.packet]
      /\ csend'[t].at \in {"idle", "more"}
      /\ f.size < CanLength[f.packet] => csend'[t].at = "more"
  <2>1. canFaults' \in Nat
    BY <1>1, <1>2 DEF SenderType
  <2> QED
    BY <1>0, <1>1, <1>2, <1>3, <1>4, <2>1, SendersKept
<1>6. /\ hit \subseteq hit'
      /\ \A j \in 1..Elements : pbuf[j].used /\ pbuf[j].id # f.id =>
           pbuf'[j] = pbuf[j] \/ pbuf[j].packet \in hit'
      /\ \/ f.packet \in hit'
         \/ f.size < CanLength[f.packet] /\ \E i \in 1..Elements : pbuf'[i] = Begun(f)
         \/ /\ f.size = CanLength[f.packet]
            /\ \E w : w.packet = f.packet /\ canOut' = Append(canOut, w)
  BY <1>1, <1>2, <1>3, <1>4, BeginTakes
<1>7. canOut' = canOut \/ \E w : canOut' = Append(canOut, w)
  BY <1>1, <1>2, <1>3, BeginEffect
<1>8. ASSUME NEW u \in CanTasks, NEW i \in 1..Elements, u # t, csend[u].at = "more",
             csend[u].packet \notin hit' \cup clash', pbuf[i].used, pbuf[i].packet = csend[u].packet,
             ElementOK(pbuf[i])
      PROVE  pbuf'[i] = pbuf[i]
  <2>1. pbuf[i].id = packets[csend[u].packet] /\ Clear(csend[u].packet)
    BY <1>1, <1>6, <1>8 DEF ElementOK, Clear
  <2>2. pbuf[i].id # f.id
    BY <1>1, <1>2, <1>3, <1>8, <2>1, ClearAlone DEF Busy
  <2> QED
    BY <1>6, <1>8, <2>2 DEF Clear
<1>9. ASSUME csend[t].packet \notin hit' \cup clash'
      PROVE  /\ csend'[t].at = "more" => Held(t)'
             /\ csend'[t].at # "more" => \A n : n = csend[t].packet => GotThrough(n)'
  <2>1. f.packet \notin hit'
    BY <1>3, <1>9 DEF Clear
  <2>2. CASE f.size < CanLength[f.packet]
    <3>1. PICK i \in 1..Elements : pbuf'[i] = Begun(f)
      BY <1>3, <1>6, <2>1, <2>2
    <3>2. ElementOK(Begun(f))
      BY <1>0, <1>1, <1>2, <2>2, BegunOK
    <3>3. Begun(f).used /\ Begun(f).packet = f.packet /\ Begun(f).count = f.size
      BY DEF Begun
    <3>4. PICK e : e = Begun(f)
      OBVIOUS
    <3>5. ElementOK(e)'
      BY <1>1, <3>2, <3>4 DEF ElementOK, FramesLeft, Chain, InStep
    <3>6. ElementOK(pbuf[i])'
      BY <3>1, <3>4, <3>5 DEF ElementOK, FramesLeft, Chain, InStep
    <3> QED
      BY <1>3, <1>5, <2>2, <3>1, <3>3, <3>6 DEF Held
  <2>3. CASE ~(f.size < CanLength[f.packet])
    <3>1. PICK w : w.packet = f.packet /\ canOut' = Append(canOut, w)
      BY <1>6, <2>1, <2>3
    <3> QED
      BY <1>2, <1>3, <1>5, <2>3, <3>1, LastThrough
  <2> QED
    BY <2>2, <2>3
<1> QED
  BY <1>1, <1>5, <1>6, <1>7, <1>8, <1>9, SendKeeps

LEMMA MoreDelivers ==
  ASSUME CanInv, CanDeliverInv, NEW t \in CanTasks, SendMore(t)
  PROVE  CanDeliverInv'
<1>0. PICK f : f = Frame(t)
  OBVIOUS
<1>1. /\ csend[t].at = "more" /\ Sent(t, f) /\ RxMore(f)
      /\ UNCHANGED <<frameId, packets, clash, canFaults, hit>>
  BY <1>0 DEF SendMore, RxMore
<1>2. SenderType /\ Senders /\ ReceiverType /\ NoTwins /\ Clashes
  BY DEF CanInv, CanDeliverInv
<1>3. /\ f.id = packets[f.packet] /\ f.packet = csend[t].packet
      /\ f.packet \in PacketIds /\ f.offset = csend[t].count /\ f.offset \in Nat /\ f.size \in Nat
      /\ FrameType(f)
      /\ CanLength[f.packet] \in Nat /\ f.offset + f.size <= CanLength[f.packet]
      /\ f.remain = FramesLeft(f.packet, f.offset) - 1
  BY <1>0, <1>1, <1>2, FrameFacts, FrameIsTyped
<1>4. /\ SenderType' /\ Senders'
      /\ \A u \in CanTasks : u # t => csend'[u] = csend[u]
      /\ csend'[t].at = "more" =>
           /\ csend'[t].packet = csend[t].packet /\ csend'[t].ident = csend[t].ident
           /\ csend'[t].count = f.offset + f.size /\ f.offset + f.size < CanLength[f.packet]
      /\ csend'[t].at \in {"idle", "more"}
      /\ f.offset + f.size < CanLength[f.packet] => csend'[t].at = "more"
  <2>1. canFaults' \in Nat
    BY <1>1, <1>2 DEF SenderType
  <2> QED
    BY <1>0, <1>1, <1>2, <1>3, <2>1, SendersKept
<1>5. canOut' = canOut \/ \E w : canOut' = Append(canOut, w)
  BY <1>1, <1>2, <1>3, MoreEffect
<1>6. ASSUME NEW u \in CanTasks, NEW i \in 1..Elements, u # t, csend[u].at = "more",
             csend[u].packet \notin hit' \cup clash', pbuf[i].used, pbuf[i].packet = csend[u].packet,
             ElementOK(pbuf[i])
      PROVE  pbuf'[i] = pbuf[i]
  <2>1. pbuf[i].id = packets[csend[u].packet] /\ Clear(csend[u].packet)
    BY <1>1, <1>6 DEF ElementOK, Clear
  <2>2. pbuf[i].id # f.id
    BY <1>1, <1>2, <1>3, <1>6, <2>1, ClearAlone DEF Busy
  <2> QED
    BY <1>1, <1>2, <1>3, <1>6, <2>2, MoreLeaves
<1>7. ASSUME csend[t].packet \notin hit' \cup clash'
      PROVE  /\ csend'[t].at = "more" => Held(t)'
             /\ csend'[t].at # "more" => \A n : n = csend[t].packet => GotThrough(n)'
  <2>1. Clear(csend[t].packet)
    BY <1>1, <1>7 DEF Clear
  <2>2. PICK i \in 1..Elements : /\ pbuf[i].used /\ pbuf[i].packet = f.packet
                                 /\ pbuf[i].count = f.offset /\ ElementOK(pbuf[i])
    BY <1>1, <1>3, <2>1 DEF CanDeliverInv, Held
  <2>3. PICK e : e = pbuf[i]
    OBVIOUS
  <2>4. e \in ElementType /\ e.used /\ e.packet = f.packet /\ e.count = f.offset /\ ElementOK(e)
    BY <1>2, <2>2, <2>3 DEF ReceiverType
  <2>5. e.id = f.id /\ f.remain = e.remain - 1
    BY <1>3, <2>4 DEF ElementOK
  <2>6. /\ e.count + f.size < CanLength[e.packet] => pbuf'[i] = Longer(e, f)
        /\ e.count + f.size = CanLength[e.packet] => canOut' = Append(canOut, Delivery(e, f))
    BY <1>1, <1>2, <1>3, <2>3, <2>4, <2>5, MoreTakes
  <2>7. CASE f.offset + f.size < CanLength[f.packet]
    <3>1. PICK g : g = Longer(e, f)
      OBVIOUS
    <3>2. pbuf'[i] = g
      BY <2>4, <2>6, <2>7, <3>1
    <3>3. ElementOK(g)
      BY <1>0, <1>1, <1>2, <2>4, <2>5, <2>7, <3>1, ElementGoesOn
    <3>4. g.used /\ g.packet = f.packet /\ g.count = f.offset + f.size
      BY <2>4, <3>1 DEF Longer, ElementType
    <3>5. ElementOK(g)'
      BY <1>1, <3>3 DEF ElementOK, FramesLeft, Chain, InStep
    <3>6. ElementOK(pbuf[i])'
      BY <3>2, <3>5 DEF ElementOK, FramesLeft, Chain, InStep
    <3> QED
      BY <1>3, <1>4, <2>7, <3>2, <3>4, <3>6 DEF Held
  <2>8. CASE ~(f.offset + f.size < CanLength[f.packet])
    <3>1. f.offset + f.size = CanLength[f.packet]
      BY <1>3, <2>8
    <3>2. canOut' = Append(canOut, Delivery(e, f)) /\ Delivery(e, f).packet = f.packet
      BY <2>4, <2>6, <3>1 DEF Delivery
    <3>3. PICK w : w = Delivery(e, f)
      OBVIOUS
    <3> QED
      BY <1>2, <1>3, <1>4, <2>8, <3>2, <3>3, LastThrough
  <2> QED
    BY <2>7, <2>8
<1> QED
  BY <1>1, <1>4, <1>5, <1>6, <1>7, SendKeeps

LEMMA LostDelivers ==
  ASSUME CanInv, CanDeliverInv, NEW t \in CanTasks, SendLost(t)
  PROVE  CanDeliverInv'
<1>1. /\ csend[t].at \in {"begin", "more"}
      /\ Sent(t, Frame(t)) \/ csend' = [csend EXCEPT ![t] = NotSending]
      /\ hit' = hit \cup {csend[t].packet} /\ canFaults' = canFaults + 1
      /\ UNCHANGED <<frameId, packets, pbuf, canOut, clash>>
  BY DEF SendLost
<1>2. SenderType /\ Senders /\ canFaults' \in Nat
  BY <1>1 DEF CanInv, SenderType
<1>3. /\ SenderType' /\ Senders'
      /\ \A u \in CanTasks : u # t => csend'[u] = csend[u]
      /\ csend'[t].at = "more" =>
           csend'[t].packet = csend[t].packet /\ csend'[t].ident = csend[t].ident
      /\ csend'[t].at \in {"idle", "more"}
  BY <1>1, <1>2, SendersKept
<1>4. csend[t].packet \in hit'
  BY <1>1 DEF Clear
<1>5. \A i \in 1..Elements : pbuf'[i] = pbuf[i]
  BY <1>1
<1>6. hit \subseteq hit'
  BY <1>1
<1> QED
  BY <1>1, <1>3, <1>4, <1>5, <1>6, SendKeeps

LEMMA ReadDelivers ==
  ASSUME CanInv, CanDeliverInv, NEW t \in CanTasks, ReadIdent(t)
  PROVE  CanDeliverInv'
<1> DEFINE ident == frameId[CanNode[t]]
           n == Len(packets) + 1
           same == {u \in CanTasks :
                      CanNode[u] = CanNode[t] /\ csend[u].at # "idle" /\ csend[u].ident = ident}
           new == [at |-> "read", packet |-> n, ident |-> ident, count |-> 0]
<1>1. /\ csend[t].at = "idle"
      /\ csend' = [csend EXCEPT ![t] = new]
      /\ packets' = Append(packets, <<CanNode[t], ident>>)
      /\ clash' = clash \cup IF same = {} THEN {} ELSE {n} \cup {csend[u].packet : u \in same}
      /\ UNCHANGED <<frameId, pbuf, canOut, hit, canFaults>>
  BY DEF ReadIdent
<1>2. SenderType /\ Senders /\ ReceiverType /\ Clashes
  BY DEF CanInv, CanDeliverInv
<1>3. csend'[t] = new /\ \A u \in CanTasks : u # t => csend'[u] = csend[u]
  BY <1>1, <1>2 DEF SenderType
<1>4. /\ Len(packets) \in Nat /\ Len(packets') = n
      /\ \A k \in 1..Len(packets) : packets'[k] = packets[k]
  <2>1. packets \in Seq(Nodes \X Nat) /\ ident \in Nat /\ CanNode[t] \in Nodes
    BY <1>2, CanConstants DEF SenderType
  <2>2. <<CanNode[t], ident>> \in Nodes \X Nat
    BY <2>1
  <2> HIDE DEF ident
  <2> QED
    BY <1>1, <2>1, <2>2, AppendProperties
<1>5. clash \subseteq clash' /\ \A m : Clear(m)' => Clear(m)
  BY <1>1 DEF Clear
<1>6. Clashes'
  <2> SUFFICES ASSUME NEW u \in CanTasks, NEW v \in CanTasks, u # v, Busy(u)', Busy(v)',
                      CanNode[u] = CanNode[v], csend'[u].ident = csend'[v].ident
               PROVE  csend'[u].packet \in clash'
    BY DEF Clashes
  <2>1. csend'[t].ident = ident /\ csend'[t].packet = n
    BY <1>3
  <2>2. CASE u # t /\ v # t
    BY <1>2, <1>3, <1>5, <2>2 DEF Clashes, Busy
  <2>3. CASE u = t
    <3>1. v \in same
      BY <1>3, <2>1, <2>3 DEF Busy
    <3>2. same # {}
      BY <3>1
    <3> HIDE DEF same, n
    <3> QED
      BY <1>1, <2>1, <2>3, <3>2
  <2>4. CASE v = t
    <3>1. u \in same /\ csend'[u].packet = csend[u].packet
      BY <1>3, <2>1, <2>4 DEF Busy
    <3>2. same # {} /\ csend[u].packet \in {csend[w].packet : w \in same}
      BY <3>1
    <3> HIDE DEF same, n
    <3> QED
      BY <1>1, <3>1, <3>2
  <2> QED
    BY <2>2, <2>3, <2>4
<1>7. ASSUME NEW u \in CanTasks, csend'[u].at = "more", Clear(csend[u].packet)'
      PROVE  Held(u)'
  <2>1. u # t /\ csend'[u] = csend[u]
    BY <1>3, <1>7
  <2>2. PICK i \in 1..Elements : /\ pbuf[i].used /\ pbuf[i].packet = csend[u].packet
                                 /\ pbuf[i].count = csend[u].count /\ ElementOK(pbuf[i])
    BY <1>5, <1>7, <2>1 DEF CanDeliverInv, Held
  <2>3. pbuf[i].packet \in 1..Len(packets')
    BY <1>4, <2>2 DEF ElementOK
  <2>4. packets'[pbuf[i].packet] = packets[pbuf[i].packet] /\ pbuf' = pbuf
    BY <1>1, <1>4, <2>2 DEF ElementOK
  <2>5. ElementOK(pbuf[i])'
    BY <2>2, <2>3, <2>4 DEF ElementOK, FramesLeft, Chain, InStep
  <2> QED
    BY <2>1, <2>2, <2>4, <2>5 DEF Held
<1>8. ASSUME NEW m \in 1..Len(packets'), Clear(m)',
             \A u \in CanTasks : Busy(u)' => csend'[u].packet # m
      PROVE  GotThrough(m)'
  <2>1. m # n
    BY <1>3, <1>8 DEF Busy
  <2>2. m \in 1..Len(packets)
    BY <1>4, <2>1
  <2>3. \A u \in CanTasks : Busy(u) => csend[u].packet # m
    BY <1>1, <1>3, <1>8 DEF Busy
  <2>4. GotThrough(m)
    BY <1>5, <1>8, <2>2, <2>3 DEF CanDeliverInv
  <2> QED
    BY <1>1, <2>4 DEF GotThrough
<1> QED
  BY <1>6, <1>7, <1>8 DEF CanDeliverInv

LEMMA WriteDelivers ==
  ASSUME CanInv, CanDeliverInv, NEW t \in CanTasks, WriteIdent(t)
  PROVE  CanDeliverInv'
<1>1. /\ csend[t].at = "read" /\ csend' = [csend EXCEPT ![t].at = "begin"]
      /\ UNCHANGED <<packets, pbuf, canOut, hit, clash, canFaults>>
  BY DEF WriteIdent
<1>2. /\ csend'[t].at = "begin" /\ csend'[t].packet = csend[t].packet
      /\ csend'[t].ident = csend[t].ident
      /\ \A u \in CanTasks : u # t => csend'[u] = csend[u]
  BY <1>1 DEF CanInv, SenderType
<1>3. \A u \in CanTasks : /\ Busy(u)' <=> Busy(u)
                          /\ csend'[u].packet = csend[u].packet /\ csend'[u].ident = csend[u].ident
  BY <1>1, <1>2 DEF Busy
<1>4. Clashes'
  BY <1>1, <1>3 DEF CanDeliverInv, Clashes
<1>5. \A m : Clear(m)' <=> Clear(m)
  BY <1>1 DEF Clear
<1>6. ASSUME NEW u \in CanTasks, csend'[u].at = "more", Clear(csend[u].packet)'
      PROVE  Held(u)'
  <2>1. csend'[u] = csend[u]
    BY <1>2, <1>6
  <2>2. Held(u)
    BY <1>5, <1>6, <2>1 DEF CanDeliverInv
  <2> QED
    BY <1>1, <2>1, <2>2, ZenonT(60) DEF Held, ElementOK, FramesLeft, Chain, InStep
<1>7. ASSUME NEW m \in 1..Len(packets), Clear(m),
             \A u \in CanTasks : Busy(u) => csend[u].packet # m
      PROVE  GotThrough(m)'
  BY <1>1, <1>7 DEF CanDeliverInv, GotThrough
<1> QED
  BY <1>1, <1>3, <1>4, <1>5, <1>6, <1>7 DEF CanDeliverInv

\* A packet that lost no frame, no buffer and no element, and whose identifier no
\* other task of its node held meanwhile, is given to the router: the frames of
\* other packets, and elements left behind by packets that were lost, do not
\* hold it up.
THEOREM CanDeliversCorrect == CanSpec => []CanDelivers
<1>1. CanInit => CanDeliverInv
  <2> SUFFICES ASSUME CanInit PROVE CanDeliverInv
    OBVIOUS
  <2>1. /\ csend = [t \in CanTasks |-> NotSending] /\ packets = <<>>
    BY DEF CanInit
  <2>2. \A t \in CanTasks : csend[t].at = "idle"
    BY <2>1 DEF NotSending
  <2>3. Len(packets) = 0
    BY <2>1
  <2> QED
    BY <2>2, <2>3 DEF CanDeliverInv, Clashes, Busy
<1>2. CanInv /\ CanDeliverInv /\ [CanNext]_canVars => CanDeliverInv'
  <2> SUFFICES ASSUME CanInv, CanDeliverInv, [CanNext]_canVars PROVE CanDeliverInv'
    OBVIOUS
  <2>1. ASSUME NEW t \in CanTasks,
               ReadIdent(t) \/ WriteIdent(t) \/ SendBegin(t) \/ SendMore(t) \/ SendLost(t)
        PROVE  CanDeliverInv'
    BY <2>1, ReadDelivers, WriteDelivers, BeginDelivers, MoreDelivers, LostDelivers
  <2>2. CASE UNCHANGED canVars
    <3>1. /\ csend' = csend /\ packets' = packets /\ pbuf' = pbuf /\ canOut' = canOut
          /\ clash' = clash /\ hit' = hit
      BY <2>2 DEF canVars
    <3> QED
      BY <3>1 DEF CanDeliverInv, Clashes, Busy, Clear, Held, GotThrough, ElementOK, FramesLeft,
                  Chain, InStep
  <2> QED
    BY <2>1, <2>2 DEF CanNext
<1>3. CanDeliverInv => CanDelivers
  <2> SUFFICES ASSUME CanDeliverInv, NEW n \in 1..Len(packets), n \notin hit \cup clash,
                      \A t \in CanTasks : csend[t].packet # n
               PROVE  \E k \in 1..Len(canOut) : canOut[k].packet = n
    BY DEF CanDelivers
  <2> QED
    BY DEF CanDeliverInv, Clear, GotThrough
<1> QED
  BY <1>1, <1>2, <1>3, CanInvCorrect, PTL DEF CanSpec

=============================================================================
