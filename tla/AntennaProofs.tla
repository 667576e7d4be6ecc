---------------------------- MODULE AntennaProofs ----------------------------
(***************************************************************************)
(* Proofs about module Antenna for all addresses of different parity, all  *)
(* files and lines, all sizes of blocks and pipes, and however many calls  *)
(* fail: opening the pipes ends, and no file is short; and as long as no   *)
(* call fails, files of whole blocks arrive intact.                        *)
(***************************************************************************)
EXTENDS Antenna, SequenceTheorems, TLAPS

\* A part of a sequence of bytes is a sequence of bytes.
LEMMA Part ==
  ASSUME NEW s \in Seq(Nat), NEW m \in Nat \ {0}, NEW n \in Nat, n <= Len(s)
  PROVE  /\ SubSeq(s, m, n) \in Seq(Nat)
         /\ Len(SubSeq(s, m, n)) = IF m <= n THEN n - m + 1 ELSE 0
<1>1. \A i \in m..n : s[i] \in Nat
  OBVIOUS
<1> QED
  BY <1>1, SubSeqProperties

\* What a read returns, and what it leaves in the pipe.
LEMMA UptoType ==
  ASSUME TypeOK, NEW p \in Program, NEW n \in Nat
  PROVE  /\ Upto(p, n) \in Seq(Nat)
         /\ Len(Upto(p, n)) <= n
         /\ Len(Upto(p, n)) <= Len(pipe[p])
         /\ n > 0 /\ pipe[p] # <<>> => Len(Upto(p, n)) > 0
<1> DEFINE k == IF Len(pipe[p]) < n THEN Len(pipe[p]) ELSE n
<1>1. pipe[p] \in Seq(Nat) /\ Len(pipe[p]) \in Nat /\ k \in Nat /\ k <= Len(pipe[p])
  BY DEF TypeOK
<1>2. SubSeq(pipe[p], 1, k) \in Seq(Nat) /\ Len(SubSeq(pipe[p], 1, k)) = k
  BY <1>1, Part
<1>3. pipe[p] # <<>> => Len(pipe[p]) > 0
  BY <1>1
<1> QED
  BY <1>1, <1>2, <1>3 DEF Upto

PipeOK == 
  /\ pipe \in [Program -> Seq(Nat)]
  /\ \A p \in Program : Len(pipe[p]) <= PipeSize

LEMMA ConsumeType ==
  ASSUME TypeOK, NEW p \in Program, NEW n \in Nat, n <= Len(pipe[p]), Consume(p, n)
  PROVE  PipeOK'
<1> DEFINE rest == SubSeq(pipe[p], n + 1, Len(pipe[p]))
<1>1. pipe[p] \in Seq(Nat) /\ Len(pipe[p]) \in Nat /\ Len(pipe[p]) <= PipeSize
  BY DEF TypeOK
<1>2. rest \in Seq(Nat) /\ Len(rest) <= PipeSize
  BY <1>1, Part, SizeAssumption
<1>3. pipe' = [pipe EXCEPT ![p] = rest]
  BY DEF Consume
<1> QED
  BY <1>2, <1>3 DEF PipeOK, TypeOK

LEMMA FailsType ==
  ASSUME TypeOK, Fails \/ UNCHANGED failures
  PROVE  failures' \in 0..MaxFail
<1>1. failures \in 0..MaxFail /\ MaxFail \in Nat
  BY SizeAssumption DEF TypeOK
<1> QED
  BY <1>1 DEF Fails

LEMMA WriteFdType ==
  ASSUME TypeOK, NEW p \in Program, NEW bytes \in Seq(Nat), WriteFd(p, bytes)
  PROVE  PipeOK' /\ failures' \in 0..MaxFail
<1>1. Peer[p] \in Program
  BY ProgramAssumption
<1>2. CASE Fails /\ UNCHANGED pipe
  BY <1>2, FailsType DEF TypeOK, PipeOK
<1>3. CASE /\ Len(pipe[Peer[p]]) + Len(bytes) <= PipeSize
           /\ pipe' = [pipe EXCEPT ![Peer[p]] = @ \o bytes]
           /\ UNCHANGED failures
  <2>1. pipe[Peer[p]] \in Seq(Nat)
    BY <1>1 DEF TypeOK
  <2>2. /\ pipe[Peer[p]] \o bytes \in Seq(Nat)
        /\ Len(pipe[Peer[p]] \o bytes) = Len(pipe[Peer[p]]) + Len(bytes)
    BY <2>1, ConcatProperties
  <2> QED
    BY <1>1, <1>3, <2>2 DEF TypeOK, PipeOK
<1> QED
  BY <1>2, <1>3 DEF WriteFd

LEMMA ToldType ==
  ASSUME TypeOK, NEW p \in Program, Told(p)
  PROVE  asked' \in [Program -> Nat]
  BY DEF Told, TypeOK

LEMMA SizeIsNat ==
  ASSUME NEW bytes \in Seq(Nat), bytes # <<>>, NEW size \in ParsedSizes(bytes)
  PROVE  size \in Nat
<1>1. Len(bytes) \in Nat /\ Len(bytes) # 0
  BY EmptySeq
<1>3. Len(bytes) = 1 \/ bytes[2] \in Nat
  <2> SUFFICES ASSUME Len(bytes) # 1 PROVE bytes[2] \in Nat
    OBVIOUS
  <2>1. \A n \in Nat : n # 0 /\ n # 1 => 2 \in 1..n
    OBVIOUS
  <2>2. 2 \in 1..Len(bytes)
    BY <1>1, <2>1
  <2> QED
    BY <2>2, ElementOfSeq
<1>2. \A f \in UNION {Files[p] : p \in Program} : Len(f) \in Nat
  BY DataAssumption
<1> QED
  BY <1>2, <1>3 DEF ParsedSizes

----------------------------------------------------------------------------
\* The types of all variables, relied on by everything else.
RxType == [at : {"none", "notice", "data"}, size : Nat, total : Nat, file : Seq(Nat)]

LEMMA WaitingType == Waiting \in RxType
  BY DEF Waiting, RxType

LEMMA StoreType ==
  ASSUME TypeOK, NEW p \in Program, NEW bytes \in Seq(Nat), Store(p, bytes)
  PROVE  rx' \in [Program -> RxType] /\ failures' \in 0..MaxFail
<1>1. rx \in [Program -> RxType] /\ rx[p] \in RxType /\ rx[p].file \in Seq(Nat)
  BY DEF TypeOK, RxType
<1>2. CASE /\ rx' = [rx EXCEPT ![p].file = @ \o bytes, ![p].total = @ + Len(bytes)]
           /\ UNCHANGED failures
  <2>1. rx[p].file \o bytes \in Seq(Nat)
    BY <1>1, ConcatProperties
  <2>2. rx[p].total + Len(bytes) \in Nat
    BY <1>1 DEF RxType
  <2>3. [rx[p] EXCEPT !.file = @ \o bytes, !.total = @ + Len(bytes)] \in RxType
    BY <1>1, <2>1, <2>2 DEF RxType
  <2>4. rx' = [rx EXCEPT ![p] = [rx[p] EXCEPT !.file = @ \o bytes, !.total = @ + Len(bytes)]]
    BY <1>1, <1>2
  <2> QED
    BY <1>1, <1>2, <2>3, <2>4, FailsType
<1>3. ASSUME Fails, NEW n \in 0..(Len(bytes) - 1),
             rx' = [rx EXCEPT ![p].file = @ \o SubSeq(bytes, 1, n),
                              ![p].total = CountedOnFailure(rx[p], Len(bytes))]
      PROVE  rx' \in [Program -> RxType] /\ failures' \in 0..MaxFail
  <2>1. SubSeq(bytes, 1, n) \in Seq(Nat)
    BY Part
  <2>2. rx[p].file \o SubSeq(bytes, 1, n) \in Seq(Nat)
    BY <1>1, <2>1, ConcatProperties
  <2>3. failures' \in 0..MaxFail
    BY <1>3, FailsType
  <2> QED
    BY <1>1, <1>3, <2>2, <2>3 DEF RxType, CountedOnFailure
<1> QED
  BY <1>2, <1>3 DEF Store

LEMMA TypeInit == Init => TypeOK
<1> SUFFICES ASSUME Init PROVE TypeOK
  OBVIOUS
<1>1. <<>> \in Seq(Nat) /\ <<>> \in Seq(Seq(Nat)) /\ Len(<<>>) = 0
  OBVIOUS
<1>2. rx \in [Program -> [at : {"none", "notice", "data"}, size : Nat, total : Nat, file : Seq(Nat)]]
  BY <1>1 DEF Init, Waiting
<1>3. \A p \in Program : Len(pipe[p]) <= PipeSize
  <2>1. 0 <= PipeSize
    BY SizeAssumption
  <2>2. \A p \in Program : pipe[p] = <<>>
    BY DEF Init
  <2> QED
    BY <1>1, <2>1, <2>2
<1>4. failures \in 0..MaxFail
  BY SizeAssumption DEF Init
<1> QED
  BY <1>1, <1>2, <1>3, <1>4 DEF Init, TypeOK, MainStates

LEMMA TypeStep ==
  ASSUME TypeOK, Next
  PROVE  TypeOK'
<1> SUFFICES ASSUME NEW p \in Program,
                    \/ Start(p) \/ OpenReturns(p)
                    \/ SendLine(p) \/ SendNotice(p) \/ CannotOpen(p) \/ SendBlock(p)
                    \/ FileSent(p)
                    \/ NotNotice(p) \/ ReadNotice(p) \/ ReadData(p) \/ ReadFails(p)
                    \/ FileReceived(p)
             PROVE  TypeOK'
  BY DEF Next
<1>a. rx \in [Program -> RxType] /\ Waiting \in RxType /\ PipeOK
  BY WaitingType DEF TypeOK, RxType, PipeOK
<1>1. CASE Start(p)
  BY <1>1 DEF Start, TypeOK, MainStates
<1>2. CASE OpenReturns(p)
  <2>1. main' \in [Program -> MainStates]
    BY <1>2 DEF OpenReturns, TypeOK, MainStates
  <2>2. rx' \in [Program -> RxType]
    BY <1>2, <1>a DEF OpenReturns
  <2> QED
    BY <1>2, <2>1, <2>2 DEF OpenReturns, TypeOK, RxType
<1>3. CASE SendLine(p)
  <2>1. PICK line \in Lines[p] : WriteFd(p, line)
    BY <1>3 DEF SendLine
  <2>2. line \in Seq(Nat)
    BY DataAssumption
  <2>3. PipeOK' /\ failures' \in 0..MaxFail
    BY <2>1, <2>2, WriteFdType
  <2> QED
    BY <1>3, <2>3, ToldType DEF SendLine, TypeOK, PipeOK
<1>4. CASE SendNotice(p)
  <2>1. PICK file \in Files[p] :
          /\ WriteFd(p, Notice(Len(file)))
          /\ left' = [left EXCEPT ![p] = file]
          /\ sent' = [sent EXCEPT ![p] = Append(@, file)]
    BY <1>4 DEF SendNotice
  <2>2. file \in Seq(Nat) /\ Notice(Len(file)) \in Seq(Nat)
    BY DataAssumption DEF Notice, F
  <2>3. PipeOK' /\ failures' \in 0..MaxFail
    BY <2>1, <2>2, WriteFdType
  <2>4. left' \in [Program -> Seq(Nat)]
    BY <2>1, <2>2 DEF TypeOK
  <2>5. sent' \in [Program -> Seq(Seq(Nat))]
    <3>1. Append(sent[p], file) \in Seq(Seq(Nat))
      BY <2>2 DEF TypeOK
    <3> QED
      BY <2>1, <3>1 DEF TypeOK
  <2> QED
    BY <1>4, <2>3, <2>4, <2>5, ToldType DEF SendNotice, TypeOK, PipeOK, MainStates
<1>5. CASE CannotOpen(p)
  BY <1>5, FailsType, ToldType DEF CannotOpen, TypeOK
<1>6. CASE SendBlock(p)
  <2>1. left[p] \in Seq(Nat) /\ Len(left[p]) \in Nat /\ BufferSize <= Len(left[p])
    BY <1>6, SizeAssumption DEF SendBlock, WholeBlock, TypeOK
  <2>2. /\ SubSeq(left[p], 1, BufferSize) \in Seq(Nat)
        /\ SubSeq(left[p], BufferSize + 1, Len(left[p])) \in Seq(Nat)
    BY <2>1, Part, SizeAssumption
  <2>3. PipeOK' /\ failures' \in 0..MaxFail
    BY <1>6, <2>2, WriteFdType DEF SendBlock
  <2> QED
    BY <1>6, <2>2, <2>3 DEF SendBlock, TypeOK, PipeOK
<1>7. CASE FileSent(p)
  BY <1>7 DEF FileSent, TypeOK, MainStates
<1>8. CASE NotNotice(p)
  <2>1. PipeOK'
    BY <1>8, UptoType, ConsumeType DEF NotNotice, NoticeLen
  <2> QED
    BY <1>8, <2>1 DEF NotNotice, senderVars, TypeOK, PipeOK
<1>9. CASE ReadNotice(p)
  <2> DEFINE bytes == Upto(p, NoticeLen)
  <2>5. pipe[p] # <<>> /\ Consume(p, Len(bytes))
    BY <1>9 DEF ReadNotice, Consume
  <2>6. NoticeLen \in Nat /\ NoticeLen > 0
    BY DEF NoticeLen
  <2>1. bytes \in Seq(Nat) /\ bytes # <<>> /\ Len(bytes) <= Len(pipe[p])
    BY <2>5, <2>6, UptoType, EmptySeq
  <2>2. PipeOK'
    BY <2>1, <2>5, ConsumeType
  <2>3. rx' \in [Program -> RxType]
    <3>1. \A size \in ParsedSizes(bytes) :
            [Waiting EXCEPT !.at = "data", !.size = size] \in RxType
      <4>1. \A size \in ParsedSizes(bytes) : size \in Nat
        BY <2>1, SizeIsNat
      <4> QED
        BY <4>1, <1>a DEF RxType
    <3> QED
      BY <1>9, <1>a, <3>1 DEF ReadNotice
  <2>4. failures' \in 0..MaxFail
    BY <1>9, FailsType DEF ReadNotice
  <2> QED
    BY <1>9, <2>2, <2>3, <2>4 DEF ReadNotice, senderVars, TypeOK, PipeOK, RxType
<1>10. CASE ReadData(p)
  <2> DEFINE bytes == Upto(p, BufferSize)
  <2>1. bytes \in Seq(Nat) /\ Len(bytes) <= Len(pipe[p])
    BY UptoType, SizeAssumption
  <2>2. PipeOK'
    BY <1>10, <2>1, ConsumeType DEF ReadData
  <2>3. rx' \in [Program -> RxType] /\ failures' \in 0..MaxFail
    BY <1>10, <2>1, StoreType DEF ReadData
  <2> QED
    BY <1>10, <2>2, <2>3 DEF ReadData, senderVars, TypeOK, PipeOK, RxType
<1>11. CASE ReadFails(p)
  <2>1. rx' \in [Program -> RxType]
    BY <1>11, <1>a DEF ReadFails
  <2>2. failures' \in 0..MaxFail
    BY <1>11, FailsType DEF ReadFails
  <2> QED
    BY <1>11, <2>1, <2>2 DEF ReadFails, senderVars, TypeOK, RxType
<1>12. CASE FileReceived(p)
  <2>1. rx' \in [Program -> RxType]
    BY <1>12, <1>a DEF FileReceived, AfterFile
  <2>2. Append(received[p], rx[p].file) \in Seq(Seq(Nat))
    BY DEF TypeOK
  <2> QED
    BY <1>12, <2>1, <2>2 DEF FileReceived, senderVars, TypeOK, RxType
<1> QED
  BY <1>1, <1>2, <1>3, <1>4, <1>5, <1>6, <1>7, <1>8, <1>9, <1>10, <1>11, <1>12

\* Every variable keeps its type; a pipe never holds more than it can.
THEOREM TypeCorrect == Spec => []TypeOK
<1>1. TypeOK /\ [Next]_vars => TypeOK'
  BY TypeStep DEF vars, senderVars, TypeOK
<1> QED
  BY <1>1, TypeInit, PTL DEF Spec

----------------------------------------------------------------------------
\* Opening the pipes: one of the programs opens its tx first, the other its rx.
LEMMA FirstEnds ==
  ASSUME NEW p \in Program
  PROVE  FirstEnd(Peer[p]) = Opposite(FirstEnd(p))
<1>1. Peer[p] \in Program
  BY ProgramAssumption
<1>2. Address[p] \in Nat /\ Address[Peer[p]] \in Nat
  BY <1>1, AddressAssumption
<1>3. Address[p] % 2 \in 0..1 /\ Address[Peer[p]] % 2 \in 0..1
  BY <1>2
<1>4. Address[p] % 2 # Address[Peer[p]] % 2
  BY AddressAssumption
<1>5. CASE Address[p] % 2 = 0
  <2>1. Address[Peer[p]] % 2 # 0
    BY <1>4, <1>5
  <2> QED
    BY <1>5, <2>1 DEF FirstEnd, Opposite, OddAddress
<1>6. CASE Address[p] % 2 # 0
  <2>1. Address[Peer[p]] % 2 = 0
    BY <1>3, <1>4, <1>6
  <2> QED
    BY <1>6, <2>1 DEF FirstEnd, Opposite, OddAddress
<1> QED
  BY <1>5, <1>6

\* Whatever the two addresses, if one is odd and one is even the two programs
\* never wait for each other in fifo_init.
THEOREM OpenCorrect == Spec => []OpenNeverDeadlocks
<1>1. OpenNeverDeadlocks
  <2> SUFFICES ASSUME \A p \in Program : main[p] \in {"first", "second"}
               PROVE  \E p \in Program : CanReturn(p)
    BY DEF OpenNeverDeadlocks
  <2>1. PICK p \in Program : TRUE
    BY ProgramAssumption
  <2>2. Peer[p] \in Program /\ Peer[Peer[p]] = p
    BY ProgramAssumption
  <2>3. main[p] \in {"first", "second"} /\ main[Peer[p]] \in {"first", "second"}
    BY <2>2
  <2>4. FirstEnd(Peer[p]) = Opposite(FirstEnd(p)) /\ FirstEnd(p) \in {"rx", "tx"}
    BY FirstEnds DEF FirstEnd
  <2>5. FirstEnd(p) = Opposite(FirstEnd(Peer[p]))
    BY <2>4 DEF Opposite
  <2>6. CASE main[p] = "first"
    <3>1. Opposite(FirstEnd(p)) \in Called(Peer[p])
      BY <2>3, <2>4 DEF Called, Opposite
    <3> QED
      BY <2>6, <3>1 DEF CanReturn
  <2>7. CASE main[Peer[p]] = "first"
    <3>1. Opposite(FirstEnd(Peer[p])) \in Called(p)
      BY <2>3, <2>4, <2>5 DEF Called
    <3> QED
      BY <2>2, <2>7, <3>1 DEF CanReturn
  <2>8. CASE main[p] = "second" /\ main[Peer[p]] = "second"
    <3>1. FirstEnd(p) \in Called(Peer[p])
      BY <2>4, <2>8 DEF Called
    <3> QED
      BY <2>8, <3>1 DEF CanReturn
  <2> QED
    BY <2>3, <2>6, <2>7, <2>8
<1> QED
  BY <1>1, PTL

----------------------------------------------------------------------------
\* What the receiving thread has counted is in the file, and the file is no
\* longer than the loop of antenna_fread_fd and its failures allow.
Excess == failures * (BufferSize - 1)
CountedInv ==
  \A p \in Program :
    /\ rx[p].total <= Len(rx[p].file)
    /\ Len(rx[p].file) <= rx[p].total + Excess
    /\ rx[p].total <= rx[p].size + BufferSize - 1

\* The same for one thread, when e bytes may have been left by failed calls.
Counted(r, e) ==
  /\ r.total <= Len(r.file)
  /\ Len(r.file) <= r.total + e
  /\ r.total <= r.size + BufferSize - 1

\* A failure more allows BufferSize - 1 bytes more.
LEMMA ExcessGrows ==
  ASSUME TypeOK, Fails \/ UNCHANGED failures
  PROVE  /\ Excess \in Nat /\ Excess' \in Nat /\ Excess <= Excess'
         /\ Fails => Excess' = Excess + (BufferSize - 1)
<1>1. failures \in Nat /\ BufferSize - 1 \in Nat
  BY SizeAssumption DEF TypeOK
<1>2. \A k, m \in Nat : k * m \in Nat /\ (k + 1) * m = k * m + m
  OBVIOUS
<1>3. (failures + 1) * (BufferSize - 1) = Excess + (BufferSize - 1) /\ Excess \in Nat
  BY <1>1, <1>2 DEF Excess
<1> QED
  BY <1>1, <1>3 DEF Excess, Fails

LEMMA RxTyped ==
  ASSUME TypeOK, NEW p \in Program
  PROVE  rx \in [Program -> RxType] /\ rx[p] \in RxType
  BY DEF TypeOK, RxType

LEMMA CountedMore ==
  ASSUME NEW r \in RxType, NEW e \in Nat, NEW d \in Nat, e <= d, Counted(r, e)
  PROVE  Counted(r, d)
<1>1. Len(r.file) \in Nat /\ r.total \in Nat
  BY DEF RxType
<1> QED
  BY <1>1 DEF Counted

LEMMA CountedWaiting ==
  ASSUME NEW size \in Nat, NEW e \in Nat
  PROVE  /\ Counted(Waiting, e)
         /\ Counted([Waiting EXCEPT !.at = "data", !.size = size], e)
<1>1. Len(<<>>) = 0
  BY EmptySeq
<1> QED
  BY <1>1, SizeAssumption DEF Counted, Waiting

\* One turn of the loop keeps the count.
LEMMA CountedStore ==
  ASSUME TypeOK, CountedInv, NEW p \in Program, NEW bytes \in Seq(Nat),
         Len(bytes) <= BufferSize, Incomplete(rx[p]), Store(p, bytes)
  PROVE  CountedInv'
<1> DEFINE r == rx[p]
<1>1. /\ r.total \in Nat /\ r.size \in Nat /\ r.file \in Seq(Nat) /\ r.total < r.size
      /\ Len(bytes) \in Nat /\ Len(r.file) \in Nat
  BY DEF TypeOK, Incomplete
<1>2. Excess \in Nat /\ Excess' \in Nat /\ Excess <= Excess' /\ BufferSize \in Nat \ {0}
  BY ExcessGrows, SizeAssumption DEF Store
<1>3. Counted(r, Excess)
  BY DEF CountedInv, Counted
<1>4. \A q \in Program : q # p => rx'[q] = rx[q]
  BY DEF Store, TypeOK
<1>5. \A q \in Program : q # p => Counted(rx'[q], Excess')
  <2> SUFFICES ASSUME NEW q \in Program, q # p PROVE Counted(rx'[q], Excess')
    OBVIOUS
  <2>1. Counted(rx[q], Excess)
    BY DEF CountedInv, Counted
  <2> QED
    BY <1>2, <1>4, <2>1, RxTyped, CountedMore
<1>6. CASE /\ rx' = [rx EXCEPT ![p].file = @ \o bytes, ![p].total = @ + Len(bytes)]
           /\ UNCHANGED failures
  <2>1. rx'[p] = [r EXCEPT !.file = @ \o bytes, !.total = @ + Len(bytes)]
    BY <1>6 DEF TypeOK
  <2>2. /\ rx'[p].file = r.file \o bytes /\ rx'[p].total = r.total + Len(bytes)
        /\ rx'[p].size = r.size
    BY <2>1, ZenonT(60) DEF TypeOK
  <2>3. Len(rx'[p].file) = Len(r.file) + Len(bytes)
    BY <1>1, <2>2, ConcatProperties
  <2>4. Counted(rx'[p], Excess')
    <3> DEFINE l == Len(r.file)
    <3>1. r.total <= l /\ l <= r.total + Excess /\ l \in Nat
      BY <1>1, <1>3 DEF Counted
    <3> HIDE DEF l
    <3>2. r.total + Len(bytes) <= l + Len(bytes)
      BY <1>1, <3>1
    <3>3. l + Len(bytes) <= r.total + Len(bytes) + Excess'
      BY <1>1, <1>2, <3>1
    <3>4. r.total + Len(bytes) <= r.size + BufferSize - 1
      BY <1>1, <1>2
    <3> QED
      BY <2>2, <2>3, <3>2, <3>3, <3>4 DEF Counted, l
  <2> QED
    BY <1>5, <2>4 DEF CountedInv, Counted
<1>7. ASSUME Fails, NEW n \in 0..(Len(bytes) - 1),
             rx' = [rx EXCEPT ![p].file = @ \o SubSeq(bytes, 1, n),
                              ![p].total = CountedOnFailure(rx[p], Len(bytes))]
      PROVE  CountedInv'
  <2>1. rx'[p] = [r EXCEPT !.file = @ \o SubSeq(bytes, 1, n), !.total = r.total]
    BY <1>7 DEF TypeOK, CountedOnFailure
  <2>2. /\ rx'[p].file = r.file \o SubSeq(bytes, 1, n) /\ rx'[p].total = r.total
        /\ rx'[p].size = r.size
    BY <2>1, RxTyped DEF RxType
  <2>3. SubSeq(bytes, 1, n) \in Seq(Nat) /\ Len(SubSeq(bytes, 1, n)) = n
    BY <1>1, Part
  <2>4. Len(rx'[p].file) = Len(r.file) + n
    <3>1. Len(r.file \o SubSeq(bytes, 1, n)) = Len(r.file) + Len(SubSeq(bytes, 1, n))
      BY <1>1, <2>3, ConcatProperties
    <3> QED
      BY <2>2, <2>3, <3>1
  <2>5. Excess' = Excess + (BufferSize - 1) /\ n <= BufferSize - 1 /\ n \in Nat
    BY <1>1, <1>2, <1>7, ExcessGrows
  <2>6. Counted(rx'[p], Excess')
    <3> DEFINE l == Len(r.file)
    <3>1. r.total <= l /\ l <= r.total + Excess /\ l \in Nat
          /\ r.total <= r.size + BufferSize - 1
      BY <1>1, <1>3 DEF Counted
    <3> HIDE DEF l
    <3> DEFINE t == r.total
    <3>3. t \in Nat /\ t <= l /\ l <= t + Excess
      BY <1>1, <3>1
    <3> HIDE DEF t
    <3>4. l + n <= t + (Excess + (BufferSize - 1))
      BY <1>2, <2>5, <3>1, <3>3
    <3>5. t <= l + n
      BY <2>5, <3>1, <3>3
    <3>2. r.total <= l + n /\ l + n <= r.total + Excess'
      BY <2>5, <3>4, <3>5 DEF t
    <3> QED
      BY <2>2, <2>4, <3>1, <3>2 DEF Counted, l
  <2> QED
    BY <1>5, <2>6 DEF CountedInv, Counted
<1> QED
  BY <1>6, <1>7 DEF Store

\* The other steps leave a thread as it is, or put it at the beginning of a file.
LEMMA CountedOther ==
  ASSUME TypeOK, CountedInv, NEW p \in Program, Fails \/ UNCHANGED failures,
         \/ UNCHANGED rx
         \/ rx' = [rx EXCEPT ![p] = Waiting]
         \/ \E size \in Nat :
              rx' = [rx EXCEPT ![p] = [Waiting EXCEPT !.at = "data", !.size = size]]
  PROVE  CountedInv'
<1>1. Excess \in Nat /\ Excess' \in Nat /\ Excess <= Excess'
  BY ExcessGrows
<1>2. ASSUME NEW q \in Program, rx'[q] = rx[q]
      PROVE  Counted(rx'[q], Excess')
  <2>1. Counted(rx[q], Excess)
    BY DEF CountedInv, Counted
  <2> QED
    BY <1>1, <1>2, <2>1, RxTyped, CountedMore
<1>3. \A q \in Program : rx'[q] = rx[q] \/ Counted(rx'[q], Excess')
  <2>1. rx \in [Program -> RxType]
    BY RxTyped
  <2>2. CASE rx' = [rx EXCEPT ![p] = Waiting]
    BY <1>1, <2>1, <2>2, CountedWaiting
  <2>3. CASE \E size \in Nat :
               rx' = [rx EXCEPT ![p] = [Waiting EXCEPT !.at = "data", !.size = size]]
    <3>1. PICK size \in Nat :
            rx' = [rx EXCEPT ![p] = [Waiting EXCEPT !.at = "data", !.size = size]]
      BY <2>3
    <3>2. Counted([Waiting EXCEPT !.at = "data", !.size = size], Excess')
      BY <1>1, CountedWaiting
    <3> QED
      BY <2>1, <3>1, <3>2
  <2> QED
    BY <2>2, <2>3
<1> QED
  BY <1>2, <1>3 DEF CountedInv, Counted

LEMMA CountedStep ==
  ASSUME TypeOK, CountedInv, [Next]_vars
  PROVE  CountedInv'
<1>1. CASE UNCHANGED vars
  BY <1>1 DEF vars, CountedInv, Excess
<1>2. ASSUME NEW p \in Program, ReadData(p)
      PROVE  CountedInv'
  <2>1. Upto(p, BufferSize) \in Seq(Nat) /\ Len(Upto(p, BufferSize)) <= BufferSize
    BY UptoType, SizeAssumption
  <2> QED
    BY <1>2, <2>1, CountedStore DEF ReadData
<1>3. ASSUME NEW p \in Program, ReadNotice(p)
      PROVE  CountedInv'
  <2> DEFINE bytes == Upto(p, NoticeLen)
  <2>1. bytes \in Seq(Nat) /\ bytes # <<>>
    <3>1. pipe[p] # <<>>
      BY <1>3 DEF ReadNotice, Consume
    <3>2. NoticeLen \in Nat /\ NoticeLen > 0
      BY DEF NoticeLen
    <3> QED
      BY <3>1, <3>2, UptoType, EmptySeq
  <2>2. \A size \in ParsedSizes(bytes) : size \in Nat
    BY <2>1, SizeIsNat
  <2> QED
    BY <1>3, <2>2, CountedOther DEF ReadNotice
<1>4. ASSUME NEW p \in Program, ReadFails(p) \/ FileReceived(p) \/ OpenReturns(p)
      PROVE  CountedInv'
  BY <1>4, CountedOther DEF ReadFails, FileReceived, AfterFile, OpenReturns
<1>5. ASSUME NEW p \in Program,
             \/ Start(p) \/ SendLine(p) \/ SendNotice(p) \/ CannotOpen(p)
             \/ SendBlock(p) \/ FileSent(p) \/ NotNotice(p)
      PROVE  CountedInv'
  <2>1. UNCHANGED rx /\ (Fails \/ UNCHANGED failures)
    BY <1>5 DEF Start, SendLine, SendNotice, CannotOpen, SendBlock, FileSent, NotNotice, WriteFd
  <2> QED
    BY <2>1, CountedOther
<1> QED
  BY <1>1, <1>2, <1>3, <1>4, <1>5 DEF Next

\* antenna_fread_fd never returns a file shorter than announced, whatever the
\* sizes and however many calls fail, and the excess is bounded.
THEOREM ShortCorrect == Spec => []NeverShort
<1>1. Init => CountedInv
  <2> SUFFICES ASSUME Init PROVE CountedInv
    OBVIOUS
  <2>1. failures \in Nat /\ Excess \in Nat
    BY SizeAssumption DEF Init, Excess
  <2>2. Len(<<>>) = 0
    BY EmptySeq
  <2>3. \A p \in Program : rx[p].total = 0 /\ rx[p].size = 0 /\ rx[p].file = <<>>
    BY DEF Init, Waiting
  <2>4. 0 <= 0 + Excess /\ 0 <= 0 + BufferSize - 1
    BY <2>1, SizeAssumption
  <2> QED
    <3> SUFFICES ASSUME NEW p \in Program
                 PROVE  /\ rx[p].total <= Len(rx[p].file)
                        /\ Len(rx[p].file) <= rx[p].total + Excess
                        /\ rx[p].total <= rx[p].size + BufferSize - 1
      BY DEF CountedInv
    <3>1. rx[p].total = 0 /\ rx[p].size = 0 /\ Len(rx[p].file) = 0
      BY <2>2, <2>3
    <3> QED
      BY <2>4, <3>1
<1>2. ASSUME TypeOK, CountedInv PROVE NeverShort
  <2> SUFFICES ASSUME NEW p \in Program
               PROVE  rx[p].total <= Len(rx[p].file) /\ Len(rx[p].file) <= rx[p].size + Overshoot
    BY DEF NeverShort
  <2>1. rx[p].total \in Nat /\ rx[p].size \in Nat /\ Len(rx[p].file) \in Nat
    BY <1>2 DEF TypeOK
  <2>2. Excess \in Nat /\ Overshoot = BufferSize - 1 + Excess /\ BufferSize \in Nat
    <3>1. failures \in Nat /\ BufferSize - 1 \in Nat
      BY <1>2, SizeAssumption DEF TypeOK
    <3>2. \A k, m \in Nat : k * m \in Nat
      OBVIOUS
    <3> QED
      BY <3>1, <3>2, SizeAssumption DEF Excess, Overshoot
  <2> QED
    BY <1>2, <2>1, <2>2 DEF CountedInv
<1> QED
  BY <1>1, <1>2, CountedStep, TypeCorrect, PTL DEF Spec

----------------------------------------------------------------------------
\* The files arrive intact.

\* n bytes are whole blocks.
Whole(n) == \E m \in Nat : n = m * BufferSize

\* antenna_fwrite_fd sends whole blocks only, and a size is a digit here.
WholeFiles == \A p \in Program : \A f \in Files[p] : Whole(Len(f)) /\ IsDigit(Len(f))

\* No lines are typed at a program that sends files, and no line that is typed
\* has a byte that a notice begins with.
NoF(bytes) == \A i \in 1..Len(bytes) : bytes[i] # F
FilesOrLines ==
  \A p \in Program : Lines[p] = {} \/ (Files[p] = {} /\ \A line \in Lines[p] : NoF(line))

\* What fread has not returned of a file is its end.
EndOf(rest, f) ==
  Len(rest) <= Len(f) /\ \A i \in 1..Len(rest) : rest[i] = f[Len(f) - Len(rest) + i]

\* A program that sends files fs, is at m, and has yet to send rest of the last.
SenderOK(m, fs, rest, files) ==
  /\ \A k \in 1..Len(fs) : fs[k] \in files
  /\ Whole(Len(rest))
  /\ m # "file" => rest = <<>>
  /\ m = "file" => Len(fs) > 0 /\ EndOf(rest, fs[Len(fs)])

\* x is in the o-th place after the F of the notice of f.
Piece(x, f, o) ==
  /\ o = 0 => x = F
  /\ o = 1 => x = Len(f)
  /\ o - 1 \in 1..Len(f) => x = f[o - 1]

\* s, the bytes in a pipe, are the notices and the bytes of the files fs from the
\* (n+1)-th on, but for the last `missing` bytes.  The F of the k-th notice is, or
\* was, or will be at at[k].
Stream(s, fs, missing, n, at) ==
  /\ n \in 0..Len(fs)
  /\ at \in [Nat -> Int]
  /\ \A k \in (n + 1)..Len(fs) : at[k + 1] = at[k] + 2 + Len(fs[k])
  /\ \A j, k \in (n + 1)..(Len(fs) + 1) : j < k => at[j] + 2 + Len(fs[j]) <= at[k]
  /\ at[Len(fs) + 1] = Len(s) + 1 + missing
  /\ \A k \in (n + 1)..Len(fs) : \A i \in 1..Len(s) : Piece(s[i], fs[k], i - at[k])

\* The receiving thread r, which has received n of the files fs, reads the next
\* of them, or will, and the pipe begins with what it expects.
ReaderOK(r, fs, n, first) ==
  /\ r.at # "data" => first = 1
  /\ r.at = "data" =>
       /\ n < Len(fs) /\ first = -1 - r.total
       /\ r.size = Len(fs[n + 1]) /\ r.total <= r.size /\ Whole(r.total)
       /\ Len(r.file) = r.total /\ \A i \in 1..r.total : r.file[i] = fs[n + 1][i]

\* What has been received are the first of the files.
Taken(rec, fs) == Len(rec) <= Len(fs) /\ \A k \in 1..Len(rec) : rec[k] = fs[k]

\* With s in the pipe, files fs sent but for rest of the last, and files rec
\* received, the receiving thread r goes on with what was sent.
Way(s, fs, rest, rec, r) ==
  /\ Taken(rec, fs)
  /\ \E at : /\ Stream(s, fs, Len(rest), Len(rec), at)
             /\ ReaderOK(r, fs, Len(rec), at[Len(rec) + 1])

\* From p, which sends files, to the other program.
FilesWay(p) ==
  /\ SenderOK(main[p], sent[p], left[p], Files[p])
  /\ failures = 0 => Way(pipe[Peer[p]], sent[p], left[p], received[Peer[p]], rx[Peer[p]])

\* From p, at which lines are typed.
LinesWay(p) ==
  /\ Files[p] = {} /\ sent[p] = <<>> /\ main[p] # "file"
  /\ received[Peer[p]] = <<>> /\ rx[Peer[p]].at # "data"
  /\ NoF(pipe[Peer[p]])

\* The receiving thread starts when the pipes are open.
Opened(p) == main[p] \notin {"ready", "file"} => rx[p].at = "none"

\* The inductive invariant.
IntactInv ==
  \A p \in Program : Opened(p) /\ IF Lines[p] = {} THEN FilesWay(p) ELSE LinesWay(p)

----------------------------------------------------------------------------
\* Whole blocks.

\* Between two numbers of whole blocks there is a block.
LEMMA WholeLess ==
  ASSUME NEW a, NEW b, Whole(a), Whole(b), a < b
  PROVE  a + BufferSize <= b /\ Whole(b - a)
<1>1. PICK k \in Nat, m \in Nat : a = k * BufferSize /\ b = m * BufferSize
  BY DEF Whole
<1>2. BufferSize \in Nat /\ BufferSize > 0
  BY SizeAssumption
<1>3. k < m
  BY <1>1, <1>2
<1>4. m - k \in Nat /\ b - a = (m - k) * BufferSize /\ m - k >= 1
  BY <1>1, <1>2, <1>3
<1>5. (m - k) * BufferSize >= BufferSize
  BY <1>2, <1>4
<1>6. a \in Nat /\ b \in Nat
  BY <1>1, <1>2
<1>7. b - a >= BufferSize
  BY <1>4, <1>5
<1>8. a + BufferSize <= b
  BY <1>2, <1>6, <1>7
<1>9. Whole(b - a)
  BY <1>4 DEF Whole
<1> QED
  BY <1>8, <1>9

\* One block more, and no block.
LEMMA WholeMore ==
  ASSUME NEW a, Whole(a) PROVE Whole(a + BufferSize) /\ a \in Nat
<1>1. PICK k \in Nat : a = k * BufferSize
  BY DEF Whole
<1>2. a + BufferSize = (k + 1) * BufferSize /\ a \in Nat
  BY <1>1, SizeAssumption
<1> QED
  BY <1>2 DEF Whole

LEMMA WholeZero == Whole(0)
<1>1. 0 = 0 * BufferSize
  BY SizeAssumption
<1> QED
  BY <1>1 DEF Whole

----------------------------------------------------------------------------
\* The bytes in the pipe.

FileSeq == Seq(Seq(Nat))

\* Files have lengths.
LEMMA FileLengths ==
  ASSUME NEW fs \in FileSeq
  PROVE  Len(fs) \in Nat /\ \A k \in 1..Len(fs) : fs[k] \in Seq(Nat) /\ Len(fs[k]) \in Nat
<1>1. Len(fs) \in Nat /\ \A k \in 1..Len(fs) : fs[k] \in Seq(Nat)
  BY DEF FileSeq
<1> QED
  BY <1>1

\* What Stream says of numbers.
LEMMA StreamParts ==
  ASSUME NEW s, NEW fs \in FileSeq, NEW missing, NEW n, NEW at, Stream(s, fs, missing, n, at)
  PROVE  /\ n \in 0..Len(fs) /\ n \in Nat /\ at \in [Nat -> Int]
         /\ at[Len(fs) + 1] = Len(s) + 1 + missing
         /\ \A k \in (n + 1)..(Len(fs) + 1) : k \in Nat /\ at[k] \in Int
         /\ \A k \in (n + 1)..Len(fs) : k \in 1..Len(fs) /\ at[k + 1] = at[k] + 2 + Len(fs[k])
<1>1. Len(fs) \in Nat
  BY FileLengths
<1> QED
  BY <1>1 DEF Stream

\* A notice is written.
LEMMA StreamNotice ==
  ASSUME NEW s \in Seq(Nat), NEW fs \in FileSeq, NEW f \in Seq(Nat), NEW n, NEW at,
         Stream(s, fs, 0, n, at)
  PROVE  \E bt : /\ Stream(s \o Notice(Len(f)), Append(fs, f), Len(f), n, bt)
                 /\ bt[n + 1] = at[n + 1]
<1> DEFINE N == Len(fs)
           gs == Append(fs, f)
           t == s \o Notice(Len(f))
           bt == [at EXCEPT ![N + 2] = at[N + 1] + 2 + Len(f)]
<1>1. /\ N \in Nat /\ Len(f) \in Nat /\ Len(s) \in Nat /\ n \in 0..N
      /\ at \in [Nat -> Int] /\ at[N + 1] = Len(s) + 1
  <2>1. Len(f) \in Nat /\ Len(s) \in Nat
    OBVIOUS
  <2> QED
    BY <2>1, FileLengths, StreamParts
<1>2. /\ Len(gs) = N + 1 /\ gs[N + 1] = f /\ \A k \in 1..N : gs[k] = fs[k] /\ Len(fs[k]) \in Nat
  BY DEF FileSeq
<1>3. /\ Len(t) = Len(s) + 2 /\ t[Len(s) + 1] = F /\ t[Len(s) + 2] = Len(f)
      /\ \A i \in 1..Len(s) : t[i] = s[i]
  BY <1>1 DEF Notice
<1>4. /\ bt \in [Nat -> Int] /\ bt[N + 2] = at[N + 1] + 2 + Len(f)
      /\ \A k \in 1..(N + 1) : bt[k] = at[k]
  BY <1>1, SMTT(40)
<1>10. /\ \A k \in (n + 1)..N : at[k + 1] = at[k] + 2 + Len(fs[k])
       /\ \A j, k \in (n + 1)..(N + 1) : j < k => at[j] + 2 + Len(fs[j]) <= at[k]
       /\ \A k \in (n + 1)..N : \A i \in 1..Len(s) : Piece(s[i], fs[k], i - at[k])
  BY DEF Stream
<1> HIDE DEF gs, t, bt, N
<1>5. \A k \in (n + 1)..(N + 1) : bt[k + 1] = bt[k] + 2 + Len(gs[k])
  <2> SUFFICES ASSUME NEW k \in (n + 1)..(N + 1) PROVE bt[k + 1] = bt[k] + 2 + Len(gs[k])
    OBVIOUS
  <2>1. CASE k = N + 1
    BY <1>1, <1>2, <1>4, <2>1
  <2>2. CASE k \in (n + 1)..N
    <3>1. k \in 1..N /\ k \in 1..(N + 1) /\ k + 1 \in 1..(N + 1)
      BY <1>1, <2>2
    <3>2. bt[k] = at[k] /\ bt[k + 1] = at[k + 1] /\ gs[k] = fs[k]
      BY <1>2, <1>4, <3>1
    <3>3. at[k + 1] = at[k] + 2 + Len(fs[k])
      BY <1>10, <2>2
    <3> QED
      BY <3>2, <3>3
  <2> QED
    BY <1>1, <2>1, <2>2
<1>6. \A j, k \in (n + 1)..(N + 2) : j < k => bt[j] + 2 + Len(gs[j]) <= bt[k]
  <2> SUFFICES ASSUME NEW j \in (n + 1)..(N + 2), NEW k \in (n + 1)..(N + 2), j < k
               PROVE bt[j] + 2 + Len(gs[j]) <= bt[k]
    OBVIOUS
  <2>5. j \in (n + 1)..(N + 1) /\ j \in 1..(N + 1) /\ j \in Nat
    BY <1>1
  <2>1. j \in (n + 1)..(N + 1) /\ bt[j] = at[j] /\ at[j] \in Int
    BY <1>1, <1>4, <2>5
  <2>2. CASE k \in (n + 1)..(N + 1)
    <3>1. at[j] + 2 + Len(fs[j]) <= at[k] /\ j \in 1..N
      BY <1>1, <1>10, <2>1, <2>2
    <3>2. k \in 1..(N + 1)
      BY <1>1, <2>2
    <3>3. bt[k] = at[k] /\ gs[j] = fs[j]
      BY <1>2, <1>4, <3>1, <3>2
    <3> QED
      BY <2>1, <3>1, <3>3
  <2>3. CASE k = N + 2 /\ j = N + 1
    <3>1. bt[j] = Len(s) + 1 /\ gs[j] = f /\ bt[k] = Len(s) + 1 + 2 + Len(f)
      BY <1>1, <1>2, <1>4, <2>1, <2>3
    <3> QED
      BY <1>1, <3>1
  <2>4. CASE k = N + 2 /\ j \in (n + 1)..N
    <3>1. at[j] + 2 + Len(fs[j]) <= at[N + 1] /\ j \in 1..N
      BY <1>1, <1>10, <2>4
    <3> DEFINE a == at[j]
               b == at[N + 1]
               l == Len(fs[j])
               m == Len(f)
    <3>2. a \in Int /\ b \in Int /\ l \in Nat /\ m \in Nat /\ a + 2 + l <= b
      BY <1>1, <1>2, <2>1, <3>1
    <3>3. bt[k] = b + 2 + m /\ gs[j] = fs[j] /\ bt[j] = a
      BY <1>2, <1>4, <2>1, <2>4, <3>1
    <3>4. a + 2 + l <= b + 2 + m
      <4> HIDE DEF a, b, l, m
      <4> QED
        BY <3>2
    <3> QED
      BY <3>3, <3>4
  <2> QED
    BY <1>1, <2>1, <2>2, <2>3, <2>4
<1>7. \A k \in (n + 1)..(N + 1) : \A i \in 1..Len(t) : Piece(t[i], gs[k], i - bt[k])
  <2> SUFFICES ASSUME NEW k \in (n + 1)..(N + 1), NEW i \in 1..Len(t)
               PROVE Piece(t[i], gs[k], i - bt[k])
    OBVIOUS
  <2>1. CASE k = N + 1
    <3>1. bt[k] = Len(s) + 1 /\ gs[k] = f
      <4>1. N + 1 \in 1..(N + 1)
        BY <1>1
      <4>2. bt[N + 1] = at[N + 1]
        BY <1>4, <4>1
      <4> QED
        BY <1>1, <1>2, <2>1, <4>2
    <3> DEFINE m == Len(s)
               l == Len(f)
               o == i - (m + 1)
    <3>2. /\ m \in Nat /\ l \in Nat /\ i \in 1..(m + 2)
          /\ t[m + 1] = F /\ t[m + 2] = l
      BY <1>1, <1>3
    <3>3. (o = 0 => i = m + 1) /\ (o = 1 => i = m + 2) /\ o - 1 \notin 1..l
      <4> HIDE DEF m, l
      <4> QED
        BY <3>2
    <3> HIDE DEF m, o
    <3>4. Piece(t[i], f, o)
      BY <3>2, <3>3 DEF Piece
    <3> QED
      BY <3>1, <3>4 DEF m, o
  <2>2. CASE k \in (n + 1)..N /\ i \in 1..Len(s)
    <3>1. Piece(s[i], fs[k], i - at[k])
      BY <1>10, <2>2
    <3> QED
      BY <1>1, <1>2, <1>3, <1>4, <2>2, <3>1
  <2>3. CASE k \in (n + 1)..N /\ i > Len(s)
    <3>1. at[k] + 2 + Len(fs[k]) <= at[N + 1]
      BY <1>1, <1>10, <2>3
    <3>5. k \in 1..N /\ k \in 1..(N + 1) /\ k \in Nat
      BY <1>1, <2>3
    <3>2. bt[k] = at[k] /\ at[k] \in Int /\ gs[k] = fs[k] /\ Len(gs[k]) \in Nat
      BY <1>1, <1>2, <1>4, <3>5
    <3> DEFINE a == at[k]
               l == Len(gs[k])
               m == Len(s)
    <3>4. a \in Int /\ l \in Nat /\ m \in Nat /\ i \in Int /\ i > m /\ a + 2 + l <= m + 1
      BY <1>1, <2>3, <3>1, <3>2
    <3>3. i - a > l + 1 /\ i - a \in Int
      <4> HIDE DEF a, l, m
      <4> QED
        BY <3>4
    <3> QED
      <4> HIDE DEF m
      <4>1. ~(i - a = 0) /\ ~(i - a = 1) /\ (i - a) - 1 \notin 1..l
        <5> HIDE DEF a, l
        <5> QED
          BY <3>2, <3>3, <3>4
      <4> QED
        BY <3>2, <4>1 DEF Piece
  <2> QED
    BY <1>1, <2>1, <2>2, <2>3
<1>8. bt[N + 2] = Len(t) + 1 + Len(f) /\ bt[n + 1] = at[n + 1] /\ n \in 0..(N + 1)
  BY <1>1, <1>3, <1>4
<1>9. Stream(t, gs, Len(f), n, bt)
  BY <1>1, <1>2, <1>4, <1>5, <1>6, <1>7, <1>8 DEF Stream, N
<1> QED
  BY <1>8, <1>9 DEF t, gs, N

\* A part of the last file is written.
LEMMA StreamBlock ==
  ASSUME NEW s \in Seq(Nat), NEW fs \in FileSeq, NEW n, NEW at, NEW rest \in Seq(Nat),
         NEW c \in 0..Len(rest), Len(fs) > 0, EndOf(rest, fs[Len(fs)]),
         Stream(s, fs, Len(rest), n, at), n < Len(fs)
  PROVE  Stream(s \o SubSeq(rest, 1, c), fs, Len(rest) - c, n, at)
<1> DEFINE N == Len(fs)
           t == s \o SubSeq(rest, 1, c)
<1>1. /\ N \in Nat /\ N \in 1..N /\ Len(s) \in Nat /\ n \in 0..N /\ Len(rest) \in Nat /\ c \in Nat
      /\ at \in [Nat -> Int] /\ at[N + 1] = Len(s) + 1 + Len(rest)
      /\ \A k \in 1..N : Len(fs[k]) \in Nat
  <2>1. Len(rest) \in Nat /\ Len(s) \in Nat /\ c \in Nat
    OBVIOUS
  <2>2. N \in Nat /\ n \in 0..N /\ at \in [Nat -> Int] /\ \A k \in 1..N : Len(fs[k]) \in Nat
    BY FileLengths, StreamParts
  <2>3. at[N + 1] = Len(s) + 1 + Len(rest)
    BY StreamParts
  <2>4. N \in 1..N
    BY <2>2
  <2> QED
    BY <2>1, <2>2, <2>3, <2>4
<1>2. /\ Len(t) = Len(s) + c /\ \A i \in 1..Len(s) : t[i] = s[i]
      /\ \A i \in 1..c : t[Len(s) + i] = rest[i]
  <2> DEFINE u == SubSeq(rest, 1, c)
  <2>1. u \in Seq(Nat) /\ Len(u) = c
    <3>1. c \in Nat /\ c <= Len(rest) /\ 1 \in Nat \ {0}
      BY <1>1
    <3>2. u \in Seq(Nat) /\ Len(u) = IF 1 <= c THEN c - 1 + 1 ELSE 0
      BY <3>1, Part
    <3> HIDE DEF u
    <3> QED
      BY <3>1, <3>2
  <2>2. \A i \in 1..c : u[i] = rest[i]
    BY <1>1
  <2> HIDE DEF u
  <2>3. /\ Len(s \o u) = Len(s) + c /\ \A i \in 1..Len(s) : (s \o u)[i] = s[i]
        /\ \A i \in 1..c : (s \o u)[Len(s) + i] = u[i]
    <3>1. /\ Len(s \o u) = Len(s) + Len(u)
          /\ \A i \in 1..(Len(s) + Len(u)) :
               (s \o u)[i] = IF i <= Len(s) THEN s[i] ELSE u[i - Len(s)]
      BY <2>1, ConcatProperties
    <3> DEFINE l == Len(s)
               v == s \o u
    <3>2. /\ Len(v) = l + c /\ \A i \in 1..(l + c) : v[i] = IF i <= l THEN s[i] ELSE u[i - l]
          /\ l \in Nat /\ c \in Nat
      BY <1>1, <2>1, <3>1
    <3> HIDE DEF l, v
    <3>3. ASSUME NEW i \in 1..l PROVE v[i] = s[i]
      <4>1. i \in 1..(l + c) /\ i <= l
        BY <3>2
      <4> QED
        BY <3>2, <4>1
    <3>4. ASSUME NEW i \in 1..c PROVE v[l + i] = u[i]
      <4>1. l + i \in 1..(l + c) /\ ~(l + i <= l) /\ (l + i) - l = i
        BY <3>2
      <4> QED
        BY <3>2, <4>1
    <3> QED
      BY <3>2, <3>3, <3>4 DEF l, v
  <2> QED
    BY <2>2, <2>3 DEF u
<1>6. /\ \A j, k \in (n + 1)..(N + 1) : j < k => at[j] + 2 + Len(fs[j]) <= at[k]
      /\ \A k \in (n + 1)..N : \A i \in 1..Len(s) : Piece(s[i], fs[k], i - at[k])
      /\ EndOf(rest, fs[N])
  BY DEF Stream
<1>7. N \in (n + 1)..N /\ at[N + 1] = at[N] + 2 + Len(fs[N]) /\ at[N] \in Int
  <2>1. N \in (n + 1)..N /\ N \in (n + 1)..(N + 1)
    BY <1>1, SMTT(40)
  <2> QED
    BY <2>1, StreamParts
<1> HIDE DEF t, N
<1>3. at[N] = Len(s) + Len(rest) - 1 - Len(fs[N]) /\ at[N] \in Int
  <2> DEFINE a == at[N]
             b == at[N + 1]
             l == Len(s)
             m == Len(rest)
             g == Len(fs[N])
  <2>1. a \in Int /\ l \in Nat /\ m \in Nat /\ g \in Nat /\ b = l + 1 + m /\ b = a + 2 + g
    BY <1>1, <1>7
  <2>2. a = l + m - 1 - g
    <3> HIDE DEF a, b, l, m, g
    <3> QED
      BY <2>1
  <2> QED
    BY <2>1, <2>2
<1>8. \A k \in (n + 1)..N : at[k] \in Int /\ k \in 1..N
  BY <1>1
<1>4. \A k \in (n + 1)..N : \A i \in 1..Len(t) : Piece(t[i], fs[k], i - at[k])
  <2> SUFFICES ASSUME NEW k \in (n + 1)..N, NEW i \in 1..Len(t)
               PROVE Piece(t[i], fs[k], i - at[k])
    OBVIOUS
  <2>1. CASE i \in 1..Len(s)
    BY <1>2, <1>6, <2>1
  <2>2. CASE i > Len(s) /\ k = N
    <3>1. PICK j \in 1..c : i = Len(s) + j
      <4>1. i - Len(s) \in 1..c /\ i = Len(s) + (i - Len(s))
        BY <1>1, <1>2, <2>2
      <4> QED
        BY <4>1
    <3>6. j \in 1..Len(rest)
      BY <1>1
    <3>2. t[i] = rest[j] /\ j \in 1..Len(rest)
      BY <1>2, <3>1, <3>6
    <3>3. rest[j] = fs[N][Len(fs[N]) - Len(rest) + j] /\ Len(rest) <= Len(fs[N])
      BY <1>6, <3>2 DEF EndOf
    <3> DEFINE a == at[N]
               l == Len(s)
               m == Len(rest)
               g == Len(fs[N])
               o == i - a
    <3>4. /\ a = l + m - 1 - g /\ l \in Nat /\ m \in Nat /\ g \in Nat /\ m <= g
          /\ i = l + j /\ j \in 1..m
      BY <1>1, <1>3, <3>1, <3>2, <3>3
    <3>5. o # 0 /\ o # 1 /\ o - 1 = g - m + j
      <4> HIDE DEF a, l, m, g
      <4> QED
        BY <3>4
    <3>7. t[i] = fs[N][o - 1]
      BY <3>2, <3>3, <3>5
    <3> HIDE DEF o
    <3>8. Piece(t[i], fs[N], o)
      BY <3>5, <3>7 DEF Piece
    <3> QED
      BY <2>2, <3>8 DEF o
  <2>3. CASE i > Len(s) /\ k \in (n + 1)..(N - 1)
    <3>4. k \in (n + 1)..(N + 1) /\ N \in (n + 1)..(N + 1) /\ k < N
      BY <1>1, <2>3
    <3>5. at[k] + 2 + Len(fs[k]) <= at[N]
      BY <1>6, <3>4
    <3>1. at[k] + 2 + Len(fs[k]) <= at[N] /\ at[k] \in Int /\ Len(fs[k]) \in Nat
      BY <1>1, <1>8, <3>5
    <3> DEFINE a == at[k]
               b == at[N]
               l == Len(fs[k])
               g == Len(fs[N])
               m == Len(s)
               d == Len(rest)
               o == i - a
    <3>2. /\ a \in Int /\ l \in Nat /\ m \in Nat /\ g \in Nat /\ d \in Nat /\ d <= g
          /\ b = m + d - 1 - g /\ a + 2 + l <= b /\ i > m /\ i \in Int
      <4>1. d <= g
        BY <1>6 DEF EndOf
      <4>2. b = m + d - 1 - g
        BY <1>3
      <4>3. i \in Int
        BY <1>2
      <4> QED
        BY <1>1, <2>3, <3>1, <4>1, <4>2, <4>3
    <3>3. o # 0 /\ o # 1 /\ o - 1 \notin 1..l
      <4> HIDE DEF a, b, l, g, m, d
      <4>1. o > l + 1 /\ o \in Int
        BY <3>2
      <4> HIDE DEF o
      <4> QED
        BY <3>2, <4>1
    <3> HIDE DEF o
    <3>6. Piece(t[i], fs[k], o)
      BY <3>3 DEF Piece
    <3> QED
      BY <3>6 DEF o
  <2>4. i \in 1..Len(s) \/ i > Len(s)
    BY <1>1, <1>2
  <2>5. k = N \/ k \in (n + 1)..(N - 1)
    BY <1>1
  <2> QED
    BY <2>1, <2>2, <2>3, <2>4, <2>5
<1>5. at[N + 1] = Len(t) + 1 + (Len(rest) - c)
  BY <1>1, <1>2
<1> QED
  BY <1>4, <1>5 DEF Stream, t, N

\* Bytes are read.
LEMMA StreamRead ==
  ASSUME NEW s \in Seq(Nat), NEW fs \in FileSeq, NEW n, NEW at, NEW missing \in Nat,
         NEW c \in 0..Len(s), Stream(s, fs, missing, n, at)
  PROVE  \E bt : /\ Stream(SubSeq(s, c + 1, Len(s)), fs, missing, n, bt)
                 /\ bt[n + 1] = at[n + 1] - c
<1> DEFINE N == Len(fs)
           t == SubSeq(s, c + 1, Len(s))
           bt == [k \in Nat |-> at[k] - c]
<1>1. /\ N \in Nat /\ Len(s) \in Nat /\ c \in Nat /\ n \in 0..N /\ at \in [Nat -> Int]
      /\ \A k \in 1..N : Len(fs[k]) \in Nat
  <2>1. Len(s) \in Nat /\ c \in Nat
    OBVIOUS
  <2> QED
    BY <2>1, FileLengths, StreamParts
<1>2. Len(t) = Len(s) - c /\ \A i \in 1..Len(t) : t[i] = s[i + c]
  BY <1>1
<1>3. bt \in [Nat -> Int] /\ \A k \in Nat : bt[k] = at[k] - c /\ at[k] \in Int
  BY <1>1, SMTT(40)
<1>10. /\ \A k \in (n + 1)..N : k \in 1..N /\ at[k + 1] = at[k] + 2 + Len(fs[k])
       /\ \A j, k \in (n + 1)..(N + 1) : j < k => at[j] + 2 + Len(fs[j]) <= at[k]
       /\ \A k \in (n + 1)..N : \A i \in 1..Len(s) : Piece(s[i], fs[k], i - at[k])
       /\ at[N + 1] = Len(s) + 1 + missing
  BY StreamParts DEF Stream
<1> HIDE DEF t, bt, N
<1>11. \A k \in (n + 1)..(N + 1) : k \in Nat
  BY <1>1
<1>4. ASSUME NEW k \in (n + 1)..N PROVE bt[k + 1] = bt[k] + 2 + Len(fs[k])
  <2> DEFINE a == at[k]
             b == at[k + 1]
             l == Len(fs[k])
  <2>1. k \in 1..N /\ k \in Nat /\ k + 1 \in Nat
    BY <1>1
  <2>2. a \in Int /\ b = a + 2 + l /\ l \in Nat /\ bt[k] = a - c /\ bt[k + 1] = b - c
    BY <1>1, <1>3, <1>10, <2>1
  <2>3. b - c = (a - c) + 2 + l
    <3> HIDE DEF a, b, l
    <3> QED
      BY <1>1, <2>2
  <2> QED
    BY <2>2, <2>3
<1>5. ASSUME NEW j \in (n + 1)..(N + 1), NEW k \in (n + 1)..(N + 1), j < k
      PROVE bt[j] + 2 + Len(fs[j]) <= bt[k]
  <2>1. at[j] + 2 + Len(fs[j]) <= at[k] /\ j \in 1..N /\ j \in Nat /\ k \in Nat
    BY <1>1, <1>5, <1>10
  <2> DEFINE a == at[j]
             b == at[k]
             l == Len(fs[j])
  <2>2. a \in Int /\ b \in Int /\ l \in Nat /\ a + 2 + l <= b /\ bt[j] = a - c /\ bt[k] = b - c
    BY <1>1, <1>3, <2>1
  <2>3. (a - c) + 2 + l <= b - c
    <3> HIDE DEF a, b, l
    <3> QED
      BY <1>1, <2>2
  <2> QED
    BY <2>2, <2>3
<1>6. ASSUME NEW k \in (n + 1)..N, NEW i \in 1..Len(t) PROVE Piece(t[i], fs[k], i - bt[k])
  <2>1. i + c \in 1..Len(s) /\ t[i] = s[i + c]
    BY <1>1, <1>2
  <2>4. k \in Nat
    BY <1>1
  <2>2. (i + c) - at[k] = i - bt[k]
    <3> DEFINE a == at[k]
    <3>1. bt[k] = a - c /\ a \in Int
      BY <1>3, <2>4
    <3>2. (i + c) - a = i - (a - c)
      <4> HIDE DEF a
      <4> QED
        BY <1>1, <3>1
    <3> QED
      BY <3>1, <3>2
  <2>3. Piece(s[i + c], fs[k], (i + c) - at[k])
    BY <1>10, <2>1
  <2> QED
    BY <2>1, <2>2, <2>3
<1>7. bt[N + 1] = Len(t) + 1 + missing
  BY <1>1, <1>2, <1>3, <1>10
<1>8. bt[n + 1] = at[n + 1] - c
  BY <1>1, <1>3
<1>9. Stream(t, fs, missing, n, bt)
  BY <1>1, <1>3, <1>4, <1>5, <1>6, <1>7 DEF Stream, N
<1> QED
  BY <1>8, <1>9 DEF t, N

\* A file has been received.
LEMMA StreamNext ==
  ASSUME NEW s \in Seq(Nat), NEW fs \in FileSeq, NEW n, NEW at, NEW missing \in Nat,
         Stream(s, fs, missing, n, at), n < Len(fs)
  PROVE  Stream(s, fs, missing, n + 1, at) /\ at[n + 2] = at[n + 1] + 2 + Len(fs[n + 1])
<1>1. Len(fs) \in Nat /\ n \in Nat /\ n + 1 \in (n + 1)..Len(fs) /\ (n + 1) + 1 = n + 2
  BY SMTT(40) DEF FileSeq, Stream
<1>2. n + 1 \in 0..Len(fs) /\ (n + 1) + 1 \in Nat
  BY <1>1
<1>3. \A k : /\ k \in ((n + 1) + 1)..Len(fs) => k \in (n + 1)..Len(fs)
             /\ k \in ((n + 1) + 1)..(Len(fs) + 1) => k \in (n + 1)..(Len(fs) + 1)
  BY <1>1
<1>4. Stream(s, fs, missing, n + 1, at)
  BY <1>2, <1>3 DEF Stream
<1> QED
  BY <1>1, <1>4 DEF Stream

\* How far the pipe reaches: the notices of all files are in it, or were.
LEMMA StreamLength ==
  ASSUME NEW s \in Seq(Nat), NEW fs \in FileSeq, NEW n, NEW at, NEW rest \in Seq(Nat),
         Stream(s, fs, Len(rest), n, at), n < Len(fs), EndOf(rest, fs[Len(fs)])
  PROVE  /\ n + 1 = Len(fs) =>
              Len(s) = at[n + 1] + 1 + Len(fs[n + 1]) - Len(rest)
         /\ n + 1 < Len(fs) => Len(s) > at[n + 1] + 2 + Len(fs[n + 1])
         /\ Len(s) >= at[n + 1] + 1
<1> DEFINE N == Len(fs)
<1>1. /\ N \in Nat /\ n \in Nat /\ n + 1 \in 1..N /\ N \in (n + 1)..N /\ Len(s) \in Nat
      /\ Len(rest) \in Nat /\ at[n + 1] \in Int /\ at[N] \in Int
      /\ Len(fs[n + 1]) \in Nat /\ Len(fs[N]) \in Nat /\ Len(rest) <= Len(fs[N])
  <2>1. Len(rest) \in Nat /\ Len(s) \in Nat
    OBVIOUS
  <2>2. N \in Nat /\ n \in Nat
    BY FileLengths, StreamParts
  <2>3. n + 1 \in 1..N /\ N \in 1..N /\ N \in (n + 1)..N /\ N \in (n + 1)..(N + 1)
        /\ n + 1 \in (n + 1)..(N + 1)
    BY <2>2
  <2> HIDE DEF N
  <2>4. at[n + 1] \in Int /\ at[N] \in Int /\ Len(fs[n + 1]) \in Nat /\ Len(fs[N]) \in Nat
    BY <2>3, FileLengths, StreamParts DEF N
  <2> QED
    BY <2>1, <2>2, <2>3, <2>4 DEF N, EndOf
<1>2. at[N + 1] = Len(s) + 1 + Len(rest) /\ at[N + 1] = at[N] + 2 + Len(fs[N])
  BY <1>1, StreamParts, SMTT(40)
<1>3. n + 1 < N => at[n + 1] + 2 + Len(fs[n + 1]) <= at[N]
  <2>1. n + 1 \in (n + 1)..(N + 1) /\ N \in (n + 1)..(N + 1)
    BY <1>1
  <2> QED
    BY <2>1 DEF Stream
<1>4. Len(s) = at[N] + 1 + Len(fs[N]) - Len(rest)
  <2> DEFINE a == at[N]
             b == at[N + 1]
             l == Len(s)
             m == Len(rest)
             g == Len(fs[N])
  <2>1. a \in Int /\ l \in Nat /\ m \in Nat /\ g \in Nat /\ b = l + 1 + m /\ b = a + 2 + g
    BY <1>1, <1>2
  <2>2. l = a + 1 + g - m
    <3> HIDE DEF a, b, l, m, g
    <3> QED
      BY <2>1
  <2> QED
    BY <2>2
<1>5. n + 1 = N \/ n + 1 < N
  BY <1>1
<1> HIDE DEF N
<1>6. /\ n + 1 = N => Len(s) = at[n + 1] + 1 + Len(fs[n + 1]) - Len(rest)
      /\ n + 1 < N => Len(s) > at[n + 1] + 2 + Len(fs[n + 1])
      /\ Len(s) >= at[n + 1] + 1
  <2>1. CASE n + 1 = N
    <3>1. Len(s) = at[n + 1] + 1 + Len(fs[n + 1]) - Len(rest) /\ Len(rest) <= Len(fs[n + 1])
      BY <1>1, <1>4, <2>1
    <3> DEFINE a == at[n + 1]
               m == Len(rest)
               g == Len(fs[n + 1])
    <3>2. a \in Int /\ m \in Nat /\ g \in Nat /\ Len(s) = a + 1 + g - m /\ m <= g
      BY <1>1, <3>1
    <3>3. a + 1 + g - m >= a + 1
      <4> HIDE DEF a, m, g
      <4> QED
        BY <3>2
    <3> QED
      BY <1>1, <2>1, <3>1, <3>2, <3>3
  <2>2. CASE n + 1 < N
    <3> DEFINE a == at[n + 1]
               b == at[N]
               l == Len(s)
               m == Len(rest)
               g == Len(fs[n + 1])
               h == Len(fs[N])
    <3>1. /\ a \in Int /\ b \in Int /\ m \in Nat /\ g \in Nat /\ h \in Nat /\ m <= h
          /\ a + 2 + g <= b /\ l = b + 1 + h - m
      BY <1>1, <1>3, <1>4, <2>2
    <3>2. l > a + 2 + g /\ l >= a + 1
      <4> HIDE DEF a, b, l, m, g, h
      <4> QED
        BY <3>1
    <3>3. n + 1 # N
      BY <1>1, <2>2
    <3> QED
      BY <3>2, <3>3
  <2> QED
    BY <1>5, <2>1, <2>2
<1> QED
  BY <1>6 DEF N

\* Where a notice is due there is one, if there is anything.
LEMMA NoticeFirst ==
  ASSUME NEW s \in Seq(Nat), NEW fs \in FileSeq, NEW n, NEW at, NEW rest \in Seq(Nat),
         Stream(s, fs, Len(rest), n, at), at[n + 1] = 1, s # <<>>,
         Len(fs) > 0 => EndOf(rest, fs[Len(fs)])
  PROVE  n < Len(fs) /\ Len(s) >= 2 /\ s[1] = F /\ s[2] = Len(fs[n + 1])
<1>1. /\ Len(fs) \in Nat /\ n \in 0..Len(fs) /\ Len(s) \in Nat /\ Len(s) > 0
      /\ Len(rest) \in Nat
  <2>1. Len(s) \in Nat /\ Len(s) > 0 /\ Len(rest) \in Nat
    BY EmptySeq
  <2> QED
    BY <2>1, FileLengths, StreamParts
<1>2. n < Len(fs)
  <2>1. n # Len(fs)
    BY <1>1, SMTT(40) DEF Stream
  <2> QED
    BY <1>1, <2>1
<1>3. Len(s) >= 2
  BY <1>1, <1>2, StreamLength
<1>4. 1 \in 1..Len(s) /\ 2 \in 1..Len(s) /\ n + 1 \in (n + 1)..Len(fs)
  BY <1>1, <1>2, <1>3
<1>5. Piece(s[1], fs[n + 1], 1 - 1) /\ Piece(s[2], fs[n + 1], 2 - 1)
  BY <1>4 DEF Stream
<1> QED
  BY <1>2, <1>3, <1>5 DEF Piece

\* Where bytes of a file are due there is a whole block, if there is anything.
LEMMA BlockFirst ==
  ASSUME NEW s \in Seq(Nat), NEW fs \in FileSeq, NEW n, NEW at, NEW rest \in Seq(Nat),
         Stream(s, fs, Len(rest), n, at), n < Len(fs), s # <<>>, EndOf(rest, fs[Len(fs)]),
         NEW total, Whole(total), total < Len(fs[n + 1]), at[n + 1] = -1 - total,
         Whole(Len(fs[n + 1])), Whole(Len(rest))
  PROVE  /\ Len(s) >= BufferSize /\ total + BufferSize <= Len(fs[n + 1])
         /\ \A i \in 1..BufferSize : s[i] = fs[n + 1][total + i]
<1>1. /\ Len(fs) \in Nat /\ n \in Nat /\ n + 1 \in (n + 1)..Len(fs) /\ Len(s) \in Nat
      /\ Len(s) > 0 /\ Len(rest) \in Nat /\ total \in Nat /\ BufferSize \in Nat
      /\ Len(fs[n + 1]) \in Nat
  <2>1. Len(s) \in Nat /\ Len(s) > 0 /\ Len(rest) \in Nat
    BY EmptySeq
  <2>2. Len(fs) \in Nat /\ n \in Nat
    BY FileLengths, StreamParts
  <2>3. n + 1 \in (n + 1)..Len(fs) /\ n + 1 \in 1..Len(fs)
    BY <2>2
  <2> QED
    BY <2>1, <2>2, <2>3, FileLengths, WholeMore, SizeAssumption
<1>2. total + BufferSize <= Len(fs[n + 1])
  BY WholeLess
<1>3. Len(s) >= BufferSize
  <2>1. CASE n + 1 = Len(fs)
    <3> DEFINE g == Len(fs[n + 1])
               l == Len(s)
               m == Len(rest)
    <3>4. l = (-1 - total) + 1 + g - m /\ l > 0 /\ g \in Nat /\ m \in Nat
      <4>1. l = at[n + 1] + 1 + g - m
        BY <2>1, StreamLength
      <4> QED
        BY <1>1, <4>1
    <3>1. l = g - total - m /\ m < g - total
      <4> HIDE DEF g, l, m
      <4> QED
        BY <1>1, <3>4
    <3>2. Whole(g - total) /\ m < g - total
      BY <3>1, WholeLess
    <3>3. Len(rest) + BufferSize <= Len(fs[n + 1]) - total
      BY <3>2, WholeLess
    <3> QED
      BY <1>1, <3>1, <3>3
  <2>2. CASE n + 1 < Len(fs)
    BY <1>1, <1>2, <2>2, StreamLength, SMTT(40)
  <2> QED
    BY <1>1, <2>1, <2>2
<1>4. ASSUME NEW i \in 1..BufferSize PROVE s[i] = fs[n + 1][total + i]
  <2>1. i \in 1..Len(s) /\ i - at[n + 1] = total + i + 1 /\ total + i \in 1..Len(fs[n + 1])
    BY <1>1, <1>2, <1>3
  <2>2. Piece(s[i], fs[n + 1], total + i + 1)
    BY <1>1, <2>1 DEF Stream
  <2>3. (total + i + 1) - 1 = total + i
    BY <1>1
  <2> QED
    BY <2>1, <2>2, <2>3 DEF Piece
<1> QED
  BY <1>2, <1>3, <1>4

----------------------------------------------------------------------------
\* What each action makes of the way from a program that sends files.

\* All files, and the rest of the last, are whole blocks.
Sized(fs, rest) ==
  /\ \A k \in 1..Len(fs) : Whole(Len(fs[k])) /\ IsDigit(Len(fs[k]))
  /\ Whole(Len(rest))
  /\ Len(fs) > 0 => EndOf(rest, fs[Len(fs)])

\* The sender keeps to whole blocks.
LEMMA SenderSized ==
  ASSUME WholeFiles, NEW p \in Program, NEW m, NEW fs \in FileSeq, NEW rest \in Seq(Nat),
         SenderOK(m, fs, rest, Files[p])
  PROVE  Sized(fs, rest)
<1>1. \A k \in 1..Len(fs) : Whole(Len(fs[k])) /\ IsDigit(Len(fs[k]))
  BY DEF SenderOK, WholeFiles
<1>2. ASSUME Len(fs) > 0 PROVE EndOf(rest, fs[Len(fs)])
  <2>1. CASE m = "file"
    BY <2>1 DEF SenderOK
  <2>2. CASE m # "file"
    <3>1. Len(fs) \in 1..Len(fs)
      BY <1>2, FileLengths
    <3>2. Len(fs[Len(fs)]) \in Nat
      BY <3>1, FileLengths
    <3>3. Len(rest) = 0
      BY <2>2 DEF SenderOK
    <3> QED
      BY <3>2, <3>3 DEF EndOf
  <2> QED
    BY <2>1, <2>2
<1> QED
  BY <1>1, <1>2 DEF Sized, SenderOK

\* antenna_fwrite_fd begins.
LEMMA WayNotice ==
  ASSUME NEW s \in Seq(Nat), NEW fs \in FileSeq, NEW rec \in FileSeq, NEW r,
         NEW f \in Seq(Nat), Way(s, fs, <<>>, rec, r)
  PROVE  Way(s \o Notice(Len(f)), Append(fs, f), f, rec, r)
<1> DEFINE n == Len(rec)
           gs == Append(fs, f)
<1>1. PICK at : Stream(s, fs, Len(<<>>), n, at) /\ ReaderOK(r, fs, n, at[n + 1])
  BY DEF Way
<1>2. Len(<<>>) = 0
  OBVIOUS
<1>3. PICK bt : Stream(s \o Notice(Len(f)), gs, Len(f), n, bt) /\ bt[n + 1] = at[n + 1]
  <2>1. Stream(s, fs, 0, n, at)
    BY <1>1, <1>2
  <2> HIDE DEF n
  <2> QED
    BY <2>1, StreamNotice
<1>4. Len(fs) \in Nat /\ n \in Nat
  BY FileLengths
<1>5. Len(gs) = Len(fs) + 1 /\ \A k \in 1..Len(fs) : gs[k] = fs[k]
  BY DEF FileSeq
<1>6. Taken(rec, gs)
  <2>1. Len(rec) <= Len(fs) /\ \A k \in 1..Len(rec) : rec[k] = fs[k]
    BY DEF Way, Taken
  <2>2. \A k \in 1..Len(rec) : k \in 1..Len(fs)
    BY <1>4, <2>1
  <2>3. Len(rec) <= Len(gs)
    BY <1>4, <1>5, <2>1
  <2> HIDE DEF gs, n
  <2> QED
    BY <1>5, <2>1, <2>2, <2>3 DEF Taken
<1>7. ReaderOK(r, gs, n, bt[n + 1])
  <2>1. n < Len(fs) => n < Len(gs) /\ gs[n + 1] = fs[n + 1]
    <3> HIDE DEF gs, n
    <3> SUFFICES ASSUME n < Len(fs) PROVE n < Len(gs) /\ gs[n + 1] = fs[n + 1]
      OBVIOUS
    <3>1. n + 1 \in 1..Len(fs) /\ n < Len(fs) + 1
      BY <1>4
    <3> QED
      BY <1>5, <3>1
  <2> HIDE DEF gs, n
  <2> QED
    BY <1>1, <1>3, <2>1 DEF ReaderOK
<1> QED
  BY <1>3, <1>6, <1>7 DEF Way

\* Its loop goes on.
LEMMA WayBlock ==
  ASSUME NEW s \in Seq(Nat), NEW fs \in FileSeq, NEW rec \in FileSeq, NEW r,
         NEW rest \in Seq(Nat), Len(fs) > 0, EndOf(rest, fs[Len(fs)]),
         NEW c \in 1..Len(rest), Way(s, fs, rest, rec, r)
  PROVE  Way(s \o SubSeq(rest, 1, c), fs, SubSeq(rest, c + 1, Len(rest)), rec, r)
<1> DEFINE n == Len(rec)
           u == SubSeq(rest, c + 1, Len(rest))
           t == s \o SubSeq(rest, 1, c)
<1>1. PICK at : Stream(s, fs, Len(rest), n, at) /\ ReaderOK(r, fs, n, at[n + 1])
  BY DEF Way
<1>2. Len(fs) \in Nat /\ n \in Nat /\ Len(s) \in Nat /\ Len(rest) \in Nat /\ c \in 0..Len(rest)
  BY FileLengths
<1>3. n < Len(fs)
  <2>1. CASE r.at = "data"
    BY <1>1, <2>1 DEF ReaderOK
  <2>2. CASE r.at # "data"
    <3>1. at[n + 1] = 1
      BY <1>1, <2>2 DEF ReaderOK
    <3>2. n \in 0..Len(fs) /\ at[Len(fs) + 1] = Len(s) + 1 + Len(rest)
      BY <1>1, StreamParts
    <3>3. n # Len(fs)
      BY <1>2, <3>1, <3>2
    <3> QED
      BY <1>2, <3>2, <3>3
  <2> QED
    BY <2>1, <2>2
<1>4. Len(u) = Len(rest) - c
  BY <1>2
<1>5. Stream(t, fs, Len(rest) - c, n, at)
  BY <1>1, <1>2, <1>3, StreamBlock
<1> HIDE DEF t, u, n
<1>6. Way(t, fs, u, rec, r)
  BY <1>1, <1>4, <1>5 DEF Way, n
<1> QED
  BY <1>6 DEF t, u

\* check_rx_file reads a notice: it is one, and whole.
LEMMA WayReadNotice ==
  ASSUME NEW s \in Seq(Nat), NEW fs \in FileSeq, NEW rec \in FileSeq, NEW r,
         NEW rest \in Seq(Nat), Sized(fs, rest), Way(s, fs, rest, rec, r),
         r.at # "data", s # <<>>
  PROVE  /\ Len(s) >= 2 /\ s[1] = F /\ IsDigit(s[2])
         /\ Way(SubSeq(s, 3, Len(s)), fs, rest, rec,
                [Waiting EXCEPT !.at = "data", !.size = s[2]])
<1> DEFINE n == Len(rec)
           t == SubSeq(s, 2 + 1, Len(s))
           q == [Waiting EXCEPT !.at = "data", !.size = s[2]]
<1>1. PICK at : Stream(s, fs, Len(rest), n, at) /\ ReaderOK(r, fs, n, at[n + 1])
  BY DEF Way
<1>2. at[n + 1] = 1
  BY <1>1 DEF ReaderOK
<1>3. n < Len(fs) /\ Len(s) >= 2 /\ s[1] = F /\ s[2] = Len(fs[n + 1])
  BY <1>1, <1>2, NoticeFirst DEF Sized
<1>4. Len(fs) \in Nat /\ n \in Nat /\ Len(s) \in Nat /\ Len(rest) \in Nat
  BY FileLengths
<1>5. n + 1 \in 1..Len(fs)
  BY <1>3, <1>4
<1>6. Len(fs[n + 1]) \in Nat /\ IsDigit(s[2])
  BY <1>3, <1>5, FileLengths DEF Sized
<1>7. PICK c \in 0..Len(s) : c = 2
  BY <1>3, <1>4
<1>14. PICK bt : /\ Stream(SubSeq(s, c + 1, Len(s)), fs, Len(rest), n, bt)
                /\ bt[n + 1] = at[n + 1] - c
  <2> DEFINE missing == Len(rest)
  <2>1. Stream(s, fs, missing, n, at) /\ missing \in Nat
    BY <1>1, <1>4
  <2> HIDE DEF missing, n
  <2>2. \E bt : /\ Stream(SubSeq(s, c + 1, Len(s)), fs, missing, n, bt)
               /\ bt[n + 1] = at[n + 1] - c
    BY <2>1, StreamRead
  <2> QED
    BY <2>2 DEF missing
<1>8. Stream(t, fs, Len(rest), n, bt) /\ bt[n + 1] = at[n + 1] - 2
  BY <1>7, <1>14
<1>9. bt[n + 1] = -1 - 0
  BY <1>2, <1>8
<1>10. q.at = "data" /\ q.size = s[2] /\ q.total = 0 /\ q.file = <<>> /\ Len(q.file) = 0
  BY DEF Waiting
<1> HIDE DEF q, t, n
<1>11. ReaderOK(q, fs, n, bt[n + 1])
  <2>1. \A i \in 1..q.total : q.file[i] = fs[n + 1][i]
    BY <1>10
  <2> QED
    BY <1>3, <1>6, <1>9, <1>10, <2>1, WholeZero DEF ReaderOK
<1>12. Way(t, fs, rest, rec, q)
  BY <1>8, <1>11 DEF Way, n
<1>13. 2 + 1 = 3
  OBVIOUS
<1> QED
  BY <1>3, <1>6, <1>12, <1>13 DEF q, t

\* antenna_fread_fd reads a whole block of the file.
LEMMA WayReadData ==
  ASSUME NEW s \in Seq(Nat), NEW fs \in FileSeq, NEW rec \in FileSeq, NEW r \in RxType,
         NEW rest \in Seq(Nat), Sized(fs, rest), Way(s, fs, rest, rec, r),
         r.at = "data", r.total < r.size, s # <<>>
  PROVE  /\ Len(s) >= BufferSize
         /\ Way(SubSeq(s, BufferSize + 1, Len(s)), fs, rest, rec,
                [r EXCEPT !.file = @ \o SubSeq(s, 1, BufferSize),
                          !.total = @ + BufferSize])
<1> DEFINE n == Len(rec)
           B == BufferSize
           t == SubSeq(s, B + 1, Len(s))
           block == SubSeq(s, 1, B)
           q == [r EXCEPT !.file = @ \o block, !.total = @ + B]
           f == fs[n + 1]
<1>1. PICK at : Stream(s, fs, Len(rest), n, at) /\ ReaderOK(r, fs, n, at[n + 1])
  BY DEF Way
<1>2. /\ n < Len(fs) /\ at[n + 1] = -1 - r.total /\ r.size = Len(f) /\ Whole(r.total)
      /\ Len(r.file) = r.total /\ \A i \in 1..r.total : r.file[i] = f[i]
  BY <1>1 DEF ReaderOK
<1>3. /\ Len(fs) \in Nat /\ n \in Nat /\ Len(s) \in Nat /\ Len(rest) \in Nat
      /\ B \in Nat /\ B > 0 /\ r.total \in Nat /\ r.file \in Seq(Nat)
  BY FileLengths, SizeAssumption DEF RxType
<1>4. n + 1 \in 1..Len(fs) /\ Len(fs) > 0
  BY <1>2, <1>3
<1>5. Whole(Len(f)) /\ Len(f) \in Nat /\ EndOf(rest, fs[Len(fs)]) /\ Whole(Len(rest))
  BY <1>4, FileLengths DEF Sized
<1>6. /\ Len(s) >= B /\ r.total + B <= Len(f)
      /\ \A i \in 1..B : s[i] = f[r.total + i]
  <2>1. Whole(r.total) /\ r.total < Len(f) /\ at[n + 1] = -1 - r.total
    BY <1>2
  <2> DEFINE total == r.total
  <2>2. Whole(total) /\ total < Len(fs[n + 1]) /\ at[n + 1] = -1 - total
    BY <2>1
  <2>3. Stream(s, fs, Len(rest), n, at) /\ n < Len(fs) /\ Whole(Len(fs[n + 1]))
    BY <1>1, <1>2, <1>5
  <2> HIDE DEF total, n
  <2>4. /\ Len(s) >= BufferSize /\ total + BufferSize <= Len(fs[n + 1])
        /\ \A i \in 1..BufferSize : s[i] = fs[n + 1][total + i]
    BY <1>5, <2>2, <2>3, BlockFirst
  <2> QED
    BY <2>4 DEF total
<1>7. B \in 0..Len(s)
  BY <1>3, <1>6
<1>8. PICK bt : Stream(t, fs, Len(rest), n, bt) /\ bt[n + 1] = at[n + 1] - B
  <2> DEFINE missing == Len(rest)
  <2>1. Stream(s, fs, missing, n, at) /\ missing \in Nat
    BY <1>1, <1>3
  <2> HIDE DEF missing, n, B
  <2>2. \E bt : /\ Stream(SubSeq(s, B + 1, Len(s)), fs, missing, n, bt)
               /\ bt[n + 1] = at[n + 1] - B
    BY <1>7, <2>1, StreamRead
  <2> QED
    BY <2>2 DEF missing
<1>9. bt[n + 1] = -1 - (r.total + B)
  BY <1>2, <1>3, <1>8
<1>10. block \in Seq(Nat) /\ Len(block) = B
  <2>1. B \in Nat /\ B <= Len(s) /\ 1 \in Nat \ {0} /\ 1 <= B
    BY <1>3, <1>6
  <2>2. block \in Seq(Nat) /\ Len(block) = IF 1 <= B THEN B - 1 + 1 ELSE 0
    BY <2>1, Part
  <2> HIDE DEF block
  <2> QED
    BY <2>1, <2>2
<1>11. \A i \in 1..B : block[i] = s[i]
  BY <1>3, <1>6
<1>12. q.at = "data" /\ q.size = r.size /\ q.total = r.total + B /\ q.file = r.file \o block
  BY DEF RxType
<1> HIDE DEF block, t, q, f
<1>13. /\ Len(r.file \o block) = r.total + B
       /\ \A i \in 1..(r.total + B) : (r.file \o block)[i] = f[i]
  <2> DEFINE g == r.file
             k == r.total
             v == g \o block
  <2>1. /\ Len(v) = k + B /\ k \in Nat
        /\ \A i \in 1..(k + B) : v[i] = IF i <= k THEN g[i] ELSE block[i - k]
    <3>1. g \in Seq(Nat) /\ Len(g) = k /\ k \in Nat
      BY <1>2, <1>3
    <3> HIDE DEF g, k, B
    <3>2. /\ Len(v) = Len(g) + Len(block)
          /\ \A i \in 1..(Len(g) + Len(block)) :
               v[i] = IF i <= Len(g) THEN g[i] ELSE block[i - Len(g)]
      BY <1>10, <3>1, ConcatProperties
    <3> QED
      BY <1>10, <3>1, <3>2
  <2>2. (\A i \in 1..k : g[i] = f[i]) /\ \A i \in 1..B : s[i] = f[k + i]
    BY <1>2, <1>6
  <2> HIDE DEF g, k, v
  <2>3. ASSUME NEW i \in 1..(k + B) PROVE v[i] = f[i]
    <3>1. CASE i <= k
      <4>1. i \in 1..k
        BY <2>1, <3>1
      <4> QED
        BY <2>1, <2>2, <3>1, <4>1
    <3>2. CASE ~(i <= k)
      <4>1. i - k \in 1..B /\ k + (i - k) = i
        BY <1>3, <2>1, <3>2
      <4>2. v[i] = block[i - k] /\ block[i - k] = s[i - k] /\ s[i - k] = f[k + (i - k)]
        BY <1>11, <2>1, <2>2, <3>2, <4>1
      <4> QED
        BY <4>1, <4>2
    <3> QED
      BY <3>1, <3>2
  <2> QED
    BY <2>1, <2>3 DEF g, k, v
<1>14. Whole(r.total + B)
  BY <1>2, WholeMore
<1>15. ReaderOK(q, fs, n, bt[n + 1])
  BY <1>2, <1>6, <1>9, <1>12, <1>13, <1>14 DEF ReaderOK, f
<1> HIDE DEF n
<1>16. Way(t, fs, rest, rec, q)
  BY <1>8, <1>15 DEF Way, n
<1> QED
  BY <1>6, <1>16 DEF t, q, block

\* antenna_fread_fd returns: the file is the next that was sent.
LEMMA WayDone ==
  ASSUME NEW s \in Seq(Nat), NEW fs \in FileSeq, NEW rec \in FileSeq, NEW r \in RxType,
         NEW rest \in Seq(Nat), Way(s, fs, rest, rec, r),
         r.at = "data", ~(r.total < r.size), Sized(fs, rest)
  PROVE  Way(s, fs, rest, Append(rec, r.file), Waiting)
<1> DEFINE n == Len(rec)
           f == fs[n + 1]
           ecs == Append(rec, r.file)
<1>1. PICK at : Stream(s, fs, Len(rest), n, at) /\ ReaderOK(r, fs, n, at[n + 1])
  BY DEF Way
<1>2. /\ n < Len(fs) /\ at[n + 1] = -1 - r.total /\ r.size = Len(f) /\ r.total <= r.size
      /\ Len(r.file) = r.total /\ \A i \in 1..r.total : r.file[i] = f[i]
  BY <1>1 DEF ReaderOK
<1>3. Len(fs) \in Nat /\ n \in Nat /\ Len(rest) \in Nat
      /\ r.total \in Nat /\ r.size \in Nat /\ r.file \in Seq(Nat)
  BY FileLengths DEF RxType
<1>4. n + 1 \in 1..Len(fs)
  BY <1>2, <1>3
<1>5. r.total = Len(f) /\ f \in Seq(Nat)
  BY <1>2, <1>3, <1>4, FileLengths
<1> HIDE DEF f
<1>6. r.file = f
  BY <1>2, <1>3, <1>5, SeqEqual
<1>7. Len(ecs) = n + 1 /\ ecs[n + 1] = r.file /\ \A k \in 1..n : ecs[k] = rec[k]
  BY <1>3 DEF FileSeq
<1> HIDE DEF n, ecs
<1>8. Stream(s, fs, Len(rest), n + 1, at) /\ at[n + 2] = at[n + 1] + 2 + Len(f)
  <2> DEFINE missing == Len(rest)
  <2>1. Stream(s, fs, missing, n, at) /\ missing \in Nat /\ n < Len(fs)
    BY <1>1, <1>2, <1>3
  <2> HIDE DEF missing
  <2>2. Stream(s, fs, missing, n + 1, at) /\ at[n + 2] = at[n + 1] + 2 + Len(fs[n + 1])
    BY <2>1, StreamNext
  <2> QED
    BY <2>2 DEF missing, f
<1>9. at[n + 2] = 1 /\ n + 2 = (n + 1) + 1
  BY <1>2, <1>3, <1>5, <1>8
<1>10. Taken(ecs, fs)
  <2>1. \A k \in 1..n : rec[k] = fs[k]
    BY DEF Way, Taken, n
  <2>2. n + 1 <= Len(fs)
    BY <1>2, <1>3
  <2>3. \A k \in 1..(n + 1) : k \in 1..n \/ k = n + 1
    BY <1>3
  <2> QED
    BY <1>6, <1>7, <2>1, <2>2, <2>3 DEF Taken, f
<1>11. ReaderOK(Waiting, fs, n + 1, at[(n + 1) + 1])
  BY <1>9 DEF ReaderOK, Waiting
<1>12. Way(s, fs, rest, ecs, Waiting)
  BY <1>7, <1>8, <1>10, <1>11 DEF Way
<1> QED
  BY <1>12 DEF ecs

----------------------------------------------------------------------------
\* The actions.

\* There are two of them.
LEMMA TwoPrograms ==
  ASSUME NEW p \in Program
  PROVE  /\ Peer[p] \in Program /\ Peer[p] # p /\ Peer[Peer[p]] = p
         /\ \A x \in Program : x = p \/ x = Peer[p]
  BY ProgramAssumption

\* The types of what FilesWay speaks of.
LEMMA WayTypes ==
  ASSUME TypeOK, NEW p \in Program
  PROVE  /\ pipe[p] \in Seq(Nat) /\ left[p] \in Seq(Nat) /\ rx[p] \in RxType
         /\ sent[p] \in FileSeq /\ received[p] \in FileSeq
         /\ failures \in Nat
  BY SizeAssumption DEF TypeOK, RxType, FileSeq

\* Once a call has failed nothing is said of the way.
LEMMA FailsWay ==
  ASSUME TypeOK, NEW p \in Program, Fails,
         SenderOK(main'[p], sent'[p], left'[p], Files[p])
  PROVE  FilesWay(p)'
<1>1. failures' # 0
  BY WayTypes DEF Fails
<1> QED
  BY <1>1 DEF FilesWay

\* All that the two programs do, in three parts.
Starts(x) == Start(x) \/ OpenReturns(x)
Sends(x) ==
  SendLine(x) \/ SendNotice(x) \/ CannotOpen(x) \/ SendBlock(x) \/ FileSent(x)
Reads(x) ==
  NotNotice(x) \/ ReadNotice(x) \/ ReadData(x) \/ ReadFails(x) \/ FileReceived(x)

\* What a program that sends leaves alone.
LEMMA SendsFrame ==
  ASSUME TypeOK, NEW x \in Program, Sends(x)
  PROVE  /\ UNCHANGED <<rx, received>>
         /\ Fails \/ UNCHANGED failures
         /\ main[x] \in {"ready", "file"} /\ main'[x] \in {"ready", "file"}
         /\ pipe'[x] = pipe[x]
         /\ \A y \in Program \ {x} :
              main'[y] = main[y] /\ left'[y] = left[y] /\ sent'[y] = sent[y]
<1>1. Peer[x] # x
  BY ProgramAssumption
<1>2. CASE SendLine(x)
  BY <1>1, <1>2 DEF SendLine, Told, WriteFd, TypeOK
<1>3. CASE SendNotice(x)
  BY <1>1, <1>3 DEF SendNotice, Told, WriteFd, TypeOK
<1>4. CASE CannotOpen(x)
  BY <1>4 DEF CannotOpen, Told, TypeOK
<1>5. CASE SendBlock(x)
  BY <1>1, <1>5 DEF SendBlock, WriteFd, TypeOK
<1>6. CASE FileSent(x)
  BY <1>6 DEF FileSent, TypeOK
<1> QED
  BY <1>2, <1>3, <1>4, <1>5, <1>6 DEF Sends

\* What a program that reads leaves alone.
LEMMA ReadsFrame ==
  ASSUME TypeOK, NEW x \in Program, Reads(x)
  PROVE  /\ UNCHANGED senderVars
         /\ Fails \/ UNCHANGED failures
         /\ rx[x].at # "none"
         /\ \A y \in Program \ {x} :
              pipe'[y] = pipe[y] /\ rx'[y] = rx[y] /\ received'[y] = received[y]
<1>1. CASE NotNotice(x)
  BY <1>1 DEF NotNotice, Consume, TypeOK
<1>2. CASE ReadNotice(x)
  BY <1>2 DEF ReadNotice, Consume, TypeOK
<1>3. CASE ReadData(x)
  BY <1>3 DEF ReadData, Consume, Store, TypeOK
<1>4. CASE ReadFails(x)
  BY <1>4 DEF ReadFails, TypeOK
<1>5. CASE FileReceived(x)
  BY <1>5 DEF FileReceived, TypeOK
<1> QED
  BY <1>1, <1>2, <1>3, <1>4, <1>5 DEF Reads

\* A program that starts.
LEMMA StartsFrame ==
  ASSUME TypeOK, NEW x \in Program, Opened(x), Starts(x)
  PROVE  /\ UNCHANGED <<left, sent, pipe, failures, received>>
         /\ main[x] \notin {"ready", "file"} /\ main'[x] # "file"
         /\ rx[x].at # "data" /\ rx'[x].at # "data"
         /\ \A y \in Program \ {x} : main'[y] = main[y] /\ rx'[y] = rx[y]
         /\ Opened(x)'
<1>1. CASE Start(x)
  BY <1>1 DEF Start, Opened, TypeOK
<1>2. CASE OpenReturns(x)
  <2>1. CASE main[x] = "first"
    BY <1>2, <2>1 DEF OpenReturns, Opened, TypeOK
  <2>2. CASE main[x] = "second"
    BY <1>2, <2>2 DEF OpenReturns, Opened, TypeOK, Waiting
  <2> QED
    BY <1>2, <2>1, <2>2 DEF OpenReturns, CanReturn
<1> QED
  BY <1>1, <1>2 DEF Starts

\* The receiving thread runs from then on.
LEMMA OpenedKept ==
  ASSUME TypeOK, NEW p \in Program, Opened(p), NEW x \in Program, Opened(x),
         Starts(x) \/ Sends(x) \/ Reads(x)
  PROVE  Opened(p)'
<1>1. CASE Starts(x)
  BY <1>1, StartsFrame DEF Opened
<1>2. CASE Sends(x)
  <2>1. rx' = rx /\ main[x] \in {"ready", "file"} /\ main'[x] \in {"ready", "file"}
    BY <1>2, SendsFrame
  <2>2. p # x => main'[p] = main[p]
    BY <1>2, SendsFrame
  <2> QED
    BY <2>1, <2>2 DEF Opened
<1>3. CASE Reads(x)
  <2>1. main' = main /\ rx[x].at # "none"
    <3>1. UNCHANGED senderVars /\ rx[x].at # "none"
      BY <1>3, ReadsFrame
    <3> QED
      BY <3>1 DEF senderVars
  <2>2. p # x => rx'[p] = rx[p]
    BY <1>3, ReadsFrame
  <2> QED
    BY <2>1, <2>2 DEF Opened
<1> QED
  BY <1>1, <1>2, <1>3

\* An action that does not touch the way from p.
LEMMA FilesKept ==
  ASSUME TypeOK, NEW p \in Program, FilesWay(p), Fails \/ UNCHANGED failures,
         main'[p] = "file" <=> main[p] = "file", sent'[p] = sent[p], left'[p] = left[p],
         pipe'[Peer[p]] = pipe[Peer[p]], received'[Peer[p]] = received[Peer[p]],
         \/ rx'[Peer[p]] = rx[Peer[p]]
         \/ rx[Peer[p]].at # "data" /\ rx'[Peer[p]].at # "data"
  PROVE  FilesWay(p)'
<1>1. SenderOK(main'[p], sent'[p], left'[p], Files[p])
  BY DEF FilesWay, SenderOK
<1>2. CASE Fails
  BY <1>1, <1>2, FailsWay
<1>3. CASE UNCHANGED failures
  <2> SUFFICES ASSUME failures = 0
               PROVE Way(pipe[Peer[p]], sent[p], left[p], received[Peer[p]], rx'[Peer[p]])
    BY <1>1, <1>3 DEF FilesWay
  <2>1. Way(pipe[Peer[p]], sent[p], left[p], received[Peer[p]], rx[Peer[p]])
    BY DEF FilesWay
  <2> QED
    BY <2>1 DEF Way, ReaderOK
<1> QED
  BY <1>2, <1>3

\* The program that sends files.
LEMMA FilesSends ==
  ASSUME TypeOK, WholeFiles, NEW p \in Program, Lines[p] = {}, FilesWay(p), Sends(p)
  PROVE  FilesWay(p)'
<1> DEFINE q == Peer[p]
<1>1. q \in Program /\ q # p
  BY TwoPrograms
<1>2. /\ pipe[q] \in Seq(Nat) /\ left[p] \in Seq(Nat) /\ sent[p] \in FileSeq
      /\ received[q] \in FileSeq /\ Len(sent[p]) \in Nat
  BY <1>1, WayTypes, FileLengths
<1>3. SenderOK(main[p], sent[p], left[p], Files[p])
  BY DEF FilesWay
<1>4. rx' = rx /\ received' = received
  BY SendsFrame
<1>5. CASE SendLine(p)
  BY <1>5 DEF SendLine
<1>6. CASE CannotOpen(p)
  BY <1>3, <1>6, FailsWay DEF CannotOpen
<1>7. CASE SendNotice(p)
  <2>1. PICK f \in Files[p] :
          /\ WriteFd(p, Notice(Len(f))) /\ left' = [left EXCEPT ![p] = f]
          /\ sent' = [sent EXCEPT ![p] = Append(@, f)]
    BY <1>7 DEF SendNotice
  <2>2. f \in Seq(Nat) /\ Len(f) \in Nat /\ Whole(Len(f))
    BY DataAssumption DEF WholeFiles
  <2>3. left'[p] = f /\ sent'[p] = Append(sent[p], f) /\ main'[p] = "file" /\ left[p] = <<>>
    BY <1>3, <1>7, <2>1 DEF SendNotice, Told, SenderOK, TypeOK
  <2>4. /\ Len(Append(sent[p], f)) = Len(sent[p]) + 1
        /\ \A k \in 1..Len(sent[p]) : Append(sent[p], f)[k] = sent[p][k]
        /\ Append(sent[p], f)[Len(sent[p]) + 1] = f
    BY <1>2, <2>2 DEF FileSeq
  <2>5. SenderOK("file", Append(sent[p], f), f, Files[p])
    <3> DEFINE n == Len(sent[p])
               gs == Append(sent[p], f)
    <3>1. EndOf(f, f)
      BY <2>2 DEF EndOf
    <3>2. n \in Nat /\ Len(gs) = n + 1 /\ gs[n + 1] = f /\ \A k \in 1..n : gs[k] \in Files[p]
      BY <1>2, <1>3, <2>4 DEF SenderOK
    <3> HIDE DEF n, gs
    <3>3. \A k \in 1..Len(gs) : gs[k] \in Files[p]
      BY <3>2
    <3>4. Len(gs) > 0 /\ gs[Len(gs)] = f
      BY <3>2
    <3>5. SenderOK("file", gs, f, Files[p])
      BY <2>2, <3>1, <3>3, <3>4 DEF SenderOK
    <3> QED
      BY <3>5 DEF gs
  <2>6. CASE Fails
    BY <2>3, <2>5, <2>6, FailsWay
  <2>7. CASE ~Fails
    <3>1. pipe'[q] = pipe[q] \o Notice(Len(f)) /\ UNCHANGED failures
      BY <1>1, <2>1, <2>7 DEF WriteFd, TypeOK
    <3>2. ASSUME failures = 0
          PROVE Way(pipe[q] \o Notice(Len(f)), Append(sent[p], f), f, received[q], rx[q])
      <4>1. Way(pipe[q], sent[p], <<>>, received[q], rx[q])
        BY <2>3, <3>2 DEF FilesWay
      <4> HIDE DEF q
      <4> QED
        BY <1>2, <2>2, <4>1, WayNotice
    <3>3. SenderOK(main'[p], sent'[p], left'[p], Files[p])
      BY <2>3, <2>5
    <3>4. failures' = 0 => Way(pipe'[q], sent'[p], left'[p], received'[q], rx'[q])
      BY <1>4, <2>3, <3>1, <3>2
    <3> QED
      BY <3>3, <3>4 DEF FilesWay
  <2> QED
    BY <2>6, <2>7
<1>8. CASE SendBlock(p)
  <2> DEFINE rest == left[p]
             u == SubSeq(rest, BufferSize + 1, Len(rest))
             block == SubSeq(rest, 1, BufferSize)
  <2>1. main[p] = "file" /\ main'[p] = "file" /\ sent' = sent /\ left'[p] = u
        /\ WriteFd(p, block) /\ Len(rest) >= BufferSize
    BY <1>8 DEF SendBlock, WholeBlock, TypeOK
  <2>2. Len(rest) \in Nat /\ BufferSize \in Nat /\ BufferSize > 0 /\ BufferSize \in 1..Len(rest)
    BY <1>2, <2>1, SizeAssumption
  <2>3. Len(sent[p]) > 0 /\ EndOf(rest, sent[p][Len(sent[p])]) /\ Whole(Len(rest))
    BY <1>3, <2>1 DEF SenderOK
  <2>4. /\ Len(u) = Len(rest) - BufferSize
        /\ \A i \in 1..Len(u) : u[i] = rest[i + BufferSize]
    <3> DEFINE B == BufferSize
    <3>1. rest \in Seq(Nat) /\ B \in Nat /\ B <= Len(rest) /\ Len(rest) \in Nat
      BY <1>2, <2>2
    <3> HIDE DEF rest, B
    <3>2. /\ Len(SubSeq(rest, B + 1, Len(rest))) = Len(rest) - B
          /\ \A i \in 1..(Len(rest) - B) : SubSeq(rest, B + 1, Len(rest))[i] = rest[i + B]
      BY <3>1
    <3> QED
      BY <3>2 DEF B
  <2>5. SenderOK("file", sent[p], u, Files[p])
    <3> DEFINE f == sent[p][Len(sent[p])]
               l == Len(rest)
               m == Len(u)
               g == Len(f)
    <3>1. l \in Nat /\ g \in Nat /\ l <= g /\ m = l - BufferSize /\ m \in Nat
      <4>1. Len(sent[p]) \in 1..Len(sent[p])
        BY <1>2, <2>3
      <4> QED
        BY <1>2, <2>2, <2>3, <2>4, <4>1, FileLengths DEF EndOf
    <3>2. Whole(m)
      <4>1. CASE m = 0
        BY <4>1, WholeZero
      <4>2. CASE m # 0
        <5>1. Whole(0 + BufferSize)
          BY WholeZero, WholeMore
        <5>2. Whole(BufferSize) /\ BufferSize < l
          <6> HIDE DEF m, l
          <6> QED
            BY <2>2, <3>1, <4>2, <5>1
        <5> QED
          BY <2>3, <3>1, <5>2, WholeLess
      <4> QED
        BY <4>1, <4>2
    <3>3. \A i \in 1..l : rest[i] = f[g - l + i]
      BY <2>3 DEF EndOf
    <3>4. \A i \in 1..m : u[i] = rest[i + BufferSize]
      BY <2>4
    <3> HIDE DEF f, l, m, g, u, rest
    <3>5. ASSUME NEW i \in 1..m PROVE u[i] = f[g - m + i]
      <4>1. i + BufferSize \in 1..l /\ g - l + (i + BufferSize) = g - m + i
        BY <2>2, <3>1
      <4> QED
        BY <3>3, <3>4, <4>1
    <3>6. m <= g
      BY <2>2, <3>1
    <3>7. EndOf(u, f)
      BY <3>5, <3>6 DEF EndOf, m, g
    <3> QED
      BY <1>3, <2>3, <3>2, <3>7 DEF SenderOK, m, f
  <2>6. CASE Fails
    BY <2>1, <2>5, <2>6, FailsWay
  <2>7. CASE ~Fails
    <3>1. pipe'[q] = pipe[q] \o block /\ UNCHANGED failures
      BY <1>1, <2>1, <2>7 DEF WriteFd, TypeOK
    <3>2. ASSUME failures = 0
          PROVE Way(pipe[q] \o block, sent[p], u, received[q], rx[q])
      <4>1. Way(pipe[q], sent[p], rest, received[q], rx[q])
        BY <3>2 DEF FilesWay
      <4>2. rest \in Seq(Nat)
        BY <1>2
      <4> HIDE DEF q, rest
      <4> QED
        BY <1>2, <2>2, <2>3, <4>1, <4>2, WayBlock
    <3> HIDE DEF u, block
    <3>3. SenderOK(main'[p], sent'[p], left'[p], Files[p])
      BY <2>1, <2>5
    <3>4. failures' = 0 => Way(pipe'[q], sent'[p], left'[p], received'[q], rx'[q])
      BY <1>4, <2>1, <3>1, <3>2
    <3> QED
      BY <3>3, <3>4 DEF FilesWay
  <2> QED
    BY <2>6, <2>7
<1>9. CASE FileSent(p)
  <2>1. /\ main[p] = "file" /\ main'[p] = "ready" /\ left'[p] = <<>> /\ Len(left[p]) < BufferSize
        /\ UNCHANGED <<sent, pipe, failures>>
    BY <1>2, <1>9, SizeAssumption DEF FileSent, WholeBlock, TypeOK
  <2>2. Len(left[p]) = 0
    <3> DEFINE m == Len(left[p])
    <3>1. Whole(m) /\ m \in Nat /\ m < BufferSize
      BY <1>2, <1>3, <2>1 DEF SenderOK
    <3> HIDE DEF m
    <3>2. m # 0 => 0 < m /\ Whole(0)
      BY <3>1, WholeZero
    <3>3. m # 0 => 0 + BufferSize <= m
      BY <3>1, <3>2, WholeLess
    <3>4. m = 0
      BY <3>1, <3>3, SizeAssumption
    <3> QED
      BY <3>4 DEF m
  <2>3. left[p] = <<>>
    BY <1>2, <2>2, EmptySeq
  <2>4. SenderOK("ready", sent[p], <<>>, Files[p])
    BY <1>3, <2>3 DEF SenderOK
  <2>5. SenderOK(main'[p], sent'[p], left'[p], Files[p])
    BY <2>1, <2>4
  <2>6. failures' = 0 => Way(pipe'[q], sent'[p], left'[p], received'[q], rx'[q])
    BY <1>4, <2>1, <2>3 DEF FilesWay
  <2> QED
    BY <2>5, <2>6 DEF FilesWay
<1> QED
  BY <1>5, <1>6, <1>7, <1>8, <1>9 DEF Sends

\* What a read returns when there is enough in the pipe.
LEMMA UptoAll ==
  ASSUME TypeOK, NEW q \in Program, NEW n \in Nat, Len(pipe[q]) >= n
  PROVE  Upto(q, n) = SubSeq(pipe[q], 1, n) /\ Len(Upto(q, n)) = n
<1>1. pipe[q] \in Seq(Nat) /\ Len(pipe[q]) \in Nat
  BY WayTypes
<1>2. Upto(q, n) = SubSeq(pipe[q], 1, n)
  BY <1>1 DEF Upto
<1>3. Len(SubSeq(pipe[q], 1, n)) = n
  BY <1>1
<1> QED
  BY <1>2, <1>3

\* The first byte it returns.
LEMMA UptoFirst ==
  ASSUME TypeOK, NEW q \in Program, NEW n \in Nat, n > 0, pipe[q] # <<>>
  PROVE  Upto(q, n)[1] = pipe[q][1] /\ 1 \in 1..Len(pipe[q])
<1>1. pipe[q] \in Seq(Nat) /\ Len(pipe[q]) \in Nat /\ Len(pipe[q]) > 0
  BY WayTypes, EmptySeq
<1> QED
  BY <1>1 DEF Upto

\* The program that receives files.
LEMMA FilesReads ==
  ASSUME TypeOK, WholeFiles, NEW p \in Program, FilesWay(p), Reads(Peer[p])
  PROVE  FilesWay(p)'
<1> DEFINE q == Peer[p]
           s == pipe[q]
           fs == sent[p]
           rest == left[p]
           rec == received[q]
           r == rx[q]
<1>1. q \in Program /\ q # p
  BY TwoPrograms
<1>2. /\ s \in Seq(Nat) /\ rest \in Seq(Nat) /\ fs \in FileSeq /\ rec \in FileSeq
      /\ r \in RxType /\ failures \in Nat
  BY <1>1, WayTypes
<1>3. SenderOK(main[p], fs, rest, Files[p])
  BY DEF FilesWay
<1>4. main' = main /\ left' = left /\ sent' = sent
  <2>1. UNCHANGED senderVars
    BY <1>1, ReadsFrame
  <2> QED
    BY <2>1 DEF senderVars
<1>5. SenderOK(main'[p], sent'[p], left'[p], Files[p])
  BY <1>3, <1>4
<1>6. ASSUME Fails PROVE FilesWay(p)'
  BY <1>5, <1>6, FailsWay
<1>7. Sized(fs, rest)
  BY <1>2, <1>3, SenderSized
<1>8. ASSUME failures = 0 PROVE Way(s, fs, rest, rec, r)
  BY <1>8 DEF FilesWay
<1>9. ASSUME failures' = failures,
             failures = 0 => Way(pipe'[q], fs, rest, received'[q], rx'[q])
      PROVE FilesWay(p)'
  <2>1. failures' = 0 => Way(pipe'[q], sent'[p], left'[p], received'[q], rx'[q])
    BY <1>4, <1>9
  <2> QED
    BY <1>5, <2>1 DEF FilesWay
<1>10. failures' = failures => failures = failures'
  OBVIOUS
<1>11. CASE NotNotice(q) \/ ReadNotice(q)
  <2> DEFINE bytes == Upto(q, NoticeLen)
  <2>1. r.at = "notice" /\ Consume(q, Len(bytes)) /\ s # <<>> /\ received' = received
    BY <1>11 DEF NotNotice, ReadNotice, Consume
  <2>2. ASSUME failures = 0
        PROVE /\ Len(s) >= 2 /\ s[1] = F /\ IsDigit(s[2])
              /\ Way(SubSeq(s, 3, Len(s)), fs, rest, rec,
                     [Waiting EXCEPT !.at = "data", !.size = s[2]])
    <3>1. r.at # "data" /\ Way(s, fs, rest, rec, r)
      BY <1>8, <2>1, <2>2
    <3> HIDE DEF s, fs, rest, rec, r
    <3> QED
      BY <1>2, <1>7, <2>1, <3>1, WayReadNotice
  <2>3. bytes[1] = s[1]
    BY <1>1, <2>1, UptoFirst DEF NoticeLen
  <2>4. ASSUME failures = 0
        PROVE /\ bytes[2] = s[2] /\ Len(bytes) = 2
              /\ pipe'[q] = SubSeq(s, 3, Len(s))
    <3>1. Len(s) >= 2 /\ NoticeLen = 2
      BY <2>2, <2>4 DEF NoticeLen
    <3>2. bytes = SubSeq(s, 1, 2) /\ Len(bytes) = 2
      BY <1>1, <3>1, UptoAll
    <3>3. bytes[2] = s[2]
      BY <1>2, <3>1, <3>2
    <3>4. pipe'[q] = SubSeq(s, 3, Len(s))
      <4>1. pipe'[q] = SubSeq(s, Len(bytes) + 1, Len(s))
        BY <1>1, <2>1 DEF Consume, TypeOK
      <4>2. Len(bytes) + 1 = 3
        BY <3>2
      <4> HIDE DEF bytes
      <4> QED
        BY <4>1, <4>2
    <3> QED
      BY <3>2, <3>3, <3>4
  <2>5. CASE NotNotice(q)
    <3>1. failures' = failures /\ bytes[1] # F
      BY <2>5 DEF NotNotice
    <3>2. failures # 0
      BY <2>2, <2>3, <3>1
    <3> QED
      BY <1>9, <3>1, <3>2
  <2>6. CASE ReadNotice(q) /\ ~Fails
    <3>1. failures' = failures /\ \E size \in ParsedSizes(bytes) :
            rx' = [rx EXCEPT ![q] = [Waiting EXCEPT !.at = "data", !.size = size]]
      BY <2>6 DEF ReadNotice
    <3>2. ASSUME failures = 0 PROVE Way(pipe'[q], fs, rest, received'[q], rx'[q])
      <4>1. ParsedSizes(bytes) = {s[2]}
        <5>1. Len(bytes) # 1 /\ IsDigit(bytes[2]) /\ bytes[2] = s[2]
          BY <2>2, <2>4, <3>2
        <5> HIDE DEF bytes
        <5> QED
          BY <5>1 DEF ParsedSizes
      <4>2. rx'[q] = [Waiting EXCEPT !.at = "data", !.size = s[2]]
        BY <1>1, <3>1, <4>1 DEF TypeOK
      <4> QED
        BY <2>1, <2>2, <2>4, <3>2, <4>2
    <3> QED
      BY <1>9, <3>1, <3>2
  <2> QED
    BY <1>6, <1>11, <2>5, <2>6
<1>12. CASE ReadData(q)
  <2> DEFINE bytes == Upto(q, BufferSize)
  <2>1. /\ r.at = "data" /\ r.total < r.size /\ Consume(q, Len(bytes)) /\ s # <<>>
        /\ Store(q, bytes) /\ received' = received
    BY <1>12 DEF ReadData, Consume, Incomplete
  <2>2. ASSUME failures = 0
        PROVE /\ Len(s) >= BufferSize
              /\ Way(SubSeq(s, BufferSize + 1, Len(s)), fs, rest, rec,
                     [r EXCEPT !.file = @ \o SubSeq(s, 1, BufferSize),
                               !.total = @ + BufferSize])
    <3>1. Way(s, fs, rest, rec, r)
      BY <1>8, <2>2
    <3> HIDE DEF s, fs, rest, rec, r
    <3> QED
      BY <1>2, <1>7, <2>1, <3>1, WayReadData
  <2>3. CASE ~Fails
    <3>1. /\ rx' = [rx EXCEPT ![q].file = @ \o bytes, ![q].total = @ + Len(bytes)]
          /\ failures' = failures
      BY <2>1, <2>3 DEF Store
    <3>2. ASSUME failures = 0 PROVE Way(pipe'[q], fs, rest, received'[q], rx'[q])
      <4>1. bytes = SubSeq(s, 1, BufferSize) /\ Len(bytes) = BufferSize
        BY <1>1, <2>2, <3>2, UptoAll, SizeAssumption
      <4>2. pipe'[q] = SubSeq(s, BufferSize + 1, Len(s))
        BY <1>1, <2>1, <4>1 DEF Consume, TypeOK
      <4>3. rx'[q] = [r EXCEPT !.file = @ \o bytes, !.total = @ + Len(bytes)]
        BY <1>1, <3>1 DEF TypeOK
      <4> QED
        BY <2>1, <2>2, <3>2, <4>1, <4>2, <4>3
    <3> QED
      BY <1>9, <3>1, <3>2
  <2> QED
    BY <1>6, <2>3
<1>13. CASE ReadFails(q)
  BY <1>6, <1>13 DEF ReadFails
<1>14. CASE FileReceived(q)
  <2>1. /\ r.at = "data" /\ ~(r.total < r.size) /\ UNCHANGED <<pipe, failures>>
        /\ received'[q] = Append(rec, r.file) /\ rx'[q] = Waiting
    BY <1>1, <1>14 DEF FileReceived, Incomplete, AfterFile, TypeOK
  <2>2. ASSUME failures = 0 PROVE Way(s, fs, rest, Append(rec, r.file), Waiting)
    <3>1. Way(s, fs, rest, rec, r)
      BY <1>8, <2>2
    <3> HIDE DEF s, fs, rest, rec, r
    <3> QED
      BY <1>2, <1>7, <2>1, <3>1, WayDone
  <2> QED
    BY <1>9, <2>1, <2>2
<1> QED
  BY <1>11, <1>12, <1>13, <1>14 DEF Reads

\* The way from a program at which lines are typed.
LEMMA LinesKept ==
  ASSUME TypeOK, FilesOrLines, NEW p \in Program, Lines[p] # {}, LinesWay(p),
         Sends(p) \/ Reads(Peer[p])
  PROVE  LinesWay(p)'
<1> DEFINE q == Peer[p]
           s == pipe[q]
<1>1. q \in Program /\ q # p /\ s \in Seq(Nat) /\ Len(s) \in Nat
  BY TwoPrograms, WayTypes
<1>2. Files[p] = {} /\ sent[p] = <<>> /\ main[p] # "file" /\ NoF(s) /\ rx[q].at # "data"
  BY DEF LinesWay
<1>3. CASE Sends(p)
  <2>1. SendLine(p)
    BY <1>2, <1>3 DEF Sends, SendNotice, CannotOpen, SendBlock, FileSent
  <2>2. PICK line \in Lines[p] : WriteFd(p, line)
    BY <2>1 DEF SendLine
  <2>3. line \in Seq(Nat) /\ NoF(line)
    BY DataAssumption DEF FilesOrLines
  <2>4. pipe'[q] = s \o line \/ pipe'[q] = s
    BY <1>1, <2>2 DEF WriteFd, TypeOK
  <2>5. NoF(s \o line)
    <3>1. /\ Len(s \o line) = Len(s) + Len(line) /\ Len(line) \in Nat
          /\ \A i \in 1..(Len(s) + Len(line)) :
               (s \o line)[i] = IF i <= Len(s) THEN s[i] ELSE line[i - Len(s)]
      BY <1>1, <2>3, ConcatProperties
    <3> DEFINE l == Len(s)
               m == Len(line)
    <3>2. ASSUME NEW i \in 1..(l + m) PROVE (s \o line)[i] # F
      <4>1. CASE i <= l
        <5>1. i \in 1..l
          BY <1>1, <3>1, <4>1
        <5> QED
          BY <1>2, <3>1, <4>1, <5>1 DEF NoF
      <4>2. CASE ~(i <= l)
        <5>1. i - l \in 1..m
          BY <1>1, <3>1, <4>2
        <5> QED
          BY <2>3, <3>1, <4>2, <5>1 DEF NoF
      <4> QED
        BY <4>1, <4>2
    <3> QED
      BY <3>1, <3>2 DEF NoF
  <2>6. NoF(pipe'[q])
    BY <1>2, <2>4, <2>5
  <2>7. UNCHANGED <<main, sent, rx, received>>
    BY <2>1 DEF SendLine
  <2> QED
    BY <2>6, <2>7 DEF LinesWay
<1>4. CASE Reads(q)
  <2>1. ~ReadData(q) /\ ~ReadFails(q) /\ ~FileReceived(q)
    BY <1>2 DEF ReadData, ReadFails, FileReceived
  <2>2. ~ReadNotice(q)
    <3> SUFFICES ASSUME ReadNotice(q) PROVE FALSE
      OBVIOUS
    <3>1. Upto(q, NoticeLen)[1] = F /\ s # <<>>
      BY DEF ReadNotice, Consume
    <3>2. Upto(q, NoticeLen)[1] = s[1] /\ 1 \in 1..Len(s)
      BY <1>1, <3>1, UptoFirst DEF NoticeLen
    <3> QED
      BY <1>2, <3>1, <3>2 DEF NoF
  <2>3. NotNotice(q)
    BY <1>4, <2>1, <2>2 DEF Reads
  <2> DEFINE n == Len(Upto(q, NoticeLen))
  <2>4. n \in Nat /\ n <= Len(s)
    BY <1>1, UptoType DEF NoticeLen
  <2>5. pipe'[q] = SubSeq(s, n + 1, Len(s))
    BY <1>1, <2>3 DEF NotNotice, Consume, TypeOK
  <2> HIDE DEF n
  <2>6. NoF(SubSeq(s, n + 1, Len(s)))
    <3> DEFINE t == SubSeq(s, n + 1, Len(s))
    <3>1. Len(t) = Len(s) - n /\ \A i \in 1..Len(t) : t[i] = s[i + n]
      BY <1>1, <2>4
    <3> HIDE DEF t
    <3>2. \A i \in 1..Len(t) : i + n \in 1..Len(s)
      BY <1>1, <2>4, <3>1
    <3>3. NoF(t)
      BY <1>2, <3>1, <3>2 DEF NoF
    <3> QED
      BY <3>3 DEF t
  <2>7. UNCHANGED <<main, sent, rx, received>>
    BY <2>3 DEF NotNotice, senderVars
  <2> QED
    BY <2>5, <2>6, <2>7 DEF LinesWay
<1> QED
  BY <1>3, <1>4

\* It does not see what the other actions do.
LEMMA LinesFramed ==
  ASSUME TypeOK, NEW p \in Program, LinesWay(p),
         main'[p] # "file", sent'[p] = sent[p], pipe'[Peer[p]] = pipe[Peer[p]],
         received'[Peer[p]] = received[Peer[p]],
         rx'[Peer[p]] = rx[Peer[p]] \/ rx'[Peer[p]].at # "data"
  PROVE  LinesWay(p)'
  BY DEF LinesWay

\* At first nothing has been sent.
LEMMA IntactInit == FilesOrLines /\ Init => IntactInv
<1> SUFFICES ASSUME FilesOrLines, Init, NEW p \in Program
             PROVE Opened(p) /\ (IF Lines[p] = {} THEN FilesWay(p) ELSE LinesWay(p))
  BY DEF IntactInv
<1> DEFINE q == Peer[p]
           r == [Waiting EXCEPT !.at = "none"]
<1>1. q \in Program
  BY TwoPrograms
<1>2. /\ main[p] = "start" /\ left[p] = <<>> /\ sent[p] = <<>> /\ pipe[q] = <<>>
      /\ received[q] = <<>> /\ rx[q] = r /\ rx[p] = r
  BY <1>1 DEF Init
<1>3. r.at = "none"
  BY DEF Waiting
<1>4. Opened(p)
  BY <1>2, <1>3 DEF Opened
<1>5. Len(<<>>) = 0
  OBVIOUS
<1>6. LinesWay(p) \/ Lines[p] = {}
  <2>1. NoF(<<>>)
    BY <1>5 DEF NoF
  <2> QED
    BY <1>2, <1>3, <2>1 DEF LinesWay, FilesOrLines
<1> HIDE DEF r
<1>7. FilesWay(p)
  <2>1. SenderOK("start", <<>>, <<>>, Files[p])
    BY <1>5, WholeZero DEF SenderOK
  <2>2. Way(<<>>, <<>>, <<>>, <<>>, r)
    <3> DEFINE at == [k \in Nat |-> 1]
    <3>1. at \in [Nat -> Int] /\ at[1] = 1 /\ at[0 + 1] = 1
      OBVIOUS
    <3> HIDE DEF at
    <3>2. Stream(<<>>, <<>>, 0, 0, at)
      <4>1. 0 \in 0..0 /\ (0 + 1)..0 = {} /\ 1 = 0 + 1 + 0
        OBVIOUS
      <4>2. \A j, k \in (0 + 1)..(0 + 1) : ~(j < k)
        OBVIOUS
      <4> QED
        BY <1>5, <3>1, <4>1, <4>2 DEF Stream
    <3>3. ReaderOK(r, <<>>, 0, at[0 + 1])
      BY <1>3, <3>1 DEF ReaderOK, r
    <3>4. Taken(<<>>, <<>>)
      BY <1>5 DEF Taken
    <3>5. Len(<<>>) + 1 = 0 + 1
      BY <1>5
    <3> QED
      BY <1>5, <3>2, <3>3, <3>4, <3>5 DEF Way
  <2> QED
    BY <1>2, <2>1, <2>2 DEF FilesWay
<1> QED
  BY <1>4, <1>6, <1>7

\* Every step keeps IntactInv.
LEMMA IntactNext ==
  WholeFiles /\ FilesOrLines /\ TypeOK /\ IntactInv /\ [Next]_vars => IntactInv'
<1> SUFFICES ASSUME WholeFiles, FilesOrLines, TypeOK, IntactInv, [Next]_vars,
                    NEW p \in Program
             PROVE (Opened(p) /\ (IF Lines[p] = {} THEN FilesWay(p) ELSE LinesWay(p)))'
  BY DEF IntactInv
<1> DEFINE q == Peer[p]
<1>1. q \in Program /\ q # p /\ Peer[q] = p /\ \A x \in Program : x = p \/ x = q
  BY TwoPrograms
<1>2. Opened(p) /\ (IF Lines[p] = {} THEN FilesWay(p) ELSE LinesWay(p))
  BY DEF IntactInv
<1>3. \A x \in Program : Opened(x)
  BY DEF IntactInv
<1>4. CASE UNCHANGED vars
  BY <1>2, <1>4 DEF vars, senderVars, Opened, FilesWay, LinesWay
<1>5. ASSUME NEW x \in Program, Starts(x) \/ Sends(x) \/ Reads(x)
      PROVE (Opened(p) /\ (IF Lines[p] = {} THEN FilesWay(p) ELSE LinesWay(p)))'
  <2>1. Opened(p)'
    BY <1>2, <1>3, <1>5, OpenedKept
  <2>2. CASE Starts(x)
    <3>1. /\ UNCHANGED <<left, sent, pipe, failures, received>>
          /\ main[x] \notin {"ready", "file"} /\ main'[x] # "file"
          /\ rx[x].at # "data" /\ rx'[x].at # "data"
          /\ \A y \in Program \ {x} : main'[y] = main[y] /\ rx'[y] = rx[y]
      BY <1>3, <2>2, StartsFrame
    <3>2. main'[p] = "file" <=> main[p] = "file"
      BY <3>1
    <3>3. rx'[q] = rx[q] \/ (rx[q].at # "data" /\ rx'[q].at # "data")
      BY <1>1, <3>1
    <3>4. FilesWay(p) => FilesWay(p)'
      BY <1>1, <3>1, <3>2, <3>3, FilesKept
    <3>5. LinesWay(p) => LinesWay(p)'
      <4>1. LinesWay(p) => main[p] # "file"
        BY DEF LinesWay
      <4> QED
        BY <1>1, <3>1, <3>2, <3>3, <4>1, LinesFramed
    <3> QED
      BY <1>2, <2>1, <3>4, <3>5
  <2>3. CASE Sends(x) /\ x = p
    <3>1. Lines[p] = {} => FilesWay(p)'
      BY <1>2, <2>3, FilesSends
    <3>2. Lines[p] # {} => LinesWay(p)'
      BY <1>2, <2>3, LinesKept
    <3> QED
      BY <2>1, <3>1, <3>2
  <2>4. CASE Reads(x) /\ x = q
    <3>1. Lines[p] = {} => FilesWay(p)'
      BY <1>2, <2>4, FilesReads
    <3>2. Lines[p] # {} => LinesWay(p)'
      BY <1>2, <2>4, LinesKept
    <3> QED
      BY <2>1, <3>1, <3>2
  <2>5. CASE (Sends(x) /\ x = q) \/ (Reads(x) /\ x = p)
    <3>1. Fails \/ UNCHANGED failures
      BY <2>5, SendsFrame, ReadsFrame
    <3>2. CASE Sends(x) /\ x = q
      <4>1. /\ rx' = rx /\ received' = received /\ pipe'[q] = pipe[q]
            /\ main'[p] = main[p] /\ left'[p] = left[p] /\ sent'[p] = sent[p]
        BY <1>1, <3>2, SendsFrame
      <4>2. FilesWay(p) => FilesWay(p)'
        BY <1>1, <3>1, <4>1, FilesKept
      <4>3. LinesWay(p) => LinesWay(p)'
        <5>1. LinesWay(p) => main'[p] # "file"
          BY <4>1 DEF LinesWay
        <5> QED
          BY <4>1, <5>1, LinesFramed
      <4> QED
        BY <1>2, <2>1, <4>2, <4>3
    <3>3. CASE Reads(x) /\ x = p
      <4>1. /\ UNCHANGED senderVars
            /\ pipe'[q] = pipe[q] /\ rx'[q] = rx[q] /\ received'[q] = received[q]
        BY <1>1, <3>3, ReadsFrame
      <4>2. main'[p] = main[p] /\ left'[p] = left[p] /\ sent'[p] = sent[p]
        BY <4>1 DEF senderVars
      <4>3. FilesWay(p) => FilesWay(p)'
        BY <1>1, <3>1, <4>1, <4>2, FilesKept
      <4>4. LinesWay(p) => LinesWay(p)'
        <5>1. LinesWay(p) => main'[p] # "file"
          BY <4>2 DEF LinesWay
        <5> QED
          BY <4>1, <4>2, <5>1, LinesFramed
      <4> QED
        BY <1>2, <2>1, <4>3, <4>4
    <3> QED
      BY <2>5, <3>2, <3>3
  <2> QED
    BY <1>1, <1>5, <2>2, <2>3, <2>4, <2>5
<1> QED
  BY <1>4, <1>5 DEF Next, Starts, Sends, Reads

\* Whatever the reads return at a time, and whatever bytes the files hold, the
\* files antenna_fread_fd stores are those antenna_fwrite_fd was given, in
\* order, as long as no call fails: the notice says how many bytes are not to be
\* taken for notices.  Files that are not whole blocks, and lines that are typed
\* between files, upset that.
THEOREM IntactCorrect == WholeFiles /\ FilesOrLines => (Spec => []Intact)
<1> SUFFICES ASSUME WholeFiles, FilesOrLines PROVE Spec => []Intact
  OBVIOUS
<1>1. Init => IntactInv
  BY IntactInit
<1>2. TypeOK /\ IntactInv /\ [Next]_vars => IntactInv'
  BY IntactNext
<1>3. TypeOK /\ IntactInv => Intact
  <2> SUFFICES ASSUME TypeOK, IntactInv, failures = 0, NEW p \in Program
               PROVE LET n == Len(received[Peer[p]])
                     IN  n <= Len(sent[p]) /\ received[Peer[p]] = SubSeq(sent[p], 1, n)
    BY DEF Intact
  <2> DEFINE rec == received[Peer[p]]
             fs == sent[p]
  <2>1. rec \in FileSeq /\ fs \in FileSeq /\ Len(rec) \in Nat /\ Len(fs) \in Nat
    BY TwoPrograms, WayTypes, FileLengths
  <2>2. Taken(rec, fs)
    <3>1. CASE Lines[p] = {}
      BY <3>1 DEF IntactInv, FilesWay, Way
    <3>2. CASE Lines[p] # {}
      <4>1. Len(rec) = 0
        BY <3>2 DEF IntactInv, LinesWay
      <4> QED
        BY <2>1, <4>1 DEF Taken
    <3> QED
      BY <3>1, <3>2
  <2> HIDE DEF rec, fs
  <2>3. rec = SubSeq(fs, 1, Len(rec)) /\ Len(rec) <= Len(fs)
    <3> DEFINE g == SubSeq(fs, 1, Len(rec))
    <3>1. Len(rec) <= Len(fs) /\ \A k \in 1..Len(rec) : rec[k] = fs[k]
      BY <2>2 DEF Taken
    <3>2. g \in FileSeq /\ Len(g) = Len(rec) /\ \A k \in 1..Len(rec) : g[k] = fs[k]
      BY <2>1, <3>1 DEF FileSeq
    <3> HIDE DEF g
    <3>3. rec = g
      BY <2>1, <3>1, <3>2, SeqEqual DEF FileSeq
    <3> QED
      BY <3>1, <3>3 DEF g
  <2> QED
    BY <2>3 DEF rec, fs
<1> QED
  BY <1>1, <1>2, <1>3, TypeCorrect, PTL DEF Spec

==============================================================================
