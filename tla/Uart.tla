-------------------------------- MODULE Uart --------------------------------
(***************************************************************************)
(* The programs client.c and server.c over a pair of named pipes or a      *)
(* serial line.  Packets are written as they lie in memory, length and     *)
(* identifier first, and whatever a read returns is taken for one packet:  *)
(* nothing marks where a packet ends.                                      *)
(*                                                                         *)
(* Only the client sends.  A byte is <<n, i>>, the i-th of the n-th        *)
(* message with its header; the line feed behind a packet is <<0, 1>>.     *)
(* What the router makes of bytes that are no header is left open.         *)
(***************************************************************************)
EXTENDS Integers, Sequences

CONSTANTS
  MsgLength,    \* MsgLength[n]: the length of the n-th line the user enters
  HeaderSize,   \* of csp_packet_t: length and identifier
  PacketSize,   \* CSP_PACKET_SIZE
  ClientBuffers, ServerBuffers,  \* packet buffers of the programs
  PipeSize,     \* bytes the pipe or the line takes
  MaxPending    \* MAX_PEND_CONN

ASSUME UartAssumption ==
  /\ MsgLength \in Seq(Nat \ {0}) /\ {HeaderSize, PacketSize, ClientBuffers, ServerBuffers} \subseteq Nat \ {0}
  /\ HeaderSize < PacketSize /\ PipeSize > HeaderSize + PacketSize /\ MaxPending \in Nat

Lines == 1..Len(MsgLength)
Sessions == 0..Len(MsgLength) + 1  \* 0 is a connection nobody made

VARIABLES
  fifoMode,  \* FIFO
  entered,   \* how many lines the client has taken
  session,   \* which of its connections the client has now
  clientFree,\* the client's free buffers; its reading thread has one for good
  sessionOf, \* sessionOf[n]: the connection line n was sent on
  pipe,      \* the bytes on the way
  reading,   \* the server's reading thread lives
  hasBuffer, \* its packet is not NULL
  serverFree,\* the server's free buffers
  fifo,      \* the packets for the server's router
  isOpen, rxq, pending,  \* the server's connections, their packets, and those not accepted
  serving,   \* what the server's main loop is at
  readOut,   \* history: what csp_read returned, 0 for what is not a message
  crowded,   \* history: the messages that did not have the line to themselves
  shut       \* history: the messages a connection was closed on

clientVars == <<entered, session, clientFree, sessionOf>>
readVars == <<reading, hasBuffer>>
connVars == <<isOpen, rxq, pending>>
uartVars == <<fifoMode, clientVars, pipe, readVars, serverFree, fifo, connVars,
              serving, readOut, crowded, shut>>

NoSession == [at |-> "accept", on |-> 0]

UartInit ==
  /\ fifoMode \in BOOLEAN
  /\ entered = 0 /\ session = 1 /\ clientFree = ClientBuffers - 1
  /\ sessionOf = [n \in Lines |-> 0] /\ pipe = <<>>
  /\ reading = TRUE /\ hasBuffer = TRUE /\ serverFree = ServerBuffers - 1
  /\ fifo = <<>>
  /\ isOpen = [s \in Sessions |-> FALSE] /\ rxq = [s \in Sessions |-> <<>>]
  /\ pending = <<>> /\ serving = NoSession
  /\ readOut = <<>> /\ crowded = {} /\ shut = {}

InPipe == {pipe[i][1] : i \in 1..Len(pipe)}

----------------------------------------------------------------------------
\* The client's main loop, for one line

\* fifo_tx: one write, and on a serial line another for the line feed.
WrittenShort(n) ==  \* mutant: the length itself is not counted
  [i \in 1..MsgLength[n] + HeaderSize - 1 |-> <<n, i>>]
WrittenFromId(n) ==  \* mutant: what is written starts behind the length
  [i \in 1..MsgLength[n] + HeaderSize - 1 |-> <<n, i + 1>>]
Written(n) == [i \in 1..MsgLength[n] + HeaderSize |-> <<n, i>>]
Feed == IF fifoMode THEN <<>> ELSE <<<<0, 1>>>>

Enter ==
  LET n == entered + 1
      bytes == Written(n) \o Feed
  IN  /\ n \in Lines /\ entered' = n
      /\ \/ /\ clientFree = 0  \* no buffer: the line is skipped
            /\ UNCHANGED <<session, clientFree, sessionOf, pipe, crowded>>
         \/ /\ clientFree > 0 /\ MsgLength[n] > PacketSize
            \* csp_send fails, and nobody frees the packet
            /\ clientFree' = clientFree - 1 /\ session' = session + 1
            /\ UNCHANGED <<sessionOf, pipe, crowded>>
         \/ /\ clientFree > 0 /\ MsgLength[n] <= PacketSize
            /\ Len(pipe) + Len(bytes) <= PipeSize
            /\ pipe' = pipe \o bytes
            /\ sessionOf' = [sessionOf EXCEPT ![n] = session]
            /\ crowded' = crowded \cup (IF pipe = <<>> THEN {} ELSE {n} \cup InPipe)
                                  \cup (IF reading THEN {} ELSE {n})
            /\ UNCHANGED <<session, clientFree>>
      /\ UNCHANGED <<fifoMode, readVars, serverFree, fifo, connVars, serving, readOut, shut>>

----------------------------------------------------------------------------
\* The server's reading thread, fifo_rx

\* A pipe gives what there is, a serial line perhaps only the first of it.
Chunks ==
  LET most == IF Len(pipe) < PacketSize THEN Len(pipe) ELSE PacketSize
  IN  IF fifoMode THEN {most} ELSE 1..most

\* A packet is the message it begins with; `whole` if all of that is in it.
Parsed(bytes) ==
  LET n == bytes[1][1]
      begins(k) == Len(bytes) >= k /\ \A i \in 1..k : bytes[i] = <<n, i>>
  IN  IF n # 0 /\ begins(HeaderSize)
      THEN [msg |-> n, whole |-> begins(HeaderSize + MsgLength[n])]
      ELSE [msg |-> 0, whole |-> FALSE]

FifoRx ==
  /\ reading /\ hasBuffer /\ pipe # <<>>
  /\ \E k \in Chunks :
       /\ fifo' = Append(fifo, Parsed(SubSeq(pipe, 1, k)))
       /\ pipe' = SubSeq(pipe, k + 1, Len(pipe))
       /\ crowded' = crowded \cup IF k = Len(pipe) THEN {} ELSE InPipe
  /\ IF serverFree > 0
     THEN serverFree' = serverFree - 1 /\ UNCHANGED hasBuffer
     ELSE hasBuffer' = FALSE /\ UNCHANGED serverFree
  /\ UNCHANGED <<fifoMode, clientVars, reading, connVars, serving, readOut, shut>>

\* A read to NULL fails, and the thread is over.
FifoRxFails ==
  /\ reading /\ ~hasBuffer /\ pipe # <<>>
  /\ reading' = FALSE
  /\ crowded' = crowded \cup InPipe
  /\ UNCHANGED <<fifoMode, clientVars, pipe, hasBuffer, serverFree, fifo, connVars,
                 serving, readOut, shut>>

----------------------------------------------------------------------------
\* The server's router

Holds(s) == {rxq[s][i].msg : i \in 1..Len(rxq[s])}

\* The router takes a packet to the connection s, which is made if there is
\* none; if too many are waiting to be accepted it is closed again.
Deliver(p, s) ==
  \/ /\ isOpen[s] \/ Len(pending) < MaxPending
     /\ rxq' = [rxq EXCEPT ![s] = Append(@, p)]
     /\ isOpen' = [isOpen EXCEPT ![s] = TRUE]
     /\ pending' = IF isOpen[s] THEN pending ELSE Append(pending, s)
     /\ UNCHANGED <<serverFree, shut>>
  \/ /\ ~isOpen[s] /\ Len(pending) >= MaxPending
     /\ serverFree' = serverFree + 1
     /\ shut' = shut \cup {p.msg}
     /\ UNCHANGED connVars

Discard ==
  /\ serverFree' = serverFree + 1
  /\ UNCHANGED <<connVars, shut>>

UartRoute ==
  /\ fifo # <<>> /\ fifo' = Tail(fifo)
  /\ LET p == Head(fifo)
     IN  \/ p.msg # 0 /\ Deliver(p, sessionOf[p.msg])
         \/ p.msg = 0 /\ (Discard \/ \E s \in {0, session} : Deliver(p, s))
  /\ UNCHANGED <<fifoMode, clientVars, pipe, readVars, serving, readOut, crowded>>

----------------------------------------------------------------------------
\* The server's main loop

ServerAccept ==
  /\ serving.at = "accept" /\ pending # <<>>
  /\ serving' = [at |-> "read", on |-> Head(pending)]
  /\ pending' = Tail(pending)
  /\ UNCHANGED <<fifoMode, clientVars, pipe, readVars, serverFree, fifo, isOpen, rxq,
                 readOut, crowded, shut>>

ServerReads ==
  LET s == serving.on
  IN  /\ serving.at = "read" /\ rxq[s] # <<>>
      /\ rxq' = [rxq EXCEPT ![s] = Tail(@)]
      /\ readOut' = Append(readOut, IF Head(rxq[s]).whole THEN Head(rxq[s]).msg ELSE 0)
      /\ serverFree' = serverFree + 1
      /\ UNCHANGED <<fifoMode, clientVars, pipe, readVars, fifo, isOpen, pending, serving, crowded, shut>>

ServerGivesUp ==
  /\ serving.at = "read" /\ rxq[serving.on] = <<>>
  /\ serving' = [serving EXCEPT !.at = "close"]
  /\ UNCHANGED <<fifoMode, clientVars, pipe, readVars, serverFree, fifo, connVars,
                 readOut, crowded, shut>>

\* What came since csp_read gave up goes with the connection.
ServerCloses ==
  LET s == serving.on
  IN  /\ serving.at = "close" /\ serving' = NoSession
      /\ isOpen' = [isOpen EXCEPT ![s] = FALSE]
      /\ rxq' = [rxq EXCEPT ![s] = <<>>]
      /\ shut' = shut \cup Holds(s)
      /\ serverFree' = serverFree + Len(rxq[s])
      /\ UNCHANGED <<fifoMode, clientVars, pipe, readVars, fifo, pending, readOut, crowded>>

UartNext ==
  \/ Enter
  \/ FifoRx \/ FifoRxFails
  \/ UartRoute
  \/ ServerAccept \/ ServerReads \/ ServerGivesUp \/ ServerCloses

UartSpec == UartInit /\ [][UartNext]_uartVars

----------------------------------------------------------------------------
\* Properties

\* However the bytes are cut, no message is read twice; none is read that is
\* not whole if every message has had the line to itself.
UartIntact ==
  /\ \A i, j \in 1..Len(readOut) : i # j /\ readOut[i] = readOut[j] => readOut[i] = 0
  /\ fifoMode /\ crowded = {} => \A i \in 1..Len(readOut) : readOut[i] # 0

\* The stream gets back into step by itself: a message that is written when
\* the line is empty and read before the next is written comes to the server
\* whole, whatever was on the line before, unless the server closes the
\* connection on it or its reading thread has come to its end.
InServer(n) ==
  \/ \E i \in 1..Len(fifo) : fifo[i].msg = n
  \/ \E s \in Sessions : n \in Holds(s)
UartResync ==
  \A n \in 1..entered :
    sessionOf[n] # 0 /\ n \notin crowded \cup InPipe \cup shut /\ ~InServer(n)
      => \E i \in 1..Len(readOut) : readOut[i] = n

=============================================================================
