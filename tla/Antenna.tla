------------------------------- MODULE Antenna -------------------------------
(***************************************************************************)
(* Two Loris programs joined by two named pipes: fifo_init, which opens    *)
(* the pipes, and then in each program a main thread that sends (lines     *)
(* typed by the user, or files with antenna_fwrite_fd) and a thread that   *)
(* receives files (check_rx_file, antenna_fread_fd).                       *)
(*                                                                         *)
(* A file goes out as a notice, F and the size, and then its bytes in      *)
(* whole blocks of BufferSize.  Nothing on the way tells notice, block and *)
(* line apart: a read returns what the pipe has, up to a length.           *)
(***************************************************************************)
EXTENDS Naturals, Sequences

CONSTANTS
  Program,      \* the two programs
  Peer,         \* Peer[p]: the other program
  Address,      \* Address[p]: the address given to fifo_init
  Files,        \* Files[p]: the files that p may be told to send
  Lines,        \* Lines[p]: the lines that may be typed at p
  SendLimit,    \* SendLimit[p]: how many of them are sent (bound)
  BufferSize,   \* FILE_BUFFER_SIZE
  PipeSize,     \* the bytes a pipe takes before a write waits
  MaxFail       \* how many calls to the system fail (bound)

ASSUME ProgramAssumption ==
  /\ Program # {}
  /\ Peer \in [Program -> Program]
  /\ \A p \in Program : Peer[p] # p /\ Program = {p, Peer[p]} /\ Peer[Peer[p]] = p
ASSUME AddressAssumption ==
  /\ Address \in [Program -> Nat]
  /\ \A p \in Program : Address[p] % 2 # Address[Peer[p]] % 2
ASSUME DataAssumption ==
  /\ Files \in [Program -> SUBSET Seq(Nat)]
  /\ Lines \in [Program -> SUBSET Seq(Nat)]
  /\ SendLimit \in [Program -> Nat]
ASSUME SizeAssumption == BufferSize \in Nat \ {0} /\ PipeSize \in Nat /\ MaxFail \in Nat

VARIABLES
  main,      \* main[p]: what the main thread of p is doing
  left,      \* left[p]: what fread has not yet returned of the file p is sending
  rx,        \* rx[p]: the receiving thread of p
  pipe,      \* pipe[p]: the bytes on their way to p
  asked,     \* asked[p]: how often p was told to send (bound)
  failures,  \* how many calls have failed (bound)
  sent, received  \* history: the files p has announced, and those p has received

senderVars == <<main, left, asked, sent>>
vars == <<senderVars, rx, pipe, failures, received>>

\* A byte is a number: F, another letter above F, or below F a digit.  One
\* digit stands for all the digits of a size.
F == 100
IsDigit(b) == b < F
NoticeLen == 2
NoticeInBlocks(size) == <<F, size \div BufferSize>>  \* mutant: another unit
Notice(size) == <<F, size>>

MainStates == {"start", "first", "second", "ready", "file"}
Waiting == [at |-> "notice", size |-> 0, total |-> 0, file |-> <<>>]

Init ==
  /\ main = [p \in Program |-> "start"]
  /\ left = [p \in Program |-> <<>>]
  /\ rx = [p \in Program |-> [Waiting EXCEPT !.at = "none"]]
  /\ pipe = [p \in Program |-> <<>>]
  /\ asked = [p \in Program |-> 0]
  /\ failures = 0
  /\ sent = [p \in Program |-> <<>>]
  /\ received = [p \in Program |-> <<>>]

----------------------------------------------------------------------------
\* fifo_init

OddAddressSame(p) == FALSE  \* mutant: every program opens its rx first
OddAddress(p) == Address[p] % 2 # 0

FirstEnd(p) == IF OddAddress(p) THEN "tx" ELSE "rx"
Opposite(end) == IF end = "tx" THEN "rx" ELSE "tx"

\* The ends whose open p has called; it may still be waiting in the last one.
Called(p) ==
  CASE main[p] = "start" -> {}
    [] main[p] = "first" -> {FirstEnd(p)}
    [] OTHER -> {"rx", "tx"}

Start(p) ==
  /\ main[p] = "start"
  /\ main' = [main EXCEPT ![p] = "first"]
  /\ UNCHANGED <<left, asked, sent, rx, pipe, failures, received>>

\* open of a named pipe returns once the other program opens its other end.
CanReturn(p) ==
  \/ main[p] = "first" /\ Opposite(FirstEnd(p)) \in Called(Peer[p])
  \/ main[p] = "second" /\ FirstEnd(p) \in Called(Peer[p])

\* After the second open main starts the receiving thread.
OpenReturns(p) ==
  /\ CanReturn(p)
  /\ main' = [main EXCEPT ![p] = IF @ = "first" THEN "second" ELSE "ready"]
  /\ rx' = IF main[p] = "second" THEN [rx EXCEPT ![p] = Waiting] ELSE rx
  /\ UNCHANGED <<left, asked, sent, pipe, failures, received>>

----------------------------------------------------------------------------
\* The main thread: antenna_write_fd and antenna_fwrite_fd

Fails == failures < MaxFail /\ failures' = failures + 1

\* antenna_write_fd: write waits for room.  If it fails and returns -1, the
\* comparison with the unsigned data_len misses that, and antenna_write_fd
\* returns 0 all the same.
WriteFd(p, bytes) ==
  \/ /\ Len(pipe[Peer[p]]) + Len(bytes) <= PipeSize
     /\ pipe' = [pipe EXCEPT ![Peer[p]] = @ \o bytes]
     /\ UNCHANGED failures
  \/ Fails /\ UNCHANGED pipe

Told(p) ==
  /\ main[p] = "ready" /\ asked[p] < SendLimit[p]
  /\ asked' = [asked EXCEPT ![p] = @ + 1]

\* The loop of main in fifo-emulation.c.
SendLine(p) ==
  /\ Told(p)
  /\ \E line \in Lines[p] : WriteFd(p, line)
  /\ UNCHANGED <<main, left, sent, rx, received>>

\* antenna_fwrite_fd up to its loop.
SendNotice(p) ==
  /\ Told(p)
  /\ \E file \in Files[p] :
       /\ WriteFd(p, Notice(Len(file)))
       /\ left' = [left EXCEPT ![p] = file]
       /\ sent' = [sent EXCEPT ![p] = Append(@, file)]
  /\ main' = [main EXCEPT ![p] = "file"]
  /\ UNCHANGED <<rx, received>>

\* fopen fails: the call returns status, which is 0.
CannotOpen(p) ==
  /\ Told(p) /\ Files[p] # {} /\ Fails
  /\ UNCHANGED <<main, left, sent, rx, pipe, received>>

\* fread has returned as much as was asked for.
WholeBlock(p) == Len(left[p]) >= BufferSize

SendBlock(p) ==
  /\ main[p] = "file" /\ WholeBlock(p)
  /\ WriteFd(p, SubSeq(left[p], 1, BufferSize))
  /\ left' = [left EXCEPT ![p] = SubSeq(@, BufferSize + 1, Len(@))]
  /\ UNCHANGED <<main, asked, sent, rx, received>>

\* fread has returned less: the loop ends, and what fread did return is not sent.
FileSent(p) ==
  /\ main[p] = "file" /\ ~WholeBlock(p)
  /\ main' = [main EXCEPT ![p] = "ready"]
  /\ left' = [left EXCEPT ![p] = <<>>]
  /\ UNCHANGED <<asked, sent, rx, pipe, failures, received>>

----------------------------------------------------------------------------
\* The receiving thread: check_rx_file, antenna_fread_fd, antenna_read_fd

\* What read returns: up to n bytes, as many as there are.
Upto(p, n) == SubSeq(pipe[p], 1, IF Len(pipe[p]) < n THEN Len(pipe[p]) ELSE n)

Consume(p, n) ==
  /\ pipe[p] # <<>>
  /\ pipe' = [pipe EXCEPT ![p] = SubSeq(@, n + 1, Len(@))]

\* What sscanf finds after F: the size, nothing, or, if the bytes read end
\* there, whatever was in that memory before.
ParsedSizes(bytes) ==
  IF Len(bytes) = 1 THEN {0} \cup {Len(f) : f \in UNION {Files[p] : p \in Program}}
  ELSE IF IsDigit(bytes[2]) THEN {bytes[2]} ELSE {0}

NotNotice(p) ==
  /\ rx[p].at = "notice"
  /\ LET bytes == Upto(p, NoticeLen)
     IN  Consume(p, Len(bytes)) /\ bytes[1] # F
  /\ UNCHANGED <<senderVars, rx, failures, received>>

\* The file is created; if that fails check_rx_file begins again.
ReadNotice(p) ==
  /\ rx[p].at = "notice"
  /\ LET bytes == Upto(p, NoticeLen)
     IN  /\ Consume(p, Len(bytes)) /\ bytes[1] = F
         /\ \/ /\ \E size \in ParsedSizes(bytes) :
                    rx' = [rx EXCEPT ![p] = [Waiting EXCEPT !.at = "data", !.size = size]]
               /\ UNCHANGED failures
            \/ Fails /\ UNCHANGED rx
  /\ UNCHANGED <<senderVars, received>>

\* total_bytes_read < file_size
Incomplete(r) == r.total < r.size

\* fwrite takes all the bytes, or fails after some of them, and the loop goes
\* on without counting any.
CountedAnyway(r, n) == r.total + n  \* mutant: no continue
CountedOnFailure(r, n) == r.total

Store(p, bytes) ==
  \/ /\ rx' = [rx EXCEPT ![p].file = @ \o bytes, ![p].total = @ + Len(bytes)]
     /\ UNCHANGED failures
  \/ /\ Fails
     /\ \E n \in 0..(Len(bytes) - 1) :
          rx' = [rx EXCEPT ![p].file = @ \o SubSeq(bytes, 1, n),
                           ![p].total = CountedOnFailure(rx[p], Len(bytes))]

ReadData(p) ==
  /\ rx[p].at = "data" /\ Incomplete(rx[p])
  /\ LET bytes == Upto(p, BufferSize)
     IN  /\ Consume(p, Len(bytes))
         /\ Store(p, bytes)
  /\ UNCHANGED <<senderVars, received>>

\* read fails: the file stays as it is, and check_rx_file begins again.
ReadFails(p) ==
  /\ rx[p].at = "data" /\ Incomplete(rx[p])
  /\ Fails
  /\ rx' = [rx EXCEPT ![p] = Waiting]
  /\ UNCHANGED <<senderVars, pipe, received>>

\* Then check_rx_file begins again.
AfterFileEnds == [Waiting EXCEPT !.at = "none"]  \* mutant: no goto start
AfterFile == Waiting

FileReceived(p) ==
  /\ rx[p].at = "data" /\ ~Incomplete(rx[p])
  /\ received' = [received EXCEPT ![p] = Append(@, rx[p].file)]
  /\ rx' = [rx EXCEPT ![p] = AfterFile]
  /\ UNCHANGED <<senderVars, pipe, failures>>

----------------------------------------------------------------------------
Next ==
  \E p \in Program :
    \/ Start(p) \/ OpenReturns(p)
    \/ SendLine(p) \/ SendNotice(p) \/ CannotOpen(p) \/ SendBlock(p) \/ FileSent(p)
    \/ NotNotice(p) \/ ReadNotice(p) \/ ReadData(p) \/ ReadFails(p) \/ FileReceived(p)

Spec == Init /\ [][Next]_vars

\* A thread that can go on does; nobody need start a program or send anything.
Fairness ==
  \A p \in Program :
    /\ WF_vars(OpenReturns(p))
    /\ WF_vars(SendBlock(p)) /\ WF_vars(FileSent(p))
    /\ WF_vars(NotNotice(p)) /\ WF_vars(ReadNotice(p))
    /\ WF_vars(ReadData(p)) /\ WF_vars(FileReceived(p))

FairSpec == Spec /\ Fairness

----------------------------------------------------------------------------
\* Properties

TypeOK ==
  /\ main \in [Program -> MainStates]
  /\ left \in [Program -> Seq(Nat)]
  /\ rx \in [Program -> [at : {"none", "notice", "data"}, size : Nat, total : Nat, file : Seq(Nat)]]
  /\ pipe \in [Program -> Seq(Nat)]
  /\ \A p \in Program : Len(pipe[p]) <= PipeSize
  /\ asked \in [Program -> Nat]
  /\ failures \in 0..MaxFail
  /\ sent \in [Program -> Seq(Seq(Nat))]
  /\ received \in [Program -> Seq(Seq(Nat))]

\* fifo_init never leaves both programs waiting for each other: the one with
\* an odd address opens its tx while the other opens its rx.
OpenNeverDeadlocks ==
  (\A p \in Program : main[p] \in {"first", "second"}) => \E p \in Program : CanReturn(p)

\* A file that antenna_fread_fd returns is never shorter than was announced,
\* whatever failed on the way, and longer by less than a block plus what failed
\* calls of fwrite have left in it.
Overshoot == BufferSize - 1 + failures * (BufferSize - 1)
NeverShort ==
  \A p \in Program :
    /\ rx[p].total <= Len(rx[p].file)
    /\ Len(rx[p].file) <= rx[p].size + Overshoot

\* As long as no call fails, the files antenna_fread_fd stores are the files
\* antenna_fwrite_fd was given, in order, whatever the reads return at a time.
Intact ==
  failures = 0 =>
    \A p \in Program :
      LET n == Len(received[Peer[p]])
      IN  n <= Len(sent[p]) /\ received[Peer[p]] = SubSeq(sent[p], 1, n)

\* As long as no call fails, every file that was announced is received.
EveryFileArrives ==
  \A p \in Program : \A n \in 1..SendLimit[p] :
    Len(sent[p]) >= n ~> Len(received[Peer[p]]) >= n \/ failures > 0

=============================================================================
