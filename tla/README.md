# Formal model of the CubeSat communication protocols

This directory holds TLA+ specifications of the protocol code of this
repository, the configurations with which TLC checks them on small instances,
and theorems about them whose proofs TLAPS checks.

    tlc -workers 2 -config MCRdpData.cfg MCRdp.tla     # one run
    tlapm RdpProofs.tla                                # proofs, about a quarter of an hour
    tlapm RdpDataProofs.tla
    tlapm QueueProofs.tla
    tlapm AntennaProofs.tla
    tlapm NodeProofs.tla                               # about a quarter of an hour
    tlapm RoutingProofs.tla                            # Net and Rtable
    tlapm FragmentProofs.tla                           # Sfp and Can
    tlapm SerialProofs.tla

## 1. The system

The repository is a satellite's communication stack and several programs that
exercise it.

| Component | State it keeps | Operations | Talks to |
|---|---|---|---|
| **RDP** `csp_rdp.c` | per connection: state, window (`snd_nxt`, `snd_una`, `snd_iss`, `rcv_cur`, `rcv_irs`, `rcv_lsa`), `closed_by`, `tx_queue`, `rx_queue`, `tx_wait` | connect, accept, send, close, `csp_rdp_new_packet`, `csp_rdp_check_timeouts` | `csp_send_direct` below it; the user's queue `rx_queue`, the accept queue of the socket and the semaphore above it |
| **Connection pool** `csp_conn.c` | `arr_conn[]`: state, type, addresses, callback queue, `sport` counter | new, find, close, enqueue packet, `csp_conn_check_timeouts` | router, user tasks, RDP |
| **User API** `csp_io.c` | none | connect, accept, read, send, sendto, recvfrom, transaction, `csp_send_direct` | connections, routing table, interfaces, promiscuous queue |
| **Router** `csp_route.c`, `csp_qfifo.c` | one or more input queues | `csp_route_work`: timers, duplicate filter, forward, security check, find or create the connection, transport | everything |
| **Ports** `csp_port.c` | `ports[]`, state and socket | bind, listen, get socket | router |
| **Buffers** `csp_buffer.c` | pool; the count of users, which nothing ever makes more than 1 | get, get from interrupt, free, clone | everything |
| **OS layer** `arch/posix/*` | `pthread_queue_t` (ring, count, mutex, two condition variables), semaphores | enqueue and dequeue with timeout, wait, post | everything |
| **Framing** `csp_if_kiss.c`, `csp_if_can*.c`, `csp_sfp.c` | receive state per line or per CAN identifier; offsets of a transfer | send, receive one byte, one frame, one fragment | drivers, router |
| **Routing table** `rtable/`, `csp_iflist.c` | list of routes and interfaces | set, find, load, save | router, `csp_send_direct` |
| **UART programs** `UART/src/client`, `server`, `uart_debug`, **named-pipe program**, **performance test** | a receive thread and a user task | read bytes into a buffer and hand them to the router | libcsp, a serial line or a pipe |
| **Loris protocol** `Loris Communication Protocol/src` | file descriptor of the antenna, Reed-Solomon coder | `antenna_init`, `write`, `read`, `write_rs`, `read_rs`, `fwrite`, `fread`; `fifo_init`, `fifo_read`, `fifo_write` | serial line, named pipes, libcorrect |
| **Serial demos** `Linux Serial Ports` | a line and a buffer | send and receive in turns | serial line |

`libcsp_old/` is a second copy of `libcsp/`, file for file the same.  Third-party
or contentless parts (libcorrect, Waf, CMake files, assets) are left aside.

### How the parts interact

User tasks and the router are separate threads.  A user task calls
`csp_connect`, `csp_send`, `csp_read`, `csp_close`; the router takes one packet
at a time from its queue and, on every turn, looks at the timers of every
connection.  Both change the same `csp_conn_t`: the user task through
`csp_rdp_send`, `csp_rdp_check_ack` and `csp_rdp_close`, the router through
`csp_rdp_new_packet` and `csp_rdp_check_timeouts`.  They meet in three places: the
user's packet queue (the router enqueues, a NULL pointer says "closed"), the
semaphore `tx_wait` (the router wakes a task that waits for the window or for the
SYN/ACK) and the accept queue of a socket.

### What is hard in this code

* two peers, each with two threads, over a link that loses, repeats and reorders;
* sequence numbers of 16 bits that wrap around, with windows in both directions;
* queues of fixed length everywhere, with results that are not always looked at;
* a connection closed by up to three parties (user, peer, timers), freed by the last;
* acknowledgements withheld for back pressure, retransmission, delayed
  acknowledgements and wake-ups that can wait for each other;
* interfaces and buffer allocations that fail half-way through an operation;
* restarts of one peer while the other still has the old connection;
* byte streams read as if one `read` returned one packet.

The list with files and lines is `PROJECT.json`, "hazards".  It has room for the
hazards a property is about and two groups that none is about; the others are:

* buffers: when the clone of a SYN fails nobody frees the packet
  (`csp_rdp.c:193`); `csp_rdp_header_add` is not undone when the clone or `tx_queue`
  fails (`:989`);
* queues: with as many buffers as a connection's queue is long (10 and 10 by
  default) the events of a connection may be full when its packets are not, and
  `csp_udp_new_packet` frees a packet it has queued (`csp_conn.c:87`, `csp_udp.c:33`); module
  `Node` assumes one place more;
* ports: `csp_connect` never returns when every port is taken and the last one
  given lies outside the range of the search (`csp_conn.c:412`);
* semaphores: `csp_bin_sem_post` reads the value and posts in two steps
  (`csp_semaphore.c:145`); `pthread_queue.c:125` looks at a stale `errno` (modelled, section 4);
* KISS: a frame may be stored one byte beyond the buffer's data before the length is looked
  at (`csp_if_kiss.c:93`); a lock not taken within a second leaves the checksum in the
  packet (`:40`);
* routing tables: an entry is linked into the list before it is filled, while the
  router reads without a lock (`csp_rtable_cidr.c:120`); a text is cut at 100
  characters (`csp_rtable.c:36`, modelled, section 12); address 255 with a host mask is an index outside the
  static array (`csp_rtable_static.c:50`);
* the duplicate filter drops an identical retransmission that comes within its
  window of a second (`csp_dedup.c:51`), and RDP sends identical ones;
* the UART programs: a packet too long for the interface is never freed
  (`client.c:236`, modelled); without a buffer the reading thread reads to NULL and
  ends for good (`server.c:278`, modelled); `printf("%s")` of data without a
  terminator prints what earlier packets left in the buffer (`server.c:208`);
* the Loris programs: a `write` that returns -1 is not noticed (`antenna.c:69`), a
  notice that is cut is parsed with old bytes (`:390`), lines and files share a
  stream (`fifo-emulation.c:78`) - all modelled, with properties for runs without
  them; the blocks of `antenna_read_rs_fd` and `antenna_write_rs_fd` have
  different lengths (`:268`), and `READ_MODE_UNTIL` does not end at the end of a
  file (`:200`) - not modelled.

### What makes each component correct

* RDP: what `csp_send` accepts is delivered once, in order, and, when the link
  recovers, at all; a connection slot is freed only when nobody uses it and is
  freed in the end; a user learns that the peer has closed.
* Connection pool: two tasks never get the same slot; a packet is delivered to
  the connection it belongs to; no slot leaks.
* Router and network: a packet reaches whom it is for, once, and never goes
  round for ever.
* Routing table: the most specific route, whatever the order of the calls.
* OS layer: the queue is a bounded channel, nobody sleeps while it could work.
* Buffers: no use after free, no double free, no leak.
* Framing: what is sent frame by frame is received whole or not at all.
* Loris protocol: the file that is read is the file that was written; the two
  programs do not block each other while opening their pipes.

## 2. The modules

| Module | What it models | Composes / refines | Theorems |
|---|---|---|---|
| `Link` | what a connection promises: a queue in each direction | abstract | - |
| `Rdp`, `MCRdp` | two nodes, one connection each, users, routers, the link | refines `Link` | type, slot invariant, release, refinement, custody, window, order of the messages, end of the peer |
| `PthreadQueue`, `Channel` | `pthread_queue.c` step by step, with its mutex and condition variables | refines `Channel`, a bounded channel | type, ring invariant, refinement, no lost wake-up |
| `Antenna` | the Loris programs: opening the pipes, file transfer over a byte stream | - | no deadlock in opening, received length, files intact |
| `Node` | the tasks of one node: buffers, queues with QoS, connections, ports, UDP, transactions | - | buffers, owners of connections, wake-ups, replies |
| `Net` | several nodes: forwarding, duplicate filter, bridge | - | type, no packet taken twice, packets arrive |
| `Sfp` | blobs in fragments | - | type, blobs intact, back into step |
| `Kiss`, `LossyQueue` | frames on a serial line | refines `LossyQueue`, a queue that loses | refinement, back into step |
| `Can` | packets in CAN frames | - | packets intact and delivered |
| `Rtable` | the routing tables, saving and loading | the static table against the list | longest prefix, both tables alike, reloading |
| `Uart` | the programs `client.c` and `server.c` | - | no message twice, back into step |
| `MCParts` | the last seven for TLC | - | - |

What is left for later: `RefusalIsTransient` as a theorem about RDP;
the calls of RDP split at their accesses to shared queues, as `Node` splits those of UDP;
the Reed-Solomon functions of the Loris protocol.

## 3. Module Rdp

`Rdp.tla` models two nodes, the client, which connects, and the server, which
accepts, with one `csp_conn_t` each.  One action is one call of a function of the
source run to its end; what a function sends goes into `net`.

| Model | Code |
|---|---|
| `conn[e]` | the `csp_conn_t` of node e with its `csp_rdp_t`, both packet queues of RDP (`txq`, `rxq`), the user's queue (`rx`) and the semaphore `tx_wait` (`sem`) |
| `net` | segments on their way, a set: a segment may arrive late, after later ones, again after a retransmission, or never (`Lose`) |
| `user[e]` | what the user task is doing: nothing, connecting, waiting in `csp_rdp_send` for the window, between `csp_rdp_send` and `csp_send_direct` (`hand[e]` holds the packet), or holding the connection |
| `router[e]` | `csp_route_work`: `idle` before `csp_conn_check_timeouts`, `ready` for a packet, `flush` inside `csp_rdp_rx_queue_flush` |
| `retry`, `backlog` | the local variable of `csp_rdp_connect`; the accept queue of the server's socket |
| `picks`, `fails`, `reboots` | how often `rand` gave an initial sequence number, a call failed, the client rebooted (bounds) |
| `sent`, `got`, `eof`, `accepts` | history, for the properties only |

| Action | Code |
|---|---|
| `Connect`, `ConnectOpened`, `ConnectRetry`, `ConnectRefused`, `ConnectTimeout` | `csp_connect` and `csp_rdp_connect`, split where it waits on `tx_wait` |
| `Accept`, `Read`, `Close` | `csp_accept`, `csp_read` (with `csp_rdp_check_ack`), `csp_close` |
| `SendBlocks`, `SendWakes`, `SendTimeout`, `RdpSend`, `SendNoBufs`, `SendOut` | `csp_send`: the wait for the window, `csp_rdp_send`, `csp_send_direct` |
| `CheckNothing`, `LostConnection`, `CloseWaitTimeout`, `CheckMessages` | the outcomes of `csp_conn_check_timeouts` and `csp_rdp_check_timeouts` |
| `RstIn...`, `RstOutOfSequence`, `NoSynInClosed`, `SynInClosed`, `SynAckInSynSent`, `HalfOpen`, `DuplicateSyn`, `InvalidSyn`, `OutOfWindow`, `InvalidAck`, `WrongAckInSynRcvd`, `BacklogFull`, `DataInOpen`, `FlushNext`, `HandshakeDone`, `IgnoredInCloseWait`, `AckInCloseWait`, `DropUnknown` | the branches of `csp_rdp_new_packet`, by state and by what arrives, and the search for the connection in `csp_route_work` before them |
| `Lose`, `Reboot` | the link; the client's computer restarts with the server left as it is |

Several functions of the code return a connection and send segments as they go.
Their operators (`SendCmp`, `SendEack`, `CheckAck`, `RdpClose`, `HandleData`, ...)
return a record of the new connection and the segments sent, which an action
hands to `Transmit`.

Abstractions:

* Time is left out: a timer may have expired whenever the code looks at it
  (`due`, `expired`); a run chooses which segments are retransmitted in one round.
* A payload is the pair of the connection that sent it and its number; NULL is
  a payload that no user sends.
* A call to the environment - a buffer, a clone, the interface, the place in
  the accept queue - succeeds, or fails while `MaxFail` allows (`Outcome`).  When it is
  the accept queue that is full (`BacklogFull`), the reset that `csp_conn_close` then
  sends is sent or fails as well.
* The number space has `SeqMod` elements instead of 65536.  Comparisons are the
  code's modular ones.  Where the code compares as `int` (`rcv_cur + 1` for a
  reset) the model does not reduce either.
* Two connections of one run never draw overlapping initial sequence numbers:
  `rand()` makes that unlikely, and the code has no defence against it.
* The third branch for SYN_SENT (`csp_rdp.c:735-740`) cannot be reached and is
  left out: an acknowledgement that is not a SYN/ACK takes the branch before it.
* User and router interleave between calls, and inside the calls that wait or
  flush; races of single instructions inside one call are
  not modelled.

`Link.tla` is the abstract specification: per direction, the sequence of messages
accepted and the sequence delivered, the second always a prefix of the first.
`Rdp!IsQueue` is the refinement: `accepted` is the numbers of the messages
`csp_rdp_send` took, `delivered` what the other user has read or will read from
its queue.

### Properties

| Property | What it says |
|---|---|
| `TypeOK` | types; above all every sequence number stays in the number space |
| `IsQueue` | each direction implements the queue of `Link` |
| `Custody` | an accepted message is with the sender, in the reordering queue or with the user: never acknowledged away |
| `WithinReceiveWindow` | the sender is never more than its window ahead of the receiver, though late acknowledgements move `snd_una` back |
| `RefusalIsTransient` | when `csp_rdp_send` refuses what the window allows because `tx_queue` is full, the next round of the timers makes room |
| `InOrderOnce` | per connection no message twice, out of order or from an earlier connection |
| `PeerCloseIsTold` | a user whose peer has closed has read the NULL packet or finds it in its queue |
| `NoGhostAccept` | `csp_accept` returns no more connections than the client asked for |
| `SlotInv` | state, `closed_by`, socket and the users of a slot agree |
| `ReleasedOnlyWhenUnused` | a slot is freed only when no task holds it and `csp_accept` cannot return it |
| `EventuallyRead` | when the link stops losing, accepted messages are read unless an end closes, and no task waits for the window for ever |
| `ClosedSlotReturns` | a slot closed by its user is freed in the end |
| `InSequenceRstCloses` | an in-sequence reset is not taken for one out of sequence (fails, see below) |

`Custody` and `WithinReceiveWindow` are stated for two ends that agree on the
initial numbers (`Synchronised`): after a reboot they may not, because in SYN_SENT
the code does not compare the acknowledgement of a SYN/ACK with its own number.

`PeerCloseIsTold` holds while the user's queue has room, as in its run; without
room `csp_rdp.c:892` drops the NULL packet, and the user learns of the closing
only when `csp_read` times out.  What the caller of `csp_send` does after a 0 from
`csp_io.c:279`, where the message is queued for retransmission all the same, is left to
the caller: sending the same packet again is not modelled.

### Runs and bounds

| Run | Bounds | Question |
|---|---|---|
| `MCRdpData` | window 2, 3 messages, 2 segments in flight each way, 16 numbers, both ends wrap around, user's queue 5, delayed acknowledgements off | reordering, EACK, wrap-around: queue, custody, window |
| `MCRdpFaults` | the same with 1 segment in flight each way, delayed acknowledgements, one failing call, `tx_queue` as short as the window | half-done operations, timers, a full `tx_queue` |
| `MCRdpClose` | window 1, 1 message, user's queue 3, 2 segments in flight each way, both users may close, all timers | closing in every order |
| `MCRdpReboot` | as before with 1 segment in flight each way, 1 message per connection, one reboot, one failing call, fast close, two server connections | half-open connections, slots |
| `MCRdpLive` | window 1, 2 messages, 2 segments in flight each way | progress of the data transfer, with a task that waits for the window |
| `MCRdpCloseLive` | window 1, 1 message, 1 segment in flight, both close | progress of the closing |
| `VRdpCustody` | window 2, 6 messages, user's queue 5 | violated, see 15 |
| `VRdpRstWrap` | window 1, both ends wrap around | violated, see 15 |

A window of 2 is the least that has a gap, an EACK and a reordering queue with
something in it; 3 messages are the least where a message beyond the window is
sent while an older one is missing.  The user's queue must exceed twice the
window, or `csp_rdp_check_ack` never acknowledges anything: 5 and 3 are the
least queues for windows of 2 and 1.  With delayed acknowledgements off and a queue of 5,
`csp_rdp_check_ack` sends nothing after an enqueue either (a place is taken), so in
`MCRdpData` the sender hears of EACKs only, which answer early and repeated
segments; acknowledgements after a `csp_read` and from the timers belong to `MCRdpFaults` and
`MCRdpLive`.  In `MCRdpLive` the second message meets a closed window: `csp_send` waits
and is woken by `csp_rdp_check_timeouts`.  `MCRdpReboot` has one message per connection: it is about
segments that are repeated or of an old connection, not about the order within one.

In `MCRdpFaults` `tx_queue` has as many places as the window, the
case in which `csp_rdp_send` may find it full: acknowledged segments stay in it until
`csp_rdp_check_timeouts` (`SendNoBufs` fires).  Nothing in the code compares
`rdp.window_size` with `csp_conf.rdp_max_window`; with a window beyond it the refusal
would be what limits the sender, which is outside `RefusalIsTransient`.

16 numbers are the least power of two
above the widest comparison with a window of 2 (`snd_una - 1 - 2 * window` to
`snd_nxt - 1`, and its mirror image), 8 with a window of 1.  `NetCap` bounds the
segments in flight to one node: a node that would send more waits, which removes
interleavings, and for liveness calls for the assumption on the link below.  Deadlock is not checked (`CHECK_DEADLOCK FALSE`) where
users may close for good or the bound on failing calls may end a run.

### Fairness

`FairSpec` assumes of the tasks what the scheduling of the code gives them:

* A user task goes on when it need not wait: a `csp_connect` that was answered returns,
  `csp_accept` takes a connection, `csp_read` a message; a sender that waits for the
  window and was woken looks at it again (`Resumes`): weak fairness.  `SendOut`, the
  call of the interface, is strongly fair, because the bound `NetCap` disables it for a while
  where the code does not.
* The router runs in a loop with a timeout (`csp_route.c`, `csp_qfifo_read` with
  `FIFO_TIMEOUT`): weak fairness of its look at the timers (`CheckTimeouts`), of the
  flush it is in, and of a timer that stays expired until it looks (`LostConnection`,
  `CloseWaitTimeout`).  A single turn may come too early for a timer, but again and
  again a round finds everything due: strong fairness of `ResendAll`.
* The link holds nothing back for ever: again and again nothing is on its way to a node
  (`LinkDelivers`), because it arrived or was lost.  Without that a segment that never
  arrives would, under `NetCap`, keep the retransmissions off the link.  `packet_timeout`
  and `ack_timeout` are longer than the way of a segment, or RDP would do nothing but
  retransmit.  That nothing is lost any more is no part of the fairness: it is the hypothesis
  of `EventuallyRead`.

`Connect`, the first call of `csp_send` and `Close` have no fairness: a user need not do anything.

## 4. Module PthreadQueue

`PthreadQueue.tla` models the queue on which every queue of libcsp rests, at the
grain at which threads can interfere.

| Model | Code |
|---|---|
| `buffer`, `items`, `in`, `out` | the fields of `pthread_queue_t` |
| `mutex` | who holds `queue->mutex` |
| `pc[t]`, `op[t]`, `buf[t]` | where thread t is, in which function, and its `value` or `buf` argument |

| Action | Code |
|---|---|
| `Call` | entry of `pthread_queue_enqueue` or `pthread_queue_dequeue` |
| `Lock`, `Wait`, `Spurious` | `pthread_mutex_lock`, and the loop around `pthread_cond_(timed)wait` |
| `Expire`, `LockExpired` | the time of a wait is up; the thread gets the mutex back and fails, or goes round the loop because `errno` is still `EINTR` from an earlier call (`pthread_cond_timedwait` returns its error and leaves `errno` alone) |
| `Copy`, `Count` | the `memcpy`, then `items` and `in` or `out` |
| `Unlock`, `Notify` | `pthread_mutex_unlock`, and after it the broadcast |

Copying and counting are two actions although the mutex makes them one: that it
does is what the refinement shows.  Every wait may time out, so a call with
`CSP_MAX_TIMEOUT` is one that does not take `Expire`.  Creating and deleting the
queue, `pthread_queue_items` and a clock that fails are not modelled.

`Channel.tla` is the abstract specification: a bounded channel; an enqueue takes
effect when it counts, a dequeue when it copies, a call that fails never.

| Property | What it says |
|---|---|
| `TypeOK` | types; `items`, `in` and `out` stay in range while the ring wraps around |
| `IsChannel` | every step is a step of `Channel` or a stutter: nothing lost, repeated or out of order |
| `NoLostWakeup` | a thread that sleeps although it could work has a thread on its way to the broadcast that wakes it |

The run `MCPthreadQueue` has 3 threads, 2 places and 2 values, with symmetry in
threads and values (no liveness is checked there).  Three threads are the least
with two sleepers and one that wakes them, two places the least with a ring that is
neither full nor empty; full, empty and wrapped around all occur.

## 5. Module Antenna

`Antenna.tla` models two programs of the Loris protocol joined by two named pipes,
as `fifo-emulation.c` runs them.  `antenna_fwrite_fd` has no caller in the
repository; the model lets the main thread call it where it writes typed lines.

| Model | Code |
|---|---|
| `main[p]`, `left[p]` | the main thread: in `fifo_init`, between two commands, or in `antenna_fwrite_fd` with the rest of the file |
| `rx[p]` | the thread of `check_rx_file`: waiting for a notice, or with `file_size`, `total_bytes_read` and the file |
| `pipe[p]` | the bytes on their way to p |
| `sent`, `received`, `asked`, `failures` | history and bounds |

| Action | Code |
|---|---|
| `Start`, `OpenReturns` | `fifo_init`: two `open` calls, each of which waits for the other program |
| `SendLine` | the loop of `main` with `antenna_write_fd` |
| `SendNotice`, `SendBlock`, `FileSent`, `CannotOpen` | `antenna_fwrite_fd` |
| `NotNotice`, `ReadNotice`, `ReadData`, `ReadFails`, `FileReceived` | `antenna_fread_fd` with `antenna_read_fd` |

A byte is a number: F, another letter, or a digit that stands for all the digits
of a size.  A write to a pipe is atomic and waits for room, a read returns what
there is up to its length.  Calls to the system may fail while `MaxFail` allows:
a failing `write` goes unnoticed, as in the code; a short `fwrite` leaves bytes in
the file that are not counted; a notice of which only the F is there is parsed
with whatever the buffer held.  A failing read of a notice changes nothing and is
left out, as are an `open` that fails, a program that exits (end of file), the
serial line, `READ_MODE_UNTIL` and the Reed-Solomon functions.

| Property | What it says |
|---|---|
| `OpenNeverDeadlocks` | the programs never wait for each other in `fifo_init` |
| `Intact` | without failures the files received are the files sent, in order |
| `NeverShort` | a received file is at least as long as announced whatever fails, and its excess is bounded |
| `EveryFileArrives` | without failures every announced file is received |

| Run | Bounds | Question |
|---|---|---|
| `MCAntenna` | blocks of 3 bytes, files of 0, 1 and 2 blocks, one program sends 2 files and the other types a line, pipes of 5 bytes, 2 failures | the properties above |
| `VAntennaTail` | a file of 4 bytes, no failures | `Intact` is violated, see 15 |

Two files in a row are the least with a notice that a read of data could swallow;
a pipe of 5 bytes holds a notice and a block, so that reads find one write, two, or
part of what is coming.  Deadlock is not checked since both programs wait for ever
when nothing more is typed.

`MCAntenna` keeps to files of whole blocks, and to files in one direction and lines
in the other.  Neither is enforced by the code: with a tail `Intact` fails, and a
line just before a notice is read together with it.  Fairness is weak for every
thread that need not wait for anything; starting the programs and sending are not
fair.

## 6. The parts around RDP: module MCParts

The next seven modules model parts that share calls with each other and with RDP,
but no state that their properties are about; `Node` holds what tasks do share.
`MCParts.tla` extends all of them: a behaviour of the run `MCParts` chooses one part
in its initial state and is a behaviour of that part, so the run says of each what
a run of its own would.  `Fairness` is that of `NodeFairness` and `NetFairness`, for the part chosen.
Deadlock is not checked, since in each part the traffic is bounded and comes to an
end.  The run has about 600 000 states.

## 7. Module Node

One node that talks to itself over `csp_if_lo.c`: clients that call
`csp_transaction`, the router, and a server that accepts, reads, answers with
`csp_service_handler` and closes.  The build is the one with QoS, without RDP.

| Model | Code |
|---|---|
| `free`, `content` | `csp_buffers`, and what the packet in a buffer says |
| `qfifo`, `qfifoEvents` | the router's queues, one per priority, and their events |
| `conn[s]` | `arr_conn[s]`: state, type, ports, `socket` (`post`), packet queues, events |
| `sport`, `sportLock`, `lastGiven` | the last source port, its lock, `csp_conn_last_given` |
| `client`, `server`, `router` | where the task is, with its local `conn` and `packet` |
| `accepting` | the queue of the socket |
| `timedOut` | history |

An action is what a task does up to its next access to something others change:
`csp_qfifo_write` is `ClientSend` (or `Serve`) and `ClientSendEvent` (`ServerSendEvent`),
`csp_read` is `ClientRead` and `ClientReadPacket`, `csp_conn_new` is `Connect`,
`ClientFlushPackets` and `ClientFlushEvents`, `csp_conn_close` is `ClientClose` and
`ClientCloseEnds`, between which `conn_lock` is held (`Locked`), and the router's turn is
`RouterRead`, `RouterFind`, (`RouterFlushPackets`, `RouterFlushEvents`,) `RouterPut`,
`RouterEvent` and `RouterPost`.

The comment at `csp_conn.c:272` says that nobody else has a reference to a new connection.
The router may have one: it found the slot while it was open for somebody else
and was delayed.  The model has this step, and a packet of an earlier call can
indeed reach the slot's next user, after a read has timed out.

| Property | What it says |
|---|---|
| `BufferHeldOnce` | a buffer is in one place: free, in one queue, or with one task |
| `SlotOneOwner` | an open slot belongs to exactly one of socket, client, server, router, accept queue; a closed one to nobody |
| `FifoWakes` | every packet in the router's queues has an event, or its writer is about to add it |
| `ReplyIsOwn` | a client reads the answer to its request, until a read times out; then at worst one of a call that is over |
| `PoolRefills` | when all calls are over, all slots and all buffers come back, but for packets that lie in a closed connection until its next user flushes them |

Bounds: two clients, one with two calls, one priority, two buffers, three slots of
which the socket has one, a backlog of one, two source ports.  Two buffers and two
free slots for two clients and the server make both run out; two ports make the
search wrap around.  `NodeAssumption`: the router's queue holds all buffers, a
connection's one more than all, and there are ports for all clients.  With less
the code loses what the properties say (section 1, "queues" and "ports"); the
defaults are 10 buffers, 10 per connection and 25 in the router.  Fairness is
weak for each task: it runs, and `csp_read` returns when its time is up.

## 8. Module Net

`Net.tla` models nodes on shared links: of `csp_route_work` what decides about a packet - the duplicate filter, whether it
is for this node, the route, the split horizon - and the loop of `csp_bridge.c`.
What a node sends on a link reaches all others on it.  Links, full queues and
interfaces may lose packets (`Lose`), windows of the filter may run out (`Expire`).

| Property | What it says |
|---|---|
| `AcceptedOnce` | a node takes a packet once while the window lasts, along however many ways it comes |
| `NetDelivers` | filter, horizon and copies together do not drop the last copy of a packet |
| `DiesOut` | loops end |

Bounds: two links, a host on each, a router and a bridge on both - a loop, with
two ways from host to host - and a packet and a broadcast, a filter of two entries, one
loss, one window that runs out.  `Len(NetPacket) <= DedupCount` says that no
more different packets are on the way than the filter remembers (16).  With
more of them, or with two bridges in parallel, packets may go round for ever:
a bridge has no filter and the header no hop count.  Fairness: each router and each bridge runs.
Of the checksum the filter compares it is assumed that it tells packets apart.

## 9. Module Sfp

One sender and one receiver on a connection, one action per turn of the loops of
`csp_sfp_send` and `csp_sfp_recv`.  Buffers, sends, `csp_malloc` and reads may fail, a
connection without RDP may lose packets, a packet that is no fragment may come in
between.  Fragments carry offset and total size, and not the number of their blob.

| Property | What it says |
|---|---|
| `BlobsIntact` | what is returned is a blob that was sent, if no packet was lost or only one fault happened |
| `BlobsResync` | at most one blob after a spoilt one is lost |

Bounds: blobs of 4, 4, 5, 2 and 4 bytes in fragments of 2 - equal sizes in a row, which
are the ones that can be mixed up, and a last fragment that is shorter; three packets on the way; two
losses and two failures.  With two losses blobs of equal size can be mixed: the end of one
and the beginning of the next lost in the right places.

## 10. Modules Kiss and LossyQueue

`Kiss.tla` models two tasks that send through one interface and the receiver's
state machine, byte by byte.  `tx_func` is one call per piece, so that without the
mutex the pieces of two frames mix.  `Noise` drops, changes or inserts a byte.

A byte is a framing byte or `"DATA"`; the header is one byte and so is the
checksum, which is right for the data of the frame it was sent with and for no
others (`CrcOk`).  A lock that is not given within a second is not modelled.

| Property | What it says |
|---|---|
| `KissResync` | a frame the line left untouched is delivered, if the one before it was untouched |
| `KissIsLossyQueue` | the interface implements `LossyQueue`: only data that were sent, in order, at most once |

`LossyQueue.tla` is the abstract specification of a link layer without
retransmission.  Bounds: three frames with every framing byte in their data, one of
the largest size, two disturbed bytes, one missing buffer, two bytes on the line.

## 11. Module Can

Tasks of one or several nodes send packets as CAN frames to one receiver with
the elements of `csp_if_can_pbuf.c`.  `cfp_frame_id++` is two actions
(`ReadIdent`, `WriteIdent`), so that two tasks can get the same identifier.  A frame is received when it is
sent, since the bus keeps order, or lost.  An element may expire whenever a new one is needed.

| Property | What it says |
|---|---|
| `CanIntact` | what is delivered is one packet, if identifiers are not used again, or no two tasks share one and at most one frame is lost |
| `CanDelivers` | a packet that lost nothing and shared its identifier with nobody is delivered, whatever happened to others |

Bounds: two tasks of one node and one of another, packets of 10, 10, 2 and 11 bytes
(two frames, two, one, too long for the buffer), identifiers modulo 2, two
elements, two faults.

## 12. Module Rtable

The list of `csp_rtable_cidr.c` and the array of `csp_rtable_static.c` see the same
calls of `csp_rtable_set`, `csp_rtable_clear` and `csp_rtable_free`.  The search of the list is the
loop of `csp_rtable_find` as a recursive function over its entries.

A saved table is the sequence of its entries, each with the number of characters before it,
and with a mask that is left out where the code leaves it out.  `csp_rtable_parse` copies the
first 100 characters of a text (`TextMax`).  An entry behind them is not read; of one
that the cut goes through the front part is read: up to the name it is no entry, and loading
stops; otherwise it is the route that this part of name and via spells, which may be another
interface or via than was saved (`Spelled`, a constant, for the interfaces of the node).
`TextAssumption` says of the names that they are read whole as what they are: at most
14 characters, no space, no comma.  The buffer given to `csp_rtable_save` is long enough.

| Property | What it says |
|---|---|
| `FindIsLongestPrefix` | what the loop finds is the last of the entries with the longest mask |
| `StaticAgrees` | with host routes and a default route only, both tables route alike |
| `ReloadKeepsRoutes` | saving a table whose text is read whole, clearing it and loading it changes no route |

Bounds: four addresses (masks 0, 1, 2), two routes, one of them with the interface of the
other and a via address, tables of up to three entries: all of them, in every order.  18
characters are read, so that some of the texts with three entries fit and some do not; of those that do not
some lose a route and some are misread, which is why the property is for texts that fit.

## 13. Module Uart

`client.c` sends lines to `server.c` over a named pipe or a serial line.
`fifo_tx` writes a packet as it lies in memory, and on a serial line a line feed behind it;
`fifo_rx` takes whatever a read returns for one packet.

| Model | Code |
|---|---|
| `entered`, `session`, `clientFree` | the client's loop: line, connection, buffers |
| `pipe` | the bytes on the way |
| `reading`, `hasBuffer`, `serverFree`, `fifo` | the server's reading thread, its `packet`, the buffers, the router's queue |
| `isOpen`, `rxq`, `pending`, `serving` | the server's connections and its main loop |
| `readOut`, `crowded`, `shut` | history |

What the router makes of bytes that are no header is left open: dropped, or any connection there may be.

| Property | What it says |
|---|---|
| `UartIntact` | no message is read twice; all are whole if each had a pipe to itself |
| `UartResync` | a message that has the line to itself gets through whatever came before, unless the server closes its connection on it or its reading thread has ended |

Bounds: a header of 2 bytes and reads of 4; lines of 3, 5, 1, 5 and 1 bytes: one that
fits the interface but not the read, two that do not fit the interface, two that fit
both; 3 buffers in the client and 2 in the server, so that both run out.

### Not modelled

Python bindings and examples, drivers, other operating systems, start-up and
printing; cryptography and checksums as arithmetic; the promiscuous queue; I2C and ZMQ; the answers of the
services; `uart_debug.c`, the named-pipe and performance programs, which repeat
`fifo_tx` and `fifo_rx`; the serial demos.  `libcsp_old/` is the same source as
`libcsp/`.  These are most of the repository's lines; what is modelled is where
it keeps state that several tasks or nodes share.

## 14. Proofs

`RdpProofs.tla` proves for every window, queue length, number of messages,
capacity and number of failures (`SeqMod` even, `Window` and the rest natural
numbers, see the named assumptions of `Rdp`):

* `TypeCorrect`: `Spec => []TypeOK`.  A lemma for every operator that returns a
  connection and segments says that its result has their types; a lemma for
  every action follows; the theorem combines them.
* `SlotCorrect`: `Spec => []SlotInv`.  Freeing is decided from `closed_by`, `state` and
  `socket` by code in three functions; whether the user is done is a fact about
  other variables.  `SlotInv` states how they agree in each of the combinations
  that occur and is inductive relative to `TypeOK`: data transfer leaves the four
  fields alone (`SameSlot`), the handshake and the closing change them together.
* `ReleasedCorrect`: `Spec => ReleasedOnlyWhenUnused`.  A slot that is not open
  has, by `SlotInv` in the next state, a user that is done.

It goes on to the transfer of data on a connection that stays.  The theorems
`CustodyCorrect`, `WithinReceiveWindowCorrect` and `IsQueueCorrect` have the form
`Stays /\ NewIss /\ Ample => (Spec /\ []FlushFindsRoom => ...)` and state `[]Custody`,
`[]WithinReceiveWindow` and `IsQueue`, the refinement of `Link`.  Loss, repetition,
reordering, retransmission, delayed acknowledgements, failing calls, handshakes that
fail or are refused and sequence numbers that wrap around are all in them.  The hypotheses:

* `Stays`: no user closes, no connection times out, no computer restarts
  (`Closers = {}`, `~ConnTimeouts`, `MaxReboot = 0`).  These are what `Link` is about:
  its queues have no end.  What happens to messages when a connection does end is
  the subject of `InOrderOnceCorrect` and `PeerCloseCorrect`.
* `NewIss`: each end draws an initial number, and the server does not draw its first
  one again.  It may draw again, when its backlog was full and a late SYN comes; with
  the same number the acknowledgement of the old handshake would end the new one.
* `Ample`: the messages of one direction are at most half as many as the numbers.
  Messages further apart than that cannot be told apart by `csp_rdp_seq_before` and
  `csp_rdp_seq_between`, which compare 16-bit numbers.  A longer connection is safe only
  if no segment outlives half a turn of the numbers, and the model has no clock.
* `FlushFindsRoom`: when `csp_rdp_rx_queue_flush` has a next segment to move, the
  user's queue has room.  It is needed: `VRdpCustody` violates `Custody` where it fails.
  `RoomCorrect` proves it from the other hypotheses if all messages fit in the queue
  (`AllFit`), and then the three theorems depend on constants only.  `Stays`, `NewIss`,
  `Ample` and `AllFit` are true of the constants of `MCRdpData` and `MCRdpFaults`.

None of the properties is inductive.  The invariant is `StayInv`, a disjunction of three
stories.  `Agree` is the normal one.  It says of each end (`EndOK`) what its own
fields have to do with each other (`Own`): `snd_nxt` with the number of messages sent,
`rcv_cur` with what the user has read and finds in its queue, each stored segment's number
with its message; and what they have to do with the other end (`Across`): `snd_una` is behind a
message that the peer has, the sender is at most a window ahead, and a message that the peer
neither has nor stores is in `tx_queue`.  It says the same of every segment in flight or in
the hands of a user (`SaidOK`): its number is that of its message, and it acknowledges
nothing that its sender does not have, or store, by now.  That is what makes late segments
harmless: what an end has only grows (`Later`), so an acknowledgement that was true
when it was sent is true when it comes, however late.  `Ample` is where a number that was
true becomes the only one it can be.  `Broken` is a connection for which the socket's
backlog had no room: the server has given it up while the client may still take it to be
open, and no message gets past the handshake.  `Failed` is a client that could not send its
SYN.  For each handler there is a lemma that it keeps `EndOK` of both ends and sends only what
is `SaidOK`.

For the refinement, `Gets` says what every action does to the messages a user has: none,
or the next one.  A step of `csp_rdp_send` is a `Send` of `Link`, a step that puts a segment
in the user's queue is a `Deliver`, and all others are stutters (`LinkMaps`).

`RdpDataProofs.tla` has the proofs in which connections do end:

* `InOrderOnceCorrect`: `NumbersApart => (Spec => []InOrderOnce)`.  The receiver
  knows a message by its 16-bit number alone, so the invariant (`DataInv`) says
  which number every message of a connection has, wherever it is - in `tx_queue`, on
  its way, in the reordering queue - and that what the user was given is what lies below
  `rcv_cur`.  A segment that was repeated or delayed is then either below `rcv_cur`, and
  dropped, or the message its number says.  `NumbersApart` is a hypothesis about the
  constants: two connections draw initial numbers so far apart that their messages
  have no number in common.  It is true of the values of the runs; the code
  has no other defence than `rand()`.
* `PeerCloseCorrect`: `Spec /\ RoomWhenClosed => []PeerCloseIsTold`.  `RoomWhenClosed`
  says of every step in which an open connection enters CLOSE_WAIT that the user's queue
  has room.  It holds in the runs, whose queues are longer than the windows, and it
  is needed: `csp_conn_enqueue_packet` drops the NULL packet when there is none,
  and `discard_close` does not look (`csp_rdp.c:887`).
* `NoGhostAcceptCorrect`: `NumbersApart /\ StartsApart => (Spec => []NoGhostAccept)`.
  The server cannot tell a SYN that comes twice, or that the client sent before it
  restarted, from a new one: it answers each, and counts on the third segment of the
  handshake.  So the property does not follow from anything one endpoint knows.  The
  invariant (`GhostInv`) says that there are two sets of connections the server has
  begun: `A`, those whose SYN/ACK the client has taken, no more than it has called
  `csp_connect`, and `D`, those that have passed the handshake, no fewer than
  `csp_accept` has returned or will return; and that `D` is part of `A`, since
  every segment that can end a handshake - in flight, in `csp_send`, or to be composed -
  acknowledges a beginning in `A` or no beginning at all (`Vouches`).  What the client
  may acknowledge is `rcv_cur`, so `StartsApart` is a hypothesis about the constants: the server
  draws no initial number again, and none that is the number of a message of its own.
  With the same number twice, the acknowledgement of an old handshake that comes late
  ends a new one.

`NodeProofs.tla` proves for any number of clients, calls, buffers, priorities and
connections that `NodeAssumption` allows: `NodeInvCorrect` (`NodeSpec => []NodeInv`), and
from it `BufferHeldOnceCorrect`, `SlotOneOwnerCorrect`, `FifoWakesCorrect` and
`ReplyIsOwnCorrect`.  None of the four is inductive, and neither are any three of
them: that a packet is not lost needs that no queue overflows, which needs a
bound on the events of a connection, which needs to know who may fill it, which is
whoever owns the connection.  `NodeInv` says all of it:

* `Locks`, `Flags`: one task holds `conn_lock`; a connection whose socket has not been told
  of it is the one the router is working on;
* `Owned`: a slot is of exactly one task, or closed; `Held`, `Queues`: a buffer is in exactly one
  place, once;
* `Bounds`: the events of a connection exceed its packets by at most one, also when the
  router stores a packet and its event into a connection that is being flushed, closed and given
  to somebody else in between; while a client opens a connection the packets that can
  still come to it are counted (`InFlight`);
* `FifoWakes`;
* `ConnIds`, `PacketIds`, `Mine`: different connections of clients have different ports, what
  the server's connections hold is for them, and the packet of a call that goes on
  is not in another's hands;
* `NoTimeout`: until a `csp_read` times out there is one packet per call, the router is
  never late for a connection, and no connection has an event without a packet.

For each conjunct there is a lemma that a step keeps it, from lemmas that say what each of
the 25 actions does (`...Is`).

`QueueProofs.tla` proves for any threads, values and length: `RingCorrect` (the
inductive invariant `Inv`: the mutex has one holder, `in`, `out` and `items` agree,
and what was copied and not yet counted was copied in the right place),
`TypeCorrect`, `ChannelCorrect` (each step maps to a step of `Channel` or a stutter:
`Copy` of a dequeue to `Take`, `Count` of an enqueue to `Put`, a failing return to
`GiveUp`) and `WakeupCorrect` (the counters are changed only by a thread that is on its way
to the broadcast, and it stays on its way until it has woken all sleepers).

`AntennaProofs.tla` proves for all files, sizes and numbers of failures:
`TypeCorrect`, `ShortCorrect` (`NeverShort`, from the inductive `CountedInv`: the count
is at most the file, and the file exceeds it by at most a block less a byte per
failure) and `OpenCorrect` (`OpenNeverDeadlocks`, for every pair of addresses of
which one is odd).  `IntactCorrect` proves `Intact` under two assumptions about what is sent,
both true of the values `MCAntenna` checks.  `WholeFiles`: files are whole blocks, and their
size is one digit (`VAntennaTail` shows what a tail does).  `FilesOrLines`: no lines are typed
at a program that sends files, and no typed line has an F, the byte a notice begins with.
The invariant `IntactInv` cuts the pipe into notices and blocks without recursion: a
function `at` gives, for every file not yet received, the place of its notice, before,
in or behind the pipe (`Stream`).  `ReaderOK` says that the pipe begins with what the receiving thread
expects, `SenderOK` that `fread` has the end of a file left.  A read returns what is there
up to its limit, and may run into what follows; that it returns one notice
(`NoticeFirst`) or one block of the right file (`BlockFirst`) is where the blocks being whole
enters.

`RoutingProofs.tla` proves about `Net`, for every topology, route, number of packets and loss:
`NetTypeCorrect`, and `AcceptedOnceCorrect` (`AcceptedOnce`).  That a node has taken a
packet at most once does not follow from the last step alone: it needs that a
packet once taken is still in the ring when a copy comes.  The inductive
invariant says, for a node whose windows have not run out, that the ring is
filled from 0 up to `csp_dedup_in` with different packets (`Filled`) and that a
packet taken is in it once and has been counted once (`Taken`).  That the ring never
writes over a packet that may still come is a pigeonhole: a ring that is full of
different packets holds them all, so whatever comes next is a duplicate; this is
where `Len(NetPacket) <= DedupCount` enters.

`NetDeliversCorrect` proves `NetDelivers` where the routes lead somewhere, which is
the condition `RoutesLead`: every set of links that has the link a packet is first sent on,
and with a link all those that the nodes on it pass the packet on to, has a link to each
node the packet is for.  It speaks of routes and bridges only, not of filters, and is
true of the network of `MCParts`.  The invariant `DeliverInv` says that there is a set of links on
which the packet has been sent: who is on one of them has it in a queue or is done with it, and who
has it in its filter is done with it (`Carried`).  The set grows with each hop.  So a node
that drops a packet as a duplicate, or for the split horizon, drops what its links have already had.

About `Rtable` it proves, for any number of bits, interfaces and entries, `FindCorrect`, `StaticCorrect`
and `ReloadCorrect`.  The search and the reading and writing of a table are loops, in the
model recursive functions on the numbers of turns.  An invariant of such a loop is
shown for a set, by taking the least number at which it fails
(`LeastElement`, `Induction`): of `csp_rtable_find`, that the choice after i entries is the last of
those with the longest mask among the first i.  `StaticInv` adds to the type of the
table that, while all entries are simple, the array holds for each host and for the
default route what the list has; `RoutesInv` that every entry of the list is one that
`csp_rtable_set` accepts, so that reading its line back sets the same entry.  `ReloadCorrect` is for
any number of entries whose text has at most `TextMax` characters: each line ends within the text
(`EndsBy`), so that what is read of it names its route (`WholeRead`).  Of longer texts it says nothing.

`FragmentProofs.tla` proves about `Sfp`, for all blobs, sizes of fragments and numbers of faults
`SfpTypeCorrect` and `BlobsIntactCorrect` (`BlobsIntact`).  That the receiver holds the
beginning of one blob is not inductive: a fragment is taken for its offset, and
it does not name its blob.  The invariant follows the fragments back to the
sender: on the way each one begins a blob or goes on where the one before it
ends (`Linked`); what comes next, if it fits the receiver's offset, is of the
receiver's blob (`NoMix`); and as long as there was no fault what has been begun is
going on (`Unbroken`).  A lost fragment breaks the last part and needs it: the
fragment behind the lost one does not fit, because its offset has moved on.
After two faults one of them a loss, `BlobsIntact` claims nothing.  `BlobsResyncCorrect` (`BlobsResync`)
holds for any number of faults, and needs another invariant, `ResyncInv`.  Its part about the
connection (`Stream`) says of the blobs that are unspoilt that their fragments follow each
other without a gap up to the end of the blob (`Complete`), and that an unspoilt blob sent later than a
fragment on the way is on the way itself (`NoGap`); so the fragment that comes next is the next of
the same blob, or begins a blob, and if the blob before that one is unspoilt it has just ended
(`AfterHead`).  Its part about the receiver (`InPlace`) says what it has when a byte of a blob comes
next (`Ready`): nothing at the first byte of a blob behind an unspoilt one; at a later byte of an
unspoilt blob all the bytes before it, or nothing, and nothing only if the blob before is
spoilt; and nothing at the end.  Then the fragment fits (`NextIsTaken`).

`SerialProofs.tla` proves about `Kiss`, for any tasks, packets and noise, `KissRefines`: the interface
implements `LossyQueue`.  `KissLock` maps to `Put`, a delivery of `RxEnd` to `Get` of the
frame whose checksum was received, every other step to a stutter.  The
invariant needs the mutex (`Mutex`: one task sends, and it sends the frame started
last), from which the checksums come to the line in the order of the frames, and
keeps that order (`Ordered`): last delivery, checksums in the receiver's buffer,
checksums on the line, checksums not yet sent.  No amount of noise makes or
repeats a checksum, which is the assumption in the model of the line.

`KissResyncCorrect` proves `KissResync` with `ResyncInv`.  It gives every byte on the line that
belongs to an untouched frame its place in that frame (`Placed`: the bytes follow each
other without a gap, and the last of them is followed by what the task that holds the
mutex hands over next, `Coming`), and says what the receiver must be like when the
first byte on the line comes (`Tuned`).  Inside an untouched frame it is in the frame's
mode, whatever the state in which it met the frame's first byte (`Settles`), or drops
bytes until the end; behind another untouched frame it has all the bytes
so far (`Follows`), because the end of that one left it between two frames
(`InStep`).  A receiver inside a
broken frame takes the start of the next frame for its end, drops that frame's bytes and
takes its end for a start; it is then in step, because an end with nothing before it
leaves it started.

About `Uart` it proves, for all messages, sizes of packets and numbers of buffers,
`UartIntactCorrect` and `UartResyncCorrect`.  `UartInv` says where a message can be
(`InOnePlace`): its first byte in the pipe, a packet that begins with it in one queue,
or what was read, in one of these and once.  A packet is taken for the n-th message
only with that message's first byte, and there is one of these; so nothing is read
twice however the reads cut the bytes.  `Undisturbed` follows a message that has the line to
itself: it is the whole of the pipe, then a whole packet in a queue, then read.

About `Can` `FragmentProofs` proves for any tasks, lengths, identifiers, elements and losses
`CanIntactCorrect` (`CanIntact`, from the inductive `CanInv` of `CanInvCorrect`).  A later
frame does not say where its data belong: it names an identifier and how many
frames remain.  That it goes on where the element ends takes arithmetic
(`CountsAgree`: counts of 2 bytes plus a multiple of 8 that leave the same number
of frames are equal), and that the element is for the packet of the task that
sends takes one of the two assumptions.  With different identifiers it follows
from the identifiers (`SameIdentSamePacket`).  With identifiers used again it
needs that a new packet's first frame replaces an old element of its identifier
(`Matched`), unless that first frame is the one that is lost; and then there was no
old element, because before the first loss every element has a task that goes on
with it (`Alive`).
`CanDeliversCorrect` proves `CanDelivers` from `CanDeliverInv`, on top of `CanInv`: two tasks of
a node that send with one identifier are recorded as a clash, an element holds what a task has
sent of a packet that is `Clear` (it lost nothing and shared its identifier with nobody), and a
`Clear` packet that nobody sends any more has got through.  The other packets keep
their frames out of that element because their identifiers differ (`ClearAlone`, `MoreLeaves`), and a
first frame that is given the element of an incomplete packet breaks that packet off, which
counts as a hit (`BeginTakes`).

Only checked by TLC: of RDP `RefusalIsTransient`.  Acknowledged segments and copies of SYN/ACKs
stay in `tx_queue` until the next `csp_rdp_check_timeouts`, so what a full `tx_queue` holds
depends on how much of either can come between two of its calls; counting the two
apart for every window is left out.  Out of the prover's reach is liveness
(`EventuallyRead`, `ClosedSlotReturns`, `EveryFileArrives`, `PoolRefills`, `DiesOut`).

## 15. Where the code and its documentation disagree

* `VRdpCustody`: `csp_rdp_rx_queue_flush` ignores that the user's queue is full, so
  a stored segment is dropped and acknowledged all the same.
* `VRdpRstWrap`: `rcv_cur + 1` is compared as an `int` when a reset arrives; after a
  wrap-around the reset is taken for out of sequence.
* `VAntennaTail`: `antenna_fwrite_fd` announces a file with its tail and sends whole
  blocks only; the receiver completes the file with the next notice.

Seen while modelling and not turned into a run of their own, since they need
only a step or two: a late acknowledgement moves `snd_una` back (`csp_rdp.c:812`);
`csp_send` returns 0 for a segment that the retransmission delivers later
(`csp_io.c:279`); with `window_size = rdp_max_window` acknowledged segments that are
not yet freed fill `tx_queue` (`csp_rdp.c:1007`); the NULL packet of a closing is
dropped when the user's queue is full (`csp_rdp.c:892`); an in-sequence reset does not
wake a task that waits for the window (`csp_rdp.c:633`); a SYN/ACK is not compared
with the SYN it answers (`csp_rdp.c:701`), and the acknowledgement of a reset is
stored before its sequence number is looked at (`csp_rdp.c:613`), so that after a
reboot late segments of the old connection can disturb the new one.  The
configurations of the passing runs stay clear of these: the queues hold what the
windows allow, and the data properties speak of ends that agree.
