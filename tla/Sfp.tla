-------------------------------- MODULE Sfp --------------------------------
(***************************************************************************)
(* csp_sfp.c: blobs cut into fragments by csp_sfp_send and put together by *)
(* csp_sfp_recv, over one connection.  The connection keeps the order of   *)
(* what it delivers; over UDP it may lose packets.  A blob's bytes are     *)
(* told apart by the number of the blob and their place in it.             *)
(*                                                                         *)
(* One action is one turn of either loop.  A call that fails in the middle *)
(* leaves its fragments in the connection, and the next call of the other  *)
(* side meets them.                                                        *)
(***************************************************************************)
EXTENDS Integers, Sequences

CONSTANTS
  Mtu,         \* the mtu argument of csp_sfp_send
  BlobSize,    \* BlobSize[n]: the size of the n-th blob sent
  LinkCap,     \* bound on the packets on the way
  SfpMaxLoss,  \* bound on the packets lost
  SfpMaxFail   \* bound on failing allocations, sends and reads

ASSUME SfpAssumption ==
  /\ Mtu \in Nat \ {0} /\ BlobSize \in Seq(Nat \ {0})
  /\ LinkCap \in Nat /\ SfpMaxLoss \in Nat /\ SfpMaxFail \in Nat

VARIABLES
  blob,      \* the number of the blob that is or was last sent
  count,     \* how much of it has been sent
  sending,   \* csp_sfp_send is running
  link,      \* the packets on the way
  data,      \* the receiver's memory; its length is data_offset
  datasize,  \* the size of that memory, 0 for NULL
  returned,  \* history: what csp_sfp_recv has returned
  spoilt,    \* history: the blobs that did not get through untouched
  sfpLost, sfpFailed  \* how many packets were lost and calls failed

sfpVars == <<blob, count, sending, link, data, datasize, returned, spoilt, sfpLost, sfpFailed>>

Blobs == 1..Len(BlobSize)
Byte(n, i) == <<n, i>>
Content(n) == [i \in 1..BlobSize[n] |-> Byte(n, i - 1)]

Shorter(a, b) == IF a < b THEN a ELSE b

SfpInit ==
  /\ blob = 0 /\ count = 0 /\ sending = FALSE
  /\ link = <<>> /\ data = <<>> /\ datasize = 0
  /\ returned = <<>> /\ spoilt = {}
  /\ sfpLost = 0 /\ sfpFailed = 0

----------------------------------------------------------------------------
\* Sending

sendVars == <<blob, count, sending>>
recvVars == <<data, datasize, returned>>

SfpSend ==
  /\ ~sending /\ blob < Len(BlobSize)
  /\ blob' = blob + 1 /\ count' = 0 /\ sending' = TRUE
  /\ UNCHANGED <<link, recvVars, spoilt, sfpLost, sfpFailed>>

\* mutant: every fragment says where the next one starts
FragmentOffByOne(size) ==
  [frag |-> TRUE, offset |-> count + size, total |-> BlobSize[blob], blob |-> blob,
   bytes |-> [i \in 1..size |-> Byte(blob, count + i - 1)]]
\* The packet with its header, which goes behind the data.
Fragment(size) ==
  [frag |-> TRUE, offset |-> count, total |-> BlobSize[blob], blob |-> blob,
   bytes |-> [i \in 1..size |-> Byte(blob, count + i - 1)]]

SfpSendFragment ==
  LET size == Shorter(BlobSize[blob] - count, Mtu)
  IN  /\ sending /\ Len(link) < LinkCap
      /\ link' = Append(link, Fragment(size))
      /\ count' = count + size
      /\ sending' = (count' < BlobSize[blob])
      /\ UNCHANGED <<blob, recvVars, spoilt, sfpLost, sfpFailed>>

\* csp_buffer_get or csp_send fails: the rest of the blob is not sent.
SfpSendFails ==
  /\ sending /\ sfpFailed < SfpMaxFail
  /\ sending' = FALSE
  /\ spoilt' = spoilt \cup {blob}
  /\ sfpFailed' = sfpFailed + 1
  /\ UNCHANGED <<blob, count, link, recvVars, sfpLost>>

\* Another packet on the same connection, too short for a header.
SfpSendPlain ==
  /\ ~sending /\ blob > 0 /\ blob < Len(BlobSize) /\ Len(link) < LinkCap
  /\ link # <<>> => link[Len(link)].frag
  /\ link' = Append(link, [frag |-> FALSE, blob |-> 0])
  /\ UNCHANGED <<sendVars, recvVars, spoilt, sfpLost, sfpFailed>>

\* The connection loses a packet.
SfpLose ==
  /\ link # <<>> /\ sfpLost < SfpMaxLoss
  /\ link' = Tail(link)
  /\ spoilt' = spoilt \cup {Head(link).blob}
  /\ sfpLost' = sfpLost + 1
  /\ UNCHANGED <<sendVars, recvVars, sfpFailed>>

----------------------------------------------------------------------------
\* Receiving.  Whether csp_sfp_recv is in its loop or about to be called is
\* the same: its memory is NULL until it has accepted a fragment.

\* csp_sfp_header_remove, and the checks of offset and sizes.
HasHeader(p) == p.frag /\ p.offset <= p.total
Expected(p) == HasHeader(p) /\ p.offset = Len(data)
SizesAgree(p) ==
  LET size == IF datasize = 0 THEN p.total ELSE datasize
  IN  Len(data) + Len(p.bytes) <= size /\ size = p.total
Consistent(p) == Expected(p) /\ SizesAgree(p)

\* The error exit frees the memory; the fragment has been freed before.
KeepsMemory == UNCHANGED <<data, datasize>>  \* mutant: the error exit frees nothing
GiveUp == data' = <<>> /\ datasize' = 0

SfpTake ==
  /\ link # <<>> /\ Consistent(Head(link))
  /\ LET p == Head(link)
         all == data \o p.bytes
     IN  IF Len(all) >= p.total
         THEN returned' = Append(returned, all) /\ data' = <<>> /\ datasize' = 0
         ELSE data' = all /\ datasize' = p.total /\ UNCHANGED returned
  /\ link' = Tail(link)
  /\ UNCHANGED <<sendVars, spoilt, sfpLost, sfpFailed>>

SfpReject ==
  /\ link # <<>> /\ ~Consistent(Head(link))
  /\ GiveUp
  /\ link' = Tail(link)
  /\ UNCHANGED <<sendVars, returned, spoilt, sfpLost, sfpFailed>>

\* csp_malloc fails at the first fragment.
SfpNoMemory ==
  /\ link # <<>> /\ Expected(Head(link)) /\ datasize = 0 /\ sfpFailed < SfpMaxFail
  /\ link' = Tail(link)
  /\ spoilt' = spoilt \cup {Head(link).blob}
  /\ sfpFailed' = sfpFailed + 1
  /\ UNCHANGED <<sendVars, recvVars, sfpLost>>

\* csp_read returns NULL although more fragments are to come, or never will.
SfpTimeout ==
  /\ datasize # 0 /\ sfpFailed < SfpMaxFail
  /\ GiveUp
  /\ spoilt' = spoilt \cup {data[Len(data)][1]}
  /\ sfpFailed' = sfpFailed + 1
  /\ UNCHANGED <<sendVars, link, returned, sfpLost>>

SfpNext ==
  \/ SfpSend \/ SfpSendFragment \/ SfpSendFails \/ SfpSendPlain \/ SfpLose
  \/ SfpTake \/ SfpReject \/ SfpNoMemory \/ SfpTimeout

SfpSpec == SfpInit /\ [][SfpNext]_sfpVars

----------------------------------------------------------------------------
\* Properties

\* It takes a lost packet and one more fault to make csp_sfp_recv return
\* anything but a blob: over RDP, which loses nothing, no failure of either
\* side ever mixes two blobs, although a fragment does not say of which blob
\* it is; over UDP a single fault does not.
BlobsIntact ==
  sfpLost = 0 \/ sfpLost + sfpFailed <= 1
    => \A k \in 1..Len(returned) : \E n \in Blobs : returned[k] = Content(n)

\* The receiver gets back into step: whatever happened before, at most one
\* blob is lost after the last that was spoilt.
Through(n) == n < blob \/ (n = blob /\ ~sending)
OnTheWay(n) == \E i \in 1..Len(link) : link[i].blob = n
BlobsResync ==
  \A n \in Blobs :
    Through(n) /\ ~OnTheWay(n) /\ n \notin spoilt /\ n - 1 \notin spoilt
      => \E k \in 1..Len(returned) : returned[k] = Content(n)

=============================================================================
