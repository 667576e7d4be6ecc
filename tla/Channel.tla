------------------------------ MODULE Channel ------------------------------
(***************************************************************************)
(* What csp_queue_enqueue and csp_queue_dequeue promise: a channel that    *)
(* holds at most Size values and hands them out in the order in which they *)
(* came in.  A call takes effect at one moment between its begin and its   *)
(* end, or not at all if it is given up.                                   *)
(***************************************************************************)
EXTENDS Naturals, Sequences

CONSTANTS Threads, Value, Size

VARIABLES
  chan,  \* the values in the channel, the oldest first
  buf,   \* buf[t]: the value t passes to enqueue, or the one dequeue gave it
  call   \* call[t]: what t has begun and not done: "none", "enqueue", "dequeue"

vars == <<chan, buf, call>>

Init ==
  /\ chan = <<>>
  /\ buf \in [Threads -> Value]
  /\ call = [t \in Threads |-> "none"]

\* A call begins; one that enqueues brings its value.
Begin(t, op, v) ==
  /\ call[t] = "none"
  /\ call' = [call EXCEPT ![t] = op]
  /\ op = "dequeue" => v = buf[t]
  /\ buf' = [buf EXCEPT ![t] = v]
  /\ chan' = chan

Put(t) ==
  /\ call[t] = "enqueue" /\ Len(chan) < Size
  /\ chan' = Append(chan, buf[t])
  /\ call' = [call EXCEPT ![t] = "none"]
  /\ buf' = buf

Take(t) ==
  /\ call[t] = "dequeue" /\ chan # <<>>
  /\ buf' = [buf EXCEPT ![t] = Head(chan)]
  /\ chan' = Tail(chan)
  /\ call' = [call EXCEPT ![t] = "none"]

\* The call ends without effect: its time is up.
GiveUp(t) ==
  /\ call[t] # "none"
  /\ call' = [call EXCEPT ![t] = "none"]
  /\ UNCHANGED <<chan, buf>>

Next ==
  \E t \in Threads :
    \/ \E op \in {"enqueue", "dequeue"}, v \in Value : Begin(t, op, v)
    \/ Put(t) \/ Take(t) \/ GiveUp(t)

Spec == Init /\ [][Next]_vars

=============================================================================
