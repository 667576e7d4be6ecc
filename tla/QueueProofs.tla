---------------------------- MODULE QueueProofs ----------------------------
(***************************************************************************)
(* Proofs about module PthreadQueue, for every number of threads, every    *)
(* length of the queue and every set of values: it is a channel, and no    *)
(* thread sleeps that nobody will wake.                                    *)
(*                                                                         *)
(* Everything rests on Inv: the mutex has one holder, the ring is where    *)
(* the counters say, and a thread that has copied and not yet counted has  *)
(* copied the right place.                                                 *)
(***************************************************************************)
EXTENDS PthreadQueue, TLAPS

\* The indices go around the ring.
LEMMA FollowingIs ==
  ASSUME NEW i \in Index
  PROVE  /\ Following(i) = IF i + 1 = Size THEN 0 ELSE i + 1
         /\ Following(i) \in Index
<1>1. Size \in Nat /\ Size > 0
  BY SizeAssumption
<1>2. CASE i + 1 = Size
  <2>1. Size % Size = 0
    BY <1>1
  <2> QED
    BY <1>1, <1>2, <2>1 DEF Following, Index
<1>3. CASE i + 1 # Size
  <2>1. i + 1 \in 0..(Size - 1)
    BY <1>1, <1>3 DEF Index
  <2>2. (i + 1) % Size = i + 1
    BY <1>1, <2>1
  <2> QED
    BY <1>1, <1>3, <2>1, <2>2 DEF Following, Index
<1> QED
  BY <1>2, <1>3

\* At most one thread holds the mutex.
LEMMA OneHolder ==
  ASSUME MutexInv, TypeOK, NEW t \in Threads, NEW u \in Threads, Holding(t), Holding(u)
  PROVE  t = u
  BY DEF MutexInv

\* The invariant holds of a new queue.
LEMMA InvInit == Init => Inv
<1> SUFFICES ASSUME Init PROVE Inv
  OBVIOUS
<1>1. TypeOK
  BY SizeAssumption DEF Init, TypeOK, Index, PC
<1>2. MutexInv
  BY ThreadsAssumption DEF Init, MutexInv, Holding
<1>3. RingInv /\ CountInv
  BY SizeAssumption DEF Init, RingInv, CountInv, CountOK
<1> QED
  BY <1>1, <1>2, <1>3 DEF Inv

\* The steps that leave the ring alone.
LEMMA QuietStep ==
  ASSUME Inv, NEW t \in Threads,
         Call(t) \/ Lock(t) \/ LockExpired(t) \/ Wait(t) \/ Spurious(t) \/ Expire(t)
           \/ Unlock(t) \/ Notify(t)
  PROVE  Inv'
<1> USE DEF Inv
<1>1. UNCHANGED queueVars
  BY DEF Call, Lock, LockExpired, Wait, Spurious, Expire, Unlock, Notify
<1>2. TypeOK'
  <2>1. pc' \in [Threads -> PC] /\ mutex' \in Threads \cup {None}
    BY DEF TypeOK, PC, Call, Lock, LockExpired, Wait, Spurious, Expire, Unlock, Notify
  <2>2. op' \in [Threads -> {"enqueue", "dequeue"}] /\ buf' \in [Threads -> Value]
    BY DEF TypeOK, Call, Lock, LockExpired, Wait, Spurious, Expire, Unlock, Notify
  <2> QED
    BY <1>1, <2>1, <2>2 DEF TypeOK, queueVars
<1>3. MutexInv'
  <2> USE ThreadsAssumption DEF TypeOK, MutexInv, Holding
  <2>1. CASE Call(t) \/ Spurious(t) \/ Expire(t)
    BY <2>1 DEF Call, Spurious, Expire
  <2>2. CASE Lock(t)
    BY <2>2 DEF Lock
  <2>3. CASE LockExpired(t)
    BY <2>3 DEF LockExpired
  <2>4. CASE Wait(t)
    BY <2>4 DEF Wait
  <2>5. CASE Unlock(t)
    BY <2>5 DEF Unlock
  <2>6. CASE Notify(t)
    BY <2>6 DEF Notify, Woken
  <2> QED
    BY <2>1, <2>2, <2>3, <2>4, <2>5, <2>6
<1>4. RingInv'
  BY <1>1 DEF RingInv, queueVars
<1>5. CountInv'
  <2> SUFFICES ASSUME NEW u \in Threads, pc'[u] = "count"
               PROVE  CountOK(u)'
    BY DEF CountInv, CountOK
  <2>1. pc[u] = "count" /\ op'[u] = op[u] /\ buf'[u] = buf[u]
    BY DEF TypeOK, Call, Lock, LockExpired, Wait, Spurious, Expire, Unlock, Notify
  <2> QED
    BY <1>1, <2>1 DEF CountInv, CountOK, Blocked, queueVars
<1> QED
  BY <1>2, <1>3, <1>4, <1>5

\* The memcpy under the mutex.
LEMMA CopyStep == ASSUME Inv, NEW t \in Threads, Copy(t) PROVE Inv'
<1> USE DEF Inv
<1>1. TypeOK'
  BY DEF TypeOK, Copy, CopyIn, CopyOut, PC
<1>2. MutexInv'
  BY DEF TypeOK, MutexInv, Holding, Copy
<1>3. RingInv'
  BY DEF RingInv, Copy
<1>4. CountInv'
  <2> SUFFICES ASSUME NEW u \in Threads, pc'[u] = "count"
               PROVE  CountOK(u)'
    BY DEF CountInv, CountOK
  <2>1. u = t
    BY OneHolder DEF Copy, Holding, TypeOK
  <2> QED
    BY <2>1 DEF TypeOK, CountOK, Copy, CopyIn, CopyOut, Blocked
<1> QED
  BY <1>1, <1>2, <1>3, <1>4

\* The counters under the mutex.
LEMMA CountStep == ASSUME Inv, NEW t \in Threads, Count(t) PROVE Inv'
<1> USE DEF Inv
<1>1. Size \in Nat /\ Size > 0 /\ items \in 0..Size /\ in \in Index /\ out \in Index
  BY SizeAssumption DEF TypeOK
<1>2. ~Blocked(op[t]) /\ op[t] \in {"enqueue", "dequeue"}
  BY DEF CountInv, CountOK, Count, TypeOK
<1>3. /\ Following(in) = (IF in + 1 = Size THEN 0 ELSE in + 1) /\ Following(in) \in Index
      /\ Following(out) = (IF out + 1 = Size THEN 0 ELSE out + 1) /\ Following(out) \in Index
  BY <1>1, FollowingIs
<1>4. items' \in 0..Size /\ in' \in Index /\ out' \in Index
  BY <1>1, <1>2, <1>3 DEF Count, Blocked
<1>5. TypeOK'
  BY <1>4 DEF TypeOK, Count, PC
<1>6. MutexInv'
  BY DEF TypeOK, MutexInv, Holding, Count
<1>7. RingInv'
  BY <1>1, <1>2, <1>3 DEF RingInv, Count, Blocked, Index
<1>8. CountInv'
  <2> SUFFICES ASSUME NEW u \in Threads, pc'[u] = "count" PROVE FALSE
    BY DEF CountInv, CountOK
  <2> QED
    BY OneHolder DEF Count, Holding, TypeOK
<1> QED
  BY <1>5, <1>6, <1>7, <1>8

\* Inv is inductive.
LEMMA InvStep == Inv /\ [Next]_vars => Inv'
<1> SUFFICES ASSUME Inv, [Next]_vars PROVE Inv'
  OBVIOUS
<1>1. CASE Next
  BY <1>1, QuietStep, CopyStep, CountStep DEF Next
<1>2. CASE UNCHANGED vars
  BY <1>2 DEF vars, queueVars, Inv, TypeOK, MutexInv, Holding, RingInv, CountInv, CountOK, Blocked
<1> QED
  BY <1>1, <1>2

\* Mutual exclusion, and a ring that agrees with its counters: the invariant of
\* pthread_queue_t whenever the mutex is free or held.
THEOREM RingCorrect == Spec => []Inv
  BY InvInit, InvStep, PTL DEF Spec

\* Types, of which the indices within the buffer matter most: the memcpy of
\* pthread_queue_enqueue and pthread_queue_dequeue stays inside it.
THEOREM TypeCorrect == Spec => []TypeOK
  BY RingCorrect, PTL DEF Inv

----------------------------------------------------------------------------
\* No thread sleeps that nobody will wake.

\* u is on its way to the broadcast that wakes the threads in function o.
Wakes(u, o) == op[u] = Other(o) /\ pc[u] \in {"unlock", "notify"}

\* Every step keeps the promise: a thread goes to sleep only when it is blocked,
\* counters change only on the way to a broadcast, and a broadcast that is done
\* has left nobody asleep whom it was for.
LEMMA WakeStep == Inv /\ NoLostWakeup /\ [Next]_vars => NoLostWakeup'
<1> SUFFICES ASSUME Inv, NoLostWakeup, [Next]_vars,
                    NEW t \in Threads, pc'[t] = "wait", ~Blocked(op[t])'
             PROVE  \E u \in Threads : Wakes(u, op[t])'
  BY DEF NoLostWakeup, Wakes
<1> USE DEF Inv
<1>1. TypeOK /\ Size \in Nat /\ Size > 0
  BY SizeAssumption
<1>2. CASE UNCHANGED vars
  BY <1>2 DEF vars, queueVars, NoLostWakeup, Wakes, Blocked
<1>3. CASE \E v \in Threads : Count(v)
  <2>1. PICK v \in Threads : Count(v)
    BY <1>3
  <2>2. op' = op /\ pc'[v] = "unlock" /\ \A u \in Threads : u # v => pc'[u] = pc[u]
    BY <1>1, <2>1 DEF Count, TypeOK
  <2>3. pc[t] = "wait" /\ op[t] \in {"enqueue", "dequeue"} /\ op[v] \in {"enqueue", "dequeue"}
    BY <1>1, <2>2 DEF TypeOK
  <2>4. CASE op[v] = Other(op[t])
    BY <2>2, <2>4 DEF Wakes
  <2>5. CASE op[v] = op[t]
    <3>1. ~Blocked(op[t])
      BY <1>1, <2>1, <2>2, <2>3, <2>5 DEF CountInv, CountOK, Count, Blocked, TypeOK
    <3>2. PICK u \in Threads : Wakes(u, op[t])
      BY <2>3, <3>1 DEF NoLostWakeup, Wakes
    <3>3. u # v
      BY <2>3, <2>5, <3>2 DEF Wakes, Other
    <3> QED
      BY <2>2, <3>2, <3>3 DEF Wakes
  <2> QED
    BY <2>3, <2>4, <2>5 DEF Other
<1>4. CASE \E v \in Threads : Notify(v)
  <2>1. PICK v \in Threads : Notify(v)
    BY <1>4
  <2>2. /\ op' = op /\ items' = items /\ pc[t] = "wait" /\ t \notin Woken(v)
        /\ \A u \in Threads : u # v /\ pc[u] # "wait" => pc'[u] = pc[u]
    BY <1>1, <2>1 DEF Notify, Woken, TypeOK, queueVars
  <2>3. PICK u \in Threads : Wakes(u, op[t])
    BY <2>2 DEF NoLostWakeup, Wakes, Blocked
  <2>4. u # v
    BY <1>1, <2>2, <2>3 DEF Woken, Wakes, Other, TypeOK
  <2> QED
    BY <2>2, <2>3, <2>4 DEF Wakes
<1>5. CASE \E v \in Threads : Wait(v)
  <2>1. PICK v \in Threads : Wait(v)
    BY <1>5
  <2>2. /\ op' = op /\ items' = items /\ pc[v] = "test"
        /\ \A u \in Threads : u # v => pc'[u] = pc[u]
    BY <1>1, <2>1 DEF Wait, TypeOK, queueVars
  <2>3. t # v
    BY <2>1, <2>2 DEF Wait, Blocked
  <2>4. PICK u \in Threads : Wakes(u, op[t])
    BY <2>2, <2>3 DEF NoLostWakeup, Wakes, Blocked
  <2> QED
    BY <2>2, <2>4 DEF Wakes
<1>6. CASE \E v \in Threads : Unlock(v)
  <2>1. PICK v \in Threads : Unlock(v)
    BY <1>6
  <2>2. /\ op' = op /\ items' = items /\ pc[t] = "wait"
        /\ \A u \in Threads : pc[u] \in {"unlock", "notify"} => pc'[u] \in {"unlock", "notify"}
    BY <1>1, <2>1 DEF Unlock, TypeOK, queueVars
  <2>3. PICK u \in Threads : Wakes(u, op[t])
    BY <2>2 DEF NoLostWakeup, Wakes, Blocked
  <2> QED
    BY <2>2, <2>3 DEF Wakes
<1>7. CASE \E v \in Threads : Call(v) \/ Lock(v) \/ LockExpired(v) \/ Spurious(v) \/ Expire(v) \/ Copy(v)
  <2>1. PICK v \in Threads : Call(v) \/ Lock(v) \/ LockExpired(v) \/ Spurious(v) \/ Expire(v) \/ Copy(v)
    BY <1>7
  <2>2. /\ items' = items /\ pc[v] \notin {"unlock", "notify"} /\ pc'[v] # "wait"
        /\ \A u \in Threads : u # v => pc'[u] = pc[u] /\ op'[u] = op[u]
    BY <1>1, <2>1 DEF Call, Lock, LockExpired, Spurious, Expire, Copy, TypeOK, queueVars
  <2>3. t # v
    BY <2>2
  <2>4. PICK u \in Threads : Wakes(u, op[t])
    BY <2>2, <2>3 DEF NoLostWakeup, Wakes, Blocked
  <2> QED
    BY <2>2, <2>3, <2>4 DEF Wakes
<1> QED
  BY <1>2, <1>3, <1>4, <1>5, <1>6, <1>7 DEF Next

\* Whenever a thread sleeps on a condition variable of pthread_queue_t and its
\* condition holds, another thread is about to broadcast, although the
\* broadcast comes after the mutex is given up.
THEOREM WakeupCorrect == Spec => []NoLostWakeup
<1>1. Init => NoLostWakeup
  BY DEF Init, NoLostWakeup
<1> QED
  BY <1>1, WakeStep, RingCorrect, PTL DEF Spec

----------------------------------------------------------------------------
\* The queue is a channel.

\* The ring as a sequence.
LEMMA ContentsIs ==
  ASSUME Inv
  PROVE  /\ Contents \in Seq(Value) /\ Len(Contents) = items
         /\ \A i \in 1..items : Place(i) \in Index /\ Contents[i] = buffer[Place(i)]
<1>1. /\ Size \in Nat /\ Size > 0 /\ items \in 0..Size /\ out \in Index
      /\ buffer \in [Index -> Value]
  BY SizeAssumption DEF Inv, TypeOK
<1>2. \A i \in 1..items : Place(i) \in Index
  BY <1>1 DEF Place, Index
<1>3. Contents \in [1..items -> Value]
  BY <1>1, <1>2 DEF Contents
<1>4. Contents \in Seq(Value) /\ Len(Contents) = items
  BY <1>1, <1>3
<1> QED
  BY <1>2, <1>4 DEF Contents

\* The same after a step.
LEMMA ContentsNext ==
  ASSUME Inv'
  PROVE  /\ Contents' \in Seq(Value) /\ Len(Contents') = items'
         /\ \A i \in 1..items' : Contents'[i] = buffer'[Place(i)']
<1>1. /\ Size \in Nat /\ Size > 0 /\ items' \in 0..Size /\ out' \in Index
      /\ buffer' \in [Index -> Value]
  BY SizeAssumption DEF Inv, TypeOK
<1>2. \A i \in 1..items' : Place(i)' \in Index
  <2> SUFFICES ASSUME NEW i \in 1..items' PROVE Place(i)' \in Index
    OBVIOUS
  <2> DEFINE o == out'
  <2>1. i \in Nat /\ i >= 1 /\ i <= Size /\ o \in Nat /\ o < Size /\ Size \in Nat
    BY <1>1 DEF Index
  <2>2. Place(i)' = IF o + i - 1 < Size THEN o + i - 1 ELSE o + i - 1 - Size
    BY DEF Place
  <2> HIDE DEF o
  <2>3. (IF o + i - 1 < Size THEN o + i - 1 ELSE o + i - 1 - Size) \in 0..(Size - 1)
    BY <2>1
  <2> QED
    BY <2>2, <2>3 DEF Index
<1>3. Contents' \in [1..items' -> Value]
  BY <1>1, <1>2 DEF Contents
<1>4. Contents' \in Seq(Value) /\ Len(Contents') = items'
  BY <1>1, <1>3
<1> QED
  BY <1>2, <1>4 DEF Contents

\* Two sequences with the same elements.
LEMMA SameSequence ==
  ASSUME NEW s \in Seq(Value), NEW r \in Seq(Value), Len(s) = Len(r),
         \A i \in 1..Len(s) : s[i] = r[i]
  PROVE  s = r
  OBVIOUS

\* Nobody but the holder of the mutex has taken a value without counting it.
LEMMA TookIs ==
  ASSUME Inv, NEW t \in Threads, Holding(t)
  PROVE  (\E u \in Threads : Took(u)) <=> Took(t)
  BY OneHolder DEF Inv, Took, Holding

LEMMA NoneTook ==
  ASSUME Inv, mutex = None
  PROVE  \A u \in Threads : ~Took(u)
  BY ThreadsAssumption DEF Inv, MutexInv, Took, Holding

\* Steps outside the copying and counting leave the channel as it is.
LEMMA SameChannel ==
  ASSUME Inv, Inv', UNCHANGED <<buffer, items, out>>,
         \A u \in Threads : Took(u)' <=> Took(u)
  PROVE  NotTaken' = NotTaken
<1>1. Contents' = Contents
  BY DEF Contents, Place
<1> QED
  BY <1>1 DEF NotTaken

\* A new queue is an empty channel.
LEMMA ChannelInit == Init => Abstract!Init
<1> SUFFICES ASSUME Init PROVE Abstract!Init
  OBVIOUS
<1>1. Inv
  BY InvInit
<1>2. Contents = <<>>
  BY <1>1, ContentsIs DEF Init
<1>3. \A t \in Threads : ~Took(t) /\ ~Pending(t)
  BY DEF Init, Took, Pending
<1> QED
  BY <1>2, <1>3 DEF Init, Abstract!Init, NotTaken, Begun

\* Entering a function begins a call.
LEMMA CallMaps == ASSUME Inv, Inv', NEW t \in Threads, Call(t) PROVE Abstract!Next
<1>1. PICK o \in {"enqueue", "dequeue"}, v \in Value :
        /\ o = "dequeue" => v = buf[t]
        /\ op' = [op EXCEPT ![t] = o]
        /\ buf' = [buf EXCEPT ![t] = v]
  BY DEF Call
<1>2. pc[t] = "idle" /\ pc' = [pc EXCEPT ![t] = "lock"] /\ UNCHANGED queueVars
  BY DEF Call
<1>3. /\ Begun(t) = "none" /\ Begun(t)' = o
      /\ \A u \in Threads : u # t => Begun(u)' = Begun(u)
      /\ \A u \in Threads : Took(u)' <=> Took(u)
  BY <1>1, <1>2 DEF Inv, TypeOK, Begun, Pending, Took
<1>4. NotTaken' = NotTaken
  BY <1>2, <1>3, SameChannel DEF queueVars
<1>5. Abstract!Begin(t, o, v)
  BY <1>1, <1>3, <1>4 DEF Abstract!Begin
<1> QED
  BY <1>5 DEF Abstract!Next

\* The copy of a dequeue takes the oldest value; that of an enqueue is not yet
\* seen.
LEMMA CopyMaps == ASSUME Inv, Inv', NEW t \in Threads, Copy(t) PROVE [Abstract!Next]_Abstract!vars
<1>1. /\ Size \in Nat /\ Size > 0 /\ items \in 0..Size /\ in \in Index /\ out \in Index
      /\ buffer \in [Index -> Value] /\ op[t] \in {"enqueue", "dequeue"} /\ RingInv
  BY SizeAssumption DEF Inv, TypeOK
<1>2. /\ pc[t] = "test" /\ pc' = [pc EXCEPT ![t] = "count"] /\ op' = op
      /\ UNCHANGED <<items, in, out>> /\ ~Blocked(op[t])
  BY DEF Copy
<1>3. ~\E u \in Threads : Took(u)
  BY <1>2, TookIs DEF Holding, Took
<1>4. NotTaken = Contents
  BY <1>3 DEF NotTaken
<1>5. CASE op[t] = "enqueue"
  <2>1. buffer' = [buffer EXCEPT ![in] = buf[t]] /\ buf' = buf
    BY <1>5 DEF Copy, CopyIn
  <2>2. \A u \in Threads : ~Took(u)' /\ Begun(u)' = Begun(u)
    BY <1>2, <1>3, <1>5 DEF Inv, TypeOK, Took, Begun, Pending
  <2>3. \A i \in 1..items : Place(i) # in
    BY <1>1, <1>2, <1>5 DEF Place, RingInv, Blocked, Index
  <2>4. Contents' = Contents
    <3>1. \A i \in 1..items : Place(i)' = Place(i) /\ buffer'[Place(i)] = buffer[Place(i)]
      BY <1>1, <1>2, <2>1, <2>3, ContentsIs DEF Place
    <3> QED
      BY <1>2, <3>1 DEF Contents
  <2> QED
    BY <1>4, <2>1, <2>2, <2>4 DEF NotTaken, Abstract!vars
<1>6. CASE op[t] = "dequeue"
  <2>1. buf' = [buf EXCEPT ![t] = buffer[out]] /\ buffer' = buffer
    BY <1>6 DEF Copy, CopyOut
  <2>2. /\ Took(t)' /\ Begun(t) = "dequeue" /\ Begun(t)' = "none"
        /\ \A u \in Threads : u # t => Begun(u)' = Begun(u)
    BY <1>2, <1>6 DEF Inv, TypeOK, Took, Begun, Pending
  <2>3. Contents' = Contents /\ NotTaken' = Tail(Contents)
    BY <1>2, <2>1, <2>2 DEF Contents, Place, NotTaken
  <2>4. Contents # <<>> /\ Head(Contents) = buffer[out]
    BY <1>1, <1>2, <1>6, ContentsIs DEF Place, Blocked, Index
  <2>5. Abstract!Take(t)
    BY <1>4, <2>1, <2>2, <2>3, <2>4 DEF Abstract!Take
  <2> QED
    BY <2>5 DEF Abstract!Next
<1> QED
  BY <1>1, <1>5, <1>6

\* Counting a value in puts it; counting one out changes nothing any more.
LEMMA CountMaps == ASSUME Inv, Inv', NEW t \in Threads, Count(t) PROVE [Abstract!Next]_Abstract!vars
<1>1. /\ Size \in Nat /\ Size > 0 /\ items \in 0..Size /\ in \in Index /\ out \in Index
      /\ buffer \in [Index -> Value] /\ op[t] \in {"enqueue", "dequeue"}
      /\ buf \in [Threads -> Value] /\ RingInv
  BY SizeAssumption DEF Inv, TypeOK
<1>2. /\ pc[t] = "count" /\ pc' = [pc EXCEPT ![t] = "unlock"] /\ op' = op
      /\ UNCHANGED <<buffer, buf>> /\ CountOK(t)
  BY DEF Count, Inv, CountInv
<1>3. ~\E u \in Threads : Took(u)'
  BY <1>2, OneHolder DEF Inv, TypeOK, Took, Holding
<1>4. NotTaken' = Contents'
  BY <1>3 DEF NotTaken
<1>5. Contents \in Seq(Value) /\ Len(Contents) = items
  BY ContentsIs
<1>6. /\ Contents' \in Seq(Value) /\ Len(Contents') = items'
      /\ \A i \in 1..items' : Contents'[i] = buffer[Place(i)']
  BY <1>2, ContentsNext
<1>7. CASE op[t] = "enqueue"
  <2>1. items' = items + 1 /\ out' = out
    BY <1>7 DEF Count
  <2>2. NotTaken = Contents
    BY <1>2, <1>7, TookIs DEF Holding, Took, NotTaken
  <2>3. /\ Begun(t) = "enqueue" /\ Begun(t)' = "none"
        /\ \A u \in Threads : u # t => Begun(u)' = Begun(u)
    BY <1>2, <1>7 DEF Inv, TypeOK, Took, Begun, Pending
  <2>4. items < Size /\ buffer[in] = buf[t] /\ Place(items + 1) = in
    BY <1>1, <1>2, <1>7 DEF CountOK, Blocked, RingInv, Place
  <2>5. Contents' = Append(Contents, buf[t])
    <3>1. Append(Contents, buf[t]) \in Seq(Value) /\ Len(Append(Contents, buf[t])) = items + 1
      BY <1>1, <1>5
    <3>2. \A i \in 1..(items + 1) : Contents'[i] = Append(Contents, buf[t])[i]
      <4> SUFFICES ASSUME NEW i \in 1..(items + 1)
                   PROVE  Contents'[i] = Append(Contents, buf[t])[i]
        OBVIOUS
      <4>1. Contents'[i] = buffer[Place(i)]
        BY <1>6, <2>1 DEF Place
      <4>2. i = items + 1 \/ i \in 1..items
        BY <1>1
      <4>3. CASE i = items + 1
        BY <1>1, <1>5, <2>4, <4>1, <4>3
      <4>4. CASE i \in 1..items
        BY <1>1, <1>5, <4>1, <4>4, ContentsIs
      <4> QED
        BY <4>2, <4>3, <4>4
    <3> QED
      BY <1>6, <2>1, <3>1, <3>2, SameSequence
  <2>6. Abstract!Put(t)
    BY <1>1, <1>2, <1>4, <1>5, <2>2, <2>3, <2>4, <2>5 DEF Abstract!Put
  <2> QED
    BY <2>6 DEF Abstract!Next
<1>8. CASE op[t] = "dequeue"
  <2>1. items' = items - 1 /\ out' = Following(out) /\ items # 0
    BY <1>2, <1>8 DEF Count, CountOK, Blocked
  <2>2. NotTaken = Tail(Contents)
    BY <1>2, <1>8 DEF Took, NotTaken
  <2>3. \A u \in Threads : Begun(u)' = Begun(u)
    BY <1>2, <1>8 DEF Inv, TypeOK, Took, Begun, Pending
  <2>4. Contents' = Tail(Contents)
    <3>1. Tail(Contents) \in Seq(Value) /\ Len(Tail(Contents)) = items - 1
      BY <1>1, <1>5, <2>1
    <3>2. \A i \in 1..(items - 1) : Contents'[i] = Tail(Contents)[i]
      <4> SUFFICES ASSUME NEW i \in 1..(items - 1) PROVE Contents'[i] = Tail(Contents)[i]
        OBVIOUS
      <4>1. Tail(Contents)[i] = Contents[i + 1] /\ i + 1 \in 1..items
        BY <1>1, <1>5, <2>1
      <4>2. out' = IF out + 1 = Size THEN 0 ELSE out + 1
        BY <1>1, <2>1, FollowingIs
      <4>3. i \in Nat /\ i >= 1 /\ i < Size
        BY <1>1
      <4>4. Place(i)' = Place(i + 1)
        BY <1>1, <4>2, <4>3 DEF Place, Index
      <4> QED
        BY <1>6, <2>1, <4>1, <4>4, ContentsIs
    <3> QED
      BY <1>6, <2>1, <3>1, <3>2, SameSequence
  <2> QED
    BY <1>2, <1>4, <2>2, <2>3, <2>4 DEF Abstract!vars
<1> QED
  BY <1>1, <1>7, <1>8

\* The other steps are stutters, or give a call up.
LEMMA QuietMaps ==
  ASSUME Inv, Inv', NEW t \in Threads,
         Lock(t) \/ LockExpired(t) \/ Wait(t) \/ Spurious(t) \/ Expire(t) \/ Unlock(t) \/ Notify(t)
  PROVE  [Abstract!Next]_Abstract!vars
<1>1. /\ UNCHANGED queueVars /\ op' = op /\ buf' = buf
      /\ \A u \in Threads : Took(u)' <=> Took(u)
  <2>1. UNCHANGED queueVars /\ op' = op /\ buf' = buf
    BY DEF Lock, LockExpired, Wait, Spurious, Expire, Unlock, Notify
  <2>2. \A u \in Threads : pc'[u] = "count" <=> pc[u] = "count"
    <3>1. CASE Lock(t) \/ Wait(t) \/ Spurious(t) \/ Expire(t) \/ Unlock(t)
      BY <3>1 DEF Inv, TypeOK, Lock, Wait, Spurious, Expire, Unlock
    <3>2. CASE LockExpired(t)
      BY <3>2 DEF Inv, TypeOK, LockExpired
    <3>3. CASE Notify(t)
      BY <3>3 DEF Inv, TypeOK, Notify, Woken
    <3> QED
      BY <3>1, <3>2, <3>3
  <2> QED
    BY <2>1, <2>2 DEF Took
<1>2. NotTaken' = NotTaken
  BY <1>1, SameChannel DEF queueVars
<1>3. CASE LockExpired(t) /\ pc'[t] = "fail"
  <2>1. /\ Begun(t) # "none" /\ Begun(t)' = "none"
        /\ \A u \in Threads : u # t => Begun(u)' = Begun(u)
    BY <1>1, <1>3 DEF Inv, TypeOK, LockExpired, Begun, Pending, Took
  <2>2. Abstract!GiveUp(t)
    BY <1>1, <1>2, <2>1 DEF Abstract!GiveUp
  <2> QED
    BY <2>2 DEF Abstract!Next
<1>4. CASE ~(LockExpired(t) /\ pc'[t] = "fail")
  <2>1. \A u \in Threads : Begun(u)' = Begun(u)
    BY <1>1, <1>4
    DEF Inv, TypeOK, Begun, Pending, Took, Lock, LockExpired, Wait, Spurious, Expire, Unlock, Notify, Woken
  <2> QED
    BY <1>1, <1>2, <2>1 DEF Abstract!vars
<1> QED
  BY <1>3, <1>4

\* pthread_queue_enqueue and pthread_queue_dequeue implement a bounded channel:
\* each call takes effect at one moment, a dequeue when it copies and an
\* enqueue when it counts, or not at all.
THEOREM ChannelCorrect == Spec => IsChannel
<1>1. Inv /\ Inv' /\ [Next]_vars => [Abstract!Next]_Abstract!vars
  <2> SUFFICES ASSUME Inv, Inv', [Next]_vars PROVE [Abstract!Next]_Abstract!vars
    OBVIOUS
  <2>1. CASE Next
    BY <2>1, CallMaps, CopyMaps, CountMaps, QuietMaps DEF Next
  <2>2. CASE UNCHANGED vars
    BY <2>2 DEF vars, queueVars, Abstract!vars, NotTaken, Contents, Place, Took, Begun, Pending
  <2> QED
    BY <2>1, <2>2
<1> QED
  BY <1>1, ChannelInit, RingCorrect, PTL DEF Spec, IsChannel, Abstract!Spec

=============================================================================
