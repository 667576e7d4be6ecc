---------------------------- MODULE PthreadQueue ----------------------------
(***************************************************************************)
(* pthread_queue.c, the queue under every queue of libcsp on POSIX: a ring *)
(* of Size places, a mutex and two condition variables.  Any thread may    *)
(* call pthread_queue_enqueue or pthread_queue_dequeue, with a timeout or  *)
(* CSP_MAX_TIMEOUT.  One action is what a thread does between two points   *)
(* where others can interfere or see the difference: the copying and the   *)
(* counters are two actions although the mutex protects both.              *)
(*                                                                         *)
(* Creating and deleting the queue is left to Init: pthread_queue_delete   *)
(* takes no lock, and its callers must be alone.                           *)
(***************************************************************************)
EXTENDS Naturals, Sequences

CONSTANTS
  Threads,   \* the threads that use the queue
  Value,     \* what is put into it
  Size,      \* its length
  None       \* no thread

ASSUME SizeAssumption == Size \in Nat \ {0}
ASSUME ThreadsAssumption == None \notin Threads
ASSUME ValueAssumption == Value # {}

VARIABLES
  buffer, items, in, out,  \* the pthread_queue_t
  mutex,   \* the thread that holds the mutex, or None
  pc,      \* pc[t]: where t is
  op,      \* op[t]: the function t is in, or was last in
  buf      \* buf[t]: the caller's memory that the function copies from or to

queueVars == <<buffer, items, in, out>>
vars == <<queueVars, mutex, pc, op, buf>>

Index == 0..(Size - 1)
PC == {"idle", "lock", "test", "wait", "expired", "count", "unlock", "fail", "notify"}

Other(o) == IF o = "enqueue" THEN "dequeue" ELSE "enqueue"

\* queue->items == queue->size, or queue->items == 0
Blocked(o) == IF o = "enqueue" THEN items = Size ELSE items = 0

Init ==
  /\ buffer \in [Index -> Value]
  /\ items = 0 /\ in = 0 /\ out = 0
  /\ mutex = None
  /\ pc = [t \in Threads |-> "idle"]
  /\ op = [t \in Threads |-> "enqueue"]
  /\ buf \in [Threads -> Value]

\* A thread enters one of the functions.
Call(t) ==
  /\ pc[t] = "idle"
  /\ pc' = [pc EXCEPT ![t] = "lock"]
  /\ \E o \in {"enqueue", "dequeue"}, v \in Value :
       /\ o = "dequeue" => v = buf[t]
       /\ op' = [op EXCEPT ![t] = o]
       /\ buf' = [buf EXCEPT ![t] = v]
  /\ UNCHANGED <<queueVars, mutex>>

LockFree(t) ==  \* mutant: the mutex is not waited for
  /\ pc[t] = "lock"
  /\ mutex' = t
  /\ pc' = [pc EXCEPT ![t] = "test"]
  /\ UNCHANGED <<queueVars, op, buf>>
\* pthread_mutex_lock, or the end of a wait on a condition variable.
Lock(t) ==
  /\ pc[t] = "lock" /\ mutex = None
  /\ mutex' = t
  /\ pc' = [pc EXCEPT ![t] = "test"]
  /\ UNCHANGED <<queueVars, op, buf>>

\* The end of a wait whose time is up: the call fails, unless errno is still
\* EINTR from some earlier call and the loop goes on.
LockExpired(t) ==
  /\ pc[t] = "expired" /\ mutex = None
  /\ mutex' = t
  /\ \E next \in {"fail", "test"} : pc' = [pc EXCEPT ![t] = next]
  /\ UNCHANGED <<queueVars, op, buf>>

\* The loops of wait_slot_available and wait_item_available: the condition
\* variable's wait gives up the mutex.
Wait(t) ==
  /\ pc[t] = "test" /\ Blocked(op[t])
  /\ pc' = [pc EXCEPT ![t] = "wait"]
  /\ mutex' = None
  /\ UNCHANGED <<queueVars, op, buf>>

\* A wait may end for no reason, and one with a timeout when its time is up.
Spurious(t) ==
  /\ pc[t] = "wait"
  /\ pc' = [pc EXCEPT ![t] = "lock"]
  /\ UNCHANGED <<queueVars, mutex, op, buf>>

Expire(t) ==
  /\ pc[t] = "wait"
  /\ pc' = [pc EXCEPT ![t] = "expired"]
  /\ UNCHANGED <<queueVars, mutex, op, buf>>

\* The memcpy in either direction.
CopyIn(t) ==
  /\ buffer' = [buffer EXCEPT ![in] = buf[t]]
  /\ UNCHANGED buf
CopyOut(t) ==
  /\ buf' = [buf EXCEPT ![t] = buffer[out]]
  /\ UNCHANGED buffer
Copy(t) ==
  /\ pc[t] = "test" /\ ~Blocked(op[t])
  /\ IF op[t] = "enqueue" THEN CopyIn(t) ELSE CopyOut(t)
  /\ pc' = [pc EXCEPT ![t] = "count"]
  /\ UNCHANGED <<items, in, out, mutex, op>>

FollowingPlain(i) == i + 1  \* mutant: no % queue->size
Following(i) == (i + 1) % Size
Count(t) ==
  /\ pc[t] = "count"
  /\ IF op[t] = "enqueue"
     THEN items' = items + 1 /\ in' = Following(in) /\ UNCHANGED out
     ELSE items' = items - 1 /\ out' = Following(out) /\ UNCHANGED in
  /\ pc' = [pc EXCEPT ![t] = "unlock"]
  /\ UNCHANGED <<buffer, mutex, op, buf>>

Unlock(t) ==
  /\ pc[t] \in {"unlock", "fail"}
  /\ mutex' = None
  /\ pc' = [pc EXCEPT ![t] = IF pc[t] = "unlock" THEN "notify" ELSE "idle"]
  /\ UNCHANGED <<queueVars, op, buf>>

\* pthread_cond_broadcast, after the mutex has been given up.
WokenSame(t) == {u \in Threads : pc[u] = "wait" /\ op[u] = op[t]}  \* mutant: the other cond
Woken(t) == {u \in Threads : pc[u] = "wait" /\ op[u] = Other(op[t])}
Notify(t) ==
  /\ pc[t] = "notify"
  /\ pc' = [u \in Threads |-> IF u = t THEN "idle" ELSE IF u \in Woken(t) THEN "lock" ELSE pc[u]]
  /\ UNCHANGED <<queueVars, mutex, op, buf>>

Next ==
  \E t \in Threads :
    \/ Call(t) \/ Lock(t) \/ LockExpired(t)
    \/ Wait(t) \/ Spurious(t) \/ Expire(t)
    \/ Copy(t) \/ Count(t) \/ Unlock(t) \/ Notify(t)

Spec == Init /\ [][Next]_vars

----------------------------------------------------------------------------
\* Properties

TypeOK ==
  /\ buffer \in [Index -> Value]
  /\ items \in 0..Size /\ in \in Index /\ out \in Index
  /\ mutex \in Threads \cup {None}
  /\ pc \in [Threads -> PC]
  /\ op \in [Threads -> {"enqueue", "dequeue"}]
  /\ buf \in [Threads -> Value]

\* Where the i-th value in the ring stands, counting from out.
Place(i) == IF out + i - 1 < Size THEN out + i - 1 ELSE out + i - 1 - Size
Contents == [i \in 1..items |-> buffer[Place(i)]]

\* t has copied a value out, and has not yet counted it out.
Took(t) == pc[t] = "count" /\ op[t] = "dequeue"

\* A call of t has begun and its copy is still to be done, or to be counted in.
Pending(t) ==
  /\ pc[t] \notin {"idle", "unlock", "fail", "notify"}
  /\ ~Took(t)

Begun(t) == IF Pending(t) THEN op[t] ELSE "none"
NotTaken == IF \E t \in Threads : Took(t) THEN Tail(Contents) ELSE Contents

Abstract == INSTANCE Channel WITH
              chan <- NotTaken,
              call <- [t \in Threads |-> Begun(t)]

\* The queue is a channel: whatever the interleaving of copying, counting,
\* waiting and giving up, each value comes out once, in the order of the
\* enqueues, and a call that failed has changed nothing.
IsChannel == Abstract!Spec

\* A thread that sleeps although it could work will be woken: another has
\* changed the counters and is on its way to the broadcast.  The broadcast
\* comes after the mutex is given up, so this is not obvious.
NoLostWakeup ==
  \A t \in Threads :
    pc[t] = "wait" /\ ~Blocked(op[t])
      => \E u \in Threads : op[u] = Other(op[t]) /\ pc[u] \in {"unlock", "notify"}

\* Who holds the mutex, and what the ring looks like in between.
Holding(t) == pc[t] \in {"test", "count", "unlock", "fail"}
MutexInv == \A t \in Threads : Holding(t) <=> mutex = t
RingInv == in = IF out + items < Size THEN out + items ELSE out + items - Size
CountOK(t) ==
  pc[t] = "count" =>
    /\ ~Blocked(op[t])
    /\ IF op[t] = "enqueue" THEN buffer[in] = buf[t] ELSE buf[t] = buffer[out]
CountInv == \A t \in Threads : CountOK(t)
Inv == TypeOK /\ MutexInv /\ RingInv /\ CountInv

=============================================================================
