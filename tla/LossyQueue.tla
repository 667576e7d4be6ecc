----------------------------- MODULE LossyQueue -----------------------------
(***************************************************************************)
(* What a link layer without retransmission promises: messages come out    *)
(* unchanged, in the order in which they were put in, each at most once.   *)
(* Any of them may be missing.                                             *)
(***************************************************************************)
EXTENDS Naturals, Sequences

CONSTANT Message

VARIABLES
  chan,  \* what was put in and may still come out
  got    \* what came out

vars == <<chan, got>>

Init == chan = <<>> /\ got = <<>>

Put(m) == chan' = Append(chan, m) /\ UNCHANGED got

\* The i-th message comes out; those before it are lost.
Get(i) ==
  /\ got' = Append(got, chan[i])
  /\ chan' = SubSeq(chan, i + 1, Len(chan))

Next == (\E m \in Message : Put(m)) \/ (\E i \in 1..Len(chan) : Get(i))

Spec == Init /\ [][Next]_vars

=============================================================================
