-------------------------------- MODULE Link --------------------------------
(***************************************************************************)
(* What RDP promises the two users of an open connection, whatever the     *)
(* network does: each direction is a queue.  A message that csp_send has   *)
(* accepted from one user is handed to the other user at most once, in the *)
(* order of csp_send, and nothing else ever is.                            *)
(***************************************************************************)
EXTENDS Naturals, Sequences

CONSTANTS End, Message

VARIABLES
  accepted,  \* accepted[e]: the messages accepted from the user of e, in order
  delivered  \* delivered[e]: those of them the user at the other end has got

vars == <<accepted, delivered>>

Init ==
  /\ accepted = [e \in End |-> <<>>]
  /\ delivered = [e \in End |-> <<>>]

Send(e) ==
  /\ \E m \in Message : accepted' = [accepted EXCEPT ![e] = Append(@, m)]
  /\ UNCHANGED delivered

Deliver(e) ==
  /\ Len(delivered[e]) < Len(accepted[e])
  /\ delivered' = [delivered EXCEPT ![e] = Append(@, accepted[e][Len(@) + 1])]
  /\ UNCHANGED accepted

Next == \E e \in End : Send(e) \/ Deliver(e)

Spec == Init /\ [][Next]_vars

=============================================================================
