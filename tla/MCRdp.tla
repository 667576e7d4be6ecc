------------------------------- MODULE MCRdp -------------------------------
(***************************************************************************)
(* Values for the constants of module Rdp that are functions.  The initial *)
(* sequence numbers are chosen so that the numbers wrap around during a    *)
(* run, and so that two connections of one run never share any: rand()     *)
(* makes that unlikely in the code, and the model leaves it out.           *)
(***************************************************************************)
EXTENDS Rdp

PerEnd(c, s) == [e \in Endpoint |-> IF e = Client THEN c ELSE s]

\* Numbers modulo 16.
WrapBoth == PerEnd(<<14, 7>>, <<15, 3>>)
WrapClient == PerEnd(<<14, 7>>, <<3, 11>>)

\* Numbers modulo 8.
SmallWrap == PerEnd(<<6, 2>>, <<7, 3>>)
SmallReboot == PerEnd(<<6, 2, 4>>, <<1, 5>>)

OneSent == PerEnd(1, 0)
TwoSent == PerEnd(2, 0)
ThreeSent == PerEnd(3, 0)
FourSent == PerEnd(4, 0)
SixSent == PerEnd(6, 0)

=============================================================================
