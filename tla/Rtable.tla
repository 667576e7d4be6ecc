------------------------------- MODULE Rtable -------------------------------
(***************************************************************************)
(* The routing table of a node: csp_rtable.c with the list of              *)
(* csp_rtable_cidr.c and, beside it, the array of csp_rtable_static.c.     *)
(* A build has one of the two; here both see the same calls.  A route is   *)
(* an interface; its via address is part of it.  A table that is saved as  *)
(* text is the sequence of its entries, with the places they have in it:   *)
(* csp_rtable_parse reads the first characters of a text only.             *)
(***************************************************************************)
EXTENDS Integers, Sequences, FiniteSets

CONSTANTS
  HostSize,  \* CSP_ID_HOST_SIZE
  Own,       \* csp_conf.address
  Ifaces,    \* the interfaces besides loopback
  MaxRoutes, \* bound on the entries of the list
  TextMax,   \* the characters csp_rtable_parse reads, 100
  Spelled    \* Spelled[r][n]: the route that csp_rtable_parse takes the first n
             \* characters of " name via" of route r for, NoRoute if for none

HostMax == 2^HostSize - 1  \* CSP_ID_HOST_MAX
DefaultRoute == HostMax + 1
Addresses == 0..HostMax
Masks == 0..HostSize
Loopback == "lo"
NoRoute == "none"
Other == 255  \* an address no packet has, which csp_rtable_set lets in

ASSUME RtableAssumption ==
  /\ HostSize \in 1..7 /\ Own \in Addresses /\ MaxRoutes \in Nat \ {0}
  /\ Ifaces \cap {Loopback, NoRoute} = {}

\* A whole name is read as what it names: it has at most 14 characters and no
\* space or comma.
ASSUME TextAssumption ==
  /\ TextMax \in Nat
  /\ Spelled \in [Ifaces -> Seq(Ifaces \cup {NoRoute})]
  /\ \A r \in Ifaces : Spelled[r] # <<>> /\ Spelled[r][Len(Spelled[r])] = r

VARIABLES
  rtable,  \* the list
  static,  \* the array
  simple   \* history: every set made a host route or the default route

rtVars == <<rtable, static, simple>>

----------------------------------------------------------------------------
\* The list

Covers(e, a) == LET hosts == 2^(HostSize - e.mask) IN e.address \div hosts = a \div hosts

FirstWins(mask, best) == mask > best  \* mutant: of equal masks the first wins
Better(mask, best) == mask >= best

\* The loop of csp_rtable_find at entry i: `best` is what it has found so far.
Nothing == [entry |-> 0, mask |-> 0, stop |-> FALSE]
Visit(best, i, e, a, mask, exact) ==
  IF best.stop THEN best
  ELSE IF e.address = a /\ e.mask = mask THEN [best EXCEPT !.entry = i, !.stop = TRUE]
  ELSE IF ~exact /\ Covers(e, a) /\ Better(e.mask, best.mask)
  THEN [best EXCEPT !.entry = i, !.mask = e.mask]
  ELSE best

\* csp_rtable_find: the place of the entry found, 0 for none.
Find(t, a, mask, exact) ==
  LET upto[i \in 0..Len(t)] ==
        IF i = 0 THEN Nothing ELSE Visit(upto[i - 1], i, t[i], a, mask, exact)
  IN  upto[Len(t)].entry

\* csp_rtable_find_route
FindRoute(t, a) ==
  LET i == Find(t, a, HostSize, FALSE) IN IF i = 0 THEN NoRoute ELSE t[i].route

\* csp_rtable_set_internal
SetInternal(t, a, mask, r) ==
  LET i == Find(t, a, mask, TRUE)
      e == [address |-> a, mask |-> mask, route |-> r]
  IN  IF i = 0 THEN Append(t, e) ELSE [t EXCEPT ![i] = e]

----------------------------------------------------------------------------
\* The array

StaticIndexOfHost(a, mask) == a  \* mutant: the mask is not looked at
StaticIndex(a, mask) == IF mask = 0 THEN DefaultRoute ELSE a

StaticFindRoute(a) == IF static[a] # NoRoute THEN static[a] ELSE static[DefaultRoute]

----------------------------------------------------------------------------
\* Operations

Cleared == SetInternal(<<>>, Own, HostSize, Loopback)
StaticCleared == [i \in 0..DefaultRoute |-> IF i = Own THEN Loopback ELSE NoRoute]

RtInit == rtable = Cleared /\ static = StaticCleared /\ simple = TRUE

\* csp_rtable_set
RtSet(address, netmask, r) ==
  LET a == IF address = DefaultRoute THEN 0 ELSE address
      mask == IF address = DefaultRoute THEN 0 ELSE netmask
      host == mask = HostSize /\ a \in Addresses
  IN  /\ rtable' = SetInternal(rtable, a, mask, r)
      /\ Len(rtable') <= MaxRoutes
      /\ simple' = (simple /\ (host \/ (mask = 0 /\ a = 0)))
      /\ static' = IF host \/ mask = 0
                   THEN [static EXCEPT ![StaticIndex(a, mask)] = r]
                   ELSE static

RtClear == rtable' = Cleared /\ static' = StaticCleared /\ simple' = TRUE

RtFree ==
  /\ rtable' = <<>>
  /\ static' = [i \in 0..DefaultRoute |-> NoRoute]
  /\ simple' = TRUE

RtNext ==
  \/ \E a \in Addresses \cup {DefaultRoute, Other}, m \in Masks, r \in Ifaces : RtSet(a, m, r)
  \/ RtClear
  \/ RtFree

RtSpec == RtInit /\ [][RtNext]_rtVars

----------------------------------------------------------------------------
\* csp_rtable_save, into a buffer that is long enough, and csp_rtable_load

NoMask == -1

\* The characters of an address, of what stands before the name (a mask has one
\* digit), of an entry.
Digits(a) == IF a < 10 THEN 1 ELSE IF a < 100 THEN 2 ELSE 3
KeyLength(e) == Digits(e.address) + IF e.mask = NoMask THEN 0 ELSE 2
LineLength(e) == KeyLength(e) + Len(Spelled[e.route])

\* csp_rtable_save_route: an entry, which `at` characters precede.
Entered(e, mask, at) == [address |-> e.address, mask |-> mask, route |-> e.route, at |-> at]
SavedWithoutZero(e, at) ==  \* mutant: a mask of 0 is left out too
  Entered(e, IF e.mask \in {0, HostSize} THEN NoMask ELSE e.mask, at)
Saved(e, at) == Entered(e, IF e.mask = HostSize THEN NoMask ELSE e.mask, at)

Listed(ctx, e) ==
  LET at == IF ctx.len = 0 THEN 0 ELSE ctx.len + 1
      s == Saved(e, at)
  IN  IF e.route = Loopback THEN ctx
      ELSE [text |-> Append(ctx.text, s), len |-> at + LineLength(s)]
Saving(t) ==
  LET upto[i \in 0..Len(t)] ==
        IF i = 0 THEN [text |-> <<>>, len |-> 0] ELSE Listed(upto[i - 1], t[i])
  IN  upto[Len(t)]
Text(t) == Saving(t).text
TextLength(t) == Saving(t).len

\* The route that sscanf and csp_iflist_get_by_name find in the first n
\* characters of an entry.
RouteRead(e, n) ==
  LET m == n - KeyLength(e)
      s == Spelled[e.route]
  IN  IF m <= 0 THEN NoRoute ELSE s[IF m < Len(s) THEN m ELSE Len(s)]

\* csp_rtable_parse: an entry that is not valid ends it.  Of an entry that the
\* cut leaves a part of, this part is read, maybe as another route.
Parse(before, e) ==
  LET r == RouteRead(e, TextMax - e.at)
  IN  IF ~before.ok \/ e.address > HostMax \/ r = NoRoute
      THEN [before EXCEPT !.ok = FALSE]
      ELSE [before EXCEPT !.table =
              SetInternal(@, e.address, IF e.mask = NoMask THEN HostSize ELSE e.mask, r)]
Load(t, text) ==
  LET upto[i \in 0..Len(text)] ==
        IF i = 0 THEN [table |-> t, ok |-> TRUE] ELSE Parse(upto[i - 1], text[i])
  IN  upto[Len(text)].table

----------------------------------------------------------------------------
\* Properties

\* csp_rtable_find stops at the first exact match and otherwise takes the last
\* of the best: what it finds is the entry with the longest mask, and of
\* several of the same length the one added last, whatever order they came in.
FindIsLongestPrefix ==
  \A a \in Addresses :
    LET covering == {i \in 1..Len(rtable) : Covers(rtable[i], a)}
        longest == {i \in covering : \A j \in covering : rtable[j].mask <= rtable[i].mask}
    IN  FindRoute(rtable, a) =
          IF covering = {} THEN NoRoute
          ELSE rtable[CHOOSE i \in longest : \A j \in longest : j <= i].route

\* The two tables cannot be told apart by who uses only what both support:
\* host routes and the default route.
StaticAgrees ==
  simple => \A a \in Addresses : StaticFindRoute(a) = FindRoute(rtable, a)

\* A saved table loaded into a cleared one routes every packet as before (to
\* the node itself only if that had a route), if csp_rtable_parse reads all of
\* the text and the table has no entry for an address no packet has, at which
\* loading stops.
ReloadKeepsRoutes ==
  TextLength(rtable) <= TextMax /\ (\A i \in 1..Len(rtable) : rtable[i].address # Other) =>
    \A a \in Addresses :
      a # Own \/ Find(rtable, Own, HostSize, TRUE) # 0
        => FindRoute(Load(Cleared, Text(rtable)), a) = FindRoute(rtable, a)

=============================================================================
