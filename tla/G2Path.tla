--------------------------------- MODULE G2Path ---------------------------------
(***************************************************************************)
(* Streams routed by callsign (G2), from CG2ProtocolHandler of one gateway *)
(* to the table of routes of CG2Handler of another.  A header is sent five *)
(* times, a frame once; the network loses packets but keeps their order.   *)
(* A group of StarNet takes its streams before this table sees them: see   *)
(* StarNet.                                                                *)
(***************************************************************************)
EXTENDS Naturals, Sequences

CONSTANTS G2Streams,   \* streams, each with an identifier of its own
          Routes,      \* the slots of m_routes
          Copies,      \* how often a header is sent: 5
          Flight       \* bound: packets under way

NoRoute == "NULL"

ASSUME G2PathAssumption ==
  /\ NoRoute \notin G2Streams /\ Routes \subseteq Nat
  /\ Copies \in Nat \ {0} /\ Flight \in Nat

VARIABLES stream,      \* stream -> "NEW", "TALKING" or "OVER" at its sender
          flight,      \* packets under way
          routes,      \* m_routes: the stream of each slot
          begun        \* stream -> how often the repeater was given its header

g2Vars == <<stream, flight, routes, begun>>

\* What a header may be: for a repeater of ours, for another, or a busy reply
\* (flag 1 is 0x01).
Sorts == {"OURS", "UNKNOWN", "BUSY"}

G2Init ==
  /\ stream = [s \in G2Streams |-> "NEW"] /\ flight = <<>>
  /\ routes = [r \in Routes |-> NoRoute] /\ begun = [s \in G2Streams |-> 0]

Packet(what, s, sort) == [what |-> what, stream |-> s, sort |-> sort]

\* n copies of a packet go out and some of them arrive.
SendPacket(p, n) ==
  \E k \in 0 .. n :
    /\ Len(flight) + k <= Flight
    /\ flight' = flight \o [i \in 1 .. k |-> p]

\* writeHeader
SendHeader(s, sort) ==
  /\ stream[s] = "NEW" /\ stream' = [stream EXCEPT ![s] = "TALKING"]
  /\ SendPacket(Packet("HEADER", s, sort), Copies)
  /\ UNCHANGED <<routes, begun>>

\* writeAMBE
SendFrame(s, end) ==
  /\ stream[s] = "TALKING"
  /\ stream' = [stream EXCEPT ![s] = IF end THEN "OVER" ELSE @]
  /\ SendPacket(Packet(IF end THEN "END" ELSE "FRAME", s, "OURS"), 1)
  /\ UNCHANGED <<routes, begun>>

HasRoute(s) == \E r \in Routes : routes[r] = s
RouteOf(s) == CHOOSE r \in Routes : routes[r] = s
FreeRoutes == {r \in Routes : routes[r] = NoRoute}
FirstRoute == CHOOSE r \in FreeRoutes : \A q \in FreeRoutes : r <= q

\* Mutant: a header that was seen before opens another route.
NewHeaderAnyway(p) == p.sort = "OURS" /\ FreeRoutes # {}

\* process(header): a busy reply, a duplicate, an unknown repeater or a full
\* table are ignored.
NewHeader(p) == p.sort = "OURS" /\ ~HasRoute(p.stream) /\ FreeRoutes # {}

TakeHeader(p) ==
  IF NewHeader(p)
  THEN /\ routes' = [routes EXCEPT ![FirstRoute] = p.stream]
       /\ begun' = [begun EXCEPT ![p.stream] = @ + 1]
  ELSE UNCHANGED <<routes, begun>>

\* process(data): the end removes the route.
TakeFrame(p) ==
  /\ routes' = (IF p.what = "END" /\ HasRoute(p.stream)
                THEN [routes EXCEPT ![RouteOf(p.stream)] = NoRoute] ELSE routes)
  /\ UNCHANGED begun

\* processG2
G2Arrives ==
  /\ flight # <<>> /\ flight' = Tail(flight)
  /\ IF Head(flight).what = "HEADER" THEN TakeHeader(Head(flight)) ELSE TakeFrame(Head(flight))
  /\ UNCHANGED stream

\* clockInt: NETWORK_TIMEOUT, two seconds, which is longer than the copies of a
\* header are apart.
RouteTimeout(r) ==
  /\ routes[r] # NoRoute
  /\ \A i \in 1 .. Len(flight) : flight[i].stream # routes[r] \/ flight[i].what # "HEADER"
  /\ routes' = [routes EXCEPT ![r] = NoRoute]
  /\ UNCHANGED <<stream, flight, begun>>

G2Next ==
  \/ \E s \in G2Streams, sort \in Sorts : SendHeader(s, sort)
  \/ \E s \in G2Streams, end \in BOOLEAN : SendFrame(s, end)
  \/ G2Arrives
  \/ \E r \in Routes : RouteTimeout(r)

G2Spec == G2Init /\ [][G2Next]_g2Vars

\* However often its header arrives, whatever the table held when it did, and
\* whichever of its packets are lost, a repeater is told of a stream once.
BegunOnce == \A s \in G2Streams : begun[s] <= 1
=============================================================================
