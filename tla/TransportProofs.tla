----------------------------- MODULE TransportProofs ----------------------------
(***************************************************************************)
(* Four orders that voice depends on, for any number of streams, slots,    *)
(* copies, packets and units: FramesFollowHeader of a link, BegunOnce of   *)
(* streams routed by callsign, TheirOrder of the packets for a controller, *)
(* and HeadersFirst of what the gateway says itself.  And what must not    *)
(* change on the way, for chains of protocols of any length: SameStream.   *)
(* And that messages are taken for what they were written as: Understood.  *)
(*                                                                         *)
(* No order is an invariant of single steps.  The first needs that the stream  *)
(* of the link is the one the repeater was given last, while anything may  *)
(* reset it; the second that no header follows its end on the wire and     *)
(* that a stream once told of has a route for as long as its headers come; *)
(* the third what every slot of the ring holds, also after it has run      *)
(* over; the fourth that no unit waits while somebody talks, because it    *)
(* would begin unheard and go on when he ends.                             *)
(***************************************************************************)
EXTENDS LinkStreams, G2Path, IcomLink, Units, Packets, WellFoundedInduction, TLAPS

-----------------------------------------------------------------------------
\* A link's frames and its header.

StreamTypeOK ==
  /\ kind \in Kinds
  /\ streamId \in Ids \cup {0} /\ kept \in Ids \cup {0}
  /\ protocol \in {"DCS", "CCS"} => kept = 0
  /\ destination \in Homes \cup {Elsewhere} /\ (way # "DONGLE" => destination \in Homes)
  /\ opened \in [Homes -> Ids \cup {0}]

\* What is under way is what the repeater was given the header of; the header
\* that is kept, if there is one, is that stream's.
StreamOpened ==
  way # "DONGLE" =>
    /\ given.what = "FRAME" => given.to = destination
    /\ streamId # 0 => opened[destination] = streamId /\ kept \in {0, streamId}

FollowInv == StreamTypeOK /\ StreamOpened /\ FramesFollowHeader

\* It holds of a link that has not been made.
LEMMA InitFollow == StreamInit => FollowInv
BY LinkStreamsAssumption
   DEF StreamInit, FollowInv, StreamTypeOK, StreamOpened, FramesFollowHeader, Silence, Kinds, way, protocol

\* Nothing is given, and the stream goes on or is forgotten.
LEMMA KeepsFollow ==
  ASSUME FollowInv, UNCHANGED <<kind, given, opened>>,
         streamId' \in {0, streamId}, kept' \in {0, kept},
         destination' \in Homes \cup {Elsewhere}, way # "DONGLE" => destination' = destination
  PROVE  FollowInv'
BY DEF FollowInv, StreamTypeOK, StreamOpened, FramesFollowHeader, way, protocol

\* A header of D-Extra or D-Plus.
LEMMA HeaderFollow ==
  ASSUME FollowInv, NEW id \in Ids, NEW rpt \in Homes \cup {Elsewhere}, NEW barred \in BOOLEAN,
         HeaderIn(id, rpt, barred)
  PROVE  FollowInv'
<1>1. UNCHANGED kind /\ protocol \in {"DEXTRA", "DPLUS"}
  BY DEF HeaderIn
<1>2. CASE Rejected
  BY <1>1, <1>2, KeepsFollow DEF Rejected, FollowInv, StreamTypeOK
<1>3. CASE NotOpened /\ UNCHANGED destination
  BY <1>1, <1>3, KeepsFollow DEF NotOpened, FollowInv, StreamTypeOK
<1>4. CASE TakeLinkHeader(id, rpt)
  <2>1. Known(rpt) \in Homes \cup {Elsewhere}
    BY DEF Known
  <2>2. /\ destination' \in Homes \cup {Elsewhere}
        /\ way # "DONGLE" => destination' = destination
    BY <1>4, <2>1 DEF TakeLinkHeader, FollowInv, StreamTypeOK
  <2>3. CASE NotOpened
    BY <1>1, <2>2, <2>3, KeepsFollow DEF NotOpened
  <2>4. CASE ~NotOpened
    <3>1. OpenStream(id, rpt) /\ rpt \in Homes /\ (way = "DONGLE" \/ destination = rpt)
      BY <1>4, <2>4 DEF TakeLinkHeader
    <3>2. /\ streamId' = id /\ kept' = id /\ opened' = [opened EXCEPT ![rpt] = id]
          /\ given'.what = "HEADER"
      BY <3>1 DEF OpenStream, Give
    <3>3. opened' \in [Homes -> Ids \cup {0}] /\ opened'[rpt] = id
      BY <3>1, <3>2 DEF FollowInv, StreamTypeOK
    <3> QED BY <1>1, <2>2, <3>1, <3>2, <3>3
            DEF FollowInv, StreamTypeOK, StreamOpened, FramesFollowHeader, way, protocol
  <2> QED BY <2>3, <2>4
<1> QED BY <1>2, <1>3, <1>4 DEF HeaderIn, DExtraHeader, DPlusHeader

\* A frame of D-Extra or D-Plus: only of the stream under way.
LEMMA FrameFollow ==
  ASSUME FollowInv, NEW id \in Ids, NEW first \in BOOLEAN, NEW end \in BOOLEAN, FrameIn(id, first, end)
  PROVE  FollowInv'
<1>1. UNCHANGED kind /\ id # 0
  BY LinkStreamsAssumption DEF FrameIn
<1>2. CASE Dropped
  BY <1>1, <1>2, KeepsFollow DEF Dropped, NotOpened, FollowInv, StreamTypeOK
<1>3. CASE PassFrame(id, first, end) /\ streamId = id
  <2>1. /\ given' = [what |-> "FRAME", to |-> destination, id |-> id] /\ destination' = destination
        /\ opened' = [h \in Homes |-> IF first /\ kept # 0 /\ h = destination THEN kept ELSE opened[h]]
        /\ streamId' \in {0, streamId} /\ kept' \in {0, kept}
    BY <1>3 DEF PassFrame, Give, Reset
  <2>2. opened' \in [Homes -> Ids \cup {0}]
    BY <2>1 DEF FollowInv, StreamTypeOK
  <2>3. way # "DONGLE" => opened'[destination] = id
    BY <1>1, <1>3, <2>1 DEF FollowInv, StreamTypeOK, StreamOpened
  <2> QED BY <1>1, <1>3, <2>1, <2>2, <2>3
          DEF FollowInv, StreamTypeOK, StreamOpened, FramesFollowHeader, way, protocol
<1> QED BY <1>2, <1>3 DEF FrameIn, DExtraFrame, DPlusFrame

\* A frame of DCS or CCS, which has its header in it.
LEMMA CombinedFollow ==
  ASSUME FollowInv, NEW id \in Ids, NEW rpt \in Homes \cup {Elsewhere}, NEW barred \in BOOLEAN,
         NEW first \in BOOLEAN, NEW end \in BOOLEAN, CombinedFrameIn(id, rpt, barred, first, end)
  PROVE  FollowInv'
<1>1. UNCHANGED kind /\ way # "DONGLE" /\ id # 0 /\ destination \in Homes
  BY LinkStreamsAssumption DEF CombinedFrameIn, FollowInv, StreamTypeOK, Kinds, way, protocol
<1>2. CASE Rejected
  BY <1>1, <1>2, KeepsFollow DEF Rejected, FollowInv, StreamTypeOK
<1>3. CASE Dropped
  BY <1>1, <1>3, KeepsFollow DEF Dropped, NotOpened, FollowInv, StreamTypeOK
<1>4. ASSUME given' = [what |-> "FRAME", to |-> destination, id |-> id], destination' = destination,
             opened' = IF streamId = id THEN opened ELSE [opened EXCEPT ![destination] = id],
             streamId' \in {0, id}, kept' \in {0, kept}
      PROVE  FollowInv'
  <2>1. kept' = 0
    BY <1>4 DEF CombinedFrameIn, FollowInv, StreamTypeOK, protocol
  <2>2. opened' \in [Homes -> Ids \cup {0}] /\ opened'[destination] = id
    BY <1>1, <1>4 DEF FollowInv, StreamTypeOK, StreamOpened
  <2> QED BY <1>1, <1>4, <2>1, <2>2
          DEF FollowInv, StreamTypeOK, StreamOpened, FramesFollowHeader, way, protocol
<1>5. CASE DCSFrame(id, rpt, barred, first, end) /\ ~Rejected /\ ~Dropped
  <2>1. /\ streamId \in {0, id} /\ opened' = IF streamId = 0 THEN [opened EXCEPT ![destination] = id] ELSE opened
        /\ given' = [what |-> "FRAME", to |-> destination, id |-> id]
        /\ kept' = 0 /\ destination' = destination /\ streamId' \in {0, id}
    BY <1>5 DEF DCSFrame, Give
  <2> QED BY <1>1, <1>4, <2>1
<1>6. CASE CCSFrame(id) /\ ~Dropped
  <2>1. /\ opened' = IF streamId # id THEN [opened EXCEPT ![destination] = id] ELSE opened
        /\ given' = [what |-> "FRAME", to |-> destination, id |-> id]
        /\ UNCHANGED <<kept, destination>> /\ streamId' = id
    BY <1>6 DEF CCSFrame, Give
  <2> QED BY <1>4, <2>1
<1> QED BY <1>2, <1>3, <1>5, <1>6 DEF CombinedFrameIn

\* A repeater is given frames of the stream whose header this link gave it
\* last, for any number of streams and repeaters, over every kind of link that
\* is not a dongle's, whatever is lost, rejected, repeated or retried.
THEOREM HeaderThenFrames == StreamSpec => []FramesFollowHeader
<1>1. FollowInv /\ [StreamNext]_streamVars => FollowInv'
  <2> SUFFICES ASSUME FollowInv, [StreamNext]_streamVars PROVE FollowInv'
    OBVIOUS
  <2>1. CASE UNCHANGED streamVars
    BY <2>1, KeepsFollow DEF streamVars, FollowInv, StreamTypeOK
  <2>2. ASSUME NEW id \in Ids, NEW rpt \in Homes \cup {Elsewhere}, NEW barred \in BOOLEAN,
               HeaderIn(id, rpt, barred)
        PROVE  FollowInv'
    BY <2>2, HeaderFollow
  <2>3. ASSUME NEW id \in Ids, NEW first \in BOOLEAN, NEW end \in BOOLEAN, FrameIn(id, first, end)
        PROVE  FollowInv'
    BY <2>3, FrameFollow
  <2>4. ASSUME NEW id \in Ids, NEW rpt \in Homes \cup {Elsewhere}, NEW barred \in BOOLEAN,
               NEW first \in BOOLEAN, NEW end \in BOOLEAN, CombinedFrameIn(id, rpt, barred, first, end)
        PROVE  FollowInv'
    BY <2>4, CombinedFollow
  <2>5. CASE InactivityTimeout
    BY <2>5, KeepsFollow DEF InactivityTimeout, StreamLost, Reset, FollowInv, StreamTypeOK
  <2>6. CASE LinkChanges \/ FallsSilent
    BY <2>6, KeepsFollow DEF LinkChanges, FallsSilent, FollowInv, StreamTypeOK
  <2>7. CASE LinkGone
    BY <2>7, KeepsFollow DEF LinkGone, Reset, FollowInv, StreamTypeOK
  <2>8. CASE LinkRetried
    BY <2>8, KeepsFollow DEF LinkRetried, FollowInv, StreamTypeOK
  <2> QED BY <2>1, <2>2, <2>3, <2>4, <2>5, <2>6, <2>7, <2>8 DEF StreamNext
<1> QED BY <1>1, InitFollow, PTL DEF StreamSpec, FollowInv

-----------------------------------------------------------------------------
\* Streams routed by callsign.

G2Packets == [what : {"HEADER", "FRAME", "END"}, stream : G2Streams, sort : Sorts]

G2TypeOK ==
  /\ stream \in [G2Streams -> {"NEW", "TALKING", "OVER"}]
  /\ flight \in Seq(G2Packets)
  /\ routes \in [Routes -> G2Streams \cup {NoRoute}] /\ begun \in [G2Streams -> 0 .. 1]

HeaderUnderWay(wire, s) == \E i \in 1 .. Len(wire) : wire[i].stream = s /\ wire[i].what = "HEADER"

\* Nothing is under way of a stream that has not begun.
NewUnheard ==
  \A s \in G2Streams : stream[s] = "NEW" =>
    begun[s] = 0 /\ \A i \in 1 .. Len(flight) : flight[i].stream # s

\* Headers are the first packets of their stream.
HeadersLead(wire) ==
  \A i, j \in 1 .. Len(wire) :
    i <= j /\ wire[j].what = "HEADER" /\ wire[i].stream = wire[j].stream => wire[i].what = "HEADER"

\* A stream the repeater was told of has a route while headers of it may come.
ToldHasRoute ==
  \A s \in G2Streams : begun[s] = 1 => HasRoute(s) \/ ~HeaderUnderWay(flight, s)

OnceInv == G2TypeOK /\ NewUnheard /\ HeadersLead(flight) /\ ToldHasRoute

\* The first free slot is a free slot.
LEMMA FirstRouteFree == ASSUME FreeRoutes # {} PROVE FirstRoute \in FreeRoutes
<1>1. FreeRoutes \subseteq Nat
  BY G2PathAssumption DEF FreeRoutes
<1>2. PICK r \in FreeRoutes : \A q \in FreeRoutes : ~(<<q, r>> \in OpToRel(<, Nat))
  BY <1>1, NatLessThanWellFounded, WFMin
<1>3. \A q \in FreeRoutes : ~(q < r)
  BY <1>1, <1>2, Zenon DEF OpToRel
<1>4. \A q \in FreeRoutes : r <= q
  BY <1>1, <1>3
<1> QED BY <1>4 DEF FirstRoute

\* Before anything is sent.
LEMMA InitOnce == G2Init => OnceInv
BY G2PathAssumption DEF G2Init, OnceInv, G2TypeOK, NewUnheard, HeadersLead, ToldHasRoute

\* What some copies of a packet add to the wire.
LEMMA SendFacts ==
  ASSUME NEW p \in G2Packets, NEW n \in Nat, flight \in Seq(G2Packets), SendPacket(p, n)
  PROVE  /\ flight' \in Seq(G2Packets) /\ Len(flight') \in Nat /\ Len(flight) <= Len(flight')
         /\ \A i \in 1 .. Len(flight') :
              flight'[i] = IF i <= Len(flight) THEN flight[i] ELSE p
<1>1. PICK k \in 0 .. n : flight' = flight \o [i \in 1 .. k |-> p]
  BY DEF SendPacket
<1> DEFINE copies == [i \in 1 .. k |-> p]
<1>2. copies \in Seq(G2Packets) /\ Len(copies) = k /\ \A i \in 1 .. k : copies[i] = p
  OBVIOUS
<1> HIDE DEF copies
<1>3. flight' = flight \o copies
  BY <1>1 DEF copies
<1> QED BY <1>2, <1>3

\* A sender's packets: headers only of a stream that has not begun.
LEMMA SendKeepsOnce ==
  ASSUME OnceInv, NEW p \in G2Packets, NEW n \in Nat, SendPacket(p, n),
         UNCHANGED <<routes, begun>>,
         stream' \in [G2Streams -> {"NEW", "TALKING", "OVER"}],
         \A s \in G2Streams : stream'[s] = "NEW" => stream[s] = "NEW" /\ s # p.stream,
         p.what = "HEADER" => stream[p.stream] = "NEW"
  PROVE  OnceInv'
<1>1. /\ flight' \in Seq(G2Packets) /\ Len(flight') \in Nat /\ Len(flight) <= Len(flight')
      /\ \A i \in 1 .. Len(flight') :
           flight'[i] = IF i <= Len(flight) THEN flight[i] ELSE p
  BY SendFacts DEF OnceInv, G2TypeOK
<1>2. Len(flight) \in Nat /\ p.stream \in G2Streams
  BY DEF OnceInv, G2TypeOK, G2Packets
<1>3. p.what = "HEADER" => begun[p.stream] = 0 /\ \A i \in 1 .. Len(flight) : flight[i].stream # p.stream
  BY <1>2 DEF OnceInv, NewUnheard
<1>4. G2TypeOK'
  BY <1>1 DEF OnceInv, G2TypeOK
<1>5. NewUnheard'
  BY <1>1, <1>2 DEF OnceInv, NewUnheard
<1>6. HeadersLead(flight)'
  BY <1>1, <1>2, <1>3 DEF OnceInv, HeadersLead
<1>7. ToldHasRoute'
  <2> SUFFICES ASSUME NEW s \in G2Streams, begun[s] = 1, HeaderUnderWay(flight', s)
               PROVE  HasRoute(s)'
    BY DEF ToldHasRoute
  <2>1. HeaderUnderWay(flight, s)
    BY <1>1, <1>2, <1>3 DEF HeaderUnderWay
  <2> QED BY <2>1 DEF OnceInv, ToldHasRoute, HasRoute
<1> QED BY <1>4, <1>5, <1>6, <1>7 DEF OnceInv

\* A packet arrives: a header may begin its stream, an end takes its route.
LEMMA ArriveOnce == ASSUME OnceInv, G2Arrives PROVE OnceInv'
<1>1. /\ flight \in Seq(G2Packets) /\ flight # <<>> /\ flight' = Tail(flight) /\ UNCHANGED stream
      /\ routes \in [Routes -> G2Streams \cup {NoRoute}] /\ begun \in [G2Streams -> 0 .. 1]
  BY DEF OnceInv, G2TypeOK, G2Arrives
<1>2. /\ flight[1] \in G2Packets /\ Head(flight) = flight[1] /\ flight' \in Seq(G2Packets)
      /\ Len(flight) \in Nat /\ Len(flight) >= 1 /\ Len(flight') = Len(flight) - 1
      /\ \A i \in 1 .. Len(flight') : flight'[i] = flight[i + 1]
  BY <1>1
<1> PICK p \in G2Packets : p = flight[1] /\ p = Head(flight)
  BY <1>2
<1>3. p.stream \in G2Streams /\ stream[p.stream] # "NEW"
  BY <1>2 DEF OnceInv, NewUnheard, G2Packets
<1>4. HeadersLead(flight)'
  <2> SUFFICES ASSUME NEW i \in 1 .. Len(flight'), NEW j \in 1 .. Len(flight'), i <= j,
                      flight'[j].what = "HEADER", flight'[i].stream = flight'[j].stream
               PROVE  flight'[i].what = "HEADER"
    BY DEF HeadersLead
  <2>1. i + 1 \in 1 .. Len(flight) /\ j + 1 \in 1 .. Len(flight) /\ i + 1 <= j + 1
    BY <1>2, SMTT(60)
  <2> QED BY <1>2, <2>1 DEF OnceInv, HeadersLead
<1>5. \A s \in G2Streams : HeaderUnderWay(flight', s) => HeaderUnderWay(flight, s)
  <2> SUFFICES ASSUME NEW s \in G2Streams, NEW i \in 1 .. Len(flight'),
                      flight'[i].stream = s, flight'[i].what = "HEADER"
               PROVE  HeaderUnderWay(flight, s)
    BY DEF HeaderUnderWay
  <2>1. i + 1 \in 1 .. Len(flight) /\ flight[i + 1] = flight'[i]
    BY <1>2
  <2> QED BY <2>1 DEF HeaderUnderWay
<1>6. ASSUME routes' \in [Routes -> G2Streams \cup {NoRoute}],
             begun' \in [G2Streams -> 0 .. 1],
             \A s \in G2Streams \ {p.stream} : begun'[s] = begun[s] /\ (HasRoute(s) => HasRoute(s)'),
             begun'[p.stream] = 1 => HasRoute(p.stream)' \/ ~HeaderUnderWay(flight', p.stream)
      PROVE  OnceInv'
  <2>1. G2TypeOK'
    BY <1>1, <1>2, <1>6 DEF OnceInv, G2TypeOK
  <2>2. NewUnheard'
    <3> SUFFICES ASSUME NEW s \in G2Streams, stream[s] = "NEW"
                 PROVE  begun'[s] = 0 /\ \A i \in 1 .. Len(flight') : flight'[i].stream # s
      BY <1>1 DEF NewUnheard
    <3>1. begun[s] = 0 /\ \A i \in 1 .. Len(flight) : flight[i].stream # s
      BY DEF OnceInv, NewUnheard
    <3>2. begun'[s] = 0
      BY <1>3, <1>6, <3>1
    <3>3. ASSUME NEW i \in 1 .. Len(flight') PROVE flight'[i].stream # s
      <4>1. i + 1 \in 1 .. Len(flight) /\ flight'[i] = flight[i + 1]
        BY <1>2
      <4> QED BY <3>1, <4>1
    <3> QED BY <3>2, <3>3
  <2>3. ToldHasRoute'
    <3> SUFFICES ASSUME NEW s \in G2Streams, begun'[s] = 1, HeaderUnderWay(flight', s)
                 PROVE  HasRoute(s)'
      BY DEF ToldHasRoute
    <3>1. CASE s = p.stream
      BY <1>6, <3>1
    <3>2. CASE s # p.stream
      <4>1. begun[s] = 1 /\ HeaderUnderWay(flight, s)
        BY <1>5, <1>6, <3>2
      <4>2. HasRoute(s)
        BY <4>1 DEF OnceInv, ToldHasRoute
      <4> QED BY <1>6, <3>2, <4>2
    <3> QED BY <3>1, <3>2
  <2> QED BY <1>4, <2>1, <2>2, <2>3 DEF OnceInv
<1>7. CASE p.what = "HEADER"
  <2>1. TakeHeader(p)
    BY <1>7 DEF G2Arrives
  <2>2. HeaderUnderWay(flight, p.stream)
    BY <1>2, <1>7 DEF HeaderUnderWay
  <2>3. CASE NewHeader(p)
    <3>1. begun[p.stream] = 0
      BY <1>1, <1>3, <2>2, <2>3 DEF OnceInv, ToldHasRoute, NewHeader
    <3>2. FirstRoute \in Routes /\ routes[FirstRoute] = NoRoute
      BY <2>3, FirstRouteFree DEF NewHeader, FreeRoutes
    <3>3. /\ routes' = [routes EXCEPT ![FirstRoute] = p.stream]
          /\ begun' = [begun EXCEPT ![p.stream] = begun[p.stream] + 1]
      BY <2>1, <2>3 DEF TakeHeader
    <3>4. \A s \in G2Streams : HasRoute(s) => HasRoute(s)'
      BY <1>1, <3>2, <3>3, G2PathAssumption DEF HasRoute
    <3>5. HasRoute(p.stream)'
      BY <1>1, <3>2, <3>3 DEF HasRoute
    <3> QED BY <1>1, <1>3, <1>6, <3>1, <3>2, <3>3, <3>4, <3>5
  <2>4. CASE ~NewHeader(p)
    <3>1. UNCHANGED <<routes, begun>>
      BY <2>1, <2>4 DEF TakeHeader
    <3>2. \A s \in G2Streams : HasRoute(s)' <=> HasRoute(s)
      BY <3>1 DEF HasRoute
    <3>3. begun[p.stream] = 1 => HasRoute(p.stream) \/ ~HeaderUnderWay(flight', p.stream)
      BY <1>3, <1>5 DEF OnceInv, ToldHasRoute
    <3> QED BY <1>1, <1>3, <1>6, <3>1, <3>2, <3>3
  <2> QED BY <2>3, <2>4
<1>8. CASE p.what # "HEADER"
  <2>1. /\ routes' = (IF p.what = "END" /\ HasRoute(p.stream)
                      THEN [routes EXCEPT ![RouteOf(p.stream)] = NoRoute] ELSE routes)
        /\ UNCHANGED begun
    BY <1>8 DEF G2Arrives, TakeFrame
  <2>2. ~HeaderUnderWay(flight, p.stream)
    BY <1>2, <1>8 DEF OnceInv, HeadersLead, HeaderUnderWay
  <2>3. HasRoute(p.stream) => RouteOf(p.stream) \in Routes /\ routes[RouteOf(p.stream)] = p.stream
    BY DEF HasRoute, RouteOf
  <2>4. \A s \in G2Streams \ {p.stream} : HasRoute(s) => HasRoute(s)'
    BY <1>1, <2>1, <2>3, G2PathAssumption DEF HasRoute
  <2>5. routes' \in [Routes -> G2Streams \cup {NoRoute}]
    BY <1>1, <2>1
  <2> QED BY <1>1, <1>3, <1>5, <1>6, <2>1, <2>2, <2>4, <2>5
<1> QED BY <1>7, <1>8

\* However often its header arrives and whatever is lost, for tables and
\* headers of any size, a repeater is told of a stream once.
THEOREM StreamBegunOnce == G2Spec => []BegunOnce
<1>1. OnceInv /\ [G2Next]_g2Vars => OnceInv'
  <2> SUFFICES ASSUME OnceInv, [G2Next]_g2Vars PROVE OnceInv'
    OBVIOUS
  <2>1. CASE UNCHANGED g2Vars
    BY <2>1 DEF g2Vars, OnceInv, G2TypeOK, NewUnheard, HeadersLead, ToldHasRoute, HasRoute, HeaderUnderWay
  <2>2. ASSUME NEW s \in G2Streams, NEW sort \in Sorts, SendHeader(s, sort) PROVE OnceInv'
    <3> DEFINE p == Packet("HEADER", s, sort)
    <3>1. p \in G2Packets /\ p.stream = s /\ p.what = "HEADER" /\ Copies \in Nat
      BY G2PathAssumption DEF Packet, G2Packets
    <3>2. /\ SendPacket(p, Copies) /\ UNCHANGED <<routes, begun>> /\ stream[s] = "NEW"
          /\ stream' = [stream EXCEPT ![s] = "TALKING"]
      BY <2>2 DEF SendHeader
    <3>3. stream' \in [G2Streams -> {"NEW", "TALKING", "OVER"}]
      BY <3>2 DEF OnceInv, G2TypeOK
    <3>4. \A q \in G2Streams : stream'[q] = "NEW" => stream[q] = "NEW" /\ q # s
      BY <3>2 DEF OnceInv, G2TypeOK
    <3> HIDE DEF p
    <3> QED BY <3>1, <3>2, <3>3, <3>4, SendKeepsOnce
  <2>3. ASSUME NEW s \in G2Streams, NEW end \in BOOLEAN, SendFrame(s, end) PROVE OnceInv'
    <3> DEFINE p == Packet(IF end THEN "END" ELSE "FRAME", s, "OURS")
    <3>1. p \in G2Packets /\ p.stream = s /\ p.what # "HEADER"
      BY DEF Packet, G2Packets, Sorts
    <3>2. /\ SendPacket(p, 1) /\ UNCHANGED <<routes, begun>> /\ stream[s] = "TALKING"
          /\ stream' = [stream EXCEPT ![s] = IF end THEN "OVER" ELSE @]
      BY <2>3 DEF SendFrame
    <3>3. stream' \in [G2Streams -> {"NEW", "TALKING", "OVER"}]
      BY <3>2 DEF OnceInv, G2TypeOK
    <3>4. \A q \in G2Streams : stream'[q] = "NEW" => stream[q] = "NEW" /\ q # s
      BY <3>2 DEF OnceInv, G2TypeOK
    <3> HIDE DEF p
    <3> QED BY <3>1, <3>2, <3>3, <3>4, SendKeepsOnce
  <2>4. CASE G2Arrives
    BY <2>4, ArriveOnce
  <2>5. ASSUME NEW r \in Routes, RouteTimeout(r) PROVE OnceInv'
    <3>1. /\ routes' = [routes EXCEPT ![r] = NoRoute] /\ UNCHANGED <<stream, flight, begun>>
          /\ ~HeaderUnderWay(flight, routes[r])
      BY <2>5 DEF RouteTimeout, HeaderUnderWay
    <3>2. G2TypeOK' /\ NewUnheard' /\ HeadersLead(flight)'
      BY <3>1 DEF OnceInv, G2TypeOK, NewUnheard, HeadersLead
    <3>3. \A s \in G2Streams : HasRoute(s) => HasRoute(s)' \/ s = routes[r]
      BY <3>1 DEF HasRoute, OnceInv, G2TypeOK
    <3>4. ToldHasRoute'
      BY <3>1, <3>3 DEF OnceInv, ToldHasRoute
    <3> QED BY <3>2, <3>4 DEF OnceInv
  <2> QED BY <2>1, <2>2, <2>3, <2>4, <2>5 DEF G2Next
<1>2. OnceInv => BegunOnce
  BY DEF OnceInv, G2TypeOK, BegunOnce
<1> QED BY <1>1, <1>2, InitOnce, PTL DEF G2Spec

-----------------------------------------------------------------------------
\* Indices of a ring.

\* Division with remainder.
LEMMA DivMod ==
  ASSUME NEW R \in Nat, R > 0, NEW x \in Nat
  PROVE  x = R * (x \div R) + (x % R) /\ x \div R \in Nat /\ x % R \in 0 .. R - 1
OBVIOUS

\* The remainder is unique.
LEMMA ModUnique ==
  ASSUME NEW R \in Nat, R > 0, NEW q \in Nat, NEW r \in 0 .. R - 1
  PROVE  (R * q + r) % R = r
OBVIOUS

\* A round of the ring leads back.
LEMMA ModRound == ASSUME NEW R \in Nat, R > 0, NEW x \in Nat PROVE (x + R) % R = x % R
<1> DEFINE q == x \div R
           r == x % R
<1>1. x = R * q + r /\ q \in Nat /\ r \in 0 .. R - 1
  BY DivMod
<1> HIDE DEF q, r
<1>2. R * (q + 1) = R * q + R /\ R * q \in Nat /\ q + 1 \in Nat
  BY <1>1
<1>3. x + R = R * (q + 1) + r
  BY <1>1, <1>2
<1>4. (R * (q + 1) + r) % R = r
  BY <1>1, <1>2, ModUnique
<1> QED BY <1>3, <1>4 DEF r

\* From an index on, as from the count.
LEMMA ModShift ==
  ASSUME NEW R \in Nat, R > 0, NEW x \in Nat, NEW n \in Nat PROVE ((x % R) + n) % R = (x + n) % R
<1> DEFINE q == x \div R
           r == x % R
           q2 == (r + n) \div R
           r2 == (r + n) % R
<1>1. x = R * q + r /\ q \in Nat /\ r \in 0 .. R - 1
  BY DivMod
<1>2. r + n \in Nat
  BY <1>1
<1>3. r + n = R * q2 + r2 /\ q2 \in Nat /\ r2 \in 0 .. R - 1
  BY <1>2, DivMod
<1> HIDE DEF q, r, q2, r2
<1>4. R * (q + q2) = R * q + R * q2 /\ R * q \in Nat /\ R * q2 \in Nat /\ q + q2 \in Nat
  BY <1>1, <1>3
<1>5. x + n = R * (q + q2) + r2
  BY <1>1, <1>3, <1>4
<1>6. (R * (q + q2) + r2) % R = r2
  BY <1>3, <1>4, ModUnique
<1> QED BY <1>5, <1>6 DEF r2, r

\* Two counts with the same index are a round of the ring apart.
LEMMA ModGap ==
  ASSUME NEW R \in Nat, R > 0, NEW x \in Nat, NEW y \in Nat, x % R = y % R, x < y PROVE x + R <= y
<1> DEFINE a == x \div R
           b == y \div R
           r == x % R
<1>1. x = R * a + r /\ y = R * b + r /\ a \in Nat /\ b \in Nat /\ r \in Nat
  BY DivMod
<1> HIDE DEF a, b, r
<1>2. R * b > R * a /\ R * a \in Nat /\ R * b \in Nat
  BY <1>1
<1>3. b - a >= 1
  BY <1>1, <1>2
<1>4. R * (b - a) = R * b - R * a /\ b - a \in Nat
  BY <1>1, <1>3
<1>5. R * (b - a) >= R
  BY <1>3, <1>4
<1> QED BY <1>1, <1>2, <1>4, <1>5

-----------------------------------------------------------------------------
\* The packets for a controller.

OnWire == [seq : Nat, packet : Nat]

IcomTypeOK ==
  /\ slots \in [0 .. RingSize - 1 -> Nat] /\ made \in Nat
  /\ ackQueue \in Nat /\ seqNo \in Nat /\ taken \subseteq Nat
  /\ toIcom \in Seq(OnWire) /\ toGateway \in Seq(Nat)

\* A slot holds the last packet that was put at it, if any was.
SlotOf(table, count) ==
  \A i \in 0 .. RingSize - 1 :
    IF table[i] = 0 THEN count <= i
    ELSE table[i] <= count /\ count < table[i] + RingSize /\ (table[i] - 1) % RingSize = i

RingInv == iPtr = made % RingSize /\ SlotOf(slots, made)

\* What is sent next was queued after all that has been sent.
SentUpTo(last) ==
  /\ last <= made /\ oPtr = last % RingSize /\ ackQueue \in {0, last}
  /\ \A i \in 1 .. Len(toIcom) : toIcom[i].packet <= last
  /\ \A p \in taken : p <= last

\* The wire keeps the order, and nothing on it is older than what was taken.
WireInOrder ==
  /\ \A i, j \in 1 .. Len(toIcom) : i <= j => toIcom[i].packet <= toIcom[j].packet
  /\ \A i \in 1 .. Len(toIcom), p \in taken : p <= toIcom[i].packet

IcomInv == IcomTypeOK /\ RingInv /\ (\E last \in Nat : SentUpTo(last)) /\ WireInOrder

\* The ring is written, also when it runs over: its slots hold the last
\* packets put at them.
LEMMA AddDataRing ==
  ASSUME IcomTypeOK, RingInv, NEW n \in 1 .. 3, AddData(n)
  PROVE  slots' \in [0 .. RingSize - 1 -> Nat] /\ made' \in Nat /\ made <= made' /\ RingInv'
<1> DEFINE R == RingSize
           at(i, k) == i = (iPtr + k - 1) % R
<1>1. R \in Nat /\ R > 2 /\ R > 0 /\ made \in Nat /\ iPtr = made % R /\ iPtr \in 0 .. R - 1
  BY IcomLinkAssumption, DivMod DEF IcomTypeOK, RingInv
<1>2. made' = made + n /\ iPtr' = (iPtr + n) % R
  BY DEF AddData
<1>3. DOMAIN slots = 0 .. R - 1 /\ \A i \in 0 .. R - 1 : slots[i] \in Nat
  BY DEF IcomTypeOK
<1>4. /\ DOMAIN slots' = 0 .. R - 1
      /\ \A i \in 0 .. R - 1 : IF \E k \in 1 .. n : at(i, k)
                               THEN \E k \in 1 .. n : at(i, k) /\ slots'[i] = made + k
                               ELSE slots'[i] = slots[i]
  BY <1>3 DEF AddData
<1>5. iPtr' = made' % R
  <2>1. R > 0 /\ n \in Nat
    BY <1>1
  <2>2. ((made % R) + n) % R = (made + n) % R
    BY <1>1, <2>1, ModShift
  <2> QED BY <1>1, <1>2, <2>2
<1>6. ASSUME NEW i \in 0 .. R - 1, NEW k \in 1 .. n
      PROVE  at(i, k) <=> i = (made + k - 1) % R
  <2>1. k - 1 \in Nat /\ iPtr + k - 1 = iPtr + (k - 1) /\ made + k - 1 = made + (k - 1)
    BY <1>1
  <2>2. \A j \in Nat : ((made % R) + j) % R = (made + j) % R
    BY <1>1, ModShift
  <2>3. (iPtr + (k - 1)) % R = (made + (k - 1)) % R
    BY <1>1, <2>1, <2>2
  <2> QED BY <2>1, <2>3
<1> HIDE DEF at
<1>7. ASSUME NEW i \in 0 .. R - 1
      PROVE  /\ slots'[i] \in Nat
             /\ IF slots'[i] = 0 THEN made' <= i
                ELSE slots'[i] <= made' /\ made' < slots'[i] + R /\ (slots'[i] - 1) % R = i
  <2>1. CASE \E k \in 1 .. n : at(i, k)
    <3>1. PICK k \in 1 .. n : at(i, k) /\ slots'[i] = made + k
      BY <1>4, <2>1
    <3> QED BY <1>1, <1>2, <1>6, <3>1
  <2>2. CASE ~(\E k \in 1 .. n : at(i, k)) /\ slots[i] = 0
    <3>1. made <= i /\ slots'[i] = 0
      BY <1>4, <2>2 DEF RingInv, SlotOf
    <3>2. ASSUME i < made + n PROVE FALSE
      <4>1. i - made + 1 \in 1 .. n /\ made + (i - made + 1) - 1 = i
        BY <1>1, <3>1, <3>2
      <4>2. i % R = i
        BY <1>1
      <4> QED BY <1>6, <2>2, <4>1, <4>2
    <3> QED BY <1>1, <1>2, <3>1, <3>2
  <2>3. CASE ~(\E k \in 1 .. n : at(i, k)) /\ slots[i] # 0
    <3> DEFINE v == slots[i]
    <3>1. v \in Nat /\ v >= 1 /\ v <= made /\ made < v + R /\ (v - 1) % R = i /\ slots'[i] = v
      BY <1>3, <1>4, <2>3 DEF RingInv, SlotOf
    <3> HIDE DEF v
    <3>2. ASSUME v + R <= made + n PROVE FALSE
      <4>1. v + R - made \in 1 .. n /\ made + (v + R - made) - 1 = (v - 1) + R
        BY <1>1, <3>1, <3>2
      <4>2. v - 1 \in Nat /\ R > 0
        BY <1>1, <3>1
      <4>3. ((v - 1) + R) % R = i
        BY <1>1, <3>1, <4>2, ModRound
      <4> QED BY <1>6, <2>3, <4>1, <4>3
    <3> QED BY <1>1, <1>2, <3>1, <3>2
  <2> QED BY <2>1, <2>2, <2>3
<1>8. slots' \in [0 .. R - 1 -> Nat]
  <2>1. slots' = [i \in 0 .. R - 1 |-> slots'[i]]
    BY <1>3 DEF AddData
  <2> QED BY <1>7, <2>1
<1> QED BY <1>1, <1>2, <1>5, <1>7, <1>8 DEF RingInv, SlotOf

\* Before the link is open.
LEMMA InitIcom == IcomInit => IcomInv
<1> SUFFICES ASSUME IcomInit PROVE IcomInv
  OBVIOUS
<1>1. RingSize \in Nat /\ RingSize > 0 /\ 0 % RingSize = 0
  <2>1. RingSize \in Nat /\ RingSize > 0
    BY IcomLinkAssumption
  <2> QED BY <2>1
<1>2. IcomTypeOK
  BY <1>1 DEF IcomInit, IcomTypeOK
<1>3. RingInv /\ SentUpTo(0) /\ WireInOrder
  BY <1>1 DEF IcomInit, RingInv, SlotOf, SentUpTo, WireInOrder
<1> QED BY <1>2, <1>3 DEF IcomInv

\* The oldest slot holds a packet that is later than all that were sent, also
\* when it has been written over.
LEMMA NextIsLater ==
  ASSUME IcomTypeOK, RingInv, NEW last \in Nat, last <= made, oPtr = last % RingSize, ~RingIsEmpty
  PROVE  /\ slots[oPtr] \in Nat /\ last < slots[oPtr] /\ slots[oPtr] <= made
         /\ (oPtr + 1) % RingSize = slots[oPtr] % RingSize
<1> DEFINE R == RingSize
           v == slots[oPtr]
<1>1. R \in Nat /\ R > 0 /\ made \in Nat
  BY IcomLinkAssumption DEF IcomTypeOK
<1>2. oPtr \in 0 .. R - 1 /\ oPtr <= last
  <2>1. last = R * (last \div R) + (last % R) /\ last \div R \in Nat /\ last % R \in 0 .. R - 1
    BY <1>1, DivMod
  <2>2. R * (last \div R) \in Nat
    BY <1>1, <2>1
  <2> QED BY <1>1, <2>1, <2>2
<1>3. last < made
  BY <1>1 DEF RingIsEmpty, RingInv
<1>4. v \in Nat /\ v # 0 /\ v <= made /\ made < v + R /\ (v - 1) % R = oPtr
  BY <1>1, <1>2, <1>3 DEF IcomTypeOK, RingInv, SlotOf
<1> HIDE DEF v
<1> DEFINE w == v - 1
<1>5. w \in Nat /\ w % R = last % R /\ v = w + 1 /\ made <= w + R
  BY <1>1, <1>4
<1> HIDE DEF w
<1>6. last <= w
  <2> SUFFICES ASSUME w < last PROVE FALSE
    BY <1>5
  <2>1. w + R <= last
    BY <1>1, <1>5, ModGap
  <2> QED BY <1>1, <1>3, <1>5, <2>1
<1>7. (oPtr + 1) % R = v % R
  <2>1. ((w % R) + 1) % R = (w + 1) % R
    BY <1>1, <1>5, ModShift
  <2> QED BY <1>5, <2>1
<1> QED BY <1>4, <1>5, <1>6, <1>7 DEF v

\* What is put on the wire, or lost, is later than what is there.
LEMMA PutInOrder ==
  ASSUME IcomTypeOK, WireInOrder, NEW p \in OnWire, Put(toIcom, toIcom', p),
         UNCHANGED taken,
         \A i \in 1 .. Len(toIcom) : toIcom[i].packet <= p.packet,
         \A q \in taken : q <= p.packet
  PROVE  /\ toIcom' \in Seq(OnWire) /\ WireInOrder'
         /\ \A i \in 1 .. Len(toIcom') : toIcom'[i].packet <= p.packet
<1>1. toIcom \in Seq(OnWire) /\ p.packet \in Nat
  BY DEF IcomTypeOK, OnWire
<1>2. CASE toIcom' = toIcom
  BY <1>1, <1>2 DEF WireInOrder
<1>3. CASE toIcom' = Append(toIcom, p)
  <2>1. /\ toIcom' \in Seq(OnWire) /\ Len(toIcom) \in Nat
        /\ Len(toIcom') = Len(toIcom) + 1 /\ toIcom'[Len(toIcom) + 1] = p
        /\ \A i \in 1 .. Len(toIcom) : toIcom'[i] = toIcom[i]
    BY <1>1, <1>3
  <2>2. \A i \in 1 .. Len(toIcom') : i = Len(toIcom) + 1 \/ i \in 1 .. Len(toIcom)
    BY <2>1
  <2>3. ASSUME NEW i \in 1 .. Len(toIcom') PROVE toIcom'[i].packet <= p.packet
    <3>1. CASE i = Len(toIcom) + 1
      BY <1>1, <2>1, <3>1
    <3>2. CASE i \in 1 .. Len(toIcom)
      BY <2>1, <3>2
    <3> QED BY <2>2, <3>1, <3>2
  <2>4. WireInOrder'
    <3>1. ASSUME NEW i \in 1 .. Len(toIcom'), NEW j \in 1 .. Len(toIcom'), i <= j
          PROVE  toIcom'[i].packet <= toIcom'[j].packet
      <4>1. CASE j = Len(toIcom) + 1
        BY <2>1, <2>3, <4>1
      <4>2. CASE j \in 1 .. Len(toIcom)
        <5>1. i \in 1 .. Len(toIcom)
          BY <2>1, <3>1, <4>2
        <5> QED BY <2>1, <3>1, <4>2, <5>1 DEF WireInOrder
      <4> QED BY <2>2, <4>1, <4>2
    <3>2. ASSUME NEW i \in 1 .. Len(toIcom'), NEW q \in taken PROVE q <= toIcom'[i].packet
      <4>1. CASE i = Len(toIcom) + 1
        BY <2>1, <4>1
      <4>2. CASE i \in 1 .. Len(toIcom)
        BY <2>1, <4>2 DEF WireInOrder
      <4> QED BY <2>2, <4>1, <4>2
    <3> QED BY <3>1, <3>2 DEF WireInOrder
  <2> QED BY <2>1, <2>3, <2>4
<1> QED BY <1>2, <1>3 DEF Put

\* What is on the wire.
LEMMA OnWireType == ASSUME IcomTypeOK PROVE \A i \in 1 .. Len(toIcom) : toIcom[i].packet \in Nat
<1>1. \A i \in 1 .. Len(toIcom) : toIcom[i] \in OnWire
  BY DEF IcomTypeOK
<1> QED BY <1>1 DEF OnWire

\* A packet is sent for the first time, or again.
LEMMA SendOrder == ASSUME IcomInv, SendNext \/ SendAgain PROVE IcomInv'
<1>1. IcomTypeOK /\ RingInv /\ WireInOrder
  BY DEF IcomInv
<1>2. PICK last \in Nat : SentUpTo(last)
  BY DEF IcomInv
<1>3. UNCHANGED <<slots, iPtr, made, taken, seqNo, toGateway>>
  BY DEF SendNext, SendAgain, ringVars
<1>4. RingInv'
  BY <1>1, <1>3 DEF RingInv, SlotOf
<1>5. CASE SendNext
  <2>0. /\ slots[oPtr] \in Nat /\ last < slots[oPtr] /\ slots[oPtr] <= made
        /\ (oPtr + 1) % RingSize = slots[oPtr] % RingSize
    BY <1>1, <1>2, <1>5, NextIsLater DEF SentUpTo, SendNext
  <2>1. PICK v \in Nat : /\ v = slots[oPtr] /\ last < v /\ v <= made
                         /\ (oPtr + 1) % RingSize = v % RingSize
    BY <2>0
  <2> DEFINE p == [seq |-> seqNo, packet |-> v]
  <2>2. ackQueue' = v /\ oPtr' = (oPtr + 1) % RingSize /\ Put(toIcom, toIcom', p)
    BY <1>5, <2>1 DEF SendNext
  <2>3. p \in OnWire /\ p.packet = v
    BY <1>1, <2>1 DEF IcomTypeOK, OnWire
  <2> HIDE DEF p
  <2>4. (\A i \in 1 .. Len(toIcom) : toIcom[i].packet <= v) /\ (\A q \in taken : q <= v)
    <3>1. \A i \in 1 .. Len(toIcom) : toIcom[i].packet \in Nat
      BY <1>1, OnWireType
    <3>2. taken \subseteq Nat /\ \A x \in Nat : x <= last => x <= v
      BY <1>1, <2>1 DEF IcomTypeOK
    <3> QED BY <1>2, <3>1, <3>2 DEF SentUpTo
  <2>5. /\ toIcom' \in Seq(OnWire) /\ WireInOrder'
        /\ \A i \in 1 .. Len(toIcom') : toIcom'[i].packet <= v
    BY <1>1, <1>3, <2>2, <2>3, <2>4, PutInOrder
  <2>6. SentUpTo(v)'
    BY <1>3, <2>1, <2>2, <2>4, <2>5 DEF SentUpTo
  <2>7. IcomTypeOK'
    BY <1>1, <1>3, <2>1, <2>2, <2>5 DEF IcomTypeOK
  <2> QED BY <1>4, <2>1, <2>5, <2>6, <2>7 DEF IcomInv
<1>6. CASE SendAgain
  <2> DEFINE p == [seq |-> seqNo, packet |-> ackQueue]
  <2>1. ackQueue = last /\ UNCHANGED <<ackQueue, oPtr>> /\ Put(toIcom, toIcom', p)
    BY <1>2, <1>6 DEF SendAgain, SentUpTo, ringVars
  <2>2. p \in OnWire /\ p.packet = last
    BY <1>1, <2>1 DEF IcomTypeOK, OnWire
  <2> HIDE DEF p
  <2>3. /\ toIcom' \in Seq(OnWire) /\ WireInOrder'
        /\ \A i \in 1 .. Len(toIcom') : toIcom'[i].packet <= last
    BY <1>1, <1>2, <1>3, <2>1, <2>2, PutInOrder DEF SentUpTo
  <2>4. SentUpTo(last)' /\ IcomTypeOK'
    BY <1>1, <1>2, <1>3, <2>1, <2>3 DEF SentUpTo, IcomTypeOK
  <2> QED BY <1>4, <2>3, <2>4 DEF IcomInv
<1> QED BY <1>5, <1>6

\* The controller takes a packet: what is behind it is not older.
LEMMA TakesOrder ==
  ASSUME IcomInv, IcomTakes
  PROVE  IcomInv' /\ \A p \in taken' \ taken, q \in taken : q < p
<1>1. IcomTypeOK /\ RingInv /\ WireInOrder
  BY DEF IcomInv
<1>2. PICK last \in Nat : SentUpTo(last)
  BY DEF IcomInv
<1>3. /\ toIcom \in Seq(OnWire) /\ toIcom # <<>> /\ toIcom' = Tail(toIcom)
      /\ taken' = taken \cup {Head(toIcom).packet}
      /\ UNCHANGED <<slots, iPtr, oPtr, made, ackQueue, seqNo>>
      /\ Put(toGateway, toGateway', Head(toIcom).seq)
  BY <1>1 DEF IcomTakes, ringVars, IcomTypeOK
<1>4. /\ Head(toIcom) = toIcom[1] /\ toIcom[1] \in OnWire
      /\ Len(toIcom) \in Nat /\ Len(toIcom) >= 1 /\ Len(toIcom') = Len(toIcom) - 1
      /\ toIcom' \in Seq(OnWire)
      /\ \A i \in 1 .. Len(toIcom') : toIcom'[i] = toIcom[i + 1] /\ i + 1 \in 1 .. Len(toIcom)
  <2>1. /\ Head(toIcom) = toIcom[1] /\ toIcom[1] \in OnWire
        /\ Len(toIcom) \in Nat /\ Len(toIcom) >= 1
    BY <1>3
  <2>2. Len(toIcom') = Len(toIcom) - 1 /\ toIcom' \in Seq(OnWire)
    BY <1>3
  <2>3. \A i \in 1 .. Len(toIcom') : toIcom'[i] = toIcom[i + 1]
    BY <1>3
  <2> QED BY <2>1, <2>2, <2>3
<1>5. PICK h \in Nat : h = toIcom[1].packet /\ taken' = taken \cup {h}
  BY <1>3, <1>4 DEF OnWire
<1>6. h <= last /\ (\A q \in taken : q <= h) /\ \A i \in 1 .. Len(toIcom') : h <= toIcom'[i].packet
  <2>1. 1 \in 1 .. Len(toIcom) /\ \A i \in 1 .. Len(toIcom) : 1 <= i
    BY <1>4
  <2> QED BY <1>1, <1>2, <1>4, <1>5, <2>1 DEF SentUpTo, WireInOrder
<1>7. WireInOrder'
  <2>1. \A i, j \in 1 .. Len(toIcom') : i <= j => toIcom'[i].packet <= toIcom'[j].packet
    <3> SUFFICES ASSUME NEW i \in 1 .. Len(toIcom'), NEW j \in 1 .. Len(toIcom'), i <= j
                 PROVE  toIcom'[i].packet <= toIcom'[j].packet
      OBVIOUS
    <3>1. i + 1 <= j + 1
      OBVIOUS
    <3> QED BY <1>1, <1>4, <3>1 DEF WireInOrder
  <2>2. \A i \in 1 .. Len(toIcom'), p \in taken : p <= toIcom'[i].packet
    BY <1>1, <1>4 DEF WireInOrder
  <2> QED BY <1>5, <1>6, <2>1, <2>2 DEF WireInOrder
<1>8. SentUpTo(last)'
  BY <1>2, <1>3, <1>4, <1>5, <1>6 DEF SentUpTo
<1>9. IcomTypeOK' /\ RingInv'
  <2>1. toGateway' \in Seq(Nat)
    <3>1. Head(toIcom).seq \in Nat /\ toGateway \in Seq(Nat)
      BY <1>1, <1>4 DEF IcomTypeOK, OnWire
    <3>2. Append(toGateway, Head(toIcom).seq) \in Seq(Nat)
      BY <3>1
    <3> QED BY <1>3, <3>1, <3>2 DEF Put
  <2> QED BY <1>1, <1>3, <1>4, <1>5, <2>1 DEF IcomTypeOK, RingInv, SlotOf
<1>10. \A p \in taken' \ taken, q \in taken : q < p
  BY <1>1, <1>5, <1>6 DEF IcomTypeOK
<1> QED BY <1>7, <1>8, <1>9, <1>10 DEF IcomInv

\* The steps that send and take nothing.
LEMMA OthersOrder ==
  ASSUME IcomInv, Open \/ WritePacket \/ HeaderFromIcom \/ TakeAck \/ IcomAnswers \/ UNCHANGED icomVars
  PROVE  IcomInv'
<1>1. IcomTypeOK /\ RingInv /\ WireInOrder
  BY DEF IcomInv
<1>2. PICK last \in Nat : SentUpTo(last)
  BY DEF IcomInv
<1>3. UNCHANGED <<toIcom, taken, oPtr>>
  BY DEF Open, WritePacket, HeaderFromIcom, TakeAck, IcomAnswers, Free, icomVars, ringVars, wireVars
<1>4. CASE WritePacket \/ HeaderFromIcom
  <2>1. UNCHANGED <<ackQueue, seqNo, toGateway>> /\ \E n \in 1 .. 3 : AddData(n)
    BY <1>4 DEF WritePacket, HeaderFromIcom, ReplyPackets, wireVars
  <2>2. slots' \in [0 .. RingSize - 1 -> Nat] /\ made' \in Nat /\ made <= made' /\ RingInv'
    BY <1>1, <2>1, AddDataRing
  <2>3. IcomTypeOK' /\ WireInOrder'
    BY <1>1, <1>3, <2>1, <2>2 DEF IcomTypeOK, WireInOrder
  <2>4. SentUpTo(last)'
    <3>1. last <= made'
      BY <1>1, <1>2, <2>2 DEF SentUpTo, IcomTypeOK
    <3> QED BY <1>2, <1>3, <2>1, <3>1 DEF SentUpTo
  <2> QED BY <2>2, <2>3, <2>4 DEF IcomInv
<1>5. CASE ~(WritePacket \/ HeaderFromIcom)
  <2>1. UNCHANGED <<slots, iPtr, made>> /\ ackQueue' \in {0, ackQueue}
    BY <1>5 DEF Open, TakeAck, IcomAnswers, Free, icomVars, ringVars
  <2>2. seqNo' \in Nat /\ toGateway' \in Seq(Nat)
    <3>1. \A n \in Nat : After(n) \in Nat
      BY IcomLinkAssumption DEF After
    <3>2. CASE Open
      <4>1. \A n \in 0 .. SeqNos - 1 : n \in Nat
        BY IcomLinkAssumption
      <4> QED BY <1>1, <3>1, <3>2, <4>1 DEF Open, IcomTypeOK, wireVars
    <3>3. CASE TakeAck
      <4>1. Head(toGateway) \in Nat /\ Tail(toGateway) \in Seq(Nat)
        BY <1>1, <3>3 DEF TakeAck, IcomTypeOK
      <4> QED BY <1>1, <3>1, <3>3, <4>1 DEF TakeAck, IcomTypeOK
    <3>4. CASE UNCHANGED <<seqNo, toGateway>>
      BY <1>1, <3>4 DEF IcomTypeOK
    <3>5. Open \/ TakeAck \/ UNCHANGED <<seqNo, toGateway>>
      BY <1>5 DEF IcomAnswers, icomVars, wireVars
    <3> QED BY <3>2, <3>3, <3>4, <3>5
  <2>3. IcomTypeOK' /\ RingInv' /\ WireInOrder'
    <3>1. IcomTypeOK'
      BY <1>1, <1>3, <2>1, <2>2 DEF IcomTypeOK
    <3>2. RingInv'
      BY <1>1, <2>1 DEF RingInv, SlotOf
    <3>3. WireInOrder'
      BY <1>1, <1>3 DEF WireInOrder
    <3> QED BY <3>1, <3>2, <3>3
  <2>4. SentUpTo(last)'
    BY <1>2, <1>3, <2>1 DEF SentUpTo
  <2> QED BY <2>3, <2>4 DEF IcomInv
<1> QED BY <1>4, <1>5

\* For a ring of any size that has room for a reply, also when it has run
\* over, the controller never gets a packet after a later one.
THEOREM PacketsInOrder == IcomSpec => TheirOrder
<1>1. IcomInv /\ [IcomNext]_icomVars => IcomInv'
  BY SendOrder, TakesOrder, OthersOrder DEF IcomNext
<1>2. IcomInv /\ [IcomNext]_icomVars => [\A p \in taken' \ taken, q \in taken : q < p]_icomVars
  <2> SUFFICES ASSUME IcomInv, IcomNext PROVE \A p \in taken' \ taken, q \in taken : q < p
    OBVIOUS
  <2>1. CASE IcomTakes
    BY <2>1, TakesOrder
  <2>2. CASE ~IcomTakes
    <3>1. taken' = taken
      BY <2>2 DEF IcomNext, Open, WritePacket, HeaderFromIcom, SendNext, SendAgain, TakeAck, IcomAnswers, wireVars
    <3> QED BY <3>1
  <2> QED BY <2>1, <2>2
<1> QED BY <1>1, <1>2, InitIcom, PTL DEF IcomSpec, TheirOrder

-----------------------------------------------------------------------------
\* Announcements, echo and version.

UnitsSpec == UnitsInit /\ [][UnitsNext]_unitVars

States == {"IDLE", "RECEIVE", "WAIT", "TRANSMIT"}

\* While somebody talks the units are still, or record.
StillInTalk == talking => \A u \in Units : doing[u] \in {"IDLE", "RECEIVE"}

UnitsInv == doing \in [Units -> States] /\ StillInTalk /\ HeadersFirst

-----------------------------------------------------------------------------
\* sendStatus, sendAnnouncement and sendVersion wake units, and put none on air.
LEMMA StartedWaits ==
  ASSUME doing \in [Units -> States], NEW units
  PROVE  /\ Started(units) \in [Units -> States]
         /\ \A u \in Units : Started(units)[u] = "TRANSMIT" => doing[u] = "TRANSMIT"
  BY DEF Started, States

\* The end of a transmission, by a frame or by the watchdog, puts none on air.
LEMMA LeaveKeeps ==
  ASSUME UnitsInv, NEW echo, Leave(echo)
  PROVE  UnitsInv'
<1>1. PICK missing \in SUBSET (Files \cap wanted) :
         doing' = [Started((wanted \cup ({reply} \cap {"VERSION"})) \ missing) EXCEPT
                     !["ECHO"] = IF echo /\ @ = "RECEIVE" THEN "WAIT" ELSE @]
  BY DEF Leave
<1> DEFINE woken == Started((wanted \cup ({reply} \cap {"VERSION"})) \ missing)
<1>2. /\ woken \in [Units -> States]
      /\ \A u \in Units : woken[u] = "TRANSMIT" => doing[u] = "TRANSMIT"
  BY StartedWaits DEF UnitsInv
<1>3. doing' = [woken EXCEPT !["ECHO"] = IF echo /\ @ = "RECEIVE" THEN "WAIT" ELSE @]
  BY <1>1
<1> HIDE DEF woken
<1>4. doing' \in [Units -> States]
  BY <1>2, <1>3 DEF States
<1>5. \A u \in Units : doing'[u] = "TRANSMIT" => woken[u] = "TRANSMIT"
  BY <1>2, <1>3
<1>6. talking' = FALSE /\ onAir' = onAir
  BY DEF Leave
<1>7. \A u \in Units : doing'[u] = "TRANSMIT" => u \in onAir
  <2> TAKE u \in Units
  <2> HAVE doing'[u] = "TRANSMIT"
  <2>1. doing[u] = "TRANSMIT"
    BY <1>2, <1>5
  <2>2. ~ talking
    BY <2>1 DEF UnitsInv, StillInTalk
  <2> QED BY <2>1, <2>2 DEF UnitsInv, HeadersFirst
<1> QED BY <1>4, <1>6, <1>7 DEF UnitsInv, StillInTalk, HeadersFirst

-----------------------------------------------------------------------------
\* Every step of the repeater and of its units keeps the invariant.
LEMMA UnitsInvKept == UnitsInv /\ [UnitsNext]_unitVars => UnitsInv'
<1> SUFFICES ASSUME UnitsInv, [UnitsNext]_unitVars PROVE UnitsInv'
  OBVIOUS
<1> USE DEF UnitsInv
<1>1. ASSUME NEW what \in Units \cup {"ELSE"}, Talk(what) PROVE UnitsInv'
  BY <1>1 DEF Talk, Cancelled, States, StillInTalk, HeadersFirst
<1>2. CASE Record
  BY <1>2 DEF Record, StillInTalk, HeadersFirst
<1>3. CASE TalkOver
  <2>1. talking' = FALSE /\ UNCHANGED <<doing, onAir>>
    BY <1>3 DEF TalkOver
  <2>2. \A u \in Units : doing[u] = "TRANSMIT" => u \in onAir
    BY DEF StillInTalk, HeadersFirst
  <2> QED BY <2>1, <2>2 DEF StillInTalk, HeadersFirst
<1>4. CASE TransmissionEnds
  BY <1>4, LeaveKeeps DEF TransmissionEnds
<1>5. CASE Watchdog
  BY <1>5, LeaveKeeps DEF Watchdog
<1>6. CASE triggerInfo
  <2>1. UNCHANGED <<talking, onAir>>
    BY <1>6 DEF triggerInfo
  <2>2. CASE talking \/ relayed
    BY <1>6, <2>1, <2>2 DEF triggerInfo, StillInTalk, HeadersFirst
  <2>3. CASE ~ (talking \/ relayed)
    <3>1. doing' = Started({"INFO"})
      BY <1>6, <2>3 DEF triggerInfo
    <3> QED BY <2>1, <2>3, <3>1, StartedWaits DEF StillInTalk, HeadersFirst
  <2> QED BY <2>2, <2>3
<1>7. ASSUME NEW u \in Units, UnitBegins(u) PROVE UnitsInv'
  <2>1. ~ talking
    BY <1>7 DEF UnitBegins, StillInTalk
  <2>2. doing' = [doing EXCEPT ![u] = "TRANSMIT"] /\ onAir' = onAir \cup {u} /\ UNCHANGED talking
    BY <1>7, <2>1 DEF UnitBegins
  <2> QED BY <2>1, <2>2 DEF States, StillInTalk, HeadersFirst
<1>8. ASSUME NEW u \in Units, UnitSends(u) PROVE UnitsInv'
  BY <1>8 DEF UnitSends, States, StillInTalk, HeadersFirst
<1>9. ASSUME NEW u \in Units, BreakOff(u) PROVE UnitsInv'
  BY <1>9 DEF BreakOff, States, StillInTalk, HeadersFirst
<1>10. CASE UNCHANGED unitVars
  BY <1>10 DEF unitVars, StillInTalk, HeadersFirst
<1> QED BY <1>1, <1>2, <1>3, <1>4, <1>5, <1>6, <1>7, <1>8, <1>9, <1>10 DEF UnitsNext, AnyTalk

\* Whatever users, links and lost frames do, the radio gets no frame of an answer
\* without its header: what CEchoUnit, CAudioUnit, CAnnouncementUnit and
\* CVersionUnit send outside a transmission was begun outside one.
THEOREM HeadersAlwaysFirst == UnitsSpec => []HeadersFirst
<1>1. UnitsInit => UnitsInv
  BY DEF UnitsInit, UnitsInv, States, StillInTalk, HeadersFirst
<1>2. UnitsInv => HeadersFirst
  BY DEF UnitsInv
<1> QED BY <1>1, <1>2, UnitsInvKept, PTL DEF UnitsSpec

-----------------------------------------------------------------------------
\* A stream over a chain of protocols.

PacketsSpec == PacketsInit /\ [][PacketsNext]_packetVars

\* What SameStream takes for granted of the header and the frame it looks at.
PacketsTypeOK ==
  /\ header.id \in Bytes \X Bytes /\ origin.seq \in {0, 20} /\ origin.end \in BOOLEAN
  /\ header = [id |-> header.id, flags |-> header.flags, calls |-> header.calls]
  /\ frame = [id |-> frame.id, seq |-> frame.seq, end |-> frame.end]

\* The byte order of DExtra, D-Plus, DCS and CCS, turned round and back.
LEMMA TurnedRound ==
  ASSUME NEW id \in Bytes \X Bytes
  PROVE  LowFirst(id) = <<id[2], id[1]>> /\ LowFirst(id) \in Bytes \X Bytes /\ LowFirst(LowFirst(id)) = id
<1>1. \A a, b \in Bytes : LowFirst(<<a, b>>) = <<b, a>>
  <2> TAKE a, b \in Bytes
  <2>1. Len(<<a, b>>) = 2
    OBVIOUS
  <2>2. LowFirst(<<a, b>>) = [i \in 1 .. 2 |-> <<a, b>>[(2 - i) + 1]]
    BY <2>1 DEF LowFirst, Reverse
  <2> QED BY <2>2
<1>2. PICK a \in Bytes, b \in Bytes : id = <<a, b>>
  OBVIOUS
<1> QED BY <1>1, <1>2

\* The end bit shares a byte with the sequence number.
LEMMA EndBit ==
  ASSUME NEW f, f = [id |-> f.id, seq |-> f.seq, end |-> f.end], f.seq \in {0, 20}, f.end \in BOOLEAN, NEW id
  PROVE  SeqByte(f) \in 0 .. 127 /\ FrameOf(id, SeqByte(f)) = [id |-> id, seq |-> f.seq, end |-> f.end]
<1>1. CASE f.end = TRUE
  <2>1. SeqByte(f) \in {64, 84} /\ SeqByte(f) % 64 = f.seq /\ (SeqByte(f) >= 64) = TRUE
    BY <1>1 DEF SeqByte
  <2> QED BY <1>1, <2>1 DEF FrameOf
<1>2. CASE f.end = FALSE
  <2>1. SeqByte(f) \in {0, 20} /\ SeqByte(f) % 64 = f.seq /\ (SeqByte(f) >= 64) = FALSE
    BY <1>2 DEF SeqByte
  <2> QED BY <1>2, <2>1 DEF FrameOf
<1> QED BY <1>1, <1>2

\* What a gateway has in memory is the stream as it was made, but for its identifier.
PacketsInv == PacketsTypeOK /\ SameStream

\* A frame comes through one hop as it was, but that its identifier may be turned round.
LEMMA FrameHop ==
  ASSUME PacketsInv, NEW p \in Voice
  PROVE  FrameRead(p, FrameWritten(p, frame, header)) =
           [id |-> IF p \in {"DEXTRA", "DPLUS"} THEN LowFirst(frame.id) ELSE frame.id,
            seq |-> frame.seq, end |-> frame.end]
<1> DEFINE w == FrameWritten(p, frame, header)
<1>1. /\ frame = [id |-> frame.id, seq |-> frame.seq, end |-> frame.end]
      /\ frame.seq \in {0, 20} /\ frame.end \in BOOLEAN /\ frame.id \in Bytes \X Bytes
  BY DEF PacketsInv, PacketsTypeOK, SameStream
<1>2. SeqByte(frame) \in 0 .. 127
  BY <1>1, EndBit
<1>3. CASE p \in {"DEXTRA", "DPLUS"}
  <2>1. w = LinkFrame(p, frame)
    BY <1>3 DEF FrameWritten, Combined
  <2>2. /\ w.id = LowFirst(frame.id) /\ w.byte = SeqByte(frame)
        /\ w.mark = (IF p = "DEXTRA" THEN SeqByte(frame) ELSE IF frame.end THEN 32 ELSE 29)
    BY <2>1 DEF LinkFrame
  <2>3. TakenFor(p, w.mark) = "AMBE"
    BY <1>2, <1>3, <2>2 DEF TakenFor, DExtraTaken, DPlusTaken
  <2>4. FrameRead(p, w) = FrameOf(w.id, w.byte)
    BY <1>3, <2>3 DEF FrameRead, Combined
  <2> QED BY <1>1, <1>3, <2>2, <2>4, EndBit
<1>4. CASE p \in Combined
  <2>1. w = CombinedFrame(p, frame, header)
    BY <1>4 DEF FrameWritten, Combined
  <2>2. w.id = LowFirst(frame.id) /\ w.byte = SeqByte(frame) /\ w.mark = 100
    BY <2>1 DEF CombinedFrame
  <2>3. TakenFor(p, w.mark) = "AMBE"
    BY <1>4, <2>2 DEF TakenFor, DCSTaken, CCSTaken, Combined
  <2>4. FrameRead(p, w) = FrameOf(LowFirst(w.id), w.byte)
    BY <1>4, <2>3 DEF FrameRead
  <2>5. LowFirst(w.id) = frame.id
    BY <1>1, <2>2, TurnedRound
  <2> QED BY <1>1, <1>4, <2>2, <2>4, <2>5, EndBit DEF Combined
<1>5. CASE p \in {"ICOM", "HB", "G2"}
  <2>1. w = RadioFrame(p, frame)
    BY <1>5 DEF FrameWritten, Combined
  <2>2. w.id = frame.id /\ w.byte = SeqByte(frame) /\ w.mark = (IF p = "HB" THEN 33 ELSE SeqByte(frame))
    BY <2>1 DEF RadioFrame
  <2>3. TakenFor(p, w.mark) = "AMBE"
    BY <1>2, <1>5, <2>2 DEF TakenFor, IcomTaken, G2Taken, HighBit, HBTaken
  <2>4. FrameRead(p, w) = FrameOf(w.id, w.byte)
    BY <1>5, <2>3 DEF FrameRead, Combined
  <2> QED BY <1>1, <1>5, <2>2, <2>4, EndBit
<1> QED BY <1>3, <1>4, <1>5 DEF Voice, Separate, Combined

\* So does a header, but that some protocols do not carry its flags.
LEMMA HeaderHop ==
  ASSUME PacketsInv, NEW p \in Separate
  PROVE  LET r == HeaderRead(p, HeaderWritten(p, header))
         IN /\ r = [id |-> r.id, flags |-> r.flags, calls |-> r.calls]
            /\ r.id = (IF p \in {"DEXTRA", "DPLUS"} THEN LowFirst(header.id) ELSE header.id)
            /\ r.flags \in {0, header.flags} /\ r.calls = header.calls
<1>1. CASE p \in {"DEXTRA", "DPLUS"}
  <2>1. HeaderWritten(p, header) = LinkHeader(p, header)
    BY <1>1 DEF HeaderWritten
  <2>2. TakenFor(p, LinkHeader(p, header).mark) = "HEADER"
    BY <1>1 DEF TakenFor, LinkHeader, DExtraTaken, DPlusTaken
  <2>3. HeaderRead(p, LinkHeader(p, header)) = LinkHeaderRead(LinkHeader(p, header))
    BY <1>1, <2>2 DEF HeaderRead
  <2> QED BY <1>1, <2>1, <2>3 DEF LinkHeaderRead, LinkHeader
<1>2. CASE p \in {"ICOM", "HB", "G2"}
  <2>1. HeaderWritten(p, header) = RadioHeader(p, header)
    BY <1>2 DEF HeaderWritten
  <2>2. TakenFor(p, RadioHeader(p, header).mark) = "HEADER"
    BY <1>2 DEF TakenFor, RadioHeader, IcomTaken, G2Taken, HighBit, HBTaken
  <2>3. HeaderRead(p, RadioHeader(p, header)) = RadioHeaderRead(RadioHeader(p, header))
    BY <1>2, <2>2 DEF HeaderRead
  <2> QED BY <1>2, <2>1, <2>3 DEF RadioHeaderRead, RadioHeader
<1> QED BY <1>1, <1>2 DEF Separate

\* Every hop keeps the invariant; messages have no part in it.
LEMMA PacketsInvKept == PacketsInv /\ [PacketsNext]_packetVars => PacketsInv'
<1> SUFFICES ASSUME PacketsInv, [PacketsNext]_packetVars PROVE PacketsInv'
  OBVIOUS
<1>1. CASE UNCHANGED <<origin, header, frame>>
  BY <1>1 DEF PacketsInv, PacketsTypeOK, SameStream
<1>2. ASSUME NEW p \in Voice, StreamHop(p) PROVE PacketsInv'
  <2>1. /\ frame' = FrameRead(p, FrameWritten(p, frame, header)) /\ UNCHANGED origin
        /\ header' = IF p \in Combined THEN CombinedHeaderRead(FrameWritten(p, frame, header))
                     ELSE HeaderRead(p, HeaderWritten(p, header))
    BY <1>2 DEF StreamHop
  <2>2. frame' = [id |-> IF p \in {"DEXTRA", "DPLUS"} THEN LowFirst(frame.id) ELSE frame.id,
                  seq |-> frame.seq, end |-> frame.end]
    BY <2>1, FrameHop
  <2>3. /\ header' = [id |-> header'.id, flags |-> header'.flags, calls |-> header'.calls]
        /\ header'.id = (IF p \in {"DEXTRA", "DPLUS"} THEN LowFirst(header.id) ELSE header.id)
        /\ header'.flags \in {0, header.flags} /\ header'.calls = "SENT"
    <3>1. CASE p \in Combined
      <4>1. FrameWritten(p, frame, header) = CombinedFrame(p, frame, header)
        BY <3>1 DEF FrameWritten, Combined
      <4>2. header' = [id |-> LowFirst(LowFirst(frame.id)),
                       flags |-> IF p = "CCS" THEN 0 ELSE header.flags, calls |-> header.calls]
        BY <2>1, <3>1, <4>1 DEF CombinedHeaderRead, CombinedFrame
      <4>3. LowFirst(LowFirst(frame.id)) = header.id /\ header.calls = "SENT"
        BY TurnedRound DEF PacketsInv, PacketsTypeOK, SameStream
      <4> QED BY <3>1, <4>2, <4>3 DEF Combined
    <3>2. CASE p \in Separate
      <4>1. header' = HeaderRead(p, HeaderWritten(p, header))
        BY <2>1, <3>2 DEF Separate, Combined
      <4>2. header.calls = "SENT"
        BY DEF PacketsInv, SameStream
      <4> QED BY <3>2, <4>1, <4>2, HeaderHop
    <3> QED BY <3>1, <3>2 DEF Voice
  <2>4. header.id = frame.id /\ header.id \in Bytes \X Bytes /\ LowFirst(header.id) \in Bytes \X Bytes
    BY TurnedRound DEF PacketsInv, PacketsTypeOK, SameStream
  <2>5. PacketsTypeOK'
    BY <2>1, <2>2, <2>3, <2>4 DEF PacketsInv, PacketsTypeOK
  <2>6. SameStream'
    BY <2>1, <2>2, <2>3, <2>4 DEF PacketsInv, SameStream
  <2> QED BY <2>5, <2>6 DEF PacketsInv
<1> QED BY <1>1, <1>2 DEF PacketsNext, Say, packetVars

\* Over any chain of gateways, each reading one of seven protocols and writing
\* another, a stream keeps its identifier, its end and its order.
THEOREM StreamStaysOne == PacketsSpec => []SameStream
<1>1. PacketsInit => PacketsInv
  BY DEF PacketsInit, PacketsInv, PacketsTypeOK, SameStream
<1>2. PacketsInv => SameStream
  BY DEF PacketsInv
<1> QED BY <1>1, <1>2, PacketsInvKept, PTL DEF PacketsSpec

-----------------------------------------------------------------------------
\* Messages.

\* What is heard is what the last message means to the one who read it.
HeardOf(m) == IF m = Nothing THEN Nothing ELSE [protocol |-> m.protocol, kind |-> Meaning(m)]
MessagesInv == said \in Messages \cup {Nothing} /\ heard = HeardOf(said)

\* A message is taken for what it was written as, with the exceptions that Understood names.
TakenAsMeant(m) ==
  \/ Meaning(m) = m.kind
  \/ m = Msg("DEXTRA", "LINK", 11, "BLANK") /\ Meaning(m) = "UNLINK"
  \/ m \in HBDataWritten

\* Polls are told by their length, and those of DCS by their direction.
LEMMA PollsTaken == \A m \in PollsWritten : TakenAsMeant(m)
<1> SUFFICES ASSUME NEW m \in PollsWritten PROVE Meaning(m) = m.kind
  BY DEF TakenAsMeant
<1>1. CASE m.protocol \in {"HB", "ICOM"}
  <2>1. m = Msg("HB", "POLL", 10, "DSRP") \/ m = Msg("ICOM", "POLL", 0, "DSTR")
    BY <1>1 DEF PollsWritten, Msg
  <2>2. m.protocol = "HB" => Meaning(m) = HBType(m)
    BY DEF Meaning, Class
  <2>3. m.protocol = "ICOM" => Meaning(m) = IcomType(m)
    BY DEF Meaning, Class
  <2> QED BY <2>1, <2>2, <2>3 DEF Msg, HBType, IcomType
<1>2. CASE m.protocol = "DEXTRA"
  BY <1>2 DEF PollsWritten, Msg, Meaning, Class, DExtraClass
<1>3. CASE m.protocol = "DPLUS"
  BY <1>3 DEF PollsWritten, Msg, Meaning, Class, DPlusClass
<1>4. CASE m.protocol = "DCS"
  BY <1>4 DEF PollsWritten, Msg, Meaning, Class, DCSClass, DCSPoll
<1>5. CASE m.protocol = "CCS"
  BY <1>5 DEF PollsWritten, Msg, Meaning, Class, CCSClass
<1> QED BY <1>1, <1>2, <1>3, <1>4, <1>5 DEF PollsWritten, Msg

\* DExtra tells a link from an unlink by the module.
LEMMA DExtraTakenAsMeant == \A m \in DExtraWritten : TakenAsMeant(m)
<1> SUFFICES ASSUME NEW m \in DExtraWritten PROVE TakenAsMeant(m)
  OBVIOUS
<1>1. m.protocol = "DEXTRA" /\ m.length \in {11, 14}
  BY DEF DExtraWritten, Msg
<1>2. Meaning(m) = DExtraConnect(m)
  BY <1>1 DEF Meaning, Class, DExtraClass, ConnectRead
<1> QED BY <1>2 DEF DExtraWritten, Msg, Modules, DExtraConnect, AckOrNak, TakenAsMeant

\* D-Plus by its length and its text.
LEMMA DPlusTakenAsMeant == \A m \in DPlusWritten : TakenAsMeant(m)
<1> SUFFICES ASSUME NEW m \in DPlusWritten PROVE Meaning(m) = m.kind
  BY DEF TakenAsMeant
<1>1. m.protocol = "DPLUS" /\ m.length \in {5, 8, 28}
  BY DEF DPlusWritten, Msg
<1>2. Meaning(m) = DPlusConnect(m)
  BY <1>1 DEF Meaning, Class, DPlusClass, ConnectRead
<1> QED BY <1>2 DEF DPlusWritten, Msg, DPlusConnect

\* DCS by its length.
LEMMA DCSTakenAsMeant == \A m \in DCSWritten : TakenAsMeant(m)
<1> SUFFICES ASSUME NEW m \in DCSWritten PROVE Meaning(m) = m.kind
  BY DEF TakenAsMeant
<1>1. m.protocol = "DCS" /\ m.length \in {14, 19, 519}
  BY DEF DCSWritten, Msg
<1>2. Meaning(m) = DCSConnect(m)
  BY <1>1 DEF Meaning, Class, DCSClass, ConnectRead
<1> QED BY <1>2 DEF DCSWritten, Msg, DCSConnect, AckOrNak

\* CCS tells its calls by their length and their first letters.
LEMMA CCSTakenAsMeant ==
  \A m \in CallsWritten \cup {Msg("CCS", "ACK", 14, "ACK"), Msg("CCS", "NAK", 14, "NAK")} : TakenAsMeant(m)
<1> SUFFICES ASSUME NEW m \in CallsWritten \cup {Msg("CCS", "ACK", 14, "ACK"), Msg("CCS", "NAK", 14, "NAK")}
             PROVE  Meaning(m) = m.kind
  BY DEF TakenAsMeant
<1>1. CASE m \in CallsWritten
  <2>1. m.protocol = "CCS" /\ m.length \in {17, 20, 100}
    BY <1>1 DEF CallsWritten, Msg
  <2>2. Meaning(m) = CCSMisc(m)
    BY <2>1 DEF Meaning, Class, CCSClass
  <2> QED BY <1>1, <2>2 DEF CallsWritten, Msg, CCSMisc
<1>2. CASE m \in {Msg("CCS", "ACK", 14, "ACK"), Msg("CCS", "NAK", 14, "NAK")}
  <2>1. m.protocol = "CCS" /\ m.length = 14
    BY <1>2 DEF Msg
  <2>2. Meaning(m) = AckOrNak(m.text)
    BY <2>1 DEF Meaning, Class, CCSClass, ConnectRead
  <2> QED BY <1>2, <2>2 DEF Msg, AckOrNak
<1> QED BY <1>1, <1>2

\* The radio's protocols go by the type byte.
LEMMA RadioTakenAsMeant == \A m \in IcomWritten \cup HBDataWritten : TakenAsMeant(m)
<1>1. \A m \in IcomWritten : Meaning(m) = m.kind
  <2> SUFFICES ASSUME NEW m \in IcomWritten PROVE Meaning(m) = m.kind
    OBVIOUS
  <2>1. m.protocol = "ICOM"
    BY DEF IcomWritten, Msg
  <2>2. Meaning(m) = IcomType(m)
    BY <2>1 DEF Meaning, Class
  <2> QED BY <2>2 DEF IcomWritten, Msg, IcomType
<1> QED BY <1>1 DEF TakenAsMeant

\* Whatever the handlers of the protocols write is taken for what it is.
LEMMA AllTakenAsMeant == \A m \in Messages : TakenAsMeant(m)
BY PollsTaken, DExtraTakenAsMeant, DPlusTakenAsMeant, DCSTakenAsMeant, CCSTakenAsMeant, RadioTakenAsMeant
DEF Messages, ConnectsWritten

\* Saying something is the only step that changes what is heard.
LEMMA MessagesInvKept == MessagesInv /\ [PacketsNext]_packetVars => MessagesInv'
<1> SUFFICES ASSUME MessagesInv, [PacketsNext]_packetVars PROVE MessagesInv'
  OBVIOUS
<1>1. CASE UNCHANGED <<said, heard>>
  BY <1>1 DEF MessagesInv, HeardOf
<1>2. ASSUME NEW m \in Messages, Say(m) PROVE MessagesInv'
  <2>1. m # Nothing
    BY DEF Messages, PollsWritten, ConnectsWritten, DExtraWritten, DPlusWritten, DCSWritten, CallsWritten,
           IcomWritten, HBDataWritten, Msg, Nothing
  <2>2. said' = m /\ heard' = HeardOf(m)
    BY <1>2, <2>1 DEF Say, HeardOf
  <2> QED BY <2>2 DEF MessagesInv
<1> QED BY <1>1, <1>2 DEF PacketsNext, StreamHop, packetVars

\* Every message of every protocol is taken for what it was written as, whatever
\* was said before it, but for the two that Understood names.
THEOREM MessagesMeant == PacketsSpec => []Understood
<1>1. PacketsInit => MessagesInv
  BY DEF PacketsInit, MessagesInv, HeardOf
<1>2. MessagesInv => Understood
  <2> SUFFICES ASSUME MessagesInv PROVE Understood
    OBVIOUS
  <2>1. CASE said = Nothing
    BY <2>1 DEF MessagesInv, HeardOf, Understood
  <2>2. CASE said \in Messages /\ said # Nothing
    <3>1. heard.kind = Meaning(said)
      BY <2>2 DEF MessagesInv, HeardOf
    <3>2. TakenAsMeant(said)
      BY <2>2, AllTakenAsMeant
    <3> QED BY <3>1, <3>2 DEF TakenAsMeant, Understood
  <2> QED BY <2>1, <2>2 DEF MessagesInv
<1> QED BY <1>1, <1>2, MessagesInvKept, PTL DEF PacketsSpec
=============================================================================
