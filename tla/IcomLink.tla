-------------------------------- MODULE IcomLink --------------------------------
(***************************************************************************)
(* CIcomRepeaterProtocolHandler: the link to an Icom RP2C controller.  The *)
(* gateway's thread puts packets into m_gwyQueue, a CRingBuffer; the link's*)
(* thread sends one, keeps it in m_ackQueue and sends it again every 200 ms*)
(* until an acknowledgement comes.  The controller and the network are not *)
(* part of the program: it acknowledges what it gets with the number that  *)
(* was on it, and the network loses packets but keeps their order.         *)
(*                                                                         *)
(* Packets are numbered in the order they are queued.                      *)
(***************************************************************************)
EXTENDS Naturals, Sequences, FiniteSets

CONSTANTS RingSize,    \* QUEUE_LENGTH: 50
          SeqNos,      \* sequence numbers: 2^16
          MaxQueued,   \* bound: packets queued
          Wire         \* bound: packets under way in each direction

\* The ring has room for the three packets of a reply.
ASSUME IcomLinkAssumption ==
  /\ RingSize \in Nat /\ RingSize > 2 /\ SeqNos \in Nat /\ SeqNos > 1
  /\ MaxQueued \in Nat /\ Wire \in Nat

VARIABLES icomOpen,    \* has open() succeeded, failed, or not ended?
          over1,       \* m_over1: does the gateway have several repeaters?
          slots, iPtr, oPtr,   \* m_gwyQueue
          made,        \* packets queued so far
          ackQueue,    \* m_ackQueue, 0 for NULL
          seqNo,       \* m_seqNo
          tries,       \* is m_tries > 0?
          toIcom, toGateway,   \* the network
          taken, freed,        \* packets the controller has got, and that were dropped from m_ackQueue
          answers      \* the network loses nothing any more

ringVars == <<slots, iPtr, oPtr, made>>
wireVars == <<toIcom, toGateway, taken>>
icomVars == <<icomOpen, over1, ringVars, ackQueue, seqNo, tries, wireVars, freed, answers>>

IcomInit ==
  /\ icomOpen = "NO" /\ over1 \in BOOLEAN
  /\ slots = [i \in 0 .. RingSize - 1 |-> 0] /\ iPtr = 0 /\ oPtr = 0 /\ made = 0
  /\ ackQueue = 0 /\ seqNo = 0 /\ tries = FALSE
  /\ toIcom = <<>> /\ toGateway = <<>> /\ taken = {} /\ freed = {} /\ answers = FALSE

Running == icomOpen = "YES"
After(n) == (n + 1) % SeqNos

\* open: the INIT packet is sent once; its answer has a sequence number, or
\* does not come.
Open ==
  /\ icomOpen = "NO"
  /\ \/ icomOpen' = "YES" /\ \E n \in 0 .. SeqNos - 1 : seqNo' = After(n)
     \/ icomOpen' = "FAILED" /\ UNCHANGED seqNo
  /\ UNCHANGED <<over1, ringVars, ackQueue, tries, wireVars, freed, answers>>

\* CRingBuffer::isEmpty.  A ring that is full looks empty.
RingIsEmpty == iPtr = oPtr

\* CRingBuffer::addData, n times: there is no check for a full ring.
AddData(n) ==
  /\ made + n <= MaxQueued /\ made' = made + n
  /\ slots' = [i \in DOMAIN slots |->
       IF \E k \in 1 .. n : i = (iPtr + k - 1) % RingSize
       THEN made + (CHOOSE k \in 1 .. n : i = (iPtr + k - 1) % RingSize)
       ELSE slots[i]]
  /\ iPtr' = (iPtr + n) % RingSize

\* writeHeader, writeAMBE and writeDD, by the gateway's thread.
WritePacket ==
  /\ Running /\ AddData(1)
  /\ UNCHANGED <<icomOpen, over1, oPtr, ackQueue, seqNo, tries, wireVars, freed, answers>>

\* sendMultiReply or sendSingleReply: one header and two frames, or one.
ReplyPackets == IF over1 THEN 3 ELSE 2

\* A header from the controller is acknowledged and answered.
HeaderFromIcom ==
  /\ Running /\ AddData(ReplyPackets)
  /\ UNCHANGED <<icomOpen, over1, oPtr, ackQueue, seqNo, tries, wireVars, freed, answers>>

\* The network takes a packet, or loses it.
Put(wire, wire2, p) ==
  \/ Len(wire) < Wire /\ wire2 = Append(wire, p)
  \/ ~answers /\ wire2 = wire

\* sendGwyPackets with nothing waiting for an acknowledgement.
SendNext ==
  /\ Running /\ ackQueue = 0 /\ ~RingIsEmpty
  /\ ackQueue' = slots[oPtr] /\ oPtr' = (oPtr + 1) % RingSize
  /\ Put(toIcom, toIcom', [seq |-> seqNo, packet |-> slots[oPtr]]) /\ tries' = TRUE
  /\ UNCHANGED <<icomOpen, over1, slots, iPtr, made, seqNo, toGateway, taken, freed, answers>>

\* Mutant: what was sent once is not sent again.
SendOnce == Running /\ ackQueue # 0 /\ ~tries /\ UNCHANGED icomVars

\* sendGwyPackets after 200 ms: the same packet, with the number m_seqNo has by now.
SendAgain ==
  /\ Running /\ ackQueue # 0
  /\ Put(toIcom, toIcom', [seq |-> seqNo, packet |-> ackQueue]) /\ tries' = TRUE
  /\ UNCHANGED <<icomOpen, over1, ringVars, ackQueue, seqNo, toGateway, taken, freed, answers>>

\* The controller gets a packet and acknowledges it.
IcomTakes ==
  /\ toIcom # <<>> /\ toIcom' = Tail(toIcom)
  /\ taken' = taken \cup {Head(toIcom).packet}
  /\ Put(toGateway, toGateway', Head(toIcom).seq)
  /\ UNCHANGED <<icomOpen, over1, ringVars, ackQueue, seqNo, tries, freed, answers>>

\* Mutant: an acknowledgement with another number puts the packet back into
\* the queue.
FreeRequeues(seq) ==
  /\ ackQueue' = 0
  /\ IF seq = seqNo \/ ackQueue = 0 THEN UNCHANGED ringVars /\ freed' = freed \cup ({ackQueue} \ {0})
     ELSE /\ slots' = [slots EXCEPT ![iPtr] = ackQueue] /\ iPtr' = (iPtr + 1) % RingSize
          /\ UNCHANGED <<oPtr, made, freed>>

\* Any acknowledgement frees the packet.
Free(seq) ==
  /\ ackQueue' = 0 /\ freed' = freed \cup ({ackQueue} \ {0})
  /\ UNCHANGED ringVars

\* readIcomPackets: an acknowledgement.
TakeAck ==
  /\ Running /\ toGateway # <<>> /\ toGateway' = Tail(toGateway)
  /\ LET seq == Head(toGateway)
     IN seqNo' = (IF seq = seqNo THEN After(seqNo) ELSE seq) /\ Free(seq)
  /\ tries' = FALSE
  /\ UNCHANGED <<icomOpen, over1, toIcom, taken, answers>>

IcomAnswers ==
  /\ ~answers /\ answers' = TRUE
  /\ UNCHANGED <<icomOpen, over1, ringVars, ackQueue, seqNo, tries, wireVars, freed>>

IcomNext ==
  \/ Open \/ WritePacket \/ HeaderFromIcom
  \/ SendNext \/ SendAgain \/ IcomTakes \/ TakeAck \/ IcomAnswers

\* The link's thread loops, and what is on the wire arrives.
IcomFairness ==
  WF_icomVars(SendNext \/ SendAgain) /\ WF_icomVars(IcomTakes) /\ WF_icomVars(TakeAck)

IcomSpec == IcomInit /\ [][IcomNext]_icomVars /\ IcomFairness

\* A packet is never overtaken by a later one, however many are lost in a
\* ring that has run over or are freed by an acknowledgement of another.
TheirOrder == [][\A p \in taken' \ taken, q \in taken : q < p]_icomVars

\* When the controller answers again, the packet that waits for it is
\* acknowledged: the queue never stops for good behind one that was lost.
QueueMoves == answers /\ ackQueue # 0 ~> ackQueue = 0

\* "Implemented a proper stop-and-wait protocol handler": what is freed has
\* been received.
StopAndWait == freed \subseteq taken
=============================================================================
