--------------------------------- MODULE Packets --------------------------------
(***************************************************************************)
(* The packets of the seven protocols, as what is written from memory, what*)
(* the reader's dispatcher (readPackets) takes it for, and what comes back *)
(* into memory.  A voice stream goes over a chain of hops, each gateway    *)
(* reading one protocol and writing another; a message (poll, connect and  *)
(* so on) goes over one.                                                   *)
(*                                                                         *)
(* A packet keeps what the dispatchers look at: its length, its type byte  *)
(* ("mark") and a text; callsigns are one value, voice is left out.        *)
(***************************************************************************)
EXTENDS Naturals, Sequences, SequencesExt

CONSTANTS Bytes,       \* values of a byte of a stream's identifier
          Hops         \* bound: the length of a chain

ASSUME PacketsAssumption == Bytes # {} /\ Hops \in Nat

VARIABLES origin,      \* the stream as it was made: its end bit and flags
          header,      \* the header, in the memory of the last gateway
          frame,       \* a frame of it, in the same memory
          hops,        \* gateways passed
          said, heard  \* a message as it was written, and as it was read

packetVars == <<origin, header, frame, hops, said, heard>>

Combined == {"DCS", "CCS"}         \* every frame carries the header
Separate == {"ICOM", "HB", "G2", "DEXTRA", "DPLUS"}
Voice == Separate \cup Combined
Nothing == [protocol |-> "NONE", kind |-> "NONE"]

-----------------------------------------------------------------------------
(* Headers and frames as they are written: an identifier is a pair of bytes,*)
(* the high one first in memory; the mark is what the dispatcher looks at, *)
(* a frame's sequence number, a type of its own, or a length.              *)

LowFirst(id) == Reverse(id)

RadioHeader(p, h) ==
  [mark |-> IF p = "HB" THEN 32 ELSE 128, id |-> h.id, flags |-> h.flags, calls |-> h.calls]

\* DExtra and D-Plus write no flags, and the low byte of the identifier first.
LinkHeader(p, h) ==
  [mark |-> IF p = "DPLUS" THEN 58 ELSE 128, id |-> LowFirst(h.id), flags |-> 0, calls |-> h.calls]

HeaderWritten(p, h) == IF p \in {"DEXTRA", "DPLUS"} THEN LinkHeader(p, h) ELSE RadioHeader(p, h)

SeqByte(f) == f.seq + (IF f.end THEN 64 ELSE 0)

RadioFrame(p, f) ==
  [mark |-> IF p = "HB" THEN 33 ELSE SeqByte(f), id |-> f.id, byte |-> SeqByte(f)]

\* Mutant: frames are written in the order they are read in.
LinkFrameAsRead(p, f) ==
  [mark |-> IF p = "DEXTRA" THEN SeqByte(f) ELSE IF f.end THEN 32 ELSE 29,
   id |-> f.id, byte |-> SeqByte(f)]

LinkFrame(p, f) ==
  [mark |-> IF p = "DEXTRA" THEN SeqByte(f) ELSE IF f.end THEN 32 ELSE 29,
   id |-> LowFirst(f.id), byte |-> SeqByte(f)]

\* DCS and CCS: the header is in every frame, with no identifier of its own;
\* CCS leaves its flags out.
CombinedFrame(p, f, h) ==
  [mark |-> 100, id |-> LowFirst(f.id), byte |-> SeqByte(f),
   flags |-> IF p = "CCS" THEN 0 ELSE h.flags, calls |-> h.calls]

FrameWritten(p, f, h) ==
  CASE p \in {"DEXTRA", "DPLUS"} -> LinkFrame(p, f)
    [] p \in Combined -> CombinedFrame(p, f, h)
    [] OTHER -> RadioFrame(p, f)

-----------------------------------------------------------------------------
(* ... as they are recognised ...                                          *)

HighBit(mark) == IF mark >= 128 THEN "HEADER" ELSE "AMBE"
IcomTaken(mark) == HighBit(mark)
G2Taken(mark) == HighBit(mark)
DExtraTaken(mark) == IF mark = 128 THEN "HEADER" ELSE "AMBE"
DPlusTaken(mark) == CASE mark = 58 -> "HEADER" [] mark \in {29, 32} -> "AMBE" [] OTHER -> "NONE"
HBTaken(mark) == CASE mark = 32 -> "HEADER" [] mark = 33 -> "AMBE" [] OTHER -> "NONE"
DCSTaken(mark) == IF mark = 100 THEN "AMBE" ELSE "NONE"
CCSTaken(mark) == "AMBE"

TakenFor(p, mark) ==
  CASE p = "ICOM" -> IcomTaken(mark) [] p = "G2" -> G2Taken(mark)
    [] p = "DEXTRA" -> DExtraTaken(mark) [] p = "DPLUS" -> DPlusTaken(mark)
    [] p = "HB" -> HBTaken(mark) [] p = "DCS" -> DCSTaken(mark) [] p = "CCS" -> CCSTaken(mark)

-----------------------------------------------------------------------------
(* ... and as they are read: the high byte first, but for DCS and CCS.     *)

RadioHeaderRead(w) == [id |-> w.id, flags |-> w.flags, calls |-> w.calls]
LinkHeaderRead(w) == [id |-> w.id, flags |-> w.flags, calls |-> w.calls]

HeaderRead(p, w) ==
  CASE TakenFor(p, w.mark) # "HEADER" -> Nothing
    [] p \in {"DEXTRA", "DPLUS"} -> LinkHeaderRead(w)
    [] OTHER -> RadioHeaderRead(w)

FrameOf(id, byte) == [id |-> id, seq |-> byte % 64, end |-> byte >= 64]

FrameRead(p, w) ==
  CASE TakenFor(p, w.mark) # "AMBE" -> Nothing
    [] p \in Combined -> FrameOf(LowFirst(w.id), w.byte)
    [] OTHER -> FrameOf(w.id, w.byte)

CombinedHeaderRead(w) == [id |-> LowFirst(w.id), flags |-> w.flags, calls |-> w.calls]

StreamHop(p) ==
  /\ hops < Hops /\ hops' = hops + 1
  /\ LET w == FrameWritten(p, frame, header)
     IN /\ frame' = FrameRead(p, w)
        /\ header' = IF p \in Combined THEN CombinedHeaderRead(w)
                     ELSE HeaderRead(p, HeaderWritten(p, header))
  /\ UNCHANGED <<origin, said, heard>>

-----------------------------------------------------------------------------
(* The other messages, as getXData writes them: length, type or text.      *)

Msg(p, k, l, t) == [protocol |-> p, kind |-> k, length |-> l, text |-> t]

\* Reflector modules: "BLANK" is what a callsign without a module has.
Modules == {"A", "BLANK"}

PollsWritten ==
  {Msg("DEXTRA", "POLL", 9, "NONE"), Msg("DPLUS", "POLL", 3, "NONE"),
   Msg("DCS", "POLL_OUT", 17, "NONE"), Msg("DCS", "POLL_IN", 22, "NONE"), Msg("CCS", "POLL", 25, "NONE"),
   Msg("HB", "POLL", 10, "DSRP"), Msg("ICOM", "POLL", 0, "DSTR")}

DExtraWritten ==
  {Msg("DEXTRA", "LINK", 11, m) : m \in Modules} \cup
  {Msg("DEXTRA", "UNLINK", 11, "BLANK"),
   Msg("DEXTRA", "ACK", 14, "ACK"), Msg("DEXTRA", "NAK", 14, "NAK")}

DPlusWritten ==
  {Msg("DPLUS", "LINK", 5, "1"), Msg("DPLUS", "UNLINK", 5, "0"), Msg("DPLUS", "LOGIN", 28, "NONE"),
   Msg("DPLUS", "ACK", 8, "OKRW"), Msg("DPLUS", "NAK", 8, "BUSY")}

DCSWritten ==
  {Msg("DCS", "LINK", 519, "NONE"), Msg("DCS", "UNLINK", 19, "NONE"),
   Msg("DCS", "ACK", 14, "ACK"), Msg("DCS", "NAK", 14, "NAK")}

ConnectsWritten ==
  DExtraWritten \cup DPlusWritten \cup DCSWritten
    \cup {Msg("CCS", "ACK", 14, "ACK"), Msg("CCS", "NAK", 14, "NAK")}

\* What the CCS server sends, as far as CCCSData reads it.
CallsWritten ==
  {Msg("CCS", "TERMINATE", 100, "0001"), Msg("CCS", "FOUND", 20, "DTMF_CALL"),
   Msg("CCS", "NOTFOUND", 17, "NODTMFCALL")}

\* What an Icom controller sends besides voice: its type is in the seventh
\* and eighth byte.
IcomWritten == {Msg("ICOM", "ACK", 10, "DSTR"), Msg("ICOM", "HEARD", 33, "DSTR"),
                Msg("ICOM", "DD", 17, "DSTR")}

\* A homebrew DD packet: at which byte the header is written, and read.
DDHeaderWritten == 5
DDHeaderRead == 0
HBDataWritten == {Msg("HB", "DD", 36, "DSRP")}

Messages == PollsWritten \cup ConnectsWritten \cup CallsWritten \cup IcomWritten \cup HBDataWritten

\* readPackets: what a message is taken for by its length ...
DExtraClass(l) == CASE l = 9 -> "POLL" [] l \in {11, 14} -> "CONNECT" [] OTHER -> "NONE"
DPlusClass(l) == CASE l = 3 -> "POLL" [] l \in {5, 8, 28} -> "CONNECT" [] OTHER -> "NONE"
DCSClass(l) == CASE l \in {17, 22} -> "POLL" [] l \in {14, 19, 519} -> "CONNECT" [] OTHER -> "NONE"
CCSClass(l) ==
  CASE l = 14 -> "CONNECT" [] l = 25 -> "POLL" [] l \in {17, 20, 100} -> "MISC" [] OTHER -> "NONE"

Class(m) ==
  CASE m.protocol = "DEXTRA" -> DExtraClass(m.length) [] m.protocol = "DPLUS" -> DPlusClass(m.length)
    [] m.protocol = "DCS" -> DCSClass(m.length) [] m.protocol = "CCS" -> CCSClass(m.length)
    [] OTHER -> "OWN"          \* HB and Icom go by the type byte alone

AckOrNak(text) == IF text = "ACK" THEN "ACK" ELSE IF text = "NAK" THEN "NAK" ELSE "NONE"

\* Mutant: an unlink is not told from a link.
DExtraLinkOnly(m) == IF m.length = 11 THEN "LINK" ELSE AckOrNak(m.text)

\* ... and setXData: what it says.
DExtraConnect(m) ==
  IF m.length = 11 THEN IF m.text = "BLANK" THEN "UNLINK" ELSE "LINK" ELSE AckOrNak(m.text)

DPlusConnect(m) ==
  CASE m.length = 5 -> IF m.text = "1" THEN "LINK" ELSE "UNLINK"
    [] m.length = 8 -> IF m.text = "OKRW" THEN "ACK" ELSE "NAK"
    [] m.length = 28 -> "LOGIN"

DCSConnect(m) ==
  CASE m.length = 519 -> "LINK" [] m.length = 19 -> "UNLINK" [] m.length = 14 -> AckOrNak(m.text)

DCSPoll(m) == IF m.length = 17 THEN "POLL_OUT" ELSE "POLL_IN"

CCSMisc(m) ==
  CASE m.length = 100 /\ m.text = "0001" -> "TERMINATE"
    [] m.length = 20 /\ m.text = "DTMF_CALL" -> "FOUND"
    [] m.length = 17 /\ m.text = "NODTMFCALL" -> "NOTFOUND"
    [] OTHER -> "NONE"

HBType(m) == \* the fifth byte
  CASE m.length = 10 -> "POLL"
    [] m.length = 36 -> IF DDHeaderRead = DDHeaderWritten THEN "DD" ELSE "GARBLED"

IcomType(m) == \* 0x72 in a packet of ten bytes, then 0x21, 0x00 and 0x11
  CASE m.length = 10 -> "ACK" [] m.length = 33 -> "HEARD"
    [] m.length = 0 -> "POLL" [] m.length = 17 -> "DD"

ConnectRead(m) == \* readConnect
  CASE m.protocol = "DEXTRA" -> DExtraConnect(m)
    [] m.protocol = "DPLUS" -> DPlusConnect(m)
    [] m.protocol = "DCS" -> DCSConnect(m)
    [] m.protocol = "CCS" -> AckOrNak(m.text)

Meaning(m) ==
  CASE m.protocol = "HB" -> HBType(m)
    [] m.protocol = "ICOM" -> IcomType(m)
    [] Class(m) = "MISC" -> CCSMisc(m)
    [] Class(m) = "POLL" -> (IF m.protocol = "DCS" THEN DCSPoll(m) ELSE "POLL")
    [] Class(m) = "CONNECT" -> ConnectRead(m)
    [] OTHER -> "NONE"

Say(m) ==
  /\ said' = m
  /\ heard' = [protocol |-> m.protocol, kind |-> Meaning(m)]
  /\ UNCHANGED <<origin, header, frame, hops>>
-----------------------------------------------------------------------------

PacketsInit ==
  /\ \E id \in Bytes \X Bytes, end \in BOOLEAN, flags \in {0, 1}, seq \in {0, 20} :
       /\ origin = [end |-> end, flags |-> flags, seq |-> seq]
       /\ header = [id |-> id, flags |-> flags, calls |-> "SENT"]
       /\ frame = [id |-> id, seq |-> seq, end |-> end]
  /\ hops = 0 /\ said = Nothing /\ heard = Nothing

PacketsNext == (\E p \in Voice : StreamHop(p)) \/ (\E m \in Messages : Say(m))

\* A header and its frames keep one identifier over any chain of protocols,
\* though DExtra and D-Plus turn its bytes round, and a frame that ends the
\* stream still does: frames find the stream their header opened.
SameStream ==
  /\ header.id = frame.id /\ header.calls = "SENT"
  /\ frame.end = origin.end /\ frame.seq = origin.seq
  /\ header.flags \in {0, origin.flags}

\* What one gateway writes another takes for the same thing, but for a link to
\* no module, which DExtra reads as an unlink (and homebrew DD, see below).
Understood ==
  \/ heard.kind = said.kind
  \/ said = Msg("DEXTRA", "LINK", 11, "BLANK") /\ heard.kind = "UNLINK"
  \/ said \in HBDataWritten

\* "Add homebrew DD data support": the header of a DD packet is read where it
\* is written.
DDUnderstood == said.kind = "DD" => heard.kind = "DD"
=============================================================================
