-------------------------------- MODULE SlowData --------------------------------
(***************************************************************************)
(* Slow data: what is sent beside the voice, three bytes in every frame,   *)
(* two frames to a block of six bytes of which the first says what the     *)
(* others are.  CSlowDataEncoder makes it for the announcements and the    *)
(* transmit tools ("TEXT"), and for CAPRSTransmit ("APRS"), which sends a  *)
(* string of GPS, a text and a header in one; CDRATSServer makes it of     *)
(* what its socket gives ("DRATS").  At the other end of a link frames are *)
(* missing: lost, or refused while the radio speaks.  There CTextCollector *)
(* CAPRSCollector and CDRATSServer take it apart again.                    *)
(***************************************************************************)
EXTENDS Integers, Sequences, SequencesExt, FiniteSetsExt

CONSTANTS Strings,     \* lengths of the strings of GPS, from "$$CRC" to the return
          Rounds,      \* how often 21 frames of a text are sent
          Marks,       \* the last bytes of the messages that D-RATS is given
          Losses       \* bound: frames that are lost

ASSUME SlowDataAssumption ==
  /\ Strings \subseteq Nat \ (0 .. 10) /\ Rounds \in Nat \ {0} /\ Losses \in Nat
  /\ Marks \subseteq Nat \ (0 .. 4)

VARIABLES
  source,      \* who sends: "TEXT", "APRS" or "DRATS"
  string,      \* the length of the string of GPS
  letters,     \* a letter or digit -> the number or length of the block it looks like
  seq,         \* the sequence number of the next frame, -1 when none is sent
  position,    \* m_textPtr, m_interleavedPtr or m_readPos
  sent,        \* frames of slow data so far
  readText,    \* m_readBuffer
  fed,         \* bytes that were written to D-RATS's socket
  cut,         \* some of them came while a block was half sent
  missing, round,  \* frames that were lost, in all and since the last sync
  half,        \* m_slowData, m_writeState: the first half of a block, or none
  blocks,      \* m_has0 .. m_has3 and m_data: number -> five bytes
  text,        \* the text that was collected
  gpsMode, collector,  \* CAPRSCollector's m_state and m_collector
  report,      \* the string that it gave
  writeText, written       \* m_writeBuffer, and what was written to the far socket

slowVars == <<source, string, letters, seq, position, sent, readText, fed, cut, missing, round, half, blocks, text,
              gpsMode, collector, report, writeText, written>>
senderVars == <<position, sent, readText, fed, cut>>
constVars == <<source, string, letters>>

Block == 6
FullBlock == 60
Filler == <<"FILLER", 0>>
Fillers(n) == [i \in 1 .. n |-> Filler]
Letter(kind, n) == <<kind, n>>

-----------------------------------------------------------------------------
(* The encoder.  A buffer is a sequence of bytes.                          *)

\* setTextData: four blocks of five letters.
Five(kind, b) == [i \in 1 .. 5 |-> Letter(kind, 5 * (b - 1) + i)]
TextData == FlattenSeq([b \in 1 .. 4 |-> <<Letter("TEXT", b - 1)>> \o Five("CHAR", b)]) \o Fillers(36)

\* setHeaderData
HeaderData == FlattenSeq([b \in 1 .. 8 |-> <<Letter("HEADER", 5)>> \o Five("HEAD", b)])
              \o <<Letter("HEADER", 1), Letter("HEAD", 41)>> \o Fillers(10)

\* setGPSData: the room it makes for the bytes that say the type, and the blocks
\* that it puts into it, after the last of which only types follow.
GpsSize == 1 + ((string - 1) \div 6) + string
GpsFullSize == FullBlock * (1 + ((GpsSize - 1) \div FullBlock))
GpsData ==
  LET full == string \div 5
      rest == string % 5
      blocksOf == FlattenSeq([b \in 1 .. full |-> <<Letter("GPS", 5)>> \o Five("BYTE", b)])
      last == <<Letter("GPS", rest)>> \o [i \in 1 .. rest |-> Letter("BYTE", 5 * full + i)]
      all == blocksOf \o last \o [i \in 1 .. GpsFullSize |-> Letter("GPS", 0)]
  IN  SubSeq(all, 1, GpsFullSize)

InterleavedSize == FullBlock * (1 + ((24 + 54 + GpsSize - 1) \div FullBlock))

\* buildInterleavedData for a text, a header and a string: block by block, the text
\* in every other one, then the string, then the header.
InterleavedData ==
  LET at[j \in 0 .. InterleavedSize \div Block] ==
        IF j = 0 THEN [data |-> <<>>, text |-> 0, gps |-> 0, head |-> 0]
        ELSE LET b == at[j - 1]
                 Piece(from, p) == b.data \o SubSeq(from, p + 1, p + Block)
             IN  IF b.text < 24 /\ (j - 1) % 2 = 0
                 THEN [b EXCEPT !.data = Piece(TextData, b.text), !.text = @ + Block]
                 ELSE IF b.gps < GpsSize
                 THEN [b EXCEPT !.data = Piece(GpsData, b.gps), !.gps = @ + Block]
                 ELSE IF b.head < 54
                 THEN [b EXCEPT !.data = Piece(HeaderData, b.head), !.head = @ + Block]
                 ELSE [b EXCEPT !.data = @ \o Fillers(Block)]
  IN  at[InterleavedSize \div Block].data

\* getData: the next three bytes, and where the pointer goes.
Next3(data, p) == SubSeq(data, p + 1, p + 3)
Advance(p, length) == IF p + 3 >= length THEN 0 ELSE p + 3

-----------------------------------------------------------------------------
(* The far end.                                                            *)

\* A letter that is taken for the first byte of a block looks like one of text, and a
\* digit like one of GPS.
BlockNumber(b) == IF b[1] = "TEXT" THEN b[2] ELSE IF b[1] = "CHAR" /\ b \in DOMAIN letters THEN letters[b] ELSE -1
GpsLength(b) == IF b[1] = "GPS" THEN b[2] ELSE IF b[1] = "BYTE" /\ b \in DOMAIN letters THEN letters[b] ELSE -1

\* CTextCollector, which is not given anything once it has a text.
CollectText(block) ==
  LET n == BlockNumber(block[1])
      now == IF n = -1 THEN blocks ELSE [blocks EXCEPT ![n] = Tail(block)]
      whole == \A i \in 0 .. 3 : now[i] # <<>>
  IN  IF text # <<>> THEN UNCHANGED <<blocks, text>>
      ELSE /\ text' = IF whole THEN now[0] \o now[1] \o now[2] \o now[3] ELSE <<>>
           /\ blocks' = IF whole THEN [i \in 0 .. 3 |-> <<>>] ELSE now

\* CAPRSCollector on a string with a checksum: it begins with "$$CRC", the letters 1
\* to 5, and ends with the last return.
Begins(data) == {i \in 1 .. Len(data) - 4 : SubSeq(data, i, i + 4) = [k \in 1 .. 5 |-> Letter("BYTE", k)]}
Ends(data) == {i \in DOMAIN data : data[i] = Letter("BYTE", string)}
CollectGps(block) ==
  LET data == collector \o Tail(block)
      n1 == Min(Begins(data))
      n2 == Max(Ends(data))
  IN  IF GpsLength(block[1]) = -1 THEN UNCHANGED <<gpsMode, collector, report>>
      ELSE IF gpsMode = "NONE"
      THEN /\ collector' = data /\ UNCHANGED report
           /\ gpsMode' = IF Begins(data) # {} THEN "CRC" ELSE "NONE"
      ELSE IF Ends(data) = {} \/ n2 < n1
      THEN collector' = data /\ UNCHANGED <<gpsMode, report>>
      \* What it gives is told once, for the next one comes too soon.
      ELSE /\ gpsMode' = "NONE"
           /\ LET good == n2 - n1 < 300 /\ SubSeq(data, n1, n2) = [k \in 1 .. string |-> Letter("BYTE", k)]
              IN  /\ report' = IF good /\ report = <<>> THEN SubSeq(data, n1, n2) ELSE report
                  /\ collector' = IF good THEN <<>> ELSE IF n2 - n1 < 300 THEN SubSeq(data, n2, Len(data)) ELSE data

\* CDRATSServer::writeData: byte by byte, written at the end of a message.
Marked(data) == \E m \in Marks : IsSuffix([k \in 1 .. 5 |-> Letter("BYTE", m - 5 + k)], data)
TakeByte(w, b) ==
  LET data == Append(w.buffer, b)
  IN  IF Marked(data) THEN [buffer |-> <<>>, written |-> w.written \o data]
      ELSE [w EXCEPT !.buffer = data]
CollectDRats(block) ==
  LET n == Min({GpsLength(block[1]), 5})
      w == FoldLeft(TakeByte, [buffer |-> writeText, written |-> written], SubSeq(block, 2, n + 1))
  IN  IF n = -1 THEN UNCHANGED <<writeText, written>>
      ELSE writeText' = w.buffer /\ written' = w.written

\* A frame of slow data, the second half of a block or the first.
Collect(frame) ==
  IF half = <<>>
  THEN half' = frame /\ UNCHANGED <<blocks, text, gpsMode, collector, report, writeText, written>>
  ELSE /\ half' = <<>>
       /\ CollectText(half \o frame)
       /\ IF source = "DRATS"
          THEN CollectDRats(half \o frame) /\ UNCHANGED <<gpsMode, collector, report>>
          ELSE CollectGps(half \o frame) /\ UNCHANGED <<writeText, written>>

Lost ==
  /\ missing < Losses
  /\ missing' = missing + 1 /\ round' = round + 1
  /\ UNCHANGED <<half, blocks, text, gpsMode, collector, report, writeText, written>>

Arrives(frame) == (Collect(frame) /\ UNCHANGED <<missing, round>>) \/ Lost

\* Mutant: a sync frame does not begin a block.
SynchroniseNot == UNCHANGED half
Synchronise == half' = <<>>
SyncArrives ==
  \/ Synchronise /\ round' = 0 /\ UNCHANGED <<missing, blocks, text, gpsMode, collector, report, writeText, written>>
  \/ Lost

\* The end; one with the number of a sync frame is taken for that.
EndArrives ==
  /\ IF seq = 0
     THEN half' = <<>> /\ UNCHANGED <<writeText, written>>
     ELSE writeText' = <<>> /\ written' = written \o writeText /\ UNCHANGED half
  /\ UNCHANGED <<blocks, text, gpsMode, collector, report, missing, round>>

-----------------------------------------------------------------------------
(* The senders, one frame after another: a sync frame, then twenty others. *)

NextSeq(n) == (n + 1) % 21

\* CAPRSTransmit sends the bytes twice.
AprsNeeded == 2 * (InterleavedSize \div 3)

SendSync ==
  /\ seq = 0
  /\ \/ source = "TEXT" /\ sent < 20 * Rounds
     \/ source = "APRS" /\ sent < AprsNeeded
  /\ seq' = 1 /\ position' = IF source = "TEXT" THEN 0 ELSE position
  /\ SyncArrives
  /\ UNCHANGED <<constVars, sent, readText, fed, cut>>

SendText ==
  /\ source = "TEXT" /\ seq \in 1 .. 20
  /\ seq' = NextSeq(seq) /\ sent' = sent + 1 /\ position' = Advance(position, FullBlock)
  /\ Arrives(Next3(TextData, position))
  /\ UNCHANGED <<constVars, readText, fed, cut>>

\* The pointer goes only as far as the string alone would need.
SendAprs ==
  /\ source = "APRS" /\ seq \in 1 .. 20 /\ sent < AprsNeeded
  /\ seq' = NextSeq(seq) /\ sent' = sent + 1 /\ position' = Advance(position, GpsFullSize)
  /\ Arrives(Next3(InterleavedData, position))
  /\ UNCHANGED <<constVars, readText, fed, cut>>

SendLast ==
  /\ \/ source = "TEXT" /\ seq = 0 /\ sent = 20 * Rounds
     \/ source = "APRS" /\ sent = AprsNeeded /\ seq # -1
  /\ seq' = -1
  /\ EndArrives
  /\ UNCHANGED <<constVars, senderVars>>

-----------------------------------------------------------------------------
(* CDRATSServer::Entry.  seq is -1 while nothing is sent.                  *)

Total == Max(Marks)
HalfSent == seq # -1 /\ seq % 2 = 0 /\ seq # 0

Left == Len(readText) - position
ReadBytes(n) == SubSeq(readText, position + 1, position + n)
Ending == position > 0 /\ Left = 0

\* serviceSocket, while there is something to send or nothing.
Feed ==
  /\ source = "DRATS" /\ fed < Total /\ ~ Ending
  /\ \E n \in 1 .. Total - fed :
       /\ readText' = readText \o [k \in 1 .. n |-> Letter("BYTE", fed + k)]
       /\ fed' = fed + n
  /\ cut' = (cut \/ HalfSent)
  /\ UNCHANGED <<constVars, seq, position, sent, missing, round, half, blocks, text, gpsMode, collector, report,
                 writeText, written>>

\* m_readEnd: the end of a message is there.
ReadEnd == \E m \in Marks : \E i \in 5 .. Len(readText) :
             readText[i] = Letter("BYTE", m) /\ readText[i - 4] = Letter("BYTE", m - 4)

Begin ==
  /\ source = "DRATS" /\ seq = -1 /\ ReadEnd
  /\ seq' = 0 /\ position' = 0
  /\ half' = <<>> /\ writeText' = <<>> /\ written' = written \o writeText    \* writeHeader
  /\ UNCHANGED <<constVars, sent, readText, fed, cut, missing, round, blocks, text, gpsMode, collector, report>>

SendDRatsSync ==
  /\ source = "DRATS" /\ seq = 0
  /\ seq' = 1
  /\ SyncArrives
  /\ UNCHANGED <<constVars, senderVars>>

\* The first half says how many bytes the block has by what is there now.
SendFirstHalf ==
  /\ source = "DRATS" /\ seq % 2 = 1 /\ seq # -1 /\ Left > 0
  /\ LET n == Min({2, Left})
     IN  /\ position' = position + n
         /\ Arrives(<<Letter("GPS", Min({5, Left}))>> \o ReadBytes(n) \o Fillers(2 - n))
  /\ seq' = NextSeq(seq) /\ UNCHANGED <<constVars, sent, readText, fed, cut>>

\* The second half takes what is there by then.
SendSecondHalf ==
  /\ source = "DRATS" /\ HalfSent
  /\ LET n == Min({3, Left})
     IN  /\ position' = position + n
         /\ Arrives(ReadBytes(n) \o Fillers(3 - n))
  /\ seq' = NextSeq(seq) /\ UNCHANGED <<constVars, sent, readText, fed, cut>>

\* Everything is sent; a block that was begun has been filled up.
SendDRatsEnd ==
  /\ source = "DRATS" /\ Ending /\ ~ HalfSent
  /\ seq' = -1 /\ position' = 0 /\ readText' = <<>>
  /\ EndArrives
  /\ UNCHANGED <<constVars, sent, fed, cut>>

-----------------------------------------------------------------------------
SlowInit ==
  /\ source \in {"TEXT", "APRS", "DRATS"}
  /\ IF source = "APRS" THEN string \in Strings ELSE string = 11
  /\ letters \in {<<>>, IF source = "TEXT" THEN [b \in {Letter("CHAR", 3)} |-> 3]
                       ELSE [b \in {Letter("BYTE", 8)} |-> 5]}
  /\ seq = IF source = "DRATS" THEN -1 ELSE 0
  /\ position = 0 /\ sent = 0 /\ readText = <<>> /\ fed = 0 /\ cut = FALSE
  /\ missing = 0 /\ round = 0 /\ half = <<>> /\ blocks = [i \in 0 .. 3 |-> <<>>] /\ text = <<>>
  /\ gpsMode = "NONE" /\ collector = <<>> /\ report = <<>> /\ writeText = <<>> /\ written = <<>>

SlowNext ==
  \/ SendSync \/ SendText \/ SendAprs \/ SendLast
  \/ Feed \/ Begin \/ SendDRatsSync \/ SendFirstHalf \/ SendSecondHalf \/ SendDRatsEnd

-----------------------------------------------------------------------------
\* A text that is collected is the one that was sent, unless a frame is missing before
\* it is whole; and it is collected when all the frames between two sync frames arrive,
\* whatever is missing before them.
TextHeard ==
  source = "TEXT" =>
    /\ text = <<>> \/ text = [i \in 1 .. 20 |-> Letter("CHAR", i)] \/ missing > 0
    /\ seq = 0 /\ sent > 0 /\ round = 0 => text # <<>>

\* When no frame is missing, and nothing is written to the socket while a block is half
\* sent, the far socket gets the messages as they were written, each by its end.
DRatsHeard ==
  source = "DRATS" /\ missing = 0 /\ ~ cut =>
    /\ written \o writeText = [k \in 1 .. Len(written \o writeText) |-> Letter("BYTE", k)]
    /\ seq = -1 => Len(written \o writeText) + Len(readText) = fed
    /\ seq = -1 => \A m \in Marks : m + Len(readText) <= fed => m <= Len(written)

\* A string of GPS is sent twice and comes through when one frame of it is missing, or
\* none.  It is so for the lengths up to 30 and from 52 to 80; from 31 to 51 and from 81
\* on the sender's pointer goes round before the end, or there is no room for the last
\* types, and it never comes through.
AprsHeard == source = "APRS" /\ seq = -1 /\ missing <= 1 => report # <<>>

\* What the slow data of a stream says is heard as it was sent.
HeardAsSent == TextHeard /\ DRatsHeard /\ AprsHeard
=============================================================================
