----------------------------- MODULE ServicesProofs -----------------------------
(***************************************************************************)
(* What users hear, set and type.                                          *)
(*                                                                         *)
(* TimeIsTold (TimeServer), for every interval: the words for a quarter of *)
(* the day name it, in every language.  The proof goes by the hour that    *)
(* the words name, this one or the next, and the part of the day it is in. *)
(*                                                                         *)
(* SavedIsRead and OnlyEdits (Configuration), for every row: a save that   *)
(* was reported done is read from where it was written, and a save sets    *)
(* what was edited and no other row.  The first rests on the tables of     *)
(* rows that are read and written (StoreInv: what a write leaves out is    *)
(* the same in every configuration); the second on what each control makes *)
(* of a value and gives back (EditInv: what has not been changed would be  *)
(* saved as it is, and only the row that is edited can make a DD repeater).*)
(*                                                                         *)
(* MeantIsDone (Dtmf), for every reflector, module and length of a pause:  *)
(* what CDTMF makes of the keys is what the user means by them.  First     *)
(* what translate makes of each form of a command, then that what was      *)
(* noted is what was typed so far (DtmfInv).                               *)
(***************************************************************************)
EXTENDS TimeServer, Configuration, Dtmf, SequenceTheorems, WellFoundedInduction, TLAPS

-----------------------------------------------------------------------------
(* TimeIsTold                                                              *)

TimeSpec == TimeInit /\ [][TimeNext]_timeVars

Hours == 0 .. 23
QuarterMinutes == {0, 15, 30, 45}

\* The hour that follows, and the minutes to it.
LEMMA BackFrom ==
  ASSUME NEW hour \in Hours, NEW min \in {30, 45}
  PROVE  Next24(hour) \in Hours /\ (60 * Next24(hour) + min + 1380) % 1440 = 60 * hour + min
<1>1. CASE hour = 23
  BY <1>1 DEF Next24, Hours
<1>2. CASE hour # 23
  BY <1>2 DEF Next24, Hours
<1> QED BY <1>1, <1>2

\* An hour on a face of twelve is one of those a listener takes it for.
LEMMA OnTheFace ==
  ASSUME NEW hour \in Hours
  PROVE  /\ Clock12(hour) \in 1 .. 12 /\ hour % 12 = Clock12(hour) % 12
         /\ Clock12From0(hour) \in 0 .. 12 /\ hour % 12 = Clock12From0(hour) % 12
BY DEF Hours, Clock12, Clock12From0

\* The words that count the minutes to the hour they name.
Ahead(w) == w.minutes \in {"to", "half-to"}

\* Words tell the time when they name its minutes, and its hour, or the next one
\* if they count to that.
LEMMA WordsTell ==
  ASSUME NEW w, NEW hour \in Hours, NEW min \in QuarterMinutes, MinutesMeant(w.minutes) = min,
         Ahead(w) => min \in {30, 45}, Named(hour, Ahead(w)) \in HoursMeant(w)
  PROVE  60 * hour + min \in Meant(w)
<1>1. CASE Ahead(w)
  <2>1. Next24(hour) \in HoursMeant(w)
    BY <1>1 DEF Named
  <2>2. (60 * Next24(hour) + MinutesMeant(w.minutes) + 1380) % 1440 = 60 * hour + min
    BY <1>1, BackFrom
  <2> QED BY <1>1, <2>1, <2>2 DEF Meant, Ahead
<1>2. CASE ~Ahead(w)
  <2>1. hour \in HoursMeant(w)
    BY <1>2 DEF Named
  <2>2. (60 * hour + MinutesMeant(w.minutes) + 0) % 1440 = 60 * hour + min
    BY DEF Hours, QuarterMinutes
  <2> QED BY <1>2, <2>1, <2>2 DEF Meant, Ahead
<1> QED BY <1>1, <1>2

\* Each of the three ways to say a quarter is understood as that quarter.
LEMMA QuartersMeant ==
  ASSUME NEW min \in QuarterMinutes, NEW h, NEW part
  PROVE  /\ LET w == Words(h, Digits(min), part) IN MinutesMeant(w.minutes) = min /\ ~Ahead(w)
         /\ LET w == Words(h, Quarters(min, "past", "half-past", "to"), part)
            IN MinutesMeant(w.minutes) = min /\ (Ahead(w) <=> min = 45)
         /\ LET w == Words(h, Quarters(min, "past", "half-to", "to"), part)
            IN MinutesMeant(w.minutes) = min /\ (Ahead(w) <=> min \in {30, 45})
BY DEF QuarterMinutes, Words, Digits, Quarters, MinutesMeant, Ahead

\* The hour that is named is an hour.
LEMMA NamedHour == ASSUME NEW hour \in Hours, NEW ahead \in BOOLEAN PROVE Named(hour, ahead) \in Hours
BY DEF Named, Next24, Hours

\* Hours on a face of twelve are understood, in the part of the day they are in.
LEMMA FaceMeant ==
  ASSUME NEW h \in Hours, NEW m, NEW part, h \in PartMeant(part)
  PROVE  h \in HoursMeant(Words(Clock12(h), m, part)) /\ h \in HoursMeant(Words(Clock12From0(h), m, part))
<1>1. /\ Clock12(h) <= 12 /\ h % 12 = Clock12(h) % 12
      /\ Clock12From0(h) <= 12 /\ h % 12 = Clock12From0(h) % 12
  BY OnTheFace
<1> QED BY <1>1 DEF HoursMeant, Words

\* A part of the day and an hour that is in it.
InPart(h, part) ==
  /\ part \in {"none", "AM", "PM", "midnight", "noon", "morning", "afternoon", "evening"}
  /\ (part = "AM" => h < 12) /\ (part = "PM" => h >= 12)
  /\ (part = "midnight" => h = 0) /\ (part = "noon" => h = 12)
  /\ (part = "morning" => h \in 1 .. 11)
  /\ (part = "afternoon" => h \in 13 .. 19)
  /\ (part = "evening" => h \in 19 .. 23)

\* Every hour is in the part of the day it is said to be in.
LEMMA PartsMeant == ASSUME NEW h \in Hours, NEW part, InPart(h, part) PROVE h \in PartMeant(part)
BY DEF Hours, PartMeant, InPart

\* In no language is an hour said to be in another part of the day.
EnglishPart(h, min) == CASE h = 0 /\ min = 0 -> "midnight" [] h = 12 /\ min = 0 -> "noon" [] OTHER -> "none"
FrenchPart(h) == CASE h = 0 -> "midnight" [] h = 12 -> "noon" [] OTHER -> "none"
LatinPart(h, last) ==
  CASE h = 0 -> "midnight" [] h = 12 -> "noon" [] h \in 1 .. 11 -> "morning"
    [] h \in 13 .. last -> "afternoon" [] OTHER -> "evening"

\* An hour is in each part of the day that some language gives it.
LEMMA PartsSaid ==
  ASSUME NEW h \in Hours, NEW min
  PROVE  /\ InPart(h, "none") /\ InPart(h, AmPm(h)) /\ InPart(h, EnglishPart(h, min)) /\ InPart(h, FrenchPart(h))
         /\ InPart(h, LatinPart(h, 18)) /\ InPart(h, LatinPart(h, 19))
<1>1. /\ h < 12 => AmPm(h) = "AM"
      /\ h >= 12 => AmPm(h) = "PM"
  BY DEF Hours, AmPm
<1>2. /\ EnglishPart(h, min) \in {"midnight", "noon", "none"}
      /\ EnglishPart(h, min) = "midnight" => h = 0
      /\ EnglishPart(h, min) = "noon" => h = 12
  BY DEF EnglishPart
<1>3. /\ FrenchPart(h) \in {"midnight", "noon", "none"}
      /\ FrenchPart(h) = "midnight" => h = 0
      /\ FrenchPart(h) = "noon" => h = 12
  BY DEF FrenchPart
<1>4. ASSUME NEW last \in {18, 19} PROVE InPart(h, LatinPart(h, last))
  <2>1. CASE h = 0
    BY <2>1 DEF LatinPart, InPart
  <2>2. CASE h = 12
    BY <2>2 DEF LatinPart, InPart
  <2>3. CASE h \in 1 .. 11
    BY <2>3 DEF LatinPart, InPart
  <2>4. CASE h \in 13 .. last
    BY <2>4 DEF LatinPart, InPart
  <2>5. CASE h \in last + 1 .. 23
    BY <2>5 DEF LatinPart, InPart
  <2> QED BY <2>1, <2>2, <2>3, <2>4, <2>5 DEF Hours
<1>5. InPart(h, "none") /\ InPart(h, AmPm(h))
  BY <1>1 DEF InPart, Hours
<1>6. InPart(h, EnglishPart(h, min)) /\ InPart(h, FrenchPart(h))
  BY <1>2, <1>3 DEF InPart, Hours
<1> QED BY <1>4, <1>5, <1>6

\* Digits tell the time, on a face of twelve with the half of the day and on one of 24 without.
LEMMA DigitsTell ==
  ASSUME NEW hour \in Hours, NEW min \in QuarterMinutes
  PROVE  /\ 60 * hour + min \in Meant(Words(Clock12(hour), Digits(min), AmPm(hour)))
         /\ 60 * hour + min \in Meant(Words(hour, Digits(min), "none"))
<1>1. /\ hour \in HoursMeant(Words(Clock12(hour), Digits(min), AmPm(hour)))
      /\ hour \in HoursMeant(Words(hour, Digits(min), "none"))
  <2>1. hour \in PartMeant(AmPm(hour)) /\ hour \in PartMeant("none")
    BY PartsSaid, PartsMeant
  <2>2. hour \in HoursMeant(Words(hour, Digits(min), "none"))
    BY <2>1 DEF HoursMeant, Words
  <2> QED BY <2>1, <2>2, FaceMeant
<1>2. \A h, part : /\ MinutesMeant(Words(h, Digits(min), part).minutes) = min
                   /\ ~Ahead(Words(h, Digits(min), part))
  BY QuartersMeant
<1> QED BY <1>1, <1>2, WordsTell DEF Named

\* "Quarter past", "half past" and "quarter to" tell the time, with any part of the day
\* that the hour they name is in.
LEMMA PastTells ==
  ASSUME NEW hour \in Hours, NEW min \in QuarterMinutes, NEW part, InPart(Named(hour, min = 45), part)
  PROVE  60 * hour + min \in
           Meant(Words(Clock12(Named(hour, min = 45)), Quarters(min, "past", "half-past", "to"), part))
<1> DEFINE h == Named(hour, min = 45)
           w == Words(Clock12(h), Quarters(min, "past", "half-past", "to"), part)
<1>1. h \in Hours /\ h \in HoursMeant(w)
  BY NamedHour, PartsMeant, FaceMeant
<1>2. MinutesMeant(w.minutes) = min /\ (Ahead(w) <=> min = 45)
  BY QuartersMeant
<1>3. Named(hour, Ahead(w)) = h
  BY <1>2 DEF Named
<1> QED BY <1>1, <1>2, <1>3, WordsTell

\* So do "quarter past", "half to" and "quarter to", on either face.
LEMMA ToTells ==
  ASSUME NEW hour \in Hours, NEW min \in QuarterMinutes
  PROVE  LET h == Named(hour, min \in {30, 45})
             q == Quarters(min, "past", "half-to", "to")
         IN  /\ 60 * hour + min \in Meant(Words(Clock12(h), q, "none"))
             /\ 60 * hour + min \in Meant(Words(Clock12From0(h), q, "none"))
<1> DEFINE h == Named(hour, min \in {30, 45})
           q == Quarters(min, "past", "half-to", "to")
<1>1. ASSUME NEW c \in {Clock12(h), Clock12From0(h)} PROVE 60 * hour + min \in Meant(Words(c, q, "none"))
  <2> DEFINE w == Words(c, q, "none")
  <2>1. h \in Hours
    BY DEF Named, Next24, Hours
  <2>2. h \in HoursMeant(w)
    BY <2>1, PartsSaid, PartsMeant, FaceMeant
  <2>3. MinutesMeant(w.minutes) = min /\ (Ahead(w) <=> min \in {30, 45})
    BY QuartersMeant
  <2>4. Named(hour, Ahead(w)) = h
    BY <2>3 DEF Named
  <2> QED BY <2>1, <2>2, <2>3, <2>4, WordsTell
<1> QED BY <1>1

\* In each of the twelve languages the words tell the time.
LEMMA SpokenTells ==
  ASSUME language \in Languages, NEW hour \in Hours, NEW min \in QuarterMinutes
  PROVE  60 * hour + min \in Meant(Spoken(hour, min))
<1> DEFINE Tells(w) == 60 * hour + min \in Meant(w)
<1>1. Tells(sendTimeEnGB1(hour, min)) /\ Tells(sendTimeEnUS1(hour, min)) /\ Tells(sendTimeDeDE1(hour, min))
  BY DigitsTell DEF sendTimeEnGB1, sendTimeEnUS1, sendTimeDeDE1
<1>2. Tells(sendTimeEnGB2(hour, min)) /\ Tells(sendTimeEnUS2(hour, min)) /\ Tells(sendTimeFrFR(hour, min))
  <2>1. Named(hour, min = 45) \in Hours
    BY NamedHour
  <2>2. /\ InPart(Named(hour, min = 45), EnglishPart(Named(hour, min = 45), min))
        /\ InPart(Named(hour, min = 45), FrenchPart(Named(hour, min = 45)))
    BY <2>1, PartsSaid
  <2>3. /\ Tells(Words(Clock12(Named(hour, min = 45)), Quarters(min, "past", "half-past", "to"),
                       EnglishPart(Named(hour, min = 45), min)))
        /\ Tells(Words(Clock12(Named(hour, min = 45)), Quarters(min, "past", "half-past", "to"),
                       FrenchPart(Named(hour, min = 45))))
    BY <2>2, PastTells
  <2> QED BY <2>3 DEF sendTimeEnGB2, sendTimeEnUS2, sendTimeFrFR, EnglishPart, FrenchPart
<1>3. Tells(sendTimeEsES(hour, min)) /\ Tells(sendTimePtPT(hour, min))
  <2>1. Named(hour, min = 45) \in Hours
    BY NamedHour
  <2>2. /\ InPart(Named(hour, min = 45), LatinPart(Named(hour, min = 45), 18))
        /\ InPart(Named(hour, min = 45), LatinPart(Named(hour, min = 45), 19))
    BY <2>1, PartsSaid
  <2>3. /\ Tells(Words(Clock12(Named(hour, min = 45)), Quarters(min, "past", "half-past", "to"),
                       LatinPart(Named(hour, min = 45), 18)))
        /\ Tells(Words(Clock12(Named(hour, min = 45)), Quarters(min, "past", "half-past", "to"),
                       LatinPart(Named(hour, min = 45), 19)))
    BY <2>2, PastTells
  <2> QED BY <2>3 DEF sendTimeEsES, sendTimePtPT, LatinPart
<1>4. /\ Tells(sendTimeDeDE2(hour, min)) /\ Tells(sendTimeNlNL(hour, min)) /\ Tells(sendTimeSeSE(hour, min))
      /\ Tells(sendTimeNoNO(hour, min))
  BY ToTells DEF sendTimeDeDE2, sendTimeNlNL, sendTimeSeSE, sendTimeNoNO
<1> HIDE DEF Tells
<1>5. Tells(Spoken(hour, min))
  BY <1>1, <1>2, <1>3, <1>4 DEF Languages, Spoken
<1> QED BY <1>5 DEF Tells

\* And the text beside them.
LEMMA TextTells ==
  ASSUME NEW hour \in Hours, NEW min
  PROVE  Text(hour, min).min = min /\ hour \in HoursMeant(Text(hour, min))
<1>1. /\ hour % 12 = Clock12(hour) % 12 /\ Clock12(hour) <= 12
      /\ hour \in PartMeant(AmPm(hour)) /\ hour \in PartMeant("none")
  BY OnTheFace, PartsSaid, PartsMeant
<1> QED BY <1>1 DEF Text, HoursMeant

\* The loop looks at quarters and between them; what is being sent was made at the
\* quarter it names, in the language and the format that are still set.
TimeInv ==
  /\ language \in Languages /\ interval \in Intervals
  /\ now \in 0 .. 1439 /\ now % 15 \in {0, 7}
  /\ told # NotTold =>
       /\ told.at \in 0 .. 1439 /\ told.at % 15 = 0
       /\ format = "VOICE_TIME" => told.spoken = Spoken(told.at \div 60, told.at % 60)
       /\ told.text = Text(told.at \div 60, told.at % 60)

\* The invariant is kept by the loop, whatever it looks at.
LEMMA TimeInvKept == TimeInv /\ [TimeNext]_timeVars => TimeInv'
<1> SUFFICES ASSUME TimeInv, [TimeNext]_timeVars PROVE TimeInv'
  OBVIOUS
<1>0. language' = language => \A h, m : Spoken(h, m)' = Spoken(h, m) /\ Text(h, m)' = Text(h, m)
  BY DEF Spoken, Text
<1>1. CASE NoVoice
  BY <1>1, SMTT(60) DEF NoVoice, TimeInv
<1>2. CASE Tick
  <2>1. CASE now % 15 = 0
    <3>1. now' = now + 7
      BY <1>2, <2>1 DEF Tick, TimeInv
    <3> QED BY <1>2, <2>1, <3>1, <1>0, SMTT(60) DEF Tick, TimeInv
  <2>2. CASE now % 15 = 7
    <3>1. now' = (now + 8) % 1440
      BY <1>2, <2>2 DEF Tick, TimeInv
    <3>2. now + 8 \in 0 .. 1440 /\ (now + 8) % 15 = 0
      BY <2>2, SMTT(60) DEF TimeInv
    <3>3. now' \in 0 .. 1439 /\ now' % 15 = 0
      BY <3>1, <3>2, SMTT(60)
    <3> QED BY <1>2, <3>3, <1>0 DEF Tick, TimeInv
  <2> QED BY <2>1, <2>2, SMTT(60) DEF TimeInv
<1>3. CASE Look
  <2>1. CASE Due
    <3>1. told' = [at |-> now,
                   spoken |-> IF format = "VOICE_TIME" THEN Spoken(now \div 60, now % 60) ELSE TimeUnspoken,
                   text |-> Text(now \div 60, now % 60)]
      BY <1>3, <2>1 DEF Look, StartSending, Minute
    <3>2. now % 15 = 0
      BY <2>1, SMTT(60) DEF Due, Minute, TimeInv, Intervals
    <3>3. /\ told'.at = now /\ told'.text = Text(now \div 60, now % 60)
          /\ format = "VOICE_TIME" => told'.spoken = Spoken(now \div 60, now % 60)
      BY <3>1
    <3> QED BY <1>3, <3>2, <3>3, <1>0 DEF Look, TimeInv
  <2>2. CASE ~Due
    BY <1>3, <2>2, <1>0 DEF Look, TimeInv
  <2> QED BY <2>1, <2>2
<1>4. CASE SendEnd
  BY <1>4 DEF SendEnd, TimeInv
<1>5. CASE kill
  BY <1>5, <1>0 DEF kill, TimeInv
<1>6. CASE UNCHANGED timeVars
  BY <1>6, <1>0 DEF timeVars, TimeInv
<1> QED BY <1>1, <1>2, <1>3, <1>4, <1>5, <1>6 DEF TimeNext

\* At every quarter of the day, in every language and format, the words that are sent
\* name the time at which they are sent, and the text beside them does.
THEOREM TimeToldRight == TimeSpec => []TimeIsTold
<1>1. TimeInit => TimeInv
  BY DEF TimeInit, TimeInv
<1>2. TimeInv => TimeIsTold
  <2> SUFFICES ASSUME TimeInv, told # NotTold
               PROVE  /\ format = "VOICE_TIME" => told.at \in Meant(told.spoken)
                      /\ told.text.min = told.at % 60 /\ told.at \div 60 \in HoursMeant(told.text)
    BY DEF TimeIsTold
  <2>1. /\ told.at \div 60 \in Hours /\ told.at % 60 \in QuarterMinutes
        /\ told.at = (60 * (told.at \div 60)) + (told.at % 60)
    <3>1. told.at \in 0 .. 1439 /\ told.at % 15 = 0
      BY DEF TimeInv
    <3>2. ASSUME NEW at \in 0 .. 1439, at % 15 = 0
          PROVE  at \div 60 \in Hours /\ at % 60 \in QuarterMinutes /\ at = (60 * (at \div 60)) + (at % 60)
      <4>1. at = (60 * (at \div 60)) + (at % 60) /\ at % 60 \in 0 .. 59
        OBVIOUS
      <4>2. at \div 60 \in 0 .. 23
        OBVIOUS
      <4>3. at = 15 * (at \div 15) /\ at \div 15 \in Nat
        BY <3>2
      <4>4. at % 60 = 15 * ((at \div 15) - 4 * (at \div 60)) /\ (at \div 15) - 4 * (at \div 60) \in 0 .. 3
        BY <4>1, <4>2, <4>3
      <4>5. at % 60 \in QuarterMinutes
        BY <4>4 DEF QuarterMinutes
      <4> QED BY <4>1, <4>2, <4>5 DEF Hours
    <3> QED BY <3>1, <3>2, SMTT(60)
  <2>2. told.at \in Meant(Spoken(told.at \div 60, told.at % 60))
    BY <2>1, SpokenTells DEF TimeInv
  <2> QED BY <2>1, <2>2, TextTells DEF TimeInv
<1> QED BY <1>1, <1>2, TimeInvKept, PTL DEF TimeSpec

-----------------------------------------------------------------------------
(* SavedIsRead and OnlyEdits                                               *)

ConfSpec == ConfInit /\ [][ConfNext]_confVars

-----------------------------------------------------------------------------
\* What the operations of a configuration do to the value of a row.

\* A row that is left out has no value.
LEMMA RestrictedValue ==
  ASSUME NEW conf, NEW S \in SUBSET DOMAIN conf, NEW r
  PROVE  Value(Restrict(conf, S), r) = IF r \in S THEN Value(conf, r) ELSE "DEFAULT"
BY DEF Value, Restrict

\* Leaving out the rows without a value changes none.
LEMMA NotDefaultValue ==
  ASSUME NEW conf, NEW r PROVE Value(NotDefault(conf), r) = Value(conf, r)
BY DEF Value, NotDefault, Restrict

\* Rows that are set hide those below them.
LEMMA OntoValue ==
  ASSUME NEW rows, NEW conf, NEW r
  PROVE  Value(Onto(rows, conf), r) = IF r \in DOMAIN rows THEN Value(rows, r) ELSE Value(conf, r)
BY DEF Value, Onto

\* What has no value is written without one.
LEMMA PrintedDefault == Printed("DEFAULT") = "DEFAULT" /\ \A r : OnDisk(r, "DEFAULT") = "DEFAULT"
BY DEF Printed, OnDisk

\* A file has every line that is written, and a registry also those it had.
LEMMA FileValue ==
  ASSUME NEW conf, NEW r
  PROVE  Value(FileLines(conf), r) = IF r \in Written[program] THEN Printed(Value(conf, r)) ELSE "DEFAULT"
BY PrintedDefault DEF FileLines, Value

RegistryRows == IF program = "GATEWAY" THEN RegistryWritten ELSE Written[program]

\* The registry keeps the entries that are not written.
LEMMA RegistryValue ==
  ASSUME NEW conf, NEW old, NEW r
  PROVE  Value(RegistryLines(conf, old), r) = IF r \in RegistryRows THEN OnDisk(r, Value(conf, r)) ELSE Value(old, r)
<1> DEFINE written == [x \in DOMAIN conf \cap RegistryRows |-> OnDisk(x, conf[x])]
           kept == Restrict(old, DOMAIN old \ RegistryRows)
<1>1. RegistryLines(conf, old) = Onto(written, kept)
  BY DEF RegistryLines, RegistryRows
<1>2. DOMAIN written = DOMAIN conf \cap RegistryRows
  OBVIOUS
<1>3. Value(written, r) = IF r \in RegistryRows THEN OnDisk(r, Value(conf, r)) ELSE "DEFAULT"
  BY PrintedDefault DEF Value
<1>4. Value(kept, r) = IF r \in RegistryRows THEN "DEFAULT" ELSE Value(old, r)
  BY RestrictedValue DEF Value
<1>5. r \in RegistryRows /\ r \notin DOMAIN conf => Value(conf, r) = "DEFAULT"
  BY DEF Value
<1> HIDE DEF written, kept
<1> QED BY <1>1, <1>2, <1>3, <1>4, <1>5, OntoValue, PrintedDefault

\* What a program finds when it starts.
LoadRows == IF program = "GATEWAY" /\ platform = "REGISTRY" THEN RegistryRead ELSE ReadRows[program]

\* What is read has the value it has on the disk, but for an empty URL.
LEMMA LoadValue ==
  ASSUME NEW lines, NEW r
  PROVE  /\ r \in LoadRows => Value(Load(lines), r) = Value(lines, r)
                              \/ (r = XlxUrl /\ Value(lines, r) = "EMPTY" /\ Value(Load(lines), r) = "DEFAULT")
         /\ Value(Load(lines), r) \in {Value(lines, r), "DEFAULT"}
<1> DEFINE S == {x \in DOMAIN lines \cap LoadRows : ~Ignored(lines, x)}
<1>1. Load(lines) = Restrict(lines, S)
  BY DEF Load, LoadRows
<1>2. Value(Restrict(lines, S), r) = IF r \in S THEN Value(lines, r) ELSE "DEFAULT"
  BY RestrictedValue
<1>3. r \in LoadRows /\ r \notin S => Value(lines, r) = "DEFAULT" \/ (r = XlxUrl /\ Value(lines, r) = "EMPTY")
  BY DEF Value, Ignored
<1> HIDE DEF S
<1> QED BY <1>1, <1>2, <1>3

-----------------------------------------------------------------------------
\* The tables.

\* A row is a row of a table when its type, its name and its number are.
LEMMA RowOf ==
  ASSUME NEW table, NEW ns, NEW r
  PROVE  r \in Rows(table, ns) <=> /\ r = <<r[1], r[2], r[3]>>
                                   /\ r[1] \in DOMAIN table /\ r[2] \in table[r[1]] /\ r[3] \in ns
BY DEF Rows

\* The callsigns of the repeaters, which nobody edits and Windows does not write.
CallRows == Rows([Text |-> {"repeaterCall"}], 1 .. 4)

\* Each of them is the callsign of one of four repeaters.
LEMMA CallRow == \A r \in CallRows : r[1] = "Text" /\ r[2] = "repeaterCall" /\ r[3] \in 1 .. 4
BY RowOf DEF CallRows

\* No row of these tables is of that name.
LEMMA NoCallThere ==
  ASSUME NEW r, NEW ns, r[2] = "repeaterCall"
  PROVE  /\ r \notin Rows(GatewayRead, ns) /\ r \notin Rows(IrcDDBRead, ns) /\ r \notin Rows(NetworksRead, ns)
         /\ r \notin Rows(StarNetRead, ns) /\ r \notin Rows(ServicesRead, ns)
         /\ r \notin Rows(GatewayWritten, ns) /\ r \notin Rows(IrcDDBWritten, ns) /\ r \notin Rows(NetworksWritten, ns)
         /\ r \notin Rows(StarNetWritten, ns) /\ r \notin Rows(ServicesWritten, ns)
<1>1. /\ r \notin Rows(GatewayRead, ns) /\ r \notin Rows(IrcDDBRead, ns) /\ r \notin Rows(NetworksRead, ns)
      /\ r \notin Rows(StarNetRead, ns) /\ r \notin Rows(ServicesRead, ns)
  BY RowOf DEF GatewayRead, IrcDDBRead, NetworksRead, StarNetRead, ServicesRead
<1>2. /\ r \notin Rows(GatewayWritten, ns) /\ r \notin Rows(IrcDDBWritten, ns) /\ r \notin Rows(NetworksWritten, ns)
      /\ r \notin Rows(StarNetWritten, ns) /\ r \notin Rows(ServicesWritten, ns)
  BY RowOf DEF GatewayWritten, IrcDDBWritten, NetworksWritten, StarNetWritten, ServicesWritten
<1> QED BY <1>1, <1>2

\* Every row is read from where it is written.
LEMMA TablesAgree ==
  /\ GatewayRead = GatewayWritten /\ RepeaterRead = RepeaterWritten /\ IrcDDBRead = IrcDDBWritten
  /\ NetworksRead = NetworksWritten /\ StarNetRead = StarNetWritten /\ ServicesRead = ServicesWritten
  /\ TimeRows = TimeWritten /\ TimerRows = TimerWritten
BY DEF GatewayRead, GatewayWritten, RepeaterRead, RepeaterWritten, IrcDDBRead, IrcDDBWritten, NetworksRead,
       NetworksWritten, StarNetRead, StarNetWritten, ServicesRead, ServicesWritten, TimeRows, TimeWritten,
       TimerRows, TimerWritten

\* So the file of each program.
LEMMA FilesAgree == \A p \in {"GATEWAY", "TIME", "TIMER"} : ReadRows[p] = Written[p]
<1>1. GatewayFileRead = GatewayFileWritten
  BY TablesAgree DEF GatewayFileRead, GatewayFileWritten
<1> QED BY <1>1, TablesAgree DEF ReadRows, Written

\* And the registry, but for the callsigns.
LEMMA RegistryAgrees ==
  /\ \A r \in GatewayFileRead : r \in RegistryRead /\ (r \in RegistryWritten \/ r \in CallRows)
  /\ CallRows \cap RegistryWritten = {} /\ CallRows \subseteq GatewayFileRead
<1>1. \A r : r \in RegistryRead <=> r \in GatewayFileRead
  BY DEF RegistryRead, RegistryGateway, RegistryRepeaters, RegistryNetworks, RegistryStarNet, RegistryServices,
         GatewayFileRead
<1>2. \A r \in GatewayFileRead : r \in RegistryWritten \/ r \in CallRows
  BY TablesAgree DEF GatewayFileRead, RegistryWritten, RegistryGatewayWritten, RegistryRepeatersWritten,
     RegistryNetworksWritten, RegistryStarNetWritten, RegistryServicesWritten, CallRows
<1>3. CallRows \cap RegistryWritten = {}
  <2> SUFFICES ASSUME NEW r \in CallRows PROVE r \notin RegistryWritten
    OBVIOUS
  <2>1. r[2] = "repeaterCall"
    BY CallRow
  <2> QED BY <2>1, NoCallThere DEF RegistryWritten, RegistryGatewayWritten, RegistryRepeatersWritten,
          RegistryNetworksWritten, RegistryStarNetWritten, RegistryServicesWritten, CallRows
<1>4. CallRows \subseteq GatewayFileRead
  <2> SUFFICES ASSUME NEW r \in CallRows PROVE r \in Rows(RepeaterRead, 1 .. 4)
    BY DEF GatewayFileRead
  <2> QED BY RowOf DEF CallRows, RepeaterRead
<1> QED BY <1>1, <1>2, <1>3, <1>4

\* Nobody edits them.
LEMMA CallsNotEdited == CallRows \cap GatewayEdits = {} /\ CallRows \cap Window = {} /\ XlxUrl \notin CallRows
<1> SUFFICES ASSUME NEW r \in CallRows PROVE r \notin GatewayEdits /\ r \notin Window /\ r # XlxUrl
  OBVIOUS
<1>1. r[1] = "Text" /\ r[2] = "repeaterCall"
  BY CallRow
<1>2. r \notin GatewayEdits
  BY <1>1, NoCallThere DEF GatewayEdits, GatewaySet, RepeaterSet, NetworksSet, StarNetSet, ServicesSet, CallRows
<1>3. r \notin Window /\ r # XlxUrl
  BY <1>1, RowOf DEF Window, XlxUrl
<1> QED BY <1>2, <1>3

-----------------------------------------------------------------------------
\* What is written is read.

ConfTypeOK ==
  /\ program \in {"GATEWAY", "TIME", "TIMER"} /\ platform \in {"FILE", "REGISTRY"} /\ row \in ReadRows[program]

\* The rows that a write leaves as they are, the same in every configuration.
Unwritten == IF platform = "REGISTRY" /\ program = "GATEWAY" THEN CallRows ELSE {}
CallsKept ==
  \A r \in Unwritten :
    /\ Value(disk, r) # "FINE"
    /\ editorOn => Value(editor, r) = Value(disk, r)
    /\ gatewayOn => Value(gateway, r) = Value(disk, r)

Stored == reported => \A r \in ReadRows[program] : Value(disk, r) = OnDisk(r, Value(promised, r))

StoreInv == ConfTypeOK /\ CallsKept /\ Stored

\* Whatever is read is written, but for those, and a write leaves them.
LEMMA LinesValue ==
  ASSUME ConfTypeOK, NEW conf, NEW old
  PROVE  /\ \A r \in ReadRows[program] \ Unwritten : Value(Lines(conf, old), r) = OnDisk(r, Value(conf, r))
         /\ \A r \in Unwritten : Value(Lines(conf, old), r) = Value(old, r)
<1>1. ReadRows[program] = Written[program]
  BY FilesAgree DEF ConfTypeOK
<1>2. CASE platform = "FILE"
  <2>1. Lines(conf, old) = FileLines(conf) /\ Unwritten = {}
    BY <1>2 DEF Lines, Unwritten
  <2>2. \A r : OnDisk(r, Value(conf, r)) = Printed(Value(conf, r))
    BY <1>2 DEF OnDisk
  <2> QED BY <1>1, <2>1, <2>2, FileValue
<1>3. CASE platform = "REGISTRY"
  <2>1. Lines(conf, old) = RegistryLines(conf, old)
    BY <1>3 DEF Lines
  <2>2. CASE program = "GATEWAY"
    <3>1. RegistryRows = RegistryWritten /\ Unwritten = CallRows /\ ReadRows[program] = GatewayFileRead
      BY <1>3, <2>2 DEF RegistryRows, Unwritten, ReadRows
    <3> QED BY <2>1, <3>1, RegistryValue, RegistryAgrees
  <2>3. CASE program # "GATEWAY"
    <3>1. RegistryRows = Written[program] /\ Unwritten = {}
      BY <2>3 DEF RegistryRows, Unwritten
    <3> QED BY <1>1, <2>1, <3>1, RegistryValue
  <2> QED BY <2>2, <2>3
<1> QED BY <1>2, <1>3 DEF ConfTypeOK

\* Loading finds them too.
LEMMA LoadsAll ==
  ASSUME ConfTypeOK
  PROVE  /\ ReadRows[program] \subseteq LoadRows
         /\ Unwritten \subseteq ReadRows[program]
         /\ \A lines : \A r \in Unwritten : Value(Load(lines), r) = Value(lines, r)
<1>1. CASE program = "GATEWAY" /\ platform = "REGISTRY"
  <2>1. LoadRows = RegistryRead /\ ReadRows[program] = GatewayFileRead /\ Unwritten = CallRows
    BY <1>1 DEF LoadRows, ReadRows, Unwritten
  <2> QED BY <2>1, RegistryAgrees, LoadValue, CallsNotEdited
<1>2. CASE ~(program = "GATEWAY" /\ platform = "REGISTRY")
  BY <1>2 DEF LoadRows, Unwritten
<1> QED BY <1>1, <1>2

\* A write keeps to that, when the callsigns in what it writes are those on the disk.
LEMMA WritesKept ==
  ASSUME StoreInv, NEW conf, Writes(conf), UNCHANGED <<program, platform, row>>,
         \A r \in Unwritten : Value(conf, r) = Value(disk, r)
  PROVE  (\A r \in Unwritten : Value(disk', r) = Value(disk, r)) /\ Stored'
<1>1. disk' = Lines(conf, disk) => \A r \in Unwritten : Value(disk', r) = Value(disk, r)
  BY LinesValue DEF StoreInv
<1>2. CASE disk' = Lines(conf, disk) /\ reported' = TRUE /\ promised' = conf
  <2>1. ASSUME NEW r \in ReadRows[program] PROVE Value(disk', r) = OnDisk(r, Value(conf, r))
    <3>1. CASE r \in Unwritten
      BY <1>1, <1>2, <3>1 DEF StoreInv, CallsKept, OnDisk, Printed
    <3>2. CASE r \notin Unwritten
      BY <1>2, <3>2, LinesValue DEF StoreInv
    <3> QED BY <3>1, <3>2
  <2> QED BY <1>1, <1>2, <2>1 DEF Stored, OnDisk
<1>3. CASE platform = "FILE" /\ disk' = disk /\ reported' = reported /\ promised' = promised
  BY <1>3 DEF StoreInv, Stored, OnDisk
<1>4. CASE platform # "FILE" /\ disk' = Lines(conf, disk) /\ reported' = FALSE
  BY <1>1, <1>4 DEF Stored
<1>5. CASE platform = "FILE" /\ disk' = disk /\ reported' = (reported /\ TRUE) /\ promised' = promised
  BY <1>5 DEF StoreInv, Stored, OnDisk
<1> QED BY <1>2, <1>3, <1>4, <1>5 DEF Writes

\* What has no control in the editor keeps its value.
LEMMA TakenElsewhere == \A r : r \notin Edited => Value(Taken, r) = Value(editor, r)
<1> SUFFICES ASSUME NEW r, r \notin Edited PROVE Value(Taken, r) = Value(editor, r)
  OBVIOUS
<1> DEFINE rows == IF program = "GATEWAY" THEN DOMAIN panels \cup Padded \cup Types ELSE DOMAIN panels
           given == NotDefault([x \in rows \cap Edited |-> IF program = "GATEWAY" THEN Gives(panels, x) ELSE panels[x]])
           kept == Restrict(editor, DOMAIN editor \ Edited)
<1>1. Taken = Onto(given, kept)
  BY DEF Taken
<1>2. r \notin DOMAIN given
  BY DEF NotDefault, Restrict
<1>3. Value(kept, r) = Value(editor, r)
  BY RestrictedValue DEF Value
<1> HIDE DEF given, kept
<1> QED BY <1>1, <1>2, <1>3, OntoValue

\* The editor takes nothing else for them, nor does the window's place change them.
LEMMA CallsTaken ==
  \A r \in Unwritten : Value(Taken, r) = Value(editor, r) /\ \A conf : Value(Placed(conf), r) = Value(conf, r)
<1> SUFFICES ASSUME NEW r \in Unwritten
             PROVE  Value(Taken, r) = Value(editor, r) /\ \A conf : Value(Placed(conf), r) = Value(conf, r)
  OBVIOUS
<1>1. program = "GATEWAY" /\ r \in CallRows
  BY DEF Unwritten
<1>2. r \notin Edited /\ r \notin Window
  BY <1>1, CallsNotEdited DEF Edited
<1>3. Value(Taken, r) = Value(editor, r)
  BY <1>2, TakenElsewhere
<1>4. ASSUME NEW conf PROVE Value(Placed(conf), r) = Value(conf, r)
  <2> DEFINE w == [x \in Window |-> "NEW"]
  <2>1. DOMAIN w = Window /\ Placed(conf) = Onto(w, conf)
    BY DEF Placed
  <2> HIDE DEF w
  <2> QED BY <1>2, <2>1, OntoValue
<1> QED BY <1>3, <1>4

\* The store is kept right by every step, one that fails on the way included.
LEMMA StoreInvKept == StoreInv /\ [ConfNext]_confVars => StoreInv'
<1> SUFFICES ASSUME StoreInv, [ConfNext]_confVars PROVE StoreInv'
  OBVIOUS
<1>1. ConfTypeOK' /\ UNCHANGED <<program, platform, row>>
  BY DEF StoreInv, ConfTypeOK, ConfNext, confVars, EditorOpens, EditorChanges, EditorSaves, EditorCloses, OwnCloses,
         GatewayStarts, DaemonStops, GatewayCloses
<1>2. Unwritten' = Unwritten
  BY <1>1 DEF Unwritten
<1>3. UNCHANGED <<disk, reported, promised>> => Stored'
  BY <1>1 DEF StoreInv, Stored, OnDisk
<1>4. CASE EditorOpens
  <2>1. \A r \in Unwritten : Value(Load(disk), r) = Value(disk, r)
    BY LoadsAll DEF StoreInv
  <2> QED BY <1>1, <1>2, <1>3, <1>4, <2>1 DEF EditorOpens, StoreInv, CallsKept
<1>5. CASE EditorChanges
  BY <1>1, <1>2, <1>3, <1>5 DEF EditorChanges, StoreInv, CallsKept
<1>6. CASE EditorSaves
  <2>1. /\ \A r \in Unwritten : Value(Taken, r) = Value(editor, r) /\ Value(editor, r) = Value(disk, r)
    BY <1>6, CallsTaken DEF EditorSaves, StoreInv, CallsKept
  <2>2. (\A r \in Unwritten : Value(disk', r) = Value(disk, r)) /\ Stored'
    BY <1>1, <1>6, <2>1, WritesKept DEF EditorSaves
  <2> QED BY <1>1, <1>2, <1>6, <2>1, <2>2 DEF EditorSaves, StoreInv, CallsKept
<1>7. CASE EditorCloses
  BY <1>1, <1>2, <1>3, <1>7 DEF EditorCloses, StoreInv, CallsKept
<1>8. CASE OwnCloses
  <2>1. Unwritten = {}
    BY <1>8 DEF OwnCloses, Unwritten
  <2>2. Stored'
    BY <1>1, <1>8, <2>1, WritesKept DEF OwnCloses
  <2> QED BY <1>1, <1>2, <2>1, <2>2 DEF StoreInv, CallsKept
<1>9. CASE GatewayStarts
  <2>1. \A r \in Unwritten : Value(Load(disk), r) = Value(disk, r)
    BY LoadsAll DEF StoreInv
  <2> QED BY <1>1, <1>2, <1>3, <1>9, <2>1 DEF GatewayStarts, StoreInv, CallsKept
<1>10. CASE DaemonStops
  BY <1>1, <1>2, <1>3, <1>10 DEF DaemonStops, StoreInv, CallsKept
<1>11. CASE GatewayCloses
  <2>1. \A r \in Unwritten : Value(Placed(gateway), r) = Value(disk, r)
    BY <1>11, CallsTaken DEF GatewayCloses, StoreInv, CallsKept
  <2>2. (\A r \in Unwritten : Value(disk', r) = Value(disk, r)) /\ Stored'
    BY <1>1, <1>11, <2>1, WritesKept DEF GatewayCloses
  <2> QED BY <1>1, <1>2, <1>11, <2>2 DEF GatewayCloses, StoreInv, CallsKept
<1>12. CASE UNCHANGED confVars
  BY <1>1, <1>2, <1>3, <1>12 DEF confVars, StoreInv, CallsKept
<1> QED BY <1>4, <1>5, <1>6, <1>7, <1>8, <1>9, <1>10, <1>11, <1>12 DEF ConfNext

\* What Validate insists on is something.
LEMMA RequiredValue ==
  ASSUME ConfTypeOK, NEW r PROVE Value(Required, r) \in {"NEW", "DEFAULT"}
<1>1. ASSUME NEW S PROVE Value([x \in S |-> "NEW"], r) \in {"NEW", "DEFAULT"}
  BY DEF Value
<1>2. CASE program = "GATEWAY"
  BY <1>1, <1>2 DEF Required
<1>3. CASE program = "TIME"
  BY <1>1, <1>3 DEF Required
<1>4. CASE program = "TIMER"
  BY <1>1, <1>4 DEF Required
<1> QED BY <1>2, <1>3, <1>4 DEF ConfTypeOK

\* A file made by hand has no number for a callsign.
LEMMA StoreInvStarts == ConfInit => StoreInv
<1> SUFFICES ASSUME ConfInit PROVE StoreInv
  OBVIOUS
<1>1. ConfTypeOK /\ Stored /\ editorOn = FALSE /\ gatewayOn = FALSE
  BY DEF ConfInit, ConfTypeOK, Stored
<1>2. ASSUME NEW r \in Unwritten PROVE Value(disk, r) # "FINE"
  <2>1. r[1] = "Text" /\ r[2] = "repeaterCall"
    BY CallRow DEF Unwritten
  <2>2. Value(Required, r) # "FINE"
    BY <1>1, RequiredValue
  <2>3. CASE disk = Required
    BY <2>2, <2>3
  <2>4. ASSUME NEW v \in ByHand(row), disk = Onto([x \in {row} |-> v], Required) PROVE Value(disk, r) # "FINE"
    <3> DEFINE w == [x \in {row} |-> v]
    <3>1. DOMAIN w = {row} /\ Value(w, row) = v
      BY DEF Value
    <3>2. r = row => v # "FINE"
      BY <2>1 DEF ByHand, Enterable
    <3>3. disk = Onto(w, Required)
      BY <2>4
    <3> HIDE DEF w
    <3> QED BY <2>2, <3>1, <3>2, <3>3, OntoValue
  <2> QED BY <2>3, <2>4 DEF ConfInit
<1> QED BY <1>1, <1>2 DEF StoreInv, CallsKept

\* However often the editor, the gateway and the programs with a configuration of their
\* own load and store it, and whatever fails on the way, a save that was reported done is
\* what a program finds: every row is read from where it was written.
THEOREM EveryRowIsRead == ConfSpec => []SavedIsRead
<1>1. StoreInv => SavedIsRead
  <2> SUFFICES ASSUME StoreInv, reported, NEW r \in ReadRows[program]
               PROVE  \/ Value(Load(disk), r) = OnDisk(r, Value(promised, r))
                      \/ r = XlxUrl /\ Value(promised, r) = "EMPTY" /\ Value(Load(disk), r) = "DEFAULT"
    BY DEF SavedIsRead
  <2>1. Value(disk, r) = OnDisk(r, Value(promised, r))
    BY DEF StoreInv, Stored
  <2>2. \/ Value(Load(disk), r) = Value(disk, r)
        \/ r = XlxUrl /\ Value(disk, r) = "EMPTY" /\ Value(Load(disk), r) = "DEFAULT"
    BY LoadsAll, LoadValue DEF StoreInv
  <2>3. Value(disk, r) = "EMPTY" => Value(promised, r) = "EMPTY"
    BY <2>1 DEF OnDisk, Printed
  <2> QED BY <2>1, <2>2, <2>3
<1> QED BY <1>1, StoreInvStarts, StoreInvKept, PTL DEF ConfSpec

-----------------------------------------------------------------------------
\* Only edits are saved.

\* What the editor sets a row to.
Given(conf, r) == IF program = "GATEWAY" THEN Gives(conf, r) ELSE Value(conf, r)

\* The rows that have a value when nothing is given for them.
LEMMA RowsGiven ==
  ASSUME NEW r \in GatewayEdits
  PROVE  /\ r \in RepeaterSet /\ r[2] = "repeaterType" => r \in Types
         /\ r \in StarNetSet /\ r[2] \in {"starNetCallsign", "starNetLogoff", "starNetPermanent"} => r \in Padded
         /\ r \notin RepeaterSet \cup StarNetSet /\ r[2] = "dplusLogin" => r \in Padded
<1>1. r \in RepeaterSet /\ r[2] = "repeaterType" => r \in Types
  BY RowOf DEF RepeaterSet, RepeaterRead, Types
<1>2. r \in StarNetSet /\ r[2] \in {"starNetCallsign", "starNetLogoff", "starNetPermanent"} => r \in Padded
  BY RowOf DEF StarNetSet, StarNetRead, Padded
<1>3. ASSUME r \notin RepeaterSet \cup StarNetSet, r[2] = "dplusLogin" PROVE r \in Padded
  <2>1. r \notin GatewaySet /\ r \notin ServicesSet /\ r \notin Rows(IrcDDBRead, 1 .. 4)
    BY <1>3, RowOf DEF GatewaySet, GatewayRead, ServicesSet, ServicesRead, IrcDDBRead
  <2>2. r \in Rows(NetworksRead, {0})
    BY <1>3, <2>1 DEF GatewayEdits, NetworksSet
  <2>3. r \in Rows([Text |-> {"dplusLogin"}], {0})
    BY <1>3, <2>2, RowOf DEF NetworksRead
  <2> QED BY <2>3 DEF Padded
<1> QED BY <1>1, <1>2, <1>3

\* Each row has its control on one panel.
LEMMA PanelsApart ==
  /\ GatewaySet \cap RepeaterSet = {} /\ GatewaySet \cap IrcDDBRows = {} /\ GatewaySet \cap StarNetSet = {}
  /\ RepeaterSet \cap IrcDDBRows = {} /\ RepeaterSet \cap StarNetSet = {} /\ IrcDDBRows \cap StarNetSet = {}
  /\ InfoRows \subseteq RepeaterSet
<1>1. \A r \in GatewaySet : r[3] = 0
  BY RowOf DEF GatewaySet
<1>2. /\ \A r \in RepeaterSet : r[3] \in 1 .. 4 /\ r[2] \in RepeaterRead[r[1]] /\ r[1] \in DOMAIN RepeaterRead
      /\ \A r \in IrcDDBRows : r[3] \in 1 .. 4 /\ r[2] \in IrcDDBRead[r[1]] /\ r[1] \in DOMAIN IrcDDBRead
      /\ \A r \in StarNetSet : r[3] \in 1 .. 5 /\ r[2] \in StarNetRead[r[1]] /\ r[1] \in DOMAIN StarNetRead
  BY RowOf DEF RepeaterSet, IrcDDBRows, StarNetSet
<1>3. GatewaySet \cap RepeaterSet = {} /\ GatewaySet \cap IrcDDBRows = {} /\ GatewaySet \cap StarNetSet = {}
  BY <1>1, <1>2
<1>4. \A r \in IrcDDBRows : r[2] \in {"ircddbEnabled", "ircddbHostname", "ircddbUsername", "ircddbPassword"}
  BY <1>2 DEF IrcDDBRead
<1>5. \A r \in StarNetSet : r[2] \in {"starNetBand", "starNetCallsign", "starNetLogoff", "starNetInfo", "starNetPermanent",
        "starNetReflector", "starNetUserTimeout", "starNetGroupTimeout", "starNetCallsignSwitch", "starNetTXMsgSwitch"}
  BY <1>2 DEF StarNetRead
<1>6. RepeaterSet \cap IrcDDBRows = {}
  BY <1>2, <1>4 DEF RepeaterRead
<1>7. RepeaterSet \cap StarNetSet = {}
  BY <1>2, <1>5 DEF RepeaterRead
<1>8. IrcDDBRows \cap StarNetSet = {}
  BY <1>4, <1>5
<1>9. InfoRows \subseteq RepeaterSet
  BY RowOf DEF InfoRows, RepeaterSet, RepeaterRead
<1> QED BY <1>3, <1>6, <1>7, <1>8, <1>9

\* For a row without a value the controls give none, but for those.
LEMMA NothingGiven ==
  ASSUME program = "GATEWAY", NEW r \in Edited, r \notin Padded \cup Types, Value(panels, r) = "DEFAULT"
  PROVE  Gives(panels, r) = "DEFAULT"
<1>1. r \in GatewayEdits
  BY DEF Edited
<1>2. CASE r \in RepeaterSet
  <2>1. r[2] # "repeaterType"
    BY <1>1, <1>2, RowsGiven
  <2>2. RepeaterGives(panels, r) = "DEFAULT"
    BY <2>1 DEF RepeaterGives
  <2> QED BY <1>2, <2>2, PanelsApart DEF Gives
<1>3. CASE r \in StarNetSet /\ r \notin RepeaterSet
  <2>1. r[2] \notin {"starNetCallsign", "starNetLogoff", "starNetPermanent"}
    BY <1>1, <1>3, RowsGiven
  <2>2. StarNetGives(r, "DEFAULT") = "DEFAULT"
    BY <2>1 DEF StarNetGives
  <2> QED BY <1>3, <2>2 DEF Gives
<1>4. CASE r \notin RepeaterSet \cup StarNetSet
  <2>1. r[2] # "dplusLogin"
    BY <1>1, <1>4, RowsGiven
  <2>2. DPlusGives(r, "DEFAULT") = "DEFAULT"
    BY <2>1 DEF DPlusGives
  <2> QED BY <1>4, <2>2 DEF Gives
<1> QED BY <1>2, <1>3, <1>4

\* What is saved of a row that has a control is what the control gives.
LEMMA TakenValue == \A r \in Edited : Value(Taken, r) = Given(panels, r)
<1> SUFFICES ASSUME NEW r \in Edited PROVE Value(Taken, r) = Given(panels, r)
  OBVIOUS
<1> DEFINE rows == IF program = "GATEWAY" THEN DOMAIN panels \cup Padded \cup Types ELSE DOMAIN panels
           all == [x \in rows \cap Edited |-> IF program = "GATEWAY" THEN Gives(panels, x) ELSE panels[x]]
           given == NotDefault(all)
           kept == Restrict(editor, DOMAIN editor \ Edited)
<1>1. Taken = Onto(given, kept)
  BY DEF Taken
<1>2. Value(kept, r) = "DEFAULT"
  BY RestrictedValue
<1>3. r \notin DOMAIN given => Value(given, r) = "DEFAULT"
  BY DEF Value
<1>4. Value(given, r) = Value(all, r)
  BY NotDefaultValue
<1>5. Value(all, r) = Given(panels, r)
  <2>1. DOMAIN all = rows \cap Edited
    OBVIOUS
  <2>2. CASE r \in rows
    <3>1. Value(all, r) = all[r] /\ all[r] = IF program = "GATEWAY" THEN Gives(panels, r) ELSE panels[r]
      BY <2>2 DEF Value
    <3>2. program # "GATEWAY" => panels[r] = Value(panels, r)
      BY <2>2 DEF Value
    <3> QED BY <3>1, <3>2 DEF Given
  <2>3. CASE r \notin rows
    <3>1. Value(all, r) = "DEFAULT" /\ Value(panels, r) = "DEFAULT"
      BY <2>3 DEF Value
    <3>2. program = "GATEWAY" => r \notin Padded \cup Types
      BY <2>3
    <3> QED BY <3>1, <3>2, NothingGiven DEF Given
  <2> QED BY <2>2, <2>3
<1> HIDE DEF given, kept, all
<1> QED BY <1>1, <1>2, <1>3, <1>4, <1>5, OntoValue

\* What the editor shows of a row.
LEMMA ShownValue ==
  ASSUME NEW conf, NEW r
  PROVE  /\ program # "GATEWAY" => Value(Shown(conf), r) = IF r \in Edited THEN Value(conf, r) ELSE "DEFAULT"
         /\ r \notin Edited => Value(Shown(conf), r) = "DEFAULT"
         /\ program = "GATEWAY" /\ r \in Edited /\ r \in DOMAIN conf \cup Bands \cup Types =>
              Value(Shown(conf), r) = Panel(conf, r, Value(conf, r))
         /\ program = "GATEWAY" /\ r \notin DOMAIN conf \cup Bands \cup Types =>
              Value(Shown(conf), r) = "DEFAULT" /\ Value(conf, r) = "DEFAULT"
<1>1. CASE program = "GATEWAY"
  <2> DEFINE all == [x \in (DOMAIN conf \cup Bands \cup Types) \cap Edited |-> Panel(conf, x, Value(conf, x))]
  <2>1. Shown(conf) = NotDefault(all)
    BY <1>1 DEF Shown
  <2>2. Value(Shown(conf), r) = Value(all, r)
    BY <2>1, NotDefaultValue
  <2> QED BY <1>1, <2>2 DEF Value
<1>2. CASE program # "GATEWAY"
  <2>1. Shown(conf) = Restrict(conf, DOMAIN conf \cap Edited)
    BY <1>2 DEF Shown
  <2>2. Value(Shown(conf), r) = IF r \in DOMAIN conf \cap Edited THEN Value(conf, r) ELSE "DEFAULT"
    BY <2>1, RestrictedValue
  <2> QED BY <1>2, <2>2 DEF Value
<1> QED BY <1>1, <1>2

\* A control shows a plain value as it is, but that a module of a group has to be one
\* of the list.
LEMMA PanelPlain ==
  ASSUME NEW conf, NEW r, ~DDMode(conf, r[3]), Value(conf, r) \in {"NEW", "DEFAULT"}
  PROVE  \/ Panel(conf, r, Value(conf, r)) = Value(conf, r)
         \/ Panel(conf, r, Value(conf, r)) = "FIRST" /\ Value(conf, r) = "DEFAULT"
<1> DEFINE v == Value(conf, r)
<1>1. /\ GatewayPanel(r, v) = v /\ InfoPanel(r, v) = v /\ IrcDDBPanel(r, v) = v /\ DCSPanel(r, v) = v
      /\ RepeaterPanel(r, v) = v
      /\ StarNetPanel(r, v) = v \/ (StarNetPanel(r, v) = "FIRST" /\ v = "DEFAULT")
  BY DEF GatewayPanel, Printed, InfoPanel, IrcDDBPanel, DCSPanel, RepeaterPanel, StarNetPanel
<1>2. RepeaterGives(conf, r) = v
  BY DEF RepeaterGives
<1> HIDE DEF v
<1> QED BY <1>1, <1>2, PanelsApart DEF Panel, v

\* ... and gives it back so.
LEMMA GivenPlain ==
  ASSUME NEW conf, NEW r, ~DDMode(conf, r[3]), Value(conf, r) # "EMPTY"
  PROVE  \/ Gives(conf, r) = Value(conf, r)
         \/ Gives(conf, r) = "BLANK" /\ Value(conf, r) = "DEFAULT"
<1> DEFINE v == Value(conf, r)
<1>1. /\ RepeaterGives(conf, r) = v
      /\ StarNetGives(r, v) = v \/ (StarNetGives(r, v) = "BLANK" /\ v = "DEFAULT")
      /\ DPlusGives(r, v) = v \/ (DPlusGives(r, v) = "BLANK" /\ v = "DEFAULT")
  BY DEF RepeaterGives, StarNetGives, DPlusGives
<1> HIDE DEF v
<1> QED BY <1>1, PanelsApart DEF Gives, v

\* No control makes a repeater a DD one.
LEMMA PanelNotDD ==
  ASSUME NEW conf, NEW r, Panel(conf, r, Value(conf, r)) = "DD" PROVE Value(conf, r) = "DD"
<1> DEFINE v == Value(conf, r)
<1>1. /\ GatewayPanel(r, v) = "DD" => v = "DD"
      /\ InfoPanel(r, v) = "DD" => v = "DD"
      /\ IrcDDBPanel(r, v) = "DD" => v = "DD"
      /\ StarNetPanel(r, v) = "DD" => v = "DD"
      /\ DCSPanel(r, v) = "DD" => v = "DD"
  BY DEF GatewayPanel, Printed, InfoPanel, IrcDDBPanel, DCSPanel, StarNetPanel
<1>2. \A w : RepeaterPanel(r, w) = "DD" => w = "DD"
  BY DEF RepeaterPanel
<1>3. RepeaterGives(conf, r) = "DD" => v = "DD"
  BY DEF RepeaterGives
<1> HIDE DEF v
<1> QED BY <1>1, <1>2, <1>3, PanelsApart DEF Panel, v

\* Nor does one when it is read back.
LEMMA GivesNotDD ==
  ASSUME NEW conf, NEW r, Gives(conf, r) = "DD" PROVE Value(conf, r) = "DD"
<1> DEFINE v == Value(conf, r)
<1>1. /\ RepeaterGives(conf, r) = "DD" => v = "DD"
      /\ StarNetGives(r, v) = "DD" => v = "DD"
      /\ DPlusGives(r, v) = "DD" => v = "DD"
  BY DEF RepeaterGives, StarNetGives, DPlusGives
<1> HIDE DEF v
<1> QED BY <1>1, PanelsApart DEF Gives, v

-----------------------------------------------------------------------------
\* Only the row that somebody changes can be the band of a DD repeater.

DDOnly(conf) == \A r : Value(conf, r) = "DD" => r = row /\ r[2] = "repeaterBand"

\* A DD repeater is that of the row.
LEMMA DDIsRow ==
  ASSUME NEW conf, DDOnly(conf), NEW n, DDMode(conf, n)
  PROVE  row = <<"Text", "repeaterBand", n>> /\ row[2] = "repeaterBand" /\ row[3] = n
BY DEF DDOnly, DDMode

\* Rows that are set to something new are no such band.
LEMMA PlainNotDD == ASSUME NEW S PROVE DDOnly([r \in S |-> "NEW"]) /\ DDOnly(<< >>)
BY DEF DDOnly, Value

\* Setting rows makes none.
LEMMA OntoNotDD == ASSUME NEW rows, NEW conf, DDOnly(rows), DDOnly(conf) PROVE DDOnly(Onto(rows, conf))
BY OntoValue DEF DDOnly

\* Nor does reading,
LEMMA LoadNotDD == ASSUME NEW lines, DDOnly(lines) PROVE DDOnly(Load(lines))
BY LoadValue DEF DDOnly

\* noting where the window is,
LEMMA PlacedNotDD == ASSUME NEW conf, DDOnly(conf) PROVE DDOnly(Placed(conf))
BY PlainNotDD, OntoNotDD DEF Placed

\* writing,
LEMMA LinesNotDD == ASSUME NEW conf, NEW old, DDOnly(conf), DDOnly(old) PROVE DDOnly(Lines(conf, old))
<1>1. \A r, v : (Printed(v) = "DD" => v = "DD") /\ (OnDisk(r, v) = "DD" => v = "DD")
  BY DEF Printed, OnDisk
<1> QED BY <1>1, FileValue, RegistryValue DEF Lines, DDOnly

\* showing,
LEMMA ShownNotDD == ASSUME NEW conf, DDOnly(conf) PROVE DDOnly(Shown(conf))
<1> SUFFICES ASSUME NEW r, Value(Shown(conf), r) = "DD" PROVE Value(conf, r) = "DD"
  BY DEF DDOnly
<1> QED BY ShownValue, PanelNotDD

\* taking what the controls give,
LEMMA TakenNotDD == ASSUME DDOnly(editor), DDOnly(panels) PROVE DDOnly(Taken)
<1> SUFFICES ASSUME NEW r, Value(Taken, r) = "DD" PROVE Value(editor, r) = "DD" \/ Value(panels, r) = "DD"
  BY DEF DDOnly
<1> QED BY TakenElsewhere, TakenValue, GivesNotDD DEF Given

\* and a write that may fail.
LEMMA WritesNotDD ==
  ASSUME NEW conf, Writes(conf), DDOnly(conf), DDOnly(disk), row' = row PROVE DDOnly(disk)'
<1>1. disk' = disk \/ disk' = Lines(conf, disk)
  BY DEF Writes
<1>2. DDOnly(Lines(conf, disk))
  BY LinesNotDD
<1> QED BY <1>1, <1>2 DEF DDOnly, Value

\* What a user enters.
LEMMA EnteredValue ==
  ASSUME NEW v \in Enterable(row)
  PROVE  /\ v # "DEFAULT" /\ (v = "DD" => row[2] = "repeaterBand")
         /\ \A r : Value([x \in {row} |-> v], r) = IF r = row THEN v ELSE "DEFAULT"
         /\ DDOnly([x \in {row} |-> v])
<1>1. v # "DEFAULT" /\ (v = "DD" => row[2] = "repeaterBand")
  BY DEF Enterable
<1>2. \A r : Value([x \in {row} |-> v], r) = IF r = row THEN v ELSE "DEFAULT"
  BY DEF Value
<1> QED BY <1>1, <1>2 DEF DDOnly

\* The controls after a value is entered.
Entered(v) == OnBand(Onto([x \in {row} |-> v], panels))

\* The control that is changed holds what was entered, and a control whose repeater is
\* not a DD one keeps what it held.
LEMMA ChangedValue ==
  ASSUME NEW v \in Enterable(row), NEW conf, conf = Entered(v)
  PROVE  /\ Value(conf, row) = v
         /\ \A r : r # row /\ ~DDMode(conf, r[3]) => Value(conf, r) = Value(panels, r)
         /\ DDOnly(panels) => DDOnly(conf)
<1> DEFINE new == Onto([x \in {row} |-> v], panels)
           S == {r \in DOMAIN new : ~(/\ r[2] \in {"reflector", "atStartup", "reconnect"} /\ row[2] = "repeaterBand"
                                      /\ DDMode(new, r[3]))}
<1>1. conf = Restrict(new, S)
  BY DEF Entered, OnBand
<1>2. \A r : Value(conf, r) = IF r \in S THEN Value(new, r) ELSE "DEFAULT"
  BY <1>1, RestrictedValue
<1>3. \A r : Value(new, r) = IF r = row THEN v ELSE Value(panels, r)
  <2> DEFINE entered == [x \in {row} |-> v]
  <2>1. DOMAIN entered = {row} /\ \A r : Value(entered, r) = IF r = row THEN v ELSE "DEFAULT"
    BY EnteredValue
  <2>2. new = Onto(entered, panels)
    OBVIOUS
  <2> HIDE DEF entered
  <2> QED BY <2>1, <2>2, OntoValue
<1>4. \A r : r \notin S /\ r \in DOMAIN new =>
        r[2] \in {"reflector", "atStartup", "reconnect"} /\ row[2] = "repeaterBand" /\ DDMode(new, r[3])
  OBVIOUS
<1>5. row \in DOMAIN new
  BY DEF Onto
<1>6. \A r : r \notin DOMAIN new => Value(new, r) = "DEFAULT"
  BY DEF Value
<1>7. \A n : DDMode(new, n) => DDMode(conf, n)
  <2> SUFFICES ASSUME NEW n, DDMode(new, n) PROVE DDMode(conf, n)
    OBVIOUS
  <2> DEFINE b == <<"Text", "repeaterBand", n>>
  <2>1. Value(new, b) = "DD" /\ b[2] = "repeaterBand"
    BY DEF DDMode
  <2>2. b \in DOMAIN new
    BY <1>6, <2>1
  <2>3. b \in S
    BY <1>4, <2>1, <2>2
  <2> QED BY <1>2, <2>1, <2>3 DEF DDMode
<1> HIDE DEF S, new
<1>8. Value(conf, row) = v
  BY <1>2, <1>3, <1>4, <1>5
<1>9. ASSUME NEW r, r # row, ~DDMode(conf, r[3]) PROVE Value(conf, r) = Value(panels, r)
  BY <1>2, <1>3, <1>4, <1>6, <1>7, <1>9
<1>10. ASSUME DDOnly(panels) PROVE DDOnly(conf)
  BY <1>2, <1>3, <1>10, EnteredValue DEF DDOnly
<1> QED BY <1>8, <1>9, <1>10

-----------------------------------------------------------------------------
\* What the editor would save, while it is on.

\* The band of a repeater has its control.
LEMMA BandRow ==
  ASSUME ConfTypeOK, row[2] = "repeaterBand"
  PROVE  program = "GATEWAY" /\ row \in Edited /\ row \in RepeaterSet \ InfoRows /\ row \notin GatewaySet
<1>1. program = "GATEWAY"
  <2>1. row \notin TimeRows /\ row \notin TimerRows
    BY RowOf DEF TimeRows, TimerRows
  <2> QED BY <2>1 DEF ConfTypeOK, ReadRows
<1>2. row \in GatewayFileRead
  BY <1>1 DEF ConfTypeOK, ReadRows
<1>3. \A ns : /\ row \notin Rows(GatewayRead, ns) /\ row \notin Rows(IrcDDBRead, ns) /\ row \notin Rows(NetworksRead, ns)
              /\ row \notin Rows(StarNetRead, ns) /\ row \notin Rows(ServicesRead, ns)
  BY RowOf DEF GatewayRead, IrcDDBRead, NetworksRead, StarNetRead, ServicesRead
<1>4. row \in Rows(RepeaterRead, 1 .. 4)
  BY <1>2, <1>3 DEF GatewayFileRead
<1>5. row \notin CallRows
  BY CallRow
<1>6. row \in RepeaterSet /\ row \notin GatewaySet
  BY <1>3, <1>4, <1>5 DEF RepeaterSet, GatewaySet, CallRows
<1>7. row \notin InfoRows
  BY RowOf DEF InfoRows, RepeaterRead
<1> QED BY <1>1, <1>6, <1>7 DEF Edited, GatewayEdits

\* A row whose value is plain, in a repeater that is not a DD one.
Plain(r) == Value(editor, r) \in {"NEW", "DEFAULT"} /\ ~DDMode(panels, r[3]) /\ ~DDMode(editor, r[3])
Kept(r) ==
  \/ Given(panels, r) = Value(editor, r)
  \/ Given(panels, r) \in {"BLANK", "FIRST"} /\ Value(editor, r) = "DEFAULT"

ChangeKnown == touched => row \in Edited /\ Value(panels, row) \in Enterable(row)
BandUnchanged == editorOn /\ ~touched /\ row[2] = "repeaterBand" => (Value(panels, row) = "DD" <=> Value(editor, row) = "DD")
RestKept == editorOn => \A r \in Edited : ~(touched /\ r = row) /\ Plain(r) => Kept(r)

EditInv ==
  /\ ConfTypeOK
  /\ DDOnly(disk) /\ DDOnly(editor) /\ DDOnly(panels) /\ DDOnly(gateway)
  /\ ChangeKnown /\ BandUnchanged /\ RestKept

\* A control shows a DD band as such, and gives it back.
LEMMA BandShown ==
  ASSUME ConfTypeOK, row[2] = "repeaterBand", NEW conf
  PROVE  /\ Value(Shown(conf), row) = "DD" <=> Value(conf, row) = "DD"
         /\ Given(conf, row) = Value(conf, row)
<1>1. RepeaterGives(conf, row) = Value(conf, row)
  BY DEF RepeaterGives
<1>2. Panel(conf, row, Value(conf, row)) = RepeaterPanel(row, Value(conf, row))
  BY <1>1, BandRow, PanelsApart DEF Panel
<1>3. Given(conf, row) = Value(conf, row)
  BY <1>1, BandRow, PanelsApart DEF Given, Gives
<1>4. RepeaterPanel(row, Value(conf, row)) = "DD" <=> Value(conf, row) = "DD"
  BY DEF RepeaterPanel
<1> QED BY <1>2, <1>3, <1>4, BandRow, ShownValue

\* The editor shows what it loaded, and so it would give it back.
LEMMA OpensKept ==
  ASSUME EditInv, EditorOpens, UNCHANGED <<program, platform, row>>
  PROVE  ChangeKnown' /\ BandUnchanged' /\ RestKept'
<1>1. editor' = Load(disk) /\ panels' = Shown(Load(disk)) /\ touched' = FALSE
  BY DEF EditorOpens
<1>2. ASSUME NEW r \in Edited,
             Value(editor', r) \in {"NEW", "DEFAULT"}, ~DDMode(panels', r[3]), ~DDMode(editor', r[3])
      PROVE  Given(panels', r) = Value(editor', r) \/ (Given(panels', r) \in {"BLANK", "FIRST"} /\ Value(editor', r) = "DEFAULT")
  <2>1. \/ Value(panels', r) = Value(editor', r)
        \/ Value(panels', r) = "FIRST" /\ Value(editor', r) = "DEFAULT"
    BY <1>1, <1>2, ShownValue, PanelPlain
  <2>2. \/ Gives(panels', r) = Value(panels', r)
        \/ Gives(panels', r) = "BLANK" /\ Value(panels', r) = "DEFAULT"
    BY <1>2, <2>1, GivenPlain
  <2> QED BY <2>1, <2>2 DEF Given
<1>3. Edited' = Edited
  BY DEF Edited, OwnSet
<1>4. RestKept'
  BY <1>1, <1>2, <1>3 DEF RestKept, Plain, Kept, Given, Value, DDMode, Gives, RepeaterGives
<1>5. BandUnchanged'
  BY <1>1, BandShown DEF BandUnchanged, EditInv, Value
<1> QED BY <1>1, <1>4, <1>5 DEF ChangeKnown

\* A change leaves the other controls, unless it makes the band a DD one.
LEMMA ChangesKept ==
  ASSUME EditInv, EditorChanges, UNCHANGED <<program, platform, row>>
  PROVE  ChangeKnown' /\ BandUnchanged' /\ RestKept' /\ DDOnly(panels)'
<1>1. editorOn /\ ~touched /\ row \in Edited /\ touched' = TRUE /\ editor' = editor
  BY DEF EditorChanges
<1>2. PICK v \in Enterable(row) : panels' = Entered(v)
  BY DEF EditorChanges, Entered
<1>3. /\ Value(panels', row) = v
      /\ \A r : r # row /\ ~DDMode(panels', r[3]) => Value(panels', r) = Value(panels, r)
      /\ DDOnly(panels')
  <2>1. /\ Value(panels', row) = v
        /\ \A r : r # row /\ ~DDMode(panels', r[3]) => Value(panels', r) = Value(panels, r)
        /\ DDOnly(panels) => DDOnly(panels')
    BY <1>2, ChangedValue
  <2>2. DDOnly(panels)
    BY DEF EditInv
  <2> QED BY <2>1, <2>2, Zenon
<1>4. Edited' = Edited /\ Enterable(row)' = Enterable(row)
  BY DEF Edited, OwnSet, Enterable
<1>5. ASSUME NEW r \in Edited, r # row,
             Value(editor, r) \in {"NEW", "DEFAULT"}, ~DDMode(panels', r[3]), ~DDMode(editor, r[3])
      PROVE  Given(panels', r) = Value(editor, r) \/ (Given(panels', r) \in {"BLANK", "FIRST"} /\ Value(editor, r) = "DEFAULT")
  <2>1. Value(panels', r) = Value(panels, r)
    BY <1>3, <1>5
  <2>2. ~DDMode(panels, r[3])
    <3> SUFFICES ASSUME DDMode(panels, r[3]) PROVE FALSE
      OBVIOUS
    <3>1. row = <<"Text", "repeaterBand", r[3]>> /\ row[2] = "repeaterBand"
      BY DDIsRow DEF EditInv
    <3>2. Value(panels, row) = "DD"
      BY <3>1 DEF DDMode
    <3>3. Value(editor, row) = "DD"
      BY <1>1, <3>1, <3>2 DEF EditInv, BandUnchanged
    <3> QED BY <1>5, <3>1, <3>3 DEF DDMode
  <2>3. Kept(r)
    BY <1>1, <1>5, <2>2 DEF EditInv, RestKept, Plain
  <2>4. RepeaterGives(panels', r) = Value(panels', r) /\ RepeaterGives(panels, r) = Value(panels, r)
    BY <1>5, <2>2 DEF RepeaterGives
  <2>5. Given(panels', r) = Given(panels, r)
    BY <2>1, <2>4 DEF Given, Gives
  <2> QED BY <2>3, <2>5 DEF Kept
<1>6. RestKept'
  BY <1>1, <1>4, <1>5 DEF RestKept, Plain, Kept, Given, Value, DDMode, Gives, RepeaterGives
<1>7. ChangeKnown'
  BY <1>1, <1>3, <1>4 DEF ChangeKnown, Value
<1>8. DDOnly(panels)'
  BY <1>3 DEF DDOnly, Value
<1> QED BY <1>1, <1>6, <1>7, <1>8 DEF BandUnchanged

\* After a save the editor has what its controls give.
LEMMA SavesKept ==
  ASSUME EditInv, EditorSaves, UNCHANGED <<program, platform, row>>
  PROVE  ChangeKnown' /\ BandUnchanged' /\ RestKept'
<1>1. editorOn /\ editorOn' /\ editor' = Taken /\ panels' = panels /\ touched' = touched
  BY DEF EditorSaves
<1>2. \A r \in Edited : Value(editor', r) = Given(panels, r)
  BY <1>1, TakenValue
<1>3. Edited' = Edited /\ Enterable(row)' = Enterable(row)
  BY DEF Edited, OwnSet, Enterable
<1>4. ASSUME NEW r \in Edited PROVE Given(panels, r)' = Value(editor', r)
  BY <1>1, <1>2 DEF Given, Gives, RepeaterGives, Value, DDMode
<1>5. RestKept'
  BY <1>3, <1>4 DEF RestKept, Kept, Value
<1>6. BandUnchanged'
  <2> SUFFICES ASSUME row[2] = "repeaterBand" PROVE Value(editor', row) = Value(panels, row)
    BY <1>1 DEF BandUnchanged, Value
  <2> QED BY <1>2, BandRow, BandShown DEF EditInv
<1>7. ChangeKnown'
  BY <1>1, <1>3 DEF ChangeKnown, EditInv, Value
<1> QED BY <1>5, <1>6, <1>7

\* The editor and what it shows stay together through every step.
LEMMA EditInvKept == EditInv /\ [ConfNext]_confVars => EditInv'
<1> SUFFICES ASSUME EditInv, [ConfNext]_confVars PROVE EditInv'
  OBVIOUS
<1>1. ConfTypeOK' /\ UNCHANGED <<program, platform, row>>
  BY DEF EditInv, ConfTypeOK, ConfNext, confVars, EditorOpens, EditorChanges, EditorSaves, EditorCloses, OwnCloses,
         GatewayStarts, DaemonStops, GatewayCloses
<1>2. Edited' = Edited /\ Enterable(row)' = Enterable(row)
  BY <1>1 DEF Edited, OwnSet, Enterable
<1>3. /\ disk' = disk => DDOnly(disk)'
      /\ editor' = editor \/ editor' = << >> => DDOnly(editor)'
      /\ panels' = panels \/ panels' = << >> => DDOnly(panels)'
      /\ gateway' = gateway \/ gateway' = << >> => DDOnly(gateway)'
  BY <1>1, PlainNotDD DEF EditInv, DDOnly, Value
<1>4. UNCHANGED <<editorOn, editor, touched, panels>> => ChangeKnown' /\ BandUnchanged' /\ RestKept'
  BY <1>1, <1>2 DEF EditInv, ChangeKnown, BandUnchanged, RestKept, Plain, Kept, Given, Value, DDMode, Gives, RepeaterGives
<1>5. editorOn' = FALSE /\ touched' = FALSE => ChangeKnown' /\ BandUnchanged' /\ RestKept'
  BY DEF ChangeKnown, BandUnchanged, RestKept
<1>6. DDOnly(Load(disk)) /\ DDOnly(Shown(Load(disk)))
  BY LoadNotDD, ShownNotDD DEF EditInv
<1>7. CASE EditorOpens
  <2>1. DDOnly(editor)' /\ DDOnly(panels)'
    BY <1>1, <1>6, <1>7 DEF EditorOpens, DDOnly, Value
  <2>2. UNCHANGED <<disk, gateway>>
    BY <1>7 DEF EditorOpens
  <2> QED BY <1>1, <1>3, <1>7, <2>1, <2>2, OpensKept DEF EditInv
<1>8. CASE EditorChanges
  <2>1. UNCHANGED <<disk, editor, gateway>>
    BY <1>8 DEF EditorChanges
  <2> QED BY <1>1, <1>3, <1>8, <2>1, ChangesKept DEF EditInv
<1>9. CASE EditorSaves
  <2>1. editor' = Taken /\ Writes(Taken) /\ UNCHANGED <<panels, gateway>>
    BY <1>9 DEF EditorSaves
  <2>2. DDOnly(Taken)
    BY TakenNotDD DEF EditInv
  <2>3. DDOnly(disk)'
    BY <1>1, <2>1, <2>2, WritesNotDD DEF EditInv
  <2>4. DDOnly(editor)'
    BY <1>1, <2>1, <2>2 DEF DDOnly, Value
  <2> QED BY <1>1, <1>3, <1>9, <2>1, <2>3, <2>4, SavesKept DEF EditInv
<1>10. CASE EditorCloses
  BY <1>1, <1>3, <1>5, <1>10 DEF EditorCloses, EditInv
<1>11. CASE OwnCloses
  <2>1. DDOnly(disk)'
    BY <1>1, <1>11, PlacedNotDD, WritesNotDD DEF OwnCloses, EditInv
  <2> QED BY <1>1, <1>3, <1>5, <1>11, <2>1 DEF OwnCloses, EditInv
<1>12. CASE GatewayStarts
  <2>1. DDOnly(gateway)'
    BY <1>1, <1>6, <1>12 DEF GatewayStarts, DDOnly, Value
  <2> QED BY <1>1, <1>3, <1>4, <1>12, <2>1 DEF GatewayStarts, EditInv
<1>13. CASE DaemonStops
  BY <1>1, <1>3, <1>4, <1>13 DEF DaemonStops, EditInv
<1>14. CASE GatewayCloses
  <2>1. DDOnly(disk)'
    BY <1>1, <1>14, PlacedNotDD, WritesNotDD DEF GatewayCloses, EditInv
  <2> QED BY <1>1, <1>3, <1>4, <1>14, <2>1 DEF GatewayCloses, EditInv
<1>15. CASE UNCHANGED confVars
  BY <1>1, <1>3, <1>4, <1>15 DEF confVars, EditInv
<1> QED BY <1>7, <1>8, <1>9, <1>10, <1>11, <1>12, <1>13, <1>14, <1>15 DEF ConfNext

\* And they are together when nothing is open.
LEMMA EditInvStarts == ConfInit => EditInv
<1> SUFFICES ASSUME ConfInit PROVE EditInv
  OBVIOUS
<1>1. /\ ConfTypeOK /\ editorOn = FALSE /\ editor = << >> /\ touched = FALSE /\ panels = << >> /\ gateway = << >>
  BY DEF ConfInit, ConfTypeOK
<1>2. DDOnly(Required)
  BY <1>1, RequiredValue DEF DDOnly
<1>3. CASE \E v \in ByHand(row) : disk = Onto([r \in {row} |-> v], Required)
  <2>1. PICK v \in ByHand(row) : disk = Onto([r \in {row} |-> v], Required)
    BY <1>3
  <2>2. v = "DD" => row[2] = "repeaterBand"
    BY DEF ByHand, Enterable
  <2>3. DDOnly([r \in {row} |-> v])
    BY <2>2 DEF DDOnly, Value
  <2> QED BY <1>1, <1>2, <2>1, <2>3, OntoNotDD, PlainNotDD DEF EditInv, ChangeKnown, BandUnchanged, RestKept
<1> QED BY <1>1, <1>2, <1>3, PlainNotDD DEF ConfInit, EditInv, ChangeKnown, BandUnchanged, RestKept

\* The control that was changed gives back what was entered, an empty text perhaps padded.
LEMMA ChangeGiven ==
  ASSUME EditInv, touched
  PROVE  \/ Given(panels, row) = Value(panels, row)
         \/ Given(panels, row) = "BLANK" /\ Value(panels, row) = "EMPTY"
<1> DEFINE v == Value(panels, row)
<1>1. v # "DEFAULT"
  BY EnteredValue DEF EditInv, ChangeKnown
<1>2. RepeaterGives(panels, row) = v
  <2>1. DDMode(panels, row[3]) => row[2] = "repeaterBand"
    BY DDIsRow DEF EditInv
  <2> QED BY <2>1 DEF RepeaterGives
<1>3. /\ StarNetGives(row, v) = v \/ (StarNetGives(row, v) = "BLANK" /\ v = "EMPTY")
      /\ DPlusGives(row, v) = v \/ (DPlusGives(row, v) = "BLANK" /\ v = "EMPTY")
  BY <1>1 DEF StarNetGives, DPlusGives
<1> HIDE DEF v
<1> QED BY <1>2, <1>3, PanelsApart DEF Given, Gives, v

\* However the user opens, changes, saves and closes, and whatever the gateway writes
\* meanwhile: a save of the editor sets what was changed, and leaves the rest as the
\* editor had it.
THEOREM SaveSetsTheEdit == ConfSpec => OnlyEdits
<1>1. EditInv /\ [ConfNext]_confVars =>
        [editorOn /\ editorOn' /\ gatewayOn' = gatewayOn /\ saves' # saves =>
           /\ touched => Value(editor', row) \in
                {Value(panels, row)} \cup (IF Value(panels, row) = "EMPTY" THEN {"BLANK"} ELSE {})
           /\ \A r \in (DOMAIN editor \cup DOMAIN editor') \ (IF touched THEN {row} ELSE {}) :
                Value(editor, r) \in {"NEW", "DEFAULT"} /\ ~ DDMode(panels, r[3]) /\ ~ DDMode(editor, r[3]) =>
                  Value(editor', r) \in
                    {Value(editor, r)} \cup (IF Value(editor, r) = "DEFAULT" THEN {"BLANK", "FIRST"} ELSE {})]_confVars
  <2> SUFFICES ASSUME EditInv, ConfNext, editorOn, editorOn', gatewayOn' = gatewayOn, saves' # saves
               PROVE  /\ touched => \/ Value(editor', row) = Value(panels, row)
                                    \/ Value(panels, row) = "EMPTY" /\ Value(editor', row) = "BLANK"
                      /\ \A r : ~(touched /\ r = row) /\ Plain(r) =>
                           \/ Value(editor', r) = Value(editor, r)
                           \/ Value(editor, r) = "DEFAULT" /\ Value(editor', r) \in {"BLANK", "FIRST"}
    BY DEF confVars, Plain
  <2>1. editor' = Taken
    BY DEF ConfNext, EditorOpens, EditorChanges, EditorSaves, EditorCloses, OwnCloses, GatewayStarts, DaemonStops,
           GatewayCloses
  <2>2. touched => row \in Edited
    BY DEF EditInv, ChangeKnown
  <2>3. touched => \/ Value(editor', row) = Value(panels, row)
                   \/ Value(panels, row) = "EMPTY" /\ Value(editor', row) = "BLANK"
    BY <2>1, <2>2, TakenValue, ChangeGiven
  <2>4. ASSUME NEW r, ~(touched /\ r = row), Plain(r)
        PROVE  \/ Value(editor', r) = Value(editor, r)
               \/ Value(editor, r) = "DEFAULT" /\ Value(editor', r) \in {"BLANK", "FIRST"}
    <3>1. CASE r \in Edited
      <4>1. Kept(r)
        BY <2>4, <3>1 DEF EditInv, RestKept
      <4> QED BY <2>1, <3>1, <4>1, TakenValue DEF Kept
    <3>2. CASE r \notin Edited
      BY <2>1, <3>2, TakenElsewhere
    <3> QED BY <3>1, <3>2
  <2> QED BY <2>3, <2>4
<1> QED BY <1>1, EditInvStarts, EditInvKept, PTL DEF ConfSpec, OnlyEdits

-----------------------------------------------------------------------------
(* MeantIsDone                                                             *)

\* What a digit is worth.
Worth(c) == IndexIn(c, DigitKeys) - 1
DigitSet == ToSet(DigitKeys)

\* The key of a digit is worth the digit.
LEMMA DigitWorth == \A n \in 0 .. 9 : Digit(n) \in DigitSet /\ Worth(Digit(n)) = n
<1>1. \A n \in 0 .. 9 : Digit(n) \in DigitSet
  BY DEF Digit, DigitSet, DigitKeys, ToSet
<1>2. ASSUME NEW n \in 0 .. 9 PROVE Worth(Digit(n)) = n
  <2>1. \A i \in DOMAIN DigitKeys : DigitKeys[i] = DigitKeys[n + 1] => i = n + 1
    BY DEF DigitKeys
  <2>2. n + 1 \in DOMAIN DigitKeys
    BY DEF DigitKeys
  <2>3. IndexIn(Digit(n), DigitKeys) = n + 1
    BY <2>1, <2>2 DEF IndexIn, Digit
  <2> QED BY <2>3 DEF Worth
<1> QED BY <1>1, <1>2

\* ToULong goes digit by digit, which a table of its steps does.
LEMMA StepsOfNumber ==
  ASSUME NEW keys, NEW n \in Nat
  PROVE  \E f : f = [i \in 0 .. n |->
                       IF i = 0 THEN 0
                       ELSE IF \A j \in 1 .. i : keys[j] \in DigitSet THEN 10 * f[i - 1] + Worth(keys[i]) ELSE f[i - 1]]
<1> DEFINE Turn(v, i) == IF \A j \in 1 .. i : keys[j] \in DigitSet THEN 10 * v + Worth(keys[i]) ELSE v
           Runs(k) == \E f : f = [i \in 0 .. k |-> IF i = 0 THEN 0 ELSE Turn(f[i - 1], i)]
           Short == {k \in Nat : ~Runs(k)}
<1> HIDE DEF Turn
<1>1. Runs(0)
  <2> DEFINE f == [i \in {0} |-> 0]
  <2>1. 0 .. 0 = {0}
    OBVIOUS
  <2>2. f = [i \in 0 .. 0 |-> IF i = 0 THEN 0 ELSE Turn(f[i - 1], i)]
    BY <2>1
  <2> QED BY <2>2
<1>2. ASSUME NEW k \in Nat \ {0}, Runs(k - 1) PROVE Runs(k)
  <2>1. PICK f : f = [i \in 0 .. k - 1 |-> IF i = 0 THEN 0 ELSE Turn(f[i - 1], i)]
    BY <1>2
  <2> DEFINE g == [i \in 0 .. k |-> IF i = k THEN Turn(f[k - 1], k) ELSE f[i]]
  <2>2. ASSUME NEW i \in 0 .. k PROVE g[i] = IF i = 0 THEN 0 ELSE Turn(g[i - 1], i)
    <3>1. CASE i = 0
      BY <1>2, <2>1, <3>1
    <3>2. CASE i # 0
      <4>1. i - 1 \in 0 .. k /\ i - 1 # k
        BY <1>2, <3>2
      <4>2. g[i - 1] = f[i - 1]
        BY <4>1
      <4>3. i # k => i \in 0 .. k - 1 /\ g[i] = f[i]
        BY <1>2
      <4>4. i # k => f[i] = Turn(f[i - 1], i)
        BY <2>1, <3>2, <4>3
      <4> QED BY <3>2, <4>2, <4>3, <4>4
    <3> QED BY <3>1, <3>2
  <2>3. g = [i \in 0 .. k |-> g[i]]
    OBVIOUS
  <2> HIDE DEF g
  <2>4. g = [i \in 0 .. k |-> IF i = 0 THEN 0 ELSE Turn(g[i - 1], i)]
    BY <2>2, <2>3, Zenon
  <2> QED BY <2>4
<1> HIDE DEF Runs
<1>3. Short = {}
  <2> SUFFICES ASSUME Short # {} PROVE FALSE
    OBVIOUS
  <2>1. PICK k \in Short : \A j \in Short : ~(<<j, k>> \in OpToRel(<, Nat))
    BY NatLessThanWellFounded, WFMin
  <2>2. \A j \in Short : ~(j < k)
    BY <2>1, Zenon DEF OpToRel
  <2>3. k \in Nat /\ ~Runs(k) /\ k # 0
    BY <1>1
  <2>4. k - 1 \in Nat /\ k - 1 < k
    BY <2>3
  <2>5. Runs(k - 1)
    BY <2>2, <2>4
  <2> QED BY <1>2, <2>3, <2>5
<1> QED BY <1>3 DEF Runs, Turn

\* The number that some digits make.
LEMMA NumberOf ==
  ASSUME NEW keys, Len(keys) \in Nat, \A i \in 1 .. Len(keys) : keys[i] \in DigitSet
  PROVE  \E f : /\ ToULong(keys) = f[Len(keys)] /\ f[0] = 0
                /\ \A i \in 1 .. Len(keys) : f[i] = 10 * f[i - 1] + Worth(keys[i])
<1> DEFINE f == CHOOSE f : f = [i \in 0 .. Len(keys) |->
                  IF i = 0 THEN 0
                  ELSE IF \A j \in 1 .. i : keys[j] \in DigitSet THEN 10 * f[i - 1] + Worth(keys[i]) ELSE f[i - 1]]
<1>1. f = [i \in 0 .. Len(keys) |->
             IF i = 0 THEN 0
             ELSE IF \A j \in 1 .. i : keys[j] \in DigitSet THEN 10 * f[i - 1] + Worth(keys[i]) ELSE f[i - 1]]
  BY StepsOfNumber, ZenonT(60)
<1>2. ToULong(keys) = f[Len(keys)]
  BY DEF ToULong, Worth, DigitSet
<1> HIDE DEF f
<1>3. f[0] = 0 /\ \A i \in 1 .. Len(keys) : f[i] = 10 * f[i - 1] + Worth(keys[i])
  BY <1>1
<1> QED BY <1>2, <1>3

\* Up to four digits, one after the other.
LEMMA OneDigit ==
  ASSUME NEW a \in 0 .. 9
  PROVE  /\ <<Digit(a)>> \in Seq(DigitSet) /\ Len(<<Digit(a)>>) = 1
         /\ ToULong(<<Digit(a)>>) = a
<1> DEFINE keys == <<Digit(a)>>
<1>1. keys \in Seq(DigitSet) /\ Len(keys) = 1 /\ keys[1] = Digit(a)
  BY DigitWorth
<1>2. Len(keys) \in Nat /\ \A i \in 1 .. Len(keys) : keys[i] \in DigitSet
  BY <1>1, DigitWorth
<1> HIDE DEF keys
<1>3. Worth(keys[1]) = a
  BY <1>1, DigitWorth
<1>4. PICK f : /\ ToULong(keys) = f[Len(keys)] /\ f[0] = 0
               /\ \A i \in 1 .. Len(keys) : f[i] = 10 * f[i - 1] + Worth(keys[i])
  BY <1>2, NumberOf
<1>5. /\ f[1] = 10 * f[0] + Worth(keys[1])
      /\ ToULong(keys) = f[1]
  BY <1>1, <1>4
<1>6. ToULong(keys) = a
  BY <1>3, <1>4, <1>5
<1> QED BY <1>1, <1>6 DEF keys

\* Of two digits the first counts for ten.
LEMMA TwoDigits ==
  ASSUME NEW a \in 0 .. 9, NEW b \in 0 .. 9
  PROVE  /\ <<Digit(a), Digit(b)>> \in Seq(DigitSet) /\ Len(<<Digit(a), Digit(b)>>) = 2
         /\ ToULong(<<Digit(a), Digit(b)>>) = 10 * a + b
<1> DEFINE keys == <<Digit(a), Digit(b)>>
<1>1. keys \in Seq(DigitSet) /\ Len(keys) = 2 /\ keys[1] = Digit(a) /\ keys[2] = Digit(b)
  BY DigitWorth
<1>2. Len(keys) \in Nat /\ \A i \in 1 .. Len(keys) : keys[i] \in DigitSet
  BY <1>1, DigitWorth
<1> HIDE DEF keys
<1>3. Worth(keys[1]) = a /\ Worth(keys[2]) = b
  BY <1>1, DigitWorth
<1>4. PICK f : /\ ToULong(keys) = f[Len(keys)] /\ f[0] = 0
               /\ \A i \in 1 .. Len(keys) : f[i] = 10 * f[i - 1] + Worth(keys[i])
  BY <1>2, NumberOf
<1>5. /\ f[1] = 10 * f[0] + Worth(keys[1])
      /\ f[2] = 10 * f[1] + Worth(keys[2])
      /\ ToULong(keys) = f[2]
  BY <1>1, <1>4
<1>6. ToULong(keys) = 10 * a + b
  BY <1>3, <1>4, <1>5
<1> QED BY <1>1, <1>6 DEF keys

\* Of three it counts for a hundred.
LEMMA ThreeDigits ==
  ASSUME NEW a \in 0 .. 9, NEW b \in 0 .. 9, NEW c \in 0 .. 9
  PROVE  /\ <<Digit(a), Digit(b), Digit(c)>> \in Seq(DigitSet) /\ Len(<<Digit(a), Digit(b), Digit(c)>>) = 3
         /\ ToULong(<<Digit(a), Digit(b), Digit(c)>>) = 100 * a + 10 * b + c
<1> DEFINE keys == <<Digit(a), Digit(b), Digit(c)>>
<1>1. keys \in Seq(DigitSet) /\ Len(keys) = 3 /\ keys[1] = Digit(a) /\ keys[2] = Digit(b) /\ keys[3] = Digit(c)
  BY DigitWorth
<1>2. Len(keys) \in Nat /\ \A i \in 1 .. Len(keys) : keys[i] \in DigitSet
  BY <1>1, DigitWorth
<1> HIDE DEF keys
<1>3. Worth(keys[1]) = a /\ Worth(keys[2]) = b /\ Worth(keys[3]) = c
  BY <1>1, DigitWorth
<1>4. PICK f : /\ ToULong(keys) = f[Len(keys)] /\ f[0] = 0
               /\ \A i \in 1 .. Len(keys) : f[i] = 10 * f[i - 1] + Worth(keys[i])
  BY <1>2, NumberOf
<1>5. /\ f[1] = 10 * f[0] + Worth(keys[1])
      /\ f[2] = 10 * f[1] + Worth(keys[2])
      /\ f[3] = 10 * f[2] + Worth(keys[3])
      /\ ToULong(keys) = f[3]
  BY <1>1, <1>4
<1>6. ToULong(keys) = 100 * a + 10 * b + c
  BY <1>3, <1>4, <1>5
<1> QED BY <1>1, <1>6 DEF keys

\* A key is a digit, a band, or one of two others.
LEMMA KeysApart ==
  /\ DigitSet = {"0", "1", "2", "3", "4", "5", "6", "7", "8", "9"} /\ ToSet(BandKeys) = {"A", "B", "C", "D"}
  /\ KeysOf = DigitSet \cup ToSet(BandKeys) \cup {"*", "#"} /\ DOMAIN Family = {"*", "B", "D", "A"}
BY DEF DigitSet, DigitKeys, BandKeys, ToSet, KeysOf, Family

\* The digits of a number, however many of them are typed, are read as the number.
LEMMA NumberTyped ==
  ASSUME NEW n \in 1 .. 999, NEW number \in {Decimal(n), Hundreds(n)}
  PROVE  number \in Seq(DigitSet) /\ Len(number) \in 1 .. 3 /\ ToULong(number) = n
<1> DEFINE a == n \div 100
           b == (n \div 10) % 10
           c == n % 10
           d == n \div 10
<1>1. a \in 0 .. 9 /\ b \in 0 .. 9 /\ c \in 0 .. 9 /\ n = 100 * a + 10 * b + c
  BY SMTT(60)
<1>2. n < 100 => d \in 0 .. 9 /\ n = 10 * d + c
  OBVIOUS
<1>3. /\ Hundreds(n) = <<Digit(a), Digit(b), Digit(c)>>
      /\ n < 10 => Decimal(n) = <<Digit(n)>>
      /\ n >= 10 /\ n < 100 => Decimal(n) = <<Digit(d), Digit(c)>>
      /\ n >= 100 => Decimal(n) = <<Digit(a), Digit(b), Digit(c)>>
  BY DEF Hundreds, Decimal
<1> HIDE DEF a, b, c, d
<1>4. CASE number = <<Digit(a), Digit(b), Digit(c)>>
  <2> DEFINE t == <<Digit(a), Digit(b), Digit(c)>>
  <2>1. t \in Seq(DigitSet) /\ Len(t) = 3 /\ ToULong(t) = 100 * a + 10 * b + c
    <3>1. a \in 0 .. 9 /\ b \in 0 .. 9 /\ c \in 0 .. 9
      BY <1>1
    <3> QED BY <3>1, ThreeDigits, ZenonT(60)
  <2> QED BY <1>1, <1>4, <2>1
<1>5. CASE number = Decimal(n) /\ n < 10
  <2>1. n \in 0 .. 9 /\ number = <<Digit(n)>>
    BY <1>3, <1>5
  <2>2. number \in Seq(DigitSet) /\ Len(number) = 1 /\ ToULong(number) = n
    BY <2>1, OneDigit
  <2> QED BY <2>2
<1>6. CASE number = Decimal(n) /\ n >= 10 /\ n < 100
  <2>1. number = <<Digit(d), Digit(c)>> /\ d \in 0 .. 9 /\ c \in 0 .. 9 /\ n = 10 * d + c
    BY <1>1, <1>2, <1>3, <1>6
  <2>2. number \in Seq(DigitSet) /\ Len(number) = 2 /\ ToULong(number) = 10 * d + c
    BY <2>1, TwoDigits, ZenonT(60)
  <2> QED BY <2>1, <2>2
<1> QED BY <1>3, <1>4, <1>5, <1>6

\* So are two digits of a module; one to four have a key of their own.
LEMMA ModuleTyped ==
  ASSUME NEW m \in 1 .. 26, NEW module \in ModuleKeys(m)
  PROVE  \/ module \in Seq(DigitSet) /\ Len(module) = 2 /\ ToULong(module) = m
         \/ module \in Seq(ToSet(BandKeys)) /\ Len(module) = 1 /\ IndexIn(module[1], BandKeys) = m
<1> DEFINE a == m \div 10
           b == m % 10
<1>1. a \in 0 .. 9 /\ b \in 0 .. 9 /\ m = 10 * a + b
  OBVIOUS
<1>2. module = <<Digit(a), Digit(b)>> \/ (m \in DOMAIN BandKeys /\ module = <<BandKeys[m]>>)
  BY DEF ModuleKeys
<1> HIDE DEF a, b
<1>3. CASE module = <<Digit(a), Digit(b)>>
  BY <1>1, <1>3, TwoDigits
<1>4. CASE m \in DOMAIN BandKeys /\ module = <<BandKeys[m]>>
  <2>1. IndexIn(BandKeys[m], BandKeys) = m
    <3>1. \A i \in DOMAIN BandKeys : BandKeys[i] = BandKeys[m] => i = m
      BY <1>4 DEF BandKeys
    <3> QED BY <1>4, <3>1 DEF IndexIn
  <2>2. BandKeys[m] \in ToSet(BandKeys)
    BY <1>4 DEF ToSet
  <2> QED BY <1>4, <2>1, <2>2
<1> QED BY <1>2, <1>3, <1>4

\* A sequence that was put together is taken apart where it was put together.
LEMMA Apart ==
  ASSUME NEW S, NEW s \in Seq(S), NEW t \in Seq(S)
  PROVE  /\ s \o t \in Seq(S) /\ Len(s \o t) = Len(s) + Len(t)
         /\ SubSeq(s \o t, 1, Len(s)) = s /\ SubSeq(s \o t, Len(s) + 1, Len(s) + Len(t)) = t
         /\ Len(t) > 0 => Last(s \o t) = t[Len(t)]
<1> DEFINE st == s \o t
<1>1. Len(s) \in Nat /\ Len(t) \in Nat
  BY LenProperties
<1>2. /\ st \in Seq(S) /\ Len(st) = Len(s) + Len(t)
      /\ \A i \in 1 .. Len(s) + Len(t) : st[i] = IF i <= Len(s) THEN s[i] ELSE t[i - Len(s)]
  BY ConcatProperties
<1> HIDE DEF st
<1>3. Len(t) > 0 => Last(st) = t[Len(t)]
  BY <1>1, <1>2, SMTT(60) DEF Last
<1>4. SubSeq(st, 1, Len(s)) = s
  <2>1. \A i \in 1 .. Len(s) : st[i] = s[i] /\ st[i] \in S
    BY <1>1, <1>2, ElementOfSeq
  <2>2. /\ SubSeq(st, 1, Len(s)) \in Seq(S) /\ Len(SubSeq(st, 1, Len(s))) = Len(s)
        /\ \A i \in 1 .. Len(s) : SubSeq(st, 1, Len(s))[i] = st[i]
    BY <1>1, <2>1
  <2> QED BY <2>1, <2>2, SeqEqual
<1>5. SubSeq(st, Len(s) + 1, Len(s) + Len(t)) = t
  <2>1. ASSUME NEW i \in 1 .. Len(t) PROVE st[Len(s) + i] = t[i]
    <3>1. Len(s) + i \in 1 .. Len(s) + Len(t) /\ ~(Len(s) + i <= Len(s)) /\ (Len(s) + i) - Len(s) = i
      BY <1>1
    <3> QED BY <1>2, <3>1
  <2>2. /\ SubSeq(st, Len(s) + 1, Len(s) + Len(t)) \in Seq(S)
        /\ Len(SubSeq(st, Len(s) + 1, Len(s) + Len(t))) = Len(t)
        /\ \A i \in 1 .. Len(t) : SubSeq(st, Len(s) + 1, Len(s) + Len(t))[i] = st[Len(s) + i]
    BY <1>1, <1>2
  <2> QED BY <2>1, <2>2, SeqEqual
<1> QED BY <1>2, <1>3, <1>4, <1>5 DEF st

\* And what comes after one key.
LEMMA AfterKey ==
  ASSUME NEW S, NEW s \in Seq(S), NEW c \in S
  PROVE  <<c>> \o s \in Seq(S) /\ Len(<<c>> \o s) = 1 + Len(s) /\ (<<c>> \o s)[1] = c /\ Tail(<<c>> \o s) = s
<1> DEFINE keys == <<c>> \o s
<1>1. Len(s) \in Nat /\ <<c>> \in Seq(S) /\ Len(<<c>>) = 1 /\ <<c>>[1] = c
  BY LenProperties
<1>2. /\ keys \in Seq(S) /\ Len(keys) = 1 + Len(s)
      /\ \A i \in 1 .. 1 + Len(s) : keys[i] = IF i <= 1 THEN <<c>>[i] ELSE s[i - 1]
  BY <1>1, ConcatProperties
<1> HIDE DEF keys
<1>3. keys[1] = c /\ keys # << >>
  BY <1>1, <1>2
<1>4. /\ Tail(keys) \in Seq(S) /\ Len(Tail(keys)) = Len(keys) - 1
      /\ \A i \in 1 .. Len(Tail(keys)) : Tail(keys)[i] = keys[i + 1]
  BY <1>2, <1>3, HeadTailProperties
<1>5. Len(Tail(keys)) = Len(s) /\ \A i \in 1 .. Len(s) : Tail(keys)[i] = s[i]
  BY <1>1, <1>2, <1>4
<1>6. Tail(keys) = s
  BY <1>4, <1>5, SeqEqual
<1> QED BY <1>2, <1>3, <1>6 DEF keys

\* A number and a module of a reflector.
LEMMA LinkRead ==
  ASSUME NEW family, NEW n \in 1 .. 999, NEW m \in 1 .. 26,
         NEW number \in {Decimal(n), Hundreds(n)}, NEW module \in ModuleKeys(m)
  PROVE  processReflector(family, number \o module) = <<"LINK", family, n, m>>
<1> DEFINE keys == number \o module
           k == Len(number)
           len == Len(keys)
<1>1. number \in Seq(DigitSet) /\ k \in 1 .. 3 /\ ToULong(number) = n
  BY NumberTyped, ZenonT(60)
<1>2. LinkTo(family, n, m) = <<"LINK", family, n, m>>
  BY DEF LinkTo
<1>3. number \in Seq(KeysOf)
  BY <1>1, KeysApart, SeqMonotonic
<1>4. /\ module \in Seq(KeysOf) => len = k + Len(module) /\ SubSeq(keys, 1, k) = number
      /\ module \in Seq(KeysOf) => SubSeq(keys, k + 1, k + Len(module)) = module
      /\ module \in Seq(KeysOf) /\ Len(module) > 0 => Last(keys) = module[Len(module)]
  BY <1>3, Apart
<1>5. k \in 1 .. 3
  BY <1>1
<1> HIDE DEF keys, k, len
<1>6. ASSUME module \in Seq(DigitSet), Len(module) = 2, ToULong(module) = m
      PROVE  processReflector(family, keys) = LinkTo(family, n, m)
  <2>1. module \in Seq(KeysOf)
    BY <1>6, KeysApart, SeqMonotonic
  <2>2. len = k + 2 /\ SubSeq(keys, 1, k) = number /\ SubSeq(keys, k + 1, k + 2) = module /\ Last(keys) = module[2]
    BY <1>4, <1>6, <2>1
  <2>3. Last(keys) \notin ToSet(BandKeys)
    <3>1. 2 \in 1 .. Len(module)
      BY <1>6
    <3>2. module[2] \in DigitSet
      BY <1>6, <3>1, ElementOfSeq, ZenonT(60)
    <3> QED BY <2>2, <3>2, KeysApart
  <2>4. len \in 3 .. 5 /\ len # 0 /\ len - 2 = k /\ len - 1 = k + 1 /\ len = k + 2
    BY <1>5, <2>2
  <2>5. SubSeq(keys, 1, len - 2) = number /\ SubSeq(keys, len - 1, len) = module
    BY <2>2, <2>4
  <2>6. processReflector(family, keys) = LinkTo(family, ToULong(number), ToULong(module))
    BY <2>3, <2>4, <2>5, ZenonT(60) DEF processReflector, len
  <2> QED BY <1>1, <1>6, <2>6
<1>7. ASSUME module \in Seq(ToSet(BandKeys)), Len(module) = 1, IndexIn(module[1], BandKeys) = m
      PROVE  processReflector(family, keys) = LinkTo(family, n, m)
  <2>1. module \in Seq(KeysOf)
    BY <1>7, KeysApart, SeqMonotonic
  <2>2. len = k + 1 /\ SubSeq(keys, 1, k) = number /\ Last(keys) = module[1]
    BY <1>4, <1>7, <2>1
  <2>3. Last(keys) \in ToSet(BandKeys)
    <3>1. 1 \in 1 .. Len(module)
      BY <1>7
    <3>2. module[1] \in ToSet(BandKeys)
      BY <1>7, <3>1, ElementOfSeq, ZenonT(60)
    <3> QED BY <2>2, <3>2
  <2>4. len \in 2 .. 4 /\ len # 0 /\ len - 1 = k
    BY <1>5, <2>2
  <2>5. Front(keys) = number
    BY <2>2, <2>4 DEF Front, len
  <2>6. processReflector(family, keys) = LinkTo(family, ToULong(number), IndexIn(Last(keys), BandKeys))
    BY <2>3, <2>4, <2>5 DEF processReflector, len
  <2> QED BY <1>1, <1>7, <2>2, <2>6
<1> QED BY <1>2, <1>6, <1>7, ModuleTyped, ZenonT(60) DEF keys

Right(t) == t[1] \in Seq(KeysOf) /\ Len(t[1]) > 0 /\ translate(t[1]) = t[2] /\ t[2] # << >>

\* What translate does with more than two keys.
LEMMA LongCommand ==
  ASSUME NEW keys \in Seq(KeysOf), Len(keys) > 2
  PROVE  /\ keys[1] \in {"*", "B", "D", "A"} => translate(keys) = processReflector(Family[keys[1]], Tail(keys))
         /\ keys[1] \notin {"*", "B", "D", "A"} => translate(keys) = processCCS(keys)
<1>1. keys # <<"#">> /\ keys # <<"0">> /\ keys # <<"0", "0">> /\ keys # <<"A">> /\ keys # <<"*", "*">>
  <2>1. Len(<<"#">>) = 1 /\ Len(<<"0">>) = 1 /\ Len(<<"A">>) = 1 /\ Len(<<"0", "0">>) = 2 /\ Len(<<"*", "*">>) = 2
    OBVIOUS
  <2>2. ~(1 > 2) /\ ~(2 > 2)
    OBVIOUS
  <2> QED BY <2>1, <2>2, Zenon
<1>2. keys \notin {<<"0">>, <<"0", "0">>}
  BY <1>1
<1> QED BY <1>1, <1>2, KeysApart DEF translate

\* A command that asks for a link, with what it asks for; and every form it is typed in.
LinkTyped(c, n, m, number, module) == <<<<c>> \o number \o module, <<"LINK", Family[c], n, m>>>>
LinkForms(c, n, m) == {LinkTyped(c, n, m, number, module) : number \in {Decimal(n), Hundreds(n)}, module \in ModuleKeys(m)}

\* A command to link means the link, in each of the forms it is typed in.
LEMMA LinkMeant ==
  ASSUME DtmfAssumption, NEW c \in DOMAIN Family, NEW n \in Reflectors, NEW m \in ModuleLetters, NEW t \in LinkForms(c, n, m)
  PROVE  Right(t)
<1>a. n \in 1 .. 999
  BY DEF DtmfAssumption
<1>b. m \in 1 .. 26
  BY DEF DtmfAssumption
<1> HIDE DtmfAssumption
<1>c. PICK number \in {Decimal(n), Hundreds(n)}, module \in ModuleKeys(m) : t = LinkTyped(c, n, m, number, module)
  BY DEF LinkForms
<1> DEFINE rest == number \o module
           keys == <<c>> \o number \o module
<1>1. c \in {"*", "B", "D", "A"} /\ c \in KeysOf
  BY KeysApart
<1>2. number \in Seq(DigitSet) /\ Len(number) \in 1 .. 3
  BY <1>a, NumberTyped, ZenonT(60)
<1>3. number \in Seq(KeysOf)
  BY <1>2, KeysApart, SeqMonotonic
<1>4. module \in Seq(KeysOf) /\ Len(module) \in 1 .. 2
  <2>1. ASSUME module \in Seq(DigitSet), Len(module) = 2 PROVE module \in Seq(KeysOf) /\ Len(module) \in 1 .. 2
    BY <2>1, KeysApart, SeqMonotonic
  <2>2. ASSUME module \in Seq(ToSet(BandKeys)), Len(module) = 1 PROVE module \in Seq(KeysOf) /\ Len(module) \in 1 .. 2
    BY <2>2, KeysApart, SeqMonotonic
  <2> QED BY <1>b, <2>1, <2>2, ModuleTyped
<1>5. rest \in Seq(KeysOf) /\ Len(rest) = Len(number) + Len(module)
  BY <1>3, <1>4, Apart
<1>6. keys = <<c>> \o rest
  <2>1. <<c>> \in Seq(KeysOf)
    BY <1>1
  <2> QED BY <1>3, <1>4, <2>1, ConcatAssociative, SMTT(60)
<1>7. processReflector(Family[c], rest) = <<"LINK", Family[c], n, m>>
  BY <1>a, <1>b, LinkRead, ZenonT(60)
<1> HIDE DEF keys, rest
<1>8. keys \in Seq(KeysOf) /\ Len(keys) = 1 + Len(rest) /\ keys[1] = c /\ Tail(keys) = rest
  BY <1>1, <1>5, <1>6, AfterKey
<1>9. Len(keys) > 2
  <2>1. Len(number) \in 1 .. 3 /\ Len(module) \in 1 .. 2 /\ Len(keys) = 1 + (Len(number) + Len(module))
    BY <1>2, <1>4, <1>5, <1>8
  <2>2. \A i \in 1 .. 3, j \in 1 .. 2 : 1 + (i + j) > 2
    OBVIOUS
  <2> QED BY <2>1, <2>2, Zenon
<1>10. translate(keys) = <<"LINK", Family[c], n, m>>
  BY <1>1, <1>7, <1>8, <1>9, LongCommand
<1>11. Len(keys) > 0 /\ <<"LINK", Family[c], n, m>> # << >>
  <2>1. Len(<<"LINK", Family[c], n, m>>) = 4 /\ Len(<< >>) = 0
    OBVIOUS
  <2> QED BY <1>9, <2>1
<1>12. Right(<<keys, <<"LINK", Family[c], n, m>>>>)
  BY <1>8, <1>10, <1>11 DEF Right
<1> QED BY <1>c, <1>12 DEF keys, LinkTyped

\* So every such command.
LEMMA LinksMeant == DtmfAssumption => \A t \in Links : Right(t)
<1> SUFFICES ASSUME DtmfAssumption, NEW t \in Links PROVE Right(t)
  OBVIOUS
<1>1. Links = UNION {LinkForms(c, n, m) : c \in DOMAIN Family, n \in Reflectors, m \in ModuleLetters}
  BY DEF Links, LinkForms, LinkTyped
<1>2. PICK c \in DOMAIN Family, n \in Reflectors, m \in ModuleLetters : t \in LinkForms(c, n, m)
  BY <1>1
<1> QED BY <1>2, LinkMeant

\* A number without a band after it.
LEMMA CallRead ==
  ASSUME NEW keys, NEW n, n # 0, Len(keys) \in {3, 4, 6, 7}, Last(keys) \notin ToSet(BandKeys), ToULong(keys) = n
  PROVE  processCCS(keys) = <<"CCS", n, Len(keys), "NONE">>
BY DEF processCCS

\* And one with it.
LEMMA BandCallRead ==
  ASSUME NEW keys, NEW n, n # 0, Len(keys) \in {4, 5, 7, 8}, Last(keys) \in ToSet(BandKeys), ToULong(Front(keys)) = n
  PROVE  processCCS(keys) = <<"CCS", n, Len(keys) - 1, Last(keys)>>
BY DEF processCCS

\* A command that begins with a digit is a call.
LEMMA CallCommand ==
  ASSUME NEW keys \in Seq(KeysOf), Len(keys) > 2, keys[1] \in DigitSet
  PROVE  translate(keys) = processCCS(keys)
<1>1. keys[1] \notin {"*", "B", "D", "A"}
  BY KeysApart
<1> QED BY <1>1, LongCommand

\* Before the last key is what was there before it was added.
LEMMA ShortSubSeq ==
  ASSUME NEW s, NEW t, NEW S, s \in Seq(S), t \in S
  PROVE  Front(s \o <<t>>) = s /\ Last(s \o <<t>>) = t /\ Len(s \o <<t>>) = Len(s) + 1 /\ s \o <<t>> \in Seq(S)
<1>1. <<t>> \in Seq(S) /\ Len(<<t>>) = 1 /\ <<t>>[1] = t
  OBVIOUS
<1>2. Len(s) \in Nat
  BY LenProperties
<1>3. /\ s \o <<t>> \in Seq(S) /\ Len(s \o <<t>>) = Len(s) + Len(<<t>>)
      /\ SubSeq(s \o <<t>>, 1, Len(s)) = s
      /\ Len(<<t>>) > 0 => Last(s \o <<t>>) = <<t>>[Len(<<t>>)]
  BY <1>1, Apart, ZenonT(60)
<1>4. Len(s \o <<t>>) - 1 = Len(s)
  BY <1>1, <1>2, <1>3
<1> QED BY <1>1, <1>3, <1>4 DEF Front

\* The four forms of a call.
ThreeKeys(n) == <<Hundreds(n), <<"CCS", n, 3, "NONE">>>>
ThreeAndBand(n) == <<Append(Hundreds(n), "B"), <<"CCS", n, 3, "B">>>>
FourKeys(n) == <<Hundreds(n) \o <<"0">>, <<"CCS", 10 * n, 4, "NONE">>>>
SevenAndBand(n) == <<Hundreds(n) \o Hundreds(n) \o <<"0", "D">>, <<"CCS", 10010 * n, 7, "D">>>>

\* A call means the number that was typed and its band.
LEMMA CallMeant ==
  ASSUME NEW n \in 1 .. 999
  PROVE  Right(ThreeKeys(n)) /\ Right(ThreeAndBand(n)) /\ Right(FourKeys(n)) /\ Right(SevenAndBand(n))
<1> DEFINE a == n \div 100
           b == (n \div 10) % 10
           c == n % 10
           h == Hundreds(n)
<1>1. a \in 0 .. 9 /\ b \in 0 .. 9 /\ c \in 0 .. 9
  OBVIOUS
<1>2. n = 100 * a + 10 * b + c
  OBVIOUS
<1>3. h = <<Digit(a), Digit(b), Digit(c)>>
  BY DEF Hundreds
<1> HIDE DEF a, b, c, h
<1>4. Digit(a) \in DigitSet /\ Digit(b) \in DigitSet /\ Digit(c) \in DigitSet
  BY <1>1, DigitWorth
<1>5. Digit(0) = "0"
  BY DEF Digit, DigitKeys
<1>6. /\ DigitSet \subseteq KeysOf /\ "0" \in DigitSet /\ "B" \in KeysOf /\ "D" \in KeysOf
      /\ "B" \in ToSet(BandKeys) /\ "D" \in ToSet(BandKeys)
  BY KeysApart
<1>7. \A x \in DigitSet : x \notin ToSet(BandKeys)
  BY KeysApart
<1>8. h \in Seq(DigitSet) /\ Len(h) = 3 /\ h[1] \in DigitSet /\ Last(h) \in DigitSet
  BY <1>3, <1>4 DEF Last
<1>9. h \in Seq(KeysOf)
  BY <1>6, <1>8, SeqMonotonic
<1>10. n # 0 /\ 10 * n # 0 /\ 10010 * n # 0
  OBVIOUS
<1>11. ToULong(h) = n
  <2>1. ToULong(<<Digit(a), Digit(b), Digit(c)>>) = 100 * a + 10 * b + c
    BY <1>1, ThreeDigits, ZenonT(60)
  <2> QED BY <1>2, <1>3, <2>1, SMTT(60)
<1>12. Right(<<h, <<"CCS", n, 3, "NONE">>>>)
  <2>1. Len(h) \in {3, 4, 6, 7} /\ Last(h) \notin ToSet(BandKeys) /\ Len(h) > 2
    BY <1>7, <1>8
  <2>2. processCCS(h) = <<"CCS", n, Len(h), "NONE">>
    BY <1>10, <1>11, <2>1, CallRead
  <2>3. translate(h) = processCCS(h)
    BY <1>8, <1>9, <2>1, CallCommand, ZenonT(60)
  <2>4. translate(h) = <<"CCS", n, 3, "NONE">> /\ Len(h) > 0
    BY <1>8, <2>1, <2>2, <2>3
  <2>5. <<"CCS", n, 3, "NONE">> # << >>
    OBVIOUS
  <2> QED BY <1>9, <2>4, <2>5 DEF Right
<1>13. Right(<<Append(h, "B"), <<"CCS", n, 3, "B">>>>)
  <2> DEFINE keys == h \o <<"B">>
  <2>1. keys \in Seq(KeysOf) /\ Len(keys) = Len(h) + 1 /\ Last(keys) = "B" /\ Front(keys) = h
    BY <1>6, <1>9, ShortSubSeq
  <2>2. Append(h, "B") = keys
    BY <1>6, <1>9, AppendIsConcat
  <2>3. keys[1] = h[1]
    BY <1>8
  <2> HIDE DEF keys
  <2>4. Len(keys) = 4 /\ Len(keys) - 1 = 3 /\ Len(keys) \in {4, 5, 7, 8} /\ Len(keys) > 2
    BY <1>8, <2>1
  <2>5. processCCS(keys) = <<"CCS", n, Len(keys) - 1, Last(keys)>>
    <3>1. ToULong(Front(keys)) = n /\ Last(keys) \in ToSet(BandKeys) /\ n # 0
      BY <1>6, <1>10, <1>11, <2>1
    <3> QED BY <2>4, <3>1, BandCallRead, ZenonT(60)
  <2>6. translate(keys) = processCCS(keys)
    BY <1>8, <2>1, <2>3, <2>4, CallCommand, ZenonT(60)
  <2>7. Right(<<keys, <<"CCS", n, 3, "B">>>>)
    BY <2>1, <2>4, <2>5, <2>6 DEF Right
  <2> QED BY <2>2, <2>7, ZenonT(60)
<1>16. Worth(Digit(a)) = a /\ Worth(Digit(b)) = b /\ Worth(Digit(c)) = c /\ Worth(Digit(0)) = 0
  BY <1>1, DigitWorth
<1>14. Right(<<h \o <<"0">>, <<"CCS", 10 * n, 4, "NONE">>>>)
  <2> DEFINE keys == h \o <<"0">>
  <2>1. keys \in Seq(KeysOf) /\ Len(keys) = Len(h) + 1 /\ Last(keys) = "0"
    BY <1>6, <1>9, ShortSubSeq
  <2>2. Len(keys) = 4 /\ keys[1] = Digit(a) /\ keys[2] = Digit(b) /\ keys[3] = Digit(c) /\ keys[4] = Digit(0)
    BY <1>3, <1>5
  <2>4. keys[1] = h[1]
    BY <1>8
  <2> HIDE DEF keys
  <2>5. ToULong(keys) = 10 * n
    <3>1. ToULong(keys) = 10 * (100 * a + 10 * b + c)
      <4>1. Len(keys) \in Nat /\ \A i \in 1 .. Len(keys) : keys[i] \in DigitSet
        BY <1>4, <1>5, <1>6, <2>2
      <4>2. PICK f : /\ ToULong(keys) = f[Len(keys)] /\ f[0] = 0
                     /\ \A i \in 1 .. Len(keys) : f[i] = 10 * f[i - 1] + Worth(keys[i])
        BY <4>1, NumberOf
      <4>3. /\ f[1] = 10 * f[0] + Worth(keys[1]) /\ f[2] = 10 * f[1] + Worth(keys[2])
            /\ f[3] = 10 * f[2] + Worth(keys[3]) /\ f[4] = 10 * f[3] + Worth(keys[4])
            /\ ToULong(keys) = f[4]
        BY <2>2, <4>2
      <4> QED BY <1>1, <1>16, <2>2, <4>2, <4>3
    <3> QED BY <1>2, <3>1
  <2>6. Len(keys) = 4 /\ Len(keys) \in {3, 4, 6, 7} /\ Len(keys) > 2 /\ Last(keys) \notin ToSet(BandKeys)
    BY <1>6, <1>7, <1>8, <2>1
  <2>7. processCCS(keys) = <<"CCS", 10 * n, Len(keys), "NONE">>
    <3> DEFINE v == 10 * n
    <3>1. v # 0 /\ ToULong(keys) = v
      BY <1>10, <2>5
    <3> HIDE DEF v
    <3>2. processCCS(keys) = <<"CCS", v, Len(keys), "NONE">>
      BY <2>6, <3>1, CallRead, ZenonT(60)
    <3> QED BY <3>2 DEF v
  <2>8. translate(keys) = processCCS(keys)
    BY <1>8, <2>1, <2>4, <2>6, CallCommand
  <2>9. Right(<<keys, <<"CCS", 10 * n, 4, "NONE">>>>)
    BY <2>1, <2>6, <2>7, <2>8 DEF Right
  <2> QED BY <2>9 DEF keys
<1>15. Right(<<h \o h \o <<"0", "D">>, <<"CCS", 10010 * n, 7, "D">>>>)
  <2> DEFINE digits == <<Digit(a), Digit(b), Digit(c), Digit(a), Digit(b), Digit(c), "0">>
             keys == digits \o <<"D">>
  <2>1. digits \in Seq(DigitSet) /\ Len(digits) = 7 /\ digits[1] \in DigitSet
    BY <1>4, <1>6
  <2>2. ToULong(digits) = 10010 * n
    <3>1. ToULong(digits) = 10010 * (100 * a + 10 * b + c)
      <4>1. /\ Len(digits) = 7 /\ digits[1] = Digit(a) /\ digits[2] = Digit(b) /\ digits[3] = Digit(c)
            /\ digits[4] = Digit(a) /\ digits[5] = Digit(b) /\ digits[6] = Digit(c) /\ digits[7] = Digit(0)
        BY <1>5
      <4> HIDE DEF digits
      <4>2. Len(digits) \in Nat /\ \A i \in 1 .. Len(digits) : digits[i] \in DigitSet
        BY <1>4, <1>5, <1>6, <4>1
      <4>3. PICK f : /\ ToULong(digits) = f[Len(digits)] /\ f[0] = 0
                     /\ \A i \in 1 .. Len(digits) : f[i] = 10 * f[i - 1] + Worth(digits[i])
        BY <4>2, NumberOf
      <4>4. /\ f[1] = 10 * f[0] + Worth(digits[1]) /\ f[2] = 10 * f[1] + Worth(digits[2])
            /\ f[3] = 10 * f[2] + Worth(digits[3]) /\ f[4] = 10 * f[3] + Worth(digits[4])
            /\ f[5] = 10 * f[4] + Worth(digits[5]) /\ f[6] = 10 * f[5] + Worth(digits[6])
            /\ f[7] = 10 * f[6] + Worth(digits[7]) /\ ToULong(digits) = f[7]
        BY <4>1, <4>3
      <4> QED BY <1>1, <1>16, <4>1, <4>3, <4>4
    <3> QED BY <1>2, <3>1
  <2>3. h \o h \o <<"0", "D">> = keys
    BY <1>3
  <2>11. (h \o h) \o <<"0", "D">> = keys
    BY <2>3
  <2> HIDE DEF digits
  <2>4. digits \in Seq(KeysOf)
    BY <1>6, <2>1, SeqMonotonic
  <2>5. keys \in Seq(KeysOf) /\ Len(keys) = Len(digits) + 1 /\ Last(keys) = "D" /\ Front(keys) = digits
    BY <1>6, <2>4, ShortSubSeq
  <2>6. keys[1] = digits[1]
    BY <2>1
  <2> HIDE DEF keys
  <2>7. Len(keys) = 8 /\ Len(keys) - 1 = 7 /\ Len(keys) \in {4, 5, 7, 8} /\ Len(keys) > 2
    BY <2>1, <2>5
  <2>8. processCCS(keys) = <<"CCS", 10010 * n, Len(keys) - 1, Last(keys)>>
    <3> DEFINE v == 10010 * n
    <3>1. v # 0 /\ ToULong(Front(keys)) = v /\ Last(keys) \in ToSet(BandKeys)
      BY <1>6, <1>10, <2>2, <2>5
    <3> HIDE DEF v
    <3>2. processCCS(keys) = <<"CCS", v, Len(keys) - 1, Last(keys)>>
      BY <2>7, <3>1, BandCallRead, ZenonT(60)
    <3> QED BY <3>2 DEF v
  <2>9. translate(keys) = processCCS(keys)
    BY <2>1, <2>5, <2>6, <2>7, CallCommand, ZenonT(60)
  <2>10. Right(<<keys, <<"CCS", 10010 * n, 7, "D">>>>)
    BY <2>5, <2>7, <2>8, <2>9 DEF Right
  <2> DEFINE u == h \o h \o <<"0", "D">>
  <2>12. u = keys
    BY <2>3
  <2> HIDE DEF u
  <2>13. Right(<<u, <<"CCS", 10010 * n, 7, "D">>>>)
    BY <2>10, <2>12
  <2> QED BY <2>13 DEF u
<1>17. Right(ThreeKeys(n))
  BY <1>12 DEF h, ThreeKeys
<1>18. Right(ThreeAndBand(n))
  BY <1>13 DEF h, ThreeAndBand
<1>19. Right(FourKeys(n))
  BY <1>14 DEF h, FourKeys
<1>20. Right(SevenAndBand(n))
  BY <1>15 DEF h, SevenAndBand
<1> QED BY <1>17, <1>18, <1>19, <1>20

\* So every call.
LEMMA CallsMeant == DtmfAssumption => \A t \in Calls : Right(t)
<1> SUFFICES ASSUME DtmfAssumption, NEW t \in Calls PROVE Right(t)
  OBVIOUS
<1> DEFINE Typed(n) == {ThreeKeys(n), ThreeAndBand(n), FourKeys(n), SevenAndBand(n)}
<1>1. Calls = UNION {Typed(n) : n \in Reflectors}
  BY ZenonT(60) DEF Calls, ThreeKeys, ThreeAndBand, FourKeys, SevenAndBand
<1>2. \A n : \A x \in Typed(n) : x = ThreeKeys(n) \/ x = ThreeAndBand(n) \/ x = FourKeys(n) \/ x = SevenAndBand(n)
  OBVIOUS
<1> HIDE DEF Typed
<1>3. PICK n \in Reflectors : t \in Typed(n)
  BY <1>1
<1>4. n \in 1 .. 999
  BY DEF DtmfAssumption
<1>5. Right(ThreeKeys(n)) /\ Right(ThreeAndBand(n)) /\ Right(FourKeys(n)) /\ Right(SevenAndBand(n))
  BY <1>4, CallMeant, ZenonT(60)
<1> QED BY <1>2, <1>3, <1>5, SMTT(60)

\* And the commands that are not put together of a number.
LEMMA OthersMeant == \A t \in Others : Right(t)
<1>1. translate(<<"#">>) = <<"UNLINK">> /\ translate(<<"0">>) = <<"INFO">> /\ translate(<<"A">>) = <<"CCS_END">>
  BY DEF translate
<1>2. translate(<<"*", "*">>) = <<"LINK_BACK">>
  BY DEF translate
<1>3. translate(<<"*", "0", "A">>) = NoMeaning
  <2> DEFINE keys == <<"*", "0", "A">>
  <2>1. keys \in Seq(KeysOf) /\ Len(keys) > 2 /\ keys[1] \in {"*", "B", "D", "A"}
    BY KeysApart
  <2>2. Tail(keys) = <<"0", "A">>
    OBVIOUS
  <2> HIDE DEF keys
  <2>3. translate(keys) = processReflector(Family[keys[1]], <<"0", "A">>)
    BY <2>1, <2>2, LongCommand
  <2> DEFINE rest == <<"0", "A">>
  <2>4. Len(rest) = 2 /\ Last(rest) = "A" /\ Front(rest) = <<"0">>
    <3>1. rest = <<"0">> \o <<"A">>
      OBVIOUS
    <3>2. <<"0">> \in Seq(KeysOf) /\ "A" \in KeysOf /\ Len(<<"0">>) = 1
      BY KeysApart
    <3> HIDE DEF rest
    <3> QED BY <3>1, <3>2, ShortSubSeq
  <2>5. ToULong(<<"0">>) = 0
    <3>1. Digit(0) = "0" /\ 0 \in 0 .. 9
      BY DEF Digit, DigitKeys
    <3> QED BY <3>1, OneDigit
  <2> HIDE DEF rest
  <2>6. \A f : processReflector(f, rest) = NoMeaning
    BY <2>4, <2>5, KeysApart DEF processReflector, LinkTo
  <2> QED BY <2>3, <2>6 DEF keys, rest
<1>4. translate(<<"B", "1", "2", "7">>) = NoMeaning
  <2> DEFINE keys == <<"B", "1", "2", "7">>
             rest == <<"1", "2", "7">>
  <2>1. keys \in Seq(KeysOf) /\ Len(keys) > 2 /\ keys[1] \in {"*", "B", "D", "A"}
    BY KeysApart
  <2>2. Tail(keys) = rest
    OBVIOUS
  <2> HIDE DEF keys
  <2>3. translate(keys) = processReflector(Family[keys[1]], rest)
    BY <2>1, <2>2, LongCommand
  <2>4. Len(rest) = 3 /\ Last(rest) = "7" /\ SubSeq(rest, 2, 3) = <<"2", "7">>
    <3> DEFINE s == <<"1">>
               t == <<"2", "7">>
    <3>1. s \in Seq(KeysOf) /\ t \in Seq(KeysOf)
      BY KeysApart
    <3>2. Len(s) = 1 /\ Len(t) = 2 /\ t[2] = "7" /\ rest = s \o t
      OBVIOUS
    <3> HIDE DEF rest, s, t
    <3>3. /\ s \o t \in Seq(KeysOf) /\ Len(s \o t) = Len(s) + Len(t)
          /\ SubSeq(s \o t, Len(s) + 1, Len(s) + Len(t)) = t
          /\ Len(t) > 0 => Last(s \o t) = t[Len(t)]
      BY <3>1, Apart
    <3>4. Len(s) + 1 = 2 /\ Len(s) + Len(t) = 3 /\ Len(t) > 0
      BY <3>2
    <3>5. Len(rest) = 3 /\ SubSeq(rest, 2, 3) = t /\ Last(rest) = "7"
      BY <3>2, <3>3, <3>4
    <3> QED BY <3>5 DEF t
  <2>5. ToULong(<<"2", "7">>) = 27
    <3>1. Digit(2) = "2" /\ Digit(7) = "7" /\ 2 \in 0 .. 9 /\ 7 \in 0 .. 9
      BY DEF Digit, DigitKeys
    <3>2. ToULong(<<Digit(2), Digit(7)>>) = 10 * 2 + 7
      BY <3>1, TwoDigits
    <3> QED BY <3>1, <3>2
  <2> HIDE DEF rest
  <2>6. ASSUME NEW f PROVE processReflector(f, rest) = NoMeaning
    <3>1. Len(rest) # 0 /\ Len(rest) \in 3 .. 5 /\ Len(rest) - 1 = 2 /\ Last(rest) \notin ToSet(BandKeys)
      BY <2>4, KeysApart
    <3>2. processReflector(f, rest) = LinkTo(f, ToULong(SubSeq(rest, 1, Len(rest) - 2)), ToULong(SubSeq(rest, 2, 3)))
      BY <2>4, <3>1 DEF processReflector
    <3>3. 27 \notin 1 .. 26
      OBVIOUS
    <3> QED BY <2>4, <2>5, <3>2, <3>3 DEF LinkTo
  <2> QED BY <2>3, <2>6 DEF keys, rest
<1>5. translate(<<"5">>) = NoMeaning
  <2>1. translate(<<"5">>) = processCCS(<<"5">>)
    BY KeysApart DEF translate
  <2>2. processCCS(<<"5">>) = NoMeaning
    BY DEF processCCS
  <2> QED BY <2>1, <2>2
<1>6. /\ <<"#">> \in Seq(KeysOf) /\ <<"0">> \in Seq(KeysOf) /\ <<"A">> \in Seq(KeysOf) /\ <<"*", "*">> \in Seq(KeysOf)
      /\ <<"*", "0", "A">> \in Seq(KeysOf) /\ <<"B", "1", "2", "7">> \in Seq(KeysOf) /\ <<"5">> \in Seq(KeysOf)
  BY KeysApart
<1>7. Right(<<<<"#">>, <<"UNLINK">>>>) /\ Right(<<<<"0">>, <<"INFO">>>>) /\ Right(<<<<"A">>, <<"CCS_END">>>>)
  BY <1>1, <1>6 DEF Right
<1>8. Right(<<<<"*", "*">>, <<"LINK_BACK">>>>)
  BY <1>2, <1>6 DEF Right
<1>9. /\ Right(<<<<"*", "0", "A">>, NoMeaning>>) /\ Right(<<<<"B", "1", "2", "7">>, NoMeaning>>)
      /\ Right(<<<<"5">>, NoMeaning>>)
  <2>1. NoMeaning # << >>
    BY DEF NoMeaning
  <2>2. Len(<<"*", "0", "A">>) > 0 /\ Len(<<"B", "1", "2", "7">>) > 0 /\ Len(<<"5">>) > 0
    OBVIOUS
  <2> QED BY <1>3, <1>4, <1>5, <1>6, <2>1, <2>2 DEF Right
<1> QED BY <1>7, <1>8, <1>9, Zenon DEF Others

\* Every command means what users mean by it.
LEMMA CommandsMeant == DtmfAssumption => \A t \in DtmfCommands : Right(t)
BY LinksMeant, CallsMeant, OthersMeant DEF DtmfCommands

-----------------------------------------------------------------------------
\* What was noted is what was typed.

DtmfSpec == DtmfInit /\ [][DtmfNext]_dtmfVars

\* The keys that CDTMF must have noted.
Held == IF pressed THEN typing ELSE typing - 1

DtmfTypeOK ==
  /\ typed \in DtmfCommands /\ typing \in 1 .. Len(typed[1]) + 1 /\ data \in Seq(KeysOf)
  /\ pressed \in BOOLEAN /\ good \in 0 .. 4 /\ pressCount \in 0 .. 3
  /\ gap \in 0 .. Release /\ releaseCount \in 0 .. Release /\ misread \in 0 .. Misreads

\* While a command is typed: the key that is noted is the one whose fourth frame in a
\* row was read, and frames that were misread do not add up to one.
KeysHeld ==
  /\ Len(data) = Held /\ \A i \in 1 .. Held : data[i] = typed[1][i]
  /\ pressed <=> good = 4
  /\ pressed => StillTyping /\ releaseCount = 0
  /\ ~pressed /\ typing > 1 => releaseCount = gap
  /\ good \in 1 .. 3 => StillTyping /\ lastChar = typed[1][typing] /\ pressCount = good - 1
  /\ good = 0 => \/ lastChar = "NONE" /\ pressCount = 0
                 \/ StillTyping /\ lastChar # typed[1][typing] /\ pressCount + 1 <= misread

\* When it is done.
AllDone ==
  done = typed[2] /\ data = << >> /\ ~pressed /\ good = 0 /\ pressCount = 0 /\ lastChar = "NONE" /\ ~StillTyping

DtmfInv == DtmfTypeOK /\ (done = << >> => KeysHeld) /\ (done # << >> => AllDone)

\* What is known of a command that users type.
LEMMA CommandKnown ==
  ASSUME DtmfAssumption, NEW t \in DtmfCommands
  PROVE  /\ t[1] \in Seq(KeysOf) /\ Len(t[1]) \in Nat /\ Len(t[1]) > 0 /\ translate(t[1]) = t[2] /\ t[2] # << >>
         /\ \A i \in 1 .. Len(t[1]) : t[1][i] \in KeysOf
         /\ "NONE" \notin KeysOf
<1>1. Right(t)
  BY CommandsMeant
<1>2. t[1] \in Seq(KeysOf) /\ Len(t[1]) > 0 /\ translate(t[1]) = t[2] /\ t[2] # << >>
  BY <1>1 DEF Right
<1>3. Len(t[1]) \in Nat /\ \A i \in 1 .. Len(t[1]) : t[1][i] \in KeysOf
  BY <1>2, LenProperties, ElementOfSeq
<1>4. "NONE" \notin KeysOf
  BY KeysApart
<1> QED BY <1>2, <1>3, <1>4

\* A frame of the key that is held: the fourth in a row notes it, once.
LEMMA ReadRightKept == ASSUME DtmfAssumption, DtmfInv, ReadRight PROVE DtmfInv'
<1> DEFINE c == typed[1][typing]
           L == Len(typed[1])
<1>1. typed \in DtmfCommands
  BY DEF DtmfInv, DtmfTypeOK
<1>2. L \in Nat /\ typing \in 1 .. L /\ c \in KeysOf /\ c # "NONE"
  <2>1. typing \in 1 .. L + 1 /\ typing <= L
    BY DEF DtmfInv, DtmfTypeOK, ReadRight, StillTyping
  <2>2. L \in Nat /\ (\A i \in 1 .. L : typed[1][i] \in KeysOf) /\ "NONE" \notin KeysOf
    BY <1>1, CommandKnown
  <2> QED BY <2>1, <2>2
<1>3. done = << >> /\ KeysHeld /\ StillTyping
  BY DEF DtmfInv, AllDone, ReadRight
<1>4. /\ UNCHANGED <<typed, typing, gap, misread, done>> /\ lastChar' = c /\ pressCount' = KeyCount(c)
      /\ good' = IF good < 4 THEN good + 1 ELSE 4
      /\ pressed' = (pressed \/ (~pressed /\ KeyCount(c) = 3))
      /\ data' = IF ~pressed /\ KeyCount(c) = 3 THEN Append(data, c) ELSE data
      /\ releaseCount' = IF ~pressed /\ KeyCount(c) = 3 THEN 0 ELSE releaseCount
  BY DEF ReadRight, KeyFrame
<1>5. /\ pressed \in BOOLEAN /\ good \in 0 .. 4 /\ pressCount \in 0 .. 3 /\ typing \in 1 .. L + 1 /\ data \in Seq(KeysOf)
      /\ gap \in 0 .. Release /\ releaseCount \in 0 .. Release /\ misread \in 0 .. Misreads
  BY DEF DtmfInv, DtmfTypeOK
<1>6. /\ Len(data) = Held /\ \A i \in 1 .. Held : data[i] = typed[1][i]
      /\ pressed <=> good = 4
      /\ pressed => releaseCount = 0
      /\ ~pressed /\ typing > 1 => releaseCount = gap
      /\ good \in 1 .. 3 => lastChar = c /\ pressCount = good - 1
      /\ good = 0 => (lastChar = "NONE" /\ pressCount = 0) \/ lastChar # c
  BY <1>3 DEF KeysHeld
<1>7. StillTyping'
  BY <1>3, <1>4 DEF StillTyping
<1>8. KeyCount(c) \in 0 .. 3
  BY <1>5 DEF KeyCount
<1>9. CASE pressed
  <2>1. pressed' /\ good' = 4 /\ good = 4 /\ data' = data /\ releaseCount' = releaseCount /\ Held' = Held
    <3>1. pressed = TRUE /\ good = 4
      BY <1>5, <1>6, <1>9
    <3>2. pressed' = TRUE
      BY <1>4, <3>1, ZenonT(60)
    <3> QED BY <1>4, <3>1, <3>2 DEF Held
  <2>2. DtmfTypeOK'
    BY <1>1, <1>4, <1>5, <1>8, <2>1 DEF DtmfTypeOK
  <2>3. KeysHeld'
    BY <1>4, <1>6, <1>7, <1>9, <2>1 DEF KeysHeld
  <2> QED BY <1>3, <1>4, <2>2, <2>3 DEF DtmfInv
<1>10. CASE ~pressed /\ good < 3
  <2>1. KeyCount(c) = good
    <3>1. CASE good = 0
      BY <1>2, <1>6, <3>1 DEF KeyCount
    <3>2. CASE good # 0
      <4>1. good \in 1 .. 2 /\ lastChar = c /\ pressCount = good - 1
        BY <1>5, <1>6, <1>10, <3>2
      <4> QED BY <4>1 DEF KeyCount
    <3> QED BY <3>1, <3>2
  <2>2. /\ ~pressed' /\ good' = good + 1 /\ data' = data /\ releaseCount' = releaseCount /\ Held' = Held
        /\ pressCount' = good' - 1 /\ good' \in 1 .. 3
    BY <1>4, <1>5, <1>10, <2>1 DEF Held
  <2>3. DtmfTypeOK'
    BY <1>1, <1>4, <1>5, <1>8, <2>2 DEF DtmfTypeOK
  <2>4. KeysHeld'
    BY <1>4, <1>6, <1>7, <1>10, <2>2 DEF KeysHeld
  <2> QED BY <1>3, <1>4, <2>3, <2>4 DEF DtmfInv
<1>11. CASE ~pressed /\ good = 3
  <2>1. KeyCount(c) = 3
    BY <1>6, <1>11 DEF KeyCount
  <2>2. pressed' /\ good' = 4 /\ data' = Append(data, c) /\ releaseCount' = 0 /\ Held' = typing /\ Held = typing - 1
    <3>1. pressed' = TRUE /\ pressed = FALSE
      BY <1>4, <1>5, <1>11, <2>1, ZenonT(60)
    <3> QED BY <1>4, <1>5, <1>11, <2>1, <3>1 DEF Held
  <2>3. /\ data' \in Seq(KeysOf) /\ Len(data') = Len(data) + 1
        /\ \A i \in 1 .. Len(data) : data'[i] = data[i]
        /\ data'[Len(data) + 1] = c
    BY <1>2, <1>5, <2>2, AppendProperties
  <2>4. Len(data') = Held' /\ \A i \in 1 .. Held' : data'[i] = typed[1][i]
    BY <1>2, <1>6, <2>2, <2>3
  <2>5. DtmfTypeOK'
    <3>1. 0 \in 0 .. Release
      BY DEF DtmfAssumption
    <3> QED BY <1>1, <1>4, <1>5, <1>8, <2>2, <2>3, <3>1 DEF DtmfTypeOK
  <2>6. KeysHeld'
    BY <1>4, <1>7, <2>2, <2>4, SMTT(60) DEF KeysHeld
  <2> QED BY <1>3, <1>4, <2>5, <2>6 DEF DtmfInv
<1>12. pressed \/ (~pressed /\ good < 3) \/ (~pressed /\ good = 3)
  BY <1>5, <1>6
<1> QED BY <1>9, <1>10, <1>11, <1>12

\* A frame that was misread begins the count anew, and cannot end one: so many are not misread.
LEMMA ReadWrongKept == ASSUME DtmfAssumption, DtmfInv, NEW c \in {"1", "A"}, ReadWrong(c) PROVE DtmfInv'
<1> DEFINE L == Len(typed[1])
<1>1. typed \in DtmfCommands /\ c # "NONE"
  BY DEF DtmfInv, DtmfTypeOK
<1>2. done = << >> /\ KeysHeld /\ StillTyping /\ c # typed[1][typing] /\ misread < Misreads
  BY DEF DtmfInv, AllDone, ReadWrong
<1>3. /\ UNCHANGED <<typed, typing, gap, done>> /\ lastChar' = c /\ pressCount' = KeyCount(c)
      /\ misread' = misread + 1 /\ good' = IF good < 4 THEN 0 ELSE 4
      /\ pressed' = (pressed \/ (~pressed /\ KeyCount(c) = 3))
      /\ data' = IF ~pressed /\ KeyCount(c) = 3 THEN Append(data, c) ELSE data
      /\ releaseCount' = IF ~pressed /\ KeyCount(c) = 3 THEN 0 ELSE releaseCount
  BY DEF ReadWrong, KeyFrame
<1>4. /\ pressed \in BOOLEAN /\ good \in 0 .. 4 /\ pressCount \in 0 .. 3 /\ typing \in 1 .. L + 1 /\ data \in Seq(KeysOf)
      /\ gap \in 0 .. Release /\ releaseCount \in 0 .. Release /\ misread \in 0 .. Misreads
  BY DEF DtmfInv, DtmfTypeOK
<1>5. /\ Len(data) = Held /\ \A i \in 1 .. Held : data[i] = typed[1][i]
      /\ pressed <=> good = 4
      /\ pressed => releaseCount = 0
      /\ ~pressed /\ typing > 1 => releaseCount = gap
      /\ good \in 1 .. 3 => lastChar = typed[1][typing] /\ pressCount = good - 1
      /\ good = 0 => (lastChar = "NONE" /\ pressCount = 0) \/ pressCount + 1 <= misread
  BY <1>2 DEF KeysHeld
<1>6. StillTyping'
  BY <1>2, <1>3 DEF StillTyping
<1>7. misread + 1 \in 0 .. Misreads /\ misread + 1 <= 3 /\ misread >= 0
  BY <1>2, <1>4 DEF DtmfAssumption
<1>8. KeyCount(c) \in 0 .. 3
  BY <1>4 DEF KeyCount
<1>9. CASE pressed
  <2>1. pressed' /\ good' = 4 /\ data' = data /\ releaseCount' = releaseCount /\ Held' = Held
    <3>1. pressed = TRUE /\ good = 4
      BY <1>4, <1>5, <1>9
    <3>2. pressed' = TRUE
      BY <1>3, <3>1, ZenonT(60)
    <3> QED BY <1>3, <3>1, <3>2 DEF Held
  <2>2. DtmfTypeOK'
    BY <1>1, <1>3, <1>4, <1>7, <1>8, <2>1 DEF DtmfTypeOK
  <2>3. KeysHeld'
    BY <1>3, <1>5, <1>6, <1>9, <2>1 DEF KeysHeld
  <2> QED BY <1>2, <1>3, <2>2, <2>3 DEF DtmfInv
<1>10. CASE ~pressed
  <2>1. KeyCount(c) + 1 <= misread + 1
    <3>1. CASE c # lastChar
      BY <1>7, <1>4, <3>1 DEF KeyCount
    <3>2. CASE c = lastChar
      <4>1. good = 0 /\ pressCount + 1 <= misread
        BY <1>1, <1>2, <1>4, <1>5, <1>10, <3>2, SMTT(60)
      <4> QED BY <1>4, <3>2, <4>1 DEF KeyCount
    <3> QED BY <3>1, <3>2
  <2>2. KeyCount(c) # 3
    BY <1>7, <1>8, <2>1
  <2>3. ~pressed' /\ good' = 0 /\ data' = data /\ releaseCount' = releaseCount /\ Held' = Held
    BY <1>3, <1>4, <1>5, <1>10, <2>2 DEF Held
  <2>4. DtmfTypeOK'
    BY <1>1, <1>3, <1>4, <1>7, <1>8, <2>3 DEF DtmfTypeOK
  <2>5. KeysHeld'
    BY <1>2, <1>3, <1>5, <1>6, <1>10, <2>1, <2>3 DEF KeysHeld
  <2> QED BY <1>2, <1>3, <2>4, <2>5 DEF DtmfInv
<1> QED BY <1>9, <1>10

\* A key that is released was noted, and no pause is so long yet that the command is over.
LEMMA ReleasedKept == ASSUME DtmfAssumption, DtmfInv, Released PROVE DtmfInv'
<1> DEFINE L == Len(typed[1])
<1>1. typed \in DtmfCommands /\ Release \in Nat /\ Release > 0
  BY DEF DtmfInv, DtmfTypeOK, DtmfAssumption
<1>2. L \in Nat
  BY <1>1, CommandKnown
<1>3. done = << >> /\ KeysHeld /\ typing <= L /\ good = 4
  BY DEF DtmfInv, AllDone, Released, StillTyping
<1>4. /\ typing \in 1 .. L + 1 /\ data \in Seq(KeysOf) /\ gap \in 0 .. Release /\ misread \in 0 .. Misreads
  BY DEF DtmfInv, DtmfTypeOK
<1>5. pressed /\ releaseCount = 0 /\ Len(data) = typing /\ \A i \in 1 .. typing : data[i] = typed[1][i]
  BY <1>3 DEF KeysHeld, Held
<1>6. /\ UNCHANGED <<typed, misread>> /\ data' = data /\ done' = done /\ releaseCount' = 1 /\ ~pressed'
      /\ pressed' \in BOOLEAN /\ pressCount' = 0 /\ lastChar' = "NONE" /\ typing' = typing + 1 /\ good' = 0 /\ gap' = 1
  <2>1. releaseCount # Release /\ releaseCount < Release /\ releaseCount + 1 = 1
    BY <1>1, <1>5
  <2>2. /\ UNCHANGED <<typed, misread>> /\ pressed' = FALSE /\ pressCount' = 0 /\ lastChar' = "NONE"
        /\ typing' = typing + 1 /\ good' = 0 /\ gap' = 1
    BY DEF Released, OtherFrame
  <2>3. data' = data /\ done' = done /\ releaseCount' = releaseCount + 1
    BY <2>1 DEF Released, OtherFrame
  <2> QED BY <2>1, <2>2, <2>3, ZenonT(60)
<1>7. Held' = typing
  BY <1>4, <1>6 DEF Held
<1>8. DtmfTypeOK'
  <2>1. typing + 1 \in 1 .. L + 1 /\ 1 \in 0 .. Release
    BY <1>1, <1>2, <1>3, <1>4
  <2> QED BY <1>1, <1>4, <1>6, <2>1 DEF DtmfTypeOK
<1>9. KeysHeld'
  BY <1>5, <1>6, <1>7 DEF KeysHeld
<1> QED BY <1>3, <1>6, <1>8, <1>9 DEF DtmfInv

\* CDTMF counts the frames of a pause as they are.
LEMMA PauseKept == ASSUME DtmfAssumption, DtmfInv, Pause PROVE DtmfInv'
<1> DEFINE L == Len(typed[1])
<1>1. typed \in DtmfCommands /\ Release \in Nat /\ Release > 0
  BY DEF DtmfInv, DtmfTypeOK, DtmfAssumption
<1>2. /\ typing \in 1 .. L + 1 /\ data \in Seq(KeysOf) /\ gap \in 0 .. Release /\ misread \in 0 .. Misreads
      /\ releaseCount \in 0 .. Release
  BY DEF DtmfInv, DtmfTypeOK
<1>3. good = 0 /\ typing > 1 /\ gap < Release /\ lastChar = "NONE"
  BY DEF Pause
<1>4. /\ UNCHANGED <<typed, typing, good, misread>> /\ gap' = gap + 1 /\ pressed' = FALSE /\ pressCount' = 0 /\ lastChar' = "NONE"
      /\ releaseCount' = IF releaseCount = Release /\ data # << >> THEN 1
                         ELSE IF releaseCount < Release THEN releaseCount + 1 ELSE Release
      /\ data' = IF releaseCount = Release /\ data # << >> THEN << >> ELSE data
      /\ done' = IF releaseCount = Release /\ data # << >> THEN translate(data) ELSE done
  BY DEF Pause, OtherFrame
<1>5. gap + 1 \in 0 .. Release
  BY <1>1, <1>2, <1>3
<1>6. CASE done = << >>
  <2>1. ~pressed /\ releaseCount = gap /\ Len(data) = Held /\ \A i \in 1 .. Held : data[i] = typed[1][i]
    BY <1>3, <1>6 DEF DtmfInv, KeysHeld
  <2>2. releaseCount' = gap' /\ data' = data /\ done' = done
    BY <1>1, <1>2, <1>3, <1>4, <2>1
  <2>3. Held' = Held
    BY <1>4, <2>1 DEF Held
  <2>4. DtmfTypeOK'
    <3>1. typed' \in DtmfCommands /\ typing' \in 1 .. Len(typed'[1]) + 1 /\ data' \in Seq(KeysOf)
      BY <1>1, <1>2, <1>4, <2>2
    <3>3. pressed' \in BOOLEAN /\ pressCount' = 0 /\ good' = 0
      BY <1>3, <1>4, ZenonT(60)
    <3>2. gap' \in 0 .. Release /\ releaseCount' \in 0 .. Release /\ misread' \in 0 .. Misreads
      BY <1>2, <1>4, <1>5, <2>2
    <3> QED BY <3>1, <3>2, <3>3 DEF DtmfTypeOK
  <2>5. KeysHeld'
    BY <1>3, <1>4, <2>1, <2>2, <2>3 DEF KeysHeld
  <2> QED BY <1>6, <2>2, <2>4, <2>5 DEF DtmfInv
<1>7. CASE done # << >>
  <2>1. AllDone
    BY <1>7 DEF DtmfInv
  <2>2. data = << >> /\ done' = done /\ data' = data /\ releaseCount' \in 0 .. Release
    BY <1>1, <1>2, <1>4, <2>1 DEF AllDone
  <2>3. DtmfTypeOK'
    <3>1. typed' \in DtmfCommands /\ typing' \in 1 .. Len(typed'[1]) + 1 /\ data' \in Seq(KeysOf)
      BY <1>1, <1>2, <1>4, <2>2
    <3>3. pressed' \in BOOLEAN /\ pressCount' = 0 /\ good' = 0
      BY <1>3, <1>4
    <3>2. gap' \in 0 .. Release /\ releaseCount' \in 0 .. Release /\ misread' \in 0 .. Misreads
      BY <1>2, <1>4, <1>5, <2>2
    <3> QED BY <3>1, <3>2, <3>3 DEF DtmfTypeOK
  <2>4. AllDone'
    BY <1>4, <2>1, <2>2 DEF AllDone, StillTyping
  <2> QED BY <1>7, <2>2, <2>3, <2>4 DEF DtmfInv
<1> QED BY <1>6, <1>7

\* What is translated is the whole command.
LEMMA TypedAllKept == ASSUME DtmfAssumption, DtmfInv, TypedAll PROVE DtmfInv'
<1> DEFINE L == Len(typed[1])
<1>1. typed \in DtmfCommands /\ Release \in Nat /\ Release > 0
  BY DEF DtmfInv, DtmfTypeOK, DtmfAssumption
<1>2. typed[1] \in Seq(KeysOf) /\ translate(typed[1]) = typed[2] /\ typed[2] # << >>
  BY <1>1, CommandKnown
<1>3. L \in Nat /\ L > 0
  BY <1>1, CommandKnown
<1>4. /\ typing \in 1 .. L + 1 /\ gap \in 0 .. Release /\ misread \in 0 .. Misreads /\ good \in 0 .. 4
  BY DEF DtmfInv, DtmfTypeOK
<1>5. data \in Seq(KeysOf)
  BY DEF DtmfInv, DtmfTypeOK
<1>6. done = << >> /\ KeysHeld /\ ~StillTyping
  BY DEF DtmfInv, TypedAll
<1>7. typing = L + 1 /\ typing > 1
  BY <1>3, <1>4, <1>6 DEF StillTyping
<1>8. ~pressed /\ good = 0 /\ releaseCount = gap
  BY <1>4, <1>6, <1>7 DEF KeysHeld
<1>9. Held = L
  BY <1>3, <1>7, <1>8 DEF Held
<1>10. Len(data) = L /\ \A i \in 1 .. L : data[i] = typed[1][i]
  BY <1>6, <1>9 DEF KeysHeld
<1>11. data = typed[1]
  BY <1>2, <1>5, <1>10, SeqEqual, SMTT(60)
<1>12. data # << >>
  <2>1. Len(<< >>) = 0
    OBVIOUS
  <2> QED BY <1>3, <1>10, <2>1
<1>13. /\ UNCHANGED <<typed, typing, good, gap, misread>> /\ data' = << >> /\ done' = translate(data) /\ releaseCount' = 1
       /\ pressed' = FALSE /\ pressCount' = 0 /\ lastChar' = "NONE"
  BY <1>8, <1>12 DEF TypedAll, OtherFrame
<1>14. DtmfTypeOK'
  <2>1. << >> \in Seq(KeysOf) /\ 1 \in 0 .. Release
    BY <1>1
  <2>2. typed' \in DtmfCommands /\ typing' \in 1 .. Len(typed'[1]) + 1 /\ misread' \in 0 .. Misreads /\ gap' \in 0 .. Release
    BY <1>1, <1>4, <1>13
  <2>3. pressed' \in BOOLEAN /\ pressCount' = 0 /\ good' = 0 /\ data' = << >> /\ releaseCount' = 1
    BY <1>8, <1>13, ZenonT(60)
  <2> QED BY <2>1, <2>2, <2>3 DEF DtmfTypeOK
<1>15. AllDone'
  BY <1>2, <1>6, <1>8, <1>11, <1>13 DEF AllDone, StillTyping
<1>16. done' # << >>
  BY <1>2, <1>11, <1>13
<1> QED BY <1>14, <1>15, <1>16 DEF DtmfInv

\* Nothing of a command is left when the next begins.
LEMMA NextCommandKept == ASSUME DtmfAssumption, DtmfInv, NextCommand PROVE DtmfInv'
<1>1. PICK t \in DtmfCommands : typed' = t
  BY DEF NextCommand
<1>2. Len(t[1]) \in Nat /\ Len(t[1]) > 0
  BY CommandKnown
<1>3. AllDone
  BY DEF DtmfInv, NextCommand
<1>4. /\ done' = << >> /\ typing' = 1 /\ gap' = 0 /\ misread' = 0 /\ releaseCount' \in {releaseCount, 0}
      /\ UNCHANGED <<data, pressed, pressCount, lastChar, good>>
  BY DEF NextCommand
<1>5. data' = << >> /\ ~pressed' /\ good' = 0 /\ pressCount' = 0 /\ lastChar' = "NONE" /\ pressed' \in BOOLEAN
  BY <1>3, <1>4 DEF AllDone, DtmfInv, DtmfTypeOK
<1>6. DtmfTypeOK'
  <2>1. << >> \in Seq(KeysOf)
    OBVIOUS
  <2>2. releaseCount' \in 0 .. Release /\ 0 \in 0 .. Release /\ 0 \in 0 .. Misreads
    BY <1>4 DEF DtmfInv, DtmfTypeOK, DtmfAssumption
  <2>3. 1 \in 1 .. Len(t[1]) + 1
    BY <1>2
  <2> QED BY <1>1, <1>4, <1>5, <2>1, <2>2, <2>3 DEF DtmfTypeOK
<1>7. Held' = 0
  BY <1>4, <1>5 DEF Held
<1>8. Len(data') = 0
  BY <1>5
<1>9. KeysHeld'
  BY <1>4, <1>5, <1>7, <1>8 DEF KeysHeld
<1> QED BY <1>4, <1>6, <1>9 DEF DtmfInv

\* So the invariant is kept.
LEMMA DtmfInvKept == ASSUME DtmfAssumption, DtmfInv, [DtmfNext]_dtmfVars PROVE DtmfInv'
<1>1. CASE DtmfNext
  BY <1>1, ReadRightKept, ReleasedKept, PauseKept, TypedAllKept, NextCommandKept, ReadWrongKept DEF DtmfNext
<1>2. CASE UNCHANGED dtmfVars
  BY <1>2 DEF dtmfVars, DtmfInv, DtmfTypeOK, KeysHeld, AllDone, Held, StillTyping
<1> QED BY <1>1, <1>2

\* It holds of a CDTMF that has heard nothing.
LEMMA DtmfInvStarts == ASSUME DtmfAssumption, DtmfInit PROVE DtmfInv
<1>1. typed \in DtmfCommands /\ Len(typed[1]) \in Nat /\ Len(typed[1]) > 0
  BY CommandKnown DEF DtmfInit
<1>2. DtmfTypeOK
  <2>1. << >> \in Seq(KeysOf)
    OBVIOUS
  <2>2. 0 \in 0 .. Release /\ 0 \in 0 .. Misreads /\ 1 \in 1 .. Len(typed[1]) + 1
    BY <1>1 DEF DtmfAssumption
  <2>3. /\ data = << >> /\ pressed \in BOOLEAN /\ good = 0 /\ pressCount = 0 /\ gap = 0 /\ releaseCount = 0 /\ misread = 0
        /\ typing = 1
    BY ZenonT(60) DEF DtmfInit
  <2>4. good \in 0 .. 4 /\ pressCount \in 0 .. 3
    BY <2>3
  <2> QED BY <1>1, <2>1, <2>2, <2>3, <2>4 DEF DtmfTypeOK
<1>3. KeysHeld
  BY DEF DtmfInit, KeysHeld, Held
<1> QED BY <1>2, <1>3 DEF DtmfInv, DtmfInit

\* For every reflector, module and length of a pause, however long the keys and the
\* pauses are and with up to three frames of a command misread: what CDTMF makes of the
\* keys is what the user means by them.
THEOREM KeysMeant == DtmfSpec => []MeantIsDone
<1>1. DtmfInit => DtmfInv
  BY DtmfAssumption, DtmfInvStarts
<1>2. DtmfInv /\ [DtmfNext]_dtmfVars => DtmfInv'
  BY DtmfAssumption, DtmfInvKept
<1>3. DtmfInv => MeantIsDone
  BY DEF DtmfInv, AllDone, MeantIsDone
<1> QED BY <1>1, <1>2, <1>3, PTL DEF DtmfSpec
=============================================================================
