-------------------------------- MODULE TimeServer -------------------------------
(***************************************************************************)
(* CTimeServerThread: at the quarters, halves or full hours the time is    *)
(* put into the words of one of twelve languages and sent, as a stream of  *)
(* voice and text or of text alone, to some modules of a gateway.          *)
(*                                                                         *)
(* An announcement keeps the hour it names, as a number, the phrase for    *)
(* the minutes, and the part of the day it names, if it does.  The minutes *)
(* that lie between two quarters are one minute.                           *)
(***************************************************************************)
EXTENDS Naturals

VARIABLES language, format, interval,
          now,         \* minute of the day, local time
          lastMin,
          told,        \* what send() is sending, and since when
          killed

timeVars == <<language, format, interval, now, lastMin, told, killed>>

Languages == {"ENGLISH_UK_1", "ENGLISH_UK_2", "ENGLISH_US_1", "ENGLISH_US_2", "DEUTSCH_1",
              "DEUTSCH_2", "FRANCAIS", "NEDERLANDS", "SVENSKA", "ESPANOL", "NORSK", "PORTUGUES"}
Intervals == {15, 30, 60}
Formats == {"VOICE_TIME", "TEXT_TIME"}   \* FORMAT_VOICE_ALL is no different

Next24(hour) == (hour + 1) % 24
Clock12(hour) == IF hour % 12 = 0 THEN 12 ELSE hour % 12
Clock12From0(hour) == IF hour = 0 THEN 0 ELSE Clock12(hour)

Words(hour, minutes, part) == [hour |-> hour, minutes |-> minutes, part |-> part]

\* The words for a quarter of an hour, the same in both ways to say it.
Quarters(min, past, half, to) ==
  CASE min = 15 -> past [] min = 30 -> half [] min = 45 -> to [] OTHER -> "none"

Digits(min) == Quarters(min, "fifteen", "thirty", "forty-five")

AmPm(hour) == IF hour >= 12 THEN "PM" ELSE "AM"

sendTimeEnGB1(hour, min) == Words(Clock12(hour), Digits(min), AmPm(hour))

\* The hour that a quarter to it, or half of it, names.
Named(hour, ahead) == IF ahead THEN Next24(hour) ELSE hour

sendTimeEnGB2(hour, min) ==
  LET h == Named(hour, min = 45)
  IN Words(Clock12(h), Quarters(min, "past", "half-past", "to"),
           CASE h = 0 /\ min = 0 -> "midnight" [] h = 12 /\ min = 0 -> "noon" [] OTHER -> "none")

sendTimeEnUS1(hour, min) == Words(Clock12(hour), Digits(min), AmPm(hour))

sendTimeEnUS2(hour, min) ==
  LET h == Named(hour, min = 45)
  IN Words(Clock12(h), Quarters(min, "past", "half-past", "to"),
           CASE h = 0 /\ min = 0 -> "midnight" [] h = 12 /\ min = 0 -> "noon" [] OTHER -> "none")

sendTimeDeDE1(hour, min) == Words(hour, Digits(min), "none")

\* Mutant: the half is of the hour that has begun.
HalfOfThisHour(hour, min) ==
  Words(Clock12From0(Named(hour, min = 45)), Quarters(min, "past", "half-to", "to"), "none")

sendTimeDeDE2(hour, min) ==
  Words(Clock12From0(Named(hour, min \in {30, 45})), Quarters(min, "past", "half-to", "to"), "none")

sendTimeFrFR(hour, min) ==
  LET h == Named(hour, min = 45)
  IN Words(Clock12(h), Quarters(min, "past", "half-past", "to"),
           CASE h = 0 -> "midnight" [] h = 12 -> "noon" [] OTHER -> "none")

sendTimeNlNL(hour, min) ==
  Words(Clock12(Named(hour, min \in {30, 45})), Quarters(min, "past", "half-to", "to"), "none")

sendTimeSeSE(hour, min) ==
  Words(Clock12(Named(hour, min \in {30, 45})), Quarters(min, "past", "half-to", "to"), "none")

sendTimeEsES(hour, min) ==
  LET h == Named(hour, min = 45)
  IN Words(Clock12(h), Quarters(min, "past", "half-past", "to"),
           CASE h = 0 -> "midnight" [] h = 12 -> "noon" [] h \in 1 .. 11 -> "morning"
             [] h \in 13 .. 18 -> "afternoon" [] OTHER -> "evening")

sendTimeNoNO(hour, min) ==
  Words(Clock12(Named(hour, min \in {30, 45})), Quarters(min, "past", "half-to", "to"), "none")

sendTimePtPT(hour, min) ==
  LET h == Named(hour, min = 45)
  IN Words(Clock12(h), Quarters(min, "past", "half-past", "to"),
           CASE h = 0 -> "midnight" [] h = 12 -> "noon" [] h \in 1 .. 11 -> "morning"
             [] h \in 13 .. 19 -> "afternoon" [] OTHER -> "evening")

Spoken(hour, min) ==
  CASE language = "ENGLISH_UK_1" -> sendTimeEnGB1(hour, min)
    [] language = "ENGLISH_UK_2" -> sendTimeEnGB2(hour, min)
    [] language = "ENGLISH_US_1" -> sendTimeEnUS1(hour, min)
    [] language = "ENGLISH_US_2" -> sendTimeEnUS2(hour, min)
    [] language = "DEUTSCH_1" -> sendTimeDeDE1(hour, min)
    [] language = "DEUTSCH_2" -> sendTimeDeDE2(hour, min)
    [] language = "FRANCAIS" -> sendTimeFrFR(hour, min)
    [] language = "NEDERLANDS" -> sendTimeNlNL(hour, min)
    [] language = "SVENSKA" -> sendTimeSeSE(hour, min)
    [] language = "ESPANOL" -> sendTimeEsES(hour, min)
    [] language = "NORSK" -> sendTimeNoNO(hour, min)
    [] language = "PORTUGUES" -> sendTimePtPT(hour, min)

\* The text in the slow data of the same stream: twelve hours for the first
\* kind of English, 24 for the others.
Text(hour, min) ==
  IF language \in {"ENGLISH_UK_1", "ENGLISH_US_1"}
  THEN [hour |-> Clock12(hour), min |-> min, part |-> AmPm(hour)]
  ELSE [hour |-> hour, min |-> min, part |-> "none"]

TimeUnspoken == Words(0, "none", "none")
NotTold == [at |-> 1, spoken |-> TimeUnspoken, text |-> [hour |-> 0, min |-> 0, part |-> "none"]]

-----------------------------------------------------------------------------

TimeInit ==
  /\ language \in Languages /\ format \in Formats /\ interval \in Intervals
  /\ now \in {0, 7} /\ lastMin = 0 /\ told = NotTold /\ killed = FALSE

Minute == now % 60

\* loadAMBE fails before the loop begins.
NoVoice ==
  /\ format = "VOICE_TIME" /\ told = NotTold /\ lastMin = 0 /\ format' = "TEXT_TIME"
  /\ UNCHANGED <<language, interval, now, lastMin, told, killed>>

\* From a quarter to a minute after it, and to the next quarter.  The loop
\* looks twice a second and an announcement is shorter than a minute.
Tick ==
  /\ lastMin = Minute
  /\ now' = (now + IF now % 15 = 0 THEN 7 ELSE 8) % 1440
  /\ UNCHANGED <<language, format, interval, lastMin, told, killed>>

Due == Minute # lastMin /\ Minute % interval = 0

\* sendTime and send: headers to the modules, and the first frames.
StartSending ==
  told' = [at |-> now,
           spoken |-> IF format = "VOICE_TIME" THEN Spoken(now \div 60, Minute) ELSE TimeUnspoken,
           text |-> Text(now \div 60, Minute)]

\* A turn of the loop in run().
Look ==
  /\ ~killed /\ told = NotTold /\ lastMin' = Minute /\ lastMin # Minute
  /\ IF Due THEN StartSending ELSE UNCHANGED told
  /\ UNCHANGED <<language, format, interval, now, killed>>

\* The last frame, which ends the stream at each module.
SendEnd ==
  /\ told # NotTold /\ told' = NotTold
  /\ UNCHANGED <<language, format, interval, now, lastMin, killed>>

kill ==
  /\ ~killed /\ killed' = TRUE
  /\ UNCHANGED <<language, format, interval, now, lastMin, told>>

TimeNext == NoVoice \/ Tick \/ Look \/ SendEnd \/ kill

-----------------------------------------------------------------------------
(* What a listener makes of an announcement: the minutes of the day it may *)
(* mean.                                                                   *)

MinutesMeant(m) ==
  CASE m \in {"past", "fifteen"} -> 15 [] m \in {"half-past", "thirty"} -> 30
    [] m \in {"to", "forty-five"} -> 45 [] m = "half-to" -> 30 [] OTHER -> 0

PartMeant(part) ==
  CASE part = "AM" -> 0 .. 11 [] part = "PM" -> 12 .. 23 [] part = "midnight" -> {0}
    [] part = "noon" -> {12} [] part = "morning" -> 1 .. 11 [] part = "afternoon" -> 13 .. 19
    [] part = "evening" -> 19 .. 23 [] OTHER -> 0 .. 23

\* The hours of the day that are called so.
HoursMeant(w) ==
  {h \in PartMeant(w.part) : h = w.hour \/ (w.hour <= 12 /\ h % 12 = w.hour % 12)}

Meant(w) ==
  {(60 * h + MinutesMeant(w.minutes) + (IF w.minutes \in {"to", "half-to"} THEN 1380 ELSE 0)) % 1440 :
     h \in HoursMeant(w)}

\* In every language, at every due time and over midnight and noon, the words
\* name the time of the announcement, and the text the same.
TimeIsTold ==
  told # NotTold =>
    /\ format = "VOICE_TIME" => told.at \in Meant(told.spoken)
    /\ told.text.min = told.at % 60 /\ told.at \div 60 \in HoursMeant(told.text)
=============================================================================
