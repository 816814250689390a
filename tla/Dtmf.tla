---------------------------------- MODULE Dtmf ----------------------------------
(***************************************************************************)
(* Commands by keys: CDTMF is shown every frame of voice of a              *)
(* transmission, finds the keys that were pressed in them, and makes of    *)
(* them what the user would otherwise write as YOUR call.  The user holds  *)
(* each key for four frames or more; some frames may be read as another    *)
(* key, fewer in all than it takes for a key.                              *)
(***************************************************************************)
EXTENDS Integers, Sequences, SequencesExt

CONSTANTS Release,         \* 100, the frames without a key after which a command is done
          Reflectors,      \* numbers of reflectors and of their modules that users link to,
          ModuleLetters,   \* from 1 on
          Misreads         \* bound: frames that are misread, fewer than 4

ASSUME DtmfAssumption ==
  /\ Release \in Nat \ {0} /\ Misreads \in 0 .. 3
  /\ Reflectors \subseteq 1 .. 999 /\ ModuleLetters \subseteq 1 .. 26

VARIABLES
  data, pressed, releaseCount, pressCount, lastChar,   \* CDTMF
  done,       \* what the last command was translated to, or none yet
  typed,      \* the keys of the command, and what they mean
  typing,     \* the key that is typed, or the one after which nothing is pressed
  good,       \* frames of it that were read in a row, up to four
  gap,        \* frames since a key
  misread     \* frames that were misread

dtmfVars == <<data, pressed, releaseCount, pressCount, lastChar, done, typed, typing, good, gap, misread>>

DigitKeys == <<"0", "1", "2", "3", "4", "5", "6", "7", "8", "9">>
BandKeys == <<"A", "B", "C", "D">>
KeysOf == ToSet(DigitKeys) \cup ToSet(BandKeys) \cup {"*", "#"}
IndexIn(c, list) == CHOOSE i \in DOMAIN list : list[i] = c

NoMeaning == <<"NOTHING">>
Undefined == <<"UNDEFINED">>

-----------------------------------------------------------------------------
(* translate                                                               *)

\* ToULong: the digits that the text begins with.
ToULong(keys) ==
  LET number[i \in 0 .. Len(keys)] ==
        IF i = 0 THEN 0
        ELSE IF \A j \in 1 .. i : keys[j] \in ToSet(DigitKeys)
        THEN 10 * number[i - 1] + IndexIn(keys[i], DigitKeys) - 1
        ELSE number[i - 1]
  IN  number[Len(keys)]

Family == [c \in {"*", "B", "D", "A"} |-> CASE c = "*" -> "REF" [] c = "B" -> "XRF" [] c = "D" -> "DCS" [] OTHER -> "XLX"]

LinkTo(family, n, module) == IF n = 0 \/ module \notin 1 .. 26 THEN NoMeaning ELSE <<"LINK", family, n, module>>

\* A key that names a family, without a reflector, makes it look before its text.
processReflector(family, keys) ==
  LET len == Len(keys)
  IN  IF len = 0 THEN Undefined
      ELSE IF Last(keys) \in ToSet(BandKeys)
      THEN IF len \in 2 .. 4 THEN LinkTo(family, ToULong(Front(keys)), IndexIn(Last(keys), BandKeys)) ELSE NoMeaning
      ELSE IF len \in 3 .. 5
      THEN LinkTo(family, ToULong(SubSeq(keys, 1, len - 2)), ToULong(SubSeq(keys, len - 1, len)))
      ELSE NoMeaning

\* Three or four digits, or six or seven, and a band after some of them.
processCCS(keys) ==
  LET len == Len(keys)
      band == len \in {4, 5, 7, 8} /\ Last(keys) \in ToSet(BandKeys)
      n == ToULong(IF band THEN Front(keys) ELSE keys)
  IN  IF n = 0 \/ (~ band /\ len \notin {3, 4, 6, 7}) THEN NoMeaning
      ELSE <<"CCS", n, IF band THEN len - 1 ELSE len, IF band THEN Last(keys) ELSE "NONE">>

translate(keys) ==
  CASE keys = <<"#">> -> <<"UNLINK">>
    [] keys \in {<<"0">>, <<"0", "0">>} -> <<"INFO">>
    [] keys = <<"A">> -> <<"CCS_END">>
    [] keys = <<"*", "*">> -> <<"LINK_BACK">>
    [] OTHER -> IF keys[1] \in DOMAIN Family THEN processReflector(Family[keys[1]], Tail(keys)) ELSE processCCS(keys)

-----------------------------------------------------------------------------
(* decode                                                                  *)

\* Mutant: a key goes on after frames of another.
KeyCountGoesOn(c) == IF pressCount < 3 THEN pressCount + 1 ELSE 3
KeyCount(c) == IF c # lastChar THEN 0 ELSE IF pressCount < 3 THEN pressCount + 1 ELSE 3

KeyFrame(c) ==
  LET taken == ~ pressed /\ KeyCount(c) = 3
  IN  /\ lastChar' = c /\ pressCount' = KeyCount(c)
      /\ pressed' = (pressed \/ taken)
      /\ data' = IF taken THEN Append(data, c) ELSE data
      /\ releaseCount' = IF taken THEN 0 ELSE releaseCount
      /\ UNCHANGED done

\* The end of a transmission, and of a pause, ends a command.
OtherFrame(end) ==
  LET over == (end \/ releaseCount = Release) /\ data # <<>>
  IN  /\ data' = IF over THEN <<>> ELSE data
      /\ done' = IF over THEN translate(data) ELSE done
      /\ releaseCount' = IF over THEN 1 ELSE IF releaseCount < Release THEN releaseCount + 1 ELSE Release
      /\ pressed' = FALSE /\ pressCount' = 0 /\ lastChar' = "NONE"

-----------------------------------------------------------------------------
(* What users type, and mean.                                              *)

Digit(n) == DigitKeys[n + 1]
Decimal(n) == IF n < 10 THEN <<Digit(n)>> ELSE IF n < 100 THEN <<Digit(n \div 10), Digit(n % 10)>>
              ELSE <<Digit(n \div 100), Digit((n \div 10) % 10), Digit(n % 10)>>
Hundreds(n) == <<Digit(n \div 100), Digit((n \div 10) % 10), Digit(n % 10)>>
ModuleKeys(m) == {<<Digit(m \div 10), Digit(m % 10)>>} \cup {<<BandKeys[b]>> : b \in {m} \cap DOMAIN BandKeys}

Links == UNION {{<<<<c>> \o number \o module, <<"LINK", Family[c], n, m>>>> :
                   number \in {Decimal(n), Hundreds(n)}, module \in ModuleKeys(m)} :
                  c \in DOMAIN Family, n \in Reflectors, m \in ModuleLetters}
Calls == UNION {{<<Hundreds(n), <<"CCS", n, 3, "NONE">>>>, <<Append(Hundreds(n), "B"), <<"CCS", n, 3, "B">>>>,
                 <<Hundreds(n) \o <<"0">>, <<"CCS", 10 * n, 4, "NONE">>>>,
                 <<Hundreds(n) \o Hundreds(n) \o <<"0", "D">>, <<"CCS", 10010 * n, 7, "D">>>>} : n \in Reflectors}
Others == {<<<<"#">>, <<"UNLINK">>>>, <<<<"0">>, <<"INFO">>>>, <<<<"A">>, <<"CCS_END">>>>, <<<<"*", "*">>, <<"LINK_BACK">>>>,
           <<<<"*", "0", "A">>, NoMeaning>>, <<<<"B", "1", "2", "7">>, NoMeaning>>, <<<<"5">>, NoMeaning>>}
DtmfCommands == Links \cup Calls \cup Others

-----------------------------------------------------------------------------
StillTyping == typing <= Len(typed[1])

ReadRight ==
  /\ StillTyping
  /\ KeyFrame(typed[1][typing])
  /\ good' = IF good < 4 THEN good + 1 ELSE 4
  /\ UNCHANGED <<typed, typing, gap, misread>>

ReadWrong(c) ==
  /\ StillTyping /\ c # typed[1][typing] /\ misread < Misreads
  /\ KeyFrame(c)
  /\ misread' = misread + 1 /\ good' = IF good < 4 THEN 0 ELSE 4
  /\ UNCHANGED <<typed, typing, gap>>

\* The key is released, for a frame or some more.
Released ==
  /\ StillTyping /\ good = 4
  /\ OtherFrame(FALSE)
  /\ typing' = typing + 1 /\ good' = 0 /\ gap' = 1
  /\ UNCHANGED <<typed, misread>>

\* No pause within a command is long enough to end it.
Pause ==
  /\ good = 0 /\ typing > 1 /\ gap < Release /\ lastChar = "NONE"
  /\ OtherFrame(FALSE)
  /\ gap' = gap + 1
  /\ UNCHANGED <<typed, typing, good, misread>>

\* After the last key there is a long pause, or the transmission ends.
TypedAll ==
  /\ ~ StillTyping /\ done = <<>>
  /\ \/ OtherFrame(TRUE)
     \/ gap = Release /\ OtherFrame(FALSE)
  /\ UNCHANGED <<typed, typing, good, gap, misread>>

\* The next command, in the same transmission or, after a reset(), in another.
NextCommand ==
  /\ done # <<>>
  /\ done' = <<>>
  /\ \E t \in DtmfCommands : typed' = t
  /\ typing' = 1 /\ gap' = 0 /\ misread' = 0
  /\ releaseCount' \in {releaseCount, 0}
  /\ UNCHANGED <<data, pressed, pressCount, lastChar, good>>

DtmfInit ==
  /\ data = <<>> /\ pressed = FALSE /\ releaseCount = 0 /\ pressCount = 0 /\ lastChar = "NONE"
  /\ done = <<>> /\ typed \in DtmfCommands /\ typing = 1 /\ good = 0 /\ gap = 0 /\ misread = 0

DtmfNext ==
  \/ ReadRight \/ Released \/ Pause \/ TypedAll \/ NextCommand
  \/ \E c \in {"1", "A"} : ReadWrong(c)

-----------------------------------------------------------------------------
\* What is done is what the user means, however long the keys and the pauses are and
\* with some frames misread, for every form of a command.
MeantIsDone == done \in {<<>>, typed[2]}
=============================================================================
