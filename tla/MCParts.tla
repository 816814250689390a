-------------------------------- MODULE MCParts --------------------------------
(***************************************************************************)
(* The parts that have no state in common, side by side: each behaviour is *)
(* one of one part, which the first state chooses, and the others stay in  *)
(* one state of theirs, where no action is enabled that its fairness needs.*)
(***************************************************************************)
EXTENDS IrcDatabase, IrcQueries, Packets, IcomLink, LinkStreams, G2Path, TimeServer, RemoteControl, Configuration,
        SlowData, Units, Dtmf

CONSTANT Parts    \* the parts that move

VARIABLE part

vars == <<part, dbVars, queryVars, packetVars, icomVars, streamVars, g2Vars, timeVars, remoteVars, confVars, slowVars, unitVars,
          dtmfVars>>

MCInit ==
  /\ part \in Parts
  /\ DbInit /\ QInit /\ G2Init
  /\ PacketsInit /\ (part # "PACKETS" => ~ origin.end /\ origin.flags = 0 /\ origin.seq = 0 /\ header.id = <<1, 1>>)
  /\ IcomInit /\ (part # "ICOM" => ~ over1)
  /\ StreamInit /\ (part # "STREAMS" => kind = <<"DCS", "OUT">> /\ destination = CHOOSE h \in Homes : TRUE)
  /\ TimeInit
  /\ part # "TIME" => language = "ENGLISH_UK_1" /\ format = "VOICE_TIME" /\ interval = 15 /\ now = 0
  /\ RemoteInit /\ (part # "REMOTE" => \A c \in Controls : kindOf[c] = "DAEMON")
  /\ ConfInit
  /\ part # "CONFIGURATION" => row = <<"Flag", "delay", 0>> /\ platform = "FILE" /\ row \notin DOMAIN disk
  /\ SlowInit /\ (part # "SLOW" => source = "TEXT" /\ letters = <<>>)
  /\ UnitsInit /\ (part # "UNITS" => voice)
  /\ DtmfInit /\ (part # "DTMF" => typed = <<<<"#">>, <<"UNLINK">>>>)

MCNext ==
  /\ UNCHANGED part
  /\ \/ part = "DATABASE" /\ DbNext
     \/ part # "DATABASE" /\ UNCHANGED dbVars
  /\ \/ part = "QUERIES" /\ QNext
     \/ part # "QUERIES" /\ UNCHANGED queryVars
  /\ \/ part = "PACKETS" /\ PacketsNext
     \/ part # "PACKETS" /\ UNCHANGED packetVars
  /\ \/ part = "ICOM" /\ IcomNext
     \/ part # "ICOM" /\ UNCHANGED icomVars
  /\ \/ part = "STREAMS" /\ StreamNext
     \/ part # "STREAMS" /\ UNCHANGED streamVars
  /\ \/ part = "G2" /\ G2Next
     \/ part # "G2" /\ UNCHANGED g2Vars
  /\ \/ part = "TIME" /\ TimeNext
     \/ part # "TIME" /\ UNCHANGED timeVars
  /\ \/ part = "REMOTE" /\ RemoteNext
     \/ part # "REMOTE" /\ UNCHANGED remoteVars
  /\ \/ part = "CONFIGURATION" /\ ConfNext
     \/ part # "CONFIGURATION" /\ UNCHANGED confVars
  /\ \/ part = "SLOW" /\ SlowNext
     \/ part # "SLOW" /\ UNCHANGED slowVars
  /\ \/ part = "UNITS" /\ UnitsNext
     \/ part # "UNITS" /\ UNCHANGED unitVars
  /\ \/ part = "DTMF" /\ DtmfNext
     \/ part # "DTMF" /\ UNCHANGED dtmfVars

MCSpec == MCInit /\ [][MCNext]_vars /\ QFairness /\ IcomFairness /\ StreamFairness /\ UnitsFairness
=============================================================================
