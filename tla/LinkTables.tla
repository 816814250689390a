------------------------------ MODULE LinkTables ------------------------------
(***************************************************************************)
(* Callsigns, and the three tables of reflector links the gateway keeps:   *)
(* CDExtraHandler::m_reflectors, CDPlusHandler::m_reflectors and           *)
(* CDCSHandler::m_reflectors.  The module has no variables: it holds what  *)
(* the link, relink and unlink entry points of the three handlers do to    *)
(* their table, as operators on a table.  RepeaterLinks adds the callbacks *)
(* the handlers make on the repeater.                                      *)
(*                                                                         *)
(* A callsign of a far repeater or reflector module is a family (its first *)
(* seven characters) and a module letter.  A slot is free, taken by a link *)
(* of another repeater or by an incoming link ("OTHER"), or holds an       *)
(* outgoing link of the repeater under study.                              *)
(***************************************************************************)
EXTENDS Integers

CONSTANTS Families,           \* first seven characters of the callsigns in play
          ReflectorFamilies,  \* those that start with REF, XRF or DCS
          Modules,            \* module letters
          NoCall,             \* the empty string
          MaxLinks            \* MAX_DEXTRA_LINKS, MAX_DPLUS_LINKS, MAX_DCS_LINKS

ASSUME LinksAssumption ==
  /\ MaxLinks \in Nat
  /\ ReflectorFamilies \subseteq Families
  /\ NoCall \notin [fam : Families, mod : Modules]

Calls == [fam : Families, mod : Modules]

\* The protocols that keep a table.  Loopback links live in the DCS table.
Tables == {"DEXTRA", "DPLUS", "DCS"}
Vias   == Tables \cup {"LOOPBACK"}

TableOf(via) == IF via = "LOOPBACK" THEN "DCS" ELSE via

Active    == {"LINKING", "LINKED"}
SlotState == {"FREE", "OTHER", "LINKING", "LINKED", "UNLINKING"}
Slots     == 1..MaxLinks
Slot      == [st : SlotState, call : Calls \cup {NoCall}]
Table     == [Slots -> Slot]

FreeSlot == [st |-> "FREE", call |-> NoCall]

FreeSlots(t) == {i \in Slots : t[i].st = "FREE"}
FirstFree(t) == CHOOSE i \in FreeSlots(t) : \A j \in FreeSlots(t) : i <= j

\* The loop every handler runs to store a new link: the first free slot, or
\* none ("No space to add new ... link, ignoring") and the link is deleted.
Place(t, c) ==
  IF FreeSlots(t) = {} THEN t
  ELSE [t EXCEPT ![FirstFree(t)] = [st |-> "LINKING", call |-> c]]

\* The outgoing links of the repeater that are to one of the callsigns.
ActiveTo(t, calls) == {i \in Slots : t[i].st \in Active /\ t[i].call \in calls}

Release(t, S) == [i \in Slots |-> IF i \in S THEN FreeSlot ELSE t[i]]

\* CDExtraHandler::link and CDPlusHandler::link take a slot unconditionally,
\* CDCSHandler::link only if the repeater has no outgoing link that is not
\* already being unlinked.
TableLink(via, t, c) ==
  IF TableOf(via) = "DCS" /\ ActiveTo(t, Calls \cup {NoCall}) # {} THEN t
  ELSE Place(t, c)

\* CDPlusHandler::unlink and CDCSHandler::unlink send the disconnect and leave
\* the slot in use until the far end answers.
TableUnlink(t, calls) ==
  [i \in Slots |-> IF i \in ActiveTo(t, calls)
                   THEN [t[i] EXCEPT !.st = "UNLINKING"] ELSE t[i]]

\* CDPlusHandler::relink renames the first outgoing link of the repeater,
\* whatever its state.
Outgoing(t) == {i \in Slots : t[i].st \in Active \cup {"UNLINKING"}}
TableRelink(t, c) ==
  IF Outgoing(t) = {} THEN t
  ELSE [t EXCEPT ![CHOOSE i \in Outgoing(t) : \A j \in Outgoing(t) : i <= j].call = c]

================================================================================
