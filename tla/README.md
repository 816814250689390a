# ircDDBGateway in TLA+

ircDDBGateway connects D-STAR repeaters to the internet: it routes calls by
callsign with the help of ircDDB, links repeaters to reflectors by DExtra,
D-Plus and DCS, places CCS calls, relays StarNet groups, and obeys users on the
air and an operator's remote control. This directory holds models of its parts,
with TLC runs and TLAPS proofs. Paths below are relative to `src/`.

## 1. The system

### How it runs

`ircDDBGateway/IRCDDBGatewayThread.cpp:365-430` is one loop on one thread: read
and handle all waiting messages of each source, call `clock(ms)` of every
handler, sleep 5 ms. Handlers call each other directly, and re-entrantly:
`CRepeaterHandler` calls `CDExtraHandler::unlink`, whose loop over its table
calls back `CRepeaterHandler::linkFailed`, which may call `link()` into the same
table. There is no preemption inside a handler; what is hard is the *order* of
messages and timer expiries, and state that outlives the thing it was about.

Other threads exist. The ircDDB client has two of its own, which share their
state without a lock; the Icom link has one, fed through a ring buffer; each
D-RATS server has one, which calls the repeater handler from outside the loop;
the D-Plus authenticator, the callsign server and the XLX downloader fill the
cache, which locks every operation. Nothing but the configuration, status and
log files is persisted, so a restart begins from `Init`. Four separate programs
talk to the gateway: two remote controls and a timer by the remote control
protocol, and the time server, which also sends it voice as if it were a
repeater's.

### Components

| Component | State | Operations | Talks to | What makes it correct |
|---|---|---|---|---|
| Repeater handler (`Common/RepeaterHandler.cpp`) | streams, G2 route, link status, timers, announcements | headers and frames (radio, busy), commands, `clock`, `linkUp/linkFailed/linkRefused`, `ccsLink*`, `link/unlink` of the remote | all link handlers, CCS, cache, ircDDB, units | status told = links held; one link; streams end; routes have what they need |
| DExtra, D-Plus, DCS handlers | table of 5 links each: state, callsign, stream, timers | `link`, `unlink`, `relink` (D-Plus), `gatewayUpdate`, answers, polls, time-outs, headers, frames | repeater handler (callbacks), protocol pools | a link ends once and says so; a dying link stays dead; its streams have one owner and end |
| CCS client (`Common/CCSHandler.cpp`) | state, direction, number, cache of numbers | `connect`, `startLink`, `stopLink`, `unlink`, server messages, `clock` | repeater handler (callbacks) | a call suspends and restores links; an incoming call touches none |
| Caches (`Common/CacheManager.cpp` ...) | users, repeaters, gateways | find, update with address and protocol locks | everybody, three threads | locked entries keep address or protocol |
| Gateway thread | components, status timers | main loop, ircDDB dispatch, start, stop | all | every answer reaches who asked |
| Remote control server and its clients (`Common/RemoteHandler.cpp`, `RemoteControl/`, `TimerControl/`) | login state, random number, retries | login, queries, link, unlink, logoff | repeater, StarNet | what a client takes for done was done |
| StarNet (`Common/StarNetHandler.cpp`) | users, streams, repeaters of a group, speaker, timers | headers, frames, time-outs, log-off, link | G2, DExtra/DCS, ircDDB | one speaker, who is watched; tables that agree |
| Icom protocol (`Common/IcomRepeaterProtocolHandler.cpp`) | ring, sequence number, retry timer | send, acknowledge, retry | UDP, gateway thread | in order, and not stuck behind a lost packet |
| Packets (`Common/*Data.cpp`) | | read and write seven protocols | all handlers | what is written is read as the same |
| Protocol pools | ports in use | `getHandler`, `release` | link handlers | a port has one owner |
| G2 handler (`Common/G2Handler.cpp`) | incoming routes, inactivity timers | header, frame, `clock` | repeater handler | a stream begins once |
| DD mode (`Common/DDHandler.cpp`) | address table | frames, `clock` | TAP device | |
| Audio, announcement, echo, version units | playback status, timers | start, cancel, `clock` | repeater handler | a cancelled unit is silent; who asks is answered, unless the code drops the question |
| Slow data, APRS, D-RATS | pointers into blocks, queues, TCP client | encode, collect, `clock` | repeater handler, APRS-IS, clients | heard as sent |
| DTMF (`Common/DTMF.cpp`) | keys, counters | decode, translate | repeater handler | done as typed |
| ircDDB client (`ircDDB/`) | connection, state number, users, repeaters, queries | connect, IRC messages, queries | gateway thread | gets online; works with this session's data; every query answered |
| Configuration and its editor | rows of settings | read, write, edit | files, registry | saved is read; only what was edited changes |
| Time server | language, format, interval | minute ticks | a repeater's modules | the time told is the time |

`PROJECT.json` lists each with its sources and its status, and under `hazards`
what is hard to test in them, with the properties that watch it.

## 2. What is modelled

| Module | Models |
|---|---|
| `LinkTables` | callsigns; the three tables of links; `link`, `unlink`, `relink` as operators on a table |
| `RepeaterLinks` | the link state of a repeater; `linkInt`, the callbacks, the unlink loops with their re-entrant callback, suspension and restoration around CCS calls; the CCS client's part |
| `RepeaterHandler` | the specification: radio and busy streams, G2 routing, commands, `clockInt`, ircDDB answers, far ends, CCS server, remote control. `Spec` is the whole repeater |
| `RepeaterProperties` | fairness and properties |
| `MCRepeaterHandler` | instances for TLC |
| `DExtraPair` | an outgoing DExtra link, the incoming links it leaves at the far gateway, and the datagrams between them |
| `ReflectorLink` | the abstract link `DExtraPair` implements: free, linking, linked |
| `DExtraPairProperties`, `MCDExtraPair` | fairness, refinement and properties; the instance for TLC |
| `StarNet`, `StarNetProperties`, `MCStarNet` | a StarNet group: three tables of objects that point at each other, three kinds of time-out, log-offs by header, by text and by the remote control |
| `IrcSession`, `MCIrcSession` | one ircDDB connection: the socket's thread, the log-in, the application's thread with its eleven states, and the IRC network |
| `IrcDatabase` | the users and repeaters an ircDDB client knows, and the answers it gives |
| `IrcQueries` | one query over several ircDDB networks, and the merging of the answers |
| `Packets` | the layouts of seven protocols, as what is written, what the dispatcher takes it for, and what is read; streams over chains of protocols |
| `IcomLink` | the ring buffer, the two threads and the stop-and-wait of the Icom controller's link |
| `LinkStreams` | the streams on one link of DExtra, D-Plus, DCS or CCS, made by either end or a dongle |
| `G2Path` | five copies of a header and one of each frame, from one gateway into the routes of another |
| `TimeServer` | when the time is told, and the words of twelve languages and the text for it |
| `RemoteControl` | the remote control server, and the log-in, commands, retries and log-out of its three clients |
| `Configuration` | every row of three configurations, how it is written and read, and the editor's controls |
| `SlowData` | text, header and GPS blocks, the interleaved encoder, the D-RATS server, and the three collectors, over a radio that loses frames |
| `Units` | echo, version, status and the two files, who starts and cancels them, and what the radio gets |
| `Dtmf` | keys out of frames, commands out of keys |
| `MCParts` | twelve of these, which have no state in common, in one run |
| `RepeaterProofs` | proofs: types and streams of a repeater |
| `OutgoingLinksProofs`, `DExtraLinksProofs` | proofs: its links, with one module and any protocols, and with any modules and DExtra |
| `DExtraPairProofs`, `StarNetProofs` | proofs of the modules they are named after |
| `TransportProofs` | proofs about `LinkStreams`, `G2Path`, `IcomLink`, `Units` and `Packets` |
| `SessionProofs` | proofs about `IrcSession`, `IrcDatabase` and `RemoteControl` |
| `ServicesProofs` | proofs about `TimeServer`, `Configuration` and `Dtmf` |

`RepeaterHandler` lets a far end say anything at any time; `DExtraPair` drops
the repeater and lets the far end run the same code. `ReflectorLink` is where
they meet: its steps are those `RepeaterLinks` has callbacks for (`linkUp`,
`linkFailed`, `linkRefused`), and it adds what the repeater must rely on, that
"linking" comes to an end, since the repeater has no timer of its own for it.
The other modules meet `RepeaterHandler` at its inputs: `LinkStreams`, `G2Path`
and `Units` are what comes to `CRepeaterHandler::process`, `IcomLink` and
`Packets` what lies between it and the radio, `IrcQueries` the answers that its
searches get or do not get, `Dtmf` the commands it is given, `RemoteControl` the
link commands. `RepeaterHandler` accepts each of these at any time, so what it
promises does not depend on them.

### State

The repeater: `rf` is the stream side of `CRepeaterHandler`: `m_repeaterId`, `m_busyId`,
`m_g2Status`, the callsign asked for, whether `m_g2Header`, `m_xBandRptr` and
`m_starNet` are set, `m_restricted`, what announcements wait, and the watchdog.
`link` is its link side (`m_linkStatus` split in a status and a protocol,
`m_linkRepeater`, `m_linkRelink`, the query and reconnect timers, the reconnect
mode, `m_linkStartup`, `m_lastReflector`), with the state of its CCS client and
the three tables. `cache` gives the protocol of a far gateway, `users` where a
user was heard.

A C++ function is an operator from a link state to the next one. A call is an
application, so the order of nested calls is the order of the code. Each
message, frame, tick or command is one action, with everything the handler does
until it returns. `triggerInfo()` sets a mark, and the end of the step settles
it: announce now, or at the end of the stream.

In `DExtraPair`, `slot` is the outgoing `CDExtraHandler` (state, module, port,
and `idle`, the ticks its poll inactivity timer has run), `age[p, m]` is the age
of the far end's incoming handler for port p and module m, `PollLimit` when
there is none, and `net` the set of datagrams under way.

The other modules keep the names of the members where TLA+ allows: `doing`,
`stored` and `played` of `Units` are `m_status`, `m_in` and `m_out` of each
unit; `member`, `tx` and `relay` of `StarNet` are `m_users`, `m_ids` and
`m_repeaters`; `conn` and `app` of `IrcSession` the states of its two threads.
The comment on each variable names its member. What a user or a far program has
done and still expects (`awaited`, `fresh`, `typed`, `said`, `promised`, `came`)
is not in the code, nor is `dropped` of `Units`, what the code will not answer:
properties compare with them. `voice` is `m_ambe` not being NULL: the language's
voice files are read once, at the start.

### Abstractions

- A callsign is a family (first seven characters) and a module letter; users,
  this repeater, the empty string and the CCS number are model values. The
  family decides what the code decides by prefixes and by the cache.
- A timer is off, running, or due. A tick may find any set of the running
  timers expired. The reconnect timer has one more state, since it lasts at
  least five minutes while a query lasts five seconds: it ends (`MinutesPass`)
  only when no query begun before is still running. `CTimer::start()` without a
  time-out does nothing: `timeout` remembers if one was ever set.
- A header is reduced to what the code asks of it (`Kinds`); silly, cross-band
  and invalid second repeaters, StarNet groups, local commands, CCS, routes and
  link commands. DTMF gives the same commands under the conditions of the code.
- A table is shared: other repeaters and incoming links take and leave slots
  (`OTHER`). A protocol pool without a port has the effect of a full table.
- Messages of far ends are not stored: an acknowledgement, refusal, disconnect
  or silence may come whenever a link that could hear it exists. This covers
  lost, late, duplicated and reordered packets.
- ircDDB may answer any search at any time, or never; it may also answer for
  another repeater of the gateway.
- The CCS client knows one number; it asks the server once and keeps the answer.

- In `DExtraPair` a tick is the ten seconds of the poll timer. Requests go out
  again after 1, 2, 4, 8, 16 and 32 seconds of the 60 (`calcBackoff`), so a retry
  may come at any time in the first half of the wait and not in the second. While
  `lossy`, the network loses any datagram, keeps connect messages (which are
  sent twice) for a second reading, reorders and delays for ever. Once healed it
  delivers before the next tick or command. The port is read as long as the link
  has it; the pool serves this link and its successors only.
- Pointers: where the code follows a pointer to a deleted object, or NULL, what
  comes next is not defined. `StarNet` and `Units` stop there (`defined`,
  `undefined`), so their properties are about what happens until then.
- Two threads without a lock (`IrcSession`) are steps of their own between read
  and write, so that a write of one is lost under the other's.
- Networks: of `IcomLink`, `G2Path` and `RemoteControl` lossy and in order, with
  a bound on what is under way; a tick or a time-out may come at any time that
  the code's constants leave it.
- Numbers: stream identifiers are two bytes (`Packets`), sequence numbers count
  modulo `SeqNos` for 2^16, ring indices modulo `RingSize` for 50, with bounds
  small enough that both go round. A number of the configuration is printed with
  some of its digits (`Printed`), but for range and height above ground, which
  the code hands to the registry as numbers (`OnDisk`).
- Wording is left out but where a property is about it: the time server's words
  are reduced to hour, phrase for the minutes and part of the day; keys of DTMF
  and lines of configuration files are kept, since they are the conversion.

Left out: the text of announcements, retries and polls of D-Plus and DCS, the
pretence of XLX names, heard and poll messages of Icom controllers, DD packets,
start-up failures and shut-down.

## 3. Runs

The first four and the first two violations use `MCRepeaterHandler`; X is the family of a DExtra
reflector, R of a D-Plus one, D of a DCS one, Y of a repeater only ircDDB knows.

| Run | Instance | Checks |
|---|---|---|
| `Streams` | 2 stream ids, every kind of header but CCS, weather and version (the latter two go the way of a message and an echo), DTMF, restricted users, 1 user, one far family Y, no link slots; with fairness | `G2PointersValid`, `StreamWatched`, `IdleIsClean`, `StreamsEnd` |
| `DExtraLinks` | X and Y, modules A and B, 2 slots, remote control | `LinkedIsReal`, `NoOrphan`, `OneOutgoing`, `NetworkNeverLinks`, `RemoveIsTheLoop` |
| `ManyProtocols` | X, R, D, Y, one module each, 2 slots, remote control | `DExtraFollows`, `ActiveToRepeater` |
| `CcsCalls` | X and R, CCS on, all reconnect modes | `CcsAlone`, `FixedHome`, `IncomingKeepsLinks` |
| `DExtraPair` | module A that exists and B that does not, 2 ports, `PollLimit` 3, at most `MaxNet` 2 datagrams while some are lost; with fairness | `ImplementsLink`, `Settles`, `GhostsFade`, `DeadEndNoticed` |
| `StarNet` | a passing and a permanent member, 2 streams, 1 repeater, a reflector; with fairness | `SpeakerWatched`, `UsersOutliveStreams`, `ComesToRest` |
| `IrcSession` | 2 servers of different groups, 1 address, 2 polls; with fairness | `ListedFirst`, `GoesOnline` |
| `Parts` | twelve modules, below; with fairness | one or two of each |
| `DuplicateLink`, `StuckWatchdog`, `StarNetRemote`, `DongleHeader` | | one promise that is not kept (section 5) |

`Parts` holds modules that share no variable. The first state chooses which of
them moves, and the others stay in one state of theirs; the states are the sum,
not the product, and each property speaks of one module alone.

| Module | Bounds | Property | Says |
|---|---|---|---|
| `IrcDatabase` | 3 nicks of a gateway, 4 joins | `NewestWins` | a gateway's address is that of the nick that came last, whatever came and went |
| `IrcQueries` | 2 networks, 1 key, 3 stamps | `AnswerComes` | answers lost, late or counted for another query leave no key unanswered for ever |
| `Packets` | 2 values of a byte, 3 hops | `SameStream` | a stream keeps identifier, end and sequence over any chain of protocols |
| | every message of every protocol | `Understood` | a message is taken for what it is |
| `IcomLink` | ring of 3, 3 numbers, 4 packets | `TheirOrder`, `QueueMoves` | nothing is overtaken; nothing waits for ever |
| `LinkStreams` | 4 protocols, 3 ways, 2 ids, 2 repeaters | `FramesFollowHeader`, `LinkFreed` | frames go where their header went; a broken-off stream frees its link |
| `G2Path` | 2 streams, 2 routes, 3 copies, 5 packets | `BegunOnce` | a repeater is told of a stream once |
| `TimeServer` | all of a day, 12 languages, 2 formats, 3 intervals | `TimeIsTold` | words and text name the time |
| `RemoteControl` | 1 client of each kind, a stranger, 1 command, 3 logins | `AcceptedIsDone` | what a client takes for acknowledged was carried out |
| `Configuration` | every row of 3 programs, 2 saves, file and registry | `SavedIsRead`, `OnlyEdits` | every row is read from where it was written; a save changes what was edited |
| `SlowData` | GPS of 30 and 60 bytes, text in 2 rounds, 1 frame lost | `HeardAsSent` | text, position and D-RATS message come out as they went in, and what is damaged is dropped |
| `Units` | 1 frame each, with and without voice files | `HeadersFirst`, `AskersHear` | no frame without its header; who asks is answered, but for three cases in which the code drops the question |
| `Dtmf` | reflector 120, modules B and Z, pause 2, 3 misread frames | `MeantIsDone` | a command is done as typed, for every form of it |

Why the bounds are enough. The repeater compares stream identifiers only with the
current two, so a second id is the stranger. Callsigns are compared for equality
and for equality of family: two families and two modules give all outcomes. Two
slots are the least that shows a link beside a dying one, a re-entrant link
before and behind the loop, and a full table. Stream runs have `MaxLinks = 0`,
because streams depend on the link side only through the status and the query
timer, both of which still take all their values that matter to streams. No
counter is unbounded, hence no state constraint.

Why these slices and not one run: some properties hold only without the
interactions listed as findings, and a run that excluded a finding by a
precondition would hide it. Each slice is a configuration a gateway can have
(only DExtra reflectors; gateways with a single module; ...), and within it
nothing is excluded. The violation runs show what breaks the property outside.

`NetworkNeverLinks` and `IncomingKeepsLinks` are action properties: a far end's
message never starts a link when the repeater is unlinked, and no CCS message
touches links during an incoming call.

In `DExtraPair`, `PollLimit` is 3 instead of 6: it leaves a tick in which
requests are repeated, one in which they are not, and the time-out, and a poll may
be missed before the time-out. Two datagrams are the two messages of a change of
module, or an old one beside a new one. The bound holds only while the network
loses datagrams, where it is no more than another loss; a healed network carries
all that is sent. `GhostsFade` and `DeadEndNoticed` are about the two ends'
disagreement: the far end drops the links of a caller that has gone, and a
caller does not show as up a link whose far end has nothing on its port.

`DeadEndNoticed` does not ask that the far end hold *the* link. It need not:
answers do not name the module to the code that takes them
(`DExtraHandler.cpp:746`), and polls have none. If an UNLINK is lost, and the port
used again for another module whose request is lost too, an old ACK makes the
caller believe in the new link, and its polls and those of the far end's old
link keep each other alive, also on a network that loses nothing more.

In `StarNet` the time-outs are 3 units of four seconds where the code has
minutes: what matters is that a stream's two seconds and the answer's four are
shorter. In `IcomLink`, `G2Path` and `RemoteControl` the bounds let each counter
go round, each table and ring fill, and each retry meet a late answer of the one
before; a second command (`Items` 2) breaks `AcceptedIsDone` for the timer, which
takes a late acknowledgement for the next one's. One frame per unit is enough
for `Units`, since a unit looks only at which frame is its last. In `Dtmf` a key
is four frames, and four misread frames would be a key of their own.

### Fairness

`FairSpec` asks weak fairness of a tick that finds no timer expired, and of the
expiry of each running timer. The thread calls `clock` at least every few
milliseconds and timers count real milliseconds, so a timer that keeps running
does expire. No fairness is assumed of users, far ends, ircDDB or CCS: they may
fall silent for ever. `StreamsEnd` says so: either the radio goes on sending for
ever, or the repeater comes to rest.

`DExtraPair` has its own: the network heals, what it carries is read, both
clocks tick (strongly, since every datagram read in between disables a tick), and
the caller repeats its requests. The liveness of a link cannot ask for less: a
network that loses everything gives no link. Before it heals, and after it, users
and operators may do what they like or nothing.

`StarNet` asks that time passes and that what is due is done before more of it
passes. `IrcSession` asks it of each thread, and of the network once it is
"calm", up and quick for longer than the longest time-out; `GoesOnline` is about
such networks only, and needs strong fairness of the list's time-out, since the
other thread may do something every time it is due. `IrcQueries` asks that each
network answers, again and again, some query; `IcomLink` that the thread loops
and the wire carries; `QueueMoves` is about a controller that answers again. In
`Units` the watchdog ends each transmission, so users do not talk over each other
for ever without a pause, and the units' clocks go on. Users may ask anew for
ever: `AskersHear` says so. It also names what is asked and never answered, because
the code drops it: the status without voice files (`AudioUnit.cpp:152`), a file
that is not there (`AnnouncementUnit.cpp:53`), and an echo whose recording a busy
header has taken over (section 5). Without any of the three it is violated.

## 4. Proofs

`RepeaterProofs` proves, for every value of the constants (any sets of
callsigns, users, ids and commands, any table size, any configuration):

- `TypeCorrect`: `Spec => []TypeOK`.
- `PointersValid`: `Spec => []G2PointersValid`. `m_g2Header`, `m_xBandRptr` and
  `m_starNet` are dereferenced on the word of `m_g2Status`; no order of headers,
  busy take-overs, answers and time-outs gives the status without the pointer.
- `StreamIsWatched`, `IdleClean`: a stream and the watchdog go together, and
  nothing of a stream outlives it.
- `IncomingKeeps`: the action property, from the type invariant.
- `LoopIsRemove`: `Spec => []RemoveIsTheLoop`. The model has the loop that unlinks
  a repeater twice: turn by turn, as the code runs it (`RemoveLoop`), and as a
  formula over the table (`Remove`), which the other proofs use. They are equal
  for tables of any size, also when a report made in mid-loop links again in the
  table the loop goes through. The lemma `ManyTurns` gives the link state after
  any number of turns without such a report; before and after the one that makes
  a link it applies, and afterwards none can follow, since the wish is used up
  (`RelinkOnce`). Induction is by least counterexample.

The inductive invariant `Inv` is `TypeOK` with the stream conditions, one
conjunct per named part. None is inductive alone. That an idle repeater has no
route needs that a watched stream exists while there is a route. That ending a
stream by the busy handler or by the watchdog is enough needs that the radio and
the busy id are never both set, which a take-over establishes. That a pointer is
there needs all of it, since a new header resets it before the status.
`InvHolds` is `Init => Inv`, one lemma per action for `Inv /\ [Next]_vars =>
Inv'`, and PTL. Type correctness of the links goes operator by operator, in the
first part of the module: each lemma says that the operator takes a `LinkState` to
a `LinkState`, so that nested calls compose as the applications do.

`DExtraPairProofs` proves `PairType`, and `PairIsLink`: `Spec => Abstract!SafeSpec`,
with `status` and `target` read off the slot. Every step is one the abstract link
has, or leaves it alone: in particular none takes a link from one module to
another without `LINKING` in between, and none wakes a free slot but a user. The
types are needed for it (a slot is free exactly when it has no target), so the
type invariant is the strengthening. What the network does is irrelevant to it,
and so holds for any bound and any number of modules.

### Links

`OutgoingLinksProofs` is about a gateway where no two callsigns in play differ in
the module letter alone (`OneModule`, which the runs `ManyProtocols` and
`CcsCalls` satisfy), with any protocols, hosts files, table sizes, links of
others, and commands. `LinksWhole` is the invariant, `Whole`, from which follow
`ActiveIsTarget` and `DExtraIsFollowed` (without CCS), `CallIsAlone`,
`NeverLinked`, and `FixedIsHome` (when the hosts files name every reflector,
`KnownReflectors`).

A handler of links is an application of nested operators, and in the middle of
one the properties do not hold: `linkInt` unlinks before it shows what it links
to. So there are two predicates. `Base` holds at every call and callback: no
relink is wanted, a link is in the table of the protocol its gateway is known
by, a search is for what the cache does not know. `Whole` adds what each
property needs and holds when the handler returns. `Sheds` is what most handlers
do, all the unlink loops with their callbacks among them: slots are given up, or
the repeater is told that it has no link. It is transitive and keeps `Whole`, so
most actions are a chain of lemmas about it. What is left are the few operators
that make links, one lemma each.

`OneModule` is not there for convenience. A change of module is the one thing
that sets `m_linkRelink`, and a `linkFailed` that finds it set links again from
inside the loop that unlinks. DCS leaves it set, so a later failure links an
unlinked repeater (`NetworkNeverLinks`); the remote control that sets a fixed
module while a search for another module of that reflector is under way changes
the mode and returns (`FixedHome`). TLC finds both with two modules.

`DExtraLinksProofs` is the other half: any number of modules, and so changes of
module from inside the loop, when the gateway speaks DExtra only, without CCS,
and nobody else's link is in its table (`OnlyDExtra`, the run `DExtraLinks`). It
proves `LinkedStands`, `NoneIsOrphaned`, `OneAtATime`, `ShownAsItIs`,
`TargetOnly` and `NeverRelinked`, all from `LinkStaysSolo`. That invariant says
that the table is clear, or one slot is in use and the repeater shows that link
and its state. The hard case is a link that is shown but gone (its far end
disconnected it while it was being made, or the table was full): a change of
module then finds nothing to unlink and `m_linkRelink` stays set. The invariant
says where a link can be while the flag is set (in the first slot), since
`linkFailed` then places the next one further on, where the loop still ends it.
With links of other repeaters in the table the first free slot may be *before*
the loop, which has passed it: the repeater has two links (`OneOutgoing`, section
5; TLC finds it with 2 slots).

`DExtraPairProofs` is the refinement above; the table of several repeaters is
what section 6 plans next.

### StarNet

`StarNetProofs` proves `StarNetTypes`, `SpeakerIsWatched` and `OwnersOutlive`, for
any users, streams, members and repeaters. `SpeakerWatched` needs no more than the
types: whoever sets `m_id` makes the stream or starts the reflector's timer, and
whoever ends the stream clears it. `UsersOutliveStreams` needs `YoungOwners`: a
stream's timer was started no later than its user's, so the stream is gone
first. The assumption is that the time-outs of user and group are 0 (off) or at
least three units of four seconds. The configuration has minutes.

### Voice on its way

`TransportProofs` has four orders, none inductive, what no chain of protocols
may change, and what every message must mean:

- `HeaderThenFrames` (`FramesFollowHeader`): the stream a link has under way is
  the one its repeater was last given the header of, and a kept header is that
  stream's (`StreamOpened`). Not for dongles: `DongleHeader` refutes it.
- `StreamBegunOnce` (`BegunOnce`): by what is on the wire. No header of a
  stream lies behind its end, and a stream of which the repeater was told has a
  route as long as any header of it can come.
- `PacketsInOrder` (`TheirOrder`): each slot of the ring holds the last packet
  written there, what was sent is no newer than what the read pointer has
  reached, and the wire keeps order. This is for a ring of any size above 2 and
  also when the ring runs over, which drops packets but turns none around.
- `HeadersAlwaysFirst` (`HeadersFirst`): a unit that waits while somebody talks
  would begin unheard and go on when he ends. `StillInTalk` says that none does,
  because a header cancels all units and only ends start them.
- `StreamStaysOne` (`SameStream`): a chain of any length. Two protocols turn the
  identifier round for the next gateway, in header and frame alike, and the
  combined ones turn it back (`TurnedRound`); the end bit shares a byte with the
  sequence number and is told from it again (`EndBit`); and what is written is
  taken for a header or a frame by whoever reads it (`HeaderHop`, `FrameHop`).
- `MessagesMeant` (`Understood`): what is not voice. Each reader goes by length and
  some text, in the order its dispatcher asks, and every message that the
  same protocol writes must come out of those questions as what it was written
  as. One lemma per kind of message (polls, links, acknowledgements, CCS and
  homebrew data); the invariant is that what was heard is what the last message
  means to its reader.

### ircDDB

`SessionProofs` proves `ListedBeforeTold`, `ListedFirst` for any servers and
addresses. The threads share no lock, so the invariant is about who can have
read what when the other writes: the state the application's thread has read is
the present one, or `userLeave` has written 2 over it, or the end of a list has
written 3 or 4 over 5 (`ReadsLate`); a pending write of the IRC thread finds
the table being waited for (`ListEnds`); how far the download is known to be by
the state and `sendlistTableID` (`TablePast`); and that a connection that is
lost stays lost for at least two polls, in which the application notices it
(`Noticed`). `Polls >= 2` is an assumption of the module, justified by the 17
seconds between two connections and one poll a second.

`LastNickWins` is `NewestWins` for any nicks and joins. `calculateUsn` counts from
the nicks that are there, so a number may be given twice in the life of a
channel; the invariant is that of two nicks of a gateway that are there, the one
that came later has the higher number (`LaterIsHigher`).

### Remote control

`OneCommandIsDone` and `AcceptedWasDone` are about acknowledgements that do not
say of what, on wires that lose and delay packets, with programs and strangers
that end each other's sessions. The invariant has, for each phase of a program,
what can be under way to it and from it (`BeforeHash`, `HashSent`, `LinkSent`). It
rests on two facts: only the program a random number was sent to can have its
hash (`OwnNumbers`), and a hash is acknowledged once (`Spent`), since the next one
finds somebody logged in. A program that waits for its hash has therefore one
acknowledgement on the wire at most, and reading it leaves none that could be
taken for the command's. A timer with a second item due sends that command while
acknowledgements of the first can still come, so `AcceptedWasDone` assumes one
item, and `OneCommandIsDone` is for the programs that send one, whatever the others
do. The window (`FRAME`) takes nothing for acknowledged.

### What users hear, set and type

`ServicesProofs` is about three programs over data that the provers do reach, with
a table, a row or a key at a time instead of all of them:

- `TimeToldRight` (`TimeIsTold`), for every interval and each of the twelve languages.
  Four of them say the half hour as one before the next hour, nine the last
  quarter, on faces of 12, 12 from 0 and 24 hours and with the parts of the day each
  has. `WordsTell` reduces a phrase to its minutes and the hour it names,
  `FaceMeant` and `PartsSaid` say that face and part leave that hour possible,
  `SpokenTells` goes through the languages. What is being sent was made by the
  language that is set, at a quarter (`TimeInv`).
- `EveryRowIsRead` (`SavedIsRead`), for every row. The tables of what is read and
  what is written agree, but for the callsigns of the repeaters, which Windows
  does not write (`RegistryAgrees`). The invariant `StoreInv` has therefore that
  these are the same in the disk, the editor and the gateway, so that a write that
  leaves them out stores them too, and that a save that was reported done stays so
  when a later one fails (a file is replaced whole or not at all; a registry
  that failed reports nothing).
- `SaveSetsTheEdit` (`OnlyEdits`): a save sets what was changed, and every other plain
  row stays as the editor had it, but for what a control fills in where there is
  nothing. The hard part is the band: a DD repeater has controls that
  follow its band, and only the row that is edited can make one (`DDOnly`, for
  all four configurations that are held). `EditInv` then says of every row what the
  controls would give back now (`RestKept`), from what a control shows of a value
  (`PanelPlain`) and what it gives for what it shows (`GivenPlain`).
- `KeysMeant` (`MeantIsDone`), for any reflectors and modules, and pauses of any
  length up to the one that ends a command. What `translate` makes of each form is a
  lemma per form: the digits of a number are read as it (`NumberTyped`, by the table
  of the partial numbers that `ToULong` goes through), then links with and without
  leading zeros, the four forms of a call, and the commands without a number
  (`CommandsMeant`). That the keys get there is `DtmfInv`: what was noted is what was
  typed so far; four frames in a row are counted the same by the user and by
  `CDTMF`; and frames that were misread in a row are no more than were misread.

### What the theorems assume, and what is left to TLC

Assumptions: the `ASSUME`s of the modules (no family of callsigns is the empty
string, commands are commands, identifiers are not 0 nor the mark for none, the
hosts files give every family a protocol or none, the ring has more than 2
slots, the stranger and nobody are none of the programs, bounds are numbers, the
time-outs above). TLC evaluates them in every run.
What a theorem assumes beyond them is in its `ASSUME`: `OneModule`, `~CcsOn`,
`KnownReflectors`, `OnlyDExtra`, `Items = 1`. Theorems about `StarNet` and `Units` hold until
the program uses what it has deleted, where the models stop.

Only model-checked: `HeardAsSent`, which follows texts through blocks of slow data by
folds and recursion over sequences, where induction would be over data (and which
is no theorem for every length of a text: see the GPS strings below, whose
lengths the run stays clear of); and liveness, which is out of the provers' reach,
as is `ENABLED`.

A `CASE` whose guards overlap leaves open which is taken. TLC takes the first, a
proof may not: in the modules proved about, guards exclude each other, or the
theorem holds whichever is taken.

## 5. Findings

Each violation run checks one promise of a comment or the change log that the
code does not keep. TLC's trace is the scenario.

| Run | Promise | What happens |
|---|---|---|
| `DuplicateLink` | `RepeaterHandler.cpp:2094` duplicates are not acted on | the duplicate stops the timer of the search, which then has no end |
| `StuckWatchdog` | `:1491` an expired watchdog cleans up | `clockInt` returns early for ever while a change of module waits on ircDDB |
| `StarNetRemote` | `StarNetHandler.cpp:814` the last log-off clears all | `m_repeaters.end()` where `clear()` was meant: the table keeps pointers to what was deleted |
| `DongleHeader` | `DExtraHandler.cpp:678` a header in mid-stream is ignored | it has already changed where the stream goes, or set that to NULL |

More of the same kind, each by a property of the modules that is not part of a
run; the configuration that shows it is the one named, with the property as its
only one:

| Property, configuration | Promise | What happens |
|---|---|---|
| `NoOrphan`, `CcsCalls` | `CHANGES.txt:1245` links restored after CCS | the restored link is forgotten by the time-out that restored it |
| `CallHasNoLinks`, `CcsCalls` | `CHANGES.txt:1233` links suspended in a call | speech restarts the reconnect timer, which links during the call |
| `OneOutgoing`, `DExtraLinks` with `Others = {"DEXTRA"}` | `CHANGES.txt:836` no doubling | a stale wish to relink, met in an unlink loop, links into a slot the loop has passed |
| `FoundUserRouted`, `Streams` | `RepeaterHandler.cpp:1207` the header is sent when the user is found | nobody calls `resolveUser` |
| `OnlyNewer`, `Parts` | `IRCDDBMultiClient.h:90` only newer answers count | the address of an older one is kept |
| `DDUnderstood`, `Parts` | `CHANGES.txt:1363` DD for homebrew | the header is written five bytes in (`DDData.cpp:141`) and read from the start (`:73`) |
| `StopAndWait`, `Parts` | `CHANGES.txt:56` stop and wait | any acknowledgement frees whatever waits (`IcomRepeaterProtocolHandler.cpp:225`) |
| `LooksForServer`, `IrcSession` | `IRCDDBApp.cpp:414` look for a new server | the other thread writes the state it read before over the new one |

Seen while modelling, against no promise that a run could check: the GPS strings of `CAPRSTransmit` of
31 to 51 bytes and from 81 on never come through (`SlowDataEncoder.cpp:130` and
`:341`); a single key `*`, `B` or `D` indexes an empty string (`DTMF.cpp:190`); a
wrong key in a number is not noticed (`:205`, `12A` calls 012); the echo of a
transmission whose frames are all lost uses a NULL pointer (`EchoUnit.cpp:119`);
a busy header in the middle of a recording (`RepeaterHandler.cpp:957`) leaves
`CEchoUnit` receiving, since the end of the busy stream and the watchdog clear
`m_g2Status` without calling `end()`, and the echo is never played (no document
promises it, so `AskersHear` excepts it by name);
the homebrew branch of the second repeater gives the first one's height to APRS
(`IRCDDBGatewayAppD.cpp:507`); the timer logs in for ever, holding its lock, when
the gateway does not answer (`TimerControlThread.cpp:172`).

The link properties fail, for other reasons, in instances that are not kept as
runs, and the passing runs stay clear of them: `LinkedIsReal` with D-Plus (a NAK
or disconnect deletes an established link without a word to the repeater,
`DPlusHandler.cpp:693`); `NetworkNeverLinks` with two modules of a DCS reflector
(an unlink command does not withdraw the wish to relink, `RepeaterHandler.cpp:1611`);
`NoOrphan` with D-Plus (`RepeaterHandler.cpp:1618` asks "Have we linked to
something else in the meantime?" by callsign only, so the late acknowledgement
of an old unlink clears the status of a new link to the same reflector);
`OneOutgoing` with D-Plus (the poll time-out of a link being unlinked revives it
beside its successor to the same callsign, `DPlusHandler.cpp:790`); and a
repeater the remote control sets to "Never" keeps the time-out of its reconnect
timer, which the next header starts (`RepeaterHandler.cpp:1776`, `:590`).

## 6. Plan

Modelled first, because everything else calls it or is called by it: the repeater
handler and what it sees of its neighbours; then `DExtraPair`, the neighbour with
the far end it has left open; then the parts around them. Next, in this order:

1. `DPlusPair` with its login step, in-place relink and acknowledged unlink, and
   `DCSPair`, against the same `ReflectorLink`; a pool shared by the links of
   several repeaters.
2. `CCSClient`: `CCCSHandler` alone with its wait, try, announce, poll and
   inactivity timers against a server; refined to the CCS part of
   `RepeaterLinks`.
3. `Cache` with address and protocol locks and its three writers.

## 7. Not modelled

Sockets, files and windows; the start-up of the programs, which hand each
setting to an object once (`Configuration` has the settings themselves); DD
mode, whose table and device are sizes and positions in Ethernet packets; the
MQTT publisher, loggers, the D-Plus authenticator, the callsign server and the
XLX downloader, which fill the cache from the network; NAT traversal; digests and
check sums; the voice transmit tool: pure I/O, with no control worth a model.
