------------------------------- MODULE IrcDatabase ------------------------------
(***************************************************************************)
(* What one ircDDB client knows, and what it tells the gateway: the users  *)
(* of the channel (d->user), the repeater table (d->rptrMap) and the       *)
(* replies (d->replyQ).  A gateway is in the channel under up to four      *)
(* nicks, "call-1" to "call-4"; its address is the host of the nick that   *)
(* came last, which a sequence number (usn) tells.                         *)
(***************************************************************************)
EXTENDS Naturals, Sequences, FiniteSets, Functions

CONSTANTS Gateways, Repeaters, Persons,
          Sessions,   \* the numbers of a nick: 1 .. 4 in the code
          Hosts,      \* IP addresses
          NoHost,     \* the empty string
          Joins,      \* bound: the highest sequence number
          Replies     \* bound: the length of replyQ

ASSUME IrcDatabaseAssumption ==
  /\ Sessions \subseteq Nat \ {0} /\ IsFiniteSet(Sessions) /\ NoHost \notin Hosts
  /\ Joins \in Nat /\ Replies \in Nat \ {0}

VARIABLES user,       \* d->user
          rptr,       \* d->rptrMap: the gateway of each repeater
          initReady,
          replyQ,
          came        \* pairs of nicks in the channel, the one that came first before the other

dbVars == <<user, rptr, initReady, replyQ, came>>

GatewayNicks == Gateways \X Sessions
Present == DOMAIN user

DbInit ==
  /\ user = <<>> /\ rptr = <<>> /\ initReady = FALSE /\ replyQ = <<>> /\ came = {}

\* table[key] = entry
Entered(table, key, entry) ==
  [k \in DOMAIN table \cup {key} |-> IF k = key THEN entry ELSE table[k]]

\* Mutant: the sequence number counts the nicks.
UsnByCount(nick) == Cardinality({n \in Present : n[1] = nick[1]}) + 1

calculateUsn(nick) ==
  LET usns == {user[n].usn : n \in {m \in Present : m[1] = nick[1]}}
  IN 1 + (CHOOSE k \in usns \cup {0} : \A l \in usns : l <= k)

\* Nicks are tried in the order of their numbers, a later one wins a tie.
getIPAddress(g) ==
  LET mine == {n \in Present : n[1] = g}
      last == CHOOSE n \in mine : \A m \in mine :
                \/ user[m].usn < user[n].usn
                \/ user[m].usn = user[n].usn /\ m[2] <= n[2]
  IN IF mine = {} THEN NoHost ELSE user[last].host

DbRoom == Len(replyQ) < Replies

Tell(type, key, gateway, address) ==
  replyQ' = Append(replyQ, [type |-> type, key |-> key, gateway |-> gateway, address |-> address])

\* Who came before whom, but for one nick.
OrderWithout(nick) == {p \in came : nick \notin {p[1], p[2]}}

\* JOIN, or an entry of the WHO list.
userJoin(nick, host) ==
  /\ calculateUsn(nick) <= Joins /\ (initReady => DbRoom)
  /\ user' = Entered(user, nick, [usn |-> calculateUsn(nick), host |-> host])
  /\ came' = OrderWithout(nick) \cup (Present \ {nick}) \X {nick}
  /\ IF initReady THEN Tell("GATEWAY", nick[1], nick[1], host) ELSE UNCHANGED replyQ
  /\ UNCHANGED <<rptr, initReady>>

userLeave(nick) ==
  /\ nick \in Present
  /\ user' = Restrict(user, Present \ {nick})
  /\ came' = OrderWithout(nick)
  /\ UNCHANGED <<rptr, initReady, replyQ>>

\* The connection is lost: userListReset; then the application's thread
\* resets initReady.  The repeaters and the replies are kept.
ChannelReset ==
  /\ user' = <<>> /\ came' = {} /\ initReady' = FALSE
  /\ UNCHANGED <<rptr, replyQ>>

NowReady == initReady' = TRUE /\ UNCHANGED <<user, rptr, replyQ, came>>

\* UPDATE of table 1: a repeater and its gateway.
UpdateRepeater(r, g) ==
  /\ initReady => DbRoom
  /\ rptr' = Entered(rptr, r, g)
  /\ IF initReady THEN Tell("REPEATER", r, g, getIPAddress(g)) ELSE UNCHANGED replyQ
  /\ UNCHANGED <<user, initReady, came>>

Zone(r) == IF r \in DOMAIN rptr THEN rptr[r] ELSE "NONE"
Where(r) == IF r \in DOMAIN rptr THEN getIPAddress(rptr[r]) ELSE NoHost

\* UPDATE of table 0: a user was heard on a repeater.
UpdateUser(p, r) ==
  /\ initReady /\ DbRoom
  /\ Tell("USER", p, Zone(r), Where(r))
  /\ UNCHANGED <<user, rptr, initReady, came>>

\* NOT_FOUND, or a query that cannot be sent.
NotFound(p) ==
  /\ DbRoom /\ Tell("USER", p, "NONE", NoHost)
  /\ UNCHANGED <<user, rptr, initReady, came>>

findGateway(g) ==
  /\ DbRoom /\ Tell("GATEWAY", g, g, getIPAddress(g))
  /\ UNCHANGED <<user, rptr, initReady, came>>

findRepeater(r) ==
  /\ DbRoom /\ Tell("REPEATER", r, Zone(r), Where(r))
  /\ UNCHANGED <<user, rptr, initReady, came>>

\* receiveUser, receiveRepeater, receiveGateway, by the gateway's thread.
TakeReply ==
  /\ replyQ # <<>> /\ replyQ' = Tail(replyQ)
  /\ UNCHANGED <<user, rptr, initReady, came>>

DbNext ==
  \/ \E nick \in GatewayNicks, h \in Hosts : userJoin(nick, h)
  \/ \E nick \in GatewayNicks : userLeave(nick)
  \/ ChannelReset \/ NowReady \/ TakeReply
  \/ \E r \in Repeaters, g \in Gateways : UpdateRepeater(r, g)
  \/ \E p \in Persons, r \in Repeaters : UpdateUser(p, r)
  \/ \E p \in Persons : NotFound(p)
  \/ \E g \in Gateways : findGateway(g)
  \/ \E r \in Repeaters : findRepeater(r)

\* The address given for a gateway, whatever nicks have come and gone before,
\* is the host of the nick that came last of those that are there.
NewestWins ==
  \A n \in Present :
    (\A m \in Present : m[1] = n[1] /\ m # n => <<m, n>> \in came)
      => getIPAddress(n[1]) = user[n].host

DbSpec == DbInit /\ [][DbNext]_dbVars
=============================================================================
