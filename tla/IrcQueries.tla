------------------------------- MODULE IrcQueries -------------------------------
(***************************************************************************)
(* CIRCDDBMultiClient: a query is sent to every ircDDB network, and its    *)
(* answers are merged into one.  Whose answer a reply is, the program does *)
(* not ask: it counts replies for a key.  A client's replies come in       *)
(* order; a client that is not ready drops the answer to a query.          *)
(*                                                                         *)
(* A reply has the time stamp 0 for the empty string (not found); repeater *)
(* and gateway replies never have a time stamp, here they are left out.    *)
(***************************************************************************)
EXTENDS Naturals, Sequences, FiniteSets, Functions, TLC

CONSTANTS Clients, Keys,
          Stamps,      \* time stamps of an answer: 0 .. Stamps
          Flying       \* bound: replies of one client on their way

ASSUME IrcQueriesAssumption == Stamps \in Nat /\ Flying \in Nat

VARIABLES pending,     \* m_userQueries
          flying,      \* client -> the keys it has been asked for, unanswered
          out,         \* m_responseQueue
          healed,      \* no answer is lost any more
          fresh        \* keys asked for since then and not yet answered

queryVars == <<pending, flying, out, healed, fresh>>

Count == Cardinality(Clients)

\* An answer: the stamp its data has, the stamp of the reply its address is
\* from, and the newest of the replies merged into it.
NoAnswer == [count |-> 0, stamp |-> 0, address |-> 0, newest |-> 0]

QInit ==
  /\ pending = <<>> /\ flying = [c \in Clients |-> <<>>] /\ out = <<>>
  /\ healed = FALSE /\ fresh = {}

\* findUser.  A query that waits for its answers is not replaced; the clients
\* are asked all the same.
findUser(k) ==
  /\ \A c \in Clients : Len(flying[c]) < Flying
  /\ pending' = pending @@ (k :> NoAnswer)
  /\ flying' = [c \in Clients |-> Append(flying[c], k)]
  /\ fresh' = IF healed THEN fresh \cup {k} ELSE fresh
  /\ UNCHANGED <<out, healed>>

\* CIRCDDBMultiClientQuery::Update
Updated(item, stamp) ==
  LET replaced == [item EXCEPT !.stamp = stamp, !.address = IF @ = 0 THEN stamp ELSE @]
  IN [IF stamp = 0 \/ stamp >= item.stamp THEN replaced ELSE item
        EXCEPT !.newest = IF stamp > @ THEN stamp ELSE @]

\* Mutant: an empty answer is not counted.
FoundCounted(item, stamp) == IF stamp = 0 THEN item.count ELSE item.count + 1

\* incrementResponseCount: every reply for the key counts, whoever it is from.
Counted(item, stamp) == item.count + 1

Deliver(k, item) ==
  out' = Append(out, [key |-> k, stamp |-> item.stamp, address |-> item.address,
                      newest |-> item.newest])

\* popQuery, Update, and m_responseQueue or pushQuery.
Merge(k, stamp) ==
  LET item == [Updated(pending[k], stamp) EXCEPT !.count = Counted(pending[k], stamp)]
  IN IF item.count >= Count
     THEN /\ pending' = Restrict(pending, DOMAIN pending \ {k})
          /\ Deliver(k, item) /\ fresh' = fresh \ {k}
     ELSE pending' = [pending EXCEPT ![k] = item] /\ UNCHANGED <<out, fresh>>

Take(k, stamp) ==
  IF k \in DOMAIN pending THEN Merge(k, stamp)
  ELSE Deliver(k, Updated(NoAnswer, stamp)) /\ UNCHANGED <<pending, fresh>>

Room == Len(out) < 2   \* bound on the length of m_responseQueue

\* getMessageType: the answer of client c to its oldest query ...
Answered(c, stamp) ==
  /\ flying[c] # <<>> /\ Room
  /\ Take(Head(flying[c]), stamp)
  /\ flying' = [flying EXCEPT ![c] = Tail(@)]
  /\ UNCHANGED healed

\* ... or something it tells of its own accord.
Spontaneous(k, stamp) ==
  /\ stamp # 0 /\ Room /\ Take(k, stamp) /\ UNCHANGED <<flying, healed>>

\* The answer reaches a client that is not ready: IRCDDBApp::doUpdate drops it.
Lose(c) ==
  /\ ~healed /\ flying[c] # <<>>
  /\ flying' = [flying EXCEPT ![c] = Tail(@)]
  /\ UNCHANGED <<pending, out, healed, fresh>>

\* receiveUser, by the gateway.
Receive ==
  /\ out # <<>> /\ out' = Tail(out) /\ UNCHANGED <<pending, flying, healed, fresh>>

Heal == ~healed /\ healed' = TRUE /\ UNCHANGED <<pending, flying, out, fresh>>

QNext ==
  \/ \E k \in Keys : findUser(k)
  \/ \E c \in Clients, s \in 0 .. Stamps : Answered(c, s)
  \/ \E k \in Keys, s \in 0 .. Stamps : Spontaneous(k, s)
  \/ \E c \in Clients : Lose(c)
  \/ Receive \/ Heal

QFairness ==
  /\ \A c \in Clients : SF_queryVars(\E s \in 0 .. Stamps : Answered(c, s))
  /\ WF_queryVars(Receive)

\* Answers that were lost once, or are counted for another query, never keep a
\* later query from being answered: no key is stuck in m_userQueries.
AnswerComes == \A k \in Keys : k \in fresh ~> k \notin fresh

\* The comment on Update: "Updates the entry, but only if the timestamp is
\* newer": what the gateway gets is the newest of the answers.
OnlyNewer == \A i \in 1 .. Len(out) : out[i].stamp = out[i].newest
=============================================================================
