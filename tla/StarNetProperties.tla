--------------------------- MODULE StarNetProperties ---------------------------
(***************************************************************************)
(* What a StarNet group promises, while the program is still defined.      *)
(***************************************************************************)
EXTENDS StarNet

\* Type invariant.
StarNetTypeOK ==
  /\ Members \subseteq Users /\ nulls \subseteq Users \ Members
  /\ \A u \in Members : member[u] \in 0..UserLife
  /\ DOMAIN tx \subseteq Streams /\ \A i \in DOMAIN tx : tx[i] \in Tx
  /\ speaker \in Streams \cup {0}
  /\ relay \in [Repeaters -> {"NO", "YES", "STALE"}]
  /\ groupAge \in 0..(GroupLife + 1)
  /\ linkTimer \in {"OFF", "RUNNING"}
  /\ quiet \in BOOLEAN /\ defined \in BOOLEAN

\* The stream that keeps all others from being relayed is one some timer is
\* watching: a stream in m_ids that is not over, or the reflector's.  Header
\* with a reused identifier, log-off in mid-stream and remote log-off included.
SpeakerWatched ==
  speaker # 0 => \/ speaker \in DOMAIN tx /\ ~tx[speaker].end
                 \/ linkTimer # "OFF"

\* A stream points at the user who sends it.  Time-outs never delete a user a
\* stream still points at, whatever the order of headers, frames, log-offs and
\* ticks; only a log-off by the remote control does.
UsersOutliveStreams ==
  [][(\E i \in DOMAIN tx : tx[i].owner = "FREED")' =>
       (\E i \in DOMAIN tx : tx[i].owner = "FREED") \/ RemoteLogoff]_vars

\* When the air falls silent in the middle of anything, the group comes to
\* rest: nothing relayed, every stream answered or forgotten, and nobody
\* left but the permanent members.
ComesToRest ==
  quiet ~> \/ ~defined
           \/ /\ speaker = 0 /\ tx = <<>>
              /\ GroupLife + UserLife > 0 => Members \subseteq Permanent

\* "If none then clear all the data structures": once the remote control has
\* logged off the last member there is no list of repeaters left either.
NoneLeftAllClear == Members = {} /\ tx = <<>> /\ speaker = 0 => relay = NoRelay

================================================================================
