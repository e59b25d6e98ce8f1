------------------------------ MODULE Discovery ------------------------------
(***************************************************************************)
(* How a node finds the others and stays connected to them: the discovery  *)
(* behaviour (rust/networking/src/discovery.rs), the swarm that drives it  *)
(* (swarm.rs) and what Python is told of connections (exo_pyo3_bindings,   *)
(* networking.rs), as one node sees it.                                    *)
(*                                                                         *)
(* The swarm polls the behaviour, which does one thing at a time: it takes *)
(* a report of mDNS or of a ping, or the time to retry has come, or the    *)
(* first of its pending events goes out.  mDNS, the other nodes and libp2p *)
(* are the environment; it changes MaxChanges times.                       *)
(***************************************************************************)
EXTENDS Integers, Sequences, FiniteSets, SequencesExt

CONSTANTS
  Peers,
  Addrs,        \* the addresses under which mDNS announces a peer
  Bootstrap,    \* bootstrap_peers: the peers at those addresses
  MaxConns,     \* bound: connections to one peer
  MaxPending,   \* bound: pending events
  MaxChanges    \* bound: peers that go, come, are announced, expire or dial

VARIABLES
  up,          \* the peers that can be reached
  discovered,  \* Behaviour.mdns_discovered
  pending,     \* Behaviour.pending_events
  dialing,     \* dials under way
  conns,       \* the swarm's connections, <<peer, number>>
  told,        \* by peer, connections that Python was told of, less those it was told to be closed
  changes

dvars == <<up, discovered, pending, dialing, conns, told, changes>>

ASSUME DiscoveryAssumption ==
  /\ IsFiniteSet(Peers) /\ IsFiniteSet(Addrs) /\ Bootstrap \subseteq Peers
  /\ MaxConns \in Nat \ {0} /\ MaxPending \in Nat /\ MaxChanges \in Nat

ConnsOf(p) == {c \in conns : c[1] = p}

Change == changes < MaxChanges /\ changes' = changes + 1

Room(n) == Len(pending) + n <= MaxPending

-----------------------------------------------------------------------------
\* What the behaviour does with its queue.

Dial(p, how) == <<"dial", p, how>>

PushBack(events) == pending' = pending \o events

\* "push front to make this IMMEDIATE"
CloseConnection(c) == pending' = <<<<"close", c>>>> \o pending

OnConnectionEstablished(c) == PushBack(<<<<"established", c>>>>)

OnConnectionClosed(queue, c) == Append(queue, <<"closed", c>>)

-----------------------------------------------------------------------------
\* mDNS: what it has announced it announces again only when it has expired meanwhile.

HandleMdnsDiscovered(p, a) ==
  /\ a \notin discovered[p] /\ Change /\ Room(1)
  /\ discovered' = [discovered EXCEPT ![p] = @ \cup {a}]
  /\ PushBack(<<Dial(p, "peer")>>)
  /\ UNCHANGED <<up, dialing, conns, told>>

\* Connections stay.
HandleMdnsExpired(p, a) ==
  /\ a \in discovered[p] /\ Change
  /\ discovered' = [discovered EXCEPT ![p] = @ \ {a}]
  /\ UNCHANGED <<up, pending, dialing, conns, told>>

\* An address that was given, without the id of the peer behind it.
DialBootstrap == [i \in 1 .. Cardinality(Bootstrap) |-> Dial(SetToSeq(Bootstrap)[i], "address")]

\* The retry interval is over: every address that mDNS knows, and the bootstrap peers.
Retries ==
  LET all == SetToSeq({known \in Peers \X Addrs : known[2] \in discovered[known[1]]})
  IN  [i \in DOMAIN all |-> Dial(all[i][1], "peer")] \o DialBootstrap

Retry ==
  /\ Retries # <<>> /\ Room(Len(Retries))
  /\ PushBack(Retries)
  /\ UNCHANGED <<up, discovered, dialing, conns, told, changes>>

\* A ping fails, of a connection that is not being closed for that reason already.
PingFails(c) ==
  /\ c \in conns /\ c[1] \notin up /\ <<"close", c>> \notin ToSet(pending) /\ Room(1)
  /\ CloseConnection(c)
  /\ UNCHANGED <<up, discovered, dialing, conns, told, changes>>

-----------------------------------------------------------------------------
\* Swarm.into_stream: the first pending event goes to the swarm, or through
\* filter_swarm_event to Python.

\* libp2p dials a peer that it knows by its id only if it is neither connected to it nor
\* dialing it; an address it dials in any case.
PollDial(p, how) ==
  /\ dialing' = IF how = "peer" /\ (ConnsOf(p) # {} \/ \E d \in dialing : d[1] = p) THEN dialing
                ELSE dialing \cup {<<p, how>>}
  /\ pending' = Tail(pending)
  /\ UNCHANGED <<conns, told>>

PollClose(c) ==
  /\ conns' = conns \ {c}
  /\ pending' = IF c \in conns THEN OnConnectionClosed(Tail(pending), c) ELSE Tail(pending)
  /\ UNCHANGED <<dialing, told>>

\* FromSwarm.Discovered and FromSwarm.Expired: the peer is all that is told.
PollTell(c, by) ==
  /\ told' = [told EXCEPT ![c[1]] = @ + by]
  /\ pending' = Tail(pending)
  /\ UNCHANGED <<dialing, conns>>

Poll ==
  /\ pending # <<>>
  /\ LET e == Head(pending) IN
       CASE e[1] = "dial" -> PollDial(e[2], e[3])
         [] e[1] = "close" -> PollClose(e[2])
         [] e[1] = "established" -> PollTell(e[2], 1)
         [] e[1] = "closed" -> PollTell(e[2], -1)
  /\ UNCHANGED <<up, discovered, changes>>

-----------------------------------------------------------------------------
\* libp2p and the others.

NewConn(p) ==
  CHOOSE c \in {p} \X (1 .. MaxConns + MaxPending) :
    c \notin conns /\ \A i \in DOMAIN pending : pending[i][1] # "dial" => pending[i][2] # c

Established(p) ==
  /\ Cardinality(ConnsOf(p)) < MaxConns /\ Room(1)
  /\ conns' = conns \cup {NewConn(p)}
  /\ OnConnectionEstablished(NewConn(p))

DialSucceeds(d) ==
  /\ d \in dialing /\ d[1] \in up
  /\ Established(d[1])
  /\ dialing' = dialing \ {d}
  /\ UNCHANGED <<up, discovered, told, changes>>

DialFails(d) ==
  /\ d \in dialing
  /\ dialing' = dialing \ {d}
  /\ UNCHANGED <<up, discovered, pending, conns, told, changes>>

Inbound(p) ==
  /\ p \in up /\ Change
  /\ Established(p)
  /\ UNCHANGED <<up, discovered, dialing, told>>

\* A connection breaks, or is closed by the other side.
Breaks(c) ==
  /\ c \in conns /\ Room(1) /\ Change
  /\ conns' = conns \ {c}
  /\ pending' = OnConnectionClosed(pending, c)
  /\ UNCHANGED <<up, discovered, dialing, told>>

GoesOrComes(p) ==
  /\ Change
  /\ up' = IF p \in up THEN up \ {p} ELSE up \cup {p}
  /\ UNCHANGED <<discovered, pending, dialing, conns, told>>

-----------------------------------------------------------------------------
DInit ==
  /\ up = Peers /\ pending = <<>> /\ dialing = {} /\ conns = {} /\ changes = 0
  /\ discovered = [p \in Peers |-> {}]
  /\ told = [p \in Peers |-> 0]

DNext ==
  \/ \E p \in Peers, a \in Addrs : HandleMdnsDiscovered(p, a) \/ HandleMdnsExpired(p, a)
  \/ Retry \/ Poll
  \/ \E c \in conns : PingFails(c) \/ Breaks(c)
  \/ \E d \in dialing : DialSucceeds(d) \/ DialFails(d)
  \/ \E p \in Peers : Inbound(p) \/ GoesOrComes(p)

DSpec == DInit /\ [][DNext]_dvars

-----------------------------------------------------------------------------
Conn == Peers \X Nat

Reach == Peers \X {"peer", "address"}

Item ==
  ({"dial"} \X Peers \X {"peer", "address"}) \cup ({"close", "established", "closed"} \X Conn)

\* The type of every variable.
DiscoveryTypeOK ==
  /\ up \in SUBSET Peers
  /\ discovered \in [Peers -> SUBSET Addrs]
  /\ pending \in Seq(Item) /\ Len(pending) <= MaxPending
  /\ dialing \in SUBSET Reach
  /\ conns \in SUBSET Conn
  /\ told \in [Peers -> Int]
  /\ changes \in 0 .. MaxChanges

Pending(what, p) ==
  Cardinality({i \in DOMAIN pending : pending[i][1] = what /\ pending[i][2][1] = p})

\* Python is told of every connection and of its end, in this order: what it was told
\* less what waits is what there is, and it is never told of more ends than connections
\* (on_connection_established, on_connection_closed; a connection that is to be closed
\* overtakes everything in the queue, the events must not).
ConnectionsAreTold ==
  \A p \in Peers :
    /\ told[p] >= 0
    /\ told[p] + Pending("established", p) - Pending("closed", p) = Cardinality(ConnsOf(p))
=============================================================================
