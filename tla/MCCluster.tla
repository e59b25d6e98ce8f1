------------------------------ MODULE MCCluster ------------------------------
(***************************************************************************)
(* What the cluster knows of itself, for TLC: its map (Topology), the      *)
(* placement of a model on it (Placement), the images that workers have of *)
(* requests (InputImages), the custom models (ModelCards), which instance  *)
(* prefills for which (Links), who may do what at the chat server          *)
(* (Accounts), and what a node is told of its connections (Discovery), of  *)
(* the items of a topic (Routing), of the processes of its runners         *)
(* (ChildProcess) and of the events it has logged (DiskEventLog), and the  *)
(* llama.cpp servers that requests may go to instead (Replicas).  They     *)
(* share no state here: a behaviour is one of one of them, and the         *)
(* variables of the others are Off, or where they start.                   *)
(***************************************************************************)
EXTENDS Accounts, Topology, Links, Replicas, ModelCards, Discovery, InputImages, DiskEventLog, TLC

VARIABLES
  part,
  wires, room, enabled, able, loaded, command, placed,
  policy, state, senders, inbox, queue, pub, outgoing, gone, count, running,
  run, child, held, exitcode, text, events, closed, receiver

Off == "off"

placement == <<wires, room, enabled, able, loaded, command, placed>>
topic == <<policy, state, senders, inbox, queue, pub, outgoing, gone, count, running>>
process == <<run, child, held, exitcode, text, events, closed, receiver>>

OffPlacement ==
  /\ wires = Off /\ room = Off /\ enabled = Off /\ able = Off /\ loaded = Off
  /\ command = Off /\ placed = Off

OffTopic ==
  /\ policy = Off /\ state = Off /\ senders = Off /\ inbox = Off /\ queue = Off
  /\ pub = Off /\ outgoing = Off /\ gone = Off /\ count = Off /\ running = Off

OffProcess ==
  /\ run = Off /\ child = Off /\ held = Off /\ exitcode = Off /\ text = Off /\ events = Off
  /\ closed = Off /\ receiver = Off

-----------------------------------------------------------------------------
\* The map: nodes with a cable between any two.
EveryTwo == {p \in Nodes \X Nodes : p[1] # p[2]}

\* Placement: full meshes, rings and lines, with and without RDMA.
Pairs(n) == {p \in (1..n) \X (1..n) : p[1] # p[2]}

RingOf(n) == {<<i, (i % n) + 1>> : i \in 1..n}

BothWays(ps) == ps \cup {<<p[2], p[1]>> : p \in ps}

Over(pairs, kind) == {<<p[1], p[2], kind>> : p \in pairs}

Wires ==
  {Over(Pairs(4), "ethernet"),
   Over(BothWays(RingOf(4)), "wifi"),
   Over(RingOf(3), "ethernet"),
   Over(Pairs(3), "rdma") \cup Over(Pairs(3), "thunderbolt")
     \cup Over({<<1, 2>>, <<2, 3>>, <<3, 2>>}, "ethernet"),
   Over(BothWays(RingOf(3)), "ethernet") \cup Over({<<1, 2>>, <<2, 1>>}, "rdma"),
   {<<2, 1, "wifi">>}}

Base ==
  [storage |-> 3, layers |-> 4, sharding |-> "Pipeline", meta |-> "MlxRing",
   supports_tensor |-> TRUE, hidden |-> 6, kv_heads |-> 2, pipeline |-> "any", cfg |-> FALSE,
   min_nodes |-> 1, required |-> {}]

Wanted ==
  {Base,
   [Base EXCEPT !.min_nodes = 3, !.layers = 5],
   [Base EXCEPT !.cfg = TRUE, !.storage = 5, !.layers = 3, !.min_nodes = 4],
   [Base EXCEPT !.meta = "MlxJaccl", !.min_nodes = 2, !.sharding = "Tensor"],
   [Base EXCEPT !.meta = "MlxJaccl", !.min_nodes = 3],
   [Base EXCEPT !.pipeline = "single", !.required = {2}],
   [Base EXCEPT !.pipeline = "never"],
   [Base EXCEPT !.layers = 2, !.min_nodes = 2, !.storage = 5]}

P == INSTANCE Placement WITH
       Wirings <- Wires, Memories <- {0, 1, 4}, Commands <- Wanted, memory <- room, links <- wires

\* Images: three requests that share ivars, at one API node or at two.
Of(a, kind, which) == [api |-> a, kind |-> kind, images |-> which]

Shared ==
  {[r1 |-> Of("a1", "text", <<"x", "y">>), r2 |-> Of("a1", "text", <<"y">>),
    r3 |-> Of("a1", "edit", <<"y">>)],
   [r1 |-> Of("a1", "text", <<"y">>), r2 |-> Of("a2", "text", <<"y">>),
    r3 |-> Of("a1", "text", <<>>)]}

\* The larger image is of two chunks.
TwoAndOneChunks == [x |-> 2, y |-> 1]

\* Links: two instances of one model.
OneModel == [i \in Instances |-> "m"]

\* Accounts: the two that are made first, and one that a Google user may get.
AdminOrNext == <<"admin", "admin-2">>

\* Two receivers of a topic.
R == INSTANCE Routing WITH
       Receivers <- {1, 2}, Policies <- {"Never", "Minimal", "Always"}, MaxItems <- 2,
       MaxArrivals <- 1

\* A child that writes a line to each stream and sends two events.
Y == INSTANCE ChildProcess WITH Attempts <- 3, MaxOutput <- 1, MaxEvents <- 2

\* Two sessions, with records of different lengths.
TwoSessions == <<<<2, 1, 1, 2>>, <<1, 1>>>>

\* A replica of two models that takes two requests, and one of one model.
TwoAndOne == <<{"a", "b"}, {"a"}>>

TwoAndOneAtATime == <<2, 1>>

ASSUME R!RoutingAssumption
ASSUME Y!ChildAssumption

-----------------------------------------------------------------------------
\* All is off but what the part is about.
CInit ==
  /\ part \in {"topology", "placement", "images", "models", "prefill", "accounts",
               "connections", "topic", "process", "log", "replicas"}
  /\ IF part = "placement" THEN P!PInit ELSE OffPlacement
  /\ TInit /\ UInit /\ LInit /\ QInit /\ MInit /\ DInit /\ IInit /\ ZInit
  /\ part # "prefill" => instances = {}
  /\ part # "images" => upload["r2"].api = "a1"
  /\ part # "log" => owner = "master"
  /\ IF part = "topic" THEN R!RInit ELSE OffTopic
  /\ IF part = "process" THEN Y!YInit ELSE OffProcess

CNext ==
  \/ /\ part = "topology" /\ TNext
     /\ UNCHANGED <<part, placement, ivars, mvars, lvars, uvars, dvars,
                    topic, process, zvars, qvars>>
  \/ /\ part = "placement" /\ P!PlaceInstance
     /\ UNCHANGED <<part, tvars, ivars, mvars, lvars, uvars, dvars,
                    topic, process, zvars, qvars>>
  \/ /\ part = "images" /\ INext
     /\ UNCHANGED <<part, tvars, placement, mvars, lvars, uvars, dvars,
                    topic, process, zvars, qvars>>
  \/ /\ part = "models" /\ MNext
     /\ UNCHANGED <<part, tvars, placement, ivars, lvars, uvars, dvars,
                    topic, process, zvars, qvars>>
  \/ /\ part = "prefill" /\ LNext
     /\ UNCHANGED <<part, tvars, placement, ivars, mvars, uvars, dvars,
                    topic, process, zvars, qvars>>
  \/ /\ part = "accounts" /\ UNext
     /\ UNCHANGED <<part, tvars, placement, ivars, mvars, lvars, dvars,
                    topic, process, zvars, qvars>>
  \/ /\ part = "connections" /\ DNext
     /\ UNCHANGED <<part, tvars, placement, ivars, mvars, lvars, uvars,
                    topic, process, zvars, qvars>>
  \/ /\ part = "topic" /\ R!RNext
     /\ UNCHANGED <<part, tvars, placement, ivars, mvars, lvars, uvars,
                    dvars, process, zvars, qvars>>
  \/ /\ part = "process" /\ Y!YNext
     /\ UNCHANGED <<part, tvars, placement, ivars, mvars, lvars, uvars,
                    dvars, topic, zvars, qvars>>
  \/ /\ part = "log" /\ ZNext
     /\ UNCHANGED <<part, tvars, placement, ivars, mvars, lvars, uvars,
                    dvars, topic, process, qvars>>
  \/ /\ part = "replicas" /\ QNext
     /\ UNCHANGED <<part, tvars, placement, ivars, mvars, lvars, uvars,
                    dvars, topic, process, zvars>>

CSpec ==
  CInit /\ [][CNext]_<<part, tvars, placement, ivars, mvars, lvars, uvars, dvars,
                     topic, process, zvars, qvars>>

Interchangeable == Permutations(Nodes)

-----------------------------------------------------------------------------
\* The properties, each of its part; those of the map, of links, of cards, of
\* accounts and of images are in their modules.

\* A pipeline runs through every layer of the model exactly once, and no stage has
\* more layers than its node has memory for; whoever has to connect has an address of
\* the other; and a model that fits on one suitable node is placed on one.  And no request
\* waits for a llama.cpp server while one is free, or shares one that is full.
PlacementIsSound ==
  /\ part = "placement" => P!LayersCovered /\ P!PeersReachable /\ P!PlacedWhenItFits
  /\ LeasesAreCounted /\ NobodyIsOverlooked

\* Python is told of every connection and of its end, in this order; and every receiver
\* of a topic gets its items, each once and in order, and each item goes its way; and a
\* runner's process has ended, with its streams, when its supervisor is told so; and what
\* is read of a log are its events, whatever is written and archived meanwhile.
NothingUntold ==
  /\ part = "connections" => ConnectionsAreTold
  /\ part = "topic" => R!RoutingHolds
  /\ part = "process" => Y!ChildIsGone /\ Y!ReceiverIsTold
  /\ part = "log" => ReadsInOrder /\ ArchivesAreWhole
=============================================================================
