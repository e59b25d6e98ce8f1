-------------------------------- MODULE Topology -------------------------------
(***************************************************************************)
(* What the cluster knows of its nodes and of the links between them: the  *)
(* topology, and the node_* mappings of State, as the events of the log    *)
(* change them (shared/topology.py, shared/apply.py), the workers that     *)
(* probe each other and report links (worker/main.py), and the master that *)
(* removes nodes it has not heard of and instances that have lost a node   *)
(* (master/main.py _plan).                                                 *)
(*                                                                         *)
(* An event is decided on one state and applied to a later one: a worker's *)
(* links and the master's time-outs wait in flight, in the order in which  *)
(* each was sent.  What a node says of itself does not depend on State and *)
(* is applied when it is sent.  A node may be slow or down at any time, so *)
(* the master may find any node overdue.                                   *)
(***************************************************************************)
EXTENDS Integers, Sequences, FiniteSets, Functions, Cycles

CONSTANTS
  Nodes,
  Cabled,      \* the pairs of nodes with a Thunderbolt cable between them
  MaxFlight,   \* the reports of one worker that may be in flight
  MaxInfo      \* the number of reports that change a node's own description

ASSUME TopologyAssumption ==
  /\ Cabled \subseteq Nodes \X Nodes
  /\ MaxFlight \in Nat \ {0} /\ MaxInfo \in Nat

VARIABLES
  nodes,      \* the vertices of Topology
  sockets,    \* its SocketConnections
  rdma,       \* its RDMAConnections
  seen,       \* the nodes in last_seen
  memory,     \* the nodes in node_memory
  network,    \* the nodes in node_network
  idents,     \* the nodes in node_thunderbolt
  ctl,        \* node_rdma_ctl: "none", "on" or "off"
  bridge,     \* node_thunderbolt_bridge, likewise
  cycles,     \* thunderbolt_bridge_cycles
  instance,   \* the nodes of an instance; {} when there is none
  flight,     \* the reports of each worker on their way
  overdue,    \* the NodeTimedOut events on their way
  infos       \* how often a node has described itself

tvars == <<nodes, sockets, rdma, seen, memory, network, idents, ctl, bridge, cycles,
           instance, flight, overdue, infos>>

known == <<seen, memory, network, idents, ctl>>

(* get_thunderbolt_bridge_cycles: the loops of Thunderbolt links through     *)
(* nodes whose bridge is on, here as the sets of their nodes.                *)
BridgeCycles(vertices, links, on) ==
  {Range(s) : s \in CyclesOf(vertices \cap on, links)}

On(f) == {n \in Nodes : f[n] = "on"}

Thunderbolt == (sockets \cap Cabled) \cup rdma

Touching(edges, n) == {e \in edges : n \in {e[1], e[2]}}

TInit ==
  /\ nodes = {} /\ sockets = {} /\ rdma = {} /\ seen = {} /\ memory = {}
  /\ network = {} /\ idents = {} /\ cycles = {} /\ instance = {} /\ overdue = {}
  /\ ctl = [n \in Nodes |-> "none"]
  /\ bridge = [n \in Nodes |-> "none"]
  /\ flight = [n \in Nodes |-> <<>>]
  /\ infos = 0

--------------------------------------------------------------------------------
(* apply_node_gathered_info: whatever a node reports, it is a vertex again   *)
(* and has just been seen.                                                   *)
Heard(n) ==
  /\ infos < MaxInfo /\ infos' = infos + 1
  /\ nodes' = nodes \cup {n}
  /\ seen' = seen \cup {n}
  /\ UNCHANGED <<instance, flight, overdue>>

(* MacmonMetrics and MemoryUsage; NodeNetworkInterfaces;                     *)
(* MacThunderboltIdentifiers.                                                *)
Describe(n) ==
  /\ Heard(n)
  /\ \/ memory' = memory \cup {n} /\ UNCHANGED <<network, idents>>
     \/ network' = network \cup {n} /\ UNCHANGED <<memory, idents>>
     \/ idents' = idents \cup {n} /\ UNCHANGED <<memory, network>>
  /\ UNCHANGED <<sockets, rdma, ctl, bridge, cycles>>

(* MacThunderboltConnections: the RDMA links out of n are replaced by those  *)
(* of its cables whose two ends are identified and have RDMA enabled.        *)
ThunderboltConnections(n) ==
  /\ Heard(n)
  /\ rdma' = {e \in rdma : e[1] # n} \cup
             {e \in Cabled : /\ e[1] = n
                             /\ {n, e[2]} \subseteq idents
                             /\ {n, e[2]} \subseteq On(ctl)}
  /\ UNCHANGED <<sockets, memory, network, idents, ctl, bridge, cycles>>

(* remove_all_rdma_connections_touching *)
DropRdma(n) == rdma \ Touching(rdma, n)

(* RdmaCtlStatus *)
RdmaCtl(n, status) ==
  /\ Heard(n)
  /\ ctl' = [ctl EXCEPT ![n] = status]
  /\ rdma' = IF status = "off" THEN DropRdma(n) ELSE rdma
  /\ UNCHANGED <<sockets, memory, network, idents, bridge, cycles>>

(* ThunderboltBridgeInfo: the loops are looked for only when the bridge of   *)
(* this node has been turned on or off.                                      *)
BridgeStatus(n, status) ==
  /\ Heard(n)
  /\ bridge' = [bridge EXCEPT ![n] = status]
  /\ cycles' = IF (bridge[n] = "on") = (status = "on")
                 THEN cycles
                 ELSE BridgeCycles(nodes', Thunderbolt, On(bridge'))
  /\ UNCHANGED <<sockets, rdma, memory, network, idents, ctl>>

--------------------------------------------------------------------------------
(* _poll_connection_updates: a worker probes the nodes whose addresses it    *)
(* knows, reports the links it found and has not got, and takes back those   *)
(* it has got and did not find.                                              *)
Report(w, what, m) ==
  /\ Len(flight[w]) < MaxFlight
  /\ flight' = [flight EXCEPT ![w] = Append(@, [what |-> what, to |-> m])]
  /\ UNCHANGED <<nodes, sockets, rdma, known, bridge, cycles, instance, overdue, infos>>

Discover(w, m) ==
  /\ m \in (nodes \cap network) \ {w} /\ <<w, m>> \notin sockets
  /\ Report(w, "created", m)

Lose(w, m) == <<w, m>> \in sockets /\ Report(w, "deleted", m)

(* add_connection adds the ends of a link that are not vertices. *)
AddConnection(e) ==
  nodes' = nodes \cup {e[1], e[2]} /\ sockets' = sockets \cup {e}

RemoveConnection(e) ==
  nodes' = nodes /\ sockets' = sockets \ {e}

(* apply_topology_edge_created, apply_topology_edge_deleted *)
ApplyEdge(w) ==
  /\ flight[w] # <<>>
  /\ LET event == Head(flight[w]) IN
       IF event.what = "created" THEN AddConnection(<<w, event.to>>)
                                 ELSE RemoveConnection(<<w, event.to>>)
  /\ flight' = [flight EXCEPT ![w] = Tail(@)]
  /\ UNCHANGED <<rdma, known, bridge, cycles, instance, overdue, infos>>

--------------------------------------------------------------------------------
(* The master's _plan. *)

FindOverdue(n) ==
  /\ n \in seen \ overdue
  /\ overdue' = overdue \cup {n}
  /\ UNCHANGED <<nodes, sockets, rdma, known, bridge, cycles, instance, flight, infos>>

Without(n, set) == set \ {n}

(* A mutant: the loops stay as they were. *)
LoopsAsBefore(n) == cycles

(* The loops are looked for again if the bridge of the leaving node was on. *)
LoopsWithout(n) ==
  IF bridge[n] = "on" THEN BridgeCycles(nodes', Thunderbolt', On(bridge')) ELSE cycles

(* apply_node_timed_out: the node and what is known of it is forgotten. *)
NodeTimedOut(n) ==
  /\ n \in overdue /\ overdue' = overdue \ {n}
  /\ nodes' = Without(n, nodes)
  /\ sockets' = sockets \ Touching(sockets, n)
  /\ rdma' = rdma \ Touching(rdma, n)
  /\ seen' = Without(n, seen)
  /\ memory' = Without(n, memory)
  /\ network' = Without(n, network)
  /\ idents' = Without(n, idents)
  /\ ctl' = [ctl EXCEPT ![n] = "none"]
  /\ bridge' = [bridge EXCEPT ![n] = "none"]
  /\ cycles' = LoopsWithout(n)
  /\ UNCHANGED <<instance, flight, infos>>

(* Placement takes nodes of the topology that have reported their memory. *)
Place(chosen) ==
  /\ instance = {}
  /\ chosen # {} /\ chosen \subseteq nodes \cap memory
  /\ instance' = chosen
  /\ UNCHANGED <<nodes, sockets, rdma, known, bridge, cycles, flight, overdue, infos>>

(* Instances that have lost a node are deleted. *)
KillBroken ==
  /\ ~ (instance \subseteq nodes)
  /\ instance' = {}
  /\ UNCHANGED <<nodes, sockets, rdma, known, bridge, cycles, flight, overdue, infos>>

TNext ==
  \/ \E n \in Nodes :
       \/ Describe(n) \/ ThunderboltConnections(n)
       \/ \E status \in {"on", "off"} : RdmaCtl(n, status) \/ BridgeStatus(n, status)
       \/ \E m \in Nodes : Discover(n, m) \/ Lose(n, m)
       \/ ApplyEdge(n) \/ FindOverdue(n) \/ NodeTimedOut(n)
  \/ \E chosen \in SUBSET Nodes : Place(chosen)
  \/ KillBroken

TSpec == TInit /\ [][TNext]_tvars

--------------------------------------------------------------------------------
(* Properties. *)

(* What State knows of the nodes, and what is in flight, has its type. *)
TopologyTypeOK ==
  /\ nodes \subseteq Nodes /\ seen \subseteq Nodes /\ memory \subseteq Nodes
  /\ network \subseteq Nodes /\ idents \subseteq Nodes /\ instance \subseteq Nodes
  /\ overdue \subseteq Nodes
  /\ sockets \subseteq Nodes \X Nodes /\ rdma \subseteq Nodes \X Nodes
  /\ ctl \in [Nodes -> {"none", "on", "off"}] /\ bridge \in [Nodes -> {"none", "on", "off"}]
  /\ cycles \subseteq SUBSET Nodes
  /\ flight \in [Nodes -> Seq([what : {"created", "deleted"}, to : Nodes])]
  /\ infos \in Nat

(* No RDMA link has an end on which RDMA is not known to be enabled, so that *)
(* "placement / topology consumers cannot pick a disabled node for an        *)
(* RDMA-backed instance" (apply.py:456, _is_rdma_ctl_enabled).               *)
RdmaNeedsBothEnds == \A e \in rdma : {e[1], e[2]} \subseteq On(ctl) \cap nodes

(* Every loop of bridges that is reported runs through nodes whose bridge is *)
(* on and that are still there, whatever has left since (state.py:65).       *)
LoopsAreOn == \A c \in cycles : c \subseteq On(bridge) \cap nodes

(* Both: nothing that a report or a time-out has taken back is used by what  *)
(* is placed, or reported, later.                                            *)
MapIsTrue == RdmaNeedsBothEnds /\ LoopsAreOn

================================================================================
