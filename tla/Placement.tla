-------------------------------- MODULE Placement ------------------------------
(***************************************************************************)
(* place_instance (master/placement.py) with its helpers (placement_utils) *)
(* and the queries that it makes of the topology (shared/topology.py): the *)
(* cycle of nodes on which a model is placed, the layers that each node    *)
(* gets, and the addresses by which the nodes reach each other.            *)
(*                                                                         *)
(* Where the code takes the first of several equals, out of an order that  *)
(* the graph library does not define, any of them may be taken.  Memory is *)
(* counted in small units and fractions are exact, where the code rounds   *)
(* floating-point numbers.                                                 *)
(***************************************************************************)
EXTENDS Integers, Sequences, FiniteSets, SequencesExt, FiniteSetsExt, Functions, Cycles

CONSTANTS
  Wirings,    \* sets of links <<from, to, kind of interface>>
  Memories,   \* what each node may have of free memory
  Commands    \* PlaceInstance commands, each with the card of its model

VARIABLES
  links,      \* the links of the topology; the kind is "rdma" or an interface
  memory,     \* node_memory: the free memory of the nodes that have reported
  enabled,    \* the nodes on which rdma_ctl is enabled
  able,       \* the nodes with a backend that the model and the engine need
  loaded,     \* how much of the model each node has downloaded
  command,
  placed      \* the instance, or why there is none yet

No == [status |-> "no"]

Refused == [status |-> "refused"]

pvars == <<links, memory, enabled, able, loaded, command, placed>>

--------------------------------------------------------------------------------
(* Queries of the topology. *)

Vertices == DOMAIN loaded

Between(i, j) == {e[3] : e \in {l \in links : l[1] = i /\ l[2] = j}}

Neighbours(i) == {j \in Vertices : Between(i, j) # {}}

GetCycles ==
  CyclesOf(Vertices, {<<l[1], l[2]>> : l \in links}) \cup {<<n>> : n \in Vertices}

NodeIsLeaf(n) == Cardinality(Neighbours(n)) <= 1

(* is_rdma_cycle: wherever two nodes of the cycle are linked, RDMA links them. *)
IsRdmaCycle(c) ==
  \A i \in Range(c) : \A j \in Neighbours(i) \cap Range(c) : "rdma" \in Between(i, j)

--------------------------------------------------------------------------------
(* The choice of a cycle. *)

FreeMemory(c) == FoldSeq(LAMBDA n, sum : memory[n] + sum, 0, c)

FilterByMemory(cs) ==
  {c \in cs : /\ Range(c) \subseteq DOMAIN memory
              /\ FreeMemory(c) >= command.storage}

(* Tensor sharding must divide the model; some models cannot be pipelined,   *)
(* or only on one node.                                                      *)
FilterBySharding(cs) ==
  CASE command.sharding = "Tensor" ->
         {c \in cs : /\ command.supports_tensor
                     /\ command.hidden % Len(c) = 0
                     /\ command.kv_heads % Len(c) = 0}
    [] command.pipeline = "never"  -> {}
    [] command.pipeline = "single" -> {c \in cs : Len(c) = 1}
    [] OTHER                       -> cs

GetSmallest(cs) ==
  LET least == Min({Len(c) : c \in cs}) IN {c \in cs : Len(c) = least}

FilterByEngine(cs) ==
  LET backed == {c \in cs : Range(c) \subseteq able} IN
  IF command.meta = "MlxJaccl"
    THEN {c \in backed : IsRdmaCycle(c) /\ Range(c) \subseteq enabled}
    ELSE backed

(* Cycles with a leaf go first; then what is downloaded, then free memory. *)
Prefer(cs) ==
  LET leaves == {c \in cs : \E n \in Range(c) : NodeIsLeaf(n)}
      pool == IF leaves # {} THEN leaves ELSE cs
      have(c) == FoldSeq(LAMBDA n, sum : loaded[n] + sum, 0, c)
      best == Max({have(c) : c \in pool})
      top == {c \in pool : have(c) = best}
      most == Max({FreeMemory(c) : c \in top}) IN
  {c \in top : FreeMemory(c) = most}

Candidates ==
  {c \in GetCycles : Len(c) >= command.min_nodes /\ command.required \subseteq Range(c)}

Selected ==
  Prefer(FilterByEngine(GetSmallest(FilterBySharding(FilterByMemory(Candidates)))))

--------------------------------------------------------------------------------
(* The layers of each node. *)

Total(s) == FoldSeq(LAMBDA x, sum : x + sum, 0, s)

(* Largest remainder: of the layers left over by rounding down, one each goes *)
(* to the nodes with the largest remainders, the earlier first.               *)
RoundShares(layers, free) ==
  LET all == Total(free)
      floor == [i \in DOMAIN free |-> (free[i] * layers) \div all]
      rest == [i \in DOMAIN free |-> (free[i] * layers) % all]
      before(i) == {j \in DOMAIN free : rest[j] > rest[i] \/ (rest[j] = rest[i] /\ j < i)} IN
  [i \in DOMAIN free |->
     floor[i] + (IF Cardinality(before(i)) < layers - Total(floor) THEN 1 ELSE 0)]

(* A node without layers takes one from the first of those with the most. *)
TakeFromLargest(shares, i) ==
  LET most == CHOOSE j \in DOMAIN shares :
                \A k \in DOMAIN shares : /\ shares[k] <= shares[j]
                                         /\ k < j => shares[k] < shares[j] IN
  IF shares[i] > 0 THEN shares ELSE [shares EXCEPT ![most] = @ - 1, ![i] = 1]

AllocateLayersProportionally(layers, free) ==
  FoldLeft(LAMBDA shares, i : TakeFromLargest(shares, i),
           RoundShares(layers, free), [i \in DOMAIN free |-> i])

(* What _allocate_and_validate_layers refuses: no memory at all, fewer       *)
(* layers than nodes, a node without the memory for its share.               *)
Allocatable(c) ==
  LET free == [i \in DOMAIN c |-> memory[c[i]]]
      shares == AllocateLayersProportionally(command.layers, free) IN
  /\ Total(free) > 0
  /\ command.layers >= Len(c)
  /\ \A i \in DOMAIN c : (command.storage * shares[i]) \div command.layers <= free[i]

Allocation(c) == AllocateLayersProportionally(command.layers, [i \in DOMAIN c |-> memory[c[i]]])

Upto(shares, k) == MapThenSumSet(LAMBDA i : shares[i], 1 .. k)

Shard(shares, rank) == [start |-> Upto(shares, rank - 1), end |-> Upto(shares, rank)]

(* Models with classifier-free guidance run two pipelines on an even number  *)
(* of nodes: the second half of the cycle mirrors the first.                 *)
UsesCfg(c) == command.cfg /\ Len(c) % 2 = 0

Half(c) == SubSeq(c, 1, Len(c) \div 2)

(* The nodes whose memory decides the layers of a pipeline. *)
Pipeline(c) == IF UsesCfg(c) THEN Half(c) ELSE c

(* A mutant: the second pipeline runs in the same direction as the first. *)
StageInOrder(c, rank) == IF rank > Len(Half(c)) THEN rank - Len(Half(c)) ELSE rank

StageOf(c, rank) == IF rank > Len(Half(c)) THEN Len(c) + 1 - rank ELSE rank

ShardAssignments(c, sharding) ==
  [rank \in DOMAIN c |->
     CASE sharding = "Tensor" -> [start |-> 0, end |-> command.layers]
       [] UsesCfg(c) -> Shard(Allocation(Half(c)), StageOf(c, rank))
       [] OTHER      -> Shard(Allocation(c), rank)]

--------------------------------------------------------------------------------
(* Addresses. *)

RingOrder == <<"thunderbolt", "maybe_ethernet", "ethernet", "wifi", "unknown">>

JacclOrder == <<"ethernet", "wifi", "unknown", "maybe_ethernet", "thunderbolt">>

(* find_ip_prioritised; {} if there is no address. *)
FindIp(i, j, order) ==
  LET kinds == Between(i, j) \cap Range(order)
      place(k) == CHOOSE p \in DOMAIN order : order[p] = k IN
  {k \in kinds : \A l \in kinds : place(k) <= place(l)}

(* The ranks next to one another in the ring. *)
Adjacent(c, i) == {((i - 2) % Len(c)) + 1, (i % Len(c)) + 1} \ {i}

(* get_mlx_ring_hosts_by_node needs an address for both neighbours of each   *)
(* node; get_mlx_jaccl_devices_matrix an RDMA link for every pair, and       *)
(* get_mlx_jaccl_coordinators an address of rank 0 for everyone.             *)
Reachable(c, meta) ==
  IF meta = "MlxRing"
    THEN \A i \in DOMAIN c : \A j \in Adjacent(c, i) : FindIp(c[i], c[j], RingOrder) # {}
    ELSE /\ \A i, j \in DOMAIN c : i # j => "rdma" \in Between(c[i], c[j])
         /\ \A i \in DOMAIN c \ {1} : FindIp(c[i], c[1], JacclOrder) # {}

Hosts(c, meta) ==
  [i \in DOMAIN c |->
     [j \in (IF meta = "MlxRing" THEN Adjacent(c, i) ELSE {1} \ {i}) |->
        FindIp(c[i], c[j], IF meta = "MlxRing" THEN RingOrder ELSE JacclOrder)]]

--------------------------------------------------------------------------------
PInit ==
  /\ command \in Commands
  /\ links \in Wirings
  /\ loaded \in {[n \in 1 .. k |-> IF n = 2 THEN 1 ELSE 0] : k \in {Max({2} \cup {l[1] : l \in links})}}
  /\ memory \in [Vertices -> Memories] \cup [Vertices \ {1} -> Memories]
  /\ enabled \in {Vertices, Vertices \ {1}}
  /\ able \in {Vertices, enabled}
  /\ placed = No

(* On one node tensor sharding and Jaccl make no sense. *)
Build(c) ==
  LET alone == Len(c) = 1
      sharding == IF alone THEN "Pipeline" ELSE command.sharding
      meta == IF alone THEN "MlxRing" ELSE command.meta IN
  IF (sharding = "Pipeline" => Allocatable(Pipeline(c))) /\ Reachable(c, meta)
    THEN [status |-> "placed", nodes |-> c, sharding |-> sharding, meta |-> meta,
          shards |-> ShardAssignments(c, sharding), hosts |-> Hosts(c, meta)]
    ELSE Refused

PlaceInstance ==
  /\ placed = No
  /\ \/ \E c \in Selected : placed' = Build(c)
     \/ Selected = {} /\ placed' = Refused
  /\ UNCHANGED <<links, memory, enabled, able, loaded, command>>

PSpec == PInit /\ [][PlaceInstance]_pvars

--------------------------------------------------------------------------------
(* Properties. *)

IsPlaced == placed.status = "placed"

(* Follow the ranks from first to last: each takes up the layers where the   *)
(* one before left off, none is left without, and the last ends the model.   *)
Covers(shards) ==
  /\ shards[1].start = 0 /\ shards[Len(shards)].end = command.layers
  /\ \A i \in DOMAIN shards : shards[i].start < shards[i].end
  /\ \A i \in 2 .. Len(shards) : shards[i].start = shards[i - 1].end

(* A pipeline runs through every layer of the model exactly once, in order   *)
(* along the ring; with two pipelines both do, and their last stages are     *)
(* neighbours (placement_utils.py:77-240).  No stage has more layers than    *)
(* the memory of its node holds; of two pipelines the code looks only at the *)
(* first.                                                                    *)
LayersCovered ==
  IsPlaced /\ placed.sharding = "Pipeline" =>
    LET c == placed.nodes
        h == Len(Pipeline(c)) IN
    /\ Covers(SubSeq(placed.shards, 1, h))
    /\ h < Len(c) => Covers(Reverse(SubSeq(placed.shards, h + 1, Len(c))))
    /\ \A i \in 1 .. h :
         (command.storage * (placed.shards[i].end - placed.shards[i].start)) \div command.layers
           <= memory[c[i]]

(* A model that fits on one suitable node is placed, and on one node, in     *)
(* whatever state the other nodes are.                                       *)
FitsOnOne ==
  /\ command.min_nodes = 1 /\ command.required = {}
  /\ command.sharding = "Pipeline" /\ command.pipeline # "never"
  /\ command.meta = "MlxRing"
  /\ \E n \in DOMAIN memory \cap able : memory[n] >= command.storage

PlacedWhenItFits ==
  /\ FitsOnOne /\ placed = Refused => FALSE
  /\ FitsOnOne /\ IsPlaced => Len(placed.nodes) = 1

(* Whoever has to connect has an address of the other that a link of the     *)
(* topology leads to, and an RDMA instance has RDMA between all its nodes,   *)
(* every one of them enabled (placement.py:195-226).                         *)
PeersReachable ==
  IsPlaced =>
    /\ \A i \in DOMAIN placed.hosts : \A j \in DOMAIN placed.hosts[i] :
         /\ placed.hosts[i][j] # {}
         /\ placed.hosts[i][j] \subseteq Between(placed.nodes[i], placed.nodes[j])
    /\ placed.meta = "MlxJaccl" =>
         Range(placed.nodes) \subseteq enabled /\ IsRdmaCycle(placed.nodes)

================================================================================
