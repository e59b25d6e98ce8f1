--------------------------------- MODULE Cycles --------------------------------
(***************************************************************************)
(* The simple cycles of a directed graph, as Topology.get_cycles and       *)
(* get_thunderbolt_bridge_cycles take them from rustworkx.                 *)
(***************************************************************************)
EXTENDS Integers, Sequences, FiniteSets, Functions

(* rustworkx simple_cycles.  It gives each cycle once, from one of its nodes *)
(* and in no documented order: here each is given from every node.           *)
CyclesOf(vertices, edges) ==
  UNION {{s \in [1 .. k -> vertices] :
            /\ IsInjective(s)
            /\ \A i \in 1 .. k : <<s[i], s[(i % k) + 1]>> \in edges} :
         k \in 2 .. Cardinality(vertices)}

================================================================================
