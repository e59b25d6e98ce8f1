----------------------------- MODULE MCElectLoop ----------------------------
(* Instances of ElectLoop for TLC. *)
EXTENDS ElectLoop

AllCandidates == [n \in Node |-> 0]
LargestIsNoCandidate ==
    [n \in Node |-> IF \A m \in Node : m <= n THEN -1 ELSE 0]

ConnectAndRestart == [k \in Change |-> IF k = "disconnect" THEN 0 ELSE 1]
OneOfEach == [k \in Change |-> 1]

FromBoot == {[formed |-> {}, timely |-> TRUE]}
FromCluster == {[formed |-> Node, timely |-> TRUE]}
=============================================================================
