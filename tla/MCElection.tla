----------------------------- MODULE MCElection -----------------------------
(* Instances of Election for TLC. *)
EXTENDS Election

AllCandidates == [n \in Node |-> 0]

OneConnect ==
    [k \in Change |-> IF k = "connect" THEN 1 ELSE 0]

\* Nodes 1 and 2 have elected 2 and meet node 3 in time; or 1 and 2 have just
\* started, 3 is there, and messages are lost and timers expire at any moment.
JoinOrLoss == {[formed |-> {1, 2}, timely |-> TRUE],
               [formed |-> {3}, timely |-> FALSE]}
=============================================================================
