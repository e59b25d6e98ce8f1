--------------------------- MODULE ReplicatedLog ---------------------------
(***************************************************************************)
(* What exo's event sourcing promises to the components that use it: one   *)
(* totally ordered log, written in one place, of which every node has seen *)
(* a prefix at any time.  An event gets into the log at most once, after   *)
(* it was written, and after every event its sender wrote before it that   *)
(* ever gets there.  Nothing is taken back.                                *)
(***************************************************************************)
EXTENDS Naturals, Sequences

CONSTANTS Node, Source

VARIABLES
  emitted,    \* emitted[s]: how many events sender s has written
  log,        \* the events in their total order
  delivered   \* delivered[n]: the part of the log node n has seen

avars == <<emitted, log, delivered>>

AInit ==
  /\ emitted = [s \in Source |-> 0]
  /\ log = << >>
  /\ delivered = [n \in Node |-> << >>]

AEmit ==
  /\ \E s \in Source : emitted' = [emitted EXCEPT ![s] = @ + 1]
  /\ UNCHANGED <<log, delivered>>

InSenderOrder(l) ==
  \A i, j \in 1 .. Len(l) : i < j /\ l[i][1] = l[j][1] => l[i][2] < l[j][2]

(* Any number of written events join the end of the log.                   *)
AIndex ==
  /\ Len(log) < Len(log')
  /\ \A i \in 1 .. Len(log) : log'[i] = log[i]
  /\ \A i \in (Len(log) + 1) .. Len(log') : log'[i][2] < emitted[log'[i][1]]
  /\ InSenderOrder(log')
  /\ UNCHANGED <<emitted, delivered>>

(* A node sees more of the log.                                            *)
ADeliver ==
  /\ \E n \in Node : \E k \in (Len(delivered[n]) + 1) .. Len(log) :
       delivered' = [delivered EXCEPT ![n] = SubSeq(log, 1, k)]
  /\ UNCHANGED <<emitted, log>>

ANext == AEmit \/ AIndex \/ ADeliver

ASpec == AInit /\ [][ANext]_avars
=============================================================================
