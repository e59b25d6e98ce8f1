------------------------- MODULE EventSourcingLive -------------------------
(***************************************************************************)
(* Liveness of EventSourcing.  A router that misses the last event of the  *)
(* log learns of it only from a later one: nothing else starts a nack, and *)
(* the master does not answer a retried event that it has indexed already. *)
(* In the running system later events never end, since every worker's      *)
(* InfoGatherer reports forever; here the senders stop at MaxEmit, and     *)
(* LaterTraffic stands for the arrival of an event beyond that bound.      *)
(***************************************************************************)
EXTENDS MCEventSourcing

(* _run_ext_in on an event whose index is above everything in the model:   *)
(* it is held back, drains nothing and starts a nack if none is waiting.   *)
LaterTraffic(n) ==
  /\ emitted = MaxEmit
  /\ buf[n].next < Len(log)
  /\ nack[n] = NoNack
  /\ nack' = [nack EXCEPT ![n] = NackAfter(@, buf[n])]
  /\ UNCHANGED <<emitted, outForDelivery, toMaster, stores, log, toNode, buf,
                 delivered, requests>>

LiveNext == Next \/ \E n \in Node : LaterTraffic(n)

Emittable == {e \in Source \X (0 .. 2) : e[2] < MaxEmit[e[1]]}

(* Timers fire and running tasks go on (weak fairness).  Of a message that *)
(* is sent again and again one copy arrives (strong fairness): gossipsub   *)
(* drops messages when queues are full or peers are away, not always.      *)
Fairness ==
  /\ \A s \in Source : WF_vars(Emit(s))
  /\ \A n \in Node : WF_vars(SendNack(n)) /\ WF_vars(LaterTraffic(n))
  /\ \A e \in Emittable :
       /\ WF_vars(Retry(Home[e[1]]) /\ LocalForwarderEvent(e) \in toMaster')
       /\ SF_vars(Index(LocalForwarderEvent(e)))
  /\ \A k \in 0 .. (Cardinality(Emittable) - 1) :
       /\ SF_vars(Reply(k))
       /\ \A n \in Node : SF_vars(\E m1 \in toNode[n] : m1.idx = k /\ Receive(n, m1))

LiveSpec == Init /\ [][LiveNext]_vars /\ Fairness

(* Every event that is written, traces excepted, reaches every node in     *)
(* spite of lost, repeated and reordered messages in both directions: the  *)
(* retry carries it up and the nack carries it down.                       *)
ReachesEveryNode ==
  <>[](\A n \in Node : \A e \in Emittable \ Trace :
         \E i \in 1 .. Len(delivered[n]) : delivered[n][i] = e)

(* Retrying ends: _run_ext_in sees every indexed event come back, in       *)
(* sequence or not, and forgets it.  TracesCollected events are never      *)
(* indexed, so they never come back and are retried for the whole session. *)
RetriesEnd ==
  <>[](\A n \in Node : outForDelivery[n] \subseteq Trace)
=============================================================================
