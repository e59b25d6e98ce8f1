--------------------------- MODULE EventSourcing ---------------------------
(***************************************************************************)
(* One session of exo's event sourcing.  Components on every node write    *)
(* events; the node's EventRouter numbers them per sender and publishes    *)
(* them as local events; the elected master resequences each sender's      *)
(* events, appends them to the one event log and publishes them, indexed,  *)
(* as global events; every node's router resequences the global events and *)
(* hands them, in log order, to the worker, the API and the download       *)
(* coordinator, which fold them into their copy of State.                  *)
(*                                                                         *)
(* Gossipsub gives no guarantee: messages to or from another node are      *)
(* lost, delayed and reordered.  The router retries the local events that  *)
(* it has not seen come back, and asks the master for the log when it sees *)
(* an event out of sequence (a "nack").                                    *)
(*                                                                         *)
(* Channel sends inside a process never block (all channels are unbounded  *)
(* and anyio's send does not yield then), so each handler is one step.     *)
(* Time is abstracted: a timer may fire at any moment after it is set.     *)
(***************************************************************************)
EXTENDS OrderedBuffer

CONSTANTS
  Node,        \* nodes of the cluster, each with an EventRouter
  Master,      \* the node whose Master runs this session
  Source,      \* SystemIds: one per sender() handed out by a router
  Home,        \* the node whose router handed the sender out
  Trace,       \* the events that are TracesCollected
  ReplyLimit,  \* most events sent in answer to one RequestEventLog (1000)
  MaxEmit      \* bound: how many events each source writes

ASSUME NodeAssumption == Master \in Node /\ Home \in [Source -> Node]
ASSUME BoundAssumption == ReplyLimit \in Nat \ {0} /\ MaxEmit \in [Source -> Nat]

(* An event is its EventId: the k-th event its sender wrote.               *)
Event == Source \X Nat

ASSUME TraceAssumption == Trace \subseteq Event

NoNack == -1

VARIABLES
  emitted,         \* emitted[s]: idx of the _ingest task of sender s
  outForDelivery,  \* outForDelivery[n]: events not yet seen to come back
  toMaster,        \* LocalForwarderEvents in flight
  stores,          \* the master's MultiSourceBuffer
  log,             \* the master's DiskEventLog
  toNode,          \* toNode[n]: GlobalForwarderEvents in flight to n
  buf,             \* buf[n]: the router's OrderedBuffer
  delivered,       \* delivered[n]: what n's components have been handed
  nack,            \* nack[n]: since_idx of the waiting _nack_request task
  requests         \* since_idx of the RequestEventLog commands in flight

routerVars == <<emitted, outForDelivery, buf, delivered, nack>>
masterVars == <<stores, log>>
netVars    == <<toMaster, toNode, requests>>
vars       == <<emitted, outForDelivery, toMaster, stores, log, toNode,
                buf, delivered, nack, requests>>

LocalForwarderEvent(e) == [origin |-> e[1], idx |-> e[2], event |-> e]

LocalMessage  == [origin : Source, idx : Nat, event : Event]
GlobalMessage == [idx : Nat, event : Event]

Init ==
  /\ emitted = [s \in Source |-> 0]
  /\ outForDelivery = [n \in Node |-> {}]
  /\ toMaster = {}
  /\ stores = [s \in Source |-> EmptyBuffer]
  /\ log = << >>
  /\ toNode = [n \in Node |-> {}]
  /\ buf = [n \in Node |-> EmptyBuffer]
  /\ delivered = [n \in Node |-> << >>]
  /\ nack = [n \in Node |-> NoNack]
  /\ requests = {}

(* A message that was sent twice is in flight once here, so receiving it   *)
(* may leave it in flight.                                                 *)
Taken(net, m) == {net, net \ {m}}

(***************************************************************************)
(* EventRouter                                                             *)
(***************************************************************************)

(* One turn of _ingest: number the event, publish it, and remember it      *)
(* until it comes back.                                                    *)
Emit(s) ==
  LET e == <<s, emitted[s]>> IN
  /\ emitted[s] < MaxEmit[s]
  /\ emitted' = [emitted EXCEPT ![s] = @ + 1]
  /\ toMaster' = toMaster \cup {LocalForwarderEvent(e)}
  /\ outForDelivery' = [outForDelivery EXCEPT ![Home[s]] = @ \cup {e}]
  /\ UNCHANGED <<stores, log, toNode, buf, delivered, nack, requests>>

\* Mutant: an event that was retried once is forgotten.
RetryOnce(n) ==
  /\ \E old \in SUBSET outForDelivery[n] :
       /\ old # {}
       /\ toMaster' = toMaster \cup {LocalForwarderEvent(e) : e \in old}
       /\ outForDelivery' = [outForDelivery EXCEPT ![n] = @ \ old]
  /\ UNCHANGED <<emitted, stores, log, toNode, buf, delivered, nack, requests>>

\* Mutant: a retried event is numbered afresh.
RetryRenumbered(n) ==
  /\ \E old \in SUBSET outForDelivery[n] :
       /\ old # {}
       /\ toMaster' = toMaster \cup
            {[LocalForwarderEvent(e) EXCEPT !.idx = emitted[e[1]]] : e \in old}
  /\ UNCHANGED <<emitted, outForDelivery, stores, log, toNode, buf,
                 delivered, nack, requests>>

(* One round of _simple_retry: publish the events that have been out for   *)
(* more than five seconds again.                                           *)
Retry(n) ==
  /\ \E old \in SUBSET outForDelivery[n] :
       /\ old # {}
       /\ toMaster' = toMaster \cup {LocalForwarderEvent(e) : e \in old}
  /\ UNCHANGED <<emitted, outForDelivery, stores, log, toNode, buf,
                 delivered, nack, requests>>

\* Mutant: a drain does not cancel the waiting nack.
NackNotCancelled(waiting, b) ==
  IF Released(b) = << >> /\ waiting = NoNack THEN b.next ELSE waiting

(* A drain cancels the waiting nack; an event that drains nothing starts   *)
(* one for the first missing index, unless one is already waiting.         *)
NackAfter(waiting, b) ==
  IF Released(b) # << >> THEN NoNack
  ELSE IF waiting = NoNack THEN b.next
  ELSE waiting

\* Mutant: an event that comes back out of sequence is not taken off the retry list.
ReceiveKeepsRetrying(n, m) ==
  LET b == Ingest(buf[n], m.idx, m.event) IN
  /\ m \in toNode[n]
  /\ \E net \in Taken(toNode[n], m) : toNode' = [toNode EXCEPT ![n] = net]
  /\ outForDelivery' = IF Released(b) = << >> THEN outForDelivery
                       ELSE [outForDelivery EXCEPT ![n] = @ \ {m.event}]
  /\ buf' = [buf EXCEPT ![n] = Drain(b)]
  /\ delivered' = [delivered EXCEPT ![n] = @ \o Released(b)]
  /\ nack' = [nack EXCEPT ![n] = NackAfter(@, b)]
  /\ UNCHANGED <<emitted, toMaster, stores, log, requests>>

(* One turn of _run_ext_in.                                                *)
Receive(n, m) ==
  LET b == Ingest(buf[n], m.idx, m.event) IN
  /\ m \in toNode[n]
  /\ \E net \in Taken(toNode[n], m) : toNode' = [toNode EXCEPT ![n] = net]
  /\ outForDelivery' = [outForDelivery EXCEPT ![n] = @ \ {m.event}]
  /\ buf' = [buf EXCEPT ![n] = Drain(b)]
  /\ delivered' = [delivered EXCEPT ![n] = @ \o Released(b)]
  /\ nack' = [nack EXCEPT ![n] = NackAfter(@, b)]
  /\ UNCHANGED <<emitted, toMaster, stores, log, requests>>

(* _nack_request after its delay.                                          *)
SendNack(n) ==
  /\ nack[n] # NoNack
  /\ requests' = requests \cup {nack[n]}
  /\ nack' = [nack EXCEPT ![n] = NoNack]
  /\ UNCHANGED <<emitted, outForDelivery, toMaster, stores, log, toNode,
                 buf, delivered>>

(***************************************************************************)
(* Master                                                                  *)
(***************************************************************************)

(* The k-th smallest member of a finite set of numbers.                    *)
Nth(K, k) == CHOOSE j \in K : Cardinality({i \in K : i <= j}) = k

(* TracesCollected events are collected aside and not indexed.             *)
Indexed(q) ==
  LET K == {i \in 1 .. Len(q) : q[i] \notin Trace}
  IN  [k \in 1 .. Cardinality(K) |-> q[Nth(K, k)]]

(* _send_event publishes to every node, the master's own included.         *)
Publish(msgs) == toNode' = [n \in Node |-> toNode[n] \cup msgs]

\* Mutant: indices start one too low.
EntriesOffByOne(l, from, to) == {[idx |-> i - 1, event |-> l[i + 1]] : i \in from .. to}

Entries(l, from, to) == {[idx |-> i, event |-> l[i + 1]] : i \in from .. to}

\* Mutant: every event that arrives is indexed, without resequencing.
IndexOnArrival(m) ==
  /\ m \in toMaster
  /\ toMaster' \in Taken(toMaster, m)
  /\ stores' = [stores EXCEPT ![m.origin] = Drain(Ingest(@, m.idx, m.event))]
  /\ log' = log \o Indexed(<<m.event>>)
  /\ Publish(Entries(log', Len(log), Len(log') - 1))
  /\ UNCHANGED <<emitted, outForDelivery, buf, delivered, nack, requests>>

(* One turn of _event_processor.                                           *)
Index(m) ==
  LET b == Ingest(stores[m.origin], m.idx, m.event) IN
  /\ m \in toMaster
  /\ toMaster' \in Taken(toMaster, m)
  /\ stores' = [stores EXCEPT ![m.origin] = Drain(b)]
  /\ log' = log \o Indexed(Released(b))
  /\ Publish(Entries(log', Len(log), Len(log') - 1))
  /\ UNCHANGED <<emitted, outForDelivery, buf, delivered, nack, requests>>

\* Mutant: the end of the range is taken to be inclusive.
LastRepliedShort(since) ==
  IF since + ReplyLimit < Len(log) THEN since + ReplyLimit - 2 ELSE Len(log) - 2

(* The RequestEventLog branch of _command_processor: at most ReplyLimit    *)
(* events from since_idx on are read back from the log and published.      *)
LastReplied(since) ==
  IF since + ReplyLimit < Len(log) THEN since + ReplyLimit - 1 ELSE Len(log) - 1

\* Mutant: the events read back are numbered from 0 instead of from since_idx.
ReplyFromZero(since) ==
  /\ since \in requests
  /\ requests' \in Taken(requests, since)
  /\ Publish({[idx |-> i - since, event |-> log[i + 1]] : i \in since .. LastReplied(since)})
  /\ UNCHANGED <<emitted, outForDelivery, toMaster, stores, log, buf,
                 delivered, nack>>

Reply(since) ==
  /\ since \in requests
  /\ requests' \in Taken(requests, since)
  /\ Publish(Entries(log, since, LastReplied(since)))
  /\ UNCHANGED <<emitted, outForDelivery, toMaster, stores, log, buf,
                 delivered, nack>>

(***************************************************************************)
(* The network.  What a node sends to itself does not pass through it      *)
(* (TopicRouter.publish), so it is never lost.                             *)
(***************************************************************************)
LoseLocal(m) ==
  /\ m \in toMaster
  /\ Home[m.origin] # Master
  /\ toMaster' = toMaster \ {m}
  /\ UNCHANGED <<emitted, outForDelivery, stores, log, toNode, buf,
                 delivered, nack, requests>>

LoseGlobal(n, m) ==
  /\ m \in toNode[n]
  /\ n # Master
  /\ toNode' = [toNode EXCEPT ![n] = @ \ {m}]
  /\ UNCHANGED <<emitted, outForDelivery, toMaster, stores, log, buf,
                 delivered, nack, requests>>

LoseRequest(since) ==
  /\ since \in requests
  /\ requests' = requests \ {since}
  /\ UNCHANGED <<emitted, outForDelivery, toMaster, stores, log, toNode, buf,
                 delivered, nack>>

Next ==
  \/ \E s \in Source : Emit(s)
  \/ \E n \in Node : Retry(n) \/ SendNack(n)
  \/ \E n \in Node : \E m \in toNode[n] : Receive(n, m) \/ LoseGlobal(n, m)
  \/ \E m \in toMaster : Index(m) \/ LoseLocal(m)
  \/ \E since \in requests : Reply(since) \/ LoseRequest(since)

Spec == Init /\ [][Next]_vars

-----------------------------------------------------------------------------
TypeOK ==
  /\ emitted \in [Source -> Nat]
  /\ outForDelivery \in [Node -> SUBSET Event]
  /\ toMaster \in SUBSET LocalMessage
  /\ stores = [s \in Source |-> stores[s]]
  /\ \A s \in Source : IsBuffer(stores[s], Event)
  /\ log \in Seq(Event)
  /\ toNode \in [Node -> SUBSET GlobalMessage]
  /\ buf = [n \in Node |-> buf[n]]
  /\ \A n \in Node : IsBuffer(buf[n], Event)
  /\ delivered \in [Node -> Seq(Event)]
  /\ nack \in [Node -> Nat \cup {NoNack}]
  /\ requests \in SUBSET Nat
(***************************************************************************)
(* Properties                                                              *)
(***************************************************************************)

(* What any node has been handed is a prefix of the master's log, whatever *)
(* was lost, repeated or reordered on the way: the copies of State that    *)
(* _event_applier folds differ only in how far they are (apply.py asserts  *)
(* consecutive indices, not equal contents).                               *)
Agreement ==
  \A n \in Node :
    /\ Len(delivered[n]) <= Len(log)
    /\ delivered[n] = SubSeq(log, 1, Len(delivered[n]))

(* The assertion in OrderedBuffer.ingest ("Received different messages     *)
(* with identical indices, probable race condition") holds for every       *)
(* message in flight, at the master and at every router: a resend from the *)
(* log or a retry never disagrees with what the buffer holds back.         *)
NoIndexClash ==
  /\ \A m \in toMaster : IngestAsserts(stores[m.origin], m.idx, m.event)
  /\ \A n \in Node : \A m \in toNode[n] : IngestAsserts(buf[n], m.idx, m.event)

LogEvents == {log[i] : i \in 1 .. Len(log)}

(* Retried events are indexed once, in the order their sender wrote them,  *)
(* and none is skipped: the log holds exactly the events below the next    *)
(* index the master expects of each sender, traces excepted.               *)
IndexedOnceInOrder ==
  /\ \A i, j \in 1 .. Len(log) :
       i < j /\ log[i][1] = log[j][1] => log[i][2] < log[j][2]
  /\ \A s \in Source : \A k \in 0 .. (emitted[s] - 1) :
       <<s, k>> \in LogEvents <=> k < stores[s].next /\ <<s, k>> \notin Trace

(* An event that was written is in the master's log or its router is still *)
(* retrying it: _run_ext_in forgets an event only once it was indexed.     *)
NeverForgotten ==
  \A s \in Source : \A k \in 0 .. (emitted[s] - 1) :
    <<s, k>> \in LogEvents \cup outForDelivery[Home[s]]

(* The nack that is waiting asks for the index the router misses now: the  *)
(* drain that moves the router on cancels it, so no request is stale when  *)
(* it is sent.                                                             *)
NackIsCurrent ==
  \A n \in Node : nack[n] # NoNack => nack[n] = buf[n].next

(* The detailed protocol implements the replicated log: what the senders   *)
(* wrote, the log of the master and what the routers passed on are its     *)
(* state, and the buffers, retries and messages in flight are hidden.      *)
RL == INSTANCE ReplicatedLog WITH
        Node <- Node, Source <- Source, emitted <- emitted, log <- log, delivered <- delivered

(* Every behaviour of the routers and the master is one of the replicated  *)
(* log, with log and delivered as they stand.                              *)
ImplementsReplicatedLog == RL!ASpec
=============================================================================
