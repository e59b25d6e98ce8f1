------------------------------- MODULE Routing -------------------------------
(***************************************************************************)
(* One topic of a node's router (routing/router.py): TopicRouter and the   *)
(* loops of Router that carry its items to the network and back.           *)
(*                                                                         *)
(* The loop of the topic and the loop that receives from the network both  *)
(* publish to the receivers of this node, one receiver after the other;    *)
(* wherever they wait the other may run, and receivers come and go.        *)
(***************************************************************************)
EXTENDS Integers, Sequences, FiniteSets, SequencesExt

CONSTANTS
  Receivers,
  Policies,     \* of PublishPolicy, those that the topic may have
  MaxItems,     \* bound: items sent here
  MaxArrivals   \* bound: items that arrive

VARIABLES
  policy,
  state,     \* of each receiver: new, open or closed
  senders,   \* TopicRouter.senders
  inbox,     \* what each receiver was sent, <<where from, number>>
  queue,     \* TopicRouter.receiver: items of this node
  pub,       \* the two loops: what they publish and how far they are
  outgoing,  \* Router.networking_receiver
  gone,      \* items handed to gossipsub, published or dropped
  count,     \* items so far
  running    \* no loop has failed

rvars == <<policy, state, senders, inbox, queue, pub, outgoing, gone, count, running>>

RoutingAssumption ==
  Policies \subseteq {"Never", "Minimal", "Always"} /\ MaxItems \in Nat /\ MaxArrivals \in Nat

Loops == {"run", "recv"}

AtRest == [at |-> "idle"]

-----------------------------------------------------------------------------
\* Router.receiver
Receive(r) ==
  /\ state[r] = "new"
  /\ state' = [state EXCEPT ![r] = "open"]
  /\ senders' = senders \cup {r}
  /\ UNCHANGED <<policy, inbox, queue, pub, outgoing, gone, count, running>>

\* Its owner closes it; the router finds out when it sends.
Close(r) ==
  /\ state[r] = "open"
  /\ state' = [state EXCEPT ![r] = "closed"]
  /\ UNCHANGED <<policy, senders, inbox, queue, pub, outgoing, gone, count, running>>

Send ==
  /\ count.here < MaxItems
  /\ count' = [count EXCEPT !.here = @ + 1]
  /\ queue' = Append(queue, count'.here)
  /\ UNCHANGED <<policy, state, senders, inbox, pub, outgoing, gone, running>>

-----------------------------------------------------------------------------
\* TopicRouter.run: to the network, or to the receivers of this node, or to both.
Run ==
  /\ running /\ pub["run"] = AtRest /\ queue # <<>>
  /\ LET k == Head(queue)
         only == policy = "Minimal" /\ senders = {}
     IN  /\ outgoing' = IF only \/ policy = "Always" THEN Append(outgoing, k) ELSE outgoing
         /\ pub' = IF only THEN pub ELSE [pub EXCEPT !["run"] = [at |-> "copy", item |-> <<"here", k>>]]
  /\ queue' = Tail(queue)
  /\ UNCHANGED <<policy, state, senders, inbox, gone, count, running>>

\* What PyNetworkingHandle.recv makes of a message of another node.
FromSwarm(k) == <<"there", k>>

\* _networking_recv: a message of the topic; its publishing is awaited.
NetworkingRecv ==
  /\ running /\ pub["recv"] = AtRest /\ policy # "Never"
  /\ count.there < MaxArrivals
  /\ count' = [count EXCEPT !.there = @ + 1]
  /\ pub' = [pub EXCEPT !["recv"] = [at |-> "copy", item |-> FromSwarm(count'.there)]]
  /\ UNCHANGED <<policy, state, senders, inbox, queue, outgoing, gone, running>>

\* TopicRouter.publish: over a copy of the senders.
Publish(l) ==
  /\ running /\ pub[l].at = "copy"
  /\ pub' = [pub EXCEPT ![l] = [at |-> "send", item |-> @.item, copied |-> senders,
                                left |-> senders, to_clear |-> {}]]
  /\ UNCHANGED <<policy, state, senders, inbox, queue, outgoing, gone, count, running>>

SendTo(l, r) ==
  /\ running /\ pub[l].at = "send" /\ r \in pub[l].left
  /\ IF state[r] = "open"
     THEN /\ inbox' = [inbox EXCEPT ![r] = Append(@, pub[l].item)]
          /\ pub' = [pub EXCEPT ![l].left = @ \ {r}]
     ELSE /\ pub' = [pub EXCEPT ![l].left = @ \ {r}, ![l].to_clear = @ \cup {r}]
          /\ UNCHANGED inbox
  /\ UNCHANGED <<policy, state, senders, queue, outgoing, gone, count, running>>

\* A mutant: what was copied is what is kept.
ClearedCopy(l) == pub[l].copied \ pub[l].to_clear

Cleared(l) == senders \ pub[l].to_clear

EndPublish(l) ==
  /\ running /\ pub[l].at = "send" /\ pub[l].left = {}
  /\ senders' = Cleared(l)
  /\ pub' = [pub EXCEPT ![l] = AtRest]
  /\ UNCHANGED <<policy, state, inbox, queue, outgoing, gone, count, running>>

-----------------------------------------------------------------------------
\* PyNetworkingHandle.gossipsub_publish, and on_message in the swarm.
OnMessage(k) == gone' = Append(gone, k)

\* _networking_publish: published, or dropped because nobody has subscribed, all queues
\* are full or the message is too large.
NetworkingPublish ==
  /\ running /\ outgoing # <<>>
  /\ outgoing' = Tail(outgoing)
  /\ OnMessage(Head(outgoing))
  /\ UNCHANGED <<policy, state, senders, inbox, queue, pub, count, running>>

\* Any other error, here or in receiving, ends the router and with it the node.
Fail ==
  /\ running /\ (outgoing # <<>> \/ count.there > 0)
  /\ running' = FALSE
  /\ UNCHANGED <<policy, state, senders, inbox, queue, pub, outgoing, gone, count>>

RInit ==
  /\ policy \in Policies
  /\ state = [r \in Receivers |-> "new"] /\ senders = {}
  /\ inbox = [r \in Receivers |-> <<>>]
  /\ queue = <<>> /\ outgoing = <<>> /\ gone = <<>>
  /\ pub = [l \in Loops |-> AtRest]
  /\ count = [here |-> 0, there |-> 0] /\ running = TRUE

RNext ==
  \/ \E r \in Receivers : Receive(r) \/ Close(r)
  \/ Send \/ Run \/ NetworkingRecv \/ NetworkingPublish \/ Fail
  \/ \E l \in Loops : Publish(l) \/ EndPublish(l) \/ \E r \in Receivers : SendTo(l, r)

RSpec == RInit /\ [][RNext]_rvars

-----------------------------------------------------------------------------
\* An item: where it comes from, and its number.
TopicItem == {"here", "there"} \X Nat

Publishing ==
  {AtRest} \cup [at : {"copy"}, item : TopicItem]
    \cup [at : {"send"}, item : TopicItem, copied : SUBSET Receivers, left : SUBSET Receivers,
          to_clear : SUBSET Receivers]

\* The type of every variable.
RoutingTypeOK ==
  /\ policy \in Policies
  /\ state \in [Receivers -> {"new", "open", "closed"}]
  /\ senders \in SUBSET Receivers
  /\ inbox \in [Receivers -> Seq(TopicItem)]
  /\ queue \in Seq(Nat) /\ outgoing \in Seq(Nat) /\ gone \in Seq(Nat)
  /\ pub \in [Loops -> Publishing]
  /\ count \in [here : Nat, there : Nat]
  /\ running \in BOOLEAN

\* A receiver that is open stays one of the senders, whatever the two loops clear away.
NoneForgotten == \A r \in Receivers : state[r] = "open" => r \in senders

\* From its first item on a receiver gets all items of this node, and all that arrive
\* from the network, each once and in their order.
InboxesHaveNoGaps ==
  \A r \in Receivers : \A i, j \in DOMAIN inbox[r] :
    /\ i < j /\ inbox[r][i][1] = inbox[r][j][1]
    /\ \A k \in i + 1 .. j - 1 : inbox[r][k][1] # inbox[r][i][1]
    => inbox[r][j][2] = inbox[r][i][2] + 1

\* What became of the items of this node that the loop of the topic is done with.
Handled ==
  {k \in 1 .. count.here : k \notin ToSet(queue) /\ (pub["run"] = AtRest \/ pub["run"].item[2] # k)}

Here(k) == \E r \in Receivers : <<"here", k>> \in ToSet(inbox[r])

Away(k) == k \in ToSet(outgoing) \cup ToSet(gone)

\* An item of a topic that is always published leaves the node, one that is never
\* published does not; one that is published only if nobody here takes it goes one of the
\* two ways, or is lost on a receiver that had closed, which takes that receiver away.
ItemsGoTheirWay ==
  /\ \A k \in Handled :
       /\ policy = "Always" => Away(k)
       /\ policy = "Never" => ~Away(k)
       /\ policy = "Minimal" => ~(Here(k) /\ Away(k))
  /\ policy = "Minimal" =>
       Cardinality({k \in Handled : ~Here(k) /\ ~Away(k)})
         <= Cardinality({r \in Receivers : state[r] = "closed" /\ r \notin senders})

RoutingHolds == NoneForgotten /\ InboxesHaveNoGaps /\ ItemsGoTheirWay
=============================================================================
