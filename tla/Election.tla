------------------------------ MODULE Election ------------------------------
(***************************************************************************)
(* The master election of shared/election.py.                              *)
(*                                                                         *)
(* A node that meets or loses a peer starts a round: it raises its clock   *)
(* and campaigns.  A campaign broadcasts the node's status, collects the   *)
(* statuses of its round for three seconds, broadcasts once more and       *)
(* elects the largest status it has.  A status of a later round makes a    *)
(* node join that round; the campaign of the round before is cancelled.    *)
(*                                                                         *)
(* Every node is one event loop, so what a task does between two awaits is *)
(* one step.  A campaign is a task of its own: started by start_soon, it   *)
(* runs later, waits for the campaign before it, launches, sleeps, wakes   *)
(* and finishes, and the receivers run in between.                         *)
(***************************************************************************)
EXTENDS Integers, FiniteSets

CONSTANTS
    Node,             \* node ids, compared as numbers
    InitialSeniority, \* 0; 1000000 for --force-master; -1 if no candidate
    Setups,           \* what to start from: see the variable setup
    MaxChanges,       \* bounds on the changes of the topology, by kind
    MaxCommands       \* bound on the commands a node sees

Change == {"connect", "disconnect", "restart"}

ASSUME NodeAssumption == Node \subseteq Nat /\ IsFiniteSet(Node)
ASSUME SetupsAssumption ==
    /\ Setups \subseteq [formed : SUBSET Node, timely : BOOLEAN]
    /\ \A s \in Setups : \A n \in s.formed : InitialSeniority[n] = 0
ASSUME SeniorityAssumption == InitialSeniority \in [Node -> Nat \cup {-1}]
ASSUME BoundsAssumption ==
    /\ MaxChanges \in [Change -> Nat]
    /\ MaxCommands \in Nat

VARIABLES
    setup,      \* formed: nodes that have formed a cluster already, or none;
                \* timely: whether what is sent arrives within the timeouts
    clock,      \* Election.clock
    seniority,  \* Election.seniority
    commands,   \* Election.commands_seen
    session,    \* Election.current_session
    won,        \* won_clock of the last ElectionResult that was sent
    campaigns,  \* the campaign tasks that have not ended
    scope,      \* the round _campaign_cancel_scope belongs to, or NoRound
    done,       \* the round _campaign_done belongs to
    met,        \* TRUE while connection messages wait to be handled
    peers,      \* the nodes that a broadcast reaches, the sender included
    changes,    \* how often the topology has changed, by kind
    net         \* election messages on their way

vars == <<setup, clock, seniority, commands, session, won, campaigns, scope,
          done, met, peers, changes, net>>

Formed == setup.formed
Timely == setup.timely

NoRound == -1

Session == Node \X Nat

Message == [clock : Nat, seniority : Nat \cup {-1}, session : Session,
            commands : Nat]

\* The node a message proposes is also the node that sent it.
Proposer(m) == m.session[1]

\* A message as it was sent: by the campaign of which round, which time.
Letter == [message : Message, round : Nat, copy : 1 .. 2]

(***************************************************************************)
(* A campaign task.  "round" is the value of Election.clock when the task  *)
(* was started, which no other campaign of the node has; "clock" is what   *)
(* the task itself read, later.  "candidates" is its list; letters are     *)
(* distinct, so the set has as many elements as the list.                  *)
(***************************************************************************)
Campaign == [round : Nat, phase : {"spawned", "waiting", "running", "awake"},
             clock : Nat, awaits : Nat, cancelled : BOOLEAN,
             candidates : SUBSET Letter]

Spawned(r, letters) ==
    [round |-> r, phase |-> "spawned", clock |-> 0, awaits |-> 0,
     cancelled |-> FALSE, candidates |-> letters]

\* ElectionMessage.__lt__
Less(a, b) ==
    \/ a.clock < b.clock
    \/ /\ a.clock = b.clock
       /\ \/ a.seniority < b.seniority
          \/ /\ a.seniority = b.seniority
             /\ \/ a.commands < b.commands
                \/ /\ a.commands = b.commands
                   /\ Proposer(a) < Proposer(b)

\* Election._election_status: a master proposes the session it has, any
\* other node a new one.
Status(n, c) ==
    [clock |-> c, seniority |-> seniority[n], commands |-> commands[n],
     session |-> IF session[n][1] = n THEN session[n] ELSE <<n, c>>]

\* A node starts as its own master, and in a campaign that resolves at once.
BootStatus(n, s) ==
    [clock |-> 0, seniority |-> s, commands |-> 0, session |-> <<n, 0>>]

BootCampaign(n, s) ==
    [Spawned(0, {[message |-> BootStatus(n, s), round |-> 0, copy |-> 1]})
        EXCEPT !.phase = "running"]

\* Every node boots alone.  To spare TLC the first round, some of them may
\* have held it: the one with the largest id won.
Leader == CHOOSE n \in Formed : \A m \in Formed : m <= n

Init ==
    /\ setup \in Setups
    /\ clock = [n \in Node |-> IF n \in Formed THEN 1 ELSE 0]
    /\ seniority = [n \in Node |-> IF n \in Formed /\ n = Leader
                                    THEN Cardinality(Formed)
                                    ELSE InitialSeniority[n]]
    /\ commands = [n \in Node |-> 0]
    /\ session = [n \in Node |-> <<IF n \in Formed THEN Leader ELSE n, 0>>]
    /\ won = clock
    /\ campaigns = [n \in Node |-> IF n \in Formed THEN {}
                          ELSE {BootCampaign(n, InitialSeniority[n])}]
    /\ scope = [n \in Node |-> IF n \in Formed THEN NoRound ELSE 0]
    /\ done = clock
    /\ met = [n \in Node |-> FALSE]
    /\ peers = [n \in Node |-> IF n \in Formed THEN Formed ELSE {n}]
    /\ changes = [k \in Change |-> 0]
    /\ net = {}

-----------------------------------------------------------------------------
(* The network.                                                            *)

\* Whether the arrival of a message at clock c changes anything at node n: it
\* drops an older one, and nobody reads the list of a campaign that is over.
Matters(n, c) ==
    \/ c > clock[n]
    \/ c = clock[n] /\ \E d \in campaigns[n] : d.round = c

\* The network keeps the messages whose arrival will matter.
Carry(letters) ==
    net' = {p \in letters : Matters(p.to, p.letter.message.clock)'}

\* The topic also hands a node its own message, which it drops.
Sent(n, letter) == [to : peers[n] \ {n}, letter : {letter}]

Heard(c, m) ==
    \E l \in c.candidates :
        Proposer(l.message) = m /\ l.message.clock = c.clock

(***************************************************************************)
(* Three seconds are enough: when a campaign wakes, no status of its round *)
(* or an earlier one is on its way to a node that does not have it, and    *)
(* every node that such a status reached is in the round.  All campaigns   *)
(* sleep for three seconds, so a node whose first broadcast came before    *)
(* the nodes met, and that has heard from the other, wakes first.          *)
(***************************************************************************)
RoundSettled(n, c) ==
    /\ \A p \in net :
          p.letter.message.clock <= c.clock =>
              \E d \in campaigns[p.to] :
                  [p.letter EXCEPT !.copy = 1] \in d.candidates
    /\ \A m \in peers[n] \ {n} : \A d \in campaigns[m] :
          /\ d.round <= c.clock => d.phase \in {"running", "awake"}
          /\ c.round = clock[n] /\ d.clock = c.clock /\ d.phase = "running"
             /\ ~d.cancelled /\ Heard(d, n) => Heard(c, m)

\* A node whose tasks have something to do at once.
Busy(n) ==
    \E c \in campaigns[n] : c.cancelled \/ c.phase # "running"

\* A few turns of an event loop take less time than a message or a timeout:
\* what the other nodes and the network do in the meantime might as well have
\* come before or after.
Turn(n) == Timely => \A m \in Node \ {n} : ~Busy(m)

Idle == Timely => \A m \in Node : ~Busy(m)

Lose ==
    \E p \in net :
        /\ Idle
        /\ ~Timely \/ Proposer(p.letter.message) \notin peers[p.to]
        /\ net' = net \ {p}
        /\ UNCHANGED <<clock, seniority, commands, session, won, campaigns,
                       scope, done, met, peers, changes>>

-----------------------------------------------------------------------------
(* The receivers.                                                          *)

\* A mutant: a message of the current round counts as an old one.
NoneOfThisRound(n, c, d) == c > clock[n] /\ d.round = c

\* Whether a message at clock c goes into the list of campaign d.
OfThisRound(n, c, d) == c = clock[n] /\ d.round = c

\* _election_receiver, for a message that is not the node's own.
Deliver ==
    \E p \in net :
        LET n == p.to
            c == p.letter.message.clock
        IN  /\ Turn(n)
            /\ clock' = [clock EXCEPT ![n] = IF c > clock[n] THEN c ELSE @]
            /\ campaigns' = [campaigns EXCEPT ![n] =
                   IF c > clock[n] THEN @ \cup {Spawned(c, {p.letter})}
                   ELSE {IF OfThisRound(n, c, d)
                         THEN [d EXCEPT !.candidates = @ \cup {p.letter}]
                         ELSE d : d \in @}]
            /\ UNCHANGED <<seniority, commands, session, won, scope, done,
                           met, peers, changes>>
            /\ Carry(net \ {p})

\* _connection_receiver: the messages of 0.2 s are handled as one.
HandleConnection(n) ==
    /\ met[n]
    /\ Timely => \A p \in net :
           p.to = n => Proposer(p.letter.message) \in peers[n]
    /\ met' = [met EXCEPT ![n] = FALSE]
    /\ clock' = [clock EXCEPT ![n] = @ + 1]
    /\ campaigns' = [campaigns EXCEPT ![n] =
                        @ \cup {Spawned(clock[n] + 1, {})}]
    /\ UNCHANGED <<seniority, commands, session, won, scope, done, peers,
                   changes>>
    /\ Carry(net)

\* _command_counter
CommandSeen(n) ==
    /\ commands[n] < MaxCommands
    /\ Idle
    /\ commands' = [commands EXCEPT ![n] = @ + 1]
    /\ UNCHANGED <<clock, seniority, session, won, campaigns, scope, done,
                   met, peers, changes, net>>

-----------------------------------------------------------------------------
(* A campaign.                                                             *)

Live(n, r) == \E c \in campaigns[n] : c.round = r

\* The event loop runs the tasks of a node in the order they were started.
Oldest(n, c, phases) ==
    /\ c.phase \in phases
    /\ \A d \in campaigns[n] : d.phase \in phases => c.round <= d.round

\* A mutant: every other campaign is cancelled.
CancelsEvery(n, d) == d.round # scope[n] \/ d.round = scope[n]

\* The campaign that a starting campaign cancels.
Cancels(n, d) == d.round = scope[n]

\* A mutant: the new event is stored before the wait.
AwaitsItself(n, c) == c.round

\* The campaign that a starting campaign waits for.
Awaited(n, c) == done[n]

\* The task runs for the first time: it reads the clock, cancels the campaign
\* whose scope it finds and waits for the one whose event it finds.
Start(n) ==
    \E c \in campaigns[n] :
        /\ Oldest(n, c, {"spawned"})
        /\ campaigns' = [campaigns EXCEPT ![n] =
               {IF Cancels(n, d) THEN [d EXCEPT !.cancelled = TRUE]
                ELSE d : d \in @ \ {c}}
               \cup {[c EXCEPT !.phase = "waiting", !.clock = clock[n],
                               !.awaits = Awaited(n, c)]}]
        /\ UNCHANGED <<clock, seniority, commands, session, won, scope, done,
                       met, peers, changes, net>>

\* The event it waited for is set: its own scope and event replace them, and
\* it becomes a candidate.
Launch(n) ==
    \E c \in campaigns[n] :
        LET letter == [message |-> Status(n, c.clock), round |-> c.round,
                       copy |-> 1]
        IN  /\ Oldest(n, c, {"waiting"})
            /\ ~Live(n, c.awaits)
            /\ done' = [done EXCEPT ![n] = c.round]
            /\ scope' = [scope EXCEPT ![n] = c.round]
            /\ campaigns' = [campaigns EXCEPT ![n] =
                   (@ \ {c}) \cup
                   {[c EXCEPT !.phase = "running",
                              !.candidates = @ \cup {letter}]}]
            /\ UNCHANGED <<clock, seniority, commands, session, won, met,
                           peers, changes>>
            /\ Carry(net \cup Sent(n, letter))

\* The sleep ends: the same status is sent again.
Rebroadcast(n) ==
    \E c \in campaigns[n] :
        /\ Oldest(n, c, {"running"})
        /\ ~c.cancelled
        /\ c.round > 0 => Idle
        /\ Timely /\ c.round > 0 => RoundSettled(n, c)
        /\ campaigns' = [campaigns EXCEPT ![n] =
               (@ \ {c}) \cup {[c EXCEPT !.phase = "awake"]}]
        /\ UNCHANGED <<clock, seniority, commands, session, won, scope, done,
                       met, peers, changes>>
        /\ \E l \in c.candidates :
               /\ Proposer(l.message) = n
               /\ Carry(net \cup Sent(n, [l EXCEPT !.copy = 2]))

ScopeAfter(n, c) ==
    [scope EXCEPT ![n] = IF @ = c.round THEN NoRound ELSE @]

SeniorityAfter(n, c, winner) ==
    [seniority EXCEPT ![n] =
        IF Proposer(winner) = n /\ @ >= 0 /\ @ < Cardinality(c.candidates)
        THEN Cardinality(c.candidates) ELSE @]

\* ElectionResult.won_clock
WonClock(m) == m.clock

\* The election: max(candidates) wins, elect() sends the result.
Finish(n) ==
    \E c \in campaigns[n] :
        /\ Oldest(n, c, {"awake"})
        /\ ~c.cancelled
        /\ \E l \in c.candidates :
               /\ \A k \in c.candidates : ~Less(l.message, k.message)
               /\ seniority' = SeniorityAfter(n, c, l.message)
               /\ session' = [session EXCEPT ![n] = l.message.session]
               /\ won' = [won EXCEPT ![n] = WonClock(l.message)]
        /\ scope' = ScopeAfter(n, c)
        /\ campaigns' = [campaigns EXCEPT ![n] = @ \ {c}]
        /\ UNCHANGED <<clock, commands, done, met, peers, changes>>
        /\ Carry(net)

\* The cancellation reaches the campaign at the await it is in.
Abort(n) ==
    \E c \in campaigns[n] :
        /\ c.cancelled
        /\ scope' = ScopeAfter(n, c)
        /\ campaigns' = [campaigns EXCEPT ![n] = @ \ {c}]
        /\ UNCHANGED <<clock, seniority, commands, session, won, done, met,
                       peers, changes>>
        /\ Carry(net)

-----------------------------------------------------------------------------
(* The topology.  Connection messages report both ways of changing it.     *)

Booted(n) == ~Live(n, 0)

Changes(kind) ==
    /\ Idle
    /\ changes[kind] < MaxChanges[kind]
    /\ changes' = [changes EXCEPT ![kind] = @ + 1]

\* Two nodes discover each other; a broadcast of one then reaches whoever
\* the other one reaches.
Connect(n, m) ==
    /\ Changes("connect")
    /\ Booted(n) /\ Booted(m)
    /\ met' = [k \in Node |-> met[k] \/ k \in {n, m}]
    /\ peers' = [k \in Node |-> IF k \in peers[n] \cup peers[m]
                                THEN peers[n] \cup peers[m] ELSE peers[k]]
    /\ UNCHANGED <<clock, seniority, commands, session, won, campaigns, scope,
                   done, net>>

Alone(n) ==
    [k \in Node |-> IF k = n THEN {n} ELSE peers[k] \ {n}]

\* A node is cut off; whoever was connected to it notices.
Disconnect(n) ==
    /\ Changes("disconnect")
    /\ peers[n] # {n}
    /\ met' = [k \in Node |-> met[k] \/ k \in peers[n]]
    /\ peers' = Alone(n)
    /\ UNCHANGED <<clock, seniority, commands, session, won, campaigns, scope,
                   done, net>>

\* A node's process ends and starts again, with the id it had.
Restart(n) ==
    /\ Changes("restart")
    /\ met' = [k \in Node |-> k # n /\ (met[k] \/ k \in peers[n])]
    /\ peers' = Alone(n)
    /\ clock' = [clock EXCEPT ![n] = 0]
    /\ seniority' = [seniority EXCEPT ![n] = InitialSeniority[n]]
    /\ commands' = [commands EXCEPT ![n] = 0]
    /\ session' = [session EXCEPT ![n] = <<n, 0>>]
    /\ won' = [won EXCEPT ![n] = 0]
    /\ campaigns' = [campaigns EXCEPT ![n] =
                        {BootCampaign(n, InitialSeniority[n])}]
    /\ scope' = [scope EXCEPT ![n] = 0]
    /\ done' = [done EXCEPT ![n] = 0]
    /\ net' = {p \in net : p.to # n}

Step(n) ==
    /\ Turn(n)
    /\ \/ HandleConnection(n)
       \/ Start(n)
       \/ Launch(n)
       \/ Rebroadcast(n)
       \/ Finish(n)
       \/ Abort(n)

Next ==
    /\ UNCHANGED setup
    /\ \/ Deliver
       \/ Lose
       \/ \E n \in Node :
             \/ Step(n)
             \/ CommandSeen(n)
             \/ Disconnect(n)
             \/ Restart(n)
             \/ \E m \in Node \ {n} : Connect(n, m)

Spec == Init /\ [][Next]_vars

\* The event loops run, and the network delivers what it does not lose.
FairSpec ==
    /\ Spec
    /\ WF_vars(Deliver /\ UNCHANGED setup)
    /\ \A n \in Node : WF_vars(Step(n) /\ UNCHANGED setup)

-----------------------------------------------------------------------------
(* Properties.                                                             *)

TypeOK ==
    /\ setup \in Setups
    /\ clock \in [Node -> Nat]
    /\ seniority \in [Node -> Nat \cup {-1}]
    /\ commands \in [Node -> Nat]
    /\ session \in [Node -> Session]
    /\ won \in [Node -> Nat]
    /\ campaigns \in [Node -> SUBSET Campaign]
    /\ scope \in [Node -> Nat \cup {NoRound}]
    /\ done \in [Node -> Nat]
    /\ met \in [Node -> BOOLEAN]
    /\ peers \in [Node -> SUBSET Node]
    /\ changes \in [Change -> Nat]
    /\ net \subseteq [to : Node, letter : Letter]

Quiet ==
    /\ net = {}
    /\ \A n \in Node : campaigns[n] = {} /\ ~met[n]

\* The nodes that reach each other have the same session, and its master is
\* one of them.
Agreed ==
    \A n \in Node :
        /\ session[n][1] \in peers[n]
        /\ \A m \in peers[n] : session[m] = session[n]

\* When the last election is over the nodes agree, whatever came and went
\* while campaigns were under way, as long as three seconds are enough for a
\* round; and "any master candidate will automatically win out" over a node
\* that is none, as the comment of Election.__init__ says.
QuiescentAgreement ==
    Quiet =>
        /\ Agreed
        /\ \A n \in Node : InitialSeniority[session[n][1]] = -1 =>
              \A m \in peers[n] : InitialSeniority[m] = -1

\* The newest round is never cancelled and, once the campaigns of a node are
\* over, it is the round that decided: no node is left with the result of an
\* older round, or with none.
NewestRoundDecides ==
    \A n \in Node :
        /\ \A c \in campaigns[n] : c.cancelled => c.round < clock[n]
        /\ campaigns[n] = {} => won[n] = clock[n]

\* Elections come to an end, with agreement: no campaign waits for ever for
\* one that never ends, and no round keeps setting off the next.  That takes
\* messages that arrive in time.
Settles == Timely => <>[](Quiet /\ Agreed)
=============================================================================
