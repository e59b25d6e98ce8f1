----------------------------- MODULE ElectLoop ------------------------------
(***************************************************************************)
(* What a node does with the results of its elections: Node._elect_loop of *)
(* main.py and the part of the API that follows elections, composed with   *)
(* module Election, whose results it consumes.                             *)
(*                                                                         *)
(* A node has one EventRouter, one Worker, one DownloadCoordinator and, if *)
(* it is master, one Master.  Each of them is bound for life to the        *)
(* session it was created in: events of any other session are discarded    *)
(* by Master._event_processor and EventRouter._run_ext_in.                 *)
(***************************************************************************)
EXTENDS Election, Sequences

VARIABLES
    results,    \* the ElectionResults that wait to be handled
    handling,   \* the result _elect_loop is in the middle of, or None
    master,     \* Master.session_id, or None without a Master
    router,     \* EventRouter.session_id
    worker,     \* the session of the worker's and the coordinator's router
    completed,  \* API.last_completed_election
    paused      \* API.paused

loopVars == <<results, handling, master, router, worker, completed, paused>>
allVars == <<vars, loopVars>>

None == <<>>

Result == [session : Session, won : Nat, new : BOOLEAN]

LInit ==
    /\ Init
    /\ results = [n \in Node |-> <<>>]
    /\ handling = [n \in Node |-> None]
    /\ master = [n \in Node |-> IF session[n][1] = n THEN session[n] ELSE None]
    /\ router = session
    /\ worker = session
    /\ completed = won
    /\ paused = [n \in Node |-> FALSE]

\* Election.elect
Announce(n) ==
    /\ results' = [results EXCEPT ![n] =
           Append(@, [session |-> session'[n], won |-> won'[n],
                      new |-> session'[n] # session[n]])]
    /\ UNCHANGED <<handling, master, router, worker, completed, paused>>

\* The event loop of a node that still has results to handle goes on first.
Handling(n) == handling[n] # None \/ results[n] # <<>>

LoopTurn(n) == Timely => \A m \in Node \ {n} : ~Handling(m)

-----------------------------------------------------------------------------
(* The elect loop.                                                         *)

\* A mutant: nobody is demoted.
MasterStays(n, s) ==
    IF s[1] = n /\ master[n] = None THEN s ELSE master[n]

\* The four branches: stay master, promote, demote, stay a follower.
MasterAfter(n, s) ==
    CASE s[1] = n /\ master[n] # None -> master[n]
      [] s[1] = n /\ master[n] = None -> s
      [] s[1] # n -> None

\* A mutant: the round is not recorded.
UnpauseOnly(n, c) ==
    /\ completed' = [completed EXCEPT ![n] = IF c < @ THEN c ELSE @]
    /\ paused' = [paused EXCEPT ![n] = FALSE]

\* API.unpause
Unpause(n, c) ==
    /\ completed' = [completed EXCEPT ![n] = c]
    /\ paused' = [paused EXCEPT ![n] = FALSE]

\* A result with the session the node has: only the API is told.
Keep(n) ==
    /\ handling[n] = None
    /\ results[n] # <<>>
    /\ ~Head(results[n]).new
    /\ results' = [results EXCEPT ![n] = Tail(@)]
    /\ master' = [master EXCEPT ![n] = MasterAfter(n, Head(results[n]).session)]
    /\ Unpause(n, Head(results[n]).won)
    /\ UNCHANGED <<vars, handling, router, worker>>

\* A result with a new session: the router is replaced, then the master is
\* promoted or demoted, and the loop waits for the worker to stop.
Rebuild(n) ==
    /\ handling[n] = None
    /\ results[n] # <<>>
    /\ Head(results[n]).new
    /\ LET r == Head(results[n])
       IN  /\ handling' = [handling EXCEPT ![n] = r]
           /\ router' = [router EXCEPT ![n] = r.session]
           /\ master' = [master EXCEPT ![n] = MasterAfter(n, r.session)]
    /\ results' = [results EXCEPT ![n] = Tail(@)]
    /\ UNCHANGED <<vars, worker, completed, paused>>

\* The session a new worker works in.
SessionOfRouter(n) == router[n]

\* The worker and the coordinator have stopped and are created again, and
\* the API is reset.
Recreate(n) ==
    /\ handling[n] # None
    /\ worker' = [worker EXCEPT ![n] = SessionOfRouter(n)]
    /\ handling' = [handling EXCEPT ![n] = None]
    /\ Unpause(n, handling[n].won)
    /\ UNCHANGED <<vars, results, master, router>>

\* API._pause_on_new_election: its copy of an election message, handled once
\* the election has handled its own.
Pause(n) ==
    /\ \E c \in 1 .. clock[n] : c > completed[n]
    /\ ~paused[n]
    /\ paused' = [paused EXCEPT ![n] = TRUE]
    /\ UNCHANGED <<vars, results, handling, master, router, worker, completed>>

\* A process that starts again has new components.
Reboot(n) ==
    /\ Restart(n)
    /\ results' = [results EXCEPT ![n] = <<>>]
    /\ handling' = [handling EXCEPT ![n] = None]
    /\ master' = [master EXCEPT ![n] = session'[n]]
    /\ router' = [router EXCEPT ![n] = session'[n]]
    /\ worker' = [worker EXCEPT ![n] = session'[n]]
    /\ completed' = [completed EXCEPT ![n] = 0]
    /\ paused' = [paused EXCEPT ![n] = FALSE]

LStep(n) ==
    \/ Keep(n)
    \/ Rebuild(n)
    \/ Recreate(n)

LNext ==
    /\ UNCHANGED setup
    /\ \/ (Deliver \/ Lose) /\ UNCHANGED loopVars
       \/ \E n \in Node :
             \/ /\ LoopTurn(n)
                /\ \/ LStep(n)
                   \/ Turn(n) /\ Finish(n) /\ Announce(n)
                   \/ /\ Turn(n)
                      /\ \/ HandleConnection(n)
                         \/ Start(n)
                         \/ Launch(n)
                         \/ Rebroadcast(n)
                         \/ Abort(n)
                      /\ UNCHANGED loopVars
             \/ Pause(n)
             \/ Reboot(n)
             \/ /\ \/ CommandSeen(n)
                   \/ Disconnect(n)
                   \/ \E m \in Node \ {n} : Connect(n, m)
                /\ UNCHANGED loopVars

LSpec == LInit /\ [][LNext]_allVars

-----------------------------------------------------------------------------
(* Properties.                                                             *)

LTypeOK ==
    /\ results \in [Node -> Seq(Result)]
    /\ handling \in [Node -> Result \cup {None}]
    /\ master \in [Node -> Session \cup {None}]
    /\ router \in [Node -> Session]
    /\ worker \in [Node -> Session]
    /\ completed \in [Node -> Nat]
    /\ paused \in [Node -> BOOLEAN]

\* A node whose elect loop has caught up.
CaughtUp(n) == ~Handling(n)

\* Once it has caught up, a node runs a Master if and only if it is the master
\* of its session, and its router, worker and coordinator work in it.
ComponentsFollowElection ==
    \A n \in Node : CaughtUp(n) =>
        /\ router[n] = session[n]
        /\ worker[n] = session[n]
        /\ master[n] # None <=> session[n][1] = n

\* "Elect master locally if necessary", says the comment of _elect_loop: the
\* Master of a node that has caught up works in the node's session, or it
\* discards every event the node's own components send.
MasterInSession ==
    \A n \in Node : CaughtUp(n) /\ master[n] # None => master[n] = session[n]

\* The API never stays paused when the elections of its node are over.
PausedOnlyForElections ==
    \A n \in Node : CaughtUp(n) /\ campaigns[n] = {} => ~paused[n]
=============================================================================
