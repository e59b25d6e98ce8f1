----------------------------- MODULE MCAgentChat -----------------------------
(* Instances of AgentChat for TLC. *)
EXTENDS AgentChat

On(s, kinds) == [r \in Request |-> [kind |-> kinds[r], session |-> s[r]]]

Changes == <<"rename", "model", "both", "delete", "resize">>

\* A streamed turn against two changes of its session; two turns of one
\* session, one of which may not be streamed; turns of two sessions; and a turn
\* in a session that has to be created first.
TurnAndChanges ==
    {On(<<1, 1, 1>>, <<"stream", Changes[i], Changes[j]>>) :
        <<i, j>> \in {<<1, 4>>, <<2, 3>>, <<2, 4>>, <<3, 4>>, <<4, 5>>}}
TwoTurns ==
    {On(<<1, 1, 1>>, <<"stream", k, "none">>) : k \in {"stream", "chat"}}
TwoSessions ==
    {On(<<1, 2, 2>>, <<"stream", "stream", "none">>),
     On(<<1, 2, 2>>, <<"resize", "stream", "create">>)}
Several == TurnAndChanges \cup TwoTurns \cup TwoSessions
=============================================================================
