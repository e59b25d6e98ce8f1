-------------------------- MODULE MCEventSourcing --------------------------
(* EventSourcing on a master node and one other, a sender on each.         *)
EXTENDS EventSourcing, TLC

CONSTANTS m, a,     \* nodes
          sm, sa    \* their senders

MCNode   == {m, a}
MCSource == {sm, sa}
MCHome   == (sm :> m) @@ (sa :> a)
MCTrace  == {<<sa, 0>>}   \* the other node's first event is a trace
(* Both nodes write: interleaved senders, a gap left by the trace.         *)
BothEmit   == (sm :> 1) @@ (sa :> 2)
(* The other node writes: up and down again, small enough for liveness.    *)
LiveEmit == (sm :> 0) @@ (sa :> 2)
=============================================================================
