------------------------------- MODULE Replicas -------------------------------
(***************************************************************************)
(* Chat completions that go to one of several llama.cpp servers instead of *)
(* to the cluster (api/llama_router.py): a request takes a lease on the    *)
(* replica with the least to do, or waits in a bounded queue until one is  *)
(* given back, a replica has cooled down, or its time is over.             *)
(*                                                                         *)
(* What is done under the condition's lock is one step, since nothing in   *)
(* it waits but Condition.wait, which gives the lock back.  Those that are *)
(* woken together take the lock again one after the other, here in any     *)
(* order, and newcomers may be between them.                               *)
(***************************************************************************)
EXTENDS Integers, FiniteSets, FiniteSetsExt

CONSTANTS
  RequestIds,      \* numbers, in the order in which requests arrive
  Servers,         \* replica ids, as numbers: ids are compared
  Serves,          \* the models of each replica
  MaxConcurrency,  \* of each replica
  QueueSize,       \* maximum_queue_size
  QueueTimeout,    \* queue_timeout_seconds
  Cooldown,        \* failure_cooldown_seconds
  MaxTime          \* bound: the clock

VARIABLES
  now,        \* time.monotonic()
  request,    \* each request: where it stands, its model, its replica, its deadline ...
  busy,       \* active_requests of each replica
  completed,  \* completed_requests of each replica
  until,      \* unavailable_until of each replica
  waiting     \* _waiting_requests

qvars == <<now, request, busy, completed, until, waiting>>

ASSUME ReplicasAssumption ==
  /\ Servers \subseteq Nat /\ Servers # {} /\ IsFiniteSet(Servers)
  /\ RequestIds \subseteq Nat
  /\ MaxConcurrency \in [Servers -> Nat \ {0}]
  /\ QueueSize \in Nat \ {0} /\ QueueTimeout \in Nat \ {0}
  /\ Cooldown \in Nat /\ MaxTime \in Nat

ModelsServed == UNION {Serves[r] : r \in Servers}

New == [st |-> "new", model |-> "none", on |-> 0, deadline |-> 0, wake |-> 0, bad |-> FALSE]

QInit ==
  /\ now = 0
  /\ request = [q \in RequestIds |-> New]
  /\ busy = [r \in Servers |-> 0] /\ completed = [r \in Servers |-> 0]
  /\ until = [r \in Servers |-> 0]
  /\ waiting = 0

Those(st) == {q \in RequestIds : request[q].st = st}

\* Those that are to take the lock again, since they were notified or their time-out is due.
Rousable == Those("woken") \cup {q \in Those("asleep") : request[q].wake <= now}

-----------------------------------------------------------------------------
\* Taking a lease.

Candidates(m) ==
  {r \in Servers : m \in Serves[r] /\ until[r] <= now /\ busy[r] < MaxConcurrency[r]}

\* By the share of it that is in use, the requests it has completed, its id.
Before(r, s) ==
  LET here == busy[r] * MaxConcurrency[s]
      there == busy[s] * MaxConcurrency[r]
  IN  \/ here < there
      \/ here = there /\ completed[r] < completed[s]
      \/ here = there /\ completed[r] = completed[s] /\ r < s

Selected(m) == CHOOSE r \in Candidates(m) : \A s \in Candidates(m) \ {r} : Before(r, s)

\* When a waiter looks again by itself: at its deadline, or when a replica has cooled down.
WakeAt(m, deadline) ==
  Min({deadline} \cup {until[r] : r \in {s \in Servers : m \in Serves[s] /\ until[s] > now}})

\* One turn of the loop in _acquire, by a request that is one of the counted waiters.
Look(q, m, deadline, counted) ==
  \/ /\ Candidates(m) # {}
     /\ request' = [request EXCEPT ![q] = [New EXCEPT !.st = "leased", !.on = Selected(m)]]
     /\ busy' = [busy EXCEPT ![Selected(m)] = @ + 1]
     /\ waiting' = counted - 1
  \/ /\ Candidates(m) = {} /\ deadline <= now
     /\ request' = [request EXCEPT ![q] = [New EXCEPT !.st = "timed out"]]
     /\ waiting' = counted - 1 /\ UNCHANGED busy
  \/ /\ Candidates(m) = {} /\ deadline > now
     /\ request' = [request EXCEPT ![q] =
          [New EXCEPT !.st = "asleep", !.model = m, !.deadline = deadline,
                      !.wake = WakeAt(m, deadline)]]
     /\ waiting' = counted /\ UNCHANGED busy

\* The queue is one for all models: it may be full while a replica of the model is idle.
Acquire(q, m) ==
  /\ q \in Those("new") /\ \A p \in Those("new") : q <= p
  /\ \/ /\ waiting >= QueueSize
        /\ request' = [request EXCEPT ![q] = [New EXCEPT !.st = "refused"]]
        /\ UNCHANGED <<busy, waiting>>
     \/ /\ waiting < QueueSize
        /\ Look(q, m, now + QueueTimeout, waiting + 1)
  /\ UNCHANGED <<now, completed, until>>

Resume(q) ==
  /\ q \in Rousable
  /\ Look(q, request[q].model, request[q].deadline, waiting)
  /\ UNCHANGED <<now, completed, until>>

-----------------------------------------------------------------------------
\* Giving it back.

\* notify_all: whoever sleeps is woken.
Notified(requests) ==
  [q \in RequestIds |->
     IF requests[q].st = "asleep" THEN [requests[q] EXCEPT !.st = "woken"] ELSE requests[q]]

Release(q, failed) ==
  LET r == request[q].on
  IN  /\ busy' = [busy EXCEPT ![r] = @ - 1]
      /\ IF failed
         THEN until' = [until EXCEPT ![r] = now + Cooldown] /\ UNCHANGED completed
         ELSE completed' = [completed EXCEPT ![r] = @ + 1] /\ UNCHANGED until
      /\ request' = Notified([request EXCEPT ![q] = [New EXCEPT !.st = "done"]])
      /\ UNCHANGED <<now, waiting>>

\* The replica cannot be reached, or answers, well or with an error, a request that is not
\* for a stream.
Answered(q) == q \in Those("leased") /\ \E failed \in BOOLEAN : Release(q, failed)

\* A stream: its status is known, and its generator has not begun.
Opened(q) ==
  /\ q \in Those("leased")
  /\ \E bad \in BOOLEAN :
       request' = [request EXCEPT ![q].st = "opened", ![q].bad = bad]
  /\ UNCHANGED <<now, busy, completed, until, waiting>>

Begun(q) ==
  /\ q \in Those("opened")
  /\ request' = [request EXCEPT ![q].st = "streaming"]
  /\ UNCHANGED <<now, busy, completed, until, waiting>>

\* The stream ends, or breaks off.
Ended(q) ==
  /\ q \in Those("streaming")
  /\ \E broken \in BOOLEAN : Release(q, request[q].bad \/ broken)

\* The lease is kept by nobody, for good.
Lost(q) ==
  /\ request' = [request EXCEPT ![q].st = "lost"]
  /\ UNCHANGED <<now, busy, completed, until, waiting>>

\* The client leaves: a generator that has not begun has no finally to run, and one that
\* is cancelled releases its lease only if it need not wait for the lock.
Left(q) ==
  \/ q \in Those("opened") /\ Lost(q)
  \/ q \in Those("streaming") /\ Rousable # {} /\ Lost(q)
  \/ q \in Those("streaming") /\ Release(q, request[q].bad)

Tick ==
  /\ now < MaxTime
  /\ now' = now + 1
  /\ UNCHANGED <<request, busy, completed, until, waiting>>

QNext ==
  \/ \E q \in RequestIds, m \in ModelsServed : Acquire(q, m)
  \/ \E q \in RequestIds :
       Resume(q) \/ Answered(q) \/ Opened(q) \/ Begun(q) \/ Ended(q) \/ Left(q)
  \/ Tick

QSpec == QInit /\ [][QNext]_qvars

-----------------------------------------------------------------------------
Request ==
  [st : {"new", "asleep", "woken", "leased", "opened", "streaming", "lost", "done",
         "timed out", "refused"},
   model : ModelsServed \cup {"none"}, on : Servers \cup {0}, deadline : Nat, wake : Nat,
   bad : BOOLEAN]

\* The type of every variable.
ReplicasTypeOK ==
  /\ now \in Nat
  /\ request \in [RequestIds -> Request]
  /\ busy \in [Servers -> Nat] /\ completed \in [Servers -> Nat] /\ until \in [Servers -> Nat]
  /\ waiting \in 0 .. QueueSize

\* The leases there are on a replica, those that are lost included.
Leases(r) ==
  {q \in RequestIds :
     request[q].st \in {"leased", "opened", "streaming", "lost"} /\ request[q].on = r}

\* No replica gets more requests at a time than it takes, a lease is counted until it is
\* given back and only once, and the waiters are counted and are never too many, however
\* requests, failures, time-outs and clients that leave interleave (_acquire,
\* release_runtime).
LeasesAreCounted ==
  /\ \A r \in Servers : busy[r] = Cardinality(Leases(r)) /\ busy[r] <= MaxConcurrency[r]
  /\ waiting = Cardinality(Those("asleep") \cup Those("woken"))
  /\ waiting <= QueueSize

\* Nobody sleeps while a replica of its model is free, unless its time-out is due; and
\* nobody sleeps past its deadline (_acquire's wait_seconds, release_runtime's notify_all).
NobodyIsOverlooked ==
  \A q \in Those("asleep") :
    /\ request[q].wake > now => Candidates(request[q].model) = {}
    /\ request[q].wake <= request[q].deadline
=============================================================================
