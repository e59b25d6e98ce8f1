--------------------------------- MODULE Ranks ---------------------------------
(***************************************************************************)
(* The runners of one instance, one per rank, generate together: each runs *)
(* its own loop (runner.py handle_generation_tasks) around an engine       *)
(* (batch_generator.py), and every pass of the model, and every agreement  *)
(* on which tasks to start or cancel, is a collective that completes only  *)
(* when all ranks have called it.  Tasks and cancellations reach the ranks *)
(* at different times and in different orders, or not at all.              *)
(*                                                                         *)
(* A rank is either at a collective ("agree", "prefill", "check",          *)
(* "gather", "decode"), between two steps of the engine ("poll"), without  *)
(* tasks ("idle") or dead.  What it does between two collectives is local  *)
(* and part of the action before.  The tokens of a task are counted; all   *)
(* ranks sample the same ones.  The cancellation of everything, sent only  *)
(* when a process is about to end, is left out.                            *)
(***************************************************************************)
EXTENDS Integers, Sequences, FiniteSets, Functions

CONSTANTS
  World,      \* the number of ranks
  Tasks,      \* task ids; numbers, for the order that sorting gives them
  Length,     \* the number of tokens of each task
  MaxActive,  \* EXO_MAX_CONCURRENT_REQUESTS
  Every,      \* check_for_cancel_every
  Cancels     \* the tasks that are cancelled

ASSUME RanksAssumption ==
  /\ World \in Nat \ {0}
  /\ Tasks \subseteq Nat
  /\ Length \in [Tasks -> Nat \ {0}]
  /\ MaxActive \in Nat \ {0} /\ Every \in Nat \ {0}
  /\ Cancels \subseteq Tasks

VARIABLES
  engine,    \* "batch" (BatchGenerator) or "sequential" (SequentialGenerator)
  coming,    \* the tasks that each rank's worker has yet to hand over
  cancels,   \* the cancellations that each rank's worker has yet to hand over
  box,       \* cancel_receiver: cancellations that a rank has not collected
  rank,      \* each rank's engine and loop
  skipped    \* the tasks that some rank never gets

kvars == <<engine, coming, cancels, box, rank, skipped>>

Rank == 0 .. World - 1

Waiting == {"agree", "prefill", "check", "gather", "decode"}

(* An engine that has just been built, in a runner without tasks. *)
NewRank ==
  [pc |-> "idle", now |-> <<>>,           \* the tasks whose callback is due
   held |-> {},                           \* Runner.active_tasks
   known |-> {},                          \* _all_tasks
   maybe |-> <<>>, maybeCancel |-> {},
   queue |-> <<>>, active |-> <<>>,
   count |-> [t \in Tasks |-> 0], cancelled |-> {}]

--------------------------------------------------------------------------------
(* Sequences of tasks: the numbers of a finite set in their order, and what  *)
(* is left of a sequence when only members of a set are kept.                *)

Nth(K, k) == CHOOSE j \in K : Cardinality({i \in K : i <= j}) = k

InOrder(K) == [k \in 1 .. Cardinality(K) |-> Nth(K, k)]

Keep(s, S) ==
  LET at == InOrder({i \in 1 .. Len(s) : s[i] \in S}) IN [k \in 1 .. Len(at) |-> s[at[k]]]

--------------------------------------------------------------------------------
(* Submitting, and agreeing. *)

Submit(g, t) ==
  [g EXCEPT !.held = @ \cup {t}, !.known = @ \cup {t}, !.maybe = Append(@, t)]

Common(lists) == {t \in Tasks : \A r \in Rank : t \in lists[r]}

(* agree_on_tasks: what every rank has is queued, in the order of the ids. *)
AgreeOnTasks(g, agreed) ==
  [g EXCEPT !.queue = @ \o InOrder(agreed), !.maybe = Keep(@, Tasks \ agreed)]

Collected(r) == rank[r].maybeCancel \cup (box[r] \cap rank[r].known)

(* A mutant: a rank cancels what it was asked to cancel. *)
CancelAlone(g, collected, agreed) ==
  [g EXCEPT !.cancelled = @ \cup collected, !.maybeCancel = {}]

(* agree_on_cancellations: what every rank was asked to cancel is cancelled. *)
AgreeOnCancellations(g, collected, agreed) ==
  [g EXCEPT !.cancelled = @ \cup agreed, !.maybeCancel = collected \ agreed]

--------------------------------------------------------------------------------
(* One step of an engine, from collective to collective. *)

(* The end of a step: the runner sends the chunks of the tasks in said (rank *)
(* 0 only), looking each up among those it holds, then drops what is over.   *)
EndStep(r, g, said, over) ==
  IF r = 0 /\ ~ (said \subseteq g.held)
    THEN [g EXCEPT !.pc = "dead"]
    ELSE [g EXCEPT !.pc = "poll", !.held = @ \ over, !.now = <<>>]

(* _apply_cancellations of the batch engine: every agreed cancellation is    *)
(* reported and forgotten; of the tasks only the active ones are removed.    *)
ApplyCancellations(r, g, said, finished) ==
  EndStep(r, [g EXCEPT !.active = Keep(@, Tasks \ g.cancelled), !.cancelled = {}],
          said, finished \cup g.cancelled)

(* The sequential engine reports its cancellations after every step. *)
EndSequential(r, g, said, finished) ==
  EndStep(r, g, said, finished \cup g.cancelled)

StartNext(g) ==
  IF g.queue = <<>>
    THEN [g EXCEPT !.active = <<>>]
    ELSE [g EXCEPT !.active = <<Head(g.queue)>>, !.queue = Tail(@)]

(* The batch engine prefills queued tasks while it has room, then decodes. *)
Fill(r, g) ==
  IF g.queue # <<>> /\ Len(g.active) < MaxActive
    THEN [g EXCEPT !.pc = "prefill", !.now = <<Head(g.queue)>>, !.queue = Tail(@)]
    ELSE IF g.active = <<>> THEN ApplyCancellations(r, g, {}, {})
                            ELSE [g EXCEPT !.pc = "decode", !.now = <<>>]

(* The sequential engine resumes its one generator: it prefills first, then  *)
(* gives a token per step, and is exhausted after the last one.              *)
Resume(r, g) ==
  IF g.active = <<>> THEN EndSequential(r, g, {}, {})
  ELSE LET t == Head(g.active) IN
       CASE g.count[t] = Length[t] -> EndSequential(r, StartNext(g), {}, {t})
         [] g.count[t] = 0         -> [g EXCEPT !.pc = "prefill", !.now = <<t>>]
         [] OTHER                  -> [g EXCEPT !.pc = "decode", !.now = <<>>]

(* BatchGenerator.step and SequentialGenerator.step, as far as the first     *)
(* collective.                                                               *)
Step(r, g) ==
  IF engine = "batch"
    THEN IF g.queue = <<>> THEN [g EXCEPT !.pc = "agree"] ELSE Fill(r, g)
    ELSE IF g.active = <<>> THEN [g EXCEPT !.pc = "agree"] ELSE Resume(r, g)

(* The rest of the step, once the tasks have been agreed at its start. *)
Agreed(r, g) == IF engine = "batch" THEN Fill(r, g) ELSE Resume(r, StartNext(g))

(* The end of a decoding step: a token for every active task. *)
Decoded(r, g) ==
  LET done == {t \in Range(g.active) : g.count[t] = Length[t]} IN
  IF engine = "batch"
    THEN ApplyCancellations(r, [g EXCEPT !.active = Keep(@, Tasks \ done)],
                            Range(g.active), done)
    ELSE EndSequential(r, g, Range(g.active), {})

(* The pass over the active tasks.  on_generation_token asks for agreement   *)
(* on a task's first token and on every Every-th after it.                   *)
Decode(r, g) ==
  LET count == [t \in Tasks |-> g.count[t] + (IF t \in Range(g.active) THEN 1 ELSE 0)]
      due == Keep(g.active, {t \in Tasks : (count[t] - 1) % Every = 0})
      h == [g EXCEPT !.count = count, !.now = due] IN
  IF due = <<>> THEN Decoded(r, h) ELSE [h EXCEPT !.pc = "check"]

Prefilling(g) == g.count[Head(g.now)] = 0

(* After agreeing on cancellations a callback gives up its task, if it is    *)
(* cancelled: always while prefilling, and also later in the sequential      *)
(* engine.  The batch engine says nothing of the task here.                  *)
Checked(r, g) ==
  LET t == Head(g.now) IN
  IF t \notin g.cancelled \/ (engine = "batch" /\ ~ Prefilling(g))
    THEN [g EXCEPT !.pc = "gather"]
    ELSE IF engine = "batch" THEN Fill(r, g)
                             ELSE EndSequential(r, StartNext(g), {}, {t})

(* After agreeing on tasks it goes on. *)
Gathered(r, g) ==
  IF Prefilling(g)
    THEN IF engine = "batch"
           THEN Fill(r, [g EXCEPT !.active = Append(@, Head(g.now))])
           ELSE [g EXCEPT !.pc = "decode", !.now = <<>>]
    ELSE IF Len(g.now) > 1 THEN [g EXCEPT !.pc = "check", !.now = Tail(@)]
                           ELSE Decoded(r, g)

--------------------------------------------------------------------------------
KInit ==
  /\ engine \in {"batch", "sequential"}
  /\ skipped \in SUBSET Cancels
  /\ coming \in {f \in [Rank -> SUBSET Tasks] :
                   /\ \A r \in Rank : Tasks \ skipped \subseteq f[r]
                   /\ \A t \in skipped : \E r \in Rank : t \notin f[r]}
  /\ cancels = [r \in Rank |-> Cancels]
  /\ box = [r \in Rank |-> {}]
  /\ rank = [r \in Rank |-> NewRank]

(* An idle runner waits for a task; between two steps it takes one if there  *)
(* is one.  Without tasks in hand it is idle again.                          *)
Take(r, t) ==
  /\ rank[r].pc \in {"idle", "poll"}
  /\ t \in coming[r]
  /\ coming' = [coming EXCEPT ![r] = @ \ {t}]
  /\ rank' = [rank EXCEPT ![r] = Step(r, Submit(@, t))]
  /\ UNCHANGED <<engine, cancels, box, skipped>>

Poll(r) ==
  /\ rank[r].pc = "poll"
  /\ rank' = [rank EXCEPT ![r] = IF @.held = {} THEN [@ EXCEPT !.pc = "idle"] ELSE Step(r, @)]
  /\ UNCHANGED <<engine, coming, cancels, box, skipped>>

(* RunnerSupervisor.cancel_task *)
Cancel(r, t) ==
  /\ t \in cancels[r]
  /\ cancels' = [cancels EXCEPT ![r] = @ \ {t}]
  /\ box' = [box EXCEPT ![r] = @ \cup {t}]
  /\ UNCHANGED <<engine, coming, rank, skipped>>

AllAt(op) == \A r \in Rank : rank[r].pc = op

(* mx_all_gather_tasks of the tasks waiting, at the start of a step and in a *)
(* callback.                                                                 *)
GatherTasks ==
  /\ AllAt("agree") \/ AllAt("gather")
  /\ LET agreed == Common([r \in Rank |-> Range(rank[r].maybe)]) IN
       rank' = [r \in Rank |->
                  LET g == AgreeOnTasks(rank[r], agreed) IN
                  IF g.pc = "agree" THEN Agreed(r, g) ELSE Gathered(r, g)]
  /\ UNCHANGED <<engine, coming, cancels, box, skipped>>

(* mx_all_gather_tasks of the cancellations that have arrived. *)
GatherCancellations ==
  /\ AllAt("check")
  /\ LET collected == [r \in Rank |-> Collected(r)]
         agreed == Common(collected) IN
       rank' = [r \in Rank |->
                  Checked(r, AgreeOnCancellations(rank[r], collected[r], agreed))]
  /\ box' = [r \in Rank |-> {}]
  /\ UNCHANGED <<engine, coming, cancels, skipped>>

(* The passes of the model: over a prompt, and over the active tasks. *)
Forward ==
  /\ \/ /\ AllAt("prefill")
        /\ rank' = [r \in Rank |-> [rank[r] EXCEPT !.pc = "check"]]
     \/ /\ AllAt("decode")
        /\ rank' = [r \in Rank |-> Decode(r, rank[r])]
  /\ UNCHANGED <<engine, coming, cancels, box, skipped>>

KNext ==
  \/ \E r \in Rank : Poll(r) \/ \E t \in Tasks : Take(r, t) \/ Cancel(r, t)
  \/ GatherTasks
  \/ GatherCancellations
  \/ Forward

KSpec == KInit /\ [][KNext]_kvars

--------------------------------------------------------------------------------
(* Properties. *)

Engine ==
  [pc : Waiting \cup {"idle", "poll", "dead"}, now : Seq(Tasks),
   held : SUBSET Tasks, known : SUBSET Tasks, maybe : Seq(Tasks), maybeCancel : SUBSET Tasks,
   queue : Seq(Tasks), active : Seq(Tasks), count : [Tasks -> Nat], cancelled : SUBSET Tasks]

(* The type of every variable. *)
TypeOK ==
  /\ engine \in {"batch", "sequential"} /\ skipped \in SUBSET Cancels
  /\ coming \in [Rank -> SUBSET Tasks]
  /\ cancels \in [Rank -> SUBSET Cancels] /\ box \in [Rank -> SUBSET Cancels]
  /\ rank \in [Rank -> Engine]

(* Ranks that wait in a collective wait in the same one, for the same task   *)
(* and over the same batch: the order in which tasks and cancellations came  *)
(* in never shows (agree_on_tasks, agree_on_cancellations, batch_generator.py). *)
SameCollective ==
  \A a, b \in Rank :
    {rank[a].pc, rank[b].pc} \subseteq Waiting =>
      /\ rank[a].pc = rank[b].pc /\ rank[a].now = rank[b].now
      /\ rank[a].active = rank[b].active /\ rank[a].queue = rank[b].queue

(* Once every rank has been given the same tasks, no rank is left waiting in *)
(* a collective for one that is idle (handle_generation_tasks, runner.py:338). *)
NobodyWaitsAlone ==
  skipped = {} /\ (\A r \in Rank : coming[r] = {}) =>
    ~ \E a, b \in Rank : rank[a].pc = "idle" /\ rank[b].pc \in Waiting

(* A task that a runner holds is somewhere in its engine, and an engine      *)
(* works only on tasks that its runner holds, but for those cancelled while  *)
(* they were queued: a task is neither lost nor answered twice.              *)
HeldIsInHand ==
  \A r \in Rank : rank[r].pc \in {"idle", "poll"} =>
    LET inHand == Range(rank[r].maybe) \cup Range(rank[r].queue) \cup Range(rank[r].active) IN
    /\ rank[r].held \subseteq inHand
    /\ inHand \ rank[r].held \subseteq Cancels

RanksInStep == SameCollective /\ NobodyWaitsAlone /\ HeldIsInHand

(* What docs/api.md:757 says of a cancelled request: "The server detects     *)
(* cancellation and stops processing immediately."  A task that its runner   *)
(* has let go is not decoded any more.                                       *)
CancelledStops ==
  \A r \in Rank : rank[r].pc = "decode" => Range(rank[r].active) \subseteq rank[r].held

================================================================================
