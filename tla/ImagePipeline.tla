---------------------------- MODULE ImagePipeline ----------------------------
(***************************************************************************)
(* DiffusionRunner (worker/engines/image/pipeline/runner.py): the ranks of *)
(* an image model pass hidden states from stage to stage and latents from  *)
(* the last stage back to the first.  The first steps handle the whole     *)
(* image at once; after them each patch travels by itself, and a block     *)
(* attends to the other patches through keys and values that it kept       *)
(* (PipeFusion).  With classifier-free guidance a step runs a positive and *)
(* a negative branch, one after the other or in two pipelines whose last   *)
(* stages exchange their results.                                          *)
(*                                                                         *)
(* Nothing but the order of the messages tells a receiver what it gets.  A *)
(* first stage that notices a cancellation sends NaNs in place of data,    *)
(* and so does whoever receives them; everyone leaves the loop after the   *)
(* step, and the first stage takes in what the last one still sent.        *)
(***************************************************************************)
EXTENDS Integers, Sequences, FiniteSets, SequencesExt, FiniteSetsExt

CONSTANTS
  Setups,     \* the generations to run, see SetupOK
  Capacity    \* how many sends to one peer may be under way

VARIABLES
  setup,      \* the one that is run
  rank,       \* rank[r]: step, operations left in it, cancelling, where it is
  channel,    \* channel[q][r]: what q has sent and r has not received
  asked,      \* the ranks whose cancel_checker has become true
  kv          \* kv[r][row]: the step that the keys and values of a row are of

gvars == <<setup, rank, channel, asked, kv>>

(* stages: pipeline_world_size; cfg: how guidance is done; joint, single:    *)
(* the blocks of the model; ends: end_layer of each stage; steps, sync: the  *)
(* number of steps, and of those done in lockstep (init_time_step included); *)
(* rows: latent_height.                                                      *)
SetupOK(s) ==
  /\ s.cfg \in {"none", "sequential", "parallel"}
  /\ Len(s.ends) = s.stages /\ s.ends[s.stages] = s.joint + s.single
  /\ s.sync \in 1 .. s.steps /\ s.rows > 0 /\ s.cancel \in BOOLEAN

ImageAssumption == (\A s \in Setups : SetupOK(s)) /\ Capacity \in Nat \ {0}

--------------------------------------------------------------------------------
(* _init_cfg_topology and _compute_assigned_blocks. *)

GroupSize == IF setup.cfg = "parallel" THEN 2 * setup.stages ELSE setup.stages
Ranks == 0 .. GroupSize - 1

(* The second pipeline runs backwards, so that the last stages are neighbours. *)
DeviceRank(cfgRank, stage) == IF cfgRank = 0 THEN stage ELSE GroupSize - 1 - stage

CfgRank(r) == IF r < setup.stages THEN 0 ELSE 1
Stage(r) == IF CfgRank(r) = 0 THEN r ELSE GroupSize - 1 - r

IsFirst(r) == Stage(r) = 0
IsLast(r) == Stage(r) = setup.stages - 1
NextRank(r) == DeviceRank(CfgRank(r), Stage(r) + 1)
PrevRank(r) == DeviceRank(CfgRank(r), Stage(r) - 1)
FirstRank(r) == DeviceRank(CfgRank(r), 0)
LastRank(r) == DeviceRank(CfgRank(r), setup.stages - 1)
CfgPeer(r) == DeviceRank(1 - CfgRank(r), Stage(r))

StartLayer(r) == IF Stage(r) = 0 THEN 0 ELSE setup.ends[Stage(r)]
EndLayer(r) == setup.ends[Stage(r) + 1]
HasJoint(r) == StartLayer(r) < Min({EndLayer(r), setup.joint})
HasSingle(r) == EndLayer(r) > setup.joint
OwnsConcat(r) == HasJoint(r) /\ (HasSingle(r) \/ EndLayer(r) = setup.joint)

(* _get_cfg_branches *)
Branches(r) ==
  CASE setup.cfg = "none" -> <<"positive">>
    [] setup.cfg = "parallel" -> <<IF CfgRank(r) = 0 THEN "positive" ELSE "negative">>
    [] setup.cfg = "sequential" -> <<"positive", "negative">>

(* calculate_patch_heights and calculate_token_indices, in rows. *)
CeilDiv(a, b) == (a + b - 1) \div b

Patches(rows, n) ==
  LET h == CeilDiv(rows, n) IN
  [i \in 1 .. CeilDiv(rows, h) |-> (h * (i - 1) + 1) .. Min({rows, h * i})]

AllRows == 1 .. setup.rows
PatchRows == Patches(setup.rows, setup.stages)

--------------------------------------------------------------------------------
(* What a rank does in one step, as a sequence of operations.  A message is  *)
(* known by what it is, its step, its branch and its patch (0: all of them). *)

Send(r, what, t, b, p) == [op |-> "send", peer |-> r, tag |-> <<what, t, b, p>>]
Recv(r, what, t, b, p) == [op |-> "recv", peer |-> r, tag |-> <<what, t, b, p>>]
Blocks(t, p) == [op |-> "blocks", tag |-> <<t, p>>]

If(c, ops) == IF c THEN ops ELSE <<>>

(* _run_sync_pass (patch 0) and _run_single_patch_pass: one branch through   *)
(* the blocks of r.  The text goes along with the whole image and with the   *)
(* first patch only.                                                         *)
Pass(r, t, b, p) ==
  LET text == p \in {0, 1}
      merged == ~ OwnsConcat(r) /\ ~ IsFirst(r) IN
  If(HasJoint(r),
       If(~ IsFirst(r), <<Recv(PrevRank(r), "image", t, b, p)>>
                          \o If(text, <<Recv(PrevRank(r), "text", t, b, p)>>))
       \o <<Blocks(t, p)>>)
  \o If(OwnsConcat(r) /\ ~ HasSingle(r) /\ ~ IsLast(r), <<Send(NextRank(r), "merged", t, b, p)>>)
  \o If(~ OwnsConcat(r) /\ HasJoint(r) /\ ~ IsLast(r),
          <<Send(NextRank(r), "image", t, b, p)>> \o If(text, <<Send(NextRank(r), "text", t, b, p)>>))
  \o If(HasSingle(r),
          If(merged, <<Recv(PrevRank(r), "merged", t, b, p)>>)
          \o <<Blocks(t, p)>>
          \o If(~ IsLast(r), <<Send(NextRank(r), "merged", t, b, p)>>))

(* _exchange_and_apply_guidance *)
Exchange(r, t, p) ==
  If(setup.cfg = "parallel" /\ IsLast(r),
       IF CfgRank(r) = 0
         THEN <<Send(CfgPeer(r), "noise", t, "positive", p), Recv(CfgPeer(r), "noise", t, "negative", p)>>
         ELSE <<Recv(CfgPeer(r), "noise", t, "positive", p), Send(CfgPeer(r), "noise", t, "negative", p)>>)

AllBranches(r, t, p) ==
  FoldLeft(LAMBDA ops, b : ops \o Pass(r, t, b, p), <<>>, Branches(r)) \o Exchange(r, t, p)

Latents(r, t, p) == Recv(LastRank(r), "latents", t, "both", p)

(* _sync_pipeline_step *)
SyncStep(r, t) ==
  AllBranches(r, t, 0)
  \o If(IsLast(r) /\ ~ IsFirst(r), <<Send(FirstRank(r), "latents", t, "both", 0)>>)
  \o If(IsFirst(r) /\ ~ IsLast(r), <<Latents(r, t, 0)>>)

(* _async_pipeline_step *)
AsyncStep(r, t) ==
  FoldLeft(LAMBDA ops, p :
             ops
             \o If(IsFirst(r) /\ ~ IsLast(r) /\ t # setup.sync, <<Latents(r, t - 1, p)>>)
             \o AllBranches(r, t, p)
             \o If(IsLast(r) /\ ~ IsFirst(r) /\ t # setup.steps - 1,
                     <<Send(FirstRank(r), "latents", t, "both", p)>>),
           <<>>, [p \in 1 .. Len(PatchRows) |-> p])

(* _diffusion_step *)
StepOps(r, t) ==
  IF setup.stages = 1 \/ t < setup.sync THEN SyncStep(r, t) ELSE AsyncStep(r, t)

(* A mutant: what the last stage sent in the step is left where it is. *)
DrainNothing(r, t) == <<>>

(* The first stage receives what it would have received in the next step. *)
Drain(r, t) ==
  If(IsFirst(r) /\ ~ IsLast(r) /\ t >= setup.sync /\ t # setup.steps - 1,
       [p \in 1 .. Len(PatchRows) |-> Latents(r, t, p)])

--------------------------------------------------------------------------------
GInit ==
  /\ setup \in Setups
  /\ rank = [r \in Ranks |-> [t |-> -1, todo |-> <<>>, cancelling |-> FALSE, at |-> "loop"]]
  /\ channel = [q \in Ranks |-> [r \in Ranks |-> <<>>]]
  /\ asked = {}
  /\ kv = [r \in Ranks |-> [row \in AllRows |-> -1]]

(* A CancelTask reaches the runner of r. *)
AskToCancel(r) ==
  /\ setup.cancel /\ r \notin asked
  /\ asked' = asked \cup {r}
  /\ UNCHANGED <<setup, rank, channel, kv>>

(* The end of one step of _run_diffusion_loop, and the beginning of the      *)
(* next with _check_cancellation.                                            *)
NextStep(r) ==
  /\ rank[r].at = "loop" /\ rank[r].todo = <<>>
  /\ LET t == rank[r].t + 1
         cancelling == rank[r].cancelling \/ (IsFirst(r) /\ r \in asked) IN
       rank' = [rank EXCEPT ![r] =
         IF rank[r].cancelling THEN [@ EXCEPT !.at = "drain", !.todo = Drain(r, rank[r].t)]
         ELSE IF t = setup.steps \/ (cancelling /\ GroupSize = 1) THEN [@ EXCEPT !.at = "drain"]
         ELSE [@ EXCEPT !.t = t, !.cancelling = cancelling, !.todo = StepOps(r, t)]]
  /\ UNCHANGED <<setup, channel, asked, kv>>

Finished(r) ==
  /\ rank[r].at = "drain" /\ rank[r].todo = <<>>
  /\ rank' = [rank EXCEPT ![r].at = "returned"]
  /\ UNCHANGED <<setup, channel, asked, kv>>

Doing(r, op) == rank[r].todo # <<>> /\ Head(rank[r].todo).op = op

(* _send *)
DoSend(r) ==
  /\ Doing(r, "send")
  /\ LET o == Head(rank[r].todo) IN
       /\ Len(channel[r][o.peer]) < Capacity
       /\ channel' = [channel EXCEPT ![r][o.peer] = Append(@, [tag |-> o.tag, nan |-> rank[r].cancelling])]
  /\ rank' = [rank EXCEPT ![r].todo = Tail(@)]
  /\ UNCHANGED <<setup, asked, kv>>

(* _recv, _recv_like and _recv_and_check *)
DoRecv(r) ==
  /\ Doing(r, "recv")
  /\ LET q == Head(rank[r].todo).peer IN
       /\ channel[q][r] # <<>>
       /\ rank' = [rank EXCEPT ![r].todo = Tail(@), ![r].cancelling = @ \/ Head(channel[q][r]).nan]
       /\ channel' = [channel EXCEPT ![q][r] = Tail(@)]
  /\ UNCHANGED <<setup, asked, kv>>

(* The block wrappers in CACHING and in PATCHED mode. *)
DoBlocks(r) ==
  /\ Doing(r, "blocks")
  /\ LET tag == Head(rank[r].todo).tag
         rows == IF tag[2] = 0 THEN AllRows ELSE PatchRows[tag[2]] IN
       kv' = [kv EXCEPT ![r] = [row \in AllRows |-> IF row \in rows THEN tag[1] ELSE @[row]]]
  /\ rank' = [rank EXCEPT ![r].todo = Tail(@)]
  /\ UNCHANGED <<setup, channel, asked>>

GNext ==
  \E r \in Ranks :
    \/ AskToCancel(r) \/ NextStep(r) \/ Finished(r)
    \/ DoSend(r) \/ DoRecv(r) \/ DoBlocks(r)

GSpec == GInit /\ [][GNext]_gvars

--------------------------------------------------------------------------------
(* Properties. *)

(* Who waits to receive from a rank is sent the very thing it expects: the   *)
(* same kind of data of the same step, branch and patch, although only the   *)
(* order of the sends and receives says so (runner.py:785-1285).             *)
MessagesMatch ==
  \A r \in Ranks : Doing(r, "recv") =>
    LET o == Head(rank[r].todo) IN
    channel[o.peer][r] # <<>> => Head(channel[o.peer][r]).tag = o.tag

(* Nobody waits for ever, and a generation that ended, cancelled or not,     *)
(* leaves nothing in the channels for the next one to receive                *)
(* (_run_diffusion_loop and its drain, runner.py:596-613).                   *)
NothingLeftOver ==
  LET blocked(r) ==
        \/ rank[r].at = "returned"
        \/ Doing(r, "recv") /\ channel[Head(rank[r].todo).peer][r] = <<>>
        \/ Doing(r, "send") /\ Len(channel[r][Head(rank[r].todo).peer]) = Capacity IN
  (\A r \in Ranks : blocked(r)) =>
    /\ \A r \in Ranks : rank[r].at = "returned"
    /\ \A q, r \in Ranks : channel[q][r] = <<>>

(* Every row of the image was last seen by the blocks of a rank in the step  *)
(* that is under way or in the one before it: the patches of a step cover    *)
(* the image (calculate_patch_heights), and no block keeps older keys.       *)
StaleByOneStep ==
  \A r \in Ranks : \A row \in AllRows : kv[r][row] >= rank[r].t - 1

==============================================================================
