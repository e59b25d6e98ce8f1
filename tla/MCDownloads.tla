----------------------------- MODULE MCDownloads -----------------------------
(***************************************************************************)
(* Downloads, for TLC: the coordinator of a node (DownloadCoordinator) and *)
(* the transfer of the files of one model (Transfer).  The two share no    *)
(* state here: a behaviour is one of one of them, and the variables of the *)
(* other stay as they begin, or are Off.                                   *)
(***************************************************************************)
EXTENDS DownloadCoordinator, Transfer, TLC

VARIABLE part

Off == "off"

\* All commands, or nothing that takes a complete model away.
AllPlans == {{"start", "cancel", "delete", "restart"}, {"start", "cancel"}}

\* An index, and weights of which a shorter version is published.
TwoVersions == [f \in {"i", "w"} |-> IF f = "i" THEN <<1>> ELSE <<2, 1>>]
TwoDirs == <<"d1", "d2">>

\* No download, and nothing that any property of the coordinator is about.
OffCoordinator ==
  /\ setup = [kinds |-> {"delete"}] /\ active = NoDownload /\ task = [s \in Shards |-> None]
  /\ status = Off /\ disk = Off /\ wrapper = Off /\ slot = Off /\ pc = Off /\ shard = Off
  /\ scan = Off /\ answer = Off /\ commands = Off

DInit ==
  \/ part = "coordinator" /\ Init /\ XInit
  \/ part = "transfer" /\ XInit /\ OffCoordinator

DNext ==
  \/ part = "coordinator" /\ Next /\ UNCHANGED <<part, xvars>>
  \/ part = "transfer" /\ XNext /\ UNCHANGED <<part, vars>>

DSpec == DInit /\ [][DNext]_<<part, vars, xvars>>

\* A file that two downloads are at work on at once is not followed further.
Uncrossed == crossed = {}

Interchangeable == Permutations(Shards) \cup Permutations(Slots)
=============================================================================
