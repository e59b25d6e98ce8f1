------------------------------ MODULE MCRequests ------------------------------
(***************************************************************************)
(* What must come to an end, for TLC: every request (Requests) and every   *)
(* download (DownloadCoordinator).  A behaviour is one of one of the two,  *)
(* and the variables of the other do not change.                           *)
(***************************************************************************)
EXTENDS Requests

VARIABLES
  part,
  plan, status, active, disk, wrapper, task, slot, pc, shard, scan, answer, commands

coordinator == <<plan, status, active, disk, wrapper, task, slot, pc, shard, scan, answer, commands>>

\* A request without disturbances; the circumstances below add some.
Calm(h, r) == [hosts |-> h, requests |-> r, kinds |-> {"text"}, cancels |-> {}, deletes |-> 0,
               timeouts |-> 0, deaths |-> 0, lag |-> 1, prompt |-> TRUE]

\* One instance of two ranks, one of one rank, or two of one rank each.
Both == [i1 |-> <<"n1", "n2">>, i2 |-> <<>>]

Single == [i1 |-> <<"n1">>, i2 |-> <<>>]

Apart == [i1 |-> <<"n1">>, i2 |-> <<"n2">>]

Mixed ==
  {Calm(Apart, {"c1", "c2"}),
   [Calm(Both, {"c1"}) EXCEPT !.deaths = 1],
   [Calm(Both, {"c1"}) EXCEPT !.cancels = {"cancel", "leave"}],
   [Calm(Single, {"c1", "c2"}) EXCEPT !.deaths = 1],
   [Calm(Apart, {"c1"}) EXCEPT !.deletes = 1, !.deaths = 1],
   [Calm(Both, {"c1"}) EXCEPT !.timeouts = 1, !.kinds = {"image"}]}

\* One shard, two commands, and remote files that may have changed their sizes.
D == INSTANCE DownloadCoordinator WITH
       Shards <- {"s1"}, Slots <- {"k1"}, MaxCommands <- 2,
       Plans <- {{"start", "cancel", "delete"}}, Disks <- {"absent", "complete", "readonly"},
       Offline <- BOOLEAN, Indexed <- BOOLEAN, Drifts <- TRUE, setup <- plan

-----------------------------------------------------------------------------
Off == "off"

OffCoordinator ==
  /\ plan = Off /\ status = Off /\ active = Off /\ disk = Off /\ wrapper = Off /\ task = Off
  /\ slot = Off /\ pc = Off /\ shard = Off /\ scan = Off /\ answer = Off /\ commands = Off

\* No instance, and no request.
OffRequests ==
  /\ setup = Calm([i \in Instances |-> <<>>], {})
  /\ client = [c \in Commands |-> "new"]
  /\ api = TRUE /\ wire = <<>>
  /\ out = [s \in Sources |-> <<Off>>]
  /\ kind = Off /\ registered = Off /\ stream = Off /\ mapping = Off /\ in = Off /\ view = Off
  /\ sup = Off /\ answered = Off

RInit ==
  \/ part = "requests" /\ Init /\ OffCoordinator
  \/ part = "downloads" /\ D!Init /\ OffRequests

OfRequests(A) == part = "requests" /\ A /\ UNCHANGED <<part, coordinator>>

OfDownloads(A) == part = "downloads" /\ A /\ UNCHANGED <<part, plan, vars>>

RNext == OfRequests(Next) \/ OfDownloads(D!Next)

all == <<part, vars, coordinator>>

RSpec == RInit /\ [][RNext]_all

\* The fairness of Requests and of DownloadCoordinator, each in its part.
RFairSpec ==
  /\ RSpec
  /\ WF_all(OfRequests(SystemStep))
  /\ WF_all(OfDownloads(D!Start)) /\ WF_all(OfDownloads(D!RemoveFiles))
  /\ WF_all(OfDownloads(D!Deleted)) /\ WF_all(OfDownloads(D!Scan)) /\ SF_all(OfDownloads(D!ScanListed))
  /\ \A a \in D!Askers : WF_all(OfDownloads(D!Answer(a)))
  /\ \A s \in {"s1"} : WF_all(OfDownloads(D!Finish(s)))
  /\ \A d \in D!Downloads : WF_all(OfDownloads(D!EnterWrapper(d))) /\ WF_all(OfDownloads(D!LeaveWrapper(d)))
  /\ \A c \in {"k1"} : WF_all(OfDownloads(D!Callback(c)))

\* A model is not reported as being downloaded for ever.
OngoingEnds == D!OngoingEnds
=============================================================================
