------------------------- MODULE DownloadCoordinator -------------------------
(***************************************************************************)
(* The DownloadCoordinator of one node (download/coordinator.py), with the *)
(* SingletonShardDownloader it awaits (download/impl_shard_downloader.py). *)
(*                                                                         *)
(* Everything the coordinator keeps is keyed by model, so the module       *)
(* follows one model; commands and scans of other models only delay this   *)
(* one's.  All of it runs on one event loop: an action is what happens     *)
(* between two awaits that yield.  Five kinds of tasks interleave:         *)
(*                                                                         *)
(*   - the command processor, one command at a time (pc, shard);           *)
(*   - a download_wrapper per download it starts, the scope of the newest  *)
(*     of which is in active_downloads (wrapper, active);                  *)
(*   - the asyncio task that downloads a shard, which all the wrappers of  *)
(*     that shard share (task);                                            *)
(*   - progress callbacks, each a detached task of its own that outlives a *)
(*     cancelled download (slot);                                          *)
(*   - the scan of all models, every 60 seconds (scan).                    *)
(*                                                                         *)
(* A question to the file system is put in one action and the answer used  *)
(* in another; the disk is read at some moment between the two (Answer).   *)
(***************************************************************************)
EXTENDS Naturals, FiniteSets

CONSTANTS
  Shards,        \* the shards of the model that StartDownload may name
  Slots,         \* bound: progress callbacks under way at once
  MaxCommands,   \* bound: commands sent to the node
  Plans,         \* the sets of kinds of commands that may be sent
  Disks,         \* what may be on disk when the node starts
  Offline,       \* the values of DownloadCoordinator.offline
  Indexed,       \* whether resolve_existing_model can recognise the model
  Drifts         \* BOOLEAN: the remote file sizes may have changed

None == "none"

NoDownload == 0

Completed == {"completed", "readonly"}

Statuses == {None, "pending", "ongoing", "failed"} \cup Completed

Found == {"readonly", "writable", "missing"}

Progress == {"complete", "not_started"}

Ended == {"ok", "error", "cancelled"}

Downloads == 1..MaxCommands

\* Those that put questions to the file system.
Askers == {"command", "scan"} \cup Slots \cup Shards

ASSUME BoundsAssumption ==
  /\ MaxCommands \in Nat
  /\ \A k \in Plans : k \subseteq {"start", "cancel", "delete", "restart"}
  /\ Disks \subseteq {"absent", "partial", "complete", "readonly"}
  /\ Offline \cup Indexed \cup {Drifts} \subseteq BOOLEAN

ASSUME NamesAssumption ==
  /\ {"command", "scan"} \cap (Slots \cup Shards) = {}
  /\ Slots \cap Shards = {}
  /\ None \notin Shards

VARIABLES
  setup,     \* how the node was started, the kind of model, what is sent; constant
  status,    \* download_status[model]; None when the model is not a key
  active,    \* the download whose scope is active_downloads[model], or NoDownload
  disk,      \* what the model directories hold
  wrapper,   \* Downloads -> the download_wrapper task of that download
  task,      \* Shards -> SingletonShardDownloader.active_downloads
  slot,      \* Slots -> a detached progress callback, or None
  pc,        \* where the command processor is
  shard,     \* the shard it is starting
  scan,      \* where _emit_existing_download_progress is
  answer,    \* Askers -> a question, its answer, or None
  commands   \* how many commands have been sent

\* What steps change.
changing == <<status, active, disk, wrapper, task, slot, pc, shard, scan, answer, commands>>

vars == <<setup, changing>>

Answers == {None, "resolve?", "progress?"} \cup Found \cup Progress

Phases == {None, "starting", "waiting", "done"} \cup Ended

TaskStates == {None, "running", "final", "cancelling"} \cup Ended

Wrappers == [phase : Phases, shard : Shards \cup {None}, cancelled : BOOLEAN]

TypeOK ==
  /\ setup \in [offline : Offline, indexed : Indexed, kinds : Plans]
  /\ status \in Statuses
  /\ active \in Downloads \cup {NoDownload}
  /\ disk \in {"absent", "partial", "complete", "readonly"}
  /\ wrapper \in [Downloads -> Wrappers]
  /\ task \in [Shards -> TaskStates]
  /\ slot \in [Slots -> {None, "progress", "complete"}]
  /\ pc \in {"idle", "resolve", "progress", "confirm", "delete", "deleted"}
  /\ shard \in Shards \cup {None}
  /\ scan \in {"asleep", "listing", "confirming", "doubting", "readonly", "resolving"}
  /\ answer \in [Askers -> Answers]
  /\ commands \in 0..MaxCommands

Init ==
  /\ setup \in [offline : Offline, indexed : Indexed, kinds : Plans]
  /\ status = None
  /\ active = NoDownload
  /\ disk \in Disks
  /\ wrapper = [d \in Downloads |-> [phase |-> None, shard |-> None, cancelled |-> FALSE]]
  /\ task = [s \in Shards |-> None]
  /\ slot = [c \in Slots |-> None]
  /\ pc = "idle"
  /\ shard = None
  /\ scan = "asleep"
  /\ answer = [a \in Askers |-> None]
  /\ commands = 0

-----------------------------------------------------------------------------
\* The file system.

\* resolve_existing_model: where a complete copy is found, read-only first.
Resolved ==
  IF disk = "readonly" THEN "readonly"
  ELSE IF disk = "complete" /\ setup.indexed THEN "writable" ELSE "missing"

\* The status download_shard computes with skip_download: it compares sizes
\* with the remote file list, so a complete model may look unfinished.
ProgressOnDisk ==
  IF disk \in {"complete", "readonly"}
  THEN {"complete"} \cup (IF Drifts THEN {"not_started"} ELSE {})
  ELSE {"not_started"}

\* A worker thread, or the downloader, reads the disk for a waiting asker.
Answer(a) ==
  /\ \/ answer[a] = "resolve?" /\ answer' = [answer EXCEPT ![a] = Resolved]
     \/ /\ answer[a] = "progress?"
        /\ \E p \in ProgressOnDisk : answer' = [answer EXCEPT ![a] = p]
  /\ UNCHANGED <<status, active, disk, wrapper, task, slot, pc, shard, scan, commands>>

Asked(a, question) == [answer EXCEPT ![a] = question]

\* _completed_from_path, and DownloadCompleted with the default directory
\* when nothing was found.
CompletedStatus(found) == IF found = "readonly" THEN "readonly" ELSE "completed"

-----------------------------------------------------------------------------
\* The command processor.  Receiving yields once, so a wrapper that the last
\* command scheduled enters before the next command is handled.
Receive(kind) ==
  /\ pc = "idle"
  /\ \A d \in Downloads : wrapper[d].phase # "starting"
  /\ kind \in setup.kinds
  /\ commands < MaxCommands
  /\ commands' = commands + 1

Underway == {"ongoing", "failed"} \cup Completed

\* _start_download returns at once: already in progress, complete or failed.
SkipStart ==
  /\ Receive("start")
  /\ status \in Underway
  /\ UNCHANGED <<status, active, disk, wrapper, task, slot, pc, shard, scan, answer>>

StartDownload(s) ==
  /\ Receive("start")
  /\ status \notin Underway
  /\ pc' = "resolve"
  /\ shard' = s
  /\ answer' = Asked("command", "resolve?")
  /\ UNCHANGED <<status, active, disk, wrapper, task, slot, scan>>

\* The model is on disk already, or a DownloadPending is emitted and the
\* downloader asked how far the shard is.
StartResolved ==
  /\ pc = "resolve"
  /\ answer["command"] \in Found
  /\ IF answer["command"] = "missing"
     THEN /\ status' = "pending"
          /\ pc' = "progress"
          /\ answer' = Asked("command", "progress?")
          /\ UNCHANGED shard
     ELSE /\ status' = CompletedStatus(answer["command"])
          /\ pc' = "idle"
          /\ answer' = Asked("command", None)
          /\ shard' = None
  /\ UNCHANGED <<active, disk, wrapper, task, slot, scan, commands>>

\* _start_download_task: the wrapper is scheduled and its scope registered.
\* A download is known by the number of its command.
StartDownloadTask ==
  /\ status' = "ongoing"
  /\ active' = commands
  /\ wrapper' = [wrapper EXCEPT ![commands] =
                   [phase |-> "starting", shard |-> shard, cancelled |-> FALSE]]

StartChecked ==
  /\ pc = "progress"
  /\ answer["command"] \in Progress
  /\ IF answer["command"] = "complete"
     THEN /\ pc' = "confirm"
          /\ answer' = Asked("command", "resolve?")
          /\ UNCHANGED <<status, active, wrapper, shard>>
     ELSE /\ pc' = "idle"
          /\ answer' = Asked("command", None)
          /\ shard' = None
          /\ IF setup.offline THEN status' = "failed" /\ UNCHANGED <<active, wrapper>>
                        ELSE StartDownloadTask
  /\ UNCHANGED <<disk, task, slot, scan, commands>>

StartConfirmed ==
  /\ pc = "confirm"
  /\ answer["command"] \in Found
  /\ status' = CompletedStatus(answer["command"])
  /\ pc' = "idle"
  /\ answer' = Asked("command", None)
  /\ shard' = None
  /\ UNCHANGED <<active, disk, wrapper, task, slot, scan, commands>>

\* CancelScope.cancel of a download that still has work: its wrapper, if it
\* awaits the shared task, cancels that task with it.
Interrupted(d) ==
  IF wrapper[d].phase = "waiting"
  THEN {s \in {wrapper[d].shard} : task[s] \in {"running", "final"}}
  ELSE {}

\* Mutant: the shared task is shielded from the wrapper's cancellation.
CancelShielded(d) ==
  /\ wrapper' = [wrapper EXCEPT ![d].cancelled = TRUE]
  /\ UNCHANGED task

CancelScope(d) ==
  /\ wrapper' = [wrapper EXCEPT ![d].cancelled = TRUE]
  /\ task' = [s \in Shards |-> IF s \in Interrupted(d) THEN "cancelling" ELSE task[s]]

\* What the interrupted tasks were asking is forgotten.
Forget(d) == [a \in Askers |-> IF a \in Interrupted(d) THEN None ELSE answer[a]]

\* _cancel_download; the scope stays registered until the wrapper ends.
CancelDownload ==
  /\ Receive("cancel")
  /\ IF active # NoDownload /\ status # None
     THEN CancelScope(active) /\ answer' = Forget(active) /\ status' = "pending"
     ELSE UNCHANGED <<wrapper, task, answer, status>>
  /\ UNCHANGED <<active, disk, slot, pc, shard, scan>>

\* _delete_download up to the await of delete_model: read-only copies are
\* protected, an active download is cancelled.
DeleteDownload ==
  /\ Receive("delete")
  /\ IF status = "readonly"
     THEN UNCHANGED <<wrapper, task, answer, pc>>
     ELSE /\ pc' = "delete"
          /\ IF active # NoDownload
             THEN CancelScope(active) /\ answer' = Forget(active)
             ELSE UNCHANGED <<wrapper, task, answer>>
  /\ UNCHANGED <<status, active, disk, slot, shard, scan>>

\* delete_model skips the read-only directories.
DiskAfterDelete == IF disk = "readonly" THEN disk ELSE "absent"

RemoveFiles ==
  /\ pc = "delete"
  /\ pc' = "deleted"
  /\ disk' = DiskAfterDelete
  /\ UNCHANGED <<status, active, wrapper, task, slot, shard, scan, answer, commands>>

\* DownloadPending is emitted and the model no longer tracked.
Deleted ==
  /\ pc = "deleted"
  /\ pc' = "idle"
  /\ status' = None
  /\ UNCHANGED <<active, disk, wrapper, task, slot, shard, scan, answer, commands>>

-----------------------------------------------------------------------------
\* Downloads.

\* The wrapper enters its scope and SingletonShardDownloader.ensure_shard: it
\* joins the shard's task, which may be on its way out, or creates it.
TaskAwaited(d) ==
  IF task[wrapper[d].shard] = None THEN "running" ELSE task[wrapper[d].shard]

EnterWrapper(d) ==
  /\ wrapper[d].phase = "starting"
  /\ task' = [task EXCEPT ![wrapper[d].shard] = TaskAwaited(d)]
  /\ wrapper' = [wrapper EXCEPT ![d].phase =
                   IF TaskAwaited(d) \in Ended THEN TaskAwaited(d) ELSE "waiting"]
  /\ UNCHANGED <<status, active, disk, slot, pc, shard, scan, answer, commands>>

\* A chunk or a file arrives; schedule_progress starts a detached callback,
\* which is left out when the callback's throttle would drop it.
Write(s) ==
  /\ task[s] = "running"
  /\ \/ disk \in {"absent", "partial"} /\ disk' = "partial"
     \/ disk = "partial" /\ disk' = "complete"
     \/ disk = "complete" /\ Drifts /\ disk' = "partial"
  /\ \/ UNCHANGED <<slot, answer>>
     \/ \E c \in Slots :
          /\ slot[c] = None
          /\ IF disk' = "complete"
             THEN /\ slot' = [slot EXCEPT ![c] = "complete"]
                  /\ answer' = Asked(c, "resolve?")
             ELSE /\ slot' = [slot EXCEPT ![c] = "progress"]
                  /\ UNCHANGED answer
  /\ UNCHANGED <<status, active, wrapper, task, pc, shard, scan, commands>>

\* The last rename was already with a worker thread when the task was cancelled.
LateRename(s) ==
  /\ task[s] = "cancelling"
  /\ disk = "partial"
  /\ disk' = "complete"
  /\ UNCHANGED <<status, active, wrapper, task, slot, pc, shard, scan, answer, commands>>

\* Those that await the task of shard s learn how it ended.
EndTask(s, outcome) ==
  /\ task' = [task EXCEPT ![s] = outcome]
  /\ wrapper' = [d \in Downloads |->
                   IF wrapper[d].phase = "waiting" /\ wrapper[d].shard = s
                   THEN [wrapper[d] EXCEPT !.phase = outcome] ELSE wrapper[d]]

\* All files are there: download_shard awaits the final progress callback.
AllFiles(s) ==
  /\ task[s] = "running"
  /\ disk = "complete"
  /\ task' = [task EXCEPT ![s] = "final"]
  /\ answer' = Asked(s, "resolve?")
  /\ UNCHANGED <<status, active, disk, wrapper, slot, pc, shard, scan, commands>>

FinalCallback(s) ==
  /\ task[s] = "final"
  /\ answer[s] \in Found
  /\ status' = CompletedStatus(answer[s])
  /\ answer' = Asked(s, None)
  /\ EndTask(s, "ok")
  /\ UNCHANGED <<active, disk, slot, pc, shard, scan, commands>>

\* download_shard returns without a "complete": the file list could not be
\* had, or a file present was not counted because its size had drifted.
GiveUp(s) ==
  /\ task[s] = "running"
  /\ disk # "complete" \/ Drifts
  /\ EndTask(s, "ok")
  /\ UNCHANGED <<status, active, disk, slot, pc, shard, scan, answer, commands>>

\* The retries are used up, the disk is full, access is denied.
FailTask(s) ==
  /\ task[s] = "running"
  /\ EndTask(s, "error")
  /\ UNCHANGED <<status, active, disk, slot, pc, shard, scan, answer, commands>>

CancelledTask(s) ==
  /\ task[s] = "cancelling"
  /\ EndTask(s, "cancelled")
  /\ UNCHANGED <<status, active, disk, slot, pc, shard, scan, answer, commands>>

\* The wrapper resumes: ensure_shard forgets a task that is done, an error is
\* a DownloadFailed, and whichever scope is registered for the model goes.
StatusAfter(outcome) == IF outcome = "error" THEN "failed" ELSE status

\* Mutant: a cancelled wrapper leaves its scope behind.
ActiveUnlessCancelled(outcome) == IF outcome = "cancelled" THEN active ELSE NoDownload

ActiveAfter(outcome) == NoDownload

LeaveWrapper(d) ==
  LET s == wrapper[d].shard
  IN  /\ wrapper[d].phase \in Ended
      /\ wrapper' = [wrapper EXCEPT ![d].phase = "done"]
      /\ task' = [task EXCEPT ![s] = IF @ \in Ended THEN None ELSE @]
      /\ status' = StatusAfter(wrapper[d].phase)
      /\ active' = ActiveAfter(wrapper[d].phase)
      /\ UNCHANGED <<disk, slot, pc, shard, scan, answer, commands>>

\* _download_progress_callback, run as a task of its own.
Callback(c) ==
  /\ \/ slot[c] = "progress" /\ status' = "ongoing"
     \/ /\ slot[c] = "complete"
        /\ answer[c] \in Found
        /\ status' = CompletedStatus(answer[c])
  /\ slot' = [slot EXCEPT ![c] = None]
  /\ answer' = Asked(c, None)
  /\ UNCHANGED <<active, disk, wrapper, task, pc, shard, scan, commands>>

-----------------------------------------------------------------------------
\* The scan.

ScanBegins ==
  /\ scan = "asleep"
  /\ scan' = "listing"
  /\ answer' = Asked("scan", "progress?")
  /\ UNCHANGED <<status, active, disk, wrapper, task, slot, pc, shard, commands>>

\* Mutant: a model whose status counts is left alone as well.
ScanSkipsUnderway(progress) == active # NoDownload \/ status \in Underway

\* Active downloads are left alone; a model that is complete is not
\* downgraded by a size check.
ScanSkips(progress) ==
  \/ active # NoDownload
  \/ progress = "not_started" /\ status \in Completed

ScanListed ==
  /\ scan = "listing"
  /\ answer["scan"] \in Progress
  /\ IF ScanSkips(answer["scan"])
     THEN scan' = "readonly" /\ answer' = Asked("scan", None)
     ELSE /\ scan' = IF answer["scan"] = "complete" THEN "confirming" ELSE "doubting"
          /\ answer' = Asked("scan", "resolve?")
  /\ UNCHANGED <<status, active, disk, wrapper, task, slot, pc, shard, commands>>

\* The downloader could not tell how far the model is: a warning.
ScanMisses ==
  /\ scan = "listing"
  /\ answer["scan"] \in Progress
  /\ scan' = "readonly"
  /\ answer' = Asked("scan", None)
  /\ UNCHANGED <<status, active, disk, wrapper, task, slot, pc, shard, commands>>

\* Mutant: a size check that says not_started is confirmed like a "complete".
ScannedComplete(found) == CompletedStatus(found)

\* The code also has a DownloadOngoing here, for bytes of this session; a
\* check that downloads nothing has none.
ScannedStatus(found) ==
  IF found = "missing" /\ scan = "doubting" THEN "pending" ELSE CompletedStatus(found)

ScanResolved ==
  /\ scan \in {"confirming", "doubting"}
  /\ answer["scan"] \in Found
  /\ status' = ScannedStatus(answer["scan"])
  /\ scan' = "readonly"
  /\ answer' = Asked("scan", None)
  /\ UNCHANGED <<active, disk, wrapper, task, slot, pc, shard, commands>>

\* Then the read-only directories, for models without a status that counts.
ScanReadOnly ==
  /\ scan = "readonly"
  /\ IF active # NoDownload \/ status \in Underway
     THEN scan' = "asleep" /\ UNCHANGED answer
     ELSE scan' = "resolving" /\ answer' = Asked("scan", "resolve?")
  /\ UNCHANGED <<status, active, disk, wrapper, task, slot, pc, shard, commands>>

ScanEnds ==
  /\ scan = "resolving"
  /\ answer["scan"] \in Found
  /\ status' = IF answer["scan"] = "readonly" THEN "readonly" ELSE status
  /\ scan' = "asleep"
  /\ answer' = Asked("scan", None)
  /\ UNCHANGED <<active, disk, wrapper, task, slot, pc, shard, commands>>

-----------------------------------------------------------------------------
\* shutdown, and the new coordinator the elect loop makes for a new master:
\* the tasks are cancelled and waited for, the files stay.  Removing files
\* goes on in its thread.
Restart ==
  /\ "restart" \in setup.kinds
  /\ commands < MaxCommands
  /\ commands' = commands + 1
  /\ disk' \in {disk} \cup (IF pc = "delete" THEN {DiskAfterDelete} ELSE {})
  /\ status' = None
  /\ active' = NoDownload
  /\ wrapper' = [d \in Downloads |->
                   IF wrapper[d].phase = None THEN wrapper[d]
                   ELSE [wrapper[d] EXCEPT !.phase = "done"]]
  /\ task' = [s \in Shards |-> None]
  /\ slot' = [c \in Slots |-> None]
  /\ pc' = "idle"
  /\ shard' = None
  /\ scan' = "asleep"
  /\ answer' = [a \in Askers |-> None]

Command == SkipStart \/ (\E s \in Shards : StartDownload(s)) \/ CancelDownload \/ DeleteDownload

Start == StartResolved \/ StartChecked \/ StartConfirmed

Scan == ScanBegins \/ ScanListed \/ ScanMisses \/ ScanResolved \/ ScanReadOnly \/ ScanEnds

Finish(s) == AllFiles(s) \/ FinalCallback(s) \/ GiveUp(s) \/ FailTask(s) \/ CancelledTask(s)

Next ==
  /\ \/ Command \/ Start \/ RemoveFiles \/ Deleted \/ Scan \/ Restart
     \/ \E a \in Askers : Answer(a)
     \/ \E s \in Shards : Write(s) \/ LateRename(s) \/ Finish(s)
     \/ \E d \in Downloads : EnterWrapper(d) \/ LeaveWrapper(d)
     \/ \E c \in Slots : Callback(c)
  /\ UNCHANGED setup

Spec == Init /\ [][Next]_vars

\* Every task of the event loop is run, every thread answers, and a download
\* ends: requests have timeouts and each file at most five attempts.  The
\* scan's check of the model does not fail for good.  Nothing obliges anyone to
\* send a command.
Fairness ==
  /\ WF_changing(Start) /\ WF_changing(RemoveFiles) /\ WF_changing(Deleted)
  /\ WF_changing(Scan) /\ SF_changing(ScanListed)
  /\ \A a \in Askers : WF_changing(Answer(a))
  /\ \A s \in Shards : WF_changing(Finish(s))
  /\ \A d \in Downloads : WF_changing(EnterWrapper(d)) /\ WF_changing(LeaveWrapper(d))
  /\ \A c \in Slots : WF_changing(Callback(c))

FairSpec == Spec /\ Fairness
-----------------------------------------------------------------------------
\* Properties.

\* active_downloads never names a download that has ended.  The scan skips a
\* model as long as it is in there, so a scope left behind would freeze the
\* model's status (coordinator.py:301-302, 356).
ActiveIsAlive ==
  active # NoDownload => wrapper[active].phase \notin {None, "done"}

\* Nothing is downloaded on behalf of nobody: the task of a shard runs only
\* while a wrapper awaits it, and none of those that do was cancelled.
\* Cancelling one wrapper stops the task the wrappers share, so the others end
\* with it (coordinator.py:284-302, impl_shard_downloader.py:73-81).
NoOrphans ==
  \A s \in Shards :
    LET waiting == {d \in Downloads : wrapper[d].phase = "waiting" /\ wrapper[d].shard = s}
    IN  task[s] \in {"running", "final"} =>
          waiting # {} /\ \A d \in waiting : ~wrapper[d].cancelled

\* As long as nothing is deleted and the remote files stay the same, a model that is
\* reported complete is complete: neither a late callback nor a scan that read the disk
\* some time ago reports one that is not (coordinator.py:91-110, 198-246, 359-420).
CompletedOnDisk ==
  "delete" \notin setup.kinds /\ ~Drifts /\ status \in Completed
    => disk \in {"complete", "readonly"}

\* A model is not reported as being downloaded for ever.  StartDownload is
\* ignored for such a model, so a download that ended without a word would
\* never be started again; where no callback and no wrapper corrects the status,
\* the scan does (coordinator.py:190-196, 298-302, 376-407).
OngoingEnds == (status = "ongoing") ~> (status # "ongoing")

=============================================================================
