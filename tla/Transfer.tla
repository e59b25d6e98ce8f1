-------------------------------- MODULE Transfer -------------------------------
(***************************************************************************)
(* download_shard (download/download_utils.py): the files of one model are *)
(* fetched side by side into a directory with room for them, each through  *)
(* a .partial file that a later attempt, or a later process, resumes, that *)
(* is checked against the hash of the remote file, and that is renamed     *)
(* when it is whole.                                                       *)
(*                                                                         *)
(* The remote side may drop a connection, ignore the range that was asked  *)
(* for, rate-limit or refuse, and publish a new version of a file at any   *)
(* moment; the process may be killed and started again.  When one transfer *)
(* fails, asyncio.gather raises at once and the others go on unattended,   *)
(* so a download that is asked for again can meet them.  A byte is the     *)
(* version and the position that it was read from; an empty file is        *)
(* modelled as one that is not there.                                      *)
(***************************************************************************)
EXTENDS Integers, Sequences, FiniteSets, Functions

CONSTANTS
  Files,       \* the files of the repository, with the index and the weights
  Index,       \* the safetensors index
  Weights,     \* the files that it lists
  Size,        \* Size[f][v]: the length of file f in version v
  Dirs,        \* EXO_MODELS_DIRS, a sequence
  Attempts,    \* n_attempts
  MaxRuns      \* bound on the calls of download_shard

ASSUME TransferAssumption ==
  /\ Index \in Files /\ Weights \subseteq Files
  /\ Dirs \in Seq(Range(Dirs)) /\ Dirs # <<>>
  /\ Size \in [Files -> Seq(Nat \ {0})] /\ \A f \in Files : Size[f] # <<>>
  /\ Attempts \in Nat \ {0} /\ MaxRuns \in Nat

VARIABLES
  version,   \* the version of each file that the remote side has
  listed,    \* the cached file list: a size for each file, or Nothing
  final,     \* final[d][f]: the file in directory d, <<>> when it is not there
  partial,   \* likewise f.partial
  target,    \* target[r]: the directory of the r-th download_shard
  job,       \* job[r][f]: where its download_file_with_retry is with f
  progress,  \* progress[r][f]: file_progress, the status of f
  outcome,   \* outcome[r]: how it ended
  runs,      \* the number of calls of download_shard so far
  crossed    \* history: the files that two transfers were at work on at once

xvars == <<version, listed, final, partial, target, job, progress, outcome, runs, crossed>>

files == <<final, partial>>
remote == <<version, listed>>

Nothing == [f \in Files |-> 0]

Bytes(f, v) == [i \in 1 .. Size[f][v] |-> <<v, i>>]

(* fd: which file an open transfer writes to. *)
Idle == [pc |-> "idle", tries |-> 0, length |-> 0, hash |-> 0, from |-> 0, body |-> <<>>, pos |-> 0, fd |-> "none"]

Dir == Range(Dirs)
Run == 1 .. MaxRuns

Working(r, f) == job[r][f].pc \notin {"idle", "done"}

--------------------------------------------------------------------------------
(* Looking at the disk. *)

(* get_downloaded_size *)
DownloadedSize(d, f) == IF final[d][f] # <<>> THEN Len(final[d][f]) ELSE Len(partial[d][f])

Exists(d) == \E f \in Files : DownloadedSize(d, f) > 0

(* select_download_dir_for_shard: the first directory that has a part of the *)
(* model and room for the rest, or else the first with room for all of it.   *)
IsFirst(d, S) ==
  \E i \in DOMAIN Dirs : Dirs[i] = d /\ d \in S /\ \A j \in 1 .. i - 1 : Dirs[j] \notin S

SelectDir(d, roomForRest, roomForAll) ==
  LET begun == {e \in roomForRest : Exists(e)} IN
  IsFirst(d, IF begun # {} THEN begun ELSE roomForAll)

(* The status of a file before the transfer starts. *)
InitialStatus(d, f, list) ==
  IF final[d][f] # <<>> /\ DownloadedSize(d, f) = list[f] THEN "complete" ELSE "not_started"

--------------------------------------------------------------------------------
XInit ==
  /\ version = [f \in Files |-> 1]
  /\ listed = Nothing
  /\ final = [d \in Dir |-> [f \in Files |-> <<>>]]
  /\ partial = [d \in Dir |-> [f \in Files |-> <<>>]]
  /\ target = [r \in Run |-> Dirs[1]]
  /\ job = [r \in Run |-> [f \in Files |-> Idle]]
  /\ progress = [r \in Run |-> [f \in Files |-> "not_started"]]
  /\ outcome = [r \in Run |-> "none"]
  /\ runs = 0
  /\ crossed = {}

Current == [f \in Files |-> Size[f][version[f]]]

(* _scan_model_directory: the files that the index lists, without a size     *)
(* when they are not there, and what else there is.                          *)
LocalList(d) == [f \in Files |-> Len(final[d][f])]

Local == {LocalList(d) : d \in {e \in Dir : final[e][Index] # <<>>}}

(* fetch_file_list_with_cache: a recent cached list, the list of the remote  *)
(* side, or, when there is neither, the files of a local directory.          *)
FileLists ==
  {Current} \cup (IF listed = Nothing THEN Local ELSE {listed})

(* download_shard up to the transfers.  Only one is awaited at a time.       *)
StartShard ==
  /\ runs < MaxRuns /\ \A r \in Run : outcome[r] # "running"
  /\ runs' = runs + 1
  /\ LET r == runs + 1 IN
     \E list \in FileLists, roomForRest \in SUBSET Dir, roomForAll \in SUBSET Dir :
       /\ roomForAll \subseteq roomForRest
       /\ listed' = IF list = Current THEN Current ELSE listed
       /\ \/ /\ ~ \E d \in Dir : SelectDir(d, roomForRest, roomForAll)
             /\ outcome' = [outcome EXCEPT ![r] = "no space"]
             /\ UNCHANGED <<target, job, progress, crossed>>
          \/ \E d \in Dir :
               /\ SelectDir(d, roomForRest, roomForAll)
               /\ target' = [target EXCEPT ![r] = d]
               /\ job' = [job EXCEPT ![r] = [f \in Files |-> [Idle EXCEPT !.pc = "look"]]]
               /\ progress' = [progress EXCEPT ![r] = [f \in Files |-> InitialStatus(d, f, list)]]
               /\ outcome' = [outcome EXCEPT ![r] = "running"]
               /\ crossed' = crossed \cup {f \in Files : \E q \in Run : Working(q, f)}
  /\ UNCHANGED <<version, files>>

(* No file list at all: download_shard returns without a transfer. *)
NoFileList ==
  /\ runs < MaxRuns /\ \A r \in Run : outcome[r] # "running"
  /\ listed = Nothing /\ Local = {}
  /\ runs' = runs + 1
  /\ outcome' = [outcome EXCEPT ![runs + 1] = "not_started"]
  /\ UNCHANGED <<remote, files, target, job, progress, crossed>>

--------------------------------------------------------------------------------
(* _download_file, step by step. *)

At(r, f, pc) == job[r][f].pc = pc

Done(r, f) == job' = [job EXCEPT ![r][f] = [Idle EXCEPT !.pc = "done"]]

(* What becomes of the open files of the other transfers when the files of   *)
(* r's directory change their names.                                         *)
Names == [fd \in {"none", "partial", "final", "gone"} |-> fd]

Reopened(r, f, jobs, names) ==
  [q \in Run |-> IF target[q] = target[r] THEN [jobs[q] EXCEPT ![f].fd = names[@]] ELSE jobs[q]]

(* A file that is there stays if the remote side does not contradict its     *)
(* size, or cannot be asked.                                                 *)
KeepFile(r, f) ==
  /\ At(r, f, "look") /\ final[target[r]][f] # <<>>
  /\ Done(r, f)
  /\ UNCHANGED <<remote, files, target, progress, outcome, runs, crossed>>

RemoveStale(r, f) ==
  /\ At(r, f, "look") /\ final[target[r]][f] # <<>>
  /\ Len(final[target[r]][f]) # Size[f][version[f]]
  /\ final' = [final EXCEPT ![target[r]][f] = <<>>]
  /\ job' = Reopened(r, f, job, [Names EXCEPT !["final"] = "gone"])
  /\ UNCHANGED <<remote, partial, target, progress, outcome, runs, crossed>>

(* file_meta, and the position from which to resume. *)
GetMeta(r, f) ==
  /\ At(r, f, "look") /\ final[target[r]][f] = <<>>
  /\ LET from == Len(partial[target[r]][f])
         length == Size[f][version[f]] IN
       job' = [job EXCEPT ![r][f] = [@ EXCEPT !.pc = IF from = length THEN "verify" ELSE "get",
                                              !.length = length, !.hash = version[f], !.from = from]]
  /\ UNCHANGED <<remote, files, target, progress, outcome, runs, crossed>>

(* The answer to the request: the rest of the file as it now is, or all of   *)
(* it when the range is ignored; a range past the end is an error.  The      *)
(* partial file is opened to append, or anew when nothing is resumed.        *)
GetBody(r, f, honoured) ==
  /\ At(r, f, "get")
  /\ LET all == Bytes(f, version[f])
         from == job[r][f].from IN
       /\ IF honoured THEN from < Len(all) ELSE from > 0
       /\ job' = [job EXCEPT ![r][f].pc = "write", ![r][f].fd = "partial",
                             ![r][f].body = IF honoured THEN SubSeq(all, from + 1, Len(all)) ELSE all]
       /\ partial' = [partial EXCEPT ![target[r]][f] = IF from = 0 THEN <<>> ELSE @]
  /\ UNCHANGED <<remote, final, target, progress, outcome, runs, crossed>>

(* One more byte in a file: at its end when it was opened to append, and     *)
(* otherwise behind the byte that was written last.                          *)
Put(content, j) ==
  IF j.from > 0 THEN Append(content, Head(j.body))
  ELSE [i \in 1 .. (IF j.pos < Len(content) THEN Len(content) ELSE j.pos + 1) |->
          IF i = j.pos + 1 THEN Head(j.body) ELSE IF i <= Len(content) THEN content[i] ELSE <<0, 0>>]

WriteByte(r, f) ==
  /\ At(r, f, "write") /\ job[r][f].body # <<>>
  /\ LET put(dir, name) ==
           [dir EXCEPT ![target[r]][f] = IF job[r][f].fd = name THEN Put(@, job[r][f]) ELSE @] IN
       partial' = put(partial, "partial") /\ final' = put(final, "final")
  /\ job' = [job EXCEPT ![r][f].body = Tail(@), ![r][f].pos = @ + 1]
  /\ progress' = [progress EXCEPT ![r][f] = "in_progress"]
  /\ UNCHANGED <<remote, target, outcome, runs, crossed>>

EndOfBody(r, f) ==
  /\ At(r, f, "write") /\ job[r][f].body = <<>>
  /\ job' = [job EXCEPT ![r][f] = [@ EXCEPT !.pc = "verify", !.fd = "none", !.pos = 0, !.from = 0]]
  /\ UNCHANGED <<remote, files, target, progress, outcome, runs, crossed>>

(* A mutant: the length is taken for the content. *)
IntegrityByLength(r, f) == Len(partial[target[r]][f]) = job[r][f].length

(* calc_hash of the partial file against the hash of the metadata. *)
Integrity(r, f) == partial[target[r]][f] = Bytes(f, job[r][f].hash)

Verify(r, f) ==
  /\ At(r, f, "verify") /\ Integrity(r, f)
  /\ job' = [job EXCEPT ![r][f].pc = "rename"]
  /\ UNCHANGED <<remote, files, target, progress, outcome, runs, crossed>>

Rename(r, f) ==
  /\ At(r, f, "rename") /\ partial[target[r]][f] # <<>>
  /\ final' = [final EXCEPT ![target[r]][f] = partial[target[r]][f]]
  /\ partial' = [partial EXCEPT ![target[r]][f] = <<>>]
  /\ progress' = [progress EXCEPT ![r][f] = "complete"]
  /\ LET names == [Names EXCEPT !["partial"] = "final", !["final"] = "gone"] IN
       job' = [Reopened(r, f, job, names) EXCEPT ![r][f] = [Idle EXCEPT !.pc = "done"]]
  /\ UNCHANGED <<remote, target, outcome, runs, crossed>>

(* The exception that leaves one transfer: the caller of a download that is  *)
(* still awaited sees it, and the other transfers go on by themselves.       *)
Raise(r, f, jobs) ==
  /\ job' = [jobs EXCEPT ![r][f] = Idle]
  /\ outcome' = [outcome EXCEPT ![r] = IF @ = "running" THEN "failed" ELSE @]

(* download_file_with_retry: up to Attempts times. *)
FailWith(r, f, jobs) ==
  IF job[r][f].tries + 1 < Attempts
    THEN /\ job' = [jobs EXCEPT ![r][f] = [Idle EXCEPT !.pc = "look", !.tries = job[r][f].tries + 1]]
         /\ outcome' = outcome
    ELSE Raise(r, f, jobs)

Mismatch(r, f) ==
  /\ At(r, f, "verify") /\ ~ Integrity(r, f)
  /\ partial' = [partial EXCEPT ![target[r]][f] = <<>>]
  /\ FailWith(r, f, Reopened(r, f, job, [Names EXCEPT !["partial"] = "gone"]))
  /\ UNCHANGED <<remote, final, target, progress, runs, crossed>>

(* The connection drops, the server answers with an error or limits the rate. *)
Disturb(r, f) ==
  /\ job[r][f].pc \in {"get", "write"} \/ (At(r, f, "look") /\ final[target[r]][f] = <<>>)
  /\ FailWith(r, f, job)
  /\ UNCHANGED <<remote, files, target, progress, runs, crossed>>

(* HuggingFaceAuthenticationError and FileNotFoundError, also of a partial   *)
(* file that another transfer has taken away, are not retried.               *)
Refuse(r, f) ==
  /\ \/ job[r][f].pc \in {"look", "get"} /\ final[target[r]][f] = <<>>
     \/ job[r][f].pc \in {"verify", "rename"} /\ partial[target[r]][f] = <<>>
  /\ Raise(r, f, job)
  /\ UNCHANGED <<remote, files, target, progress, runs, crossed>>

--------------------------------------------------------------------------------
(* calculate_repo_progress, when all the transfers are over. *)
RepoStatus(r) ==
  IF \A f \in Files : progress[r][f] = "complete" THEN "complete" ELSE "incomplete"

FinishShard(r) ==
  /\ outcome[r] = "running" /\ \A f \in Files : At(r, f, "done")
  /\ outcome' = [outcome EXCEPT ![r] = RepoStatus(r)]
  /\ UNCHANGED <<remote, files, target, job, progress, runs, crossed>>

(* A cancelled download takes its transfers with it. *)
CancelShard(r) ==
  /\ outcome[r] = "running"
  /\ job' = [job EXCEPT ![r] = [f \in Files |-> Idle]]
  /\ outcome' = [outcome EXCEPT ![r] = "cancelled"]
  /\ UNCHANGED <<remote, files, target, progress, runs, crossed>>

(* The process is killed. *)
Kill ==
  /\ \E r \in Run, f \in Files : Working(r, f)
  /\ job' = [r \in Run |-> [f \in Files |-> Idle]]
  /\ outcome' = [r \in Run |-> IF outcome[r] = "running" THEN "killed" ELSE outcome[r]]
  /\ UNCHANGED <<remote, files, target, progress, runs, crossed>>

(* The remote repository changes. *)
Publish(f) ==
  /\ version[f] < Len(Size[f])
  /\ version' = [version EXCEPT ![f] = @ + 1]
  /\ UNCHANGED <<listed, files, target, job, progress, outcome, runs, crossed>>

XNext ==
  \/ StartShard \/ NoFileList \/ Kill
  \/ \E f \in Files : Publish(f)
  \/ \E r \in Run :
       \/ FinishShard(r) \/ CancelShard(r)
       \/ \E f \in Files :
            \/ KeepFile(r, f) \/ RemoveStale(r, f) \/ GetMeta(r, f)
            \/ \E honoured \in BOOLEAN : GetBody(r, f, honoured)
            \/ WriteByte(r, f) \/ EndOfBody(r, f) \/ Verify(r, f) \/ Rename(r, f)
            \/ Mismatch(r, f) \/ Disturb(r, f) \/ Refuse(r, f)

XSpec == XInit /\ [][XNext]_xvars

--------------------------------------------------------------------------------
(* Properties. *)

Byte == Nat \X Nat

Content == [Files -> Seq(Byte)]

Transfers ==
  [pc : {"idle", "look", "get", "write", "verify", "rename", "done"}, tries : Nat, length : Nat,
   hash : Nat, from : Nat, body : Seq(Byte), pos : Nat, fd : DOMAIN Names]

Outcomes ==
  {"none", "not_started", "no space", "running", "failed", "cancelled", "killed", "incomplete", "complete"}

(* The type of every variable. *)
TransferTypeOK ==
  /\ version \in [Files -> Nat] /\ \A f \in Files : version[f] \in 1 .. Len(Size[f])
  /\ listed \in [Files -> Nat]
  /\ final \in [Dir -> Content] /\ partial \in [Dir -> Content]
  /\ target \in [Run -> Dir] /\ job \in [Run -> [Files -> Transfers]]
  /\ progress \in [Run -> [Files -> {"not_started", "in_progress", "complete"}]]
  /\ outcome \in [Run -> Outcomes]
  /\ runs \in 0 .. MaxRuns /\ crossed \subseteq Files

(* Whatever the network and the remote side do, and whenever the process is  *)
(* killed, a file without the suffix .partial is byte for byte one version   *)
(* of the remote file (download_utils.py:737-755), unless the transfer of a  *)
(* failed download was still at work on it when it was downloaded again.     *)
FilesAreWhole ==
  \A d \in Dir : \A f \in Files \ crossed :
    final[d][f] # <<>> => \E v \in 1 .. Len(Size[f]) : final[d][f] = Bytes(f, v)

(* A download that reports itself complete has left every file of the model  *)
(* in one directory (calculate_repo_progress, download_shard), as long as no *)
(* later one has begun and the one before it left no transfer behind.        *)
CompleteIsComplete ==
  crossed = {} => \A r \in Run :
    runs = r /\ outcome[r] = "complete" => \A f \in Files : final[target[r]][f] # <<>>

TransfersAreWhole == FilesAreWhole /\ CompleteIsComplete

================================================================================
