--------------------------- MODULE DownloadProofs ---------------------------
(***************************************************************************)
(* Proofs about DownloadCoordinator, for any shards, any number of         *)
(* commands and of callbacks under way, and about Transfer, for any files, *)
(* versions of them, directories and downloads.                            *)
(***************************************************************************)
EXTENDS DownloadCoordinator, Transfer, TLAPS

Starting == {"resolve", "progress", "confirm"}

(* Bookkeeping: a download has the number of its command, which is not     *)
(* given twice, and a shard from the moment it is scheduled.               *)
NumberInv ==
  /\ pc \in Starting => shard \in Shards /\ commands > 0 /\ wrapper[commands].phase = None
  /\ \A d \in Downloads :
       wrapper[d].phase # None => d <= commands /\ wrapper[d].shard \in Shards

(* A wrapper that has not entered its scope is not cancelled: the command  *)
(* processor yields before the next command.  A wrapper that awaits a task *)
(* awaits one that has not ended.                                          *)
AwaitInv ==
  \A d \in Downloads :
    /\ wrapper[d].phase = "starting" => ~wrapper[d].cancelled
    /\ wrapper[d].phase = "waiting" =>
         task[wrapper[d].shard] \in {"running", "final", "cancelling"}

(* Everything from which a status of Completed is made has seen a complete *)
(* model.                                                                  *)
Vouched ==
  \/ status \in Completed \/ pc = "confirm" \/ scan = "confirming"
  \/ \E s \in Shards : task[s] = "final"
  \/ \E c \in Slots : slot[c] = "complete"
  \/ \E a \in Askers : answer[a] \in {"readonly", "writable", "complete"}

Whole == disk \in {"complete", "readonly"}

DiskInv ==
  "delete" \notin setup.kinds /\ ~Drifts => pc \notin {"delete", "deleted"} /\ (Vouched => Whole)

Inv == TypeOK /\ NumberInv /\ AwaitInv /\ ActiveIsAlive /\ NoOrphans /\ DiskInv

-----------------------------------------------------------------------------
(* What steps do to the wrappers, field by field.                          *)

LEMMA CancelScopeEffect ==
  ASSUME TypeOK, NEW d \in Downloads, CancelScope(d)
  PROVE  /\ wrapper' \in [Downloads -> Wrappers] /\ task' \in [Shards -> TaskStates]
         /\ \A e \in Downloads :
              /\ wrapper'[e].cancelled = IF e = d THEN TRUE ELSE wrapper[e].cancelled
              /\ wrapper'[e].shard = wrapper[e].shard /\ wrapper'[e].phase = wrapper[e].phase
         /\ \A s \in Shards :
              task'[s] = IF /\ wrapper[d].phase = "waiting" /\ wrapper[d].shard = s
                            /\ task[s] \in {"running", "final"}
                         THEN "cancelling" ELSE task[s]
<1>1. wrapper \in [Downloads -> Wrappers] /\ task \in [Shards -> TaskStates]
  BY DEF TypeOK
<1>2. wrapper' = [wrapper EXCEPT ![d].cancelled = TRUE]
  BY DEF CancelScope
<1>3. task' = [s \in Shards |-> IF s \in Interrupted(d) THEN "cancelling" ELSE task[s]]
  BY DEF CancelScope
<1>4. \A s \in Shards : s \in Interrupted(d) <=>
        wrapper[d].phase = "waiting" /\ wrapper[d].shard = s /\ task[s] \in {"running", "final"}
  BY DEF Interrupted
<1>5. "cancelling" \in TaskStates
  BY DEF TaskStates
<1>6. /\ wrapper' \in [Downloads -> Wrappers]
      /\ \A e \in Downloads :
           /\ wrapper'[e].cancelled = IF e = d THEN TRUE ELSE wrapper[e].cancelled
           /\ wrapper'[e].shard = wrapper[e].shard /\ wrapper'[e].phase = wrapper[e].phase
  BY <1>1, <1>2 DEF Wrappers
<1>7. task' \in [Shards -> TaskStates]
  BY <1>1, <1>3, <1>5
<1>8. \A s \in Shards :
        task'[s] = IF /\ wrapper[d].phase = "waiting" /\ wrapper[d].shard = s
                      /\ task[s] \in {"running", "final"}
                   THEN "cancelling" ELSE task[s]
  BY <1>3, <1>4
<1> QED BY <1>6, <1>7, <1>8

LEMMA EndTaskEffect ==
  ASSUME TypeOK, NEW s \in Shards, NEW p \in Ended, EndTask(s, p)
  PROVE  /\ wrapper' \in [Downloads -> Wrappers] /\ task' \in [Shards -> TaskStates]
         /\ task' = [task EXCEPT ![s] = p]
         /\ \A e \in Downloads :
              /\ wrapper'[e].phase = IF wrapper[e].phase = "waiting" /\ wrapper[e].shard = s
                                     THEN p ELSE wrapper[e].phase
              /\ wrapper'[e].shard = wrapper[e].shard
              /\ wrapper'[e].cancelled = wrapper[e].cancelled
<1> DEFINE K == {e \in Downloads : wrapper[e].phase = "waiting" /\ wrapper[e].shard = s}
<1>1. wrapper \in [Downloads -> Wrappers] /\ task \in [Shards -> TaskStates]
  BY DEF TypeOK
<1>2. p \in Phases /\ p \in TaskStates
  BY DEF Phases, TaskStates
<1>3. task' = [task EXCEPT ![s] = p]
  BY DEF EndTask
<1>4. wrapper' = [e \in Downloads |->
                   IF e \in K THEN [wrapper[e] EXCEPT !.phase = p] ELSE wrapper[e]]
  BY DEF EndTask
<1>5. K \in SUBSET Downloads /\ \A e \in Downloads :
        e \in K <=> wrapper[e].phase = "waiting" /\ wrapper[e].shard = s
  OBVIOUS
<1> HIDE DEF K
<1>6. /\ wrapper' \in [Downloads -> Wrappers]
      /\ \A e \in Downloads :
           /\ wrapper'[e].phase = IF e \in K THEN p ELSE wrapper[e].phase
           /\ wrapper'[e].shard = wrapper[e].shard /\ wrapper'[e].cancelled = wrapper[e].cancelled
  BY <1>1, <1>2, <1>4 DEF Wrappers
<1> QED BY <1>1, <1>2, <1>3, <1>5, <1>6

LEMMA RestartEffect ==
  ASSUME TypeOK, Restart
  PROVE  /\ wrapper' \in [Downloads -> Wrappers]
         /\ \A e \in Downloads :
              /\ wrapper'[e].phase = IF wrapper[e].phase # None THEN "done" ELSE None
              /\ wrapper'[e].shard = wrapper[e].shard
<1> DEFINE K == {e \in Downloads : wrapper[e].phase # None}
<1>1. wrapper \in [Downloads -> Wrappers] /\ "done" \in Phases
  BY DEF TypeOK, Phases
<1>2. wrapper' = [e \in Downloads |->
                   IF e \in K THEN [wrapper[e] EXCEPT !.phase = "done"] ELSE wrapper[e]]
  BY DEF Restart
<1>3. K \in SUBSET Downloads /\ \A e \in Downloads : e \in K <=> wrapper[e].phase # None
  OBVIOUS
<1> HIDE DEF K
<1>4. /\ wrapper' \in [Downloads -> Wrappers]
      /\ \A e \in Downloads :
           /\ wrapper'[e].phase = IF e \in K THEN "done" ELSE wrapper[e].phase
           /\ wrapper'[e].shard = wrapper[e].shard /\ wrapper'[e].cancelled = wrapper[e].cancelled
  BY <1>1, <1>2, <1>3 DEF Wrappers
<1> QED BY <1>3, <1>4

LEMMA EnterEffect ==
  ASSUME TypeOK, NumberInv, NEW d \in Downloads, EnterWrapper(d)
  PROVE  /\ wrapper' \in [Downloads -> Wrappers] /\ task' \in [Shards -> TaskStates]
         /\ wrapper[d].shard \in Shards
         /\ \A e \in Downloads :
              /\ wrapper'[e].phase =
                   IF e # d THEN wrapper[e].phase
                   ELSE IF task[wrapper[d].shard] \in Ended THEN task[wrapper[d].shard]
                   ELSE "waiting"
              /\ wrapper'[e].shard = wrapper[e].shard
              /\ wrapper'[e].cancelled = wrapper[e].cancelled
         /\ \A s \in Shards :
              task'[s] = IF s = wrapper[d].shard /\ task[s] = None THEN "running" ELSE task[s]
<1>1. wrapper \in [Downloads -> Wrappers] /\ task \in [Shards -> TaskStates]
  BY DEF TypeOK
<1>2. wrapper[d].shard \in Shards
  BY DEF NumberInv, EnterWrapper, None
<1> DEFINE aw == TaskAwaited(d)
           p == IF aw \in Ended THEN aw ELSE "waiting"
<1>3. aw = IF task[wrapper[d].shard] = None THEN "running" ELSE task[wrapper[d].shard]
  BY DEF TaskAwaited
<1>4. p = IF task[wrapper[d].shard] \in Ended THEN task[wrapper[d].shard] ELSE "waiting"
  BY <1>3 DEF Ended, None
<1>5. aw \in TaskStates /\ p \in Phases
  BY <1>1, <1>2, <1>3, <1>4 DEF TaskStates, Phases, Ended
<1>6. task' = [task EXCEPT ![wrapper[d].shard] = aw] /\ wrapper' = [wrapper EXCEPT ![d].phase = p]
  BY DEF EnterWrapper
<1> HIDE DEF aw, p
<1>7. /\ wrapper' \in [Downloads -> Wrappers]
      /\ \A e \in Downloads :
           /\ wrapper'[e].phase = IF e = d THEN p ELSE wrapper[e].phase
           /\ wrapper'[e].shard = wrapper[e].shard /\ wrapper'[e].cancelled = wrapper[e].cancelled
  BY <1>1, <1>5, <1>6 DEF Wrappers
<1> QED BY <1>1, <1>2, <1>3, <1>4, <1>5, <1>6, <1>7

LEMMA LeaveEffect ==
  ASSUME TypeOK, NumberInv, NEW d \in Downloads, LeaveWrapper(d)
  PROVE  /\ wrapper' \in [Downloads -> Wrappers] /\ task' \in [Shards -> TaskStates]
         /\ wrapper[d].shard \in Shards
         /\ \A e \in Downloads :
              /\ wrapper'[e].phase = IF e = d THEN "done" ELSE wrapper[e].phase
              /\ wrapper'[e].shard = wrapper[e].shard
              /\ wrapper'[e].cancelled = wrapper[e].cancelled
         /\ \A s \in Shards :
              task'[s] = IF s = wrapper[d].shard /\ task[s] \in Ended THEN None ELSE task[s]
<1>1. wrapper \in [Downloads -> Wrappers] /\ task \in [Shards -> TaskStates]
  BY DEF TypeOK
<1>2. wrapper[d].shard \in Shards
  BY DEF NumberInv, LeaveWrapper, None, Ended
<1>3. "done" \in Phases /\ None \in TaskStates
  BY DEF Phases, TaskStates
<1>4. /\ wrapper' = [wrapper EXCEPT ![d].phase = "done"]
      /\ task' = [task EXCEPT ![wrapper[d].shard] =
                    IF task[wrapper[d].shard] \in Ended THEN None ELSE task[wrapper[d].shard]]
  BY DEF LeaveWrapper
<1>5. /\ wrapper' \in [Downloads -> Wrappers]
      /\ \A e \in Downloads :
           /\ wrapper'[e].phase = IF e = d THEN "done" ELSE wrapper[e].phase
           /\ wrapper'[e].shard = wrapper[e].shard /\ wrapper'[e].cancelled = wrapper[e].cancelled
  BY <1>1, <1>3, <1>4 DEF Wrappers
<1> QED BY <1>1, <1>2, <1>3, <1>4, <1>5

LEMMA InitInv == Init => Inv
<1> SUFFICES ASSUME Init PROVE Inv
  OBVIOUS
<1>1. TypeOK
  BY BoundsAssumption DEF Init, TypeOK, Statuses, NoDownload, Downloads, Wrappers, Phases,
     TaskStates, Answers
<1>2. NumberInv /\ AwaitInv /\ ActiveIsAlive /\ NoOrphans
  BY DEF Init, NumberInv, AwaitInv, ActiveIsAlive, NoOrphans, Starting, None
<1>3. DiskInv
  BY DEF Init, DiskInv, Vouched, Whole, None, Completed
<1> QED BY <1>1, <1>2, <1>3 DEF Inv

-----------------------------------------------------------------------------
(* Every action keeps the invariant.                                      *)

(* Types, which need the numbers and the shards of downloads.              *)
LEMMA TypeStep ==
  ASSUME TypeOK, NumberInv, Next
  PROVE  TypeOK'
<1>a. setup' = setup
  BY DEF Next
<1>1. CASE SkipStart
  BY <1>a, BoundsAssumption, <1>1 DEF TypeOK, Statuses, Found, Progress, Ended,
     Completed, Downloads, NoDownload, Answers, SkipStart, Receive
<1>2. CASE CancelDownload
  <2>1. active = NoDownload \/ active \in Downloads
    BY DEF TypeOK
  <2>2. UNCHANGED <<wrapper, task>> \/ (active \in Downloads /\ CancelScope(active))
    BY <1>2, <2>1 DEF CancelDownload
  <2>3. wrapper' \in [Downloads -> Wrappers] /\ task' \in [Shards -> TaskStates]
    BY <2>2, CancelScopeEffect DEF TypeOK
  <2>4. answer' \in [Askers -> Answers]
    BY <1>2 DEF CancelDownload, Forget, TypeOK, Answers
  <2> QED
    BY <1>a, <1>2, <2>3, <2>4, BoundsAssumption DEF TypeOK, Statuses, Found, Progress, Ended, Completed, Downloads, NoDownload, CancelDownload, Receive
<1>3. CASE DeleteDownload
  <2>1. active = NoDownload \/ active \in Downloads
    BY DEF TypeOK
  <2>2. UNCHANGED <<wrapper, task>> \/ (active \in Downloads /\ CancelScope(active))
    BY <1>3, <2>1 DEF DeleteDownload
  <2>3. wrapper' \in [Downloads -> Wrappers] /\ task' \in [Shards -> TaskStates]
    BY <2>2, CancelScopeEffect DEF TypeOK
  <2>4. answer' \in [Askers -> Answers]
    BY <1>3 DEF DeleteDownload, Forget, TypeOK, Answers
  <2> QED
    BY <1>a, <1>3, <2>3, <2>4, BoundsAssumption DEF TypeOK, Statuses, Found, Progress, Ended, Completed, Downloads, NoDownload, DeleteDownload, Receive
<1>4. CASE StartResolved
  BY <1>a, BoundsAssumption, <1>4 DEF TypeOK, Statuses, Found, Progress, Ended,
     Completed, Downloads, NoDownload, Answers, StartResolved, Asked, CompletedStatus
<1>5. CASE StartChecked
  <2>1. pc \in Starting /\ commands \in Downloads /\ shard \in Shards
    BY <1>5, BoundsAssumption DEF StartChecked, Starting, NumberInv, TypeOK, Downloads
  <2>2. [phase |-> "starting", shard |-> shard, cancelled |-> FALSE] \in Wrappers
    BY <2>1 DEF Wrappers, Phases
  <2>3. wrapper' \in [Downloads -> Wrappers]
    BY <1>5, <2>1, <2>2 DEF StartChecked, StartDownloadTask, TypeOK
  <2> QED
    BY <1>a, <1>5, <2>1, <2>3
    DEF TypeOK, Answers, Statuses, Found, Progress, NoDownload, StartChecked, Asked, StartDownloadTask
<1>6. CASE StartConfirmed
  BY <1>a, BoundsAssumption, <1>6 DEF TypeOK, Statuses, Found, Progress, Ended,
     Completed, Downloads, NoDownload, Answers, StartConfirmed, Asked, CompletedStatus
<1>7. CASE RemoveFiles
  BY <1>a, BoundsAssumption, <1>7 DEF TypeOK, Statuses, Found, Progress, Ended,
     Completed, Downloads, NoDownload, Answers, RemoveFiles, DiskAfterDelete
<1>8. CASE Deleted
  BY <1>a, BoundsAssumption, <1>8 DEF TypeOK, Statuses, Found, Progress, Ended,
     Completed, Downloads, NoDownload, Answers, Deleted
<1>9. CASE ScanBegins
  BY <1>a, BoundsAssumption, <1>9 DEF TypeOK, Statuses, Found, Progress, Ended,
     Completed, Downloads, NoDownload, Answers, ScanBegins, Asked
<1>10. CASE ScanListed
  BY <1>a, BoundsAssumption, <1>10 DEF TypeOK, Statuses, Found, Progress, Ended,
     Completed, Downloads, NoDownload, Answers, ScanListed, Asked
<1>11. CASE ScanMisses
  BY <1>a, BoundsAssumption, <1>11 DEF TypeOK, Statuses, Found, Progress, Ended,
     Completed, Downloads, NoDownload, Answers, ScanMisses, Asked
<1>12. CASE ScanResolved
  BY <1>a, BoundsAssumption, <1>12 DEF TypeOK, Statuses, Found, Progress, Ended,
     Completed, Downloads, NoDownload, Answers, ScanResolved, Asked, ScannedStatus,
     CompletedStatus
<1>13. CASE ScanReadOnly
  BY <1>a, BoundsAssumption, <1>13 DEF TypeOK, Statuses, Found, Progress, Ended,
     Completed, Downloads, NoDownload, Answers, ScanReadOnly, Asked
<1>14. CASE ScanEnds
  BY <1>a, BoundsAssumption, <1>14 DEF TypeOK, Statuses, Found, Progress, Ended,
     Completed, Downloads, NoDownload, Answers, ScanEnds, Asked
<1>15. CASE Restart
  <2>1. wrapper' \in [Downloads -> Wrappers]
    BY <1>15, RestartEffect
  <2>2. task' \in [Shards -> TaskStates]
    BY <1>15 DEF Restart, TaskStates
  <2>3. answer' \in [Askers -> Answers]
    BY <1>15 DEF Restart, Answers
  <2> QED
    BY <1>a, <1>15, <2>1, <2>2, <2>3, BoundsAssumption
    DEF TypeOK, Statuses, Downloads, NoDownload, Restart, DiskAfterDelete
<1>16. ASSUME NEW s \in Shards, StartDownload(s) PROVE TypeOK'
  <2>1. answer' \in [Askers -> Answers]
    BY <1>16 DEF StartDownload, Asked, TypeOK, Answers
  <2> QED
    BY <1>a, <1>16, <2>1, BoundsAssumption DEF TypeOK, StartDownload, Receive
<1>17. ASSUME NEW s \in Shards, Write(s) PROVE TypeOK'
  BY <1>a, BoundsAssumption, <1>17 DEF TypeOK, Statuses, Found, Progress, Ended,
     Completed, Downloads, NoDownload, Answers, Write, Asked
<1>18. ASSUME NEW s \in Shards, LateRename(s) PROVE TypeOK'
  BY <1>a, BoundsAssumption, <1>18 DEF TypeOK, Statuses, Found, Progress, Ended,
     Completed, Downloads, NoDownload, Answers, LateRename
<1>19. ASSUME NEW s \in Shards, AllFiles(s) PROVE TypeOK'
  <2>1. answer' \in [Askers -> Answers]
    BY <1>19 DEF AllFiles, Asked, TypeOK, Answers
  <2>2. task' \in [Shards -> TaskStates]
    BY <1>19 DEF AllFiles, TypeOK, TaskStates
  <2> QED
    BY <1>a, <1>19, <2>1, <2>2 DEF TypeOK, AllFiles
<1>20. ASSUME NEW s \in Shards, FinalCallback(s) PROVE TypeOK'
  <2>1. EndTask(s, "ok") /\ "ok" \in Ended
    BY <1>20 DEF FinalCallback, Ended
  <2>2. wrapper' \in [Downloads -> Wrappers] /\ task' \in [Shards -> TaskStates]
    BY <2>1, EndTaskEffect
  <2> QED
    BY <1>a, <1>20, <2>2, BoundsAssumption DEF TypeOK, Statuses, Found, Progress, Ended, Completed, Downloads, NoDownload, Answers, FinalCallback, Asked, CompletedStatus
<1>21. ASSUME NEW s \in Shards, GiveUp(s) PROVE TypeOK'
  <2>1. EndTask(s, "ok") /\ "ok" \in Ended
    BY <1>21 DEF GiveUp, Ended
  <2>2. wrapper' \in [Downloads -> Wrappers] /\ task' \in [Shards -> TaskStates]
    BY <2>1, EndTaskEffect
  <2> QED
    BY <1>a, <1>21, <2>2, BoundsAssumption DEF TypeOK, Statuses, Found, Progress, Ended, Completed, Downloads, NoDownload, Answers, GiveUp
<1>22. ASSUME NEW s \in Shards, FailTask(s) PROVE TypeOK'
  <2>1. EndTask(s, "error") /\ "error" \in Ended
    BY <1>22 DEF FailTask, Ended
  <2>2. wrapper' \in [Downloads -> Wrappers] /\ task' \in [Shards -> TaskStates]
    BY <2>1, EndTaskEffect
  <2> QED
    BY <1>a, <1>22, <2>2, BoundsAssumption DEF TypeOK, Statuses, Found, Progress, Ended, Completed, Downloads, NoDownload, Answers, FailTask
<1>23. ASSUME NEW s \in Shards, CancelledTask(s) PROVE TypeOK'
  <2>1. EndTask(s, "cancelled") /\ "cancelled" \in Ended
    BY <1>23 DEF CancelledTask, Ended
  <2>2. wrapper' \in [Downloads -> Wrappers] /\ task' \in [Shards -> TaskStates]
    BY <2>1, EndTaskEffect
  <2> QED
    BY <1>a, <1>23, <2>2, BoundsAssumption DEF TypeOK, Statuses, Found, Progress, Ended, Completed, Downloads, NoDownload, Answers, CancelledTask
<1>24. ASSUME NEW d \in Downloads, EnterWrapper(d) PROVE TypeOK'
  <2>1. wrapper' \in [Downloads -> Wrappers] /\ task' \in [Shards -> TaskStates]
    BY <1>24, EnterEffect
  <2> QED
    BY <1>a, <1>24, <2>1, BoundsAssumption DEF TypeOK, Statuses, Found, Progress, Ended, Completed, Downloads, NoDownload, EnterWrapper
<1>25. ASSUME NEW d \in Downloads, LeaveWrapper(d) PROVE TypeOK'
  <2>1. wrapper' \in [Downloads -> Wrappers] /\ task' \in [Shards -> TaskStates]
    BY <1>25, LeaveEffect
  <2> QED
    BY <1>a, <1>25, <2>1, BoundsAssumption DEF TypeOK, Statuses, Found, Progress, Ended, Completed, Downloads, NoDownload, LeaveWrapper, StatusAfter, ActiveAfter
<1>26. ASSUME NEW c \in Slots, Callback(c) PROVE TypeOK'
  BY <1>a, BoundsAssumption, <1>26 DEF TypeOK, Statuses, Found, Progress, Ended,
     Completed, Downloads, NoDownload, Answers, Callback, Asked, CompletedStatus
<1>27. ASSUME NEW a \in Askers, Answer(a) PROVE TypeOK'
  BY <1>a, BoundsAssumption, <1>27 DEF TypeOK, Statuses, Found, Progress, Ended,
     Completed, Downloads, NoDownload, Answers, Answer, Resolved, ProgressOnDisk
<1> QED
  BY <1>1, <1>2, <1>3, <1>4, <1>5, <1>6, <1>7, <1>8, <1>9, <1>10, <1>11, <1>12, <1>13,
     <1>14, <1>15, <1>16, <1>17, <1>18, <1>19, <1>20, <1>21, <1>22, <1>23, <1>24, <1>25,
     <1>26, <1>27 DEF Next, Command, Start, Scan, Finish

(* Numbers and shards.                                                     *)
LEMMA NumberStep ==
  ASSUME TypeOK, NumberInv, Next
  PROVE  NumberInv'
<1>1. CASE SkipStart
  BY BoundsAssumption, <1>1 DEF NumberInv, Starting, TypeOK, Downloads, SkipStart,
     Receive
<1>2. CASE CancelDownload
  <2>1. UNCHANGED wrapper \/ (active \in Downloads /\ CancelScope(active))
    BY <1>2 DEF CancelDownload, TypeOK
  <2>2. \A e \in Downloads :
          wrapper'[e].phase = wrapper[e].phase /\ wrapper'[e].shard = wrapper[e].shard
    BY <2>1, CancelScopeEffect
  <2> QED
    BY <1>2, <2>2 DEF NumberInv, Starting, TypeOK, Downloads, CancelDownload, Receive
<1>3. CASE DeleteDownload
  <2>1. UNCHANGED wrapper \/ (active \in Downloads /\ CancelScope(active))
    BY <1>3 DEF DeleteDownload, TypeOK
  <2>2. \A e \in Downloads :
          wrapper'[e].phase = wrapper[e].phase /\ wrapper'[e].shard = wrapper[e].shard
    BY <2>1, CancelScopeEffect
  <2> QED
    BY <1>3, <2>2 DEF NumberInv, Starting, TypeOK, Downloads, DeleteDownload, Receive
<1>4. CASE StartResolved
  BY BoundsAssumption, <1>4 DEF NumberInv, Starting, TypeOK, Downloads, StartResolved
<1>5. CASE StartChecked
  <2>1. commands \in Downloads /\ shard \in Shards /\ wrapper[commands].phase = None
    BY <1>5, BoundsAssumption DEF StartChecked, NumberInv, Starting, TypeOK, Downloads
  <2>2. CASE wrapper' = wrapper
    BY <1>5, <2>1, <2>2 DEF NumberInv, Starting, StartChecked
  <2>3. CASE StartDownloadTask
    BY <1>5, <2>1, <2>3 DEF NumberInv, Starting, StartChecked, StartDownloadTask, TypeOK, Downloads
  <2> QED
    BY <1>5, <2>2, <2>3 DEF StartChecked
<1>6. CASE StartConfirmed
  BY BoundsAssumption, <1>6 DEF NumberInv, Starting, TypeOK, Downloads, StartConfirmed
<1>7. CASE RemoveFiles
  BY BoundsAssumption, <1>7 DEF NumberInv, Starting, TypeOK, Downloads, RemoveFiles
<1>8. CASE Deleted
  BY BoundsAssumption, <1>8 DEF NumberInv, Starting, TypeOK, Downloads, Deleted
<1>9. CASE ScanBegins
  BY BoundsAssumption, <1>9 DEF NumberInv, Starting, TypeOK, Downloads, ScanBegins
<1>10. CASE ScanListed
  BY BoundsAssumption, <1>10 DEF NumberInv, Starting, TypeOK, Downloads, ScanListed
<1>11. CASE ScanMisses
  BY BoundsAssumption, <1>11 DEF NumberInv, Starting, TypeOK, Downloads, ScanMisses
<1>12. CASE ScanResolved
  BY BoundsAssumption, <1>12 DEF NumberInv, Starting, TypeOK, Downloads, ScanResolved
<1>13. CASE ScanReadOnly
  BY BoundsAssumption, <1>13 DEF NumberInv, Starting, TypeOK, Downloads, ScanReadOnly
<1>14. CASE ScanEnds
  BY BoundsAssumption, <1>14 DEF NumberInv, Starting, TypeOK, Downloads, ScanEnds
<1>15. CASE Restart
  <2>1. \A e \in Downloads : wrapper'[e].phase # None =>
          wrapper[e].phase # None /\ wrapper'[e].shard = wrapper[e].shard
    BY <1>15, RestartEffect DEF Restart, None, Ended
  <2>2. \A e \in Downloads : wrapper[e].phase = None => wrapper'[e].phase = None
    BY <2>1
  <2> QED
    BY <1>15, <2>1, <2>2, BoundsAssumption DEF NumberInv, Starting, TypeOK, Downloads, Restart
<1>16. ASSUME NEW s \in Shards, StartDownload(s) PROVE NumberInv'
  BY BoundsAssumption, <1>16 DEF NumberInv, Starting, TypeOK, Downloads, StartDownload,
     Receive
<1>17. ASSUME NEW s \in Shards, Write(s) PROVE NumberInv'
  BY BoundsAssumption, <1>17 DEF NumberInv, Starting, TypeOK, Downloads, Write
<1>18. ASSUME NEW s \in Shards, LateRename(s) PROVE NumberInv'
  BY BoundsAssumption, <1>18 DEF NumberInv, Starting, TypeOK, Downloads, LateRename
<1>19. ASSUME NEW s \in Shards, AllFiles(s) PROVE NumberInv'
  BY BoundsAssumption, <1>19 DEF NumberInv, Starting, TypeOK, Downloads, AllFiles
<1>20. ASSUME NEW s \in Shards, FinalCallback(s) PROVE NumberInv'
  <2>1. EndTask(s, "ok") /\ "ok" \in Ended
    BY <1>20 DEF FinalCallback, Ended
  <2>2. \A e \in Downloads : wrapper'[e].phase # None =>
          wrapper[e].phase # None /\ wrapper'[e].shard = wrapper[e].shard
    BY <2>1, EndTaskEffect DEF None
  <2>3. \A e \in Downloads : wrapper[e].phase = None => wrapper'[e].phase = None
    BY <2>2
  <2> QED
    BY <1>20, <2>2, <2>3, BoundsAssumption DEF NumberInv, Starting, TypeOK, Downloads, FinalCallback
<1>21. ASSUME NEW s \in Shards, GiveUp(s) PROVE NumberInv'
  <2>1. EndTask(s, "ok") /\ "ok" \in Ended
    BY <1>21 DEF GiveUp, Ended
  <2>2. \A e \in Downloads : wrapper'[e].phase # None =>
          wrapper[e].phase # None /\ wrapper'[e].shard = wrapper[e].shard
    BY <2>1, EndTaskEffect DEF None
  <2>3. \A e \in Downloads : wrapper[e].phase = None => wrapper'[e].phase = None
    BY <2>2
  <2> QED
    BY <1>21, <2>2, <2>3, BoundsAssumption DEF NumberInv, Starting, TypeOK, Downloads, GiveUp
<1>22. ASSUME NEW s \in Shards, FailTask(s) PROVE NumberInv'
  <2>1. EndTask(s, "error") /\ "error" \in Ended
    BY <1>22 DEF FailTask, Ended
  <2>2. \A e \in Downloads : wrapper'[e].phase # None =>
          wrapper[e].phase # None /\ wrapper'[e].shard = wrapper[e].shard
    BY <2>1, EndTaskEffect DEF None
  <2>3. \A e \in Downloads : wrapper[e].phase = None => wrapper'[e].phase = None
    BY <2>2
  <2> QED
    BY <1>22, <2>2, <2>3, BoundsAssumption DEF NumberInv, Starting, TypeOK, Downloads, FailTask
<1>23. ASSUME NEW s \in Shards, CancelledTask(s) PROVE NumberInv'
  <2>1. EndTask(s, "cancelled") /\ "cancelled" \in Ended
    BY <1>23 DEF CancelledTask, Ended
  <2>2. \A e \in Downloads : wrapper'[e].phase # None =>
          wrapper[e].phase # None /\ wrapper'[e].shard = wrapper[e].shard
    BY <2>1, EndTaskEffect DEF None
  <2>3. \A e \in Downloads : wrapper[e].phase = None => wrapper'[e].phase = None
    BY <2>2
  <2> QED
    BY <1>23, <2>2, <2>3, BoundsAssumption DEF NumberInv, Starting, TypeOK, Downloads, CancelledTask
<1>24. ASSUME NEW d \in Downloads, EnterWrapper(d) PROVE NumberInv'
  <2>1. \A e \in Downloads : wrapper'[e].phase # None =>
          wrapper[e].phase # None /\ wrapper'[e].shard = wrapper[e].shard
    BY <1>24, EnterEffect DEF EnterWrapper, None, Ended
  <2>2. \A e \in Downloads : wrapper[e].phase = None => wrapper'[e].phase = None
    BY <2>1
  <2> QED
    BY <1>24, <2>1, <2>2, BoundsAssumption DEF NumberInv, Starting, TypeOK, Downloads, EnterWrapper
<1>25. ASSUME NEW d \in Downloads, LeaveWrapper(d) PROVE NumberInv'
  <2>1. \A e \in Downloads : wrapper'[e].phase # None =>
          wrapper[e].phase # None /\ wrapper'[e].shard = wrapper[e].shard
    BY <1>25, LeaveEffect DEF LeaveWrapper, None, Ended
  <2>2. \A e \in Downloads : wrapper[e].phase = None => wrapper'[e].phase = None
    BY <2>1
  <2> QED
    BY <1>25, <2>1, <2>2, BoundsAssumption DEF NumberInv, Starting, TypeOK, Downloads, LeaveWrapper
<1>26. ASSUME NEW c \in Slots, Callback(c) PROVE NumberInv'
  BY BoundsAssumption, <1>26 DEF NumberInv, Starting, TypeOK, Downloads, Callback
<1>27. ASSUME NEW a \in Askers, Answer(a) PROVE NumberInv'
  BY BoundsAssumption, <1>27 DEF NumberInv, Starting, TypeOK, Downloads, Answer
<1> QED
  BY <1>1, <1>2, <1>3, <1>4, <1>5, <1>6, <1>7, <1>8, <1>9, <1>10, <1>11, <1>12, <1>13,
     <1>14, <1>15, <1>16, <1>17, <1>18, <1>19, <1>20, <1>21, <1>22, <1>23, <1>24, <1>25,
     <1>26, <1>27 DEF Next, Command, Start, Scan, Finish

(* Cancelling a scope stops the task that the wrapper awaits; nobody whom   *)
(* another task serves is affected.                                         *)
LEMMA CancelKeepsAwait ==
  ASSUME TypeOK, NumberInv, AwaitInv, NoOrphans, ActiveIsAlive,
         \A e \in Downloads : wrapper[e].phase # "starting",
         active \in Downloads, CancelScope(active), active' = active
  PROVE  AwaitInv' /\ NoOrphans' /\ ActiveIsAlive'
<1>1. /\ \A e \in Downloads :
           /\ wrapper'[e].cancelled = IF e = active THEN TRUE ELSE wrapper[e].cancelled
           /\ wrapper'[e].shard = wrapper[e].shard /\ wrapper'[e].phase = wrapper[e].phase
      /\ \A s \in Shards :
           task'[s] = IF /\ wrapper[active].phase = "waiting" /\ wrapper[active].shard = s
                         /\ task[s] \in {"running", "final"}
                      THEN "cancelling" ELSE task[s]
  BY CancelScopeEffect
<1>2. AwaitInv'
  <2>1. \A e \in Downloads : wrapper'[e].phase = "waiting" =>
          wrapper[e].shard \in Shards /\ task[wrapper[e].shard] \in {"running", "final", "cancelling"}
    BY <1>1 DEF AwaitInv, NumberInv, None
  <2>2. \A s \in Shards : task'[s] = task[s] \/ task'[s] = "cancelling"
    BY <1>1
  <2> QED
    BY <1>1, <2>1, <2>2 DEF AwaitInv
<1>3. ActiveIsAlive'
  BY <1>1 DEF ActiveIsAlive
<1>4. ASSUME NEW s \in Shards, task'[s] \in {"running", "final"}
      PROVE  /\ \E e \in Downloads : wrapper'[e].phase = "waiting" /\ wrapper'[e].shard = s
             /\ \A e \in Downloads : wrapper'[e].phase = "waiting" /\ wrapper'[e].shard = s
                                       => ~wrapper'[e].cancelled
  <2>1. /\ task[s] \in {"running", "final"}
        /\ ~(wrapper[active].phase = "waiting" /\ wrapper[active].shard = s)
    BY <1>1, <1>4
  <2>2. /\ \E e \in Downloads : wrapper[e].phase = "waiting" /\ wrapper[e].shard = s
        /\ \A e \in Downloads : wrapper[e].phase = "waiting" /\ wrapper[e].shard = s
                                  => ~wrapper[e].cancelled
    BY <2>1 DEF NoOrphans
  <2> QED
    BY <1>1, <2>1, <2>2
<1> QED BY <1>2, <1>3, <1>4 DEF NoOrphans

(* A task that ends wakes exactly those that await it.                      *)
LEMMA EndKeepsAwait ==
  ASSUME TypeOK, NumberInv, AwaitInv, NoOrphans, ActiveIsAlive,
         NEW s \in Shards, NEW p \in Ended, EndTask(s, p), active' = active
  PROVE  AwaitInv' /\ NoOrphans' /\ ActiveIsAlive'
<1>1. /\ task' = [task EXCEPT ![s] = p]
      /\ \A e \in Downloads :
           /\ wrapper'[e].phase = IF wrapper[e].phase = "waiting" /\ wrapper[e].shard = s
                                  THEN p ELSE wrapper[e].phase
           /\ wrapper'[e].shard = wrapper[e].shard
           /\ wrapper'[e].cancelled = wrapper[e].cancelled
  BY EndTaskEffect
<1>2. task \in [Shards -> TaskStates] /\ active \in Downloads \cup {NoDownload}
  BY DEF TypeOK
<1>3. p \notin {None, "done", "starting", "waiting", "running", "final"}
  BY DEF Ended, None
<1>4. AwaitInv'
  BY <1>1, <1>2, <1>3 DEF AwaitInv, NumberInv, None
<1>5. ActiveIsAlive'
  BY <1>1, <1>2, <1>3 DEF ActiveIsAlive
<1>6. ASSUME NEW t \in Shards, task'[t] \in {"running", "final"}
      PROVE  /\ \E e \in Downloads : wrapper'[e].phase = "waiting" /\ wrapper'[e].shard = t
             /\ \A e \in Downloads : wrapper'[e].phase = "waiting" /\ wrapper'[e].shard = t
                                       => ~wrapper'[e].cancelled
  <2>1. t # s /\ task[t] \in {"running", "final"}
    BY <1>1, <1>2, <1>3, <1>6
  <2>2. /\ \E e \in Downloads : wrapper[e].phase = "waiting" /\ wrapper[e].shard = t
        /\ \A e \in Downloads : wrapper[e].phase = "waiting" /\ wrapper[e].shard = t
                                  => ~wrapper[e].cancelled
    BY <2>1 DEF NoOrphans
  <2> QED
    BY <1>1, <1>3, <2>1, <2>2
<1> QED BY <1>4, <1>5, <1>6 DEF NoOrphans

(* A wrapper that enters joins a task that nobody cancelled, or its own.    *)
LEMMA EnterKeepsAwait ==
  ASSUME TypeOK, NumberInv, AwaitInv, NoOrphans, ActiveIsAlive,
         NEW d \in Downloads, EnterWrapper(d)
  PROVE  AwaitInv' /\ NoOrphans' /\ ActiveIsAlive'
<1> DEFINE r == wrapper[d].shard
<1>1. /\ r \in Shards /\ task \in [Shards -> TaskStates]
      /\ \A e \in Downloads :
           /\ wrapper'[e].phase =
                IF e # d THEN wrapper[e].phase ELSE IF task[r] \in Ended THEN task[r] ELSE "waiting"
           /\ wrapper'[e].shard = wrapper[e].shard
           /\ wrapper'[e].cancelled = wrapper[e].cancelled
      /\ \A s \in Shards : task'[s] = IF s = r /\ task[s] = None THEN "running" ELSE task[s]
  BY EnterEffect DEF TypeOK
<1>2. wrapper[d].phase = "starting" /\ ~wrapper[d].cancelled /\ wrapper'[d].shard = r
  BY <1>1 DEF EnterWrapper, AwaitInv
<1>3. active' = active /\ active \in Downloads \cup {NoDownload}
  BY DEF EnterWrapper, TypeOK
<1> HIDE DEF r
<1>4. AwaitInv'
  <2> SUFFICES ASSUME NEW e \in Downloads
               PROVE  /\ wrapper'[e].phase = "starting" => ~wrapper'[e].cancelled
                      /\ wrapper'[e].phase = "waiting" =>
                           task'[wrapper'[e].shard] \in {"running", "final", "cancelling"}
    BY DEF AwaitInv
  <2>1. CASE e = d
    BY <1>1, <1>2, <2>1 DEF TaskStates, Ended, None
  <2>2. CASE e # d
    BY <1>1, <2>2 DEF AwaitInv, NumberInv, None
  <2> QED BY <2>1, <2>2
<1>5. ActiveIsAlive'
  BY <1>1, <1>2, <1>3 DEF ActiveIsAlive, Ended, None
<1>6. ASSUME NEW s \in Shards, task'[s] \in {"running", "final"}
      PROVE  /\ \E e \in Downloads : wrapper'[e].phase = "waiting" /\ wrapper'[e].shard = s
             /\ \A e \in Downloads : wrapper'[e].phase = "waiting" /\ wrapper'[e].shard = s
                                       => ~wrapper'[e].cancelled
  <2>1. CASE task[s] \in {"running", "final"}
    <3>1. /\ \E e \in Downloads : wrapper[e].phase = "waiting" /\ wrapper[e].shard = s
          /\ \A e \in Downloads : wrapper[e].phase = "waiting" /\ wrapper[e].shard = s
                                    => ~wrapper[e].cancelled
      BY <2>1 DEF NoOrphans
    <3> QED
      BY <1>1, <1>2, <3>1
  <2>2. CASE task[s] \notin {"running", "final"}
    <3>1. s = r /\ task[s] = None
      BY <1>1, <1>6, <2>2
    <3>2. wrapper'[d].phase = "waiting"
      BY <1>1, <3>1 DEF Ended, None
    <3>3. \A e \in Downloads : wrapper[e].phase = "waiting" => wrapper[e].shard # s
      BY <3>1 DEF AwaitInv, None
    <3> QED
      BY <1>1, <1>2, <3>1, <3>2, <3>3
  <2> QED BY <2>1, <2>2
<1> QED BY <1>4, <1>5, <1>6 DEF NoOrphans

(* Who awaits what.                                                        *)
LEMMA AwaitStep ==
  ASSUME TypeOK, NumberInv, AwaitInv, NoOrphans, ActiveIsAlive, Next
  PROVE  AwaitInv' /\ NoOrphans' /\ ActiveIsAlive'
<1>1. CASE SkipStart
  BY <1>1 DEF AwaitInv, NoOrphans, ActiveIsAlive, SkipStart
<1>2. CASE CancelDownload
  <2>1. CASE UNCHANGED <<wrapper, task>>
    BY <1>2, <2>1 DEF AwaitInv, NoOrphans, ActiveIsAlive, CancelDownload
  <2>2. CASE active \in Downloads /\ CancelScope(active)
    BY <1>2, <2>2, CancelKeepsAwait DEF CancelDownload, Receive
  <2> QED
    BY <1>2, <2>1, <2>2 DEF CancelDownload, TypeOK
<1>3. CASE DeleteDownload
  <2>1. CASE UNCHANGED <<wrapper, task>>
    BY <1>3, <2>1 DEF AwaitInv, NoOrphans, ActiveIsAlive, DeleteDownload
  <2>2. CASE active \in Downloads /\ CancelScope(active)
    BY <1>3, <2>2, CancelKeepsAwait DEF DeleteDownload, Receive
  <2> QED
    BY <1>3, <2>1, <2>2 DEF DeleteDownload, TypeOK
<1>4. CASE StartResolved
  BY <1>4 DEF AwaitInv, NoOrphans, ActiveIsAlive, StartResolved
<1>5. CASE StartChecked
  <2>1. commands \in Downloads /\ shard \in Shards /\ wrapper[commands].phase = None
    BY <1>5, BoundsAssumption DEF StartChecked, NumberInv, Starting, TypeOK, Downloads
  <2>2. CASE UNCHANGED <<wrapper, active>>
    BY <1>5, <2>2 DEF AwaitInv, NoOrphans, ActiveIsAlive, StartChecked
  <2>3. CASE StartDownloadTask
    BY <1>5, <2>1, <2>3
    DEF AwaitInv, NoOrphans, ActiveIsAlive, StartChecked, StartDownloadTask, TypeOK, Downloads, None
  <2> QED
    BY <1>5, <2>2, <2>3 DEF StartChecked
<1>6. CASE StartConfirmed
  BY <1>6 DEF AwaitInv, NoOrphans, ActiveIsAlive, StartConfirmed
<1>7. CASE RemoveFiles
  BY <1>7 DEF AwaitInv, NoOrphans, ActiveIsAlive, RemoveFiles
<1>8. CASE Deleted
  BY <1>8 DEF AwaitInv, NoOrphans, ActiveIsAlive, Deleted
<1>9. CASE ScanBegins
  BY <1>9 DEF AwaitInv, NoOrphans, ActiveIsAlive, ScanBegins
<1>10. CASE ScanListed
  BY <1>10 DEF AwaitInv, NoOrphans, ActiveIsAlive, ScanListed
<1>11. CASE ScanMisses
  BY <1>11 DEF AwaitInv, NoOrphans, ActiveIsAlive, ScanMisses
<1>12. CASE ScanResolved
  BY <1>12 DEF AwaitInv, NoOrphans, ActiveIsAlive, ScanResolved
<1>13. CASE ScanReadOnly
  BY <1>13 DEF AwaitInv, NoOrphans, ActiveIsAlive, ScanReadOnly
<1>14. CASE ScanEnds
  BY <1>14 DEF AwaitInv, NoOrphans, ActiveIsAlive, ScanEnds
<1>15. CASE Restart
  BY <1>15, RestartEffect DEF AwaitInv, NoOrphans, ActiveIsAlive, Restart, None, NoDownload
<1>16. ASSUME NEW s \in Shards, StartDownload(s) PROVE AwaitInv' /\ NoOrphans' /\ ActiveIsAlive'
  BY <1>16 DEF AwaitInv, NoOrphans, ActiveIsAlive, StartDownload
<1>17. ASSUME NEW s \in Shards, Write(s) PROVE AwaitInv' /\ NoOrphans' /\ ActiveIsAlive'
  BY <1>17 DEF AwaitInv, NoOrphans, ActiveIsAlive, Write
<1>18. ASSUME NEW s \in Shards, LateRename(s) PROVE AwaitInv' /\ NoOrphans' /\ ActiveIsAlive'
  BY <1>18 DEF AwaitInv, NoOrphans, ActiveIsAlive, LateRename
<1>19. ASSUME NEW s \in Shards, AllFiles(s) PROVE AwaitInv' /\ NoOrphans' /\ ActiveIsAlive'
  BY <1>19 DEF AwaitInv, NoOrphans, ActiveIsAlive, AllFiles, TypeOK
<1>20. ASSUME NEW s \in Shards, FinalCallback(s) PROVE AwaitInv' /\ NoOrphans' /\ ActiveIsAlive'
  <2>1. EndTask(s, "ok") /\ "ok" \in Ended /\ active' = active
    BY <1>20 DEF FinalCallback, Ended
  <2> QED
    BY <2>1, EndKeepsAwait
<1>21. ASSUME NEW s \in Shards, GiveUp(s) PROVE AwaitInv' /\ NoOrphans' /\ ActiveIsAlive'
  <2>1. EndTask(s, "ok") /\ "ok" \in Ended /\ active' = active
    BY <1>21 DEF GiveUp, Ended
  <2> QED
    BY <2>1, EndKeepsAwait
<1>22. ASSUME NEW s \in Shards, FailTask(s) PROVE AwaitInv' /\ NoOrphans' /\ ActiveIsAlive'
  <2>1. EndTask(s, "error") /\ "error" \in Ended /\ active' = active
    BY <1>22 DEF FailTask, Ended
  <2> QED
    BY <2>1, EndKeepsAwait
<1>23. ASSUME NEW s \in Shards, CancelledTask(s) PROVE AwaitInv' /\ NoOrphans' /\ ActiveIsAlive'
  <2>1. EndTask(s, "cancelled") /\ "cancelled" \in Ended /\ active' = active
    BY <1>23 DEF CancelledTask, Ended
  <2> QED
    BY <2>1, EndKeepsAwait
<1>24. ASSUME NEW d \in Downloads, EnterWrapper(d) PROVE AwaitInv' /\ NoOrphans' /\ ActiveIsAlive'
  BY <1>24, EnterKeepsAwait
<1>25. ASSUME NEW d \in Downloads, LeaveWrapper(d) PROVE AwaitInv' /\ NoOrphans' /\ ActiveIsAlive'
  BY <1>25, LeaveEffect DEF AwaitInv, NoOrphans, ActiveIsAlive, LeaveWrapper, ActiveAfter, Ended, None, NoDownload
<1>26. ASSUME NEW c \in Slots, Callback(c) PROVE AwaitInv' /\ NoOrphans' /\ ActiveIsAlive'
  BY <1>26 DEF AwaitInv, NoOrphans, ActiveIsAlive, Callback
<1>27. ASSUME NEW a \in Askers, Answer(a) PROVE AwaitInv' /\ NoOrphans' /\ ActiveIsAlive'
  BY <1>27 DEF AwaitInv, NoOrphans, ActiveIsAlive, Answer
<1> QED
  BY <1>1, <1>2, <1>3, <1>4, <1>5, <1>6, <1>7, <1>8, <1>9, <1>10, <1>11, <1>12, <1>13,
     <1>14, <1>15, <1>16, <1>17, <1>18, <1>19, <1>20, <1>21, <1>22, <1>23, <1>24, <1>25,
     <1>26, <1>27 DEF Next, Command, Start, Scan, Finish

(* What a status is made from.                                            *)
LEMMA DiskStep ==
  ASSUME TypeOK, DiskInv, Next
  PROVE  DiskInv'
<1> SUFFICES ASSUME "delete" \notin setup.kinds, ~Drifts
             PROVE  pc' \notin {"delete", "deleted"} /\ (Vouched' => Whole')
  BY DEF DiskInv, Next, Whole
<1>a. answer \in [Askers -> Answers] /\ task \in [Shards -> TaskStates]
      /\ slot \in [Slots -> {None, "progress", "complete"}]
  BY DEF TypeOK
<1>b. pc \notin {"delete", "deleted"} /\ (Vouched => Whole)
  BY DEF DiskInv, Whole
<1>c. "command" \in Askers /\ "scan" \in Askers /\ Slots \subseteq Askers /\ Shards \subseteq Askers
  BY DEF Askers
<1>d. setup' = setup
  BY DEF Next
<1>1. CASE SkipStart
  BY <1>a, <1>b, <1>c, <1>d, <1>1 DEF Vouched, Whole, Completed, Found, Progress, None,
     SkipStart, Receive
<1>2. CASE CancelDownload
  BY <1>a, <1>b, <1>c, <1>d, <1>2 DEF Vouched, Whole, Completed, Found, Progress, None,
     CancelDownload, Receive, CancelScope, Forget
<1>3. CASE DeleteDownload
  BY <1>a, <1>b, <1>c, <1>d, <1>3 DEF Vouched, Whole, Completed, Found, Progress, None,
     DeleteDownload, Receive
<1>4. CASE StartResolved
  BY <1>a, <1>b, <1>c, <1>d, <1>4 DEF Vouched, Whole, Completed, Found, Progress, None,
     StartResolved, Asked, CompletedStatus
<1>5. CASE StartChecked
  BY <1>a, <1>b, <1>c, <1>d, <1>5 DEF Vouched, Whole, Completed, Found, Progress, None,
     StartChecked, Asked, StartDownloadTask
<1>6. CASE StartConfirmed
  BY <1>a, <1>b, <1>c, <1>d, <1>6 DEF Vouched, Whole, Completed, Found, Progress, None,
     StartConfirmed, Asked, CompletedStatus
<1>7. CASE RemoveFiles
  BY <1>a, <1>b, <1>c, <1>d, <1>7 DEF Vouched, Whole, Completed, Found, Progress, None,
     RemoveFiles, DiskAfterDelete
<1>8. CASE Deleted
  BY <1>a, <1>b, <1>c, <1>d, <1>8 DEF Vouched, Whole, Completed, Found, Progress, None,
     Deleted
<1>9. CASE ScanBegins
  BY <1>a, <1>b, <1>c, <1>d, <1>9 DEF Vouched, Whole, Completed, Found, Progress, None,
     ScanBegins, Asked
<1>10. CASE ScanListed
  BY <1>a, <1>b, <1>c, <1>d, <1>10 DEF Vouched, Whole, Completed, Found, Progress, None,
     ScanListed, Asked
<1>11. CASE ScanMisses
  BY <1>a, <1>b, <1>c, <1>d, <1>11 DEF Vouched, Whole, Completed, Found, Progress, None,
     ScanMisses, Asked
<1>12. CASE ScanResolved
  BY <1>a, <1>b, <1>c, <1>d, <1>12 DEF Vouched, Whole, Completed, Found, Progress, None,
     ScanResolved, Asked, ScannedStatus, CompletedStatus
<1>13. CASE ScanReadOnly
  BY <1>a, <1>b, <1>c, <1>d, <1>13 DEF Vouched, Whole, Completed, Found, Progress, None,
     ScanReadOnly, Asked
<1>14. CASE ScanEnds
  BY <1>a, <1>b, <1>c, <1>d, <1>14 DEF Vouched, Whole, Completed, Found, Progress, None,
     ScanEnds, Asked
<1>15. CASE Restart
  BY <1>a, <1>b, <1>c, <1>d, <1>15 DEF Vouched, Whole, Completed, Found, Progress, None,
     Restart, DiskAfterDelete
<1>16. ASSUME NEW s \in Shards, StartDownload(s) PROVE pc' \notin {"delete", "deleted"} /\ (Vouched' => Whole')
  BY <1>a, <1>b, <1>c, <1>d, <1>16 DEF Vouched, Whole, Completed, Found, Progress, None,
     StartDownload, Receive, Asked
<1>17. ASSUME NEW s \in Shards, Write(s) PROVE pc' \notin {"delete", "deleted"} /\ (Vouched' => Whole')
  BY <1>a, <1>b, <1>c, <1>d, <1>17 DEF Vouched, Whole, Completed, Found, Progress, None,
     Write, Asked
<1>18. ASSUME NEW s \in Shards, LateRename(s) PROVE pc' \notin {"delete", "deleted"} /\ (Vouched' => Whole')
  BY <1>a, <1>b, <1>c, <1>d, <1>18 DEF Vouched, Whole, Completed, Found, Progress, None,
     LateRename
<1>19. ASSUME NEW s \in Shards, AllFiles(s) PROVE pc' \notin {"delete", "deleted"} /\ (Vouched' => Whole')
  BY <1>a, <1>b, <1>c, <1>d, <1>19 DEF Vouched, Whole, Completed, Found, Progress, None,
     AllFiles, Asked
<1>20. ASSUME NEW s \in Shards, FinalCallback(s) PROVE pc' \notin {"delete", "deleted"} /\ (Vouched' => Whole')
  BY <1>a, <1>b, <1>c, <1>d, <1>20 DEF Vouched, Whole, Completed, Found, Progress, None,
     FinalCallback, Asked, EndTask, CompletedStatus
<1>21. ASSUME NEW s \in Shards, GiveUp(s) PROVE pc' \notin {"delete", "deleted"} /\ (Vouched' => Whole')
  BY <1>a, <1>b, <1>c, <1>d, <1>21 DEF Vouched, Whole, Completed, Found, Progress, None,
     GiveUp, EndTask
<1>22. ASSUME NEW s \in Shards, FailTask(s) PROVE pc' \notin {"delete", "deleted"} /\ (Vouched' => Whole')
  BY <1>a, <1>b, <1>c, <1>d, <1>22 DEF Vouched, Whole, Completed, Found, Progress, None,
     FailTask, EndTask
<1>23. ASSUME NEW s \in Shards, CancelledTask(s) PROVE pc' \notin {"delete", "deleted"} /\ (Vouched' => Whole')
  BY <1>a, <1>b, <1>c, <1>d, <1>23 DEF Vouched, Whole, Completed, Found, Progress, None,
     CancelledTask, EndTask
<1>24. ASSUME NEW d \in Downloads, EnterWrapper(d) PROVE pc' \notin {"delete", "deleted"} /\ (Vouched' => Whole')
  BY <1>a, <1>b, <1>c, <1>d, <1>24 DEF Vouched, Whole, Completed, Found, Progress, None,
     EnterWrapper, TaskAwaited
<1>25. ASSUME NEW d \in Downloads, LeaveWrapper(d) PROVE pc' \notin {"delete", "deleted"} /\ (Vouched' => Whole')
  BY <1>a, <1>b, <1>c, <1>d, <1>25 DEF Vouched, Whole, Completed, Found, Progress, None,
     LeaveWrapper, StatusAfter, ActiveAfter
<1>26. ASSUME NEW c \in Slots, Callback(c) PROVE pc' \notin {"delete", "deleted"} /\ (Vouched' => Whole')
  BY <1>a, <1>b, <1>c, <1>d, <1>26 DEF Vouched, Whole, Completed, Found, Progress, None,
     Callback, Asked, CompletedStatus
<1>27. ASSUME NEW a \in Askers, Answer(a) PROVE pc' \notin {"delete", "deleted"} /\ (Vouched' => Whole')
  BY <1>a, <1>b, <1>c, <1>d, <1>27 DEF Vouched, Whole, Completed, Found, Progress, None,
     Answer, Resolved, ProgressOnDisk
<1> QED
  BY <1>1, <1>2, <1>3, <1>4, <1>5, <1>6, <1>7, <1>8, <1>9, <1>10, <1>11, <1>12, <1>13,
     <1>14, <1>15, <1>16, <1>17, <1>18, <1>19, <1>20, <1>21, <1>22, <1>23, <1>24, <1>25,
     <1>26, <1>27 DEF Next, Command, Start, Scan, Finish

LEMMA NextInv == Inv /\ [Next]_vars => Inv'
<1> SUFFICES ASSUME Inv, [Next]_vars PROVE Inv'
  OBVIOUS
<1> USE DEF Inv
<1>1. CASE Next
  BY <1>1, TypeStep, NumberStep, AwaitStep, DiskStep
<1>2. CASE UNCHANGED vars
  BY <1>2 DEF vars, changing, TypeOK, NumberInv, AwaitInv, ActiveIsAlive, NoOrphans, DiskInv,
     Vouched, Whole
<1> QED BY <1>1, <1>2

LEMMA Invariant == Spec => []Inv
<1> QED BY InitInv, NextInv, PTL DEF Spec

-----------------------------------------------------------------------------
(* Types: among others a download's number is a command's, and the scope   *)
(* registered for the model is a download's (coordinator.py:53-55).        *)
THEOREM DownloadTypes == Spec => []TypeOK
<1>1. Inv => TypeOK
  BY DEF Inv
<1> QED BY <1>1, Invariant, PTL

(* active_downloads never names a download that has ended: every way out   *)
(* of a download_wrapper removes the scope (coordinator.py:284-302).       *)
THEOREM ScopesAreAlive == Spec => []ActiveIsAlive
<1>1. Inv => ActiveIsAlive
  BY DEF Inv
<1> QED BY <1>1, Invariant, PTL

(* The task of a shard runs only for wrappers that await it, none of them   *)
(* cancelled, however starts, cancellations, deletions and restarts         *)
(* interleave with its end (impl_shard_downloader.py:73-81).               *)
THEOREM NobodyDownloadsAlone == Spec => []NoOrphans
<1>1. Inv => NoOrphans
  BY DEF Inv
<1> QED BY <1>1, Invariant, PTL

(* While nothing is deleted and the remote files stay the same, a status of *)
(* completed is true of the disk, whoever set it and however old the look   *)
(* at the disk was (coordinator.py:91-110, 198-246, 359-420).              *)
THEOREM CompletedIsOnDisk == Spec => []CompletedOnDisk
<1>1. Inv => CompletedOnDisk
  BY DEF Inv, DiskInv, Vouched, Whole, CompletedOnDisk
<1> QED BY <1>1, Invariant, PTL

-----------------------------------------------------------------------------
(* Transfer: the transfers of one file by several downloads.               *)

Never == {"none", "not_started", "no space"}

Over == Never \cup {"cancelled", "killed", "incomplete", "complete"}

(* A download that has not begun has no transfers, one that is over none   *)
(* that is at work.                                                        *)
RunInv ==
  \A r \in Run :
    /\ r > runs => outcome[r] = "none"
    /\ outcome[r] \in Never => \A f \in Files : job[r][f].pc = "idle"
    /\ outcome[r] \in Over => \A f \in Files : ~ Working(r, f)

(* A file that has not been crossed has one transfer at work on it: one of *)
(* the last download that had transfers.                                   *)
AloneInv ==
  \A f \in Files \ crossed : \A q \in Run :
    Working(q, f) =>
      /\ \A r \in Run : Working(r, f) => r = q
      /\ q = runs \/ outcome[runs] \in Never

(* A transfer has a file open only while it writes, and the partial one.   *)
OpenInv ==
  \A r \in Run, f \in Files :
    /\ job[r][f].pc # "write" => job[r][f].fd = "none"
    /\ job[r][f].pc = "write" /\ f \notin crossed => job[r][f].fd = "partial"

Known == {"get", "write", "verify", "rename"}

(* What a transfer compares with is the hash of some version, and what it  *)
(* is about to rename is that version.                                     *)
CheckedInv ==
  \A r \in Run, f \in Files :
    /\ job[r][f].pc \in Known => job[r][f].hash \in 1 .. Len(Size[f])
    /\ job[r][f].pc = "rename" /\ f \notin crossed =>
         partial[target[r]][f] = Bytes(f, job[r][f].hash)

(* What the last download has done is there.                               *)
DoneInv ==
  \A r \in Run : \A f \in Files \ crossed :
    r = runs /\ (job[r][f].pc = "done" \/ outcome[r] = "complete") => final[target[r]][f] # <<>>

TransferInv ==
  TransferTypeOK /\ RunInv /\ AloneInv /\ OpenInv /\ CheckedInv /\ DoneInv /\ FilesAreWhole

-----------------------------------------------------------------------------
(* Types.                                                                  *)

USE TransferAssumption

LEMMA SequenceOf ==
  ASSUME NEW S, NEW n \in Nat, NEW s \in [1 .. n -> S]
  PROVE  s \in Seq(S) /\ Len(s) = n /\ DOMAIN s = 1 .. n
OBVIOUS

LEMMA IdleIsTyped == Idle \in Transfers
<1>1. <<>> \in Seq(Byte)
  OBVIOUS
<1> QED BY <1>1 DEF Idle, Transfers, Names

LEMMA BytesAreTyped ==
  ASSUME NEW f \in Files, NEW v \in 1 .. Len(Size[f])
  PROVE  Bytes(f, v) \in Seq(Byte) /\ Bytes(f, v) # <<>> /\ Len(Bytes(f, v)) = Size[f][v] /\ Size[f][v] \in Nat \ {0}
<1>1. Size[f] \in Seq(Nat \ {0})
  OBVIOUS
<1>2. Size[f][v] \in Nat \ {0}
  BY <1>1
<1>3. v \in Nat
  BY <1>1
<1>4. \A i \in 1 .. Size[f][v] : <<v, i>> \in Nat \X Nat
  BY <1>2, <1>3
<1>5. Bytes(f, v) \in [1 .. Size[f][v] -> Byte]
  BY <1>4 DEF Bytes, Byte
<1>6. Bytes(f, v) \in Seq(Byte) /\ Len(Bytes(f, v)) = Size[f][v]
  BY <1>2, <1>5, SequenceOf
<1>7. Len(Bytes(f, v)) # 0
  BY <1>2, <1>6
<1>8. Bytes(f, v) # <<>>
  BY <1>7
<1> QED BY <1>2, <1>6, <1>8

LEMMA DirsAreThere == Dir # {} /\ Dirs[1] \in Dir
<1>1. 1 \in DOMAIN Dirs
  OBVIOUS
<1> QED BY <1>1 DEF Dir, Range

(* A transfer that changes its place.                                      *)
LEMMA JobChanges ==
  ASSUME NEW jobs \in [Run -> [Files -> Transfers]], NEW r \in Run, NEW f \in Files, NEW j \in Transfers
  PROVE  LET h == [jobs EXCEPT ![r][f] = j] IN
         /\ h \in [Run -> [Files -> Transfers]]
         /\ h[r][f] = j
         /\ \A q \in Run, g \in Files : q # r \/ g # f => h[q][g] = jobs[q][g]
OBVIOUS

(* Jobs that are the same but for what a file is called that f is written   *)
(* to.                                                                      *)
Renamings == {names \in [DOMAIN Names -> DOMAIN Names] : names["none"] = "none"}

Similar(f, jobs, h) ==
  /\ h \in [Run -> [Files -> Transfers]]
  /\ \A q \in Run, g \in Files :
       /\ g # f => h[q][g] = jobs[q][g]
       /\ h[q][g].pc = jobs[q][g].pc /\ h[q][g].hash = jobs[q][g].hash
       /\ jobs[q][g].fd = "none" => h[q][g] = jobs[q][g]

LEMMA ReopenedJobs ==
  ASSUME NEW jobs \in [Run -> [Files -> Transfers]], NEW r \in Run, NEW f \in Files,
         NEW names \in Renamings
  PROVE  Similar(f, jobs, Reopened(r, f, jobs, names))
<1> DEFINE h == Reopened(r, f, jobs, names)
<1>1. ASSUME NEW q \in Run, NEW j \in Transfers
      PROVE  LET k == [j EXCEPT !.fd = names[@]] IN
             /\ k \in Transfers /\ k.pc = j.pc /\ k.hash = j.hash
             /\ j.fd = "none" => k = j
  BY DEF Transfers, Renamings
<1>2. \A q \in Run : h[q] \in [Files -> Transfers]
  BY <1>1 DEF Reopened
<1>3. h \in [Run -> [Files -> Transfers]]
  BY <1>2 DEF Reopened
<1>4. \A q \in Run, g \in Files :
        h[q][g] = IF target[q] = target[r] /\ g = f THEN [jobs[q][g] EXCEPT !.fd = names[@]] ELSE jobs[q][g]
  BY DEF Reopened
<1> HIDE DEF h
<1>5. ASSUME NEW q \in Run, NEW g \in Files
      PROVE  /\ g # f => h[q][g] = jobs[q][g]
             /\ h[q][g].pc = jobs[q][g].pc /\ h[q][g].hash = jobs[q][g].hash
             /\ jobs[q][g].fd = "none" => h[q][g] = jobs[q][g]
  <2>1. jobs[q][g] \in Transfers
    OBVIOUS
  <2>2. CASE target[q] = target[r] /\ g = f
    BY <1>1, <1>4, <2>1, <2>2
  <2>3. CASE ~ (target[q] = target[r] /\ g = f)
    BY <1>4, <2>3
  <2> QED BY <2>2, <2>3
<1> QED BY <1>3, <1>5 DEF Similar, h

LEMMA RenamedNames ==
  /\ [Names EXCEPT !["final"] = "gone"] \in Renamings
  /\ [Names EXCEPT !["partial"] = "gone"] \in Renamings
  /\ [Names EXCEPT !["partial"] = "final", !["final"] = "gone"] \in Renamings
BY DEF Names, Renamings

-----------------------------------------------------------------------------
(* What the step of one transfer leaves alone, and what it must establish.  *)

IsVersion(f, content) == \E v \in 1 .. Len(Size[f]) : content = Bytes(f, v)

Others(r, f) ==
  /\ \A q \in Run, g \in Files : g # f => job'[q][g] = job[q][g]
  /\ \A q \in Run \ {r} :
       /\ job'[q][f].pc = job[q][f].pc /\ job'[q][f].hash = job[q][f].hash
       /\ job[q][f].fd = "none" => job'[q][f].fd = "none"
  /\ \A q \in Run :
       outcome'[q] = outcome[q] \/ (q = r /\ outcome[q] = "running" /\ outcome'[q] = "failed")
  /\ \A d \in Dir, g \in Files :
       g # f => final'[d][g] = final[d][g] /\ partial'[d][g] = partial[d][g]

Fits(r, f, j) ==
  /\ j.pc # "write" => j.fd = "none"
  /\ j.pc = "write" /\ f \notin crossed => j.fd = "partial"
  /\ j.pc \in Known => j.hash \in 1 .. Len(Size[f])
  /\ j.pc = "rename" /\ f \notin crossed => partial'[target[r]][f] = Bytes(f, j.hash)
  /\ j.pc = "done" => final'[target[r]][f] # <<>>
  /\ f \notin crossed => \A d \in Dir : final'[d][f] # <<>> => IsVersion(f, final'[d][f])

Placed(r, f) == Fits(r, f, job'[r][f])

OneTransfer(r, f) ==
  /\ Working(r, f)
  /\ UNCHANGED <<target, runs, crossed>>
  /\ TransferTypeOK' /\ Others(r, f) /\ Placed(r, f)

LEMMA OneTransferKeeps ==
  ASSUME TransferInv, NEW r \in Run, NEW f \in Files, OneTransfer(r, f)
  PROVE  TransferInv'
<1> USE DEF OneTransfer
<1>1. /\ TransferTypeOK /\ RunInv /\ AloneInv /\ OpenInv /\ CheckedInv /\ DoneInv /\ FilesAreWhole
      /\ Others(r, f) /\ Placed(r, f)
  BY DEF TransferInv
<1>2. \A q \in Run, g \in Files :
        /\ q # r \/ g # f => job'[q][g].pc = job[q][g].pc
        /\ Working(q, g)' => Working(q, g)
  BY <1>1 DEF Others, Working
<1>3. outcome[r] \notin Over
  BY <1>1 DEF RunInv
<1>4. RunInv'
  <2> SUFFICES ASSUME NEW q \in Run
               PROVE  /\ q > runs => outcome'[q] = "none"
                      /\ outcome'[q] \in Never => \A g \in Files : job'[q][g].pc = "idle"
                      /\ outcome'[q] \in Over => \A g \in Files : ~ Working(q, g)'
    BY DEF RunInv
  <2>1. CASE outcome'[q] = outcome[q]
    <3>1. outcome[q] \in Over => q # r
      BY <1>3
    <3>2. Never \subseteq Over
      BY DEF Over
    <3>3. /\ q > runs => outcome[q] = "none"
          /\ outcome[q] \in Never => \A g \in Files : job[q][g].pc = "idle"
          /\ outcome[q] \in Over => \A g \in Files : ~ Working(q, g)
      BY <1>1 DEF RunInv
    <3>4. outcome[q] \in Never => \A g \in Files : job'[q][g].pc = job[q][g].pc
      BY <1>2, <3>1, <3>2
    <3> QED BY <1>2, <2>1, <3>3, <3>4
  <2>2. CASE q = r /\ outcome[q] = "running" /\ outcome'[q] = "failed"
    BY <1>1, <2>2 DEF RunInv, Over, Never
  <2> QED BY <1>1, <2>1, <2>2 DEF Others
<1>5. AloneInv'
  <2> SUFFICES ASSUME NEW g \in Files \ crossed, NEW q \in Run, Working(q, g)'
               PROVE  /\ \A s \in Run : Working(s, g)' => s = q
                      /\ q = runs \/ outcome'[runs] \in Never
    BY DEF AloneInv
  <2>1. Working(q, g) /\ \A s \in Run : Working(s, g)' => Working(s, g)
    BY <1>2
  <2>2. outcome[runs] \in Never => outcome'[runs] = outcome[runs]
    <3>1. q \in Run /\ ~ (q > runs) /\ runs \in Nat
      <4>1. outcome[q] \notin Over
        BY <1>1, <2>1 DEF RunInv
      <4>2. outcome[q] # "none"
        BY <4>1 DEF Over, Never
      <4> QED BY <1>1, <4>2 DEF RunInv, TransferTypeOK
    <3>2. runs \in Run
      BY <1>1, <3>1 DEF Run, TransferTypeOK
    <3> QED BY <1>1, <3>2 DEF Others, Never
  <2> QED BY <1>1, <2>1, <2>2 DEF AloneInv
<1>6. OpenInv' /\ CheckedInv'
  <2> SUFFICES ASSUME NEW q \in Run, NEW g \in Files
               PROVE  LET j == job'[q][g] IN
                      /\ j.pc # "write" => j.fd = "none"
                      /\ j.pc = "write" /\ g \notin crossed => j.fd = "partial"
                      /\ j.pc \in Known => j.hash \in 1 .. Len(Size[g])
                      /\ j.pc = "rename" /\ g \notin crossed => partial'[target[q]][g] = Bytes(g, j.hash)
    BY DEF OpenInv, CheckedInv, Bytes
  <2>1. CASE g # f
    <3>1. job'[q][g] = job[q][g] /\ partial'[target[q]][g] = partial[target[q]][g]
      BY <1>1, <2>1 DEF Others, TransferTypeOK
    <3> QED BY <1>1, <3>1 DEF OpenInv, CheckedInv
  <2>2. CASE g = f /\ q = r
    BY <1>1, <2>2 DEF Placed, Fits
  <2>3. CASE g = f /\ q # r
    <3>1. f \notin crossed => ~ Working(q, f)
      BY <1>1, <2>3 DEF AloneInv
    <3>2. /\ job'[q][f].pc = job[q][f].pc /\ job'[q][f].hash = job[q][f].hash
          /\ job[q][f].fd = "none" => job'[q][f].fd = "none"
      BY <1>1, <2>3 DEF Others
    <3> QED BY <1>1, <2>3, <3>1, <3>2 DEF OpenInv, CheckedInv, Working
  <2> QED BY <2>1, <2>2, <2>3
<1>7. DoneInv'
  <2> SUFFICES ASSUME NEW q \in Run, NEW g \in Files \ crossed, q = runs,
                      job'[q][g].pc = "done" \/ outcome'[q] = "complete"
               PROVE  final'[target[q]][g] # <<>>
    BY DEF DoneInv
  <2>1. outcome'[q] = "complete" => outcome[q] = "complete"
    BY <1>1 DEF Others
  <2>2. CASE g # f
    <3>1. job'[q][g] = job[q][g] /\ final'[target[q]][g] = final[target[q]][g]
      BY <1>1, <2>2 DEF Others, TransferTypeOK
    <3> QED BY <1>1, <2>1, <3>1 DEF DoneInv
  <2>3. CASE g = f /\ q = r
    BY <1>1, <1>3, <2>1, <2>3 DEF Placed, Fits, Over
  <2>4. CASE g = f /\ q # r
    <3>1. outcome[q] \in Never
      BY <1>1, <2>4 DEF AloneInv
    <3> QED BY <1>1, <1>2, <2>1, <2>4, <3>1 DEF RunInv, Never
  <2> QED BY <2>2, <2>3, <2>4
<1>8. FilesAreWhole'
  <2> SUFFICES ASSUME NEW d \in Dir, NEW g \in Files \ crossed, final'[d][g] # <<>>
               PROVE  IsVersion(g, final'[d][g])
    BY DEF FilesAreWhole, IsVersion, Bytes
  <2>1. CASE g # f
    <3>1. final'[d][g] = final[d][g]
      BY <1>1, <2>1 DEF Others
    <3>2. \E v \in 1 .. Len(Size[g]) : final[d][g] = Bytes(g, v)
      BY <1>1, <3>1 DEF FilesAreWhole
    <3> QED BY <3>1, <3>2 DEF IsVersion
  <2>2. CASE g = f
    BY <1>1, <2>2 DEF Placed, Fits
  <2> QED BY <2>1, <2>2
<1> QED BY <1>4, <1>5, <1>6, <1>7, <1>8 DEF TransferInv
-----------------------------------------------------------------------------
(* The steps of a transfer.                                                 *)

LEMMA FileChanges ==
  ASSUME NEW dirs \in [Dir -> Content], NEW d \in Dir, NEW f \in Files, NEW c \in Seq(Byte),
         NEW h, h = [dirs EXCEPT ![d][f] = c]
  PROVE  /\ h \in [Dir -> Content]
         /\ h[d][f] = c
         /\ \A e \in Dir, g \in Files : e # d \/ g # f => h[e][g] = dirs[e][g]
BY DEF Content

Written(f) ==
  /\ final' \in [Dir -> Content] /\ partial' \in [Dir -> Content]
  /\ \A d \in Dir, g \in Files :
       g # f => final'[d][g] = final[d][g] /\ partial'[d][g] = partial[d][g]

Progressed(r, f) ==
  progress' = progress \/ \E s \in {"in_progress", "complete"} : progress' = [progress EXCEPT ![r][f] = s]

Raised(r) ==
  outcome' = outcome \/ (outcome[r] = "running" /\ outcome' = [outcome EXCEPT ![r] = "failed"])

LEMMA TransferMoves ==
  ASSUME TransferInv, NEW r \in Run, NEW f \in Files, Working(r, f),
         NEW jobs, Similar(f, job, jobs),
         NEW j \in Transfers, job' = [jobs EXCEPT ![r][f] = j], Fits(r, f, j),
         UNCHANGED <<version, listed, target, runs, crossed>>,
         Written(f), Progressed(r, f), Raised(r)
  PROVE  OneTransfer(r, f)
<1>1. TransferTypeOK
  BY DEF TransferInv
<1>2. /\ jobs \in [Run -> [Files -> Transfers]]
      /\ job' \in [Run -> [Files -> Transfers]] /\ job'[r][f] = j
      /\ \A q \in Run, g \in Files : q # r \/ g # f => job'[q][g] = jobs[q][g]
  BY JobChanges DEF Similar
<1>3. TransferTypeOK'
  <2>1. progress' \in [Run -> [Files -> {"not_started", "in_progress", "complete"}]]
    <3>1. progress \in [Run -> [Files -> {"not_started", "in_progress", "complete"}]]
      BY <1>1 DEF TransferTypeOK
    <3>2. ASSUME NEW s \in {"in_progress", "complete"}, progress' = [progress EXCEPT ![r][f] = s]
          PROVE  progress' \in [Run -> [Files -> {"not_started", "in_progress", "complete"}]]
      BY <3>1, <3>2
    <3> QED BY <3>1, <3>2 DEF Progressed
  <2>2. outcome' \in [Run -> Outcomes]
    <3>1. outcome \in [Run -> Outcomes]
      BY <1>1 DEF TransferTypeOK
    <3>2. "failed" \in Outcomes
      BY DEF Outcomes
    <3> QED BY <3>1, <3>2 DEF Raised
  <2> QED BY <1>1, <1>2, <2>1, <2>2 DEF TransferTypeOK, Written
<1>4. Others(r, f)
  <2>1. \A q \in Run, g \in Files : g # f => job'[q][g] = job[q][g]
    BY <1>2 DEF Similar
  <2>2. \A q \in Run \ {r} :
          /\ job'[q][f].pc = job[q][f].pc /\ job'[q][f].hash = job[q][f].hash
          /\ job[q][f].fd = "none" => job'[q][f].fd = "none"
    BY <1>2 DEF Similar
  <2>3. \A q \in Run :
          outcome'[q] = outcome[q] \/ (q = r /\ outcome[q] = "running" /\ outcome'[q] = "failed")
    <3>1. outcome \in [Run -> Outcomes]
      BY <1>1 DEF TransferTypeOK
    <3>2. CASE outcome' = outcome
      BY <3>2
    <3>3. CASE outcome[r] = "running" /\ outcome' = [outcome EXCEPT ![r] = "failed"]
      BY <3>1, <3>3
    <3> QED BY <3>2, <3>3 DEF Raised
  <2> QED BY <2>1, <2>2, <2>3 DEF Others, Written
<1>5. Placed(r, f)
  BY <1>2 DEF Placed, Fits
<1> QED BY <1>3, <1>4, <1>5 DEF OneTransfer

LEMMA FailMoves ==
  ASSUME TransferTypeOK, NEW r \in Run, NEW f \in Files, NEW jobs, FailWith(r, f, jobs) \/ Raise(r, f, jobs)
  PROVE  /\ \E j \in Transfers : j.pc \in {"idle", "look"} /\ j.fd = "none" /\ job' = [jobs EXCEPT ![r][f] = j]
         /\ Raised(r)
<1> DEFINE n == job[r][f].tries + 1
           i == [Idle EXCEPT !.pc = "look", !.tries = n]
<1>1. n \in Nat /\ Attempts \in Nat
  <2>1. job[r][f] \in Transfers
    BY DEF TransferTypeOK
  <2>2. job[r][f].tries \in Nat
    BY <2>1 DEF Transfers
  <2>3. Attempts \in Nat
    OBVIOUS
  <2> QED BY <2>2, <2>3
<1>2. Idle \in Transfers /\ Idle.pc = "idle" /\ Idle.fd = "none"
  BY IdleIsTyped DEF Idle
<1>3. i \in Transfers /\ i.pc = "look" /\ i.fd = "none"
  BY <1>1, <1>2 DEF Transfers, Idle
<1>4. CASE Raise(r, f, jobs)
  <2>1. job' = [jobs EXCEPT ![r][f] = Idle]
    BY <1>4 DEF Raise
  <2>2. Raised(r)
    <3>1. outcome' = [outcome EXCEPT ![r] = IF outcome[r] = "running" THEN "failed" ELSE outcome[r]]
      BY <1>4 DEF Raise
    <3>2. outcome \in [Run -> Outcomes]
      BY DEF TransferTypeOK
    <3>3. CASE outcome[r] = "running"
      BY <3>1, <3>3 DEF Raised
    <3>4. CASE outcome[r] # "running"
      BY <3>1, <3>2, <3>4 DEF Raised
    <3> QED BY <3>3, <3>4
  <2> QED BY <1>2, <2>1, <2>2
<1>5. CASE FailWith(r, f, jobs) /\ ~ Raise(r, f, jobs)
  <2>1. job' = [jobs EXCEPT ![r][f] = i] /\ outcome' = outcome
    BY <1>5, Zenon DEF FailWith
  <2> QED BY <1>3, <2>1 DEF Raised
<1> QED BY <1>4, <1>5
(* What is known of a transfer that takes a step.                           *)
LEMMA TransferFacts ==
  ASSUME TransferInv, NEW r \in Run, NEW f \in Files
  PROVE  /\ job \in [Run -> [Files -> Transfers]] /\ job[r][f] \in Transfers
         /\ final \in [Dir -> Content] /\ partial \in [Dir -> Content] /\ target[r] \in Dir
         /\ final[target[r]][f] \in Seq(Byte) /\ partial[target[r]][f] \in Seq(Byte)
         /\ version[f] \in 1 .. Len(Size[f])
         /\ job[r][f].pc # "write" => job[r][f].fd = "none"
         /\ job[r][f].pc = "write" /\ f \notin crossed => job[r][f].fd = "partial"
         /\ job[r][f].pc \in Known => job[r][f].hash \in 1 .. Len(Size[f])
         /\ job[r][f].pc = "rename" /\ f \notin crossed =>
              partial[target[r]][f] = Bytes(f, job[r][f].hash)
         /\ f \notin crossed => \A d \in Dir : final[d][f] # <<>> => IsVersion(f, final[d][f])
<1>1. TransferTypeOK /\ OpenInv /\ CheckedInv /\ FilesAreWhole
  BY DEF TransferInv
<1>2. /\ job \in [Run -> [Files -> Transfers]] /\ job[r][f] \in Transfers
      /\ final \in [Dir -> Content] /\ partial \in [Dir -> Content] /\ target[r] \in Dir
      /\ version[f] \in 1 .. Len(Size[f])
  BY <1>1 DEF TransferTypeOK
<1>3. final[target[r]][f] \in Seq(Byte) /\ partial[target[r]][f] \in Seq(Byte)
  BY <1>2 DEF Content
<1>4. f \notin crossed => \A d \in Dir : final[d][f] # <<>> => IsVersion(f, final[d][f])
  BY <1>1 DEF FilesAreWhole, IsVersion
<1> QED BY <1>1, <1>2, <1>3, <1>4 DEF OpenInv, CheckedInv

LEMMA DoneIsTyped ==
  LET j == [Idle EXCEPT !.pc = "done"] IN j \in Transfers /\ j.pc = "done" /\ j.fd = "none"
BY IdleIsTyped DEF Idle, Transfers

LEMMA SimilarJobs ==
  ASSUME TransferInv, NEW f \in Files
  PROVE  Similar(f, job, job)
BY DEF TransferInv, TransferTypeOK, Similar

LEMMA KeepFileMoves ==
  ASSUME TransferInv, NEW r \in Run, NEW f \in Files, KeepFile(r, f)
  PROVE  OneTransfer(r, f)
<1> DEFINE j == [Idle EXCEPT !.pc = "done"]
<1>1. /\ Working(r, f) /\ final[target[r]][f] # <<>> /\ job' = [job EXCEPT ![r][f] = j]
      /\ UNCHANGED <<version, listed, final, partial, target, progress, outcome, runs, crossed>>
  BY DEF KeepFile, At, Done, Working, remote, files
<1>2. j \in Transfers /\ j.pc = "done" /\ j.fd = "none"
  BY DoneIsTyped
<1> HIDE DEF j
<1>3. Fits(r, f, j)
  BY <1>1, <1>2, TransferFacts DEF Fits, Known
<1>4. Written(f) /\ Progressed(r, f) /\ Raised(r)
  BY <1>1, TransferFacts DEF Written, Progressed, Raised
<1> QED BY <1>1, <1>2, <1>3, <1>4, SimilarJobs, TransferMoves

LEMMA RemoveStaleMoves ==
  ASSUME TransferInv, NEW r \in Run, NEW f \in Files, RemoveStale(r, f)
  PROVE  OneTransfer(r, f)
<1> DEFINE names == [Names EXCEPT !["final"] = "gone"]
           jobs == Reopened(r, f, job, names)
           d0 == target[r]
           j == job[r][f]
<1>1. /\ Working(r, f) /\ j.pc = "look" /\ job' = jobs /\ final' = [final EXCEPT ![d0][f] = <<>>]
      /\ UNCHANGED <<version, listed, partial, target, progress, outcome, runs, crossed>>
  BY DEF RemoveStale, At, Working, remote
<1>2. /\ job \in [Run -> [Files -> Transfers]] /\ j \in Transfers /\ j.fd = "none"
      /\ final \in [Dir -> Content] /\ partial \in [Dir -> Content] /\ d0 \in Dir
      /\ f \notin crossed => \A d \in Dir : final[d][f] # <<>> => IsVersion(f, final[d][f])
  BY <1>1, TransferFacts
<1>3. Similar(f, job, jobs)
  BY <1>2, RenamedNames, ReopenedJobs
<1> HIDE DEF jobs
<1>4. job' = [jobs EXCEPT ![r][f] = j]
  <2>1. jobs[r][f] = j /\ jobs \in [Run -> [Files -> Transfers]]
    BY <1>2, <1>3 DEF Similar
  <2> QED BY <1>1, <2>1
<1> HIDE DEF j, d0
<1>5. /\ final' \in [Dir -> Content] /\ final'[d0][f] = <<>>
      /\ \A d \in Dir, g \in Files : d # d0 \/ g # f => final'[d][g] = final[d][g]
  <2>1. <<>> \in Seq(Byte)
    OBVIOUS
  <2> QED BY <1>1, <1>2, <2>1 DEF Content
<1>6. Fits(r, f, j)
  BY <1>1, <1>2, <1>5 DEF Fits, Known
<1>7. Written(f) /\ Progressed(r, f) /\ Raised(r)
  BY <1>1, <1>2, <1>5 DEF Written, Progressed, Raised
<1> QED BY <1>1, <1>2, <1>3, <1>4, <1>6, <1>7, TransferMoves

LEMMA GetMetaMoves ==
  ASSUME TransferInv, NEW r \in Run, NEW f \in Files, GetMeta(r, f)
  PROVE  OneTransfer(r, f)
<1> DEFINE g == job[r][f]
           n == Len(partial[target[r]][f])
           s == Size[f][version[f]]
           p == IF n = s THEN "verify" ELSE "get"
           j == [g EXCEPT !.pc = p, !.length = s, !.hash = version[f], !.from = n]
<1>1. /\ g.pc = "look" /\ Working(r, f)
      /\ UNCHANGED <<version, listed, final, partial, target, progress, outcome, runs, crossed>>
  BY DEF GetMeta, At, Working, remote, files
<1>2. job' = [job EXCEPT ![r][f] = j]
  BY DEF GetMeta
<1>3. /\ g \in Transfers /\ g.fd = "none" /\ version[f] \in 1 .. Len(Size[f])
      /\ partial[target[r]][f] \in Seq(Byte)
  BY <1>1, TransferFacts
<1>4. n \in Nat /\ s \in Nat /\ p \in {"verify", "get"} /\ version[f] \in Nat
  <2>1. Size[f] \in Seq(Nat \ {0})
    OBVIOUS
  <2> QED BY <1>3, <2>1
<1> HIDE DEF g, n, s, p
<1>5. j \in Transfers /\ j.pc = p /\ j.fd = "none" /\ j.hash = version[f]
  BY <1>3, <1>4 DEF Transfers
<1> HIDE DEF j
<1>6. Fits(r, f, j)
  <2>1. f \notin crossed => \A d \in Dir : final[d][f] # <<>> => IsVersion(f, final[d][f])
    BY TransferFacts
  <2> QED BY <1>1, <1>3, <1>4, <1>5, <2>1 DEF Fits
<1>7. Written(f) /\ Progressed(r, f) /\ Raised(r)
  BY <1>1, TransferFacts DEF Written, Progressed, Raised
<1> QED BY <1>1, <1>2, <1>5, <1>6, <1>7, SimilarJobs, TransferMoves

LEMMA GetBodyMoves ==
  ASSUME TransferInv, NEW r \in Run, NEW f \in Files, NEW honoured \in BOOLEAN, GetBody(r, f, honoured)
  PROVE  OneTransfer(r, f)
<1> DEFINE g == job[r][f]
           all == Bytes(f, version[f])
           b == IF honoured THEN SubSeq(all, g.from + 1, Len(all)) ELSE all
           c == IF g.from = 0 THEN <<>> ELSE partial[target[r]][f]
           j == [g EXCEPT !.pc = "write", !.fd = "partial", !.body = b]
<1>1. /\ g.pc = "get" /\ Working(r, f)
      /\ UNCHANGED <<version, listed, final, target, progress, outcome, runs, crossed>>
  BY DEF GetBody, At, Working, remote
<1>2. /\ job' = [job EXCEPT ![r][f] = j]
      /\ partial' = [partial EXCEPT ![target[r]][f] = c]
  BY DEF GetBody
<1>3. /\ g \in Transfers /\ g.hash \in 1 .. Len(Size[f]) /\ version[f] \in 1 .. Len(Size[f])
      /\ target[r] \in Dir /\ partial \in [Dir -> Content] /\ final \in [Dir -> Content]
      /\ partial[target[r]][f] \in Seq(Byte)
  BY <1>1, TransferFacts DEF Known
<1>4. b \in Seq(Byte) /\ c \in Seq(Byte)
  <2>1. all \in Seq(Byte)
    BY <1>3, BytesAreTyped
  <2>2. g.from \in Nat
    BY <1>3 DEF Transfers
  <2> HIDE DEF all, g
  <2>3. SubSeq(all, g.from + 1, Len(all)) \in Seq(Byte)
    BY <2>1, <2>2
  <2> QED BY <1>3, <2>1, <2>3
<1> HIDE DEF g, b, c
<1>5. j \in Transfers /\ j.pc = "write" /\ j.fd = "partial" /\ j.hash = g.hash
  BY <1>3, <1>4 DEF Transfers, Names
<1> HIDE DEF j
<1>6. Fits(r, f, j)
  <2>1. f \notin crossed => \A d \in Dir : final[d][f] # <<>> => IsVersion(f, final[d][f])
    BY TransferFacts
  <2> QED BY <1>1, <1>3, <1>5, <2>1 DEF Fits
<1>7. Written(f) /\ Progressed(r, f) /\ Raised(r)
  BY <1>1, <1>2, <1>3, <1>4 DEF Written, Progressed, Raised, Content
<1> QED BY <1>1, <1>2, <1>5, <1>6, <1>7, SimilarJobs, TransferMoves

(* A byte is put at the end or into a sequence that may have to grow.       *)
LEMMA PutIsTyped ==
  ASSUME NEW c \in Seq(Byte), NEW j \in Transfers, j.body # <<>>
  PROVE  Put(c, j) \in Seq(Byte)
<1>1. /\ j.body \in Seq(Byte) /\ j.pos \in Nat /\ j.from \in Nat
  BY DEF Transfers
<1>2. Head(j.body) \in Byte
  BY <1>1
<1>3. CASE j.from > 0
  BY <1>1, <1>2, <1>3 DEF Put
<1>4. CASE ~ (j.from > 0)
  <2> DEFINE n == IF j.pos < Len(c) THEN Len(c) ELSE j.pos + 1
  <2>1. n \in Nat
    BY <1>1
  <2>2. <<0, 0>> \in Byte
    BY DEF Byte
  <2>3. Put(c, j) \in [1 .. n -> Byte]
    BY <1>1, <1>2, <1>4, <2>2 DEF Put
  <2> HIDE DEF n
  <2> QED BY <2>1, <2>3, SequenceOf
<1> QED BY <1>3, <1>4

LEMMA WriteByteMoves ==
  ASSUME TransferInv, NEW r \in Run, NEW f \in Files, WriteByte(r, f)
  PROVE  OneTransfer(r, f)
<1> DEFINE g == job[r][f]
           d0 == target[r]
           j == [g EXCEPT !.body = Tail(g.body), !.pos = g.pos + 1]
           c == IF g.fd = "partial" THEN Put(partial[d0][f], g) ELSE partial[d0][f]
           e == IF g.fd = "final" THEN Put(final[d0][f], g) ELSE final[d0][f]
<1>1. /\ g.pc = "write" /\ Working(r, f) /\ g.body # <<>>
      /\ UNCHANGED <<version, listed, target, outcome, runs, crossed>>
      /\ progress' = [progress EXCEPT ![r][f] = "in_progress"]
  BY DEF WriteByte, At, Working, remote
<1>2. /\ job' = [job EXCEPT ![r][f] = j]
      /\ partial' = [partial EXCEPT ![d0][f] = c]
      /\ final' = [final EXCEPT ![d0][f] = e]
  BY DEF WriteByte
<1>3. /\ g \in Transfers /\ g.hash \in 1 .. Len(Size[f])
      /\ f \notin crossed => g.fd = "partial"
      /\ d0 \in Dir /\ partial \in [Dir -> Content] /\ final \in [Dir -> Content]
      /\ partial[d0][f] \in Seq(Byte) /\ final[d0][f] \in Seq(Byte)
      /\ f \notin crossed => \A d \in Dir : final[d][f] # <<>> => IsVersion(f, final[d][f])
  BY <1>1, TransferFacts DEF Known
<1> HIDE DEF g
<1>4. c \in Seq(Byte) /\ e \in Seq(Byte)
  BY <1>1, <1>3, PutIsTyped
<1>5. j \in Transfers /\ j.pc = "write" /\ j.fd = g.fd /\ j.hash = g.hash
  <2>1. Tail(g.body) \in Seq(Byte) /\ g.pos + 1 \in Nat
    BY <1>1, <1>3 DEF Transfers
  <2> QED BY <1>1, <1>3, <2>1 DEF Transfers
<1> HIDE DEF j
<1>6. f \notin crossed => final' = final
  <2>1. f \notin crossed => e = final[d0][f]
    BY <1>3
  <2> QED BY <1>2, <1>3, <2>1 DEF Content
<1> HIDE DEF c, e
<1>7. Fits(r, f, j)
  BY <1>1, <1>3, <1>5, <1>6 DEF Fits
<1>8. Written(f) /\ Progressed(r, f) /\ Raised(r)
  BY <1>1, <1>2, <1>3, <1>4 DEF Written, Progressed, Raised, Content
<1> QED BY <1>1, <1>2, <1>5, <1>7, <1>8, SimilarJobs, TransferMoves

LEMMA EndOfBodyMoves ==
  ASSUME TransferInv, NEW r \in Run, NEW f \in Files, EndOfBody(r, f)
  PROVE  OneTransfer(r, f)
<1> DEFINE g == job[r][f]
           j == [g EXCEPT !.pc = "verify", !.fd = "none", !.pos = 0, !.from = 0]
<1>1. /\ g.pc = "write" /\ Working(r, f) /\ job' = [job EXCEPT ![r][f] = j]
      /\ UNCHANGED <<version, listed, final, partial, target, progress, outcome, runs, crossed>>
  BY DEF EndOfBody, At, Working, remote, files
<1>2. g \in Transfers /\ g.hash \in 1 .. Len(Size[f])
  BY <1>1, TransferFacts DEF Known
<1> HIDE DEF g
<1>3. j \in Transfers /\ j.pc = "verify" /\ j.fd = "none" /\ j.hash = g.hash
  BY <1>2 DEF Transfers, Names
<1> HIDE DEF j
<1>4. Fits(r, f, j)
  <2>1. f \notin crossed => \A d \in Dir : final[d][f] # <<>> => IsVersion(f, final[d][f])
    BY TransferFacts
  <2> QED BY <1>1, <1>2, <1>3, <2>1 DEF Fits
<1>5. Written(f) /\ Progressed(r, f) /\ Raised(r)
  BY <1>1, TransferFacts DEF Written, Progressed, Raised
<1> QED BY <1>1, <1>3, <1>4, <1>5, SimilarJobs, TransferMoves

LEMMA VerifyMoves ==
  ASSUME TransferInv, NEW r \in Run, NEW f \in Files, Verify(r, f)
  PROVE  OneTransfer(r, f)
<1> DEFINE g == job[r][f]
           j == [g EXCEPT !.pc = "rename"]
<1>1. /\ g.pc = "verify" /\ Working(r, f) /\ partial[target[r]][f] = Bytes(f, g.hash)
      /\ UNCHANGED <<version, listed, final, partial, target, progress, outcome, runs, crossed>>
  BY DEF Verify, Integrity, At, Working, remote, files
<1>2. job' = [job EXCEPT ![r][f] = j]
  BY DEF Verify
<1>3. g \in Transfers /\ g.hash \in 1 .. Len(Size[f]) /\ g.fd = "none"
  BY <1>1, TransferFacts DEF Known
<1> HIDE DEF g
<1>4. j \in Transfers /\ j.pc = "rename" /\ j.fd = "none" /\ j.hash = g.hash
  BY <1>3 DEF Transfers
<1> HIDE DEF j
<1>5. Fits(r, f, j)
  <2>1. f \notin crossed => \A d \in Dir : final[d][f] # <<>> => IsVersion(f, final[d][f])
    BY TransferFacts
  <2> QED BY <1>1, <1>3, <1>4, <2>1 DEF Fits
<1>6. Written(f) /\ Progressed(r, f) /\ Raised(r)
  BY <1>1, TransferFacts DEF Written, Progressed, Raised
<1> QED BY <1>1, <1>2, <1>4, <1>5, <1>6, SimilarJobs, TransferMoves

LEMMA RenameMoves ==
  ASSUME TransferInv, NEW r \in Run, NEW f \in Files, Rename(r, f)
  PROVE  OneTransfer(r, f)
<1> DEFINE names == [Names EXCEPT !["partial"] = "final", !["final"] = "gone"]
           jobs == Reopened(r, f, job, names)
           d0 == target[r]
           c == partial[d0][f]
           g == job[r][f]
           j == [Idle EXCEPT !.pc = "done"]
<1>1. /\ Working(r, f) /\ g.pc = "rename" /\ c # <<>> /\ job' = [jobs EXCEPT ![r][f] = j]
      /\ final' = [final EXCEPT ![d0][f] = c] /\ partial' = [partial EXCEPT ![d0][f] = <<>>]
      /\ progress' = [progress EXCEPT ![r][f] = "complete"]
      /\ UNCHANGED <<version, listed, target, outcome, runs, crossed>>
  BY DEF Rename, At, Working, remote
<1>2. /\ job \in [Run -> [Files -> Transfers]] /\ c \in Seq(Byte)
      /\ final \in [Dir -> Content] /\ partial \in [Dir -> Content] /\ d0 \in Dir
      /\ g.hash \in 1 .. Len(Size[f])
      /\ f \notin crossed => c = Bytes(f, g.hash)
  BY <1>1, TransferFacts DEF Known
<1>3. f \notin crossed => \A d \in Dir : final[d][f] # <<>> => IsVersion(f, final[d][f])
  BY TransferFacts
<1>4. Similar(f, job, jobs)
  BY <1>2, RenamedNames, ReopenedJobs
<1>5. j \in Transfers /\ j.pc = "done" /\ j.fd = "none"
  BY DoneIsTyped
<1> HIDE DEF jobs, j, d0, c, g
<1>6. /\ final' \in [Dir -> Content] /\ final'[d0][f] = c
      /\ \A d \in Dir, h \in Files : d # d0 \/ h # f => final'[d][h] = final[d][h]
  BY <1>1, <1>2 DEF Content
<1>7. Fits(r, f, j)
  <2>1. f \notin crossed => \A d \in Dir : final'[d][f] # <<>> => IsVersion(f, final'[d][f])
    <3>1. f \notin crossed => IsVersion(f, final'[d0][f])
      BY <1>2, <1>6 DEF IsVersion
    <3>2. \A d \in Dir : d # d0 => final'[d][f] = final[d][f]
      BY <1>6
    <3> QED BY <1>3, <3>1, <3>2
  <2> QED BY <1>1, <1>5, <1>6, <2>1 DEF Fits, Known, d0
<1>8. Written(f)
  <2>1. <<>> \in Seq(Byte)
    OBVIOUS
  <2>2. /\ partial' \in [Dir -> Content]
        /\ \A d \in Dir, h \in Files : h # f => partial'[d][h] = partial[d][h]
    BY <1>1, <1>2, <2>1 DEF Content
  <2> QED BY <1>6, <2>2 DEF Written
<1>9. Progressed(r, f) /\ Raised(r)
  BY <1>1 DEF Progressed, Raised
<1> QED BY <1>1, <1>4, <1>5, <1>7, <1>8, <1>9, TransferMoves

LEMMA MismatchMoves ==
  ASSUME TransferInv, NEW r \in Run, NEW f \in Files, Mismatch(r, f)
  PROVE  OneTransfer(r, f)
<1> DEFINE names == [Names EXCEPT !["partial"] = "gone"]
           jobs == Reopened(r, f, job, names)
           d0 == target[r]
<1>1. /\ Working(r, f) /\ FailWith(r, f, jobs) /\ partial' = [partial EXCEPT ![d0][f] = <<>>]
      /\ UNCHANGED <<version, listed, final, target, progress, runs, crossed>>
  BY DEF Mismatch, At, Working, remote
<1>2. /\ job \in [Run -> [Files -> Transfers]]
      /\ final \in [Dir -> Content] /\ partial \in [Dir -> Content] /\ d0 \in Dir
  BY TransferFacts
<1>3. f \notin crossed => \A d \in Dir : final[d][f] # <<>> => IsVersion(f, final[d][f])
  BY TransferFacts
<1>4. Similar(f, job, jobs)
  BY <1>2, RenamedNames, ReopenedJobs
<1> HIDE DEF jobs, d0
<1>5. PICK j \in Transfers : j.pc \in {"idle", "look"} /\ j.fd = "none" /\ job' = [jobs EXCEPT ![r][f] = j]
  BY <1>1, FailMoves DEF TransferInv
<1>6. Raised(r)
  BY <1>1, FailMoves DEF TransferInv
<1>7. Fits(r, f, j)
  BY <1>1, <1>3, <1>5 DEF Fits, Known
<1>8. Written(f) /\ Progressed(r, f)
  <2>1. <<>> \in Seq(Byte)
    OBVIOUS
  <2> QED BY <1>1, <1>2, <2>1 DEF Content, Written, Progressed
<1> QED BY <1>1, <1>4, <1>5, <1>6, <1>7, <1>8, TransferMoves

LEMMA DisturbOrRefuseMoves ==
  ASSUME TransferInv, NEW r \in Run, NEW f \in Files, Disturb(r, f) \/ Refuse(r, f)
  PROVE  OneTransfer(r, f)
<1>1. /\ Working(r, f) /\ (FailWith(r, f, job) \/ Raise(r, f, job))
      /\ UNCHANGED <<version, listed, final, partial, target, progress, runs, crossed>>
  BY DEF Disturb, Refuse, At, Working, remote, files
<1>2. f \notin crossed => \A d \in Dir : final[d][f] # <<>> => IsVersion(f, final[d][f])
  BY TransferFacts
<1>3. PICK j \in Transfers : j.pc \in {"idle", "look"} /\ j.fd = "none" /\ job' = [job EXCEPT ![r][f] = j]
  BY <1>1, FailMoves DEF TransferInv
<1>4. Raised(r)
  BY <1>1, FailMoves DEF TransferInv
<1>5. Fits(r, f, j)
  BY <1>1, <1>2, <1>3 DEF Fits, Known
<1>6. Written(f) /\ Progressed(r, f)
  BY <1>1, TransferFacts DEF Written, Progressed
<1> QED BY <1>1, <1>3, <1>4, <1>5, <1>6, SimilarJobs, TransferMoves

-----------------------------------------------------------------------------
(* The steps of downloads, and of the world around them.                    *)

LEMMA InitHolds ==
  ASSUME XInit
  PROVE  TransferInv
<1>1. TransferTypeOK
  <2>1. version \in [Files -> Nat] /\ \A f \in Files : version[f] \in 1 .. Len(Size[f])
    <3>1. \A f \in Files : Size[f] \in Seq(Nat \ {0}) /\ Size[f] # <<>>
      OBVIOUS
    <3>2. \A f \in Files : 1 \in 1 .. Len(Size[f])
      BY <3>1
    <3> QED BY <3>2 DEF XInit
  <2>2. <<>> \in Seq(Byte)
    OBVIOUS
  <2>3. final \in [Dir -> Content] /\ partial \in [Dir -> Content]
    BY <2>2 DEF XInit, Content
  <2>4. target \in [Run -> Dir] /\ job \in [Run -> [Files -> Transfers]]
    BY DirsAreThere, IdleIsTyped DEF XInit
  <2>5. listed \in [Files -> Nat] /\ outcome \in [Run -> Outcomes]
    BY DEF XInit, Nothing, Outcomes
  <2>6. progress \in [Run -> [Files -> {"not_started", "in_progress", "complete"}]]
    BY DEF XInit
  <2>7. runs \in 0 .. MaxRuns /\ crossed \subseteq Files
    BY DEF XInit
  <2> QED BY <2>1, <2>3, <2>4, <2>5, <2>6, <2>7 DEF TransferTypeOK
<1>2. Idle.pc = "idle" /\ Idle.fd = "none"
  BY DEF Idle
<1>3. \A r \in Run, f \in Files : job[r][f] = Idle
  BY DEF XInit
<1>4. \A r \in Run, f \in Files : ~ Working(r, f)
  BY <1>2, <1>3 DEF Working
<1>5. RunInv /\ AloneInv /\ OpenInv /\ CheckedInv
  <2>1. RunInv
    BY <1>2, <1>3, <1>4 DEF XInit, RunInv
  <2>2. AloneInv
    BY <1>4 DEF AloneInv
  <2>3. OpenInv /\ CheckedInv
    BY <1>2, <1>3 DEF OpenInv, CheckedInv, Known
  <2> QED BY <2>1, <2>2, <2>3
<1>6. DoneInv
  BY <1>2, <1>3 DEF XInit, DoneInv
<1>7. FilesAreWhole
  BY DEF XInit, FilesAreWhole
<1> QED BY <1>1, <1>5, <1>6, <1>7 DEF TransferInv

LEMMA FilesStayWhole ==
  ASSUME FilesAreWhole, UNCHANGED final, crossed \subseteq crossed'
  PROVE  FilesAreWhole'
<1> SUFFICES ASSUME NEW d \in Dir, NEW f \in Files \ crossed', final'[d][f] # <<>>
             PROVE  IsVersion(f, final'[d][f])
  BY DEF FilesAreWhole, IsVersion, Bytes
<1>1. f \in Files \ crossed /\ final'[d][f] = final[d][f]
  OBVIOUS
<1> QED BY <1>1 DEF FilesAreWhole, IsVersion

LEMMA CheckedStays ==
  ASSUME CheckedInv, UNCHANGED <<job, target, partial, crossed>>
  PROVE  CheckedInv'
<1> SUFFICES ASSUME NEW r \in Run, NEW f \in Files
             PROVE  /\ job[r][f].pc \in Known => job[r][f].hash \in 1 .. Len(Size[f])
                    /\ job[r][f].pc = "rename" /\ f \notin crossed =>
                         partial[target[r]][f] = Bytes(f, job[r][f].hash)
  BY DEF CheckedInv, Bytes
<1> QED BY DEF CheckedInv

LEMMA RunsAreNumbers ==
  /\ Run \subseteq Int /\ Run \subseteq 0 .. MaxRuns /\ MaxRuns \in Nat
  /\ \A n \in 0 .. MaxRuns : n \in Nat /\ n + 1 > n
  /\ \A n \in 0 .. MaxRuns : n < MaxRuns => n + 1 \in Run /\ n + 1 \in 0 .. MaxRuns
  /\ \A n \in 0 .. MaxRuns, q \in Run : q > n + 1 => q > n
BY DEF Run

(* A call that comes to nothing.                                            *)
LEMMA IdleRunKeeps ==
  ASSUME TransferInv, NEW n \in Run, n = runs + 1, runs' = n,
         NEW o \in Never, outcome' = [outcome EXCEPT ![n] = o],
         listed' \in [Files -> Nat],
         UNCHANGED <<version, final, partial, target, job, progress, crossed>>
  PROVE  TransferInv'
<1>1. /\ TransferTypeOK /\ RunInv /\ AloneInv /\ OpenInv /\ CheckedInv /\ DoneInv /\ FilesAreWhole
      /\ runs \in 0 .. MaxRuns /\ n \in 0 .. MaxRuns /\ outcome \in [Run -> Outcomes]
      /\ n > runs /\ \A q \in Run : q > n => q > runs
  <2>1. TransferTypeOK /\ RunInv /\ AloneInv /\ OpenInv /\ CheckedInv /\ DoneInv /\ FilesAreWhole
    BY DEF TransferInv
  <2>2. runs \in 0 .. MaxRuns /\ outcome \in [Run -> Outcomes]
    BY <2>1 DEF TransferTypeOK
  <2>3. n \in 0 .. MaxRuns /\ n > runs
    BY <2>2, RunsAreNumbers
  <2>4. \A q \in Run : q > n => q > runs
    BY <2>2, RunsAreNumbers
  <2> QED BY <2>1, <2>2, <2>3, <2>4
<1>2. outcome'[n] = o /\ \A q \in Run : q # n => outcome'[q] = outcome[q]
  BY <1>1
<1>3. o \in Never /\ o \in Over /\ o \in Outcomes /\ outcome[n] = "none" /\ "none" \in Never /\ "none" \in Over
  <2>1. outcome[n] = "none"
    BY <1>1 DEF RunInv
  <2>2. o \in Never /\ o \in Over /\ "none" \in Never /\ "none" \in Over
    BY DEF Never, Over
  <2>3. o \in Outcomes
    BY DEF Never, Outcomes
  <2> QED BY <2>1, <2>2, <2>3
<1>4. TransferTypeOK'
  <2>1. outcome' \in [Run -> Outcomes]
    BY <1>1, <1>3
  <2> QED BY <1>1, <2>1 DEF TransferTypeOK
<1>5. RunInv'
  <2> SUFFICES ASSUME NEW q \in Run
               PROVE  /\ q > n => outcome'[q] = "none"
                      /\ outcome'[q] \in Never => \A g \in Files : job[q][g].pc = "idle"
                      /\ outcome'[q] \in Over => \A g \in Files : ~ Working(q, g)
    BY DEF RunInv, Working
  <2>1. /\ q > n => outcome[q] = "none"
        /\ outcome[q] \in Never => \A g \in Files : job[q][g].pc = "idle"
        /\ outcome[q] \in Over => \A g \in Files : ~ Working(q, g)
    BY <1>1 DEF RunInv
  <2>2. CASE q = n
    <3>1. ~ (n > n)
      BY RunsAreNumbers
    <3> QED BY <1>2, <1>3, <2>1, <2>2, <3>1
  <2>3. CASE q # n
    BY <1>2, <2>1, <2>3
  <2> QED BY <2>2, <2>3
<1>6. AloneInv'
  BY <1>1, <1>2, <1>3 DEF AloneInv, Working
<1>7. OpenInv' /\ CheckedInv'
  <2>1. OpenInv'
    BY <1>1 DEF OpenInv
  <2>2. CheckedInv'
    BY <1>1, CheckedStays
  <2> QED BY <2>1, <2>2
<1>8. DoneInv'
  <2> SUFFICES ASSUME NEW f \in Files PROVE job[n][f].pc # "done" /\ outcome'[n] # "complete"
    BY <1>1 DEF DoneInv
  <2>1. job[n][f].pc = "idle"
    BY <1>1, <1>3 DEF RunInv
  <2> QED BY <1>2, <1>3, <2>1 DEF Never
<1>9. FilesAreWhole'
  BY <1>1, FilesStayWhole
<1> QED BY <1>4, <1>5, <1>6, <1>7, <1>8, <1>9 DEF TransferInv

LEMMA CurrentIsTyped ==
  ASSUME TransferTypeOK
  PROVE  Current \in [Files -> Nat]
<1> SUFFICES ASSUME NEW f \in Files PROVE Size[f][version[f]] \in Nat
  BY DEF Current
<1>1. version[f] \in 1 .. Len(Size[f])
  BY DEF TransferTypeOK
<1> QED BY <1>1, BytesAreTyped

LEMMA NoFileListKeeps ==
  ASSUME TransferInv, NoFileList
  PROVE  TransferInv'
<1>1. listed \in [Files -> Nat]
  BY DEF TransferInv, TransferTypeOK
<1>2. runs < MaxRuns /\ runs + 1 \in Run
  BY RunsAreNumbers DEF NoFileList, TransferInv, TransferTypeOK
<1>3. "not_started" \in Never
  BY DEF Never
<1> QED BY <1>1, <1>2, <1>3, IdleRunKeeps DEF NoFileList, remote, files

(* A download that gets under way.                                          *)
LEMMA BegunKeeps ==
  ASSUME TransferInv, NEW n \in Run, n = runs + 1, runs' = n,
         NEW d \in Dir, target' = [target EXCEPT ![n] = d],
         job' = [job EXCEPT ![n] = [f \in Files |-> [Idle EXCEPT !.pc = "look"]]],
         progress' \in [Run -> [Files -> {"not_started", "in_progress", "complete"}]],
         outcome' = [outcome EXCEPT ![n] = "running"],
         crossed' = crossed \cup {f \in Files : \E q \in Run : Working(q, f)},
         listed' \in [Files -> Nat],
         UNCHANGED <<version, final, partial>>
  PROVE  TransferInv'
<1> DEFINE j == [Idle EXCEPT !.pc = "look"]
<1>1. /\ TransferTypeOK /\ RunInv /\ AloneInv /\ OpenInv /\ CheckedInv /\ DoneInv /\ FilesAreWhole
      /\ runs \in 0 .. MaxRuns /\ n \in 0 .. MaxRuns /\ outcome \in [Run -> Outcomes]
      /\ n > runs /\ ~ (n > n) /\ \A q \in Run : q > n => q > runs
  <2>1. TransferTypeOK /\ RunInv /\ AloneInv /\ OpenInv /\ CheckedInv /\ DoneInv /\ FilesAreWhole
    BY DEF TransferInv
  <2>2. runs \in 0 .. MaxRuns /\ outcome \in [Run -> Outcomes]
    BY <2>1 DEF TransferTypeOK
  <2>3. n \in 0 .. MaxRuns /\ n > runs /\ ~ (n > n)
    BY <2>2, RunsAreNumbers
  <2>4. \A q \in Run : q > n => q > runs
    BY <2>2, RunsAreNumbers
  <2> QED BY <2>1, <2>2, <2>3, <2>4
<1>2. j \in Transfers /\ j.pc = "look" /\ j.fd = "none"
  BY IdleIsTyped DEF Idle, Transfers
<1> HIDE DEF j
<1>3. /\ job \in [Run -> [Files -> Transfers]] /\ job' \in [Run -> [Files -> Transfers]]
      /\ \A f \in Files : job'[n][f] = j
      /\ \A q \in Run : q # n => job'[q] = job[q]
  <2>1. job \in [Run -> [Files -> Transfers]] /\ job' = [job EXCEPT ![n] = [f \in Files |-> j]]
    BY <1>1 DEF TransferTypeOK, j
  <2> DEFINE new == [f \in Files |-> j]
  <2>2. new \in [Files -> Transfers] /\ \A f \in Files : new[f] = j
    BY <1>2
  <2>3. job' = [job EXCEPT ![n] = new]
    BY <2>1
  <2> HIDE DEF new
  <2>4. job'[n] = new /\ \A q \in Run : q # n => job'[q] = job[q]
    BY <2>1, <2>3
  <2>5. job' \in [Run -> [Files -> Transfers]]
    BY <2>1, <2>2, <2>3
  <2> QED BY <2>1, <2>2, <2>4, <2>5
<1>4. outcome'[n] = "running" /\ \A q \in Run : q # n => outcome'[q] = outcome[q]
  BY <1>1
<1>5. target' \in [Run -> Dir] /\ \A q \in Run : q # n => target'[q] = target[q]
  BY <1>1 DEF TransferTypeOK
<1>6. TransferTypeOK'
  <2>1. "running" \in Outcomes
    BY DEF Outcomes
  <2>2. outcome' \in [Run -> Outcomes]
    BY <1>1, <2>1
  <2>3. crossed' \subseteq Files
    BY <1>1 DEF TransferTypeOK
  <2> QED BY <1>1, <1>3, <1>5, <2>2, <2>3 DEF TransferTypeOK
<1>7. \A q \in Run, f \in Files : Working(q, f)' <=> q = n \/ Working(q, f)
  <2>1. \A f \in Files : Working(n, f)'
    BY <1>2, <1>3 DEF Working
  <2>2. \A q \in Run, f \in Files : q # n => (Working(q, f)' <=> Working(q, f))
    BY <1>3 DEF Working
  <2> QED BY <2>1, <2>2
<1>8. RunInv'
  <2> SUFFICES ASSUME NEW q \in Run
               PROVE  /\ q > n => outcome'[q] = "none"
                      /\ outcome'[q] \in Never => \A g \in Files : job'[q][g].pc = "idle"
                      /\ outcome'[q] \in Over => \A g \in Files : ~ Working(q, g)'
    BY DEF RunInv
  <2>1. CASE q = n
    <3>1. "running" \notin Never /\ "running" \notin Over
      BY DEF Never, Over
    <3> QED BY <1>1, <1>4, <2>1, <3>1
  <2>2. CASE q # n
    BY <1>1, <1>3, <1>4, <1>7, <2>2 DEF RunInv
  <2> QED BY <2>1, <2>2
<1>9. AloneInv'
  <2> SUFFICES ASSUME NEW f \in Files, f \notin crossed', NEW q \in Run, Working(q, f)'
               PROVE  (\A s \in Run : Working(s, f)' => s = q) /\ q = n
    BY DEF AloneInv
  <2>1. \A s \in Run : ~ Working(s, f)
    OBVIOUS
  <2> QED BY <1>7, <2>1
<1>10. OpenInv' /\ CheckedInv'
  <2> SUFFICES ASSUME NEW q \in Run, NEW g \in Files
               PROVE  LET i == job'[q][g] IN
                      /\ i.pc # "write" => i.fd = "none"
                      /\ i.pc = "write" /\ g \notin crossed' => i.fd = "partial"
                      /\ i.pc \in Known => i.hash \in 1 .. Len(Size[g])
                      /\ i.pc = "rename" /\ g \notin crossed' => partial[target'[q]][g] = Bytes(g, i.hash)
    BY DEF OpenInv, CheckedInv, Bytes
  <2>1. CASE q = n
    BY <1>2, <1>3, <2>1 DEF Known
  <2>2. CASE q # n
    BY <1>1, <1>3, <1>5, <2>2 DEF OpenInv, CheckedInv
  <2> QED BY <2>1, <2>2
<1>11. DoneInv'
  <2> SUFFICES ASSUME NEW f \in Files PROVE job'[n][f].pc # "done" /\ outcome'[n] # "complete"
    BY DEF DoneInv
  <2> QED BY <1>2, <1>3, <1>4
<1>12. FilesAreWhole'
  BY <1>1, FilesStayWhole
<1> QED BY <1>6, <1>8, <1>9, <1>10, <1>11, <1>12 DEF TransferInv

LEMMA StartShardKeeps ==
  ASSUME TransferInv, StartShard
  PROVE  TransferInv'
<1>1. TransferTypeOK /\ Current \in [Files -> Nat]
  BY CurrentIsTyped DEF TransferInv
<1>2. runs < MaxRuns /\ runs + 1 \in Run /\ runs' = runs + 1 /\ UNCHANGED <<version, final, partial>>
  BY <1>1, RunsAreNumbers DEF StartShard, TransferTypeOK, files
<1>3. listed' \in [Files -> Nat]
  BY <1>1 DEF StartShard, TransferTypeOK
<1>4. PICK list \in FileLists, roomForRest \in SUBSET Dir, roomForAll \in SUBSET Dir :
        \/ /\ outcome' = [outcome EXCEPT ![runs + 1] = "no space"]
           /\ UNCHANGED <<target, job, progress, crossed>>
        \/ \E d \in Dir :
             /\ target' = [target EXCEPT ![runs + 1] = d]
             /\ job' = [job EXCEPT ![runs + 1] = [f \in Files |-> [Idle EXCEPT !.pc = "look"]]]
             /\ progress' = [progress EXCEPT ![runs + 1] = [f \in Files |-> InitialStatus(d, f, list)]]
             /\ outcome' = [outcome EXCEPT ![runs + 1] = "running"]
             /\ crossed' = crossed \cup {f \in Files : \E q \in Run : Working(q, f)}
  BY DEF StartShard
<1>5. CASE /\ outcome' = [outcome EXCEPT ![runs + 1] = "no space"]
           /\ UNCHANGED <<target, job, progress, crossed>>
  <2>1. "no space" \in Never
    BY DEF Never
  <2> QED BY <1>2, <1>3, <1>5, <2>1, IdleRunKeeps
<1>6. ASSUME NEW d \in Dir,
             target' = [target EXCEPT ![runs + 1] = d],
             job' = [job EXCEPT ![runs + 1] = [f \in Files |-> [Idle EXCEPT !.pc = "look"]]],
             progress' = [progress EXCEPT ![runs + 1] = [f \in Files |-> InitialStatus(d, f, list)]],
             outcome' = [outcome EXCEPT ![runs + 1] = "running"],
             crossed' = crossed \cup {f \in Files : \E q \in Run : Working(q, f)}
      PROVE  TransferInv'
  <2> DEFINE n == runs + 1
  <2>1. \A f \in Files : InitialStatus(d, f, list) \in {"not_started", "in_progress", "complete"}
    BY DEF InitialStatus
  <2>2. progress' \in [Run -> [Files -> {"not_started", "in_progress", "complete"}]]
    BY <1>1, <1>6, <2>1 DEF TransferTypeOK
  <2> QED BY <1>2, <1>3, <1>6, <2>2, BegunKeeps
<1> QED BY <1>4, <1>5, <1>6

LEMMA FinishShardKeeps ==
  ASSUME TransferInv, NEW r \in Run, FinishShard(r)
  PROVE  TransferInv'
<1> DEFINE o == RepoStatus(r)
<1>1. /\ TransferTypeOK /\ RunInv /\ AloneInv /\ OpenInv /\ CheckedInv /\ DoneInv /\ FilesAreWhole
      /\ outcome \in [Run -> Outcomes]
  BY DEF TransferInv, TransferTypeOK
<1>2. /\ outcome[r] = "running" /\ \A f \in Files : job[r][f].pc = "done"
      /\ outcome' = [outcome EXCEPT ![r] = o]
      /\ UNCHANGED <<version, listed, final, partial, target, job, progress, runs, crossed>>
  BY DEF FinishShard, At, remote, files
<1>3. o \in Over /\ o \notin Never /\ o \in Outcomes /\ o # "none"
  BY DEF RepoStatus, Over, Never, Outcomes
<1> HIDE DEF o
<1>4. outcome'[r] = o /\ \A q \in Run : q # r => outcome'[q] = outcome[q]
  BY <1>1, <1>2
<1>5. TransferTypeOK'
  <2>1. outcome' \in [Run -> Outcomes]
    BY <1>1, <1>2, <1>3
  <2> QED BY <1>1, <1>2, <2>1 DEF TransferTypeOK
<1>6. RunInv'
  <2> SUFFICES ASSUME NEW q \in Run
               PROVE  /\ q > runs => outcome'[q] = "none"
                      /\ outcome'[q] \in Never => \A g \in Files : job[q][g].pc = "idle"
                      /\ outcome'[q] \in Over => \A g \in Files : ~ Working(q, g)
    BY <1>2 DEF RunInv, Working
  <2>1. CASE q = r
    BY <1>1, <1>2, <1>3, <1>4, <2>1 DEF RunInv, Working
  <2>2. CASE q # r
    BY <1>1, <1>4, <2>2 DEF RunInv
  <2> QED BY <2>1, <2>2
<1>7. AloneInv'
  <2> SUFFICES ASSUME NEW f \in Files \ crossed, NEW q \in Run, Working(q, f)
               PROVE  (\A s \in Run : Working(s, f) => s = q) /\ (q = runs \/ outcome'[runs] \in Never)
    BY <1>2 DEF AloneInv, Working
  <2>1. (\A s \in Run : Working(s, f) => s = q) /\ (q = runs \/ outcome[runs] \in Never)
    BY <1>1 DEF AloneInv
  <2>2. outcome[r] \notin Never
    BY <1>2 DEF Never
  <2>3. outcome[runs] \in Never => outcome'[runs] = outcome[runs]
    BY <1>1, <1>2, <2>2
  <2> QED BY <2>1, <2>3
<1>8. OpenInv' /\ CheckedInv'
  <2>1. OpenInv'
    BY <1>1, <1>2 DEF OpenInv
  <2>2. CheckedInv'
    BY <1>1, <1>2, CheckedStays
  <2> QED BY <2>1, <2>2
<1>9. DoneInv'
  <2> SUFFICES ASSUME NEW q \in Run, NEW f \in Files \ crossed, q = runs,
                      job[q][f].pc = "done" \/ outcome'[q] = "complete"
               PROVE  final[target[q]][f] # <<>>
    BY <1>2 DEF DoneInv
  <2>1. job[q][f].pc = "done" \/ outcome[q] = "complete"
    BY <1>2, <1>4
  <2> QED BY <1>1, <2>1 DEF DoneInv
<1>10. FilesAreWhole'
  BY <1>1, <1>2, FilesStayWhole
<1> QED BY <1>5, <1>6, <1>7, <1>8, <1>9, <1>10 DEF TransferInv

(* Downloads that end with all their transfers.                             *)
LEMMA StoppedKeeps ==
  ASSUME TransferInv, NEW S \in SUBSET Run, NEW o \in Over \ Never, o # "complete",
         job' = [r \in Run |-> IF r \in S THEN [f \in Files |-> Idle] ELSE job[r]],
         outcome' = [r \in Run |-> IF r \in S /\ outcome[r] = "running" THEN o ELSE outcome[r]],
         UNCHANGED <<version, listed, final, partial, target, progress, runs, crossed>>
  PROVE  TransferInv'
<1>1. /\ TransferTypeOK /\ RunInv /\ AloneInv /\ OpenInv /\ CheckedInv /\ DoneInv /\ FilesAreWhole
      /\ outcome \in [Run -> Outcomes] /\ job \in [Run -> [Files -> Transfers]]
  BY DEF TransferInv, TransferTypeOK
<1>2. Idle \in Transfers /\ Idle.pc = "idle" /\ Idle.fd = "none"
  BY IdleIsTyped DEF Idle
<1>3. /\ \A r \in S, f \in Files : job'[r][f] = Idle
      /\ \A r \in Run : r \notin S => job'[r] = job[r]
  OBVIOUS
<1>4. \A r \in Run, f \in Files : job'[r][f] = Idle \/ job'[r][f] = job[r][f]
  BY <1>3
<1>5. \A r \in Run, f \in Files : Working(r, f)' => Working(r, f) /\ r \notin S
  BY <1>2, <1>3 DEF Working
<1>6. o \in Outcomes /\ o # "none" /\ o \notin Never
  BY DEF Over, Never, Outcomes
<1>7. \A r \in Run : \/ outcome'[r] = outcome[r]
                     \/ r \in S /\ outcome[r] = "running" /\ outcome'[r] = o
  OBVIOUS
<1>8. TransferTypeOK'
  <2>1. outcome' \in [Run -> Outcomes]
    BY <1>1, <1>6
  <2>2. job' \in [Run -> [Files -> Transfers]]
    BY <1>1, <1>2
  <2> QED BY <1>1, <2>1, <2>2 DEF TransferTypeOK
<1>9. RunInv'
  <2> SUFFICES ASSUME NEW q \in Run
               PROVE  /\ q > runs => outcome'[q] = "none"
                      /\ outcome'[q] \in Never => \A g \in Files : job'[q][g].pc = "idle"
                      /\ outcome'[q] \in Over => \A g \in Files : ~ Working(q, g)'
    BY DEF RunInv
  <2>1. /\ q > runs => outcome[q] = "none"
        /\ outcome[q] \in Never => \A g \in Files : job[q][g].pc = "idle"
        /\ outcome[q] \in Over => \A g \in Files : ~ Working(q, g)
    BY <1>1 DEF RunInv
  <2>2. CASE outcome'[q] = outcome[q]
    BY <1>2, <1>4, <1>5, <2>1, <2>2
  <2>3. CASE q \in S /\ outcome[q] = "running" /\ outcome'[q] = o
    BY <1>5, <1>6, <2>1, <2>3
  <2> QED BY <1>7, <2>2, <2>3
<1>10. AloneInv'
  <2> SUFFICES ASSUME NEW f \in Files \ crossed, NEW q \in Run, Working(q, f)'
               PROVE  (\A s \in Run : Working(s, f)' => s = q) /\ (q = runs \/ outcome'[runs] \in Never)
    BY DEF AloneInv
  <2>1. (\A s \in Run : Working(s, f) => s = q) /\ (q = runs \/ outcome[runs] \in Never)
    BY <1>1, <1>5 DEF AloneInv
  <2>2. runs \in Run
    <3>1. outcome[q] \notin Over
      BY <1>1, <1>5 DEF RunInv
    <3>2. ~ (q > runs)
      BY <1>1, <3>1 DEF RunInv, Over, Never
    <3> QED BY <1>1, <3>2 DEF Run, TransferTypeOK
  <2>3. outcome[runs] \in Never => outcome'[runs] = outcome[runs]
    BY <1>7, <2>2 DEF Never
  <2> QED BY <1>5, <2>1, <2>3
<1>11. OpenInv' /\ CheckedInv'
  <2>1. OpenInv'
    BY <1>1, <1>2, <1>4 DEF OpenInv
  <2>2. CheckedInv'
    BY <1>1, <1>2, <1>4 DEF CheckedInv, Bytes, Known
  <2> QED BY <2>1, <2>2
<1>12. DoneInv'
  <2> SUFFICES ASSUME NEW q \in Run, NEW f \in Files \ crossed, q = runs,
                      job'[q][f].pc = "done" \/ outcome'[q] = "complete"
               PROVE  final[target[q]][f] # <<>>
    BY DEF DoneInv
  <2>1. job[q][f].pc = "done" \/ outcome[q] = "complete"
    BY <1>2, <1>4, <1>7
  <2> QED BY <1>1, <2>1 DEF DoneInv
<1>13. FilesAreWhole'
  BY <1>1, FilesStayWhole
<1> QED BY <1>8, <1>9, <1>10, <1>11, <1>12, <1>13 DEF TransferInv

LEMMA CancelShardKeeps ==
  ASSUME TransferInv, NEW r \in Run, CancelShard(r)
  PROVE  TransferInv'
<1>1. /\ job \in [Run -> [Files -> Transfers]] /\ outcome \in [Run -> Outcomes]
  BY DEF TransferInv, TransferTypeOK
<1>2. job' = [q \in Run |-> IF q \in {r} THEN [f \in Files |-> Idle] ELSE job[q]]
  BY <1>1 DEF CancelShard
<1>3. outcome' = [q \in Run |-> IF q \in {r} /\ outcome[q] = "running" THEN "cancelled" ELSE outcome[q]]
  BY <1>1 DEF CancelShard
<1>4. "cancelled" \in Over \ Never /\ "cancelled" # "complete"
  BY DEF Over, Never
<1>5. {r} \in SUBSET Run
  OBVIOUS
<1>6. UNCHANGED <<version, listed, final, partial, target, progress, runs, crossed>>
  BY DEF CancelShard, remote, files
<1> QED BY <1>2, <1>3, <1>4, <1>5, <1>6, StoppedKeeps

LEMMA KillKeeps ==
  ASSUME TransferInv, Kill
  PROVE  TransferInv'
<1>1. job' = [q \in Run |-> IF q \in Run THEN [f \in Files |-> Idle] ELSE job[q]]
  BY DEF Kill
<1>2. outcome' = [q \in Run |-> IF q \in Run /\ outcome[q] = "running" THEN "killed" ELSE outcome[q]]
  BY DEF Kill
<1>3. "killed" \in Over \ Never /\ "killed" # "complete"
  BY DEF Over, Never
<1> QED BY <1>1, <1>2, <1>3, StoppedKeeps DEF Kill, remote, files

LEMMA PublishKeeps ==
  ASSUME TransferInv, NEW f \in Files, Publish(f)
  PROVE  TransferInv'
<1>1. /\ TransferTypeOK /\ RunInv /\ AloneInv /\ OpenInv /\ CheckedInv /\ DoneInv /\ FilesAreWhole
  BY DEF TransferInv
<1>2. /\ UNCHANGED <<listed, final, partial, target, job, progress, outcome, runs, crossed>>
      /\ version[f] < Len(Size[f]) /\ version' = [version EXCEPT ![f] = version[f] + 1]
  BY DEF Publish, files
<1>3. version' \in [Files -> Nat] /\ \A g \in Files : version'[g] \in 1 .. Len(Size[g])
  <2>1. Size[f] \in Seq(Nat \ {0})
    OBVIOUS
  <2>2. version[f] + 1 \in 1 .. Len(Size[f])
    BY <1>1, <1>2, <2>1 DEF TransferTypeOK
  <2> QED BY <1>1, <1>2, <2>2 DEF TransferTypeOK
<1>4. TransferTypeOK'
  BY <1>1, <1>2, <1>3 DEF TransferTypeOK
<1>5. RunInv' /\ AloneInv' /\ OpenInv' /\ DoneInv'
  BY <1>1, <1>2 DEF RunInv, AloneInv, OpenInv, DoneInv, Working
<1>6. CheckedInv' /\ FilesAreWhole'
  BY <1>1, <1>2, CheckedStays, FilesStayWhole
<1> QED BY <1>4, <1>5, <1>6 DEF TransferInv

-----------------------------------------------------------------------------
(* The theorems.                                                            *)

LEMMA TransferInvHolds == XSpec => []TransferInv
<1>1. XInit => TransferInv
  BY InitHolds
<1>2. TransferInv /\ [XNext]_xvars => TransferInv'
  <2> SUFFICES ASSUME TransferInv, [XNext]_xvars PROVE TransferInv'
    OBVIOUS
  <2>1. ASSUME NEW r \in Run, NEW f \in Files,
               \/ KeepFile(r, f) \/ RemoveStale(r, f) \/ GetMeta(r, f)
               \/ \E honoured \in BOOLEAN : GetBody(r, f, honoured)
               \/ WriteByte(r, f) \/ EndOfBody(r, f) \/ Verify(r, f) \/ Rename(r, f)
               \/ Mismatch(r, f) \/ Disturb(r, f) \/ Refuse(r, f)
        PROVE  TransferInv'
    <3>1. OneTransfer(r, f)
      BY <2>1, KeepFileMoves, RemoveStaleMoves, GetMetaMoves, GetBodyMoves, WriteByteMoves,
         EndOfBodyMoves, VerifyMoves, RenameMoves, MismatchMoves, DisturbOrRefuseMoves
    <3> QED BY <3>1, OneTransferKeeps
  <2>2. ASSUME NEW r \in Run, FinishShard(r) \/ CancelShard(r)
        PROVE  TransferInv'
    BY <2>2, FinishShardKeeps, CancelShardKeeps
  <2>3. CASE StartShard \/ NoFileList \/ Kill \/ \E f \in Files : Publish(f)
    BY <2>3, StartShardKeeps, NoFileListKeeps, KillKeeps, PublishKeeps
  <2>4. CASE UNCHANGED xvars
    <3>1. /\ TransferTypeOK /\ RunInv /\ AloneInv /\ OpenInv /\ CheckedInv /\ DoneInv /\ FilesAreWhole
      BY DEF TransferInv
    <3>2. UNCHANGED <<version, listed, final, partial, target, job, progress, outcome, runs, crossed>>
      BY <2>4 DEF xvars
    <3>3. TransferTypeOK'
      BY <3>1, <3>2 DEF TransferTypeOK
    <3>4. RunInv' /\ AloneInv' /\ OpenInv' /\ DoneInv'
      BY <3>1, <3>2 DEF RunInv, AloneInv, OpenInv, DoneInv, Working
    <3>5. CheckedInv' /\ FilesAreWhole'
      BY <3>1, <3>2, CheckedStays, FilesStayWhole
    <3> QED BY <3>3, <3>4, <3>5 DEF TransferInv
  <2> QED BY <2>1, <2>2, <2>3, <2>4 DEF XNext
<1> QED BY <1>1, <1>2, PTL DEF XSpec

(* Every variable of Transfer keeps its type, for any files, versions,      *)
(* directories, attempts and downloads (download_shard).                    *)
THEOREM TransferTypes == XSpec => []TransferTypeOK
<1>1. TransferInv => TransferTypeOK
  BY DEF TransferInv
<1> QED BY <1>1, TransferInvHolds, PTL

(* Whatever the network and the remote side do, and whenever the process is *)
(* killed, a file that has its final name is one version of the remote file *)
(* (_download_file), and a download that reports itself complete has left   *)
(* every file in its directory (download_shard).                            *)
THEOREM FilesAreTransferredWhole == XSpec => []TransfersAreWhole
<1>1. TransferInv => TransfersAreWhole
  <2> SUFFICES ASSUME TransferInv PROVE TransfersAreWhole
    OBVIOUS
  <2>1. FilesAreWhole /\ DoneInv
    BY DEF TransferInv
  <2>2. CompleteIsComplete
    BY <2>1 DEF CompleteIsComplete, DoneInv
  <2> QED BY <2>1, <2>2 DEF TransfersAreWhole
<1> QED BY <1>1, TransferInvHolds, PTL
=============================================================================
