---------------------------- MODULE DiskEventLog ----------------------------
(***************************************************************************)
(* The logs that a Master or an API keeps of a session                     *)
(* (utils/disk_event_log.py): a file of records, each a header with its    *)
(* length and a payload, which the owner appends to through a buffer and   *)
(* reads through a second handle; a cache of the offsets of a few records; *)
(* and compressed archives of the files of earlier sessions.               *)
(*                                                                         *)
(* The Master reads ranges, in the thread that appends, and waits after    *)
(* each record.  The API streams all of its log from another thread, so    *)
(* that a reader meets an append, or a reset, at any of its steps.         *)
(***************************************************************************)
EXTENDS Integers, Sequences

CONSTANTS
  Sizes,        \* bound: of each session, the lengths of its records
  CacheSize,    \* _OFFSET_CACHE_SIZE
  MaxArchives   \* _MAX_ARCHIVES

VARIABLES
  owner,      \* "master" or "api"
  logs,       \* the logs so far: the last one is the owner's
  active,     \* which of them events.bin belongs to, 0 if there is none
  writing,    \* where append is
  offsets,    \* _offset_cache: pairs of index and offset, the oldest first
  archives,   \* which logs were archived
  reader      \* where read_range or read_all is, and what it has yielded

zvars == <<owner, logs, active, writing, offsets, archives, reader>>

ASSUME DiskEventLogAssumption ==
  /\ Sizes \in Seq(Seq(Nat \ {0})) /\ Sizes # <<>>
  /\ {CacheSize, MaxArchives} \subseteq Nat \ {0}

Header == 1

NotReading == [at |-> "idle"]

\* ends: where each record ends, also of one that is being written.
NewLog == [ends |-> <<>>, written |-> 0, flushed |-> 0, count |-> 0, state |-> "open"]

Mine == Len(logs)

ZInit ==
  /\ owner \in {"master", "api"}
  /\ logs = <<NewLog>> /\ active = 1
  /\ writing = "no"
  /\ offsets = <<>> /\ archives = <<>>
  /\ reader = NotReading

Usable == logs[Mine].state = "open" /\ writing = "no"

\* Where record i of a log begins, counted from 0.
OffsetOf(log, i) == IF i = 0 THEN 0 ELSE log.ends[i]

-----------------------------------------------------------------------------
(* append: two writes to the buffer, and the count. *)

AppendHeader ==
  LET log == logs[Mine]
      n   == Len(log.ends)
  IN  /\ Usable /\ n < Len(Sizes[Mine])
      /\ logs' = [logs EXCEPT ![Mine] =
           [log EXCEPT !.ends = Append(@, OffsetOf(log, n) + Header + Sizes[Mine][n + 1]),
                       !.written = @ + Header]]
      /\ writing' = "payload"
      /\ UNCHANGED <<owner, active, offsets, archives, reader>>

AppendPayload ==
  /\ writing = "payload"
  /\ LET log == logs[Mine]
     IN  logs' = [logs EXCEPT ![Mine] = [log EXCEPT !.written = @ + Sizes[Mine][Len(log.ends)]]]
  /\ writing' = "count"
  /\ UNCHANGED <<owner, active, offsets, archives, reader>>

AppendCount ==
  /\ writing = "count"
  /\ logs' = [logs EXCEPT ![Mine] = [logs[Mine] EXCEPT !.count = @ + 1]]
  /\ writing' = "no"
  /\ UNCHANGED <<owner, active, offsets, archives, reader>>

\* The buffer is full: some of it gets to the file.
Spill ==
  /\ logs[Mine].state = "open"
  /\ \E n \in (logs[Mine].flushed + 1) .. logs[Mine].written :
       logs' = [logs EXCEPT ![Mine] = [@ EXCEPT !.flushed = n]]
  /\ UNCHANGED <<owner, active, writing, offsets, archives, reader>>

-----------------------------------------------------------------------------
(* Records. *)

\* The records that begin at an offset: one, or none if it is the end or inside of a record.
RecordsAt(log, offset) == {i \in 0 .. (Len(log.ends) - 1) : OffsetOf(log, i) = offset}

Garbage == -1

\* _skip_record, which trusts the header it finds
Skip(log, offset) ==
  IF offset + Header > log.flushed THEN offset
  ELSE IF RecordsAt(log, offset) = {} THEN Garbage
  ELSE OffsetOf(log, 1 + CHOOSE i \in RecordsAt(log, offset) : TRUE)

\* Where an index is in the cache.
Cached(cache, idx) == {k \in 1 .. Len(cache) : cache[k][1] = idx}

CacheWithout(cache, k) == SubSeq(cache, 1, k - 1) \o SubSeq(cache, k + 1, Len(cache))

\* _cache_offset: the newest is last, and the oldest goes.
CacheOffset(cache, idx, offset) ==
  LET at == Cached(cache, idx)
      c  == Append(IF at = {} THEN cache ELSE CacheWithout(cache, CHOOSE k \in at : TRUE), <<idx, offset>>)
  IN  IF Len(c) > CacheSize THEN Tail(c) ELSE c

\* Of the entries before the target the one that was used last.
ScanFrom(cache, target) ==
  LET before == {k \in 1 .. Len(cache) : cache[k][1] < target}
  IN  IF before = {} THEN <<0, 0>> ELSE cache[CHOOSE k \in before : \A m \in before : m <= k]

\* _seek_to: from there record by record.
SeekTo(log, cache, target) ==
  LET hit  == Cached(cache, target)
      from == ScanFrom(cache, target)
      to[n \in 0 .. target] == IF n <= from[1] THEN from[2] ELSE Skip(log, to[n - 1])
  IN  IF hit # {} THEN cache[CHOOSE k \in hit : TRUE][2] ELSE to[target]

\* _read_record: nothing is yielded of a record that is not all there.
ReadRecord(r) ==
  LET log  == logs[r.file]
      i    == CHOOSE n \in RecordsAt(log, r.pos) : TRUE
  IN  IF r.pos + Header > log.flushed THEN [r EXCEPT !.at = "stops"]
      ELSE IF RecordsAt(log, r.pos) = {} THEN [r EXCEPT !.got = Append(@, Garbage), !.at = "stops"]
      ELSE IF OffsetOf(log, i + 1) > log.flushed THEN [r EXCEPT !.at = "stops"]
      ELSE [r EXCEPT !.got = Append(@, i), !.pos = OffsetOf(log, i + 1)]

-----------------------------------------------------------------------------
(* read_range, of a Master: it flushes, opens and seeks without waiting. *)

ReadRange(start, end) ==
  /\ owner = "master" /\ Usable /\ reader.at = "idle"
  /\ start < end /\ end <= logs[Mine].count
  /\ logs' = [logs EXCEPT ![Mine] = [@ EXCEPT !.flushed = logs[Mine].written]]
  /\ LET pos == SeekTo(logs'[active], offsets, start)
     IN  /\ reader' = [at |-> "reads", log |-> Mine, file |-> active, start |-> start,
                       end |-> end, pos |-> pos, got |-> <<>>]
         /\ offsets' = CacheOffset(offsets, start, pos)
  /\ UNCHANGED <<owner, active, writing, archives>>

-----------------------------------------------------------------------------
(* read_all, of an API. *)

\* The request binds the log that is there; the stream starts later.
StreamEvents ==
  /\ owner = "api" /\ logs[Mine].state # "crashed" /\ reader.at = "idle"
  /\ reader' = [at |-> "asked", log |-> Mine, file |-> 0, start |-> 0, end |-> 0, pos |-> 0,
                got |-> <<>>]
  /\ UNCHANGED <<owner, logs, active, writing, offsets, archives>>

\* A log that was closed meanwhile cannot be flushed, and the stream fails.
Flush ==
  /\ reader.at = "asked"
  /\ LET l == reader.log
     IN  /\ reader' = [reader EXCEPT !.at = IF logs[l].count = 0 THEN "ends"
                                            ELSE IF logs[l].state = "closed" THEN "fails" ELSE "opens"]
         /\ logs' = IF reader'.at # "opens" THEN logs
                    ELSE [logs EXCEPT ![l] = [@ EXCEPT !.flushed = logs[l].written]]
  /\ UNCHANGED <<owner, active, writing, offsets, archives>>

\* Whatever has the name by now.
OpenFile ==
  /\ reader.at = "opens"
  /\ reader' = IF active = 0 THEN [reader EXCEPT !.at = "fails"]
               ELSE [reader EXCEPT !.at = "counts", !.file = active]
  /\ UNCHANGED <<owner, logs, active, writing, offsets, archives>>

CountRecords ==
  /\ reader.at = "counts"
  /\ reader' = [reader EXCEPT !.at = "reads", !.end = logs[reader.log].count]
  /\ UNCHANGED <<owner, logs, active, writing, offsets, archives>>

-----------------------------------------------------------------------------
\* One record, or the end of either.
ReadNext ==
  /\ reader.at = "reads"
  /\ owner = "master" => Usable
  /\ reader' = IF Len(reader.got) < reader.end - reader.start THEN ReadRecord(reader)
               ELSE [reader EXCEPT !.at = "stops"]
  /\ UNCHANGED <<owner, logs, active, writing, offsets, archives>>

\* A range leaves the offset of what comes next in the cache.
ReadEnds ==
  /\ reader.at = "stops"
  /\ owner = "master" => Usable
  /\ reader' = [reader EXCEPT !.at = "ends"]
  /\ offsets' = IF owner = "master" /\ reader.end < logs[reader.log].count
                THEN CacheOffset(offsets, reader.end, reader.pos) ELSE offsets
  /\ UNCHANGED <<owner, logs, active, writing, archives>>

\* Whoever read is done, or goes away in the middle: a generator is dropped.
DropReader ==
  /\ reader.at # "idle"
  /\ reader' = NotReading
  /\ UNCHANGED <<owner, logs, active, writing, offsets, archives>>

-----------------------------------------------------------------------------
(* The file changes with the session. *)

\* _rotate: an archive, of which the newest are kept; or a failure, before the archive is
\* there or after.  The source is gone in any case.
Rotated(l) ==
  LET all == Append(archives, l)
  IN  {SubSeq(all, IF Len(all) > MaxArchives THEN Len(all) - MaxArchives + 1 ELSE 1, Len(all)),
       archives, all}

\* close: what is in the buffer gets to the file first.
Close ==
  /\ Usable
  /\ logs' = [logs EXCEPT ![Mine] = [@ EXCEPT !.flushed = logs[Mine].written, !.state = "closed"]]
  /\ archives' \in IF logs[Mine].count > 0 THEN Rotated(Mine) ELSE {archives}
  /\ active' = 0
  /\ reader' = IF owner = "master" THEN NotReading ELSE reader
  /\ UNCHANGED <<owner, writing, offsets>>

\* The process dies, with what is in its buffer.
Crash ==
  /\ logs[Mine].state = "open"
  /\ logs' = [logs EXCEPT ![Mine] = [@ EXCEPT !.state = "crashed"]]
  /\ writing' = "no" /\ reader' = NotReading
  /\ UNCHANGED <<owner, active, offsets, archives>>

\* __init__: what a crash has left is archived, and the file is new.
Open ==
  /\ logs[Mine].state # "open" /\ Mine < Len(Sizes)
  /\ archives' \in IF active # 0 THEN Rotated(active) ELSE {archives}
  /\ logs' = Append(logs, NewLog)
  /\ active' = Mine + 1
  /\ offsets' = <<>>
  /\ UNCHANGED <<owner, writing, reader>>

ZNext ==
  \/ AppendHeader \/ AppendPayload \/ AppendCount \/ Spill
  \/ \E start, end \in 0 .. Len(Sizes[Mine]) : ReadRange(start, end)
  \/ StreamEvents \/ Flush \/ OpenFile \/ CountRecords \/ ReadNext \/ ReadEnds \/ DropReader
  \/ Close \/ Crash \/ Open

ZSpec == ZInit /\ [][ZNext]_zvars

-----------------------------------------------------------------------------
Log == [ends : Seq(Nat), written : Nat, flushed : Nat, count : Nat,
        state : {"open", "closed", "crashed"}]

Reading == [at : {"asked", "opens", "counts", "reads", "stops", "ends", "fails"}, log : Nat,
            file : Nat, start : Nat, end : Nat, pos : Int, got : Seq(Int)]

DiskLogTypeOK ==
  /\ owner \in {"master", "api"}
  /\ logs \in Seq(Log) /\ Mine \in 1 .. Len(Sizes)
  /\ active \in {0, Mine}
  /\ writing \in {"no", "payload", "count"}
  /\ offsets \in Seq(Nat \X Int)
  /\ archives \in Seq(1 .. Mine)
  /\ reader \in Reading \cup {NotReading}

\* What is yielded is the records from start on, in their order, of one log, whatever was
\* appended, cached or rotated meanwhile; and a range that was read to its end is complete.
ReadsInOrder ==
  reader.at \in {"reads", "stops", "ends"} =>
    /\ \A j \in 1 .. Len(reader.got) : reader.got[j] = reader.start + j - 1
    /\ owner = "master" /\ reader.at \in {"stops", "ends"} =>
         Len(reader.got) = reader.end - reader.start

\* The archive of a log that was closed has all of it.
ArchivesAreWhole ==
  \A k \in 1 .. Len(archives) :
    logs[archives[k]].state = "closed" => logs[archives[k]].flushed = logs[archives[k]].written
=============================================================================
