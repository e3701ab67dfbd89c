------------------------ MODULE ConcurrentRecordReader ------------------------
(***************************************************************************)
(* ConcurrentStreamRecordReader::ReadStreamRecords and ReadShardRecords    *)
(* (public/data_loading/readers/riegeli_stream_io.h).                      *)
(*                                                                         *)
(* The caller thread sizes the stream, builds the shards, launches one     *)
(* std::async task per shard and joins the futures in shard order.  Each   *)
(* task opens its own riegeli reader, seeks to its start and reads records *)
(* while the reader position is <= end_pos, invoking the callback for      *)
(* each record.                                                            *)
(*                                                                         *)
(* The file is abstracted to the numeric positions of its records (one     *)
(* record per chunk) in 0..size-1, with size the end-of-file position.     *)
(* The riegeli reader is abstracted to its contract: Seek(p) lands on the  *)
(* first record at or after p; reading a record moves to the next record;  *)
(* reading a corrupted record calls the recovery callback, which either    *)
(* skips it and goes on to the next record in the same ReadRecord call or  *)
(* fails the reader.  Seek and reads may also fail with an I/O error.      *)
(***************************************************************************)
EXTENDS RecordShards, FiniteSets

CONSTANTS
    StreamSizes,     \* sizes of the files to read, in bytes
    NumWorkers,      \* Options::num_worker_threads
    MinShardSize,    \* Options::min_shard_size_bytes
    MayCorrupt       \* whether the file may contain corrupted records

ASSUME StreamSizes \subseteq Nat \ {0}
ASSUME NumWorkers \in Nat \ {0}
ASSUME MinShardSize \in Nat
ASSUME MayCorrupt \in BOOLEAN

MaxShards == NumWorkers

VARIABLES
    size,        \* the file: its size (end-of-file position),
    recordPos,   \*   the positions of its records,
    corrupted,   \*   the records whose chunks are corrupted,
    recovers,    \*   what Options::recovery_callback returns
    caller,      \* pc of the thread in ReadStreamRecords
    shards,      \* the ShardRange vector
    task,        \* per shard: the ReadShardRecords task's state
    joinIdx,     \* the future being joined (loop index i + 1)
    result,      \* the status ReadStreamRecords returned
    delivered    \* history: how often the callback saw each record

fileVars == << size, recordPos, corrupted, recovers >>
vars == << fileVars, caller, shards, task, joinIdx, result, delivered >>

NoStatus == "none"
Statuses == {"OK", "InvalidArgument", "Internal", "ReaderError"}

\* Riegeli's Seek(p): the first record at or after p, else end of file.
FirstRecordFrom(p) ==
    LET later == {r \in recordPos : r >= p}
    IN  IF later = {} THEN size
        ELSE CHOOSE r \in later : \A q \in later : r <= q

\* The position after reading the record at p.
NextRecordPos(p) == FirstRecordFrom(p + 1)

\* The record a ReadRecord call at position p returns when recovery skips
\* corrupted chunks: the first uncorrupted record at or after p.
FirstReadableFrom(p) ==
    LET later == {r \in recordPos \ corrupted : r >= p}
    IN  IF later = {} THEN size
        ELSE CHOOSE r \in later : \A q \in later : r <= q

TaskState == [pc : {"seek", "read", "ok", "failed"},
              pos : Nat, first : Nat, next : Nat, count : Nat]

Init ==
    /\ size \in StreamSizes
    /\ recordPos \in SUBSET (0..size - 1)
    /\ corrupted \in IF MayCorrupt THEN SUBSET recordPos ELSE {{}}
    /\ recovers \in IF MayCorrupt THEN BOOLEAN ELSE {TRUE}
    /\ caller = "start"
    /\ shards = << >>
    /\ task = << >>
    /\ joinIdx = 1
    /\ result = NoStatus
    /\ delivered = [r \in recordPos |-> 0]

-----------------------------------------------------------------------------
(* The caller thread.                                                      *)

\* RecordStreamSize(): tellg() of a probe stream seeked to its end; -1 when
\* the stream does not support seeking, which is InvalidArgument.
RecordStreamSize == {-1, size}

\* BuildShards(), which sizes the stream first, and the loop of std::async
\* launches; a failed or empty result is returned at once.
BuildAndLaunch ==
    /\ caller = "start"
    /\ \E streamSize \in RecordStreamSize :
       LET built == IF streamSize = -1
                    THEN [status |-> "InvalidArgument", shards |-> << >>]
                    ELSE BuildShards(streamSize, NumWorkers, MinShardSize) IN
       \/ /\ built.status # "OK"
          /\ result' = built.status
          /\ caller' = "done"
          /\ UNCHANGED << shards, task >>
       \/ /\ built.status = "OK"
          /\ shards' = built.shards
          /\ task' = [i \in DOMAIN built.shards |->
                        [pc |-> "seek", pos |-> 0, first |-> 0,
                         next |-> 0, count |-> 0]]
          /\ caller' = "join"
          /\ UNCHANGED result
    /\ UNCHANGED << fileVars, joinIdx, delivered >>

Finished(i) == task[i].pc \in {"ok", "failed"}

\* One shard_reader_tasks[i].get(): a failed shard, or a first record past
\* the previous shard's next_shard_first_record_pos, ends the loop with an
\* error; after the last shard the call succeeds.
SkippedRecords(i) ==
    i > 1 /\ task[i - 1].next < task[i].first

\* A join loop that does not move on to the next future.
JoinShardNoAdvance ==
    /\ caller = "join"
    /\ Finished(joinIdx)
    /\ task[joinIdx].pc = "ok"
    /\ ~SkippedRecords(joinIdx)
    /\ UNCHANGED vars

JoinShard ==
    /\ caller = "join"
    /\ Finished(joinIdx)
    /\ \/ /\ task[joinIdx].pc = "failed"
          /\ result' = "ReaderError"
          /\ caller' = "drain"
          /\ UNCHANGED joinIdx
       \/ /\ task[joinIdx].pc = "ok"
          /\ SkippedRecords(joinIdx)
          /\ result' = "Internal"
          /\ caller' = "drain"
          /\ UNCHANGED joinIdx
       \/ /\ task[joinIdx].pc = "ok"
          /\ ~SkippedRecords(joinIdx)
          /\ IF joinIdx = Len(shards)
             THEN /\ result' = "OK" /\ caller' = "drain"
                  /\ UNCHANGED joinIdx
             ELSE /\ joinIdx' = joinIdx + 1
                  /\ UNCHANGED << result, caller >>
    /\ UNCHANGED << fileVars, shards, task, delivered >>

\* Returning destroys shard_reader_tasks; the destructor of a future from
\* std::async blocks until its task has finished.
Return ==
    /\ caller = "drain"
    /\ \A i \in DOMAIN task : Finished(i)
    /\ caller' = "done"
    /\ UNCHANGED << fileVars, shards, task, joinIdx, result, delivered >>

-----------------------------------------------------------------------------
(* A ReadShardRecords task.                                                *)

SetTask(i, fields) == task' = [task EXCEPT ![i] = fields]

\* record_reader.Seek(shard.start_pos); first_record_pos = pos().
SeekShard(i) ==
    /\ task[i].pc = "seek"
    /\ \/ SetTask(i, [task[i] EXCEPT !.pc = "failed"])
       \/ LET p == FirstRecordFrom(shards[i].start_pos)
          IN  SetTask(i, [task[i] EXCEPT !.pc = "read", !.pos = p, !.first = p])
    /\ UNCHANGED << fileVars, caller, shards, joinIdx, result, delivered >>

\* One iteration of: while (next_record_pos <= shard.end_pos &&
\*   record_reader.ReadRecord(record)) { callback; ++num_records_read;
\*   next_record_pos = pos(); }
ReadShardRecord(i) ==
    /\ task[i].pc = "read"
    /\ task[i].pos <= shards[i].end_pos
    /\ LET p   == task[i].pos
           rec == FirstReadableFrom(p)
       IN
       \/ \* an I/O error while reading
          /\ SetTask(i, [task[i] EXCEPT !.pc = "failed"])
          /\ UNCHANGED delivered
       \/ \* end of file: ReadRecord returns false with the reader ok
          /\ p = size
          /\ SetTask(i, [task[i] EXCEPT !.pc = "ok", !.next = p])
          /\ UNCHANGED delivered
       \/ \* a corrupted chunk and a recovery callback that returns false
          /\ p \in corrupted
          /\ ~recovers
          /\ SetTask(i, [task[i] EXCEPT !.pc = "failed"])
          /\ UNCHANGED delivered
       \/ \* recovery skipped every chunk up to the end of file: ReadRecord
          \* returns false with the reader ok, and next_record_pos keeps the
          \* position it had before the call
          /\ p < size /\ (p \notin corrupted \/ recovers)
          /\ rec = size
          /\ SetTask(i, [task[i] EXCEPT !.pc = "ok", !.next = p])
          /\ UNCHANGED delivered
       \/ \* a record is read (after skipping corrupted chunks) and delivered
          /\ p < size /\ (p \notin corrupted \/ recovers)
          /\ rec < size
          /\ delivered' = [delivered EXCEPT ![rec] = @ + 1]
          /\ SetTask(i, [task[i] EXCEPT !.pos = NextRecordPos(rec),
                                        !.count = @ + 1])
    /\ UNCHANGED << fileVars, caller, shards, joinIdx, result >>

\* The loop condition fails on the position: next_shard_first_record_pos.
EndShard(i) ==
    /\ task[i].pc = "read"
    /\ task[i].pos > shards[i].end_pos
    /\ SetTask(i, [task[i] EXCEPT !.pc = "ok", !.next = task[i].pos])
    /\ UNCHANGED << fileVars, caller, shards, joinIdx, result, delivered >>

-----------------------------------------------------------------------------

\* ReadStreamRecords has returned; nothing runs any more.
Terminated ==
    /\ caller = "done"
    /\ UNCHANGED vars

Next ==
    \/ BuildAndLaunch
    \/ JoinShard
    \/ Return
    \/ \E i \in DOMAIN task :
          SeekShard(i) \/ ReadShardRecord(i) \/ EndShard(i)
    \/ Terminated

\* std::launch::async gives every task its own thread and get() blocks the
\* caller until the task is done, so every thread that can step does.
Fairness ==
    /\ WF_vars(BuildAndLaunch) /\ WF_vars(JoinShard) /\ WF_vars(Return)
    /\ \A i \in 1..MaxShards :
          WF_vars(i \in DOMAIN task /\ (SeekShard(i) \/ ReadShardRecord(i)
                                         \/ EndShard(i)))

Spec == Init /\ [][Next]_vars /\ Fairness

-----------------------------------------------------------------------------

TypeOK ==
    /\ size \in StreamSizes
    /\ recordPos \subseteq 0..size - 1
    /\ corrupted \subseteq recordPos
    /\ recovers \in BOOLEAN
    /\ caller \in {"start", "join", "drain", "done"}
    /\ Len(shards) <= MaxShards
    /\ DOMAIN task = DOMAIN shards
    /\ \A i \in DOMAIN task : task[i] \in TaskState
    /\ result \in Statuses \cup {NoStatus}
    /\ delivered \in [recordPos -> Nat]

\* Exactly-once delivery (the class comment, spec property 2): when
\* ReadStreamRecords returns OK on a file without corruption, the callback
\* has seen every record of the file exactly once, although the shard tasks
\* ran concurrently and each decided on its own where its shard ends.
ExactlyOnceOnOk ==
    (caller = "done" /\ result = "OK" /\ corrupted = {})
        => \A r \in recordPos : delivered[r] = 1

\* Every call of ReadStreamRecords returns.
ReadReturns == <>(caller = "done")

\* With recovery, a record is still delivered at most once on an OK read.
NoDuplicateDelivery ==
    (caller = "done" /\ result = "OK") => \A r \in recordPos : delivered[r] <= 1
=============================================================================
