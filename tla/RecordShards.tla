---------------------------- MODULE RecordShards ----------------------------
(***************************************************************************)
(* The byte-range split of ConcurrentStreamRecordReader::BuildShards       *)
(* (public/data_loading/readers/riegeli_stream_io.h).  Shards are          *)
(* inclusive ranges [start_pos, end_pos]; the next shard starts one byte   *)
(* after the previous end.  The result is either a status other than "OK" *)
(* or the sequence of shards.                                              *)
(***************************************************************************)
EXTENDS Integers, Sequences

MinOf(a, b) == IF a < b THEN a ELSE b
MaxOf(a, b) == IF a < b THEN b ELSE a

\* int64_t(std::ceil((double)stream_size / num_worker_threads)), exact for
\* the non-negative sizes TLC enumerates.
CeilDiv(a, b) == (a + b - 1) \div b

\* A shard size taken from min_shard_size_bytes alone, ignoring the workers.
ShardSizeIgnoringWorkers(size, workers, minShard) == MinOf(size, minShard)

\* shard_size = min(stream_size, max(ceil(stream_size / W), min_shard_size))
ShardSize(size, workers, minShard) ==
    MinOf(size, MaxOf(CeilDiv(size, workers), minShard))

\* The next shard starting on the previous shard's last byte.
NextShardStartOverlap(endPos) == endPos

\* shard_start_pos = shard_end_pos + 1
NextShardStart(endPos) == endPos + 1

\* The while loop: one shard per start position below stream_size, each end
\* clamped to stream_size.
RECURSIVE ShardsFrom(_, _, _)
ShardsFrom(start, size, shardSize) ==
    IF start < size
    THEN LET end == MinOf(start + shardSize, size)
         IN  << [start_pos |-> start, end_pos |-> end] >>
               \o ShardsFrom(NextShardStart(end), size, shardSize)
    ELSE << >>

\* BuildShards(): the worker-count check, the loop, and the final check that
\* the last shard ends exactly at stream_size.
BuildShards(size, workers, minShard) ==
    IF workers < 1
    THEN [status |-> "InvalidArgument", shards |-> << >>]
    ELSE LET shards == ShardsFrom(0, size, ShardSize(size, workers, minShard))
         IN  IF shards = << >> \/ shards[Len(shards)].end_pos # size
             THEN [status |-> "Internal", shards |-> << >>]
             ELSE [status |-> "OK", shards |-> shards]
=============================================================================
