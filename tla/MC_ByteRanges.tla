---------------------------- MODULE MC_ByteRanges ----------------------------
(***************************************************************************)
(* Checks the byte-range arithmetic of the data loading path over every    *)
(* input up to the bounds below: BuildShards, which splits a record stream *)
(* into shards, and the chunk reads of the S3 and GCP blob streams under   *)
(* it.  The inputs are chosen once in Init and never change: each state is *)
(* one call of BuildShards and one ReadChunk of each client.               *)
(***************************************************************************)
EXTENDS RecordShards, BlobChunks

CONSTANTS MaxStreamSize, MaxWorkers, MaxMinShardSize,
          MaxObjectSize,  \* bytes of the blob being read
          MaxChunkSize    \* chunk_size of a read, up to past the object's end

VARIABLES size, workers, minShard,
          objectSize, offset, chunkSize, sdkOk

vars == << size, workers, minShard, objectSize, offset, chunkSize, sdkOk >>

\* A read starts inside the object (the stream is positioned before its
\* end) and asks for at least one byte.
Init ==
    /\ size \in 1..MaxStreamSize
    /\ workers \in 1..MaxWorkers
    /\ minShard \in 0..MaxMinShardSize
    /\ objectSize \in 1..MaxObjectSize
    /\ offset \in 0..objectSize - 1
    /\ chunkSize \in 1..MaxChunkSize
    /\ sdkOk \in BOOLEAN

Next == UNCHANGED vars

Spec == Init /\ [][Next]_vars

Result == BuildShards(size, workers, minShard)

\* When BuildShards accepts a stream, its shards are consecutive inclusive
\* ranges that cover byte 0 through stream_size with no byte in two shards,
\* and there are no more of them than worker threads (one std::async task is
\* launched per shard, and shards.reserve(num_worker_threads) is the intended
\* concurrency).
ShardsCoverStream ==
    Result.status = "OK" =>
        LET s == Result.shards IN
        /\ 1 <= Len(s) /\ Len(s) <= workers
        /\ s[1].start_pos = 0
        /\ s[Len(s)].end_pos = size
        /\ \A i \in 1..Len(s) - 1 : s[i + 1].start_pos = s[i].end_pos + 1

\* The class comment promises that every record of the stream is read; a
\* non-empty stream read with at least one worker must therefore be split
\* into shards rather than rejected with Internal("Failed to generate
\* shards.").
BuildShardsSucceeds == Result.status = "OK"

\* The bytes a chunk read owes its caller: chunk_size bytes from offset,
\* clipped at the end of the object.
ChunkOf(objSize, off, chunk) == Read(off, Smaller(off + chunk, objSize) - off)

\* A successful ReadChunk of either client copies into dest_buffer exactly
\* the chunk_size bytes at offset, clipped at the object's end: never more
\* bytes than the caller's buffer holds, and none before offset.  This is
\* S3's inclusive GetRange end (offset + length - 1) against GCP's
\* half-open ReadRange.
ChunkReadsMatch ==
    \A r \in {S3ReadChunk(objectSize, offset, chunkSize, sdkOk),
             GcpReadChunk(objectSize, offset, chunkSize, sdkOk)} :
        r.status = "OK" => r = ChunkOf(objectSize, offset, chunkSize)
=============================================================================
