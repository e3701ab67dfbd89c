----------------------------- MODULE BlobChunks -----------------------------
(***************************************************************************)
(* The range reads under a blob's input stream: ReadChunk of              *)
(* S3BlobInputStreamBuf (src/unnamed/part_003) and of GcpBlobInputStreamBuf *)
(* (blob_storage_client_gcp.cc).  An object is its size in bytes.  A read  *)
(* is the run of byte positions it copies into dest_buffer: its first      *)
(* position and its count, which ReadChunk returns.                        *)
(*                                                                         *)
(* How a store answers a byte-range request is the HTTP range semantics    *)
(* both SDKs document, not code of this tree: a range whose end precedes   *)
(* its start is ignored and the whole object is sent; a range starting at  *)
(* or past the end of the object fails (416); an end past the object is    *)
(* clipped to its last byte.                                               *)
(***************************************************************************)
EXTENDS Integers

CONSTANT RangeWidth   \* bits of uint64_t, narrowed so that TLC computes them

ASSUME RangeWidth \in Nat \ {0}

\* Arithmetic in an unsigned integer of RangeWidth bits.
Unsigned(x) == x % (2 ^ RangeWidth)

\* A read that copies bytes first .. first + count - 1, or a failed one.
Read(first, count) == [status |-> "OK", first |-> first, count |-> count]
Failed == [status |-> "Error", first |-> 0, count |-> 0]

Smaller(a, b) == IF a < b THEN a ELSE b

\* A GET of the inclusive byte range [first, last] of an object of size bytes.
RangeGet(size, first, last) ==
    CASE last < first  -> Read(0, size)
      [] first >= size -> Failed
      [] OTHER         -> Read(first, Smaller(last, size - 1) - first + 1)

\* A range ending at offset + length, one byte past the chunk.
GetRangeExclusiveEnd(offset, length) ==
    [first |-> offset, last |-> Unsigned(offset + length)]

\* GetRange(offset, length): "bytes=<offset>-<offset + length - 1>", the end
\* computed in uint64_t; the store parses the two numbers back.
GetRange(offset, length) ==
    [first |-> offset, last |-> Unsigned(offset + length - 1)]

\* S3BlobInputStreamBuf::ReadChunk: GetObject with the range of GetRange.  A
\* failed outcome (getOk false) returns its error; otherwise the body's
\* size, measured by seekg/tellg, is read into dest_buffer and returned.
S3ReadChunk(size, offset, chunk_size, getOk) ==
    LET range == GetRange(offset, chunk_size) IN
    IF getOk THEN RangeGet(size, range.first, range.last) ELSE Failed

\* GcpBlobInputStreamBuf::ReadChunk: ReadObject with the half-open
\* ReadRange(offset, offset + chunk_size), which the client sends as the
\* inclusive range ending one byte before its end.  A failed stream status
\* is returned; otherwise all contents are copied into dest_buffer.
GcpReadChunk(size, offset, chunk_size, readOk) ==
    IF readOk THEN RangeGet(size, offset, offset + chunk_size - 1) ELSE Failed
=============================================================================
