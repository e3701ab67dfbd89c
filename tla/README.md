# TLA+ models of the FLEDGE key/value service

This directory holds TLA+ models of the concurrent and boundary-sensitive parts
of the key/value server: the concurrent delta-file record reader, the UDF
host client that talks to the Roma sandbox, server start-up racing the UDF
host callbacks, the two ways a V1 GetValues request is answered, blob
listing on S3 and GCS, and the GCP parameter client. Each model was written from the C++
source under `src/`. `PROJECT.json` maps every modelled definition to the lines
it translates, and lists the runs, mutants, findings and hazards.

## 1. The system and its parts

| Part | Source | State | Operations | Interacts with |
|---|---|---|---|---|
| Record stream reader (C1) | `src/public/data_loading/readers/riegeli_stream_io.h` | options; per read: the shard list, one future per shard; per shard task: Riegeli reader position, first/next record position, count | `BuildShards`, `ReadStreamRecords` (caller thread), `ReadShardRecords` (one `std::async` task per shard) | the user callback (called concurrently from all shard tasks), the stream factory |
| UDF host client (C6) | `src/components/udf/noop_udf_client.cc` (third file: `udf_client.cc`) | `handler_name_`, `logical_commit_time_`, `version_`; per call a shared status/result/notification | `SetCodeObject` (loader thread), `ExecuteCode` (request threads), Roma's `LoadCodeObj`/`Execute` callbacks | Roma: a worker pool with a request queue that keeps one code object per version |
| getValues hooks | `src/unnamed/part_005` (`get_values_hook.cc`) | `lookup_` (set lazily) | `FinishInit`, `operator()` (from a Roma worker) | the lookup, the UDF running in Roma |
| Server initializer | `src/components/data_server/server/server_initializer.cc` | shard manager state | `InitializeUdfHooks` (nonsharded/sharded), `CreateShardManager` with `TraceRetryUntilOk` | cluster mappings manager, hooks |
| V1 handler and V1→V2 adapter (C8) | `src/components/data_server/request_handler/get_values_handler.h`, `get_values_adapter.cc` | none (per request) | `GetValues`, `CallV2Handler`, `ConvertToV1Response` | the V2 handler, the UDF |
| Blob storage clients | `blob_storage_client_gcp.cc`, `src/unnamed/part_003` (S3) | none | `ListBlobs`, `GetBlobReader`, `PutBlob`, `DeleteBlob` | cloud SDKs |
| Parameter client (GCP) | `src/unnamed/part_004` | none | `GetParameter`, `GetInt32Parameter`, `GetBoolParameter` | the GCP SDK (callback and `BlockingCounter`) |
| Delta file tester | `src/tools/udf/udf_tester/udf_delta_file_tester.cc` | the tester's cache, code config, UDF client | `LoadCacheFromFile`, `ReadCodeConfigFromFile`, `TestUdf`, `main` | the reader (sequential `RiegeliStreamReader`), the UDF client, the hooks |
| Tools and tests | `run_query_udf.js`, `part_001/002`, tests, mocks, BUILD files | | | |

What makes the system hard:

- **Reader.** It runs one task per shard, and all tasks invoke the user callback
  concurrently. Shards overlap by design at one byte. Riegeli's "read the record
  whose header starts in range" rule is what prevents loss. The caller joins the
  futures in order, and on an error it returns early while later tasks are
  still running.
- **UDF client.** Both calls hand a request to Roma and wait on a notification
  with a timeout. Roma may answer late or never, and the request is not
  cancelled. `SetCodeObject` writes three plain members that request threads
  read with no lock.
- **Startup.** Hooks are initialised after Roma forks. The sharded path retries
  `ShardManager::Create` forever and may fail after that in `Start`.

## 2. Modules

### `RecordShards` and `BlobChunks` (pure), and `MC_ByteRanges`

`BuildShards` as an operator. `ShardSize` is the `min(size, max(ceil(size/W),
min_shard))` of lines 258-261, `NextShardStart` is line 272, and `ShardsFrom` is
the recursive form of the loop at 265-273. `BuildShards` returns a record
`[status, shards]` with the code's error paths: InvalidArgument for fewer than
one worker, and Internal when the list is empty or does not end at the size.

`BlobChunks` holds the two blob stream buffers' `ReadChunk` as operators over
an object of `size` bytes. A read is a record `[status, first, count]`: the
run of byte positions copied into `dest_buffer`.

- `GetRange` (part_003, 92-98) is the S3 range `bytes=<offset>-<offset+length-1>`.
  Its end is computed in `uint64_t`, modelled as `% 2^RangeWidth` (`Unsigned`).
  The cfg narrows the width to 16 bits so that TLC can compute it. The wrap
  falls in the same place: only when `offset + length` is 0.
- `S3ReadChunk` (73-89) covers the failed outcome, and the whole body, however
  long, read into the buffer.
- `GcpReadChunk` (gcp, 64-76) covers the half-open `ReadRange(offset,
  offset + chunk_size)`, and all of its contents copied.
- `RangeGet` is how a store answers a range request. This is the HTTP range
  semantics both SDKs document, not code of this tree:
  - an end before the start is ignored, and the whole object is sent;
  - a start at or past the end of the object fails;
  - an end past the object is clipped.

`MC_ByteRanges` picks every input in a bounded box in `Init`, for both
modules, and its `Next` only stutters. An invariant therefore checks the
operators on every input. A read starts inside the object and asks for at
least one byte: the stream is positioned before the end. Whether the caller
ever asks for 0 bytes is decided by `SeekingInputStreambuf`, which is not in
this tree.

### `ConcurrentRecordReader`

The file is abstract. `size` is the stream size, and `recordPos` is the set of
positions where records start, one record per chunk. `corrupted` is a subset of
those records, and `recovers` is what the recovery callback answers. Riegeli is
modelled by what it does:

- `Seek(p)` lands on the first record at or after `p`;
- `ReadRecord` with recovery skips corrupted chunks and returns the next
  readable record in the same call;
- without recovery it fails on a corrupted chunk.

State:

- `caller`: the calling thread's pc;
- `shards`: BuildShards' result;
- `task[i]`: each shard task's pc, position, first/next record position and
  count;
- `joinIdx`: the future being joined;
- `result`: the returned status;
- `delivered[p]`: how many times the callback saw the record at `p`, a history
  variable.

Actions:

- `BuildAndLaunch`: lines 287-300, including the probe-stream failure and
  BuildShards' errors. `RecordStreamSize` (228-239) is the stream's size, or
  -1 when it cannot seek, which BuildShards returns as InvalidArgument;
- `SeekShard(i)`: 339-351;
- `ReadShardRecord(i)`: one iteration of the loop at 353-357, with the
  reader's failure paths. When recovery skips to the end of the stream,
  `ReadRecord` returns false and `next_record_pos` keeps its last value;
- `EndShard(i)`: the loop exit and the result at 367-373;
- `JoinShard`: one `future::get()` and its checks, 301-323;
- `Return`: the return at 324-328, enabled only once every task has finished,
  because each future's destructor blocks.

### `UdfClient` and `MC_UdfClient`

State:

- `client`: the three members;
- `loader`: the `SetCodeObject` thread, with its pc, the config it is loading,
  and its call's notification and status;
- `req[r]`: each `ExecuteCode` thread;
- `pending`: Roma's queue;
- `roma[v]`: the code object Roma holds for version `v`;
- history variables `okLoads` (configs whose `SetCodeObject` returned OK) and
  `ret[r]` (what `ExecuteCode` returned).

Actions:

- `SetCodeObject(c)`: the LCT gate, an immediate `LoadCodeObj` failure, or a
  queued load. `SetWasmCodeObject(c)` (291-297) is the same call on the same
  config, so it is the same step;
- `AwaitLoad`: the timed wait and its checks;
- `SetHandlerName`, `SetLogicalCommitTime` and `SetVersion`: the three member
  writes as separate steps (lines 285-287), so request threads can read any
  prefix of them;
- `ExecuteCode(r)` and `AwaitExecution(r)`;
- `RomaLoad(p)` and `RomaExecute(p)`: Roma serving a queued request in any
  order and running the code's callback.

Each call has its own notification object (`std::make_shared` per call), so a
callback for a call whose waiter has gone reaches nobody. That is the `seq`
match in the model. A code object is abstracted to the config's id and the
handler its js defines. An invocation fails unless Roma holds code for its
version that defines its handler.

`MC_UdfClient` gives two sets of configs: distinct versions, and all configs at
the default version 1.

`BuildInvocationRequest` reads `handler_name_` and `version_` in one step of
`ExecuteCode(r)`. The torn read needs only that step to fall between two
member writes; splitting the two reads would add more torn states of the same
kind.

### `UdfHooks`

The start-up thread has a pc `startup`. `Init` is `GetServerInitializer`: one
shard takes `NonshardedInitializeUdfHooks` and starts at `finish_init`; more
shards take `ShardedInitializeUdfHooks` and start at `create_shard_manager`.

- `CreateShardManager` is one iteration of `TraceRetryUntilOk` (lines 141-156).
  It succeeds once `replicasUp` holds, and otherwise counts a failed attempt.
- `StartMappingsManager` is `cluster_mappings_manager->Start` (157-162), which
  succeeds or fails.
- `FinishInit` is one of the three `FinishInit` calls of
  `InitializeUdfHooksInternal` (33-44). `HookFinishedAt(i)` names the hook that
  the i-th call finishes.
- `ReplicasSpinUp` is the environment: the cluster mappings come to list a
  replica for every shard. Nothing in the code makes this happen, so the
  model does not assume it ever does.
- `CallHook(w)` is `GetValuesHookImpl::operator()` (part_005, 131-165), called
  by a Roma worker at any time. Its status is Internal if `lookup_` is null,
  then InvalidArgument for a non-list input, then the lookup's error, and
  otherwise OK. The history `answers` records each call's status and whether
  start-up had already returned OK.

The same module also models the delta file tester (`udf_delta_file_tester.cc`),
which initialises the same hooks. `program` chooses, in `Init`, which of the two
programs runs; the variables of the other stay fixed. The tester is one
sequential thread, so each of its functions is one action:

- `LoadCacheFromFile` reads the delta file with the sequential
  `RiegeliStreamReader` and applies every record through
  `LoadCacheFromKVMutationRecord`: an Update calls `UpdateKeyValue`, a Delete
  calls `DeleteKey`, any other type is only logged. A non-KV record makes the
  callback fail. `ReadStreamRecords` logs a failing callback and goes on, so
  the read and the load succeed with every other record applied. The reader
  recovers like `StreamRecordReaderFactory::CreateReader`: any record read
  past may be skipped as corrupted. The history `lost` records which. The
  cache's `UpdateKeyValue` and `DeleteKey` are modelled from spec 8.1 (the
  cache is not in this tree). A mutation below the stored LCT is dropped, and
  so is an Update at the LCT of a stored Delete (`Tombstoned`). Section 3 of
  the spec only drops lower LCTs; 8.1 is the stricter rule, and the model
  follows it.
- `LookupsMatchFile` compares every OK lookup with `FileValues`, a
  declarative reading of 8.1 over the records the reader handed on: the value
  of a greatest-LCT Update, or absent if a Delete at or above that LCT exists.
  It does not replay the cache's rule, so a wrong tie rule in the cache shows.
- `ReadCodeConfigFromFile` keeps the last UDF config of the UDF delta file.
- `FinishInit` of the three hooks, then `CreateUdfClient`, then
  `SetCodeObject`, which shuts the client down on failure. `UdfClientCreate` is
  `UdfClient::Create`: the client exists only if `RomaInit` succeeded.
  `UdfClientStop` is `UdfClientImpl::Stop`, which `ShutdownUdf` calls.
- `TesterCallHook` is the UDF's `getValues` call during `ExecuteCode`: it reads
  the tester's cache through the hook.
- `ExecuteCode` and `Main`: the UDF client is stopped and the exit code set.

The tester's input files are every file of up to `MaxRecords` records.

### `GetValuesV1` and `MC_GetValuesV1`

Both V1 paths are pure operators. `GetValues` is the direct path:

- `GetKeys` splits every key on the delimiter;
- `ProcessKeys` looks the keys up and returns a value that parses as JSON
  parsed, and any other value as a string.

`CallV2Handler` is the adapter:

- `BuildV2Request` makes one `["custom", <tag>]` argument per non-empty field;
- `UdfInput` is `ExecuteCode(metadata, arguments)` of the UDF client: the UDF
  gets a tagged argument whole, and an untagged one as its data alone;
- the V2 handler and a lookup UDF are modelled from the spec, and the UDF may
  also emit extra key groups or fail;
- `ConvertToV1Response` folds `ProcessKeyGroupOutput` over the key groups;
- `FindNamespace` accepts exactly two tags, one of them `custom`;
- `ProcessKeyValues` stores the parsed value and then overwrites it with the
  value as received (lines 93-95). The V1 response therefore holds raw strings.

A key string is a sequence of atoms: `<<a, b>>` stands for `"a,b"`.
`MC_GetValuesV1` enumerates every request over the given key strings, every
cache content, and every UDF outcome.

### `BlobListing`

The state has four parts:

- `bucket` is the set of object names. Names are integers, ordered as the
  stores order keys. `PrefixNames` are the names that carry the prefix.
- `S3PutBlob(n)`, `S3DeleteBlob(n)`, `GcpPutBlob(n)` and `GcpDeleteBlob(n)` are
  the writers, using the client of the listed store. Each call succeeds or
  fails; a GCP Close that reports an error may still have finalised the object.
- `lister` is one `ListBlobs` call of either client, with its cursor and the
  keys gathered so far.
- `stable` and `seen` are histories: the names present throughout the listing,
  and the names present at some point during it.

The listing actions:

- `S3ListPage` is one iteration of the S3 `while` loop. A failed
  `ListObjectsV2` returns its error. Otherwise the page's keys are appended, and
  a truncated page continues from its last key.
- `S3ListPageNoAdvance` is not part of `Next`. It is a truncated page whose
  continuation token does not move, and it is used as a mutant.
- `GcpListPage` is one lazy page fetch of the `ListObjects` range. It starts at
  the inclusive `StartOffset` and drops `start_after` itself. A failed fetch
  yields an error entry, which the loop skips, and the range then ends. The
  keys are sorted at the end.

A page is the next `PageSize` matching names after the cursor. This is the
SDKs' documented semantics, not code of this tree.

`ListingReturns` is a liveness property: every `ListBlobs` call returns, even
while the writers keep adding and removing names around the cursor. The page
steps are guarded by `MaxListed`, the number of prefix names. `ListingSound`
shows the bound never binds in the correct model. In a mutant that re-lists a
page, the bound keeps the state space finite, and the stuck listing then
violates `ListingReturns`.

### `ParameterClient`

`GetParameter(kind)` is `GetParameter`, or a typed getter calling it, up to
`counter.Wait()`. The SDK accepts or rejects the request synchronously, and
records the callback it will run. `Callback` is the lambda: a failure is only
logged; on success `param_value` is set, with `EMPTY_STRING` mapped to `""`;
then the counter is decremented. Both writes go to the caller's stack, so a
callback that runs after its call has returned sets the history `dangling`.
`AwaitResult` is the rest of `GetParameter`, plus the `SimpleAtoi` /
`SimpleAtob` conversion of the typed getters. The conversions are modelled by
what they do on a small set of strings, including an int32 overflow.

The code reads the callback's failure as an empty value. `GetParameter`
returns OK with `""` when the SDK reports a failure through the callback, and
the typed getters then answer InvalidArgument instead of Unavailable. The model
keeps this path, but no run states it, because a unit test with a failing mock
reaches it directly.

## 3. Runs

| Run | Checks | Result |
|---|---|---|
| `byte_ranges` | `ShardsCoverStream` over sizes 1..12, workers 1..4, min shard 0..4; `ChunkReadsMatch` (both clients' `ReadChunk` copy exactly the `chunk_size` bytes at `offset`, clipped at the object's end) over objects of 1..5 bytes, every offset inside, chunks of 1..6 bytes, SDK success or failure | pass (43,200 states) |
| `byte_ranges_total` | `BuildShardsSucceeds` | **violation**: size 2, 2 workers |
| `reader` | `TypeOK`, `ExactlyOnceOnOk`, `ReadReturns`; sizes {3,5,9}, 3 workers, min shard 1, no corruption | pass (~314k states) |
| `reader_duplicate` | `NoDuplicateDelivery`; size 5, 2 workers, corruption and recovery allowed | **violation** |
| `udf_client` | `TypeOK`, `InstalledIsNewest`, `RomaRunsInstalledCode`; 2 configs with distinct versions, 2 request threads, 3 loads, 2 calls each | pass (~748k states) |
| `udf_client_stale_code` | `RomaRunsInstalledCode`; configs sharing version 1 | **violation** |
| `udf_client_torn_read` | `InvocationConsistent`; distinct versions | **violation** |
| `udf_hooks` | `HooksReadyAfterStartup`, `LookupsMatchFile`, `UdfStoppedOnEveryExit`; server: 2 shards, 2 workers with 2 calls each, up to 2 failed Create attempts; tester: every delta file of up to 2 records over one key, two values and LCTs 1..2, with recovery | pass (~371k states) |
| `get_values_v1` | `ModesAgree`; keys `a`, `b`, two cache values (one JSON), extra UDF groups with a foreign and a malformed tag list | pass (~4.4k states) |
| `blob_listing` | `ListingSound`, `StableKeysNotSkipped`, `ListingReturns`; names 1..5, prefix 1..4, pages of 2, two writer calls, every start_after and initial bucket | pass (~60k states) |
| `parameter_client` | `NoCallbackAfterReturn`; three calls of any kind, five stored strings | pass (~1.6k states) |
| `get_values_v1_delimited` | `ModesAgree` with the key string `"a,b"` allowed | **violation** |

What the violations show (details in `PROJECT.json`, "findings"):

1. **Failed shard generation.** `BuildShards` fails for every size that is a
   multiple of `shard_size+1`, e.g. 8388609 bytes with the default 8 MiB
   minimum and 2 or more workers.
2. **Duplicate delivery.** A shard whose first chunk is corrupted recovers into
   the next shard and delivers its first record. The next shard delivers it
   again. The join's gap check does not catch an overlap, so the read is OK
   with a duplicate.
3. **Late load.** A `SetCodeObject` that timed out is not cancelled. When
   configs share a version number, its late completion replaces the code Roma
   runs for the installed version. Either order occurs: TLC's trace runs the
   older js1 under the newer handler h2; the mirror order runs a newer,
   rejected js2 under the older handler h1.
4. **Torn read.** The unsynchronised members let an invocation pair a new
   handler name with an old version.
5. **Unsplit V1 keys.** Without `use_v2`, `GetKeys` splits `"a,b"` into `a`
   and `b`. The adapter's `BuildArgument` passes `"a,b"` to the UDF as one key.
   Turning `use_v2` on therefore drops both values from the V1 response.

Every property of a passing run has a mutant in `PROJECT.json`: a plausible bug
in a mapped definition that TLC then reports. For example, shards that start at
`end_pos` instead of `end_pos+1`, an S3 range ending at `offset + length`,
a missing LCT gate, a read that stops at the first failing callback, and a
join that does not advance.

## 4. Bounds, and why they are enough

- **Shards.** Sizes up to 12 and up to 4 workers cover 1 to 4 shards,
  shard sizes from 1 to the whole stream, the clamp at the stream end, and both
  outcomes of the divisibility failure.
- **Chunk reads.** Objects of up to 5 bytes and chunks of up to 6 cover three
  cases: a chunk inside the object, one ending exactly at its last byte, and
  one reaching past it. An off-by-one in either client's range end changes the
  count in the first two cases.
- **Reader.** Sizes {3,5,9} with 3 workers give 1, 2 and 3 shards. Every subset
  of positions is a possible record set, so records land on every shard
  boundary (`start`, `end`, `end+1`), and some shards are empty. The
  duplicate-delivery run needs only 2 shards and one corrupted record.
- **Hooks.** Two shards take the sharded path. Two failed attempts exercise
  the retry loop, and `replicasUp` may start true. Two workers with two calls
  each can call a hook before, during and after the three `FinishInit` calls.
- **V1 paths.** Every field is empty, `a` or `b`, so two fields can share a
  key. The cache holds a JSON value, a non-JSON value or nothing for each key.
  The extra UDF groups cover a group the adapter must ignore and one that
  overwrites a field.
- **Blob listing.** Up to four matching names with pages of 2 give listings of
  one, two and three pages. Two writer calls can add or delete a name ahead
  of, at, or behind the cursor between pages. Every `start_after`, including
  one naming an existing object, is tried.
- **Delta file tester.** Files of up to two records over one key with LCTs 1
  and 2 put two mutations of the key in either order, with equal, older and
  newer LCTs, Update after Delete and Delete after Update, and a UDF record
  among KV records. Every read may fail after any prefix.
- **Parameter client.** Three calls let a callback of one call be pending
  when the next call starts, which is the case a wrong wait would show.
- **UDF client.** Three loads of two configs let a config arrive after a newer
  one, and let a load time out and then complete late. Two calls per request
  thread let a late callback of the first call meet the second call's wait.

## 5. Fairness

- **Reader.** Weak fairness on the caller's steps and on each task's steps. The
  tasks are `std::launch::async` threads, and the Riegeli calls they make
  return. The caller's `future::get` returns when its task finishes.
- **UDF client, hooks, delta file tester.** No fairness. Their runs check
  only safety: the timed waits return by construction, and start-up returning
  would rest on replicas appearing, which the code does not control.

- **Blob listing.** Weak fairness on `S3ListPage` and `GcpListPage`.
  `ListBlobs` runs on the caller's thread, and every SDK call returns, with a
  result or an error. The writers are other clients and are not required to
  write.

- **Parameter client.** No fairness. That `GetParameter` returns rests on the
  SDK calling back for every request, including one it rejected
  synchronously. The SCP interface is not in this tree, so the model cannot
  show it; if a rejected request is never called back, `counter.Wait()` never
  returns (see the hazards).

## 6. Not modelled, and why

- Riegeli's framing, and the byte-level layout of chunks and records. The model
  keeps the reader-position semantics the code relies on.
- The JSON conversion of `ExecuteCode(metadata, arguments)`. It is pure
  formatting with an error return, and no property distinguishes it.
- `NoopUdfClient`, `MockUdfClient`, mocks and tests: test doubles.
- The cache, lookups, remote lookup, sharded lookup, protocol codec and V2
  handler. Their code is not in this tree.
- BUILD files and the protocol testing document.

- The loop that reads a blob chunk by chunk (`SeekingInputStreambuf`). It is
  not in this tree; `BlobChunks` models one `ReadChunk` at a time. Its hazard
  is listed: the range reads are not pinned to one object generation or ETag,
  so an overwrite during a read mixes two versions. Whether that is caught
  depends on Riegeli checksums downstream.
- Concurrent `SetCodeObject` calls. The LCT gate is a check-then-act without a
  lock. Its callers are not in this tree, and the model assumes one loader
  thread, which is how the tester uses it. This is listed as a hazard.
- The local instance client returns flag values and constants. One edge is
  listed as a hazard: `GetInstanceId` passes `HOST_NAME_MAX` to
  `gethostname` with no room for the NUL, so a maximum-length host name fails
  with ENAMETOOLONG. All run slots are in use, so it has no violation run.
- `SizeImpl` of both blob clients returns the store's object size or its
  error; there is nothing to check in it alone.
- A cache fed by the reader. The cache is not in this tree. The spec says
  writes with different LCTs are idempotent in any order, so the cache would
  only restate `ExactlyOnceOnOk` and finding 2. For equal LCTs spec 8.1
  makes a key absent when a Delete's LCT is at or above the greatest
  Update's; the tester's cache in `UdfHooks` is checked against that rule.
- `instance_client_local.cc` and the mocks return constants or are test
  doubles. The `FormatDataCommand` test file in `server_initializer.cc` is
  test code.
- The hooks' JSON and binary encodings of outputs and statuses. No property
  distinguishes them.
- The tester's `--set_value` branch and its argument parsing. The model takes
  the key-value path; the set path writes a different cache map through the
  same structure. `DeltaRecordStreamReader` is not in this tree; the model
  assumes it passes records to the callback with the sequential reader's
  semantics, including the factory's recovery from corrupted records.
- Whether the tester should reject a KV record in the UDF file: the code skips
  it silently, and nothing states the intent (see hazards).

## 7. Plan for the next modules

All 12 run slots are in use. New questions will be added as properties of the
existing runs, or by merging runs that ask related questions.

1. **Sample UDF.** The `runQuery` set algebra of `run_query_udf.js`, checked
   against the grammar in the spec.
