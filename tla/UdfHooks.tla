------------------------------ MODULE UdfHooks ------------------------------
(***************************************************************************)
(* Server start-up wiring the UDF host callbacks                          *)
(* (data_server/server/server_initializer.cc), racing UDF invocations that *)
(* call the getValues hooks (GetValuesHookImpl, src/unnamed/part_005).     *)
(*                                                                         *)
(* The start-up thread runs InitializeUdfHooks of the initializer that     *)
(* GetServerInitializer picked: with one shard it calls FinishInit on the  *)
(* string, binary and runQuery hooks; with several it first creates the    *)
(* shard manager, retrying ShardManager::Create until the cluster mappings *)
(* validate, then starts the ClusterMappingsManager, and only if that      *)
(* succeeds calls the three FinishInit.  Meanwhile Roma workers may run    *)
(* UDFs that call getValues / getValuesBinary; a hook whose lookup_ is     *)
(* still null answers Internal.                                            *)
(*                                                                         *)
(* The same hooks are wired by the UDF delta file tester                   *)
(* (tools/udf/udf_tester/udf_delta_file_tester.cc): TestUdf loads a cache  *)
(* from a KV delta file, reads the code config from a UDF delta file,      *)
(* finishes the three hooks on lookups of that cache, creates the UDF      *)
(* client, sets the code object, executes the UDF once and shuts the      *)
(* client down.  Init chooses which of the two programs runs.  The cache   *)
(* (not in this tree) is modelled from the spec: max-LCT per key, a       *)
(* Delete at or above the stored LCT removes the value.                    *)
(***************************************************************************)
EXTENDS Integers, FiniteSets, SequencesExt

CONSTANTS
    NumShards,      \* num_shards given to GetServerInitializer
    Workers,        \* Roma workers running UDFs that call the hooks
    MaxCalls,       \* hook calls per worker
    MaxAttempts,    \* failed ShardManager::Create attempts before replicas appear
    Keys,           \* keys of the tester's KV delta file
    Values,         \* string values of its Update records
    Lcts,           \* logical commit times of its records
    MaxRecords      \* records per delta file

\* CHECK_GT(num_shards, 0)
ASSUME NumShards \in Nat \ {0}
ASSUME MaxCalls \in Nat /\ MaxAttempts \in Nat

\* The hooks, in the order InitializeUdfHooksInternal finishes them.
Hooks == << "getValues", "getValuesBinary", "runQuery" >>
HookSet == {Hooks[i] : i \in 1..3}
GetValuesHooks == {"getValues", "getValuesBinary"}

\* Records of a delta file: a KV mutation record ("kv", with a mutation
\* type that may be outside the enum's known values) or a UDF config record
\* ("udf", its handler standing for the code).
KVRecords == [kind : {"kv"}, key : Keys, type : {"Update", "Delete", "Unknown"},
              lct : Lcts, value : Values]
UdfRecords == [kind : {"udf"}, key : {"none"}, type : {"none"}, lct : Lcts,
               value : {"handler"}]
\* The code config before any UDF record: CodeConfig's defaults.
DefaultCodeConfig == [kind |-> "default", key |-> "none", type |-> "none", lct |-> 0,
                      value |-> "none"]
\* A UDF delta file holds UDF records and possibly a record of another kind.
UdfFileRecords ==
    {CHOOSE r \in UdfRecords : TRUE, CHOOSE r \in KVRecords : r.type = "Update"}
Files(R) == UNION {[1..n -> R] : n \in 0..MaxRecords}

NotFound == "NotFound"

VARIABLES
    program,    \* the program wiring the hooks: "server" or "tester"
    startup,    \* pc of the start-up thread (TestUdf for the tester)
    finished,   \* FinishInit calls made so far
    attempts,   \* failed ShardManager::Create attempts
    replicasUp, \* the cluster mappings list a replica for every shard
    lookup,     \* lookup_ of each hook is set
    calls,      \* hook calls made by each worker
    answers,    \* history: every server hook call as [hook, status, afterStartup]
    kvFile,     \* the tester's KV delta file
    lost,       \* history: positions of kvFile the reader skipped as corrupted
    udfFile,    \* the tester's UDF delta file
    cache,      \* the tester's cache: key -> [lct, value]
    code_config,\* the tester's CodeConfig: a UDF record or the defaults
    client,     \* the tester's UdfClient: "none", "live" or "stopped"
    reads,      \* history: every tester hook call as [key, status, value]
    exit_code   \* the tester's main: [exited, code]

serverVars == << attempts, replicasUp, answers >>
testerVars == << kvFile, udfFile, lost, cache, code_config, client, reads, exit_code >>
vars == << program, startup, finished, lookup, calls, serverVars, testerVars >>

\* No entry for any key: no logical commit time yet.
EmptyCache == [k \in Keys |-> [lct |-> -1, value |-> NotFound]]

\* NonshardedServerInitializer::InitializeUdfHooks goes straight to the
\* three FinishInit calls, on local lookups of the cache.
NonshardedInitializeUdfHooks == "finish_init"

\* ShardedServerInitializer::InitializeUdfHooks first runs CreateShardManager
\* and returns its error; only then the three FinishInit calls, on sharded
\* lookups over the new shard manager.
ShardedInitializeUdfHooks == "create_shard_manager"

\* GetServerInitializer: one shard is nonsharded, more are sharded.  The
\* tester starts TestUdf with an empty cache and a default CodeConfig.
Init ==
    /\ program \in {"server", "tester"}
    /\ startup = CASE program = "tester" -> "load_cache"
                   [] NumShards = 1      -> NonshardedInitializeUdfHooks
                   [] OTHER              -> ShardedInitializeUdfHooks
    /\ finished = 0
    /\ attempts = 0
    /\ replicasUp \in IF program = "server" THEN BOOLEAN ELSE {FALSE}
    /\ lookup = [h \in HookSet |-> FALSE]
    /\ calls = [w \in Workers |-> 0]
    /\ answers = {}
    /\ kvFile \in IF program = "tester" THEN Files(KVRecords \cup UdfRecords) ELSE {<< >>}
    /\ udfFile \in IF program = "tester" THEN Files(UdfFileRecords) ELSE {<< >>}
    /\ lost = {}
    /\ cache = EmptyCache
    /\ code_config = DefaultCodeConfig
    /\ client = "none"
    /\ reads = {}
    /\ exit_code = [exited |-> FALSE, code |-> 0]

-----------------------------------------------------------------------------
(* The start-up thread.                                                    *)

\* CreateShardManager: TraceRetryUntilOk calls ShardManager::Create on the
\* current cluster mappings; it fails while a shard has no replica, and is
\* retried after a backoff.
CreateShardManager ==
    /\ startup = "create_shard_manager"
    /\ \/ /\ replicasUp
          /\ startup' = "start_mappings_manager"
          /\ UNCHANGED attempts
       \/ /\ ~replicasUp /\ attempts < MaxAttempts
          /\ attempts' = attempts + 1
          /\ UNCHANGED startup
    /\ UNCHANGED << program, finished, replicasUp, lookup, calls, answers, testerVars >>

\* cluster_mappings_manager->Start(shard_manager): on failure the error is
\* returned before any hook is finished.
StartMappingsManager ==
    /\ startup = "start_mappings_manager"
    /\ startup' \in {"finish_init", "failed"}
    /\ UNCHANGED << program, finished, lookup, calls, serverVars, testerVars >>

\* The hook that the i-th FinishInit call finishes, with the second call
\* made on the string hook again.
HookFinishedAtCopyPaste(i) == IF i = 2 THEN Hooks[1] ELSE Hooks[i]

\* InitializeUdfHooksInternal: string, then binary, then runQuery.
HookFinishedAt(i) == Hooks[i]

\* One FinishInit(get_lookup()) call: lookup_ is set only if still null.
FinishInit ==
    /\ startup = "finish_init"
    /\ LET h == HookFinishedAt(finished + 1)
       IN  lookup' = [lookup EXCEPT ![h] = TRUE]
    /\ finished' = finished + 1
    /\ startup' = CASE finished + 1 < 3    -> "finish_init"
                    [] program = "server" -> "done"
                    [] OTHER              -> "create_udf_client"
    /\ UNCHANGED << program, calls, serverVars, testerVars >>

\* New replicas are spun up and the mappings become valid.
ReplicasSpinUp ==
    /\ program = "server" /\ ~replicasUp
    /\ replicasUp' = TRUE
    /\ UNCHANGED << program, startup, finished, attempts, lookup, calls, answers, testerVars >>

-----------------------------------------------------------------------------
(* A UDF on a Roma worker calling a getValues hook.                        *)

\* GetValuesHookImpl::operator(): not initialised is Internal, an input
\* that is not a list of strings is InvalidArgument, a failed lookup
\* returns its status, else the lookup's key/value pairs.
CallHook(w) ==
    /\ program = "server" /\ calls[w] < MaxCalls
    /\ calls' = [calls EXCEPT ![w] = @ + 1]
    /\ \E h \in GetValuesHooks, listInput \in BOOLEAN, lookupOk \in BOOLEAN :
         LET status == CASE ~lookup[h]   -> "Internal"
                          [] ~listInput  -> "InvalidArgument"
                          [] ~lookupOk   -> "LookupError"
                          [] OTHER       -> "OK"
         IN  answers' = answers \cup
                 {[hook |-> h, status |-> status, afterStartup |-> startup = "done"]}
    /\ UNCHANGED << program, startup, finished, attempts, replicasUp, lookup, testerVars >>

-----------------------------------------------------------------------------
(* The UDF delta file tester.                                              *)

\* Cache::UpdateKeyValue and Cache::DeleteKey, from the spec (the cache is
\* not in this tree): a mutation below the stored logical commit time is
\* dropped, and a Delete leaves a tombstone with its time.  An Update at the
\* time of a tombstone is dropped too: spec 8.1 keeps a key absent after a
\* Delete with greater-or-equal time (spec 3 only says lower times drop).
Tombstoned(c, k, lct) == lct = c[k].lct /\ c[k].value = NotFound
UpdateKeyValue(c, k, v, lct) ==
    IF lct < c[k].lct \/ Tombstoned(c, k, lct) THEN c
    ELSE [c EXCEPT ![k] = [lct |-> lct, value |-> v]]
DeleteKey(c, k, lct) ==
    IF lct < c[k].lct THEN c ELSE [c EXCEPT ![k] = [lct |-> lct, value |-> NotFound]]

\* An Update's string value updates the key, a Delete deletes it, and an
\* unknown mutation type returns InvalidArgument with the cache unchanged.
LoadCacheFromKVMutationRecord(c, r) ==
    CASE r.type = "Update" -> UpdateKeyValue(c, r.key, r.value, r.lct)
      [] r.type = "Delete" -> DeleteKey(c, r.key, r.lct)
      [] OTHER             -> c

\* The callback of LoadCacheFromFile: only KV mutation records are loaded.
LoadCallback(c, r) == IF r.kind = "kv" THEN LoadCacheFromKVMutationRecord(c, r) ELSE c
LoadFails(r) == r.kind = "kv" /\ r.type = "Unknown"

\* A reader that stops at the first record whose callback failed.
ReadStreamRecordsStopOnError(records, failing) ==
    LET n == SelectInSeq(records, LAMBDA r : r \in failing)
    IN  IF n = 0 THEN records ELSE SubSeq(records, 1, n - 1)

\* RiegeliStreamReader::ReadStreamRecords: the records whose callback runs.
\* The loop goes on over every record read: callback errors (the records
\* in failing) are only merged into a status that is logged, and the
\* reader's own status is returned.
ReadStreamRecords(records, failing) == records

\* The records read before the reader stops: all of them, or a prefix when
\* the stream fails (status not OK).
ReadOutcomes(file) ==
    {[read |-> n, ok |-> FALSE] : n \in 0..Len(file)} \cup {[read |-> Len(file), ok |-> TRUE]}

\* The records a recovering reader hands on from file: DeltaRecordStreamReader
\* reads with a recovery callback that logs a corrupted region and returns
\* true (as CreateReader does, riegeli_stream_io.h), so the records at the
\* skipped positions are dropped and reading goes on.
Recovered(file, skipped) ==
    LET keep == {i \in DOMAIN file : i \notin skipped}
        pos(j) == CHOOSE i \in keep : Cardinality({m \in keep : m <= i}) = j
    IN  [j \in 1..Cardinality(keep) |-> file[pos(j)]]

\* UdfClientImpl::Stop: RomaStop() shuts Roma's workers down.
UdfClientStop == "stopped"

\* ShutdownUdf: udf_client.Stop(); a failed stop is only logged.
ShutdownUdf == client' = UdfClientStop

\* LoadCacheFromFile and the PS_RETURN_IF_ERROR after it.
LoadCacheFromFile ==
    /\ startup = "load_cache"
    /\ \E o \in ReadOutcomes(kvFile), skipped \in SUBSET DOMAIN kvFile :
         /\ skipped \subseteq 1..o.read
         /\ LET read == Recovered(SubSeq(kvFile, 1, o.read), skipped)
            IN  cache' = FoldLeft(LoadCallback, cache,
                                  ReadStreamRecords(read, {r \in Range(read) : LoadFails(r)}))
         /\ lost' = skipped
         /\ startup' = IF o.ok THEN "read_code_config" ELSE "failed"
    /\ UNCHANGED << program, finished, lookup, calls, serverVars,
                    kvFile, udfFile, code_config, client, reads, exit_code >>

\* ReadCodeConfigFromUdfConfig: the code config takes the record's fields.
ReadCodeConfigFromUdfConfig(cc, r) == IF r.kind = "udf" THEN r ELSE cc
CodeFails(r) == r.kind # "udf"

\* ReadCodeConfigFromFile: a UDF record sets the code config, any other
\* record returns InvalidArgument("Invalid record type.") to the reader.
ReadCodeConfigFromFile ==
    /\ startup = "read_code_config"
    /\ \E o \in ReadOutcomes(udfFile), skipped \in SUBSET DOMAIN udfFile :
         /\ skipped \subseteq 1..o.read
         /\ LET read == Recovered(SubSeq(udfFile, 1, o.read), skipped)
            IN  code_config' = FoldLeft(ReadCodeConfigFromUdfConfig, code_config,
                                        ReadStreamRecords(read, {r \in Range(read) : CodeFails(r)}))
         /\ startup' = IF o.ok THEN "finish_init" ELSE "failed"
    /\ UNCHANGED << program, finished, lookup, calls, serverVars,
                    kvFile, udfFile, lost, cache, client, reads, exit_code >>

\* UdfClient::Create: the client exists only if RomaInit succeeded.
UdfClientCreate(romaInitOk) == IF romaInitOk THEN "live" ELSE "none"

\* TestUdf's UdfClient::Create call; its error is returned.
CreateUdfClient ==
    /\ startup = "create_udf_client"
    /\ \E romaInitOk \in BOOLEAN :
         /\ client' = UdfClientCreate(romaInitOk)
         /\ startup' = IF romaInitOk THEN "set_code_object" ELSE "failed"
    /\ UNCHANGED << program, finished, lookup, calls, serverVars,
                    kvFile, udfFile, lost, cache, code_config, reads, exit_code >>

\* A failed SetCodeObject returned without shutting the client down.
SetCodeObjectNoShutdown ==
    /\ startup = "set_code_object"
    /\ \/ startup' = "failed"
       \/ startup' = "execute"
    /\ UNCHANGED << program, finished, lookup, calls, serverVars, testerVars >>

\* SetCodeObject(code_config) (its load and timeout are detailed in
\* UdfClient): on failure the client is shut down and the error returned.
SetCodeObject ==
    /\ startup = "set_code_object"
    /\ \/ startup' = "failed" /\ ShutdownUdf
       \/ startup' = "execute" /\ UNCHANGED client
    /\ UNCHANGED << program, finished, lookup, calls, serverVars,
                    kvFile, udfFile, lost, cache, code_config, reads, exit_code >>

\* SetNumberOfWorkers(1): the tester's Roma has one worker.
TesterWorker == CHOOSE w \in Workers : TRUE

\* The tested UDF, on the client's single worker, calls getValues or
\* getValuesBinary on a key: the hook's local lookup reads the cache.
TesterCallHook(w) ==
    /\ program = "tester" /\ startup = "execute" /\ w = TesterWorker /\ calls[w] < MaxCalls
    /\ calls' = [calls EXCEPT ![w] = @ + 1]
    /\ \E h \in GetValuesHooks, listInput \in BOOLEAN, k \in Keys :
         LET status == CASE ~lookup[h]  -> "Internal"
                         [] ~listInput -> "InvalidArgument"
                         [] OTHER      -> "OK"
         IN  reads' = reads \cup {[key |-> k, status |-> status, value |-> cache[k].value]}
    /\ UNCHANGED << program, startup, finished, lookup, serverVars,
                    kvFile, udfFile, lost, cache, code_config, client, exit_code >>

\* ExecuteCode returns the UDF's result or an error (a failed execution,
\* a timeout); either way ShutdownUdf runs before TestUdf returns.
ExecuteCode ==
    /\ startup = "execute"
    /\ startup' \in {"done", "failed"}
    /\ ShutdownUdf
    /\ UNCHANGED << program, finished, lookup, calls, serverVars,
                    kvFile, udfFile, lost, cache, code_config, reads, exit_code >>

\* main: TestUdf's status becomes the exit code, 0 or -1.
Main ==
    /\ program = "tester" /\ startup \in {"done", "failed"} /\ ~exit_code.exited
    /\ exit_code' = [exited |-> TRUE, code |-> IF startup = "done" THEN 0 ELSE -1]
    /\ UNCHANGED << program, startup, finished, lookup, calls, serverVars,
                    kvFile, udfFile, lost, cache, code_config, client, reads >>

-----------------------------------------------------------------------------

Terminated ==
    /\ startup \in {"done", "failed"}
    /\ program = "server" => \A w \in Workers : calls[w] = MaxCalls
    /\ program = "tester" => exit_code.exited
    /\ UNCHANGED vars

Next ==
    \/ CreateShardManager \/ StartMappingsManager \/ FinishInit
    \/ ReplicasSpinUp
    \/ \E w \in Workers : CallHook(w)
    \/ LoadCacheFromFile \/ ReadCodeConfigFromFile \/ CreateUdfClient
    \/ SetCodeObject \/ ExecuteCode \/ Main
    \/ \E w \in Workers : TesterCallHook(w)
    \/ Terminated

\* No fairness: the properties checked here are safety properties.  Start-up
\* need not return, since TraceRetryUntilOk retries for as long as the
\* cluster mappings leave a shard without replicas.
Spec == Init /\ [][Next]_vars

-----------------------------------------------------------------------------

\* Once InitializeUdfHooks has returned OK, no getValues or getValuesBinary
\* call answers "getValues has not been initialized yet": the start-up
\* sequence finished every hook the UDFs can call.
HooksReadyAfterStartup ==
    \A a \in answers : a.afterStartup => a.status # "Internal"

\* What spec 8.1 says a key holds after a set of writes, whatever their
\* order: the value of the Update of greatest logical commit time (any of
\* them when several share it), unless a Delete with a greater or equal time
\* was applied, in which case the key is absent.
FileValues(f, k) ==
    LET writes  == {f[i] : i \in DOMAIN f}
        updates == {r \in writes : r.kind = "kv" /\ r.key = k /\ r.type = "Update"}
        deletes == {r \in writes : r.kind = "kv" /\ r.key = k /\ r.type = "Delete"}
    IN  IF updates = {} THEN {NotFound}
        ELSE LET top == Max({u.lct : u \in updates})
             IN  IF \E d \in deletes : d.lct >= top THEN {NotFound}
                 ELSE {u.value : u \in {x \in updates : x.lct = top}}

\* Every getValues call of the tested UDF answers what spec 8.1 says the
\* key holds after the KV delta file's records that the reader handed on
\* (all but the ones it skipped as corrupted): a record with an unknown
\* mutation type fails its callback, and the records after it must still
\* reach the cache; a Delete screens an Update of the same time whichever
\* comes first in the file.
LookupsMatchFile ==
    \A r \in reads :
        /\ r.status # "Internal"
        /\ r.status = "OK" => r.value \in FileValues(Recovered(kvFile, lost), r.key)

\* When the tester's main exits, the UDF client is not left running: every
\* way out of TestUdf after UdfClient::Create succeeded (a failed
\* SetCodeObject, a failed ExecuteCode, success) shut it down.
UdfStoppedOnEveryExit == exit_code.exited => client # "live"
=============================================================================
