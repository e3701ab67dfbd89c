----------------------------- MODULE GetValuesV1 -----------------------------
(***************************************************************************)
(* The two ways GetValuesHandler answers a V1 GetValues request            *)
(* (request_handler/get_values_handler.h, second file, and                 *)
(* get_values_adapter.cc):                                                 *)
(*                                                                         *)
(*  - directly, when use_v2_ is off: every namespace field of the request  *)
(*    is split on the query delimiter and looked up in the cache;          *)
(*  - through the V2 adapter, when use_v2_ is on: the request becomes one  *)
(*    partition with one ["custom", <namespace>] argument per non-empty    *)
(*    field, the V2 handler runs the UDF on it, and the UDF's key groups   *)
(*    are converted back into the V1 fields.                              *)
(*                                                                         *)
(* Everything here is a pure operator over one request.  A key string is a *)
(* sequence of atoms: <<a>> is "a", <<a, b>> is "a,b".  A cache value is   *)
(* [text, json], json telling whether the text parses as JSON.  The V2     *)
(* handler and the UDF live outside this source tree; they are modelled    *)
(* from the spec (one partition, a lookup UDF echoing each argument's      *)
(* tags).                                                                  *)
(***************************************************************************)
EXTENDS Integers, Sequences, SequencesExt, FiniteSets

CONSTANTS
    KeyStrings,     \* the key strings a request may carry
    CacheValues,    \* the values the cache may hold: [text, json]
    ExtraGroups,    \* key groups a UDF may emit besides its answers
    Missing,        \* no cache entry
    Absent          \* a response field that was never set

\* The V1 request/response fields, in the order BuildV2Request visits them.
Fields == << "keys", "render_urls", "ad_component_render_urls", "kv_internal" >>
FieldSet == Range(Fields)

\* kKeysTag, kRenderUrlsTag, kAdComponentRenderUrlsTag, kKvInternalTag.
FieldTag == [f \in FieldSet |->
               CASE f = "keys"                     -> "keys"
                 [] f = "render_urls"              -> "renderUrls"
                 [] f = "ad_component_render_urls" -> "adComponentRenderUrls"
                 [] f = "kv_internal"              -> "kvInternal"]
kCustomTag == "custom"

\* Every individual key any request can name, and every raw key string.
CacheKeys == KeyStrings \cup UNION {{<<s[i]>> : i \in DOMAIN s} : s \in KeyStrings}

\* google.protobuf.Value: a string value, or the value parsed from JSON.
StringValue(v) == [kind |-> "string", value |-> v]
ParsedValue(v) == [kind |-> "parsed", value |-> v]

EmptyStruct == [k \in {} |-> Missing]

\* Cache::GetKeyValuePairs: the entries present for the given keys.
GetKeyValuePairs(cache, keys) ==
    [k \in {x \in keys : cache[x] # Missing} |-> cache[k]]

-----------------------------------------------------------------------------
(* The direct path.                                                        *)

\* absl::StrSplit(key, kQueryArgDelimiter): the individual keys.
StrSplit(s) == {<<s[i]>> : i \in DOMAIN s}

\* GetKeys: every key split on the delimiter, into one set.
GetKeys(keys) == UNION {StrSplit(keys[i]) : i \in DOMAIN keys}

\* ProcessKeys: look the keys up; a value that parses as JSON is returned
\* parsed, any other as a plain string.
ProcessKeys(keys, cache) ==
    LET kv == GetKeyValuePairs(cache, GetKeys(keys))
    IN  [k \in DOMAIN kv |->
            IF kv[k].json THEN ParsedValue(kv[k]) ELSE StringValue(kv[k])]

\* GetValuesHandler::GetValues without use_v2_: a field of the response is
\* set only if the request's field is non-empty.
GetValues(request, cache) ==
    [f \in FieldSet |->
        IF request[f] = << >> THEN Absent ELSE ProcessKeys(request[f], cache)]

-----------------------------------------------------------------------------
(* The V2 adapter path.                                                    *)

\* An argument tagged with the namespace alone.
BuildArgumentNoCustom(keys, namespace_tag) ==
    [tags |-> << namespace_tag >>, data |-> keys]

\* BuildArgument: tags ["custom", namespace], data the keys as given.
BuildArgument(keys, namespace_tag) ==
    [tags |-> << kCustomTag, namespace_tag >>, data |-> keys]

\* BuildV2Request: one partition, one argument per non-empty field.
BuildV2Request(request) ==
    LET used == SelectSeq(Fields, LAMBDA f : request[f] # << >>)
    IN  [partitions |->
           << [arguments |-> [i \in DOMAIN used |->
                                BuildArgument(request[used[i]], FieldTag[used[i]])]] >>]

\* UdfClientImpl::ExecuteCode(metadata, arguments): the UDF gets each
\* argument as JSON, the whole UDFArgument if it has tags, else its data
\* alone.
UdfInput(arguments) ==
    [i \in DOMAIN arguments |->
        IF arguments[i].tags = << >> THEN [data |-> arguments[i].data]
        ELSE arguments[i]]

\* The UDF run by the V2 handler: for each input, a key group with the
\* input's tags (none if it came without) holding the cache entries of its
\* keys as strings, then any other groups it chooses to emit.
Udf(partition, cache, extra) ==
    LET in == UdfInput(partition.arguments)
        Tags(a) == IF "tags" \in DOMAIN a THEN a.tags ELSE << >>
        KeyValues(a) == LET kv == GetKeyValuePairs(cache, Range(a.data))
                        IN  [k \in DOMAIN kv |-> [value |-> StringValue(kv[k])]]
    IN  [i \in DOMAIN in |-> [tags |-> Tags(in[i]),
                              key_values |-> KeyValues(in[i])]] \o extra

\* GetValuesV2Handler::GetValues for a V1 request: the single partition
\* carries the UDF's output, or its status when the UDF failed.
V2GetValues(v2_request, cache, udfOk, extra) ==
    [single_partition |->
        IF udfOk THEN [string_output |-> Udf(v2_request.partitions[1], cache, extra)]
        ELSE [status |-> 13]]

\* FindNamespace: exactly two tags, one of them "custom"; the namespace is
\* the last tag that is not "custom" ("" if both are).
FindNamespace(tags) ==
    LET others == SelectSeq(tags, LAMBDA t : t # kCustomTag)
    IN  IF Len(tags) # 2 \/ Len(others) = 2
        THEN [ok |-> FALSE, ns |-> ""]
        ELSE [ok |-> TRUE, ns |-> IF others = << >> THEN "" ELSE Last(others)]

\* ProcessKeyValues with only the parsed value kept when the string parses.
ProcessKeyValuesParsedWins(key_group_output, result_struct) ==
    LET kv == key_group_output.key_values
        Final(k) == IF kv[k].value.kind = "string" /\ kv[k].value.value.json
                    THEN ParsedValue(kv[k].value.value) ELSE kv[k].value
    IN  [k \in DOMAIN result_struct \cup DOMAIN kv |->
            IF k \in DOMAIN kv THEN Final(k) ELSE result_struct[k]]

\* ProcessKeyValues: a string value that parses as JSON is stored parsed,
\* and then overwritten unconditionally by the value as received.
ProcessKeyValues(key_group_output, result_struct) ==
    LET kv == key_group_output.key_values
    IN  [k \in DOMAIN result_struct \cup DOMAIN kv |->
            IF k \in DOMAIN kv THEN kv[k].value ELSE result_struct[k]]

\* ProcessKeyGroupOutput: a group without a valid namespace is ignored; a
\* known namespace is merged into its field.
ProcessKeyGroupOutput(key_group_output, v1_response) ==
    LET ns == FindNamespace(key_group_output.tags)
        target == {f \in FieldSet : FieldTag[f] = ns.ns}
    IN  IF ~ns.ok \/ target = {} THEN v1_response
        ELSE LET f == CHOOSE x \in target : TRUE
                 old == IF v1_response[f] = Absent THEN EmptyStruct ELSE v1_response[f]
             IN  [v1_response EXCEPT ![f] = ProcessKeyValues(key_group_output, old)]

NoResponse == [f \in FieldSet |-> Absent]

\* ConvertToV1Response: a missing single_partition is Internal (13), a
\* partition status is returned as is, else the key groups are merged in
\* order.
ConvertToV1Response(v2_response) ==
    CASE "single_partition" \notin DOMAIN v2_response ->
            [status |-> 13, response |-> NoResponse]
      [] "status" \in DOMAIN v2_response.single_partition ->
            [status |-> v2_response.single_partition.status, response |-> NoResponse]
      [] OTHER ->
            [status |-> 0,
             response |-> FoldLeft(LAMBDA resp, g : ProcessKeyGroupOutput(g, resp),
                                   NoResponse,
                                   v2_response.single_partition.string_output)]

\* GetValuesAdapterImpl::CallV2Handler.
CallV2Handler(request, cache, udfOk, extra) ==
    ConvertToV1Response(V2GetValues(BuildV2Request(request), cache, udfOk, extra))

-----------------------------------------------------------------------------
(* One request, with the cache and the UDF's behaviour, per initial state. *)

VARIABLES request, cache, udfOk, extra

vars == << request, cache, udfOk, extra >>

Requests == {<< >>} \cup {<< k >> : k \in KeyStrings}

Init ==
    /\ request \in [FieldSet -> Requests]
    /\ cache \in [CacheKeys -> CacheValues \cup {Missing}]
    /\ udfOk \in BOOLEAN
    /\ extra \in {<< >>} \cup {<< g >> : g \in ExtraGroups}

Next == UNCHANGED vars

Spec == Init /\ [][Next]_vars

\* The direct response with every value as the raw string the cache holds,
\* which is what the adapter's overwrite in ProcessKeyValues produces.
RawForm(response) ==
    [f \in FieldSet |->
        IF response[f] = Absent THEN Absent
        ELSE [k \in DOMAIN response[f] |-> StringValue(response[f][k].value)]]

\* Turning use_v2 on does not change what a V1 client gets back: when the
\* UDF succeeds, the adapter returns OK with the same fields and keys as the
\* direct GetValues, values as raw strings (the documented overwrite); when
\* it fails, its status.
ModesAgree ==
    LET viaV2 == CallV2Handler(request, cache, udfOk, extra)
    IN  IF udfOk
        THEN viaV2.status = 0 /\ viaV2.response = RawForm(GetValues(request, cache))
        ELSE viaV2.status = 13
=============================================================================
