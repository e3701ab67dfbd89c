---------------------------- MODULE ParameterClient ----------------------------
(***************************************************************************)
(* GcpParameterClient (src/unnamed/part_004): GetParameter hands the SDK   *)
(* an asynchronous request whose callback captures the caller's stack      *)
(* variables param_value and counter by reference, then blocks on the      *)
(* BlockingCounter until the callback has run, and only then looks at the *)
(* synchronous execution result.  GetInt32Parameter and GetBoolParameter  *)
(* convert the string with SimpleAtoi / SimpleAtob.                        *)
(*                                                                         *)
(* One caller thread makes a bounded number of calls; the SDK runs each    *)
(* callback on its own thread, later.  The SDK may reject a request        *)
(* synchronously; it may report a failure through the callback; and it     *)
(* always calls the callback once (see the README on this assumption).    *)
(***************************************************************************)
EXTENDS Integers, FiniteSets

CONSTANTS
    ParamStrings,   \* strings the parameter store may hold
    MaxCalls        \* calls made by the caller thread

ASSUME MaxCalls \in Nat

Kinds == {"string", "int32", "bool"}

\* absl::SimpleAtoi into int32_t: a decimal numeral within the int32 range.
\* Each numeral's value, flagged when it is past 2^31-1 (beyond TLC's
\* integers, so kept as the largest one).
Decimals == [s \in {"0", "1", "2147483647", "2147483648"} |->
               CASE s = "0" -> [fits |-> TRUE, value |-> 0]
                 [] s = "1" -> [fits |-> TRUE, value |-> 1]
                 [] s = "2147483647" -> [fits |-> TRUE, value |-> 2147483647]
                 [] s = "2147483648" -> [fits |-> FALSE, value |-> 2147483647]]
SimpleAtoi(s) ==
    IF s \in DOMAIN Decimals /\ Decimals[s].fits
    THEN [ok |-> TRUE, value |-> Decimals[s].value] ELSE [ok |-> FALSE, value |-> 0]

\* absl::SimpleAtob: true/t/yes/y/1 and false/f/no/n/0 (lower case here).
SimpleAtob(s) ==
    CASE s \in {"true", "t", "yes", "y", "1"} -> [ok |-> TRUE, value |-> TRUE]
      [] s \in {"false", "f", "no", "n", "0"} -> [ok |-> TRUE, value |-> FALSE]
      [] OTHER -> [ok |-> FALSE, value |-> FALSE]

VARIABLES
    caller,       \* [pc, kind, call, execOk]: the calling thread
    param_value,  \* the caller's stack variable written by the callback
    counter,      \* the caller's BlockingCounter
    callbacks,    \* callbacks the SDK still has to run: [call, ok, value]
    dangling,     \* history: a callback ran after its call's frame was gone
    ret           \* what the last call returned: [status, kind, value]

vars == << caller, param_value, counter, callbacks, dangling, ret >>

Init ==
    /\ caller = [pc |-> "idle", kind |-> "string", call |-> 0, execOk |-> TRUE]
    /\ param_value = ""
    /\ counter = 0
    /\ callbacks = {}
    /\ dangling = FALSE
    /\ ret = [status |-> "none", kind |-> "string", value |-> ""]

\* GetParameter (or a typed getter calling it) up to counter.Wait():
\* parameter_client_->GetParameter accepts or rejects the request, and the
\* SDK will call the callback with its own result.
GetParameter(kind) ==
    /\ caller.pc = "idle" /\ caller.call < MaxCalls
    /\ \E execOk \in BOOLEAN, cbOk \in BOOLEAN, stored \in ParamStrings :
         /\ caller' = [pc |-> "wait", kind |-> kind, call |-> caller.call + 1,
                       execOk |-> execOk]
         /\ callbacks' = callbacks \cup
               {[call |-> caller.call + 1, ok |-> execOk /\ cbOk, value |-> stored]}
    /\ param_value' = ""
    /\ counter' = 1
    /\ UNCHANGED << dangling, ret >>

\* Whether a callback's call is still blocked in GetParameter.
FrameLive(cb) == caller.pc = "wait" /\ caller.call = cb.call

\* The value the callback stores: GCP secret manager cannot hold "", so
\* "EMPTY_STRING" stands for it.
StoredValue(v) == IF v # "EMPTY_STRING" THEN v ELSE ""

\* The lambda: a failure is only logged; on success param_value is set;
\* then counter.DecrementCount().  Both write the caller's stack, which is
\* gone if the call has already returned.
Callback(cb) ==
    IF ~FrameLive(cb) THEN dangling' = TRUE /\ UNCHANGED << param_value, counter >>
    ELSE /\ param_value' = IF cb.ok THEN StoredValue(cb.value) ELSE param_value
         /\ counter' = 0
         /\ UNCHANGED dangling

SdkCallback ==
    \E cb \in callbacks :
        /\ Callback(cb)
        /\ callbacks' = callbacks \ {cb}
        /\ UNCHANGED << caller, ret >>

\* The typed getters' conversion of an OK string.
Convert(kind, s) ==
    CASE kind = "string" -> [status |-> "OK", kind |-> kind, value |-> s]
      [] kind = "int32"  -> LET r == SimpleAtoi(s) IN
                            [status |-> IF r.ok THEN "OK" ELSE "InvalidArgument",
                             kind |-> kind, value |-> r.value]
      [] kind = "bool"   -> LET r == SimpleAtob(s) IN
                            [status |-> IF r.ok THEN "OK" ELSE "InvalidArgument",
                             kind |-> kind, value |-> r.value]

\* The result checked before counter.Wait(): a rejected request returns
\* Unavailable at once.
AwaitResultCheckFirst ==
    /\ caller.pc = "wait"
    /\ (~caller.execOk \/ counter = 0)
    /\ ret' = IF ~caller.execOk
              THEN [status |-> "Unavailable", kind |-> caller.kind, value |-> ""]
              ELSE Convert(caller.kind, param_value)
    /\ caller' = [caller EXCEPT !.pc = "idle"]
    /\ UNCHANGED << param_value, counter, callbacks, dangling >>

\* counter.Wait() returns; a rejected request is Unavailable, else the
\* string (converted by GetInt32Parameter / GetBoolParameter) is returned.
AwaitResult ==
    /\ caller.pc = "wait"
    /\ counter = 0
    /\ ret' = IF ~caller.execOk
              THEN [status |-> "Unavailable", kind |-> caller.kind, value |-> ""]
              ELSE Convert(caller.kind, param_value)
    /\ caller' = [caller EXCEPT !.pc = "idle"]
    /\ UNCHANGED << param_value, counter, callbacks, dangling >>

Terminated ==
    /\ caller.pc = "idle" /\ caller.call = MaxCalls /\ callbacks = {}
    /\ UNCHANGED vars

Next ==
    \/ \E k \in Kinds : GetParameter(k)
    \/ SdkCallback \/ AwaitResult
    \/ Terminated

\* No fairness: whether GetParameter returns rests on the SDK calling back
\* for every request, which this tree cannot show; only safety is checked.
Spec == Init /\ [][Next]_vars

-----------------------------------------------------------------------------

\* No callback writes param_value or counter after GetParameter returned:
\* the captured stack references are dead by then, so the wait must cover
\* every callback the SDK will make, rejected requests included.
NoCallbackAfterReturn == ~dangling
=============================================================================
