------------------------------ MODULE UdfClient ------------------------------
(***************************************************************************)
(* UdfClientImpl (components/udf/udf_client.cc, the third file in          *)
(* src/components/udf/noop_udf_client.cc): SetCodeObject and ExecuteCode   *)
(* against the Roma sandbox.                                               *)
(*                                                                         *)
(* One loader thread calls SetCodeObject with code configs from delta      *)
(* files; request threads call ExecuteCode concurrently.  Both hand a      *)
(* request to Roma with a callback that fills a per-call shared status,    *)
(* result and absl::Notification, then wait on the notification with a    *)
(* timeout.  Roma serves its queue with a worker pool, in any order, and   *)
(* may never answer (a UDF that hangs); a request whose waiter timed out   *)
(* is not cancelled.  Roma keeps one code object per version_num and runs  *)
(* an invocation with the code of its version_num.                         *)
(*                                                                         *)
(* handler_name_, logical_commit_time_ and version_ are plain members:     *)
(* SetCodeObject writes them one after the other and ExecuteCode reads     *)
(* them with no lock, so a reader may see any prefix of the writes.        *)
(***************************************************************************)
EXTENDS Integers, FiniteSets

CONSTANTS
    Codes,          \* code configs: [id, lct, version, handler]
    Requesters,     \* threads calling ExecuteCode
    MaxLoads,       \* SetCodeObject calls by the loader
    MaxExecs,       \* ExecuteCode calls per request thread
    NoCode, NoHandler, NoOutput

ASSUME MaxLoads \in Nat /\ MaxExecs \in Nat

\* int64_t version_ = 1; int64_t logical_commit_time_ = -1;
InitVersion == 1
InitLct == -1

Versions == {c.version : c \in Codes} \cup {InitVersion}
Handlers == {c.handler : c \in Codes} \cup {NoHandler}

VARIABLES
    client,     \* [handler, lct, version]: the members of UdfClientImpl
    loader,     \* the loader thread inside SetCodeObject
    req,        \* each request thread inside ExecuteCode
    pending,    \* requests queued in Roma
    roma,       \* Roma's code object per version_num
    loads,      \* SetCodeObject calls made
    execs,      \* ExecuteCode calls made per thread
    okLoads,    \* history: code configs whose SetCodeObject returned OK
    ret         \* history: what each thread's last ExecuteCode returned

vars == << client, loader, req, pending, roma, loads, execs, okLoads, ret >>

\* BuildCodeObject(js, wasm, version): the code object handed to Roma.
\* The js and handler are abstracted to the config's id and handler name.
BuildCodeObjectFixedVersion(code) ==
    [id |-> code.id, version |-> InitVersion, handler |-> code.handler]

BuildCodeObject(code) ==
    [id |-> code.id, version |-> code.version, handler |-> code.handler]

\* BuildInvocationRequest: version_num and handler_name read from members.
BuildInvocationRequest(r, seq) ==
    [kind |-> "exec", r |-> r, seq |-> seq,
     version |-> client.version, handler |-> client.handler]

\* The output of one invocation: which code ran it, for which call.
Output(codeId, r, seq) == [code |-> codeId, r |-> r, seq |-> seq]

Init ==
    /\ client = [handler |-> NoHandler, lct |-> InitLct, version |-> InitVersion]
    /\ loader = [pc |-> "idle", code |-> NoCode, seq |-> 0,
                 notified |-> FALSE, ok |-> TRUE]
    /\ req = [r \in Requesters |-> [pc |-> "idle", seq |-> 0, notified |-> FALSE,
                                    ok |-> TRUE, result |-> NoOutput]]
    /\ pending = {}
    /\ roma = [v \in Versions |-> NoCode]
    /\ loads = 0
    /\ execs = [r \in Requesters |-> 0]
    /\ okLoads = {}
    /\ ret = [r \in Requesters |-> [status |-> "none", result |-> NoOutput, seq |-> 0]]

-----------------------------------------------------------------------------
(* SetCodeObject, on the loader thread.                                    *)

\* A SetCodeObject without the logical_commit_time gate.
SetCodeObjectNoGate(c) ==
    /\ loader.pc = "idle"
    /\ loads < MaxLoads
    /\ loads' = loads + 1
    /\ pending' = pending \cup
          {[kind |-> "load", seq |-> loads + 1, code |-> BuildCodeObject(c)]}
    /\ loader' = [pc |-> "wait", code |-> c, seq |-> loads + 1,
                  notified |-> FALSE, ok |-> TRUE]
    /\ UNCHANGED << client, req, roma, execs, okLoads, ret >>

\* The logical_commit_time gate, then LoadCodeObj: it may fail at once or
\* queue the load, after which the thread waits for the notification.
SetCodeObject(c) ==
    /\ loader.pc = "idle"
    /\ loads < MaxLoads
    /\ loads' = loads + 1
    /\ \/ /\ client.lct >= c.lct
          /\ UNCHANGED << loader, pending >>
       \/ /\ client.lct < c.lct
          /\ UNCHANGED << loader, pending >>
       \/ /\ client.lct < c.lct
          /\ pending' = pending \cup
                {[kind |-> "load", seq |-> loads + 1, code |-> BuildCodeObject(c)]}
          /\ loader' = [pc |-> "wait", code |-> c, seq |-> loads + 1,
                        notified |-> FALSE, ok |-> TRUE]
    /\ UNCHANGED << client, req, roma, execs, okLoads, ret >>

\* SetWasmCodeObject: SetCodeObject on the same config, its status returned.
SetWasmCodeObject(c) == SetCodeObject(c)

\* WaitForNotificationWithTimeout(kCodeUpdateTimeout) and the checks after
\* it: timed out, Roma's error, or on to the member updates.
AwaitLoad ==
    /\ loader.pc = "wait"
    /\ loader' = [loader EXCEPT !.pc =
                    IF loader.notified /\ loader.ok THEN "set_handler" ELSE "idle"]
    /\ UNCHANGED << client, req, pending, roma, loads, execs, okLoads, ret >>

\* handler_name_ assigned from the wrong field of the code config.
SetHandlerNameFromJs ==
    /\ loader.pc = "set_handler"
    /\ client' = [client EXCEPT !.handler = loader.code.id]
    /\ loader' = [loader EXCEPT !.pc = "set_lct"]
    /\ UNCHANGED << req, pending, roma, loads, execs, okLoads, ret >>

\* handler_name_ = ...; logical_commit_time_ = ...; version_ = ...;
SetHandlerName ==
    /\ loader.pc = "set_handler"
    /\ client' = [client EXCEPT !.handler = loader.code.handler]
    /\ loader' = [loader EXCEPT !.pc = "set_lct"]
    /\ UNCHANGED << req, pending, roma, loads, execs, okLoads, ret >>

SetLogicalCommitTime ==
    /\ loader.pc = "set_lct"
    /\ client' = [client EXCEPT !.lct = loader.code.lct]
    /\ loader' = [loader EXCEPT !.pc = "set_version"]
    /\ UNCHANGED << req, pending, roma, loads, execs, okLoads, ret >>

SetVersion ==
    /\ loader.pc = "set_version"
    /\ client' = [client EXCEPT !.version = loader.code.version]
    /\ loader' = [loader EXCEPT !.pc = "idle"]
    /\ okLoads' = okLoads \cup {loader.code}
    /\ UNCHANGED << req, pending, roma, loads, execs, ret >>

-----------------------------------------------------------------------------
(* ExecuteCode, on a request thread.                                       *)

\* BuildInvocationRequest and Execute: Execute may fail at once or queue
\* the invocation, after which the thread waits for the notification.
ExecuteCode(r) ==
    /\ req[r].pc = "idle"
    /\ execs[r] < MaxExecs
    /\ execs' = [execs EXCEPT ![r] = @ + 1]
    /\ \/ /\ ret' = [ret EXCEPT ![r] = [status |-> "Error", result |-> NoOutput,
                                        seq |-> execs[r] + 1]]
          /\ UNCHANGED << req, pending >>
       \/ /\ pending' = pending \cup {BuildInvocationRequest(r, execs[r] + 1)}
          /\ req' = [req EXCEPT ![r] = [pc |-> "wait", seq |-> execs[r] + 1,
                        notified |-> FALSE, ok |-> TRUE, result |-> NoOutput]]
          /\ UNCHANGED ret
    /\ UNCHANGED << client, loader, roma, loads, okLoads >>

\* WaitForNotificationWithTimeout(udf_timeout_), then: not notified is
\* Internal("Timed out waiting for UDF result."), a failed response_status
\* is returned, else *result.
AwaitExecution(r) ==
    /\ req[r].pc = "wait"
    /\ req' = [req EXCEPT ![r].pc = "idle"]
    /\ ret' = [ret EXCEPT ![r] =
                 [status |-> CASE ~req[r].notified -> "Timeout"
                               [] ~req[r].ok       -> "Error"
                               [] OTHER            -> "OK",
                  result |-> req[r].result, seq |-> req[r].seq]]
    /\ UNCHANGED << client, loader, pending, roma, loads, execs, okLoads >>

-----------------------------------------------------------------------------
(* Roma completing a queued request and running its callback.  Each call   *)
(* has its own shared status/result/notification, so a callback for a     *)
(* call whose waiter has timed out and moved on reaches nobody.            *)

\* LoadCodeObj's callback: Update(status) on failure, then Notify().
RomaLoad(p) ==
    /\ p \in pending /\ p.kind = "load"
    /\ pending' = pending \ {p}
    /\ \E ok \in BOOLEAN :
         /\ roma' = IF ok THEN [roma EXCEPT ![p.code.version] = p.code] ELSE roma
         /\ loader' = IF loader.pc = "wait" /\ loader.seq = p.seq
                      THEN [loader EXCEPT !.notified = TRUE, !.ok = ok]
                      ELSE loader
    /\ UNCHANGED << client, req, loads, execs, okLoads, ret >>

\* Execute's callback: *result = resp on success, else Update(status);
\* then Notify().  The invocation runs the code Roma holds for its
\* version_num, and fails if there is none or it lacks the handler (or the
\* UDF itself fails).
RomaExecute(p) ==
    /\ p \in pending /\ p.kind = "exec"
    /\ pending' = pending \ {p}
    /\ LET code == roma[p.version]
           ran  == code # NoCode /\ code.handler = p.handler
       IN  \E ok \in IF ran THEN BOOLEAN ELSE {FALSE} :
             req' = IF req[p.r].pc = "wait" /\ req[p.r].seq = p.seq
                    THEN [req EXCEPT ![p.r].notified = TRUE, ![p.r].ok = ok,
                            ![p.r].result = IF ok THEN Output(code.id, p.r, p.seq)
                                            ELSE NoOutput]
                    ELSE req
    /\ UNCHANGED << client, loader, roma, loads, execs, okLoads, ret >>

-----------------------------------------------------------------------------

\* Every thread has made its calls and Roma has nothing left to do.
Quiescent ==
    /\ loads = MaxLoads /\ loader.pc = "idle"
    /\ \A r \in Requesters : execs[r] = MaxExecs /\ req[r].pc = "idle"
    /\ pending = {}
    /\ UNCHANGED vars

Next ==
    \/ \E c \in Codes : SetCodeObject(c) \/ SetWasmCodeObject(c)
    \/ AwaitLoad \/ SetHandlerName \/ SetLogicalCommitTime \/ SetVersion
    \/ \E r \in Requesters : ExecuteCode(r) \/ AwaitExecution(r)
    \/ \E p \in pending : RomaLoad(p) \/ RomaExecute(p)
    \/ Quiescent

\* No fairness: every property checked here is a safety property.
Spec == Init /\ [][Next]_vars

-----------------------------------------------------------------------------

CodeObjects == {BuildCodeObject(c) : c \in Codes}
Outputs == [code : {c.id : c \in Codes}, r : Requesters, seq : 1..MaxExecs]

TypeOK ==
    /\ client \in [handler : Handlers, lct : {InitLct} \cup {c.lct : c \in Codes},
                   version : Versions]
    /\ loader.pc \in {"idle", "wait", "set_handler", "set_lct", "set_version"}
    /\ loader.code \in Codes \cup {NoCode}
    /\ \A r \in Requesters :
          /\ req[r].pc \in {"idle", "wait"}
          /\ req[r].result \in Outputs \cup {NoOutput}
          /\ ret[r].status \in {"none", "OK", "Error", "Timeout"}
    /\ \A p \in pending : p.kind \in {"load", "exec"}
    /\ roma \in [Versions -> CodeObjects \cup {NoCode}]
    /\ okLoads \subseteq Codes

\* The config with the greatest logical_commit_time among those whose
\* SetCodeObject returned OK.
Newest(S) == CHOOSE c \in S : \A d \in S : d.lct <= c.lct

\* Spec property 5, the code update gate: between SetCodeObject calls the
\* members hold the handler, commit time and version of the newest config
\* installed so far, whatever order the delta files delivered configs in
\* and however many loads timed out or failed on the way.
InstalledIsNewest ==
    (loader.pc \in {"idle", "wait"} /\ okLoads # {})
        => LET c == Newest(okLoads) IN
           client = [handler |-> c.handler, lct |-> c.lct, version |-> c.version]

\* A load that timed out is not cancelled and may complete later.  Whenever
\* no SetCodeObject call is running, the code Roma holds for version_ must
\* still be the code of the newest installed config, or ExecuteCode runs
\* code that was never installed with the installed handler name.
RomaRunsInstalledCode ==
    (loader.pc = "idle" /\ okLoads # {})
        => roma[client.version] = BuildCodeObject(Newest(okLoads))

\* Every invocation names the handler and version of one code config (or
\* the initial members): never the handler of one config with the version
\* of another, which runs the old code with the new handler name.
InvocationConsistent ==
    \A p \in pending :
        p.kind = "exec" =>
            \/ p.version = InitVersion /\ p.handler = NoHandler
            \/ \E c \in Codes : p.version = c.version /\ p.handler = c.handler
=============================================================================
