------------------------------ MODULE StdioProxy ------------------------------
(***************************************************************************)
(* runStdioProxy (src/src/proxy.ts): a process between an MCP client on    *)
(* its stdio and a target MCP server it spawned.  Every client line starts *)
(* an asynchronous task; every target line settles a promise or is         *)
(* forwarded; timers, signals, exits and write errors interleave with both.*)
(*                                                                         *)
(* A step of the model is what the event loop runs from one await to the   *)
(* next.  Continuations of settled promises run before the next timer,     *)
(* signal, exit or write event (Quiet), but a chunk of input may hold      *)
(* several lines, so lines also arrive between them.  A line on the wire   *)
(* to the target is a frame [of, copy]: the client message it carries and  *)
(* whether it is the proxy's own duplicate.                                *)
(* A frame is also the JSON-RPC id of a request and of its response.       *)
(***************************************************************************)
EXTENDS CaptureLog, FiniteSetsExt, Functions

CONSTANTS
    Requests,             \* client messages with an id and a method
    Notifications,        \* client messages with a method and no id
    ServerRequests,       \* target messages with an id and a method
    ServerNotifications,  \* target messages with a method and no id
    StderrChunks,         \* chunks the target writes to its stderr
    Tools, NoTool,        \* tool names; what toolOf gives for any other method
    ToolOf,               \* toolOf(message), for requests and notifications
    Mutations,            \* options.mutations, in order
    AnyTool,              \* applies_to left undefined
    NoRequest,            \* no entry in lastSuccessfulResponses
    Backpressure,         \* may target.stdin.write(line) return false?
    StopsOn,              \* what makes the target stop, besides SIGKILL
    Disturbances,         \* the events that may end the run early
    SizeOf                \* serialized size of an event of each kind

MutationTypes ==
    [ preflight |-> {"permission_denied", "rate_limit"},
      error     |-> {"timeout", "commit_then_response_lost", "disconnect_after_commit",
                     "retryable_error", "partial_success", "progress_stall"},
      stale     |-> {"stale_result", "stale_read_then_conflicting_write",
                     "out_of_order_response"},
      corrupt   |-> {"malformed_result", "schema_drift", "truncated_response",
                     "corrupted_pagination_cursor"},
      same      |-> {"slow_stream", "duplicate_call"} ]

CommitStatuses == {"undefined", "unknown", "not_attempted", "committed"}

MutationRecord ==
    [ type: UNION Range(MutationTypes), applies_to: Tools \cup {AnyTool},
      occurrence: Nat,            \* 0: left undefined
      delayed: BOOLEAN,           \* duration_ms > 0
      commit_status: CommitStatuses ]

ClientLines == Requests \cup Notifications \cup ServerRequests
Keys == [of: Requests, copy: BOOLEAN]
Frames == [of: ClientLines, copy: BOOLEAN]

EventKinds == {"request", "response", "mutation", "transport_error", "stderr"}

ASSUME ProxyAssumption ==
    /\ SizeOf \in [EventKinds -> Nat]
    /\ ToolOf \in [Requests \cup Notifications -> Tools \cup {NoTool}]
    /\ NoTool \notin Tools /\ AnyTool \notin Tools /\ NoRequest \notin Requests
    /\ Mutations \in Seq(MutationRecord)
    /\ Requests \cap Notifications = {}
    /\ (Requests \cup Notifications)
          \cap (ServerRequests \cup ServerNotifications \cup StderrChunks) = {}
    /\ ServerRequests \cap ServerNotifications = {}
    /\ (ServerRequests \cup ServerNotifications) \cap StderrChunks = {}
    /\ Backpressure \in BOOLEAN /\ StopsOn \subseteq {"eof", "SIGTERM"}
    /\ Disturbances \subseteq {"invalid_line", "run_timeout", "interrupt", "interrupt_again",
                               "target_exit", "client_gone"}

VARIABLES
    log,          \* the capture
    task,         \* handleClientMessage of each client line: where it awaits
    chosen,       \* its mutation, an index of Mutations, or 0
    occurrences,  \* toolOccurrences
    lastOk,       \* lastSuccessfulResponses: whose result it holds
    pending,      \* keys of the map pending, each with a running timer
    discarded,    \* discardedTargetIds
    promise,      \* the response promise of sendTargetRequest, for each key
    chain,        \* targetWriteChain: frames not yet written, oldest first
    draining,     \* its head was written and waits for the drain event
    broken,       \* the chain is rejected, and with it all later writes
    received,     \* frames the target has read, in order
    answered,     \* the target's answer to each request it read
    emitted,      \* messages the target sent on its own
    toClient,     \* responses and messages the client was given, in order
    closer,       \* closeTarget: where it awaits
    signal,       \* the last signal sent to the target (target.killed)
    failure,      \* failure !== undefined
    target,       \* the target process
    clientEnded,  \* clientEnded
    clientBroken, \* clientWriteChain is rejected, and with it all later writes
    main,         \* the body of runStdioProxy: where it awaits
    awaited,      \* the client tasks its last Promise.allSettled took
    hashed,       \* number of events under capture.sourceSha256
    saved         \* number of events in the file written by writeCapture

handlers == <<task, chosen, occurrences, lastOk>>
requests == <<pending, discarded, promise>>
writer   == <<chain, draining, broken>>
server   == <<received, answered, emitted, target>>
closing  == <<closer, signal, failure>>
mainVars == <<clientEnded, clientBroken, main, awaited, hashed, saved>>
vars == <<log, handlers, requests, writer, server, toClient, closing, mainVars>>

TaskStates == {"none", "writing", "waiting", "delaying", "copy_writing",
               "copy_waiting", "undelivered", "done", "failed"}
Settlements == {"unused", "open", "result", "error", "timeout", "rejected"}
MainStates == {"racing", "draining", "closing", "settling", "hashed",
               "persisted", "returned", "threw", "crashed"}

Call(m) == [of |-> m, copy |-> FALSE]
Duplicate(r) == [of |-> r, copy |-> TRUE]
Finished(m) == task[m] \in {"done", "failed"}
Started == {m \in ClientLines : task[m] # "none"}

-------------------------------------------------------------------------------
(* The event loop.                                                         *)

\* The process runs: it has not died of an unhandled rejection or of a signal.
Alive == main # "crashed"

\* runStdioProxy gets past its race and the settling of the client tasks.
ReadyToClose ==
    \/ main = "racing" /\ target = "closed" /\ ~clientEnded
    \/ main = "draining" /\ \A m \in awaited : Finished(m)

\* No continuation is ready to run, so the event loop takes the next callback.
Quiet ==
    /\ Alive
    /\ chain = <<>> \/ draining
    /\ \A m \in Requests \cup Notifications : task[m] # "undelivered"
    /\ \A r \in Requests :
          /\ ~(task[r] = "waiting" /\ promise[Call(r)] # "open")
          /\ ~(task[r] = "copy_waiting" /\ promise[Duplicate(r)] # "open")
    /\ ~ReadyToClose
    /\ ~(main = "racing" /\ clientEnded)
    /\ ~(main = "closing" /\ closer = "done")
    /\ ~(main = "settling" /\ chain = <<>> /\ \A m \in awaited : Finished(m))

-------------------------------------------------------------------------------
(* Events of the capture.  mutation is an index of Mutations, 0 for none.  *)

Directions == {"client_to_proxy", "proxy_to_target", "target_to_proxy",
               "proxy_to_client", "none"}
Events ==
    [ kind: EventKinds,
      direction: Directions,
      id: [of: ClientLines \cup ServerNotifications \cup StderrChunks \cup {NoRequest},
           copy: BOOLEAN],
      mutation: 0..Len(Mutations), commit: CommitStatuses, physical: BOOLEAN ]

Event(kind, direction, id, physical) ==
    [ kind |-> kind, direction |-> direction, id |-> id,
      mutation |-> 0, commit |-> "undefined", physical |-> physical ]

CommitStatusMutant(mutation, originalIsError) ==  \* mutant: ignores the error of the target
    IF mutation.commit_status # "undefined" THEN mutation.commit_status
    ELSE IF mutation.type \in MutationTypes.preflight THEN "not_attempted"
    ELSE IF mutation.type \in {"commit_then_response_lost",
                               "disconnect_after_commit", "partial_success"}
         THEN "committed" ELSE "unknown"

\* mutationStatuses(mutation, original).commitStatus
CommitStatus(mutation, originalIsError) ==
    IF mutation.commit_status # "undefined" THEN mutation.commit_status
    ELSE IF originalIsError THEN "unknown"
    ELSE IF mutation.type \in MutationTypes.preflight THEN "not_attempted"
    ELSE IF mutation.type \in {"commit_then_response_lost",
                               "disconnect_after_commit", "partial_success"}
         THEN "committed" ELSE "unknown"

Mutated(event, index, originalIsError) ==
    [event EXCEPT !.mutation = index,
                  !.commit = CommitStatus(Mutations[index], originalIsError)]

Logged(l, event) == Record(l, event, SizeOf[event.kind])
TransportError == Event("transport_error", "none", Call(NoRequest), FALSE)

-------------------------------------------------------------------------------
(* closeTarget, fail and rejectPending are called by many steps.           *)

\* fail(error), with the log l that the same step has built so far.
Fail(l) ==
    /\ failure' = TRUE
    /\ log' = IF failure THEN l ELSE Logged(l, TransportError)
    /\ closer' = IF closer = "idle" THEN "grace" ELSE closer
    /\ UNCHANGED signal

\* writeClient(message).  The write is rejected when the client has closed its end
\* of the proxy's stdout, which it may do at any time.
WriteClient(message) ==
    /\ clientBroken' \in
          {clientBroken} \cup {broke \in {TRUE} : "client_gone" \in Disturbances}
    /\ toClient' = IF clientBroken' THEN toClient ELSE Append(toClient, message)

\* rejectPending(error).  A promise nobody awaits yet, or any more, makes the
\* rejection unhandled, which ends the process.
RejectPending(next) ==
    LET Awaits(k) == task[k.of] = IF k.copy THEN "copy_waiting" ELSE "waiting" IN
    /\ promise' = [k \in Keys |-> IF k \in pending THEN "rejected" ELSE promise[k]]
    /\ pending' = {}
    /\ main' = IF \A k \in pending : Awaits(k) THEN next ELSE "crashed"
    /\ UNCHANGED discarded

-------------------------------------------------------------------------------
(* Lines from the client.                                                  *)

\* mutationFor(tool, occurrence): the first declared mutation that matches.
MutationFor(tool, occurrence) ==
    LET Matches(i) == /\ Mutations[i].applies_to \in {AnyTool, tool}
                      /\ Mutations[i].occurrence \in {0, occurrence}
        First(i) == Matches(i) /\ \A j \in 1..(i - 1) : ~Matches(j)
    IN  IF \E i \in DOMAIN Mutations : First(i)
        THEN CHOOSE i \in DOMAIN Mutations : First(i) ELSE 0

\* The mutation of a message that arrives now.
Selected(m) ==
    IF ToolOf[m] = NoTool THEN 0 ELSE MutationFor(ToolOf[m], occurrences[ToolOf[m]] + 1)

Preflighted(m) ==
    Selected(m) # 0 /\ Mutations[Selected(m)].type \in MutationTypes.preflight

ArriveMutant(m) ==  \* mutant: a denied call does not count as an occurrence
    /\ ~clientEnded
    /\ task[m] = "none"
    /\ chosen' = [chosen EXCEPT ![m] = Selected(m)]
    /\ occurrences' = IF ToolOf[m] = NoTool \/ Preflighted(m) THEN occurrences
                      ELSE [occurrences EXCEPT ![ToolOf[m]] = @ + 1]

\* The synchronous start of handleClientMessage for a request or notification.
Arrive(m) ==
    /\ ~clientEnded
    /\ task[m] = "none"
    /\ chosen' = [chosen EXCEPT ![m] = Selected(m)]
    /\ occurrences' = IF ToolOf[m] = NoTool THEN occurrences
                      ELSE [occurrences EXCEPT ![ToolOf[m]] = @ + 1]

Arrival(m) == Logged(log, Event("request", "client_to_proxy", Call(m), FALSE))

\* sendMutationResponse before the target is involved.  For a notification the
\* id Call(m) stands for the null id the response carries.
DenyBeforeCall(m) ==
    LET i == Selected(m)
        recorded == Logged(Arrival(m),
                        Mutated(Event("mutation", "none", Call(m), FALSE), i, FALSE))
    IN
    /\ Alive
    /\ Preflighted(m)
    /\ Arrive(m)
    /\ log' = Logged(recorded,
                 Mutated(Event("response", "proxy_to_client", Call(m), FALSE), i, FALSE))
    /\ WriteClient([id |-> Call(m), kind |-> "injected", of |-> Call(m)])
    /\ task' = [task EXCEPT ![m] = IF clientBroken' THEN "undelivered" ELSE "done"]
    /\ UNCHANGED <<lastOk, requests, writer, server, closing, clientEnded, main, awaited,
                   hashed, saved>>

\* sendTargetRequest up to its await: the promise and its timer exist before
\* the frame is in the write chain.
SendTargetRequest(key, l) ==
    /\ pending' = pending \cup {key}
    /\ promise' = [promise EXCEPT ![key] = "open"]
    /\ log' = Logged(l, Event("request", "proxy_to_target", key, ToolOf[key.of] # NoTool))
    /\ chain' = Append(chain, key)
    /\ UNCHANGED <<discarded, draining, broken>>

ForwardRequest(r) ==
    /\ Alive
    /\ ~Preflighted(r)
    /\ Arrive(r)
    /\ SendTargetRequest(Call(r), Arrival(r))
    /\ task' = [task EXCEPT ![r] = "writing"]
    /\ UNCHANGED <<lastOk, server, toClient, closing, mainVars>>

ForwardNotification(n) ==
    /\ Alive
    /\ ~Preflighted(n)
    /\ Arrive(n)
    /\ log' = Arrival(n)
    /\ chain' = Append(chain, Call(n))
    /\ task' = [task EXCEPT ![n] = "writing"]
    /\ UNCHANGED <<lastOk, requests, draining, broken, server, toClient, closing, mainVars>>

\* The client answers a request of the target.
ClientReplies(s) ==
    /\ Alive
    /\ ~clientEnded
    /\ task[s] = "none" /\ \E i \in DOMAIN toClient : toClient[i].id = Call(s)
    /\ log' = Logged(log, Event("response", "client_to_proxy", Call(s), FALSE))
    /\ chain' = Append(chain, Call(s))
    /\ task' = [task EXCEPT ![s] = "writing"]
    /\ UNCHANGED <<chosen, occurrences, lastOk, requests, draining, broken, server,
                   toClient, closing, mainVars>>

ClientEnds ==
    /\ Quiet
    /\ ~clientEnded
    /\ clientEnded' = TRUE
    /\ UNCHANGED <<log, handlers, requests, writer, server, toClient, closing, clientBroken,
                   main, awaited, hashed, saved>>

-------------------------------------------------------------------------------
(* The write chain to the target.                                          *)

\* closeTarget ends stdin at once; the exit of the target destroys it.
Writable == closer = "idle" /\ target = "running"

Waiting(f) == IF f.copy THEN "copy_waiting" ELSE IF f.of \in Requests THEN "waiting" ELSE "done"

\* The await of writeTarget(f) returns; a notification is recorded only now.
Written(f) ==
    /\ chain' = Tail(chain)
    /\ task' = [task EXCEPT ![f.of] = Waiting(f)]
    /\ log' = IF f.of \in Notifications
              THEN Logged(log, Event("request", "proxy_to_target", f, FALSE)) ELSE log
    /\ draining' = FALSE
    /\ UNCHANGED <<chosen, occurrences, lastOk, requests, broken, answered, emitted,
                   target, toClient, closing, mainVars>>

WriteLine ==
    /\ Alive
    /\ chain # <<>> /\ ~draining /\ ~broken /\ Writable
    /\ received' = Append(received, Head(chain))
    /\ Written(Head(chain))

\* stream.write returned false: the target has the line, the task must wait.
WriteBlocks ==
    /\ Alive
    /\ Backpressure
    /\ chain # <<>> /\ ~draining /\ ~broken /\ Writable
    /\ received' = Append(received, Head(chain))
    /\ draining' = TRUE
    /\ UNCHANGED <<log, handlers, requests, chain, broken, answered, emitted, target,
                   toClient, closing, mainVars>>

\* A stream that was ended does not emit drain any more.
WriteDrains ==
    /\ Quiet
    /\ draining /\ Writable
    /\ Written(Head(chain))
    /\ UNCHANGED received

WriteFailsMutant ==  \* mutant: the rejection of the write is swallowed
    /\ Alive
    /\ chain # <<>>
    /\ IF draining THEN target # "running" ELSE broken \/ ~Writable
    /\ broken' = TRUE
    /\ draining' = FALSE
    /\ chain' = Tail(chain)
    /\ task' = [task EXCEPT ![Head(chain).of] = "failed"]
    /\ UNCHANGED <<log, closing, chosen, occurrences, lastOk, requests, server, toClient,
                   mainVars>>

\* The chain rejects; so does every entry behind the first one.  A write that
\* waits for drain fails only if the pipe of a dead target raises an error.
WriteFails ==
    /\ Alive
    /\ chain # <<>>
    /\ IF draining THEN target # "running" ELSE broken \/ ~Writable
    /\ broken' = TRUE
    /\ draining' = FALSE
    /\ chain' = Tail(chain)
    /\ task' = [task EXCEPT ![Head(chain).of] = "failed"]
    /\ Fail(log)
    /\ UNCHANGED <<chosen, occurrences, lastOk, requests, server, toClient, mainVars>>

-------------------------------------------------------------------------------
(* Lines from the target.                                                  *)

TargetAnswersMutant(k, outcome) ==  \* mutant: a late reply is kept for stale_result
    LET seen(physical) ==
            Logged(log, Event("response", "target_to_proxy", k, physical))
    IN
    /\ Alive
    /\ target \in {"running", "exited"}
    /\ k \in Range(received) /\ answered[k] = "none"
    /\ answered' = [answered EXCEPT ![k] = outcome]
    /\ lastOk' = IF ToolOf[k.of] # NoTool /\ outcome = "result"
                 THEN [lastOk EXCEPT ![ToolOf[k.of]] = k.of] ELSE lastOk
    /\ IF k \in pending
       THEN /\ pending' = pending \ {k}
            /\ promise' = [promise EXCEPT ![k] = outcome]
            /\ log' = seen(ToolOf[k.of] # NoTool)
            /\ UNCHANGED <<discarded, toClient, clientBroken, main>>
       ELSE IF k \in discarded
       THEN /\ discarded' = discarded \ {k}
            /\ log' = seen(FALSE)
            /\ UNCHANGED <<pending, promise, toClient, clientBroken, main>>
       ELSE /\ log' = seen(TRUE)
            /\ WriteClient([id |-> k, kind |-> outcome, of |-> k])
            /\ main' = IF clientBroken' THEN "crashed" ELSE main
            /\ UNCHANGED requests
    /\ UNCHANGED <<task, chosen, occurrences, writer, received, emitted, target, closing,
                   clientEnded, awaited, hashed, saved>>

\* handleTargetMessage for a response: to a pending request, to one whose timer
\* has fired (recorded only), or to an id the proxy does not know (forwarded; no
\* one awaits this write, so that its failure ends the process).
\* A target that conforms to JSON-RPC answers each request it read once.
TargetAnswers(k, outcome) ==
    LET seen(physical) ==
            Logged(log, Event("response", "target_to_proxy", k, physical))
    IN
    /\ Alive
    /\ target \in {"running", "exited"}
    /\ k \in Range(received) /\ answered[k] = "none"
    /\ answered' = [answered EXCEPT ![k] = outcome]
    /\ IF k \in pending
       THEN /\ pending' = pending \ {k}
            /\ promise' = [promise EXCEPT ![k] = outcome]
            /\ log' = seen(ToolOf[k.of] # NoTool)
            /\ UNCHANGED <<discarded, toClient, clientBroken, main>>
       ELSE IF k \in discarded
       THEN /\ discarded' = discarded \ {k}
            /\ log' = seen(FALSE)
            /\ UNCHANGED <<pending, promise, toClient, clientBroken, main>>
       ELSE /\ log' = seen(TRUE)
            /\ WriteClient([id |-> k, kind |-> outcome, of |-> k])
            /\ main' = IF clientBroken' THEN "crashed" ELSE main
            /\ UNCHANGED requests
    /\ UNCHANGED <<handlers, writer, received, emitted, target, closing, clientEnded,
                   awaited, hashed, saved>>

\* A request or a notification of the target goes to the client unchanged, or
\* the run fails.
TargetSends(s) ==
    /\ Alive
    /\ target \in {"running", "exited"}
    /\ s \notin emitted
    /\ emitted' = emitted \cup {s}
    /\ WriteClient([id |-> Call(s), kind |-> "forwarded", of |-> Call(s)])
    /\ LET recorded == Logged(log, Event("request", "target_to_proxy", Call(s), FALSE))
       IN  IF clientBroken' THEN Fail(recorded) ELSE log' = recorded /\ UNCHANGED closing
    /\ UNCHANGED <<handlers, requests, writer, received, answered, target, clientEnded, main,
                   awaited, hashed, saved>>

TargetWritesStderr(c) ==
    /\ Alive
    /\ target \in {"running", "exited"}
    /\ c \notin emitted
    /\ emitted' = emitted \cup {c}
    /\ log' = Logged(log, Event("stderr", "none", Call(c), FALSE))
    /\ UNCHANGED <<handlers, requests, writer, received, answered, target, toClient,
                   closing, mainVars>>

\* consumeLines on a line that is no JSON object or exceeds the limit.
InvalidLine ==
    /\ Alive
    /\ "invalid_line" \in Disturbances
    /\ ~failure
    /\ target # "closed" \/ ~clientEnded
    /\ Fail(log)
    /\ UNCHANGED <<handlers, requests, writer, server, toClient, mainVars>>

RequestTimeoutForgets(k) ==  \* mutant: the id is not added to discardedTargetIds
    /\ Quiet
    /\ k \in pending
    /\ pending' = pending \ {k}
    /\ promise' = [promise EXCEPT ![k] = "timeout"]
    /\ UNCHANGED <<discarded, log, handlers, writer, server, toClient, closing, mainVars>>

\* The timer of sendTargetRequest.
RequestTimeout(k) ==
    /\ Quiet
    /\ k \in pending
    /\ pending' = pending \ {k}
    /\ discarded' = discarded \cup {k}
    /\ promise' = [promise EXCEPT ![k] = "timeout"]
    /\ UNCHANGED <<log, handlers, writer, server, toClient, closing, mainVars>>

-------------------------------------------------------------------------------
(* handleClientMessage after the response of the target.                   *)

MutationOf(r) == Mutations[chosen[r]]
Replied(k) == promise[k] \in {"result", "error", "timeout"}
Original(r) == [id |-> Call(r), kind |-> promise[Call(r)], of |-> Call(r)]
ToClient(r) == Event("response", "proxy_to_client", Call(r), FALSE)
WithMutation(r, event) == Mutated(event, chosen[r], promise[Call(r)] # "result")
MutationEvent(r) == WithMutation(r, Event("mutation", "none", Call(r), FALSE))

\* recordResponse, then writeClient.
Deliver(r, l, event, response) ==
    /\ log' = Logged(l, event)
    /\ WriteClient(response)
    /\ task' = [task EXCEPT ![r] = IF clientBroken' THEN "undelivered" ELSE "done"]
    /\ UNCHANGED <<chosen, occurrences, server, clientEnded, main, awaited, hashed, saved>>

ReturnReplyMutant(r) ==  \* mutant: an error response becomes the last successful one
    /\ Alive
    /\ task[r] = "waiting" /\ Replied(Call(r)) /\ chosen[r] = 0
    /\ lastOk' = IF ToolOf[r] # NoTool THEN [lastOk EXCEPT ![ToolOf[r]] = r] ELSE lastOk
    /\ Deliver(r, log, ToClient(r), Original(r))
    /\ UNCHANGED <<requests, writer, closing>>

\* No mutation, or no tools/call: the reply itself.
ReturnReply(r) ==
    /\ Alive
    /\ task[r] = "waiting" /\ Replied(Call(r)) /\ chosen[r] = 0
    /\ lastOk' = IF ToolOf[r] # NoTool /\ promise[Call(r)] = "result"
                 THEN [lastOk EXCEPT ![ToolOf[r]] = r] ELSE lastOk
    /\ Deliver(r, log, ToClient(r), Original(r))
    /\ UNCHANGED <<requests, writer, closing>>

\* stale_result and its kin answer with the last successful response of the
\* tool, and are not applied when there is none.
Stale(r) == MutationOf(r).type \in MutationTypes.stale
StaleSource(r) == lastOk[ToolOf[r]]

Visible(r) ==
    CASE MutationOf(r).type \in MutationTypes.error ->
            [id |-> Call(r), kind |-> "injected", of |-> Call(r)]
      [] MutationOf(r).type \in MutationTypes.corrupt ->
            [id |-> Call(r), kind |-> "corrupted", of |-> Call(r)]
      [] Stale(r) /\ StaleSource(r) # NoRequest ->
            [id |-> Call(r), kind |-> "result", of |-> Call(StaleSource(r))]
      [] OTHER -> Original(r)

VisibleEvent(r) ==
    IF Stale(r) /\ StaleSource(r) = NoRequest THEN ToClient(r)
    ELSE WithMutation(r, ToClient(r))

Delays(mutation) ==
    \/ mutation.type \in {"slow_stream", "progress_stall"}
    \/ mutation.type \in MutationTypes.error /\ mutation.delayed

MutationStarts(r, delayed, duplicated) ==
    /\ task[r] = "waiting" /\ Replied(Call(r)) /\ chosen[r] # 0
    /\ Delays(MutationOf(r)) = delayed
    /\ (MutationOf(r).type = "duplicate_call") = duplicated

MutateReply(r) ==
    /\ Alive
    /\ MutationStarts(r, FALSE, FALSE)
    /\ Deliver(r, Logged(log, MutationEvent(r)), VisibleEvent(r), Visible(r))
    /\ UNCHANGED <<lastOk, requests, writer, closing>>

DelayReply(r) ==
    /\ Alive
    /\ MutationStarts(r, TRUE, FALSE)
    /\ log' = Logged(log, MutationEvent(r))
    /\ task' = [task EXCEPT ![r] = "delaying"]
    /\ UNCHANGED <<chosen, occurrences, lastOk, requests, writer, server, toClient,
                   closing, mainVars>>

FinishDelay(r) ==
    /\ Quiet
    /\ task[r] = "delaying"
    /\ Deliver(r, log, VisibleEvent(r), Visible(r))
    /\ UNCHANGED <<lastOk, requests, writer, closing>>

\* duplicate_call sends the same call again under an id of the proxy's own,
\* after the answer to the first one, and shows the client the first answer.
DuplicateCall(r) ==
    /\ Alive
    /\ MutationStarts(r, FALSE, TRUE)
    /\ SendTargetRequest(Duplicate(r), Logged(log, MutationEvent(r)))
    /\ task' = [task EXCEPT ![r] = "copy_writing"]
    /\ UNCHANGED <<chosen, occurrences, lastOk, server, toClient, closing, mainVars>>

FinishDuplicate(r) ==
    LET copy == WithMutation(r, Event("response", "target_to_proxy", Duplicate(r), TRUE)) IN
    /\ Alive
    /\ task[r] = "copy_waiting" /\ Replied(Duplicate(r))
    /\ Deliver(r, Logged(log, copy), WithMutation(r, ToClient(r)), Original(r))
    /\ UNCHANGED <<lastOk, requests, writer, closing>>

\* The awaited promise was rejected: the task ends in fail(error).
ReplyRejected(r) ==
    /\ Alive
    /\ \/ task[r] = "waiting" /\ promise[Call(r)] = "rejected"
       \/ task[r] = "copy_waiting" /\ promise[Duplicate(r)] = "rejected"
    /\ task' = [task EXCEPT ![r] = "failed"]
    /\ Fail(log)
    /\ UNCHANGED <<chosen, occurrences, lastOk, requests, writer, server, toClient, mainVars>>

DeliveryFailsMutant(m) ==  \* mutant: the rejection of the write is swallowed
    /\ Alive
    /\ task[m] = "undelivered"
    /\ task' = [task EXCEPT ![m] = "failed"]
    /\ UNCHANGED <<chosen, occurrences, lastOk, log, closing, requests, writer, server, toClient,
                   mainVars>>

\* The await of writeClient was rejected: the response is in the capture, and the
\* task ends in fail(error).
DeliveryFails(m) ==
    /\ Alive
    /\ task[m] = "undelivered"
    /\ task' = [task EXCEPT ![m] = "failed"]
    /\ Fail(log)
    /\ UNCHANGED <<chosen, occurrences, lastOk, requests, writer, server, toClient, mainVars>>

Resume(r) ==
    \/ ReturnReply(r)
    \/ MutateReply(r)
    \/ DelayReply(r)
    \/ DuplicateCall(r)
    \/ FinishDuplicate(r)
    \/ ReplyRejected(r)

-------------------------------------------------------------------------------
(* The target process and closeTarget.                                     *)

\* On its own, or because the proxy asked it to.
StopRequested ==
    \/ signal = "SIGKILL"
    \/ signal = "SIGTERM" /\ "SIGTERM" \in StopsOn
    \/ closer # "idle" /\ "eof" \in StopsOn

TargetExits ==
    /\ Quiet
    /\ target = "running"
    /\ "target_exit" \in Disturbances \/ StopRequested
    /\ target' = "exited"
    /\ UNCHANGED <<log, handlers, requests, writer, received, answered, emitted, toClient,
                   closing, mainVars>>

\* The close event, after the last output was read.
TargetCloses ==
    /\ Quiet
    /\ target = "exited"
    /\ target' = "closed"
    /\ IF closer = "idle" /\ ~failure THEN Fail(log) ELSE UNCHANGED <<log, closing>>
    /\ RejectPending(main)
    /\ UNCHANGED <<handlers, writer, received, answered, emitted, toClient, clientEnded,
                   clientBroken, awaited, hashed, saved>>

\* The first SIGINT or SIGTERM to the proxy calls closeTarget, which does nothing if
\* it was called before.
Interrupt ==
    /\ Quiet
    /\ "interrupt" \in Disturbances
    /\ closer = "idle"
    /\ closer' = "grace"
    /\ UNCHANGED <<log, handlers, requests, writer, server, toClient, signal, failure, mainVars>>

\* process.once has removed the handler of a first signal, so that the second one of
\* its kind kills the process by the default action, at any moment.
InterruptAgain ==
    /\ Alive
    /\ "interrupt_again" \in Disturbances
    /\ closer # "idle"
    /\ main' = "crashed"
    /\ UNCHANGED <<log, handlers, requests, writer, server, toClient, closing, clientEnded,
                   clientBroken, awaited, hashed, saved>>

RunTimeoutMutant ==  \* mutant: the failure is recorded but the target is not closed
    /\ Quiet
    /\ "run_timeout" \in Disturbances
    /\ closer = "idle" /\ ~failure
    /\ failure' = TRUE
    /\ log' = Logged(log, TransportError)
    /\ UNCHANGED <<closer, signal, handlers, requests, writer, server, toClient, mainVars>>

\* The timer of options.maxRunMs, which closeTarget clears.
RunTimeout ==
    /\ Quiet
    /\ "run_timeout" \in Disturbances
    /\ closer = "idle"
    /\ Fail(log)
    /\ UNCHANGED <<handlers, requests, writer, server, toClient, mainVars>>

MustKillMutant == signal # "none" /\ target = "running"  \* mutant: target.killed not negated

\* target.killed is true from the moment a signal was sent.
MustKill == signal = "none" /\ target = "running"

\* The grace periods end with the target's close or after CLOSE_GRACE_MS.
CloserTerminates ==
    /\ Quiet
    /\ closer = "grace"
    /\ IF MustKill THEN signal' = "SIGTERM" /\ closer' = "term"
                   ELSE closer' = "done" /\ UNCHANGED signal
    /\ UNCHANGED <<log, handlers, requests, writer, server, toClient, failure, mainVars>>

CloserKills ==
    /\ Quiet
    /\ closer = "term"
    /\ closer' = "done"
    /\ signal' = IF MustKill THEN "SIGKILL" ELSE signal
    /\ UNCHANGED <<log, handlers, requests, writer, server, toClient, failure, mainVars>>

-------------------------------------------------------------------------------
(* The body of runStdioProxy after the set-up.                             *)

\* allSettled(clientTasks) takes the tasks there are at that moment.
MainDrains ==
    /\ Alive
    /\ main = "racing" /\ clientEnded
    /\ main' = "draining"
    /\ awaited' = Started
    /\ UNCHANGED <<log, handlers, requests, writer, server, toClient, closing,
                   clientEnded, clientBroken, hashed, saved>>

\* await closeTarget(), when nobody called it before.
MainCloses ==
    /\ Alive
    /\ ReadyToClose /\ closer = "idle"
    /\ closer' = "grace"
    /\ main' = "closing"
    /\ UNCHANGED <<log, handlers, requests, writer, server, toClient, signal, failure,
                   clientEnded, clientBroken, awaited, hashed, saved>>

\* closeTarget returned, at once if it had been called before.
MainRejects ==
    /\ Alive
    /\ \/ ReadyToClose /\ closer # "idle"
       \/ main = "closing" /\ closer = "done"
    /\ RejectPending("settling")
    /\ awaited' = Started
    /\ UNCHANGED <<log, handlers, writer, server, toClient, closing, clientEnded,
                   clientBroken, hashed, saved>>

MainHashesMutant ==  \* mutant: off by one
    /\ Alive
    /\ main = "settling"
    /\ \A m \in awaited : Finished(m)
    /\ chain = <<>>
    /\ hashed' = Len(log.events) - 1
    /\ main' = "hashed"
    /\ UNCHANGED <<log, handlers, requests, writer, server, toClient, closing,
                   clientEnded, clientBroken, awaited, saved>>

\* The tasks and the write chain are settled: capture.sourceSha256.
MainHashes ==
    /\ Alive
    /\ main = "settling"
    /\ \A m \in awaited : Finished(m)
    /\ chain = <<>>
    /\ hashed' = Len(log.events)
    /\ main' = "hashed"
    /\ UNCHANGED <<log, handlers, requests, writer, server, toClient, closing,
                   clientEnded, clientBroken, awaited, saved>>

\* writeCapture serializes the capture after its first await.
MainPersists ==
    /\ Quiet
    /\ main = "hashed"
    /\ saved' = Len(log.events)
    /\ main' = "persisted"
    /\ UNCHANGED <<log, handlers, requests, writer, server, toClient, closing,
                   clientEnded, clientBroken, awaited, hashed>>

MainReturns ==
    /\ Quiet
    /\ main = "persisted"
    /\ main' = IF failure THEN "threw" ELSE "returned"
    /\ UNCHANGED <<log, handlers, requests, writer, server, toClient, closing,
                   clientEnded, clientBroken, awaited, hashed, saved>>

Over == main \in {"returned", "threw", "crashed"}

\* The proxy process has ended, or has nothing left to do.
Terminated == Over /\ UNCHANGED vars

-------------------------------------------------------------------------------
Init ==
    /\ log = EmptyLog
    /\ task = [m \in ClientLines |-> "none"]
    /\ chosen = [m \in Requests \cup Notifications |-> 0]
    /\ occurrences = [t \in Tools |-> 0]
    /\ lastOk = [t \in Tools |-> NoRequest]
    /\ pending = {} /\ discarded = {}
    /\ promise = [k \in Keys |-> "unused"]
    /\ chain = <<>> /\ draining = FALSE /\ broken = FALSE
    /\ received = <<>> /\ answered = [k \in Keys |-> "none"]
    /\ emitted = {} /\ target = "running"
    /\ toClient = <<>>
    /\ closer = "idle" /\ signal = "none" /\ failure = FALSE
    /\ clientEnded = FALSE /\ clientBroken = FALSE
    /\ main = "racing" /\ awaited = {}
    /\ hashed = 0 /\ saved = 0

ClientLine ==
    \/ \E m \in Requests \cup Notifications : DenyBeforeCall(m)
    \/ \E r \in Requests : ForwardRequest(r)
    \/ \E n \in Notifications : ForwardNotification(n)
    \/ \E s \in ServerRequests : ClientReplies(s)

TargetLine ==
    \/ \E k \in Keys, outcome \in {"result", "error"} : TargetAnswers(k, outcome)
    \/ \E s \in ServerRequests \cup ServerNotifications : TargetSends(s)
    \/ \E c \in StderrChunks : TargetWritesStderr(c)

\* Lines and continuations, and what the event loop starts when all is quiet.
Prompt ==
    \/ ClientLine
    \/ TargetLine
    \/ InvalidLine
    \/ WriteLine \/ WriteBlocks \/ WriteFails
    \/ \E r \in Requests : Resume(r)
    \/ \E m \in Requests \cup Notifications : DeliveryFails(m)
    \/ MainDrains \/ MainCloses \/ MainRejects \/ MainHashes

Turn ==
    \/ ClientEnds
    \/ WriteDrains
    \/ TargetExits \/ TargetCloses
    \/ \E k \in Keys : RequestTimeout(k)
    \/ \E r \in Requests : FinishDelay(r)
    \/ RunTimeout \/ Interrupt \/ InterruptAgain
    \/ CloserTerminates \/ CloserKills
    \/ MainPersists \/ MainReturns

Next ==
    \/ Prompt
    \/ Turn
    \/ Terminated

Spec == Init /\ [][Next]_vars

\* The event loop runs what is ready, timers fire, and the exit of the target is
\* followed by the end of its output.  Nothing is required of the client, and of
\* the target neither that it reads nor that it stops.
Fairness ==
    /\ WF_vars(WriteLine \/ (~draining /\ WriteFails))
    /\ \A r \in Requests : WF_vars(Resume(r))
    /\ \A m \in Requests \cup Notifications : WF_vars(DeliveryFails(m))
    /\ WF_vars(MainDrains \/ MainCloses \/ MainRejects \/ MainHashes)
    /\ \A k \in Keys : WF_vars(RequestTimeout(k))
    /\ \A r \in Requests : WF_vars(FinishDelay(r))
    /\ WF_vars(RunTimeout)
    /\ WF_vars(TargetCloses)
    /\ WF_vars(CloserTerminates \/ CloserKills)
    /\ WF_vars(MainPersists \/ MainReturns)

FairSpec == Spec /\ Fairness

-------------------------------------------------------------------------------
HandlersType ==
    /\ task \in [ClientLines -> TaskStates]
    /\ chosen \in [Requests \cup Notifications -> 0..Len(Mutations)]
    /\ occurrences \in [Tools -> Nat]
    /\ lastOk \in [Tools -> Requests \cup {NoRequest}]

RequestsType ==
    /\ pending \subseteq Keys /\ discarded \subseteq Keys
    /\ promise \in [Keys -> Settlements]

WriterType == chain \in Seq(Frames) /\ draining \in BOOLEAN /\ broken \in BOOLEAN

ServerType ==
    /\ received \in Seq(Frames)
    /\ answered \in [Keys -> {"none", "result", "error"}]
    /\ emitted \subseteq ServerRequests \cup ServerNotifications \cup StderrChunks
    /\ target \in {"running", "exited", "closed"}

ClientMessages ==
    LET Ids == [of: ClientLines \cup ServerNotifications, copy: BOOLEAN] IN
    [ id: Ids, of: Ids,
      kind: {"result", "error", "timeout", "injected", "corrupted", "forwarded"} ]

ClosingType ==
    /\ closer \in {"idle", "grace", "term", "done"}
    /\ signal \in {"none", "SIGTERM", "SIGKILL"}
    /\ failure \in BOOLEAN

MainType ==
    /\ clientEnded \in BOOLEAN /\ clientBroken \in BOOLEAN
    /\ main \in MainStates
    /\ awaited \subseteq ClientLines
    /\ hashed \in Nat /\ saved \in Nat

TypeOK ==
    /\ log \in LogOf(Events)
    /\ HandlersType
    /\ RequestsType
    /\ WriterType
    /\ ServerType
    /\ toClient \in Seq(ClientMessages)
    /\ ClosingType
    /\ MainType

-------------------------------------------------------------------------------
(* Requests and responses.                                                 *)

\* No request of the client is answered twice, however the reply of the target,
\* its timer, the mutation and the end of the run interleave.
AtMostOneResponse ==
    \A r \in Requests : \A i, j \in DOMAIN toClient :
        toClient[i].id = Call(r) /\ toClient[j].id = Call(r) => i = j

\* The client never sees an id the proxy made up for a duplicate, while the run
\* goes on.
DuplicateHidden ==
    main \in {"racing", "draining", "closing"} =>
        \A i \in DOMAIN toClient : ~toClient[i].id.copy

\* The target executes a call at most once, and once more only for a declared
\* duplicate_call, after the first execution.
CallsNotRepeated ==
    \A i \in DOMAIN received :
        /\ \A j \in DOMAIN received : received[i] = received[j] => i = j
        /\ received[i].copy =>
              /\ MutationOf(received[i].of).type = "duplicate_call"
              /\ \E j \in 1..(i - 1) : received[j] = Call(received[i].of)

\* Duplicates stay between the proxy and the target: a late reply to one is
\* swallowed like any other, and what is executed twice was declared to be
\* (sendMutationResponse, handleTargetMessage).
DuplicatesContained == DuplicateHidden /\ CallsNotRepeated

\* A run that reports success has answered every request whose task it awaited
\* and delivered every other line of the client, or denied it.
SuccessSettlesAll ==
    LET Responded(m) == \E i \in DOMAIN toClient : toClient[i].id = Call(m) IN
    main = "returned" =>
        \A m \in awaited :
            Responded(m) \/ (m \notin Requests /\ Call(m) \in Range(received))

\* A timeout is final: what the target answers to a request after its timer fired
\* reaches the client in no form, neither under the id of the request or of a
\* duplicate, nor as the stale data of a later call; and what the client is given
\* as the outcome of a request is what the target answered
\* (sendTargetRequest, handleTargetMessage, lastSuccessfulResponses).
TimeoutIsFinal ==
    \A i \in DOMAIN toClient :
        LET message == toClient[i] IN
        message.kind \in {"result", "error"} =>
            promise[message.of] # "timeout" /\ answered[message.of] = message.kind

-------------------------------------------------------------------------------
(* What the capture says of the traffic.                                   *)

\* The capture keeps within its limits, says whether it is complete, and its
\* sequence numbers identify events.
CaptureIsSound == Bounded(log) /\ Reported(log) /\ Ordered(log)

Recorded == {log.events[i].event : i \in DOMAIN log.events}

\* The commit status a mutation reports is true of the target: what counts as
\* committed was answered with a result, what counts as not attempted never
\* reaches the target.
CommitStatusIsTrue ==
    \A e \in Recorded :
        e.mutation # 0 /\ Mutations[e.mutation].commit_status = "undefined" =>
            /\ e.commit = "committed" => answered[e.id] = "result"
            /\ e.commit = "not_attempted" => e.id \notin Range(received) \cup Range(chain)

\* Each response the client got is in the capture.  One the capture claims and the
\* client did not get is explained by the failed write of its task.
ResponsesRecorded ==
    LET answers == {toClient[i].id : i \in DOMAIN toClient}
        Unwritten(m) == task[m] = "undelivered" \/ (task[m] = "failed" /\ failure)
    IN
    /\ \A e \in Recorded : e.direction = "proxy_to_client" =>
            e.id \in answers \/ (clientBroken /\ Unwritten(e.id.of))
    /\ ~log.truncated => \A id \in answers \cap Keys :
            \E e \in Recorded : e.kind = "response" /\ e.id = id

\* The physical calls of the capture are those the target was sent.  One that
\* was recorded but could not be written is explained by a failed run.
CallsRecorded ==
    LET calls == {e.id : e \in {x \in Recorded : x.direction = "proxy_to_target"}} IN
    /\ \A k \in calls : failure \/ k \in Range(received) \cup Range(chain)
    /\ ~log.truncated => Range(received) \cap Keys \subseteq calls

\* The capture tells the traffic on both sides, although calls and responses are
\* recorded before they are written, and either write may fail: the target may
\* close its stdin and the client its end of the proxy's stdout (recordRequest,
\* recordResponse, writeTarget, writeClient).
TrafficRecorded == CallsRecorded /\ ResponsesRecorded

\* Position in the capture at which the client message m arrived.
ArrivedAt(m) ==
    {i \in DOMAIN log.events :
        LET e == log.events[i].event IN
        e.kind = "request" /\ e.direction = "client_to_proxy" /\ e.id = Call(m)}

Before(m, n) == \E i \in ArrivedAt(m), j \in ArrivedAt(n) : i < j

\* The k-th call of a tool gets the mutation declared for the k-th call, even
\* when earlier ones were denied, are still running or were never answered.
MutationOfRank ==
    ~log.truncated =>
        \A m \in Requests \cup Notifications :
            ArrivedAt(m) # {} /\ ToolOf[m] # NoTool =>
                chosen[m] = MutationFor(ToolOf[m],
                    1 + Cardinality({n \in Requests \cup Notifications :
                                        ToolOf[n] = ToolOf[m] /\ Before(n, m)}))

\* The target reads the client's calls and notifications in the client's order.
OrderPreserved ==
    ~log.truncated =>
        \A j \in DOMAIN received : \A i \in 1..(j - 1) :
            {received[i], received[j]} \subseteq
                [of: Requests \cup Notifications, copy: {FALSE}] =>
                    Before(received[i].of, received[j].of)

\* Calls keep their rank: for the mutations, which are chosen when they arrive and
\* applied when they are answered, and at the target, although each has its own
\* asynchronous handler (handleClientMessage, writeTarget).
CallsKeepRank == MutationOfRank /\ OrderPreserved

\* Stale data is real: a result that is not the call's own repeats a result of
\* the same tool that the client was given before.
StaleWasSeen ==
    \A i \in DOMAIN toClient :
        LET answer == toClient[i] IN
        answer.kind = "result" /\ answer.id # answer.of =>
            /\ ToolOf[answer.id.of] = ToolOf[answer.of.of]
            /\ \E j \in 1..(i - 1) : toClient[j] = [answer EXCEPT !.id = answer.of]

-------------------------------------------------------------------------------
(* Progress.                                                               *)

\* closeTarget has done all it does, the target runs on, and the race still waits
\* for its exit or for the end of a client that keeps its stdin open.
Outlived == main = "racing" /\ closer = "done" /\ target = "running" /\ ~clientEnded

\* Whatever client and target do or fail to do, the run ends, except in two cases
\* that nothing in the code bounds: a write to the target waits for drain, which
\* has no timer, or the target survives being closed while the client stays
\* (writeLine, closeTarget, Promise.race in runStdioProxy).
RunEnds == <>Over \/ <>[](draining \/ Outlived)

\* Once the proxy closes the target, the target process is gone eventually, if it
\* stops when it is asked to in a way it heeds, or the proxy was killed itself.
TargetStops == StopRequested /\ TargetExits
TargetStopped ==
    WF_vars(TargetStops) => (closer # "idle" ~> target # "running" \/ main = "crashed")
===============================================================================
