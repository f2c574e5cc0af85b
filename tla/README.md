# Verification of agent-crash-test

agent-crash-test injects faults between an MCP client and an MCP server and
judges how the client copes: from a *pack* (a scripted run), or as a proxy
under a real client. This directory holds TLA+ modules of its components, the
TLC runs that check them, and proofs for all values of their constants.
References to code are to `src/src/` unless another path is given.

## The system

| Component | State | Operations | Interacts with |
|---|---|---|---|
| stdio fault proxy, `proxy.ts` | capture, occurrences per tool, last successful responses, pending requests with timers, discarded ids, write chain, close and failure flags | a client line, a target line, a timer, a signal, the target's exit; `closeTarget`, `fail`, `rejectPending`; the end of the run | client on stdin and stdout, target as a child process, capture file |
| proxy capture log, `proxy.ts` `record` | events, sequence, bytes, truncation, warning | `record` | every step of the proxy |
| proxy evaluation, `proxy-runner.ts` | none | capture to call events, mutation records and effects | capture, assertions, observers |
| capture files and packs, `capture.ts` | none | load and verify a capture, propose a pack | proxy, guided capture |
| guided capture, `guided-capture.ts` | none | propose from a capture, refuse what is unconfirmed or unsafe | capture, pack |
| scripted runner, `runner.ts` | events, captures of steps, execution error, expiry, interruption, closing | connect, observe, step, retry, mutate, close, report | client, mutation controller, observers, assertions |
| mutation controller, `mutations.ts` | occurrences, previous successes, records | `matching`, `preflight`, `after`, `markFailed`, `recordsForReport` | runner |
| MCP client, `mcp-client.ts`; fixture client, `fixture-client.ts` | connection; fixture state | connect, list, call, close | runner |
| observers, `observer.ts` | none | run a probe with limits | runner, proxy evaluation |
| assertions and contracts, `assertions.ts` | none | judge events and effects | runner, evaluators |
| JSONL bridge, `jsonl.ts`, `jsonl-evaluator.ts` | none | parse and judge the records of a framework | assertions |
| hosted service, `hosted-service.ts` | a directory of records, a queue of mutations | upload, list, get, delete, prune, stop | HTTP clients |
| HTTP fault proxy, `http-transport.ts` | open upstreams, sockets, closing | a request with its timeouts, close | HTTP clients and an upstream |
| report browser, `ui-server.ts` | none | serve a file | browser |
| command line, `cli.ts` | the result file, the client it started | `test` with a client or a pack, `capture`, `bridge` and others; exit codes | all of the above |
| packs, reporters, helpers | none | parse, format | all |

What is hard in it: the proxy is one event loop with many unfinished tasks, in
which replies, timers, signals, write errors and the end of the run come in
any order; the runner bounds every await by a deadline, but what it gave up on
goes on in the background; the hosted service must keep its directory within
limits across crashes and concurrent clients; the HTTP proxy holds two
connections per request, either of which may end in the middle of an event;
the command line shares a file with processes it does not know; and the
evaluations must not take for evidence what the capture or the observer missed. `PROJECT.json` lists each of
these hazards at its line.

What makes each component correct:

- proxy: a request is answered at most once, and if the run reports success,
  once; an answer that comes too late reaches the client in no form; the k-th
  call of a tool gets the mutation declared for the k-th call; lines keep their
  order; the capture tells the truth about calls, responses and commits; the
  run ends, with the target gone.
- runner and mutation controller: attempts stay within the retry policy; each
  mutation of an event has one record; a reported commit is one that the
  target made; nothing starts after the report; a run that expired, was
  interrupted or lost its target is not judged; the run returns.
- hosted service: no record is lost or half written, the limits hold after
  each operation, a deleted or expired record does not come back.
- HTTP proxy: an open upstream is bounded by a timer, no event is torn or lost, a response that
  was cut does not look complete, upstreams are released and handlers settle.
- `test --client`: an exit code of 0 or 1 comes from a complete run, whatever is
  killed or overwritten meanwhile; command and runs end.
- evaluation: what passes is true of the external state, counts are those of
  the calls the target read, a loss is charged to the call that had it.
- JSONL bridge: a stream is accepted exactly if it is one well-formed run, and
  judged only if it was closed as complete.
- guided capture: the pack is the session that was recorded, tools keep the
  roles they were declared for, and the fault can be told from the control run.

## Plan

1. `CaptureLog`, `StdioProxy` and their proofs (done).
2. `ScriptedRunner` with the mutation controller, runs over short packs (done);
   with all its invariants and action properties proved (done).
3. `HostedStore` as an implementation of `RunStore`, with the invariants of
   the directory and the refinement proved (done).
4. `HttpTransport`: requests with timeouts, disconnects and the close, with its
   invariants proved (done).
5. `ClientTest`: the processes of `test --client` (done, with proofs).
6. `Assertions`, and on top of it `ProxyEvaluation`, `JsonlBridge` and
   `GuidedCapture`, composed in `MCEvidence`; with all their invariants
   proved (done).
7. An abstract specification of answering (each request open, answered or
   failed, once) with a refinement from `StdioProxy` (open).
8. The fixture client and the observers under the scripted runner (open).

## Modules

| Module | Contents |
|---|---|
| `CaptureLog` | operators for the bounded event log of the proxy: `record()` and its counters |
| `StdioProxy` | `runStdioProxy`, with the client and the target as its environment |
| `StdioProxyProofs` | `Record` keeps the log sound; types, the capture, one answer per request |
| `StdioTrafficProofs` | what the proxy says of the traffic: success, stale data, duplicates, commits, the capture, ranks |
| `Selection`, `SelectionProofs` | the array filter, and what it returns for every sequence |
| `MCStdioProxy` | mutations, tools and event sizes of the instances TLC checks |
| `MutationController` | operators on the state of one controller: `matching`, `preflight`, `apply`, `markFailed` and the records |
| `ScriptedRunner` | `runPack`, with `after` as an activity of its own, and the target, signals and time as its environment |
| `ScriptedRunnerProofs` | attempts, records, effects, stale data, commits, verdicts and the end of the target |
| `RunStore` | what the hosted service promises: a set of records, and answers that are true of it |
| `HostedStore` | the hosted service over a directory that loses what is not synced |
| `HostedStoreProofs` | limits, stopping, and the implementation of `RunStore` step by step |
| `MCHostedStore` | its clients in the instances TLC checks |
| `MCScriptedRunner` | packs of the instances TLC checks: steps, mutations and answers |
| `HttpTransport`, `MCHttpTransport` | requests through the HTTP proxy; its clients and chunks |
| `HttpTransportProofs` | upstreams are timed, events conserved, endings true |
| `ClientTest`, `MCClientTest` | the command `test --client`, its client, the runs of the proxy and the result file |
| `ClientTestProofs` | a verdict is that of a complete run, and never of a torn file |
| `Assertions` | operators: assertions, state contracts and effect contracts on events and effects |
| `ProxyEvaluation` | `runProxyPack`: observations around a session of `StdioProxy`, the capture as events, the verdicts |
| `MCProxyEvaluation` | mutations, observers and a pack with every kind of expectation |
| `JsonlBridge` | `parseJsonl` and `evaluateJsonlRun` |
| `EvidenceProofs` | the bridge accepts what is well-formed and judges on evidence; what a judged session passes is true |
| `GuidedCapture` | from a capture file to a pack |
| `MCEvidence` | one invocation that judges a session, a stream of records or a capture file, over one pack |

Operators marked `mutant` in a comment are broken variants of the definition after them; no specification
uses them. Each property of a passing run fails when one of them replaces the
definition it varies, so the property does depend on that code.

### StdioProxy and the code

Each client line starts a task, `handleClientMessage`, which the code does not
await; `task[m]` is the await it is at. A request goes `none` -> `writing`
(in `targetWriteChain`) -> `waiting` (for the promise of `sendTargetRequest`)
-> `delaying`, or `copy_writing` -> `copy_waiting` for a duplicated call ->
`done`; or `failed`. The maps `pending`, `discardedTargetIds` and
`lastSuccessfulResponses` are `pending`, `discarded` and `lastOk`; the
settlement of a response promise outlives its entry in the map and is
`promise`. `closer` is the await at which `closeTarget` is, `main` that of the
function's body after the set-up.

An action is what the event loop runs between two awaits. Promise
continuations run before the loop takes its next timer, signal or process
event; `Quiet` says that none is ready and guards those actions. One chunk of
input may hold several lines, so client and target lines are not guarded by
it. A line on the wire is a frame: the client message it carries and whether
it is the proxy's own duplicate. Payloads, redaction and formatting are left
out. Of an event the model keeps its kind, direction, request, mutation,
commit status, whether it is a physical call, and its size.

The environment is a client that sends each of its messages once, with an id of
its own, and a target that answers each request it reads at most once, with a
result or an error, before or after the timer or never; it may write stderr,
send messages, exit by itself or ignore the end of its input and SIGTERM
(`StopsOn`). `Disturbances` selects what may end a run early.

The client may close its end of the proxy's stdout (`client_gone`): from then
on `WriteClient` fails, as `clientWriteChain` stays rejected. A response is
recorded before it is written (lines 799 and 806), so its task is `undelivered`
until the rejection reaches it and then fails the run. What the proxy forwards
without awaiting the write (an answer to an unknown id, a message of the target:
lines 828 and 845) ends the process when it fails, with main `crashed`. A second
signal of the same kind does so too (`InterruptAgain`): the handlers are
installed with `process.once`.

Abstractions to know about: the buffer that `consumeLines` drops after an
invalid line; a second invalid line in the same run (`fail` keeps the first
error); two mutations that answer alike share an action; a reply of the target
to an id that was never sent; backpressure of the client's own pipe, to which
Node.js writes synchronously on Linux.

### ScriptedRunner and the code

`at` is where the body of `runPack` is: an await (`connecting`, `calling`,
`mutating`, ...) or a point between two (`attempt`, `step_end`, `finish`, ...).
A call made by `call()` is `open` until the answer, the loss of the connection
or a timer decides its race; if the deadline has passed it is `closing`, as
`call` then awaits `closeClient()`, and `settled` afterwards. `job` is the
promise of `controller.after`: it applies one mutation after the other, may be
`delaying` or `calling` (the duplicate), and ends `done` or `threw`. When
`withTimeout` gives up on it, `runPack` goes on (`AfterTimesOut`, `Abandons`)
and so does `job`. `late` is `deadlineReached()`, which may become true between
any two reads of the clock; `expired`, `interrupted`, `failure` are
`runExpired`, `interrupted`, `executionError`; `closing` joins `closing` and
`processClosed` (`unconfirmed`: the close failed or took too long).

An action is what runs between two awaits, or a part of that; between
parts nothing else may run (`MainRuns`), except the clock. Timers, answers,
signals and the end of a close come when no continuation is ready (`Quiet`). A
delay is `short` if it fits the budget that was left when `after` started, and
`long` otherwise, when it is cut at the deadline.

`sent` and `committed` are the target's side: a call on its way, and a call
that took effect. The target answers the awaited call, handles any call
without an answer, or does nothing. It is a target behind `McpStdioClient`,
whose `callTool` never throws and knows no commit status; the constant
`Answers` has what tools may answer. A fixture client, which answers at once,
is not a separate case.

Abstractions to know about: of an outcome only the error kind, the commit
status and the call whose output it carries are kept; error kinds with one
effect are one (`spawn`, `protocol` and `internal` count as transport errors; a
call on a closed client fails like one whose connection broke); observations of
a fixture state or by a command are left out; whether a path is found in a
response is a choice; a second signal of the same name, which ends the process,
is left out, and so are assertions, of which only whether they are evaluated
matters here.

### HostedStore and the code

`queue` is the chain `mutationQueue`: the requests whose operation has not
settled. `op` is the operation at its head, at the next step of I/O it is to
take: `scan` and `prune` are `pruneStoredRuns`, `open`, `rename` and `sync`
`persistRun`, `unlink` and `sync` `deleteStoredRun`; `answer` is the return to
the handler. The pruning at startup is an operation of its own, before the
service is up. An upload prunes, writes and prunes again; a list or a get
prunes first, a deletion does not. The handler answers in the same turn of the
event loop in which its operation settles, so `Settle` is one step. Reading
several files is one step too: only operations change the directory, and they
do not overlap. `stage` is how far the handler of a request is, `open` whether
somebody waits for the answer.

`dir` is the set of records with a file of their own name. A name that came or
went is `unsynced` until the directory is synced, and a power failure may undo
or keep it. The contents of files are synced before the rename, so a file is
complete or absent. `ProcessDies` leaves the files as they are. The clock does
not go back.

`RunStore` knows neither queue nor files. Its `Store` and `Remove` change the
set of records, `Remove` only with a reason; `Reply` needs that what it says
holds, and for an upload or a deletion that it will hold after a power failure
(`settled`). `HostedStore` implements it with `runs <- dir \ Unreadable` and
`settled <- (Ids \ unsynced) \cup Unreadable`. `Unreadable` are the records whose
file is skipped when it is read back, as it is too long; they are accepted, and
deleted if a client asks for it, but never seen.

A connection from before `stop()` may still deliver its request, until the
grace period ends and all are closed (phase `closing`).

Abstractions to know about: everything that refuses a request before it reaches
the directory is one action (for uploads; other requests that are refused have
no effect); a directory that cannot be synced at all (the code goes on without,
`syncDirectoryBestEffort`, and nothing survives a power failure for certain); a
file that cannot be read for a while; the unlink of a temporary file that fails
too; two services on one directory. One connection carries one request.

### HttpTransport and the code

`h[r]` is the handler of a request: `at` is its await, `conn` the client's
connection, `out` the response, `up` the upstream request and response, `wire`
what has arrived from the upstream and was not read, `pending` the buffer of
`forwardSse`. An action is what runs between two awaits; timers, data and the
end of either connection come between any two of them. A byte is a newline, a
carriage return or another one; an event ends at the blank line `sseBoundary`
looks for, which takes two or four bytes and may be cut by the end of a chunk.
`Resumed` is the loop over the events of a chunk, `Offered` with the await of the
hook of each. The hook of a stream, a response or an event may keep, drop,
replace, close, exceed a limit or throw. `source`, `passed`, `events` and
`closing` are history; `wire` holds one unread chunk. One request is enough: handlers share only `activeUpstreams` and the
close of the proxy, which acts on each alike.

Abstractions to know about: headers, redaction and what a replacement says; a
request body is read or refused as a whole; the grace period of `close()` is a
step that may come at any time after it began. `draining`, the wait of
`writeChunk` for a client that does not read, has no timer of its own, and a
client that leaves then never lets it end: `HandlersSettle` excepts it. The timer
of its upstream still runs, so that the upstream is released
(`UpstreamsAreTimed`).

### ClientTest and the code

`outer` is `commandTest` in the process the user started, with the timer of
`waitForChild`; `client` is the program it spawned and `run` the runs of the
proxy that program started, each `runProxyPack` followed by the reports and the
result file. They share the file alone. A run that is killed while it writes,
or writes while another does, may leave a torn file; what was in the file
before the command is `earlier`. Of the session of a run, which is
`StdioProxy`'s, this module keeps its pipe from the client, and its target: a
target that survives SIGTERM is `stubborn`. A run that has written its report is
`done`; it has set `process.exitCode` and exits when nothing keeps its process,
neither such a target nor the pipe of a client that has not closed it (`RunExits`).

### Assertions, ProxyEvaluation and the code

A JSON value is a number or missing; `Assertions` has an operator per
evaluation function and `PackVerdicts` for `evaluateAssertions`. A verdict is
`passed` or the category of its finding.
`ProxyEvaluation` runs `StdioProxy` between two observations. What the target
has committed is known in the model (`committed`), while the code only sees the
snapshots: `PassesAreTrue` compares the two. Calls that were answered with a
result are committed, those read and not answered, or refused, may be.
`CallEvent` is one element of `captureEvents`: `ResponseOf` and
`VisibleMutation` are its two searches. Two pipelined calls of one tool show
when the second search finds the answer of another call; `LossIsSeen` states
what is right about it all the same, `RetryIsBlamedAfterLoss` what is not.
Two things a reader may not expect: a real timeout is not a lost response to
the evaluation, only an injected one is; and calls the client sends as
notifications are not counted as physical.

### JsonlBridge and the code

`parseJsonl` never looks back, so one action reads a record as it is written.
`valid` stands for the checks of single fields. `AcceptsWellFormed` compares
the parser, which keeps `adapter`, `runId` and `terminal`, with a definition of
a well-formed stream. A `transport_error` without an error object leaves a
complete run judged; `JudgedWhenComplete`, a part of `VerdictsNeedEvidence`, says so.

### GuidedCapture and the code

A capture is recorded, may lose an event, have two events swapped or lose its
digest, and becomes a pack by `capture generate` or by `capture guide` with a
confirmation. The starter pack takes the calls in the order of the file, the
guide in that of their numbers: the k-th is the event that k - 1 others precede
(`Sooner`). A pack of the guide has an effect contract (`EffectContract`), which is
what blocks, besides the call counts; a starter pack has none. A confirmation is
refused as the code does it, by its own checks and by those of the pack that would
be written (`Confirmed`). A capture that was changed and kept its digest
is reported as modified; one that lost its digest is not, and the properties
exclude it where that matters.

### MCEvidence

The three ways to evidence share a pack and the operators of `Assertions`;
`command` is which of them the invocation is. Its steps are those of
`EvaluationNext`, `BridgeNext` or `GuideNext`.

## Runs

| Run | Instance | Shows |
|---|---|---|
| `ProxyRun` | two pipelined calls of one tool, the second with `stale_result`; backpressure; run timer, one or two interrupts, exit, invalid line, a client that closes its end; target ignores the end of input | one answer per request (`AtMostOneResponse`), stale data that the client has seen (`StaleWasSeen`), nothing from after a timeout (`TimeoutIsFinal`); the run ends unless it waits for drain or the target outlives it (`RunEnds`), a target that heeds SIGTERM is gone (`TargetStopped`) |
| `ProxyMessages` | a duplicated call, a request of the target with the same JSON-RPC id and its answer, and the observations around them; backpressure; interrupt, a client that closes its end; target ignores the end of input | the duplicate stays hidden and the target executes other calls once (`DuplicatesContained`), success means all is delivered (`SuccessSettlesAll`); what the capture claims and was not delivered has failed the run (`TrafficRecorded`); verdicts on counts are right about the target (`CountsAreTrue`), answers belong to their calls (`ResponsesPaired`) |
| `ProxyCapture` | two calls and a notification, the first sent twice, the second denied, the third lost; backpressure; a target that SIGTERM stops; 10 events, 12 bytes | the capture is sound (`CaptureIsSound`), and true of commits (`CommitStatusIsTrue`); k-th mutation for the k-th call, lines in order (`CallsKeepRank`) |
| `ProxySigterm` | one call, a target that only SIGKILL stops | violated: the target survives |
| `RunnerPacks` | three packs: two steps, the first with two attempts, with a duplicate and an error on the first call, a denial of the second, a delay and stale data on the third, under disconnects and a refused set-up; three steps in two contexts, with stale data and a stall beyond the budget, under signals and a close that is not confirmed; a call with a delay, a partial success and a loss | attempts follow the policy and occurrences the attempts, in order (`AttemptsFollowPolicy`); what took effect has an event (`EffectsHaveEvents`), what matched a record, once (`MatchedAccounted`); only complete runs are judged (`VerdictOnCompleteRun`); stale data is an earlier answer in the context (`StaleFromEarlier`); a call reported as committed took effect (`CommitClaimIsTrue`); the run returns and background work ends (`RunReturns`), and a target that may be alive is reported (`ReportedGone`) |
| `HostedRun` | an upload, a deletion, a get and a list of record 1; two older records and a file that cannot be read back, `maxStoredRuns` 1, retention of two ticks of two; one failing step, hang-up, kill or power failure; stop and start at any time | the service implements `RunStore`, so confirmed and deleted records stay so across crashes (`RefinesStore`); count and expiry hold (`LimitsKept`); `stop()` drains and leaves no stray file (`StopDrains`); every request is answered or lost (`RequestsAnswered`) |
| `HttpRun` | one POST answered at once or by a stream, up to ten bytes in chunks that cut blank lines or hold two of them, limits of 5 (body), 4 (event) and 9 (session) bytes; any decision of the hooks; all timers; either connection lost at any time; close at any time | open upstreams are timed (`UpstreamsAreTimed`), events conserved (`StreamConserved`), nothing cut looks complete to the client or in the log (`EndingsAreTrue`), handlers settle without open upstreams (`HandlersSettle`), a close releases for good (`CloseReleases`) |
| `ClientRun` | a client that starts up to two runs, closes or kills them at any step, exits, hangs or ignores SIGTERM; targets that may survive SIGTERM; with or without an earlier report | a verdict is that of a complete run of the session, never of pieces (`VerdictIsOfARun`); the command ends, and so do the runs whose targets stop (`CommandAndRunsEnd`) |
| `ClientStale` | the same | violated: exit code 0 without a run, from an earlier report |
| `EvidenceRun` | a session of two calls, the first lost, the second partial, with snapshots that fail or are refused; streams of up to six records out of 14 with at most five accepted; captures of up to four events with an edit | what passes is true of the external state (`PassesAreTrue`); attribution and recorded mutations are right, a loss is seen (`MutationsAreTold`); the bridge accepts the one-run streams (`AcceptsWellFormed`), judges complete ones on evidence (`VerdictsNeedEvidence`) and counts losses as reported (`LossesAsReported`); packs replay the session with the roles declared (`PackFollowsTheSession`), and the fault shows (`FaultIsToldFromControl`) |
| `EvidenceInconclusive` | a session and an observer that is not sampled | violated: a forbidden effect passes without evidence |
| `EvidenceBlame` | two pipelined calls, the second lost | violated: the first is blamed |

Properties are conjunctions of named parts, whose comments say what each part
is. The one type invariant among the runs is that of the proxy; the theorems
also state those of the runner, the hosted service, the HTTP proxy, the bridge
and `test --client`, and `TypeOK` of the other modules documents their variables.

The bounds. Two requests are needed for pipelining, for replies out of order
and for stale data, and suffice for relations between two calls; the
notification is the third call of a tool in the runs on ranks and order. The
properties compare at most two messages, or one with its duplicate. The limits
of `ProxyCapture` are chosen so that either may be hit first, or neither, with
a large event (a mutation, of size 3) omitted before small ones are kept. The
other runs have room for all events, or none (`EventLimit = 0`) where no
property reads the capture, to keep apart only states that differ elsewhere.
In the runner, a third call of a tool is needed for a stale result behind a
retry in another context, and a second attempt for parents; one observation
before and after the steps gives an await at which a run that has done its
steps can still fail. A run has at most four calls besides duplicates and
observations. Disconnects and signals are in
packs of their own, since either ends a run at every await.
In `HostedRun` two records for a limit of one make the start prune; all records
of the first tick have one `createdAt`, so the uploaded record, the first by
name, may be the oldest; uploaded a tick later it outlives the others. The file
that cannot be read back is the last by name. Clients
ask for the record that is uploaded, before, while and after it is. `MaxTime`
and `MaxMishaps` bound the clock and the failures. A second upload would only
repeat the first behind it in the queue.
In `HttpRun` a chunk is half of a blank line of either kind, or the other half with
a whole event behind it, so that a blank line is cut by the end of a chunk and a
chunk ends two events, with the hook between them; each limit can be met and
passed. `ClientRun` needs two runs to write over each other.
In `EvidenceRun` a lost call followed by another is the least that the recovery
contracts tell apart; `StreamBound` is one more than the limit on records, and
the records include one wrong in each way; four events of a capture hold two
calls and two listings. `ProxyMessages` has one request, which with its duplicate, the request of the
target, backpressure, a client that may be gone and room for all events makes 1.2 million
states; its calls of probes are allowed (`OptedInSpec`), the other case is in `EvidenceRun`.
The proxy and the runner need no other bound: all counters are bounded by the messages, or
by the steps, their attempts and the mutations.

Fairness (`FairSpec`): continuations that are ready run, timers fire, and a
target that was sent what it heeds exits, after which its close event is
delivered; this is what Node.js and the operating system provide. In the runner
also the deadline passes, and a close ends, confirmed or not, since
`closeClient` bounds it by `MAX_CLOSE_WAIT_MS`. Nothing is
required of the client (it may never end its input) nor of a target that was
not told to stop; in the runner nothing is required of the target at all.
In the HTTP proxy timers fire, a destroyed upstream reports its end, hooks
return and what has arrived is read; neither the client nor the upstream has to
do anything. For `test --client` the timer fires, SIGKILL ends the client, and
a run goes on unless a target that survived SIGTERM keeps it; nothing makes a
client close a pipe, nor such a target end.
In the hosted service steps of I/O end or fail, and `requestTimeout` bounds the
reading of a body; nobody has to stop or start the service.
Deadlock is not checked in the runs of the runner, the HTTP proxy and the
client, where what has returned, settled or exited has no next step:
`RunReturns`, `HandlersSettle` and `CommandAndRunsEnd` say what
must be reached. `RunEnds` needs the run timer, which is on by default
(`maxRunMs`), and excepts two cases that the code does not bound: a stream that
was ended emits no drain event, so a task at line 1158 of `proxy.ts` waits until
an error event, if there is one; and a target that survives being closed keeps
the race at line 965 waiting until its client ends.

### Disagreements with the documentation

- `ProxySigterm`: `target.killed` is true once a signal was sent, not when the
  process is gone, so the condition on line 205 of `proxy.ts` never lets
  SIGKILL follow a SIGTERM that was sent. The product scope
  (`docs/project/26-final-expansion-scope/01-second-pass-product-scope.md:117`)
  promises that the target is closed or killed within the grace period.
- `ClientStale`: `commandTest` neither removes the result file of an earlier
  command nor compares it with its session, so a client that exits with 0
  without a run of the proxy gets the earlier verdict. The CLI specification
  (`docs/project/09-cli-and-config-spec.md:51`) ties exit code 0 to a completed
  execution.
- `EvidenceInconclusive`: `evaluateStateContract` compares snapshots without
  looking at their error; two missing ones are equal, so a forbidden entry
  passes on no evidence. `README.md:153` excludes this.
- `EvidenceBlame`: `visibleMutation` takes the first later mutated answer of
  the tool, whichever call it answers, so of two pipelined calls the first gets
  the loss of the second and a contract fails for a retry that was none
  (message of `assertions.ts:862`).

Found while modelling, and only described here:

- A request that arrives while the target is being closed registers a promise,
  then fails to be written; nobody awaits the promise that `rejectPending`
  rejects, and Node.js ends the process (`RejectPending` then leads to `crashed`).
- A response that is recorded at line 799 of `proxy.ts` is written at line 806:
  when the client has closed its end, the capture claims a response that was not
  delivered, and the run fails. Where nobody awaits the write (an answer to an id
  that the proxy no longer knows, or a message of the target: lines 828 and
  845), its rejection ends the process, and no capture is saved.
- A second SIGINT or SIGTERM ends the proxy before it has closed its target, as
  `process.once` has removed the handler, so the target may be left behind.
- The process of a run lives on while a target survives SIGTERM, as
  `cli.ts:1671-1674` only sets the exit code.
- Client lines that arrive after `capture.sourceSha256` was computed are still
  recorded and saved, so `loadCapture` takes an untouched file for a modified
  one.
- With `malformed_result` and then `commit_then_response_lost` on one call, a
  call that never took effect is reported as committed (`mutations.ts:250`), in
  contrast to `03-target-architecture-and-contracts.md:205-212`.
  `CommitClaimIsTrue` holds without such a pair.
- `withTimeout` gives up on `controller.after` but does not stop it, so a
  duplicate call may start after the result was returned.
- `readAllStoredRuns` skips files longer than `2 * maxBodyBytes + 64 KiB`, but
  a deeply nested body is written longer than that: it is confirmed, then never
  found, counted or expired. "Retained runs: 1,000; the oldest are removed after a
  successful upload" (`examples/hosted/README.md:77`) does not hold of such files,
  which `Unreadable` stands for: `LimitsKept` counts the others. A pruning that fails
  between two answers also leaves more for that long.
- An HTTP stream that the hook drops at its start is drained without a timer,
  and with `progress_stall` its upstream is left open until it ends by itself
  (`Abandoned`).
- When the proxy is closed during the hook at the start of a stream whose upstream
  has ended, nothing of the stream is passed on, and the response ends with the
  status of the upstream as if it were complete (`NothingTruncated` excepts it).
- The contract of a guided pack says `exactly_once` or `at_most_once` of a tool that
  may have been captured several times; then it fails without the fault as well
  (`duplicate_transition`), and only the call counts tell the two apart
  (`FaultIsToldFromControl`).

## Proofs

Eight modules hold theorems. Each states a property for all values of the
constants that satisfy the assumptions of its module; these say what the schema
of a pack, the options or the shape of a message guarantee, and TLC evaluates
them on every instance. Every theorem about reachable states has the same form:
an invariant that holds initially, that every step keeps, and that implies the
property. There is a lemma per action or group of actions, and the temporal
steps use `PTL`.

### The proxy

`StdioProxyProofs` proves, for all messages, tools, mutations, limits and
disturbances that satisfy `LimitsAssumption` and `ProxyAssumption` (sets that
ids keep apart; sizes are natural numbers; mutations are a sequence of
mutation records):

- `TypeCorrect`: `Spec => []TypeOK`.
- `CaptureSound`: the capture keeps its limits, is marked truncated with one
  warning exactly when an event is missing, and numbers events in order.
  Its first lemmas say that `Record` preserves `SoundLog`, whatever the event.
- `AtMostOne`: no request is answered twice.

The invariant behind the first two is `TypeInv`: the types, a sound log, and
that only calls of tools have a mutation (`ChosenHasTool`: without it the
lookup of a stale response has no type). `AtMostOneResponse` is not inductive: a second
answer can come from the task, or from a reply of the target that is forwarded
because its id is no longer known. `CallInv` rules both out. `ResponseOnce`
says that an id is in `toClient` only when its task is done, or was rejected
by the end of the run and its reply forwarded afterwards, which happens once
as the target answers a frame once. To keep it, a reply that finds its key
neither pending nor discarded must belong to a rejected promise: `PendingOpen`
(the map holds exactly the open promises), `SettledByTarget` (a result or an
error has an answer, a timeout leaves its id in `discarded` until the answer,
a frame that was sent has a promise), `OpenUndelivered` and `Unstarted` (which
tasks may find their promise open or unused), `MutatesReply` (mutations work
on replies), `FramesOfWriters` and `DrainsHead` (a frame in the chain belongs
to the one task that waits for its write).

`StdioTrafficProofs` goes on from these invariants, under the same assumptions.
`FramesInv` is common to its theorems: what the target has read belongs to a
task that has begun, a frame is both read and in the chain only while its write
waits for `drain`, and a task that awaits more than its write was read.

- `SuccessIsComplete`: a run that reports success has answered the requests it
  awaited and delivered or denied the other lines. A failed task must have told
  `fail`, and a task that is done must have answered or been read, while other
  tasks go on (`SuccessInv`).
- `StaleIsReal`: stale data was given to the client before. `LastSeen` says it
  of what `lastSuccessfulResponses` holds: it is set when the reply is
  delivered, not when it arrives.
- `TimeoutsAreFinal`: what the target answers after a timeout reaches the client
  in no form, not as stale data or as the answer to an unknown id either; and
  what it is given as an outcome is what the target answered.
- `DuplicatesStayInside`: the client sees no id of a duplicate while the run
  goes on, and the target no frame twice. This needs that a promise is rejected
  only when the run has failed or the target closed (`RejectedLate`), so that
  the reply to a duplicate finds its id, and that a duplicate was declared.
- `CommitsAreTrue` and `TrafficIsTold`: what the capture says was sent, answered
  and committed is so, and it misses no call or response unless it says it is
  truncated. A response that it claims and the client did not get belongs to a task
  whose write to the client failed, and which has failed the run or is about to
  (`undelivered`). Both follow from `TrafficInv`: every recorded event is truthful,
  every call and every answer was recorded, a promise with a result was
  answered with one, and what is on its way was not to be denied.
- `RanksAreKept`: the k-th call of a tool gets the k-th mutation (`RankInv`:
  a message that came is in the capture once, and the counters count them), and
  the target reads the lines in order (`OrderInv`: what it has read, what is
  queued, and the one before the other).

### The scripted runner

`ScriptedRunnerProofs` proves every invariant and action property of
`RunnerPacks` for all packs, answers and disturbances that satisfy
`RunnerAssumption` and `MutationsAssumption` (steps and mutations are
sequences of what the schema of a pack allows). It is built in layers, each an
invariant that uses the ones before it:

- `RunInv`: types, and where the run is: the step in range, who awaits the one
  open call, and that work in the background belongs to an expired run
  (`JobIsOfAttempt`). `RunnerTypeCorrect` follows.
- `IdInv`: ids are counted, the events are in their order, and an attempt that is
  mutated has its event, also when a duplicate or the end of the run came between.
- `PolicyInv` and `CountInv`: attempts follow each other as the policy says, and
  the controller has counted the calls that have events. `AttemptsAsPlanned`.
- `RecInv`: while the mutations of an event are applied, each has one record or
  is still in the list; `markFailed` records the rest. `MutationsAccounted`.
- `CallsHaveEvents`: what was sent has an event, or is the call that is open.
  `EffectsAreCalls`.
- `GoneIsClosed`: the report says that the target is gone only after a close
  that was confirmed, after which nothing takes effect. `GoneForGood`.
- `StepsAttempted`: all steps before the one at work were attempted to their
  ends. `VerdictsOfCompleteRuns`.
- `OutputInv`: `previousSuccesses`, the outcome of an open call and the job hold
  outputs that the target gave. `StaleOutputsAreEarlier`.
- `CommitInv`: an outcome that says committed, of a call that no mutation
  answered for, took effect. `CommitClaimsAreTrue` has one hypothesis,
  `SuccessIsEffect`: a target does not answer without an error and say that it
  did nothing. Behind `McpStdioClient` it holds, as `callTool` says only
  `unknown` (`mcp-client.ts:251-305`); it is false of a fixture tool
  without effects (`fixture-client.ts:111-117`), which a loss then reports as
  committed.

### The hosted service

`HostedStoreProofs` proves, for all records, requests, limits and orders of
failures, kills and power failures that satisfy `HostedAssumption`:

- `StopDrainsQueue`: when `stop()` has resolved nothing touches the directory
  and no temporary file is left, unless a crash left it.
- `RefinementHolds`: the service implements `RunStore`, step by step: an action
  that renames or unlinks is `Store` or `Remove`, the settling of an operation
  is `Reply`, all others stutter.
- `LimitsHold`: an answer that comes after a pruning, and the start of the service,
  find no more records than the limit, and show none that had expired when its
  request arrived.
- `StoreTypeCorrect`.

`StoreInv` says where the head of the queue is, and what it has done by then:
`StepsOfKind`, `RecordsAreMade` (a record has a time exactly from the rename
on), `SyncedWhenTold` (an operation that will report success has synced) and
`PruningIsRight` (what pruning has still to remove has expired, or is older
than all that it keeps; what it keeps is within the limits). No theorem assumes
anything of `Unreadable`, which may also hold what a client uploads: `HostedRun`
has one such file of an earlier run.

### The HTTP proxy

`HttpTransportProofs` proves, for any number of requests, chunks, limits and
decisions of the hooks that satisfy `HttpAssumption`: `UpstreamsAreAlwaysTimed`,
`StreamIsConserved`, `EndingsAreAlwaysTrue` and `HttpTypeCorrect`. As handlers
share only the phase of the proxy, `HandlersInv` is a statement about one
handler and the phase, and each action is reduced to its handler: the timer is
the one of the wait (`TimersFit`), the upstream is as far as the handler is
(`ProgressFits`), what was passed, is buffered and is unread make up what came
(`BytesFit`), and what looks complete is (`EndFits`, `LogFits`). That a stream
is cut into the same events however it is chunked rests on lemmas about the
first boundary in a sequence of bytes.

### Evidence

`EvidenceProofs` proves about the bridge, for all records, packs and limits that
satisfy `BridgeAssumption` (a record has a type, flags and a run, and one that
ends a run has a status) and `PackAssumption` (`max_attempts` is a number or
left out, `pack.ts:167`; a contract has one of four cardinalities, `pack.ts:136`):

- `AcceptsExactly`: a stream is parsed exactly if it is well-formed, a
  definition that looks at the whole stream.
- `BridgeTypeCorrect`, and `JudgesClosedRuns`: verdicts need a last record that
  closed the run as complete.
- `VerdictsRestOnEvidence`: no run with a standing transport error is judged,
  and an expectation passes only on conclusive snapshots that agree with it.
- `LossesAreReported`: a contract that forbids retries fails when a call follows
  a reported loss, and within its attempts only then.

`BridgeInv` says what the three variables of the parser know of the records
read so far (`ReadSoFar`, `Closed`); `Extends` shows that a record which passes
keeps it, `Refuses` that one which does not pass is what well-formedness
forbids, `Decides` that the checks at the end are what is still missing. The
verdicts are functions of the stream: `CallsStandAt` says where in it the
calls of the evaluated run come from, and `PhysicalCallsListed` that none of a
tool is overlooked or moved by the two filters.

About the evaluation of a proxied session it proves, under `ProxyAssumption` and
`EvaluationAssumption` as well (the client numbers its requests apart, the
proxy's own ids are apart from them, and contracts name tools):

- `PassesHold`: what passes is true of the external state. `ObservedInv` says
  that the two sets of effects are observations of the state before and after;
  an observation without an error has reached every probe
  (`ObservationReachesAll`, by the first probe that would stop it), so the
  merged effect of a sampled probe has both values, and that of another probe
  has an error (`MergedIsTrue`, `UsableIsSampled`).
- `ResponsesArePaired`: the outcome of a call event is an answer to that call.
- `CountsAreRight`: counts are those of the calls that the target read, up to
  those whose writes had not ended.
- `MutationsAreToldTruly`: attribution follows the answers, the account of
  applied mutations is complete, and a call after a loss is seen.

The last three join what `StdioTrafficProofs` knows of the session to what the
report makes of it. A session is a run of the proxy between two observations
(`SessionRunsProxy`), so `EvaluationSpec` has every invariant of `Spec`;
`CaptureInv` collects them. On the side of the session, each step tells what it
adds to the capture and what it does to its message (`Tale`). From the tales
follow `EventsFormed` (the shapes of recorded events, and that an event marked
with a mutation carries the one chosen for its message), `SendsInv` (a call is
sent once, before its answer is shown, and what was sent was read or is still
being written), `ToldInv` (what the capture tells of mutations is of messages
that were answered or denied, or whose task failed, and misses none) and
`LateInv` (once the run settles its tasks, none that it does not await applies
a mutation). On the side of the report, `CallEventsListed` and
`TargetCallsListed` say which entries of the capture the call events come from,
in which order, through both filters and the renumbering; `SentAreCounted`
turns the list of a tool's calls into a bijection with the calls that were
sent, and `UnreadIsFinite` lets cardinalities be compared.

Three details came out of these proofs. A notification that is forwarded takes an
occurrence of its mutation and never applies it, so `MutationsAccounted` is
about requests whose answer was delivered and about messages that are denied,
also when the denial could not be written. A `must_not_call` assertion
that names a step says nothing of the target, as no physical call of a capture
has a step, so `CountsAreTrue` is about those without one. And a contract may
have the cardinality `zero_or_one`, which is judged as `at_most_once`
(`assertions.ts:736-740`).

About packs from captures it proves, under `GuidedAssumption` (a hint is a
boolean or left out, `guided-capture.ts:588-595`):

- `PackIsTheSession`: without a warning, the pack replays the calls of the
  session in their order, and tools have the roles that they were last declared
  to have.
- `FaultsAreTold`: the call counts of a pack hold without its fault and fail with
  it; its contract tells the two apart exactly if the target was captured once and
  any number of calls will not do.

`GuideInv` says that a file consists of entries of the recording, none of them
twice, and that a pack was made from the file as it is. A file as long as the
recording is then a permutation of it (an injection of 1..n into itself is onto),
the entry with number k has k - 1 entries before it, and sorting gives the
recording back (`SortedIsRecorded`), so that the calls a filter takes from it are
the calls of the session (`ChosenFollow`). What collecting hints leaves behind is the
last declaration (`HintIsLast`). `ReplayIsCounted` counts the calls of a replay,
and one more with a second delivery; the retry policy stands on the first call of
the target, which is the one that the mutation hits. `classifyTool` needs a fixed
order of its conditions, as one tool may declare itself read-only and
destructive. A CASE leaves open which of two true arms it takes, so this and
other definitions with overlapping conditions (`RecoveryVerdict`, `CliDecision`,
`CommitOf`, `TookEffect`) return early by IF, as the code does.

### `test --client`

`ClientTestProofs` proves, for any set of runs whose names differ from what a
file may hold otherwise (`ClientAssumption`):

- `VerdictsAreOfRuns`: exit code 0 or 1 that rests on a run of this session
  rests on one that observed twice, lasted until its client ended it and wrote
  its report, and never on an empty or torn file.
- `ClientTypeCorrect`.

`ClientInv` adds to the properties what a run has completed when it is where it
is without an error (`Sound`), and that a whole report in the file was written
by its run. A run that has written is not changed any more, so `OneRunSteps`
reduces each action of a run to that run.

### Filters

`SelectionProofs` is what the other modules know about arrays. `SelectSeq` is
built into TLC and opaque to the provers, so `Selection` is a filter written as
a recursive function. `SelectionLists` says that it returns the chosen elements,
all of them, each once, in order; `SelectionRanks` gives the k-th of them,
`LastSelected` the last. Induction theorems cannot be cited, as they
take an operator; `UpTo` states induction over a set of numbers instead, and
follows from the least counterexample (`LeastElement`). `TakenEquation` is the
defining equation of the recursive function.

### Only model-checked

- The liveness properties `RunEnds`, `TargetStopped`, `RunReturns`,
  `RequestsAnswered`, `HandlersSettle`, `CloseReleases` and
  `CommandAndRunsEnd`: they need fairness and ENABLED, which are out of the
  provers' reach.
- The violations: each is one behaviour.

## Not modelled

Parsing, schemas, formatting and redaction have no state to speak of, and their
properties are those of the text they read and write. Of what is modelled, paths
into JSON values, the wording and fingerprints of findings, ids, and state
entries that fall back on a path of a fixture are left out; so is the
`manifest` of a run. The report browser serves files without state. The fixture
client and the observers' child processes are not modelled: the runner's target
is the one behind `McpStdioClient`, and an observation succeeds, fails or is
refused. `PROJECT.json` lists each component with its status.
