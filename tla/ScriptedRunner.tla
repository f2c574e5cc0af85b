---------------------------- MODULE ScriptedRunner ----------------------------
(***************************************************************************)
(* runPack (src/src/runner.ts): the scripted run of a pack.  It connects   *)
(* to the target, observes the state, calls the tools of the steps with    *)
(* their retries under the declared mutations, observes again, judges the  *)
(* events and closes the target.  Every await races a timer; what lost the *)
(* race goes on in the background.                                         *)
(*                                                                         *)
(* A step of the model is what runs from one await to the next, or a part  *)
(* of that; timers, replies and signals only come when nothing else is     *)
(* ready (Quiet).  Assertions are left out but for whether they are        *)
(* evaluated, and so are manifests, effects and warnings.                  *)
(***************************************************************************)
EXTENDS MutationController

CONSTANTS
    Probes,        \* number of effect probes that call a tool
    Answers        \* what a tool may answer: error kind and commit status

Steps == pack.steps
Disturbances == pack.disturbances  \* what may go wrong besides: see below

RetryKinds == {"timeout", "retryable_error", "rate_limit", "permission_denied",
               "transport_error"}
Step ==
    [ call: Tools, context: Contexts, max_attempts: Nat \ {0},
      on: SUBSET RetryKinds ]   \* retry.on

ASSUME RunnerAssumption ==
    /\ \A p \in Packs :
          /\ p.steps \in Seq(Step)
          /\ p.disturbances \subseteq {"disconnect", "signal", "slow_close", "setup"}
    /\ Probes \in Nat
    /\ Answers \subseteq [error: ErrorKinds \cup {"none"}, commit: CommitStatuses]

VARIABLES
    at,           \* where the body of runPack is
    probe,        \* observations made in this phase
    step,         \* index of the step
    attempt,      \* attempt
    parent,       \* previousAttemptEventId
    current,      \* mainEventId and mutationList of the attempt
    finalError,   \* finalCallError
    events,       \* events
    counter,      \* counter.value: event ids given out
    ctl,          \* controller
    job,          \* controller.after: its own activity
    call,         \* call(): at most one is not over at any time
    sent,         \* calls on their way to the target or in it
    committed,    \* calls that took effect
    late,         \* deadlineReached()
    expired,      \* runExpired
    interrupted,  \* interrupted
    closing,      \* closeClient
    failure,      \* executionError
    report        \* what the returned RunResult says

loop == <<step, attempt, parent, current, finalError>>
stop == <<late, expired, interrupted, closing>>
target == <<sent, committed>>
vars == <<pack, at, probe, loop, events, counter, ctl, job, call, target, stop, failure, report>>

Mains == {"connecting", "connect_closing", "before", "probing_before", "attempt", "calling",
          "mutating", "abandoning", "step_end", "steps_done", "after", "probing_after",
          "finish", "closing", "returned"}

NoJob == [at |-> "idle", list |-> {}, result |-> NoOutcome, original |-> NoOutcome,
          prior |-> NoOutcome, of |-> 0]
NoCallMade == [at |-> "idle", by |-> "main", of |-> Id(0), outcome |-> NoOutcome]
NoReport == [made |-> FALSE, evaluated |-> FALSE, records |-> <<>>, processClosed |-> FALSE]

\* Errors of the kinds spawn, protocol and internal do what a transport error does.
Immediate == {"configuration", "initialization", "transport_error"}
CallFailures == Immediate \cup {"timeout"}

-------------------------------------------------------------------------------
(* The event loop and the clock.                                           *)

Closed == closing \in {"closed", "unconfirmed"}
Settled(caller) == call.at = "settled" /\ call.by = caller

\* The body of runPack awaits something that has not happened.
MainWaits ==
    \/ at \in {"connecting", "returned"}
    \/ at \in {"connect_closing", "abandoning", "closing"} /\ ~Closed
    \/ at \in {"probing_before", "calling", "probing_after"} /\ ~Settled("main")
    \/ at = "mutating" /\ job.at \notin {"done", "threw"}

\* The body runs from one await to the next; nothing comes in between.
MainRuns == at \in {"before", "attempt", "step_end", "steps_done", "after", "finish"}

JobWaits ==
    \/ job.at \in {"idle", "delaying", "done", "threw"}
    \/ job.at = "calling" /\ ~Settled("job")

Quiet == MainWaits /\ JobWaits /\ ~(call.at = "closing" /\ Closed)

\* Time passes at any moment of the run.
DeadlinePasses ==
    /\ ~late
    /\ at # "returned"
    /\ late' = TRUE
    /\ UNCHANGED <<pack, at, probe, loop, events, counter, ctl, job, call, target, expired,
                   interrupted, closing, failure, report>>

StartCloseMutant == IF closing = "open" /\ ~expired THEN "pending" ELSE closing
    \* mutant: not closed when the run has expired

\* closeClient(): one close is shared by all its callers.
StartClose == IF closing = "open" THEN "pending" ELSE closing

\* client.close() returns, or fails or takes longer than MAX_CLOSE_WAIT_MS.
ClientCloses ==
    /\ Quiet
    /\ closing = "pending"
    /\ \/ closing' = "closed"
       \/ "slow_close" \in Disturbances /\ closing' = "unconfirmed"
    /\ UNCHANGED <<pack, at, probe, loop, events, counter, ctl, job, call, target, late, expired,
                   interrupted, failure, report>>

\* onSignal
Signal ==
    /\ Quiet
    /\ "signal" \in Disturbances
    /\ at # "returned" /\ ~interrupted
    /\ interrupted' = TRUE
    /\ expired' = TRUE
    /\ closing' = StartClose
    /\ UNCHANGED <<pack, at, probe, loop, events, counter, ctl, job, call, target, late, failure,
                   report>>

-------------------------------------------------------------------------------
(* call(tool, args)                                                        *)

Called(caller, id) == [at |-> "open", by |-> caller, of |-> id, outcome |-> NoOutcome]

\* The race of call() is decided.  After the deadline the client is closed
\* before the outcome is returned.
Resolve(outcome) ==
    /\ call' = [call EXCEPT !.at = IF late THEN "closing" ELSE "settled",
                            !.outcome = outcome]
    /\ expired' = (expired \/ late)
    /\ closing' = IF late THEN StartClose ELSE closing

CallSettles ==
    /\ call.at = "closing" /\ Closed
    /\ call' = [call EXCEPT !.at = "settled"]
    /\ UNCHANGED <<pack, at, probe, loop, events, counter, ctl, job, target, stop, failure, report>>

\* Whether a call that was answered like this took effect.
TookEffect(answer) ==
    IF answer.commit \in {"not_attempted", "not_committed"} THEN {FALSE}
    ELSE IF answer.commit = "committed" \/ answer.error = "none" THEN {TRUE} ELSE BOOLEAN

\* The target handles a call that is awaited and answers it, perhaps while the
\* client is being closed,
TargetReplies(answer, effect) ==
    /\ Quiet
    /\ call.at = "open" /\ call.of \in sent
    /\ closing # "closed"
    /\ effect \in TookEffect(answer)
    /\ sent' = sent \ {call.of}
    /\ committed' = IF effect THEN committed \cup {call.of} ELSE committed
    /\ Resolve([ error |-> answer.error, commit |-> answer.commit,
                 output |-> IF answer.error = "none" THEN call.of ELSE NoCall ])
    /\ UNCHANGED <<pack, at, probe, loop, events, counter, ctl, job, late, interrupted, failure,
                   report>>

\* ... or handles it without an answer in time.
TargetIsSilent(id) ==
    /\ Quiet
    /\ id \in sent
    /\ closing # "closed"
    /\ sent' = sent \ {id}
    /\ committed' = committed \cup {id}
    /\ UNCHANGED <<pack, at, probe, loop, events, counter, ctl, job, call, stop, failure, report>>

\* The connection breaks, or the client is closed, under the call.  A duplicate
\* that starts on a closed client fails in the same way.
CallBreaks ==
    /\ Quiet
    /\ call.at = "open"
    /\ "disconnect" \in Disturbances \/ closing # "open"
    /\ Resolve(Failed("transport_error", "unknown"))
    /\ UNCHANGED <<pack, at, probe, loop, events, counter, ctl, job, target, late, interrupted,
                   failure, report>>

\* The request timer, of the client or of withTimeout.
CallTimesOut ==
    /\ Quiet
    /\ call.at = "open"
    /\ \E commit \in {"unknown", "undefined"} : Resolve(Failed("timeout", commit))
    /\ UNCHANGED <<pack, at, probe, loop, events, counter, ctl, job, target, late, interrupted,
                   failure, report>>

-------------------------------------------------------------------------------
(* Connecting and observing.                                               *)

\* client.connect and client.listTools.
Connects ==
    /\ at = "connecting" /\ Quiet
    /\ closing # "closed"
    /\ expired' = (expired \/ late)
    /\ failure' \in IF "setup" \in Disturbances THEN {"none", "configuration"} ELSE {"none"}
    /\ at' = "before"
    /\ UNCHANGED <<pack, probe, loop, events, counter, ctl, job, call, target, late, interrupted,
                   closing, report>>

ConnectFails ==
    /\ at = "connecting" /\ Quiet
    /\ "setup" \in Disturbances \/ closing # "open"
    /\ failure' \in {"transport_error", IF expired THEN "timeout" ELSE "initialization"}
    /\ at' = "before"
    /\ UNCHANGED <<pack, probe, loop, events, counter, ctl, job, call, target, stop, report>>

ConnectTimesOut ==
    /\ at = "connecting" /\ Quiet
    /\ expired' = (expired \/ late)
    /\ closing' = IF late THEN StartClose ELSE closing
    /\ failure' = "timeout"
    /\ at' = IF late THEN "connect_closing" ELSE "before"
    /\ UNCHANGED <<pack, probe, loop, events, counter, ctl, job, call, target, late, interrupted,
                   report>>

ConnectClosed ==
    /\ at = "connect_closing" /\ Closed
    /\ at' = "before"
    /\ UNCHANGED <<pack, probe, loop, events, counter, ctl, job, call, target, stop, failure, report>>

ProbeEvents == {n \in DOMAIN events : events[n].kind = "effect_probe"}

\* observeProbe, before the first step and after the last one.
Observe(phase, probing) ==
    /\ at = phase
    /\ failure = "none" /\ ~expired /\ probe < Probes
    /\ call' = Called("main", ProbeId(Cardinality(ProbeEvents) + 1))
    /\ sent' = sent \cup {call'.of}
    /\ at' = probing
    /\ UNCHANGED <<pack, probe, loop, events, counter, ctl, job, committed, stop, failure, report>>

\* Events keep what the target answered (underlying) next to what is visible.
Event(id, kind, from, list, outcome, physical) ==
    [ id |-> id, kind |-> kind, step |-> step, attempt |-> attempt, parent |-> from,
      mutations |-> list, error |-> outcome.error, commit |-> outcome.commit,
      output |-> outcome.output, underlying |-> outcome.error, physical |-> physical ]

Observed(phase, probing) ==
    /\ at = probing /\ Settled("main")
    /\ events' = Append(events,
                    [ Event(call.of, "effect_probe", NoCall, {}, call.outcome, TRUE)
                      EXCEPT !.step = 0, !.attempt = 1 ])
    /\ failure' = IF call.outcome.error \in CallFailures THEN call.outcome.error ELSE failure
    /\ expired' = (expired \/ late)
    /\ probe' = probe + 1
    /\ call' = NoCallMade
    /\ at' = phase
    /\ UNCHANGED <<pack, loop, counter, ctl, job, target, late, interrupted, closing, report>>

\* An observation is not made, or was the last one of its phase.
EndsObserving(phase, next) ==
    /\ at = phase
    /\ failure # "none" \/ expired \/ probe = Probes
    /\ at' = next
    /\ probe' = 0
    /\ UNCHANGED <<pack, loop, events, counter, ctl, job, call, target, stop, failure, report>>

-------------------------------------------------------------------------------
(* The steps of the pack.                                                  *)

ThisStep == Steps[step]
MatchedNow == Matching(ThisStep.call, ctl.calls[ThisStep.call] + 1)
Kind == IF attempt' > 1 THEN "retry" ELSE "step"

MainEvent(id, list, outcome, physical) ==
    [ Event(id, Kind, parent, list, outcome, physical) EXCEPT !.attempt = attempt' ]

RetriesMutant(error, n) ==  \* mutant: off by one
    error \in ThisStep.on /\ n <= ThisStep.max_attempts

\* Whether attempt n that ended in error is followed by another one.
Retries(error, n) == error \in ThisStep.on /\ n < ThisStep.max_attempts

\* The run is over: the step ends before its next attempt.
AttemptSkipped ==
    /\ at = "attempt"
    /\ expired
    /\ at' = "step_end"
    /\ UNCHANGED <<pack, probe, loop, events, counter, ctl, job, call, target, stop, failure, report>>

\* preflight answers the attempt: there is no physical call.
AttemptDenied ==
    LET i == Denial(MatchedNow)
        id == Id(counter + 1)
        error == Mutations[i].type
    IN
    /\ at = "attempt"
    /\ ~expired /\ Denies(MatchedNow)
    /\ attempt' = attempt + 1
    /\ counter' = counter + 1
    /\ ctl' = WithRecord(Counted(ctl, ThisStep.call), i, id, "blocked")
    /\ current' = [id |-> id, list |-> MatchedNow]
    /\ events' = Append(events,
                    [ MainEvent(id, MatchedNow, Failed(error, "not_attempted"), FALSE)
                      EXCEPT !.underlying = "none" ])
    /\ parent' = id
    /\ finalError' = error
    /\ at' = IF Retries(error, attempt') THEN "attempt" ELSE "step_end"
    /\ UNCHANGED <<pack, probe, step, job, call, target, stop, failure, report>>

AttemptCalls ==
    /\ at = "attempt"
    /\ ~expired /\ ~Denies(MatchedNow)
    /\ attempt' = attempt + 1
    /\ counter' = counter + 1
    /\ ctl' = Counted(ctl, ThisStep.call)
    /\ current' = [id |-> Id(counter'), list |-> MatchedNow]
    /\ call' = Called("main", Id(counter'))
    /\ sent' = sent \cup {call'.of}
    /\ at' = "calling"
    /\ UNCHANGED <<pack, probe, step, parent, finalError, events, job, committed, stop, failure,
                   report>>

\* The attempt ends with the visible outcome; evs has its event.
Conclude(evs, outcome) ==
    /\ events' = [n \in DOMAIN evs |->
                    IF evs[n].id # current.id THEN evs[n]
                    ELSE [evs[n] EXCEPT !.error = outcome.error, !.commit = outcome.commit,
                                        !.output = outcome.output]]
    /\ parent' = current.id
    /\ finalError' = outcome.error
    /\ at' = IF Retries(outcome.error, attempt) THEN "attempt" ELSE "step_end"
    /\ UNCHANGED <<pack, probe, step, attempt, current>>

Expiry == Failed("timeout", "undefined")

\* The event of the call that settled.
Recorded ==
    Append(events, Event(current.id, IF attempt > 1 THEN "retry" ELSE "step", parent,
                         current.list, call.outcome, TRUE))

\* The call failed, or the run is over: no mutation is applied.
CallFails ==
    /\ at = "calling" /\ Settled("main")
    /\ call.outcome.error \in Immediate
    /\ Conclude(Recorded, call.outcome)
    /\ call' = NoCallMade
    /\ UNCHANGED <<pack, counter, ctl, job, target, stop, failure, report>>

CallTooLateMutant ==  \* mutant: nothing is marked
    /\ at = "calling" /\ Settled("main")
    /\ call.outcome.error \notin Immediate
    /\ expired \/ late
    /\ expired' = TRUE
    /\ Conclude(Recorded, Expiry)
    /\ call' = NoCallMade
    /\ UNCHANGED <<pack, counter, ctl, job, target, late, interrupted, closing, failure, report>>
CallTooLate ==
    /\ at = "calling" /\ Settled("main")
    /\ call.outcome.error \notin Immediate
    /\ expired \/ late
    /\ expired' = TRUE
    /\ ctl' = MarkFailed(ctl, current.list, current.id)
    /\ Conclude(Recorded, Expiry)
    /\ call' = NoCallMade
    /\ UNCHANGED <<pack, counter, job, target, late, interrupted, closing, failure, report>>

\* controller.after starts, under a timer for the rest of the run.
CallMutates ==
    /\ at = "calling" /\ Settled("main")
    /\ call.outcome.error \notin Immediate
    /\ ~expired /\ ~late
    /\ events' = Recorded
    /\ job' = [ at |-> "applying", list |-> current.list, result |-> call.outcome,
                original |-> call.outcome, prior |-> ctl.previousSuccess[ThisStep.context],
                of |-> step ]
    /\ call' = NoCallMade
    /\ at' = "mutating"
    /\ UNCHANGED <<pack, probe, loop, counter, ctl, target, stop, failure, report>>

\* after() returned in time.
Mutated ==
    /\ at = "mutating" /\ job.at = "done"
    /\ Conclude(events, job.result)
    /\ job' = NoJob
    /\ UNCHANGED <<pack, counter, ctl, call, target, stop, failure, report>>

\* after() threw: a delay did not fit into the rest of the run.
MutationThrew ==
    /\ at = "mutating" /\ job.at = "threw"
    /\ expired' = TRUE
    /\ ctl' = MarkFailed(ctl, current.list, current.id)
    /\ Conclude(events, Expiry)
    /\ job' = NoJob
    /\ UNCHANGED <<pack, counter, call, target, late, interrupted, closing, failure, report>>

\* The timer of the run fires first: after() is abandoned, but goes on.
AfterTimesOut ==
    /\ Quiet
    /\ at = "mutating"
    /\ late
    /\ expired' = TRUE
    /\ closing' = StartClose
    /\ at' = "abandoning"
    /\ UNCHANGED <<pack, probe, loop, events, counter, ctl, job, call, target, late, interrupted,
                   failure, report>>

Abandons ==
    /\ at = "abandoning" /\ Closed
    /\ ctl' = MarkFailed(ctl, current.list, current.id)
    /\ Conclude(events, Expiry)
    /\ UNCHANGED <<pack, counter, job, call, target, stop, failure, report>>

\* The step is over: the run stops, or takes the next one.
StepEnds ==
    /\ at = "step_end"
    /\ failure' = IF finalError \in CallFailures THEN finalError ELSE failure
    /\ expired' = (expired \/ late)
    /\ IF expired' \/ failure' # "none" \/ step = Len(Steps)
       THEN /\ at' = "steps_done"
            /\ UNCHANGED loop
       ELSE /\ at' = "attempt"
            /\ step' = step + 1
            /\ attempt' = 0
            /\ parent' = NoCall
            /\ finalError' = "none"
            /\ UNCHANGED current
    /\ UNCHANGED <<pack, probe, events, counter, ctl, job, call, target, late, interrupted, closing,
                   report>>

-------------------------------------------------------------------------------
(* controller.after: one mutation after the other.                         *)

JobEvent == current.id

\* The mutation i is done with; the next one works on what it made.
Advance(i, found) ==
    LET mutation == Mutations[i]
        applies == Applies(mutation, job.result, job.prior, found)
    IN
    /\ ctl' = WithRecord(ctl, i, JobEvent, IF applies THEN "applied" ELSE "failed")
    /\ job' = [job EXCEPT !.at = "applying", !.list = @ \ {i},
                          !.result = IF applies
                                     THEN Changed(mutation, @, job.prior, JobEvent) ELSE @]

Applying(i) == job.at = "applying" /\ job.list # {} /\ i = FirstOf(job.list)

MutationApplies(i, found) ==
    /\ Applying(i)
    /\ ~Delays(Mutations[i]) /\ Mutations[i].type # "duplicate_call"
    /\ Advance(i, found)
    /\ UNCHANGED <<pack, at, probe, loop, events, counter, call, target, stop, failure, report>>

MutationDelays(i) ==
    /\ Applying(i)
    /\ Delays(Mutations[i])
    /\ job' = [job EXCEPT !.at = "delaying"]
    /\ UNCHANGED <<pack, at, probe, loop, events, counter, ctl, call, target, stop, failure, report>>

\* A delay within the budget that was left when after() started.
DelayEnds(i) ==
    /\ Quiet
    /\ job.at = "delaying" /\ i = FirstOf(job.list)
    /\ Mutations[i].duration = "short"
    /\ Advance(i, TRUE)
    /\ UNCHANGED <<pack, at, probe, loop, events, counter, call, target, stop, failure, report>>

\* A longer one is cut at the deadline.
DelayIsCut(i) ==
    /\ Quiet
    /\ job.at = "delaying" /\ i = FirstOf(job.list)
    /\ Mutations[i].duration = "long"
    /\ late
    /\ ctl' = WithRecord(ctl, i, JobEvent, "failed")
    /\ job' = [job EXCEPT !.at = "threw"]
    /\ UNCHANGED <<pack, at, probe, loop, events, counter, call, target, stop, failure, report>>

DuplicateStarts(i) ==
    /\ Applying(i)
    /\ Mutations[i].type = "duplicate_call"
    /\ counter' = counter + 1
    /\ call' = Called("job", Id(counter'))
    /\ sent' = IF closing = "open" THEN sent \cup {call'.of} ELSE sent
    /\ job' = [job EXCEPT !.at = "calling"]
    /\ UNCHANGED <<pack, at, probe, loop, events, ctl, committed, stop, failure, report>>

DuplicateReturnsMutant(i) ==  \* mutant: the duplicate has no event
    /\ job.at = "calling" /\ Settled("job") /\ i = FirstOf(job.list)
    /\ call' = NoCallMade
    /\ Advance(i, TRUE)
    /\ UNCHANGED <<pack, at, probe, loop, events, counter, target, stop, failure, report>>

DuplicateReturns(i) ==
    /\ job.at = "calling" /\ Settled("job") /\ i = FirstOf(job.list)
    /\ events' = Append(events,
                    Event(call.of, "duplicate", JobEvent, {i}, call.outcome, TRUE))
    /\ call' = NoCallMade
    /\ Advance(i, TRUE)
    /\ UNCHANGED <<pack, at, probe, loop, counter, target, stop, failure, report>>

JobEnds ==
    /\ job.at = "applying" /\ job.list = {}
    /\ ctl' = Remembered(ctl, Steps[job.of].context, job.original)
    /\ job' = [job EXCEPT !.at = "done"]
    /\ UNCHANGED <<pack, at, probe, loop, events, counter, call, target, stop, failure, report>>

-------------------------------------------------------------------------------
(* The end of the run.                                                     *)

StepsDone ==
    /\ at = "steps_done"
    /\ failure' = IF interrupted /\ failure = "none" THEN "transport_error" ELSE failure
    /\ at' = "after"
    /\ UNCHANGED <<pack, probe, loop, events, counter, ctl, job, call, target, stop, report>>

FinishMutant ==  \* mutant: an expired run is judged
    /\ at = "finish"
    /\ expired' = (expired \/ late)
    /\ failure' = failure
    /\ report' = [ NoReport EXCEPT !.made = TRUE, !.evaluated = failure' = "none",
                                   !.records = ctl.records ]
    /\ closing' = StartClose
    /\ at' = "closing"
    /\ UNCHANGED <<pack, probe, loop, events, counter, ctl, job, call, target, late, interrupted>>

\* The assertions are evaluated unless the run failed; the result is put
\* together and the client is closed.
Finish ==
    /\ at = "finish"
    /\ expired' = (expired \/ late)
    /\ failure' = IF failure = "none" /\ expired' THEN "timeout" ELSE failure
    /\ report' = [ NoReport EXCEPT !.made = TRUE, !.evaluated = failure' = "none",
                                   !.records = ctl.records ]
    /\ closing' = StartClose
    /\ at' = "closing"
    /\ UNCHANGED <<pack, probe, loop, events, counter, ctl, job, call, target, late, interrupted>>

ReturnsMutant ==  \* mutant: a close that failed counts
    /\ at = "closing" /\ Closed
    /\ at' = "returned"
    /\ report' = [report EXCEPT !.processClosed = TRUE]
    /\ UNCHANGED <<pack, probe, loop, events, counter, ctl, job, call, target, stop, failure>>
Returns ==
    /\ at = "closing" /\ Closed
    /\ at' = "returned"
    /\ report' = [report EXCEPT !.processClosed = closing = "closed"]
    /\ UNCHANGED <<pack, probe, loop, events, counter, ctl, job, call, target, stop, failure>>

\* Nothing goes on next to the body of runPack.
JobOver == job.at \in {"idle", "done", "threw"} /\ call.at = "idle"

-------------------------------------------------------------------------------
Init ==
    /\ pack \in Packs
    /\ at = "connecting" /\ probe = 0
    /\ step = 1 /\ attempt = 0 /\ parent = NoCall
    /\ current = [id |-> Id(0), list |-> {}]
    /\ finalError = "none"
    /\ events = <<>> /\ counter = 0
    /\ ctl = EmptyController
    /\ job = NoJob /\ call = NoCallMade
    /\ sent = {} /\ committed = {}
    /\ late = FALSE /\ expired = FALSE /\ interrupted = FALSE /\ closing = "open"
    /\ failure = "none" /\ report = NoReport

Observations ==
    \/ Observe("before", "probing_before") \/ Observed("before", "probing_before")
    \/ EndsObserving("before", IF failure = "none" /\ Steps # <<>> THEN "attempt" ELSE "steps_done")
    \/ Observe("after", "probing_after") \/ Observed("after", "probing_after")
    \/ EndsObserving("after", "finish")

Attempts ==
    \/ AttemptSkipped \/ AttemptDenied \/ AttemptCalls
    \/ CallFails \/ CallTooLate \/ CallMutates
    \/ Mutated \/ MutationThrew \/ Abandons
    \/ StepEnds

Job ==
    \/ \E i \in DOMAIN Mutations :
          \/ \E found \in BOOLEAN : MutationApplies(i, found)
          \/ MutationDelays(i)
          \/ DuplicateStarts(i)
          \/ DuplicateReturns(i)
    \/ JobEnds

\* What goes on next to the body of runPack, or while it waits for it.
Others == ~MainRuns /\ (CallSettles \/ Job)

\* Continuations of the body that are ready.
Continue ==
    \/ ConnectClosed
    \/ Observations
    \/ Attempts
    \/ StepsDone \/ Finish \/ Returns

Timer ==
    \/ ConnectTimesOut
    \/ CallTimesOut
    \/ AfterTimesOut
    \/ \E i \in DOMAIN Mutations : DelayEnds(i) \/ DelayIsCut(i)

Environment ==
    \/ DeadlinePasses
    \/ ClientCloses
    \/ Signal
    \/ \E answer \in Answers, effect \in BOOLEAN : TargetReplies(answer, effect)
    \/ \E id \in sent : TargetIsSilent(id)
    \/ CallBreaks
    \/ Connects \/ ConnectFails

Next ==
    \/ Continue
    \/ Others
    \/ Timer
    \/ Environment

Spec == Init /\ [][Next]_vars

\* Continuations run, timers fire and time passes; closeClient is bounded.
\* Nothing is required of the target.
Fairness ==
    /\ WF_vars(Continue)
    /\ WF_vars(Others)
    /\ WF_vars(ConnectTimesOut)
    /\ WF_vars(CallTimesOut)
    /\ WF_vars(AfterTimesOut)
    /\ \A i \in UNION {DOMAIN p.mutations : p \in Packs} :
          WF_vars(i \in DOMAIN Mutations /\ (DelayEnds(i) \/ DelayIsCut(i)))
    /\ WF_vars(DeadlinePasses)
    /\ WF_vars(ClientCloses)

FairSpec == Spec /\ Fairness

-------------------------------------------------------------------------------
EventType ==
    [ id: Ids, kind: {"step", "retry", "duplicate", "effect_probe"},
      step: 0..Len(Steps), attempt: Nat, parent: Ids \cup {NoCall},
      mutations: SUBSET DOMAIN Mutations, error: ErrorKinds \cup {"none"},
      commit: CommitStatuses, output: Ids \cup {NoCall},
      underlying: ErrorKinds \cup {"none"}, physical: BOOLEAN ]

\* The types of the variables.
TypeOK ==
    /\ pack \in Packs
    /\ at \in Mains
    /\ probe \in 0..Probes
    /\ step = 1 \/ step \in DOMAIN Steps
    /\ attempt \in Nat
    /\ parent \in Ids \cup {NoCall}
    /\ current \in [id: Ids, list: SUBSET DOMAIN Mutations]
    /\ finalError \in ErrorKinds \cup {"none"}
    /\ events \in Seq(EventType) /\ counter \in Nat
    /\ ctl \in Controller
    /\ job \in [ at: {"idle", "applying", "delaying", "calling", "done", "threw"},
                 list: SUBSET DOMAIN Mutations, result: Outcomes, original: Outcomes,
                 prior: Outcomes, of: 0..Len(Steps) ]
    /\ call \in [ at: {"idle", "open", "closing", "settled"}, by: {"main", "job"},
                  of: Ids, outcome: Outcomes ]
    /\ sent \subseteq Ids /\ committed \subseteq Ids
    /\ late \in BOOLEAN /\ expired \in BOOLEAN /\ interrupted \in BOOLEAN
    /\ closing \in {"open", "pending", "closed", "unconfirmed"}
    /\ failure \in ErrorKinds \cup {"none"}
    /\ report \in [made: BOOLEAN, evaluated: BOOLEAN,
                    records: Seq([ mutation: DOMAIN Mutations, event: Ids,
                                   result: {"applied", "blocked", "failed"} ]),
                    processClosed: BOOLEAN ]

-------------------------------------------------------------------------------
(* What the events say.                                                    *)

MainEvents == {n \in DOMAIN events : events[n].kind \in {"step", "retry"}}

\* Each attempt of a step but the first comes after one with the number before,
\* which is its parent and whose visible error is one to retry on.
RetriesFollowPolicy ==
    \A n \in MainEvents :
        LET e == events[n] IN
        /\ e.attempt \in 1..Steps[e.step].max_attempts
        /\ IF e.attempt = 1 THEN e.parent = NoCall /\ e.kind = "step"
           ELSE \E m \in MainEvents :
                   /\ m < n /\ events[m].id = e.parent
                   /\ events[m].step = e.step /\ events[m].attempt = e.attempt - 1
                   /\ events[m].error \in Steps[e.step].on

\* The k-th attempt to call a tool meets the mutations declared for the k-th
\* call.
MutationsOfRank ==
    \A n \in MainEvents :
        LET tool == Steps[events[n].step].call
            earlier == {m \in MainEvents : m < n /\ Steps[events[m].step].call = tool}
        IN  events[n].mutations = Matching(tool, Cardinality(earlier) + 1)

\* Ids and order of events agree, across duplicates and work in the background.
EventsOrdered ==
    \A m, n \in DOMAIN events :
        m < n /\ ~events[m].id.probe /\ ~events[n].id.probe => events[m].id.n < events[n].id.n

\* The events tell the attempts as they were made: they keep to the retry policy,
\* their order is that of their ids, and each has the mutations declared for its
\* place among the calls of the tool, whether earlier ones were denied, retried,
\* duplicated or given up on (runPack, MutationController.matching).
AttemptsFollowPolicy == RetriesFollowPolicy /\ MutationsOfRank /\ EventsOrdered

\* A response that is not the call's own is one that the target gave to an
\* earlier call with the same context.
StaleFromEarlier ==
    \A n \in MainEvents :
        LET e == events[n] IN
        e.output \notin {NoCall, e.id} =>
            \E m \in MainEvents :
                /\ m < n /\ events[m].id = e.output /\ events[m].underlying = "none"
                /\ Steps[events[m].step].context = Steps[e.step].context

\* When all has come to rest, the events are the calls that were made: what
\* took effect in the target has an event of a physical call.
EffectsHaveEvents ==
    at = "returned" /\ JobOver =>
        committed \subseteq {events[n].id : n \in {m \in DOMAIN events : events[m].physical}}

\* A call the report calls committed did take effect in the target, whatever
\* was injected into it in whatever order, unless a mutation among them put
\* another outcome in the place of the target's: malformed_result drops an error
\* that a later mutation then misses, and stale data brings its own status
\* (MutationController.apply).
CommitClaimIsTrue ==
    \A n \in MainEvents :
        LET kinds == {Mutations[i].type : i \in events[n].mutations} IN
        events[n].commit = "committed" /\ kinds \cap (Stales \cup {"malformed_result"}) = {} =>
            events[n].id \in committed

-------------------------------------------------------------------------------
(* What the report says.                                                   *)

\* Nothing goes on in the background, each step was attempted to its end, and
\* what took effect in the target has an event.
RunIsComplete ==
    /\ JobOver
    /\ \A s \in DOMAIN Steps : \E n \in MainEvents :
          LET e == events[n] IN
          /\ e.step = s
          /\ e.error \notin Steps[s].on \/ e.attempt = Steps[s].max_attempts
    /\ committed \cup sent \subseteq {events[n].id : n \in DOMAIN events}

\* Assertions are only evaluated on a complete run that was not interrupted, at
\* whatever await the signal, the deadline or the loss of the target came.
VerdictOnCompleteRun ==
    [][~report.evaluated /\ report'.evaluated => ~interrupted /\ RunIsComplete']_vars

\* A mutation is reported at most once for a call, although both the runner and
\* the abandoned activity record what became of it.
ReportedOnce ==
    \A m, n \in DOMAIN report.records :
        LET r == report.records[m]
            q == report.records[n]
        IN  r.mutation = q.mutation /\ r.event = q.event => m = n

\* Each mutation that is listed in the event of a call that reached the target has a
\* record, also when the run expired before, in or after the mutations, and none has
\* two (markFailed, recordsForReport).
MatchedAccounted ==
    /\ ReportedOnce
    /\ report.made =>
          \A n \in MainEvents :
              LET e == events[n] IN
              e.physical /\ e.underlying \notin Immediate =>
                  \A i \in e.mutations : \E m \in DOMAIN report.records :
                      report.records[m].mutation = i /\ report.records[m].event = e.id

\* When the report says that the target is gone, no call takes effect any more.
ReportedGone ==
    [][at = "returned" /\ report.processClosed => committed' = committed]_vars

-------------------------------------------------------------------------------
(* Progress.                                                               *)

\* The run returns, whatever the target does, and what it gave up on and left in
\* the background ends (withTimeout, closeClient).
RunReturns == <>[](at = "returned" /\ JobOver)
===============================================================================
