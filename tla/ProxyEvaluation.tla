--------------------------- MODULE ProxyEvaluation ---------------------------
(***************************************************************************)
(* runProxyPack (src/src/proxy-runner.ts): observe the external state, run *)
(* the proxy of StdioProxy between a real client and the target, observe   *)
(* again, and judge the capture with the operators of Assertions.  The     *)
(* report is a function of the final state, so it is an operator and no    *)
(* variable.                                                               *)
(*                                                                         *)
(* The external state is one value behind a JSON snapshot: how many calls  *)
(* the target committed, or Missing while the file has no such path.       *)
(***************************************************************************)
EXTENDS StdioProxy, Assertions

CONSTANTS
    IdOf,      \* JSON-RPC id of a request of the client or of the target
    ArgsOf,    \* what the contracts look at in the arguments of a message
    Initial,   \* what the external state may be before the session
    Probes     \* pack.effect_probes, in order

ASSUME EvaluationAssumption ==
    /\ DOMAIN IdOf = Requests \cup ServerRequests
    /\ \A value \in Initial : value.is \in {"missing", "number"}
    /\ DOMAIN ArgsOf = Requests \cup Notifications
    /\ Len(Probes) \in Nat /\ DOMAIN Probes = 1..Len(Probes)
    /\ \A i, j \in DOMAIN Probes : i # j => Probes[i].id # Probes[j].id
    \* The client numbers its requests apart, and apart from the proxy's own.
    /\ \A r, s \in Requests : IdOf[r] = IdOf[s] => r = s
    /\ \A m \in DOMAIN IdOf, r \in Requests : IdOf[m] # Duplicate(r)
    /\ \A c \in Pack.contracts : c.tool # NoTool
    /\ \A a \in Pack.assertions : a.type = "must_not_call" => a.tool # NoTool

VARIABLES
    stage,      \* what runProxyPack does
    optIn,      \* options.allowUnsafeProbes
    initial,    \* the external state before the session
    committed,  \* calls whose effect is in the external state after it
    before,     \* the first ObservationSet
    after       \* the second one

evaluationVars == <<stage, optIn, initial, committed, before, after>>
allVars == <<vars, stage, optIn, initial, committed, before, after>>

-------------------------------------------------------------------------------
(* observeExternalState and mergeObservations.                             *)

Sampling(i) == Probes[i].source = "json_command"
Sampled == {i \in DOMAIN Probes : Sampling(i)}
Allowed(i) == Probes[i].allowed /\ optIn

\* A refused or failed snapshot ends the observation; a probe of another
\* source is inconclusive and the loop goes on.
Stops(i, failing) == Sampling(i) /\ (~Allowed(i) \/ i \in failing)
Reached(failing) == {i \in DOMAIN Probes : \A j \in 1..(i - 1) : ~Stops(j, failing)}

ObserveState(failing, stored) ==
    [ effects |-> { [ id |-> Probes[i].id,
                      value |-> IF Sampling(i) /\ ~Stops(i, failing) THEN stored ELSE Missing,
                      error |-> ~Sampling(i) \/ Stops(i, failing) ] : i \in Reached(failing) },
      samples |-> Cardinality({i \in Reached(failing) : Sampling(i) /\ Allowed(i)}),
      error |-> \E i \in Reached(failing) : Stops(i, failing) ]

NoObservation == [effects |-> {}, samples |-> 0, error |-> FALSE]

ValueIn(observation, id) ==
    IF Known(observation.effects, id) THEN EffectOf(observation.effects, id).value ELSE Missing
ErrorIn(observation, id) ==
    Known(observation.effects, id) /\ EffectOf(observation.effects, id).error

\* mergeObservations(before.effects, after.effects).
MergedEffects ==
    { [ id |-> e.id, before |-> ValueIn(before, e.id), after |-> ValueIn(after, e.id),
        error |-> ErrorIn(before, e.id) \/ ErrorIn(after, e.id) ] :
      e \in before.effects \cup after.effects }

-------------------------------------------------------------------------------
(* captureEvents: the capture as call events.  p, q are positions in it.   *)

\* A session that threw leaves the empty capture.
Capture == IF main = "returned" THEN log.events ELSE <<>>
At(p) == Capture[p].event

Side(e) == IF e.direction \in {"client_to_proxy", "proxy_to_client"} THEN "client" ELSE "target"

\* The tool of a captured request, and of a response to the client.
ToolIn(e) ==
    IF e.direction # "target_to_proxy" /\ e.id.of \in DOMAIN ToolOf THEN ToolOf[e.id.of] ELSE NoTool

\* requestId: a notification has none, a duplicate has one of the proxy's own.
RpcId(id) ==
    IF id.copy THEN id ELSE IF id.of \in DOMAIN IdOf THEN IdOf[id.of] ELSE NoRequest

IsCall(p) == At(p).kind = "request" /\ ToolIn(At(p)) # NoTool
IsPhysical(p) == Side(At(p)) = "target" /\ At(p).physical

FirstAfter(p, positions) ==
    LET later == {q \in positions : q > p} IN
    IF later = {} THEN 0 ELSE Min(later)

ResponseMutant(p) ==  \* mutant: responses of both sides are searched
    LET answers == {q \in DOMAIN Capture : /\ At(q).kind = "response"
                                           /\ RpcId(At(q).id) = RpcId(At(p).id)}
    IN  FirstAfter(p, answers)

\* response: the first later one with the request's id on the request's side.
ResponseOf(p) ==
    LET answers == {q \in DOMAIN Capture : /\ At(q).kind = "response"
                                           /\ RpcId(At(q).id) # NoRequest
                                           /\ RpcId(At(q).id) = RpcId(At(p).id)
                                           /\ Side(At(q)) = IF IsPhysical(p) THEN "target" ELSE "client"}
    IN  FirstAfter(p, answers)

VisibleMutationMutant(p) ==  \* mutant: the whole capture is searched
    LET shown == {q \in DOMAIN Capture : /\ At(q).kind = "response" /\ Side(At(q)) = "client"
                                         /\ ToolIn(At(q)) = ToolIn(At(p)) /\ At(q).mutation # 0}
    IN  FirstAfter(0, shown)

\* visibleMutation: the first later mutated answer of the same tool to the
\* client, whichever call it answers.
VisibleMutation(p) ==
    LET shown == {q \in DOMAIN Capture : /\ At(q).kind = "response" /\ Side(At(q)) = "client"
                                         /\ ToolIn(At(q)) = ToolIn(At(p)) /\ At(q).mutation # 0}
    IN  FirstAfter(p, shown)

MutationAt(p) == IF p = 0 THEN 0 ELSE At(p).mutation

\* mutationStatuses(mutation).responseStatus
ResponseStatus(i) ==
    IF Mutations[i].type \in MutationTypes.corrupt THEN "corrupted"
    ELSE IF Mutations[i].type \in {"timeout", "commit_then_response_lost",
                                   "disconnect_after_commit", "progress_stall"}
         THEN "lost" ELSE "returned"

Attempt(p) ==
    Cardinality({q \in 1..p : /\ IsCall(q) /\ ToolIn(At(q)) = ToolIn(At(p))
                              /\ IsPhysical(q) = IsPhysical(p)})

CallEvent(p) ==
    LET physical == IsPhysical(p)
        attempt == Attempt(p)
        visible == MutationAt(VisibleMutation(p))
        direct == MutationAt(ResponseOf(p))
        shown == IF visible # 0 THEN visible ELSE direct
    IN  [ id |-> [event |-> Capture[p].sequence], sequence |-> 0,
          kind |-> IF physical /\ At(p).id.copy THEN "duplicate"
                   ELSE IF attempt > 1 THEN "retry" ELSE "step",
          tool |-> ToolIn(At(p)),
          step |-> IF physical THEN Missing ELSE [client |-> ToolIn(At(p)), attempt |-> attempt],
          args |-> ArgsOf[At(p).id.of], physical |-> physical,
          response |-> IF shown = 0 THEN "undefined" ELSE ResponseStatus(shown),
          mutations |-> {visible, direct} \ {0} ]

ProbeEvent ==
    [ id |-> [event |-> 0], sequence |-> 0, kind |-> "effect_probe", tool |-> NoTool,
      step |-> Missing, args |-> Missing, physical |-> FALSE,
      response |-> "undefined", mutations |-> {} ]
ProbeEvents(observation) == [i \in 1..observation.samples |-> ProbeEvent]

CallPositions == Selection([p \in DOMAIN Capture |-> p], {p \in DOMAIN Capture : IsCall(p)})

\* sequenceEvents numbers the events of the whole run again.
CallEvents ==
    LET positions == CallPositions
        all == ProbeEvents(before)
                  \o [i \in DOMAIN positions |-> CallEvent(positions[i])]
                  \o ProbeEvents(after)
    IN  [i \in DOMAIN all |-> [all[i] EXCEPT !.sequence = i]]

-------------------------------------------------------------------------------
(* evaluateProxyCapture.                                                   *)

ExecutionError == before.error \/ main = "threw" \/ after.error

\* Nothing is judged when the session or an observation failed.
Verdicts == IF ExecutionError THEN {} ELSE PackVerdicts(CallEvents, MergedEffects)

\* mutationRecords: result "applied".
AppliedMutations ==
    {i \in DOMAIN Mutations :
        \E p \in DOMAIN Capture : At(p).kind = "mutation" /\ At(p).mutation = i}

-------------------------------------------------------------------------------
(* runProxyPack.                                                           *)

ObserveBefore ==
    /\ stage = "before"
    /\ \E failing \in SUBSET Sampled :
          /\ before' = ObserveState(failing, initial)
          /\ stage' = IF before'.error THEN "skipped" ELSE "session"
    /\ UNCHANGED <<vars, optIn, initial, committed, after>>

SessionStep ==
    /\ stage = "session"
    /\ Prompt \/ Turn
    /\ UNCHANGED evaluationVars

\* A call the target answered with a result is in the external state; one it
\* read and did not answer, or refused with an error, may be.
MayBeCommitted(calls) ==
    /\ calls \subseteq Range(received)
    /\ \A k \in calls : k.of \in Requests \cup Notifications
    /\ {k \in Keys : answered[k] = "result"} \subseteq calls

Stored(calls) == IF calls = {} THEN initial ELSE Number(Cardinality(calls))

ObserveAfter ==
    /\ \/ stage = "skipped"
       \/ stage = "session" /\ main \in {"returned", "threw"}
    /\ \E calls \in SUBSET Range(received), failing \in SUBSET Sampled :
          /\ MayBeCommitted(calls)
          /\ committed' = calls
          /\ after' = ObserveState(failing, Stored(calls))
    /\ stage' = "evaluated"
    /\ UNCHANGED <<vars, optIn, initial, before>>

\* The report is out, or an unhandled rejection has ended the process.
Evaluated == (stage = "evaluated" \/ main = "crashed") /\ UNCHANGED allVars

EvaluationInit ==
    /\ Init
    /\ stage = "before"
    /\ optIn \in BOOLEAN
    /\ initial \in Initial
    /\ committed = {}
    /\ before = NoObservation /\ after = NoObservation

EvaluationNext == ObserveBefore \/ SessionStep \/ ObserveAfter \/ Evaluated

EvaluationSpec == EvaluationInit /\ [][EvaluationNext]_allVars

-------------------------------------------------------------------------------

Final == Stored(committed)

\* Is the effect read from the external state at all?
Witnessed(id) == \E i \in DOMAIN Probes : Probes[i].id = id /\ Sampling(i) /\ Allowed(i)

\* What an expectation says of the real external state.
ExpectationIsTrue(x, value) ==
    IF x.change # "none" THEN ~ViolatesChange(initial, Final, x.change) ELSE value = x.expected
NothingForbidden(x) ==
    IF x.change # "none" THEN ~ViolatesChange(initial, Final, x.change)
    ELSE IF x.expected # Missing THEN Final # x.expected
    ELSE initial # Missing /\ initial = Final

\* What a passed assertion on an effect, and a passed entry of the state
\* contract, say of it.
AssertionIsTrue(a) ==
    CASE a.type = "effect_equals" -> Final = a.expected
      [] a.type = "effect_not_equals" -> Final # a.expected
      [] a.type = "no_extra_transition" ->
            IF a.change # "none" THEN ~ViolatesChange(initial, Final, a.change)
            ELSE Final = IF a.expected # Missing THEN a.expected ELSE initial
StateEntryIsTrue(entry, forbidden) ==
    IF forbidden
    THEN IF entry.change # "none" THEN ~ViolatesChange(initial, Final, entry.change)
         ELSE initial = Final
    ELSE IF entry.delta # Missing
    THEN initial # Missing /\ Final.n - initial.n = entry.delta.n
    ELSE entry.expected = Missing \/ Final = entry.expected

\* No verdict about an effect passes unless the effect was sampled and the real
\* external state is as the pack requires: whatever the target did, whichever
\* snapshot failed or was refused, and although the observer runs only before
\* and after the session.  The state contract passes without a sample (see
\* ForbiddenPassesOnEvidence), but of effects that were sampled it says what is
\* true (evaluateProxyCapture, mergeObservations, evaluateStateContract).
PassesAreTrue ==
    stage = "evaluated" =>
        \A v \in {w \in Verdicts : w.verdict = "passed"} :
            /\ v.part = "assertion"
               /\ v.of.type \in {"effect_equals", "effect_not_equals", "no_extra_transition"}
               => Witnessed(v.of.effect) /\ AssertionIsTrue(v.of)
            /\ v.part = "precondition" =>
                  Witnessed(v.of.effect) /\ initial # Missing /\ ExpectationIsTrue(v.of, initial)
            /\ v.part = "intended" => Witnessed(v.of.effect) /\ ExpectationIsTrue(v.of, Final)
            /\ v.part = "forbidden" => Witnessed(v.of.effect) /\ NothingForbidden(v.of)
            /\ v.part \in {"state", "state_forbidden"} /\ Witnessed(v.of.effect) =>
                  StateEntryIsTrue(v.of, v.part = "state_forbidden")

\* "Missing, failed, or timed-out observations are inconclusive - they can never
\* prove that a forbidden effect did not occur" (README.md:153): a forbidden
\* entry of the state contract passes only if it was sampled and nothing
\* changed (evaluateStateContract).
ForbiddenPassesOnEvidence ==
    stage = "evaluated" =>
        \A v \in {w \in Verdicts : w.verdict = "passed" /\ w.part = "state_forbidden"} :
            Witnessed(v.of.effect)

-------------------------------------------------------------------------------
(* The capture as evidence.  These need a capture that is complete.        *)

Complete == stage = "evaluated" /\ main = "returned" /\ ~log.truncated

\* Calls of the tool that the target was sent, duplicates included.
ReallyCalled(tool) ==
    Cardinality({k \in Range(received) : k.of \in Requests /\ ToolOf[k.of] = tool})

\* Calls whose write had not ended, or failed, when the target was stopped.
Unread(tool) ==
    Cardinality({k \in Keys \ Range(received) :
        /\ k.of \in Requests /\ ToolOf[k.of] = tool
        /\ IF k.copy THEN Call(k.of) \in Range(received) /\ task[k.of] \in {"copy_writing", "failed"}
           ELSE task[k.of] \in {"writing", "failed"}})
MayHaveCalled(tool) == ReallyCalled(tool)..(ReallyCalled(tool) + Unread(tool))

\* A verdict on how often a tool was called is right about the target: neither
\* an overtaking answer, a lost one, a denied call nor the proxy's own duplicate
\* makes the count differ from the calls the target read.  Calls the client
\* sends as notifications are the exception: the proxy does not record them as
\* physical (captureEvents, physicalToolEvents).  A must_not_call that names a
\* step says nothing of the target: no physical call of a capture has a step.
CountsAreTrue ==
    Complete =>
        \A v \in Verdicts :
            /\ v.part = "cardinality" =>
                  \E n \in MayHaveCalled(v.of.tool) :
                      (v.verdict = "passed") =
                          CASE v.of.cardinality = "exactly_once" -> n = 1
                            [] v.of.cardinality = "at_least_once" -> n > 0
                            [] v.of.cardinality \in {"at_most_once", "zero_or_one"} -> n < 2
            /\ v.part = "assertion" /\ v.of.type = "must_not_call" /\ v.of.step = Missing =>
                  \E n \in MayHaveCalled(v.of.tool) : (v.verdict = "passed") = (n = 0)

\* The outcome of a call event is an answer to that call: for a physical call
\* what the target answered, for a call of the client what the client was
\* shown.  The one exception is a reply of the client to a request of the
\* target that happens to have the same JSON-RPC id (captureEvents).
ResponsesPaired ==
    Complete =>
        \A p \in {x \in DOMAIN Capture : IsCall(x) /\ At(x).id.of \in Requests} :
            LET q == ResponseOf(p) IN
            q # 0 => \/ /\ At(q).id = At(p).id
                        /\ At(q).direction = IF IsPhysical(p) THEN "target_to_proxy"
                                             ELSE "proxy_to_client"
                     \/ /\ At(q).direction = "client_to_proxy"
                        /\ ~IsPhysical(p) /\ IdOf[At(q).id.of] = IdOf[At(p).id.of]

\* A call event lists only mutations of its tool that reached the client after
\* the call was made, and the event of a mutated call of the client lists the
\* mutation it was given, unless its outcome was mispaired (captureEvents).
AttributionFollowsAnswers ==
    Complete =>
        \A p \in {x \in DOMAIN Capture : IsCall(x) /\ At(x).id.of \in Requests} :
            LET listed == CallEvent(p).mutations
                own == ResponseOf(p)
            IN
            /\ \A i \in listed :
                  \E q \in DOMAIN Capture :
                      /\ q > p /\ At(q).mutation = i
                      /\ At(q).kind = "response" /\ ToolOf[At(q).id.of] = ToolIn(At(p))
            /\ /\ ~IsPhysical(p)
               /\ own # 0 /\ At(own).id = At(p).id /\ At(own).mutation # 0
               => chosen[At(p).id.of] \in listed

\* A mutation is reported as applied exactly if it denied a message, whether or not
\* the denial could be written, or was given to a request whose answer the client
\* has got: a notification that is forwarded takes an occurrence of the mutation and
\* never applies it (mutationRecords, handleClientMessage).
MutationsAccounted ==
    Complete =>
        AppliedMutations = {chosen[m] : m \in {x \in Requests \cup Notifications :
            /\ chosen[x] # 0
            /\ IF Mutations[chosen[x]].type \in MutationTypes.preflight THEN task[x] # "none"
               ELSE x \in Requests /\ task[x] = "done"}}

\* The client was shown an injected loss of the answer to request r.
LostAt(r) ==
    {q \in DOMAIN Capture :
        /\ At(q).direction = "proxy_to_client" /\ At(q).id = Call(r)
        /\ At(q).mutation # 0 /\ ResponseStatus(At(q).mutation) = "lost"}
SentAt(k) == {p \in DOMAIN Capture : IsCall(p) /\ IsPhysical(p) /\ At(p).id = k}

\* do_not_retry never overlooks a call that follows a lost one, unless a mutated
\* answer to another call of the tool came between the lost call and its loss
\* (evaluateRecovery over captureEvents).
LossIsSeen ==
    Complete =>
        \A c \in {x \in Pack.contracts : x.recovery.uncertain = "do_not_retry"} :
            (\E r \in Requests, k \in Keys :
                /\ ToolOf[r] = c.tool /\ ToolOf[k.of] = c.tool
                /\ \E p \in SentAt(Call(r)), q \in LostAt(r), n \in SentAt(k) :
                      /\ p < n
                      /\ \A b \in p..q : b = q \/ At(b).mutation = 0 \/ At(b).kind # "response")
            => RecoveryVerdict(c, CallEvents) # "passed"

\* What the report tells of mutations is true of the session: which were applied, to
\* which calls, and that a call came after a loss (captureEvents, mutationRecords,
\* evaluateRecovery).
MutationsAreTold == AttributionFollowsAnswers /\ MutationsAccounted /\ LossIsSeen

\* "Effect contract ... forbids retrying ... after an uncertain outcome"
\* (assertions.ts:862): do_not_retry blames a run only if a call of the tool
\* was made after an earlier one whose answer the client lost.
RetryIsBlamedAfterLoss ==
    Complete =>
        \A c \in {x \in Pack.contracts : x.recovery.uncertain = "do_not_retry"} :
            RecoveryVerdict(c, CallEvents) = "duplicate_transition" =>
                \E r \in Requests, k \in Keys :
                    /\ LostAt(r) # {}
                    /\ \E p \in SentAt(Call(r)), n \in SentAt(k) : p < n
=============================================================================
