------------------------------ MODULE Assertions ------------------------------
(***************************************************************************)
(* evaluateAssertions, evaluateStateContract and evaluateEffectContracts   *)
(* (src/src/assertions.ts): how the call events and the observed effects   *)
(* of a run become verdicts.  The scripted runner, the proxy evaluation    *)
(* and the JSONL bridge all judge a run with these operators.              *)
(*                                                                         *)
(* A JSON value is a record [is, n]; Missing is undefined.  Paths into a   *)
(* value are left out, and a call's arguments are the one value that its   *)
(* contracts look at.  A verdict is "passed" or the category of the        *)
(* finding.  Messages, evidence lists and fingerprints are left out.       *)
(***************************************************************************)
EXTENDS Integers, Sequences, Selection

CONSTANT Pack  \* assertions, state_contract and effect_contracts of the pack

Missing == [is |-> "missing", n |-> 0]
Number(n) == [is |-> "number", n |-> n]
IsNumber(value) == value.is = "number"

Undefined == -1   \* at_most, exactly, max_attempts left out of a pack

ASSUME PackAssumption ==
    \A c \in Pack.contracts :
        /\ c.recovery.maxAttempts \in Nat \cup {Undefined}
        /\ c.cardinality \in {"exactly_once", "at_least_once", "at_most_once", "zero_or_one"}

-------------------------------------------------------------------------------
(* What an assertion can rest on.                                          *)

Known(effects, id) == \E e \in effects : e.id = id
EffectOf(effects, id) == CHOOSE e \in effects : e.id = id

EvidenceMutant(effects, id) ==  \* mutant: effect.error is not looked at
    IF Known(effects, id) THEN "usable" ELSE "missing_effect"

Evidence(effects, id) ==
    IF ~Known(effects, id) THEN "missing_effect"
    ELSE IF EffectOf(effects, id).error THEN "probe_error" ELSE "usable"

PhysicalCallsMutant(events, tool) ==  \* mutant: the proxy's own duplicates do not count
    Selection(events, {i \in DOMAIN events :
        events[i].tool = tool /\ events[i].physical /\ events[i].kind \in {"step", "retry"}})

\* physicalToolEvents(events, tool).
PhysicalCalls(events, tool) ==
    Selection(events, {i \in DOMAIN events :
        events[i].tool = tool /\ events[i].physical /\ events[i].kind # "effect_probe"})

\* hasRepeatedInvocation(events).
Repeated(events) ==
    \E i \in DOMAIN events :
        events[i].physical /\ events[i].kind \in {"duplicate", "retry"}

TransitionCategory(expected, observed, events) ==
    CASE observed = Missing -> "missing_effect"
      [] IsNumber(expected) /\ IsNumber(observed) /\ observed.n < expected.n ->
            "missing_effect"
      [] IsNumber(expected) /\ IsNumber(observed) /\ observed.n > expected.n ->
            IF Repeated(events) THEN "duplicate_transition" ELSE "extra_transition"
      [] OTHER -> "changed_effect"

\* Values that are not both numbers violate any change by being different.
ViolatesChange(before, after, change) ==
    IF change = "any" \/ ~IsNumber(before) \/ ~IsNumber(after) THEN before # after
    ELSE IF change = "increase" THEN after.n > before.n ELSE after.n < before.n

-------------------------------------------------------------------------------
(* evaluateAssertions: one operator per assertion type.                    *)

EffectEquals(a, events, effects) ==
    LET evidence == Evidence(effects, a.effect)
        value == EffectOf(effects, a.effect).after
    IN  IF evidence # "usable" THEN evidence
        ELSE IF value = a.expected THEN "passed"
        ELSE TransitionCategory(a.expected, value, events)

EffectNotEquals(a, effects) ==
    LET evidence == Evidence(effects, a.effect) IN
    IF evidence # "usable" THEN evidence
    ELSE IF EffectOf(effects, a.effect).after # a.expected THEN "passed"
    ELSE "changed_effect"

NoExtraTransition(a, events, effects) ==
    LET evidence == Evidence(effects, a.effect)
        e == EffectOf(effects, a.effect)
        violates == IF a.change # "none" THEN ViolatesChange(e.before, e.after, a.change)
                    ELSE IF a.expected # Missing THEN e.after # a.expected
                    ELSE e.before # e.after
    IN  IF evidence # "usable" THEN evidence
        ELSE IF ~violates THEN "passed"
        ELSE IF a.change # "none" THEN "extra_transition"
        ELSE TransitionCategory(a.expected, e.after, events)

MustNotCall(a, events) ==
    LET calls == PhysicalCalls(events, a.tool) IN
    IF \A i \in DOMAIN calls : a.step # Missing /\ calls[i].step # a.step
    THEN "passed" ELSE "assertion_failure"

CallCount(a, events) ==
    LET calls == Len(PhysicalCalls(events, a.tool)) IN
    IF IF a.atMost # Undefined THEN calls <= a.atMost
       ELSE a.exactly # Undefined /\ calls = a.exactly
    THEN "passed" ELSE "assertion_failure"

\* captures holds the result of a captured step; both evaluations of recorded
\* runs pass an empty map.
ResultPathEquals(a, captures) ==
    LET value == IF a.step \in DOMAIN captures THEN captures[a.step] ELSE Missing IN
    IF value = a.expected THEN "passed" ELSE "assertion_failure"

\* manifest gives the annotation of the tools it lists.
AnnotationMatches(a, manifest) ==
    LET value == IF a.tool \in DOMAIN manifest THEN manifest[a.tool] ELSE Missing IN
    IF value = a.expected THEN "passed" ELSE "assertion_failure"

Verdict(a, events, effects, captures, manifest) ==
    CASE a.type \in {"effect_equals", "state_path_equals"} ->
            EffectEquals(a, events, effects)
      [] a.type = "no_extra_transition" -> NoExtraTransition(a, events, effects)
      [] a.type = "effect_not_equals" -> EffectNotEquals(a, effects)
      [] a.type = "must_not_call" -> MustNotCall(a, events)
      [] a.type = "call_count" -> CallCount(a, events)
      [] a.type = "result_path_equals" -> ResultPathEquals(a, captures)
      [] a.type = "annotation_matches" -> AnnotationMatches(a, manifest)

-------------------------------------------------------------------------------
(* evaluateStateContract.  It does not look at the error of an effect.     *)

StateEntryHolds(entry, e, forbidden) ==
    IF forbidden
    THEN IF entry.change # "none" THEN ~ViolatesChange(e.before, e.after, entry.change)
         ELSE e.before = e.after
    ELSE IF entry.delta # Missing
         THEN /\ IsNumber(e.before) /\ IsNumber(e.after)
              /\ e.after.n - e.before.n = entry.delta.n
         ELSE entry.expected = Missing \/ e.after = entry.expected

StateEntryCategory(entry, e, forbidden, events) ==
    IF forbidden THEN "extra_transition"
    ELSE IF entry.delta # Missing /\ IsNumber(e.before) /\ IsNumber(e.after)
    THEN IF e.after.n - e.before.n < entry.delta.n THEN "missing_effect"
         ELSE IF Repeated(events) THEN "duplicate_transition" ELSE "extra_transition"
    ELSE TransitionCategory(entry.expected, e.after, events)

StateEntry(entry, forbidden, effects, events) ==
    LET e == EffectOf(effects, entry.effect) IN
    IF ~Known(effects, entry.effect) THEN "missing_effect"
    ELSE IF StateEntryHolds(entry, e, forbidden) THEN "passed"
    ELSE StateEntryCategory(entry, e, forbidden, events)

-------------------------------------------------------------------------------
(* evaluateEffectContracts: one operator per part of a contract.           *)

ContractExpectation(expectation, phase, effects, events) ==
    LET evidence == Evidence(effects, expectation.effect)
        e == EffectOf(effects, expectation.effect)
        value == IF phase = "before" THEN e.before ELSE e.after
        matches == IF expectation.change # "none"
                   THEN phase = "after"
                        /\ ~ViolatesChange(e.before, value, expectation.change)
                   ELSE value = expectation.expected
    IN  IF evidence # "usable" THEN evidence
        ELSE IF phase = "before" /\ e.before = Missing THEN "missing_effect"
        ELSE IF matches THEN "passed"
        ELSE IF expectation.change # "none" THEN "extra_transition"
        ELSE TransitionCategory(expectation.expected, value, events)

\* Without an expected value, a missing first snapshot counts as a violation.
ForbiddenExpectation(expectation, effects) ==
    LET evidence == Evidence(effects, expectation.effect)
        e == EffectOf(effects, expectation.effect)
        violated == IF expectation.change # "none"
                    THEN ViolatesChange(e.before, e.after, expectation.change)
                    ELSE IF expectation.expected # Missing
                    THEN e.after = expectation.expected
                    ELSE e.before = Missing \/ e.before # e.after
    IN  IF evidence # "usable" THEN evidence
        ELSE IF violated THEN "extra_transition" ELSE "passed"

CardinalityVerdict(contract, events) ==
    LET calls == Len(PhysicalCalls(events, contract.tool)) IN
    IF CASE contract.cardinality = "exactly_once" -> calls = 1
         [] contract.cardinality = "at_least_once" -> calls >= 1
         [] OTHER -> calls <= 1
    THEN "passed"
    ELSE IF calls > 1 THEN "duplicate_transition" ELSE "missing_effect"

\* The first event a selector names: by tool, by step or by event id.
FirstNamed(events, selector) ==
    LET Named(i) == selector \in {events[i].tool, events[i].step, events[i].id}
        First(i) == Named(i) /\ \A j \in 1..(i - 1) : ~Named(j)
    IN  {i \in DOMAIN events : First(i)}

OrderingVerdict(ordering, events) ==
    IF \E i \in FirstNamed(events, ordering.before), j \in FirstNamed(events, ordering.after) :
           events[i].sequence < events[j].sequence
    THEN "passed" ELSE "extra_transition"

AuthorizationVerdict(contract, events) ==
    LET calls == PhysicalCalls(events, contract.tool) IN
    IF \A i \in DOMAIN calls : calls[i].args = contract.authorization
    THEN "passed" ELSE "assertion_failure"

\* do_not_retry: a call follows the first call whose response was lost.
RetriedAfterLoss(calls) ==
    \E i, j \in DOMAIN calls : calls[i].response = "lost" /\ i < j

\* query_before_retry: between a lost call and the next one nobody queried.
RetriedUnqueried(calls, query, events) ==
    \E i \in 1..(Len(calls) - 1) :
        /\ calls[i].response = "lost"
        /\ \A q \in DOMAIN events :
              ~ /\ events[q].tool = query /\ events[q].physical
                /\ calls[i].sequence < events[q].sequence
                /\ events[q].sequence < calls[i + 1].sequence

RecoveryVerdict(contract, events) ==
    LET calls == PhysicalCalls(events, contract.tool)
        uncertain == contract.recovery.uncertain
    IN
    IF /\ contract.recovery.maxAttempts # Undefined
       /\ Len(calls) > contract.recovery.maxAttempts
    THEN "duplicate_transition" ELSE
    CASE uncertain = "do_not_retry" /\ RetriedAfterLoss(calls) -> "duplicate_transition"
      [] /\ uncertain = "retry_with_same_key"
         /\ \E i \in DOMAIN calls : calls[i].args # calls[1].args -> "changed_effect"
      [] /\ uncertain = "query_before_retry"
         /\ RetriedUnqueried(calls, contract.recovery.query, events) -> "assertion_failure"
      [] uncertain = "compensate" -> "probe_error"
      [] OTHER -> "passed"

\* The verdicts of one contract that declares every part and names its tool.
ContractVerdicts(c, events, effects) ==
    UNION {
      { [part |-> "precondition", of |-> x,
         verdict |-> ContractExpectation(x, "before", effects, events)] : x \in c.preconditions },
      { [part |-> "intended", of |-> x,
         verdict |-> ContractExpectation(x, "after", effects, events)] : x \in c.intended },
      { [part |-> "forbidden", of |-> x,
         verdict |-> ForbiddenExpectation(x, effects)] : x \in c.forbidden },
      { [part |-> "cardinality", of |-> c, verdict |-> CardinalityVerdict(c, events)] },
      { [part |-> "ordering", of |-> o, verdict |-> OrderingVerdict(o, events)] :
        o \in c.ordering },
      { [part |-> "authorization", of |-> c, verdict |-> AuthorizationVerdict(c, events)] },
      { [part |-> "recovery", of |-> c, verdict |-> RecoveryVerdict(c, events)] } }

\* What both evaluations of recorded runs compute; they have no captured step
\* and may have no manifest.
PackVerdicts(events, effects) ==
    UNION {
      { [part |-> "assertion", of |-> a,
         verdict |-> Verdict(a, events, effects, <<>>, <<>>)] : a \in Pack.assertions },
      { [part |-> "state", of |-> entry,
         verdict |-> StateEntry(entry, FALSE, effects, events)] : entry \in Pack.state.effects },
      { [part |-> "state_forbidden", of |-> entry,
         verdict |-> StateEntry(entry, TRUE, effects, events)] : entry \in Pack.state.forbidden },
      UNION {ContractVerdicts(c, events, effects) : c \in Pack.contracts} }

===============================================================================
