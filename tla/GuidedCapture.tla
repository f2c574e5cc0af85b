---------------------------- MODULE GuidedCapture ----------------------------
(***************************************************************************)
(* From a capture file to a pack: loadCapture and generateStarterPack      *)
(* (src/src/capture.ts), proposeGuidedCapture and confirmGuidedCapture     *)
(* (src/src/guided-capture.ts), called by the command capture (src/src/    *)
(* cli.ts).  The proxy wrote the file with a digest of its events; before  *)
(* it is read, it may have lost an event, had two lines swapped or lost    *)
(* its digest.                                                             *)
(*                                                                         *)
(* The wording of warnings and descriptions, slugs and ids, the path and   *)
(* the arguments of the observer, redaction, the server part of the pack   *)
(* and the order in which mutation profiles are offered are left out.      *)
(***************************************************************************)
EXTENDS Assertions, SequencesExt

CONSTANTS
    CapturedEvents,  \* events the proxy may have recorded
    CaptureBound,    \* longest capture: bounds the model only
    Confirmations    \* what a person may confirm on the command line

ASSUME GuidedAssumption ==
    /\ CaptureBound \in Nat
    /\ \A e \in CapturedEvents :
          /\ e.what \in {"client_call", "target_call", "listing"}
          /\ e.what = "listing" => \A c \in Confirmations :
                e.tools[c.target].readOnly \in {"true", "false", "unset"}
    /\ \A c \in Confirmations :
          c.cardinality \in {"exactly_once", "at_least_once", "at_most_once", "zero_or_one"}

VARIABLES
    recorded,   \* the events the proxy wrote
    file,       \* the events of the file when it is loaded
    digest,     \* is sourceSha256 still in the file?
    guide,      \* recording, edited, refused, written
    written     \* the pack that capture guide or capture generate wrote

guideVars == <<recorded, file, digest, guide, written>>

\* The observer is the pack's only probe; allowUnsafe: execution.allow_unsafe_probes.
NoPack == [ by |-> "nobody", target |-> "none", observer |-> "none", allowUnsafe |-> FALSE,
            steps |-> <<>>, assertions |-> {}, contracts |-> {}, mutations |-> {},
            warned |-> FALSE ]

-------------------------------------------------------------------------------
(* loadCapture.                                                            *)

\* captureSourceHash(capture) is not the digest in the file.
Modified == digest /\ file # recorded

\* A stable sort by sequence number: k - 1 events come before the k-th.
Sooner(i, j) ==
    \/ file[i].sequence < file[j].sequence
    \/ file[i].sequence = file[j].sequence /\ i < j
InOrder ==
    [k \in DOMAIN file |->
        CHOOSE i \in DOMAIN file : Cardinality({j \in DOMAIN file : Sooner(j, i)}) = k - 1]

IsClientCall(entry) == entry.event.what = "client_call"
CallOf(entry) == [tool |-> entry.event.tool, args |-> entry.event.args]

\* logicalToolCalls(events): in the order of the file.
StarterCalls ==
    LET calls == Selection(file, {i \in DOMAIN file : IsClientCall(file[i])}) IN
    [i \in DOMAIN calls |-> CallOf(calls[i])]

\* collectCalls(events): in the order of the sequence numbers.
Workflow ==
    LET order == InOrder
        calls == Selection(order, {k \in DOMAIN order : IsClientCall(file[order[k]])})
    IN  [i \in DOMAIN calls |-> CallOf(file[calls[i]])]

Occurrences(calls, tool) == Cardinality({i \in DOMAIN calls : calls[i].tool = tool})

-------------------------------------------------------------------------------
(* proposeGuidedCapture.                                                   *)

Declares(entry, tool, annotation) ==
    entry.event.what = "listing" /\ entry.event.tools[tool][annotation] # "unset"

HintMutant(tool, annotation) ==  \* mutant: the first declaration stays
    LET order == InOrder
        declaring == Selection(order, {k \in DOMAIN order : Declares(file[order[k]], tool, annotation)})
    IN  IF declaring = <<>> THEN "unset"
        ELSE file[Head(declaring)].event.tools[tool][annotation]

\* collectToolMetadata: a later listing overrides a hint only with another one.
Hint(tool, annotation) ==
    LET order == InOrder
        declaring == Selection(order, {k \in DOMAIN order : Declares(file[order[k]], tool, annotation)})
    IN  IF declaring = <<>> THEN "unset"
        ELSE file[Last(declaring)].event.tools[tool][annotation]

ClassifyTool(tool) ==
    IF Hint(tool, "readOnly") = "true" THEN "read_only"
    ELSE IF Hint(tool, "readOnly") = "false" \/ Hint(tool, "destructive") = "true"
    THEN "side_effecting" ELSE "ambiguous"

MutationProfiles(tool) ==
    IF ClassifyTool(tool) = "read_only" THEN {}
    ELSE {"ambiguous-commit", "duplicate-delivery", "disconnect-after-commit"}

MaxAttempts(profile) == IF profile = "duplicate-delivery" THEN 1 ELSE 2

MutationOfProfile(profile) ==
    CASE profile = "ambiguous-commit" -> "commit_then_response_lost"
      [] profile = "duplicate-delivery" -> "duplicate_call"
      [] profile = "disconnect-after-commit" -> "disconnect_after_commit"

-------------------------------------------------------------------------------
(* confirmGuidedCapture.                                                   *)

\* A tool only if it is declared read-only, a command only with the opt-in.
ObserverAllowed(c) ==
    IF c.observer = "command" THEN c.optIn ELSE Hint(c.observer, "readOnly") = "true"

\* The selectors of ordering constraints are captured tools (or their step ids).
Selectors == {Workflow[i].tool : i \in DOMAIN Workflow}

Confirmed(c) ==
    /\ c.confirmed                                 \* each requireConfirmed
    /\ Occurrences(Workflow, c.target) > 0
    /\ ClassifyTool(c.target) # "read_only" /\ c.sideEffecting
    /\ ObserverAllowed(c)
    /\ c.profile \in MutationProfiles(c.target)
    /\ \A f \in c.forbidden : f.expected # Missing \/ f.change # "none"
    /\ \A o \in c.ordering : {o.before, o.after} \subseteq Selectors
    /\ c.expected # Missing    \* what validatePackSemantics can still object to

StepsMutant(c) ==  \* mutant: the retry policy goes to the last call of the target
    LET calls == Workflow
        IsLast(i) == /\ calls[i].tool = c.target
                     /\ \A j \in (i + 1)..Len(calls) : calls[j].tool # c.target
    IN  [ i \in DOMAIN calls |->
            [ tool |-> calls[i].tool, args |-> calls[i].args,
              attempts |-> IF IsLast(i) THEN MaxAttempts(c.profile) ELSE 1 ] ]

\* Only the first call of the target gets the retry policy of the profile.
GuidedSteps(c) ==
    LET calls == Workflow
        IsFirst(i) == calls[i].tool = c.target /\ \A j \in 1..(i - 1) : calls[j].tool # c.target
    IN  [ i \in DOMAIN calls |->
            [ tool |-> calls[i].tool, args |-> calls[i].args,
              attempts |-> IF IsFirst(i) THEN MaxAttempts(c.profile) ELSE 1 ] ]

CallCountOf(tool, exactly) ==
    [type |-> "call_count", tool |-> tool, atMost |-> Undefined, exactly |-> exactly]

\* The blocking gate of the pack: what the person confirmed, on the observer.
EffectContract(c) ==
    [ tool |-> c.target, cardinality |-> c.cardinality, ordering |-> c.ordering,
      intended |-> {[effect |-> c.observer, expected |-> c.expected, change |-> "none"]},
      forbidden |-> {[effect |-> c.observer, expected |-> f.expected, change |-> f.change] :
                     f \in c.forbidden} ]

GuidedPack(c) ==
    [ by |-> "guide", target |-> c.target, observer |-> c.observer,
      allowUnsafe |-> c.observer = "command", steps |-> GuidedSteps(c),
      assertions |-> {CallCountOf(c.target, Occurrences(Workflow, c.target))},
      contracts |-> {EffectContract(c)},
      mutations |-> {[type |-> MutationOfProfile(c.profile), tool |-> c.target]},
      warned |-> Modified ]

\* generateStarterPack: no observer, contract or mutation, a call count for every tool.
StarterPack ==
    LET calls == StarterCalls IN
    [ by |-> "starter", target |-> "none", observer |-> "none", allowUnsafe |-> FALSE,
      steps |-> [ i \in DOMAIN calls |->
                    [tool |-> calls[i].tool, args |-> calls[i].args, attempts |-> 1] ],
      assertions |-> {CallCountOf(calls[i].tool, Occurrences(calls, calls[i].tool)) :
                      i \in DOMAIN calls},
      contracts |-> {}, mutations |-> {}, warned |-> Modified \/ ~digest ]

-------------------------------------------------------------------------------
(* The command.                                                            *)

\* The proxy records; sequence numbers follow the order of the file.
RecordEvent(e) ==
    /\ guide = "recording"
    /\ Len(recorded) < CaptureBound
    /\ recorded' = Append(recorded, [sequence |-> Len(recorded) + 1, event |-> e])
    /\ file' = recorded'
    /\ UNCHANGED <<digest, guide, written>>

EditFile ==
    /\ guide = "recording"
    /\ \/ \E i \in DOMAIN file : file' = RemoveAt(file, i)
       \/ \E i \in 1..(Len(file) - 1) :
             file' = [file EXCEPT ![i] = file[i + 1], ![i + 1] = file[i]]
    /\ guide' = "edited"
    /\ UNCHANGED <<recorded, digest, written>>

StripDigest ==
    /\ guide \in {"recording", "edited"}
    /\ digest
    /\ digest' = FALSE
    /\ guide' = "edited"
    /\ UNCHANGED <<recorded, file, written>>

\* capture guide
GuideCapture(c) ==
    /\ guide \in {"recording", "edited"}
    /\ IF Confirmed(c) THEN guide' = "written" /\ written' = GuidedPack(c)
                       ELSE guide' = "refused" /\ UNCHANGED written
    /\ UNCHANGED <<recorded, file, digest>>

\* capture generate
GenerateStarter ==
    /\ guide \in {"recording", "edited"}
    /\ IF StarterCalls # <<>> THEN guide' = "written" /\ written' = StarterPack
                              ELSE guide' = "refused" /\ UNCHANGED written
    /\ UNCHANGED <<recorded, file, digest>>

GuideInit ==
    /\ recorded = <<>> /\ file = <<>> /\ digest = TRUE
    /\ guide = "recording" /\ written = NoPack

GuideNext ==
    \/ \E e \in CapturedEvents : RecordEvent(e)
    \/ EditFile
    \/ StripDigest
    \/ \E c \in Confirmations : GuideCapture(c)
    \/ GenerateStarter

GuideSpec == GuideInit /\ [][GuideNext]_guideVars

-------------------------------------------------------------------------------

\* The calls of the client, counted up to event i of the recording.
ClientCallsUpTo(i) == {j \in 1..i : IsClientCall(recorded[j])}

\* A pack replays exactly the calls the client made, in the order it made them,
\* none added for what the target got, unless the command warned that the
\* capture was changed.  A stripped digest is reported by capture generate only;
\* capture guide is right without it as long as no event is lost, because it
\* sorts by sequence number (loadCapture, collectCalls, logicalToolCalls).
ReplaysTheSession ==
    LET unsuspected == ~written.warned /\ (written.by = "starter" \/ digest)
        sorted == written.by = "guide" /\ Len(file) = Len(recorded)
    IN  guide = "written" /\ (unsuspected \/ sorted) =>
            /\ Len(written.steps) = Cardinality(ClientCallsUpTo(Len(recorded)))
            /\ \A i \in ClientCallsUpTo(Len(recorded)) :
                  LET step == written.steps[Cardinality(ClientCallsUpTo(i))] IN
                  step.tool = recorded[i].event.tool /\ step.args = recorded[i].event.args

\* The proxy saw the tool declared read-only and not retracted since.
DeclaredReadOnly(tool) ==
    LET listings == {i \in DOMAIN recorded : recorded[i].event.what = "listing"} IN
    \E i \in listings :
        /\ recorded[i].event.tools[tool].readOnly = "true"
        /\ \A j \in listings : j > i => recorded[j].event.tools[tool].readOnly # "false"

\* A tool observes the external state only if the session ended with it declared
\* read-only, and a tool that was so declared is never attacked: a retraction or
\* a declaration counts although the calls were made under another one.  A
\* capture that lost a listing may say otherwise, but then the command warns,
\* unless the digest was removed too (collectToolMetadata, confirmGuidedCapture).
RolesAreDeclared ==
    written.by = "guide" /\ (Len(file) = Len(recorded) \/ (digest /\ ~written.warned)) =>
        /\ written.observer = "command" \/ DeclaredReadOnly(written.observer)
        /\ ~DeclaredReadOnly(written.target)

\* A pack follows the session it was made from, in its calls and in the roles of
\* the tools.
PackFollowsTheSession == ReplaysTheSession /\ RolesAreDeclared

\* The events of a replay by the scripted runner: one per step, and with the
\* fault of the pack one more, if the call it hits is delivered twice or retried.
ReplayEvent(tool, kind) == [tool |-> tool, kind |-> kind, physical |-> TRUE]
ControlReplay == [n \in DOMAIN written.steps |-> ReplayEvent(written.steps[n].tool, "step")]
FaultyReplay(fault) ==
    LET steps == written.steps
        hit == CHOOSE n \in DOMAIN steps :
                  steps[n].tool = fault.tool /\ \A m \in 1..(n - 1) : steps[m].tool # fault.tool
    IN  IF fault.type = "duplicate_call"
        THEN Append(ControlReplay, ReplayEvent(fault.tool, "duplicate"))
        ELSE IF steps[hit].attempts > 1
        THEN Append(ControlReplay, ReplayEvent(fault.tool, "retry")) ELSE ControlReplay

\* Calls alone, whatever the target makes of them: every call count of a pack holds
\* in a replay without faults, whatever was captured, and fails in the replay with
\* the pack's fault, because the retry policy stands on the very step the mutation
\* hits.  The cardinality of the contract, the blocking part, tells the two apart
\* only for a target that was captured once, and fails both for one captured more
\* often, unless any number of calls will do.  What the observer sees, the intended
\* and forbidden effects, is up to the target and the person (confirmGuidedCapture,
\* generateStarterPack, evaluateAssertions, evaluateCardinality).
FaultIsToldFromControl ==
    guide = "written" =>
        /\ \A a \in written.assertions :
              /\ CallCount(a, ControlReplay) = "passed"
              /\ \A fault \in written.mutations :
                    CallCount(a, FaultyReplay(fault)) = "assertion_failure"
        /\ \A c \in written.contracts :
              LET anyNumber == c.cardinality = "at_least_once"
                  capturedOnce == Occurrences(written.steps, c.tool) = 1
              IN  /\ CardinalityVerdict(c, ControlReplay) =
                        IF anyNumber \/ capturedOnce THEN "passed" ELSE "duplicate_transition"
                  /\ \A fault \in written.mutations :
                        CardinalityVerdict(c, FaultyReplay(fault)) =
                            IF anyNumber THEN "passed" ELSE "duplicate_transition"
=============================================================================
