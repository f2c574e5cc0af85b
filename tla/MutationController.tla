-------------------------- MODULE MutationController --------------------------
(***************************************************************************)
(* MutationController (src/src/mutations.ts): which declared mutations     *)
(* apply to a call, what they make of its outcome, and the records that    *)
(* the report lists.  The module has operators on the state of one         *)
(* controller; ScriptedRunner holds it in a variable and takes the awaits  *)
(* of after() as steps.                                                    *)
(*                                                                         *)
(* An outcome keeps its error kind, its commit status and the call whose   *)
(* output it carries; what becomes of the output itself is left out.       *)
(***************************************************************************)
EXTENDS Integers, Sequences, FiniteSets, Selection

CONSTANTS
    Tools,
    AnyTool,      \* applies_to left undefined
    Contexts,     \* contextKey(tool, arguments)
    Packs,        \* packs that may be run: steps, selected mutations, disturbances
    NoCall        \* no call: an outcome without output, a missing parent

VARIABLE pack     \* the pack of this run

Mutations == pack.mutations  \* in the order of the pack

Stales == {"stale_result", "stale_read_then_conflicting_write", "out_of_order_response"}
Corruptions == {"schema_drift", "truncated_response", "corrupted_pagination_cursor"}
Losses == {"timeout", "commit_then_response_lost", "progress_stall"}
Denials == {"permission_denied", "rate_limit"}
MutationKinds ==
    Stales \cup Corruptions \cup Losses \cup Denials \cup
    {"retryable_error", "malformed_result", "disconnect_after_commit", "partial_success",
     "slow_stream", "duplicate_call"}

MutationConfig ==
    [ type: MutationKinds, applies_to: Tools \cup {AnyTool},
      occurrence: Nat,                       \* 0: left undefined
      duration: {"none", "short", "long"} ]  \* long: more than is left of the run

ErrorKinds == {"configuration", "initialization", "timeout", "transport_error",
               "retryable_error", "rate_limit", "permission_denied", "server_error"}
CommitStatuses == {"undefined", "unknown", "not_attempted", "not_committed", "committed"}

\* The id of a call's event: event-n, or probe-event-n for an observation.
Id(n) == [probe |-> FALSE, n |-> n]
ProbeId(n) == [probe |-> TRUE, n |-> n]
Ids == [probe: BOOLEAN, n: Nat]

Outcomes ==
    [ error: ErrorKinds \cup {"none"}, commit: CommitStatuses,
      output: Ids \cup {NoCall} ]

Failed(kind, commit) == [error |-> kind, commit |-> commit, output |-> NoCall]

NoOutcome == Failed("none", "undefined")

ASSUME MutationsAssumption ==
    /\ \A p \in Packs : p.mutations \in Seq(MutationConfig)
    /\ AnyTool \notin Tools /\ NoCall \notin Ids

Controller ==
    [ calls: [Tools -> Nat],
      previousSuccess: [Contexts -> Outcomes],   \* without output: no entry
      records: Seq([ mutation: DOMAIN Mutations, event: Ids,
                     result: {"applied", "blocked", "failed"} ]) ]

EmptyController ==
    [ calls |-> [t \in Tools |-> 0],
      previousSuccess |-> [c \in Contexts |-> NoOutcome],
      records |-> <<>> ]

-------------------------------------------------------------------------------
\* The mutations of the k-th call of a tool.
Matching(tool, k) ==
    {i \in DOMAIN Mutations :
        /\ Mutations[i].applies_to \in {AnyTool, tool}
        /\ Mutations[i].occurrence \in {0, k}}

Counted(ctl, tool) == [ctl EXCEPT !.calls[tool] = @ + 1]

FirstOf(list) == CHOOSE i \in list : \A j \in list : i <= j
OfType(list, type) == {i \in list : Mutations[i].type = type}

\* preflight: a permission denial goes before a rate limit.
Denies(list) == \E i \in list : Mutations[i].type \in Denials
Denial(list) ==
    IF OfType(list, "permission_denied") # {} THEN FirstOf(OfType(list, "permission_denied"))
    ELSE FirstOf(OfType(list, "rate_limit"))

WithRecord(ctl, i, id, result) ==
    [ctl EXCEPT !.records = Append(@, [mutation |-> i, event |-> id, result |-> result])]

HasRecord(ctl, i, id) ==
    \E n \in DOMAIN ctl.records :
        ctl.records[n].mutation = i /\ ctl.records[n].event = id

\* markFailed: what has no record for this event failed.
MarkFailed(ctl, list, id) ==
    LET failed == [i \in DOMAIN Mutations |->
                       [mutation |-> i, event |-> id, result |-> "failed"]]
        missing == {i \in list : ~HasRecord(ctl, i, id)}
    IN  [ctl EXCEPT !.records = @ \o Selection(failed, missing)]

RememberedMutant(ctl, context, outcome) ==  \* mutant: keyed by nothing
    IF outcome.error # "none" THEN ctl
    ELSE [ctl EXCEPT !.previousSuccess = [c \in Contexts |-> outcome]]

\* after() remembers the outcome of the target, not what the mutations made of it.
Remembered(ctl, context, outcome) ==
    IF outcome.error # "none" THEN ctl
    ELSE [ctl EXCEPT !.previousSuccess[context] = outcome]

-------------------------------------------------------------------------------
(* What a mutation makes of an outcome.                                    *)

Delays(mutation) ==
    mutation.type \in {"timeout", "slow_stream", "progress_stall"} /\ mutation.duration # "none"

CommitOfMutant(outcome) ==  \* mutant: a loss counts as a commit
    "committed"

\* Without an error the call counts as committed, whatever the target said of it.
CommitOf(outcome) ==
    IF outcome.error = "none" THEN "committed"
    ELSE IF outcome.commit = "undefined" THEN "unknown" ELSE outcome.commit

CommitGuess(outcome) == IF outcome.error = "none" THEN "committed" ELSE "unknown"

\* Whether the mutation finds what it works on; a path may miss (found).
Applies(mutation, outcome, prior, found) ==
    CASE mutation.type \in Stales -> prior.output # NoCall
      [] mutation.type \in Corruptions -> outcome.output # NoCall /\ found
      [] mutation.type = "rate_limit" -> FALSE
      [] OTHER -> TRUE

\* The outcome of a mutation that applies to the call id.
Changed(mutation, outcome, prior, id) ==
    CASE mutation.type \in Losses -> Failed("timeout", CommitOf(outcome))
      [] mutation.type = "disconnect_after_commit" ->
            Failed("transport_error", CommitOf(outcome))
      [] mutation.type = "retryable_error" ->
            Failed("retryable_error", CommitGuess(outcome))
      [] mutation.type = "partial_success" ->
            [outcome EXCEPT !.error = "retryable_error", !.commit = CommitOf(outcome)]
      [] mutation.type = "malformed_result" ->
            [error |-> "none", commit |-> CommitGuess(outcome), output |-> id]
      [] mutation.type \in Stales -> prior
      [] mutation.type = "slow_stream" -> [outcome EXCEPT !.commit = CommitOf(outcome)]
      [] OTHER -> outcome
===============================================================================
