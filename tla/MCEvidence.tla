------------------------------ MODULE MCEvidence ------------------------------
(* One invocation of the command line that judges or prepares evidence:    *)
(* test over a proxied session, bridge over a stream of records, or        *)
(* capture over the file of a session.  All three share one pack.          *)
EXTENDS MCProxyEvaluation, JsonlBridge, GuidedCapture

VARIABLE command

evidenceVars == <<allVars, bridgeVars, guideVars, command>>

-------------------------------------------------------------------------------
(* Records of an adapter: one run, another one, and the ways to be wrong.  *)

Plain(type) ==
    [ type |-> type, run |-> [run |-> 1], valid |-> TRUE, redacted |-> TRUE,
      operation |-> [operation |-> 0], tool |-> t1, physical |-> FALSE, attempt |-> 1, status |-> "none",
      described |-> FALSE, observer |-> count, value |-> Missing, conclusive |-> TRUE ]
ToolCall(operation, attempt, args) ==
    [Plain("tool_call") EXCEPT !.operation = [operation |-> operation], !.attempt = attempt,
                               !.physical = TRUE, !.value = Number(args)]
ToolResult(operation, status) ==
    [Plain("tool_result") EXCEPT !.operation = [operation |-> operation], !.status = status]
Snapshot(value, conclusive) ==
    [Plain("state_snapshot") EXCEPT !.value = Number(value), !.conclusive = conclusive]
RunEnd(status) == [Plain("run_end") EXCEPT !.status = status]

AdapterRecords ==
    { Plain("run_start"), [Plain("run_start") EXCEPT !.run = [run |-> 2]],
      ToolCall(1, 1, 1), ToolCall(2, 2, 1), ToolResult(1, "lost"), ToolResult(2, "returned"),
      Snapshot(0, TRUE), Snapshot(1, TRUE), Snapshot(1, FALSE),
      [Plain("transport_error") EXCEPT !.described = TRUE],
      [Plain("discovery") EXCEPT !.valid = FALSE], [Plain("mutation") EXCEPT !.redacted = FALSE],
      RunEnd("complete"), RunEnd("failed") }

-------------------------------------------------------------------------------
(* Captures with repeated calls, and a tool whose hints change.            *)

Hints(readOnly, destructive) == [readOnly |-> readOnly, destructive |-> destructive]
Listing(first, second) ==
    [what |-> "listing", tools |-> [t \in {t1, t2} |-> IF t = t1 THEN first ELSE second]]
SessionEvents ==
    { [what |-> "client_call", tool |-> t1, args |-> 1],
      [what |-> "client_call", tool |-> t2, args |-> 2],
      [what |-> "target_call", tool |-> t1, args |-> 1],
      Listing(Hints("unset", "true"), Hints("true", "unset")),
      Listing(Hints("unset", "unset"), Hints("false", "unset")),
      Listing(Hints("true", "unset"), Hints("unset", "unset")) }

Confirm(tool, observer, profile) ==
    [ confirmed |-> TRUE, target |-> tool, sideEffecting |-> TRUE, observer |-> observer,
      optIn |-> TRUE, profile |-> profile, ordering |-> {}, forbidden |-> {},
      expected |-> Number(1),
      cardinality |-> IF observer = "command" THEN "at_least_once" ELSE "exactly_once" ]
Confirmable ==
    { Confirm(tool, observer, profile) :
        tool \in {t1, t2}, observer \in {t1, t2, "command"},
        profile \in {"ambiguous-commit", "duplicate-delivery"} }
      \cup { [Confirm(t1, "command", "disconnect-after-commit") EXCEPT !.optIn = FALSE],
             [Confirm(t1, t2, "disconnect-after-commit") EXCEPT !.confirmed = FALSE],
             [Confirm(t1, t2, "disconnect-after-commit") EXCEPT
                 !.ordering = {[before |-> t2, after |-> t1]}, !.cardinality = "at_most_once",
                 !.forbidden = {[expected |-> Missing, change |-> "increase"]}],
             [Confirm(t1, t2, "ambiguous-commit") EXCEPT
                 !.forbidden = {[expected |-> Missing, change |-> "none"]}],
             [Confirm(t2, t1, "ambiguous-commit") EXCEPT !.expected = Missing] }

-------------------------------------------------------------------------------
\* A pack is only judged against a capture or a stream, so the session of the
\* other commands never starts.
EvidenceInit ==
    /\ command \in {"test", "bridge", "capture"}
    /\ EvaluationInit /\ BridgeInit /\ GuideInit
    /\ command # "test" => optIn = TRUE /\ initial = Number(0)

EvidenceNext ==
    \/ command = "test" /\ EvaluationNext /\ UNCHANGED <<bridgeVars, guideVars, command>>
    \/ command = "bridge" /\ BridgeNext /\ UNCHANGED <<allVars, guideVars, command>>
    \/ command = "capture" /\ GuideNext /\ UNCHANGED <<allVars, bridgeVars, command>>
    \/ \* The command has ended.
       /\ bridge \in {"refused", "parsed"} \/ guide \in {"refused", "written"}
       /\ UNCHANGED evidenceVars

EvidenceSpec == EvidenceInit /\ [][EvidenceNext]_evidenceVars
=============================================================================
