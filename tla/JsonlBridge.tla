----------------------------- MODULE JsonlBridge -----------------------------
(***************************************************************************)
(* The bridge for other frameworks: parseJsonl (src/src/jsonl.ts) reads a  *)
(* stream of records an adapter wrote, evaluateJsonlRun                    *)
(* (src/src/jsonl-evaluator.ts) turns it into call events and effects and  *)
(* judges them with the operators of Assertions.                           *)
(*                                                                         *)
(* The adapter may write the records in any order and stop anywhere.  The  *)
(* parser reads one record at a time and never looks back, so the model    *)
(* lets it read each record as it is written.  A field of the wrong type   *)
(* or an unknown enumeration value makes a record invalid.                 *)
(***************************************************************************)
EXTENDS Assertions, FiniteSets

CONSTANTS
    RecordLimit,   \* maxRecords
    StreamBound,   \* longest stream the adapter writes: bounds the model only
    Records        \* the records an adapter may write

RecordTypes == {"run_start", "discovery", "tool_call", "tool_result", "state_snapshot",
                "mutation", "transport_error", "run_end"}

ASSUME BridgeAssumption ==
    /\ RecordLimit \in Nat /\ StreamBound \in Nat
    /\ \A r \in Records :
          /\ r.type \in RecordTypes /\ r.valid \in BOOLEAN /\ r.redacted \in BOOLEAN
          /\ r.run # Missing
          /\ r.type = "run_end" => r.status \in {"complete", "failed", "inconclusive"}

VARIABLES
    stream,    \* the records written so far
    bridge,    \* parseJsonl: reading, refused (it threw) or parsed
    adapter,   \* adapter !== undefined
    runId,     \* the run of the first record, or Missing
    terminal   \* terminalStatus, "none" while undefined

bridgeVars == <<stream, bridge, adapter, runId, terminal>>

-------------------------------------------------------------------------------
(* parseJsonl.  Every accepted record becomes one event: events of the run *)
(* are the stream, and their sequence numbers are its positions.           *)

RunMatches(r) == runId \in {Missing, r.run}

\* The case of a record that the switch over its type lets through.
Fits(r) == IF r.type = "run_start" THEN stream = <<>> /\ ~adapter ELSE adapter

\* requireContentRedaction.
RedactedContent(r) ==
    r.type \in {"tool_call", "tool_result", "state_snapshot"} => r.redacted

AcceptableMutant(r) ==  \* mutant: nothing looks at terminalStatus
    r.valid /\ RunMatches(r) /\ Fits(r) /\ RedactedContent(r)

Acceptable(r) ==
    r.valid /\ RunMatches(r) /\ terminal = "none" /\ Fits(r) /\ RedactedContent(r)

ReadRecord(r) ==
    /\ bridge = "reading"
    /\ Len(stream) < StreamBound
    /\ stream' = Append(stream, r)
    /\ IF Acceptable(r)
       THEN /\ runId' = r.run
            /\ adapter' = (adapter \/ r.type = "run_start")
            /\ terminal' = IF r.type = "run_end" THEN r.status ELSE terminal
            /\ UNCHANGED bridge
       ELSE bridge' = "refused" /\ UNCHANGED <<adapter, runId, terminal>>

\* The checks on the whole stream.  The one on its length comes first in the
\* code; a stream that is too long is refused either way.
EndOfInput ==
    /\ bridge = "reading"
    /\ IF /\ stream # <<>> /\ Len(stream) <= RecordLimit /\ adapter
          /\ \A i \in DOMAIN stream : stream[i].redacted
       THEN /\ bridge' = "parsed"
            /\ terminal' = IF terminal = "none" THEN "inconclusive" ELSE terminal
       ELSE bridge' = "refused" /\ UNCHANGED terminal
    /\ UNCHANGED <<stream, adapter, runId>>

BridgeInit ==
    /\ stream = <<>> /\ bridge = "reading"
    /\ adapter = FALSE /\ runId = Missing /\ terminal = "none"

BridgeNext == (\E r \in Records : ReadRecord(r)) \/ EndOfInput

BridgeSpec == BridgeInit /\ [][BridgeNext]_bridgeVars

-------------------------------------------------------------------------------
(* evaluateJsonlRun.  i, j are positions in the stream.                    *)

PositionsOf(type) == {i \in DOMAIN stream : stream[i].type = type}
Earliest(positions) == CHOOSE i \in positions : \A j \in positions : i <= j
Latest(positions) == CHOOSE i \in positions : \A j \in positions : i >= j

ResultsLaterMutant(i) ==  \* mutant: only results that follow the call
    {j \in PositionsOf("tool_result") : j > i /\ stream[j].operation = stream[i].operation}

\* The results an event may take: those reported for its operation, wherever
\* they stand in the stream.
ResultsFor(i) == {j \in PositionsOf("tool_result") : stream[j].operation = stream[i].operation}

BridgeCall(i) ==
    [ id |-> [record |-> i], sequence |-> 0,
      kind |-> IF stream[i].attempt > 1 THEN "retry" ELSE "step",
      tool |-> stream[i].tool, step |-> stream[i].operation, args |-> stream[i].value,
      physical |-> stream[i].physical,
      response |-> IF ResultsFor(i) = {} THEN "undefined"
                   ELSE stream[Earliest(ResultsFor(i))].status ]

\* callEvents(run).
BridgeCalls ==
    LET calls == Selection([i \in DOMAIN stream |-> i], PositionsOf("tool_call")) IN
    [n \in DOMAIN calls |-> [BridgeCall(calls[n]) EXCEPT !.sequence = n]]

Observers == {stream[i].observer : i \in PositionsOf("state_snapshot")}
Snapshots(o) == {i \in PositionsOf("state_snapshot") : stream[i].observer = o}

BridgeEffectMutant(o) ==  \* mutant: only the last snapshot can be inconclusive
    LET first == stream[Earliest(Snapshots(o))]
        last == stream[Latest(Snapshots(o))]
    IN  [ id |-> o, after |-> last.value,
          before |-> IF Cardinality(Snapshots(o)) > 1 THEN first.value ELSE Missing,
          error |-> ~last.conclusive ]

\* observedEffects(run): the first snapshot is the state before, if there are two.
BridgeEffect(o) ==
    LET first == stream[Earliest(Snapshots(o))]
        last == stream[Latest(Snapshots(o))]
    IN  [ id |-> o, after |-> last.value,
          before |-> IF Cardinality(Snapshots(o)) > 1 THEN first.value ELSE Missing,
          error |-> ~first.conclusive \/ ~last.conclusive ]

\* executionErrorFor(run).
BridgeError ==
    \/ terminal \in {"inconclusive", "failed"}
    \/ /\ PositionsOf("transport_error") # {}
       /\ stream[Earliest(PositionsOf("transport_error"))].described

BridgeVerdicts ==
    IF bridge # "parsed" \/ BridgeError THEN {}
    ELSE PackVerdicts(BridgeCalls, {BridgeEffect(o) : o \in Observers})

-------------------------------------------------------------------------------
BridgeTypeOK ==
    /\ stream \in Seq(Records)
    /\ bridge \in {"reading", "refused", "parsed"}
    /\ adapter \in BOOLEAN
    /\ runId = Missing \/ \E r \in Records : runId = r.run
    /\ terminal \in {"none", "complete", "failed", "inconclusive"}

WellFormed ==
    /\ stream # <<>> /\ Len(stream) <= RecordLimit
    /\ \A i \in DOMAIN stream :
          /\ stream[i].valid /\ stream[i].redacted
          /\ stream[i].run = stream[1].run
          /\ (stream[i].type = "run_start") = (i = 1)
          /\ stream[i].type = "run_end" => i = Len(stream)

\* A stream is accepted exactly if it is one run: it begins with the only
\* run_start, every record is valid, redacted and of that run, and nothing
\* follows a run_end.  The parser decides this record by record, without a view
\* of the whole (parseJsonl).
AcceptsWellFormed == bridge # "reading" => (bridge = "parsed" <=> WellFormed)

ClosedAsComplete ==
    BridgeVerdicts # {} =>
        stream[Len(stream)].type = "run_end" /\ stream[Len(stream)].status = "complete"

\* A run is judged only if its adapter closed it as complete.  A transport error
\* prevents the verdicts only if the first one carries an error object: one
\* without leaves a complete run judged (executionErrorFor).
JudgedWhenComplete ==
    /\ ClosedAsComplete
    /\ BridgeVerdicts # {} =>
          \A i \in PositionsOf("transport_error") : stream[i].described =>
              \E j \in PositionsOf("transport_error") : j < i /\ ~stream[j].described

\* No expectation of a contract passes on snapshots that do not carry it: the
\* observer reported, its first and last snapshots are conclusive, an intended
\* value is the one of the last, and what must not change did not change between
\* two (observedEffects).
SnapshotsAreEvidence ==
    \A v \in {w \in BridgeVerdicts : w.verdict = "passed" /\ w.part \in {"intended", "forbidden"}} :
        LET taken == Snapshots(v.of.effect)
            values == <<stream[Earliest(taken)].value, stream[Latest(taken)].value>>
        IN  /\ taken # {}
            /\ stream[Earliest(taken)].conclusive /\ stream[Latest(taken)].conclusive
            /\ v.part = "intended" /\ v.of.change = "none" => values[2] = v.of.expected
            /\ v.part = "forbidden" /\ v.of.change = "none" /\ v.of.expected = Missing =>
                  Cardinality(taken) > 1 /\ values[1] = values[2]

\* A stream is judged, and passes, only on what an adapter that completed its run
\* has sent (evaluateJsonlRun).
VerdictsNeedEvidence == JudgedWhenComplete /\ SnapshotsAreEvidence

\* do_not_retry sees a reported loss: a physical call of the tool after one whose
\* operation was reported lost fails the contract, provided that no two records
\* report a result of that operation.
ReportedLossIsSeen(v) ==
    \A i, j \in PositionsOf("tool_call"), q \in PositionsOf("tool_result") :
        /\ i < j /\ stream[i].physical /\ stream[j].physical
        /\ stream[i].tool = v.of.tool /\ stream[j].tool = v.of.tool
        /\ stream[q].operation = stream[i].operation /\ stream[q].status = "lost"
        /\ \A p \in PositionsOf("tool_result") : stream[p].operation = stream[q].operation => p = q
        => v.verdict # "passed"

\* It blames a run within its attempts only if some call's result was reported
\* lost and another call followed: a result never crosses from one operation to
\* another.
ReportedLossIsReal(v) ==
    /\ v.verdict = "duplicate_transition"
    /\ Len(PhysicalCalls(BridgeCalls, v.of.tool)) <= v.of.recovery.maxAttempts
    => \E i, j \in PositionsOf("tool_call"), q \in PositionsOf("tool_result") :
          /\ i < j /\ stream[i].physical /\ stream[j].physical
          /\ stream[q].status = "lost" /\ stream[q].operation = stream[i].operation

\* Losses count as they were reported, in whatever order calls and results were
\* (callEvents, evaluateRecovery).
LossesAsReported ==
    \A v \in {w \in BridgeVerdicts : w.part = "recovery" /\ w.of.recovery.uncertain = "do_not_retry"} :
        ReportedLossIsSeen(v) /\ ReportedLossIsReal(v)
=============================================================================
