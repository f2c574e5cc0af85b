-------------------------- MODULE EvidenceProofs --------------------------
(***************************************************************************)
(* What can be believed of a judged run, whatever the pack and whatever    *)
(* was recorded.  The bridge accepts the well-formed streams and no        *)
(* others; it judges only runs that their adapter closed as complete, and  *)
(* passes only what conclusive snapshots show; it sees every loss that the *)
(* adapter reported.  The evaluation of a proxied session passes nothing   *)
(* that the external state refutes, counts the calls that the target read, *)
(* gives each call an answer of its own, and tells the mutations that were *)
(* applied.  A pack made from a capture is the session that was recorded,  *)
(* and its fault shows in its assertions.                                  *)
(***************************************************************************)
EXTENDS JsonlBridge, ProxyEvaluation, GuidedCapture, StdioTrafficProofs, SelectionProofs

\* What the parser knows of the records it has read, by the three variables it
\* keeps: the first one alone starts a run, and a record that ends it is the last.
ReadSoFar ==
    /\ adapter = (stream # <<>>)
    /\ stream # <<>> => runId = stream[1].run
    /\ stream = <<>> => runId = Missing
    /\ \A i \in DOMAIN stream :
          /\ stream[i].valid /\ RedactedContent(stream[i])
          /\ stream[i].run = stream[1].run
          /\ (stream[i].type = "run_start") = (i = 1)
          /\ stream[i].type = "run_end" => i = Len(stream)

\* A terminal status that the adapter wrote is that of the last record.
Closed ==
    terminal \in {"complete", "failed"} =>
        /\ stream # <<>>
        /\ stream[Len(stream)].type = "run_end" /\ stream[Len(stream)].status = terminal

Ended == stream # <<>> /\ stream[Len(stream)].type = "run_end"

BridgeInv ==
    /\ BridgeTypeOK
    /\ bridge = "reading" => ReadSoFar /\ (terminal # "none" <=> Ended)
    /\ bridge # "refused" => Closed
    /\ bridge = "parsed" => terminal # "none"
    /\ AcceptsWellFormed

-------------------------------------------------------------------------------
LEMMA RecordFields ==
    ASSUME NEW r \in Records
    PROVE  /\ r.valid \in BOOLEAN /\ r.redacted \in BOOLEAN
           /\ r.run # Missing
           /\ r.type = "run_end" => r.status \in {"complete", "failed", "inconclusive"}
BY BridgeAssumption, SMTT(60)

\* Appending keeps what was there.
LEMMA Appended ==
    ASSUME NEW s \in Seq(Records), NEW r \in Records
    PROVE  /\ Append(s, r) \in Seq(Records)
           /\ Len(Append(s, r)) = Len(s) + 1 /\ Len(s) \in Nat
           /\ Append(s, r) # <<>>
           /\ DOMAIN Append(s, r) = 1..(Len(s) + 1) /\ DOMAIN s = 1..Len(s)
           /\ \A i \in 1..Len(s) : Append(s, r)[i] = s[i]
           /\ Append(s, r)[Len(s) + 1] = r
           /\ s = <<>> <=> Len(s) = 0
BY AppendProperties, LenProperties, EmptySeq

\* A record that is let through leaves a stream that may still be well-formed.
LEMMA Extends ==
    ASSUME BridgeInv, bridge = "reading", NEW r \in Records, Acceptable(r),
           stream' = Append(stream, r), runId' = r.run, adapter' = TRUE
    PROVE  ReadSoFar'
<1>. stream \in Seq(Records)
  BY DEF BridgeInv, BridgeTypeOK
<1>. DEFINE n == Len(stream)
<1>1. /\ stream' # <<>> /\ Len(stream') = n + 1 /\ n \in Nat
      /\ DOMAIN stream' = 1..(n + 1) /\ DOMAIN stream = 1..n
      /\ \A i \in 1..n : stream'[i] = stream[i]
      /\ stream'[n + 1] = r
      /\ stream = <<>> <=> n = 0
  BY Appended
<1>. HIDE DEF n
<1>2. ReadSoFar /\ terminal = "none" /\ r.valid /\ RunMatches(r) /\ Fits(r) /\ RedactedContent(r)
  BY DEF BridgeInv, Acceptable
<1>3. stream'[1].run = r.run
  <2>1. CASE n = 0
    BY <1>1, <2>1
  <2>2. CASE n # 0
    <3>1. stream # <<>> /\ 1 \in 1..n
      BY <1>1, <2>2
    <3>2. runId = stream[1].run /\ stream[1] \in Records
      BY <3>1, <1>1, <1>2, ElementOfSeq DEF ReadSoFar
    <3>3. runId # Missing
      BY <3>2, RecordFields
    <3>. QED BY <1>1, <1>2, <3>1, <3>2, <3>3 DEF RunMatches
  <2>. QED BY <2>1, <2>2
<1>4. ASSUME NEW i \in 1..n
      PROVE  /\ stream[i].valid /\ RedactedContent(stream[i])
             /\ stream[i].run = stream'[1].run
             /\ (stream[i].type = "run_start") = (i = 1)
             /\ stream[i].type # "run_end"
  <2>1. n # 0 /\ 1 \in 1..n /\ stream # <<>>
    BY <1>1
  <2>2. stream'[1] = stream[1]
    BY <1>1, <2>1
  <2>3. stream[i].type # "run_end"
    <3>1. stream[i].type = "run_end" => Ended
      BY <1>1, <1>2, <2>1 DEF ReadSoFar, Ended, n
    <3>2. ~Ended
      BY <1>2 DEF BridgeInv
    <3>. QED BY <3>1, <3>2
  <2>. QED BY <1>1, <1>2, <2>1, <2>2, <2>3 DEF ReadSoFar
<1>5. (r.type = "run_start") = (n + 1 = 1)
  <2>1. adapter <=> n # 0
    BY <1>1, <1>2 DEF ReadSoFar
  <2>. QED BY <1>1, <1>2, <2>1 DEF Fits
<1>6. ASSUME NEW i \in DOMAIN stream'
      PROVE  /\ stream'[i].valid /\ RedactedContent(stream'[i])
             /\ stream'[i].run = stream'[1].run
             /\ (stream'[i].type = "run_start") = (i = 1)
             /\ stream'[i].type = "run_end" => i = Len(stream')
  <2>1. CASE i \in 1..n
    <3>1. stream'[i] = stream[i]
      BY <1>1, <2>1
    <3>. QED BY <1>4, <2>1, <3>1
  <2>2. CASE i = n + 1
    <3>1. stream'[i] = r
      BY <1>1, <2>2
    <3>. QED BY <1>1, <1>2, <1>3, <1>5, <2>2, <3>1
  <2>. QED BY <1>1, <2>1, <2>2
<1>7. runId' = stream'[1].run
  BY <1>3
<1>. QED BY <1>1, <1>6, <1>7, Zenon DEF ReadSoFar, RedactedContent

\* A record that is not let through leaves a stream that is not well-formed.
LEMMA Refuses ==
    ASSUME BridgeInv, bridge = "reading", NEW r \in Records, ~Acceptable(r),
           stream' = Append(stream, r)
    PROVE  ~WellFormed'
<1>. stream \in Seq(Records)
  BY DEF BridgeInv, BridgeTypeOK
<1>. DEFINE n == Len(stream)
<1>1. /\ Len(stream') = n + 1 /\ n \in Nat
      /\ DOMAIN stream' = 1..(n + 1) /\ DOMAIN stream = 1..n
      /\ \A i \in 1..n : stream'[i] = stream[i]
      /\ stream'[n + 1] = r
      /\ stream = <<>> <=> n = 0
  BY Appended
<1>. HIDE DEF n
<1>2. ReadSoFar /\ (terminal # "none" <=> Ended)
  BY DEF BridgeInv
<1>3. SUFFICES ASSUME WellFormed' PROVE FALSE
  OBVIOUS
<1>4. \A i \in 1..(n + 1) :
         /\ stream'[i].valid /\ stream'[i].redacted
         /\ stream'[i].run = stream'[1].run
         /\ (stream'[i].type = "run_start") = (i = 1)
         /\ stream'[i].type = "run_end" => i = n + 1
  BY <1>1, <1>3 DEF WellFormed
<1>5. n + 1 \in 1..(n + 1)
  BY <1>1
<1>6. r.valid /\ RedactedContent(r)
  BY <1>1, <1>4, <1>5 DEF RedactedContent
<1>7. RunMatches(r)
  <2>1. CASE n = 0
    BY <1>1, <1>2, <2>1 DEF RunMatches, ReadSoFar
  <2>2. CASE n # 0
    <3>1. 1 \in 1..n /\ stream # <<>>
      BY <1>1, <2>2
    <3>. QED BY <1>1, <1>2, <1>4, <1>5, <3>1 DEF RunMatches, ReadSoFar
  <2>. QED BY <2>1, <2>2
<1>8. terminal = "none"
  <2>1. SUFFICES ASSUME Ended PROVE FALSE
    BY <1>2
  <2>2. n \in 1..n /\ n \in 1..(n + 1) /\ stream[n].type = "run_end"
    BY <1>1, <2>1 DEF Ended, n
  <2>. QED BY <1>1, <1>4, <2>2
<1>9. Fits(r)
  <2>1. adapter <=> n # 0
    BY <1>1, <1>2 DEF ReadSoFar
  <2>2. (r.type = "run_start") = (n + 1 = 1)
    BY <1>1, <1>4, <1>5
  <2>. QED BY <1>1, <2>1, <2>2 DEF Fits
<1>. QED BY <1>6, <1>7, <1>8, <1>9 DEF Acceptable

\* At the end of the stream the four checks are what well-formedness still lacks.
LEMMA Decides ==
    ASSUME BridgeInv, bridge = "reading"
    PROVE  WellFormed <=> /\ stream # <<>> /\ Len(stream) <= RecordLimit /\ adapter
                          /\ \A i \in DOMAIN stream : stream[i].redacted
BY Zenon DEF BridgeInv, ReadSoFar, WellFormed

-------------------------------------------------------------------------------
LEMMA BridgeStarts == BridgeInit => BridgeInv
<1>. SUFFICES ASSUME BridgeInit PROVE BridgeInv
  OBVIOUS
<1>1. stream = <<>> /\ stream \in Seq(Records) /\ DOMAIN stream = {}
  BY EmptySeq DEF BridgeInit
<1>2. bridge = "reading" /\ adapter = FALSE /\ runId = Missing /\ terminal = "none"
  BY DEF BridgeInit
<1>. QED BY <1>1, <1>2 DEF BridgeInv, BridgeTypeOK, ReadSoFar, Ended, Closed, AcceptsWellFormed

LEMMA ReadRecordStep ==
    ASSUME BridgeInv, NEW r \in Records, ReadRecord(r)
    PROVE  BridgeInv'
<1>. stream \in Seq(Records)
  BY DEF BridgeInv, BridgeTypeOK
<1>1. bridge = "reading" /\ stream' = Append(stream, r)
  BY DEF ReadRecord
<1>2. /\ stream' \in Seq(Records) /\ stream' # <<>>
      /\ stream'[Len(stream')] = r
  BY <1>1, Appended
<1>3. CASE Acceptable(r)
  <2>1. /\ runId' = r.run /\ bridge' = "reading"
        /\ adapter' = (adapter \/ r.type = "run_start")
        /\ terminal' = IF r.type = "run_end" THEN r.status ELSE terminal
    BY <1>1, <1>3 DEF ReadRecord
  <2>2. adapter' = TRUE
    BY <1>3, <2>1 DEF Acceptable, Fits
  <2>3. ReadSoFar'
    BY <1>1, <1>3, <2>1, <2>2, Extends
  <2>4. terminal = "none"
    BY <1>3 DEF Acceptable
  <2>5. (terminal' # "none" <=> Ended') /\ Closed'
    <3>1. Ended' <=> r.type = "run_end"
      BY <1>2 DEF Ended
    <3>2. r.type = "run_end" => r.status \in {"complete", "failed", "inconclusive"}
      BY RecordFields
    <3>. QED BY <1>2, <2>1, <2>4, <3>1, <3>2 DEF Closed
  <2>6. BridgeTypeOK'
    BY <1>2, <2>1, <2>2, <2>4, RecordFields DEF BridgeTypeOK
  <2>. QED BY <2>1, <2>3, <2>5, <2>6 DEF BridgeInv, AcceptsWellFormed
<1>4. CASE ~Acceptable(r)
  <2>1. bridge' = "refused" /\ UNCHANGED <<adapter, runId, terminal>>
    BY <1>1, <1>4 DEF ReadRecord
  <2>2. ~WellFormed'
    BY <1>1, <1>4, Refuses
  <2>3. BridgeTypeOK'
    BY <1>2, <2>1 DEF BridgeInv, BridgeTypeOK
  <2>. QED BY <2>1, <2>2, <2>3 DEF BridgeInv, AcceptsWellFormed
<1>. QED BY <1>3, <1>4

LEMMA EndOfInputStep ==
    ASSUME BridgeInv, EndOfInput
    PROVE  BridgeInv'
<1>1. bridge = "reading" /\ UNCHANGED <<stream, adapter, runId>>
  BY DEF EndOfInput
<1>2. WellFormed' <=> WellFormed
  BY <1>1 DEF WellFormed
<1>3. CASE WellFormed
  <2>1. bridge' = "parsed" /\ terminal' = IF terminal = "none" THEN "inconclusive" ELSE terminal
    BY <1>1, <1>3, Decides DEF EndOfInput
  <2>2. Closed'
    BY <1>1, <2>1 DEF BridgeInv, Closed
  <2>3. BridgeTypeOK'
    BY <1>1, <2>1 DEF BridgeInv, BridgeTypeOK
  <2>. QED BY <1>2, <1>3, <2>1, <2>2, <2>3 DEF BridgeInv, AcceptsWellFormed
<1>4. CASE ~WellFormed
  <2>1. bridge' = "refused" /\ UNCHANGED terminal
    BY <1>1, <1>4, Decides DEF EndOfInput
  <2>2. BridgeTypeOK'
    BY <1>1, <2>1 DEF BridgeInv, BridgeTypeOK
  <2>. QED BY <1>2, <1>4, <2>1, <2>2 DEF BridgeInv, AcceptsWellFormed
<1>. QED BY <1>3, <1>4

LEMMA BridgeStep ==
    ASSUME BridgeInv, [BridgeNext]_bridgeVars
    PROVE  BridgeInv'
<1>1. CASE UNCHANGED bridgeVars
  BY <1>1 DEF bridgeVars, BridgeInv, BridgeTypeOK, ReadSoFar, RedactedContent, Ended, Closed,
              AcceptsWellFormed, WellFormed
<1>. QED BY <1>1, ReadRecordStep, EndOfInputStep DEF BridgeNext

LEMMA BridgeInvariant == BridgeSpec => []BridgeInv
BY BridgeStarts, BridgeStep, PTL DEF BridgeSpec

\* The parser keeps its types.
THEOREM BridgeTypeCorrect == BridgeSpec => []BridgeTypeOK
<1>1. BridgeInv => BridgeTypeOK
  BY DEF BridgeInv
<1>. QED BY <1>1, BridgeInvariant, PTL

\* parseJsonl accepts the well-formed streams and refuses all others.
THEOREM AcceptsExactly == BridgeSpec => []AcceptsWellFormed
<1>1. BridgeInv => AcceptsWellFormed
  BY DEF BridgeInv
<1>. QED BY <1>1, BridgeInvariant, PTL

\* Verdicts need a terminal status that the adapter wrote.
LEMMA BridgeInvCloses == BridgeInv => ClosedAsComplete
<1>. SUFFICES ASSUME BridgeInv, BridgeVerdicts # {}
              PROVE  stream[Len(stream)].type = "run_end" /\ stream[Len(stream)].status = "complete"
  BY DEF ClosedAsComplete
<1>1. bridge = "parsed" /\ terminal \notin {"inconclusive", "failed"}
  BY DEF BridgeVerdicts, BridgeError
<1>2. terminal # "none"
  BY <1>1 DEF BridgeInv
<1>. QED BY <1>1, <1>2 DEF BridgeInv, Closed, BridgeTypeOK

\* evaluateJsonlRun has verdicts only on a run that its adapter closed as
\* complete.
THEOREM JudgesClosedRuns == BridgeSpec => []ClosedAsComplete
BY BridgeInvCloses, BridgeInvariant, PTL

-------------------------------------------------------------------------------
(* What a verdict is about.                                                *)

\* A verdict of a run is that of an assertion, of an entry of the state contract or of
\* an effect contract.
LEMMA VerdictParts ==
    ASSUME NEW events, NEW effects, NEW v \in PackVerdicts(events, effects)
    PROVE  \/ /\ v.part = "assertion" /\ v.of \in Pack.assertions
              /\ v.verdict = Verdict(v.of, events, effects, <<>>, <<>>)
           \/ v.part = "state" /\ v.verdict = StateEntry(v.of, FALSE, effects, events)
           \/ v.part = "state_forbidden" /\ v.verdict = StateEntry(v.of, TRUE, effects, events)
           \/ \E c \in Pack.contracts : v \in ContractVerdicts(c, events, effects)
<1>. DEFINE A == { [part |-> "assertion", of |-> a,
                    verdict |-> Verdict(a, events, effects, <<>>, <<>>)] : a \in Pack.assertions }
            S == { [part |-> "state", of |-> entry,
                    verdict |-> StateEntry(entry, FALSE, effects, events)] : entry \in Pack.state.effects }
            F == { [part |-> "state_forbidden", of |-> entry,
                    verdict |-> StateEntry(entry, TRUE, effects, events)] :
                   entry \in Pack.state.forbidden }
            C == {ContractVerdicts(c, events, effects) : c \in Pack.contracts}
<1>1. v \in UNION {A, S, F, UNION C}
  BY DEF PackVerdicts
<1>2. v \in A => /\ v.part = "assertion" /\ v.of \in Pack.assertions
                /\ v.verdict = Verdict(v.of, events, effects, <<>>, <<>>)
  OBVIOUS
<1>3. v \in S => v.part = "state" /\ v.verdict = StateEntry(v.of, FALSE, effects, events)
  <2>1. v \in S => \E x : v = [part |-> "state", of |-> x,
                               verdict |-> StateEntry(x, FALSE, effects, events)]
    BY Zenon
  <2>. HIDE DEF S
  <2>2. ASSUME NEW x, v = [part |-> "state", of |-> x,
                           verdict |-> StateEntry(x, FALSE, effects, events)]
        PROVE  v.part = "state" /\ v.verdict = StateEntry(v.of, FALSE, effects, events)
    <3>1. v.part = "state" /\ v.of = x /\ v.verdict = StateEntry(x, FALSE, effects, events)
      BY <2>2, Zenon
    <3>. QED BY <3>1, Zenon
  <2>. QED BY <2>1, <2>2, Zenon
<1>4. v \in F => v.part = "state_forbidden" /\ v.verdict = StateEntry(v.of, TRUE, effects, events)
  <2>1. v \in F => \E x : v = [part |-> "state_forbidden", of |-> x,
                               verdict |-> StateEntry(x, TRUE, effects, events)]
    BY Zenon
  <2>. HIDE DEF F
  <2>2. ASSUME NEW x, v = [part |-> "state_forbidden", of |-> x,
                           verdict |-> StateEntry(x, TRUE, effects, events)]
        PROVE  v.part = "state_forbidden" /\ v.verdict = StateEntry(v.of, TRUE, effects, events)
    <3>1. v.part = "state_forbidden" /\ v.of = x /\ v.verdict = StateEntry(x, TRUE, effects, events)
      BY <2>2, Zenon
    <3>. QED BY <3>1, Zenon
  <2>. QED BY <2>1, <2>2, Zenon
<1>5. v \in UNION C => \E c \in Pack.contracts : v \in ContractVerdicts(c, events, effects)
  OBVIOUS
<1>. HIDE DEF A, S, F, C
<1>6. v \in A \/ v \in S \/ v \in F \/ v \in UNION C
  BY <1>1, Zenon
<1>. QED BY <1>2, <1>3, <1>4, <1>5, <1>6, Zenon

\* A verdict of an effect contract is that of one of its parts.
LEMMA ContractParts ==
    ASSUME NEW events, NEW effects, NEW c, NEW v \in ContractVerdicts(c, events, effects)
    PROVE  /\ v.part \in {"precondition", "intended", "forbidden", "cardinality", "ordering",
                          "authorization", "recovery"}
           /\ v.part = "precondition" =>
                 v.verdict = ContractExpectation(v.of, "before", effects, events)
           /\ v.part = "intended" =>
                 v.verdict = ContractExpectation(v.of, "after", effects, events)
           /\ v.part = "forbidden" => v.verdict = ForbiddenExpectation(v.of, effects)
           /\ v.part = "cardinality" => v.of = c /\ v.verdict = CardinalityVerdict(c, events)
           /\ v.part = "recovery" => v.of = c /\ v.verdict = RecoveryVerdict(c, events)
BY DEF ContractVerdicts

-------------------------------------------------------------------------------
(* Verdicts.                                                               *)

LEMMA EarliestIsFirst ==
    ASSUME NEW S, S \subseteq Nat, S # {}
    PROVE  Earliest(S) \in S /\ \A j \in S : Earliest(S) <= j
BY LeastElement DEF Earliest

\* The effects of a run have one entry for each observer that reported.
LEMMA EffectsOfObservers ==
    ASSUME NEW o
    PROVE  LET effects == {BridgeEffect(p) : p \in Observers} IN
           Known(effects, o) => o \in Observers /\ EffectOf(effects, o) = BridgeEffect(o)
<1>. DEFINE effects == {BridgeEffect(p) : p \in Observers}
<1>1. \A p : BridgeEffect(p).id = p
  BY DEF BridgeEffect
<1>2. \A e \in effects : e.id = o => o \in Observers /\ e = BridgeEffect(o)
  BY <1>1
<1>3. ASSUME Known(effects, o) PROVE EffectOf(effects, o) \in effects /\ EffectOf(effects, o).id = o
  BY <1>3, Zenon DEF Known, EffectOf
<1>. QED BY <1>2, <1>3 DEF Known

\* An expectation that passes has read both snapshots.
LEMMA UsableEvidence ==
    ASSUME NEW o, Evidence({BridgeEffect(p) : p \in Observers}, o) = "usable"
    PROVE  LET taken == Snapshots(o)
               e == EffectOf({BridgeEffect(p) : p \in Observers}, o)
           IN  /\ taken # {}
               /\ stream[Earliest(taken)].conclusive /\ stream[Latest(taken)].conclusive
               /\ e.after = stream[Latest(taken)].value
               /\ e.before = IF Cardinality(taken) > 1 THEN stream[Earliest(taken)].value ELSE Missing
<1>. DEFINE effects == {BridgeEffect(p) : p \in Observers}
            taken == Snapshots(o)
<1>1. Known(effects, o) /\ ~EffectOf(effects, o).error
  BY DEF Evidence
<1>2. o \in Observers /\ EffectOf(effects, o) = BridgeEffect(o)
  BY <1>1, EffectsOfObservers
<1>3. taken # {}
  BY <1>2 DEF Observers, Snapshots
<1>4. /\ BridgeEffect(o).after = stream[Latest(taken)].value
      /\ BridgeEffect(o).before = IF Cardinality(taken) > 1 THEN stream[Earliest(taken)].value ELSE Missing
      /\ BridgeEffect(o).error <=> ~stream[Earliest(taken)].conclusive \/ ~stream[Latest(taken)].conclusive
  BY DEF BridgeEffect
<1>. QED BY <1>1, <1>2, <1>3, <1>4

\* A verdict about an intended or a forbidden effect is that of an expectation.
LEMMA ExpectationVerdicts ==
    ASSUME NEW v \in BridgeVerdicts
    PROVE  LET effects == {BridgeEffect(p) : p \in Observers} IN
           /\ bridge = "parsed" /\ ~BridgeError
           /\ v.part = "intended" =>
                 v.verdict = ContractExpectation(v.of, "after", effects, BridgeCalls)
           /\ v.part = "forbidden" => v.verdict = ForbiddenExpectation(v.of, effects)
<1>. DEFINE effects == {BridgeEffect(p) : p \in Observers}
            calls == BridgeCalls
<1>1. bridge = "parsed" /\ ~BridgeError /\ v \in PackVerdicts(calls, effects)
  BY DEF BridgeVerdicts
<1>. HIDE DEF effects, calls
<1>2. /\ v.part = "intended" => v.verdict = ContractExpectation(v.of, "after", effects, calls)
      /\ v.part = "forbidden" => v.verdict = ForbiddenExpectation(v.of, effects)
  <2>1. \/ v.part \notin {"intended", "forbidden"}
        \/ \E c \in Pack.contracts : v \in ContractVerdicts(c, calls, effects)
    BY <1>1, VerdictParts, Zenon
  <2>2. ASSUME NEW c, v \in ContractVerdicts(c, calls, effects)
        PROVE  /\ v.part = "intended" => v.verdict = ContractExpectation(v.of, "after", effects, calls)
               /\ v.part = "forbidden" => v.verdict = ForbiddenExpectation(v.of, effects)
    BY <2>2, ContractParts
  <2>. QED BY <2>1, <2>2
<1>. QED BY <1>1, <1>2 DEF effects, calls

\* evaluateJsonlRun judges a stream, and passes an expectation of it, only on
\* what an adapter that completed its run has sent: whatever the records, in
\* whatever order and wherever the stream stops.
THEOREM VerdictsRestOnEvidence == BridgeSpec => []VerdictsNeedEvidence
<1>1. ASSUME BridgeInv, ClosedAsComplete PROVE JudgedWhenComplete
  <2>. SUFFICES ASSUME BridgeVerdicts # {}, NEW i \in PositionsOf("transport_error"),
                       stream[i].described
                PROVE  \E j \in PositionsOf("transport_error") : j < i /\ ~stream[j].described
    BY <1>1 DEF JudgedWhenComplete
  <2>. DEFINE errors == PositionsOf("transport_error")
              j == Earliest(errors)
  <2>1. ~stream[j].described
    BY DEF BridgeVerdicts, BridgeError
  <2>2. errors \subseteq Nat
    <3>1. stream \in Seq(Records)
      BY <1>1 DEF BridgeInv, BridgeTypeOK
    <3>2. DOMAIN stream = 1..Len(stream) /\ Len(stream) \in Nat
      BY <3>1
    <3>. QED BY <3>2 DEF PositionsOf
  <2>3. i \in errors /\ errors # {}
    OBVIOUS
  <2>. HIDE DEF errors
  <2>4. j \in errors /\ j <= i
    BY <2>2, <2>3, EarliestIsFirst
  <2>5. j # i
    BY <2>1
  <2>6. j < i
    <3>1. j \in Nat /\ i \in Nat
      BY <2>2, <2>3, <2>4
    <3>. HIDE DEF j
    <3>. QED BY <2>4, <2>5, <3>1
  <2>. QED BY <2>1, <2>4, <2>6 DEF errors
<1>2. SnapshotsAreEvidence
  <2>. SUFFICES ASSUME NEW v \in BridgeVerdicts, v.verdict = "passed",
                       v.part \in {"intended", "forbidden"}
                PROVE  LET taken == Snapshots(v.of.effect)
                           first == stream[Earliest(taken)]
                           last == stream[Latest(taken)]
                       IN  /\ taken # {} /\ first.conclusive /\ last.conclusive
                           /\ v.part = "intended" /\ v.of.change = "none" =>
                                 last.value = v.of.expected
                           /\ /\ v.part = "forbidden" /\ v.of.change = "none"
                              /\ v.of.expected = Missing
                              => Cardinality(taken) > 1 /\ first.value = last.value
    BY DEF SnapshotsAreEvidence
  <2>. DEFINE effects == {BridgeEffect(p) : p \in Observers}
              e == EffectOf(effects, v.of.effect)
  <2>1. /\ v.part = "intended" =>
              v.verdict = ContractExpectation(v.of, "after", effects, BridgeCalls)
        /\ v.part = "forbidden" => v.verdict = ForbiddenExpectation(v.of, effects)
    BY ExpectationVerdicts
  <2>. HIDE DEF effects
  <2>2. ASSUME v.part = "intended"
        PROVE  /\ Evidence(effects, v.of.effect) = "usable"
               /\ v.of.change = "none" => e.after = v.of.expected
    <3>1. ContractExpectation(v.of, "after", effects, BridgeCalls) = "passed"
      BY <2>1, <2>2
    <3>2. Evidence(effects, v.of.effect) \in {"missing_effect", "probe_error", "usable"}
      BY DEF Evidence
    <3>. QED BY <3>1, <3>2 DEF ContractExpectation, TransitionCategory
  <2>3. ASSUME v.part = "forbidden"
        PROVE  /\ Evidence(effects, v.of.effect) = "usable"
               /\ v.of.change = "none" /\ v.of.expected = Missing =>
                     e.before # Missing /\ e.before = e.after
    <3>1. ForbiddenExpectation(v.of, effects) = "passed"
      BY <2>1, <2>3
    <3>2. Evidence(effects, v.of.effect) \in {"missing_effect", "probe_error", "usable"}
      BY DEF Evidence
    <3>. QED BY <3>1, <3>2 DEF ForbiddenExpectation
  <2>4. Evidence(effects, v.of.effect) = "usable"
    BY <2>2, <2>3
  <2>. QED BY <2>2, <2>3, <2>4, UsableEvidence DEF effects
<1>3. BridgeInv => ClosedAsComplete
  BY BridgeInvCloses
<1>. QED BY <1>1, <1>2, <1>3, BridgeInvariant, PTL DEF VerdictsNeedEvidence

-------------------------------------------------------------------------------
(* Losses.                                                                 *)

\* The verdict on what came after a loss is that of the contract it is about.
LEMMA RecoveryVerdicts ==
    ASSUME NEW events, NEW effects, NEW v \in PackVerdicts(events, effects), v.part = "recovery"
    PROVE  v.of \in Pack.contracts /\ v.verdict = RecoveryVerdict(v.of, events)
<1>1. PICK c \in Pack.contracts : v \in ContractVerdicts(c, events, effects)
  BY VerdictParts, Zenon
<1>. QED BY <1>1, ContractParts

\* where[k] is the position in the stream of the k-th call of the evaluated run.
CallsStandAt(where, calls) ==
    /\ where \in [1..Len(calls) -> DOMAIN stream]
    /\ \A k \in 1..Len(calls) :
          /\ stream[where[k]].type = "tool_call"
          /\ calls[k].tool = stream[where[k]].tool
          /\ calls[k].physical = stream[where[k]].physical
          /\ calls[k].kind # "effect_probe"
          /\ calls[k].response = IF ResultsFor(where[k]) = {} THEN "undefined"
                                 ELSE stream[Earliest(ResultsFor(where[k]))].status
    /\ \A j, k \in 1..Len(calls) : j < k => where[j] < where[k]

LEMMA BridgeCallsListed ==
    ASSUME stream \in Seq(Records)
    PROVE  /\ \E S : BridgeCalls \in Seq(S)
           /\ \E where : /\ CallsStandAt(where, BridgeCalls)
                         /\ \A i \in PositionsOf("tool_call") : \E k \in 1..Len(BridgeCalls) : where[k] = i
<1>. DEFINE s == [i \in DOMAIN stream |-> i]
            calls == Selection(s, PositionsOf("tool_call"))
<1>1. Len(stream) \in Nat /\ DOMAIN stream = 1..Len(stream)
  BY LenProperties
<1>2. s \in Seq(Nat) /\ Len(s) = Len(stream) /\ \A i \in 1..Len(stream) : s[i] = i
  BY <1>1
<1>. HIDE DEF s
<1>3. calls \in Seq(Nat) /\ Lists(calls, s, PositionsOf("tool_call"), Len(s))
  BY <1>2, SelectionLists
<1>4. BridgeCalls = [n \in DOMAIN calls |-> [BridgeCall(calls[n]) EXCEPT !.sequence = n]]
  BY DEF BridgeCalls, s
<1>. HIDE DEF calls
<1>5. Len(calls) \in Nat /\ DOMAIN calls = 1..Len(calls)
  BY <1>3, LenProperties
<1>6. DOMAIN BridgeCalls = 1..Len(calls) /\ Len(BridgeCalls) = Len(calls)
  BY <1>4, <1>5
<1>7. PICK where \in [1..Len(calls) -> 1..Len(s)] :
         /\ \A k \in 1..Len(calls) : where[k] \in PositionsOf("tool_call") /\ calls[k] = s[where[k]]
         /\ \A j, k \in 1..Len(calls) : j < k => where[j] < where[k]
         /\ \A i \in 1..Len(s) : i \in PositionsOf("tool_call") => \E k \in 1..Len(calls) : where[k] = i
  BY <1>3 DEF Lists
<1>8. \A k \in 1..Len(calls) : calls[k] = where[k]
  BY <1>2, <1>7
<1>9. ASSUME NEW k \in 1..Len(calls)
      PROVE  /\ BridgeCalls[k].tool = stream[where[k]].tool
             /\ BridgeCalls[k].physical = stream[where[k]].physical
             /\ BridgeCalls[k].kind # "effect_probe"
             /\ BridgeCalls[k].response = IF ResultsFor(where[k]) = {} THEN "undefined"
                                          ELSE stream[Earliest(ResultsFor(where[k]))].status
  <2>. DEFINE b == BridgeCall(where[k])
  <2>1. /\ b.tool = stream[where[k]].tool /\ b.physical = stream[where[k]].physical
        /\ b.kind # "effect_probe"
        /\ b.response = IF ResultsFor(where[k]) = {} THEN "undefined"
                        ELSE stream[Earliest(ResultsFor(where[k]))].status
        /\ DOMAIN b = {"id", "sequence", "kind", "tool", "step", "args", "physical", "response"}
    BY DEF BridgeCall
  <2>2. BridgeCalls[k] = [b EXCEPT !.sequence = k]
    BY <1>4, <1>5, <1>8
  <2>. HIDE DEF b
  <2>. QED BY <2>1, <2>2
<1>10. CallsStandAt(where, BridgeCalls)
  BY <1>1, <1>2, <1>6, <1>7, <1>9 DEF CallsStandAt, PositionsOf
<1>11. \A i \in PositionsOf("tool_call") : \E k \in 1..Len(BridgeCalls) : where[k] = i
  BY <1>1, <1>2, <1>6, <1>7 DEF PositionsOf
<1>12. \E S : BridgeCalls \in Seq(S)
  <2>1. BridgeCalls \in [1..Len(calls) -> {BridgeCalls[n] : n \in 1..Len(calls)}]
    BY <1>4, <1>5
  <2>2. BridgeCalls \in Seq({BridgeCalls[n] : n \in 1..Len(calls)})
    BY <1>5, <2>1, SeqDef
  <2>. QED BY <2>2
<1>. QED BY <1>10, <1>11, <1>12

\* The physical calls of a tool, in the order of the stream.
LEMMA PhysicalCallsListed ==
    ASSUME stream \in Seq(Records), NEW tool
    PROVE  LET calls == PhysicalCalls(BridgeCalls, tool) IN
           /\ Len(calls) \in Nat /\ DOMAIN calls = 1..Len(calls)
           /\ \E where : /\ CallsStandAt(where, calls)
                         /\ \A k \in 1..Len(calls) : stream[where[k]].physical
                         /\ \A i \in PositionsOf("tool_call") :
                               stream[i].physical /\ stream[i].tool = tool =>
                                   \E k \in 1..Len(calls) : where[k] = i
<1>. DEFINE all == BridgeCalls
            chosenOnes == {i \in DOMAIN all :
                        all[i].tool = tool /\ all[i].physical /\ all[i].kind # "effect_probe"}
            calls == Selection(all, chosenOnes)
<1>1. PICK S : all \in Seq(S)
  BY BridgeCallsListed
<1>2. PICK at : /\ CallsStandAt(at, all)
                /\ \A i \in PositionsOf("tool_call") : \E k \in 1..Len(all) : at[k] = i
  BY BridgeCallsListed
<1>. HIDE DEF all
<1>3. calls \in Seq(S) /\ Lists(calls, all, chosenOnes, Len(all))
  BY <1>1, SelectionLists
<1>4. Len(all) \in Nat /\ DOMAIN all = 1..Len(all)
  BY <1>1, LenProperties
<1>. HIDE DEF calls
<1>5. Len(calls) \in Nat /\ DOMAIN calls = 1..Len(calls)
  BY <1>3, LenProperties
<1>6. PICK pick \in [1..Len(calls) -> 1..Len(all)] :
         /\ \A k \in 1..Len(calls) : pick[k] \in chosenOnes /\ calls[k] = all[pick[k]]
         /\ \A j, k \in 1..Len(calls) : j < k => pick[j] < pick[k]
         /\ \A i \in 1..Len(all) : i \in chosenOnes => \E k \in 1..Len(calls) : pick[k] = i
  BY <1>3 DEF Lists
<1>. DEFINE where == [k \in 1..Len(calls) |-> at[pick[k]]]
<1>12. /\ at \in [1..Len(all) -> DOMAIN stream]
       /\ \A j, k \in 1..Len(all) : j < k => at[j] < at[k]
  BY <1>2 DEF CallsStandAt
<1>13. \A n \in 1..Len(all) :
         /\ stream[at[n]].type = "tool_call"
         /\ all[n].tool = stream[at[n]].tool
         /\ all[n].physical = stream[at[n]].physical
         /\ all[n].kind # "effect_probe"
         /\ all[n].response = IF ResultsFor(at[n]) = {} THEN "undefined"
                              ELSE stream[Earliest(ResultsFor(at[n]))].status
  BY <1>2 DEF CallsStandAt
<1>14. /\ where \in [1..Len(calls) -> DOMAIN stream]
       /\ \A k \in 1..Len(calls) : where[k] = at[pick[k]]
  BY <1>6, <1>12
<1>15. \A j, k \in 1..Len(calls) : j < k => where[j] < where[k]
  BY <1>6, <1>12
<1>. HIDE DEF where
<1>16. ASSUME NEW k \in 1..Len(calls)
       PROVE  /\ stream[where[k]].type = "tool_call"
              /\ calls[k].tool = stream[where[k]].tool
              /\ calls[k].physical = stream[where[k]].physical
              /\ calls[k].kind # "effect_probe"
              /\ calls[k].response = IF ResultsFor(where[k]) = {} THEN "undefined"
                                     ELSE stream[Earliest(ResultsFor(where[k]))].status
  <2>1. pick[k] \in 1..Len(all) /\ calls[k] = all[pick[k]] /\ where[k] = at[pick[k]]
    BY <1>6, <1>14
  <2>. QED BY <1>13, <2>1
<1>7. CallsStandAt(where, calls)
  BY <1>14, <1>15, <1>16 DEF CallsStandAt
<1>8. \A k \in 1..Len(calls) : stream[where[k]].physical
  <2>1. \A k \in 1..Len(calls) : all[pick[k]].physical
    BY <1>6
  <2>. QED BY <1>6, <1>13, <1>14, <2>1, ZenonT(60)
<1>9. ASSUME NEW i \in PositionsOf("tool_call"), stream[i].physical, stream[i].tool = tool
      PROVE  \E k \in 1..Len(calls) : where[k] = i
  <2>1. PICK n \in 1..Len(all) : at[n] = i
    BY <1>2
  <2>2. n \in chosenOnes
    BY <1>2, <1>4, <1>9, <2>1 DEF CallsStandAt
  <2>. QED BY <1>6, <1>14, <2>1, <2>2
<1>. HIDE DEF chosenOnes
<1>10. PhysicalCalls(BridgeCalls, tool) = calls
  BY DEF PhysicalCalls, calls, all, chosenOnes
<1>. QED BY <1>5, <1>7, <1>8, <1>9, <1>10

\* A lost call that another one follows fails the contract, and nothing else does within
\* its attempts.
LEMMA LossVerdicts ==
    ASSUME NEW c \in Pack.contracts, c.recovery.uncertain = "do_not_retry", NEW events,
           Len(PhysicalCalls(events, c.tool)) \in Nat
    PROVE  /\ RetriedAfterLoss(PhysicalCalls(events, c.tool)) => RecoveryVerdict(c, events) # "passed"
           /\ /\ RecoveryVerdict(c, events) = "duplicate_transition"
              /\ Len(PhysicalCalls(events, c.tool)) <= c.recovery.maxAttempts
              => RetriedAfterLoss(PhysicalCalls(events, c.tool))
<1>. DEFINE calls == PhysicalCalls(events, c.tool)
            tooMany == c.recovery.maxAttempts # Undefined /\ Len(calls) > c.recovery.maxAttempts
<1>1. c.recovery.maxAttempts \in Nat \cup {Undefined}
  BY PackAssumption
<1>. HIDE DEF calls
<1>2. RecoveryVerdict(c, events) = IF tooMany \/ RetriedAfterLoss(calls) THEN "duplicate_transition"
                                   ELSE "passed"
  BY DEF RecoveryVerdict, calls
<1>3. Len(calls) <= c.recovery.maxAttempts => ~tooMany
  BY <1>1 DEF calls, Undefined
<1>. QED BY <1>2, <1>3 DEF calls

\* The losses that the adapter reported count, in whatever order its records came
\* (callEvents, evaluateRecovery).
THEOREM LossesAreReported == BridgeSpec => []LossesAsReported
<1>1. ASSUME BridgeInv PROVE LossesAsReported
  <2>. SUFFICES ASSUME NEW v \in BridgeVerdicts, v.part = "recovery",
                       v.of.recovery.uncertain = "do_not_retry"
                PROVE  ReportedLossIsSeen(v) /\ ReportedLossIsReal(v)
    BY DEF LossesAsReported
  <2>. DEFINE calls == PhysicalCalls(BridgeCalls, v.of.tool)
  <2>1. v.of \in Pack.contracts /\ v.verdict = RecoveryVerdict(v.of, BridgeCalls)
    BY RecoveryVerdicts DEF BridgeVerdicts
  <2>2. stream \in Seq(Records) /\ DOMAIN stream \subseteq Nat
    BY <1>1, LenProperties DEF BridgeInv, BridgeTypeOK
  <2>3. PICK where :
           /\ CallsStandAt(where, calls)
           /\ \A k \in 1..Len(calls) : stream[where[k]].physical
           /\ \A i \in PositionsOf("tool_call") :
                 stream[i].physical /\ stream[i].tool = v.of.tool => \E k \in 1..Len(calls) : where[k] = i
    BY <2>2, PhysicalCallsListed
  <2>4. Len(calls) \in Nat /\ DOMAIN calls = 1..Len(calls)
    BY <2>2, PhysicalCallsListed
  <2>5. /\ RetriedAfterLoss(calls) => v.verdict # "passed"
        /\ v.verdict = "duplicate_transition" /\ Len(calls) <= v.of.recovery.maxAttempts
           => RetriedAfterLoss(calls)
    BY <2>1, <2>4, LossVerdicts
  <2>. HIDE DEF calls
  <2>6. ASSUME NEW i \in PositionsOf("tool_call"), NEW j \in PositionsOf("tool_call"),
               NEW q \in PositionsOf("tool_result"),
               i < j, stream[i].physical, stream[j].physical,
               stream[i].tool = v.of.tool, stream[j].tool = v.of.tool,
               stream[q].operation = stream[i].operation, stream[q].status = "lost",
               \A p \in PositionsOf("tool_result") : stream[p].operation = stream[q].operation => p = q
        PROVE  RetriedAfterLoss(calls)
    <3>1. PICK k \in 1..Len(calls) : where[k] = i
      BY <2>3, <2>6
    <3>2. PICK l \in 1..Len(calls) : where[l] = j
      BY <2>3, <2>6
    <3>3. k < l
      <4>1. i \in Nat /\ j \in Nat
        BY <2>2 DEF PositionsOf
      <4>2. ~(l < k) /\ k # l
        BY <2>3, <2>6, <3>1, <3>2, <4>1 DEF CallsStandAt
      <4>. QED BY <2>4, <4>2
    <3>4. ResultsFor(i) = {q}
      BY <2>6 DEF ResultsFor
    <3>5. Earliest(ResultsFor(i)) = q
      <4>1. q \in Nat
        BY <2>2 DEF PositionsOf
      <4>. QED BY <3>4, <4>1, EarliestIsFirst
    <3>6. calls[k].response = "lost"
      BY <2>3, <2>6, <3>1, <3>4, <3>5 DEF CallsStandAt
    <3>. QED BY <2>4, <3>3, <3>6 DEF RetriedAfterLoss
  <2>7. ReportedLossIsSeen(v)
    BY <2>5, <2>6 DEF ReportedLossIsSeen
  <2>8. ASSUME RetriedAfterLoss(calls)
        PROVE  \E i, j \in PositionsOf("tool_call"), q \in PositionsOf("tool_result") :
                  /\ i < j /\ stream[i].physical /\ stream[j].physical
                  /\ stream[q].status = "lost" /\ stream[q].operation = stream[i].operation
    <3>1. PICK k \in 1..Len(calls), l \in 1..Len(calls) : calls[k].response = "lost" /\ k < l
      BY <2>4, <2>8 DEF RetriedAfterLoss
    <3>2. /\ where[k] \in PositionsOf("tool_call") /\ where[l] \in PositionsOf("tool_call")
          /\ where[k] < where[l] /\ stream[where[k]].physical /\ stream[where[l]].physical
      BY <2>3, <3>1 DEF CallsStandAt, PositionsOf
    <3>3. /\ ResultsFor(where[k]) # {}
          /\ stream[Earliest(ResultsFor(where[k]))].status = "lost"
      BY <2>3, <3>1 DEF CallsStandAt
    <3>4. Earliest(ResultsFor(where[k])) \in ResultsFor(where[k])
      <4>1. ResultsFor(where[k]) \subseteq Nat
        BY <2>2 DEF ResultsFor, PositionsOf
      <4>. QED BY <3>3, <4>1, EarliestIsFirst
    <3>5. /\ Earliest(ResultsFor(where[k])) \in PositionsOf("tool_result")
          /\ stream[Earliest(ResultsFor(where[k]))].operation = stream[where[k]].operation
      BY <3>4 DEF ResultsFor
    <3>. QED BY <3>2, <3>3, <3>5
  <2>9. ReportedLossIsReal(v)
    BY <2>5, <2>8 DEF ReportedLossIsReal, calls
  <2>. QED BY <2>7, <2>9
<1>. QED BY <1>1, BridgeInvariant, PTL

-------------------------------------------------------------------------------
(* What the observations of a proxied session show.                        *)

\* Which snapshots failed is not kept, but every set of effects is one of the external
\* state as it was at some moment: the one before the session and the one after it.
ObservedInv ==
    /\ stage # "before" => \E failing : before = ObserveState(failing, initial)
    /\ stage = "evaluated" => \E failing : after = ObserveState(failing, Stored(committed))

LEMMA ObservedStep ==
    ASSUME ObservedInv, [EvaluationNext]_allVars
    PROVE  ObservedInv'
<1>1. ASSUME NEW failing, optIn' = optIn, initial' = initial
      PROVE  ObserveState(failing, initial)' = ObserveState(failing, initial)
  BY <1>1 DEF ObserveState, Reached, Stops, Allowed, Sampling
<1>6. ASSUME NEW failing, optIn' = optIn, initial' = initial
      PROVE  ObserveState(failing, Stored(committed))' = ObserveState(failing, Stored(committed'))
  <2>1. Stored(committed)' = Stored(committed')
    BY <1>6 DEF Stored
  <2>. QED BY <1>6, <2>1 DEF ObserveState, Reached, Stops, Allowed, Sampling
<1>2. CASE ObserveBefore
  <2>1. /\ stage = "before" /\ stage' \in {"skipped", "session"}
        /\ optIn' = optIn /\ initial' = initial
        /\ \E failing : before' = ObserveState(failing, initial)
    BY <1>2 DEF ObserveBefore
  <2>2. PICK failing : before' = ObserveState(failing, initial)
    BY <2>1
  <2>3. before' = ObserveState(failing, initial)'
    BY <1>1, <2>1, <2>2
  <2>4. (\E f : before = ObserveState(f, initial))'
    BY <2>3
  <2>. QED BY <2>1, <2>4 DEF ObservedInv
<1>3. CASE ObserveAfter
  <2>1. /\ stage # "before" /\ stage' = "evaluated"
        /\ optIn' = optIn /\ initial' = initial /\ before' = before
        /\ \E failing : after' = ObserveState(failing, Stored(committed'))
    BY <1>3 DEF ObserveAfter
  <2>2. PICK failing : before = ObserveState(failing, initial)
    BY <2>1 DEF ObservedInv
  <2>3. before' = ObserveState(failing, initial)'
    BY <1>1, <2>1, <2>2
  <2>4. PICK failing2 : after' = ObserveState(failing2, Stored(committed'))
    BY <2>1
  <2>5. after' = ObserveState(failing2, Stored(committed))'
    BY <1>6, <2>1, <2>4
  <2>6. (\E f : before = ObserveState(f, initial))'
    BY <2>3
  <2>7. (\E f : after = ObserveState(f, Stored(committed)))'
    BY <2>5
  <2>. QED BY <2>1, <2>6, <2>7 DEF ObservedInv
<1>4. CASE UNCHANGED evaluationVars
  <2>1. /\ optIn' = optIn /\ initial' = initial /\ stage' = stage
        /\ committed' = committed /\ before' = before /\ after' = after
    BY <1>4 DEF evaluationVars
  <2>2. ASSUME stage # "before" PROVE (\E f : before = ObserveState(f, initial))'
    <3>1. PICK failing : before = ObserveState(failing, initial)
      BY <2>2 DEF ObservedInv
    <3>2. before' = ObserveState(failing, initial)'
      BY <1>1, <2>1, <3>1
    <3>. QED BY <3>2
  <2>3. ASSUME stage = "evaluated" PROVE (\E f : after = ObserveState(f, Stored(committed)))'
    <3>1. PICK failing : after = ObserveState(failing, Stored(committed))
      BY <2>3 DEF ObservedInv
    <3>2. Stored(committed') = Stored(committed)
      BY <2>1 DEF Stored
    <3>3. after' = ObserveState(failing, Stored(committed))'
      BY <1>6, <2>1, <3>1, <3>2
    <3>. QED BY <3>3
  <2>. QED BY <2>1, <2>2, <2>3 DEF ObservedInv
<1>5. UNCHANGED allVars => UNCHANGED evaluationVars
  BY DEF allVars, evaluationVars
<1>. QED BY <1>2, <1>3, <1>4, <1>5 DEF EvaluationNext, SessionStep, Evaluated

LEMMA Observed == EvaluationSpec => []ObservedInv
<1>1. EvaluationInit => ObservedInv
  BY DEF EvaluationInit, ObservedInv
<1>. QED BY <1>1, ObservedStep, PTL DEF EvaluationSpec

\* An observation without an error has reached every probe, and no snapshot of it was
\* refused or failed (observeExternalState).
LEMMA ObservationReachesAll ==
    ASSUME NEW failing, NEW stored, ~ObserveState(failing, stored).error
    PROVE  /\ \A i \in DOMAIN Probes : ~Stops(i, failing)
           /\ Reached(failing) = DOMAIN Probes
<1>. DEFINE stopping == {i \in DOMAIN Probes : Stops(i, failing)}
<1>1. ~ \E i \in Reached(failing) : Stops(i, failing)
  BY DEF ObserveState
<1>2. stopping = {}
  <2>1. SUFFICES ASSUME stopping # {} PROVE FALSE
    OBVIOUS
  <2>2. stopping \subseteq Nat
    BY EvaluationAssumption
  <2>. HIDE DEF stopping
  <2>3. PICK i \in stopping : \A j \in stopping : i <= j
    BY <2>1, <2>2, LeastElement
  <2>4. i \in Nat /\ i \in DOMAIN Probes /\ Stops(i, failing)
    BY <2>2 DEF stopping
  <2>5. \A j \in 1..(i - 1) : ~Stops(j, failing)
    <3>1. ASSUME NEW j \in 1..(i - 1), Stops(j, failing) PROVE FALSE
      <4>1. j \in DOMAIN Probes /\ ~(i <= j)
        BY <2>4, EvaluationAssumption
      <4>. QED BY <2>3, <3>1, <4>1 DEF stopping
    <3>. QED BY <3>1
  <2>. QED BY <1>1, <2>4, <2>5 DEF Reached
<1>3. \A i \in DOMAIN Probes : ~Stops(i, failing)
  BY <1>2
<1>4. \A i \in DOMAIN Probes : \A j \in 1..(i - 1) : j \in DOMAIN Probes
  BY EvaluationAssumption
<1>. QED BY <1>3, <1>4 DEF Reached

\* Such an observation has the state behind each sampled probe and an error for each
\* other one.
LEMMA ObservationIsState ==
    ASSUME NEW failing, NEW stored, ~ObserveState(failing, stored).error
    PROVE  /\ \A e \in ObserveState(failing, stored).effects : \E i \in DOMAIN Probes : e.id = Probes[i].id
           /\ \A i \in DOMAIN Probes :
                 /\ Sampling(i) => Allowed(i)
                 /\ ValueIn(ObserveState(failing, stored), Probes[i].id)
                       = IF Sampling(i) THEN stored ELSE Missing
                 /\ ErrorIn(ObserveState(failing, stored), Probes[i].id) <=> ~Sampling(i)
                 /\ \E e \in ObserveState(failing, stored).effects : e.id = Probes[i].id
<1>. DEFINE effects == ObserveState(failing, stored).effects
<1>1. /\ \A i \in DOMAIN Probes : ~Stops(i, failing)
      /\ Reached(failing) = DOMAIN Probes
  BY ObservationReachesAll
<1>2. effects = { [ id |-> Probes[i].id,
                    value |-> IF Sampling(i) /\ ~Stops(i, failing) THEN stored ELSE Missing,
                    error |-> ~Sampling(i) \/ Stops(i, failing) ] : i \in Reached(failing) }
  BY DEF ObserveState
<1>. HIDE DEF effects
<1>3. /\ \A e \in effects : \E i \in DOMAIN Probes :
            /\ e.id = Probes[i].id
            /\ e.value = IF Sampling(i) THEN stored ELSE Missing
            /\ e.error <=> ~Sampling(i)
      /\ \A i \in DOMAIN Probes : \E e \in effects : e.id = Probes[i].id
  <2>. DEFINE shown(i) == [ id |-> Probes[i].id,
                            value |-> IF Sampling(i) /\ ~Stops(i, failing) THEN stored ELSE Missing,
                            error |-> ~Sampling(i) \/ Stops(i, failing) ]
  <2>1. effects = {shown(i) : i \in DOMAIN Probes}
    BY <1>1, <1>2
  <2>2. ASSUME NEW i \in DOMAIN Probes
        PROVE  /\ shown(i).id = Probes[i].id
               /\ shown(i).value = IF Sampling(i) THEN stored ELSE Missing
               /\ shown(i).error <=> ~Sampling(i)
    BY <1>1
  <2>. HIDE DEF shown
  <2>. QED BY <2>1, <2>2
<1>4. ASSUME NEW i \in DOMAIN Probes
      PROVE  /\ Known(effects, Probes[i].id)
             /\ EffectOf(effects, Probes[i].id).value = IF Sampling(i) THEN stored ELSE Missing
             /\ EffectOf(effects, Probes[i].id).error <=> ~Sampling(i)
  <2>1. Known(effects, Probes[i].id)
    BY <1>3 DEF Known
  <2>2. /\ EffectOf(effects, Probes[i].id) \in effects
        /\ EffectOf(effects, Probes[i].id).id = Probes[i].id
    BY <2>1, Zenon DEF Known, EffectOf
  <2>3. \A j \in DOMAIN Probes : Probes[j].id = Probes[i].id => j = i
    BY EvaluationAssumption
  <2>. QED BY <1>3, <2>1, <2>2, <2>3
<1>5. \A i \in DOMAIN Probes : Sampling(i) => Allowed(i)
  BY <1>1 DEF Stops
<1>. QED BY <1>3, <1>4, <1>5 DEF effects, ValueIn, ErrorIn

Merged(e) ==
    [ id |-> e.id, before |-> ValueIn(before, e.id), after |-> ValueIn(after, e.id),
      error |-> ErrorIn(before, e.id) \/ ErrorIn(after, e.id) ]

\* The merged effects of a session that is judged show both moments of each sampled
\* probe, and an error for each other one (mergeObservations).
LEMMA MergedIsTrue ==
    ASSUME ObservedInv, stage = "evaluated", ~ExecutionError, NEW id, Known(MergedEffects, id)
    PROVE  \E i \in DOMAIN Probes :
              /\ Probes[i].id = id
              /\ Sampling(i) =>
                    /\ Allowed(i)
                    /\ EffectOf(MergedEffects, id).before = initial
                    /\ EffectOf(MergedEffects, id).after = Final
              /\ EffectOf(MergedEffects, id).error <=> ~Sampling(i)
<1>1. PICK f : before = ObserveState(f, initial)
  BY DEF ObservedInv
<1>2. PICK g : after = ObserveState(g, Final)
  BY DEF ObservedInv, Final
<1>3. ~before.error /\ ~after.error
  BY DEF ExecutionError
<1>4. /\ \A e \in before.effects \cup after.effects : \E i \in DOMAIN Probes : e.id = Probes[i].id
      /\ \A i \in DOMAIN Probes :
            /\ Sampling(i) => Allowed(i)
            /\ ValueIn(before, Probes[i].id) = IF Sampling(i) THEN initial ELSE Missing
            /\ ValueIn(after, Probes[i].id) = IF Sampling(i) THEN Final ELSE Missing
            /\ ErrorIn(before, Probes[i].id) <=> ~Sampling(i)
            /\ ErrorIn(after, Probes[i].id) <=> ~Sampling(i)
  <2>1. /\ \A e \in before.effects : \E i \in DOMAIN Probes : e.id = Probes[i].id
        /\ \A i \in DOMAIN Probes :
              /\ Sampling(i) => Allowed(i)
              /\ ValueIn(before, Probes[i].id) = IF Sampling(i) THEN initial ELSE Missing
              /\ ErrorIn(before, Probes[i].id) <=> ~Sampling(i)
    BY <1>1, <1>3, ObservationIsState
  <2>2. /\ \A e \in after.effects : \E i \in DOMAIN Probes : e.id = Probes[i].id
        /\ \A i \in DOMAIN Probes :
              /\ ValueIn(after, Probes[i].id) = IF Sampling(i) THEN Final ELSE Missing
              /\ ErrorIn(after, Probes[i].id) <=> ~Sampling(i)
    BY <1>2, <1>3, ObservationIsState
  <2>. QED BY <2>1, <2>2
<1>5. \A m \in MergedEffects : \E i \in DOMAIN Probes :
         /\ m.id = Probes[i].id
         /\ m.before = ValueIn(before, Probes[i].id) /\ m.after = ValueIn(after, Probes[i].id)
         /\ m.error <=> ErrorIn(before, Probes[i].id) \/ ErrorIn(after, Probes[i].id)
  <2>1. MergedEffects = {Merged(e) : e \in before.effects \cup after.effects}
    BY DEF MergedEffects, Merged
  <2>2. ASSUME NEW x
        PROVE  /\ Merged(x).id = x.id
               /\ Merged(x).before = ValueIn(before, x.id) /\ Merged(x).after = ValueIn(after, x.id)
               /\ Merged(x).error <=> ErrorIn(before, x.id) \/ ErrorIn(after, x.id)
    BY DEF Merged
  <2>3. ASSUME NEW x \in before.effects \cup after.effects
        PROVE  \E i \in DOMAIN Probes :
                  /\ Merged(x).id = Probes[i].id
                  /\ Merged(x).before = ValueIn(before, Probes[i].id)
                  /\ Merged(x).after = ValueIn(after, Probes[i].id)
                  /\ Merged(x).error <=> ErrorIn(before, Probes[i].id) \/ ErrorIn(after, Probes[i].id)
    <3>1. PICK i \in DOMAIN Probes : x.id = Probes[i].id
      BY <1>4
    <3>. QED BY <2>2, <3>1
  <2>. QED BY <2>1, <2>3
<1>6. EffectOf(MergedEffects, id) \in MergedEffects /\ EffectOf(MergedEffects, id).id = id
  BY Zenon DEF Known, EffectOf
<1>. QED BY <1>4, <1>5, <1>6

\* A sampled effect is known.
LEMMA SampledIsKnown ==
    ASSUME ObservedInv, stage = "evaluated", ~ExecutionError, NEW id, Witnessed(id)
    PROVE  /\ Known(MergedEffects, id)
           /\ EffectOf(MergedEffects, id).before = initial
           /\ EffectOf(MergedEffects, id).after = Final
<1>1. PICK i \in DOMAIN Probes : Probes[i].id = id /\ Sampling(i)
  BY DEF Witnessed
<1>2. Known(MergedEffects, id)
  <2>1. PICK f : before = ObserveState(f, initial)
    BY DEF ObservedInv
  <2>2. ~before.error
    BY DEF ExecutionError
  <2>3. \E e \in before.effects : e.id = id
    BY <1>1, <2>1, <2>2, ObservationIsState
  <2>4. PICK e \in before.effects : e.id = id
    BY <2>3
  <2>5. Merged(e) \in MergedEffects /\ Merged(e).id = id
    BY <2>4 DEF Merged, MergedEffects
  <2>. QED BY <2>5 DEF Known
<1>3. PICK j \in DOMAIN Probes :
         /\ Probes[j].id = id
         /\ Sampling(j) =>
               /\ EffectOf(MergedEffects, id).before = initial
               /\ EffectOf(MergedEffects, id).after = Final
  BY <1>2, MergedIsTrue
<1>4. i = j
  BY <1>1, <1>3, EvaluationAssumption
<1>. QED BY <1>1, <1>2, <1>3, <1>4

\* Usable evidence is a sample.
LEMMA UsableIsSampled ==
    ASSUME ObservedInv, stage = "evaluated", ~ExecutionError, NEW id,
           Evidence(MergedEffects, id) = "usable"
    PROVE  /\ Witnessed(id)
           /\ EffectOf(MergedEffects, id).before = initial
           /\ EffectOf(MergedEffects, id).after = Final
<1>1. Known(MergedEffects, id) /\ ~EffectOf(MergedEffects, id).error
  BY DEF Evidence
<1>2. PICK i \in DOMAIN Probes :
         /\ Probes[i].id = id
         /\ Sampling(i) =>
               /\ Allowed(i)
               /\ EffectOf(MergedEffects, id).before = initial
               /\ EffectOf(MergedEffects, id).after = Final
         /\ EffectOf(MergedEffects, id).error <=> ~Sampling(i)
  BY <1>1, MergedIsTrue
<1>. QED BY <1>1, <1>2 DEF Witnessed

\* No verdict about an effect passes unless the effect was sampled and is as the pack
\* requires, whatever the probes, the pack and the session (evaluateProxyCapture,
\* mergeObservations, evaluateStateContract).
THEOREM PassesHold == EvaluationSpec => []PassesAreTrue
<1>1. ASSUME ObservedInv PROVE PassesAreTrue
  <2>. SUFFICES ASSUME stage = "evaluated", NEW v \in Verdicts, v.verdict = "passed"
                PROVE  /\ v.part = "assertion"
                          /\ v.of.type \in {"effect_equals", "effect_not_equals", "no_extra_transition"}
                          => Witnessed(v.of.effect) /\ AssertionIsTrue(v.of)
                       /\ v.part = "precondition" =>
                             Witnessed(v.of.effect) /\ initial # Missing /\ ExpectationIsTrue(v.of, initial)
                       /\ v.part = "intended" =>
                             Witnessed(v.of.effect) /\ ExpectationIsTrue(v.of, Final)
                       /\ v.part = "forbidden" => Witnessed(v.of.effect) /\ NothingForbidden(v.of)
                       /\ v.part \in {"state", "state_forbidden"} /\ Witnessed(v.of.effect) =>
                             StateEntryIsTrue(v.of, v.part = "state_forbidden")
    BY DEF PassesAreTrue
  <2>. DEFINE events == CallEvents
              effects == MergedEffects
              id == v.of.effect
              e == EffectOf(effects, id)
  <2>1. ~ExecutionError /\ v \in PackVerdicts(events, effects)
    BY DEF Verdicts
  <2>2. Evidence(effects, id) = "usable" => Witnessed(id) /\ e.before = initial /\ e.after = Final
    BY <1>1, <2>1, UsableIsSampled
  <2>3. Witnessed(id) => Known(effects, id) /\ e.before = initial /\ e.after = Final
    BY <1>1, <2>1, SampledIsKnown
  <2>4. \/ v.part = "assertion" /\ v.verdict = Verdict(v.of, events, effects, <<>>, <<>>)
        \/ v.part = "state" /\ v.verdict = StateEntry(v.of, FALSE, effects, events)
        \/ v.part = "state_forbidden" /\ v.verdict = StateEntry(v.of, TRUE, effects, events)
        \/ /\ v.part \in {"precondition", "intended", "forbidden", "cardinality", "ordering",
                          "authorization", "recovery"}
           /\ v.part = "precondition" =>
                 v.verdict = ContractExpectation(v.of, "before", effects, events)
           /\ v.part = "intended" =>
                 v.verdict = ContractExpectation(v.of, "after", effects, events)
           /\ v.part = "forbidden" => v.verdict = ForbiddenExpectation(v.of, effects)
    <3>1. CASE \E c \in Pack.contracts : v \in ContractVerdicts(c, events, effects)
      <4>1. PICK c \in Pack.contracts : v \in ContractVerdicts(c, events, effects)
        BY <3>1
      <4>. HIDE DEF events, effects
      <4>. QED BY <4>1, ContractParts, ZenonT(60)
    <3>. HIDE DEF events, effects
    <3>. QED BY <2>1, <3>1, VerdictParts, Zenon
  <2>. HIDE DEF events, effects
  <2>5. Evidence(effects, id) \in {"missing_effect", "probe_error", "usable"}
    BY DEF Evidence
  <2>6. \A x, y : TransitionCategory(x, y, events) # "passed"
    BY DEF TransitionCategory
  <2>7. CASE v.part = "assertion"
    <3>1. Verdict(v.of, events, effects, <<>>, <<>>) = "passed"
      BY <2>4, <2>7
    <3>2. CASE v.of.type = "effect_equals"
      <4>1. EffectEquals(v.of, events, effects) = "passed"
        BY <3>1, <3>2 DEF Verdict
      <4>2. Evidence(effects, id) = "usable" /\ e.after = v.of.expected
        BY <2>5, <2>6, <4>1 DEF EffectEquals
      <4>. QED BY <2>2, <2>7, <3>2, <4>2 DEF AssertionIsTrue
    <3>3. CASE v.of.type = "effect_not_equals"
      <4>1. EffectNotEquals(v.of, effects) = "passed"
        BY <3>1, <3>3 DEF Verdict
      <4>2. Evidence(effects, id) = "usable" /\ e.after # v.of.expected
        BY <2>5, <4>1 DEF EffectNotEquals
      <4>. QED BY <2>2, <2>7, <3>3, <4>2 DEF AssertionIsTrue
    <3>4. CASE v.of.type = "no_extra_transition"
      <4>1. NoExtraTransition(v.of, events, effects) = "passed"
        BY <3>1, <3>4 DEF Verdict
      <4>2. /\ Evidence(effects, id) = "usable"
            /\ ~ IF v.of.change # "none" THEN ViolatesChange(e.before, e.after, v.of.change)
                 ELSE IF v.of.expected # Missing THEN e.after # v.of.expected
                 ELSE e.before # e.after
        BY <2>5, <2>6, <4>1 DEF NoExtraTransition
      <4>. QED BY <2>2, <2>7, <3>4, <4>2 DEF AssertionIsTrue
    <3>. QED BY <2>7, <3>2, <3>3, <3>4
  <2>8. CASE v.part = "precondition"
    <3>1. ContractExpectation(v.of, "before", effects, events) = "passed"
      BY <2>4, <2>8
    <3>2. /\ Evidence(effects, id) = "usable" /\ e.before # Missing
          /\ v.of.change = "none" /\ e.before = v.of.expected
      BY <2>5, <2>6, <3>1 DEF ContractExpectation
    <3>. QED BY <2>2, <2>8, <3>2 DEF ExpectationIsTrue
  <2>9. CASE v.part = "intended"
    <3>1. ContractExpectation(v.of, "after", effects, events) = "passed"
      BY <2>4, <2>9
    <3>2. /\ Evidence(effects, id) = "usable"
          /\ v.of.change # "none" => ~ViolatesChange(e.before, e.after, v.of.change)
          /\ v.of.change = "none" => e.after = v.of.expected
      BY <2>5, <2>6, <3>1 DEF ContractExpectation
    <3>. QED BY <2>2, <2>9, <3>2 DEF ExpectationIsTrue
  <2>10. CASE v.part = "forbidden"
    <3>1. ForbiddenExpectation(v.of, effects) = "passed"
      BY <2>4, <2>10
    <3>2. /\ Evidence(effects, id) = "usable"
          /\ ~ IF v.of.change # "none" THEN ViolatesChange(e.before, e.after, v.of.change)
               ELSE IF v.of.expected # Missing THEN e.after = v.of.expected
               ELSE e.before = Missing \/ e.before # e.after
      BY <2>5, <3>1 DEF ForbiddenExpectation
    <3>. QED BY <2>2, <2>10, <3>2 DEF NothingForbidden
  <2>11. CASE v.part = "state" /\ Witnessed(id)
    <3>1. StateEntry(v.of, FALSE, effects, events) = "passed"
      BY <2>4, <2>11
    <3>2. StateEntryHolds(v.of, e, FALSE)
      BY <2>3, <2>6, <2>11, <3>1 DEF StateEntry, StateEntryCategory
    <3>3. StateEntryIsTrue(v.of, FALSE)
      BY <2>3, <2>11, <3>2 DEF StateEntryHolds, StateEntryIsTrue, IsNumber, Missing
    <3>4. (v.part = "state_forbidden") = FALSE
      BY <2>11
    <3>. QED BY <2>11, <3>3, <3>4
  <2>12. CASE v.part = "state_forbidden" /\ Witnessed(id)
    <3>1. StateEntry(v.of, TRUE, effects, events) = "passed"
      BY <2>4, <2>12
    <3>2. StateEntryHolds(v.of, e, TRUE)
      BY <2>3, <2>6, <2>12, <3>1 DEF StateEntry, StateEntryCategory
    <3>3. StateEntryIsTrue(v.of, TRUE)
      BY <2>3, <2>12, <3>2 DEF StateEntryHolds, StateEntryIsTrue
    <3>4. (v.part = "state_forbidden") = TRUE
      BY <2>12
    <3>. QED BY <2>12, <3>3, <3>4
  <2>. QED BY <2>7, <2>8, <2>9, <2>10, <2>11, <2>12
<1>. QED BY <1>1, Observed, PTL

-------------------------------------------------------------------------------
(* The capture of a session that returned, entry by entry.                 *)

USE DEF Call, Duplicate

\* A proxied session is a run of the proxy between two observations.
LEMMA SessionRunsProxy == EvaluationSpec => Spec
<1>1. EvaluationInit => Init
  BY DEF EvaluationInit
<1>2. [EvaluationNext]_allVars => [Next]_vars
  <2>1. UNCHANGED allVars => UNCHANGED vars
    BY DEF allVars
  <2>2. ObserveBefore => UNCHANGED vars
    BY DEF ObserveBefore
  <2>3. SessionStep => Next
    BY DEF SessionStep, Next
  <2>4. ObserveAfter => UNCHANGED vars
    BY DEF ObserveAfter
  <2>5. Evaluated => UNCHANGED allVars
    BY DEF Evaluated
  <2>. QED BY <2>1, <2>2, <2>3, <2>4, <2>5 DEF EvaluationNext
<1>. QED BY <1>1, <1>2, PTL DEF EvaluationSpec, Spec

\* What is known of the proxy when its capture is judged.
CaptureInv ==
    /\ TypeInv /\ TrafficInv /\ SuccessInv /\ RankInv
    /\ EventsFormed /\ SendsInv /\ ToldInv /\ LateInv

LEMMA CaptureInvariance == EvaluationSpec => [](CaptureInv /\ ObservedInv)
<1>1. /\ TypeInv /\ TrafficInv /\ SuccessInv /\ RankInv
      /\ EventsFormed /\ SendsInv /\ ToldInv /\ LateInv
      => CaptureInv
  BY DEF CaptureInv
<1>. QED BY <1>1, SessionRunsProxy, Observed, FramesInvariance, TrafficInvariance, SuccessInvariance,
            RankInvariance, SendsInvariance, ToldInvariance, PTL

LEMMA CaptureEntries ==
    ASSUME CaptureInv, Complete
    PROVE  /\ Capture = log.events /\ Len(Capture) \in Nat /\ DOMAIN Capture = 1..Len(Capture)
           /\ \A p \in DOMAIN Capture :
                 /\ At(p) \in Events /\ At(p) = Entry(log, p)
                 /\ At(p) \in Recorded /\ Formed(At(p)) /\ Marked(At(p))
<1>1. Capture = log.events
  BY DEF Complete, Capture
<1>2. log.events \in Seq([sequence: Nat, event: Events]) /\ Len(log.events) \in Nat
  BY LogFields DEF CaptureInv, TypeInv, TypeOK
<1>3. ASSUME NEW p \in DOMAIN log.events
      PROVE  /\ log.events[p].event \in Events
             /\ log.events[p].event \in Recorded
  <2>1. log.events[p] \in [sequence: Nat, event: Events]
    BY <1>2, LenProperties, ElementOfSeq
  <2>. QED BY <2>1 DEF Recorded
<1>4. \A e \in Recorded : Formed(e) /\ Marked(e)
  BY DEF CaptureInv, EventsFormed
<1>. QED BY <1>1, <1>2, <1>3, <1>4, LenProperties DEF At, Entry

\* The two kinds of captured calls that carry a request of the client: the line of the
\* client, and what was sent to the target.
LEMMA CallPlaces ==
    ASSUME CaptureInv, Complete, NEW p \in DOMAIN Capture, IsCall(p), At(p).id.of \in Requests
    PROVE  /\ ToolIn(At(p)) = ToolOf[At(p).id.of] /\ ToolIn(At(p)) # NoTool
           /\ \/ /\ IsPhysical(p) /\ At(p).direction = "proxy_to_target" /\ At(p).id \in Keys
              \/ /\ ~IsPhysical(p) /\ At(p).direction = "client_to_proxy"
                 /\ At(p).id = Call(At(p).id.of)
<1>. DEFINE e == At(p)
<1>1. e \in Events /\ Formed(e) /\ e.kind = "request"
  BY CaptureEntries DEF IsCall
<1>2. e.direction # "target_to_proxy" /\ ToolIn(e) = ToolOf[e.id.of] /\ ToolIn(e) # NoTool
  BY DEF IsCall, ToolIn
<1>3. e.id.of \notin Notifications
  BY ProxyAssumption
<1>4. \/ e.direction = "client_to_proxy" /\ ~e.physical /\ OfLine(e, Messages)
      \/ e.direction = "proxy_to_target" /\ e.id \in Keys /\ (e.physical <=> ToolOf[e.id.of] # NoTool)
  BY <1>1, <1>2, <1>3 DEF Formed, OfLine
<1>. QED BY <1>2, <1>4 DEF IsPhysical, Side, OfLine

\* FirstAfter is the least of the positions behind p.
LEMMA FirstIsLeast ==
    ASSUME NEW p \in Nat, NEW positions, positions \subseteq Nat, FirstAfter(p, positions) # 0
    PROVE  /\ FirstAfter(p, positions) \in positions /\ FirstAfter(p, positions) > p
           /\ \A q \in positions : q > p => FirstAfter(p, positions) <= q
<1>. DEFINE later == {q \in positions : q > p}
<1>1. later # {} /\ FirstAfter(p, positions) = Min(later)
  BY DEF FirstAfter
<1>2. later \subseteq Nat
  OBVIOUS
<1>. HIDE DEF later
<1>3. PICK n \in later : \A m \in later : n <= m
  BY <1>1, <1>2, LeastElement
<1>4. Min(later) \in later /\ \A m \in later : Min(later) <= m
  <2>1. Min(later) = CHOOSE x \in later : \A y \in later : x <= y
    BY DEF Min
  <2>. QED BY <1>3, <2>1, Zenon
<1>. QED BY <1>1, <1>4 DEF later

\* No other request has its JSON-RPC id.
LEMMA IdsApart ==
    ASSUME NEW k \in Keys, NEW l \in Keys, RpcId(k) = RpcId(l)
    PROVE  k = l
<1>1. /\ k.of \in Requests /\ k.copy \in BOOLEAN /\ k = IF k.copy THEN Duplicate(k.of) ELSE Call(k.of)
      /\ l.of \in Requests /\ l.copy \in BOOLEAN /\ l = IF l.copy THEN Duplicate(l.of) ELSE Call(l.of)
  BY DEF Keys
<1>2. /\ RpcId(k) = IF k.copy THEN k ELSE IdOf[k.of]
      /\ RpcId(l) = IF l.copy THEN l ELSE IdOf[l.of]
  BY <1>1, EvaluationAssumption DEF RpcId
<1>3. /\ \A r, s \in Requests : IdOf[r] = IdOf[s] => r = s
      /\ \A m, r \in Requests : IdOf[m] # Duplicate(r)
  BY EvaluationAssumption
<1>4. k.copy = l.copy
  <2>1. CASE k.copy /\ ~l.copy
    BY <1>1, <1>2, <1>3, <2>1
  <2>2. CASE ~k.copy /\ l.copy
    BY <1>1, <1>2, <1>3, <2>2
  <2>. QED BY <1>1, <2>1, <2>2
<1>5. CASE k.copy
  BY <1>2, <1>4, <1>5
<1>6. CASE ~k.copy
  <2>1. k.of = l.of
    BY <1>1, <1>2, <1>3, <1>4, <1>6
  <2>. QED BY <1>1, <1>4, <1>6, <2>1
<1>. QED BY <1>5, <1>6

\* The response that captureEvents finds for a call, when it finds one.
LEMMA ResponseFound ==
    ASSUME CaptureInv, Complete, NEW p \in DOMAIN Capture, ResponseOf(p) # 0
    PROVE  LET q == ResponseOf(p) IN
           /\ q \in DOMAIN Capture /\ q > p
           /\ At(q).kind = "response" /\ RpcId(At(q).id) # NoRequest
           /\ RpcId(At(q).id) = RpcId(At(p).id)
           /\ Side(At(q)) = IF IsPhysical(p) THEN "target" ELSE "client"
<1>. DEFINE answers == {q \in DOMAIN Capture : /\ At(q).kind = "response"
                                               /\ RpcId(At(q).id) # NoRequest
                                               /\ RpcId(At(q).id) = RpcId(At(p).id)
                                               /\ Side(At(q)) = IF IsPhysical(p) THEN "target" ELSE "client"}
<1>1. ResponseOf(p) = FirstAfter(p, answers)
  BY DEF ResponseOf
<1>2. DOMAIN Capture \subseteq Nat
  BY CaptureEntries
<1>3. answers \subseteq Nat /\ p \in Nat
  BY <1>2
<1>. HIDE DEF answers
<1>4. ResponseOf(p) \in answers /\ ResponseOf(p) > p
  BY <1>1, <1>3, FirstIsLeast
<1>. QED BY <1>4 DEF answers

LEMMA ResponsesBelong ==
    ASSUME CaptureInv, Complete, NEW p \in DOMAIN Capture, IsCall(p), At(p).id.of \in Requests,
           ResponseOf(p) # 0
    PROVE  LET q == ResponseOf(p) IN
           \/ /\ At(q).id = At(p).id
              /\ At(q).direction = IF IsPhysical(p) THEN "target_to_proxy" ELSE "proxy_to_client"
           \/ /\ At(q).direction = "client_to_proxy" /\ At(q).mutation = 0
              /\ ~IsPhysical(p) /\ IdOf[At(q).id.of] = IdOf[At(p).id.of]
<1>. DEFINE q == ResponseOf(p)
            d == At(q)
            e == At(p)
<1>1. /\ q \in DOMAIN Capture
      /\ d.kind = "response" /\ RpcId(d.id) # NoRequest /\ RpcId(d.id) = RpcId(e.id)
      /\ Side(d) = IF IsPhysical(p) THEN "target" ELSE "client"
  BY ResponseFound
<1>. HIDE DEF q
<1>2. \/ d.direction = "target_to_proxy" /\ d.id \in Keys
      \/ d.direction = "proxy_to_client" /\ OfLine(d, Messages)
      \/ d.direction = "client_to_proxy" /\ d.mutation = 0 /\ OfLine(d, ServerRequests)
  BY <1>1, CaptureEntries DEF Formed
<1>3. \/ IsPhysical(p) /\ e.direction = "proxy_to_target" /\ e.id \in Keys
      \/ ~IsPhysical(p) /\ e.direction = "client_to_proxy" /\ e.id = Call(e.id.of)
  BY CallPlaces
<1>. HIDE DEF d, e
<1>6. \A m \in Requests : Call(m) \in Keys
  BY DEF Keys
<1>4. CASE IsPhysical(p)
  <2>1. d.direction = "target_to_proxy" /\ d.id \in Keys /\ e.id \in Keys
    BY <1>1, <1>2, <1>3, <1>4 DEF Side
  <2>. QED BY <1>1, <1>4, <2>1, IdsApart DEF d, e, q
<1>5. CASE ~IsPhysical(p)
  <2>1. e.id = Call(e.id.of) /\ e.id.of \in Requests /\ e.id \in Keys
    <3>1. e.id = Call(e.id.of) /\ e.id.of \in Requests
      BY <1>3, <1>5 DEF e
    <3>. QED BY <1>6, <3>1, Zenon
  <2>2. CASE d.direction = "proxy_to_client" /\ OfLine(d, Messages)
    <3>1. d.id = Call(d.id.of) /\ d.id.of \in Messages
      BY <2>2 DEF OfLine
    <3>2. d.id.of \in Requests
      <4>1. d.id.of \notin Requests => d.id.of \notin DOMAIN IdOf
        BY <3>1, ProxyAssumption, EvaluationAssumption DEF Messages
      <4>2. ~d.id.copy
        BY <3>1
      <4>. QED BY <1>1, <4>1, <4>2 DEF RpcId
    <3>3. d.id \in Keys
      BY <1>6, <3>1, <3>2, Zenon
    <3>. QED BY <1>1, <1>5, <2>1, <2>2, <3>3, IdsApart DEF d, e, q
  <2>3. CASE d.direction = "client_to_proxy" /\ d.mutation = 0 /\ OfLine(d, ServerRequests)
    <3>1. d.id = Call(d.id.of) /\ d.id.of \in ServerRequests
      BY <2>3 DEF OfLine
    <3>2. ~d.id.copy /\ ~e.id.copy /\ d.id.of \in DOMAIN IdOf /\ e.id.of \in DOMAIN IdOf
      BY <2>1, <3>1, EvaluationAssumption
    <3>3. IdOf[d.id.of] = IdOf[e.id.of]
      BY <1>1, <3>2 DEF RpcId
    <3>. QED BY <1>5, <2>3, <3>3 DEF d, e, q
  <2>. QED BY <1>1, <1>2, <1>5, <2>2, <2>3 DEF Side
<1>. QED BY <1>4, <1>5

\* The outcome of a call event is an answer to that call, for every interleaving of
\* the client, the target, the timers and the mutations.
THEOREM ResponsesArePaired == EvaluationSpec => []ResponsesPaired
<1>1. CaptureInv => ResponsesPaired
  BY ResponsesBelong DEF ResponsesPaired
<1>. QED BY <1>1, CaptureInvariance, PTL

-------------------------------------------------------------------------------
(* What the report tells of mutations.                                     *)

\* The mutation that visibleMutation finds for a call, when it finds one.
LEMMA VisibleFound ==
    ASSUME CaptureInv, Complete, NEW p \in DOMAIN Capture, VisibleMutation(p) # 0
    PROVE  LET q == VisibleMutation(p) IN
           /\ q \in DOMAIN Capture /\ q > p
           /\ At(q).kind = "response" /\ Side(At(q)) = "client"
           /\ ToolIn(At(q)) = ToolIn(At(p)) /\ At(q).mutation # 0
           /\ \A b \in DOMAIN Capture :
                 /\ b > p /\ At(b).kind = "response" /\ Side(At(b)) = "client"
                 /\ ToolIn(At(b)) = ToolIn(At(p)) /\ At(b).mutation # 0
                 => q <= b
<1>. DEFINE shown == {q \in DOMAIN Capture : /\ At(q).kind = "response" /\ Side(At(q)) = "client"
                                             /\ ToolIn(At(q)) = ToolIn(At(p)) /\ At(q).mutation # 0}
<1>1. VisibleMutation(p) = FirstAfter(p, shown)
  BY DEF VisibleMutation
<1>2. DOMAIN Capture \subseteq Nat
  BY CaptureEntries
<1>3. shown \subseteq Nat /\ p \in Nat
  BY <1>2
<1>. HIDE DEF shown
<1>4. /\ VisibleMutation(p) \in shown /\ VisibleMutation(p) > p
      /\ \A b \in shown : b > p => VisibleMutation(p) <= b
  BY <1>1, <1>3, FirstIsLeast
<1>. QED BY <1>4 DEF shown

LEMMA MutationsListed ==
    ASSUME NEW p
    PROVE  CallEvent(p).mutations = {MutationAt(VisibleMutation(p)), MutationAt(ResponseOf(p))} \ {0}
BY DEF CallEvent

LEMMA AttributionHolds ==
    ASSUME CaptureInv
    PROVE  AttributionFollowsAnswers
<1>. SUFFICES ASSUME Complete, NEW p \in DOMAIN Capture, IsCall(p), At(p).id.of \in Requests
              PROVE  /\ \A i \in CallEvent(p).mutations :
                           \E q \in DOMAIN Capture :
                               /\ q > p /\ At(q).mutation = i
                               /\ At(q).kind = "response" /\ ToolOf[At(q).id.of] = ToolIn(At(p))
                     /\ /\ ~IsPhysical(p)
                        /\ ResponseOf(p) # 0 /\ At(ResponseOf(p)).id = At(p).id
                        /\ At(ResponseOf(p)).mutation # 0
                        => chosen[At(p).id.of] \in CallEvent(p).mutations
  BY DEF AttributionFollowsAnswers
<1>. DEFINE v == VisibleMutation(p)
            r == ResponseOf(p)
<1>1. CallEvent(p).mutations = {MutationAt(v), MutationAt(r)} \ {0}
  BY MutationsListed
<1>2. ToolIn(At(p)) = ToolOf[At(p).id.of] /\ ToolIn(At(p)) # NoTool
  BY CallPlaces
<1>3. ASSUME v # 0
      PROVE  /\ v \in DOMAIN Capture /\ v > p /\ At(v).kind = "response"
             /\ ToolOf[At(v).id.of] = ToolIn(At(p))
  <2>1. /\ v \in DOMAIN Capture /\ v > p /\ At(v).kind = "response"
        /\ ToolIn(At(v)) = ToolIn(At(p))
    BY <1>3, VisibleFound
  <2>. HIDE DEF v
  <2>2. ToolIn(At(v)) = ToolOf[At(v).id.of]
    BY <1>2, <2>1 DEF ToolIn
  <2>. QED BY <2>1, <2>2
<1>4. ASSUME r # 0, At(r).mutation # 0
      PROVE  /\ r \in DOMAIN Capture /\ r > p /\ At(r).kind = "response"
             /\ At(r).id = At(p).id
  BY <1>4, ResponseFound, ResponsesBelong
<1>5. ASSUME r # 0, At(r).mutation # 0, At(r).id = At(p).id
      PROVE  At(r).mutation = chosen[At(p).id.of]
  <2>1. r \in DOMAIN Capture
    BY <1>4, <1>5
  <2>. HIDE DEF r
  <2>2. Marked(At(r))
    BY <2>1, CaptureEntries
  <2>. QED BY <1>5, <2>2 DEF Marked
<1>. HIDE DEF v, r
<1>6. ASSUME NEW i \in CallEvent(p).mutations
      PROVE  \E q \in DOMAIN Capture :
                /\ q > p /\ At(q).mutation = i
                /\ At(q).kind = "response" /\ ToolOf[At(q).id.of] = ToolIn(At(p))
  <2>1. i # 0 /\ (i = MutationAt(v) \/ i = MutationAt(r))
    BY <1>1
  <2>2. CASE i = MutationAt(v)
    BY <1>3, <2>1, <2>2 DEF MutationAt
  <2>3. CASE i = MutationAt(r)
    BY <1>2, <1>4, <2>1, <2>3 DEF MutationAt
  <2>. QED BY <2>1, <2>2, <2>3
<1>7. ASSUME r # 0, At(r).id = At(p).id, At(r).mutation # 0
      PROVE  chosen[At(p).id.of] \in CallEvent(p).mutations
  BY <1>1, <1>5, <1>7 DEF MutationAt
<1>. QED BY <1>6, <1>7 DEF r

\* Once the session has returned, the mutations of the capture are those that were
\* applied.
LEMMA AccountHolds ==
    ASSUME CaptureInv
    PROVE  MutationsAccounted
<1>. SUFFICES ASSUME Complete
              PROVE  AppliedMutations = {chosen[m] : m \in {x \in Messages :
                        /\ chosen[x] # 0
                        /\ IF Mutations[chosen[x]].type \in MutationTypes.preflight
                           THEN task[x] # "none" ELSE x \in Requests /\ task[x] = "done"}}
  BY DEF MutationsAccounted, Messages
<1>. DEFINE Affected == {x \in Messages :
                        /\ chosen[x] # 0
                        /\ IF Mutations[chosen[x]].type \in MutationTypes.preflight
                           THEN task[x] # "none" ELSE x \in Requests /\ task[x] = "done"}
<1>1. /\ Late /\ main = "returned" /\ ~log.truncated
      /\ DOMAIN Capture = DOMAIN log.events
      /\ \A p \in DOMAIN Capture : At(p) = Entry(log, p) /\ Formed(At(p)) /\ Marked(At(p))
  BY CaptureEntries DEF Complete, Late
<1>2. ASSUME NEW i \in AppliedMutations PROVE \E m \in Affected : i = chosen[m]
  <2>1. PICK p \in DOMAIN Capture : At(p).kind = "mutation" /\ At(p).mutation = i
    BY DEF AppliedMutations
  <2>. DEFINE m == At(p).id.of
  <2>2. m \in Messages /\ At(p).id = Call(m) /\ i # 0 /\ i = chosen[m]
    BY <1>1, <2>1 DEF Formed, Marked, OfLine
  <2>3. p \in Told(log, m)
    BY <1>1, <2>1, <2>2 DEF Told, IsMutation
  <2>. HIDE DEF m
  <2>4. Acted(m) \/ (m \in Requests /\ task[m] = "failed")
    BY <2>2, <2>3 DEF CaptureInv, ToldInv
  <2>5. CASE Mutations[chosen[m]].type \in MutationTypes.preflight
    <3>1. task[m] # "none"
      BY <2>4 DEF Acted, Mutating
    <3>. QED BY <2>2, <2>5, <3>1
  <2>6. CASE Mutations[chosen[m]].type \notin MutationTypes.preflight
    <3>1. ~Denied(m) /\ m \in Requests
      BY <2>4, <2>6 DEF Acted, Denied
    <3>2. m \in awaited
      BY <1>1, <2>2, <2>3, <3>1 DEF CaptureInv, LateInv
    <3>3. task[m] = "done"
      BY <1>1, <3>2 DEF CaptureInv, SuccessInv, AwaitedFinished
    <3>. QED BY <2>2, <2>6, <3>1, <3>3
  <2>. QED BY <2>5, <2>6
<1>3. ASSUME NEW m \in Affected PROVE chosen[m] \in AppliedMutations
  <2>1. m \in Messages /\ chosen[m] # 0 /\ Acted(m)
    BY DEF Acted, Denied
  <2>2. PICK p \in DOMAIN log.events : IsMutation(Entry(log, p), m)
    BY <1>1, <2>1 DEF CaptureInv, ToldInv, Told
  <2>3. /\ p \in DOMAIN Capture /\ At(p).kind = "mutation" /\ At(p).id = Call(m)
        /\ At(p).mutation # 0 /\ At(p).mutation = chosen[At(p).id.of]
    BY <1>1, <2>2 DEF IsMutation, Formed, Marked
  <2>4. chosen[m] \in 0..Len(Mutations) /\ DOMAIN Mutations = 1..Len(Mutations) /\ Len(Mutations) \in Nat
    BY <2>1, ProxyAssumption, LenProperties DEF CaptureInv, TypeInv, TypeOK, HandlersType, Messages
  <2>5. chosen[m] \in DOMAIN Mutations
    BY <2>1, <2>4
  <2>. QED BY <2>3, <2>5 DEF AppliedMutations
<1>. HIDE DEF Affected
<1>4. AppliedMutations = {chosen[m] : m \in Affected}
  BY <1>2, <1>3
<1>. QED BY <1>4 DEF Affected

-------------------------------------------------------------------------------
(* The call events of a session.                                           *)

LEMMA Joined ==
    ASSUME NEW S, NEW s \in Seq(S), NEW t \in Seq(S), NEW u \in Seq(S)
    PROVE  /\ s \o t \o u \in Seq(S)
           /\ DOMAIN (s \o t \o u) = 1..(Len(s) + Len(t) + Len(u))
           /\ \A i \in 1..(Len(s) + Len(t) + Len(u)) :
                 (s \o t \o u)[i] = IF i <= Len(s) THEN s[i]
                                    ELSE IF i <= Len(s) + Len(t) THEN t[i - Len(s)]
                                    ELSE u[i - Len(s) - Len(t)]
<1>1. \A x, y \in Seq(S) :
         /\ x \o y \in Seq(S) /\ Len(x \o y) = Len(x) + Len(y)
         /\ \A i \in 1..(Len(x) + Len(y)) : (x \o y)[i] = IF i <= Len(x) THEN x[i] ELSE y[i - Len(x)]
  BY ConcatProperties
<1>2. /\ s \o t \in Seq(S) /\ Len(s \o t) = Len(s) + Len(t)
      /\ \A i \in 1..(Len(s) + Len(t)) : (s \o t)[i] = IF i <= Len(s) THEN s[i] ELSE t[i - Len(s)]
  BY <1>1, Zenon
<1>. DEFINE st == s \o t
<1>3. st \in Seq(S)
  BY <1>2
<1>4. /\ st \o u \in Seq(S) /\ Len(st \o u) = Len(st) + Len(u)
      /\ \A i \in 1..(Len(st) + Len(u)) : (st \o u)[i] = IF i <= Len(st) THEN st[i] ELSE u[i - Len(st)]
  <2>. HIDE DEF st
  <2>. QED BY <1>1, <1>3, Zenon
<1>5. Len(s) \in Nat /\ Len(t) \in Nat /\ Len(u) \in Nat
  BY LenProperties
<1>6. DOMAIN (st \o u) = 1..(Len(s) + Len(t) + Len(u))
  <2>1. DOMAIN (st \o u) = 1..Len(st \o u)
    BY <1>4, LenProperties, Zenon
  <2>. QED BY <1>2, <1>4, <2>1
<1>7. ASSUME NEW i \in 1..(Len(s) + Len(t) + Len(u))
      PROVE  (st \o u)[i] = IF i <= Len(s) THEN s[i]
                            ELSE IF i <= Len(s) + Len(t) THEN t[i - Len(s)]
                            ELSE u[i - Len(s) - Len(t)]
  <2>1. /\ Len(st) = Len(s) + Len(t)
        /\ \A j \in 1..(Len(s) + Len(t)) : st[j] = IF j <= Len(s) THEN s[j] ELSE t[j - Len(s)]
    BY <1>2
  <2>. HIDE DEF st
  <2>. QED BY <1>4, <1>5, <2>1
<1>. QED BY <1>4, <1>6, <1>7 DEF st

LEMMA SamplesCounted ==
    ASSUME ObservedInv, Complete
    PROVE  before.samples \in Nat /\ after.samples \in Nat
<1>1. ASSUME NEW failing, NEW stored PROVE ObserveState(failing, stored).samples \in Nat
  <2>. DEFINE asked == {i \in Reached(failing) : Sampling(i) /\ Allowed(i)}
  <2>1. ObserveState(failing, stored).samples = Cardinality(asked)
    BY DEF ObserveState
  <2>2. asked \in SUBSET (1..Len(Probes)) /\ Len(Probes) \in Nat
    BY EvaluationAssumption DEF Reached
  <2>. HIDE DEF asked
  <2>3. IsFiniteSet(1..Len(Probes))
    BY <2>2, FS_Interval
  <2>4. IsFiniteSet(asked)
    BY <2>2, <2>3, FS_Subset
  <2>. QED BY <2>1, <2>4, FS_CardinalityType
<1>. QED BY <1>1 DEF ObservedInv, Complete

LEMMA CallFields ==
    ASSUME NEW p, NEW n
    PROVE  LET e == [CallEvent(p) EXCEPT !.sequence = n] IN
           /\ e.kind # "effect_probe"
           /\ e.tool = ToolIn(At(p)) /\ e.physical = IsPhysical(p)
           /\ IsPhysical(p) => e.step = Missing
           /\ e.response = CallEvent(p).response
<1>. DEFINE c == CallEvent(p)
<1>1. /\ DOMAIN c = {"id", "sequence", "kind", "tool", "step", "args", "physical", "response", "mutations"}
      /\ c.kind # "effect_probe"
      /\ c.tool = ToolIn(At(p)) /\ c.physical = IsPhysical(p)
      /\ IsPhysical(p) => c.step = Missing
  BY DEF CallEvent
<1>. HIDE DEF c
<1>2. \A x \in DOMAIN c \ {"sequence"} : [c EXCEPT !.sequence = n][x] = c[x]
  OBVIOUS
<1>. QED BY <1>1, <1>2 DEF c

\* Where the events of a session come from: the observations add probe events at both
\* ends, and at[k] is the entry of the capture behind the k-th event between them, which
\* comes after b others.
EventsStandAt(b, m, at) ==
    /\ at \in [1..m -> DOMAIN Capture]
    /\ \A j, k \in 1..m : j < k => at[j] < at[k]
    /\ \A k \in 1..m : IsCall(at[k])
    /\ \A p \in DOMAIN Capture : IsCall(p) => \E k \in 1..m : at[k] = p
    /\ \A i \in DOMAIN CallEvents :
          \/ CallEvents[i].kind = "effect_probe"
          \/ /\ i - b \in 1..m
             /\ CallEvents[i] = [CallEvent(at[i - b]) EXCEPT !.sequence = i]
    /\ \A k \in 1..m :
          /\ b + k \in DOMAIN CallEvents
          /\ CallEvents[b + k] = [CallEvent(at[k]) EXCEPT !.sequence = b + k]

LEMMA CallEventsListed ==
    ASSUME CaptureInv, ObservedInv, Complete
    PROVE  /\ \E S : CallEvents \in Seq(S)
           /\ \E b, m \in Nat : \E at : EventsStandAt(b, m, at)
<1>. DEFINE s == [p \in DOMAIN Capture |-> p]
            called == {p \in DOMAIN Capture : IsCall(p)}
            positions == CallPositions
<1>1. Len(Capture) \in Nat /\ DOMAIN Capture = 1..Len(Capture)
  BY CaptureEntries
<1>2. s \in Seq(Nat) /\ Len(s) = Len(Capture) /\ \A i \in 1..Len(Capture) : s[i] = i
  BY <1>1
<1>3. positions = Selection(s, called)
  BY DEF CallPositions
<1>. HIDE DEF s, positions, called
<1>4. positions \in Seq(Nat) /\ Lists(positions, s, called, Len(s))
  BY <1>2, <1>3, SelectionLists
<1>5. Len(positions) \in Nat /\ DOMAIN positions = 1..Len(positions)
  BY <1>4, LenProperties
<1>6. PICK at \in [1..Len(positions) -> 1..Len(s)] :
         /\ \A k \in 1..Len(positions) : at[k] \in called /\ positions[k] = s[at[k]]
         /\ \A j, k \in 1..Len(positions) : j < k => at[j] < at[k]
         /\ \A i \in 1..Len(s) : i \in called => \E k \in 1..Len(positions) : at[k] = i
  BY <1>4 DEF Lists
<1>7. \A k \in 1..Len(positions) : positions[k] = at[k]
  BY <1>2, <1>6
<1>. DEFINE first == ProbeEvents(before)
            last == ProbeEvents(after)
            calls == [i \in DOMAIN positions |-> CallEvent(positions[i])]
            all == first \o calls \o last
            b == before.samples
            m == Len(positions)
            a == after.samples
            S == {ProbeEvent} \cup {CallEvent(p) : p \in DOMAIN Capture}
<1>8. b \in Nat /\ a \in Nat /\ m \in Nat
  BY <1>5, SamplesCounted
<1>9. /\ first \in Seq(S) /\ Len(first) = b /\ \A i \in 1..b : first[i] = ProbeEvent
      /\ last \in Seq(S) /\ Len(last) = a /\ \A i \in 1..a : last[i] = ProbeEvent
  <2>1. first \in [1..b -> S] /\ last \in [1..a -> S]
    BY DEF ProbeEvents
  <2>2. first \in Seq(S) /\ last \in Seq(S)
    <3>. HIDE DEF first, last, S, a, b
    <3>. QED BY <1>8, <2>1, SeqDef
  <2>3. DOMAIN first = 1..b /\ DOMAIN last = 1..a
    BY <2>1
  <2>4. \A i \in 1..b : first[i] = ProbeEvent
    BY DEF ProbeEvents
  <2>5. \A i \in 1..a : last[i] = ProbeEvent
    BY DEF ProbeEvents
  <2>. HIDE DEF first, last, S
  <2>. QED BY <1>8, <2>2, <2>3, <2>4, <2>5, LenProperties
<1>10. /\ calls \in Seq(S) /\ Len(calls) = m
       /\ \A k \in 1..m : calls[k] = CallEvent(at[k])
  <2>1. \A k \in 1..m : positions[k] \in DOMAIN Capture /\ calls[k] = CallEvent(at[k])
    BY <1>1, <1>2, <1>5, <1>6, <1>7
  <2>2. calls \in [1..m -> S]
    BY <1>5, <2>1
  <2>3. calls \in Seq(S) /\ DOMAIN calls = 1..m
    BY <1>8, <2>2, SeqDef
  <2>. HIDE DEF calls, S
  <2>. QED BY <1>8, <2>1, <2>3, LenProperties
<1>. HIDE DEF first, calls, last, b, a, S
<1>11. /\ all \in Seq(S) /\ DOMAIN all = 1..(b + m + a)
       /\ \A i \in 1..(b + m + a) : all[i] = IF i <= b THEN first[i]
                                            ELSE IF i <= b + m THEN calls[i - b]
                                            ELSE last[i - b - m]
  <2>. HIDE DEF m
  <2>1. /\ first \in Seq(S) /\ Len(first) = b
        /\ calls \in Seq(S) /\ Len(calls) = m
        /\ last \in Seq(S)
    BY <1>9, <1>10
  <2>2. /\ all \in Seq(S)
        /\ DOMAIN all = 1..(Len(first) + Len(calls) + Len(last))
        /\ \A i \in 1..(Len(first) + Len(calls) + Len(last)) :
              all[i] = IF i <= Len(first) THEN first[i]
                       ELSE IF i <= Len(first) + Len(calls) THEN calls[i - Len(first)]
                       ELSE last[i - Len(first) - Len(calls)]
    <3>1. \A x, y, z \in Seq(S) :
             /\ x \o y \o z \in Seq(S)
             /\ DOMAIN (x \o y \o z) = 1..(Len(x) + Len(y) + Len(z))
             /\ \A i \in 1..(Len(x) + Len(y) + Len(z)) :
                   (x \o y \o z)[i] = IF i <= Len(x) THEN x[i]
                                      ELSE IF i <= Len(x) + Len(y) THEN y[i - Len(x)]
                                      ELSE z[i - Len(x) - Len(y)]
      BY Joined, ZenonT(60)
    <3>. QED BY <2>1, <3>1, Zenon
  <2>3. Len(last) = a
    BY <1>9
  <2>. QED BY <2>1, <2>2, <2>3, Zenon
<1>12. CallEvents = [i \in DOMAIN all |-> [all[i] EXCEPT !.sequence = i]]
  BY DEF CallEvents, all, first, calls, last, positions
<1>. HIDE DEF all, m
<1>13. DOMAIN CallEvents = 1..(b + m + a)
  BY <1>11, <1>12
<1>14. ASSUME NEW i \in DOMAIN CallEvents
       PROVE  \/ CallEvents[i].kind = "effect_probe"
              \/ i - b \in 1..m /\ CallEvents[i] = [CallEvent(at[i - b]) EXCEPT !.sequence = i]
  <2>1. i \in 1..(b + m + a) /\ CallEvents[i] = [all[i] EXCEPT !.sequence = i]
    BY <1>11, <1>12, <1>13
  <2>2. [ProbeEvent EXCEPT !.sequence = i].kind = "effect_probe"
    BY DEF ProbeEvent
  <2>3. CASE i <= b
    <3>1. all[i] = ProbeEvent
      BY <1>8, <1>9, <1>11, <2>1, <2>3
    <3>. QED BY <2>1, <2>2, <3>1
  <2>4. CASE ~(i <= b) /\ i <= b + m
    <3>1. i - b \in 1..m
      BY <1>8, <2>1, <2>4
    <3>2. all[i] = CallEvent(at[i - b])
      BY <1>10, <1>11, <2>1, <2>4, <3>1
    <3>. QED BY <2>1, <3>1, <3>2
  <2>5. CASE ~(i <= b + m)
    <3>1. i - b - m \in 1..a /\ ~(i <= b)
      BY <1>8, <2>1, <2>5
    <3>2. all[i] = ProbeEvent
      BY <1>9, <1>11, <2>1, <2>5, <3>1
    <3>. QED BY <2>1, <2>2, <3>2
  <2>. QED BY <2>3, <2>4, <2>5
<1>15. ASSUME NEW k \in 1..m
       PROVE  /\ b + k \in DOMAIN CallEvents
              /\ CallEvents[b + k] = [CallEvent(at[k]) EXCEPT !.sequence = b + k]
  <2>. DEFINE i == b + k
  <2>1. i \in 1..(b + m + a) /\ ~(i <= b) /\ i <= b + m /\ i - b = k
    BY <1>8
  <2>. HIDE DEF i
  <2>2. all[i] = CallEvent(at[k])
    BY <1>10, <1>11, <2>1
  <2>3. i \in DOMAIN CallEvents /\ CallEvents[i] = [all[i] EXCEPT !.sequence = i]
    BY <1>11, <1>12, <1>13, <2>1
  <2>. QED BY <2>2, <2>3 DEF i
<1>16. \E T : CallEvents \in Seq(T)
  <2>. DEFINE N == b + m + a
              T == {CallEvents[i] : i \in 1..N}
  <2>1. N \in Nat
    BY <1>8
  <2>2. CallEvents \in [1..N -> T]
    BY <1>12, <1>13
  <2>. HIDE DEF N
  <2>3. CallEvents \in Seq(T)
    BY <2>1, <2>2, SeqDef
  <2>. QED BY <2>3
<1>17. /\ at \in [1..m -> DOMAIN Capture]
       /\ \A j, k \in 1..m : j < k => at[j] < at[k]
       /\ \A k \in 1..m : IsCall(at[k])
       /\ \A p \in DOMAIN Capture : IsCall(p) => \E k \in 1..m : at[k] = p
  BY <1>1, <1>2, <1>6 DEF called, m
<1>18. EventsStandAt(b, m, at)
  BY <1>14, <1>15, <1>17 DEF EventsStandAt
<1>. QED BY <1>8, <1>16, <1>18, Zenon

\* Where the calls of a tool that were sent to the target are in the capture.
TargetCalls(tool) == {p \in DOMAIN Capture : IsCall(p) /\ IsPhysical(p) /\ ToolIn(At(p)) = tool}

CallsListed(where, calls, tool) ==
    /\ where \in [1..Len(calls) -> DOMAIN Capture]
    /\ \A k \in 1..Len(calls) :
          /\ where[k] \in TargetCalls(tool)
          /\ calls[k].step = Missing
          /\ calls[k].response = CallEvent(where[k]).response
    /\ \A j, k \in 1..Len(calls) : j < k => where[j] < where[k]
    /\ \A p \in TargetCalls(tool) : \E k \in 1..Len(calls) : where[k] = p

\* The physical calls of a tool in the evaluated run are those of the capture, in the
\* order in which they were sent.
LEMMA TargetCallsListed ==
    ASSUME CaptureInv, ObservedInv, Complete, NEW tool
    PROVE  LET calls == PhysicalCalls(CallEvents, tool) IN
           /\ Len(calls) \in Nat /\ DOMAIN calls = 1..Len(calls)
           /\ \E where : CallsListed(where, calls, tool)
<1>. DEFINE all == CallEvents
            chosenOnes == {i \in DOMAIN all :
                        all[i].tool = tool /\ all[i].physical /\ all[i].kind # "effect_probe"}
            calls == Selection(all, chosenOnes)
<1>1. PICK S : all \in Seq(S)
  BY CallEventsListed
<1>0. PICK b \in Nat, m \in Nat : \E at : EventsStandAt(b, m, at)
  BY CallEventsListed, Zenon
<1>2. PICK at : EventsStandAt(b, m, at)
  BY <1>0
<1>3. /\ at \in [1..m -> DOMAIN Capture]
      /\ \A j, k \in 1..m : j < k => at[j] < at[k]
      /\ \A k \in 1..m : IsCall(at[k])
      /\ \A p \in DOMAIN Capture : IsCall(p) => \E k \in 1..m : at[k] = p
      /\ \A i \in DOMAIN all :
            \/ all[i].kind = "effect_probe"
            \/ i - b \in 1..m /\ all[i] = [CallEvent(at[i - b]) EXCEPT !.sequence = i]
      /\ \A k \in 1..m :
            b + k \in DOMAIN all /\ all[b + k] = [CallEvent(at[k]) EXCEPT !.sequence = b + k]
  BY <1>2 DEF EventsStandAt
<1>4. DOMAIN Capture \subseteq Nat
  BY CaptureEntries
<1>. HIDE DEF all
<1>5. calls \in Seq(S) /\ Lists(calls, all, chosenOnes, Len(all))
  BY <1>1, SelectionLists
<1>6. Len(all) \in Nat /\ DOMAIN all = 1..Len(all)
  BY <1>1, LenProperties
<1>. HIDE DEF calls
<1>7. Len(calls) \in Nat /\ DOMAIN calls = 1..Len(calls)
  BY <1>5, LenProperties
<1>8. PICK pick \in [1..Len(calls) -> 1..Len(all)] :
         /\ \A k \in 1..Len(calls) : pick[k] \in chosenOnes /\ calls[k] = all[pick[k]]
         /\ \A j, k \in 1..Len(calls) : j < k => pick[j] < pick[k]
         /\ \A i \in 1..Len(all) : i \in chosenOnes => \E k \in 1..Len(calls) : pick[k] = i
  BY <1>5 DEF Lists
<1>. DEFINE where == [k \in 1..Len(calls) |-> at[pick[k] - b]]
<1>9. ASSUME NEW k \in 1..Len(calls)
      PROVE  /\ pick[k] - b \in 1..m /\ where[k] = at[pick[k] - b]
             /\ where[k] \in TargetCalls(tool)
             /\ calls[k].step = Missing
             /\ calls[k].response = CallEvent(where[k]).response
  <2>. DEFINE p == at[pick[k] - b]
  <2>1. pick[k] \in DOMAIN all /\ all[pick[k]].kind # "effect_probe" /\ calls[k] = all[pick[k]]
        /\ all[pick[k]].tool = tool /\ all[pick[k]].physical
    BY <1>8
  <2>2. pick[k] - b \in 1..m /\ calls[k] = [CallEvent(p) EXCEPT !.sequence = pick[k]]
    BY <1>3, <2>1
  <2>3. where[k] = p /\ p \in DOMAIN Capture /\ IsCall(p)
    BY <1>3, <2>2
  <2>. HIDE DEF p
  <2>4. /\ calls[k].tool = ToolIn(At(p)) /\ calls[k].physical = IsPhysical(p)
        /\ IsPhysical(p) => calls[k].step = Missing
        /\ calls[k].response = CallEvent(p).response
    BY <2>2, CallFields
  <2>. QED BY <2>1, <2>2, <2>3, <2>4 DEF TargetCalls, p
<1>10. where \in [1..Len(calls) -> DOMAIN Capture]
  BY <1>9 DEF TargetCalls
<1>11. ASSUME NEW j \in 1..Len(calls), NEW k \in 1..Len(calls), j < k
       PROVE  where[j] < where[k]
  <2>1. pick[j] < pick[k] /\ pick[j] \in Nat /\ pick[k] \in Nat
    BY <1>6, <1>8, <1>11
  <2>2. pick[j] - b < pick[k] - b
    BY <2>1
  <2>3. pick[j] - b \in 1..m /\ where[j] = at[pick[j] - b]
        /\ pick[k] - b \in 1..m /\ where[k] = at[pick[k] - b]
    BY <1>9
  <2>. HIDE DEF where
  <2>. QED BY <1>3, <2>2, <2>3
<1>12. ASSUME NEW p \in TargetCalls(tool) PROVE \E k \in 1..Len(calls) : where[k] = p
  <2>1. p \in DOMAIN Capture /\ IsCall(p) /\ IsPhysical(p) /\ ToolIn(At(p)) = tool
    BY DEF TargetCalls
  <2>2. PICK n \in 1..m : at[n] = p
    BY <1>3, <2>1
  <2>3. b + n \in DOMAIN all /\ all[b + n] = [CallEvent(p) EXCEPT !.sequence = b + n]
    BY <1>3, <2>2
  <2>. DEFINE i == b + n
  <2>4. i - b = n
    OBVIOUS
  <2>. HIDE DEF i
  <2>5. all[i].kind # "effect_probe" /\ all[i].tool = ToolIn(At(p)) /\ all[i].physical = IsPhysical(p)
    BY <2>3, CallFields DEF i
  <2>6. i \in chosenOnes
    BY <2>1, <2>3, <2>5 DEF i
  <2>7. PICK k \in 1..Len(calls) : pick[k] = i
    BY <1>6, <1>8, <2>6
  <2>. QED BY <1>9, <2>2, <2>4, <2>7
<1>. HIDE DEF where
<1>13. CallsListed(where, calls, tool)
  BY <1>9, <1>10, <1>11, <1>12 DEF CallsListed
<1>14. PhysicalCalls(CallEvents, tool) = calls
  BY DEF PhysicalCalls, calls, all, chosenOnes
<1>. QED BY <1>7, <1>13, <1>14

\* What was sent to the target as a call is one of the requests of the client or a
\* duplicate of one.
LEMMA PhysicalIsSent ==
    ASSUME CaptureInv, Complete, NEW p \in DOMAIN Capture, IsCall(p), IsPhysical(p)
    PROVE  /\ IsSend(At(p)) /\ p \in Sends(log, At(p).id)
           /\ ToolIn(At(p)) = ToolOf[At(p).id.of] /\ ToolIn(At(p)) # NoTool
<1>1. /\ Formed(At(p)) /\ At(p).kind = "request" /\ At(p) = Entry(log, p) /\ p \in DOMAIN log.events
  BY CaptureEntries DEF IsCall
<1>2. /\ At(p).direction # "target_to_proxy" /\ ToolIn(At(p)) = ToolOf[At(p).id.of]
      /\ ToolIn(At(p)) # NoTool
  BY DEF IsCall, ToolIn
<1>3. IsSend(At(p))
  BY <1>1, <1>2 DEF IsPhysical, Side, Formed, IsSend
<1>. QED BY <1>1, <1>2, <1>3 DEF Sends

LEMMA FirstExists ==
    ASSUME NEW p \in Nat, NEW positions, positions \subseteq Nat, NEW q \in positions, q > p
    PROVE  FirstAfter(p, positions) # 0
<1>. DEFINE later == {x \in positions : x > p}
<1>1. q \in later /\ later \subseteq Nat
  OBVIOUS
<1>2. FirstAfter(p, positions) = Min(later)
  BY <1>1 DEF FirstAfter
<1>3. \A x \in later : x # 0
  OBVIOUS
<1>. HIDE DEF later
<1>4. PICK n \in later : \A m \in later : n <= m
  BY <1>1, LeastElement
<1>5. Min(later) \in later
  <2>1. Min(later) = CHOOSE x \in later : \A y \in later : x <= y
    BY DEF Min
  <2>. QED BY <1>4, <2>1, Zenon
<1>. QED BY <1>2, <1>3, <1>5

\* The loss of an answer is the outcome of its call, when nothing mutated of the tool came
\* between them.
LEMMA LossIsItsOutcome ==
    ASSUME CaptureInv, Complete, NEW r \in Requests, NEW p \in SentAt(Call(r)), NEW q \in LostAt(r),
           \A b \in p..q : b = q \/ At(b).mutation = 0 \/ At(b).kind # "response"
    PROVE  CallEvent(p).response = "lost"
<1>. DEFINE v == VisibleMutation(p)
            shown == {x \in DOMAIN Capture : /\ At(x).kind = "response" /\ Side(At(x)) = "client"
                                             /\ ToolIn(At(x)) = ToolIn(At(p)) /\ At(x).mutation # 0}
<1>1. /\ p \in DOMAIN Capture /\ IsCall(p) /\ IsPhysical(p) /\ At(p).id = Call(r)
      /\ q \in DOMAIN Capture /\ At(q).direction = "proxy_to_client" /\ At(q).id = Call(r)
      /\ At(q).mutation # 0 /\ ResponseStatus(At(q).mutation) = "lost"
  BY DEF SentAt, LostAt
<1>2. DOMAIN Capture \subseteq Nat /\ \A x \in DOMAIN Capture : x # 0 /\ Formed(At(x)) /\ At(x) = Entry(log, x)
      /\ DOMAIN Capture = DOMAIN log.events
  BY CaptureEntries
<1>3. p < q
  <2>1. p \in Sends(log, Call(r))
    BY <1>1, PhysicalIsSent
  <2>2. q \in Shown(log, r)
    BY <1>1, <1>2 DEF Shown
  <2>. QED BY <2>1, <2>2 DEF CaptureInv, SendsInv
<1>4. q \in shown
  <2>1. At(q).kind = "response"
    BY <1>1, <1>2 DEF Formed
  <2>2. r \in DOMAIN ToolOf
    BY ProxyAssumption DEF ClientLines
  <2>3. ToolIn(At(q)) = ToolOf[r]
    BY <1>1, <2>2 DEF ToolIn
  <2>4. ToolIn(At(p)) = ToolOf[r]
    BY <1>1, PhysicalIsSent
  <2>. QED BY <1>1, <2>1, <2>3, <2>4 DEF Side
<1>5. v # 0
  <2>1. shown \subseteq Nat /\ p \in Nat
    BY <1>1, <1>2
  <2>2. v = FirstAfter(p, shown)
    BY DEF VisibleMutation
  <2>. HIDE DEF shown, v
  <2>. QED BY <1>2, <1>3, <1>4, <2>1, <2>2, FirstExists
<1>6. /\ v \in DOMAIN Capture /\ v > p
      /\ At(v).kind = "response" /\ At(v).mutation # 0
      /\ v <= q
  <2>1. LET x == v IN
        /\ x \in DOMAIN Capture /\ x > p
        /\ At(x).kind = "response" /\ At(x).mutation # 0
        /\ \A b \in DOMAIN Capture :
                 /\ b > p /\ At(b).kind = "response" /\ Side(At(b)) = "client"
                 /\ ToolIn(At(b)) = ToolIn(At(p)) /\ At(b).mutation # 0
                 => x <= b
    BY <1>1, <1>5, VisibleFound
  <2>2. /\ q > p /\ q \in DOMAIN Capture /\ At(q).kind = "response" /\ Side(At(q)) = "client"
        /\ ToolIn(At(q)) = ToolIn(At(p)) /\ At(q).mutation # 0
    BY <1>1, <1>2, <1>3, <1>4
  <2>. HIDE DEF v, shown
  <2>. QED BY <2>1, <2>2
<1>. HIDE DEF v
<1>7. v = q
  <2>1. v \in p..q
    BY <1>1, <1>2, <1>6
  <2>. QED BY <1>6, <2>1
<1>8. MutationAt(v) = At(q).mutation
  BY <1>5, <1>7 DEF MutationAt
<1>9. CallEvent(p).response = IF MutationAt(v) # 0 THEN ResponseStatus(MutationAt(v))
                              ELSE IF MutationAt(ResponseOf(p)) = 0 THEN "undefined"
                              ELSE ResponseStatus(MutationAt(ResponseOf(p)))
  BY DEF CallEvent, v
<1>. QED BY <1>1, <1>8, <1>9

LEMMA LossHolds ==
    ASSUME CaptureInv, ObservedInv
    PROVE  LossIsSeen
<1>. SUFFICES ASSUME Complete, NEW c \in Pack.contracts, c.recovery.uncertain = "do_not_retry",
                     NEW r \in Requests, NEW k \in Keys, ToolOf[r] = c.tool, ToolOf[k.of] = c.tool,
                     NEW p \in SentAt(Call(r)), NEW q \in LostAt(r), NEW n \in SentAt(k), p < n,
                     \A b \in p..q : b = q \/ At(b).mutation = 0 \/ At(b).kind # "response"
              PROVE  RecoveryVerdict(c, CallEvents) # "passed"
  BY DEF LossIsSeen
<1>. DEFINE calls == PhysicalCalls(CallEvents, c.tool)
<1>1. /\ Len(calls) \in Nat /\ DOMAIN calls = 1..Len(calls)
  BY TargetCallsListed
<1>2. PICK where : CallsListed(where, calls, c.tool)
  BY TargetCallsListed
<1>3. RetriedAfterLoss(calls) => RecoveryVerdict(c, CallEvents) # "passed"
  BY <1>1, LossVerdicts
<1>. HIDE DEF calls
<1>4. p \in TargetCalls(c.tool) /\ n \in TargetCalls(c.tool)
  <2>1. p \in DOMAIN Capture /\ IsCall(p) /\ IsPhysical(p) /\ At(p).id = Call(r)
    BY DEF SentAt
  <2>2. n \in DOMAIN Capture /\ IsCall(n) /\ IsPhysical(n) /\ At(n).id = k
    BY DEF SentAt
  <2>3. ToolIn(At(p)) = ToolOf[r]
    BY <2>1, PhysicalIsSent
  <2>4. ToolIn(At(n)) = ToolOf[k.of]
    BY <2>2, PhysicalIsSent
  <2>. QED BY <2>1, <2>2, <2>3, <2>4 DEF TargetCalls
<1>5. PICK i \in 1..Len(calls) : where[i] = p
  BY <1>2, <1>4 DEF CallsListed
<1>6. PICK j \in 1..Len(calls) : where[j] = n
  BY <1>2, <1>4 DEF CallsListed
<1>7. i < j
  <2>1. p \in Nat /\ n \in Nat
    BY <1>4, CaptureEntries DEF TargetCalls
  <2>2. ~(j < i) /\ i # j
    BY <1>2, <1>5, <1>6, <2>1 DEF CallsListed
  <2>. QED BY <1>1, <2>2
<1>8. calls[i].response = "lost"
  BY <1>2, <1>5, LossIsItsOutcome DEF CallsListed
<1>. QED BY <1>1, <1>3, <1>7, <1>8 DEF RetriedAfterLoss

\* What the report tells of mutations is true of the session: which were applied, to
\* which calls, and that a call came after a loss.
THEOREM MutationsAreToldTruly == EvaluationSpec => []MutationsAreTold
<1>1. CaptureInv /\ ObservedInv => MutationsAreTold
  BY AttributionHolds, AccountHolds, LossHolds DEF MutationsAreTold
<1>. QED BY <1>1, CaptureInvariance, PTL

-------------------------------------------------------------------------------
(* How often a tool was called.                                            *)

\* The calls of a tool that the capture says were sent.
SentOf(tool) == {k \in Keys : Sends(log, k) # {} /\ ToolOf[k.of] = tool}

\* Each of them is one call of the evaluated run.
LEMMA SentAreCounted ==
    ASSUME CaptureInv, ObservedInv, Complete, NEW tool, tool # NoTool
    PROVE  LET n == Len(PhysicalCalls(CallEvents, tool)) IN
           n \in Nat /\ IsFiniteSet(SentOf(tool)) /\ Cardinality(SentOf(tool)) = n
<1>. DEFINE calls == PhysicalCalls(CallEvents, tool)
            n == Len(calls)
            T == SentOf(tool)
<1>1. n \in Nat
  BY TargetCallsListed
<1>2. PICK where : CallsListed(where, calls, tool)
  BY TargetCallsListed
<1>. HIDE DEF calls
<1>3. /\ where \in [1..n -> DOMAIN Capture]
      /\ \A i \in 1..n : where[i] \in TargetCalls(tool)
      /\ \A i, j \in 1..n : i < j => where[i] < where[j]
      /\ \A p \in TargetCalls(tool) : \E i \in 1..n : where[i] = p
  BY <1>2 DEF CallsListed
<1>. HIDE DEF n
<1>4. DOMAIN Capture \subseteq Nat /\ DOMAIN Capture = DOMAIN log.events
      /\ \A p \in DOMAIN Capture : At(p) = Entry(log, p) /\ Formed(At(p))
  BY CaptureEntries
<1>5. \A p \in TargetCalls(tool) :
         /\ IsSend(At(p)) /\ p \in Sends(log, At(p).id) /\ At(p).id \in Keys
         /\ ToolOf[At(p).id.of] = tool
  BY PhysicalIsSent DEF TargetCalls, IsSend
<1>6. ASSUME NEW k \in T
      PROVE  \E p \in TargetCalls(tool) : At(p).id = k
  <2>1. k \in Keys /\ ToolOf[k.of] = tool /\ k.of \in Requests
    BY DEF SentOf, Keys
  <2>2. PICK p \in DOMAIN Capture : /\ At(p).direction = "proxy_to_target" /\ At(p).id = k
                                    /\ Formed(At(p))
    BY <1>4, <2>1 DEF SentOf, Sends, IsSend
  <2>3. k.of \in DOMAIN ToolOf /\ k.of \notin Notifications
    BY <2>1, ProxyAssumption
  <2>4. At(p).kind = "request" /\ At(p).physical
    BY <1>4, <2>1, <2>2, <2>3 DEF Formed, OfLine
  <2>5. ToolIn(At(p)) = tool
    BY <2>1, <2>2, <2>3 DEF ToolIn
  <2>6. Side(At(p)) = "target"
    BY <2>2 DEF Side
  <2>. QED BY <2>2, <2>4, <2>5, <2>6 DEF TargetCalls, IsCall, IsPhysical
<1>. DEFINE f == [i \in 1..n |-> At(where[i]).id]
<1>7. f \in [1..n -> T]
  <2>1. \A i \in 1..n : At(where[i]).id \in T
    BY <1>3, <1>5 DEF SentOf
  <2>. QED BY <2>1
<1>8. ASSUME NEW i \in 1..n, NEW j \in 1..n, f[i] = f[j]
      PROVE  i = j
  <2>1. where[i] \in TargetCalls(tool) /\ where[j] \in TargetCalls(tool) /\ At(where[i]).id = At(where[j]).id
    BY <1>3, <1>8
  <2>2. where[i] = where[j]
    BY <1>5, <2>1 DEF CaptureInv, SendsInv
  <2>3. where[i] \in Nat
    BY <1>3, <1>4
  <2>. QED BY <1>1, <1>3, <2>2, <2>3
<1>9. \A k \in T : \E i \in 1..n : f[i] = k
  BY <1>3, <1>6
<1>10. ExistsBijection(1..n, T)
  <2>. HIDE DEF f, T
  <2>1. f \in Bijection(1..n, T)
    BY <1>7, <1>8, <1>9, Fun_IsBij
  <2>. QED BY <2>1, Fun_ExistsBij
<1>11. IsFiniteSet(1..n) /\ Cardinality(1..n) = n
  BY <1>1, FS_Interval
<1>12. IsFiniteSet(T) /\ Cardinality(T) = n
  <2>. HIDE DEF T
  <2>. QED BY <1>10, <1>11, FS_Bijection
<1>. QED BY <1>1, <1>12 DEF n, calls

\* The calls of a tool whose writes had not ended, or had failed.
UnreadOf(tool) ==
    {k \in Keys \ Range(received) :
        /\ k.of \in Requests /\ ToolOf[k.of] = tool
        /\ IF k.copy THEN Call(k.of) \in Range(received) /\ task[k.of] \in {"copy_writing", "failed"}
           ELSE task[k.of] \in {"writing", "failed"}}

LEMMA UnreadIsFinite ==
    ASSUME CaptureInv, NEW tool, tool # NoTool
    PROVE  IsFiniteSet(UnreadOf(tool))
<1>. DEFINE U == UnreadOf(tool)
            S == StartedOf(tool)
<1>1. \A k \in U : k \in Keys /\ k.of \in Requests /\ k.copy \in BOOLEAN
                   /\ ToolOf[k.of] = tool /\ task[k.of] # "none"
  BY DEF UnreadOf, Keys
<1>2. CASE U = {}
  BY <1>2, FS_EmptySet
<1>3. CASE U # {}
  <2>1. tool \in Tools
    BY <1>1, <1>3, ProxyAssumption
  <2>2. IsFiniteSet(S)
    BY <2>1 DEF CaptureInv, RankInv, Counted
  <2>3. IsFiniteSet(S \X BOOLEAN)
    <3>1. IsFiniteSet({TRUE, FALSE})
      <4>1. IsFiniteSet({TRUE})
        BY FS_Singleton
      <4>2. {TRUE, FALSE} = {TRUE} \cup {FALSE}
        OBVIOUS
      <4>3. IsFiniteSet({TRUE} \cup {FALSE})
        BY <4>1, FS_AddElement
      <4>. QED BY <4>2, <4>3
    <3>2. IsFiniteSet(BOOLEAN)
      <4>1. BOOLEAN = {TRUE, FALSE}
        OBVIOUS
      <4>. QED BY <3>1, <4>1
    <3>. HIDE DEF S
    <3>. QED BY <2>2, <3>2, FS_Product
  <2>. DEFINE f == [k \in U |-> <<k.of, k.copy>>]
  <2>4. f \in [U -> S \X BOOLEAN]
    BY <1>1 DEF StartedOf, Messages
  <2>5. \A k, l \in U : f[k] = f[l] => k = l
    <3>1. \A k, l \in Keys : k.of = l.of /\ k.copy = l.copy => k = l
      BY DEF Keys
    <3>2. \A k \in U : f[k] = <<k.of, k.copy>>
      OBVIOUS
    <3>. HIDE DEF U, f
    <3>. QED BY <1>1, <3>1, <3>2
  <2>. HIDE DEF f, U, S
  <2>6. f \in Injection(U, S \X BOOLEAN)
    BY <2>4, <2>5, Fun_IsInj
  <2>. QED BY <2>3, <2>6, FS_Injection DEF U
<1>. QED BY <1>2, <1>3 DEF U

\* So the calls of the evaluated run are those the target read, and perhaps some whose
\* writes had not ended.
LEMMA CallsAreTrue ==
    ASSUME CaptureInv, ObservedInv, Complete, NEW tool, tool # NoTool
    PROVE  Len(PhysicalCalls(CallEvents, tool)) \in MayHaveCalled(tool)
<1>. DEFINE n == Len(PhysicalCalls(CallEvents, tool))
            A == {k \in Range(received) : k.of \in Requests /\ ToolOf[k.of] = tool}
            U == UnreadOf(tool)
            K == SentOf(tool)
<1>1. n \in Nat /\ IsFiniteSet(K) /\ Cardinality(K) = n
  BY SentAreCounted
<1>2. IsFiniteSet(U)
  BY UnreadIsFinite
<1>3. A \subseteq K
  <2>. SUFFICES ASSUME NEW k \in A PROVE k \in K
    OBVIOUS
  <2>1. k \in Keys /\ k \in Read
    <3>1. received \in Seq(Frames)
      BY DEF CaptureInv, TypeInv, TypeOK, ServerType
    <3>2. k \in Frames
      BY <3>1, RangeOfSeq
    <3>. QED BY <3>2 DEF Frames, Keys, Read
  <2>2. ~log.truncated
    BY DEF Complete
  <2>3. PICK e \in Recorded : e.direction = "proxy_to_target" /\ e.id = k
    BY <2>1, <2>2 DEF CaptureInv, TrafficInv, NothingMissing
  <2>4. Sends(log, k) # {}
    BY <2>1, <2>3 DEF Recorded, Sends, IsSend, Entry
  <2>. QED BY <2>1, <2>4 DEF SentOf
<1>4. K \subseteq A \cup U
  <2>. SUFFICES ASSUME NEW k \in K, k \notin A PROVE k \in U
    OBVIOUS
  <2>1. k \in Keys /\ k.of \in Requests /\ ToolOf[k.of] = tool
    BY DEF SentOf, Keys
  <2>2. OnItsWay(k)
    BY DEF CaptureInv, SendsInv, SentOf
  <2>. QED BY <2>1, <2>2 DEF OnItsWay, UnreadOf, Read
<1>5. A \cap U = {}
  BY DEF UnreadOf
<1>6. ReallyCalled(tool) = Cardinality(A) /\ Unread(tool) = Cardinality(U)
  BY DEF ReallyCalled, Unread, UnreadOf
<1>. HIDE DEF A, U, K
<1>7. IsFiniteSet(A) /\ Cardinality(A) <= Cardinality(K)
  BY <1>1, <1>3, FS_Subset
<1>8. Cardinality(A) \in Nat /\ Cardinality(U) \in Nat /\ Cardinality({}) = 0
  BY <1>2, <1>7, FS_CardinalityType, FS_EmptySet
<1>9. IsFiniteSet(A \cup U) /\ Cardinality(A \cup U) = Cardinality(A) + Cardinality(U) - Cardinality(A \cap U)
  BY <1>2, <1>7, FS_Union
<1>10. Cardinality(K) <= Cardinality(A \cup U)
  BY <1>4, <1>9, FS_Subset
<1>11. Cardinality(A \cap U) = 0
  BY <1>5, <1>8
<1>12. n \in Cardinality(A)..(Cardinality(A) + Cardinality(U))
  <2>. HIDE DEF n
  <2>. QED BY <1>1, <1>7, <1>8, <1>9, <1>10, <1>11
<1>. QED BY <1>6, <1>12 DEF MayHaveCalled

\* A verdict on how often a tool was called is right about the target.
THEOREM CountsAreRight == EvaluationSpec => []CountsAreTrue
<1>1. ASSUME CaptureInv, ObservedInv PROVE CountsAreTrue
  <2>. SUFFICES ASSUME Complete, NEW v \in Verdicts
                PROVE  /\ v.part = "cardinality" =>
                            \E n \in MayHaveCalled(v.of.tool) :
                               (v.verdict = "passed") =
                                  CASE v.of.cardinality = "exactly_once" -> n = 1
                                    [] v.of.cardinality = "at_least_once" -> n > 0
                                    [] v.of.cardinality \in {"at_most_once", "zero_or_one"} -> n < 2
                       /\ v.part = "assertion" /\ v.of.type = "must_not_call" /\ v.of.step = Missing =>
                            \E n \in MayHaveCalled(v.of.tool) : (v.verdict = "passed") = (n = 0)
    BY DEF CountsAreTrue
  <2>1. v \in PackVerdicts(CallEvents, MergedEffects)
    BY DEF Verdicts
  <2>. DEFINE n == Len(PhysicalCalls(CallEvents, v.of.tool))
  <2>2. ASSUME v.part = "cardinality"
        PROVE  n \in MayHaveCalled(v.of.tool) /\
               (v.verdict = "passed") =
                    CASE v.of.cardinality = "exactly_once" -> n = 1
                      [] v.of.cardinality = "at_least_once" -> n > 0
                      [] v.of.cardinality \in {"at_most_once", "zero_or_one"} -> n < 2
    <3>1. PICK c \in Pack.contracts : v \in ContractVerdicts(c, CallEvents, MergedEffects)
      BY <2>1, <2>2, VerdictParts, Zenon
    <3>2. v.of = c /\ v.verdict = CardinalityVerdict(c, CallEvents)
      BY <2>2, <3>1, ContractParts
    <3>3. c.tool # NoTool
          /\ c.cardinality \in {"exactly_once", "at_least_once", "at_most_once", "zero_or_one"}
      BY EvaluationAssumption, PackAssumption
    <3>4. n \in MayHaveCalled(v.of.tool)
      BY <1>1, <3>2, <3>3, CallsAreTrue
    <3>5. n \in Nat
      BY <1>1, <3>2, <3>3, SentAreCounted
    <3>6. n = Len(PhysicalCalls(CallEvents, c.tool))
      BY <3>2
    <3>. HIDE DEF n
    <3>7. CardinalityVerdict(c, CallEvents) =
             IF CASE c.cardinality = "exactly_once" -> n = 1
                  [] c.cardinality = "at_least_once" -> n >= 1
                  [] OTHER -> n <= 1
             THEN "passed"
             ELSE IF n > 1 THEN "duplicate_transition" ELSE "missing_effect"
      BY <3>6 DEF CardinalityVerdict
    <3>8. n >= 1 <=> n > 0
      BY <3>5
    <3>9. n <= 1 <=> n < 2
      BY <3>5
    <3>. QED BY <3>2, <3>3, <3>4, <3>7, <3>8, <3>9
  <2>3. ASSUME v.part = "assertion", v.of.type = "must_not_call", v.of.step = Missing
        PROVE  n \in MayHaveCalled(v.of.tool) /\ (v.verdict = "passed") = (n = 0)
    <3>1. v.of \in Pack.assertions /\ v.verdict = Verdict(v.of, CallEvents, MergedEffects, <<>>, <<>>)
      <4>1. ASSUME NEW c, v \in ContractVerdicts(c, CallEvents, MergedEffects)
            PROVE  v.part # "assertion"
        BY <4>1, ContractParts
      <4>2. ~ (v.part = "state") /\ ~ (v.part = "state_forbidden")
        BY <2>3
      <4>. QED BY <2>1, <2>3, <4>1, <4>2, VerdictParts, Zenon
    <3>2. v.of.tool # NoTool
      BY <2>3, <3>1, EvaluationAssumption
    <3>3. n \in MayHaveCalled(v.of.tool)
      BY <1>1, <3>2, CallsAreTrue
    <3>4. v.verdict = MustNotCall(v.of, CallEvents)
      BY <2>3, <3>1 DEF Verdict
    <3>. DEFINE calls == PhysicalCalls(CallEvents, v.of.tool)
    <3>5. n \in Nat /\ DOMAIN calls = 1..n
      BY <1>1, TargetCallsListed
    <3>6. (v.verdict = "passed") <=> DOMAIN calls = {}
      BY <2>3, <3>4 DEF MustNotCall
    <3>. HIDE DEF calls, n
    <3>7. DOMAIN calls = {} <=> n = 0
      BY <3>5
    <3>. QED BY <3>3, <3>6, <3>7
  <2>. QED BY <2>2, <2>3
<1>. QED BY <1>1, CaptureInvariance, PTL

-------------------------------------------------------------------------------
(* Guided capture: what a pack takes from a capture file.                  *)

\* What a capture file can be: entries of the recording, none of them twice.
FileInv ==
    /\ recorded \in Seq([sequence: Nat, event: CapturedEvents])
    /\ \A i \in DOMAIN recorded : recorded[i].sequence = i
    /\ file \in Seq([sequence: Nat, event: CapturedEvents])
    /\ \A i \in DOMAIN file :
          file[i].sequence \in DOMAIN recorded /\ file[i] = recorded[file[i].sequence]
    /\ \A i, j \in DOMAIN file : file[i].sequence = file[j].sequence => i = j
    /\ guide = "recording" => file = recorded

\* A pack was made from the file as it is.
PackInv ==
    /\ guide \in {"recording", "edited", "refused", "written"}
    /\ guide # "written" => written = NoPack
    /\ guide = "written" => \/ \E c \in Confirmations : Confirmed(c) /\ written = GuidedPack(c)
                            \/ written = StarterPack

GuideInv == FileInv /\ PackInv

LEMMA FileStays ==
    ASSUME UNCHANGED <<recorded, file, digest>>
    PROVE  /\ \A c \in Confirmations : Confirmed(c)' <=> Confirmed(c)
           /\ \A c \in Confirmations : GuidedPack(c)' = GuidedPack(c)
           /\ StarterPack' = StarterPack
<1>1. Workflow' = Workflow /\ StarterCalls' = StarterCalls /\ Modified' = Modified
  BY DEF Workflow, StarterCalls, InOrder, Sooner, IsClientCall, CallOf, Modified
<1>2. \A t, a : Hint(t, a)' = Hint(t, a)
  BY DEF Hint, InOrder, Sooner, Declares
<1>3. \A c \in Confirmations : Confirmed(c)' <=> Confirmed(c)
  BY <1>1, <1>2 DEF Confirmed, ClassifyTool, ObserverAllowed, MutationProfiles, Selectors
<1>4. \A c \in Confirmations : GuidedPack(c)' = GuidedPack(c)
  BY <1>1 DEF GuidedPack, GuidedSteps, EffectContract
<1>5. StarterPack' = StarterPack
  BY <1>1 DEF StarterPack
<1>. QED BY <1>3, <1>4, <1>5

\* Whatever is taken from the file without taking an entry twice could be the file.
LEMMA Rearranged ==
    ASSUME FileInv, NEW f, NEW h,
           \A k \in DOMAIN f : h[k] \in DOMAIN file /\ f[k] = file[h[k]],
           \A j, k \in DOMAIN f : h[j] = h[k] => j = k
    PROVE  /\ \A i \in DOMAIN f : f[i].sequence \in DOMAIN recorded /\ f[i] = recorded[f[i].sequence]
           /\ \A i, j \in DOMAIN f : f[i].sequence = f[j].sequence => i = j
<1>1. ASSUME NEW i \in DOMAIN f
      PROVE  f[i].sequence \in DOMAIN recorded /\ f[i] = recorded[f[i].sequence]
  <2>1. h[i] \in DOMAIN file /\ f[i] = file[h[i]]
    OBVIOUS
  <2>2. \A k \in DOMAIN file :
           file[k].sequence \in DOMAIN recorded /\ file[k] = recorded[file[k].sequence]
    BY DEF FileInv
  <2>3. file[h[i]].sequence \in DOMAIN recorded /\ file[h[i]] = recorded[file[h[i]].sequence]
    BY <2>1, <2>2
  <2>. QED BY <2>1, <2>3
<1>2. ASSUME NEW i \in DOMAIN f, NEW j \in DOMAIN f, f[i].sequence = f[j].sequence
      PROVE  i = j
  <2>1. /\ h[i] \in DOMAIN file /\ f[i] = file[h[i]]
        /\ h[j] \in DOMAIN file /\ f[j] = file[h[j]]
    OBVIOUS
  <2>2. \A k, l \in DOMAIN file : file[k].sequence = file[l].sequence => k = l
    BY DEF FileInv
  <2>3. file[h[i]].sequence = file[h[j]].sequence
    BY <1>2, <2>1
  <2>4. h[i] = h[j]
    BY <2>1, <2>2, <2>3
  <2>. QED BY <2>4
<1>. QED BY <1>1, <1>2

LEMMA RecordingGrows ==
    ASSUME FileInv, NEW e \in CapturedEvents, RecordEvent(e)
    PROVE  FileInv'
<1>. DEFINE entry == [sequence |-> Len(recorded) + 1, event |-> e]
            E == [sequence: Nat, event: CapturedEvents]
<1>1. /\ recorded \in Seq(E) /\ \A i \in DOMAIN recorded : recorded[i].sequence = i
      /\ recorded' = Append(recorded, entry) /\ file' = recorded'
  BY DEF FileInv, RecordEvent
<1>2. Len(recorded) \in Nat /\ DOMAIN recorded = 1..Len(recorded)
  BY <1>1, LenProperties
<1>3. entry \in E /\ entry.sequence = Len(recorded) + 1
  BY <1>2
<1>. HIDE DEF entry, E
<1>4. /\ recorded' \in Seq(E) /\ Len(recorded') = Len(recorded) + 1
      /\ \A i \in 1..Len(recorded) : recorded'[i] = recorded[i]
      /\ recorded'[Len(recorded) + 1] = entry
  BY <1>1, <1>3, AppendProperties
<1>5. DOMAIN recorded' = 1..(Len(recorded) + 1)
  BY <1>4, LenProperties
<1>6. \A i \in DOMAIN recorded' : recorded'[i].sequence = i
  <2>. SUFFICES ASSUME NEW i \in 1..(Len(recorded) + 1) PROVE recorded'[i].sequence = i
    BY <1>5
  <2>1. CASE i = Len(recorded) + 1
    BY <1>3, <1>4, <2>1
  <2>2. CASE i # Len(recorded) + 1
    <3>1. i \in 1..Len(recorded)
      BY <1>2, <2>2
    <3>. QED BY <1>1, <1>2, <1>4, <3>1
  <2>. QED BY <2>1, <2>2
<1>. QED BY <1>1, <1>4, <1>6, SMTT(60) DEF FileInv, E

LEMMA FileIsEdited ==
    ASSUME FileInv, EditFile
    PROVE  FileInv'
<1>. DEFINE E == [sequence: Nat, event: CapturedEvents]
<1>1. /\ file \in Seq(E) /\ recorded' = recorded /\ guide' = "edited"
  BY DEF FileInv, EditFile
<1>2. Len(file) \in Nat /\ DOMAIN file = 1..Len(file)
  BY <1>1, LenProperties
<1>3. ASSUME NEW f \in Seq(E), NEW h, file' = f,
             \A k \in DOMAIN f : h[k] \in DOMAIN file /\ f[k] = file[h[k]],
             \A j, k \in DOMAIN f : h[j] = h[k] => j = k
      PROVE  FileInv'
  <2>1. /\ \A i \in DOMAIN f : f[i].sequence \in DOMAIN recorded /\ f[i] = recorded[f[i].sequence]
        /\ \A i, j \in DOMAIN f : f[i].sequence = f[j].sequence => i = j
    BY <1>3, Rearranged
  <2>. QED BY <1>1, <1>3, <2>1 DEF FileInv
<1>. HIDE DEF E
<1>4. ASSUME NEW i \in DOMAIN file, file' = RemoveAt(file, i)
      PROVE  FileInv'
  <2>. DEFINE a == SubSeq(file, 1, i - 1)
              b == SubSeq(file, i + 1, Len(file))
              f == a \o b
              h == [k \in DOMAIN f |-> IF k < i THEN k ELSE k + 1]
  <2>1. /\ a \in Seq(E) /\ Len(a) = i - 1 /\ \A k \in 1..(i - 1) : a[k] = file[k]
    BY <1>1, <1>2, SubSeqProperties
  <2>2. /\ b \in Seq(E) /\ Len(b) = Len(file) - i /\ \A k \in 1..(Len(file) - i) : b[k] = file[i + k]
    <3>1. \A k \in 1..(Len(file) - i) : i + 1 + k - 1 = i + k
      BY <1>2
    <3>. QED BY <1>1, <1>2, <3>1, SubSeqProperties, SMTT(60)
  <2>3. file' = f
    BY <1>4 DEF RemoveAt
  <2>. HIDE DEF a, b
  <2>4. /\ f \in Seq(E) /\ Len(f) = Len(file) - 1
        /\ \A k \in 1..(Len(file) - 1) : f[k] = IF k < i THEN a[k] ELSE b[k - (i - 1)]
    <3>1. \A x, y \in Seq(E) :
             /\ x \o y \in Seq(E) /\ Len(x \o y) = Len(x) + Len(y)
             /\ \A k \in 1..(Len(x) + Len(y)) :
                   (x \o y)[k] = IF k <= Len(x) THEN x[k] ELSE y[k - Len(x)]
      BY ConcatProperties
    <3>2. a \in Seq(E) /\ b \in Seq(E)
      BY <2>1, <2>2
    <3>3. /\ f \in Seq(E) /\ Len(f) = Len(a) + Len(b)
          /\ \A k \in 1..(Len(a) + Len(b)) : f[k] = IF k <= Len(a) THEN a[k] ELSE b[k - Len(a)]
      BY <3>1, <3>2, Zenon
    <3>. HIDE DEF f
    <3>4. Len(a) = i - 1 /\ Len(a) + Len(b) = Len(file) - 1
      BY <1>2, <2>1, <2>2
    <3>5. \A k \in 1..(Len(file) - 1) : f[k] = IF k <= i - 1 THEN a[k] ELSE b[k - (i - 1)]
      BY <3>3, <3>4
    <3>6. \A k \in 1..(Len(file) - 1) : k <= i - 1 <=> k < i
      BY <1>2
    <3>. QED BY <3>3, <3>4, <3>5, <3>6
  <2>. HIDE DEF f
  <2>5. DOMAIN f = 1..(Len(file) - 1)
    BY <2>4, LenProperties
  <2>6. ASSUME NEW k \in DOMAIN f PROVE h[k] \in DOMAIN file /\ f[k] = file[h[k]]
    <3>1. CASE k < i
      BY <1>2, <2>1, <2>4, <2>5, <3>1
    <3>2. CASE ~(k < i)
      <4>1. k - (i - 1) \in 1..(Len(file) - i) /\ i + (k - (i - 1)) = k + 1
        BY <1>2, <2>5, <3>2
      <4>2. f[k] = b[k - (i - 1)]
        BY <2>4, <2>5, <3>2
      <4>3. f[k] = file[k + 1]
        BY <2>2, <4>1, <4>2
      <4>. QED BY <1>2, <2>5, <3>2, <4>3
    <3>. QED BY <3>1, <3>2
  <2>7. \A j, k \in DOMAIN f : h[j] = h[k] => j = k
    BY <1>2, <2>5
  <2>. HIDE DEF h
  <2>. QED BY <1>3, <2>3, <2>4, <2>6, <2>7, ZenonT(60)
<1>5. ASSUME NEW i \in 1..(Len(file) - 1),
             file' = [file EXCEPT ![i] = file[i + 1], ![i + 1] = file[i]]
      PROVE  FileInv'
  <2>. DEFINE h == [k \in DOMAIN file |-> IF k = i THEN i + 1 ELSE IF k = i + 1 THEN i ELSE k]
              f == [k \in DOMAIN file |-> file[h[k]]]
  <2>1. \A k \in DOMAIN file : h[k] \in DOMAIN file
    BY <1>2
  <2>2. \A j, k \in DOMAIN file : h[j] = h[k] => j = k
    BY <1>2
  <2>3. file' = f
    BY <1>1, <1>2, <1>5
  <2>4. \A k \in 1..Len(file) : file[k] \in E
    BY <1>1, <1>2, ElementOfSeq
  <2>5. f \in Seq(E)
    BY <1>2, <2>1, <2>4, SeqDef
  <2>6. DOMAIN f = DOMAIN file /\ \A k \in DOMAIN f : f[k] = file[h[k]]
    OBVIOUS
  <2>. HIDE DEF h, f
  <2>. QED BY <1>3, <2>1, <2>2, <2>3, <2>5, <2>6
<1>. QED BY <1>4, <1>5 DEF EditFile

\* Every step keeps what the file and the pack are made of.
LEMMA GuideInvariance == GuideSpec => []GuideInv
<1>1. GuideInit => GuideInv
  <2>. SUFFICES ASSUME GuideInit PROVE GuideInv
    OBVIOUS
  <2>1. recorded = <<>> /\ file = <<>> /\ guide = "recording" /\ written = NoPack
    BY DEF GuideInit
  <2>2. FileInv
    BY <2>1 DEF FileInv
  <2>3. PackInv
    BY <2>1 DEF PackInv
  <2>. QED BY <2>2, <2>3 DEF GuideInv
<1>2. GuideInv /\ [GuideNext]_guideVars => GuideInv'
  <2>. SUFFICES ASSUME FileInv, PackInv, [GuideNext]_guideVars PROVE FileInv' /\ PackInv'
    BY DEF GuideInv
  <2>1. ASSUME UNCHANGED <<recorded, file>>, guide' # "recording" \/ guide' = guide PROVE FileInv'
    BY <2>1 DEF FileInv
  <2>2. ASSUME guide # "written", guide' \in {"recording", "edited"}, written' = written PROVE PackInv'
    BY <2>2 DEF PackInv
  <2>3. ASSUME NEW e \in CapturedEvents, RecordEvent(e) PROVE FileInv' /\ PackInv'
    <3>1. FileInv'
      BY <2>3, RecordingGrows
    <3>. QED BY <2>2, <2>3, <3>1 DEF RecordEvent
  <2>4. CASE EditFile
    <3>1. FileInv'
      BY <2>4, FileIsEdited
    <3>. QED BY <2>2, <2>4, <3>1 DEF EditFile
  <2>5. CASE StripDigest
    BY <2>1, <2>2, <2>5 DEF StripDigest
  <2>6. ASSUME NEW c \in Confirmations, GuideCapture(c) PROVE FileInv' /\ PackInv'
    <3>1. UNCHANGED <<recorded, file, digest>> /\ guide' \in {"written", "refused"} /\ guide # "written"
      BY <2>6 DEF GuideCapture
    <3>2. FileInv'
      BY <2>1, <3>1
    <3>3. /\ Confirmed(c)' <=> Confirmed(c)
          /\ GuidedPack(c)' = GuidedPack(c)
      BY <3>1, FileStays
    <3>4. CASE Confirmed(c)
      <4>1. guide' = "written" /\ written' = GuidedPack(c)
        BY <2>6, <3>4 DEF GuideCapture
      <4>2. Confirmed(c)' /\ written' = GuidedPack(c)'
        BY <3>3, <3>4, <4>1
      <4>. QED BY <3>2, <4>1, <4>2 DEF PackInv
    <3>5. CASE ~Confirmed(c)
      BY <2>6, <3>1, <3>2, <3>5 DEF GuideCapture, PackInv
    <3>. QED BY <3>4, <3>5
  <2>7. CASE GenerateStarter
    <3>1. UNCHANGED <<recorded, file, digest>> /\ guide' \in {"written", "refused"} /\ guide # "written"
      BY <2>7 DEF GenerateStarter
    <3>2. FileInv'
      BY <2>1, <3>1
    <3>3. StarterPack' = StarterPack
      BY <3>1, FileStays
    <3>4. guide' = "written" => written' = StarterPack'
      BY <2>7, <3>1, <3>3 DEF GenerateStarter
    <3>5. guide' # "written" => written' = written
      BY <2>7, <3>1 DEF GenerateStarter
    <3>6. guide' # "written" => written' = NoPack
      BY <3>1, <3>5 DEF PackInv
    <3>. QED BY <3>1, <3>2, <3>4, <3>6 DEF PackInv
  <2>8. CASE UNCHANGED guideVars
    <3>1. UNCHANGED <<recorded, file, digest, guide, written>>
      BY <2>8 DEF guideVars
    <3>2. /\ \A c \in Confirmations : Confirmed(c)' <=> Confirmed(c)
          /\ \A c \in Confirmations : GuidedPack(c)' = GuidedPack(c)
          /\ StarterPack' = StarterPack
      BY <3>1, FileStays
    <3>3. FileInv'
      BY <2>1, <3>1
    <3>4. guide = "written" => \/ \E c \in Confirmations : Confirmed(c)' /\ written' = GuidedPack(c)'
                               \/ written' = StarterPack'
      BY <3>1, <3>2 DEF PackInv
    <3>. QED BY <3>1, <3>3, <3>4 DEF PackInv
  <2>. QED BY <2>3, <2>4, <2>5, <2>6, <2>7, <2>8 DEF GuideNext
<1>. QED BY <1>1, <1>2, PTL DEF GuideSpec

\* Sorting a file that lost nothing gives the recording back.
LEMMA SortedIsRecorded ==
    ASSUME FileInv, Len(file) = Len(recorded)
    PROVE  /\ DOMAIN InOrder = DOMAIN recorded /\ DOMAIN file = DOMAIN recorded
           /\ \A k \in DOMAIN recorded : InOrder[k] \in DOMAIN file /\ file[InOrder[k]] = recorded[k]
<1>. DEFINE N == Len(recorded)
            P == 1..N
            m == [i \in P |-> file[i].sequence]
            p == [s \in P |-> CHOOSE i \in P : m[i] = s]
            Preceding(i) == {j \in P : Sooner(j, i)}
<1>1. N \in Nat /\ DOMAIN recorded = P /\ DOMAIN file = P
  BY LenProperties DEF FileInv
<1>2. \A i \in P : m[i] \in P /\ file[i].sequence = m[i] /\ file[i] = recorded[m[i]]
  BY <1>1 DEF FileInv
<1>3. \A i, j \in P : m[i] = m[j] => i = j
  BY <1>1 DEF FileInv
<1>4. m \in [P -> P]
  BY <1>2
<1>. HIDE DEF m
<1>5. m \in Injection(P, P)
  BY <1>3, <1>4, Fun_IsInj
<1>6. IsFiniteSet(P)
  BY <1>1, FS_Interval
<1>. HIDE DEF P
<1>7. m \in Surjection(P, P)
  BY <1>5, <1>6, FS_Injection
<1>8. \A s \in P : \E i \in P : m[i] = s
  BY <1>7, Fun_SurjectionProperties
<1>9. \A s \in P : p[s] \in P /\ m[p[s]] = s
  BY <1>8
<1>10. \A i \in P : p[m[i]] = i
  BY <1>3, <1>4, <1>9
<1>. HIDE DEF p
<1>11. \A i, j \in P : Sooner(i, j) <=> m[i] < m[j]
  <2>. SUFFICES ASSUME NEW i \in P, NEW j \in P PROVE Sooner(i, j) <=> m[i] < m[j]
    OBVIOUS
  <2>1. m[i] \in Nat /\ m[j] \in Nat
    BY <1>1, <1>2 DEF P
  <2>2. m[i] = m[j] => ~(i < j)
    BY <1>3, <1>1 DEF P
  <2>. QED BY <1>2, <2>1, <2>2 DEF Sooner
<1>12. ASSUME NEW i \in P PROVE Cardinality(Preceding(i)) = m[i] - 1
  <2>1. m[i] \in 1..N /\ m[i] - 1 \in Nat /\ \A t \in 1..(m[i] - 1) : t \in P /\ t < m[i]
    BY <1>1, <1>2 DEF P
  <2>2. \A s, t \in 1..(m[i] - 1) : p[s] = p[t] => s = t
    BY <1>9, <2>1
  <2>3. \A t \in 1..(m[i] - 1) : p[t] \in Preceding(i)
    BY <1>9, <1>11, <2>1
  <2>4. \A j \in Preceding(i) : \E t \in 1..(m[i] - 1) : p[t] = j
    <3>. SUFFICES ASSUME NEW j \in P, Sooner(j, i) PROVE \E t \in 1..(m[i] - 1) : p[t] = j
      OBVIOUS
    <3>1. m[j] < m[i] /\ m[j] \in 1..N
      BY <1>2, <1>11 DEF P
    <3>2. m[j] \in 1..(m[i] - 1)
      BY <1>1, <2>1, <3>1
    <3>. QED BY <1>10, <3>2
  <2>. HIDE DEF Preceding
  <2>. QED BY <2>1, <2>2, <2>3, <2>4, ImageCounted
<1>13. ASSUME NEW k \in P PROVE InOrder[k] = p[k]
  <2>1. p[k] \in P /\ Cardinality(Preceding(p[k])) = k - 1
    BY <1>9, <1>12
  <2>2. \A i \in P : Cardinality(Preceding(i)) = k - 1 => i = p[k]
    <3>. SUFFICES ASSUME NEW i \in P, m[i] - 1 = k - 1 PROVE i = p[k]
      BY <1>12
    <3>1. m[i] = k
      BY <1>1, <1>2 DEF P
    <3>. QED BY <1>10, <3>1
  <2>3. InOrder[k] = CHOOSE i \in P : Cardinality(Preceding(i)) = k - 1
    BY <1>1 DEF InOrder
  <2>. HIDE DEF Preceding
  <2>. QED BY <2>1, <2>2, <2>3, Zenon
<1>14. \A k \in P : file[p[k]] = recorded[k]
  BY <1>2, <1>9
<1>15. DOMAIN InOrder = P
  BY <1>1 DEF InOrder
<1>. QED BY <1>1, <1>9, <1>13, <1>14, <1>15

\* A filter that keeps the calls of the recording, in their order.
FollowsTheSession(calls) ==
    /\ Len(calls) \in Nat /\ DOMAIN calls = 1..Len(calls)
    /\ Len(calls) = Cardinality(ClientCallsUpTo(Len(recorded)))
    /\ \A i \in ClientCallsUpTo(Len(recorded)) :
          /\ Cardinality(ClientCallsUpTo(i)) \in DOMAIN calls
          /\ calls[Cardinality(ClientCallsUpTo(i))] = CallOf(recorded[i])

LEMMA ChosenFollow ==
    ASSUME FileInv, NEW s, DOMAIN s = DOMAIN recorded, Len(s) = Len(recorded),
           NEW positions, positions = {k \in DOMAIN s : IsClientCall(recorded[k])},
           NEW t, Ranked(t, s, positions),
           NEW source, \A k \in DOMAIN s : source[s[k]] = recorded[k],
           NEW calls, calls = [i \in DOMAIN t |-> CallOf(source[t[i]])]
    PROVE  FollowsTheSession(calls)
<1>. DEFINE upTo(i) == Chosen(positions, i)
<1>1. /\ Len(t) \in Nat /\ DOMAIN t = 1..Len(t)
      /\ Len(t) = Cardinality(upTo(Len(s)))
      /\ \A i \in DOMAIN s : i \in positions =>
            /\ Cardinality(upTo(i)) \in DOMAIN t
            /\ t[Cardinality(upTo(i))] = s[i]
  BY DEF Ranked
<1>2. Len(s) \in Nat /\ DOMAIN s = 1..Len(s)
  BY LenProperties DEF FileInv
<1>3. ASSUME NEW i \in 0..Len(s) PROVE ClientCallsUpTo(i) = upTo(i)
  BY <1>2 DEF ClientCallsUpTo, Chosen
<1>4. \A k \in DOMAIN t : calls[k] = CallOf(source[t[k]])
  OBVIOUS
<1>. HIDE DEF upTo
<1>5. DOMAIN calls = 1..Len(t) /\ calls = [i \in 1..Len(t) |-> calls[i]]
  BY <1>1
<1>6. Len(calls) = Len(t)
  BY <1>1, <1>5, FromOneTo
<1>7. Len(calls) = Cardinality(ClientCallsUpTo(Len(recorded)))
  BY <1>1, <1>2, <1>3, <1>6
<1>8. ASSUME NEW i \in ClientCallsUpTo(Len(recorded))
      PROVE  /\ Cardinality(ClientCallsUpTo(i)) \in DOMAIN calls
             /\ calls[Cardinality(ClientCallsUpTo(i))] = CallOf(recorded[i])
  <2>1. i \in DOMAIN s /\ i \in positions /\ i \in 0..Len(s)
    BY <1>2 DEF ClientCallsUpTo
  <2>2. Cardinality(ClientCallsUpTo(i)) = Cardinality(upTo(i))
    BY <1>3, <2>1
  <2>3. Cardinality(upTo(i)) \in DOMAIN t /\ t[Cardinality(upTo(i))] = s[i]
    BY <1>1, <2>1
  <2>4. source[s[i]] = recorded[i]
    BY <2>1
  <2>5. calls[Cardinality(upTo(i))] = CallOf(recorded[i])
    BY <1>4, <2>3, <2>4
  <2>6. DOMAIN calls = DOMAIN t
    OBVIOUS
  <2>. QED BY <2>2, <2>3, <2>5, <2>6
<1>. QED BY <1>1, <1>5, <1>6, <1>7, <1>8 DEF FollowsTheSession

LEMMA WorkflowFollows ==
    ASSUME FileInv, Len(file) = Len(recorded)
    PROVE  FollowsTheSession(Workflow)
<1>. DEFINE positions == {k \in DOMAIN InOrder : IsClientCall(file[InOrder[k]])}
            t == Selection(InOrder, positions)
<1>1. /\ DOMAIN InOrder = DOMAIN recorded /\ DOMAIN file = DOMAIN recorded
      /\ \A k \in DOMAIN recorded : InOrder[k] \in DOMAIN file /\ file[InOrder[k]] = recorded[k]
  BY SortedIsRecorded
<1>2. Len(recorded) \in Nat /\ DOMAIN recorded = 1..Len(recorded)
  BY LenProperties DEF FileInv
<1>3. InOrder = [k \in 1..Len(recorded) |-> InOrder[k]]
  <2>. DEFINE at(k) == CHOOSE i \in DOMAIN file : Cardinality({j \in DOMAIN file : Sooner(j, i)}) = k - 1
  <2>1. InOrder = [k \in DOMAIN file |-> at(k)]
    BY DEF InOrder
  <2>. HIDE DEF at
  <2>. QED BY <1>1, <1>2, <2>1
<1>4. InOrder \in Seq({InOrder[k] : k \in 1..Len(recorded)}) /\ Len(InOrder) = Len(recorded)
  BY <1>1, <1>2, <1>3, FromOneTo
<1>5. positions = {k \in DOMAIN InOrder : IsClientCall(recorded[k])}
  BY <1>1
<1>6. Workflow = [i \in DOMAIN t |-> CallOf(file[t[i]])]
  BY DEF Workflow
<1>. HIDE DEF positions
<1>7. Ranked(t, InOrder, positions)
  BY <1>4, SelectionRanks
<1>8. \A k \in DOMAIN InOrder : file[InOrder[k]] = recorded[k]
  BY <1>1
<1>. HIDE DEF t
<1>9. DOMAIN InOrder = DOMAIN recorded /\ Len(InOrder) = Len(recorded)
  BY <1>1, <1>4
<1>10. ASSUME NEW s, NEW p, s = InOrder, p = positions, Ranked(t, s, p)
       PROVE  FollowsTheSession(Workflow)
  BY <1>5, <1>6, <1>8, <1>9, <1>10, ChosenFollow
<1>. QED BY <1>7, <1>10

LEMMA StarterFollows ==
    ASSUME FileInv, file = recorded
    PROVE  FollowsTheSession(StarterCalls)
<1>. DEFINE positions == {i \in DOMAIN file : IsClientCall(file[i])}
            t == Selection(file, positions)
            E == [sequence: Nat, event: CapturedEvents]
            source == [e \in E |-> e]
<1>1. file \in Seq(E)
  BY DEF FileInv
<1>2. StarterCalls = [i \in DOMAIN t |-> CallOf(t[i])]
  BY DEF StarterCalls
<1>3. \A k \in DOMAIN file : file[k] \in E
  BY <1>1, LenProperties, ElementOfSeq
<1>4. t \in Seq(E)
  BY <1>1, SelectionLists
<1>. HIDE DEF t
<1>5. \A i \in DOMAIN t : t[i] \in E
  BY <1>4, LenProperties, ElementOfSeq
<1>. HIDE DEF E
<1>6. \A k \in DOMAIN file : source[file[k]] = recorded[k]
  BY <1>3
<1>7. StarterCalls = [i \in DOMAIN t |-> CallOf(source[t[i]])]
  BY <1>2, <1>5
<1>8. positions = {k \in DOMAIN file : IsClientCall(recorded[k])}
  OBVIOUS
<1>. HIDE DEF positions, source
<1>9. Ranked(t, file, positions)
  BY <1>1, SelectionRanks DEF t
<1>. QED BY <1>6, <1>7, <1>8, <1>9, ChosenFollow

LEMMA WrittenPack ==
    ASSUME GuideInv, guide = "written"
    PROVE  \/ /\ written = StarterPack /\ written.by = "starter"
              /\ ~written.warned => digest /\ file = recorded
           \/ \E c \in Confirmations :
                 /\ Confirmed(c) /\ written = GuidedPack(c) /\ written.by = "guide"
                 /\ digest /\ ~written.warned => file = recorded
<1>1. CASE written = StarterPack
  <2>1. written.by = "starter" /\ (written.warned <=> Modified \/ ~digest)
    BY <1>1 DEF StarterPack
  <2>. QED BY <1>1, <2>1 DEF Modified
<1>2. ASSUME NEW c \in Confirmations, Confirmed(c), written = GuidedPack(c)
      PROVE  /\ Confirmed(c) /\ written = GuidedPack(c) /\ written.by = "guide"
             /\ digest /\ ~written.warned => file = recorded
  <2>1. written.by = "guide" /\ (written.warned <=> Modified)
    BY <1>2 DEF GuidedPack
  <2>. QED BY <1>2, <2>1 DEF Modified
<1>. QED BY <1>1, <1>2 DEF GuideInv, PackInv

\* The steps of a pack, whatever their retry policy, are the calls it was made from.
StepsAre(calls) ==
    /\ DOMAIN written.steps = DOMAIN calls /\ Len(written.steps) = Len(calls)
    /\ \A n \in DOMAIN calls :
          written.steps[n].tool = calls[n].tool /\ written.steps[n].args = calls[n].args

LEMMA StepsFollow ==
    ASSUME NEW calls, FollowsTheSession(calls), StepsAre(calls)
    PROVE  ReplaysTheSession
<1>. SUFFICES ASSUME NEW i \in ClientCallsUpTo(Len(recorded))
              PROVE  LET step == written.steps[Cardinality(ClientCallsUpTo(i))] IN
                     step.tool = recorded[i].event.tool /\ step.args = recorded[i].event.args
  BY DEF ReplaysTheSession, FollowsTheSession, StepsAre
<1>. DEFINE n == Cardinality(ClientCallsUpTo(i))
<1>1. n \in DOMAIN calls /\ calls[n] = CallOf(recorded[i])
  BY DEF FollowsTheSession
<1>. HIDE DEF n
<1>2. calls[n].tool = recorded[i].event.tool /\ calls[n].args = recorded[i].event.args
  BY <1>1 DEF CallOf
<1>3. written.steps[n].tool = calls[n].tool /\ written.steps[n].args = calls[n].args
  BY <1>1 DEF StepsAre
<1>. QED BY <1>2, <1>3 DEF n

LEMMA StepsOfGuide ==
    ASSUME NEW c, written = GuidedPack(c), Len(Workflow) \in Nat, DOMAIN Workflow = 1..Len(Workflow)
    PROVE  StepsAre(Workflow)
<1>. DEFINE w == Workflow
            first(i) == w[i].tool = c.target /\ \A j \in 1..(i - 1) : w[j].tool # c.target
            attempts(i) == IF first(i) THEN MaxAttempts(c.profile) ELSE 1
            step(i) == [tool |-> w[i].tool, args |-> w[i].args, attempts |-> attempts(i)]
<1>1. written.steps = [i \in DOMAIN w |-> step(i)]
  BY DEF GuidedPack, GuidedSteps
<1>2. \A i : step(i).tool = w[i].tool /\ step(i).args = w[i].args
  OBVIOUS
<1>. HIDE DEF step, w
<1>3. /\ DOMAIN written.steps = 1..Len(w) /\ DOMAIN w = 1..Len(w) /\ Len(w) \in Nat
      /\ written.steps = [i \in 1..Len(w) |-> written.steps[i]]
      /\ \A i \in DOMAIN w : written.steps[i] = step(i)
  BY <1>1 DEF w
<1>4. Len(written.steps) = Len(w)
  BY <1>3, FromOneTo
<1>5. \A i \in DOMAIN w : written.steps[i].tool = w[i].tool /\ written.steps[i].args = w[i].args
  BY <1>2, <1>3
<1>. QED BY <1>3, <1>4, <1>5 DEF StepsAre, w

LEMMA StepsOfStarter ==
    ASSUME written = StarterPack, Len(StarterCalls) \in Nat, DOMAIN StarterCalls = 1..Len(StarterCalls)
    PROVE  StepsAre(StarterCalls)
<1>. DEFINE w == StarterCalls
            step(i) == [tool |-> w[i].tool, args |-> w[i].args, attempts |-> 1]
<1>1. written.steps = [i \in DOMAIN w |-> step(i)]
  BY DEF StarterPack
<1>2. \A i : step(i).tool = w[i].tool /\ step(i).args = w[i].args
  OBVIOUS
<1>. HIDE DEF step, w
<1>3. /\ DOMAIN written.steps = 1..Len(w) /\ DOMAIN w = 1..Len(w) /\ Len(w) \in Nat
      /\ written.steps = [i \in 1..Len(w) |-> written.steps[i]]
      /\ \A i \in DOMAIN w : written.steps[i] = step(i)
  BY <1>1 DEF w
<1>4. Len(written.steps) = Len(w)
  BY <1>3, FromOneTo
<1>5. \A i \in DOMAIN w : written.steps[i].tool = w[i].tool /\ written.steps[i].args = w[i].args
  BY <1>2, <1>3
<1>. QED BY <1>3, <1>4, <1>5 DEF StepsAre, w

LEMMA CallsAreReplayed ==
    ASSUME GuideInv
    PROVE  ReplaysTheSession
<1>. SUFFICES ASSUME guide = "written",
                     \/ ~written.warned /\ (written.by = "starter" \/ digest)
                     \/ written.by = "guide" /\ Len(file) = Len(recorded)
              PROVE  ReplaysTheSession
  BY DEF ReplaysTheSession
<1>1. CASE written = StarterPack /\ written.by = "starter" /\ (~written.warned => digest /\ file = recorded)
  <2>1. FollowsTheSession(StarterCalls)
    BY <1>1, StarterFollows DEF GuideInv
  <2>2. StepsAre(StarterCalls)
    BY <1>1, <2>1, StepsOfStarter DEF FollowsTheSession
  <2>. QED BY <2>1, <2>2, StepsFollow
<1>2. ASSUME NEW c \in Confirmations, Confirmed(c), written = GuidedPack(c), written.by = "guide",
             digest /\ ~written.warned => file = recorded
      PROVE  ReplaysTheSession
  <2>1. FollowsTheSession(Workflow)
    BY <1>2, WorkflowFollows DEF GuideInv
  <2>2. StepsAre(Workflow)
    BY <1>2, <2>1, StepsOfGuide DEF FollowsTheSession
  <2>. QED BY <2>1, <2>2, StepsFollow
<1>. QED BY <1>1, <1>2, WrittenPack

\* The declaration of a hint that counts is the last one of the recording.
LEMMA HintIsLast ==
    ASSUME FileInv, Len(file) = Len(recorded), NEW tool, NEW annotation
    PROVE  \/ /\ Hint(tool, annotation) = "unset"
              /\ \A i \in DOMAIN recorded : ~Declares(recorded[i], tool, annotation)
           \/ \E i \in DOMAIN recorded :
                 /\ Declares(recorded[i], tool, annotation)
                 /\ Hint(tool, annotation) = recorded[i].event.tools[tool][annotation]
                 /\ \A j \in DOMAIN recorded : Declares(recorded[j], tool, annotation) => j <= i
<1>. DEFINE positions == {k \in DOMAIN InOrder : Declares(file[InOrder[k]], tool, annotation)}
            t == Selection(InOrder, positions)
            N == Len(recorded)
<1>1. /\ DOMAIN InOrder = DOMAIN recorded /\ DOMAIN file = DOMAIN recorded
      /\ \A k \in DOMAIN recorded : InOrder[k] \in DOMAIN file /\ file[InOrder[k]] = recorded[k]
  BY SortedIsRecorded
<1>2. N \in Nat /\ DOMAIN recorded = 1..N
  BY LenProperties DEF FileInv
<1>3. InOrder = [k \in 1..N |-> InOrder[k]]
  <2>. DEFINE at(k) == CHOOSE i \in DOMAIN file : Cardinality({j \in DOMAIN file : Sooner(j, i)}) = k - 1
  <2>1. InOrder = [k \in DOMAIN file |-> at(k)]
    BY DEF InOrder
  <2>. HIDE DEF at
  <2>. QED BY <1>1, <1>2, <2>1
<1>4. InOrder \in Seq({InOrder[k] : k \in 1..N})
  BY <1>1, <1>2, <1>3, FromOneTo
<1>5. positions = {k \in DOMAIN InOrder : Declares(recorded[k], tool, annotation)}
  BY <1>1
<1>6. Hint(tool, annotation) = IF t = <<>> THEN "unset" ELSE file[t[Len(t)]].event.tools[tool][annotation]
  BY DEF Hint, Last
<1>. HIDE DEF positions
<1>7. /\ t = <<>> => \A i \in DOMAIN InOrder : i \notin positions
      /\ t # <<>> => \E i \in DOMAIN InOrder :
                        /\ i \in positions /\ t[Len(t)] = InOrder[i]
                        /\ \A j \in DOMAIN InOrder : j \in positions => j <= i
  BY <1>4, LastSelected
<1>. HIDE DEF t
<1>8. CASE t = <<>>
  BY <1>1, <1>5, <1>6, <1>7, <1>8
<1>9. CASE t # <<>>
  <2>1. PICK i \in DOMAIN InOrder :
           /\ i \in positions /\ t[Len(t)] = InOrder[i]
           /\ \A j \in DOMAIN InOrder : j \in positions => j <= i
    BY <1>7, <1>9
  <2>2. i \in DOMAIN recorded /\ Declares(recorded[i], tool, annotation)
    BY <1>1, <1>5, <2>1
  <2>3. file[t[Len(t)]] = recorded[i]
    BY <1>1, <2>1, <2>2
  <2>4. Hint(tool, annotation) = recorded[i].event.tools[tool][annotation]
    BY <1>6, <1>9, <2>3
  <2>5. \A j \in DOMAIN recorded : Declares(recorded[j], tool, annotation) => j <= i
    BY <1>1, <1>5, <2>1
  <2>. QED BY <2>2, <2>4, <2>5
<1>. QED BY <1>8, <1>9

LEMMA HintTellsTheDeclaration ==
    ASSUME FileInv, Len(file) = Len(recorded), NEW tool
    PROVE  /\ Hint(tool, "readOnly") = "true" => DeclaredReadOnly(tool)
           /\ (\E c \in Confirmations : c.target = tool) /\ DeclaredReadOnly(tool) =>
                 Hint(tool, "readOnly") = "true"
<1>. DEFINE R(i) == recorded[i].event.tools[tool].readOnly
            D(i) == Declares(recorded[i], tool, "readOnly")
            L == {i \in DOMAIN recorded : recorded[i].event.what = "listing"}
<1>1. /\ DOMAIN recorded \subseteq Nat
      /\ \A i \in DOMAIN recorded : D(i) <=> i \in L /\ R(i) # "unset"
  <2>1. DOMAIN recorded \subseteq Nat
    BY LenProperties DEF FileInv
  <2>. QED BY <2>1 DEF Declares
<1>2. DeclaredReadOnly(tool) <=>
        \E i \in L : R(i) = "true" /\ \A j \in L : j > i => R(j) # "false"
  BY DEF DeclaredReadOnly
<1>3. \/ Hint(tool, "readOnly") = "unset" /\ \A i \in DOMAIN recorded : ~D(i)
      \/ \E i \in DOMAIN recorded :
            D(i) /\ Hint(tool, "readOnly") = R(i) /\ \A j \in DOMAIN recorded : D(j) => j <= i
  BY HintIsLast
<1>4. ASSUME NEW c \in Confirmations, c.target = tool, NEW i \in L PROVE R(i) \in {"true", "false", "unset"}
  <2>1. recorded[i].event \in CapturedEvents
    <3>. DEFINE E == [sequence: Nat, event: CapturedEvents]
    <3>1. recorded \in Seq(E)
      BY DEF FileInv
    <3>. HIDE DEF E
    <3>2. i \in 1..Len(recorded)
      BY <3>1, LenProperties
    <3>3. recorded[i] \in E
      BY <3>1, <3>2, ElementOfSeq
    <3>. QED BY <3>3 DEF E
  <2>2. recorded[i].event.what = "listing"
    OBVIOUS
  <2>. QED BY <1>4, <2>1, <2>2, GuidedAssumption
<1>. HIDE DEF R, D
<1>5. ASSUME Hint(tool, "readOnly") = "true" PROVE DeclaredReadOnly(tool)
  <2>1. PICK i \in DOMAIN recorded : D(i) /\ R(i) = "true" /\ \A j \in DOMAIN recorded : D(j) => j <= i
    BY <1>3, <1>5
  <2>2. i \in L
    BY <1>1, <2>1
  <2>3. ASSUME NEW j \in L, j > i PROVE R(j) # "false"
    <3>1. ~D(j)
      BY <1>1, <2>1, <2>3
    <3>. QED BY <1>1, <3>1
  <2>. QED BY <1>2, <2>1, <2>2, <2>3
<1>6. ASSUME NEW c \in Confirmations, c.target = tool, DeclaredReadOnly(tool)
      PROVE  Hint(tool, "readOnly") = "true"
  <2>1. PICK i \in L : R(i) = "true" /\ \A j \in L : j > i => R(j) # "false"
    BY <1>2, <1>6
  <2>2. i \in DOMAIN recorded /\ D(i)
    BY <1>1, <2>1
  <2>3. PICK l \in DOMAIN recorded :
           D(l) /\ Hint(tool, "readOnly") = R(l) /\ \A j \in DOMAIN recorded : D(j) => j <= l
    BY <1>3, <2>2
  <2>4. l \in L /\ R(l) # "unset" /\ R(l) \in {"true", "false", "unset"}
    BY <1>1, <1>4, <1>6, <2>3
  <2>5. l = i \/ l > i
    BY <1>1, <2>2, <2>3
  <2>6. R(l) # "false"
    BY <2>1, <2>4, <2>5
  <2>. QED BY <2>3, <2>4, <2>6
<1>. QED BY <1>5, <1>6

LEMMA RolesFollow ==
    ASSUME GuideInv
    PROVE  RolesAreDeclared
<1>. SUFFICES ASSUME written.by = "guide", Len(file) = Len(recorded) \/ (digest /\ ~written.warned)
              PROVE  /\ written.observer = "command" \/ DeclaredReadOnly(written.observer)
                     /\ ~DeclaredReadOnly(written.target)
  BY DEF RolesAreDeclared
<1>1. guide = "written"
  BY DEF GuideInv, PackInv, NoPack
<1>2. PICK c \in Confirmations :
         /\ Confirmed(c) /\ written = GuidedPack(c)
         /\ digest /\ ~written.warned => file = recorded
  BY <1>1, WrittenPack
<1>3. FileInv /\ Len(file) = Len(recorded)
  BY <1>2 DEF GuideInv
<1>4. written.observer = c.observer /\ written.target = c.target
  BY <1>2 DEF GuidedPack
<1>5. c.observer = "command" \/ Hint(c.observer, "readOnly") = "true"
  BY <1>2 DEF Confirmed, ObserverAllowed
<1>6. Hint(c.target, "readOnly") # "true"
  BY <1>2 DEF Confirmed, ClassifyTool
<1>. QED BY <1>3, <1>4, <1>5, <1>6, HintTellsTheDeclaration

LEMMA PackFollows == GuideInv => PackFollowsTheSession
BY CallsAreReplayed, RolesFollow DEF PackFollowsTheSession

\* The calls of a tool among the events of a replay.
Hits(events, tool) == {i \in DOMAIN events : events[i].tool = tool}

LEMMA CallsAreHits ==
    ASSUME NEW n \in Nat, NEW events, DOMAIN events = 1..n, events = [i \in 1..n |-> events[i]],
           \A i \in 1..n : events[i].physical /\ events[i].kind # "effect_probe",
           NEW tool
    PROVE  Len(PhysicalCalls(events, tool)) = Cardinality(Hits(events, tool))
<1>. DEFINE positions == {i \in DOMAIN events :
                events[i].tool = tool /\ events[i].physical /\ events[i].kind # "effect_probe"}
            t == Selection(events, positions)
<1>1. events \in Seq({events[i] : i \in 1..n}) /\ Len(events) = n
  BY FromOneTo
<1>2. positions = Hits(events, tool)
  BY DEF Hits
<1>3. t = PhysicalCalls(events, tool)
  BY DEF PhysicalCalls
<1>. HIDE DEF positions
<1>4. Ranked(t, events, positions)
  BY <1>1, SelectionRanks
<1>. HIDE DEF t
<1>5. Len(t) = Cardinality(Chosen(positions, n))
  BY <1>1, <1>4 DEF Ranked
<1>6. Chosen(positions, n) = Hits(events, tool)
  BY <1>2 DEF Chosen, Hits
<1>. QED BY <1>3, <1>5, <1>6

LEMMA CallsAreCounted ==
    ASSUME NEW events, NEW tool, NEW exactly \in Nat
    PROVE  CallCount(CallCountOf(tool, exactly), events) =
              IF Len(PhysicalCalls(events, tool)) = exactly THEN "passed" ELSE "assertion_failure"
<1>. DEFINE a == CallCountOf(tool, exactly)
<1>8. a.tool = tool /\ a.atMost = Undefined /\ a.exactly = exactly /\ exactly # Undefined
  BY DEF CallCountOf, Undefined
<1>. HIDE DEF a
<1>9. CallCount(a, events) = IF Len(PhysicalCalls(events, tool)) = exactly THEN "passed" ELSE "assertion_failure"
  BY <1>8 DEF CallCount
<1>. QED BY <1>9 DEF a

LEMMA ReplayIsCounted ==
    ASSUME NEW calls, Len(calls) \in Nat, DOMAIN calls = 1..Len(calls), StepsAre(calls), NEW tool
    PROVE  /\ IsFiniteSet(Hits(calls, tool)) /\ Occurrences(calls, tool) = Cardinality(Hits(calls, tool))
           /\ Occurrences(calls, tool) \in Nat
           /\ Len(PhysicalCalls(ControlReplay, tool)) = Occurrences(calls, tool)
           /\ \A kind \in {"duplicate", "retry"} :
                 Len(PhysicalCalls(Append(ControlReplay, ReplayEvent(tool, kind)), tool))
                    = Occurrences(calls, tool) + 1
<1>. DEFINE n == Len(calls)
            H == Hits(calls, tool)
            o == Occurrences(calls, tool)
<1>1. IsFiniteSet(H) /\ o = Cardinality(H) /\ o \in Nat /\ H \subseteq 1..n
  <2>1. IsFiniteSet(1..n)
    BY FS_Interval
  <2>2. H \subseteq 1..n
    BY DEF Hits
  <2>3. IsFiniteSet(H) /\ Cardinality(H) \in Nat
    BY <2>1, <2>2, FS_Subset, FS_CardinalityType
  <2>. QED BY <2>2, <2>3 DEF Occurrences, Hits
<1>2. /\ DOMAIN ControlReplay = 1..n
      /\ ControlReplay = [i \in 1..n |-> ControlReplay[i]]
      /\ \A i \in 1..n : ControlReplay[i] = ReplayEvent(calls[i].tool, "step")
  BY DEF ControlReplay, StepsAre
<1>3. \A t, k : /\ ReplayEvent(t, k).tool = t /\ ReplayEvent(t, k).physical
                /\ ReplayEvent(t, k).kind = k
  BY DEF ReplayEvent
<1>4. Hits(ControlReplay, tool) = H
  BY <1>2, <1>3 DEF Hits
<1>5. \A i \in 1..n : ControlReplay[i].physical /\ ControlReplay[i].kind # "effect_probe"
  BY <1>2, <1>3
<1>6. Len(PhysicalCalls(ControlReplay, tool)) = o
  <2>. HIDE DEF H, o
  <2>. QED BY <1>1, <1>2, <1>4, <1>5, CallsAreHits
<1>7. ASSUME NEW kind \in {"duplicate", "retry"}
      PROVE  Len(PhysicalCalls(Append(ControlReplay, ReplayEvent(tool, kind)), tool)) = o + 1
  <2>. DEFINE e == ReplayEvent(tool, kind)
              S == {ControlReplay[i] : i \in 1..n} \cup {e}
              f == Append(ControlReplay, e)
              T == H \cup {n + 1}
  <2>1. ControlReplay \in Seq(S) /\ Len(ControlReplay) = n /\ e \in S
    <3>1. \A i \in 1..n : ControlReplay[i] \in S
      OBVIOUS
    <3>2. ControlReplay \in [1..n -> S]
      <4>. HIDE DEF S
      <4>. QED BY <1>2, <3>1
    <3>3. Len(ControlReplay) = n
      BY <1>2, FromOneTo
    <3>. HIDE DEF S
    <3>4. ControlReplay \in Seq(S)
      BY <3>2, SeqDef
    <3>. QED BY <3>3, <3>4 DEF S
  <2>2. e.tool = tool /\ e.physical /\ e.kind # "effect_probe"
    BY <1>3
  <2>. HIDE DEF S, e
  <2>3. f \in Seq(S) /\ Len(f) = n + 1 /\ f[n + 1] = e /\ \A i \in 1..n : f[i] = ControlReplay[i]
    BY <2>1, AppendProperties
  <2>4. DOMAIN f = 1..(n + 1) /\ f = [i \in 1..(n + 1) |-> f[i]]
    <3>. HIDE DEF f
    <3>1. f \in [1..Len(f) -> S]
      BY <2>3, LenProperties
    <3>. QED BY <2>3, <3>1
  <2>. HIDE DEF f
  <2>5. \A i \in 1..(n + 1) : i = n + 1 \/ i \in 1..n
    OBVIOUS
  <2>6. \A i \in 1..(n + 1) : f[i].physical /\ f[i].kind # "effect_probe"
    BY <1>5, <2>2, <2>3, <2>5
  <2>7. Hits(f, tool) = T
    <3>1. \A i \in 1..n : i \in H <=> ControlReplay[i].tool = tool
      BY <1>2, <1>4 DEF Hits
    <3>2. n + 1 \notin H /\ n + 1 \in 1..(n + 1) /\ 1..n \subseteq 1..(n + 1) /\ n + 1 \notin 1..n
      BY <1>1
    <3>. HIDE DEF H
    <3>3. ASSUME NEW i \in 1..(n + 1) PROVE f[i].tool = tool <=> i \in T
      <4>1. CASE i = n + 1
        BY <2>2, <2>3, <4>1
      <4>2. CASE i \in 1..n
        BY <2>3, <3>1, <3>2, <4>2
      <4>. QED BY <2>5, <4>1, <4>2
    <3>4. T \subseteq 1..(n + 1)
      BY <1>1, <3>2
    <3>. HIDE DEF T
    <3>. QED BY <2>4, <3>3, <3>4 DEF Hits
  <2>8. Cardinality(T) = o + 1
    <3>1. n + 1 \notin H
      BY <1>1
    <3>. HIDE DEF H, o
    <3>. QED BY <1>1, <3>1, FS_AddElement
  <2>9. n + 1 \in Nat
    BY <1>1
  <2>. HIDE DEF T, o
  <2>10. Len(PhysicalCalls(f, tool)) = Cardinality(Hits(f, tool))
    BY <2>4, <2>6, <2>9, CallsAreHits
  <2>. QED BY <2>7, <2>8, <2>10 DEF f, e
<1>. QED BY <1>1, <1>6, <1>7

LEMMA StarterIsSequence ==
    ASSUME FileInv
    PROVE  Len(StarterCalls) \in Nat /\ DOMAIN StarterCalls = 1..Len(StarterCalls)
<1>. DEFINE t == Selection(file, {i \in DOMAIN file : IsClientCall(file[i])})
            E == [sequence: Nat, event: CapturedEvents]
<1>1. file \in Seq(E)
  BY DEF FileInv
<1>. HIDE DEF E
<1>2. t \in Seq(E)
  BY <1>1, SelectionLists
<1>3. StarterCalls = [i \in DOMAIN t |-> CallOf(t[i])]
  BY DEF StarterCalls
<1>. HIDE DEF t
<1>. QED BY <1>2, <1>3, FromDomain

LEMMA WorkflowIsSequence ==
    ASSUME FileInv
    PROVE  Len(Workflow) \in Nat /\ DOMAIN Workflow = 1..Len(Workflow)
<1>. DEFINE t == Selection(InOrder, {k \in DOMAIN InOrder : IsClientCall(file[InOrder[k]])})
            at(k) == CHOOSE i \in DOMAIN file : Cardinality({j \in DOMAIN file : Sooner(j, i)}) = k - 1
            n == Len(file)
            S == {InOrder[k] : k \in 1..n}
<1>1. n \in Nat /\ DOMAIN file = 1..n
  BY LenProperties DEF FileInv
<1>2. InOrder = [k \in DOMAIN file |-> at(k)]
  BY DEF InOrder
<1>. HIDE DEF at
<1>3. InOrder \in Seq(S)
  BY <1>1, <1>2, FromOneTo
<1>. HIDE DEF S
<1>4. t \in Seq(S)
  BY <1>3, SelectionLists
<1>5. Workflow = [i \in DOMAIN t |-> CallOf(file[t[i]])]
  BY DEF Workflow
<1>. HIDE DEF t
<1>. QED BY <1>4, <1>5, FromDomain

\* The replay with the fault of a guided pack has one call more.
LEMMA FaultAddsACall ==
    ASSUME GuideInv, NEW c \in Confirmations, Confirmed(c), written = GuidedPack(c),
           NEW fault \in written.mutations
    PROVE  \E kind \in {"duplicate", "retry"} :
              FaultyReplay(fault) = Append(ControlReplay, ReplayEvent(c.target, kind))
<1>. DEFINE w == Workflow
            type == MutationOfProfile(c.profile)
<1>1. fault.type = type /\ fault.tool = c.target
  BY DEF GuidedPack
<1>2. Len(w) \in Nat /\ DOMAIN w = 1..Len(w)
  BY WorkflowIsSequence DEF GuideInv
<1>3. StepsAre(w)
  BY <1>2, StepsOfGuide
<1>4. Hits(w, c.target) # {}
  <2>1. /\ IsFiniteSet(Hits(w, c.target))
        /\ Occurrences(w, c.target) = Cardinality(Hits(w, c.target))
    BY <1>2, <1>3, ReplayIsCounted
  <2>2. Cardinality(Hits(w, c.target)) > 0
    BY <2>1 DEF Confirmed
  <2>. QED BY <2>2, FS_EmptySet
<1>5. CASE type = "duplicate_call"
  <2>1. FaultyReplay(fault) = Append(ControlReplay, ReplayEvent(c.target, "duplicate"))
    BY <1>1, <1>5 DEF FaultyReplay
  <2>. QED BY <2>1
<1>6. CASE type # "duplicate_call"
  <2>1. c.profile # "duplicate-delivery"
    BY <1>6 DEF MutationOfProfile
  <2>2. MaxAttempts(c.profile) = 2
    BY <2>1 DEF MaxAttempts
  <2>. DEFINE steps == written.steps
              First(n) == steps[n].tool = c.target /\ \A m \in 1..(n - 1) : steps[m].tool # c.target
              hit == CHOOSE n \in DOMAIN steps : First(n)
  <2>3. DOMAIN steps = 1..Len(w) /\ \A n \in 1..Len(w) : steps[n].tool = w[n].tool
    BY <1>2, <1>3 DEF StepsAre
  <2>4. \E n \in DOMAIN steps : First(n)
    <3>1. Hits(w, c.target) \subseteq Nat
      BY <1>2 DEF Hits
    <3>2. PICK n \in Hits(w, c.target) : \A m \in Hits(w, c.target) : n <= m
      BY <1>4, <3>1, LeastElement
    <3>3. n \in 1..Len(w) /\ w[n].tool = c.target
      BY <1>2 DEF Hits
    <3>4. ASSUME NEW m \in 1..(n - 1) PROVE w[m].tool # c.target /\ m \in 1..Len(w)
      <4>1. m \in 1..Len(w) /\ ~(n <= m)
        BY <1>2, <3>3
      <4>. QED BY <1>2, <3>2, <4>1 DEF Hits
    <3>5. First(n)
      BY <2>3, <3>3, <3>4
    <3>. QED BY <2>3, <3>3, <3>5
  <2>5. hit \in DOMAIN steps /\ First(hit)
    <3>. HIDE DEF First
    <3>. QED BY <2>4, Zenon
  <2>. HIDE DEF hit
  <2>6. steps[hit].attempts = 2
    <3>. DEFINE first(i) == w[i].tool = c.target /\ \A j \in 1..(i - 1) : w[j].tool # c.target
    <3>1. hit \in 1..Len(w) /\ \A m \in 1..(hit - 1) : m \in 1..Len(w)
      BY <1>2, <2>3, <2>5
    <3>2. first(hit)
      BY <2>3, <2>5, <3>1
    <3>3. steps = [i \in DOMAIN w |->
                      [ tool |-> w[i].tool, args |-> w[i].args,
                        attempts |-> IF first(i) THEN MaxAttempts(c.profile) ELSE 1 ]]
      BY DEF GuidedPack, GuidedSteps
    <3>. HIDE DEF first
    <3>4. steps[hit].attempts = MaxAttempts(c.profile)
      BY <1>2, <3>1, <3>2, <3>3
    <3>. QED BY <2>2, <3>4
  <2>7. FaultyReplay(fault) =
           IF steps[hit].attempts > 1
           THEN Append(ControlReplay, ReplayEvent(c.target, "retry")) ELSE ControlReplay
    BY <1>1, <1>6 DEF FaultyReplay, hit
  <2>8. FaultyReplay(fault) = Append(ControlReplay, ReplayEvent(c.target, "retry"))
    BY <2>6, <2>7
  <2>. QED BY <2>8
<1>. QED BY <1>5, <1>6

\* What the contract of a guided pack requires, of a given number of calls.
LEMMA CardinalityIsCounted ==
    ASSUME NEW c \in Confirmations, NEW events, NEW n \in Nat \ {0},
           Len(PhysicalCalls(events, c.target)) = n
    PROVE  CardinalityVerdict(EffectContract(c), events) =
              IF c.cardinality = "at_least_once" \/ n = 1 THEN "passed" ELSE "duplicate_transition"
<1>. DEFINE k == EffectContract(c)
<1>1. k.tool = c.target /\ k.cardinality = c.cardinality
  BY DEF EffectContract
<1>2. c.cardinality \in {"exactly_once", "at_least_once", "at_most_once", "zero_or_one"}
  BY GuidedAssumption
<1>. HIDE DEF k
<1>. DEFINE Otherwise == IF n > 1 THEN "duplicate_transition" ELSE "missing_effect"
<1>3. \/ n = 1 /\ Otherwise = "missing_effect"
      \/ n > 1 /\ n # 1 /\ ~(n <= 1) /\ Otherwise = "duplicate_transition"
  OBVIOUS
<1>. HIDE DEF Otherwise
<1>4. CASE c.cardinality = "exactly_once"
  <2>1. CardinalityVerdict(k, events) = IF n = 1 THEN "passed" ELSE Otherwise
    BY <1>1, <1>4, Zenon DEF CardinalityVerdict, Otherwise
  <2>. QED BY <1>3, <1>4, <2>1 DEF k
<1>5. CASE c.cardinality = "at_least_once"
  <2>1. CardinalityVerdict(k, events) = IF n >= 1 THEN "passed" ELSE Otherwise
    BY <1>1, <1>5, "exactly_once" # "at_least_once", Zenon DEF CardinalityVerdict, Otherwise
  <2>. QED BY <1>5, <2>1 DEF k
<1>6. CASE c.cardinality \notin {"exactly_once", "at_least_once"}
  <2>1. CardinalityVerdict(k, events) = IF n <= 1 THEN "passed" ELSE Otherwise
    BY <1>1, <1>6, Zenon DEF CardinalityVerdict, Otherwise
  <2>. QED BY <1>3, <1>6, <2>1 DEF k
<1>. QED BY <1>2, <1>4, <1>5, <1>6 DEF k

LEMMA FaultIsTold ==
    ASSUME GuideInv
    PROVE  FaultIsToldFromControl
<1>. SUFFICES ASSUME guide = "written" PROVE FaultIsToldFromControl
  BY DEF FaultIsToldFromControl
<1>1. CASE written = StarterPack
  <2>1. ASSUME NEW a \in written.assertions
        PROVE  CallCount(a, ControlReplay) = "passed"
    <3>1. PICK i \in DOMAIN StarterCalls :
             a = CallCountOf(StarterCalls[i].tool, Occurrences(StarterCalls, StarterCalls[i].tool))
      BY <1>1 DEF StarterPack
    <3>2. Len(StarterCalls) \in Nat /\ DOMAIN StarterCalls = 1..Len(StarterCalls)
      BY StarterIsSequence DEF GuideInv
    <3>3. StepsAre(StarterCalls)
      BY <1>1, <3>2, StepsOfStarter
    <3>. DEFINE tool == StarterCalls[i].tool
                o == Occurrences(StarterCalls, tool)
    <3>4. Len(PhysicalCalls(ControlReplay, tool)) = o /\ o \in Nat
      BY <3>2, <3>3, ReplayIsCounted
    <3>. HIDE DEF tool, o
    <3>5. CallCount(CallCountOf(tool, o), ControlReplay) = "passed"
      BY <3>4, CallsAreCounted
    <3>. QED BY <3>1, <3>5 DEF tool, o
  <2>2. written.mutations = {} /\ written.contracts = {}
    BY <1>1 DEF StarterPack
  <2>. QED BY <2>1, <2>2 DEF FaultIsToldFromControl
<1>2. ASSUME NEW c \in Confirmations, Confirmed(c), written = GuidedPack(c)
      PROVE  FaultIsToldFromControl
  <2>. DEFINE w == Workflow
              o == Occurrences(w, c.target)
              a == CallCountOf(c.target, o)
              k == EffectContract(c)
  <2>1. written.assertions = {a} /\ written.contracts = {k}
    BY <1>2 DEF GuidedPack
  <2>2. Len(w) \in Nat /\ DOMAIN w = 1..Len(w)
    BY WorkflowIsSequence DEF GuideInv
  <2>3. StepsAre(w)
    BY <1>2, <2>2, StepsOfGuide
  <2>4. /\ o \in Nat /\ Len(PhysicalCalls(ControlReplay, c.target)) = o
        /\ \A kind \in {"duplicate", "retry"} :
              Len(PhysicalCalls(Append(ControlReplay, ReplayEvent(c.target, kind)), c.target)) = o + 1
    BY <2>2, <2>3, ReplayIsCounted
  <2>5. o \in Nat \ {0} /\ o + 1 \in Nat \ {0} /\ o + 1 # o /\ o + 1 # 1
    <3>1. o > 0
      BY <1>2 DEF Confirmed
    <3>. HIDE DEF o
    <3>. QED BY <2>4, <3>1
  <2>6. Occurrences(written.steps, k.tool) = o
    <3>1. k.tool = c.target
      BY DEF EffectContract
    <3>2. {i \in DOMAIN written.steps : written.steps[i].tool = c.target}
             = {i \in DOMAIN w : w[i].tool = c.target}
      BY <2>3 DEF StepsAre
    <3>. HIDE DEF k, w
    <3>. QED BY <3>1, <3>2 DEF Occurrences
  <2>7. ASSUME NEW fault \in written.mutations
        PROVE  Len(PhysicalCalls(FaultyReplay(fault), c.target)) = o + 1
    <3>1. PICK kind \in {"duplicate", "retry"} :
             FaultyReplay(fault) = Append(ControlReplay, ReplayEvent(c.target, kind))
      BY <1>2, <2>7, FaultAddsACall
    <3>. HIDE DEF o
    <3>. QED BY <2>4, <3>1
  <2>8. k.cardinality = c.cardinality
    BY DEF EffectContract
  <2>. HIDE DEF o
  <2>9. /\ CallCount(a, ControlReplay) = "passed"
        /\ CardinalityVerdict(k, ControlReplay) =
              IF k.cardinality = "at_least_once" \/ o = 1 THEN "passed" ELSE "duplicate_transition"
    <3>1. CallCount(a, ControlReplay) = "passed"
      BY <2>4, CallsAreCounted
    <3>. QED BY <2>4, <2>5, <2>8, <3>1, CardinalityIsCounted
  <2>10. ASSUME NEW fault \in written.mutations
         PROVE  /\ CallCount(a, FaultyReplay(fault)) = "assertion_failure"
                /\ CardinalityVerdict(k, FaultyReplay(fault)) =
                      IF k.cardinality = "at_least_once" THEN "passed" ELSE "duplicate_transition"
    <3>. DEFINE f == FaultyReplay(fault)
    <3>1. Len(PhysicalCalls(f, c.target)) = o + 1
      BY <2>7
    <3>. HIDE DEF f
    <3>2. CallCount(a, f) = "assertion_failure"
      BY <2>4, <2>5, <3>1, CallsAreCounted
    <3>3. CardinalityVerdict(k, f) =
             IF c.cardinality = "at_least_once" \/ o + 1 = 1 THEN "passed" ELSE "duplicate_transition"
      BY <2>5, <3>1, CardinalityIsCounted
    <3>. QED BY <2>5, <2>8, <3>2, <3>3 DEF f
  <2>. HIDE DEF a, k
  <2>. QED BY <2>1, <2>6, <2>9, <2>10 DEF FaultIsToldFromControl
<1>. QED BY <1>1, <1>2 DEF GuideInv, PackInv

\* Whatever was captured and whatever is confirmed, a pack that is written
\* without a warning replays the calls of the session in their order, and gives
\* the tools the roles they were last declared to have (loadCapture,
\* collectCalls, logicalToolCalls, collectToolMetadata, confirmGuidedCapture).
THEOREM PackIsTheSession == GuideSpec => []PackFollowsTheSession
<1>1. GuideInv => PackFollowsTheSession
  BY PackFollows
<1>. QED BY <1>1, GuideInvariance, PTL

\* The call counts of every written pack hold in a replay without faults and fail in
\* the replay with the pack's fault; the cardinality of its contract tells the two
\* apart exactly if the target was captured once and not any number of calls will do
\* (confirmGuidedCapture, generateStarterPack, evaluateAssertions, evaluateCardinality).
THEOREM FaultsAreTold == GuideSpec => []FaultIsToldFromControl
<1>1. GuideInv => FaultIsToldFromControl
  BY FaultIsTold
<1>. QED BY <1>1, GuideInvariance, PTL
===============================================================================
