------------------------- MODULE ScriptedRunnerProofs -------------------------
(***************************************************************************)
(* Theorems about ScriptedRunner for every pack, every list of mutations   *)
(* and every behaviour of target, timers and signals.                      *)
(***************************************************************************)
EXTENDS ScriptedRunner, SelectionProofs

-------------------------------------------------------------------------------
(* The controller.                                                         *)

RecordType ==
    [ mutation: DOMAIN Mutations, event: Ids, result: {"applied", "blocked", "failed"} ]

\* The fields of a controller.
LEMMA ControllerFields ==
    ASSUME NEW c \in Controller
    PROVE  /\ c.calls \in [Tools -> Nat] /\ c.previousSuccess \in [Contexts -> Outcomes]
           /\ c.records \in Seq(RecordType)
           /\ c = [calls |-> c.calls, previousSuccess |-> c.previousSuccess, records |-> c.records]
BY DEF Controller, RecordType

LEMMA OtherRecords ==
    ASSUME NEW c \in Controller, NEW records \in Seq(RecordType)
    PROVE  /\ [c EXCEPT !.records = records] \in Controller
           /\ [c EXCEPT !.records = records].calls = c.calls
           /\ [c EXCEPT !.records = records].previousSuccess = c.previousSuccess
           /\ [c EXCEPT !.records = records].records = records
BY DEF Controller, RecordType

LEMMA CountedTyped ==
    ASSUME NEW c \in Controller, NEW tool \in Tools
    PROVE  /\ Counted(c, tool) \in Controller
           /\ Counted(c, tool).calls = [c.calls EXCEPT ![tool] = c.calls[tool] + 1]
           /\ Counted(c, tool).previousSuccess = c.previousSuccess
           /\ Counted(c, tool).records = c.records
<1>. DEFINE calls == [c.calls EXCEPT ![tool] = c.calls[tool] + 1]
<1>1. calls \in [Tools -> Nat]
  BY ControllerFields
<1>2. Counted(c, tool) = [c EXCEPT !.calls = calls]
  BY DEF Counted
<1>. HIDE DEF calls
<1>3. /\ [c EXCEPT !.calls = calls] \in Controller
      /\ [c EXCEPT !.calls = calls].calls = calls
      /\ [c EXCEPT !.calls = calls].previousSuccess = c.previousSuccess
      /\ [c EXCEPT !.calls = calls].records = c.records
  BY <1>1 DEF Controller
<1>. QED BY <1>2, <1>3 DEF calls

\* WithRecord adds one record.
LEMMA OneMoreRecord ==
    ASSUME NEW c \in Controller, NEW i \in DOMAIN Mutations, NEW id \in Ids,
           NEW result \in {"applied", "blocked", "failed"}
    PROVE  /\ WithRecord(c, i, id, result) \in Controller
           /\ WithRecord(c, i, id, result).calls = c.calls
           /\ WithRecord(c, i, id, result).previousSuccess = c.previousSuccess
           /\ WithRecord(c, i, id, result).records
                 = Append(c.records, [mutation |-> i, event |-> id, result |-> result])
           /\ [mutation |-> i, event |-> id, result |-> result] \in RecordType
<1>. DEFINE r == [mutation |-> i, event |-> id, result |-> result]
            longer == Append(c.records, r)
<1>1. r \in RecordType
  BY DEF RecordType
<1>2. longer \in Seq(RecordType)
  BY <1>1, ControllerFields, AppendProperties
<1>3. WithRecord(c, i, id, result) = [c EXCEPT !.records = longer]
  BY DEF WithRecord
<1>. HIDE DEF longer
<1>4. /\ WithRecord(c, i, id, result) \in Controller
      /\ WithRecord(c, i, id, result).calls = c.calls
      /\ WithRecord(c, i, id, result).previousSuccess = c.previousSuccess
      /\ WithRecord(c, i, id, result).records = longer
  BY <1>2, <1>3, OtherRecords
<1>. QED BY <1>1, <1>4 DEF longer

\* What markFailed adds, after the records that were there: one for each mutation
\* of the list that had none for this event.
Marked(old, new, list, id) ==
    /\ Len(old) <= Len(new) /\ \A k \in 1..Len(old) : new[k] = old[k]
    /\ \A k \in (Len(old) + 1)..Len(new) :
          /\ new[k].event = id /\ new[k].mutation \in list
          /\ \A n \in 1..Len(old) : ~(old[n].mutation = new[k].mutation /\ old[n].event = id)
    /\ \A j, k \in (Len(old) + 1)..Len(new) : j < k => new[j].mutation < new[k].mutation
    /\ \A i \in list : \E k \in 1..Len(new) : new[k].mutation = i /\ new[k].event = id

LEMMA MarkFailedMarks ==
    ASSUME pack \in Packs, NEW c \in Controller, NEW list \in SUBSET DOMAIN Mutations, NEW id \in Ids
    PROVE  /\ MarkFailed(c, list, id) \in Controller
           /\ MarkFailed(c, list, id).calls = c.calls
           /\ MarkFailed(c, list, id).previousSuccess = c.previousSuccess
           /\ Marked(c.records, MarkFailed(c, list, id).records, list, id)
<1>. DEFINE failed == [i \in DOMAIN Mutations |->
                         [mutation |-> i, event |-> id, result |-> "failed"]]
            missing == {i \in list : ~HasRecord(c, i, id)}
            added == Selection(failed, missing)
            old == c.records
            new == old \o added
<1>1. Mutations \in Seq(MutationConfig) /\ DOMAIN Mutations = 1..Len(Mutations)
      /\ Len(Mutations) \in Nat
  BY MutationsAssumption DEF Mutations
<1>2. failed \in Seq(RecordType) /\ Len(failed) = Len(Mutations)
  <2>1. \A i \in DOMAIN Mutations : [mutation |-> i, event |-> id, result |-> "failed"] \in RecordType
    BY DEF RecordType
  <2>2. failed \in [1..Len(Mutations) -> RecordType]
    BY <1>1, <2>1
  <2>. QED BY <1>1, <2>2
<1>3. \A i \in 1..Len(Mutations) : failed[i].mutation = i /\ failed[i].event = id
  BY <1>1
<1>. HIDE DEF failed
<1>4. added \in Seq(RecordType) /\ Lists(added, failed, missing, Len(failed))
  BY <1>2, SelectionLists
<1>5. old \in Seq(RecordType) /\ Len(old) \in Nat /\ DOMAIN old = 1..Len(old)
  BY ControllerFields
<1>6. MarkFailed(c, list, id) = [c EXCEPT !.records = new]
  BY DEF MarkFailed, failed
<1>7. missing \subseteq list /\ \A i \in list : i \in missing \/ HasRecord(c, i, id)
  OBVIOUS
<1>8. \A i \in missing : \A n \in 1..Len(old) : ~(old[n].mutation = i /\ old[n].event = id)
  BY <1>5 DEF HasRecord
<1>9. \A i \in list : HasRecord(c, i, id) => \E n \in 1..Len(old) : old[n].mutation = i /\ old[n].event = id
  BY <1>5 DEF HasRecord
<1>. HIDE DEF missing, added, old
<1>10. /\ new \in Seq(RecordType) /\ Len(new) = Len(old) + Len(added) /\ Len(added) \in Nat
       /\ \A k \in 1..Len(old) : new[k] = old[k]
       /\ \A k \in (Len(old) + 1)..Len(new) : new[k] = added[k - Len(old)]
  BY <1>4, <1>5, ConcatProperties
<1>. HIDE DEF new
<1>11. PICK where \in [1..Len(added) -> 1..Len(failed)] :
          /\ \A k \in 1..Len(added) : where[k] \in missing /\ added[k] = failed[where[k]]
          /\ \A j, k \in 1..Len(added) : j < k => where[j] < where[k]
          /\ \A i \in 1..Len(failed) : i \in missing => \E k \in 1..Len(added) : where[k] = i
  BY <1>4 DEF Lists
<1>12. \A k \in (Len(old) + 1)..Len(new) :
          /\ k - Len(old) \in 1..Len(added)
          /\ new[k].mutation = where[k - Len(old)] /\ new[k].event = id
          /\ where[k - Len(old)] \in missing
  <2>. SUFFICES ASSUME NEW k \in (Len(old) + 1)..Len(new)
                PROVE  /\ k - Len(old) \in 1..Len(added)
                       /\ new[k].mutation = where[k - Len(old)] /\ new[k].event = id
                       /\ where[k - Len(old)] \in missing
    OBVIOUS
  <2>1. k - Len(old) \in 1..Len(added)
    BY <1>5, <1>10
  <2>2. where[k - Len(old)] \in 1..Len(Mutations) /\ new[k] = failed[where[k - Len(old)]]
    BY <1>2, <1>10, <1>11, <2>1
  <2>. QED BY <1>3, <1>11, <2>1, <2>2
<1>13. \A k \in (Len(old) + 1)..Len(new) :
          /\ new[k].event = id /\ new[k].mutation \in list
          /\ \A n \in 1..Len(old) : ~(old[n].mutation = new[k].mutation /\ old[n].event = id)
  BY <1>7, <1>8, <1>12
<1>14. \A j, k \in (Len(old) + 1)..Len(new) : j < k => new[j].mutation < new[k].mutation
  <2>. SUFFICES ASSUME NEW j \in (Len(old) + 1)..Len(new), NEW k \in (Len(old) + 1)..Len(new), j < k
                PROVE  new[j].mutation < new[k].mutation
    OBVIOUS
  <2>1. j - Len(old) < k - Len(old)
    BY <1>5, <1>10
  <2>. QED BY <1>11, <1>12, <2>1, ZenonT(60)
<1>15. \A i \in list : \E k \in 1..Len(new) : new[k].mutation = i /\ new[k].event = id
  <2>. SUFFICES ASSUME NEW i \in list
                PROVE  \E k \in 1..Len(new) : new[k].mutation = i /\ new[k].event = id
    OBVIOUS
  <2>1. CASE HasRecord(c, i, id)
    <3>1. PICK n \in 1..Len(old) : old[n].mutation = i /\ old[n].event = id
      BY <1>9, <2>1
    <3>2. n \in 1..Len(new) /\ new[n] = old[n]
      BY <1>5, <1>10
    <3>. QED BY <3>1, <3>2
  <2>2. CASE i \in missing
    <3>1. i \in 1..Len(failed)
      BY <1>1, <1>2
    <3>2. PICK k \in 1..Len(added) : where[k] = i
      BY <1>11, <2>2, <3>1
    <3>3. Len(old) + k \in (Len(old) + 1)..Len(new) /\ (Len(old) + k) - Len(old) = k
          /\ Len(old) + k \in 1..Len(new)
      BY <1>5, <1>10
    <3>. QED BY <1>12, <3>2, <3>3
  <2>. QED BY <1>7, <2>1, <2>2
<1>16. Marked(old, new, list, id)
  <2>1. Len(old) <= Len(new)
    BY <1>5, <1>10
  <2>. QED BY <1>10, <1>13, <1>14, <1>15, <2>1 DEF Marked
<1>17. /\ MarkFailed(c, list, id) \in Controller
       /\ MarkFailed(c, list, id).calls = c.calls
       /\ MarkFailed(c, list, id).previousSuccess = c.previousSuccess
       /\ MarkFailed(c, list, id).records = new
  BY <1>6, <1>10, OtherRecords
<1>. QED BY <1>16, <1>17 DEF old

-------------------------------------------------------------------------------
(* Where the run is.                                                       *)

\* The step is one of the pack while it is at work, and as long as a part of it
\* goes on in the background.
StepInRange ==
    /\ at \in {"probing_before", "probing_after"} => probe < Probes
    /\ at \in {"attempt", "calling", "mutating", "abandoning", "step_end"} => step \in DOMAIN Steps
    /\ job.at # "idle" => step \in DOMAIN Steps /\ job.of = step

\* Nothing was attempted before the first observations have ended.
FreshStart ==
    at \in {"connecting", "connect_closing", "before", "probing_before"} =>
        /\ step = 1 /\ attempt = 0 /\ parent = NoCall
        /\ counter = 0 /\ ctl = EmptyController /\ MainEvents = {}

\* There is one call, that of an observation, an attempt or a duplicate, and the one
\* that made it waits for it.
CallIsAwaited ==
    /\ call.at # "idle" =>
          \/ call.by = "main" /\ at \in {"probing_before", "probing_after"} /\ call.of.probe
          \/ call.by = "main" /\ at = "calling" /\ call.of = current.id
          \/ call.by = "job" /\ job.at = "calling" /\ ~call.of.probe
    /\ call.at # "idle" /\ ~call.of.probe => call.of.n = counter
    /\ at \in {"probing_before", "calling", "probing_after"} => call.at # "idle" /\ call.by = "main"
    /\ job.at = "calling" => call.at # "idle" /\ call.by = "job"

\* controller.after() goes on in the background only when the run has expired.
JobIsOfAttempt ==
    /\ at \in {"mutating", "abandoning"} => job.at # "idle"
    /\ job.at # "idle" =>
          \/ at = "mutating"
          \/ /\ expired
             /\ at \in {"abandoning", "attempt", "step_end", "steps_done", "after", "finish",
                        "closing", "returned"}
    /\ at = "abandoning" => expired
    /\ interrupted => expired

RunInv == TypeOK /\ StepInRange /\ FreshStart /\ CallIsAwaited /\ JobIsOfAttempt


-------------------------------------------------------------------------------
(* The steps of the run, by what they leave alone.                         *)

\* A timer, a signal, the target, the close.
Elsewhere ==
    \/ DeadlinePasses \/ ClientCloses \/ Signal \/ CallSettles \/ CallBreaks \/ CallTimesOut
    \/ \E answer \in Answers, effect \in BOOLEAN : TargetReplies(answer, effect)
    \/ \E id \in sent : TargetIsSilent(id)

\* The body of the run goes on to another await.
Moves ==
    \/ Connects \/ ConnectFails \/ ConnectTimesOut \/ ConnectClosed
    \/ Observe("before", "probing_before") \/ Observe("after", "probing_after")
    \/ EndsObserving("before", IF failure = "none" /\ Steps # <<>> THEN "attempt" ELSE "steps_done")
    \/ EndsObserving("after", "finish")
    \/ AttemptSkipped \/ AfterTimesOut \/ StepsDone \/ Finish \/ Returns

\* controller.after() goes on.
Works ==
    \/ \E i \in DOMAIN Mutations :
          \/ \E found \in BOOLEAN : MutationApplies(i, found)
          \/ MutationDelays(i) \/ DelayEnds(i) \/ DelayIsCut(i) \/ DuplicateStarts(i)
    \/ JobEnds

Repeats == \E i \in DOMAIN Mutations : DuplicateReturns(i)

LEMMA NextIs ==
    ASSUME Next
    PROVE  \/ Elsewhere \/ Moves \/ (Works /\ ~MainRuns) \/ (Repeats /\ ~MainRuns)
           \/ Observed("before", "probing_before") \/ Observed("after", "probing_after")
           \/ AttemptDenied \/ AttemptCalls
           \/ CallFails \/ CallTooLate \/ CallMutates
           \/ Mutated \/ MutationThrew \/ Abandons \/ StepEnds
<1>1. ASSUME NEW i \in DOMAIN Mutations, DelayEnds(i) \/ DelayIsCut(i) PROVE Works /\ ~MainRuns
  <2>1. ~MainRuns
    BY <1>1 DEF DelayEnds, DelayIsCut, Quiet, MainWaits, MainRuns
  <2>. QED BY <1>1, <2>1 DEF Works
<1>2. CASE Continue
  BY <1>2 DEF Continue, Observations, Attempts, Moves
<1>3. CASE Others
  BY <1>3 DEF Others, Job, Elsewhere, Works, Repeats
<1>4. CASE Timer
  BY <1>1, <1>4 DEF Timer, Elsewhere, Moves
<1>5. CASE Environment
  BY <1>5 DEF Environment, Elsewhere, Moves
<1>. QED BY <1>2, <1>3, <1>4, <1>5 DEF Next

LEMMA Frames ==
    /\ Elsewhere => UNCHANGED <<pack, at, probe, loop, events, counter, ctl, job, failure, report>>
    /\ Moves => UNCHANGED <<pack, loop, events, counter, ctl, job>>
    /\ Works => UNCHANGED <<pack, at, probe, loop, events, committed, stop, failure, report>>
    /\ Repeats => UNCHANGED <<pack, at, probe, loop, counter, target, stop, failure, report>>
<1>1. ASSUME Elsewhere
      PROVE  UNCHANGED <<pack, at, probe, loop, events, counter, ctl, job, failure, report>>
  BY <1>1 DEF Elsewhere, DeadlinePasses, ClientCloses, Signal, CallSettles, CallBreaks, CallTimesOut,
              TargetReplies, TargetIsSilent
<1>2. ASSUME Moves PROVE UNCHANGED <<pack, loop, events, counter, ctl, job>>
  BY <1>2 DEF Moves, Connects, ConnectFails, ConnectTimesOut, ConnectClosed, Observe, EndsObserving,
              AttemptSkipped, AfterTimesOut, StepsDone, Finish, Returns
<1>3. ASSUME Works
      PROVE  UNCHANGED <<pack, at, probe, loop, events, committed, stop, failure, report>>
  BY <1>3 DEF Works, MutationApplies, MutationDelays, DelayEnds, DelayIsCut, DuplicateStarts, JobEnds,
              target
<1>4. ASSUME Repeats
      PROVE  UNCHANGED <<pack, at, probe, loop, counter, target, stop, failure, report>>
  BY <1>4 DEF Repeats, DuplicateReturns
<1>. QED BY <1>1, <1>2, <1>3, <1>4

LEMMA PackStays ==
    ASSUME [Next]_vars
    PROVE  pack' = pack /\ Steps' = Steps /\ Mutations' = Mutations
<1>1. ASSUME Next PROVE pack' = pack
  BY <1>1, NextIs, Frames DEF Observed, AttemptDenied, AttemptCalls, CallFails, CallTooLate, CallMutates,
     Mutated, MutationThrew, Abandons, StepEnds
<1>2. pack' = pack
  BY <1>1 DEF vars
<1>. QED BY <1>2 DEF Steps, Mutations
-------------------------------------------------------------------------------
(* Outcomes and events.                                                    *)

LEMMA FailedOutcome ==
    ASSUME NEW kind \in ErrorKinds \cup {"none"}, NEW commit \in CommitStatuses
    PROVE  /\ Failed(kind, commit) \in Outcomes
           /\ Failed(kind, commit).error = kind /\ Failed(kind, commit).commit = commit
           /\ Failed(kind, commit).output = NoCall
BY DEF Failed, Outcomes

LEMMA NoOutcomeTyped == NoOutcome \in Outcomes /\ NoOutcome.output = NoCall
BY FailedOutcome DEF NoOutcome, CommitStatuses, Failed

LEMMA ExpiryTyped ==
    Expiry \in Outcomes /\ Expiry.error = "timeout" /\ Expiry.commit = "undefined" /\ Expiry.output = NoCall
BY FailedOutcome DEF Expiry, ErrorKinds, CommitStatuses

\* A mutation makes an outcome of outcomes: with the output of the call itself, of
\* the prior one, or none.
LEMMA ChangedOutcome ==
    ASSUME NEW mutation \in MutationConfig, NEW outcome \in Outcomes, NEW prior \in Outcomes,
           NEW id \in Ids
    PROVE  /\ Changed(mutation, outcome, prior, id) \in Outcomes
           /\ Changed(mutation, outcome, prior, id).output \in {NoCall, id, outcome.output, prior.output}
<1>1. /\ outcome.error \in ErrorKinds \cup {"none"} /\ outcome.commit \in CommitStatuses
      /\ outcome.output \in Ids \cup {NoCall}
  BY DEF Outcomes
<1>2. CommitOf(outcome) \in CommitStatuses
  BY <1>1 DEF CommitOf, CommitStatuses
<1>3. CommitGuess(outcome) \in CommitStatuses
  BY DEF CommitGuess, CommitStatuses
<1>. DEFINE x == Changed(mutation, outcome, prior, id)
            a == Failed("timeout", CommitOf(outcome))
            b == Failed("transport_error", CommitOf(outcome))
            c == Failed("retryable_error", CommitGuess(outcome))
            d == [outcome EXCEPT !.error = "retryable_error", !.commit = CommitOf(outcome)]
            e == [error |-> "none", commit |-> CommitGuess(outcome), output |-> id]
            f == [outcome EXCEPT !.commit = CommitOf(outcome)]
<1>4. x \in {a, b, c, d, e, prior, f, outcome}
  BY Zenon DEF Changed
<1>5. /\ {a, b, c} \subseteq Outcomes
      /\ a.output = NoCall /\ b.output = NoCall /\ c.output = NoCall
  BY <1>2, <1>3, FailedOutcome DEF ErrorKinds
<1>6. d \in Outcomes /\ d.output = outcome.output
  <2>. HIDE DEF c
  <2>. QED BY <1>1, <1>2 DEF Outcomes, ErrorKinds
<1>7. f \in Outcomes /\ f.output = outcome.output
  BY <1>1, <1>2 DEF Outcomes
<1>8. e \in Outcomes /\ e.output = id
  BY <1>3 DEF Outcomes
<1>. HIDE DEF x, a, b, c, d, e, f
<1>9. x \in Outcomes /\ x.output \in {NoCall, id, outcome.output, prior.output}
  BY <1>4, <1>5, <1>6, <1>7, <1>8
<1>. QED BY <1>9 DEF x

\* The event of a physical call.
LEMMA EventTyped ==
    ASSUME NEW id \in Ids, NEW kind \in {"step", "retry", "duplicate", "effect_probe"},
           NEW from \in Ids \cup {NoCall}, NEW list \in SUBSET DOMAIN Mutations,
           NEW outcome \in Outcomes,
           step \in 0..Len(Steps), attempt \in Nat
    PROVE  /\ Event(id, kind, from, list, outcome, TRUE) \in EventType
           /\ Event(id, kind, from, list, outcome, TRUE)
                 = [ id |-> id, kind |-> kind, step |-> step, attempt |-> attempt, parent |-> from,
                     mutations |-> list, error |-> outcome.error, commit |-> outcome.commit,
                     output |-> outcome.output, underlying |-> outcome.error, physical |-> TRUE ]
<1>1. /\ outcome.error \in ErrorKinds \cup {"none"} /\ outcome.commit \in CommitStatuses
      /\ outcome.output \in Ids \cup {NoCall}
  BY DEF Outcomes
<1>. QED BY <1>1 DEF Event, EventType

\* What is shown of the current attempt changes, and nothing else of any event.
Shows(old, new, outcome) ==
    /\ DOMAIN new = DOMAIN old /\ Len(new) = Len(old)
    /\ \A n \in DOMAIN old :
          /\ new[n].id = old[n].id /\ new[n].kind = old[n].kind /\ new[n].step = old[n].step
          /\ new[n].attempt = old[n].attempt /\ new[n].parent = old[n].parent
          /\ new[n].mutations = old[n].mutations /\ new[n].underlying = old[n].underlying
          /\ new[n].physical = old[n].physical
          /\ old[n].id # current.id => new[n] = old[n]
          /\ old[n].id = current.id =>
                /\ new[n].error = outcome.error /\ new[n].commit = outcome.commit
                /\ new[n].output = outcome.output

LEMMA ConcludeShows ==
    ASSUME NEW evs \in Seq(EventType), NEW outcome \in Outcomes, Conclude(evs, outcome)
    PROVE  /\ events' \in Seq(EventType)
           /\ Shows(evs, events', outcome)
           /\ parent' = current.id /\ finalError' = outcome.error
           /\ at' = IF Retries(outcome.error, attempt) THEN "attempt" ELSE "step_end"
           /\ UNCHANGED <<pack, probe, step, attempt, current>>
<1>. DEFINE shown(e) == [e EXCEPT !.error = outcome.error, !.commit = outcome.commit,
                                  !.output = outcome.output]
<1>1. /\ outcome.error \in ErrorKinds \cup {"none"} /\ outcome.commit \in CommitStatuses
      /\ outcome.output \in Ids \cup {NoCall}
  BY DEF Outcomes
<1>2. ASSUME NEW e \in EventType
      PROVE  /\ shown(e) \in EventType
             /\ shown(e).id = e.id /\ shown(e).kind = e.kind /\ shown(e).step = e.step
             /\ shown(e).attempt = e.attempt /\ shown(e).parent = e.parent
             /\ shown(e).mutations = e.mutations /\ shown(e).underlying = e.underlying
             /\ shown(e).physical = e.physical
             /\ shown(e).error = outcome.error /\ shown(e).commit = outcome.commit
             /\ shown(e).output = outcome.output
  BY <1>1 DEF EventType
<1>3. events' = [n \in DOMAIN evs |-> IF evs[n].id # current.id THEN evs[n] ELSE shown(evs[n])]
  BY DEF Conclude
<1>4. DOMAIN evs = 1..Len(evs) /\ Len(evs) \in Nat /\ \A n \in DOMAIN evs : evs[n] \in EventType
  BY LenProperties, ElementOfSeq
<1>. HIDE DEF shown
<1>5. events' \in [1..Len(evs) -> EventType]
  BY <1>2, <1>3, <1>4
<1>6. events' \in Seq(EventType) /\ Len(events') = Len(evs) /\ DOMAIN events' = DOMAIN evs
  BY <1>4, <1>5
<1>7. Shows(evs, events', outcome)
  <2>1. ASSUME NEW n \in DOMAIN evs, evs[n].id # current.id PROVE events'[n] = evs[n]
    BY <1>3, <2>1
  <2>2. ASSUME NEW n \in DOMAIN evs, evs[n].id = current.id PROVE events'[n] = shown(evs[n])
    BY <1>3, <2>2
  <2>. QED BY <1>2, <1>4, <1>6, <2>1, <2>2 DEF Shows
<1>. QED BY <1>6, <1>7 DEF Conclude
-------------------------------------------------------------------------------
(* Types.                                                                  *)

LEMMA PackTyped ==
    ASSUME pack \in Packs
    PROVE  /\ Steps \in Seq(Step) /\ DOMAIN Steps = 1..Len(Steps) /\ Len(Steps) \in Nat
           /\ \A s \in DOMAIN Steps :
                 /\ Steps[s].call \in Tools /\ Steps[s].context \in Contexts
                 /\ Steps[s].max_attempts \in Nat \ {0} /\ Steps[s].on \subseteq RetryKinds
           /\ Mutations \in Seq(MutationConfig) /\ DOMAIN Mutations = 1..Len(Mutations)
           /\ DOMAIN Mutations \subseteq Nat
           /\ \A i \in DOMAIN Mutations : Mutations[i] \in MutationConfig
<1>1. Steps \in Seq(Step) /\ Mutations \in Seq(MutationConfig)
  BY RunnerAssumption, MutationsAssumption DEF Steps, Mutations
<1>2. /\ DOMAIN Steps = 1..Len(Steps) /\ Len(Steps) \in Nat
      /\ DOMAIN Mutations = 1..Len(Mutations) /\ Len(Mutations) \in Nat
      /\ \A s \in DOMAIN Steps : Steps[s] \in Step
      /\ \A i \in DOMAIN Mutations : Mutations[i] \in MutationConfig
  BY <1>1, LenProperties, ElementOfSeq
<1>. QED BY <1>1, <1>2 DEF Step

LEMMA FirstOfList ==
    ASSUME pack \in Packs, NEW list \in SUBSET DOMAIN Mutations, list # {}
    PROVE  FirstOf(list) \in list /\ \A j \in list : FirstOf(list) <= j
<1>1. \E i \in list : \A j \in list : i <= j
  <2>1. list \subseteq Nat
    BY PackTyped
  <2>. QED BY <2>1, LeastElement
<1>. QED BY <1>1, Zenon DEF FirstOf

LEMMA DenialDenies ==
    ASSUME pack \in Packs, NEW list \in SUBSET DOMAIN Mutations, Denies(list)
    PROVE  Denial(list) \in list /\ Mutations[Denial(list)].type \in Denials
<1>. DEFINE p == OfType(list, "permission_denied")
            q == OfType(list, "rate_limit")
<1>1. /\ p \in SUBSET DOMAIN Mutations /\ q \in SUBSET DOMAIN Mutations
      /\ p \subseteq list /\ q \subseteq list
      /\ \A i \in p \cup q : Mutations[i].type \in Denials
      /\ p # {} \/ q # {}
  BY DEF OfType, Denies, Denials
<1>2. Denial(list) = IF p # {} THEN FirstOf(p) ELSE FirstOf(q)
  BY DEF Denial
<1>. HIDE DEF p, q
<1>3. Denial(list) \in p \cup q
  BY <1>1, <1>2, FirstOfList
<1>. QED BY <1>1, <1>3

\* The types of what an unchanged pack determines do not change.
LEMMA TypesStay ==
    ASSUME pack' = pack
    PROVE  Steps' = Steps /\ Mutations' = Mutations /\ EventType' = EventType /\ Controller' = Controller
BY DEF Steps, Mutations, EventType, Controller

JobType ==
    [ at: {"idle", "applying", "delaying", "calling", "done", "threw"},
      list: SUBSET DOMAIN Mutations, result: Outcomes, original: Outcomes,
      prior: Outcomes, of: 0..Len(Steps) ]
CallType ==
    [at: {"idle", "open", "closing", "settled"}, by: {"main", "job"}, of: Ids, outcome: Outcomes]

LEMMA TypeFields ==
    ASSUME TypeOK
    PROVE  /\ job \in JobType /\ call \in CallType
           /\ job.list \in SUBSET DOMAIN Mutations
           /\ job.result \in Outcomes /\ job.original \in Outcomes /\ job.prior \in Outcomes
           /\ call.of \in Ids /\ call.outcome \in Outcomes
           /\ current.id \in Ids /\ current.list \in SUBSET DOMAIN Mutations
BY DEF TypeOK, JobType, CallType

LEMMA ElsewhereTyped ==
    ASSUME TypeOK, Elsewhere
    PROVE  TypeOK'
<1>. USE TypesStay, TypeFields, Frames
<1>1. CASE DeadlinePasses
  BY <1>1 DEF DeadlinePasses, TypeOK, loop, target
<1>2. CASE ClientCloses
  BY <1>2 DEF ClientCloses, TypeOK, loop, target
<1>3. CASE Signal
  BY <1>3 DEF Signal, TypeOK, loop, target, StartClose
<1>4. CASE CallSettles
  BY <1>4, SMTT(60) DEF CallSettles, TypeOK, loop, target, stop
<1>5. ASSUME NEW outcome \in Outcomes, Resolve(outcome), sent' \subseteq sent,
             committed' \subseteq committed \cup {call.of},
             UNCHANGED <<pack, at, probe, loop, events, counter, ctl, job, late, interrupted,
                         failure, report>>
      PROVE  TypeOK'
  <2>1. call' \in CallType
    BY <1>5 DEF Resolve, CallType
  <2>2. expired' \in BOOLEAN /\ closing' \in {"open", "pending", "closed", "unconfirmed"}
    BY <1>5 DEF Resolve, TypeOK, StartClose
  <2>3. committed' \subseteq Ids
    BY <1>5 DEF TypeOK
  <2>. QED BY <1>5, <2>1, <2>2, <2>3 DEF TypeOK, loop, CallType
<1>6. ASSUME NEW answer \in Answers, NEW effect \in BOOLEAN, TargetReplies(answer, effect) PROVE TypeOK'
  <2>. DEFINE outcome == [ error |-> answer.error, commit |-> answer.commit,
                           output |-> IF answer.error = "none" THEN call.of ELSE NoCall ]
  <2>1. outcome \in Outcomes
    BY RunnerAssumption DEF Outcomes
  <2>. HIDE DEF outcome
  <2>2. /\ Resolve(outcome) /\ sent' \subseteq sent /\ committed' \subseteq committed \cup {call.of}
        /\ UNCHANGED <<pack, at, probe, loop, events, counter, ctl, job, late, interrupted,
                       failure, report>>
    BY <1>6 DEF TargetReplies, outcome
  <2>. QED BY <1>5, <2>1, <2>2
<1>7. ASSUME NEW id \in sent, TargetIsSilent(id) PROVE TypeOK'
  BY <1>7 DEF TargetIsSilent, TypeOK, loop, stop
<1>8. CASE CallBreaks
  <2>1. Failed("transport_error", "unknown") \in Outcomes
    BY FailedOutcome DEF ErrorKinds, CommitStatuses
  <2>. QED BY <1>5, <1>8, <2>1 DEF CallBreaks, target
<1>9. CASE CallTimesOut
  <2>1. \A commit \in {"unknown", "undefined"} : Failed("timeout", commit) \in Outcomes
    BY FailedOutcome DEF ErrorKinds, CommitStatuses
  <2>. QED BY <1>5, <1>9, <2>1 DEF CallTimesOut, target
<1>. QED BY <1>1, <1>2, <1>3, <1>4, <1>6, <1>7, <1>8, <1>9 DEF Elsewhere
LEMMA MovesTyped ==
    ASSUME TypeOK, Moves
    PROVE  TypeOK'
<1>. USE TypesStay, TypeFields, Frames
<1>0. "configuration" \in ErrorKinds /\ "transport_error" \in ErrorKinds /\ "timeout" \in ErrorKinds
      /\ "initialization" \in ErrorKinds
  BY DEF ErrorKinds
<1>1. CASE Connects
  BY <1>0, <1>1 DEF Connects, TypeOK, Mains, loop, target
<1>2. CASE ConnectFails
  BY <1>0, <1>2 DEF ConnectFails, TypeOK, Mains, loop, target, stop
<1>3. CASE ConnectTimesOut
  BY <1>0, <1>3 DEF ConnectTimesOut, TypeOK, Mains, loop, target, StartClose
<1>4. CASE ConnectClosed
  BY <1>4 DEF ConnectClosed, TypeOK, Mains, loop, target, stop
<1>5. ASSUME NEW phase \in {"before", "after"}, NEW probing \in {"probing_before", "probing_after"},
             Observe(phase, probing)
      PROVE  TypeOK'
  <2>1. ProbeId(Cardinality(ProbeEvents) + 1) \in Ids
    <3>1. ProbeEvents \in SUBSET (1..Len(events)) /\ Len(events) \in Nat
      BY DEF ProbeEvents, TypeOK
    <3>2. IsFiniteSet(1..Len(events))
      BY <3>1, FS_Interval
    <3>3. IsFiniteSet(ProbeEvents)
      BY <3>1, <3>2, FS_Subset
    <3>4. Cardinality(ProbeEvents) \in Nat
      BY <3>3, FS_CardinalityType
    <3>. QED BY <3>4 DEF ProbeId, Ids
  <2>2. call' \in CallType /\ call'.of \in Ids
    BY <1>5, <2>1, NoOutcomeTyped DEF Observe, Called, CallType
  <2>3. sent' \subseteq Ids
    BY <1>5, <2>2 DEF Observe, TypeOK
  <2>. QED BY <1>5, <2>2, <2>3 DEF Observe, TypeOK, Mains, loop, stop, CallType
<1>6. ASSUME NEW phase \in {"before", "after"}, NEW next \in {"attempt", "steps_done", "finish"},
             EndsObserving(phase, next)
      PROVE  TypeOK'
  <2>1. 0 \in 0..Probes
    BY RunnerAssumption
  <2>. QED BY <1>6, <2>1 DEF EndsObserving, TypeOK, Mains, loop, target, stop
<1>7. CASE AttemptSkipped
  BY <1>7 DEF AttemptSkipped, TypeOK, Mains, loop, target, stop
<1>8. CASE AfterTimesOut
  BY <1>8 DEF AfterTimesOut, TypeOK, Mains, loop, target, StartClose
<1>9. CASE StepsDone
  BY <1>0, <1>9 DEF StepsDone, TypeOK, Mains, loop, target, stop
<1>10. CASE Finish
  <2>1. report' \in [made: BOOLEAN, evaluated: BOOLEAN, records: Seq(RecordType), processClosed: BOOLEAN]
    <3>1. ctl.records \in Seq(RecordType)
      BY ControllerFields DEF TypeOK
    <3>. QED BY <1>10, <3>1 DEF Finish, NoReport
  <2>. QED BY <1>0, <1>10, <2>1 DEF Finish, TypeOK, Mains, loop, target, StartClose, RecordType
<1>11. CASE Returns
  <2>1. report' \in [made: BOOLEAN, evaluated: BOOLEAN, records: Seq(RecordType), processClosed: BOOLEAN]
    BY <1>11 DEF Returns, TypeOK, RecordType
  <2>. QED BY <1>11, <2>1 DEF Returns, TypeOK, Mains, loop, target, stop, RecordType
<1>. QED BY <1>1, <1>2, <1>3, <1>4, <1>5, <1>6, <1>7, <1>8, <1>9, <1>10, <1>11 DEF Moves

\* What a mutation that applied, or did not, leaves.
LEMMA AdvanceTyped ==
    ASSUME TypeOK, NEW i \in DOMAIN Mutations, NEW found \in BOOLEAN, Advance(i, found), pack' = pack
    PROVE  ctl' \in Controller /\ job' \in JobType
<1>. DEFINE applies == Applies(Mutations[i], job.result, job.prior, found)
            result == IF applies THEN Changed(Mutations[i], job.result, job.prior, JobEvent)
                      ELSE job.result
<1>1. ctl' \in Controller
  <2>1. (IF applies THEN "applied" ELSE "failed") \in {"applied", "blocked", "failed"}
    OBVIOUS
  <2>2. ctl' = WithRecord(ctl, i, current.id, IF applies THEN "applied" ELSE "failed")
    BY DEF Advance, JobEvent
  <2>3. ctl \in Controller
    BY DEF TypeOK
  <2>. HIDE DEF applies
  <2>. QED BY <2>1, <2>2, <2>3, TypeFields, OneMoreRecord
<1>2. result \in Outcomes
  <2>1. Mutations[i] \in MutationConfig
    BY PackTyped DEF TypeOK
  <2>. QED BY <2>1, TypeFields, ChangedOutcome DEF JobEvent
<1>3. job' = [job EXCEPT !.at = "applying", !.list = job.list \ {i}, !.result = result]
  BY DEF Advance
<1>. HIDE DEF result
<1>4. job' \in JobType
  BY <1>2, <1>3, TypeFields DEF JobType
<1>. QED BY <1>1, <1>4

LEMMA WorksTyped ==
    ASSUME TypeOK, StepInRange, Works
    PROVE  TypeOK'
<1>. USE TypesStay, TypeFields, Frames
<1>1. ASSUME NEW i \in DOMAIN Mutations, NEW found \in BOOLEAN, Advance(i, found),
             UNCHANGED <<pack, at, probe, loop, events, counter, call, target, stop, failure, report>>
      PROVE  TypeOK'
  <2>1. ctl' \in Controller' /\ job' \in JobType
    BY <1>1, AdvanceTyped
  <2>. QED BY <1>1, <2>1 DEF TypeOK, loop, target, stop, JobType
<1>2. ASSUME NEW i \in DOMAIN Mutations, NEW found \in BOOLEAN, MutationApplies(i, found) PROVE TypeOK'
  BY <1>1, <1>2 DEF MutationApplies
<1>3. ASSUME NEW i \in DOMAIN Mutations, MutationDelays(i) PROVE TypeOK'
  <2>1. job' \in JobType
    BY <1>3 DEF MutationDelays, JobType
  <2>. QED BY <1>3, <2>1 DEF MutationDelays, TypeOK, loop, target, stop, JobType
<1>4. ASSUME NEW i \in DOMAIN Mutations, DelayEnds(i) PROVE TypeOK'
  BY <1>1, <1>4 DEF DelayEnds
<1>5. ASSUME NEW i \in DOMAIN Mutations, DelayIsCut(i) PROVE TypeOK'
  <2>1. job' \in JobType
    BY <1>5 DEF DelayIsCut, JobType
  <2>2. ctl' \in Controller
    BY <1>5, OneMoreRecord DEF DelayIsCut, TypeOK, JobEvent
  <2>. QED BY <1>5, <2>1, <2>2, SMTT(60) DEF DelayIsCut, TypeOK, loop, target, stop, JobType
<1>6. ASSUME NEW i \in DOMAIN Mutations, DuplicateStarts(i) PROVE TypeOK'
  <2>1. Id(counter + 1) \in Ids /\ counter + 1 \in Nat
    BY DEF Id, Ids, TypeOK
  <2>2. call' \in CallType /\ call'.of \in Ids
    BY <1>6, <2>1, NoOutcomeTyped DEF DuplicateStarts, Called, CallType
  <2>3. sent' \subseteq Ids
    BY <1>6, <2>2 DEF DuplicateStarts, TypeOK
  <2>4. job' \in JobType
    BY <1>6 DEF DuplicateStarts, JobType
  <2>. QED BY <1>6, <2>1, <2>2, <2>3, <2>4, SMTT(60) DEF DuplicateStarts, TypeOK, loop, stop, JobType, CallType
<1>7. CASE JobEnds
  <2>1. job' \in JobType /\ job.at # "idle"
    BY <1>7 DEF JobEnds, JobType
  <2>2. Steps[job.of].context \in Contexts
    BY <2>1, PackTyped DEF StepInRange, TypeOK
  <2>3. ctl' \in Controller
    <3>1. CASE job.original.error # "none"
      BY <1>7, <3>1 DEF JobEnds, Remembered, TypeOK
    <3>2. CASE job.original.error = "none"
      <4>1. ctl \in Controller
        BY DEF TypeOK
      <4>2. ctl' = [ctl EXCEPT !.previousSuccess[Steps[job.of].context] = job.original]
        BY <1>7, <3>2 DEF JobEnds, Remembered
      <4>. QED BY <2>2, <4>1, <4>2 DEF Controller
    <3>. QED BY <3>1, <3>2
  <2>4. pack' = pack /\ ctl' \in Controller'
    BY <1>7, <2>3 DEF JobEnds
  <2>5. UNCHANGED <<at, probe, loop, events, counter, call, target, stop, failure, report>>
    BY <1>7 DEF JobEnds
  <2>. QED BY <2>1, <2>4, <2>5 DEF TypeOK, loop, target, stop, JobType
<1>. QED BY <1>2, <1>3, <1>4, <1>5, <1>6, <1>7 DEF Works
LEMMA ObservedTyped ==
    ASSUME TypeOK, NEW phase \in {"before", "after"}, NEW probing, Observed(phase, probing),
           at \in {"probing_before", "probing_after"}, probe < Probes
    PROVE  TypeOK' /\ \E e \in EventType :
                        /\ events' = Append(events, e) /\ e.kind = "effect_probe"
                        /\ e.id = call.of /\ e.physical
<1>. USE TypesStay, TypeFields
<1>. DEFINE e == [ Event(call.of, "effect_probe", NoCall, {}, call.outcome, TRUE)
                   EXCEPT !.step = 0, !.attempt = 1 ]
<1>1. /\ call.outcome.error \in ErrorKinds \cup {"none"} /\ call.outcome.commit \in CommitStatuses
      /\ call.outcome.output \in Ids \cup {NoCall}
  BY DEF Outcomes
<1>2. 0 \in 0..Len(Steps) /\ {} \in SUBSET DOMAIN Mutations
  BY PackTyped DEF TypeOK
<1>3. e = [ id |-> call.of, kind |-> "effect_probe", step |-> 0, attempt |-> 1, parent |-> NoCall,
            mutations |-> {}, error |-> call.outcome.error, commit |-> call.outcome.commit,
            output |-> call.outcome.output, underlying |-> call.outcome.error, physical |-> TRUE ]
  <2>. DEFINE b == Event(call.of, "effect_probe", NoCall, {}, call.outcome, TRUE)
  <2>1. b = [ id |-> call.of, kind |-> "effect_probe", step |-> step, attempt |-> attempt,
              parent |-> NoCall, mutations |-> {}, error |-> call.outcome.error,
              commit |-> call.outcome.commit, output |-> call.outcome.output,
              underlying |-> call.outcome.error, physical |-> TRUE ]
    BY Zenon DEF Event
  <2>2. e = [b EXCEPT !.step = 0, !.attempt = 1]
    OBVIOUS
  <2>. HIDE DEF b, e
  <2>. QED BY <2>1, <2>2
<1>4. e \in EventType /\ e.kind = "effect_probe" /\ e.id = call.of /\ e.physical
  BY <1>1, <1>2, <1>3, ZenonT(60) DEF EventType
<1>5. events' = Append(events, e)
  BY DEF Observed
<1>. HIDE DEF e
<1>6. events' \in Seq(EventType)
  BY <1>4, <1>5, AppendProperties DEF TypeOK
<1>7. call' \in CallType
  BY NoOutcomeTyped DEF Observed, NoCallMade, CallType, Id, Ids
<1>8. failure' \in ErrorKinds \cup {"none"} /\ expired' \in BOOLEAN /\ probe' \in 0..Probes
  BY <1>1, RunnerAssumption DEF Observed, TypeOK
<1>9. UNCHANGED <<pack, loop, counter, ctl, job, target, late, interrupted, closing, report>>
  BY DEF Observed
<1>10. at' \in Mains
  BY DEF Observed, Mains
<1>11. TypeOK'
  BY <1>6, <1>7, <1>8, <1>9, <1>10 DEF TypeOK, loop, target, CallType
<1>. QED BY <1>4, <1>5, <1>11
\* The event e of the attempt is added: its id and mutations are those of current.
OfAttempt(e, id, list) ==
    /\ e \in EventType
    /\ e.id = id /\ e.mutations = list
    /\ e.step = step /\ e.parent = parent

LEMMA DeniedTyped ==
    ASSUME TypeOK, StepInRange, AttemptDenied
    PROVE  /\ TypeOK'
           /\ \E e \in EventType :
                 /\ events' = Append(events, e) /\ OfAttempt(e, current'.id, current'.list)
                 /\ e.kind = (IF attempt + 1 > 1 THEN "retry" ELSE "step") /\ e.attempt = attempt + 1
                 /\ e.error = finalError' /\ e.commit = "not_attempted" /\ e.output = NoCall
                 /\ e.underlying = "none" /\ ~e.physical
<1>. USE TypesStay, TypeFields
<1>. DEFINE i == Denial(MatchedNow)
            id == Id(counter + 1)
            error == Mutations[i].type
            b == Event(id, Kind, parent, MatchedNow, Failed(error, "not_attempted"), FALSE)
            e == [b EXCEPT !.attempt = attempt', !.underlying = "none"]
<1>1. /\ attempt' = attempt + 1 /\ counter' = counter + 1
      /\ ctl' = WithRecord(Counted(ctl, ThisStep.call), i, id, "blocked")
      /\ current' = [id |-> id, list |-> MatchedNow]
      /\ parent' = id /\ finalError' = error
      /\ at' = IF Retries(error, attempt') THEN "attempt" ELSE "step_end"
      /\ UNCHANGED <<pack, probe, step, job, call, target, stop, failure, report>>
      /\ at = "attempt" /\ Denies(MatchedNow)
  BY DEF AttemptDenied
<1>2. events' = Append(events, e)
  BY DEF AttemptDenied, MainEvent
<1>3. /\ step \in DOMAIN Steps /\ step \in 0..Len(Steps) /\ ThisStep.call \in Tools
      /\ attempt \in Nat /\ counter \in Nat /\ parent \in Ids \cup {NoCall}
  BY <1>1, PackTyped DEF StepInRange, TypeOK, ThisStep
<1>4. MatchedNow \in SUBSET DOMAIN Mutations
  BY DEF MatchedNow, Matching
<1>5. /\ i \in DOMAIN Mutations /\ error \in Denials
  BY <1>1, <1>4, DenialDenies DEF TypeOK
<1>6. id \in Ids
  BY <1>3 DEF Id, Ids
<1>7. error \in ErrorKinds /\ "not_attempted" \in CommitStatuses
  BY <1>5 DEF Denials, ErrorKinds, CommitStatuses
<1>8. Kind = (IF attempt + 1 > 1 THEN "retry" ELSE "step")
  BY <1>1 DEF Kind
<1>9. ctl' \in Controller
  <2>1. Counted(ctl, ThisStep.call) \in Controller
    BY <1>3, CountedTyped DEF TypeOK
  <2>. QED BY <1>1, <1>5, <1>6, <2>1, OneMoreRecord
<1>. HIDE DEF i, id, error
<1>10. b = [ id |-> id, kind |-> Kind, step |-> step, attempt |-> attempt, parent |-> parent,
             mutations |-> MatchedNow, error |-> error, commit |-> "not_attempted",
             output |-> NoCall, underlying |-> error, physical |-> FALSE ]
  BY DEF Event, Failed
<1>. HIDE DEF b
<1>18. attempt' = attempt + 1
  BY <1>1
<1>11. e = [ id |-> id, kind |-> Kind, step |-> step, attempt |-> attempt + 1, parent |-> parent,
             mutations |-> MatchedNow, error |-> error, commit |-> "not_attempted",
             output |-> NoCall, underlying |-> "none", physical |-> FALSE ]
  <2>. DEFINE kind == Kind
              list == MatchedNow
  <2>. HIDE DEF kind, list
  <2>1. b = [ id |-> id, kind |-> kind, step |-> step, attempt |-> attempt, parent |-> parent,
             mutations |-> list, error |-> error, commit |-> "not_attempted",
             output |-> NoCall, underlying |-> error, physical |-> FALSE ]
    BY <1>10, Zenon DEF kind, list
  <2>2. e = [b EXCEPT !.attempt = attempt + 1, !.underlying = "none"]
    BY <1>18, Zenon
  <2>. HIDE DEF e
  <2>3. e = [ id |-> id, kind |-> kind, step |-> step, attempt |-> attempt + 1, parent |-> parent,
             mutations |-> list, error |-> error, commit |-> "not_attempted",
             output |-> NoCall, underlying |-> "none", physical |-> FALSE ]
    BY <2>1, <2>2
  <2>. QED BY <2>3, Zenon DEF kind, list
<1>. HIDE DEF e
<1>12. e \in EventType
  BY <1>3, <1>4, <1>6, <1>7, <1>8, <1>11 DEF EventType
<1>13. events' \in Seq(EventType)
  BY <1>2, <1>12, AppendProperties DEF TypeOK
<1>14. current' \in [id: Ids, list: SUBSET DOMAIN Mutations] /\ at' \in Mains
       /\ current'.id = id /\ current'.list = MatchedNow
  BY <1>1, <1>4, <1>6 DEF Mains
<1>15. TypeOK'
  BY <1>1, <1>3, <1>6, <1>7, <1>9, <1>13, <1>14 DEF TypeOK, target, stop
<1>16. OfAttempt(e, current'.id, current'.list)
  BY <1>11, <1>12, <1>14 DEF OfAttempt
<1>17. /\ e.kind = (IF attempt + 1 > 1 THEN "retry" ELSE "step") /\ e.attempt = attempt + 1
       /\ e.error = finalError' /\ e.commit = "not_attempted" /\ e.output = NoCall
       /\ e.underlying = "none" /\ ~e.physical
  BY <1>1, <1>8, <1>11
<1>. QED BY <1>2, <1>12, <1>15, <1>16, <1>17

LEMMA CallsTyped ==
    ASSUME TypeOK, StepInRange, AttemptCalls
    PROVE  TypeOK'
<1>. USE TypesStay, TypeFields
<1>1. counter + 1 \in Nat /\ attempt + 1 \in Nat /\ Id(counter + 1) \in Ids
  BY DEF TypeOK, Id, Ids
<1>2. ThisStep.call \in Tools
  BY PackTyped DEF StepInRange, AttemptCalls, TypeOK, ThisStep
<1>3. ctl' \in Controller
  BY <1>2, CountedTyped DEF AttemptCalls, TypeOK
<1>4. MatchedNow \in SUBSET DOMAIN Mutations
  BY DEF MatchedNow, Matching
<1>5. current' \in [id: Ids, list: SUBSET DOMAIN Mutations]
  BY <1>1, <1>4 DEF AttemptCalls
<1>6. call' \in CallType /\ call'.of \in Ids
  BY <1>1, NoOutcomeTyped DEF AttemptCalls, Called, CallType
<1>7. sent' \subseteq Ids
  BY <1>6 DEF AttemptCalls, TypeOK
<1>. QED BY <1>1, <1>3, <1>5, <1>6, <1>7 DEF AttemptCalls, TypeOK, Mains, stop, CallType

\* The event that the call of an attempt leaves.
LEMMA RecordedTyped ==
    ASSUME TypeOK, StepInRange, at = "calling"
    PROVE  /\ Recorded \in Seq(EventType)
           /\ \E e \in EventType :
                 /\ Recorded = Append(events, e) /\ OfAttempt(e, current.id, current.list)
                 /\ e.kind = (IF attempt > 1 THEN "retry" ELSE "step") /\ e.attempt = attempt
                 /\ e.error = call.outcome.error /\ e.commit = call.outcome.commit
                 /\ e.output = call.outcome.output /\ e.underlying = call.outcome.error /\ e.physical
<1>. DEFINE kind == IF attempt > 1 THEN "retry" ELSE "step"
            e == Event(current.id, kind, parent, current.list, call.outcome, TRUE)
<1>1. /\ step \in 0..Len(Steps) /\ attempt \in Nat /\ parent \in Ids \cup {NoCall}
      /\ kind \in {"step", "retry", "duplicate", "effect_probe"}
  BY PackTyped DEF StepInRange, TypeOK
<1>6. kind = (IF attempt > 1 THEN "retry" ELSE "step")
  OBVIOUS
<1>3. Recorded = Append(events, e)
  BY DEF Recorded
<1>. HIDE DEF kind
<1>7. /\ current.id \in Ids /\ current.list \in SUBSET DOMAIN Mutations /\ call.outcome \in Outcomes
  BY TypeFields
<1>8. /\ e \in EventType
      /\ e = [ id |-> current.id, kind |-> kind, step |-> step, attempt |-> attempt,
               parent |-> parent, mutations |-> current.list, error |-> call.outcome.error,
               commit |-> call.outcome.commit, output |-> call.outcome.output,
               underlying |-> call.outcome.error, physical |-> TRUE ]
  BY ONLY <1>1, <1>7, EventTyped, ZenonT(60)
<1>. HIDE DEF e
<1>2. /\ e \in EventType
      /\ e.id = current.id /\ e.kind = kind /\ e.step = step
      /\ e.attempt = attempt /\ e.parent = parent
      /\ e.mutations = current.list /\ e.error = call.outcome.error
      /\ e.commit = call.outcome.commit
      /\ e.output = call.outcome.output /\ e.underlying = call.outcome.error /\ e.physical = TRUE
  BY <1>8
<1>4. Recorded \in Seq(EventType)
  BY <1>2, <1>3, AppendProperties DEF TypeOK
<1>5. OfAttempt(e, current.id, current.list)
  BY <1>2 DEF OfAttempt
<1>. QED BY <1>2, <1>3, <1>4, <1>5, <1>6

LEMMA EndOfAttemptTyped ==
    ASSUME TypeOK, StepInRange, at \in {"calling", "mutating", "abandoning"},
           NEW evs \in Seq(EventType), NEW outcome \in Outcomes, Conclude(evs, outcome),
           ctl' = ctl \/ ctl' = MarkFailed(ctl, current.list, current.id),
           job' = job \/ job' = NoJob, call' = call \/ call' = NoCallMade,
           expired' \in BOOLEAN,
           UNCHANGED <<counter, target, late, interrupted, closing, failure, report>>
    PROVE  TypeOK'
<1>. USE TypesStay, TypeFields
<1>1. /\ events' \in Seq(EventType) /\ parent' \in Ids /\ finalError' \in ErrorKinds \cup {"none"}
      /\ at' \in Mains /\ UNCHANGED <<pack, probe, step, attempt, current>>
  <2>1. outcome.error \in ErrorKinds \cup {"none"}
    BY DEF Outcomes
  <2>. QED BY <2>1, ConcludeShows DEF Mains
<1>2. ctl' \in Controller
  BY MarkFailedMarks DEF TypeOK
<1>3. job' \in JobType
  BY NoOutcomeTyped, PackTyped DEF TypeOK, NoJob, JobType
<1>4. call' \in CallType
  <2>1. NoCallMade \in CallType
    BY NoOutcomeTyped DEF NoCallMade, CallType, Id, Ids
  <2>. QED BY <2>1
<1>. QED BY <1>1, <1>2, <1>3, <1>4 DEF TypeOK, target, JobType, CallType

LEMMA AttemptsTyped ==
    ASSUME TypeOK, StepInRange,
           CallFails \/ CallTooLate \/ CallMutates \/ Mutated \/ MutationThrew \/ Abandons \/ StepEnds
    PROVE  TypeOK'
<1>. USE TypesStay, TypeFields
<1>1. CASE CallFails
  BY <1>1, RecordedTyped, EndOfAttemptTyped DEF CallFails, stop, TypeOK
<1>2. CASE CallTooLate
  BY <1>2, RecordedTyped, EndOfAttemptTyped, ExpiryTyped DEF CallTooLate
<1>3. CASE CallMutates
  <2>1. events' \in Seq(EventType)
    BY <1>3, RecordedTyped DEF CallMutates
  <2>2. step \in 0..Len(Steps) /\ ThisStep.context \in Contexts
    BY <1>3, PackTyped DEF CallMutates, StepInRange, TypeOK, ThisStep
  <2>3. ctl.previousSuccess[ThisStep.context] \in Outcomes
    <3>1. ctl.previousSuccess \in [Contexts -> Outcomes]
      BY ControllerFields DEF TypeOK
    <3>. QED BY <2>2, <3>1
  <2>4. job' \in JobType
    BY <1>3, <2>2, <2>3 DEF CallMutates, JobType
  <2>5. call' \in CallType
    BY <1>3, NoOutcomeTyped DEF CallMutates, NoCallMade, CallType, Id, Ids
  <2>. QED BY <1>3, <2>1, <2>4, <2>5 DEF CallMutates, TypeOK, Mains, loop, target, stop, JobType, CallType
<1>4. CASE Mutated
  <2>1. events \in Seq(EventType) /\ job.result \in Outcomes
    BY DEF TypeOK
  <2>. QED BY <1>4, <2>1, EndOfAttemptTyped DEF Mutated, stop, TypeOK
<1>5. CASE MutationThrew
  <2>1. events \in Seq(EventType)
    BY DEF TypeOK
  <2>. QED BY <1>5, <2>1, EndOfAttemptTyped, ExpiryTyped DEF MutationThrew
<1>6. CASE Abandons
  <2>1. events \in Seq(EventType)
    BY DEF TypeOK
  <2>. QED BY <1>6, <2>1, EndOfAttemptTyped, ExpiryTyped DEF Abandons, stop, TypeOK
<1>7. CASE StepEnds
  <2>1. step \in DOMAIN Steps /\ DOMAIN Steps = 1..Len(Steps) /\ Len(Steps) \in Nat
    BY <1>7, PackTyped DEF StepEnds, StepInRange, TypeOK
  <2>2. step' = 1 \/ step' \in DOMAIN Steps
    BY <1>7, <2>1 DEF StepEnds, loop
  <2>3. failure' \in ErrorKinds \cup {"none"} /\ expired' \in BOOLEAN
    BY <1>7 DEF StepEnds, TypeOK
  <2>4. attempt' \in Nat /\ parent' \in Ids \cup {NoCall} /\ finalError' \in ErrorKinds \cup {"none"}
        /\ current' = current /\ at' \in Mains
    BY <1>7 DEF StepEnds, TypeOK, loop, Mains
  <2>5. UNCHANGED <<pack, probe, events, counter, ctl, job, call, target, late, interrupted, closing,
                    report>>
    BY <1>7 DEF StepEnds
  <2>. QED BY <2>2, <2>3, <2>4, <2>5 DEF TypeOK, target
<1>. QED BY <1>1, <1>2, <1>3, <1>4, <1>5, <1>6, <1>7

LEMMA RepeatsTyped ==
    ASSUME TypeOK, StepInRange, NEW i \in DOMAIN Mutations, DuplicateReturns(i)
    PROVE  /\ TypeOK'
           /\ \E e \in EventType : /\ events' = Append(events, e) /\ e.kind = "duplicate"
                                   /\ e.id = call.of /\ e.physical
<1>. USE TypesStay, TypeFields
<1>. DEFINE e == Event(call.of, "duplicate", JobEvent, {i}, call.outcome, TRUE)
<1>1. step \in 0..Len(Steps) /\ attempt \in Nat /\ JobEvent \in Ids \cup {NoCall}
  BY PackTyped DEF StepInRange, DuplicateReturns, TypeOK, JobEvent
<1>9. "duplicate" \in {"step", "retry", "duplicate", "effect_probe"} /\ {i} \in SUBSET DOMAIN Mutations
  OBVIOUS
<1>10. call.of \in Ids /\ call.outcome \in Outcomes
  OBVIOUS
<1>11. /\ e \in EventType
       /\ e = [ id |-> call.of, kind |-> "duplicate", step |-> step, attempt |-> attempt,
                parent |-> JobEvent, mutations |-> {i}, error |-> call.outcome.error,
                commit |-> call.outcome.commit, output |-> call.outcome.output,
                underlying |-> call.outcome.error, physical |-> TRUE ]
  BY ONLY <1>1, <1>9, <1>10, EventTyped, ZenonT(60)
<1>3. events' = Append(events, e)
  BY DEF DuplicateReturns
<1>. HIDE DEF e
<1>2. e \in EventType /\ e.kind = "duplicate" /\ e.id = call.of /\ e.physical = TRUE
  BY <1>11
<1>4. events' \in Seq(EventType)
  BY <1>2, <1>3, AppendProperties DEF TypeOK
<1>5. ctl' \in Controller /\ job' \in JobType
  BY AdvanceTyped DEF DuplicateReturns
<1>6. call' \in CallType
  BY NoOutcomeTyped DEF DuplicateReturns, NoCallMade, CallType, Id, Ids
<1>8. /\ ctl' \in Controller'
      /\ UNCHANGED <<pack, at, probe, loop, counter, target, stop, failure, report>>
  BY <1>5 DEF DuplicateReturns
<1>7. TypeOK'
  BY <1>4, <1>5, <1>6, <1>8 DEF TypeOK, loop, target, stop, JobType, CallType
<1>. QED BY <1>2, <1>3, <1>7
-------------------------------------------------------------------------------
(* Where the run is, step by step.                                         *)

\* What goes on elsewhere leaves the call with the one that made it, and no signal
\* comes without ending the run.
LEMMA ElsewhereKeeps ==
    ASSUME TypeOK, Elsewhere
    PROVE  /\ expired => expired'
           /\ interrupted' => interrupted \/ expired'
           /\ call'.by = call.by /\ call'.of = call.of
           /\ (call'.at = "idle") <=> (call.at = "idle")
<1>1. CASE DeadlinePasses
  BY <1>1 DEF DeadlinePasses
<1>2. CASE ClientCloses
  BY <1>2 DEF ClientCloses
<1>3. CASE Signal
  BY <1>3 DEF Signal
<1>4. CASE CallSettles
  BY <1>4, TypeFields DEF CallSettles, CallType, stop
<1>5. ASSUME NEW outcome, Resolve(outcome), interrupted' = interrupted, call.at = "open" PROVE
           /\ expired => expired'
           /\ interrupted' => interrupted \/ expired'
           /\ call'.by = call.by /\ call'.of = call.of
           /\ (call'.at = "idle") <=> (call.at = "idle")
  BY <1>5, TypeFields DEF Resolve, CallType
<1>6. ASSUME NEW answer \in Answers, NEW effect \in BOOLEAN, TargetReplies(answer, effect)
      PROVE  \E outcome : Resolve(outcome) /\ interrupted' = interrupted /\ call.at = "open"
  BY <1>6 DEF TargetReplies
<1>7. ASSUME NEW id \in sent, TargetIsSilent(id)
      PROVE  UNCHANGED <<call, expired, interrupted>>
  BY <1>7 DEF TargetIsSilent, stop
<1>8. ASSUME CallBreaks \/ CallTimesOut
      PROVE  \E outcome : Resolve(outcome) /\ interrupted' = interrupted /\ call.at = "open"
  BY <1>8 DEF CallBreaks, CallTimesOut
<1>. QED BY <1>1, <1>2, <1>3, <1>4, <1>5, <1>6, <1>7, <1>8 DEF Elsewhere

LEMMA ElsewhereInRun ==
    ASSUME RunInv, Elsewhere
    PROVE  RunInv'
<1>1. TypeOK'
  BY ElsewhereTyped DEF RunInv
<1>2. /\ Steps' = Steps /\ EmptyController' = EmptyController
      /\ UNCHANGED <<at, probe, step, attempt, parent, current, events, counter, ctl, job>>
  BY Frames, TypesStay DEF loop, EmptyController
<1>3. MainEvents' = MainEvents
  BY <1>2 DEF MainEvents
<1>4. StepInRange' /\ FreshStart'
  BY <1>2, <1>3 DEF RunInv, StepInRange, FreshStart
<1>5. CallIsAwaited'
  BY <1>2, ElsewhereKeeps DEF RunInv, CallIsAwaited
<1>6. JobIsOfAttempt'
  BY <1>2, ElsewhereKeeps DEF RunInv, JobIsOfAttempt
<1>. QED BY <1>1, <1>4, <1>5, <1>6 DEF RunInv

\* controller.after() works only while its attempt waits for it, or is given up on.
LEMMA WorksInRun ==
    ASSUME RunInv, Works, ~MainRuns
    PROVE  RunInv'
<1>. USE DEF RunInv
<1>1. TypeOK'
  BY WorksTyped
<1>2. /\ Steps' = Steps /\ EmptyController' = EmptyController
      /\ UNCHANGED <<at, probe, step, attempt, parent, current, events, committed, late, expired,
                     interrupted, closing>>
  BY Frames, TypesStay DEF loop, stop, EmptyController
<1>3. job.at # "idle" /\ job'.at # "idle" /\ job'.of = job.of
  <2>1. \A i \in DOMAIN Mutations, found \in BOOLEAN :
            Advance(i, found) => job'.at = "applying" /\ job'.of = job.of
    BY TypeFields DEF Advance, JobType
  <2>. QED BY <2>1, TypeFields DEF Works, MutationApplies, MutationDelays, DelayEnds, DelayIsCut,
                                   DuplicateStarts, JobEnds, Applying, JobType
<1>4. /\ at \in {"mutating", "abandoning", "closing", "returned"}
      /\ at \notin {"probing_before", "calling", "probing_after"}
  BY <1>3 DEF JobIsOfAttempt, MainRuns
<1>5. StepInRange' /\ FreshStart' /\ JobIsOfAttempt'
  BY <1>2, <1>3, <1>4 DEF StepInRange, FreshStart, JobIsOfAttempt
<1>6. CallIsAwaited'
  <2>1. call.at # "idle" => call.by = "job" /\ job.at = "calling" /\ ~call.of.probe
    BY <1>4 DEF CallIsAwaited
  <2>2. ASSUME NEW i \in DOMAIN Mutations, DuplicateStarts(i) PROVE CallIsAwaited'
    <3>1. /\ call'.at = "open" /\ call'.by = "job" /\ call'.of = Id(counter') /\ job'.at = "calling"
      BY <2>2, TypeFields DEF DuplicateStarts, Called, JobType
    <3>. QED BY <1>2, <1>4, <3>1 DEF CallIsAwaited, Id
  <2>3. ASSUME NEW i \in DOMAIN Mutations, NEW found \in BOOLEAN,
               MutationApplies(i, found) \/ MutationDelays(i) \/ DelayEnds(i) \/ DelayIsCut(i) \/ JobEnds
        PROVE  CallIsAwaited'
    <3>1. job.at \in {"applying", "delaying"} /\ job'.at # "calling" /\ UNCHANGED <<call, counter>>
      <4>1. Advance(i, TRUE) \/ Advance(i, found) => job'.at = "applying"
        BY TypeFields DEF Advance, JobType
      <4>. QED BY <2>3, <4>1, TypeFields
               DEF MutationApplies, MutationDelays, DelayEnds, DelayIsCut, JobEnds, Applying, JobType
    <3>. QED BY <1>2, <1>4, <2>1, <3>1 DEF CallIsAwaited
  <2>4. CASE JobEnds
    <3>1. job.at = "applying" /\ job'.at = "done" /\ UNCHANGED <<call, counter>>
      BY <2>4, TypeFields DEF JobEnds, JobType
    <3>. QED BY <1>2, <1>4, <2>1, <3>1 DEF CallIsAwaited
  <2>. QED BY <2>2, <2>3, <2>4 DEF Works
<1>. QED BY <1>1, <1>5, <1>6

LEMMA RepeatsInRun ==
    ASSUME RunInv, Repeats, ~MainRuns
    PROVE  RunInv'
<1>. USE DEF RunInv
<1>1. PICK i \in DOMAIN Mutations : DuplicateReturns(i)
  BY DEF Repeats
<1>2. TypeOK' /\ \E e \in EventType : events' = Append(events, e) /\ e.kind = "duplicate"
  BY <1>1, RepeatsTyped
<1>3. /\ Steps' = Steps /\ EmptyController' = EmptyController
      /\ UNCHANGED <<at, probe, step, attempt, parent, current, counter, late, expired,
                     interrupted, closing>>
  BY Frames, TypesStay DEF loop, stop, EmptyController
<1>4. job.at = "calling" /\ job'.at = "applying" /\ job'.of = job.of /\ call'.at = "idle"
  BY <1>1, TypeFields DEF DuplicateReturns, Advance, NoCallMade, JobType
<1>5. at \in {"mutating", "abandoning", "closing", "returned"}
  BY <1>4 DEF JobIsOfAttempt, MainRuns
<1>6. StepInRange' /\ FreshStart' /\ JobIsOfAttempt' /\ CallIsAwaited'
  BY <1>3, <1>4, <1>5 DEF StepInRange, FreshStart, JobIsOfAttempt, CallIsAwaited
<1>. QED BY <1>2, <1>6
LEMMA MovesInRun ==
    ASSUME RunInv, Moves
    PROVE  RunInv'
<1>. USE DEF RunInv
<1>1. TypeOK'
  BY MovesTyped
<1>2. /\ Steps' = Steps /\ EmptyController' = EmptyController
      /\ UNCHANGED <<step, attempt, parent, current, events, counter, ctl, job>>
  BY Frames, TypesStay DEF loop, EmptyController
<1>3. MainEvents' = MainEvents
  BY <1>2 DEF MainEvents
<1>4. /\ DOMAIN Steps = 1..Len(Steps) /\ Len(Steps) \in Nat /\ Steps \in Seq(Step)
      /\ Probes \in Nat /\ probe \in 0..Probes
  BY PackTyped, RunnerAssumption DEF TypeOK
<1>5. CASE Connects \/ ConnectFails \/ ConnectTimesOut \/ ConnectClosed
  <2>1. /\ at \in {"connecting", "connect_closing"} /\ at' \in {"connect_closing", "before"}
        /\ call' = call /\ interrupted' = interrupted /\ (expired => expired')
    <3>1. CASE Connects
      BY <3>1 DEF Connects
    <3>2. CASE ConnectFails
      BY <3>2 DEF ConnectFails, stop
    <3>3. CASE ConnectTimesOut
      BY <3>3 DEF ConnectTimesOut
    <3>4. CASE ConnectClosed
      BY <3>4 DEF ConnectClosed, stop
    <3>. QED BY <1>5, <3>1, <3>2, <3>3, <3>4
  <2>. QED BY <1>1, <1>2, <1>3, <2>1 DEF StepInRange, FreshStart, CallIsAwaited, JobIsOfAttempt
<1>6. ASSUME Observe("before", "probing_before") \/ Observe("after", "probing_after")
      PROVE  RunInv'
  <2>1. /\ (at = "before" /\ at' = "probing_before") \/ (at = "after" /\ at' = "probing_after")
        /\ probe' = probe /\ probe < Probes /\ ~expired
        /\ UNCHANGED stop
        /\ call'.at = "open" /\ call'.by = "main" /\ call'.of.probe
    BY <1>6 DEF Observe, Called, ProbeId
  <2>2. job.at = "idle"
    BY <2>1 DEF JobIsOfAttempt
  <2>. QED BY <1>1, <1>2, <1>3, <2>1, <2>2
              DEF StepInRange, FreshStart, CallIsAwaited, JobIsOfAttempt, stop
<1>7. CASE EndsObserving("before", IF failure = "none" /\ Steps # <<>> THEN "attempt" ELSE "steps_done")
  <2>1. /\ at = "before" /\ at' = (IF failure = "none" /\ Steps # <<>> THEN "attempt" ELSE "steps_done")
        /\ UNCHANGED <<call, stop>>
    BY <1>7 DEF EndsObserving
  <2>2. Steps # <<>> => step \in DOMAIN Steps
    BY <1>4, <2>1 DEF FreshStart
  <2>3. job.at = "idle"
    BY <2>1 DEF JobIsOfAttempt
  <2>. QED BY <1>1, <1>2, <1>3, <2>1, <2>2, <2>3
              DEF StepInRange, FreshStart, CallIsAwaited, JobIsOfAttempt, stop
<1>8. CASE EndsObserving("after", "finish") \/ StepsDone \/ Finish \/ Returns
  <2>1. /\ at \in {"steps_done", "after", "finish", "closing"} /\ at' \in {"after", "finish", "closing", "returned"}
        /\ call' = call /\ interrupted' = interrupted /\ (expired => expired')
    <3>1. CASE EndsObserving("after", "finish")
      BY <3>1 DEF EndsObserving, stop
    <3>2. CASE StepsDone
      BY <3>2 DEF StepsDone, stop
    <3>3. CASE Finish
      BY <3>3 DEF Finish
    <3>4. CASE Returns
      BY <3>4 DEF Returns, stop
    <3>. QED BY <1>8, <3>1, <3>2, <3>3, <3>4
  <2>. QED BY <1>1, <1>2, <1>3, <2>1 DEF StepInRange, FreshStart, CallIsAwaited, JobIsOfAttempt
<1>9. CASE AttemptSkipped
  <2>1. at = "attempt" /\ at' = "step_end" /\ UNCHANGED <<call, stop>>
    BY <1>9 DEF AttemptSkipped
  <2>. QED BY <1>1, <1>2, <1>3, <2>1 DEF StepInRange, FreshStart, CallIsAwaited, JobIsOfAttempt, stop
<1>10. CASE AfterTimesOut
  <2>1. at = "mutating" /\ at' = "abandoning" /\ call' = call /\ expired' /\ interrupted' = interrupted
    BY <1>10 DEF AfterTimesOut
  <2>. QED BY <1>1, <1>2, <1>3, <2>1 DEF StepInRange, FreshStart, CallIsAwaited, JobIsOfAttempt
<1>. QED BY <1>5, <1>6, <1>7, <1>8, <1>9, <1>10 DEF Moves

\* The main events after an event is added.
LEMMA AddedEvents ==
    ASSUME events \in Seq(EventType), NEW e \in EventType, events' = Append(events, e)
    PROVE  /\ Len(events) \in Nat /\ DOMAIN events = 1..Len(events)
           /\ DOMAIN events' = DOMAIN events \cup {Len(events) + 1}
           /\ Len(events) + 1 \notin DOMAIN events
           /\ \A n \in DOMAIN events : events'[n] = events[n] /\ n < Len(events) + 1
           /\ events'[Len(events) + 1] = e
           /\ MainEvents \subseteq DOMAIN events
           /\ e.kind \in {"step", "retry"} => MainEvents' = MainEvents \cup {Len(events) + 1}
           /\ e.kind \notin {"step", "retry"} => MainEvents' = MainEvents
<1>1. /\ Len(events) \in Nat /\ DOMAIN events = 1..Len(events)
      /\ DOMAIN events' = DOMAIN events \cup {Len(events) + 1}
      /\ Len(events) + 1 \notin DOMAIN events
      /\ \A n \in DOMAIN events : events'[n] = events[n] /\ n < Len(events) + 1
      /\ events'[Len(events) + 1] = e
  BY AppendProperties, LenProperties
<1>. QED BY <1>1 DEF MainEvents

LEMMA ObservedInRun ==
    ASSUME RunInv, Observed("before", "probing_before") \/ Observed("after", "probing_after")
    PROVE  RunInv'
<1>. USE DEF RunInv
<1>1. ASSUME NEW phase \in {"before", "after"}, NEW probing \in {"probing_before", "probing_after"},
             Observed(phase, probing), phase = "before" <=> probing = "probing_before"
      PROVE  RunInv'
  <2>1. at = probing /\ probe < Probes
    BY <1>1 DEF Observed, StepInRange
  <2>2. TypeOK' /\ \E e \in EventType : events' = Append(events, e) /\ e.kind = "effect_probe"
    BY <1>1, <2>1, ObservedTyped
  <2>3. MainEvents' = MainEvents
    BY <2>2, AddedEvents DEF TypeOK
  <2>4. /\ UNCHANGED <<pack, step, attempt, parent, current, counter, ctl, job, late, interrupted>>
        /\ at' = phase /\ call'.at = "idle" /\ (expired => expired')
    BY <1>1 DEF Observed, loop, NoCallMade
  <2>5. Steps' = Steps /\ EmptyController' = EmptyController
    BY <2>4 DEF Steps, EmptyController
  <2>6. job.at = "idle"
    BY <2>1 DEF JobIsOfAttempt
  <2>. QED BY <1>1, <2>1, <2>2, <2>3, <2>4, <2>5, <2>6
              DEF StepInRange, FreshStart, CallIsAwaited, JobIsOfAttempt
<1>. QED BY <1>1

\* An attempt is under way: nothing goes on in the background.
LEMMA AttemptsInRun ==
    ASSUME RunInv,
           AttemptDenied \/ AttemptCalls \/ CallFails \/ CallTooLate \/ CallMutates
             \/ Mutated \/ MutationThrew \/ Abandons \/ StepEnds
    PROVE  RunInv'
<1>. USE DEF RunInv
<1>1. TypeOK'
  BY DeniedTyped, CallsTyped, AttemptsTyped
<1>2. pack' = pack /\ Steps' = Steps /\ probe' = probe
  <2>1. pack' = pack /\ probe' = probe
    BY DEF AttemptDenied, AttemptCalls, CallFails, CallTooLate, CallMutates, Mutated, MutationThrew,
           Abandons, StepEnds, Conclude
  <2>. QED BY <2>1 DEF Steps
<1>3. CASE AttemptDenied
  <2>1. /\ at = "attempt" /\ at' \in {"attempt", "step_end"} /\ ~expired
        /\ UNCHANGED <<step, job, call, stop>>
    BY <1>3 DEF AttemptDenied
  <2>2. job.at = "idle" /\ call.at = "idle"
    BY <2>1 DEF JobIsOfAttempt, CallIsAwaited
  <2>. QED BY <1>1, <1>2, <2>1, <2>2 DEF StepInRange, FreshStart, CallIsAwaited, JobIsOfAttempt, stop
<1>4. CASE AttemptCalls
  <2>1. /\ at = "attempt" /\ at' = "calling" /\ ~expired
        /\ UNCHANGED <<step, job, stop>>
        /\ call'.at = "open" /\ call'.by = "main" /\ call'.of = Id(counter') /\ current'.id = Id(counter')
    BY <1>4 DEF AttemptCalls, Called
  <2>2. job.at = "idle"
    BY <2>1 DEF JobIsOfAttempt
  <2>. QED BY <1>1, <1>2, <2>1, <2>2 DEF StepInRange, FreshStart, CallIsAwaited, JobIsOfAttempt, stop, Id
<1>5. ASSUME NEW evs, NEW outcome, Conclude(evs, outcome)
      PROVE  at' \in {"attempt", "step_end"} /\ UNCHANGED <<step, current>>
  BY <1>5 DEF Conclude
<1>6. CASE CallFails \/ CallTooLate
  <2>1. /\ at = "calling" /\ at' \in {"attempt", "step_end"} /\ UNCHANGED <<step, job, interrupted>>
        /\ call'.at = "idle" /\ (expired => expired')
    BY <1>5, <1>6 DEF CallFails, CallTooLate, NoCallMade, stop
  <2>2. job.at = "idle"
    BY <2>1 DEF JobIsOfAttempt
  <2>. QED BY <1>1, <1>2, <2>1, <2>2 DEF StepInRange, FreshStart, CallIsAwaited, JobIsOfAttempt
<1>7. CASE CallMutates
  <2>1. /\ at = "calling" /\ at' = "mutating" /\ UNCHANGED <<step, interrupted, expired>>
        /\ call'.at = "idle" /\ job'.at = "applying" /\ job'.of = step
    BY <1>7 DEF CallMutates, NoCallMade, stop, loop
  <2>. QED BY <1>1, <1>2, <2>1 DEF StepInRange, FreshStart, CallIsAwaited, JobIsOfAttempt
<1>8. CASE Mutated \/ MutationThrew
  <2>1. /\ at = "mutating" /\ at' \in {"attempt", "step_end"} /\ UNCHANGED <<step, interrupted, call>>
        /\ job.at \in {"done", "threw"} /\ job'.at = "idle" /\ (expired => expired')
    BY <1>5, <1>8 DEF Mutated, MutationThrew, NoJob, stop
  <2>2. call.at = "idle"
    BY <2>1 DEF CallIsAwaited
  <2>. QED BY <1>1, <1>2, <2>1, <2>2 DEF StepInRange, FreshStart, CallIsAwaited, JobIsOfAttempt
<1>9. CASE Abandons
  <2>1. /\ at = "abandoning" /\ at' \in {"attempt", "step_end"} /\ UNCHANGED <<step, current, counter, job, call, stop>>
    BY <1>5, <1>9 DEF Abandons
  <2>. QED BY <1>1, <1>2, <2>1 DEF StepInRange, FreshStart, CallIsAwaited, JobIsOfAttempt, stop
<1>10. CASE StepEnds
  <2>1. /\ at = "step_end" /\ at' \in {"steps_done", "attempt"} /\ UNCHANGED <<current, counter, job, call, interrupted>>
        /\ (expired => expired')
        /\ at' = "attempt" => ~expired' /\ step # Len(Steps) /\ step' = step + 1
        /\ at' = "steps_done" => step' = step
    BY <1>10 DEF StepEnds, loop
  <2>2. step \in 1..Len(Steps) /\ DOMAIN Steps = 1..Len(Steps) /\ Len(Steps) \in Nat
    BY <2>1, PackTyped DEF StepInRange, TypeOK
  <2>3. at' = "attempt" => job.at = "idle"
    BY <2>1 DEF JobIsOfAttempt
  <2>4. StepInRange'
    <3>1. ASSUME at' = "attempt" PROVE step' \in DOMAIN Steps
      <4>1. step' = step + 1 /\ step # Len(Steps)
        BY <2>1, <3>1
      <4>2. \A n \in Nat : \A k \in 1..n : k # n => k + 1 \in 1..n
        OBVIOUS
      <4>3. step + 1 \in 1..Len(Steps)
        BY ONLY <2>2, <4>1, <4>2, Zenon
      <4>. QED BY ONLY <2>2, <4>1, <4>3, Zenon
    <3>. QED BY <1>2, <2>1, <2>3, <3>1 DEF StepInRange
  <2>5. FreshStart' /\ CallIsAwaited'
    BY <2>1 DEF FreshStart, CallIsAwaited
  <2>6. JobIsOfAttempt'
    BY <2>1, <2>3 DEF JobIsOfAttempt
  <2>. QED BY <1>1, <2>4, <2>5, <2>6
<1>. QED BY <1>3, <1>4, <1>6, <1>7, <1>8, <1>9, <1>10

LEMMA InitInRun == Init => RunInv
<1>. SUFFICES ASSUME Init PROVE RunInv
  OBVIOUS
<1>1. EmptyController \in Controller
  <2>1. <<>> \in Seq(RecordType)
    OBVIOUS
  <2>. QED BY <2>1, NoOutcomeTyped DEF EmptyController, Controller, RecordType
<1>2. NoCallMade \in CallType /\ NoJob \in JobType /\ Id(0) \in Ids
  <2>1. 0 \in 0..Len(Steps)
    BY PackTyped DEF Init
  <2>. QED BY <2>1, NoOutcomeTyped DEF NoCallMade, NoJob, CallType, JobType, Id, Ids
<1>3. <<>> \in Seq(EventType) /\ NoReport \in [made: BOOLEAN, evaluated: BOOLEAN, records: Seq(RecordType), processClosed: BOOLEAN]
  BY DEF NoReport
<1>4. current \in [id: Ids, list: SUBSET DOMAIN Mutations]
  BY <1>2 DEF Init
<1>5. probe \in 0..Probes
  BY RunnerAssumption DEF Init
<1>6. TypeOK
  BY <1>1, <1>2, <1>3, <1>4, <1>5, ZenonT(60) DEF Init, TypeOK, Mains, JobType, CallType, RecordType
<1>7. MainEvents = {}
  BY DEF Init, MainEvents
<1>. QED BY <1>6, <1>7 DEF Init, RunInv, StepInRange, FreshStart, CallIsAwaited, JobIsOfAttempt, NoCallMade, NoJob

LEMMA RunStep ==
    ASSUME RunInv, [Next]_vars
    PROVE  RunInv'
<1>1. CASE Next
  BY <1>1, NextIs, ElsewhereInRun, MovesInRun, WorksInRun, RepeatsInRun, ObservedInRun, AttemptsInRun
<1>2. CASE UNCHANGED vars
  <2>1. UNCHANGED <<pack, at, probe, step, attempt, parent, current, finalError, events, counter, ctl, job,
                    call, sent, committed, late, expired, interrupted, closing, failure, report>>
    BY <1>2 DEF vars, loop, target, stop
  <2>2. Steps' = Steps /\ MainEvents' = MainEvents /\ EmptyController' = EmptyController
        /\ EventType' = EventType /\ Controller' = Controller /\ Mutations' = Mutations
    BY <2>1, TypesStay DEF MainEvents, EmptyController
  <2>. QED BY <2>1, <2>2 DEF RunInv, TypeOK, StepInRange, FreshStart, CallIsAwaited, JobIsOfAttempt
<1>. QED BY <1>1, <1>2

\* The variables keep their types, for any pack, mutations and target.
THEOREM RunnerTypeCorrect == Spec => []TypeOK
<1>1. Init => RunInv
  BY InitInRun
<1>2. RunInv /\ [Next]_vars => RunInv'
  BY RunStep
<1>3. RunInv => TypeOK
  BY DEF RunInv
<1>. QED BY <1>1, <1>2, <1>3, PTL DEF Spec

-------------------------------------------------------------------------------
(* Events and their ids.                                                   *)

\* Every event has the id of one call; those of the calls that are not over come
\* later than all there are.
IdsCounted ==
    /\ \A n \in DOMAIN events :
          /\ events[n].id.probe <=> events[n].kind = "effect_probe"
          /\ ~events[n].id.probe =>
                /\ events[n].id.n <= counter
                /\ call.at # "idle" /\ ~call.of.probe => events[n].id.n < counter
    /\ ~current.id.probe /\ current.id.n <= counter
    /\ \A n \in MainEvents : events[n].id.n <= current.id.n

\* The event of the attempt that is mutated, or was when the run gave up on it.
CurrentEvents ==
    {n \in MainEvents :
        LET e == events[n] IN
        /\ e.id = current.id /\ e.step = step /\ e.attempt = attempt
        /\ e.mutations = current.list /\ e.physical}

CurrentHasEvent == job.at # "idle" => CurrentEvents # {}

IdInv == IdsCounted /\ EventsOrdered /\ CurrentHasEvent

\* The event e is added, and nothing else changes.
Grows(e) ==
    /\ DOMAIN events' = DOMAIN events \cup {Len(events) + 1}
    /\ Len(events) \in Nat /\ Len(events) + 1 \notin DOMAIN events
    /\ \A n \in DOMAIN events : events'[n] = events[n] /\ n \in Nat /\ n < Len(events) + 1
    /\ events'[Len(events) + 1] = e
    /\ MainEvents \subseteq DOMAIN events
    /\ MainEvents' = IF e.kind \in {"step", "retry"} THEN MainEvents \cup {Len(events) + 1}
                     ELSE MainEvents

LEMMA AppendGrows ==
    ASSUME TypeOK, NEW e \in EventType, events' = Append(events, e)
    PROVE  Grows(e)
<1>1. \A n \in DOMAIN events : n \in Nat
  BY LenProperties DEF TypeOK
<1>. QED BY <1>1, AddedEvents DEF Grows, TypeOK

\* The call of an attempt settled.
Receives == CallFails \/ CallTooLate \/ CallMutates

\* The mutations of an attempt end, or the run gives up on them.
Concludes == Mutated \/ MutationThrew \/ Abandons

\* What a call that settled shows: its outcome, or that the run was over.
Shown == IF CallTooLate THEN Expiry ELSE call.outcome

LEMMA ReceivesOne ==
    ASSUME RunInv, IdInv, Receives
    PROVE  \E e \in EventType :
              /\ Grows(e) /\ OfAttempt(e, current.id, current.list)
              /\ e.kind = (IF attempt > 1 THEN "retry" ELSE "step") /\ e.attempt = attempt
              /\ e.error = Shown.error /\ e.commit = Shown.commit /\ e.output = Shown.output
              /\ e.underlying = call.outcome.error /\ e.physical
<1>1. at = "calling" /\ call.at = "settled" /\ call.by = "main"
  BY DEF Receives, CallFails, CallTooLate, CallMutates, Settled
<1>2. PICK r \in EventType :
         /\ Recorded = Append(events, r) /\ OfAttempt(r, current.id, current.list)
         /\ r.kind = (IF attempt > 1 THEN "retry" ELSE "step") /\ r.attempt = attempt
         /\ r.error = call.outcome.error /\ r.commit = call.outcome.commit
         /\ r.output = call.outcome.output /\ r.underlying = call.outcome.error /\ r.physical
  BY <1>1, RecordedTyped DEF RunInv
<1>3. Recorded \in Seq(EventType)
  BY <1>1, RecordedTyped DEF RunInv
<1>4. events \in Seq(EventType) /\ TypeOK
  BY DEF RunInv, TypeOK
<1>5. CASE CallMutates
  <2>1. events' = Append(events, r) /\ ~CallTooLate
    BY <1>2, <1>5 DEF CallMutates, CallTooLate
  <2>. QED BY <1>2, <1>4, <2>1, AppendGrows DEF Shown
<1>6. CASE CallFails \/ CallTooLate
  <2>1. Conclude(Recorded, Shown) /\ Shown \in Outcomes
    BY <1>4, <1>6, ExpiryTyped, TypeFields DEF CallFails, CallTooLate, Shown
  <2>2. events' \in Seq(EventType) /\ Shows(Recorded, events', Shown)
    BY <1>3, <2>1, ConcludeShows
  <2>3. /\ Len(events) \in Nat /\ DOMAIN events = 1..Len(events)
        /\ DOMAIN Recorded = DOMAIN events \cup {Len(events) + 1}
        /\ Len(events) + 1 \notin DOMAIN events
        /\ \A n \in DOMAIN events : Recorded[n] = events[n] /\ n \in Nat /\ n < Len(events) + 1
        /\ Recorded[Len(events) + 1] = r
    BY <1>2, <1>4, AppendProperties, LenProperties
  <2>4. \A n \in DOMAIN events : events[n].id # current.id
    <3>1. call.of = current.id /\ current.id.probe = FALSE /\ call.of.n = counter
      BY <1>1 DEF RunInv, CallIsAwaited, IdInv, IdsCounted
    <3>2. counter \in Nat
      BY DEF RunInv, TypeOK
    <3>. QED BY <1>1, <3>1, <3>2 DEF IdInv, IdsCounted
  <2>5. /\ DOMAIN events' = DOMAIN events \cup {Len(events) + 1}
        /\ \A n \in DOMAIN events : events'[n] = events[n]
    BY <2>2, <2>3, <2>4 DEF Shows
  <2>6. /\ events'[Len(events) + 1] \in EventType
        /\ OfAttempt(events'[Len(events) + 1], current.id, current.list)
        /\ events'[Len(events) + 1].kind = r.kind /\ events'[Len(events) + 1].attempt = r.attempt
        /\ events'[Len(events) + 1].underlying = r.underlying
        /\ events'[Len(events) + 1].physical = r.physical
        /\ events'[Len(events) + 1].error = Shown.error
        /\ events'[Len(events) + 1].commit = Shown.commit
        /\ events'[Len(events) + 1].output = Shown.output
    <3>. DEFINE k == Len(events) + 1
                e == events'[k]
    <3>1. e \in EventType
      <4>1. \A evs \in Seq(EventType) : \A n \in DOMAIN evs : evs[n] \in EventType
        BY LenProperties, ElementOfSeq
      <4>. QED BY <2>2, <2>5, <4>1
    <3>2. k \in DOMAIN Recorded /\ Recorded[k] = r
      BY <2>3
    <3>. HIDE DEF k
    <3>3. /\ e.id = r.id /\ e.kind = r.kind /\ e.step = r.step /\ e.attempt = r.attempt
          /\ e.parent = r.parent /\ e.mutations = r.mutations
          /\ e.underlying = r.underlying /\ e.physical = r.physical
      BY <2>2, <3>2 DEF Shows
    <3>4. r.id = current.id /\ r.mutations = current.list /\ r.step = step /\ r.parent = parent
      BY <1>2 DEF OfAttempt
    <3>5. e.error = Shown.error /\ e.commit = Shown.commit /\ e.output = Shown.output
      BY <2>2, <3>2, <3>4 DEF Shows
    <3>. HIDE DEF e
    <3>6. OfAttempt(e, current.id, current.list)
      BY <3>1, <3>3, <3>4 DEF OfAttempt
    <3>. QED BY <3>1, <3>3, <3>5, <3>6 DEF e, k
  <2>7. MainEvents \subseteq DOMAIN events
    BY DEF MainEvents
  <2>8. events'[Len(events) + 1].kind \in {"step", "retry"}
    BY <1>2, <2>6
  <2>9. MainEvents' = MainEvents \cup {Len(events) + 1}
    BY <2>5, <2>8 DEF MainEvents
  <2>10. Grows(events'[Len(events) + 1])
    BY <2>3, <2>5, <2>7, <2>8, <2>9 DEF Grows
  <2>. QED BY <1>2, <2>6, <2>10
<1>. QED BY <1>5, <1>6 DEF Receives

LEMMA ConcludesShows ==
    ASSUME RunInv, Concludes
    PROVE  /\ Shows(events, events', IF Mutated THEN job.result ELSE Expiry)
           /\ MainEvents' = MainEvents
           /\ parent' = current.id /\ finalError' = (IF Mutated THEN job.result ELSE Expiry).error
           /\ at' = IF Retries((IF Mutated THEN job.result ELSE Expiry).error, attempt)
                    THEN "attempt" ELSE "step_end"
           /\ UNCHANGED <<pack, probe, step, attempt, current>>
<1>. DEFINE outcome == IF Mutated THEN job.result ELSE Expiry
<1>1. events \in Seq(EventType) /\ outcome \in Outcomes
  BY ExpiryTyped, TypeFields DEF RunInv, TypeOK
<1>2. Conclude(events, outcome)
  <2>1. ~Mutated => Conclude(events, Expiry)
    BY DEF Concludes, MutationThrew, Abandons
  <2>2. Mutated => Conclude(events, job.result)
    BY DEF Mutated
  <2>. QED BY <2>1, <2>2
<1>. HIDE DEF outcome
<1>3. /\ Shows(events, events', outcome)
      /\ parent' = current.id /\ finalError' = outcome.error
      /\ at' = IF Retries(outcome.error, attempt) THEN "attempt" ELSE "step_end"
      /\ UNCHANGED <<pack, probe, step, attempt, current>>
  BY ONLY <1>1, <1>2, ConcludeShows
<1>4. MainEvents' = MainEvents
  BY <1>3 DEF Shows, MainEvents
<1>. QED BY <1>3, <1>4 DEF outcome

\* What else a call that settled, and the end of the mutations, leave.
LEMMA ReceivesLeaves ==
    ASSUME Receives
    PROVE  /\ at = "calling" /\ call.at = "settled" /\ call.by = "main" /\ call'.at = "idle"
           /\ UNCHANGED <<pack, probe, step, attempt, counter, current, sent, committed, late,
                          interrupted, closing, failure, report>>
           /\ (expired' <=> expired \/ CallTooLate)
           /\ IF CallMutates THEN at' = "mutating"
              ELSE /\ at' = IF Retries(Shown.error, attempt) THEN "attempt" ELSE "step_end"
                   /\ parent' = current.id /\ finalError' = Shown.error
                   /\ job' = job
           /\ ctl' = IF CallTooLate THEN MarkFailed(ctl, current.list, current.id) ELSE ctl
<1>1. CASE CallFails
  <2>1. ~CallTooLate /\ ~CallMutates
    BY <1>1 DEF CallFails, CallTooLate, CallMutates
  <2>2. at = "calling" /\ call.at = "settled" /\ call.by = "main" /\ call'.at = "idle"
    BY <1>1 DEF CallFails, Settled, NoCallMade
  <2>3. /\ Conclude(Recorded, call.outcome)
        /\ UNCHANGED <<pack, counter, ctl, job, target, stop, failure, report>>
    BY <1>1 DEF CallFails
  <2>. QED BY <2>1, <2>2, <2>3 DEF Conclude, Shown, target, stop
<1>2. CASE CallTooLate
  <2>1. ~CallMutates
    BY <1>2 DEF CallTooLate, CallMutates
  <2>2. at = "calling" /\ call.at = "settled" /\ call.by = "main" /\ call'.at = "idle"
    BY <1>2 DEF CallTooLate, Settled, NoCallMade
  <2>3. /\ Conclude(Recorded, Expiry) /\ expired' = TRUE
        /\ ctl' = MarkFailed(ctl, current.list, current.id)
        /\ UNCHANGED <<pack, counter, job, target, late, interrupted, closing, failure, report>>
    BY <1>2 DEF CallTooLate
  <2>. QED BY <1>2, <2>1, <2>2, <2>3 DEF Conclude, Shown, target
<1>3. CASE CallMutates
  <2>1. ~CallTooLate
    BY <1>3 DEF CallTooLate, CallMutates
  <2>2. at = "calling" /\ call.at = "settled" /\ call.by = "main" /\ call'.at = "idle"
    BY <1>3 DEF CallMutates, Settled, NoCallMade
  <2>3. /\ UNCHANGED <<pack, probe, loop, counter, ctl, target, stop, failure, report>>
        /\ at' = "mutating"
    BY <1>3 DEF CallMutates
  <2>4. UNCHANGED <<pack, probe, step, attempt, counter, current, sent, committed, late,
                    interrupted, closing, failure, report, expired, ctl>>
    BY <2>3 DEF loop, target, stop
  <2>. QED BY <1>3, <2>1, <2>2, <2>3, <2>4
<1>. QED BY <1>1, <1>2, <1>3 DEF Receives

LEMMA ConcludesLeaves ==
    ASSUME Concludes
    PROVE  /\ at \in {"mutating", "abandoning"}
           /\ UNCHANGED <<pack, probe, step, attempt, current, counter, call, sent, committed, late,
                          interrupted, closing, failure, report>>
           /\ (expired' <=> expired \/ MutationThrew)
           /\ ctl' = IF Mutated THEN ctl ELSE MarkFailed(ctl, current.list, current.id)
           /\ IF Abandons THEN at = "abandoning" /\ job' = job
              ELSE /\ at = "mutating" /\ job' = NoJob
                   /\ Mutated <=> job.at = "done"
                   /\ ~Mutated <=> job.at = "threw"
<1>1. ASSUME NEW evs, NEW outcome, Conclude(evs, outcome)
      PROVE  UNCHANGED <<pack, probe, step, attempt, current>>
  BY <1>1 DEF Conclude
<1>2. CASE Mutated
  <2>1. ~MutationThrew /\ ~Abandons
    BY <1>2 DEF Mutated, MutationThrew, Abandons
  <2>2. /\ at = "mutating" /\ job.at = "done" /\ job' = NoJob /\ Conclude(events, job.result)
        /\ UNCHANGED <<pack, counter, ctl, call, target, stop, failure, report>>
    BY <1>2 DEF Mutated
  <2>. QED BY <1>1, <1>2, <2>1, <2>2 DEF target, stop
<1>3. CASE MutationThrew
  <2>1. ~Mutated /\ ~Abandons
    BY <1>3 DEF Mutated, MutationThrew, Abandons
  <2>2. /\ at = "mutating" /\ job.at = "threw" /\ job' = NoJob /\ Conclude(events, Expiry)
        /\ expired' = TRUE /\ ctl' = MarkFailed(ctl, current.list, current.id)
        /\ UNCHANGED <<pack, counter, call, target, late, interrupted, closing, failure, report>>
    BY <1>3 DEF MutationThrew
  <2>. QED BY <1>1, <1>3, <2>1, <2>2 DEF target
<1>4. CASE Abandons
  <2>1. ~MutationThrew /\ ~Mutated
    BY <1>4 DEF Mutated, MutationThrew, Abandons
  <2>2. /\ at = "abandoning" /\ Conclude(events, Expiry)
        /\ ctl' = MarkFailed(ctl, current.list, current.id)
        /\ UNCHANGED <<pack, counter, job, call, target, stop, failure, report>>
    BY <1>4 DEF Abandons
  <2>. QED BY <1>1, <1>4, <2>1, <2>2 DEF target, stop
<1>. QED BY <1>2, <1>3, <1>4 DEF Concludes

\* Nothing happens to the events.
Quietly == Elsewhere \/ Moves \/ Works \/ AttemptCalls \/ StepEnds \/ UNCHANGED vars

LEMMA QuietlyKeeps ==
    ASSUME Quietly
    PROVE  events' = events /\ MainEvents' = MainEvents
<1>1. events' = events
  BY Frames DEF Quietly, AttemptCalls, StepEnds, vars
<1>. QED BY <1>1 DEF MainEvents

\* The steps of the run, once more.
LEMMA NextByEvents ==
    ASSUME RunInv, [Next]_vars
    PROVE  \/ Quietly \/ (Repeats /\ ~MainRuns)
           \/ Observed("before", "probing_before") \/ Observed("after", "probing_after")
           \/ AttemptDenied \/ Receives \/ Concludes
BY NextIs DEF Quietly, Receives, Concludes

\* The call and the counter, while nothing happens to the events.
LEMMA QuietCalls ==
    ASSUME RunInv, Quietly
    PROVE  /\ counter \in Nat /\ counter <= counter'
           /\ current' = current \/ (current'.id = Id(counter') /\ counter' = counter + 1)
           /\ \/ call'.at = "idle" \/ call'.of.probe
              \/ call'.at # "idle" /\ call'.of = call.of /\ call.at # "idle" /\ counter' = counter
              \/ call'.of = Id(counter') /\ counter' = counter + 1
<1>. USE DEF RunInv
<1>0. counter \in Nat
  BY DEF TypeOK
<1>1. CASE Elsewhere
  BY <1>0, <1>1, ElsewhereKeeps, Frames DEF loop
<1>2. CASE Moves
  <2>1. counter' = counter /\ current' = current
    BY <1>2, Frames DEF loop
  <2>2. CASE Observe("before", "probing_before") \/ Observe("after", "probing_after")
    <3>1. call'.of.probe
      BY <2>2 DEF Observe, Called, ProbeId
    <3>. QED BY <1>0, <2>1, <3>1
  <2>3. CASE ~(Observe("before", "probing_before") \/ Observe("after", "probing_after"))
    <3>1. call' = call
      BY <1>2, <2>3 DEF Moves, Connects, ConnectFails, ConnectTimesOut, ConnectClosed, EndsObserving,
                        AttemptSkipped, AfterTimesOut, StepsDone, Finish, Returns
    <3>. QED BY <1>0, <2>1, <3>1
  <2>. QED BY <2>2, <2>3
<1>3. CASE Works
  <2>1. current' = current
    BY <1>3, Frames DEF loop
  <2>2. ASSUME NEW i \in DOMAIN Mutations, DuplicateStarts(i)
        PROVE  call'.of = Id(counter') /\ counter' = counter + 1
    BY <2>2 DEF DuplicateStarts, Called
  <2>3. \/ \E i \in DOMAIN Mutations : DuplicateStarts(i)
        \/ call' = call /\ counter' = counter
    BY <1>3 DEF Works, MutationApplies, MutationDelays, DelayEnds, DelayIsCut, JobEnds
  <2>. QED BY <1>0, <2>1, <2>2, <2>3
<1>4. CASE AttemptCalls
  BY <1>0, <1>4 DEF AttemptCalls, Called
<1>5. CASE StepEnds
  BY <1>0, <1>5 DEF StepEnds, loop
<1>6. CASE UNCHANGED vars
  BY <1>0, <1>6 DEF vars, loop
<1>. QED BY <1>1, <1>2, <1>3, <1>4, <1>5, <1>6 DEF Quietly

LEMMA IdsStayCounted ==
    ASSUME RunInv, IdInv, [Next]_vars
    PROVE  IdsCounted' /\ EventsOrdered'
<1>. USE DEF IdInv
<1>0. /\ counter \in Nat /\ current.id.n \in Nat /\ \A n \in DOMAIN events : events[n].id.n \in Nat
      /\ MainEvents \subseteq DOMAIN events
  <2>1. \A n \in DOMAIN events : events[n] \in EventType
    BY LenProperties, ElementOfSeq DEF RunInv, TypeOK
  <2>. QED BY <2>1, TypeFields DEF RunInv, TypeOK, EventType, Ids, MainEvents
<1>1. CASE Quietly
  <2>1. events' = events /\ MainEvents' = MainEvents
    BY <1>1, QuietlyKeeps
  <2>2. /\ counter <= counter' /\ counter' \in Nat
        /\ current' = current \/ (current'.id = Id(counter') /\ counter' = counter + 1)
        /\ \/ call'.at = "idle" \/ call'.of.probe
           \/ call'.at # "idle" /\ call'.of = call.of /\ call.at # "idle" /\ counter' = counter
           \/ call'.of = Id(counter') /\ counter' = counter + 1
    BY <1>1, QuietCalls, RunStep DEF RunInv, TypeOK
  <2>3. EventsOrdered'
    BY <2>1 DEF EventsOrdered
  <2>4. ~current'.id.probe /\ current'.id.n <= counter' /\ current.id.n <= current'.id.n
    BY <1>0, <2>2 DEF IdsCounted, Id
  <2>5. ASSUME NEW n \in DOMAIN events, ~events[n].id.probe
        PROVE  /\ events[n].id.n <= counter'
               /\ call'.at # "idle" /\ ~call'.of.probe => events[n].id.n < counter'
    BY <1>0, <2>2, <2>5 DEF IdsCounted
  <2>6. \A n \in MainEvents : events[n].id.n <= current'.id.n
    <3>1. current'.id.n \in Nat
      BY RunStep, TypeFields DEF RunInv, TypeOK, Ids
    <3>. QED BY <1>0, <2>4, <3>1 DEF IdsCounted
  <2>7. \A n \in DOMAIN events : events[n].id.probe <=> events[n].kind = "effect_probe"
    BY DEF IdsCounted
  <2>. QED BY <2>1, <2>3, <2>4, <2>5, <2>6, <2>7 DEF IdsCounted
<1>2. ASSUME NEW e \in EventType, Grows(e), e.id.probe, e.kind = "effect_probe",
             call'.at = "idle", UNCHANGED <<counter, current>>
      PROVE  IdsCounted' /\ EventsOrdered'
  <2>1. EventsOrdered'
    BY <1>2 DEF Grows, EventsOrdered
  <2>2. IdsCounted'
    BY <1>2 DEF Grows, IdsCounted
  <2>. QED BY <2>1, <2>2
<1>3. ASSUME NEW e \in EventType, Grows(e), ~e.id.probe, e.kind # "effect_probe", e.id.n = counter',
             call'.at = "idle" \/ call'.of.probe, counter' \in Nat,
             \A n \in DOMAIN events : ~events[n].id.probe => events[n].id.n < counter',
             current'.id.n \in Nat, current.id.n <= current'.id.n, current'.id.n <= counter',
             e.kind = "duplicate" \/ current'.id.n = counter', ~current'.id.probe
      PROVE  IdsCounted' /\ EventsOrdered'
  <2>1. EventsOrdered'
    <3>. SUFFICES ASSUME NEW m \in DOMAIN events', NEW n \in DOMAIN events', m < n,
                         ~events'[m].id.probe, ~events'[n].id.probe
                  PROVE  events'[m].id.n < events'[n].id.n
      BY DEF EventsOrdered
    <3>1. m \in DOMAIN events
      BY <1>3 DEF Grows
    <3>2. CASE n \in DOMAIN events
      BY <1>3, <3>1, <3>2 DEF Grows, EventsOrdered
    <3>3. CASE n = Len(events) + 1
      BY <1>3, <3>1, <3>3 DEF Grows
    <3>. QED BY <1>3, <3>2, <3>3 DEF Grows
  <2>2. ASSUME NEW n \in DOMAIN events'
        PROVE  /\ events'[n].id.probe <=> events'[n].kind = "effect_probe"
               /\ ~events'[n].id.probe => events'[n].id.n <= counter'
    <3>1. CASE n \in DOMAIN events
      BY <1>0, <1>3, <3>1 DEF Grows, IdsCounted
    <3>2. CASE n = Len(events) + 1
      BY <1>3, <3>2 DEF Grows
    <3>. QED BY <1>3, <3>1, <3>2 DEF Grows
  <2>3. ASSUME NEW n \in MainEvents' PROVE events'[n].id.n <= current'.id.n
    <3>1. CASE n \in MainEvents
      BY <1>0, <1>3, <3>1 DEF Grows, IdsCounted
    <3>2. CASE n = Len(events) + 1 /\ e.kind \in {"step", "retry"}
      BY <1>3, <3>2 DEF Grows
    <3>. QED BY <1>3, <3>1, <3>2 DEF Grows
  <2>4. IdsCounted'
    BY <1>3, <2>2, <2>3 DEF IdsCounted
  <2>. QED BY <2>1, <2>4
<1>4. ASSUME NEW phase \in {"before", "after"}, NEW probing \in {"probing_before", "probing_after"},
             Observed(phase, probing)
      PROVE  IdsCounted' /\ EventsOrdered'
  <2>1. at = probing /\ probe < Probes /\ call.of.probe /\ TypeOK
    BY <1>4 DEF Observed, RunInv, StepInRange, CallIsAwaited
  <2>2. PICK e \in EventType : events' = Append(events, e) /\ e.kind = "effect_probe" /\ e.id = call.of
    BY <1>4, <2>1, ObservedTyped
  <2>3. call'.at = "idle" /\ UNCHANGED <<counter, current>>
    BY <1>4 DEF Observed, NoCallMade, loop
  <2>. QED BY <1>2, <2>1, <2>2, <2>3, AppendGrows
<1>5. CASE Repeats
  <2>1. PICK i \in DOMAIN Mutations : DuplicateReturns(i)
    BY <1>5 DEF Repeats
  <2>2. PICK e \in EventType : events' = Append(events, e) /\ e.kind = "duplicate" /\ e.id = call.of
    BY <2>1, RepeatsTyped DEF RunInv
  <2>3. call.at # "idle" /\ call.by = "job" /\ ~call.of.probe /\ call.of.n = counter
    BY <2>1 DEF DuplicateReturns, Settled, RunInv, CallIsAwaited
  <2>4. call'.at = "idle" /\ UNCHANGED <<counter, current>>
    BY <2>1 DEF DuplicateReturns, NoCallMade, loop
  <2>5. Grows(e)
    BY <2>2, AppendGrows DEF RunInv
  <2>6. \A n \in DOMAIN events : ~events[n].id.probe => events[n].id.n < counter'
    BY <2>3, <2>4 DEF IdsCounted
  <2>7. ~current.id.probe /\ current.id.n <= counter
    BY DEF IdsCounted
  <2>. QED BY <1>0, <1>3, <2>2, <2>3, <2>4, <2>5, <2>6, <2>7
<1>6. CASE AttemptDenied
  <2>1. PICK e \in EventType :
           /\ events' = Append(events, e) /\ OfAttempt(e, current'.id, current'.list)
           /\ e.kind \in {"step", "retry"}
    BY <1>6, DeniedTyped DEF RunInv
  <2>2. /\ current'.id = Id(counter + 1) /\ counter' = counter + 1 /\ call' = call
        /\ at = "attempt" /\ ~expired
    BY <1>6 DEF AttemptDenied
  <2>3. call.at = "idle"
    BY <2>2 DEF RunInv, CallIsAwaited, JobIsOfAttempt
  <2>4. Grows(e) /\ e.id = Id(counter + 1)
    BY <2>1, <2>2, AppendGrows DEF RunInv, OfAttempt
  <2>5. /\ \A n \in DOMAIN events : ~events[n].id.probe => events[n].id.n < counter'
        /\ current'.id.n = counter' /\ ~current'.id.probe /\ current.id.n <= current'.id.n
        /\ e.id.n = counter' /\ ~e.id.probe
    BY <1>0, <2>2, <2>4 DEF IdsCounted, Id
  <2>. QED BY <1>0, <1>3, <2>1, <2>2, <2>3, <2>4, <2>5
<1>7. CASE Receives
  <2>1. PICK e \in EventType :
           /\ Grows(e) /\ OfAttempt(e, current.id, current.list) /\ e.kind \in {"step", "retry"}
    BY <1>7, ReceivesOne
  <2>2. /\ at = "calling" /\ call'.at = "idle" /\ UNCHANGED <<counter, current>>
    BY <1>7, ReceivesLeaves
  <2>3. call.at # "idle" /\ call.of = current.id /\ ~current.id.probe /\ current.id.n = counter
    BY <2>2 DEF RunInv, CallIsAwaited, IdsCounted
  <2>4. \A n \in DOMAIN events : ~events[n].id.probe => events[n].id.n < counter'
    BY <2>2, <2>3 DEF IdsCounted
  <2>5. e.id = current.id
    BY <2>1 DEF OfAttempt
  <2>. QED BY <1>0, <1>3, <2>1, <2>2, <2>3, <2>4, <2>5
<1>8. CASE Concludes
  <2>1. /\ MainEvents' = MainEvents /\ DOMAIN events' = DOMAIN events /\ current' = current
        /\ \A n \in DOMAIN events : events'[n].id = events[n].id /\ events'[n].kind = events[n].kind
    BY <1>8, ConcludesShows DEF Shows
  <2>2. counter' = counter /\ call' = call
    BY <1>8, ConcludesLeaves
  <2>3. EventsOrdered'
    BY <2>1 DEF EventsOrdered
  <2>4. IdsCounted'
    BY <1>0, <2>1, <2>2 DEF IdsCounted
  <2>. QED BY <2>3, <2>4
<1>. QED BY <1>1, <1>4, <1>5, <1>6, <1>7, <1>8, NextByEvents

LEMMA CurrentKeepsEvent ==
    ASSUME RunInv, IdInv, [Next]_vars
    PROVE  CurrentHasEvent'
<1>. USE DEF RunInv, IdInv
<1>1. CASE Quietly
  <2>1. events' = events /\ MainEvents' = MainEvents
    BY <1>1, QuietlyKeeps
  <2>2. CASE Elsewhere \/ Moves \/ UNCHANGED vars
    <3>1. UNCHANGED <<step, attempt, current, job>>
      BY <2>2, Frames DEF loop, vars
    <3>. QED BY <2>1, <3>1 DEF CurrentHasEvent, CurrentEvents
  <2>3. CASE Works
    <3>1. UNCHANGED <<step, attempt, current>>
      BY <2>3, Frames DEF loop
    <3>2. job.at # "idle"
      BY <2>3 DEF Works, MutationApplies, MutationDelays, DelayEnds, DelayIsCut, DuplicateStarts,
                  JobEnds, Applying
    <3>. QED BY <2>1, <3>1, <3>2 DEF CurrentHasEvent, CurrentEvents
  <2>4. CASE AttemptCalls
    <3>1. job'.at = "idle"
      BY <2>4 DEF AttemptCalls, JobIsOfAttempt
    <3>. QED BY <3>1 DEF CurrentHasEvent
  <2>5. CASE StepEnds
    <3>1. at = "step_end" /\ job' = job /\ (expired => UNCHANGED loop)
      BY <2>5 DEF StepEnds
    <3>2. job.at # "idle" => expired
      BY <3>1 DEF JobIsOfAttempt
    <3>. QED BY <2>1, <3>1, <3>2 DEF CurrentHasEvent, CurrentEvents, loop
  <2>. QED BY <1>1, <2>2, <2>3, <2>4, <2>5 DEF Quietly
<1>2. ASSUME NEW e, Grows(e), UNCHANGED <<step, attempt, current>>, job'.at # "idle" => job.at # "idle"
      PROVE  CurrentHasEvent'
  <2>1. MainEvents \subseteq MainEvents' /\ \A n \in MainEvents : events'[n] = events[n]
    BY <1>2 DEF Grows
  <2>2. CurrentEvents \subseteq CurrentEvents'
    BY <1>2, <2>1 DEF CurrentEvents
  <2>. QED BY <1>2, <2>2 DEF CurrentHasEvent
<1>3. ASSUME NEW phase \in {"before", "after"}, NEW probing \in {"probing_before", "probing_after"},
             Observed(phase, probing)
      PROVE  CurrentHasEvent'
  <2>1. at = probing /\ probe < Probes
    BY <1>3 DEF Observed, StepInRange
  <2>2. PICK e \in EventType : events' = Append(events, e)
    BY <1>3, <2>1, ObservedTyped
  <2>3. UNCHANGED <<step, attempt, current, job>>
    BY <1>3 DEF Observed, loop
  <2>. QED BY <1>2, <2>2, <2>3, AppendGrows
<1>4. CASE Repeats
  <2>1. PICK i \in DOMAIN Mutations : DuplicateReturns(i)
    BY <1>4 DEF Repeats
  <2>2. PICK e \in EventType : events' = Append(events, e)
    BY <2>1, RepeatsTyped
  <2>3. UNCHANGED <<step, attempt, current>> /\ job.at # "idle"
    BY <2>1 DEF DuplicateReturns, loop
  <2>. QED BY <1>2, <2>2, <2>3, AppendGrows
<1>5. CASE AttemptDenied
  <2>1. job'.at = "idle"
    BY <1>5 DEF AttemptDenied, JobIsOfAttempt
  <2>. QED BY <2>1 DEF CurrentHasEvent
<1>6. CASE Receives
  <2>1. PICK e \in EventType :
           /\ Grows(e) /\ OfAttempt(e, current.id, current.list) /\ e.kind \in {"step", "retry"}
           /\ e.attempt = attempt /\ e.physical
    BY <1>6, ReceivesOne
  <2>2. UNCHANGED <<step, attempt, current>>
    BY <1>6, ReceivesLeaves
  <2>3. Len(events) + 1 \in MainEvents' /\ events'[Len(events) + 1] = e
    BY <2>1 DEF Grows
  <2>4. Len(events) + 1 \in CurrentEvents'
    BY <2>1, <2>2, <2>3 DEF CurrentEvents, OfAttempt
  <2>. QED BY <2>4 DEF CurrentHasEvent
<1>7. CASE Concludes
  <2>1. /\ MainEvents' = MainEvents /\ MainEvents \subseteq DOMAIN events
        /\ UNCHANGED <<step, attempt, current>>
        /\ \A n \in DOMAIN events :
              /\ events'[n].id = events[n].id /\ events'[n].step = events[n].step
              /\ events'[n].attempt = events[n].attempt /\ events'[n].mutations = events[n].mutations
              /\ events'[n].physical = events[n].physical
    BY <1>7, ConcludesShows DEF Shows, MainEvents
  <2>2. CurrentEvents' = CurrentEvents
    BY <2>1 DEF CurrentEvents
  <2>3. job'.at # "idle" => job.at # "idle"
    BY <1>7, ConcludesLeaves DEF NoJob
  <2>. QED BY <2>2, <2>3 DEF CurrentHasEvent
<1>. QED BY <1>1, <1>3, <1>4, <1>5, <1>6, <1>7, NextByEvents

LEMMA InitIds == Init => IdInv
BY DEF Init, IdInv, IdsCounted, EventsOrdered, CurrentHasEvent, MainEvents, Id, NoJob

LEMMA IdsStep ==
    ASSUME RunInv, IdInv, [Next]_vars
    PROVE  RunInv' /\ IdInv'
BY RunStep, IdsStayCounted, CurrentKeepsEvent DEF IdInv

-------------------------------------------------------------------------------
(* Attempts and the retry policy.                                          *)

\* Attempt k of step s may come after the event of the call named from.
Follows(from, s, k) ==
    IF k = 1 THEN from = NoCall
    ELSE \E m \in MainEvents :
            /\ events[m].id = from /\ events[m].step = s /\ events[m].attempt = k - 1
            /\ events[m].error \in Steps[s].on

\* The next attempt, or the one that is called, is one that the policy provides for.
AttemptsPlanned ==
    /\ at = "attempt" =>
          attempt + 1 <= Steps[step].max_attempts /\ Follows(parent, step, attempt + 1)
    /\ at = "calling" =>
          attempt \in 1..Steps[step].max_attempts /\ Follows(parent, step, attempt)

\* No event of an attempt comes after that of the current one.
LEMMA CurrentIsLast ==
    ASSUME RunInv, IdInv, NEW m \in MainEvents, events[m].id = current.id
    PROVE  /\ \A n \in MainEvents : ~(m < n)
           /\ \A n \in MainEvents : events[n].id = current.id => n = m
<1>1. /\ MainEvents \subseteq DOMAIN events /\ \A n \in DOMAIN events : n \in Nat
      /\ \A n \in DOMAIN events : events[n].id.n \in Nat
  <2>1. \A n \in DOMAIN events : n \in Nat /\ events[n] \in EventType
    BY LenProperties, ElementOfSeq DEF RunInv, TypeOK
  <2>. QED BY <2>1 DEF EventType, Ids, MainEvents
<1>2. current.id.n \in Nat /\ ~current.id.probe
  BY TypeFields DEF RunInv, IdInv, IdsCounted, Ids
<1>3. \A n \in MainEvents : events[n].id.n <= current.id.n /\ ~events[n].id.probe
  BY <1>1 DEF IdInv, IdsCounted, MainEvents
<1>4. \A n \in MainEvents : ~(m < n)
  BY <1>1, <1>2, <1>3 DEF IdInv, EventsOrdered
<1>5. ASSUME NEW n \in MainEvents, events[n].id = current.id PROVE n = m
  <2>1. ~(n < m) /\ ~(m < n)
    BY <1>1, <1>2, <1>3, <1>4, <1>5 DEF IdInv, EventsOrdered
  <2>. QED BY <1>1, <2>1
<1>. QED BY <1>4, <1>5

\* An event that grows the list keeps the policy when it follows it.
LEMMA PolicyGrows ==
    ASSUME RunInv, RetriesFollowPolicy, Steps' = Steps, NEW e \in EventType, Grows(e),
           e.kind \in {"step", "retry"} =>
              /\ e.attempt \in 1..Steps[e.step].max_attempts
              /\ Follows(e.parent, e.step, e.attempt)
              /\ e.attempt = 1 => e.kind = "step"
    PROVE  RetriesFollowPolicy'
<1>. SUFFICES ASSUME NEW n \in MainEvents'
              PROVE  /\ events'[n].attempt \in 1..Steps[events'[n].step].max_attempts
                     /\ IF events'[n].attempt = 1
                        THEN events'[n].parent = NoCall /\ events'[n].kind = "step"
                        ELSE \E m \in MainEvents' :
                                /\ m < n /\ events'[m].id = events'[n].parent
                                /\ events'[m].step = events'[n].step
                                /\ events'[m].attempt = events'[n].attempt - 1
                                /\ events'[m].error \in Steps[events'[n].step].on
  BY DEF RetriesFollowPolicy
<1>1. MainEvents \subseteq MainEvents' /\ \A m \in MainEvents : events'[m] = events[m] /\ m < Len(events) + 1
  BY DEF Grows
<1>2. CASE n \in MainEvents
  <2>1. /\ events[n].attempt \in 1..Steps[events[n].step].max_attempts
        /\ IF events[n].attempt = 1
           THEN events[n].parent = NoCall /\ events[n].kind = "step"
           ELSE \E m \in MainEvents :
                   /\ m < n /\ events[m].id = events[n].parent
                   /\ events[m].step = events[n].step
                   /\ events[m].attempt = events[n].attempt - 1
                   /\ events[m].error \in Steps[events[n].step].on
    BY <1>2 DEF RetriesFollowPolicy
  <2>. QED BY <1>1, <1>2, <2>1
<1>3. CASE n = Len(events) + 1 /\ e.kind \in {"step", "retry"}
  <2>1. events'[n] = e
    BY <1>3 DEF Grows
  <2>2. Follows(e.parent, e.step, e.attempt) /\ e.attempt \in 1..Steps[e.step].max_attempts
        /\ (e.attempt = 1 => e.kind = "step")
    BY <1>3
  <2>. QED BY <1>1, <1>3, <2>1, <2>2 DEF Follows
<1>. QED BY <1>2, <1>3 DEF Grows

PolicyInv == AttemptsPlanned /\ RetriesFollowPolicy

LEMMA PlannedStays ==
    ASSUME RunInv, AttemptsPlanned, Steps' = Steps, events' = events, MainEvents' = MainEvents,
           UNCHANGED <<at, attempt, parent, step>>
    PROVE  AttemptsPlanned'
BY DEF AttemptsPlanned, Follows

LEMMA PolicyQuiet ==
    ASSUME RunInv, PolicyInv, [Next]_vars, Quietly
    PROVE  PolicyInv'
<1>. USE DEF RunInv, PolicyInv
<1>1. Steps' = Steps /\ events' = events /\ MainEvents' = MainEvents
  BY PackStays, QuietlyKeeps
<1>2. RetriesFollowPolicy'
  BY <1>1 DEF RetriesFollowPolicy
<1>3. CASE Elsewhere \/ Works \/ UNCHANGED vars
  <2>1. UNCHANGED <<at, attempt, parent, step>>
    BY <1>3, Frames DEF loop, vars
  <2>. QED BY <1>1, <1>2, <2>1, PlannedStays
<1>4. CASE Moves
  <2>1. UNCHANGED <<attempt, parent, step>>
    BY <1>4, Frames DEF loop
  <2>2. /\ at' # "calling"
        /\ at' = "attempt" => at = "before" /\ Steps # <<>>
    BY <1>4 DEF Moves, Connects, ConnectFails, ConnectTimesOut, ConnectClosed, Observe, EndsObserving,
                AttemptSkipped, AfterTimesOut, StepsDone, Finish, Returns
  <2>3. ASSUME at' = "attempt"
        PROVE  attempt' + 1 <= Steps[step'].max_attempts /\ parent' = NoCall /\ attempt' + 1 = 1
    <3>1. attempt = 0 /\ parent = NoCall /\ step = 1 /\ 1 \in DOMAIN Steps
      BY <2>2, <2>3, PackTyped DEF FreshStart, TypeOK
    <3>2. Steps[1].max_attempts \in Nat \ {0}
      BY <3>1, PackTyped DEF TypeOK
    <3>. QED BY <2>1, <3>1, <3>2
  <2>4. AttemptsPlanned'
    BY <1>1, <2>2, <2>3 DEF AttemptsPlanned, Follows
  <2>. QED BY <1>2, <2>4
<1>5. CASE AttemptCalls
  <2>1. /\ at = "attempt" /\ at' = "calling" /\ attempt' = attempt + 1
        /\ UNCHANGED <<step, parent>>
    BY <1>5 DEF AttemptCalls
  <2>2. attempt + 1 <= Steps[step].max_attempts /\ Follows(parent, step, attempt + 1)
    BY <2>1 DEF AttemptsPlanned
  <2>3. attempt' \in 1..Steps[step].max_attempts
    <3>1. attempt \in Nat /\ Steps[step].max_attempts \in Nat
      BY <2>1, PackTyped DEF StepInRange, TypeOK
    <3>. QED BY <2>1, <2>2, <3>1
  <2>4. AttemptsPlanned'
    BY <1>1, <2>1, <2>2, <2>3 DEF AttemptsPlanned, Follows
  <2>. QED BY <1>2, <2>4
<1>6. CASE StepEnds
  <2>1. /\ at' # "calling"
        /\ at' = "attempt" => attempt' = 0 /\ parent' = NoCall
    BY <1>6 DEF StepEnds
  <2>2. ASSUME at' = "attempt" PROVE Steps[step'].max_attempts \in Nat \ {0}
    <3>1. step' \in DOMAIN Steps
      BY <1>1, <2>2, RunStep DEF StepInRange
    <3>. QED BY <3>1, PackTyped DEF TypeOK
  <2>3. AttemptsPlanned'
    BY <1>1, <2>1, <2>2 DEF AttemptsPlanned, Follows
  <2>. QED BY <1>2, <2>3
<1>. QED BY <1>3, <1>4, <1>5, <1>6 DEF Quietly

LEMMA RetriesFollows ==
    ASSUME NEW m \in MainEvents', events'[m].id = parent', events'[m].step = step',
           events'[m].attempt = attempt', attempt' \in Nat \ {0}, Steps' = Steps,
           step' = step, step \in DOMAIN Steps, pack \in Packs,
           Retries(events'[m].error, attempt')
    PROVE  attempt' + 1 <= Steps[step'].max_attempts /\ Follows(parent, step, attempt + 1)'
<1>1. events'[m].error \in Steps[step].on /\ attempt' < Steps[step].max_attempts
      /\ Steps[step].max_attempts \in Nat
  BY PackTyped DEF Retries, ThisStep
<1>2. attempt' + 1 <= Steps[step'].max_attempts
  <2>1. \A k \in Nat : \A n \in Nat : k < n => k + 1 <= n
    OBVIOUS
  <2>. QED BY <1>1, <2>1
<1>3. attempt' + 1 # 1 /\ (attempt' + 1) - 1 = attempt'
  <2>1. \A k \in Nat \ {0} : k + 1 # 1 /\ (k + 1) - 1 = k
    OBVIOUS
  <2>. QED BY <2>1
<1>4. events'[m].error \in Steps'[step'].on
  BY <1>1
<1>. QED BY <1>2, <1>3, <1>4 DEF Follows

LEMMA PolicyStep ==
    ASSUME RunInv, IdInv, PolicyInv, [Next]_vars
    PROVE  PolicyInv'
<1>. USE DEF RunInv, PolicyInv
<1>1. Steps' = Steps /\ attempt \in Nat
  BY PackStays DEF TypeOK
<1>2. ASSUME NEW e \in EventType, Grows(e), e.kind \notin {"step", "retry"},
             at \notin {"attempt", "calling"}, at' \notin {"attempt", "calling"}
      PROVE  PolicyInv'
  BY <1>1, <1>2, PolicyGrows DEF AttemptsPlanned
<1>3. ASSUME NEW phase \in {"before", "after"}, NEW probing \in {"probing_before", "probing_after"},
             Observed(phase, probing)
      PROVE  PolicyInv'
  <2>1. at = probing /\ probe < Probes /\ at' = phase
    BY <1>3 DEF Observed, StepInRange
  <2>2. PICK e \in EventType : events' = Append(events, e) /\ e.kind = "effect_probe"
    BY <1>3, <2>1, ObservedTyped
  <2>. QED BY <1>2, <2>1, <2>2, AppendGrows
<1>4. CASE Repeats /\ ~MainRuns
  <2>1. PICK i \in DOMAIN Mutations : DuplicateReturns(i)
    BY <1>4 DEF Repeats
  <2>2. PICK e \in EventType : events' = Append(events, e) /\ e.kind = "duplicate"
    BY <2>1, RepeatsTyped
  <2>3. at' = at /\ at \notin {"attempt", "calling"}
    BY <1>4, <2>1 DEF DuplicateReturns, JobIsOfAttempt, MainRuns
  <2>. QED BY <1>2, <2>2, <2>3, AppendGrows
<1>5. CASE AttemptDenied
  <2>1. PICK e \in EventType :
           /\ events' = Append(events, e) /\ OfAttempt(e, current'.id, current'.list)
           /\ e.kind = (IF attempt + 1 > 1 THEN "retry" ELSE "step") /\ e.attempt = attempt + 1
           /\ e.error = finalError'
    BY <1>5, DeniedTyped
  <2>2. /\ at = "attempt" /\ attempt' = attempt + 1 /\ step' = step /\ parent' = current'.id
        /\ at' = IF Retries(finalError', attempt') THEN "attempt" ELSE "step_end"
    BY <1>5 DEF AttemptDenied
  <2>3. Grows(e) /\ e.step = step /\ e.parent = parent /\ e.id = current'.id
    BY <2>1, AppendGrows DEF OfAttempt
  <2>4. /\ attempt + 1 <= Steps[step].max_attempts /\ Follows(parent, step, attempt + 1)
        /\ step \in DOMAIN Steps /\ Steps[step].max_attempts \in Nat
    BY <2>2, PackTyped DEF AttemptsPlanned, StepInRange, TypeOK
  <2>5. e.kind \in {"step", "retry"} /\ (e.attempt = 1 => e.kind = "step")
    BY <1>1, <2>1
  <2>6. RetriesFollowPolicy'
    <3>1. e.attempt \in 1..Steps[e.step].max_attempts /\ Follows(e.parent, e.step, e.attempt)
      BY <1>1, <2>1, <2>3, <2>4
    <3>. QED BY <1>1, <2>3, <2>5, <3>1, PolicyGrows
  <2>7. Len(events) + 1 \in MainEvents' /\ events'[Len(events) + 1] = e
    BY <2>3, <2>5 DEF Grows
  <2>8. ASSUME at' = "attempt"
        PROVE  attempt' + 1 <= Steps[step'].max_attempts /\ Follows(parent, step, attempt + 1)'
    <3>1. Retries(finalError', attempt') /\ attempt' \in Nat \ {0} /\ pack \in Packs
      BY <1>1, <2>2, <2>8 DEF TypeOK
    <3>. DEFINE m == Len(events) + 1
    <3>2. /\ m \in MainEvents' /\ events'[m].id = parent' /\ events'[m].step = step'
          /\ events'[m].attempt = attempt' /\ events'[m].error = finalError'
          /\ step' = step /\ Steps' = Steps
      BY <1>1, <2>1, <2>2, <2>3, <2>7
    <3>. HIDE DEF m
    <3>. QED BY <2>4, <3>1, <3>2, RetriesFollows
  <2>9. AttemptsPlanned'
    BY <1>1, <2>2, <2>8 DEF AttemptsPlanned
  <2>. QED BY <2>6, <2>9
<1>6. CASE Receives
  <2>1. PICK e \in EventType :
           /\ Grows(e) /\ OfAttempt(e, current.id, current.list)
           /\ e.kind = (IF attempt > 1 THEN "retry" ELSE "step") /\ e.attempt = attempt
           /\ e.error = Shown.error
    BY <1>6, ReceivesOne
  <2>2. /\ at = "calling" /\ UNCHANGED <<step, attempt, current>>
        /\ IF CallMutates THEN at' = "mutating"
           ELSE /\ at' = IF Retries(Shown.error, attempt) THEN "attempt" ELSE "step_end"
                /\ parent' = current.id
    BY <1>6, ReceivesLeaves
  <2>3. e.step = step /\ e.parent = parent /\ e.id = current.id
    BY <2>1 DEF OfAttempt
  <2>4. /\ attempt \in 1..Steps[step].max_attempts /\ Follows(parent, step, attempt)
        /\ step \in DOMAIN Steps /\ Steps[step].max_attempts \in Nat
    BY <2>2, PackTyped DEF AttemptsPlanned, StepInRange, TypeOK
  <2>5. e.kind \in {"step", "retry"} /\ (e.attempt = 1 => e.kind = "step")
    BY <1>1, <2>1
  <2>6. RetriesFollowPolicy'
    BY <1>1, <2>1, <2>3, <2>4, <2>5, PolicyGrows
  <2>7. Len(events) + 1 \in MainEvents' /\ events'[Len(events) + 1] = e
    BY <2>1, <2>5 DEF Grows
  <2>8. ASSUME at' = "attempt"
        PROVE  attempt' + 1 <= Steps[step'].max_attempts /\ Follows(parent, step, attempt + 1)'
    <3>1. Retries(Shown.error, attempt') /\ attempt' \in Nat \ {0} /\ pack \in Packs
          /\ parent' = current.id
      BY <1>1, <2>2, <2>4, <2>8 DEF TypeOK
    <3>. QED BY <1>1, <2>1, <2>2, <2>3, <2>4, <2>7, <3>1, RetriesFollows
  <2>9. AttemptsPlanned'
    BY <1>1, <2>2, <2>8 DEF AttemptsPlanned
  <2>. QED BY <2>6, <2>9
<1>7. CASE Concludes
  <2>. DEFINE outcome == IF Mutated THEN job.result ELSE Expiry
  <2>1. /\ Shows(events, events', outcome) /\ MainEvents' = MainEvents
        /\ parent' = current.id
        /\ at' = IF Retries(outcome.error, attempt) THEN "attempt" ELSE "step_end"
        /\ UNCHANGED <<pack, probe, step, attempt, current>>
    BY <1>7, ConcludesShows
  <2>2. at \in {"mutating", "abandoning"} /\ job.at # "idle" /\ step \in DOMAIN Steps
    BY <1>7, ConcludesLeaves DEF JobIsOfAttempt, StepInRange
  <2>. HIDE DEF outcome
  <2>3. PICK m \in MainEvents :
           /\ events[m].id = current.id /\ events[m].step = step /\ events[m].attempt = attempt
    BY <2>2 DEF IdInv, CurrentHasEvent, CurrentEvents
  <2>4. /\ MainEvents \subseteq DOMAIN events
        /\ \A n \in MainEvents :
              /\ events'[n].id = events[n].id /\ events'[n].kind = events[n].kind
              /\ events'[n].step = events[n].step /\ events'[n].attempt = events[n].attempt
              /\ events'[n].parent = events[n].parent
              /\ n # m => events'[n].error = events[n].error
    BY <2>1, <2>3, CurrentIsLast DEF Shows, MainEvents
  <2>5. events'[m].error = outcome.error
    BY <2>1, <2>3, <2>4 DEF Shows
  <2>6. RetriesFollowPolicy'
    <3>1. \A n \in MainEvents : ~(m < n)
      BY <2>3, CurrentIsLast
    <3>. QED BY <1>1, <2>1, <2>4, <3>1 DEF RetriesFollowPolicy
  <2>7. ASSUME at' = "attempt"
        PROVE  attempt' + 1 <= Steps[step'].max_attempts /\ Follows(parent, step, attempt + 1)'
    <3>1. attempt \in Nat \ {0}
      <4>1. attempt \in 1..Steps[step].max_attempts
        BY <2>3 DEF RetriesFollowPolicy
      <4>2. Steps[step].max_attempts \in Nat
        BY <2>2, PackTyped DEF TypeOK
      <4>. QED BY <4>1, <4>2
    <3>2. Retries(outcome.error, attempt') /\ pack \in Packs
      BY <2>1, <2>7 DEF TypeOK
    <3>. QED BY <1>1, <2>1, <2>2, <2>3, <2>4, <2>5, <3>1, <3>2, RetriesFollows
  <2>8. AttemptsPlanned'
    BY <1>1, <2>1, <2>7 DEF AttemptsPlanned
  <2>. QED BY <2>6, <2>8
<1>. QED BY <1>3, <1>4, <1>5, <1>6, <1>7, PolicyQuiet, NextByEvents

LEMMA InitPolicy == Init => PolicyInv
BY DEF Init, PolicyInv, AttemptsPlanned, RetriesFollowPolicy, MainEvents

-------------------------------------------------------------------------------
(* Which call of a tool an attempt is.                                     *)

CallsOf(tool) == {m \in MainEvents : Steps[events[m].step].call = tool}

\* The controller has counted the calls that have an event, and the one that is
\* under way: it meets the mutations declared for that number.
CallsCounted ==
    /\ \A tool \in Tools :
          ctl.calls[tool] = Cardinality(CallsOf(tool)) +
                            (IF at = "calling" /\ ThisStep.call = tool THEN 1 ELSE 0)
    /\ at = "calling" => current.list = Matching(ThisStep.call, ctl.calls[ThisStep.call])

CountInv == CallsCounted /\ MutationsOfRank

LEMMA CallsOfFinite ==
    ASSUME RunInv, NEW tool
    PROVE  /\ IsFiniteSet(CallsOf(tool)) /\ Cardinality(CallsOf(tool)) \in Nat
           /\ CallsOf(tool) \subseteq DOMAIN events
<1>1. CallsOf(tool) \in SUBSET (1..Len(events)) /\ Len(events) \in Nat /\ DOMAIN events = 1..Len(events)
  BY LenProperties DEF CallsOf, MainEvents, RunInv, TypeOK
<1>2. IsFiniteSet(1..Len(events))
  BY <1>1, FS_Interval
<1>3. IsFiniteSet(CallsOf(tool))
  BY <1>1, <1>2, FS_Subset
<1>. QED BY <1>1, <1>3, FS_CardinalityType

\* An event is added: its mutations are those of the next number.
LEMMA CountGrows ==
    ASSUME RunInv, MutationsOfRank, Steps' = Steps, Mutations' = Mutations,
           NEW e \in EventType, Grows(e), e.kind \in {"step", "retry"},
           e.mutations = Matching(Steps[e.step].call, Cardinality(CallsOf(Steps[e.step].call)) + 1)
    PROVE  /\ MutationsOfRank'
           /\ \A tool \in Tools :
                 Cardinality(CallsOf(tool)') = Cardinality(CallsOf(tool)) +
                                               (IF Steps[e.step].call = tool THEN 1 ELSE 0)
<1>1. /\ MainEvents' = MainEvents \cup {Len(events) + 1} /\ Len(events) + 1 \notin MainEvents
      /\ \A n \in MainEvents : events'[n] = events[n] /\ n \in Nat /\ n < Len(events) + 1
      /\ events'[Len(events) + 1] = e /\ Len(events) \in Nat
  BY DEF Grows
<1>2. ASSUME NEW tool
      PROVE  CallsOf(tool)' = IF Steps[e.step].call = tool THEN CallsOf(tool) \cup {Len(events) + 1}
                              ELSE CallsOf(tool)
  <2>1. CallsOf(tool)' = {m \in MainEvents' : Steps[events'[m].step].call = tool}
    BY DEF CallsOf
  <2>2. CallsOf(tool) = {m \in MainEvents : Steps[events[m].step].call = tool}
    BY DEF CallsOf
  <2>. QED BY <1>1, <2>1, <2>2
<1>3. ASSUME NEW tool
      PROVE  Cardinality(CallsOf(tool)') = Cardinality(CallsOf(tool)) +
                                           (IF Steps[e.step].call = tool THEN 1 ELSE 0)
  <2>1. /\ IsFiniteSet(CallsOf(tool)) /\ Cardinality(CallsOf(tool)) \in Nat
        /\ Len(events) + 1 \notin CallsOf(tool)
    BY <1>1, CallsOfFinite DEF CallsOf
  <2>2. Cardinality(CallsOf(tool) \cup {Len(events) + 1}) = Cardinality(CallsOf(tool)) + 1
    BY <2>1, FS_AddElement
  <2>3. CASE Steps[e.step].call = tool
    BY <1>2, <2>2, <2>3
  <2>4. CASE Steps[e.step].call # tool
    BY <1>2, <2>1, <2>4
  <2>. QED BY <2>3, <2>4
<1>4. MutationsOfRank'
  <2>. SUFFICES ASSUME NEW n \in MainEvents'
                PROVE  events'[n].mutations =
                         Matching(Steps[events'[n].step].call,
                                  Cardinality({m \in MainEvents' :
                                     /\ m < n
                                     /\ Steps[events'[m].step].call = Steps[events'[n].step].call}) + 1)
    <3>1. \A tool, k : Matching(tool, k)' = Matching(tool, k)
      BY DEF Matching
    <3>. QED BY <3>1 DEF MutationsOfRank, Matching
  <2>1. CASE n \in MainEvents
    <3>. DEFINE old == {m \in MainEvents :
                          m < n /\ Steps[events[m].step].call = Steps[events[n].step].call}
                new == {m \in MainEvents' :
                          m < n /\ Steps[events'[m].step].call = Steps[events'[n].step].call}
    <3>1. ~(Len(events) + 1 < n) /\ events'[n] = events[n] /\ n < Len(events) + 1
      BY <1>1, <2>1
    <3>2. new = old
      BY <1>1, <2>1, <3>1
    <3>3. events[n].mutations = Matching(Steps[events[n].step].call, Cardinality(old) + 1)
      BY <2>1 DEF MutationsOfRank
    <3>. QED BY <3>1, <3>2, <3>3
  <2>2. CASE n = Len(events) + 1
    <3>. DEFINE new == {m \in MainEvents' :
                          m < n /\ Steps[events'[m].step].call = Steps[events'[n].step].call}
    <3>1. events'[n] = e
      BY <1>1, <2>2
    <3>2. new = CallsOf(Steps[e.step].call)
      <4>1. \A m : m \in new <=> m \in MainEvents /\ Steps[events[m].step].call = Steps[e.step].call
        <5>1. ~(Len(events) + 1 < n)
          BY <1>1, <2>2
        <5>2. \A m \in MainEvents : m < n /\ events'[m] = events[m] /\ m \in MainEvents'
          BY <1>1, <2>2
        <5>3. \A m \in MainEvents' : m < n => m \in MainEvents
          BY <1>1, <5>1
        <5>. QED BY <3>1, <5>2, <5>3
      <4>2. \A m : m \in CallsOf(Steps[e.step].call)
                     <=> m \in MainEvents /\ Steps[events[m].step].call = Steps[e.step].call
        BY DEF CallsOf
      <4>. HIDE DEF new
      <4>. QED BY <4>1, <4>2
    <3>. QED BY <3>1, <3>2
  <2>. QED BY <1>1, <2>1, <2>2
<1>. QED BY <1>3, <1>4

\* The attempts and their mutations do not change.
SameCalls ==
    /\ MainEvents' = MainEvents
    /\ \A n \in MainEvents : events'[n].step = events[n].step /\ events'[n].mutations = events[n].mutations

LEMMA SameCallsCount ==
    ASSUME Steps' = Steps, Mutations' = Mutations, SameCalls
    PROVE  /\ MutationsOfRank => MutationsOfRank'
           /\ \A tool : CallsOf(tool)' = CallsOf(tool)
<1>1. \A tool : CallsOf(tool)' = CallsOf(tool)
  BY DEF CallsOf, SameCalls
<1>2. ASSUME MutationsOfRank PROVE MutationsOfRank'
  <2>. SUFFICES ASSUME NEW n \in MainEvents
                PROVE  events'[n].mutations =
                         Matching(Steps[events'[n].step].call,
                                  Cardinality({m \in MainEvents :
                                     /\ m < n
                                     /\ Steps[events'[m].step].call = Steps[events'[n].step].call}) + 1)
    BY DEF MutationsOfRank, Matching, SameCalls
  <2>. DEFINE old == {m \in MainEvents :
                        m < n /\ Steps[events[m].step].call = Steps[events[n].step].call}
              new == {m \in MainEvents :
                        m < n /\ Steps[events'[m].step].call = Steps[events'[n].step].call}
  <2>1. new = old
    BY DEF SameCalls
  <2>2. events[n].mutations = Matching(Steps[events[n].step].call, Cardinality(old) + 1)
    BY <1>2 DEF MutationsOfRank
  <2>. QED BY <2>1, <2>2 DEF SameCalls
<1>. QED BY <1>1, <1>2

\* Nothing is called, and the controller counts nothing.
LEMMA CountStays ==
    ASSUME RunInv, CountInv, Steps' = Steps, Mutations' = Mutations, SameCalls,
           ctl'.calls = ctl.calls,
           \/ at' # "calling" /\ at # "calling"
           \/ UNCHANGED <<at, step, current>>
    PROVE  CountInv'
<1>1. MutationsOfRank' /\ \A tool : CallsOf(tool)' = CallsOf(tool)
  BY SameCallsCount DEF CountInv
<1>2. ASSUME at' # "calling", at # "calling" PROVE CallsCounted'
  BY <1>1, <1>2 DEF CallsCounted, CountInv
<1>3. ASSUME UNCHANGED <<at, step, current>> PROVE CallsCounted'
  BY <1>1, <1>3 DEF CallsCounted, CountInv, ThisStep, Matching
<1>. QED BY <1>1, <1>2, <1>3 DEF CountInv

\* What the work on mutations does to the controller.
LEMMA WorkCounts ==
    ASSUME RunInv, Works \/ Repeats
    PROVE  ctl'.calls = ctl.calls
<1>0. ctl \in Controller /\ JobEvent \in Ids
  BY TypeFields DEF RunInv, TypeOK, JobEvent
<1>1. ASSUME NEW i \in DOMAIN Mutations, NEW result \in {"applied", "blocked", "failed"},
             ctl' = WithRecord(ctl, i, JobEvent, result)
      PROVE  ctl'.calls = ctl.calls
  BY <1>0, <1>1, OneMoreRecord
<1>2. ASSUME NEW i \in DOMAIN Mutations, NEW found, Advance(i, found)
      PROVE  ctl'.calls = ctl.calls
  <2>1. PICK result \in {"applied", "failed"} : ctl' = WithRecord(ctl, i, JobEvent, result)
    BY <1>2, Zenon DEF Advance
  <2>. QED BY <1>1, <2>1
<1>3. ASSUME JobEnds PROVE ctl'.calls = ctl.calls
  <2>1. CASE job.original.error # "none"
    BY <1>3, <2>1 DEF JobEnds, Remembered
  <2>2. CASE job.original.error = "none"
    <3>1. ctl' = [ctl EXCEPT !.previousSuccess[Steps[job.of].context] = job.original]
      BY <1>3, <2>2 DEF JobEnds, Remembered
    <3>. QED BY <1>0, <3>1 DEF Controller
  <2>. QED BY <2>1, <2>2
<1>4. ASSUME NEW i \in DOMAIN Mutations, DelayIsCut(i) PROVE ctl'.calls = ctl.calls
  BY <1>1, <1>4 DEF DelayIsCut
<1>5. ASSUME NEW i \in DOMAIN Mutations, MutationDelays(i) \/ DuplicateStarts(i)
      PROVE  ctl'.calls = ctl.calls
  BY <1>5 DEF MutationDelays, DuplicateStarts
<1>6. ASSUME NEW i \in DOMAIN Mutations, NEW found \in BOOLEAN,
             MutationApplies(i, found) \/ DelayEnds(i) \/ DuplicateReturns(i)
      PROVE  ctl'.calls = ctl.calls
  BY <1>2, <1>6 DEF MutationApplies, DelayEnds, DuplicateReturns
<1>. QED BY <1>3, <1>4, <1>5, <1>6 DEF Works, Repeats

LEMMA CountStep ==
    ASSUME RunInv, IdInv, CountInv, [Next]_vars
    PROVE  CountInv'
<1>0. /\ Steps' = Steps /\ Mutations' = Mutations /\ ctl \in Controller
      /\ current.id \in Ids /\ current.list \in SUBSET DOMAIN Mutations /\ pack \in Packs
  BY PackStays, TypeFields DEF RunInv, TypeOK
<1>1. CASE Elsewhere \/ UNCHANGED vars
  <2>1. UNCHANGED <<at, step, current, ctl>>
    BY <1>1, Frames DEF loop, vars
  <2>2. SameCalls
    BY <1>1, QuietlyKeeps DEF Quietly, SameCalls
  <2>. QED BY <1>0, <2>1, <2>2, CountStays
<1>2. CASE Moves \/ StepEnds
  <2>1. ctl' = ctl
    BY <1>2, Frames DEF StepEnds
  <2>2. at # "calling" /\ at' # "calling"
    BY <1>2 DEF Moves, StepEnds, Connects, ConnectFails, ConnectTimesOut, ConnectClosed, Observe,
                EndsObserving, AttemptSkipped, AfterTimesOut, StepsDone, Finish, Returns
  <2>3. SameCalls
    BY <1>2, QuietlyKeeps DEF Quietly, SameCalls
  <2>. QED BY <1>0, <2>1, <2>2, <2>3, CountStays
<1>3. CASE Works
  <2>1. UNCHANGED <<at, step, current>> /\ ctl'.calls = ctl.calls
    BY <1>3, Frames, WorkCounts DEF loop
  <2>2. SameCalls
    BY <1>3, QuietlyKeeps DEF Quietly, SameCalls
  <2>. QED BY <1>0, <2>1, <2>2, CountStays
<1>4. CASE AttemptCalls
  <2>1. /\ at = "attempt" /\ at' = "calling" /\ step' = step
        /\ ctl' = Counted(ctl, ThisStep.call) /\ current'.list = MatchedNow
    BY <1>4 DEF AttemptCalls
  <2>2. SameCalls
    BY <1>4, QuietlyKeeps DEF Quietly, SameCalls
  <2>3. MutationsOfRank' /\ \A tool : CallsOf(tool)' = CallsOf(tool)
    BY <1>0, <2>2, SameCallsCount DEF CountInv
  <2>4. ThisStep.call \in Tools /\ ThisStep' = ThisStep
    BY <1>0, <2>1, PackTyped DEF ThisStep, RunInv, StepInRange
  <2>5. ctl'.calls = [ctl.calls EXCEPT ![ThisStep.call] = ctl.calls[ThisStep.call] + 1]
    BY <1>0, <2>1, <2>4, CountedTyped
  <2>6. ctl.calls \in [Tools -> Nat]
    BY <1>0, ControllerFields
  <2>7. \A tool \in Tools : ctl.calls[tool] = Cardinality(CallsOf(tool))
    <3>1. \A tool \in Tools : ctl.calls[tool] = Cardinality(CallsOf(tool)) + 0
      BY <2>1 DEF CountInv, CallsCounted
    <3>2. \A tool : Cardinality(CallsOf(tool)) \in Nat
      BY CallsOfFinite
    <3>. QED BY <3>1, <3>2
  <2>8. ASSUME NEW tool \in Tools
        PROVE  ctl'.calls[tool] = Cardinality(CallsOf(tool)') +
                                  (IF at' = "calling" /\ ThisStep'.call = tool THEN 1 ELSE 0)
    <3>1. Cardinality(CallsOf(tool)') = ctl.calls[tool] /\ ctl.calls[tool] \in Nat
      BY <2>3, <2>6, <2>7
    <3>. QED BY <2>1, <2>4, <2>5, <2>6, <3>1
  <2>9. (current.list = Matching(ThisStep.call, ctl.calls[ThisStep.call]))'
    <3>1. ctl'.calls[ThisStep.call] = ctl.calls[ThisStep.call] + 1
      BY <2>4, <2>5, <2>6
    <3>. QED BY <1>0, <2>1, <2>4, <3>1 DEF MatchedNow, Matching
  <2>10. CallsCounted'
    BY <2>8, <2>9 DEF CallsCounted
  <2>. QED BY <2>3, <2>10 DEF CountInv
<1>5. ASSUME NEW e \in EventType, Grows(e), e.kind \notin {"step", "retry"}
      PROVE  SameCalls
  BY <1>5 DEF Grows, SameCalls
<1>6. ASSUME NEW phase \in {"before", "after"}, NEW probing \in {"probing_before", "probing_after"},
             Observed(phase, probing)
      PROVE  CountInv'
  <2>1. at = probing /\ probe < Probes /\ at' = phase /\ ctl' = ctl /\ TypeOK
    BY <1>6 DEF Observed, RunInv, StepInRange
  <2>2. PICK e \in EventType : events' = Append(events, e) /\ e.kind = "effect_probe"
    BY <1>6, <2>1, ObservedTyped
  <2>3. SameCalls
    BY <1>5, <2>1, <2>2, AppendGrows
  <2>. QED BY <1>0, <2>1, <2>3, CountStays
<1>7. CASE Repeats
  <2>1. PICK i \in DOMAIN Mutations : DuplicateReturns(i)
    BY <1>7 DEF Repeats
  <2>2. PICK e \in EventType : events' = Append(events, e) /\ e.kind = "duplicate"
    BY <2>1, RepeatsTyped DEF RunInv
  <2>3. SameCalls
    BY <1>5, <2>2, AppendGrows DEF RunInv
  <2>4. UNCHANGED <<at, step, current>> /\ ctl'.calls = ctl.calls
    BY <1>7, Frames, WorkCounts DEF loop
  <2>. QED BY <1>0, <2>3, <2>4, CountStays
<1>8. CASE AttemptDenied
  <2>1. PICK e \in EventType :
           /\ events' = Append(events, e) /\ OfAttempt(e, current'.id, current'.list)
           /\ e.kind \in {"step", "retry"}
    BY <1>8, DeniedTyped DEF RunInv
  <2>2. /\ at = "attempt" /\ at' # "calling" /\ step' = step
        /\ ctl' = WithRecord(Counted(ctl, ThisStep.call), Denial(MatchedNow), Id(counter + 1), "blocked")
        /\ current'.list = MatchedNow /\ Denies(MatchedNow)
    BY <1>8 DEF AttemptDenied
  <2>3. Grows(e) /\ e.step = step /\ e.mutations = MatchedNow
    BY <2>1, <2>2, AppendGrows DEF OfAttempt, RunInv
  <2>4. ThisStep.call \in Tools /\ ThisStep = Steps[e.step]
    BY <1>0, <2>2, <2>3, PackTyped DEF ThisStep, RunInv, StepInRange
  <2>5. ctl'.calls = [ctl.calls EXCEPT ![ThisStep.call] = ctl.calls[ThisStep.call] + 1]
    <3>. DEFINE c == Counted(ctl, ThisStep.call)
    <3>1. c \in Controller
          /\ c.calls = [ctl.calls EXCEPT ![ThisStep.call] = ctl.calls[ThisStep.call] + 1]
      BY <1>0, <2>4, CountedTyped
    <3>3. ctl' = WithRecord(c, Denial(MatchedNow), Id(counter + 1), "blocked")
      BY <2>2
    <3>2. Denial(MatchedNow) \in DOMAIN Mutations /\ Id(counter + 1) \in Ids
      <4>1. MatchedNow \in SUBSET DOMAIN Mutations
        BY DEF MatchedNow, Matching
      <4>2. counter + 1 \in Nat
        BY DEF RunInv, TypeOK
      <4>. QED BY <1>0, <2>2, <4>1, <4>2, DenialDenies DEF Id, Ids
    <3>. HIDE DEF c
    <3>4. ctl'.calls = c.calls
      BY ONLY <3>1, <3>2, <3>3, OneMoreRecord
    <3>. QED BY <3>1, <3>4
  <2>6. ctl.calls \in [Tools -> Nat]
    BY <1>0, ControllerFields
  <2>7. \A tool \in Tools : ctl.calls[tool] = Cardinality(CallsOf(tool))
    <3>1. \A tool \in Tools : ctl.calls[tool] = Cardinality(CallsOf(tool)) + 0
      BY <2>2 DEF CountInv, CallsCounted
    <3>2. \A tool : Cardinality(CallsOf(tool)) \in Nat
      BY CallsOfFinite
    <3>. QED BY <3>1, <3>2
  <2>8. e.mutations = Matching(Steps[e.step].call, Cardinality(CallsOf(Steps[e.step].call)) + 1)
    BY <2>3, <2>4, <2>7 DEF MatchedNow
  <2>9. /\ MutationsOfRank'
        /\ \A tool \in Tools :
              Cardinality(CallsOf(tool)') = Cardinality(CallsOf(tool)) +
                                            (IF Steps[e.step].call = tool THEN 1 ELSE 0)
    BY <1>0, <2>1, <2>3, <2>8, CountGrows DEF CountInv
  <2>10. ASSUME NEW tool \in Tools PROVE ctl'.calls[tool] = Cardinality(CallsOf(tool)') + 0
    <3>1. ctl.calls[tool] = Cardinality(CallsOf(tool)) /\ ctl.calls[tool] \in Nat
      BY <2>6, <2>7
    <3>2. Cardinality(CallsOf(tool)') = ctl.calls[tool] + (IF ThisStep.call = tool THEN 1 ELSE 0)
      BY <2>4, <2>9, <3>1
    <3>3. ctl'.calls[tool] = ctl.calls[tool] + (IF ThisStep.call = tool THEN 1 ELSE 0)
      BY <2>4, <2>5, <2>6, <3>1
    <3>. QED BY <3>1, <3>2, <3>3
  <2>. QED BY <2>2, <2>9, <2>10 DEF CountInv, CallsCounted
<1>9. CASE Receives
  <2>1. PICK e \in EventType :
           /\ Grows(e) /\ OfAttempt(e, current.id, current.list) /\ e.kind \in {"step", "retry"}
    BY <1>9, ReceivesOne
  <2>2. /\ at = "calling" /\ at' # "calling"
        /\ ctl' = IF CallTooLate THEN MarkFailed(ctl, current.list, current.id) ELSE ctl
    BY <1>9, ReceivesLeaves
  <2>3. e.step = step /\ e.mutations = current.list
    BY <2>1 DEF OfAttempt
  <2>4. ctl'.calls = ctl.calls
    BY <1>0, <2>2, MarkFailedMarks
  <2>5. ThisStep.call \in Tools /\ ThisStep = Steps[e.step]
    BY <1>0, <2>2, <2>3, PackTyped DEF ThisStep, RunInv, StepInRange
  <2>6. \A tool \in Tools : ctl.calls[tool] = Cardinality(CallsOf(tool)) + (IF ThisStep.call = tool THEN 1 ELSE 0)
    BY <2>2 DEF CountInv, CallsCounted
  <2>7. current.list = Matching(ThisStep.call, ctl.calls[ThisStep.call])
    BY <2>2 DEF CountInv, CallsCounted
  <2>8. e.mutations = Matching(Steps[e.step].call, Cardinality(CallsOf(Steps[e.step].call)) + 1)
    BY <2>3, <2>5, <2>6, <2>7
  <2>9. /\ MutationsOfRank'
        /\ \A tool \in Tools :
              Cardinality(CallsOf(tool)') = Cardinality(CallsOf(tool)) +
                                            (IF Steps[e.step].call = tool THEN 1 ELSE 0)
    BY <1>0, <2>1, <2>8, CountGrows DEF CountInv
  <2>10. ASSUME NEW tool \in Tools PROVE ctl'.calls[tool] = Cardinality(CallsOf(tool)') + 0
    <3>1. ctl'.calls[tool] = Cardinality(CallsOf(tool)')
      BY <2>4, <2>5, <2>6, <2>9
    <3>2. ctl'.calls[tool] \in Nat
      <4>1. ctl.calls \in [Tools -> Nat]
        BY <1>0, ControllerFields
      <4>. QED BY <2>4, <4>1
    <3>. QED BY <3>1, <3>2
  <2>. QED BY <2>2, <2>9, <2>10 DEF CountInv, CallsCounted
<1>10. CASE Concludes
  <2>1. SameCalls
    BY <1>10, ConcludesShows DEF Shows, SameCalls, MainEvents
  <2>2. /\ at # "calling" /\ at' # "calling"
        /\ ctl' = IF Mutated THEN ctl ELSE MarkFailed(ctl, current.list, current.id)
    BY <1>10, ConcludesLeaves, ConcludesShows
  <2>3. ctl'.calls = ctl.calls
    BY <1>0, <2>2, MarkFailedMarks
  <2>. QED BY <1>0, <2>1, <2>2, <2>3, CountStays
<1>. QED BY <1>1, <1>2, <1>3, <1>4, <1>6, <1>7, <1>8, <1>9, <1>10, NextByEvents DEF Quietly

LEMMA InitCount == Init => CountInv
<1>. SUFFICES ASSUME Init PROVE CountInv
  OBVIOUS
<1>1. MainEvents = {}
  BY DEF Init, MainEvents
<1>2. \A tool : CallsOf(tool) = {}
  BY <1>1 DEF CallsOf
<1>3. Cardinality({}) = 0
  BY FS_EmptySet
<1>4. \A tool \in Tools : ctl.calls[tool] = 0
  BY DEF Init, EmptyController
<1>5. at # "calling"
  BY DEF Init
<1>6. CallsCounted
  <2>1. \A tool \in Tools : Cardinality(CallsOf(tool)) = 0
    BY <1>2, <1>3
  <2>. QED BY <1>4, <1>5, <2>1 DEF CallsCounted
<1>. QED BY <1>1, <1>6 DEF CountInv, MutationsOfRank

\* The attempts keep to the retry policy, in the order of their ids, and each meets
\* the mutations declared for its place among the calls of its tool (runPack,
\* MutationController.matching).
THEOREM AttemptsAsPlanned == Spec => []AttemptsFollowPolicy
<1>. DEFINE Inv == RunInv /\ IdInv /\ PolicyInv /\ CountInv
<1>1. Init => Inv
  BY InitInRun, InitIds, InitPolicy, InitCount
<1>2. Inv /\ [Next]_vars => Inv'
  BY IdsStep, PolicyStep, CountStep
<1>3. Inv => AttemptsFollowPolicy
  BY DEF AttemptsFollowPolicy, PolicyInv, CountInv, IdInv
<1>. QED BY <1>1, <1>2, <1>3, PTL DEF Spec

-------------------------------------------------------------------------------
(* Records of mutations.                                                   *)

HasOne(records, i, id) ==
    \E m \in DOMAIN records : records[m].mutation = i /\ records[m].event = id
NoneTwice(records) ==
    \A m, n \in DOMAIN records :
        records[m].mutation = records[n].mutation /\ records[m].event = records[n].event => m = n

\* Each mutation listed in the event has a record.
AllMarked(records, e) ==
    e.physical /\ e.underlying \notin Immediate => \A i \in e.mutations : HasOne(records, i, e.id)

LEMMA OneRecordAdded ==
    ASSUME NEW records \in Seq(RecordType), NEW r \in RecordType
    PROVE  /\ \A i, id : HasOne(Append(records, r), i, id)
                            <=> HasOne(records, i, id) \/ (i = r.mutation /\ id = r.event)
           /\ NoneTwice(records) /\ ~HasOne(records, r.mutation, r.event)
                 => NoneTwice(Append(records, r))
           /\ \A m \in DOMAIN Append(records, r) :
                 Append(records, r)[m] = r \/ \E n \in DOMAIN records : Append(records, r)[m] = records[n]
<1>. DEFINE new == Append(records, r)
            last == Len(records) + 1
<1>1. /\ DOMAIN new = DOMAIN records \cup {last} /\ last \notin DOMAIN records
      /\ new[last] = r /\ \A n \in DOMAIN records : new[n] = records[n]
  BY AppendProperties, LenProperties
<1>. HIDE DEF new, last
<1>2. \A i, id : HasOne(new, i, id) <=> HasOne(records, i, id) \/ (i = r.mutation /\ id = r.event)
  BY <1>1 DEF HasOne
<1>3. ASSUME NoneTwice(records), ~HasOne(records, r.mutation, r.event) PROVE NoneTwice(new)
  BY <1>1, <1>3 DEF NoneTwice, HasOne
<1>4. \A m \in DOMAIN new : new[m] = r \/ \E n \in DOMAIN records : new[m] = records[n]
  BY <1>1
<1>. QED BY <1>2, <1>3, <1>4 DEF new

\* What is new is of the event.
OnlyOf(id, old, new) ==
    \A m \in DOMAIN new : new[m].event = id \/ \E n \in DOMAIN old : new[m] = old[n]

LEMMA MarkedRecords ==
    ASSUME NEW old \in Seq(RecordType), NEW new \in Seq(RecordType), NEW list \in SUBSET DOMAIN Mutations,
           NEW id, Marked(old, new, list, id), pack \in Packs
    PROVE  /\ \A i, e : HasOne(old, i, e) => HasOne(new, i, e)
           /\ \A i \in list : HasOne(new, i, id)
           /\ NoneTwice(old) => NoneTwice(new)
           /\ OnlyOf(id, old, new)
<1>1. /\ DOMAIN old = 1..Len(old) /\ Len(old) \in Nat
      /\ DOMAIN new = 1..Len(new) /\ Len(new) \in Nat
      /\ Len(old) <= Len(new)
      /\ DOMAIN new = DOMAIN old \cup ((Len(old) + 1)..Len(new))
  <2>1. /\ DOMAIN old = 1..Len(old) /\ Len(old) \in Nat
        /\ DOMAIN new = 1..Len(new) /\ Len(new) \in Nat
    BY LenProperties
  <2>2. Len(old) <= Len(new)
    BY DEF Marked
  <2>3. \A a \in Nat : \A b \in Nat : a <= b => 1..b = 1..a \cup ((a + 1)..b)
    OBVIOUS
  <2>. QED BY <2>1, <2>2, <2>3
<1>2. /\ \A k \in DOMAIN old : new[k] = old[k]
      /\ \A k \in (Len(old) + 1)..Len(new) :
            /\ new[k].event = id /\ new[k].mutation \in list
            /\ \A n \in DOMAIN old : ~(old[n].mutation = new[k].mutation /\ old[n].event = id)
      /\ \A j, k \in (Len(old) + 1)..Len(new) : j < k => new[j].mutation < new[k].mutation
      /\ \A i \in list : \E k \in DOMAIN new : new[k].mutation = i /\ new[k].event = id
  BY <1>1 DEF Marked
<1>3. \A i, e : HasOne(old, i, e) => HasOne(new, i, e)
  BY <1>1, <1>2 DEF HasOne
<1>4. \A i \in list : HasOne(new, i, id)
  BY <1>2 DEF HasOne
<1>5. OnlyOf(id, old, new)
  BY <1>1, <1>2 DEF OnlyOf
<1>6. ASSUME NoneTwice(old), NEW m \in DOMAIN new, NEW n \in DOMAIN new,
             new[m].mutation = new[n].mutation, new[m].event = new[n].event
      PROVE  m = n
  <2>1. CASE m \in DOMAIN old /\ n \in DOMAIN old
    BY <1>2, <1>6, <2>1 DEF NoneTwice
  <2>2. CASE m \in (Len(old) + 1)..Len(new) /\ n \in (Len(old) + 1)..Len(new)
    <3>1. new[m].mutation \in Nat
      <4>1. new[m].mutation \in DOMAIN Mutations
        BY <1>2, <2>2
      <4>. QED BY <4>1, PackTyped
    <3>2. ~(m < n) /\ ~(n < m)
      BY <1>2, <1>6, <2>2, <3>1
    <3>. QED BY <1>1, <2>2, <3>2
  <2>3. CASE m \in DOMAIN old /\ n \in (Len(old) + 1)..Len(new)
    BY <1>2, <1>6, <2>3
  <2>4. CASE n \in DOMAIN old /\ m \in (Len(old) + 1)..Len(new)
    BY <1>2, <1>6, <2>4
  <2>. QED BY <1>1, <2>1, <2>2, <2>3, <2>4
<1>7. NoneTwice(old) => NoneTwice(new)
  BY <1>6 DEF NoneTwice
<1>. QED BY <1>3, <1>4, <1>5, <1>7

-------------------------------------------------------------------------------
(* Until the report is made every listed mutation of an attempt that is over has *)
(* a record, and those that controller.after() has gone through.           *)

RecordsOnce ==
    /\ NoneTwice(ctl.records)
    /\ \A m \in DOMAIN ctl.records :
          /\ ~ctl.records[m].event.probe /\ ctl.records[m].event.n <= current.id.n
          /\ at = "calling" => ctl.records[m].event.n < current.id.n

EventsMarked ==
    \A n \in MainEvents :
        AllMarked(ctl.records, events[n]) \/ (at \in {"mutating", "abandoning"} /\ n \in CurrentEvents)

JobMarks ==
    /\ job.list \subseteq current.list
    /\ \A i \in current.list \ job.list : HasOne(ctl.records, i, current.id)
    /\ job.at # "threw" => \A i \in job.list : ~HasOne(ctl.records, i, current.id)
    /\ job.at = "done" => job.list = {}
    /\ job.at \in {"delaying", "calling"} => job.list # {}

RecordsKept ==
    /\ at \notin {"closing", "returned"} => ~report.made /\ RecordsOnce /\ EventsMarked
    /\ at \in {"mutating", "abandoning"} => JobMarks

RecInv == RecordsKept /\ MatchedAccounted

\* The report, once it is made, and the attempts stay as they are.
SameMain == MainEvents' = MainEvents /\ \A n \in MainEvents : events'[n] = events[n]

LEMMA AccountStays ==
    ASSUME MatchedAccounted, SameMain, UNCHANGED <<report>>
    PROVE  MatchedAccounted'
BY DEF MatchedAccounted, SameMain, ReportedOnce

\* Records are added: what was marked is marked.
LEMMA MarkedGrows ==
    ASSUME NEW old, NEW new, \A i, id : HasOne(old, i, id) => HasOne(new, i, id)
    PROVE  \A e : AllMarked(old, e) => AllMarked(new, e)
BY DEF AllMarked

\* The attempts and their records stay, and the run is not in the mutations of one.
LEMMA RecordsStay ==
    ASSUME RunInv, RecInv, SameMain, UNCHANGED <<ctl, current, report>>,
           at \notin {"mutating", "abandoning", "closing", "returned"},
           at' \notin {"calling", "mutating", "abandoning", "closing", "returned"}
    PROVE  RecInv'
<1>1. MatchedAccounted'
  BY AccountStays DEF RecInv
<1>2. ~report.made /\ RecordsOnce /\ EventsMarked
  BY DEF RecInv, RecordsKept
<1>3. RecordsOnce'
  BY <1>2 DEF RecordsOnce
<1>4. EventsMarked'
  BY <1>2 DEF EventsMarked, SameMain
<1>. QED BY <1>1, <1>2, <1>3, <1>4 DEF RecInv, RecordsKept

\* A mutation is done with: it has its record.
LEMMA MarksOne ==
    ASSUME RunInv, IdInv, RecInv, SameMain, UNCHANGED <<at, step, attempt, current, report>>,
           at \in {"mutating", "abandoning"}, job.at # "threw", job'.at \in {"applying", "threw"},
           NEW i \in job.list, NEW result \in {"applied", "blocked", "failed"},
           ctl' = WithRecord(ctl, i, current.id, result),
           \/ job'.list = job.list \ {i}
           \/ job'.list = job.list /\ job'.at = "threw"
    PROVE  RecInv'
<1>. DEFINE r == [mutation |-> i, event |-> current.id, result |-> result]
            old == ctl.records
            new == ctl'.records
<1>0. /\ ctl \in Controller /\ i \in DOMAIN Mutations /\ current.id \in Ids
      /\ old \in Seq(RecordType)
  BY TypeFields, ControllerFields DEF RunInv, TypeOK
<1>1. r \in RecordType /\ r.mutation = i /\ r.event = current.id
  BY <1>0 DEF RecordType
<1>2. new = Append(old, r)
  BY <1>0, OneMoreRecord
<1>. HIDE DEF r, old
<1>3. JobMarks /\ RecordsOnce /\ EventsMarked /\ ~report.made
  BY DEF RecInv, RecordsKept
<1>4. /\ \A k, id : HasOne(new, k, id) <=> HasOne(old, k, id) \/ (k = i /\ id = current.id)
      /\ NoneTwice(old) /\ ~HasOne(old, i, current.id) => NoneTwice(new)
      /\ \A m \in DOMAIN new : new[m] = r \/ \E n \in DOMAIN old : new[m] = old[n]
  BY <1>0, <1>1, <1>2, OneRecordAdded
<1>. HIDE DEF new
<1>5. ~HasOne(old, i, current.id)
  BY <1>3 DEF JobMarks, old
<1>6. current.id.n <= current.id.n /\ ~current.id.probe
  BY <1>0 DEF Ids, IdInv, IdsCounted
<1>7. RecordsOnce'
  <2>1. NoneTwice(new)
    BY <1>3, <1>4, <1>5 DEF RecordsOnce, old
  <2>2. \A m \in DOMAIN new : ~new[m].event.probe /\ new[m].event.n <= current.id.n
    BY <1>1, <1>3, <1>4, <1>6 DEF RecordsOnce, old
  <2>. QED BY <2>1, <2>2 DEF RecordsOnce, new
<1>8. CurrentEvents' = CurrentEvents
  BY DEF CurrentEvents, SameMain
<1>9. EventsMarked'
  <2>1. \A e : AllMarked(old, e) => AllMarked(new, e)
    BY <1>4, MarkedGrows
  <2>. QED BY <1>3, <1>8, <2>1 DEF EventsMarked, SameMain, old, new
<1>10. JobMarks'
  <2>1. job'.list \subseteq current.list
    BY <1>3 DEF JobMarks
  <2>2. \A k \in current.list \ job'.list : HasOne(new, k, current.id)
    BY <1>3, <1>4 DEF JobMarks, old
  <2>3. job'.at # "threw" => \A k \in job'.list : ~HasOne(new, k, current.id)
    BY <1>3, <1>4 DEF JobMarks, old
  <2>. QED BY <2>1, <2>2, <2>3 DEF JobMarks, new
<1>11. MatchedAccounted'
  BY AccountStays DEF RecInv
<1>. QED BY <1>3, <1>7, <1>9, <1>10, <1>11 DEF RecInv, RecordsKept

\* controller.after() goes on, with the attempts as they are.
LEMMA RecordsWork ==
    ASSUME RunInv, IdInv, RecInv, (Works \/ Repeats) /\ ~MainRuns, SameMain,
           UNCHANGED <<at, step, attempt, current, report>>
    PROVE  RecInv'
<1>1. MatchedAccounted'
  BY AccountStays DEF RecInv
<1>2. job.at # "idle"
  BY DEF Works, Repeats, MutationApplies, MutationDelays, DelayEnds, DelayIsCut, DuplicateStarts,
         DuplicateReturns, JobEnds, Applying
<1>3. at \in {"mutating", "abandoning", "closing", "returned"}
  BY <1>2 DEF RunInv, JobIsOfAttempt, MainRuns
<1>4. CASE at \in {"closing", "returned"}
  BY <1>1, <1>4 DEF RecInv, RecordsKept
<1>5. CASE at \in {"mutating", "abandoning"}
  <2>0. job \in JobType /\ job.list \in SUBSET DOMAIN Mutations /\ pack \in Packs
    BY TypeFields DEF RunInv, TypeOK
  <2>1. ASSUME NEW i \in DOMAIN Mutations, NEW found, Advance(i, found), i \in job.list,
               job.at # "threw"
        PROVE  RecInv'
    <3>1. PICK result \in {"applied", "failed"} : ctl' = WithRecord(ctl, i, current.id, result)
      BY <2>1, Zenon DEF Advance, JobEvent
    <3>2. job'.at = "applying" /\ job'.list = job.list \ {i}
      BY <2>0, <2>1 DEF Advance, JobType
    <3>. QED BY <1>5, <2>1, <3>1, <3>2, MarksOne
  <2>2. ASSUME NEW i \in DOMAIN Mutations, NEW found \in BOOLEAN,
               MutationApplies(i, found) \/ DelayEnds(i) \/ DuplicateReturns(i)
        PROVE  RecInv'
    <3>1. \E f : Advance(i, f)
      BY <2>2 DEF MutationApplies, DelayEnds, DuplicateReturns
    <3>2. job.at # "threw" /\ i = FirstOf(job.list)
      BY <2>2 DEF MutationApplies, DelayEnds, DuplicateReturns, Applying
    <3>3. job.list # {}
      BY <1>5, <2>2 DEF MutationApplies, DelayEnds, DuplicateReturns, Applying, RecInv, RecordsKept,
                        JobMarks
    <3>. QED BY <2>0, <2>1, <3>1, <3>2, <3>3, FirstOfList
  <2>3. ASSUME NEW i \in DOMAIN Mutations, DelayIsCut(i) PROVE RecInv'
    <3>1. /\ job.at = "delaying" /\ i = FirstOf(job.list)
          /\ ctl' = WithRecord(ctl, i, current.id, "failed")
          /\ job' = [job EXCEPT !.at = "threw"]
      BY <2>3 DEF DelayIsCut, JobEvent
    <3>2. job'.at = "threw" /\ job'.list = job.list
      BY <2>0, <3>1 DEF JobType
    <3>3. job.list # {}
      BY <1>5, <3>1 DEF RecInv, RecordsKept, JobMarks
    <3>4. i \in job.list /\ job.at # "threw"
      BY <2>0, <3>1, <3>3, FirstOfList
    <3>. QED BY <1>5, <3>1, <3>2, <3>4, MarksOne
  <2>4. ASSUME ctl'.records = ctl.records, job'.list = job.list, job.at \notin {"threw", "done"},
               job'.at = "done" => job.list = {}, job'.at \in {"delaying", "calling"} => job.list # {}
        PROVE  RecInv'
    <3>1. JobMarks /\ RecordsOnce /\ EventsMarked /\ ~report.made
      BY <1>5 DEF RecInv, RecordsKept
    <3>2. RecordsOnce'
      BY <2>4, <3>1 DEF RecordsOnce
    <3>3. CurrentEvents' = CurrentEvents
      BY DEF CurrentEvents, SameMain
    <3>4. EventsMarked'
      BY <2>4, <3>1, <3>3 DEF EventsMarked, SameMain
    <3>5. JobMarks'
      BY <2>4, <3>1 DEF JobMarks
    <3>. QED BY <1>1, <1>5, <3>1, <3>2, <3>4, <3>5 DEF RecInv, RecordsKept
  <2>5. ASSUME NEW i \in DOMAIN Mutations, MutationDelays(i) \/ DuplicateStarts(i) PROVE RecInv'
    <3>1. ctl' = ctl /\ job.at = "applying" /\ job.list # {}
          /\ (job' = [job EXCEPT !.at = "delaying"] \/ job' = [job EXCEPT !.at = "calling"])
      BY <2>5 DEF MutationDelays, DuplicateStarts, Applying
    <3>2. job'.list = job.list /\ job'.at \in {"delaying", "calling"}
      BY <2>0, <3>1 DEF JobType
    <3>. QED BY <2>4, <3>1, <3>2
  <2>6. CASE JobEnds
    <3>1. job.at = "applying" /\ job.list = {} /\ job' = [job EXCEPT !.at = "done"]
          /\ ctl' = Remembered(ctl, Steps[job.of].context, job.original)
      BY <2>6 DEF JobEnds
    <3>2. job'.list = job.list /\ job'.at = "done"
      BY <2>0, <3>1 DEF JobType
    <3>3. ctl'.records = ctl.records
      <4>1. ctl \in Controller
        BY DEF RunInv, TypeOK
      <4>2. CASE job.original.error # "none"
        BY <3>1, <4>2 DEF Remembered
      <4>3. CASE job.original.error = "none"
        <5>1. ctl' = [ctl EXCEPT !.previousSuccess[Steps[job.of].context] = job.original]
          BY <3>1, <4>3 DEF Remembered
        <5>. QED BY <4>1, <5>1 DEF Controller
      <4>. QED BY <4>2, <4>3
    <3>. QED BY <2>4, <3>1, <3>2, <3>3
  <2>. QED BY <2>2, <2>3, <2>5, <2>6 DEF Works, Repeats
<1>. QED BY <1>3, <1>4, <1>5

\* The outcome of an attempt is settled: all its mutations are marked.
LEMMA MarksAll ==
    ASSUME RunInv, IdInv, RecordsOnce,
           ctl' = MarkFailed(ctl, current.list, current.id), current' = current, at' # "calling"
    PROVE  /\ RecordsOnce'
           /\ \A e : AllMarked(ctl.records, e) => AllMarked(ctl'.records, e)
           /\ \A e : e.id = current.id /\ e.mutations = current.list => AllMarked(ctl'.records, e)
<1>. DEFINE old == ctl.records
            new == ctl'.records
<1>1. /\ ctl \in Controller /\ current.id \in Ids /\ current.list \in SUBSET DOMAIN Mutations
      /\ old \in Seq(RecordType) /\ pack \in Packs
  BY TypeFields, ControllerFields DEF RunInv, TypeOK
<1>2. ctl' \in Controller /\ Marked(old, new, current.list, current.id)
  BY <1>1, MarkFailedMarks
<1>3. new \in Seq(RecordType)
  BY <1>2, ControllerFields
<1>4. /\ \A i, e : HasOne(old, i, e) => HasOne(new, i, e)
      /\ \A i \in current.list : HasOne(new, i, current.id)
      /\ NoneTwice(old) => NoneTwice(new)
      /\ OnlyOf(current.id, old, new)
  <2>1. /\ old \in Seq(RecordType) /\ new \in Seq(RecordType)
        /\ current.list \in SUBSET DOMAIN Mutations /\ pack \in Packs
        /\ Marked(old, new, current.list, current.id)
    BY <1>1, <1>2, <1>3
  <2>. HIDE DEF old, new
  <2>2. \A i, e : HasOne(old, i, e) => HasOne(new, i, e)
    BY ONLY <2>1, MarkedRecords
  <2>3. \A i \in current.list : HasOne(new, i, current.id)
    BY ONLY <2>1, MarkedRecords
  <2>4. NoneTwice(old) => NoneTwice(new)
    BY ONLY <2>1, MarkedRecords
  <2>5. OnlyOf(current.id, old, new)
    BY ONLY <2>1, MarkedRecords
  <2>. QED BY <2>2, <2>3, <2>4, <2>5
<1>. HIDE DEF old, new
<1>5. \A e : AllMarked(old, e) => AllMarked(new, e)
  BY <1>4, MarkedGrows
<1>6. \A e : e.id = current.id /\ e.mutations = current.list => AllMarked(new, e)
  BY <1>4 DEF AllMarked
<1>7. current.id.n <= current.id.n /\ ~current.id.probe
  BY <1>1 DEF Ids, IdInv, IdsCounted
<1>8. RecordsOnce'
  <2>1. NoneTwice(new)
    BY <1>4 DEF RecordsOnce, old
  <2>2. \A m \in DOMAIN new : ~new[m].event.probe /\ new[m].event.n <= current.id.n
    BY <1>4, <1>7 DEF RecordsOnce, OnlyOf, old
  <2>. QED BY <2>1, <2>2 DEF RecordsOnce, new
<1>. QED BY <1>5, <1>6, <1>8 DEF old, new

LEMMA RecordsAttempt ==
    ASSUME RunInv, IdInv, RecInv, AttemptDenied \/ Receives \/ Concludes
    PROVE  RecInv'
<1>0. /\ ctl \in Controller /\ current.id \in Ids /\ ~report.made /\ RecordsOnce /\ EventsMarked
      /\ at \notin {"closing", "returned"} /\ pack \in Packs /\ counter \in Nat
      /\ current.id.n \in Nat /\ current.id.n <= counter
  <2>1. at \notin {"closing", "returned"}
    BY ReceivesLeaves, ConcludesLeaves DEF AttemptDenied
  <2>. QED BY <2>1, TypeFields DEF RunInv, TypeOK, RecInv, RecordsKept, Ids, IdInv, IdsCounted
<1>1. ASSUME report' = report PROVE MatchedAccounted'
  BY <1>0, <1>1 DEF MatchedAccounted, ReportedOnce, RecInv
<1>2. CASE AttemptDenied
  <2>1. PICK e \in EventType :
           /\ events' = Append(events, e) /\ ~e.physical /\ e.kind \in {"step", "retry"}
    BY <1>2, DeniedTyped DEF RunInv
  <2>2. /\ at = "attempt" /\ at' \in {"attempt", "step_end"} /\ report' = report
        /\ ctl' = WithRecord(Counted(ctl, ThisStep.call), Denial(MatchedNow), Id(counter + 1), "blocked")
        /\ current'.id = Id(counter + 1) /\ Denies(MatchedNow)
    BY <1>2 DEF AttemptDenied
  <2>3. Grows(e)
    BY <2>1, AppendGrows DEF RunInv
  <2>. DEFINE c == Counted(ctl, ThisStep.call)
              i == Denial(MatchedNow)
              r == [mutation |-> i, event |-> Id(counter + 1), result |-> "blocked"]
              old == ctl.records
              new == ctl'.records
  <2>4. /\ i \in DOMAIN Mutations /\ Id(counter + 1) \in Ids
        /\ Id(counter + 1).n = counter + 1 /\ ~Id(counter + 1).probe
    <3>1. MatchedNow \in SUBSET DOMAIN Mutations
      BY DEF MatchedNow, Matching
    <3>. QED BY <1>0, <2>2, <3>1, DenialDenies DEF Id, Ids
  <2>5. c \in Controller /\ c.records = old
    <3>1. ThisStep.call \in Tools
      BY <1>0, <2>2, PackTyped DEF ThisStep, RunInv, StepInRange
    <3>. QED BY <1>0, <3>1, CountedTyped
  <2>6. old \in Seq(RecordType) /\ r \in RecordType
    BY <1>0, <2>4, ControllerFields DEF RecordType
  <2>7. new = Append(old, r)
    <3>1. ctl' = WithRecord(c, i, Id(counter + 1), "blocked")
      BY <2>2
    <3>. HIDE DEF c, i
    <3>2. WithRecord(c, i, Id(counter + 1), "blocked").records = Append(c.records, r)
      BY ONLY <2>4, <2>5, OneMoreRecord
    <3>. QED BY <2>5, <3>1, <3>2
  <2>8. r.mutation = i /\ r.event = Id(counter + 1)
    OBVIOUS
  <2>. HIDE DEF c, i, r, old
  <2>9. /\ \A k, id : HasOne(new, k, id) <=> HasOne(old, k, id) \/ (k = r.mutation /\ id = r.event)
        /\ NoneTwice(old) /\ ~HasOne(old, r.mutation, r.event) => NoneTwice(new)
        /\ \A m \in DOMAIN new : new[m] = r \/ \E n \in DOMAIN old : new[m] = old[n]
    BY <2>6, <2>7, OneRecordAdded
  <2>. HIDE DEF new
  <2>10. \A m \in DOMAIN old : ~old[m].event.probe /\ old[m].event.n <= current.id.n
    BY <1>0 DEF RecordsOnce, old
  <2>11. \A m \in DOMAIN old : old[m].event.n <= counter
    <3>1. \A m \in DOMAIN old : old[m].event.n \in Nat
      <4>1. \A m \in DOMAIN old : old[m] \in RecordType
        BY <2>6, LenProperties, ElementOfSeq
      <4>. QED BY <4>1 DEF RecordType, Ids
    <3>. QED BY <1>0, <2>10, <3>1
  <2>12. ~HasOne(old, r.mutation, r.event)
    BY <1>0, <2>4, <2>8, <2>11 DEF HasOne
  <2>13. RecordsOnce'
    <3>1. NoneTwice(new)
      BY <1>0, <2>9, <2>12 DEF RecordsOnce, old
    <3>2. ASSUME NEW m \in DOMAIN new PROVE ~new[m].event.probe /\ new[m].event.n <= counter + 1
      <4>1. CASE new[m] = r
        BY <1>0, <2>4, <2>8, <4>1
      <4>2. ASSUME NEW n \in DOMAIN old, new[m] = old[n]
            PROVE  ~new[m].event.probe /\ new[m].event.n <= counter + 1
        <5>1. old[n].event.n <= counter /\ ~old[n].event.probe /\ old[n].event.n \in Nat
          <6>1. old[n] \in RecordType
            BY <2>6, LenProperties, ElementOfSeq
          <6>. QED BY <2>10, <2>11, <6>1 DEF RecordType, Ids
        <5>. QED BY <1>0, <4>2, <5>1
      <4>. QED BY <2>9, <4>1, <4>2
    <3>. QED BY <2>2, <2>4, <3>1, <3>2 DEF RecordsOnce, new
  <2>14. EventsMarked'
    <3>1. \A ev : AllMarked(old, ev) => AllMarked(new, ev)
      BY <2>9, MarkedGrows
    <3>2. \A n \in MainEvents : AllMarked(old, events[n])
      BY <1>0, <2>2 DEF EventsMarked, old
    <3>3. AllMarked(new, e)
      BY <2>1 DEF AllMarked
    <3>. QED BY <2>3, <3>1, <3>2, <3>3 DEF EventsMarked, Grows, new
  <2>. QED BY <1>0, <1>1, <2>2, <2>13, <2>14 DEF RecInv, RecordsKept
<1>3. CASE Receives
  <2>1. PICK e \in EventType :
           /\ Grows(e) /\ OfAttempt(e, current.id, current.list) /\ e.kind \in {"step", "retry"}
           /\ e.attempt = attempt /\ e.underlying = call.outcome.error /\ e.physical
    BY <1>3, ReceivesOne
  <2>2. /\ at = "calling" /\ UNCHANGED <<step, attempt, current, report>>
        /\ IF CallMutates THEN at' = "mutating" ELSE at' \in {"attempt", "step_end"}
        /\ ctl' = IF CallTooLate THEN MarkFailed(ctl, current.list, current.id) ELSE ctl
    BY <1>3, ReceivesLeaves
  <2>3. e.id = current.id /\ e.mutations = current.list /\ e.step = step
    BY <2>1 DEF OfAttempt
  <2>4. \A n \in MainEvents : AllMarked(ctl.records, events[n])
    BY <1>0, <2>2 DEF EventsMarked
  <2>5. CASE CallFails
    <3>1. ~CallTooLate /\ ~CallMutates /\ call.outcome.error \in Immediate
      BY <2>5 DEF CallFails, CallTooLate, CallMutates
    <3>2. ctl' = ctl /\ at' \in {"attempt", "step_end"}
      BY <2>2, <3>1
    <3>3. RecordsOnce'
      BY <1>0, <2>2, <3>2 DEF RecordsOnce
    <3>4. AllMarked(ctl.records, e)
      BY <2>1, <3>1 DEF AllMarked
    <3>5. EventsMarked'
      BY <2>1, <2>4, <3>2, <3>4 DEF EventsMarked, Grows
    <3>. QED BY <1>0, <1>1, <2>2, <3>2, <3>3, <3>5 DEF RecInv, RecordsKept
  <2>6. CASE CallTooLate
    <3>1. ~CallMutates
      BY <2>6 DEF CallTooLate, CallMutates
    <3>2. ctl' = MarkFailed(ctl, current.list, current.id) /\ at' \in {"attempt", "step_end"}
      BY <2>2, <2>6, <3>1
    <3>3. /\ RecordsOnce'
          /\ \A ev : AllMarked(ctl.records, ev) => AllMarked(ctl'.records, ev)
          /\ AllMarked(ctl'.records, e)
      BY <1>0, <2>2, <2>3, <3>2, MarksAll
    <3>4. EventsMarked'
      BY <2>1, <2>4, <3>3 DEF EventsMarked, Grows
    <3>. QED BY <1>0, <1>1, <2>2, <3>2, <3>3, <3>4 DEF RecInv, RecordsKept
  <2>7. CASE CallMutates
    <3>1. ~CallTooLate /\ job'.at = "applying" /\ job'.list = current.list
      BY <2>7 DEF CallTooLate, CallMutates
    <3>2. ctl' = ctl /\ at' = "mutating"
      BY <2>2, <2>7, <3>1
    <3>3. RecordsOnce'
      BY <1>0, <2>2, <3>2 DEF RecordsOnce
    <3>4. Len(events) + 1 \in CurrentEvents'
      BY <2>1, <2>2, <2>3 DEF CurrentEvents, Grows
    <3>5. EventsMarked'
      BY <2>1, <2>4, <3>2, <3>4 DEF EventsMarked, Grows
    <3>6. \A i : ~HasOne(ctl.records, i, current.id)
      <4>1. \A m \in DOMAIN ctl.records : ctl.records[m].event.n < current.id.n
        BY <1>0, <2>2 DEF RecordsOnce
      <4>. QED BY <1>0, <4>1 DEF HasOne
    <3>7. JobMarks'
      BY <2>2, <3>1, <3>2, <3>6 DEF JobMarks
    <3>. QED BY <1>0, <1>1, <2>2, <3>2, <3>3, <3>5, <3>7 DEF RecInv, RecordsKept
  <2>. QED BY <1>3, <2>5, <2>6, <2>7 DEF Receives
<1>4. CASE Concludes
  <2>1. /\ MainEvents' = MainEvents /\ MainEvents \subseteq DOMAIN events
        /\ \A n \in DOMAIN events :
              /\ events'[n].id = events[n].id /\ events'[n].mutations = events[n].mutations
              /\ events'[n].underlying = events[n].underlying /\ events'[n].physical = events[n].physical
        /\ at' \in {"attempt", "step_end"} /\ current' = current
    BY <1>4, ConcludesShows DEF Shows, MainEvents
  <2>2. /\ at \in {"mutating", "abandoning"} /\ report' = report
        /\ ctl' = IF Mutated THEN ctl ELSE MarkFailed(ctl, current.list, current.id)
        /\ Mutated => job.at = "done"
    <3>1. Mutated => job.at = "done"
      BY DEF Mutated
    <3>. QED BY <1>4, <3>1, ConcludesLeaves
  <2>3. /\ RecordsOnce'
        /\ \A e : AllMarked(ctl.records, e) => AllMarked(ctl'.records, e)
        /\ \A e : e.id = current.id /\ e.mutations = current.list => AllMarked(ctl'.records, e)
    <3>1. CASE Mutated
      <4>1. ctl' = ctl /\ \A i \in current.list : HasOne(ctl.records, i, current.id)
        BY <2>2, <3>1 DEF RecInv, RecordsKept, JobMarks
      <4>2. RecordsOnce'
        BY <1>0, <2>1, <4>1 DEF RecordsOnce
      <4>. QED BY <4>1, <4>2 DEF AllMarked
    <3>2. CASE ~Mutated
      BY <1>0, <2>1, <2>2, <3>2, MarksAll
    <3>. QED BY <3>1, <3>2
  <2>4. ASSUME NEW n \in MainEvents PROVE AllMarked(ctl'.records, events[n])
    <3>1. n \in CurrentEvents => events[n].id = current.id /\ events[n].mutations = current.list
      BY DEF CurrentEvents
    <3>. QED BY <1>0, <2>3, <3>1 DEF EventsMarked
  <2>5. EventsMarked'
    BY <2>1, <2>4 DEF EventsMarked, AllMarked
  <2>. QED BY <1>0, <1>1, <2>1, <2>2, <2>3, <2>5 DEF RecInv, RecordsKept
<1>. QED BY <1>2, <1>3, <1>4

LEMMA RecordsMove ==
    ASSUME RunInv, IdInv, RecInv, Moves
    PROVE  RecInv'
<1>1. /\ SameMain /\ UNCHANGED <<step, attempt, current, ctl, job>>
  BY Frames, QuietlyKeeps DEF Quietly, SameMain, loop
<1>2. CASE AfterTimesOut
  <2>1. at = "mutating" /\ at' = "abandoning" /\ report' = report
    BY <1>2 DEF AfterTimesOut
  <2>2. ~report.made /\ RecordsOnce /\ EventsMarked /\ JobMarks
    BY <2>1 DEF RecInv, RecordsKept
  <2>3. CurrentEvents' = CurrentEvents
    BY <1>1 DEF CurrentEvents, SameMain
  <2>4. RecordsOnce' /\ JobMarks'
    BY <1>1, <2>1, <2>2 DEF RecordsOnce, JobMarks
  <2>5. EventsMarked'
    BY <1>1, <2>1, <2>2, <2>3 DEF EventsMarked, SameMain
  <2>6. MatchedAccounted'
    BY <1>1, <2>1, AccountStays DEF RecInv
  <2>. QED BY <2>1, <2>2, <2>4, <2>5, <2>6 DEF RecInv, RecordsKept
<1>3. CASE Finish
  <2>1. /\ at = "finish" /\ at' = "closing"
        /\ report' = [ NoReport EXCEPT !.made = TRUE, !.evaluated = failure' = "none",
                                        !.records = ctl.records ]
    BY <1>3 DEF Finish
  <2>2. report'.records = ctl.records
    BY <2>1 DEF NoReport
  <2>3. RecordsOnce /\ \A n \in MainEvents : AllMarked(ctl.records, events[n])
    BY <2>1 DEF RecInv, RecordsKept, EventsMarked
  <2>4. ReportedOnce'
    BY <2>2, <2>3 DEF ReportedOnce, RecordsOnce, NoneTwice
  <2>5. MatchedAccounted'
    BY <1>1, <2>2, <2>3, <2>4 DEF MatchedAccounted, AllMarked, HasOne, SameMain
  <2>. QED BY <2>1, <2>5 DEF RecInv, RecordsKept
<1>4. CASE Returns
  <2>1. /\ at = "closing" /\ at' = "returned"
        /\ report' = [report EXCEPT !.processClosed = closing = "closed"]
    BY <1>4 DEF Returns
  <2>2. report'.records = report.records /\ report'.made = report.made
    BY <2>1 DEF RunInv, TypeOK
  <2>3. MatchedAccounted'
    BY <1>1, <2>2 DEF RecInv, MatchedAccounted, ReportedOnce, SameMain
  <2>. QED BY <2>1, <2>3 DEF RecInv, RecordsKept
<1>5. CASE ~(AfterTimesOut \/ Finish \/ Returns)
  <2>1. /\ at \notin {"mutating", "abandoning", "closing", "returned"}
        /\ at' \notin {"calling", "mutating", "abandoning", "closing", "returned"} /\ report' = report
    BY <1>5 DEF Moves, Connects, ConnectFails, ConnectTimesOut, ConnectClosed, Observe, EndsObserving,
                AttemptSkipped, StepsDone
  <2>. QED BY <1>1, <2>1, RecordsStay
<1>. QED BY <1>2, <1>3, <1>4, <1>5

LEMMA RecordsStep ==
    ASSUME RunInv, IdInv, RecInv, [Next]_vars
    PROVE  RecInv'
<1>1. ASSUME Quietly PROVE SameMain
  BY <1>1, QuietlyKeeps DEF SameMain
<1>2. CASE Elsewhere \/ UNCHANGED vars
  <2>1. UNCHANGED <<at, step, attempt, current, ctl, job, report>>
    BY <1>2, Frames DEF loop, vars
  <2>2. SameMain
    BY <1>1, <1>2 DEF Quietly
  <2>3. CurrentEvents' = CurrentEvents
    BY <2>1, <2>2 DEF CurrentEvents, SameMain
  <2>4. RecordsOnce => RecordsOnce'
    BY <2>1 DEF RecordsOnce
  <2>5. EventsMarked => EventsMarked'
    BY <2>1, <2>2, <2>3 DEF EventsMarked, SameMain
  <2>6. JobMarks => JobMarks'
    BY <2>1 DEF JobMarks
  <2>7. MatchedAccounted'
    BY <2>1, <2>2, AccountStays DEF RecInv
  <2>. QED BY <2>1, <2>4, <2>5, <2>6, <2>7 DEF RecInv, RecordsKept
<1>3. CASE Works /\ ~MainRuns
  <2>1. UNCHANGED <<at, step, attempt, current, report>>
    BY <1>3, Frames DEF loop
  <2>2. SameMain
    BY <1>1, <1>3 DEF Quietly
  <2>. QED BY <1>3, <2>1, <2>2, RecordsWork
<1>4. ASSUME NEW e \in EventType, Grows(e), e.kind \notin {"step", "retry"} PROVE SameMain
  BY <1>4 DEF Grows, SameMain
<1>5. CASE Repeats /\ ~MainRuns
  <2>1. PICK i \in DOMAIN Mutations : DuplicateReturns(i)
    BY <1>5 DEF Repeats
  <2>2. PICK e \in EventType : events' = Append(events, e) /\ e.kind = "duplicate"
    BY <2>1, RepeatsTyped DEF RunInv
  <2>3. SameMain
    BY <1>4, <2>2, AppendGrows DEF RunInv
  <2>4. UNCHANGED <<at, step, attempt, current, report>>
    BY <1>5, Frames DEF loop
  <2>. QED BY <1>5, <2>3, <2>4, RecordsWork
<1>6. ASSUME NEW phase \in {"before", "after"}, NEW probing \in {"probing_before", "probing_after"},
             Observed(phase, probing)
      PROVE  RecInv'
  <2>1. at = probing /\ probe < Probes /\ at' = phase /\ ctl' = ctl /\ TypeOK /\ report' = report
    BY <1>6 DEF Observed, RunInv, StepInRange
  <2>2. PICK e \in EventType : events' = Append(events, e) /\ e.kind = "effect_probe"
    BY <1>6, <2>1, ObservedTyped
  <2>3. SameMain
    BY <1>4, <2>1, <2>2, AppendGrows
  <2>4. current' = current
    BY <1>6 DEF Observed, loop
  <2>. QED BY <2>1, <2>3, <2>4, RecordsStay
<1>7. CASE AttemptCalls
  <2>1. /\ at = "attempt" /\ at' = "calling" /\ report' = report
        /\ ctl' = Counted(ctl, ThisStep.call) /\ current'.id = Id(counter + 1)
    BY <1>7 DEF AttemptCalls
  <2>2. SameMain
    BY <1>1, <1>7 DEF Quietly
  <2>3. ctl'.records = ctl.records
    <3>1. ThisStep.call \in Tools /\ ctl \in Controller
      BY <2>1, PackTyped DEF ThisStep, RunInv, StepInRange, TypeOK
    <3>. QED BY <2>1, <3>1, CountedTyped
  <2>4. ~report.made /\ RecordsOnce /\ EventsMarked
    BY <2>1 DEF RecInv, RecordsKept
  <2>5. RecordsOnce'
    <3>1. ASSUME NEW m \in DOMAIN ctl.records
          PROVE  ~ctl.records[m].event.probe /\ ctl.records[m].event.n < counter + 1
      <4>1. ~ctl.records[m].event.probe /\ ctl.records[m].event.n <= current.id.n
        BY <2>4 DEF RecordsOnce
      <4>2. ctl.records[m].event.n \in Nat
        <5>1. ctl.records \in Seq(RecordType)
          BY ControllerFields DEF RunInv, TypeOK
        <5>2. ctl.records[m] \in RecordType
          BY <5>1, LenProperties, ElementOfSeq
        <5>. QED BY <5>2 DEF RecordType, Ids
      <4>3. current.id.n \in Nat /\ counter \in Nat /\ current.id.n <= counter
        BY TypeFields DEF RunInv, TypeOK, Ids, IdInv, IdsCounted
      <4>. QED BY <4>1, <4>2, <4>3
    <3>2. counter + 1 \in Nat /\ current'.id.n = counter + 1
      BY <2>1 DEF Id, RunInv, TypeOK
    <3>3. \A m \in DOMAIN ctl.records : ctl.records[m].event.n <= counter + 1
      <4>1. \A m \in DOMAIN ctl.records : ctl.records[m].event.n \in Nat
        <5>1. ctl.records \in Seq(RecordType)
          BY ControllerFields DEF RunInv, TypeOK
        <5>2. \A m \in DOMAIN ctl.records : ctl.records[m] \in RecordType
          BY <5>1, LenProperties, ElementOfSeq
        <5>. QED BY <5>2 DEF RecordType, Ids
      <4>. QED BY <3>1, <3>2, <4>1
    <3>. QED BY <2>3, <2>4, <3>1, <3>2, <3>3 DEF RecordsOnce
  <2>6. EventsMarked'
    BY <2>1, <2>2, <2>3, <2>4 DEF EventsMarked, SameMain
  <2>7. MatchedAccounted'
    BY <2>1, <2>2, AccountStays DEF RecInv
  <2>. QED BY <2>1, <2>4, <2>5, <2>6, <2>7 DEF RecInv, RecordsKept
<1>8. CASE StepEnds
  <2>1. /\ at = "step_end" /\ at' \in {"attempt", "steps_done"}
        /\ UNCHANGED <<current, ctl, report>>
    BY <1>8 DEF StepEnds, loop
  <2>2. SameMain
    BY <1>1, <1>8 DEF Quietly
  <2>. QED BY <2>1, <2>2, RecordsStay
<1>. QED BY <1>2, <1>3, <1>5, <1>6, <1>7, <1>8, NextIs, RecordsMove, RecordsAttempt
         DEF Receives, Concludes

LEMMA InitRecords == Init => RecInv
<1>. SUFFICES ASSUME Init PROVE RecInv
  OBVIOUS
<1>1. ~report.made /\ report.records = <<>> /\ ctl.records = <<>> /\ at = "connecting" /\ events = <<>>
  BY DEF Init, NoReport, EmptyController
<1>. QED BY <1>1 DEF RecInv, RecordsKept, RecordsOnce, EventsMarked, NoneTwice, MatchedAccounted,
                     ReportedOnce, MainEvents

\* Each mutation of a call that reached the target is accounted for in the report,
\* once, also when the run gave up on it (markFailed, recordsForReport).
THEOREM MutationsAccounted == Spec => []MatchedAccounted
<1>. DEFINE Inv == RunInv /\ IdInv /\ RecInv
<1>1. Init => Inv
  BY InitInRun, InitIds, InitRecords
<1>2. Inv /\ [Next]_vars => Inv'
  BY IdsStep, RecordsStep
<1>3. Inv => MatchedAccounted
  BY DEF RecInv
<1>. QED BY <1>1, <1>2, <1>3, PTL DEF Spec

-------------------------------------------------------------------------------
(* How the events of the attempts change in any step.                      *)

\* What the mutations leave, or the run shows when it gives up on them.
Concluded == IF Mutated THEN job.result ELSE Expiry

LEMMA EventsKept ==
    ASSUME RunInv, IdInv, [Next]_vars
    PROVE  /\ MainEvents \subseteq MainEvents'
           /\ \A n \in MainEvents :
                 /\ events'[n].id = events[n].id /\ events'[n].kind = events[n].kind
                 /\ events'[n].step = events[n].step /\ events'[n].attempt = events[n].attempt
                 /\ events'[n].parent = events[n].parent
                 /\ events'[n].mutations = events[n].mutations
                 /\ events'[n].underlying = events[n].underlying
                 /\ events'[n].physical = events[n].physical
                 /\ \/ events'[n] = events[n]
                    \/ /\ Concludes /\ events[n].id = current.id
                       /\ events'[n].error = Concluded.error /\ events'[n].commit = Concluded.commit
                       /\ events'[n].output = Concluded.output
<1>1. ASSUME NEW e, Grows(e)
      PROVE  MainEvents \subseteq MainEvents' /\ \A n \in MainEvents : events'[n] = events[n]
  BY <1>1 DEF Grows
<1>2. CASE Quietly
  BY <1>2, QuietlyKeeps
<1>3. CASE Observed("before", "probing_before") \/ Observed("after", "probing_after")
  <2>1. ASSUME NEW phase \in {"before", "after"}, NEW probing \in {"probing_before", "probing_after"},
               Observed(phase, probing)
        PROVE  \E e \in EventType : Grows(e)
    <3>1. at = probing /\ probe < Probes /\ TypeOK
      BY <2>1 DEF Observed, RunInv, StepInRange
    <3>. QED BY <2>1, <3>1, ObservedTyped, AppendGrows
  <2>2. \E e \in EventType : Grows(e)
    BY <1>3, <2>1
  <2>. QED BY <1>1, <2>2
<1>4. CASE Repeats
  <2>1. \E e \in EventType : Grows(e)
    BY <1>4, RepeatsTyped, AppendGrows DEF Repeats, RunInv
  <2>. QED BY <1>1, <2>1
<1>5. CASE AttemptDenied
  <2>1. \E e \in EventType : Grows(e)
    BY <1>5, DeniedTyped, AppendGrows DEF RunInv
  <2>. QED BY <1>1, <2>1
<1>6. CASE Receives
  <2>1. \E e \in EventType : Grows(e)
    BY <1>6, ReceivesOne
  <2>. QED BY <1>1, <2>1
<1>7. CASE Concludes
  <2>1. Shows(events, events', Concluded) /\ MainEvents' = MainEvents
    BY <1>7, ConcludesShows DEF Concluded
  <2>2. MainEvents \subseteq DOMAIN events
    BY DEF MainEvents
  <2>. QED BY <1>7, <2>1, <2>2 DEF Shows
<1>. QED BY <1>2, <1>3, <1>4, <1>5, <1>6, <1>7, NextByEvents

LEMMA NewEvents ==
    ASSUME RunInv, IdInv, [Next]_vars, NEW n \in MainEvents', n \notin MainEvents
    PROVE  /\ \A m \in MainEvents : m < n
           /\ events'[n].id = current'.id /\ events'[n].mutations = current'.list
           /\ events'[n].step = step /\ step' = step /\ events'[n].attempt = attempt'
           /\ \/ /\ AttemptDenied
                 /\ events'[n].error = finalError' /\ events'[n].commit = "not_attempted"
                 /\ events'[n].output = NoCall /\ ~events'[n].physical
              \/ /\ Receives /\ events'[n].physical /\ current' = current
                 /\ events'[n].error = Shown.error /\ events'[n].commit = Shown.commit
                 /\ events'[n].output = Shown.output
                 /\ events'[n].underlying = call.outcome.error
<1>1. ASSUME NEW e, Grows(e)
      PROVE  e.kind \in {"step", "retry"} /\ events'[n] = e /\ \A m \in MainEvents : m < n
  BY <1>1 DEF Grows
<1>2. CASE Quietly
  BY <1>2, QuietlyKeeps
<1>3. CASE Observed("before", "probing_before") \/ Observed("after", "probing_after")
  <2>1. ASSUME NEW phase \in {"before", "after"}, NEW probing \in {"probing_before", "probing_after"},
               Observed(phase, probing)
        PROVE  \E e \in EventType : Grows(e) /\ e.kind = "effect_probe"
    <3>1. at = probing /\ probe < Probes /\ TypeOK
      BY <2>1 DEF Observed, RunInv, StepInRange
    <3>. QED BY <2>1, <3>1, ObservedTyped, AppendGrows
  <2>2. \E e \in EventType : Grows(e) /\ e.kind = "effect_probe"
    BY <1>3, <2>1
  <2>. QED BY <1>1, <2>2
<1>4. CASE Repeats
  <2>1. \E e \in EventType : Grows(e) /\ e.kind = "duplicate"
    BY <1>4, RepeatsTyped, AppendGrows DEF Repeats, RunInv
  <2>. QED BY <1>1, <2>1
<1>5. CASE AttemptDenied
  <2>1. PICK e \in EventType :
           /\ events' = Append(events, e) /\ OfAttempt(e, current'.id, current'.list)
           /\ e.attempt = attempt + 1
           /\ e.error = finalError' /\ e.commit = "not_attempted" /\ e.output = NoCall /\ ~e.physical
    BY <1>5, DeniedTyped DEF RunInv
  <2>2. Grows(e)
    BY <2>1, AppendGrows DEF RunInv
  <2>3. events'[n] = e /\ \A m \in MainEvents : m < n
    BY <1>1, <2>2
  <2>4. attempt' = attempt + 1 /\ step' = step
    BY <1>5 DEF AttemptDenied
  <2>5. e.id = current'.id /\ e.mutations = current'.list /\ e.step = step
    BY <2>1 DEF OfAttempt
  <2>. QED BY <1>5, <2>1, <2>3, <2>4, <2>5
<1>6. CASE Receives
  <2>1. PICK e \in EventType :
           /\ Grows(e) /\ OfAttempt(e, current.id, current.list)
           /\ e.kind = (IF attempt > 1 THEN "retry" ELSE "step") /\ e.attempt = attempt
           /\ e.error = Shown.error /\ e.commit = Shown.commit /\ e.output = Shown.output
           /\ e.underlying = call.outcome.error /\ e.physical
    BY <1>6, ReceivesOne
  <2>2. events'[n] = e /\ \A m \in MainEvents : m < n
    BY <1>1, <2>1
  <2>3. attempt' = attempt /\ step' = step /\ current' = current
    BY <1>6, ReceivesLeaves
  <2>4. e.id = current.id /\ e.mutations = current.list /\ e.step = step
    BY <2>1 DEF OfAttempt
  <2>. QED BY <1>6, <2>1, <2>2, <2>3, <2>4
<1>7. CASE Concludes
  BY <1>7, ConcludesShows
<1>. QED BY <1>2, <1>3, <1>4, <1>5, <1>6, <1>7, NextByEvents

-------------------------------------------------------------------------------
(* What took effect has an event.                                          *)

PhysicalIds == {events[n].id : n \in {m \in DOMAIN events : events[m].physical}}

\* What was sent has an event, or is the call that is not over.
CallsHaveEvents ==
    committed \cup sent \subseteq
        PhysicalIds \cup (IF call.at = "idle" THEN {} ELSE {call.of})

LEMMA PhysicalGrows ==
    ASSUME NEW e, Grows(e)
    PROVE  /\ PhysicalIds \subseteq PhysicalIds'
           /\ e.physical => e.id \in PhysicalIds'
<1>1. DOMAIN events \subseteq DOMAIN events' /\ \A n \in DOMAIN events : events'[n] = events[n]
  BY DEF Grows
<1>2. PhysicalIds \subseteq PhysicalIds'
  BY <1>1 DEF PhysicalIds
<1>3. Len(events) + 1 \in DOMAIN events' /\ events'[Len(events) + 1] = e
  BY DEF Grows
<1>. QED BY <1>2, <1>3 DEF PhysicalIds

LEMMA CallsKeepEvents ==
    ASSUME RunInv, IdInv, CallsHaveEvents, [Next]_vars
    PROVE  CallsHaveEvents'
<1>. USE DEF RunInv
<1>1. ASSUME NEW e, Grows(e), e.physical, e.id = call.of, call'.at = "idle",
             UNCHANGED <<sent, committed>>
      PROVE  CallsHaveEvents'
  BY <1>1, PhysicalGrows DEF CallsHaveEvents
<1>2. ASSUME PhysicalIds \subseteq PhysicalIds', UNCHANGED <<sent, committed, call>>
      PROVE  CallsHaveEvents'
  BY <1>2 DEF CallsHaveEvents
<1>3. ASSUME events' = events, call.at = "idle", call'.at # "idle", committed' = committed,
             sent' \subseteq sent \cup {call'.of}
      PROVE  CallsHaveEvents'
  <2>1. PhysicalIds' = PhysicalIds
    BY <1>3 DEF PhysicalIds
  <2>. QED BY <1>3, <2>1 DEF CallsHaveEvents
<1>4. ASSUME Quietly PROVE PhysicalIds' = PhysicalIds /\ events' = events
  BY <1>4, QuietlyKeeps DEF PhysicalIds
<1>5. CASE Elsewhere
  <2>1. PhysicalIds' = PhysicalIds
    BY <1>4, <1>5 DEF Quietly
  <2>2. call'.of = call.of /\ ((call'.at = "idle") <=> (call.at = "idle"))
    BY <1>5, ElsewhereKeeps
  <2>3. committed' \cup sent' \subseteq committed \cup sent
    BY <1>5 DEF Elsewhere, DeadlinePasses, ClientCloses, Signal, CallSettles, CallBreaks, CallTimesOut,
                TargetReplies, TargetIsSilent, target
  <2>. QED BY <2>1, <2>2, <2>3 DEF CallsHaveEvents
<1>6. CASE Moves
  <2>1. PhysicalIds' = PhysicalIds /\ events' = events
    BY <1>4, <1>6 DEF Quietly
  <2>2. CASE Observe("before", "probing_before") \/ Observe("after", "probing_after")
    <3>1. /\ at \in {"before", "after"} /\ ~expired /\ call'.at = "open"
          /\ committed' = committed /\ sent' = sent \cup {call'.of}
      BY <2>2 DEF Observe, Called
    <3>2. call.at = "idle"
      BY <3>1 DEF CallIsAwaited, JobIsOfAttempt
    <3>. QED BY <1>3, <2>1, <3>1, <3>2
  <2>3. CASE ~(Observe("before", "probing_before") \/ Observe("after", "probing_after"))
    <3>1. UNCHANGED <<call, sent, committed>>
      BY <1>6, <2>3 DEF Moves, Connects, ConnectFails, ConnectTimesOut, ConnectClosed, EndsObserving,
                        AttemptSkipped, AfterTimesOut, StepsDone, Finish, Returns, target
    <3>. QED BY <1>2, <2>1, <3>1
  <2>. QED BY <2>2, <2>3
<1>7. CASE Works
  <2>1. PhysicalIds' = PhysicalIds /\ events' = events
    BY <1>4, <1>7 DEF Quietly
  <2>2. ASSUME NEW i \in DOMAIN Mutations, DuplicateStarts(i) PROVE CallsHaveEvents'
    <3>1. /\ job.at = "applying" /\ call'.at = "open" /\ committed' = committed
          /\ sent' \subseteq sent \cup {call'.of} /\ at' = at
      BY <2>2 DEF DuplicateStarts, Applying, Called
    <3>2. call.at = "idle"
      <4>1. at \notin {"probing_before", "calling", "probing_after"}
        BY <3>1 DEF JobIsOfAttempt
      <4>. QED BY <3>1, <4>1 DEF CallIsAwaited
    <3>. QED BY <1>3, <2>1, <3>1, <3>2
  <2>3. CASE ~ \E i \in DOMAIN Mutations : DuplicateStarts(i)
    <3>1. UNCHANGED <<call, sent, committed>>
      BY <1>7, <2>3 DEF Works, MutationApplies, MutationDelays, DelayEnds, DelayIsCut, JobEnds, target
    <3>. QED BY <1>2, <2>1, <3>1
  <2>. QED BY <2>2, <2>3
<1>8. CASE AttemptCalls
  <2>1. events' = events
    BY <1>4, <1>8 DEF Quietly
  <2>2. /\ at = "attempt" /\ ~expired /\ call'.at = "open"
        /\ committed' = committed /\ sent' = sent \cup {call'.of}
    BY <1>8 DEF AttemptCalls, Called
  <2>3. call.at = "idle"
    BY <2>2 DEF CallIsAwaited, JobIsOfAttempt
  <2>. QED BY <1>3, <2>1, <2>2, <2>3
<1>9. CASE StepEnds \/ UNCHANGED vars
  <2>1. PhysicalIds' = PhysicalIds
    BY <1>4, <1>9 DEF Quietly
  <2>2. UNCHANGED <<call, sent, committed>>
    BY <1>9 DEF StepEnds, vars, target
  <2>. QED BY <1>2, <2>1, <2>2
<1>10. ASSUME NEW phase \in {"before", "after"}, NEW probing \in {"probing_before", "probing_after"},
              Observed(phase, probing)
       PROVE  CallsHaveEvents'
  <2>1. at = probing /\ probe < Probes
    BY <1>10 DEF Observed, StepInRange
  <2>2. PICK e \in EventType : events' = Append(events, e) /\ e.id = call.of /\ e.physical
    BY <1>10, <2>1, ObservedTyped
  <2>3. call'.at = "idle" /\ UNCHANGED <<sent, committed>>
    BY <1>10 DEF Observed, NoCallMade, target
  <2>. QED BY <1>1, <2>2, <2>3, AppendGrows
<1>11. CASE Repeats
  <2>1. PICK i \in DOMAIN Mutations : DuplicateReturns(i)
    BY <1>11 DEF Repeats
  <2>2. PICK e \in EventType : events' = Append(events, e) /\ e.id = call.of /\ e.physical
    BY <2>1, RepeatsTyped
  <2>3. call'.at = "idle" /\ UNCHANGED <<sent, committed>>
    BY <2>1 DEF DuplicateReturns, NoCallMade, target
  <2>. QED BY <1>1, <2>2, <2>3, AppendGrows
<1>12. CASE AttemptDenied
  <2>1. \E e \in EventType : events' = Append(events, e)
    BY <1>12, DeniedTyped
  <2>2. PhysicalIds \subseteq PhysicalIds'
    BY <2>1, AppendGrows, PhysicalGrows
  <2>3. UNCHANGED <<call, sent, committed>>
    BY <1>12 DEF AttemptDenied, target
  <2>. QED BY <1>2, <2>2, <2>3
<1>13. CASE Receives
  <2>1. PICK e \in EventType : Grows(e) /\ OfAttempt(e, current.id, current.list) /\ e.physical
    BY <1>13, ReceivesOne
  <2>2. at = "calling" /\ call'.at = "idle" /\ UNCHANGED <<sent, committed>>
    BY <1>13, ReceivesLeaves
  <2>3. e.id = call.of
    BY <2>1, <2>2 DEF OfAttempt, CallIsAwaited
  <2>. QED BY <1>1, <2>1, <2>2, <2>3
<1>14. CASE Concludes
  <2>1. UNCHANGED <<call, sent, committed>>
    BY <1>14, ConcludesLeaves
  <2>2. DOMAIN events' = DOMAIN events
        /\ \A n \in DOMAIN events :
              events'[n].id = events[n].id /\ events'[n].physical = events[n].physical
    BY <1>14, ConcludesShows DEF Shows
  <2>3. PhysicalIds' = PhysicalIds
    BY <2>2 DEF PhysicalIds
  <2>. QED BY <1>2, <2>1, <2>3
<1>. QED BY <1>5, <1>6, <1>7, <1>8, <1>9, <1>10, <1>11, <1>12, <1>13, <1>14, NextByEvents DEF Quietly

LEMMA InitCalls == Init => CallsHaveEvents
BY DEF Init, CallsHaveEvents

\* When all has come to rest, what took effect in the target is the call of a physical
\* event (runPack, MutationController.after).
THEOREM EffectsAreCalls == Spec => []EffectsHaveEvents
<1>. DEFINE Inv == RunInv /\ IdInv /\ CallsHaveEvents
<1>1. Init => Inv
  BY InitInRun, InitIds, InitCalls
<1>2. Inv /\ [Next]_vars => Inv'
  BY IdsStep, CallsKeepEvents
<1>3. Inv => EffectsHaveEvents
  BY DEF CallsHaveEvents, EffectsHaveEvents, JobOver, PhysicalIds
<1>. QED BY <1>1, <1>2, <1>3, PTL DEF Spec

-------------------------------------------------------------------------------
(* The end of the target.                                                  *)

\* The report says that the target is gone only when its close was confirmed.
GoneIsClosed == report.processClosed => closing = "closed"

\* A close that was confirmed stays so, and after it no call takes effect.
LEMMA ClosedStays ==
    ASSUME RunInv, [Next]_vars, closing = "closed"
    PROVE  closing' = "closed" /\ committed' = committed
<1>1. CASE Elsewhere
  <2>1. ASSUME NEW outcome, Resolve(outcome) PROVE closing' = closing
    BY <2>1 DEF Resolve, StartClose
  <2>2. CASE DeadlinePasses \/ CallSettles
    BY <2>2 DEF DeadlinePasses, CallSettles, stop, target
  <2>3. CASE Signal
    BY <2>3 DEF Signal, StartClose, target
  <2>4. CASE CallBreaks \/ CallTimesOut
    BY <2>1, <2>4 DEF CallBreaks, CallTimesOut, target
  <2>. QED BY <1>1, <2>2, <2>3, <2>4 DEF Elsewhere, ClientCloses, TargetReplies, TargetIsSilent
<1>2. CASE Moves
  BY <1>2 DEF Moves, Connects, ConnectFails, ConnectTimesOut, ConnectClosed, Observe, EndsObserving,
              AttemptSkipped, AfterTimesOut, StepsDone, Finish, Returns, StartClose, stop, target
<1>3. CASE Works \/ Repeats
  BY <1>3, Frames DEF stop, target
<1>4. CASE Observed("before", "probing_before") \/ Observed("after", "probing_after")
  BY <1>4 DEF Observed, target
<1>5. CASE AttemptDenied \/ AttemptCalls \/ StepEnds \/ UNCHANGED vars
  BY <1>5 DEF AttemptDenied, AttemptCalls, StepEnds, vars, stop, target
<1>6. CASE Receives
  BY <1>6, ReceivesLeaves
<1>7. CASE Concludes
  BY <1>7, ConcludesLeaves
<1>. QED BY <1>1, <1>2, <1>3, <1>4, <1>5, <1>6, <1>7, NextByEvents DEF Quietly

LEMMA GoneStep ==
    ASSUME RunInv, GoneIsClosed, [Next]_vars
    PROVE  GoneIsClosed'
<1>1. CASE report' = report
  BY <1>1, ClosedStays DEF GoneIsClosed
<1>2. CASE Finish
  <2>1. report'.processClosed = FALSE
    BY <1>2 DEF Finish, NoReport
  <2>. QED BY <2>1 DEF GoneIsClosed
<1>3. CASE Returns
  <2>1. report \in [made: BOOLEAN, evaluated: BOOLEAN, records: Seq(RecordType), processClosed: BOOLEAN]
    BY DEF RunInv, TypeOK, RecordType
  <2>2. (report'.processClosed <=> closing = "closed") /\ closing' = closing
    BY <1>3, <2>1 DEF Returns, stop
  <2>. QED BY <2>2 DEF GoneIsClosed
<1>4. CASE ~Finish /\ ~Returns
  <2>1. CASE Elsewhere \/ Works \/ Repeats
    BY <1>1, <2>1, Frames
  <2>2. CASE Moves
    BY <1>1, <1>4, <2>2 DEF Moves, Connects, ConnectFails, ConnectTimesOut, ConnectClosed, Observe,
                            EndsObserving, AttemptSkipped, AfterTimesOut, StepsDone
  <2>3. CASE Observed("before", "probing_before") \/ Observed("after", "probing_after")
    BY <1>1, <2>3 DEF Observed
  <2>4. CASE AttemptDenied \/ AttemptCalls \/ StepEnds \/ UNCHANGED vars
    BY <1>1, <2>4 DEF AttemptDenied, AttemptCalls, StepEnds, vars
  <2>5. CASE Receives \/ Concludes
    BY <1>1, <2>5, ReceivesLeaves, ConcludesLeaves
  <2>. QED BY <2>1, <2>2, <2>3, <2>4, <2>5, NextByEvents DEF Quietly
<1>. QED BY <1>1, <1>2, <1>3, <1>4

\* When the report says that the target is gone, no call takes effect any more
\* (closeClient, processClosed in runPack).
THEOREM GoneForGood == Spec => ReportedGone
<1>. DEFINE Inv == RunInv /\ GoneIsClosed
            A == at = "returned" /\ report.processClosed => committed' = committed
<1>1. Init => Inv
  <2>1. Init => GoneIsClosed
    BY DEF Init, NoReport, GoneIsClosed
  <2>. QED BY <2>1, InitInRun
<1>2. Inv /\ [Next]_vars => Inv'
  BY RunStep, GoneStep
<1>3. Inv /\ [Next]_vars => [A]_vars
  BY ClosedStays DEF GoneIsClosed
<1>. HIDE DEF Inv, A
<1>4. Spec => [][A]_vars
  BY <1>1, <1>2, <1>3, PTL DEF Spec
<1>. QED BY <1>4 DEF ReportedGone, A

-------------------------------------------------------------------------------
(* What is attempted before the assertions are evaluated.                  *)

\* Step s was attempted to its end.
Attempted(s) ==
    \E n \in MainEvents :
        /\ events[n].step = s
        /\ events[n].error \notin Steps[s].on \/ events[n].attempt = Steps[s].max_attempts

Ahead == {"attempt", "calling", "mutating", "abandoning", "step_end"}
Behind == {"steps_done", "after", "probing_after", "finish"}

StepsAttempted ==
    /\ at \in Ahead => \A s \in 1..(step - 1) : Attempted(s)
    /\ at = "step_end" /\ ~expired => Attempted(step)
    /\ at \in Behind /\ ~expired /\ failure = "none" => \A s \in DOMAIN Steps : Attempted(s)
    /\ at \notin {"closing", "returned"} => ~report.evaluated

\* What was attempted to its end stays so, but for the attempt whose outcome changes.
LEMMA AttemptedStays ==
    ASSUME RunInv, IdInv, [Next]_vars, NEW s, Attempted(s), ~Concludes \/ s # step
    PROVE  Attempted(s)'
<1>1. PICK n \in MainEvents :
         /\ events[n].step = s
         /\ events[n].error \notin Steps[s].on \/ events[n].attempt = Steps[s].max_attempts
  BY DEF Attempted
<1>2. n \in MainEvents' /\ events'[n].step = s /\ events'[n].attempt = events[n].attempt
  BY <1>1, EventsKept
<1>3. events'[n] = events[n]
  <2>1. CASE ~Concludes
    BY <2>1, EventsKept
  <2>2. CASE Concludes /\ s # step
    <3>1. at \in {"mutating", "abandoning"}
      BY <2>2, ConcludesLeaves
    <3>2. PICK m \in CurrentEvents : TRUE
      BY <3>1 DEF IdInv, CurrentHasEvent, RunInv, JobIsOfAttempt
    <3>3. m \in MainEvents /\ events[m].id = current.id /\ events[m].step = step
      BY <3>2 DEF CurrentEvents
    <3>4. events[n].id = current.id => n = m
      BY <3>3, CurrentIsLast
    <3>5. events[n].id # current.id
      BY <1>1, <2>2, <3>3, <3>4
    <3>. QED BY <3>5, EventsKept
  <2>. QED BY <2>1, <2>2
<1>4. Steps' = Steps
  BY PackStays
<1>. QED BY <1>1, <1>2, <1>3, <1>4 DEF Attempted

\* An attempt that is not followed by another one was the last of its step.
LEMMA LastAttempt ==
    ASSUME RunInv, at \in Ahead, NEW error, NEW k \in 1..Steps[step].max_attempts, ~Retries(error, k)
    PROVE  error \notin Steps[step].on \/ k = Steps[step].max_attempts
<1>1. Steps[step].max_attempts \in Nat
  <2>1. step \in DOMAIN Steps
    BY DEF RunInv, StepInRange, Ahead
  <2>. QED BY <2>1, PackTyped DEF RunInv, TypeOK, Step
<1>2. error \notin Steps[step].on \/ ~(k < Steps[step].max_attempts)
  BY DEF Retries, ThisStep
<1>. QED BY <1>1, <1>2

\* At the end of an attempt its step has been attempted, or is attempted again.
LEMMA AttemptEnds ==
    ASSUME RunInv, IdInv, PolicyInv, AttemptDenied \/ Receives \/ Concludes, at' = "step_end"
    PROVE  Attempted(step)'
<1>1. at \in Ahead /\ [Next]_vars
  <2>1. at \in {"attempt", "calling", "mutating", "abandoning"}
    BY ReceivesLeaves, ConcludesLeaves DEF AttemptDenied
  <2>2. [Next]_vars
    BY DEF Receives, Concludes, Next, Continue, Attempts
  <2>. QED BY <2>1, <2>2 DEF Ahead
<1>2. ASSUME NEW n \in MainEvents', events'[n].step = step, step' = step,
             events'[n].attempt \in 1..Steps[step].max_attempts,
             ~Retries(events'[n].error, events'[n].attempt)
      PROVE  Attempted(step)'
  <2>1. events'[n].error \notin Steps[step].on \/ events'[n].attempt = Steps[step].max_attempts
    BY <1>1, <1>2, LastAttempt
  <2>2. Steps' = Steps
    BY <1>1, PackStays
  <2>. QED BY <1>2, <2>1, <2>2 DEF Attempted
<1>3. CASE AttemptDenied
  <2>1. PICK e \in EventType :
           /\ events' = Append(events, e) /\ OfAttempt(e, current'.id, current'.list)
           /\ e.attempt = attempt + 1 /\ e.error = finalError'
           /\ e.kind \in {"step", "retry"}
    BY <1>3, DeniedTyped DEF RunInv
  <2>2. Grows(e)
    BY <2>1, AppendGrows DEF RunInv
  <2>3. Len(events) + 1 \in MainEvents' /\ events'[Len(events) + 1] = e
    BY <2>1, <2>2 DEF Grows
  <2>4. at = "attempt" /\ attempt' = attempt + 1 /\ step' = step
        /\ at' = IF Retries(finalError', attempt') THEN "attempt" ELSE "step_end"
    BY <1>3 DEF AttemptDenied
  <2>5. ~Retries(e.error, e.attempt)
    BY <2>1, <2>4
  <2>6. e.step = step
    BY <2>1 DEF OfAttempt
  <2>7. e.attempt \in 1..Steps[step].max_attempts
    <3>1. attempt + 1 <= Steps[step].max_attempts /\ attempt \in Nat /\ step \in DOMAIN Steps
      BY <2>4 DEF PolicyInv, AttemptsPlanned, RunInv, TypeOK, StepInRange
    <3>2. Steps[step].max_attempts \in Nat
      BY <3>1, PackTyped DEF RunInv, TypeOK, Step
    <3>. QED BY <2>1, <3>1, <3>2
  <2>. QED BY <1>2, <2>3, <2>4, <2>5, <2>6, <2>7
<1>4. CASE Receives
  <2>1. PICK e \in EventType :
           /\ Grows(e) /\ OfAttempt(e, current.id, current.list)
           /\ e.kind = (IF attempt > 1 THEN "retry" ELSE "step") /\ e.attempt = attempt
           /\ e.error = Shown.error
    BY <1>4, ReceivesOne
  <2>2. Len(events) + 1 \in MainEvents' /\ events'[Len(events) + 1] = e
    BY <2>1 DEF Grows
  <2>3. at = "calling" /\ step' = step /\ ~Retries(Shown.error, attempt)
    BY <1>4, ReceivesLeaves
  <2>4. e.attempt \in 1..Steps[step].max_attempts
    BY <2>1, <2>3 DEF PolicyInv, AttemptsPlanned
  <2>5. e.step = step
    BY <2>1 DEF OfAttempt
  <2>. QED BY <1>2, <2>1, <2>2, <2>3, <2>4, <2>5
<1>5. CASE Concludes
  <2>1. at \in {"mutating", "abandoning"}
    BY <1>5, ConcludesLeaves
  <2>2. PICK n \in CurrentEvents : TRUE
    BY <2>1 DEF IdInv, CurrentHasEvent, RunInv, JobIsOfAttempt
  <2>3. n \in MainEvents /\ events[n].id = current.id /\ events[n].step = step
        /\ events[n].attempt = attempt
    BY <2>2 DEF CurrentEvents
  <2>4. /\ Shows(events, events', Concluded) /\ MainEvents' = MainEvents /\ step' = step
        /\ ~Retries(Concluded.error, attempt)
    BY <1>5, ConcludesShows DEF Concluded
  <2>5. n \in DOMAIN events
    BY <2>3 DEF MainEvents
  <2>6. events'[n].step = step /\ events'[n].attempt = attempt /\ events'[n].error = Concluded.error
    BY <2>3, <2>4, <2>5 DEF Shows
  <2>7. attempt \in 1..Steps[step].max_attempts
    BY <2>3 DEF PolicyInv, RetriesFollowPolicy
  <2>. QED BY <1>2, <2>3, <2>4, <2>6, <2>7
<1>. QED BY <1>3, <1>4, <1>5

LEMMA StepsElsewhere ==
    ASSUME RunInv, IdInv, StepsAttempted, [Next]_vars,
           UNCHANGED <<at, step, failure, report>>, expired => expired'
    PROVE  StepsAttempted'
<1>1. Steps' = Steps
  BY PackStays
<1>2. ~Concludes
  BY ConcludesShows, ConcludesLeaves DEF RunInv
<1>3. \A s : Attempted(s) => Attempted(s)'
  BY <1>2, AttemptedStays
<1>4. (at \in Ahead => \A s \in 1..(step - 1) : Attempted(s))'
  BY <1>3 DEF StepsAttempted, Ahead
<1>5. (at = "step_end" /\ ~expired => Attempted(step))'
  BY <1>3 DEF StepsAttempted
<1>6. (at \in Behind /\ ~expired /\ failure = "none" => \A s \in DOMAIN Steps : Attempted(s))'
  BY <1>1, <1>3 DEF StepsAttempted, Behind
<1>7. (at \notin {"closing", "returned"} => ~report.evaluated)'
  BY DEF StepsAttempted
<1>. QED BY <1>4, <1>5, <1>6, <1>7 DEF StepsAttempted

\* The run goes on to another await, and no attempt ends.
LEMMA StepsMove ==
    ASSUME RunInv, IdInv, StepsAttempted, [Next]_vars,
           Moves \/ Observed("before", "probing_before") \/ Observed("after", "probing_after")
    PROVE  StepsAttempted'
<1>1. Steps' = Steps /\ DOMAIN Steps = 1..Len(Steps)
  BY PackStays, PackTyped DEF RunInv, TypeOK
<1>2. ~Concludes /\ step' = step
  <2>1. at \notin {"mutating", "abandoning"} \/ AfterTimesOut
    BY DEF Moves, Connects, ConnectFails, ConnectTimesOut, ConnectClosed, Observe, EndsObserving,
           AttemptSkipped, StepsDone, Finish, Returns, Observed
  <2>2. AfterTimesOut => at' = "abandoning"
    BY DEF AfterTimesOut
  <2>3. Concludes => at \in {"mutating", "abandoning"} /\ at' \in {"attempt", "step_end"}
    BY ConcludesLeaves, ConcludesShows
  <2>. QED BY <2>1, <2>2, <2>3, Frames DEF loop, Observed
<1>3. \A s : Attempted(s) => Attempted(s)'
  BY <1>2, AttemptedStays
<1>4. ASSUME at' \notin Ahead \cup Behind \cup {"closing", "returned"}, report' = report,
             at \notin {"closing", "returned"}
      PROVE  StepsAttempted'
  BY <1>4 DEF StepsAttempted, Ahead, Behind
<1>5. ASSUME at \in Behind, at' \in Behind, report' = report,
             ~expired' /\ failure' = "none" => ~expired /\ failure = "none"
      PROVE  StepsAttempted'
  BY <1>1, <1>3, <1>5 DEF StepsAttempted, Ahead, Behind
<1>6. CASE Connects \/ ConnectFails \/ ConnectTimesOut \/ ConnectClosed
           \/ Observe("before", "probing_before") \/ Observed("before", "probing_before")
  BY <1>4, <1>6 DEF Connects, ConnectFails, ConnectTimesOut, ConnectClosed, Observe, Observed, Ahead,
                    Behind
<1>7. CASE Observe("after", "probing_after") \/ EndsObserving("after", "finish") \/ StepsDone
  BY <1>5, <1>7 DEF Observe, EndsObserving, StepsDone, Behind, stop
<1>8. CASE Observed("after", "probing_after")
  <2>1. at = "probing_after" /\ at' = "after" /\ report' = report /\ (expired => expired')
    BY <1>8 DEF Observed
  <2>2. failure' = "none" => failure = "none"
    BY <1>8 DEF Observed, CallFailures, Immediate
  <2>. QED BY <1>5, <2>1, <2>2 DEF Behind
<1>9. CASE EndsObserving("before", IF failure = "none" /\ Steps # <<>> THEN "attempt" ELSE "steps_done")
  <2>1. /\ at = "before" /\ report' = report /\ failure' = failure
        /\ at' = IF failure = "none" /\ Steps # <<>> THEN "attempt" ELSE "steps_done"
    BY <1>9 DEF EndsObserving
  <2>2. step = 1
    BY <2>1 DEF RunInv, FreshStart
  <2>3. CASE at' = "attempt"
    BY <1>2, <2>1, <2>2, <2>3 DEF StepsAttempted, Ahead, Behind
  <2>4. CASE at' # "attempt"
    <3>1. at' = "steps_done" /\ (failure' = "none" => DOMAIN Steps = {})
      BY <2>1, <2>4
    <3>. QED BY <1>1, <2>1, <3>1 DEF StepsAttempted, Ahead, Behind
  <2>. QED BY <2>3, <2>4
<1>10. CASE AttemptSkipped \/ AfterTimesOut
  <2>1. /\ at \in {"attempt", "mutating"} /\ at' \in {"step_end", "abandoning"} /\ report' = report
        /\ expired'
    BY <1>10 DEF AttemptSkipped, AfterTimesOut, stop
  <2>. QED BY <1>2, <1>3, <2>1 DEF StepsAttempted, Ahead, Behind
<1>11. CASE Finish \/ Returns
  BY <1>11 DEF Finish, Returns, StepsAttempted, Ahead, Behind
<1>. QED BY <1>6, <1>7, <1>8, <1>9, <1>10, <1>11 DEF Moves

LEMMA StepsStep ==
    ASSUME RunInv, IdInv, PolicyInv, StepsAttempted, [Next]_vars
    PROVE  StepsAttempted'
<1>1. Steps' = Steps /\ DOMAIN Steps = 1..Len(Steps) /\ Len(Steps) \in Nat
  BY PackStays, PackTyped DEF RunInv, TypeOK
<1>2. CASE Elsewhere \/ Works \/ Repeats \/ UNCHANGED vars
  <2>1. UNCHANGED <<at, step, failure, report>>
    BY <1>2, Frames DEF loop, vars
  <2>2. expired => expired'
    BY <1>2, ElsewhereKeeps, Frames DEF stop, vars, RunInv
  <2>. QED BY <2>1, <2>2, StepsElsewhere
<1>3. CASE Moves \/ Observed("before", "probing_before") \/ Observed("after", "probing_after")
  BY <1>3, StepsMove
<1>4. CASE AttemptCalls \/ CallMutates
  <2>1. at \in {"attempt", "calling"} /\ at' \in {"calling", "mutating"} /\ step' = step /\ report' = report
    BY <1>4 DEF AttemptCalls, CallMutates, loop
  <2>2. ~Concludes
    BY <2>1, ConcludesLeaves
  <2>3. \A s : Attempted(s) => Attempted(s)'
    BY <2>2, AttemptedStays
  <2>. QED BY <2>1, <2>3 DEF StepsAttempted, Ahead, Behind
<1>5. CASE AttemptDenied \/ CallFails \/ CallTooLate \/ Concludes
  <2>1. at \in {"attempt", "calling", "mutating", "abandoning"} /\ at' \in {"attempt", "step_end"}
        /\ step' = step /\ report' = report
    <3>1. CASE AttemptDenied
      BY <3>1 DEF AttemptDenied
    <3>2. CASE CallFails \/ CallTooLate
      <4>1. ~CallMutates
        BY <3>2 DEF CallFails, CallTooLate, CallMutates
      <4>. QED BY <3>2, <4>1, ReceivesLeaves DEF Receives
    <3>3. CASE Concludes
      BY <3>3, ConcludesLeaves, ConcludesShows
    <3>. QED BY <1>5, <3>1, <3>2, <3>3
  <2>2. \A s \in 1..(step - 1) : s # step
    BY DEF RunInv, TypeOK
  <2>3. \A s \in 1..(step - 1) : Attempted(s) => Attempted(s)'
    BY <2>2, AttemptedStays
  <2>4. at' = "step_end" => Attempted(step)'
    BY <1>5, AttemptEnds DEF Receives
  <2>5. (at \in Ahead => \A s \in 1..(step - 1) : Attempted(s))'
    BY <2>1, <2>3 DEF StepsAttempted, Ahead
  <2>6. (at = "step_end" /\ ~expired => Attempted(step))'
    BY <2>4
  <2>. QED BY <2>1, <2>5, <2>6 DEF StepsAttempted, Behind
<1>6. CASE StepEnds
  <2>1. /\ at = "step_end" /\ (expired => expired') /\ report' = report
        /\ failure' = "none" => failure = "none"
    BY <1>6 DEF StepEnds, CallFailures, Immediate
  <2>2. ~Concludes
    BY <2>1, ConcludesLeaves
  <2>3. \A s : Attempted(s) => Attempted(s)'
    BY <2>2, AttemptedStays
  <2>4. step \in 1..Len(Steps)
    BY <1>1, <2>1 DEF RunInv, StepInRange
  <2>5. ~expired' => \A s \in 1..step : Attempted(s)'
    <3>1. \A s \in 1..step : s \in 1..(step - 1) \/ s = step
      BY <2>4
    <3>2. ~expired => \A s \in 1..step : Attempted(s)
      BY <2>1, <3>1 DEF StepsAttempted, Ahead
    <3>. QED BY <2>1, <2>3, <3>2
  <2>6. CASE expired' \/ failure' # "none" \/ step = Len(Steps)
    <3>1. at' = "steps_done"
      BY <1>6, <2>6 DEF StepEnds
    <3>. QED BY <1>1, <2>1, <2>5, <2>6, <3>1 DEF StepsAttempted, Ahead, Behind
  <2>7. CASE ~(expired' \/ failure' # "none" \/ step = Len(Steps))
    <3>1. at' = "attempt" /\ step' = step + 1
      BY <1>6, <2>7 DEF StepEnds
    <3>2. 1..(step' - 1) = 1..step
      BY <2>4, <3>1
    <3>. QED BY <2>1, <2>5, <2>7, <3>1, <3>2 DEF StepsAttempted, Ahead, Behind
  <2>. QED BY <2>6, <2>7
<1>. QED BY <1>2, <1>3, <1>4, <1>5, <1>6, NextByEvents DEF Quietly, Receives

\* The assertions are evaluated on a complete run.
LEMMA VerdictComplete ==
    ASSUME RunInv, CallsHaveEvents, StepsAttempted, [Next]_vars,
           ~report.evaluated, report'.evaluated
    PROVE  ~interrupted /\ RunIsComplete'
<1>1. Finish
  <2>1. CASE Elsewhere \/ Works \/ Repeats
    BY <2>1, Frames
  <2>2. CASE Receives \/ Concludes
    BY <2>2, ReceivesLeaves, ConcludesLeaves
  <2>3. CASE Returns
    <3>1. report \in [made: BOOLEAN, evaluated: BOOLEAN, records: Seq(RecordType),
                      processClosed: BOOLEAN]
      BY DEF RunInv, TypeOK, RecordType
    <3>2. report'.evaluated = report.evaluated
      BY <2>3, <3>1 DEF Returns
    <3>. QED BY <3>2
  <2>4. CASE Moves /\ ~Finish /\ ~Returns
    BY <2>4 DEF Moves, Connects, ConnectFails, ConnectTimesOut, ConnectClosed, Observe,
                EndsObserving, AttemptSkipped, AfterTimesOut, StepsDone
  <2>5. CASE Observed("before", "probing_before") \/ Observed("after", "probing_after")
    BY <2>5 DEF Observed
  <2>6. CASE AttemptDenied \/ AttemptCalls \/ StepEnds \/ UNCHANGED vars
    BY <2>6 DEF AttemptDenied, AttemptCalls, StepEnds, vars
  <2>. QED BY <2>1, <2>2, <2>3, <2>4, <2>5, <2>6, NextByEvents DEF Quietly
<1>2. /\ at = "finish" /\ (report'.evaluated <=> failure' = "none")
      /\ failure' = IF failure = "none" /\ expired' THEN "timeout" ELSE failure
      /\ (expired' <=> expired \/ late)
      /\ UNCHANGED <<pack, events, job, call, sent, committed>>
  BY <1>1 DEF Finish, NoReport, target
<1>3. failure = "none" /\ ~expired
  BY <1>2
<1>4. ~interrupted /\ job.at = "idle"
  BY <1>2, <1>3 DEF RunInv, JobIsOfAttempt
<1>5. call.at = "idle"
  BY <1>2, <1>4 DEF RunInv, CallIsAwaited
<1>6. JobOver'
  BY <1>2, <1>4, <1>5 DEF JobOver
<1>7. Steps' = Steps /\ MainEvents' = MainEvents
  BY <1>2 DEF Steps, MainEvents
<1>8. \A s \in DOMAIN Steps : Attempted(s)
  BY <1>2, <1>3 DEF StepsAttempted, Behind
<1>9. (\A s \in DOMAIN Steps : \E n \in MainEvents :
          /\ events[n].step = s
          /\ events[n].error \notin Steps[s].on \/ events[n].attempt = Steps[s].max_attempts)'
  BY <1>2, <1>7, <1>8 DEF Attempted
<1>10. (committed \cup sent \subseteq {events[n].id : n \in DOMAIN events})'
  BY <1>2, <1>5 DEF CallsHaveEvents, PhysicalIds
<1>. QED BY <1>4, <1>6, <1>9, <1>10 DEF RunIsComplete

\* The assertions are only evaluated on a run that was not interrupted, whose steps
\* were all attempted to their ends and whose calls all have their events (runPack:
\* evaluateAssertions unless executionError).
THEOREM VerdictsOfCompleteRuns == Spec => VerdictOnCompleteRun
<1>. DEFINE Inv == RunInv /\ IdInv /\ PolicyInv /\ CallsHaveEvents /\ StepsAttempted
            A == ~report.evaluated /\ report'.evaluated => ~interrupted /\ RunIsComplete'
<1>1. Init => Inv
  <2>1. Init => StepsAttempted
    BY DEF Init, NoReport, StepsAttempted, Ahead, Behind
  <2>. QED BY <2>1, InitInRun, InitIds, InitPolicy, InitCalls
<1>2. Inv /\ [Next]_vars => Inv'
  BY IdsStep, PolicyStep, CallsKeepEvents, StepsStep
<1>3. Inv /\ [Next]_vars => [A]_vars
  BY VerdictComplete
<1>. HIDE DEF Inv, A
<1>4. Spec => [][A]_vars
  BY <1>1, <1>2, <1>3, PTL DEF Spec
<1>. QED BY <1>4 DEF VerdictOnCompleteRun, A

-------------------------------------------------------------------------------
(* Outputs: whose answer a call carries.                                   *)

\* The target gave output in answer to a call with the context.
GivenBefore(output, context) ==
    \E m \in MainEvents :
        /\ events[m].id = output /\ events[m].underlying = "none"
        /\ Steps[events[m].step].context = context

CallIsReal == call.outcome.output \in {NoCall, call.of}

PriorsAreReal ==
    \A context \in Contexts :
        ctl.previousSuccess[context].output # NoCall =>
            GivenBefore(ctl.previousSuccess[context].output, context)

JobIsReal ==
    job.at # "idle" =>
        /\ job.original.output \in {NoCall, current.id}
        /\ \E n \in CurrentEvents : events[n].underlying = job.original.error
        /\ job.prior.output # NoCall => GivenBefore(job.prior.output, Steps[step].context)
        /\ job.result.output \in {NoCall, current.id, job.prior.output}

OutputInv == CallIsReal /\ PriorsAreReal /\ JobIsReal /\ StaleFromEarlier

\* What was given before stays given, and the current attempt has its event.
LEMMA GivenStays ==
    ASSUME RunInv, IdInv, [Next]_vars
    PROVE  /\ \A output, context : GivenBefore(output, context) => GivenBefore(output, context)'
           /\ UNCHANGED <<step, attempt, current>> =>
                 \A n \in CurrentEvents : n \in CurrentEvents' /\ events'[n].underlying = events[n].underlying
<1>1. Steps' = Steps
  BY PackStays
<1>2. ASSUME NEW output, NEW context, GivenBefore(output, context)
      PROVE  GivenBefore(output, context)'
  <2>1. PICK m \in MainEvents :
           /\ events[m].id = output /\ events[m].underlying = "none"
           /\ Steps[events[m].step].context = context
    BY <1>2 DEF GivenBefore
  <2>2. m \in MainEvents' /\ events'[m].id = output /\ events'[m].underlying = "none"
        /\ events'[m].step = events[m].step
    BY <2>1, EventsKept
  <2>. QED BY <1>1, <2>1, <2>2 DEF GivenBefore
<1>3. ASSUME UNCHANGED <<step, attempt, current>>, NEW n \in CurrentEvents
      PROVE  n \in CurrentEvents' /\ events'[n].underlying = events[n].underlying
  <2>1. n \in MainEvents /\ events[n].id = current.id /\ events[n].step = step
        /\ events[n].attempt = attempt /\ events[n].mutations = current.list /\ events[n].physical
    BY <1>3 DEF CurrentEvents
  <2>2. /\ n \in MainEvents' /\ events'[n].id = events[n].id /\ events'[n].step = events[n].step
        /\ events'[n].attempt = events[n].attempt /\ events'[n].mutations = events[n].mutations
        /\ events'[n].underlying = events[n].underlying
        /\ events'[n].physical = events[n].physical
    BY <2>1, EventsKept
  <2>. QED BY <1>3, <2>1, <2>2 DEF CurrentEvents
<1>. QED BY <1>2, <1>3

\* What the call carries.
LEMMA CallStaysReal ==
    ASSUME RunInv, CallIsReal, [Next]_vars
    PROVE  CallIsReal'
<1>. USE DEF RunInv
<1>0. call \in CallType /\ NoOutcome.output = NoCall
  BY TypeFields, NoOutcomeTyped
<1>1. CASE call' = call
  BY <1>1 DEF CallIsReal
<1>2. CASE call'.outcome = NoOutcome
  BY <1>0, <1>2 DEF CallIsReal
<1>3. ASSUME NEW outcome, Resolve(outcome), outcome.output \in {NoCall, call.of} PROVE CallIsReal'
  <2>1. call'.of = call.of /\ call'.outcome = outcome
    BY <1>0, <1>3 DEF Resolve, CallType
  <2>. QED BY <1>3, <2>1 DEF CallIsReal
<1>4. CASE Elsewhere
  <2>1. CASE DeadlinePasses \/ ClientCloses \/ Signal
    BY <1>1, <2>1 DEF DeadlinePasses, ClientCloses, Signal
  <2>2. CASE CallSettles
    <3>1. call'.of = call.of /\ call'.outcome = call.outcome
      BY <1>0, <2>2 DEF CallSettles, CallType
    <3>. QED BY <3>1 DEF CallIsReal
  <2>3. CASE CallBreaks
    BY <1>3, <2>3 DEF CallBreaks, Failed
  <2>4. CASE CallTimesOut
    <3>1. PICK commit \in {"unknown", "undefined"} : Resolve(Failed("timeout", commit))
      BY <2>4 DEF CallTimesOut
    <3>. QED BY <1>3, <3>1 DEF Failed
  <2>5. ASSUME NEW answer \in Answers, NEW effect \in BOOLEAN, TargetReplies(answer, effect)
        PROVE  CallIsReal'
    <3>. DEFINE outcome == [ error |-> answer.error, commit |-> answer.commit,
                             output |-> IF answer.error = "none" THEN call.of ELSE NoCall ]
    <3>1. Resolve(outcome)
      BY <2>5 DEF TargetReplies
    <3>2. outcome.output \in {NoCall, call.of}
      OBVIOUS
    <3>. HIDE DEF outcome
    <3>. QED BY <1>3, <3>1, <3>2
  <2>6. ASSUME NEW id \in sent, TargetIsSilent(id) PROVE CallIsReal'
    BY <1>1, <2>6 DEF TargetIsSilent
  <2>. QED BY <1>4, <2>1, <2>2, <2>3, <2>4, <2>5, <2>6 DEF Elsewhere
<1>5. CASE Moves
  <2>1. CASE Observe("before", "probing_before") \/ Observe("after", "probing_after")
    BY <1>2, <2>1 DEF Observe, Called
  <2>2. CASE ~(Observe("before", "probing_before") \/ Observe("after", "probing_after"))
    BY <1>1, <1>5, <2>2 DEF Moves, Connects, ConnectFails, ConnectTimesOut, ConnectClosed, EndsObserving,
                            AttemptSkipped, AfterTimesOut, StepsDone, Finish, Returns
  <2>. QED BY <2>1, <2>2
<1>6. CASE Works
  <2>1. ASSUME NEW i \in DOMAIN Mutations, DuplicateStarts(i) PROVE CallIsReal'
    BY <1>2, <2>1 DEF DuplicateStarts, Called
  <2>2. CASE ~ \E i \in DOMAIN Mutations : DuplicateStarts(i)
    BY <1>1, <1>6, <2>2 DEF Works, MutationApplies, MutationDelays, DelayEnds, DelayIsCut, JobEnds
  <2>. QED BY <2>1, <2>2
<1>7. CASE AttemptCalls
  BY <1>2, <1>7 DEF AttemptCalls, Called
<1>8. CASE StepEnds \/ AttemptDenied \/ UNCHANGED vars
  BY <1>1, <1>8 DEF StepEnds, AttemptDenied, vars
<1>9. CASE Repeats \/ Observed("before", "probing_before") \/ Observed("after", "probing_after")
           \/ Receives
  <2>1. call' = NoCallMade
    BY <1>9 DEF Repeats, DuplicateReturns, Observed, Receives, CallFails, CallTooLate, CallMutates
  <2>. QED BY <1>2, <2>1 DEF NoCallMade
<1>10. CASE Concludes
  BY <1>1, <1>10, ConcludesLeaves
<1>. QED BY <1>4, <1>5, <1>6, <1>7, <1>8, <1>9, <1>10, NextByEvents DEF Quietly

\* What one mutation changes.
LEMMA AdvanceDoes ==
    ASSUME TypeOK, NEW i \in DOMAIN Mutations, NEW found \in BOOLEAN, Advance(i, found)
    PROVE  /\ ctl'.previousSuccess = ctl.previousSuccess
           /\ job'.at = "applying" /\ job'.list = job.list \ {i}
           /\ job'.original = job.original /\ job'.prior = job.prior /\ job'.of = job.of
           /\ job'.result \in {job.result, Changed(Mutations[i], job.result, job.prior, current.id)}
<1>. DEFINE applies == Applies(Mutations[i], job.result, job.prior, found)
            result == IF applies THEN Changed(Mutations[i], job.result, job.prior, JobEvent)
                      ELSE job.result
<1>1. ctl'.previousSuccess = ctl.previousSuccess
  <2>. DEFINE r == IF applies THEN "applied" ELSE "failed"
  <2>1. r \in {"applied", "blocked", "failed"}
    OBVIOUS
  <2>2. ctl' = WithRecord(ctl, i, current.id, r)
    BY DEF Advance, JobEvent
  <2>3. ctl \in Controller
    BY DEF TypeOK
  <2>. HIDE DEF r
  <2>. QED BY <2>1, <2>2, <2>3, TypeFields, OneMoreRecord
<1>2. job' = [job EXCEPT !.at = "applying", !.list = job.list \ {i}, !.result = result]
  BY DEF Advance
<1>3. result \in {job.result, Changed(Mutations[i], job.result, job.prior, current.id)}
  BY DEF JobEvent
<1>. HIDE DEF result
<1>4. /\ job'.at = "applying" /\ job'.list = job.list \ {i} /\ job'.result = result
      /\ job'.original = job.original /\ job'.prior = job.prior /\ job'.of = job.of
  BY <1>2, TypeFields DEF JobType
<1>. QED BY <1>1, <1>3, <1>4

\* Each mutation has its step, or the target's own outcome is remembered, or the
\* outcomes of the mutations stay.
LEMMA WorkDoes ==
    ASSUME RunInv, Works \/ Repeats
    PROVE  /\ job.at # "idle"
           /\ \/ \E i \in DOMAIN Mutations, found \in BOOLEAN :
                    /\ Advance(i, found) /\ i = FirstOf(job.list)
                    /\ job.at \in {"applying", "delaying", "calling"}
                    /\ job.at = "applying" => job.list # {}
              \/ /\ job'.result = job.result /\ job'.original = job.original
                 /\ job'.prior = job.prior /\ job'.of = job.of
                 /\ \/ ctl'.previousSuccess = ctl.previousSuccess
                    \/ /\ job.original.error = "none"
                       /\ ctl'.previousSuccess = [ctl.previousSuccess EXCEPT
                                                    ![Steps[job.of].context] = job.original]
<1>0. job \in JobType /\ ctl \in Controller /\ pack \in Packs
  BY TypeFields DEF RunInv, TypeOK
<1>1. ASSUME NEW i \in DOMAIN Mutations, NEW found \in BOOLEAN,
             MutationApplies(i, found) \/ DelayEnds(i) \/ DuplicateReturns(i)
      PROVE  /\ job.at # "idle" /\ i = FirstOf(job.list)
             /\ job.at \in {"applying", "delaying", "calling"}
             /\ job.at = "applying" => job.list # {}
             /\ \E f \in BOOLEAN : Advance(i, f)
  BY <1>1 DEF MutationApplies, DelayEnds, DuplicateReturns, Applying
<1>2. ASSUME NEW i \in DOMAIN Mutations, MutationDelays(i) \/ DuplicateStarts(i)
      PROVE  /\ job.at # "idle" /\ ctl' = ctl
             /\ job'.result = job.result /\ job'.original = job.original
             /\ job'.prior = job.prior /\ job'.of = job.of
  <2>1. /\ job.at = "applying" /\ ctl' = ctl
        /\ job' = [job EXCEPT !.at = "delaying"] \/ job' = [job EXCEPT !.at = "calling"]
    BY <1>2 DEF MutationDelays, DuplicateStarts, Applying
  <2>. QED BY <1>0, <2>1 DEF JobType
<1>3. ASSUME NEW i \in DOMAIN Mutations, DelayIsCut(i)
      PROVE  /\ job.at # "idle" /\ ctl'.previousSuccess = ctl.previousSuccess
             /\ job'.result = job.result /\ job'.original = job.original
             /\ job'.prior = job.prior /\ job'.of = job.of
  <2>1. /\ job.at = "delaying" /\ job' = [job EXCEPT !.at = "threw"]
        /\ ctl' = WithRecord(ctl, i, current.id, "failed")
    BY <1>3 DEF DelayIsCut, JobEvent
  <2>2. ctl'.previousSuccess = ctl.previousSuccess
    BY <1>0, <2>1, TypeFields, OneMoreRecord DEF RunInv
  <2>. QED BY <1>0, <2>1, <2>2 DEF JobType
<1>4. ASSUME JobEnds
      PROVE  /\ job.at # "idle"
             /\ job'.result = job.result /\ job'.original = job.original
             /\ job'.prior = job.prior /\ job'.of = job.of
             /\ \/ ctl'.previousSuccess = ctl.previousSuccess
                \/ /\ job.original.error = "none"
                   /\ ctl'.previousSuccess = [ctl.previousSuccess EXCEPT
                                                ![Steps[job.of].context] = job.original]
  <2>1. job.at = "applying" /\ job' = [job EXCEPT !.at = "done"]
        /\ ctl' = Remembered(ctl, Steps[job.of].context, job.original)
    BY <1>4 DEF JobEnds
  <2>2. CASE job.original.error # "none"
    <3>1. ctl' = ctl
      BY <2>1, <2>2 DEF Remembered
    <3>. QED BY <1>0, <2>1, <3>1 DEF JobType
  <2>3. CASE job.original.error = "none"
    <3>. DEFINE priors == [ctl.previousSuccess EXCEPT ![Steps[job.of].context] = job.original]
    <3>1. ctl' = [ctl EXCEPT !.previousSuccess = priors]
      BY <2>1, <2>3 DEF Remembered
    <3>. HIDE DEF priors
    <3>2. ctl'.previousSuccess = priors
      BY <1>0, <3>1 DEF Controller
    <3>3. ctl'.previousSuccess = [ctl.previousSuccess EXCEPT ![Steps[job.of].context] = job.original]
      BY <3>2 DEF priors
    <3>. QED BY <1>0, <2>1, <2>3, <3>3 DEF JobType
  <2>. QED BY <2>2, <2>3
<1>. QED BY <1>1, <1>2, <1>3, <1>4 DEF Works, Repeats

\* The target's outcomes and those of the mutations stay as they were.
LEMMA OutputsStay ==
    ASSUME RunInv, IdInv, PriorsAreReal, JobIsReal, [Next]_vars,
           ctl'.previousSuccess = ctl.previousSuccess,
           job'.at = "idle" \/ (job' = job /\ UNCHANGED <<step, attempt, current>>)
    PROVE  PriorsAreReal' /\ JobIsReal'
<1>1. PriorsAreReal'
  BY GivenStays DEF PriorsAreReal
<1>2. Steps' = Steps
  BY PackStays
<1>3. CASE job'.at = "idle"
  BY <1>1, <1>3 DEF JobIsReal
<1>4. CASE job' = job /\ UNCHANGED <<step, attempt, current>> /\ job.at # "idle"
  <2>1. /\ job.original.output \in {NoCall, current.id}
        /\ job.prior.output # NoCall => GivenBefore(job.prior.output, Steps[step].context)
        /\ job.result.output \in {NoCall, current.id, job.prior.output}
    BY <1>4 DEF JobIsReal
  <2>2. PICK n \in CurrentEvents : events[n].underlying = job.original.error
    BY <1>4 DEF JobIsReal
  <2>3. n \in CurrentEvents' /\ events'[n].underlying = job.original.error
    BY <1>4, <2>2, GivenStays
  <2>4. (\E m \in CurrentEvents : events[m].underlying = job.original.error)'
    BY <1>4, <2>3
  <2>5. (job.prior.output # NoCall => GivenBefore(job.prior.output, Steps[step].context))'
    <3>1. Steps'[step'].context = Steps[step].context /\ job'.prior.output = job.prior.output
      BY <1>2, <1>4
    <3>2. \A output, context : GivenBefore(output, context) => GivenBefore(output, context)'
      BY GivenStays
    <3>. QED BY <2>1, <3>1, <3>2
  <2>. QED BY <1>1, <1>2, <1>4, <2>1, <2>4, <2>5 DEF JobIsReal
<1>. QED BY <1>1, <1>3, <1>4

\* A mutation works on what the target gave, now or before.
LEMMA WorkIsReal ==
    ASSUME RunInv, IdInv, PriorsAreReal, JobIsReal, [Next]_vars, Works \/ Repeats
    PROVE  PriorsAreReal' /\ JobIsReal'
<1>. USE DEF RunInv
<1>1. UNCHANGED <<step, attempt, current>> /\ job.at # "idle"
  BY Frames, WorkDoes DEF loop
<1>2. /\ job.original.output \in {NoCall, current.id}
      /\ job.prior.output # NoCall => GivenBefore(job.prior.output, Steps[step].context)
      /\ job.result.output \in {NoCall, current.id, job.prior.output}
  BY <1>1 DEF JobIsReal
<1>3. PICK n \in CurrentEvents : events[n].underlying = job.original.error
  BY <1>1 DEF JobIsReal
<1>4. n \in CurrentEvents' /\ events'[n].underlying = job.original.error
  BY <1>1, <1>3, GivenStays
<1>5. Steps' = Steps
  BY PackStays
<1>6. ASSUME job'.original = job.original, job'.prior = job.prior,
             job'.result.output \in {NoCall, current.id, job.prior.output}
      PROVE  JobIsReal'
  <2>1. (\E m \in CurrentEvents : events[m].underlying = job.original.error)'
    BY <1>4, <1>6
  <2>2. (job.prior.output # NoCall => GivenBefore(job.prior.output, Steps[step].context))'
    <3>1. Steps'[step'].context = Steps[step].context /\ job'.prior.output = job.prior.output
      BY <1>1, <1>5, <1>6
    <3>2. \A output, context : GivenBefore(output, context) => GivenBefore(output, context)'
      BY GivenStays
    <3>. QED BY <1>2, <3>1, <3>2
  <2>. QED BY <1>1, <1>2, <1>5, <1>6, <2>1, <2>2 DEF JobIsReal
<1>7. ctl'.previousSuccess = ctl.previousSuccess => PriorsAreReal'
  BY GivenStays DEF PriorsAreReal
<1>8. ASSUME NEW i \in DOMAIN Mutations, NEW found \in BOOLEAN, Advance(i, found)
      PROVE  PriorsAreReal' /\ JobIsReal'
  <2>1. /\ ctl'.previousSuccess = ctl.previousSuccess
        /\ job'.original = job.original /\ job'.prior = job.prior
        /\ job'.result \in {job.result, Changed(Mutations[i], job.result, job.prior, current.id)}
    BY <1>8, AdvanceDoes
  <2>2. Mutations[i] \in MutationConfig
    BY PackTyped DEF TypeOK
  <2>3. Changed(Mutations[i], job.result, job.prior, current.id).output
           \in {NoCall, current.id, job.result.output, job.prior.output}
    BY <2>2, TypeFields, ChangedOutcome
  <2>4. job'.result.output \in {NoCall, current.id, job.prior.output}
    BY <1>2, <2>1, <2>3
  <2>. QED BY <1>6, <1>7, <2>1, <2>4
<1>9. ASSUME job'.result = job.result, job'.original = job.original, job'.prior = job.prior,
             job.original.error = "none",
             ctl'.previousSuccess = [ctl.previousSuccess EXCEPT ![Steps[job.of].context] = job.original]
      PROVE  PriorsAreReal' /\ JobIsReal'
  <2>1. job.of = step /\ step \in DOMAIN Steps
    BY <1>1 DEF StepInRange
  <2>2. ctl.previousSuccess \in [Contexts -> Outcomes]
    BY ControllerFields DEF TypeOK
  <2>3. GivenBefore(current.id, Steps[step].context)
    BY <1>3, <1>9 DEF GivenBefore, CurrentEvents
  <2>4. ASSUME NEW context \in Contexts, ctl'.previousSuccess[context].output # NoCall
        PROVE  GivenBefore(ctl'.previousSuccess[context].output, context)
    <3>1. CASE context = Steps[job.of].context
      <4>1. ctl'.previousSuccess[context] = job.original
        BY <1>9, <2>2, <3>1
      <4>. QED BY <1>2, <2>1, <2>3, <2>4, <3>1, <4>1
    <3>2. CASE context # Steps[job.of].context
      <4>1. ctl'.previousSuccess[context] = ctl.previousSuccess[context]
        BY <1>9, <2>2, <3>2
      <4>. QED BY <2>4, <4>1 DEF PriorsAreReal
    <3>. QED BY <3>1, <3>2
  <2>5. PriorsAreReal'
    BY <2>4, GivenStays DEF PriorsAreReal
  <2>6. JobIsReal'
    BY <1>2, <1>6, <1>9
  <2>. QED BY <2>5, <2>6
<1>10. ASSUME job'.result = job.result, job'.original = job.original, job'.prior = job.prior,
              ctl'.previousSuccess = ctl.previousSuccess
       PROVE  PriorsAreReal' /\ JobIsReal'
  BY <1>2, <1>6, <1>7, <1>10
<1>. QED BY <1>8, <1>9, <1>10, WorkDoes

LEMMA OutputsStep ==
    ASSUME RunInv, IdInv, CallIsReal, PriorsAreReal, JobIsReal, [Next]_vars
    PROVE  PriorsAreReal' /\ JobIsReal'
<1>. USE DEF RunInv
<1>0. ctl \in Controller
  BY DEF TypeOK
<1>1. CASE Elsewhere \/ Moves \/ UNCHANGED vars
  <2>1. UNCHANGED <<ctl, job, step, attempt, current>>
    BY <1>1, Frames DEF loop, vars
  <2>. QED BY <2>1, OutputsStay
<1>2. CASE Works \/ Repeats
  BY <1>2, WorkIsReal
<1>3. CASE AttemptCalls
  <2>1. at = "attempt" /\ ~expired /\ ctl' = Counted(ctl, ThisStep.call) /\ job' = job
    BY <1>3 DEF AttemptCalls
  <2>2. job'.at = "idle"
    BY <2>1 DEF JobIsOfAttempt
  <2>3. ThisStep.call \in Tools
    BY <2>1, PackTyped DEF StepInRange, TypeOK, ThisStep
  <2>4. ctl'.previousSuccess = ctl.previousSuccess
    BY <1>0, <2>1, <2>3, CountedTyped
  <2>. QED BY <2>2, <2>4, OutputsStay
<1>4. CASE AttemptDenied
  <2>1. /\ at = "attempt" /\ ~expired /\ job' = job /\ Denies(MatchedNow)
        /\ ctl' = WithRecord(Counted(ctl, ThisStep.call), Denial(MatchedNow), Id(counter + 1), "blocked")
    BY <1>4 DEF AttemptDenied
  <2>2. job'.at = "idle"
    BY <2>1 DEF JobIsOfAttempt
  <2>3. ThisStep.call \in Tools /\ pack \in Packs
    BY <2>1, PackTyped DEF StepInRange, TypeOK, ThisStep
  <2>4. Counted(ctl, ThisStep.call) \in Controller
        /\ Counted(ctl, ThisStep.call).previousSuccess = ctl.previousSuccess
    BY <1>0, <2>3, CountedTyped
  <2>5. Denial(MatchedNow) \in DOMAIN Mutations
    <3>1. MatchedNow \in SUBSET DOMAIN Mutations
      BY DEF MatchedNow, Matching
    <3>. QED BY <2>1, <2>3, <3>1, DenialDenies
  <2>6. Id(counter + 1) \in Ids
    BY DEF TypeOK, Id, Ids
  <2>7. ctl'.previousSuccess = ctl.previousSuccess
    BY <2>1, <2>4, <2>5, <2>6, OneMoreRecord
  <2>. QED BY <2>2, <2>7, OutputsStay
<1>5. CASE StepEnds
  <2>1. at = "step_end" /\ ctl' = ctl /\ job' = job /\ (expired => UNCHANGED loop)
    BY <1>5 DEF StepEnds
  <2>2. job.at # "idle" => expired
    BY <2>1 DEF JobIsOfAttempt
  <2>. QED BY <2>1, <2>2, OutputsStay DEF loop
<1>6. CASE Observed("before", "probing_before") \/ Observed("after", "probing_after")
  <2>1. UNCHANGED <<ctl, job, step, attempt, current>>
    BY <1>6 DEF Observed, loop
  <2>. QED BY <2>1, OutputsStay
<1>7. ctl' = MarkFailed(ctl, current.list, current.id) => ctl'.previousSuccess = ctl.previousSuccess
  BY <1>0, TypeFields, MarkFailedMarks DEF TypeOK
<1>8. CASE Receives /\ ~CallMutates
  <2>1. ctl'.previousSuccess = ctl.previousSuccess /\ job' = job
        /\ UNCHANGED <<step, attempt, current>>
    BY <1>7, <1>8, ReceivesLeaves
  <2>. QED BY <2>1, OutputsStay
<1>9. CASE Concludes
  <2>1. ctl'.previousSuccess = ctl.previousSuccess /\ (job' = job \/ job' = NoJob)
        /\ UNCHANGED <<step, attempt, current>>
    BY <1>7, <1>9, ConcludesLeaves
  <2>. QED BY <2>1, OutputsStay DEF NoJob
<1>10. CASE CallMutates
  <2>1. /\ at = "calling" /\ call.by = "main" /\ call.at = "settled"
        /\ ctl' = ctl /\ UNCHANGED <<step, attempt, current>>
        /\ job' = [ at |-> "applying", list |-> current.list, result |-> call.outcome,
                    original |-> call.outcome, prior |-> ctl.previousSuccess[ThisStep.context],
                    of |-> step ]
    BY <1>10 DEF CallMutates, Settled, loop
  <2>2. /\ job'.original = call.outcome /\ job'.result = call.outcome
        /\ job'.prior = ctl.previousSuccess[ThisStep.context]
    BY <2>1
  <2>3. call.of = current.id
    BY <2>1 DEF CallIsAwaited
  <2>4. call.outcome.output \in {NoCall, current.id}
    BY <2>3 DEF CallIsReal
  <2>5. PICK e \in EventType :
           /\ Grows(e) /\ OfAttempt(e, current.id, current.list)
           /\ e.kind = (IF attempt > 1 THEN "retry" ELSE "step") /\ e.attempt = attempt
           /\ e.underlying = call.outcome.error /\ e.physical
    BY <1>10, ReceivesOne DEF Receives
  <2>6. Len(events) + 1 \in MainEvents' /\ events'[Len(events) + 1] = e
    BY <2>5 DEF Grows
  <2>7. Len(events) + 1 \in CurrentEvents'
    BY <2>1, <2>5, <2>6 DEF CurrentEvents, OfAttempt
  <2>8. (\E n \in CurrentEvents : events[n].underlying = job.original.error)'
    BY <2>2, <2>5, <2>6, <2>7
  <2>9. PriorsAreReal'
    BY <2>1, GivenStays DEF PriorsAreReal
  <2>10. (job.prior.output # NoCall => GivenBefore(job.prior.output, Steps[step].context))'
    <3>1. ThisStep.context \in Contexts
      BY <2>1, PackTyped DEF StepInRange, TypeOK, ThisStep
    <3>2. Steps'[step'].context = ThisStep.context
      BY <2>1, PackStays DEF ThisStep
    <3>3. job'.prior.output # NoCall => GivenBefore(job'.prior.output, ThisStep.context)
      BY <2>2, <3>1 DEF PriorsAreReal
    <3>4. \A output, context : GivenBefore(output, context) => GivenBefore(output, context)'
      BY GivenStays
    <3>. QED BY <3>2, <3>3, <3>4
  <2>. QED BY <2>1, <2>2, <2>4, <2>8, <2>9, <2>10 DEF JobIsReal
<1>. QED BY <1>1, <1>2, <1>3, <1>4, <1>5, <1>6, <1>8, <1>9, <1>10, NextByEvents DEF Quietly, Receives

\* An event carries the output of its own call, or an earlier one.
LEMMA StaleStep ==
    ASSUME RunInv, IdInv, CallIsReal, JobIsReal, StaleFromEarlier, [Next]_vars
    PROVE  StaleFromEarlier'
<1>1. Steps' = Steps
  BY PackStays
<1>2. SUFFICES ASSUME NEW n \in MainEvents', events'[n].output \notin {NoCall, events'[n].id}
               PROVE  \E m \in MainEvents' :
                         /\ m < n /\ events'[m].id = events'[n].output /\ events'[m].underlying = "none"
                         /\ Steps[events'[m].step].context = Steps[events'[n].step].context
  BY <1>1 DEF StaleFromEarlier
<1>3. ASSUME NEW m \in MainEvents, m < n, events[m].id = events'[n].output,
             events[m].underlying = "none",
             Steps[events[m].step].context = Steps[events'[n].step].context
      PROVE  \E k \in MainEvents' :
                /\ k < n /\ events'[k].id = events'[n].output /\ events'[k].underlying = "none"
                /\ Steps[events'[k].step].context = Steps[events'[n].step].context
  <2>1. m \in MainEvents' /\ events'[m].id = events[m].id
        /\ events'[m].underlying = events[m].underlying /\ events'[m].step = events[m].step
    BY EventsKept
  <2>. QED BY <1>3, <2>1
<1>4. CASE n \in MainEvents /\ events'[n] = events[n]
  <2>1. PICK m \in MainEvents :
           /\ m < n /\ events[m].id = events[n].output /\ events[m].underlying = "none"
           /\ Steps[events[m].step].context = Steps[events[n].step].context
    BY <1>2, <1>4 DEF StaleFromEarlier
  <2>. QED BY <1>3, <1>4, <2>1
<1>5. CASE n \in MainEvents /\ events'[n] # events[n]
  <2>1. Concludes /\ events[n].id = current.id /\ events'[n].output = Concluded.output
        /\ events'[n].id = events[n].id /\ events'[n].step = events[n].step
    BY <1>5, EventsKept
  <2>2. at \in {"mutating", "abandoning"}
    BY <2>1, ConcludesLeaves
  <2>3. job.at # "idle"
    BY <2>2 DEF RunInv, JobIsOfAttempt
  <2>4. Concluded.output \in {NoCall, current.id, job.prior.output}
    BY <2>3, ExpiryTyped DEF Concluded, JobIsReal
  <2>5. events'[n].output = job.prior.output /\ job.prior.output \notin {NoCall, current.id}
    BY <1>2, <2>1, <2>4
  <2>6. PICK m \in MainEvents :
           /\ events[m].id = job.prior.output /\ events[m].underlying = "none"
           /\ Steps[events[m].step].context = Steps[step].context
    BY <2>3, <2>5 DEF JobIsReal, GivenBefore
  <2>7. PICK k \in CurrentEvents : TRUE
    BY <2>3 DEF JobIsReal
  <2>8. k \in MainEvents /\ events[k].id = current.id /\ events[k].step = step
    BY <2>7 DEF CurrentEvents
  <2>9. k = n
    BY <1>5, <2>1, <2>8, CurrentIsLast
  <2>10. m < n
    <3>1. ~(n < m)
      BY <1>5, <2>1, CurrentIsLast
    <3>2. m # n
      BY <2>1, <2>5, <2>6
    <3>3. m \in Nat /\ n \in Nat
      BY <1>5, LenProperties DEF RunInv, TypeOK, MainEvents
    <3>. QED BY <3>1, <3>2, <3>3
  <2>. QED BY <1>3, <2>1, <2>5, <2>6, <2>8, <2>9, <2>10
<1>6. CASE n \notin MainEvents
  <2>1. CASE AttemptDenied /\ events'[n].output = NoCall
    BY <1>2, <2>1
  <2>2. CASE Receives /\ events'[n].output = Shown.output /\ current' = current
    <3>1. at = "calling" /\ call.at = "settled"
      BY <2>2, ReceivesLeaves
    <3>2. call.of = current.id
      BY <3>1 DEF RunInv, CallIsAwaited
    <3>3. Shown.output \in {NoCall, current.id}
      BY <3>2, ExpiryTyped DEF Shown, CallIsReal
    <3>4. events'[n].id = current.id
      BY <1>6, <2>2, NewEvents
    <3>. QED BY <1>2, <2>2, <3>3, <3>4
  <2>. QED BY <1>6, <2>1, <2>2, NewEvents
<1>. QED BY <1>4, <1>5, <1>6

LEMMA InitOutputs == Init => OutputInv
<1>. SUFFICES ASSUME Init PROVE OutputInv
  OBVIOUS
<1>1. /\ call.outcome = NoOutcome /\ job.at = "idle" /\ events = <<>>
      /\ ctl.previousSuccess = [c \in Contexts |-> NoOutcome]
  BY DEF Init, NoCallMade, NoJob, EmptyController
<1>. QED BY <1>1, NoOutcomeTyped DEF OutputInv, CallIsReal, PriorsAreReal, JobIsReal, StaleFromEarlier,
                                     MainEvents

\* A response that is not the call's own is one that the target itself gave to an
\* earlier call with the same context (MutationController.after, previousSuccess).
THEOREM StaleOutputsAreEarlier == Spec => []StaleFromEarlier
<1>. DEFINE Inv == RunInv /\ IdInv /\ OutputInv
<1>1. Init => Inv
  BY InitInRun, InitIds, InitOutputs
<1>2. Inv /\ [Next]_vars => Inv'
  BY IdsStep, CallStaysReal, OutputsStep, StaleStep DEF OutputInv
<1>3. Inv => StaleFromEarlier
  BY DEF OutputInv
<1>. QED BY <1>1, <1>2, <1>3, PTL DEF Spec

-------------------------------------------------------------------------------
(* What is said of a call's effect.                                        *)

SaysCommitted(outcome) == outcome.error = "none" \/ outcome.commit = "committed"

Replaces(kind) == kind \in Stales \cup {"malformed_result"}

CallCommitted ==
    call.at \in {"closing", "settled"} /\ SaysCommitted(call.outcome) => call.of \in committed

JobCommitted ==
    /\ at \in {"mutating", "abandoning"} /\ SaysCommitted(job.result)
    /\ \A i \in current.list : ~Replaces(Mutations[i].type)
    => current.id \in committed

CommitInv == CallCommitted /\ JobCommitted /\ CommitClaimIsTrue

\* A target that answers without an error does not say that nothing was done: the MCP
\* client leaves the status unknown (McpStdioClient.callTool).
SuccessIsEffect ==
    \A answer \in Answers :
        answer.error = "none" => answer.commit \notin {"not_attempted", "not_committed"}

LEMMA CommittedGrows ==
    ASSUME RunInv, [Next]_vars
    PROVE  committed \subseteq committed'
<1>1. CASE Elsewhere
  BY <1>1 DEF Elsewhere, DeadlinePasses, ClientCloses, Signal, CallSettles, CallBreaks, CallTimesOut,
              TargetReplies, TargetIsSilent, target
<1>2. CASE Moves
  BY <1>2 DEF Moves, Connects, ConnectFails, ConnectTimesOut, ConnectClosed, Observe, EndsObserving,
              AttemptSkipped, AfterTimesOut, StepsDone, Finish, Returns, target
<1>3. CASE Works \/ Repeats
  BY <1>3, Frames DEF target
<1>4. CASE Observed("before", "probing_before") \/ Observed("after", "probing_after")
  BY <1>4 DEF Observed, target
<1>5. CASE AttemptDenied \/ AttemptCalls \/ StepEnds \/ UNCHANGED vars
  BY <1>5 DEF AttemptDenied, AttemptCalls, StepEnds, vars, target
<1>6. CASE Receives \/ Concludes
  BY <1>6, ReceivesLeaves, ConcludesLeaves
<1>. QED BY <1>1, <1>2, <1>3, <1>4, <1>5, <1>6, NextByEvents DEF Quietly

LEMMA CallStaysCommitted ==
    ASSUME RunInv, SuccessIsEffect, CallCommitted, [Next]_vars
    PROVE  CallCommitted'
<1>. USE DEF RunInv
<1>0. call \in CallType /\ committed \subseteq committed'
  BY TypeFields, CommittedGrows
<1>1. CASE call' = call
  BY <1>0, <1>1 DEF CallCommitted
<1>2. CASE call'.at \notin {"closing", "settled"}
  BY <1>2 DEF CallCommitted
<1>3. ASSUME NEW outcome, Resolve(outcome), SaysCommitted(outcome) => call.of \in committed'
      PROVE  CallCommitted'
  <2>1. call'.of = call.of /\ call'.outcome = outcome
    BY <1>0, <1>3 DEF Resolve, CallType
  <2>. QED BY <1>3, <2>1 DEF CallCommitted, SaysCommitted
<1>4. CASE Elsewhere
  <2>1. CASE DeadlinePasses \/ ClientCloses \/ Signal
    BY <1>1, <2>1 DEF DeadlinePasses, ClientCloses, Signal
  <2>2. CASE CallSettles
    <3>1. call'.of = call.of /\ call'.outcome = call.outcome /\ call.at = "closing"
      BY <1>0, <2>2 DEF CallSettles, CallType
    <3>. QED BY <1>0, <3>1 DEF CallCommitted, SaysCommitted
  <2>3. CASE CallBreaks
    BY <1>3, <2>3 DEF CallBreaks, Failed, SaysCommitted
  <2>4. CASE CallTimesOut
    <3>1. PICK commit \in {"unknown", "undefined"} : Resolve(Failed("timeout", commit))
      BY <2>4 DEF CallTimesOut
    <3>. QED BY <1>3, <3>1 DEF Failed, SaysCommitted
  <2>5. ASSUME NEW answer \in Answers, NEW effect \in BOOLEAN, TargetReplies(answer, effect)
        PROVE  CallCommitted'
    <3>. DEFINE outcome == [ error |-> answer.error, commit |-> answer.commit,
                             output |-> IF answer.error = "none" THEN call.of ELSE NoCall ]
    <3>1. Resolve(outcome) /\ effect \in TookEffect(answer)
          /\ committed' = IF effect THEN committed \cup {call.of} ELSE committed
      BY <2>5 DEF TargetReplies
    <3>2. ASSUME SaysCommitted(answer) PROVE effect = TRUE
      <4>1. CASE answer.commit = "committed"
        BY <3>1, <4>1 DEF TookEffect
      <4>2. CASE answer.commit # "committed"
        <5>1. answer.error = "none" /\ answer.commit \notin {"not_attempted", "not_committed"}
          BY <3>2, <4>2 DEF SaysCommitted, SuccessIsEffect
        <5>2. TookEffect(answer) = {TRUE}
          BY <4>2, <5>1 DEF TookEffect
        <5>. QED BY <3>1, <5>2
      <4>. QED BY <4>1, <4>2
    <3>3. outcome.error = answer.error /\ outcome.commit = answer.commit
      OBVIOUS
    <3>. HIDE DEF outcome
    <3>4. SaysCommitted(outcome) => call.of \in committed'
      BY <3>1, <3>2, <3>3 DEF SaysCommitted
    <3>. QED BY <1>3, <3>1, <3>4
  <2>6. ASSUME NEW id \in sent, TargetIsSilent(id) PROVE CallCommitted'
    BY <1>1, <2>6 DEF TargetIsSilent
  <2>. QED BY <1>4, <2>1, <2>2, <2>3, <2>4, <2>5, <2>6 DEF Elsewhere
<1>5. CASE Moves
  <2>1. CASE Observe("before", "probing_before") \/ Observe("after", "probing_after")
    BY <1>2, <2>1 DEF Observe, Called
  <2>2. CASE ~(Observe("before", "probing_before") \/ Observe("after", "probing_after"))
    BY <1>1, <1>5, <2>2 DEF Moves, Connects, ConnectFails, ConnectTimesOut, ConnectClosed, EndsObserving,
                            AttemptSkipped, AfterTimesOut, StepsDone, Finish, Returns
  <2>. QED BY <2>1, <2>2
<1>6. CASE Works
  <2>1. ASSUME NEW i \in DOMAIN Mutations, DuplicateStarts(i) PROVE CallCommitted'
    BY <1>2, <2>1 DEF DuplicateStarts, Called
  <2>2. CASE ~ \E i \in DOMAIN Mutations : DuplicateStarts(i)
    BY <1>1, <1>6, <2>2 DEF Works, MutationApplies, MutationDelays, DelayEnds, DelayIsCut, JobEnds
  <2>. QED BY <2>1, <2>2
<1>7. CASE AttemptCalls
  BY <1>2, <1>7 DEF AttemptCalls, Called
<1>8. CASE StepEnds \/ AttemptDenied \/ UNCHANGED vars
  BY <1>1, <1>8 DEF StepEnds, AttemptDenied, vars
<1>9. CASE Repeats \/ Observed("before", "probing_before") \/ Observed("after", "probing_after")
           \/ Receives
  <2>1. call' = NoCallMade
    BY <1>9 DEF Repeats, DuplicateReturns, Observed, Receives, CallFails, CallTooLate, CallMutates
  <2>. QED BY <1>2, <2>1 DEF NoCallMade
<1>10. CASE Concludes
  BY <1>1, <1>10, ConcludesLeaves
<1>. QED BY <1>4, <1>5, <1>6, <1>7, <1>8, <1>9, <1>10, NextByEvents DEF Quietly

\* A mutation that puts nothing in the place of the outcome claims no effect that the
\* outcome did not claim.
LEMMA ChangedClaims ==
    ASSUME NEW mutation, ~Replaces(mutation.type), NEW outcome, NEW prior, NEW id,
           SaysCommitted(Changed(mutation, outcome, prior, id)), outcome \in Outcomes
    PROVE  SaysCommitted(outcome)
<1>1. CommitOf(outcome) = "committed" => SaysCommitted(outcome)
  BY DEF CommitOf, SaysCommitted
<1>2. CommitGuess(outcome) = "committed" => SaysCommitted(outcome)
  BY DEF CommitGuess, SaysCommitted
<1>. DEFINE x == Changed(mutation, outcome, prior, id)
            a == Failed("timeout", CommitOf(outcome))
            b == Failed("transport_error", CommitOf(outcome))
            c == Failed("retryable_error", CommitGuess(outcome))
            d == [outcome EXCEPT !.error = "retryable_error", !.commit = CommitOf(outcome)]
            f == [outcome EXCEPT !.commit = CommitOf(outcome)]
<1>3. x \in {a, b, c, d, f, outcome}
  <2>1. mutation.type \notin Stales /\ mutation.type # "malformed_result"
    BY DEF Replaces
  <2>. QED BY <2>1, Zenon DEF Changed
<1>4. a.error = "timeout" /\ a.commit = CommitOf(outcome)
  BY DEF Failed
<1>5. b.error = "transport_error" /\ b.commit = CommitOf(outcome)
  BY DEF Failed
<1>6. c.error = "retryable_error" /\ c.commit = CommitGuess(outcome)
  BY DEF Failed
<1>7. d.error = "retryable_error" /\ d.commit = CommitOf(outcome)
  BY DEF Outcomes
<1>8. f.error = outcome.error /\ f.commit = CommitOf(outcome)
  BY DEF Outcomes
<1>. HIDE DEF x, a, b, c, d, f
<1>9. SaysCommitted(x) => SaysCommitted(outcome)
  BY <1>1, <1>2, <1>3, <1>4, <1>5, <1>6, <1>7, <1>8 DEF SaysCommitted
<1>. QED BY <1>9 DEF x

LEMMA JobStaysCommitted ==
    ASSUME RunInv, IdInv, RecInv, CallCommitted, JobCommitted, [Next]_vars
    PROVE  JobCommitted'
<1>. USE DEF RunInv
<1>1. committed \subseteq committed' /\ Mutations' = Mutations /\ pack \in Packs
  BY CommittedGrows, PackStays DEF TypeOK
<1>2. ASSUME at' \in {"mutating", "abandoning"} => at \in {"mutating", "abandoning"}, job'.result = job.result,
             current' = current
      PROVE  JobCommitted'
  BY <1>1, <1>2 DEF JobCommitted
<1>3. ASSUME at' \notin {"mutating", "abandoning"} PROVE JobCommitted'
  BY <1>3 DEF JobCommitted
<1>4. CASE Elsewhere \/ UNCHANGED vars
  BY <1>2, <1>4, Frames DEF loop, vars
<1>5. CASE Moves
  <2>1. UNCHANGED <<job, current>>
    BY <1>5, Frames DEF loop
  <2>2. CASE AfterTimesOut
    BY <1>2, <2>1, <2>2 DEF AfterTimesOut
  <2>3. CASE ~AfterTimesOut
    BY <1>3, <1>5, <2>3 DEF Moves, Connects, ConnectFails, ConnectTimesOut, ConnectClosed, Observe,
                            EndsObserving, AttemptSkipped, StepsDone, Finish, Returns
  <2>. QED BY <2>2, <2>3
<1>6. CASE (Works \/ Repeats) /\ at \in {"mutating", "abandoning"}
  <2>1. at' = at /\ current' = current
    BY <1>6, Frames DEF loop
  <2>2. JobMarks
    BY <1>6 DEF RecInv, RecordsKept
  <2>3. CASE job'.result = job.result
    BY <1>2, <2>1, <2>3
  <2>4. ASSUME NEW i \in DOMAIN Mutations, NEW found \in BOOLEAN, Advance(i, found),
               i = FirstOf(job.list), job.at = "applying" => job.list # {},
               job.at \in {"applying", "delaying", "calling"}
        PROVE  JobCommitted'
    <3>1. job.list # {}
      BY <2>2, <2>4 DEF JobMarks
    <3>2. i \in job.list
      BY <1>1, <2>4, <3>1, TypeFields, FirstOfList
    <3>3. i \in current.list
      BY <2>2, <3>2 DEF JobMarks
    <3>4. job'.result \in {job.result, Changed(Mutations[i], job.result, job.prior, current.id)}
      BY <2>4, AdvanceDoes
    <3>5. ASSUME ~Replaces(Mutations[i].type), SaysCommitted(job'.result) PROVE SaysCommitted(job.result)
      BY <3>4, <3>5, TypeFields, ChangedClaims
    <3>. QED BY <1>1, <1>6, <2>1, <3>3, <3>5 DEF JobCommitted
  <2>. QED BY <1>6, <2>3, <2>4, WorkDoes
<1>7. CASE (Works \/ Repeats) /\ at \notin {"mutating", "abandoning"}
  BY <1>3, <1>7, Frames
<1>8. CASE AttemptCalls \/ AttemptDenied \/ StepEnds
           \/ Observed("before", "probing_before") \/ Observed("after", "probing_after")
  BY <1>3, <1>8 DEF AttemptCalls, AttemptDenied, StepEnds, Observed
<1>9. CASE Receives /\ ~CallMutates
  BY <1>3, <1>9, ReceivesLeaves
<1>10. CASE Concludes
  BY <1>3, <1>10, ConcludesShows
<1>11. CASE CallMutates
  <2>1. /\ at = "calling" /\ call.at = "settled" /\ current' = current
        /\ job' = [ at |-> "applying", list |-> current.list, result |-> call.outcome,
                    original |-> call.outcome, prior |-> ctl.previousSuccess[ThisStep.context],
                    of |-> step ]
    BY <1>11 DEF CallMutates, Settled, loop
  <2>2. job'.result = call.outcome
    BY <2>1
  <2>3. call.of = current.id
    BY <2>1 DEF CallIsAwaited
  <2>4. SaysCommitted(call.outcome) => current.id \in committed
    BY <2>1, <2>3 DEF CallCommitted
  <2>. QED BY <1>1, <2>1, <2>2, <2>4 DEF JobCommitted
<1>. QED BY <1>4, <1>5, <1>6, <1>7, <1>8, <1>9, <1>10, <1>11, NextByEvents DEF Quietly, Receives

LEMMA ClaimsStep ==
    ASSUME RunInv, IdInv, CallCommitted, JobCommitted, CommitClaimIsTrue, [Next]_vars
    PROVE  CommitClaimIsTrue'
<1>1. committed \subseteq committed' /\ Mutations' = Mutations
  BY CommittedGrows, PackStays
<1>2. ASSUME NEW n \in MainEvents', events'[n].commit = "committed",
             \A i \in events'[n].mutations : ~Replaces(Mutations[i].type)
      PROVE  events'[n].id \in committed'
  <2>1. CASE n \in MainEvents /\ events'[n] = events[n]
    <3>1. {Mutations[i].type : i \in events[n].mutations} \cap (Stales \cup {"malformed_result"}) = {}
      BY <1>2, <2>1 DEF Replaces
    <3>2. events[n].id \in committed
      BY <1>2, <2>1, <3>1 DEF CommitClaimIsTrue
    <3>. QED BY <1>1, <2>1, <3>2
  <2>2. CASE n \in MainEvents /\ events'[n] # events[n]
    <3>1. Concludes /\ events[n].id = current.id /\ events'[n].commit = Concluded.commit
          /\ events'[n].id = events[n].id /\ events'[n].mutations = events[n].mutations
      BY <2>2, EventsKept
    <3>2. at \in {"mutating", "abandoning"}
      BY <3>1, ConcludesLeaves
    <3>3. PICK k \in CurrentEvents : TRUE
      BY <3>2 DEF RunInv, JobIsOfAttempt, IdInv, CurrentHasEvent
    <3>4. k \in MainEvents /\ events[k].id = current.id /\ events[k].mutations = current.list
      BY <3>3 DEF CurrentEvents
    <3>5. k = n
      BY <2>2, <3>1, <3>4, CurrentIsLast
    <3>6. SaysCommitted(job.result)
      BY <1>2, <3>1, ExpiryTyped DEF Concluded, SaysCommitted
    <3>7. current.id \in committed
      BY <1>2, <3>1, <3>2, <3>4, <3>5, <3>6 DEF JobCommitted
    <3>. QED BY <1>1, <3>1, <3>7
  <2>3. CASE n \notin MainEvents
    <3>1. Receives /\ events'[n].commit = Shown.commit /\ current' = current /\ events'[n].id = current'.id
      BY <1>2, <2>3, NewEvents
    <3>2. at = "calling" /\ call.at = "settled"
      BY <3>1, ReceivesLeaves
    <3>3. call.of = current.id
      BY <3>2 DEF RunInv, CallIsAwaited
    <3>4. Shown = call.outcome
      BY <1>2, <3>1, ExpiryTyped DEF Shown
    <3>5. call.of \in committed
      BY <1>2, <3>1, <3>2, <3>4 DEF CallCommitted, SaysCommitted
    <3>. QED BY <1>1, <3>1, <3>3, <3>5
  <2>. QED BY <2>1, <2>2, <2>3
<1>. QED BY <1>1, <1>2 DEF CommitClaimIsTrue, Replaces

LEMMA InitCommits == Init => CommitInv
BY DEF Init, NoCallMade, CommitInv, CallCommitted, JobCommitted, CommitClaimIsTrue, MainEvents

\* A call that the report calls committed took effect in the target, unless a mutation
\* put another outcome in the place of the target's, for a target that does not answer
\* without an error that it did nothing (MutationController.apply, commitOf).
THEOREM CommitClaimsAreTrue ==
    ASSUME SuccessIsEffect
    PROVE  Spec => []CommitClaimIsTrue
<1>. DEFINE Inv == RunInv /\ IdInv /\ RecInv /\ CommitInv
<1>1. Init => Inv
  BY InitInRun, InitIds, InitRecords, InitCommits
<1>2. Inv /\ [Next]_vars => Inv'
  BY SuccessIsEffect, IdsStep, RecordsStep, CallStaysCommitted, JobStaysCommitted, ClaimsStep DEF CommitInv
<1>3. Inv => CommitClaimIsTrue
  BY DEF CommitInv
<1>. QED BY <1>1, <1>2, <1>3, PTL DEF Spec
===============================================================================
