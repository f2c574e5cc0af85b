-------------------------- MODULE MCProxyEvaluation --------------------------
(* Small instances of ProxyEvaluation: the faults and one pack that uses   *)
(* every kind of expectation, on an observer that is sampled and on one    *)
(* that the proxy never samples.                                           *)
EXTENDS ProxyEvaluation

CONSTANTS r1, r2, n1, s1, t1, t2, count, peek

Fault(type, occurrence) ==
    [ type |-> type, applies_to |-> t1, occurrence |-> occurrence,
      delayed |-> FALSE, commit_status |-> "undefined" ]

\* The first call is not answered, the second one with an error of the proxy.
LoseThenPartial ==
    << Fault("commit_then_response_lost", 1), Fault("partial_success", 2) >>
DuplicateCalls == << Fault("duplicate_call", 0) >>
LoseSecond == << Fault("commit_then_response_lost", 2) >>

OneTool == [m \in Requests \cup Notifications |-> t1]
UnitSizes == [k \in EventKinds |-> 1]

\* A request of the target has the JSON-RPC id of the client's last one.
Ids == [m \in Requests \cup ServerRequests |-> IF m = s1 \/ m = r2 \/ Requests = {m} THEN [id |-> 2] ELSE [id |-> 1]]
Arguments == [m \in Requests \cup Notifications |-> IF m = r1 THEN Number(1) ELSE Number(2)]

NoneOrZero == {Missing, Number(0)}
Zero == {Number(0)}

Expect(effect, expected, change) ==
    [effect |-> effect, expected |-> expected, change |-> change]
Entry(effect, expected, delta, change) ==
    [effect |-> effect, expected |-> expected, delta |-> delta, change |-> change]
Asserted(type, effect, expected, change) ==
    [ type |-> type, tool |-> t1, step |-> Missing, effect |-> effect,
      expected |-> expected, change |-> change, atMost |-> 1, exactly |-> Undefined ]

Contract(cardinality, recovery, intended, forbidden) ==
    [ tool |-> t1, preconditions |-> {Expect(count, Number(0), "none")},
      intended |-> intended, forbidden |-> forbidden, cardinality |-> cardinality,
      ordering |-> {[before |-> t1, after |-> [client |-> t1, attempt |-> 2]]},
      authorization |-> Number(1),
      recovery |-> [uncertain |-> recovery, maxAttempts |-> 2, query |-> t2] ]

TwoProbes ==
    << [id |-> peek, source |-> "tool", allowed |-> FALSE],
       [id |-> count, source |-> "json_command", allowed |-> TRUE] >>

SmallPack ==
    [ assertions |->
        { Asserted("effect_equals", count, Number(1), "none"),
          Asserted("effect_not_equals", peek, Number(2), "none"),
          Asserted("effect_not_equals", count, Number(2), "none"),
          Asserted("no_extra_transition", count, Missing, "increase"),
          Asserted("no_extra_transition", peek, Missing, "any"),
          Asserted("no_extra_transition", count, Missing, "none"),
          Asserted("must_not_call", count, Missing, "none"),
          Asserted("call_count", count, Missing, "none"),
          Asserted("result_path_equals", count, Number(1), "none") },
      state |-> [ effects |-> {Entry(count, Missing, Number(1), "none")},
                  forbidden |-> {Entry(count, Missing, Missing, "increase"),
                                 Entry(peek, Missing, Missing, "any")} ],
      contracts |->
        { Contract("exactly_once", "do_not_retry", {Expect(count, Number(1), "none")},
                   {Expect(count, Missing, "none")}),
          Contract("at_most_once", "query_before_retry", {Expect(count, Missing, "decrease")},
                   {Expect(count, Number(2), "none"), Expect(peek, Missing, "any")}),
          Contract("at_least_once", "retry_with_same_key", {Expect(peek, Missing, "any")},
                   {Expect(count, Missing, "increase")}) } ]
=============================================================================
