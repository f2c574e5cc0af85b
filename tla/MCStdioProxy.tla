----------------------------- MODULE MCStdioProxy -----------------------------
(* Small instances of StdioProxy: the tools called and the faults declared. *)
EXTENDS StdioProxy, TLC

CONSTANTS r1, r2, r3, n1, s1, c1, t1, t2

Fault(type, tool, occurrence, delayed) ==
    [ type |-> type, applies_to |-> tool, occurrence |-> occurrence,
      delayed |-> delayed, commit_status |-> "undefined" ]

\* All messages are calls of one tool.
OneTool == [m \in Requests \cup Notifications |-> t1]

\* The first call is sent twice, the second is denied, the third one commits and
\* loses its response.
DuplicateDenyLose ==
    << Fault("duplicate_call", t1, 1, FALSE),
       Fault("rate_limit", t1, 2, FALSE),
       Fault("commit_then_response_lost", AnyTool, 3, TRUE) >>

\* The second call gets the last successful response instead of its own.
StaleSecond == << Fault("stale_result", t1, 2, FALSE) >>

NoMutations == << >>

UnitSizes == [k \in EventKinds |-> 1]
Sizes == [k \in EventKinds |-> IF k = "mutation" THEN 3 ELSE 1]
=============================================================================
