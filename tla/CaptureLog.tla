------------------------------ MODULE CaptureLog ------------------------------
(***************************************************************************)
(* The bounded event log of a proxy capture: the counters that             *)
(* runStdioProxy (src/src/proxy.ts) keeps next to capture.events, and its  *)
(* record() closure.  An event is kept only while both limits allow it;    *)
(* what is not kept still consumes a sequence number and marks the capture *)
(* as truncated.  Timestamps and redaction are left out.  The module has   *)
(* operators only: StdioProxy holds the log in a variable.                 *)
(***************************************************************************)
EXTENDS Integers, Sequences

CONSTANTS
    EventLimit,   \* options.maxCaptureEvents
    ByteLimit     \* options.maxCaptureBytes

ASSUME LimitsAssumption == EventLimit \in Nat /\ ByteLimit \in Nat

EmptyLog ==
    [ events    |-> <<>>,     \* capture.events: [sequence, event] records
      sequence  |-> 0,        \* eventSequence
      bytes     |-> 0,        \* captureBytes
      truncated |-> FALSE,    \* capture.truncated
      warned    |-> FALSE,    \* captureLimitWarning
      warnings  |-> 0 ]       \* limit warnings pushed to capture.warnings

HasRoom(log, size) ==
    /\ Len(log.events) < EventLimit
    /\ log.bytes + size <= ByteLimit

Keep(log, event, size) ==
    [ events    |-> Append(log.events, [sequence |-> log.sequence + 1, event |-> event]),
      sequence  |-> log.sequence + 1,
      bytes     |-> log.bytes + size,
      truncated |-> log.truncated,
      warned    |-> log.warned,
      warnings  |-> log.warnings ]

OmitMutant(log) ==               \* mutant: the warning is not guarded
    [log EXCEPT !.sequence = @ + 1, !.truncated = TRUE, !.warned = TRUE,
                !.warnings = @ + 1]

Omit(log) ==
    [ events    |-> log.events,
      sequence  |-> log.sequence + 1,
      bytes     |-> log.bytes,
      truncated |-> TRUE,
      warned    |-> TRUE,
      warnings  |-> IF log.warned THEN log.warnings ELSE log.warnings + 1 ]

\* record(event): size is the length of the serialized event.
Record(log, event, size) ==
    IF HasRoom(log, size) THEN Keep(log, event, size) ELSE Omit(log)

LogOf(Event) ==
    [ events: Seq([sequence: Nat, event: Event]), sequence: Nat, bytes: Nat,
      truncated: BOOLEAN, warned: BOOLEAN, warnings: Nat ]

-------------------------------------------------------------------------------
(* What a log promises; StdioProxy states these of its capture.            *)

\* Neither limit is exceeded, whatever the sizes of the events.
Bounded(log) == Len(log.events) <= EventLimit /\ log.bytes <= ByteLimit

\* A reader can tell a complete capture from an incomplete one: an event is
\* missing exactly when the capture is marked truncated, and then the warning
\* is there exactly once.
Reported(log) ==
    /\ log.truncated <=> log.sequence > Len(log.events)
    /\ log.warnings = IF log.truncated THEN 1 ELSE 0

\* Sequence numbers order the kept events and are never reused, even across a
\* gap left by omitted events (captureEvents of proxy-runner.ts builds event
\* ids from them).
Ordered(log) ==
    /\ \A i, j \in DOMAIN log.events :
          i < j => log.events[i].sequence < log.events[j].sequence
    /\ \A i \in DOMAIN log.events : log.events[i].sequence <= log.sequence
===============================================================================
