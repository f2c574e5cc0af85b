----------------------------- MODULE HttpTransport -----------------------------
(***************************************************************************)
(* The HTTP fault proxy (src/src/http-transport.ts): requests of clients   *)
(* are forwarded to an upstream server, whose responses, whole or as a     *)
(* stream of events, pass through mutation hooks.  Timers, disconnects of  *)
(* either side, limits and the close of the proxy may come between any two *)
(* turns of the event loop.                                                *)
(*                                                                         *)
(* A byte is "n" for a newline, "r" for a carriage return, or "x".         *)
(***************************************************************************)
EXTENDS Integers, Sequences, SequencesExt

CONSTANTS
    Requests,
    Asked,         \* "post", "get" (or DELETE), or "other": refused at once
    Replies,       \* how the upstream may respond: "whole", "stream"
    Mutation,      \* --mutation-type, or "embedded": hooks that decide freely
    MaxBody,       \* maxResponseBodyBytes
    MaxEvent,      \* maxSseEventBytes
    MaxSession,    \* maxSseSessionBytes
    Chunks, MaxSource  \* bounds: what an upstream writes at once, and in all

Bytes == Seq({"x", "r", "n"})

ASSUME HttpAssumption ==
    /\ Asked \in [Requests -> {"post", "get", "other"}]
    /\ Replies \in [Requests -> SUBSET {"whole", "stream"}]
    /\ {MaxBody, MaxEvent, MaxSession} \subseteq Nat \ {0}
    /\ Chunks \subseteq Bytes \ {<<>>}
    /\ MaxSource \in Nat

VARIABLES
    phase,  \* of the proxy: up, closing, closed
    h       \* of each request: the handler, its connection and its upstream

vars == <<phase, h>>

Stages ==
    {"new", "body", "connecting", "collecting", "hook", "streaming", "event", "draining", "settled"}
Connections == {"none", "open", "closed"}
Sent == {"unsent", "head", "ended", "destroyed"}
Statuses == {0, 200, 400, 404, 408, 413, 415, 502, 503, 504}
Upstreams == {"none", "pending", "flowing", "ended", "broken"}
Timers == {"none", "body", "total", "idle"}
Entries == {"request", "upstream_response", "request_complete", "rejected", "transport_error"}
Decisions == {"keep", "drop", "close", "replace", "too long", "throw"}

Handler ==
    [ at: Stages,
      conn: Connections,
      out: Sent,              \* the response
      status: Statuses,       \* 200: that of the upstream
      up: Upstreams,          \* upstreamRequest
      closing: BOOLEAN,       \* history: opened after close()
      stream: BOOLEAN,
      timer: Timers,
      late: BOOLEAN,          \* timedOut
      wire: Bytes,            \* received, not read
      pending: Bytes,
      total: Nat,             \* totalBytes
      log: Seq(Entries),
      source: Bytes,          \* history: all received
      passed: Bytes,          \* history: past the hook
      events: SUBSET Bytes,   \* history: of a stream, past the hook
      hook: Decisions \cup {"none"} ]  \* decision on the response

Idle ==
    [ at |-> "new", conn |-> "none", out |-> "unsent", status |-> 0, up |-> "none",
      closing |-> FALSE, stream |-> FALSE, timer |-> "none", late |-> FALSE, wire |-> <<>>, pending |-> <<>>,
      total |-> 0, log |-> <<>>, source |-> <<>>, passed |-> <<>>, events |-> {}, hook |-> "none" ]

Init ==
    /\ phase = "up"
    /\ h = [r \in Requests |-> Idle]

Open(x) == x.up \in {"pending", "flowing"}

\* In activeUpstreams: between the creation of the upstream request and finally.
Active(x) == x.at \notin {"new", "body", "settled"}

Becomes(r, x) ==
    /\ h' = [h EXCEPT ![r] = x]
    /\ UNCHANGED phase

-------------------------------------------------------------------------------
(* What the handler does with its own state.                               *)

\* upstreamRequest.destroy, or destroy of the response being read.
Cut(x) == [x EXCEPT !.up = IF Open(x) THEN "broken" ELSE @]

Opened(x) ==
    [x EXCEPT !.at = "connecting", !.up = "pending", !.timer = "total", !.closing = phase # "up"]

Completed(x) ==
    [x EXCEPT !.at = "settled", !.timer = "none", !.log = Append(@, "request_complete")]

\* The catch clauses and sendFailure.
Failed(x, status) ==
    LET shown == IF x.late THEN 504 ELSE status IN
    [x EXCEPT !.at = "settled", !.timer = "none",
              !.log = Append(@, IF shown \in 400..499 THEN "rejected" ELSE "transport_error"),
              !.out = CASE @ = "unsent" -> "ended" [] @ = "head" -> "destroyed" [] OTHER -> @,
              !.status = IF x.out = "unsent" THEN shown ELSE @]

Destroyed(x) == [x EXCEPT !.out = "destroyed"]
Ended(x) == [x EXCEPT !.out = IF @ = "destroyed" THEN @ ELSE "ended"]
Head200(x) ==
    [x EXCEPT !.status = 200, !.out = IF @ = "destroyed" THEN @ ELSE "head"]

\* The blank lines that end an event; a chunk may end inside one.
Delimiters == {<<"n", "n">>, <<"r", "n", "r", "n">>}
EndsEvent(bytes, i) ==
    \E d \in Delimiters :
        Len(d) <= i /\ \A j \in DOMAIN d : bytes[i - Len(d) + j] = d[j]
Boundaries(bytes) == {i \in DOMAIN bytes : EndsEvent(bytes, i)}
HasBoundary(bytes) == Boundaries(bytes) # {}

\* sseBoundary: the bytes up to the end of the first event, or all of them.
EventIn(bytes) ==
    IF HasBoundary(bytes)
    THEN SubSeq(bytes, 1, CHOOSE i \in Boundaries(bytes) : \A j \in Boundaries(bytes) : i <= j)
    ELSE bytes

\* forwardEvent up to its hook.
Offered(x) ==
    IF Len(EventIn(x.pending)) > MaxEvent
    THEN Failed(Cut(x), 502)
    ELSE [x EXCEPT !.at = "event"]

\* The loop goes on with the next event of the chunk, or the next chunk.
Resumed(x) ==
    IF HasBoundary(x.pending) THEN Offered(x) ELSE [x EXCEPT !.at = "streaming"]

\* What the hooks of the command line decide on a whole response, at the start
\* of a stream and on an event of it; a delay of the hook is part of its await.
CliDecision(type, stage) ==
    IF type = "progress_stall" THEN "drop"
    ELSE IF stage # "whole" \/ type \in {"slow_stream", "none"} THEN "keep"
    ELSE IF type \in {"timeout", "commit_then_response_lost", "disconnect_after_commit"}
    THEN "close" ELSE "replace"

Decided(stage) == IF Mutation = "embedded" THEN Decisions ELSE {CliDecision(Mutation, stage)}

-------------------------------------------------------------------------------
(* A request arrives and its body is read.                                 *)

Arriving(r) == h[r].at = "new" /\ phase # "closed"

Refuses(r) ==
    /\ Arriving(r)
    /\ phase = "closing" \/ Asked[r] = "other"
    /\ Becomes(r, [h[r] EXCEPT !.conn = "open", !.at = "settled", !.out = "ended",
                               !.status = IF phase = "closing" THEN 503 ELSE 404])

Accepts(r) ==
    /\ Arriving(r)
    /\ phase = "up"
    /\ Asked[r] # "other"
    /\ LET x == [h[r] EXCEPT !.conn = "open", !.log = <<"request">>] IN
       Becomes(r, IF Asked[r] = "get" THEN Opened(x)
                  ELSE [x EXCEPT !.at = "body", !.timer = "body"])

\* The end of a body that parses; the proxy may be closing by now.
BodyEnds(r) ==
    /\ h[r].at = "body"
    /\ Becomes(r, Opened(h[r]))

BodyRefused(r) ==
    /\ h[r].at = "body"
    /\ \E status \in {400, 413, 415} : Becomes(r, Failed(h[r], status))

BodyTimesOut(r) ==
    /\ h[r].timer = "body"
    /\ Becomes(r, Failed(h[r], 408))

\* The connection closes, for whatever reason: onAborted or disconnect.
ClientLeaves(r) ==
    /\ h[r].conn = "open"
    /\ LET gone == [h[r] EXCEPT !.conn = "closed", !.out = IF @ = "ended" THEN @ ELSE "destroyed"]
       IN  Becomes(r, CASE h[r].at = "body" -> Failed(gone, 502)
                        [] Active(h[r]) -> Cut(gone)
                        [] OTHER -> gone)

TotalTimeoutMutant(r) ==  \* mutant: the timer only leaves its mark
    /\ h[r].timer = "total"
    /\ Becomes(r, [h[r] EXCEPT !.late = TRUE, !.timer = "none"])
TotalTimeout(r) ==
    /\ h[r].timer = "total"
    /\ Becomes(r, Cut([h[r] EXCEPT !.late = TRUE, !.timer = "none"]))

IdleTimeout(r) ==
    /\ h[r].timer = "idle"
    /\ h[r].up = "flowing"
    /\ Becomes(r, Cut(h[r]))

-------------------------------------------------------------------------------
(* The upstream server.                                                    *)

RespondsMutant(r) ==  \* mutant: the timer is cleared for every response
    /\ h[r].at = "connecting"
    /\ h[r].up = "pending"
    /\ LET x == [h[r] EXCEPT !.up = "flowing", !.log = Append(@, "upstream_response"),
                             !.timer = "none"]
           whole == [x EXCEPT !.at = "collecting"]
       IN
       \/ /\ "whole" \in Replies[r]
          /\ Becomes(r, whole) \/ Becomes(r, Failed(Cut(whole), 502))
       \/ /\ "stream" \in Replies[r]
          /\ Becomes(r, [x EXCEPT !.at = "hook", !.stream = TRUE])
\* A whole response may declare a length beyond the limit.
Responds(r) ==
    /\ h[r].at = "connecting"
    /\ h[r].up = "pending"
    /\ LET x == [h[r] EXCEPT !.up = "flowing", !.log = Append(@, "upstream_response")]
           whole == [x EXCEPT !.at = "collecting"]
       IN
       \/ /\ "whole" \in Replies[r]
          /\ Becomes(r, whole) \/ Becomes(r, Failed(Cut(whole), 502))
       \/ /\ "stream" \in Replies[r]
          /\ Becomes(r, [x EXCEPT !.at = "hook", !.stream = TRUE, !.timer = "none"])

\* At most one chunk is unread: the rest waits in the upstream.
Sends(r) ==
    /\ h[r].up = "flowing"
    /\ h[r].at # "settled"
    /\ h[r].wire = <<>>
    /\ \E c \in Chunks :
          /\ Len(h[r].source \o c) <= MaxSource
          /\ Becomes(r, [h[r] EXCEPT !.wire = c, !.source = @ \o c])

UpstreamEnds(r) ==
    /\ h[r].up = "flowing"
    /\ Becomes(r, [h[r] EXCEPT !.up = "ended"])

UpstreamBreaks(r) ==
    /\ Open(h[r])
    /\ Becomes(r, Cut(h[r]))

-------------------------------------------------------------------------------
(* The handler goes on.                                                    *)

\* The error of the upstream request, or of the body being read.
UpstreamLost(r) ==
    /\ h[r].at \in {"connecting", "collecting", "streaming"}
    /\ h[r].up = "broken"
    /\ Becomes(r, Failed(h[r], 502))

Collects(r) ==
    /\ h[r].at = "collecting"
    /\ h[r].up # "broken"
    /\ h[r].wire # <<>>
    /\ LET body == h[r].pending \o h[r].wire
           x == [h[r] EXCEPT !.wire = <<>>, !.pending = body]
       IN  Becomes(r, IF Len(body) > MaxBody THEN Failed(Cut(x), 502) ELSE x)

CollectedMutant(r) ==  \* mutant: a broken response counts as ended
    /\ h[r].at = "collecting"
    /\ h[r].up \in {"ended", "broken"}
    /\ h[r].wire = <<>>
    /\ Becomes(r, [h[r] EXCEPT !.at = "hook"])
Collected(r) ==
    /\ h[r].at = "collecting"
    /\ h[r].up = "ended"
    /\ h[r].wire = <<>>
    /\ Becomes(r, [h[r] EXCEPT !.at = "hook"])

\* forwardBufferedResponse after the delay of its hook.
WholeDecided(r) ==
    /\ h[r].at = "hook"
    /\ ~h[r].stream
    /\ \E d \in Decided("whole") :
          LET x == [h[r] EXCEPT !.hook = d]
              all == [x EXCEPT !.pending = <<>>, !.passed = x.pending]
          IN  Becomes(r, CASE d \in {"too long", "throw"} -> Failed(x, 502)
                           [] d = "close" -> Completed(Destroyed(x))
                           [] OTHER -> Completed(Ended(Head200(all))))

\* forwardSseResponse before its loop; the reading of a dropped stream goes on.
StreamDecided(r) ==
    /\ h[r].at = "hook"
    /\ h[r].stream
    /\ \E d \in Decided("stream") :
          LET x == [h[r] EXCEPT !.hook = d] IN
          Becomes(r, CASE d = "throw" -> Failed(x, 502)
                       [] d = "close" -> Completed(Cut(Destroyed(x)))
                       [] d = "drop" -> Completed(Ended(Head200(x)))
                       [] OTHER -> [Head200(x) EXCEPT !.at = "streaming", !.timer = "idle"])

TakesMutant(r) ==  \* mutant: the rest of the last chunk is forgotten
    /\ h[r].at = "streaming"
    /\ h[r].up # "broken"
    /\ h[r].wire # <<>>
    /\ LET chunk == h[r].wire
           x == [h[r] EXCEPT !.wire = <<>>, !.pending = chunk, !.total = @ + Len(chunk)]
       IN  Becomes(r,
               IF x.total > MaxSession \/ (Len(x.pending) > MaxEvent /\ ~HasBoundary(x.pending))
               THEN Failed(Cut(x), 502)
               ELSE Resumed(x))
Takes(r) ==
    /\ h[r].at = "streaming"
    /\ h[r].up # "broken"
    /\ h[r].wire # <<>>
    /\ LET chunk == h[r].wire
           x == [h[r] EXCEPT !.wire = <<>>, !.pending = @ \o chunk, !.total = @ + Len(chunk)]
       IN  Becomes(r,
               IF x.total > MaxSession \/ (Len(x.pending) > MaxEvent /\ ~HasBoundary(x.pending))
               THEN Failed(Cut(x), 502)
               ELSE Resumed(x))

StreamEnds(r) ==
    /\ h[r].at = "streaming"
    /\ h[r].up = "ended"
    /\ h[r].wire = <<>>
    /\ Becomes(r, IF h[r].pending # <<>> THEN Offered(h[r]) ELSE Completed(Ended(h[r])))

EventDecidedMutant(r) ==  \* mutant: an error leaves the loop but not the upstream
    /\ h[r].at = "event"
    /\ \E d \in Decided("event") :
          LET event == EventIn(h[r].pending)
              x == [h[r] EXCEPT !.pending = SubSeq(@, Len(event) + 1, Len(@)),
                                !.passed = @ \o event, !.events = @ \cup {event}]
          IN  CASE d \in {"too long", "throw"} -> Becomes(r, Failed(h[r], 502))
                [] d = "close" -> Becomes(r, Completed(Cut(Destroyed(x))))
                [] d = "drop" -> Becomes(r, Resumed(x))
                [] OTHER -> \/ Becomes(r, Resumed(x))
                            \/ x.out = "head" /\ Becomes(r, [x EXCEPT !.at = "draining"])
\* forwardEvent after the delay of its hook; the write may have to wait.
EventDecided(r) ==
    /\ h[r].at = "event"
    /\ \E d \in Decided("event") :
          LET event == EventIn(h[r].pending)
              x == [h[r] EXCEPT !.pending = SubSeq(@, Len(event) + 1, Len(@)),
                                !.passed = @ \o event, !.events = @ \cup {event}]
          IN  CASE d \in {"too long", "throw"} -> Becomes(r, Failed(Cut(h[r]), 502))
                [] d = "close" -> Becomes(r, Completed(Cut(Destroyed(x))))
                [] d = "drop" -> Becomes(r, Resumed(x))
                [] OTHER -> \/ Becomes(r, Resumed(x))
                            \/ x.out = "head" /\ Becomes(r, [x EXCEPT !.at = "draining"])

\* No drain follows when the client has gone.
Drains(r) ==
    /\ h[r].at = "draining"
    /\ h[r].conn = "open"
    /\ Becomes(r, Resumed(h[r]))

-------------------------------------------------------------------------------
(* close().                                                                *)

\* Destroying an upstream request throws away what a complete response still
\* holds if nobody reads it.
CloseStarts ==
    /\ phase = "up"
    /\ phase' = "closing"
    /\ \E dumped \in SUBSET {r \in Requests : h[r].at = "hook" /\ h[r].stream /\ h[r].up = "ended"} :
          h' = [r \in Requests |->
                   IF ~Active(h[r]) THEN h[r]
                   ELSE [Cut(h[r]) EXCEPT !.wire = IF r \in dumped THEN <<>> ELSE @]]

\* The callback of server.close: no connection is left.
ConnectionsEnd ==
    /\ phase = "closing"
    /\ \A r \in Requests : h[r].conn # "open"
    /\ phase' = "closed"
    /\ UNCHANGED h

\* forceTimer: sockets are destroyed, and report it later (ClientLeaves).
GraceEnds ==
    /\ phase = "closing"
    /\ phase' = "closed"
    /\ UNCHANGED h

Next ==
    \/ \E r \in Requests :
          \/ Refuses(r) \/ Accepts(r) \/ BodyEnds(r) \/ BodyRefused(r) \/ BodyTimesOut(r)
          \/ ClientLeaves(r) \/ TotalTimeout(r) \/ IdleTimeout(r)
          \/ Responds(r) \/ Sends(r) \/ UpstreamEnds(r) \/ UpstreamBreaks(r)
          \/ UpstreamLost(r) \/ Collects(r) \/ Collected(r)
          \/ WholeDecided(r) \/ StreamDecided(r) \/ EventDecided(r)
          \/ Takes(r) \/ StreamEnds(r) \/ Drains(r)
    \/ CloseStarts \/ ConnectionsEnd \/ GraceEnds

Spec == Init /\ [][Next]_vars

\* Timers fire, hooks return, what can be read is read, and destroyed sockets
\* close.  Neither a client nor an upstream has to do anything.
Fairness ==
    /\ \A r \in Requests :
          /\ WF_vars(BodyTimesOut(r)) /\ WF_vars(TotalTimeout(r)) /\ WF_vars(IdleTimeout(r))
          /\ WF_vars(UpstreamLost(r)) /\ WF_vars(Collects(r) \/ Collected(r))
          /\ WF_vars(WholeDecided(r) \/ StreamDecided(r) \/ EventDecided(r))
          /\ WF_vars(Takes(r) \/ StreamEnds(r))
          /\ WF_vars(phase = "closed" /\ ClientLeaves(r))
    /\ WF_vars(GraceEnds)

FairSpec == Spec /\ Fairness

-------------------------------------------------------------------------------
(* Properties.                                                             *)

\* The types of the variables.
TypeOK ==
    /\ phase \in {"up", "closing", "closed"}
    /\ h \in [Requests -> Handler]

\* The hook on the response dropped a stream, or failed, before the loop that
\* reads the upstream began.
Abandoned(x) == x.stream /\ x.hook \in {"drop", "throw"}

\* As long as an upstream is open a timer is armed that will release it, whatever its
\* handler waits for: the response, a chunk, the hook of an event or, in a wait that
\* has no timer of its own, a client that does not read (writeChunk).  It has none
\* during the hook at the start of a stream, and once that hook gave the stream up.
\* The body of a request is read under a timer too.
UpstreamsAreTimed ==
    \A r \in Requests :
        /\ h[r].at = "body" => h[r].timer = "body"
        /\ Open(h[r]) => \/ h[r].timer \in {"total", "idle"}
                         \/ h[r].at = "hook" /\ h[r].stream
                         \/ Abandoned(h[r])

\* Whatever the chunks, the events that reach the hook are those of the stream,
\* whole, in order and once: the rest is pending or unread.  Once the proxy closes,
\* this is said of a stream of which a part has passed.
StreamConserved ==
    \A r \in Requests :
        LET x == h[r] IN
        /\ x.at \in {"streaming", "event", "draining"} /\ (phase = "up" \/ x.passed # <<>>) =>
               x.passed \o x.pending \o x.wire = x.source
        /\ x.stream /\ x.up # "ended" =>
               \A event \in x.events : event = EventIn(event) /\ HasBoundary(event)

\* A response that ends with the status of the upstream is complete: the
\* upstream has ended too, and all it sent went through the hook.  There are two
\* exceptions: a hook that drops the response, and a close of the proxy during the
\* hook at the start of a stream whose upstream has ended, of which nothing is
\* passed on.
NothingTruncated ==
    \A r \in Requests :
        LET x == h[r] IN
        x.out = "ended" /\ x.status = 200 /\ x.hook # "drop" =>
            /\ x.up = "ended"
            /\ x.passed = x.source \/ (phase # "up" /\ x.stream /\ x.passed = <<>>)

Outcomes == {"request_complete", "rejected", "transport_error"}

\* An accepted request reports one outcome, last, when its handler settles; it
\* does not report completion after an error status, nor an error when the client
\* got a complete response.
OutcomeIsTrue ==
    \A r \in Requests :
        LET x == h[r]
            outcomes == {i \in DOMAIN x.log : x.log[i] \in Outcomes}
        IN  /\ outcomes = IF x.at = "settled" /\ x.log # <<>> THEN {Len(x.log)} ELSE {}
            /\ x.log # <<>> /\ x.at = "settled" =>
                   IF Last(x.log) = "request_complete"
                   THEN x.status \in {0, 200} /\ (x.status = 0 => x.out = "destroyed")
                   ELSE x.out = "ended" => x.status # 200

\* Neither the client nor who reads the log takes a response that was cut for a
\* complete one, or the reverse, wherever upstream, client, timers and limits cut it
\* (forwardSseResponse, forwardBufferedResponse, sendFailure).
EndingsAreTrue == NothingTruncated /\ OutcomeIsTrue

\* Handlers settle, whatever client and upstream do, unless the response is full and
\* its client does not read; and none keeps an upstream open for good, that client's
\* neither, which it did not abandon (createHttpTransportRequestHandler, writeChunk).
HandlersSettle ==
    \A r \in Requests :
        <>[](/\ h[r].at \in {"new", "settled", "draining"}
             /\ Open(h[r]) => Abandoned(h[r]))

\* Once the proxy starts to close, every upstream is released for good: those that
\* were active, and those of requests whose body was still being read.
CloseReleases ==
    phase = "closing" ~>
        [](\A r \in Requests : Open(h[r]) => Abandoned(h[r]))
=============================================================================
