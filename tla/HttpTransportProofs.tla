-------------------------- MODULE HttpTransportProofs --------------------------
(***************************************************************************)
(* Theorems about HttpTransport for any number of requests, any hooks and  *)
(* limits, any chunks an upstream may write and any order of timers,       *)
(* losses and the close of the proxy.                                      *)
(***************************************************************************)
EXTENDS HttpTransport, TLAPS, SequenceTheorems, WellFoundedInduction

-------------------------------------------------------------------------------
(* The inductive invariant, of each handler x while the phase is p.        *)

Looping(x) == x.at \in {"streaming", "event", "draining"}
Unanswered(x) == x.at \in {"new", "body", "connecting", "collecting", "hook"}

\* The timer that is armed is the one of what the handler waits for.
TimersFit(x) ==
    /\ x.at = "body" => x.timer = "body"
    /\ x.at \in {"connecting", "collecting"} /\ Open(x) => x.timer = "total"
    /\ Looping(x) => x.timer = "idle"
    /\ x.timer = "body" => x.at = "body"
    /\ x.timer = "total" => x.at \in {"connecting", "collecting", "hook"} /\ ~x.stream

\* The upstream and the response are as far as the handler is.
ProgressFits(x) ==
    /\ x.at \in {"new", "body"} => x.up = "none"
    /\ x.at = "connecting" => x.up \in {"pending", "broken"}
    /\ x.at \in {"new", "body", "connecting", "collecting"} => ~x.stream
    /\ x.at = "hook" /\ ~x.stream => x.up = "ended" /\ x.wire = <<>>
    /\ Unanswered(x) => x.status = 0 /\ x.out \in {"unsent", "destroyed"}
    /\ Looping(x) => x.stream /\ x.status = 200 /\ x.out \in {"head", "destroyed"}
    /\ x.at = "settled" /\ Open(x) => Abandoned(x)

\* A close threw away all that an ended upstream had sent: nothing was read yet.
Dumped(p, x) ==
    /\ p # "up" /\ x.stream /\ x.up = "ended"
    /\ x.passed = <<>> /\ x.pending = <<>> /\ x.wire = <<>>

\* Where the bytes that were received are.
BytesFit(p, x) ==
    /\ x.at \in {"new", "body", "connecting"} =>
           x.source = <<>> /\ x.pending = <<>> /\ x.wire = <<>>
    /\ Unanswered(x) => x.passed = <<>> /\ x.events = {}
    /\ x.at = "hook" /\ x.stream => x.pending = <<>>
    /\ x.at # "settled" /\ ~Dumped(p, x) => x.passed \o x.pending \o x.wire = x.source
    /\ x.stream /\ x.up # "ended" =>
           \A event \in x.events : event = EventIn(event) /\ HasBoundary(event)

\* What the client got is complete if it looks complete.
EndFits(p, x) ==
    x.at = "settled" /\ x.out = "ended" /\ x.status = 200 /\ x.hook # "drop" =>
        /\ x.up = "ended"
        /\ x.passed = x.source \/ (p # "up" /\ x.stream /\ x.passed = <<>>)

\* The log has one outcome, the last, which tells what the client got.
LogFits(x) ==
    /\ x.at = "new" => x.log = <<>>
    /\ x.at # "settled" => \A i \in DOMAIN x.log : x.log[i] \notin Outcomes
    /\ x.at = "settled" /\ x.log # <<>> =>
           /\ \A i \in DOMAIN x.log : x.log[i] \in Outcomes <=> i = Len(x.log)
           /\ IF x.log[Len(x.log)] = "request_complete"
              THEN x.status \in {0, 200} /\ (x.status = 0 => x.out = "destroyed")
              ELSE x.out = "ended" => x.status # 200

Sound(p, x) ==
    x \in Handler /\ TimersFit(x) /\ ProgressFits(x) /\ BytesFit(p, x) /\ EndFits(p, x) /\ LogFits(x)

\* What is offered to the hook of an event ends with one, or with the stream.
Offers(x) ==
    x.at = "event" => x.pending # <<>> /\ (HasBoundary(x.pending) \/ x.up = "ended")

Good(p, x) == Sound(p, x) /\ Offers(x)

HandlersInv ==
    /\ phase \in {"up", "closing", "closed"}
    /\ h \in [Requests -> Handler]
    /\ \A r \in Requests : Good(phase, h[r])

-------------------------------------------------------------------------------
(* Bytes and events.                                                       *)

LEMMA Associative ==
    ASSUME NEW a \in Bytes, NEW b \in Bytes, NEW c \in Bytes
    PROVE  (a \o b) \o c = a \o (b \o c)
<1>. DEFINE S == {"x", "r", "n"}
            ab == a \o b
            bc == b \o c
            l == ab \o c
            m == a \o bc
<1>1. a \in Seq(S) /\ b \in Seq(S) /\ c \in Seq(S)
  BY DEF Bytes
<1>. HIDE DEF S
<1>2. /\ Len(a) \in Nat /\ Len(b) \in Nat /\ Len(c) \in Nat
  BY <1>1
<1>3. /\ ab \in Seq(S) /\ Len(ab) = Len(a) + Len(b)
      /\ \A i \in 1..Len(a) + Len(b) : ab[i] = IF i <= Len(a) THEN a[i] ELSE b[i - Len(a)]
  BY <1>1, ConcatProperties
<1>4. /\ bc \in Seq(S) /\ Len(bc) = Len(b) + Len(c)
      /\ \A i \in 1..Len(b) + Len(c) : bc[i] = IF i <= Len(b) THEN b[i] ELSE c[i - Len(b)]
  BY <1>1, ConcatProperties
<1>. HIDE DEF ab, bc
<1>a. ab \in Seq(S) /\ bc \in Seq(S)
  BY <1>3, <1>4
<1>5. /\ l \in Seq(S) /\ Len(l) = Len(ab) + Len(c)
      /\ \A i \in 1..Len(ab) + Len(c) : l[i] = IF i <= Len(ab) THEN ab[i] ELSE c[i - Len(ab)]
  BY <1>1, <1>a, ConcatProperties
<1>6. /\ m \in Seq(S) /\ Len(m) = Len(a) + Len(bc)
      /\ \A i \in 1..Len(a) + Len(bc) : m[i] = IF i <= Len(a) THEN a[i] ELSE bc[i - Len(a)]
  BY <1>1, <1>a, ConcatProperties
<1>. HIDE DEF l, m
<1>7. Len(l) = Len(m)
  BY <1>2, <1>3, <1>4, <1>5, <1>6
<1>8. ASSUME NEW i \in 1..Len(l) PROVE l[i] = m[i]
  <2>1. CASE i <= Len(a)
    BY <1>2, <1>3, <1>4, <1>5, <1>6, <1>8, <2>1, SMTT(60)
  <2>2. CASE Len(a) < i /\ i <= Len(a) + Len(b)
    <3>1. l[i] = b[i - Len(a)]
      BY <1>2, <1>3, <1>5, <1>8, <2>2
    <3>2. m[i] = bc[i - Len(a)] /\ i - Len(a) \in 1..Len(b)
      BY <1>2, <1>4, <1>6, <1>8, <2>2
    <3>. QED BY <1>2, <1>4, <3>1, <3>2
  <2>3. CASE Len(a) + Len(b) < i
    <3>1. l[i] = c[i - (Len(a) + Len(b))]
      BY <1>2, <1>3, <1>5, <1>8, <2>3
    <3>2. m[i] = bc[i - Len(a)] /\ i - Len(a) \in 1..Len(b) + Len(c) /\ ~(i - Len(a) <= Len(b))
      BY <1>2, <1>3, <1>4, <1>5, <1>6, <1>8, <2>3
    <3>3. m[i] = c[i - Len(a) - Len(b)]
      BY <1>4, <3>2
    <3>. QED BY <1>2, <1>8, <3>1, <3>3
  <2>. QED BY <1>2, <2>1, <2>2, <2>3
<1>9. l = m
  BY <1>5, <1>6, <1>7, <1>8, SeqEqual
<1>. QED BY <1>9 DEF ab, bc, l, m

LEMMA LeastElement ==
    ASSUME NEW T \in SUBSET Nat, T # {}
    PROVE  \E i \in T : \A j \in T : i <= j
<1>. DEFINE below == OpToRel(<, Nat)
<1>1. IsWellFoundedOn(below, Nat)
  BY NatLessThanWellFounded
<1>2. below = {p \in Nat \X Nat : p[1] < p[2]}
  BY Zenon DEF OpToRel
<1>. HIDE DEF below
<1>3. PICK i \in T : \A j \in T : <<j, i>> \notin below
  BY <1>1, WFMin
<1>4. ASSUME NEW j \in T PROVE ~(j < i)
  <2>1. <<j, i>> \in Nat \X Nat /\ <<j, i>>[1] = j /\ <<j, i>>[2] = i
    OBVIOUS
  <2>. QED BY <1>2, <1>3, <2>1
<1>. QED BY <1>4

LEMMA FirstBoundary ==
    ASSUME NEW bytes \in Bytes, HasBoundary(bytes)
    PROVE  \E i \in Boundaries(bytes) :
              /\ EventIn(bytes) = SubSeq(bytes, 1, i)
              /\ \A j \in Boundaries(bytes) : i <= j
<1>. DEFINE First(i) == \A j \in Boundaries(bytes) : i <= j
<1>1. Boundaries(bytes) \in SUBSET Nat /\ Boundaries(bytes) # {}
  BY DEF Bytes, Boundaries, HasBoundary
<1>2. \E i \in Boundaries(bytes) : First(i)
  BY <1>1, LeastElement
<1>. DEFINE c == CHOOSE i \in Boundaries(bytes) : First(i)
<1>3. c \in Boundaries(bytes) /\ First(c)
  BY <1>2, Zenon
<1>4. EventIn(bytes) = SubSeq(bytes, 1, c)
  BY DEF EventIn
<1>. QED BY <1>3, <1>4

LEMMA NoBoundary == ~HasBoundary(<<>>)
BY DEF HasBoundary, Boundaries

\* Whether an event ends at a byte depends on the bytes up to it.
LEMMA BoundariesOfPrefix ==
    ASSUME NEW bytes \in Bytes, NEW part \in Bytes, Len(part) <= Len(bytes),
           \A j \in 1..Len(part) : part[j] = bytes[j]
    PROVE  Boundaries(part) = {i \in Boundaries(bytes) : i <= Len(part)}
<1>1. /\ DOMAIN bytes = 1..Len(bytes) /\ Len(bytes) \in Nat
      /\ DOMAIN part = 1..Len(part) /\ Len(part) \in Nat
  BY DEF Bytes
<1>2. ASSUME NEW i \in 1..Len(part) PROVE EndsEvent(part, i) <=> EndsEvent(bytes, i)
  <2>1. ASSUME NEW d \in Delimiters, Len(d) <= i, NEW j \in DOMAIN d
        PROVE  part[i - Len(d) + j] = bytes[i - Len(d) + j]
    <3>1. Len(d) \in Nat /\ DOMAIN d = 1..Len(d)
      BY DEF Delimiters
    <3>2. i - Len(d) + j \in 1..Len(part)
      BY <1>1, <2>1, <3>1
    <3>. QED BY <3>2
  <2>. QED BY <2>1 DEF EndsEvent
<1>. QED BY <1>1, <1>2 DEF Boundaries

\* What is left of the bytes once their first event is taken.
LEMMA EventTaken ==
    ASSUME NEW bytes \in Bytes
    PROVE  LET event == EventIn(bytes)
               rest == SubSeq(bytes, Len(event) + 1, Len(bytes))
           IN  /\ event \in Bytes /\ rest \in Bytes /\ event \o rest = bytes
               /\ HasBoundary(bytes) => event = EventIn(event) /\ HasBoundary(event)
<1>. DEFINE event == EventIn(bytes)
            rest == SubSeq(bytes, Len(event) + 1, Len(bytes))
<1>1. DOMAIN bytes = 1..Len(bytes) /\ Len(bytes) \in Nat
  BY DEF Bytes
<1>2. PICK i \in 0..Len(bytes) : event = SubSeq(bytes, 1, i)
  <2>1. CASE HasBoundary(bytes)
    <3>1. PICK k \in Boundaries(bytes) : event = SubSeq(bytes, 1, k)
      BY <2>1, FirstBoundary
    <3>2. k \in 0..Len(bytes)
      BY <1>1 DEF Boundaries
    <3>. QED BY <3>1, <3>2
  <2>2. CASE ~HasBoundary(bytes)
    <3>1. event = bytes
      BY <2>2 DEF EventIn
    <3>2. SubSeq(bytes, 1, Len(bytes)) = bytes
      BY SubSeqFull DEF Bytes
    <3>3. Len(bytes) \in 0..Len(bytes)
      BY <1>1
    <3>. QED BY <3>1, <3>2, <3>3
  <2>. QED BY <2>1, <2>2
<1>3. Len(event) = i /\ event \in Bytes
  BY <1>1, <1>2, SubSeqProperties DEF Bytes
<1>4. rest \in Bytes /\ event \o rest = bytes
  <2>1. 1 \in 1..Len(bytes) + 1 /\ i \in 1 - 1..Len(bytes) /\ Len(bytes) \in i..Len(bytes)
    BY <1>1
  <2>2. SubSeq(bytes, 1, i) \o SubSeq(bytes, i + 1, Len(bytes)) = SubSeq(bytes, 1, Len(bytes))
    BY <2>1, ConcatAdjacentSubSeq DEF Bytes
  <2>3. SubSeq(bytes, 1, Len(bytes)) = bytes
    BY SubSeqFull DEF Bytes
  <2>4. rest \in Bytes
    BY <1>1, <1>3, SubSeqProperties DEF Bytes
  <2>. QED BY <1>2, <1>3, <2>2, <2>3, <2>4
<1>5. ASSUME HasBoundary(bytes) PROVE event = EventIn(event) /\ HasBoundary(event)
  <2>1. PICK k \in Boundaries(bytes) :
           event = SubSeq(bytes, 1, k) /\ \A j \in Boundaries(bytes) : k <= j
    BY <1>5, FirstBoundary
  <2>2. k \in 1..Len(bytes)
    BY <1>1 DEF Boundaries
  <2>3. /\ Len(event) = k /\ k \in Nat
        /\ \A j \in 1..k : event[j] = bytes[j]
    BY <1>1, <2>1, <2>2, SubSeqProperties DEF Bytes
  <2>4. Boundaries(event) = {k} /\ HasBoundary(event)
    <3>1. Boundaries(event) = {b \in Boundaries(bytes) : b <= k}
      BY <1>1, <1>3, <2>2, <2>3, BoundariesOfPrefix
    <3>2. Boundaries(bytes) \subseteq Nat
      BY <1>1 DEF Boundaries
    <3>3. Boundaries(event) = {k}
      BY <2>1, <2>3, <3>1, <3>2
    <3>. QED BY <3>3 DEF HasBoundary
  <2>5. EventIn(event) = SubSeq(event, 1, k)
    BY <1>3, <2>4, FirstBoundary
  <2>6. SubSeq(event, 1, Len(event)) = event
    BY <1>3, SubSeqFull DEF Bytes
  <2>. QED BY <2>3, <2>4, <2>5, <2>6
<1>. QED BY <1>3, <1>4, <1>5

-------------------------------------------------------------------------------
(* What the handler does with its own state keeps it good.                 *)

LEMMA Fields ==
    ASSUME NEW x \in Handler
    PROVE  /\ x.at \in Stages /\ x.conn \in Connections /\ x.out \in Sent /\ x.status \in Statuses
           /\ x.up \in Upstreams /\ x.closing \in BOOLEAN /\ x.stream \in BOOLEAN
           /\ x.timer \in Timers /\ x.late \in BOOLEAN /\ x.wire \in Bytes /\ x.pending \in Bytes
           /\ x.total \in Nat /\ x.log \in Seq(Entries) /\ x.source \in Bytes
           /\ x.passed \in Bytes /\ x.events \in SUBSET Bytes /\ x.hook \in Decisions \cup {"none"}
BY DEF Handler

LEMMA Names ==
    /\ Stages = {"new", "body", "connecting", "collecting", "hook", "streaming", "event",
                 "draining", "settled"}
    /\ Connections = {"none", "open", "closed"} /\ Sent = {"unsent", "head", "ended", "destroyed"}
    /\ Upstreams = {"none", "pending", "flowing", "ended", "broken"}
    /\ Timers = {"none", "body", "total", "idle"}
BY DEF Stages, Connections, Sent, Upstreams, Timers

LEMMA CutGood ==
    ASSUME NEW p, NEW x, Sound(p, x)
    PROVE  /\ Sound(p, Cut(x)) /\ (Good(p, x) => Good(p, Cut(x)))
           /\ ~Open(Cut(x)) /\ Cut(x).at = x.at /\ Cut(x).out = x.out /\ Cut(x).status = x.status
<1>. DEFINE up == IF Open(x) THEN "broken" ELSE x.up
            y == [x EXCEPT !.up = up]
<1>1. Cut(x) = y
  BY DEF Cut
<1>2. up \in Upstreams /\ x \in Handler
  BY Fields DEF Good, Sound, Upstreams
<1>. HIDE DEF up
<1>3. y \in Handler
  BY <1>2 DEF Handler
<1>4. /\ y.up = up /\ y.at = x.at /\ y.timer = x.timer /\ y.stream = x.stream /\ y.wire = x.wire
      /\ y.status = x.status /\ y.out = x.out /\ y.source = x.source /\ y.pending = x.pending
      /\ y.passed = x.passed /\ y.events = x.events /\ y.hook = x.hook /\ y.log = x.log
  BY <1>2 DEF Handler
<1>. HIDE DEF y
<1>5. ~Open(y) /\ (up = x.up \/ (Open(x) /\ up = "broken"))
  BY <1>4 DEF Open, up
<1>6. TimersFit(y)
  BY <1>4, <1>5 DEF Good, Sound, TimersFit, Looping
<1>7. ProgressFits(y)
  BY <1>4, <1>5 DEF Good, Sound, ProgressFits, Abandoned, Looping, Unanswered, Open
<1>8. BytesFit(p, y) /\ (Offers(x) => Offers(y))
  BY <1>4, <1>5 DEF Good, Sound, BytesFit, Dumped, Offers, Unanswered, Open
<1>9. EndFits(p, y) /\ LogFits(y)
  BY <1>4, <1>5 DEF Good, Sound, EndFits, LogFits, Open
<1>. QED BY <1>1, <1>3, <1>4, <1>5, <1>6, <1>7, <1>8, <1>9 DEF Good, Sound

LEMMA OutcomeLogged ==
    ASSUME NEW x \in Handler, LogFits(x), x.at # "settled", NEW e \in Outcomes
    PROVE  LET log == Append(x.log, e) IN
           /\ log \in Seq(Entries)
           /\ log # <<>> /\ log[Len(log)] = e
           /\ \A i \in DOMAIN log : log[i] \in Outcomes <=> i = Len(log)
<1>. DEFINE log == Append(x.log, e)
<1>1. x.log \in Seq(Entries) /\ e \in Entries
  BY Fields DEF Outcomes, Entries
<1>2. \A i \in DOMAIN x.log : x.log[i] \notin Outcomes
  BY DEF LogFits
<1>3. /\ log \in Seq(Entries) /\ log # <<>> /\ Len(log) = Len(x.log) + 1 /\ log[Len(log)] = e
      /\ DOMAIN x.log = 1..Len(x.log) /\ Len(x.log) \in Nat /\ DOMAIN log = 1..Len(log)
      /\ \A i \in 1..Len(x.log) : log[i] = x.log[i]
  BY <1>1, AppendProperties
<1>. HIDE DEF log
<1>4. \A i \in DOMAIN log : log[i] \in Outcomes <=> i = Len(log)
  BY <1>2, <1>3
<1>. QED BY <1>3, <1>4 DEF log

LEMMA FailedGood ==
    ASSUME NEW p, NEW x, Sound(p, x), x.at # "settled",
           Open(x) => Abandoned(x), NEW status \in {400, 408, 413, 415, 502}
    PROVE  Good(p, Failed(x, status))
<1>. DEFINE shown == IF x.late THEN 504 ELSE status
            entry == IF shown \in 400..499 THEN "rejected" ELSE "transport_error"
            log == Append(x.log, entry)
            out == CASE x.out = "unsent" -> "ended" [] x.out = "head" -> "destroyed" [] OTHER -> x.out
            code == IF x.out = "unsent" THEN shown ELSE x.status
            y == [x EXCEPT !.at = "settled", !.timer = "none", !.log = log, !.out = out,
                           !.status = code]
<1>1. Failed(x, status) = y
  BY DEF Failed
<1>2. x \in Handler /\ entry \in {"rejected", "transport_error"} /\ entry \in Outcomes
  BY DEF Good, Sound, Outcomes
<1>3. x.out \in {"unsent", "head", "destroyed"} /\ shown \in Statuses \ {0, 200}
  BY <1>2, Fields, Names DEF Good, Sound, ProgressFits, Abandoned, Looping, Unanswered, Statuses
<1>. HIDE DEF shown, entry
<1>4. /\ out \in {"ended", "destroyed"} /\ (out = "ended" => x.out = "unsent")
      /\ code \in Statuses /\ (x.out = "unsent" => code \notin {0, 200})
  <2>1. CASE x.out = "unsent"
    BY <1>3, <2>1
  <2>2. CASE x.out = "head"
    BY <1>2, <2>2, Fields
  <2>3. CASE x.out = "destroyed"
    BY <1>2, <2>3, Fields
  <2>. QED BY <1>3, <2>1, <2>2, <2>3
<1>5. /\ log \in Seq(Entries)
      /\ log # <<>> /\ log[Len(log)] = entry
      /\ \A i \in DOMAIN log : log[i] \in Outcomes <=> i = Len(log)
  BY <1>2, OutcomeLogged DEF Good, Sound
<1>. HIDE DEF log, out, code
<1>6. y \in Handler
  <2>1. out \in Sent /\ "settled" \in Stages /\ "none" \in Timers
    BY <1>4, Names
  <2>. QED BY <1>2, <1>4, <1>5, <2>1, ZenonT(60) DEF Handler
<1>7. /\ y.at = "settled" /\ y.timer = "none" /\ y.log = log /\ y.out = out /\ y.status = code
      /\ y.up = x.up /\ y.stream = x.stream /\ y.events = x.events /\ y.hook = x.hook
  BY <1>2 DEF Handler
<1>. HIDE DEF y
<1>8. TimersFit(y) /\ ProgressFits(y)
  BY <1>7 DEF TimersFit, ProgressFits, Abandoned, Open, Looping, Unanswered
<1>9. BytesFit(p, y) /\ Offers(y)
  BY <1>7 DEF Good, Sound, BytesFit, Dumped, Offers, Unanswered
<1>10. EndFits(p, y)
  BY <1>4, <1>7 DEF EndFits
<1>11. LogFits(y)
  BY <1>2, <1>4, <1>5, <1>7 DEF LogFits
<1>. QED BY <1>1, <1>6, <1>8, <1>9, <1>10, <1>11 DEF Good, Sound

LEMMA CompletedGood ==
    ASSUME NEW p, NEW x, Sound(p, x), x.at # "settled",
           Open(x) => Abandoned(x), x.status = 0 => x.out = "destroyed"
    PROVE  Good(p, Completed(x))
<1>. DEFINE log == Append(x.log, "request_complete")
            y == [x EXCEPT !.at = "settled", !.timer = "none", !.log = log]
<1>1. Completed(x) = y /\ x \in Handler
  BY DEF Completed, Good, Sound
<1>2. x.out # "ended" /\ x.status \in {0, 200}
  BY <1>1, Fields, Names DEF Good, Sound, ProgressFits, Abandoned, Looping, Unanswered
<1>3. /\ log \in Seq(Entries)
      /\ log # <<>> /\ log[Len(log)] = "request_complete"
      /\ \A i \in DOMAIN log : log[i] \in Outcomes <=> i = Len(log)
  BY <1>1, OutcomeLogged DEF Good, Sound, Outcomes
<1>. HIDE DEF log
<1>4. y \in Handler
  <2>1. "settled" \in Stages /\ "none" \in Timers
    BY Names
  <2>. QED BY <1>1, <1>3, <2>1 DEF Handler
<1>5. /\ y.at = "settled" /\ y.timer = "none" /\ y.log = log /\ y.out = x.out /\ y.status = x.status
      /\ y.up = x.up /\ y.stream = x.stream /\ y.events = x.events /\ y.hook = x.hook
  BY <1>1 DEF Handler
<1>. HIDE DEF y
<1>6. TimersFit(y) /\ ProgressFits(y) /\ EndFits(p, y)
  BY <1>2, <1>5 DEF TimersFit, ProgressFits, Abandoned, Open, Looping, Unanswered, EndFits
<1>7. BytesFit(p, y) /\ Offers(y)
  BY <1>5 DEF Good, Sound, BytesFit, Dumped, Offers, Unanswered
<1>8. LogFits(y)
  BY <1>2, <1>3, <1>5 DEF LogFits, Good, Sound
<1>. QED BY <1>1, <1>4, <1>6, <1>7, <1>8 DEF Good, Sound

\* The end of a response, with what the hook decided on it.
LEMMA EndedGood ==
    ASSUME NEW p, NEW x, Sound(p, x), x.at # "settled", NEW z \in Handler,
           z.status = 200, z.out \in {"ended", "destroyed"},
           z.up = x.up, z.stream = x.stream, z.events = x.events, z.log = x.log,
           z.out = "ended" /\ z.hook # "drop" =>
               z.up = "ended" /\ (z.passed = z.source \/ (p # "up" /\ z.stream /\ z.passed = <<>>)),
           Open(z) => Abandoned(z)
    PROVE  Good(p, Completed(z))
<1>. DEFINE log == Append(x.log, "request_complete")
            y == [z EXCEPT !.at = "settled", !.timer = "none", !.log = log]
<1>1. x \in Handler
  BY DEF Sound
<1>2. /\ log \in Seq(Entries) /\ log # <<>> /\ log[Len(log)] = "request_complete"
      /\ \A i \in DOMAIN log : log[i] \in Outcomes <=> i = Len(log)
  BY <1>1, OutcomeLogged DEF Sound, Outcomes
<1>3. Completed(z) = y
  BY DEF Completed
<1>. HIDE DEF log
<1>4. y \in Handler
  <2>1. "settled" \in Stages /\ "none" \in Timers
    BY Names
  <2>. QED BY <1>2, <2>1 DEF Handler
<1>5. /\ y.at = "settled" /\ y.timer = "none" /\ y.log = log /\ y.out = z.out /\ y.status = 200
      /\ y.up = z.up /\ y.stream = z.stream /\ y.events = z.events /\ y.passed = z.passed
      /\ y.source = z.source /\ y.hook = z.hook
  BY DEF Handler
<1>. HIDE DEF y
<1>6. TimersFit(y) /\ ProgressFits(y) /\ EndFits(p, y)
  BY <1>5 DEF TimersFit, ProgressFits, Abandoned, Open, Looping, Unanswered, EndFits
<1>7. BytesFit(p, y) /\ Offers(y)
  BY <1>5 DEF Sound, BytesFit, Dumped, Offers, Unanswered
<1>8. LogFits(y)
  BY <1>2, <1>5 DEF LogFits
<1>. QED BY <1>3, <1>4, <1>6, <1>7, <1>8 DEF Good, Sound

\* The connection closes, or the hook closes it.
LEMMA DestroyedGood ==
    ASSUME NEW p, NEW x, Sound(p, x), NEW y \in Handler,
           y.out = "destroyed" \/ (y.out = "ended" /\ x.out = "ended"),
           y.up = x.up, y.at = x.at, y.timer = x.timer, y.stream = x.stream, y.wire = x.wire,
           y.status = x.status, y.source = x.source, y.pending = x.pending, y.passed = x.passed,
           y.events = x.events, y.hook = x.hook, y.log = x.log
    PROVE  Sound(p, y) /\ (Offers(x) => Offers(y))
<1>1. TimersFit(y) /\ ProgressFits(y)
  BY DEF Good, Sound, TimersFit, ProgressFits, Abandoned, Looping, Unanswered, Open
<1>2. BytesFit(p, y) /\ (Offers(x) => Offers(y))
  BY DEF Good, Sound, BytesFit, Dumped, Offers, Unanswered
<1>3. EndFits(p, y)
  BY DEF Good, Sound, EndFits
<1>4. LogFits(y)
  BY DEF Good, Sound, LogFits
<1>. QED BY <1>1, <1>2, <1>3, <1>4 DEF Good, Sound

\* The hook on the response has decided.
LEMMA HookedGood ==
    ASSUME NEW p, NEW x, Good(p, x), x.at = "hook", NEW d \in Decisions \cup {"none"}
    PROVE  LET y == [x EXCEPT !.hook = d] IN
           Good(p, y) /\ y.at = "hook" /\ y.status = 0 /\ y.stream = x.stream /\ y.conn = x.conn
<1>. DEFINE y == [x EXCEPT !.hook = d]
<1>1. x \in Handler
  BY DEF Good, Sound
<1>2. y \in Handler
  BY <1>1 DEF Handler
<1>3. /\ y.up = x.up /\ y.at = x.at /\ y.timer = x.timer /\ y.stream = x.stream /\ y.wire = x.wire
      /\ y.status = x.status /\ y.out = x.out /\ y.source = x.source /\ y.pending = x.pending
      /\ y.passed = x.passed /\ y.events = x.events /\ y.hook = d /\ y.log = x.log
      /\ y.conn = x.conn
  BY <1>1 DEF Handler
<1>4. x.status = 0
  BY DEF Good, Sound, ProgressFits, Abandoned, Unanswered
<1>. HIDE DEF y
<1>5. TimersFit(y) /\ ProgressFits(y)
  BY <1>3 DEF Good, Sound, TimersFit, ProgressFits, Abandoned, Looping, Unanswered, Open
<1>6. BytesFit(p, y) /\ Offers(y) /\ EndFits(p, y)
  BY <1>3 DEF Good, Sound, BytesFit, Dumped, Offers, EndFits, Unanswered
<1>7. LogFits(y)
  BY <1>3 DEF Good, Sound, LogFits
<1>. QED BY <1>2, <1>3, <1>4, <1>5, <1>6, <1>7 DEF Good, Sound, y

\* The hook closes the response, and the upstream with it if it is still read.
LEMMA HookCloses ==
    ASSUME NEW p, NEW x, Sound(p, x), x.at # "settled"
    PROVE  /\ ~Open(x) => Good(p, Completed(Destroyed(x)))
           /\ Good(p, Completed(Cut(Destroyed(x))))
<1>. DEFINE y == Destroyed(x)
<1>1. x \in Handler /\ "destroyed" \in Sent
  BY Names DEF Sound
<1>2. y \in Handler
  BY <1>1 DEF Handler, Destroyed
<1>3. /\ y.up = x.up /\ y.at = x.at /\ y.timer = x.timer /\ y.stream = x.stream /\ y.wire = x.wire
      /\ y.status = x.status /\ y.source = x.source /\ y.pending = x.pending
      /\ y.passed = x.passed /\ y.events = x.events /\ y.hook = x.hook /\ y.log = x.log
      /\ y.out = "destroyed"
  BY <1>1 DEF Handler, Destroyed
<1>. HIDE DEF y
<1>4. Sound(p, y)
  BY <1>2, <1>3, DestroyedGood
<1>5. Sound(p, Cut(y)) /\ Cut(y).at = y.at /\ Cut(y).out = y.out /\ ~Open(Cut(y))
  BY <1>4, CutGood
<1>6. ~Open(x) => Good(p, Completed(y))
  BY <1>3, <1>4, CompletedGood DEF Open
<1>7. Good(p, Completed(Cut(y)))
  BY <1>3, <1>5, CompletedGood
<1>. QED BY <1>6, <1>7 DEF y

\* The response ends, unless the client has gone.
LEMMA EndedFields ==
    ASSUME NEW x \in Handler, x.out \in {"unsent", "head", "destroyed"}
    PROVE  LET y == Ended(Head200(x)) IN
           /\ y \in Handler /\ y.status = 200 /\ y.out \in {"ended", "destroyed"}
           /\ y.up = x.up /\ y.stream = x.stream /\ y.events = x.events /\ y.log = x.log
           /\ y.passed = x.passed /\ y.source = x.source /\ y.hook = x.hook
<1>. DEFINE head == IF x.out = "destroyed" THEN x.out ELSE "head"
            z == [x EXCEPT !.status = 200, !.out = head]
            out == IF z.out = "destroyed" THEN z.out ELSE "ended"
            y == [z EXCEPT !.out = out]
<1>1. head \in Sent /\ head \in {"head", "destroyed"} /\ 200 \in Statuses
  BY DEF Sent, Statuses
<1>2. Head200(x) = z
  BY DEF Head200
<1>. HIDE DEF head
<1>3. z \in Handler
  BY <1>1, ZenonT(60) DEF Handler
<1>4. /\ z.status = 200 /\ z.up = x.up /\ z.stream = x.stream /\ z.events = x.events
      /\ z.log = x.log /\ z.passed = x.passed /\ z.source = x.source /\ z.hook = x.hook
  BY DEF Handler
<1>. HIDE DEF z
<1>5. Ended(z) = y /\ out \in Sent /\ out \in {"ended", "destroyed"}
  BY DEF Ended, Sent
<1>. HIDE DEF out
<1>6. y \in Handler
  BY <1>3, <1>5 DEF Handler
<1>7. /\ y.status = z.status /\ y.up = z.up /\ y.stream = z.stream /\ y.events = z.events
      /\ y.log = z.log /\ y.passed = z.passed /\ y.source = z.source /\ y.hook = z.hook
      /\ y.out = out
  BY <1>3 DEF Handler
<1>. QED BY <1>2, <1>4, <1>5, <1>6, <1>7

\* The next event is offered to its hook, or is too long.
LEMMA OfferedGood ==
    ASSUME NEW p, NEW x, Sound(p, x), Looping(x),
           x.pending # <<>>, HasBoundary(x.pending) \/ x.up = "ended"
    PROVE  Good(p, Offered(x))
<1>1. x.at # "settled"
  BY DEF Looping
<1>2. Good(p, Failed(Cut(x), 502))
  <2>1. Sound(p, Cut(x)) /\ Cut(x).at # "settled" /\ ~Open(Cut(x))
    BY <1>1, CutGood
  <2>. QED BY <2>1, FailedGood
<1>. DEFINE y == [x EXCEPT !.at = "event"]
<1>3. Good(p, y)
  <2>1. x \in Handler /\ "event" \in Stages
    BY Names DEF Good, Sound
  <2>2. y \in Handler
    BY <2>1 DEF Handler
  <2>3. /\ y.up = x.up /\ y.at = "event" /\ y.timer = x.timer /\ y.stream = x.stream
        /\ y.wire = x.wire
        /\ y.status = x.status /\ y.out = x.out /\ y.source = x.source /\ y.pending = x.pending
        /\ y.passed = x.passed /\ y.events = x.events /\ y.hook = x.hook /\ y.log = x.log
    BY <2>1 DEF Handler
  <2>. HIDE DEF y
  <2>4. TimersFit(y) /\ ProgressFits(y) /\ EndFits(p, y)
    BY <2>3 DEF Good, Sound, TimersFit, ProgressFits, Abandoned, Looping, Unanswered, EndFits
  <2>5. BytesFit(p, y) /\ Offers(y)
    BY <1>1, <2>3 DEF Good, Sound, BytesFit, Dumped, Offers, Unanswered
  <2>6. LogFits(y)
    BY <1>1, <2>3 DEF Good, Sound, LogFits
  <2>. QED BY <2>2, <2>4, <2>5, <2>6 DEF Good, Sound
<1>. QED BY <1>2, <1>3 DEF Offered

\* The loop of a stream goes on.
LEMMA LoopGood ==
    ASSUME NEW p, NEW x, Sound(p, x), Looping(x), NEW at \in {"streaming", "draining"}
    PROVE  LET y == [x EXCEPT !.at = at] IN Good(p, y) /\ Looping(y)
<1>. DEFINE y == [x EXCEPT !.at = at]
<1>1. x \in Handler /\ at \in Stages
  BY Names DEF Good, Sound
<1>2. y \in Handler
  BY <1>1 DEF Handler
<1>3. /\ y.up = x.up /\ y.at = at /\ y.timer = x.timer /\ y.stream = x.stream /\ y.wire = x.wire
      /\ y.status = x.status /\ y.out = x.out /\ y.source = x.source /\ y.pending = x.pending
      /\ y.passed = x.passed /\ y.events = x.events /\ y.hook = x.hook /\ y.log = x.log
  BY <1>1 DEF Handler
<1>. HIDE DEF y
<1>4. TimersFit(y) /\ ProgressFits(y) /\ EndFits(p, y) /\ Looping(y)
  BY <1>3 DEF Good, Sound, TimersFit, ProgressFits, Abandoned, Looping, Unanswered, EndFits
<1>5. BytesFit(p, y) /\ Offers(y)
  BY <1>3 DEF Good, Sound, BytesFit, Dumped, Offers, Unanswered, Looping
<1>6. LogFits(y)
  BY <1>3 DEF Good, Sound, LogFits, Looping
<1>. QED BY <1>2, <1>4, <1>5, <1>6 DEF Good, Sound, y

LEMMA ResumedGood ==
    ASSUME NEW p, NEW x, Sound(p, x), Looping(x) PROVE Good(p, Resumed(x))
BY OfferedGood, LoopGood, NoBoundary DEF Resumed

-------------------------------------------------------------------------------
(* Each action of a handler keeps it good.                                 *)

LEMMA DecidedDecisions ==
    ASSUME NEW stage, NEW d \in Decided(stage) PROVE d \in Decisions \cup {"none"}
BY DEF Decided, CliDecision, Decisions

LEMMA OneHandler ==
    ASSUME HandlersInv, NEW r \in Requests, NEW y, Good(phase, y), Becomes(r, y)
    PROVE  HandlersInv'
<1>1. /\ h' = [h EXCEPT ![r] = y] /\ phase' = phase /\ y \in Handler
      /\ h \in [Requests -> Handler]
  BY DEF Becomes, HandlersInv, Good, Sound
<1>2. h' \in [Requests -> Handler] /\ h'[r] = y /\ \A q \in Requests : q # r => h'[q] = h[q]
  BY <1>1
<1>3. \A q \in Requests : Good(phase, h'[q])
  BY <1>2 DEF HandlersInv
<1>. QED BY <1>1, <1>2, <1>3 DEF HandlersInv

LEMMA Refusal ==
    ASSUME NEW p, NEW x, Good(p, x), x.at = "new",
           NEW status, status = 404 \/ status = 503
    PROVE  Good(p, [x EXCEPT !.conn = "open", !.at = "settled", !.out = "ended",
                             !.status = status])
<1>. DEFINE y == [x EXCEPT !.conn = "open", !.at = "settled", !.out = "ended", !.status = status]
<1>1. /\ x \in Handler /\ "settled" \in Stages /\ "open" \in Connections /\ "ended" \in Sent
      /\ status \in Statuses /\ status # 200
  BY Names DEF Good, Sound, Statuses
<1>2. y \in Handler
  BY <1>1, ZenonT(60) DEF Handler
<1>3. /\ y.up = x.up /\ y.at = "settled" /\ y.timer = x.timer /\ y.stream = x.stream
      /\ y.status = status /\ y.events = x.events /\ y.hook = x.hook /\ y.log = x.log /\ x.log = <<>>
  BY <1>1 DEF Handler, Good, Sound, LogFits
<1>. HIDE DEF y
<1>4. TimersFit(y) /\ ProgressFits(y) /\ EndFits(p, y)
  BY <1>1, <1>3 DEF Good, Sound, TimersFit, ProgressFits, Abandoned, Open, Looping, Unanswered, EndFits
<1>5. BytesFit(p, y) /\ Offers(y)
  BY <1>3 DEF Good, Sound, BytesFit, Dumped, Offers, Unanswered
<1>6. LogFits(y)
  BY <1>3 DEF LogFits
<1>. QED BY <1>2, <1>4, <1>5, <1>6 DEF Good, Sound, y

LEMMA BodyGood ==
    ASSUME NEW p, NEW x, Good(p, x), x.at = "new"
    PROVE  LET y == [x EXCEPT !.conn = "open", !.log = <<"request">>, !.at = "body", !.timer = "body"]
           IN  Good(p, y) /\ y.at = "body"
<1>. DEFINE y == [x EXCEPT !.conn = "open", !.log = <<"request">>, !.at = "body", !.timer = "body"]
<1>1. /\ x \in Handler /\ "body" \in Stages /\ "body" \in Timers /\ "open" \in Connections
  BY Names DEF Good, Sound
<1>2. <<"request">> \in Seq(Entries) /\ DOMAIN <<"request">> = {1} /\ <<"request">>[1] = "request"
  BY DEF Entries
<1>3. y \in Handler
  BY <1>1, <1>2, ZenonT(60) DEF Handler
<1>4. /\ y.up = x.up /\ y.at = "body" /\ y.timer = "body" /\ y.stream = x.stream /\ y.wire = x.wire
      /\ y.status = x.status /\ y.out = x.out /\ y.source = x.source /\ y.pending = x.pending
      /\ y.passed = x.passed /\ y.events = x.events /\ y.hook = x.hook /\ y.log = <<"request">>
  BY <1>1 DEF Handler
<1>. HIDE DEF y
<1>5. TimersFit(y) /\ ProgressFits(y) /\ EndFits(p, y)
  BY <1>4 DEF Good, Sound, TimersFit, ProgressFits, Abandoned, Looping, Unanswered, EndFits
<1>6. BytesFit(p, y) /\ Offers(y)
  BY <1>4 DEF Good, Sound, BytesFit, Dumped, Offers, Unanswered
<1>7. LogFits(y)
  BY <1>2, <1>4 DEF LogFits, Outcomes
<1>. QED BY <1>3, <1>4, <1>5, <1>6, <1>7 DEF Good, Sound, y

LEMMA OpenedGood ==
    ASSUME NEW x, Good(phase, x), x.at = "body"
    PROVE  Good(phase, Opened(x))
<1>. DEFINE closing == phase # "up"
            y == [x EXCEPT !.at = "connecting", !.up = "pending", !.timer = "total",
                           !.closing = closing]
<1>1. /\ x \in Handler /\ "connecting" \in Stages /\ "total" \in Timers
      /\ "pending" \in Upstreams /\ closing \in BOOLEAN /\ Opened(x) = y
  BY Names DEF Good, Sound, Opened
<1>. HIDE DEF closing
<1>2. y \in Handler
  BY <1>1, ZenonT(60) DEF Handler
<1>3. /\ y.up = "pending" /\ y.at = "connecting" /\ y.timer = "total" /\ y.stream = x.stream
      /\ y.wire = x.wire
      /\ y.status = x.status /\ y.out = x.out /\ y.source = x.source /\ y.pending = x.pending
      /\ y.passed = x.passed /\ y.events = x.events /\ y.hook = x.hook /\ y.log = x.log
  BY <1>1 DEF Handler
<1>. HIDE DEF y
<1>4. TimersFit(y) /\ ProgressFits(y) /\ EndFits(phase, y)
  BY <1>3 DEF Good, Sound, TimersFit, ProgressFits, Abandoned, Looping, Unanswered, EndFits
<1>5. BytesFit(phase, y) /\ Offers(y)
  BY <1>3 DEF Good, Sound, BytesFit, Dumped, Offers, Unanswered, ProgressFits
<1>6. LogFits(y)
  BY <1>3 DEF Good, Sound, LogFits
<1>. QED BY <1>1, <1>2, <1>4, <1>5, <1>6 DEF Good, Sound

LEMMA TotalTimeoutGood ==
    ASSUME NEW p, NEW x, Good(p, x), x.timer = "total"
    PROVE  Good(p, Cut([x EXCEPT !.late = TRUE, !.timer = "none"]))
<1>. DEFINE up == IF Open(x) THEN "broken" ELSE x.up
            y == [x EXCEPT !.late = TRUE, !.timer = "none", !.up = up]
<1>1. x \in Handler /\ "none" \in Timers /\ up \in Upstreams
  BY Fields, Names DEF Good, Sound
<1>2. Cut([x EXCEPT !.late = TRUE, !.timer = "none"]) = y
  <2>. DEFINE z == [x EXCEPT !.late = TRUE, !.timer = "none"]
  <2>1. z.up = x.up
    BY <1>1 DEF Handler
  <2>. QED BY <2>1 DEF Cut, Open
<1>3. (up = x.up /\ ~Open(x)) \/ (Open(x) /\ up = "broken")
  OBVIOUS
<1>. HIDE DEF up
<1>4. y \in Handler
  BY <1>1, ZenonT(60) DEF Handler
<1>5. /\ y.up = up /\ y.at = x.at /\ y.timer = "none" /\ y.stream = x.stream /\ y.wire = x.wire
      /\ y.status = x.status /\ y.out = x.out /\ y.source = x.source /\ y.pending = x.pending
      /\ y.passed = x.passed /\ y.events = x.events /\ y.hook = x.hook /\ y.log = x.log
  BY <1>1 DEF Handler
<1>. HIDE DEF y
<1>6. TimersFit(y)
  BY <1>3, <1>5 DEF Good, Sound, TimersFit, Looping, Open
<1>7. ProgressFits(y)
  BY <1>3, <1>5 DEF Good, Sound, ProgressFits, Abandoned, Looping, Unanswered, Open
<1>8. BytesFit(p, y) /\ Offers(y)
  BY <1>3, <1>5 DEF Good, Sound, BytesFit, Dumped, Offers, Unanswered, Open
<1>9. EndFits(p, y) /\ LogFits(y)
  BY <1>3, <1>5 DEF Good, Sound, EndFits, LogFits, Open
<1>. QED BY <1>2, <1>4, <1>6, <1>7, <1>8, <1>9 DEF Good, Sound

\* The upstream responds: the handler knows which kind of response it is.
LEMMA RespondsGood ==
    ASSUME NEW p, NEW x, Good(p, x), x.at = "connecting", x.up = "pending",
           NEW stream \in BOOLEAN
    PROVE  LET z == [x EXCEPT !.up = "flowing", !.log = Append(@, "upstream_response")] IN
           IF stream THEN Good(p, [z EXCEPT !.at = "hook", !.stream = TRUE, !.timer = "none"])
           ELSE Good(p, [z EXCEPT !.at = "collecting"])
<1>. DEFINE log == Append(x.log, "upstream_response")
            z == [x EXCEPT !.up = "flowing", !.log = Append(@, "upstream_response")]
            u == [x EXCEPT !.up = "flowing", !.log = log]
<1>1. x \in Handler /\ x.log \in Seq(Entries) /\ "upstream_response" \in Entries
  BY Fields DEF Good, Sound, Entries
<1>2. /\ log \in Seq(Entries) /\ log # <<>> /\ \A i \in DOMAIN log : log[i] \notin Outcomes
  <2>1. /\ log \in Seq(Entries) /\ log # <<>> /\ Len(log) = Len(x.log) + 1
        /\ log[Len(log)] = "upstream_response"
        /\ DOMAIN x.log = 1..Len(x.log) /\ Len(x.log) \in Nat /\ DOMAIN log = 1..Len(log)
        /\ \A i \in 1..Len(x.log) : log[i] = x.log[i]
    BY <1>1, AppendProperties
  <2>2. \A i \in DOMAIN x.log : x.log[i] \notin Outcomes
    BY DEF Good, Sound, LogFits
  <2>. HIDE DEF log
  <2>. QED BY <2>1, <2>2 DEF Outcomes
<1>3. z = u
  BY <1>1
<1>. HIDE DEF log
<1>4. u \in Handler
  <2>1. "flowing" \in Upstreams
    BY Names
  <2>. QED BY <1>1, <1>2, <2>1 DEF Handler
<1>5. /\ u.up = "flowing" /\ u.at = x.at /\ u.timer = x.timer /\ u.stream = x.stream
      /\ u.wire = x.wire
      /\ u.status = x.status /\ u.out = x.out /\ u.source = x.source /\ u.pending = x.pending
      /\ u.passed = x.passed /\ u.events = x.events /\ u.hook = x.hook /\ u.log = log
  BY <1>1 DEF Handler
<1>. HIDE DEF u
<1>6. ASSUME NEW y, y = [u EXCEPT !.at = "hook", !.stream = TRUE, !.timer = "none"]
      PROVE  Good(p, y)
  <2>1. y \in Handler
    <3>1. "hook" \in Stages /\ "none" \in Timers
      BY Names
    <3>. QED BY <1>4, <1>6, <3>1 DEF Handler
  <2>2. /\ y.up = "flowing" /\ y.at = "hook" /\ y.timer = "none" /\ y.stream = TRUE
        /\ y.wire = x.wire
        /\ y.status = x.status /\ y.out = x.out /\ y.source = x.source /\ y.pending = x.pending
        /\ y.passed = x.passed /\ y.events = x.events /\ y.hook = x.hook /\ y.log = log
    BY <1>4, <1>5, <1>6 DEF Handler
  <2>3. TimersFit(y) /\ ProgressFits(y) /\ EndFits(p, y)
    BY <2>2 DEF Good, Sound, TimersFit, ProgressFits, Abandoned, Looping, Unanswered, EndFits
  <2>4. BytesFit(p, y) /\ Offers(y)
    BY <2>2 DEF Good, Sound, BytesFit, Dumped, Offers, ProgressFits, Abandoned, Unanswered
  <2>5. LogFits(y)
    BY <1>2, <2>2 DEF LogFits
  <2>. QED BY <2>1, <2>3, <2>4, <2>5 DEF Good, Sound
<1>7. ASSUME NEW y, y = [u EXCEPT !.at = "collecting"] PROVE Good(p, y)
  <2>1. y \in Handler
    <3>1. "collecting" \in Stages
      BY Names
    <3>. QED BY <1>4, <1>7, <3>1 DEF Handler
  <2>2. /\ y.up = "flowing" /\ y.at = "collecting" /\ y.timer = x.timer /\ y.stream = x.stream
        /\ y.wire = x.wire
        /\ y.status = x.status /\ y.out = x.out /\ y.source = x.source /\ y.pending = x.pending
        /\ y.passed = x.passed /\ y.events = x.events /\ y.hook = x.hook /\ y.log = log
    BY <1>4, <1>5, <1>7 DEF Handler
  <2>3. TimersFit(y) /\ ProgressFits(y) /\ EndFits(p, y)
    BY <2>2 DEF Good, Sound, TimersFit, ProgressFits, Abandoned, Looping, Unanswered, EndFits, Open
  <2>4. BytesFit(p, y) /\ Offers(y)
    BY <2>2 DEF Good, Sound, BytesFit, Dumped, Offers, ProgressFits, Abandoned, Unanswered
  <2>5. LogFits(y)
    BY <1>2, <2>2 DEF LogFits
  <2>. QED BY <2>1, <2>3, <2>4, <2>5 DEF Good, Sound
<1>. QED BY <1>3, <1>6, <1>7

LEMMA SendsGood ==
    ASSUME NEW p, NEW x, Good(p, x), x.up = "flowing", x.at # "settled", x.wire = <<>>,
           NEW c \in Chunks
    PROVE  Good(p, [x EXCEPT !.wire = c, !.source = @ \o c])
<1>. DEFINE source == x.source \o c
            y == [x EXCEPT !.wire = c, !.source = source]
<1>1. x \in Handler /\ c \in Bytes
  BY HttpAssumption DEF Good, Sound
<1>2. [x EXCEPT !.wire = c, !.source = @ \o c] = y
  BY <1>1
<1>3. /\ x.source \in Bytes /\ x.passed \in Bytes /\ x.pending \in Bytes /\ source \in Bytes
      /\ x.passed \o x.pending \in Bytes
  BY <1>1, Fields, ConcatProperties DEF Bytes
<1>4. x.passed \o x.pending \o c = source
  <2>1. x.passed \o x.pending \o <<>> = x.source
    BY DEF Good, Sound, BytesFit, Dumped
  <2>2. x.passed \o x.pending = x.source
    BY <1>3, <2>1, ConcatEmptySeq DEF Bytes
  <2>. QED BY <2>2
<1>. HIDE DEF source
<1>5. y \in Handler
  BY <1>1, <1>3, ZenonT(60) DEF Handler
<1>6. /\ y.up = x.up /\ y.at = x.at /\ y.timer = x.timer /\ y.stream = x.stream /\ y.wire = c
      /\ y.status = x.status /\ y.out = x.out /\ y.source = source /\ y.pending = x.pending
      /\ y.passed = x.passed /\ y.events = x.events /\ y.hook = x.hook /\ y.log = x.log
  BY <1>1 DEF Handler
<1>. HIDE DEF y
<1>7. TimersFit(y) /\ ProgressFits(y) /\ EndFits(p, y)
  BY <1>6 DEF Good, Sound, TimersFit, ProgressFits, Abandoned, Looping, Unanswered, EndFits, Open
<1>8. BytesFit(p, y) /\ Offers(y)
  BY <1>4, <1>6 DEF Good, Sound, BytesFit, Dumped, Offers, ProgressFits, Abandoned, Unanswered
<1>9. LogFits(y)
  BY <1>6 DEF Good, Sound, LogFits
<1>. QED BY <1>2, <1>5, <1>7, <1>8, <1>9 DEF Good, Sound

LEMMA UpstreamEndsGood ==
    ASSUME NEW p, NEW x, Good(p, x), x.up = "flowing"
    PROVE  Good(p, [x EXCEPT !.up = "ended"])
<1>. DEFINE y == [x EXCEPT !.up = "ended"]
<1>1. x \in Handler
  BY DEF Good, Sound
<1>2. y \in Handler
  <2>1. "ended" \in Upstreams
    BY Names
  <2>. QED BY <1>1, <2>1 DEF Handler
<1>3. /\ y.up = "ended" /\ y.at = x.at /\ y.timer = x.timer /\ y.stream = x.stream /\ y.wire = x.wire
      /\ y.status = x.status /\ y.out = x.out /\ y.source = x.source /\ y.pending = x.pending
      /\ y.passed = x.passed /\ y.events = x.events /\ y.hook = x.hook /\ y.log = x.log
  BY <1>1 DEF Handler
<1>. HIDE DEF y
<1>4. TimersFit(y) /\ ProgressFits(y) /\ EndFits(p, y)
  BY <1>3 DEF Good, Sound, TimersFit, ProgressFits, Abandoned, Looping, Unanswered, EndFits, Open
<1>5. BytesFit(p, y) /\ Offers(y)
  BY <1>3 DEF Good, Sound, BytesFit, Dumped, Offers, Unanswered
<1>6. LogFits(y)
  BY <1>3 DEF Good, Sound, LogFits
<1>. QED BY <1>2, <1>4, <1>5, <1>6 DEF Good, Sound, y

\* Bytes move from the wire to what is pending.
LEMMA Moved ==
    ASSUME NEW p, NEW x, Good(p, x)
    PROVE  LET all == x.pending \o x.wire IN
           /\ all \in Bytes
           /\ x.passed \o x.pending \o x.wire = x.source => x.passed \o all \o <<>> = x.source
<1>1. x.passed \in Bytes /\ x.pending \in Bytes /\ x.wire \in Bytes
  BY Fields DEF Good, Sound
<1>2. x.pending \o x.wire \in Bytes
  BY <1>1, ConcatProperties DEF Bytes
<1>3. x.passed \o x.pending \o x.wire = x.passed \o (x.pending \o x.wire)
  BY <1>1, Associative
<1>4. x.passed \o (x.pending \o x.wire) \in Bytes
  BY <1>1, <1>2, ConcatProperties DEF Bytes
<1>5. x.passed \o (x.pending \o x.wire) \o <<>> = x.passed \o (x.pending \o x.wire)
  BY <1>4, ConcatEmptySeq DEF Bytes
<1>. QED BY <1>2, <1>3, <1>5

LEMMA TakenGood ==
    ASSUME NEW p, NEW x, Good(p, x), x.at \in {"collecting", "streaming"},
           x.wire # <<>>, NEW y \in Handler,
           y.wire = <<>>, y.pending = x.pending \o x.wire,
           y.up = x.up, y.at = x.at, y.timer = x.timer, y.stream = x.stream, y.out = x.out,
           y.status = x.status, y.source = x.source, y.passed = x.passed,
           y.events = x.events, y.hook = x.hook, y.log = x.log
    PROVE  Good(p, y)
<1>1. x.passed \o x.pending \o x.wire = x.source => x.passed \o y.pending \o <<>> = x.source
  BY Moved
<1>2. TimersFit(y) /\ ProgressFits(y) /\ EndFits(p, y)
  BY DEF Good, Sound, TimersFit, ProgressFits, Abandoned, Looping, Unanswered, EndFits, Open
<1>3. BytesFit(p, y) /\ Offers(y)
  BY <1>1 DEF Good, Sound, BytesFit, Dumped, Offers, Unanswered
<1>4. LogFits(y)
  BY DEF Good, Sound, LogFits
<1>. QED BY <1>2, <1>3, <1>4 DEF Good, Sound

LEMMA CollectedGood ==
    ASSUME NEW p, NEW x, Good(p, x), x.at = "collecting", x.up = "ended", x.wire = <<>>
    PROVE  Good(p, [x EXCEPT !.at = "hook"])
<1>. DEFINE y == [x EXCEPT !.at = "hook"]
<1>1. x \in Handler /\ "hook" \in Stages
  BY Names DEF Good, Sound
<1>2. y \in Handler
  BY <1>1 DEF Handler
<1>3. /\ y.up = x.up /\ y.at = "hook" /\ y.timer = x.timer /\ y.stream = x.stream /\ y.wire = x.wire
      /\ y.status = x.status /\ y.out = x.out /\ y.source = x.source /\ y.pending = x.pending
      /\ y.passed = x.passed /\ y.events = x.events /\ y.hook = x.hook /\ y.log = x.log
  BY <1>1 DEF Handler
<1>. HIDE DEF y
<1>4. TimersFit(y) /\ ProgressFits(y) /\ EndFits(p, y)
  BY <1>3 DEF Good, Sound, TimersFit, ProgressFits, Abandoned, Looping, Unanswered, EndFits, Open
<1>5. BytesFit(p, y) /\ Offers(y)
  BY <1>3 DEF Good, Sound, BytesFit, Dumped, Offers, ProgressFits, Abandoned, Unanswered
<1>6. LogFits(y)
  BY <1>3 DEF Good, Sound, LogFits
<1>. QED BY <1>2, <1>4, <1>5, <1>6 DEF Good, Sound, y

LEMMA StreamBegins ==
    ASSUME NEW p, NEW x, Good(p, x), x.at = "hook", x.stream
    PROVE  Good(p, [Head200(x) EXCEPT !.at = "streaming", !.timer = "idle"])
<1>. DEFINE out == IF x.out = "destroyed" THEN x.out ELSE "head"
            y == [x EXCEPT !.status = 200, !.out = out, !.at = "streaming", !.timer = "idle"]
<1>1. /\ x \in Handler /\ "streaming" \in Stages /\ "idle" \in Timers /\ 200 \in Statuses
      /\ out \in Sent /\ out \in {"head", "destroyed"}
  BY Names DEF Good, Sound, Statuses
<1>2. [Head200(x) EXCEPT !.at = "streaming", !.timer = "idle"] = y
  BY <1>1 DEF Head200
<1>. HIDE DEF out
<1>3. y \in Handler
  BY <1>1, ZenonT(60) DEF Handler
<1>4. /\ y.up = x.up /\ y.at = "streaming" /\ y.timer = "idle" /\ y.stream = x.stream
      /\ y.wire = x.wire
      /\ y.status = 200 /\ y.out = out /\ y.source = x.source /\ y.pending = x.pending
      /\ y.passed = x.passed /\ y.events = x.events /\ y.hook = x.hook /\ y.log = x.log
  BY <1>1 DEF Handler
<1>. HIDE DEF y
<1>5. TimersFit(y) /\ ProgressFits(y) /\ EndFits(p, y)
  BY <1>1, <1>4 DEF TimersFit, ProgressFits, Abandoned, Looping, Unanswered, EndFits
<1>6. BytesFit(p, y) /\ Offers(y)
  BY <1>4, ZenonT(60) DEF Good, Sound, BytesFit, Dumped, Offers, Unanswered
<1>7. LogFits(y)
  BY <1>4 DEF Good, Sound, LogFits
<1>. QED BY <1>2, <1>3, <1>5, <1>6, <1>7 DEF Good, Sound

\* The first event of what is pending has passed its hook.
LEMMA PassedGood ==
    ASSUME NEW p, NEW x, Good(p, x), x.at = "event"
    PROVE  LET event == EventIn(x.pending)
               y == [x EXCEPT !.pending = SubSeq(x.pending, Len(event) + 1, Len(x.pending)),
                              !.passed = x.passed \o event, !.events = x.events \cup {event}]
           IN  Sound(p, y) /\ y.at = "event" /\ y.out = x.out
<1>. DEFINE event == EventIn(x.pending)
            rest == SubSeq(x.pending, Len(event) + 1, Len(x.pending))
            passed == x.passed \o event
            events == x.events \cup {event}
            y == [x EXCEPT !.pending = rest, !.passed = passed, !.events = events]
<1>1. x \in Handler
  BY DEF Good, Sound
<1>2. x.passed \in Bytes /\ x.pending \in Bytes /\ x.wire \in Bytes /\ x.events \in SUBSET Bytes
  BY <1>1, Fields
<1>3. /\ event \in Bytes /\ rest \in Bytes /\ event \o rest = x.pending
      /\ HasBoundary(x.pending) => event = EventIn(event) /\ HasBoundary(event)
  BY <1>2, EventTaken
<1>. HIDE DEF event, rest
<1>4. passed \in Bytes /\ events \in SUBSET Bytes
  BY <1>2, <1>3, ConcatProperties DEF Bytes
<1>5. passed \o rest \o x.wire = x.passed \o x.pending \o x.wire
  <2>1. (x.passed \o event) \o rest = x.passed \o (event \o rest)
    BY <1>2, <1>3, Associative
  <2>. QED BY <1>3, <2>1
<1>6. x.stream /\ x.up # "ended" => \A e \in events : e = EventIn(e) /\ HasBoundary(e)
  BY <1>3 DEF Good, Sound, BytesFit, Dumped, Offers
<1>. HIDE DEF passed, events
<1>7. y \in Handler
  BY <1>1, <1>3, <1>4, ZenonT(60) DEF Handler
<1>8. /\ y.up = x.up /\ y.at = "event" /\ y.timer = x.timer /\ y.stream = x.stream /\ y.wire = x.wire
      /\ y.status = x.status /\ y.out = x.out /\ y.source = x.source /\ y.pending = rest
      /\ y.passed = passed /\ y.events = events /\ y.hook = x.hook /\ y.log = x.log
  BY <1>1 DEF Handler
<1>. HIDE DEF y
<1>10. TimersFit(y) /\ ProgressFits(y) /\ EndFits(p, y)
  BY <1>8 DEF Good, Sound, TimersFit, ProgressFits, Abandoned, Looping, Unanswered, EndFits
<1>11. BytesFit(p, y)
  BY <1>5, <1>6, <1>8 DEF Good, Sound, BytesFit, Dumped, Offers, Unanswered
<1>12. LogFits(y)
  BY <1>8 DEF Good, Sound, LogFits
<1>. QED BY <1>7, <1>8, <1>10, <1>11, <1>12 DEF Good, Sound, y, event, rest, passed, events

\* A close of the proxy asks less of a handler, and may lose what nobody reads.
LEMMA ClosingGood ==
    ASSUME NEW p, NEW x, Good(p, x), NEW q, q # "up"
    PROVE  /\ Good(q, x)
           /\ x.at = "hook" /\ x.stream /\ x.up = "ended" => Good(q, [x EXCEPT !.wire = <<>>])
<1>1. Good(q, x)
  BY DEF Good, Sound, BytesFit, Dumped, Offers, EndFits
<1>2. ASSUME x.at = "hook", x.stream, x.up = "ended", NEW y, y = [x EXCEPT !.wire = <<>>] PROVE Good(q, y)
  <2>1. x \in Handler /\ <<>> \in Bytes
    BY EmptySeq DEF Good, Sound, Bytes
  <2>2. y \in Handler
    BY <1>2, <2>1 DEF Handler
  <2>3. /\ y.up = x.up /\ y.at = x.at /\ y.timer = x.timer /\ y.stream = x.stream /\ y.wire = <<>>
        /\ y.status = x.status /\ y.out = x.out /\ y.source = x.source /\ y.pending = x.pending
        /\ y.passed = x.passed /\ y.events = x.events /\ y.hook = x.hook /\ y.log = x.log
    BY <1>2, <2>1 DEF Handler
  <2>4. TimersFit(y) /\ ProgressFits(y) /\ EndFits(q, y)
    BY <1>2, <2>3 DEF Good, Sound, TimersFit, ProgressFits, Abandoned, Looping, Unanswered, EndFits, Open
  <2>5. BytesFit(q, y) /\ Offers(y)
    BY <1>2, <2>3 DEF Good, Sound, BytesFit, Dumped, Offers, Unanswered
  <2>6. LogFits(y)
    BY <1>2, <2>3 DEF Good, Sound, LogFits
  <2>. QED BY <2>2, <2>4, <2>5, <2>6 DEF Good, Sound
<1>. QED BY <1>1, <1>2

-------------------------------------------------------------------------------
(* Every step keeps the invariant.                                         *)

LEMMA ArrivesStep ==
    ASSUME HandlersInv, NEW r \in Requests,
           Refuses(r) \/ Accepts(r) \/ BodyEnds(r) \/ BodyRefused(r) \/ BodyTimesOut(r)
    PROVE  HandlersInv'
<1>. DEFINE x == h[r]
<1>1. Good(phase, x) /\ Sound(phase, x) /\ x \in Handler
  BY DEF HandlersInv, Good, Sound
<1>2. CASE Refuses(r)
  <2>1. PICK status : (status = 404 \/ status = 503) /\
           Becomes(r, [x EXCEPT !.conn = "open", !.at = "settled", !.out = "ended",
                                !.status = status])
    BY <1>2, ZenonT(60) DEF Refuses
  <2>2. x.at = "new"
    BY <1>2 DEF Refuses, Arriving
  <2>3. Good(phase, [x EXCEPT !.conn = "open", !.at = "settled", !.out = "ended",
                              !.status = status])
    <3>. HIDE DEF x
    <3>. QED BY <1>1, <2>1, <2>2, Refusal, Zenon
  <2>. QED BY <2>1, <2>3, OneHandler
<1>3. CASE Accepts(r)
  <2>. DEFINE z == [x EXCEPT !.conn = "open", !.log = <<"request">>]
              b == [x EXCEPT !.conn = "open", !.log = <<"request">>, !.at = "body", !.timer = "body"]
  <2>1. x.at = "new"
    BY <1>3 DEF Accepts, Arriving
  <2>2. Good(phase, b) /\ b.at = "body"
    BY <1>1, <2>1, BodyGood
  <2>3. Good(phase, Opened(b))
    BY <2>2, OpenedGood
  <2>4. [z EXCEPT !.at = "body", !.timer = "body"] = b
    BY <1>1
  <2>5. Opened(z) = Opened(b)
    BY <1>1 DEF Opened
  <2>6. Becomes(r, Opened(z)) \/ Becomes(r, [z EXCEPT !.at = "body", !.timer = "body"])
    BY <1>3 DEF Accepts
  <2>7. Becomes(r, Opened(b)) \/ Becomes(r, b)
    BY <2>4, <2>5, <2>6
  <2>. HIDE DEF b
  <2>8. CASE Becomes(r, Opened(b))
    BY <2>3, <2>8, OneHandler
  <2>9. CASE Becomes(r, b)
    BY <2>2, <2>9, OneHandler
  <2>. QED BY <2>7, <2>8, <2>9
<1>4. CASE BodyEnds(r)
  BY <1>1, <1>4, OpenedGood, OneHandler DEF BodyEnds
<1>5. CASE BodyRefused(r)
  <2>1. x.at = "body" /\ \E status \in {400, 408, 413, 415, 502} : Becomes(r, Failed(x, status))
    BY <1>5 DEF BodyRefused
  <2>2. Sound(phase, x) /\ ~Open(x)
    BY <1>1, <2>1 DEF Good, Sound, ProgressFits, Open
  <2>. QED BY <2>1, <2>2, FailedGood, OneHandler
<1>6. CASE BodyTimesOut(r)
  <2>1. Becomes(r, Failed(x, 408)) /\ x.at = "body"
    BY <1>1, <1>6 DEF BodyTimesOut, Good, Sound, TimersFit
  <2>2. Sound(phase, x) /\ ~Open(x)
    BY <1>1, <2>1 DEF Good, Sound, ProgressFits, Open
  <2>. QED BY <2>1, <2>2, FailedGood, OneHandler
<1>. QED BY <1>2, <1>3, <1>4, <1>5, <1>6

LEMMA ClientLeavesStep ==
    ASSUME HandlersInv, NEW r \in Requests, ClientLeaves(r) PROVE HandlersInv'
<1>. DEFINE x == h[r]
            out == IF x.out = "ended" THEN x.out ELSE "destroyed"
            gone == [x EXCEPT !.conn = "closed", !.out = IF @ = "ended" THEN @ ELSE "destroyed"]
            y == [x EXCEPT !.conn = "closed", !.out = out]
<1>1. Good(phase, x) /\ Sound(phase, x) /\ x \in Handler /\ "closed" \in Connections
  BY Names DEF HandlersInv, Good, Sound
<1>2. gone = y
  BY <1>1
<1>3. out = "destroyed" \/ (out = "ended" /\ x.out = "ended")
  OBVIOUS
<1>4. Good(phase, y) /\ Sound(phase, y) /\ y.at = x.at
  <2>1. out \in Sent
    BY <1>3 DEF Sent
  <2>. HIDE DEF out
  <2>2. y \in Handler
    BY <1>1, <2>1, ZenonT(60) DEF Handler
  <2>3. /\ y.up = x.up /\ y.at = x.at /\ y.timer = x.timer /\ y.stream = x.stream
        /\ y.wire = x.wire /\ y.status = x.status /\ y.source = x.source
        /\ y.pending = x.pending /\ y.passed = x.passed /\ y.events = x.events
        /\ y.hook = x.hook /\ y.log = x.log /\ y.out = out
    BY <1>1 DEF Handler
  <2>. HIDE DEF y, x
  <2>. QED BY <1>1, <1>3, <2>2, <2>3, DestroyedGood DEF Good
<1>5. Becomes(r, CASE x.at = "body" -> Failed(gone, 502)
                   [] Active(x) -> Cut(gone)
                   [] OTHER -> gone)
  BY DEF ClientLeaves
<1>6. \/ x.at = "body" /\ Becomes(r, Failed(gone, 502))
      \/ Becomes(r, Cut(gone)) \/ Becomes(r, gone)
  <2>. HIDE DEF gone, y, out
  <2>1. x.at = "body" => ~Active(x)
    BY DEF Active
  <2>. QED BY <1>5, <2>1
<1>. HIDE DEF gone, y
<1>7. Good(phase, gone) /\ Sound(phase, gone) /\ gone.at = x.at
  BY <1>2, <1>4
<1>8. x.at = "body" => Good(phase, Failed(gone, 502))
  <2>1. x.at = "body" => ~Open(gone)
    BY <1>7 DEF Sound, ProgressFits, Open
  <2>. QED BY <1>7, <2>1, FailedGood
<1>. QED BY <1>6, <1>7, <1>8, CutGood, OneHandler

LEMMA TimersStep ==
    ASSUME HandlersInv, NEW r \in Requests, TotalTimeout(r) \/ IdleTimeout(r) PROVE HandlersInv'
<1>1. Good(phase, h[r]) /\ Sound(phase, h[r])
  BY DEF HandlersInv, Good
<1>2. CASE TotalTimeout(r)
  BY <1>1, <1>2, TotalTimeoutGood, OneHandler DEF TotalTimeout
<1>3. CASE IdleTimeout(r)
  BY <1>1, <1>3, CutGood, OneHandler DEF IdleTimeout
<1>. QED BY <1>2, <1>3

LEMMA UpstreamStep ==
    ASSUME HandlersInv, NEW r \in Requests,
           Responds(r) \/ Sends(r) \/ UpstreamEnds(r) \/ UpstreamBreaks(r) \/ UpstreamLost(r)
    PROVE  HandlersInv'
<1>. DEFINE x == h[r]
<1>1. Good(phase, x) /\ Sound(phase, x) /\ x \in Handler
  BY DEF HandlersInv, Good, Sound
<1>2. CASE Responds(r)
  <2>. DEFINE z == [x EXCEPT !.up = "flowing", !.log = Append(@, "upstream_response")]
              whole == [z EXCEPT !.at = "collecting"]
              stream == [z EXCEPT !.at = "hook", !.stream = TRUE, !.timer = "none"]
  <2>1. x.at = "connecting" /\ x.up = "pending"
    BY <1>2 DEF Responds
  <2>2. Good(phase, whole) /\ Good(phase, stream)
    BY <1>1, <2>1, RespondsGood
  <2>3. whole.at = "collecting"
    BY <1>1 DEF Handler
  <2>4. Becomes(r, whole) \/ Becomes(r, Failed(Cut(whole), 502)) \/ Becomes(r, stream)
    BY <1>2 DEF Responds
  <2>. HIDE DEF whole, stream
  <2>5. Good(phase, Failed(Cut(whole), 502))
    <3>1. Sound(phase, Cut(whole)) /\ Cut(whole).at = "collecting" /\ ~Open(Cut(whole))
      BY <2>2, <2>3, CutGood DEF Good
    <3>. QED BY <3>1, FailedGood
  <2>. QED BY <2>2, <2>4, <2>5, OneHandler
<1>3. CASE Sends(r)
  BY <1>1, <1>3, SendsGood, OneHandler DEF Sends
<1>4. CASE UpstreamEnds(r)
  BY <1>1, <1>4, UpstreamEndsGood, OneHandler DEF UpstreamEnds
<1>5. CASE UpstreamBreaks(r)
  BY <1>1, <1>5, CutGood, OneHandler DEF UpstreamBreaks
<1>6. CASE UpstreamLost(r)
  <2>1. x.at # "settled" /\ ~Open(x) /\ Becomes(r, Failed(x, 502))
    BY <1>6 DEF UpstreamLost, Open
  <2>2. Sound(phase, x)
    BY <1>1 DEF Good
  <2>. QED BY <2>1, <2>2, FailedGood, OneHandler
<1>. QED BY <1>2, <1>3, <1>4, <1>5, <1>6

LEMMA CollectsStep ==
    ASSUME HandlersInv, NEW r \in Requests, Collects(r) \/ Collected(r) PROVE HandlersInv'
<1>. DEFINE x == h[r]
<1>1. Good(phase, x) /\ x \in Handler
  BY DEF HandlersInv, Good, Sound
<1>2. CASE Collects(r)
  <2>. DEFINE body == x.pending \o x.wire
              y == [x EXCEPT !.wire = <<>>, !.pending = body]
  <2>1. x.at = "collecting" /\ x.wire # <<>> /\ (Becomes(r, Failed(Cut(y), 502)) \/ Becomes(r, y))
    BY <1>2 DEF Collects
  <2>2. body \in Bytes /\ <<>> \in Bytes
    BY <1>1, Moved, EmptySeq DEF Bytes
  <2>. HIDE DEF body
  <2>3. y \in Handler
    BY <1>1, <2>2, ZenonT(60) DEF Handler
  <2>4. /\ y.wire = <<>> /\ y.pending = body
        /\ y.up = x.up /\ y.at = x.at /\ y.timer = x.timer /\ y.stream = x.stream
        /\ y.out = x.out /\ y.status = x.status /\ y.source = x.source /\ y.passed = x.passed
        /\ y.events = x.events /\ y.hook = x.hook /\ y.log = x.log
    BY <1>1 DEF Handler
  <2>. HIDE DEF y, x
  <2>5. Good(phase, y)
    <3>1. y.pending = x.pending \o x.wire
      BY <2>4 DEF body
    <3>. QED BY <1>1, <2>1, <2>3, <2>4, <3>1, TakenGood
  <2>6. Good(phase, Failed(Cut(y), 502))
    <3>1. Sound(phase, Cut(y)) /\ Cut(y).at = "collecting" /\ ~Open(Cut(y))
      BY <2>1, <2>4, <2>5, CutGood DEF Good
    <3>. QED BY <3>1, FailedGood
  <2>. QED BY <2>1, <2>5, <2>6, OneHandler
<1>3. CASE Collected(r)
  BY <1>1, <1>3, CollectedGood, OneHandler DEF Collected
<1>. QED BY <1>2, <1>3

LEMMA WholeDecidedStep ==
    ASSUME HandlersInv, NEW r \in Requests, WholeDecided(r) PROVE HandlersInv'
<1>. DEFINE x == h[r]
<1>1. Good(phase, x) /\ x \in Handler /\ x.at = "hook" /\ ~x.stream
  BY DEF HandlersInv, Good, Sound, WholeDecided
<1>2. PICK d \in Decided("whole") :
         LET y == [x EXCEPT !.hook = d]
             all == [y EXCEPT !.pending = <<>>, !.passed = y.pending]
         IN  Becomes(r, CASE d \in {"too long", "throw"} -> Failed(y, 502)
                          [] d = "close" -> Completed(Destroyed(y))
                          [] OTHER -> Completed(Ended(Head200(all))))
  BY DEF WholeDecided
<1>. DEFINE y == [x EXCEPT !.hook = d]
            all == [y EXCEPT !.pending = <<>>, !.passed = y.pending]
<1>3. d \in Decisions \cup {"none"}
  BY DecidedDecisions
<1>4. Good(phase, y) /\ y.at = "hook" /\ y.status = 0 /\ y.stream = x.stream
  BY <1>1, <1>3, HookedGood
<1>5. \/ Becomes(r, Failed(y, 502)) \/ Becomes(r, Completed(Destroyed(y)))
      \/ Becomes(r, Completed(Ended(Head200(all))))
  BY <1>2
<1>6. Good(phase, Failed(y, 502)) /\ Good(phase, Completed(Destroyed(y)))
  <2>. HIDE DEF y
  <2>1. ~Open(y)
    BY <1>1, <1>4 DEF Good, Sound, ProgressFits, Abandoned, Open
  <2>. QED BY <1>4, <2>1, FailedGood, HookCloses DEF Good
<1>7. Good(phase, Completed(Ended(Head200(all))))
  <2>. HIDE DEF y
  <2>1. /\ y \in Handler /\ y.pending \in Bytes /\ <<>> \in Bytes
        /\ y.out \in {"unsent", "destroyed"}
    BY <1>4, Fields, EmptySeq DEF Good, Sound, ProgressFits, Abandoned, Unanswered, Bytes
  <2>2. y.up = "ended" /\ y.pending = y.source
    <3>1. y.up = "ended" /\ y.wire = <<>> /\ y.passed = <<>>
          /\ y.passed \o y.pending \o y.wire = y.source
      BY <1>1, <1>4 DEF Good, Sound, ProgressFits, Abandoned, BytesFit, Dumped, Unanswered
    <3>2. <<>> \o y.pending = y.pending /\ y.pending \o <<>> = y.pending
      BY <2>1, ConcatEmptySeq DEF Bytes
    <3>. QED BY <3>1, <3>2
  <2>3. all \in Handler
    BY <2>1, ZenonT(60) DEF Handler
  <2>4. /\ all.up = y.up /\ all.stream = y.stream /\ all.events = y.events /\ all.log = y.log
        /\ all.out = y.out /\ all.passed = y.pending /\ all.source = y.source
    BY <2>1 DEF Handler
  <2>. HIDE DEF all
  <2>. DEFINE z == Ended(Head200(all))
  <2>5. /\ z \in Handler /\ z.status = 200 /\ z.out \in {"ended", "destroyed"}
        /\ z.up = y.up /\ z.stream = y.stream /\ z.events = y.events /\ z.log = y.log
        /\ z.up = "ended" /\ z.passed = z.source
    BY <2>1, <2>2, <2>3, <2>4, EndedFields
  <2>. HIDE DEF z
  <2>6. Good(phase, Completed(z))
    <3>1. Sound(phase, y) /\ y.at # "settled"
      BY <1>4 DEF Good
    <3>2. z.out = "ended" /\ z.hook # "drop" =>
              z.up = "ended" /\ (z.passed = z.source \/ (phase # "up" /\ z.stream /\ z.passed = <<>>))
      BY <2>5
    <3>3. /\ z \in Handler /\ z.status = 200 /\ z.out \in {"ended", "destroyed"}
          /\ z.up = y.up /\ z.stream = y.stream /\ z.events = y.events /\ z.log = y.log
      BY <2>5
    <3>4. ~Open(z)
      BY <2>5 DEF Open
    <3>. HIDE DEF x
    <3>. QED BY <3>1, <3>2, <3>3, <3>4, EndedGood
  <2>. QED BY <2>6 DEF z
<1>. HIDE DEF y, all
<1>. QED BY <1>5, <1>6, <1>7, OneHandler

LEMMA StreamDecidedStep ==
    ASSUME HandlersInv, NEW r \in Requests, StreamDecided(r) PROVE HandlersInv'
<1>. DEFINE x == h[r]
<1>1. Good(phase, x) /\ x \in Handler /\ x.at = "hook" /\ x.stream
  BY DEF HandlersInv, Good, Sound, StreamDecided
<1>2. PICK d \in Decided("stream") :
         LET y == [x EXCEPT !.hook = d] IN
         Becomes(r, CASE d = "throw" -> Failed(y, 502)
                      [] d = "close" -> Completed(Cut(Destroyed(y)))
                      [] d = "drop" -> Completed(Ended(Head200(y)))
                      [] OTHER -> [Head200(y) EXCEPT !.at = "streaming", !.timer = "idle"])
  BY DEF StreamDecided
<1>. DEFINE y == [x EXCEPT !.hook = d]
            begun == [Head200(y) EXCEPT !.at = "streaming", !.timer = "idle"]
<1>3. d \in Decisions \cup {"none"}
  BY DecidedDecisions
<1>4. Good(phase, y) /\ y.at = "hook" /\ y.status = 0 /\ y.stream /\ y.hook = d
  <2>1. y.hook = d
    BY <1>1 DEF Handler
  <2>. QED BY <1>1, <1>3, <2>1, HookedGood
<1>5. \/ d = "throw" /\ Becomes(r, Failed(y, 502))
      \/ Becomes(r, Completed(Cut(Destroyed(y))))
      \/ d = "drop" /\ Becomes(r, Completed(Ended(Head200(y))))
      \/ Becomes(r, begun)
  BY <1>2
<1>6. /\ d = "throw" => Good(phase, Failed(y, 502))
      /\ Good(phase, Completed(Cut(Destroyed(y))))
  <2>. HIDE DEF y
  <2>. QED BY <1>4, FailedGood, HookCloses DEF Good, Abandoned
<1>7. ASSUME d = "drop" PROVE Good(phase, Completed(Ended(Head200(y))))
  <2>. HIDE DEF y
  <2>1. y \in Handler /\ y.out \in {"unsent", "destroyed"}
    BY <1>4 DEF Good, Sound, ProgressFits, Abandoned, Unanswered
  <2>. DEFINE z == Ended(Head200(y))
  <2>2. /\ z \in Handler /\ z.status = 200 /\ z.out \in {"ended", "destroyed"}
        /\ z.up = y.up /\ z.stream = y.stream /\ z.events = y.events /\ z.log = y.log
        /\ z.hook = "drop" /\ z.stream
    BY <1>4, <1>7, <2>1, EndedFields, ZenonT(60)
  <2>. HIDE DEF z
  <2>3. Good(phase, Completed(z))
    <3>1. Sound(phase, y) /\ y.at # "settled"
      BY <1>4 DEF Good
    <3>2. z.out = "ended" /\ z.hook # "drop" =>
              z.up = "ended" /\ (z.passed = z.source \/ (phase # "up" /\ z.stream /\ z.passed = <<>>))
      BY <2>2
    <3>3. Abandoned(z)
      BY <2>2 DEF Abandoned
    <3>. HIDE DEF x
    <3>. QED BY <2>2, <3>1, <3>2, <3>3, EndedGood
  <2>. QED BY <2>3 DEF z
<1>8. Good(phase, begun)
  <2>. HIDE DEF y
  <2>. QED BY <1>4, StreamBegins
<1>. HIDE DEF y, begun
<1>. QED BY <1>5, <1>6, <1>7, <1>8, OneHandler

LEMMA ChunksStep ==
    ASSUME HandlersInv, NEW r \in Requests, Takes(r) \/ StreamEnds(r) \/ Drains(r)
    PROVE  HandlersInv'
<1>. DEFINE x == h[r]
<1>1. Good(phase, x) /\ Sound(phase, x) /\ x \in Handler
  BY DEF HandlersInv, Good, Sound
<1>2. CASE Takes(r)
  <2>. DEFINE pending == x.pending \o x.wire
              total == x.total + Len(x.wire)
              y == [x EXCEPT !.wire = <<>>, !.pending = pending, !.total = total]
  <2>1. x.at = "streaming" /\ x.wire # <<>> /\ (Becomes(r, Failed(Cut(y), 502)) \/ Becomes(r, Resumed(y)))
    BY <1>2 DEF Takes
  <2>2. pending \in Bytes /\ <<>> \in Bytes /\ total \in Nat
    <3>1. x.wire \in Bytes /\ x.total \in Nat
      BY <1>1, Fields
    <3>2. pending \in Bytes
      BY <1>1, Moved
    <3>3. Len(x.wire) \in Nat
      BY <3>1 DEF Bytes
    <3>4. <<>> \in Bytes
      BY EmptySeq DEF Bytes
    <3>. QED BY <3>1, <3>2, <3>3, <3>4
  <2>. HIDE DEF pending, total
  <2>3. y \in Handler
    BY <1>1, <2>2, ZenonT(60) DEF Handler
  <2>4. /\ y.wire = <<>> /\ y.pending = pending
        /\ y.up = x.up /\ y.at = x.at /\ y.timer = x.timer /\ y.stream = x.stream
        /\ y.out = x.out /\ y.status = x.status /\ y.source = x.source /\ y.passed = x.passed
        /\ y.events = x.events /\ y.hook = x.hook /\ y.log = x.log
    BY <1>1 DEF Handler
  <2>. HIDE DEF y, x
  <2>5. Good(phase, y)
    <3>1. y.pending = x.pending \o x.wire
      BY <2>4 DEF pending
    <3>. QED BY <1>1, <2>1, <2>3, <2>4, <3>1, TakenGood
  <2>6. Good(phase, Failed(Cut(y), 502))
    <3>1. Sound(phase, Cut(y)) /\ Cut(y).at = "streaming" /\ ~Open(Cut(y))
      BY <2>1, <2>4, <2>5, CutGood DEF Good
    <3>. QED BY <3>1, FailedGood
  <2>7. Good(phase, Resumed(y))
    <3>1. Looping(y)
      BY <2>1, <2>4 DEF Looping
    <3>. QED BY <2>5, <3>1, ResumedGood DEF Good
  <2>. QED BY <2>1, <2>6, <2>7, OneHandler
<1>3. CASE StreamEnds(r)
  <2>1. x.at = "streaming" /\ x.up = "ended" /\ x.wire = <<>>
    BY <1>3 DEF StreamEnds
  <2>2. Looping(x)
    BY <2>1 DEF Looping
  <2>3. x.pending # <<>> => Good(phase, Offered(x))
    BY <1>1, <2>1, <2>2, OfferedGood
  <2>4. ASSUME x.pending = <<>> PROVE Good(phase, Completed(Ended(x)))
    <3>. DEFINE out == IF x.out = "destroyed" THEN x.out ELSE "ended"
                z == [x EXCEPT !.out = out]
    <3>1. Ended(x) = z /\ out \in Sent /\ out \in {"ended", "destroyed"}
      BY DEF Ended, Sent
    <3>. HIDE DEF out
    <3>2. z \in Handler
      BY <1>1, <3>1 DEF Handler
    <3>3. /\ z.up = x.up /\ z.stream = x.stream /\ z.events = x.events /\ z.log = x.log
          /\ z.passed = x.passed /\ z.source = x.source /\ z.hook = x.hook /\ z.out = out
          /\ z.status = x.status
      BY <1>1 DEF Handler
    <3>. HIDE DEF z
    <3>4. x.status = 200 /\ x.stream
      BY <1>1, <2>2 DEF Sound, ProgressFits, Abandoned
    <3>5. x.passed = x.source \/ (phase # "up" /\ x.passed = <<>>)
      <4>1. \/ x.passed \o <<>> \o <<>> = x.source
            \/ phase # "up" /\ x.passed = <<>>
        BY <1>1, <2>1, <2>4 DEF Sound, BytesFit, Dumped
      <4>2. x.passed \o <<>> = x.passed
        <5>1. x.passed \in Bytes
          BY <1>1, Fields
        <5>. QED BY <5>1, ConcatEmptySeq DEF Bytes
      <4>. QED BY <4>1, <4>2
    <3>6. Good(phase, Completed(z))
      <4>1. z.out = "ended" /\ z.hook # "drop" =>
                z.up = "ended" /\ (z.passed = z.source \/ (phase # "up" /\ z.stream /\ z.passed = <<>>))
        BY <2>1, <3>3, <3>4, <3>5
      <4>2. z.status = 200 /\ z.out \in {"ended", "destroyed"}
        BY <3>1, <3>3, <3>4
      <4>3. Sound(phase, x) /\ x.at # "settled" /\ ~Open(z)
        BY <1>1, <2>1, <3>3 DEF Open
      <4>. HIDE DEF x
      <4>. QED BY <3>2, <3>3, <4>1, <4>2, <4>3, EndedGood
    <3>. QED BY <3>1, <3>6
  <2>5. (x.pending # <<>> /\ Becomes(r, Offered(x))) \/ (x.pending = <<>> /\ Becomes(r, Completed(Ended(x))))
    BY <1>3 DEF StreamEnds
  <2>. QED BY <2>3, <2>4, <2>5, OneHandler
<1>4. CASE Drains(r)
  <2>1. Looping(x) /\ Becomes(r, Resumed(x))
    BY <1>4 DEF Drains, Looping
  <2>. QED BY <1>1, <2>1, ResumedGood, OneHandler
<1>. QED BY <1>2, <1>3, <1>4

LEMMA EventDecidedStep ==
    ASSUME HandlersInv, NEW r \in Requests, EventDecided(r) PROVE HandlersInv'
<1>. DEFINE x == h[r]
            event == EventIn(x.pending)
            y == [x EXCEPT !.pending = SubSeq(x.pending, Len(event) + 1, Len(x.pending)),
                           !.passed = x.passed \o event, !.events = x.events \cup {event}]
<1>1. Good(phase, x) /\ Sound(phase, x) /\ x \in Handler /\ x.at = "event"
  BY DEF HandlersInv, Good, Sound, EventDecided
<1>2. Sound(phase, y) /\ y.at = "event"
  BY <1>1, PassedGood
<1>3. [x EXCEPT !.pending = SubSeq(@, Len(event) + 1, Len(@)),
                !.passed = @ \o event, !.events = @ \cup {event}] = y
  OBVIOUS
<1>4. \/ Becomes(r, Failed(Cut(x), 502)) \/ Becomes(r, Completed(Cut(Destroyed(y))))
      \/ Becomes(r, Resumed(y)) \/ Becomes(r, [y EXCEPT !.at = "draining"])
  <2>1. PICK d \in Decided("event") :
           CASE d \in {"too long", "throw"} -> Becomes(r, Failed(Cut(x), 502))
             [] d = "close" -> Becomes(r, Completed(Cut(Destroyed(y))))
             [] d = "drop" -> Becomes(r, Resumed(y))
             [] OTHER -> \/ Becomes(r, Resumed(y))
                         \/ y.out = "head" /\ Becomes(r, [y EXCEPT !.at = "draining"])
    BY <1>3 DEF EventDecided
  <2>. HIDE DEF y, x
  <2>. QED BY <2>1
<1>5. Good(phase, Failed(Cut(x), 502))
  <2>1. Sound(phase, Cut(x)) /\ Cut(x).at = "event" /\ ~Open(Cut(x))
    BY <1>1, CutGood
  <2>. QED BY <2>1, FailedGood
<1>. HIDE DEF y
<1>6. Good(phase, Completed(Cut(Destroyed(y))))
  BY <1>2, HookCloses
<1>7. Good(phase, Resumed(y)) /\ Good(phase, [y EXCEPT !.at = "draining"])
  <2>1. Looping(y)
    BY <1>2 DEF Looping
  <2>. QED BY <1>2, <2>1, ResumedGood, LoopGood
<1>. QED BY <1>4, <1>5, <1>6, <1>7, OneHandler

LEMMA CloseStep ==
    ASSUME HandlersInv, CloseStarts \/ ConnectionsEnd \/ GraceEnds PROVE HandlersInv'
<1>1. \A r \in Requests : Good(phase, h[r]) /\ h[r] \in Handler
  BY DEF HandlersInv, Good, Sound
<1>2. CASE CloseStarts
  <2>1. PICK dumped \in SUBSET {r \in Requests : h[r].at = "hook" /\ h[r].stream /\ h[r].up = "ended"} :
           h' = [r \in Requests |->
                    IF ~Active(h[r]) THEN h[r]
                    ELSE [Cut(h[r]) EXCEPT !.wire = IF r \in dumped THEN <<>> ELSE @]]
    BY <1>2 DEF CloseStarts
  <2>2. phase' = "closing"
    BY <1>2 DEF CloseStarts
  <2>3. ASSUME NEW r \in Requests PROVE Good("closing", h'[r])
    <3>. DEFINE c == Cut(h[r])
    <3>1. Good(phase, c) /\ c.at = h[r].at
      BY <1>1, CutGood DEF Good
    <3>2. c \in Handler /\ c.stream = h[r].stream /\ (h[r].up = "ended" => c.up = "ended")
      BY <1>1, <3>1 DEF Cut, Open, Handler, Good, Sound
    <3>3. \/ h'[r] = h[r]
          \/ /\ r \in dumped
             /\ h'[r] = [c EXCEPT !.wire = <<>>]
          \/ h'[r] = [c EXCEPT !.wire = c.wire]
      BY <2>1
    <3>. HIDE DEF c
    <3>4. [c EXCEPT !.wire = c.wire] = c
      BY <3>2 DEF Handler
    <3>5. Good("closing", h[r]) /\ Good("closing", c)
      BY <1>1, <3>1, ClosingGood
    <3>6. r \in dumped => Good("closing", [c EXCEPT !.wire = <<>>])
      <4>1. r \in dumped => c.at = "hook" /\ c.stream /\ c.up = "ended"
        BY <2>1, <3>1, <3>2
      <4>. QED BY <3>1, <4>1, ClosingGood
    <3>. QED BY <3>3, <3>4, <3>5, <3>6
  <2>4. h' \in [Requests -> Handler]
    <3>1. h' = [r \in Requests |-> h'[r]]
      BY <2>1
    <3>2. \A r \in Requests : h'[r] \in Handler
      BY <2>3 DEF Good, Sound
    <3>. QED BY <3>1, <3>2
  <2>. QED BY <2>2, <2>3, <2>4 DEF HandlersInv
<1>3. CASE ConnectionsEnd \/ GraceEnds
  <2>1. phase' = "closed" /\ h' = h
    BY <1>3 DEF ConnectionsEnd, GraceEnds
  <2>2. \A r \in Requests : Good("closed", h[r])
    BY <1>1, ClosingGood
  <2>. QED BY <2>1, <2>2 DEF HandlersInv
<1>. QED BY <1>2, <1>3

-------------------------------------------------------------------------------
(* The theorems.                                                           *)

LEMMA IdleGood == Good("up", Idle)
<1>1. Idle \in Handler
  <2>1. /\ "new" \in Stages /\ "none" \in Connections /\ "unsent" \in Sent /\ 0 \in Statuses
        /\ "none" \in Upstreams /\ "none" \in Timers
    BY DEF Stages, Connections, Sent, Statuses, Upstreams, Timers
  <2>2. <<>> \in Bytes /\ <<>> \in Seq(Entries)
    BY EmptySeq DEF Bytes
  <2>. QED BY <2>1, <2>2 DEF Idle, Handler
<1>2. TimersFit(Idle) /\ ProgressFits(Idle) /\ EndFits("up", Idle)
  BY DEF Idle, TimersFit, ProgressFits, Abandoned, Looping, Unanswered, EndFits
<1>3. BytesFit("up", Idle) /\ Offers(Idle)
  <2>1. <<>> \o <<>> \o <<>> = <<>>
    <3>1. <<>> \in Seq(Entries)
      BY EmptySeq
    <3>. QED BY <3>1, ConcatEmptySeq
  <2>. QED BY <2>1 DEF Idle, BytesFit, Dumped, Offers, Unanswered
<1>4. LogFits(Idle)
  BY DEF Idle, LogFits
<1>. QED BY <1>1, <1>2, <1>3, <1>4 DEF Good, Sound

LEMMA HandlersHold == Spec => []HandlersInv
<1>1. Init => HandlersInv
  <2>1. Idle \in Handler
    BY IdleGood DEF Good, Sound
  <2>. HIDE DEF Idle
  <2>. QED BY <2>1, IdleGood DEF Init, HandlersInv
<1>2. HandlersInv /\ [Next]_vars => HandlersInv'
  <2>. SUFFICES ASSUME HandlersInv, [Next]_vars PROVE HandlersInv'
    OBVIOUS
  <2>1. ASSUME NEW r \in Requests,
               \/ Refuses(r) \/ Accepts(r) \/ BodyEnds(r) \/ BodyRefused(r) \/ BodyTimesOut(r)
        PROVE  HandlersInv'
    BY <2>1, ArrivesStep
  <2>2. ASSUME NEW r \in Requests, ClientLeaves(r) \/ TotalTimeout(r) \/ IdleTimeout(r)
        PROVE  HandlersInv'
    BY <2>2, ClientLeavesStep, TimersStep
  <2>3. ASSUME NEW r \in Requests,
               Responds(r) \/ Sends(r) \/ UpstreamEnds(r) \/ UpstreamBreaks(r) \/ UpstreamLost(r)
        PROVE  HandlersInv'
    BY <2>3, UpstreamStep
  <2>4. ASSUME NEW r \in Requests, Collects(r) \/ Collected(r) PROVE HandlersInv'
    BY <2>4, CollectsStep
  <2>5. ASSUME NEW r \in Requests, WholeDecided(r) \/ StreamDecided(r) \/ EventDecided(r)
        PROVE  HandlersInv'
    BY <2>5, WholeDecidedStep, StreamDecidedStep, EventDecidedStep
  <2>6. ASSUME NEW r \in Requests, Takes(r) \/ StreamEnds(r) \/ Drains(r) PROVE HandlersInv'
    BY <2>6, ChunksStep
  <2>7. CASE CloseStarts \/ ConnectionsEnd \/ GraceEnds
    BY <2>7, CloseStep
  <2>8. CASE UNCHANGED vars
    BY <2>8 DEF vars, HandlersInv
  <2>. QED BY <2>1, <2>2, <2>3, <2>4, <2>5, <2>6, <2>7, <2>8 DEF Next
<1>. QED BY <1>1, <1>2, PTL DEF Spec

\* The variables of the proxy keep their types: a handler stays one of the records
\* that createHttpTransportRequestHandler may build.
THEOREM HttpTypeCorrect == Spec => []TypeOK
<1>1. HandlersInv => TypeOK
  BY DEF HandlersInv, TypeOK
<1>. QED BY <1>1, HandlersHold, PTL

\* However many requests there are, an upstream that createHttpTransportRequestHandler
\* holds open has a timer that will release it, also while a client does not read
\* what writeChunk has written.
THEOREM UpstreamsAreAlwaysTimed == Spec => []UpstreamsAreTimed
<1>1. HandlersInv => UpstreamsAreTimed
  <2>. SUFFICES ASSUME HandlersInv, NEW r \in Requests
                PROVE  /\ h[r].at = "body" => h[r].timer = "body"
                       /\ Open(h[r]) => \/ h[r].timer \in {"total", "idle"}
                                        \/ h[r].at = "hook" /\ h[r].stream
                                        \/ Abandoned(h[r])
    BY DEF UpstreamsAreTimed
  <2>1. TimersFit(h[r]) /\ ProgressFits(h[r]) /\ h[r].at \in Stages
    BY Fields DEF HandlersInv, Good, Sound
  <2>2. h[r].at = "body" => h[r].timer = "body"
    BY <2>1 DEF TimersFit
  <2>3. ASSUME Open(h[r])
        PROVE  \/ h[r].timer \in {"total", "idle"}
               \/ h[r].at = "hook" /\ h[r].stream
               \/ Abandoned(h[r])
    <3>1. CASE h[r].at \in {"new", "body", "hook"}
      BY <2>1, <2>3, <3>1 DEF ProgressFits, Abandoned, Open
    <3>2. CASE h[r].at \in {"connecting", "collecting"} \/ Looping(h[r])
      BY <2>1, <2>3, <3>2 DEF TimersFit
    <3>3. CASE h[r].at = "settled"
      BY <2>1, <2>3, <3>3 DEF ProgressFits, Abandoned
    <3>. QED BY <2>1, <3>1, <3>2, <3>3, Names DEF Looping
  <2>. QED BY <2>2, <2>3
<1>. QED BY <1>1, HandlersHold, PTL

\* However an upstream cuts its stream into chunks, and whatever the limits, the
\* loop of forwardSseResponse hands every event to its hook whole, in order and
\* once.
THEOREM StreamIsConserved == Spec => []StreamConserved
<1>1. HandlersInv => StreamConserved
  <2>. SUFFICES ASSUME HandlersInv, NEW r \in Requests
                PROVE  /\ h[r].at \in {"streaming", "event", "draining"} /\ (phase = "up" \/ h[r].passed # <<>>) =>
                              h[r].passed \o h[r].pending \o h[r].wire = h[r].source
                       /\ h[r].stream /\ h[r].up # "ended" =>
                              \A event \in h[r].events : event = EventIn(event) /\ HasBoundary(event)
    BY DEF StreamConserved
  <2>1. BytesFit(phase, h[r])
    BY DEF HandlersInv, Good, Sound
  <2>. QED BY <2>1 DEF BytesFit, Dumped
<1>. QED BY <1>1, HandlersHold, PTL

\* However timers, limits, disconnects, hooks and close() interleave, what the client
\* and the reader of the log are told of the end of a response is true: nothing cut
\* looks complete, and a request has one outcome, that of its response
\* (forwardBufferedResponse, forwardSseResponse, sendFailure).
THEOREM EndingsAreAlwaysTrue == Spec => []EndingsAreTrue
<1>1. HandlersInv => NothingTruncated
  <2>. SUFFICES ASSUME HandlersInv, NEW r \in Requests, h[r].out = "ended", h[r].status = 200,
                       h[r].hook # "drop"
                PROVE  h[r].up = "ended" /\ (h[r].passed = h[r].source \/ (phase # "up" /\ h[r].stream /\ h[r].passed = <<>>))
    BY DEF NothingTruncated
  <2>1. ProgressFits(h[r]) /\ EndFits(phase, h[r]) /\ h[r].at \in Stages
    BY Fields DEF HandlersInv, Good, Sound
  <2>2. h[r].at = "settled"
    BY <2>1, Names DEF ProgressFits, Abandoned, Looping, Unanswered
  <2>. QED BY <2>1, <2>2 DEF EndFits
<1>2. HandlersInv => OutcomeIsTrue
  <2>. SUFFICES ASSUME HandlersInv, NEW r \in Requests
                PROVE  LET x == h[r]
                           outcomes == {i \in DOMAIN x.log : x.log[i] \in Outcomes}
                       IN  /\ outcomes = IF x.at = "settled" /\ x.log # <<>> THEN {Len(x.log)} ELSE {}
                           /\ x.log # <<>> /\ x.at = "settled" =>
                                  IF Last(x.log) = "request_complete"
                                  THEN x.status \in {0, 200} /\ (x.status = 0 => x.out = "destroyed")
                                  ELSE x.out = "ended" => x.status # 200
    BY DEF OutcomeIsTrue
  <2>. DEFINE x == h[r]
              log == x.log
  <2>1. LogFits(x) /\ log \in Seq(Entries)
    BY Fields DEF HandlersInv, Good, Sound
  <2>2. log # <<>> => Len(log) \in DOMAIN log
    <3>. HIDE DEF log
    <3>. QED BY <2>1
  <2>3. Last(log) = log[Len(log)]
    BY DEF Last
  <2>4. CASE log = <<>>
    BY <2>4
  <2>5. CASE log # <<>> /\ x.at # "settled"
    BY <2>1, <2>5 DEF LogFits
  <2>6. CASE log # <<>> /\ x.at = "settled"
    <3>1. {i \in DOMAIN log : log[i] \in Outcomes} = {Len(log)}
      BY <2>1, <2>2, <2>6 DEF LogFits
    <3>. QED BY <2>1, <2>3, <2>6, <3>1 DEF LogFits
  <2>. QED BY <2>4, <2>5, <2>6
<1>3. HandlersInv => EndingsAreTrue
  BY <1>1, <1>2 DEF EndingsAreTrue
<1>. QED BY <1>3, HandlersHold, PTL
===============================================================================
