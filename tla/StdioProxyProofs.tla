--------------------------- MODULE StdioProxyProofs ---------------------------
(***************************************************************************)
(* Theorems about StdioProxy for every set of messages, every list of      *)
(* mutations, every limit and every behaviour of client and target.        *)
(***************************************************************************)
EXTENDS StdioProxy, SequenceTheorems, TLAPS

-------------------------------------------------------------------------------
(* What record() preserves, for every limit, event and size.               *)

\* The log as record() maintains it.  The first and the third conjunct make
\* Reported inductive: events are never more than numbers given out, and the
\* flag that guards the warning follows the truncation flag.
SoundLog(lg) ==
    /\ lg.sequence >= Len(lg.events)
    /\ Bounded(lg)
    /\ lg.warned <=> lg.truncated
    /\ Reported(lg)
    /\ Ordered(lg)

\* The fields of a log, for provers that do not expand LogOf.
LEMMA LogFields ==
    ASSUME NEW E, NEW lg \in LogOf(E)
    PROVE  /\ lg.events \in Seq([sequence: Nat, event: E])
           /\ lg.sequence \in Nat /\ lg.bytes \in Nat /\ lg.warnings \in Nat
           /\ lg.truncated \in BOOLEAN /\ lg.warned \in BOOLEAN
           /\ Len(lg.events) \in Nat
BY DEF LogOf

\* record() maps logs to logs.
LEMMA RecordType ==
    ASSUME NEW E, NEW lg \in LogOf(E), NEW event \in E, NEW size \in Nat
    PROVE  Record(lg, event, size) \in LogOf(E)
<1>1. Keep(lg, event, size) \in LogOf(E)
  <2>1. [sequence |-> lg.sequence + 1, event |-> event] \in [sequence: Nat, event: E]
    <3>1. lg.sequence \in Nat
      BY DEF LogOf
    <3>2. lg.sequence + 1 \in Nat
      BY <3>1
    <3>. QED BY <3>2
  <2>2. lg.events \in Seq([sequence: Nat, event: E])
    BY LogFields
  <2>3. Append(lg.events, [sequence |-> lg.sequence + 1, event |-> event])
            \in Seq([sequence: Nat, event: E])
    BY <2>1, <2>2, AppendProperties
  <2>. QED BY <2>3, LogFields DEF Keep, LogOf
<1>2. Omit(lg) \in LogOf(E)
  BY LogFields DEF Omit, LogOf
<1>. QED BY <1>1, <1>2 DEF Record

\* A capture that is being started is sound.
LEMMA EmptyLogSound ==
    ASSUME NEW E
    PROVE  EmptyLog \in LogOf(E) /\ SoundLog(EmptyLog)
BY LimitsAssumption DEF EmptyLog, LogOf, SoundLog, Bounded, Reported, Ordered

\* Keeping an event keeps the sequence numbers ordered.
LEMMA KeepOrdered ==
    ASSUME NEW E, NEW lg \in LogOf(E), NEW event \in E, NEW size \in Nat,
           Ordered(lg)
    PROVE  Ordered(Keep(lg, event, size))
<1>. DEFINE events == lg.events
            last == lg.sequence + 1
            kept == [sequence |-> last, event |-> event]
            longer == Append(events, kept)
<1>1. /\ events \in Seq([sequence: Nat, event: E])
      /\ lg.sequence \in Nat /\ Len(events) \in Nat
  BY LogFields
<1>2. /\ DOMAIN longer = 1..(Len(events) + 1)
      /\ \A i \in 1..Len(events) : longer[i] = events[i]
      /\ longer[Len(events) + 1] = kept
      /\ DOMAIN events = 1..Len(events)
  BY <1>1
<1>3. \A i \in 1..Len(events) : events[i].sequence \in Nat
  <2>1. \A i \in 1..Len(events) : events[i] \in [sequence: Nat, event: E]
    BY <1>1, ElementOfSeq
  <2>. QED BY <2>1
<1>4. \A i, j \in 1..Len(events) : i < j => events[i].sequence < events[j].sequence
  BY <1>2 DEF Ordered
<1>5. \A i \in 1..Len(events) : events[i].sequence <= lg.sequence
  BY <1>2 DEF Ordered
<1>6. kept.sequence = last
  OBVIOUS
<1>. HIDE DEF longer, kept, events
<1>7. \A i \in DOMAIN longer : longer[i].sequence <= last
  BY <1>1, <1>2, <1>3, <1>5, <1>6
<1>8. \A i, j \in DOMAIN longer : i < j => longer[i].sequence < longer[j].sequence
  <2>. SUFFICES ASSUME NEW i \in DOMAIN longer, NEW j \in DOMAIN longer, i < j
                PROVE  longer[i].sequence < longer[j].sequence
    OBVIOUS
  <2>1. i \in 1..Len(events)
    BY <1>1, <1>2
  <2>2. CASE j = Len(events) + 1
    BY <2>1, <2>2, <1>1, <1>2, <1>3, <1>5, <1>6
  <2>3. CASE j \in 1..Len(events)
    BY <2>1, <2>3, <1>2, <1>4
  <2>. QED BY <1>1, <1>2, <2>2, <2>3
<1>9. /\ Keep(lg, event, size).events = longer
      /\ Keep(lg, event, size).sequence = last
  BY DEF Keep, longer, kept, events
<1>. QED BY <1>7, <1>8, <1>9 DEF Ordered

\* record() preserves all a log promises.
LEMMA RecordSound ==
    ASSUME NEW E, NEW lg \in LogOf(E), NEW event \in E, NEW size \in Nat,
           SoundLog(lg)
    PROVE  SoundLog(Record(lg, event, size))
<1>0. /\ lg.events \in Seq([sequence: Nat, event: E])
      /\ lg.sequence \in Nat /\ lg.bytes \in Nat /\ lg.warnings \in Nat
      /\ lg.truncated \in BOOLEAN /\ lg.warned \in BOOLEAN
      /\ Len(lg.events) \in Nat
  BY LogFields
<1>1. CASE HasRoom(lg, size)
  <2>. DEFINE after == Keep(lg, event, size)
  <2>1. /\ Len(after.events) = Len(lg.events) + 1
        /\ after.sequence = lg.sequence + 1
        /\ after.bytes = lg.bytes + size
        /\ after.truncated = lg.truncated
        /\ after.warned = lg.warned
        /\ after.warnings = lg.warnings
    BY <1>0 DEF Keep
  <2>2. Ordered(after)
    BY KeepOrdered DEF SoundLog
  <2>3. Record(lg, event, size) = after
    BY <1>1 DEF Record
  <2>. HIDE DEF after
  <2>4. Bounded(after)
    BY <1>1, <2>1, <1>0, LimitsAssumption DEF HasRoom, Bounded
  <2>5. Reported(after) /\ after.sequence >= Len(after.events)
    BY <2>1, <1>0 DEF SoundLog, Reported
  <2>. QED BY <2>1, <2>2, <2>3, <2>4, <2>5 DEF SoundLog
<1>2. CASE ~HasRoom(lg, size)
  <2>. DEFINE after == Omit(lg)
  <2>1. /\ after.events = lg.events
        /\ after.sequence = lg.sequence + 1
        /\ after.bytes = lg.bytes
        /\ after.truncated = TRUE
        /\ after.warned = TRUE
        /\ after.warnings = IF lg.warned THEN lg.warnings ELSE lg.warnings + 1
    BY DEF Omit
  <2>2. Record(lg, event, size) = after
    BY <1>2 DEF Record
  <2>. HIDE DEF after
  <2>3. Bounded(after)
    BY <2>1 DEF SoundLog, Bounded
  <2>4. /\ Reported(after) /\ after.sequence >= Len(after.events)
        /\ after.warned <=> after.truncated
    BY <2>1, <1>0 DEF SoundLog, Reported
  <2>5. \A i \in DOMAIN lg.events : lg.events[i].sequence \in Nat
    <3>1. \A i \in 1..Len(lg.events) : lg.events[i] \in [sequence: Nat, event: E]
      BY <1>0, ElementOfSeq
    <3>2. DOMAIN lg.events = 1..Len(lg.events)
      BY <1>0
    <3>. QED BY <3>1, <3>2
  <2>6. Ordered(after)
    BY <2>1, <2>5, <1>0 DEF SoundLog, Ordered
  <2>. QED BY <2>2, <2>3, <2>4, <2>6 DEF SoundLog
<1>. QED BY <1>1, <1>2

-------------------------------------------------------------------------------

USE DEF ClientLines, Call, Duplicate, Finished

-------------------------------------------------------------------------------
(* Sequences.                                                              *)

LEMMA RangeOfAppend ==
    ASSUME NEW S, NEW s \in Seq(S), NEW x \in S
    PROVE  Range(Append(s, x)) = Range(s) \cup {x}
<1>. DEFINE t == Append(s, x)
<1>1. /\ DOMAIN t = 1..(Len(s) + 1) /\ DOMAIN s = 1..Len(s) /\ Len(s) \in Nat
      /\ \A i \in 1..Len(s) : t[i] = s[i]
      /\ t[Len(s) + 1] = x
  OBVIOUS
<1>. HIDE DEF t
<1>2. Range(t) \subseteq Range(s) \cup {x}
  <2>. SUFFICES ASSUME NEW i \in DOMAIN t PROVE t[i] \in Range(s) \cup {x}
    BY DEF Range
  <2>1. CASE i = Len(s) + 1
    BY <2>1, <1>1
  <2>2. CASE i \in 1..Len(s)
    BY <2>2, <1>1 DEF Range
  <2>. QED BY <1>1, <2>1, <2>2
<1>3. Range(s) \subseteq Range(t)
  <2>. SUFFICES ASSUME NEW i \in DOMAIN s PROVE s[i] \in Range(t)
    BY DEF Range
  <2>1. i \in DOMAIN t /\ t[i] = s[i]
    BY <1>1
  <2>. QED BY <2>1 DEF Range
<1>4. x \in Range(t)
  <2>1. Len(s) + 1 \in DOMAIN t
    BY <1>1
  <2>. QED BY <2>1, <1>1 DEF Range
<1>. QED BY <1>2, <1>3, <1>4 DEF t

LEMMA RangeOfTail ==
    ASSUME NEW S, NEW s \in Seq(S), s # <<>>
    PROVE  Head(s) \in Range(s) /\ Range(Tail(s)) \subseteq Range(s)
<1>1. /\ DOMAIN s = 1..Len(s) /\ Len(s) \in Nat /\ Len(s) > 0
      /\ Head(s) = s[1] /\ Len(Tail(s)) = Len(s) - 1
      /\ DOMAIN Tail(s) = 1..(Len(s) - 1)
      /\ \A i \in 1..(Len(s) - 1) : Tail(s)[i] = s[i + 1]
  OBVIOUS
<1>2. Head(s) \in Range(s)
  <2>1. 1 \in DOMAIN s
    BY <1>1
  <2>. QED BY <2>1, <1>1 DEF Range
<1>3. Range(Tail(s)) \subseteq Range(s)
  <2>. SUFFICES ASSUME NEW i \in DOMAIN Tail(s) PROVE Tail(s)[i] \in Range(s)
    BY DEF Range
  <2>1. i + 1 \in DOMAIN s /\ Tail(s)[i] = s[i + 1]
    BY <1>1
  <2>. QED BY <2>1 DEF Range
<1>. QED BY <1>2, <1>3

-------------------------------------------------------------------------------
(* The log.                                                                *)

GoodLog(l) == l \in LogOf(Events) /\ SoundLog(l)

\* record() of an event keeps a good log good.
LEMMA LoggedGood ==
    ASSUME NEW l, GoodLog(l), NEW e \in Events
    PROVE  GoodLog(Logged(l, e))
<1>1. SizeOf[e.kind] \in Nat
  BY ProxyAssumption DEF Events
<1>. QED BY <1>1, RecordType, RecordSound DEF GoodLog, Logged

Ids == [of: ClientLines \cup ServerNotifications \cup StderrChunks \cup {NoRequest},
        copy: BOOLEAN]

\* The events the proxy builds without a mutation are events.
LEMMA EventType ==
    ASSUME NEW kind \in EventKinds, NEW direction \in Directions, NEW id \in Ids,
           NEW physical \in BOOLEAN
    PROVE  Event(kind, direction, id, physical) \in Events
<1>1. Len(Mutations) \in Nat
  BY ProxyAssumption
<1>. QED BY <1>1 DEF Event, Events, Ids, CommitStatuses

LEMMA CommitStatusType ==
    ASSUME NEW i \in 1..Len(Mutations), NEW isError \in BOOLEAN
    PROVE  CommitStatus(Mutations[i], isError) \in CommitStatuses
<1>1. Mutations[i] \in MutationRecord
  BY ProxyAssumption, ElementOfSeq
<1>. QED BY <1>1 DEF MutationRecord, CommitStatus, CommitStatuses

\* ... and so are those with one.
LEMMA MutatedType ==
    ASSUME NEW e \in Events, NEW i \in 1..Len(Mutations), NEW isError \in BOOLEAN
    PROVE  Mutated(e, i, isError) \in Events
<1>1. Len(Mutations) \in Nat
  BY ProxyAssumption
<1>2. i \in 0..Len(Mutations)
  BY <1>1
<1>. QED BY <1>2, CommitStatusType DEF Mutated, Events

\* mutationFor gives an index of the declared mutations, or none.
LEMMA SelectedType ==
    ASSUME NEW m
    PROVE  Selected(m) \in 0..Len(Mutations)
<1>1. DOMAIN Mutations = 1..Len(Mutations) /\ Len(Mutations) \in Nat
  BY ProxyAssumption
<1>2. 0 \in 0..Len(Mutations) /\ DOMAIN Mutations \subseteq 0..Len(Mutations)
  BY <1>1
<1>3. ASSUME NEW tool, NEW occurrence
      PROVE  MutationFor(tool, occurrence) \in DOMAIN Mutations \cup {0}
  BY Zenon DEF MutationFor
<1>4. Selected(m) \in DOMAIN Mutations \cup {0}
  BY <1>3, Zenon DEF Selected
<1>. QED BY <1>2, <1>4

-------------------------------------------------------------------------------
(* Every step keeps the types and the log.                                 *)

\* A mutation is only ever chosen for a call of a tool, so that the tool has an
\* entry in lastOk when a stale result is looked up.
ChosenHasTool ==
    \A m \in Requests \cup Notifications : chosen[m] # 0 => ToolOf[m] \in Tools

TypeInv == TypeOK /\ SoundLog(log) /\ ChosenHasTool

(* What a task, the promise of its request, the map pending and the frames  *)
(* on their way know of each other.                                         *)

DrainsHead == draining => chain # <<>>

\* The map pending holds exactly the open promises.
PendingOpen == \A k \in Keys : k \in pending <=> promise[k] = "open"

\* Only a task that awaits its request, or failed to write it, can find its
\* promise open or rejected.
OpenUndelivered ==
    \A r \in Requests : promise[Call(r)] \in {"open", "rejected"} =>
                              task[r] \in {"writing", "waiting", "failed"}

Unstarted == \A r \in Requests : task[r] = "none" => promise[Call(r)] = "unused"

\* A mutation is applied to a reply.
Applied(r) == Replied(Call(r)) /\ chosen[r] # 0
MutatesReply ==
    \A r \in Requests :
        task[r] \in {"delaying", "copy_writing", "copy_waiting"} => Applied(r)

\* A frame in the write chain belongs to a task that awaits its write.
Distinct(frames) == \A i, j \in DOMAIN frames : frames[i].of = frames[j].of => i = j
FramesOfWriters ==
    /\ \A f \in Range(chain) :
          /\ task[f.of] = IF f.copy THEN "copy_writing" ELSE "writing"
          /\ f.copy => f.of \in Requests
    /\ Distinct(chain)

\* No promise is settled without a cause.
SettledByTarget ==
    \A k \in Keys :
        /\ promise[k] \in {"result", "error"} => answered[k] # "none"
        /\ promise[k] = "timeout" => k \in discarded \/ answered[k] # "none"
        /\ k \in Range(chain) \cup Range(received) => promise[k] # "unused"

\* A response to the client comes from the task that is done, or is the reply
\* to a request that was rejected before.
Once(msgs, r) ==
    \A i, j \in DOMAIN msgs : msgs[i].id = Call(r) /\ msgs[j].id = Call(r) => i = j
Has(msgs, r) == \E i \in DOMAIN msgs : msgs[i].id = Call(r)

ResponseOnce ==
    \A r \in Requests :
        /\ Once(toClient, r)
        /\ Has(toClient, r) => \/ task[r] = "done"
                               \/ promise[Call(r)] = "rejected" /\ answered[Call(r)] # "none"

CallInv ==
    /\ DrainsHead
    /\ PendingOpen
    /\ OpenUndelivered
    /\ Unstarted
    /\ MutatesReply
    /\ FramesOfWriters
    /\ SettledByTarget
    /\ ResponseOnce

\* fail() keeps the log good, whatever it was called with.
LEMMA FailGood ==
    ASSUME NEW l, GoodLog(l), ClosingType, Fail(l)
    PROVE  GoodLog(log') /\ ClosingType'
<1>1. TransportError \in Events
  <2>1. Call(NoRequest) \in Ids
    BY DEF Ids
  <2>. QED BY <2>1, EventType DEF TransportError, EventKinds, Directions
<1>2. GoodLog(log')
  BY <1>1, LoggedGood DEF Fail
<1>. QED BY <1>2 DEF Fail, ClosingType

\* rejectPending() keeps the types.
LEMMA RejectPendingType ==
    ASSUME NEW next \in MainStates, RequestsType, RejectPending(next)
    PROVE  RequestsType' /\ main' \in MainStates
<1>1. promise' \in [Keys -> Settlements]
  BY DEF RejectPending, RequestsType, Settlements
<1>. QED BY <1>1 DEF RejectPending, RequestsType, MainStates

\* The synchronous start of a task keeps the types.
LEMMA ArriveType ==
    ASSUME TypeInv, NEW m \in Requests \cup Notifications, Arrive(m)
    PROVE  /\ chosen' \in [Requests \cup Notifications -> 0..Len(Mutations)]
           /\ occurrences' \in [Tools -> Nat]
           /\ ChosenHasTool'
           /\ GoodLog(Arrival(m))
<1>1. Selected(m) \in 0..Len(Mutations)
  BY SelectedType
<1>2. ToolOf[m] \in Tools \cup {NoTool}
  BY ProxyAssumption
<1>3. Selected(m) # 0 => ToolOf[m] \in Tools
  BY <1>2 DEF Selected
<1>4. GoodLog(Arrival(m))
  <2>1. Call(m) \in Ids
    BY DEF Ids
  <2>2. Event("request", "client_to_proxy", Call(m), FALSE) \in Events
    BY <2>1, EventType DEF EventKinds, Directions
  <2>. QED BY <2>2, LoggedGood DEF Arrival, TypeInv, TypeOK, GoodLog
<1>5. chosen' \in [Requests \cup Notifications -> 0..Len(Mutations)]
  BY <1>1 DEF Arrive, TypeInv, TypeOK, HandlersType
<1>6. occurrences' \in [Tools -> Nat]
  BY <1>2 DEF Arrive, TypeInv, TypeOK, HandlersType
<1>7. ChosenHasTool'
  BY <1>3 DEF Arrive, TypeInv, TypeOK, HandlersType, ChosenHasTool
<1>. QED BY <1>4, <1>5, <1>6, <1>7

\* SendTargetRequest keeps the types.
LEMMA SendType ==
    ASSUME NEW key \in Keys, NEW l, GoodLog(l), RequestsType, WriterType,
           SendTargetRequest(key, l)
    PROVE  RequestsType' /\ WriterType' /\ GoodLog(log')
<1>1. key \in Frames /\ key \in Ids /\ (ToolOf[key.of] # NoTool) \in BOOLEAN
  BY DEF Keys, Frames, Ids
<1>2. Event("request", "proxy_to_target", key, ToolOf[key.of] # NoTool) \in Events
  BY <1>1, EventType DEF EventKinds, Directions
<1>3. GoodLog(log')
  BY <1>2, LoggedGood DEF SendTargetRequest
<1>4. RequestsType'
  BY DEF SendTargetRequest, RequestsType, Settlements
<1>5. WriterType'
  BY <1>1 DEF SendTargetRequest, WriterType
<1>. QED BY <1>3, <1>4, <1>5

\* The end of a write keeps the types.
LEMMA WrittenType ==
    ASSUME TypeInv, chain # <<>>, Written(Head(chain))
    PROVE  HandlersType' /\ WriterType' /\ GoodLog(log')
<1>. DEFINE f == Head(chain)
<1>1. f \in Frames /\ Tail(chain) \in Seq(Frames)
  BY DEF TypeInv, TypeOK, WriterType
<1>2. GoodLog(log')
  <2>1. f \in Ids
    BY <1>1 DEF Frames, Ids
  <2>2. Event("request", "proxy_to_target", f, FALSE) \in Events
    BY <2>1, EventType DEF EventKinds, Directions
  <2>. QED BY <2>2, LoggedGood DEF Written, TypeInv, TypeOK, GoodLog
<1>3. Waiting(f) \in TaskStates
  BY DEF Waiting, TaskStates
<1>. HIDE DEF f
<1>4. HandlersType'
  BY <1>3 DEF Written, TypeInv, TypeOK, HandlersType, f, handlers
<1>5. WriterType'
  BY <1>1 DEF Written, TypeInv, TypeOK, WriterType
<1>. QED BY <1>2, <1>4, <1>5

\* The messages the proxy sends to its client.
LEMMA ClientMessageType ==
    ASSUME NEW id \in [of: ClientLines \cup ServerNotifications, copy: BOOLEAN],
           NEW of \in [of: ClientLines \cup ServerNotifications, copy: BOOLEAN],
           NEW kind \in {"result", "error", "timeout", "injected", "corrupted", "forwarded"}
    PROVE  [id |-> id, kind |-> kind, of |-> of] \in ClientMessages
BY DEF ClientMessages

\* writeClient gives the client the message, or its chain is rejected.
LEMMA WriteClientType ==
    ASSUME TypeInv, NEW x \in ClientMessages, WriteClient(x)
    PROVE  /\ toClient' \in Seq(ClientMessages)
           /\ clientBroken' \in BOOLEAN
           /\ toClient' = IF clientBroken' THEN toClient ELSE Append(toClient, x)
<1>1. toClient \in Seq(ClientMessages) /\ clientBroken \in BOOLEAN
  BY DEF TypeInv, TypeOK, MainType
<1>2. toClient' = IF clientBroken' THEN toClient ELSE Append(toClient, x)
  BY DEF WriteClient
<1>3. clientBroken' \in BOOLEAN
  BY <1>1 DEF WriteClient
<1>4. toClient' \in Seq(ClientMessages)
  BY <1>1, <1>2
<1>. QED BY <1>2, <1>3, <1>4

\* Deliver keeps the types.
LEMMA DeliverType ==
    ASSUME TypeInv, NEW r \in Requests, NEW l, GoodLog(l), NEW e \in Events,
           NEW response \in ClientMessages, Deliver(r, l, e, response)
    PROVE  /\ task' \in [ClientLines -> TaskStates]
           /\ toClient' \in Seq(ClientMessages) /\ clientBroken' \in BOOLEAN
           /\ GoodLog(log')
<1>1. GoodLog(log')
  BY LoggedGood DEF Deliver
<1>2. toClient' \in Seq(ClientMessages) /\ clientBroken' \in BOOLEAN
  BY WriteClientType DEF Deliver
<1>3. task' \in [ClientLines -> TaskStates]
  BY DEF Deliver, TypeInv, TypeOK, HandlersType, TaskStates
<1>. QED BY <1>1, <1>2, <1>3

\* The events and messages of a request that has a reply.
LEMMA ReplyTypes ==
    ASSUME TypeInv, NEW r \in Requests, Replied(Call(r))
    PROVE  /\ Original(r) \in ClientMessages
           /\ ToClient(r) \in Events
           /\ chosen[r] # 0 => /\ Visible(r) \in ClientMessages
                               /\ VisibleEvent(r) \in Events
                               /\ MutationEvent(r) \in Events
                               /\ WithMutation(r, ToClient(r)) \in Events
<1>1. Call(r) \in [of: ClientLines \cup ServerNotifications, copy: BOOLEAN]
      /\ Call(r) \in Ids
  BY DEF Ids
<1>2. Original(r) \in ClientMessages
  BY <1>1, ClientMessageType DEF Original, Replied
<1>3. ToClient(r) \in Events
  BY <1>1, EventType DEF ToClient, EventKinds, Directions
<1>4. ASSUME chosen[r] # 0
      PROVE  /\ Visible(r) \in ClientMessages
             /\ VisibleEvent(r) \in Events
             /\ MutationEvent(r) \in Events
             /\ WithMutation(r, ToClient(r)) \in Events
  <2>1. chosen[r] \in 1..Len(Mutations)
    <3>1. chosen[r] \in 0..Len(Mutations) /\ Len(Mutations) \in Nat
      BY ProxyAssumption DEF TypeInv, TypeOK, HandlersType
    <3>. QED BY <3>1, <1>4
  <2>2. (promise[Call(r)] # "result") \in BOOLEAN
    OBVIOUS
  <2>3. \A e \in Events : WithMutation(r, e) \in Events
    BY <2>1, <2>2, MutatedType DEF WithMutation
  <2>4. MutationEvent(r) \in Events
    <3>1. Event("mutation", "none", Call(r), FALSE) \in Events
      BY <1>1, EventType DEF EventKinds, Directions
    <3>. QED BY <3>1, <2>3 DEF MutationEvent
  <2>5. VisibleEvent(r) \in Events
    BY <1>3, <2>3 DEF VisibleEvent
  <2>6. Visible(r) \in ClientMessages
    <3>1. ToolOf[r] \in Tools
      BY <1>4 DEF TypeInv, ChosenHasTool
    <3>2. StaleSource(r) \in Requests \cup {NoRequest}
      BY <3>1 DEF StaleSource, TypeInv, TypeOK, HandlersType
    <3>3. StaleSource(r) # NoRequest =>
              Call(StaleSource(r)) \in [of: ClientLines \cup ServerNotifications, copy: BOOLEAN]
      BY <3>2
    <3>. QED BY <1>1, <1>2, <3>3, ClientMessageType DEF Visible
  <2>. QED BY <1>3, <2>3, <2>4, <2>5, <2>6
<1>. QED BY <1>2, <1>3, <1>4

\* Every step keeps TypeInv.
LEMMA TypeStep ==
    ASSUME TypeInv, DrainsHead, MutatesReply, [Next]_vars
    PROVE  TypeInv'
<1>. DEFINE Goal == TypeInv'
<1>0. /\ GoodLog(log) /\ HandlersType /\ RequestsType /\ WriterType /\ ServerType
      /\ toClient \in Seq(ClientMessages) /\ ClosingType /\ MainType /\ ChosenHasTool
  BY DEF TypeInv, TypeOK, GoodLog
<1>. USE <1>0
<1>1. ASSUME NEW m \in Requests \cup Notifications, DenyBeforeCall(m) PROVE Goal
  <2>1. /\ Call(m) \in Ids
        /\ Call(m) \in [of: ClientLines \cup ServerNotifications, copy: BOOLEAN]
    BY DEF Ids
  <2>2. Selected(m) \in 1..Len(Mutations)
    <3>1. Selected(m) \in 0..Len(Mutations) /\ Len(Mutations) \in Nat
      BY SelectedType, ProxyAssumption
    <3>. QED BY <3>1, <1>1 DEF DenyBeforeCall, Preflighted
  <2>3. /\ Event("mutation", "none", Call(m), FALSE) \in Events
        /\ Event("response", "proxy_to_client", Call(m), FALSE) \in Events
    BY <2>1, EventType DEF EventKinds, Directions
  <2>4. GoodLog(log')
    <3>1. /\ Mutated(Event("mutation", "none", Call(m), FALSE), Selected(m), FALSE) \in Events
          /\ Mutated(Event("response", "proxy_to_client", Call(m), FALSE), Selected(m), FALSE)
                \in Events
      BY <2>2, <2>3, MutatedType
    <3>2. GoodLog(Arrival(m))
      BY <1>1, ArriveType DEF DenyBeforeCall
    <3>. QED BY <1>1, <3>1, <3>2, LoggedGood DEF DenyBeforeCall
  <2>5. HandlersType' /\ ChosenHasTool'
    <3>1. /\ chosen' \in [Requests \cup Notifications -> 0..Len(Mutations)]
          /\ occurrences' \in [Tools -> Nat]
          /\ ChosenHasTool'
      BY <1>1, ArriveType DEF DenyBeforeCall
    <3>. QED BY <1>1, <3>1 DEF DenyBeforeCall, HandlersType, TaskStates
  <2>6. toClient' \in Seq(ClientMessages) /\ clientBroken' \in BOOLEAN
    <3>1. [id |-> Call(m), kind |-> "injected", of |-> Call(m)] \in ClientMessages
      BY <2>1, ClientMessageType
    <3>. QED BY <1>1, <3>1, WriteClientType DEF DenyBeforeCall
  <2>. QED BY <1>1, <2>4, <2>5, <2>6, ZenonT(60) DEF DenyBeforeCall, TypeInv, TypeOK, GoodLog,
           requests, writer, server, closing,
           RequestsType, WriterType, ServerType, ClosingType, MainType
<1>2. ASSUME NEW r \in Requests, ForwardRequest(r) PROVE Goal
  <2>1. /\ chosen' \in [Requests \cup Notifications -> 0..Len(Mutations)]
        /\ occurrences' \in [Tools -> Nat]
        /\ ChosenHasTool' /\ GoodLog(Arrival(r))
    BY <1>2, ArriveType DEF ForwardRequest
  <2>2. HandlersType'
    BY <1>2, <2>1 DEF ForwardRequest, HandlersType, TaskStates
  <2>3. RequestsType' /\ WriterType' /\ GoodLog(log')
    <3>1. Call(r) \in Keys
      BY DEF Keys
    <3>. QED BY <1>2, <2>1, <3>1, SendType DEF ForwardRequest
  <2>. QED BY <1>2, <2>1, <2>2, <2>3 DEF ForwardRequest, TypeInv, TypeOK, GoodLog,
           server, closing, mainVars, ServerType, ClosingType, MainType
<1>3. ASSUME NEW n \in Notifications, ForwardNotification(n) PROVE Goal
  <2>1. /\ chosen' \in [Requests \cup Notifications -> 0..Len(Mutations)]
        /\ occurrences' \in [Tools -> Nat]
        /\ ChosenHasTool' /\ GoodLog(Arrival(n))
    BY <1>3, ArriveType DEF ForwardNotification
  <2>2. HandlersType'
    BY <1>3, <2>1 DEF ForwardNotification, HandlersType, TaskStates
  <2>3. WriterType'
    <3>1. Call(n) \in Frames
      BY DEF Frames
    <3>. QED BY <1>3, <3>1 DEF ForwardNotification, WriterType
  <2>. QED BY <1>3, <2>1, <2>2, <2>3 DEF ForwardNotification, TypeInv, TypeOK, GoodLog,
           requests, server, closing, mainVars, RequestsType, ServerType, ClosingType, MainType
<1>4. ASSUME NEW t \in ServerRequests, ClientReplies(t) PROVE Goal
  <2>1. Call(t) \in Ids /\ Call(t) \in Frames
    BY DEF Ids, Frames
  <2>2. GoodLog(log')
    <3>1. Event("response", "client_to_proxy", Call(t), FALSE) \in Events
      BY <2>1, EventType DEF EventKinds, Directions
    <3>. QED BY <1>4, <3>1, LoggedGood DEF ClientReplies
  <2>3. HandlersType' /\ WriterType' /\ ChosenHasTool'
    BY <1>4, <2>1 DEF ClientReplies, HandlersType, TaskStates, WriterType, ChosenHasTool
  <2>. QED BY <1>4, <2>2, <2>3 DEF ClientReplies, TypeInv, TypeOK, GoodLog,
           requests, server, closing, mainVars, RequestsType, ServerType, ClosingType, MainType
<1>5. CASE ClientEnds
  BY <1>5 DEF ClientEnds, TypeInv, TypeOK, GoodLog, handlers, requests, writer, server, closing,
     HandlersType, RequestsType, WriterType, ServerType, ClosingType, MainType, ChosenHasTool
<1>6. ASSUME chain # <<>>, Written(Head(chain)), received' \in Seq(Frames) PROVE Goal
  <2>1. HandlersType' /\ WriterType' /\ GoodLog(log')
    BY <1>6, WrittenType
  <2>. QED BY <1>6, <2>1 DEF Written, TypeInv, TypeOK, GoodLog, requests, closing, mainVars,
           RequestsType, ServerType, ClosingType, MainType, ChosenHasTool
<1>7. CASE WriteLine
  <2>1. received' \in Seq(Frames)
    BY <1>7 DEF WriteLine, ServerType, WriterType
  <2>. QED BY <1>6, <1>7, <2>1 DEF WriteLine
<1>8. CASE WriteBlocks
  <2>1. received' \in Seq(Frames)
    BY <1>8 DEF WriteBlocks, ServerType, WriterType
  <2>. QED BY <1>8, <2>1 DEF WriteBlocks, TypeInv, TypeOK, GoodLog, handlers, requests, closing,
           mainVars, HandlersType, RequestsType, WriterType, ServerType, ClosingType, MainType,
           ChosenHasTool
<1>9. CASE WriteDrains
  BY <1>6, <1>9 DEF WriteDrains, DrainsHead, ServerType
<1>10. CASE WriteFails
  <2>1. GoodLog(log') /\ ClosingType'
    BY <1>10, FailGood DEF WriteFails
  <2>2. HandlersType' /\ ChosenHasTool'
    BY <1>10 DEF WriteFails, HandlersType, TaskStates, ChosenHasTool
  <2>3. WriterType'
    <3>1. chain \in Seq(Frames) /\ chain # <<>>
      BY <1>10 DEF WriteFails, WriterType
    <3>2. Tail(chain) \in Seq(Frames)
      BY <3>1
    <3>. QED BY <1>10, <3>2 DEF WriteFails, WriterType
  <2>. QED BY <1>10, <2>1, <2>2, <2>3 DEF WriteFails, TypeInv, TypeOK, GoodLog, requests, server,
           mainVars, RequestsType, ServerType, MainType
<1>11. ASSUME NEW k \in Keys, NEW outcome \in {"result", "error"}, TargetAnswers(k, outcome)
       PROVE  Goal
  <2>1. /\ k \in Ids
        /\ k \in [of: ClientLines \cup ServerNotifications, copy: BOOLEAN]
    BY DEF Ids, Keys
  <2>2. \A b \in BOOLEAN : Event("response", "target_to_proxy", k, b) \in Events
    BY <2>1, EventType DEF EventKinds, Directions
  <2>3. GoodLog(log')
    BY <1>11, <2>2, LoggedGood DEF TargetAnswers
  <2>4. toClient' \in Seq(ClientMessages) /\ clientBroken' \in BOOLEAN
    <3>1. [id |-> k, kind |-> outcome, of |-> k] \in ClientMessages
      BY <2>1, ClientMessageType
    <3>2. CASE UNCHANGED <<toClient, clientBroken>>
      BY <3>2 DEF MainType
    <3>3. CASE WriteClient([id |-> k, kind |-> outcome, of |-> k])
      BY <3>1, <3>3, WriteClientType
    <3>. QED BY <1>11, <3>2, <3>3 DEF TargetAnswers
  <2>5. RequestsType' /\ ServerType'
    BY <1>11 DEF TargetAnswers, requests, RequestsType, ServerType, Settlements
  <2>6. MainType'
    <3>1. main' \in {main, "crashed"} /\ UNCHANGED <<clientEnded, awaited, hashed, saved>>
      BY <1>11 DEF TargetAnswers
    <3>. QED BY <2>4, <3>1 DEF MainType, MainStates
  <2>. QED BY <1>11, <2>3, <2>4, <2>5, <2>6 DEF TargetAnswers, TypeInv, TypeOK, GoodLog, handlers,
           writer, closing, HandlersType, WriterType, ClosingType, ChosenHasTool
<1>12. ASSUME NEW t \in ServerRequests \cup ServerNotifications, TargetSends(t) PROVE Goal
  <2>1. /\ Call(t) \in Ids
        /\ Call(t) \in [of: ClientLines \cup ServerNotifications, copy: BOOLEAN]
    BY DEF Ids
  <2>2. Event("request", "target_to_proxy", Call(t), FALSE) \in Events
    BY <2>1, EventType DEF EventKinds, Directions
  <2>3. GoodLog(log') /\ ClosingType'
    <3>. DEFINE recorded == Logged(log, Event("request", "target_to_proxy", Call(t), FALSE))
    <3>1. GoodLog(recorded)
      BY <2>2, LoggedGood
    <3>2. Fail(recorded) \/ (log' = recorded /\ UNCHANGED closing)
      BY <1>12 DEF TargetSends
    <3>. HIDE DEF recorded
    <3>. QED BY <3>1, <3>2, FailGood DEF closing, ClosingType
  <2>4. toClient' \in Seq(ClientMessages) /\ clientBroken' \in BOOLEAN
    <3>1. [id |-> Call(t), kind |-> "forwarded", of |-> Call(t)] \in ClientMessages
      BY <2>1, ClientMessageType
    <3>. QED BY <1>12, <3>1, WriteClientType DEF TargetSends
  <2>. QED BY <1>12, <2>3, <2>4, ZenonT(60) DEF TargetSends, TypeInv, TypeOK, GoodLog, handlers, requests,
           writer, HandlersType, RequestsType, WriterType, ServerType, MainType, ChosenHasTool
<1>13. ASSUME NEW c \in StderrChunks, TargetWritesStderr(c) PROVE Goal
  <2>1. Call(c) \in Ids
    BY DEF Ids
  <2>2. Event("stderr", "none", Call(c), FALSE) \in Events
    BY <2>1, EventType DEF EventKinds, Directions
  <2>3. GoodLog(log')
    BY <1>13, <2>2, LoggedGood DEF TargetWritesStderr
  <2>. QED BY <1>13, <2>3, ZenonT(60) DEF TargetWritesStderr, TypeInv, TypeOK, GoodLog, handlers, requests,
           writer, closing, mainVars, HandlersType, RequestsType, WriterType, ServerType,
           ClosingType, MainType, ChosenHasTool
<1>14. CASE InvalidLine
  <2>1. GoodLog(log') /\ ClosingType'
    BY <1>14, FailGood DEF InvalidLine
  <2>. QED BY <1>14, <2>1 DEF InvalidLine, TypeInv, TypeOK, GoodLog, handlers, requests, writer,
           server, mainVars, HandlersType, RequestsType, WriterType, ServerType, MainType,
           ChosenHasTool
<1>15. ASSUME NEW k \in Keys, RequestTimeout(k) PROVE Goal
  <2>1. RequestsType'
    BY <1>15 DEF RequestTimeout, RequestsType, Settlements
  <2>. QED BY <1>15, <2>1 DEF RequestTimeout, TypeInv, TypeOK, GoodLog, handlers, writer, server,
           closing, mainVars, HandlersType, WriterType, ServerType, ClosingType, MainType,
           ChosenHasTool
<1>16. ASSUME NEW r \in Requests, NEW l, GoodLog(l), NEW e \in Events,
              NEW response \in ClientMessages, Deliver(r, l, e, response),
              lastOk' \in [Tools -> Requests \cup {NoRequest}],
              UNCHANGED <<requests, writer, closing>>
       PROVE  Goal
  <2>1. /\ task' \in [ClientLines -> TaskStates]
        /\ toClient' \in Seq(ClientMessages) /\ clientBroken' \in BOOLEAN
        /\ GoodLog(log')
    BY <1>16, DeliverType
  <2>. QED BY <1>16, <2>1 DEF Deliver, TypeInv, TypeOK, GoodLog, requests, writer, server, closing,
           HandlersType, RequestsType, WriterType, ServerType, ClosingType, MainType,
           ChosenHasTool
<1>17. ASSUME NEW r \in Requests, Replied(Call(r))
       PROVE  /\ Original(r) \in ClientMessages
              /\ ToClient(r) \in Events
              /\ chosen[r] # 0 => /\ Visible(r) \in ClientMessages
                                  /\ VisibleEvent(r) \in Events
                                  /\ MutationEvent(r) \in Events
                                  /\ WithMutation(r, ToClient(r)) \in Events
  BY <1>17, ReplyTypes
<1>18. lastOk \in [Tools -> Requests \cup {NoRequest}]
  BY DEF HandlersType
<1>19. ASSUME NEW r \in Requests, ReturnReply(r) PROVE Goal
  <2>1. lastOk' \in [Tools -> Requests \cup {NoRequest}]
    BY <1>18, <1>19 DEF ReturnReply
  <2>2. Original(r) \in ClientMessages /\ ToClient(r) \in Events
    BY <1>17, <1>19 DEF ReturnReply
  <2>. QED BY <1>16, <1>19, <2>1, <2>2 DEF ReturnReply
<1>20. ASSUME NEW r \in Requests, MutateReply(r) PROVE Goal
  <2>1. /\ Visible(r) \in ClientMessages /\ VisibleEvent(r) \in Events
        /\ MutationEvent(r) \in Events
    BY <1>17, <1>20 DEF MutateReply, MutationStarts
  <2>2. GoodLog(Logged(log, MutationEvent(r)))
    BY <2>1, LoggedGood
  <2>. QED BY <1>16, <1>18, <1>20, <2>1, <2>2 DEF MutateReply
<1>21. ASSUME NEW r \in Requests, DelayReply(r) PROVE Goal
  <2>1. MutationEvent(r) \in Events
    BY <1>17, <1>21 DEF DelayReply, MutationStarts
  <2>2. GoodLog(log')
    BY <1>21, <2>1, LoggedGood DEF DelayReply
  <2>3. HandlersType'
    BY <1>21 DEF DelayReply, HandlersType, TaskStates
  <2>. QED BY <1>21, <2>2, <2>3 DEF DelayReply, TypeInv, TypeOK, GoodLog, requests, writer, server,
           closing, mainVars, RequestsType, WriterType, ServerType, ClosingType, MainType,
           ChosenHasTool
<1>22. ASSUME NEW r \in Requests, FinishDelay(r) PROVE Goal
  <2>1. Replied(Call(r)) /\ chosen[r] # 0
    BY <1>22 DEF FinishDelay, MutatesReply, Applied
  <2>2. Visible(r) \in ClientMessages /\ VisibleEvent(r) \in Events
    BY <1>17, <2>1
  <2>. QED BY <1>16, <1>18, <1>22, <2>2 DEF FinishDelay
<1>23. ASSUME NEW r \in Requests, DuplicateCall(r) PROVE Goal
  <2>1. MutationEvent(r) \in Events
    BY <1>17, <1>23 DEF DuplicateCall, MutationStarts
  <2>2. GoodLog(Logged(log, MutationEvent(r)))
    BY <2>1, LoggedGood
  <2>3. Duplicate(r) \in Keys
    BY DEF Keys
  <2>4. RequestsType' /\ WriterType' /\ GoodLog(log')
    BY <1>23, <2>2, <2>3, SendType DEF DuplicateCall
  <2>5. HandlersType'
    BY <1>23 DEF DuplicateCall, HandlersType, TaskStates
  <2>. QED BY <1>23, <2>4, <2>5 DEF DuplicateCall, TypeInv, TypeOK, GoodLog, server,
           closing, mainVars, ServerType, ClosingType, MainType, ChosenHasTool
<1>24. ASSUME NEW r \in Requests, FinishDuplicate(r) PROVE Goal
  <2>. DEFINE copy == WithMutation(r, Event("response", "target_to_proxy", Duplicate(r), TRUE))
  <2>1. Replied(Call(r)) /\ chosen[r] # 0
    BY <1>24 DEF FinishDuplicate, MutatesReply, Applied
  <2>2. /\ Original(r) \in ClientMessages
        /\ WithMutation(r, ToClient(r)) \in Events
    BY <1>17, <2>1
  <2>3. GoodLog(Logged(log, copy))
    <3>1. Duplicate(r) \in Ids
      BY DEF Ids
    <3>2. Event("response", "target_to_proxy", Duplicate(r), TRUE) \in Events
      BY <3>1, EventType DEF EventKinds, Directions
    <3>3. chosen[r] \in 1..Len(Mutations)
      <4>1. chosen[r] \in 0..Len(Mutations) /\ Len(Mutations) \in Nat
        BY ProxyAssumption DEF HandlersType
      <4>. QED BY <2>1, <4>1
    <3>4. copy \in Events
      BY <3>2, <3>3, MutatedType DEF WithMutation
    <3>. QED BY <3>4, LoggedGood
  <2>. QED BY <1>16, <1>18, <1>24, <2>2, <2>3 DEF FinishDuplicate
<1>25. ASSUME NEW r \in Requests, ReplyRejected(r) PROVE Goal
  <2>1. GoodLog(log') /\ ClosingType'
    BY <1>25, FailGood DEF ReplyRejected
  <2>2. HandlersType'
    BY <1>25 DEF ReplyRejected, HandlersType, TaskStates
  <2>. QED BY <1>25, <2>1, <2>2 DEF ReplyRejected, TypeInv, TypeOK, GoodLog, requests, writer,
           server, mainVars, RequestsType, WriterType, ServerType, MainType, ChosenHasTool
<1>36. ASSUME NEW m \in Requests \cup Notifications, DeliveryFails(m) PROVE Goal
  <2>1. GoodLog(log') /\ ClosingType'
    BY <1>36, FailGood DEF DeliveryFails
  <2>2. HandlersType'
    BY <1>36 DEF DeliveryFails, HandlersType, TaskStates
  <2>. QED BY <1>36, <2>1, <2>2 DEF DeliveryFails, TypeInv, TypeOK, GoodLog, requests, writer,
           server, mainVars, RequestsType, WriterType, ServerType, MainType, ChosenHasTool
<1>37. CASE InterruptAgain
  BY <1>37 DEF InterruptAgain, TypeInv, TypeOK, GoodLog, handlers, requests, writer, server, closing,
     HandlersType, RequestsType, WriterType, ServerType, ClosingType, MainType, MainStates,
     ChosenHasTool
<1>26. CASE TargetExits
  BY <1>26 DEF TargetExits, TypeInv, TypeOK, GoodLog, handlers, requests, writer, closing, mainVars,
     HandlersType, RequestsType, WriterType, ServerType, ClosingType, MainType, ChosenHasTool
<1>27. CASE TargetCloses
  <2>1. GoodLog(log') /\ ClosingType'
    BY <1>27, FailGood DEF TargetCloses, closing, ClosingType
  <2>2. RequestsType' /\ main' \in MainStates
    BY <1>27, RejectPendingType DEF TargetCloses, MainType
  <2>. QED BY <1>27, <2>1, <2>2 DEF TargetCloses, TypeInv, TypeOK, GoodLog, handlers, writer,
           HandlersType, WriterType, ServerType, MainType, ChosenHasTool
<1>28. CASE Interrupt
  BY <1>28 DEF Interrupt, TypeInv, TypeOK, GoodLog, handlers, requests, writer, server, mainVars,
     HandlersType, RequestsType, WriterType, ServerType, ClosingType, MainType, ChosenHasTool
<1>29. CASE RunTimeout
  <2>1. GoodLog(log') /\ ClosingType'
    BY <1>29, FailGood DEF RunTimeout
  <2>. QED BY <1>29, <2>1 DEF RunTimeout, TypeInv, TypeOK, GoodLog, handlers, requests, writer,
           server, mainVars, HandlersType, RequestsType, WriterType, ServerType, MainType,
           ChosenHasTool
<1>30. CASE CloserTerminates \/ CloserKills
  BY <1>30 DEF CloserTerminates, CloserKills, TypeInv, TypeOK, GoodLog, handlers, requests, writer,
     server, mainVars, HandlersType, RequestsType, WriterType, ServerType, ClosingType, MainType,
     ChosenHasTool
<1>31. CASE MainDrains
  BY <1>31 DEF MainDrains, Started, TypeInv, TypeOK, GoodLog, handlers, requests, writer, server,
     closing, HandlersType, RequestsType, WriterType, ServerType, ClosingType, MainType, MainStates,
     ChosenHasTool
<1>32. CASE MainCloses
  BY <1>32 DEF MainCloses, TypeInv, TypeOK, GoodLog, handlers, requests, writer, server,
     HandlersType, RequestsType, WriterType, ServerType, ClosingType, MainType, MainStates,
     ChosenHasTool
<1>33. CASE MainRejects
  <2>1. RequestsType' /\ main' \in MainStates
    BY <1>33, RejectPendingType DEF MainRejects, MainStates
  <2>. QED BY <1>33, <2>1 DEF MainRejects, Started, TypeInv, TypeOK, GoodLog, handlers, writer,
           server, closing, HandlersType, WriterType, ServerType, ClosingType, MainType,
           ChosenHasTool
<1>34. CASE MainHashes \/ MainPersists \/ MainReturns
  <2>1. Len(log.events) \in Nat
    BY LogFields DEF GoodLog
  <2>. QED BY <1>34, <2>1 DEF MainHashes, MainPersists, MainReturns, TypeInv, TypeOK, GoodLog,
           handlers, requests, writer, server, closing, HandlersType, RequestsType, WriterType,
           ServerType, ClosingType, MainType, MainStates, ChosenHasTool
<1>35. CASE UNCHANGED vars
  BY <1>35 DEF vars, TypeInv, TypeOK, GoodLog, handlers, requests, writer, server, closing,
     mainVars, HandlersType, RequestsType, WriterType, ServerType, ClosingType, MainType,
     ChosenHasTool
<1>. QED
  BY <1>1, <1>2, <1>3, <1>4, <1>5, <1>7, <1>8, <1>9, <1>10, <1>11, <1>12, <1>13, <1>14, <1>15,
     <1>19, <1>20, <1>21, <1>22, <1>23, <1>24, <1>25, <1>26, <1>27, <1>28, <1>29, <1>30, <1>31,
     <1>32, <1>33, <1>34, <1>35, <1>36, <1>37
  DEF Next, Prompt, Turn, Terminated, ClientLine, TargetLine, Resume

-------------------------------------------------------------------------------
(* Every step keeps what tasks, promises and frames know of each other.    *)

\* One more message to the client.
LEMMA OneMore ==
    ASSUME NEW msgs \in Seq(ClientMessages), NEW x \in ClientMessages, NEW r \in Requests,
           Once(msgs, r), x.id = Call(r) => ~Has(msgs, r)
    PROVE  /\ Once(Append(msgs, x), r)
           /\ Has(Append(msgs, x), r) => Has(msgs, r) \/ x.id = Call(r)
<1>. DEFINE t == Append(msgs, x)
<1>1. /\ DOMAIN t = 1..(Len(msgs) + 1) /\ DOMAIN msgs = 1..Len(msgs) /\ Len(msgs) \in Nat
      /\ \A i \in 1..Len(msgs) : t[i] = msgs[i]
      /\ t[Len(msgs) + 1] = x
  OBVIOUS
<1>. HIDE DEF t
<1>2. \A i \in DOMAIN t : i \in DOMAIN msgs \/ i = Len(msgs) + 1
  BY <1>1
<1>3. Has(t, r) => Has(msgs, r) \/ x.id = Call(r)
  BY <1>1, <1>2 DEF Has
<1>4. Once(t, r)
  BY <1>1, <1>2 DEF Once, Has
<1>. QED BY <1>3, <1>4 DEF t

LEMMA ChainType ==
    ASSUME TypeInv
    PROVE  \A f \in Range(chain) : f \in Frames /\ f.of \in ClientLines
<1>1. Range(chain) \subseteq Frames
  BY RangeOfSeq DEF TypeInv, TypeOK, WriterType
<1>. QED BY <1>1 DEF Frames

\* What CallInv says stays true when nothing it mentions changes.
LEMMA CallUnchanged ==
    ASSUME CallInv,
           UNCHANGED <<task, chosen, pending, discarded, promise, chain, draining, received,
                       answered, toClient>>
    PROVE  CallInv'
BY DEF CallInv, DrainsHead, PendingOpen, OpenUndelivered, Unstarted, MutatesReply,
   FramesOfWriters, SettledByTarget, ResponseOnce, Applied, Replied

\* ... when open promises are rejected,
LEMMA CallRejects ==
    ASSUME TypeInv, CallInv, NEW next, RejectPending(next),
           UNCHANGED <<task, chosen, chain, draining, received, answered, toClient>>
    PROVE  CallInv'
<1>1. /\ promise \in [Keys -> Settlements] /\ pending \subseteq Keys
      /\ \A r \in Requests : Call(r) \in Keys
  BY DEF TypeInv, TypeOK, RequestsType, Keys
<1>2. \A k \in Keys : promise'[k] = IF promise[k] = "open" THEN "rejected" ELSE promise[k]
  BY <1>1 DEF RejectPending, CallInv, PendingOpen
<1>3. pending' = {} /\ UNCHANGED discarded
  BY DEF RejectPending
<1>4. DrainsHead' /\ PendingOpen'
  BY <1>2, <1>3 DEF CallInv, DrainsHead, PendingOpen
<1>5. OpenUndelivered' /\ Unstarted'
  BY <1>1, <1>2 DEF CallInv, OpenUndelivered, Unstarted
<1>6. MutatesReply' /\ FramesOfWriters'
  BY <1>1, <1>2 DEF CallInv, MutatesReply, FramesOfWriters, Applied, Replied
<1>7. SettledByTarget'
  BY <1>2, <1>3 DEF CallInv, SettledByTarget
<1>8. ResponseOnce'
  BY <1>1, <1>2 DEF CallInv, ResponseOnce
<1>. QED BY <1>4, <1>5, <1>6, <1>7, <1>8 DEF CallInv

\* ... when a response of r is delivered, or its write fails,
LEMMA CallDelivers ==
    ASSUME TypeInv, CallInv, NEW r \in Requests, NEW l, NEW e, NEW x \in ClientMessages,
           Deliver(r, l, e, x), x.id = Call(r), Replied(Call(r)),
           task[r] \in {"waiting", "delaying", "copy_waiting"},
           UNCHANGED <<requests, writer>>
    PROVE  CallInv'
<1>1. /\ toClient \in Seq(ClientMessages)
      /\ task \in [ClientLines -> TaskStates]
      /\ toClient' = IF clientBroken' THEN toClient ELSE Append(toClient, x)
      /\ task' = [task EXCEPT ![r] = IF clientBroken' THEN "undelivered" ELSE "done"]
      /\ UNCHANGED <<chosen, received, answered, requests, writer>>
  BY DEF Deliver, WriteClient, TypeInv, TypeOK, HandlersType, server
<1>2. \A q \in ClientLines :
          task'[q] = IF q = r THEN IF clientBroken' THEN "undelivered" ELSE "done" ELSE task[q]
  BY <1>1
<1>3. DrainsHead' /\ PendingOpen' /\ SettledByTarget'
  BY <1>1 DEF CallInv, DrainsHead, PendingOpen, SettledByTarget, requests, writer
<1>4. OpenUndelivered' /\ Unstarted'
  BY <1>1, <1>2 DEF CallInv, OpenUndelivered, Unstarted, Replied, requests
<1>5. MutatesReply' /\ FramesOfWriters'
  BY <1>1, <1>2 DEF CallInv, MutatesReply, FramesOfWriters, Applied, Replied, requests, writer
<1>6. ResponseOnce'
  <2>1. ~Has(toClient, r)
    BY DEF CallInv, ResponseOnce, Replied
  <2>2. ASSUME NEW q \in Requests
        PROVE  /\ Once(toClient', q)
               /\ Has(toClient', q) => Has(toClient, q) \/ (q = r /\ ~clientBroken')
    <3>1. Once(toClient, q) /\ (x.id = Call(q) => q = r)
      BY DEF CallInv, ResponseOnce
    <3>2. x.id = Call(q) => ~Has(toClient, q)
      BY <2>1, <3>1
    <3>3. /\ Once(Append(toClient, x), q)
          /\ Has(Append(toClient, x), q) => Has(toClient, q) \/ x.id = Call(q)
      BY <1>1, <3>1, <3>2, OneMore
    <3>. QED BY <1>1, <3>1, <3>3
  <2>. QED BY <1>1, <1>2, <2>2 DEF CallInv, ResponseOnce, requests
<1>. QED BY <1>3, <1>4, <1>5, <1>6 DEF CallInv

\* ... when a task that has a reply goes on without a response,
LEMMA CallContinues ==
    ASSUME TypeInv, CallInv, NEW r \in Requests \cup Notifications,
           NEW state \in {"delaying", "failed"},
           task' = [task EXCEPT ![r] = state],
           state = "delaying" => Applied(r),
           task[r] \in {"waiting", "copy_waiting", "undelivered"},
           UNCHANGED <<chosen, requests, writer, received, answered, toClient>>
    PROVE  CallInv'
<1>1. \A q \in ClientLines : task'[q] = IF q = r THEN state ELSE task[q]
  BY DEF TypeInv, TypeOK, HandlersType
<1>2. DrainsHead' /\ PendingOpen' /\ SettledByTarget'
  BY DEF CallInv, DrainsHead, PendingOpen, SettledByTarget, requests, writer
<1>3. OpenUndelivered' /\ Unstarted'
  <2>1. promise' = promise
    BY DEF requests
  <2>2. state = "delaying" => promise[Call(r)] \notin {"open", "rejected"}
    BY DEF Applied, Replied
  <2>. QED BY <1>1, <2>1, <2>2, ZenonT(60) DEF CallInv, OpenUndelivered, Unstarted, ClientLines
<1>4. MutatesReply'
  BY <1>1 DEF CallInv, MutatesReply, Applied, Replied, requests
<1>6. FramesOfWriters'
  BY <1>1, ChainType DEF CallInv, FramesOfWriters, writer
<1>5. ResponseOnce'
  BY <1>1 DEF CallInv, ResponseOnce, requests
<1>. QED BY <1>2, <1>3, <1>4, <1>5, <1>6 DEF CallInv

\* The frames of a chain, without its head and with one more.
LEMMA FramesOfTail ==
    ASSUME NEW frames \in Seq(Frames), frames # <<>>, Distinct(frames)
    PROVE  /\ Distinct(Tail(frames))
           /\ \A f \in Range(Tail(frames)) : f.of # Head(frames).of
<1>. DEFINE t == Tail(frames)
<1>1. /\ DOMAIN t = 1..(Len(frames) - 1) /\ DOMAIN frames = 1..Len(frames)
      /\ Len(frames) \in Nat /\ Len(frames) > 0
      /\ \A i \in DOMAIN t : t[i] = frames[i + 1]
      /\ Head(frames) = frames[1]
  OBVIOUS
<1>. HIDE DEF t
<1>2. Distinct(t)
  BY <1>1 DEF Distinct
<1>3. ASSUME NEW i \in DOMAIN t PROVE t[i].of # Head(frames).of
  <2>1. /\ i + 1 \in DOMAIN frames /\ 1 \in DOMAIN frames /\ i + 1 # 1
        /\ t[i] = frames[i + 1]
    BY <1>1
  <2>. QED BY <1>1, <2>1 DEF Distinct
<1>. QED BY <1>2, <1>3 DEF t, Range

LEMMA FramesOfAppend ==
    ASSUME NEW frames \in Seq(Frames), NEW x \in Frames, Distinct(frames),
           \A f \in Range(frames) : f.of # x.of
    PROVE  Distinct(Append(frames, x))
<1>. DEFINE t == Append(frames, x)
<1>1. /\ DOMAIN t = 1..(Len(frames) + 1) /\ DOMAIN frames = 1..Len(frames)
      /\ Len(frames) \in Nat
      /\ \A i \in 1..Len(frames) : t[i] = frames[i]
      /\ t[Len(frames) + 1] = x
  OBVIOUS
<1>. HIDE DEF t
<1>2. \A i \in 1..Len(frames) : frames[i].of # x.of
  BY <1>1 DEF Range
<1>3. \A i \in DOMAIN t : i \in 1..Len(frames) \/ i = Len(frames) + 1
  BY <1>1
<1>. QED BY <1>1, <1>2, <1>3 DEF Distinct, t

\* ... when the head of the chain leaves it and its task goes on,
LEMMA CallLeavesChain ==
    ASSUME TypeInv, CallInv, chain # <<>>, chain' = Tail(chain), draining' = FALSE,
           NEW state \in {Waiting(Head(chain)), "failed"},
           task' = [task EXCEPT ![Head(chain).of] = state],
           Range(received') \subseteq Range(received) \cup {Head(chain)},
           UNCHANGED <<chosen, requests, answered, toClient>>
    PROVE  CallInv'
<1>. DEFINE f == Head(chain)
<1>1. /\ f \in Range(chain) /\ Range(Tail(chain)) \subseteq Range(chain)
      /\ f \in Frames /\ chain \in Seq(Frames)
  BY RangeOfTail DEF TypeInv, TypeOK, WriterType
<1>2. /\ Distinct(Tail(chain))
      /\ \A g \in Range(Tail(chain)) : g.of # f.of
  BY <1>1, FramesOfTail DEF CallInv, FramesOfWriters
<1>. HIDE DEF f
<1>3. /\ task \in [ClientLines -> TaskStates] /\ f.of \in ClientLines /\ f.copy \in BOOLEAN
  BY <1>1 DEF TypeInv, TypeOK, HandlersType, Frames
<1>4. \A m \in ClientLines : task'[m] = IF m = f.of THEN state ELSE task[m]
  BY <1>3 DEF f
<1>5. /\ task[f.of] = IF f.copy THEN "copy_writing" ELSE "writing"
      /\ f.copy => f.of \in Requests
  BY <1>1 DEF CallInv, FramesOfWriters
<1>6. state \in {"copy_waiting", "waiting", "done", "failed"}
  BY DEF Waiting, f
<1>7. f.of \in Requests => \/ state = "failed"
                          \/ state = IF f.copy THEN "copy_waiting" ELSE "waiting"
  BY DEF Waiting, f
<1>8. DrainsHead' /\ PendingOpen'
  BY DEF CallInv, DrainsHead, PendingOpen, requests
<1>9. OpenUndelivered'
  <2>. SUFFICES ASSUME NEW r \in Requests, promise[Call(r)] \in {"open", "rejected"}
                PROVE  task'[r] \in {"writing", "waiting", "failed"}
    BY DEF OpenUndelivered, requests
  <2>1. task[r] \in {"writing", "waiting", "failed"}
    BY DEF CallInv, OpenUndelivered
  <2>. QED BY <1>4, <1>5, <1>7, <2>1
<1>10. Unstarted'
  BY <1>4, <1>6 DEF CallInv, Unstarted, requests
<1>11. MutatesReply'
  BY <1>4, <1>5, <1>7 DEF CallInv, MutatesReply, Applied, Replied, requests
<1>12. FramesOfWriters'
  <2>. SUFFICES ASSUME NEW g \in Range(Tail(chain))
                PROVE  /\ task'[g.of] = IF g.copy THEN "copy_writing" ELSE "writing"
                       /\ g.copy => g.of \in Requests
    BY <1>2 DEF FramesOfWriters
  <2>1. g \in Range(chain) /\ g.of \in ClientLines /\ g.of # f.of
    BY <1>1, <1>2, ChainType
  <2>. QED BY <1>4, <2>1 DEF CallInv, FramesOfWriters
<1>13. SettledByTarget'
  BY <1>1 DEF CallInv, SettledByTarget, requests, f
<1>14. ResponseOnce'
  BY <1>4, <1>5 DEF CallInv, ResponseOnce, requests
<1>. QED BY <1>8, <1>9, <1>10, <1>11, <1>12, <1>13, <1>14 DEF CallInv

\* ... when a task appends a frame to the chain that is no request of its own,
LEMMA CallAppends ==
    ASSUME TypeInv, CallInv, NEW m \in ClientLines \ Requests, task[m] = "none",
           chain' = Append(chain, Call(m)),
           task' = [task EXCEPT ![m] = "writing"],
           \A r \in Requests : chosen'[r] = chosen[r],
           UNCHANGED <<requests, draining, received, answered, toClient>>
    PROVE  CallInv'
<1>1. /\ chain \in Seq(Frames) /\ Call(m) \in Frames
      /\ task \in [ClientLines -> TaskStates]
  BY DEF TypeInv, TypeOK, WriterType, HandlersType, Frames
<1>2. Range(chain') = Range(chain) \cup {Call(m)} /\ chain' # <<>>
  <2>. DEFINE f == Call(m)
  <2>1. f \in Frames /\ chain' = Append(chain, f)
    BY <1>1
  <2>. HIDE DEF f
  <2>2. Range(chain') = Range(chain) \cup {f} /\ chain' # <<>>
    BY <1>1, <2>1, RangeOfAppend
  <2>. QED BY <2>2 DEF f
<1>3. \A q \in ClientLines : task'[q] = IF q = m THEN "writing" ELSE task[q]
  BY <1>1
<1>4. \A f \in Range(chain) : f.of # m
  BY DEF CallInv, FramesOfWriters
<1>5. DrainsHead' /\ PendingOpen'
  BY <1>2 DEF CallInv, DrainsHead, PendingOpen, requests
<1>10. \A r \in Requests : task'[r] = task[r]
  BY <1>3
<1>11. OpenUndelivered' /\ Unstarted'
  BY <1>10 DEF CallInv, OpenUndelivered, Unstarted, requests
<1>6. MutatesReply'
  BY <1>3 DEF CallInv, MutatesReply, Applied, Replied, requests
<1>7. FramesOfWriters'
  <2>1. Distinct(chain')
    BY <1>1, <1>4, FramesOfAppend DEF CallInv, FramesOfWriters
  <2>2. ASSUME NEW f \in Range(chain')
        PROVE  /\ task'[f.of] = IF f.copy THEN "copy_writing" ELSE "writing"
               /\ f.copy => f.of \in Requests
    <3>1. CASE f = Call(m)
      BY <1>3, <3>1
    <3>2. CASE f \in Range(chain)
      BY <1>3, <1>4, <3>2, ChainType DEF CallInv, FramesOfWriters
    <3>. QED BY <1>2, <3>1, <3>2
  <2>. QED BY <2>1, <2>2 DEF FramesOfWriters
<1>8. SettledByTarget'
  <2>1. Call(m) \notin Keys
    BY DEF Keys
  <2>. QED BY <1>2, <2>1 DEF CallInv, SettledByTarget, requests
<1>9. ResponseOnce'
  BY <1>3 DEF CallInv, ResponseOnce, requests
<1>. QED BY <1>5, <1>6, <1>7, <1>8, <1>9, <1>11 DEF CallInv

\* ... and when it sends a request to the target, as the first one of its task
\* or as the duplicate of one that was answered.
LEMMA CallSends ==
    ASSUME TypeInv, CallInv, NEW k \in Keys, NEW l, SendTargetRequest(k, l),
           IF k.copy THEN task[k.of] = "waiting" /\ Applied(k.of) ELSE task[k.of] = "none",
           task' = [task EXCEPT ![k.of] = IF k.copy THEN "copy_writing" ELSE "writing"],
           \A r \in Requests : r # k.of \/ k.copy => chosen'[r] = chosen[r],
           UNCHANGED <<received, answered, toClient>>
    PROVE  CallInv'
<1>1. /\ chain \in Seq(Frames) /\ k \in Frames /\ k.of \in Requests /\ k.of \in ClientLines
      /\ k.copy \in BOOLEAN
      /\ task \in [ClientLines -> TaskStates]
      /\ promise \in [Keys -> Settlements] /\ pending \subseteq Keys
  BY DEF TypeInv, TypeOK, WriterType, HandlersType, RequestsType, Frames, Keys
<1>2. /\ chain' = Append(chain, k)
      /\ pending' = pending \cup {k} /\ promise' = [promise EXCEPT ![k] = "open"]
      /\ UNCHANGED <<discarded, draining>>
  BY DEF SendTargetRequest
<1>3. Range(chain') = Range(chain) \cup {k} /\ chain' # <<>>
  BY <1>1, <1>2, RangeOfAppend
<1>4. \A q \in ClientLines :
          task'[q] = IF q = k.of THEN IF k.copy THEN "copy_writing" ELSE "writing" ELSE task[q]
  BY <1>1
<1>5. \A j \in Keys : promise'[j] = IF j = k THEN "open" ELSE promise[j]
  BY <1>1, <1>2
<1>6. \A f \in Range(chain) : f.of # k.of
  BY DEF CallInv, FramesOfWriters
<1>7. /\ \A r \in Requests : Call(r) \in Keys
      /\ \A r \in Requests : Call(r) = k <=> r = k.of /\ ~k.copy
  BY <1>1 DEF Keys
<1>8. DrainsHead' /\ PendingOpen'
  BY <1>2, <1>3, <1>5 DEF CallInv, DrainsHead, PendingOpen
<1>9. OpenUndelivered'
  <2>. SUFFICES ASSUME NEW r \in Requests, promise'[Call(r)] \in {"open", "rejected"}
                PROVE  task'[r] \in {"writing", "waiting", "failed"}
    BY DEF OpenUndelivered
  <2>1. CASE r = k.of /\ ~k.copy
    BY <1>1, <1>4, <2>1
  <2>2. CASE r = k.of /\ k.copy
    BY <1>5, <1>7, <2>2 DEF Applied, Replied
  <2>3. CASE r # k.of
    BY <1>4, <1>5, <1>7, <2>3 DEF CallInv, OpenUndelivered
  <2>. QED BY <2>1, <2>2, <2>3
<1>10. Unstarted'
  BY <1>4, <1>5, <1>7 DEF CallInv, Unstarted
<1>11. MutatesReply'
  <2>. SUFFICES ASSUME NEW r \in Requests,
                       task'[r] \in {"delaying", "copy_writing", "copy_waiting"}
                PROVE  Applied(r)'
    BY DEF MutatesReply
  <2>1. r # k.of \/ k.copy
    BY <1>1, <1>4
  <2>2. promise'[Call(r)] = promise[Call(r)] /\ chosen'[r] = chosen[r]
    BY <1>5, <1>7, <2>1
  <2>3. Applied(r)
    BY <1>1, <1>4, <2>1 DEF CallInv, MutatesReply
  <2>. QED BY <2>2, <2>3 DEF Applied, Replied
<1>12. FramesOfWriters'
  <2>1. Distinct(chain')
    BY <1>1, <1>2, <1>6, FramesOfAppend DEF CallInv, FramesOfWriters
  <2>2. ASSUME NEW f \in Range(chain')
        PROVE  /\ task'[f.of] = IF f.copy THEN "copy_writing" ELSE "writing"
               /\ f.copy => f.of \in Requests
    <3>1. CASE f = k
      BY <1>1, <1>4, <3>1
    <3>2. CASE f \in Range(chain)
      BY <1>4, <1>6, <3>2, ChainType DEF CallInv, FramesOfWriters
    <3>. QED BY <1>3, <3>1, <3>2
  <2>. QED BY <2>1, <2>2 DEF FramesOfWriters
<1>13. SettledByTarget'
  BY <1>2, <1>3, <1>5 DEF CallInv, SettledByTarget
<1>14. ResponseOnce'
  <2>. SUFFICES ASSUME NEW r \in Requests, Has(toClient, r)
                PROVE  \/ task'[r] = "done"
                       \/ promise'[Call(r)] = "rejected" /\ answered[Call(r)] # "none"
    BY DEF CallInv, ResponseOnce
  <2>1. \/ task[r] = "done"
        \/ promise[Call(r)] = "rejected" /\ answered[Call(r)] # "none"
    BY DEF CallInv, ResponseOnce
  <2>2. r # k.of
    BY <1>1, <2>1 DEF CallInv, Unstarted, Applied, Replied
  <2>. QED BY <1>4, <1>5, <1>7, <2>1, <2>2
<1>. QED BY <1>8, <1>9, <1>10, <1>11, <1>12, <1>13, <1>14 DEF CallInv

\* Every step keeps CallInv.
LEMMA CallStep ==
    ASSUME TypeInv, CallInv, [Next]_vars
    PROVE  CallInv'
<1>. DEFINE Goal == CallInv'
<1>0. /\ task \in [ClientLines -> TaskStates] /\ promise \in [Keys -> Settlements]
      /\ chosen \in [Requests \cup Notifications -> 0..Len(Mutations)]
      /\ answered \in [Keys -> {"none", "result", "error"}]
      /\ toClient \in Seq(ClientMessages) /\ chain \in Seq(Frames) /\ received \in Seq(Frames)
      /\ pending \subseteq Keys /\ discarded \subseteq Keys
      /\ \A r \in Requests : Call(r) \in Keys
  BY DEF TypeInv, TypeOK, HandlersType, RequestsType, ServerType, WriterType, Keys
<1>1. ASSUME NEW m \in Requests \cup Notifications, DenyBeforeCall(m) PROVE Goal
  <2>1. /\ toClient' = IF clientBroken' THEN toClient ELSE
                Append(toClient, [id |-> Call(m), kind |-> "injected", of |-> Call(m)])
        /\ [id |-> Call(m), kind |-> "injected", of |-> Call(m)] \in ClientMessages
        /\ task[m] = "none"
        /\ task' = [task EXCEPT ![m] = IF clientBroken' THEN "undelivered" ELSE "done"]
        /\ chosen' = [chosen EXCEPT ![m] = Selected(m)]
        /\ UNCHANGED <<requests, writer, received, answered>>
    <3>1. Call(m) \in [of: ClientLines \cup ServerNotifications, copy: BOOLEAN]
      OBVIOUS
    <3>. QED BY <1>1, <3>1, ClientMessageType DEF DenyBeforeCall, WriteClient, Arrive, server
  <2>2. \A q \in ClientLines :
            task'[q] = IF q = m THEN IF clientBroken' THEN "undelivered" ELSE "done" ELSE task[q]
    BY <1>0, <2>1
  <2>3. m \in Requests => promise[Call(m)] = "unused"
    BY <2>1 DEF CallInv, Unstarted
  <2>4. DrainsHead' /\ PendingOpen' /\ SettledByTarget'
    BY <2>1 DEF CallInv, DrainsHead, PendingOpen, SettledByTarget, requests, writer
  <2>5. OpenUndelivered' /\ Unstarted'
    BY <2>1, <2>2, <2>3 DEF CallInv, OpenUndelivered, Unstarted, requests
  <2>6. MutatesReply'
    BY <1>0, <2>1, <2>2, <2>3 DEF CallInv, MutatesReply, Applied, Replied, requests
  <2>7. FramesOfWriters'
    BY <2>1, <2>2, ChainType DEF CallInv, FramesOfWriters, writer
  <2>8. ResponseOnce'
    <3>. DEFINE x == [id |-> Call(m), kind |-> "injected", of |-> Call(m)]
    <3>1. ASSUME NEW q \in Requests
          PROVE  /\ Once(toClient', q)
                 /\ Has(toClient', q) => Has(toClient, q) \/ (q = m /\ ~clientBroken')
      <4>1. Once(toClient, q) /\ (x.id = Call(q) => q = m)
        BY DEF CallInv, ResponseOnce
      <4>2. x.id = Call(q) => ~Has(toClient, q)
        BY <2>1, <2>3, <4>1 DEF CallInv, ResponseOnce
      <4>3. /\ Once(Append(toClient, x), q)
            /\ Has(Append(toClient, x), q) => Has(toClient, q) \/ x.id = Call(q)
        BY <1>0, <2>1, <4>1, <4>2, OneMore
      <4>. QED BY <2>1, <4>1, <4>3
    <3>. QED BY <2>1, <2>2, <3>1 DEF CallInv, ResponseOnce, requests
  <2>. QED BY <2>4, <2>5, <2>6, <2>7, <2>8 DEF CallInv
<1>2. ASSUME NEW r \in Requests, ForwardRequest(r) PROVE Goal
  <2>1. /\ Call(r) \in Keys /\ ~Call(r).copy /\ Call(r).of = r
    BY <1>0
  <2>2. /\ SendTargetRequest(Call(r), Arrival(r))
        /\ task[r] = "none" /\ task' = [task EXCEPT ![r] = "writing"]
        /\ \A q \in Requests : q # r => chosen'[q] = chosen[q]
        /\ UNCHANGED <<received, answered, toClient>>
    BY <1>0, <1>2 DEF ForwardRequest, Arrive, server
  <2>. HIDE DEF Call
  <2>. QED BY <2>1, <2>2, CallSends
<1>3. ASSUME NEW n \in Notifications, ForwardNotification(n) PROVE Goal
  <2>1. n \in ClientLines \ Requests
    BY ProxyAssumption
  <2>2. /\ chain' = Append(chain, Call(n))
        /\ task[n] = "none" /\ task' = [task EXCEPT ![n] = "writing"]
        /\ \A q \in Requests : chosen'[q] = chosen[q]
        /\ UNCHANGED <<requests, draining, received, answered, toClient>>
    BY <1>0, <1>3, <2>1 DEF ForwardNotification, Arrive, server
  <2>. QED BY <2>1, <2>2, CallAppends
<1>4. ASSUME NEW t \in ServerRequests, ClientReplies(t) PROVE Goal
  <2>1. t \in ClientLines \ Requests
    BY ProxyAssumption
  <2>2. /\ chain' = Append(chain, Call(t))
        /\ task[t] = "none" /\ task' = [task EXCEPT ![t] = "writing"]
        /\ \A q \in Requests : chosen'[q] = chosen[q]
        /\ UNCHANGED <<requests, draining, received, answered, toClient>>
    BY <1>4 DEF ClientReplies, server
  <2>. QED BY <2>1, <2>2, CallAppends
<1>5. CASE WriteLine
  <2>1. Range(received') \subseteq Range(received) \cup {Head(chain)}
    <3>1. Head(chain) \in Frames /\ received' = Append(received, Head(chain))
      BY <1>0, <1>5 DEF WriteLine
    <3>. QED BY <1>0, <3>1, RangeOfAppend
  <2>2. /\ chain # <<>> /\ chain' = Tail(chain) /\ draining' = FALSE
        /\ task' = [task EXCEPT ![Head(chain).of] = Waiting(Head(chain))]
        /\ UNCHANGED <<chosen, requests, answered, toClient>>
    BY <1>5 DEF WriteLine, Written
  <2>. QED BY <2>1, <2>2, CallLeavesChain
<1>6. CASE WriteBlocks
  <2>1. Range(received') = Range(received) \cup {Head(chain)}
    <3>1. Head(chain) \in Frames /\ received' = Append(received, Head(chain))
      BY <1>0, <1>6 DEF WriteBlocks
    <3>. QED BY <1>0, <3>1, RangeOfAppend
  <2>2. /\ chain # <<>>
        /\ UNCHANGED <<handlers, requests, chain, answered, toClient>>
    BY <1>6 DEF WriteBlocks
  <2>3. Head(chain) \in Range(chain)
    BY <1>0, <2>2, RangeOfTail
  <2>4. SettledByTarget'
    BY <2>1, <2>2, <2>3 DEF CallInv, SettledByTarget, requests
  <2>. QED BY <2>2, <2>4 DEF CallInv, DrainsHead, PendingOpen, OpenUndelivered, Unstarted,
           MutatesReply, FramesOfWriters, ResponseOnce, Applied, Replied, handlers, requests
<1>7. CASE WriteDrains
  <2>1. /\ chain # <<>> /\ chain' = Tail(chain) /\ draining' = FALSE
        /\ task' = [task EXCEPT ![Head(chain).of] = Waiting(Head(chain))]
        /\ UNCHANGED <<chosen, requests, received, answered, toClient>>
    BY <1>7 DEF WriteDrains, Written, CallInv, DrainsHead
  <2>. QED BY <2>1, CallLeavesChain
<1>8. CASE WriteFails
  <2>1. /\ chain # <<>> /\ chain' = Tail(chain) /\ draining' = FALSE
        /\ task' = [task EXCEPT ![Head(chain).of] = "failed"]
        /\ UNCHANGED <<chosen, requests, received, answered, toClient>>
    BY <1>8 DEF WriteFails, server
  <2>. QED BY <2>1, CallLeavesChain
<1>9. ASSUME NEW k \in Keys, NEW outcome \in {"result", "error"}, TargetAnswers(k, outcome)
      PROVE  Goal
  <2>1. /\ answered[k] = "none" /\ k \in Range(received)
        /\ answered' = [answered EXCEPT ![k] = outcome]
        /\ UNCHANGED <<task, chosen, chain, draining, received>>
    BY <1>9 DEF TargetAnswers, handlers, writer
  <2>2. \A j \in Keys : answered'[j] = IF j = k THEN outcome ELSE answered[j]
    BY <1>0, <2>1
  <2>3. CASE k \in pending
    <3>1. /\ pending' = pending \ {k} /\ UNCHANGED <<discarded, toClient>>
          /\ promise' = [promise EXCEPT ![k] = outcome]
      BY <1>9, <2>3 DEF TargetAnswers
    <3>2. /\ promise[k] = "open"
          /\ \A j \in Keys : promise'[j] = IF j = k THEN outcome ELSE promise[j]
      BY <1>0, <2>3, <3>1 DEF CallInv, PendingOpen
    <3>3. DrainsHead' /\ PendingOpen' /\ SettledByTarget'
      BY <2>1, <2>2, <3>1, <3>2 DEF CallInv, DrainsHead, PendingOpen, SettledByTarget
    <3>4. OpenUndelivered' /\ Unstarted'
      BY <1>0, <2>1, <3>2 DEF CallInv, OpenUndelivered, Unstarted
    <3>5. MutatesReply' /\ FramesOfWriters'
      BY <1>0, <2>1, <3>2 DEF CallInv, MutatesReply, Applied, Replied, FramesOfWriters
    <3>6. ResponseOnce'
      BY <1>0, <2>1, <2>2, <3>1, <3>2 DEF CallInv, ResponseOnce
    <3>. QED BY <3>3, <3>4, <3>5, <3>6 DEF CallInv
  <2>4. CASE k \notin pending /\ k \in discarded
    <3>1. discarded' = discarded \ {k} /\ UNCHANGED <<pending, promise, toClient>>
      BY <1>9, <2>4 DEF TargetAnswers
    <3>2. DrainsHead' /\ PendingOpen' /\ SettledByTarget'
      BY <2>1, <2>2, <3>1 DEF CallInv, DrainsHead, PendingOpen, SettledByTarget
    <3>3. ResponseOnce'
      BY <1>0, <2>1, <2>2, <3>1 DEF CallInv, ResponseOnce
    <3>. QED BY <2>1, <3>1, <3>2, <3>3 DEF CallInv, OpenUndelivered, Unstarted, MutatesReply,
             FramesOfWriters, Applied, Replied
  <2>5. CASE k \notin pending /\ k \notin discarded
    <3>. DEFINE x == [id |-> k, kind |-> outcome, of |-> k]
    <3>1. /\ toClient' = toClient \/ toClient' = Append(toClient, x)
          /\ UNCHANGED <<pending, discarded, promise>>
      BY <1>9, <2>5 DEF TargetAnswers, WriteClient, requests
    <3>2. x \in ClientMessages
      <4>1. k \in [of: ClientLines \cup ServerNotifications, copy: BOOLEAN]
        BY DEF Keys
      <4>. QED BY <4>1, ClientMessageType
    <3>3. promise[k] = "rejected"
      BY <1>0, <2>1, <2>5 DEF CallInv, PendingOpen, SettledByTarget, Settlements
    <3>4. DrainsHead' /\ PendingOpen' /\ SettledByTarget'
      BY <2>1, <2>2, <3>1 DEF CallInv, DrainsHead, PendingOpen, SettledByTarget
    <3>5. ResponseOnce'
      <4>. SUFFICES ASSUME NEW q \in Requests
                    PROVE  /\ Once(toClient', q)
                           /\ Has(toClient', q) =>
                                 \/ task'[q] = "done"
                                 \/ promise'[Call(q)] = "rejected" /\ answered'[Call(q)] # "none"
        BY DEF ResponseOnce
      <4>1. Once(toClient, q)
        BY DEF CallInv, ResponseOnce
      <4>2. x.id = Call(q) => ~Has(toClient, q)
        BY <2>1, <3>3 DEF CallInv, ResponseOnce, OpenUndelivered
      <4>3. /\ Once(Append(toClient, x), q)
            /\ Has(Append(toClient, x), q) => Has(toClient, q) \/ x.id = Call(q)
        BY <1>0, <3>2, <4>1, <4>2, OneMore
      <4>. QED BY <1>0, <2>1, <2>2, <3>1, <3>3, <4>3 DEF CallInv, ResponseOnce
    <3>. QED BY <2>1, <3>1, <3>4, <3>5 DEF CallInv, OpenUndelivered, Unstarted, MutatesReply,
             FramesOfWriters, Applied, Replied
  <2>. QED BY <2>3, <2>4, <2>5
<1>10. ASSUME NEW t \in ServerRequests \cup ServerNotifications, TargetSends(t) PROVE Goal
  <2>. DEFINE x == [id |-> Call(t), kind |-> "forwarded", of |-> Call(t)]
  <2>1. /\ toClient' = toClient \/ toClient' = Append(toClient, x)
        /\ UNCHANGED <<handlers, requests, writer, received, answered>>
    BY <1>10 DEF TargetSends, WriteClient
  <2>2. x \in ClientMessages
    <3>1. Call(t) \in [of: ClientLines \cup ServerNotifications, copy: BOOLEAN]
      OBVIOUS
    <3>. QED BY <3>1, ClientMessageType
  <2>3. ResponseOnce'
    <3>1. ASSUME NEW q \in Requests
          PROVE  Once(toClient', q) /\ (Has(toClient', q) => Has(toClient, q))
      <4>1. Once(toClient, q) /\ x.id # Call(q)
        BY ProxyAssumption DEF CallInv, ResponseOnce
      <4>2. /\ Once(Append(toClient, x), q)
            /\ Has(Append(toClient, x), q) => Has(toClient, q) \/ x.id = Call(q)
        BY <1>0, <2>2, <4>1, OneMore
      <4>. QED BY <2>1, <4>1, <4>2
    <3>. QED BY <2>1, <3>1 DEF CallInv, ResponseOnce, handlers, requests
  <2>. QED BY <2>1, <2>3 DEF CallInv, DrainsHead, PendingOpen, OpenUndelivered, Unstarted,
           MutatesReply, FramesOfWriters, SettledByTarget, Applied, Replied, handlers, requests,
           writer
<1>11. ASSUME NEW k \in Keys, RequestTimeout(k) PROVE Goal
  <2>1. /\ k \in pending /\ pending' = pending \ {k} /\ discarded' = discarded \cup {k}
        /\ promise' = [promise EXCEPT ![k] = "timeout"]
        /\ UNCHANGED <<task, chosen, chain, draining, received, answered, toClient>>
    BY <1>11 DEF RequestTimeout, handlers, writer, server
  <2>2. /\ promise[k] = "open"
        /\ \A j \in Keys : promise'[j] = IF j = k THEN "timeout" ELSE promise[j]
    BY <1>0, <2>1 DEF CallInv, PendingOpen
  <2>3. DrainsHead' /\ PendingOpen' /\ SettledByTarget'
    BY <2>1, <2>2 DEF CallInv, DrainsHead, PendingOpen, SettledByTarget
  <2>4. OpenUndelivered' /\ Unstarted'
    BY <1>0, <2>1, <2>2 DEF CallInv, OpenUndelivered, Unstarted
  <2>5. MutatesReply' /\ FramesOfWriters'
    BY <1>0, <2>1, <2>2 DEF CallInv, MutatesReply, Applied, Replied, FramesOfWriters
  <2>6. ResponseOnce'
    BY <1>0, <2>1, <2>2 DEF CallInv, ResponseOnce
  <2>. QED BY <2>3, <2>4, <2>5, <2>6 DEF CallInv
<1>12. ASSUME NEW r \in Requests, Replied(Call(r))
       PROVE  /\ Original(r) \in ClientMessages /\ Original(r).id = Call(r)
              /\ chosen[r] # 0 => Visible(r) \in ClientMessages /\ Visible(r).id = Call(r)
  BY <1>12, ReplyTypes DEF Original, Visible
<1>13. ASSUME NEW r \in Requests, ReturnReply(r) PROVE Goal
  BY <1>12, <1>13, CallDelivers DEF ReturnReply
<1>14. ASSUME NEW r \in Requests, MutateReply(r) PROVE Goal
  BY <1>12, <1>14, CallDelivers DEF MutateReply, MutationStarts
<1>15. ASSUME NEW r \in Requests, DelayReply(r) PROVE Goal
  BY <1>15, CallContinues DEF DelayReply, MutationStarts, Applied, server
<1>16. ASSUME NEW r \in Requests, FinishDelay(r) PROVE Goal
  <2>1. Applied(r)
    BY <1>16 DEF FinishDelay, CallInv, MutatesReply
  <2>. QED BY <1>12, <1>16, <2>1, CallDelivers DEF FinishDelay, Applied
<1>17. ASSUME NEW r \in Requests, DuplicateCall(r) PROVE Goal
  <2>. DEFINE k == Duplicate(r)
              l == Logged(log, MutationEvent(r))
  <2>1. /\ k \in Keys /\ k.copy /\ k.of = r
    BY DEF Keys
  <2>2. /\ SendTargetRequest(k, l)
        /\ task[r] = "waiting" /\ Applied(r) /\ task' = [task EXCEPT ![r] = "copy_writing"]
        /\ UNCHANGED <<chosen, received, answered, toClient>>
    BY <1>17 DEF DuplicateCall, MutationStarts, Applied, server
  <2>. HIDE DEF k, l
  <2>. QED BY <2>1, <2>2, CallSends
<1>18. ASSUME NEW r \in Requests, FinishDuplicate(r) PROVE Goal
  <2>1. Applied(r)
    BY <1>18 DEF FinishDuplicate, CallInv, MutatesReply
  <2>. QED BY <1>12, <1>18, <2>1, CallDelivers DEF FinishDuplicate, Applied
<1>19. ASSUME NEW r \in Requests, ReplyRejected(r) PROVE Goal
  BY <1>19, CallContinues DEF ReplyRejected, server
<1>23. ASSUME NEW m \in Requests \cup Notifications, DeliveryFails(m) PROVE Goal
  BY <1>23, CallContinues DEF DeliveryFails, server
<1>20. CASE TargetCloses \/ MainRejects
  BY <1>20, CallRejects DEF TargetCloses, MainRejects, handlers, writer, server
<1>21. CASE \/ ClientEnds \/ InvalidLine \/ TargetExits \/ Interrupt \/ InterruptAgain \/ RunTimeout
            \/ CloserTerminates \/ CloserKills
            \/ MainDrains \/ MainCloses \/ MainHashes \/ MainPersists \/ MainReturns
            \/ UNCHANGED vars
  BY <1>21, CallUnchanged DEF ClientEnds, InvalidLine, TargetExits, Interrupt, InterruptAgain,
     RunTimeout, CloserTerminates, CloserKills, MainDrains, MainCloses, MainHashes, MainPersists, MainReturns,
     vars, handlers, requests, writer, server
<1>22. ASSUME NEW c \in StderrChunks, TargetWritesStderr(c) PROVE Goal
  BY <1>22, CallUnchanged DEF TargetWritesStderr, handlers, requests, writer
<1>. QED
  BY <1>1, <1>2, <1>3, <1>4, <1>5, <1>6, <1>7, <1>8, <1>9, <1>10, <1>11, <1>13, <1>14, <1>15,
     <1>16, <1>17, <1>18, <1>19, <1>20, <1>21, <1>22, <1>23
  DEF Next, Prompt, Turn, Terminated, ClientLine, TargetLine, Resume

-------------------------------------------------------------------------------
(* The theorems.                                                           *)

LEMMA InitInv == Init => TypeInv /\ CallInv
<1>. SUFFICES ASSUME Init PROVE TypeInv /\ CallInv
  OBVIOUS
<1>1. GoodLog(log)
  BY EmptyLogSound DEF Init, GoodLog
<1>2. Len(Mutations) \in Nat
  BY ProxyAssumption
<1>3. TypeInv
  <2>1. HandlersType /\ ChosenHasTool
    BY <1>2 DEF Init, HandlersType, ChosenHasTool, TaskStates
  <2>2. RequestsType
    BY DEF Init, RequestsType, Settlements
  <2>5. WriterType
    BY EmptySeq DEF Init, WriterType
  <2>3. ServerType /\ toClient \in Seq(ClientMessages)
    BY EmptySeq DEF Init, ServerType
  <2>4. ClosingType /\ MainType
    BY DEF Init, ClosingType, MainType, MainStates
  <2>. QED BY <1>1, <2>1, <2>2, <2>3, <2>4, <2>5 DEF TypeInv, TypeOK, GoodLog
<1>4. /\ Range(chain) = {} /\ Range(received) = {} /\ DOMAIN toClient = {}
      /\ \A r \in Requests : Call(r) \in Keys
  BY DEF Init, Range, Keys
<1>5. CallInv
  BY <1>4 DEF Init, CallInv, DrainsHead, PendingOpen, OpenUndelivered, Unstarted, MutatesReply,
     FramesOfWriters, Distinct, SettledByTarget, ResponseOnce, Once, Has
<1>. QED BY <1>3, <1>5

LEMMA Invariance == Spec => [](TypeInv /\ CallInv)
<1>1. TypeInv /\ CallInv /\ [Next]_vars => (TypeInv /\ CallInv)'
  BY TypeStep, CallStep DEF CallInv
<1>. QED BY InitInv, <1>1, PTL DEF Spec

\* Types, for every number of messages and every list of mutations.
THEOREM TypeCorrect == Spec => []TypeOK
<1>1. TypeInv => TypeOK
  BY DEF TypeInv
<1>. QED BY Invariance, <1>1, PTL

\* The capture of runStdioProxy keeps within its limits, tells when it is
\* incomplete and numbers its events in order, whatever the traffic.
THEOREM CaptureSound == Spec => []CaptureIsSound
<1>1. TypeInv => CaptureIsSound
  BY DEF TypeInv, SoundLog, CaptureIsSound
<1>. QED BY Invariance, <1>1, PTL

\* handleClientMessage and handleTargetMessage never answer a request of the
\* client twice, for any number of pipelined requests and any mutations.
THEOREM AtMostOne == Spec => []AtMostOneResponse
<1>1. CallInv => AtMostOneResponse
  BY DEF CallInv, ResponseOnce, Once, AtMostOneResponse
<1>. QED BY Invariance, <1>1, PTL

===============================================================================
