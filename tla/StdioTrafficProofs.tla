-------------------------- MODULE StdioTrafficProofs --------------------------
(***************************************************************************)
(* Theorems about what StdioProxy says of the traffic: to the client, in   *)
(* the capture and by its exit, for every set of messages, every list of   *)
(* mutations, every limit and every behaviour of client and target.        *)
(***************************************************************************)
EXTENDS StdioProxyProofs, FiniteSetTheorems

USE DEF ClientLines, Call, Duplicate, Finished

-------------------------------------------------------------------------------
(* Where messages are.                                                     *)

Read == Range(received)
Queued == Range(chain)
Answers == {toClient[i].id : i \in DOMAIN toClient}

\* A frame the target has read belongs to a task that has begun, and a duplicate
\* to one that has come to it.
CopyStates == {"copy_writing", "copy_waiting", "undelivered", "done", "failed"}
USE DEF CopyStates

ReadIsStarted ==
    \A f \in Read :
        /\ task[f.of] # "none"
        /\ f.copy => f.of \in Requests /\ task[f.of] \in CopyStates

\* Only the frame whose write waits for drain is both read and in the chain.
HeadIsRead ==
    /\ draining => Head(chain) \in Read
    /\ \A f \in Queued : f \in Read => draining /\ f = Head(chain)

\* A task that awaits more than the write of its call was read by the target.
CallIsRead ==
    \A r \in Requests :
        task[r] \in {"waiting", "delaying", "copy_writing", "copy_waiting"} => Call(r) \in Read

FramesInv == ReadIsStarted /\ HeadIsRead /\ CallIsRead

LEMMA AnswersOfAppend ==
    ASSUME NEW msgs \in Seq(ClientMessages), NEW x \in ClientMessages
    PROVE  {Append(msgs, x)[i].id : i \in DOMAIN Append(msgs, x)}
              = {msgs[i].id : i \in DOMAIN msgs} \cup {x.id}
<1>. DEFINE t == Append(msgs, x)
<1>1. /\ DOMAIN t = 1..(Len(msgs) + 1) /\ DOMAIN msgs = 1..Len(msgs) /\ Len(msgs) \in Nat
      /\ \A i \in 1..Len(msgs) : t[i] = msgs[i]
      /\ t[Len(msgs) + 1] = x
  OBVIOUS
<1>. HIDE DEF t
<1>2. ASSUME NEW i \in DOMAIN t PROVE t[i].id \in {msgs[j].id : j \in DOMAIN msgs} \cup {x.id}
  <2>1. i \in DOMAIN msgs \/ i = Len(msgs) + 1
    BY <1>1
  <2>. QED BY <1>1, <2>1
<1>3. ASSUME NEW i \in DOMAIN msgs PROVE msgs[i].id \in {t[j].id : j \in DOMAIN t}
  <2>1. i \in DOMAIN t /\ t[i] = msgs[i]
    BY <1>1
  <2>. QED BY <2>1
<1>4. x.id \in {t[j].id : j \in DOMAIN t}
  <2>1. Len(msgs) + 1 \in DOMAIN t
    BY <1>1
  <2>. QED BY <1>1, <2>1
<1>. QED BY <1>2, <1>3, <1>4, ZenonT(60) DEF t

Declared(r) == MutationOf(r).type = "duplicate_call"

\* How the lines of a step may move: a frame joins the chain, ...
Queues(f) ==
    /\ chain' = Append(chain, f)
    /\ task' = [task EXCEPT ![f.of] = IF f.copy THEN "copy_writing" ELSE "writing"]
    /\ IF f.copy THEN f.of \in Requests /\ task[f.of] = "waiting" /\ Declared(f.of)
                 ELSE task[f.of] = "none"
    /\ UNCHANGED <<received, draining, toClient, failure, answered>>

\* ... its head is written, ...
Writes ==
    /\ chain # <<>>
    /\ \/ ~draining /\ received' = Append(received, Head(chain))
       \/ draining /\ received' = received
    /\ \/ /\ chain' = Tail(chain)
          /\ draining' = FALSE
          /\ task' = [task EXCEPT ![Head(chain).of] = Waiting(Head(chain))]
       \/ /\ ~draining
          /\ draining' = TRUE
          /\ UNCHANGED <<chain, task>>
    /\ UNCHANGED <<toClient, failure, answered>>

\* ... or its write fails, ...
Breaks ==
    /\ chain # <<>>
    /\ chain' = Tail(chain)
    /\ draining' = FALSE
    /\ task' = [task EXCEPT ![Head(chain).of] = "failed"]
    /\ failure'
    /\ UNCHANGED <<received, toClient, answered>>

\* ... a response is written to a client that takes it or has closed its end, ...
Gives(m) ==
    \/ /\ task' = [task EXCEPT ![m] = "done"]
       /\ \E x \in ClientMessages : x.id = Call(m) /\ toClient' = Append(toClient, x)
    \/ /\ task' = [task EXCEPT ![m] = "undelivered"]
       /\ UNCHANGED toClient

\* ... a task goes on after its answer, ...
Continues ==
    /\ \E r \in Requests :
          \/ /\ task[r] \in {"waiting", "delaying", "copy_waiting"}
             /\ Gives(r)
             /\ UNCHANGED failure
          \/ /\ task[r] \in {"waiting", "copy_waiting"}
             /\ task' = [task EXCEPT ![r] = "failed"]
             /\ failure'
             /\ UNCHANGED toClient
          \/ /\ task[r] = "waiting"
             /\ task' = [task EXCEPT ![r] = "delaying"]
             /\ UNCHANGED <<toClient, failure>>
    /\ UNCHANGED <<chain, draining, received, answered>>

\* ... a message is denied, ...
Denies(m) ==
    /\ task[m] = "none"
    /\ Gives(m)
    /\ UNCHANGED <<chain, draining, received, failure, answered>>

\* ... ends without its response delivered, ...
Loses(m) ==
    /\ task[m] = "undelivered"
    /\ task' = [task EXCEPT ![m] = "failed"]
    /\ failure'
    /\ UNCHANGED <<chain, draining, received, toClient, answered>>

\* ... the target says something, or nothing of this happens.
Listens ==
    /\ \/ toClient' = toClient
       \/ \E x \in ClientMessages :
             /\ toClient' = Append(toClient, x)
             /\ x.id.copy => x.id \in Keys /\ promise[x.id] = "rejected" /\ target # "closed"
    /\ \A k \in Keys : answered[k] # "none" => answered'[k] = answered[k]
    /\ failure => failure'
    /\ UNCHANGED <<task, chain, draining, received>>

\* A write to the client delivers its message, or fails.
LEMMA WriteEnds ==
    ASSUME NEW x, WriteClient(x)
    PROVE  /\ clientBroken' => toClient' = toClient
           /\ ~clientBroken' => toClient' = Append(toClient, x)
BY DEF WriteClient

LEMMA Steps ==
    ASSUME TypeInv, CallInv, [Next]_vars
    PROVE  \/ \E f \in Frames : Queues(f)
           \/ Writes \/ Breaks \/ Continues \/ Listens
           \/ \E m \in Requests \cup Notifications : Denies(m) \/ Loses(m)
<1>. DEFINE Goal == \/ \E f \in Frames : Queues(f)
                    \/ Writes \/ Breaks \/ Continues \/ Listens
                    \/ \E m \in Requests \cup Notifications : Denies(m) \/ Loses(m)
<1>0. /\ toClient \in Seq(ClientMessages)
      /\ answered \in [Keys -> {"none", "result", "error"}]
      /\ \A m \in ClientLines : Call(m) \in [of: ClientLines \cup ServerNotifications, copy: BOOLEAN]
  BY DEF TypeInv, TypeOK, ServerType
<1>1. ASSUME NEW m \in Requests \cup Notifications, DenyBeforeCall(m) PROVE Goal
  <2>. DEFINE x == [id |-> Call(m), kind |-> "injected", of |-> Call(m)]
  <2>1. x \in ClientMessages /\ x.id = Call(m)
    BY <1>0, ClientMessageType
  <2>2. /\ WriteClient(x) /\ task[m] = "none"
        /\ task' = [task EXCEPT ![m] = IF clientBroken' THEN "undelivered" ELSE "done"]
        /\ UNCHANGED <<chain, draining, received, failure, answered>>
    BY <1>1 DEF DenyBeforeCall, Arrive, writer, server, closing
  <2>. HIDE DEF x
  <2>3. Denies(m)
    BY <2>1, <2>2, WriteEnds DEF Denies, Gives
  <2>. QED BY <2>3
<1>2. ASSUME NEW r \in Requests, ForwardRequest(r) PROVE Goal
  <2>1. Call(r) \in Frames /\ Call(r).of = r /\ ~Call(r).copy
    BY DEF Frames
  <2>2. Queues(Call(r))
    BY <1>2, <2>1 DEF ForwardRequest, Arrive, SendTargetRequest, Queues, server, closing
  <2>. QED BY <2>1, <2>2
<1>3. ASSUME NEW n \in Notifications, ForwardNotification(n) PROVE Goal
  <2>1. Call(n) \in Frames /\ Call(n).of = n /\ ~Call(n).copy
    BY DEF Frames
  <2>2. Queues(Call(n))
    BY <1>3, <2>1 DEF ForwardNotification, Arrive, Queues, server, closing
  <2>. QED BY <2>1, <2>2
<1>4. ASSUME NEW t \in ServerRequests, ClientReplies(t) PROVE Goal
  <2>1. Call(t) \in Frames /\ Call(t).of = t /\ ~Call(t).copy
    BY DEF Frames
  <2>2. Queues(Call(t))
    BY <1>4, <2>1 DEF ClientReplies, Queues, server, closing
  <2>. QED BY <2>1, <2>2
<1>5. CASE WriteLine
  BY <1>5 DEF WriteLine, Written, Writes, closing
<1>6. CASE WriteBlocks
  BY <1>6 DEF WriteBlocks, Writes, closing, handlers
<1>7. CASE WriteDrains
  BY <1>7 DEF WriteDrains, Written, Writes, closing, CallInv, DrainsHead
<1>8. CASE WriteFails
  BY <1>8 DEF WriteFails, Fail, Breaks, server
<1>9. ASSUME NEW k \in Keys, NEW outcome \in {"result", "error"}, TargetAnswers(k, outcome)
      PROVE  Goal
  <2>. DEFINE x == [id |-> k, kind |-> outcome, of |-> k]
  <2>1. x \in ClientMessages
    <3>1. k \in [of: ClientLines \cup ServerNotifications, copy: BOOLEAN]
      BY DEF Keys
    <3>. QED BY <3>1, ClientMessageType
  <2>2. toClient' = toClient \/ toClient' = Append(toClient, x)
    BY <1>9, WriteEnds DEF TargetAnswers
  <2>5. toClient' # toClient => x.id \in Keys /\ promise[x.id] = "rejected" /\ target # "closed"
    <3>. SUFFICES ASSUME toClient' # toClient PROVE promise[k] = "rejected" /\ target # "closed"
      OBVIOUS
    <3>1. /\ k \in Range(received) /\ answered[k] = "none"
          /\ k \notin pending /\ k \notin discarded /\ target # "closed"
      BY <1>9 DEF TargetAnswers
    <3>2. promise[k] \in {"open", "result", "error", "timeout", "rejected"}
      BY <3>1 DEF CallInv, SettledByTarget, TypeInv, TypeOK, RequestsType, Settlements
    <3>. QED BY <3>1, <3>2 DEF CallInv, SettledByTarget, PendingOpen
  <2>3. \A j \in Keys : answered[j] # "none" => answered'[j] = answered[j]
    BY <1>0, <1>9 DEF TargetAnswers
  <2>4. UNCHANGED <<task, chain, draining, received, failure>>
    BY <1>9 DEF TargetAnswers, handlers, writer, closing
  <2>. HIDE DEF x
  <2>. QED BY <2>1, <2>2, <2>3, <2>4, <2>5 DEF Listens
<1>10. ASSUME NEW t \in ServerRequests \cup ServerNotifications, TargetSends(t) PROVE Goal
  <2>. DEFINE x == [id |-> Call(t), kind |-> "forwarded", of |-> Call(t)]
  <2>1. x \in ClientMessages /\ ~x.id.copy
    <3>1. Call(t) \in [of: ClientLines \cup ServerNotifications, copy: BOOLEAN]
      OBVIOUS
    <3>. QED BY <3>1, ClientMessageType
  <2>2. toClient' = toClient \/ toClient' = Append(toClient, x)
    BY <1>10, WriteEnds DEF TargetSends
  <2>3. UNCHANGED <<task, chain, draining, received, answered>> /\ (failure => failure')
    BY <1>10 DEF TargetSends, Fail, handlers, writer, closing
  <2>. HIDE DEF x
  <2>. QED BY <2>1, <2>2, <2>3 DEF Listens
<1>11. ASSUME NEW r \in Requests, Replied(Call(r))
       PROVE  /\ Original(r) \in ClientMessages /\ Original(r).id = Call(r)
              /\ chosen[r] # 0 => Visible(r) \in ClientMessages /\ Visible(r).id = Call(r)
  BY <1>11, ReplyTypes DEF Original, Visible
<1>12. ASSUME NEW r \in Requests, ReturnReply(r) \/ MutateReply(r) \/ FinishDelay(r) \/ FinishDuplicate(r)
       PROVE  Goal
  <2>1. \E l, e, x : Deliver(r, l, e, x) /\ x \in ClientMessages /\ x.id = Call(r)
    <3>1. CASE ReturnReply(r)
      <4>1. Original(r) \in ClientMessages /\ Original(r).id = Call(r)
        BY <1>11, <3>1 DEF ReturnReply
      <4>. QED BY <3>1, <4>1 DEF ReturnReply
    <3>2. CASE MutateReply(r)
      <4>1. Visible(r) \in ClientMessages /\ Visible(r).id = Call(r)
        BY <1>11, <3>2 DEF MutateReply, MutationStarts
      <4>. QED BY <3>2, <4>1 DEF MutateReply
    <3>3. CASE FinishDelay(r)
      <4>1. Visible(r) \in ClientMessages /\ Visible(r).id = Call(r)
        BY <1>11, <3>3 DEF FinishDelay, CallInv, MutatesReply, Applied
      <4>. QED BY <3>3, <4>1 DEF FinishDelay
    <3>4. CASE FinishDuplicate(r)
      <4>1. Original(r) \in ClientMessages /\ Original(r).id = Call(r)
        BY <1>11, <3>4 DEF FinishDuplicate, CallInv, MutatesReply, Applied
      <4>. QED BY <3>4, <4>1 DEF FinishDuplicate
    <3>. QED BY <1>12, <3>1, <3>2, <3>3, <3>4
  <2>2. /\ task[r] \in {"waiting", "delaying", "copy_waiting"}
        /\ UNCHANGED <<writer, closing>>
    BY <1>12 DEF ReturnReply, MutateReply, MutationStarts, FinishDelay, FinishDuplicate
  <2>3. PICK l, e, x : Deliver(r, l, e, x) /\ x \in ClientMessages /\ x.id = Call(r)
    BY <2>1
  <2>4. WriteClient(x) /\ task' = [task EXCEPT ![r] = IF clientBroken' THEN "undelivered" ELSE "done"]
        /\ UNCHANGED <<received, answered>>
    BY <2>3 DEF Deliver, server
  <2>5. Gives(r)
    BY <2>3, <2>4, WriteEnds DEF Gives
  <2>6. Continues
    BY <2>2, <2>4, <2>5 DEF Continues, writer, closing
  <2>. QED BY <2>6
<1>13. ASSUME NEW r \in Requests, DelayReply(r) PROVE Goal
  BY <1>13 DEF DelayReply, MutationStarts, Continues, writer, server, closing
<1>14. ASSUME NEW r \in Requests, DuplicateCall(r) PROVE Goal
  <2>1. Duplicate(r) \in Frames /\ Duplicate(r).of = r /\ Duplicate(r).copy
    BY DEF Frames
  <2>2. Queues(Duplicate(r))
    BY <1>14, <2>1 DEF DuplicateCall, MutationStarts, SendTargetRequest, Queues, server, closing,
       Declared
  <2>. QED BY <2>1, <2>2
<1>15. ASSUME NEW r \in Requests, ReplyRejected(r) PROVE Goal
  BY <1>15 DEF ReplyRejected, Fail, Continues, writer, server
<1>16. CASE InvalidLine \/ TargetCloses \/ RunTimeout
  BY <1>16 DEF InvalidLine, TargetCloses, RunTimeout, Fail, Listens, handlers, writer, server, closing
<1>17. CASE \/ ClientEnds \/ TargetExits \/ Interrupt \/ InterruptAgain
            \/ CloserTerminates \/ CloserKills \/ MainRejects
            \/ MainDrains \/ MainCloses \/ MainHashes \/ MainPersists \/ MainReturns
            \/ UNCHANGED vars
  BY <1>17 DEF ClientEnds, TargetExits, Interrupt, InterruptAgain,
     CloserTerminates, CloserKills, MainRejects, MainDrains, MainCloses, MainHashes, MainPersists,
     MainReturns, vars, handlers, writer, server, closing, Listens
<1>18. ASSUME NEW c \in StderrChunks, TargetWritesStderr(c) PROVE Goal
  BY <1>18 DEF TargetWritesStderr, handlers, writer, closing, Listens
<1>19. ASSUME NEW k \in Keys, RequestTimeout(k) PROVE Goal
  BY <1>19 DEF RequestTimeout, handlers, writer, server, closing, Listens
<1>20. ASSUME NEW m \in Requests \cup Notifications, DeliveryFails(m) PROVE Goal
  BY <1>20 DEF DeliveryFails, Fail, Loses, writer, server
<1>. QED
  BY <1>1, <1>2, <1>3, <1>4, <1>5, <1>6, <1>7, <1>8, <1>9, <1>10, <1>12, <1>13, <1>14, <1>15,
     <1>16, <1>17, <1>18, <1>19, <1>20
  DEF Next, Prompt, Turn, Terminated, ClientLine, TargetLine, Resume

\* What a step knows of the tasks and the chain.
LEMMA TaskFacts ==
    ASSUME TypeInv, CallInv
    PROVE  /\ task \in [ClientLines -> TaskStates]
           /\ chain \in Seq(Frames) /\ received \in Seq(Frames)
           /\ draining \in BOOLEAN /\ failure \in BOOLEAN
           /\ toClient \in Seq(ClientMessages)
           /\ \A f \in Queued : /\ f \in Frames /\ f.of \in ClientLines
                                /\ task[f.of] = IF f.copy THEN "copy_writing" ELSE "writing"
                                /\ f.copy => f.of \in Requests
           /\ \A f \in Read : f \in Frames /\ f.of \in ClientLines
<1>1. /\ task \in [ClientLines -> TaskStates]
      /\ chain \in Seq(Frames) /\ received \in Seq(Frames)
      /\ draining \in BOOLEAN /\ failure \in BOOLEAN
      /\ toClient \in Seq(ClientMessages)
  BY DEF TypeInv, TypeOK, HandlersType, WriterType, ServerType, ClosingType
<1>2. \A f \in Queued : /\ f \in Frames /\ f.of \in ClientLines
                        /\ task[f.of] = IF f.copy THEN "copy_writing" ELSE "writing"
                        /\ f.copy => f.of \in Requests
  BY ChainType DEF Queued, CallInv, FramesOfWriters
<1>3. Read \subseteq Frames
  BY <1>1, RangeOfSeq DEF Read
<1>4. \A f \in Read : f \in Frames /\ f.of \in ClientLines
  BY <1>3 DEF Frames
<1>. QED BY <1>1, <1>2, <1>4

\* The head of the chain, and what is left without it.
LEMMA HeadFacts ==
    ASSUME TypeInv, CallInv, chain # <<>>
    PROVE  /\ Head(chain) \in Queued
           /\ Range(Tail(chain)) \subseteq Queued
           /\ \A f \in Range(Tail(chain)) : f.of # Head(chain).of
<1>1. chain \in Seq(Frames)
  BY TaskFacts
<1>2. Head(chain) \in Queued /\ Range(Tail(chain)) \subseteq Queued
  BY <1>1, RangeOfTail DEF Queued
<1>3. Distinct(chain)
  BY DEF CallInv, FramesOfWriters
<1>4. \A f \in Range(Tail(chain)) : f.of # Head(chain).of
  BY <1>1, <1>3, FramesOfTail
<1>. QED BY <1>2, <1>4

\* How each kind of step changes what was queued and read.
LEMMA QueuesMoves ==
    ASSUME TypeInv, CallInv, NEW f \in Frames, Queues(f)
    PROVE  /\ Queued' = Queued \cup {f} /\ Read' = Read
           /\ chain # <<>> => Head(chain') = Head(chain)
<1>1. chain \in Seq(Frames) /\ chain' = Append(chain, f) /\ received' = received
  BY TaskFacts DEF Queues
<1>2. Queued' = Queued \cup {f}
  BY <1>1, RangeOfAppend DEF Queued
<1>3. chain # <<>> => Head(chain') = Head(chain)
  BY <1>1
<1>. QED BY <1>1, <1>2, <1>3 DEF Read

LEMMA WritesMoves ==
    ASSUME TypeInv, CallInv, HeadIsRead, Writes
    PROVE  Read' = Read \cup {Head(chain)} /\ Queued' \subseteq Queued
<1>. DEFINE h == Head(chain)
<1>1. received \in Seq(Frames) /\ chain # <<>> /\ h \in Queued /\ h \in Frames
  BY TaskFacts, HeadFacts DEF Writes
<1>2. Read' = Read \cup {h}
  <2>. HIDE DEF h
  <2>1. CASE ~draining
    <3>1. received' = Append(received, h)
      BY <2>1 DEF Writes, h
    <3>. QED BY <1>1, <3>1, RangeOfAppend DEF Read
  <2>2. CASE draining
    <3>1. received' = received /\ h \in Read
      BY <2>2 DEF Writes, HeadIsRead, h
    <3>. QED BY <3>1 DEF Read
  <2>. QED BY <2>1, <2>2
<1>3. Queued' \subseteq Queued
  <2>1. chain' = chain \/ chain' = Tail(chain)
    BY DEF Writes
  <2>. QED BY <1>1, <2>1, HeadFacts DEF Queued
<1>. QED BY <1>2, <1>3

\* The frames, the tasks and what was read keep in step.
LEMMA FramesStep ==
    ASSUME TypeInv, CallInv, FramesInv, [Next]_vars
    PROVE  FramesInv'
<1>0. task \in [ClientLines -> TaskStates] /\ draining \in BOOLEAN
  BY TaskFacts
<1>1. ASSUME NEW f \in Frames, Queues(f) PROVE FramesInv'
  <2>1. /\ Queued' = Queued \cup {f} /\ Read' = Read
        /\ chain # <<>> => Head(chain') = Head(chain)
        /\ draining' = draining
    BY <1>1, QueuesMoves DEF Queues
  <2>2. /\ f.of \in ClientLines /\ f.copy \in BOOLEAN
        /\ \A m \in ClientLines : task'[m] =
              IF m = f.of THEN IF f.copy THEN "copy_writing" ELSE "writing" ELSE task[m]
    BY <1>0, <1>1 DEF Queues, Frames
  <2>3. IF f.copy THEN f.of \in Requests /\ task[f.of] = "waiting" ELSE task[f.of] = "none"
    BY <1>1 DEF Queues
  <2>4. \A g \in Read : g.of = f.of => f.copy /\ ~g.copy
    BY <2>3 DEF FramesInv, ReadIsStarted
  <2>5. ReadIsStarted'
    <3>1. ASSUME NEW g \in Read
          PROVE  /\ task'[g.of] # "none"
                 /\ g.copy => /\ g.of \in Requests
                              /\ task'[g.of] \in CopyStates
      <4>1. g.of \in ClientLines
        BY TaskFacts
      <4>. QED BY <2>2, <2>4, <4>1 DEF FramesInv, ReadIsStarted
    <3>. QED BY <2>1, <3>1 DEF ReadIsStarted
  <2>6. HeadIsRead'
    <3>1. f \notin Read
      BY <2>2, <2>4
    <3>2. draining => chain # <<>>
      BY DEF CallInv, DrainsHead
    <3>. QED BY <2>1, <3>1, <3>2 DEF FramesInv, HeadIsRead
  <2>7. CallIsRead'
    BY <2>1, <2>2, <2>3 DEF FramesInv, CallIsRead
  <2>. QED BY <2>5, <2>6, <2>7 DEF FramesInv
<1>2. CASE Writes
  <2>. DEFINE h == Head(chain)
  <2>1. /\ Read' = Read \cup {h} /\ h \in Queued /\ h \in Frames /\ h.of \in ClientLines
        /\ task[h.of] = IF h.copy THEN "copy_writing" ELSE "writing"
        /\ h.copy => h.of \in Requests
        /\ \A f \in Range(Tail(chain)) : f \in Queued /\ f.of # h.of
    <3>1. chain # <<>> /\ HeadIsRead
      BY <1>2 DEF Writes, FramesInv
    <3>. QED BY <1>2, <3>1, WritesMoves, HeadFacts, TaskFacts
  <2>2. \/ /\ chain' = Tail(chain) /\ ~draining'
           /\ task' = [task EXCEPT ![h.of] = Waiting(h)]
        \/ chain' = chain /\ task' = task /\ draining' /\ ~draining
    BY <1>2 DEF Writes
  <2>. HIDE DEF h
  <2>3. \A m \in ClientLines :
            \/ task'[m] = task[m]
            \/ m = h.of /\ task'[m] = Waiting(h)
    BY <1>0, <2>1, <2>2
  <2>4. ReadIsStarted'
    <3>1. ASSUME NEW g \in Read'
          PROVE  /\ task'[g.of] # "none"
                 /\ g.copy => /\ g.of \in Requests
                              /\ task'[g.of] \in CopyStates
      <4>1. g.of \in ClientLines
        BY <2>1, TaskFacts
      <4>2. task[g.of] # "none"
        BY <2>1 DEF FramesInv, ReadIsStarted
      <4>3. g.copy => /\ g.of \in Requests
                      /\ task[g.of] \in CopyStates
        BY <2>1 DEF FramesInv, ReadIsStarted
      <4>. QED BY <2>1, <2>3, <4>1, <4>2, <4>3 DEF Waiting
    <3>. QED BY <3>1 DEF ReadIsStarted
  <2>5. HeadIsRead'
    <3>1. CASE chain' = Tail(chain) /\ ~draining'
      <4>1. ASSUME NEW f \in Queued' PROVE f \notin Read'
        <5>1. f \in Queued /\ f.of # h.of
          BY <2>1, <3>1, <4>1 DEF Queued
        <5>. QED BY <2>1, <5>1 DEF FramesInv, HeadIsRead, h
      <4>. QED BY <3>1, <4>1 DEF HeadIsRead
    <3>2. CASE chain' = chain /\ draining' /\ ~draining
      <4>1. Queued' = Queued /\ Head(chain') = h
        BY <3>2 DEF Queued, h
      <4>. QED BY <2>1, <3>2, <4>1 DEF FramesInv, HeadIsRead
    <3>. QED BY <2>2, <3>1, <3>2
  <2>6. CallIsRead'
    <3>. SUFFICES ASSUME NEW r \in Requests,
                         task'[r] \in {"waiting", "delaying", "copy_writing", "copy_waiting"}
                  PROVE  Call(r) \in Read'
      BY DEF CallIsRead
    <3>1. CASE task'[r] = task[r]
      BY <2>1, <3>1 DEF FramesInv, CallIsRead
    <3>2. CASE r = h.of /\ h.copy
      BY <2>1, <3>2 DEF FramesInv, CallIsRead
    <3>3. CASE r = h.of /\ ~h.copy
      <4>1. h = Call(r)
        BY <2>1, <3>3 DEF Frames
      <4>. QED BY <2>1, <4>1
    <3>. QED BY <2>3, <3>1, <3>2, <3>3
  <2>. QED BY <2>4, <2>5, <2>6 DEF FramesInv
<1>3. CASE Breaks
  <2>. DEFINE h == Head(chain)
  <2>1. /\ chain' = Tail(chain) /\ ~draining' /\ Read' = Read
        /\ task' = [task EXCEPT ![h.of] = "failed"]
        /\ h.of \in ClientLines
        /\ \A f \in Range(Tail(chain)) : f \in Queued /\ f.of # h.of
    BY <1>3, HeadFacts, TaskFacts DEF Breaks, Read
  <2>. HIDE DEF h
  <2>2. \A m \in ClientLines : task'[m] = IF m = h.of THEN "failed" ELSE task[m]
    BY <1>0, <2>1
  <2>3. ReadIsStarted'
    BY <2>1, <2>2, TaskFacts DEF FramesInv, ReadIsStarted
  <2>4. HeadIsRead'
    BY <2>1 DEF FramesInv, HeadIsRead, Queued, h
  <2>5. CallIsRead'
    BY <2>1, <2>2 DEF FramesInv, CallIsRead
  <2>. QED BY <2>3, <2>4, <2>5 DEF FramesInv
<1>4. CASE Continues
  <2>1. /\ Queued' = Queued /\ Read' = Read /\ UNCHANGED <<chain, draining>>
        /\ \E r \in Requests :
              /\ task[r] \in {"waiting", "delaying", "copy_waiting"}
              /\ \/ task' = [task EXCEPT ![r] = "done"]
                 \/ task' = [task EXCEPT ![r] = "undelivered"]
                 \/ task' = [task EXCEPT ![r] = "failed"]
                 \/ task[r] = "waiting" /\ task' = [task EXCEPT ![r] = "delaying"]
    BY <1>4 DEF Continues, Gives, Queued, Read
  <2>2. PICK r \in Requests :
            /\ task[r] \in {"waiting", "delaying", "copy_waiting"}
            /\ \/ task' = [task EXCEPT ![r] = "done"]
               \/ task' = [task EXCEPT ![r] = "undelivered"]
               \/ task' = [task EXCEPT ![r] = "failed"]
               \/ task[r] = "waiting" /\ task' = [task EXCEPT ![r] = "delaying"]
    BY <2>1
  <2>3. \A m \in ClientLines :
            \/ task'[m] = task[m]
            \/ m = r /\ task'[r] \in {"done", "undelivered", "failed"}
            \/ m = r /\ task[r] = "waiting" /\ task'[r] = "delaying"
    BY <1>0, <2>2
  <2>4. ReadIsStarted'
    BY <2>1, <2>3, TaskFacts DEF FramesInv, ReadIsStarted
  <2>5. HeadIsRead'
    BY <2>1 DEF FramesInv, HeadIsRead
  <2>6. CallIsRead'
    BY <2>1, <2>3 DEF FramesInv, CallIsRead
  <2>. QED BY <2>4, <2>5, <2>6 DEF FramesInv
<1>5. CASE Listens
  BY <1>5 DEF Listens, FramesInv, ReadIsStarted, HeadIsRead, CallIsRead, Queued, Read
<1>6. ASSUME NEW m \in Requests \cup Notifications, Denies(m) PROVE FramesInv'
  <2>1. /\ Queued' = Queued /\ Read' = Read /\ UNCHANGED <<chain, draining>>
        /\ \A n \in ClientLines : task'[n] = task[n] \/ (n = m /\ task'[n] \in {"done", "undelivered"})
        /\ task[m] = "none"
    BY <1>0, <1>6 DEF Denies, Gives, Queued, Read
  <2>2. ReadIsStarted'
    BY <2>1, TaskFacts DEF FramesInv, ReadIsStarted
  <2>3. HeadIsRead' /\ CallIsRead'
    BY <2>1 DEF FramesInv, HeadIsRead, CallIsRead
  <2>. QED BY <2>2, <2>3 DEF FramesInv
<1>7. ASSUME NEW m \in Requests \cup Notifications, Loses(m) PROVE FramesInv'
  <2>1. /\ Queued' = Queued /\ Read' = Read /\ UNCHANGED <<chain, draining>>
        /\ \A n \in ClientLines : task'[n] = IF n = m THEN "failed" ELSE task[n]
    BY <1>0, <1>7 DEF Loses, Queued, Read
  <2>2. ReadIsStarted'
    BY <2>1, TaskFacts DEF FramesInv, ReadIsStarted
  <2>3. HeadIsRead' /\ CallIsRead'
    BY <2>1 DEF FramesInv, HeadIsRead, CallIsRead
  <2>. QED BY <2>2, <2>3 DEF FramesInv
<1>. QED BY <1>1, <1>2, <1>3, <1>4, <1>5, <1>6, <1>7, Steps

LEMMA FramesInit == Init => FramesInv
<1>. SUFFICES ASSUME Init PROVE FramesInv
  OBVIOUS
<1>1. Read = {} /\ Queued = {} /\ ~draining
  BY DEF Init, Range, Read, Queued
<1>2. \A r \in Requests : task[r] = "none"
  BY DEF Init
<1>. QED BY <1>1, <1>2 DEF FramesInv, ReadIsStarted, HeadIsRead, CallIsRead

LEMMA FramesInvariance == Spec => [](TypeInv /\ CallInv /\ FramesInv)
<1>1. Init => FramesInv
  BY FramesInit
<1>2. TypeInv /\ CallInv /\ FramesInv /\ [Next]_vars => FramesInv'
  BY FramesStep
<1>3. Spec => [](TypeInv /\ CallInv)
  BY Invariance
<1>. QED BY <1>1, <1>2, <1>3, PTL DEF Spec

-------------------------------------------------------------------------------
(* A run that reports success.                                             *)

\* A task that failed has called fail().
FailedTold == \A m \in ClientLines : task[m] = "failed" => failure

\* A task that is done has answered its request, or its line was read.
Settled(m) == Call(m) \in Answers \/ (m \notin Requests /\ Call(m) \in Read)
DoneSettled == \A m \in ClientLines : task[m] = "done" => Settled(m)

\* After the tasks were awaited they are finished, and in a run that succeeds
\* all are done.
AwaitedFinished ==
    /\ awaited \subseteq ClientLines
    /\ main \in {"hashed", "persisted"} => \A m \in awaited : Finished(m)
    /\ main = "returned" => \A m \in awaited : task[m] = "done"

SuccessInv == FailedTold /\ DoneSettled /\ AwaitedFinished

LEMMA AnswersAppended ==
    ASSUME toClient \in Seq(ClientMessages), NEW x \in ClientMessages,
           toClient' = Append(toClient, x)
    PROVE  Answers' = Answers \cup {x.id}
<1>. DEFINE t == Append(toClient, x)
<1>1. {t[i].id : i \in DOMAIN t} = {toClient[i].id : i \in DOMAIN toClient} \cup {x.id}
  BY AnswersOfAppend
<1>2. toClient' = t
  OBVIOUS
<1>. HIDE DEF t
<1>. QED BY <1>1, <1>2 DEF Answers

\* What was read and what was answered stays so.
LEMMA ToldGrows ==
    ASSUME TypeInv, CallInv, FramesInv, [Next]_vars
    PROVE  Read \subseteq Read' /\ Answers \subseteq Answers'
<1>1. ASSUME NEW x \in ClientMessages, toClient' = Append(toClient, x)
      PROVE  Answers' = Answers \cup {x.id}
  BY <1>1, TaskFacts, AnswersAppended
<1>2. ASSUME toClient' = toClient PROVE Answers' = Answers
  BY <1>2 DEF Answers
<1>3. ASSUME NEW f \in Frames, Queues(f) PROVE Read \subseteq Read' /\ Answers \subseteq Answers'
  BY <1>2, <1>3 DEF Queues, Read
<1>4. CASE Writes
  BY <1>2, <1>4, WritesMoves DEF Writes, FramesInv
<1>5. CASE Breaks
  BY <1>2, <1>5 DEF Breaks, Read
<1>6. CASE Continues
  BY <1>1, <1>2, <1>6 DEF Continues, Gives, Read
<1>7. CASE Listens
  BY <1>1, <1>2, <1>7 DEF Listens, Read
<1>8. ASSUME NEW m \in Requests \cup Notifications, Denies(m) \/ Loses(m)
      PROVE  Read \subseteq Read' /\ Answers \subseteq Answers'
  BY <1>1, <1>2, <1>8 DEF Denies, Gives, Loses, Read
<1>. QED BY <1>3, <1>4, <1>5, <1>6, <1>7, <1>8, Steps

\* A task that is finished stays as it is; one that fails tells, and one that
\* becomes done has settled its message.
LEMMA TaskSteps ==
    ASSUME TypeInv, CallInv, FramesInv, [Next]_vars, NEW m \in ClientLines
    PROVE  /\ Finished(m) => task'[m] = task[m]
           /\ task'[m] = "failed" => task[m] = "failed" \/ failure'
           /\ task'[m] = "done" => task[m] = "done" \/ Settled(m)'
           /\ failure => failure'
<1>. DEFINE Goal == /\ Finished(m) => task'[m] = task[m]
                    /\ task'[m] = "failed" => task[m] = "failed" \/ failure'
                    /\ task'[m] = "done" => task[m] = "done" \/ Settled(m)'
                    /\ failure => failure'
<1>0. task \in [ClientLines -> TaskStates]
  BY TaskFacts
<1>1. ASSUME NEW x \in ClientMessages, toClient' = Append(toClient, x)
      PROVE  x.id \in Answers'
  BY <1>1, TaskFacts, AnswersAppended
<1>2. ASSUME NEW f \in Frames, Queues(f) PROVE Goal
  BY <1>0, <1>2 DEF Queues
<1>3. CASE Writes
  <2>. DEFINE h == Head(chain)
  <2>1. /\ h \in Read' /\ h \in Frames
        /\ task[h.of] = IF h.copy THEN "copy_writing" ELSE "writing"
        /\ task' = task \/ task' = [task EXCEPT ![h.of] = Waiting(h)]
        /\ failure' = failure
    <3>1. chain # <<>> /\ HeadIsRead
      BY <1>3 DEF Writes, FramesInv
    <3>. QED BY <1>3, <3>1, WritesMoves, HeadFacts, TaskFacts DEF Writes
  <2>. HIDE DEF h
  <2>2. task'[m] = task[m] \/ (m = h.of /\ task'[m] = Waiting(h))
    BY <1>0, <2>1
  <2>3. ASSUME m = h.of, Waiting(h) = "done" PROVE m \notin Requests /\ Call(m) \in Read'
    <3>1. m \notin Requests /\ ~h.copy
      BY <2>3 DEF Waiting
    <3>2. h = Call(m)
      BY <2>1, <2>3, <3>1 DEF Frames
    <3>. QED BY <2>1, <3>1, <3>2
  <2>4. Waiting(h) # "failed"
    BY DEF Waiting
  <2>. QED BY <2>1, <2>2, <2>3, <2>4 DEF Settled
<1>4. CASE Breaks
  <2>1. task[Head(chain).of] \in {"writing", "copy_writing"}
    BY <1>4, HeadFacts, TaskFacts DEF Breaks
  <2>. QED BY <1>0, <1>4, <2>1 DEF Breaks
<1>5. CASE Continues
  <2>1. PICK r \in Requests :
            \/ /\ task[r] \in {"waiting", "delaying", "copy_waiting"}
               /\ task' = [task EXCEPT ![r] = "done"]
               /\ \E x \in ClientMessages : x.id = Call(r) /\ toClient' = Append(toClient, x)
               /\ UNCHANGED failure
            \/ /\ task[r] \in {"waiting", "copy_waiting"}
               /\ task' = [task EXCEPT ![r] = "failed"]
               /\ failure'
               /\ UNCHANGED toClient
            \/ /\ task[r] = "waiting"
               /\ task' = [task EXCEPT ![r] = "delaying"]
               /\ UNCHANGED <<toClient, failure>>
            \/ /\ task[r] \in {"waiting", "delaying", "copy_waiting"}
               /\ task' = [task EXCEPT ![r] = "undelivered"]
               /\ UNCHANGED failure
    BY <1>5 DEF Continues, Gives
  <2>2. CASE task' = [task EXCEPT ![r] = "failed"]
    BY <1>0, <2>1, <2>2
  <2>3. CASE task' = [task EXCEPT ![r] = "delaying"]
    BY <1>0, <2>1, <2>3
  <2>5. CASE /\ task[r] \in {"waiting", "delaying", "copy_waiting"}
             /\ task' = [task EXCEPT ![r] = "undelivered"]
             /\ UNCHANGED failure
    BY <1>0, <2>5
  <2>4. CASE /\ task[r] \in {"waiting", "delaying", "copy_waiting"}
             /\ task' = [task EXCEPT ![r] = "done"]
             /\ \E x \in ClientMessages : x.id = Call(r) /\ toClient' = Append(toClient, x)
             /\ UNCHANGED failure
    <3>1. Call(r) \in Answers'
      BY <1>1, <2>4
    <3>2. m = r => Settled(m)'
      BY <3>1 DEF Settled
    <3>. QED BY <1>0, <2>4, <3>2
  <2>. QED BY <2>1, <2>2, <2>3, <2>4, <2>5
<1>6. CASE Listens
  BY <1>6 DEF Listens
<1>7. ASSUME NEW n \in Requests \cup Notifications, Denies(n) PROVE Goal
  BY <1>0, <1>1, <1>7 DEF Denies, Gives, Settled
<1>8. ASSUME NEW n \in Requests \cup Notifications, Loses(n) PROVE Goal
  BY <1>0, <1>8 DEF Loses
<1>. QED BY <1>2, <1>3, <1>4, <1>5, <1>6, <1>7, <1>8, Steps

\* How the body of runStdioProxy moves on.
MainMoves ==
    \/ UNCHANGED <<main, awaited>>
    \/ main' \in {"settling", "crashed"}
    \/ main \in {"racing", "draining"} /\ main' \in {"draining", "closing"}
    \/ /\ main' = "hashed" /\ \A m \in awaited : Finished(m)
       /\ UNCHANGED awaited
    \/ main = "hashed" /\ main' = "persisted" /\ UNCHANGED awaited
    \/ /\ main = "persisted" /\ main' = IF failure THEN "threw" ELSE "returned"
       /\ UNCHANGED awaited

LEMMA MainSteps ==
    ASSUME [Next]_vars
    PROVE  MainMoves
<1>1. CASE ClientLine
  BY <1>1 DEF ClientLine, DenyBeforeCall, ForwardRequest, ForwardNotification, ClientReplies,
     mainVars, MainMoves
<1>2. CASE TargetLine
  BY <1>2 DEF TargetLine, TargetAnswers, TargetSends, TargetWritesStderr, mainVars, MainMoves
<1>3. CASE InvalidLine \/ WriteLine \/ WriteBlocks \/ WriteFails \/ WriteDrains
  BY <1>3 DEF InvalidLine, WriteLine, WriteBlocks, WriteFails, WriteDrains, Written, mainVars,
     MainMoves
<1>4. ASSUME NEW r \in Requests, Resume(r) \/ FinishDelay(r) PROVE MainMoves
  BY <1>4 DEF Resume, FinishDelay, ReturnReply, MutateReply, DelayReply, DuplicateCall,
     FinishDuplicate, ReplyRejected, Deliver, mainVars, MainMoves
<1>5. CASE MainDrains \/ MainCloses \/ MainRejects \/ MainHashes \/ MainPersists \/ MainReturns
  BY <1>5 DEF MainDrains, MainCloses, MainRejects, MainHashes, MainPersists, MainReturns,
     ReadyToClose, RejectPending, MainMoves
<1>6. ASSUME NEW k \in Keys, RequestTimeout(k) PROVE MainMoves
  BY <1>6 DEF RequestTimeout, mainVars, MainMoves
<1>7. CASE ClientEnds \/ TargetExits \/ TargetCloses
  BY <1>7 DEF ClientEnds, TargetExits, TargetCloses, RejectPending, mainVars, MainMoves
<1>8. CASE \/ RunTimeout \/ Interrupt \/ InterruptAgain \/ CloserTerminates \/ CloserKills
           \/ UNCHANGED vars
  BY <1>8 DEF RunTimeout, Interrupt, InterruptAgain, CloserTerminates, CloserKills, mainVars, vars,
     MainMoves
<1>9. ASSUME NEW m \in Requests \cup Notifications, DeliveryFails(m) PROVE MainMoves
  BY <1>9 DEF DeliveryFails, mainVars, MainMoves
<1>. QED BY <1>1, <1>2, <1>3, <1>4, <1>5, <1>6, <1>7, <1>8, <1>9 DEF Next, Prompt, Turn, Terminated

LEMMA SuccessStep ==
    ASSUME TypeInv, CallInv, FramesInv, SuccessInv, [Next]_vars, TypeInv'
    PROVE  SuccessInv'
<1>1. FailedTold'
  BY TaskSteps DEF SuccessInv, FailedTold
<1>2. DoneSettled'
  <2>. SUFFICES ASSUME NEW m \in ClientLines, task'[m] = "done" PROVE Settled(m)'
    BY DEF DoneSettled
  <2>1. Settled(m) => Settled(m)'
    BY ToldGrows DEF Settled
  <2>2. task[m] = "done" \/ Settled(m)'
    BY TaskSteps
  <2>. QED BY <2>1, <2>2 DEF SuccessInv, DoneSettled
<1>3. awaited \subseteq ClientLines /\ awaited' \subseteq ClientLines
  BY DEF SuccessInv, AwaitedFinished, TypeInv, TypeOK, MainType
<1>4. \A m \in ClientLines : Finished(m) => task'[m] = task[m]
  BY TaskSteps
<1>5. AwaitedFinished'
  <2>1. CASE UNCHANGED <<main, awaited>>
    BY <1>3, <1>4, <2>1 DEF SuccessInv, AwaitedFinished
  <2>2. CASE main' \in {"settling", "crashed", "draining", "closing"}
    BY <1>3, <2>2 DEF AwaitedFinished
  <2>3. CASE main' = "hashed" /\ (\A m \in awaited : Finished(m)) /\ UNCHANGED awaited
    BY <1>3, <1>4, <2>3 DEF AwaitedFinished
  <2>4. CASE main = "hashed" /\ main' = "persisted" /\ UNCHANGED awaited
    BY <1>3, <1>4, <2>4 DEF SuccessInv, AwaitedFinished
  <2>5. CASE main = "persisted" /\ main' = (IF failure THEN "threw" ELSE "returned")
             /\ UNCHANGED awaited
    <3>1. \A m \in awaited : Finished(m)
      BY <2>5 DEF SuccessInv, AwaitedFinished
    <3>2. ~failure => \A m \in awaited : task[m] = "done"
      BY <1>3, <3>1 DEF SuccessInv, FailedTold
    <3>. QED BY <1>3, <1>4, <2>5, <3>2 DEF AwaitedFinished
  <2>. QED BY <2>1, <2>2, <2>3, <2>4, <2>5, MainSteps DEF MainMoves
<1>. QED BY <1>1, <1>2, <1>5 DEF SuccessInv

LEMMA SuccessInvariance == Spec => []SuccessInv
<1>1. Init => SuccessInv
  BY DEF Init, SuccessInv, FailedTold, DoneSettled, AwaitedFinished
<1>2. TypeInv /\ CallInv /\ FramesInv /\ SuccessInv /\ [Next]_vars /\ TypeInv' => SuccessInv'
  BY SuccessStep
<1>. QED BY <1>1, <1>2, FramesInvariance, PTL DEF Spec

\* A run of the proxy that exits with success has answered each request whose
\* task it awaited, and the target has read, or the proxy has denied, each other
\* line of the client (the final allSettled of runStdioProxy and its failure).
THEOREM SuccessIsComplete == Spec => []SuccessSettlesAll
<1>1. SuccessInv => SuccessSettlesAll
  <2>. SUFFICES ASSUME SuccessInv, main = "returned", NEW m \in awaited
                PROVE  \/ \E i \in DOMAIN toClient : toClient[i].id = Call(m)
                       \/ m \notin Requests /\ Call(m) \in Range(received)
    BY DEF SuccessSettlesAll
  <2>1. Settled(m)
    BY DEF SuccessInv, AwaitedFinished, DoneSettled
  <2>. QED BY <2>1 DEF Settled, Answers, Read
<1>. QED BY <1>1, SuccessInvariance, PTL

-------------------------------------------------------------------------------
(* Stale results.                                                          *)

OwnResult(r) == [id |-> Call(r), kind |-> "result", of |-> Call(r)]

\* What lastSuccessfulResponses holds of a tool is a result the client was given,
\* as long as it takes what it is given.
LastSeen ==
    ~clientBroken => \A t \in Tools : lastOk[t] # NoRequest =>
        /\ ToolOf[lastOk[t]] = t
        /\ \E j \in DOMAIN toClient : toClient[j] = OwnResult(lastOk[t])

\* A message that shows the result of another call takes it from there.
Honest(x) ==
    x.kind = "result" /\ x.id # x.of =>
        \E t \in Tools : /\ lastOk[t] # NoRequest
                         /\ x.of = Call(lastOk[t])
                         /\ ToolOf[x.id.of] = t

\* How a step tells the client something, and remembers it.
Tells ==
    \/ clientBroken' /\ UNCHANGED toClient
    \/ UNCHANGED <<toClient, lastOk, clientBroken>>
    \/ /\ UNCHANGED lastOk /\ ~clientBroken
       /\ \E x \in ClientMessages : Honest(x) /\ toClient' = Append(toClient, x)
    \/ \E r \in Requests :
          /\ Original(r) \in ClientMessages /\ ~clientBroken
          /\ toClient' = Append(toClient, Original(r))
          /\ lastOk' = IF ToolOf[r] # NoTool /\ promise[Call(r)] = "result"
                       THEN [lastOk EXCEPT ![ToolOf[r]] = r] ELSE lastOk

\* One that is written now was not written to a client known to be gone.
LEMMA WriteTells ==
    ASSUME NEW x, WriteClient(x)
    PROVE  \/ clientBroken' /\ UNCHANGED toClient
           \/ ~clientBroken /\ toClient' = Append(toClient, x)
BY DEF WriteClient

LEMMA TellSteps ==
    ASSUME TypeInv, CallInv, [Next]_vars
    PROVE  Tells
<1>0. \A m \in ClientLines \cup ServerNotifications :
          Call(m) \in [of: ClientLines \cup ServerNotifications, copy: BOOLEAN]
  OBVIOUS
<1>1. ASSUME NEW m \in Requests \cup Notifications, DenyBeforeCall(m) PROVE Tells
  <2>. DEFINE x == [id |-> Call(m), kind |-> "injected", of |-> Call(m)]
  <2>1. x \in ClientMessages /\ Honest(x)
    BY <1>0, ClientMessageType DEF Honest
  <2>2. WriteClient(x) /\ UNCHANGED lastOk
    BY <1>1 DEF DenyBeforeCall
  <2>. HIDE DEF x
  <2>. QED BY <2>1, <2>2, WriteTells DEF Tells
<1>2. ASSUME NEW r \in Requests, ForwardRequest(r) PROVE Tells
  BY <1>2 DEF ForwardRequest, mainVars, Tells
<1>3. ASSUME NEW n \in Notifications, ForwardNotification(n) PROVE Tells
  BY <1>3 DEF ForwardNotification, mainVars, Tells
<1>4. ASSUME NEW s \in ServerRequests, ClientReplies(s) PROVE Tells
  BY <1>4 DEF ClientReplies, mainVars, Tells
<1>5. ASSUME NEW k \in Keys, NEW outcome \in {"result", "error"}, TargetAnswers(k, outcome)
      PROVE  Tells
  <2>. DEFINE x == [id |-> k, kind |-> outcome, of |-> k]
  <2>1. x \in ClientMessages /\ Honest(x)
    <3>1. k \in [of: ClientLines \cup ServerNotifications, copy: BOOLEAN]
      BY DEF Keys
    <3>. QED BY <3>1, ClientMessageType DEF Honest
  <2>2. UNCHANGED <<toClient, clientBroken>> \/ WriteClient(x)
    BY <1>5 DEF TargetAnswers
  <2>3. UNCHANGED lastOk
    BY <1>5 DEF TargetAnswers, handlers
  <2>. HIDE DEF x
  <2>. QED BY <2>1, <2>2, <2>3, WriteTells DEF Tells
<1>6. ASSUME NEW s \in ServerRequests \cup ServerNotifications, TargetSends(s) PROVE Tells
  <2>. DEFINE x == [id |-> Call(s), kind |-> "forwarded", of |-> Call(s)]
  <2>1. x \in ClientMessages /\ Honest(x)
    BY <1>0, ClientMessageType DEF Honest
  <2>2. WriteClient(x) /\ UNCHANGED lastOk
    BY <1>6 DEF TargetSends, handlers
  <2>. HIDE DEF x
  <2>. QED BY <2>1, <2>2, WriteTells DEF Tells
<1>7. ASSUME NEW r \in Requests, ReturnReply(r) PROVE Tells
  <2>1. Original(r) \in ClientMessages
    BY <1>7, ReplyTypes DEF ReturnReply
  <2>. QED BY <1>7, <2>1, WriteTells DEF ReturnReply, Deliver, Tells
<1>8. ASSUME NEW r \in Requests, chosen[r] # 0, Replied(Call(r))
      PROVE  /\ Visible(r) \in ClientMessages /\ Honest(Visible(r))
             /\ Original(r) \in ClientMessages /\ Honest(Original(r))
  <2>1. Visible(r) \in ClientMessages /\ Original(r) \in ClientMessages
    BY <1>8, ReplyTypes
  <2>2. Honest(Original(r))
    BY DEF Honest, Original
  <2>3. Honest(Visible(r))
    <3>1. ToolOf[r] \in Tools
      BY <1>8 DEF TypeInv, ChosenHasTool
    <3>2. CASE MutationOf(r).type \in MutationTypes.error
      <4>1. Visible(r) = [id |-> Call(r), kind |-> "injected", of |-> Call(r)]
        BY <3>2 DEF Visible, Stale, MutationTypes
      <4>. QED BY <4>1 DEF Honest
    <3>3. CASE /\ MutationOf(r).type \notin MutationTypes.error
               /\ MutationOf(r).type \in MutationTypes.corrupt
      <4>1. Visible(r) = [id |-> Call(r), kind |-> "corrupted", of |-> Call(r)]
        BY <3>3 DEF Visible, Stale, MutationTypes
      <4>. QED BY <4>1 DEF Honest
    <3>4. CASE /\ MutationOf(r).type \notin MutationTypes.error
               /\ MutationOf(r).type \notin MutationTypes.corrupt
               /\ Stale(r) /\ StaleSource(r) # NoRequest
      <4>1. Visible(r) = [id |-> Call(r), kind |-> "result", of |-> Call(StaleSource(r))]
        BY <3>4 DEF Visible
      <4>2. /\ Visible(r).id.of = r /\ Visible(r).of = Call(lastOk[ToolOf[r]])
            /\ lastOk[ToolOf[r]] # NoRequest
        BY <3>4, <4>1 DEF StaleSource
      <4>. QED BY <3>1, <4>2 DEF Honest
    <3>5. CASE /\ MutationOf(r).type \notin MutationTypes.error
               /\ MutationOf(r).type \notin MutationTypes.corrupt
               /\ ~(Stale(r) /\ StaleSource(r) # NoRequest)
      <4>1. Visible(r) = Original(r)
        BY <3>5 DEF Visible
      <4>. QED BY <2>2, <4>1
    <3>. QED BY <3>2, <3>3, <3>4, <3>5
  <2>. QED BY <2>1, <2>2, <2>3
<1>9. ASSUME NEW r \in Requests, MutateReply(r) PROVE Tells
  <2>1. Visible(r) \in ClientMessages /\ Honest(Visible(r))
    BY <1>8, <1>9 DEF MutateReply, MutationStarts
  <2>. QED BY <1>9, <2>1, WriteTells DEF MutateReply, Deliver, Tells
<1>10. ASSUME NEW r \in Requests, FinishDelay(r) PROVE Tells
  <2>1. Visible(r) \in ClientMessages /\ Honest(Visible(r))
    BY <1>8, <1>10 DEF FinishDelay, CallInv, MutatesReply, Applied
  <2>. QED BY <1>10, <2>1, WriteTells DEF FinishDelay, Deliver, Tells
<1>11. ASSUME NEW r \in Requests, FinishDuplicate(r) PROVE Tells
  <2>1. Original(r) \in ClientMessages /\ Honest(Original(r))
    BY <1>8, <1>11 DEF FinishDuplicate, CallInv, MutatesReply, Applied
  <2>. QED BY <1>11, <2>1, WriteTells DEF FinishDuplicate, Deliver, Tells
<1>12. ASSUME NEW r \in Requests, DelayReply(r) \/ DuplicateCall(r) \/ ReplyRejected(r)
       PROVE  Tells
  BY <1>12 DEF DelayReply, DuplicateCall, ReplyRejected, mainVars, Tells
<1>13. CASE \/ InvalidLine \/ WriteLine \/ WriteBlocks \/ WriteFails \/ WriteDrains
            \/ MainDrains \/ MainCloses \/ MainRejects \/ MainHashes \/ MainPersists
            \/ MainReturns
  BY <1>13 DEF InvalidLine, WriteLine, WriteBlocks, WriteFails, WriteDrains, Written,
     MainDrains, MainCloses, MainRejects, MainHashes, MainPersists, MainReturns, handlers, mainVars,
     Tells
<1>14. CASE \/ ClientEnds \/ TargetExits \/ TargetCloses \/ RunTimeout \/ Interrupt
            \/ InterruptAgain \/ CloserTerminates \/ CloserKills \/ UNCHANGED vars
  BY <1>14 DEF ClientEnds, TargetExits, TargetCloses, RunTimeout, Interrupt, InterruptAgain,
     CloserTerminates, CloserKills, vars, handlers, mainVars, Tells
<1>15. ASSUME NEW k \in Keys, RequestTimeout(k) PROVE Tells
  BY <1>15 DEF RequestTimeout, handlers, mainVars, Tells
<1>16. ASSUME NEW c \in StderrChunks, TargetWritesStderr(c) PROVE Tells
  BY <1>16 DEF TargetWritesStderr, handlers, mainVars, Tells
<1>17. ASSUME NEW m \in Requests \cup Notifications, DeliveryFails(m) PROVE Tells
  BY <1>17 DEF DeliveryFails, mainVars, Tells
<1>. QED
  BY <1>1, <1>2, <1>3, <1>4, <1>5, <1>6, <1>7, <1>9, <1>10, <1>11, <1>12, <1>13, <1>14,
     <1>15, <1>16, <1>17
  DEF Next, Prompt, Turn, Terminated, ClientLine, TargetLine, Resume

\* One more honest message after messages of which each stale one was seen.
LEMMA HonestAppended ==
    ASSUME TypeInv, CallInv, ~clientBroken, LastSeen, StaleWasSeen,
           NEW x \in ClientMessages, Honest(x),
           toClient' = Append(toClient, x)
    PROVE  /\ StaleWasSeen'
           /\ \A j \in DOMAIN toClient : j \in DOMAIN toClient' /\ toClient'[j] = toClient[j]
           /\ \E j \in DOMAIN toClient' : toClient'[j] = x
<1>. DEFINE n == Len(toClient) + 1
<1>1. /\ DOMAIN toClient' = 1..n /\ DOMAIN toClient = 1..Len(toClient) /\ Len(toClient) \in Nat
      /\ \A i \in 1..Len(toClient) : toClient'[i] = toClient[i]
      /\ toClient'[n] = x
  BY TaskFacts
<1>2. \A i \in DOMAIN toClient' : i \in DOMAIN toClient \/ i = n
  BY <1>1
<1>3. \A j \in DOMAIN toClient : j \in DOMAIN toClient' /\ toClient'[j] = toClient[j]
  BY <1>1
<1>4. n \in DOMAIN toClient'
  BY <1>1
<1>5. StaleWasSeen'
  <2>. SUFFICES ASSUME NEW i \in DOMAIN toClient',
                       toClient'[i].kind = "result", toClient'[i].id # toClient'[i].of
                PROVE  /\ ToolOf[toClient'[i].id.of] = ToolOf[toClient'[i].of.of]
                       /\ \E j \in 1..(i - 1) :
                             toClient'[j] = [toClient'[i] EXCEPT !.id = toClient'[i].of]
    BY DEF StaleWasSeen
  <2>1. CASE i \in DOMAIN toClient
    <3>1. /\ ToolOf[toClient[i].id.of] = ToolOf[toClient[i].of.of]
          /\ \E j \in 1..(i - 1) : toClient[j] = [toClient[i] EXCEPT !.id = toClient[i].of]
      BY <1>3, <2>1 DEF StaleWasSeen
    <3>2. PICK j \in 1..(i - 1) : toClient[j] = [toClient[i] EXCEPT !.id = toClient[i].of]
      BY <3>1
    <3>3. j \in DOMAIN toClient
      BY <1>1, <2>1
    <3>4. toClient'[j] = toClient[j] /\ toClient'[i] = toClient[i]
      BY <1>3, <2>1, <3>3
    <3>. QED BY <3>1, <3>2, <3>4
  <2>2. CASE i = n
    <3>1. toClient'[i] = x
      BY <1>1, <2>2
    <3>2. PICK t \in Tools : /\ lastOk[t] # NoRequest
                             /\ x.of = Call(lastOk[t])
                             /\ ToolOf[x.id.of] = t
      BY <3>1 DEF Honest
    <3>3. ToolOf[x.of.of] = t
      BY <3>2 DEF LastSeen
    <3>4. PICK j \in DOMAIN toClient : toClient[j] = OwnResult(lastOk[t])
      BY <3>2 DEF LastSeen
    <3>5. [x EXCEPT !.id = x.of] = OwnResult(lastOk[t])
      <4>1. x = [id |-> x.id, kind |-> "result", of |-> x.of]
        BY <3>1 DEF ClientMessages
      <4>2. [x EXCEPT !.id = x.of] = [id |-> x.of, kind |-> "result", of |-> x.of]
        BY <4>1
      <4>. QED BY <3>2, <4>2 DEF OwnResult
    <3>6. j \in 1..(i - 1) /\ toClient'[j] = toClient[j]
      BY <1>1, <2>2
    <3>. QED BY <3>1, <3>2, <3>3, <3>4, <3>5, <3>6
  <2>. QED BY <1>2, <2>1, <2>2
<1>. QED BY <1>1, <1>3, <1>4, <1>5

LEMMA StaleStep ==
    ASSUME TypeInv, CallInv, LastSeen, StaleWasSeen, [Next]_vars
    PROVE  LastSeen' /\ StaleWasSeen'
<1>0. CASE clientBroken' /\ UNCHANGED toClient
  BY <1>0 DEF LastSeen, StaleWasSeen
<1>1. CASE UNCHANGED <<toClient, lastOk, clientBroken>>
  BY <1>1 DEF LastSeen, StaleWasSeen
<1>2. ASSUME UNCHANGED lastOk, ~clientBroken,
             NEW x \in ClientMessages, Honest(x), toClient' = Append(toClient, x)
      PROVE  LastSeen' /\ StaleWasSeen'
  BY <1>2, HonestAppended DEF LastSeen
<1>3. ASSUME NEW r \in Requests, Original(r) \in ClientMessages, ~clientBroken,
             toClient' = Append(toClient, Original(r)),
             lastOk' = IF ToolOf[r] # NoTool /\ promise[Call(r)] = "result"
                       THEN [lastOk EXCEPT ![ToolOf[r]] = r] ELSE lastOk
      PROVE  LastSeen' /\ StaleWasSeen'
  <2>1. Honest(Original(r))
    BY DEF Honest, Original
  <2>2. /\ StaleWasSeen'
        /\ \A j \in DOMAIN toClient : j \in DOMAIN toClient' /\ toClient'[j] = toClient[j]
        /\ \E j \in DOMAIN toClient' : toClient'[j] = Original(r)
    BY <1>3, <2>1, HonestAppended
  <2>3. CASE lastOk' = lastOk
    BY <1>3, <2>2, <2>3 DEF LastSeen
  <2>4. CASE promise[Call(r)] = "result" /\ lastOk' = [lastOk EXCEPT ![ToolOf[r]] = r]
    <3>1. \A t \in Tools : lastOk'[t] = lastOk[t] \/ (t = ToolOf[r] /\ lastOk'[t] = r)
      BY <2>4 DEF TypeInv, TypeOK, HandlersType
    <3>2. Original(r) = OwnResult(r)
      BY <2>4 DEF Original, OwnResult
    <3>3. ASSUME NEW t \in Tools, lastOk'[t] # NoRequest
          PROVE  /\ ToolOf[lastOk'[t]] = t
                 /\ \E j \in DOMAIN toClient' : toClient'[j] = OwnResult(lastOk'[t])
      <4>1. CASE lastOk'[t] = lastOk[t]
        <5>1. PICK j \in DOMAIN toClient : ToolOf[lastOk[t]] = t /\ toClient[j] = OwnResult(lastOk[t])
          BY <1>3, <3>3, <4>1 DEF LastSeen
        <5>2. j \in DOMAIN toClient' /\ toClient'[j] = OwnResult(lastOk[t])
          BY <2>2, <5>1
        <5>. QED BY <4>1, <5>1, <5>2
      <4>2. CASE t = ToolOf[r] /\ lastOk'[t] = r
        BY <2>2, <3>2, <4>2
      <4>. QED BY <3>1, <4>1, <4>2
    <3>. QED BY <2>2, <3>3 DEF LastSeen
  <2>. QED BY <1>3, <2>2, <2>3, <2>4
<1>. QED BY <1>0, <1>1, <1>2, <1>3, TellSteps DEF Tells

\* A stale answer repeats a result of the same tool that the client was given
\* before, even when requests are answered in another order than they came
\* (lastSuccessfulResponses and staleResponse in sendMutationResponse).
THEOREM StaleIsReal == Spec => []StaleWasSeen
<1>1. Init => LastSeen /\ StaleWasSeen
  BY DEF Init, LastSeen, StaleWasSeen
<1>2. TypeInv /\ CallInv /\ LastSeen /\ StaleWasSeen /\ [Next]_vars => LastSeen' /\ StaleWasSeen'
  BY StaleStep
<1>. QED BY <1>1, <1>2, Invariance, PTL DEF Spec

-------------------------------------------------------------------------------
(* Duplicates.                                                             *)

\* The mutation of a message stays the one chosen when it arrived.
LEMMA ChosenSteps ==
    ASSUME TypeInv, [Next]_vars, NEW m \in Requests \cup Notifications, task[m] # "none"
    PROVE  chosen'[m] = chosen[m]
<1>1. ASSUME NEW n \in Requests \cup Notifications, Arrive(n)
      PROVE  chosen'[m] = chosen[m]
  <2>1. task[n] = "none" /\ chosen' = [chosen EXCEPT ![n] = Selected(n)]
    BY <1>1 DEF Arrive
  <2>2. m # n
    BY <2>1
  <2>. QED BY <2>1, <2>2 DEF TypeInv, TypeOK, HandlersType
<1>2. CASE ClientLine
  BY <1>1, <1>2 DEF ClientLine, DenyBeforeCall, ForwardRequest, ForwardNotification, ClientReplies
<1>3. CASE TargetLine
  BY <1>3 DEF TargetLine, TargetAnswers, TargetSends, TargetWritesStderr, handlers
<1>4. CASE InvalidLine \/ WriteLine \/ WriteBlocks \/ WriteFails \/ WriteDrains
  BY <1>4 DEF InvalidLine, WriteLine, WriteBlocks, WriteFails, WriteDrains, Written, handlers
<1>5. ASSUME NEW r \in Requests, Resume(r) \/ FinishDelay(r) PROVE chosen' = chosen
  BY <1>5 DEF Resume, FinishDelay, ReturnReply, MutateReply, DelayReply, DuplicateCall,
     FinishDuplicate, ReplyRejected, Deliver
<1>6. CASE MainDrains \/ MainCloses \/ MainRejects \/ MainHashes \/ MainPersists \/ MainReturns
  BY <1>6 DEF MainDrains, MainCloses, MainRejects, MainHashes, MainPersists, MainReturns, handlers
<1>7. CASE \/ ClientEnds \/ TargetExits \/ TargetCloses \/ RunTimeout \/ Interrupt
           \/ InterruptAgain \/ CloserTerminates \/ CloserKills \/ UNCHANGED vars
  BY <1>7 DEF ClientEnds, TargetExits, TargetCloses, RunTimeout, Interrupt, InterruptAgain,
     CloserTerminates, CloserKills, handlers, vars
<1>8. ASSUME NEW k \in Keys, RequestTimeout(k) PROVE chosen' = chosen
  BY <1>8 DEF RequestTimeout, handlers
<1>9. ASSUME NEW n \in Requests \cup Notifications, DeliveryFails(n) PROVE chosen' = chosen
  BY <1>9 DEF DeliveryFails
<1>. QED
  BY <1>2, <1>3, <1>4, <1>5, <1>6, <1>7, <1>8, <1>9 DEF Next, Prompt, Turn, Terminated

\* How the promise of a request is settled.
SettlesWell(k) ==
    \/ promise'[k] = promise[k]
    \/ promise'[k] \in {"open", "timeout"}
    \/ promise'[k] \in {"result", "error"} /\ answered'[k] = promise'[k]
    \/ promise'[k] = "rejected" /\ (target' = "closed" \/ main' \in {"settling", "crashed"})

LEMMA PromiseSteps ==
    ASSUME TypeInv, [Next]_vars
    PROVE  /\ \A k \in Keys : SettlesWell(k)
           /\ target = "closed" => target' = "closed"
<1>. DEFINE Goal == (\A k \in Keys : SettlesWell(k)) /\ (target = "closed" => target' = "closed")
<1>0. promise \in [Keys -> Settlements] /\ answered \in [Keys -> {"none", "result", "error"}]
  BY DEF TypeInv, TypeOK, RequestsType, ServerType
<1>1. ASSUME UNCHANGED <<promise, target>> PROVE Goal
  BY <1>1 DEF SettlesWell
<1>2. ASSUME NEW key \in Keys, NEW l, SendTargetRequest(key, l), UNCHANGED target PROVE Goal
  BY <1>0, <1>2 DEF SendTargetRequest, SettlesWell
<1>3. CASE ClientLine
  <2>1. ASSUME NEW r \in Requests, ForwardRequest(r) PROVE Goal
    <3>1. Call(r) \in Keys
      BY DEF Keys
    <3>. QED BY <1>2, <2>1, <3>1 DEF ForwardRequest, server
  <2>. QED BY <1>1, <1>3, <2>1 DEF ClientLine, DenyBeforeCall, ForwardNotification, ClientReplies,
             requests, server
<1>4. ASSUME NEW k \in Keys, NEW outcome \in {"result", "error"}, TargetAnswers(k, outcome)
      PROVE  Goal
  <2>1. /\ target' = target /\ answered'[k] = outcome
        /\ promise' = promise \/ promise' = [promise EXCEPT ![k] = outcome]
    BY <1>0, <1>4 DEF TargetAnswers, requests
  <2>. QED BY <1>0, <2>1 DEF SettlesWell
<1>5. CASE TargetLine
  BY <1>1, <1>4, <1>5 DEF TargetLine, TargetSends, TargetWritesStderr, requests
<1>6. CASE InvalidLine \/ WriteLine \/ WriteBlocks \/ WriteFails \/ WriteDrains
  BY <1>1, <1>6 DEF InvalidLine, WriteLine, WriteBlocks, WriteFails, WriteDrains, Written,
     requests, server
<1>7. ASSUME NEW r \in Requests, Resume(r) \/ FinishDelay(r) PROVE Goal
  <2>1. CASE DuplicateCall(r)
    <3>1. Duplicate(r) \in Keys
      BY DEF Keys
    <3>. QED BY <1>2, <2>1, <3>1 DEF DuplicateCall, server
  <2>. QED BY <1>1, <1>7, <2>1 DEF Resume, FinishDelay, ReturnReply, MutateReply, DelayReply,
             FinishDuplicate, ReplyRejected, Deliver, requests, server
<1>8. CASE MainDrains \/ MainCloses \/ MainHashes \/ MainPersists \/ MainReturns
  BY <1>1, <1>8 DEF MainDrains, MainCloses, MainHashes, MainPersists, MainReturns, requests, server
<1>9. CASE MainRejects
  <2>1. target' = target /\ main' \in {"settling", "crashed"}
        /\ promise' = [k \in Keys |-> IF k \in pending THEN "rejected" ELSE promise[k]]
    BY <1>9 DEF MainRejects, RejectPending, server
  <2>. QED BY <2>1 DEF SettlesWell
<1>10. CASE TargetCloses
  <2>1. target' = "closed"
        /\ promise' = [k \in Keys |-> IF k \in pending THEN "rejected" ELSE promise[k]]
    BY <1>10 DEF TargetCloses, RejectPending
  <2>. QED BY <2>1 DEF SettlesWell
<1>11. CASE TargetExits
  BY <1>11 DEF TargetExits, requests, SettlesWell
<1>12. CASE \/ ClientEnds \/ RunTimeout \/ Interrupt \/ InterruptAgain
            \/ CloserTerminates \/ CloserKills \/ UNCHANGED vars
  BY <1>1, <1>12 DEF ClientEnds, RunTimeout, Interrupt, InterruptAgain, CloserTerminates,
     CloserKills, requests, server, vars
<1>14. ASSUME NEW m \in Requests \cup Notifications, DeliveryFails(m) PROVE Goal
  BY <1>1, <1>14 DEF DeliveryFails, requests, server
<1>13. ASSUME NEW k \in Keys, RequestTimeout(k) PROVE Goal
  BY <1>0, <1>13 DEF RequestTimeout, server, SettlesWell
<1>. QED
  BY <1>3, <1>5, <1>6, <1>7, <1>8, <1>9, <1>10, <1>11, <1>12, <1>13, <1>14
  DEF Next, Prompt, Turn, Terminated

\* While the run goes on and the target lives, no promise is rejected.
RejectedLate ==
    main \in {"racing", "draining", "closing"} /\ target # "closed" =>
        \A k \in Keys : promise[k] # "rejected"

\* A duplicate was declared.
CopyDeclared ==
    \A r \in Requests :
        task[r] \in {"copy_writing", "copy_waiting"} \/ Duplicate(r) \in Read => Declared(r)

DuplicatesInv == RejectedLate /\ CopyDeclared /\ DuplicateHidden /\ CallsNotRepeated

LEMMA HiddenStep ==
    ASSUME TypeInv, CallInv, FramesInv, RejectedLate, DuplicateHidden, [Next]_vars
    PROVE  RejectedLate' /\ DuplicateHidden'
<1>. DEFINE Early == {"racing", "draining", "closing"}
<1>1. main' \in Early => main \in Early
  BY MainSteps DEF MainMoves
<1>2. RejectedLate'
  <2>. SUFFICES ASSUME main' \in Early, target' # "closed", NEW k \in Keys
                PROVE  promise'[k] # "rejected"
    BY DEF RejectedLate
  <2>1. SettlesWell(k) /\ target # "closed"
    BY PromiseSteps
  <2>. QED BY <1>1, <2>1 DEF SettlesWell, RejectedLate
<1>3. DuplicateHidden'
  <2>. SUFFICES ASSUME main' \in Early, NEW i \in DOMAIN toClient' PROVE ~toClient'[i].id.copy
    BY DEF DuplicateHidden
  <2>1. main \in Early /\ \A j \in DOMAIN toClient : ~toClient[j].id.copy
    BY <1>1 DEF DuplicateHidden
  <2>2. ASSUME NEW x \in ClientMessages, toClient' = Append(toClient, x), ~x.id.copy
        PROVE  ~toClient'[i].id.copy
    BY <2>1, <2>2, TaskFacts
  <2>3. ASSUME toClient' = toClient PROVE ~toClient'[i].id.copy
    BY <2>1, <2>3
  <2>4. ASSUME NEW f \in Frames, Queues(f) PROVE ~toClient'[i].id.copy
    BY <2>3, <2>4 DEF Queues
  <2>5. CASE Writes \/ Breaks
    BY <2>3, <2>5 DEF Writes, Breaks
  <2>6. CASE Continues
    <3>1. \/ toClient' = toClient
          \/ \E x \in ClientMessages : ~x.id.copy /\ toClient' = Append(toClient, x)
      BY <2>6 DEF Continues, Gives
    <3>. QED BY <2>2, <2>3, <3>1
  <2>7. CASE Listens
    <3>1. \/ toClient' = toClient
          \/ \E x \in ClientMessages :
             /\ toClient' = Append(toClient, x)
             /\ x.id.copy => x.id \in Keys /\ promise[x.id] = "rejected" /\ target # "closed"
      BY <2>7 DEF Listens
    <3>2. \/ toClient' = toClient
          \/ \E x \in ClientMessages : toClient' = Append(toClient, x) /\ ~x.id.copy
      BY <2>1, <3>1 DEF RejectedLate
    <3>. QED BY <2>2, <2>3, <3>2
  <2>8. ASSUME NEW m \in Requests \cup Notifications, Denies(m) \/ Loses(m)
        PROVE  ~toClient'[i].id.copy
    <3>1. \/ toClient' = toClient
          \/ \E x \in ClientMessages : ~x.id.copy /\ toClient' = Append(toClient, x)
      BY <2>8 DEF Denies, Gives, Loses
    <3>. QED BY <2>2, <2>3, <3>1
  <2>. QED BY <2>4, <2>5, <2>6, <2>7, <2>8, Steps
<1>. QED BY <1>2, <1>3

LEMMA DeclaredStep ==
    ASSUME TypeInv, CallInv, FramesInv, CopyDeclared, [Next]_vars
    PROVE  CopyDeclared'
<1>. SUFFICES ASSUME NEW r \in Requests,
                     task'[r] \in {"copy_writing", "copy_waiting"} \/ Duplicate(r) \in Read'
              PROVE  Declared(r)'
  BY DEF CopyDeclared
<1>. DEFINE Marked == task[r] \in {"copy_writing", "copy_waiting"} \/ Duplicate(r) \in Read
<1>0. task \in [ClientLines -> TaskStates] /\ r \in ClientLines
  BY TaskFacts
<1>1. Marked => task[r] # "none"
  BY DEF FramesInv, ReadIsStarted
<1>2. Marked \/ (task[r] = "waiting" /\ Declared(r))
  <2>1. ASSUME NEW f \in Frames, Queues(f) PROVE Marked \/ (task[r] = "waiting" /\ Declared(r))
    <3>1. Read' = Read /\ task' = [task EXCEPT ![f.of] = IF f.copy THEN "copy_writing" ELSE "writing"]
          /\ (f.copy => task[f.of] = "waiting" /\ Declared(f.of))
      BY <2>1 DEF Queues, Read
    <3>. QED BY <1>0, <3>1
  <2>2. CASE Writes
    <3>. DEFINE h == Head(chain)
    <3>1. /\ Read' = Read \cup {h}
          /\ task[h.of] = IF h.copy THEN "copy_writing" ELSE "writing"
          /\ task' = task \/ task' = [task EXCEPT ![h.of] = Waiting(h)]
      <4>1. chain # <<>> /\ HeadIsRead
        BY <2>2 DEF Writes, FramesInv
      <4>. QED BY <2>2, <4>1, WritesMoves, HeadFacts, TaskFacts DEF Writes
    <3>. HIDE DEF h
    <3>2. task'[r] = task[r] \/ (r = h.of /\ task'[r] = Waiting(h))
      BY <1>0, <3>1
    <3>. QED BY <3>1, <3>2 DEF Waiting
  <2>3. CASE Breaks
    BY <1>0, <2>3 DEF Breaks, Read
  <2>4. CASE Continues
    <3>1. Read' = Read /\ \E q \in Requests, state \in {"done", "undelivered", "failed", "delaying"} :
                              task' = [task EXCEPT ![q] = state]
      BY <2>4 DEF Continues, Gives, Read
    <3>. QED BY <1>0, <3>1
  <2>5. CASE Listens
    BY <2>5 DEF Listens, Read
  <2>6. ASSUME NEW m \in Requests \cup Notifications, Denies(m) \/ Loses(m)
        PROVE  Marked \/ (task[r] = "waiting" /\ Declared(r))
    <3>1. Read' = Read /\ \E state \in {"done", "undelivered", "failed"} :
                              task' = [task EXCEPT ![m] = state]
      BY <2>6 DEF Denies, Gives, Loses, Read
    <3>. QED BY <1>0, <3>1
  <2>. QED BY <2>1, <2>2, <2>3, <2>4, <2>5, <2>6, Steps
<1>3. Declared(r) /\ task[r] # "none"
  BY <1>1, <1>2 DEF CopyDeclared
<1>4. chosen'[r] = chosen[r]
  BY <1>3, ChosenSteps
<1>. QED BY <1>3, <1>4 DEF Declared, MutationOf

LEMMA RepeatStep ==
    ASSUME TypeInv, CallInv, FramesInv, CopyDeclared, CallsNotRepeated, [Next]_vars
    PROVE  CallsNotRepeated'
<1>1. received' = received \/ (chain # <<>> /\ ~draining /\ received' = Append(received, Head(chain)))
  <2>1. ASSUME NEW f \in Frames, Queues(f) PROVE received' = received
    BY <2>1 DEF Queues
  <2>2. ASSUME NEW m \in Requests \cup Notifications, Denies(m) \/ Loses(m)
        PROVE  received' = received
    BY <2>2 DEF Denies, Loses
  <2>. QED BY <2>1, <2>2, Steps DEF Writes, Breaks, Continues, Listens
<1>2. ASSUME NEW i \in DOMAIN received, received[i].copy
      PROVE  chosen'[received[i].of] = chosen[received[i].of]
  <2>1. received[i] \in Read
    BY DEF Read, Range
  <2>2. received[i].of \in Requests /\ task[received[i].of] # "none"
    BY <1>2, <2>1 DEF FramesInv, ReadIsStarted
  <2>. QED BY <2>2, ChosenSteps
<1>3. CASE received' = received
  BY <1>2, <1>3 DEF CallsNotRepeated, MutationOf
<1>4. CASE chain # <<>> /\ ~draining /\ received' = Append(received, Head(chain))
  <2>. DEFINE h == Head(chain)
              n == Len(received) + 1
  <2>1. /\ h \in Queued /\ h \in Frames
        /\ task[h.of] = IF h.copy THEN "copy_writing" ELSE "writing"
        /\ h.copy => h.of \in Requests
    BY <1>4, HeadFacts, TaskFacts
  <2>2. h \notin Read
    BY <1>4, <2>1 DEF FramesInv, HeadIsRead
  <2>3. /\ DOMAIN received' = 1..n /\ DOMAIN received = 1..Len(received) /\ Len(received) \in Nat
        /\ \A i \in 1..Len(received) : received'[i] = received[i]
        /\ received'[n] = h
    BY <1>4, TaskFacts
  <2>. HIDE DEF h
  <2>4. \A i \in DOMAIN received : received'[i] = received[i] /\ received[i] # h
    BY <2>2, <2>3 DEF Read, Range
  <2>5. \A i \in DOMAIN received' : i \in DOMAIN received \/ i = n
    BY <2>3
  <2>6. ASSUME NEW i \in DOMAIN received', NEW j \in DOMAIN received', received'[i] = received'[j]
        PROVE  i = j
    BY <2>3, <2>4, <2>5, <2>6 DEF CallsNotRepeated
  <2>7. ASSUME NEW i \in DOMAIN received', received'[i].copy
        PROVE  /\ Mutations[chosen'[received'[i].of]].type = "duplicate_call"
               /\ \E j \in 1..(i - 1) : received'[j] = Call(received'[i].of)
    <3>1. CASE i \in DOMAIN received
      <4>1. received'[i] = received[i]
        BY <2>4, <3>1
      <4>2. /\ MutationOf(received[i].of).type = "duplicate_call"
            /\ \E j \in 1..(i - 1) : received[j] = Call(received[i].of)
        BY <2>7, <3>1, <4>1 DEF CallsNotRepeated
      <4>3. \A j \in 1..(i - 1) : received'[j] = received[j]
        BY <2>3, <3>1
      <4>4. chosen'[received[i].of] = chosen[received[i].of]
        BY <1>2, <2>7, <3>1, <4>1
      <4>. QED BY <4>1, <4>2, <4>3, <4>4 DEF MutationOf
    <3>2. CASE i = n
      <4>1. h.copy /\ received'[i] = h
        BY <2>3, <2>7, <3>2
      <4>2. h.of \in Requests /\ task[h.of] = "copy_writing"
        BY <2>1, <4>1
      <4>3. MutationOf(h.of).type = "duplicate_call" /\ Call(h.of) \in Read
        BY <4>2 DEF CopyDeclared, Declared, FramesInv, CallIsRead
      <4>4. chosen'[h.of] = chosen[h.of]
        BY <4>2, ChosenSteps
      <4>5. PICK j \in DOMAIN received : received[j] = Call(h.of)
        BY <4>3 DEF Read, Range
      <4>6. j \in 1..(i - 1) /\ received'[j] = received[j]
        <5>1. j \in 1..Len(received) /\ i = Len(received) + 1 /\ Len(received) \in Nat
          BY <2>3, <3>2, <4>5
        <5>. QED BY <2>3, <5>1
      <4>. QED BY <4>1, <4>3, <4>4, <4>5, <4>6 DEF MutationOf
    <3>. QED BY <2>5, <2>7, <3>1, <3>2
  <2>. QED BY <2>6, <2>7 DEF CallsNotRepeated, MutationOf
<1>. QED BY <1>1, <1>3, <1>4

LEMMA DuplicatesInvariance == Spec => [](TypeInv /\ CallInv /\ FramesInv /\ DuplicatesInv)
<1>1. Init => DuplicatesInv
  <2>. SUFFICES ASSUME Init PROVE DuplicatesInv
    OBVIOUS
  <2>1. /\ received = <<>> /\ toClient = <<>> /\ DOMAIN received = {} /\ DOMAIN toClient = {}
        /\ \A k \in Keys : promise[k] = "unused"
        /\ \A r \in Requests : task[r] = "none"
    BY DEF Init
  <2>2. Read = {}
    BY <2>1 DEF Read, Range
  <2>. QED BY <2>1, <2>2 DEF DuplicatesInv, RejectedLate, CopyDeclared, DuplicateHidden,
             CallsNotRepeated
<1>2. TypeInv /\ CallInv /\ FramesInv /\ DuplicatesInv /\ [Next]_vars => DuplicatesInv'
  BY HiddenStep, DeclaredStep, RepeatStep DEF DuplicatesInv
<1>. QED BY <1>1, <1>2, FramesInvariance, PTL DEF Spec

\* The call a proxy makes for duplicate_call comes after the one it doubles, no
\* other call reaches the target twice, and the client never sees the id the
\* proxy made up for it (sendMutationResponse, handleTargetMessage).
THEOREM DuplicatesStayInside == Spec => []DuplicatesContained
<1>1. DuplicatesInv => DuplicatesContained
  BY DEF DuplicatesInv, DuplicatesContained
<1>. QED BY <1>1, DuplicatesInvariance, PTL

-------------------------------------------------------------------------------
(* Timeouts.                                                               *)

\* The target answers what it has read, and only an answer settles a promise with
\* a result or an error.
AnsweredRead == \A k \in Keys : answered[k] # "none" => k \in Read
PromiseOfAnswer ==
    \A k \in Keys : /\ promise[k] \in {"result", "error"} => answered[k] = promise[k]
                    /\ promise[k] \in {"unused", "open"} => answered[k] = "none"

\* lastSuccessfulResponses holds what settled a promise.
LastSettled ==
    \A t \in Tools : lastOk[t] # NoRequest => promise[Call(lastOk[t])] = "result"

\* A message that is the outcome of a request is the answer of the target to it, in
\* time.
InTime(x) ==
    x.kind \in {"result", "error"} =>
        x.of \in Keys /\ promise[x.of] # "timeout" /\ answered[x.of] = x.kind
ToldInTime == \A i \in DOMAIN toClient : InTime(toClient[i])

TimeoutInv == AnsweredRead /\ PromiseOfAnswer /\ LastSettled /\ ToldInTime

\* What a step may do to a promise and the answer it is for.
Settles(k) ==
    \/ promise'[k] = promise[k] /\ answered'[k] = answered[k]
    \/ promise'[k] = "open" /\ answered'[k] = answered[k] /\ k \notin Read
    \/ promise[k] = "open" /\ promise'[k] \in {"timeout", "rejected"} /\ answered'[k] = answered[k]
    \/ /\ answered[k] = "none" /\ answered'[k] # "none" /\ k \in Read
       /\ IF promise[k] = "open" THEN promise'[k] = answered'[k]
          ELSE promise'[k] = promise[k] /\ promise[k] # "unused"

LEMMA SettleSteps ==
    ASSUME TypeInv, CallInv, FramesInv, [Next]_vars, NEW k \in Keys
    PROVE  Settles(k)
<1>0. /\ promise \in [Keys -> Settlements] /\ answered \in [Keys -> {"none", "result", "error"}]
      /\ k \in pending <=> promise[k] = "open"
  BY DEF TypeInv, TypeOK, RequestsType, ServerType, CallInv, PendingOpen
<1>1. ASSUME UNCHANGED <<promise, answered>> PROVE Settles(k)
  BY <1>1 DEF Settles
<1>2. ASSUME NEW key \in Keys, key \notin Read, NEW l, SendTargetRequest(key, l), UNCHANGED answered
      PROVE  Settles(k)
  <2>1. promise' = [promise EXCEPT ![key] = "open"]
    BY <1>2 DEF SendTargetRequest
  <2>. QED BY <1>0, <1>2, <2>1 DEF Settles
<1>3. CASE ClientLine
  <2>1. ASSUME NEW r \in Requests, ForwardRequest(r) PROVE Settles(k)
    <3>1. Call(r) \in Keys /\ Call(r) \notin Read
      BY <2>1 DEF Keys, ForwardRequest, Arrive, FramesInv, ReadIsStarted
    <3>. QED BY <1>2, <2>1, <3>1 DEF ForwardRequest, server
  <2>. QED BY <1>1, <1>3, <2>1 DEF ClientLine, DenyBeforeCall, ForwardNotification, ClientReplies,
             requests, server
<1>4. ASSUME NEW key \in Keys, NEW outcome \in {"result", "error"}, TargetAnswers(key, outcome)
      PROVE  Settles(k)
  <2>1. /\ answered[key] = "none" /\ answered' = [answered EXCEPT ![key] = outcome]
        /\ key \in Read
    BY <1>4 DEF TargetAnswers, Read
  <2>2. promise' = IF key \in pending THEN [promise EXCEPT ![key] = outcome] ELSE promise
    BY <1>4 DEF TargetAnswers, requests
  <2>3. promise[key] # "unused"
    BY <2>1 DEF CallInv, SettledByTarget, Read
  <2>. QED BY <1>0, <2>1, <2>2, <2>3 DEF Settles
<1>5. CASE TargetLine
  BY <1>1, <1>4, <1>5 DEF TargetLine, TargetSends, TargetWritesStderr, requests
<1>6. CASE InvalidLine \/ WriteLine \/ WriteBlocks \/ WriteFails \/ WriteDrains
  BY <1>1, <1>6 DEF InvalidLine, WriteLine, WriteBlocks, WriteFails, WriteDrains, Written,
     requests, server
<1>7. ASSUME NEW r \in Requests, Resume(r) \/ FinishDelay(r) PROVE Settles(k)
  <2>1. CASE DuplicateCall(r)
    <3>1. Duplicate(r) \in Keys
      BY DEF Keys
    <3>2. Duplicate(r) \notin Read
      BY <2>1 DEF DuplicateCall, MutationStarts, FramesInv, ReadIsStarted
    <3>. QED BY <1>2, <2>1, <3>1, <3>2 DEF DuplicateCall, server
  <2>. QED BY <1>1, <1>7, <2>1 DEF Resume, FinishDelay, ReturnReply, MutateReply, DelayReply,
             FinishDuplicate, ReplyRejected, Deliver, requests, server
<1>8. CASE MainDrains \/ MainCloses \/ MainHashes \/ MainPersists \/ MainReturns
  BY <1>1, <1>8 DEF MainDrains, MainCloses, MainHashes, MainPersists, MainReturns, requests, server
<1>9. CASE MainRejects \/ TargetCloses
  <2>1. /\ answered' = answered
        /\ promise' = [key \in Keys |-> IF key \in pending THEN "rejected" ELSE promise[key]]
    BY <1>9 DEF MainRejects, TargetCloses, RejectPending, server
  <2>. QED BY <1>0, <2>1 DEF Settles
<1>10. CASE \/ ClientEnds \/ TargetExits \/ RunTimeout \/ Interrupt \/ InterruptAgain
            \/ CloserTerminates \/ CloserKills \/ UNCHANGED vars
  BY <1>1, <1>10 DEF ClientEnds, TargetExits, RunTimeout, Interrupt, InterruptAgain,
     CloserTerminates, CloserKills, requests, server, vars
<1>11. ASSUME NEW m \in Requests \cup Notifications, DeliveryFails(m) PROVE Settles(k)
  BY <1>1, <1>11 DEF DeliveryFails, requests, server
<1>12. ASSUME NEW key \in Keys, RequestTimeout(key) PROVE Settles(k)
  <2>1. /\ promise' = [promise EXCEPT ![key] = "timeout"] /\ key \in pending
        /\ answered' = answered
    BY <1>12 DEF RequestTimeout, server
  <2>2. promise[key] = "open"
    BY <2>1 DEF CallInv, PendingOpen
  <2>. QED BY <1>0, <2>1, <2>2 DEF Settles
<1>. QED
  BY <1>3, <1>5, <1>6, <1>7, <1>8, <1>9, <1>10, <1>11, <1>12 DEF Next, Prompt, Turn, Terminated

\* What the client is told in a step is in time, ...
TellsInTime ==
    \/ UNCHANGED <<toClient, lastOk>>
    \/ UNCHANGED lastOk /\ \E x \in ClientMessages : InTime(x)' /\ toClient' = Append(toClient, x)
    \/ /\ UNCHANGED toClient \/ \E x \in ClientMessages : InTime(x)' /\ toClient' = Append(toClient, x)
       /\ \E r \in Requests :
             promise[Call(r)] = "result" /\ lastOk' = [lastOk EXCEPT ![ToolOf[r]] = r]

LEMMA InTimeSteps ==
    ASSUME TypeInv, CallInv, PromiseOfAnswer, LastSettled, [Next]_vars
    PROVE  TellsInTime
<1>0. \A m \in ClientLines \cup ServerNotifications :
          Call(m) \in [of: ClientLines \cup ServerNotifications, copy: BOOLEAN]
  OBVIOUS
<1>1. ASSUME NEW x \in ClientMessages, InTime(x)', WriteClient(x), UNCHANGED lastOk
      PROVE  TellsInTime
  BY <1>1 DEF WriteClient, TellsInTime
<1>2. ASSUME NEW m \in Requests \cup Notifications, DenyBeforeCall(m) PROVE TellsInTime
  <2>. DEFINE x == [id |-> Call(m), kind |-> "injected", of |-> Call(m)]
  <2>1. x \in ClientMessages /\ InTime(x)'
    BY <1>0, ClientMessageType DEF InTime
  <2>2. WriteClient(x) /\ UNCHANGED lastOk
    BY <1>2 DEF DenyBeforeCall
  <2>. HIDE DEF x
  <2>. QED BY <1>1, <2>1, <2>2
<1>3. ASSUME NEW r \in Requests, ForwardRequest(r) PROVE TellsInTime
  BY <1>3 DEF ForwardRequest, TellsInTime
<1>4. ASSUME NEW n \in Notifications, ForwardNotification(n) PROVE TellsInTime
  BY <1>4 DEF ForwardNotification, TellsInTime
<1>5. ASSUME NEW s \in ServerRequests, ClientReplies(s) PROVE TellsInTime
  BY <1>5 DEF ClientReplies, TellsInTime
<1>6. ASSUME NEW k \in Keys, NEW outcome \in {"result", "error"}, TargetAnswers(k, outcome)
      PROVE  TellsInTime
  <2>. DEFINE x == [id |-> k, kind |-> outcome, of |-> k]
  <2>1. x \in ClientMessages
    <3>1. k \in [of: ClientLines \cup ServerNotifications, copy: BOOLEAN]
      BY DEF Keys
    <3>. QED BY <3>1, ClientMessageType
  <2>2. UNCHANGED lastOk
    BY <1>6 DEF TargetAnswers, handlers
  <2>3. CASE k \in pending \/ k \in discarded
    BY <1>6, <2>2, <2>3 DEF TargetAnswers, TellsInTime
  <2>4. CASE k \notin pending /\ k \notin discarded
    <3>1. /\ WriteClient(x) /\ promise' = promise
          /\ answered[k] = "none" /\ answered' = [answered EXCEPT ![k] = outcome]
      BY <1>6, <2>4 DEF TargetAnswers, requests
    <3>2. promise[k] # "timeout"
      BY <2>4, <3>1 DEF CallInv, SettledByTarget
    <3>3. answered'[k] = outcome
      BY <3>1 DEF TypeInv, TypeOK, ServerType
    <3>4. InTime(x)'
      BY <3>1, <3>2, <3>3 DEF InTime
    <3>. HIDE DEF x
    <3>. QED BY <1>1, <2>1, <2>2, <3>1, <3>4
  <2>. QED BY <2>3, <2>4
<1>7. ASSUME NEW s \in ServerRequests \cup ServerNotifications, TargetSends(s) PROVE TellsInTime
  <2>. DEFINE x == [id |-> Call(s), kind |-> "forwarded", of |-> Call(s)]
  <2>1. x \in ClientMessages /\ InTime(x)'
    BY <1>0, ClientMessageType DEF InTime
  <2>2. WriteClient(x) /\ UNCHANGED lastOk
    BY <1>7 DEF TargetSends, handlers
  <2>. HIDE DEF x
  <2>. QED BY <1>1, <2>1, <2>2
<1>8. ASSUME NEW r \in Requests, Replied(Call(r)), UNCHANGED <<promise, answered>>
      PROVE  Original(r) \in ClientMessages /\ InTime(Original(r))'
  <2>1. Original(r) \in ClientMessages
    BY <1>8, ReplyTypes
  <2>2. Call(r) \in Keys
    BY DEF Keys
  <2>3. ASSUME promise[Call(r)] \in {"result", "error"}
        PROVE  promise'[Call(r)] # "timeout" /\ answered'[Call(r)] = promise'[Call(r)]
    BY <1>8, <2>2, <2>3 DEF PromiseOfAnswer
  <2>4. Original(r)' = Original(r)
    BY <1>8 DEF Original
  <2>5. InTime(Original(r))'
    BY <1>8, <2>2, <2>3 DEF InTime, Original
  <2>. QED BY <2>1, <2>5
<1>9. ASSUME NEW r \in Requests, chosen[r] # 0, Replied(Call(r)), UNCHANGED <<promise, answered>>,
             NEW x, x = Visible(r)
      PROVE  x \in ClientMessages /\ InTime(x)'
  <2>1. x \in ClientMessages
    BY <1>9, ReplyTypes
  <2>2. CASE x = Original(r)
    <3>1. x.of = Call(r) /\ x.kind = promise[Call(r)] /\ Call(r) \in Keys
      BY <2>2 DEF Original, Keys
    <3>2. InTime(x)'
      BY <1>9, <3>1 DEF InTime, PromiseOfAnswer
    <3>. QED BY <2>1, <3>2
  <2>3. CASE x.kind \in {"injected", "corrupted"}
    BY <2>1, <2>3 DEF InTime
  <2>4. CASE /\ Stale(r) /\ StaleSource(r) # NoRequest
             /\ x = [id |-> Call(r), kind |-> "result", of |-> Call(StaleSource(r))]
    <3>1. ToolOf[r] \in Tools
      BY <1>9 DEF TypeInv, ChosenHasTool
    <3>2. StaleSource(r) \in Requests /\ promise[Call(StaleSource(r))] = "result"
      BY <2>4, <3>1 DEF StaleSource, LastSettled, TypeInv, TypeOK, HandlersType
    <3>3. Call(StaleSource(r)) \in Keys /\ x.of = Call(StaleSource(r)) /\ x.kind = "result"
      BY <2>4, <3>2 DEF Keys
    <3>4. InTime(x)'
      BY <1>9, <3>2, <3>3 DEF InTime, PromiseOfAnswer
    <3>. QED BY <2>1, <3>4
  <2>5. \/ x = Original(r)
        \/ x.kind \in {"injected", "corrupted"}
        \/ /\ Stale(r) /\ StaleSource(r) # NoRequest
           /\ x = [id |-> Call(r), kind |-> "result", of |-> Call(StaleSource(r))]
    <3>1. CASE MutationOf(r).type \in MutationTypes.error
      <4>1. x = [id |-> Call(r), kind |-> "injected", of |-> Call(r)]
        BY <1>9, <3>1 DEF Visible, Stale, MutationTypes
      <4>. QED BY <4>1
    <3>2. CASE /\ MutationOf(r).type \notin MutationTypes.error
               /\ MutationOf(r).type \in MutationTypes.corrupt
      <4>1. x = [id |-> Call(r), kind |-> "corrupted", of |-> Call(r)]
        BY <1>9, <3>2 DEF Visible, Stale, MutationTypes
      <4>. QED BY <4>1
    <3>3. CASE /\ MutationOf(r).type \notin MutationTypes.error
               /\ MutationOf(r).type \notin MutationTypes.corrupt
      BY <1>9, <3>3 DEF Visible
    <3>. QED BY <3>1, <3>2, <3>3
  <2>. QED BY <2>2, <2>3, <2>4, <2>5
<1>10. ASSUME NEW r \in Requests, ReturnReply(r) PROVE TellsInTime
  <2>. DEFINE x == Original(r)
  <2>1. /\ WriteClient(x) /\ Replied(Call(r)) /\ UNCHANGED <<promise, answered>>
        /\ lastOk' = IF ToolOf[r] # NoTool /\ promise[Call(r)] = "result"
                     THEN [lastOk EXCEPT ![ToolOf[r]] = r] ELSE lastOk
    BY <1>10 DEF ReturnReply, Deliver, requests, server
  <2>2. x \in ClientMessages
    BY <1>8, <2>1
  <2>3. InTime(x)'
    <3>1. x.of = Call(r) /\ x.kind = promise[Call(r)] /\ Call(r) \in Keys
      BY DEF Original, Keys
    <3>2. ASSUME NEW y, y = x PROVE InTime(y)'
      BY <2>1, <3>1, <3>2 DEF InTime, PromiseOfAnswer
    <3>3. x' = x
      BY <2>1 DEF Original
    <3>. QED BY <3>2, <3>3
  <2>4. x' = x
    BY <2>1 DEF Original
  <2>. HIDE DEF x
  <2>. QED BY <2>1, <2>2, <2>3, <2>4 DEF WriteClient, TellsInTime
<1>11. ASSUME NEW r \in Requests, MutateReply(r) \/ FinishDelay(r) PROVE TellsInTime
  <2>1. /\ WriteClient(Visible(r)) /\ Replied(Call(r)) /\ chosen[r] # 0
        /\ UNCHANGED <<promise, answered, lastOk>>
    BY <1>11 DEF MutateReply, MutationStarts, FinishDelay, Deliver, CallInv, MutatesReply, Applied,
       requests, server
  <2>2. PICK x : x = Visible(r)
    OBVIOUS
  <2>3. x \in ClientMessages /\ InTime(x)'
    BY <1>9, <2>1, <2>2
  <2>. QED BY <1>1, <2>1, <2>2, <2>3
<1>12. ASSUME NEW r \in Requests, FinishDuplicate(r) PROVE TellsInTime
  <2>1. /\ WriteClient(Original(r)) /\ Replied(Call(r))
        /\ UNCHANGED <<promise, answered, lastOk>>
    BY <1>12 DEF FinishDuplicate, Deliver, CallInv, MutatesReply, Applied, requests, server
  <2>2. PICK x : x = Original(r)
    OBVIOUS
  <2>3. x \in ClientMessages
    BY <1>8, <2>1, <2>2
  <2>4. x.of = Call(r) /\ x.kind = promise[Call(r)] /\ Call(r) \in Keys
    BY <2>2 DEF Original, Keys
  <2>5. InTime(x)'
    BY <2>1, <2>4 DEF InTime, PromiseOfAnswer
  <2>. QED BY <1>1, <2>1, <2>2, <2>3, <2>5
<1>13. ASSUME NEW r \in Requests, DelayReply(r) \/ DuplicateCall(r) \/ ReplyRejected(r)
       PROVE  TellsInTime
  BY <1>13 DEF DelayReply, DuplicateCall, ReplyRejected, TellsInTime
<1>14. CASE \/ InvalidLine \/ WriteLine \/ WriteBlocks \/ WriteFails \/ WriteDrains
            \/ MainDrains \/ MainCloses \/ MainRejects \/ MainHashes \/ MainPersists
            \/ MainReturns
  BY <1>14 DEF InvalidLine, WriteLine, WriteBlocks, WriteFails, WriteDrains, Written,
     MainDrains, MainCloses, MainRejects, MainHashes, MainPersists, MainReturns, handlers,
     TellsInTime
<1>15. CASE \/ ClientEnds \/ TargetExits \/ TargetCloses \/ RunTimeout \/ Interrupt
            \/ InterruptAgain \/ CloserTerminates \/ CloserKills \/ UNCHANGED vars
  BY <1>15 DEF ClientEnds, TargetExits, TargetCloses, RunTimeout, Interrupt, InterruptAgain,
     CloserTerminates, CloserKills, vars, handlers, TellsInTime
<1>16. ASSUME NEW k \in Keys, RequestTimeout(k) PROVE TellsInTime
  BY <1>16 DEF RequestTimeout, handlers, TellsInTime
<1>17. ASSUME NEW c \in StderrChunks, TargetWritesStderr(c) PROVE TellsInTime
  BY <1>17 DEF TargetWritesStderr, handlers, TellsInTime
<1>18. ASSUME NEW m \in Requests \cup Notifications, DeliveryFails(m) PROVE TellsInTime
  BY <1>18 DEF DeliveryFails, TellsInTime
<1>. QED
  BY <1>2, <1>3, <1>4, <1>5, <1>6, <1>7, <1>10, <1>11, <1>12, <1>13, <1>14, <1>15, <1>16, <1>17,
     <1>18
  DEF Next, Prompt, Turn, Terminated, ClientLine, TargetLine, Resume

\* ... and what it was told stays so.
LEMMA TimeoutStep ==
    ASSUME TypeInv, CallInv, FramesInv, TimeoutInv, [Next]_vars
    PROVE  TimeoutInv'
<1>1. \A k \in Keys : Settles(k)
  BY SettleSteps
<1>2. Read \subseteq Read'
  BY ToldGrows
<1>3. AnsweredRead'
  BY <1>1, <1>2 DEF TimeoutInv, AnsweredRead, Settles
<1>4. PromiseOfAnswer'
  <2>. SUFFICES ASSUME NEW k \in Keys
                PROVE  /\ promise'[k] \in {"result", "error"} => answered'[k] = promise'[k]
                       /\ promise'[k] \in {"unused", "open"} => answered'[k] = "none"
    BY DEF PromiseOfAnswer
  <2>1. /\ promise[k] \in {"result", "error"} => answered[k] = promise[k]
        /\ promise[k] \in {"unused", "open"} => answered[k] = "none"
        /\ answered[k] # "none" => k \in Read
    BY DEF TimeoutInv, PromiseOfAnswer, AnsweredRead
  <2>2. answered'[k] \in {"none", "result", "error"} /\ promise[k] \in Settlements
    BY TypeStep DEF CallInv, TypeInv, TypeOK, ServerType, RequestsType
  <2>. QED BY <1>1, <2>1, <2>2 DEF Settles, Settlements
<1>5. ASSUME NEW k \in Keys, promise[k] = "result" PROVE promise'[k] = "result"
  <2>1. answered[k] = "result" /\ k \in Read
    BY <1>5 DEF TimeoutInv, PromiseOfAnswer, AnsweredRead
  <2>. QED BY <1>1, <1>5, <2>1 DEF Settles
<1>6. ASSUME NEW x, InTime(x) PROVE InTime(x)'
  <2>. SUFFICES ASSUME x.kind \in {"result", "error"}
                PROVE  x.of \in Keys /\ promise'[x.of] # "timeout" /\ answered'[x.of] = x.kind
    BY DEF InTime
  <2>1. x.of \in Keys /\ promise[x.of] # "timeout" /\ answered[x.of] = x.kind
    BY <1>6 DEF InTime
  <2>2. x.of \in Read /\ promise[x.of] # "open"
    BY <2>1 DEF TimeoutInv, PromiseOfAnswer, AnsweredRead
  <2>. QED BY <1>1, <2>1, <2>2 DEF Settles
<1>7. TellsInTime
  BY InTimeSteps DEF TimeoutInv
<1>8. LastSettled'
  <2>. SUFFICES ASSUME NEW t \in Tools, lastOk'[t] # NoRequest
                PROVE  promise'[Call(lastOk'[t])] = "result"
    BY DEF LastSettled
  <2>1. \/ lastOk'[t] = lastOk[t]
        \/ lastOk'[t] \in Requests /\ promise[Call(lastOk'[t])] = "result"
    <3>1. CASE lastOk' = lastOk
      BY <3>1
    <3>2. CASE \E r \in Requests :
                  promise[Call(r)] = "result" /\ lastOk' = [lastOk EXCEPT ![ToolOf[r]] = r]
      <4>1. PICK r \in Requests :
                   promise[Call(r)] = "result" /\ lastOk' = [lastOk EXCEPT ![ToolOf[r]] = r]
        BY <3>2
      <4>2. t \in DOMAIN lastOk
        BY DEF TypeInv, TypeOK, HandlersType
      <4>3. CASE t = ToolOf[r]
        BY <4>1, <4>2, <4>3
      <4>4. CASE t # ToolOf[r]
        BY <4>1, <4>2, <4>4
      <4>. QED BY <4>3, <4>4
    <3>. QED BY <1>7, <3>1, <3>2 DEF TellsInTime
  <2>2. lastOk[t] # NoRequest => lastOk[t] \in Requests /\ promise[Call(lastOk[t])] = "result"
    BY DEF TimeoutInv, LastSettled, TypeInv, TypeOK, HandlersType
  <2>3. \A r \in Requests : Call(r) \in Keys
    BY DEF Keys
  <2>. QED BY <1>5, <2>1, <2>2, <2>3
<1>9. ToldInTime'
  <2>1. CASE UNCHANGED toClient
    BY <1>6, <2>1 DEF TimeoutInv, ToldInTime
  <2>2. ASSUME NEW x \in ClientMessages, InTime(x)', toClient' = Append(toClient, x)
        PROVE  ToldInTime'
    <3>1. /\ DOMAIN toClient' = 1..(Len(toClient) + 1) /\ DOMAIN toClient = 1..Len(toClient)
          /\ \A i \in 1..Len(toClient) : toClient'[i] = toClient[i]
          /\ toClient'[Len(toClient) + 1] = x /\ Len(toClient) \in Nat
      BY <2>2, TaskFacts
    <3>. SUFFICES ASSUME NEW i \in 1..(Len(toClient) + 1), NEW y, y = toClient'[i]
                  PROVE  /\ y.kind \in {"result", "error"} =>
                               /\ y.of \in Keys /\ promise'[y.of] # "timeout"
                               /\ answered'[y.of] = y.kind
      BY <3>1 DEF ToldInTime, InTime
    <3>2. CASE i \in 1..Len(toClient)
      <4>1. InTime(toClient[i])
        BY <3>1, <3>2 DEF TimeoutInv, ToldInTime
      <4>2. y = toClient[i]
        BY <3>1, <3>2
      <4>3. InTime(y)'
        BY <1>6, <4>1, <4>2
      <4>. QED BY <4>3 DEF InTime
    <3>3. CASE i = Len(toClient) + 1
      BY <2>2, <3>1, <3>3 DEF InTime
    <3>. QED BY <3>1, <3>2, <3>3
  <2>. QED BY <1>7, <2>1, <2>2 DEF TellsInTime
<1>. QED BY <1>3, <1>4, <1>8, <1>9 DEF TimeoutInv

\* A timeout is final: no answer that comes after the timer of its request reaches
\* the client, under its own id, as the answer to a duplicate, as stale data of a
\* later call, or as an id the proxy no longer knows; and what the client is given
\* as an outcome is what the target answered (sendTargetRequest,
\* handleTargetMessage, sendMutationResponse).
THEOREM TimeoutsAreFinal == Spec => []TimeoutIsFinal
<1>1. Init => TimeoutInv
  BY DEF Init, TimeoutInv, AnsweredRead, PromiseOfAnswer, LastSettled, ToldInTime
<1>2. TypeInv /\ CallInv /\ FramesInv /\ TimeoutInv /\ [Next]_vars => TimeoutInv'
  BY TimeoutStep
<1>3. TimeoutInv => TimeoutIsFinal
  BY DEF TimeoutInv, ToldInTime, InTime, TimeoutIsFinal
<1>. QED BY <1>1, <1>2, <1>3, FramesInvariance, PTL DEF Spec

-------------------------------------------------------------------------------
(* What the capture says.                                                  *)

EventsOf(l) == {l.events[i].event : i \in DOMAIN l.events}

\* l2 is l after the events E: none is invented, and none is missing unless the
\* log says so.
Grows(l, l2, E) ==
    /\ EventsOf(l2) \subseteq EventsOf(l) \cup E
    /\ l.truncated => l2.truncated
    /\ ~l2.truncated => EventsOf(l) \cup E \subseteq EventsOf(l2)

LEMMA LoggedGrows ==
    ASSUME NEW l, GoodLog(l), NEW e \in Events
    PROVE  GoodLog(Logged(l, e)) /\ Grows(l, Logged(l, e), {e})
<1>. DEFINE x == [sequence |-> l.sequence + 1, event |-> e]
            t == Append(l.events, x)
<1>1. GoodLog(Logged(l, e))
  BY LoggedGood
<1>2. /\ l.events \in Seq([sequence: Nat, event: Events]) /\ l.sequence \in Nat
      /\ x \in [sequence: Nat, event: Events]
  BY DEF GoodLog, LogOf
<1>3. EventsOf(l) = {l.events[i].event : i \in DOMAIN l.events}
  BY DEF EventsOf
<1>4. {t[i].event : i \in DOMAIN t} = EventsOf(l) \cup {e}
  <2>1. /\ DOMAIN t = 1..(Len(l.events) + 1) /\ DOMAIN l.events = 1..Len(l.events)
        /\ Len(l.events) \in Nat
        /\ \A i \in 1..Len(l.events) : t[i] = l.events[i]
        /\ t[Len(l.events) + 1] = x /\ x.event = e
    BY <1>2
  <2>. HIDE DEF t, x
  <2>2. ASSUME NEW i \in DOMAIN t PROVE t[i].event \in EventsOf(l) \cup {e}
    <3>1. i \in DOMAIN l.events \/ i = Len(l.events) + 1
      BY <2>1
    <3>. QED BY <2>1, <3>1 DEF EventsOf
  <2>3. ASSUME NEW i \in DOMAIN l.events PROVE l.events[i].event \in {t[j].event : j \in DOMAIN t}
    <3>1. i \in DOMAIN t /\ t[i] = l.events[i]
      BY <2>1
    <3>. QED BY <3>1
  <2>4. e \in {t[j].event : j \in DOMAIN t}
    <3>1. Len(l.events) + 1 \in DOMAIN t
      BY <2>1
    <3>. QED BY <2>1, <3>1
  <2>. QED BY <2>2, <2>3, <2>4 DEF EventsOf
<1>5. CASE HasRoom(l, SizeOf[e.kind])
  <2>1. Logged(l, e).events = t /\ Logged(l, e).truncated = l.truncated
    BY <1>5 DEF Logged, Record, Keep
  <2>2. EventsOf(Logged(l, e)) = EventsOf(l) \cup {e}
    BY <1>4, <2>1 DEF EventsOf
  <2>. QED BY <1>1, <2>1, <2>2 DEF Grows
<1>6. CASE ~HasRoom(l, SizeOf[e.kind])
  <2>1. Logged(l, e).events = l.events /\ Logged(l, e).truncated
    BY <1>6 DEF Logged, Record, Omit
  <2>2. EventsOf(Logged(l, e)) = EventsOf(l)
    BY <2>1 DEF EventsOf
  <2>. QED BY <1>1, <2>1, <2>2 DEF Grows
<1>. QED BY <1>5, <1>6

LEMMA GrowsFurther ==
    ASSUME NEW l, NEW l2, NEW E, GoodLog(l2), Grows(l, l2, E), NEW e \in Events
    PROVE  GoodLog(Logged(l2, e)) /\ Grows(l, Logged(l2, e), E \cup {e})
<1>1. GoodLog(Logged(l2, e)) /\ Grows(l2, Logged(l2, e), {e})
  BY LoggedGrows
<1>. QED BY <1>1 DEF Grows

\* The commit status of an event is true of the target.
CommitTrue(e) ==
    e.mutation # 0 /\ Mutations[e.mutation].commit_status = "undefined" =>
        /\ e.commit = "committed" => e.id \in Keys /\ answered[e.id] = "result"
        /\ e.commit = "not_attempted" =>
              \E m \in Requests \cup Notifications :
                  e.id = Call(m) /\ task[m] # "none" /\ Call(m) \notin Read \cup Queued

\* The client was given a response, or the write of it failed and the run fails.
Unwritten(m) ==
    /\ m \in Requests \cup Notifications
    /\ task[m] = "undelivered" \/ (task[m] = "failed" /\ failure)
Given(k) == k \in Answers \/ (clientBroken /\ Unwritten(k.of))

\* What it says was sent was, or the run has failed; what it says the client was
\* told it was, or its task has failed.
Truthful(e) ==
    /\ CommitTrue(e)
    /\ e.direction = "proxy_to_target" => failure \/ e.id \in Read \cup Queued
    /\ e.direction = "proxy_to_client" => Given(e.id)

\* The capture lacks no call and no response, unless it says that it is truncated.
NothingMissing ==
    ~log.truncated =>
        \A k \in Keys :
            /\ k \in Read \cup Queued =>
                  \E e \in Recorded : e.direction = "proxy_to_target" /\ e.id = k
            /\ k \in Answers => \E e \in Recorded : e.kind = "response" /\ e.id = k

\* What came back as a result was answered with one, ...
ResultAnswered == \A k \in Keys : promise[k] = "result" => answered[k] = "result"

\* ... and what is on its way to the target was not to be denied.
SentAllowed ==
    \A r \in Requests :
        Call(r) \in Read \cup Queued /\ chosen[r] # 0 =>
            MutationOf(r).type \notin MutationTypes.preflight

TrafficInv ==
    /\ \A e \in Recorded : Truthful(e)
    /\ NothingMissing
    /\ ResultAnswered
    /\ SentAllowed

\* An answer stays, and a frame that was queued is written or the run fails.
LEMMA FactsStay ==
    ASSUME TypeInv, CallInv, FramesInv, [Next]_vars
    PROVE  /\ \A k \in Keys : answered[k] # "none" => answered'[k] = answered[k]
           /\ \A f : f \in Read \cup Queued => f \in (Read \cup Queued)' \/ failure'
           /\ \A f : f \in (Read \cup Queued)' =>
                 f \in Read \cup Queued \/ f.copy \/ task[f.of] = "none"
<1>. DEFINE Goal == /\ \A k \in Keys : answered[k] # "none" => answered'[k] = answered[k]
                    /\ \A f : f \in Read \cup Queued => f \in (Read \cup Queued)' \/ failure'
                    /\ \A f : f \in (Read \cup Queued)' =>
                          f \in Read \cup Queued \/ f.copy \/ task[f.of] = "none"
<1>1. ASSUME NEW g \in Frames, Queues(g) PROVE Goal
  <2>1. Queued' = Queued \cup {g} /\ Read' = Read
    BY <1>1, QueuesMoves
  <2>. QED BY <1>1, <2>1 DEF Queues
<1>2. CASE Writes
  <2>1. Read' = Read \cup {Head(chain)} /\ Queued' \subseteq Queued /\ Head(chain) \in Queued
    BY <1>2, WritesMoves, HeadFacts DEF Writes, FramesInv
  <2>2. Queued \subseteq Queued' \cup {Head(chain)}
    <3>1. CASE chain' = chain
      BY <3>1 DEF Queued
    <3>2. CASE chain' = Tail(chain)
      <4>1. ASSUME NEW i \in DOMAIN chain
            PROVE  chain[i] = Head(chain) \/ \E j \in DOMAIN Tail(chain) : chain[i] = Tail(chain)[j]
        <5>1. /\ DOMAIN chain = 1..Len(chain) /\ Len(chain) \in Nat /\ Head(chain) = chain[1]
              /\ DOMAIN Tail(chain) = 1..(Len(chain) - 1)
              /\ \A j \in 1..(Len(chain) - 1) : Tail(chain)[j] = chain[j + 1]
          BY <1>2, TaskFacts DEF Writes
        <5>2. CASE i # 1
          <6>1. i - 1 \in 1..(Len(chain) - 1) /\ (i - 1) + 1 = i
            BY <5>1, <5>2
          <6>. QED BY <5>1, <6>1
        <5>. QED BY <5>1, <5>2
      <4>. QED BY <3>2, <4>1 DEF Queued, Range
    <3>. QED BY <1>2, <3>1, <3>2 DEF Writes
  <2>. QED BY <1>2, <2>1, <2>2 DEF Writes
<1>3. CASE Breaks
  <2>1. Read' = Read /\ Queued' \subseteq Queued
    BY <1>3, HeadFacts DEF Breaks, Queued, Read
  <2>. QED BY <1>3, <2>1 DEF Breaks
<1>4. CASE Continues
  BY <1>4 DEF Continues, Queued, Read
<1>5. CASE Listens
  BY <1>5 DEF Listens, Queued, Read
<1>6. ASSUME NEW m \in Requests \cup Notifications, Denies(m) \/ Loses(m) PROVE Goal
  BY <1>6 DEF Denies, Loses, Queued, Read
<1>. QED BY <1>1, <1>2, <1>3, <1>4, <1>5, <1>6, Steps

\* A client that is gone stays gone.
LEMMA BrokenStays ==
    ASSUME [Next]_vars, clientBroken
    PROVE  clientBroken'
<1>1. ASSUME NEW x, WriteClient(x) PROVE clientBroken'
  BY <1>1 DEF WriteClient
<1>2. CASE ClientLine
  BY <1>1, <1>2 DEF ClientLine, DenyBeforeCall, ForwardRequest, ForwardNotification, ClientReplies,
     mainVars
<1>3. CASE TargetLine
  BY <1>1, <1>3 DEF TargetLine, TargetAnswers, TargetSends, TargetWritesStderr, mainVars
<1>4. CASE InvalidLine \/ WriteLine \/ WriteBlocks \/ WriteFails \/ WriteDrains
  BY <1>4 DEF InvalidLine, WriteLine, WriteBlocks, WriteFails, WriteDrains, Written, mainVars
<1>5. ASSUME NEW r \in Requests, Resume(r) \/ FinishDelay(r) PROVE clientBroken'
  BY <1>1, <1>5 DEF Resume, FinishDelay, ReturnReply, MutateReply, DelayReply, DuplicateCall,
     FinishDuplicate, ReplyRejected, Deliver, mainVars
<1>6. CASE MainDrains \/ MainCloses \/ MainRejects \/ MainHashes \/ MainPersists \/ MainReturns
  BY <1>6 DEF MainDrains, MainCloses, MainRejects, MainHashes, MainPersists, MainReturns
<1>7. CASE \/ ClientEnds \/ TargetExits \/ TargetCloses \/ RunTimeout \/ Interrupt
           \/ InterruptAgain \/ CloserTerminates \/ CloserKills \/ UNCHANGED vars
  BY <1>7 DEF ClientEnds, TargetExits, TargetCloses, RunTimeout, Interrupt, InterruptAgain,
     CloserTerminates, CloserKills, mainVars, vars
<1>8. ASSUME NEW k \in Keys, RequestTimeout(k) PROVE clientBroken'
  BY <1>8 DEF RequestTimeout, mainVars
<1>9. ASSUME NEW m \in Requests \cup Notifications, DeliveryFails(m) PROVE clientBroken'
  BY <1>9 DEF DeliveryFails, mainVars
<1>. QED
  BY <1>2, <1>3, <1>4, <1>5, <1>6, <1>7, <1>8, <1>9 DEF Next, Prompt, Turn, Terminated

\* A task that has begun has begun, and one whose response could not be delivered
\* fails.
LEMMA TasksStay ==
    ASSUME TypeInv, CallInv, FramesInv, [Next]_vars, NEW m \in ClientLines
    PROVE  /\ task[m] # "none" => task'[m] # "none"
           /\ task[m] = "undelivered" => task'[m] \in {"undelivered", "failed"}
<1>. DEFINE Goal == /\ task[m] # "none" => task'[m] # "none"
                    /\ task[m] = "undelivered" => task'[m] \in {"undelivered", "failed"}
<1>0. task \in [ClientLines -> TaskStates]
  BY TaskFacts
<1>1. ASSUME NEW f \in Frames, Queues(f) PROVE Goal
  BY <1>0, <1>1 DEF Queues
<1>2. CASE Writes
  <2>. DEFINE h == Head(chain)
  <2>1. /\ task[h.of] = IF h.copy THEN "copy_writing" ELSE "writing"
        /\ task' = task \/ task' = [task EXCEPT ![h.of] = Waiting(h)]
    <3>1. chain # <<>>
      BY <1>2 DEF Writes
    <3>. QED BY <1>2, <3>1, HeadFacts, TaskFacts DEF Writes
  <2>. HIDE DEF h
  <2>. QED BY <1>0, <2>1 DEF Waiting
<1>3. CASE Breaks
  <2>1. task[Head(chain).of] \in {"writing", "copy_writing"}
    BY <1>3, HeadFacts, TaskFacts DEF Breaks
  <2>. QED BY <1>0, <1>3, <2>1 DEF Breaks
<1>4. CASE Continues
  <2>1. PICK r \in Requests :
            /\ task[r] \in {"waiting", "delaying", "copy_waiting"}
            /\ \E state \in {"done", "undelivered", "failed", "delaying"} :
                   task' = [task EXCEPT ![r] = state]
    BY <1>4 DEF Continues, Gives
  <2>. QED BY <1>0, <2>1
<1>5. CASE Listens
  BY <1>5 DEF Listens
<1>6. ASSUME NEW n \in Requests \cup Notifications, Denies(n) PROVE Goal
  BY <1>0, <1>6 DEF Denies, Gives
<1>7. ASSUME NEW n \in Requests \cup Notifications, Loses(n) PROVE Goal
  BY <1>0, <1>7 DEF Loses
<1>. QED BY <1>1, <1>2, <1>3, <1>4, <1>5, <1>6, <1>7, Steps

\* What the client was given, or a failed task, explains a response for good.
LEMMA GivenStays ==
    ASSUME TypeInv, CallInv, FramesInv, [Next]_vars, NEW k, Given(k)
    PROVE  Given(k)'
<1>1. CASE k \in Answers
  BY <1>1, ToldGrows DEF Given
<1>2. CASE clientBroken /\ Unwritten(k.of)
  <2>1. clientBroken'
    BY <1>2, BrokenStays
  <2>2. k.of \in ClientLines
    BY <1>2 DEF Unwritten
  <2>3. /\ task[k.of] = "failed" => task'[k.of] = "failed"
        /\ task'[k.of] = "failed" => task[k.of] = "failed" \/ failure'
        /\ failure => failure'
    BY <2>2, TaskSteps
  <2>4. task[k.of] = "undelivered" => task'[k.of] \in {"undelivered", "failed"}
    BY <2>2, TasksStay
  <2>5. Unwritten(k.of)'
    BY <1>2, <2>3, <2>4 DEF Unwritten
  <2>. QED BY <2>1, <2>5 DEF Given
<1>. QED BY <1>1, <1>2 DEF Given

\* What an event says stays true.
LEMMA TruthStays ==
    ASSUME TypeInv, CallInv, FramesInv, [Next]_vars, NEW e
    PROVE  /\ CommitTrue(e) => CommitTrue(e)'
           /\ Truthful(e) => Truthful(e)'
<1>1. CommitTrue(e) => CommitTrue(e)'
  <2>. SUFFICES ASSUME CommitTrue(e), e.mutation # 0,
                       Mutations[e.mutation].commit_status = "undefined"
                PROVE  /\ e.commit = "committed" => e.id \in Keys /\ answered'[e.id] = "result"
                       /\ e.commit = "not_attempted" =>
                             \E m \in Requests \cup Notifications :
                                 /\ e.id = Call(m) /\ task'[m] # "none"
                                 /\ Call(m) \notin (Read \cup Queued)'
    BY DEF CommitTrue
  <2>1. e.commit = "committed" => e.id \in Keys /\ answered'[e.id] = "result"
    BY FactsStay DEF CommitTrue
  <2>2. ASSUME e.commit = "not_attempted"
        PROVE  \E m \in Requests \cup Notifications :
                   /\ e.id = Call(m) /\ task'[m] # "none"
                   /\ Call(m) \notin (Read \cup Queued)'
    <3>1. PICK m \in Requests \cup Notifications :
              e.id = Call(m) /\ task[m] # "none" /\ Call(m) \notin Read \cup Queued
      BY <2>2 DEF CommitTrue
    <3>2. task'[m] # "none"
      <4>1. m \in ClientLines
        OBVIOUS
      <4>. QED BY <3>1, <4>1, TasksStay
    <3>3. Call(m) \notin (Read \cup Queued)'
      <4>. DEFINE f == Call(m)
      <4>1. ~f.copy /\ task[f.of] # "none" /\ f \notin Read \cup Queued
        BY <3>1
      <4>. HIDE DEF f
      <4>2. f \notin (Read \cup Queued)'
        BY <4>1, FactsStay
      <4>. QED BY <4>2 DEF f
    <3>. QED BY <3>1, <3>2, <3>3
  <2>. QED BY <2>1, <2>2
<1>2. (failure \/ e.id \in Read \cup Queued) => (failure' \/ e.id \in (Read \cup Queued)')
  <2>1. failure => failure'
    BY Steps DEF Queues, Writes, Breaks, Continues, Listens, Denies, Loses
  <2>. QED BY <2>1, FactsStay
<1>3. Given(e.id) => Given(e.id)'
  BY GivenStays
<1>. QED BY <1>1, <1>2, <1>3 DEF Truthful

\* A step reports E: it records these events, each is true, and the calls that
\* are sent and the answers that are given are among them.
SentIn(E) ==
    \A k \in Keys : k \in (Read \cup Queued)' =>
        k \in Read \cup Queued \/ \E e \in E : e.direction = "proxy_to_target" /\ e.id = k
ToldIn(E) ==
    \A k \in Keys : k \in Answers' =>
        k \in Answers \/ \E e \in E : e.kind = "response" /\ e.id = k
Reports(E) ==
    /\ Grows(log, log', E)
    /\ \A e \in E : Truthful(e)'
    /\ SentIn(E)
    /\ ToldIn(E)

LEMMA NothingReported ==
    ASSUME log' = log, (Read \cup Queued)' \subseteq Read \cup Queued,
           \A k \in Keys : k \in Answers' => k \in Answers
    PROVE  \E E : Reports(E)
<1>1. Reports({})
  BY DEF Reports, Grows, SentIn, ToldIn
<1>. QED BY <1>1

LEMMA OneReported ==
    ASSUME TypeInv, NEW e \in Events, log' = Logged(log, e), Truthful(e)',
           SentIn({e}), ToldIn({e})
    PROVE  \E E : Reports(E)
<1>1. GoodLog(log)
  BY DEF TypeInv, TypeOK, GoodLog
<1>2. Grows(log, log', {e})
  BY <1>1, LoggedGrows
<1>3. Reports({e})
  BY <1>2 DEF Reports
<1>. QED BY <1>3

LEMMA TwoReported ==
    ASSUME TypeInv, NEW d \in Events, NEW e \in Events, log' = Logged(Logged(log, d), e),
           Truthful(d)', Truthful(e)', SentIn({d} \cup {e}), ToldIn({d} \cup {e})
    PROVE  \E E : Reports(E)
<1>1. GoodLog(log)
  BY DEF TypeInv, TypeOK, GoodLog
<1>2. GoodLog(Logged(log, d)) /\ Grows(log, Logged(log, d), {d})
  BY <1>1, LoggedGrows
<1>3. Grows(log, log', {d} \cup {e})
  BY <1>2, GrowsFurther
<1>4. Reports({d} \cup {e})
  BY <1>3 DEF Reports
<1>. QED BY <1>4

LEMMA ErrorEvent == TransportError \in Events /\ Truthful(TransportError)'
<1>1. Call(NoRequest) \in Ids
  BY DEF Ids
<1>2. TransportError \in Events
  BY <1>1, EventType DEF TransportError, EventKinds, Directions
<1>3. Truthful(TransportError)'
  BY DEF Truthful, CommitTrue, TransportError, Event
<1>. QED BY <1>2, <1>3

\* fail() reports at most a transport error.
LEMMA FailReported ==
    ASSUME TypeInv, Fail(log), (Read \cup Queued)' \subseteq Read \cup Queued,
           \A k \in Keys : k \in Answers' => k \in Answers
    PROVE  \E E : Reports(E)
<1>1. CASE failure
  <2>1. log' = log
    BY <1>1 DEF Fail
  <2>. QED BY <2>1, NothingReported
<1>2. CASE ~failure
  <2>. DEFINE e == TransportError
  <2>1. e \in Events
    BY ErrorEvent
  <2>2. Truthful(e)'
    BY ErrorEvent
  <2>3. log' = Logged(log, e)
    BY <1>2 DEF Fail
  <2>4. SentIn({e}) /\ ToldIn({e})
    BY DEF SentIn, ToldIn
  <2>. HIDE DEF e
  <2>. QED BY <2>1, <2>2, <2>3, <2>4, OneReported
<1>. QED BY <1>1, <1>2

\* An event that is no call, no response to the client and no mutation claims
\* nothing.
LEMMA PlainTruth ==
    ASSUME NEW e, e.mutation = 0, e.direction \notin {"proxy_to_target", "proxy_to_client"}
    PROVE  Truthful(e)'
BY DEF Truthful, CommitTrue

\* The commit status that a mutation of an answered request reports is true.
LEMMA MutationTruth ==
    ASSUME TypeInv, CallInv, FramesInv, TrafficInv, CopyDeclared,
           NEW r \in Requests, chosen[r] # 0, Call(r) \in Read,
           NEW e, e.id = Call(r) \/ Declared(r), e.mutation = chosen[r],
           e.commit = CommitStatus(Mutations[chosen[r]], promise[Call(r)] # "result")
    PROVE  CommitTrue(e)
<1>. SUFFICES ASSUME MutationOf(r).commit_status = "undefined"
              PROVE  /\ e.commit = "committed" => e.id \in Keys /\ answered[e.id] = "result"
                     /\ e.commit # "not_attempted"
  BY DEF CommitTrue, MutationOf
<1>1. MutationOf(r).type \notin MutationTypes.preflight
  BY DEF TrafficInv, SentAllowed
<1>2. e.commit = IF promise[Call(r)] # "result" THEN "unknown"
                 ELSE IF MutationOf(r).type \in {"commit_then_response_lost",
                                                 "disconnect_after_commit", "partial_success"}
                 THEN "committed" ELSE "unknown"
  BY <1>1 DEF CommitStatus, MutationOf
<1>3. Call(r) \in Keys
  BY DEF Keys
<1>4. Declared(r) => e.commit = "unknown"
  BY <1>2 DEF Declared
<1>5. promise[Call(r)] = "result" => answered[Call(r)] = "result"
  BY <1>3 DEF TrafficInv, ResultAnswered
<1>. QED BY <1>2, <1>3, <1>4, <1>5

LEMMA MutatedFields ==
    ASSUME NEW e \in Events, NEW i, NEW isError
    PROVE  LET x == Mutated(e, i, isError) IN
           /\ x.kind = e.kind /\ x.direction = e.direction /\ x.id = e.id
           /\ x.mutation = i /\ x.commit = CommitStatus(Mutations[i], isError)
BY DEF Mutated, Events

\* The events about the answer to r are true: the mutation before the answer and,
\* once the client has it, the answer.
LEMMA AnswerEvents ==
    ASSUME TypeInv, CallInv, FramesInv, TrafficInv, CopyDeclared, [Next]_vars,
           NEW r \in Requests, Replied(Call(r)), Call(r) \in Read
    PROVE  /\ ToClient(r) \in Events /\ ToClient(r).kind = "response" /\ ToClient(r).id = Call(r)
           /\ Given(Call(r))' => Truthful(ToClient(r))'
           /\ \A e : chosen[r] # 0 /\ e = MutationEvent(r) => e \in Events /\ Truthful(e)'
           /\ \A e : chosen[r] # 0 /\ e \in {VisibleEvent(r), WithMutation(r, ToClient(r))} =>
                 /\ e \in Events /\ e.kind = "response" /\ e.id = Call(r)
                 /\ Given(Call(r))' => Truthful(e)'
<1>. DEFINE c == ToClient(r)
            m == Event("mutation", "none", Call(r), FALSE)
<1>1. /\ c \in Events /\ c.kind = "response" /\ c.id = Call(r)
      /\ c.direction = "proxy_to_client" /\ c.mutation = 0
  <2>1. c \in Events
    BY ReplyTypes
  <2>. QED BY <2>1 DEF ToClient, Event
<1>2. m \in Events /\ m.direction = "none" /\ m.id = Call(r)
  <2>1. Call(r) \in Ids
    BY DEF Ids
  <2>2. m \in Events
    BY <2>1, EventType DEF EventKinds, Directions
  <2>. QED BY <2>2 DEF Event
<1>3. Given(Call(r))' => Truthful(c)'
  <2>1. ASSUME NEW e, e.mutation = 0, e.direction = "proxy_to_client", Given(e.id)'
        PROVE  Truthful(e)'
    BY <2>1 DEF Truthful, CommitTrue
  <2>. QED BY <1>1, <2>1
<1>4. ASSUME chosen[r] # 0, NEW e \in Events, e.id = Call(r), NEW w, w = WithMutation(r, e)
      PROVE  w.kind = e.kind /\ w.id = Call(r) /\ w.direction = e.direction /\ CommitTrue(w)'
  <2>1. /\ w.kind = e.kind /\ w.id = Call(r) /\ w.direction = e.direction
        /\ w.mutation = chosen[r]
        /\ w.commit = CommitStatus(Mutations[chosen[r]], promise[Call(r)] # "result")
    BY <1>4, MutatedFields DEF WithMutation
  <2>2. CommitTrue(w)
    BY <1>4, <2>1, MutationTruth
  <2>. QED BY <2>1, <2>2, TruthStays
<1>5. ASSUME NEW e, CommitTrue(e)', e.direction \in {"none", "proxy_to_client"},
             e.direction = "proxy_to_client" => Given(e.id)'
      PROVE  Truthful(e)'
  BY <1>5 DEF Truthful
<1>. HIDE DEF c, m
<1>6. ASSUME chosen[r] # 0, NEW e, e = MutationEvent(r)
      PROVE  e \in Events /\ Truthful(e)'
  <2>1. e = WithMutation(r, m)
    BY <1>6 DEF MutationEvent, m
  <2>2. e.direction = "none" /\ CommitTrue(e)'
    BY <1>2, <1>4, <1>6, <2>1
  <2>3. e \in Events
    BY <1>6, ReplyTypes
  <2>. QED BY <1>5, <2>2, <2>3
<1>7. ASSUME chosen[r] # 0, NEW e, e = WithMutation(r, c)
      PROVE  /\ e \in Events /\ e.kind = "response" /\ e.id = Call(r)
             /\ Given(Call(r))' => Truthful(e)'
  <2>1. /\ e.kind = "response" /\ e.id = Call(r) /\ e.direction = "proxy_to_client"
        /\ CommitTrue(e)'
    BY <1>1, <1>4, <1>7
  <2>2. e \in Events
    BY <1>7, ReplyTypes DEF c
  <2>. QED BY <1>5, <2>1, <2>2
<1>8. VisibleEvent(r) \in {c, WithMutation(r, c)}
  BY DEF VisibleEvent, c
<1>. QED BY <1>1, <1>3, <1>6, <1>7, <1>8 DEF c

\* A response to r goes into the capture and to the client.
LEMMA DeliveryReported ==
    ASSUME TypeInv, CallInv, FramesInv, TrafficInv, [Next]_vars,
           NEW r \in Requests, NEW x \in ClientMessages, x.id = Call(r),
           WriteClient(x), UNCHANGED <<chain, received>>,
           task' = [task EXCEPT ![r] = IF clientBroken' THEN "undelivered" ELSE "done"]
    PROVE  /\ Given(Call(r))'
           /\ \A E : SentIn(E)
           /\ \A e, E : e \in E /\ e.kind = "response" /\ e.id = Call(r) => ToldIn(E)
<1>1. ASSUME clientBroken' PROVE Given(Call(r))' /\ Answers' \subseteq Answers \cup {Call(r)}
  <2>1. Answers' = Answers /\ task'[r] = "undelivered"
    BY <1>1, WriteEnds, TaskFacts DEF Answers
  <2>2. Given(Call(r))'
    BY <1>1, <2>1 DEF Given, Unwritten
  <2>. QED BY <2>1, <2>2
<1>2. ASSUME ~clientBroken' PROVE Given(Call(r))' /\ Answers' \subseteq Answers \cup {Call(r)}
  <2>1. Answers' = Answers \cup {x.id}
    BY <1>2, WriteEnds, TaskFacts, AnswersAppended
  <2>. QED BY <2>1 DEF Given
<1>3. Given(Call(r))' /\ Answers' \subseteq Answers \cup {Call(r)}
  BY <1>1, <1>2
<1>4. Read' = Read /\ Queued' = Queued
  BY DEF Read, Queued
<1>. QED BY <1>3, <1>4 DEF SentIn, ToldIn

\* A key that is sent joins the chain.
LEMMA SendingReported ==
    ASSUME TypeInv, CallInv, NEW k \in Frames, chain' = Append(chain, k),
           UNCHANGED <<received, toClient>>
    PROVE  /\ Queued' = Queued \cup {k} /\ Read' = Read
           /\ \A E : ToldIn(E)
           /\ \A e, E : e \in E /\ e.direction = "proxy_to_target" /\ e.id = k => SentIn(E)
           /\ k \notin Keys => \A E : SentIn(E)
<1>1. Queued' = Queued \cup {k}
  BY TaskFacts, RangeOfAppend DEF Queued
<1>2. Read' = Read /\ Answers' = Answers
  BY DEF Read, Answers
<1>. QED BY <1>1, <1>2 DEF SentIn, ToldIn

LEMMA ClientLineReported ==
    ASSUME TypeInv, CallInv, FramesInv, TrafficInv, [Next]_vars, ClientLine
    PROVE  \E E : Reports(E)
<1>0. /\ \A m \in ClientLines : Call(m) \in Frames /\ Call(m) \in Ids
      /\ \A r \in Requests : Call(r) \in Keys
  BY DEF Frames, Ids, Keys
<1>a. ASSUME NEW m \in Requests \cup Notifications
      PROVE  Event("request", "client_to_proxy", Call(m), FALSE) \in Events
  BY <1>0, EventType DEF EventKinds, Directions
<1>1. ASSUME NEW m \in Requests \cup Notifications, DenyBeforeCall(m) PROVE \E E : Reports(E)
  <2>. DEFINE a == Event("request", "client_to_proxy", Call(m), FALSE)
              d == Event("mutation", "none", Call(m), FALSE)
              e == Event("response", "proxy_to_client", Call(m), FALSE)
              x == [id |-> Call(m), kind |-> "injected", of |-> Call(m)]
  <2>1. a \in Events /\ d \in Events /\ e \in Events
    BY <1>0, EventType DEF EventKinds, Directions
  <2>2. /\ a.mutation = 0 /\ a.direction = "client_to_proxy"
        /\ d.direction = "none" /\ d.id = Call(m)
        /\ e.kind = "response" /\ e.direction = "proxy_to_client" /\ e.id = Call(m)
    BY DEF Event
  <2>3. /\ Preflighted(m) /\ task[m] = "none"
        /\ task' = [task EXCEPT ![m] = IF clientBroken' THEN "undelivered" ELSE "done"]
        /\ log' = Logged(Logged(Logged(log, a), Mutated(d, Selected(m), FALSE)),
                         Mutated(e, Selected(m), FALSE))
        /\ WriteClient(x)
        /\ UNCHANGED <<chain, received>>
    BY <1>1 DEF DenyBeforeCall, Arrive, Arrival, writer, server
  <2>4. Selected(m) \in 1..Len(Mutations)
    <3>1. Selected(m) \in 0..Len(Mutations) /\ Selected(m) # 0 /\ Len(Mutations) \in Nat
      BY <2>3, SelectedType, ProxyAssumption DEF Preflighted
    <3>. QED BY <3>1
  <2>5. x \in ClientMessages
    <3>1. Call(m) \in [of: ClientLines \cup ServerNotifications, copy: BOOLEAN]
      OBVIOUS
    <3>. QED BY <3>1, ClientMessageType
  <2>6. Given(Call(m))' /\ Answers' \subseteq Answers \cup {Call(m)}
    <3>1. x.id = Call(m)
      OBVIOUS
    <3>. HIDE DEF x
    <3>2. CASE clientBroken'
      <4>1. Answers' = Answers /\ task'[m] = "undelivered"
        BY <2>3, <3>2, WriteEnds, TaskFacts DEF Answers
      <4>. QED BY <3>2, <4>1 DEF Given, Unwritten
    <3>3. CASE ~clientBroken'
      <4>1. Answers' = Answers \cup {x.id}
        BY <2>3, <2>5, <3>3, WriteEnds, TaskFacts, AnswersAppended
      <4>. QED BY <3>1, <4>1 DEF Given
    <3>. QED BY <3>2, <3>3
  <2>. HIDE DEF a, d, e, x
  <2>7. Call(m) \notin Read /\ Call(m) \notin Queued /\ Read' = Read /\ Queued' = Queued
    <3>1. Read' = Read /\ Queued' = Queued
      BY <2>3 DEF Read, Queued
    <3>2. Call(m) \notin Read
      BY <2>3 DEF FramesInv, ReadIsStarted
    <3>3. Call(m) \notin Queued
      BY <2>3, TaskFacts
    <3>. QED BY <3>1, <3>2, <3>3
  <2>8. task'[m] # "none"
    BY <2>3, TaskFacts
  <2>9. ASSUME NEW y \in Events, y.id = Call(m), NEW w, w = Mutated(y, Selected(m), FALSE)
        PROVE  /\ w \in Events /\ w.id = Call(m) /\ w.kind = y.kind /\ w.direction = y.direction
               /\ CommitTrue(w)'
    <3>1. /\ w.id = Call(m) /\ w.kind = y.kind /\ w.direction = y.direction
          /\ w.mutation = Selected(m)
          /\ w.commit = CommitStatus(Mutations[Selected(m)], FALSE)
      <4>1. /\ w.kind = y.kind /\ w.direction = y.direction /\ w.id = y.id
            /\ w.mutation = Selected(m) /\ w.commit = CommitStatus(Mutations[Selected(m)], FALSE)
        BY <2>9 DEF Mutated, Events
      <4>. QED BY <2>9, <4>1
    <3>2. w \in Events
      BY <2>4, <2>9, MutatedType
    <3>3. Mutations[Selected(m)].commit_status = "undefined" => w.commit = "not_attempted"
      BY <2>3, <3>1 DEF CommitStatus, Preflighted
    <3>4. CommitTrue(w)'
      BY <2>7, <2>8, <3>1, <3>3 DEF CommitTrue
    <3>. QED BY <3>1, <3>2, <3>4
  <2>10. PICK p \in Events : p = Mutated(d, Selected(m), FALSE)
    BY <2>1, <2>2, <2>9
  <2>11. PICK q \in Events : q = Mutated(e, Selected(m), FALSE)
    BY <2>1, <2>2, <2>9
  <2>12. Truthful(p)'
    <3>1. CommitTrue(p)' /\ p.direction = "none"
      BY <2>1, <2>2, <2>9, <2>10
    <3>. QED BY <3>1 DEF Truthful
  <2>13. Truthful(q)' /\ q.kind = "response" /\ q.id = Call(m)
    <3>1. /\ CommitTrue(q)' /\ q.direction = "proxy_to_client"
          /\ q.kind = "response" /\ q.id = Call(m)
      BY <2>1, <2>2, <2>9, <2>11
    <3>2. Given(q.id)'
      BY <2>6, <3>1
    <3>. QED BY <3>1, <3>2 DEF Truthful
  <2>14. Truthful(a)'
    BY <2>2, PlainTruth
  <2>15. Grows(log, log', ({a} \cup {p}) \cup {q})
    <3>1. GoodLog(log)
      BY DEF TypeInv, TypeOK, GoodLog
    <3>2. GoodLog(Logged(log, a)) /\ Grows(log, Logged(log, a), {a})
      BY <2>1, <3>1, LoggedGrows
    <3>3. /\ GoodLog(Logged(Logged(log, a), p))
          /\ Grows(log, Logged(Logged(log, a), p), {a} \cup {p})
      BY <3>2, GrowsFurther
    <3>4. Grows(log, Logged(Logged(Logged(log, a), p), q), ({a} \cup {p}) \cup {q})
      BY <3>3, GrowsFurther
    <3>. QED BY <2>3, <2>10, <2>11, <3>4
  <2>16. Reports(({a} \cup {p}) \cup {q})
    BY <2>6, <2>7, <2>12, <2>13, <2>14, <2>15 DEF Reports, SentIn, ToldIn
  <2>. QED BY <2>16
<1>2. ASSUME NEW r \in Requests, ForwardRequest(r) PROVE \E E : Reports(E)
  <2>. DEFINE k == Call(r)
              a == Event("request", "client_to_proxy", k, FALSE)
              e == Event("request", "proxy_to_target", k, ToolOf[r] # NoTool)
  <2>1. k \in Frames /\ a \in Events /\ e \in Events
    <3>1. (ToolOf[r] # NoTool) \in BOOLEAN
      OBVIOUS
    <3>. QED BY <1>0, <3>1, EventType DEF EventKinds, Directions
  <2>2. /\ a.mutation = 0 /\ a.direction = "client_to_proxy"
        /\ e.mutation = 0 /\ e.direction = "proxy_to_target" /\ e.id = k
    BY DEF Event
  <2>3. /\ log' = Logged(Logged(log, a), e) /\ chain' = Append(chain, k)
        /\ UNCHANGED <<received, toClient>>
    BY <1>2 DEF ForwardRequest, SendTargetRequest, Arrival, server
  <2>. HIDE DEF a, e, k
  <2>4. /\ Queued' = Queued \cup {k} /\ Read' = Read
        /\ ToldIn({a} \cup {e}) /\ SentIn({a} \cup {e})
    BY <2>1, <2>2, <2>3, SendingReported
  <2>5. Truthful(a)'
    BY <2>2, PlainTruth
  <2>6. Truthful(e)'
    BY <2>2, <2>4 DEF Truthful, CommitTrue
  <2>. QED BY <2>1, <2>3, <2>4, <2>5, <2>6, TwoReported
<1>3. ASSUME NEW n \in Notifications, ForwardNotification(n) PROVE \E E : Reports(E)
  <2>. DEFINE k == Call(n)
              a == Event("request", "client_to_proxy", k, FALSE)
  <2>1. k \in Frames /\ a \in Events /\ k \notin Keys
    BY <1>0, <1>a, ProxyAssumption DEF Keys
  <2>2. a.mutation = 0 /\ a.direction = "client_to_proxy"
    BY DEF Event
  <2>3. log' = Logged(log, a) /\ chain' = Append(chain, k) /\ UNCHANGED <<received, toClient>>
    BY <1>3 DEF ForwardNotification, Arrival, server
  <2>. HIDE DEF a, k
  <2>4. ToldIn({a}) /\ SentIn({a})
    BY <2>1, <2>3, SendingReported
  <2>5. Truthful(a)'
    BY <2>2, PlainTruth
  <2>. QED BY <2>1, <2>3, <2>4, <2>5, OneReported
<1>4. ASSUME NEW t \in ServerRequests, ClientReplies(t) PROVE \E E : Reports(E)
  <2>. DEFINE k == Call(t)
              a == Event("response", "client_to_proxy", k, FALSE)
  <2>1. k \in Frames /\ a \in Events /\ k \notin Keys
    <3>1. a \in Events
      BY <1>0, EventType DEF EventKinds, Directions
    <3>. QED BY <1>0, <3>1, ProxyAssumption DEF Keys
  <2>2. a.mutation = 0 /\ a.direction = "client_to_proxy"
    BY DEF Event
  <2>3. log' = Logged(log, a) /\ chain' = Append(chain, k) /\ UNCHANGED <<received, toClient>>
    BY <1>4 DEF ClientReplies, server
  <2>. HIDE DEF a, k
  <2>4. ToldIn({a}) /\ SentIn({a})
    BY <2>1, <2>3, SendingReported
  <2>5. Truthful(a)'
    BY <2>2, PlainTruth
  <2>. QED BY <2>1, <2>3, <2>4, <2>5, OneReported
<1>. QED BY <1>1, <1>2, <1>3, <1>4 DEF ClientLine

LEMMA WriteReported ==
    ASSUME TypeInv, CallInv, FramesInv, TrafficInv, [Next]_vars,
           WriteLine \/ WriteBlocks \/ WriteDrains \/ WriteFails
    PROVE  \E E : Reports(E)
<1>. DEFINE h == Head(chain)
<1>1. /\ chain # <<>> /\ h \in Queued /\ h \in Frames /\ h \in Ids
  <2>1. chain # <<>>
    BY DEF WriteLine, WriteBlocks, WriteDrains, WriteFails, CallInv, DrainsHead
  <2>2. h \in Queued /\ h \in Frames
    BY <2>1, HeadFacts, TaskFacts
  <2>. QED BY <2>1, <2>2 DEF Frames, Ids
<1>2. \A k \in Keys : k \in Answers' => k \in Answers
  BY DEF WriteLine, WriteBlocks, WriteDrains, WriteFails, Written, Answers, server
<1>3. (Read \cup Queued)' \subseteq Read \cup Queued
  <2>1. Read' \subseteq Read \cup {h}
    <3>1. received' = received \/ received' = Append(received, h)
      BY DEF WriteLine, WriteBlocks, WriteDrains, WriteFails, Written, server
    <3>. HIDE DEF h
    <3>2. Range(Append(received, h)) = Read \cup {h}
      BY <1>1, TaskFacts, RangeOfAppend DEF Read
    <3>3. Range(received) = Read
      BY DEF Read
    <3>. QED BY <3>1, <3>2, <3>3 DEF Read
  <2>2. Queued' \subseteq Queued
    <3>1. chain' = chain \/ chain' = Tail(chain)
      BY DEF WriteLine, WriteBlocks, WriteDrains, WriteFails, Written
    <3>. QED BY <1>1, <3>1, HeadFacts DEF Queued
  <2>. QED BY <1>1, <2>1, <2>2
<1>. HIDE DEF h
<1>4. CASE WriteBlocks
  BY <1>2, <1>3, <1>4, NothingReported DEF WriteBlocks
<1>5. CASE WriteFails
  BY <1>2, <1>3, <1>5, FailReported DEF WriteFails
<1>6. CASE WriteLine \/ WriteDrains
  <2>. PICK f \in Frames : f = h
    BY <1>1
  <2>. DEFINE e == Event("request", "proxy_to_target", f, FALSE)
  <2>1. log' = log \/ log' = Logged(log, e)
    BY <1>6 DEF WriteLine, WriteDrains, Written, h
  <2>2. e \in Events /\ e.mutation = 0 /\ e.direction = "proxy_to_target" /\ e.id = f
    <3>1. e \in Events
      BY <1>1, EventType DEF EventKinds, Directions
    <3>. QED BY <3>1 DEF Event
  <2>. HIDE DEF e
  <2>3. f \in Read'
    <3>1. Writes
      BY <1>6 DEF WriteLine, WriteDrains, Written, Writes, closing, CallInv, DrainsHead
    <3>2. Read' = Read \cup {h}
      BY <3>1, WritesMoves DEF h, FramesInv
    <3>. QED BY <3>2
  <2>4. Truthful(e)'
    BY <2>2, <2>3 DEF Truthful, CommitTrue
  <2>5. SentIn({e}) /\ ToldIn({e})
    BY <1>2, <1>3 DEF SentIn, ToldIn
  <2>6. CASE log' = log
    BY <1>2, <1>3, <2>6, NothingReported
  <2>. QED BY <2>1, <2>2, <2>4, <2>5, <2>6, OneReported
<1>. QED BY <1>4, <1>5, <1>6

LEMMA TargetLineReported ==
    ASSUME TypeInv, CallInv, FramesInv, TrafficInv, [Next]_vars, TargetLine
    PROVE  \E E : Reports(E)
<1>1. ASSUME NEW k \in Keys, NEW outcome \in {"result", "error"}, TargetAnswers(k, outcome)
      PROVE  \E E : Reports(E)
  <2>. DEFINE x == [id |-> k, kind |-> outcome, of |-> k]
              e(p) == Event("response", "target_to_proxy", k, p)
  <2>1. /\ k \in Ids /\ (ToolOf[k.of] # NoTool) \in BOOLEAN
        /\ k \in [of: ClientLines \cup ServerNotifications, copy: BOOLEAN]
    BY DEF Keys, Ids
  <2>2. \E p \in BOOLEAN : log' = Logged(log, e(p))
    BY <1>1, <2>1 DEF TargetAnswers
  <2>3. PICK p \in BOOLEAN : log' = Logged(log, e(p))
    BY <2>2
  <2>4. /\ e(p) \in Events /\ e(p).mutation = 0 /\ e(p).direction = "target_to_proxy"
        /\ e(p).kind = "response" /\ e(p).id = k
    <3>1. e(p) \in Events
      BY <2>1, EventType DEF EventKinds, Directions
    <3>. QED BY <3>1 DEF Event
  <2>5. PICK w \in Events : w = e(p)
    BY <2>4
  <2>6. x \in ClientMessages /\ x.id = k
    BY <2>1, ClientMessageType
  <2>7. /\ toClient' = toClient \/ toClient' = Append(toClient, x)
        /\ UNCHANGED <<chain, received>>
    BY <1>1, WriteEnds DEF TargetAnswers, writer
  <2>. HIDE DEF e, x
  <2>8. Answers' \subseteq Answers \cup {k}
    <3>1. CASE toClient' = toClient
      BY <3>1 DEF Answers
    <3>2. CASE toClient' = Append(toClient, x)
      BY <2>6, <3>2, TaskFacts, AnswersAppended
    <3>. QED BY <2>7, <3>1, <3>2
  <2>9. SentIn({w}) /\ ToldIn({w})
    <3>1. Read' = Read /\ Queued' = Queued
      BY <2>7 DEF Read, Queued
    <3>. QED BY <2>4, <2>5, <2>8, <3>1 DEF SentIn, ToldIn
  <2>10. Truthful(w)'
    BY <2>4, <2>5, PlainTruth
  <2>. QED BY <2>3, <2>5, <2>9, <2>10, OneReported
<1>2. ASSUME NEW t \in ServerRequests \cup ServerNotifications, TargetSends(t)
      PROVE  \E E : Reports(E)
  <2>. DEFINE e == Event("request", "target_to_proxy", Call(t), FALSE)
              x == [id |-> Call(t), kind |-> "forwarded", of |-> Call(t)]
  <2>1. e \in Events /\ e.mutation = 0 /\ e.direction = "target_to_proxy"
    <3>1. Call(t) \in Ids
      BY DEF Ids
    <3>2. e \in Events
      BY <3>1, EventType DEF EventKinds, Directions
    <3>. QED BY <3>2 DEF Event
  <2>2. x \in ClientMessages /\ x.id = Call(t)
    <3>1. Call(t) \in [of: ClientLines \cup ServerNotifications, copy: BOOLEAN]
      OBVIOUS
    <3>. QED BY <3>1, ClientMessageType
  <2>3. /\ log' = Logged(log, e) \/ log' = Logged(Logged(log, e), TransportError)
        /\ toClient' = toClient \/ toClient' = Append(toClient, x)
        /\ UNCHANGED <<chain, received>>
    BY <1>2, WriteEnds DEF TargetSends, Fail, writer
  <2>. HIDE DEF e, x
  <2>4. Answers' \subseteq Answers \cup {Call(t)}
    <3>1. CASE toClient' = toClient
      BY <3>1 DEF Answers
    <3>2. CASE toClient' = Append(toClient, x)
      BY <2>2, <3>2, TaskFacts, AnswersAppended
    <3>. QED BY <2>3, <3>1, <3>2
  <2>5. Call(t) \notin Keys
    BY ProxyAssumption DEF Keys
  <2>6. \A E : SentIn(E) /\ ToldIn(E)
    <3>1. Read' = Read /\ Queued' = Queued
      BY <2>3 DEF Read, Queued
    <3>. QED BY <2>4, <2>5, <3>1 DEF SentIn, ToldIn
  <2>7. Truthful(e)'
    BY <2>1, PlainTruth
  <2>8. PICK f \in Events : f = TransportError
    BY ErrorEvent
  <2>9. Truthful(f)'
    BY <2>8, ErrorEvent
  <2>10. CASE log' = Logged(log, e)
    BY <2>1, <2>6, <2>7, <2>10, OneReported
  <2>11. CASE log' = Logged(Logged(log, e), f)
    BY <2>1, <2>6, <2>7, <2>9, <2>11, TwoReported
  <2>. QED BY <2>3, <2>8, <2>10, <2>11
<1>3. ASSUME NEW c \in StderrChunks, TargetWritesStderr(c) PROVE \E E : Reports(E)
  <2>. DEFINE e == Event("stderr", "none", Call(c), FALSE)
  <2>1. e \in Events /\ e.mutation = 0 /\ e.direction = "none"
    <3>1. Call(c) \in Ids
      BY DEF Ids
    <3>2. e \in Events
      BY <3>1, EventType DEF EventKinds, Directions
    <3>. QED BY <3>2 DEF Event
  <2>2. log' = Logged(log, e) /\ UNCHANGED <<toClient, chain, received>>
    BY <1>3 DEF TargetWritesStderr, writer
  <2>. HIDE DEF e
  <2>3. SentIn({e}) /\ ToldIn({e})
    BY <2>2 DEF SentIn, ToldIn, Read, Queued, Answers
  <2>4. Truthful(e)'
    BY <2>1, PlainTruth
  <2>. QED BY <2>1, <2>2, <2>3, <2>4, OneReported
<1>. QED BY <1>1, <1>2, <1>3 DEF TargetLine

LEMMA ReplyReported ==
    ASSUME TypeInv, CallInv, FramesInv, TrafficInv, CopyDeclared, [Next]_vars,
           NEW r \in Requests, Resume(r) \/ FinishDelay(r)
    PROVE  \E E : Reports(E)
<1>1. ASSUME Replied(Call(r)), Call(r) \in Read, NEW l, NEW e, NEW x \in ClientMessages,
             x.id = Call(r), Deliver(r, l, e, x), UNCHANGED writer
      PROVE  /\ Given(Call(r))' /\ log' = Logged(l, e)
             /\ \A E : SentIn(E)
             /\ \A w, E : w \in E /\ w.kind = "response" /\ w.id = Call(r) => ToldIn(E)
  <2>1. /\ WriteClient(x) /\ UNCHANGED <<chain, received>> /\ log' = Logged(l, e)
        /\ task' = [task EXCEPT ![r] = IF clientBroken' THEN "undelivered" ELSE "done"]
    BY <1>1 DEF Deliver, writer, server
  <2>. QED BY <1>1, <2>1, DeliveryReported
<1>2. task[r] \in {"waiting", "delaying", "copy_writing", "copy_waiting"} => Call(r) \in Read
  BY DEF FramesInv, CallIsRead
<1>3. CASE ReturnReply(r)
  <2>. DEFINE e == ToClient(r)
  <2>1. Replied(Call(r)) /\ Call(r) \in Read /\ Deliver(r, log, e, Original(r)) /\ UNCHANGED writer
    BY <1>2, <1>3 DEF ReturnReply
  <2>2. Original(r) \in ClientMessages /\ Original(r).id = Call(r)
    BY <2>1, ReplyTypes DEF Original
  <2>3. e \in Events /\ e.kind = "response" /\ e.id = Call(r)
        /\ (Given(Call(r))' => Truthful(e)')
    BY <2>1, AnswerEvents
  <2>. HIDE DEF e
  <2>4. /\ Given(Call(r))' /\ log' = Logged(log, e) /\ SentIn({e}) /\ ToldIn({e})
    BY <1>1, <2>1, <2>2, <2>3
  <2>. QED BY <2>3, <2>4, OneReported
<1>4. CASE MutateReply(r)
  <2>1. /\ Replied(Call(r)) /\ chosen[r] # 0 /\ Call(r) \in Read
        /\ Deliver(r, Logged(log, MutationEvent(r)), VisibleEvent(r), Visible(r))
        /\ UNCHANGED writer
    BY <1>2, <1>4 DEF MutateReply, MutationStarts
  <2>2. Visible(r) \in ClientMessages /\ Visible(r).id = Call(r)
    BY <2>1, ReplyTypes DEF Visible, Original
  <2>3. PICK d : d = MutationEvent(r)
    OBVIOUS
  <2>4. PICK e : e = VisibleEvent(r)
    OBVIOUS
  <2>5. /\ d \in Events /\ Truthful(d)'
        /\ e \in Events /\ e.kind = "response" /\ e.id = Call(r)
        /\ (Given(Call(r))' => Truthful(e)')
    BY <2>1, <2>3, <2>4, AnswerEvents
  <2>6. /\ Given(Call(r))' /\ log' = Logged(Logged(log, d), e)
        /\ SentIn({d} \cup {e}) /\ ToldIn({d} \cup {e})
    BY <1>1, <2>1, <2>2, <2>3, <2>4, <2>5
  <2>. QED BY <2>5, <2>6, TwoReported
<1>5. CASE DelayReply(r)
  <2>1. /\ Replied(Call(r)) /\ chosen[r] # 0 /\ Call(r) \in Read
        /\ log' = Logged(log, MutationEvent(r)) /\ UNCHANGED <<toClient, chain, received>>
    BY <1>2, <1>5 DEF DelayReply, MutationStarts, writer, server
  <2>2. PICK d : d = MutationEvent(r)
    OBVIOUS
  <2>3. d \in Events /\ Truthful(d)'
    BY <2>1, <2>2, AnswerEvents
  <2>4. SentIn({d}) /\ ToldIn({d})
    BY <2>1 DEF SentIn, ToldIn, Read, Queued, Answers
  <2>. QED BY <2>1, <2>2, <2>3, <2>4, OneReported
<1>6. CASE FinishDelay(r)
  <2>1. /\ Replied(Call(r)) /\ chosen[r] # 0 /\ Call(r) \in Read
        /\ Deliver(r, log, VisibleEvent(r), Visible(r))
        /\ UNCHANGED writer
    BY <1>2, <1>6 DEF FinishDelay, CallInv, MutatesReply, Applied
  <2>2. Visible(r) \in ClientMessages /\ Visible(r).id = Call(r)
    BY <2>1, ReplyTypes DEF Visible, Original
  <2>3. PICK e : e = VisibleEvent(r)
    OBVIOUS
  <2>4. /\ e \in Events /\ e.kind = "response" /\ e.id = Call(r)
        /\ (Given(Call(r))' => Truthful(e)')
    BY <2>1, <2>3, AnswerEvents
  <2>5. /\ Given(Call(r))' /\ log' = Logged(log, e) /\ SentIn({e}) /\ ToldIn({e})
    BY <1>1, <2>1, <2>2, <2>3, <2>4
  <2>. QED BY <2>4, <2>5, OneReported
<1>7. CASE DuplicateCall(r)
  <2>. DEFINE k == Duplicate(r)
              e == Event("request", "proxy_to_target", k, ToolOf[r] # NoTool)
  <2>1. /\ Replied(Call(r)) /\ chosen[r] # 0 /\ Call(r) \in Read
        /\ log' = Logged(Logged(log, MutationEvent(r)), e) /\ chain' = Append(chain, k)
        /\ UNCHANGED <<toClient, received>>
    BY <1>2, <1>7 DEF DuplicateCall, MutationStarts, SendTargetRequest, server
  <2>2. /\ k \in Frames /\ e \in Events
        /\ e.mutation = 0 /\ e.direction = "proxy_to_target" /\ e.id = k
    <3>1. k \in Frames /\ k \in Ids /\ (ToolOf[r] # NoTool) \in BOOLEAN
      BY DEF Frames, Ids
    <3>2. e \in Events
      BY <3>1, EventType DEF EventKinds, Directions
    <3>. QED BY <3>1, <3>2 DEF Event
  <2>. HIDE DEF e, k
  <2>3. PICK d : d = MutationEvent(r)
    OBVIOUS
  <2>4. d \in Events /\ Truthful(d)'
    BY <2>1, <2>3, AnswerEvents
  <2>5. /\ Queued' = Queued \cup {k}
        /\ SentIn({d} \cup {e}) /\ ToldIn({d} \cup {e})
    BY <2>1, <2>2, SendingReported
  <2>6. Truthful(e)'
    BY <2>2, <2>5 DEF Truthful, CommitTrue
  <2>. QED BY <2>1, <2>2, <2>3, <2>4, <2>5, <2>6, TwoReported
<1>8. CASE FinishDuplicate(r)
  <2>. DEFINE c == Event("response", "target_to_proxy", Duplicate(r), TRUE)
  <2>1. /\ Replied(Call(r)) /\ chosen[r] # 0 /\ Call(r) \in Read /\ Declared(r)
        /\ Deliver(r, Logged(log, WithMutation(r, c)), WithMutation(r, ToClient(r)), Original(r))
        /\ UNCHANGED writer
    BY <1>2, <1>8 DEF FinishDuplicate, CallInv, MutatesReply, Applied, CopyDeclared
  <2>2. Original(r) \in ClientMessages /\ Original(r).id = Call(r)
    BY <2>1, ReplyTypes DEF Original
  <2>3. c \in Events /\ c.direction = "target_to_proxy"
    <3>1. Duplicate(r) \in Ids
      BY DEF Ids
    <3>2. c \in Events
      BY <3>1, EventType DEF EventKinds, Directions
    <3>. QED BY <3>2 DEF Event
  <2>. HIDE DEF c
  <2>4. PICK d : d = WithMutation(r, c)
    OBVIOUS
  <2>5. PICK e : e = WithMutation(r, ToClient(r))
    OBVIOUS
  <2>6. /\ d.direction = "target_to_proxy" /\ d.mutation = chosen[r]
        /\ d.commit = CommitStatus(Mutations[chosen[r]], promise[Call(r)] # "result")
    BY <2>3, <2>4, MutatedFields DEF WithMutation
  <2>7. d \in Events
    <3>1. chosen[r] \in 1..Len(Mutations)
      <4>1. chosen[r] \in 0..Len(Mutations) /\ Len(Mutations) \in Nat
        BY ProxyAssumption DEF TypeInv, TypeOK, HandlersType
      <4>. QED BY <2>1, <4>1
    <3>2. (promise[Call(r)] # "result") \in BOOLEAN
      OBVIOUS
    <3>. QED BY <2>3, <2>4, <3>1, <3>2, MutatedType DEF WithMutation
  <2>8. Truthful(d)'
    <3>1. CommitTrue(d)
      BY <2>1, <2>6, MutationTruth
    <3>2. CommitTrue(d)'
      BY <3>1, TruthStays
    <3>. QED BY <2>6, <3>2 DEF Truthful
  <2>9. /\ e \in Events /\ e.kind = "response" /\ e.id = Call(r)
        /\ (Given(Call(r))' => Truthful(e)')
    BY <2>1, <2>5, AnswerEvents
  <2>10. /\ Given(Call(r))' /\ log' = Logged(Logged(log, d), e)
         /\ SentIn({d} \cup {e}) /\ ToldIn({d} \cup {e})
    BY <1>1, <2>1, <2>2, <2>4, <2>5, <2>9
  <2>. QED BY <2>7, <2>8, <2>9, <2>10, TwoReported
<1>9. CASE ReplyRejected(r)
  <2>1. Fail(log) /\ UNCHANGED <<chain, received, toClient>>
    BY <1>9 DEF ReplyRejected, writer, server
  <2>. QED BY <2>1, FailReported DEF Read, Queued, Answers
<1>. QED BY <1>3, <1>4, <1>5, <1>6, <1>7, <1>8, <1>9 DEF Resume

LEMMA StepReported ==
    ASSUME TypeInv, CallInv, FramesInv, TrafficInv, CopyDeclared, [Next]_vars
    PROVE  \E E : Reports(E)
<1>1. ASSUME UNCHANGED <<log, toClient, chain, received>> PROVE \E E : Reports(E)
  BY <1>1, NothingReported DEF Read, Queued, Answers
<1>2. ASSUME Fail(log), UNCHANGED <<toClient, chain, received>> PROVE \E E : Reports(E)
  BY <1>2, FailReported DEF Read, Queued, Answers
<1>3. CASE ClientLine
  BY <1>3, ClientLineReported
<1>4. CASE TargetLine
  BY <1>4, TargetLineReported
<1>5. CASE WriteLine \/ WriteBlocks \/ WriteDrains \/ WriteFails
  BY <1>5, WriteReported
<1>6. ASSUME NEW r \in Requests, Resume(r) \/ FinishDelay(r) PROVE \E E : Reports(E)
  BY <1>6, ReplyReported
<1>7. CASE InvalidLine \/ RunTimeout
  BY <1>2, <1>7 DEF InvalidLine, RunTimeout, writer, server
<1>8. CASE TargetCloses
  BY <1>1, <1>2, <1>8 DEF TargetCloses, writer
<1>9. CASE MainDrains \/ MainCloses \/ MainRejects \/ MainHashes \/ MainPersists \/ MainReturns
  BY <1>1, <1>9 DEF MainDrains, MainCloses, MainRejects, MainHashes, MainPersists, MainReturns,
     writer, server
<1>10. CASE \/ ClientEnds \/ TargetExits \/ Interrupt \/ InterruptAgain
            \/ CloserTerminates \/ CloserKills \/ UNCHANGED vars
  BY <1>1, <1>10 DEF ClientEnds, TargetExits, Interrupt, InterruptAgain, CloserTerminates,
     CloserKills, writer, server, vars
<1>12. ASSUME NEW m \in Requests \cup Notifications, DeliveryFails(m) PROVE \E E : Reports(E)
  BY <1>2, <1>12 DEF DeliveryFails, writer, server
<1>11. ASSUME NEW k \in Keys, RequestTimeout(k) PROVE \E E : Reports(E)
  BY <1>1, <1>11 DEF RequestTimeout, writer, server
<1>. QED
  BY <1>3, <1>4, <1>5, <1>6, <1>7, <1>8, <1>9, <1>10, <1>11, <1>12
  DEF Next, Prompt, Turn, Terminated

\* A result that was delivered was answered.
LEMMA ResultStep ==
    ASSUME TypeInv, CallInv, FramesInv, ResultAnswered, [Next]_vars
    PROVE  ResultAnswered'
<1>. SUFFICES ASSUME NEW k \in Keys, promise'[k] = "result" PROVE answered'[k] = "result"
  BY DEF ResultAnswered
<1>1. SettlesWell(k)
  BY PromiseSteps
<1>2. answered[k] = "result" => answered'[k] = "result"
  BY FactsStay
<1>. QED BY <1>1, <1>2 DEF SettlesWell, ResultAnswered

\* Only what is not to be denied is forwarded.
LEMMA AllowedStep ==
    ASSUME TypeInv, CallInv, FramesInv, SentAllowed, [Next]_vars
    PROVE  SentAllowed'
<1>. SUFFICES ASSUME NEW r \in Requests, Call(r) \in (Read \cup Queued)', chosen'[r] # 0
              PROVE  Mutations[chosen'[r]].type \notin MutationTypes.preflight
  BY DEF SentAllowed, MutationOf
<1>1. CASE Call(r) \in Read \cup Queued
  <2>1. task[r] # "none"
    <3>1. Call(r).of = r /\ ~Call(r).copy
      OBVIOUS
    <3>2. CASE Call(r) \in Read
      BY <3>1, <3>2 DEF FramesInv, ReadIsStarted
    <3>3. CASE Call(r) \in Queued
      BY <3>1, <3>3, TaskFacts
    <3>. QED BY <1>1, <3>2, <3>3
  <2>2. chosen'[r] = chosen[r]
    BY <2>1, ChosenSteps
  <2>. QED BY <1>1, <2>2 DEF SentAllowed, MutationOf
<1>2. CASE Call(r) \notin Read \cup Queued
  <2>1. \E f \in Frames : Queues(f) /\ f = Call(r)
    <3>1. ASSUME NEW f \in Frames, Queues(f) PROVE f = Call(r)
      BY <1>2, <3>1, QueuesMoves
    <3>2. CASE Writes
      BY <1>2, <3>2, WritesMoves, HeadFacts DEF Writes, FramesInv
    <3>3. CASE Breaks
      BY <1>2, <3>3, HeadFacts DEF Breaks, Read, Queued
    <3>4. CASE Continues \/ Listens
      BY <1>2, <3>4 DEF Continues, Listens, Read, Queued
    <3>5. ASSUME NEW m \in Requests \cup Notifications, Denies(m) \/ Loses(m) PROVE FALSE
      BY <1>2, <3>5 DEF Denies, Loses, Read, Queued
    <3>. QED BY <3>1, <3>2, <3>3, <3>4, <3>5, Steps
  <2>2. task[r] = "none" /\ task'[r] = "writing"
    BY <2>1, TaskFacts DEF Queues
  <2>3. ForwardRequest(r)
    <3>1. ASSUME NEW m \in ClientLines, task' = [task EXCEPT ![m] = "writing"] PROVE m = r
      BY <2>2, <3>1, TaskFacts
    <3>2. ASSUME NEW m \in ClientLines, NEW v, task' = [task EXCEPT ![m] = v], v # "writing"
          PROVE  FALSE
      BY <2>2, <3>2, TaskFacts
    <3>3. task' # task
      BY <2>2
    <3>4. CASE ClientLine
      <4>1. ASSUME NEW m \in Requests \cup Notifications, DenyBeforeCall(m) PROVE FALSE
        <5>1. \E v \in {"done", "undelivered"} : task' = [task EXCEPT ![m] = v]
          BY <4>1 DEF DenyBeforeCall
        <5>. QED BY <3>2, <5>1
      <4>2. ASSUME NEW n \in Notifications, ForwardNotification(n) PROVE FALSE
        BY <3>1, <4>2, ProxyAssumption DEF ForwardNotification
      <4>3. ASSUME NEW t \in ServerRequests, ClientReplies(t) PROVE FALSE
        BY <3>1, <4>3, ProxyAssumption DEF ClientReplies
      <4>4. ASSUME NEW q \in Requests, ForwardRequest(q) PROVE ForwardRequest(r)
        BY <3>1, <4>4 DEF ForwardRequest
      <4>. QED BY <3>4, <4>1, <4>2, <4>3, <4>4 DEF ClientLine
    <3>5. CASE TargetLine
      BY <3>3, <3>5 DEF TargetLine, TargetAnswers, TargetSends, TargetWritesStderr, handlers
    <3>6. CASE InvalidLine \/ WriteBlocks \/ RunTimeout
      BY <3>3, <3>6 DEF InvalidLine, WriteBlocks, RunTimeout, handlers
    <3>7. CASE WriteLine \/ WriteDrains \/ WriteFails
      <4>1. chain # <<>> /\ Head(chain).of \in ClientLines
        <5>1. chain # <<>>
          BY <3>7 DEF WriteLine, WriteDrains, WriteFails, CallInv, DrainsHead
        <5>. QED BY <5>1, HeadFacts, TaskFacts
      <4>2. \E v \in {"failed", "waiting", "copy_waiting", "done"} :
                task' = [task EXCEPT ![Head(chain).of] = v]
        BY <3>7 DEF WriteLine, WriteDrains, WriteFails, Written, Waiting
      <4>. QED BY <3>2, <4>1, <4>2
    <3>8. ASSUME NEW q \in Requests, Resume(q) \/ FinishDelay(q) PROVE FALSE
      <4>1. \E v \in {"done", "undelivered", "failed", "delaying", "copy_writing"} :
                task' = [task EXCEPT ![q] = v]
        BY <3>8 DEF Resume, FinishDelay, ReturnReply, MutateReply, DelayReply, DuplicateCall,
           FinishDuplicate, ReplyRejected, Deliver
      <4>. QED BY <3>2, <4>1
    <3>9. CASE MainDrains \/ MainCloses \/ MainRejects \/ MainHashes \/ MainPersists \/ MainReturns
      BY <3>3, <3>9 DEF MainDrains, MainCloses, MainRejects, MainHashes, MainPersists,
         MainReturns, handlers
    <3>10. CASE \/ ClientEnds \/ TargetExits \/ TargetCloses \/ Interrupt \/ InterruptAgain
                \/ CloserTerminates \/ CloserKills \/ UNCHANGED vars
      BY <3>3, <3>10 DEF ClientEnds, TargetExits, TargetCloses, Interrupt, InterruptAgain,
         CloserTerminates, CloserKills, handlers, vars
    <3>12. ASSUME NEW m \in Requests \cup Notifications, DeliveryFails(m) PROVE FALSE
      BY <3>2, <3>12 DEF DeliveryFails
    <3>11. ASSUME NEW k \in Keys, RequestTimeout(k) PROVE FALSE
      BY <3>3, <3>11 DEF RequestTimeout, handlers
    <3>. QED
      BY <3>4, <3>5, <3>6, <3>7, <3>8, <3>9, <3>10, <3>11, <3>12 DEF Next, Prompt, Turn, Terminated
  <2>4. ~Preflighted(r) /\ chosen' = [chosen EXCEPT ![r] = Selected(r)]
    BY <2>3 DEF ForwardRequest, Arrive
  <2>5. chosen'[r] = Selected(r)
    BY <2>4 DEF TypeInv, TypeOK, HandlersType
  <2>. QED BY <2>4, <2>5 DEF Preflighted
<1>. QED BY <1>1, <1>2

LEMMA TrafficStep ==
    ASSUME TypeInv, CallInv, FramesInv, DuplicatesInv, TrafficInv, [Next]_vars
    PROVE  TrafficInv'
<1>1. PICK E : Reports(E)
  BY StepReported DEF DuplicatesInv
<1>2. Recorded = EventsOf(log) /\ Recorded' = EventsOf(log')
  BY DEF Recorded, EventsOf
<1>3. \A e \in Recorded' : Truthful(e)'
  <2>. SUFFICES ASSUME NEW e \in Recorded' PROVE Truthful(e)'
    OBVIOUS
  <2>1. e \in Recorded \/ e \in E
    BY <1>1, <1>2 DEF Reports, Grows
  <2>2. CASE e \in Recorded
    <3>1. Truthful(e)
      BY <2>2 DEF TrafficInv
    <3>. QED BY <3>1, TruthStays
  <2>3. CASE e \in E
    BY <1>1, <2>3 DEF Reports
  <2>. QED BY <2>1, <2>2, <2>3
<1>4. NothingMissing'
  <2>. SUFFICES ASSUME ~log'.truncated, NEW k \in Keys
                PROVE  /\ k \in (Read \cup Queued)' =>
                             \E e \in Recorded' : e.direction = "proxy_to_target" /\ e.id = k
                       /\ k \in Answers' => \E e \in Recorded' : e.kind = "response" /\ e.id = k
    BY DEF NothingMissing
  <2>1. ~log.truncated /\ Recorded \cup E \subseteq Recorded'
    BY <1>1, <1>2 DEF Reports, Grows
  <2>2. SentIn(E) /\ ToldIn(E)
    BY <1>1 DEF Reports
  <2>3. k \in (Read \cup Queued)' =>
            \E e \in Recorded' : e.direction = "proxy_to_target" /\ e.id = k
    BY <2>1, <2>2 DEF SentIn, TrafficInv, NothingMissing
  <2>4. k \in Answers' => \E e \in Recorded' : e.kind = "response" /\ e.id = k
    BY <2>1, <2>2 DEF ToldIn, TrafficInv, NothingMissing
  <2>. QED BY <2>3, <2>4
<1>5. ResultAnswered' /\ SentAllowed'
  BY ResultStep, AllowedStep DEF TrafficInv
<1>. QED BY <1>3, <1>4, <1>5 DEF TrafficInv

LEMMA TrafficInvariance == Spec => []TrafficInv
<1>1. Init => TrafficInv
  <2>. SUFFICES ASSUME Init PROVE TrafficInv
    OBVIOUS
  <2>1. Read = {} /\ Queued = {}
    BY DEF Init, Range, Read, Queued
  <2>2. Answers = {}
    BY DEF Init, Answers
  <2>3. Recorded = {}
    BY DEF Init, Recorded, EmptyLog
  <2>4. \A k \in Keys : promise[k] = "unused"
    BY DEF Init
  <2>. QED BY <2>1, <2>2, <2>3, <2>4 DEF TrafficInv, NothingMissing, ResultAnswered, SentAllowed
<1>2. TypeInv /\ CallInv /\ FramesInv /\ DuplicatesInv /\ TrafficInv /\ [Next]_vars => TrafficInv'
  BY TrafficStep
<1>. QED BY <1>1, <1>2, DuplicatesInvariance, PTL DEF Spec

\* The commit status the capture gives a mutation is true: a call it says was
\* committed was answered with a result, and one it says was not attempted never
\* reaches the target (mutationStatuses, sendMutationResponse).
THEOREM CommitsAreTrue == Spec => []CommitStatusIsTrue
<1>1. TrafficInv => CommitStatusIsTrue
  BY DEF TrafficInv, Truthful, CommitTrue, CommitStatusIsTrue, Read, Queued
<1>. QED BY <1>1, TrafficInvariance, PTL

\* The capture tells the traffic: each call in it was sent or the run failed; the
\* client got each response it claims, or has closed its end and the task of the
\* response has failed or is about to; and nothing of either is missing unless it is
\* marked truncated (recordRequest, recordResponse, record() and writeClient).
THEOREM TrafficIsTold == Spec => []TrafficRecorded
<1>1. TrafficInv => CallsRecorded
  BY DEF TrafficInv, Truthful, NothingMissing, CallsRecorded, Read, Queued
<1>2. TrafficInv => ResponsesRecorded
  BY DEF TrafficInv, Truthful, Given, Unwritten, NothingMissing, ResponsesRecorded, Answers
<1>3. TrafficInv => TrafficRecorded
  BY <1>1, <1>2 DEF TrafficRecorded
<1>. QED BY <1>3, TrafficInvariance, PTL

-------------------------------------------------------------------------------
(* The order of the client's messages.                                     *)

Messages == Requests \cup Notifications

IsArrival(e, m) == e.kind = "request" /\ e.direction = "client_to_proxy" /\ e.id = Call(m)
Arrivals(l, m) == {i \in DOMAIN l.events : IsArrival(l.events[i].event, m)}

\* l2 is l after events that are no arrival of a message.
Plain(l, l2) ==
    /\ l.truncated => l2.truncated
    /\ \A m \in Messages : Arrivals(l2, m) = Arrivals(l, m)

\* The kept events of a log after one more event.
LEMMA LoggedEvents ==
    ASSUME NEW l, GoodLog(l), NEW e \in Events
    PROVE  LET l2 == Logged(l, e) IN
           /\ GoodLog(l2) /\ DOMAIN l.events = 1..Len(l.events) /\ Len(l.events) \in Nat
           /\ l.truncated => l2.truncated
           /\ \/ l2.events = l.events /\ l2.truncated
              \/ /\ DOMAIN l2.events = 1..(Len(l.events) + 1)
                 /\ \A i \in 1..Len(l.events) : l2.events[i] = l.events[i]
                 /\ l2.events[Len(l.events) + 1].event = e
<1>. DEFINE x == [sequence |-> l.sequence + 1, event |-> e]
            l2 == Logged(l, e)
<1>1. GoodLog(l2)
  BY LoggedGood
<1>2. /\ l.events \in Seq([sequence: Nat, event: Events])
      /\ x \in [sequence: Nat, event: Events]
      /\ DOMAIN l.events = 1..Len(l.events) /\ Len(l.events) \in Nat
  BY DEF GoodLog, LogOf
<1>3. CASE HasRoom(l, SizeOf[e.kind])
  <2>1. l2.events = Append(l.events, x) /\ l2.truncated = l.truncated /\ x.event = e
    BY <1>3 DEF Logged, Record, Keep
  <2>. HIDE DEF l2, x
  <2>. QED BY <1>1, <1>2, <2>1 DEF l2
<1>4. CASE ~HasRoom(l, SizeOf[e.kind])
  <2>1. l2.events = l.events /\ l2.truncated
    BY <1>4 DEF Logged, Record, Omit
  <2>. QED BY <1>1, <1>2, <2>1
<1>. QED BY <1>3, <1>4

LEMMA PlainLogged ==
    ASSUME NEW l, GoodLog(l), NEW e \in Events,
           ~(e.kind = "request" /\ e.direction = "client_to_proxy")
    PROVE  GoodLog(Logged(l, e)) /\ Plain(l, Logged(l, e))
<1>. DEFINE l2 == Logged(l, e)
<1>1. /\ GoodLog(l2) /\ DOMAIN l.events = 1..Len(l.events) /\ Len(l.events) \in Nat
      /\ l.truncated => l2.truncated
      /\ \/ l2.events = l.events /\ l2.truncated
         \/ /\ DOMAIN l2.events = 1..(Len(l.events) + 1)
            /\ \A i \in 1..Len(l.events) : l2.events[i] = l.events[i]
            /\ l2.events[Len(l.events) + 1].event = e
  BY LoggedEvents
<1>. HIDE DEF l2
<1>2. ASSUME NEW m \in Messages PROVE Arrivals(l2, m) = Arrivals(l, m)
  <2>1. CASE l2.events = l.events
    BY <2>1 DEF Arrivals
  <2>2. CASE /\ DOMAIN l2.events = 1..(Len(l.events) + 1)
             /\ \A i \in 1..Len(l.events) : l2.events[i] = l.events[i]
             /\ l2.events[Len(l.events) + 1].event = e
    <3>1. ~IsArrival(e, m)
      BY DEF IsArrival
    <3>2. \A i \in DOMAIN l2.events : i \in 1..Len(l.events) \/ i = Len(l.events) + 1
      BY <1>1, <2>2
    <3>3. \A i \in 1..Len(l.events) : i \in DOMAIN l2.events
      BY <1>1, <2>2
    <3>. QED BY <1>1, <2>2, <3>1, <3>2, <3>3 DEF Arrivals
  <2>. QED BY <1>1, <2>1, <2>2
<1>. QED BY <1>1, <1>2 DEF Plain, l2

LEMMA PlainAgain ==
    ASSUME NEW l, NEW l2, Plain(l, l2), GoodLog(l2), NEW e \in Events,
           ~(e.kind = "request" /\ e.direction = "client_to_proxy")
    PROVE  GoodLog(Logged(l2, e)) /\ Plain(l, Logged(l2, e))
<1>1. GoodLog(Logged(l2, e)) /\ Plain(l2, Logged(l2, e))
  BY PlainLogged
<1>. QED BY <1>1 DEF Plain

LEMMA ArrivalLogged ==
    ASSUME NEW l, GoodLog(l), NEW m \in Messages
    PROVE  LET l2 == Logged(l, Event("request", "client_to_proxy", Call(m), FALSE)) IN
           /\ GoodLog(l2)
           /\ l.truncated => l2.truncated
           /\ ~l2.truncated => \A n \in Messages :
                 Arrivals(l2, n) = IF n = m THEN Arrivals(l, n) \cup {Len(l.events) + 1}
                                            ELSE Arrivals(l, n)
<1>. DEFINE e == Event("request", "client_to_proxy", Call(m), FALSE)
            l2 == Logged(l, e)
<1>1. e \in Events
  <2>1. Call(m) \in Ids
    BY DEF Ids, Messages
  <2>. QED BY <2>1, EventType DEF EventKinds, Directions
<1>2. \A n \in Messages : IsArrival(e, n) <=> n = m
  BY DEF IsArrival, Event
<1>. HIDE DEF e
<1>3. /\ GoodLog(l2) /\ DOMAIN l.events = 1..Len(l.events) /\ Len(l.events) \in Nat
      /\ l.truncated => l2.truncated
      /\ \/ l2.events = l.events /\ l2.truncated
         \/ /\ DOMAIN l2.events = 1..(Len(l.events) + 1)
            /\ \A i \in 1..Len(l.events) : l2.events[i] = l.events[i]
            /\ l2.events[Len(l.events) + 1].event = e
  BY <1>1, LoggedEvents
<1>. HIDE DEF l2
<1>4. ASSUME ~l2.truncated, NEW n \in Messages
      PROVE  Arrivals(l2, n) = IF n = m THEN Arrivals(l, n) \cup {Len(l.events) + 1}
                                        ELSE Arrivals(l, n)
  <2>1. /\ DOMAIN l2.events = 1..(Len(l.events) + 1)
        /\ \A i \in 1..Len(l.events) : l2.events[i] = l.events[i]
        /\ l2.events[Len(l.events) + 1].event = e
    BY <1>3, <1>4
  <2>2. \A i \in DOMAIN l2.events : i \in 1..Len(l.events) \/ i = Len(l.events) + 1
    BY <1>3, <2>1
  <2>3. \A i \in 1..Len(l.events) : i \in DOMAIN l2.events
    BY <1>3, <2>1
  <2>4. Len(l.events) + 1 \in DOMAIN l2.events
    BY <1>3, <2>1
  <2>. QED BY <1>2, <1>3, <2>1, <2>2, <2>3, <2>4 DEF Arrivals
<1>. QED BY <1>3, <1>4 DEF l2, e

\* A mutated event keeps its kind.
LEMMA MutatedKind ==
    \A e \in Events : \A i, isError : Mutated(e, i, isError).kind = e.kind
BY DEF Mutated, Events

\* A message arrives: its task begins and its mutation is chosen, and its arrival
\* is the next event of the capture.
Arrives(m) ==
    /\ task[m] = "none"
    /\ \A n \in Messages : task'[n] # "none" <=> task[n] # "none" \/ n = m
    /\ chosen'[m] = Selected(m)
    /\ occurrences' = IF ToolOf[m] = NoTool THEN occurrences
                      ELSE [occurrences EXCEPT ![ToolOf[m]] = @ + 1]
    /\ log.truncated => log'.truncated
    /\ ~log'.truncated => \A n \in Messages :
          ArrivedAt(n)' = IF n = m THEN ArrivedAt(n) \cup {Len(log.events) + 1} ELSE ArrivedAt(n)

\* No message arrives.
Stays ==
    /\ Plain(log, log')
    /\ \A n \in Messages : task'[n] # "none" <=> task[n] # "none"
    /\ UNCHANGED occurrences

LEMMA ArrivedIsArrivals ==
    \A m : ArrivedAt(m) = Arrivals(log, m) /\ ArrivedAt(m)' = Arrivals(log', m)
BY DEF ArrivedAt, Arrivals, IsArrival

LEMMA FailPlain ==
    ASSUME TypeInv, Fail(log)
    PROVE  Plain(log, log')
<1>1. GoodLog(log)
  BY DEF TypeInv, TypeOK, GoodLog
<1>2. TransportError \in Events /\ TransportError.kind = "transport_error"
  <2>1. Call(NoRequest) \in Ids
    BY DEF Ids
  <2>2. TransportError \in Events
    BY <2>1, EventType DEF TransportError, EventKinds, Directions
  <2>. QED BY <2>2 DEF TransportError, Event
<1>3. log' = log \/ log' = Logged(log, TransportError)
  BY DEF Fail
<1>4. Plain(log, log)
  BY DEF Plain
<1>. QED BY <1>1, <1>2, <1>3, <1>4, PlainLogged

LEMMA ClientLineArrives ==
    ASSUME TypeInv, CallInv, ClientLine
    PROVE  Stays \/ \E m \in Messages : Arrives(m)
<1>0. GoodLog(log) /\ task \in [ClientLines -> TaskStates]
  BY TaskFacts DEF TypeInv, TypeOK, GoodLog
<1>1. ASSUME NEW m \in Messages, Arrive(m), NEW v, v # "none", task' = [task EXCEPT ![m] = v],
             log' = Arrival(m) \/ Plain(Arrival(m), log')
      PROVE  Arrives(m)
  <2>1. /\ task[m] = "none" /\ chosen' = [chosen EXCEPT ![m] = Selected(m)]
        /\ occurrences' = IF ToolOf[m] = NoTool THEN occurrences
                          ELSE [occurrences EXCEPT ![ToolOf[m]] = @ + 1]
    BY <1>1 DEF Arrive
  <2>2. chosen'[m] = Selected(m)
    BY <2>1 DEF TypeInv, TypeOK, HandlersType, Messages
  <2>3. \A n \in Messages : task'[n] # "none" <=> task[n] # "none" \/ n = m
    BY <1>0, <1>1 DEF Messages
  <2>4. /\ log.truncated => Arrival(m).truncated
        /\ ~Arrival(m).truncated => \A n \in Messages :
              Arrivals(Arrival(m), n) = IF n = m THEN Arrivals(log, n) \cup {Len(log.events) + 1}
                                                 ELSE Arrivals(log, n)
    BY <1>0, ArrivalLogged DEF Arrival
  <2>5. Plain(Arrival(m), log')
    BY <1>1 DEF Plain
  <2>6. /\ log.truncated => log'.truncated
        /\ ~log'.truncated => \A n \in Messages :
              Arrivals(log', n) = IF n = m THEN Arrivals(log, n) \cup {Len(log.events) + 1}
                                           ELSE Arrivals(log, n)
    BY <2>4, <2>5 DEF Plain
  <2>. QED BY <2>1, <2>2, <2>3, <2>6, ArrivedIsArrivals DEF Arrives
<1>2. ASSUME NEW m \in Messages PROVE GoodLog(Arrival(m))
  BY <1>0, ArrivalLogged DEF Arrival
<1>3. \A m \in ClientLines : Call(m) \in Ids
  BY DEF Ids
<1>4. ASSUME NEW m \in Requests \cup Notifications, DenyBeforeCall(m) PROVE Arrives(m)
  <2>. DEFINE d == Event("mutation", "none", Call(m), FALSE)
              e == Event("response", "proxy_to_client", Call(m), FALSE)
              p == Mutated(d, Selected(m), FALSE)
              q == Mutated(e, Selected(m), FALSE)
  <2>. DEFINE v == IF clientBroken' THEN "undelivered" ELSE "done"
  <2>1. /\ Arrive(m) /\ task' = [task EXCEPT ![m] = v]
        /\ log' = Logged(Logged(Arrival(m), p), q)
        /\ Preflighted(m)
    BY <1>4 DEF DenyBeforeCall
  <2>1a. v # "none"
    OBVIOUS
  <2>. HIDE DEF v
  <2>2. Selected(m) \in 1..Len(Mutations)
    <3>1. Selected(m) \in 0..Len(Mutations) /\ Selected(m) # 0 /\ Len(Mutations) \in Nat
      BY <2>1, SelectedType, ProxyAssumption DEF Preflighted
    <3>. QED BY <3>1
  <2>3. d \in Events /\ e \in Events /\ d.kind = "mutation" /\ e.kind = "response"
    <3>1. d \in Events /\ e \in Events
      BY <1>3, EventType DEF EventKinds, Directions
    <3>. QED BY <3>1 DEF Event
  <2>. HIDE DEF d, e
  <2>4. p \in Events /\ q \in Events /\ p.kind = "mutation" /\ q.kind = "response"
    <3>1. p \in Events /\ q \in Events
      BY <2>2, <2>3, MutatedType
    <3>. QED BY <2>3, <3>1, MutatedKind
  <2>. HIDE DEF p, q
  <2>5. GoodLog(Logged(Arrival(m), p)) /\ Plain(Arrival(m), Logged(Arrival(m), p))
    BY <1>2, <2>4, PlainLogged DEF Messages
  <2>6. Plain(Arrival(m), log')
    BY <2>1, <2>4, <2>5, PlainAgain
  <2>. QED BY <1>1, <2>1, <2>1a, <2>6 DEF Messages
<1>5. ASSUME NEW r \in Requests, ForwardRequest(r) PROVE Arrives(r)
  <2>. DEFINE e == Event("request", "proxy_to_target", Call(r), ToolOf[r] # NoTool)
  <2>1. Arrive(r) /\ task' = [task EXCEPT ![r] = "writing"] /\ log' = Logged(Arrival(r), e)
    BY <1>5 DEF ForwardRequest, SendTargetRequest
  <2>2. e \in Events /\ e.direction = "proxy_to_target"
    <3>1. (ToolOf[r] # NoTool) \in BOOLEAN
      OBVIOUS
    <3>2. e \in Events
      BY <1>3, <3>1, EventType DEF EventKinds, Directions
    <3>. QED BY <3>2 DEF Event
  <2>. HIDE DEF e
  <2>3. Plain(Arrival(r), log')
    BY <1>2, <2>1, <2>2, PlainLogged DEF Messages
  <2>. QED BY <1>1, <2>1, <2>3 DEF Messages
<1>6. ASSUME NEW n \in Notifications, ForwardNotification(n) PROVE Arrives(n)
  BY <1>1, <1>6 DEF ForwardNotification, Messages
<1>7. ASSUME NEW t \in ServerRequests, ClientReplies(t) PROVE Stays
  <2>. DEFINE e == Event("response", "client_to_proxy", Call(t), FALSE)
  <2>1. e \in Events /\ e.kind = "response"
    <3>1. e \in Events
      BY <1>3, EventType DEF EventKinds, Directions
    <3>. QED BY <3>1 DEF Event
  <2>2. log' = Logged(log, e) /\ task' = [task EXCEPT ![t] = "writing"] /\ UNCHANGED occurrences
    BY <1>7 DEF ClientReplies
  <2>. HIDE DEF e
  <2>3. Plain(log, log')
    BY <1>0, <2>1, <2>2, PlainLogged
  <2>4. t \notin Messages
    BY ProxyAssumption DEF Messages
  <2>5. \A n \in Messages : task'[n] = task[n]
    BY <1>0, <2>2, <2>4 DEF Messages
  <2>. QED BY <2>2, <2>3, <2>5 DEF Stays
<1>. QED BY <1>4, <1>5, <1>6, <1>7 DEF ClientLine, Messages

LEMMA ReplyStays ==
    ASSUME TypeInv, CallInv, NEW r \in Requests, Resume(r) \/ FinishDelay(r)
    PROVE  Stays
<1>0. GoodLog(log) /\ task \in [ClientLines -> TaskStates]
  BY TaskFacts DEF TypeInv, TypeOK, GoodLog
<1>1. ASSUME Plain(log, log'), NEW v, v # "none", task' = [task EXCEPT ![r] = v],
             task[r] # "none", UNCHANGED occurrences
      PROVE  Stays
  BY <1>0, <1>1 DEF Stays, Messages
<1>2. ASSUME Replied(Call(r)), chosen[r] # 0
      PROVE  /\ MutationEvent(r) \in Events /\ MutationEvent(r).kind = "mutation"
             /\ VisibleEvent(r) \in Events /\ VisibleEvent(r).kind = "response"
             /\ WithMutation(r, ToClient(r)) \in Events
             /\ WithMutation(r, ToClient(r)).kind = "response"
  <2>1. /\ MutationEvent(r) \in Events /\ VisibleEvent(r) \in Events
        /\ WithMutation(r, ToClient(r)) \in Events /\ ToClient(r) \in Events
    BY <1>2, ReplyTypes
  <2>2. ToClient(r).kind = "response"
    BY DEF ToClient, Event
  <2>3. WithMutation(r, ToClient(r)).kind = "response"
    BY <2>1, <2>2, MutatedKind DEF WithMutation
  <2>4. VisibleEvent(r).kind = "response"
    BY <2>2, <2>3 DEF VisibleEvent
  <2>5. MutationEvent(r).kind = "mutation"
    <3>. DEFINE m == Event("mutation", "none", Call(r), FALSE)
    <3>1. m \in Events /\ m.kind = "mutation"
      <4>1. Call(r) \in Ids
        BY DEF Ids
      <4>2. m \in Events
        BY <4>1, EventType DEF EventKinds, Directions
      <4>. QED BY <4>2 DEF Event
    <3>. HIDE DEF m
    <3>1a. MutationEvent(r) = Mutated(m, chosen[r], promise[Call(r)] # "result")
      BY DEF MutationEvent, WithMutation, m
    <3>. QED BY <3>1, <3>1a, MutatedKind
  <2>. QED BY <2>1, <2>3, <2>4, <2>5
<1>3. CASE ReturnReply(r)
  <2>1. ToClient(r) \in Events /\ ToClient(r).kind = "response"
    <3>1. ToClient(r) \in Events
      BY <1>3, ReplyTypes DEF ReturnReply
    <3>. QED BY <3>1 DEF ToClient, Event
  <2>2. Plain(log, log')
    BY <1>0, <1>3, <2>1, PlainLogged DEF ReturnReply, Deliver
  <2>. QED BY <1>1, <1>3, <2>2 DEF ReturnReply, Deliver
<1>4. CASE MutateReply(r)
  <2>1. /\ Replied(Call(r)) /\ chosen[r] # 0 /\ task[r] = "waiting"
        /\ log' = Logged(Logged(log, MutationEvent(r)), VisibleEvent(r))
        /\ \E v \in {"done", "undelivered"} : task' = [task EXCEPT ![r] = v]
        /\ UNCHANGED occurrences
    BY <1>4 DEF MutateReply, MutationStarts, Deliver
  <2>2. GoodLog(Logged(log, MutationEvent(r))) /\ Plain(log, Logged(log, MutationEvent(r)))
    BY <1>0, <1>2, <2>1, PlainLogged
  <2>3. Plain(log, log')
    BY <1>2, <2>1, <2>2, PlainAgain
  <2>. QED BY <1>1, <2>1, <2>3
<1>5. CASE DelayReply(r)
  <2>1. /\ Replied(Call(r)) /\ chosen[r] # 0 /\ task[r] = "waiting"
        /\ log' = Logged(log, MutationEvent(r))
        /\ task' = [task EXCEPT ![r] = "delaying"] /\ UNCHANGED occurrences
    BY <1>5 DEF DelayReply, MutationStarts
  <2>2. Plain(log, log')
    BY <1>0, <1>2, <2>1, PlainLogged
  <2>. QED BY <1>1, <2>1, <2>2
<1>6. CASE FinishDelay(r)
  <2>1. /\ Replied(Call(r)) /\ chosen[r] # 0 /\ task[r] = "delaying"
        /\ log' = Logged(log, VisibleEvent(r))
        /\ \E v \in {"done", "undelivered"} : task' = [task EXCEPT ![r] = v]
        /\ UNCHANGED occurrences
    BY <1>6 DEF FinishDelay, Deliver, CallInv, MutatesReply, Applied
  <2>2. Plain(log, log')
    BY <1>0, <1>2, <2>1, PlainLogged
  <2>. QED BY <1>1, <2>1, <2>2
<1>7. CASE DuplicateCall(r)
  <2>. DEFINE e == Event("request", "proxy_to_target", Duplicate(r), ToolOf[r] # NoTool)
  <2>1. /\ Replied(Call(r)) /\ chosen[r] # 0 /\ task[r] = "waiting"
        /\ log' = Logged(Logged(log, MutationEvent(r)), e)
        /\ task' = [task EXCEPT ![r] = "copy_writing"] /\ UNCHANGED occurrences
    BY <1>7 DEF DuplicateCall, MutationStarts, SendTargetRequest
  <2>2. e \in Events /\ e.direction = "proxy_to_target"
    <3>1. Duplicate(r) \in Ids /\ (ToolOf[r] # NoTool) \in BOOLEAN
      BY DEF Ids
    <3>2. e \in Events
      BY <3>1, EventType DEF EventKinds, Directions
    <3>. QED BY <3>2 DEF Event
  <2>. HIDE DEF e
  <2>3. GoodLog(Logged(log, MutationEvent(r))) /\ Plain(log, Logged(log, MutationEvent(r)))
    BY <1>0, <1>2, <2>1, PlainLogged
  <2>4. Plain(log, log')
    BY <2>1, <2>2, <2>3, PlainAgain
  <2>. QED BY <1>1, <2>1, <2>4
<1>8. CASE FinishDuplicate(r)
  <2>. DEFINE c == Event("response", "target_to_proxy", Duplicate(r), TRUE)
              w == WithMutation(r, c)
  <2>1. /\ Replied(Call(r)) /\ chosen[r] # 0 /\ task[r] = "copy_waiting"
        /\ log' = Logged(Logged(log, w), WithMutation(r, ToClient(r)))
        /\ \E v \in {"done", "undelivered"} : task' = [task EXCEPT ![r] = v]
        /\ UNCHANGED occurrences
    BY <1>8 DEF FinishDuplicate, Deliver, CallInv, MutatesReply, Applied
  <2>2. c \in Events /\ c.kind = "response"
    <3>1. Duplicate(r) \in Ids
      BY DEF Ids
    <3>2. c \in Events
      BY <3>1, EventType DEF EventKinds, Directions
    <3>. QED BY <3>2 DEF Event
  <2>. HIDE DEF c
  <2>3. w \in Events /\ w.kind = "response"
    <3>1. chosen[r] \in 1..Len(Mutations)
      <4>1. chosen[r] \in 0..Len(Mutations) /\ Len(Mutations) \in Nat
        BY ProxyAssumption DEF TypeInv, TypeOK, HandlersType
      <4>. QED BY <2>1, <4>1
    <3>2. (promise[Call(r)] # "result") \in BOOLEAN
      OBVIOUS
    <3>3. w \in Events
      BY <2>2, <3>1, <3>2, MutatedType DEF WithMutation
    <3>4. w.kind = "response"
      BY <2>2, MutatedFields DEF WithMutation
    <3>. QED BY <3>3, <3>4
  <2>. HIDE DEF w
  <2>4. GoodLog(Logged(log, w)) /\ Plain(log, Logged(log, w))
    BY <1>0, <2>3, PlainLogged
  <2>5. Plain(log, log')
    BY <1>2, <2>1, <2>4, PlainAgain
  <2>. QED BY <1>1, <2>1, <2>5
<1>9. CASE ReplyRejected(r)
  <2>1. Fail(log) /\ task' = [task EXCEPT ![r] = "failed"] /\ task[r] # "none" /\ UNCHANGED occurrences
    BY <1>9 DEF ReplyRejected
  <2>. QED BY <1>1, <2>1, FailPlain
<1>. QED BY <1>3, <1>4, <1>5, <1>6, <1>7, <1>8, <1>9 DEF Resume

LEMMA ArrivalSteps ==
    ASSUME TypeInv, CallInv, [Next]_vars
    PROVE  Stays \/ \E m \in Messages : Arrives(m)
<1>0. GoodLog(log) /\ task \in [ClientLines -> TaskStates]
  BY TaskFacts DEF TypeInv, TypeOK, GoodLog
<1>1. ASSUME UNCHANGED <<log, task, occurrences>> PROVE Stays
  BY <1>1 DEF Stays, Plain
<1>2. ASSUME Fail(log), UNCHANGED <<task, occurrences>> PROVE Stays
  BY <1>2, FailPlain DEF Stays
<1>3. ASSUME NEW e \in Events, log' = Logged(log, e),
             ~(e.kind = "request" /\ e.direction = "client_to_proxy"),
             UNCHANGED <<task, occurrences>>
      PROVE  Stays
  BY <1>0, <1>3, PlainLogged DEF Stays
<1>4. ASSUME NEW k \in Keys, NEW outcome \in {"result", "error"}, TargetAnswers(k, outcome)
      PROVE  Stays
  <2>1. k \in Ids /\ (ToolOf[k.of] # NoTool) \in BOOLEAN
    BY DEF Keys, Ids
  <2>2. PICK p \in BOOLEAN : log' = Logged(log, Event("response", "target_to_proxy", k, p))
    BY <1>4, <2>1 DEF TargetAnswers
  <2>. DEFINE e == Event("response", "target_to_proxy", k, p)
  <2>3. e \in Events /\ e.kind = "response"
    <3>1. e \in Events
      BY <2>1, EventType DEF EventKinds, Directions
    <3>. QED BY <3>1 DEF Event
  <2>4. UNCHANGED <<task, occurrences>>
    BY <1>4 DEF TargetAnswers, handlers
  <2>. HIDE DEF e
  <2>. QED BY <1>3, <2>2, <2>3, <2>4 DEF e
<1>5. ASSUME NEW t \in ServerRequests \cup ServerNotifications, TargetSends(t) PROVE Stays
  <2>. DEFINE e == Event("request", "target_to_proxy", Call(t), FALSE)
  <2>1. e \in Events /\ e.direction = "target_to_proxy"
    <3>1. Call(t) \in Ids
      BY DEF Ids
    <3>2. e \in Events
      BY <3>1, EventType DEF EventKinds, Directions
    <3>. QED BY <3>2 DEF Event
  <2>2. /\ \/ log' = Logged(log, e)
           \/ log' = Logged(Logged(log, e), TransportError)
        /\ UNCHANGED <<task, occurrences>>
    BY <1>5 DEF TargetSends, Fail, handlers
  <2>3. TransportError \in Events /\ TransportError.kind = "transport_error"
    <3>1. TransportError \in Events
      BY ErrorEvent
    <3>2. TransportError.kind = "transport_error"
      BY DEF TransportError, Event
    <3>. QED BY <3>1, <3>2
  <2>. HIDE DEF e
  <2>4. GoodLog(Logged(log, e)) /\ Plain(log, Logged(log, e))
    BY <1>0, <2>1, PlainLogged
  <2>5. Plain(log, log')
    BY <2>2, <2>3, <2>4, PlainAgain
  <2>6. task' = task /\ UNCHANGED occurrences
    BY <2>2
  <2>7. \A n \in Messages : task'[n] # "none" <=> task[n] # "none"
    BY <2>6
  <2>. QED BY <2>5, <2>6, <2>7 DEF Stays
<1>6. ASSUME NEW c \in StderrChunks, TargetWritesStderr(c) PROVE Stays
  <2>. DEFINE e == Event("stderr", "none", Call(c), FALSE)
  <2>1. e \in Events /\ e.kind = "stderr"
    <3>1. Call(c) \in Ids
      BY DEF Ids
    <3>2. e \in Events
      BY <3>1, EventType DEF EventKinds, Directions
    <3>. QED BY <3>2 DEF Event
  <2>2. log' = Logged(log, e) /\ UNCHANGED <<task, occurrences>>
    BY <1>6 DEF TargetWritesStderr, handlers
  <2>. HIDE DEF e
  <2>. QED BY <1>3, <2>1, <2>2
<1>7. CASE TargetLine
  BY <1>4, <1>5, <1>6, <1>7 DEF TargetLine
<1>8. CASE WriteLine \/ WriteDrains \/ WriteFails
  <2>. DEFINE h == Head(chain)
              e == Event("request", "proxy_to_target", h, FALSE)
  <2>1. chain # <<>>
    BY <1>8 DEF WriteLine, WriteDrains, WriteFails, CallInv, DrainsHead
  <2>2. /\ h \in Frames /\ h \in Ids /\ h.of \in ClientLines /\ task[h.of] # "none"
    <3>1. h \in Queued
      BY <2>1, HeadFacts
    <3>. QED BY <3>1, TaskFacts DEF Frames, Ids
  <2>3. e \in Events /\ e.direction = "proxy_to_target"
    <3>1. e \in Events
      BY <2>2, EventType DEF EventKinds, Directions
    <3>. QED BY <3>1 DEF Event
  <2>4. Plain(log, log')
    <3>1. CASE WriteFails
      BY <3>1, FailPlain DEF WriteFails
    <3>2. CASE WriteLine \/ WriteDrains
      <4>1. log' = log \/ log' = Logged(log, e)
        BY <3>2 DEF WriteLine, WriteDrains, Written
      <4>2. Plain(log, log)
        BY DEF Plain
      <4>. HIDE DEF e
      <4>. QED BY <1>0, <2>3, <4>1, <4>2, PlainLogged
    <3>. QED BY <1>8, <3>1, <3>2
  <2>5. UNCHANGED occurrences /\ \E v \in {"failed", Waiting(h)} : task' = [task EXCEPT ![h.of] = v]
    BY <1>8 DEF WriteLine, WriteDrains, WriteFails, Written
  <2>6. Waiting(h) # "none"
    BY DEF Waiting
  <2>. HIDE DEF h
  <2>7. \A n \in Messages : task'[n] # "none" <=> task[n] # "none"
    BY <1>0, <2>2, <2>5, <2>6 DEF Messages
  <2>. QED BY <2>4, <2>5, <2>7 DEF Stays
<1>9. CASE WriteBlocks
  BY <1>1, <1>9 DEF WriteBlocks, handlers
<1>10. ASSUME NEW r \in Requests, Resume(r) \/ FinishDelay(r) PROVE Stays
  BY <1>10, ReplyStays
<1>11. CASE InvalidLine \/ RunTimeout
  BY <1>2, <1>11 DEF InvalidLine, RunTimeout, handlers
<1>12. CASE TargetCloses
  BY <1>1, <1>2, <1>12 DEF TargetCloses, handlers
<1>13. CASE MainDrains \/ MainCloses \/ MainRejects \/ MainHashes \/ MainPersists \/ MainReturns
  BY <1>1, <1>13 DEF MainDrains, MainCloses, MainRejects, MainHashes, MainPersists, MainReturns,
     handlers
<1>14. CASE \/ ClientEnds \/ TargetExits \/ Interrupt \/ InterruptAgain
            \/ CloserTerminates \/ CloserKills \/ UNCHANGED vars
  BY <1>1, <1>14 DEF ClientEnds, TargetExits, Interrupt, InterruptAgain, CloserTerminates,
     CloserKills, handlers, vars
<1>15. ASSUME NEW k \in Keys, RequestTimeout(k) PROVE Stays
  BY <1>1, <1>15 DEF RequestTimeout, handlers
<1>16. ASSUME NEW m \in Messages, DeliveryFails(m) PROVE Stays
  <2>1. /\ Fail(log) /\ UNCHANGED occurrences
        /\ task[m] # "none" /\ task' = [task EXCEPT ![m] = "failed"]
    BY <1>16 DEF DeliveryFails
  <2>2. \A n \in Messages : task'[n] # "none" <=> task[n] # "none"
    BY <1>0, <2>1 DEF Messages
  <2>. QED BY <2>1, <2>2, FailPlain DEF Stays
<1>. QED
  BY <1>7, <1>8, <1>9, <1>10, <1>11, <1>12, <1>13, <1>14, <1>15, <1>16, ClientLineArrives
  DEF Next, Prompt, Turn, Terminated, Messages

\* While the capture is whole, it holds exactly the messages that arrived, ...
ArrivedOnce ==
    ~log.truncated =>
        \A m \in Messages : IF task[m] = "none" THEN ArrivedAt(m) = {}
                            ELSE \E p \in DOMAIN log.events : ArrivedAt(m) = {p}

\* ... and the counters of the tools count them.
StartedOf(t) == {n \in Messages : ToolOf[n] = t /\ task[n] # "none"}
Counted == \A t \in Tools : IsFiniteSet(StartedOf(t)) /\ Cardinality(StartedOf(t)) = occurrences[t]

RankInv == ArrivedOnce /\ Counted /\ MutationOfRank

\* What comes before a message is known when it arrives, and stays.
LEMMA BeforeSteps ==
    ASSUME TypeInv, TypeInv', CallInv, ArrivedOnce, ~log'.truncated, [Next]_vars
    PROVE  /\ ~log.truncated /\ ArrivedOnce'
           /\ \/ /\ Stays
                 /\ \A n, m \in Messages : Before(n, m)' <=> Before(n, m)
              \/ \E a \in Messages :
                    /\ Arrives(a)
                    /\ \A n, m \in Messages : Before(n, m)' <=>
                          IF m = a THEN n # a /\ task[n] # "none" ELSE Before(n, m)
<1>1. /\ DOMAIN log.events = 1..Len(log.events) /\ Len(log.events) \in Nat
      /\ DOMAIN log'.events = 1..Len(log'.events) /\ Len(log'.events) \in Nat
  <2>1. /\ log.events \in Seq([sequence: Nat, event: Events])
        /\ log'.events \in Seq([sequence: Nat, event: Events])
    BY DEF TypeInv, TypeOK, LogOf
  <2>. QED BY <2>1
<1>2. \A m \in Messages : ArrivedAt(m)' \subseteq DOMAIN log'.events
  BY DEF ArrivedAt
<1>3. CASE Stays
  <2>1. ~log.truncated /\ \A m \in Messages : ArrivedAt(m)' = ArrivedAt(m)
    BY <1>3, ArrivedIsArrivals DEF Stays, Plain
  <2>2. ArrivedOnce'
    <3>1. ASSUME NEW m \in Messages
          PROVE  IF task'[m] = "none" THEN ArrivedAt(m)' = {}
                 ELSE \E p \in DOMAIN log'.events : ArrivedAt(m)' = {p}
      <4>1. task'[m] = "none" <=> task[m] = "none"
        BY <1>3 DEF Stays
      <4>2. CASE task[m] = "none"
        BY <2>1, <4>1, <4>2 DEF ArrivedOnce
      <4>3. CASE task[m] # "none"
        <5>1. PICK p \in DOMAIN log.events : ArrivedAt(m) = {p}
          BY <2>1, <4>3 DEF ArrivedOnce
        <5>2. ArrivedAt(m)' = {p} /\ p \in DOMAIN log'.events
          BY <1>2, <2>1, <5>1
        <5>. QED BY <4>1, <4>3, <5>2
      <4>. QED BY <4>2, <4>3
    <3>. QED BY <3>1 DEF ArrivedOnce
  <2>3. \A n, m \in Messages : Before(n, m)' <=> Before(n, m)
    BY <2>1 DEF Before
  <2>. QED BY <1>3, <2>1, <2>2, <2>3
<1>4. ASSUME NEW a \in Messages, Arrives(a)
      PROVE  /\ ~log.truncated /\ ArrivedOnce'
             /\ \A n, m \in Messages : Before(n, m)' <=>
                   IF m = a THEN n # a /\ task[n] # "none" ELSE Before(n, m)
  <2>. DEFINE last == Len(log.events) + 1
  <2>1. /\ ~log.truncated
        /\ \A n \in Messages :
              ArrivedAt(n)' = IF n = a THEN ArrivedAt(n) \cup {last} ELSE ArrivedAt(n)
        /\ task[a] = "none"
        /\ \A n \in Messages : task'[n] # "none" <=> task[n] # "none" \/ n = a
    BY <1>4 DEF Arrives
  <2>2. /\ ArrivedAt(a) = {} /\ ArrivedAt(a)' = {last}
        /\ \A n \in Messages : n # a => ArrivedAt(n)' = ArrivedAt(n)
    BY <2>1 DEF ArrivedOnce
  <2>3. ArrivedOnce'
    <3>1. ASSUME NEW m \in Messages
          PROVE  IF task'[m] = "none" THEN ArrivedAt(m)' = {}
                 ELSE \E p \in DOMAIN log'.events : ArrivedAt(m)' = {p}
      <4>1. CASE m = a
        BY <1>2, <2>1, <2>2, <4>1
      <4>2. CASE m # a /\ task[m] = "none"
        BY <2>1, <2>2, <4>2 DEF ArrivedOnce
      <4>3. CASE m # a /\ task[m] # "none"
        <5>1. PICK p \in DOMAIN log.events : ArrivedAt(m) = {p}
          BY <2>1, <4>3 DEF ArrivedOnce
        <5>2. ArrivedAt(m)' = {p} /\ p \in DOMAIN log'.events
          BY <1>2, <2>2, <4>3, <5>1
        <5>. QED BY <2>1, <4>3, <5>2
      <4>. QED BY <4>1, <4>2, <4>3
    <3>. QED BY <3>1 DEF ArrivedOnce
  <2>4. last \in Nat /\ \A i \in DOMAIN log.events : i \in Nat /\ i < last
    BY <1>1
  <2>. HIDE DEF last
  <2>5. \A n \in Messages : /\ \A i \in ArrivedAt(n) : i \in Nat /\ i < last
                            /\ task[n] # "none" <=> ArrivedAt(n) # {}
    BY <2>1, <2>4 DEF ArrivedOnce
  <2>6. ASSUME NEW n \in Messages, NEW m \in Messages
        PROVE  Before(n, m)' <=> IF m = a THEN n # a /\ task[n] # "none" ELSE Before(n, m)
    <3>0. Before(n, m)' <=> \E i \in ArrivedAt(n)', j \in ArrivedAt(m)' : i < j
      BY DEF Before
    <3>1. CASE m = a /\ n = a
      BY <2>2, <2>4, <3>0, <3>1
    <3>2. CASE m = a /\ n # a
      BY <2>2, <2>5, <3>0, <3>2
    <3>3. CASE m # a /\ n = a
      <4>1. ~Before(n, m)
        BY <2>2, <3>3 DEF Before
      <4>2. \A i \in ArrivedAt(n)', j \in ArrivedAt(m)' : ~(i < j)
        BY <2>2, <2>4, <2>5, <3>3
      <4>. QED BY <3>0, <3>3, <4>1, <4>2
    <3>4. CASE m # a /\ n # a
      BY <2>2, <3>0, <3>4 DEF Before
    <3>. QED BY <3>1, <3>2, <3>3, <3>4
  <2>. QED BY <2>1, <2>3, <2>6
<1>. QED BY <1>3, <1>4, ArrivalSteps

\* The counters count.
LEMMA CountStep ==
    ASSUME TypeInv, CallInv, Counted, [Next]_vars
    PROVE  Counted'
<1>1. CASE Stays
  <2>1. \A t : StartedOf(t)' = StartedOf(t)
    BY <1>1 DEF Stays, StartedOf
  <2>. QED BY <1>1, <2>1 DEF Stays, Counted
<1>2. ASSUME NEW a \in Messages, Arrives(a) PROVE Counted'
  <2>. SUFFICES ASSUME NEW t \in Tools
                PROVE  IsFiniteSet(StartedOf(t)') /\ Cardinality(StartedOf(t)') = occurrences'[t]
    BY DEF Counted
  <2>. DEFINE S == StartedOf(t)
  <2>1. /\ task[a] = "none"
        /\ \A n \in Messages : task'[n] # "none" <=> task[n] # "none" \/ n = a
        /\ occurrences' = IF ToolOf[a] = NoTool THEN occurrences
                          ELSE [occurrences EXCEPT ![ToolOf[a]] = @ + 1]
        /\ occurrences \in [Tools -> Nat] /\ NoTool \notin Tools
    BY <1>2, ProxyAssumption DEF Arrives, TypeInv, TypeOK, HandlersType
  <2>2. IsFiniteSet(S) /\ Cardinality(S) = occurrences[t]
    BY DEF Counted
  <2>3. CASE ToolOf[a] = t
    <3>1. StartedOf(t)' = S \cup {a} /\ a \notin S
      BY <2>1, <2>3 DEF StartedOf
    <3>2. occurrences'[t] = occurrences[t] + 1
      BY <2>1, <2>3
    <3>. HIDE DEF S
    <3>. QED BY <2>2, <3>1, <3>2, FS_AddElement
  <2>4. CASE ToolOf[a] # t
    <3>1. StartedOf(t)' = S
      BY <2>1, <2>4 DEF StartedOf
    <3>2. occurrences'[t] = occurrences[t]
      BY <2>1, <2>4
    <3>. QED BY <2>2, <3>1, <3>2
  <2>. QED BY <2>3, <2>4
<1>. QED BY <1>1, <1>2, ArrivalSteps

\* A message keeps the mutation of its rank.
LEMMA RankStep ==
    ASSUME TypeInv, TypeInv', CallInv, RankInv, [Next]_vars
    PROVE  RankInv'
<1>1. Counted'
  BY CountStep DEF RankInv
<1>2. ASSUME log'.truncated PROVE ArrivedOnce' /\ MutationOfRank'
  BY <1>2 DEF ArrivedOnce, MutationOfRank
<1>3. ASSUME ~log'.truncated PROVE ArrivedOnce' /\ MutationOfRank'
  <2>. DEFINE E(m) == {n \in Messages : ToolOf[n] = ToolOf[m] /\ Before(n, m)}
              F(m) == {n \in Messages : ToolOf[n] = ToolOf[m] /\ Before(n, m)'}
  <2>1. ~log.truncated /\ ArrivedOnce'
    BY <1>3, BeforeSteps DEF RankInv
  <2>2. SUFFICES ASSUME NEW m \in Messages, ArrivedAt(m)' # {}, ToolOf[m] # NoTool
                 PROVE  chosen'[m] = MutationFor(ToolOf[m], 1 + Cardinality(F(m)))
    BY <2>1 DEF MutationOfRank, Messages
  <2>3. ASSUME ArrivedAt(m) # {}, F(m) = E(m)
        PROVE  chosen'[m] = MutationFor(ToolOf[m], 1 + Cardinality(F(m)))
    <3>1. chosen[m] = MutationFor(ToolOf[m], 1 + Cardinality(E(m)))
      BY <2>1, <2>2, <2>3 DEF RankInv, MutationOfRank, Messages
    <3>2. task[m] # "none"
      BY <2>1, <2>3 DEF RankInv, ArrivedOnce
    <3>3. chosen'[m] = chosen[m]
      BY <3>2, ChosenSteps DEF Messages
    <3>. HIDE DEF E, F
    <3>. QED BY <2>3, <3>1, <3>3
  <2>4. CASE Stays /\ \A n, k \in Messages : Before(n, k)' <=> Before(n, k)
    <3>1. F(m) = E(m)
      BY <2>4
    <3>2. ArrivedAt(m)' = ArrivedAt(m)
      BY <2>4, ArrivedIsArrivals DEF Stays, Plain
    <3>. HIDE DEF E, F
    <3>. QED BY <2>2, <2>3, <3>1, <3>2
  <2>5. ASSUME NEW a \in Messages, Arrives(a),
               \A n, k \in Messages : Before(n, k)' <=>
                   IF k = a THEN n # a /\ task[n] # "none" ELSE Before(n, k)
        PROVE  chosen'[m] = MutationFor(ToolOf[m], 1 + Cardinality(F(m)))
    <3>1. CASE m # a
      <4>1. F(m) = E(m)
        BY <2>5, <3>1
      <4>2. ArrivedAt(m)' = ArrivedAt(m)
        BY <1>3, <2>5, <3>1 DEF Arrives
      <4>. HIDE DEF E, F
      <4>. QED BY <2>2, <2>3, <4>1, <4>2
    <3>2. CASE m = a
      <4>1. task[m] = "none" /\ chosen'[m] = Selected(m)
        BY <2>5, <3>2 DEF Arrives
      <4>2. F(m) = StartedOf(ToolOf[m])
        BY <2>5, <3>2, <4>1 DEF StartedOf
      <4>3. ToolOf[m] \in Tools
        BY <2>2, ProxyAssumption DEF Messages
      <4>4. Cardinality(F(m)) = occurrences[ToolOf[m]]
        BY <4>2, <4>3 DEF RankInv, Counted
      <4>5. occurrences[ToolOf[m]] \in Nat
        BY <4>3 DEF TypeInv, TypeOK, HandlersType
      <4>6. occurrences[ToolOf[m]] + 1 = 1 + occurrences[ToolOf[m]]
        BY <4>5
      <4>7. Selected(m) = MutationFor(ToolOf[m], 1 + occurrences[ToolOf[m]])
        BY <2>2, <4>6 DEF Selected
      <4>. HIDE DEF F
      <4>. QED BY <4>1, <4>4, <4>7
    <3>. QED BY <3>1, <3>2
  <2>. HIDE DEF F
  <2>. QED BY <1>3, <2>4, <2>5, BeforeSteps DEF RankInv
<1>. QED BY <1>1, <1>2, <1>3 DEF RankInv

Precedes == {p \in Messages \X Messages : Before(p[1], p[2])}

\* Of two messages of the client, the one comes before the other.
InLine(order, f, g) ==
    {f, g} \subseteq [of: Messages, copy: {FALSE}] => <<f.of, g.of>> \in order

\* What the target read, what is still to be written and what is queued are each in
\* the order of arrival, and what was read comes before what is to be written.
OrderInv ==
    ~log.truncated =>
        /\ \A j \in DOMAIN received : \A i \in 1..(j - 1) : InLine(Precedes, received[i], received[j])
        /\ \A j \in DOMAIN chain : \A i \in 1..(j - 1) : InLine(Precedes, chain[i], chain[j])
        /\ \A f \in Read, g \in Queued : g \notin Read => InLine(Precedes, f, g)

\* The order of two messages that have arrived stays; a new one comes after them.
LEMMA OrderStays ==
    ASSUME TypeInv, TypeInv', CallInv, ArrivedOnce, ~log'.truncated, [Next]_vars
    PROVE  /\ \A f, g : InLine(Precedes, f, g) => InLine(Precedes', f, g)
           /\ \A f, g : task[f.of] # "none" /\ task[g.of] = "none" /\ task'[g.of] # "none" =>
                  InLine(Precedes', f, g)
<1>1. \A n, m \in Messages : Before(n, m) => Before(n, m)' 
  <2>1. ASSUME NEW a \in Messages, Arrives(a) PROVE ArrivedAt(a) = {} /\ ~log.truncated
    BY <2>1 DEF Arrives, ArrivedOnce
  <2>2. \A a, n \in Messages : Arrives(a) => ~Before(n, a)
    BY <2>1 DEF Before
  <2>. QED BY <2>2, BeforeSteps
<1>2. \A f, g : InLine(Precedes, f, g) => InLine(Precedes', f, g)
  BY <1>1 DEF InLine, Precedes
<1>3. ASSUME NEW f, NEW g, task[f.of] # "none", task[g.of] = "none", task'[g.of] # "none"
      PROVE  InLine(Precedes', f, g)
  <2>. SUFFICES ASSUME f.of \in Messages, g.of \in Messages PROVE Before(f.of, g.of)'
    BY DEF InLine, Precedes
  <2>. DEFINE x == f.of
              y == g.of
  <2>1. ~Stays
    BY <1>3 DEF Stays
  <2>2. PICK a \in Messages :
            /\ Arrives(a)
            /\ \A n, m \in Messages : Before(n, m)' <=>
                  IF m = a THEN n # a /\ task[n] # "none" ELSE Before(n, m)
    BY <2>1, BeforeSteps
  <2>3. y = a /\ x # a
    BY <1>3, <2>2 DEF Arrives
  <2>4. task[x] # "none" /\ x \in Messages /\ y \in Messages
    BY <1>3
  <2>. HIDE DEF x, y
  <2>5. Before(x, y)'
    BY <2>2, <2>3, <2>4
  <2>. QED BY <2>5 DEF x, y
<1>. QED BY <1>2, <1>3

LEMMA OrderStep ==
    ASSUME TypeInv, TypeInv', CallInv, FramesInv, ArrivedOnce, OrderInv, [Next]_vars
    PROVE  OrderInv'
<1>. SUFFICES ASSUME ~log'.truncated
     PROVE  /\ \A j \in DOMAIN received' : \A i \in 1..(j - 1) :
                  InLine(Precedes', received'[i], received'[j])
            /\ \A j \in DOMAIN chain' : \A i \in 1..(j - 1) : InLine(Precedes', chain'[i], chain'[j])
            /\ \A f \in Read', g \in Queued' : g \notin Read' => InLine(Precedes', f, g)
  BY DEF OrderInv
<1>. DEFINE ReadOrder == \A j \in DOMAIN received' : \A i \in 1..(j - 1) :
                            InLine(Precedes', received'[i], received'[j])
            ChainOrder == \A j \in DOMAIN chain' : \A i \in 1..(j - 1) :
                            InLine(Precedes', chain'[i], chain'[j])
            LineOrder == \A f \in Read', g \in Queued' : g \notin Read' => InLine(Precedes', f, g)
<1>1. /\ \A j \in DOMAIN received : \A i \in 1..(j - 1) : InLine(Precedes', received[i], received[j])
      /\ \A j \in DOMAIN chain : \A i \in 1..(j - 1) : InLine(Precedes', chain[i], chain[j])
      /\ \A f \in Read, g \in Queued : g \notin Read => InLine(Precedes', f, g)
  <2>1. ~log.truncated
    BY BeforeSteps
  <2>2. \A f, g : InLine(Precedes, f, g) => InLine(Precedes', f, g)
    BY OrderStays
  <2>. QED BY <2>1, <2>2 DEF OrderInv
<1>2. /\ DOMAIN received = 1..Len(received) /\ Len(received) \in Nat
      /\ DOMAIN chain = 1..Len(chain) /\ Len(chain) \in Nat
      /\ chain \in Seq(Frames) /\ received \in Seq(Frames)
  BY TaskFacts
<1>3. ASSUME UNCHANGED <<chain, received>> PROVE ReadOrder /\ ChainOrder /\ LineOrder
  BY <1>1, <1>3 DEF Queued, Read
<1>4. ASSUME chain # <<>>, chain' = Tail(chain), Queued' \subseteq Queued PROVE ChainOrder
  <2>. SUFFICES ASSUME NEW j \in DOMAIN chain', NEW i \in 1..(j - 1)
                PROVE  InLine(Precedes', chain'[i], chain'[j])
    OBVIOUS
  <2>1. /\ j + 1 \in DOMAIN chain /\ i + 1 \in 1..((j + 1) - 1)
        /\ chain'[j] = chain[j + 1] /\ chain'[i] = chain[i + 1]
    <3>1. DOMAIN chain' = 1..(Len(chain) - 1) /\ \A k \in 1..(Len(chain) - 1) : chain'[k] = chain[k + 1]
      BY <1>2, <1>4
    <3>2. j \in 1..(Len(chain) - 1) /\ i \in 1..(Len(chain) - 1)
      BY <1>2, <3>1
    <3>. QED BY <1>2, <3>1, <3>2
  <2>2. InLine(Precedes', chain[i + 1], chain[j + 1])
    BY <1>1, <2>1
  <2>. QED BY <2>1, <2>2
<1>5. ASSUME NEW f \in Frames, Queues(f) PROVE ReadOrder /\ ChainOrder /\ LineOrder
  <2>1. /\ Queued' = Queued \cup {f} /\ Read' = Read /\ received' = received
        /\ chain' = Append(chain, f)
    BY <1>5, QueuesMoves DEF Queues
  <2>2. ASSUME NEW x \in Read \cup Queued PROVE InLine(Precedes', x, f)
    <3>1. CASE f.copy
      <4>1. f \notin [of: Messages, copy: {FALSE}]
        BY <3>1
      <4>. QED BY <4>1 DEF InLine
    <3>2. CASE ~f.copy
      <4>1. task[f.of] = "none"
        BY <1>5, <3>2 DEF Queues
      <4>2. task'[f.of] # "none"
        <5>1. task' = [task EXCEPT ![f.of] = "writing"] /\ f.of \in ClientLines
          BY <1>5, <3>2 DEF Queues, Frames
        <5>. QED BY <5>1, TaskFacts
      <4>3. task[x.of] # "none"
        BY TaskFacts DEF FramesInv, ReadIsStarted
      <4>. QED BY <4>1, <4>2, <4>3, OrderStays
    <3>. QED BY <3>1, <3>2
  <2>3. ReadOrder
    BY <1>1, <2>1
  <2>4. ChainOrder
    <3>. SUFFICES ASSUME NEW j \in DOMAIN chain', NEW i \in 1..(j - 1)
                  PROVE  InLine(Precedes', chain'[i], chain'[j])
      OBVIOUS
    <3>1. /\ DOMAIN chain' = 1..(Len(chain) + 1) /\ chain'[Len(chain) + 1] = f
          /\ \A k \in 1..Len(chain) : chain'[k] = chain[k]
      BY <1>2, <2>1
    <3>2. i \in 1..Len(chain) /\ (j \in 1..Len(chain) \/ j = Len(chain) + 1)
      BY <1>2, <3>1
    <3>3. chain[i] \in Queued
      BY <1>2, <3>2 DEF Queued, Range
    <3>4. CASE j \in 1..Len(chain)
      BY <1>1, <1>2, <3>1, <3>2, <3>4
    <3>5. CASE j = Len(chain) + 1
      BY <2>2, <3>1, <3>2, <3>3, <3>5
    <3>. QED BY <3>2, <3>4, <3>5
  <2>5. LineOrder
    BY <1>1, <2>1, <2>2
  <2>. QED BY <2>3, <2>4, <2>5
<1>6. CASE Writes
  <2>. DEFINE h == Head(chain)
  <2>1. /\ chain # <<>> /\ Read' = Read \cup {h} /\ Queued' \subseteq Queued
        /\ h \in Queued /\ h \in Frames /\ h = chain[1]
    <3>1. chain # <<>> /\ HeadIsRead
      BY <1>6 DEF Writes, FramesInv
    <3>2. h = chain[1]
      BY <1>2, <3>1
    <3>. QED BY <1>6, <3>1, <3>2, WritesMoves, HeadFacts, TaskFacts
  <2>2. ChainOrder
    <3>1. CASE chain' = chain
      BY <1>1, <3>1
    <3>2. CASE chain' = Tail(chain)
      BY <1>4, <2>1, <3>2
    <3>. QED BY <1>6, <3>1, <3>2 DEF Writes
  <2>3. ReadOrder
    <3>1. CASE received' = received
      BY <1>1, <3>1
    <3>2. CASE ~draining /\ received' = Append(received, h)
      <4>1. h \notin Read
        BY <2>1, <3>2 DEF FramesInv, HeadIsRead
      <4>. SUFFICES ASSUME NEW j \in DOMAIN received', NEW i \in 1..(j - 1)
                    PROVE  InLine(Precedes', received'[i], received'[j])
        OBVIOUS
      <4>. HIDE DEF h
      <4>2. /\ DOMAIN received' = 1..(Len(received) + 1) /\ received'[Len(received) + 1] = h
            /\ \A k \in 1..Len(received) : received'[k] = received[k]
        BY <1>2, <2>1, <3>2
      <4>3. i \in 1..Len(received) /\ (j \in 1..Len(received) \/ j = Len(received) + 1)
        BY <1>2, <4>2
      <4>4. received[i] \in Read
        BY <1>2, <4>3 DEF Read, Range
      <4>5. CASE j \in 1..Len(received)
        BY <1>1, <1>2, <4>2, <4>3, <4>5
      <4>6. CASE j = Len(received) + 1
        BY <1>1, <2>1, <4>1, <4>2, <4>3, <4>4, <4>6
      <4>. QED BY <4>3, <4>5, <4>6
    <3>. QED BY <1>6, <3>1, <3>2 DEF Writes
  <2>4. LineOrder
    <3>. SUFFICES ASSUME NEW f \in Read', NEW g \in Queued', g \notin Read' PROVE InLine(Precedes', f, g)
      OBVIOUS
    <3>1. g \in Queued /\ g \notin Read /\ g # h /\ (f \in Read \/ f = h)
      BY <2>1
    <3>2. CASE f \in Read
      BY <1>1, <3>1, <3>2
    <3>3. CASE f = h
      <4>1. PICK j \in DOMAIN chain : chain[j] = g
        BY <3>1 DEF Queued, Range
      <4>2. j # 1 /\ 1 \in 1..(j - 1)
        BY <1>2, <2>1, <3>1, <4>1
      <4>. HIDE DEF h
      <4>. QED BY <1>1, <2>1, <3>3, <4>1, <4>2
    <3>. QED BY <3>1, <3>2, <3>3
  <2>. QED BY <2>2, <2>3, <2>4
<1>7. CASE Breaks
  <2>1. chain # <<>> /\ chain' = Tail(chain) /\ received' = received /\ Read' = Read
    BY <1>7 DEF Breaks, Read
  <2>2. Queued' \subseteq Queued
    BY <2>1, HeadFacts DEF Queued
  <2>. QED BY <1>1, <1>4, <2>1, <2>2
<1>8. CASE Continues \/ Listens \/ \E m \in Requests \cup Notifications : Denies(m) \/ Loses(m)
  BY <1>3, <1>8 DEF Continues, Listens, Denies, Loses
<1>. QED BY <1>5, <1>6, <1>7, <1>8, Steps

LEMMA RankInvariance == Spec => [](RankInv /\ OrderInv)
<1>1. Init => RankInv /\ OrderInv
  <2>. SUFFICES ASSUME Init PROVE RankInv /\ OrderInv
    OBVIOUS
  <2>1. /\ log.events = <<>> /\ chain = <<>> /\ received = <<>>
        /\ \A m \in Messages : task[m] = "none"
        /\ \A t \in Tools : occurrences[t] = 0
    BY DEF Init, Messages, EmptyLog
  <2>2. \A m : ArrivedAt(m) = {}
    BY <2>1 DEF ArrivedAt
  <2>3. \A t \in Tools : StartedOf(t) = {}
    BY <2>1 DEF StartedOf
  <2>4. ArrivedOnce /\ MutationOfRank
    BY <2>1, <2>2 DEF ArrivedOnce, MutationOfRank
  <2>5. Counted
    BY <2>1, <2>3, FS_EmptySet DEF Counted
  <2>6. OrderInv
    BY <2>1 DEF OrderInv, Read, Queued, Range
  <2>. QED BY <2>4, <2>5, <2>6 DEF RankInv
<1>2. TypeInv /\ TypeInv' /\ CallInv /\ FramesInv /\ RankInv /\ OrderInv /\ [Next]_vars
         => RankInv' /\ OrderInv'
  BY RankStep, OrderStep DEF RankInv
<1>. QED BY <1>1, <1>2, FramesInvariance, PTL DEF Spec

\* Calls keep their rank: the mutation of a call is the one declared for its place
\* among the calls of its tool, and the target reads the calls in the order in
\* which they came, although each has its own asynchronous handler
\* (handleClientMessage, mutationFor and writeTarget).
THEOREM RanksAreKept == Spec => []CallsKeepRank
<1>1. RankInv /\ OrderInv => CallsKeepRank
  <2>. SUFFICES ASSUME RankInv, OrderInv PROVE MutationOfRank /\ OrderPreserved
    BY DEF CallsKeepRank
  <2>. QED BY DEF RankInv, OrderInv, OrderPreserved, InLine, Precedes, Messages
<1>. QED BY <1>1, RankInvariance, PTL

-------------------------------------------------------------------------------
(* The events of the capture, one by one.                                  *)

\* l2 is l after the events E, each of them once.
Prolongs(l, l2, E) ==
    /\ DOMAIN l.events \subseteq DOMAIN l2.events
    /\ \A i \in DOMAIN l.events : l2.events[i] = l.events[i]
    /\ \A i \in DOMAIN l2.events \ DOMAIN l.events :
          l2.events[i].event \in E /\ \A j \in DOMAIN l.events : j < i
    /\ \A i, j \in DOMAIN l2.events \ DOMAIN l.events :
          l2.events[i].event = l2.events[j].event => i = j
    /\ l.truncated => l2.truncated
    /\ ~l2.truncated => \A e \in E : \E i \in DOMAIN l2.events : l2.events[i].event = e

LEMMA ProlongsMore ==
    ASSUME NEW l, GoodLog(l), NEW l2, GoodLog(l2), NEW E, Prolongs(l, l2, E),
           NEW e \in Events, e \notin E
    PROVE  GoodLog(Logged(l2, e)) /\ Prolongs(l, Logged(l2, e), E \cup {e})
<1>. DEFINE l3 == Logged(l2, e)
<1>1. /\ GoodLog(l3) /\ DOMAIN l2.events = 1..Len(l2.events) /\ Len(l2.events) \in Nat
      /\ l2.truncated => l3.truncated
      /\ \/ l3.events = l2.events /\ l3.truncated
         \/ /\ DOMAIN l3.events = 1..(Len(l2.events) + 1)
            /\ \A i \in 1..Len(l2.events) : l3.events[i] = l2.events[i]
            /\ l3.events[Len(l2.events) + 1].event = e
  BY LoggedEvents
<1>. HIDE DEF l3
<1>2. CASE l3.events = l2.events /\ l3.truncated
  BY <1>1, <1>2 DEF Prolongs, l3
<1>3. CASE /\ DOMAIN l3.events = 1..(Len(l2.events) + 1)
           /\ \A i \in 1..Len(l2.events) : l3.events[i] = l2.events[i]
           /\ l3.events[Len(l2.events) + 1].event = e
  <2>. DEFINE last == Len(l2.events) + 1
              D == DOMAIN l.events
              D2 == DOMAIN l2.events
              D3 == DOMAIN l3.events
  <2>1. /\ D3 = D2 \cup {last} /\ last \notin D2 /\ \A j \in D2 : j < last
        /\ \A i \in D2 : l3.events[i] = l2.events[i]
        /\ l3.events[last].event = e
    BY <1>1, <1>3
  <2>2. /\ D \subseteq D2
        /\ \A i \in D : l2.events[i] = l.events[i]
        /\ \A i \in D2 \ D : l2.events[i].event \in E /\ \A j \in D : j < i
        /\ \A i, j \in D2 \ D : l2.events[i].event = l2.events[j].event => i = j
        /\ l.truncated => l2.truncated
        /\ ~l2.truncated => \A d \in E : \E i \in D2 : l2.events[i].event = d
    BY DEF Prolongs
  <2>. HIDE DEF last, D, D2, D3
  <2>3. \A i \in D3 \ D : l3.events[i].event \in E \cup {e} /\ \A j \in D : j < i
    BY <2>1, <2>2
  <2>4. ASSUME NEW i \in D3 \ D, NEW j \in D3 \ D, l3.events[i].event = l3.events[j].event
        PROVE  i = j
    <3>1. \A k \in D2 \ D : l3.events[k].event # e
      BY <2>1, <2>2
    <3>. QED BY <2>1, <2>2, <2>4, <3>1
  <2>5. ASSUME ~l3.truncated, NEW d \in E \cup {e}
        PROVE  \E i \in D3 : l3.events[i].event = d
    BY <1>1, <2>1, <2>2, <2>5
  <2>. QED BY <1>1, <2>1, <2>2, <2>3, <2>4, <2>5 DEF Prolongs, D, D2, D3, l3
<1>. QED BY <1>1, <1>2, <1>3 DEF l3

LEMMA ProlongsNone == \A l : Prolongs(l, l, {})
BY DEF Prolongs

LEMMA ProlongsOne ==
    ASSUME NEW l, GoodLog(l), NEW e \in Events
    PROVE  GoodLog(Logged(l, e)) /\ Prolongs(l, Logged(l, e), {e})
<1>1. {} \cup {e} = {e}
  OBVIOUS
<1>2. GoodLog(Logged(l, e)) /\ Prolongs(l, Logged(l, e), {} \cup {e})
  BY ProlongsNone, ProlongsMore
<1>. QED BY <1>1, <1>2

\* What an event is about.
OfLine(e, S) == e.id.of \in S /\ e.id = Call(e.id.of)

\* The forms that requests, responses and mutations have in a capture.
Formed(e) ==
    /\ e.kind = "request" =>
          \/ e.direction = "client_to_proxy" /\ ~e.physical /\ OfLine(e, Messages)
          \/ /\ e.direction = "proxy_to_target" /\ e.id \in Keys
             /\ e.physical <=> ToolOf[e.id.of] # NoTool
          \/ e.direction = "proxy_to_target" /\ ~e.physical /\ OfLine(e, Notifications)
          \/ e.direction = "target_to_proxy" /\ OfLine(e, ServerRequests \cup ServerNotifications)
    /\ e.kind = "response" =>
          \/ e.direction = "target_to_proxy" /\ e.id \in Keys
          \/ e.direction = "proxy_to_client" /\ OfLine(e, Messages)
          \/ e.direction = "client_to_proxy" /\ e.mutation = 0 /\ OfLine(e, ServerRequests)
    /\ e.kind = "mutation" =>
          e.direction = "none" /\ e.mutation # 0 /\ OfLine(e, Messages)
    /\ e.direction = "proxy_to_client" => e.kind = "response"
    /\ e.direction = "proxy_to_target" => e.kind = "request"

\* An event tells the mutation that was chosen for its message when it arrived.
Marked(e) ==
    e.mutation # 0 =>
        e.id.of \in Messages /\ e.mutation = chosen[e.id.of] /\ task[e.id.of] # "none"

IsSend(e) == e.direction = "proxy_to_target" /\ e.id \in Keys
IsMutation(e, m) == e.kind = "mutation" /\ e.id = Call(m)

\* A step adds E to the capture.
Adds(E) == Prolongs(log, log', E) /\ \A e \in E : e \in Events /\ Formed(e) /\ Marked(e)'

\* Nothing is sent to the target and no mutation is applied, ...
Quiets(m) ==
    \/ task'[m] = task[m]
    \/ task[m] = "writing" /\ task'[m] = "failed"
    \/ /\ task[m] = "writing" /\ closer = "idle"
       /\ task'[m] = IF m \in Requests THEN "waiting" ELSE "done"
    \/ task[m] = "copy_writing" /\ task'[m] \in {"copy_waiting", "failed"}
    \/ task[m] \in {"waiting", "copy_waiting"} /\ task'[m] = "failed"
    \/ task[m] = "waiting" /\ task'[m] \in {"undelivered", "done"} /\ chosen[m] = 0
    \/ task[m] = "undelivered" /\ task'[m] = "failed"
Quietly(E) ==
    /\ \A e \in E : ~IsSend(e) /\ e.kind # "mutation"
    /\ \A m \in Messages : Quiets(m)

\* The response to a message is written to the client, or cannot be.
Ends(m) == \E state \in {"undelivered", "done"} : task' = [task EXCEPT ![m] = state]

\* ... or a message arrives and is forwarded or denied, ...
Begins(E, m) ==
    /\ task[m] = "none" /\ chosen'[m] = Selected(m)
    /\ \A e \in E : IsSend(e) => m \in Requests /\ e.id = Call(m)
    /\ \A d, e \in E : IsSend(d) /\ IsSend(e) => d = e
    /\ \/ /\ task' = [task EXCEPT ![m] = "writing"] /\ ~Preflighted(m)
          /\ \A e \in E : e.kind # "mutation" /\ e.direction # "proxy_to_client"
       \/ /\ Ends(m) /\ Preflighted(m)
          /\ \A e \in E : ~IsSend(e) /\ (e.kind = "mutation" => e.id = Call(m))
          /\ \E e \in E : IsMutation(e, m)

\* ... or a mutation works on a reply.
Applies(E, r) ==
    /\ chosen[r] # 0
    /\ \/ task[r] = "waiting" /\ \E e \in E : IsMutation(e, r)
       \/ task[r] \in {"delaying", "copy_waiting"}
    /\ \A e \in E : e.kind = "mutation" => e.id = Call(r)
    /\ \A d, e \in E : IsSend(d) /\ IsSend(e) => d = e
    /\ \/ /\ Ends(r)
          /\ \A e \in E : ~IsSend(e)
       \/ /\ task[r] = "waiting" /\ task' = [task EXCEPT ![r] = "delaying"]
          /\ \A e \in E : ~IsSend(e)
       \/ /\ task[r] = "waiting" /\ task' = [task EXCEPT ![r] = "copy_writing"]
          /\ \A e \in E : IsSend(e) => e.id = Duplicate(r)

Tale == \E E : /\ Adds(E)
               /\ \/ Quietly(E)
                  \/ \E m \in Messages : Begins(E, m)
                  \/ \E r \in Requests : Applies(E, r)

\* An event that nothing of this is about.
Harmless(e) ==
    e \in Events /\ Formed(e) /\ e.mutation = 0 /\ ~IsSend(e) /\ e.kind # "mutation"

LEMMA HarmlessEvents ==
    /\ \A m \in Messages : Harmless(Event("request", "client_to_proxy", Call(m), FALSE))
    /\ \A t \in ServerRequests : Harmless(Event("response", "client_to_proxy", Call(t), FALSE))
    /\ \A n \in Notifications : Harmless(Event("request", "proxy_to_target", Call(n), FALSE))
    /\ \A k \in Keys, p \in BOOLEAN : Harmless(Event("response", "target_to_proxy", k, p))
    /\ \A t \in ServerRequests \cup ServerNotifications :
          Harmless(Event("request", "target_to_proxy", Call(t), FALSE))
    /\ \A c \in StderrChunks : Harmless(Event("stderr", "none", Call(c), FALSE))
    /\ \A m \in Messages : Harmless(Event("response", "proxy_to_client", Call(m), FALSE))
    /\ Harmless(TransportError)
<1>1. /\ \A m \in ClientLines \cup ServerNotifications \cup StderrChunks \cup {NoRequest} :
            Call(m) \in Ids /\ Call(m).of = m
      /\ Keys \subseteq Ids
  BY DEF Ids, Keys
<1>3. ASSUME NEW m \in Messages
      PROVE  /\ Harmless(Event("request", "client_to_proxy", Call(m), FALSE))
             /\ Harmless(Event("response", "proxy_to_client", Call(m), FALSE))
  <2>. DEFINE a == Event("request", "client_to_proxy", Call(m), FALSE)
              e == Event("response", "proxy_to_client", Call(m), FALSE)
  <2>1. Call(m) \in Ids
    BY <1>1 DEF Messages
  <2>2. /\ a \in Events /\ a.kind = "request" /\ a.direction = "client_to_proxy"
        /\ a.id = Call(m) /\ ~a.physical /\ a.mutation = 0
    <3>1. a \in Events
      BY <2>1, EventType DEF EventKinds, Directions
    <3>. QED BY <3>1 DEF Event
  <2>3. /\ e \in Events /\ e.kind = "response" /\ e.direction = "proxy_to_client"
        /\ e.id = Call(m) /\ e.mutation = 0
    <3>1. e \in Events
      BY <2>1, EventType DEF EventKinds, Directions
    <3>. QED BY <3>1 DEF Event
  <2>. HIDE DEF a, e
  <2>4. OfLine(a, Messages) /\ OfLine(e, Messages)
    BY <2>2, <2>3 DEF OfLine
  <2>5. Harmless(a)
    BY <2>2, <2>4 DEF Harmless, Formed, IsSend
  <2>6. Harmless(e)
    BY <2>3, <2>4 DEF Harmless, Formed, IsSend
  <2>. QED BY <2>5, <2>6 DEF a, e
<1>4. ASSUME NEW t \in ServerRequests
      PROVE  Harmless(Event("response", "client_to_proxy", Call(t), FALSE))
  <2>. DEFINE e == Event("response", "client_to_proxy", Call(t), FALSE)
  <2>1. Call(t) \in Ids
    BY <1>1
  <2>2. /\ e \in Events /\ e.kind = "response" /\ e.direction = "client_to_proxy"
        /\ e.id = Call(t) /\ e.mutation = 0
    <3>1. e \in Events
      BY <2>1, EventType DEF EventKinds, Directions
    <3>. QED BY <3>1 DEF Event
  <2>. HIDE DEF e
  <2>3. OfLine(e, ServerRequests)
    BY <2>2 DEF OfLine
  <2>4. Harmless(e)
    BY <2>2, <2>3 DEF Harmless, Formed, IsSend
  <2>. QED BY <2>4 DEF e
<1>5. ASSUME NEW n \in Notifications
      PROVE  Harmless(Event("request", "proxy_to_target", Call(n), FALSE))
  <2>. DEFINE e == Event("request", "proxy_to_target", Call(n), FALSE)
  <2>1. Call(n) \in Ids
    BY <1>1
  <2>2. /\ e \in Events /\ e.kind = "request" /\ e.direction = "proxy_to_target"
        /\ e.id = Call(n) /\ e.mutation = 0 /\ ~e.physical
    <3>1. e \in Events
      BY <2>1, EventType DEF EventKinds, Directions
    <3>. QED BY <3>1 DEF Event
  <2>3. Call(n) \notin Keys
    BY ProxyAssumption DEF Keys
  <2>. HIDE DEF e
  <2>4. OfLine(e, Notifications)
    BY <2>2 DEF OfLine
  <2>5. Harmless(e)
    BY <2>2, <2>3, <2>4 DEF Harmless, Formed, IsSend
  <2>. QED BY <2>5 DEF e
<1>6. ASSUME NEW k \in Keys, NEW p \in BOOLEAN
      PROVE  Harmless(Event("response", "target_to_proxy", k, p))
  <2>. DEFINE e == Event("response", "target_to_proxy", k, p)
  <2>1. k \in Ids
    BY <1>1
  <2>2. /\ e \in Events /\ e.kind = "response" /\ e.direction = "target_to_proxy"
        /\ e.id = k /\ e.mutation = 0
    <3>1. e \in Events
      BY <2>1, EventType DEF EventKinds, Directions
    <3>. QED BY <3>1 DEF Event
  <2>. HIDE DEF e
  <2>3. Harmless(e)
    BY <2>2 DEF Harmless, Formed, IsSend
  <2>. QED BY <2>3 DEF e
<1>7. ASSUME NEW t \in ServerRequests \cup ServerNotifications
      PROVE  Harmless(Event("request", "target_to_proxy", Call(t), FALSE))
  <2>. DEFINE e == Event("request", "target_to_proxy", Call(t), FALSE)
  <2>1. Call(t) \in Ids
    BY <1>1
  <2>2. /\ e \in Events /\ e.kind = "request" /\ e.direction = "target_to_proxy"
        /\ e.id = Call(t) /\ e.mutation = 0
    <3>1. e \in Events
      BY <2>1, EventType DEF EventKinds, Directions
    <3>. QED BY <3>1 DEF Event
  <2>. HIDE DEF e
  <2>3. OfLine(e, ServerRequests \cup ServerNotifications)
    BY <2>2 DEF OfLine
  <2>4. Harmless(e)
    BY <2>2, <2>3 DEF Harmless, Formed, IsSend
  <2>. QED BY <2>4 DEF e
<1>8. ASSUME NEW c \in StderrChunks PROVE Harmless(Event("stderr", "none", Call(c), FALSE))
  <2>. DEFINE e == Event("stderr", "none", Call(c), FALSE)
  <2>1. Call(c) \in Ids
    BY <1>1
  <2>2. e \in Events /\ e.kind = "stderr" /\ e.direction = "none" /\ e.mutation = 0
    <3>1. e \in Events
      BY <2>1, EventType DEF EventKinds, Directions
    <3>. QED BY <3>1 DEF Event
  <2>. HIDE DEF e
  <2>3. Harmless(e)
    BY <2>2 DEF Harmless, Formed, IsSend
  <2>. QED BY <2>3 DEF e
<1>9. Harmless(TransportError)
  <2>. DEFINE e == Event("transport_error", "none", Call(NoRequest), FALSE)
  <2>1. Call(NoRequest) \in Ids
    BY <1>1
  <2>2. e \in Events /\ e.kind = "transport_error" /\ e.direction = "none" /\ e.mutation = 0
    <3>1. e \in Events
      BY <2>1, EventType DEF EventKinds, Directions
    <3>. QED BY <3>1 DEF Event
  <2>. HIDE DEF e
  <2>3. Harmless(e)
    BY <2>2 DEF Harmless, Formed, IsSend
  <2>. QED BY <2>3 DEF e, TransportError
<1>. QED BY <1>3, <1>4, <1>5, <1>6, <1>7, <1>8, <1>9

\* The events that carry a mutation.
LEMMA MarkedEvents ==
    ASSUME NEW m \in Messages, NEW i \in 1..Len(Mutations), NEW isError \in BOOLEAN
    PROVE  /\ LET e == Mutated(Event("mutation", "none", Call(m), FALSE), i, isError) IN
              e \in Events /\ Formed(e) /\ e.mutation = i /\ IsMutation(e, m) /\ ~IsSend(e)
           /\ LET e == Mutated(Event("response", "proxy_to_client", Call(m), FALSE), i, isError) IN
              /\ e \in Events /\ Formed(e) /\ e.mutation = i /\ e.id = Call(m)
              /\ e.kind = "response" /\ ~IsSend(e)
           /\ m \in Requests =>
              LET e == Mutated(Event("response", "target_to_proxy", Duplicate(m), TRUE), i, isError) IN
              /\ e \in Events /\ Formed(e) /\ e.mutation = i /\ e.id = Duplicate(m)
              /\ e.kind = "response" /\ ~IsSend(e)
<1>1. /\ Call(m) \in Ids /\ Call(m).of = m
      /\ m \in Requests => Duplicate(m) \in Ids /\ Duplicate(m) \in Keys
  BY DEF Ids, Keys, Messages
<1>2. ASSUME NEW e \in Events, NEW w, w = Mutated(e, i, isError)
      PROVE  /\ w \in Events /\ w.kind = e.kind /\ w.direction = e.direction /\ w.id = e.id
             /\ w.mutation = i /\ w.mutation # 0
  <2>1. w \in Events
    BY <1>2, MutatedType
  <2>2. i # 0
    BY ProxyAssumption
  <2>. QED BY <1>2, <2>1, <2>2, MutatedFields
<1>. DEFINE a == Event("mutation", "none", Call(m), FALSE)
            b == Event("response", "proxy_to_client", Call(m), FALSE)
            c == Event("response", "target_to_proxy", Duplicate(m), TRUE)
<1>3. a \in Events /\ a.kind = "mutation" /\ a.direction = "none" /\ a.id = Call(m)
  <2>1. a \in Events
    BY <1>1, EventType DEF EventKinds, Directions
  <2>. QED BY <2>1 DEF Event
<1>4. b \in Events /\ b.kind = "response" /\ b.direction = "proxy_to_client" /\ b.id = Call(m)
  <2>1. b \in Events
    BY <1>1, EventType DEF EventKinds, Directions
  <2>. QED BY <2>1 DEF Event
<1>5. m \in Requests =>
         c \in Events /\ c.kind = "response" /\ c.direction = "target_to_proxy" /\ c.id = Duplicate(m)
  <2>1. m \in Requests => c \in Events
    BY <1>1, EventType DEF EventKinds, Directions
  <2>. QED BY <2>1 DEF Event
<1>. HIDE DEF a, b, c
<1>. DEFINE x == Mutated(a, i, isError)
            y == Mutated(b, i, isError)
            z == Mutated(c, i, isError)
<1>6. /\ x \in Events /\ x.kind = "mutation" /\ x.direction = "none" /\ x.id = Call(m)
      /\ x.mutation = i /\ x.mutation # 0
  BY <1>2, <1>3
<1>7. /\ y \in Events /\ y.kind = "response" /\ y.direction = "proxy_to_client"
      /\ y.id = Call(m) /\ y.mutation = i /\ y.mutation # 0
  BY <1>2, <1>4
<1>8. m \in Requests => /\ z \in Events /\ z.kind = "response"
                        /\ z.direction = "target_to_proxy" /\ z.id = Duplicate(m)
                        /\ z.mutation = i /\ z.mutation # 0
  BY <1>2, <1>5
<1>. HIDE DEF x, y, z
<1>9. OfLine(x, Messages) /\ OfLine(y, Messages)
  BY <1>1, <1>6, <1>7 DEF OfLine
<1>10. x \in Events /\ Formed(x) /\ x.mutation = i /\ IsMutation(x, m) /\ ~IsSend(x)
  BY <1>6, <1>9 DEF Formed, IsMutation, IsSend
<1>11. /\ y \in Events /\ Formed(y) /\ y.mutation = i /\ y.id = Call(m)
       /\ y.kind = "response" /\ ~IsSend(y)
  BY <1>7, <1>9 DEF Formed, IsSend
<1>12. m \in Requests => /\ z \in Events /\ Formed(z) /\ z.mutation = i /\ z.id = Duplicate(m)
                         /\ z.kind = "response" /\ ~IsSend(z)
  BY <1>1, <1>8 DEF Formed, IsSend
<1>. QED BY <1>10, <1>11, <1>12 DEF x, y, z, a, b, c

\* The event of a call or a duplicate that is sent.
LEMMA SendEvents ==
    ASSUME NEW k \in Keys
    PROVE  LET e == Event("request", "proxy_to_target", k, ToolOf[k.of] # NoTool) IN
           /\ e \in Events /\ Formed(e) /\ e.mutation = 0 /\ IsSend(e) /\ e.id = k
           /\ e.kind = "request" /\ e.direction = "proxy_to_target"
<1>. DEFINE p == ToolOf[k.of] # NoTool
            e == Event("request", "proxy_to_target", k, p)
<1>1. k \in Ids /\ p \in BOOLEAN
  BY DEF Ids, Keys
<1>. HIDE DEF p
<1>3. /\ e \in Events /\ e.kind = "request" /\ e.direction = "proxy_to_target" /\ e.id = k
      /\ e.mutation = 0 /\ e.physical = p
  <2>1. e \in Events
    BY <1>1, EventType DEF EventKinds, Directions
  <2>. QED BY <2>1 DEF Event
<1>. HIDE DEF e
<1>4. e.physical <=> ToolOf[e.id.of] # NoTool
  BY <1>3 DEF p
<1>5. Formed(e)
  BY <1>3, <1>4 DEF Formed
<1>6. e \in Events /\ Formed(e) /\ e.mutation = 0 /\ IsSend(e) /\ e.id = k
      /\ e.kind = "request" /\ e.direction = "proxy_to_target"
  BY <1>3, <1>5 DEF IsSend
<1>. QED BY <1>6 DEF e, p

\* A step that records at most one harmless event.
LEMMA QuietTale ==
    ASSUME GoodLog(log), \A m \in Messages : Quiets(m),
           log' = log \/ \E e : Harmless(e) /\ log' = Logged(log, e)
    PROVE  Tale
<1>1. CASE log' = log
  <2>1. Prolongs(log, log', {})
    BY <1>1, ProlongsNone
  <2>2. Adds({}) /\ Quietly({})
    BY <2>1 DEF Adds, Quietly
  <2>. QED BY <2>2 DEF Tale
<1>2. CASE \E e : Harmless(e) /\ log' = Logged(log, e)
  <2>1. PICK e : Harmless(e) /\ log' = Logged(log, e)
    BY <1>2
  <2>2. Prolongs(log, log', {e})
    BY <2>1, ProlongsOne DEF Harmless
  <2>3. \A d \in {e} : d \in Events /\ Formed(d) /\ d.mutation = 0 /\ ~IsSend(d) /\ d.kind # "mutation"
    BY <2>1 DEF Harmless
  <2>4. \A d \in {e} : Marked(d)'
    BY <2>3 DEF Marked
  <2>5. Adds({e}) /\ Quietly({e})
    BY <2>2, <2>3, <2>4 DEF Adds, Quietly
  <2>. QED BY <2>5 DEF Tale
<1>. QED BY <1>1, <1>2

LEMMA FailHarmless ==
    ASSUME Fail(log)
    PROVE  log' = log \/ \E e : Harmless(e) /\ log' = Logged(log, e)
<1>1. log' = log \/ log' = Logged(log, TransportError)
  BY DEF Fail
<1>. QED BY <1>1, HarmlessEvents

\* A line of the client: a message begins, or the reply to a request of the target
\* is passed on.
LEMMA ClientLineTale ==
    ASSUME TypeInv, CallInv, ClientLine
    PROVE  Tale
<1>0. /\ GoodLog(log) /\ task \in [ClientLines -> TaskStates]
      /\ chosen \in [Messages -> 0..Len(Mutations)]
  BY TaskFacts DEF TypeInv, TypeOK, GoodLog, HandlersType, Messages
<1>a. \A m \in Messages : m \in ClientLines /\ Call(m).of = m
  BY DEF Messages
<1>b. ASSUME NEW m \in Messages, Arrive(m)
      PROVE  task[m] = "none" /\ chosen'[m] = Selected(m)
  BY <1>0, <1>b DEF Arrive
<1>1. ASSUME NEW m \in Messages, DenyBeforeCall(m) PROVE Tale
  <2>. DEFINE a == Event("request", "client_to_proxy", Call(m), FALSE)
              p == Mutated(Event("mutation", "none", Call(m), FALSE), Selected(m), FALSE)
              q == Mutated(Event("response", "proxy_to_client", Call(m), FALSE), Selected(m), FALSE)
              E == {a} \cup {p} \cup {q}
  <2>1. /\ Arrive(m) /\ Ends(m) /\ Preflighted(m)
        /\ log' = Logged(Logged(Logged(log, a), p), q)
    BY <1>1 DEF DenyBeforeCall, Arrival, Ends
  <2>2. Selected(m) \in 1..Len(Mutations)
    <3>1. Selected(m) \in 0..Len(Mutations) /\ Selected(m) # 0 /\ Len(Mutations) \in Nat
      BY <2>1, SelectedType, ProxyAssumption DEF Preflighted
    <3>. QED BY <3>1
  <2>3. a \in Events /\ Formed(a) /\ a.mutation = 0 /\ ~IsSend(a) /\ a.kind = "request"
    <3>1. Harmless(a)
      BY HarmlessEvents
    <3>2. a.kind = "request"
      BY DEF Event
    <3>. QED BY <3>1, <3>2 DEF Harmless
  <2>4. /\ p \in Events /\ Formed(p) /\ p.mutation = Selected(m) /\ IsMutation(p, m) /\ ~IsSend(p)
        /\ q \in Events /\ Formed(q) /\ q.mutation = Selected(m) /\ q.id = Call(m)
        /\ q.kind = "response" /\ ~IsSend(q)
    BY <2>2, MarkedEvents
  <2>. HIDE DEF a, p, q
  <2>5. GoodLog(Logged(log, a)) /\ Prolongs(log, Logged(log, a), {a})
    BY <1>0, <2>3, ProlongsOne
  <2>6. p \notin {a}
    BY <2>3, <2>4 DEF IsMutation
  <2>7. /\ GoodLog(Logged(Logged(log, a), p))
        /\ Prolongs(log, Logged(Logged(log, a), p), {a} \cup {p})
    BY <1>0, <2>4, <2>5, <2>6, ProlongsMore
  <2>8. q \notin {a} \cup {p}
    BY <2>3, <2>4 DEF IsMutation
  <2>9. Prolongs(log, log', E)
    BY <1>0, <2>1, <2>4, <2>7, <2>8, ProlongsMore
  <2>10. \A e \in E : e \in {a, p, q}
    OBVIOUS
  <2>11. /\ p.id.of = m /\ q.id.of = m
    BY <1>a, <2>4 DEF IsMutation
  <2>12. task[m] = "none" /\ chosen'[m] = Selected(m) /\ task'[m] # "none"
    BY <1>0, <1>a, <1>b, <2>1 DEF Ends
  <2>13. \A e \in E : e.mutation = 0 \/ (e.mutation = Selected(m) /\ e.id.of = m)
    BY <2>3, <2>4, <2>10, <2>11
  <2>14. Adds(E)
    <3>1. ASSUME NEW e \in E PROVE e \in Events /\ Formed(e)
      BY <2>3, <2>4, <2>10
    <3>2. ASSUME NEW e \in E PROVE Marked(e)'
      BY <2>12, <2>13 DEF Marked
    <3>. QED BY <2>9, <3>1, <3>2 DEF Adds
  <2>15. /\ \A e \in E : ~IsSend(e) /\ (e.kind = "mutation" => e.id = Call(m))
         /\ \E e \in E : IsMutation(e, m)
    BY <2>3, <2>4, <2>10 DEF IsMutation
  <2>. HIDE DEF E
  <2>16. Begins(E, m)
    BY <2>1, <2>12, <2>15 DEF Begins
  <2>. QED BY <2>14, <2>16 DEF Tale
<1>2. ASSUME NEW r \in Requests, ForwardRequest(r) PROVE Tale
  <2>. DEFINE a == Event("request", "client_to_proxy", Call(r), FALSE)
              s == Event("request", "proxy_to_target", Call(r), ToolOf[Call(r).of] # NoTool)
              E == {a} \cup {s}
  <2>1. /\ Arrive(r) /\ task' = [task EXCEPT ![r] = "writing"] /\ ~Preflighted(r)
        /\ log' = Logged(Logged(log, a), s)
    BY <1>2 DEF ForwardRequest, SendTargetRequest, Arrival
  <2>2. r \in Messages /\ Call(r) \in Keys
    BY DEF Messages, Keys
  <2>3. /\ a \in Events /\ Formed(a) /\ a.mutation = 0 /\ ~IsSend(a) /\ a.kind = "request"
        /\ a.direction = "client_to_proxy"
    <3>1. Harmless(a)
      BY <2>2, HarmlessEvents
    <3>2. a.kind = "request" /\ a.direction = "client_to_proxy"
      BY DEF Event
    <3>. QED BY <3>1, <3>2 DEF Harmless
  <2>4. /\ s \in Events /\ Formed(s) /\ s.mutation = 0 /\ IsSend(s) /\ s.id = Call(r)
        /\ s.kind = "request" /\ s.direction = "proxy_to_target"
    BY <2>2, SendEvents
  <2>. HIDE DEF a, s
  <2>5. GoodLog(Logged(log, a)) /\ Prolongs(log, Logged(log, a), {a})
    BY <1>0, <2>3, ProlongsOne
  <2>6. s \notin {a}
    BY <2>3, <2>4
  <2>7. Prolongs(log, log', E)
    BY <1>0, <2>1, <2>4, <2>5, <2>6, ProlongsMore
  <2>8. \A e \in E : e = a \/ e = s
    OBVIOUS
  <2>9. Marked(a)' /\ Marked(s)'
    BY <2>3, <2>4 DEF Marked
  <2>10. Adds(E)
    <3>1. ASSUME NEW e \in E PROVE e \in Events /\ Formed(e)
      BY <2>3, <2>4, <2>8
    <3>2. ASSUME NEW e \in E PROVE Marked(e)'
      BY <2>8, <2>9
    <3>. QED BY <2>7, <3>1, <3>2 DEF Adds
  <2>11. /\ \A e \in E : IsSend(e) => r \in Requests /\ e.id = Call(r)
         /\ \A d, e \in E : IsSend(d) /\ IsSend(e) => d = e
         /\ \A e \in E : e.kind # "mutation" /\ e.direction # "proxy_to_client"
    BY <2>3, <2>4, <2>8
  <2>12. task[r] = "none" /\ chosen'[r] = Selected(r)
    BY <1>b, <2>1, <2>2
  <2>. HIDE DEF E
  <2>13. Begins(E, r)
    BY <2>1, <2>11, <2>12 DEF Begins
  <2>. QED BY <2>2, <2>10, <2>13 DEF Tale
<1>3. ASSUME NEW n \in Notifications, ForwardNotification(n) PROVE Tale
  <2>. DEFINE a == Event("request", "client_to_proxy", Call(n), FALSE)
  <2>1. /\ Arrive(n) /\ task' = [task EXCEPT ![n] = "writing"] /\ ~Preflighted(n)
        /\ log' = Logged(log, a) /\ n \in Messages
    BY <1>3 DEF ForwardNotification, Arrival, Messages
  <2>2. Harmless(a) /\ a.direction = "client_to_proxy"
    <3>1. Harmless(a)
      BY <2>1, HarmlessEvents
    <3>. QED BY <3>1 DEF Event
  <2>. HIDE DEF a
  <2>3. Prolongs(log, log', {a})
    BY <1>0, <2>1, <2>2, ProlongsOne DEF Harmless
  <2>4. \A e \in {a} : /\ e \in Events /\ Formed(e) /\ e.mutation = 0 /\ ~IsSend(e)
                       /\ e.kind # "mutation" /\ e.direction # "proxy_to_client"
    BY <2>2 DEF Harmless
  <2>5. \A e \in {a} : Marked(e)'
    BY <2>4 DEF Marked
  <2>6. Adds({a})
    BY <2>3, <2>4, <2>5 DEF Adds
  <2>7. task[n] = "none" /\ chosen'[n] = Selected(n)
    BY <1>b, <2>1
  <2>8. Begins({a}, n)
    BY <2>1, <2>4, <2>7 DEF Begins
  <2>. QED BY <2>1, <2>6, <2>8 DEF Tale
<1>4. ASSUME NEW t \in ServerRequests, ClientReplies(t) PROVE Tale
  <2>1. /\ log' = Logged(log, Event("response", "client_to_proxy", Call(t), FALSE))
        /\ task' = [task EXCEPT ![t] = "writing"]
    BY <1>4 DEF ClientReplies
  <2>2. t \notin Messages
    BY ProxyAssumption DEF Messages
  <2>3. \A m \in Messages : task'[m] = task[m]
    BY <1>0, <1>a, <2>1, <2>2
  <2>4. \A m \in Messages : Quiets(m)
    BY <2>3 DEF Quiets
  <2>5. Harmless(Event("response", "client_to_proxy", Call(t), FALSE))
    BY HarmlessEvents
  <2>. QED BY <1>0, <2>1, <2>4, <2>5, QuietTale
<1>. QED BY <1>1, <1>2, <1>3, <1>4 DEF ClientLine, Messages

\* A line of the target.
LEMMA TargetLineTale ==
    ASSUME TypeInv, CallInv, TargetLine
    PROVE  Tale
<1>0. GoodLog(log)
  BY DEF TypeInv, TypeOK, GoodLog
<1>1. task' = task
  BY DEF TargetLine, TargetAnswers, TargetSends, TargetWritesStderr, handlers
<1>2. \A m \in Messages : Quiets(m)
  BY <1>1 DEF Quiets
<1>3. ASSUME NEW k \in Keys, NEW outcome \in {"result", "error"}, TargetAnswers(k, outcome)
      PROVE  Tale
  <2>1. \E p \in BOOLEAN : log' = Logged(log, Event("response", "target_to_proxy", k, p))
    <3>1. (ToolOf[k.of] # NoTool) \in BOOLEAN
      OBVIOUS
    <3>. QED BY <1>3, <3>1 DEF TargetAnswers
  <2>2. \A p \in BOOLEAN : Harmless(Event("response", "target_to_proxy", k, p))
    BY HarmlessEvents
  <2>. QED BY <1>0, <1>2, <2>1, <2>2, QuietTale
<1>4. ASSUME NEW t \in ServerRequests \cup ServerNotifications, TargetSends(t) PROVE Tale
  <2>. DEFINE e == Event("request", "target_to_proxy", Call(t), FALSE)
              E == {e} \cup {TransportError}
  <2>1. \/ log' = Logged(log, e)
        \/ log' = Logged(Logged(log, e), TransportError)
    BY <1>4 DEF TargetSends, Fail
  <2>2. Harmless(e) /\ Harmless(TransportError)
    BY HarmlessEvents
  <2>3. e # TransportError
    <3>1. e.kind = "request" /\ TransportError.kind = "transport_error"
      BY DEF Event, TransportError
    <3>. QED BY <3>1
  <2>. HIDE DEF e
  <2>4. CASE log' = Logged(log, e)
    BY <1>0, <1>2, <2>2, <2>4, QuietTale
  <2>5. CASE log' = Logged(Logged(log, e), TransportError)
    <3>1. GoodLog(Logged(log, e)) /\ Prolongs(log, Logged(log, e), {e})
      BY <1>0, <2>2, ProlongsOne DEF Harmless
    <3>2. TransportError \in Events /\ TransportError \notin {e}
      BY <2>2, <2>3 DEF Harmless
    <3>3. Prolongs(log, log', E)
      BY <1>0, <2>5, <3>1, <3>2, ProlongsMore
    <3>4. \A d \in E : Harmless(d)
      BY <2>2
    <3>. HIDE DEF E
    <3>5. \A d \in E : /\ d \in Events /\ Formed(d) /\ d.mutation = 0 /\ ~IsSend(d)
                       /\ d.kind # "mutation"
      BY <3>4 DEF Harmless
    <3>6. \A d \in E : Marked(d)'
      BY <3>5 DEF Marked
    <3>7. Adds(E) /\ Quietly(E)
      BY <1>2, <3>3, <3>5, <3>6 DEF Adds, Quietly
    <3>. QED BY <3>7 DEF Tale
  <2>. QED BY <2>1, <2>4, <2>5
<1>5. ASSUME NEW c \in StderrChunks, TargetWritesStderr(c) PROVE Tale
  <2>1. log' = Logged(log, Event("stderr", "none", Call(c), FALSE))
    BY <1>5 DEF TargetWritesStderr
  <2>2. Harmless(Event("stderr", "none", Call(c), FALSE))
    BY HarmlessEvents
  <2>. QED BY <1>0, <1>2, <2>1, <2>2, QuietTale
<1>. QED BY <1>3, <1>4, <1>5 DEF TargetLine

\* The write chain moves on.
LEMMA WriteTale ==
    ASSUME TypeInv, CallInv, WriteLine \/ WriteBlocks \/ WriteDrains \/ WriteFails
    PROVE  Tale
<1>0. GoodLog(log) /\ task \in [ClientLines -> TaskStates]
  BY TaskFacts DEF TypeInv, TypeOK, GoodLog
<1>. DEFINE h == Head(chain)
<1>1. CASE WriteBlocks
  <2>1. log' = log /\ task' = task
    BY <1>1 DEF WriteBlocks, handlers
  <2>2. \A m \in Messages : Quiets(m)
    BY <2>1 DEF Quiets
  <2>. QED BY <1>0, <2>1, <2>2, QuietTale
<1>2. chain # <<>> => /\ h \in Frames /\ h.of \in ClientLines
                      /\ task[h.of] = IF h.copy THEN "copy_writing" ELSE "writing"
                      /\ h.copy => h.of \in Requests
  <2>1. chain # <<>> => h \in Queued
    BY HeadFacts
  <2>. QED BY <2>1, TaskFacts
<1>3. CASE WriteLine \/ WriteDrains
  <2>1. /\ chain # <<>> /\ closer = "idle" /\ task' = [task EXCEPT ![h.of] = Waiting(h)]
        /\ log' = IF h.of \in Notifications
                  THEN Logged(log, Event("request", "proxy_to_target", h, FALSE)) ELSE log
    BY <1>3 DEF WriteLine, WriteDrains, Writable, Written, CallInv, DrainsHead
  <2>2. h.of \in Notifications => h = Call(h.of)
    <3>1. h.of \in Notifications => h.copy = FALSE
      BY <1>2, <2>1, ProxyAssumption DEF Frames
    <3>. QED BY <1>2, <2>1, <3>1 DEF Frames
  <2>3. log' = log \/ \E e : Harmless(e) /\ log' = Logged(log, e)
    <3>1. CASE h.of \in Notifications
      <4>1. Harmless(Event("request", "proxy_to_target", Call(h.of), FALSE))
        BY <3>1, HarmlessEvents
      <4>. QED BY <2>1, <2>2, <3>1, <4>1
    <3>. QED BY <2>1, <3>1
  <2>4. ASSUME NEW m \in Messages PROVE Quiets(m)
    <3>. HIDE DEF h
    <3>1. m \in ClientLines
      BY DEF Messages
    <3>2. CASE m # h.of
      BY <1>0, <2>1, <3>1, <3>2 DEF Quiets
    <3>3. CASE m = h.of /\ h.copy
      BY <1>0, <1>2, <2>1, <3>1, <3>3 DEF Quiets, Waiting
    <3>4. CASE m = h.of /\ ~h.copy
      BY <1>0, <1>2, <2>1, <3>1, <3>4 DEF Quiets, Waiting
    <3>. QED BY <3>2, <3>3, <3>4
  <2>. QED BY <1>0, <2>3, <2>4, QuietTale
<1>4. CASE WriteFails
  <2>1. chain # <<>> /\ task' = [task EXCEPT ![h.of] = "failed"] /\ Fail(log)
    BY <1>4 DEF WriteFails
  <2>2. ASSUME NEW m \in Messages PROVE Quiets(m)
    <3>. HIDE DEF h
    <3>1. m \in ClientLines
      BY DEF Messages
    <3>. QED BY <1>0, <1>2, <2>1, <3>1 DEF Quiets
  <2>. QED BY <1>0, <2>1, <2>2, FailHarmless, QuietTale
<1>. QED BY <1>1, <1>3, <1>4

\* The events about the reply to r.
LEMMA ReplyEvents ==
    ASSUME TypeInv, NEW r \in Requests, chosen[r] # 0
    PROVE  /\ LET e == MutationEvent(r) IN
              /\ e \in Events /\ Formed(e) /\ e.mutation = chosen[r] /\ IsMutation(e, r)
              /\ e.id.of = r /\ ~IsSend(e)
           /\ LET e == VisibleEvent(r) IN
              /\ e \in Events /\ Formed(e) /\ e.kind = "response" /\ ~IsSend(e)
              /\ e.mutation = 0 \/ (e.mutation = chosen[r] /\ e.id.of = r)
           /\ LET e == WithMutation(r, ToClient(r)) IN
              /\ e \in Events /\ Formed(e) /\ e.kind = "response" /\ ~IsSend(e)
              /\ e.mutation = chosen[r] /\ e.id = Call(r)
           /\ LET e == WithMutation(r, Event("response", "target_to_proxy", Duplicate(r), TRUE)) IN
              /\ e \in Events /\ Formed(e) /\ e.kind = "response" /\ ~IsSend(e)
              /\ e.mutation = chosen[r] /\ e.id = Duplicate(r)
<1>1. r \in Messages /\ Call(r).of = r
  BY DEF Messages
<1>2. chosen[r] \in 1..Len(Mutations)
  <2>1. chosen[r] \in 0..Len(Mutations) /\ Len(Mutations) \in Nat
    BY ProxyAssumption DEF TypeInv, TypeOK, HandlersType
  <2>. QED BY <2>1
<1>. DEFINE w == promise[Call(r)] # "result"
            p == Mutated(Event("mutation", "none", Call(r), FALSE), chosen[r], w)
            v == Mutated(Event("response", "proxy_to_client", Call(r), FALSE), chosen[r], w)
            c == Mutated(Event("response", "target_to_proxy", Duplicate(r), TRUE), chosen[r], w)
            t == Event("response", "proxy_to_client", Call(r), FALSE)
<1>3. w \in BOOLEAN
  OBVIOUS
<1>. HIDE DEF w
<1>4. /\ p \in Events /\ Formed(p) /\ p.mutation = chosen[r] /\ IsMutation(p, r) /\ ~IsSend(p)
      /\ v \in Events /\ Formed(v) /\ v.mutation = chosen[r] /\ v.id = Call(r)
      /\ v.kind = "response" /\ ~IsSend(v)
      /\ c \in Events /\ Formed(c) /\ c.mutation = chosen[r] /\ c.id = Duplicate(r)
      /\ c.kind = "response" /\ ~IsSend(c)
  BY <1>1, <1>2, <1>3, MarkedEvents, ZenonT(60)
<1>5. /\ t \in Events /\ Formed(t) /\ t.mutation = 0 /\ ~IsSend(t) /\ t.kind = "response"
  <2>1. Harmless(t)
    BY <1>1, HarmlessEvents
  <2>2. t.kind = "response"
    BY DEF Event
  <2>. QED BY <2>1, <2>2 DEF Harmless
<1>6. MutationEvent(r) = p /\ WithMutation(r, ToClient(r)) = v /\ ToClient(r) = t
  BY DEF MutationEvent, WithMutation, ToClient, w
<1>7. WithMutation(r, Event("response", "target_to_proxy", Duplicate(r), TRUE)) = c
  BY DEF WithMutation, w
<1>8. VisibleEvent(r) = v \/ VisibleEvent(r) = t
  BY <1>6 DEF VisibleEvent
<1>. HIDE DEF p, v, c, t
<1>9. p.id.of = r /\ v.id.of = r
  BY <1>1, <1>4 DEF IsMutation
<1>. QED BY <1>4, <1>5, <1>6, <1>7, <1>8, <1>9

LEMMA ReplyTale ==
    ASSUME TypeInv, CallInv, NEW r \in Requests, Resume(r) \/ FinishDelay(r)
    PROVE  Tale
<1>0. GoodLog(log) /\ task \in [ClientLines -> TaskStates]
  BY TaskFacts DEF TypeInv, TypeOK, GoodLog
<1>1. r \in Messages /\ Messages \subseteq ClientLines
  BY DEF Messages
<1>2. ASSUME NEW E, Prolongs(log, log', E), task'[r] # "none", chosen' = chosen,
             \A e \in E : /\ e \in Events /\ Formed(e)
                          /\ e.mutation = 0 \/ (e.mutation = chosen[r] /\ e.id.of = r),
             Applies(E, r)
      PROVE  Tale
  <2>1. ASSUME NEW e \in E PROVE Marked(e)'
    BY <1>1, <1>2 DEF Marked
  <2>2. Adds(E)
    BY <1>2, <2>1 DEF Adds
  <2>. QED BY <1>2, <2>2 DEF Tale
<1>3. ASSUME NEW v, v # "none", task' = [task EXCEPT ![r] = v]
      PROVE  task'[r] = v /\ v # "none" /\ \A m \in Messages : m # r => task'[m] = task[m]
  BY <1>0, <1>1, <1>3
<1>3a. ASSUME Ends(r) PROVE task'[r] # "none"
  BY <1>0, <1>1, <1>3a DEF Ends
<1>. DEFINE p == MutationEvent(r)
            v == VisibleEvent(r)
            w == WithMutation(r, ToClient(r))
            c == WithMutation(r, Event("response", "target_to_proxy", Duplicate(r), TRUE))
<1>4. chosen[r] # 0 =>
      /\ p \in Events /\ Formed(p) /\ p.mutation = chosen[r] /\ IsMutation(p, r)
      /\ p.id.of = r /\ p.id = Call(r) /\ p.kind = "mutation" /\ ~IsSend(p)
      /\ v \in Events /\ Formed(v) /\ v.kind = "response" /\ ~IsSend(v)
      /\ v.mutation = 0 \/ (v.mutation = chosen[r] /\ v.id.of = r)
      /\ w \in Events /\ Formed(w) /\ w.kind = "response" /\ ~IsSend(w)
      /\ w.mutation = chosen[r] /\ w.id = Call(r) /\ w.id.of = r
      /\ c \in Events /\ Formed(c) /\ c.kind = "response" /\ ~IsSend(c)
      /\ c.mutation = chosen[r] /\ c.id = Duplicate(r) /\ c.id.of = r
  <2>1. \A e : IsMutation(e, r) => e.id = Call(r) /\ e.kind = "mutation"
    BY DEF IsMutation
  <2>2. Call(r).of = r /\ Duplicate(r).of = r
    OBVIOUS
  <2>. HIDE DEF p, v, w, c
  <2>. QED BY <2>1, <2>2, ReplyEvents DEF p, v, w, c
<1>5. CASE ReturnReply(r)
  <2>1. /\ task[r] = "waiting" /\ chosen[r] = 0 /\ Ends(r)
        /\ log' = Logged(log, Event("response", "proxy_to_client", Call(r), FALSE))
    BY <1>5 DEF ReturnReply, Deliver, ToClient, Ends
  <2>2. \A m \in Messages : Quiets(m)
    BY <1>0, <1>1, <2>1 DEF Quiets, Ends
  <2>3. Harmless(Event("response", "proxy_to_client", Call(r), FALSE))
    BY <1>1, HarmlessEvents
  <2>. QED BY <1>0, <2>1, <2>2, <2>3, QuietTale
<1>6. CASE ReplyRejected(r)
  <2>1. /\ task[r] \in {"waiting", "copy_waiting"} /\ task' = [task EXCEPT ![r] = "failed"]
        /\ Fail(log)
    BY <1>6 DEF ReplyRejected
  <2>2. \A m \in Messages : Quiets(m)
    BY <1>0, <1>1, <2>1 DEF Quiets
  <2>. QED BY <1>0, <2>1, <2>2, FailHarmless, QuietTale
<1>. HIDE DEF p, v, w, c
<1>7. CASE MutateReply(r)
  <2>1. /\ chosen[r] # 0 /\ task[r] = "waiting" /\ chosen' = chosen
        /\ log' = Logged(Logged(log, p), v)
        /\ Ends(r)
    BY <1>7 DEF MutateReply, MutationStarts, Deliver, p, v, Ends
  <2>. DEFINE E == {p} \cup {v}
  <2>2. GoodLog(Logged(log, p)) /\ Prolongs(log, Logged(log, p), {p})
    BY <1>0, <1>4, <2>1, ProlongsOne
  <2>3. v \notin {p}
    BY <1>4, <2>1
  <2>4. Prolongs(log, log', E)
    BY <1>0, <1>4, <2>1, <2>2, <2>3, ProlongsMore
  <2>5. \A e \in E : e = p \/ e = v
    OBVIOUS
  <2>6. p \in E
    OBVIOUS
  <2>. HIDE DEF E
  <2>7. \A e \in E : /\ e \in Events /\ Formed(e)
                     /\ e.mutation = 0 \/ (e.mutation = chosen[r] /\ e.id.of = r)
    BY <1>4, <2>1, <2>5
  <2>8. Applies(E, r)
    BY <1>4, <2>1, <2>5, <2>6 DEF Applies
  <2>. QED BY <1>2, <1>3a, <2>1, <2>4, <2>7, <2>8
<1>8. CASE DelayReply(r)
  <2>1. /\ chosen[r] # 0 /\ task[r] = "waiting" /\ chosen' = chosen
        /\ log' = Logged(log, p)
        /\ task' = [task EXCEPT ![r] = "delaying"]
    BY <1>8 DEF DelayReply, MutationStarts, p
  <2>2. Prolongs(log, log', {p})
    BY <1>0, <1>4, <2>1, ProlongsOne
  <2>3. \A e \in {p} : /\ e \in Events /\ Formed(e)
                       /\ e.mutation = 0 \/ (e.mutation = chosen[r] /\ e.id.of = r)
    BY <1>4, <2>1
  <2>4. Applies({p}, r)
    BY <1>4, <2>1 DEF Applies
  <2>. QED BY <1>2, <1>3, <2>1, <2>2, <2>3, <2>4
<1>9. CASE FinishDelay(r)
  <2>1. /\ chosen[r] # 0 /\ task[r] = "delaying" /\ chosen' = chosen
        /\ log' = Logged(log, v)
        /\ Ends(r)
    BY <1>9 DEF FinishDelay, Deliver, CallInv, MutatesReply, Applied, v, Ends
  <2>2. Prolongs(log, log', {v})
    BY <1>0, <1>4, <2>1, ProlongsOne
  <2>3. \A e \in {v} : /\ e \in Events /\ Formed(e)
                       /\ e.mutation = 0 \/ (e.mutation = chosen[r] /\ e.id.of = r)
    BY <1>4, <2>1
  <2>4. Applies({v}, r)
    BY <1>4, <2>1 DEF Applies
  <2>. QED BY <1>2, <1>3a, <2>1, <2>2, <2>3, <2>4
<1>10. CASE DuplicateCall(r)
  <2>. DEFINE s == Event("request", "proxy_to_target", Duplicate(r), ToolOf[Duplicate(r).of] # NoTool)
              E == {p} \cup {s}
  <2>1. /\ chosen[r] # 0 /\ task[r] = "waiting" /\ chosen' = chosen
        /\ log' = Logged(Logged(log, p), s)
        /\ task' = [task EXCEPT ![r] = "copy_writing"]
    BY <1>10 DEF DuplicateCall, MutationStarts, SendTargetRequest, p
  <2>2. Duplicate(r) \in Keys
    BY DEF Keys
  <2>3. /\ s \in Events /\ Formed(s) /\ s.mutation = 0 /\ IsSend(s) /\ s.id = Duplicate(r)
        /\ s.kind = "request"
    BY <2>2, SendEvents
  <2>. HIDE DEF s
  <2>4. GoodLog(Logged(log, p)) /\ Prolongs(log, Logged(log, p), {p})
    BY <1>0, <1>4, <2>1, ProlongsOne
  <2>5. s \notin {p}
    BY <1>4, <2>1, <2>3
  <2>6. Prolongs(log, log', E)
    BY <1>0, <2>1, <2>3, <2>4, <2>5, ProlongsMore
  <2>7. \A e \in E : e = p \/ e = s
    OBVIOUS
  <2>8. p \in E
    OBVIOUS
  <2>. HIDE DEF E
  <2>9. \A e \in E : /\ e \in Events /\ Formed(e)
                     /\ e.mutation = 0 \/ (e.mutation = chosen[r] /\ e.id.of = r)
    BY <1>4, <2>1, <2>3, <2>7
  <2>10. Applies(E, r)
    BY <1>4, <2>1, <2>3, <2>7, <2>8 DEF Applies
  <2>. QED BY <1>2, <1>3, <2>1, <2>6, <2>9, <2>10
<1>11. CASE FinishDuplicate(r)
  <2>. DEFINE E == {c} \cup {w}
  <2>1. /\ chosen[r] # 0 /\ task[r] = "copy_waiting" /\ chosen' = chosen
        /\ log' = Logged(Logged(log, c), w)
        /\ Ends(r)
    BY <1>11 DEF FinishDuplicate, Deliver, CallInv, MutatesReply, Applied, c, w, Ends
  <2>2. GoodLog(Logged(log, c)) /\ Prolongs(log, Logged(log, c), {c})
    BY <1>0, <1>4, <2>1, ProlongsOne
  <2>3. w \notin {c}
    BY <1>4, <2>1
  <2>4. Prolongs(log, log', E)
    BY <1>0, <1>4, <2>1, <2>2, <2>3, ProlongsMore
  <2>5. \A e \in E : e = c \/ e = w
    OBVIOUS
  <2>. HIDE DEF E
  <2>6. \A e \in E : /\ e \in Events /\ Formed(e)
                     /\ e.mutation = 0 \/ (e.mutation = chosen[r] /\ e.id.of = r)
    BY <1>4, <2>1, <2>5
  <2>7. Applies(E, r)
    BY <1>4, <2>1, <2>5 DEF Applies
  <2>. QED BY <1>2, <1>3a, <2>1, <2>4, <2>6, <2>7
<1>. QED BY <1>5, <1>6, <1>7, <1>8, <1>9, <1>10, <1>11 DEF Resume

\* Every step of the proxy tells one of these tales.
LEMMA StepTale ==
    ASSUME TypeInv, CallInv, [Next]_vars
    PROVE  Tale
<1>0. GoodLog(log)
  BY DEF TypeInv, TypeOK, GoodLog
<1>1. ASSUME task' = task, log' = log \/ Fail(log)
      PROVE  Tale
  <2>1. \A m \in Messages : Quiets(m)
    BY <1>1 DEF Quiets
  <2>. QED BY <1>0, <1>1, <2>1, FailHarmless, QuietTale
<1>2. ASSUME NEW r \in Requests, Resume(r) \/ FinishDelay(r) PROVE Tale
  BY <1>2, ReplyTale
<1>3. CASE WriteLine \/ WriteBlocks \/ WriteDrains \/ WriteFails
  BY <1>3, WriteTale
<1>4. CASE InvalidLine \/ RunTimeout
  BY <1>1, <1>4 DEF InvalidLine, RunTimeout, handlers
<1>5. CASE TargetCloses
  BY <1>1, <1>5 DEF TargetCloses, handlers
<1>6. CASE MainDrains \/ MainCloses \/ MainRejects \/ MainHashes \/ MainPersists \/ MainReturns
  BY <1>1, <1>6 DEF MainDrains, MainCloses, MainRejects, MainHashes, MainPersists, MainReturns,
     handlers
<1>7. CASE \/ ClientEnds \/ TargetExits \/ Interrupt \/ InterruptAgain
           \/ CloserTerminates \/ CloserKills \/ UNCHANGED vars
  BY <1>1, <1>7 DEF ClientEnds, TargetExits, Interrupt, InterruptAgain, CloserTerminates,
     CloserKills, handlers, vars
<1>8. ASSUME NEW k \in Keys, RequestTimeout(k) PROVE Tale
  BY <1>1, <1>8 DEF RequestTimeout, handlers
<1>9. ASSUME NEW m \in Messages, DeliveryFails(m) PROVE Tale
  <2>1. /\ task[m] = "undelivered" /\ task' = [task EXCEPT ![m] = "failed"] /\ Fail(log)
        /\ task \in [ClientLines -> TaskStates]
    BY <1>9, TaskFacts DEF DeliveryFails
  <2>2. \A n \in Messages : Quiets(n)
    BY <2>1 DEF Quiets, Messages
  <2>. QED BY <1>0, <2>1, <2>2, FailHarmless, QuietTale
<1>. QED
  BY <1>2, <1>3, <1>4, <1>5, <1>6, <1>7, <1>8, <1>9, ClientLineTale, TargetLineTale
  DEF Next, Prompt, Turn, Terminated, Messages

Entry(l, i) == l.events[i].event

\* What a tale means for the entries of the capture.
LEMMA Entries ==
    ASSUME NEW E, Adds(E)
    PROVE  /\ \A i \in DOMAIN log.events : i \in DOMAIN log'.events /\ Entry(log', i) = Entry(log, i)
           /\ \A i \in DOMAIN log'.events :
                 \/ i \in DOMAIN log.events
                 \/ /\ i \notin DOMAIN log.events /\ Entry(log', i) \in E
                    /\ \A j \in DOMAIN log.events : j < i
           /\ \A i, j \in DOMAIN log'.events \ DOMAIN log.events :
                 Entry(log', i) = Entry(log', j) => i = j
           /\ log.truncated => log'.truncated
           /\ ~log'.truncated => \A e \in E : \E i \in DOMAIN log'.events : Entry(log', i) = e
BY DEF Adds, Prolongs, Entry

\* Every event has one of the forms, and tells the mutation of its message.
EventsFormed == \A e \in Recorded : Formed(e) /\ Marked(e)

\* A task that has begun keeps its mutation and does not begin again.
LEMMA BegunStays ==
    ASSUME TypeInv, CallInv, [Next]_vars, NEW m \in Messages, task[m] # "none"
    PROVE  task'[m] # "none" /\ chosen'[m] = chosen[m]
<1>1. task'[m] # "none"
  BY ArrivalSteps DEF Stays, Arrives
<1>. QED BY <1>1, ChosenSteps DEF Messages

LEMMA EventsFormedStep ==
    ASSUME TypeInv, CallInv, EventsFormed, [Next]_vars
    PROVE  EventsFormed'
<1>1. PICK E : Adds(E)
  BY StepTale DEF Tale
<1>2. /\ Recorded = {Entry(log, i) : i \in DOMAIN log.events}
      /\ Recorded' = {Entry(log', i) : i \in DOMAIN log'.events}
  BY DEF Recorded, Entry
<1>3. ASSUME NEW e \in Recorded' PROVE Formed(e) /\ Marked(e)'
  <2>1. e \in Recorded \/ e \in E
    BY <1>1, <1>2, Entries
  <2>2. CASE e \in Recorded
    <3>1. Formed(e) /\ Marked(e)
      BY <2>2 DEF EventsFormed
    <3>. QED BY <3>1, BegunStays DEF Marked
  <2>3. CASE e \in E
    BY <1>1, <2>3 DEF Adds
  <2>. QED BY <2>1, <2>2, <2>3
<1>. QED BY <1>3 DEF EventsFormed

\* The events of a call that is sent, and of a mutation that is applied.
Sends(l, k) == {p \in DOMAIN l.events : IsSend(Entry(l, p)) /\ Entry(l, p).id = k}
Told(l, m) == {p \in DOMAIN l.events : IsMutation(Entry(l, p), m)}
Shown(l, m) ==
    {p \in DOMAIN l.events :
        Entry(l, p).direction = "proxy_to_client" /\ Entry(l, p).id = Call(m)}

\* A call that was recorded was read by the target, or its write has not ended or
\* failed.
OnItsWay(k) ==
    \/ k \in Read
    \/ ~k.copy /\ task[k.of] \in {"writing", "failed"}
    \/ k.copy /\ Call(k.of) \in Read /\ task[k.of] \in {"copy_writing", "failed"}

SendsInv ==
    /\ \A k \in Keys : Sends(log, k) # {} => OnItsWay(k)
    /\ \A k \in Keys : \A p, q \in Sends(log, k) : p = q
    /\ \A r \in Requests : \A p \in Sends(log, Call(r)), q \in Shown(log, r) : p < q

LEMMA OnItsWayStays ==
    ASSUME TypeInv, CallInv, FramesInv, [Next]_vars, NEW k \in Keys, OnItsWay(k)
    PROVE  OnItsWay(k)'
<1>1. k.of \in Requests /\ k.of \in ClientLines /\ k.copy \in BOOLEAN
      /\ k = IF k.copy THEN Duplicate(k.of) ELSE Call(k.of)
  BY DEF Keys
<1>2. Read \subseteq Read' /\ task \in [ClientLines -> TaskStates]
  BY ToldGrows, TaskFacts
<1>3. CASE k \in Read
  BY <1>2, <1>3 DEF OnItsWay
<1>4. CASE k \notin Read
  <2>1. /\ ~k.copy => task[k.of] \in {"writing", "failed"}
        /\ k.copy => Call(k.of) \in Read' /\ task[k.of] \in {"copy_writing", "failed"}
    BY <1>2, <1>4 DEF OnItsWay
  <2>2. task'[k.of] = task[k.of] \/ task'[k.of] = "failed" => OnItsWay(k)'
    BY <2>1 DEF OnItsWay
  <2>3. ASSUME NEW f \in Frames, Queues(f) PROVE OnItsWay(k)'
    <3>1. f.of # k.of /\ task' = [task EXCEPT ![f.of] = IF f.copy THEN "copy_writing" ELSE "writing"]
      BY <2>1, <2>3 DEF Queues
    <3>2. task'[k.of] = task[k.of]
      BY <1>1, <1>2, <3>1
    <3>. QED BY <2>2, <3>2
  <2>4. CASE Writes
    <3>. DEFINE h == Head(chain)
    <3>1. /\ h \in Frames /\ task[h.of] = IF h.copy THEN "copy_writing" ELSE "writing"
          /\ h \in Read' /\ h.copy \in BOOLEAN /\ h.of \in ClientLines
          /\ h = IF h.copy THEN Duplicate(h.of) ELSE Call(h.of)
      <4>1. h \in Queued /\ h \in Read'
        BY <2>4, HeadFacts, WritesMoves DEF Writes, FramesInv
      <4>2. h \in Frames /\ task[h.of] = IF h.copy THEN "copy_writing" ELSE "writing"
        BY <4>1, TaskFacts
      <4>3. h.copy \in BOOLEAN /\ h.of \in ClientLines
            /\ h = IF h.copy THEN Duplicate(h.of) ELSE Call(h.of)
        BY <4>2 DEF Frames
      <4>. QED BY <4>1, <4>2, <4>3
    <3>2. task' = task \/ task' = [task EXCEPT ![h.of] = Waiting(h)]
      BY <2>4 DEF Writes
    <3>. HIDE DEF h
    <3>3. CASE task'[k.of] = task[k.of]
      BY <2>2, <3>3
    <3>4. CASE task'[k.of] # task[k.of]
      <4>1. h.of = k.of
        BY <1>1, <1>2, <3>1, <3>2, <3>4
      <4>2. CASE task[k.of] = "failed"
        BY <3>1, <4>1, <4>2
      <4>3. CASE task[k.of] # "failed"
        <5>1. h.copy = k.copy
          BY <1>1, <2>1, <3>1, <4>1, <4>3
        <5>2. h = k
          BY <1>1, <3>1, <4>1, <5>1
        <5>. QED BY <3>1, <5>2 DEF OnItsWay
      <4>. QED BY <4>2, <4>3
    <3>. QED BY <3>3, <3>4
  <2>5. CASE Breaks
    <3>. DEFINE h == Head(chain)
    <3>1. task' = [task EXCEPT ![h.of] = "failed"]
      BY <2>5 DEF Breaks
    <3>. HIDE DEF h
    <3>. QED BY <1>1, <1>2, <2>2, <3>1
  <2>6. CASE Continues
    <3>1. PICK r \in Requests, v \in {"undelivered", "done", "failed", "delaying"} :
             /\ task[r] \in {"waiting", "delaying", "copy_waiting"}
             /\ task' = [task EXCEPT ![r] = v]
      BY <2>6 DEF Continues, Gives
    <3>2. r # k.of
      BY <2>1, <3>1
    <3>. QED BY <1>1, <1>2, <2>2, <3>1, <3>2
  <2>7. CASE Listens
    BY <2>2, <2>7 DEF Listens
  <2>8. ASSUME NEW m \in Requests \cup Notifications, Denies(m) PROVE OnItsWay(k)'
    <3>1. /\ task[m] = "none"
          /\ \E v \in {"undelivered", "done"} : task' = [task EXCEPT ![m] = v]
      BY <2>8 DEF Denies, Gives
    <3>2. m # k.of
      BY <2>1, <3>1
    <3>. QED BY <1>1, <1>2, <2>2, <3>1, <3>2
  <2>9. ASSUME NEW m \in Requests \cup Notifications, Loses(m) PROVE OnItsWay(k)'
    <3>1. task' = [task EXCEPT ![m] = "failed"]
      BY <2>9 DEF Loses
    <3>. QED BY <1>1, <1>2, <2>2, <3>1
  <2>. QED BY <2>3, <2>4, <2>5, <2>6, <2>7, <2>8, <2>9, Steps
<1>. QED BY <1>3, <1>4

\* What a step sends: a call that has just come, or a duplicate after its call.
LEMMA NewSends ==
    ASSUME TypeInv, CallInv, FramesInv, FramesInv', [Next]_vars,
           NEW E, Adds(E), \/ Quietly(E)
                           \/ \E m \in Messages : Begins(E, m)
                           \/ \E r \in Requests : Applies(E, r)
    PROVE  /\ \A e \in E : IsSend(e) =>
                 /\ ~OnItsWay(e.id) /\ OnItsWay(e.id)'
                 /\ ~e.id.copy => /\ task[e.id.of] = "none"
                                  /\ \A d \in E : d.direction # "proxy_to_client"
           /\ \A d, e \in E : IsSend(d) /\ IsSend(e) => d = e
<1>. DEFINE Goal == /\ \A e \in E : IsSend(e) =>
                          /\ ~OnItsWay(e.id) /\ OnItsWay(e.id)'
                          /\ ~e.id.copy => /\ task[e.id.of] = "none"
                                           /\ \A d \in E : d.direction # "proxy_to_client"
                    /\ \A d, e \in E : IsSend(d) /\ IsSend(e) => d = e
<1>0. task \in [ClientLines -> TaskStates]
  BY TaskFacts
<1>1. CASE Quietly(E)
  BY <1>1 DEF Quietly
<1>2. ASSUME NEW m \in Messages, Begins(E, m) PROVE Goal
  <2>1. task[m] = "none" /\ \A d, e \in E : IsSend(d) /\ IsSend(e) => d = e
    BY <1>2 DEF Begins
  <2>2. ASSUME NEW e \in E, IsSend(e)
        PROVE  /\ m \in Requests /\ e.id = Call(m) /\ task'[m] = "writing"
               /\ \A d \in E : d.direction # "proxy_to_client"
    <3>1. /\ m \in Requests /\ e.id = Call(m) /\ task' = [task EXCEPT ![m] = "writing"]
          /\ \A d \in E : d.direction # "proxy_to_client"
      BY <1>2, <2>2 DEF Begins
    <3>. QED BY <1>0, <3>1
  <2>3. ASSUME NEW e \in E, IsSend(e) PROVE ~OnItsWay(e.id) /\ OnItsWay(e.id)'
    <3>0. e.id = Call(m) /\ m \in Requests /\ task'[m] = "writing"
      BY <2>2, <2>3
    <3>1. ~e.id.copy /\ e.id.of = m /\ task[m] = "none"
      BY <2>1, <3>0
    <3>2. e.id \notin Read
      BY <3>1 DEF FramesInv, ReadIsStarted
    <3>3. ~OnItsWay(e.id)
      BY <3>1, <3>2 DEF OnItsWay
    <3>4. OnItsWay(e.id)'
      BY <3>0, <3>1 DEF OnItsWay
    <3>. QED BY <3>3, <3>4
  <2>4. \A e \in E : IsSend(e) => e.id.of = m
    BY <2>2
  <2>. QED BY <2>1, <2>2, <2>3, <2>4
<1>3. ASSUME NEW r \in Requests, Applies(E, r) PROVE Goal
  <2>1. \A d, e \in E : IsSend(d) /\ IsSend(e) => d = e
    BY <1>3 DEF Applies
  <2>2. ASSUME NEW e \in E, IsSend(e) PROVE ~OnItsWay(e.id) /\ OnItsWay(e.id)' /\ e.id.copy
    <3>1. /\ task[r] = "waiting" /\ task' = [task EXCEPT ![r] = "copy_writing"]
          /\ e.id = Duplicate(r)
      BY <1>3, <2>2 DEF Applies
    <3>2. e.id.copy /\ e.id.of = r /\ task[r] = "waiting" /\ task'[r] = "copy_writing"
      BY <1>0, <3>1
    <3>3. e.id \notin Read
      BY <3>2 DEF FramesInv, ReadIsStarted
    <3>4. ~OnItsWay(e.id)
      BY <3>2, <3>3 DEF OnItsWay
    <3>5. Call(r) \in Read'
      BY <3>2 DEF FramesInv, CallIsRead
    <3>6. OnItsWay(e.id)'
      BY <3>2, <3>5 DEF OnItsWay
    <3>. QED BY <3>2, <3>4, <3>6
  <2>. QED BY <2>1, <2>2
<1>. QED BY <1>1, <1>2, <1>3

LEMMA SendsStep ==
    ASSUME TypeInv, CallInv, FramesInv, FramesInv', TrafficInv, EventsFormed, SendsInv, [Next]_vars
    PROVE  SendsInv'
<1>1. PICK E : Adds(E) /\ (\/ Quietly(E)
                           \/ \E m \in Messages : Begins(E, m)
                           \/ \E r \in Requests : Applies(E, r))
  BY StepTale DEF Tale
<1>2. /\ \A e \in E : IsSend(e) =>
            /\ ~OnItsWay(e.id) /\ OnItsWay(e.id)'
            /\ ~e.id.copy => /\ task[e.id.of] = "none"
                             /\ \A d \in E : d.direction # "proxy_to_client"
      /\ \A d, e \in E : IsSend(d) /\ IsSend(e) => d = e
  BY <1>1, NewSends
<1>3. ASSUME NEW k, NEW p \in Sends(log', k)
      PROVE  \/ p \in Sends(log, k)
             \/ /\ p \notin DOMAIN log.events /\ p \in DOMAIN log'.events
                /\ \E e \in E : e = Entry(log', p) /\ IsSend(e) /\ e.id = k
  <2>1. p \in DOMAIN log'.events /\ IsSend(Entry(log', p)) /\ Entry(log', p).id = k
    BY DEF Sends
  <2>2. CASE p \in DOMAIN log.events
    <3>1. Entry(log', p) = Entry(log, p)
      BY <1>1, <2>2, Entries
    <3>. QED BY <2>1, <2>2, <3>1 DEF Sends
  <2>3. CASE p \notin DOMAIN log.events
    <3>1. Entry(log', p) \in E
      BY <1>1, <2>1, <2>3, Entries
    <3>. QED BY <2>1, <2>3, <3>1
  <2>. QED BY <2>2, <2>3
<1>4. ASSUME NEW k \in Keys, Sends(log', k) # {} PROVE OnItsWay(k)'
  <2>1. PICK p : p \in Sends(log', k)
    BY <1>4
  <2>2. CASE p \in Sends(log, k)
    BY <2>2, OnItsWayStays DEF SendsInv
  <2>3. CASE \E e \in E : e = Entry(log', p) /\ IsSend(e) /\ e.id = k
    BY <1>2, <2>3
  <2>. QED BY <1>3, <2>1, <2>2, <2>3
<1>5. ASSUME NEW k \in Keys, NEW p \in Sends(log', k), NEW q \in Sends(log', k)
      PROVE  p = q
  <2>1. CASE p \in Sends(log, k) /\ q \in Sends(log, k)
    BY <2>1 DEF SendsInv
  <2>2. ASSUME Sends(log, k) # {}, \E e \in E : IsSend(e) /\ e.id = k PROVE FALSE
    <3>1. OnItsWay(k)
      BY <2>2 DEF SendsInv
    <3>. QED BY <1>2, <2>2, <3>1
  <2>3. CASE p \notin Sends(log, k) /\ q \notin Sends(log, k)
    <3>1. /\ p \in DOMAIN log'.events \ DOMAIN log.events
          /\ q \in DOMAIN log'.events \ DOMAIN log.events
          /\ Entry(log', p) = Entry(log', q)
      BY <1>2, <1>3, <2>3
    <3>. QED BY <1>1, <3>1, Entries
  <2>. QED BY <1>3, <2>1, <2>2, <2>3
<1>6. ASSUME NEW r \in Requests, NEW p \in Sends(log', Call(r)), NEW q \in Shown(log', r)
      PROVE  p < q
  <2>1. q \in DOMAIN log'.events /\ Entry(log', q).direction = "proxy_to_client"
        /\ Entry(log', q).id = Call(r)
    BY DEF Shown
  <2>2. \/ q \in Shown(log, r)
        \/ /\ q \notin DOMAIN log.events /\ \A j \in DOMAIN log.events : j < q
           /\ \E d \in E : d.direction = "proxy_to_client"
    <3>1. CASE q \in DOMAIN log.events
      <4>1. Entry(log', q) = Entry(log, q)
        BY <1>1, <3>1, Entries
      <4>. QED BY <2>1, <3>1, <4>1 DEF Shown
    <3>2. CASE q \notin DOMAIN log.events
      <4>1. Entry(log', q) \in E /\ \A j \in DOMAIN log.events : j < q
        BY <1>1, <2>1, <3>2, Entries
      <4>. QED BY <2>1, <3>2, <4>1
    <3>. QED BY <3>1, <3>2
  <2>3. CASE p \in Sends(log, Call(r))
    <3>1. p \in DOMAIN log.events
      BY <2>3 DEF Sends
    <3>. QED BY <2>2, <2>3, <3>1 DEF SendsInv
  <2>4. CASE p \notin Sends(log, Call(r))
    <3>1. PICK e \in E : IsSend(e) /\ e.id = Call(r)
      BY <1>3, <2>4
    <3>2. task[r] = "none" /\ \A d \in E : d.direction # "proxy_to_client"
      <4>1. ~e.id.copy /\ e.id.of = r
        BY <3>1
      <4>. QED BY <1>2, <3>1, <4>1
    <3>3. CASE q \in Shown(log, r)
      <4>1. PICK d \in Recorded : d.direction = "proxy_to_client" /\ d.id = Call(r)
        BY <3>3 DEF Shown, Recorded, Entry
      <4>2. Given(Call(r))
        BY <4>1 DEF TrafficInv, Truthful
      <4>2a. ~Unwritten(r)
        BY <3>2 DEF Unwritten
      <4>2b. Call(r) \in Answers
        BY <4>2, <4>2a DEF Given
      <4>3. Has(toClient, r)
        BY <4>2b DEF Answers, Has
      <4>4. promise[Call(r)] = "unused"
        BY <3>2 DEF CallInv, Unstarted
      <4>. QED BY <3>2, <4>3, <4>4 DEF CallInv, ResponseOnce
    <3>. QED BY <2>2, <3>2, <3>3
  <2>. QED BY <2>3, <2>4
<1>. QED BY <1>4, <1>5, <1>6 DEF SendsInv

LEMMA SendsInvariance == Spec => [](EventsFormed /\ SendsInv)
<1>1. Init => EventsFormed /\ SendsInv
  <2>. SUFFICES ASSUME Init PROVE EventsFormed /\ SendsInv
    OBVIOUS
  <2>1. log.events = <<>>
    BY DEF Init, EmptyLog
  <2>2. Recorded = {}
    BY <2>1 DEF Recorded
  <2>3. \A k : Sends(log, k) = {}
    BY <2>1 DEF Sends
  <2>. QED BY <2>2, <2>3 DEF EventsFormed, SendsInv
<1>2. TypeInv /\ CallInv /\ FramesInv /\ FramesInv' /\ TrafficInv /\ EventsFormed /\ SendsInv /\ [Next]_vars
         => EventsFormed' /\ SendsInv'
  BY EventsFormedStep, SendsStep
<1>. QED BY <1>1, <1>2, FramesInvariance, TrafficInvariance, PTL DEF Spec

-------------------------------------------------------------------------------
(* The mutations of the capture.                                           *)

Denied(m) == chosen[m] # 0 /\ Mutations[chosen[m]].type \in MutationTypes.preflight

\* The task of m has applied the mutation that was chosen for it.
Mutating == {"delaying", "copy_writing", "copy_waiting"}
Acted(m) == \/ m \in Requests /\ task[m] \in Mutating \cup {"undelivered", "done"}
            \/ task[m] # "none" /\ Denied(m)

\* A message that is on its way was not denied, a mutation that was recorded was
\* applied, and one that was applied was recorded.
ToldInv ==
    /\ \A m \in Messages : task[m] = "writing" => ~Denied(m)
    /\ \A m \in Messages : Told(log, m) # {} => \/ Acted(m)
                                                \/ m \in Requests /\ task[m] = "failed"
    /\ ~log.truncated => \A m \in Messages : chosen[m] # 0 /\ Acted(m) => Told(log, m) # {}

LEMMA ToldEntries ==
    ASSUME NEW E, Adds(E), NEW m \in Messages
    PROVE  /\ Told(log, m) \subseteq Told(log', m)
           /\ (\A e \in E : ~IsMutation(e, m)) => Told(log', m) = Told(log, m)
           /\ ~log'.truncated /\ (\E e \in E : IsMutation(e, m)) => Told(log', m) # {}
<1>1. ASSUME NEW p \in Told(log, m) PROVE p \in Told(log', m)
  BY Entries DEF Told
<1>2. ASSUME \A e \in E : ~IsMutation(e, m), NEW p \in Told(log', m) PROVE p \in Told(log, m)
  <2>1. p \in DOMAIN log'.events /\ IsMutation(Entry(log', p), m)
    BY DEF Told
  <2>2. p \in DOMAIN log.events /\ Entry(log', p) = Entry(log, p)
    BY <1>2, <2>1, Entries
  <2>. QED BY <2>1, <2>2 DEF Told
<1>3. ASSUME ~log'.truncated, NEW e \in E, IsMutation(e, m) PROVE Told(log', m) # {}
  <2>1. PICK p \in DOMAIN log'.events : Entry(log', p) = e
    BY <1>3, Entries
  <2>. QED BY <1>3, <2>1 DEF Told
<1>. QED BY <1>1, <1>2, <1>3

LEMMA DeniedStays ==
    ASSUME TypeInv, CallInv, [Next]_vars, NEW m \in Messages, task[m] # "none"
    PROVE  Denied(m)' <=> Denied(m)
<1>1. chosen'[m] = chosen[m]
  BY BegunStays
<1>. QED BY <1>1 DEF Denied

LEMMA ToldStep ==
    ASSUME TypeInv, CallInv, FramesInv, ToldInv, [Next]_vars
    PROVE  ToldInv'
<1>1. PICK E : Adds(E) /\ (\/ Quietly(E)
                           \/ \E m \in Messages : Begins(E, m)
                           \/ \E r \in Requests : Applies(E, r))
  BY StepTale DEF Tale
<1>0. /\ task \in [ClientLines -> TaskStates] /\ Messages \subseteq ClientLines
      /\ Requests \subseteq Messages /\ \A m, n : Call(m) = Call(n) => m = n
      /\ log.truncated => log'.truncated
  BY <1>1, TaskFacts, Entries DEF Messages
<1>. DEFINE Good(m) ==
         /\ task'[m] = "writing" => ~Denied(m)'
         /\ Told(log', m) # {} => \/ Acted(m)'
                                  \/ m \in Requests /\ task'[m] = "failed"
         /\ ~log'.truncated /\ chosen'[m] # 0 /\ Acted(m)' => Told(log', m) # {}
<1>2. ASSUME NEW m \in Messages,
             \A e \in E : ~IsMutation(e, m),
             task'[m] = task[m]
      PROVE  Good(m)
  <2>1. Told(log', m) = Told(log, m)
    BY <1>1, <1>2, ToldEntries
  <2>2. CASE task[m] = "none"
    <3>1. Told(log, m) = {}
      BY <2>2 DEF ToldInv, Acted, Mutating
    <3>. QED BY <1>2, <2>1, <2>2, <3>1 DEF Acted, Mutating
  <2>3. CASE task[m] # "none"
    <3>1. chosen'[m] = chosen[m] /\ (Denied(m)' <=> Denied(m))
      BY <2>3, BegunStays, DeniedStays
    <3>2. Acted(m)' <=> Acted(m)
      BY <1>2, <3>1 DEF Acted
    <3>. QED BY <1>0, <1>2, <2>1, <3>1, <3>2 DEF ToldInv
  <2>. QED BY <2>2, <2>3
<1>3. ASSUME Quietly(E), NEW m \in Messages PROVE Good(m)
  <2>1. Quiets(m) /\ \A e \in E : ~IsMutation(e, m)
    BY <1>3 DEF Quietly, IsMutation
  <2>2. Told(log', m) = Told(log, m)
    BY <1>1, <2>1, ToldEntries
  <2>3. CASE task'[m] = task[m]
    BY <1>2, <2>1, <2>3
  <2>4. CASE task'[m] # task[m]
    <3>1. task[m] # "none"
      BY <2>1, <2>4 DEF Quiets
    <3>2. chosen'[m] = chosen[m] /\ (Denied(m)' <=> Denied(m))
      BY <3>1, BegunStays, DeniedStays
    <3>2a. CASE Denied(m)
      <4>1. Acted(m) /\ Acted(m)' /\ task'[m] # "writing"
        BY <2>1, <2>4, <3>1, <3>2, <3>2a DEF Acted, Quiets
      <4>. QED BY <1>0, <2>2, <3>2, <4>1 DEF ToldInv
    <3>3. CASE ~Denied(m) /\ task[m] = "writing"
      <4>1. Told(log, m) = {} /\ ~Denied(m)
        BY <3>3 DEF ToldInv, Acted, Mutating
      <4>2. task'[m] = "failed" \/ task'[m] = IF m \in Requests THEN "waiting" ELSE "done"
        BY <2>1, <2>4, <3>3 DEF Quiets
      <4>3. ~Acted(m)' /\ task'[m] # "writing"
        BY <3>2, <4>1, <4>2 DEF Acted, Mutating
      <4>. QED BY <2>2, <4>1, <4>3
    <3>4. CASE ~Denied(m) /\ task[m] = "copy_writing"
      <4>1. task'[m] \in {"copy_waiting", "failed"}
        BY <2>1, <2>4, <3>4 DEF Quiets
      <4>2. Acted(m) <=> m \in Requests
        BY <3>4 DEF Acted, Mutating
      <4>3. Acted(m)' => m \in Requests
        BY <3>2, <3>4, <4>1 DEF Acted, Mutating
      <4>4. m \in Requests /\ task'[m] = "copy_waiting" => Acted(m)'
        BY DEF Acted, Mutating
      <4>. QED BY <1>0, <2>2, <3>2, <3>4, <4>1, <4>2, <4>3, <4>4 DEF ToldInv
    <3>5. CASE ~Denied(m) /\ task[m] \in {"copy_waiting", "undelivered"}
      <4>1. task'[m] = "failed"
        BY <2>1, <2>4, <3>5 DEF Quiets
      <4>2. Acted(m) <=> m \in Requests
        BY <3>5 DEF Acted, Mutating
      <4>3. ~Acted(m)'
        BY <3>2, <3>5, <4>1 DEF Acted, Mutating
      <4>. QED BY <2>2, <3>5, <4>1, <4>2, <4>3 DEF ToldInv
    <3>6. CASE ~Denied(m) /\ task[m] = "waiting"
      <4>1. task'[m] = "failed" \/ (task'[m] \in {"undelivered", "done"} /\ chosen[m] = 0)
        BY <2>1, <2>4, <3>6 DEF Quiets
      <4>2. Told(log, m) = {}
        BY <3>6 DEF ToldInv, Acted, Mutating
      <4>3. task'[m] = "failed" => ~Acted(m)'
        BY <3>2, <3>6 DEF Acted, Mutating
      <4>. QED BY <2>2, <3>2, <4>1, <4>2, <4>3
    <3>. QED BY <2>1, <2>4, <3>2a, <3>3, <3>4, <3>5, <3>6 DEF Quiets
  <2>. QED BY <2>3, <2>4
<1>4. ASSUME NEW n \in Messages, Begins(E, n), NEW m \in Messages PROVE Good(m)
  <2>1. /\ chosen'[n] = Selected(n)
        /\ \E v \in {"writing", "undelivered", "done"} : task' = [task EXCEPT ![n] = v]
        /\ \A e \in E : e.kind = "mutation" => e.id = Call(n)
    BY <1>4 DEF Begins, Ends
  <2>2. CASE m # n
    <3>1. task'[m] = task[m]
      BY <1>0, <2>1, <2>2
    <3>2. \A e \in E : ~IsMutation(e, m)
      BY <1>0, <2>1, <2>2 DEF IsMutation
    <3>. QED BY <1>2, <3>1, <3>2
  <2>3. CASE m = n /\ ~Preflighted(n)
    <3>1. task'[m] = "writing" /\ \A e \in E : ~IsMutation(e, m)
      BY <1>0, <1>4, <2>3 DEF Begins, IsMutation
    <3>2. Told(log', m) = Told(log, m)
      BY <1>1, <3>1, ToldEntries
    <3>3. task[m] = "none"
      BY <1>4, <2>3 DEF Begins
    <3>4. Told(log, m) = {}
      BY <3>3 DEF ToldInv, Acted, Mutating
    <3>5. ~Denied(m)'
      BY <2>1, <2>3 DEF Denied, Preflighted
    <3>6. ~Acted(m)'
      BY <3>1, <3>5 DEF Acted, Mutating
    <3>. QED BY <3>2, <3>4, <3>5, <3>6
  <2>4. CASE m = n /\ Preflighted(n)
    <3>1. task'[m] \in {"undelivered", "done"} /\ \E e \in E : IsMutation(e, m)
      BY <1>0, <1>4, <2>4 DEF Begins, Ends
    <3>2. Denied(m)'
      BY <2>1, <2>4 DEF Denied, Preflighted
    <3>3. Acted(m)'
      BY <3>1, <3>2 DEF Acted
    <3>. QED BY <1>1, <3>1, <3>3, ToldEntries
  <2>. QED BY <2>2, <2>3, <2>4
<1>5. ASSUME NEW r \in Requests, Applies(E, r), NEW m \in Messages PROVE Good(m)
  <2>1. /\ \A e \in E : e.kind = "mutation" => e.id = Call(r)
        /\ \E v \in Mutating \cup {"undelivered", "done"} :
              task' = [task EXCEPT ![r] = v]
        /\ \/ task[r] = "waiting" /\ \E e \in E : IsMutation(e, r)
           \/ task[r] \in {"delaying", "copy_waiting"}
        /\ chosen[r] # 0
    BY <1>5 DEF Applies, Ends, Mutating
  <2>2. CASE m # r
    <3>1. task'[m] = task[m]
      BY <1>0, <2>1, <2>2
    <3>2. \A e \in E : ~IsMutation(e, m)
      BY <1>0, <2>1, <2>2 DEF IsMutation
    <3>. QED BY <1>2, <3>1, <3>2
  <2>3. CASE m = r
    <3>1. task'[m] \in Mutating \cup {"undelivered", "done"}
      BY <1>0, <2>1, <2>3
    <3>2. Acted(m)'
      BY <2>3, <3>1 DEF Acted
    <3>3. ~log'.truncated => Told(log', m) # {}
      <4>1. CASE \E e \in E : IsMutation(e, r)
        BY <1>1, <2>3, <4>1, ToldEntries
      <4>2. CASE task[r] \in {"delaying", "copy_waiting"}
        <5>1. Acted(r)
          BY <4>2 DEF Acted, Mutating
        <5>2. ~log.truncated => Told(log, r) # {}
          BY <1>0, <2>1, <5>1 DEF ToldInv
        <5>. QED BY <1>0, <1>1, <2>3, <5>2, ToldEntries
      <4>. QED BY <2>1, <4>1, <4>2
    <3>4. task'[m] # "writing"
      BY <3>1 DEF Mutating
    <3>. QED BY <3>2, <3>3, <3>4
  <2>. QED BY <2>2, <2>3
<1>6. \A m \in Messages : Good(m)
  BY <1>1, <1>3, <1>4, <1>5
<1>. QED BY <1>6 DEF ToldInv

\* Once the body of runStdioProxy settles the tasks, a task that it does not await
\* finds the target closing, and has applied no mutation but a denial.
Late == main \in {"settling", "hashed", "persisted", "returned", "threw"}
Finishing == {"none", "writing", "undelivered", "failed", "done"}
LateInv ==
    Late => /\ closer # "idle"
            /\ \A m \in Messages \ awaited :
                  /\ task[m] \in Finishing
                  /\ Told(log, m) # {} => Denied(m)

LEMMA CloserStays ==
    ASSUME [Next]_vars, closer # "idle"
    PROVE  closer' # "idle"
<1>1. CASE ClientLine \/ TargetLine
  BY <1>1 DEF ClientLine, TargetLine, DenyBeforeCall, ForwardRequest, ForwardNotification,
     ClientReplies, TargetAnswers, TargetSends, TargetWritesStderr, Fail, closing
<1>2. CASE InvalidLine \/ WriteLine \/ WriteBlocks \/ WriteFails \/ WriteDrains
  BY <1>2 DEF InvalidLine, WriteLine, WriteBlocks, WriteFails, WriteDrains, Written, Fail, closing
<1>3. ASSUME NEW r \in Requests, Resume(r) \/ FinishDelay(r) PROVE closer' # "idle"
  BY <1>3 DEF Resume, FinishDelay, ReturnReply, MutateReply, DelayReply, DuplicateCall,
     FinishDuplicate, ReplyRejected, Fail, closing
<1>4. CASE MainDrains \/ MainCloses \/ MainRejects \/ MainHashes \/ MainPersists \/ MainReturns
  BY <1>4 DEF MainDrains, MainCloses, MainRejects, MainHashes, MainPersists, MainReturns, closing
<1>5. ASSUME NEW k \in Keys, RequestTimeout(k) PROVE closer' # "idle"
  BY <1>5 DEF RequestTimeout, closing
<1>6. CASE ClientEnds \/ TargetExits \/ TargetCloses
  BY <1>6 DEF ClientEnds, TargetExits, TargetCloses, Fail, closing
<1>7. CASE \/ RunTimeout \/ Interrupt \/ InterruptAgain \/ CloserTerminates \/ CloserKills
           \/ UNCHANGED vars
  BY <1>7 DEF RunTimeout, Interrupt, InterruptAgain, CloserTerminates, CloserKills, Fail, closing,
     vars
<1>8. ASSUME NEW m \in Requests \cup Notifications, DeliveryFails(m) PROVE closer' # "idle"
  BY <1>8 DEF DeliveryFails, Fail
<1>. QED BY <1>1, <1>2, <1>3, <1>4, <1>5, <1>6, <1>7, <1>8 DEF Next, Prompt, Turn, Terminated

LEMMA LateSteps ==
    ASSUME [Next]_vars, Late'
    PROVE  \/ Late /\ awaited' = awaited
           \/ closer # "idle" /\ awaited' = Started /\ UNCHANGED <<log, task>>
<1>. DEFINE Goal == \/ Late /\ awaited' = awaited
                    \/ closer # "idle" /\ awaited' = Started /\ UNCHANGED <<log, task>>
<1>0. ASSUME UNCHANGED <<main, awaited>> PROVE Goal
  BY <1>0 DEF Late
<1>1. CASE ClientLine \/ TargetLine
  <2>1. awaited' = awaited /\ (main' = main \/ main' = "crashed")
    BY <1>1 DEF ClientLine, TargetLine, DenyBeforeCall, ForwardRequest, ForwardNotification,
       ClientReplies, TargetAnswers, TargetSends, TargetWritesStderr, mainVars
  <2>. QED BY <2>1 DEF Late
<1>2. CASE InvalidLine \/ WriteLine \/ WriteBlocks \/ WriteFails \/ WriteDrains
  BY <1>0, <1>2 DEF InvalidLine, WriteLine, WriteBlocks, WriteFails, WriteDrains, Written, mainVars
<1>3. ASSUME NEW r \in Requests, Resume(r) \/ FinishDelay(r) PROVE Goal
  BY <1>0, <1>3 DEF Resume, FinishDelay, ReturnReply, MutateReply, DelayReply, DuplicateCall,
     FinishDuplicate, ReplyRejected, Deliver, mainVars
<1>4. CASE MainDrains \/ MainCloses
  BY <1>4 DEF MainDrains, MainCloses, Late
<1>5. CASE MainRejects
  BY <1>5 DEF MainRejects, handlers
<1>6. CASE MainHashes \/ MainPersists \/ MainReturns
  BY <1>6 DEF MainHashes, MainPersists, MainReturns, Late
<1>7. ASSUME NEW k \in Keys, RequestTimeout(k) PROVE Goal
  BY <1>0, <1>7 DEF RequestTimeout, mainVars
<1>8. CASE TargetCloses
  <2>1. awaited' = awaited /\ (main' = main \/ main' = "crashed")
    BY <1>8 DEF TargetCloses, RejectPending
  <2>. QED BY <2>1 DEF Late
<1>9. CASE \/ ClientEnds \/ TargetExits \/ RunTimeout \/ Interrupt \/ CloserTerminates \/ CloserKills
           \/ UNCHANGED vars
  BY <1>0, <1>9 DEF ClientEnds, TargetExits, RunTimeout, Interrupt, CloserTerminates, CloserKills,
     mainVars, vars
<1>10. ASSUME NEW m \in Requests \cup Notifications, DeliveryFails(m) PROVE Goal
  BY <1>0, <1>10 DEF DeliveryFails, mainVars
<1>11. CASE InterruptAgain
  BY <1>11 DEF InterruptAgain, Late
<1>. QED
  BY <1>1, <1>2, <1>3, <1>4, <1>5, <1>6, <1>7, <1>8, <1>9, <1>10, <1>11
  DEF Next, Prompt, Turn, Terminated

LEMMA LateStep ==
    ASSUME TypeInv, CallInv, FramesInv, ToldInv, LateInv, [Next]_vars
    PROVE  LateInv'
<1>. DEFINE Good(m) == task'[m] \in Finishing /\ (Told(log', m) # {} => Denied(m)')
<1>. SUFFICES ASSUME Late' PROVE closer' # "idle" /\ \A m \in Messages \ awaited' : Good(m)
  BY DEF LateInv
<1>1. CASE closer # "idle" /\ awaited' = Started /\ UNCHANGED <<log, task>>
  <2>1. ASSUME NEW m \in Messages \ awaited' PROVE task[m] = "none" /\ Told(log, m) = {}
    <3>1. task[m] = "none"
      BY <1>1 DEF Started, Messages
    <3>. QED BY <3>1 DEF ToldInv, Acted, Mutating
  <2>. QED BY <1>1, <2>1, CloserStays DEF Finishing
<1>2. CASE Late /\ awaited' = awaited
  <2>1. closer # "idle" /\ closer' # "idle"
    BY <1>2, CloserStays DEF LateInv
  <2>2. PICK E : Adds(E) /\ (\/ Quietly(E)
                             \/ \E m \in Messages : Begins(E, m)
                             \/ \E r \in Requests : Applies(E, r))
    BY StepTale DEF Tale
  <2>0. /\ task \in [ClientLines -> TaskStates] /\ Messages \subseteq ClientLines
        /\ \A m, n : Call(m) = Call(n) => m = n
    BY TaskFacts DEF Messages
  <2>. SUFFICES ASSUME NEW m \in Messages, m \notin awaited PROVE Good(m)
    BY <1>2, <2>1
  <2>3. task[m] \in Finishing /\ (Told(log, m) # {} => Denied(m))
    BY <1>2 DEF LateInv
  <2>4. task[m] = "none" => Told(log, m) = {}
    BY DEF ToldInv, Acted, Mutating
  <2>5. Told(log, m) # {} => Denied(m)'
    BY <2>3, <2>4, DeniedStays
  <2>6. ASSUME \A e \in E : ~IsMutation(e, m) PROVE Told(log', m) # {} => Denied(m)'
    BY <2>2, <2>5, <2>6, ToldEntries
  <2>7. CASE Quietly(E)
    <3>1. Quiets(m) /\ \A e \in E : ~IsMutation(e, m)
      BY <2>7 DEF Quietly, IsMutation
    <3>2. task'[m] \in Finishing
      BY <2>1, <2>3, <3>1 DEF Quiets, Finishing
    <3>. QED BY <2>6, <3>1, <3>2
  <2>8. ASSUME NEW n \in Messages, Begins(E, n) PROVE Good(m)
    <3>1. /\ \A e \in E : e.kind = "mutation" => e.id = Call(n)
          /\ \E v \in Finishing : task' = [task EXCEPT ![n] = v]
          /\ Preflighted(n) \/ \A e \in E : ~IsMutation(e, n)
          /\ chosen'[n] = Selected(n)
      BY <2>8 DEF Begins, Ends, IsMutation, Finishing
    <3>2. task'[m] \in Finishing
      BY <2>0, <2>3, <3>1
    <3>3. CASE m # n \/ ~Preflighted(n)
      <4>1. \A e \in E : ~IsMutation(e, m)
        BY <2>0, <3>1, <3>3 DEF IsMutation
      <4>. QED BY <2>6, <3>2, <4>1
    <3>4. CASE m = n /\ Preflighted(n)
      <4>1. Denied(m)'
        BY <3>1, <3>4 DEF Denied, Preflighted
      <4>. QED BY <3>2, <4>1
    <3>. QED BY <3>3, <3>4
  <2>9. ASSUME NEW r \in Requests, Applies(E, r) PROVE Good(m)
    <3>1. /\ \A e \in E : e.kind = "mutation" => e.id = Call(r)
          /\ task[r] \in {"waiting", "delaying", "copy_waiting"}
          /\ \E v \in {"undelivered", "done", "delaying", "copy_writing"} :
                task' = [task EXCEPT ![r] = v]
      BY <2>9 DEF Applies, Ends
    <3>2. m # r
      BY <2>3, <3>1 DEF Finishing
    <3>3. task'[m] = task[m] /\ \A e \in E : ~IsMutation(e, m)
      BY <2>0, <3>1, <3>2 DEF IsMutation
    <3>. QED BY <2>3, <2>6, <3>3
  <2>. QED BY <2>2, <2>7, <2>8, <2>9
<1>. QED BY <1>1, <1>2, LateSteps

LEMMA ToldInvariance == Spec => [](ToldInv /\ LateInv)
<1>1. Init => ToldInv /\ LateInv
  <2>. SUFFICES ASSUME Init PROVE ToldInv /\ LateInv
    OBVIOUS
  <2>1. log.events = <<>> /\ \A m \in Messages : task[m] = "none"
    BY DEF Init, EmptyLog, Messages
  <2>2. \A m : Told(log, m) = {}
    BY <2>1 DEF Told
  <2>3. main = "racing"
    BY DEF Init
  <2>. QED BY <2>1, <2>2, <2>3 DEF ToldInv, LateInv, Late, Acted, Mutating
<1>2. TypeInv /\ CallInv /\ FramesInv /\ ToldInv /\ LateInv /\ [Next]_vars => ToldInv' /\ LateInv'
  BY ToldStep, LateStep
<1>. QED BY <1>1, <1>2, FramesInvariance, PTL DEF Spec
=============================================================================
