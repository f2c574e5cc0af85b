--------------------------- MODULE HostedStoreProofs ---------------------------
(***************************************************************************)
(* Theorems about HostedStore for every set of records and requests, every *)
(* limit and retention, and every order of operations, failures, restarts  *)
(* and crashes.                                                            *)
(***************************************************************************)
EXTENDS HostedStore, TLAPS, FiniteSetTheorems, FunctionTheorems, SequenceTheorems

-------------------------------------------------------------------------------
(* The inductive invariant.                                                *)

Holds(q, r) == \E i \in DOMAIN q : q[i] = r
Distinct(q) == \A i, j \in DOMAIN q : q[i] = q[j] => i = j

Serving == phase \in {"up", "stopping", "closing"} /\ op.step # "idle"

\* A request is answered unless its connection is open or was lost.
ClientsAgree ==
    \A r \in Requests :
        /\ stage[r] = "new" => r \notin open /\ answer[r] = "none"
        /\ stage[r] = "reading" => r \in open
        /\ stage[r] = "queued" /\ r \notin open => answer[r] = "lost"
        /\ r \in open => stage[r] \in {"reading", "queued"} /\ answer[r] = "none"
        /\ arrived[r] <= now

\* No request is queued twice, and nothing is while the service is not up.
QueueOfOpen ==
    /\ Distinct(queue)
    /\ phase \in {"starting", "down"} => queue = <<>> /\ open = {}

\* The steps of an operation are those of its kind.
StepsOfKind ==
    /\ op.step = "idle" => op = Idle
    /\ phase = "down" => op.step = "idle"
    /\ phase = "starting" => op.step \in {"scan", "prune", "answer"} /\ ~op.again
    /\ op.time <= now
    /\ Serving =>
           /\ queue # <<>>
           /\ op.step = "unlink" => Doing("delete")
           /\ op.step \in {"scan", "prune"} => ~Doing("delete")
           /\ op.step \in {"open", "rename"} => Doing("upload") /\ ~op.again
           /\ op.step = "sync" => Doing("upload") \/ Doing("delete")
           /\ op.step = "answer" /\ Doing("upload") => op.again
           /\ op.again => Doing("upload")

\* The request's upload has named its file.
Named(r) == Serving /\ Head(queue) = r /\ (op.step = "sync" \/ op.again)

\* A record has a time once its file has had its name, and not before.
RecordsAreMade ==
    /\ \A id \in dir \cup unsynced : created[id] # Never
    /\ \A r \in Requests :
          Asked[r].kind = "upload" /\ stage[r] # "done" =>
              (created[Asked[r].id] # Never <=> Named(r))

\* What an operation that reports success has synced.
SyncedWhenTold ==
    /\ op.again /\ op.step \in {"scan", "answer"} => unsynced = {}
    /\ Serving /\ Doing("delete") /\ op.step \in {"sync", "answer"} =>
           Record \notin dir /\ (op.step = "answer" /\ op.found => unsynced = {})

\* No record of the set had expired when the client in turn arrived.
FreshFor(ids) ==
    Owner # Service => \A id \in ids : created[id] + Retention > arrived[Owner]

Kept == (Readable \ op.expired) \ op.overflow

\* What a pruning has still to remove, and what it leaves.
PruningIsRight ==
    /\ op.step = "prune" =>
           /\ op.expired \cup op.overflow \subseteq Readable
           /\ op.expired \cap op.overflow = {}
           /\ \A id \in op.expired : Promise!Expired(id)
           /\ Cardinality(Kept) <= MaxStored
           /\ op.overflow # {} => Cardinality(Kept) = MaxStored
           /\ \A i \in op.overflow, j \in Kept : Promise!Older(i, j)
           /\ FreshFor(Readable \ op.expired)
    /\ op.step = "answer" /\ ~Doing("delete") =>
           Cardinality(Readable) <= MaxStored /\ FreshFor(Readable)

\* A temporary file is that of the record being written, or a crash has left it.
TempsAreWritten ==
    temps # {} => crashes > 0 \/ (op.step = "rename" /\ temps = {Record})

StoreInv ==
    /\ TypeOK /\ ClientsAgree /\ QueueOfOpen /\ StepsOfKind
    /\ RecordsAreMade /\ SyncedWhenTold /\ PruningIsRight /\ TempsAreWritten

-------------------------------------------------------------------------------
(* The oldest records of a set: as many as are above the limit.            *)

LEMMA Limits ==
    /\ MaxStored \in Nat \ {0} /\ Retention \in Nat \ {0}
    /\ MaxTime \in Nat /\ MaxMishaps \in Nat /\ Never \notin Nat
BY HostedAssumption

LEMMA OlderFirst ==
    ASSUME NEW S, S \subseteq Ids, \A k \in S : created[k] \in Nat,
           NEW i \in S, NEW j \in S, Promise!Older(i, j)
    PROVE  Rank(i, S) < Rank(j, S)
<1>. DEFINE before(x) == {k \in S : Promise!Older(k, x)}
<1>0. \A k \in S : k \in Nat
  BY HostedAssumption
<1>1. before(i) \subseteq before(j)
  BY <1>0 DEF Promise!Older
<1>2. i \in before(j) /\ i \notin before(i)
  BY <1>0 DEF Promise!Older
<1>3. IsFiniteSet(S) /\ IsFiniteSet(before(j))
  BY HostedAssumption, FS_Subset, before(j) \subseteq S
<1>4. /\ IsFiniteSet(before(i)) /\ Cardinality(before(i)) <= Cardinality(before(j))
      /\ Cardinality(before(i)) # Cardinality(before(j))
  BY <1>1, <1>2, <1>3, FS_Subset
<1>5. Cardinality(before(i)) \in Nat /\ Cardinality(before(j)) \in Nat
  BY <1>3, <1>4, FS_CardinalityType
<1>. QED BY <1>4, <1>5 DEF Rank

LEMMA Ranking ==
    ASSUME NEW S, S \subseteq Ids, \A k \in S : created[k] \in Nat
    PROVE  /\ IsFiniteSet(S) /\ Cardinality(S) \in Nat
           /\ \A i \in S : Rank(i, S) \in 0..(Cardinality(S) - 1)
           /\ \A i, j \in S : Rank(i, S) = Rank(j, S) => i = j
           /\ \A n \in 0..(Cardinality(S) - 1) : \E i \in S : Rank(i, S) = n
<1>. DEFINE N == Cardinality(S)
            f == [i \in S |-> Rank(i, S)]
<1>1. IsFiniteSet(S) /\ N \in Nat
  BY HostedAssumption, FS_Subset, FS_CardinalityType
<1>2. ASSUME NEW i \in S PROVE Rank(i, S) \in 0..(N - 1)
  <2>. DEFINE before == {k \in S : Promise!Older(k, i)}
  <2>1. IsFiniteSet(before) /\ Cardinality(before) <= N /\ (Cardinality(before) = N => before = S)
    BY <1>1, FS_Subset
  <2>2. i \notin before
    BY HostedAssumption DEF Promise!Older
  <2>3. Cardinality(before) \in Nat
    BY <2>1, FS_CardinalityType
  <2>. QED BY <1>1, <2>1, <2>2, <2>3 DEF Rank
<1>3. ASSUME NEW i \in S, NEW j \in S, Rank(i, S) = Rank(j, S) PROVE i = j
  <2>1. ~Promise!Older(i, j) /\ ~Promise!Older(j, i)
    BY <1>2, <1>3, OlderFirst
  <2>. QED BY <2>1, HostedAssumption DEF Promise!Older
<1>4. f \in Injection(S, 0..(N - 1))
  <2>1. f \in [S -> 0..(N - 1)]
    BY <1>2
  <2>2. \A a, b \in S : f[a] = f[b] => a = b
    BY <1>3
  <2>. QED BY <2>1, <2>2, Fun_IsInj
<1>5. IsFiniteSet(0..(N - 1)) /\ Cardinality(0..(N - 1)) = N
  BY <1>1, FS_Interval
<1>6. f \in Surjection(S, 0..(N - 1))
  BY <1>4, <1>5, FS_Injection
<1>7. ASSUME NEW n \in 0..(N - 1) PROVE \E i \in S : Rank(i, S) = n
  <2>. DEFINE D == 0..(N - 1)
  <2>. HIDE DEF f, D
  <2>1. f \in Surjection(S, D)
    BY <1>6 DEF D
  <2>2. \A m \in D : \E i \in S : f[i] = m
    BY <2>1, Fun_SurjectionProperties
  <2>3. PICK i \in S : f[i] = n
    BY <1>7, <2>2 DEF D
  <2>. QED BY <2>3 DEF f
<1>. QED BY <1>1, <1>2, <1>3, <1>7

\* What is left when the overflow is gone.
LEMMA OverflowLeaves ==
    ASSUME NEW S, S \subseteq Ids, \A k \in S : created[k] \in Nat
    PROVE  /\ Overflow(S) \subseteq S
           /\ Cardinality(S \ Overflow(S)) <= MaxStored
           /\ Overflow(S) # {} => Cardinality(S \ Overflow(S)) = MaxStored
           /\ \A i \in Overflow(S), j \in S \ Overflow(S) : Promise!Older(i, j)
<1>. DEFINE N == Cardinality(S)
            T == S \ Overflow(S)
<1>1. Overflow(S) \subseteq S
  BY DEF Overflow
<1>2. IsFiniteSet(S) /\ N \in Nat
  BY Ranking
<1>3. /\ \A i \in S : Rank(i, S) \in 0..(N - 1)
      /\ \A i, j \in S : Rank(i, S) = Rank(j, S) => i = j
      /\ \A n \in 0..(N - 1) : \E i \in S : Rank(i, S) = n
  BY Ranking
<1>4. ASSUME NEW i \in Overflow(S), NEW j \in T PROVE Promise!Older(i, j)
  <2>1. i \in S /\ j \in S /\ Rank(i, S) < N - MaxStored /\ ~(Rank(j, S) < N - MaxStored)
    BY DEF Overflow
  <2>2. ~Promise!Older(j, i)
    BY <1>2, <1>3, <2>1, Limits, OlderFirst
  <2>3. i # j
    BY <2>1
  <2>. QED BY <2>1, <2>2, <2>3, HostedAssumption DEF Promise!Older
<1>5. CASE N <= MaxStored
  <2>1. Overflow(S) = {}
    BY <1>2, <1>3, <1>5, Limits DEF Overflow
  <2>. QED BY <1>5, <2>1
<1>6. CASE N > MaxStored
  <2>. DEFINE g == [i \in T |-> Rank(i, S)]
              Above == (N - MaxStored)..(N - 1)
  <2>1. T = {i \in S : Rank(i, S) \in Above}
    BY <1>2, <1>3, Limits DEF Overflow
  <2>2. g \in [T -> Above]
    BY <2>1
  <2>3. \A i, j \in T : g[i] = g[j] => i = j
    BY <1>3
  <2>4. \A n \in Above : \E i \in T : g[i] = n
    <3>. SUFFICES ASSUME NEW n \in Above PROVE \E i \in T : g[i] = n
      OBVIOUS
    <3>1. n \in 0..(N - 1)
      BY <1>2, <1>6, Limits
    <3>2. PICK i \in S : Rank(i, S) = n
      BY <1>3, <3>1
    <3>. QED BY <2>1, <3>2
  <2>5. ExistsBijection(T, Above)
    <3>. HIDE DEF g, T, Above
    <3>1. g \in Bijection(T, Above)
      BY <2>2, <2>3, <2>4, Fun_IsBij
    <3>. QED BY <3>1, Fun_ExistsBij
  <2>6. IsFiniteSet(T) /\ IsFiniteSet(Above) /\ Cardinality(Above) = MaxStored
    <3>1. IsFiniteSet(T)
      BY <1>2, FS_Subset, T \subseteq S
    <3>2. N - MaxStored \in Int /\ N - 1 \in Int /\ N - 1 - (N - MaxStored) + 1 = MaxStored
          /\ N - MaxStored <= N - 1
      BY <1>2, <1>6, Limits
    <3>. QED BY <3>1, <3>2, FS_Interval
  <2>7. Cardinality(T) = MaxStored
    BY <2>5, <2>6, FS_Bijection
  <2>. QED BY <1>1, <1>4, <2>7, Limits
<1>. QED BY <1>1, <1>2, <1>4, <1>5, <1>6, Limits

-------------------------------------------------------------------------------
(* The queue.                                                              *)

LEMMA QueueGrows ==
    ASSUME NEW q \in Seq(Requests), NEW r \in Requests, Distinct(q), ~Holds(q, r)
    PROVE  /\ Append(q, r) \in Seq(Requests) /\ Distinct(Append(q, r)) /\ Append(q, r) # <<>>
           /\ \A s \in Requests : Holds(Append(q, r), s) <=> Holds(q, s) \/ s = r
           /\ q # <<>> => Head(Append(q, r)) = Head(q)
<1>. DEFINE t == Append(q, r)
<1>1. /\ t \in Seq(Requests) /\ t # <<>> /\ DOMAIN t = 1..(Len(q) + 1) /\ DOMAIN q = 1..Len(q)
      /\ Len(q) \in Nat /\ \A i \in 1..Len(q) : t[i] = q[i]
      /\ t[Len(q) + 1] = r
  OBVIOUS
<1>. HIDE DEF t
<1>2. Distinct(t)
  BY <1>1 DEF Distinct, Holds
<1>3. ASSUME NEW s \in Requests PROVE Holds(t, s) <=> Holds(q, s) \/ s = r
  <2>1. Holds(t, s) => Holds(q, s) \/ s = r
    BY <1>1 DEF Holds
  <2>2. Holds(q, s) \/ s = r => Holds(t, s)
    BY <1>1 DEF Holds
  <2>. QED BY <2>1, <2>2
<1>4. ASSUME q # <<>> PROVE Head(t) = Head(q)
  <2>1. Head(t) = IF q = <<>> THEN r ELSE Head(q)
    BY HeadTailAppend DEF t
  <2>. QED BY <1>4, <2>1
<1>. QED BY <1>1, <1>2, <1>3, <1>4 DEF t

LEMMA QueueShrinks ==
    ASSUME NEW q \in Seq(Requests), Distinct(q), q # <<>>
    PROVE  /\ Tail(q) \in Seq(Requests) /\ Distinct(Tail(q))
           /\ Head(q) \in Requests /\ Holds(q, Head(q))
           /\ \A s \in Requests : Holds(Tail(q), s) <=> Holds(q, s) /\ s # Head(q)
<1>. DEFINE t == Tail(q)
<1>1. /\ t \in Seq(Requests) /\ DOMAIN q = 1..Len(q) /\ Len(q) \in Nat /\ Len(q) > 0
      /\ Head(q) = q[1] /\ DOMAIN t = 1..(Len(q) - 1)
      /\ \A i \in 1..(Len(q) - 1) : t[i] = q[i + 1]
      /\ \A i \in 1..Len(q) : q[i] \in Requests
  OBVIOUS
<1>. HIDE DEF t
<1>2. Distinct(t)
  <2>. SUFFICES ASSUME NEW i \in DOMAIN t, NEW j \in DOMAIN t, t[i] = t[j] PROVE i = j
    BY DEF Distinct
  <2>1. i + 1 \in DOMAIN q /\ j + 1 \in DOMAIN q /\ q[i + 1] = q[j + 1]
    BY <1>1
  <2>2. i + 1 = j + 1
    BY <2>1 DEF Distinct
  <2>. QED BY <1>1, <2>2
<1>3. Head(q) \in Requests /\ Holds(q, Head(q))
  BY <1>1 DEF Holds
<1>4. ASSUME NEW s \in Requests PROVE Holds(t, s) <=> Holds(q, s) /\ s # Head(q)
  <2>1. Holds(t, s) => Holds(q, s) /\ s # Head(q)
    BY <1>1, SMTT(60) DEF Holds, Distinct
  <2>2. ASSUME Holds(q, s), s # Head(q) PROVE Holds(t, s)
    <3>1. PICK i \in 1..Len(q) : q[i] = s
      BY <1>1, <2>2 DEF Holds
    <3>2. i - 1 \in DOMAIN t /\ t[i - 1] = s
      BY <1>1, <2>2, <3>1
    <3>. QED BY <3>2 DEF Holds
  <2>. QED BY <2>1, <2>2
<1>. QED BY <1>1, <1>2, <1>3, <1>4 DEF t

-------------------------------------------------------------------------------
(* Steps of clients and of the clock.                                      *)

LEMMA Made ==
    ASSUME StoreInv
    PROVE  /\ \A id \in dir \cup unsynced : id \in Ids /\ created[id] \in Nat /\ created[id] <= MaxTime
           /\ now \in Nat /\ Readable \subseteq dir /\ \A r \in Requests : arrived[r] \in Nat
BY Limits DEF StoreInv, TypeOK, RecordsAreMade, Readable

LEMMA Owned ==
    ASSUME StoreInv, op.step # "idle"
    PROVE  \/ /\ phase = "starting" /\ Owner = Service /\ ~Serving
              /\ \A kind : ~Doing(kind)
           \/ /\ phase \in {"up", "stopping", "closing"} /\ Serving /\ queue # <<>>
              /\ Owner = Head(queue) /\ Owner \in Requests /\ Owner # Service
              /\ stage[Owner] = "queued" /\ Record \in Ids
              /\ \A kind : Doing(kind) <=> Asked[Owner].kind = kind
<1>1. CASE phase = "starting"
  BY <1>1 DEF Owner, Serving, Doing
<1>2. CASE phase \in {"up", "stopping", "closing"}
  <2>1. Serving /\ queue # <<>> /\ Owner = Head(queue)
    BY <1>2 DEF StoreInv, StepsOfKind, Serving, Owner
  <2>2. queue \in Seq(Requests) /\ Distinct(queue)
    BY DEF StoreInv, TypeOK, QueueOfOpen
  <2>3. Owner \in Requests /\ Holds(queue, Owner)
    BY <2>1, <2>2, QueueShrinks
  <2>4. stage[Owner] = "queued"
    BY <2>3 DEF StoreInv, TypeOK, Holds
  <2>5. Record \in Ids /\ Owner # Service
    BY <2>3, HostedAssumption DEF Record
  <2>. QED BY <1>2, <2>1, <2>3, <2>4, <2>5 DEF Doing
<1>. QED BY <1>1, <1>2 DEF StoreInv, TypeOK, StepsOfKind

LEMMA OpTypes ==
    ASSUME StoreInv
    PROVE  /\ op \in Operation /\ op.step \in Steps /\ op.expired \subseteq Ids
           /\ op.overflow \subseteq Ids /\ op.again \in BOOLEAN /\ op.time \in 0..MaxTime
           /\ op.found \in BOOLEAN
BY DEF StoreInv, TypeOK, Operation

\* What a step of an operation leaves as it is.
LEMMA OperationFrame ==
    ASSUME StoreInv, UNCHANGED <<now, phase, clients, queue, bounds>>, op' \in Operation,
           dir' \subseteq Ids, unsynced' \subseteq Ids, temps' \subseteq Ids,
           created' \in [Ids -> 0..MaxTime \cup {Never}]
    PROVE  /\ TypeOK' /\ ClientsAgree' /\ QueueOfOpen'
           /\ Owner' = Owner /\ Record' = Record /\ \A kind : Doing(kind)' <=> Doing(kind)
<1>1. TypeOK'
  BY DEF StoreInv, TypeOK, clients, bounds
<1>2. ClientsAgree' /\ QueueOfOpen'
  BY DEF StoreInv, ClientsAgree, QueueOfOpen, clients
<1>3. Owner' = Owner
  BY DEF Owner
<1>. QED BY <1>1, <1>2, <1>3 DEF Record, Doing

LEMMA TickStep == ASSUME StoreInv, Tick PROVE StoreInv'
<1>1. /\ UNCHANGED <<phase, clients, queue, op, files, created, bounds>>
      /\ now \in 0..MaxTime /\ now' = now + 1 /\ now' \in 0..MaxTime
  BY Limits DEF Tick, StoreInv, TypeOK
<1>2. TypeOK' /\ ClientsAgree' /\ QueueOfOpen'
  BY <1>1 DEF StoreInv, TypeOK, ClientsAgree, QueueOfOpen, clients, files, bounds
<1>3. StepsOfKind' /\ RecordsAreMade' /\ SyncedWhenTold' /\ TempsAreWritten'
  BY <1>1 DEF StoreInv, TypeOK, Operation, StepsOfKind, RecordsAreMade, SyncedWhenTold, TempsAreWritten, Named,
              Serving, Doing, Owner, Record, clients, files, bounds
<1>4. PruningIsRight'
  BY <1>1, Made, Limits DEF StoreInv, TypeOK, PruningIsRight, clients, files, bounds, Doing, Owner,
              Promise!Expired, Promise!Older, FreshFor, Kept, Readable
<1>. QED BY <1>2, <1>3, <1>4 DEF StoreInv

-------------------------------------------------------------------------------
(* Steps of operations.                                                    *)

LEMMA BeginStep == ASSUME StoreInv, Begin PROVE StoreInv'
<1>. DEFINE first == IF Doing("delete") THEN "unlink" ELSE "scan"
<1>1. /\ UNCHANGED <<now, phase, clients, queue, bounds, files, created>>
      /\ phase \in {"up", "stopping", "closing"} /\ op.step = "idle" /\ queue # <<>>
      /\ op' = [Idle EXCEPT !.step = first]
  BY DEF Begin, Up
<1>2. /\ op' \in Operation /\ op'.step = first /\ op'.again = FALSE /\ op'.time = 0
      /\ op'.expired = {} /\ op'.overflow = {} /\ op'.found = FALSE
  <2>1. first \in Steps /\ 0 \in 0..MaxTime
    BY Limits DEF Steps
  <2>. HIDE DEF first
  <2>. QED BY <1>1, <2>1 DEF Idle, Operation
<1>3. /\ TypeOK' /\ ClientsAgree' /\ QueueOfOpen'
      /\ Owner' = Owner /\ Record' = Record /\ \A kind : Doing(kind)' <=> Doing(kind)
  BY <1>1, <1>2, OperationFrame DEF StoreInv, TypeOK, files
<1>4. StepsOfKind'
  BY <1>1, <1>2, <1>3, Made DEF StoreInv, StepsOfKind, Serving
<1>5. RecordsAreMade'
  <2>1. \A r \in Requests : ~Named(r) /\ ~Named(r)'
    BY <1>1, <1>2 DEF Named, Serving
  <2>. QED BY <1>1, <2>1 DEF StoreInv, RecordsAreMade, files, clients
<1>6. SyncedWhenTold' /\ PruningIsRight' /\ TempsAreWritten'
  BY <1>1, <1>2, <1>3 DEF StoreInv, SyncedWhenTold, PruningIsRight, TempsAreWritten, files, bounds
<1>. QED BY <1>3, <1>4, <1>5, <1>6 DEF StoreInv

LEMMA ScanStep == ASSUME StoreInv, Scan PROVE StoreInv'
<1>. DEFINE expired == {id \in Readable : Promise!Expired(id)}
            overflow == Overflow(Readable \ expired)
            next == IF expired \cup overflow = {} THEN Then ELSE "prune"
<1>1. /\ UNCHANGED <<now, phase, clients, queue, bounds, files, created>>
      /\ op.step = "scan"
      /\ op' = [op EXCEPT !.step = next, !.expired = expired, !.overflow = overflow]
  BY DEF Scan
<1>2. next \in {"prune", "open", "answer"} /\ next \in Steps
  BY DEF Then, Steps
<1>3. /\ Readable \subseteq Ids /\ Readable \ expired \subseteq Ids
      /\ \A k \in Readable \ expired : created[k] \in Nat
  BY Made
<1>4. /\ overflow \subseteq Readable \ expired
      /\ Cardinality((Readable \ expired) \ overflow) <= MaxStored
      /\ overflow # {} => Cardinality((Readable \ expired) \ overflow) = MaxStored
      /\ \A i \in overflow, j \in (Readable \ expired) \ overflow : Promise!Older(i, j)
  BY <1>3, OverflowLeaves
<1>5. ASSUME Owner # Service, NEW id \in Readable \ expired
      PROVE  created[id] + Retention > arrived[Owner]
  <2>1. Owner \in Requests /\ arrived[Owner] <= now
    BY <1>1, <1>5, Owned DEF StoreInv, ClientsAgree
  <2>. QED BY <2>1, Made, Limits DEF Promise!Expired
<1>. HIDE DEF expired, overflow, next
<1>6. /\ op' \in Operation /\ op'.step = next /\ op'.expired = expired /\ op'.overflow = overflow
      /\ op'.again = op.again /\ op'.time = op.time /\ op'.found = op.found
  BY <1>1, <1>2, <1>3, <1>4, OpTypes DEF Operation, expired
<1>7. /\ TypeOK' /\ ClientsAgree' /\ QueueOfOpen'
      /\ Owner' = Owner /\ Record' = Record /\ \A kind : Doing(kind)' <=> Doing(kind)
  BY <1>1, <1>6, OperationFrame DEF StoreInv, TypeOK, files
<1>8. StepsOfKind'
  BY <1>1, <1>2, <1>6, <1>7, Owned DEF StoreInv, StepsOfKind, Serving, next, Then
<1>9. RecordsAreMade'
  BY <1>1, <1>2, <1>6, <1>7 DEF StoreInv, RecordsAreMade, Named, Serving, files, clients
<1>10. SyncedWhenTold'
  BY <1>1, <1>2, <1>6, <1>7, Owned DEF StoreInv, SyncedWhenTold, StepsOfKind, Serving, files
<1>11. PruningIsRight'
  <2>1. Readable' = Readable /\ created' = created /\ arrived' = arrived /\ now' = now
    BY <1>1 DEF Readable, files, clients
  <2>2. next = "prune" \/ (expired = {} /\ overflow = {})
    BY DEF next
  <2>3. \A id \in expired : Promise!Expired(id)' /\ id \in Readable
    BY <2>1 DEF expired, Promise!Expired
  <2>. QED BY <1>2, <1>4, <1>5, <1>6, <1>7, <2>1, <2>2, <2>3
           DEF PruningIsRight, Kept, FreshFor, Promise!Older
<1>12. TempsAreWritten'
  BY <1>1, <1>2, <1>6, <1>7 DEF StoreInv, TempsAreWritten, files, bounds
<1>. QED BY <1>7, <1>8, <1>9, <1>10, <1>11, <1>12 DEF StoreInv

LEMMA PruneStep == ASSUME StoreInv, NEW id \in Ids, Prune(id) PROVE StoreInv'
<1>1. /\ UNCHANGED <<now, phase, clients, queue, bounds, temps, created>>
      /\ op.step = "prune" /\ id \in op.expired \cup op.overflow
      /\ dir' = dir \ {id} /\ unsynced' = unsynced \cup {id}
      /\ op' = [op EXCEPT !.expired = @ \ {id}, !.overflow = @ \ {id}]
  BY DEF Prune
<1>2. /\ op' \in Operation /\ op'.step = "prune" /\ op'.expired = op.expired \ {id}
      /\ op'.overflow = op.overflow \ {id}
      /\ op'.again = op.again /\ op'.time = op.time /\ op'.found = op.found
  <2>. DEFINE expired == op.expired \ {id}
              overflow == op.overflow \ {id}
  <2>1. op' = [op EXCEPT !.expired = expired, !.overflow = overflow]
    BY <1>1
  <2>2. expired \subseteq Ids /\ overflow \subseteq Ids
    BY OpTypes
  <2>. HIDE DEF expired, overflow
  <2>3. /\ op' \in Operation /\ op'.step = "prune" /\ op'.expired = expired
        /\ op'.overflow = overflow
        /\ op'.again = op.again /\ op'.time = op.time /\ op'.found = op.found
    BY <1>1, <2>1, <2>2, OpTypes DEF Operation
  <2>. QED BY <2>3 DEF expired, overflow
<1>3. /\ TypeOK' /\ ClientsAgree' /\ QueueOfOpen'
      /\ Owner' = Owner /\ Record' = Record /\ \A kind : Doing(kind)' <=> Doing(kind)
  BY <1>1, <1>2, OperationFrame DEF StoreInv, TypeOK
<1>4. StepsOfKind'
  BY <1>1, <1>2, <1>3 DEF StoreInv, StepsOfKind, Serving
<1>5. RecordsAreMade'
  <2>1. \A r \in Requests : Named(r)' <=> Named(r)
    BY <1>1, <1>2 DEF Named, Serving
  <2>2. id \in dir
    BY <1>1, Made DEF StoreInv, PruningIsRight
  <2>. QED BY <1>1, <2>1, <2>2 DEF StoreInv, RecordsAreMade, clients
<1>6. SyncedWhenTold'
  BY <1>1, <1>2, <1>3 DEF SyncedWhenTold
<1>7. PruningIsRight'
  <2>1. /\ Readable' = Readable \ {id} /\ created' = created /\ arrived' = arrived /\ now' = now
    BY <1>1 DEF Readable, clients
  <2>2. Kept' = Kept
    BY <1>1, <1>2, <2>1 DEF Kept
  <2>. QED BY <1>1, <1>2, <1>3, <2>1, <2>2
           DEF StoreInv, PruningIsRight, FreshFor, Promise!Older, Promise!Expired
<1>8. TempsAreWritten'
  BY <1>1, <1>2, <1>3 DEF StoreInv, TempsAreWritten, bounds
<1>. QED BY <1>3, <1>4, <1>5, <1>6, <1>7, <1>8 DEF StoreInv

LEMMA PrunedStep == ASSUME StoreInv, Pruned PROVE StoreInv'
<1>1. /\ UNCHANGED <<now, phase, clients, queue, bounds, dir, temps, created>>
      /\ op.step = "prune" /\ op.expired = {} /\ op.overflow = {}
      /\ unsynced' = {} /\ op' = [op EXCEPT !.step = Then]
  BY DEF Pruned
<1>2. /\ op' \in Operation /\ op'.step = Then /\ op'.expired = {} /\ op'.overflow = {}
      /\ op'.again = op.again /\ op'.time = op.time /\ op'.found = op.found
  BY <1>1, OpTypes DEF Operation, Then, Steps
<1>3. /\ TypeOK' /\ ClientsAgree' /\ QueueOfOpen'
      /\ Owner' = Owner /\ Record' = Record /\ \A kind : Doing(kind)' <=> Doing(kind)
  BY <1>1, <1>2, OperationFrame DEF StoreInv, TypeOK
<1>4. StepsOfKind'
  BY <1>1, <1>2, <1>3, Owned DEF StoreInv, StepsOfKind, Serving, Then
<1>5. RecordsAreMade'
  <2>1. \A r \in Requests : Named(r)' <=> Named(r)
    BY <1>1, <1>2 DEF Named, Serving, Then
  <2>. QED BY <1>1, <2>1 DEF StoreInv, RecordsAreMade, clients
<1>6. SyncedWhenTold'
  BY <1>1, <1>2, <1>3, Owned DEF StoreInv, SyncedWhenTold, StepsOfKind, Serving, Then
<1>7. PruningIsRight'
  <2>1. /\ Readable' = Readable /\ created' = created /\ arrived' = arrived /\ now' = now
        /\ Kept = Readable /\ Readable \ op.expired = Readable
    BY <1>1 DEF Readable, clients, Kept
  <2>. QED BY <1>1, <1>2, <1>3, <2>1 DEF StoreInv, PruningIsRight, FreshFor, Then
<1>8. TempsAreWritten'
  BY <1>1, <1>2, <1>3 DEF StoreInv, TempsAreWritten, bounds
<1>. QED BY <1>3, <1>4, <1>5, <1>6, <1>7, <1>8 DEF StoreInv

LEMMA OpenTempStep == ASSUME StoreInv, OpenTemp PROVE StoreInv'
<1>1. /\ UNCHANGED <<now, phase, clients, queue, bounds, dir, unsynced, created>>
      /\ op.step = "open" /\ op' = [op EXCEPT !.step = "rename", !.time = now]
      /\ temps' = temps \cup {Record}
  BY DEF OpenTemp
<1>2. /\ Serving /\ queue # <<>> /\ Owner \in Requests /\ Record \in Ids
      /\ Doing("upload") /\ ~Doing("delete") /\ now \in 0..MaxTime
  <2>1. Serving /\ Doing("upload")
    BY <1>1, Owned DEF StoreInv, StepsOfKind
  <2>2. now \in 0..MaxTime
    BY DEF StoreInv, TypeOK
  <2>. QED BY <1>1, <2>1, <2>2, Owned
<1>3. /\ op' \in Operation /\ op'.step = "rename" /\ op'.time = now /\ op'.again = op.again
  BY <1>1, <1>2, OpTypes DEF Operation, Steps
<1>4. /\ TypeOK' /\ ClientsAgree' /\ QueueOfOpen'
      /\ Owner' = Owner /\ Record' = Record /\ \A kind : Doing(kind)' <=> Doing(kind)
  BY <1>1, <1>2, <1>3, OperationFrame DEF StoreInv, TypeOK
<1>5. StepsOfKind'
  BY <1>1, <1>2, <1>3, <1>4, Made DEF StoreInv, StepsOfKind, Serving
<1>6. RecordsAreMade'
  <2>1. \A r \in Requests : Named(r)' <=> Named(r)
    BY <1>1, <1>3 DEF Named, Serving
  <2>. QED BY <1>1, <2>1 DEF StoreInv, RecordsAreMade, clients
<1>7. SyncedWhenTold' /\ PruningIsRight' /\ TempsAreWritten'
  BY <1>1, <1>3, <1>4 DEF StoreInv, SyncedWhenTold, PruningIsRight, TempsAreWritten, bounds
<1>. QED BY <1>4, <1>5, <1>6, <1>7 DEF StoreInv

LEMMA RenameStep == ASSUME StoreInv, Rename PROVE StoreInv'
<1>1. /\ UNCHANGED <<now, phase, clients, queue, bounds>>
      /\ op.step = "rename" /\ op' = [op EXCEPT !.step = "sync"]
      /\ temps' = temps \ {Record} /\ dir' = dir \cup {Record}
      /\ unsynced' = unsynced \cup {Record}
      /\ created' = [created EXCEPT ![Record] = op.time]
  BY DEF Rename
<1>2. /\ Serving /\ queue # <<>> /\ Owner = Head(queue) /\ Owner \in Requests /\ Record \in Ids
      /\ Doing("upload") /\ ~Doing("delete") /\ Asked[Owner].kind = "upload"
      /\ stage[Owner] = "queued"
  BY <1>1, Owned DEF StoreInv, StepsOfKind
<1>3. /\ op' \in Operation /\ op'.step = "sync" /\ op'.again = op.again /\ op'.time = op.time
  BY <1>1, OpTypes DEF Operation, Steps
<1>4. created \in [Ids -> 0..MaxTime \cup {Never}]
  BY DEF StoreInv, TypeOK
<1>5. /\ TypeOK' /\ ClientsAgree' /\ QueueOfOpen'
      /\ Owner' = Owner /\ Record' = Record /\ \A kind : Doing(kind)' <=> Doing(kind)
  <2>1. created' \in [Ids -> 0..MaxTime \cup {Never}]
    BY <1>1, <1>2, <1>4, OpTypes
  <2>. QED BY <1>1, <1>2, <1>3, <2>1, OperationFrame DEF StoreInv, TypeOK
<1>6. StepsOfKind'
  BY <1>1, <1>2, <1>3, <1>5 DEF StoreInv, StepsOfKind, Serving
<1>7. RecordsAreMade'
  <2>1. op.time # Never
    BY Limits, OpTypes
  <2>2. \A r \in Requests : r # Owner => ~Named(r) /\ ~Named(r)'
    BY <1>1, <1>2 DEF Named
  <2>3. \A r \in Requests : r = Owner => Named(r)'
    BY <1>1, <1>2, <1>3 DEF Named, Serving
  <2>4. \A r \in Requests : r # Owner /\ Asked[r].kind = "upload" => Asked[r].id # Record
    BY <1>2, HostedAssumption DEF Record
  <2>5. created'[Record] # Never /\ \A id \in Ids : id # Record => created'[id] = created[id]
    BY <1>1, <1>2, <1>4, <2>1
  <2>6. dir \subseteq Ids /\ unsynced \subseteq Ids /\ \A r \in Requests : Asked[r].id \in Ids
    BY HostedAssumption DEF StoreInv, TypeOK
  <2>7. \A id \in dir' \cup unsynced' : created'[id] # Never
    BY <1>1, <2>5, <2>6 DEF StoreInv, RecordsAreMade
  <2>8. ASSUME NEW r \in Requests, Asked[r].kind = "upload", stage[r] # "done"
        PROVE  created'[Asked[r].id] # Never <=> Named(r)'
    <3>1. CASE r = Owner
      BY <2>3, <2>5, <3>1 DEF Record
    <3>2. CASE r # Owner
      BY <2>2, <2>4, <2>5, <2>6, <2>8, <3>2 DEF StoreInv, RecordsAreMade
    <3>. QED BY <3>1, <3>2
  <2>. QED BY <1>1, <2>7, <2>8 DEF RecordsAreMade, clients
<1>8. SyncedWhenTold' /\ PruningIsRight' /\ TempsAreWritten'
  BY <1>1, <1>2, <1>3, <1>5 DEF StoreInv, SyncedWhenTold, PruningIsRight, TempsAreWritten, bounds
<1>. QED BY <1>5, <1>6, <1>7, <1>8 DEF StoreInv

LEMMA UnlinkStep == ASSUME StoreInv, Unlink PROVE StoreInv'
<1>. DEFINE there == Record \in dir
            next == IF there THEN "sync" ELSE "answer"
<1>1. /\ UNCHANGED <<now, phase, clients, queue, bounds, temps, created>>
      /\ op.step = "unlink" /\ op' = [op EXCEPT !.step = next, !.found = there]
      /\ dir' = dir \ {Record} /\ unsynced' = unsynced \cup (dir \cap {Record})
  BY DEF Unlink
<1>2. /\ Serving /\ queue # <<>> /\ Owner \in Requests /\ Record \in Ids
      /\ Doing("delete") /\ ~Doing("upload") /\ ~op.again
  <2>1. Serving /\ Doing("delete")
    BY <1>1, Owned DEF StoreInv, StepsOfKind
  <2>2. ~Doing("upload")
    BY <1>1, <2>1, Owned
  <2>. QED BY <1>1, <2>1, <2>2, Owned DEF StoreInv, StepsOfKind
<1>3. there \in BOOLEAN /\ next \in {"sync", "answer"} /\ next \in Steps
  BY DEF Steps
<1>4. /\ op' \in Operation /\ op'.step = next /\ (op'.found <=> there) /\ op'.again = op.again
      /\ op'.time = op.time
  <2>. HIDE DEF there, next
  <2>. QED BY <1>1, <1>3, OpTypes DEF Operation
<1>5. /\ TypeOK' /\ ClientsAgree' /\ QueueOfOpen'
      /\ Owner' = Owner /\ Record' = Record /\ \A kind : Doing(kind)' <=> Doing(kind)
  BY <1>1, <1>4, OperationFrame DEF StoreInv, TypeOK
<1>6. StepsOfKind'
  BY <1>1, <1>2, <1>3, <1>4, <1>5 DEF StoreInv, StepsOfKind, Serving
<1>7. RecordsAreMade'
  <2>1. \A r \in Requests : Head(queue) = r => Asked[r].kind = "delete"
    BY <1>1, <1>2, Owned
  <2>2. \A r \in Requests : Asked[r].kind = "upload" => ~Named(r) /\ ~Named(r)'
    BY <1>1, <2>1 DEF Named
  <2>. QED BY <1>1, <2>2 DEF StoreInv, RecordsAreMade, clients
<1>8. SyncedWhenTold'
  BY <1>1, <1>2, <1>3, <1>4, <1>5 DEF SyncedWhenTold
<1>9. PruningIsRight' /\ TempsAreWritten'
  BY <1>1, <1>2, <1>3, <1>4, <1>5 DEF StoreInv, PruningIsRight, TempsAreWritten, bounds
<1>. QED BY <1>5, <1>6, <1>7, <1>8, <1>9 DEF StoreInv

LEMMA SyncStep == ASSUME StoreInv, Sync PROVE StoreInv'
<1>. DEFINE upload == Doing("upload")
            next == IF upload THEN "scan" ELSE "answer"
<1>1. /\ UNCHANGED <<now, phase, clients, queue, bounds, dir, temps, created>>
      /\ op.step = "sync" /\ op' = [op EXCEPT !.step = next, !.again = upload]
      /\ unsynced' = {}
  BY DEF Sync
<1>2. /\ Serving /\ queue # <<>> /\ Owner \in Requests /\ Owner = Head(queue)
      /\ upload \/ Doing("delete")
      /\ upload => ~Doing("delete")
  <2>1. Serving /\ (upload \/ Doing("delete"))
    BY <1>1, Owned DEF StoreInv, StepsOfKind
  <2>. QED BY <1>1, <2>1, Owned
<1>3. upload \in BOOLEAN /\ next \in {"scan", "answer"} /\ next \in Steps
  BY DEF Steps, Doing
<1>4. /\ op' \in Operation /\ op'.step = next /\ (op'.again <=> upload)
      /\ op'.time = op.time
  <2>. HIDE DEF upload, next
  <2>. QED BY <1>1, <1>3, OpTypes DEF Operation
<1>5. /\ TypeOK' /\ ClientsAgree' /\ QueueOfOpen'
      /\ Owner' = Owner /\ Record' = Record /\ \A kind : Doing(kind)' <=> Doing(kind)
  BY <1>1, <1>4, OperationFrame DEF StoreInv, TypeOK
<1>6. StepsOfKind'
  BY <1>1, <1>2, <1>3, <1>4, <1>5 DEF StoreInv, StepsOfKind, Serving
<1>7. RecordsAreMade'
  <2>1. \A r \in Requests : Asked[r].kind = "upload" => (Named(r)' <=> Named(r))
    BY <1>1, <1>2, <1>4, Owned DEF Named, Serving
  <2>. QED BY <1>1, <2>1 DEF StoreInv, RecordsAreMade, clients
<1>8. SyncedWhenTold'
  BY <1>1, <1>2, <1>3, <1>4, <1>5 DEF StoreInv, SyncedWhenTold
<1>9. PruningIsRight' /\ TempsAreWritten'
  BY <1>1, <1>2, <1>3, <1>4, <1>5 DEF StoreInv, PruningIsRight, TempsAreWritten, bounds
<1>. QED BY <1>5, <1>6, <1>7, <1>8, <1>9 DEF StoreInv

-------------------------------------------------------------------------------
(* The end of an operation.                                                *)

LEMMA SettleStep ==
    ASSUME StoreInv, op.step # "idle", Owner # Service,
           NEW result \in Promise!Answers, Settle(result),
           UNCHANGED <<dir, unsynced, crashes>>, faults' \in 0..MaxMishaps,
           temps' \subseteq temps, temps' # {} => crashes > 0
    PROVE  StoreInv'
<1>1. /\ UNCHANGED <<now, phase, created, dir, unsynced, crashes>>
      /\ op' = Idle /\ queue' = Tail(queue) /\ stage' = [stage EXCEPT ![Owner] = "done"]
      /\ open' = open \ {Owner}
      /\ arrived' = [r \in Requests |-> IF r = Owner THEN 0 ELSE arrived[r]]
      /\ answer' = IF Owner \in open THEN [answer EXCEPT ![Owner] = result] ELSE answer
  BY DEF Settle, Leave
<1>2. /\ phase \in {"up", "stopping", "closing"} /\ queue # <<>> /\ Owner = Head(queue)
      /\ Owner \in Requests /\ stage[Owner] = "queued"
  BY Owned
<1>3. /\ queue \in Seq(Requests) /\ Distinct(queue)
      /\ \A r \in Requests : Holds(queue, r) <=> stage[r] = "queued"
  BY DEF StoreInv, TypeOK, QueueOfOpen, Holds
<1>4. /\ queue' \in Seq(Requests) /\ Distinct(queue')
      /\ \A r \in Requests : Holds(queue', r) <=> Holds(queue, r) /\ r # Owner
  BY <1>1, <1>2, <1>3, QueueShrinks
<1>5. /\ stage \in [Requests -> {"new", "reading", "queued", "done"}]
      /\ answer \in [Requests -> Promise!Answers] /\ arrived \in [Requests -> 0..MaxTime]
      /\ now \in 0..MaxTime
  BY DEF StoreInv, TypeOK
<1>6. /\ op'.step = "idle" /\ op'.again = FALSE /\ op'.time = 0 /\ op' \in Operation
  BY <1>1, Limits DEF Idle, Operation, Steps
<1>7. TypeOK'
  <2>1. /\ stage' \in [Requests -> {"new", "reading", "queued", "done"}]
        /\ answer' \in [Requests -> Promise!Answers] /\ arrived' \in [Requests -> 0..MaxTime]
    <3>1. stage' \in [Requests -> {"new", "reading", "queued", "done"}]
      BY <1>1, <1>5
    <3>2. answer' \in [Requests -> Promise!Answers]
      <4>1. [answer EXCEPT ![Owner] = result] \in [Requests -> Promise!Answers]
        BY <1>5
      <4>. QED BY <1>1, <1>5, <4>1
    <3>3. arrived' \in [Requests -> 0..MaxTime]
      <4>1. 0 \in 0..MaxTime
        BY Limits
      <4>. QED BY <1>1, <1>5, <4>1
    <3>. QED BY <3>1, <3>2, <3>3
  <2>2. \A r \in Requests : Holds(queue', r) <=> stage'[r] = "queued"
    BY <1>1, <1>2, <1>3, <1>4, <1>5
  <2>. QED BY <1>1, <1>4, <1>6, <2>1, <2>2 DEF StoreInv, TypeOK, Holds
<1>8. ClientsAgree' /\ QueueOfOpen'
  <2>1. ASSUME NEW r \in Requests, r # Owner
        PROVE  /\ stage'[r] = stage[r] /\ answer'[r] = answer[r] /\ arrived'[r] = arrived[r]
               /\ r \in open' <=> r \in open
    <3>1. stage'[r] = stage[r] /\ arrived'[r] = arrived[r] /\ (r \in open' <=> r \in open)
      BY <1>1, <1>5, <2>1
    <3>2. CASE Owner \in open
      <4>1. answer' = [answer EXCEPT ![Owner] = result]
        BY <1>1, <3>2
      <4>. QED BY <1>5, <2>1, <3>1, <4>1
    <3>3. CASE Owner \notin open
      BY <1>1, <3>1, <3>3
    <3>. QED BY <3>2, <3>3
  <2>2. stage'[Owner] = "done" /\ Owner \notin open' /\ arrived'[Owner] = 0
    BY <1>1, <1>2, <1>5
  <2>3. ClientsAgree'
    BY <1>1, <1>2, <1>5, <2>1, <2>2, Limits DEF StoreInv, ClientsAgree
  <2>. QED BY <1>1, <1>2, <1>4, <2>3 DEF QueueOfOpen
<1>9. StepsOfKind' /\ SyncedWhenTold' /\ PruningIsRight' /\ TempsAreWritten'
  BY <1>1, <1>2, <1>5, <1>6 DEF StepsOfKind, SyncedWhenTold, PruningIsRight, TempsAreWritten, Serving
<1>10. RecordsAreMade'
  <2>1. \A r \in Requests : r # Owner => ~Named(r)
    BY <1>2 DEF Named
  <2>2. \A r \in Requests : ~Named(r)'
    BY <1>6 DEF Named, Serving
  <2>3. \A r \in Requests : stage'[r] # "done" => r # Owner /\ stage[r] # "done"
    BY <1>1, <1>2, <1>5
  <2>. QED BY <1>1, <2>1, <2>2, <2>3 DEF StoreInv, RecordsAreMade
<1>. QED BY <1>7, <1>8, <1>9, <1>10 DEF StoreInv

LEMMA AnswerStep == ASSUME StoreInv, Answer PROVE StoreInv'
<1>1. op.step = "answer" /\ Owner # Service /\ UNCHANGED <<files, bounds>>
  BY DEF Answer
<1>2. PICK result \in Promise!Answers : Settle(result)
  <2>1. {"created", "deleted", "missing", "found", "listed"} \subseteq Promise!Answers
    BY DEF Promise!Answers
  <2>. QED BY <2>1 DEF Answer
<1>3. temps # {} => crashes > 0
  BY <1>1 DEF StoreInv, TempsAreWritten
<1>. QED BY <1>1, <1>2, <1>3, SettleStep DEF StoreInv, TypeOK, files, bounds

LEMMA FaultCounted ==
    ASSUME StoreInv, Throws
    PROVE  /\ op.step # "idle" /\ faults' \in 0..MaxMishaps
           /\ UNCHANGED <<dir, unsynced, crashes>>
BY Limits DEF StoreInv, TypeOK, Throws

LEMMA OperationFailsStep == ASSUME StoreInv, OperationFails PROVE StoreInv'
<1>1. /\ Throws /\ Owner # Service /\ Settle("failed")
      /\ temps' = IF op.step = "rename" THEN temps \ {Record} ELSE temps
  BY DEF OperationFails
<1>2. temps' \subseteq temps /\ (temps' # {} => crashes > 0)
  BY <1>1 DEF StoreInv, TempsAreWritten
<1>3. "failed" \in Promise!Answers
  BY DEF Promise!Answers
<1>. QED BY <1>1, <1>2, <1>3, FaultCounted, SettleStep

-------------------------------------------------------------------------------
(* Steps of clients.                                                       *)

\* What a step of a client or of its connection leaves as it is.
LEMMA ClientFrame ==
    ASSUME StoreInv, UNCHANGED <<now, op, files, created, crashes>>, faults' \in 0..MaxMishaps,
           TypeOK', ClientsAgree', QueueOfOpen',
           phase \in {"up", "stopping", "closing"}, phase' \in {"up", "stopping", "closing"},
           queue # <<>> => queue' # <<>>,
           \A r \in Requests : stage'[r] = "done" \/ stage[r] # "done",
           Serving => Owner' = Owner /\ (arrived'[Owner] = arrived[Owner] \/ arrived'[Owner] = 0)
    PROVE  StoreInv'
<1>1. UNCHANGED <<now, op, dir, unsynced, temps, created, crashes>>
  BY DEF files
<1>2. CASE Serving
  <2>1. Serving' /\ queue # <<>> /\ queue' # <<>> /\ op.step # "idle"
    BY <1>1, <1>2 DEF StoreInv, StepsOfKind, Serving
  <2>2. Owner' = Owner /\ Owner = Head(queue) /\ Head(queue') = Head(queue)
    BY <1>2 DEF Owner
  <2>3. Owner \in Requests
    BY <1>2, Owned DEF Serving
  <2>4. Record' = Record /\ \A kind : Doing(kind)' <=> Doing(kind)
    BY <2>2 DEF Record, Doing
  <2>5. \A r \in Requests : Named(r)' <=> Named(r)
    BY <1>1, <1>2, <2>1, <2>2 DEF Named
  <2>6. StepsOfKind' /\ RecordsAreMade' /\ SyncedWhenTold' /\ TempsAreWritten'
    BY <1>1, <1>2, <2>1, <2>4, <2>5
       DEF StepsOfKind, StoreInv, RecordsAreMade, SyncedWhenTold, TempsAreWritten
  <2>7. PruningIsRight'
    <3>1. Readable' = Readable /\ Kept' = Kept /\ Readable \subseteq dir
      BY <1>1 DEF Readable, Kept
    <3>2. arrived'[Owner] <= arrived[Owner] /\ arrived'[Owner] \in Nat /\ arrived[Owner] \in Nat
      BY <1>2, <2>3, Made
    <3>3. ASSUME NEW ids \in SUBSET Readable, FreshFor(ids) PROVE FreshFor(ids)'
      BY <1>1, <2>2, <3>1, <3>2, <3>3, Made, Limits DEF FreshFor
    <3>4. Readable \ op.expired \in SUBSET Readable
      OBVIOUS
    <3>. QED BY <1>1, <2>4, <3>1, <3>3, <3>4
             DEF StoreInv, PruningIsRight, Promise!Older, Promise!Expired
  <2>. QED BY <2>6, <2>7 DEF StoreInv
<1>3. CASE ~Serving
  <2>1. op.step = "idle" /\ op = Idle /\ ~Serving'
    BY <1>1, <1>3 DEF StoreInv, StepsOfKind, Serving
  <2>2. \A r \in Requests : ~Named(r) /\ ~Named(r)'
    BY <1>3, <2>1 DEF Named
  <2>3. RecordsAreMade'
    BY <1>1, <2>2 DEF StoreInv, RecordsAreMade
  <2>. QED BY <1>1, <2>1, <2>3
           DEF StoreInv, StepsOfKind, SyncedWhenTold, PruningIsRight, TempsAreWritten, Idle
<1>. QED BY <1>2, <1>3

LEMMA ArriveStep == ASSUME StoreInv, NEW r \in Requests, Arrive(r) PROVE StoreInv'
<1>1. /\ UNCHANGED <<now, phase, answer, op, files, created, bounds>>
      /\ phase \in {"up", "stopping"} /\ stage[r] = "new" /\ open' = open \cup {r}
      /\ arrived' = IF Asked[r].kind \in {"get", "list"} THEN [arrived EXCEPT ![r] = now] ELSE arrived
      /\ \/ stage' = [stage EXCEPT ![r] = "reading"] /\ queue' = queue
         \/ stage' = [stage EXCEPT ![r] = "queued"] /\ queue' = Append(queue, r)
  BY DEF Arrive
<1>2. /\ stage \in [Requests -> {"new", "reading", "queued", "done"}] /\ open \subseteq Requests
      /\ arrived \in [Requests -> 0..MaxTime] /\ now \in 0..MaxTime
      /\ queue \in Seq(Requests) /\ Distinct(queue)
      /\ \A s \in Requests : Holds(queue, s) <=> stage[s] = "queued"
  BY DEF StoreInv, TypeOK, QueueOfOpen, Holds
<1>3. /\ \A s \in Requests : s # r => stage'[s] = stage[s] /\ arrived'[s] = arrived[s]
      /\ stage'[r] \in {"reading", "queued"} /\ arrived'[r] \in {now, arrived[r]}
      /\ arrived' \in [Requests -> 0..MaxTime]
      /\ stage' \in [Requests -> {"new", "reading", "queued", "done"}]
  <2>1. arrived' \in [Requests -> 0..MaxTime] /\ arrived'[r] \in {now, arrived[r]}
        /\ \A s \in Requests : s # r => arrived'[s] = arrived[s]
    <3>1. CASE arrived' = [arrived EXCEPT ![r] = now]
      BY <1>2, <3>1
    <3>2. CASE arrived' = arrived
      BY <1>2, <3>2
    <3>. QED BY <1>1, <3>1, <3>2
  <2>. QED BY <1>1, <1>2, <2>1
<1>4. /\ queue' \in Seq(Requests) /\ Distinct(queue')
      /\ \A s \in Requests : Holds(queue', s) <=> stage'[s] = "queued"
      /\ queue # <<>> => queue' # <<>> /\ Head(queue') = Head(queue)
  <2>1. CASE queue' = queue /\ stage' = [stage EXCEPT ![r] = "reading"]
    BY <1>1, <1>2, <2>1
  <2>2. CASE stage' = [stage EXCEPT ![r] = "queued"] /\ queue' = Append(queue, r)
    <3>1. ~Holds(queue, r)
      BY <1>1, <1>2
    <3>. QED BY <1>2, <2>2, <3>1, QueueGrows
  <2>. QED BY <1>1, <2>1, <2>2
<1>5. TypeOK'
  BY <1>1, <1>2, <1>3, <1>4, SMTT(60) DEF StoreInv, TypeOK, Holds, files, bounds
<1>6. ClientsAgree' /\ QueueOfOpen'
  BY <1>1, <1>2, <1>3, <1>4 DEF StoreInv, ClientsAgree, QueueOfOpen
<1>7. Serving => Owner' = Owner /\ (arrived'[Owner] = arrived[Owner] \/ arrived'[Owner] = 0)
  <2>. SUFFICES ASSUME Serving PROVE Owner' = Owner /\ arrived'[Owner] = arrived[Owner]
    OBVIOUS
  <2>1. queue # <<>> /\ Owner = Head(queue) /\ Owner \in Requests /\ stage[Owner] = "queued"
    BY Owned DEF Serving
  <2>2. Owner' = Head(queue')
    BY <1>1 DEF Owner
  <2>. QED BY <1>1, <1>3, <1>4, <2>1, <2>2
<1>. QED BY <1>1, <1>3, <1>4, <1>5, <1>6, <1>7, ClientFrame DEF StoreInv, TypeOK, bounds

LEMMA BodyReadStep == ASSUME StoreInv, NEW r \in Requests, BodyRead(r) PROVE StoreInv'
<1>1. /\ UNCHANGED <<now, phase, open, answer, arrived, op, files, created, bounds>>
      /\ phase \in {"up", "stopping", "closing"} /\ stage[r] = "reading"
      /\ stage' = [stage EXCEPT ![r] = "queued"] /\ queue' = Append(queue, r)
  BY DEF BodyRead, Up
<1>2. /\ stage \in [Requests -> {"new", "reading", "queued", "done"}]
      /\ queue \in Seq(Requests) /\ Distinct(queue)
      /\ \A s \in Requests : Holds(queue, s) <=> stage[s] = "queued"
  BY DEF StoreInv, TypeOK, QueueOfOpen, Holds
<1>3. /\ queue' \in Seq(Requests) /\ Distinct(queue')
      /\ \A s \in Requests : Holds(queue', s) <=> Holds(queue, s) \/ s = r
      /\ queue # <<>> => queue' # <<>> /\ Head(queue') = Head(queue)
  <2>1. ~Holds(queue, r)
    BY <1>1, <1>2
  <2>. QED BY <1>1, <1>2, <2>1, QueueGrows
<1>4. TypeOK'
  <2>1. stage' \in [Requests -> {"new", "reading", "queued", "done"}]
    BY <1>1, <1>2
  <2>2. \A s \in Requests : Holds(queue', s) <=> stage'[s] = "queued"
    BY <1>1, <1>2, <1>3
  <2>. QED BY <1>1, <1>3, <2>1, <2>2 DEF StoreInv, TypeOK, Holds, files, bounds
<1>5. ClientsAgree' /\ QueueOfOpen'
  BY <1>1, <1>2, <1>3 DEF StoreInv, ClientsAgree, QueueOfOpen
<1>6. Serving => Owner' = Owner /\ arrived'[Owner] = arrived[Owner]
  <2>. SUFFICES ASSUME Serving PROVE Owner' = Owner
    BY <1>1
  <2>1. queue # <<>> /\ Owner = Head(queue)
    BY Owned DEF Serving
  <2>. QED BY <1>1, <1>3, <2>1 DEF Owner
<1>7. \A s \in Requests : stage'[s] = "done" \/ stage[s] # "done"
  BY <1>1, <1>2
<1>. QED BY <1>1, <1>3, <1>4, <1>5, <1>6, <1>7, ClientFrame DEF StoreInv, TypeOK, bounds

LEMMA RefuseStep == ASSUME StoreInv, NEW r \in Requests, Refuse(r) PROVE StoreInv'
<1>1. /\ UNCHANGED <<now, phase, queue, op, files, created, bounds>>
      /\ phase \in {"up", "stopping", "closing"} /\ stage[r] = "reading"
      /\ stage' = [stage EXCEPT ![r] = "done"] /\ answer' = [answer EXCEPT ![r] = "refused"]
      /\ open' = open \ {r} /\ arrived' = [s \in Requests |-> IF s = r THEN 0 ELSE arrived[s]]
  BY DEF Refuse, Up, Leave
<1>2. /\ stage \in [Requests -> {"new", "reading", "queued", "done"}]
      /\ answer \in [Requests -> Promise!Answers] /\ "refused" \in Promise!Answers
      /\ arrived \in [Requests -> 0..MaxTime] /\ now \in 0..MaxTime /\ open \subseteq Requests
      /\ 0 \in 0..MaxTime
  BY Limits DEF StoreInv, TypeOK, Promise!Answers
<1>3. ASSUME NEW s \in Requests, s # r
      PROVE  /\ stage'[s] = stage[s] /\ answer'[s] = answer[s] /\ arrived'[s] = arrived[s]
             /\ s \in open' <=> s \in open
  BY <1>1, <1>2, <1>3
<1>4. stage'[r] = "done" /\ r \notin open' /\ arrived'[r] = 0
  BY <1>1, <1>2
<1>5. TypeOK'
  <2>1. /\ stage' \in [Requests -> {"new", "reading", "queued", "done"}]
        /\ answer' \in [Requests -> Promise!Answers] /\ arrived' \in [Requests -> 0..MaxTime]
    BY <1>1, <1>2
  <2>2. \A s \in Requests : stage'[s] = "queued" <=> stage[s] = "queued"
    BY <1>1, <1>3, <1>4
  <2>. QED BY <1>1, <2>1, <2>2 DEF StoreInv, TypeOK, files, bounds
<1>6. ClientsAgree' /\ QueueOfOpen'
  <2>1. ClientsAgree'
    BY <1>1, <1>2, <1>3, <1>4 DEF StoreInv, ClientsAgree
  <2>. QED BY <1>1, <2>1 DEF StoreInv, QueueOfOpen
<1>7. Serving => Owner' = Owner /\ (arrived'[Owner] = arrived[Owner] \/ arrived'[Owner] = 0)
  <2>1. Serving => Owner \in Requests
    BY Owned DEF Serving
  <2>. QED BY <1>1, <1>3, <1>4, <2>1 DEF Owner
<1>8. \A s \in Requests : stage'[s] = "done" \/ stage[s] # "done"
  BY <1>3, <1>4
<1>. QED BY <1>1, <1>5, <1>6, <1>7, <1>8, ClientFrame DEF StoreInv, TypeOK, bounds

LEMMA CutStep ==
    ASSUME StoreInv, NEW connections \in SUBSET open, Cut(connections),
           UNCHANGED <<now, queue, op, files, created, crashes>>, faults' \in 0..MaxMishaps,
           phase \in {"up", "stopping", "closing"}, phase' \in {"up", "stopping", "closing"}
    PROVE  StoreInv'
<1>1. /\ open' = open \ connections
      /\ arrived' = [r \in Requests |-> IF r \in connections THEN 0 ELSE arrived[r]]
      /\ answer' = [r \in Requests |-> IF r \in connections THEN "lost" ELSE answer[r]]
      /\ stage' = [r \in Requests |->
                      IF r \in connections /\ stage[r] = "reading" THEN "done" ELSE stage[r]]
  BY DEF Cut, Leave
<1>2. /\ stage \in [Requests -> {"new", "reading", "queued", "done"}]
      /\ answer \in [Requests -> Promise!Answers] /\ "lost" \in Promise!Answers
      /\ arrived \in [Requests -> 0..MaxTime] /\ now \in 0..MaxTime /\ open \subseteq Requests
      /\ 0 \in 0..MaxTime
  BY Limits DEF StoreInv, TypeOK, Promise!Answers
<1>3. ASSUME NEW r \in Requests, r \notin connections
      PROVE  /\ stage'[r] = stage[r] /\ answer'[r] = answer[r] /\ arrived'[r] = arrived[r]
             /\ r \in open' <=> r \in open
  BY <1>1, <1>2, <1>3
<1>4. ASSUME NEW r \in Requests, r \in connections
      PROVE  /\ r \in open /\ r \notin open' /\ answer'[r] = "lost" /\ arrived'[r] = 0
             /\ stage'[r] = IF stage[r] = "reading" THEN "done" ELSE stage[r]
  BY <1>1, <1>2, <1>4
<1>5. TypeOK'
  <2>1. stage' \in [Requests -> {"new", "reading", "queued", "done"}]
    BY <1>1, <1>2
  <2>2. answer' \in [Requests -> Promise!Answers]
    BY <1>1, <1>2
  <2>3. arrived' \in [Requests -> 0..MaxTime]
    BY <1>1, <1>2
  <2>4. \A r \in Requests : stage'[r] = "queued" <=> stage[r] = "queued"
    BY <1>3, <1>4
  <2>. QED BY <1>1, <2>1, <2>2, <2>3, <2>4 DEF StoreInv, TypeOK, files
<1>6. ClientsAgree' /\ QueueOfOpen'
  <2>1. ClientsAgree'
    BY <1>1, <1>2, <1>3, <1>4 DEF StoreInv, ClientsAgree
  <2>. QED BY <1>1, <2>1 DEF StoreInv, QueueOfOpen
<1>7. Serving => Owner' = Owner /\ (arrived'[Owner] = arrived[Owner] \/ arrived'[Owner] = 0)
  <2>1. Serving => Owner \in Requests
    BY Owned DEF Serving
  <2>. QED BY <1>1, <1>3, <1>4, <2>1 DEF Owner
<1>8. \A r \in Requests : stage'[r] = "done" \/ stage[r] # "done"
  BY <1>3, <1>4
<1>. QED BY <1>1, <1>5, <1>6, <1>7, <1>8, ClientFrame DEF StoreInv, TypeOK

LEMMA HangUpStep == ASSUME StoreInv, NEW r \in Requests, HangUp(r) PROVE StoreInv'
<1>1. /\ UNCHANGED <<now, phase, queue, op, files, created, crashes>>
      /\ {r} \in SUBSET open /\ Cut({r}) /\ faults + crashes < MaxMishaps /\ faults' = faults + 1
  BY DEF HangUp
<1>2. faults' \in 0..MaxMishaps
  BY <1>1, Limits DEF StoreInv, TypeOK
<1>3. phase \in {"up", "stopping", "closing"}
  BY <1>1 DEF StoreInv, TypeOK, QueueOfOpen
<1>. QED BY <1>1, <1>2, <1>3, CutStep

LEMMA GraceEndsStep == ASSUME StoreInv, GraceEnds PROVE StoreInv'
<1>1. /\ UNCHANGED <<now, queue, op, files, created, bounds>>
      /\ open \in SUBSET open /\ Cut(open) /\ phase = "stopping" /\ phase' = "closing"
  BY DEF GraceEnds
<1>. QED BY <1>1, CutStep DEF StoreInv, TypeOK, bounds

-------------------------------------------------------------------------------
(* The life of the service.                                                *)

LEMMA StopStep == ASSUME StoreInv, Stop PROVE StoreInv'
<1>1. /\ UNCHANGED <<now, clients, queue, op, files, created, bounds>>
      /\ phase = "up" /\ phase' = "stopping"
  BY DEF Stop
<1>2. TypeOK' /\ ClientsAgree' /\ QueueOfOpen'
  BY <1>1 DEF StoreInv, TypeOK, ClientsAgree, QueueOfOpen, clients, files, bounds
<1>3. Owner' = Owner
  BY <1>1 DEF Owner
<1>. QED BY <1>1, <1>2, <1>3, ClientFrame DEF StoreInv, TypeOK, clients, bounds

\* No operation runs, and none is left.
LEMMA NothingRuns ==
    ASSUME StoreInv, UNCHANGED <<now, created>>, TypeOK', ClientsAgree', QueueOfOpen',
           op' = Idle \/ (op' = Starting /\ phase' = "starting"),
           \A id \in dir' \cup unsynced' : created[id] # Never,
           \A r \in Requests : stage'[r] = "done" \/ (stage[r] # "done" /\ ~Named(r)),
           phase' = "down" => op' = Idle, phase' = "starting" => op'.step \in {"scan", "answer"},
           temps' # {} => crashes' > 0
    PROVE  StoreInv'
<1>1. /\ op'.step \in {"idle", "scan"} /\ ~op'.again /\ op'.time = 0
      /\ op'.step = "idle" => op' = Idle
      /\ op'.step = "scan" => phase' = "starting"
  BY DEF Idle, Starting
<1>2. ~Serving'
  BY <1>1 DEF Serving
<1>3. StepsOfKind'
  BY <1>1, <1>2, Made DEF StepsOfKind
<1>4. RecordsAreMade'
  <2>1. \A r \in Requests : ~Named(r)'
    BY <1>2 DEF Named
  <2>. QED BY <2>1 DEF StoreInv, RecordsAreMade
<1>5. SyncedWhenTold' /\ PruningIsRight' /\ TempsAreWritten'
  BY <1>1, <1>2 DEF SyncedWhenTold, PruningIsRight, TempsAreWritten
<1>. QED BY <1>3, <1>4, <1>5 DEF StoreInv

LEMMA Resting ==
    Idle \in Operation /\ Idle.step = "idle" /\ Starting \in Operation /\ Starting.step = "scan"
<1>1. 0 \in 0..MaxTime
  BY Limits
<1>. QED BY <1>1 DEF Idle, Starting, Operation, Steps

LEMMA NoneNamed ==
    ASSUME StoreInv, ~Serving
    PROVE  /\ \A r \in Requests : ~Named(r)
           /\ \A id \in dir \cup unsynced : created[id] # Never
BY DEF Named, StoreInv, RecordsAreMade

LEMMA StartedStep == ASSUME StoreInv, Started PROVE StoreInv'
<1>1. /\ UNCHANGED <<now, clients, queue, files, created, bounds>>
      /\ phase = "starting" /\ op.step = "answer" /\ phase' = "up" /\ op' = Idle
  BY DEF Started
<1>2. TypeOK' /\ ClientsAgree' /\ QueueOfOpen'
  BY <1>1, Resting DEF StoreInv, TypeOK, ClientsAgree, QueueOfOpen, clients, files, bounds
<1>3. ~Serving /\ (temps # {} => crashes > 0)
  BY <1>1 DEF StoreInv, Serving, TempsAreWritten
<1>. QED BY <1>1, <1>2, <1>3, NoneNamed, NothingRuns DEF clients, files, bounds

LEMMA StartFailsStep == ASSUME StoreInv, StartFails PROVE StoreInv'
<1>1. /\ UNCHANGED <<now, clients, queue, temps, created>>
      /\ phase = "starting" /\ Throws /\ phase' = "down" /\ op' = Idle
  BY DEF StartFails
<1>2. /\ UNCHANGED <<dir, unsynced, crashes>> /\ faults' \in 0..MaxMishaps
  BY <1>1, FaultCounted
<1>3. TypeOK' /\ ClientsAgree' /\ QueueOfOpen'
  BY <1>1, <1>2, Resting DEF StoreInv, TypeOK, ClientsAgree, QueueOfOpen, clients
<1>4. ~Serving /\ (temps # {} => crashes > 0)
  BY <1>1 DEF StoreInv, StepsOfKind, Serving, TempsAreWritten
<1>. QED BY <1>1, <1>2, <1>3, <1>4, NoneNamed, NothingRuns DEF clients

LEMMA StopResolvesStep == ASSUME StoreInv, StopResolves PROVE StoreInv'
<1>1. /\ UNCHANGED <<now, clients, queue, op, files, created, bounds>>
      /\ phase \in {"stopping", "closing"} /\ open = {} /\ queue = <<>> /\ phase' = "down"
  BY DEF StopResolves
<1>2. op.step = "idle" /\ op = Idle /\ ~Serving
  BY <1>1 DEF StoreInv, StepsOfKind, Serving
<1>3. TypeOK' /\ ClientsAgree' /\ QueueOfOpen'
  BY <1>1 DEF StoreInv, TypeOK, ClientsAgree, QueueOfOpen, clients, files, bounds
<1>4. temps # {} => crashes > 0
  BY <1>2 DEF StoreInv, TempsAreWritten
<1>. QED BY <1>1, <1>2, <1>3, <1>4, NoneNamed, NothingRuns DEF clients, files, bounds

LEMMA StartStep == ASSUME StoreInv, Start PROVE StoreInv'
<1>1. /\ UNCHANGED <<now, clients, queue, files, created, bounds>>
      /\ phase = "down" /\ phase' = "starting" /\ op' = Starting
  BY DEF Start
<1>2. op.step = "idle" /\ ~Serving
  BY <1>1 DEF StoreInv, StepsOfKind, Serving
<1>3. TypeOK' /\ ClientsAgree' /\ QueueOfOpen'
  BY <1>1, Resting DEF StoreInv, TypeOK, ClientsAgree, QueueOfOpen, clients, files, bounds
<1>4. temps # {} => crashes > 0
  BY <1>2 DEF StoreInv, TempsAreWritten
<1>. QED BY <1>1, <1>2, <1>3, <1>4, Resting, NoneNamed, NothingRuns DEF clients, files, bounds

LEMMA GoneStep ==
    ASSUME StoreInv, Gone, dir' \subseteq dir \cup unsynced, unsynced' \subseteq unsynced,
           temps' \subseteq Ids
    PROVE  StoreInv'
<1>1. /\ faults + crashes < MaxMishaps /\ crashes' = crashes + 1 /\ phase' = "down" /\ op' = Idle
      /\ queue' = <<>> /\ open' = open \ open
      /\ arrived' = [r \in Requests |-> IF r \in open THEN 0 ELSE arrived[r]]
      /\ answer' = [r \in Requests |-> IF r \in open THEN "lost" ELSE answer[r]]
      /\ stage' = [r \in Requests |-> IF stage[r] = "new" THEN "new" ELSE "done"]
      /\ UNCHANGED <<now, created, faults>>
  BY DEF Gone, Leave
<1>2. /\ answer \in [Requests -> Promise!Answers] /\ "lost" \in Promise!Answers
      /\ arrived \in [Requests -> 0..MaxTime] /\ now \in 0..MaxTime /\ 0 \in 0..MaxTime
      /\ dir \subseteq Ids /\ unsynced \subseteq Ids
      /\ faults \in 0..MaxMishaps /\ crashes \in 0..MaxMishaps
  BY Limits DEF StoreInv, TypeOK, Promise!Answers
<1>3. TypeOK'
  <2>1. /\ stage' \in [Requests -> {"new", "reading", "queued", "done"}]
        /\ \A r \in Requests : stage'[r] # "queued"
    BY <1>1
  <2>2. answer' \in [Requests -> Promise!Answers]
    BY <1>1, <1>2
  <2>3. arrived' \in [Requests -> 0..MaxTime]
    BY <1>1, <1>2
  <2>4. queue' \in Seq(Requests) /\ DOMAIN queue' = {}
    BY <1>1
  <2>5. crashes' \in 0..MaxMishaps
    BY <1>1, <1>2, Limits
  <2>. QED BY <1>1, <1>2, <2>1, <2>2, <2>3, <2>4, <2>5, Resting DEF StoreInv, TypeOK
<1>4. ClientsAgree'
  <2>1. \A r \in Requests : stage'[r] = "new" => stage[r] = "new" /\ answer'[r] = answer[r]
    BY <1>1 DEF StoreInv, ClientsAgree
  <2>2. \A r \in Requests : stage'[r] \in {"new", "done"} /\ r \notin open' /\ arrived'[r] <= now'
    BY <1>1, <1>2 DEF StoreInv, ClientsAgree
  <2>. QED BY <2>1, <2>2 DEF StoreInv, ClientsAgree
<1>5. QueueOfOpen'
  BY <1>1 DEF QueueOfOpen, Distinct
<1>6. \A r \in Requests : stage'[r] = "done" \/ (stage[r] # "done" /\ ~Named(r))
  <2>1. \A r \in Requests : Named(r) => stage[r] = "queued"
    BY Owned DEF Named, Serving
  <2>. QED BY <1>1, <2>1
<1>7. \A id \in dir' \cup unsynced' : created[id] # Never
  BY DEF StoreInv, RecordsAreMade
<1>8. crashes' > 0
  BY <1>1, <1>2
<1>. QED BY <1>1, <1>3, <1>4, <1>5, <1>6, <1>7, <1>8, Resting, NothingRuns

LEMMA ProcessDiesStep == ASSUME StoreInv, ProcessDies PROVE StoreInv'
<1>1. Gone /\ UNCHANGED files
  BY DEF ProcessDies
<1>. QED BY <1>1, GoneStep DEF files, StoreInv, TypeOK

LEMMA PowerFailsStep == ASSUME StoreInv, PowerFails PROVE StoreInv'
<1>1. Gone /\ unsynced' = {}
  BY DEF PowerFails
<1>2. dir' \subseteq dir \cup unsynced
  BY DEF PowerFails
<1>3. temps' \subseteq temps \cup unsynced
  BY DEF PowerFails
<1>. QED BY <1>1, <1>2, <1>3, GoneStep DEF StoreInv, TypeOK

-------------------------------------------------------------------------------
(* The invariant.                                                          *)

LEMMA StoreInvInitially == ASSUME Init PROVE StoreInv
<1>1. /\ now = 0 /\ phase = "starting" /\ stage = [r \in Requests |-> "new"] /\ open = {}
      /\ queue = <<>> /\ op = Starting /\ dir = Existing /\ unsynced = {} /\ temps = {}
      /\ answer = [r \in Requests |-> "none"]
      /\ created = [id \in Ids |-> IF id \in Existing THEN 0 ELSE Never]
      /\ arrived = [r \in Requests |-> 0] /\ faults = 0 /\ crashes = 0
  BY DEF Init
<1>2. 0 \in 0..MaxTime /\ 0 \in 0..MaxMishaps /\ 0 # Never /\ "none" \in Promise!Answers
  BY Limits DEF Promise!Answers
<1>3. ~Serving /\ \A r \in Requests : ~Named(r)
  BY <1>1 DEF Serving, Named
<1>4. TypeOK
  <2>1. created \in [Ids -> 0..MaxTime \cup {Never}] /\ Existing \subseteq Ids
    BY <1>1, <1>2, HostedAssumption
  <2>2. queue \in Seq(Requests) /\ DOMAIN queue = {}
    BY <1>1
  <2>3. /\ answer \in [Requests -> Promise!Answers] /\ arrived \in [Requests -> 0..MaxTime]
        /\ stage \in [Requests -> {"new", "reading", "queued", "done"}]
        /\ \A r \in Requests : stage[r] # "queued"
    BY <1>1, <1>2
  <2>. QED BY <1>1, <1>2, <2>1, <2>2, <2>3, Resting DEF TypeOK
<1>5. ClientsAgree /\ QueueOfOpen
  BY <1>1 DEF ClientsAgree, QueueOfOpen, Distinct
<1>6. op.step = "scan" /\ op.again = FALSE /\ op.time = 0
  BY <1>1 DEF Starting, Idle
<1>7. StepsOfKind /\ SyncedWhenTold /\ PruningIsRight /\ TempsAreWritten
  BY <1>1, <1>3, <1>6 DEF StepsOfKind, SyncedWhenTold, PruningIsRight, TempsAreWritten
<1>8. RecordsAreMade
  <2>1. \A id \in Existing : created[id] # Never
    BY <1>1, <1>2, HostedAssumption
  <2>2. \A r \in Requests : Asked[r].kind = "upload" => created[Asked[r].id] = Never
    BY <1>1, HostedAssumption
  <2>. QED BY <1>1, <1>3, <2>1, <2>2 DEF RecordsAreMade
<1>. QED BY <1>4, <1>5, <1>7, <1>8 DEF StoreInv

LEMMA StoreInvStep == ASSUME StoreInv, [Next]_vars PROVE StoreInv'
<1>1. CASE Tick
  BY <1>1, TickStep
<1>2. CASE Working
  BY <1>2, BeginStep, ScanStep, PruneStep, PrunedStep, OpenTempStep, RenameStep, UnlinkStep,
     SyncStep, AnswerStep, OperationFailsStep, StartedStep, StartFailsStep DEF Working
<1>3. ASSUME NEW r \in Requests, Arrive(r) \/ Reads(r) \/ HangUp(r) PROVE StoreInv'
  BY <1>3, ArriveStep, BodyReadStep, RefuseStep, HangUpStep DEF Reads
<1>4. CASE Stop \/ GraceEnds \/ StopResolves \/ Start
  BY <1>4, StopStep, GraceEndsStep, StopResolvesStep, StartStep
<1>5. CASE ProcessDies \/ PowerFails
  BY <1>5, ProcessDiesStep, PowerFailsStep
<1>6. CASE UNCHANGED vars
  <2>1. UNCHANGED <<now, phase, clients, queue, op, files, created, bounds>>
    BY <1>6 DEF vars
  <2>. QED BY <2>1 DEF clients, files, bounds, StoreInv, TypeOK, ClientsAgree, QueueOfOpen, StepsOfKind,
         RecordsAreMade, SyncedWhenTold, PruningIsRight, TempsAreWritten, Serving, Named, Owner,
         Doing, Record, Readable, Kept, FreshFor, Promise!Older, Promise!Expired
<1>. QED BY <1>1, <1>2, <1>3, <1>4, <1>5, <1>6 DEF Next

\* In every state, whatever operations, failures and crashes came before it.
THEOREM StoreInvariant == Spec => []StoreInv
BY StoreInvInitially, StoreInvStep, PTL DEF Spec

\* The types of the variables (hosted-service.ts).
THEOREM StoreTypeCorrect == Spec => []TypeOK
<1>1. StoreInv => TypeOK
  BY DEF StoreInv
<1>. QED BY <1>1, StoreInvariant, PTL

\* Once stop() has resolved or the process is gone nothing touches the directory,
\* and a temporary file is there only after a crash.
THEOREM StopDrainsQueue == Spec => []StopDrains
<1>1. StoreInv => StopDrains
  <2>. SUFFICES ASSUME StoreInv, phase = "down" PROVE StopDrains
    BY DEF StopDrains
  <2>1. op.step = "idle" /\ op = Idle /\ queue = <<>> /\ open = {}
    BY DEF StoreInv, StepsOfKind, QueueOfOpen
  <2>. QED BY <2>1 DEF StoreInv, TempsAreWritten, StopDrains
<1>. QED BY <1>1, StoreInvariant, PTL

-------------------------------------------------------------------------------
(* The limits.                                                             *)

\* Nothing but the end of an operation says what became of a record.
LEMMA AnswersComeFromOperations ==
    ASSUME StoreInv, [Next]_vars, NEW r \in Requests, answer[r] = "none",
           answer'[r] \in {"created", "listed", "found", "missing"}
    PROVE  Answer /\ r = Owner
<1>. DEFINE Same == answer'[r] = "none"
<1>0. answer \in [Requests -> Promise!Answers]
  BY DEF StoreInv, TypeOK
<1>1. ASSUME NEW result, result \notin {"created", "listed", "found", "missing"}, Settle(result)
      PROVE  FALSE
  <2>1. answer' = [answer EXCEPT ![Owner] = result] \/ answer' = answer
    BY <1>1 DEF Settle
  <2>. QED BY <1>0, <1>1, <2>1
<1>2. ASSUME NEW connections, Cut(connections) PROVE FALSE
  <2>1. answer'[r] \in {"lost", answer[r]}
    BY <1>2 DEF Cut
  <2>. QED BY <2>1
<1>3. CASE Answer
  <2>1. CASE r = Owner
    BY <1>3, <2>1
  <2>2. CASE r # Owner
    <3>1. PICK result : Settle(result)
      BY <1>3 DEF Answer
    <3>2. answer' = [answer EXCEPT ![Owner] = result] \/ answer' = answer
      BY <3>1 DEF Settle
    <3>. QED BY <1>0, <2>2, <3>2
  <2>. QED BY <2>1, <2>2
<1>4. CASE UNCHANGED answer
  BY <1>4
<1>5. CASE OperationFails
  BY <1>1, <1>5 DEF OperationFails
<1>6. ASSUME NEW q \in Requests, Refuse(q) PROVE FALSE
  <2>1. answer' = [answer EXCEPT ![q] = "refused"]
    BY <1>6 DEF Refuse
  <2>. QED BY <1>0, <2>1
<1>7. ASSUME Gone PROVE FALSE
  <2>1. answer'[r] \in {"lost", answer[r]}
    BY <1>7 DEF Gone
  <2>. QED BY <2>1
<1>8. CASE Working
  BY <1>3, <1>4, <1>5, <1>8 DEF Working, Begin, Scan, Prune, Pruned, OpenTemp, Rename, Unlink,
     Sync, Started, StartFails, clients
<1>9. ASSUME NEW q \in Requests, Arrive(q) \/ Reads(q) \/ HangUp(q) PROVE Answer /\ r = Owner
  BY <1>2, <1>4, <1>6, <1>9 DEF Arrive, Reads, BodyRead, HangUp
<1>10. CASE Stop \/ GraceEnds \/ StopResolves \/ Start \/ ProcessDies \/ PowerFails
  BY <1>2, <1>4, <1>7, <1>10 DEF Stop, GraceEnds, StopResolves, Start, ProcessDies, PowerFails, clients
<1>. QED BY <1>4, <1>8, <1>9, <1>10 DEF Next, Tick, vars, clients

LEMMA ComesUpOnce ==
    ASSUME [Next]_vars, phase = "starting", phase' = "up"
    PROVE  Started
BY DEF Next, vars, Tick, Working, Begin, Scan, Prune, Pruned, OpenTemp, Rename, Unlink, Sync, Answer,
   OperationFails, StartFails, Settle, Arrive, Reads, BodyRead, Refuse, HangUp, Stop, GraceEnds,
   StopResolves, Start, ProcessDies, PowerFails, Gone

LEMMA LimitsStep ==
    ASSUME StoreInv, [Next]_vars
    PROVE  /\ AnswersPruned => Cardinality(Readable') <= MaxStored
           /\ ShowsUnexpired
<1>2. ASSUME AnswersPruned PROVE Cardinality(Readable') <= MaxStored
  <2>1. CASE phase = "starting" /\ phase' = "up"
    <3>1. Started
      BY <2>1, ComesUpOnce
    <3>2. op.step = "answer" /\ ~Doing("delete") /\ Readable' = Readable
      BY <3>1, Owned DEF Started, Owner, Doing, files, Readable
    <3>. QED BY <3>2 DEF StoreInv, PruningIsRight
  <2>2. ASSUME NEW r \in Requests, answer[r] = "none", Asked[r].kind # "delete",
               answer'[r] \in {"created", "listed", "found", "missing"}
        PROVE  Cardinality(Readable') <= MaxStored
    <3>1. Answer /\ r = Owner
      BY <2>2, AnswersComeFromOperations
    <3>2. op.step = "answer" /\ ~Doing("delete") /\ Readable' = Readable
      BY <2>2, <3>1, Owned DEF Answer, files, Doing, Readable
    <3>. QED BY <3>2 DEF StoreInv, PruningIsRight
  <2>. QED BY <1>2, <2>1, <2>2 DEF AnswersPruned
<1>3. ASSUME NEW r \in Requests, answer[r] = "none", answer'[r] \in {"found", "listed"},
             NEW id \in Shown(r)
      PROVE  created[id] + Retention > arrived[r]
  <2>1. Answer /\ r = Owner
    BY <1>3, AnswersComeFromOperations
  <2>2. op.step = "answer" /\ Owner # Service
    BY <2>1 DEF Answer
  <2>3. ~Doing("delete")
    <3>. SUFFICES ASSUME Doing("delete") PROVE FALSE
      OBVIOUS
    <3>1. PICK result : Settle(result) /\ result \in {"deleted", "missing"}
      BY <2>1, <2>2, Owned DEF Answer
    <3>2. answer' = [answer EXCEPT ![Owner] = result] \/ answer' = answer
      BY <3>1 DEF Settle
    <3>. QED BY <1>3, <2>1, <3>1, <3>2 DEF StoreInv, TypeOK
  <2>4. id \in Readable
    BY <1>3 DEF Shown
  <2>. QED BY <2>1, <2>2, <2>3, <2>4 DEF StoreInv, PruningIsRight, FreshFor
<1>. QED BY <1>2, <1>3 DEF ShowsUnexpired

\* An answer that follows a pruning, and the start of the service, find no more
\* records than maxStoredRuns, and no client is shown a record that had expired when
\* it asked (pruneStoredRuns), whichever files cannot be read back.
THEOREM LimitsHold == Spec => LimitsKept
<1>1. StoreInv /\ [Next]_vars
      => [(AnswersPruned => Cardinality(Readable') <= MaxStored) /\ ShowsUnexpired]_vars
  BY LimitsStep
<1>. QED BY <1>1, StoreInvariant, PTL DEF Spec, LimitsKept

-------------------------------------------------------------------------------
(* Each step is a step of RunStore, or none.                               *)

\* What RunStore sees of a step that it does not see.
LEMMA Unseen ==
    ASSUME UNCHANGED <<now, answer, created, dir, unsynced>> PROVE UNCHANGED Promise!vars
BY DEF Promise!vars

LEMMA SameCardinality == ASSUME NEW S PROVE Promise!Cardinality(S) = Cardinality(S)
BY DEF Promise!Cardinality, Cardinality

LEMMA PruneRefines ==
    ASSUME StoreInv, NEW id \in Ids, Prune(id) PROVE Promise!Remove(id)
<1>1. /\ UNCHANGED <<now, phase, clients, queue, bounds, temps, created>>
      /\ op.step = "prune" /\ id \in op.expired \cup op.overflow
      /\ id \in op.expired \/ (op.expired = {} /\ Rank(id, op.overflow) = 0)
      /\ dir' = dir \ {id} /\ unsynced' = unsynced \cup {id}
  BY DEF Prune
<1>2. /\ id \in Readable /\ id \notin Unreadable /\ Readable \subseteq dir
      /\ Readable = dir \ Unreadable /\ dir' \ Unreadable = Readable \ {id}
      /\ ((Ids \ unsynced) \cup Unreadable)' = ((Ids \ unsynced) \cup Unreadable) \ {id}
  BY <1>1 DEF Readable, StoreInv, PruningIsRight
<1>3. /\ op.expired \cup op.overflow \subseteq Readable
      /\ \A x \in op.expired : Promise!Expired(x)
      /\ op.overflow # {} => Cardinality(Kept) = MaxStored
      /\ \A i \in op.overflow, j \in Kept : Promise!Older(i, j)
  BY <1>1 DEF StoreInv, PruningIsRight
<1>4. CASE id \in op.expired
  <2>1. id \in Readable /\ Promise!Expired(id)
    BY <1>3, <1>4
  <2>. QED BY <1>1, <1>2, <2>1 DEF Promise!Remove, clients
<1>5. CASE id \notin op.expired
  <2>1. /\ id \in op.overflow /\ id \in Readable /\ op.expired = {} /\ Rank(id, op.overflow) = 0
        /\ Kept = Readable \ op.overflow /\ op.overflow \subseteq Readable
    BY <1>1, <1>2, <1>3, <1>5 DEF Kept
  <2>2. Readable \subseteq Ids /\ IsFiniteSet(Readable) /\ IsFiniteSet(op.overflow)
    <3>1. Readable \subseteq Ids
      BY DEF StoreInv, TypeOK, Readable
    <3>2. IsFiniteSet(Readable)
      BY <3>1, HostedAssumption, FS_Subset
    <3>. QED BY <2>1, <3>1, <3>2, FS_Subset
  <2>3. Cardinality(Readable) > MaxStored
    <3>. DEFINE K == Kept
    <3>1. K \subseteq Readable /\ K # Readable /\ Cardinality(K) = MaxStored
      BY <1>3, <2>1
    <3>. HIDE DEF K
    <3>2. Cardinality(K) <= Cardinality(Readable) /\ Cardinality(K) # Cardinality(Readable)
      BY <2>2, <3>1, FS_Subset
    <3>3. Cardinality(Readable) \in Nat
      BY <2>2, FS_CardinalityType
    <3>. QED BY <3>1, <3>2, <3>3, Limits
  <2>4. \A j \in op.overflow : ~Promise!Older(j, id)
    <3>. DEFINE before == {j \in op.overflow : Promise!Older(j, id)}
    <3>1. before \subseteq op.overflow /\ Cardinality(before) = 0
      BY <2>1 DEF Rank
    <3>2. IsFiniteSet(before)
      BY <2>2, <3>1, FS_Subset
    <3>3. before = {}
      BY <3>1, <3>2, FS_EmptySet
    <3>. QED BY <3>3
  <2>5. ASSUME NEW j \in Readable, j # id PROVE Promise!Older(id, j)
    <3>1. CASE j \in Kept
      BY <1>3, <2>1, <3>1
    <3>2. CASE j \in op.overflow
      <4>1. created[j] \in Nat /\ created[id] \in Nat /\ j \in Nat /\ id \in Nat
        BY <2>1, <2>2, Made, HostedAssumption
      <4>. QED BY <2>4, <2>5, <3>2, <4>1 DEF Promise!Older
    <3>3. j \in Kept \/ j \in op.overflow
      BY <2>1
    <3>. QED BY <3>1, <3>2, <3>3
  <2>6. Promise!OldestOfTooMany(id)
    BY <1>2, <2>3, <2>5, SameCardinality DEF Promise!OldestOfTooMany
  <2>. QED BY <1>1, <1>2, <2>1, <2>6 DEF Promise!Remove, clients
<1>. QED BY <1>4, <1>5

LEMMA RenameRefines ==
    ASSUME StoreInv, Rename PROVE Record \in Ids /\ Promise!Store(Record)
<1>1. /\ UNCHANGED <<now, phase, clients, queue, bounds>> /\ op.step = "rename"
      /\ dir' = dir \cup {Record} /\ unsynced' = unsynced \cup {Record}
      /\ created' = [created EXCEPT ![Record] = op.time]
  BY DEF Rename
<1>2. /\ Owner \in Requests /\ Record \in Ids /\ stage[Owner] = "queued"
      /\ Asked[Owner].kind = "upload" /\ ~op.again
  BY <1>1, Owned DEF StoreInv, StepsOfKind
<1>3. ~Named(Owner)
  BY <1>1, <1>2 DEF Named
<1>4. created[Record] = Never
  BY <1>2, <1>3 DEF StoreInv, RecordsAreMade, Record
<1>5. op.time \in 0..now
  <2>1. op.time \in 0..MaxTime /\ op.time <= now /\ now \in 0..MaxTime
    BY OpTypes DEF StoreInv, StepsOfKind, TypeOK
  <2>. QED BY <2>1, Limits
<1>6. /\ dir' \ Unreadable = (dir \ Unreadable) \cup ({Record} \ Unreadable)
      /\ (Ids \ unsynced') \cup Unreadable
         = ((Ids \ unsynced) \cup Unreadable) \ ({Record} \ Unreadable)
  BY <1>1
<1>. QED BY <1>1, <1>2, <1>4, <1>5, <1>6 DEF Promise!Store, clients

LEMMA UnlinkRefines ==
    ASSUME StoreInv, Unlink
    PROVE  (Record \in Ids /\ Promise!Remove(Record)) \/ UNCHANGED Promise!vars
<1>1. /\ UNCHANGED <<now, phase, clients, queue, bounds, temps, created>> /\ op.step = "unlink"
      /\ dir' = dir \ {Record} /\ unsynced' = unsynced \cup (dir \cap {Record})
  BY DEF Unlink
<1>2. /\ Owner \in Requests /\ Record \in Ids /\ stage[Owner] = "queued"
      /\ Asked[Owner].kind = "delete"
  BY <1>1, Owned DEF StoreInv, StepsOfKind
<1>3. answer[Owner] \in {"none", "lost"}
  BY <1>2 DEF StoreInv, ClientsAgree
<1>4. Asked[Owner] = [kind |-> "delete", id |-> Record]
  BY <1>2, HostedAssumption DEF Record
<1>5. Promise!AskedToDelete(Record)
  BY <1>2, <1>3, <1>4 DEF Promise!AskedToDelete
<1>6. dir' \ Unreadable = (dir \ Unreadable) \ {Record}
  BY <1>1
<1>7. CASE Record \in dir \ Unreadable
  <2>1. (Ids \ unsynced') \cup Unreadable = ((Ids \ unsynced) \cup Unreadable) \ {Record}
    BY <1>1, <1>7
  <2>. QED BY <1>1, <1>2, <1>5, <1>6, <1>7, <2>1 DEF Promise!Remove, clients
<1>8. CASE Record \notin dir \ Unreadable
  <2>1. dir' \ Unreadable = dir \ Unreadable /\ (unsynced' = unsynced \/ Record \in Unreadable)
    BY <1>1, <1>8
  <2>2. (Ids \ unsynced') \cup Unreadable = (Ids \ unsynced) \cup Unreadable
    BY <1>1, <2>1
  <2>. QED BY <1>1, <2>1, <2>2 DEF clients, Promise!vars
<1>. QED BY <1>7, <1>8

\* The end of an operation gives an answer, or the client does not hear of it.
LEMMA SettleRefines ==
    ASSUME StoreInv, op.step # "idle", Owner # Service, NEW result \in Promise!Answers,
           Settle(result), UNCHANGED <<dir, unsynced>>, Promise!Holds(Owner, result)
    PROVE  (Owner \in Requests /\ Promise!Reply(Owner, result)) \/ UNCHANGED Promise!vars
<1>1. /\ UNCHANGED <<now, created, dir, unsynced>>
      /\ answer' = IF Owner \in open THEN [answer EXCEPT ![Owner] = result] ELSE answer
  BY DEF Settle
<1>2. Owner \in Requests
  BY Owned
<1>3. CASE Owner \in open
  <2>1. answer[Owner] = "none"
    BY <1>2, <1>3 DEF StoreInv, ClientsAgree
  <2>. QED BY <1>1, <1>2, <1>3, <2>1 DEF Promise!Reply
<1>4. CASE Owner \notin open
  BY <1>1, <1>4, Unseen
<1>. QED BY <1>3, <1>4

LEMMA AnswerRefines ==
    ASSUME StoreInv, Answer
    PROVE  (\E r \in Requests, a \in Promise!Answers : Promise!Reply(r, a)) \/ UNCHANGED Promise!vars
<1>1. op.step = "answer" /\ Owner # Service /\ UNCHANGED <<dir, unsynced>>
  BY DEF Answer, files
<1>2. /\ Serving /\ Owner \in Requests /\ Owner = Head(queue) /\ stage[Owner] = "queued"
      /\ \A kind : Doing(kind) <=> Asked[Owner].kind = kind
  BY <1>1, Owned
<1>3. Readable = dir \ Unreadable
  BY DEF Readable
<1>4. {"created", "deleted", "missing", "found", "listed"} \subseteq Promise!Answers
  BY DEF Promise!Answers
<1>5. CASE Doing("upload") /\ Settle("created")
  <2>1. op.again /\ unsynced = {}
    BY <1>1, <1>2, <1>5 DEF StoreInv, StepsOfKind, SyncedWhenTold
  <2>2. created[Asked[Owner].id] # Never
    BY <1>2, <1>5, <2>1 DEF StoreInv, RecordsAreMade, Named
  <2>3. Asked[Owner].id \in Ids
    BY <1>2, HostedAssumption
  <2>4. Promise!Holds(Owner, "created")
    BY <2>1, <2>2, <2>3 DEF Promise!Holds
  <2>. QED BY <1>1, <1>4, <1>5, <2>4, SettleRefines
<1>6. CASE Doing("delete") /\ Settle(IF op.found THEN "deleted" ELSE "missing")
  <2>1. /\ Asked[Owner].id \notin dir /\ Asked[Owner].id \in Ids
        /\ op.found => unsynced = {}
    BY <1>1, <1>2, <1>6, HostedAssumption DEF StoreInv, SyncedWhenTold, Record
  <2>2. CASE op.found
    <3>1. Promise!Holds(Owner, "deleted")
      BY <1>3, <2>1, <2>2 DEF Promise!Holds
    <3>. QED BY <1>1, <1>4, <1>6, <2>2, <3>1, SettleRefines
  <2>3. CASE ~op.found
    <3>1. Promise!Holds(Owner, "missing")
      BY <1>3, <2>1 DEF Promise!Holds
    <3>. QED BY <1>1, <1>4, <1>6, <2>3, <3>1, SettleRefines
  <2>. QED BY <2>2, <2>3
<1>7. CASE Doing("get") /\ Settle(IF Shown(Owner) # {} THEN "found" ELSE "missing")
  <2>1. Shown(Owner) = {Asked[Owner].id} \cap Readable
    BY <1>2, <1>7 DEF Shown
  <2>2. CASE Shown(Owner) # {}
    <3>1. Promise!Holds(Owner, "found")
      BY <1>3, <2>1, <2>2 DEF Promise!Holds
    <3>. QED BY <1>1, <1>4, <1>7, <2>2, <3>1, SettleRefines
  <2>3. CASE Shown(Owner) = {}
    <3>1. Promise!Holds(Owner, "missing")
      BY <1>3, <2>1, <2>3 DEF Promise!Holds
    <3>. QED BY <1>1, <1>4, <1>7, <2>3, <3>1, SettleRefines
  <2>. QED BY <2>2, <2>3
<1>8. CASE Settle("listed")
  <2>1. Promise!Holds(Owner, "listed")
    BY DEF Promise!Holds
  <2>. QED BY <1>1, <1>4, <1>8, <2>1, SettleRefines
<1>. QED BY <1>5, <1>6, <1>7, <1>8 DEF Answer

LEMMA OperationFailsRefines ==
    ASSUME StoreInv, OperationFails
    PROVE  (\E r \in Requests, a \in Promise!Answers : Promise!Reply(r, a)) \/ UNCHANGED Promise!vars
<1>1. Throws /\ Owner # Service /\ Settle("failed")
  BY DEF OperationFails
<1>2. op.step # "idle" /\ UNCHANGED <<dir, unsynced>>
  BY <1>1, FaultCounted
<1>3. "failed" \in Promise!Answers /\ Promise!Holds(Owner, "failed")
  BY DEF Promise!Answers, Promise!Holds
<1>. QED BY <1>1, <1>2, <1>3, SettleRefines

LEMMA RefuseRefines ==
    ASSUME StoreInv, NEW r \in Requests, Refuse(r)
    PROVE  "refused" \in Promise!Answers /\ Promise!Reply(r, "refused")
<1>1. /\ stage[r] = "reading" /\ answer' = [answer EXCEPT ![r] = "refused"]
      /\ UNCHANGED <<now, created, dir, unsynced>>
  BY DEF Refuse, files
<1>2. answer[r] = "none"
  BY <1>1 DEF StoreInv, ClientsAgree
<1>3. "refused" \in Promise!Answers /\ Promise!Holds(r, "refused")
  BY DEF Promise!Answers, Promise!Holds
<1>. QED BY <1>1, <1>2, <1>3 DEF Promise!Reply

\* The connections that are lost are those of requests without an answer.
LEMMA LossesRefine ==
    ASSUME StoreInv, NEW connections \in SUBSET open,
           answer' = [r \in Requests |-> IF r \in connections THEN "lost" ELSE answer[r]]
    PROVE  Promise!LoseAnswers
<1>1. connections \in SUBSET Requests /\ \A r \in connections : answer[r] = "none"
  BY DEF StoreInv, TypeOK, ClientsAgree
<1>2. answer' = [r \in Requests |->
                    IF r \in connections /\ answer[r] = "none" THEN "lost" ELSE answer[r]]
  BY <1>1
<1>. QED BY <1>1, <1>2 DEF Promise!LoseAnswers

LEMMA PowerFailsRefines ==
    ASSUME StoreInv, PowerFails PROVE Promise!PowerFails
<1>1. /\ answer' = [r \in Requests |-> IF r \in open THEN "lost" ELSE answer[r]]
      /\ unsynced' = {} /\ UNCHANGED <<now, created>>
  BY DEF PowerFails, Gone
<1>2. Promise!LoseAnswers
  BY <1>1, LossesRefine
<1>3. PICK names \in SUBSET unsynced : dir' = (dir \ unsynced) \cup names
  BY DEF PowerFails
<1>4. dir' \ Unreadable \subseteq {id \in Ids \ Unreadable : created[id] # Never}
  BY <1>3 DEF StoreInv, TypeOK, RecordsAreMade
<1>5. (dir' \ Unreadable) \cap ((Ids \ unsynced) \cup Unreadable)
      = (dir \ Unreadable) \cap ((Ids \ unsynced) \cup Unreadable)
  BY <1>3
<1>6. (Ids \ unsynced') \cup Unreadable = Ids
  BY <1>1, HostedAssumption
<1>. QED BY <1>1, <1>2, <1>4, <1>5, <1>6 DEF Promise!PowerFails

LEMMA RefinesInitially == ASSUME Init PROVE Promise!Init
<1>1. dir \ Unreadable = Existing \ Unreadable /\ (Ids \ unsynced) \cup Unreadable = Ids
  BY HostedAssumption DEF Init
<1>. QED BY <1>1 DEF Init, Promise!Init

LEMMA RefinesStep ==
    ASSUME StoreInv, [Next]_vars
    PROVE  Promise!Next \/ UNCHANGED Promise!vars
<1>1. CASE Tick
  BY <1>1 DEF Tick, clients, files, Promise!Tick, Promise!Next
<1>2. CASE Begin \/ Scan \/ OpenTemp \/ Started \/ StartFails
  <2>1. UNCHANGED <<now, answer, created, dir, unsynced>>
    BY <1>2 DEF Begin, Scan, OpenTemp, Started, StartFails, Throws, clients, files
  <2>. QED BY <2>1, Unseen
<1>3. CASE Pruned \/ Sync
  <2>1. unsynced' = {} /\ UNCHANGED <<now, answer, created, dir>>
    BY <1>3 DEF Pruned, Sync, clients
  <2>2. (Ids \ unsynced') \cup Unreadable = Ids
    BY <2>1, HostedAssumption
  <2>. QED BY <2>1, <2>2 DEF Promise!Settle, Promise!Next
<1>4. ASSUME NEW id \in Ids, Prune(id) PROVE Promise!Next
  BY <1>4, PruneRefines DEF Promise!Next
<1>5. CASE Rename \/ Unlink
  BY <1>5, RenameRefines, UnlinkRefines DEF Promise!Next
<1>6. CASE Answer \/ OperationFails
  BY <1>6, AnswerRefines, OperationFailsRefines DEF Promise!Next
<1>7. ASSUME NEW r \in Requests, Arrive(r) \/ BodyRead(r) PROVE UNCHANGED Promise!vars
  <2>1. UNCHANGED <<now, answer, created, dir, unsynced>>
    BY <1>7 DEF Arrive, BodyRead, files
  <2>. QED BY <2>1, Unseen
<1>8. ASSUME NEW r \in Requests, Refuse(r) PROVE Promise!Next
  BY <1>8, RefuseRefines DEF Promise!Next
<1>9. ASSUME NEW connections \in SUBSET open, UNCHANGED <<now, created, dir, unsynced>>,
             answer' = [r \in Requests |-> IF r \in connections THEN "lost" ELSE answer[r]]
      PROVE  Promise!Next
  BY <1>9, LossesRefine DEF Promise!Disconnect, Promise!Next
<1>10. ASSUME NEW r \in Requests, HangUp(r) PROVE Promise!Next
  BY <1>9, <1>10 DEF HangUp, Cut, files
<1>11. CASE GraceEnds \/ ProcessDies
  BY <1>9, <1>11 DEF GraceEnds, Cut, ProcessDies, Gone, files
<1>12. CASE PowerFails
  BY <1>12, PowerFailsRefines DEF Promise!Next
<1>13. CASE Stop \/ StopResolves \/ Start \/ UNCHANGED vars
  <2>1. UNCHANGED <<now, answer, created, dir, unsynced>>
    BY <1>13 DEF Stop, StopResolves, Start, vars, clients, files
  <2>. QED BY <2>1, Unseen
<1>. QED BY <1>1, <1>2, <1>3, <1>4, <1>5, <1>6, <1>7, <1>8, <1>10, <1>11, <1>12, <1>13
         DEF Next, Working, Reads

\* The service is the set of records that RunStore describes: what it answers is true
\* of the set, what it acknowledged survives the process and the power, and a record
\* goes only when it was deleted, had expired or was the oldest of too many.  What
\* cannot be read back, of earlier runs or just uploaded, is not in the set.
THEOREM RefinementHolds == Spec => RefinesStore
<1>1. Init => Promise!Init
  BY RefinesInitially
<1>2. StoreInv /\ [Next]_vars => [Promise!Next]_(Promise!vars)
  BY RefinesStep
<1>. QED BY <1>1, <1>2, StoreInvariant, PTL DEF Spec, RefinesStore, Promise!Spec
===============================================================================
