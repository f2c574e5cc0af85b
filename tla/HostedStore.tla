------------------------------ MODULE HostedStore ------------------------------
(***************************************************************************)
(* The hosted service (src/src/hosted-service.ts): clients upload, list,   *)
(* read and delete the results of runs, one file each in one directory.    *)
(* Operations on the directory run one at a time, in the order in which    *)
(* handlers queue them, and take several steps of I/O.  A step may fail,   *)
(* a client may hang up, the service may be stopped or die between any two *)
(* steps, and a power failure undoes what is not synced.                   *)
(*                                                                         *)
(* A file is longer than the body it was made of.  What readAllStoredRuns  *)
(* and readStoredRun skip, as it is longer than 2 * maxBodyBytes + 64 KiB  *)
(* or damaged, is in Unreadable.                                           *)
(***************************************************************************)
EXTENDS Integers, FiniteSets, Sequences

CONSTANTS
    Ids, Requests, Asked, Existing, Unreadable, MaxStored, Retention, Never,  \* see RunStore
    ListLimit,    \* the limit of a list
    Service,      \* performs the pruning at startup
    MaxTime, MaxMishaps  \* bounds of the model

Kinds == {"upload", "list", "get", "delete"}

ASSUME HostedAssumption ==
    /\ Asked \in [Requests -> [kind: Kinds, id: Ids]]
    /\ \A q, r \in Requests :
          Asked[q].kind = "upload" /\ Asked[r].kind = "upload" /\ Asked[q].id = Asked[r].id
          => q = r
    /\ \A r \in Requests : Asked[r].kind = "upload" => Asked[r].id \notin Existing
    /\ Service \notin Requests
    /\ Existing \subseteq Ids
    /\ Unreadable \subseteq Ids
    /\ Ids \subseteq Nat
    /\ IsFiniteSet(Ids)
    /\ {MaxStored, Retention, ListLimit} \subseteq Nat \ {0}
    /\ {MaxTime, MaxMishaps} \subseteq Nat
    /\ Never \notin Nat

VARIABLES
    now,
    phase,     \* of the service
    stage,     \* of each request
    open,      \* requests whose connection is open
    queue,     \* mutationQueue: requests whose operation has not ended
    op,        \* the operation at the head of the queue
    dir,       \* the records with a file
    unsynced,  \* records whose file came or went since the directory was synced
    temps,     \* the records with a temporary file
    answer, created,  \* history
    arrived,   \* when a reader that waits arrived
    faults, crashes

files == <<dir, unsynced, temps>>
bounds == <<faults, crashes>>
clients == <<stage, open, answer, arrived>>
vars == <<now, phase, clients, queue, op, files, created, bounds>>


Promise ==
    INSTANCE RunStore
    WITH runs <- dir \ Unreadable, settled <- (Ids \ unsynced) \cup Unreadable

Steps == {"idle", "scan", "prune", "open", "rename", "unlink", "sync", "answer"}

Operation ==
    [step: Steps, expired: SUBSET Ids, overflow: SUBSET Ids,
     again: BOOLEAN, time: 0..MaxTime, found: BOOLEAN]

Idle ==
    [step |-> "idle", expired |-> {}, overflow |-> {},
     again |-> FALSE, time |-> 0, found |-> FALSE]

Starting == [Idle EXCEPT !.step = "scan"]

Init ==
    /\ now = 0
    /\ phase = "starting"
    /\ stage = [r \in Requests |-> "new"]
    /\ open = {}
    /\ queue = <<>>
    /\ op = Starting
    /\ dir = Existing /\ unsynced = {} /\ temps = {}
    /\ answer = [r \in Requests |-> "none"]
    /\ created = [id \in Ids |-> IF id \in Existing THEN 0 ELSE Never]
    /\ arrived = [r \in Requests |-> 0]
    /\ faults = 0 /\ crashes = 0

Up == phase \in {"up", "stopping", "closing"}

Tick ==
    /\ now < MaxTime
    /\ now' = now + 1
    /\ UNCHANGED <<phase, clients, queue, op, files, created, bounds>>

-----------------------------------------------------------------------------
(* Clients and handlers.                                                   *)

\* A handler starts: an upload reads its body, other requests are queued.  A
\* connection from before stop() may still deliver its request until it is closed.
Arrive(r) ==
    /\ phase \in {"up", "stopping"}
    /\ stage[r] = "new"
    /\ open' = open \cup {r}
    /\ arrived' = IF Asked[r].kind \in {"get", "list"} THEN [arrived EXCEPT ![r] = now] ELSE arrived
    /\ \/ Asked[r].kind = "upload" /\ stage' = [stage EXCEPT ![r] = "reading"] /\ UNCHANGED queue
       \/ Asked[r].kind # "upload" /\ stage' = [stage EXCEPT ![r] = "queued"] /\ queue' = Append(queue, r)
    /\ UNCHANGED <<now, phase, answer, op, files, created, bounds>>

\* The body is complete and valid.
BodyRead(r) ==
    /\ Up
    /\ stage[r] = "reading"
    /\ stage' = [stage EXCEPT ![r] = "queued"]
    /\ queue' = Append(queue, r)
    /\ UNCHANGED <<now, phase, open, answer, arrived, op, files, created, bounds>>

Leave(connections) ==
    /\ open' = open \ connections
    /\ arrived' = [r \in Requests |-> IF r \in connections THEN 0 ELSE arrived[r]]

\* The body is too large, not a result, not redacted, or late.
Refuse(r) ==
    /\ Up
    /\ stage[r] = "reading"
    /\ stage' = [stage EXCEPT ![r] = "done"]
    /\ answer' = [answer EXCEPT ![r] = "refused"]
    /\ Leave({r})
    /\ UNCHANGED <<now, phase, queue, op, files, created, bounds>>

\* Connections are lost: what is being read is given up, what is queued is not.
Cut(connections) ==
    /\ Leave(connections)
    /\ answer' = [r \in Requests |-> IF r \in connections THEN "lost" ELSE answer[r]]
    /\ stage' = [r \in Requests |->
                    IF r \in connections /\ stage[r] = "reading" THEN "done" ELSE stage[r]]

HangUp(r) ==
    /\ faults + crashes < MaxMishaps
    /\ r \in open
    /\ Cut({r})
    /\ faults' = faults + 1
    /\ UNCHANGED <<now, phase, queue, op, files, created, crashes>>

-----------------------------------------------------------------------------
(* Operations.  The pruning at startup is an operation of the service.     *)

\* Whose operation runs.
Owner == IF phase = "starting" THEN Service ELSE Head(queue)

Doing(kind) == Owner # Service /\ Asked[Owner].kind = kind

Record == Asked[Owner].id

BeginIfOpen ==  \* mutant: an operation without a client is queued again
    /\ Up
    /\ op.step = "idle"
    /\ queue # <<>>
    /\ IF Owner \in open
       THEN /\ op' = [Idle EXCEPT !.step = IF Doing("delete") THEN "unlink" ELSE "scan"]
            /\ UNCHANGED queue
       ELSE queue' = Append(Tail(queue), Owner) /\ UNCHANGED op
    /\ UNCHANGED <<now, phase, clients, files, created, bounds>>

\* The next operation starts once the one before it has settled.
Begin ==
    /\ Up
    /\ op.step = "idle"
    /\ queue # <<>>
    /\ op' = [Idle EXCEPT !.step = IF Doing("delete") THEN "unlink" ELSE "scan"]
    /\ UNCHANGED <<now, phase, clients, queue, files, created, bounds>>

Readable == dir \ Unreadable

Rank(id, among) == Cardinality({j \in among : Promise!Older(j, id)})

OverflowMutant(retained) ==  \* mutant: newest first
    {id \in retained : Rank(id, retained) >= MaxStored}

\* The records beyond the limit, oldest first.
Overflow(retained) ==
    {id \in retained : Rank(id, retained) < Cardinality(retained) - MaxStored}

\* After a pruning an upload goes on to write its record, unless it has.
Then == IF Doing("upload") /\ ~op.again THEN "open" ELSE "answer"

\* pruneStoredRuns reads the directory, then the clock.
Scan ==
    /\ op.step = "scan"
    /\ LET expired == {id \in Readable : Promise!Expired(id)}
           overflow == Overflow(Readable \ expired) IN
       op' = [op EXCEPT !.step = IF expired \cup overflow = {} THEN Then ELSE "prune",
                        !.expired = expired, !.overflow = overflow]
    /\ UNCHANGED <<now, phase, clients, queue, files, created, bounds>>

\* Expired files go in the order of the directory, others oldest first.
Prune(id) ==
    /\ op.step = "prune"
    /\ \/ id \in op.expired
       \/ op.expired = {} /\ id \in op.overflow /\ Rank(id, op.overflow) = 0
    /\ dir' = dir \ {id}
    /\ unsynced' = unsynced \cup {id}
    /\ op' = [op EXCEPT !.expired = @ \ {id}, !.overflow = @ \ {id}]
    /\ UNCHANGED <<now, phase, clients, queue, temps, created, bounds>>

\* The directory is synced if something was removed.
Pruned ==
    /\ op.step = "prune"
    /\ op.expired \cup op.overflow = {}
    /\ unsynced' = {}
    /\ op' = [op EXCEPT !.step = Then]
    /\ UNCHANGED <<now, phase, clients, queue, dir, temps, created, bounds>>

\* persistRun takes createdAt and opens the temporary file.
OpenTemp ==
    /\ op.step = "open"
    /\ op' = [op EXCEPT !.step = "rename", !.time = now]
    /\ temps' = temps \cup {Record}
    /\ UNCHANGED <<now, phase, clients, queue, dir, unsynced, created, bounds>>

\* The file is written and synced, and takes its name.
Rename ==
    /\ op.step = "rename"
    /\ temps' = temps \ {Record}
    /\ dir' = dir \cup {Record}
    /\ unsynced' = unsynced \cup {Record}
    /\ created' = [created EXCEPT ![Record] = op.time]
    /\ op' = [op EXCEPT !.step = "sync"]
    /\ UNCHANGED <<now, phase, clients, queue, bounds>>

Unlink ==
    /\ op.step = "unlink"
    /\ dir' = dir \ {Record}
    /\ unsynced' = unsynced \cup (dir \cap {Record})
    /\ op' = [op EXCEPT !.step = IF Record \in dir THEN "sync" ELSE "answer", !.found = Record \in dir]
    /\ UNCHANGED <<now, phase, clients, queue, temps, created, bounds>>

SyncMutant ==  \* mutant: the limit is left to the next operation
    /\ op.step = "sync"
    /\ unsynced' = {}
    /\ op' = [op EXCEPT !.step = "answer", !.again = Doing("upload")]
    /\ UNCHANGED <<now, phase, clients, queue, dir, temps, created, bounds>>

\* syncDirectoryBestEffort; an upload prunes again.
Sync ==
    /\ op.step = "sync"
    /\ unsynced' = {}
    /\ op' = [op EXCEPT !.step = IF Doing("upload") THEN "scan" ELSE "answer", !.again = Doing("upload")]
    /\ UNCHANGED <<now, phase, clients, queue, dir, temps, created, bounds>>

\* The operation settles: the handler answers, and the next operation may begin.
Settle(result) ==
    /\ op' = Idle
    /\ queue' = Tail(queue)
    /\ stage' = [stage EXCEPT ![Owner] = "done"]
    /\ Leave({Owner})
    /\ answer' = IF Owner \in open THEN [answer EXCEPT ![Owner] = result] ELSE answer
    /\ UNCHANGED <<now, phase, created>>

\* What the answer to a get or a list shows; a list is cut, newest first.
Shown(r) ==
    IF Asked[r].kind = "get" THEN {Asked[r].id} \cap Readable
    ELSE {id \in Readable : Cardinality({j \in Readable : Promise!Older(id, j)}) < ListLimit}

Answer ==
    /\ op.step = "answer"
    /\ Owner # Service
    /\ \/ Doing("upload") /\ Settle("created")
       \/ Doing("delete") /\ Settle(IF op.found THEN "deleted" ELSE "missing")
       \/ Doing("get") /\ Settle(IF Shown(Owner) # {} THEN "found" ELSE "missing")
       \/ Doing("list") /\ Settle("listed")
    /\ UNCHANGED <<files, bounds>>

\* A step of I/O throws.  An upload removes its temporary file.
Throws ==
    /\ faults + crashes < MaxMishaps
    /\ \/ op.step \in {"scan", "open", "rename", "unlink"}
       \/ op.step = "prune" /\ op.expired \cup op.overflow # {}
    /\ faults' = faults + 1
    /\ UNCHANGED <<dir, unsynced, crashes>>

OperationFails ==
    /\ Throws
    /\ Owner # Service
    /\ Settle("failed")
    /\ temps' = IF op.step = "rename" THEN temps \ {Record} ELSE temps

-----------------------------------------------------------------------------
(* The life of the service.                                                *)

Started ==
    /\ phase = "starting"
    /\ op.step = "answer"
    /\ phase' = "up"
    /\ op' = Idle
    /\ UNCHANGED <<now, clients, queue, files, created, bounds>>

StartFails ==
    /\ phase = "starting"
    /\ Throws
    /\ phase' = "down"
    /\ op' = Idle
    /\ UNCHANGED <<now, clients, queue, temps, created>>

Stop ==
    /\ phase = "up"
    /\ phase' = "stopping"
    /\ UNCHANGED <<now, clients, queue, op, files, created, bounds>>

\* closeAllConnections
GraceEnds ==
    /\ phase = "stopping"
    /\ phase' = "closing"
    /\ Cut(open)
    /\ UNCHANGED <<now, queue, op, files, created, bounds>>

StopResolvesMutant ==  \* mutant: does not wait for the queue
    /\ phase \in {"stopping", "closing"}
    /\ open = {}
    /\ phase' = "down"
    /\ UNCHANGED <<now, clients, queue, op, files, created, bounds>>

\* The server has closed and the queue at that moment has settled.
StopResolves ==
    /\ phase \in {"stopping", "closing"}
    /\ open = {}
    /\ queue = <<>>
    /\ phase' = "down"
    /\ UNCHANGED <<now, clients, queue, op, files, created, bounds>>

Start ==
    /\ phase = "down"
    /\ phase' = "starting"
    /\ op' = Starting
    /\ UNCHANGED <<now, clients, queue, files, created, bounds>>

\* The process ends: nothing of it goes on.
Gone ==
    /\ faults + crashes < MaxMishaps
    /\ crashes' = crashes + 1
    /\ phase' = "down"
    /\ op' = Idle
    /\ queue' = <<>>
    /\ Leave(open)
    /\ answer' = [r \in Requests |-> IF r \in open THEN "lost" ELSE answer[r]]
    /\ stage' = [r \in Requests |-> IF stage[r] = "new" THEN "new" ELSE "done"]
    /\ UNCHANGED <<now, created, faults>>

ProcessDies ==
    /\ phase # "down"
    /\ Gone
    /\ UNCHANGED files

\* Each unsynced record has its file or has it not; if it was written, it may
\* have its temporary file.
PowerFails ==
    /\ Gone
    /\ \E names \in SUBSET unsynced : dir' = (dir \ unsynced) \cup names
    /\ temps' \in SUBSET (temps \cup (unsynced \ dir'))
    /\ unsynced' = {}

-----------------------------------------------------------------------------
Working ==
    \/ Begin \/ Scan \/ Pruned \/ OpenTemp \/ Rename \/ Unlink \/ Sync
    \/ Answer \/ OperationFails \/ Started \/ StartFails
    \/ \E id \in Ids : Prune(id)

Reads(r) == BodyRead(r) \/ Refuse(r)

Next ==
    \/ Tick
    \/ Working
    \/ \E r \in Requests : Arrive(r) \/ Reads(r) \/ HangUp(r)
    \/ Stop \/ GraceEnds \/ StopResolves \/ Start
    \/ ProcessDies \/ PowerFails

Spec == Init /\ [][Next]_vars

\* I/O ends or throws, and requestTimeout bounds the time a body may take.
FairSpec == Spec /\ WF_vars(Working) /\ \A r \in Requests : WF_vars(Reads(r))

-----------------------------------------------------------------------------
(* Properties.                                                             *)

\* The types of the variables.
TypeOK ==
    /\ now \in 0..MaxTime
    /\ phase \in {"starting", "up", "stopping", "closing", "down"}
    /\ stage \in [Requests -> {"new", "reading", "queued", "done"}]
    /\ open \subseteq Requests
    /\ queue \in Seq(Requests)
    /\ op \in Operation
    /\ dir \subseteq Ids /\ unsynced \subseteq Ids /\ temps \subseteq Ids
    /\ answer \in [Requests -> Promise!Answers]
    /\ created \in [Ids -> 0..MaxTime \cup {Never}]
    /\ arrived \in [Requests -> 0..MaxTime]
    /\ faults \in 0..MaxMishaps /\ crashes \in 0..MaxMishaps
    /\ \A r \in Requests : (\E i \in DOMAIN queue : queue[i] = r) <=> stage[r] = "queued"

\* The step answers after a pruning, or brings the service up.
AnswersPruned ==
    \/ phase = "starting" /\ phase' = "up"
    \/ \E r \in Requests :
          /\ answer[r] = "none"
          /\ Asked[r].kind # "delete"
          /\ answer'[r] \in {"created", "listed", "found", "missing"}

ShowsUnexpired ==
    \A r \in Requests :
        answer[r] = "none" /\ answer'[r] \in {"found", "listed"} =>
        \A id \in Shown(r) : created[id] + Retention > arrived[r]

\* An answer that comes after a pruning (that of an upload, a list or a get), and
\* the start of the service, find no more records than maxStoredRuns; and no client
\* is shown a record that had expired when its request arrived (pruneStoredRuns).
\* Files that cannot be read back are "never served or deleted" there: they are not
\* counted.  Between two answers there may be more, when a pruning fails.
LimitsKept ==
    [][(AnswersPruned => Cardinality(Readable') <= MaxStored) /\ ShowsUnexpired]_vars

\* When stop() has resolved, or the process is gone, no operation is left that
\* touches the directory, and only a crash has left a temporary file.
StopDrains ==
    phase = "down" => /\ op = Idle /\ queue = <<>> /\ open = {}
                      /\ temps # {} => crashes > 0

\* What the service answers is what a set of records that survives power
\* failures would answer, and records go only when they have to: none whose upload
\* was answered with 201 is lost with the process or the power, and none whose
\* deletion was answered with 204 comes back.  A record that cannot be read back
\* was never in the set.
RefinesStore == Promise!Spec

Waiting == {r \in Requests : stage[r] \in {"reading", "queued"}}

\* The requests that were accepted are answered or lost, whatever operations
\* before them fail.
RequestsAnswered == Waiting # {} ~> Waiting = {}
===============================================================================
