------------------------------- MODULE RunStore -------------------------------
(***************************************************************************)
(* What the hosted service (src/src/hosted-service.ts) promises of the     *)
(* runs it stores: a set of complete records.  A record is stored once.    *)
(* It is removed because a client deletes it, because it expired, or       *)
(* because it is the oldest of too many, and for no other reason.  What an *)
(* answer says is true of the set when it is given, and what "created" and *)
(* "deleted" say survives a power failure.  What cannot be read back is    *)
(* accepted and never seen.                                                *)
(***************************************************************************)
EXTENDS Integers, FiniteSets

CONSTANTS
    Ids,         \* ids of records, numbered in the order of their names
    Requests,
    Asked,       \* what a request asks for; an upload gets an id of its own
    Existing,    \* the records of an earlier run of the service
    Unreadable,  \* the records whose file is ignored
    MaxStored,   \* maxStoredRuns
    Retention,   \* retentionMs
    Never        \* the creation time of a record that was not made

Kinds == {"upload", "list", "get", "delete"}

Answers ==
    {"none", "created", "listed", "found", "missing", "deleted", "refused", "failed", "lost"}

VARIABLES
    now,
    answer,    \* the answer to each request
    created,   \* createdAt of the records that were ever stored
    runs,      \* the records that are stored
    settled    \* records whose state a power failure does not change

vars == <<now, answer, created, runs, settled>>

Expired(id) == created[id] + Retention <= now

\* compareOldestFirst
Older(i, j) ==
    \/ created[i] < created[j]
    \/ created[i] = created[j] /\ i < j

Init ==
    /\ now = 0
    /\ answer = [r \in Requests |-> "none"]
    /\ created = [id \in Ids |-> IF id \in Existing THEN 0 ELSE Never]
    /\ runs = Existing \ Unreadable
    /\ settled = Ids

Tick == now' = now + 1 /\ UNCHANGED <<answer, created, runs, settled>>

\* createdAt is read before the file is written.
Store(id) ==
    /\ created[id] = Never
    /\ \E time \in 0..now : created' = [created EXCEPT ![id] = time]
    /\ runs' = runs \cup ({id} \ Unreadable)
    /\ settled' = settled \ ({id} \ Unreadable)
    /\ UNCHANGED <<now, answer>>

AskedToDelete(id) ==
    \E r \in Requests : Asked[r] = [kind |-> "delete", id |-> id] /\ answer[r] \in {"none", "lost"}

OldestOfTooMany(id) ==
    /\ Cardinality(runs) > MaxStored
    /\ \A j \in runs \ {id} : Older(id, j)

Remove(id) ==
    /\ id \in runs
    /\ Expired(id) \/ OldestOfTooMany(id) \/ AskedToDelete(id)
    /\ runs' = runs \ {id}
    /\ settled' = settled \ {id}
    /\ UNCHANGED <<now, answer, created>>

Settle ==
    /\ settled' = Ids
    /\ UNCHANGED <<now, answer, created, runs>>

\* What an answer says of the record it is about.
Holds(r, a) ==
    LET id == Asked[r].id IN
    /\ a = "created" => created[id] # Never /\ id \in settled
    /\ a = "deleted" => id \notin runs /\ id \in settled
    /\ a = "found" => id \in runs
    /\ a = "missing" => id \notin runs

Reply(r, a) ==
    /\ answer[r] = "none"
    /\ Holds(r, a)
    /\ answer' = [answer EXCEPT ![r] = a]
    /\ UNCHANGED <<now, created, runs, settled>>

LoseAnswers ==
    \E lost \in SUBSET Requests :
        answer' = [r \in Requests |->
                      IF r \in lost /\ answer[r] = "none" THEN "lost" ELSE answer[r]]

Disconnect == LoseAnswers /\ UNCHANGED <<now, created, runs, settled>>

PowerFails ==
    /\ LoseAnswers
    /\ runs' \subseteq {id \in Ids \ Unreadable : created[id] # Never}
    /\ runs' \cap settled = runs \cap settled
    /\ settled' = Ids
    /\ UNCHANGED <<now, created>>

Next ==
    \/ Tick
    \/ \E id \in Ids : Store(id) \/ Remove(id)
    \/ Settle
    \/ \E r \in Requests, a \in Answers : Reply(r, a)
    \/ Disconnect
    \/ PowerFails

Spec == Init /\ [][Next]_vars
===============================================================================
