------------------------------- MODULE ClientTest -------------------------------
(***************************************************************************)
(* `agent-crash-test test --client` (src/src/cli.ts, proxy-runner.ts): the *)
(* command starts a client and waits for it; the client starts, closes and *)
(* kills runs of the proxy; a run observes, lets the session of its client *)
(* pass, observes again and writes its report to the result file, and      *)
(* exits when nothing keeps it alive; when the client has exited the       *)
(* command reads that file and takes its exit code from it.  The processes *)
(* share nothing but the file.                                             *)
(***************************************************************************)
EXTENDS Naturals, FiniteSets

CONSTANT Runs  \* bound: the runs of the proxy that a client may start

\* What a file may hold besides the report of a run has names of its own.
ASSUME ClientAssumption == Runs \cap {"nothing", "earlier", "empty", "torn"} = {}

VARIABLES
    outer,    \* the command
    client,   \* the client
    run,      \* of each run: the process
    file      \* the result file

vars == <<outer, client, run, file>>

\* What a report says: `error` is an execution error, `policy` one of the probe policy.
Verdicts == {"passed", "blocking", "error", "policy"}
Errors == {"none", "observer", "policy", "transport"}

Outer ==
    [ at: {"starting", "waiting", "reading", "exited"},
      timer: {"none", "armed", "fired"},
      timedOut: BOOLEAN,
      code: {0, 1, 2, 3, 4, 10},
      read: Runs \cup {"nothing", "earlier"} ]       \* history: whose report was read
Client == [at: {"none", "running", "exited"}, code: {0, 1}, signal: BOOLEAN]
Run ==
    [ at: {"none", "before", "session", "after", "reports", "writing", "done", "exited", "killed"},
      stdin: {"open", "closed"},
      target: {"none", "live", "stubborn", "gone"},  \* stubborn: it survived SIGTERM
      error: Errors,                                 \* executionError
      found: BOOLEAN,                                \* a finding meets the blocking severity
      steps: SUBSET {"before", "session", "after"},  \* history: what was completed
      wrote: BOOLEAN,                                \* history
      code: {0, 1, 3, 10} ]
\* Whose report the file holds.  earlier: that of an earlier command, never removed.
\* A file is truncated when a run opens it; what two runs write over each other may
\* be torn.
File == Runs \cup {"nothing", "earlier", "empty", "torn"}

Init ==
    /\ outer = [at |-> "starting", timer |-> "none", timedOut |-> FALSE, code |-> 0,
                read |-> "nothing"]
    /\ client = [at |-> "none", code |-> 0, signal |-> FALSE]
    /\ run = [i \in Runs |-> [at |-> "none", stdin |-> "open", target |-> "none", error |-> "none",
                              found |-> FALSE, steps |-> {}, wrote |-> FALSE, code |-> 0]]
    /\ file \in {"nothing", "earlier"}

Alive(i) == run[i].at \notin {"none", "exited", "killed"}

-------------------------------------------------------------------------------
(* The command.                                                            *)

\* process.exitCode of a CliError, or 10.
Exits(code) == outer' = [outer EXCEPT !.at = "exited", !.code = code]

Spawns ==
    /\ outer.at = "starting"
    /\ \/ Exits(2) /\ UNCHANGED client        \* an unusable pack or an empty command
       \/ Exits(10) /\ UNCHANGED client       \* the client cannot be started
       \/ /\ outer' = [outer EXCEPT !.at = "waiting", !.timer = "armed"]
          /\ client' = [client EXCEPT !.at = "running"]
    /\ UNCHANGED <<run, file>>

\* SIGTERM: a client may ignore it.
TimerFires ==
    /\ outer.timer = "armed"
    /\ outer.at = "waiting"
    /\ outer' = [outer EXCEPT !.timer = "fired", !.timedOut = TRUE]
    /\ UNCHANGED <<client, run, file>>

Closes ==
    /\ outer.at = "waiting"
    /\ client.at = "exited"
    /\ IF outer.timedOut \/ client.signal
       THEN Exits(10)
       ELSE outer' = [outer EXCEPT !.at = "reading", !.timer = "none"]
    /\ UNCHANGED <<client, run, file>>

\* The verdict of a report: runProxyPack, evaluateProxyCapture and isBlocking.
Verdict(i) ==
    IF run[i].error = "policy" THEN "policy"
    ELSE IF run[i].error # "none" THEN "error"
    ELSE IF run[i].found THEN "blocking" ELSE "passed"

\* What the report in the file may say.
Reports == IF file = "earlier" THEN Verdicts ELSE {Verdict(file)}

ExitCode(code, verdict) ==
    IF verdict = "policy" THEN 4
    ELSE IF verdict = "error" \/ code # 0 THEN 3
    ELSE IF verdict = "blocking" THEN 1 ELSE 0

\* loadRunReport refuses what is no whole report.
Reads ==
    /\ outer.at = "reading"
    /\ IF file \in {"nothing", "empty", "torn"}
       THEN Exits(3)
       ELSE \E verdict \in Reports :
               outer' = [outer EXCEPT !.at = "exited", !.read = file,
                                      !.code = ExitCode(client.code, verdict)]
    /\ UNCHANGED <<client, run, file>>

-------------------------------------------------------------------------------
(* The client, which is not the project's.  Its pipes close with it.       *)

Ended(code, signal) ==
    /\ client.at = "running"
    /\ client' = [at |-> "exited", code |-> code, signal |-> signal]
    /\ run' = [i \in Runs |-> [run[i] EXCEPT !.stdin = "closed"]]
    /\ UNCHANGED <<outer, file>>

ClientExits == \E code \in {0, 1} : Ended(code, FALSE)
ClientKilled == outer.timedOut /\ Ended(0, TRUE)  \* by SIGTERM or, 500 ms later, SIGKILL

Launches(i) ==
    /\ client.at = "running"
    /\ run[i].at = "none"
    /\ run' = [run EXCEPT ![i].at = "before"]
    /\ UNCHANGED <<outer, client, file>>

ClosesStdin(i) ==
    /\ client.at = "running"
    /\ Alive(i) /\ run[i].stdin = "open"
    /\ run' = [run EXCEPT ![i].stdin = "closed"]
    /\ UNCHANGED <<outer, client, file>>

\* A client that does not wait for its server kills it.  A second SIGTERM, or one
\* outside the session, has the same effect.
Kills(i) ==
    /\ client.at = "running"
    /\ Alive(i)
    /\ run' = [run EXCEPT ![i].at = "killed"]
    /\ file' \in IF run[i].at = "writing" THEN {file, "torn"} ELSE {file}
    /\ UNCHANGED <<outer, client>>

-------------------------------------------------------------------------------
(* A run of the proxy: runProxyPack and the end of commandTest.            *)

Advances(i, r) ==
    /\ run' = [run EXCEPT ![i] = r]
    /\ UNCHANGED <<outer, client, file>>

Done(i, step, next) == [run[i] EXCEPT !.at = next, !.steps = @ \cup {step}]

\* observeExternalState: an error of the first observation keeps the proxy from running.
ObservesBefore(i) ==
    /\ run[i].at = "before"
    /\ \/ Advances(i, [Done(i, "before", "session") EXCEPT !.target = "live"])
       \/ \E e \in {"observer", "policy"} : Advances(i, [run[i] EXCEPT !.at = "after", !.error = e])

\* The target exits, a message is invalid, or max-run-ms passes: fail; or the client
\* sends SIGTERM.  Either closes the target, which may survive it.
TargetClosed(i) ==
    /\ run[i].at = "session"
    /\ run[i].target = "live"
    /\ \E e \in {"none", "transport"}, fate \in {"gone", "stubborn"} :
          Advances(i, [run[i] EXCEPT !.target = fate, !.error = e])

\* The race of runStdioProxy is over when the client has closed the pipe or the
\* target has gone.
SessionEnds(i) ==
    /\ run[i].at = "session"
    /\ run[i].stdin = "closed" \/ run[i].target = "gone"
    /\ \E fate \in {"gone", "stubborn"} :
          LET r == [Done(i, "session", "after") EXCEPT
                       !.target = IF @ = "live" THEN fate ELSE @]
          IN  Advances(i, IF r.error = "none" THEN r ELSE [r EXCEPT !.steps = run[i].steps])

\* A target that survived may still end some day.
TargetEnds(i) ==
    /\ Alive(i)
    /\ run[i].target = "stubborn"
    /\ Advances(i, [run[i] EXCEPT !.target = "gone"])

ObservesAfterMutant(i) ==  \* mutant: executionError keeps only what came before
    /\ run[i].at = "after"
    /\ \E found \in BOOLEAN :
          \/ Advances(i, [Done(i, "after", "reports") EXCEPT !.found = found])
          \/ Advances(i, [run[i] EXCEPT !.at = "reports", !.found = found])
\* The second observation, and the evaluation: no assertion is evaluated after an error.
ObservesAfter(i) ==
    /\ run[i].at = "after"
    /\ \E found \in IF run[i].error = "none" THEN BOOLEAN ELSE {FALSE} :
          Advances(i, [Done(i, "after", "reports") EXCEPT !.found = found])
       \/ Advances(i, [run[i] EXCEPT !.at = "reports",
                                     !.error = IF @ = "none" THEN "observer" ELSE @])

OpensLockMutant(i) ==  \* mutant: an empty result file is taken for one being written
    /\ run[i].at = "reports"
    /\ file # "empty"
    /\ run' = [run EXCEPT ![i].at = "writing"]
    /\ file' = "empty"
    /\ UNCHANGED <<outer, client>>
\* writeReports may throw; writeFile opens and truncates the result file.
Opens(i) ==
    /\ run[i].at = "reports"
    /\ \/ Advances(i, [run[i] EXCEPT !.at = "done", !.code = 10])
       \/ /\ run' = [run EXCEPT ![i].at = "writing"]
          /\ file' = "empty"
          /\ UNCHANGED <<outer, client>>

RunCode(i) ==
    IF run[i].error # "none" THEN 3
    ELSE IF run[i].found THEN 1 ELSE 0

\* What another run has written meanwhile may be longer.
Writes(i) ==
    /\ run[i].at = "writing"
    /\ run' = [run EXCEPT ![i].at = "done", ![i].wrote = TRUE, ![i].code = RunCode(i)]
    /\ file' \in IF file = "empty" THEN {i} ELSE {i, "torn"}
    /\ UNCHANGED <<outer, client>>

\* process.exitCode is set: a target that survived keeps the process, and so does the
\* pipe of a client if the proxy has read from it.
RunExits(i) ==
    /\ run[i].at = "done"
    /\ run[i].target # "stubborn"
    /\ run[i].stdin = "closed" \/ run[i].target = "none"
    /\ Advances(i, [run[i] EXCEPT !.at = "exited"])

RunSteps(i) ==
    \/ ObservesBefore(i) \/ SessionEnds(i)
    \/ ObservesAfter(i) \/ Opens(i) \/ Writes(i) \/ RunExits(i)

Next ==
    \/ Spawns \/ TimerFires \/ Closes \/ Reads
    \/ ClientExits \/ ClientKilled
    \/ \E i \in Runs : \/ Launches(i) \/ ClosesStdin(i) \/ Kills(i)
                      \/ TargetClosed(i) \/ TargetEnds(i) \/ RunSteps(i)

Spec == Init /\ [][Next]_vars

\* The timers of the command fire and SIGKILL ends the client; the runs go on as long
\* as their targets stop when told to.  Nothing makes a client exit or close a pipe
\* by itself, nor a target that survived SIGTERM end.
Fairness ==
    /\ WF_vars(Spawns) /\ WF_vars(TimerFires) /\ WF_vars(ClientKilled)
    /\ WF_vars(Closes) /\ WF_vars(Reads)
    /\ \A i \in Runs : WF_vars(run[i].target # "stubborn" /\ RunSteps(i))

FairSpec == Spec /\ Fairness

-------------------------------------------------------------------------------
(* Properties.                                                             *)

\* Types of the variables.
TypeOK ==
    /\ outer \in Outer
    /\ client \in Client
    /\ run \in [Runs -> Run]
    /\ file \in File

Judged == outer.at = "exited" /\ outer.code \in {0, 1}
Fresh(code) == Judged /\ outer.code = code /\ outer.read \in Runs

\* A verdict taken from a run of this session comes from one that observed the state
\* before and after, lasted until its client ended it, wrote its whole report and
\* set the same exit code; and the client exited with 0, in time.
JudgedByACompleteRun ==
    \A code \in {0, 1} : Fresh(code) =>
        /\ run[outer.read].steps = {"before", "session", "after"}
        /\ run[outer.read].wrote
        /\ run[outer.read].code = code
        /\ client = [at |-> "exited", code |-> 0, signal |-> FALSE]
        /\ ~outer.timedOut

\* Whatever is written over what, by whom, and whoever is killed: a verdict is never
\* taken from a file without a whole report.
NeverJudgedByPieces == Judged => outer.read # "nothing"

\* Both: no interleaving of the command, its client and its runs makes the exit
\* code speak for a run that was not complete (commandTest, loadRunReport).
VerdictIsOfARun == JudgedByACompleteRun /\ NeverJudgedByPieces

\* The command exits, whatever its client and its runs do, since it never waits
\* longer than the time it gives its client and half a second.  Once the client has
\* gone every run exits too, unless its target survives SIGTERM: no run waits for
\* another one, or for the command (waitForChild, runProxyPack, commandTest).
CommandAndRunsEnd ==
    /\ <>(outer.at = "exited")
    /\ (client.at = "exited") ~> (\A i \in Runs : ~Alive(i) \/ run[i].target = "stubborn")

\* Exit code 0 means that a run was executed to its end in this session, and
\* that none that was found anything blocking.
ZeroMeansExecuted ==
    outer.at = "exited" /\ outer.code = 0 =>
        /\ \E i \in Runs : run[i].wrote
        /\ \A i \in Runs : run[i].wrote => Verdict(i) = "passed"
===============================================================================
