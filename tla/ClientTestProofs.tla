--------------------------- MODULE ClientTestProofs ---------------------------
(***************************************************************************)
(* A verdict that the command takes from a run of its session is that of a *)
(* complete run, for any number of runs that write, are killed and         *)
(* overwrite each other's report in any order.                             *)
(***************************************************************************)
EXTENDS ClientTest, TLAPS

AllSteps == {"before", "session", "after"}

\* What a run has completed when it gets somewhere without an error.
Sound(r) ==
    /\ r.at \in {"none", "before"} => r.error = "none"
    /\ r.at \in {"none", "before", "session", "after"} => ~r.found
    /\ r.at = "session" => "before" \in r.steps
    /\ r.at = "after" /\ r.error = "none" => {"before", "session"} \subseteq r.steps
    /\ r.at \in {"reports", "writing"} /\ r.error = "none" => r.steps = AllSteps
    /\ r.error # "none" => ~r.found
    /\ r.wrote => /\ r.at \in {"done", "exited", "killed"}
                  /\ r.error = "none" => r.steps = AllSteps
                  /\ r.code = IF r.error # "none" THEN 3 ELSE IF r.found THEN 1 ELSE 0

\* Of the three processes: a report that can be read was written to its end, and
\* a command that reads has a client that exited by itself, in time.
Consistent ==
    /\ \A i \in Runs : Sound(run[i])
    /\ file \in Runs => run[file].wrote
    /\ outer.at \in {"starting", "waiting"} => outer.code = 0 /\ outer.read = "nothing"
    /\ outer.at = "reading" => client.at = "exited" /\ ~client.signal /\ ~outer.timedOut

ClientInv == TypeOK /\ Consistent /\ JudgedByACompleteRun /\ NeverJudgedByPieces

-------------------------------------------------------------------------------
LEMMA RunFields ==
    ASSUME NEW r \in Run
    PROVE  /\ r.at \in {"none", "before", "session", "after", "reports", "writing",
                       "done", "exited", "killed"}
           /\ r.target \in {"none", "live", "stubborn", "gone"}
           /\ r.stdin \in {"open", "closed"} /\ r.error \in Errors
           /\ r.found \in BOOLEAN /\ r.steps \in SUBSET AllSteps
           /\ r.wrote \in BOOLEAN /\ r.code \in {0, 1, 3, 10}
BY DEF Run, AllSteps

\* A step of one run leaves everything consistent when it leaves the run sound and,
\* if that has written its report, what the report stands for.
LEMMA OneRunSteps ==
    ASSUME ClientInv, NEW i \in Runs, NEW r \in Run, Sound(r),
           run[i].wrote => r.wrote /\ r.steps = run[i].steps /\ r.code = run[i].code,
           run' = [run EXCEPT ![i] = r], UNCHANGED <<outer, client>>,
           file' \in File, file' \in Runs => file' = file \/ (file' = i /\ r.wrote)
    PROVE  ClientInv'
<1>1. run \in [Runs -> Run] /\ outer \in Outer /\ client \in Client
  BY DEF ClientInv, TypeOK
<1>2. run'[i] = r /\ \A j \in Runs \ {i} : run'[j] = run[j]
  BY <1>1
<1>3. \A j \in Runs : run[j].wrote =>
         run'[j].wrote /\ run'[j].steps = run[j].steps /\ run'[j].code = run[j].code
  BY <1>2
<1>4. TypeOK'
  BY <1>1 DEF TypeOK
<1>5. \A j \in Runs : Sound(run'[j])
  BY <1>2 DEF ClientInv, Consistent
<1>6. file' \in Runs => run'[file'].wrote
  BY <1>2, <1>3 DEF ClientInv, Consistent
<1>7. Consistent'
  BY <1>5, <1>6 DEF ClientInv, Consistent
<1>8. JudgedByACompleteRun'
  <2>1. SUFFICES ASSUME NEW code \in {0, 1}, Fresh(code)'
                 PROVE  /\ run'[outer.read].steps = {"before", "session", "after"}
                        /\ run'[outer.read].wrote
                        /\ run'[outer.read].code = code
                        /\ client = [at |-> "exited", code |-> 0, signal |-> FALSE]
                        /\ ~outer.timedOut
    BY DEF JudgedByACompleteRun
  <2>2. Fresh(code) /\ outer.read \in Runs
    BY <2>1 DEF Fresh, Judged
  <2>. QED BY <1>3, <2>2 DEF ClientInv, JudgedByACompleteRun
<1>9. NeverJudgedByPieces'
  BY DEF ClientInv, NeverJudgedByPieces, Judged
<1>. QED BY <1>4, <1>7, <1>8, <1>9 DEF ClientInv

\* The same for a step that leaves the file alone.
LEMMA OneRunAdvances ==
    ASSUME ClientInv, NEW i \in Runs, NEW r \in Run, Sound(r), Advances(i, r),
           run[i].wrote => r.wrote /\ r.steps = run[i].steps /\ r.code = run[i].code
    PROVE  ClientInv'
BY OneRunSteps DEF Advances, ClientInv, TypeOK

\* The run of a step is sound and typed, and has not written before it is done.
LEMMA Unfinished ==
    ASSUME ClientInv, NEW i \in Runs
    PROVE  /\ run[i] \in Run /\ Sound(run[i])
           /\ run[i].at \notin {"done", "exited", "killed"} => ~run[i].wrote
BY DEF ClientInv, TypeOK, Consistent, Sound

LEMMA LaunchStep ==
    ASSUME ClientInv, NEW i \in Runs, Launches(i)
    PROVE  ClientInv'
<1>. DEFINE r == [run[i] EXCEPT !.at = "before"]
<1>1. run[i].at = "none" /\ run[i] \in Run /\ Sound(run[i]) /\ ~run[i].wrote
  BY Unfinished DEF Launches
<1>2. r \in Run /\ Sound(r)
  BY <1>1, RunFields DEF Run, Sound
<1>3. Advances(i, r)
  BY DEF Launches, Advances
<1>. HIDE DEF r
<1>. QED BY <1>1, <1>2, <1>3, OneRunAdvances

LEMMA ObserveBeforeStep ==
    ASSUME ClientInv, NEW i \in Runs, ObservesBefore(i)
    PROVE  ClientInv'
<1>1. run[i].at = "before" /\ run[i] \in Run /\ Sound(run[i]) /\ ~run[i].wrote
  BY Unfinished DEF ObservesBefore
<1>2. CASE Advances(i, [Done(i, "before", "session") EXCEPT !.target = "live"])
  <2>. DEFINE r == [Done(i, "before", "session") EXCEPT !.target = "live"]
  <2>1. r \in Run /\ Sound(r)
    <3>1. PICK steps : steps = run[i].steps \cup {"before"}
      OBVIOUS
    <3>2. r = [run[i] EXCEPT !.at = "session", !.steps = steps, !.target = "live"]
      BY <1>1, <3>1 DEF Done, Run
    <3>3. steps \in SUBSET AllSteps /\ "before" \in steps
      BY <1>1, <3>1, RunFields DEF AllSteps
    <3>. HIDE DEF r
    <3>4. /\ r \in Run /\ r.at = "session" /\ r.steps = steps
          /\ r.error = run[i].error /\ r.found = run[i].found /\ ~r.wrote
      BY <1>1, <3>2, <3>3, RunFields DEF Run, AllSteps
    <3>. QED BY <1>1, <3>3, <3>4 DEF Sound
  <2>2. Advances(i, r)
    BY <1>2
  <2>. HIDE DEF r
  <2>. QED BY <1>1, <2>1, <2>2, OneRunAdvances
<1>3. ASSUME NEW e \in {"observer", "policy"},
             Advances(i, [run[i] EXCEPT !.at = "after", !.error = e])
      PROVE  ClientInv'
  <2>. DEFINE r == [run[i] EXCEPT !.at = "after", !.error = e]
  <2>1. r \in Run /\ Sound(r)
    BY <1>1, RunFields DEF Run, Sound, Errors
  <2>2. Advances(i, r)
    BY <1>3
  <2>. HIDE DEF r
  <2>. QED BY <1>1, <2>1, <2>2, OneRunAdvances
<1>. QED BY <1>2, <1>3 DEF ObservesBefore

\* The target closes, and a failure of the proxy becomes the error of the run.
LEMMA TargetClosedStep ==
    ASSUME ClientInv, NEW i \in Runs, TargetClosed(i)
    PROVE  ClientInv'
<1>1. run[i].at = "session" /\ run[i] \in Run /\ Sound(run[i]) /\ ~run[i].wrote
  BY Unfinished DEF TargetClosed
<1>2. PICK e \in {"none", "transport"}, fate \in {"gone", "stubborn"} :
        Advances(i, [run[i] EXCEPT !.target = fate, !.error = e])
  BY DEF TargetClosed
<1>. DEFINE r == [run[i] EXCEPT !.target = fate, !.error = e]
<1>3. r \in Run /\ Sound(r)
  <2>1. /\ r \in Run /\ r.at = "session" /\ r.error = e /\ r.found = run[i].found
        /\ r.steps = run[i].steps /\ ~r.wrote
    BY <1>1, RunFields DEF Run, Errors
  <2>. HIDE DEF r
  <2>. QED BY <1>1, <2>1 DEF Sound
<1>4. Advances(i, r)
  BY <1>2
<1>. HIDE DEF r
<1>. QED BY <1>1, <1>3, <1>4, OneRunAdvances

LEMMA SessionStep ==
    ASSUME ClientInv, NEW i \in Runs, SessionEnds(i)
    PROVE  ClientInv'
<1>1. run[i].at = "session" /\ run[i] \in Run /\ Sound(run[i]) /\ ~run[i].wrote
  BY Unfinished DEF SessionEnds
<1>. DEFINE Passed(fate) == [Done(i, "session", "after") EXCEPT
                                !.target = IF @ = "live" THEN fate ELSE @]
<1>2. PICK fate \in {"gone", "stubborn"} :
        Advances(i, IF Passed(fate).error = "none" THEN Passed(fate)
                    ELSE [Passed(fate) EXCEPT !.steps = run[i].steps])
  BY DEF SessionEnds
<1>3. PICK steps, target : /\ steps = run[i].steps \cup {"session"}
                           /\ target = IF run[i].target = "live" THEN fate ELSE run[i].target
  OBVIOUS
<1>4. target \in {"none", "live", "stubborn", "gone"}
  BY <1>1, <1>3, RunFields
<1>5. steps \in SUBSET AllSteps /\ {"before", "session"} \subseteq steps
  BY <1>1, <1>3, RunFields DEF AllSteps, Sound
<1>6. Passed(fate) = [run[i] EXCEPT !.at = "after", !.steps = steps, !.target = target]
  BY <1>1, <1>3 DEF Done, Run
<1>7. PICK d : d = [run[i] EXCEPT !.at = "after", !.steps = steps, !.target = target]
  OBVIOUS
<1>8. /\ d \in Run /\ d.at = "after" /\ d.steps = steps
      /\ d.error = run[i].error /\ d.found = run[i].found /\ ~d.wrote
  BY <1>1, <1>4, <1>5, <1>7, RunFields DEF Run, AllSteps
<1>9. Advances(i, IF d.error = "none" THEN d ELSE [d EXCEPT !.steps = run[i].steps])
  BY <1>2, <1>6, <1>7
<1>. HIDE DEF Passed
<1>10. CASE d.error = "none"
  <2>1. Sound(d) /\ Advances(i, d)
    BY <1>1, <1>5, <1>8, <1>9, <1>10 DEF Sound
  <2>. QED BY <1>1, <1>8, <2>1, OneRunAdvances
<1>11. CASE d.error # "none"
  <2>. DEFINE r == [d EXCEPT !.steps = run[i].steps]
  <2>1. /\ r \in Run /\ r.at = "after" /\ r.error = d.error /\ r.found = d.found /\ ~r.wrote
    BY <1>1, <1>8, RunFields DEF Run, AllSteps
  <2>2. Advances(i, r)
    BY <1>9, <1>11
  <2>. HIDE DEF r
  <2>3. Sound(r)
    BY <1>1, <1>8, <1>11, <2>1 DEF Sound
  <2>. QED BY <1>1, <2>1, <2>2, <2>3, OneRunAdvances
<1>. QED BY <1>10, <1>11

LEMMA ObserveAfterStep ==
    ASSUME ClientInv, NEW i \in Runs, ObservesAfter(i)
    PROVE  ClientInv'
<1>1. run[i].at = "after" /\ run[i] \in Run /\ Sound(run[i]) /\ ~run[i].wrote
  BY Unfinished DEF ObservesAfter
<1>2. ASSUME NEW found \in IF run[i].error = "none" THEN BOOLEAN ELSE {FALSE},
             Advances(i, [Done(i, "after", "reports") EXCEPT !.found = found])
      PROVE  ClientInv'
  <2>. DEFINE r == [Done(i, "after", "reports") EXCEPT !.found = found]
  <2>0. found \in BOOLEAN /\ (run[i].error # "none" => ~found)
    <3>1. CASE run[i].error = "none"
      BY <3>1
    <3>2. CASE run[i].error # "none"
      BY <3>2
    <3>. QED BY <3>1, <3>2
  <2>1. r \in Run /\ Sound(r)
    <3>. DEFINE d == Done(i, "after", "reports")
    <3>1. /\ d \in Run /\ d.at = "reports" /\ d.error = run[i].error /\ ~d.wrote
          /\ d.error = "none" => d.steps = AllSteps
      <4>1. PICK steps : steps = run[i].steps \cup {"after"}
        OBVIOUS
      <4>2. d = [run[i] EXCEPT !.at = "reports", !.steps = steps]
        BY <4>1 DEF Done
      <4>3. steps \in SUBSET AllSteps
        BY <1>1, <4>1, RunFields DEF AllSteps
      <4>4. run[i].error = "none" => steps = AllSteps
        BY <1>1, <4>1, <4>3 DEF Sound, AllSteps
      <4>. HIDE DEF d
      <4>. QED BY <1>1, <4>2, <4>3, <4>4, RunFields DEF Run, AllSteps
    <3>. HIDE DEF d
    <3>2. /\ r = [d EXCEPT !.found = found] /\ r \in Run /\ r.at = "reports" /\ r.found = found
          /\ r.error = d.error /\ r.steps = d.steps /\ ~r.wrote
      <4>1. r = [d EXCEPT !.found = found]
        BY DEF d
      <4>. HIDE DEF r
      <4>. QED BY <2>0, <3>1, <4>1 DEF Run
    <3>. QED BY <1>1, <2>0, <3>1, <3>2 DEF Sound
  <2>2. Advances(i, r)
    BY <1>2
  <2>. HIDE DEF r
  <2>. QED BY <1>1, <2>1, <2>2, OneRunAdvances
<1>3. CASE Advances(i, [run[i] EXCEPT !.at = "reports",
                                      !.error = IF @ = "none" THEN "observer" ELSE @])
  <2>. DEFINE r == [run[i] EXCEPT !.at = "reports", !.error = IF @ = "none" THEN "observer" ELSE @]
  <2>1. r \in Run /\ Sound(r)
    BY <1>1, RunFields, ZenonT(60) DEF Run, Sound, Errors
  <2>2. Advances(i, r)
    BY <1>3
  <2>. HIDE DEF r
  <2>. QED BY <1>1, <2>1, <2>2, OneRunAdvances
<1>. QED BY <1>2, <1>3 DEF ObservesAfter

\* From here on the result file changes, too.
LEMMA OpenStep ==
    ASSUME ClientInv, NEW i \in Runs, Opens(i)
    PROVE  ClientInv'
<1>1. run[i].at = "reports" /\ run[i] \in Run /\ Sound(run[i]) /\ ~run[i].wrote
  BY Unfinished DEF Opens
<1>2. CASE Advances(i, [run[i] EXCEPT !.at = "done", !.code = 10])
  <2>. DEFINE r == [run[i] EXCEPT !.at = "done", !.code = 10]
  <2>1. r \in Run /\ Sound(r)
    BY <1>1, RunFields DEF Run, Sound
  <2>2. Advances(i, r)
    BY <1>2
  <2>. HIDE DEF r
  <2>. QED BY <1>1, <2>1, <2>2, OneRunAdvances
<1>3. CASE /\ run' = [run EXCEPT ![i].at = "writing"]
           /\ file' = "empty"
           /\ UNCHANGED <<outer, client>>
  <2>. DEFINE r == [run[i] EXCEPT !.at = "writing"]
  <2>1. r \in Run /\ Sound(r)
    BY <1>1, RunFields DEF Run, Sound
  <2>2. run' = [run EXCEPT ![i] = r]
    BY <1>3
  <2>3. file' \in File /\ file' \notin Runs
    BY <1>3, ClientAssumption DEF ClientInv, TypeOK, File
  <2>. HIDE DEF r
  <2>. QED BY <1>1, <1>3, <2>1, <2>2, <2>3, OneRunSteps
<1>. QED BY <1>2, <1>3 DEF Opens

LEMMA WriteStep ==
    ASSUME ClientInv, NEW i \in Runs, Writes(i)
    PROVE  ClientInv'
<1>. DEFINE r == [run[i] EXCEPT !.at = "done", !.wrote = TRUE, !.code = RunCode(i)]
<1>1. run[i].at = "writing" /\ run[i] \in Run /\ Sound(run[i]) /\ ~run[i].wrote
  BY Unfinished DEF Writes
<1>2. r \in Run /\ Sound(r) /\ r.wrote
  <2>1. RunCode(i) = IF run[i].error # "none" THEN 3 ELSE IF run[i].found THEN 1 ELSE 0
    BY DEF RunCode
  <2>. QED BY <1>1, <2>1, RunFields DEF Run, Sound
<1>3. run' = [run EXCEPT ![i] = r] /\ UNCHANGED <<outer, client>>
  BY DEF Writes
<1>4. file' \in File /\ (file' \in Runs => file' = i)
  <2>1. file' \in {i, "torn"}
    BY DEF Writes
  <2>. QED BY <2>1, ClientAssumption DEF File
<1>. HIDE DEF r
<1>. QED BY <1>1, <1>2, <1>3, <1>4, OneRunSteps

\* What may happen to a run whose report is written: it is killed, its pipe is
\* closed, its target ends, it exits.
LEMMA KillStep ==
    ASSUME ClientInv, NEW i \in Runs, Kills(i)
    PROVE  ClientInv'
<1>. DEFINE r == [run[i] EXCEPT !.at = "killed"]
<1>1. run[i] \in Run /\ Sound(run[i])
  BY Unfinished
<1>2. r \in Run /\ Sound(r) /\ r.wrote = run[i].wrote /\ r.steps = run[i].steps /\ r.code = run[i].code
  BY <1>1, RunFields DEF Run, Sound
<1>3. run' = [run EXCEPT ![i] = r] /\ UNCHANGED <<outer, client>>
  BY DEF Kills
<1>4. file' \in File /\ (file' \in Runs => file' = file)
  <2>1. file' = file \/ file' = "torn"
    BY DEF Kills
  <2>. QED BY <2>1, ClientAssumption DEF ClientInv, TypeOK, File
<1>. HIDE DEF r
<1>. QED BY <1>2, <1>3, <1>4, OneRunSteps

LEMMA CloseStdinStep ==
    ASSUME ClientInv, NEW i \in Runs, ClosesStdin(i)
    PROVE  ClientInv'
<1>. DEFINE r == [run[i] EXCEPT !.stdin = "closed"]
<1>1. run[i] \in Run /\ Sound(run[i])
  BY Unfinished
<1>2. r \in Run /\ Sound(r) /\ r.wrote = run[i].wrote /\ r.steps = run[i].steps /\ r.code = run[i].code
  BY <1>1, RunFields DEF Run, Sound
<1>3. Advances(i, r)
  BY DEF ClosesStdin, Advances
<1>. HIDE DEF r
<1>. QED BY <1>2, <1>3, OneRunAdvances

LEMMA TargetEndStep ==
    ASSUME ClientInv, NEW i \in Runs, TargetEnds(i)
    PROVE  ClientInv'
<1>. DEFINE r == [run[i] EXCEPT !.target = "gone"]
<1>1. run[i] \in Run /\ Sound(run[i])
  BY Unfinished
<1>2. r \in Run /\ Sound(r) /\ r.wrote = run[i].wrote /\ r.steps = run[i].steps /\ r.code = run[i].code
  BY <1>1, RunFields DEF Run, Sound
<1>3. Advances(i, r)
  BY DEF TargetEnds
<1>. HIDE DEF r
<1>. QED BY <1>2, <1>3, OneRunAdvances

LEMMA RunExitStep ==
    ASSUME ClientInv, NEW i \in Runs, RunExits(i)
    PROVE  ClientInv'
<1>. DEFINE r == [run[i] EXCEPT !.at = "exited"]
<1>1. run[i] \in Run /\ Sound(run[i])
  BY Unfinished
<1>2. r \in Run /\ Sound(r) /\ r.wrote = run[i].wrote /\ r.steps = run[i].steps /\ r.code = run[i].code
  BY <1>1, RunFields DEF Run, Sound
<1>3. Advances(i, r)
  BY DEF RunExits
<1>. HIDE DEF r
<1>. QED BY <1>2, <1>3, OneRunAdvances

-------------------------------------------------------------------------------
\* The end of the client closes pipes, and runs stay as sound as they were.
LEMMA ClientEndStep ==
    ASSUME ClientInv, NEW code \in {0, 1}, NEW signal \in BOOLEAN, Ended(code, signal)
    PROVE  ClientInv'
<1>1. /\ client.at = "running" /\ client' = [at |-> "exited", code |-> code, signal |-> signal]
      /\ run' = [i \in Runs |-> [run[i] EXCEPT !.stdin = "closed"]]
      /\ UNCHANGED <<outer, file>>
  BY DEF Ended
<1>2. \A i \in Runs : /\ run'[i] \in Run /\ Sound(run'[i])
                       /\ run'[i].wrote = run[i].wrote
  <2>1. ASSUME NEW i \in Runs
        PROVE  /\ run'[i] \in Run /\ Sound(run'[i])
               /\ run'[i].wrote = run[i].wrote
    <3>1. run'[i] = [run[i] EXCEPT !.stdin = "closed"] /\ run[i] \in Run /\ Sound(run[i])
      BY <1>1 DEF ClientInv, TypeOK, Consistent
    <3>. QED BY <3>1, RunFields DEF Run, Sound
  <2>. QED BY <2>1
<1>3. TypeOK'
  <2>1. client' \in Client
    BY <1>1 DEF Client
  <2>2. run' \in [Runs -> Run]
    BY <1>1, <1>2
  <2>. QED BY <1>1, <2>1, <2>2 DEF ClientInv, TypeOK
<1>4. \A c \in {0, 1} : ~Fresh(c)
  <2>1. client # [at |-> "exited", code |-> 0, signal |-> FALSE]
    BY <1>1
  <2>. QED BY <2>1 DEF ClientInv, JudgedByACompleteRun
<1>5. outer.at # "reading"
  BY <1>1 DEF ClientInv, Consistent
<1>6. Consistent'
  BY <1>1, <1>2, <1>5 DEF ClientInv, Consistent
<1>7. JudgedByACompleteRun'
  BY <1>1, <1>4 DEF JudgedByACompleteRun, Fresh, Judged
<1>8. NeverJudgedByPieces'
  BY <1>1 DEF ClientInv, NeverJudgedByPieces, Judged
<1>. QED BY <1>3, <1>6, <1>7, <1>8 DEF ClientInv

LEMMA OuterFields ==
    ASSUME NEW o \in Outer
    PROVE  /\ o.at \in {"starting", "waiting", "reading", "exited"}
           /\ o.timer \in {"none", "armed", "fired"}
           /\ o.timedOut \in BOOLEAN
           /\ o.code \in {0, 1, 2, 3, 4, 10}
           /\ o.read \in Runs \cup {"nothing", "earlier"}
BY DEF Outer

\* The command, before it has a verdict.
LEMMA CommandStep ==
    ASSUME ClientInv, Spawns \/ TimerFires \/ Closes
    PROVE  ClientInv'
<1>1. /\ outer.at \in {"starting", "waiting"} /\ UNCHANGED <<run, file>>
      /\ outer \in Outer /\ client \in Client
  BY DEF Spawns, TimerFires, Closes, ClientInv, TypeOK
<1>2. outer.code = 0 /\ outer.read = "nothing"
  BY <1>1 DEF ClientInv, Consistent
<1>. DEFINE Undecided ==
      /\ outer' \in Outer /\ client' \in Client
      /\ outer'.at = "exited" => outer'.code \in {2, 10}
      /\ outer'.at \in {"starting", "waiting"} => outer'.code = 0
      /\ outer'.read = "nothing"
      /\ outer'.at = "reading" => client'.at = "exited" /\ ~client'.signal /\ ~outer'.timedOut
<1>3. Undecided
  <2>1. ASSUME NEW code \in {2, 10}, Exits(code), UNCHANGED client
        PROVE  Undecided
    <3>1. outer' = [outer EXCEPT !.at = "exited", !.code = code]
      BY <2>1 DEF Exits
    <3>2. /\ outer' \in Outer /\ outer'.at = "exited" /\ outer'.code = code
          /\ outer'.read = "nothing"
      BY <1>1, <1>2, <3>1, OuterFields DEF Outer
    <3>. QED BY <1>1, <2>1, <3>2
  <2>2. CASE Spawns /\ outer'.at = "waiting"
    <3>1. /\ outer' = [outer EXCEPT !.at = "waiting", !.timer = "armed"]
          /\ client' = [client EXCEPT !.at = "running"]
      BY <1>1, <2>2, OuterFields DEF Spawns, Exits, Outer
    <3>2. outer' \in Outer /\ outer'.code = 0 /\ outer'.read = "nothing"
      BY <1>1, <1>2, <3>1, OuterFields, ZenonT(60) DEF Outer
    <3>3. client' \in Client
      BY <1>1, <3>1 DEF Client
    <3>. QED BY <2>2, <3>2, <3>3
  <2>3. CASE Spawns /\ outer'.at # "waiting"
    <3>1. (Exits(2) \/ Exits(10)) /\ UNCHANGED client
      BY <1>1, <2>3, OuterFields DEF Spawns, Outer
    <3>. QED BY <2>1, <3>1
  <2>4. CASE TimerFires
    <3>1. /\ outer' = [outer EXCEPT !.timer = "fired", !.timedOut = TRUE]
          /\ client' = client /\ outer.at = "waiting"
      BY <2>4 DEF TimerFires
    <3>2. outer' \in Outer /\ outer'.at = "waiting" /\ outer'.code = 0 /\ outer'.read = "nothing"
      BY <1>1, <1>2, <3>1, OuterFields, ZenonT(60) DEF Outer
    <3>. QED BY <1>1, <3>1, <3>2
  <2>5. CASE Closes /\ (outer.timedOut \/ client.signal)
    <3>1. Exits(10) /\ UNCHANGED client
      BY <2>5 DEF Closes
    <3>. QED BY <2>1, <3>1
  <2>6. CASE Closes /\ ~(outer.timedOut \/ client.signal)
    <3>1. /\ outer' = [outer EXCEPT !.at = "reading", !.timer = "none"]
          /\ client' = client /\ client.at = "exited"
      BY <2>6 DEF Closes
    <3>2. /\ outer' \in Outer /\ outer'.at = "reading" /\ outer'.read = "nothing"
          /\ outer'.timedOut = outer.timedOut
      BY <1>1, <1>2, <3>1, OuterFields DEF Outer
    <3>. QED BY <1>1, <2>6, <3>1, <3>2
  <2>. QED BY <2>2, <2>3, <2>4, <2>5, <2>6
<1>4. TypeOK'
  BY <1>1, <1>3 DEF ClientInv, TypeOK
<1>5. Consistent'
  BY <1>1, <1>3 DEF ClientInv, Consistent
<1>6. ~Judged'
  BY <1>3 DEF Judged
<1>. QED BY <1>4, <1>5, <1>6 DEF ClientInv, JudgedByACompleteRun, NeverJudgedByPieces, Fresh

LEMMA ReadStep ==
    ASSUME ClientInv, Reads
    PROVE  ClientInv'
<1>1. /\ outer.at = "reading" /\ UNCHANGED <<client, run, file>>
      /\ outer \in Outer /\ client \in Client /\ file \in File /\ run \in [Runs -> Run]
      /\ client.at = "exited" /\ ~client.signal /\ ~outer.timedOut
  BY DEF Reads, ClientInv, TypeOK, Consistent
<1>2. CASE file \in {"nothing", "empty", "torn"}
  <2>1. outer' = [outer EXCEPT !.at = "exited", !.code = 3]
    BY <1>2 DEF Reads, Exits
  <2>2. outer' \in Outer /\ outer'.at = "exited" /\ outer'.code = 3
    BY <1>1, <2>1, OuterFields DEF Outer
  <2>. QED BY <1>1, <2>2 DEF ClientInv, TypeOK, Consistent, JudgedByACompleteRun,
                             NeverJudgedByPieces, Fresh, Judged
<1>3. CASE file \notin {"nothing", "empty", "torn"}
  <2>0. PICK verdict \in Reports :
          outer' = [outer EXCEPT !.at = "exited", !.read = file, !.code = ExitCode(client.code, verdict)]
    BY <1>3 DEF Reads
  <2>. DEFINE code == ExitCode(client.code, verdict)
  <2>1. outer' = [outer EXCEPT !.at = "exited", !.read = file, !.code = code]
    BY <2>0
  <2>2. code \in {0, 1, 3, 4}
    BY DEF ExitCode
  <2>3. file \in Runs \cup {"earlier"}
    BY <1>1, <1>3 DEF File
  <2>4. ASSUME file \in Runs, code \in {0, 1}
        PROVE  /\ run[file].steps = AllSteps
               /\ run[file].wrote
               /\ run[file].code = code
               /\ client.code = 0
    <3>. DEFINE r == run[file]
    <3>1. Sound(r) /\ r.wrote /\ r \in Run
      BY <1>1, <2>4 DEF ClientInv, Consistent
    <3>2. verdict = Verdict(file)
      BY <2>0, <2>4, ClientAssumption DEF Reports
    <3>3. client.code = 0 /\ verdict \notin {"policy", "error"} /\ code = IF verdict = "blocking" THEN 1 ELSE 0
      BY <1>1, <2>4 DEF ExitCode, Client
    <3>4. r.error = "none" /\ (verdict = "blocking" <=> r.found)
      BY <3>1, <3>2, <3>3, RunFields DEF Verdict, Errors
    <3>. QED BY <3>1, <3>3, <3>4 DEF Sound
  <2>. HIDE DEF code
  <2>5. /\ outer' \in Outer /\ outer'.at = "exited" /\ outer'.read = file
        /\ outer'.code = code /\ outer'.timedOut = outer.timedOut
    BY <1>1, <2>1, <2>2, <2>3, OuterFields DEF Outer
  <2>6. JudgedByACompleteRun'
    <3>1. client.code = 0 => client = [at |-> "exited", code |-> 0, signal |-> FALSE]
      BY <1>1 DEF Client
    <3>. QED BY <1>1, <2>4, <2>5, <3>1 DEF JudgedByACompleteRun, Fresh, Judged, AllSteps
  <2>7. NeverJudgedByPieces'
    BY <1>3, <2>5 DEF NeverJudgedByPieces
  <2>8. TypeOK' /\ Consistent'
    BY <1>1, <2>5 DEF ClientInv, TypeOK, Consistent
  <2>. QED BY <2>6, <2>7, <2>8 DEF ClientInv
<1>. QED BY <1>2, <1>3

-------------------------------------------------------------------------------
LEMMA ClientStarts == Init => ClientInv
<1>. SUFFICES ASSUME Init PROVE ClientInv
  OBVIOUS
<1>1. /\ outer.at = "starting" /\ outer.code = 0 /\ outer.read = "nothing"
      /\ file \in {"nothing", "earlier"}
  BY DEF Init
<1>2. TypeOK
  BY DEF Init, TypeOK, Outer, Client, Run, File, Errors
<1>3. \A i \in Runs : Sound(run[i])
  BY DEF Init, Sound
<1>4. Consistent
  BY <1>1, <1>3, ClientAssumption DEF Consistent
<1>. QED BY <1>1, <1>2, <1>4 DEF ClientInv, JudgedByACompleteRun, NeverJudgedByPieces, Fresh, Judged

LEMMA ClientStep ==
    ASSUME ClientInv, [Next]_vars
    PROVE  ClientInv'
<1>1. CASE UNCHANGED vars
  BY <1>1 DEF vars, ClientInv, TypeOK, Consistent, JudgedByACompleteRun, NeverJudgedByPieces,
              Fresh, Judged
<1>2. CASE ClientExits \/ ClientKilled
  BY <1>2, ClientEndStep DEF ClientExits, ClientKilled
<1>3. ASSUME NEW i \in Runs, RunSteps(i) PROVE ClientInv'
  BY <1>3, ObserveBeforeStep, SessionStep, ObserveAfterStep, OpenStep, WriteStep, RunExitStep
     DEF RunSteps
<1>. QED BY <1>1, <1>2, <1>3, CommandStep, ReadStep, LaunchStep, CloseStdinStep, KillStep,
            TargetClosedStep, TargetEndStep
     DEF Next

LEMMA ClientInvariant == Spec => []ClientInv
BY ClientStarts, ClientStep, PTL DEF Spec

\* The variables of the command, the client, its runs and the file have their types.
THEOREM ClientTypeCorrect == Spec => []TypeOK
<1>1. ClientInv => TypeOK
  BY DEF ClientInv
<1>. QED BY <1>1, ClientInvariant, PTL

\* commandTest takes exit code 0 or 1 from a run of this session only if it
\* observed twice, lasted until its client ended it and wrote its report to the
\* end; and loadRunReport never lets a torn or empty file decide.
THEOREM VerdictsAreOfRuns == Spec => []VerdictIsOfARun
<1>1. ClientInv => VerdictIsOfARun
  BY DEF ClientInv, VerdictIsOfARun
<1>. QED BY <1>1, ClientInvariant, PTL
===============================================================================
