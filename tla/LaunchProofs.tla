---------------------------- MODULE LaunchProofs ----------------------------
(***************************************************************************)
(* Launch's invariants, proved.  The argument is about who holds the write *)
(* end of the pipe: the parent reads the end of it only when the child has *)
(* given its end up, which it does by an exec, by an exit that came after  *)
(* the report, or by being killed.                                         *)
(***************************************************************************)
EXTENDS Launch, TLAPS

\* Who holds the write end, by where the two of them are.
WriteEnds ==
    /\ "parent" \in writers <=> parent = "close_write"
    /\ "child" \in writers <=> child \in ChildStep \cup {"early", "report", "exit", "late"}

\* A child leaves with a report, as the program, or killed; one that is stopped
\* on the way out has reported.
Departures ==
    /\ message # "none" =>
         failed # "none" /\ child \in {"exit", "late", "zombie", "reaped"}
    /\ child \in {"report", "exit", "late"} => failed # "none"
    /\ child \in {"exit", "late"} => message # "none"
    /\ child \in {"trap", "program"} => execd
    /\ child \in {"zombie", "reaped"} => execd \/ killed \/ message # "none"

\* What the mode settles.
Modes ==
    /\ mode = "debug" /\ child \in {"exec", "early", "trap", "program"} => traced
    /\ mode = "attach" => /\ message = "none"
                          /\ child \in {"none", "program", "trap", "zombie", "reaped"}
                          /\ parent \in {"attach", "wait", "load", "destroy",
                                         "returned", "threw"}
    /\ parent = "attach" => mode = "attach"

\* What the caller knows at each place it has come to.
Stages ==
    /\ parent = "fork" => child = "none"
    /\ parent = "attach" => child # "reaped"
    /\ parent \in {"close_write", "read", "reap", "construct"} =>
         child \notin {"none", "reaped"}
    /\ parent = "reap" => message # "none"
    /\ parent \in {"construct", "wait", "load", "destroy", "returned"} =>
         /\ message = "none"
         /\ child \in {"program", "trap", "zombie", "reaped"}
    /\ parent \in {"wait", "load", "destroy"} =>
         mode # "run" /\ pid = 1 /\ child # "reaped"
    /\ parent = "wait" /\ child # "zombie" => traced
    /\ parent \in {"load", "destroy"} =>
         /\ state = "STOPPED" /\ traced /\ execd
         /\ child = "trap" \/ (child = "zombie" /\ killed)

LaunchInv ==
    /\ TypeOK /\ WriteEnds /\ Departures /\ Modes /\ Stages
    /\ OnlyProgramsReturned /\ HandedOver

-----------------------------------------------------------------------------
\* Every call of launch and of attach begins in the invariant.
LEMMA LaunchInvInit == Init => LaunchInv
BY DEF Init, LaunchInv, TypeOK, WriteEnds, Departures, Modes, Stages,
       OnlyProgramsReturned, HandedOver, ChildStep, Running, Stopped

\* And every step of the child, of the kernel and of the caller stays in it.
LEMMA LaunchInvStep == LaunchInv /\ [Next]_vars => LaunchInv'
<1> SUFFICES ASSUME LaunchInv, [Next]_vars
             PROVE  LaunchInv'
  OBVIOUS
<1> USE DEF LaunchInv, TypeOK, WriteEnds, Departures, Modes, Stages,
            OnlyProgramsReturned, HandedOver, ChildStep, Running, Stopped
<1>1. ASSUME RedirectStdout, UNCHANGED <<mode, redirect, parent, killed, pid, state>>
     PROVE  LaunchInv'
  <2>1. child = "redirect"
    BY <1>1 DEF RedirectStdout
  <2>2. CASE child' = AfterRedirect
            /\ UNCHANGED <<traced, execd, writers, message, failed>>
    <3>1. TypeOK'
      BY <1>1, <2>1, <2>2 DEF AfterRedirect
    <3>2. WriteEnds'
      BY <1>1, <2>1, <2>2 DEF AfterRedirect
    <3>3. Departures'
      BY <1>1, <2>1, <2>2 DEF AfterRedirect
    <3>4. Modes'
      BY <1>1, <2>1, <2>2 DEF AfterRedirect
    <3>5. Stages'
      BY <1>1, <2>1, <2>2 DEF AfterRedirect
    <3>6. OnlyProgramsReturned' /\ HandedOver'
      BY <1>1, <2>1, <2>2 DEF AfterRedirect
    <3>7. QED
      BY <3>1, <3>2, <3>3, <3>4, <3>5, <3>6
  <2>3. CASE Fails("redirect")
    BY <1>1, <2>1, <2>3 DEF Fails
  <2>4. QED
    BY <1>1, <2>2, <2>3 DEF RedirectStdout
<1>2. ASSUME TraceMe, UNCHANGED <<mode, redirect, parent, killed, pid, state>>
     PROVE  LaunchInv'
  <2>1. child = "traceme"
    BY <1>2 DEF TraceMe
  <2>2. CASE traced' = TRUE /\ child' = "exec"
            /\ UNCHANGED <<execd, writers, message, failed>>
    <3>1. TypeOK'
      BY <1>2, <2>1, <2>2
    <3>2. WriteEnds'
      BY <1>2, <2>1, <2>2
    <3>3. Departures'
      BY <1>2, <2>1, <2>2
    <3>4. Modes'
      BY <1>2, <2>1, <2>2
    <3>5. Stages'
      BY <1>2, <2>1, <2>2
    <3>6. OnlyProgramsReturned' /\ HandedOver'
      BY <1>2, <2>1, <2>2
    <3>7. QED
      BY <3>1, <3>2, <3>3, <3>4, <3>5, <3>6
  <2>3. CASE Fails("traceme")
    BY <1>2, <2>1, <2>3 DEF Fails
  <2>4. QED
    BY <1>2, <2>2, <2>3 DEF TraceMe
<1>3. ASSUME Exec, UNCHANGED <<mode, redirect, parent, killed, pid, state>>
     PROVE  LaunchInv'
  <2>1. child = "exec"
    BY <1>3 DEF Exec
  <2>2. CASE execd' = TRUE /\ writers' = writers \ {"child"}
            /\ UNCHANGED <<traced, message, failed>>
            /\ traced /\ child' = "trap"
    BY <1>3, <2>1, <2>2
  <2>3. CASE execd' = TRUE /\ writers' = writers \ {"child"}
            /\ UNCHANGED <<traced, message, failed>>
            /\ ~traced /\ child' = "program"
    BY <1>3, <2>1, <2>3
  <2>4. CASE Fails("exec")
    BY <1>3, <2>1, <2>4 DEF Fails
  <2>5. QED
    BY <1>3, <2>2, <2>3, <2>4 DEF Exec
<1>4. ASSUME Report, UNCHANGED <<mode, redirect, parent, killed, pid, state>>
     PROVE  LaunchInv'
  BY <1>4 DEF Report
<1>5. ASSUME Exit, UNCHANGED <<mode, redirect, parent, killed, pid, state>>
     PROVE  LaunchInv'
  BY <1>5 DEF Exit
<1>6. CASE SignalStop
  BY <1>6 DEF SignalStop
<1>7. CASE ProgramExits
  BY <1>7 DEF ProgramExits
<1>8. CASE Kill
  BY <1>8 DEF Kill
<1>9. ASSUME Fork, UNCHANGED <<mode, redirect, killed>>
     PROVE  LaunchInv'
  <2>1. parent = "fork" /\ UNCHANGED <<traced, execd, message, failed, pid, state>>
    BY <1>9 DEF Fork
  <2>2. CASE parent' = "close_write" /\ writers' = {"parent", "child"}
            /\ child' = IF redirect THEN "redirect" ELSE AfterRedirect
    <3>1. TypeOK'
      BY <1>9, <2>1, <2>2 DEF AfterRedirect
    <3>2. WriteEnds'
      BY <1>9, <2>1, <2>2 DEF AfterRedirect
    <3>3. Departures'
      BY <1>9, <2>1, <2>2 DEF AfterRedirect
    <3>4. Modes'
      BY <1>9, <2>1, <2>2 DEF AfterRedirect
    <3>5. Stages'
      BY <1>9, <2>1, <2>2 DEF AfterRedirect
    <3>6. OnlyProgramsReturned' /\ HandedOver'
      BY <1>9, <2>1, <2>2 DEF AfterRedirect
    <3>7. QED
      BY <3>1, <3>2, <3>3, <3>4, <3>5, <3>6
  <2>3. CASE parent' = "threw" /\ UNCHANGED <<child, writers>>
    <3>1. TypeOK'
      BY <1>9, <2>1, <2>3 DEF AfterRedirect
    <3>2. WriteEnds'
      BY <1>9, <2>1, <2>3 DEF AfterRedirect
    <3>3. Departures'
      BY <1>9, <2>1, <2>3 DEF AfterRedirect
    <3>4. Modes'
      BY <1>9, <2>1, <2>3 DEF AfterRedirect
    <3>5. Stages'
      BY <1>9, <2>1, <2>3 DEF AfterRedirect
    <3>6. OnlyProgramsReturned' /\ HandedOver'
      BY <1>9, <2>1, <2>3 DEF AfterRedirect
    <3>7. QED
      BY <3>1, <3>2, <3>3, <3>4, <3>5, <3>6
  <2>4. QED
    BY <1>9, <2>2, <2>3 DEF Fork
<1>10. ASSUME CloseWrite, UNCHANGED <<mode, redirect, killed>>
     PROVE  LaunchInv'
  BY <1>10 DEF CloseWrite
<1>11. ASSUME Read, UNCHANGED <<mode, redirect, killed>>
     PROVE  LaunchInv'
  BY <1>11 DEF Read, childVars
<1>12. ASSUME Reap, UNCHANGED <<mode, redirect, killed>>
     PROVE  LaunchInv'
  BY <1>12 DEF Reap
<1>13. ASSUME Construct, UNCHANGED <<mode, redirect, killed>>
     PROVE  LaunchInv'
  BY <1>13 DEF Construct, childVars
<1>14. ASSUME Attach, UNCHANGED <<mode, redirect, killed>>
     PROVE  LaunchInv'
  <2>1. parent = "attach" /\ UNCHANGED <<child, execd, writers, message, failed, state>>
    BY <1>14 DEF Attach
  <2>2. CASE child = "program" /\ traced' = TRUE /\ pid' = 1 /\ parent' = "wait"
    <3>1. TypeOK'
      BY <1>14, <2>1, <2>2
    <3>2. WriteEnds'
      BY <1>14, <2>1, <2>2
    <3>3. Departures'
      BY <1>14, <2>1, <2>2
    <3>4. Modes'
      BY <1>14, <2>1, <2>2
    <3>5. Stages'
      BY <1>14, <2>1, <2>2
    <3>6. OnlyProgramsReturned' /\ HandedOver'
      BY <1>14, <2>1, <2>2
    <3>7. QED
      BY <3>1, <3>2, <3>3, <3>4, <3>5, <3>6
  <2>3. CASE parent' = "threw" /\ UNCHANGED <<traced, pid>>
    <3>1. TypeOK'
      BY <1>14, <2>1, <2>3
    <3>2. WriteEnds'
      BY <1>14, <2>1, <2>3
    <3>3. Departures'
      BY <1>14, <2>1, <2>3
    <3>4. Modes'
      BY <1>14, <2>1, <2>3
    <3>5. Stages'
      BY <1>14, <2>1, <2>3
    <3>6. OnlyProgramsReturned' /\ HandedOver'
      BY <1>14, <2>1, <2>3
    <3>7. QED
      BY <3>1, <3>2, <3>3, <3>4, <3>5, <3>6
  <2>4. QED
    BY <1>14, <2>2, <2>3 DEF Attach
<1>15. ASSUME WaitOnSignal, UNCHANGED <<mode, redirect, killed>>
     PROVE  LaunchInv'
  <2>1. parent = "wait" /\ UNCHANGED <<traced, execd, writers, message, failed>>
    BY <1>15 DEF WaitOnSignal
  <2>2. CASE child = "zombie" /\ child' = "reaped" /\ pid' = 0
            /\ parent' = "returned" /\ state' = state
    BY <1>15, <2>1, <2>2
  <2>3. CASE child \in Stopped /\ state' = "STOPPED" /\ parent' = "load"
            /\ UNCHANGED <<child, pid>>
    BY <1>15, <2>1, <2>3
  <2>4. QED
    BY <1>15, <2>2, <2>3 DEF WaitOnSignal
<1>16. ASSUME LoadRegisters, UNCHANGED <<mode, redirect, killed>>
     PROVE  LaunchInv'
  BY <1>16 DEF LoadRegisters, childVars
<1>17. ASSUME DestroyProcess, UNCHANGED <<mode, redirect, killed>>
     PROVE  LaunchInv'
  BY <1>17 DEF DestroyProcess
<1>18. CASE UNCHANGED vars
  BY <1>18 DEF vars
<1>19. QED
  BY <1>1, <1>2, <1>3, <1>4, <1>5, <1>6, <1>7, <1>8, <1>9, <1>10, <1>11, <1>12, <1>13,
    <1>14, <1>15, <1>16, <1>17, <1>18
     DEF Next, ChildNext, ParentNext, Terminated

\* The invariant, in every reachable state of every call.
THEOREM LaunchInvariance == Spec => []LaunchInv
<1>1. Init => LaunchInv
  BY LaunchInvInit
<1>2. LaunchInv /\ [Next]_vars => LaunchInv'
  BY LaunchInvStep
<1>3. QED
  BY <1>1, <1>2, PTL DEF Spec

\* Type correctness of both processes of a launch.
THEOREM TypeCorrect == Spec => []TypeOK
<1>1. LaunchInv => TypeOK
  BY DEF LaunchInv
<1>2. QED
  BY <1>1, LaunchInvariance, PTL

\* What launch and attach return has been exec'd, or was killed on the way:
\* silence on the pipe is success only because a child that fails speaks first.
THEOREM ReturnsPrograms == Spec => []OnlyProgramsReturned
<1>1. LaunchInv => OnlyProgramsReturned
  BY DEF LaunchInv
<1>2. QED
  BY <1>1, LaunchInvariance, PTL

\* The step in which launch throws leaves its child reaped, or, after a report,
\* stopped on its way out: the waitpid of a failed launch takes such a stop for
\* the end, and nothing else comes between (launch, ~Process).
THEOREM NoZombies == Spec => NoZombieLeft
<1>1. LaunchInv /\ [Next]_vars =>
        (parent' = "threw" /\ parent # "threw" /\ mode # "attach" =>
           child' \in {"none", "reaped"} \/ child = "late")
  <2> SUFFICES ASSUME LaunchInv, [Next]_vars,
                      parent' = "threw", parent # "threw", mode # "attach"
               PROVE  child' \in {"none", "reaped"} \/ child = "late"
    OBVIOUS
  <2>1. CASE Fork
    BY <2>1 DEF Fork, LaunchInv, Stages
  <2>2. CASE Reap
    <3>1. child \in {"exit", "late", "zombie", "reaped"}
      BY <2>2 DEF Reap, LaunchInv, Stages, Departures
    <3> QED
      BY <2>2, <3>1 DEF Reap, Stopped
  <2>3. CASE Attach
    BY <2>3 DEF Attach, LaunchInv, Modes
  <2>4. CASE DestroyProcess
    BY <2>4 DEF DestroyProcess, LaunchInv, TypeOK, Stages
  <2>5. ~(\/ CloseWrite \/ Read \/ Construct \/ WaitOnSignal \/ LoadRegisters)
    BY DEF CloseWrite, Read, Construct, WaitOnSignal, LoadRegisters
  <2> QED
    BY <2>1, <2>2, <2>3, <2>4, <2>5
       DEF Next, ChildNext, SignalStop, ProgramExits, Kill, ParentNext, Terminated, vars
<1> QED
  BY <1>1, LaunchInvariance, PTL DEF Spec, NoZombieLeft

\* The process handed over is stopped after its exec, or its end is known.
THEOREM StoppedAfterExec == Spec => []HandedOver
<1>1. LaunchInv => HandedOver
  BY DEF LaunchInv
<1>2. QED
  BY <1>1, LaunchInvariance, PTL
=============================================================================
