--------------------------- MODULE ProgramProofs ---------------------------
(***************************************************************************)
(* Proofs about what the user of module Process gets: the registers shown  *)
(* are the program's own, no call waits for what cannot come, and the      *)
(* program is the one module Program describes.                            *)
(***************************************************************************)
EXTENDS ProcessProofs

\* A stop or an exit is there to be collected, or will be.
Answer == event # "none" \/ life \in {"running", "stepping"}

\* The debugger waits only for a process it has resumed, and a process it
\* takes for running owes it an answer.
Awaited ==
    /\ state = "RUNNING" /\ pid # 0
       /\ ctl \in {"idle", "sload", "sstep", "wait", "restore", "stop", "swait"}
         => Answer
    /\ ctl \in {"wait", "stop", "swait"} => state = "RUNNING" /\ pid # 0
    /\ ctl = "iwait" => Answer
    /\ ctl \in {"load"} \cup StepOver => state = "STOPPED"
    /\ ctl = "srearm" => pid = 0 \/ state = "STOPPED"

\* Where the cached image is the process's own.
Cached ==
    /\ ctl \in StepOver => cache.pc = loc
    /\ ctl \in {"istep", "reload"} => cache = Live
    /\ ctl = "srearm" /\ Traced => cache = Live
    /\ ctl = "idle" /\ state = "STOPPED" /\ Traced => cache = Live

\* What the destructor has done to the process once it lets go of it.
Ending ==
    /\ ctl \in {"detach", "kill", "gone"} => Held
    /\ ctl \in {"kill", "gone"} => life # "stopped"
    /\ ctl = "gone" /\ terminate_on_end => life = "reaped"

-----------------------------------------------------------------------------
(* The invariant.                                                          *)

\* Every resume is answered before the debugger stops waiting for the answer.
LEMMA AwaitedStep == TypeOK /\ Control /\ Awaited /\ [Next]_vars => Awaited'
<1> SUFFICES ASSUME TypeOK, Control, Awaited, [Next]_vars  PROVE Awaited'
  OBVIOUS
<1> USE DEF Control, Held, Awaited, Answer, Traced, Dtor, StepOver, Exit
<1>1. CASE Resume
  BY <1>1 DEF Resume, Cont, image, table, call
<1>2. CASE WaitOnSignal
  BY <1>2 DEF WaitOnSignal, traceeVars, image, table
<1>3. CASE StepInstruction
  BY <1>3 DEF StepInstruction, traceeVars, image, table
<1>4. ASSUME NEW a \in UserAddrs, AddBreakpoint(a)  PROVE Awaited'
  BY <1>4 DEF AddBreakpoint, call
<1>5. ASSUME NEW a \in UserAddrs, RemoveBreakpoint(a)  PROVE Awaited'
  BY <1>5 DEF RemoveBreakpoint, call
<1>6. ASSUME NEW i \in Id, RemoveBreakpointId(i)  PROVE Awaited'
  BY <1>6 DEF RemoveBreakpointId, call
<1>7. ASSUME NEW new \in Edits, WriteRegister(new)  PROVE Awaited'
  BY <1>7 DEF WriteRegister, Save, table, call
<1>8. CASE Destroy
  BY <1>8 DEF Destroy, traceeVars, image, table
<1>9. CASE WaitExit
  BY <1>9 DEF WaitExit, Collect, Return, image, table
<1>10. CASE WaitStop
  BY <1>10 DEF WaitStop, Collect, image, table
<1>11. CASE LoadRegisters
  BY <1>11 DEF LoadRegisters, Load, LoadFails, Return, Throw, table
<1>12. CASE InnerStep
  BY <1>12 DEF InnerStep, SingleStep, Throw, image, table
<1>13. CASE InnerWait
  BY <1>13 DEF InnerWait, Collect, image, table
<1>14. CASE InnerRearm
  BY <1>14 DEF InnerRearm, RearmAndRewind, RearmFails, Save, Throw, image, table
<1>15. CASE ReloadRegisters
  BY <1>15 DEF ReloadRegisters, Load, LoadFails, Return, Throw, traceeVars, image, table
<1>16. CASE StepLoad
  BY <1>16 DEF StepLoad, Load, LoadFails, Throw, table
<1>17. CASE StepRequest
  BY <1>17 DEF StepRequest, SingleStep, Throw, image, table
<1>18. CASE StepRearm
  BY <1>18 DEF StepRearm, RearmAndRewind, RearmFails, Save, Throw, image, table
<1>19. ASSUME NEW a \in sites, RestoreSite(a)  PROVE Awaited'
  BY <1>19 DEF RestoreSite, restore_sw_site, call
<1>20. CASE RestoreDone
  BY <1>20 DEF RestoreDone, traceeVars, image
<1>21. CASE SendStop
  BY <1>21 DEF SendStop, image, table
<1>22. CASE WaitForStop
  BY <1>22 DEF WaitForStop, Collect, image, table
<1>23. CASE Detach
  BY <1>23 DEF Detach, image, table
<1>24. CASE KillAndWait
  BY <1>24 DEF KillAndWait, image, table
<1>25. CASE Execute /\ UNCHANGED debugger
  BY <1>25 DEF Execute, StopWith, Die, Retire, image, debugger, table, call, Signal
<1>26. CASE RunFree /\ UNCHANGED debugger
  BY <1>26 DEF RunFree, Die, Retire, image, debugger, table, call
<1>27. CASE (PostInt \/ Killed) /\ UNCHANGED debugger
  BY <1>27 DEF PostInt, Killed, Die, image, debugger, table, call
<1>28. ASSUME NEW sig \in Signal, Deliver(sig), UNCHANGED debugger  PROVE Awaited'
  BY <1>28 DEF Deliver, StopWith, image, debugger, table, call, Signal
<1>29. CASE UNCHANGED vars
  BY <1>29 DEF vars, traceeVars, image, debugger, table, call
<1> HIDE DEF Control, Held, Awaited, Answer, Traced, Dtor, StepOver, Exit
<1>30. CASE ClientCall
  BY <1>1, <1>2, <1>3, <1>4, <1>5, <1>6, <1>7, <1>8, <1>30 DEF ClientCall
<1>31. CASE Proceed
  BY <1>9, <1>10, <1>11, <1>12, <1>13, <1>14, <1>15, <1>16, <1>17,
     <1>18, <1>19, <1>20, <1>21, <1>22, <1>23, <1>24, <1>31 DEF Proceed
<1>32. CASE Environment
  BY <1>25, <1>26, <1>27, <1>28, <1>32 DEF Environment
<1> QED
  BY <1>29, <1>30, <1>31, <1>32 DEF Next, Terminated

\* A load and a rewind leave cache and process with the same registers, and the
\* process keeps them as long as it is held.
LEMMA CachedStep == TypeOK /\ Control /\ Locals /\ Cached /\ [Next]_vars => Cached'
<1> SUFFICES ASSUME TypeOK, Control, Locals, Cached, [Next]_vars  PROVE Cached'
  OBVIOUS
<1> USE DEF TypeOK, Control, Locals, Held, Cached, Live, Traced, Dtor, StepOver, Exit,
            Registers
<1>1. CASE Resume
  BY <1>1 DEF Resume, Cont, image, table, call
<1>2. CASE WaitOnSignal
  BY <1>2 DEF WaitOnSignal, traceeVars, image, table
<1>3. CASE StepInstruction
  BY <1>3 DEF StepInstruction, traceeVars, image, table
<1>4. ASSUME NEW a \in UserAddrs, AddBreakpoint(a)  PROVE Cached'
  BY <1>4 DEF AddBreakpoint, call
<1>5. ASSUME NEW a \in UserAddrs, RemoveBreakpoint(a)  PROVE Cached'
  BY <1>5 DEF RemoveBreakpoint, call
<1>6. ASSUME NEW i \in Id, RemoveBreakpointId(i)  PROVE Cached'
  BY <1>6 DEF RemoveBreakpointId, call
<1>7. ASSUME NEW new \in Edits, WriteRegister(new)  PROVE Cached'
  <2>1. new \in Registers
    BY <1>7 DEF Edits
  <2>2. ASSUME Traced  PROVE cache' = Live'
    BY <1>7, <2>1, <2>2 DEF WriteRegister, Save
  <2> QED
    BY <1>7, <2>2 DEF WriteRegister, table, call
<1>8. CASE Destroy
  BY <1>8 DEF Destroy, traceeVars, image, table
<1>9. CASE WaitExit
  BY <1>9 DEF WaitExit, Collect, Return, image, table
<1>10. CASE WaitStop
  BY <1>10 DEF WaitStop, Collect, image, table
<1>11. CASE LoadRegisters
  BY <1>11 DEF LoadRegisters, Load, LoadFails, Return, Throw, table
<1>12. CASE InnerStep
  BY <1>12 DEF InnerStep, SingleStep, Throw, image, table
<1>13. CASE InnerWait
  BY <1>13 DEF InnerWait, Collect, image, table
<1>14. CASE InnerRearm
  BY <1>14 DEF InnerRearm, RearmAndRewind, RearmFails, Save, Throw, image, table
<1>15. CASE ReloadRegisters
  BY <1>15 DEF ReloadRegisters, Load, LoadFails, Return, Throw, traceeVars, image, table
<1>16. CASE StepLoad
  BY <1>16 DEF StepLoad, Load, LoadFails, Throw, table
<1>17. CASE StepRequest
  BY <1>17 DEF StepRequest, SingleStep, Throw, image, table
<1>18. CASE StepRearm
  BY <1>18 DEF StepRearm, RearmAndRewind, RearmFails, Save, Throw, image, table
<1>19. ASSUME NEW a \in sites, RestoreSite(a)  PROVE Cached'
  BY <1>19 DEF RestoreSite, restore_sw_site, call
<1>20. CASE RestoreDone
  BY <1>20 DEF RestoreDone, traceeVars, image
<1>21. CASE SendStop
  BY <1>21 DEF SendStop, image, table
<1>22. CASE WaitForStop
  BY <1>22 DEF WaitForStop, Collect, image, table
<1>23. CASE Detach
  BY <1>23 DEF Detach, image, table
<1>24. CASE KillAndWait
  BY <1>24 DEF KillAndWait, image, table
<1>25. CASE Execute /\ UNCHANGED debugger
  BY <1>25 DEF Execute, StopWith, Die, Retire, image, debugger, table, call, Signal
<1>26. CASE RunFree /\ UNCHANGED debugger
  BY <1>26 DEF RunFree, Die, Retire, image, debugger, table, call
<1>27. CASE (PostInt \/ Killed) /\ UNCHANGED debugger
  BY <1>27 DEF PostInt, Killed, Die, image, debugger, table, call
<1>28. ASSUME NEW sig \in Signal, Deliver(sig), UNCHANGED debugger  PROVE Cached'
  BY <1>28 DEF Deliver, StopWith, image, debugger, table, call, Signal
<1>29. CASE UNCHANGED vars
  BY <1>29 DEF vars, traceeVars, image, debugger, table, call
<1> HIDE DEF TypeOK, Control, Locals, Held, Cached, Live, Traced, Dtor, StepOver, Exit,
             Registers
<1>30. CASE ClientCall
  BY <1>1, <1>2, <1>3, <1>4, <1>5, <1>6, <1>7, <1>8, <1>30 DEF ClientCall
<1>31. CASE Proceed
  BY <1>9, <1>10, <1>11, <1>12, <1>13, <1>14, <1>15, <1>16, <1>17,
     <1>18, <1>19, <1>20, <1>21, <1>22, <1>23, <1>24, <1>31 DEF Proceed
<1>32. CASE Environment
  BY <1>25, <1>26, <1>27, <1>28, <1>32 DEF Environment
<1> QED
  BY <1>29, <1>30, <1>31, <1>32 DEF Next, Terminated

\* The destructor detaches only from a process that is held.
LEMMA EndingStep == TypeOK /\ Control /\ Ending /\ [Next]_vars => Ending'
<1> SUFFICES ASSUME TypeOK, Control, Ending, [Next]_vars  PROVE Ending'
  OBVIOUS
<1> USE DEF Control, Held, Ending, Traced, Dtor, Exit
<1>1. CASE Resume
  BY <1>1 DEF Resume, Cont, image, table, call
<1>2. CASE WaitOnSignal
  BY <1>2 DEF WaitOnSignal, traceeVars, image, table
<1>3. CASE StepInstruction
  BY <1>3 DEF StepInstruction, traceeVars, image, table
<1>4. ASSUME NEW a \in UserAddrs, AddBreakpoint(a)  PROVE Ending'
  BY <1>4 DEF AddBreakpoint, call
<1>5. ASSUME NEW a \in UserAddrs, RemoveBreakpoint(a)  PROVE Ending'
  BY <1>5 DEF RemoveBreakpoint, call
<1>6. ASSUME NEW i \in Id, RemoveBreakpointId(i)  PROVE Ending'
  BY <1>6 DEF RemoveBreakpointId, call
<1>7. ASSUME NEW new \in Edits, WriteRegister(new)  PROVE Ending'
  BY <1>7 DEF WriteRegister, Save, table, call
<1>8. CASE Destroy
  BY <1>8 DEF Destroy, traceeVars, image, table
<1>9. CASE WaitExit
  BY <1>9 DEF WaitExit, Collect, Return, image, table
<1>10. CASE WaitStop
  BY <1>10 DEF WaitStop, Collect, image, table
<1>11. CASE LoadRegisters
  BY <1>11 DEF LoadRegisters, Load, LoadFails, Return, Throw, table
<1>12. CASE InnerStep
  BY <1>12 DEF InnerStep, SingleStep, Throw, image, table
<1>13. CASE InnerWait
  BY <1>13 DEF InnerWait, Collect, image, table
<1>14. CASE InnerRearm
  BY <1>14 DEF InnerRearm, RearmAndRewind, RearmFails, Save, Throw, image, table
<1>15. CASE ReloadRegisters
  BY <1>15 DEF ReloadRegisters, Load, LoadFails, Return, Throw, traceeVars, image, table
<1>16. CASE StepLoad
  BY <1>16 DEF StepLoad, Load, LoadFails, Throw, table
<1>17. CASE StepRequest
  BY <1>17 DEF StepRequest, SingleStep, Throw, image, table
<1>18. CASE StepRearm
  BY <1>18 DEF StepRearm, RearmAndRewind, RearmFails, Save, Throw, image, table
<1>19. ASSUME NEW a \in sites, RestoreSite(a)  PROVE Ending'
  BY <1>19 DEF RestoreSite, restore_sw_site, call
<1>20. CASE RestoreDone
  BY <1>20 DEF RestoreDone, traceeVars, image, TypeOK
<1>21. CASE SendStop
  BY <1>21 DEF SendStop, image, table
<1>22. CASE WaitForStop
  BY <1>22 DEF WaitForStop, Collect, image, table
<1>23. CASE Detach
  BY <1>23 DEF Detach, image, table
<1>24. CASE KillAndWait
  BY <1>24 DEF KillAndWait, image, table
<1>25. CASE Execute /\ UNCHANGED debugger
  BY <1>25 DEF Execute, StopWith, Die, Retire, image, debugger, table, call, Signal
<1>26. CASE RunFree /\ UNCHANGED debugger
  BY <1>26 DEF RunFree, Die, Retire, image, debugger, table, call
<1>27. CASE (PostInt \/ Killed) /\ UNCHANGED debugger
  BY <1>27 DEF PostInt, Killed, Die, image, debugger, table, call
<1>28. ASSUME NEW sig \in Signal, Deliver(sig), UNCHANGED debugger  PROVE Ending'
  BY <1>28 DEF Deliver, StopWith, image, debugger, table, call, Signal
<1>29. CASE UNCHANGED vars
  BY <1>29 DEF vars, traceeVars, image, debugger, table, call
<1> HIDE DEF Control, Held, Ending, Traced, Dtor, Exit
<1>30. CASE ClientCall
  BY <1>1, <1>2, <1>3, <1>4, <1>5, <1>6, <1>7, <1>8, <1>30 DEF ClientCall
<1>31. CASE Proceed
  BY <1>9, <1>10, <1>11, <1>12, <1>13, <1>14, <1>15, <1>16, <1>17,
     <1>18, <1>19, <1>20, <1>21, <1>22, <1>23, <1>24, <1>31 DEF Proceed
<1>32. CASE Environment
  BY <1>25, <1>26, <1>27, <1>28, <1>32 DEF Environment
<1> QED
  BY <1>29, <1>30, <1>31, <1>32 DEF Next, Terminated

-----------------------------------------------------------------------------
(* The inductive invariant and what follows from it.                       *)

UserInv == IInv /\ Awaited /\ Cached /\ Ending

\* The user's invariant holds throughout, on top of that of ProcessProofs.
THEOREM UserInvariance == Spec => []UserInv
<1>1. Init => Awaited /\ Cached /\ Ending
  BY DEF Init, TraceeInit, BreakpointsInit, Awaited, Answer, Cached, Ending, Live,
         StepOver
<1>2. IInv /\ Awaited /\ Cached /\ Ending /\ [Next]_vars => Awaited' /\ Cached' /\ Ending'
  BY AwaitedStep, CachedStep, EndingStep DEF IInv
<1> QED
  BY <1>1, <1>2, Invariance, PTL DEF Spec, UserInv

\* No waitpid of the debugger blocks on a process with nothing left to report
\* (wait_on_signal, ~Process).
THEOREM NoCallHangs == Spec => []NoLostWakeup
<1>1. UserInv => NoLostWakeup
  BY DEF UserInv, Awaited, Answer, NoLostWakeup, IInv, Control, Dtor
<1> QED
  BY <1>1, UserInvariance, PTL

\* Between calls the registers the debugger would show, and would write back
\* with the next edit, are the process's own.
THEOREM CacheIsLive == Spec => []CacheCoherent
<1>1. UserInv => CacheCoherent
  BY DEF UserInv, Cached, CacheCoherent
<1> QED
  BY <1>1, UserInvariance, PTL

\* The destructor leaves nothing in ptrace-stop (~Process).
THEOREM PromiseIsKept == Spec => []EndsAsPromised
<1>1. UserInv => EndsAsPromised
  BY DEF UserInv, IInv, TypeOK, TraceeTypeOK, Ending, Held, EndsAsPromised
<1> QED
  BY <1>1, UserInvariance, PTL

-----------------------------------------------------------------------------
(* The refinement.  Each step of Process shows the user one of these.      *)

ShowsWork ==
    /\ Mode' = Mode /\ Shown' = Shown
    /\ outer' \in {NoAddr, outer, Shown.pc}

ShowsResume ==
    /\ Mode = "held" /\ Mode' = "running"
    /\ Shown' = Shown /\ outer' = outer

ShowsRetire ==
    /\ Mode = "running" /\ Mode' \in {"running", "held"}
    /\ Effect[Shown.pc] # "exit"
    /\ (Shown.pc)' = Succ[Shown.pc]
    /\ (Shown.reg)' = IF Effect[Shown.pc] = "reg" THEN Alu[Shown.reg] ELSE Shown.reg
    /\ ctl' = ctl /\ state' = state /\ outer' = outer

ShowsStop ==
    /\ Mode = "running" /\ Mode' = "held"
    /\ Shown' = Shown
    /\ ctl' = ctl /\ state' = state /\ outer' = outer

ShowsEdit ==
    /\ Mode = "held" /\ Mode' = Mode /\ ctl = "idle"
    /\ (Shown.pc)' \in Code /\ (Shown.reg)' \in Val
    /\ state = "STOPPED" => (Shown.pc)' = Shown.pc \/ (Shown.reg)' = Shown.reg
    /\ ctl' = ctl /\ state' = state /\ outer' = outer

ShowsTakeBack ==
    /\ Mode = "held" /\ Mode' = Mode /\ ctl # "idle" /\ outer # NoAddr
    /\ (Shown.pc)' = outer /\ (Shown.reg)' = Shown.reg
    /\ ctl' = "idle" /\ state' = state /\ outer' = NoAddr

ShowsEnd == Mode' = "gone"

Shows ==
    ShowsWork \/ ShowsResume \/ ShowsRetire \/ ShowsStop
        \/ ShowsEdit \/ ShowsTakeBack \/ ShowsEnd

\* Every step shows the user something Program allows.
LEMMA StepShows ==
    UserInv /\ UserInv' /\ [Next]_vars => Shows \/ UNCHANGED <<Mode, ctl, state, outer, Shown>>
<1> SUFFICES ASSUME TypeOK, Control, Locals, Cached, Cached', TypeOK', [Next]_vars
             PROVE  Shows \/ UNCHANGED <<Mode, ctl, state, outer, Shown>>
  BY DEF UserInv, IInv
<1> USE DEF TypeOK, TraceeTypeOK, Control, Locals, Held, Cached, Live, Shown, Mode,
            Traced, Dtor, StepOver, Exit, Registers
<1>1. CASE Resume
  BY <1>1 DEF Resume, Cont, image, table, call, Shows, ShowsWork, ShowsResume
<1>2. CASE WaitOnSignal
  BY <1>2 DEF WaitOnSignal, traceeVars, image, table, Shows, ShowsWork
<1>3. CASE StepInstruction
  BY <1>3 DEF StepInstruction, traceeVars, image, table, Shows, ShowsWork
<1>4. ASSUME NEW a \in UserAddrs, AddBreakpoint(a)  PROVE Shows
  BY <1>4 DEF AddBreakpoint, call, Shows, ShowsWork
<1>5. ASSUME NEW a \in UserAddrs, RemoveBreakpoint(a)  PROVE Shows
  BY <1>5 DEF RemoveBreakpoint, call, Shows, ShowsWork
<1>6. ASSUME NEW i \in Id, RemoveBreakpointId(i)  PROVE Shows
  BY <1>6 DEF RemoveBreakpointId, call, Shows, ShowsWork
<1>7. ASSUME NEW new \in Edits, WriteRegister(new)  PROVE Shows
  <2>1. new \in Registers
    BY <1>7 DEF Edits
  <2>2. CASE Traced
    <3>1. Live' = cache' /\ cache' = new
      BY <1>7, <2>1, <2>2 DEF WriteRegister, Save
    <3>2. state = "STOPPED" => cache = Live
      BY <1>7, <2>2 DEF WriteRegister
    <3>3. state = "STOPPED" => new.pc = pc \/ new.reg = reg
      BY <1>7, <3>2 DEF Edits
    <3> QED
      BY <1>7, <2>1, <2>2, <3>1, <3>3 DEF WriteRegister, call, Shows, ShowsEdit
  <2>3. CASE ~Traced
    BY <1>7, <2>3 DEF WriteRegister, table, call, Shows, ShowsWork
  <2> QED
    BY <2>2, <2>3
<1>8. CASE Destroy
  BY <1>8 DEF Destroy, traceeVars, image, table, Shows, ShowsWork
<1>9. CASE WaitExit
  BY <1>9 DEF WaitExit, Collect, Return, image, table, Shows, ShowsEnd
<1>10. CASE WaitStop
  BY <1>10 DEF WaitStop, Collect, image, table, Shows, ShowsWork
<1>11. CASE LoadRegisters
  BY <1>11 DEF LoadRegisters, Load, LoadFails, Return, Throw, table, Shows, ShowsWork
<1>12. CASE InnerStep
  BY <1>12 DEF InnerStep, SingleStep, Throw, image, table, Shows, ShowsWork
<1>13. CASE InnerWait
  BY <1>13 DEF InnerWait, Collect, image, table, Shows, ShowsWork, ShowsEnd
<1>14. CASE InnerRearm
  <2>1. CASE Traced
    <3>1. loc = cache.pc /\ cache' = cache /\ pc' = cache.pc /\ reg' = cache.reg
      BY <1>14, <2>1 DEF InnerRearm, RearmAndRewind, Save
    <3>2. Shown' = Shown
      BY <1>14, <2>1, <3>1 DEF InnerRearm
    <3> QED
      BY <1>14, <2>1, <3>2 DEF InnerRearm, Shows, ShowsWork
  <2>2. CASE ~Traced
    BY <1>14, <2>2 DEF InnerRearm, RearmFails, Throw, Shows, ShowsEnd
  <2> QED
    BY <1>14, <2>1, <2>2
<1>15. CASE ReloadRegisters
  BY <1>15 DEF ReloadRegisters, Load, LoadFails, Return, Throw, traceeVars, image,
               table, Shows, ShowsWork
<1>16. CASE StepLoad
  BY <1>16 DEF StepLoad, Load, LoadFails, Throw, table, Shows, ShowsWork
<1>17. CASE StepRequest
  BY <1>17 DEF StepRequest, SingleStep, Throw, image, table, Shows, ShowsWork,
               ShowsResume
<1>18. CASE StepRearm
  BY <1>18 DEF StepRearm, RearmAndRewind, RearmFails, Save, Throw, image, table, Shows,
               ShowsTakeBack, ShowsWork
<1>19. ASSUME NEW a \in sites, RestoreSite(a)  PROVE Shows
  BY <1>19 DEF RestoreSite, restore_sw_site, call, Shows, ShowsWork
<1>20. CASE RestoreDone
  BY <1>20 DEF RestoreDone, traceeVars, image, Shows, ShowsWork
<1>21. CASE SendStop
  BY <1>21 DEF SendStop, image, table, Shows, ShowsWork
<1>22. CASE WaitForStop
  BY <1>22 DEF WaitForStop, Collect, image, table, Shows, ShowsWork
<1>23. CASE Detach
  BY <1>23 DEF Detach, image, table, Shows, ShowsWork, ShowsResume
<1>24. CASE KillAndWait
  BY <1>24 DEF KillAndWait, image, table, Shows, ShowsEnd
<1>25. CASE Execute /\ UNCHANGED debugger
  BY <1>25 DEF Execute, StopWith, Die, Retire, image, debugger, table, call, Signal,
               Shows, ShowsWork, ShowsRetire, ShowsStop, ShowsEnd
<1>26. CASE RunFree /\ UNCHANGED debugger
  BY <1>26 DEF RunFree, Die, Retire, image, debugger, table, call, Shows, ShowsRetire,
               ShowsEnd
<1>27. CASE (PostInt \/ Killed) /\ UNCHANGED debugger
  BY <1>27 DEF PostInt, Killed, Die, image, debugger, table, call, Shows, ShowsWork,
               ShowsEnd
<1>28. ASSUME NEW sig \in Signal, Deliver(sig), UNCHANGED debugger  PROVE Shows
  BY <1>28 DEF Deliver, StopWith, image, debugger, table, call, Signal, Shows,
               ShowsWork, ShowsStop
<1>29. CASE UNCHANGED vars
  BY <1>29 DEF vars, traceeVars, image, debugger, table, call
<1> HIDE DEF TypeOK, TraceeTypeOK, Control, Locals, Held, Cached, Live, Shown, Mode,
             Traced, Dtor, StepOver, Exit, Registers
<1>30. CASE ClientCall
  BY <1>1, <1>2, <1>3, <1>4, <1>5, <1>6, <1>7, <1>8, <1>30 DEF ClientCall
<1>31. CASE Proceed
  BY <1>9, <1>10, <1>11, <1>12, <1>13, <1>14, <1>15, <1>16, <1>17,
     <1>18, <1>19, <1>20, <1>21, <1>22, <1>23, <1>24, <1>31 DEF Proceed
<1>32. CASE Environment
  BY <1>25, <1>26, <1>27, <1>28, <1>32 DEF Environment
<1> QED
  BY <1>29, <1>30, <1>31, <1>32 DEF Next, Terminated

\* What is shown is a step of Program.
LEMMA ProgStep ==
    UserInv /\ UserInv' /\ [Next]_vars => [Prog!Next]_(Prog!vars)
<1> SUFFICES ASSUME UserInv, UserInv', [Next]_vars
             PROVE  Prog!Next \/ UNCHANGED <<Mode, ctl, state, outer, Shown>>
  BY DEF Prog!vars
<1>1. ShowsWork => Prog!Work
  BY DEF ShowsWork, Prog!Work
<1>2. ShowsResume => Prog!Resume
  BY DEF ShowsResume, Prog!Resume
<1>3. ShowsRetire => Prog!Retire
  BY DEF ShowsRetire, Prog!Retire
<1>4. ShowsStop => Prog!Stop
  BY DEF ShowsStop, Prog!Stop
<1>5. ShowsEdit => Prog!Edit
  BY DEF ShowsEdit, Prog!Edit
<1>6. ShowsTakeBack => Prog!TakeBack
  BY DEF ShowsTakeBack, Prog!TakeBack
<1>7. ShowsEnd => Prog!Gone
  BY DEF ShowsEnd, Prog!Gone
<1> QED
  BY <1>1, <1>2, <1>3, <1>4, <1>5, <1>6, <1>7, StepShows DEF Shows, Prog!Next

\* Seen by the user of the debugger, the program runs as it was written: with
\* breakpoints, step-overs, failed calls, signals and kills in any order its
\* registers change only by its own instructions, by the user's edits, and when
\* a step from a breakpoint is taken back (process.cpp, breakpoints.cpp).
THEOREM ProgramUnchanged == Spec => ProgramAsWritten
<1>1. Init => Prog!Init
  BY DEF Init, TraceeInit, BreakpointsInit, Prog!Init, Mode, Shown, Live
<1> QED
  BY <1>1, ProgStep, UserInvariance, PTL DEF Spec, ProgramAsWritten, Prog!Spec

\* The registers found at a breakpoint are the ones presented for it: the
\* rewind and the reload leave the image as it is, in failing too
\* (wait_on_signal, rearm_and_rewind).
THEOREM StepOversHidden == Spec => StepOverInvisible
<1>1. UserInv /\ [Next]_vars => [(ctl \in StepOver) => (cache' = cache)]_vars
  <2> SUFFICES ASSUME UserInv, Next, ctl \in StepOver  PROVE cache' = cache
    BY DEF vars
  <2>1. /\ cache \in Registers /\ cache.pc = loc
        /\ ctl = "reload" => cache = Live
        /\ ctl \notin {"idle", "gone"}
    BY DEF UserInv, IInv, TypeOK, Cached, StepOver
  <2>2. CASE ClientCall
    BY <2>1, <2>2 DEF ClientCall, Resume, WaitOnSignal, StepInstruction, AddBreakpoint,
       RemoveBreakpoint, RemoveBreakpointId, WriteRegister, Destroy
  <2>3. [cache EXCEPT !.pc = loc] = cache
    BY <2>1 DEF Registers
  <2>4. CASE InnerRearm
    BY <2>3, <2>4 DEF InnerRearm, RearmAndRewind, RearmFails
  <2>5. CASE ReloadRegisters
    BY <2>1, <2>5 DEF ReloadRegisters, Load, LoadFails
  <2>6. CASE Proceed /\ ~InnerRearm /\ ~ReloadRegisters
    BY <2>6 DEF Proceed, StepOver, WaitExit, WaitStop, LoadRegisters, InnerStep,
                InnerWait,
       StepLoad, StepRequest, StepRearm, RestoreSite, RestoreDone, SendStop, WaitForStop,
       Detach, KillAndWait
  <2>7. CASE Environment \/ Terminated
    BY <2>1, <2>7 DEF Environment, debugger, Terminated
  <2> QED
    BY <2>2, <2>4, <2>5, <2>6, <2>7 DEF Next
<1> QED
  BY <1>1, UserInvariance, PTL DEF Spec, StepOverInvisible
=============================================================================
