--------------------------- MODULE ProcessProofs ---------------------------
(***************************************************************************)
(* Proofs about module Process, for every program, every client and every  *)
(* set of breakpoint addresses.  The safety properties follow from one     *)
(* inductive invariant with four parts: the types, what the control state  *)
(* says about the process, the breakpoint table, and the memory under it.  *)
(***************************************************************************)
EXTENDS Process, TLAPS

Held == life \notin {"running", "stepping"}

\* Where the process can be for each point of the debugger's code.
Control ==
    /\ pid = 0 => life = "reaped"
    /\ event # "none" => life \in {"stopped", "dead", "free"}
    /\ event \in Exit => life = "dead"
    /\ state = "STOPPED" /\ ctl # "iwait" => Held
    /\ ctl \in {"load", "istep", "rearm", "reload", "sstep", "srearm"} => Held
    /\ life = "running" => /\ ctl \in {"idle", "wait", "sload"} \cup Dtor
                           /\ outer = NoAddr
    /\ life = "free" => ctl \in {"kill", "gone"} /\ sites = {}
    /\ ctl \in Dtor /\ pid = 0 => ctl = "gone"
    /\ ctl \in Dtor \ {"restore", "gone"} => sites = {}

\* The locals of the call name sites, and only while the call needs them.
Locals ==
    /\ ctl \in StepOver => loc \in sites
    /\ ctl \notin StepOver => loc = NoAddr
    /\ outer \in sites \cup {NoAddr}
    /\ ctl \in {"idle", "sload"} \cup Dtor => outer = NoAddr
    /\ ctl = "srearm" => outer # NoAddr

Table ==
    /\ sites \subseteq UserAddrs
    /\ TableConsistent

SiteOK(a) == Peek(a) = Armed \/ (a \in {loc, outer} /\ Peek(a) = Blank)

Clean == \A c \in Cell : c \notin sites /\ c - 1 \notin sites => mem[c] = "insn"

Memory ==
    Separated =>
        /\ \A a \in sites : orig[a] = Blank
        /\ Alive => \A a \in sites : SiteOK(a)
        /\ Alive /\ ctl = "reload" => Peek(loc) = Armed
        /\ Alive /\ InControl => Clean
        /\ life = "free" /\ state = "STOPPED" => Clean

IInv == TypeOK /\ Control /\ Locals /\ Table /\ Memory

-----------------------------------------------------------------------------
(* What an 8-byte poke does to the memory and a save to the registers.     *)

\* write_memory changes two consecutive words and no other.
LEMMA PokeFacts ==
    ASSUME mem \in [Cell -> Word], NEW a \in Code, NEW w \in Pair, Poke(a, w)
    PROVE  /\ mem' \in [Cell -> Word]
           /\ mem'[a] = w.lo
           /\ mem'[a + 1] = w.hi
           /\ \A c \in Cell : c # a /\ c # a + 1 => mem'[c] = mem[c]
<1>1. a \in Cell /\ a + 1 \in Cell /\ a # a + 1
  BY TraceeAssumption DEF Code, Cell
<1>2. w.lo \in Word /\ w.hi \in Word
  BY DEF Pair
<1>3. mem' = [mem EXCEPT ![a] = w.lo, ![a + 1] = w.hi]
  BY DEF Poke
<1> QED
  BY <1>1, <1>2, <1>3

\* The pairs the manager saves and pokes are pairs of words.
LEMMA PairFacts ==
    /\ Armed \in Pair /\ Blank \in Pair
    /\ TypeOK => \A a \in Code : Peek(a) \in Pair
<1>1. Armed \in Pair /\ Blank \in Pair
  BY DEF Armed, Blank, Pair, Word
<1>2. ASSUME TypeOK, NEW a \in Code  PROVE Peek(a) \in Pair
  <2>1. a \in Cell /\ a + 1 \in Cell
    BY TraceeAssumption DEF Code, Cell
  <2> QED
    BY <1>2, <2>1 DEF TypeOK, TraceeTypeOK, Peek, Pair
<1> QED
  BY <1>1, <1>2

-----------------------------------------------------------------------------
(* Type correctness.                                                       *)

\* Every step keeps the types; the rewinds need that the locals name sites.
LEMMA TypeStep == TypeOK /\ Locals /\ [Next]_vars => TypeOK'
<1> SUFFICES ASSUME TypeOK, Locals, [Next]_vars  PROVE TypeOK'
  OBVIOUS
<1> USE DEF TypeOK, TraceeTypeOK, BreakpointsTypeOK
<1>1. CASE Resume
  BY <1>1 DEF Resume, Cont, image, table, call, Stop
<1>2. CASE WaitOnSignal
  BY <1>2 DEF WaitOnSignal, traceeVars, image, table
<1>3. CASE StepInstruction
  BY <1>3 DEF StepInstruction, traceeVars, image, table
<1>4. ASSUME NEW a \in UserAddrs, AddBreakpoint(a)  PROVE TypeOK'
  <2>0. a \in Code
    BY UserAddrsAssumption
  <2>1. CASE UNCHANGED <<table, mem>>
    BY <1>4, <2>1 DEF AddBreakpoint, add_breakpoint, table, call
  <2>2. CASE ~UNCHANGED <<table, mem>>
    <3>1. Poke(a, Armed) /\ orig' = [orig EXCEPT ![a] = Peek(a)] /\ nextId <= MaxId
          /\ sites' = sites \cup {a} /\ ids' = [ids EXCEPT ![nextId] = a]
          /\ nextId' = nextId + 1 /\ result' = "ok"
      BY <1>4, <2>2 DEF AddBreakpoint, add_breakpoint
    <3>2. mem' \in [Cell -> Word]
      BY <2>0, <3>1, PairFacts, PokeFacts
    <3>3. orig' \in [Code -> Pair]
      BY <2>0, <3>1, PairFacts
    <3>4. ids' \in [Id -> Addr] /\ nextId' \in 1 .. MaxId + 1
      BY <2>0, <3>1, MaxIdAssumption DEF Id, Addr
    <3> QED
      BY <1>4, <2>0, <3>1, <3>2, <3>3, <3>4 DEF AddBreakpoint, call
  <2> QED
    BY <2>1, <2>2
<1>5. ASSUME NEW a \in Code, ctl = "idle", remove_breakpoint(a),
             UNCHANGED <<life, event, pending, pc, reg, store, pid, state,
                         terminate_on_end, cache, call>>
      PROVE  TypeOK'
  <2>1. mem' \in [Cell -> Word]
    BY <1>5, PokeFacts DEF remove_breakpoint
  <2>2. sites' \subseteq Code /\ orig' \in [Code -> Pair] /\ ids' \in [Id -> Addr]
        /\ nextId' = nextId /\ result' \in {"ok", "error"}
    BY <1>5, PairFacts DEF remove_breakpoint, table, Addr
  <2> QED
    BY <1>5, <2>1, <2>2 DEF call
<1>6. ASSUME NEW a \in UserAddrs, RemoveBreakpoint(a)  PROVE TypeOK'
  BY <1>5, <1>6, UserAddrsAssumption DEF RemoveBreakpoint
<1>7. ASSUME NEW i \in Id, RemoveBreakpointId(i)  PROVE TypeOK'
  <2>1. CASE ids[i] = NoAddr
    BY <1>7, <2>1 DEF RemoveBreakpointId, remove_breakpoint_id, remove_breakpoint, table, call
  <2>2. CASE ids[i] # NoAddr
    <3>1. ids[i] \in Code
      BY <1>7, <2>2 DEF Addr
    <3> QED
      BY <1>5, <1>7, <2>2, <3>1 DEF RemoveBreakpointId, remove_breakpoint_id
  <2> QED
    BY <2>1, <2>2
<1>8. ASSUME NEW new \in Edits, WriteRegister(new)  PROVE TypeOK'
  <2>1. new \in Registers
    BY <1>8 DEF Edits, Registers
  <2> QED
    BY <1>8, <2>1 DEF WriteRegister, Save, Registers, table, call
<1>9. CASE Destroy
  BY <1>9 DEF Destroy, traceeVars, image, table, Dtor
<1>10. CASE WaitExit
  BY <1>10 DEF WaitExit, Collect, Return, image, table, Addr
<1>11. CASE WaitStop
  BY <1>11 DEF WaitStop, Collect, image, table
<1>12. CASE LoadRegisters
  <2>1. mem' \in [Cell -> Word]
    BY <1>12, PokeFacts DEF LoadRegisters, Lift
  <2>2. cache' \in Registers
    BY <1>12 DEF LoadRegisters, Load, LoadFails, Live, Registers
  <2> QED
    BY <1>12, <2>1, <2>2 DEF LoadRegisters, Return, Throw, Addr, StepOver, table
<1>13. CASE InnerStep
  BY <1>13 DEF InnerStep, SingleStep, Throw, image, table, Addr, StepOver
<1>14. CASE InnerWait
  BY <1>14 DEF InnerWait, Collect, image, table, StepOver
<1>15. ASSUME NEW a \in Code, RearmAndRewind(a)
       PROVE  /\ mem' \in [Cell -> Word] /\ cache' \in Registers
              /\ pc' \in Code /\ reg' \in Val /\ store' = store
  BY <1>15, PokeFacts, PairFacts DEF RearmAndRewind, Rearm, Save, Registers
<1>16. ASSUME NEW a \in Code, RearmFails(a)
       PROVE  /\ cache' \in Registers /\ UNCHANGED image
              /\ ctl' = "idle" /\ loc' = NoAddr /\ outer' = NoAddr /\ result' = "error"
  BY <1>16 DEF RearmFails, Throw, Registers
<1>17. CASE InnerRearm
  <2>1. loc \in Code
    BY <1>17 DEF InnerRearm, Locals, StepOver
  <2> QED
    BY <1>15, <1>16, <1>17, <2>1 DEF InnerRearm, image, table, Addr, StepOver
<1>18. CASE ReloadRegisters
  BY <1>18 DEF ReloadRegisters, Load, LoadFails, Live, Registers, Return, Throw,
               traceeVars, image, table, Addr
<1>19. CASE StepLoad
  <2>1. mem' \in [Cell -> Word]
    BY <1>19, PokeFacts DEF StepLoad, Lift
  <2>2. cache' \in Registers
    BY <1>19 DEF StepLoad, Load, LoadFails, Live, Registers
  <2> QED
    BY <1>19, <2>1, <2>2 DEF StepLoad, Throw, Addr, table
<1>20. CASE StepRequest
  BY <1>20 DEF StepRequest, SingleStep, Throw, image, table, Addr
<1>21. CASE StepRearm
  <2>1. outer \in Code
    BY <1>21 DEF StepRearm, Locals
  <2> QED
    BY <1>15, <1>16, <1>21, <2>1 DEF StepRearm, image, table, Addr
<1>22. ASSUME NEW a \in sites, RestoreSite(a)  PROVE TypeOK'
  <2>1. mem' \in [Cell -> Word]
    BY <1>22, PokeFacts DEF RestoreSite, restore_sw_site
  <2>2. orig' \in [Code -> Pair]
    BY <1>22, PairFacts DEF RestoreSite, restore_sw_site
  <2> QED
    BY <1>22, <2>1, <2>2 DEF RestoreSite, restore_sw_site, call
<1>23. CASE RestoreDone
  BY <1>23 DEF RestoreDone, traceeVars, image, Addr, Dtor
<1>24. CASE SendStop
  BY <1>24 DEF SendStop, image, table, Dtor, Signal
<1>25. CASE WaitForStop
  BY <1>25 DEF WaitForStop, Collect, image, table, Dtor
<1>26. CASE Detach
  BY <1>26 DEF Detach, image, table, Dtor
<1>27. CASE KillAndWait
  BY <1>27 DEF KillAndWait, image, table, Dtor
<1>28. CASE Execute /\ UNCHANGED debugger
  BY <1>28, TraceeAssumption
     DEF Execute, StopWith, Die, Retire, image, debugger, table, call, Stop, Exit
<1>29. CASE RunFree /\ UNCHANGED debugger
  BY <1>29, TraceeAssumption
     DEF RunFree, Die, Retire, image, debugger, table, call, Exit
<1>30. CASE (PostInt \/ Killed) /\ UNCHANGED debugger
  BY <1>30 DEF PostInt, Killed, Die, image, debugger, table, call, Exit, Signal
<1>35. ASSUME NEW sig \in Signal, Deliver(sig), UNCHANGED debugger  PROVE TypeOK'
  BY <1>35 DEF Deliver, StopWith, image, debugger, table, call, Stop
<1>31. CASE UNCHANGED vars
  BY <1>31 DEF vars, traceeVars, image, debugger, table, call
<1> HIDE DEF TypeOK, TraceeTypeOK, BreakpointsTypeOK
<1>32. CASE ClientCall
  BY <1>1, <1>2, <1>3, <1>4, <1>6, <1>7, <1>8, <1>9, <1>32 DEF ClientCall
<1>33. CASE Proceed
  BY <1>10, <1>11, <1>12, <1>13, <1>14, <1>17, <1>18, <1>19, <1>20, <1>21, <1>22,
     <1>23, <1>24, <1>25, <1>26, <1>27, <1>33 DEF Proceed
<1>34. CASE Environment
  BY <1>28, <1>29, <1>30, <1>35, <1>34 DEF Environment
<1> QED
  BY <1>31, <1>32, <1>33, <1>34 DEF Next, Terminated

-----------------------------------------------------------------------------
(* Where the process is.                                                   *)

\* The process can only be where the debugger's code expects it: it runs when
\* it was resumed and is held or gone at every other point.
LEMMA ControlStep == TypeOK /\ Control /\ Locals /\ [Next]_vars => Control'
<1> SUFFICES ASSUME TypeOK, Control, Locals, [Next]_vars  PROVE Control'
  OBVIOUS
<1> USE DEF Control, Locals, Held, Traced, Dtor, StepOver, Exit
<1>1. CASE Resume
  BY <1>1 DEF Resume, Cont, image, table, call
<1>2. CASE WaitOnSignal
  BY <1>2 DEF WaitOnSignal, traceeVars, image, table
<1>3. CASE StepInstruction
  BY <1>3 DEF StepInstruction, traceeVars, image, table
<1>4. ASSUME NEW a \in UserAddrs, AddBreakpoint(a)  PROVE Control'
  BY <1>4 DEF AddBreakpoint, call
<1>5. ASSUME NEW a \in UserAddrs, RemoveBreakpoint(a)  PROVE Control'
  BY <1>5 DEF RemoveBreakpoint, call
<1>6. ASSUME NEW i \in Id, RemoveBreakpointId(i)  PROVE Control'
  BY <1>6 DEF RemoveBreakpointId, call
<1>7. ASSUME NEW new \in Edits, WriteRegister(new)  PROVE Control'
  BY <1>7 DEF WriteRegister, table, call
<1>8. CASE Destroy
  BY <1>8 DEF Destroy, traceeVars, image, table
<1>9. CASE WaitExit
  BY <1>9 DEF WaitExit, Collect, Return, image, table, Exit
<1>10. CASE WaitStop
  BY <1>10 DEF WaitStop, Collect, image, table, Stop, Exit, Signal
<1>11. CASE LoadRegisters
  BY <1>11 DEF LoadRegisters, Return, Throw, table
<1>12. CASE InnerStep
  BY <1>12 DEF InnerStep, SingleStep, Throw, image, table
<1>13. CASE InnerWait
  BY <1>13 DEF InnerWait, Collect, image, table
<1>14. CASE InnerRearm
  BY <1>14 DEF InnerRearm, RearmAndRewind, RearmFails, Throw, table
<1>15. CASE ReloadRegisters
  BY <1>15 DEF ReloadRegisters, Return, Throw, traceeVars, image, table
<1>16. CASE StepLoad
  BY <1>16 DEF StepLoad, Throw, table
<1>17. CASE StepRequest
  BY <1>17 DEF StepRequest, SingleStep, Throw, image, table
<1>18. CASE StepRearm
  BY <1>18 DEF StepRearm, RearmAndRewind, RearmFails, Throw, table
<1>19. ASSUME NEW a \in sites, RestoreSite(a)  PROVE Control'
  BY <1>19 DEF RestoreSite, restore_sw_site, call
<1>20. CASE RestoreDone
  BY <1>20 DEF RestoreDone, traceeVars, image
<1>21. CASE SendStop
  BY <1>21 DEF SendStop, image, table
<1>22. CASE WaitForStop
  BY <1>22 DEF WaitForStop, Collect, image, table
<1>23. CASE Detach
  BY <1>23 DEF Detach, image, table
<1>24. CASE KillAndWait
  BY <1>24 DEF KillAndWait, image, table
<1>25. CASE Execute /\ UNCHANGED debugger
  BY <1>25 DEF Execute, StopWith, Die, Retire, image, debugger, table, call, Stop, Exit, Signal
<1>26. CASE RunFree /\ UNCHANGED debugger
  BY <1>26 DEF RunFree, Die, Retire, image, debugger, table, call, Exit
<1>27. CASE (PostInt \/ Killed) /\ UNCHANGED debugger
  BY <1>27 DEF PostInt, Killed, Die, image, debugger, table, call, Exit
<1>28. ASSUME NEW sig \in Signal, Deliver(sig), UNCHANGED debugger  PROVE Control'
  BY <1>28 DEF Deliver, StopWith, image, debugger, table, call, Exit, Signal
<1>29. CASE UNCHANGED vars
  BY <1>29 DEF vars, traceeVars, image, debugger, table, call
<1> HIDE DEF Control, Locals, Held, Traced, Dtor, StepOver, Exit
<1>30. CASE ClientCall
  BY <1>1, <1>2, <1>3, <1>4, <1>5, <1>6, <1>7, <1>8, <1>30 DEF ClientCall
<1>31. CASE Proceed
  BY <1>9, <1>10, <1>11, <1>12, <1>13, <1>14, <1>15, <1>16, <1>17, <1>18,
     <1>19, <1>20, <1>21, <1>22, <1>23, <1>24, <1>31 DEF Proceed
<1>32. CASE Environment
  BY <1>25, <1>26, <1>27, <1>28, <1>32 DEF Environment
<1> QED
  BY <1>29, <1>30, <1>31, <1>32 DEF Next, Terminated

-----------------------------------------------------------------------------
(* The locals of the call under way.                                      *)

\* wait_on_signal and step_instruction hold a breakpoint location exactly as
\* long as they owe it a rearm.
LEMMA LocalsStep ==
    TypeOK /\ Control /\ Locals /\ [Next]_vars => Locals'
<1> SUFFICES ASSUME TypeOK, Control, Locals, [Next]_vars  PROVE Locals'
  OBVIOUS
<1> USE DEF Locals, Dtor, StepOver
<1>1. CASE Resume
  BY <1>1 DEF Resume, Cont, image, table, call
<1>2. CASE WaitOnSignal
  BY <1>2 DEF WaitOnSignal, traceeVars, image, table
<1>3. CASE StepInstruction
  BY <1>3 DEF StepInstruction, traceeVars, image, table
<1>4. ASSUME NEW a \in UserAddrs, AddBreakpoint(a)  PROVE Locals'
  BY <1>4 DEF AddBreakpoint, call, add_breakpoint, table
<1>5. ASSUME NEW a \in UserAddrs, RemoveBreakpoint(a)  PROVE Locals'
  BY <1>5 DEF RemoveBreakpoint, call, remove_breakpoint, table
<1>6. ASSUME NEW i \in Id, RemoveBreakpointId(i)  PROVE Locals'
  BY <1>6 DEF RemoveBreakpointId, call, remove_breakpoint_id, remove_breakpoint, table
<1>7. ASSUME NEW new \in Edits, WriteRegister(new)  PROVE Locals'
  BY <1>7 DEF WriteRegister, table, call
<1>8. CASE Destroy
  BY <1>8 DEF Destroy, traceeVars, image, table
<1>9. CASE WaitExit
  BY <1>9 DEF WaitExit, Collect, Return, image, table, Exit
<1>10. CASE WaitStop
  BY <1>10 DEF WaitStop, Collect, image, table, Stop, Exit, Signal
<1>11. CASE LoadRegisters
  BY <1>11 DEF LoadRegisters, Return, Throw, table, Lift
<1>12. CASE InnerStep
  BY <1>12 DEF InnerStep, SingleStep, Throw, image, table
<1>13. CASE InnerWait
  BY <1>13 DEF InnerWait, Collect, image, table
<1>14. CASE InnerRearm
  BY <1>14 DEF InnerRearm, RearmAndRewind, RearmFails, Throw, table
<1>15. CASE ReloadRegisters
  BY <1>15 DEF ReloadRegisters, Return, Throw, traceeVars, image, table
<1>16. CASE StepLoad
  BY <1>16 DEF StepLoad, Throw, table
<1>17. CASE StepRequest
  BY <1>17 DEF StepRequest, SingleStep, Throw, image, table
<1>18. CASE StepRearm
  BY <1>18 DEF StepRearm, RearmAndRewind, RearmFails, Throw, table
<1>19. ASSUME NEW a \in sites, RestoreSite(a)  PROVE Locals'
  BY <1>19 DEF RestoreSite, restore_sw_site, call
<1>20. CASE RestoreDone
  BY <1>20 DEF RestoreDone, traceeVars, image
<1>21. CASE SendStop
  BY <1>21 DEF SendStop, image, table
<1>22. CASE WaitForStop
  BY <1>22 DEF WaitForStop, Collect, image, table
<1>23. CASE Detach
  BY <1>23 DEF Detach, image, table
<1>24. CASE KillAndWait
  BY <1>24 DEF KillAndWait, image, table
<1>25. CASE Execute /\ UNCHANGED debugger
  BY <1>25 DEF Execute, StopWith, Die, Retire, image, debugger, table, call, Stop, Exit, Signal, Retire
<1>26. CASE RunFree /\ UNCHANGED debugger
  BY <1>26 DEF RunFree, Die, Retire, image, debugger, table, call, Exit
<1>27. CASE (PostInt \/ Killed) /\ UNCHANGED debugger
  BY <1>27 DEF PostInt, Killed, Die, image, debugger, table, call, Exit
<1>28. ASSUME NEW sig \in Signal, Deliver(sig), UNCHANGED debugger  PROVE Locals'
  BY <1>28 DEF Deliver, StopWith, image, debugger, table, call, Exit, Signal
<1>29. CASE UNCHANGED vars
  BY <1>29 DEF vars, traceeVars, image, debugger, table, call
<1> HIDE DEF Locals, Dtor, StepOver
<1>30. CASE ClientCall
  BY <1>1, <1>2, <1>3, <1>4, <1>5, <1>6, <1>7, <1>8, <1>30 DEF ClientCall
<1>31. CASE Proceed
  BY <1>9, <1>10, <1>11, <1>12, <1>13, <1>14, <1>15, <1>16, <1>17,
     <1>18, <1>19, <1>20, <1>21, <1>22, <1>23, <1>24, <1>31 DEF Proceed
<1>32. CASE Environment
  BY <1>25, <1>26, <1>27, <1>28, <1>32 DEF Environment
<1> QED
  BY <1>29, <1>30, <1>31, <1>32 DEF Next, Terminated

-----------------------------------------------------------------------------
(* The breakpoint table.                                                   *)

\* No operation of the manager lets its two maps drift apart.
LEMMA TableStep ==
    TypeOK /\ Locals /\ Table /\ [Next]_vars => Table'
<1> SUFFICES ASSUME TypeOK, Locals, Table, [Next]_vars  PROVE Table'
  OBVIOUS
<1> USE DEF Table, TableConsistent
<1>0. ASSUME NEW a, remove_breakpoint(a), ctl = "idle", ctl' = ctl, a # NoAddr
      PROVE  Table'
  <2>1. CASE UNCHANGED table
    BY <1>0, <2>1 DEF table
  <2>2. CASE ~UNCHANGED table
    <3>1. /\ sites' = sites \ {a} /\ nextId' = nextId
          /\ ids' = [i \in Id |-> IF ids[i] = a THEN NoAddr ELSE ids[i]]
      BY <1>0, <2>2 DEF remove_breakpoint
    <3>2. \A i \in Id : ids'[i] = IF ids[i] = a THEN NoAddr ELSE ids[i]
      BY <3>1
    <3>3. sites' = {ids'[i] : i \in Id} \ {NoAddr}
      BY <1>0, <3>1, <3>2
    <3> QED
      BY <1>0, <3>1, <3>2, <3>3
  <2> QED
    BY <2>1, <2>2
<1>1. CASE Resume
  BY <1>1 DEF Resume, Cont, image, table, call
<1>2. CASE WaitOnSignal
  BY <1>2 DEF WaitOnSignal, traceeVars, image, table
<1>3. CASE StepInstruction
  BY <1>3 DEF StepInstruction, traceeVars, image, table
<1>4. ASSUME NEW a \in UserAddrs, AddBreakpoint(a)  PROVE Table'
  <2>1. CASE UNCHANGED table
    BY <1>4, <2>1 DEF AddBreakpoint, call, table
  <2>2. CASE ~UNCHANGED table
    <3>1. /\ ~Known(a) /\ nextId <= MaxId
          /\ sites' = sites \cup {a} /\ ids' = [ids EXCEPT ![nextId] = a]
          /\ nextId' = nextId + 1
      BY <1>4, <2>2 DEF AddBreakpoint, add_breakpoint
    <3>2. nextId \in Id /\ nextId \in Int /\ a # NoAddr /\ ids \in [Id -> Addr]
          /\ ctl = "idle" /\ ctl' = "idle" /\ \A i \in Id : i \in Int
      BY <1>4, <3>1, UserAddrsAssumption, MaxIdAssumption
         DEF TypeOK, BreakpointsTypeOK, Id, AddBreakpoint, call, Code, NoAddr
    <3>3. ids[nextId] = NoAddr
      BY <3>2
    <3>4. \A i \in Id : ids'[i] = IF i = nextId THEN a ELSE ids[i]
      BY <3>1, <3>2
    <3>5. \A i \in Id : ids[i] # a
      BY <3>1 DEF Known
    <3>6. sites' = {ids'[i] : i \in Id} \ {NoAddr}
      BY <3>1, <3>2, <3>3, <3>4
    <3>7. \A i, j \in Id : ids'[i] = ids'[j] /\ ids'[i] # NoAddr => i = j
      BY <3>2, <3>4, <3>5
    <3>8. \A i \in Id : ids'[i] # NoAddr => i < nextId'
      BY <3>1, <3>2, <3>4
    <3> QED
      BY <3>1, <3>6, <3>7, <3>8
  <2> QED
    BY <2>1, <2>2
<1>5. ASSUME NEW a \in UserAddrs, RemoveBreakpoint(a)  PROVE Table'
  <2>1. a # NoAddr
    BY UserAddrsAssumption DEF Code, NoAddr
  <2> QED
    BY <1>0, <1>5, <2>1 DEF RemoveBreakpoint, call
<1>6. ASSUME NEW i \in Id, RemoveBreakpointId(i)  PROVE Table'
  BY <1>0, <1>6 DEF RemoveBreakpointId, remove_breakpoint_id, call, table
<1>7. ASSUME NEW new \in Edits, WriteRegister(new)  PROVE Table'
  BY <1>7 DEF WriteRegister, table, call
<1>8. CASE Destroy
  BY <1>8 DEF Destroy, traceeVars, image, table, Dtor
<1>9. CASE WaitExit
  BY <1>9 DEF WaitExit, Collect, Return, image, table, Exit
<1>10. CASE WaitStop
  BY <1>10 DEF WaitStop, Collect, image, table, Stop, Exit, Signal
<1>11. CASE LoadRegisters
  BY <1>11 DEF LoadRegisters, Return, Throw, table, Lift
<1>12. CASE InnerStep
  BY <1>12 DEF InnerStep, SingleStep, Throw, image, table
<1>13. CASE InnerWait
  BY <1>13 DEF InnerWait, Collect, image, table
<1>14. CASE InnerRearm
  BY <1>14 DEF InnerRearm, RearmAndRewind, RearmFails, Throw, table
<1>15. CASE ReloadRegisters
  BY <1>15 DEF ReloadRegisters, Return, Throw, traceeVars, image, table
<1>16. CASE StepLoad
  BY <1>16 DEF StepLoad, Throw, table
<1>17. CASE StepRequest
  BY <1>17 DEF StepRequest, SingleStep, Throw, image, table
<1>18. CASE StepRearm
  BY <1>18 DEF StepRearm, RearmAndRewind, RearmFails, Throw, table
<1>19. ASSUME NEW a \in sites, RestoreSite(a)  PROVE Table'
  BY <1>19 DEF RestoreSite, restore_sw_site, call
<1>20. CASE RestoreDone
  <2>1. sites' = {} /\ \A j \in Id : ids'[j] = NoAddr
    BY <1>20 DEF RestoreDone
  <2> QED
    BY <2>1
<1>21. CASE SendStop
  BY <1>21 DEF SendStop, image, table
<1>22. CASE WaitForStop
  BY <1>22 DEF WaitForStop, Collect, image, table
<1>23. CASE Detach
  BY <1>23 DEF Detach, image, table
<1>24. CASE KillAndWait
  BY <1>24 DEF KillAndWait, image, table
<1>25. CASE Execute /\ UNCHANGED debugger
  BY <1>25 DEF Execute, StopWith, Die, Retire, image, debugger, table, call, Stop, Exit, Signal
<1>26. CASE RunFree /\ UNCHANGED debugger
  BY <1>26 DEF RunFree, Die, Retire, image, debugger, table, call, Exit
<1>27. CASE (PostInt \/ Killed) /\ UNCHANGED debugger
  BY <1>27 DEF PostInt, Killed, Die, image, debugger, table, call, Exit
<1>28. ASSUME NEW sig \in Signal, Deliver(sig), UNCHANGED debugger  PROVE Table'
  BY <1>28 DEF Deliver, StopWith, image, debugger, table, call, Exit, Signal
<1>29. CASE UNCHANGED vars
  BY <1>29 DEF vars, traceeVars, image, debugger, table, call
<1> HIDE DEF Table, TableConsistent
<1>30. CASE ClientCall
  BY <1>1, <1>2, <1>3, <1>4, <1>5, <1>6, <1>7, <1>8, <1>30 DEF ClientCall
<1>31. CASE Proceed
  BY <1>9, <1>10, <1>11, <1>12, <1>13, <1>14, <1>15, <1>16, <1>17,
     <1>18, <1>19, <1>20, <1>21, <1>22, <1>23, <1>24, <1>31 DEF Proceed
<1>32. CASE Environment
  BY <1>25, <1>26, <1>27, <1>28, <1>32 DEF Environment
<1> QED
  BY <1>29, <1>30, <1>31, <1>32 DEF Next, Terminated

-----------------------------------------------------------------------------
(* The memory under the table.                                             *)

\* A poke at one client address leaves every other one's two words alone.
LEMMA PokeOthers ==
    ASSUME TypeOK, Separated, NEW a \in UserAddrs, NEW w \in Pair, Poke(a, w)
    PROVE  /\ mem'[a] = w.lo /\ mem'[a + 1] = w.hi
           /\ \A b \in UserAddrs : b # a => mem'[b] = mem[b] /\ mem'[b + 1] = mem[b + 1]
           /\ \A c \in Cell : c # a /\ c - 1 # a => mem'[c] = mem[c]
<1>1. a \in Code /\ mem \in [Cell -> Word]
  BY UserAddrsAssumption DEF TypeOK, TraceeTypeOK
<1>2. /\ mem'[a] = w.lo /\ mem'[a + 1] = w.hi
      /\ \A c \in Cell : c # a /\ c # a + 1 => mem'[c] = mem[c]
  BY <1>1, PokeFacts
<1>3. ASSUME NEW b \in UserAddrs, b # a
      PROVE  mem'[b] = mem[b] /\ mem'[b + 1] = mem[b + 1]
  <2>1. b \in Int /\ a \in Int /\ b \in Cell /\ b + 1 \in Cell /\ b # a + 1 /\ a # b + 1
    <3>1. a \in Code /\ b \in Code
      BY UserAddrsAssumption
    <3>2. b # a + 1 /\ a # b + 1
      BY DEF Separated
    <3> QED
      BY <3>1, <3>2, TraceeAssumption DEF Code, Cell
  <2> QED
    BY <1>2, <1>3, <2>1
<1>4. ASSUME NEW c \in Cell, c # a, c - 1 # a  PROVE mem'[c] = mem[c]
  <2>1. c # a + 1
    BY <1>1, <1>4, TraceeAssumption DEF Cell, Code
  <2> QED
    BY <1>2, <1>4, <2>1
<1> QED
  BY <1>2, <1>3, <1>4

\* A pair that read_memory returns is one of the two the manager knows exactly
\* if its words are.
LEMMA PairWords ==
    /\ Armed.lo = "brk" /\ Armed.hi = "udf" /\ Blank.lo = "insn" /\ Blank.hi = "insn"
    /\ \A a \in Code : /\ Peek(a) = Armed <=> mem[a] = "brk" /\ mem[a + 1] = "udf"
                       /\ Peek(a) = Blank <=> mem[a] = "insn" /\ mem[a + 1] = "insn"
BY DEF Armed, Blank, Peek

\* Memory, in terms of single words.
Words ==
    Separated =>
        /\ \A a \in sites : orig[a] = Blank
        /\ Alive => \A a \in sites :
              \/ mem[a] = "brk" /\ mem[a + 1] = "udf"
              \/ a \in {loc, outer} /\ mem[a] = "insn" /\ mem[a + 1] = "insn"
        /\ Alive /\ ctl = "reload" => mem[loc] = "brk" /\ mem[loc + 1] = "udf"
        /\ Alive /\ InControl => Clean
        /\ life = "free" /\ state = "STOPPED" => Clean

\* Pairs and words say the same of memory; the steps are proved on words.
LEMMA MemoryIsWords == TypeOK /\ Locals => (Memory <=> Words)
<1> SUFFICES ASSUME TypeOK, Locals  PROVE Memory <=> Words
  OBVIOUS
<1>1. \A a \in sites : /\ Peek(a) = Armed <=> mem[a] = "brk" /\ mem[a + 1] = "udf"
                       /\ Peek(a) = Blank <=> mem[a] = "insn" /\ mem[a + 1] = "insn"
  BY PairWords DEF TypeOK, BreakpointsTypeOK
<1>2. ctl = "reload" => loc \in sites
  BY DEF Locals, StepOver
<1> QED
  BY <1>1, <1>2 DEF Memory, Words, SiteOK

\* No step breaks the agreement of memory and table: a poke changes the two
\* words of one site, and the traced process changes none.
LEMMA WordsStep ==
    TypeOK /\ Control /\ Locals /\ Table /\ Words /\ [Next]_vars => Words'
<1> SUFFICES ASSUME TypeOK, Control, Locals, Table, Words, [Next]_vars  PROVE Words'
  OBVIOUS
<1> USE DEF Words, Clean, Alive, InControl, Traced
<1>0. /\ sites \subseteq UserAddrs /\ sites \subseteq Code
      /\ \A a \in sites : orig[a] = Blank => orig[a] \in Pair
      /\ Armed \in Pair /\ Blank \in Pair
  BY PairFacts DEF TypeOK, BreakpointsTypeOK, Table

<1>50. ASSUME NEW a \in UserAddrs, remove_breakpoint(a), ctl = "idle",
              UNCHANGED <<life, ctl, loc, outer, state, pid>>
       PROVE  Words'
  <2> SUFFICES ASSUME Separated  PROVE Words'
    OBVIOUS
  <2>1. CASE UNCHANGED <<table, mem>>
    BY <1>50, <2>1 DEF table
  <2>2. CASE ~UNCHANGED <<table, mem>>
    <3>1. /\ sites' = sites \ {a} /\ orig' = [orig EXCEPT ![a] = Blank]
          /\ a \in sites /\ pid # 0 => life = "stopped" /\ Poke(a, orig[a])
          /\ ~(a \in sites /\ pid # 0) => mem' = mem
      BY <1>50, <2>2 DEF remove_breakpoint
    <3>2. \A b \in sites' : orig'[b] = Blank
      BY <1>0, <3>1 DEF TypeOK, BreakpointsTypeOK
    <3>3. CASE a \in sites /\ pid # 0
      <4>1. Poke(a, Blank)
        BY <3>1, <3>3
      <4>2. /\ mem'[a] = "insn" /\ mem'[a + 1] = "insn"
            /\ \A b \in UserAddrs : b # a => mem'[b] = mem[b] /\ mem'[b + 1] = mem[b + 1]
            /\ \A c \in Cell : c # a /\ c - 1 # a => mem'[c] = mem[c]
        BY <1>0, <4>1, PokeOthers, PairWords
      <4>3. Clean'
        <5> SUFFICES ASSUME NEW c \in Cell, c \notin sites', c - 1 \notin sites'
                     PROVE  mem'[c] = "insn"
          OBVIOUS
        <5>1. CASE c = a
          BY <4>2, <5>1
        <5>2. CASE c - 1 = a
          <6>1. c = a + 1
            BY <5>2, TraceeAssumption DEF Cell
          <6> QED
            BY <4>2, <6>1
        <5>3. CASE c # a /\ c - 1 # a
          <6>1. mem[c] = "insn"
            BY <1>50, <3>1, <3>3, <5>3 DEF Dtor
          <6> QED
            BY <4>2, <5>3, <6>1
        <5> QED
          BY <5>1, <5>2, <5>3
      <4> QED
        BY <1>0, <1>50, <3>1, <3>2, <3>3, <4>2, <4>3
    <3>4. CASE a \in sites /\ pid = 0
      BY <1>50, <3>1, <3>2, <3>4 DEF Control
    <3>5. CASE a \notin sites
      <4>1. sites' = sites /\ mem' = mem
        BY <3>1, <3>5
      <4> QED
        BY <1>50, <3>2, <4>1
    <3> QED
      BY <3>3, <3>4, <3>5
  <2> QED
    BY <2>1, <2>2
<1>1. CASE Resume
  BY <1>1 DEF Resume, Cont, image, table, call, Control, Locals, Held, Dtor, StepOver
<1>2. CASE WaitOnSignal
  BY <1>2 DEF WaitOnSignal, traceeVars, image, table, Control, Locals, Held, Dtor, StepOver
<1>3. CASE StepInstruction
  BY <1>3 DEF StepInstruction, traceeVars, image, table, Control, Locals, Held, Dtor, StepOver
<1>4. ASSUME NEW a \in UserAddrs, AddBreakpoint(a)  PROVE Words'
  <2>1. CASE UNCHANGED <<table, mem>>
    BY <1>4, <2>1 DEF AddBreakpoint, call, table
  <2>2. CASE ~UNCHANGED <<table, mem>>
    <3> SUFFICES ASSUME Separated  PROVE Words'
      OBVIOUS
    <3>1. /\ pid # 0 /\ ~Known(a) /\ life = "stopped" /\ ctl = "idle"
          /\ orig' = [orig EXCEPT ![a] = Peek(a)] /\ Poke(a, Armed)
          /\ sites' = sites \cup {a}
          /\ UNCHANGED <<life, ctl, loc, outer, state>>
      BY <1>4, <2>2 DEF AddBreakpoint, add_breakpoint, call
    <3>2. a \in Code /\ a \in Cell /\ a + 1 \in Cell
      BY UserAddrsAssumption, TraceeAssumption DEF Code, Cell
    <3>3. a \notin sites /\ a - 1 \notin sites /\ a + 1 \notin sites
      <4>1. a \notin sites
        BY <3>1 DEF Known, Table, TableConsistent
      <4>2. a + 1 \notin sites
        BY <1>0 DEF Separated
      <4>3. a - 1 \notin sites
        <5>1. ASSUME a - 1 \in sites  PROVE FALSE
          <6>1. a # (a - 1) + 1
            BY <1>0, <5>1 DEF Separated
          <6> QED
            BY <3>2, <6>1, TraceeAssumption DEF Code
        <5> QED
          BY <5>1
      <4> QED
        BY <4>1, <4>2, <4>3
    <3>10. Clean
      BY <3>1 DEF Dtor
    <3>4. mem[a] = "insn" /\ mem[a + 1] = "insn"
      <4>2. (a + 1) - 1 = a
        BY <3>2, TraceeAssumption DEF Code
      <4> QED
        BY <3>2, <3>3, <3>10, <4>2
    <3>5. \A b \in sites' : orig'[b] = Blank
      <4>1. Peek(a) = Blank
        BY <3>2, <3>4, PairWords
      <4> QED
        BY <1>0, <3>1, <3>2, <4>1 DEF TypeOK, BreakpointsTypeOK
    <3>6. /\ mem'[a] = "brk" /\ mem'[a + 1] = "udf"
          /\ \A b \in UserAddrs : b # a => mem'[b] = mem[b] /\ mem'[b + 1] = mem[b + 1]
          /\ \A c \in Cell : c # a /\ c - 1 # a => mem'[c] = mem[c]
      BY <1>0, <3>1, PokeOthers, PairWords
    <3>7. \A b \in sites : mem[b] = "brk" /\ mem[b + 1] = "udf"
      BY <3>1, <1>0 DEF Locals, NoAddr, Code, Dtor, StepOver
    <3>8. \A b \in sites' : mem'[b] = "brk" /\ mem'[b + 1] = "udf"
      BY <1>0, <3>1, <3>6, <3>7
    <3>9. Clean'
      BY <3>1, <3>6, <3>10
    <3> QED
      BY <3>1, <3>5, <3>8, <3>9
  <2> QED
    BY <2>1, <2>2
<1>5. ASSUME NEW a \in UserAddrs, RemoveBreakpoint(a)  PROVE Words'
  BY <1>50, <1>5 DEF RemoveBreakpoint, call
<1>6. ASSUME NEW i \in Id, RemoveBreakpointId(i)  PROVE Words'
  <2>1. CASE ids[i] = NoAddr
    BY <1>6, <2>1 DEF RemoveBreakpointId, remove_breakpoint_id, remove_breakpoint, call, table, Locals
  <2>2. CASE ids[i] # NoAddr
    <3>1. ids[i] \in UserAddrs
      BY <1>6, <1>0, <2>2 DEF RemoveBreakpointId, Table, TableConsistent
    <3> QED
      BY <1>50, <1>6, <2>2, <3>1 DEF RemoveBreakpointId, remove_breakpoint_id, call
  <2> QED
    BY <2>1, <2>2
<1>7. ASSUME NEW new \in Edits, WriteRegister(new)  PROVE Words'
  BY <1>7 DEF WriteRegister, table, call, Control, Locals, Held, Dtor, StepOver
<1>8. CASE Destroy
  BY <1>8 DEF Destroy, traceeVars, image, table, Control, Locals, Held, Dtor, StepOver
<1>9. CASE WaitExit
  BY <1>9 DEF WaitExit, Collect, Return, image, table, Exit, Control, Locals, Held, Dtor, StepOver
<1>10. CASE WaitStop
  BY <1>10 DEF WaitStop, Collect, image, table, Stop, Exit, Signal, Control, Locals, Held, Dtor, StepOver
<1>11. CASE LoadRegisters
  <2>1. CASE ~Traced
    BY <1>11, <2>1 DEF LoadRegisters, Control, Held, Throw, Dtor, table
  <2>2. CASE Traced /\ pc \notin sites
    BY <1>11, <2>2 DEF LoadRegisters, Return, Locals, StepOver, table, Control, Dtor
  <2>3. CASE Traced /\ pc \in sites
    <3> SUFFICES ASSUME Separated  PROVE Words'
      OBVIOUS
    <3>1. /\ Poke(pc, orig[pc]) /\ loc' = pc /\ ctl' = "istep" /\ ctl = "load" /\ loc = NoAddr
          /\ UNCHANGED <<sites, orig, life, state, outer>>
      BY <1>11, <2>3 DEF LoadRegisters, Lift, table, Locals, StepOver
    <3>2. Poke(pc, Blank)
      BY <2>3, <3>1
    <3>3. /\ mem'[pc] = "insn" /\ mem'[pc + 1] = "insn"
          /\ \A b \in UserAddrs : b # pc => mem'[b] = mem[b] /\ mem'[b + 1] = mem[b + 1]
          /\ \A c \in Cell : c # pc /\ c - 1 # pc => mem'[c] = mem[c]
      BY <1>0, <2>3, <3>2, PokeOthers, PairWords
    <3>4. NoAddr \notin sites
      BY <1>0 DEF NoAddr, Code
    <3>5. Clean /\ Clean'
      BY <2>3, <3>1, <3>3 DEF Dtor
    <3>6. \A b \in sites' : \/ mem'[b] = "brk" /\ mem'[b + 1] = "udf"
                            \/ b \in {loc', outer'} /\ mem'[b] = "insn" /\ mem'[b + 1] = "insn"
      BY <1>0, <2>3, <3>1, <3>3, <3>4
    <3> QED
      BY <2>3, <3>1, <3>5, <3>6 DEF Dtor
  <2> QED
    BY <2>1, <2>2, <2>3
<1>12. CASE InnerStep
  BY <1>12 DEF InnerStep, SingleStep, Throw, image, table, Control, Locals, Held, Dtor, StepOver
<1>13. CASE InnerWait
  BY <1>13 DEF InnerWait, Collect, image, table, Control, Locals, Held, Dtor, StepOver
<1>14. CASE InnerRearm
  <2>1. CASE ~Traced
    BY <1>14, <2>1 DEF InnerRearm, RearmFails, Throw, Control, Held, Dtor, table
  <2>2. CASE Traced
    <3> SUFFICES ASSUME Separated  PROVE Words'
      OBVIOUS
    <3>1. /\ Poke(loc, Armed) /\ ctl' = "reload" /\ ctl = "rearm" /\ loc \in sites
          /\ UNCHANGED <<sites, orig, life, state, loc, outer>>
      BY <1>14, <2>2 DEF InnerRearm, RearmAndRewind, Rearm, table, Locals, StepOver
    <3>2. /\ mem'[loc] = "brk" /\ mem'[loc + 1] = "udf"
          /\ \A b \in UserAddrs : b # loc => mem'[b] = mem[b] /\ mem'[b + 1] = mem[b + 1]
          /\ \A c \in Cell : c # loc /\ c - 1 # loc => mem'[c] = mem[c]
      BY <1>0, <3>1, PokeOthers, PairWords
    <3>3. Clean /\ Clean'
      BY <2>2, <3>1, <3>2 DEF Dtor
    <3>4. \A b \in sites' : \/ mem'[b] = "brk" /\ mem'[b + 1] = "udf"
                            \/ b \in {loc', outer'} /\ mem'[b] = "insn" /\ mem'[b + 1] = "insn"
      BY <1>0, <2>2, <3>1, <3>2
    <3> QED
      BY <2>2, <3>1, <3>2, <3>3, <3>4 DEF Dtor
  <2> QED
    BY <2>1, <2>2
<1>15. CASE ReloadRegisters
  BY <1>15 DEF ReloadRegisters, Return, Throw, traceeVars, image, table, Control, Locals, Held, Dtor, StepOver
<1>16. CASE StepLoad
  <2>1. CASE ~Traced
    BY <1>16, <2>1 DEF StepLoad, Throw, Locals, StepOver, table, Control, Dtor
  <2>2. CASE Traced /\ pc \notin sites
    BY <1>16, <2>2 DEF StepLoad, table, Locals, StepOver, Control, Dtor
  <2>3. CASE Traced /\ pc \in sites
    <3> SUFFICES ASSUME Separated  PROVE Words'
      OBVIOUS
    <3>1. /\ Poke(pc, orig[pc]) /\ outer' = pc /\ ctl' = "sstep" /\ ctl = "sload"
          /\ loc = NoAddr /\ outer = NoAddr
          /\ UNCHANGED <<sites, orig, life, state, loc>>
      BY <1>16, <2>3 DEF StepLoad, Lift, table, Locals, StepOver
    <3>2. Poke(pc, Blank)
      BY <2>3, <3>1
    <3>3. /\ mem'[pc] = "insn" /\ mem'[pc + 1] = "insn"
          /\ \A b \in UserAddrs : b # pc => mem'[b] = mem[b] /\ mem'[b + 1] = mem[b + 1]
          /\ \A c \in Cell : c # pc /\ c - 1 # pc => mem'[c] = mem[c]
      BY <1>0, <2>3, <3>2, PokeOthers, PairWords
    <3>4. NoAddr \notin sites
      BY <1>0 DEF NoAddr, Code
    <3>5. Clean /\ Clean'
      BY <2>3, <3>1, <3>3 DEF Dtor
    <3>6. \A b \in sites' : \/ mem'[b] = "brk" /\ mem'[b + 1] = "udf"
                            \/ b \in {loc', outer'} /\ mem'[b] = "insn" /\ mem'[b + 1] = "insn"
      BY <1>0, <2>3, <3>1, <3>3, <3>4
    <3> QED
      BY <2>3, <3>1, <3>5, <3>6 DEF Dtor
  <2> QED
    BY <2>1, <2>2, <2>3
<1>17. CASE StepRequest
  BY <1>17 DEF StepRequest, SingleStep, Throw, image, table, Control, Locals, Held, Dtor, StepOver
<1>18. CASE StepRearm
  <2>1. CASE pid = 0 \/ ~Traced
    BY <1>18, <2>1 DEF StepRearm, RearmFails, Throw, Control, Held, Dtor, table
  <2>2. CASE pid # 0 /\ Traced
    <3> SUFFICES ASSUME Separated  PROVE Words'
      OBVIOUS
    <3>1. /\ Poke(outer, Armed) /\ ctl' = "idle" /\ ctl = "srearm" /\ outer \in sites
          /\ loc = NoAddr /\ outer' = NoAddr
          /\ UNCHANGED <<sites, orig, life, state, loc>>
      BY <1>18, <2>2 DEF StepRearm, RearmAndRewind, Rearm, table, Locals, StepOver
    <3>2. /\ mem'[outer] = "brk" /\ mem'[outer + 1] = "udf"
          /\ \A b \in UserAddrs : b # outer => mem'[b] = mem[b] /\ mem'[b + 1] = mem[b + 1]
          /\ \A c \in Cell : c # outer /\ c - 1 # outer => mem'[c] = mem[c]
      BY <1>0, <3>1, PokeOthers, PairWords
    <3>3. NoAddr \notin sites
      BY <1>0 DEF NoAddr, Code
    <3>4. Clean /\ Clean'
      BY <2>2, <3>1, <3>2 DEF Dtor
    <3>5. \A b \in sites' : mem'[b] = "brk" /\ mem'[b + 1] = "udf"
      BY <1>0, <2>2, <3>1, <3>2, <3>3
    <3> QED
      BY <2>2, <3>1, <3>4, <3>5 DEF Dtor
  <2> QED
    BY <2>1, <2>2
<1>19. ASSUME NEW a \in sites, RestoreSite(a)  PROVE Words'
  <2> SUFFICES ASSUME Separated  PROVE Words'
    OBVIOUS
  <2>1. /\ ctl = "restore" /\ pid # 0 /\ loc = NoAddr /\ outer = NoAddr
        /\ sites' = sites \ {a} /\ orig' = [orig EXCEPT ![a] = Blank]
        /\ UNCHANGED <<life, ctl, loc, outer, state>>
    BY <1>19 DEF RestoreSite, restore_sw_site, call, Control, Locals, Dtor, StepOver
  <2>2. \A b \in sites' : orig'[b] = Blank
    BY <1>0, <2>1 DEF TypeOK, BreakpointsTypeOK
  <2>3. CASE ~Traced
    BY <1>19, <1>0, <2>1, <2>2, <2>3 DEF RestoreSite, restore_sw_site, Control, Held, Dtor
  <2>4. CASE Traced
    <3>1. Poke(a, Blank)
      BY <1>19, <2>1, <2>4 DEF RestoreSite, restore_sw_site
    <3>2. /\ mem'[a] = "insn" /\ mem'[a + 1] = "insn"
          /\ \A b \in UserAddrs : b # a => mem'[b] = mem[b] /\ mem'[b + 1] = mem[b + 1]
          /\ \A c \in Cell : c # a /\ c - 1 # a => mem'[c] = mem[c]
      BY <1>0, <3>1, PokeOthers, PairWords
    <3>3. InControl => Clean'
      <4> SUFFICES ASSUME InControl, NEW c \in Cell, c \notin sites', c - 1 \notin sites'
                   PROVE  mem'[c] = "insn"
        OBVIOUS
      <4>1. CASE c = a
        BY <3>2, <4>1
      <4>2. CASE c - 1 = a
        <5>1. c = a + 1
          BY <4>2, TraceeAssumption DEF Cell
        <5> QED
          BY <3>2, <5>1
      <4>3. CASE c # a /\ c - 1 # a
        BY <2>1, <2>4, <3>2, <4>3
      <4> QED
        BY <4>1, <4>2, <4>3
    <3> QED
      BY <1>0, <2>1, <2>2, <2>4, <3>2, <3>3
  <2> QED
    BY <2>3, <2>4
<1>20. CASE RestoreDone
  BY <1>20 DEF RestoreDone, traceeVars, image, Control, Locals, Held, Dtor, StepOver
<1>21. CASE SendStop
  BY <1>21 DEF SendStop, image, table, Control, Locals, Held, Dtor, StepOver
<1>22. CASE WaitForStop
  BY <1>22 DEF WaitForStop, Collect, image, table, Control, Locals, Held, Dtor, StepOver
<1>23. CASE Detach
  BY <1>23 DEF Detach, image, table, Control, Locals, Held, Dtor, StepOver
<1>24. CASE KillAndWait
  BY <1>24 DEF KillAndWait, image, table, Control, Locals, Held, Dtor, StepOver
<1>25. CASE Execute /\ UNCHANGED debugger
  BY <1>25 DEF Execute, StopWith, Die, Retire, image, debugger, table, call, Stop, Exit, Signal, Control, Locals, Held, Dtor, StepOver
<1>26. CASE RunFree /\ UNCHANGED debugger
  BY <1>26 DEF RunFree, Die, Retire, image, debugger, table, call, Exit, Control, Locals, Held, Dtor, StepOver
<1>27. CASE (PostInt \/ Killed) /\ UNCHANGED debugger
  BY <1>27 DEF PostInt, Killed, Die, image, debugger, table, call, Exit, Control, Locals, Held, Dtor, StepOver
<1>28. ASSUME NEW sig \in Signal, Deliver(sig), UNCHANGED debugger  PROVE Words'
  BY <1>28 DEF Deliver, StopWith, image, debugger, table, call, Exit, Signal, Control, Locals, Held, Dtor, StepOver
<1>29. CASE UNCHANGED vars
  BY <1>29 DEF vars, traceeVars, image, debugger, table, call, Control, Locals, Held, Dtor, StepOver
<1> HIDE DEF Words, Clean, Alive, InControl, Traced
<1>30. CASE ClientCall
  BY <1>1, <1>2, <1>3, <1>4, <1>5, <1>6, <1>7, <1>8, <1>30 DEF ClientCall
<1>31. CASE Proceed
  BY <1>9, <1>10, <1>11, <1>12, <1>13, <1>14, <1>15, <1>16, <1>17,
     <1>18, <1>19, <1>20, <1>21, <1>22, <1>23, <1>24, <1>31 DEF Proceed
<1>32. CASE Environment
  BY <1>25, <1>26, <1>27, <1>28, <1>32 DEF Environment
<1> QED
  BY <1>29, <1>30, <1>31, <1>32 DEF Next, Terminated

-----------------------------------------------------------------------------
(* The inductive invariant and what follows from it.                       *)

\* The state launch or attach hands over satisfies the invariant.
LEMMA InitIInv == Init => IInv
<1> SUFFICES ASSUME Init  PROVE IInv
  OBVIOUS
<1>1. TypeOK
  <2>1. TraceeTypeOK
    BY DEF Init, TraceeInit, TraceeTypeOK, Signal, Stop, Word
  <2>2. BreakpointsTypeOK
    BY PairFacts, MaxIdAssumption
       DEF Init, BreakpointsInit, BreakpointsTypeOK, Id, Addr
  <2> QED
    BY <2>1, <2>2 DEF Init, TypeOK, TraceeTypeOK, Registers, Addr
<1>2. Control
  BY DEF Init, TraceeInit, BreakpointsInit, Control, Held, Exit, Dtor
<1>3. Locals
  BY DEF Init, BreakpointsInit, Locals, StepOver
<1>4. Table
  BY DEF Init, BreakpointsInit, Table, TableConsistent
<1>5. Memory
  BY DEF Init, TraceeInit, BreakpointsInit, Memory, Clean
<1> QED
  BY <1>1, <1>2, <1>3, <1>4, <1>5 DEF IInv

\* Every step of client, debugger, process and kernel preserves the invariant.
LEMMA NextIInv == IInv /\ [Next]_vars => IInv'
<1> SUFFICES ASSUME IInv, [Next]_vars  PROVE IInv'
  OBVIOUS
<1>1. TypeOK' /\ Control' /\ Locals' /\ Table'
  BY TypeStep, ControlStep, LocalsStep, TableStep DEF IInv
<1>2. Words'
  BY MemoryIsWords, WordsStep DEF IInv
<1>3. Memory'
  <2>1. TypeOK' /\ Locals' => (Memory' <=> Words')
    BY MemoryIsWords, PTL
  <2> QED
    BY <1>1, <1>2, <2>1
<1> QED
  BY <1>1, <1>3 DEF IInv

\* The inductive invariant holds throughout: in every order of client calls,
\* kernel requests, signals and exits (process.cpp, breakpoints.cpp).
THEOREM Invariance == Spec => []IInv
BY InitIInv, NextIInv, PTL DEF Spec

\* Every variable keeps its type: no step rewinds to an address that is no
\* address, hands out an identifier twice past its bound, or pokes a non-word.
THEOREM TypeCorrect == Spec => []TypeOK
<1>1. IInv => TypeOK
  BY DEF IInv
<1> QED
  BY <1>1, Invariance, PTL

\* The manager's two maps stay two views of one set (add_breakpoint,
\* remove_breakpoint, restore_all_sw_sites).
THEOREM TablesAgree == Spec => []TableConsistent
<1>1. IInv => TableConsistent
  BY DEF IInv, Table
<1> QED
  BY <1>1, Invariance, PTL

\* As long as no two breakpoint addresses are adjacent, memory is what the
\* table says it is while the process lives, in every interleaving.
THEOREM MemoryMatchesTable == Spec => []SitesArmed
<1>1. IInv => SitesArmed
  BY DEF IInv, Memory, SitesArmed, SiteOK, Clean
<1> QED
  BY <1>1, Invariance, PTL

\* A process the destructor releases from a stop has its own code back.
THEOREM ReleaseIsClean == Spec => []ReleasedClean
<1>1. IInv => ReleasedClean
  <2> SUFFICES ASSUME IInv, Separated, life = "free", state = "STOPPED",
                      NEW c \in Cell
               PROVE  mem[c] = "insn"
    BY DEF ReleasedClean
  <2>1. Clean /\ sites = {}
    BY DEF IInv, Memory, Control
  <2> QED
    BY <2>1 DEF Clean
<1> QED
  BY <1>1, Invariance, PTL

\* No breakpoint is run over: a process under PTRACE_CONT never executes the
\* instruction of a site.
THEOREM BreakpointsStop == Spec => NoBreakpointMissed
<1>1. IInv /\ [Next]_vars =>
        [Separated /\ life = "running" /\ pc' # pc /\ ctl' = ctl => pc \notin sites]_vars
  <2> SUFFICES ASSUME IInv, Next, Separated, life = "running", pc' # pc, pc \in sites
               PROVE  FALSE
    BY DEF vars, traceeVars, image
  <2>1. mem[pc] = "brk"
    <3>1. SiteOK(pc)
      BY DEF IInv, Memory, Alive
    <3>2. pc \notin {loc, outer}
      BY DEF IInv, Control, Locals, Dtor, StepOver, TypeOK, BreakpointsTypeOK, NoAddr, Code
    <3> QED
      BY <3>1, <3>2 DEF SiteOK, Peek, Armed
  <2>2. CASE ClientCall
    BY <2>2 DEF ClientCall, Resume, WaitOnSignal, StepInstruction, AddBreakpoint,
       RemoveBreakpoint, RemoveBreakpointId, WriteRegister, Destroy, Traced,
       traceeVars, image
  <2>3. CASE Proceed
    BY <2>3 DEF Proceed, WaitExit, WaitStop, LoadRegisters, InnerStep, InnerWait,
       InnerRearm, RearmFails, ReloadRegisters, StepLoad, StepRequest, StepRearm,
       RestoreSite, RestoreDone, SendStop, WaitForStop, Detach, KillAndWait,
       Traced, traceeVars, image
  <2>4. CASE Environment
    BY <2>1, <2>4 DEF Environment, Execute, PostInt, Killed, RunFree, Deliver, image
  <2>5. CASE Terminated
    BY <2>5 DEF Terminated, vars, traceeVars, image
  <2> QED
    BY <2>2, <2>3, <2>4, <2>5 DEF Next
<1> QED
  BY <1>1, Invariance, PTL DEF Spec, NoBreakpointMissed
=============================================================================
