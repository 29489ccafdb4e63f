------------------------------ MODULE Process ------------------------------
(***************************************************************************)
(* cbg::Process (process.cpp) over its breakpoint manager and the traced   *)
(* process: the calls a client makes one at a time (the CLI, a test) and   *)
(* the kernel requests each of them consists of.  Between two requests the *)
(* traced process, a signal or a SIGKILL may come in.                      *)
(*                                                                         *)
(* ctl is the request the current call makes next:                         *)
(*   idle     no call under way                                            *)
(*   wait     wait_on_signal, its waitpid                                  *)
(*   load     wait_on_signal, registers loaded and the site under pc lifted*)
(*   istep, iwait, rearm, reload                                           *)
(*            wait_on_signal, the transparent step over the site loc       *)
(*   sload, sstep, srearm                                                  *)
(*            step_instruction before and after its wait_on_signal         *)
(*   restore, stop, swait, detach, kill, gone                              *)
(*            the destructor                                               *)
(***************************************************************************)
EXTENDS Breakpoints

CONSTANT UserAddrs      \* the addresses the client uses for breakpoints

ASSUME UserAddrsAssumption == UserAddrs \subseteq Code

VARIABLES
    state,              \* state_
    terminate_on_end,   \* terminate_on_end_: launched, not attached
    cache,              \* Registers: the image last loaded, with its edits
    ctl,
    loc,                \* *opt_loc of wait_on_signal, or NoAddr
    outer               \* bp_loc of step_instruction, or NoAddr

call     == <<ctl, loc, outer>>
debugger == <<table, pid, result, state, terminate_on_end, cache, call>>
vars     == <<traceeVars, debugger>>

Registers == [pc : Code, reg : Val]
StepOver  == {"istep", "iwait", "rearm", "reload"}
Dtor      == {"restore", "stop", "swait", "detach", "kill", "gone"}

TypeOK ==
    /\ TraceeTypeOK
    /\ BreakpointsTypeOK
    /\ state \in {"RUNNING", "STOPPED"}
    /\ terminate_on_end \in BOOLEAN
    /\ cache \in Registers
    /\ ctl \in {"idle", "wait", "load", "sload", "sstep", "srearm"}
                   \cup StepOver \cup Dtor
    /\ loc \in Addr
    /\ outer \in Addr

Init ==
    /\ TraceeInit
    /\ BreakpointsInit
    /\ state = "STOPPED"
    /\ terminate_on_end \in BOOLEAN
    /\ cache = [pc |-> pc, reg |-> reg]
    /\ ctl = "idle"
    /\ loc = NoAddr
    /\ outer = NoAddr

-----------------------------------------------------------------------------
(* Frames and the ways a call ends.                                        *)

Live == [pc |-> pc, reg |-> reg]

\* An exception leaves the call, its locals and the client's command.
Throw ==
    /\ ctl' = "idle" /\ loc' = NoAddr /\ outer' = NoAddr
    /\ result' = "error"

\* Seeded fault: the rearm is not limited to a step from a breakpoint.
Return_AlwaysRearm ==
    /\ ctl' = "srearm"
    /\ loc' = NoAddr
    /\ outer' = outer

\* wait_on_signal returns, to step_instruction when that was at a site.
Return ==
    /\ ctl' = IF outer = NoAddr THEN "idle" ELSE "srearm"
    /\ loc' = NoAddr
    /\ outer' = outer

\* Seeded fault: a load that skips the other register sets.
Load_PcOnly == cache' = [cache EXCEPT !.pc = pc]

Load == cache' = Live

\* A load cut short by a SIGKILL has read the general registers or nothing.
LoadFails == cache' \in {cache, Live}

\* Registers::save writes back the whole image.
Save == pc' = cache'.pc /\ reg' = cache'.reg

-----------------------------------------------------------------------------
(* Calls that are one request.                                             *)

Resume ==
    /\ ctl = "idle"
    /\ \/ /\ pid # 0 /\ Traced
          /\ Cont
          /\ state' = "RUNNING" /\ result' = "ok"
       \/ /\ pid = 0 \/ ~Traced
          /\ result' = "error"
          /\ UNCHANGED <<life, event, state>>
    /\ UNCHANGED <<pending, image, table, pid, terminate_on_end, cache, call>>

AddBreakpoint(addr) ==
    /\ ctl = "idle"
    /\ add_breakpoint(addr)
    /\ UNCHANGED <<life, event, pending, pc, reg, store, pid, state,
                   terminate_on_end, cache, call>>

RemoveBreakpoint(addr) ==
    /\ ctl = "idle"
    /\ remove_breakpoint(addr)
    /\ UNCHANGED <<life, event, pending, pc, reg, store, pid, state,
                   terminate_on_end, cache, call>>

RemoveBreakpointId(id) ==
    /\ ctl = "idle"
    /\ remove_breakpoint_id(id)
    /\ UNCHANGED <<life, event, pending, pc, reg, store, pid, state,
                   terminate_on_end, cache, call>>

\* The CLI's register write: edit the image, then save all of it.  Registers
\* has its own copy of the pid and never asks whether pid_ was cleared.
WriteRegister(new) ==
    /\ ctl = "idle"
    /\ cache' = new
    /\ \/ Traced /\ Save /\ result' = "ok"
       \/ ~Traced /\ UNCHANGED <<pc, reg>> /\ result' = "error"
    /\ UNCHANGED <<life, event, pending, mem, store, table, pid, state,
                   terminate_on_end, call>>

Edits == {[cache EXCEPT !.pc = a] : a \in Code}
             \cup {[cache EXCEPT !.reg = v] : v \in Val}

-----------------------------------------------------------------------------
(* wait_on_signal.                                                         *)

\* Clients wait for a process they resumed; once it is gone, waitpid(0)
\* finds no child.
WaitOnSignal ==
    /\ ctl = "idle"
    /\ state = "RUNNING"
    /\ \/ pid # 0 /\ ctl' = "wait" /\ result' = "ok"
       \/ pid = 0 /\ ctl' = "idle" /\ result' = "error"
    /\ UNCHANGED <<traceeVars, table, pid, state, terminate_on_end, cache,
                   loc, outer>>

WaitExit ==
    /\ ctl = "wait"
    /\ event \in Exit
    /\ Collect
    /\ pid' = 0
    /\ result' = "exited"
    /\ Return
    /\ UNCHANGED <<pending, image, table, state, terminate_on_end, cache>>

\* Seeded fault: state_ stays RUNNING after the stop.
WaitStop_StateKept ==
    /\ ctl = "wait"
    /\ event \in Stop
    /\ Collect
    /\ ctl' = "load"
    /\ UNCHANGED <<pending, image, table, pid, result, state,
                   terminate_on_end, cache, loc, outer>>

\* Seeded fault: a stop by a signal is swallowed and the process resumed.
WaitStop_SignalSwallowed ==
    /\ ctl = "wait"
    /\ event \in Stop
    /\ IF event = "INT" THEN Cont /\ UNCHANGED <<state, ctl>>
                        ELSE Collect /\ state' = "STOPPED" /\ ctl' = "load"
    /\ UNCHANGED <<pending, image, table, pid, result, terminate_on_end,
                   cache, loc, outer>>

WaitStop ==
    /\ ctl = "wait"
    /\ event \in Stop
    /\ Collect
    /\ state' = "STOPPED"
    /\ ctl' = "load"
    /\ UNCHANGED <<pending, image, table, pid, result, terminate_on_end,
                   cache, loc, outer>>

LoadRegisters ==
    /\ ctl = "load"
    /\ \/ /\ Traced /\ pc \notin sites
          /\ Load
          /\ Return
          /\ UNCHANGED <<mem, result>>
       \/ /\ Traced /\ pc \in sites
          /\ Load
          /\ Lift(pc)
          /\ ctl' = "istep" /\ loc' = pc
          /\ UNCHANGED <<outer, result>>
       \/ /\ ~Traced
          /\ LoadFails
          /\ Throw
          /\ mem' = mem
    /\ UNCHANGED <<life, event, pending, pc, reg, store, table, pid, state,
                   terminate_on_end>>

InnerStep ==
    /\ ctl = "istep"
    /\ \/ Traced /\ SingleStep /\ ctl' = "iwait" /\ UNCHANGED <<loc, outer, result>>
       \/ ~Traced /\ Throw /\ UNCHANGED <<life, event>>
    /\ UNCHANGED <<pending, image, table, pid, state, terminate_on_end, cache>>

\* The status of the inner waitpid is never looked at.
InnerWait ==
    /\ ctl = "iwait"
    /\ Collect
    /\ ctl' = "rearm"
    /\ UNCHANGED <<pending, image, table, pid, result, state,
                   terminate_on_end, cache, loc, outer>>

\* Seeded faults: the image is not written back; the BRK is not put back.
RearmAndRewind_NotSaved(a) ==
    /\ Rearm(a)
    /\ cache' = [cache EXCEPT !.pc = a]
    /\ UNCHANGED <<pc, reg, store>>

RearmAndRewind_NotArmed(a) ==
    /\ cache' = [cache EXCEPT !.pc = a]
    /\ Save
    /\ UNCHANGED <<mem, store>>

\* rearm_and_rewind: the BRK back, then pc := a and the whole image saved.
RearmAndRewind(a) ==
    /\ Rearm(a)
    /\ cache' = [cache EXCEPT !.pc = a]
    /\ Save
    /\ UNCHANGED store

\* It throws at its poke, or at its save when a SIGKILL came in between.
RearmFails(a) ==
    /\ cache' \in IF pid = 0 THEN {cache} ELSE {cache, [cache EXCEPT !.pc = a]}
    /\ Throw
    /\ UNCHANGED image

InnerRearm ==
    /\ ctl = "rearm"
    /\ \/ /\ Traced
          /\ RearmAndRewind(loc)
          /\ ctl' = "reload"
          /\ UNCHANGED <<loc, outer, result>>
       \/ ~Traced /\ RearmFails(loc)
    /\ UNCHANGED <<life, event, pending, table, pid, state, terminate_on_end>>

ReloadRegisters ==
    /\ ctl = "reload"
    /\ \/ Traced /\ Load /\ Return /\ UNCHANGED result
       \/ ~Traced /\ LoadFails /\ Throw
    /\ UNCHANGED <<traceeVars, table, pid, state, terminate_on_end>>

-----------------------------------------------------------------------------
(* step_instruction.                                                       *)

StepInstruction ==
    /\ ctl = "idle"
    /\ \/ pid # 0 /\ ctl' = "sload" /\ result' = "ok"
       \/ pid = 0 /\ ctl' = "idle" /\ result' = "error"
    /\ UNCHANGED <<traceeVars, table, pid, state, terminate_on_end, cache,
                   loc, outer>>

StepLoad ==
    /\ ctl = "sload"
    /\ \/ /\ Traced
          /\ Load
          /\ IF pc \in sites THEN Lift(pc) /\ outer' = pc
                             ELSE UNCHANGED <<mem, outer>>
          /\ ctl' = "sstep"
          /\ UNCHANGED <<loc, result>>
       \/ ~Traced /\ LoadFails /\ Throw /\ mem' = mem
    /\ UNCHANGED <<life, event, pending, pc, reg, store, table, pid, state,
                   terminate_on_end>>

\* Seeded fault: PTRACE_CONT where PTRACE_SINGLESTEP is meant.
StepRequest_Continues ==
    /\ ctl = "sstep" /\ Traced
    /\ Cont
    /\ state' = "RUNNING"
    /\ ctl' = "wait"
    /\ UNCHANGED <<pending, image, table, pid, result, terminate_on_end,
                   cache, loc, outer>>

StepRequest ==
    /\ ctl = "sstep"
    /\ \/ /\ Traced
          /\ SingleStep
          /\ state' = "RUNNING"
          /\ ctl' = "wait"
          /\ UNCHANGED <<loc, outer, result>>
       \/ ~Traced /\ Throw /\ UNCHANGED <<life, event, state>>
    /\ UNCHANGED <<pending, image, table, pid, terminate_on_end, cache>>

StepRearm ==
    /\ ctl = "srearm"
    /\ \/ /\ pid # 0 /\ Traced
          /\ RearmAndRewind(outer)
          /\ ctl' = "idle" /\ outer' = NoAddr
          /\ UNCHANGED <<loc, result>>
       \/ (pid = 0 \/ ~Traced) /\ RearmFails(outer)
    /\ UNCHANGED <<life, event, pending, table, pid, state, terminate_on_end>>

-----------------------------------------------------------------------------
(* ~Process.                                                               *)

\* Seeded fault: the destructor does not call restore_all_sw_sites.
Destroy_NoRestore ==
    /\ ctl = "idle"
    /\ ctl' = IF pid = 0 THEN "gone" ELSE IF state = "RUNNING" THEN "stop" ELSE "detach"
    /\ result' = "ok"
    /\ UNCHANGED <<traceeVars, table, pid, state, terminate_on_end, cache,
                   loc, outer>>

Destroy ==
    /\ ctl = "idle"
    /\ ctl' = IF pid = 0 THEN "gone" ELSE "restore"
    /\ result' = "ok"
    /\ UNCHANGED <<traceeVars, table, pid, state, terminate_on_end, cache,
                   loc, outer>>

RestoreSite(a) ==
    /\ ctl = "restore"
    /\ restore_sw_site(a)
    /\ UNCHANGED <<life, event, pending, pc, reg, store, ids, pid, result,
                   state, terminate_on_end, cache, call>>

\* Seeded fault: a running process is not stopped before PTRACE_DETACH.
RestoreDone_NoStop ==
    /\ ctl = "restore"
    /\ sites = {}
    /\ ids' = [i \in Id |-> NoAddr]
    /\ ctl' = "detach"
    /\ UNCHANGED <<traceeVars, sites, orig, nextId, pid, result, state,
                   terminate_on_end, cache, loc, outer>>

RestoreDone ==
    /\ ctl = "restore"
    /\ sites = {}
    /\ ids' = [i \in Id |-> NoAddr]
    /\ ctl' = IF state = "RUNNING" THEN "stop" ELSE "detach"
    /\ UNCHANGED <<traceeVars, sites, orig, nextId, pid, result, state,
                   terminate_on_end, cache, loc, outer>>

\* Seeded fault: waitpid without the SIGSTOP.
SendStop_NotSent ==
    /\ ctl = "stop"
    /\ ctl' = "swait"
    /\ UNCHANGED <<traceeVars, table, pid, result, state, terminate_on_end,
                   cache, loc, outer>>

SendStop ==
    /\ ctl = "stop"
    /\ pending' = pending \cup IF life \in {"stopped", "running"} THEN {"STOP"} ELSE {}
    /\ ctl' = "swait"
    /\ UNCHANGED <<life, event, image, table, pid, result, state,
                   terminate_on_end, cache, loc, outer>>

WaitForStop ==
    /\ ctl = "swait"
    /\ Collect
    /\ ctl' = "detach"
    /\ UNCHANGED <<pending, image, table, pid, result, state,
                   terminate_on_end, cache, loc, outer>>

\* PTRACE_DETACH and the SIGCONT that cancels a SIGSTOP still pending.
Detach ==
    /\ ctl = "detach"
    /\ life' = IF Traced THEN "free" ELSE life
    /\ pending' = pending \ {"STOP"}
    /\ ctl' = IF terminate_on_end THEN "kill" ELSE "gone"
    /\ UNCHANGED <<event, image, table, pid, result, state, terminate_on_end,
                   cache, loc, outer>>

\* SIGKILL and waitpid; on a process already reaped both merely fail.
KillAndWait ==
    /\ ctl = "kill"
    /\ life' = "reaped" /\ event' = "none"
    /\ ctl' = "gone"
    /\ UNCHANGED <<pending, image, table, pid, result, state,
                   terminate_on_end, cache, loc, outer>>

-----------------------------------------------------------------------------
ClientCall ==
    \/ Resume
    \/ WaitOnSignal
    \/ StepInstruction
    \/ \E a \in UserAddrs : AddBreakpoint(a)
    \/ \E a \in UserAddrs : RemoveBreakpoint(a)
    \/ \E i \in Id : RemoveBreakpointId(i)
    \/ \E new \in Edits : WriteRegister(new)
    \/ Destroy

\* What the debugger does next inside the call under way.
Proceed ==
    \/ WaitExit \/ WaitStop \/ LoadRegisters
    \/ InnerStep \/ InnerWait \/ InnerRearm \/ ReloadRegisters
    \/ StepLoad \/ StepRequest \/ StepRearm
    \/ \E a \in sites : RestoreSite(a)
    \/ RestoreDone \/ SendStop \/ WaitForStop \/ Detach \/ KillAndWait

Environment ==
    /\ \/ Execute \/ PostInt \/ Killed \/ RunFree
       \/ \E sig \in Signal : Deliver(sig)
    /\ UNCHANGED debugger

\* The debugger has ended.
Terminated == ctl = "gone" /\ UNCHANGED vars

Next == ClientCall \/ Proceed \/ Environment \/ Terminated

Spec == Init /\ [][Next]_vars

-----------------------------------------------------------------------------
(* Safety.                                                                 *)

Alive     == life \in {"stopped", "running", "stepping"}
Separated == \A a, b \in UserAddrs : b # a + 1

\* What the debugger may count on: the destructor's pokes can only fail
\* unnoticed when it finds the process RUNNING.
InControl == ctl \notin Dtor \/ state = "STOPPED"

\* Whatever calls are made and wherever signals, exits and kills fall, memory
\* and table agree while the process lives: a site holds the BRK, except the
\* one being stepped over, and a word no poke covers is the program's own.
\* For breakpoints that are not on adjacent instructions (add_breakpoint,
\* remove_breakpoint, the prepare and rearm hooks).
SitesArmed ==
    Separated /\ Alive /\ InControl =>
        /\ \A a \in sites : \/ Peek(a) = Armed
                            \/ a \in {loc, outer} /\ Peek(a) = Blank
        /\ \A c \in Cell : c \notin sites /\ c - 1 \notin sites => mem[c] = "insn"

\* The two maps of the manager stay two views of one set: every site has
\* exactly one identifier, already handed out, and every identifier a site.
TableConsistent ==
    ctl # "restore" =>
        /\ sites = {ids[i] : i \in Id} \ {NoAddr}
        /\ \A i, j \in Id : ids[i] = ids[j] /\ ids[i] # NoAddr => i = j
        /\ \A i \in Id : ids[i] # NoAddr => i < nextId

\* Between calls, a process the debugger believes stopped has the registers
\* the debugger would show, and would write back with the next edit.
CacheCoherent ==
    ctl = "idle" /\ pid = 1 /\ state = "STOPPED" /\ Traced => cache = Live

\* No waitpid of the debugger blocks on a process that is already stopped
\* and has nothing left to report.
NoLostWakeup ==
    ctl \in {"wait", "iwait", "swait"} =>
        event # "none" \/ life \in {"running", "stepping"}

\* A process released while the debugger held it stopped runs on without a
\* trap or a zeroed word in its code (~Process).
ReleasedClean ==
    Separated /\ life = "free" /\ state = "STOPPED" =>
        \A c \in Cell : mem[c] = "insn"

\* The destructor leaves nothing in ptrace-stop: a launched process is killed
\* and reaped, an attached one let go, to run on.  The SIGSTOP for a process
\* found RUNNING holds it for the detach only; docs/memory-context.md says
\* otherwise, see NoTrapsLeft.  (~Process)
EndsAsPromised ==
    ctl = "gone" => life \in IF terminate_on_end THEN {"reaped"}
                                                ELSE {"free", "dead", "reaped"}

\* A process that runs under PTRACE_CONT never executes the instruction of a
\* breakpoint that is set: the BRK is in place each time it passes.
NoBreakpointMissed ==
    [][Separated /\ life = "running" /\ pc' # pc /\ ctl' = ctl => pc \notin sites]_vars

\* The registers found at a breakpoint are the registers presented for it: no
\* step of the transparent step-over, the reload included, alters the image.
StepOverInvisible == [][(ctl \in StepOver) => (cache' = cache)]_vars

\* What the user sees of the process: in the middle of the transparent step the
\* image loaded before it, at all other times the registers themselves.
Shown == IF ctl \in {"iwait", "rearm"} THEN cache ELSE Live

Mode == IF life \in {"dead", "reaped"} THEN "gone"
        ELSE IF life = "stopped" \/ ctl = "iwait" THEN "held" ELSE "running"

Prog == INSTANCE Program WITH
    None    <- NoAddr,
    mode    <- Mode,
    calling <- ctl # "idle",
    told    <- state = "STOPPED",
    origin  <- outer,
    pc      <- Shown.pc,
    reg     <- Shown.reg

\* Seen by the user the program is the one that was written: breakpoints set,
\* hit, stepped over and removed, calls cut short and signals change nothing in
\* what its registers go through, except that a step from a breakpoint is taken
\* back (wait_on_signal, step_instruction, the step-over hooks).
ProgramAsWritten == Prog!Spec

-----------------------------------------------------------------------------
(* Liveness.  The debugger's own code runs on, the kernel schedules a      *)
(* process that may run and delivers it a signal that is pending.          *)

Fairness ==
    /\ WF_vars(Proceed)
    /\ WF_vars(Execute /\ UNCHANGED debugger)
    /\ \A sig \in Signal : WF_vars(Deliver(sig) /\ UNCHANGED debugger)

FairSpec == Spec /\ Fairness

\* step_instruction comes back to its client, with or without an error.
StepReturns == (ctl = "sload") ~> (ctl = "idle")

\* The destructor comes to its end, also for a process found running.
DestroyReturns == (ctl = "restore") ~> (ctl = "gone")

\* A continue ends once a signal is on its way to the process.
InterruptEndsWait == (ctl = "wait" /\ "INT" \in pending) ~> (ctl = "idle")

-----------------------------------------------------------------------------
(* What the documents and tests say of the code and the code does not do;  *)
(* each is checked by a run of its own that finds it violated.             *)

\* docs/breakpoint-progress.md: after the step over a breakpoint that was hit
\* "the instruction has not yet executed from the user's perspective".  The
\* registers are put back, the memory the instruction wrote is not.
StopLeavesMemory == [][(ctl \in StepOver) => (store' = store)]_vars

\* docs/breakpoint-progress.md: the destructor's restore "prevents leaving
\* traps in the debugee".  It pokes before it stops a RUNNING process.
\* docs/memory-context.md: the SIGSTOP before the detach "prevents the debugee
\* from continuing after debugger death", after which none of them would ever be
\* "free" with a trap; PTRACE_DETACH and the SIGCONT after it set it going.
NoTrapsLeft ==
    ctl = "gone" /\ life = "free" => \A c \in Cell : mem[c] = "insn"

\* test/test_breakpoints.cpp: "Remove the bp and verify original bytes are
\* restored".  The 8-byte originals of adjacent sites hide each other's BRK.
RemovalRestores ==
    ctl = "idle" /\ Alive /\ sites = {} => \A c \in Cell : mem[c] = "insn"

\* docs/memory-context.md: "pid_ is cleared ... on EXITED/TERMINATED".  An exit
\* the inner waitpid of the step-over collects is not looked at.
PidClearedOnExit == ctl = "idle" /\ life = "reaped" => pid = 0
=============================================================================
