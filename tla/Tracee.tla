------------------------------- MODULE Tracee -------------------------------
(***************************************************************************)
(* The traced process and the kernel that traces it, as src/src uses them: *)
(* the aarch64 program under the debugger, its stops, and the ptrace(2),   *)
(* waitpid(2) and kill(2) requests the debugger makes.  None of this is    *)
(* code of the repository; every definition is external.                   *)
(*                                                                         *)
(* An address counts 4-byte instruction words.  A memory word is only ever *)
(* the program's own instruction ("insn"), the BRK the debugger pokes      *)
(* ("brk"), or the all-zero word, which aarch64 decodes as UDF ("udf").    *)
(* One register and one memory word outside the code stand for all of      *)
(* them: "reg" instructions change the former, "store" instructions (a     *)
(* store, an atomic update, a system call) the latter.                     *)
(***************************************************************************)
EXTENDS Integers

CONSTANTS
    CodeSize,   \* number of instruction words of the program
    Effect,     \* Effect[a]: what the instruction at a does
    Succ,       \* Succ[a]: where execution goes after a, branches included
    Val,        \* values of the register and of the data word
    Alu         \* Alu[v]: what an instruction makes of the value v

Code == 0 .. CodeSize - 1

\* An 8-byte poke at the last instruction also covers the word after it.
Cell == 0 .. CodeSize

ASSUME TraceeAssumption ==
    /\ CodeSize \in Nat \ {0}
    /\ Effect \in [Code -> {"none", "reg", "store", "exit"}]
    /\ Succ \in [Code -> Code]
    /\ Alu \in [Val -> Val]

Word == {"insn", "brk", "udf"}

\* The 8 bytes PTRACE_PEEKDATA and PTRACE_POKEDATA move: two words.
Pair == [lo : Word, hi : Word]

Signal == {"INT", "STOP"}
Stop   == Signal \cup {"TRAP", "ILL"}
Exit   == {"exited", "killed", "crashed"}

VARIABLES
    life,       \* the process, as its tracer sees it
    event,      \* the stop or exit waitpid(2) has not returned yet
    pending,    \* signals sent and not delivered yet
    mem,        \* the code, as the CPU would fetch it
    pc, reg,    \* the registers
    store       \* the data word

image      == <<mem, pc, reg, store>>
traceeVars == <<life, event, pending, image>>

TraceeTypeOK ==
    /\ life \in {"stopped", "running", "stepping", "dead", "reaped", "free"}
    /\ event \in Stop \cup Exit \cup {"none"}
    /\ pending \subseteq Signal
    /\ mem \in [Cell -> Word]
    /\ pc \in Code
    /\ reg \in Val
    /\ store \in Val

\* The state in which launch or attach hands the process over.
TraceeInit ==
    /\ life = "stopped"
    /\ event = "none"
    /\ pending = {}
    /\ mem = [c \in Cell |-> "insn"]
    /\ pc \in Code
    /\ reg \in Val
    /\ store \in Val

-----------------------------------------------------------------------------
(* What the process and the rest of the world do.                          *)

StopWith(sig) == life' = "stopped" /\ event' = sig
Die(how)      == life' = "dead" /\ event' = how

\* The instruction at pc takes effect and execution moves on.
Retire ==
    /\ pc' = Succ[pc]
    /\ reg' = IF Effect[pc] = "reg" THEN Alu[reg] ELSE reg
    /\ store' = IF Effect[pc] = "store" THEN Alu[store] ELSE store
    /\ mem' = mem

\* One instruction of the traced process, under PTRACE_CONT or SINGLESTEP.
\* A BRK or an UDF stops it with the pc still on the faulting word.
Execute ==
    /\ life \in {"running", "stepping"}
    /\ \/ mem[pc] = "brk" /\ StopWith("TRAP") /\ UNCHANGED image
       \/ mem[pc] = "udf" /\ StopWith("ILL") /\ UNCHANGED image
       \/ /\ mem[pc] = "insn" /\ Effect[pc] = "exit"
          /\ Die("exited") /\ UNCHANGED image
       \/ /\ mem[pc] = "insn" /\ Effect[pc] # "exit"
          /\ Retire
          /\ IF life = "stepping" THEN StopWith("TRAP")
                                  ELSE UNCHANGED <<life, event>>
    /\ UNCHANGED pending

\* Anyone may send the process a signal; it stays pending until it runs.
PostInt ==
    /\ life \in {"stopped", "running", "stepping"}
    /\ "INT" \notin pending
    /\ pending' = pending \cup {"INT"}
    /\ UNCHANGED <<life, event, image>>

\* Signal-delivery-stop: it comes before the next instruction.
Deliver(sig) ==
    /\ life \in {"running", "stepping"}
    /\ sig \in pending
    /\ StopWith(sig)
    /\ pending' = pending \ {sig}
    /\ UNCHANGED image

\* SIGKILL from outside ends even a ptrace-stopped process.
Killed ==
    /\ life \in {"stopped", "running", "stepping"}
    /\ Die("killed")
    /\ UNCHANGED <<pending, image>>

\* The process after PTRACE_DETACH: nobody fields its traps any more.
RunFree ==
    /\ life = "free"
    /\ \/ mem[pc] # "insn" /\ Die("crashed") /\ UNCHANGED image
       \/ /\ mem[pc] = "insn" /\ Effect[pc] = "exit"
          /\ Die("exited") /\ UNCHANGED image
       \/ /\ mem[pc] = "insn" /\ Effect[pc] # "exit"
          /\ Retire /\ UNCHANGED <<life, event>>
    /\ UNCHANGED pending

-----------------------------------------------------------------------------
(* What the debugger asks of the kernel.  A ptrace request needs the       *)
(* process in ptrace-stop, waited for or not, and fails with ESRCH         *)
(* otherwise: each caller tests Traced and has a branch for the failure.   *)

Traced == life = "stopped"

Peek(a) == [lo |-> mem[a], hi |-> mem[a + 1]]

Poke(a, w) == mem' = [mem EXCEPT ![a] = w.lo, ![a + 1] = w.hi]

\* Resuming a stop nobody waited for discards it, and with signal 0 also
\* suppresses the signal that caused it.
Cont       == life' = "running" /\ event' = "none"
SingleStep == life' = "stepping" /\ event' = "none"

\* waitpid(2) returns what happened; a death it returns is final.
Collect ==
    /\ event # "none"
    /\ event' = "none"
    /\ life' = IF life = "dead" THEN "reaped" ELSE life
=============================================================================
