# cbugger in TLA+

cbugger is a small ptrace debugger for Linux on aarch64: a library (`src/src`, `src/include/libcbg`) and a
command line on top of it (`src/tools/cbg.cpp`). This directory holds TLA+ modules that model the library's
control logic over the kernel and the process it traces, TLC configurations that check them on small instances,
and TLAPS proofs that hold for every value of the constants.

Paths below are relative to the repository; `src/process.cpp` is the library's source of that name.

## The system

| Component | State it keeps | Operations | Correct when |
|---|---|---|---|
| Process control, `src/process.cpp` | `pid_`, `state_`, `terminate_on_end_` | `resume`, `wait_on_signal`, `step_instruction`, memory access, destructor | no wait for something that cannot happen, the shown registers are the live ones, a released process is intact |
| Launch and attach, `src/process.cpp`, `src/pipe.cpp` | the error pipe, the child before its exec | `launch`, `attach`, `Pipe` | a failed child becomes an exception and no zombie, a good one is handed over stopped after its exec |
| Software breakpoints, `src/breakpoints.cpp` | `sw_breakpoints_` (address to hidden word), `bp_id_to_addr_`, `next_bp_id_` | add, remove by address and by id, the step-over hooks, `restore_all_sw_sites` | both maps describe one set, memory is what the table says, no set breakpoint is missed |
| Hardware breakpoints, `src/breakpoints.cpp` | the cached debug register set | `enable_hw_breakpoint`, `disable_hw_breakpoint` | a slot handed out is armed, an armed slot has an owner |
| Register cache, `src/registers.cpp` | four register sets, the pid | `load`, `save`, handles, reads, writes | a write reaches the process once and changes what the architecture says |
| Subregister views, `src/subregister_view.cpp` | none | `make_wn` ... `make_vn_lane_d`, `read_u64`, `write_u64` | a view reads what it wrote and leaves its siblings alone |
| Register names and values, `src/register_name.cpp`, `Registers::resolve`, `Registers::parse_register_value` | none | `parse_subregister_name`, `resolve`, `parse_register_value` | a name finds the register it spells and no other, a value is refused or means what it says |
| Command line, `tools/cbg.cpp` | the history | dispatch by prefixes, one handler per command, the report of a stop, the end of input | the prompt means a stopped process, "Wrote" means written, a reported hit is one, the end leaves no trap |
| Errors and byte helpers | none | | an exception ends the call with `result = "error"` |

How they interact. The client makes one call at a time. `Process` delegates the table of breakpoints to
`Breakpoints`, which calls back into its owner for memory and registers; both move registers through `Registers`,
which has its own copy of the pid. Every one of them talks to the kernel by ptrace, waitpid and kill. There are no
threads in the debugger: concurrency is between the debugger, the traced process and whoever sends it signals, and
it bites **between two requests of one call**. `step_instruction` from a breakpoint, for instance, is: load, put
back the original word, single-step, wait, load, perhaps a second step-over nested in that wait, put the BRK back,
set pc, save four register sets. A signal, an exit or a SIGKILL may come between any two.

Hard behaviours, in `PROJECT.json` under `hazards` with their lines: calls cut in half by a death, the ignored
status of the inner `waitpid`, the image of all registers that a write of one saves, the 8-byte poke for a 4-byte instruction, the destructor racing the process it
wants to stop, waiting for a process that already stopped, the deadlocks of the launch pipe, a save that fails
after three of four register sets, an address the kernel refuses, a processor without debug slots, an exception thrown
out of half a `continue` into the prompt, counters and cuts at the width of an `int` or a register in the parsers.

## Modules

| Module | Models | Correspondence |
|---|---|---|
| `Tracee` | the traced program, ptrace-stops, signals, waitpid (external) | `mem` is what the CPU fetches: per instruction word the program's own, a BRK, or the zero word the 8-byte poke writes next to it; `event` is what waitpid has not returned yet; `Traced` is the condition under which a ptrace request succeeds |
| `Breakpoints` | `Breakpoints::Impl` | `sites` and `orig` are the keys and values of `sw_breakpoints_`, `ids` is `bp_id_to_addr_`; one operator per method; a throw is `result = "error"` |
| `Process` | `cbg::Process` | `ctl` is the request the call under way makes next, `loc` and `outer` the two locals that hold a lifted site; one action per kernel request, each with its failure branch; the client may make any call when `ctl = "idle"` |
| `Program` | nothing: the abstract specification | the program as its user sees it: held, running or gone, its registers, and what may change them |
| `MCProcess`, `MCProgress` | values for TLC; a user who repeats `continue` and `step` | |
| `Launch` | `launch`, `attach`, `Pipe`, `exit_with_perror`, the first wait | `parent` and `child` are program counters, `writers` who holds the pipe's write end open |
| `SubregisterView` | `subregister_view.cpp` | a k-bit value is a function from its bit numbers, so shifts and masks become choices of indices; `W` is the width of half a general register, 32 in the code |
| `RegisterFile` | nothing: the abstract specification | two registers as words, changed at most once per requested write |
| `Registers` | `registers.cpp`, the hardware half of `breakpoints.cpp` | `kernel` and `cache` are the register sets on both sides; `phase` and `bank` say which set a load or a save moves next; `given` remembers, for the properties only, which slots the client was handed |
| `MCRegisters` | values for TLC | |
| `RegisterText` | `register_name.cpp`, `Registers::resolve`, `parse_register_value` | a name is the five parts its parser finds in it, a value its form, its number and its hex digits; `IntBits` is the width of `int` |
| `Cli` | `tools/cbg.cpp` over `Process` | a line is the sequence of its words; `phase` is where `main_loop` is, `said` what the last command printed, `history` the last two lines; each handler makes the calls of `Process` that the code's makes |
| `MCCli` | values for TLC | |
| `ProcessProofs`, `ProgramProofs`, `LaunchProofs`, `RegistersProofs`, `RegisterFileProofs`, `RegisterTextProofs`, `CliProofs` | theorems | see *Proofs* |

`Tracee` <- `Breakpoints` <- `Process` is a chain of EXTENDS: the modules share the process and compose into one
state machine. `SubregisterView` <- `Registers` likewise, and `Registers` INSTANCEs `RegisterFile` with a
refinement mapping: the file is what the *process* shows, and a request is pending until its register set has been
moved. `Process` INSTANCEs `Program`: what the user sees (`Shown`) is the cached image in the middle of a step-over
and the registers themselves at all other times. `Cli` EXTENDS `Process` and `RegisterText` and drives the former
with what the latter makes of the words of a line. `Launch` ends where `Process` begins: `HandedOver` says that
what it returns is `Process`'s `Init`.

Abstractions. One register and one data word stand for all those an instruction can change; the program is an
array of instructions with a successor each (`Succ` covers branches). In `Registers` one general and one vector
register stand for their sets, since every operation touches one and moves all. The model of `Process` moves the
register sets of one load or save together and lets a death fall before or within it; what happens between the
four requests is the subject of `Registers`, where the process stays stopped or dies. An 8-byte poke, its peek
included, is one step: the process is stopped and nothing can come between except a kill, after which memory no
longer matters. In `Cli` the registers are `pc` and `x0` (and `w0` in it); a write to another leaves both alone.
Restarting a call on EINTR, message texts, logging and printing are left out.

## Runs

| Run | Bounds | Shows |
|---|---|---|
| `session` | 4 instructions in a loop (a register update, a no-op at a breakpoint's shadow, a store) and an exit; breakpoint addresses 0 and 2; 2 identifiers | every order of client calls with signals, exit and SIGKILL between any two requests keeps table, memory, cache and waiting consistent, and releases a stopped process clean; refinement of `Program`; `step_instruction` and the destructor end, an interrupt ends a `continue` |
| `launch` | none needed: one call, all modes | errors of the child reach the parent and the child is reaped, but for a child a signal stops before it has ended; the process is handed over stopped, the call returns |
| `registers` | `W = 1`, one slot, three values | types, read-back, refinement of `RegisterFile` |
| `hw_slots` | two slots in room for three, three addresses, one refused | slots handed out, slots armed and the cache agree; no register write is lost, one that reports the refused address included |
| `cli` | 3 instructions, one breakpoint address, one identifier, 12 lines, `W = 4`, `IntBits = 8`; 115 000 names and 2 400 values | from any prompt, after any lines, errors and deaths: the process is stopped, "Wrote" is true, a hit is a hit, the end leaves no trap; names and values mean what they say |
| `memory_effect`, `running_dtor`, `adjacent`, `inner_exit`, `progress`, `launch_stop`, `no_slots` | as above | *Findings* |

Why the bounds are enough. Two separated breakpoints are enough for a step-over that meets another one (in the
nested wait of a step, or right behind the shadow of the first), and two identifiers for the same address added,
removed and added again: identifiers are never reused, so `MaxId` bounds how often addresses are added in one
session and nothing else (`nextId <= MaxId` in `add_breakpoint` is the only guard the code does not have). `W = 1`
keeps each word distinguishable by its bits while the arithmetic of offsets is uniform in `W`; the three values of
`MCRegisters` give each bit both values and tell any two words apart. `DbgRegs = 3` with `Slots = 2` gives a slot
that is cached and never transferred. `HwAddr` and `Invalid` hold one address more than there are slots and one
the kernel refuses (one of the kernel's own, or, to an older kernel, an unaligned one); the code never compares
addresses. All other bounds are finite in the code.

The twelve lines of `cli` reach every branch of the handlers, with a short and a full form of a word, an address and an identifier that do not parse, a value that
is cut and one that is refused; one identifier makes the second `break` of a session the last. The code's history
grows without bound, but only its last two lines can be read. `pc` is only written to the address of an
instruction. With an `int` of 8 bits three digits overflow it, from both sides, and with `W = 4` the sizes are 4, 8
and 16 bits, so that hexadecimal values of one to five digits lie on both sides of each. Of `cli` alone the initial
registers are fixed, and instructions leave them alone: what they do to data is a question of `session`.

The proofs remove the bounds of all runs for the theorems below.

What is assumed of the constants is stated in the modules and evaluated in every run. `RegisterTextAssumption` says
that names and values are such as the splitting of a word can give: lane digits only behind a bracket, a number no
larger than its hex digits allow, a register of whole hex digits. `IntBitsAssumption` wants an `int` that holds the
number of every register. `LinesAssumption` says that no line is empty and that what a word means is among the
addresses, names and values. `WritesAssumption` is the one that restricts the user: what a line writes to `pc` is the
address of an instruction, and what it writes to `x0` is among the data values, because the program of the model has
no others.

Fairness. `Process!Fairness` is weak fairness of `Proceed` (the debugger's own code runs on), of the traced
process when it may run, and of the delivery of each pending signal: what a scheduler and the kernel do give.
Nothing is assumed of the client, of senders of signals, nor that a program ends. `Launch` has the same for both
processes and for the stop `PTRACE_ATTACH` has asked for. `MCProgress` adds a user who types both commands for
ever, with strong fairness because the process is stopped again and again rather than all along.

Deadlock is checked in every run: a finished debugger stutters by an explicit action, anything else that stops is
an error.

Conditions in properties. `Separated` excludes breakpoints on adjacent instructions, which the code gets wrong
(finding `adjacent`). `InControl` excludes a destructor that found the process RUNNING, whose pokes fail (finding
`running_dtor`). `Program!Edit` changes one register, except when the user edits a process that has stopped
without having been waited for: the write then saves the image of an earlier stop over all registers. The command
line cannot do that (`PromptMeansStopped`), a client of the library can. `ExactNames` and `ExactValues` name what
the parsers take for another number: an index beyond `int`, a decimal beyond 64 bits, a negative number for a
whole vector register. `LaunchReturns` and `FailureReported` have one exception: a signal that stops a traced child
on its way to its exec or, when that failed, to its message, leaves child and parent waiting for each other for ever
(finding `launch_stop`). `NoZombieLeft` has another: stopped between its message and its exit, the child ends the
`waitpid` of `process.cpp:85` with that stop, and `launch` throws and leaves it behind. `HwArmed` fails without debug slots (finding `no_slots`).

Observations that are not an error of any property:

- An address the kernel refuses stays in the cached slot after `enable_hw_breakpoint` has thrown. Until the next
  load, each register write reports an error although it was carried out; that is why `NoWriteLost` also speaks of
  writes that fail.
- `history_get` counts from 1 (`tools/cbg.cpp:601`): an empty line repeats the line *before* the last one, and after
  the first line of a session it dereferences a null pointer. The kernel then lets the process run with its traps,
  which is why `CleanRelease` is about the end of input.
- After an exit `print_breakpoint_hit_if_any` compares with the pc of the last stop and may report a hit of a process
  that is gone; `HitsAreTrue` is about stops.
- What follows a closing bracket in a register name is not looked at, and an index that overflows `int` can come back
  into range, although `detail/register_name.hpp` promises nothing for an invalid form.
- A decimal number too wide for a register is cut without a word, a hexadecimal one is refused.
- The first word of a line that begins with a blank is empty, a prefix of every command, and so means `continue`.

## Findings

Each run of this kind checks one statement of the repository's documents, tests or help text and TLC finds it
violated; `PROJECT.json` quotes the line.

1. `memory_effect` - a store at a breakpoint has already happened when the stop is presented
   (`docs/breakpoint-progress.md`: "has not yet executed from the user's perspective").
2. `running_dtor` - the destructor restores the sites before it stops a RUNNING process; the pokes fail unnoticed
   and the released process dies on the next BRK. The same counterexamples refute another sentence: that the SIGSTOP
   "prevents the debugee from continuing after debugger death" (`docs/memory-context.md:193`). The destructor stops
   the process for the detach only and then sends it SIGCONT; `EndsAsPromised` says what it does leave.
3. `adjacent` - two breakpoints on adjacent instructions save each other's pokes; removing both leaves the code
   patched.
4. `inner_exit` - an exit collected by the inner `waitpid` of the step-over goes unnoticed and `pid_` names a
   reaped process (`docs/memory-context.md`: cleared on exit).
5. `progress` - `continue` and `step` never get past a breakpoint: both re-arm it and rewind pc to it.
6. `launch_stop` - a traced child whose `execlp` failed and that a signal stops before it writes its message is resumed
   by nobody; the parent waits on the pipe for ever and the failure is not reported (`docs/memory-context.md:189`).
7. `no_slots` - with no debug slots `enable_hw_breakpoint` returns slot 0 and nothing is armed
   (`test/test_breakpoints.cpp` expects an error).

## Proofs

`ProcessProofs` (for every program, client, set of addresses and number of identifiers). The safety properties are
not inductive. `IInv` adds what the code knows implicitly: `Control`, where the process can be for each point of
the debugger's code; `Locals`, that `loc` and `outer` name sites exactly while a call needs them; `Table`, both
maps; `Memory`, that each site's saved word is the program's own and each site holds a BRK unless it is the one
lifted. `Memory` needs `Locals` (a rewind re-arms the address in a local) and `Table` (a removal restores what was
saved), and both need `Control`. From `IInv`: `TypeCorrect`, `TablesAgree`, `MemoryMatchesTable` (`SitesArmed`),
`ReleaseIsClean` (`ReleasedClean`) and, as an action property, `BreakpointsStop` (`NoBreakpointMissed`). The last
three carry `Separated`, as the properties do.

`RegistersProofs` (for every `W`, number of slots, set of addresses and refused addresses). First facts about
views: each lies inside its parent and is not zeroed by its own policy (`ViewFacts`), a read returns what was
written (`ReadAfterWrite`), a write of one lane leaves others alone (`LanesAreIndependent`). Then the invariant:
`Owned`, a slot handed out is armed on *both* sides, since a save of a stale cache would disarm it; `Aligned`, the
process never holds a refused address, and the cache does at most in the slot being enabled once a call has loaded
it; `Strays`, who may be armed without an owner; `Image`, which register sets agree half way through a load or a
save; `Shown`, what the cache shows during a write. From it `SlotsStayArmed` (assumes `Slots > 0`: the case the
code handles), `NoSlotLeftArmed`, `CacheShowsProcess`, `WritesReadBack` and `WritesArrive`.

`RegisterFileProofs` proves the refinement `Spec => File!Spec` (`RegisterFileImplemented`). `ViewWords` computes,
for a view given by its first word, its length and the words its policy keeps, each word of the parent after a
write; `GeneralWord` and `VectorWord` apply it to every kind of handle; `Pending` says that what a save has still
to move is the write applied to what the process has *now*. `StepKinds` sorts all steps into five kinds, and each
kind maps to `Ask`, `CarryOut`, `GiveUp` or a stutter.

`ProgramProofs` goes on from `IInv` to what the user gets. `UserInv` adds `Awaited`, that a process the debugger
takes for running, and waits for, has an answer or will have one; `Cached`, where in each call the cached image is
live; `Ending`, what the destructor has done when it lets go. None of the three needs the others or `Separated`; each
needs `Control`, and `Cached` needs `Locals`. From it `NoCallHangs` (`NoLostWakeup`), `CacheIsLive` (`CacheCoherent`), `PromiseIsKept`
(`EndsAsPromised`), `StepOversHidden` (`StepOverInvisible`), and the refinement `ProgramUnchanged`
(`Spec => ProgramAsWritten`): `StepShows` sorts the steps of `Process` into seven kinds by what they show the user,
`ProgStep` maps each kind to an action of `Program`. The refinement needs `Cached`, since an edit saves the whole image
and a rewind saves the image of before the step. It needs no condition on the addresses: a program whose words are
overwritten stops or dies, but its registers change by its own instructions only.

`LaunchProofs`. `LaunchInv` says who holds the write end of the pipe (`WriteEnds`), how a child can have left
(`Departures`: with a report, as the program, or killed), what the mode settles (`Modes`) and what the caller knows at
each place (`Stages`). The caller that reads the end of the pipe knows by `WriteEnds` that the child has exec'd, exited
or been killed, and by `Departures` that an exit comes after a report, and that a child stopped on its way out has
reported. From it `TypeCorrect`, `ReturnsPrograms`
(`OnlyProgramsReturned`), `NoZombies` (`NoZombieLeft`) and `StoppedAfterExec` (`HandedOver`). `NoZombieLeft` is
an action property: it speaks of the step in which `launch` throws, since a child left behind may still be killed later.

`RegisterTextProofs` (for every width of `int` and of registers the assumptions allow, and any number of digits).
`ValuesAreExact` (`ExactValues`) rests on facts about remainders (`CutTwice`: cutting to 64 bits and then to the
register is one cut) and on `Hexadecimal`: a number that fits its digits fits the register. `NamesAreExact`
(`ExactNames`) follows the loop of `parse_index`: after each digit the wrapped number and the true one agree modulo
`2^IntBits`, and are equal while the true one is in range (`ParseRuns`, `NumberRuns`, `ParseFacts`); `NameResolved`
then goes through the kinds of name. Induction on the digits is by a least counterexample (`Induction`), and that the
loop has a value at all is shown by building the function (`Recursion`, `LoopExists`, `LoopUnique`). For that the
loops are recursive functions over the positions in the digits, as in the code, and `Power` replaces `2^n`, of which
the provers know only numerals. In `parse_subregister_name` the cases are an IF and a CASE with disjoint guards: a
CASE whose guards overlap has no definite value, though TLC takes the first.

`CliProofs` (for every program, set of lines and meaning of their words). Until it crashes, the command line makes
only steps of `Process` (`ProcessStep`, and as a theorem `CliIsClient`), so `UserInv` holds on beneath it. What
`main_loop` adds is `Phases`: at the prompt nothing is under way and the process is STOPPED or gone; in a call no
error leaves it taken for RUNNING, since each error path comes after the wait that made it STOPPED; a call without an
error has just loaded the registers; a destructor is only entered with the process STOPPED. `PromptMeansStopped`,
`CleanRelease` and `HitsAreTrue` need `Phases` together with `Control`, `Ending` and `Memory` of the process;
`WroteMeansWritten` is inductive beside them because only a held process can be written to and it does not move
before the next command (`HeldKeeps`), and needs the parsers' two theorems (`NamedRegister`, `IntegerValue`,
`WrittenImage`). From `CliInvariance`: `CliTypeCorrect`, `PromptIsSafe`, `EndReleasesClean`, `ReportedHitsAreTrue`
and `WritesAreWritten`; `PromptNamesExact` and `PromptValuesExact` state the parsers' theorems of the prompt.

Every safety property of a passing run is thus a theorem. Only model-checked: liveness under fairness
(in `session` and `launch`), which with ENABLED is out of this prover's reach, and the seven runs of *Findings*, which
are counterexamples.

## Not modelled

- Watchpoints: no code sets one; their register set is only moved whole. Raw writes of debug registers by name.
- In the parsers: the splitting of a word into its parts, the spelling `-01`, the bits of a floating-point value
  (only that one is taken). In the command line: help, the layout of what is printed, the options of `main` (`Launch`
  has what they lead to).
- The tests and their targets: read for what they promise.
- What a traced process does besides executing, storing and exiting: exec, fork, threads. The code does not set the
  ptrace options for them.
- A program running between calls in `Registers`: loads follow every stop, and `Process` models that.
- A `Process` that is not attached, from `launch` with `debug = false` (`Launch` has the call): it is no tracee, every
  request fails, and the destructor only kills and reaps it. `Process` starts with an attached one.
- In `Launch`: a SIGSTOP to a child that is not traced (yet), which goes on at the next SIGCONT, and a `read` of the pipe
  that fails.
- A debugger that crashes: nothing is persistent and no code reacts to it.
- `prepare_step_for_instruction_at` and `rearm_after_explicit_step`: no caller reaches them.

## Plan

Done: all modules above, their runs and proofs. What could follow:

1. Register sets whose kinds differ in access (`fpsr` in the vector set, raw debug registers by name) in `Registers`.
2. Two traced processes under one debugger: the library can hold two `Process` objects, the command line never does.
