-------------------------------- MODULE Cli --------------------------------
(***************************************************************************)
(* The command line (tools/cbg.cpp) over cbg::Process: a loop that reads a *)
(* line, runs the command it names and prints how that ended.  A line is   *)
(* the sequence of its words; the constant functions say what a word means *)
(* where an address, an identifier, a register or a value is wanted, and a *)
(* word outside their domain is one the parser there refuses.              *)
(***************************************************************************)
EXTENDS Process, RegisterText

LOCAL INSTANCE SequencesExt

CONSTANTS
    Lines,      \* the lines the user types
    AddrOf,     \* AddrOf[word]: the address that parse_addr reads in it
    IdOf,       \* IdOf[word]: the identifier that std::stoi reads in it
    NameOf,     \* NameOf[word]: the parts of a register name
    TextOf      \* TextOf[word]: what kind of value it is

ASSUME LinesAssumption ==
    /\ <<>> \notin Lines
    /\ \A word \in DOMAIN AddrOf : AddrOf[word] \in UserAddrs
    /\ \A word \in DOMAIN NameOf : NameOf[word] \in Names
    /\ \A word \in DOMAIN TextOf : TextOf[word] \in Texts

VARIABLES
    phase,      \* where main_loop is
    history,    \* the last two lines of the history
    said        \* what the last command printed

cli     == <<phase, history, said>>
cliVars == <<vars, cli>>

Said(what) == [what |-> what, hits |-> {}, args |-> <<>>]

CliTypeOK ==
    /\ TypeOK
    /\ phase \in {"prompt", "resumed", "call", "ended", "crashed"}
    /\ history \in {<<>>} \cup {<<l>> : l \in Lines} \cup (Lines \X Lines)
    /\ said.what \in {"other", "error", "stopped", "exited", "wrote"}
    /\ said.hits \subseteq Id
    /\ said.args \in Lines \cup {<<>>}

CliInit ==
    /\ Init
    /\ phase = "prompt"
    /\ history = <<>>
    /\ said = Said("other")

-----------------------------------------------------------------------------
(* Which command a line is.                                                *)

is_prefix(str, of) == Len(str) <= Len(of) /\ SubSeq(of, 1, Len(str)) = str

\* The tests of handle_command in their order: the first that holds decides.
Tests == <<
    [word |-> "continue",    sub |-> "any",         does |-> "continue"],
    [word |-> "step",        sub |-> "any",         does |-> "step"],
    [word |-> "breakpoints", sub |-> "any",         does |-> "break"],
    [word |-> "delete",      sub |-> "any",         does |-> "delete"],
    [word |-> "info",        sub |-> "breakpoints", does |-> "print"],
    [word |-> "register",    sub |-> "any",         does |-> "register"],
    [word |-> "registers",   sub |-> "any",         does |-> "print"],
    [word |-> "info",        sub |-> "registers",   does |-> "print"],
    [word |-> "help",        sub |-> "any",         does |-> "print"] >>

Command ==
    [args \in Lines |->
        LET Holds(test) ==
                /\ is_prefix(args[1], test.word)
                /\ test.sub # "any" => Len(args) > 1 /\ is_prefix(args[2], test.sub)
            first == SelectInSeq(Tests, Holds)
        IN IF first = 0 THEN "print" ELSE Tests[first].does]

\* The operand of break and delete: the second word, or the third if any.
Operand(args) == args[IF Len(args) >= 3 THEN 3 ELSE 2]

HasOperand(args, meaning) == Len(args) >= 2 /\ Operand(args) \in DOMAIN meaning

\* The register each name stands for.
Handle == [word \in DOMAIN NameOf |-> resolve(NameOf[word])]

-----------------------------------------------------------------------------
(* The commands.                                                           *)

\* Usage, errors of the parsers, lists and help: the process is left alone.
Show(what) ==
    /\ said' = Said(what)
    /\ UNCHANGED <<vars, phase>>

\* An error thrown out of the handler is printed by main_loop.
Call(next) ==
    /\ phase' = IF result' = "error" THEN "prompt" ELSE next
    /\ said' = Said(IF result' = "error" THEN "error" ELSE "other")

\* Seeded fault: the prompt comes back while the process runs.
Continue_NoWait == Resume /\ Call("prompt")

Continue == Resume /\ Call("resumed")

Step == StepInstruction /\ Call("call")

handle_break_command(args) ==
    \/ /\ ~HasOperand(args, AddrOf)
       /\ Show("error")
    \/ /\ HasOperand(args, AddrOf)
       /\ AddBreakpoint(AddrOf[Operand(args)])
       /\ Call("prompt")

handle_delete_command(args) ==
    \/ /\ ~(HasOperand(args, IdOf) /\ IdOf[Operand(args)] \in Id)
       /\ Show("error")
    \/ /\ HasOperand(args, IdOf) /\ IdOf[Operand(args)] \in Id
       /\ RemoveBreakpointId(IdOf[Operand(args)])
       /\ Call("prompt")

\* Seeded fault: the two descriptors are swapped.
Image_Swapped(h, number) ==
    CASE h.kind = "pc"                   -> [cache EXCEPT !.reg = number]
      [] h.kind \in {"x", "w"} /\ h.n = 0 -> [cache EXCEPT !.pc = number]
      [] OTHER                           -> cache

\* The image after Registers::write.  Of all the registers Process has the pc
\* and x0; a write to w0 leaves zeros above it.
Image(h, number) ==
    CASE h.kind = "pc"                   -> [cache EXCEPT !.pc = number]
      [] h.kind \in {"x", "w"} /\ h.n = 0 -> [cache EXCEPT !.reg = number]
      [] OTHER                           -> cache

\* Seeded fault: the value is cut to the size of the whole register.
Value_FullSize(args) ==
    parse_register_value(TextOf[args[4]], IsFloat(Handle[args[3]]), 2 * W)

Value(args) ==
    LET h == Handle[args[3]]
    IN parse_register_value(TextOf[args[4]], IsFloat(h), BitSize(h))

Writes(args) ==
    /\ Len(args) >= 4 /\ args[3] \in DOMAIN NameOf /\ args[4] \in DOMAIN TextOf
    /\ Handle[args[3]] # NoHandle
    /\ Value(args) # NoValue

\* The data of the model has room for what the lines write to pc and x0.
ASSUME WritesAssumption ==
    \A args \in Lines :
        Writes(args) =>
            LET h == Handle[args[3]]
            IN /\ h.kind = "pc" => Value(args).number \in Code
               /\ h.kind \in {"x", "w"} /\ h.n = 0 => Value(args).number \in Val

handle_register_write(args) ==
    \/ /\ ~Writes(args)
       /\ Show("error")
    \/ /\ Writes(args)
       /\ WriteRegister(Image(Handle[args[3]], Value(args).number))
       /\ phase' = "prompt"
       /\ said' = IF result' = "error" THEN Said("error")
                  ELSE [Said("wrote") EXCEPT !.args = args]

IsWrite(args) ==
    Len(args) >= 2 /\ ~is_prefix(args[2], "read") /\ is_prefix(args[2], "write")

\* A read, a usage and an unknown subcommand only print.
handle_register_command(args) ==
    \/ ~IsWrite(args) /\ Show("other")
    \/ IsWrite(args) /\ handle_register_write(args)

handle_command(args) ==
    \/ Command[args] = "continue" /\ Continue
    \/ Command[args] = "step"     /\ Step
    \/ Command[args] = "break"    /\ handle_break_command(args)
    \/ Command[args] = "delete"   /\ handle_delete_command(args)
    \/ Command[args] = "register" /\ handle_register_command(args)
    \/ Command[args] = "print"    /\ Show("other")

-----------------------------------------------------------------------------
(* main_loop.                                                              *)

Keep(line) == IF history = <<>> THEN <<line>> ELSE <<history[Len(history)], line>>

TypeLine(line) ==
    /\ phase = "prompt"
    /\ history' = Keep(line)
    /\ handle_command(line)

\* history_get counts from 1, so history_length - 1 is the line before the
\* last one.
EmptyLine ==
    /\ phase = "prompt"
    /\ Len(history) = 2
    /\ history' = history
    /\ handle_command(history[1])

\* There is no entry 0: a null pointer is dereferenced.  The kernel lets the
\* processes of a tracer that has died run on.
EmptyLineCrashes ==
    /\ phase = "prompt"
    /\ Len(history) = 1
    /\ phase' = "crashed"
    /\ life' = IF Traced THEN "free" ELSE life
    /\ UNCHANGED <<event, pending, image, debugger, history, said>>

StartWaiting ==
    /\ phase = "resumed"
    /\ WaitOnSignal
    /\ phase' = "call"
    /\ UNCHANGED <<history, said>>

InsideCall ==
    /\ phase \in {"call", "ended"}
    /\ Proceed
    /\ UNCHANGED cli

\* Seeded fault: the pc behind the BRK is looked up, as on x86.
Hits_PcBehind == {i \in Id : ids[i] + 1 = cache.pc}

\* print_breakpoint_hit_if_any: the pc is the one last loaded.
Hits == {i \in Id : ids[i] = cache.pc}

\* An error skips the report.
Report ==
    /\ phase = "call" /\ ctl = "idle"
    /\ phase' = "prompt"
    /\ said' = IF result = "error" THEN Said("error")
               ELSE [Said(IF result = "exited" THEN "exited" ELSE "stopped")
                        EXCEPT !.hits = Hits]
    /\ UNCHANGED <<vars, history>>

\* The end of input ends main, whose unique_ptr destroys the process.
EndOfInput ==
    /\ phase = "prompt"
    /\ Destroy
    /\ phase' = "ended"
    /\ UNCHANGED <<history, said>>

Ended == (phase = "crashed" \/ ctl = "gone") /\ UNCHANGED cliVars

CliNext ==
    \/ \E line \in Lines : TypeLine(line)
    \/ EmptyLine \/ EmptyLineCrashes
    \/ StartWaiting \/ InsideCall \/ Report
    \/ EndOfInput
    \/ Environment /\ UNCHANGED cli
    \/ Ended

CliSpec == CliInit /\ [][CliNext]_cliVars

-----------------------------------------------------------------------------
(* Properties.                                                             *)

\* The user never has the prompt while the process runs or is thought to run:
\* no error thrown half way through a continue or a step leaves it so.
\* (handle_command, main_loop)
PromptMeansStopped ==
    phase = "prompt" =>
        /\ ctl = "idle"
        /\ life \notin {"running", "stepping"}
        /\ pid # 0 => state = "STOPPED"

\* Whatever was typed before it, the end of input releases an attached process
\* without a trap in its code: the destructor's blind spot, a process found
\* RUNNING, is out of the command line's reach.
CleanRelease ==
    Separated /\ phase = "ended" /\ life = "free" => \A c \in Cell : mem[c] = "insn"

\* A stop is reported as the hit of a breakpoint if and only if the process
\* itself stands at one, and the number is that breakpoint's.  After an exit
\* the code compares with the pc of the last stop and may report one too.
\* (print_breakpoint_hit_if_any)
HitsAreTrue ==
    [][said'.what = "stopped" /\ phase = "call" /\ phase' = "prompt" =>
        /\ said'.hits = {i \in Id : ids[i] = pc}
        /\ said'.hits = {} <=> pc \notin sites]_cliVars

\* After "Wrote" the process has the value in that register, as many of its
\* low bits as the register or the part of one has; a number of more than 64
\* bits is left out.  (handle_register_write)
WroteMeansWritten ==
    phase = "prompt" /\ said.what = "wrote" =>
        LET name == NameOf[said.args[3]]
            text == TextOf[said.args[4]]
            n    == Denoted(text)
        IN text.number <= ullong_max =>
               /\ name.head = "w" /\ name.index = <<0>> => reg = n % Power[W]
               /\ name.head = "x" /\ name.index = <<0>> => reg = n % Power[2 * W]
               /\ name.head = "pc" => pc = n % Power[2 * W]

\* At the prompt every name of Names means the register it spells, or none;
\* RegisterText says what an overflowing number is.
\* (parse_subregister_name, Registers::resolve)
NamesExact == phase = "prompt" => ExactNames

\* At the prompt every value of Texts means the number it says, or is refused;
\* RegisterText says which two kinds mean another.
\* (Registers::parse_register_value)
ValuesExact == phase = "prompt" => ExactValues
=============================================================================
