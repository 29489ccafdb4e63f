----------------------------- MODULE CliProofs -----------------------------
(***************************************************************************)
(* Proofs about module Cli: for every program, every set of lines and      *)
(* every meaning of their words.  Until it crashes the command line makes  *)
(* only steps of Process, so the invariant of ProgramProofs holds on       *)
(* beneath it; what main_loop adds is where each of its phases can be.     *)
(***************************************************************************)
EXTENDS Cli, ProgramProofs, RegisterTextProofs

\* What each place in main_loop knows of the process.
Phases ==
    /\ phase = "prompt" => ctl = "idle" /\ (pid = 0 \/ state = "STOPPED")
    /\ phase = "resumed" => ctl = "idle" /\ pid # 0 /\ state = "RUNNING"
    /\ phase = "call" =>
          /\ ctl \notin Dtor
          /\ ctl \in {"idle", "sload", "sstep"} => pid = 0 \/ state = "STOPPED"
          /\ ctl = "idle" /\ result = "ok" => cache = Live
    /\ phase = "ended" => ctl \in Dtor /\ (pid = 0 \/ state = "STOPPED")

\* What the command line keeps itself.
LoopTypeOK ==
    /\ phase \in {"prompt", "resumed", "call", "ended", "crashed"}
    /\ history \in {<<>>} \cup {<<l>> : l \in Lines} \cup (Lines \X Lines)
    /\ said.what \in {"other", "error", "stopped", "exited", "wrote"}
    /\ said.hits \subseteq Id
    /\ said.args \in Lines \cup {<<>>}

CliInv ==
    /\ LoopTypeOK /\ TypeOK /\ Locals
    /\ phase # "crashed" => UserInv
    /\ Phases
    /\ WroteMeansWritten

-----------------------------------------------------------------------------
(* The process beneath the command line.                                   *)

LEMMA UserInvStep == UserInv /\ [Next]_vars => UserInv'
BY NextIInv, AwaitedStep, CachedStep, EndingStep DEF UserInv, IInv

\* Whatever is written is an edit of one register.
LEMMA ImageIsEdit ==
    ASSUME TypeOK, NEW args \in Lines, Writes(args)
    PROVE  Image(Handle[args[3]], Value(args).number) \in Edits
<1> DEFINE h == Handle[args[3]]
           v == Value(args).number
<1> SUFFICES Image(h, v) \in Edits
  OBVIOUS
<1>1. cache \in Registers
  BY DEF TypeOK
<1>2. /\ h.kind = "pc" => v \in Code
      /\ h.kind \in {"x", "w"} /\ h.n = 0 => v \in Val
  BY WritesAssumption
<1> HIDE DEF h, v
<1>3. /\ \A a \in Code : [cache EXCEPT !.pc = a] \in Edits
      /\ \A a \in Val : [cache EXCEPT !.reg = a] \in Edits
  BY DEF Edits
<1>4. CASE h.kind = "pc"
  <2>1. Image(h, v) = [cache EXCEPT !.pc = v]
    BY <1>4 DEF Image
  <2> QED
    BY <1>2, <1>3, <1>4, <2>1
<1>5. CASE h.kind \in {"x", "w"} /\ h.n = 0
  <2>1. Image(h, v) = [cache EXCEPT !.reg = v]
    BY <1>5 DEF Image
  <2> QED
    BY <1>2, <1>3, <1>5, <2>1
<1>6. CASE h.kind # "pc" /\ ~(h.kind \in {"x", "w"} /\ h.n = 0)
  <2>1. Image(h, v) = cache
    BY <1>6 DEF Image
  <2>2. cache = [cache EXCEPT !.pc = cache.pc] /\ cache.pc \in Code
    BY <1>1 DEF Registers
  <2> QED
    BY <1>3, <2>1, <2>2
<1> QED
  BY <1>4, <1>5, <1>6

\* A command is a call of the client, or leaves the process alone.
LEMMA CommandIsCall ==
    ASSUME TypeOK, NEW args \in Lines, handle_command(args)
    PROVE  [Next]_vars
<1>1. CASE Continue \/ Step
  BY <1>1 DEF Continue, Step, Next, ClientCall
<1>2. CASE handle_break_command(args)
  <2>1. CASE Show("error")
    BY <2>1 DEF Show
  <2>2. CASE HasOperand(args, AddrOf) /\ AddBreakpoint(AddrOf[Operand(args)])
    <3>1. AddrOf[Operand(args)] \in UserAddrs
      BY <2>2, LinesAssumption DEF HasOperand
    <3> QED
      BY <2>2, <3>1 DEF Next, ClientCall
  <2> QED
    BY <1>2, <2>1, <2>2 DEF handle_break_command
<1>3. CASE handle_delete_command(args)
  <2>1. CASE Show("error")
    BY <2>1 DEF Show
  <2>2. CASE IdOf[Operand(args)] \in Id /\ RemoveBreakpointId(IdOf[Operand(args)])
    BY <2>2 DEF Next, ClientCall
  <2> QED
    BY <1>3, <2>1, <2>2 DEF handle_delete_command
<1>4. CASE handle_register_command(args)
  <2>1. CASE Show("other") \/ Show("error")
    BY <2>1 DEF Show
  <2>2. CASE Writes(args) /\ WriteRegister(Image(Handle[args[3]], Value(args).number))
    BY <2>2, ImageIsEdit DEF Next, ClientCall
  <2> QED
    BY <1>4, <2>1, <2>2 DEF handle_register_command, handle_register_write
<1>5. CASE Show("other")
  BY <1>5 DEF Show
<1> QED
  BY <1>1, <1>2, <1>3, <1>4, <1>5 DEF handle_command

\* The line that is run is one of Lines, also when it comes from the history.
LEMMA LineTyped ==
    ASSUME LoopTypeOK, (\E line \in Lines : TypeLine(line)) \/ EmptyLine
    PROVE  /\ phase = "prompt"
           /\ \E args \in Lines : handle_command(args)
           /\ history' \in {<<>>} \cup {<<l>> : l \in Lines} \cup (Lines \X Lines)
<1>1. ASSUME NEW line \in Lines, TypeLine(line)
      PROVE  history' \in {<<l>> : l \in Lines} \cup (Lines \X Lines)
  <2>1. history' = Keep(line)
    BY <1>1 DEF TypeLine
  <2>2. CASE history = <<>>
    BY <2>1, <2>2 DEF Keep
  <2>3. CASE history \in {<<l>> : l \in Lines}
    BY <2>1, <2>3 DEF Keep
  <2>4. CASE history \in Lines \X Lines
    BY <2>1, <2>4 DEF Keep
  <2> QED
    BY <2>2, <2>3, <2>4 DEF LoopTypeOK
<1>2. CASE EmptyLine
  <2>1. history # <<>> /\ \A l \in Lines : history # <<l>>
    BY <1>2 DEF EmptyLine
  <2>2. history \in Lines \X Lines
    BY <2>1 DEF LoopTypeOK
  <2> QED
    BY <1>2, <2>2 DEF EmptyLine
<1> QED
  BY <1>1, <1>2 DEF TypeLine

\* Until it crashes the command line makes only steps of Process.
LEMMA ProcessStep ==
    ASSUME TypeOK, LoopTypeOK, [CliNext]_cliVars
    PROVE  [Next]_vars \/ EmptyLineCrashes
<1>1. CASE (\E line \in Lines : TypeLine(line)) \/ EmptyLine
  BY <1>1, LineTyped, CommandIsCall
<1>2. CASE StartWaiting \/ InsideCall \/ EndOfInput
  BY <1>2 DEF StartWaiting, InsideCall, EndOfInput, Next, ClientCall
<1>3. CASE Report \/ Ended \/ UNCHANGED cliVars
  BY <1>3 DEF Report, Ended, cliVars
<1>4. CASE Environment
  BY <1>4 DEF Next
<1> QED
  BY <1>1, <1>2, <1>3, <1>4 DEF CliNext

-----------------------------------------------------------------------------
(* Where main_loop can be.                                                 *)

\* A command leaves the prompt only for a process that it has resumed or is
\* about to step.
LEMMA CommandPhases ==
    ASSUME Phases, phase = "prompt", NEW args \in Lines, handle_command(args)
    PROVE  Phases'
<1>1. ctl = "idle" /\ (pid = 0 \/ state = "STOPPED")
  BY DEF Phases
<1>2. ASSUME NEW what, Show(what)  PROVE Phases'
  BY <1>1, <1>2 DEF Show, vars, debugger, call, Phases
<1>3. CASE Continue
  BY <1>1, <1>3 DEF Continue, Resume, Call, call, Phases
<1>4. CASE Step
  <2>1. /\ pid' = pid /\ state' = state
        /\ \/ ctl' = "sload" /\ phase' = "call"
           \/ ctl' = "idle" /\ phase' = "prompt"
    BY <1>4 DEF Step, StepInstruction, Call
  <2> QED
    BY <1>1, <2>1 DEF Phases, Dtor
<1>5. CASE handle_break_command(args)
  <2>1. ASSUME NEW a, AddBreakpoint(a), Call("prompt")  PROVE Phases'
    BY <1>1, <2>1 DEF AddBreakpoint, Call, call, Phases
  <2> QED
    BY <1>2, <1>5, <2>1 DEF handle_break_command
<1>6. CASE handle_delete_command(args)
  <2>1. ASSUME NEW i, RemoveBreakpointId(i), Call("prompt")  PROVE Phases'
    BY <1>1, <2>1 DEF RemoveBreakpointId, Call, call, Phases
  <2> QED
    BY <1>2, <1>6, <2>1 DEF handle_delete_command
<1>7. CASE handle_register_command(args)
  <2>1. ASSUME NEW new, WriteRegister(new), phase' = "prompt"  PROVE Phases'
    BY <1>1, <2>1 DEF WriteRegister, call, Phases
  <2> QED
    BY <1>2, <1>7, <2>1 DEF handle_register_command, handle_register_write
<1> QED
  BY <1>2, <1>3, <1>4, <1>5, <1>6, <1>7 DEF handle_command

\* A call comes back with the process stopped or gone, and without an error
\* only with its registers just loaded.
LEMMA InsidePhases ==
    ASSUME UserInv, Phases, InsideCall
    PROVE  Phases'
<1>1. phase \in {"call", "ended"} /\ phase' = phase
  BY DEF InsideCall, cli
<1>2. /\ cache \in Registers
      /\ ctl \in {"load"} \cup StepOver => state = "STOPPED"
      /\ ctl = "srearm" => pid = 0 \/ state = "STOPPED"
  BY DEF UserInv, IInv, TypeOK, Awaited
<1>3. CASE phase = "call"
  <2>1. /\ ctl \notin Dtor
        /\ ctl \in {"idle", "sload", "sstep"} => pid = 0 \/ state = "STOPPED"
    BY <1>3 DEF Phases
  <2> SUFFICES /\ ctl' \notin Dtor
               /\ ctl' \in {"idle", "sload", "sstep"} => pid' = 0 \/ state' = "STOPPED"
               /\ ctl' = "idle" /\ result' = "ok" => cache' = Live'
    BY <1>1, <1>3 DEF Phases
  <2> USE <1>2, <2>1 DEF Dtor, StepOver
  <2>2. CASE WaitExit
    BY <2>2 DEF WaitExit, Return
  <2>3. CASE WaitStop
    BY <2>3 DEF WaitStop
  <2>4. CASE LoadRegisters
    BY <2>4 DEF LoadRegisters, Load, Live, Return, Throw
  <2>5. CASE InnerStep
    BY <2>5 DEF InnerStep, Throw
  <2>6. CASE InnerWait
    BY <2>6 DEF InnerWait
  <2>7. CASE InnerRearm
    BY <2>7 DEF InnerRearm, RearmFails, Throw
  <2>8. CASE ReloadRegisters
    BY <2>8 DEF ReloadRegisters, Load, Live, Return, Throw, traceeVars, image
  <2>9. CASE StepLoad
    BY <2>9 DEF StepLoad, Throw
  <2>10. CASE StepRequest
    BY <2>10 DEF StepRequest, Throw
  <2>11. CASE StepRearm
    <3>1. ASSUME RearmAndRewind(outer)  PROVE cache' = Live'
      BY <3>1 DEF RearmAndRewind, Save, Live, Registers
    <3> QED
      BY <2>11, <3>1 DEF StepRearm, RearmFails, Throw
  <2>12. ~ \/ \E a \in sites : RestoreSite(a)
           \/ RestoreDone \/ SendStop \/ WaitForStop \/ Detach \/ KillAndWait
    BY DEF RestoreSite, RestoreDone, SendStop, WaitForStop, Detach, KillAndWait
  <2> QED
    BY <2>2, <2>3, <2>4, <2>5, <2>6, <2>7, <2>8, <2>9, <2>10, <2>11, <2>12
       DEF InsideCall, Proceed
<1>4. CASE phase = "ended"
  <2>1. ctl \in Dtor /\ (pid = 0 \/ state = "STOPPED")
    BY <1>4 DEF Phases
  <2> SUFFICES ctl' \in Dtor /\ pid' = pid /\ state' = state
    BY <1>1, <1>4, <2>1 DEF Phases
  <2>2. \/ \E a \in sites : RestoreSite(a)
        \/ RestoreDone \/ SendStop \/ WaitForStop \/ Detach \/ KillAndWait
    BY <2>1 DEF InsideCall, Proceed, Dtor, WaitExit, WaitStop, LoadRegisters, InnerStep,
       InnerWait, InnerRearm, ReloadRegisters, StepLoad, StepRequest, StepRearm
  <2>3. ASSUME NEW a \in sites, RestoreSite(a)
        PROVE  ctl' \in Dtor /\ pid' = pid /\ state' = state
    BY <2>1, <2>3 DEF RestoreSite, call
  <2> QED
    BY <2>2, <2>3
       DEF Dtor, RestoreDone, SendStop, WaitForStop, Detach, KillAndWait
<1> QED
  BY <1>1, <1>3, <1>4

\* A process that is held keeps its registers whatever goes on around it.
LEMMA HeldKeeps ==
    ASSUME UserInv, ctl = "idle", pid = 0 \/ state = "STOPPED", Environment
    PROVE  pc' = pc /\ reg' = reg
<1>1. Held /\ life # "free"
  BY DEF UserInv, IInv, Control, Held
<1> QED
  BY <1>1 DEF Held, Environment, Execute, PostInt, Killed, RunFree, Deliver, image

\* Nor does it change what main_loop may count on.
LEMMA EnvironmentPhases ==
    ASSUME UserInv, Phases, Environment, UNCHANGED cli
    PROVE  Phases'
<1>1. /\ ctl' = ctl /\ pid' = pid /\ state' = state /\ result' = result /\ cache' = cache
      /\ phase' = phase
  BY DEF Environment, debugger, call, cli
<1>2. ASSUME phase = "call", ctl = "idle", result = "ok"  PROVE cache' = Live'
  BY <1>1, <1>2, HeldKeeps DEF Phases, Live
<1> QED
  BY <1>1, <1>2 DEF Phases

-----------------------------------------------------------------------------
(* What is written.                                                        *)

\* The lines name w0, x0 and pc as RegisterText promises, and their values.
LEMMA NamedRegister ==
    ASSUME NEW name \in Names, NEW h, h = resolve(name), h # NoHandle
    PROVE  /\ name.head = "w" /\ name.index = <<0>> => h.kind = "w" /\ h.n = 0
           /\ name.head = "x" /\ name.index = <<0>> => h.kind = "x" /\ h.n = 0
           /\ name.head = "pc" => h.kind = "pc"
<1>1. /\ h \in Views \cup Parts /\ name.head = Spelling(h).head
      /\ h.n >= 0 => Means(name.index, h.n)
  BY NameResolved
<1>2. Number(<<0>>) = 0
  BY DecimalFacts DEF Decimal
<1>3. name.head \in {"w", "x", "pc"} => h.kind = name.head
  BY <1>1, ViewFacts, PartFacts, SpellingFacts
<1>4. h.kind \in {"w", "x"} => h.n \in 0 .. 31
  <2>1. h \in Views /\ h.kind = "x" => h.n \in 0 .. 31
    BY DEF Views
  <2> QED
    BY <1>1, <2>1, ViewFacts, PartFacts
<1>5. h.kind \in {"w", "x"} /\ name.index = <<0>> => h.n = 0
  <2> HAVE h.kind \in {"w", "x"} /\ name.index = <<0>>
  <2>1. PICK n \in 0 .. 31 : n = h.n
    BY <1>4
  <2>2. Full \in Nat /\ Full >= 32 /\ 0 % Full = 0
    BY IntFacts
  <2>3. Means(name.index, n)
    BY <1>1, <2>1
  <2> QED
    BY <1>2, <2>1, <2>2, <2>3 DEF Means
<1> QED
  BY <1>3, <1>5

\* An integer register takes the number that was typed, modulo its size.
LEMMA IntegerValue ==
    ASSUME NEW text \in Texts, NEW size \in {W, 2 * W}, text.number <= ullong_max,
           parse_register_value(text, FALSE, size) # NoValue
    PROVE  parse_register_value(text, FALSE, size).number = Denoted(text) % Power[size]
<1>1. size \in {W, 2 * W, 4 * W} /\ size <= 2 * W
  BY WAssumption
<1> QED
  BY <1>1, ValuesAreExact DEF ExactValues

LEMMA WrittenImage ==
    ASSUME NEW args \in Lines, Writes(args), TextOf[args[4]].number <= ullong_max,
           NEW name, name = NameOf[args[3]], NEW n, n = Denoted(TextOf[args[4]]),
           NEW new, new = Image(Handle[args[3]], Value(args).number), TypeOK
    PROVE  /\ name.head = "w" /\ name.index = <<0>> => new.reg = n % Power[W]
           /\ name.head = "x" /\ name.index = <<0>> => new.reg = n % Power[2 * W]
           /\ name.head = "pc" => new.pc = n % Power[2 * W]
<1> DEFINE h == Handle[args[3]]
           text == TextOf[args[4]]
           v == Value(args)
<1>1. name \in Names /\ text \in Texts /\ h = resolve(name)
  BY LinesAssumption DEF Writes, Handle
<1>2. h # NoHandle /\ v # NoValue /\ v = parse_register_value(text, IsFloat(h), BitSize(h))
  BY DEF Writes, Value
<1>3. new = Image(h, v.number)
  OBVIOUS
<1>4. cache \in [pc : Code, reg : Val]
  BY DEF TypeOK, Registers
<1> HIDE DEF h, text, v
<1>5. \A i : /\ h.kind = "pc" => Image(h, i).pc = i
             /\ h.kind \in {"x", "w"} /\ h.n = 0 => Image(h, i).reg = i
  BY <1>4 DEF Image
<1>6. /\ name.head = "w" /\ name.index = <<0>> => h.kind = "w" /\ h.n = 0
      /\ name.head = "x" /\ name.index = <<0>> => h.kind = "x" /\ h.n = 0
      /\ name.head = "pc" => h.kind = "pc"
  BY <1>1, <1>2, NamedRegister
<1>7. ASSUME NEW size \in {W, 2 * W}, ~IsFloat(h), BitSize(h) = size
      PROVE  v.number = n % Power[size]
  <2>1. v = parse_register_value(text, FALSE, size)
    <3>1. IsFloat(h) = FALSE
      BY <1>7 DEF IsFloat
    <3> QED
      BY <1>2, <1>7, <3>1
  <2> QED
    BY <1>1, <1>2, <2>1, IntegerValue DEF text
<1>8. CASE h.kind = "w"
  <2>1. ~IsFloat(h) /\ BitSize(h) = W
    BY <1>8 DEF IsFloat, BitSize, make_wn
  <2>2. v.number = n % Power[W]
    BY <1>7, <2>1
  <2> QED
    BY <1>3, <1>5, <1>6, <1>8, <2>2
<1>9. CASE h.kind \in {"x", "pc"}
  <2>1. ~IsFloat(h) /\ BitSize(h) = 2 * W
    BY <1>9 DEF IsFloat, BitSize
  <2>2. v.number = n % Power[2 * W]
    BY <1>7, <2>1
  <2> QED
    BY <1>3, <1>5, <1>6, <1>9, <2>2
<1> QED
  BY <1>6, <1>8, <1>9

\* What a command says is true when it says "Wrote".
LEMMA CommandWrites ==
    ASSUME TypeOK, NEW args \in Lines, handle_command(args)
    PROVE  WroteMeansWritten'
<1>1. CASE said'.what # "wrote"
  BY <1>1 DEF WroteMeansWritten
<1>2. CASE said'.what = "wrote"
  <2>1. Writes(args) /\ handle_register_write(args) /\ result' # "error"
        /\ said' = [Said("wrote") EXCEPT !.args = args]
    <3>1. \A what : Said(what).what = what
      BY DEF Said
    <3>2. \A what : what # "wrote" => ~Show(what)
      BY <1>2, <3>1 DEF Show
    <3>3. \A next : ~Call(next)
      BY <1>2, <3>1 DEF Call
    <3>4. handle_register_write(args)
      BY <3>2, <3>3 DEF handle_command, Continue, Step, handle_break_command,
         handle_delete_command, handle_register_command
    <3> QED
      BY <1>2, <3>1, <3>2, <3>4 DEF handle_register_write
  <2>2. said'.args = args
    BY <2>1 DEF Said
  <2> DEFINE new == Image(Handle[args[3]], Value(args).number)
             name == NameOf[args[3]]
             text == TextOf[args[4]]
             n == Denoted(text)
  <2>3. WriteRegister(new)
    BY <1>2, <2>1 DEF handle_register_write, Show, Said
  <2>4. pc' = new.pc /\ reg' = new.reg
    BY <2>1, <2>3 DEF WriteRegister, Save
  <2>5. ASSUME text.number <= ullong_max
        PROVE  /\ name.head = "w" /\ name.index = <<0>> => reg' = n % Power[W]
               /\ name.head = "x" /\ name.index = <<0>> => reg' = n % Power[2 * W]
               /\ name.head = "pc" => pc' = n % Power[2 * W]
    BY <2>1, <2>4, <2>5, WrittenImage
  <2> QED
    BY <2>2, <2>5 DEF WroteMeansWritten
<1> QED
  BY <1>1, <1>2

\* The command line keeps its own variables in their types.
LEMMA CommandTypes ==
    ASSUME LoopTypeOK, NEW args \in Lines, handle_command(args)
    PROVE  /\ phase' \in {"prompt", "resumed", "call"} \/ phase' = phase
           /\ said'.what \in {"other", "error", "wrote"}
           /\ said'.hits \subseteq Id
           /\ said'.args \in Lines \cup {<<>>}
<1>1. ASSUME NEW what \in {"other", "error"}, Show(what)
      PROVE  phase' = phase /\ said' = Said(what)
  BY <1>1 DEF Show
<1>2. ASSUME NEW next \in {"prompt", "resumed", "call"}, Call(next)
      PROVE  /\ phase' \in {"prompt", "resumed", "call"}
             /\ said' \in {Said("error"), Said("other")}
  BY <1>2 DEF Call
<1>3. CASE handle_register_write(args)
  <2>1. CASE Show("error")
    BY <1>1, <2>1 DEF Said
  <2>2. CASE phase' = "prompt" /\ (said' = Said("error")
                                   \/ said' = [Said("wrote") EXCEPT !.args = args])
    BY <2>2 DEF Said
  <2> QED
    BY <1>3, <2>1, <2>2 DEF handle_register_write
<1>4. CASE ~handle_register_write(args)
  <2>1. \/ \E what \in {"other", "error"} : Show(what)
        \/ \E next \in {"prompt", "resumed", "call"} : Call(next)
    BY <1>4 DEF handle_command, Continue, Step, handle_break_command,
       handle_delete_command, handle_register_command
  <2>2. /\ phase' \in {"prompt", "resumed", "call"} \/ phase' = phase
        /\ said' \in {Said("error"), Said("other")}
    BY <1>1, <1>2, <2>1
  <2> QED
    BY <2>2 DEF Said
<1> QED
  BY <1>3, <1>4

-----------------------------------------------------------------------------
(* The invariant.                                                          *)

LEMMA InitCliInv == CliInit => CliInv
<1> SUFFICES ASSUME CliInit  PROVE CliInv
  OBVIOUS
<1>1. UserInv
  <2>1. IInv
    BY InitIInv DEF CliInit
  <2>2. Awaited /\ Cached /\ Ending
    BY DEF CliInit, Init, TraceeInit, BreakpointsInit, Awaited, Answer, Cached, Ending,
       Live, StepOver
  <2> QED
    BY <2>1, <2>2 DEF UserInv
<1>2. LoopTypeOK /\ Phases /\ WroteMeansWritten
  BY DEF CliInit, Init, Said, LoopTypeOK, Phases, WroteMeansWritten
<1> QED
  BY <1>1, <1>2 DEF CliInv, UserInv, IInv

LEMMA NextCliInv == CliInv /\ [CliNext]_cliVars => CliInv'
<1> SUFFICES ASSUME CliInv, [CliNext]_cliVars  PROVE CliInv'
  OBVIOUS
<1>1. LoopTypeOK /\ TypeOK /\ Locals /\ Phases /\ WroteMeansWritten
  BY DEF CliInv
<1>2. CASE phase = "crashed"
  <2>1. (Environment /\ UNCHANGED cli) \/ UNCHANGED cliVars
    BY <1>2, LineTyped, <1>1 DEF CliNext, StartWaiting, InsideCall, Report, EndOfInput,
       EmptyLineCrashes, Ended
  <2>2. UNCHANGED cli /\ UNCHANGED debugger
    BY <2>1 DEF Environment, cliVars, vars
  <2>3. TypeOK'
    BY <1>1, <2>1, TypeStep DEF Next, cliVars
  <2>4. Locals'
    BY <1>1, <2>2 DEF Locals, debugger, table, call
  <2>5. LoopTypeOK' /\ phase' = "crashed"
    BY <1>1, <1>2, <2>2 DEF LoopTypeOK, cli
  <2> QED
    BY <2>3, <2>4, <2>5 DEF CliInv, Phases, WroteMeansWritten
<1>3. CASE phase # "crashed" /\ EmptyLineCrashes
  <2>1. UNCHANGED <<event, pending, image, debugger, history, said>>
        /\ phase' = "crashed" /\ (life' = "free" \/ life' = life)
    BY <1>3 DEF EmptyLineCrashes
  <2>2. TypeOK'
    BY <1>1, <2>1 DEF TypeOK, TraceeTypeOK, BreakpointsTypeOK, debugger, table, call,
       image
  <2>3. Locals'
    BY <1>1, <2>1 DEF Locals, debugger, table, call
  <2>4. LoopTypeOK'
    BY <1>1, <2>1 DEF LoopTypeOK
  <2> QED
    BY <2>1, <2>2, <2>3, <2>4 DEF CliInv, Phases, WroteMeansWritten
<1>4. CASE phase # "crashed" /\ ~EmptyLineCrashes
  <2>1. UserInv /\ [Next]_vars
    BY <1>1, <1>4, ProcessStep DEF CliInv
  <2>2. UserInv'
    BY <2>1, UserInvStep
  <2> SUFFICES LoopTypeOK' /\ Phases' /\ WroteMeansWritten'
    BY <2>2 DEF CliInv, UserInv, IInv
  <2>3. CASE (\E line \in Lines : TypeLine(line)) \/ EmptyLine
    <3>1. PICK args \in Lines : handle_command(args)
      BY <1>1, <2>3, LineTyped
    <3>2. phase = "prompt"
      BY <1>1, <2>3, LineTyped
    <3>3. LoopTypeOK'
      BY <1>1, <2>3, <3>1, LineTyped, CommandTypes DEF LoopTypeOK
    <3> QED
      BY <1>1, <3>1, <3>2, <3>3, CommandPhases, CommandWrites
  <2>4. CASE StartWaiting
    BY <1>1, <2>4 DEF StartWaiting, WaitOnSignal, LoopTypeOK, Phases, Dtor,
       WroteMeansWritten
  <2>5. CASE InsideCall
    <3>1. LoopTypeOK' /\ phase' # "prompt"
      BY <1>1, <2>5 DEF InsideCall, cli, LoopTypeOK
    <3> QED
      BY <1>1, <2>1, <2>5, <3>1, InsidePhases DEF WroteMeansWritten
  <2>6. CASE Report
    <3>1. /\ phase' = "prompt" /\ history' = history
          /\ said'.what \in {"error", "exited", "stopped"}
          /\ said'.hits \subseteq Id /\ said'.args = <<>>
      BY <2>6 DEF Report, Said, Hits
    <3>2. ctl' = "idle" /\ (pid' = 0 \/ state' = "STOPPED")
      BY <1>1, <2>6 DEF Report, Phases, vars, debugger, call
    <3> QED
      BY <1>1, <3>1, <3>2 DEF LoopTypeOK, Phases, WroteMeansWritten
  <2>7. CASE EndOfInput
    BY <1>1, <2>7 DEF EndOfInput, Destroy, LoopTypeOK, Phases, Dtor, WroteMeansWritten
  <2>8. CASE Environment /\ UNCHANGED cli
    <3>1. ASSUME phase = "prompt"  PROVE pc' = pc /\ reg' = reg
      BY <1>1, <2>1, <2>8, <3>1, HeldKeeps DEF Phases
    <3>2. LoopTypeOK' /\ phase' = phase /\ said' = said
      BY <1>1, <2>8 DEF cli, LoopTypeOK
    <3>3. WroteMeansWritten'
      BY <1>1, <3>1, <3>2 DEF WroteMeansWritten
    <3> QED
      BY <1>1, <2>1, <2>8, <3>2, <3>3, EnvironmentPhases
  <2>9. CASE Ended \/ UNCHANGED cliVars
    BY <1>1, <2>9 DEF Ended, cliVars, cli, vars, traceeVars, image, debugger, table, call,
       LoopTypeOK, Phases, Live, WroteMeansWritten
  <2> QED
    BY <1>4, <2>3, <2>4, <2>5, <2>6, <2>7, <2>8, <2>9 DEF CliNext
<1> QED
  BY <1>2, <1>3, <1>4

\* Whatever lines are typed, in whatever order, and whatever the process does
\* meanwhile, the invariant holds (main_loop, handle_command).
THEOREM CliInvariance == CliSpec => []CliInv
BY InitCliInv, NextCliInv, PTL DEF CliSpec

-----------------------------------------------------------------------------
(* What follows from it.                                                   *)

\* Every variable keeps its type: no line writes what no register holds, and
\* the history holds lines.
THEOREM CliTypeCorrect == CliSpec => []CliTypeOK
<1>1. CliInv => CliTypeOK
  BY DEF CliInv, LoopTypeOK, CliTypeOK
<1> QED
  BY <1>1, CliInvariance, PTL

\* The command line is a client of Process, one call at a time, until an empty
\* line after the first one crashes it (handle_command, main_loop).
THEOREM CliIsClient == CliSpec => [][phase' # "crashed" => [Next]_vars]_cliVars
<1>1. CliInv /\ [CliNext]_cliVars => [phase' # "crashed" => [Next]_vars]_cliVars
  BY ProcessStep DEF CliInv, EmptyLineCrashes
<1> QED
  BY <1>1, CliInvariance, PTL DEF CliSpec

\* The prompt never comes back while the process runs or is thought to run: no
\* error thrown half way through a call leaves it so (handle_command, main_loop).
THEOREM PromptIsSafe == CliSpec => []PromptMeansStopped
<1>1. CliInv => PromptMeansStopped
  BY DEF CliInv, Phases, UserInv, IInv, Control, Held, PromptMeansStopped
<1> QED
  BY <1>1, CliInvariance, PTL

\* The end of input releases an attached process without a trap in its code:
\* the destructor is never called on a process found RUNNING (main, ~Process).
THEOREM EndReleasesClean == CliSpec => []CleanRelease
<1>1. CliInv => CleanRelease
  <2> SUFFICES ASSUME CliInv, Separated, phase = "ended", life = "free", NEW c \in Cell
               PROVE  mem[c] = "insn"
    BY DEF CleanRelease
  <2>1. UserInv /\ (pid = 0 \/ state = "STOPPED")
    BY DEF CliInv, Phases
  <2>2. Clean /\ sites = {}
    BY <2>1 DEF UserInv, IInv, Memory, Control
  <2> QED
    BY <2>2 DEF Clean
<1> QED
  BY <1>1, CliInvariance, PTL

\* A stop is reported as the hit of a breakpoint exactly when the process stands
\* at one, and of that breakpoint (print_breakpoint_hit_if_any).
THEOREM ReportedHitsAreTrue == CliSpec => HitsAreTrue
<1>1. CliInv /\ [CliNext]_cliVars =>
        [said'.what = "stopped" /\ phase = "call" /\ phase' = "prompt" =>
           /\ said'.hits = {i \in Id : ids[i] = pc}
           /\ said'.hits = {} <=> pc \notin sites]_cliVars
  <2> SUFFICES ASSUME CliInv, CliNext, said'.what = "stopped",
                      phase = "call", phase' = "prompt"
               PROVE  /\ said'.hits = {i \in Id : ids[i] = pc}
                      /\ said'.hits = {} <=> pc \notin sites
    BY DEF cliVars
  <2>1. Report
    BY LineTyped DEF CliInv, CliNext, StartWaiting, InsideCall, EmptyLineCrashes,
       EndOfInput, Ended, cliVars, cli
  <2>2. UserInv /\ ctl = "idle" /\ (result = "ok" => cache = Live)
    BY <2>1 DEF CliInv, Phases, Report
  <2>3. result = "ok"
    BY <2>1, <2>2 DEF Report, Said, UserInv, IInv, TypeOK, BreakpointsTypeOK
  <2>4. cache.pc = pc
    BY <2>2, <2>3 DEF Live
  <2>5. said'.hits = {i \in Id : ids[i] = pc}
    BY <2>1, <2>3, <2>4 DEF Report, Said, Hits
  <2>6. sites = {ids[i] : i \in Id} \ {NoAddr}
    BY <2>2 DEF UserInv, IInv, Table, TableConsistent
  <2>7. pc # NoAddr
    BY <2>2 DEF UserInv, IInv, TypeOK, TraceeTypeOK, Code, NoAddr
  <2> QED
    BY <2>5, <2>6, <2>7
<1> QED
  BY <1>1, CliInvariance, PTL DEF CliSpec, HitsAreTrue

\* "Wrote" is only said of a value that the process has (handle_register_write).
THEOREM WritesAreWritten == CliSpec => []WroteMeansWritten
<1>1. CliInv => WroteMeansWritten
  BY DEF CliInv
<1> QED
  BY <1>1, CliInvariance, PTL

\* The prompt takes every register by its own name and no other
\* (parse_subregister_name, Registers::resolve),
THEOREM PromptNamesExact == CliSpec => []NamesExact
<1>1. NamesExact
  BY NamesAreExact DEF NamesExact
<1> QED
  BY <1>1, PTL

\* and every value as the number it says (Registers::parse_register_value).
THEOREM PromptValuesExact == CliSpec => []ValuesExact
<1>1. ValuesExact
  BY ValuesAreExact DEF ValuesExact
<1> QED
  BY <1>1, PTL
=============================================================================
