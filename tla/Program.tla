------------------------------ MODULE Program ------------------------------
(***************************************************************************)
(* What a debugger promises about the program it holds: the program a user *)
(* stops, looks at, edits and lets run is the one that was written.  Its   *)
(* registers change by its own instructions while it runs, by the user's   *)
(* edits while it is held, and at no other time; breakpoints, and whatever *)
(* the debugger does to step over them, do not show.                       *)
(***************************************************************************)
CONSTANTS
    Code, Effect, Succ, Val, Alu,   \* the program, as in Tracee
    None                            \* not an address

VARIABLES
    mode,       \* "held" by the debugger, "running", or "gone"
    calling,    \* a call of the debugger is under way
    told,       \* the user has been told of the last stop
    origin,     \* where the step under way began, if it may be taken back
    pc, reg

vars == <<mode, calling, told, origin, pc, reg>>

Init ==
    /\ mode = "held" /\ calling = FALSE /\ told = TRUE /\ origin = None
    /\ pc \in Code /\ reg \in Val

-----------------------------------------------------------------------------
(* The debugger at work: calls begin and end, the user learns of a stop.   *)
Work ==
    /\ origin' \in {None, origin, pc}
    /\ UNCHANGED <<mode, pc, reg>>

Resume ==
    /\ mode = "held" /\ mode' = "running"
    /\ UNCHANGED <<origin, pc, reg>>

\* One instruction, after which a program that is stepped is held again.
Retire ==
    /\ mode = "running" /\ mode' \in {"running", "held"}
    /\ Effect[pc] # "exit"
    /\ pc' = Succ[pc]
    /\ reg' = IF Effect[pc] = "reg" THEN Alu[reg] ELSE reg
    /\ UNCHANGED <<calling, told, origin>>

Stop ==
    /\ mode = "running" /\ mode' = "held"
    /\ UNCHANGED <<calling, told, origin, pc, reg>>

\* An edit changes one register, unless the user edits a program that has
\* stopped without having been told.
Edit ==
    /\ mode = "held" /\ ~calling
    /\ pc' \in Code /\ reg' \in Val
    /\ told => pc' = pc \/ reg' = reg
    /\ UNCHANGED <<mode, calling, told, origin>>

\* A step from a breakpoint ends where it began, with its work on the registers
\* done.
TakeBack ==
    /\ mode = "held" /\ calling /\ origin # None
    /\ pc' = origin /\ origin' = None
    /\ calling' = FALSE
    /\ UNCHANGED <<mode, told, reg>>

\* What becomes of the registers of a program that has ended is nobody's
\* concern.
Gone == mode' = "gone"

Next == Work \/ Resume \/ Retire \/ Stop \/ Edit \/ TakeBack \/ Gone

Spec == Init /\ [][Next]_vars
=============================================================================
