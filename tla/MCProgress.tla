----------------------------- MODULE MCProgress -----------------------------
(***************************************************************************)
(* A user who sets one breakpoint on the first instruction of a program    *)
(* that runs straight to its exit, and from then on keeps typing both      *)
(* "continue" and "step", each again and again.                            *)
(***************************************************************************)
EXTENDS Process, TLC

MCEffect == (0 :> "reg") @@ (1 :> "none") @@ (2 :> "exit")
MCSucc   == (0 :> 1) @@ (1 :> 2) @@ (2 :> 2)
MCAlu    == (0 :> 1) @@ (1 :> 0)

UserInit == Init /\ pc = 0

UserNext ==
    \/ AddBreakpoint(0) /\ nextId = 1
    \/ nextId > 1 /\ state = "STOPPED" /\ (Resume \/ StepInstruction)
    \/ state = "RUNNING" /\ WaitOnSignal
    \/ Proceed
    \/ Execute /\ UNCHANGED debugger

UserSpec ==
    /\ UserInit
    /\ [][UserNext]_vars
    /\ Fairness
    /\ WF_vars(AddBreakpoint(0) /\ nextId = 1)
    /\ WF_vars(WaitOnSignal)
    /\ SF_vars(nextId > 1 /\ state = "STOPPED" /\ Resume)
    /\ SF_vars(nextId > 1 /\ state = "STOPPED" /\ StepInstruction)

\* tools/cbg.cpp, its help: "continue (c) Resume the process (to next bp or
\* signal)" and "step (s, si) Single-step one instruction".  At a breakpoint
\* neither moves on: the next continue traps on the same BRK, and a step is
\* taken back by the rewind of rearm_and_rewind.
ProgramEnds == <>(life = "reaped")
=============================================================================
