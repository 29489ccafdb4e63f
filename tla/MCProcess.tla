----------------------------- MODULE MCProcess -----------------------------
(***************************************************************************)
(* Values for TLC: a program whose instructions 0, 1 and 2 form a loop     *)
(* through the breakpoint addresses, and an exit beyond it.                *)
(***************************************************************************)
EXTENDS Process, TLC

MCEffect == (0 :> "reg") @@ (1 :> "none") @@ (2 :> "store") @@ (3 :> "exit")
MCSucc   == (0 :> 1) @@ (1 :> 2) @@ (2 :> 0) @@ (3 :> 3)
MCAlu    == (0 :> 1) @@ (1 :> 0)
=============================================================================
