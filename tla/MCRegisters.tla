---------------------------- MODULE MCRegisters ----------------------------
(***************************************************************************)
(* Values for the runs of Registers.  Where the question is what a write   *)
(* does to the bits, three values that between them give every bit both    *)
(* values and tell every two words of a register apart; where it is which  *)
(* breakpoint slots are armed, one value.                                  *)
(***************************************************************************)
EXTENDS Registers

Word(ones) == [b \in 0 .. 4 * W - 1 |-> IF b \div W \in ones THEN 1 ELSE 0]

ThreeValues == {Word({1, 2}), Word({0, 3}), Word({2, 3})}
OneValue    == {Word({1, 2})}
=============================================================================
