---------------------------- MODULE RegisterFile ----------------------------
(***************************************************************************)
(* What a register write promises: the aarch64 register file as a program  *)
(* sees it, one general register x of two words and one vector register v  *)
(* of four.  A client names a register or a part of one and gives a value; *)
(* the file changes at most once per request, exactly as the architecture  *)
(* says a write to that name changes it, and at no other time.             *)
(***************************************************************************)
CONSTANTS
    Half,       \* the values of one 32-bit word
    Zero        \* the word of zeros, one of them

VARIABLES
    x,          \* x[0], x[1]: the low and the high word of the general register
    v,          \* v[0] .. v[3]: the words of the vector register
    request     \* the write asked for and not carried out: a set of at most one

vars == <<x, v, request>>

Name == [kind : {"x", "w", "v", "s", "d"}, lane : {0}]
            \cup [kind : {"4s"}, lane : {0, 1, 2, 3}]
            \cup [kind : {"2d"}, lane : {0, 1}]

Value == [{0, 1, 2, 3} -> Half]

Init ==
    /\ x \in [{0, 1} -> Half]
    /\ v \in [{0, 1, 2, 3} -> Half]
    /\ request = {}

\* A general register's low word, written alone, clears the high word; the
\* scalar at the bottom of a vector clears all above it; a lane clears nothing.
WriteX(r) == x' = CASE r.name.kind = "x" -> [w \in {0, 1} |-> r.value[w]]
                    [] r.name.kind = "w" -> [w \in {0, 1} |-> IF w = 0 THEN r.value[0] ELSE Zero]
                    [] OTHER             -> x

WriteV(r) ==
    v' = [w \in {0, 1, 2, 3} |->
            CASE r.name.kind = "v"  -> r.value[w]
              [] r.name.kind = "s"  -> IF w = 0 THEN r.value[0] ELSE Zero
              [] r.name.kind = "d"  -> IF w \in {0, 1} THEN r.value[w] ELSE Zero
              [] r.name.kind = "4s" -> IF w = r.name.lane THEN r.value[0] ELSE v[w]
              [] r.name.kind = "2d" /\ r.name.lane = 0 -> IF w \in {0, 1} THEN r.value[w] ELSE v[w]
              [] r.name.kind = "2d" /\ r.name.lane = 1 ->
                    IF w = 2 THEN r.value[0] ELSE IF w = 3 THEN r.value[1] ELSE v[w]
              [] OTHER -> v[w]]

Ask ==
    /\ request = {}
    /\ request' # {} /\ \A q, r \in request' : q = r
    /\ request' \subseteq [name : Name, value : Value]
    /\ UNCHANGED <<x, v>>

CarryOut ==
    \E r \in request : WriteX(r) /\ WriteV(r) /\ request' = {}

\* The process can be killed before the write reaches it.
GiveUp == request # {} /\ request' = {} /\ UNCHANGED <<x, v>>

Next == Ask \/ CarryOut \/ GiveUp

Spec == Init /\ [][Next]_vars
=============================================================================
