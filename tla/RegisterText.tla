---------------------------- MODULE RegisterText ----------------------------
(***************************************************************************)
(* What the words of a register command stand for: the name of a register  *)
(* or of a part of one (register_name.cpp, Registers::resolve) and the     *)
(* value to write (Registers::parse_register_value).                       *)
(*                                                                         *)
(* A name is taken as the parts its parser finds in it:                    *)
(*   head    the letters it starts with                                    *)
(*   index   the digits that follow                                        *)
(*   rest    what follows these: nothing, ".4s[", ".2d[", or else "other"  *)
(*   lane    the digits that follow the bracket                            *)
(*   tail    what follows these: "]", "]more", or else "other"             *)
(* A value is its form, its number and how many hex digits it has.         *)
(***************************************************************************)
EXTENDS SubregisterView, Sequences

CONSTANTS
    IntBits,    \* bits of an int: 32 in the code
    Names,      \* the names and the values a run tries
    Texts

\* 2^n, as a function that proofs can unfold.
Power[n \in Nat] == IF n = 0 THEN 1 ELSE 2 * Power[n - 1]

Name == [head : STRING, index : Seq(0 .. 9), rest : STRING, lane : Seq(0 .. 9),
         tail : STRING]

Text == [form : STRING, number : Nat, digits : Nat]

\* An int holds the number of every register.
ASSUME IntBitsAssumption == IntBits \in Nat /\ IntBits >= 6

\* A hex digit never straddles the end of a register, lane digits need a
\* bracket before them, and a number fits its hex digits.
ASSUME RegisterTextAssumption ==
    /\ W % 4 = 0
    /\ \A name \in Names : name \in Name /\ (name.rest = "" => name.lane = <<>>)
    /\ \A text \in Texts :
          text \in Text /\ (text.form = "hex" => text.number < Power[4 * text.digits])

-----------------------------------------------------------------------------
(* Names.                                                                  *)

\* An int that leaves its range wraps around, as it does in a build of this.
Wrap(n) == ((n + Power[IntBits - 1]) % Power[IntBits]) - Power[IntBits - 1]

parse_index(digits) ==
    LET v[k \in 0 .. Len(digits)] ==
            IF k = 0 THEN 0 ELSE Wrap(10 * v[k - 1] + digits[k])
    IN IF digits = <<>> THEN -1 ELSE v[Len(digits)]

NoHandle == [kind |-> "none", n |-> 0, lane |-> 0]

\* Seeded fault: w is given a 31, like s and d.
LastIndex_W31 == [w |-> 31, s |-> 31, d |-> 31, v |-> 31]

\* The highest number of each kind.
LastIndex == [w |-> 30, s |-> 31, d |-> 31, v |-> 31]

\* What comes after the closing bracket is not looked at.
parse_subregister_name(name) ==
    LET n     == parse_index(name.index)
        lane  == parse_index(name.lane)
        Take(kind, l) == [kind |-> kind, n |-> n, lane |-> l]
    IN IF name.head \notin DOMAIN LastIndex \/ n \notin 0 .. LastIndex[name.head]
       THEN NoHandle
       ELSE CASE name.head # "v" /\ name.rest = "" -> Take(name.head, 0)
              [] name.head = "v" /\ name.rest = ".4s[" /\ lane \in 0 .. 3
                     /\ name.tail \in {"]", "]more"} -> Take("4s", lane)
              [] name.head = "v" /\ name.rest = ".2d[" /\ lane \in 0 .. 1
                     /\ name.tail \in {"]", "]more"} -> Take("2d", lane)
              [] OTHER -> NoHandle

\* The registers REGISTER_LIST has a view of; n = -1 where there is but one.
Views ==
    [kind : {"x"}, n : 0 .. 30, lane : {0}]
        \cup [kind : {"v"}, n : 0 .. 31, lane : {0}]
        \cup [kind : {"sp", "pc", "pstate", "fpsr", "fpcr"}, n : {-1}, lane : {0}]
        \cup [kind : {"brk_addr", "brk_ctrl", "watch_addr", "watch_ctrl"},
              n : 0 .. 15, lane : {0}]

Decimal(n) == IF n < 0 THEN <<>> ELSE IF n < 10 THEN <<n>> ELSE <<n \div 10, n % 10>>

\* A full register by its exact name, or else a part of one; it throws at
\* what is neither.
resolve(name) ==
    LET full == {r \in Views : /\ name.head = r.kind /\ name.rest = ""
                               /\ name.index = Decimal(r.n)}
    IN IF full # {} THEN CHOOSE r \in full : TRUE ELSE parse_subregister_name(name)

IsFloat(h) == h.kind \in {"s", "d", "4s", "2d"}

BitSize(h) ==
    CASE h.kind = "v"  -> 4 * W
      [] h.kind = "w"  -> make_wn.bit_size
      [] h.kind = "s"  -> make_sn(TRUE).bit_size
      [] h.kind = "d"  -> make_dn(TRUE).bit_size
      [] h.kind = "4s" -> make_vn_lane_s(h.lane).bit_size
      [] h.kind = "2d" -> make_vn_lane_d(h.lane).bit_size
      [] h.kind \in {"fpsr", "fpcr", "brk_ctrl", "watch_ctrl"} -> W
      [] OTHER -> 2 * W

-----------------------------------------------------------------------------
(* Values.  The forms: "" (two spaces in a row), "dec" (octal included),   *)
(* "neg", "hex", "0x" alone, "~0", "point" (1.5), "junk".                  *)

NoValue == [float |-> FALSE, number |-> -1]

\* What the text says, as a number.
Denoted(text) ==
    CASE text.form = "neg" -> -text.number
      [] text.form = "~0"  -> -1
      [] OTHER             -> text.number

\* strtoull: the 64 bits of a number or its negation, the largest if it is
\* too large.
ullong_max == Power[2 * W] - 1

strtoull(text) ==
    IF text.number > ullong_max THEN ullong_max ELSE Denoted(text) % Power[2 * W]

MaxDigits(size) == (size + 3) \div 4

\* Seeded fault: room for one hex digit more than the register has.
parse_register_value_OneMore(text, float, size) ==
    CASE ~float /\ text.form = "hex" /\ text.digits <= MaxDigits(size) + 1 ->
            [float |-> FALSE, number |-> text.number % Power[size]]
      [] OTHER -> NoValue

parse_register_value(text, float, size) ==
    LET Cut(n) == [float |-> FALSE, number |-> n % Power[size]]
    IN CASE float /\ text.form \in {"dec", "neg", "hex", "point"} ->
               [float |-> TRUE, number |-> Denoted(text)]
         [] ~float /\ Denoted(text) = -1 /\ text.form \in {"neg", "~0"} -> Cut(Power[size] - 1)
         [] ~float /\ text.form = "hex" /\ text.digits <= MaxDigits(size) -> Cut(text.number)
         [] ~float /\ text.form = "dec" -> Cut(strtoull(text))
         [] ~float /\ text.form = "neg" /\ text.number # 1 -> Cut(strtoull(text))
         [] OTHER -> NoValue

-----------------------------------------------------------------------------
(* What the two parsers promise, over Names and Texts.                     *)

\* The number a sequence of decimal digits is.
Number(digits) ==
    LET v[k \in 0 .. Len(digits)] == IF k = 0 THEN 0 ELSE 10 * v[k - 1] + digits[k]
    IN v[Len(digits)]

Parts ==
    [kind : {"w"}, n : 0 .. 30, lane : {0}]
        \cup [kind : {"s", "d"}, n : 0 .. 31, lane : {0}]
        \cup [kind : {"4s"}, n : 0 .. 31, lane : 0 .. 3]
        \cup [kind : {"2d"}, n : 0 .. 31, lane : 0 .. 1]

Spelling(h) ==
    IF h.kind \in {"4s", "2d"}
    THEN [head |-> "v", index |-> Decimal(h.n), lane |-> <<h.lane>>, tail |-> "]",
          rest |-> IF h.kind = "4s" THEN ".4s[" ELSE ".2d["]
    ELSE [head |-> h.kind, index |-> Decimal(h.n), lane |-> <<>>, tail |-> "other",
          rest |-> ""]

\* Every register and every part of one is found under its own name, and no
\* name finds another one: where a number has more digits than an int holds,
\* what is found has that number up to the overflow.
\* (parse_subregister_name, Registers::resolve)
ExactNames ==
    /\ \A h \in Views \cup Parts : resolve(Spelling(h)) = h
    /\ \A name \in Names :
          LET h    == resolve(name)
              same == Spelling(h)
              Means(digits, n) ==
                  /\ Number(digits) % Power[IntBits] = n
                  /\ Number(digits) < Power[IntBits - 1] => Number(digits) = n
          IN h # NoHandle =>
                /\ h \in Views \cup Parts
                /\ name.head = same.head /\ name.rest = same.rest
                /\ h.n >= 0 => Means(name.index, h.n)
                /\ h \in Parts => Means(name.lane, h.lane)

\* A value that is taken fits the register and is, modulo that size, the
\* number written; a hexadecimal one is taken only if no digit is lost, and
\* always if it has the digits of the register or fewer.  Two texts are taken
\* for other numbers: a decimal of more than 64 bits, and a negative one other
\* than -1 for a full vector register.
\* (Registers::parse_register_value)
ExactValues ==
    \A text \in Texts, size \in {W, 2 * W, 4 * W} :
        LET v     == parse_register_value(text, FALSE, size)
            exact == \/ text.form = "hex" \/ Denoted(text) = -1
                     \/ text.number <= ullong_max /\ (Denoted(text) >= 0 \/ size <= 2 * W)
        IN /\ v # NoValue =>
                 /\ v.number \in 0 .. Power[size] - 1
                 /\ exact => v.number = Denoted(text) % Power[size]
                 /\ text.form = "hex" => v.number = text.number
           /\ \/ text.form \in {"dec", "neg", "~0"}
              \/ text.form = "hex" /\ 4 * text.digits <= size
              => v # NoValue
=============================================================================
