------------------------------- MODULE MCCli -------------------------------
(***************************************************************************)
(* Values for TLC: a loop of two instructions with a breakpoint at its     *)
(* head, lines that between them reach every branch of the handlers, and   *)
(* names and values at the edges of what the parsers take.  W = 4: x0 has  *)
(* 8 bits and w0 has 4; an int has 8.                                      *)
(***************************************************************************)
EXTENDS Cli, TLC

MCEffect == (0 :> "none") @@ (1 :> "none") @@ (2 :> "exit")
MCSucc   == (0 :> 1) @@ (1 :> 0) @@ (2 :> 2)
MCAlu    == (0 :> 0) @@ (5 :> 5) @@ (21 :> 21)

MCLines == {
    <<"c">>, <<"s">>, <<"info", "r">>,
    <<"b", "0x0">>, <<"b", "0x">>, <<"d", "1">>, <<"d", "2", "3">>,
    <<"register", "write", "w0", "21">>, <<"re", "w", "w0", "0x15">>,
    <<"re", "w", "x0", "0x15">>, <<"re", "w", "pc", "0x02">>, <<"re", "r", "x0">> }

MCAddrOf == ("0x0" :> 0)
MCIdOf   == ("1" :> 1) @@ ("3" :> 3)

Full(head, index) ==
    [head |-> head, index |-> index, rest |-> "", lane |-> <<>>, tail |-> "other"]

MCNameOf == ("w0" :> Full("w", <<0>>)) @@ ("x0" :> Full("x", <<0>>))
                @@ ("pc" :> Full("pc", <<>>))

Typed(form, number, digits) == [form |-> form, number |-> number, digits |-> digits]

MCTextOf == ("21" :> Typed("dec", 21, 0)) @@ ("0x15" :> Typed("hex", 21, 2))
                @@ ("0x02" :> Typed("hex", 2, 2))

Digits == 0 .. 9

Numbers == {<<>>} \cup {<<a>> : a \in Digits} \cup (Digits \X Digits)
              \cup (Digits \X Digits \X Digits)

MCNames ==
    [head : {"w", "s", "d", "v", "x", "sp", "pc", "q"}, index : Numbers, rest : {"", "other"},
     lane : {<<>>}, tail : {"other"}]
        \cup [head : {"v", "w"}, index : {<<>>, <<7>>, <<3, 1>>, <<3, 2>>, <<2, 5, 6>>},
              rest : {".4s[", ".2d[", "other"}, lane : Numbers,
              tail : {"]", "]more", "other"}]

MCTexts ==
    {t \in [form : {"hex"}, number : 0 .. 300, digits : 1 .. 5] : t.number < 16^t.digits}
        \cup [form : {"dec", "neg"}, number : 0 .. 600, digits : {0}]
        \cup [form : {"", "0x", "~0", "point", "junk"}, number : {0}, digits : {0}]

\* What instructions do to data is a question of the other runs: here only
\* the user changes x0.
MCInit == CliInit /\ pc = 0 /\ reg = 0 /\ store = 0
MCSpec == MCInit /\ [][CliNext]_cliVars
=============================================================================
