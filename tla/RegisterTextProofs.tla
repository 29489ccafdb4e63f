------------------------- MODULE RegisterTextProofs -------------------------
(***************************************************************************)
(* Proofs about module RegisterText: for every size of a register and of   *)
(* an int, and every name and value, both parsers keep their promises.     *)
(* Recursion over numbers and digits is met by induction, which is here    *)
(* the existence of a least counterexample.                                *)
(***************************************************************************)
EXTENDS RegisterText, WellFoundedInduction, TLAPS

-----------------------------------------------------------------------------
(* Induction and recursion over the natural numbers.                       *)

\* Every set of numbers has a least one.
LEMMA Least ==
    ASSUME NEW T \in SUBSET Nat, T # {}
    PROVE  \E m \in T : \A k \in T : ~(k < m)
<1>1. IsWellFoundedOn(OpToRel(<, Nat), Nat)
  BY NatLessThanWellFounded
<1>2. \E m \in T : \A k \in T : ~(<<k, m>> \in OpToRel(<, Nat))
  <2> HIDE DEF OpToRel
  <2> QED
    BY <1>1, WFMin
<1> QED
  BY <1>2 DEF OpToRel

\* A set that has 0 and, with a number, the next one has them all.
LEMMA Induction ==
    ASSUME NEW T \in SUBSET Nat, 0 \in T, \A n \in T : n + 1 \in T
    PROVE  T = Nat
<1>1. SUFFICES ASSUME Nat \ T # {}  PROVE FALSE
  OBVIOUS
<1>2. PICK m \in Nat \ T : \A k \in Nat \ T : ~(k < m)
  BY <1>1, Least
<1>3. m # 0 /\ m - 1 \in Nat /\ m - 1 < m
  BY <1>2
<1>4. m - 1 \in T
  BY <1>2, <1>3
<1>5. (m - 1) + 1 \in T
  BY <1>4
<1> QED
  BY <1>2, <1>5

\* g starts with c and takes n steps of s.
Follows(g, n, c, s) == g[0] = c /\ \A k \in 0 .. n - 1 : g[k + 1] = s[<<g[k], k>>]

\* Such functions differ in nothing but their length,
LEMMA Unique ==
    ASSUME NEW c \in Int, NEW s \in [Int \X Nat -> Int], NEW n \in Nat, NEW m \in Nat,
           NEW g \in [0 .. n -> Int], NEW h \in [0 .. m -> Int], n <= m,
           Follows(g, n, c, s), Follows(h, m, c, s)
    PROVE  \A k \in 0 .. n : g[k] = h[k]
<1> DEFINE T == {k \in Nat : k <= n => g[k] = h[k]}
<1>1. 0 \in T
  BY DEF Follows
<1>2. ASSUME NEW k \in T  PROVE k + 1 \in T
  <2>1. k \in Nat /\ k + 1 \in Nat /\ (k <= n => g[k] = h[k])
    OBVIOUS
  <2>2. ASSUME k + 1 <= n  PROVE g[k + 1] = h[k + 1]
    <3>1. k \in 0 .. n - 1 /\ k \in 0 .. m - 1 /\ g[k] = h[k]
      BY <2>1, <2>2
    <3> QED
      BY <3>1 DEF Follows
  <2>3. CASE k + 1 <= n
    BY <2>1, <2>2, <2>3
  <2>4. CASE ~(k + 1 <= n)
    BY <2>1, <2>4
  <2> QED
    BY <2>3, <2>4
<1> HIDE DEF T
<1>3. T = Nat
  BY <1>1, <1>2, Induction DEF T
<1> SUFFICES ASSUME NEW k \in 0 .. n  PROVE g[k] = h[k]
  OBVIOUS
<1>4. k \in Nat /\ k <= n
  OBVIOUS
<1> QED
  BY <1>3, <1>4 DEF T

\* and there is one of every length.
LEMMA Approximation ==
    ASSUME NEW c \in Int, NEW s \in [Int \X Nat -> Int]
    PROVE  \A n \in Nat : \E g \in [0 .. n -> Int] : Follows(g, n, c, s)
<1> DEFINE T == {n \in Nat : \E g \in [0 .. n -> Int] : Follows(g, n, c, s)}
<1>1. 0 \in T
  <2>1. [k \in 0 .. 0 |-> c] \in [0 .. 0 -> Int]
    OBVIOUS
  <2>2. Follows([k \in 0 .. 0 |-> c], 0, c, s)
    BY DEF Follows
  <2> QED
    BY <2>1, <2>2
<1>2. ASSUME NEW n \in T  PROVE n + 1 \in T
  <2>1. n \in Nat
    OBVIOUS
  <2>2. PICK g \in [0 .. n -> Int] : Follows(g, n, c, s)
    OBVIOUS
  <2> DEFINE h == [k \in 0 .. n + 1 |-> IF k <= n THEN g[k] ELSE s[<<g[n], n>>]]
  <2>3. g[n] \in Int /\ s[<<g[n], n>>] \in Int
    BY <2>1
  <2>4. h \in [0 .. n + 1 -> Int]
    BY <2>1, <2>3
  <2>5. h[0] = c
    BY <2>1, <2>2 DEF Follows
  <2>6. ASSUME NEW k \in 0 .. (n + 1) - 1  PROVE h[k + 1] = s[<<h[k], k>>]
    <3>1. CASE k = n
      <4>1. n \in 0 .. n + 1 /\ n + 1 \in 0 .. n + 1 /\ ~(n + 1 <= n)
        BY <2>1
      <4>2. h[n] = g[n] /\ h[n + 1] = s[<<g[n], n>>]
        BY <2>1, <4>1
      <4> QED
        BY <3>1, <4>2
    <3>2. CASE k # n
      <4>1. k \in 0 .. n - 1 /\ k + 1 \in 0 .. n + 1 /\ k \in 0 .. n + 1 /\ k + 1 <= n
        BY <2>1, <3>2
      <4>2. g[k + 1] = s[<<g[k], k>>]
        BY <4>1, <2>2 DEF Follows
      <4> QED
        BY <4>1, <4>2, <2>1
    <3> QED
      BY <3>1, <3>2
  <2> HIDE DEF h
  <2>7. Follows(h, n + 1, c, s)
    BY <2>5, <2>6 DEF Follows
  <2> QED
    BY <2>1, <2>4, <2>7
<1> HIDE DEF T
<1>3. T = Nat
  BY <1>1, <1>2, Induction DEF T
<1> QED
  BY <1>3 DEF T

\* A function on Nat is given by its first value and its steps.
LEMMA Recursion ==
    ASSUME NEW c \in Int, NEW s \in [Int \X Nat -> Int]
    PROVE  \E g \in [Nat -> Int] :
              g[0] = c /\ \A n \in Nat : g[n + 1] = s[<<g[n], n>>]
<1> DEFINE A(n) == CHOOSE h \in [0 .. n -> Int] : Follows(h, n, c, s)
           g == [n \in Nat |-> A(n)[n]]
<1>1. ASSUME NEW n \in Nat  PROVE A(n) \in [0 .. n -> Int] /\ Follows(A(n), n, c, s)
  BY Approximation
<1> HIDE DEF A
<1>2. ASSUME NEW n \in Nat  PROVE A(n)[n] \in Int
  BY <1>1
<1>3. g \in [Nat -> Int]
  BY <1>2
<1>4. g[0] = c
  BY <1>1 DEF Follows
<1>5. ASSUME NEW n \in Nat  PROVE g[n + 1] = s[<<g[n], n>>]
  <2>1. n + 1 \in Nat /\ n <= n + 1 /\ n \in 0 .. n /\ n \in 0 .. (n + 1) - 1
    OBVIOUS
  <2>2. A(n)[n] = A(n + 1)[n]
    <3>1. \A k \in 0 .. n : A(n)[k] = A(n + 1)[k]
      <4>1. A(n) \in [0 .. n -> Int] /\ Follows(A(n), n, c, s)
        BY <1>1
      <4>2. A(n + 1) \in [0 .. n + 1 -> Int] /\ Follows(A(n + 1), n + 1, c, s)
        BY <2>1, <1>1
      <4>3. ASSUME NEW a \in [0 .. n -> Int], NEW b \in [0 .. n + 1 -> Int],
                   Follows(a, n, c, s), Follows(b, n + 1, c, s)
            PROVE  \A k \in 0 .. n : a[k] = b[k]
        <5> HIDE DEF g
        <5>1. PICK m \in Nat : m = n + 1
          BY <2>1
        <5>2. b \in [0 .. m -> Int] /\ Follows(b, m, c, s) /\ n <= m
          BY <2>1, <4>3, <5>1
        <5> QED
          BY <4>3, <5>2, Unique DEF Follows
      <4> QED
        BY <4>1, <4>2, <4>3
    <3> QED
      BY <2>1, <3>1
  <2>3. A(n + 1)[n + 1] = s[<<A(n + 1)[n], n>>]
    BY <2>1, <1>1 DEF Follows
  <2> QED
    BY <2>1, <2>2, <2>3
<1> HIDE DEF g
<1> QED
  BY <1>3, <1>4, <1>5

-----------------------------------------------------------------------------
(* Powers of two and remainders.                                           *)

\* The function Power, which is defined as any that solves its equation, does.
LEMMA PowerFacts ==
    /\ Power \in [Nat -> Int]
    /\ Power[0] = 1
    /\ \A n \in Nat : Power[n + 1] = 2 * Power[n]
<1> DEFINE F(f) == [n \in Nat |-> IF n = 0 THEN 1 ELSE 2 * f[n - 1]]
           s == [p \in Int \X Nat |-> 2 * p[1]]
<1>1. PICK g \in [Nat -> Int] : g[0] = 1 /\ \A n \in Nat : g[n + 1] = s[<<g[n], n>>]
  <2>1. s \in [Int \X Nat -> Int]
    OBVIOUS
  <2>2. 1 \in Int
    OBVIOUS
  <2> HIDE DEF s
  <2> QED
    BY <2>1, <2>2, Recursion
<1>2. g = F(g)
  <2>1. ASSUME NEW n \in Nat  PROVE g[n] = F(g)[n]
    <3>1. CASE n = 0
      BY <1>1, <3>1
    <3>2. CASE n # 0
      <4>1. n - 1 \in Nat /\ (n - 1) + 1 = n
        BY <3>2
      <4>2. g[(n - 1) + 1] = 2 * g[n - 1]
        BY <4>1, <1>1
      <4> QED
        BY <3>2, <4>1, <4>2
    <3> QED
      BY <3>1, <3>2
  <2> QED
    BY <2>1
<1>3. Power = CHOOSE f : f = F(f)
  BY DEF Power
<1>4. Power = F(Power)
  <2> HIDE DEF F
  <2> QED
    BY <1>2, <1>3, Zenon
<1> DEFINE T == {n \in Nat : Power[n] \in Int}
<1>5. Power[0] = 1 /\ \A n \in Nat : Power[n + 1] = 2 * Power[n]
  <2>1. Power[0] = 1
    BY <1>4
  <2>2. ASSUME NEW n \in Nat  PROVE Power[n + 1] = 2 * Power[n]
    <3>1. n + 1 \in Nat /\ n + 1 # 0 /\ (n + 1) - 1 = n
      OBVIOUS
    <3> QED
      BY <1>4, <3>1
  <2> QED
    BY <2>1, <2>2
<1> HIDE DEF F
<1>6. T = Nat
  <2>1. 0 \in T
    BY <1>5
  <2>2. ASSUME NEW n \in T  PROVE n + 1 \in T
    BY <1>5
  <2> HIDE DEF T
  <2> QED
    BY <2>1, <2>2, Induction DEF T
<1>7. Power = [n \in Nat |-> Power[n]]
  BY <1>4 DEF F
<1> QED
  BY <1>5, <1>6, <1>7

\* A power of two is a positive number,
LEMMA PowerPositive == \A n \in Nat : Power[n] \in Nat /\ Power[n] >= 1
<1> DEFINE T == {n \in Nat : Power[n] >= 1}
<1>1. 0 \in T
  BY PowerFacts
<1>2. ASSUME NEW n \in T  PROVE n + 1 \in T
  BY PowerFacts
<1> HIDE DEF T
<1>3. T = Nat
  BY <1>1, <1>2, Induction DEF T
<1> QED
  BY <1>3, PowerFacts DEF T

\* the power of a sum is the product of the powers,
LEMMA PowerSum == \A m, n \in Nat : Power[m + n] = Power[m] * Power[n]
<1> SUFFICES ASSUME NEW m \in Nat
             PROVE  \A n \in Nat : Power[m + n] = Power[m] * Power[n]
  OBVIOUS
<1> DEFINE T == {n \in Nat : Power[m + n] = Power[m] * Power[n]}
<1>1. 0 \in T
  BY PowerFacts
<1>2. ASSUME NEW n \in T  PROVE n + 1 \in T
  <2>1. /\ n \in Nat /\ m + n \in Nat /\ m + (n + 1) = (m + n) + 1
        /\ Power[m + n] = Power[m] * Power[n]
    OBVIOUS
  <2>2. Power[m + (n + 1)] = 2 * (Power[m] * Power[n])
    BY <2>1, PowerFacts
  <2>3. 2 * (Power[m] * Power[n]) = Power[m] * (2 * Power[n])
    <3>1. Power[m] \in Int /\ Power[n] \in Int
      BY <2>1, PowerFacts
    <3> QED
      BY <3>1
  <2>4. Power[n + 1] = 2 * Power[n]
    BY <2>1, PowerFacts
  <2> QED
    BY <2>1, <2>2, <2>3, <2>4
<1> HIDE DEF T
<1>3. T = Nat
  BY <1>1, <1>2, Induction DEF T
<1> QED
  BY <1>3 DEF T

\* and a larger exponent gives no smaller power.
LEMMA PowerMonotone ==
    ASSUME NEW m \in Nat, NEW n \in Nat, m <= n
    PROVE  Power[m] <= Power[n]
<1>1. n - m \in Nat /\ m + (n - m) = n
  OBVIOUS
<1>2. Power[n] = Power[m] * Power[n - m]
  BY <1>1, PowerSum
<1>3. /\ Power[m] \in Nat /\ Power[n - m] \in Nat
      /\ Power[m] >= 1 /\ Power[n - m] >= 1
  BY <1>1, PowerPositive
<1> QED
  BY <1>2, <1>3

\* What % leaves, and that it is the only remainder in its range.
LEMMA Remainder ==
    ASSUME NEW a \in Int, NEW b \in Nat, b >= 1
    PROVE  a % b \in 0 .. b - 1 /\ \E q \in Int : a = (a % b) + q * b
<1>1. a % b \in 0 .. b - 1
  OBVIOUS
<1>2. a \div b \in Int /\ a = (a % b) + (a \div b) * b
  OBVIOUS
<1> QED
  BY <1>1, <1>2

LEMMA RemainderUnique ==
    ASSUME NEW b \in Nat, NEW r \in 0 .. b - 1, NEW q \in Int
    PROVE  (r + q * b) % b = r
OBVIOUS

\* A remainder keeps the remainder by a divisor of the divisor.
LEMMA RemainderTwice ==
    ASSUME NEW a \in Int, NEW b \in Nat, NEW c \in Nat, b >= 1, c >= 1
    PROVE  (a % (b * c)) % b = a % b
<1>1. b * c \in Nat /\ b * c >= 1
  OBVIOUS
<1>2. PICK q \in Int : a = (a % (b * c)) + q * (b * c)
  BY <1>1, Remainder
<1>3. a % (b * c) \in Int
  BY <1>1, Remainder
<1>4. PICK p \in Int : a % (b * c) = ((a % (b * c)) % b) + p * b
  BY <1>3, Remainder
<1> DEFINE r == (a % (b * c)) % b
<1>5. r \in 0 .. b - 1
  BY <1>3, Remainder
<1>6. a = r + (p + q * c) * b
  <2>1. a = (r + p * b) + q * (b * c)
    BY <1>2, <1>4
  <2> HIDE DEF r
  <2>2. r \in Int
    BY <1>5
  <2> QED
    BY <2>1, <2>2
<1> HIDE DEF r
<1>7. p + q * c \in Int
  OBVIOUS
<1>8. a % b = r
  BY <1>5, <1>6, <1>7, RemainderUnique
<1> QED
  BY <1>8 DEF r

\* Powers of two divide larger ones.
LEMMA CutTwice ==
    ASSUME NEW a \in Int, NEW m \in Nat, NEW n \in Nat, m <= n
    PROVE  (a % Power[n]) % Power[m] = a % Power[m]
<1>1. n - m \in Nat /\ m + (n - m) = n
  OBVIOUS
<1>2. Power[n] = Power[m] * Power[n - m]
  BY <1>1, PowerSum
<1>3. /\ Power[m] \in Nat /\ Power[n - m] \in Nat
      /\ Power[m] >= 1 /\ Power[n - m] >= 1
  BY <1>1, PowerPositive
<1> QED
  BY <1>2, <1>3, RemainderTwice

\* A value that is taken is a number.
Taken(n) == [float |-> FALSE, number |-> n]

-----------------------------------------------------------------------------
(* Values.                                                                 *)

\* Each form of a value and what becomes of it.
LEMMA Forms ==
    ASSUME NEW text \in Text, NEW size \in Nat
    PROVE  /\ text.form = "hex" /\ text.digits <= MaxDigits(size)
                => parse_register_value(text, FALSE, size) = Taken(text.number % Power[size])
           /\ text.form = "hex" /\ ~(text.digits <= MaxDigits(size))
                => parse_register_value(text, FALSE, size) = NoValue
           /\ text.form = "dec" \/ (text.form = "neg" /\ text.number # 1)
                => parse_register_value(text, FALSE, size) = Taken(strtoull(text) % Power[size])
           /\ (text.form = "neg" /\ text.number = 1) \/ text.form = "~0"
                => parse_register_value(text, FALSE, size) = Taken((Power[size] - 1) % Power[size])
           /\ text.form \notin {"hex", "dec", "neg", "~0"}
                => parse_register_value(text, FALSE, size) = NoValue
<1>1. text.number \in Nat
  BY DEF Text
<1>2. /\ text.form = "neg" => Denoted(text) = -text.number
      /\ text.form = "~0" => Denoted(text) = -1
  BY DEF Denoted
<1>3. text.form = "neg" => (Denoted(text) = -1 <=> text.number = 1)
  BY <1>1, <1>2
<1>4. CASE text.form = "hex"
  BY <1>4 DEF parse_register_value, Taken
<1>5. CASE text.form = "dec"
  BY <1>5 DEF parse_register_value, Taken
<1>6. CASE text.form = "neg"
  BY <1>3, <1>6 DEF parse_register_value, Taken
<1>7. CASE text.form = "~0"
  BY <1>2, <1>7 DEF parse_register_value, Taken
<1>8. CASE text.form \notin {"hex", "dec", "neg", "~0"}
  BY <1>8 DEF parse_register_value
<1> QED
  BY <1>4, <1>5, <1>6, <1>7, <1>8

\* A register has a whole number of hex digits.
LEMMA Sizes ==
    ASSUME NEW size \in {W, 2 * W, 4 * W}
    PROVE  /\ size \in Nat
           /\ \A digits \in Nat : digits <= MaxDigits(size) <=> 4 * digits <= size
<1>1. W \in Nat /\ W % 4 = 0
  BY WAssumption, RegisterTextAssumption
<1>2. PICK k \in Nat : size = 4 * k
  <2>1. W \div 4 \in Nat /\ W = 4 * (W \div 4)
    BY <1>1
  <2>2. PICK j \in Nat : W = 4 * j
    BY <2>1
  <2>3. W = 4 * j /\ 2 * W = 4 * (2 * j) /\ 4 * W = 4 * (4 * j)
    BY <2>2
  <2>4. j \in Nat /\ 2 * j \in Nat /\ 4 * j \in Nat
    OBVIOUS
  <2> QED
    BY <2>3, <2>4
<1>3. MaxDigits(size) = k
  BY <1>2 DEF MaxDigits
<1> QED
  BY <1>2, <1>3

\* No bit of a hexadecimal number of that many digits is cut off.
LEMMA Hexadecimal ==
    ASSUME NEW text \in Texts, text.form = "hex", NEW size \in Nat,
           4 * text.digits <= size
    PROVE  text.number % Power[size] = text.number
<1>1. text.number \in Nat /\ text.digits \in Nat /\ text.number < Power[4 * text.digits]
  BY RegisterTextAssumption DEF Text
<1>2. 4 * text.digits \in Nat
  BY <1>1
<1>3. Power[4 * text.digits] <= Power[size]
  BY <1>2, PowerMonotone
<1>4. Power[size] \in Nat /\ Power[4 * text.digits] \in Nat
  BY <1>2, PowerPositive
<1> QED
  BY <1>1, <1>3, <1>4

\* All bits set is what -1 stands for.
LEMMA MinusOne ==
    ASSUME NEW b \in Nat, b >= 1
    PROVE  (b - 1) % b = b - 1 /\ (-1) % b = b - 1
<1>1. b - 1 \in 0 .. b - 1 /\ 0 \in Int /\ -1 \in Int
  OBVIOUS
<1>2. ((b - 1) + 0 * b) % b = b - 1
  BY <1>1, RemainderUnique
<1>3. ((b - 1) + (-1) * b) % b = b - 1
  BY <1>1, RemainderUnique
<1>4. (b - 1) + 0 * b = b - 1 /\ (b - 1) + (-1) * b = -1
  OBVIOUS
<1> QED
  BY <1>2, <1>3, <1>4

\* strtoull keeps a number that is not too large, or its negation.
LEMMA Converted ==
    ASSUME NEW text \in Text, text.form \in {"dec", "neg"}
    PROVE  /\ strtoull(text) \in Nat
           /\ text.number <= ullong_max
                => strtoull(text) = Denoted(text) % Power[2 * W]
           /\ text.number <= ullong_max /\ Denoted(text) >= 0
                => strtoull(text) = Denoted(text)
<1>1. text.number \in Nat /\ 2 * W \in Nat
  BY WAssumption DEF Text
<1>2. Power[2 * W] \in Nat /\ Power[2 * W] >= 1
  BY <1>1, PowerPositive
<1>3. Denoted(text) \in Int /\ (Denoted(text) >= 0 => Denoted(text) = text.number)
  BY <1>1 DEF Denoted
<1>4. Denoted(text) % Power[2 * W] \in Nat
  <2>1. Denoted(text) % Power[2 * W] \in 0 .. Power[2 * W] - 1
    BY <1>2, <1>3, Remainder
  <2> QED
    BY <1>2, <2>1
<1>5. ullong_max = Power[2 * W] - 1
  BY DEF ullong_max
<1>6. ASSUME text.number <= ullong_max, Denoted(text) >= 0
      PROVE  Denoted(text) % Power[2 * W] = Denoted(text)
  BY <1>1, <1>2, <1>3, <1>5, <1>6
<1> QED
  BY <1>1, <1>2, <1>4, <1>5, <1>6 DEF strtoull

\* The promise of ExactValues for one text, its value and number, and a size.
Exact(text, v, n, size) ==
    LET exact == \/ text.form = "hex" \/ n = -1
                 \/ text.number <= ullong_max /\ (n >= 0 \/ size <= 2 * W)
    IN /\ v # NoValue =>
             /\ v.number \in 0 .. Power[size] - 1
             /\ exact => v.number = n % Power[size]
             /\ text.form = "hex" => v.number = text.number
       /\ \/ text.form \in {"dec", "neg", "~0"}
          \/ text.form = "hex" /\ 4 * text.digits <= size
          => v # NoValue

\* A value that is taken fits the register and is, modulo its size, the number
\* that was typed, but for the two kinds of text ExactValues names; no hex digit
\* is lost (Registers::parse_register_value).
THEOREM ValuesAreExact == ExactValues
<1> SUFFICES ASSUME NEW text \in Texts, NEW size \in {W, 2 * W, 4 * W}
             PROVE  Exact(text, parse_register_value(text, FALSE, size), Denoted(text), size)
  BY DEF ExactValues, Exact
<1> DEFINE v == parse_register_value(text, FALSE, size)
           n == Denoted(text)
           B == Power[size]
<1> SUFFICES Exact(text, v, n, size)
  OBVIOUS
<1>1. /\ text \in Text /\ text.number \in Nat /\ text.digits \in Nat /\ size \in Nat
      /\ 2 * W \in Nat
  BY RegisterTextAssumption, Sizes, WAssumption DEF Text
<1>2. B \in Nat /\ B >= 1
  BY <1>1, PowerPositive
<1>3. \A m \in Int : m % B \in 0 .. B - 1
  BY <1>2, Remainder
<1>4. \A m \in Nat : Taken(m) # NoValue /\ Taken(m).number = m
  BY DEF Taken, NoValue
<1>5. CASE text.form = "hex"
  <2>1. n = text.number
    BY <1>5 DEF Denoted
  <2>2. CASE 4 * text.digits <= size
    <3>1. v = Taken(text.number % B)
      BY <1>1, <1>5, <2>2, Sizes, Forms
    <3>2. text.number % B = text.number
      BY <1>1, <1>5, <2>2, Hexadecimal
    <3> HIDE DEF v, n
    <3> QED
      BY <1>1, <1>3, <1>4, <1>5, <2>1, <3>1, <3>2 DEF Exact
  <2>3. CASE ~(4 * text.digits <= size)
    <3>1. v = NoValue
      BY <1>1, <1>5, <2>3, Sizes, Forms
    <3> HIDE DEF v, n
    <3> QED
      BY <1>5, <2>3, <3>1 DEF Exact
  <2> QED
    BY <2>2, <2>3
<1>6. CASE (text.form = "neg" /\ text.number = 1) \/ text.form = "~0"
  <2>1. v = Taken((B - 1) % B)
    BY <1>1, <1>6, Forms
  <2>2. n = -1
    BY <1>6 DEF Denoted
  <2>3. (B - 1) % B = B - 1 /\ (-1) % B = B - 1 /\ B - 1 \in Nat
    BY <1>2, MinusOne
  <2> HIDE DEF v, n
  <2> QED
    BY <1>2, <1>4, <1>6, <2>1, <2>2, <2>3 DEF Exact
<1>7. CASE text.form = "dec" \/ (text.form = "neg" /\ text.number # 1)
  <2>1. v = Taken(strtoull(text) % B)
    BY <1>1, <1>7, Forms
  <2>2. n \in Int /\ n # -1
    BY <1>1, <1>7 DEF Denoted
  <2>3. strtoull(text) \in Nat
    BY <1>1, <1>7, Converted
  <2>4. ASSUME text.number <= ullong_max, n >= 0 \/ size <= 2 * W
        PROVE  strtoull(text) % B = n % B
    <3>1. CASE n >= 0
      BY <1>1, <1>7, <2>4, <3>1, Converted
    <3>2. CASE size <= 2 * W
      <4>1. strtoull(text) = n % Power[2 * W]
        BY <1>1, <1>7, <2>4, Converted
      <4>2. (n % Power[2 * W]) % B = n % B
        BY <1>1, <2>2, <3>2, CutTwice
      <4> QED
        BY <4>1, <4>2
    <3> QED
      BY <2>4, <3>1, <3>2
  <2>5. strtoull(text) % B \in 0 .. B - 1
    BY <1>3, <2>3
  <2> HIDE DEF v, n
  <2>6. strtoull(text) % B \in Nat
    BY <1>2, <2>5
  <2>7. v # NoValue /\ v.number = strtoull(text) % B
    BY <1>4, <2>1, <2>6
  <2> QED
    BY <1>7, <2>2, <2>4, <2>5, <2>7 DEF Exact
<1>8. CASE text.form \notin {"hex", "dec", "neg", "~0"}
  <2>1. v = NoValue
    BY <1>1, <1>8, Forms
  <2> HIDE DEF v, n
  <2> QED
    BY <1>8, <2>1 DEF Exact
<1> HIDE DEF v, n, B
<1> QED
  BY <1>5, <1>6, <1>7, <1>8

-----------------------------------------------------------------------------
(* Digits.                                                                 *)

\* The range of an int: from -Half to Half - 1.
Half == Power[IntBits - 1]
Full == Power[IntBits]

\* It holds the number of every register.
LEMMA IntFacts ==
    /\ Half \in Nat /\ Full \in Nat /\ Half >= 32 /\ Full = 2 * Half
<1>1. IntBits \in Nat /\ IntBits - 1 \in Nat /\ 5 <= IntBits - 1 /\ 5 \in Nat
      /\ (IntBits - 1) + 1 = IntBits
  BY IntBitsAssumption
<1>2. Power[5] = 32
  <2>1. Power[0 + 1] = 2 /\ Power[1 + 1] = 4
    BY PowerFacts
  <2>2. Power[2 + 1] = 8 /\ Power[3 + 1] = 16
    BY <2>1, PowerFacts
  <2>3. Power[4 + 1] = 32
    BY <2>2, PowerFacts
  <2> QED
    BY <2>3
<1>3. Power[5] <= Half
  BY <1>1, PowerMonotone DEF Half
<1>4. Full = 2 * Half
  BY <1>1, PowerFacts DEF Half, Full
<1>5. Half \in Nat /\ Full \in Nat
  BY <1>1, PowerPositive DEF Half, Full
<1> QED
  BY <1>2, <1>3, <1>4, <1>5

\* What wraps around changes by a multiple of the range.
LEMMA WrapFacts ==
    ASSUME NEW n \in Int
    PROVE  /\ Wrap(n) \in Int
           /\ \E q \in Int : n = Wrap(n) + q * Full
           /\ n \in 0 .. Half - 1 => Wrap(n) = n
<1>1. Half \in Nat /\ Full \in Nat /\ Full >= 1 /\ Full = 2 * Half /\ n + Half \in Int
  BY IntFacts
<1>2. Wrap(n) = ((n + Half) % Full) - Half
  BY DEF Wrap, Half, Full
<1>3. PICK q \in Int : n + Half = ((n + Half) % Full) + q * Full
  BY <1>1, Remainder
<1>4. (n + Half) % Full \in 0 .. Full - 1
  BY <1>1, Remainder
<1>5. Wrap(n) \in Int
  BY <1>1, <1>2, <1>4
<1>6. n = Wrap(n) + q * Full
  <2>1. q * Full \in Int /\ (n + Half) % Full \in Int
    BY <1>1, <1>4
  <2> QED
    BY <1>1, <1>2, <1>3, <2>1
<1>7. ASSUME n \in 0 .. Half - 1  PROVE Wrap(n) = n
  <2>1. n + Half \in 0 .. Full - 1 /\ n + Half = (n + Half) + 0 * Full
    BY <1>1, <1>7
  <2>2. (n + Half) % Full = n + Half
    BY <1>1, <2>1
  <2> QED
    BY <1>1, <1>2, <2>2
<1> QED
  BY <1>5, <1>6, <1>7

\* A loop over digits: some function is its sequence of values, and what takes
\* the same steps from the same start is that function.
LEMMA LoopExists ==
    ASSUME NEW digits \in Seq(0 .. 9), NEW s \in [Int \X Int -> Int]
    PROVE  \E h \in [0 .. Len(digits) -> Int] :
              /\ h[0] = 0
              /\ \A k \in 1 .. Len(digits) : h[k] = s[<<h[k - 1], digits[k]>>]
<1> DEFINE L == Len(digits)
           t == [p \in Int \X Nat |-> IF p[2] < L THEN s[<<p[1], digits[p[2] + 1]>>] ELSE 0]
<1>1. L \in Nat /\ \A k \in 1 .. L : digits[k] \in Int
  OBVIOUS
<1>2. PICK g \in [Nat -> Int] : g[0] = 0 /\ \A n \in Nat : g[n + 1] = t[<<g[n], n>>]
  <2>1. ASSUME NEW i \in Int, NEW n \in Nat, n < L
        PROVE  s[<<i, digits[n + 1]>>] \in Int
    BY <1>1, <2>1
  <2>2. t \in [Int \X Nat -> Int]
    BY <2>1
  <2>3. 0 \in Int
    OBVIOUS
  <2> HIDE DEF t
  <2> QED
    BY <2>2, <2>3, Recursion
<1> DEFINE h == [k \in 0 .. L |-> g[k]]
<1>3. h \in [0 .. L -> Int] /\ h[0] = 0
  BY <1>1, <1>2
<1>4. ASSUME NEW k \in 1 .. L  PROVE h[k] = s[<<h[k - 1], digits[k]>>]
  <2>1. k - 1 \in Nat /\ (k - 1) + 1 = k /\ k - 1 < L /\ k - 1 \in 0 .. L /\ k \in 0 .. L
    BY <1>1
  <2>2. g[(k - 1) + 1] = s[<<g[k - 1], digits[(k - 1) + 1]>>]
    BY <1>2, <2>1
  <2> QED
    BY <2>1, <2>2
<1> HIDE DEF h
<1> QED
  BY <1>3, <1>4

LEMMA LoopUnique ==
    ASSUME NEW n \in Nat, NEW h \in [0 .. n -> Int], NEW v, DOMAIN v = 0 .. n,
           v[0] = h[0], \A k \in 1 .. n : v[k - 1] = h[k - 1] => v[k] = h[k]
    PROVE  \A k \in 0 .. n : v[k] = h[k]
<1> DEFINE T == {k \in Nat : k <= n => v[k] = h[k]}
<1>1. 0 \in T
  OBVIOUS
<1>2. ASSUME NEW k \in T  PROVE k + 1 \in T
  <2>1. CASE k + 1 <= n
    <3>1. k + 1 \in 1 .. n /\ (k + 1) - 1 = k /\ v[k] = h[k]
      BY <2>1
    <3> QED
      BY <3>1
  <2>2. CASE ~(k + 1 <= n)
    BY <2>2
  <2> QED
    BY <2>1, <2>2
<1> HIDE DEF T
<1>3. T = Nat
  BY <1>1, <1>2, Induction DEF T
<1> SUFFICES ASSUME NEW k \in 0 .. n  PROVE v[k] = h[k]
  OBVIOUS
<1>4. k \in Nat /\ k <= n
  OBVIOUS
<1> QED
  BY <1>3, <1>4 DEF T

\* The loop of parse_index runs to its end.
LEMMA ParseRuns ==
    ASSUME NEW digits \in Seq(0 .. 9), digits # <<>>
    PROVE  \E h \in [0 .. Len(digits) -> Int] :
              /\ h[0] = 0
              /\ \A k \in 1 .. Len(digits) : h[k] = Wrap(10 * h[k - 1] + digits[k])
              /\ parse_index(digits) = h[Len(digits)]
<1> DEFINE L == Len(digits)
           F(f) == [k \in 0 .. L |-> IF k = 0 THEN 0 ELSE Wrap(10 * f[k - 1] + digits[k])]
           s == [p \in Int \X Int |-> Wrap(10 * p[1] + p[2])]
           v == CHOOSE f : f = F(f)
<1>1. L \in Nat /\ \A k \in 1 .. L : digits[k] \in Int /\ k - 1 \in 0 .. L
  OBVIOUS
<1>2. s \in [Int \X Int -> Int]
  <2>1. \A i, j \in Int : 10 * i + j \in Int
    OBVIOUS
  <2> QED
    BY <2>1, WrapFacts
<1>3. PICK h \in [0 .. L -> Int] :
         h[0] = 0 /\ \A k \in 1 .. L : h[k] = s[<<h[k - 1], digits[k]>>]
  <2> HIDE DEF s
  <2> QED
    BY <1>2, LoopExists
<1>4. ASSUME NEW k \in 1 .. L  PROVE h[k] = Wrap(10 * h[k - 1] + digits[k])
  BY <1>1, <1>3
<1> HIDE DEF s
<1>5. h = F(h)
  BY <1>1, <1>3, <1>4
<1>6. v = F(v)
  <2> HIDE DEF F
  <2> QED
    BY <1>5, Zenon
<1>7. parse_index(digits) = v[L]
  BY DEF parse_index
<1> HIDE DEF v
<1>8. v[0] = h[0] /\ \A k \in 1 .. L : v[k - 1] = h[k - 1] => v[k] = h[k]
  <2>1. v[0] = 0
    BY <1>1, <1>6
  <2>2. ASSUME NEW k \in 1 .. L  PROVE v[k] = Wrap(10 * v[k - 1] + digits[k])
    BY <1>1, <1>6
  <2> QED
    BY <1>3, <1>4, <2>1, <2>2
<1> HIDE DEF F
<1>9. \A k \in 0 .. L : v[k] = h[k]
  <2>1. L \in Nat
    BY <1>1
  <2>2. DOMAIN v = 0 .. L
    BY <1>6 DEF F
  <2> HIDE DEF L
  <2> QED
    BY <1>8, <2>1, <2>2, LoopUnique
<1>10. parse_index(digits) = h[L]
  BY <1>1, <1>7, <1>9
<1> QED
  BY <1>3, <1>4, <1>10

\* Likewise for the number that the digits are.
LEMMA NumberRuns ==
    ASSUME NEW digits \in Seq(0 .. 9)
    PROVE  \E h \in [0 .. Len(digits) -> Int] :
              /\ h[0] = 0
              /\ \A k \in 1 .. Len(digits) : h[k] = 10 * h[k - 1] + digits[k]
              /\ Number(digits) = h[Len(digits)]
<1> DEFINE L == Len(digits)
           F(f) == [k \in 0 .. L |-> IF k = 0 THEN 0 ELSE 10 * f[k - 1] + digits[k]]
           s == [p \in Int \X Int |-> 10 * p[1] + p[2]]
           v == CHOOSE f : f = F(f)
<1>1. L \in Nat /\ \A k \in 1 .. L : digits[k] \in Int /\ k - 1 \in 0 .. L
  OBVIOUS
<1>2. s \in [Int \X Int -> Int]
  OBVIOUS
<1>3. PICK h \in [0 .. L -> Int] :
         h[0] = 0 /\ \A k \in 1 .. L : h[k] = s[<<h[k - 1], digits[k]>>]
  <2> HIDE DEF s
  <2> QED
    BY <1>2, LoopExists
<1>4. ASSUME NEW k \in 1 .. L  PROVE h[k] = 10 * h[k - 1] + digits[k]
  BY <1>1, <1>3
<1> HIDE DEF s
<1>5. h = F(h)
  BY <1>1, <1>3, <1>4
<1>6. v = F(v)
  <2> HIDE DEF F
  <2> QED
    BY <1>5, Zenon
<1>7. Number(digits) = v[L]
  BY DEF Number
<1> HIDE DEF v
<1>8. v[0] = h[0] /\ \A k \in 1 .. L : v[k - 1] = h[k - 1] => v[k] = h[k]
  <2>1. v[0] = 0
    BY <1>1, <1>6
  <2>2. ASSUME NEW k \in 1 .. L  PROVE v[k] = 10 * v[k - 1] + digits[k]
    BY <1>1, <1>6
  <2> QED
    BY <1>3, <1>4, <2>1, <2>2
<1> HIDE DEF F
<1>9. \A k \in 0 .. L : v[k] = h[k]
  <2>1. L \in Nat
    BY <1>1
  <2>2. DOMAIN v = 0 .. L
    BY <1>6 DEF F
  <2> HIDE DEF L
  <2> QED
    BY <1>8, <2>1, <2>2, LoopUnique
<1>10. Number(digits) = h[L]
  BY <1>1, <1>7, <1>9
<1> QED
  BY <1>3, <1>4, <1>10

\* What parse_index reads is the number, but for a multiple of the range of an
\* int, and the number itself if an int holds it.
LEMMA ParseFacts ==
    ASSUME NEW digits \in Seq(0 .. 9), digits # <<>>
    PROVE  /\ parse_index(digits) \in Int
           /\ Number(digits) \in Nat
           /\ \E q \in Int : Number(digits) = parse_index(digits) + q * Full
           /\ Number(digits) < Half => parse_index(digits) = Number(digits)
<1> DEFINE L == Len(digits)
<1>1. L \in Nat /\ \A k \in 1 .. L : digits[k] \in 0 .. 9
  OBVIOUS
<1>2. PICK v \in [0 .. L -> Int] :
         /\ v[0] = 0
         /\ \A k \in 1 .. L : v[k] = Wrap(10 * v[k - 1] + digits[k])
         /\ parse_index(digits) = v[L]
  BY ParseRuns
<1>3. PICK n \in [0 .. L -> Int] :
         /\ n[0] = 0
         /\ \A k \in 1 .. L : n[k] = 10 * n[k - 1] + digits[k]
         /\ Number(digits) = n[L]
  BY NumberRuns
<1> HIDE DEF L
<1>4. Half \in Nat /\ Full \in Nat
  BY IntFacts
<1> DEFINE Good(k) == /\ n[k] \in Nat
                      /\ \E q \in Int : n[k] = v[k] + q * Full
                      /\ n[k] < Half => v[k] = n[k]
           T == {k \in Nat : k <= L => Good(k)}
<1>5. ASSUME NEW k \in Nat, k + 1 <= L, Good(k)  PROVE Good(k + 1)
  <2>1. k + 1 \in 1 .. L /\ (k + 1) - 1 = k /\ k \in 0 .. L
    BY <1>1, <1>5
  <2>2. PICK d \in 0 .. 9 : d = digits[k + 1]
    BY <1>1, <2>1
  <2>3. PICK i \in Nat : i = n[k]
    BY <1>5
  <2>4. PICK j \in Int : j = v[k]
    BY <1>2, <2>1
  <2>5. n[k + 1] = 10 * i + d /\ v[k + 1] = Wrap(10 * j + d)
    BY <1>2, <1>3, <2>1, <2>2, <2>3, <2>4
  <2>6. PICK q \in Int : i = j + q * Full
    BY <1>5, <2>3, <2>4
  <2>7. 10 * j + d \in Int
    OBVIOUS
  <2>8. PICK p \in Int : 10 * j + d = Wrap(10 * j + d) + p * Full
    BY <2>7, WrapFacts
  <2>9. Wrap(10 * j + d) \in Int
    BY <2>7, WrapFacts
  <2>10. n[k + 1] = v[k + 1] + (p + 10 * q) * Full
    <3>1. 10 * i + d = (10 * j + d) + (10 * q) * Full
      BY <1>4, <2>6
    <3>2. (10 * j + d) + (10 * q) * Full = Wrap(10 * j + d) + (p + 10 * q) * Full
      <4>1. PICK w \in Int : w = Wrap(10 * j + d)
        BY <2>9
      <4>2. 10 * j + d = w + p * Full
        BY <2>8, <4>1
      <4>3. p * Full + (10 * q) * Full = (p + 10 * q) * Full
        BY <1>4
      <4>4. p * Full \in Int /\ (10 * q) * Full \in Int
        BY <1>4
      <4> QED
        BY <4>1, <4>2, <4>3, <4>4
    <3> QED
      BY <2>5, <3>1, <3>2
  <2>11. ASSUME n[k + 1] < Half  PROVE v[k + 1] = n[k + 1]
    <3>1. i < Half
      BY <1>4, <2>5, <2>11
    <3>2. j = i
      BY <1>5, <2>3, <2>4, <3>1
    <3>3. 10 * j + d \in 0 .. Half - 1
      BY <1>4, <2>5, <2>11, <3>2
    <3> QED
      BY <2>5, <2>7, <3>2, <3>3, WrapFacts
  <2>12. p + 10 * q \in Int /\ n[k + 1] \in Nat
    BY <2>5
  <2> QED
    BY <2>10, <2>11, <2>12
<1>6. Good(0)
  BY <1>2, <1>3, <1>4
<1> HIDE DEF Good
<1>7. T = Nat
  <2>1. 0 \in T
    BY <1>6
  <2>2. ASSUME NEW k \in T  PROVE k + 1 \in T
    <3>1. CASE k + 1 <= L
      BY <1>1, <1>5, <3>1
    <3>2. CASE ~(k + 1 <= L)
      BY <3>2
    <3> QED
      BY <3>1, <3>2
  <2> HIDE DEF T
  <2> QED
    BY <2>1, <2>2, Induction DEF T
<1>8. Good(L)
  BY <1>1, <1>7
<1> QED
  BY <1>1, <1>2, <1>3, <1>8 DEF Good

\* No digits, no number.
LEMMA NumberOfEmpty == Number(<<>>) = 0
<1>1. <<>> \in Seq(0 .. 9) /\ Len(<<>>) = 0
  OBVIOUS
<1> QED
  BY <1>1, NumberRuns

\* The decimal digits of a register number are digits of that number,
LEMMA DecimalFacts ==
    ASSUME NEW n \in 0 .. 31
    PROVE  /\ Decimal(n) \in Seq(0 .. 9) /\ Decimal(n) # <<>>
           /\ Number(Decimal(n)) = n
<1>1. CASE n < 10
  <2>1. Decimal(n) = <<n>> /\ n \in 0 .. 9
    BY <1>1 DEF Decimal
  <2>2. <<n>> \in Seq(0 .. 9) /\ Len(<<n>>) = 1 /\ <<n>> # <<>> /\ <<n>>[1] = n
    BY <2>1
  <2>3. PICK h \in [0 .. 1 -> Int] :
           /\ h[0] = 0 /\ Number(<<n>>) = h[1]
           /\ \A k \in 1 .. 1 : h[k] = 10 * h[k - 1] + <<n>>[k]
    BY <2>2, NumberRuns
  <2>4. h[1] = n
    BY <2>2, <2>3
  <2> QED
    BY <2>1, <2>2, <2>3, <2>4
<1>2. CASE ~(n < 10)
  <2> DEFINE a == n \div 10
             b == n % 10
  <2>1. a \in 0 .. 9 /\ b \in 0 .. 9 /\ n = 10 * a + b
    BY <1>2
  <2>2. Decimal(n) = <<a, b>>
    BY <1>2 DEF Decimal
  <2> HIDE DEF a, b
  <2>3. /\ <<a, b>> \in Seq(0 .. 9) /\ Len(<<a, b>>) = 2 /\ <<a, b>> # <<>>
        /\ <<a, b>>[1] = a /\ <<a, b>>[2] = b
    BY <2>1
  <2>4. PICK h \in [0 .. 2 -> Int] :
           /\ h[0] = 0 /\ Number(<<a, b>>) = h[2]
           /\ \A k \in 1 .. 2 : h[k] = 10 * h[k - 1] + <<a, b>>[k]
    BY <2>3, NumberRuns
  <2>5. h[1] = a /\ h[2] = 10 * a + b
    <3>1. h[1] = a
      BY <2>1, <2>3, <2>4
    <3>2. h[2] = 10 * h[2 - 1] + b
      BY <2>3, <2>4
    <3> QED
      BY <3>1, <3>2
  <2> QED
    BY <2>1, <2>2, <2>3, <2>4, <2>5
<1> QED
  BY <1>1, <1>2

\* A register number, in decimal, is read back.
LEMMA ParseDecimal == \A n \in 0 .. 31 : parse_index(Decimal(n)) = n
<1> SUFFICES ASSUME NEW n \in 0 .. 31  PROVE parse_index(Decimal(n)) = n
  OBVIOUS
<1>1. Half \in Nat /\ Half >= 32
  BY IntFacts
<1>2. n < Half
  BY <1>1
<1>3. Number(Decimal(n)) = n
  BY DecimalFacts
<1> QED
  BY <1>2, <1>3, DecimalFacts, ParseFacts

\* Different numbers have different digits, and -1 has none.
LEMMA DecimalInjective ==
    \A m, n \in -1 .. 31 : Decimal(m) = Decimal(n) => m = n
<1> SUFFICES ASSUME NEW m \in -1 .. 31, NEW n \in -1 .. 31, Decimal(m) = Decimal(n)
             PROVE  m = n
  OBVIOUS
<1>1. Decimal(-1) = <<>>
  BY DEF Decimal
<1>2. ASSUME NEW k \in -1 .. 31, k # -1
      PROVE  Decimal(k) # <<>> /\ Number(Decimal(k)) = k
  <2>1. k \in 0 .. 31
    BY <1>2
  <2> QED
    BY <2>1, DecimalFacts
<1>3. CASE m = -1 \/ n = -1
  BY <1>1, <1>2, <1>3
<1>4. CASE m # -1 /\ n # -1
  BY <1>2, <1>4
<1> QED
  BY <1>3, <1>4

-----------------------------------------------------------------------------
(* Names.                                                                  *)

\* The registers there are, and the parts of registers.
LEMMA ViewFacts ==
    ASSUME NEW r \in Views
    PROVE  /\ r.kind \in {"x", "v", "sp", "pc", "pstate", "fpsr", "fpcr",
                          "brk_addr", "brk_ctrl", "watch_addr", "watch_ctrl"}
           /\ r.n \in -1 .. 31
           /\ r = [kind |-> r.kind, n |-> r.n, lane |-> 0]
BY DEF Views

LEMMA PartFacts ==
    ASSUME NEW r \in Parts
    PROVE  /\ r.kind \in {"w", "s", "d", "4s", "2d"}
           /\ r.n \in 0 .. 31
           /\ r.kind = "w" => r.n \in 0 .. 30
           /\ r.lane \in 0 .. 3
           /\ r.kind = "2d" => r.lane \in 0 .. 1
           /\ r.kind \in {"w", "s", "d"} => r.lane = 0
           /\ r = [kind |-> r.kind, n |-> r.n, lane |-> r.lane]
BY DEF Parts

\* How each is spelled.
LEMMA SpellingFacts ==
    ASSUME NEW h
    PROVE  /\ h.kind \in {"4s", "2d"} =>
                /\ Spelling(h).head = "v" /\ Spelling(h).index = Decimal(h.n)
                /\ Spelling(h).lane = <<h.lane>> /\ Spelling(h).tail = "]"
                /\ Spelling(h).rest = IF h.kind = "4s" THEN ".4s[" ELSE ".2d["
           /\ h.kind \notin {"4s", "2d"} =>
                /\ Spelling(h).head = h.kind /\ Spelling(h).index = Decimal(h.n)
                /\ Spelling(h).rest = ""
<1>1. CASE h.kind \in {"4s", "2d"}
  BY <1>1 DEF Spelling
<1>2. CASE h.kind \notin {"4s", "2d"}
  BY <1>2 DEF Spelling
<1> QED
  BY <1>1, <1>2

\* The name of a register finds it, and only it.
LEMMA ViewFound ==
    ASSUME NEW name, NEW h \in Views, name.head = h.kind, name.rest = "",
           name.index = Decimal(h.n)
    PROVE  resolve(name) = h
<1> DEFINE full == {r \in Views : /\ name.head = r.kind /\ name.rest = ""
                                  /\ name.index = Decimal(r.n)}
<1>1. h \in full
  OBVIOUS
<1>2. ASSUME NEW r \in full  PROVE r = h
  <2>1. r \in Views /\ r.kind = h.kind /\ Decimal(r.n) = Decimal(h.n)
    OBVIOUS
  <2>2. r.n \in -1 .. 31 /\ h.n \in -1 .. 31
    BY <2>1, ViewFacts
  <2>3. r.n = h.n
    BY <2>1, <2>2, DecimalInjective
  <2> QED
    BY <2>1, <2>3, ViewFacts
<1>3. resolve(name) = IF full # {} THEN CHOOSE r \in full : TRUE
                                   ELSE parse_subregister_name(name)
  BY DEF resolve
<1> HIDE DEF full
<1> QED
  BY <1>1, <1>2, <1>3

\* A name that no register has is looked for among the parts.
LEMMA NoView ==
    ASSUME NEW name,
           \A r \in Views : ~(/\ name.head = r.kind /\ name.rest = ""
                              /\ name.index = Decimal(r.n))
    PROVE  resolve(name) = parse_subregister_name(name)
BY DEF resolve

\* The name of a part finds that part.
LEMMA PartFound ==
    ASSUME NEW h \in Parts
    PROVE  resolve(Spelling(h)) = h
<1> DEFINE name == Spelling(h)
<1>1. h.n \in 0 .. 31 /\ parse_index(Decimal(h.n)) = h.n
  BY PartFacts, ParseDecimal
<1>2. DOMAIN LastIndex = {"w", "s", "d", "v"} /\ LastIndex["w"] = 30
      /\ LastIndex["s"] = 31 /\ LastIndex["d"] = 31 /\ LastIndex["v"] = 31
  BY DEF LastIndex
<1>3. CASE h.kind \in {"w", "s", "d"}
  <2>1. name.head = h.kind /\ name.index = Decimal(h.n) /\ name.rest = ""
    BY <1>3, SpellingFacts
  <2>2. \A r \in Views : name.head # r.kind
    BY <1>3, <2>1, ViewFacts
  <2>3. resolve(name) = parse_subregister_name(name)
    BY <2>2, NoView
  <2>4. parse_subregister_name(name) = [kind |-> h.kind, n |-> h.n, lane |-> 0]
    <3>1. h.n \in 0 .. LastIndex[h.kind]
      BY <1>2, <1>3, PartFacts
    <3> HIDE DEF name
    <3> QED
      BY <1>1, <1>2, <1>3, <2>1, <3>1 DEF parse_subregister_name
  <2> QED
    BY <1>3, <2>3, <2>4, PartFacts
<1>4. CASE h.kind \in {"4s", "2d"}
  <2>1. /\ name.head = "v" /\ name.index = Decimal(h.n) /\ name.lane = <<h.lane>>
        /\ name.tail = "]" /\ name.rest = IF h.kind = "4s" THEN ".4s[" ELSE ".2d["
    BY <1>4, SpellingFacts
  <2>2. resolve(name) = parse_subregister_name(name)
    <3>1. name.rest # ""
      BY <2>1
    <3> QED
      BY <3>1, NoView
  <2>3. h.lane \in 0 .. 3 /\ parse_index(<<h.lane>>) = h.lane
    <3>1. h.lane \in 0 .. 3
      BY PartFacts
    <3>2. Decimal(h.lane) = <<h.lane>>
      BY <3>1 DEF Decimal
    <3>3. h.lane \in 0 .. 31
      BY <3>1
    <3> QED
      BY <3>1, <3>2, <3>3, ParseDecimal
  <2> HIDE DEF name
  <2>4. CASE h.kind = "4s"
    <3>1. parse_subregister_name(name) = [kind |-> "4s", n |-> h.n, lane |-> h.lane]
      BY <1>1, <1>2, <2>1, <2>3, <2>4 DEF parse_subregister_name
    <3> QED
      BY <2>2, <2>4, <3>1, PartFacts DEF name
  <2>5. CASE h.kind = "2d"
    <3>1. h.lane \in 0 .. 1
      BY <2>5, PartFacts
    <3>2. parse_subregister_name(name) = [kind |-> "2d", n |-> h.n, lane |-> h.lane]
      BY <1>1, <1>2, <2>1, <2>3, <2>5, <3>1 DEF parse_subregister_name
    <3> QED
      BY <2>2, <2>5, <3>2, PartFacts DEF name
  <2> QED
    BY <1>4, <2>4, <2>5
<1> QED
  BY <1>3, <1>4, PartFacts

\* The digits are those of n, up to the overflow of an int.
Means(digits, n) ==
    /\ Number(digits) % Full = n
    /\ Number(digits) < Half => Number(digits) = n

\* Where an index is accepted, the digits mean it.
LEMMA Meant ==
    ASSUME NEW digits \in Seq(0 .. 9), parse_index(digits) \in 0 .. 31
    PROVE  Means(digits, parse_index(digits))
<1>1. Half \in Nat /\ Half >= 32 /\ Full \in Nat /\ Full = 2 * Half
  BY IntFacts
<1>2. CASE digits = <<>>
  BY <1>2 DEF parse_index
<1>3. CASE digits # <<>>
  <2>1. PICK q \in Int : Number(digits) = parse_index(digits) + q * Full
    BY <1>3, ParseFacts
  <2>2. PICK p \in 0 .. 31 : p = parse_index(digits)
    OBVIOUS
  <2>3. p \in 0 .. Full - 1
    BY <1>1
  <2>4. (p + q * Full) % Full = p
    BY <1>1, <2>3, RemainderUnique
  <2>5. Number(digits) % Full = parse_index(digits)
    BY <2>1, <2>2, <2>4
  <2> QED
    BY <1>3, <2>5, ParseFacts DEF Means
<1> QED
  BY <1>2, <1>3

\* What the parser of parts finds has the name that was given.
LEMMA PartNamed ==
    ASSUME NEW name \in Names, NEW h, h = parse_subregister_name(name), h # NoHandle
    PROVE  /\ h \in Parts
           /\ name.head = Spelling(h).head /\ name.rest = Spelling(h).rest
           /\ Means(name.index, h.n)
           /\ Means(name.lane, h.lane)
<1> DEFINE n == parse_index(name.index)
           l == parse_index(name.lane)
<1>1. /\ name.index \in Seq(0 .. 9) /\ name.lane \in Seq(0 .. 9)
      /\ name.rest = "" => name.lane = <<>>
  BY RegisterTextAssumption DEF Name
<1>2. DOMAIN LastIndex = {"w", "s", "d", "v"} /\ LastIndex["w"] = 30
      /\ LastIndex["s"] = 31 /\ LastIndex["d"] = 31 /\ LastIndex["v"] = 31
  BY DEF LastIndex
<1>3. /\ name.head \in {"w", "s", "d", "v"}
      /\ n \in 0 .. LastIndex[name.head]
  <2>1. name.head \notin DOMAIN LastIndex \/ n \notin 0 .. LastIndex[name.head]
        => parse_subregister_name(name) = NoHandle
    <3>1. CASE name.head \notin DOMAIN LastIndex
      BY <3>1 DEF parse_subregister_name
    <3>2. CASE n \notin 0 .. LastIndex[name.head]
      BY <3>2 DEF parse_subregister_name
    <3> QED
      BY <3>1, <3>2
  <2> HIDE DEF n
  <2> QED
    BY <1>2, <2>1
<1>4. n \in 0 .. 31 /\ (name.head = "w" => n \in 0 .. 30)
  BY <1>2, <1>3
<1>5. Means(name.index, n)
  BY <1>1, <1>4, Meant
<1> HIDE DEF n, l
<1>6. CASE name.head # "v" /\ name.rest = ""
  <2>1. h = [kind |-> name.head, n |-> n, lane |-> 0]
    BY <1>2, <1>3, <1>6 DEF parse_subregister_name, n
  <2>2. Means(name.lane, 0)
    <3>1. Full \in Nat /\ Full >= 1
      BY IntFacts
    <3>2. 0 % Full = 0
      BY <3>1
    <3> QED
      BY <1>1, <1>6, <3>2, NumberOfEmpty DEF Means
  <2>3. h \in Parts
    <3>1. CASE name.head = "w"
      BY <1>4, <2>1, <3>1 DEF Parts
    <3>2. CASE name.head \in {"s", "d"}
      BY <1>4, <2>1, <3>2 DEF Parts
    <3> QED
      BY <1>3, <1>6, <3>1, <3>2
  <2>4. Spelling(h).head = name.head /\ Spelling(h).rest = ""
    <3>1. h.kind = name.head
      BY <2>1
    <3>2. h.kind \notin {"4s", "2d"}
      BY <1>3, <3>1
    <3> QED
      BY <3>1, <3>2, SpellingFacts
  <2>5. h.n = n /\ h.lane = 0
    BY <2>1
  <2>6. Means(name.index, h.n) /\ Means(name.lane, h.lane)
    BY <1>5, <2>2, <2>5 DEF Means
  <2> QED
    BY <1>6, <2>3, <2>4, <2>6
<1>7. CASE name.head = "v" /\ name.rest \in {".4s[", ".2d["}
  <2>1. PICK k \in {"4s", "2d"} :
           /\ h = [kind |-> k, n |-> n, lane |-> l]
           /\ name.rest = IF k = "4s" THEN ".4s[" ELSE ".2d["
           /\ l \in 0 .. IF k = "4s" THEN 3 ELSE 1
    BY <1>2, <1>3, <1>7 DEF parse_subregister_name, n, l
  <2>2. l \in 0 .. 31
    BY <2>1
  <2>3. Means(name.lane, l)
    BY <1>1, <2>2, Meant DEF l
  <2>4. h \in Parts
    <3>1. CASE k = "4s"
      BY <1>4, <2>1, <3>1 DEF Parts
    <3>2. CASE k = "2d"
      BY <1>4, <2>1, <3>2 DEF Parts
    <3> QED
      BY <3>1, <3>2
  <2>5. Spelling(h).head = "v" /\ Spelling(h).rest = name.rest
    <3>1. h.kind = k
      BY <2>1
    <3> QED
      BY <2>1, <3>1, SpellingFacts
  <2> QED
    BY <1>5, <1>7, <2>1, <2>3, <2>4, <2>5
<1>8. (name.head # "v" /\ name.rest = "") \/ (name.head = "v" /\ name.rest \in {".4s[", ".2d["})
  BY <1>2, <1>3 DEF parse_subregister_name, n
<1> QED
  BY <1>6, <1>7, <1>8

\* No name stands for a register it does not spell.
LEMMA NameResolved ==
    ASSUME NEW name \in Names, NEW h, h = resolve(name), h # NoHandle
    PROVE  /\ h \in Views \cup Parts
           /\ name.head = Spelling(h).head /\ name.rest = Spelling(h).rest
           /\ h.n >= 0 => Means(name.index, h.n)
           /\ h \in Parts => Means(name.lane, h.lane)
<1>1. CASE \E r \in Views : /\ name.head = r.kind /\ name.rest = ""
                            /\ name.index = Decimal(r.n)
  <2>1. PICK r \in Views : /\ name.head = r.kind /\ name.rest = ""
                           /\ name.index = Decimal(r.n)
    BY <1>1
  <2>2. h = r
    BY <2>1, ViewFound
  <2>3. h \in Views /\ h \notin Parts
    BY <2>1, <2>2, ViewFacts, PartFacts
  <2>4. name.head = Spelling(h).head /\ name.rest = Spelling(h).rest
    <3>1. h.kind \notin {"4s", "2d"}
      BY <2>3, ViewFacts
    <3> QED
      BY <2>1, <2>2, <3>1, SpellingFacts
  <2>5. ASSUME h.n >= 0  PROVE Means(name.index, h.n)
    <3>1. PICK n \in 0 .. 31 : n = h.n
      BY <2>3, <2>5, ViewFacts
    <3>2. name.index = Decimal(n) /\ Number(name.index) = n
      BY <2>1, <2>2, <3>1, DecimalFacts
    <3>3. Full \in Nat /\ Full >= 32
      BY IntFacts
    <3>4. n % Full = n
      BY <3>3
    <3> QED
      BY <3>1, <3>2, <3>4 DEF Means
  <2> QED
    BY <2>3, <2>4, <2>5
<1>2. CASE ~\E r \in Views : /\ name.head = r.kind /\ name.rest = ""
                             /\ name.index = Decimal(r.n)
  <2>1. h = parse_subregister_name(name)
    BY <1>2, NoView
  <2> QED
    BY <2>1, PartNamed
<1> QED
  BY <1>1, <1>2

\* Every register and every part is found under its own name, and no name finds
\* a register it does not spell, up to the overflow of an int
\* (parse_subregister_name, Registers::resolve).
THEOREM NamesAreExact == ExactNames
<1>1. ASSUME NEW h \in Views \cup Parts  PROVE resolve(Spelling(h)) = h
  <2>1. CASE h \in Views
    <3>1. h.kind \notin {"4s", "2d"}
      BY <2>1, ViewFacts
    <3> QED
      BY <2>1, <3>1, SpellingFacts, ViewFound
  <2> QED
    BY <2>1, PartFound
<1> QED
  BY <1>1, NameResolved DEF ExactNames, Means, Half, Full
=============================================================================
