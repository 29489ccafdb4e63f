------------------------- MODULE RegisterFileProofs -------------------------
(***************************************************************************)
(* The register cache implements the abstract register file: for every     *)
(* width of a word, each write to a name changes the process's registers   *)
(* once, as the architecture has it, however many requests it takes and    *)
(* wherever it fails.                                                      *)
(***************************************************************************)
EXTENDS RegistersProofs

\* The register file as the process shows it; the write not yet carried out.
xbar == Words(kernel.gpr, 2)
vbar == Words(kernel.fpr, 4)
rbar == IF op = "write" /\ ~Carried
        THEN {[name |-> handle, value |-> Words(value, 4)]} ELSE {}

\* The word of zeros.
Zero == [b \in 0 .. W - 1 |-> 0]

\* Where a word starts.
At(w) == W * w

\* What a save has still to move is the write, made to the process's registers.
Pending ==
    op = "write" /\ life = "stopped" =>
        /\ bank = 1 => cache.gpr = write(kernel, handle, value).gpr
        /\ bank \in {1, 2} => cache.fpr = write(kernel, handle, value).fpr

-----------------------------------------------------------------------------
(* Words of a register.                                                    *)

\* A word is known by its bits.
LEMMA WordIs ==
    ASSUME NEW reg, NEW n \in {2, 4}, NEW w \in 0 .. n - 1, NEW word \in Bits(W),
           \A b \in 0 .. W - 1 : reg[At(w) + b] = word[b]
    PROVE  Words(reg, n)[w] = word
BY DEF Words, Bits, At

\* The words of a register are words.
LEMMA WordType ==
    ASSUME NEW n \in {2, 4}, NEW reg \in Bits(n * W), NEW w \in 0 .. n - 1
    PROVE  /\ Words(reg, n)[w] \in Bits(W)
           /\ \A b \in 0 .. W - 1 : Words(reg, n)[w][b] = reg[At(w) + b]
<1>1. Words(reg, n)[w] = [b \in 0 .. W - 1 |-> reg[W * w + b]]
  BY DEF Words
<1>2. ASSUME NEW b \in 0 .. W - 1  PROVE W * w + b \in 0 .. n * W - 1
  <2>1. CASE n = 2
    <3>1. w \in {0, 1}
      BY <2>1
    <3> QED
      BY <2>1, <3>1, WAssumption
  <2>2. CASE n = 4
    <3>1. w \in {0, 1, 2, 3}
      BY <2>2
    <3> QED
      BY <2>2, <3>1, WAssumption
  <2> QED
    BY <2>1, <2>2
<1>3. ASSUME NEW b \in 0 .. W - 1  PROVE reg[W * w + b] \in {0, 1}
  BY <1>2 DEF Bits
<1> QED
  BY <1>1, <1>3 DEF Bits, At

\* The zero word is a word of zeros.
LEMMA ZeroType ==
    Zero \in Bits(W) /\ \A b \in 0 .. W - 1 : Zero[b] = 0
BY DEF Zero, Bits

\* Words follow each other: a bit of one is below every bit of the next.
LEMMA WordOrder ==
    ASSUME NEW i \in 0 .. 4, NEW j \in 0 .. 4, NEW b \in 0 .. W - 1
    PROVE  /\ At(i) \in Nat
           /\ i < j => At(i) + b < At(j)
           /\ i >= j => At(i) + b >= At(j)
           /\ i >= j => (At(i) + b) - At(j) = At(i - j) + b
<1> USE WAssumption DEF At
<1>1. CASE i = 0
  BY <1>1
<1>2. CASE i = 1
  BY <1>2
<1>3. CASE i = 2
  BY <1>3
<1>4. CASE i = 3
  BY <1>4
<1>5. CASE i = 4
  BY <1>5
<1> QED
  BY <1>1, <1>2, <1>3, <1>4, <1>5

\* The slice of a view, from where it starts and how long it is.
LEMMA SliceIs ==
    ASSUME NEW sv, NEW from \in Nat, NEW size \in Nat,
           sv.bit_offset = from, sv.bit_size = size
    PROVE  Slice(sv) = from .. from + size - 1
BY DEF Slice

\* Of a view of s words from word o on, whose policy keeps the first k words of
\* its n word parent: what each word of the parent is after a write.
LEMMA ViewWords ==
    ASSUME NEW sv, NEW n \in {2, 4}, NEW o \in 0 .. 3, NEW s \in {1, 2}, NEW k \in 1 .. 4,
           o + s <= n, k <= n,
           sv.bit_offset = At(o), sv.bit_size = At(s), sv.parent_bits = At(n),
           Kept(sv) = 0 .. At(k) - 1,
           NEW parent \in Bits(n * W), NEW val \in Bits(4 * W), NEW w \in 0 .. n - 1
    PROVE  LET new == Words(write_u64(sv, parent, Truncate(val, 2 * W)), n)[w] IN
           /\ w >= k => new = Zero
           /\ w < k /\ w >= o /\ w < o + s => new = Words(val, 4)[w - o]
           /\ w < k /\ (w < o \/ w >= o + s) => new = Words(parent, n)[w]
<1> DEFINE low == Truncate(val, 2 * W)
           reg == write_u64(sv, parent, low)
<1>0. /\ \A i \in 0 .. 4 : At(i) \in Nat
      /\ At(o + s) = At(o) + At(s)
      /\ At(2) = 2 * W
  BY WAssumption DEF At
<1> HIDE DEF low
<1>1. ASSUME NEW b \in 0 .. W - 1
      PROVE  /\ At(w) + b \in 0 .. sv.parent_bits - 1
             /\ At(w) + b \in Kept(sv) <=> w < k
             /\ At(w) + b \in Slice(sv) <=> w >= o /\ w < o + s
  <2>1. b \in Nat
    BY WAssumption
  <2>0. w \in 0 .. 4 /\ n \in 0 .. 4 /\ k \in 0 .. 4 /\ o \in 0 .. 4 /\ o + s \in 0 .. 4 /\ w < n
    OBVIOUS
  <2>2. At(w) + b < At(n)
    BY <2>0, WordOrder
  <2>3. (w < k => At(w) + b < At(k)) /\ (w >= k => At(w) + b >= At(k))
    BY <2>0, WordOrder
  <2>4. (w < o => At(w) + b < At(o)) /\ (w >= o => At(w) + b >= At(o))
    BY <2>0, WordOrder
  <2>5. /\ w < o + s => At(w) + b < At(o + s)
        /\ w >= o + s => At(w) + b >= At(o + s)
    BY <2>0, WordOrder
  <2>6. At(w) \in Nat /\ At(n) \in Nat /\ At(k) \in Nat /\ At(o) \in Nat /\ At(o + s) \in Nat
    BY <1>0, <2>0
  <2>12. PICK i \in Nat : i = At(w) + b
    BY <2>1, <2>6
  <2>13. PICK wide \in Nat : wide = At(n)
    BY <2>6
  <2>14. PICK keep \in Nat : keep = At(k)
    BY <2>6
  <2>15. PICK from \in Nat : from = At(o)
    BY <2>6
  <2>16. PICK to \in Nat : to = At(o + s)
    BY <2>6
  <2>10. /\ i = At(w) + b /\ wide = At(n) /\ keep = At(k)
         /\ from = At(o) /\ to = At(o + s)
    BY <2>12, <2>13, <2>14, <2>15, <2>16
  <2>11. /\ i < wide
         /\ (w < k => i < keep) /\ (w >= k => i >= keep)
         /\ (w < o => i < from) /\ (w >= o => i >= from)
         /\ (w < o + s => i < to) /\ (w >= o + s => i >= to)
    BY <2>2, <2>3, <2>4, <2>5, <2>10
  <2>7. At(w) + b \in 0 .. sv.parent_bits - 1
    <3>1. i \in 0 .. wide - 1
      BY <2>11
    <3> QED
      BY <2>10, <3>1
  <2>8. At(w) + b \in Kept(sv) <=> w < k
    <3>1. i \in 0 .. keep - 1 <=> w < k
      BY <2>11
    <3> QED
      BY <2>10, <3>1
  <2>9. At(w) + b \in Slice(sv) <=> w >= o /\ w < o + s
    <3>1. PICK size \in Nat : size = At(s)
      BY <1>0
    <3>2. to = from + size
      BY <1>0, <2>10, <3>1
    <3>3. Slice(sv) = from .. from + size - 1
      <4>1. sv.bit_offset = from /\ sv.bit_size = size
        BY <2>10, <3>1
      <4> QED
        BY <2>15, <3>1, <4>1, SliceIs, Zenon
    <3>4. i \in from .. from + size - 1 <=> w >= o /\ w < o + s
      BY <2>11, <3>2
    <3>5. i \in Slice(sv) <=> w >= o /\ w < o + s
      BY <3>3, <3>4
    <3> QED
      BY <2>12, <3>5
  <2> QED
    BY <2>7, <2>8, <2>9
<1>3. CASE w >= k
  <2>1. ASSUME NEW b \in 0 .. W - 1  PROVE reg[At(w) + b] = Zero[b]
    <3>1. PICK i \in 0 .. sv.parent_bits - 1 : i = At(w) + b
      BY <1>1
    <3>2. i \notin Kept(sv)
      BY <1>1, <1>3, <3>1
    <3> QED
      BY <3>1, <3>2, ZeroType DEF write_u64
  <2>2. Words(reg, n)[w] = Zero
    BY <2>1, ZeroType, WordIs
  <2> QED
    BY <1>3, <2>2 DEF low
<1>4. CASE w < k /\ w >= o /\ w < o + s
  <2>1. w - o \in {0, 1}
    BY <1>4
  <2>2. /\ Words(val, 4)[w - o] \in Bits(W)
        /\ \A b \in 0 .. W - 1 : Words(val, 4)[w - o][b] = val[At(w - o) + b]
    BY <2>1, WordType DEF At
  <2>3. ASSUME NEW b \in 0 .. W - 1  PROVE reg[At(w) + b] = Words(val, 4)[w - o][b]
    <3>1. reg[At(w) + b] = low[(At(w) + b) - sv.bit_offset]
      <4>1. PICK i \in 0 .. sv.parent_bits - 1 : i = At(w) + b
        BY <1>1
      <4> QED
        BY <1>1, <1>4, <4>1 DEF write_u64
    <3>2. (At(w) + b) - At(o) = At(w - o) + b
      <4>1. w \in 0 .. 4 /\ o \in 0 .. 4
        OBVIOUS
      <4> QED
        BY <1>4, <4>1, WordOrder
    <3>3. At(w - o) + b \in 0 .. 2 * W - 1
      BY <2>1, WAssumption DEF At
    <3>4. low[At(w - o) + b] = val[At(w - o) + b]
      BY <3>3 DEF Truncate, low
    <3> HIDE DEF reg
    <3> QED
      BY <2>2, <3>1, <3>2, <3>4
  <2>4. Words(reg, n)[w] = Words(val, 4)[w - o]
    BY <2>2, <2>3, WordIs
  <2> QED
    BY <1>4, <2>4 DEF low
<1>5. CASE w < k /\ (w < o \/ w >= o + s)
  <2>1. /\ Words(parent, n)[w] \in Bits(W)
        /\ \A b \in 0 .. W - 1 : Words(parent, n)[w][b] = parent[At(w) + b]
    BY WordType DEF At
  <2>2. ASSUME NEW b \in 0 .. W - 1  PROVE reg[At(w) + b] = Words(parent, n)[w][b]
    <3>1. PICK i \in 0 .. sv.parent_bits - 1 : i = At(w) + b
      BY <1>1
    <3>2. reg[i] = parent[i]
      <4>1. i \in Kept(sv) /\ i \notin Slice(sv)
        BY <1>1, <1>5, <3>1
      <4> QED
        BY <4>1 DEF write_u64
    <3> HIDE DEF reg
    <3> QED
      BY <2>1, <3>1, <3>2
  <2>3. Words(reg, n)[w] = Words(parent, n)[w]
    BY <2>1, <2>2, WordIs
  <2> QED
    BY <1>5, <2>3 DEF low
<1> QED
  BY <1>3, <1>4, <1>5 DEF low

\* A full register takes the value's low words.
LEMMA FullWords ==
    ASSUME NEW n \in {2, 4}, NEW val \in Bits(4 * W), NEW w \in 0 .. n - 1
    PROVE  Words(Truncate(val, n * W), n)[w] = Words(val, 4)[w]
<1>1. /\ Words(val, 4)[w] \in Bits(W)
      /\ \A b \in 0 .. W - 1 : Words(val, 4)[w][b] = val[At(w) + b]
  BY WordType
<1>2. ASSUME NEW b \in 0 .. W - 1
      PROVE  Truncate(val, n * W)[At(w) + b] = Words(val, 4)[w][b]
  <2>1. At(w) + b \in 0 .. n * W - 1
    BY WordOrder, WAssumption DEF At
  <2> QED
    BY <1>1, <2>1 DEF Truncate
<1> QED
  BY <1>1, <1>2, WordIs

\* Which words each view is, and which its policy keeps.
LEMMA ViewShapes ==
    /\ make_wn.bit_offset = At(0) /\ make_wn.bit_size = At(1)
    /\ make_wn.parent_bits = At(2) /\ Kept(make_wn) = 0 .. At(1) - 1
    /\ make_sn(TRUE).bit_offset = At(0) /\ make_sn(TRUE).bit_size = At(1)
    /\ make_sn(TRUE).parent_bits = At(4) /\ Kept(make_sn(TRUE)) = 0 .. At(1) - 1
    /\ make_dn(TRUE).bit_offset = At(0) /\ make_dn(TRUE).bit_size = At(2)
    /\ make_dn(TRUE).parent_bits = At(4) /\ Kept(make_dn(TRUE)) = 0 .. At(2) - 1
    /\ \A l \in 0 .. 3 :
          /\ make_vn_lane_s(l).bit_offset = At(l) /\ make_vn_lane_s(l).bit_size = At(1)
          /\ make_vn_lane_s(l).parent_bits = At(4) /\ Kept(make_vn_lane_s(l)) = 0 .. At(4) - 1
    /\ \A l \in {0, 1} :
          /\ make_vn_lane_d(l).bit_offset = At(2 * l) /\ make_vn_lane_d(l).bit_size = At(2)
          /\ make_vn_lane_d(l).parent_bits = At(4) /\ Kept(make_vn_lane_d(l)) = 0 .. At(4) - 1
<1> USE WAssumption DEF At, Kept
<1>1. /\ make_wn.bit_offset = At(0) /\ make_wn.bit_size = At(1)
      /\ make_wn.parent_bits = At(2) /\ Kept(make_wn) = 0 .. At(1) - 1
  BY DEF make_wn
<1>2. /\ make_sn(TRUE).bit_offset = At(0) /\ make_sn(TRUE).bit_size = At(1)
      /\ make_sn(TRUE).parent_bits = At(4) /\ Kept(make_sn(TRUE)) = 0 .. At(1) - 1
  BY DEF make_sn, Scalar
<1>3. /\ make_dn(TRUE).bit_offset = At(0) /\ make_dn(TRUE).bit_size = At(2)
      /\ make_dn(TRUE).parent_bits = At(4) /\ Kept(make_dn(TRUE)) = 0 .. At(2) - 1
  BY DEF make_dn, Scalar
<1>4. ASSUME NEW l \in 0 .. 3
      PROVE  /\ make_vn_lane_s(l).bit_offset = At(l) /\ make_vn_lane_s(l).bit_size = At(1)
             /\ make_vn_lane_s(l).parent_bits = At(4) /\ Kept(make_vn_lane_s(l)) = 0 .. At(4) - 1
  BY DEF make_vn_lane_s, Lane
<1>5. ASSUME NEW l \in {0, 1}
      PROVE  /\ make_vn_lane_d(l).bit_offset = At(2 * l) /\ make_vn_lane_d(l).bit_size = At(2)
             /\ make_vn_lane_d(l).parent_bits = At(4) /\ Kept(make_vn_lane_d(l)) = 0 .. At(4) - 1
  BY DEF make_vn_lane_d, Lane
<1> QED
  BY <1>1, <1>2, <1>3, <1>4, <1>5

\* A word of the general register after a write.
LEMMA GeneralWord ==
    ASSUME NEW sets \in RegisterSets, NEW h \in Handle, General(h), NEW val \in Bits(4 * W),
           NEW w \in {0, 1}
    PROVE  Words(write(sets, h, val).gpr, 2)[w] =
             IF h.kind = "x" \/ w = 0 THEN Words(val, 4)[w] ELSE Zero
<1>1. write(sets, h, val).gpr = Written(sets, h, val)
  BY WriteEffect DEF Parent
<1>2. CASE h.kind = "x"
  <2>1. Written(sets, h, val) = Truncate(val, 2 * W)
    BY <1>2 DEF Written, Full, get_bit_size
  <2>2. Words(Truncate(val, 2 * W), 2)[w] = Words(val, 4)[w]
    BY FullWords
  <2> QED
    BY <1>1, <1>2, <2>1, <2>2
<1>3. CASE h.kind = "w"
  <2>1. Written(sets, h, val) = write_u64(make_wn, sets.gpr, Truncate(val, 2 * W))
    BY <1>3 DEF Written, Full, make_subview, Parent, General
  <2>2. sets.gpr \in Bits(2 * W)
    BY DEF RegisterSets
  <2>3. CASE w = 0
    BY <1>1, <1>3, <2>1, <2>2, <2>3, ViewShapes, ViewWords
  <2>4. CASE w = 1
    BY <1>1, <1>3, <2>1, <2>2, <2>4, ViewShapes, ViewWords
  <2> QED
    BY <2>3, <2>4
<1> QED
  BY <1>2, <1>3 DEF General, Handle

\* A word of the vector register after a write.
LEMMA VectorWord ==
    ASSUME NEW sets \in RegisterSets, NEW h \in Handle, ~General(h), NEW val \in Bits(4 * W),
           NEW w \in 0 .. 3
    PROVE  LET new == Words(write(sets, h, val).fpr, 4)[w]
               old == Words(sets.fpr, 4)[w] IN
           /\ h.kind = "v" => new = Words(val, 4)[w]
           /\ h.kind = "s" => new = IF w = 0 THEN Words(val, 4)[0] ELSE Zero
           /\ h.kind = "d" => new = IF w \in {0, 1} THEN Words(val, 4)[w] ELSE Zero
           /\ h.kind = "4s" => new = IF w = h.lane THEN Words(val, 4)[0] ELSE old
           /\ h.kind = "2d" /\ h.lane = 0 => new = IF w \in {0, 1} THEN Words(val, 4)[w] ELSE old
           /\ h.kind = "2d" /\ h.lane = 1 => new = IF w \in {2, 3} THEN Words(val, 4)[w - 2] ELSE old
<1> DEFINE new == Words(write(sets, h, val).fpr, 4)[w]
           old == Words(sets.fpr, 4)[w]
           through(sv) == Words(write_u64(sv, sets.fpr, Truncate(val, 2 * W)), 4)[w]
<1>1. write(sets, h, val).fpr = Written(sets, h, val)
  BY WriteEffect DEF Parent
<1>2. sets.fpr \in Bits(4 * W)
  BY DEF RegisterSets
<1>3. CASE h.kind = "v"
  <2>1. Written(sets, h, val) = Truncate(val, 4 * W)
    BY <1>3 DEF Written, Full, get_bit_size
  <2>2. new = Words(val, 4)[w]
    BY <1>1, <2>1, FullWords
  <2> QED
    BY <1>3, <2>2
<1>4. Sub(h) => new = through(make_subview(h))
  BY <1>1 DEF Written, Sub, Parent
<1>5. ASSUME NEW sv, NEW o \in 0 .. 3, NEW s \in {1, 2}, NEW k \in 1 .. 4, o + s <= 4,
             sv.bit_offset = At(o), sv.bit_size = At(s), sv.parent_bits = At(4),
             Kept(sv) = 0 .. At(k) - 1
      PROVE  /\ w >= k => through(sv) = Zero
             /\ w < k /\ w >= o /\ w < o + s => through(sv) = Words(val, 4)[w - o]
             /\ w < k /\ (w < o \/ w >= o + s) => through(sv) = old
  BY <1>2, <1>5, ViewWords
<1> HIDE DEF new, old, through
<1>6. CASE h.kind = "s"
  <2>0. PICK sv : sv = make_subview(h)
    OBVIOUS
  <2>1. new = through(sv)
    BY <1>4, <1>6, <2>0 DEF Sub, Full
  <2>2. sv = make_sn(TRUE)
    BY <1>6, <2>0 DEF make_subview
  <2>3. /\ sv.bit_offset = At(0) /\ sv.bit_size = At(1)
        /\ sv.parent_bits = At(4) /\ Kept(sv) = 0 .. At(1) - 1
    BY <2>2, ViewShapes, Zenon
  <2>4. /\ w >= 1 => through(sv) = Zero
        /\ w = 0 => through(sv) = Words(val, 4)[0]
    BY <1>5, <2>3
  <2>5. new = IF w = 0 THEN Words(val, 4)[0] ELSE Zero
    BY <2>1, <2>4
  <2> QED
    BY <1>6, <2>5 DEF new
<1>7. CASE h.kind = "d"
  <2>0. PICK sv : sv = make_subview(h)
    OBVIOUS
  <2>1. new = through(sv)
    BY <1>4, <1>7, <2>0 DEF Sub, Full
  <2>2. sv = make_dn(TRUE)
    BY <1>7, <2>0 DEF make_subview
  <2>3. /\ sv.bit_offset = At(0) /\ sv.bit_size = At(2)
        /\ sv.parent_bits = At(4) /\ Kept(sv) = 0 .. At(2) - 1
    BY <2>2, ViewShapes, Zenon
  <2>4. /\ w >= 2 => through(sv) = Zero
        /\ w < 2 => through(sv) = Words(val, 4)[w]
    BY <1>5, <2>3
  <2>5. new = IF w \in {0, 1} THEN Words(val, 4)[w] ELSE Zero
    BY <2>1, <2>4
  <2> QED
    BY <1>7, <2>5 DEF new
<1>8. CASE h.kind = "4s"
  <2>0. h.lane \in 0 .. 3
    BY <1>8 DEF Handle
  <2>1. new = through(make_vn_lane_s(h.lane))
    BY <1>4, <1>8 DEF Sub, Full, make_subview
  <2>2. PICK l \in 0 .. 3 : l = h.lane
    BY <2>0
  <2>3. /\ w = l => through(make_vn_lane_s(l)) = Words(val, 4)[0]
        /\ w # l => through(make_vn_lane_s(l)) = old
    BY <1>5, ViewShapes
  <2>4. new = IF w = h.lane THEN Words(val, 4)[0] ELSE old
    BY <2>1, <2>2, <2>3
  <2> QED
    BY <1>8, <2>4 DEF new, old
<1>9. CASE h.kind = "2d"
  <2>0. h.lane \in {0, 1}
    BY <1>9 DEF Handle
  <2>1. new = through(make_vn_lane_d(h.lane))
    BY <1>4, <1>9 DEF Sub, Full, make_subview
  <2>2. /\ w < 2 => through(make_vn_lane_d(0)) = Words(val, 4)[w]
        /\ w >= 2 => through(make_vn_lane_d(0)) = old
    BY <1>5, ViewShapes
  <2>3. /\ w >= 2 => through(make_vn_lane_d(1)) = Words(val, 4)[w - 2]
        /\ w < 2 => through(make_vn_lane_d(1)) = old
    BY <1>5, ViewShapes
  <2>4. /\ h.lane = 0 => new = IF w \in {0, 1} THEN Words(val, 4)[w] ELSE old
        /\ h.lane = 1 => new = IF w \in {2, 3} THEN Words(val, 4)[w - 2] ELSE old
    BY <2>1, <2>2, <2>3
  <2> QED
    BY <1>9, <2>4 DEF new, old
<1> QED
  BY <1>3, <1>6, <1>7, <1>8, <1>9 DEF General, Handle

-----------------------------------------------------------------------------
(* What a step does to the process's registers.                            *)

RegsSame == kernel'.gpr = kernel.gpr /\ kernel'.fpr = kernel.fpr

Asks ==
    /\ op = "none" /\ op' = "write" /\ bank' = 1
    /\ handle' \in Handle /\ value' \in Bits(4 * W)
    /\ cache' = write(cache, handle', value') /\ kernel' = kernel /\ life' = life

Moves ==
    /\ op = "write" /\ op' = "write" /\ life = "stopped" /\ life' = life
    /\ bank \in {1, 2, 3} /\ bank' = bank + 1
    /\ handle' = handle /\ value' = value /\ cache' = cache
    /\ kernel'.gpr = IF bank = 1 THEN cache.gpr ELSE kernel.gpr
    /\ kernel'.fpr = IF bank = 2 THEN cache.fpr ELSE kernel.fpr

Ends == op = "write" /\ op' = "none" /\ RegsSame

Waits ==
    /\ op = "write" /\ op' = "write" /\ RegsSame
    /\ bank' = bank /\ handle' = handle /\ value' = value
    /\ life' = "stopped" => life' = life /\ cache' = cache /\ kernel' = kernel

Aside == op # "write" /\ op' # "write" /\ RegsSame

\* A step asks for a write, moves a register set, ends the write, waits with it
\* half done, or has to do with something else.
LEMMA StepKinds ==
    IInv /\ [Next]_vars => Asks \/ Moves \/ Ends \/ Waits \/ Aside
<1> SUFFICES ASSUME IInv, [Next]_vars  PROVE Asks \/ Moves \/ Ends \/ Waits \/ Aside
  OBVIOUS
<1>0. TypeOK /\ Control /\ Image
  BY DEF IInv
<1>1. CASE Load
  BY <1>0, <1>1 DEF Load, Begin, Control, Aside, RegsSame
<1>2. ASSUME NEW h \in Handle, NEW val \in Values, RegisterWrite(h, val)
      PROVE  Asks
  BY <1>0, <1>2, RegistersAssumption DEF RegisterWrite, Begin, Control, Asks
<1>3. ASSUME NEW a \in HwAddr, EnableHw(a)  PROVE Aside
  BY <1>0, <1>3 DEF EnableHw, Begin, Throw, Return, Control, Aside, RegsSame
<1>4. ASSUME NEW s \in -1 .. DbgRegs, DisableHw(s)  PROVE Aside
  BY <1>0, <1>4 DEF DisableHw, Begin, Throw, Return, Control, Aside, RegsSame
<1>5. CASE LoadBank
  <2>1. op # "write" /\ kernel' = kernel /\ op' \in {op, "none"}
    BY <1>0, <1>5, LoadEffect DEF Control
  <2> QED
    BY <2>1 DEF Aside, RegsSame
<1>6. CASE EditEnable
  BY <1>0, <1>6, EnableEffect DEF Aside, RegsSame
<1>7. CASE EditDisable
  BY <1>0, <1>7, DisableEffect DEF Aside, RegsSame
<1>8. CASE SaveBank
  <2>1. /\ bank \in 1 .. 4 /\ phase = "save" /\ cache' = cache /\ life' = life
        /\ op' \in {op, "none"}
    BY <1>0, <1>8, SaveEffect DEF TypeOK
  <2>2. CASE op # "write"
    <3>1. life = "stopped" => cache.gpr = kernel.gpr /\ cache.fpr = kernel.fpr
      BY <1>0, <2>2 DEF Image
    <3>2. RegsSame
      BY <1>0, <1>8, <3>1, SaveEffect DEF RegsSame
    <3> QED
      BY <2>1, <2>2, <3>2 DEF Aside
  <2>3. CASE op = "write" /\ op' = "write"
    <3>1. /\ life = "stopped"
          /\ kernel'.gpr = IF bank = 1 THEN cache.gpr ELSE kernel.gpr
          /\ kernel'.fpr = IF bank = 2 THEN cache.fpr ELSE kernel.fpr
          /\ bank \in {1, 2, 3} /\ bank' = bank + 1
          /\ handle' = handle /\ value' = value
      BY <1>0, <1>8, <2>3, SaveEffect
    <3> QED
      BY <2>1, <2>3, <3>1 DEF Moves
  <2>4. CASE op = "write" /\ op' = "none"
    <3>1. \/ kernel' = kernel
          \/ /\ bank \in {3, 4}
             /\ kernel'.gpr = IF bank = 1 THEN cache.gpr ELSE kernel.gpr
             /\ kernel'.fpr = IF bank = 2 THEN cache.fpr ELSE kernel.fpr
      BY <1>0, <1>8, <2>4, SaveEffect
    <3>2. RegsSame
      BY <3>1 DEF RegsSame
    <3> QED
      BY <2>4, <3>2 DEF Ends
  <2> QED
    BY <2>1, <2>2, <2>3, <2>4
<1>9. CASE Killed \/ WaitExit
  BY <1>9 DEF Killed, WaitExit, locals, Aside, Waits, RegsSame
<1>10. CASE UNCHANGED vars
  BY <1>10 DEF vars, locals, Aside, Waits, RegsSame
<1> QED
  BY <1>1, <1>2, <1>3, <1>4, <1>5, <1>6, <1>7, <1>8, <1>9, <1>10 DEF Next

\* A write changes one register set, and from that set alone.
LEMMA OtherKept ==
    ASSUME NEW sets \in RegisterSets, NEW h \in Handle, NEW val \in Bits(4 * W)
    PROVE  /\ General(h) => write(sets, h, val).fpr = sets.fpr
           /\ ~General(h) => write(sets, h, val).gpr = sets.gpr
BY DEF write, RegisterSets

\* Written to register sets that agree, a value leaves them in agreement.
LEMMA SameWrite ==
    ASSUME NEW sets \in RegisterSets, NEW other \in RegisterSets,
           NEW h \in Handle, NEW val \in Bits(4 * W)
    PROVE  /\ sets.gpr = other.gpr => write(sets, h, val).gpr = write(other, h, val).gpr
           /\ sets.fpr = other.fpr => write(sets, h, val).fpr = write(other, h, val).fpr
<1>1. CASE General(h)
  <2>1. write(sets, h, val).gpr = Written(sets, h, val) /\ write(other, h, val).gpr = Written(other, h, val)
    BY <1>1, WriteEffect DEF Parent
  <2>2. sets.gpr = other.gpr => Written(sets, h, val) = Written(other, h, val)
    BY <1>1 DEF Written, Parent
  <2> QED
    BY <1>1, <2>1, <2>2, OtherKept
<1>2. CASE ~General(h)
  <2>1. write(sets, h, val).fpr = Written(sets, h, val) /\ write(other, h, val).fpr = Written(other, h, val)
    BY <1>2, WriteEffect DEF Parent
  <2>2. sets.fpr = other.fpr => Written(sets, h, val) = Written(other, h, val)
    BY <1>2 DEF Written, Parent
  <2> QED
    BY <1>2, <2>1, <2>2, OtherKept
<1> QED
  BY <1>1, <1>2

\* What is still to be saved stays the write, applied to what the process has.
LEMMA PendingStep ==
    IInv /\ IInv' /\ Pending /\ [Next]_vars => Pending'
<1> SUFFICES ASSUME IInv, IInv', Pending, [Next]_vars  PROVE Pending'
  OBVIOUS
<1>0. /\ kernel \in RegisterSets /\ cache \in RegisterSets /\ kernel' \in RegisterSets
      /\ handle \in Handle /\ value \in Bits(4 * W)
      /\ op = "none" => phase = "idle"
  BY DEF IInv, TypeOK, Control
<1>1. CASE Asks
  <2>1. CASE life # "stopped"
    BY <1>1, <2>1 DEF Asks, Pending
  <2>2. CASE life = "stopped"
    <3>1. cache.gpr = kernel.gpr /\ cache.fpr = kernel.fpr
      BY <1>1, <2>2 DEF IInv, Image, Asks
    <3>2. PICK h \in Handle, val \in Bits(4 * W) : h = handle' /\ val = value'
      BY <1>1 DEF Asks
    <3>3. /\ write(cache, h, val).gpr = write(kernel, h, val).gpr
          /\ write(cache, h, val).fpr = write(kernel, h, val).fpr
      BY <1>0, <3>1, SameWrite
    <3> QED
      BY <1>1, <3>2, <3>3 DEF Asks, Pending
  <2> QED
    BY <2>1, <2>2
<1>2. CASE Moves
  <2>1. CASE bank = 1
    <3>1. kernel'.fpr = kernel.fpr /\ bank' = 2 /\ cache.fpr = write(kernel, handle, value).fpr
      BY <1>2, <2>1 DEF Moves, Pending
    <3>2. write(kernel', handle, value).fpr = write(kernel, handle, value).fpr
      BY <1>0, <3>1, SameWrite
    <3> QED
      BY <1>2, <3>1, <3>2 DEF Moves, Pending
  <2>2. CASE bank # 1
    <3>1. bank' \notin {1, 2}
      BY <1>2, <2>2 DEF Moves
    <3> QED
      BY <3>1 DEF Pending
  <2> QED
    BY <2>1, <2>2
<1>3. CASE Ends \/ Aside
  BY <1>3 DEF Ends, Aside, Pending
<1>4. CASE Waits
  BY <1>4 DEF Waits, Pending
<1> QED
  BY <1>1, <1>2, <1>3, <1>4, StepKinds

-----------------------------------------------------------------------------
(* Every step is a step of the register file, or none.                     *)

\* The words of a register are a function of words.
LEMMA WordsType ==
    /\ \A reg \in Bits(2 * W) : Words(reg, 2) \in [{0, 1} -> Bits(W)]
    /\ \A reg \in Bits(4 * W) : Words(reg, 4) \in [{0, 1, 2, 3} -> Bits(W)]
<1>1. ASSUME NEW reg \in Bits(2 * W)  PROVE Words(reg, 2) \in [{0, 1} -> Bits(W)]
  <2>1. \A w \in 0 .. 1 : Words(reg, 2)[w] \in Bits(W)
    BY WordType
  <2>2. 0 .. 2 - 1 = {0, 1}
    OBVIOUS
  <2> QED
    BY <2>1, <2>2 DEF Words
<1>2. ASSUME NEW reg \in Bits(4 * W)  PROVE Words(reg, 4) \in [{0, 1, 2, 3} -> Bits(W)]
  <2>1. \A w \in 0 .. 3 : Words(reg, 4)[w] \in Bits(W)
    BY WordType
  <2>2. 0 .. 4 - 1 = {0, 1, 2, 3}
    OBVIOUS
  <2> QED
    BY <2>1, <2>2 DEF Words
<1> QED
  BY <1>1, <1>2

\* The mapped initial state is one of the register file's.
LEMMA FileInit ==
    Init => File!Init
<1> SUFFICES ASSUME Init  PROVE File!Init
  OBVIOUS
<1>1. kernel.gpr \in Bits(2 * W) /\ kernel.fpr \in Bits(4 * W)
  BY InitIInv DEF IInv, TypeOK, RegisterSets
<1>2. op # "write"
  BY DEF Init
<1> QED
  BY <1>1, <1>2, WordsType DEF File!Init

\* The write that asks is put on the register file's list.
LEMMA AskStep ==
    ASSUME IInv, Asks
    PROVE  File!Ask
<1>1. UNCHANGED <<xbar, vbar>>
  BY DEF Asks, xbar, vbar
<1>2. rbar = {}
  BY DEF Asks, rbar
<1>3. rbar' = {[name |-> handle', value |-> Words(value', 4)]}
  BY DEF Asks, rbar, Carried
<1>4. handle' \in File!Name
  <2>1. 0 .. 3 = {0, 1, 2, 3} /\ 0 .. 1 = {0, 1}
    OBVIOUS
  <2> QED
    BY <2>1 DEF Asks, Handle, File!Name
<1>5. Words(value', 4) \in File!Value
  BY WordsType DEF Asks, File!Value
<1>6. /\ rbar' # {} /\ \A q, r \in rbar' : q = r
      /\ rbar' \subseteq [name : File!Name, value : File!Value]
  BY <1>3, <1>4, <1>5
<1> QED
  BY <1>1, <1>2, <1>6 DEF File!Ask, xbar, vbar, rbar

TheWrite == [name |-> handle, value |-> Words(value, 4)]

\* Saving a changed general register is what the register file does to x.
LEMMA WritesX ==
    ASSUME IInv, IInv', General(handle), kernel'.gpr = write(kernel, handle, value).gpr,
           kernel'.fpr = kernel.fpr
    PROVE  File!WriteX(TheWrite) /\ File!WriteV(TheWrite)
<1>0. /\ kernel \in RegisterSets /\ kernel' \in RegisterSets
      /\ handle \in Handle /\ value \in Bits(4 * W)
  BY DEF IInv, TypeOK
<1>1. /\ xbar' \in [{0, 1} -> Bits(W)]
      /\ vbar \in [{0, 1, 2, 3} -> Bits(W)] /\ vbar' = vbar
  BY <1>0, WordsType DEF RegisterSets, xbar, vbar
<1>2. ASSUME NEW w \in {0, 1}
      PROVE  xbar'[w] = IF handle.kind = "x" \/ w = 0 THEN Words(value, 4)[w] ELSE Zero
  BY <1>0, GeneralWord DEF xbar
<1>3. CASE handle.kind = "x"
  <2>1. xbar' = [w \in {0, 1} |-> TheWrite.value[w]]
    BY <1>1, <1>2, <1>3 DEF TheWrite
  <2>2. vbar' = [w \in {0, 1, 2, 3} |-> vbar[w]]
    BY <1>1
  <2> QED
    BY <1>3, <2>1, <2>2 DEF File!WriteX, File!WriteV, TheWrite, xbar, vbar
<1>4. CASE handle.kind = "w"
  <2>1. xbar' = [w \in {0, 1} |-> IF w = 0 THEN TheWrite.value[0] ELSE Zero]
    BY <1>1, <1>2, <1>4 DEF TheWrite
  <2>2. vbar' = [w \in {0, 1, 2, 3} |-> vbar[w]]
    BY <1>1
  <2> QED
    BY <1>4, <2>1, <2>2 DEF File!WriteX, File!WriteV, TheWrite, xbar, vbar, Zero
<1> QED
  BY <1>3, <1>4 DEF General

\* Saving a changed vector register is what the register file does to v.
LEMMA WritesV ==
    ASSUME IInv, IInv', ~General(handle), kernel'.fpr = write(kernel, handle, value).fpr,
           kernel'.gpr = kernel.gpr
    PROVE  File!WriteX(TheWrite) /\ File!WriteV(TheWrite)
<1>0. /\ kernel \in RegisterSets /\ kernel' \in RegisterSets
      /\ handle \in Handle /\ value \in Bits(4 * W)
  BY DEF IInv, TypeOK
<1>1. /\ xbar' = xbar
      /\ vbar' \in [{0, 1, 2, 3} -> Bits(W)]
  BY <1>0, WordsType DEF RegisterSets, xbar, vbar
<1>2. File!WriteX(TheWrite)
  BY <1>1 DEF General, File!WriteX, TheWrite, xbar
<1> DEFINE k   == handle.kind
           val == Words(value, 4)
<1>3. ASSUME NEW w \in {0, 1, 2, 3}
      PROVE  /\ k = "v" => vbar'[w] = val[w]
             /\ k = "s" => vbar'[w] = IF w = 0 THEN val[0] ELSE Zero
             /\ k = "d" => vbar'[w] = IF w \in {0, 1} THEN val[w] ELSE Zero
             /\ k = "4s" => vbar'[w] = IF w = handle.lane THEN val[0] ELSE vbar[w]
             /\ k = "2d" /\ handle.lane = 0 => vbar'[w] = IF w \in {0, 1} THEN val[w] ELSE vbar[w]
             /\ k = "2d" /\ handle.lane = 1 => vbar'[w] = IF w \in {2, 3} THEN val[w - 2] ELSE vbar[w]
  <2>1. w \in 0 .. 3
    OBVIOUS
  <2> QED
    BY <1>0, <2>1, VectorWord DEF vbar
<1> HIDE DEF k, val
<1> DEFINE After(w) ==
             CASE k = "v"  -> val[w]
               [] k = "s"  -> IF w = 0 THEN val[0] ELSE Zero
               [] k = "d"  -> IF w \in {0, 1} THEN val[w] ELSE Zero
               [] k = "4s" -> IF w = handle.lane THEN val[0] ELSE vbar[w]
               [] k = "2d" /\ handle.lane = 0 -> IF w \in {0, 1} THEN val[w] ELSE vbar[w]
               [] k = "2d" /\ handle.lane = 1 ->
                     IF w = 2 THEN val[0] ELSE IF w = 3 THEN val[1] ELSE vbar[w]
               [] OTHER -> vbar[w]
<1>4. ASSUME NEW w \in {0, 1, 2, 3}  PROVE vbar'[w] = After(w)
  <2>1. k \in {"v", "s", "d", "4s", "2d"}
    BY <1>0 DEF General, Handle, k
  <2>8. k = "2d" => handle.lane = 0 \/ handle.lane = 1
    <3>1. handle.kind = "2d" => handle \in [kind : {"2d"}, lane : 0 .. 1]
      BY <1>0 DEF Handle
    <3> QED
      BY <3>1 DEF k
  <2>2. CASE k = "v"
    BY <1>3, <2>2
  <2>3. CASE k = "s"
    BY <1>3, <2>3
  <2>4. CASE k = "d"
    BY <1>3, <2>4
  <2>5. CASE k = "4s"
    BY <1>3, <2>5
  <2>6. CASE k = "2d" /\ handle.lane = 0
    BY <1>3, <2>6
  <2>7. CASE k = "2d" /\ handle.lane = 1
    BY <1>3, <2>7
  <2> QED
    BY <2>1, <2>2, <2>3, <2>4, <2>5, <2>6, <2>7, <2>8
<1> HIDE DEF After
<1>5. vbar' = [w \in {0, 1, 2, 3} |-> After(w)]
  BY <1>1, <1>4
<1>6. File!WriteV(TheWrite)
  BY <1>5 DEF File!WriteV, TheWrite, vbar, After, k, val, Zero
<1> QED
  BY <1>2, <1>6

\* Moving the register set the write has changed carries the write out.
LEMMA CarryStep ==
    ASSUME IInv, IInv', Pending, Moves, bank = IF General(handle) THEN 1 ELSE 2
    PROVE  File!CarryOut
<1>1. rbar = {TheWrite} /\ rbar' = {}
  <2>1. ~Carried /\ Carried'
    BY DEF Moves, Carried, General
  <2> QED
    BY <2>1 DEF Moves, rbar, TheWrite
<1>2. File!WriteX(TheWrite) /\ File!WriteV(TheWrite)
  <2>1. CASE General(handle)
    <3>1. kernel'.gpr = write(kernel, handle, value).gpr /\ kernel'.fpr = kernel.fpr
      BY <2>1 DEF Moves, Pending
    <3> QED
      BY <2>1, <3>1, WritesX
  <2>2. CASE ~General(handle)
    <3>1. kernel'.fpr = write(kernel, handle, value).fpr /\ kernel'.gpr = kernel.gpr
      BY <2>2 DEF Moves, Pending
    <3> QED
      BY <2>2, <3>1, WritesV
  <2> QED
    BY <2>1, <2>2
<1> QED
  BY <1>1, <1>2 DEF File!CarryOut, rbar

\* Moving a register set the write left alone changes nothing.
LEMMA MoveStutters ==
    ASSUME IInv, Pending, Moves, bank # IF General(handle) THEN 1 ELSE 2
    PROVE  UNCHANGED <<xbar, vbar, rbar>>
<1>0. /\ kernel \in RegisterSets /\ handle \in Handle /\ value \in Bits(4 * W)
  BY DEF IInv, TypeOK
<1>1. kernel'.gpr = kernel.gpr /\ kernel'.fpr = kernel.fpr
  BY <1>0, OtherKept DEF Moves, Pending
<1>2. rbar' = rbar
  <2>1. General(handle') <=> General(handle)
    BY DEF Moves
  <2>2. Carried' <=> Carried
    BY <2>1 DEF Moves, Carried
  <2> QED
    BY <2>2 DEF Moves, rbar
<1> QED
  BY <1>1, <1>2 DEF xbar, vbar

\* Every step is one of the register file's, or leaves it alone.
LEMMA FileStep ==
    IInv /\ IInv' /\ Pending /\ [Next]_vars => [File!Next]_(File!vars)
<1> SUFFICES ASSUME IInv, IInv', Pending, [Next]_vars
             PROVE  File!Next \/ UNCHANGED <<xbar, vbar, rbar>>
  BY DEF File!vars, xbar, vbar, rbar
<1>1. CASE Asks
  BY <1>1, AskStep DEF File!Next
<1>2. CASE Moves
  BY <1>2, CarryStep, MoveStutters DEF File!Next
<1>3. CASE Ends
  <2>1. UNCHANGED <<xbar, vbar>> /\ rbar' = {}
    BY <1>3 DEF Ends, RegsSame, xbar, vbar, rbar
  <2>2. CASE rbar = {}
    BY <2>1, <2>2
  <2>3. CASE rbar # {}
    BY <2>1, <2>3 DEF File!Next, File!GiveUp, xbar, vbar, rbar
  <2> QED
    BY <2>2, <2>3
<1>4. CASE Waits
  <2>1. Carried' <=> Carried
    BY <1>4 DEF Waits, Carried, General
  <2> QED
    BY <1>4, <2>1 DEF Waits, RegsSame, xbar, vbar, rbar
<1>5. CASE Aside
  BY <1>5 DEF Aside, RegsSame, xbar, vbar, rbar
<1> QED
  BY <1>1, <1>2, <1>3, <1>4, <1>5, StepKinds

\* Between the call that edits the cache and the last of the four requests that
\* save it, and however the process dies, its registers change once per write
\* and exactly as the architecture has it (registers.cpp, subregister_view.cpp).
THEOREM RegisterFileImplemented ==
    Spec => WritesAreArchitectural
<1>1. Init => Pending
  BY DEF Init, Pending
<1>2. Spec => []Pending
  BY Invariance, <1>1, PendingStep, PTL DEF Spec
<1> QED
  BY Invariance, <1>2, FileInit, FileStep, PTL DEF Spec, WritesAreArchitectural, File!Spec

=============================================================================
