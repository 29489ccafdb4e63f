-------------------------- MODULE SubregisterView --------------------------
(***************************************************************************)
(* Views of part of a register (subregister_view.cpp): wN of a general     *)
(* register, sN and dN of a vector register and the vector's lanes, with   *)
(* what a write does to the rest of the parent.  A k-bit value is a        *)
(* function from 0 .. k - 1, bit 0 the lowest, so a shift or a mask by the *)
(* code's 128-bit arithmetic is a choice of indices.                       *)
(***************************************************************************)
EXTENDS Integers

CONSTANT W      \* bits of half a general register: 32 in the code

ASSUME WAssumption == W \in Nat \ {0}

Bits(k) == [0 .. k - 1 -> {0, 1}]

\* A conversion to a narrower unsigned type.
Truncate(value, k) == [b \in 0 .. k - 1 |-> value[b]]

Policy == {"ZeroExtend32To64", "PreserveParentBits", "ZeroUpperVector128"}

make_wn ==
    [bit_offset |-> 0, bit_size |-> W, parent_bits |-> 2 * W,
     write_policy |-> "ZeroExtend32To64"]

Scalar(size, zero_upper) ==
    [bit_offset |-> 0, bit_size |-> size, parent_bits |-> 4 * W,
     write_policy |-> IF zero_upper THEN "ZeroUpperVector128"
                                    ELSE "PreserveParentBits"]

make_sn(zero_upper) == Scalar(W, zero_upper)
make_dn(zero_upper) == Scalar(2 * W, zero_upper)

Lane(size, lane) ==
    [bit_offset |-> lane * size, bit_size |-> size, parent_bits |-> 4 * W,
     write_policy |-> "PreserveParentBits"]

make_vn_lane_s(lane) == Lane(W, lane)

\* Seeded fault: the lanes are as far apart as those of the 4s form.
make_vn_lane_d_Narrow(lane) ==
    [bit_offset |-> lane * W, bit_size |-> 2 * W, parent_bits |-> 4 * W,
     write_policy |-> "PreserveParentBits"]

make_vn_lane_d(lane) == Lane(2 * W, lane)

Slice(sv) == sv.bit_offset .. sv.bit_offset + sv.bit_size - 1

\* Seeded fault: the parent is not shifted down to the slice.
read_u64_Unshifted(sv, parent) ==
    [b \in 0 .. sv.bit_size - 1 |-> parent[b]]

read_u64(sv, parent) ==
    [b \in 0 .. sv.bit_size - 1 |-> parent[sv.bit_offset + b]]

\* What survives the zeroing that follows the insertion.
Kept(sv) ==
    CASE sv.write_policy = "ZeroExtend32To64"   -> 0 .. W - 1
      [] sv.write_policy = "ZeroUpperVector128" -> 0 .. sv.bit_size - 1
      [] sv.write_policy = "PreserveParentBits" -> 0 .. sv.parent_bits - 1

\* Seeded fault: the value is not masked to the width of the slice.
write_u64_Unmasked(sv, parent, value) ==
    [b \in 0 .. sv.parent_bits - 1 |->
        IF b \notin Kept(sv) THEN 0
        ELSE IF b \in sv.bit_offset .. sv.bit_offset + 2 * W - 1
             THEN value[b - sv.bit_offset] ELSE parent[b]]

\* value has the 2 * W bits of an uint64_t, whatever the slice.
write_u64(sv, parent, value) ==
    [b \in 0 .. sv.parent_bits - 1 |->
        IF b \notin Kept(sv) THEN 0
        ELSE IF b \in Slice(sv) THEN value[b - sv.bit_offset] ELSE parent[b]]
=============================================================================
