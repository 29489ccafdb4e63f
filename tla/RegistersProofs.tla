-------------------------- MODULE RegistersProofs --------------------------
(***************************************************************************)
(* Proofs about module Registers, for every word width, every number of    *)
(* breakpoint slots and every set of addresses the kernel refuses.  First  *)
(* what a view reads and writes, then the types, then who owns which slot. *)
(***************************************************************************)
EXTENDS Registers, TLAPS

Sub(h) == ~Full(h)

\* Bits of the register a handle is a part of.
Width(h) == IF General(h) THEN 2 * W ELSE 4 * W

\* What the control state says.
Control ==
    /\ op = "none" <=> phase = "idle"
    /\ op = "load" => phase = "load"
    /\ op = "write" => phase = "save"
    /\ op = "enable" => addr \in HwAddr
    /\ op = "disable" => given[slot] = 0
    /\ phase = "edit" => bank = 1

ArmedAt(a) == [addr |-> a, enabled |-> TRUE]

\* A slot that was handed out is armed, in the process and in the cache, and so
\* is the one that enable_hw_breakpoint is about to hand out.
HandedOut(s) ==
    given[s] # 0 => kernel.brk[s] = ArmedAt(given[s]) /\ cache.brk[s] = ArmedAt(given[s])

Enabling ==
    op = "enable" /\ phase = "save" =>
        /\ slot \in Saved /\ cache.brk[slot] = ArmedAt(addr)
        /\ bank > 3 => kernel.brk[slot] = ArmedAt(addr)

Owned == Slots > 0 => Enabling /\ \A s \in Slot : HandedOut(s)

\* The kernel never holds an address it refuses; the cache may, after a call
\* that failed on it, but the calls that edit a slot load the cache first.
Edited ==
    op \in {"enable", "disable"} /\ (phase \in {"edit", "save"} \/ bank > 3) =>
        \A s \in Slot : cache.brk[s].addr \in Invalid =>
            op = "enable" /\ phase = "save" /\ s = slot

Aligned ==
    /\ \A s \in Slot : /\ kernel.brk[s].addr \notin Invalid
                       /\ kernel.brk[s].enabled => s \in Saved
    /\ Edited

\* Who may be armed without an owner: the slot a call is working on, and in the
\* cache a slot whose address the kernel has refused.
KernelStray(s) ==
    kernel.brk[s].enabled =>
        s = slot /\ \/ op = "enable" /\ phase = "save" /\ bank > 3
                    \/ op = "disable" /\ (phase # "save" \/ bank <= 3)

CacheStray(s) ==
    cache.brk[s].enabled =>
        \/ cache.brk[s].addr \in Invalid
        \/ s = slot /\ \/ op = "enable" /\ phase = "save"
                       \/ op = "disable" /\ phase # "save"

Strays ==
    life = "stopped" =>
        \A s \in Slot : given[s] = 0 => KernelStray(s) /\ CacheStray(s)

\* The register sets already moved are the same on both sides.
SlotsSame == \A s \in Saved : cache.brk[s] = kernel.brk[s]

Image ==
    life = "stopped" =>
        /\ ~(op = "write" /\ bank = 1) => cache.gpr = kernel.gpr
        /\ ~(op = "write" /\ bank <= 2) => cache.fpr = kernel.fpr
        /\ (phase = "idle" /\ result = "ok") \/ (phase \in {"load", "save"} /\ bank > 3) => SlotsSame

\* During a write the cache shows the value written.
Shown == op = "write" => read(cache, handle) = Truncate(value, get_bit_size(handle))

IInv == TypeOK /\ Control /\ Owned /\ Aligned /\ Strays /\ Image /\ Shown

-----------------------------------------------------------------------------
(* Views.                                                                  *)

\* Every view the factories make lies inside its parent, is not empty, is no
\* wider than an uint64_t, and is not zeroed by its own write policy.
LEMMA ViewFacts ==
    ASSUME NEW h \in Handle, Sub(h)
    PROVE  LET sv == make_subview(h) IN
           /\ sv.bit_offset \in Nat
           /\ sv.bit_size \in 1 .. 2 * W
           /\ sv.parent_bits = Width(h)
           /\ sv.bit_offset + sv.bit_size <= sv.parent_bits
           /\ Slice(sv) \subseteq 0 .. sv.parent_bits - 1
           /\ Slice(sv) \subseteq Kept(sv)
<1> USE WAssumption DEF Sub, Full, General, Width, Handle, make_subview, Slice, Kept
<1>1. CASE h.kind = "w"
  BY <1>1 DEF make_wn
<1>2. CASE h.kind = "s"
  BY <1>2 DEF make_sn, Scalar
<1>3. CASE h.kind = "d"
  BY <1>3 DEF make_dn, Scalar
<1>4. CASE h.kind = "4s"
  BY <1>4 DEF make_vn_lane_s, Lane
<1>5. CASE h.kind = "2d"
  BY <1>5 DEF make_vn_lane_d, Lane
<1> QED
  BY <1>1, <1>2, <1>3, <1>4, <1>5

\* A cut value has the bits of the narrower type.
LEMMA TruncateType ==
    ASSUME NEW k \in Nat, NEW n \in Nat, k <= n, NEW val \in Bits(n)
    PROVE  Truncate(val, k) \in Bits(k)
BY DEF Truncate, Bits

\* A write through a view leaves a parent of the same width.
LEMMA WriteType ==
    ASSUME NEW h \in Handle, Sub(h), NEW parent \in Bits(Width(h)), NEW val \in Bits(2 * W)
    PROVE  write_u64(make_subview(h), parent, val) \in Bits(Width(h))
<1> DEFINE sv == make_subview(h)
<1>1. /\ sv.bit_offset \in Nat /\ sv.bit_size \in 1 .. 2 * W
      /\ sv.parent_bits = Width(h)
  BY ViewFacts
<1> HIDE DEF sv
<1>2. ASSUME NEW b \in Slice(sv)  PROVE val[b - sv.bit_offset] \in {0, 1}
  BY <1>1, <1>2, WAssumption DEF Slice, Bits
<1>3. ASSUME NEW b \in 0 .. Width(h) - 1  PROVE parent[b] \in {0, 1}
  BY <1>3 DEF Bits
<1>4. write_u64(sv, parent, val) \in Bits(Width(h))
  BY <1>1, <1>2, <1>3 DEF write_u64, Bits
<1> QED
  BY <1>4 DEF sv

\* What write_u64 puts in, read_u64 takes out, cut to the width of the view.
LEMMA ReadAfterWrite ==
    ASSUME NEW h \in Handle, Sub(h), NEW parent \in Bits(Width(h)), NEW val \in Bits(2 * W)
    PROVE  read_u64(make_subview(h), write_u64(make_subview(h), parent, val))
           = Truncate(val, make_subview(h).bit_size)
<1> DEFINE sv == make_subview(h)
<1>1. /\ sv.bit_offset \in Nat /\ sv.bit_size \in 1 .. 2 * W
      /\ Slice(sv) \subseteq 0 .. sv.parent_bits - 1
      /\ Slice(sv) \subseteq Kept(sv)
  BY ViewFacts
<1> HIDE DEF sv
<1>2. ASSUME NEW b \in 0 .. sv.bit_size - 1
      PROVE  write_u64(sv, parent, val)[sv.bit_offset + b] = val[b]
  <2>1. sv.bit_offset + b \in Slice(sv)
    BY <1>1, <1>2, WAssumption DEF Slice
  <2>2. sv.bit_offset + b - sv.bit_offset = b
    BY <1>1, <1>2, WAssumption
  <2> QED
    BY <1>1, <2>1, <2>2 DEF write_u64
<1>3. read_u64(sv, write_u64(sv, parent, val)) = Truncate(val, sv.bit_size)
  BY <1>2 DEF read_u64, Truncate
<1> QED
  BY <1>3 DEF sv

\* A write to one lane leaves every other lane of the vector as it was.
LEMMA LanesAreIndependent ==
    ASSUME NEW g \in Handle, NEW h \in Handle, g.kind \in {"4s", "2d"},
           h.kind = g.kind, h.lane # g.lane,
           NEW parent \in Bits(4 * W), NEW val \in Bits(2 * W)
    PROVE  read_u64(make_subview(h), write_u64(make_subview(g), parent, val))
           = read_u64(make_subview(h), parent)
<1> DEFINE sv == make_subview(g)
           rv == make_subview(h)
<1> SUFFICES ASSUME NEW b \in 0 .. rv.bit_size - 1
             PROVE  write_u64(sv, parent, val)[rv.bit_offset + b] = parent[rv.bit_offset + b]
  BY DEF read_u64
<1>1. /\ sv.parent_bits = 4 * W /\ sv.write_policy = "PreserveParentBits"
      /\ rv.bit_offset + b \in 0 .. 4 * W - 1
      /\ rv.bit_offset + b \notin Slice(sv)
  <2>1. CASE g.kind = "4s"
    BY <2>1, WAssumption DEF Handle, make_subview, make_vn_lane_s, Lane, Slice
  <2>2. CASE g.kind = "2d"
    BY <2>2, WAssumption DEF Handle, make_subview, make_vn_lane_d, Lane, Slice
  <2> QED
    BY <2>1, <2>2
<1> HIDE DEF sv, rv
<1> QED
  BY <1>1 DEF write_u64, Kept

-----------------------------------------------------------------------------
(* Types.                                                                  *)

\* A register has the bits of a register after a write to any part of it.
LEMMA WrittenType ==
    ASSUME NEW sets \in RegisterSets, NEW h \in Handle, NEW val \in Bits(4 * W)
    PROVE  write(sets, h, val) \in RegisterSets
<1>1. Parent(sets, h) \in Bits(Width(h))
  BY DEF Parent, Width, RegisterSets
<1>2. Written(sets, h, val) \in Bits(Width(h))
  <2>1. CASE Full(h)
    <3>1. get_bit_size(h) = Width(h)
      BY <2>1 DEF get_bit_size, Width, Full, General
    <3>2. Width(h) \in Nat /\ Width(h) <= 4 * W /\ 4 * W \in Nat
      BY WAssumption DEF Width
    <3> QED
      BY <2>1, <3>1, <3>2, TruncateType DEF Written
  <2>2. CASE Sub(h)
    <3>1. Truncate(val, 2 * W) \in Bits(2 * W)
      BY WAssumption, TruncateType
    <3> QED
      BY <1>1, <2>2, <3>1, WriteType DEF Written, Sub
  <2> QED
    BY <2>1, <2>2 DEF Sub
<1>3. CASE General(h)
  BY <1>2, <1>3 DEF write, Width, RegisterSets
<1>4. CASE ~General(h)
  BY <1>2, <1>4 DEF write, Width, RegisterSets
<1> QED
  BY <1>3, <1>4

\* The end of a call, and of its locals, has the types.
LEMMA ReturnType ==
    ASSUME NEW res \in {"ok", "error"}, Return(res)
    PROVE  /\ op' \in {"none"} /\ phase' \in {"idle"} /\ bank' \in 1 .. 4
           /\ handle' \in Handle /\ value' \in Bits(4 * W)
           /\ addr' \in HwAddr \cup {0} /\ slot' \in Slot /\ result' \in {"ok", "error"}
<1>1. x0 \in Handle /\ Zeroes \in Bits(4 * W)
  BY DEF x0, Handle, Zeroes, Bits
<1>2. 0 \in Slot
  BY RegistersAssumption DEF Slot
<1> QED
  BY <1>1, <1>2 DEF Return

\* One register set, taken from another of the same type.
LEMMA BankType ==
    ASSUME NEW from \in RegisterSets, NEW to \in RegisterSets, bank \in 1 .. 4
    PROVE  [to EXCEPT ![Bank[bank]] = from[Bank[bank]]] \in RegisterSets
BY DEF Bank, RegisterSets

\* What the kernel makes of the debug slots is debug slots.
LEMMA TakenType ==
    ASSUME kernel \in RegisterSets, cache \in RegisterSets
    PROVE  [kernel EXCEPT !.brk = Taken] \in RegisterSets
<1>1. Taken \in [Slot -> [addr : HwAddr \cup {0}, enabled : BOOLEAN]]
  BY DEF Taken, RegisterSets
<1> QED
  BY <1>1 DEF RegisterSets


\* The types are inductive by themselves.
LEMMA TypeStep ==
    TypeOK /\ [Next]_vars => TypeOK'
<1> SUFFICES ASSUME TypeOK, [Next]_vars  PROVE TypeOK'
  OBVIOUS
<1> USE DEF TypeOK
<1>a. bank < 4 => bank + 1 \in 1 .. 4
  OBVIOUS
<1>b. ASSUME Advance
      PROVE  /\ op' \in {"none", op} /\ phase' \in {"idle", phase} /\ bank' \in 1 .. 4
             /\ handle' \in Handle /\ value' \in Bits(4 * W)
             /\ addr' \in HwAddr \cup {0} /\ slot' \in Slot /\ result' \in {"ok", "error"}
  BY <1>a, <1>b, ReturnType DEF Advance, locals
<1>c. ASSUME Throw
      PROVE  /\ op' \in {"none"} /\ phase' \in {"idle"} /\ bank' \in 1 .. 4
             /\ handle' \in Handle /\ value' \in Bits(4 * W)
             /\ addr' \in HwAddr \cup {0} /\ slot' \in Slot /\ result' \in {"ok", "error"}
             /\ given' = given
  BY <1>c, ReturnType DEF Throw
<1>1. CASE Load
  BY <1>1 DEF Load, Begin, locals
<1>2. ASSUME NEW h \in Handle, NEW val \in Values, RegisterWrite(h, val)  PROVE TypeOK'
  <2>1. val \in Bits(4 * W)
    BY RegistersAssumption
  <2>2. write(cache, h, val) \in RegisterSets
    BY <2>1, WrittenType
  <2> QED
    BY <1>2, <2>1, <2>2 DEF RegisterWrite, Begin
<1>3. ASSUME NEW a \in HwAddr, EnableHw(a)  PROVE TypeOK'
  BY <1>3, <1>c DEF EnableHw, Begin
<1>4. ASSUME NEW s \in -1 .. DbgRegs, DisableHw(s)  PROVE TypeOK'
  BY <1>4, <1>c DEF DisableHw, Begin
<1>5. CASE LoadBank
  <2>1. [cache EXCEPT ![Bank[bank]] = kernel[Bank[bank]]] \in RegisterSets
    BY BankType
  <2> QED
    BY <1>5, <2>1, <1>b, <1>c DEF LoadBank, locals
<1>6. CASE EditEnable
  <2>1. ASSUME NEW s \in Free
        PROVE  s \in Slot /\ [cache EXCEPT !.brk[s] = [addr |-> addr, enabled |-> TRUE]] \in RegisterSets
    <3>1. s \in Slot
      BY RegistersAssumption DEF Free, max_slots, Slot
    <3> QED
      BY <3>1 DEF RegisterSets
  <2> QED
    BY <1>6, <2>1, <1>c DEF EditEnable
<1>7. CASE EditDisable
  <2> DEFINE D == [addr : HwAddr \cup {0}, enabled : BOOLEAN]
  <2>1. cache.brk \in [Slot -> D]
    BY DEF RegisterSets
  <2>2. [cache.brk[slot] EXCEPT !.enabled = FALSE] \in D
    BY <2>1
  <2>3. [cache.brk EXCEPT ![slot] = [cache.brk[slot] EXCEPT !.enabled = FALSE]] \in [Slot -> D]
    BY <2>1, <2>2
  <2>4. [cache EXCEPT !.brk = [cache.brk EXCEPT ![slot] = [cache.brk[slot] EXCEPT !.enabled = FALSE]]]
          \in RegisterSets
    BY <2>3 DEF RegisterSets
  <2> QED
    BY <1>7, <2>4 DEF EditDisable, locals
<1>8. CASE SaveBank
  <2>1. [kernel EXCEPT !.brk = Taken] \in RegisterSets
    BY TakenType
  <2>2. [kernel EXCEPT ![Bank[bank]] = cache[Bank[bank]]] \in RegisterSets
    BY BankType
  <2>3. kernel' \in RegisterSets
    BY <1>8, <2>1, <2>2 DEF SaveBank, Throw
  <2>4. Handed => given' \in [Slot -> HwAddr \cup {0}]
    BY DEF Handed
  <2> QED
    BY <1>8, <2>3, <2>4, <1>b, <1>c DEF SaveBank
<1>9. CASE Killed \/ WaitExit
  BY <1>9 DEF Killed, WaitExit, locals
<1>10. CASE UNCHANGED vars
  BY <1>10 DEF vars, locals
<1> HIDE DEF TypeOK
<1> QED
  BY <1>1, <1>2, <1>3, <1>4, <1>5, <1>6, <1>7, <1>8, <1>9, <1>10 DEF Next

\* The first stop is well typed.
LEMMA TypeInit ==
    Init => TypeOK
<1> SUFFICES ASSUME Init  PROVE TypeOK
  OBVIOUS
<1>1. x0 \in Handle /\ Zeroes \in Bits(4 * W)
  BY DEF x0, Handle, Zeroes, Bits
<1>2. 0 \in Slot
  BY RegistersAssumption DEF Slot
<1>3. kernel \in RegisterSets
  <2>1. PICK val \in Values :
          kernel = [gpr |-> Truncate(val, 2 * W), fpr |-> val,
                    brk |-> [s \in Slot |-> Unset], watch |-> "as attached"]
    BY DEF Init
  <2>2. val \in Bits(4 * W)
    BY RegistersAssumption
  <2>3. Truncate(val, 2 * W) \in Bits(2 * W)
    BY <2>2, WAssumption, TruncateType
  <2> QED
    BY <2>1, <2>2, <2>3 DEF RegisterSets, Unset
<1>4. given \in [Slot -> HwAddr \cup {0}]
  BY DEF Init
<1>5. cache \in RegisterSets
  BY <1>3 DEF Init
<1>6. /\ life = "stopped" /\ op = "none" /\ phase = "idle" /\ bank = 1
      /\ handle \in Handle /\ value \in Bits(4 * W) /\ addr = 0 /\ slot \in Slot
      /\ result = "ok"
  BY <1>1, <1>2 DEF Init
<1> QED
  BY <1>3, <1>4, <1>5, <1>6 DEF TypeOK

\* Every register set keeps its width, every local its type.
THEOREM TypeCorrect ==
    Spec => []TypeOK
BY TypeInit, TypeStep, PTL DEF Spec


-----------------------------------------------------------------------------
(* What one request of a load or a save does.                              *)

\* A request moves the register set it is for and no other.
LEMMA BankEffect ==
    ASSUME NEW from \in RegisterSets, NEW to \in RegisterSets, bank \in 1 .. 4,
           NEW r, r = [to EXCEPT ![Bank[bank]] = from[Bank[bank]]]
    PROVE  /\ r.gpr = IF bank = 1 THEN from.gpr ELSE to.gpr
           /\ r.fpr = IF bank = 2 THEN from.fpr ELSE to.fpr
           /\ r.brk = IF bank = 3 THEN from.brk ELSE to.brk
<1>1. CASE bank = 1
  <2>1. r = [to EXCEPT !.gpr = from.gpr]
    BY <1>1 DEF Bank
  <2>2. r.gpr = from.gpr /\ r.fpr = to.fpr /\ r.brk = to.brk
    BY <2>1 DEF RegisterSets
  <2> QED
    BY <1>1, <2>2
<1>2. CASE bank = 2
  <2>1. r = [to EXCEPT !.fpr = from.fpr]
    BY <1>2 DEF Bank
  <2>2. r.gpr = to.gpr /\ r.fpr = from.fpr /\ r.brk = to.brk
    BY <2>1 DEF RegisterSets
  <2> QED
    BY <1>2, <2>2
<1>3. CASE bank = 3
  <2>1. r = [to EXCEPT !.brk = from.brk]
    BY <1>3 DEF Bank
  <2>2. r.gpr = to.gpr /\ r.fpr = to.fpr /\ r.brk = from.brk
    BY <2>1 DEF RegisterSets
  <2> QED
    BY <1>3, <2>2
<1>4. CASE bank = 4
  <2>1. r = [to EXCEPT !.watch = from.watch]
    BY <1>4 DEF Bank
  <2>2. r.gpr = to.gpr /\ r.fpr = to.fpr /\ r.brk = to.brk
    BY <2>1 DEF RegisterSets
  <2> QED
    BY <1>4, <2>2
<1> QED
  BY <1>1, <1>2, <1>3, <1>4

\* GETREGSET: the register set of the request and no other, or an exception
\* when the process is gone.
LEMMA LoadEffect ==
    ASSUME TypeOK, LoadBank
    PROVE  /\ phase = "load" /\ UNCHANGED <<life, kernel, given>>
           /\ \/ life # "stopped" /\ op' = "none" /\ phase' = "idle" /\ cache' = cache
              \/ /\ life = "stopped"
                 /\ cache'.gpr = IF bank = 1 THEN kernel.gpr ELSE cache.gpr
                 /\ cache'.fpr = IF bank = 2 THEN kernel.fpr ELSE cache.fpr
                 /\ cache'.brk = IF bank = 3 THEN kernel.brk ELSE cache.brk
                 /\ \/ /\ bank < 4 /\ bank' = bank + 1 /\ op' = op /\ phase' = phase
                       /\ addr' = addr /\ slot' = slot /\ result' = result
                    \/ /\ bank = 4 /\ op # "load" /\ bank' = 1 /\ phase' = "edit" /\ op' = op
                       /\ addr' = addr /\ slot' = slot /\ result' = result
                    \/ bank = 4 /\ op = "load" /\ op' = "none" /\ phase' = "idle"
<1>1. cache \in RegisterSets /\ kernel \in RegisterSets /\ bank \in 1 .. 4
  BY DEF TypeOK
<1>2. CASE life # "stopped"
  BY <1>2 DEF LoadBank, Throw, Return
<1>3. CASE life = "stopped"
  <2>1. PICK r : r = cache' /\ r = [cache EXCEPT ![Bank[bank]] = kernel[Bank[bank]]]
    BY <1>3 DEF LoadBank
  <2>5. /\ r.gpr = IF bank = 1 THEN kernel.gpr ELSE cache.gpr
        /\ r.fpr = IF bank = 2 THEN kernel.fpr ELSE cache.fpr
        /\ r.brk = IF bank = 3 THEN kernel.brk ELSE cache.brk
    BY <1>1, <2>1, BankEffect, Zenon
  <2>2. /\ cache'.gpr = IF bank = 1 THEN kernel.gpr ELSE cache.gpr
        /\ cache'.fpr = IF bank = 2 THEN kernel.fpr ELSE cache.fpr
        /\ cache'.brk = IF bank = 3 THEN kernel.brk ELSE cache.brk
    BY <2>1, <2>5, Zenon
  <2>3. CASE bank = 4 /\ op # "load"
    BY <1>3, <2>2, <2>3 DEF LoadBank, locals
  <2>4. CASE ~(bank = 4 /\ op # "load")
    <3>1. Advance /\ UNCHANGED <<life, kernel, given>> /\ phase = "load"
      BY <1>3, <2>4 DEF LoadBank
    <3> QED
      BY <1>1, <1>3, <2>2, <2>4, <3>1 DEF Advance, Return, locals
  <2> QED
    BY <2>3, <2>4
<1> QED
  BY <1>2, <1>3

\* SETREGSET: the same in the other direction, and the debug slots up to the
\* first the kernel refuses.
LEMMA SaveEffect ==
    ASSUME TypeOK, SaveBank
    PROVE  /\ phase = "save" /\ UNCHANGED <<life, cache>>
           /\ \/ /\ life # "stopped"
                 /\ op' = "none" /\ phase' = "idle" /\ kernel' = kernel /\ given' = given
              \/ /\ life = "stopped"
                 /\ kernel'.gpr = IF bank = 1 THEN cache.gpr ELSE kernel.gpr
                 /\ kernel'.fpr = IF bank = 2 THEN cache.fpr ELSE kernel.fpr
                 /\ kernel'.brk = IF bank = 3 THEN Taken ELSE kernel.brk
                 /\ \/ /\ bank = 3 /\ Refused # {}
                       /\ op' = "none" /\ phase' = "idle" /\ result' = "error" /\ given' = given
                    \/ /\ bank \in {1, 2, 3} /\ (bank = 3 => Refused = {}) /\ bank' = bank + 1
                       /\ op' = op /\ phase' = phase /\ given' = given
                       /\ handle' = handle /\ value' = value /\ addr' = addr /\ slot' = slot
                    \/ bank = 4 /\ op' = "none" /\ phase' = "idle" /\ Handed
<1>1. cache \in RegisterSets /\ kernel \in RegisterSets /\ bank \in 1 .. 4
  BY DEF TypeOK
<1>2. CASE life # "stopped"
  BY <1>2 DEF SaveBank, Throw, Return
<1>3. CASE life = "stopped"
  <2>0. Bank[bank] = "brk" <=> bank = 3
    BY <1>1 DEF Bank
  <2>1. CASE bank = 3 /\ Refused # {}
    <3>1. kernel' = [kernel EXCEPT !.brk = Taken] /\ Throw /\ UNCHANGED <<life, cache>> /\ phase = "save"
      BY <1>3, <2>0, <2>1 DEF SaveBank
    <3>2. kernel'.gpr = kernel.gpr /\ kernel'.fpr = kernel.fpr /\ kernel'.brk = Taken
      BY <1>1, <3>1 DEF RegisterSets
    <3> QED
      BY <1>3, <2>1, <3>1, <3>2 DEF Throw, Return
  <2>2. CASE ~(bank = 3 /\ Refused # {})
    <3>1. /\ kernel' = [kernel EXCEPT ![Bank[bank]] =
                IF Bank[bank] = "brk" THEN Taken ELSE cache[Bank[bank]]]
          /\ Advance /\ Handed /\ UNCHANGED <<life, cache>> /\ phase = "save"
      BY <1>3, <2>0, <2>2 DEF SaveBank
    <3>2. /\ kernel'.gpr = IF bank = 1 THEN cache.gpr ELSE kernel.gpr
          /\ kernel'.fpr = IF bank = 2 THEN cache.fpr ELSE kernel.fpr
          /\ kernel'.brk = IF bank = 3 THEN Taken ELSE kernel.brk
      <4>1. CASE bank = 3
        <5>1. kernel' = [kernel EXCEPT !.brk = Taken]
          BY <3>1, <4>1 DEF Bank
        <5>2. kernel'.gpr = kernel.gpr /\ kernel'.fpr = kernel.fpr /\ kernel'.brk = Taken
          BY <1>1, <5>1 DEF RegisterSets
        <5> QED
          BY <4>1, <5>2
      <4>2. CASE bank # 3
        <5>1. PICK r : r = kernel' /\ r = [kernel EXCEPT ![Bank[bank]] = cache[Bank[bank]]]
          BY <2>0, <3>1, <4>2
        <5>3. /\ r.gpr = IF bank = 1 THEN cache.gpr ELSE kernel.gpr
              /\ r.fpr = IF bank = 2 THEN cache.fpr ELSE kernel.fpr
              /\ r.brk = IF bank = 3 THEN cache.brk ELSE kernel.brk
          BY <1>1, <5>1, BankEffect, Zenon
        <5>2. /\ kernel'.gpr = IF bank = 1 THEN cache.gpr ELSE kernel.gpr
              /\ kernel'.fpr = IF bank = 2 THEN cache.fpr ELSE kernel.fpr
              /\ kernel'.brk = IF bank = 3 THEN cache.brk ELSE kernel.brk
          BY <5>1, <5>3, Zenon
        <5> QED
          BY <4>2, <5>2
      <4> QED
        BY <4>1, <4>2
    <3>3. CASE bank < 4
      <4>1. /\ bank \in {1, 2, 3} /\ (bank = 3 => Refused = {}) /\ bank' = bank + 1
            /\ op' = op /\ phase' = phase /\ given' = given
            /\ handle' = handle /\ value' = value /\ addr' = addr /\ slot' = slot
        BY <1>1, <2>2, <3>1, <3>3 DEF Advance, Handed, locals
      <4> QED
        BY <1>3, <3>1, <3>2, <4>1
    <3>4. CASE bank = 4
      BY <1>3, <2>2, <3>1, <3>2, <3>4 DEF Advance, Return
    <3> QED
      BY <1>1, <3>3, <3>4
  <2> QED
    BY <2>1, <2>2
<1> QED
  BY <1>2, <1>3


\* The edit of enable_hw_breakpoint: a free slot, or an exception.
LEMMA EnableEffect ==
    ASSUME TypeOK, EditEnable
    PROVE  /\ phase = "edit" /\ op = "enable" /\ UNCHANGED <<life, kernel, given>>
           /\ cache'.gpr = cache.gpr /\ cache'.fpr = cache.fpr
           /\ \/ /\ op' = "none" /\ phase' = "idle" /\ result' = "error" /\ cache' = cache
              \/ /\ slot' \in Slot /\ slot' \in Free
                 /\ op' = op /\ phase' = "save" /\ UNCHANGED <<bank, addr>>
                 /\ \A s \in Slot : cache'.brk[s] = IF s = slot' THEN ArmedAt(addr) ELSE cache.brk[s]
<1>1. cache \in RegisterSets
  BY DEF TypeOK
<1>2. CASE Free = {} /\ Throw /\ UNCHANGED cache
  BY <1>2 DEF EditEnable, Throw, Return
<1>3. CASE ~(Free = {} /\ Throw /\ UNCHANGED cache)
  <2>1. PICK s \in Free :
          /\ cache' = [cache EXCEPT !.brk[s] = [addr |-> addr, enabled |-> TRUE]]
          /\ slot' = s /\ phase' = "save"
          /\ UNCHANGED <<op, bank, handle, value, addr, given, result>>
    BY <1>3 DEF EditEnable
  <2>2. s \in Slot
    BY RegistersAssumption DEF Free, max_slots, Slot
  <2>3. /\ cache'.gpr = cache.gpr /\ cache'.fpr = cache.fpr
        /\ cache'.brk = [cache.brk EXCEPT ![s] = [addr |-> addr, enabled |-> TRUE]]
    BY <1>1, <2>1 DEF RegisterSets
  <2>4. ASSUME NEW t \in Slot
        PROVE  cache'.brk[t] = IF t = slot' THEN ArmedAt(addr) ELSE cache.brk[t]
    BY <1>1, <2>1, <2>2, <2>3 DEF RegisterSets, ArmedAt
  <2> QED
    BY <2>1, <2>2, <2>3, <2>4 DEF EditEnable
<1> QED
  BY <1>2, <1>3

\* The edit of disable_hw_breakpoint: the enable bit of one slot.
LEMMA DisableEffect ==
    ASSUME TypeOK, EditDisable
    PROVE  /\ phase = "edit" /\ op = "disable" /\ phase' = "save"
           /\ life' = life /\ kernel' = kernel /\ op' = op /\ bank' = bank
           /\ addr' = addr /\ slot' = slot /\ given' = given
           /\ cache'.gpr = cache.gpr /\ cache'.fpr = cache.fpr
           /\ \A s \in Slot :
                /\ cache'.brk[s].addr = cache.brk[s].addr
                /\ s # slot => cache'.brk[s] = cache.brk[s]
                /\ s = slot => ~cache'.brk[s].enabled
<1> DEFINE D == [addr : HwAddr \cup {0}, enabled : BOOLEAN]
<1>1. cache \in RegisterSets /\ slot \in Slot /\ cache.brk \in [Slot -> D]
  BY DEF TypeOK, RegisterSets
<1>2. cache' = [cache EXCEPT !.brk = [cache.brk EXCEPT ![slot] = [cache.brk[slot] EXCEPT !.enabled = FALSE]]]
  BY DEF EditDisable
<1>3. /\ cache'.gpr = cache.gpr /\ cache'.fpr = cache.fpr
      /\ cache'.brk = [cache.brk EXCEPT ![slot] = [cache.brk[slot] EXCEPT !.enabled = FALSE]]
  BY <1>1, <1>2 DEF RegisterSets
<1>4. ASSUME NEW s \in Slot
      PROVE  /\ cache'.brk[s].addr = cache.brk[s].addr
             /\ s # slot => cache'.brk[s] = cache.brk[s]
             /\ s = slot => ~cache'.brk[s].enabled
  <2>1. cache.brk[s] \in D
    BY <1>1, <1>4
  <2> QED
    BY <1>1, <1>3, <2>1
<1> QED
  BY <1>3, <1>4 DEF EditDisable, locals


-----------------------------------------------------------------------------
(* The parts of the invariant.                                             *)

\* Every call goes through its phases in order.
LEMMA ControlStep ==
    TypeOK /\ Control /\ [Next]_vars => Control'
<1> SUFFICES ASSUME TypeOK, Control, [Next]_vars  PROVE Control'
  OBVIOUS
<1>1. CASE Load
  BY <1>1 DEF Load, Begin, locals, Control
<1>2. ASSUME NEW h \in Handle, NEW val \in Values, RegisterWrite(h, val)  PROVE Control'
  BY <1>2 DEF RegisterWrite, Begin, Control
<1>3. ASSUME NEW a \in HwAddr, EnableHw(a)  PROVE Control'
  BY <1>3 DEF EnableHw, Begin, Throw, Return, Control
<1>4. ASSUME NEW s \in -1 .. DbgRegs, DisableHw(s)  PROVE Control'
  <2>1. given \in [Slot -> HwAddr \cup {0}]
    BY DEF TypeOK
  <2> QED
    BY <1>4, <2>1 DEF DisableHw, Begin, Throw, Return, Control
<1>5. CASE LoadBank
  BY <1>5, LoadEffect DEF Control
<1>6. CASE EditEnable
  BY <1>6, EnableEffect DEF Control
<1>7. CASE EditDisable
  BY <1>7, DisableEffect DEF Control
<1>8. CASE SaveBank
  BY <1>8, SaveEffect DEF Control
<1>9. CASE Killed \/ WaitExit
  BY <1>9 DEF Killed, WaitExit, locals, Control
<1>10. CASE UNCHANGED vars
  BY <1>10 DEF vars, locals, Control
<1> QED
  BY <1>1, <1>2, <1>3, <1>4, <1>5, <1>6, <1>7, <1>8, <1>9, <1>10 DEF Next

\* A register write edits the register it names.
LEMMA WriteEffect ==
    ASSUME NEW sets \in RegisterSets, NEW h \in Handle, NEW val \in Bits(4 * W)
    PROVE  /\ write(sets, h, val).brk = sets.brk
           /\ Parent(write(sets, h, val), h) = Written(sets, h, val)
<1>1. CASE General(h)
  BY <1>1 DEF write, Parent, RegisterSets
<1>2. CASE ~General(h)
  BY <1>2 DEF write, Parent, RegisterSets
<1> QED
  BY <1>1, <1>2

\* A debug slot is taken over as the cache has it, or left as it was.
LEMMA TakenFacts ==
    ASSUME TypeOK
    PROVE  /\ \A s \in Slot : \/ Taken[s] = kernel.brk[s]
                              \/ /\ s \in Saved /\ cache.brk[s].addr \notin Invalid
                                 /\ Taken[s] = cache.brk[s]
           /\ Refused = {} => \A s \in Saved : s \in Slot /\ Taken[s] = cache.brk[s]
<1>1. Saved \subseteq Slot
  BY RegistersAssumption DEF Saved, Slot
<1>2. ASSUME NEW s \in Slot, s \in Saved, cache.brk[s].addr \in Invalid
      PROVE  Taken[s] = kernel.brk[s]
  <2>1. s \in Refused /\ ~(s < s)
    BY <1>2 DEF Refused, Slot
  <2> QED
    BY <2>1 DEF Taken
<1> QED
  BY <1>1, <1>2 DEF Taken

\* No call disarms a slot that another call has handed out.
LEMMA OwnedStep ==
    TypeOK /\ Control /\ Owned /\ [Next]_vars => Owned'
<1> SUFFICES ASSUME TypeOK, Control, Owned, [Next]_vars  PROVE Owned'
  OBVIOUS
<1>1. CASE Load
  BY <1>1 DEF Load, Begin, locals, Owned, Enabling, HandedOut
<1>2. ASSUME NEW h \in Handle, NEW val \in Values, RegisterWrite(h, val)  PROVE Owned'
  <2>1. cache'.brk = cache.brk
    BY <1>2, WriteEffect, RegistersAssumption DEF RegisterWrite, TypeOK
  <2> QED
    BY <1>2, <2>1 DEF RegisterWrite, Begin, Owned, Enabling, HandedOut
<1>3. ASSUME NEW a \in HwAddr, EnableHw(a)  PROVE Owned'
  BY <1>3 DEF EnableHw, Begin, Throw, Return, Owned, Enabling, HandedOut
<1>4. ASSUME NEW s \in -1 .. DbgRegs, DisableHw(s)  PROVE Owned'
  <2>1. op' # "enable" /\ UNCHANGED <<kernel, cache>>
    BY <1>4 DEF DisableHw, Begin, Throw, Return
  <2>2. \A t \in Slot : given'[t] # 0 => given'[t] = given[t]
    BY <1>4 DEF DisableHw, Throw, TypeOK
  <2> QED
    BY <2>1, <2>2 DEF Owned, Enabling, HandedOut
<1>5. CASE LoadBank
  <2>1. phase' # "save" /\ UNCHANGED <<kernel, given>>
    BY <1>5, LoadEffect
  <2>2. cache'.brk = cache.brk \/ cache'.brk = kernel.brk
    BY <1>5, LoadEffect
  <2> QED
    BY <2>1, <2>2 DEF Owned, Enabling, HandedOut
<1>6. CASE EditEnable
  <2>1. UNCHANGED <<kernel, given>>
    BY <1>6, EnableEffect
  <2>2. CASE cache' = cache /\ op' = "none"
    BY <2>1, <2>2 DEF Owned, Enabling, HandedOut
  <2>3. CASE ~(cache' = cache /\ op' = "none")
    <3>1. /\ slot' \in Slot /\ slot' \in Free /\ phase' = "save" /\ bank' = 1 /\ addr' = addr
          /\ \A s \in Slot : cache'.brk[s] = IF s = slot' THEN ArmedAt(addr) ELSE cache.brk[s]
      BY <1>6, <2>3, EnableEffect DEF Control
    <3>2. Slots > 0 => slot' \in Saved
      BY <3>1, RegistersAssumption DEF Free, max_slots, Saved
    <3>3. Slots > 0 => given[slot'] = 0
      <4>1. ~cache.brk[slot'].enabled
        BY <3>1 DEF Free
      <4>2. \A a : ArmedAt(a).enabled
        BY DEF ArmedAt
      <4> QED
        BY <3>1, <4>1, <4>2 DEF Owned, HandedOut
    <3>4. Slots > 0 => Enabling'
      BY <3>1, <3>2 DEF Enabling
    <3>5. ASSUME Slots > 0, NEW s \in Slot  PROVE HandedOut(s)'
      BY <2>1, <3>1, <3>3, <3>5 DEF Owned, HandedOut
    <3> QED
      BY <3>4, <3>5 DEF Owned
  <2> QED
    BY <2>2, <2>3
<1>7. CASE EditDisable
  <2>1. op = "disable" /\ given[slot] = 0 /\ op' = op /\ kernel' = kernel /\ given' = given
    BY <1>7, DisableEffect DEF Control
  <2>2. \A s \in Slot : s # slot => cache'.brk[s] = cache.brk[s]
    BY <1>7, DisableEffect
  <2> QED
    BY <2>1, <2>2 DEF Owned, Enabling, HandedOut
<1>8. CASE SaveBank
  <2>1. UNCHANGED <<life, cache>>
    BY <1>8, SaveEffect
  <2>2. CASE op' = "none" /\ kernel'.brk = kernel.brk /\ given' = given
    BY <2>1, <2>2 DEF Owned, Enabling, HandedOut
  <2>3. CASE /\ bank \in {1, 2} /\ bank' = bank + 1 /\ kernel'.brk = kernel.brk
             /\ op' = op /\ phase' = phase /\ slot' = slot /\ addr' = addr /\ given' = given
    BY <2>1, <2>3 DEF Owned, Enabling, HandedOut
  <2>4. CASE /\ bank = 3 /\ kernel'.brk = Taken /\ given' = given
             /\ \/ op' = "none"
                \/ /\ Refused = {}
                   /\ op' = op /\ phase' = phase /\ slot' = slot /\ addr' = addr
    <3>1. ASSUME Slots > 0, NEW s \in Slot  PROVE HandedOut(s)'
      BY <2>1, <2>4, <3>1, TakenFacts DEF Owned, HandedOut
    <3>3. Slots > 0 => Enabling'
      BY <2>1, <2>4, TakenFacts DEF Owned, Enabling
    <3> QED
      BY <3>1, <3>3 DEF Owned
  <2>5. CASE bank = 4 /\ op' = "none" /\ kernel'.brk = kernel.brk /\ Handed
    <3>1. phase = "save" /\ given \in [Slot -> HwAddr \cup {0}]
      BY <1>8, SaveEffect DEF TypeOK
    <3>2. ASSUME Slots > 0, NEW s \in Slot  PROVE HandedOut(s)'
      BY <2>1, <2>5, <3>1, <3>2 DEF Handed, Owned, Enabling, HandedOut
    <3> QED
      BY <2>5, <3>2 DEF Owned, Enabling
  <2> QED
    BY <1>8, <2>2, <2>3, <2>4, <2>5, SaveEffect
<1>9. CASE Killed \/ WaitExit
  BY <1>9 DEF Killed, WaitExit, locals, Owned, Enabling, HandedOut
<1>10. CASE UNCHANGED vars
  BY <1>10 DEF vars, locals, Owned, Enabling, HandedOut
<1> QED
  BY <1>1, <1>2, <1>3, <1>4, <1>5, <1>6, <1>7, <1>8, <1>9, <1>10 DEF Next

\* An address the kernel refuses gets no further than the cache.
LEMMA AlignedStep ==
    TypeOK /\ Control /\ Aligned /\ [Next]_vars => Aligned'
<1> SUFFICES ASSUME TypeOK, Control, Aligned, [Next]_vars  PROVE Aligned'
  OBVIOUS
<1>1. CASE Load
  BY <1>1 DEF Load, Begin, locals, Aligned, Edited
<1>2. ASSUME NEW h \in Handle, NEW val \in Values, RegisterWrite(h, val)  PROVE Aligned'
  BY <1>2 DEF RegisterWrite, Begin, Aligned, Edited
<1>3. ASSUME NEW a \in HwAddr, EnableHw(a)  PROVE Aligned'
  BY <1>3 DEF EnableHw, Begin, Throw, Return, Aligned, Edited
<1>4. ASSUME NEW s \in -1 .. DbgRegs, DisableHw(s)  PROVE Aligned'
  BY <1>4 DEF DisableHw, Begin, Throw, Return, Aligned, Edited
<1>5. CASE LoadBank
  <2>1. kernel' = kernel /\ phase = "load"
    BY <1>5, LoadEffect
  <2>2. CASE op' = "none"
    BY <2>1, <2>2 DEF Aligned, Edited
  <2>3. CASE bank = 3 /\ cache'.brk = kernel.brk
    BY <2>1, <2>3 DEF Aligned, Edited
  <2>4. CASE bank = 4 /\ cache'.brk = cache.brk /\ op' = op
    BY <2>1, <2>4 DEF Aligned, Edited
  <2>5. CASE bank < 3 /\ bank' = bank + 1 /\ phase' = phase
    <3>1. bank' <= 3
      BY <2>5 DEF TypeOK
    <3> QED
      BY <2>1, <2>5, <3>1 DEF Aligned, Edited
  <2>6. bank \in 1 .. 4
    BY DEF TypeOK
  <2> QED
    BY <1>5, <2>2, <2>3, <2>4, <2>5, <2>6, LoadEffect
<1>6. CASE EditEnable
  <2>1. kernel' = kernel /\ phase = "edit" /\ op = "enable"
    BY <1>6, EnableEffect
  <2>2. CASE cache' = cache /\ op' = "none"
    BY <2>1, <2>2 DEF Aligned, Edited
  <2>3. CASE ~(cache' = cache /\ op' = "none")
    <3>1. /\ phase' = "save" /\ op' = "enable"
          /\ \A s \in Slot : s # slot' => cache'.brk[s] = cache.brk[s]
      BY <1>6, <2>3, EnableEffect
    <3> QED
      BY <2>1, <3>1 DEF Aligned, Edited
  <2> QED
    BY <2>2, <2>3
<1>7. CASE EditDisable
  <2>1. /\ kernel' = kernel /\ phase = "edit" /\ op = "disable"
        /\ \A s \in Slot : cache'.brk[s].addr = cache.brk[s].addr
    BY <1>7, DisableEffect
  <2> QED
    BY <2>1 DEF Aligned, Edited
<1>8. CASE SaveBank
  <2>1. cache' = cache /\ phase = "save"
    BY <1>8, SaveEffect
  <2>2. ASSUME NEW s \in Slot
        PROVE  /\ kernel'.brk[s].addr \notin Invalid
               /\ kernel'.brk[s].enabled => s \in Saved
    BY <1>8, SaveEffect, TakenFacts DEF Aligned
  <2>3. \/ op' = "none"
        \/ op' = op /\ phase' = phase /\ slot' = slot
    BY <1>8, SaveEffect
  <2> QED
    BY <2>1, <2>2, <2>3 DEF Aligned, Edited
<1>9. CASE Killed \/ WaitExit
  BY <1>9 DEF Killed, WaitExit, locals, Aligned, Edited
<1>10. CASE UNCHANGED vars
  BY <1>10 DEF vars, locals, Aligned, Edited
<1> QED
  BY <1>1, <1>2, <1>3, <1>4, <1>5, <1>6, <1>7, <1>8, <1>9, <1>10 DEF Next

\* A slot is given back, or never handed out, disarmed.
LEMMA StraysStep ==
    TypeOK /\ Control /\ Aligned /\ Strays /\ [Next]_vars => Strays'
<1> SUFFICES ASSUME TypeOK, Control, Aligned, Strays, [Next]_vars  PROVE Strays'
  OBVIOUS
<1>1. CASE Load
  BY <1>1 DEF Load, Begin, locals, Control, Strays, KernelStray, CacheStray
<1>2. ASSUME NEW h \in Handle, NEW val \in Values, RegisterWrite(h, val)  PROVE Strays'
  <2>1. cache'.brk = cache.brk
    BY <1>2, WriteEffect, RegistersAssumption DEF RegisterWrite, TypeOK
  <2> QED
    BY <1>2, <2>1 DEF RegisterWrite, Begin, Control, Strays, KernelStray, CacheStray
<1>3. ASSUME NEW a \in HwAddr, EnableHw(a)  PROVE Strays'
  BY <1>3 DEF EnableHw, Begin, Throw, Return, Control, Strays, KernelStray, CacheStray
<1>4. ASSUME NEW s \in -1 .. DbgRegs, DisableHw(s)  PROVE Strays'
  <2>1. CASE life # "cleared" /\ s \in Slot
    <3>1. /\ phase = "idle" /\ op' = "disable" /\ phase' = "load" /\ slot' = s
          /\ UNCHANGED <<life, kernel, cache>>
          /\ \A t \in Slot : t # s => given'[t] = given[t]
      BY <1>4, <2>1 DEF DisableHw, Begin, TypeOK
    <3> QED
      BY <3>1 DEF Control, Strays, KernelStray, CacheStray
  <2>2. CASE ~(life # "cleared" /\ s \in Slot)
    <3>1. phase = "idle" /\ UNCHANGED <<life, kernel, cache, given>>
      BY <1>4, <2>2 DEF DisableHw, Throw
    <3> QED
      BY <3>1 DEF Control, Strays, KernelStray, CacheStray
  <2> QED
    BY <2>1, <2>2
<1>5. CASE LoadBank
  <2>1. /\ phase = "load" /\ kernel' = kernel /\ given' = given /\ life' = life
        /\ cache'.brk = cache.brk \/ cache'.brk = kernel.brk
    BY <1>5, LoadEffect
  <2>2. CASE life # "stopped"
    BY <2>1, <2>2 DEF Strays
  <2>3. CASE /\ op' = op /\ slot' = slot /\ phase' # "save"
    BY <2>1, <2>3 DEF Control, Strays, KernelStray, CacheStray
  <2>4. CASE op = "load"
    BY <2>1, <2>4 DEF Strays, KernelStray, CacheStray
  <2> QED
    BY <1>5, <2>2, <2>3, <2>4, LoadEffect
<1>6. CASE EditEnable
  <2>1. kernel' = kernel /\ given' = given /\ life' = life /\ op = "enable" /\ phase = "edit"
    BY <1>6, EnableEffect
  <2>2. CASE cache' = cache /\ op' = "none"
    BY <2>1, <2>2 DEF Strays, KernelStray, CacheStray
  <2>3. CASE ~(cache' = cache /\ op' = "none")
    <3>1. /\ phase' = "save" /\ op' = "enable"
          /\ \A s \in Slot : s # slot' => cache'.brk[s] = cache.brk[s]
      BY <1>6, <2>3, EnableEffect
    <3> QED
      BY <2>1, <3>1 DEF Strays, KernelStray, CacheStray
  <2> QED
    BY <2>2, <2>3
<1>7. CASE EditDisable
  <2>1. /\ kernel' = kernel /\ given' = given /\ life' = life /\ phase' = "save"
        /\ op = "disable" /\ op' = op /\ slot' = slot /\ bank' = 1
        /\ \A s \in Slot : s # slot => cache'.brk[s] = cache.brk[s]
        /\ \A s \in Slot : s = slot => ~cache'.brk[s].enabled
    BY <1>7, DisableEffect DEF Control
  <2> QED
    BY <2>1 DEF Strays, KernelStray, CacheStray
<1>8. CASE SaveBank
  <2>1. cache' = cache /\ phase = "save" /\ life' = life
    BY <1>8, SaveEffect
  <2>2. CASE life # "stopped"
    BY <2>1, <2>2 DEF Strays
  <2>3. CASE /\ bank \in {1, 2} /\ bank' = bank + 1 /\ kernel'.brk = kernel.brk
             /\ op' = op /\ phase' = phase /\ slot' = slot /\ given' = given
    BY <2>1, <2>3 DEF Strays, KernelStray, CacheStray
  <2>4. CASE /\ life = "stopped" /\ bank = 3 /\ kernel'.brk = Taken /\ given' = given
             /\ Refused = {} /\ bank' = 4 /\ op' = op /\ phase' = phase /\ slot' = slot
    <3> SUFFICES ASSUME NEW s \in Slot, given[s] = 0
                 PROVE  KernelStray(s)' /\ CacheStray(s)'
      BY <2>1, <2>4 DEF Strays
    <3>1. KernelStray(s) /\ CacheStray(s)
      BY <2>4 DEF Strays
    <3>2. CacheStray(s)'
      BY <2>1, <2>4, <3>1 DEF CacheStray
    <3>3. s \in Saved => cache.brk[s].addr \notin Invalid /\ Taken[s] = cache.brk[s]
      BY <2>4, TakenFacts DEF Refused
    <3>4. s \notin Saved => ~kernel.brk[s].enabled /\ Taken[s] = kernel.brk[s]
      BY TakenFacts DEF Aligned
    <3> QED
      BY <2>1, <2>4, <3>1, <3>2, <3>3, <3>4 DEF KernelStray, CacheStray
  <2>5. CASE /\ life = "stopped" /\ bank = 3 /\ kernel'.brk = Taken /\ given' = given
             /\ Refused # {} /\ op' = "none"
    <3> SUFFICES ASSUME NEW s \in Slot, given[s] = 0
                 PROVE  KernelStray(s)' /\ CacheStray(s)'
      BY <2>1, <2>5 DEF Strays
    <3>1. KernelStray(s) /\ CacheStray(s)
      BY <2>5 DEF Strays
    <3>2. PICK r \in Saved : cache.brk[r].addr \in Invalid
      BY <2>5 DEF Refused
    <3>3. r \in Slot
      BY RegistersAssumption DEF Saved, Slot
    <3>4. op # "disable" /\ (op = "enable" => cache.brk[slot].addr \in Invalid)
      BY <2>1, <3>2, <3>3 DEF Aligned, Edited
    <3>5. cache.brk[s].enabled => cache.brk[s].addr \in Invalid
      BY <2>1, <3>1, <3>4 DEF CacheStray
    <3>6. ~kernel.brk[s].enabled
      BY <2>5, <3>1, <3>4 DEF KernelStray
    <3>7. ~kernel'.brk[s].enabled
      BY <2>5, <3>5, <3>6, TakenFacts
    <3> QED
      BY <2>1, <3>5, <3>7 DEF KernelStray, CacheStray
  <2>6. CASE bank = 4 /\ op' = "none" /\ kernel'.brk = kernel.brk /\ Handed
    <3>1. given \in [Slot -> HwAddr \cup {0}] /\ (op = "enable" => addr # 0)
      BY RegistersAssumption DEF TypeOK, Control
    <3>2. ASSUME NEW s \in Slot, given'[s] = 0
          PROVE  given[s] = 0 /\ ~(op = "enable" /\ s = slot)
      BY <2>6, <3>1, <3>2 DEF Handed
    <3> QED
      BY <2>1, <2>6, <3>2 DEF Strays, KernelStray, CacheStray
  <2> QED
    BY <1>8, <2>2, <2>3, <2>4, <2>5, <2>6, SaveEffect
<1>9. CASE Killed \/ WaitExit
  BY <1>9 DEF Killed, WaitExit, locals, Strays, KernelStray, CacheStray
<1>10. CASE UNCHANGED vars
  BY <1>10 DEF vars, locals, Strays, KernelStray, CacheStray
<1> QED
  BY <1>1, <1>2, <1>3, <1>4, <1>5, <1>6, <1>7, <1>8, <1>9, <1>10 DEF Next

\* A register set is the same on both sides once it has been moved.
LEMMA ImageStep ==
    TypeOK /\ Control /\ Image /\ [Next]_vars => Image'
<1> SUFFICES ASSUME TypeOK, Control, Image, [Next]_vars  PROVE Image'
  OBVIOUS
<1>1. CASE Load
  BY <1>1 DEF Load, Begin, locals, Control, Image, SlotsSame
<1>2. ASSUME NEW h \in Handle, NEW val \in Values, RegisterWrite(h, val)  PROVE Image'
  BY <1>2 DEF RegisterWrite, Begin, Control, Image, SlotsSame
<1>3. ASSUME NEW a \in HwAddr, EnableHw(a)  PROVE Image'
  BY <1>3 DEF EnableHw, Begin, Throw, Return, Control, Image, SlotsSame
<1>4. ASSUME NEW s \in -1 .. DbgRegs, DisableHw(s)  PROVE Image'
  BY <1>4 DEF DisableHw, Begin, Throw, Return, Control, Image, SlotsSame
<1>5. CASE LoadBank
  <2>1. phase = "load" /\ kernel' = kernel /\ life' = life /\ op # "write"
    BY <1>5, LoadEffect DEF Control
  <2>2. CASE life # "stopped"
    BY <2>1, <2>2 DEF Image
  <2>3. CASE life = "stopped"
    <3>1. cache.gpr = kernel.gpr /\ cache.fpr = kernel.fpr
      BY <2>1, <2>3 DEF Image
    <3>2. cache'.gpr = kernel.gpr /\ cache'.fpr = kernel.fpr
      BY <1>5, <2>3, <3>1, LoadEffect
    <3>3. CASE bank \in {1, 2}
      <4>1. phase' = "load" /\ bank' \in {2, 3}
        BY <1>5, <2>1, <2>3, <3>3, LoadEffect
      <4> QED
        BY <2>1, <3>2, <4>1 DEF Image
    <3>4. CASE bank = 3
      <4>1. cache'.brk = kernel.brk
        BY <1>5, <2>3, <3>4, LoadEffect
      <4> QED
        BY <2>1, <3>2, <4>1 DEF Image, SlotsSame
    <3>5. CASE bank = 4
      <4>1. cache'.brk = cache.brk
        BY <1>5, <2>3, <3>5, LoadEffect
      <4> QED
        BY <2>1, <2>3, <3>2, <3>5, <4>1 DEF Image, SlotsSame
    <3> QED
      BY <3>3, <3>4, <3>5 DEF TypeOK
  <2> QED
    BY <2>2, <2>3
<1>6. CASE EditEnable
  <2>1. /\ kernel' = kernel /\ life' = life /\ op = "enable" /\ phase = "edit"
        /\ cache'.gpr = cache.gpr /\ cache'.fpr = cache.fpr
    BY <1>6, EnableEffect
  <2>2. CASE op' = "none" /\ phase' = "idle" /\ result' = "error"
    BY <2>1, <2>2 DEF Image
  <2>3. CASE op' = op /\ phase' = "save" /\ bank' = bank
    BY <2>1, <2>3 DEF Control, Image
  <2> QED
    BY <1>6, <2>2, <2>3, EnableEffect
<1>7. CASE EditDisable
  <2>1. /\ kernel' = kernel /\ life' = life /\ op = "disable" /\ op' = op /\ phase' = "save"
        /\ bank' = 1 /\ cache'.gpr = cache.gpr /\ cache'.fpr = cache.fpr
    BY <1>7, DisableEffect DEF Control
  <2> QED
    BY <2>1 DEF Image
<1>8. CASE SaveBank
  <2>1. cache' = cache /\ phase = "save" /\ life' = life
    BY <1>8, SaveEffect
  <2>2. CASE life # "stopped"
    BY <2>1, <2>2 DEF Image
  <2>3. CASE life = "stopped" /\ bank = 1
    <3>1. /\ kernel'.gpr = cache.gpr /\ kernel'.fpr = kernel.fpr /\ op' = op
          /\ bank' = 2 /\ phase' = phase
      BY <1>8, <2>3, SaveEffect
    <3> QED
      BY <2>1, <2>3, <3>1 DEF Image
  <2>4. CASE life = "stopped" /\ bank = 2
    <3>1. /\ kernel'.gpr = kernel.gpr /\ kernel'.fpr = cache.fpr /\ op' = op
          /\ bank' = 3 /\ phase' = phase
      BY <1>8, <2>4, SaveEffect
    <3> QED
      BY <2>1, <2>4, <3>1 DEF Image
  <2>5. CASE life = "stopped" /\ bank = 3
    <3>1. /\ kernel'.gpr = kernel.gpr /\ kernel'.fpr = kernel.fpr /\ kernel'.brk = Taken
          /\ \/ phase' = "idle" /\ result' = "error"
             \/ Refused = {}
      BY <1>8, <2>5, SaveEffect
    <3>2. cache.gpr = kernel.gpr /\ cache.fpr = kernel.fpr
      BY <2>1, <2>5 DEF Image
    <3>3. Refused = {} => SlotsSame'
      BY <2>1, <3>1, TakenFacts DEF SlotsSame
    <3> QED
      BY <2>1, <3>1, <3>2, <3>3 DEF Image
  <2>6. CASE life = "stopped" /\ bank = 4
    <3>1. kernel'.gpr = kernel.gpr /\ kernel'.fpr = kernel.fpr /\ kernel'.brk = kernel.brk
      BY <1>8, <2>6, SaveEffect
    <3> QED
      BY <2>1, <2>6, <3>1 DEF Image, SlotsSame
  <2> QED
    BY <2>2, <2>3, <2>4, <2>5, <2>6 DEF TypeOK
<1>9. CASE Killed \/ WaitExit
  BY <1>9 DEF Killed, WaitExit, locals, Image, SlotsSame
<1>10. CASE UNCHANGED vars
  BY <1>10 DEF vars, locals, Image, SlotsSame
<1> QED
  BY <1>1, <1>2, <1>3, <1>4, <1>5, <1>6, <1>7, <1>8, <1>9, <1>10 DEF Next

\* A write through a handle is what a read through it returns, for a register
\* as for a view of one.
LEMMA ReadBack ==
    ASSUME NEW sets \in RegisterSets, NEW h \in Handle, NEW val \in Bits(4 * W)
    PROVE  read(write(sets, h, val), h) = Truncate(val, get_bit_size(h))
<1>1. Parent(write(sets, h, val), h) = Written(sets, h, val)
  BY WriteEffect
<1>2. CASE Full(h)
  BY <1>1, <1>2 DEF read, Written
<1>3. CASE Sub(h)
  <2> DEFINE low  == Truncate(val, 2 * W)
             size == make_subview(h).bit_size
  <2>0. Parent(sets, h) \in Bits(Width(h))
    BY DEF Parent, Width, RegisterSets
  <2>1. low \in Bits(2 * W)
    BY WAssumption, TruncateType
  <2>2. size \in 1 .. 2 * W
    BY <1>3, ViewFacts
  <2>4. Truncate(low, size) = Truncate(val, size)
    <3> HIDE DEF size
    <3> SUFFICES \A b \in 0 .. size - 1 : low[b] = val[b]
      BY DEF Truncate
    <3> QED
      BY <2>2, WAssumption DEF Truncate
  <2>3. read(write(sets, h, val), h) = Truncate(low, size)
    <3>1. ASSUME NEW y \in Bits(2 * W)
          PROVE  read_u64(make_subview(h), write_u64(make_subview(h), Parent(sets, h), y))
                 = Truncate(y, size)
      BY <1>3, <2>0, <3>1, ReadAfterWrite
    <3>2. Written(sets, h, val) = write_u64(make_subview(h), Parent(sets, h), low)
      BY <1>3 DEF Written, Sub
    <3>3. read(write(sets, h, val), h) = read_u64(make_subview(h), Written(sets, h, val))
      BY <1>1, <1>3 DEF read, Sub
    <3> HIDE DEF low, size
    <3> QED
      BY <2>1, <3>1, <3>2, <3>3
  <2>5. get_bit_size(h) = size
    BY <1>3 DEF get_bit_size, Sub, Full
  <2> HIDE DEF low, size
  <2> QED
    BY <2>3, <2>4, <2>5
<1> QED
  BY <1>2, <1>3 DEF Sub

\* Nothing but the write itself changes the cache while it is saved.
LEMMA ShownStep ==
    TypeOK /\ Control /\ Shown /\ [Next]_vars => Shown'
<1> SUFFICES ASSUME TypeOK, Control, Shown, [Next]_vars  PROVE Shown'
  OBVIOUS
<1>1. CASE Load
  BY <1>1 DEF Load, Begin, Shown
<1>2. ASSUME NEW h \in Handle, NEW val \in Values, RegisterWrite(h, val)  PROVE Shown'
  <2>1. cache \in RegisterSets /\ val \in Bits(4 * W)
    BY RegistersAssumption DEF TypeOK
  <2>2. handle' = h /\ value' = val /\ cache' = write(cache, h, val)
    BY <1>2 DEF RegisterWrite
  <2>3. read(write(cache, h, val), h) = Truncate(val, get_bit_size(h))
    BY <2>1, ReadBack
  <2> QED
    BY <2>2, <2>3 DEF Shown
<1>3. ASSUME NEW a \in HwAddr, EnableHw(a)  PROVE Shown'
  BY <1>3 DEF EnableHw, Begin, Throw, Return, Shown
<1>4. ASSUME NEW s \in -1 .. DbgRegs, DisableHw(s)  PROVE Shown'
  BY <1>4 DEF DisableHw, Begin, Throw, Return, Shown
<1>5. CASE LoadBank
  <2>1. op # "write" /\ op' \in {op, "none"}
    BY <1>5, LoadEffect DEF Control
  <2> QED
    BY <2>1 DEF Shown
<1>6. CASE EditEnable
  BY <1>6, EnableEffect DEF Shown
<1>7. CASE EditDisable
  BY <1>7, DisableEffect DEF Shown
<1>8. CASE SaveBank
  <2>1. cache' = cache /\ (op' = "none" \/ (handle' = handle /\ value' = value /\ op' = op))
    BY <1>8, SaveEffect
  <2> QED
    BY <2>1 DEF Shown
<1>9. CASE Killed \/ WaitExit
  BY <1>9 DEF Killed, WaitExit, locals, Shown
<1>10. CASE UNCHANGED vars
  BY <1>10 DEF vars, locals, Shown
<1> QED
  BY <1>1, <1>2, <1>3, <1>4, <1>5, <1>6, <1>7, <1>8, <1>9, <1>10 DEF Next

-----------------------------------------------------------------------------
(* The theorems.                                                           *)

\* The first stop satisfies every part of the invariant.
LEMMA InitIInv ==
    Init => IInv
<1> SUFFICES ASSUME Init  PROVE IInv
  OBVIOUS
<1>1. TypeOK
  BY TypeInit
<1>2. /\ life = "stopped" /\ cache = kernel /\ op = "none" /\ phase = "idle" /\ bank = 1
      /\ \A s \in Slot : given[s] = 0
  BY DEF Init
<1>3. \A s \in Slot : kernel.brk[s] = Unset
  <2>1. PICK val \in Values :
          kernel = [gpr |-> Truncate(val, 2 * W), fpr |-> val,
                    brk |-> [s \in Slot |-> Unset], watch |-> "as attached"]
    BY DEF Init
  <2>2. kernel.brk = [s \in Slot |-> Unset]
    BY <2>1
  <2> QED
    BY <2>2
<1>4. 0 \notin Invalid
  BY RegistersAssumption
<1>5. Control /\ Owned /\ Image /\ Shown
  BY <1>2 DEF Control, Owned, Enabling, HandedOut, Image, SlotsSame, Shown
<1>6. \A s \in Slot : ~kernel.brk[s].enabled /\ kernel.brk[s].addr \notin Invalid
  BY <1>3, <1>4 DEF Unset
<1>7. Aligned /\ Strays
  BY <1>2, <1>6 DEF Aligned, Edited, Strays, KernelStray, CacheStray
<1> QED
  BY <1>1, <1>5, <1>7 DEF IInv

\* The inductive invariant holds in every reachable state.
THEOREM Invariance ==
    Spec => []IInv
<1>1. IInv /\ [Next]_vars => IInv'
  BY TypeStep, ControlStep, OwnedStep, AlignedStep, StraysStep, ImageStep, ShownStep DEF IInv
<1> QED
  BY InitIInv, <1>1, PTL DEF Spec

\* On a processor with breakpoint slots, a slot that enable_hw_breakpoint has
\* returned stays armed until it is disabled, through every other call, refusal
\* and failure.
THEOREM SlotsStayArmed ==
    ASSUME Slots > 0  PROVE Spec => []HwArmed
<1>1. IInv => HwArmed
  BY DEF IInv, Owned, HandedOut, ArmedAt, HwArmed
<1> QED
  BY Invariance, <1>1, PTL

\* No debug slot is left armed that nobody owns.
THEOREM NoSlotLeftArmed ==
    Spec => []NoOrphanSlot
<1>1. IInv => NoOrphanSlot
  BY DEF IInv, Control, Strays, KernelStray, NoOrphanSlot
<1> QED
  BY Invariance, <1>1, PTL

\* Between calls the register cache shows the process.
THEOREM CacheShowsProcess ==
    Spec => []CacheIsImage
<1>1. IInv => CacheIsImage
  BY DEF IInv, Control, Image, SlotsSame, CacheIsImage
<1> QED
  BY Invariance, <1>1, PTL

\* What is written through a name is read through it, for every width.
THEOREM WritesReadBack ==
    Spec => []ReadsBack
<1>1. IInv => ReadsBack
  BY DEF IInv, Shown, ReadsBack
<1> QED
  BY Invariance, <1>1, PTL

\* A register write that ends while the process is there has reached it, also
\* one that reports the failure of the debug slots.
THEOREM WritesArrive ==
    Spec => NoWriteLost
<1>1. ASSUME IInv, [Next]_vars, op = "write", op' = "none", life = "stopped"
      PROVE  read(kernel', handle) = Truncate(value, get_bit_size(handle))
  <2>1. SaveBank
    <3>1. phase = "save" /\ op = "write"
      BY <1>1 DEF IInv, Control
    <3>2. ~UNCHANGED vars
      BY <1>1 DEF vars
    <3> QED
      BY <1>1, <3>1, <3>2 DEF Next, Load, RegisterWrite, EnableHw, DisableHw, Begin, LoadBank,
         EditEnable, EditDisable, Killed, WaitExit
  <2>2. bank \in {3, 4} /\ kernel'.gpr = kernel.gpr /\ kernel'.fpr = kernel.fpr
    BY <1>1, <2>1, SaveEffect DEF IInv
  <2>3. cache.gpr = kernel.gpr /\ cache.fpr = kernel.fpr
    BY <1>1, <2>2 DEF IInv, Image
  <2>4. Parent(kernel', handle) = Parent(cache, handle)
    BY <2>2, <2>3 DEF Parent
  <2> QED
    BY <1>1, <2>4 DEF IInv, Shown, read
<1>2. IInv /\ [Next]_vars =>
        [op = "write" /\ op' = "none" /\ life = "stopped" =>
            read(kernel', handle) = Truncate(value, get_bit_size(handle))]_vars
  BY <1>1
<1> QED
  BY Invariance, <1>2, PTL DEF Spec, NoWriteLost

=============================================================================
