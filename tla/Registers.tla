----------------------------- MODULE Registers -----------------------------
(***************************************************************************)
(* The register cache (registers.cpp) and the hardware breakpoints built   *)
(* on it (breakpoints.cpp), over a process that stays in ptrace-stop.  The *)
(* cache and the process each hold four register sets, which load and save *)
(* move one request at a time; a SIGKILL may come before each of them.     *)
(*                                                                         *)
(* One general register stands for user_pt_regs, one vector register for   *)
(* user_fpsimd_state.  A debug slot is its address and the enable bit of   *)
(* its control word.  The watchpoint set is only ever moved whole.         *)
(***************************************************************************)
EXTENDS SubregisterView

CONSTANTS
    Slots,      \* breakpoint slots the processor has: dbg_info & 0xff
    DbgRegs,    \* slots user_hwdebug_state has room for: 16 in the code
    HwAddr,     \* the addresses the client asks breakpoints for
    Invalid,    \* those the kernel refuses, such as an address of its own
    Values      \* the values the registers start with and the client writes

ASSUME RegistersAssumption ==
    /\ DbgRegs \in Nat \ {0}
    /\ Slots \in 0 .. DbgRegs
    /\ HwAddr \subseteq Nat \ {0}
    /\ Invalid \subseteq HwAddr
    /\ Values \subseteq Bits(4 * W)

VARIABLES
    life,       \* "stopped", "dead", or "cleared": reaped, pid_ = 0
    kernel,     \* the register sets of the process
    cache,      \* gpr, fpr, hw_break, hw_watch
    op,         \* the call under way
    phase,      \* what it does: "idle", "load", "edit" or "save"
    bank,       \* the register set it moves next
    handle,     \* write: the register or part of it
    value,      \* write: its value, 128 bits
    addr, slot, \* enable_hw_breakpoint, disable_hw_breakpoint
    given,      \* given[s]: the address slot s was returned for, 0 for none
    result      \* how the last call ended

locals == <<handle, value, addr, slot>>
vars   == <<life, kernel, cache, op, phase, bank, locals, given, result>>

Slot  == 0 .. DbgRegs - 1
Saved == 0 .. Slots - 1     \* the slots break_debug_size makes room for

Bank == <<"gpr", "fpr", "brk", "watch">>

RegisterSets ==
    [gpr : Bits(2 * W), fpr : Bits(4 * W),
     brk : [Slot -> [addr : HwAddr \cup {0}, enabled : BOOLEAN]],
     watch : {"as attached"}]

Handle ==
    [kind : {"x", "w", "v", "s", "d"}, lane : {0}]
        \cup [kind : {"4s"}, lane : 0 .. 3] \cup [kind : {"2d"}, lane : 0 .. 1]

TypeOK ==
    /\ life \in {"stopped", "dead", "cleared"}
    /\ kernel \in RegisterSets
    /\ cache \in RegisterSets
    /\ op \in {"none", "load", "write", "enable", "disable"}
    /\ phase \in {"idle", "load", "edit", "save"}
    /\ bank \in 1 .. 4
    /\ handle \in Handle
    /\ value \in Bits(4 * W)
    /\ addr \in HwAddr \cup {0}
    /\ slot \in Slot
    /\ given \in [Slot -> HwAddr \cup {0}]
    /\ result \in {"ok", "error"}

Unset == [addr |-> 0, enabled |-> FALSE]

x0     == [kind |-> "x", lane |-> 0]
Zeroes == [b \in 0 .. 4 * W - 1 |-> 0]

\* The first stop has been waited for and its registers loaded.
Init ==
    /\ life = "stopped"
    /\ \E val \in Values :
          kernel = [gpr |-> Truncate(val, 2 * W), fpr |-> val,
                    brk |-> [s \in Slot |-> Unset], watch |-> "as attached"]
    /\ cache = kernel
    /\ op = "none" /\ phase = "idle" /\ bank = 1
    /\ handle = x0 /\ value = Zeroes /\ addr = 0 /\ slot = 0
    /\ given = [s \in Slot |-> 0]
    /\ result = "ok"

-----------------------------------------------------------------------------
(* Handles.                                                                *)

Full(h)    == h.kind \in {"x", "v"}
General(h) == h.kind \in {"x", "w"}

make_subview(h) ==
    CASE h.kind = "w"  -> make_wn
      [] h.kind = "s"  -> make_sn(TRUE)
      [] h.kind = "d"  -> make_dn(TRUE)
      [] h.kind = "4s" -> make_vn_lane_s(h.lane)
      [] h.kind = "2d" -> make_vn_lane_d(h.lane)

get_bit_size(h) ==
    CASE h.kind = "x" -> 2 * W
      [] h.kind = "v" -> 4 * W
      [] OTHER        -> make_subview(h).bit_size

Parent(sets, h) == IF General(h) THEN sets.gpr ELSE sets.fpr

read(sets, h) ==
    IF Full(h) THEN Parent(sets, h) ELSE read_u64(make_subview(h), Parent(sets, h))

\* Seeded fault: a full register is not cut to its size.
Written_Uncut(sets, h, val) ==
    IF Full(h) THEN val
    ELSE write_u64(make_subview(h), Parent(sets, h), Truncate(val, 2 * W))

\* set_register truncates to the register, set_subregister to 64 bits.
Written(sets, h, val) ==
    IF Full(h) THEN Truncate(val, get_bit_size(h))
    ELSE write_u64(make_subview(h), Parent(sets, h), Truncate(val, 2 * W))

write(sets, h, val) ==
    IF General(h) THEN [sets EXCEPT !.gpr = Written(sets, h, val)]
                  ELSE [sets EXCEPT !.fpr = Written(sets, h, val)]

-----------------------------------------------------------------------------
(* The client's calls.                                                     *)

Begin(o, p) == phase = "idle" /\ op' = o /\ phase' = p /\ bank' = 1
\* The locals of the call go with it.
Return(res) ==
    /\ op' = "none" /\ phase' = "idle" /\ bank' = 1
    /\ handle' = x0 /\ value' = Zeroes /\ addr' = 0 /\ slot' = 0
    /\ result' = res

Throw == Return("error") /\ UNCHANGED given

\* Process::read_all_registers, at every stop.
Load ==
    /\ Begin("load", "load")
    /\ UNCHANGED <<life, kernel, cache, locals, given, result>>

\* Seeded fault: the cache is saved without the edit.
RegisterWrite_Unwritten(h, val) ==
    /\ Begin("write", "save")
    /\ handle' = h /\ value' = val
    /\ UNCHANGED <<life, kernel, cache, addr, slot, given, result>>

\* handle_register_write: the cache is edited, then all of it saved.
RegisterWrite(h, val) ==
    /\ Begin("write", "save")
    /\ handle' = h /\ value' = val
    /\ cache' = write(cache, h, val)
    /\ UNCHANGED <<life, kernel, addr, slot, given, result>>

EnableHw(a) ==
    /\ \/ /\ life # "cleared"
          /\ Begin("enable", "load")
          /\ addr' = a
          /\ UNCHANGED <<handle, value, slot, given, result>>
       \/ life = "cleared" /\ phase = "idle" /\ Throw
    /\ UNCHANGED <<life, kernel, cache>>

\* From here on the client no longer counts on the slot.
DisableHw(s) ==
    /\ \/ /\ life # "cleared" /\ s \in Slot
          /\ Begin("disable", "load")
          /\ slot' = s
          /\ given' = [given EXCEPT ![s] = 0]
          /\ UNCHANGED <<handle, value, addr, result>>
       \/ (life = "cleared" \/ s \notin Slot) /\ phase = "idle" /\ Throw
    /\ UNCHANGED <<life, kernel, cache>>

-----------------------------------------------------------------------------
(* What the calls consist of.                                              *)

\* The call's next request, or its end after the last register set.
Advance == IF bank < 4 THEN bank' = bank + 1 /\ UNCHANGED <<op, phase, locals, result>>
                       ELSE Return("ok")

LoadBank ==
    /\ phase = "load"
    /\ \/ /\ life = "stopped"
          /\ cache' = [cache EXCEPT ![Bank[bank]] = kernel[Bank[bank]]]
          /\ IF bank = 4 /\ op # "load"
             THEN phase' = "edit" /\ bank' = 1 /\ UNCHANGED <<op, locals, result>>
             ELSE Advance
          /\ UNCHANGED given
       \/ life # "stopped" /\ Throw /\ UNCHANGED cache
    /\ UNCHANGED <<life, kernel>>

\* num_hw_breakpoint_slots, or all the slots there is room for if it is 0.
max_slots == IF Slots = 0 THEN DbgRegs ELSE Slots

\* Seeded fault: a slot counts as taken only by the address asked for.
Free_ByAddress == {s \in 0 .. max_slots - 1 : cache.brk[s].addr # addr}

Free == {s \in 0 .. max_slots - 1 : ~cache.brk[s].enabled}

EditEnable ==
    /\ phase = "edit" /\ op = "enable"
    /\ \/ \E s \in Free :
            /\ \A t \in Free : s <= t
            /\ cache' = [cache EXCEPT !.brk[s] = [addr |-> addr, enabled |-> TRUE]]
            /\ slot' = s
            /\ phase' = "save"
            /\ UNCHANGED <<op, bank, handle, value, addr, given, result>>
       \/ Free = {} /\ Throw /\ UNCHANGED cache
    /\ UNCHANGED <<life, kernel>>

\* Seeded fault: the address goes, the enable bit stays.
EditDisable_AddressOnly ==
    /\ phase = "edit" /\ op = "disable"
    /\ cache' = [cache EXCEPT !.brk[slot].addr = 0]
    /\ phase' = "save"
    /\ UNCHANGED <<life, kernel, op, bank, locals, given, result>>

EditDisable ==
    /\ phase = "edit" /\ op = "disable"
    /\ cache' = [cache EXCEPT !.brk[slot].enabled = FALSE]
    /\ phase' = "save"
    /\ UNCHANGED <<life, kernel, op, bank, locals, given, result>>

Refused == {s \in Saved : cache.brk[s].addr \in Invalid}

\* The kernel takes the debug slots in order, up to the first it refuses.
Taken == [s \in Slot |-> IF s \in Saved /\ \A r \in Refused : s < r
                         THEN cache.brk[s] ELSE kernel.brk[s]]

Handed == given' = IF bank = 4 /\ op = "enable" THEN [given EXCEPT ![slot] = addr] ELSE given

\* Seeded fault: the breakpoint set is never saved.
SaveBank_NoDebugSet ==
    /\ phase = "save"
    /\ \/ /\ life = "stopped"
          /\ kernel' = IF Bank[bank] = "brk" THEN kernel
                       ELSE [kernel EXCEPT ![Bank[bank]] = cache[Bank[bank]]]
          /\ Advance /\ Handed
       \/ life # "stopped" /\ Throw /\ UNCHANGED kernel
    /\ UNCHANGED <<life, cache>>

SaveBank ==
    /\ phase = "save"
    /\ \/ /\ life = "stopped" /\ (Bank[bank] = "brk" => Refused = {})
          /\ kernel' = [kernel EXCEPT ![Bank[bank]] =
                IF Bank[bank] = "brk" THEN Taken ELSE cache[Bank[bank]]]
          /\ Advance /\ Handed
       \/ /\ life = "stopped" /\ Bank[bank] = "brk" /\ Refused # {}
          /\ kernel' = [kernel EXCEPT !.brk = Taken]
          /\ Throw
       \/ life # "stopped" /\ Throw /\ UNCHANGED kernel
    /\ UNCHANGED <<life, cache>>

-----------------------------------------------------------------------------
\* SIGKILL, and the client's wait_on_signal that reaps and clears pid_.
Killed ==
    /\ life = "stopped" /\ life' = "dead"
    /\ UNCHANGED <<kernel, cache, op, phase, bank, locals, given, result>>

WaitExit ==
    /\ life = "dead" /\ phase = "idle" /\ life' = "cleared"
    /\ UNCHANGED <<kernel, cache, op, phase, bank, locals, given, result>>

Next ==
    \/ Load
    \/ \E h \in Handle, val \in Values : RegisterWrite(h, val)
    \/ \E a \in HwAddr : EnableHw(a)
    \/ \E s \in -1 .. DbgRegs : DisableHw(s)
    \/ LoadBank \/ EditEnable \/ EditDisable \/ SaveBank
    \/ Killed \/ WaitExit

Spec == Init /\ [][Next]_vars

-----------------------------------------------------------------------------
(* Properties.                                                             *)

\* What a write put in the cache is what a read of the same name returns, cut
\* to the name's width: views read where they write.
ReadsBack ==
    phase = "save" /\ op = "write" =>
        read(cache, handle) = Truncate(value, get_bit_size(handle))

\* Between calls the cache shows the process's registers, also after a call
\* that failed; its debug slots too, unless the kernel has refused one.
CacheIsImage ==
    phase = "idle" /\ life = "stopped" =>
        /\ cache.gpr = kernel.gpr
        /\ cache.fpr = kernel.fpr
        /\ result = "ok" => \A s \in Saved : cache.brk[s] = kernel.brk[s]

\* A slot enable_hw_breakpoint has returned stays armed at its address until
\* it is disabled, whatever is written, enabled, disabled or refused meanwhile.
HwArmed ==
    life = "stopped" =>
        \A s \in Slot : given[s] # 0 =>
            kernel.brk[s] = [addr |-> given[s], enabled |-> TRUE]

\* No slot stays armed that nobody was given or that was given back: one such
\* would stop the process at a breakpoint that can no longer be removed.
NoOrphanSlot ==
    life = "stopped" /\ phase = "idle" =>
        \A s \in Slot : kernel.brk[s].enabled => given[s] # 0

\* A register write that returns has reached a process that is still there,
\* even one that reports an error: save transfers the debug slots last.
NoWriteLost ==
    [][op = "write" /\ op' = "none" /\ life = "stopped" =>
          read(kernel', handle) = Truncate(value, get_bit_size(handle))]_vars

Carried == bank > (IF General(handle) THEN 1 ELSE 2)

Words(register, n) == [w \in 0 .. n - 1 |-> [b \in 0 .. W - 1 |-> register[W * w + b]]]

File == INSTANCE RegisterFile WITH
    Half    <- Bits(W),
    Zero    <- [b \in 0 .. W - 1 |-> 0],
    x       <- Words(kernel.gpr, 2),
    v       <- Words(kernel.fpr, 4),
    request <- IF op = "write" /\ ~Carried
               THEN {[name |-> handle, value |-> Words(value, 4)]} ELSE {}

\* Seen from the process, four requests per save and all, its registers change
\* once per write and exactly as the architecture has it (make_wn ... write_u64,
\* write, save); enabling and disabling breakpoints leaves them alone.
WritesAreArchitectural == File!Spec
=============================================================================
