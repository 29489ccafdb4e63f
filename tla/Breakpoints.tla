---------------------------- MODULE Breakpoints ----------------------------
(***************************************************************************)
(* The software-breakpoint manager (breakpoints.cpp, Breakpoints::Impl):   *)
(* the table of patched sites with the words they hide, the identifiers    *)
(* handed to the client, and the operations Process delegates to it.  An   *)
(* operation that would throw cbg::Error sets result to "error".           *)
(***************************************************************************)
EXTENDS Tracee

CONSTANT MaxId      \* bound on the identifiers a run hands out

ASSUME MaxIdAssumption == MaxId \in Nat \ {0}

Id     == 1 .. MaxId
NoAddr == -1
Addr   == Code \cup {NoAddr}

\* AARCH64_BRK_INSN is 32 bits wide, write_memory pokes 64: the word after
\* the breakpoint becomes zero.
Armed == [lo |-> "brk", hi |-> "udf"]
Blank == [lo |-> "insn", hi |-> "insn"]

VARIABLES
    sites,      \* the addresses that are keys of sw_breakpoints_
    orig,       \* sw_breakpoints_[a] for a in sites, Blank elsewhere
    ids,        \* bp_id_to_addr_, NoAddr for an identifier not in it
    nextId,     \* next_bp_id_
    pid,        \* the owner's pid_: 1 for the process, 0 once cleared
    result      \* how the last client call ended

table == <<sites, orig, ids, nextId>>

BreakpointsTypeOK ==
    /\ sites \subseteq Code
    /\ orig \in [Code -> Pair]
    /\ ids \in [Id -> Addr]
    /\ nextId \in 1 .. MaxId + 1
    /\ pid \in {0, 1}
    /\ result \in {"ok", "error", "exited"}

BreakpointsInit ==
    /\ sites = {}
    /\ orig = [a \in Code |-> Blank]
    /\ ids = [i \in Id |-> NoAddr]
    /\ nextId = 1
    /\ pid = 1
    /\ result = "ok"

-----------------------------------------------------------------------------
(* The client's operations.  Each is one ptrace request or two in a row on *)
(* a process that cannot move between them, so each is one step.           *)

\* Seeded fault: the search of the table for the address is forgotten.
Known_NeverFound(addr) == FALSE

Known(addr) == \E i \in Id : ids[i] = addr

add_breakpoint(addr) ==
    \/ /\ pid = 0 \/ (~Known(addr) /\ ~Traced)
       /\ result' = "error"
       /\ UNCHANGED <<table, mem>>
    \/ /\ pid # 0 /\ Known(addr)
       /\ result' = "ok"
       /\ UNCHANGED <<table, mem>>
    \/ /\ pid # 0 /\ ~Known(addr) /\ Traced /\ nextId <= MaxId
       /\ orig' = [orig EXCEPT ![addr] = Peek(addr)]
       /\ Poke(addr, Armed)
       /\ sites' = sites \cup {addr}
       /\ ids' = [ids EXCEPT ![nextId] = addr]
       /\ nextId' = nextId + 1
       /\ result' = "ok"

\* Seeded fault: the entry goes even if its poke fails.
remove_breakpoint_EraseFirst(addr) ==
    /\ IF addr \in sites /\ pid # 0 /\ Traced THEN Poke(addr, orig[addr])
                                              ELSE mem' = mem
    /\ sites' = sites \ {addr}
    /\ orig' = [orig EXCEPT ![addr] = Blank]
    /\ ids' = [i \in Id |-> IF ids[i] = addr THEN NoAddr ELSE ids[i]]
    /\ nextId' = nextId
    /\ result' = "ok"

\* The order of remove_breakpoint: a poke that fails leaves the entry.
remove_breakpoint(addr) ==
    \/ /\ addr \in sites /\ pid # 0 /\ ~Traced
       /\ result' = "error"
       /\ UNCHANGED <<table, mem>>
    \/ /\ addr \in sites /\ pid # 0 => Traced
       /\ IF addr \in sites /\ pid # 0 THEN Poke(addr, orig[addr])
                                       ELSE mem' = mem
       /\ sites' = sites \ {addr}
       /\ orig' = [orig EXCEPT ![addr] = Blank]
       /\ ids' = [i \in Id |-> IF ids[i] = addr THEN NoAddr ELSE ids[i]]
       /\ nextId' = nextId
       /\ result' = "ok"

\* An identifier that is not in the table returns false and changes nothing.
remove_breakpoint_id(id) ==
    \/ /\ ids[id] = NoAddr
       /\ result' = "ok"
       /\ UNCHANGED <<table, mem>>
    \/ /\ ids[id] # NoAddr
       /\ remove_breakpoint(ids[id])

-----------------------------------------------------------------------------
(* The hooks of the step-over protocol and of the destructor.              *)

\* prepare_for_transparent_step_over, once a is known to be a site.
Lift(a) == Poke(a, orig[a])

\* The memory half of rearm_and_rewind.
Rearm(a) == Poke(a, Armed)

\* restore_all_sw_sites, one entry: a poke that fails goes unnoticed.
restore_sw_site(a) ==
    /\ a \in sites
    /\ IF pid # 0 /\ Traced THEN Poke(a, orig[a]) ELSE mem' = mem
    /\ sites' = sites \ {a}
    /\ orig' = [orig EXCEPT ![a] = Blank]
    /\ UNCHANGED nextId
=============================================================================
