----------------------------- MODULE StackInfo -----------------------------
(***************************************************************************)
(* Which memory of the target is a thread's stack: find_mapping and        *)
(* get_stack_info. Addresses are machine words of a size AddrMod.          *)
(***************************************************************************)
EXTENDS Options

CONSTANTS
    PageSize,   \* MinidumpWriter::page_size
    GuardSize,  \* 1 MiB: how far past the stack pointer the stack is sought
    AddrMod     \* 2^32 or 2^64

ASSUME PageAssumption ==
    /\ PageSize \in Nat \ {0} /\ GuardSize \in Nat
    /\ AddrMod \in Nat \ {0} /\ AddrMod % PageSize = 0

Address == 0..(AddrMod - 1)

\* start_address and size may be larger than the range the kernel reported
\* (sys_start, sys_end): aggregate adds unused ranges that follow a library and
\* Android's load bias moves the start down.
MappingInfo ==
    [start : Address, size : Nat, sys_start : Address, sys_end : Nat, perms : SUBSET {"r", "w", "x", "p", "s"}]

Accessible(m) == m.perms \cap {"r", "w"} # {}

InMapping(m, address) == m.start <= address /\ address - m.start < m.size
find_mapping(mappings, address) ==
    First({i \in 1..Len(mappings) : InMapping(mappings[i], address)}, mappings)
contains_address(m, address) == m.sys_start <= address /\ address < m.sys_end
may_be_stack(mapping) == \E m \in mapping : Accessible(m)

\* The loop of get_stack_info: the page of the stack pointer, then page after
\* page up to the guard size. The addition saturates for the bound and wraps for
\* the loop variable (a build with overflow checks panics there instead).
Base(sp) == sp - (sp % PageSize)
GuardMax(sp) == IF Base(sp) + GuardSize < AddrMod THEN Base(sp) + GuardSize ELSE AddrMod - 1
Probe(sp, k) == (Base(sp) + k * PageSize) % AddrMod
Exits(mappings, sp) ==
    {k \in 0..(AddrMod \div PageSize) :
        may_be_stack(find_mapping(mappings, Probe(sp, k))) \/ Probe(sp, k) > GuardMax(sp)}

\* After AddrMod \div PageSize turns the loop only repeats itself.
LoopEnds(mappings, sp) == Exits(mappings, sp) # {}
LastProbe(mappings, sp) ==
    LET ks == Exits(mappings, sp) IN Probe(sp, CHOOSE k \in ks : \A j \in ks : k <= j)

\* Mutant of get_stack_info: the mapping's start is returned for the pointer.
get_stack_info_start(mappings, sp) ==
    {[ptr |-> m.start, len |-> m.size - (LastProbe(mappings, sp) - m.start)] :
        m \in find_mapping(mappings, LastProbe(mappings, sp))}

\* (valid_stack_pointer, stack_len), or nothing: NoStackPointerMapping
get_stack_info(mappings, sp) ==
    {LET ptr == IF contains_address(m, LastProbe(mappings, sp))
                THEN LastProbe(mappings, sp) ELSE m.start
     IN  [ptr |-> ptr, len |-> m.size - (ptr - m.start)] :
        m \in find_mapping(mappings, LastProbe(mappings, sp))}
=============================================================================
