----------------------------- MODULE StackScan -----------------------------
(***************************************************************************)
(* What the writer does with the words of a copied stack:                  *)
(* sanitize_stack_copy and stack_has_pointer_to_mapping. A copy is the     *)
(* sequence of its complete words; the bytes of an incomplete word at its  *)
(* top are zeroed and are left out.                                        *)
(***************************************************************************)
EXTENDS Maps

CONSTANTS
    WordSize,   \* size_of::<usize>()
    SmallInt,   \* small_int_magnitude
    Span,       \* 2^shift: how many addresses share a bit of the bitfield
    Bits,       \* 2^test_bits: the length of the bitfield
    Defaced     \* 0x0defaced

ASSUME ScanAssumption ==
    /\ WordSize \in Nat \ {0} /\ SmallInt \in Nat
    /\ Span \in Nat \ {0} /\ Bits \in Nat \ {0}
    /\ Defaced \notin Address

\* The words below the stack pointer: its offset rounded up to a word.
Below(sp_offset) == (sp_offset + WordSize - 1) \div WordSize


\* The bits that are set: those of the adjusted ranges of executable mappings.
could_hit_mapping(mappings) ==
    UNION {{bit % Bits : bit \in (m.start \div Span)..(end_address(m) \div Span)} :
              m \in {x \in Range(mappings) : is_executable(x)}}

\* One word: `acc` is what has been written and the last mapping that was hit.
\* A negative number is above SmallInt as an unsigned one and is not small.
SanitizeWord(mappings, stack_mapping, field, acc, addr) ==
    LET known == \E m \in stack_mapping \cup acc.last_hit : contains_address(m, addr)
        hit   == IF (addr \div Span) % Bits \in field
                 THEN {m \in find_mapping_no_bias(mappings, addr) : is_executable(m)} ELSE {}
    IN  IF addr <= SmallInt \/ known THEN [acc EXCEPT !.out = Append(@, addr)]
        ELSE IF hit # {} THEN [last_hit |-> hit, out |-> Append(acc.out, addr)]
        ELSE [acc EXCEPT !.out = Append(@, Defaced)]

\* Indexing panics when the copy ends below the stack pointer.
sanitize_stack_copy(mappings, words, stack_pointer, sp_offset) ==
    LET n     == Below(sp_offset)
        field == could_hit_mapping(mappings)
        stack == find_mapping_no_bias(mappings, stack_pointer)
    IN  FoldLeft(LAMBDA acc, addr : SanitizeWord(mappings, stack, field, acc, addr),
                 [last_hit |-> {}, out |-> [i \in 1..n |-> 0]],
                 SubSeq(words, n + 1, Len(words))).out

\* The end of the mapping counts as a part of it.
stack_has_pointer_to_mapping(m, words, sp_offset) ==
    \E i \in (Below(sp_offset) + 1)..Len(words) : m.sys_start <= words[i] /\ words[i] <= m.sys_end
=============================================================================
