-------------------------- MODULE MCThreadStreams --------------------------
(* Instances of ThreadStreams for TLC: memory of 16 pages of 4 words. *)
EXTENDS ThreadStreams

Mapping(start, end, sys_start, sys_end, perms) ==
    [start |-> start, size |-> end - start, sys_start |-> sys_start, sys_end |-> sys_end,
     perms |-> perms]

\* A library with an unused range behind it, a guard page and a stack, another
\* stack
Memory ==
    << Mapping(8, 16, 8, 12, {"r", "x", "p"}), Mapping(16, 20, 16, 20, {"p"}),
       Mapping(20, 28, 20, 28, {"r", "w", "p"}), Mapping(36, 44, 36, 44, {"w", "p"}) >>

ThreadSeq(n, names, sps) ==
    [i \in 1..n |-> [tid |-> i, named |-> names[i], ip |-> 9, sp |-> sps[i]]]
AllThreads(names, sps) == {ThreadSeq(n, ns, ss) : n \in 0..3, ns \in names, ss \in sps}

\* process_vm_readv can be used, but where a run is about doing without it
MCTarget(threads, blamed, crash, limit, app, sanitize, skip, principal, refs) ==
    [threads |-> threads, blamed |-> blamed, crash |-> crash, mappings |-> Memory, limit |-> limit,
     app |-> app, sanitize |-> sanitize, skip |-> skip, principal |-> principal, refs |-> refs, vmem |-> TRUE]

AllNames == [1..3 -> BOOLEAN]
Crashes == {{}, {[ip |-> 9, sp |-> 23]}, {[ip |-> 60, sp |-> 38]}, {[ip |-> 11, sp |-> 13]}}

\* Five threads of which only the last has a name
LastNamed ==
    MCTarget([i \in 1..5 |-> [tid |-> i, named |-> i = 5, ip |-> 9, sp |-> 21]],
             1, {}, {}, << >>, FALSE, FALSE, {}, {})

\* Stack pointers inside a stack (first and last word of a page), in the guard
\* page, between mappings, with no stack in reach, and in the range behind the
\* library that cannot be read
StackPointers == {<<25, 17, 39>>, <<20, 33, 22>>, <<50, 23, 42>>, <<22, 13, 38>>}
MCTargets ==
    {[MCTarget(t, b, c, l, a, s, FALSE, {}, {}) EXCEPT !.vmem = v] :
        t \in AllThreads({<<TRUE, TRUE, TRUE>>, <<TRUE, FALSE, FALSE>>}, StackPointers),
        b \in {1, 3, 9}, c \in Crashes, l \in {{}, {10}, {99}},
        a \in {<< >>, <<[ptr |-> 9, len |-> 2], [ptr |-> 10, len |-> 4], [ptr |-> 17, len |-> 2]>>},
        s \in BOOLEAN, v \in BOOLEAN}
    \cup
    {MCTarget(t, 3, c, l, << >>, s, TRUE, p, r) :
        t \in AllThreads({<<TRUE, TRUE, TRUE>>}, StackPointers), c \in Crashes,
        l \in {{}, {10}}, s \in BOOLEAN,
        p \in {{}, {[low |-> 40, high |-> 44]}}, r \in {{}, {22}, {38}}}
    \cup {LastNamed}

\* For the single questions: one stream's inputs vary
NameTargets ==
    {MCTarget(t, 1, {}, {}, << >>, FALSE, FALSE, {}, {}) : t \in AllThreads(AllNames, StackPointers)}
SanitizeTargets ==
    {MCTarget(t, 1, {}, {10}, << >>, TRUE, FALSE, {}, {}) :
        t \in AllThreads({<<TRUE, TRUE, TRUE>>}, StackPointers)}
=============================================================================
