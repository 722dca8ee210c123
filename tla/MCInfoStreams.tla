--------------------------- MODULE MCInfoStreams ----------------------------
(* Instances of InfoStreams for TLC. *)
EXTENDS InfoStreams

\* phdr at 18, its page at 16; dynamic section at 32..34; r_debug at 40; link maps
\* at 41..44; names at 51..54
Pair(key, value) == [key |-> key, value |-> value]
FullAuxv == <<Pair("AT_ENTRY", 20), Pair("AT_PHDR", 18), Pair("other", 1), Pair("AT_PHNUM", 3),
              Pair("AT_PHDR", 99), Pair("AT_NULL", 0), Pair("AT_SYSINFO_EHDR", 9)>>
CutAuxv == <<Pair("AT_PHNUM", 3), Pair("AT_PHDR", 18), Pair("error", 0)>>
NoAuxv == << >>
Unset == [key \in Keys |-> 0]
Known == [Unset EXCEPT !["AT_PHDR"] = 18, !["AT_PHNUM"] = 2]
All == [key \in Keys |-> IF key = "AT_PHNUM" THEN 3 ELSE 18]

Header(type, p_offset, p_vaddr) == [type |-> type, p_offset |-> p_offset, p_vaddr |-> p_vaddr]
HeaderSets == {<<Header("PT_LOAD", 0, 0), Header("PT_DYNAMIC", 4, 16), Header("PT_LOAD", 4, 8)>>,
               <<Header("PT_LOAD", 0, 8), Header("PT_LOAD", 4, 9), Header("PT_DYNAMIC", 4, 24)>>}
Entry(tag, val) == [tag |-> tag, val |-> val]
Section == [a \in 32..34 |-> <<Entry("other", 1), Entry("DT_DEBUG", 40), Entry("DT_NULL", 0)>>[a - 31]]
NoDebug == [Section EXCEPT ![33] = Entry("other", 2)]

Chain(n) == [m \in 41..44 |-> IF m < 40 + n THEN m + 1 ELSE 0]
Cycle == [Chain(3) EXCEPT ![43] = 42]
Readable == {18} \cup (32..34) \cup (40..44) \cup (51..54)
Good == [a \in Readable |-> "ok"]
Reads == {Good} \cup {[Good EXCEPT ![a] = how] : a \in Readable, how \in {"short", "fails"}}

\* /proc/cpuinfo: "model\t\t: 7"; `n` processors, some of them without an entry
Line(field, number) == [field |-> field, padded |-> TRUE, value |-> {[space |-> TRUE, number |-> {number}, text |-> "n"]}]
Cpu(i, missing) ==
    SelectSeq(<<Line("processor", i), [Line("vendor_id", 0) EXCEPT !.value = {[space |-> TRUE, number |-> {}, text |-> "v"]}],
                Line("cpu family", 6), Line("model", 7 + i), Line("other", 1), Line("stepping", 2),
                [field |-> "", padded |-> FALSE, value |-> {}]>>,
              LAMBDA l : l.field # missing)
X86(n, missing) == [arch |-> "x86_64", lines |-> {FlattenSeq([i \in 1..n |-> Cpu(i - 1, IF i = 1 THEN missing ELSE "")])}]
Sys(a, b) == <<<<{a}, {b}>>, << >>, <<{9}>>>>
Arm(arch, present, possible) ==
    [arch |-> arch, present |-> present, possible |-> possible,
     lines |-> {<<Line("Processor", 7), Line("CPU implementer", 65), [Line("CPU architecture", 8) EXCEPT !.padded = FALSE],
                  Line("CPU variant", 0), Line("CPU part", 3), Line("CPU revision", 1), Line("Features", 0)>>}]
Cpus == {X86(n, missing) : n \in 1..5, missing \in {"", "processor", "model", "stepping"}}
        \cup {X86(0, ""), [X86(1, "") EXCEPT !.lines = {}]}
        \cup {Arm(arch, p, q) : arch \in {"arm", "aarch64"}, p \in {{}, {Sys(0, 2)}, {<<<<{1}, {2}, {3}>>>>}}, q \in {{}, {Sys(1, 8)}}}

Base0 ==
    [cpu |-> X86(2, ""), stopped |-> TRUE, direct |-> Unset, auxv |-> FullAuxv, headers |-> <<Header("PT_LOAD", 0, 0), Header("PT_DYNAMIC", 4, 16), Header("PT_LOAD", 4, 8)>>, dynamic |-> Section,
     r_map |-> 41, links |-> Chain(3), l_name |-> [m \in 41..44 |-> IF m = 41 THEN 0 ELSE m + 10],
     utf8 |-> [a \in 51..54 |-> IF a = 54 THEN {} ELSE {ToString(a)}], read |-> Good, whole |-> 9,
     fds |-> [f \in 0..1 |-> [path |-> ToString(f), mode |-> f]]]
MCOpenFiles == {[path |-> "new", mode |-> 7]}
MCTargets ==
    {[Base0 EXCEPT !.direct = d, !.auxv = a, !.headers = h, !.dynamic = s] :
        d \in {Unset, Known, All}, a \in {FullAuxv, CutAuxv, NoAuxv}, h \in HeaderSets, s \in {Section, NoDebug}}
    \cup {[Base0 EXCEPT !.read = r, !.links = l, !.whole = w] :
        r \in Reads, l \in {Chain(1), Chain(3), Chain(4), Cycle}, w \in {0, 1, 3}}
    \cup {[Base0 EXCEPT !.links = l, !.stopped = FALSE, !.read = r] :
        l \in {Chain(3), Chain(4), Cycle}, r \in {Good, [Good EXCEPT ![43] = "fails"]}}
    \cup {[Base0 EXCEPT !.r_map = 0]}
    \cup {[Base0 EXCEPT !.cpu = c] : c \in Cpus}
=============================================================================
