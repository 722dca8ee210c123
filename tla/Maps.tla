------------------------------- MODULE Maps -------------------------------
(***************************************************************************)
(* From the lines of /proc/<pid>/maps to the writer's mappings:            *)
(* MappingInfo::aggregate, enumerate_mappings, and on Android              *)
(* late_process_mappings.                                                  *)
(***************************************************************************)
EXTENDS StackInfo, ModuleReader, SequencesExt

CONSTANTS
    Paths,      \* names of mappings that contain a '/'
    LinuxGate   \* linux-gate.so, the name given to the vdso

ASSUME GateIsNoPath == LinuxGate \notin Paths

PRIVATE == {"p"}

\* A line of the file: MMapPath::Path may carry the suffix " (deleted)".
sanitize_path(path) == {p.name : p \in path}
is_mapping_a_path(name) == name # {} /\ name \subseteq Paths

name_is_path(m) == is_mapping_a_path(m.name)
is_empty_page(m) == m.off = 0 /\ m.perms = PRIVATE /\ m.name = {}
is_executable(m) == "x" \in m.perms
end_address(m) == m.start + m.size

\* A mapping that a line starts, and the mapping m grown up to the line's end.
\* Only a line of the same library extends the range known to the system.
NewMapping(mm, off, name) ==
    [start |-> mm.lo, size |-> mm.hi - mm.lo, sys_start |-> mm.lo, sys_end |-> mm.hi,
     off |-> off, perms |-> mm.perms, name |-> name]
\* Mutants of Extended: the size is measured the wrong way round; the line's
\* permissions are not added.
ExtendedBackwards(m, mm) ==
    [m EXCEPT !.size = m.start - mm.hi, !.sys_end = mm.hi, !.perms = @ \cup mm.perms]
ExtendedPerms(m, mm) == [m EXCEPT !.size = mm.hi - m.start, !.sys_end = mm.hi]

Extended(m, mm) ==
    [m EXCEPT !.size = mm.hi - m.start, !.sys_end = mm.hi, !.perms = @ \cup mm.perms]
Reserved(m, mm) == [m EXCEPT !.size = mm.hi - m.start]


SameLibrary(m, mm, name) == mm.lo = end_address(m) /\ name # {} /\ name = m.name
ReservedByLinker(m, mm, off) ==
    /\ mm.lo = end_address(m)
    /\ is_executable(m) /\ name_is_path(m)
    /\ off \in {0, end_address(m)}
    /\ mm.perms = PRIVATE
\* Mutant of HoleInLibrary: the range need not follow the library.
HoleAnywhere(m, hole, mm, name) ==
    name_is_path(m) /\ is_empty_page(hole) /\ end_address(hole) = mm.lo /\ name = m.name

HoleInLibrary(m, hole, mm, name) ==
    /\ name_is_path(m)
    /\ end_address(m) = hole.start
    /\ is_empty_page(hole)
    /\ end_address(hole) = mm.lo
    /\ name = m.name

AddLine(infos, mm, gate) ==
    LET raw    == sanitize_path(mm.path)
        isGate == gate = {mm.lo} /\ ~is_mapping_a_path(raw)
        name   == IF isGate THEN {LinuxGate} ELSE raw
        off    == IF isGate THEN 0 ELSE mm.off
        n      == Len(infos)
    IN  IF n >= 1 /\ SameLibrary(infos[n], mm, name)
        THEN [infos EXCEPT ![n] = Extended(@, mm)]
        ELSE IF n >= 1 /\ ReservedByLinker(infos[n], mm, off)
        THEN [infos EXCEPT ![n] = Reserved(@, mm)]
        ELSE IF n >= 2 /\ HoleInLibrary(infos[n - 1], infos[n], mm, name)
        THEN Append(SubSeq(infos, 1, n - 2), Extended(infos[n - 1], mm))
        ELSE Append(infos, NewMapping(mm, off, name))

\* The file offset is 64 bits wide and must fit the writer's words.
Convertible(lines) == \A i \in DOMAIN lines : lines[i].off < AddrMod
aggregate(lines, gate) == FoldLeft(LAMBDA infos, mm : AddLine(infos, mm, gate), <<>>, lines)

\* The mapping of the entry point is moved to the front.
Swap(s, i, j) == [s EXCEPT ![i] = s[j], ![j] = s[i]]
EntryFirst(mappings, entry) ==
    LET hits == {i \in DOMAIN mappings : \E a \in entry : InMapping(mappings[i], a)}
    IN  IF hits = {} THEN mappings
        ELSE Swap(mappings, 1, CHOOSE i \in hits : \A j \in hits : i <= j)

enumerate_mappings(lines, gate, entry) == EntryFirst(aggregate(lines, gate), entry)

find_mapping_no_bias(mappings, address) ==
    First({i \in DOMAIN mappings : contains_address(mappings[i], address)}, mappings)

\* Android: the start of a shared library with packed relocations is moved to its
\* load bias. Without readable program headers min_vaddr is usize::MAX and the
\* dynamic section is empty. Words wrap around (with overflow checks they panic).
min_vaddr(im) == Min(({AddrMod - 1} \cup IF "phdrs" \in im.loaded THEN im.loads ELSE {}))
has_android_packed_relocations(im) ==
    /\ {"phdrs", "dynamic"} \subseteq im.loaded
    /\ Indices(im.segments, LAMBDA s : s.type = "PT_DYNAMIC") # {}
    /\ Indices(im.dynamic, LAMBDA d : d.tag = "ANDROID_REL") # {}
get_effective_load_bias(im, address) ==
    IF min_vaddr(im) # 0 /\ has_android_packed_relocations(im)
    THEN (address + AddrMod - min_vaddr(im)) % AddrMod
    ELSE address

\* `header`: the image whose ELF header the target's memory holds at an address
LateProcess(m, header) ==
    LET images == IF is_executable(m) /\ name_is_path(m) THEN header[m.start] ELSE {}
    IN  IF \E im \in images : im.e_type = "ET_DYN"
        THEN LET bias == get_effective_load_bias(The(images), m.start)
             IN  [m EXCEPT !.size = (@ + m.start + AddrMod - bias) % AddrMod, !.start = bias]
        ELSE m
late_process_mappings(mappings, header) ==
    [i \in DOMAIN mappings |-> LateProcess(mappings[i], header)]
=============================================================================
