----------------------------- MODULE ModuleList -----------------------------
(***************************************************************************)
(* What the writer makes of the target's memory map: the list of mappings  *)
(* of init, the principal mapping, the stacks it sanitizes with it, the    *)
(* module list stream and the memory info list stream.                     *)
(*                                                                         *)
(* The target maps files, one line of /proc/<pid>/maps after the other,    *)
(* and goes on doing so if it could not be stopped.                        *)
(***************************************************************************)
EXTENDS StackScan

CONSTANTS
    Kinds,      \* what the target may map: lines without addresses, and the gap before
    Files,      \* the images of files, by path
    Devices,    \* the paths under /dev/
    Versions,   \* the components after ".so." of the names that have any
    Configs,    \* the writer's configurations, what a crash context says, and a bound on the
                \* lines of the file
    MinSize,    \* 4096, the least size of a module
    U32,        \* 2^32
    ZeroId      \* a build id of zeros

ASSUME ListAssumption == Devices \subseteq Paths /\ U32 \in Nat \ {0}

VARIABLES
    maps,       \* /proc/<pid>/maps
    config,
    phase,
    auxv,       \* the vdso's address and the entry point, where known
    mappings,   \* MinidumpWriter::mappings
    principal,  \* MinidumpWriter::principal_mapping
    stack,      \* a sanitized copy of a stack
    modules,    \* the module list stream
    info        \* the memory info list stream

vars == <<maps, config, phase, auxv, mappings, principal, stack, modules, info>>

Init ==
    /\ config \in Configs
    /\ maps = << >> /\ mappings = << >> /\ modules = << >> /\ info = << >>
    /\ auxv = [gate |-> {}, entry |-> {}]
    /\ principal = [mapping |-> {}, referenced |-> FALSE]
    /\ stack = << >>
    /\ phase = "init"

-----------------------------------------------------------------------------
(***************************************************************************)
(* The target                                                              *)
(***************************************************************************)
Top == IF maps = << >> THEN 0 ELSE maps[Len(maps)].hi

Map(kind) ==
    /\ Len(maps) < config.lines
    /\ phase = "init" \/ ~config.stopped
    /\ phase \notin {"done", "panic"}
    /\ LET lo == Top + kind.gap
       IN  maps' = Append(maps, [lo |-> lo, hi |-> lo + kind.len, off |-> kind.off,
                                 perms |-> kind.perms, path |-> kind.path])
    /\ UNCHANGED <<config, phase, auxv, mappings, principal, stack, modules, info>>

\* The image in a file, the one that can be opened by its name, and the one
\* whose ELF header the memory holds at an address.
ImageOf(path) == {f.image : f \in {g \in Files : path = {g.path}}}
OnDisk(name) ==
    UNION {ImageOf({[name |-> n, deleted |-> FALSE]}) : n \in name \cap Paths}
LineAt(lines, a) == {l \in Range(lines) : l.lo <= a /\ a < l.hi}
HeaderAt(a) ==
    UNION {{im \in ImageOf(l.path) : l.off + (a - l.lo) = im.at} : l \in LineAt(maps, a)}

-----------------------------------------------------------------------------
(***************************************************************************)
(* init                                                                    *)
(***************************************************************************)

\* What the auxiliary vector may say: the address of the vdso and an address of
\* the executable, or nothing.
EnumerateMappings(gate, entry) ==
    /\ phase = "init"
    /\ auxv' = [gate |-> gate, entry |-> entry]
    /\ mappings' = IF Convertible(maps) THEN enumerate_mappings(maps, gate, entry) ELSE << >>
    /\ phase' = "late"
    /\ UNCHANGED <<maps, config, principal, stack, modules, info>>

\* The file cannot be opened or parsed: a soft error.
EnumerateFails ==
    /\ phase = "init"
    /\ phase' = "late"
    /\ UNCHANGED <<maps, config, auxv, mappings, principal, stack, modules, info>>

LateProcessMappings ==
    /\ phase = "late"
    /\ mappings' = IF config.android
                   THEN late_process_mappings(mappings, [a \in Address |-> HeaderAt(a)])
                   ELSE mappings
    /\ phase' = "principal"
    /\ UNCHANGED <<maps, config, auxv, principal, stack, modules, info>>

\* copy_from_process fails outside mapped memory. The words of the stack are
\* those of the configuration, as many as the stack has.
StackCopy(s) ==
    IF LineAt(maps, s.ptr) = {} \/ s.len = 0 THEN {}
    ELSE {SubSeq(config.words, 1, s.len \div WordSize)}
crash_thread_references_principal_mapping(mapping) ==
    \E c \in config.crash, m \in mapping :
        \/ contains_address(m, c.ip)
        \/ \E s \in get_stack_info(mappings, c.sp) : \E copy \in StackCopy(s) :
              stack_has_pointer_to_mapping(m, copy, IF c.sp > s.ptr THEN c.sp - s.ptr ELSE 0)

PrincipalMapping ==
    /\ phase = "principal"
    /\ principal' =
          IF config.skip
          THEN LET m == UNION {find_mapping_no_bias(mappings, a) : a \in config.principal}
               IN  [mapping |-> m, referenced |-> crash_thread_references_principal_mapping(m)]
          ELSE principal
    /\ phase' = "stack"
    /\ UNCHANGED <<maps, config, auxv, mappings, stack, modules, info>>

SanitizeStack ==
    /\ phase = "stack"
    /\ stack' = sanitize_stack_copy(mappings, config.words, config.sp, config.sp_offset)
    /\ phase' = "modules"
    /\ UNCHANGED <<maps, config, auxv, mappings, principal, modules, info>>

-----------------------------------------------------------------------------
(***************************************************************************)
(* The module list stream                                                  *)
(***************************************************************************)
is_interesting(m) == m.name # {} /\ (m.off = 0 \/ is_executable(m)) /\ m.size >= MinSize

\* Mutant of is_contained_in: a mapping of the caller's must have the same start.
is_contained_in_start(m, user_mapping_list) ==
    \E u \in Range(user_mapping_list) : m.start = u.mapping.start /\ end_address(m) <= end_address(u.mapping)

is_contained_in(m, user_mapping_list) ==
    \E u \in Range(user_mapping_list) :
        m.start >= u.mapping.start /\ end_address(m) <= end_address(u.mapping)

\* The build id in memory, or the one in the file of that name; an image inside
\* an archive is not at the file's beginning.
ReadId(m) ==
    OrElse(UNION {BuildId(im, im.loaded) : im \in HeaderAt(m.start)},
           UNION {BuildId(im, Parts) : im \in {x \in OnDisk(m.name) : x.at = 0}})

so_name(m) ==
    UNION {SoName(im, Parts) : im \in {x \in OnDisk(m.name \ Devices) : x.at = m.off}}

\* SoVersion::parse. A component of digits only is a number (0 if too large:
\* `lead` is missing), another one may begin and end with numbers. `wide`: its
\* last character that is no digit takes several bytes.
Number(c) == IF c.mixed THEN 0 ELSE The(OrElse(c.lead, {0}))
Leading(c) == The(OrElse(c.lead, {0}))
so_version(comps) ==
    LET n == Len(comps)
    IN  [major |-> IF n >= 1 THEN Number(comps[1]) ELSE 0,
         minor |-> IF n >= 2 THEN Number(comps[2]) ELSE 0,
         patch |-> IF n >= 3 THEN Leading(comps[3]) ELSE 0,
         prerelease |-> IF n >= 3 /\ comps[3].mixed /\ comps[3].trail # {} THEN The(comps[3].trail)
                        ELSE IF n >= 4 THEN Leading(comps[4]) ELSE 0]
VersionOf(name) == {so_version(v.comps) : v \in {w \in Versions : name = {w.name}}}
VersionPanics(name) ==
    \E v \in Versions : name = {v.name} /\ Len(v.comps) >= 3 /\ v.comps[3].mixed /\ v.comps[3].wide

\* The path, and where the SONAME goes: inside it, or in place of its last part.
get_mapping_effective_path_name_and_version(m, soname) ==
    LET file_name == OrElse(soname, so_name(m))
    IN  [name |-> m.name,
         soname |-> file_name,
         how |-> IF file_name = {} THEN "plain"
                 ELSE IF is_executable(m) /\ m.off # 0 THEN "inside" ELSE "beside",
         version |-> VersionOf(m.name)]

fill_raw_module(m, id, soname, user) ==
    [base_of_image |-> m.start, size_of_image |-> m.size % U32, cv_record |-> id,
     path |-> get_mapping_effective_path_name_and_version(m, soname), user |-> user]

ModuleMappings ==
    SelectSeq(mappings, LAMBDA m : /\ is_interesting(m)
                                   /\ ~is_contained_in(m, config.user)
                                   /\ ReadId(m) \notin {{}, {ZeroId}})
ModuleOf(m) ==
    fill_raw_module(m, ReadId(m), UNION {SoName(im, im.loaded) : im \in HeaderAt(m.start)}, FALSE)
UserModule(u) == fill_raw_module(u.mapping, u.identifier, {}, TRUE)

NamePanics ==
    \E m \in Range(ModuleMappings) \cup {u.mapping : u \in Range(config.user)} : VersionPanics(m.name)


WriteMappings ==
    /\ phase = "modules"
    /\ ~NamePanics
    /\ modules' = [i \in DOMAIN ModuleMappings |-> ModuleOf(ModuleMappings[i])] \o
                  [i \in DOMAIN config.user |-> UserModule(config.user[i])]
    /\ phase' = "info"
    /\ UNCHANGED <<maps, config, auxv, mappings, principal, stack, info>>

\* The version is cut in the middle of a character.
VersionPanic ==
    /\ phase = "modules"
    /\ NamePanics
    /\ phase' = "panic"
    /\ UNCHANGED <<maps, config, auxv, mappings, principal, stack, modules, info>>

-----------------------------------------------------------------------------
(***************************************************************************)
(* The memory info list stream reads the file again.                       *)
(***************************************************************************)
get_memory_protection(perms) ==
    (perms \cap {"w", "x"}) \cup IF "w" \in perms \/ "r" \in perms THEN {"r"} ELSE {}

WriteMemoryInfoList ==
    /\ phase = "info"
    /\ info' = [i \in DOMAIN maps |->
                   [base_address |-> maps[i].lo, region_size |-> maps[i].hi - maps[i].lo,
                    protection |-> get_memory_protection(maps[i].perms),
                    private |-> "p" \in maps[i].perms]]
    /\ phase' = "done"
    /\ UNCHANGED <<maps, config, auxv, mappings, principal, stack, modules>>

\* A soft error: the stream's entry stays unused.
MemoryInfoListFails ==
    /\ phase = "info"
    /\ phase' = "done"
    /\ UNCHANGED <<maps, config, auxv, mappings, principal, stack, modules, info>>

Gates == {{}} \cup {{l.lo} : l \in {x \in Range(maps) : ~is_mapping_a_path(sanitize_path(x.path))
                                                        /\ "x" \in x.perms}}
Entries == {{}} \cup {{l.lo + 1} : l \in {x \in Range(maps) : "x" \in x.perms
                                                        /\ is_mapping_a_path(sanitize_path(x.path))}}

Next ==
    \/ \E kind \in Kinds : Map(kind)
    \/ \E gate \in Gates, entry \in Entries : EnumerateMappings(gate, entry)
    \/ EnumerateFails \/ LateProcessMappings \/ PrincipalMapping \/ SanitizeStack
    \/ WriteMappings \/ VersionPanic \/ WriteMemoryInfoList \/ MemoryInfoListFails

Spec == Init /\ [][Next]_vars

-----------------------------------------------------------------------------
(***************************************************************************)
(* Properties                                                              *)
(***************************************************************************)
TypeOK ==
    /\ phase \in {"init", "late", "principal", "stack", "modules", "info", "done", "panic"}
    /\ \A m \in Range(mappings) :
          /\ [start |-> m.start, size |-> m.size, sys_start |-> m.sys_start, sys_end |-> m.sys_end,
              perms |-> m.perms] \in MappingInfo
          /\ m.name \subseteq {LinuxGate} \cup UNION {sanitize_path(l.path) : l \in Range(maps)}
    /\ Range(stack) \subseteq Address \cup {Defaced}
    /\ \A x \in Range(modules) : x.cv_record \subseteq Ids /\ x.size_of_image \in 0..(U32 - 1)

\* Each property is stated where what it is about has just been made.
Enumerated == config.stopped /\ mappings # << >>
Unbiased == Enumerated /\ ~config.android
Within(l, m) == m.start <= l.lo /\ l.hi <= end_address(m)

\* MappingInfo::aggregate, however lines of libraries, holes and reserved ranges
\* follow each other: every line of a stopped target's map lies in exactly one
\* mapping, no two mappings overlap, and a mapping spans nothing unmapped.
MappingsPartition ==
    Unbiased /\ phase = "late" =>
        /\ \A l \in Range(maps) : \E i \in DOMAIN mappings : Within(l, mappings[i])
        /\ \A i, j \in DOMAIN mappings :
              i # j => end_address(mappings[i]) <= mappings[j].start \/ end_address(mappings[j]) <= mappings[i].start
        /\ \A m \in Range(mappings) : \A a \in m.start..(end_address(m) - 1) : LineAt(maps, a) # {}

\* A mapping stands for one library: its lines have its name or are ranges
\* without access that the linker reserved, and it can be accessed as any line of
\* that name can. Adjacent lines of one name are in one mapping, unless the
\* first was taken for a range reserved for the library before it.
LineName(l) == IF auxv.gate = {l.lo} /\ ~is_mapping_a_path(sanitize_path(l.path))
               THEN {LinuxGate} ELSE sanitize_path(l.path)


\* The identifier of a module is one of the file that is mapped there: a build id
\* from a note if there is one to be found, else the hash of its text. The file
\* of that name is asked when the memory does not tell; it is another one if the
\* mapped file was deleted and replaced, which sanitize_path hides.
NoteIds(im) ==
    UNION {find_build_id_note(s.notes) : s \in Range(im.segments)}
    \cup UNION {find_build_id_note(s.notes) : s \in {x \in Range(im.sections) : x.type = "SHT_NOTE" /\ ~x.last}}
TextIds(im) == UNION {s.hash : s \in Range(im.sections)}
IdOfMappedFile ==
    Unbiased /\ phase = "info" =>
        \A x \in {y \in Range(modules) : ~y.user} :
            \A l \in LineAt(maps, x.base_of_image) : \A im \in ImageOf(l.path) :
                \/ x.cv_record \subseteq IF NoteIds(im) # {} THEN NoteIds(im) ELSE TextIds(im)
                \/ /\ \E p \in l.path : p.deleted
                   /\ l.off # im.at \/ BuildId(im, im.loaded) = {}

\* write_mappings: "if there is caller-provided information about this mapping in
\* the user_mapping_list list, skip it". Each mapping of the caller's is a module
\* with the caller's identifier, after all others, and none of the others lies in
\* one of them.
CallerWins ==
    phase = "info" =>
        LET n == Len(modules) - Len(config.user)
        IN  /\ \A i \in DOMAIN config.user :
                  /\ modules[n + i].base_of_image = config.user[i].mapping.start
                  /\ modules[n + i].cv_record = config.user[i].identifier
            /\ \A i \in 1..n, u \in Range(config.user) :
                  ~(/\ u.mapping.start <= modules[i].base_of_image
                    /\ modules[i].base_of_image + modules[i].size_of_image <= end_address(u.mapping))


\* The two streams that describe the memory are read at different times from the
\* same file and agree: the regions of the memory info list fill each mapping's
\* system range, and the mapping is executable if one of them is.
InfoAgrees ==
    Enumerated /\ info # << >> =>
        \A m \in Range(mappings) :
            LET inside == {r \in Range(info) : m.sys_start <= r.base_address /\ r.base_address < m.sys_end}
            IN  /\ \E r \in inside : r.base_address = m.sys_start
                /\ \E r \in inside : r.base_address + r.region_size = m.sys_end
                /\ \A r \in inside : r.base_address + r.region_size \in
                       {m.sys_end} \cup {q.base_address : q \in inside}
                /\ is_executable(m) <=> \E r \in inside : "x" \in r.protection
=============================================================================
