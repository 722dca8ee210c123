---------------------------- MODULE MCModuleList ----------------------------
(* Instances of ModuleList for TLC: an address space of 20 words, pages of 2. *)
EXTENDS ModuleList

NoteOf(id) == [parses |-> TRUE, id |-> {id}]
Torn == [parses |-> FALSE, id |-> {}]
Plain == [parses |-> TRUE, id |-> {}]
PtNote(notes) == [type |-> "PT_NOTE", notes |-> notes]
PtDynamic == [type |-> "PT_DYNAMIC", notes |-> << >>]
Sect(type, name, exec, notes, hash) ==
    [type |-> type, name |-> name, last |-> FALSE, exec |-> exec, link |-> 0, notes |-> notes, hash |-> hash]
Strtab == Sect("SHT_STRTAB", ".shstrtab", FALSE, << >>, {})
Text(hash) == Sect("SHT_PROGBITS", ".text", TRUE, << >>, {hash})
NoteSection(id) == Sect("SHT_NOTE", ".note.gnu.build-id", FALSE, <<Plain, NoteOf(id)>>, {})
Dyn(tag, val) == [tag |-> tag, val |-> val]
Names == <<{"libone"}, {}, {"libtwo"}>>

Loaded == {"phdrs", "notes", "dynamic", "dynstr", "text"}
Elf(segments, sections, dynamic) ==
    [at |-> 0, segments |-> segments, sections |-> sections, shstrndx |-> 1, dynamic |-> dynamic,
     terminated |-> TRUE, strings |-> Names, e_type |-> "ET_DYN", loads |-> {0}, loaded |-> Loaded]

\* An executable with a note segment behind a torn one; a library whose only note
\* is in a section, with a SONAME; a file that replaced it; an archive; a
\* library without a note and with packed relocations; the vdso; a file whose
\* text hashes to zeros
Exe == [Elf(<<PtNote(<<Plain, Torn, NoteOf("wrong")>>), PtNote(<<NoteOf("exe")>>)>>, <<Strtab, Text("text")>>, << >>)
           EXCEPT !.e_type = "ET_EXEC"]
Lib == Elf(<<PtDynamic>>, <<Strtab, Text("text"), NoteSection("lib")>>,
           <<Dyn("SONAME", 1), Dyn("STRTAB", 0), Dyn("STRSZ", 3), Dyn("SONAME", 0)>>)
NewLib == Elf(<<PtNote(<<NoteOf("new")>>)>>, <<Strtab, Text("text")>>, << >>)
OldLib == Elf(<<PtNote(<<NoteOf("old")>>)>>, <<Strtab, Text("text")>>, << >>)
InApk == [Elf(<<PtNote(<<NoteOf("apk")>>), PtDynamic>>, <<Strtab>>, <<Dyn("SONAME", 2)>>)
             EXCEPT !.at = 2, !.sections = Append(@, [Sect("SHT_DYNAMIC", ".dynamic", FALSE, << >>, {}) EXCEPT !.link = 1])]
Packed == [Elf(<<PtDynamic>>, <<Strtab, Text("text")>>, <<Dyn("ANDROID_REL", 0)>>) EXCEPT !.loads = {2, 4}]
Vdso == [Elf(<<PtNote(<<NoteOf("vdso")>>)>>, << >>, << >>) EXCEPT !.loaded = Parts]
Null == [Elf(<< >>, <<Strtab, Text("zero")>>, << >>) EXCEPT !.terminated = FALSE]

Path(name) == [name |-> name, deleted |-> FALSE]
Deleted(name) == [name |-> name, deleted |-> TRUE]
MCPaths == {"/exe", "/lib.so.1.2.3", "/apk", "/dev/dri", "/packed", "/null", "/odd.so"}
MCFiles ==
    {[path |-> Path("/exe"), image |-> Exe], [path |-> Path("/lib.so.1.2.3"), image |-> Lib],
     [path |-> Path("/apk"), image |-> InApk], [path |-> Path("/packed"), image |-> Packed],
     [path |-> Path("/null"), image |-> Null], [path |-> Path("[vdso]"), image |-> Vdso],
     [path |-> Path("/odd.so"), image |-> NewLib], [path |-> Deleted("/odd.so"), image |-> OldLib]}

Comp(lead, mixed, trail, wide) == [lead |-> lead, mixed |-> mixed, trail |-> trail, wide |-> wide]
MCVersions ==
    {[name |-> "/lib.so.1.2.3", comps |-> <<Comp({1}, FALSE, {}, FALSE), Comp({2}, FALSE, {}, FALSE),
                                            Comp({3}, TRUE, {5}, FALSE)>>],
     [name |-> "/null", comps |-> << >>],
     [name |-> "/packed", comps |-> <<Comp({1}, FALSE, {}, FALSE), Comp({}, TRUE, {}, FALSE),
                                      Comp({2}, TRUE, {}, TRUE), Comp({4}, FALSE, {}, FALSE)>>]}

RX == {"r", "x", "p"}
RW == {"r", "w", "p"}
K(path, off, perms, gap) == [path |-> path, off |-> off, perms |-> perms, gap |-> gap, len |-> 2]
MCKinds ==
    {K({Path("/exe")}, 0, RX, 0), K({Path("/exe")}, 2, RW, 0),
     K({Path("/lib.so.1.2.3")}, 0, {"r", "p"}, 0), K({Path("/lib.so.1.2.3")}, 2, RX, 0),
     K({Path("/lib.so.1.2.3")}, 0, {"p"}, 0),
     K({Deleted("/odd.so")}, 0, RX, 1), K({Path("/apk")}, 2, RX, 0),
     K({Path("/packed")}, 0, RX, 2), K({Path("/null")}, 0, {"r", "s"}, 0),
     K({Path("/dev/dri")}, 40, {"r", "w"}, 0),
     K({}, 0, {"p"}, 0), K({}, 0, {"p"}, 1), K({}, 0, RW, 0),
     K({Path("[vdso]")}, 0, RX, 1)}

UserMapping ==
    [start |-> 2, size |-> 4, sys_start |-> 2, sys_end |-> 6, off |-> 0, perms |-> RX,
     name |-> {"/lib.so.1.2.3"}]
Up == [i \in 1..10 |-> 2 * (i - 1)]
Mixed == [i \in 1..10 |-> (i * 7) % 20]
Config(lines, android, stopped, words, skip) ==
    [lines |-> lines, android |-> android, stopped |-> stopped, user |-> << >>, words |-> words,
     skip |-> skip, principal |-> {3}, crash |-> {[ip |-> 9, sp |-> 5]}, sp |-> 5, sp_offset |-> 1]
MCConfigs ==
    {[Config(4, FALSE, TRUE, Up, FALSE)
         EXCEPT !.user = <<[mapping |-> UserMapping, identifier |-> {"user"}]>>],
     Config(3, TRUE, TRUE, Mixed, TRUE),
     [Config(3, FALSE, FALSE, Mixed, TRUE) EXCEPT !.crash = {}, !.sp = 4, !.sp_offset = 0]}
=============================================================================
