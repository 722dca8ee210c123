---------------------------- MODULE ModuleReader ----------------------------
(***************************************************************************)
(* What module_reader.rs finds out about an ELF image: its build id and    *)
(* its SONAME. `parts` are the parts of the image that the reader reaches: *)
(* all of them in a file, in the memory of the target those that are       *)
(* loaded. Reading another part is an error, which ends that attempt.      *)
(***************************************************************************)
EXTENDS Options

CONSTANT Ids    \* build ids

Parts == {"phdrs", "shdrs", "shstrtab", "notes", "text", "dynamic", "dynstr"}

\* A note parses or not; `id` is there if it is a GNU build id. A section's `last`:
\* its name is the last string of the name table. `link` and shstrndx are
\* indices of sections, 0 for none.
Note == [parses : BOOLEAN, id : SUBSET Ids]
Segment == [type : {"PT_NOTE", "PT_DYNAMIC"}, notes : Seq(Note)]
Section ==
    [type : {"SHT_NOTE", "SHT_PROGBITS", "SHT_STRTAB", "SHT_DYNAMIC"}, name : STRING,
     last : BOOLEAN, exec : BOOLEAN, link : Nat, notes : Seq(Note), hash : SUBSET Ids]

\* `at`: where in its file the image begins (not 0 in an archive); `strings`: the
\* strings of the dynamic string table, one for each offset, missing where no NUL
\* follows; `loads`: the p_vaddr of the PT_LOAD segments; `loaded`: the parts that
\* the memory of the target holds.
Image ==
    [at : Nat, segments : Seq(Segment), sections : Seq(Section), shstrndx : Nat,
     dynamic : Seq([tag : {"SONAME", "STRTAB", "STRSZ", "ANDROID_REL"}, val : Nat]), terminated : BOOLEAN,
     strings : Seq(SUBSET STRING), e_type : {"ET_DYN", "ET_EXEC"}, loads : SUBSET Nat,
     loaded : SUBSET Parts]

Indices(s, Test(_)) == {i \in DOMAIN s : Test(s[i])}

find_build_id_note(notes) ==
    LET hits == {i \in DOMAIN notes : notes[i].id # {} /\ \A j \in 1..i : notes[j].parses}
    IN  UNION {n.id : n \in First(hits, notes)}

\* A name that ends where the table ends is taken for one that cannot match.
section_header_with_name(im, name, parts) ==
    IF im.shstrndx \in DOMAIN im.sections /\ im.sections[im.shstrndx].type = "SHT_STRTAB"
                                          /\ "shstrtab" \in parts
    THEN First(Indices(im.sections, LAMBDA s : s.name = name /\ ~s.last), im.sections)
    ELSE {}

build_id_from_program_headers(im, parts) ==
    LET hits == Indices(im.segments, LAMBDA s : s.type = "PT_NOTE" /\ find_build_id_note(s.notes) # {})
    IN  IF {"phdrs", "notes"} \subseteq parts
        THEN UNION {find_build_id_note(s.notes) : s \in First(hits, im.segments)} ELSE {}
build_id_from_section(im, parts) ==
    IF {"shdrs", "notes"} \subseteq parts
    THEN UNION {find_build_id_note(s.notes) :
                   s \in section_header_with_name(im, ".note.gnu.build-id", parts)}
    ELSE {}
build_id_generate_from_text(im, parts) ==
    IF {"shdrs", "text"} \subseteq parts
    THEN UNION {s.hash : s \in First(Indices(im.sections, LAMBDA s : s.exec), im.sections)} ELSE {}

\* Mutant of BuildId: the hash of the text is preferred to the note section.
BuildIdTextFirst(im, parts) ==
    OrElse(build_id_from_program_headers(im, parts),
           OrElse(build_id_generate_from_text(im, parts), build_id_from_section(im, parts)))

BuildId(im, parts) ==
    OrElse(build_id_from_program_headers(im, parts),
           OrElse(build_id_from_section(im, parts), build_id_generate_from_text(im, parts)))

\* The string table is read from the offset to its end.
read_name_from_strtab(im, offset, parts) ==
    IF "dynstr" \in parts /\ offset < Len(im.strings) THEN im.strings[offset + 1] ELSE {}

\* Of several entries with one tag the last counts here, and the first below.
LastVal(im, tag) ==
    LET hits == Indices(im.dynamic, LAMBDA d : d.tag = tag)
    IN  IF hits = {} THEN {} ELSE {im.dynamic[CHOOSE i \in hits : \A j \in hits : j <= i].val}
soname_from_program_headers(im, parts) ==
    LET size == LastVal(im, "STRSZ")
    IN  IF /\ {"phdrs", "dynamic"} \subseteq parts
           /\ Indices(im.segments, LAMBDA s : s.type = "PT_DYNAMIC") # {}
           /\ im.terminated
           /\ LastVal(im, "STRTAB") # {}
        THEN UNION {read_name_from_strtab(im, v, parts) :
                       v \in {v \in LastVal(im, "SONAME") : \E z \in size : v < z}}
        ELSE {}

DynStr(im, d, parts) ==
    IF d.link \in DOMAIN im.sections /\ im.sections[d.link].type = "SHT_STRTAB"
    THEN {im.sections[d.link]} ELSE section_header_with_name(im, ".dynstr", parts)
soname_from_sections(im, parts) ==
    LET header == First(Indices(im.sections, LAMBDA s : s.type = "SHT_DYNAMIC"), im.sections)
        names  == Indices(im.dynamic, LAMBDA d : d.tag = "SONAME" /\ d.val < Len(im.strings))
    IN  IF /\ {"shdrs", "dynamic"} \subseteq parts
           /\ \E d \in header : DynStr(im, d, parts) # {}
        THEN UNION {read_name_from_strtab(im, d.val, parts) : d \in First(names, im.dynamic)} ELSE {}

SoName(im, parts) ==
    OrElse(soname_from_program_headers(im, parts), soname_from_sections(im, parts))
=============================================================================
