------------------------------ MODULE CpuInfo ------------------------------
(***************************************************************************)
(* dumper_cpu_info: the processor's description from /proc/cpuinfo and, on *)
(* ARM, from two files of sysfs. A line of cpuinfo is a record             *)
(*   field    its name; padded: blanks follow it, before the colon         *)
(*   value    none without a colon, else [space, number, text]: whether a  *)
(*            blank precedes it, the number it is (if any), its text       *)
(* An empty line has the field "".                                         *)
(***************************************************************************)
EXTENDS Options, FiniteSets

CONSTANT U8     \* 256: number_of_processors is a u8

\* x86_mips.rs: field and value are trimmed, the value of a line must parse
Parsed(lines, field) == {i \in DOMAIN lines : lines[i].field = field /\ \E v \in lines[i].value : v.number # {}}
NumberAt(lines, hits) == {The(The(l.value).number) : l \in hits}
LastOf(hits, lines) == IF hits = {} THEN {} ELSE {lines[CHOOSE i \in hits : \A j \in hits : j <= i]}
cpu_info_table(lines) ==
    [field \in {"processor", "model", "stepping", "cpu family"} |->
        NumberAt(lines, IF field = "processor" THEN LastOf(Parsed(lines, field), lines)
                        ELSE First(Parsed(lines, field), lines))]
vendor_id(lines) ==
    {The(l.value).text : l \in LastOf({i \in DOMAIN lines : lines[i].field = "vendor_id" /\
                                          \E v \in lines[i].value : v.text # ""}, lines)}

Unknown == [number |-> 0, level |-> 0, revision |-> <<0, 0>>, vendor |-> {}, cpuid |-> {}, hwcaps |-> {}]
\* Mutant of write_cpu_information_x86: the last processor's id is its number.
write_cpu_information_last(lines) ==
    LET table == cpu_info_table(lines)
    IN  IF \E field \in DOMAIN table : table[field] = {} THEN Unknown
        ELSE [Unknown EXCEPT !.number = The(table["processor"]) % U8,
                             !.level = The(table["cpu family"]),
                             !.revision = <<The(table["model"]), The(table["stepping"])>>,
                             !.vendor = vendor_id(lines)]
\* The number of processors is the last id plus one, cut to a byte. Without the file
\* or one of the entries nothing is set, which is a soft error.
write_cpu_information_x86(lines) ==
    LET table == cpu_info_table(lines)
    IN  IF \E field \in DOMAIN table : table[field] = {} THEN Unknown
        ELSE [Unknown EXCEPT !.number = (The(table["processor"]) + 1) % U8,
                             !.level = The(table["cpu family"]),
                             !.revision = <<The(table["model"]), The(table["stepping"])>>,
                             !.vendor = vendor_id(lines)]

\* arm.rs. A list of items, each the numbers between its dashes; one that cannot be
\* parsed makes the whole file count as empty.
parse_cpus_from_sysfile(items) ==
    IF \E i \in DOMAIN items : Len(items[i]) > 2 \/ \E k \in DOMAIN items[i] : items[i][k] = {} THEN {}
    ELSE UNION {IF items[i] = << >> THEN {}
                ELSE The(items[i][1])..The(items[i][Len(items[i])]) : i \in DOMAIN items}

\* The entries of the id with their range (their bit_length)
cpu_id_entries == [f \in {"CPU implementer", "CPU variant", "CPU part", "CPU revision"} |->
    CASE f = "CPU implementer" -> 256 [] f = "CPU part" -> 4096 [] OTHER -> 16]

\* Neither the field nor the value is trimmed: a field with blanks behind it is none
\* of the table's, and a number with a blank before it is none.
Matches(l, field) == l.field = field /\ ~l.padded
ParsedRaw(v) == IF v.space THEN {} ELSE v.number

\* The files are options too. What is split at blanks (the level, the features) does
\* not mind the one before the value.
write_cpu_information_arm(arch, present, possible, lines) ==
    LET cores == UNION {parse_cpus_from_sysfile(p) \cap parse_cpus_from_sysfile(q) : p \in present, q \in possible}
        count == IF Cardinality(cores) < U8 - 1 THEN Cardinality(cores) ELSE U8 - 1
        level == IF arch = "arm" THEN LastOf({i \in DOMAIN lines : Matches(lines[i], "Processor") /\ \E v \in lines[i].value : v.text # ""}, lines)
                 ELSE LastOf({i \in DOMAIN lines : Matches(lines[i], "CPU architecture") /\
                                 \E v \in lines[i].value : ParsedRaw(v) # {}}, lines)
    IN  [Unknown EXCEPT
            !.number = count,
            !.level = The(OrElse({The(OrElse(The(l.value).number, {5})) : l \in level}, {1})),
            !.revision = <<0, 42>>,
            !.cpuid = UNION {{<<f, n % cpu_id_entries[f]>> : n \in UNION {ParsedRaw(v) :
                                 v \in UNION {lines[i].value : i \in {i \in DOMAIN lines : Matches(lines[i], f)}}}} :
                             f \in DOMAIN cpu_id_entries},
            !.hwcaps = UNION {IF arch = "arm" THEN {The(l.value).text} ELSE {} :
                                 l \in LastOf({i \in DOMAIN lines : Matches(lines[i], "Features") /\ lines[i].value # {}}, lines)}]

\* dumper_cpu_info::imp::write_cpu_information; cpu.lines is an option
write_cpu_information(cpu) ==
    LET lines == The(OrElse(cpu.lines, {<< >>}))
    IN  IF cpu.arch = "x86_64" THEN write_cpu_information_x86(lines)
        ELSE write_cpu_information_arm(cpu.arch, cpu.present, cpu.possible, lines)
=============================================================================
