------------------------------ MODULE MacTask ------------------------------
(***************************************************************************)
(* mac/task_dumper.rs, mac/mach.rs and what the streams compute from them: *)
(* the regions and the memory of a task, the load commands of its images,  *)
(* the extent of a stack, and the values of sysctl. An address is a number *)
(* of cells; a task is a record                                            *)
(*   regions   set of [start, end, stack, read], stack being the user tag  *)
(*   images    dyld's list, a sequence of [load_address, file_path]        *)
(*   at        load address -> [magic, commands, count], where readable    *)
(*   strings   address -> [len, path], none for what is not UTF-8          *)
(*   dyld      the load address of dyld                                    *)
(***************************************************************************)
EXTENDS Options, SequencesExt

CONSTANTS
    PageSize,
    MaxString,  \* 8 KiB: the most that is read of a string
    NearEnd     \* 4 KiB: a string that close to a region's end may go on

ASSUME PageAssumption == PageSize \in Nat \ {0}

\* mach_vm_region_recurse gives the region of an address or the next one above.
get_vm_region(regions, addr) ==
    LET above == {r \in regions : addr < r.end}
    IN  {r \in above : \A o \in above : r.start <= o.start}

\* mach_vm_read reads whole pages, all or none.
read_task_memory(regions, address, count) ==
    LET page_address      == address - (address % PageSize)
        last_page_address == ((address + count + PageSize - 1) \div PageSize) * PageSize
    IN  IF \A a \in page_address..(last_page_address - 1) :
              \E r \in regions : r.read /\ r.start <= a /\ a < r.end
        THEN {[i \in 1..count |-> <<"mem", address + i - 1>>]}
        ELSE {}

\* get_region_size of read_string
RegionSize(regions, addr) ==
    LET more(region) ==
            IF region.end - addr < NearEnd
            THEN {IF next.start = region.end THEN next.end - next.start ELSE 0 :
                     next \in get_vm_region(regions, region.end)}
            ELSE {0}
    IN  UNION {{region.end - addr + m : m \in more(region)} : region \in get_vm_region(regions, addr)}

\* Every caller takes an error for no string. One that does not end within what
\* was read is cut there.
read_string(task, addr) ==
    UNION {{IF s.len < Len(bytes) THEN path ELSE Append(path, "...") :
              path \in s.path, bytes \in read_task_memory(task.regions, addr,
                                            IF size < MaxString THEN size ELSE MaxString)} :
           size \in RegionSize(task.regions, addr), s \in {task.strings[addr]}}

\* LoadCommandsIter: `count` commands at most, up to one that does not fit into the
\* buffer; commands of other kinds, and linker names without an end, are skipped.
LoadCommandsIter(header) ==
    LET stop == {i \in DOMAIN header.commands : ~header.commands[i].fits \/ header.count < i}
        n    == IF stop = {} THEN Len(header.commands)
                ELSE (CHOOSE i \in stop : \A j \in stop : i <= j) - 1
    IN  SelectSeq(SubSeq(header.commands, 1, n), LAMBDA c : c.kind # "other")

\* read_load_commands: the header must be readable and have the magic of 64 bits.
read_load_commands(task, address) ==
    {LoadCommandsIter(h) : h \in {task.at[a] : a \in {a \in DOMAIN task.at : a = address /\ task.at[a].magic}}}

FirstOf(kind, commands) == First({i \in DOMAIN commands : commands[i].kind = kind}, commands)

\* The part that read_image and read_dyld share: the first of each kind counts.
ImageDetails(address, commands, path) ==
    {[uuid |-> id.uuid, base |-> text.vm_addr + (address - text.vm_addr), size |-> text.vm_size,
      file_path |-> path, version |-> {d.version : d \in FirstOf("dylib", commands)}] :
        text \in FirstOf("text", commands), id \in FirstOf("uuid", commands)}

read_image(task, image) ==
    UNION {ImageDetails(image.load_address, commands,
                        IF image.file_path = 0 THEN {} ELSE read_string(task, image.file_path)) :
              commands \in read_load_commands(task, image.load_address)}

read_dyld(task) ==
    UNION {ImageDetails(task.dyld, commands, {c.name : c \in FirstOf("dylinker", commands)}) :
              commands \in read_load_commands(task, task.dyld)}

\* images.sort() is stable: dedup keeps the first of those at an address.
SortedImages(images) ==
    LET first(i) == \A j \in 1..(i - 1) : images[j].load_address # images[i].load_address
    IN  SetToSortSeq({images[i] : i \in {i \in DOMAIN images : first(i)}},
                     LAMBDA a, b : a.load_address < b.load_address)


\* The loop of calculate_stack_size: over the readable regions of the same tag that
\* abut, if the first one has it.
StackEnd(regions, root) ==
    LET goes(e) == \A a \in root.end..(e - 1) :
                      \E r \in regions : r.stack /\ r.read /\ r.start <= a /\ a < r.end
        ends == {root.end} \cup {r.end : r \in {r \in regions : root.stack /\ root.end < r.end /\ goes(r.end)}}
    IN  CHOOSE e \in ends : \A o \in ends : o <= e

calculate_stack_size(regions, start_address) ==
    LET root == {r \in get_vm_region(regions, start_address) : r.start <= start_address}
    IN  IF start_address = 0 \/ root = {} THEN 0
        ELSE LET r == The(root)
             IN  r.start + (StackEnd(regions, r) - r.start) - start_address
=============================================================================
