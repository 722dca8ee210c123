---------------------------- MODULE InfoStreams -----------------------------
(***************************************************************************)
(* The streams of Linux that describe the machine and the process, in the  *)
(* order of write_dump: SystemInfo, the DSO debug stream, and the handles, *)
(* a descriptor for each entry of /proc/<pid>/fd. A target that was not    *)
(* stopped opens and closes files meanwhile.                               *)
(***************************************************************************)
EXTENDS DsoDebug, CpuInfo

CONSTANT OpenFiles      \* files that may be open

File == [path : STRING, mode : Nat]
ASSUME FileAssumption ==
    /\ OpenFiles \subseteq File
    /\ \A t \in Targets : DOMAIN t.fds \subseteq Nat /\ \A fd \in DOMAIN t.fds : t.fds[fd] \in File

VARIABLES
    fds,        \* the target's open files
    entries,    \* what is left of the directory, none before it is read
    realpath,   \* the target of the current entry's link, and its string
    descriptors,
    handles     \* the stream's entry in the dump's directory

handleVars == <<fds, entries, realpath, descriptors, handles>>
vars == <<dsoVars, handleVars>>

Init ==
    /\ DsoInit
    /\ fds = target.fds
    /\ entries = {} /\ realpath = {} /\ descriptors = << >> /\ handles = {}

\* systeminfo_stream::write: the record's slot, the string of os_information, then
\* the record. That the description of the processor is missing is a soft error.
WriteSystemInfo ==
    /\ pc = "system"
    /\ buffer' = WriteAt(WriteAll(Reserve(buffer, 1), << <<"string", "os">> >>), Len(buffer),
                         << <<"system", write_cpu_information(target.cpu), Rva(Len(buffer) + 1)>> >>)
    /\ pc' = "phdr"
    /\ UNCHANGED <<target, links, outcome, auxv, dyn_addr, dynamic_length, r_debug,
                   curr_map, dso_vec, linkmap, idx, dirent, handleVars>>

HandleStep(p) == pc = p /\ outcome # "panic"
UnchangedDso ==
    UNCHANGED <<target, links, outcome, auxv, dyn_addr, dynamic_length, r_debug,
                curr_map, dso_vec, linkmap, idx, dirent>>

ReadDir ==
    /\ HandleStep("handles")
    /\ entries' = DOMAIN fds
    /\ pc' = "entries"
    /\ UnchangedDso /\ UNCHANGED <<buffer, fds, realpath, descriptors, handles>>
ReadDirFails ==
    /\ HandleStep("handles")
    /\ pc' = "done"
    /\ UnchangedDso /\ UNCHANGED <<buffer, handleVars>>

\* direntry_to_descriptor: the link and its string first, then the mode. An entry
\* that is gone is left out, in the second case after its string was written.
ReadLink(fd) ==
    /\ HandleStep("entries") /\ realpath = {} /\ fd \in entries
    /\ IF fd \in DOMAIN fds
       THEN /\ buffer' = WriteAll(buffer, << <<"string", fds[fd].path>> >>)
            /\ realpath' = {[fd |-> fd, rva |-> Rva(Len(buffer)), path |-> fds[fd].path]}
            /\ UNCHANGED entries
       ELSE entries' = entries \ {fd} /\ UNCHANGED <<buffer, realpath>>
    /\ UnchangedDso /\ UNCHANGED <<pc, fds, descriptors, handles>>

FileStat ==
    /\ HandleStep("entries") /\ realpath # {}
    /\ LET r == The(realpath)
       IN  /\ descriptors' = IF r.fd \in DOMAIN fds
                             THEN Append(descriptors, [handle |-> r.fd, object_name_rva |-> r.rva,
                                                       attributes |-> fds[r.fd].mode])
                             ELSE descriptors
           /\ entries' = entries \ {r.fd}
    /\ realpath' = {}
    /\ UnchangedDso /\ UNCHANGED <<pc, buffer, fds, handles>>

\* Mutant of WriteHandles: the header counts the directory's entries.
WriteHandlesListed ==
    /\ HandleStep("entries") /\ entries = {}
    /\ buffer' = WriteAll(buffer, << <<"handles", Cardinality(DOMAIN target.fds)>> >> \o descriptors)
    /\ handles' = {Location(Len(buffer), 1 + Len(descriptors))}
    /\ pc' = "done"
    /\ UnchangedDso /\ UNCHANGED <<fds, entries, realpath, descriptors>>

WriteHandles ==
    /\ HandleStep("entries") /\ entries = {}
    /\ buffer' = WriteAll(buffer, << <<"handles", Len(descriptors)>> >> \o descriptors)
    /\ handles' = {Location(Len(buffer), 1 + Len(descriptors))}
    /\ pc' = "done"
    /\ UnchangedDso /\ UNCHANGED <<fds, entries, realpath, descriptors>>

Close(fd) ==
    /\ ~target.stopped /\ pc = "entries" /\ fd \in DOMAIN fds
    /\ fds' = [f \in DOMAIN fds \ {fd} |-> fds[f]]
    /\ UnchangedDso /\ UNCHANGED <<pc, buffer, entries, realpath, descriptors, handles>>
Open(fd, file) ==
    /\ ~target.stopped /\ pc = "entries" /\ fd \in DOMAIN target.fds \ DOMAIN fds
    /\ fds' = [f \in DOMAIN fds \cup {fd} |-> IF f = fd THEN file ELSE fds[f]]
    /\ UnchangedDso /\ UNCHANGED <<pc, buffer, entries, realpath, descriptors, handles>>

Writer ==
    \/ DsoStep /\ UNCHANGED handleVars
    \/ WriteSystemInfo \/ ReadDir \/ ReadDirFails \/ FileStat \/ WriteHandles
    \/ \E fd \in DOMAIN target.fds : ReadLink(fd)
TargetStep ==
    \/ (\E map \in DOMAIN links : Unlink(map)) /\ UNCHANGED handleVars
    \/ \E fd \in DOMAIN target.fds : Close(fd) \/ \E file \in OpenFiles : Open(fd, file)

Next == Writer \/ TargetStep

\* The writer is not held up by anything here: it takes its next step.
Spec == Init /\ [][Next]_vars /\ WF_vars(Writer)

-----------------------------------------------------------------------------
(***************************************************************************)
(* Properties                                                              *)
(***************************************************************************)
TypeOK ==
    /\ pc \in {"auxv", "system", "phdr", "dynamic", "r_debug", "walk", "names", "copy", "handles", "entries", "done"}
    /\ outcome \in {"none", "ok", "error", "panic"}
    /\ \A key \in Keys : Cardinality(auxv[key]) <= 1
    /\ idx <= Len(dso_vec) /\ Len(dso_vec) <= MaxDsos
    /\ \A d \in dirent \cup handles : d.rva + 1 <= Len(buffer)

\* The handle data stream read back: as many descriptors as its header counts, no
\* handle twice, each with the path its string says; for a stopped target they
\* are its open files, path and mode of the same file.
HandlesReadBack ==
    \A h \in handles :
        LET n    == h.data_size - 1
            at   == h.rva + 1
            name == [i \in 1..n |-> buffer[buffer[at + i].object_name_rva + 1]]
        IN  /\ buffer[at] = <<"handles", n>> /\ at + n = Len(buffer)
            /\ \A i, j \in 1..n : i # j => buffer[at + i].handle # buffer[at + j].handle
            /\ target.stopped =>
                  /\ {buffer[at + i].handle : i \in 1..n} = DOMAIN fds
                  /\ \A i \in 1..n : LET f == fds[buffer[at + i].handle]
                                     IN  name[i] = <<"string", f.path>> /\ buffer[at + i].attributes = f.mode

\* x86: a file that lists processors 0..n-1 with all their entries gives their
\* number, unless it needs more than a byte, and the entries of the first; one that
\* lacks an entry gives nothing. The record stays what was written first.
CpuDescribed ==
    pc \notin {"auxv", "system"} /\ target.cpu.arch = "x86_64" =>
        LET lines  == The(OrElse(target.cpu.lines, {<< >>}))
            values(field) == {The(The(lines[i].value).number) : i \in Parsed(lines, field)}
            info   == buffer[1][2]
            fields == {"processor", "model", "stepping", "cpu family"}
        IN  IF \E field \in fields : values(field) = {} THEN info = Unknown
            ELSE /\ values("processor") = 0..(Cardinality(values("processor")) - 1)
                       /\ Cardinality(values("processor")) < U8
                    => info.number = Cardinality(values("processor"))
                 /\ info.level \in values("cpu family")
                 /\ \A i \in Parsed(lines, "model") : (\A j \in Parsed(lines, "model") : i <= j)
                       => info.revision[1] = The(The(lines[i].value).number)

\* ARM: "This table is used to rebuild it from the entries": in a file of the format
\* that the code's comment expects (a field, blanks, a colon, a blank, a value),
\* the processor's id is made of all the entries that the file has.
IdRebuilt ==
    pc \notin {"auxv", "system"} /\ target.cpu.arch # "x86_64" =>
        \A lines \in target.cpu.lines : \A i \in DOMAIN lines :
            lines[i].field \in DOMAIN cpu_id_entries =>
                \E e \in buffer[1][2].cpuid : e[1] = lines[i].field
=============================================================================
