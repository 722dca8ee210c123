------------------------------ MODULE DsoDebug ------------------------------
(***************************************************************************)
(* write_dso_debug_stream: from the auxiliary vector over the program      *)
(* headers and the dynamic section of the executable to the linker's list  *)
(* of loaded objects, every structure a copy of its own of the target's    *)
(* memory. The list may change, or be damaged, while it is walked.         *)
(***************************************************************************)
EXTENDS MemWriter, Auxv, SequencesExt

CONSTANTS
    Targets,    \* what the target's memory holds, and what the caller knows
    BaseSize,   \* 4096: the program base is taken to be that aligned
    MaxDsos     \* bound on how far a list is followed that does not end

\* What the caller knows, the pairs of /proc/<pid>/auxv, and how much of the dynamic
\* section is copied at once
ASSUME TargetAssumption ==
    \A t \in Targets :
        /\ t.direct \in [Keys -> Nat] /\ t.whole \in Nat
        /\ t.auxv \in Seq([key : STRING, value : Nat])

VARIABLES
    target,
    links,      \* l_next of every link_map of the target, 0 at the end
    buffer,     \* the image of the dump, from where this stream begins
    pc, outcome,
    auxv,
    dyn_addr, dynamic_length, r_debug,
    curr_map,   \* the walk: the next link_map, and the ones copied
    dso_vec,
    linkmap,    \* the array's position, none (u32::MAX) without objects
    idx, dirent

dsoVars == <<target, links, buffer, pc, outcome, auxv, dyn_addr, dynamic_length, r_debug,
             curr_map, dso_vec, linkmap, idx, dirent>>

DsoInit ==
    /\ target \in Targets
    /\ links = target.links
    /\ auxv = FromDirect(target.direct)
    /\ buffer = << >> /\ pc = "auxv" /\ outcome = "none"
    /\ dyn_addr = 0 /\ dynamic_length = 0 /\ r_debug = 0
    /\ curr_map = 0 /\ dso_vec = << >> /\ linkmap = {} /\ idx = 0 /\ dirent = {}

Copied(address) == IF address \in DOMAIN target.read THEN target.read[address] ELSE "fails"

\* `?` on a failed copy; a copy that is shorter than the structure makes the
\* following index or conversion panic.
Leave(how) ==
    /\ outcome' = how /\ pc' = "handles"
    /\ UNCHANGED <<target, links, buffer, auxv, dyn_addr, dynamic_length, r_debug,
                   curr_map, dso_vec, linkmap, idx, dirent>>
CopyFails(address) ==
    \/ Copied(address) = "fails" /\ Leave("error")
    \/ Copied(address) = "short" /\ Leave("panic")

FillAuxv ==
    /\ pc = "auxv"
    /\ auxv' = try_filling_missing_info(auxv, target.auxv)
    /\ pc' = "system"
    /\ UNCHANGED <<target, links, buffer, outcome, dyn_addr, dynamic_length, r_debug,
                   curr_map, dso_vec, linkmap, idx, dirent>>

phdr == The(auxv["AT_PHDR"])
NoPhdr == auxv["AT_PHNUM"] = {} \/ auxv["AT_PHDR"] = {}

\* The base address and the dynamic section, from the program headers. Every
\* PT_LOAD of offset 0 moves the base, the last PT_DYNAMIC counts.
Base(headers) ==
    FoldLeft(LAMBDA base, h : IF h.type = "PT_LOAD" /\ h.p_offset = 0 THEN base - h.p_vaddr ELSE base,
             phdr - (phdr % BaseSize), headers)
DynVaddr(headers) ==
    LET dyns == SelectSeq(headers, LAMBDA h : h.type = "PT_DYNAMIC")
    IN  IF dyns = << >> THEN 0 ELSE dyns[Len(dyns)].p_vaddr
Headers == SubSeq(target.headers, 1, The(auxv["AT_PHNUM"]))

ReadProgramHeaders ==
    /\ pc = "phdr" /\ ~NoPhdr
    /\ Copied(phdr) = "ok" /\ DynVaddr(Headers) # 0
    /\ dyn_addr' = DynVaddr(Headers) + Base(Headers)
    /\ pc' = "dynamic"
    /\ UNCHANGED <<target, links, buffer, outcome, auxv, dynamic_length, r_debug,
                   curr_map, dso_vec, linkmap, idx, dirent>>
ProgramHeadersFail ==
    /\ pc = "phdr"
    /\ IF NoPhdr THEN Leave("error")
       ELSE \/ CopyFails(phdr)
            \/ Copied(phdr) = "ok" /\ DynVaddr(Headers) = 0 /\ Leave("error")

\* One entry of the dynamic section; `dynamic` gives it by address.
ReadDyn ==
    /\ pc = "dynamic"
    /\ Copied(dyn_addr + dynamic_length) = "ok"
    /\ LET d == target.dynamic[dyn_addr + dynamic_length]
       IN  /\ r_debug' = IF d.tag = "DT_DEBUG" THEN d.val ELSE r_debug
           /\ pc' = IF d.tag = "DT_NULL" THEN "r_debug" ELSE pc
    /\ dynamic_length' = dynamic_length + 1
    /\ UNCHANGED <<target, links, buffer, outcome, auxv, dyn_addr,
                   curr_map, dso_vec, linkmap, idx, dirent>>
DynFails == pc = "dynamic" /\ CopyFails(dyn_addr + dynamic_length)

ReadRDebug ==
    /\ pc = "r_debug"
    /\ Copied(r_debug) = "ok"
    /\ curr_map' = target.r_map
    /\ pc' = "walk"
    /\ UNCHANGED <<target, links, buffer, outcome, auxv, dyn_addr, dynamic_length, r_debug,
                   dso_vec, linkmap, idx, dirent>>
RDebugFails == pc = "r_debug" /\ CopyFails(r_debug)

\* Mutant of ReadLinkMap: the map is read again and again.
ReadLinkMapAgain ==
    /\ pc = "walk" /\ curr_map # 0 /\ Len(dso_vec) < MaxDsos
    /\ Copied(curr_map) = "ok"
    /\ dso_vec' = Append(dso_vec, curr_map)
    /\ UNCHANGED <<target, links, buffer, pc, outcome, auxv, dyn_addr, dynamic_length, r_debug,
                   curr_map, linkmap, idx, dirent>>

ReadLinkMap ==
    /\ pc = "walk" /\ curr_map # 0 /\ Len(dso_vec) < MaxDsos
    /\ Copied(curr_map) = "ok"
    /\ dso_vec' = Append(dso_vec, curr_map)
    /\ curr_map' = links[curr_map]
    /\ UNCHANGED <<target, links, buffer, pc, outcome, auxv, dyn_addr, dynamic_length, r_debug,
                   linkmap, idx, dirent>>
LinkMapFails == pc = "walk" /\ curr_map # 0 /\ CopyFails(curr_map)

\* The list has ended: an array of one record per object, if there are any.
AllocLinkMap ==
    /\ pc = "walk" /\ curr_map = 0
    /\ linkmap' = IF dso_vec = << >> THEN {} ELSE {Rva(Len(buffer))}
    /\ buffer' = Reserve(buffer, Len(dso_vec))
    /\ pc' = "names"
    /\ UNCHANGED <<target, links, outcome, auxv, dyn_addr, dynamic_length, r_debug,
                   curr_map, dso_vec, idx, dirent>>

\* The name of an object: 256 bytes from l_name on, or fewer, up to the NUL.
\* Without l_name it is empty.
NameOf(map) ==
    IF target.l_name[map] = 0 THEN {""}
    ELSE IF Copied(target.l_name[map]) = "fails" THEN {} ELSE target.utf8[target.l_name[map]]

\* Mutant of WriteDso: the record refers to the string before its own.
WriteDsoBefore ==
    /\ pc = "names" /\ idx < Len(dso_vec)
    /\ \E name \in NameOf(dso_vec[idx + 1]) :
          buffer' = WriteAt(WriteAll(buffer, << <<"string", name>> >>), The(linkmap) + idx,
                            << <<"linkmap", dso_vec[idx + 1], Rva(Len(buffer) - 1)>> >>)
    /\ idx' = idx + 1
    /\ UNCHANGED <<target, links, pc, outcome, auxv, dyn_addr, dynamic_length, r_debug,
                   curr_map, dso_vec, linkmap, dirent>>

WriteDso ==
    /\ pc = "names" /\ idx < Len(dso_vec)
    /\ \E name \in NameOf(dso_vec[idx + 1]) :
          buffer' = WriteAt(WriteAll(buffer, << <<"string", name>> >>), The(linkmap) + idx,
                            << <<"linkmap", dso_vec[idx + 1], Rva(Len(buffer))>> >>)
    /\ idx' = idx + 1
    /\ UNCHANGED <<target, links, pc, outcome, auxv, dyn_addr, dynamic_length, r_debug,
                   curr_map, dso_vec, linkmap, dirent>>
DsoFails == pc = "names" /\ idx < Len(dso_vec) /\ NameOf(dso_vec[idx + 1]) = {} /\ Leave("error")

WriteDebug ==
    /\ pc = "names" /\ idx = Len(dso_vec)
    /\ buffer' = WriteAll(buffer, << <<"debug", linkmap, Len(dso_vec), dyn_addr>> >>)
    /\ dirent' = {Location(Len(buffer), 1 + dynamic_length)}
    /\ pc' = "copy"
    /\ UNCHANGED <<target, links, outcome, auxv, dyn_addr, dynamic_length, r_debug,
                   curr_map, dso_vec, linkmap, idx>>

\* The whole dynamic section in one copy, which may be shorter: process_vm_readv
\* stops where only /proc/<pid>/mem had been able to read an entry.
CopyDynamic ==
    /\ pc = "copy" /\ target.whole > 0
    /\ LET n == IF target.whole < dynamic_length THEN target.whole ELSE dynamic_length
       IN  buffer' = WriteAll(buffer, [i \in 1..n |-> <<"dyn", dyn_addr + i - 1>>])
    /\ outcome' = "ok" /\ pc' = "handles"
    /\ UNCHANGED <<target, links, auxv, dyn_addr, dynamic_length, r_debug,
                   curr_map, dso_vec, linkmap, idx, dirent>>
CopyDynamicFails == pc = "copy" /\ target.whole = 0 /\ Leave("error")

\* The linker of a target that was not stopped takes an object out of its list
\* (this matters from the first to the last link that is read).
Unlink(map) ==
    /\ ~target.stopped /\ pc = "walk" /\ links[map] # 0
    /\ links' = [links EXCEPT ![map] = links[links[map]]]
    /\ UNCHANGED <<target, buffer, pc, outcome, auxv, dyn_addr, dynamic_length, r_debug,
                   curr_map, dso_vec, linkmap, idx, dirent>>

DsoStep ==
    \/ FillAuxv \/ ReadProgramHeaders \/ ProgramHeadersFail \/ ReadDyn \/ DynFails
    \/ ReadRDebug \/ RDebugFails \/ ReadLinkMap \/ LinkMapFails \/ AllocLinkMap
    \/ WriteDso \/ DsoFails \/ WriteDebug \/ CopyDynamic \/ CopyDynamicFails

-----------------------------------------------------------------------------
(***************************************************************************)
(* Properties                                                              *)
(***************************************************************************)

\* try_filling_missing_info: what the caller knows is never replaced ("the calling
\* process should prefer to transfer this information directly"), and what it does
\* not know is what the kernel's file says first.
AuxvOrigin ==
    pc # "auxv" =>
        \A key \in Keys :
            IF target.direct[key] # 0 THEN auxv[key] = {target.direct[key]}
            ELSE \A v \in auxv[key] :
                    \E i \in DOMAIN target.auxv :
                        /\ target.auxv[i] = [key |-> key, value |-> v]
                        /\ \A j \in 1..(i - 1) : target.auxv[j].key \notin {key, "AT_NULL", "error"}

\* The stream read back: the debug record leads to as many records as it counts,
\* each of an object of the list in the order of the list, with that object's
\* name; the list is the linker's, if the target was stopped.
LinkMapReadBack(at) ==
    LET n == Len(dso_vec)
    IN  /\ buffer[at + 1] = <<"debug", linkmap, n, dyn_addr>>
        /\ \A p \in linkmap, i \in 1..n :
              /\ buffer[p + i][1] = "linkmap"
              /\ buffer[p + i][2] = dso_vec[i]
              /\ buffer[buffer[p + i][3] + 1] \in {<<"string", name>> : name \in NameOf(dso_vec[i])}
        /\ target.stopped =>
              /\ n = 0 => target.r_map = 0
              /\ n > 0 => dso_vec[1] = target.r_map /\ links[dso_vec[n]] = 0
              /\ \A i \in 1..(n - 1) : dso_vec[i + 1] = links[dso_vec[i]]

\* The entry in the directory covers the debug record and, behind it, the dynamic
\* section up to its DT_NULL. Its size is that of the section, which is more than
\* what was copied if the final copy was short.
DynamicFollows(d) ==
    LET n == d.data_size - 1
    IN  /\ pc = "handles" => d.rva + 1 + n = Len(buffer)
        /\ \A i \in 1..n :
              /\ buffer[d.rva + 1 + i] = <<"dyn", dyn_addr + i - 1>>
              /\ target.dynamic[dyn_addr + i - 1].tag = "DT_NULL" <=> i = n

\* The DSO debug stream, at any time after it was written.
DsoReadBack ==
    outcome = "ok" =>
        \A d \in dirent : LinkMapReadBack(d.rva) /\ (target.whole >= dynamic_length => DynamicFollows(d))

\* The walk has no bound of its own: the stream ends, in success or in an error,
\* unless the linker's list leads back to objects that were already copied.
StreamEnds ==
    \/ <>(pc = "handles")
    \/ <>[](pc = "walk" /\ curr_map \in Range(dso_vec) /\ links[curr_map] \in Range(dso_vec))
=============================================================================
