------------------------------ MODULE MacDump ------------------------------
(***************************************************************************)
(* mac/minidump_writer.rs and mac/streams: the dump of a mach task. Nothing*)
(* suspends the task: between the calls that read it, its threads start    *)
(* and end. The crashing thread and the handler's wait for the dump.       *)
(***************************************************************************)
EXTENDS MemWriter, MacTask, MacInfo

CONSTANTS
    Dumps,      \* what is dumped: the task, and what the writer was given
    IpMemSize,  \* 256: memory around the instruction pointer
    MaxChanges  \* bound on how many threads start or end meanwhile

VARIABLES
    dump,
    threads,    \* of the task, in the order of task_threads
    changes,
    pc, outcome,
    buffer, directory,
    active,     \* ActiveThreads of the stream being written
    list,       \* position of that stream's array
    idx,
    memory_blocks,
    noted       \* the threads that ThreadList was to have

vars == <<dump, threads, changes, pc, outcome, buffer, directory, active, list, idx, memory_blocks, noted>>

Exception == UNION {cc.exception : cc \in dump.crash_context}
\* The streams in the order of the vector; the optional one is last.
Writers ==
    <<"threads", "memory", "system", "modules", "misc", "breakpad", "names">>
        \o (IF Exception = {} THEN << >> ELSE <<"exception">>)

Init ==
    /\ dump \in Dumps
    /\ threads = dump.threads /\ changes = 0
    /\ buffer = Reserve(WriteAll(<< >>, << <<"header", Len(Writers)>> >>), Len(Writers))
    /\ pc = "threads" /\ outcome = "writing" /\ directory = << >>
    /\ active = << >> /\ list = 0 /\ idx = 0 /\ memory_blocks = << >> /\ noted = << >>

\* Mutant of Publish: the entries begin one place too early.
PublishEarly(image, location) ==
    LET n == Len(directory) + 1
    IN  /\ buffer' = WriteAt(image, n - 1, << <<"entry", pc, location>> >>)
        /\ directory' = Append(directory, [type |-> pc, location |-> location])
        /\ pc' = IF n = Len(Writers) THEN "done" ELSE Writers[n + 1]
        /\ outcome' = IF n = Len(Writers) THEN "ok" ELSE "writing"

\* dir_section.write_to_file(Some(dirent)), and the next writer. DumpFile is about
\* what it does to the destination.
Publish(image, location) ==
    LET n == Len(directory) + 1
    IN  /\ buffer' = WriteAt(image, n, << <<"entry", pc, location>> >>)
        /\ directory' = Append(directory, [type |-> pc, location |-> location])
        /\ pc' = IF n = Len(Writers) THEN "done" ELSE Writers[n + 1]
        /\ outcome' = IF n = Len(Writers) THEN "ok" ELSE "writing"
Give(how) ==
    /\ outcome' = how /\ pc' = "done"
    /\ UNCHANGED <<dump, threads, changes, buffer, directory, active, list, idx, memory_blocks, noted>>
UnchangedTask == UNCHANGED <<dump, threads, changes>>

-----------------------------------------------------------------------------
(* ThreadList and ThreadNames *)

\* task_threads may fail, which counts as no threads.
Threads == IF dump.threads_fail THEN << >> ELSE threads
Active(s) == SelectSeq(s, LAMBDA t : t # dump.handler)
\* ActiveThreads::len: one less if there is a handler (MACH_PORT_NULL is 0). Less
\* than 0 is a panic, or the allocation of 2^64 - 1 elements.
LenPanics == dump.handler # 0 /\ Threads = << >>
ActiveLen == Len(Threads) - (IF dump.handler = 0 THEN 0 ELSE 1)

OpenList ==
    /\ pc \in {"threads", "names"} /\ list = 0 /\ ~LenPanics
    /\ active' = Active(Threads)
    /\ noted' = IF pc = "threads" THEN Active(Threads) ELSE noted
    /\ buffer' = Reserve(WriteAll(buffer, << <<pc, ActiveLen>> >>), ActiveLen)
    /\ list' = Len(buffer) + 1 /\ idx' = 0
    /\ UnchangedTask /\ UNCHANGED <<pc, outcome, directory, memory_blocks>>
OpenListPanics == pc \in {"threads", "names"} /\ list = 0 /\ LenPanics /\ Give("panic")

\* read_thread_state succeeds; fill_cpu_context copies the registers.
Alive(t) == t \in Range(threads)
fill_cpu_context(t) == << <<"cpu", t>> >>

\* Addresses that no region has
deadbeef == 9001
deaddead == 9002

\* write_stack_from_start_address: the stack, or two words that say why not. The
\* code 0xdeaddead is the one of a stack that cannot be read.
StackCells(sp) ==
    LET size  == calculate_stack_size(dump.task.regions, sp)
        bytes == IF size = 0 THEN {} ELSE read_task_memory(dump.task.regions, sp, size)
        borked == IF size = 0 THEN deadbeef ELSE deaddead
    IN  IF bytes # {} THEN [start |-> sp, cells |-> The(bytes)]
        ELSE [start |-> borked, cells |-> << <<"borked", borked>>, <<"borked", borked>> >>]

\* Mutant of WriteThread: the context's position is taken before the stack's.
WriteThreadEarly ==
    /\ pc = "threads" /\ list # 0 /\ idx < Len(active) /\ Alive(active[idx + 1])
    /\ LET tid   == active[idx + 1]
           stack == StackCells(dump.sp[tid])
           block == [start |-> stack.start, memory |-> Location(Len(buffer), Len(stack.cells))]
           image == WriteAll(WriteAll(buffer, stack.cells), fill_cpu_context(tid))
       IN  /\ buffer' = WriteAt(image, list + idx, << <<"thread", tid, block, Location(Len(buffer), 1)>> >>)
           /\ memory_blocks' = Append(memory_blocks, block)
    /\ idx' = idx + 1
    /\ UnchangedTask /\ UNCHANGED <<pc, outcome, directory, active, list, noted>>

WriteThread ==
    /\ pc = "threads" /\ list # 0 /\ idx < Len(active) /\ Alive(active[idx + 1])
    /\ LET tid   == active[idx + 1]
           stack == StackCells(dump.sp[tid])
           block == [start |-> stack.start, memory |-> Location(Len(buffer), Len(stack.cells))]
           image == WriteAll(buffer, stack.cells)
           full  == WriteAll(image, fill_cpu_context(tid))
       IN  /\ buffer' = WriteAt(full, list + idx, << <<"thread", tid, block, Location(Len(image), 1)>> >>)
           /\ memory_blocks' = Append(memory_blocks, block)
    /\ idx' = idx + 1
    /\ UnchangedTask /\ UNCHANGED <<pc, outcome, directory, active, list, noted>>
\* thread_get_state fails for a thread that has ended, and with it the dump.
ThreadGone ==
    pc = "threads" /\ list # 0 /\ idx < Len(active) /\ ~Alive(active[idx + 1]) /\ Give("error")


\* write_thread_names: the name of a thread that has ended is empty.
WriteThreadName ==
    /\ pc = "names" /\ list # 0 /\ idx < Len(active)
    /\ LET tid  == active[idx + 1]
           name == IF Alive(tid) THEN dump.names[tid] ELSE ""
       IN  buffer' = WriteAt(WriteAll(buffer, << <<"string", name>> >>), list + idx,
                             << <<"name", tid, Rva(Len(buffer))>> >>)
    /\ idx' = idx + 1
    /\ UnchangedTask /\ UNCHANGED <<pc, outcome, directory, active, list, memory_blocks, noted>>

\* The location has as many elements as the array was made for.
CloseList ==
    /\ pc \in {"threads", "names"} /\ list # 0 /\ idx = Len(active)
    /\ Publish(buffer, Location(list - 1, 1 + buffer[list][2]))
    /\ list' = 0
    /\ UnchangedTask /\ UNCHANGED <<active, idx, memory_blocks, noted>>

-----------------------------------------------------------------------------
(* MemoryList *)

\* get_ip_block: none without the thread's state or a region around the address
ip_block(cc) ==
    IF ~Alive(cc.thread) THEN {}
    ELSE LET ip == dump.ip[cc.thread]
         IN  {[start |-> IF r.start + IpMemSize \div 2 < ip THEN ip - IpMemSize \div 2 ELSE r.start,
               end   |-> IF ip + IpMemSize \div 2 < r.end THEN ip + IpMemSize \div 2 ELSE r.end] :
                 r \in {r \in get_vm_region(dump.task.regions, ip) : r.start <= ip /\ ip <= r.end}}
IpBlock == IF Exception = {} THEN {} ELSE ip_block(The(dump.crash_context))
IpMemory == UNION {read_task_memory(dump.task.regions, b.start, b.end - b.start) : b \in IpBlock}

WriteMemoryList ==
    /\ pc = "memory" /\ (IpBlock = {} \/ IpMemory # {})
    /\ LET cells  == IF IpMemory = {} THEN << >> ELSE The(IpMemory)
           image  == WriteAll(buffer, cells)
           blocks == memory_blocks \o
                     (IF IpBlock = {} THEN << >>
                      ELSE <<[start |-> The(IpBlock).start, memory |-> Location(Len(buffer), Len(cells))]>>)
       IN  /\ memory_blocks' = blocks
           /\ Publish(WriteAll(image, << <<"memory", Len(blocks)>> >> \o blocks),
                      Location(Len(image), 1 + Len(blocks)))
    /\ UnchangedTask /\ UNCHANGED <<active, list, idx, noted>>
\* An instruction pointer in memory that cannot be read ends the dump.
MemoryListFails == pc = "memory" /\ IpBlock # {} /\ IpMemory = {} /\ Give("error")

-----------------------------------------------------------------------------
(* ModuleList *)

\* write_module: the path, then the record with the id and the file's name
ModuleName(path) == IF path = << >> THEN "<Unknown>" ELSE Last(path)
write_module(image, d) ==
    LET path == The(OrElse(d.file_path, {<< >>}))
    IN  [image |-> WriteAll(image, << <<"string", path>>, <<"cv", d.uuid>>, <<"cvname", ModuleName(path)>> >>),
         module |-> [base |-> d.base, size |-> d.size, name |-> Rva(Len(image)),
                     version |-> {[hi |-> v[1], lo |-> <<v[2], v[3]>>] : v \in d.version},
                     cv |-> Location(Len(image) + 1, 2)]]

\* Mutant of AddImage: the main executable keeps its place.
AddImageInOrder(acc, image) ==
    LET details == read_image(dump.task, image)
    IN  IF details = {} THEN acc
        ELSE LET w == write_module(acc.image, The(details))
             IN  [image |-> w.image, modules |-> Append(acc.modules, w.module)]

\* An image without a version is taken for the main executable and goes first.
AddImage(acc, image) ==
    LET details == read_image(dump.task, image)
    IN  IF details = {} THEN acc
        ELSE LET w == write_module(acc.image, The(details))
             IN  [image |-> w.image,
                  modules |-> IF The(details).version = {} THEN <<w.module>> \o acc.modules
                              ELSE Append(acc.modules, w.module)]

\* write_loaded_modules; without a main executable there are no modules, though
\* what was written for them stays.
write_loaded_modules(image) ==
    LET read == FoldLeft(AddImage, [image |-> image, modules |-> << >>], SortedImages(dump.task.images))
        dyld == read_dyld(dump.task)
    IN  IF dump.images_fail THEN [image |-> image, modules |-> << >>]
        ELSE IF read.modules = << >> \/ read.modules[1].version # {} THEN [read EXCEPT !.modules = << >>]
        ELSE IF dyld = {} THEN read
        ELSE LET w == write_module(read.image, The(dyld))
             IN  [image |-> w.image, modules |-> Append(read.modules, w.module)]

\* Mutant of WriteModuleList: the size is that of dyld's list.
WriteModuleListSize ==
    /\ pc = "modules"
    /\ LET w == write_loaded_modules(buffer)
       IN  Publish(WriteAll(w.image, << <<"modules", Len(w.modules)>> >> \o w.modules),
                   Location(Len(w.image), 1 + Len(dump.task.images)))
    /\ UnchangedTask /\ UNCHANGED <<active, list, idx, memory_blocks, noted>>

WriteModuleList ==
    /\ pc = "modules"
    /\ LET w == write_loaded_modules(buffer)
       IN  Publish(WriteAll(w.image, << <<"modules", Len(w.modules)>> >> \o w.modules),
                   Location(Len(w.image), 1 + Len(w.modules)))
    /\ UnchangedTask /\ UNCHANGED <<active, list, idx, memory_blocks, noted>>

-----------------------------------------------------------------------------
(* SystemInfo, MiscInfo, BreakpadInfo and Exception *)

\* The record's slot, the string of the build, then the record
WriteSystemInfo ==
    /\ pc = "system"
    /\ Publish(WriteAt(WriteAll(Reserve(buffer, 1), << <<"string", "build">> >>), Len(buffer),
                       << <<"system", SystemInfo(dump.sys), Rva(Len(buffer) + 1)>> >>),
               Location(Len(buffer), 1))
    /\ UnchangedTask /\ UNCHANGED <<active, list, idx, memory_blocks, noted>>

WriteMiscInfo ==
    /\ pc = "misc" /\ ~dump.pid_fails
    /\ Publish(WriteAt(Reserve(buffer, 1), Len(buffer),
                       << <<"misc", ProcessTime(dump.ended, dump.living)>> >>),
               Location(Len(buffer), 1))
    /\ UnchangedTask /\ UNCHANGED <<active, list, idx, memory_blocks, noted>>
MiscInfoFails == pc = "misc" /\ dump.pid_fails /\ Give("error")

WriteBreakpadInfo ==
    /\ pc = "breakpad"
    /\ Publish(WriteAll(buffer, << <<"breakpad", dump.handler,
                                     The(OrElse({cc.thread : cc \in dump.crash_context}, {0}))>> >>),
               Location(Len(buffer), 1))
    /\ UnchangedTask /\ UNCHANGED <<active, list, idx, memory_blocks, noted>>

WriteException ==
    /\ pc = "exception"
    /\ LET tid     == The(dump.crash_context).thread
           context == IF Alive(tid) THEN fill_cpu_context(tid) ELSE << >>
           ip      == IF Alive(tid) THEN {dump.ip[tid]} ELSE {}
           image   == WriteAll(buffer, context)
       IN  Publish(WriteAll(image, << <<"exception", tid, exception_record(The(Exception), ip),
                                        Location(Len(buffer), Len(context))>> >>),
                   Location(Len(image), 1))
    /\ UnchangedTask /\ UNCHANGED <<active, list, idx, memory_blocks, noted>>

-----------------------------------------------------------------------------
(* The task *)

Waiting == {dump.handler} \cup {cc.thread : cc \in dump.crash_context}
ThreadEnds(t) ==
    /\ pc # "done" /\ changes < MaxChanges /\ t \in Range(threads) \ Waiting
    /\ threads' = SelectSeq(threads, LAMBDA o : o # t)
    /\ changes' = changes + 1
    /\ UNCHANGED <<dump, pc, outcome, buffer, directory, active, list, idx, memory_blocks, noted>>
ThreadStarts(t) ==
    /\ pc # "done" /\ changes < MaxChanges /\ t \notin Range(threads) /\ t # dump.handler
    /\ threads' = Append(threads, t)
    /\ changes' = changes + 1
    /\ UNCHANGED <<dump, pc, outcome, buffer, directory, active, list, idx, memory_blocks, noted>>

Next ==
    \/ OpenList \/ OpenListPanics \/ WriteThread \/ ThreadGone \/ WriteThreadName \/ CloseList
    \/ WriteMemoryList \/ MemoryListFails \/ WriteModuleList \/ WriteSystemInfo
    \/ WriteMiscInfo \/ MiscInfoFails \/ WriteBreakpadInfo \/ WriteException
    \/ \E t \in DOMAIN dump.sp : ThreadEnds(t) \/ ThreadStarts(t)

Spec == Init /\ [][Next]_vars

-----------------------------------------------------------------------------
(***************************************************************************)
(* Properties                                                              *)
(***************************************************************************)

\* The stream of a type in the directory, as the cells it consists of
At(type) == {d.location : d \in {d \in Range(directory) : d.type = type}}
Cell(i) == buffer[i + 1]
Slice(location) == SubSeq(buffer, location.rva + 1, location.rva + location.data_size)

TypeOK ==
    /\ outcome \in {"writing", "ok", "error", "panic"}
    /\ pc \in Range(Writers) \cup {"done"} /\ (pc = "done" <=> outcome # "writing")
    /\ list <= Len(buffer) /\ idx <= Len(active)
    /\ \A d \in Range(directory) : d.location.rva + d.location.data_size <= Len(buffer)

\* ActiveThreads::len is right if the handler is one of the task's threads, or none.
HandlerKnown == dump.handler = 0 \/ dump.handler \in Range(dump.threads)

\* The thread list read back at any later time: its count, one record for each
\* thread of the task but the handler's, in order, each with its own context and
\* its own stack.
ThreadsReadBack ==
    HandlerKnown =>
        \A l \in At("threads") :
            /\ Cell(l.rva) = <<"threads", Len(noted)>> /\ l.data_size = 1 + Len(noted)
            /\ \A i \in DOMAIN noted :
                  LET r == Cell(l.rva + i)
                  IN  /\ r[1] = "thread" /\ r[2] = noted[i]
                      /\ Slice(r[4]) = << <<"cpu", noted[i]>> >>
                      /\ r[3].start \in {dump.sp[noted[i]], deadbeef, deaddead}


\* The module list: every image that can be read once, the main executable first if
\* it is the only one without a version, the others by address, dyld last; each
\* module has the name and the id of the image loaded at its address. There are no
\* modules only if no image is without a version.
ModulesReadBack ==
    \A l \in At("modules") :
        LET m      == Tail(Slice(l))
            n      == Len(m)
            dyld   == read_dyld(dump.task)
            last   == n - Cardinality(dyld)
            first(a) == dump.task.images[CHOOSE i \in DOMAIN dump.task.images :
                            /\ dump.task.images[i].load_address = a
                            /\ \A j \in 1..(i - 1) : dump.task.images[j].load_address # a]
            images == {im \in Range(dump.task.images) :
                          im = first(im.load_address) /\ read_image(dump.task, im) # {}}
            plain  == {im \in images : The(read_image(dump.task, im)).version = {}}
        IN  /\ Cell(l.rva) = <<"modules", n>>
            /\ n = 0 <=> plain = {} \/ dump.images_fail
            /\ n > 0 =>
                  /\ {m[i].base : i \in 1..last} = {im.load_address : im \in images}
                  /\ last = Cardinality(images)
                  /\ m[1].version = {}
                  /\ \A i \in 2..last : m[i].version # {} /\ m[i - 1].version # {} => m[i - 1].base < m[i].base
                  /\ \A d \in dyld : m[n].base = d.base /\ Cell(m[n].cv.rva) = <<"cv", d.uuid>>
                  /\ \A i \in 1..last : LET d == The(read_image(dump.task, first(m[i].base)))
                                        IN  /\ Cell(m[i].cv.rva) = <<"cv", d.uuid>>
                                            /\ Cell(m[i].name) = <<"string", The(OrElse(d.file_path, {<< >>}))>>

\* The thread names: a record for each thread that the task has when they are
\* written; those of the thread list if no thread has started or ended.
NamesReadBack ==
    HandlerKnown =>
        \A l \in At("names") :
            LET n == l.data_size - 1
                ids == [i \in 1..n |-> Cell(l.rva + i)[2]]
            IN  /\ Cell(l.rva) = <<"names", n>>
                /\ \A i \in 1..n : Cell(Cell(l.rva + i)[3]) \in {<<"string", dump.names[ids[i]]>>, <<"string", "">>}
                /\ changes = 0 => ids = noted /\ \A i \in 1..n :
                                     Cell(Cell(l.rva + i)[3]) = <<"string", dump.names[ids[i]]>>

\* The directory grows in the order of the writers, and no two streams overlap.
StreamsApart ==
    /\ \A i \in DOMAIN directory :
          directory[i].type = Writers[i] /\ Cell(i) = <<"entry", Writers[i], directory[i].location>>
    /\ \A i, j \in DOMAIN directory :
          i < j => directory[i].location.rva + directory[i].location.data_size <= directory[j].location.rva

\* The process times of the misc info: no microsecond of the ended or of the living
\* threads is lost before the sum is cut to seconds.
TimesExact ==
    \A l \in At("misc") :
        LET micros(time) == The(OrElse({tv.seconds * Second + tv.microseconds : tv \in time}, {0}))
        IN  Cell(l.rva)[2] = (micros(dump.ended) + micros(dump.living)) \div Second
=============================================================================
