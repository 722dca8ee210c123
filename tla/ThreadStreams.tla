--------------------------- MODULE ThreadStreams ---------------------------
(***************************************************************************)
(* The streams of a Linux dump that describe threads and their memory:     *)
(* thread list, app memory, memory list, exception, thread names, in the   *)
(* order of write_dump. They share MinidumpWriter::memory_blocks and       *)
(* crashing_thread_context and refer to each other by positions in the     *)
(* image. The streams between them only append to the image.               *)
(*                                                                         *)
(* A cell of the image is a machine word of target memory, a record or a   *)
(* string.                                                                 *)
(***************************************************************************)
EXTENDS MemWriter, StackInfo, FiniteSets

CONSTANTS
    Targets,    \* what may be dumped, and with which configuration
    AVERAGE_STACK,      \* LIMIT_AVERAGE_THREAD_STACK_LENGTH
    BASE_THREADS,       \* LIMIT_BASE_THREAD_COUNT
    MAX_EXTRA_STACK,    \* LIMIT_MAX_EXTRA_THREAD_STACK_LEN
    FUDGE,              \* LIMIT_MINIDUMP_FUDGE_FACTOR
    IP_MEMORY           \* half of ip_memory_size

\* A thread as the writer sees it; the crash context overrides ip and sp. `refs`:
\* where the stacks point into the principal mapping; `vmem`: process_vm_readv
\* is available.
Thread == [tid : Nat \ {0}, named : BOOLEAN, ip : Address, sp : Address]
Region == [ptr : Address, len : Nat]
Target ==
    [threads : Seq(Thread), blamed : Nat, crash : SUBSET [ip : Address, sp : Address],
     mappings : Seq(MappingInfo), limit : SUBSET Nat, app : Seq(Region), sanitize : BOOLEAN,
     skip : BOOLEAN, principal : SUBSET [low : Address, high : Nat], refs : SUBSET Address,
     vmem : BOOLEAN]

ASSUME TargetsAssumption == \A t \in Targets : t \in Target
ASSUME LimitAssumption ==
    {AVERAGE_STACK, BASE_THREADS, MAX_EXTRA_STACK, FUDGE, IP_MEMORY} \subseteq Nat

VARIABLES
    target,     \* the dumped process and MinidumpWriterConfig; never changes
    buffer,     \* the in-memory image
    pc,         \* the stream being written
    idx,        \* how many threads, regions or names of it are done
    list,       \* position of the array of the stream being written
    extra,      \* extra_thread_stack_len
    blocks,     \* MinidumpWriter::memory_blocks
    crashing,   \* MinidumpWriter::crashing_thread_context
    dir,        \* the directory entries made so far
    result

vars == <<target, buffer, pc, idx, list, extra, blocks, crashing, dir, result>>

\* What the image is made of
Num(n) == <<"num", n>>
Mem(a) == <<"mem", a>>
Clean(a) == <<"clean", a>>
Context(tid, from) == <<"context", tid, from>>
ThreadCell(tid, stack, context) == <<"thread", tid, stack, context>>
ExceptionCell(tid, address, context) == <<"exception", tid, address, context>>
BlockCell(block) == <<"block", block>>
NameCell(tid, rva) == <<"name", tid, rva>>
String(tid) == <<"string", tid>>

Empty == [rva |-> 0, data_size |-> 0]
Fault == <<"fault">>     \* the crash context's ssi_addr
NoAddress == <<"null">>
Descriptor(ptr, location) == [ptr |-> ptr, rva |-> location.rva, data_size |-> location.data_size]

Init ==
    /\ target \in Targets
    /\ buffer = << >> /\ pc = "threads" /\ idx = 0 /\ list = 0
    /\ extra = {} /\ blocks = << >> /\ crashing = {}
    /\ dir = << >> /\ result = "none"

Running(p) == pc = p /\ result = "none"
n_threads == Len(target.threads)

-----------------------------------------------------------------------------
(***************************************************************************)
(* write_thread_list_stream                                                *)
(***************************************************************************)
\* Mutant of ThreadListHeader: the directory entry counts one record too many.
ThreadListHeaderLong ==
    /\ Running("threads") /\ list = 0
    /\ buffer' = Reserve(WriteAll(buffer, <<Num(n_threads)>>), n_threads)
    /\ dir' = Append(dir, Location(Len(buffer), 2 + n_threads))
    /\ list' = Rva(Len(buffer) + 1)
    /\ extra' = {}
    /\ UNCHANGED <<target, pc, idx, blocks, crashing, result>>

ThreadListHeader ==
    /\ Running("threads") /\ list = 0
    /\ buffer' = Reserve(WriteAll(buffer, <<Num(n_threads)>>), n_threads)
    /\ dir' = Append(dir, Location(Len(buffer), 1 + n_threads))
    /\ list' = Rva(Len(buffer) + 1)
    /\ extra' = IF \E limit \in target.limit :
                      Len(buffer') + n_threads * AVERAGE_STACK + FUDGE > limit
                THEN {MAX_EXTRA_STACK} ELSE {}
    /\ UNCHANGED <<target, pc, idx, blocks, crashing, result>>

\* What the kernel lets the writer read: process_vm_readv, where the target has
\* the right of access, up to the first page where it has not; /proc/<pid>/mem
\* and ptrace, whatever is mapped, ranges without any right included.
Readable(a) ==
    \E i \in 1..Len(target.mappings) :
        Accessible(target.mappings[i]) /\ contains_address(target.mappings[i], a)
Mapped(a) ==
    \E i \in 1..Len(target.mappings) :
        LET m == target.mappings[i] IN m.sys_start <= a /\ a < m.start + m.size

\* copy_from_process: a new MemReader for every copy. If process_vm_readv can be
\* used and reads anything, read_to_vec keeps that much; otherwise the file or
\* ptrace reads all of it or nothing. Nothing read is an error.
ReadLen(region) ==
    LET offsets == 0..(region.len - 1)
        prefix == Cardinality({n \in offsets : \A k \in 0..n : Readable(region.ptr + k)})
    IN  IF target.vmem /\ prefix > 0 THEN prefix
        ELSE IF \A n \in offsets : Mapped(region.ptr + n) THEN region.len ELSE 0
Read(region) == [region EXCEPT !.len = ReadLen(region)]
Copy(region) == [i \in 1..ReadLen(region) |-> Mem(region.ptr + i - 1)]

\* Mutant of Sanitize: the words below the stack pointer are left as they are.
SanitizeFromSp(cells, sp_offset) ==
    [i \in 1..Len(cells) |-> IF i <= sp_offset THEN cells[i] ELSE Clean(cells[i][2])]

\* What sanitize_stack_copy leaves of a copy: nothing below the stack pointer,
\* and above it only words that are harmless or have been overwritten.
Sanitize(cells, sp_offset) ==
    [i \in 1..Len(cells) |-> IF i <= sp_offset THEN Zero ELSE Clean(cells[i][2])]

SpOffset(sp, ptr) == IF sp > ptr THEN sp - ptr ELSE 0   \* saturating_sub

\* skip_stacks_if_mapping_unreferenced
Unreferenced(ip, sp, s) ==
    \A p \in target.principal :
        /\ ip < p.low \/ ip > p.high
        /\ \A a \in target.refs : ~(s.ptr + SpOffset(sp, s.ptr) <= a /\ a < s.ptr + s.len)

\* The part of the stack fill_thread_stack copies, if it finds one, and what it
\* keeps of the copy
Limited(s, max) == IF \E m \in max : m < s.len THEN [s EXCEPT !.len = The(max)] ELSE s
StackOf(sp, max) == {Limited(s, max) : s \in get_stack_info(target.mappings, sp)}
Kept(ip, sp, max) ==
    {s \in {Read(r) : r \in StackOf(sp, max)} : ~(target.skip /\ Unreferenced(ip, sp, s))}

StackCells(sp, s) == IF target.sanitize THEN Sanitize(Copy(s), SpOffset(sp, s.ptr)) ELSE Copy(s)

\* 128 bytes on each side of the crashing instruction, within its mapping (which
\* is not in the lowest 128 bytes of memory)
IpMemory(ip) ==
    {LET low == IF m.start + IP_MEMORY > ip THEN m.start ELSE ip - IP_MEMORY
         high == IF m.start + m.size < ip + IP_MEMORY THEN m.start + m.size ELSE ip + IP_MEMORY
     IN  [ptr |-> low, len |-> high - low] : m \in find_mapping(target.mappings, ip)}

\* Where the thread at idx has its registers from, and how much of its stack is
\* wanted
Current == target.threads[idx + 1]
Crashed == target.crash # {} /\ Current.tid = target.blamed
Regs == IF Crashed THEN The(target.crash) ELSE [ip |-> Current.ip, sp |-> Current.sp]
MaxStack == IF ~Crashed /\ target.limit # {} /\ idx >= BASE_THREADS THEN extra ELSE {}

\* Zeroing the words below the stack pointer indexes past the end of the copy.
OutOfBounds ==
    target.sanitize /\ \E s \in Kept(Regs.ip, Regs.sp, MaxStack) : SpOffset(Regs.sp, s.ptr) > s.len

OnThread == Running("threads") /\ list # 0 /\ idx < n_threads

\* get_stack_info returns and the copies of the thread's memory succeed.
NearIp == IF Crashed THEN IpMemory(Regs.ip) ELSE {}
StackReadable ==
    LoopEnds(target.mappings, Regs.sp) /\ \A s \in StackOf(Regs.sp, MaxStack) : ReadLen(s) > 0

\* One turn of the loop: the stack, for the crashed thread the memory around its
\* instruction, the registers, then the thread's record in its slot.
WriteThread ==
    LET sp == Regs.sp
        stack == Kept(Regs.ip, sp, MaxStack)
        stack_cells == IF stack = {} THEN << >> ELSE StackCells(sp, The(stack))
        ip_cells == IF NearIp = {} THEN << >> ELSE Copy(The(NearIp))
        at == Len(buffer)
        ip_at == at + Len(stack_cells)
        context == Location(ip_at + Len(ip_cells), 1)
        descriptor == Descriptor(IF stack = {} THEN sp ELSE The(stack).ptr,
                                 Location(at, Len(stack_cells)))
        registers == Context(Current.tid, IF Crashed THEN "crash" ELSE "ptrace")
    IN  /\ OnThread /\ StackReadable /\ ~OutOfBounds
        /\ \A m \in NearIp : ReadLen(m) > 0
        /\ buffer' = WriteAt(WriteAll(buffer, stack_cells \o ip_cells \o <<registers>>),
                             list + idx, <<ThreadCell(Current.tid, descriptor, context)>>)
        /\ blocks' = blocks
              \o (IF stack = {} THEN << >> ELSE <<descriptor>>)
              \o (IF NearIp = {} THEN << >>
                  ELSE <<Descriptor(The(NearIp).ptr, Location(ip_at, Len(ip_cells)))>>)
        /\ crashing' = IF Crashed THEN {[context |-> context, address |-> NoAddress]}
                       ELSE IF Current.tid = target.blamed
                            THEN {[context |-> context, address |-> <<"ip", Regs.ip>>]}
                            ELSE crashing
        /\ idx' = idx + 1
        /\ UNCHANGED <<target, pc, list, extra, dir, result>>

\* The thread is gone or its memory cannot be read: the dump fails. The crashed
\* thread's stack is looked for before anything can fail.
ThreadFails ==
    /\ OnThread
    /\ Crashed => LoopEnds(target.mappings, Regs.sp)
    /\ result' = "err"
    /\ UNCHANGED <<target, buffer, pc, idx, list, extra, blocks, crashing, dir>>

ThreadPanics ==
    /\ OnThread /\ StackReadable /\ OutOfBounds
    /\ result' = "panic"
    /\ UNCHANGED <<target, buffer, pc, idx, list, extra, blocks, crashing, dir>>

\* Mutant of ThreadListDone: the stream leaves no context behind for the others.
ThreadListDoneReset ==
    /\ Running("threads") /\ list # 0 /\ idx = n_threads
    /\ pc' = "app" /\ idx' = 0 /\ crashing' = {}
    /\ UNCHANGED <<target, buffer, list, extra, blocks, dir, result>>

ThreadListDone ==
    /\ Running("threads") /\ list # 0 /\ idx = n_threads
    /\ pc' = "app" /\ idx' = 0
    /\ UNCHANGED <<target, buffer, list, extra, blocks, crashing, dir, result>>

-----------------------------------------------------------------------------
(***************************************************************************)
(* write_app_memory, write_memory_list_stream, write_exception_stream,     *)
(* write_thread_names_stream                                               *)
(***************************************************************************)
WriteAppMemory ==
    /\ Running("app") /\ idx < Len(target.app)
    /\ LET region == target.app[idx + 1]
       IN  /\ ReadLen(region) > 0
           /\ buffer' = WriteAll(buffer, Copy(region))
           /\ blocks' = Append(blocks, Descriptor(region.ptr,
                                                  Location(Len(buffer), ReadLen(region))))
    /\ idx' = idx + 1
    /\ UNCHANGED <<target, pc, list, extra, crashing, dir, result>>

AppMemoryFails ==
    /\ Running("app") /\ idx < Len(target.app)
    /\ result' = "err"
    /\ UNCHANGED <<target, buffer, pc, idx, list, extra, blocks, crashing, dir>>

\* Mutant of MemoryList: the list is written before the application's regions.
MemoryListEarly ==
    /\ Running("app") /\ idx = 0
    /\ buffer' = WriteAll(buffer, <<Num(Len(blocks))>>
                                    \o [i \in 1..Len(blocks) |-> BlockCell(blocks[i])])
    /\ dir' = Append(dir, Location(Len(buffer), 1 + Len(blocks)))
    /\ pc' = "exception" /\ idx' = 0
    /\ UNCHANGED <<target, list, extra, blocks, crashing, result>>

MemoryList ==
    /\ Running("app") /\ idx = Len(target.app)
    /\ buffer' = WriteAll(buffer, <<Num(Len(blocks))>>
                                    \o [i \in 1..Len(blocks) |-> BlockCell(blocks[i])])
    /\ dir' = Append(dir, Location(Len(buffer), 1 + Len(blocks)))
    /\ pc' = "exception" /\ idx' = 0
    /\ UNCHANGED <<target, list, extra, blocks, crashing, result>>

Exception ==
    /\ Running("exception")
    /\ LET address == IF target.crash # {} THEN Fault
                      ELSE IF crashing # {} THEN The(crashing).address ELSE NoAddress
           context == IF crashing = {} THEN Empty ELSE The(crashing).context
       IN  buffer' = WriteAll(buffer, <<ExceptionCell(target.blamed, address, context)>>)
    /\ dir' = Append(dir, Location(Len(buffer), 1))
    /\ pc' = "names" /\ list' = 0
    /\ UNCHANGED <<target, idx, extra, blocks, crashing, result>>

Named == {i \in 1..n_threads : target.threads[i].named}
ThreadNamesHeader ==
    /\ Running("names") /\ list = 0
    /\ LET n == Cardinality(Named)
       IN  /\ buffer' = Reserve(WriteAll(buffer, <<Num(n)>>), n)
           /\ dir' = Append(dir, Location(Len(buffer), 1 + n))
    /\ list' = Rva(Len(buffer) + 1)
    /\ UNCHANGED <<target, pc, idx, extra, blocks, crashing, result>>

\* A string is its length and its letters, each as large as a record. The record
\* goes to the slot with the thread's index among all threads.
SlotInBuffer == Current.named => list + idx <= Len(buffer) + 2
WriteThreadName ==
    /\ Running("names") /\ list # 0 /\ idx < n_threads /\ SlotInBuffer
    /\ buffer' = IF Current.named
                 THEN WriteAt(WriteAll(buffer, <<Num(1), String(Current.tid)>>),
                              list + idx, <<NameCell(Current.tid, Rva(Len(buffer)))>>)
                 ELSE buffer
    /\ idx' = idx + 1
    /\ UNCHANGED <<target, pc, list, extra, blocks, crashing, dir, result>>

\* write_at of an offset past the end: `len - offset` overflows, or the slice
\* does not exist.
ThreadNamePanics ==
    /\ Running("names") /\ list # 0 /\ idx < n_threads /\ ~SlotInBuffer
    /\ result' = "panic"
    /\ UNCHANGED <<target, buffer, pc, idx, list, extra, blocks, crashing, dir>>

ThreadNamesDone ==
    /\ Running("names") /\ list # 0 /\ idx = n_threads
    /\ pc' = "done" /\ result' = "ok"
    /\ UNCHANGED <<target, buffer, idx, list, extra, blocks, crashing, dir>>

Next ==
    \/ ThreadListHeader \/ WriteThread \/ ThreadFails \/ ThreadPanics \/ ThreadListDone
    \/ WriteAppMemory \/ AppMemoryFails \/ MemoryList \/ Exception
    \/ ThreadNamesHeader \/ WriteThreadName \/ ThreadNamePanics \/ ThreadNamesDone

Spec == Init /\ [][Next]_vars

-----------------------------------------------------------------------------
(***************************************************************************)
(* Properties: what a reader of the image finds.                           *)
(***************************************************************************)
TypeOK ==
    /\ pc \in {"threads", "app", "exception", "names", "done"}
    /\ idx \in 0..(n_threads + Len(target.app)) /\ list \in 0..Len(buffer)
    /\ extra \subseteq {MAX_EXTRA_STACK}
    /\ \A i \in 1..Len(blocks) : blocks[i].rva + blocks[i].data_size <= Len(buffer)
    /\ \A i \in 1..Len(dir) : dir[i].rva + dir[i].data_size <= Len(buffer)
    /\ result \in {"none", "ok", "err", "panic"}

ThreadListed == pc # "threads"
MemoryListed == pc \in {"exception", "names", "done"}
ThreadRecord(i) == buffer[dir[1].rva + 1 + i]
StackDescriptor(i) == ThreadRecord(i)[3]
IsCrashed(i) == target.crash # {} /\ target.threads[i].tid = target.blamed
SpOf(i) == IF IsCrashed(i) THEN The(target.crash).sp ELSE target.threads[i].sp

\* write_thread_list_stream: from when the list is written to the end of the dump
\* it describes the threads in order, each with its own registers and, word for
\* word, the memory its stack descriptor names: as it was, or, sanitized, empty
\* below the stack pointer and without a raw word above it. No later stream
\* overwrites any of it.
Word(a, sp) == IF ~target.sanitize THEN Mem(a) ELSE IF a < sp THEN Zero ELSE Clean(a)
StacksReadBack ==
    ThreadListed =>
        /\ buffer[dir[1].rva + 1] = Num(n_threads)
        /\ \A i \in 1..n_threads :
              /\ ThreadRecord(i)[1] = "thread" /\ ThreadRecord(i)[2] = target.threads[i].tid
              /\ buffer[ThreadRecord(i)[4].rva + 1] =
                    Context(target.threads[i].tid, IF IsCrashed(i) THEN "crash" ELSE "ptrace")
              /\ LET d == StackDescriptor(i)
                 IN  \A j \in 1..d.data_size : buffer[d.rva + j] = Word(d.ptr + j - 1, SpOf(i))

\* memory_blocks, filled by two streams and written by a third: the memory list
\* has every stack of the thread list and every region the application asked
\* for, as far as it could be read, and each of its descriptors points to the words of that memory.
MemoryListComplete ==
    MemoryListed =>
        LET n == buffer[dir[2].rva + 1][2]
            listed == {buffer[dir[2].rva + 1 + i][2] : i \in 1..n}
        IN  /\ \A i \in 1..n_threads :
                  StackDescriptor(i).data_size > 0 => StackDescriptor(i) \in listed
            /\ \A k \in 1..Len(target.app) :
                  \E d \in listed : d.ptr = target.app[k].ptr /\ d.data_size = ReadLen(target.app[k])
            /\ \A d \in listed : \A j \in 1..d.data_size :
                  LET a == d.ptr + j - 1 IN buffer[d.rva + j] \in {Mem(a), Clean(a), Zero}

\* crashing_thread_context, set by one stream and used by another: the exception
\* stream names the blamed thread and refers to the very registers its thread
\* record refers to, or to none if that thread is not in the list.
BlamedContext ==
    pc \in {"names", "done"} =>
        LET e == buffer[dir[3].rva + 1]
            blamed == {i \in 1..n_threads : target.threads[i].tid = target.blamed}
        IN  /\ e[1] = "exception" /\ e[2] = target.blamed
            /\ IF blamed = {} THEN e[4] = Empty
               ELSE \E i \in blamed : e[4] = ThreadRecord(i)[4]

\* get_stack_info and fill_thread_stack: a stack that was not limited or left out
\* contains the word the stack pointer points to, whenever that is in memory the
\* kernel mapped and that may be a stack.
StackHoldsSp ==
    ThreadListed /\ extra = {} => \A i \in 1..n_threads :
        LET d == StackDescriptor(i) sp == SpOf(i)
        IN  d.data_size > 0
              /\ (\E m \in find_mapping(target.mappings, sp) : Accessible(m) /\ contains_address(m, sp))
            => d.ptr <= sp /\ sp < d.ptr + d.data_size

\* write_thread_names_stream "Only count threads that have a name", "Memory looks
\* like this: <num_threads><thread_1><thread_2>...": the list has the name of
\* every thread that has one.
NamesReadBack ==
    pc = "done" => \A i \in Named :
        \E j \in 1..Cardinality(Named) :
            LET r == buffer[dir[4].rva + 1 + j]
            IN  /\ r[1] = "name" /\ r[2] = target.threads[i].tid
                /\ SubSeq(buffer, r[3] + 1, r[3] + 2) = <<Num(1), String(target.threads[i].tid)>>

\* sanitize_stack_copy "Zero memory that is below the current stack pointer": it
\* does so for every stack it is given.
SanitizeInBounds == result # "panic"
=============================================================================
