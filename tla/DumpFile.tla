------------------------------ MODULE DumpFile ------------------------------
(***************************************************************************)
(* MinidumpWriter::write_dump and DirSection: how the streams of a dump    *)
(* reach the in-memory image and the destination file.                     *)
(*                                                                         *)
(* A stream is written to the image first. write_to_file then stores its   *)
(* directory entry in the image and in the file, and appends to the file   *)
(* what the image has gained. Every operation on the destination may fail, *)
(* and a write may fail half-way; write_dump returns at once. A process    *)
(* killed while writing leaves the file as it is in that state, so an      *)
(* invariant about the file also says what a crash leaves behind.          *)
(***************************************************************************)
EXTENDS MemWriter, FiniteSets

CONSTANTS
    Android,    \* target_os = "android"
    Shapes,     \* Shapes[k]: the shapes the data of stream k may have
    Prior,      \* what the destination holds before the dump
    MaxSoftErrors   \* bound: how many streams may fail softly

ASSUME MaxSoftErrorsAssumption == MaxSoftErrors \in Nat
ASSUME AndroidAssumption == Android \in BOOLEAN

\* The cells a dump is made of; a directory entry is one cell.
Torn == <<"torn">>
Foreign == <<"foreign">>
HeaderCell == <<"header">>
DataCell(k, i) == <<"data", k, i>>
Entry(k, loc) == <<"entry", k, loc.rva, loc.data_size>>
Cell == {Zero, Torn, Foreign, HeaderCell} \cup ({"data"} \X Nat \X Nat)
            \cup ({"entry"} \X Nat \X Nat \X Nat)

\* The streams of write_dump, in its order. `entry`: it has a directory entry
\* (app memory has none). `hard`: its failure ends the dump; otherwise an
\* unused entry is stored. `patched`: part of its data is set through an
\* allocated slot; otherwise everything is appended.
Stream(name, entry, hard, patched) ==
    [name |-> name, entry |-> entry, hard |-> hard, patched |-> patched]
ProcFile(name) == Stream(name, TRUE, FALSE, FALSE)
Streams ==
    << Stream("ThreadList", TRUE, TRUE, TRUE),      Stream("ModuleList", TRUE, TRUE, TRUE),
       Stream("AppMemory", FALSE, TRUE, FALSE),     Stream("MemoryList", TRUE, TRUE, FALSE),
       Stream("Exception", TRUE, TRUE, FALSE),      Stream("SystemInfo", TRUE, TRUE, TRUE),
       Stream("MemoryInfoList", TRUE, TRUE, FALSE), ProcFile("LinuxCpuInfo"),
       ProcFile("LinuxProcStatus") >>
    \o (IF Android THEN << >> ELSE << ProcFile("LinuxLsbRelease") >>)
    \o << ProcFile("LinuxCmdLine"), ProcFile("LinuxEnviron"), ProcFile("LinuxAuxv"),
          ProcFile("LinuxMaps"),                   Stream("LinuxDsoDebug", TRUE, FALSE, TRUE),
          ProcFile("MozLinuxLimits"),              Stream("ThreadNames", TRUE, TRUE, TRUE),
          Stream("HandleData", TRUE, FALSE, TRUE), ProcFile("MozSoftErrors") >>
\* Mutant of num_writers: a stream was added and the number not updated.
num_writers_stale == 17
num_writers == 18

\* What a stream adds to the image: `pre` cells, the `len` cells its directory
\* entry describes, `post` cells. A module list is preceded by the names it
\* refers to, a thread list is followed by stacks and contexts.
Shape == [pre : Nat, len : Nat, post : Nat]

ASSUME ShapesAssumption == Shapes \in [1..Len(Streams) -> SUBSET Shape]
ASSUME PriorAssumption == Prior \in Seq(Cell)
\* The header and the directory lie below 4 GiB.
ASSUME DirectoryAssumption == num_writers + 1 < RvaMod

VARIABLES
    buffer,     \* the in-memory image, returned to the caller
    file,       \* the contents of the destination
    fpos,       \* the stream position of the destination
    curr_idx,   \* DirSection::curr_idx
    start,      \* DirSection::destination_start_offset
    last_pos,   \* DirSection::last_position_written_to_file
    saved,      \* dump_dir_entry's curr_file_pos
    step,       \* the stream write_dump is at
    dirent,     \* the directory entry handed to write_to_file
    soft_errors,    \* how many streams failed softly
    pc,
    result      \* what write_dump returned

dirvars == <<curr_idx, start, last_pos, saved>>
vars == <<buffer, file, fpos, dirvars, step, dirent, soft_errors, pc, result>>

None == <<"none">>
\* DirSection::section.position: the directory follows the header.
DirPos == 1

Init ==
    /\ buffer = << >>
    /\ file = Prior /\ fpos \in 0..Len(Prior)
    /\ curr_idx = 0 /\ start = 0 /\ last_pos = 0 /\ saved = 0
    /\ step = 0 /\ dirent = None /\ soft_errors = 0
    /\ pc = "begin" /\ result = "none"

\* write_dump is at p; an error returned there leaves pc where it is.
At(p) == pc = p /\ result = "none"
Fail == result' = "err" /\ UNCHANGED pc

\* The header and the directory are allocated and the header is set; the first
\* write_to_file flushes them with no entry.
Begin ==
    /\ At("begin")
    /\ buffer' = WriteAt(Reserve(Reserve(buffer, 1), num_writers), 0, <<HeaderCell>>)
    /\ start' = fpos
    /\ pc' = "flush"
    /\ UNCHANGED <<file, fpos, curr_idx, last_pos, saved, step, dirent, result, soft_errors>>

-----------------------------------------------------------------------------
Data(k, n) == [i \in 1..n |-> DataCell(k, i)]
Extent(shape) == shape.pre + shape.len + shape.post

\* The image with the first n cells of the stream's data
WithData(n) == IF Streams[step].patched THEN AllocArray(buffer, Data(step, n))
                                        ELSE WriteAll(buffer, Data(step, n))

\* Mutant of StreamOk: the entry points to where the stream's data begins, not
\* to its list header.
StreamOkAtStart(shape) ==
    /\ At("stream")
    /\ buffer' = WithData(Extent(shape))
    /\ IF Streams[step].entry
       THEN /\ dirent' = Entry(step, Location(Len(buffer), shape.len))
            /\ pc' = "entry"
       ELSE /\ dirent' = None
            /\ pc' = "flush"
    /\ UNCHANGED <<file, fpos, dirvars, step, result, soft_errors>>

StreamOk(shape) ==
    /\ At("stream")
    /\ buffer' = WithData(Extent(shape))
    /\ IF Streams[step].entry
       THEN /\ dirent' = Entry(step, Location(Len(buffer) + shape.pre, shape.len))
            /\ pc' = "entry"
       ELSE /\ dirent' = None
            /\ pc' = "flush"
    /\ UNCHANGED <<file, fpos, dirvars, step, result, soft_errors>>

\* Mutant of StreamSoftError: the failed stream gets no directory entry.
StreamSoftErrorNoEntry(n) ==
    /\ At("stream") /\ ~Streams[step].hard
    /\ soft_errors < MaxSoftErrors
    /\ n = 0 \/ Streams[step].name = "LinuxDsoDebug"
    /\ buffer' = WithData(n)
    /\ soft_errors' = soft_errors + 1
    /\ pc' = "flush"
    /\ UNCHANGED <<file, fpos, dirvars, step, dirent, result>>

\* The error goes to soft_errors and the entry is MDRawDirectory::default().
\* Only write_dso_debug_stream can have written something before it fails.
StreamSoftError(n) ==
    /\ At("stream") /\ ~Streams[step].hard
    /\ soft_errors < MaxSoftErrors
    /\ n = 0 \/ Streams[step].name = "LinuxDsoDebug"
    /\ buffer' = WithData(n)
    /\ dirent' = Zero
    /\ soft_errors' = soft_errors + 1
    /\ pc' = "entry"
    /\ UNCHANGED <<file, fpos, dirvars, step, result>>

StreamHardError(n) ==
    /\ At("stream") /\ Streams[step].hard
    /\ buffer' = WithData(n)
    /\ Fail
    /\ UNCHANGED <<file, fpos, dirvars, step, dirent, soft_errors>>

-----------------------------------------------------------------------------
\* dump_dir_entry: the entry goes into the image; the file position is saved.
SetEntry ==
    /\ At("entry")
    /\ buffer' = WriteAt(buffer, Rva(DirPos) + curr_idx, <<dirent>>)
    /\ saved' = fpos
    /\ curr_idx' = curr_idx + 1
    /\ pc' = "seek"
    /\ UNCHANGED <<file, fpos, start, last_pos, step, dirent, result, soft_errors>>

\* Mutant of SeekEntry: destination_start_offset is forgotten.
SeekEntryFromZero ==
    /\ At("seek")
    /\ fpos' = Rva(DirPos) + curr_idx - 1
    /\ pc' = "put"
    /\ UNCHANGED <<buffer, file, dirvars, step, dirent, result, soft_errors>>

SeekEntry ==
    /\ At("seek")
    /\ fpos' = start + Rva(DirPos) + curr_idx - 1
    /\ pc' = "put"
    /\ UNCHANGED <<buffer, file, dirvars, step, dirent, result, soft_errors>>

\* write_all on the destination, at its position
PutEntry ==
    /\ At("put")
    /\ file' = WriteAt(file, fpos, <<buffer[DirPos + curr_idx]>>)
    /\ fpos' = fpos + 1
    /\ pc' = "restore"
    /\ UNCHANGED <<buffer, dirvars, step, dirent, result, soft_errors>>

PutEntryFails ==
    /\ At("put")
    /\ file' \in {file, WriteAt(file, fpos, <<Torn>>)}
    /\ Fail
    /\ UNCHANGED <<buffer, fpos, dirvars, step, dirent, soft_errors>>

\* Mutant of RestorePos: the file position is not reset.
RestorePosDropped ==
    /\ At("restore")
    /\ pc' = "flush"
    /\ UNCHANGED <<buffer, file, fpos, dirvars, step, dirent, result, soft_errors>>

RestorePos ==
    /\ At("restore")
    /\ fpos' = saved
    /\ pc' = "flush"
    /\ UNCHANGED <<buffer, file, dirvars, step, dirent, result, soft_errors>>

\* write_to_file: everything in the image since the last call.
Unwritten == SubSeq(buffer, last_pos + 1, Len(buffer))
\* Mutant of Flush: last_position_written_to_file only follows a directory entry.
FlushForgetful ==
    /\ At("flush")
    /\ file' = WriteAt(file, fpos, Unwritten)
    /\ fpos' = fpos + Len(Unwritten)
    /\ last_pos' = IF dirent = None /\ step > 0 THEN last_pos ELSE Len(buffer)
    /\ step' = step + 1
    /\ pc' = IF step < Len(Streams) THEN "stream" ELSE "done"
    /\ result' = IF step < Len(Streams) THEN "none" ELSE "ok"
    /\ dirent' = None
    /\ UNCHANGED <<buffer, curr_idx, start, saved, soft_errors>>

Flush ==
    /\ At("flush")
    /\ file' = WriteAt(file, fpos, Unwritten)
    /\ fpos' = fpos + Len(Unwritten)
    /\ last_pos' = Len(buffer)
    /\ step' = step + 1
    /\ pc' = IF step < Len(Streams) THEN "stream" ELSE "done"
    /\ result' = IF step < Len(Streams) THEN "none" ELSE "ok"
    /\ dirent' = None
    /\ UNCHANGED <<buffer, curr_idx, start, saved, soft_errors>>

\* write_all fails after some of the bytes.
FlushFails(n) ==
    /\ At("flush") /\ n < Len(Unwritten)
    /\ file' = WriteAt(file, fpos, SubSeq(Unwritten, 1, n))
    /\ Fail
    /\ UNCHANGED <<buffer, fpos, dirvars, step, dirent, soft_errors>>

\* stream_position or seek fails; before the header also the clock.
IoError ==
    /\ At(pc) /\ pc \in {"begin", "entry", "seek", "restore"}
    /\ Fail
    /\ IF pc = "entry" THEN buffer' = WriteAt(buffer, Rva(DirPos) + curr_idx, <<dirent>>)
                       ELSE UNCHANGED buffer
    /\ UNCHANGED <<file, fpos, dirvars, step, dirent, soft_errors>>

Next ==
    \/ Begin \/ SetEntry \/ SeekEntry \/ PutEntry \/ PutEntryFails \/ RestorePos
    \/ Flush \/ IoError
    \/ \E n \in 0..Len(buffer) : FlushFails(n)
    \/ \E shape \in (IF pc = "stream" THEN Shapes[step] ELSE {}) :
          \/ StreamOk(shape)
          \/ \E n \in 0..Extent(shape) : StreamSoftError(n) \/ StreamHardError(n)

Spec == Init /\ [][Next]_vars

-----------------------------------------------------------------------------
(***************************************************************************)
(* Properties                                                              *)
(***************************************************************************)
TypeOK ==
    /\ buffer \in Seq(Cell) /\ file \in Seq(Cell)
    /\ fpos \in 0..Len(file)
    /\ curr_idx \in 0..num_writers
    /\ start \in Nat /\ last_pos \in 0..Len(buffer) /\ saved \in Nat
    /\ step \in 0..(Len(Streams) + 1)
    /\ dirent \in Cell \cup {None}
    /\ soft_errors \in 0..MaxSoftErrors
    /\ pc \in {"begin", "stream", "entry", "seek", "put", "restore", "flush", "done"}
    /\ result \in {"none", "ok", "err"}

\* The directory slot whose entry may be in the image and not in the file
InFlight ==
    CASE pc = "entry" -> DirPos + curr_idx + 1
      [] pc \in {"seek", "put"} -> DirPos + curr_idx
      [] OTHER -> 0

\* dump_dir_entry and write_to_file together keep the file a copy of the image:
\* at every moment, whatever failed, all that write_to_file has flushed is in
\* the file at its place after destination_start_offset, but for the one
\* directory entry that is being stored.
FileMirrorsImage ==
    /\ start + last_pos <= Len(file)
    /\ \A i \in 1..last_pos : file[start + i] = buffer[i] \/ i = InFlight

\* write "Generates a minidump and writes to the destination provided. Returns
\* the in-memory version of the minidump as well": after success the file holds
\* exactly the returned bytes, from the position the destination had.
FileIsImage ==
    result = "ok" =>
        /\ Len(file) >= start + Len(buffer)
        /\ SubSeq(file, start + 1, start + Len(buffer)) = buffer

\* "If we have to append to some file": what the destination held before its
\* initial position is never overwritten.
PriorKept == \A i \in 1..(IF pc = "begin" THEN Len(Prior) ELSE start) : file[i] = Prior[i]

\* The streams write_dump is done with, and those of them with an entry
Written == {k \in 1..Len(Streams) : k < step}
Published == Cardinality({k \in Written : Streams[k].entry})

\* "Ensure the header gets flushed. If we crash somewhere below, we should have
\* a mostly-intact dump": once the header is written, a reader of the file as
\* it is at any moment finds the header and, in every slot of the directory but
\* the one being stored, an unused entry or one whose data is all in the file
\* and is that stream's own.
Intact(e) ==
    e = Zero \/ \E k \in Written : \E s \in Shapes[k] :
        /\ e[1] = "entry" /\ e[2] = k /\ e[4] = s.len
        /\ start + e[3] - s.pre + Extent(s) <= Len(file)
        /\ \A i \in 1..Extent(s) : file[start + e[3] - s.pre + i] = DataCell(k, i)
MostlyIntact ==
    step > 0 =>
        /\ file[start + 1] = HeaderCell
        /\ \A j \in 1..num_writers : j = Published + 1 \/ Intact(file[start + DirPos + j])

\* What a reader makes of the directory and of the data it points to
Unused == <<"unused">>
Unreadable == <<"unreadable">>
Decode(e) ==
    CASE e = Zero -> Unused
      [] e[1] = "entry" /\ start + e[3] + e[4] <= Len(file) ->
             <<Streams[e[2]].name, SubSeq(file, start + e[3] + 1, start + e[3] + e[4])>>
      [] OTHER -> Unreadable
\* How many of the first n streams have an entry, and the j-th stream that has
Entries(n) == Cardinality({k \in 1..n : Streams[k].entry})
EntryStream(j) == CHOOSE k \in 1..Len(Streams) : Streams[k].entry /\ Entries(k) = j
Items ==
    [j \in 1..Entries(Len(Streams)) |->
        LET k == EntryStream(j)
        IN  {<<Streams[k].name, [i \in 1..s.len |-> DataCell(k, s.pre + i)]>> : s \in Shapes[k]}
            \cup (IF Streams[k].hard THEN {} ELSE {Unused})]
Dump == INSTANCE Minidump WITH
    published <- [j \in 1..Published |-> Decode(file[start + DirPos + j])],
    outcome <- CASE result = "ok" -> "ok" [] result = "err" -> "failed" [] OTHER -> "writing"

\* Read through its directory, the file is at every moment a growing list of
\* complete streams: a step of the writer publishes the next stream, reports
\* failure, or changes nothing a reader can rely on.
ImplementsMinidump == Dump!Spec
=============================================================================
