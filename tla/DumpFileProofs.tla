--------------------------- MODULE DumpFileProofs ---------------------------
(***************************************************************************)
(* Theorems about DumpFile, for streams of any size and any destination.   *)
(***************************************************************************)
EXTENDS DumpFile, ImageProofs

\* Buffer::reserve appends zero cells.
LEMMA ReserveFacts ==
  ASSUME NEW buf \in Seq(Cell), NEW n \in Nat
  PROVE  /\ Reserve(buf, n) \in Seq(Cell)
         /\ Len(Reserve(buf, n)) = Len(buf) + n
         /\ \A i \in 1..Len(buf) : Reserve(buf, n)[i] = buf[i]
  BY DEF Reserve, Cell

\* Buffer::write_at (and write_all on the destination) stores the cells at their
\* offset, keeps all others, and grows the buffer by what reaches past its end.
LEMMA WriteAtFacts ==
  ASSUME NEW buf \in Seq(Cell), NEW cells \in Seq(Cell), NEW offset \in 0..Len(buf)
  PROVE  /\ WriteAt(buf, offset, cells) \in Seq(Cell)
         /\ Len(WriteAt(buf, offset, cells)) =
                IF Len(buf) < offset + Len(cells) THEN offset + Len(cells) ELSE Len(buf)
         /\ \A i \in 1..Len(cells) : WriteAt(buf, offset, cells)[offset + i] = cells[i]
         /\ \A i \in 1..Len(buf) : i <= offset \/ offset + Len(cells) < i
                => WriteAt(buf, offset, cells)[i] = buf[i]
  BY DEF WriteAt

\* Facts about tuples and their concatenation, for the list of streams.
LEMMA NineTuple ==
  ASSUME NEW S, NEW a \in S, NEW b \in S, NEW c \in S, NEW d \in S, NEW e \in S,
         NEW f \in S, NEW g \in S, NEW h \in S, NEW i \in S
  PROVE  /\ <<a, b, c, d, e, f, g, h, i>> \in Seq(S)
         /\ Len(<<a, b, c, d, e, f, g, h, i>>) = 9
         /\ <<a, b, c, d, e, f, g, h, i>>[3] = c
  OBVIOUS

\* Concatenating three sequences adds their lengths and extends the first.
LEMMA Concat3 ==
  ASSUME NEW S, NEW a \in Seq(S), NEW b \in Seq(S), NEW c \in Seq(S)
  PROVE  /\ (a \o b) \o c \in Seq(S)
         /\ Len((a \o b) \o c) = Len(a) + Len(b) + Len(c)
         /\ \A i \in 1..Len(a) : ((a \o b) \o c)[i] = a[i]
<1>1. a \o b \in Seq(S) /\ Len(a \o b) = Len(a) + Len(b) /\ \A i \in 1..Len(a) : (a \o b)[i] = a[i]
  OBVIOUS
<1>2. \A s \in Seq(S) : /\ s \o c \in Seq(S)
                        /\ Len(s \o c) = Len(s) + Len(c)
                        /\ \A i \in 1..Len(s) : (s \o c)[i] = s[i]
  OBVIOUS
<1>3. QED
  BY <1>1, <1>2

\* The stream names, as a set the provers can enumerate.
Names == {"ThreadList", "ModuleList", "AppMemory", "MemoryList", "Exception", "SystemInfo",
          "MemoryInfoList", "LinuxCpuInfo", "LinuxProcStatus", "LinuxLsbRelease", "LinuxCmdLine",
          "LinuxEnviron", "LinuxAuxv", "LinuxMaps", "LinuxDsoDebug", "MozLinuxLimits",
          "ThreadNames", "HandleData", "MozSoftErrors"}
StreamRecord == [name : Names, entry : BOOLEAN, hard : BOOLEAN, patched : BOOLEAN]

\* write_dump has 18 or 19 streams; app memory, the third, has no entry.
LEMMA StreamsFacts ==
  /\ Streams \in Seq(StreamRecord)
  /\ Len(Streams) = IF Android THEN 18 ELSE 19
  /\ ~Streams[3].entry /\ Streams[3].hard
<1>1. \A name \in Names, e, h, p \in BOOLEAN : Stream(name, e, h, p) \in StreamRecord
  BY DEF Stream, StreamRecord
<1>2. \A name \in Names : ProcFile(name) \in StreamRecord
  BY Zenon, <1>1 DEF ProcFile
<1>3. ~Stream("AppMemory", FALSE, TRUE, FALSE).entry /\ Stream("AppMemory", FALSE, TRUE, FALSE).hard
  BY DEF Stream
<1> DEFINE middle == IF Android THEN << >> ELSE << ProcFile("LinuxLsbRelease") >>
<1>4. middle \in Seq(StreamRecord) /\ Len(middle) = IF Android THEN 0 ELSE 1
  <2>1. ProcFile("LinuxLsbRelease") \in StreamRecord
    BY <1>2 DEF Names
  <2>2. CASE Android
    BY <2>2
  <2>3. CASE ~Android
    BY <2>1, <2>3
  <2>4. QED
    BY <2>2, <2>3
<1> DEFINE first == << Stream("ThreadList", TRUE, TRUE, TRUE),      Stream("ModuleList", TRUE, TRUE, TRUE),
                       Stream("AppMemory", FALSE, TRUE, FALSE),     Stream("MemoryList", TRUE, TRUE, FALSE),
                       Stream("Exception", TRUE, TRUE, FALSE),      Stream("SystemInfo", TRUE, TRUE, TRUE),
                       Stream("MemoryInfoList", TRUE, TRUE, FALSE), ProcFile("LinuxCpuInfo"),
                       ProcFile("LinuxProcStatus") >>
           last == << ProcFile("LinuxCmdLine"), ProcFile("LinuxEnviron"), ProcFile("LinuxAuxv"),
                      ProcFile("LinuxMaps"),                   Stream("LinuxDsoDebug", TRUE, FALSE, TRUE),
                      ProcFile("MozLinuxLimits"),              Stream("ThreadNames", TRUE, TRUE, TRUE),
                      Stream("HandleData", TRUE, FALSE, TRUE), ProcFile("MozSoftErrors") >>
<1>5. Streams = (first \o middle) \o last
  BY DEF Streams
<1>6. first \in Seq(StreamRecord) /\ Len(first) = 9 /\ first[3] = Stream("AppMemory", FALSE, TRUE, FALSE)
  <2>1. /\ Stream("ThreadList", TRUE, TRUE, TRUE) \in StreamRecord
        /\ Stream("ModuleList", TRUE, TRUE, TRUE) \in StreamRecord
        /\ Stream("AppMemory", FALSE, TRUE, FALSE) \in StreamRecord
        /\ Stream("MemoryList", TRUE, TRUE, FALSE) \in StreamRecord
        /\ Stream("Exception", TRUE, TRUE, FALSE) \in StreamRecord
        /\ Stream("SystemInfo", TRUE, TRUE, TRUE) \in StreamRecord
        /\ Stream("MemoryInfoList", TRUE, TRUE, FALSE) \in StreamRecord
        /\ ProcFile("LinuxCpuInfo") \in StreamRecord /\ ProcFile("LinuxProcStatus") \in StreamRecord
    BY Zenon, <1>1, <1>2 DEF Names
  <2>2. QED
    BY Zenon, <2>1, NineTuple
<1>7. last \in Seq(StreamRecord) /\ Len(last) = 9
  <2>1. /\ ProcFile("LinuxCmdLine") \in StreamRecord /\ ProcFile("LinuxEnviron") \in StreamRecord
        /\ ProcFile("LinuxAuxv") \in StreamRecord /\ ProcFile("LinuxMaps") \in StreamRecord
        /\ Stream("LinuxDsoDebug", TRUE, FALSE, TRUE) \in StreamRecord
        /\ ProcFile("MozLinuxLimits") \in StreamRecord
        /\ Stream("ThreadNames", TRUE, TRUE, TRUE) \in StreamRecord
        /\ Stream("HandleData", TRUE, FALSE, TRUE) \in StreamRecord
        /\ ProcFile("MozSoftErrors") \in StreamRecord
    BY Zenon, <1>1, <1>2 DEF Names
  <2>2. QED
    BY Zenon, <2>1, NineTuple
<1> HIDE DEF first, middle, last
<1> DEFINE all == (first \o middle) \o last
<1>8. /\ all \in Seq(StreamRecord)
      /\ Len(all) = Len(first) + Len(middle) + Len(last)
      /\ \A i \in 1..Len(first) : all[i] = first[i]
  <2>1. first \in Seq(StreamRecord) /\ middle \in Seq(StreamRecord) /\ last \in Seq(StreamRecord)
    BY <1>4, <1>6, <1>7
  <2>2. QED
    BY <2>1, Concat3
<1> HIDE DEF all
<1>9. Len(all) = IF Android THEN 18 ELSE 19
  BY <1>4, <1>6, <1>7, <1>8
<1>10. ~all[3].entry /\ all[3].hard
  <2>1. 3 \in 1..Len(first)
    BY <1>6
  <2>2. all[3] = first[3]
    BY <2>1, <1>8
  <2>3. QED
    BY <2>2, <1>3, <1>6, Zenon
<1>11. QED
  BY <1>5, <1>8, <1>9, <1>10 DEF all

\* The data of a stream is a sequence of cells.
LEMMA DataFacts ==
  ASSUME NEW k \in Nat, NEW n \in Nat
  PROVE  Data(k, n) \in Seq(Cell) /\ Len(Data(k, n)) = n
<1>1. \A i \in 1..n : DataCell(k, i) \in Cell
  BY DEF DataCell, Cell
<1>2. QED
  BY <1>1 DEF Data

\* Positions below 4 GiB are not truncated.
LEMMA RvaSmall == ASSUME NEW p \in Nat, p < RvaMod PROVE Rva(p) = p
  BY RvaModAssumption DEF Rva

\* A truncated position is not beyond the position.
LEMMA RvaRange == ASSUME NEW p \in Nat PROVE Rva(p) \in 0..p
  BY RvaModAssumption DEF Rva

\* A stream grows the image by the size of its data, and leaves what is there
\* alone as long as the image stays below 4 GiB.
LEMMA WithDataFacts ==
  ASSUME buffer \in Seq(Cell), step \in Nat, NEW n \in Nat
  PROVE  /\ WithData(n) \in Seq(Cell)
         /\ Len(WithData(n)) = Len(buffer) + n
         /\ Len(WithData(n)) <= RvaMod => \A i \in 1..Len(buffer) : WithData(n)[i] = buffer[i]
<1> DEFINE d == Data(step, n)
<1>1. d \in Seq(Cell) /\ Len(d) = n
  BY DataFacts
<1> HIDE DEF d
<1> DEFINE appended == WriteAt(buffer, Len(buffer), d)
<1>2. /\ appended \in Seq(Cell) /\ Len(appended) = Len(buffer) + n
      /\ \A i \in 1..Len(buffer) : appended[i] = buffer[i]
  <2>1. Len(buffer) \in 0..Len(buffer)
    OBVIOUS
  <2>2. /\ appended \in Seq(Cell)
        /\ Len(appended) = IF Len(buffer) < Len(buffer) + Len(d) THEN Len(buffer) + Len(d)
                                                                ELSE Len(buffer)
        /\ \A i \in 1..Len(buffer) : i <= Len(buffer) \/ Len(buffer) + Len(d) < i
                                        => appended[i] = buffer[i]
    BY Zenon, <1>1, <2>1, WriteAtFacts
  <2> HIDE DEF appended
  <2>3. QED
    BY <1>1, <2>2
<1> DEFINE r == Reserve(buffer, n)
<1>3. r \in Seq(Cell) /\ Len(r) = Len(buffer) + n /\ \A i \in 1..Len(buffer) : r[i] = buffer[i]
  BY Zenon, ReserveFacts
<1> HIDE DEF r
<1> DEFINE o == Rva(Len(buffer))
           patched == WriteAt(r, o, d)
<1>4. o \in 0..Len(buffer)
  BY RvaRange
<1>5. Len(buffer) < RvaMod => o = Len(buffer)
  BY RvaSmall
<1> HIDE DEF o
<1>6. /\ patched \in Seq(Cell) /\ Len(patched) = Len(buffer) + n
      /\ \A i \in 1..Len(r) : i <= o \/ o + n < i => patched[i] = r[i]
  <2>1. o \in 0..Len(r)
    BY <1>3, <1>4
  <2>2. /\ patched \in Seq(Cell)
        /\ Len(patched) = IF Len(r) < o + Len(d) THEN o + Len(d) ELSE Len(r)
        /\ \A i \in 1..Len(r) : i <= o \/ o + Len(d) < i => patched[i] = r[i]
    BY Zenon, <1>1, <1>3, <2>1, WriteAtFacts
  <2> HIDE DEF patched
  <2>3. QED
    BY <1>1, <1>3, <1>4, <2>2
<1> HIDE DEF patched
<1>7. Len(patched) <= RvaMod => \A i \in 1..Len(buffer) : patched[i] = buffer[i]
  <2> SUFFICES ASSUME Len(buffer) + n <= RvaMod, NEW i \in 1..Len(buffer) PROVE patched[i] = buffer[i]
    BY <1>6
  <2>1. CASE n = 0
    BY <2>1, <1>3, <1>4, <1>6
  <2>2. CASE n > 0
    BY <2>2, <1>3, <1>5, <1>6, RvaModAssumption
  <2>3. QED
    BY <2>1, <2>2
<1>8. WithData(n) = IF Streams[step].patched THEN patched ELSE appended
  BY <1>1 DEF WithData, AllocArray, WriteAll, patched, o, r, d
<1> HIDE DEF appended
<1>9. QED
  BY Zenon, <1>2, <1>6, <1>7, <1>8

-----------------------------------------------------------------------------
(***************************************************************************)
(* The inductive invariant: where the destination is positioned at every   *)
(* point of write_to_file, how far the directory is filled (Slots), and    *)
(* that the file mirrors the image while the image is below 4 GiB.         *)
(***************************************************************************)
Fits == Len(buffer) <= RvaMod

Progress ==
    /\ pc = "begin" => step = 0 /\ buffer = << >> /\ file = Prior /\ start = 0
    /\ pc # "begin" => num_writers + 1 <= Len(buffer)
    /\ step = 0 => pc \in {"begin", "flush"} /\ last_pos = 0 /\ curr_idx = 0
    /\ step > 0 => num_writers + 1 <= last_pos
    /\ pc \in {"stream", "entry", "seek", "put", "restore"} => step \in 1..Len(Streams)
    /\ pc \in {"entry", "seek", "put", "restore"} => step # 3
    /\ pc = "entry" => dirent \in Cell
    /\ pc = "flush" => step <= Len(Streams)
    /\ pc = "stream" /\ result = "none" => last_pos = Len(buffer)
    /\ pc = "done" => last_pos = Len(buffer)
    /\ result = "ok" => pc = "done"

Position ==
    /\ pc # "begin" => start + last_pos <= Len(file)
    /\ pc \in {"stream", "entry", "flush"} => fpos = start + last_pos
    /\ pc \in {"seek", "put", "restore"} => saved = start + last_pos /\ curr_idx > 0
    /\ pc = "put" => fpos = start + curr_idx

\* How many entries the streams before stream k have, at most
EntriesBefore(k) == IF k = 0 THEN 0 ELSE IF k <= 3 THEN k - 1 ELSE k - 2
Slots ==
    /\ pc \in {"stream", "entry"} => curr_idx <= EntriesBefore(step)
    /\ pc \in {"seek", "put", "restore"} => curr_idx <= EntriesBefore(step) + 1
    /\ pc = "flush" => curr_idx <= EntriesBefore(step + 1)

Mirror == Fits /\ pc # "begin" => \A i \in 1..last_pos : file[start + i] = buffer[i] \/ i = InFlight

IInv == TypeOK /\ Progress /\ Position /\ Slots /\ Mirror /\ PriorKept

\* The first state satisfies the invariant.
LEMMA InitIInv == Init => IInv
  BY PriorAssumption, StreamsFacts, MaxSoftErrorsAssumption
  DEF Init, IInv, TypeOK, Progress, Position, Slots, Mirror, PriorKept, EntriesBefore,
     num_writers, Cell, Zero, None

\* The header and the empty directory are put into the image.
LEMMA BeginIInv == ASSUME IInv, Begin PROVE IInv'
<1>1. buffer' \in Seq(Cell) /\ Len(buffer') = num_writers + 1
  <2> DEFINE a == Reserve(buffer, 1)
             b == Reserve(a, num_writers)
             c == WriteAt(b, 0, <<HeaderCell>>)
  <2>1. buffer \in Seq(Cell) /\ Len(buffer) = 0
    BY DEF IInv, TypeOK, Progress, Begin, At
  <2>2. a \in Seq(Cell) /\ Len(a) = Len(buffer) + 1
    BY Zenon, <2>1, ReserveFacts
  <2> HIDE DEF a
  <2>3. b \in Seq(Cell) /\ Len(b) = Len(a) + num_writers
    BY Zenon, <2>2, ReserveFacts DEF num_writers
  <2> HIDE DEF b
  <2>4. <<HeaderCell>> \in Seq(Cell) /\ Len(<<HeaderCell>>) = 1
    BY DEF Cell
  <2>5. 0 \in 0..Len(b)
    BY <2>3
  <2>6. /\ c \in Seq(Cell)
        /\ Len(c) = IF Len(b) < 0 + Len(<<HeaderCell>>) THEN 0 + Len(<<HeaderCell>>) ELSE Len(b)
    BY Zenon, <2>3, <2>4, <2>5, WriteAtFacts
  <2>7. buffer' = c
    BY DEF Begin, a, b
  <2> HIDE DEF c
  <2>8. QED
    BY <2>1, <2>2, <2>3, <2>4, <2>6, <2>7 DEF num_writers
<1> USE StreamsFacts, DirectoryAssumption, RvaModAssumption DEF IInv, At, Fail, dirvars,
       num_writers, DirPos
<1>2. TypeOK'
  BY <1>1 DEF Begin, TypeOK, Progress, Position, Slots, EntriesBefore
<1>3. Progress'
  <2>1. /\ pc' = "flush" /\ step' = 0 /\ last_pos' = 0 /\ curr_idx' = 0 /\ result' = "none"
        /\ 0 <= Len(Streams)
    BY DEF Begin, TypeOK, Progress
  <2>2. QED
    BY <1>1, <2>1 DEF Progress
<1>4. Position'
  BY <1>1 DEF Begin, TypeOK, Progress, Position, Slots
<1>5. Slots'
  BY <1>1 DEF Begin, TypeOK, Progress, Slots, EntriesBefore
<1>6. Mirror'
  BY <1>1 DEF Begin, TypeOK, Progress, Position, Mirror, Fits, InFlight
<1>7. PriorKept'
  BY <1>1 DEF Begin, TypeOK, Progress, Position, PriorKept
<1>8. QED
  BY <1>2, <1>3, <1>4, <1>5, <1>6, <1>7 DEF IInv

\* A stream is appended to the image; its entry is made.
LEMMA StreamOkIInv == ASSUME IInv, NEW shape \in Shape, StreamOk(shape) PROVE IInv'
<1>1. Extent(shape) \in Nat /\ shape.pre \in Nat /\ shape.len \in Nat
  BY DEF Shape, Extent
<1>2. /\ buffer' \in Seq(Cell) /\ Len(buffer') = Len(buffer) + Extent(shape)
      /\ Len(buffer') <= RvaMod => \A i \in 1..Len(buffer) : buffer'[i] = buffer[i]
  <2>1. step \in 1..Len(Streams) /\ buffer \in Seq(Cell)
    BY DEF IInv, TypeOK, Progress, StreamOk, At
  <2>2. step \in Nat
    BY <2>1, StreamsFacts
  <2>3. QED
    BY <1>1, <2>1, <2>2, WithDataFacts DEF StreamOk
<1>3. dirent' \in Cell \cup {None} /\ (Streams[step].entry => dirent' \in Cell)
  <2>1. step \in Nat /\ Len(buffer) \in Nat
    BY StreamsFacts DEF IInv, TypeOK
  <2>2. \A r, z \in Nat : <<"entry", step, r, z>> \in Cell
    BY <2>1 DEF Cell
  <2>3. Len(buffer) + shape.pre \in Nat
    BY <1>1, <2>1
  <2> DEFINE loc == Location(Len(buffer) + shape.pre, shape.len)
  <2>4. Rva(Len(buffer) + shape.pre) \in Nat /\ Rva(shape.len) \in Nat
    <3> \A p \in Nat : Rva(p) \in Nat
      BY RvaRange
    <3> QED
      BY Zenon, <1>1, <2>3
  <2>5. loc.rva = Rva(Len(buffer) + shape.pre) /\ loc.data_size = Rva(shape.len)
    BY DEF Location, Rva
  <2> HIDE DEF loc
  <2>6. Entry(step, loc) \in Cell
    BY <2>2, <2>4, <2>5 DEF Entry
  <2>7. QED
    BY <2>6 DEF StreamOk, loc
<1>4. ~(Streams[step].entry) \/ step # 3
  BY StreamsFacts
<1> USE StreamsFacts, DirectoryAssumption, RvaModAssumption DEF IInv, At, Fail, dirvars,
       num_writers, DirPos
<1>5. TypeOK'
  BY <1>1, <1>2, <1>3, <1>4 DEF StreamOk, TypeOK, Progress, Position, Slots, EntriesBefore
<1>6. Progress'
  <2>1. /\ step \in 1..Len(Streams) /\ step' = step /\ pc # "begin"
        /\ last_pos' = last_pos /\ result' = "none" /\ curr_idx' = curr_idx
        /\ Len(Streams) \in Nat /\ Len(buffer) \in Nat
    BY DEF StreamOk, TypeOK, Progress
  <2>2. /\ pc' \in {"entry", "flush"}
        /\ pc' = "entry" => Streams[step].entry /\ dirent' \in Cell
    BY <1>3 DEF StreamOk
  <2>3. QED
    BY <1>1, <1>2, <1>4, <2>1, <2>2 DEF Progress
<1>7. Position'
  BY Zenon, <1>1, <1>2, <1>3, <1>4 DEF StreamOk, TypeOK, Progress, Position, Slots
<1>8. Slots'
  BY <1>4 DEF StreamOk, TypeOK, Progress, Slots, EntriesBefore
<1>9. Mirror'
  <2> USE DEF TypeOK, Progress
  <2>1. /\ pc = "stream" /\ result = "none" /\ last_pos = Len(buffer) /\ InFlight = 0
        /\ last_pos' = last_pos /\ start' = start /\ file' = file
    BY DEF StreamOk, InFlight
  <2>2. SUFFICES ASSUME Fits', NEW i \in 1..last_pos PROVE file[start + i] = buffer'[i]
    BY <2>1 DEF Mirror
  <2>3. Fits
    BY <1>1, <1>2, <2>2 DEF Fits
  <2>4. file[start + i] = buffer[i]
    BY <2>1, <2>3 DEF Mirror
  <2>5. QED
    BY <1>1, <1>2, <2>1, <2>2, <2>4 DEF Fits
<1>10. PriorKept'
  BY <1>1, <1>2, <1>3, <1>4 DEF StreamOk, TypeOK, Progress, Position, PriorKept
<1>11. QED
  BY <1>5, <1>6, <1>7, <1>8, <1>9, <1>10 DEF IInv

\* A stream that fails softly gets an unused entry.
LEMMA StreamSoftErrorIInv == ASSUME IInv, NEW n \in Nat, StreamSoftError(n) PROVE IInv'
<1>1. /\ buffer' \in Seq(Cell) /\ Len(buffer') = Len(buffer) + n
      /\ Len(buffer') <= RvaMod => \A i \in 1..Len(buffer) : buffer'[i] = buffer[i]
  <2>1. step \in 1..Len(Streams) /\ buffer \in Seq(Cell)
    BY DEF IInv, TypeOK, Progress, StreamSoftError, At
  <2>2. step \in Nat
    BY <2>1, StreamsFacts
  <2>3. QED
    BY Zenon, <2>1, <2>2, WithDataFacts DEF StreamSoftError
<1>2. dirent' \in Cell
  BY DEF StreamSoftError, Cell
<1>3. step # 3
  BY StreamsFacts DEF StreamSoftError
<1> USE StreamsFacts, DirectoryAssumption, RvaModAssumption DEF IInv, At, Fail, dirvars,
       num_writers, DirPos
<1>4. TypeOK'
  BY <1>1, <1>2, MaxSoftErrorsAssumption DEF StreamSoftError, TypeOK
<1>5. Progress'
  BY <1>1, <1>2, <1>3 DEF StreamSoftError, TypeOK, Progress
<1>6. Position'
  BY <1>1, <1>2, <1>3 DEF StreamSoftError, TypeOK, Progress, Position, Slots
<1>7. Slots'
  BY <1>1, <1>2, <1>3 DEF StreamSoftError, TypeOK, Progress, Slots, EntriesBefore
<1>8. Mirror'
  <2> USE DEF TypeOK, Progress
  <2>1. /\ pc = "stream" /\ result = "none" /\ last_pos = Len(buffer) /\ InFlight = 0
        /\ last_pos' = last_pos /\ start' = start /\ file' = file
    BY DEF StreamSoftError, InFlight
  <2>2. SUFFICES ASSUME Fits', NEW i \in 1..last_pos PROVE file[start + i] = buffer'[i]
    BY <2>1 DEF Mirror
  <2>3. Fits
    BY <1>1, <1>2, <2>2 DEF Fits
  <2>4. file[start + i] = buffer[i]
    BY <2>1, <2>3 DEF Mirror
  <2>5. QED
    BY <1>1, <1>2, <2>1, <2>2, <2>4 DEF Fits
<1>9. PriorKept'
  BY <1>1, <1>2, <1>3 DEF StreamSoftError, TypeOK, Progress, Position, PriorKept
<1>10. QED
  BY <1>4, <1>5, <1>6, <1>7, <1>8, <1>9 DEF IInv

\* A hard error returns with part of the stream in the image.
LEMMA StreamHardErrorIInv == ASSUME IInv, NEW n \in Nat, StreamHardError(n) PROVE IInv'
<1>1. /\ buffer' \in Seq(Cell) /\ Len(buffer') = Len(buffer) + n
      /\ Len(buffer') <= RvaMod => \A i \in 1..Len(buffer) : buffer'[i] = buffer[i]
  <2>1. step \in 1..Len(Streams) /\ buffer \in Seq(Cell)
    BY DEF IInv, TypeOK, Progress, StreamHardError, At
  <2>2. step \in Nat
    BY <2>1, StreamsFacts
  <2>3. QED
    BY Zenon, <2>1, <2>2, WithDataFacts DEF StreamHardError
<1> USE StreamsFacts, DirectoryAssumption, RvaModAssumption DEF IInv, At, Fail, dirvars,
       num_writers, DirPos
<1>2. TypeOK'
  BY <1>1 DEF StreamHardError, TypeOK, Progress, Position, Slots, EntriesBefore
<1>3. Progress'
  BY <1>1 DEF StreamHardError, TypeOK, Progress
<1>4. Position'
  BY <1>1 DEF StreamHardError, TypeOK, Progress, Position, Slots
<1>5. Slots'
  BY <1>1 DEF StreamHardError, TypeOK, Progress, Slots, EntriesBefore
<1>6. Mirror'
  <2> USE DEF TypeOK, Progress
  <2>1. /\ pc = "stream" /\ result = "none" /\ last_pos = Len(buffer) /\ InFlight = 0
        /\ last_pos' = last_pos /\ start' = start /\ file' = file
    BY DEF StreamHardError, InFlight
  <2>2. SUFFICES ASSUME Fits', NEW i \in 1..last_pos PROVE file[start + i] = buffer'[i]
    BY <2>1 DEF Mirror
  <2>3. Fits
    BY <1>1, <1>2, <2>2 DEF Fits
  <2>4. file[start + i] = buffer[i]
    BY <2>1, <2>3 DEF Mirror
  <2>5. QED
    BY <1>1, <1>2, <2>1, <2>2, <2>4 DEF Fits
<1>7. PriorKept'
  BY <1>1 DEF StreamHardError, TypeOK, Progress, Position, PriorKept
<1>8. QED
  BY <1>2, <1>3, <1>4, <1>5, <1>6, <1>7 DEF IInv

\* dump_dir_entry sets one slot of the directory in the image; there is one left.
LEMMA EntryStored ==
  ASSUME IInv, pc = "entry"
  PROVE  LET w == WriteAt(buffer, Rva(DirPos) + curr_idx, <<dirent>>)
         IN  /\ w \in Seq(Cell) /\ Len(w) = Len(buffer)
             /\ \A i \in 1..Len(buffer) : i # DirPos + curr_idx + 1 => w[i] = buffer[i]
<1> USE DEF IInv, DirPos
<1>1. Rva(DirPos) = DirPos
  BY RvaSmall, DirectoryAssumption, RvaModAssumption DEF num_writers
<1>2. buffer \in Seq(Cell) /\ curr_idx \in Nat /\ Len(buffer) \in Nat /\ dirent \in Cell
  BY DEF TypeOK, Progress
<1>3. curr_idx <= 17 /\ 19 <= Len(buffer)
  <2>1. /\ step \in 1..Len(Streams) /\ step # 3 /\ curr_idx <= EntriesBefore(step)
        /\ Len(Streams) \in Nat /\ Len(Streams) <= 19 /\ num_writers + 1 <= Len(buffer)
    BY StreamsFacts DEF Progress, Slots
  <2>2. QED
    BY <1>2, <2>1 DEF EntriesBefore, num_writers
<1>4. <<dirent>> \in Seq(Cell) /\ Len(<<dirent>>) = 1
  BY <1>2
<1>5. DirPos + curr_idx \in 0..Len(buffer)
  BY <1>2, <1>3
<1> DEFINE w == WriteAt(buffer, DirPos + curr_idx, <<dirent>>)
<1>6. /\ w \in Seq(Cell)
      /\ Len(w) = IF Len(buffer) < DirPos + curr_idx + Len(<<dirent>>)
                  THEN DirPos + curr_idx + Len(<<dirent>>) ELSE Len(buffer)
      /\ \A i \in 1..Len(buffer) : i <= DirPos + curr_idx \/ DirPos + curr_idx + Len(<<dirent>>) < i
            => w[i] = buffer[i]
  BY Zenon, <1>2, <1>4, <1>5, WriteAtFacts
<1> HIDE DEF w
<1>7. Len(w) = Len(buffer)
  BY <1>2, <1>3, <1>4, <1>6
<1>8. \A i \in 1..Len(buffer) : i # DirPos + curr_idx + 1 => w[i] = buffer[i]
  BY <1>2, <1>4, <1>6
<1>9. QED
  BY <1>1, <1>6, <1>7, <1>8 DEF w

\* dump_dir_entry stores the entry in the image and saves the file position.
LEMMA SetEntryIInv == ASSUME IInv, SetEntry PROVE IInv'
<1>1. /\ buffer' \in Seq(Cell) /\ Len(buffer') = Len(buffer)
      /\ \A i \in 1..Len(buffer) : i # DirPos + curr_idx + 1 => buffer'[i] = buffer[i]
  BY EntryStored DEF SetEntry, At
<1> USE StreamsFacts, DirectoryAssumption, RvaModAssumption DEF IInv, At, Fail, dirvars,
       num_writers, DirPos
<1>2. TypeOK'
  BY <1>1 DEF SetEntry, TypeOK, Progress, Position, Slots, EntriesBefore
<1>3. Progress'
  BY <1>1 DEF SetEntry, TypeOK, Progress
<1>4. Position'
  BY <1>1 DEF SetEntry, TypeOK, Progress, Position, Slots
<1>5. Slots'
  BY <1>1 DEF SetEntry, TypeOK, Progress, Slots, EntriesBefore
<1>6. Mirror'
  <2> USE DEF TypeOK, Progress
  <2>0. pc = "entry" /\ pc' = "seek" /\ curr_idx' = curr_idx + 1 /\ curr_idx \in Nat
    BY DEF SetEntry
  <2>1. /\ InFlight = DirPos + curr_idx + 1 /\ InFlight' = DirPos + curr_idx + 1
        /\ last_pos' = last_pos /\ start' = start /\ file' = file
    BY <2>0 DEF SetEntry, InFlight
  <2>2. SUFFICES ASSUME Fits', NEW i \in 1..last_pos, i # DirPos + curr_idx + 1
                 PROVE file[start + i] = buffer'[i]
    BY <2>0, <2>1 DEF Mirror
  <2>3. Fits
    BY <1>1, <2>2 DEF Fits
  <2>4. file[start + i] = buffer[i]
    BY <2>0, <2>1, <2>2, <2>3 DEF Mirror
  <2>5. i \in 1..Len(buffer)
    OBVIOUS
  <2>6. QED
    BY <1>1, <2>2, <2>4, <2>5
<1>7. PriorKept'
  BY <1>1 DEF SetEntry, TypeOK, Progress, Position, PriorKept
<1>8. QED
  BY <1>2, <1>3, <1>4, <1>5, <1>6, <1>7 DEF IInv

\* The destination is positioned at the slot.
LEMMA SeekEntryIInv == ASSUME IInv, SeekEntry PROVE IInv'
<1>1. Rva(DirPos) = DirPos
  BY RvaSmall, DirectoryAssumption, RvaModAssumption DEF DirPos, num_writers
<1> USE StreamsFacts, DirectoryAssumption, RvaModAssumption DEF IInv, At, Fail, dirvars,
       num_writers, DirPos
<1>2. TypeOK'
  BY <1>1 DEF SeekEntry, TypeOK, Progress, Position, Slots, EntriesBefore
<1>3. Progress'
  BY <1>1 DEF SeekEntry, TypeOK, Progress
<1>4. Position'
  BY <1>1 DEF SeekEntry, TypeOK, Progress, Position, Slots
<1>5. Slots'
  BY <1>1 DEF SeekEntry, TypeOK, Progress, Slots, EntriesBefore
<1>6. Mirror'
  BY <1>1 DEF SeekEntry, TypeOK, Progress, Position, Mirror, Fits, InFlight
<1>7. PriorKept'
  BY <1>1 DEF SeekEntry, TypeOK, Progress, Position, PriorKept
<1>8. QED
  BY <1>2, <1>3, <1>4, <1>5, <1>6, <1>7 DEF IInv

\* The entry is written to its slot in the file.
LEMMA PutEntryIInv == ASSUME IInv, PutEntry PROVE IInv'
<1>1. /\ file' \in Seq(Cell) /\ Len(file') = Len(file)
      /\ \A i \in 1..Len(file) : i # start + curr_idx + 1 => file'[i] = file[i]
      /\ file'[start + curr_idx + 1] = buffer[DirPos + curr_idx]
  <2>1. /\ file \in Seq(Cell) /\ buffer \in Seq(Cell) /\ fpos = start + curr_idx
        /\ fpos \in 0..Len(file) /\ fpos + 1 <= Len(file) /\ DirPos + curr_idx \in 1..Len(buffer)
    BY StreamsFacts DEF IInv, num_writers, DirPos, PutEntry, At, TypeOK, Progress, Position,
       Slots, EntriesBefore
  <2>2. \A x \in Cell : <<x>> \in Seq(Cell) /\ Len(<<x>>) = 1
    OBVIOUS
  <2>3. ASSUME NEW x \in Cell
        PROVE  /\ WriteAt(file, fpos, <<x>>) \in Seq(Cell) /\ Len(WriteAt(file, fpos, <<x>>)) = Len(file)
               /\ \A i \in 1..Len(file) : i # start + curr_idx + 1 => WriteAt(file, fpos, <<x>>)[i] = file[i]
               /\ WriteAt(file, fpos, <<x>>)[fpos + 1] = x
    <3> DEFINE w == WriteAt(file, fpos, <<x>>)
    <3>1. /\ w \in Seq(Cell)
          /\ Len(w) = IF Len(file) < fpos + Len(<<x>>) THEN fpos + Len(<<x>>) ELSE Len(file)
          /\ \A i \in 1..Len(<<x>>) : w[fpos + i] = <<x>>[i]
          /\ \A i \in 1..Len(file) : i <= fpos \/ fpos + Len(<<x>>) < i => w[i] = file[i]
      BY Zenon, <2>1, <2>2, WriteAtFacts
    <3>2. 1 \in 1..Len(<<x>>) /\ <<x>>[1] = x /\ Len(<<x>>) = 1
      BY <2>2
    <3>3. w[fpos + 1] = x
      BY <3>1, <3>2
    <3> HIDE DEF w
    <3>4. Len(w) = Len(file)
      BY <2>1, <3>1, <3>2
    <3>5. \A i \in 1..Len(file) : i # start + curr_idx + 1 => w[i] = file[i]
      BY <2>1, <3>1, <3>2
    <3>6. QED
      BY <3>1, <3>3, <3>4, <3>5 DEF w
  <2>4. buffer[DirPos + curr_idx] \in Cell
    BY <2>1
  <2>5. file' = WriteAt(file, fpos, <<buffer[DirPos + curr_idx]>>)
    BY DEF PutEntry
  <2> HIDE DEF DirPos
  <2>6. QED
    BY <2>1, <2>3, <2>4, <2>5
<1> USE StreamsFacts, DirectoryAssumption, RvaModAssumption DEF IInv, At, Fail, dirvars,
       num_writers, DirPos
<1>2. TypeOK'
  BY <1>1 DEF PutEntry, TypeOK, Progress, Position, Slots, EntriesBefore
<1>3. Progress'
  BY <1>1 DEF PutEntry, TypeOK, Progress
<1>4. Position'
  BY <1>1 DEF PutEntry, TypeOK, Progress, Position, Slots
<1>5. Slots'
  BY <1>1 DEF PutEntry, TypeOK, Progress, Slots, EntriesBefore
<1>6. Mirror'
  <2> USE DEF TypeOK
  <2>1. /\ pc = "put" /\ InFlight = DirPos + curr_idx
        /\ last_pos' = last_pos /\ start' = start /\ buffer' = buffer
    BY DEF PutEntry, InFlight
  <2>2. SUFFICES ASSUME Fits, NEW i \in 1..last_pos PROVE file'[start + i] = buffer[i]
    BY <2>1 DEF Mirror, Fits
  <2>3. CASE i = DirPos + curr_idx
    BY <1>1, <2>3
  <2>4. CASE i # DirPos + curr_idx
    <3>1. file[start + i] = buffer[i]
      BY <2>1, <2>2, <2>4 DEF Mirror
    <3>2. start + i \in 1..Len(file) /\ start + i # start + curr_idx + 1
      BY <2>1, <2>4 DEF Position
    <3>3. QED
      BY <1>1, <3>1, <3>2
  <2>5. QED
    BY <2>3, <2>4
<1>7. PriorKept'
  <2>1. /\ pc = "put" /\ start' = start /\ pc' # "begin" /\ start \in Nat /\ start <= Len(file)
        /\ curr_idx \in Nat /\ Len(file) \in Nat
    BY DEF PutEntry, TypeOK, Position
  <2>2. \A i \in 1..start : i \in 1..Len(file) /\ i # start + curr_idx + 1
    BY <2>1
  <2>3. QED
    BY <1>1, <2>1, <2>2 DEF PriorKept
<1>8. QED
  BY <1>2, <1>3, <1>4, <1>5, <1>6, <1>7 DEF IInv

\* The file position is reset to the end of what was flushed.
LEMMA RestorePosIInv == ASSUME IInv, RestorePos PROVE IInv'
<1> USE StreamsFacts, DirectoryAssumption, RvaModAssumption DEF IInv, At, Fail, dirvars,
       num_writers, DirPos
<1>1. TypeOK'
  BY DEF RestorePos, TypeOK, Progress, Position, Slots, EntriesBefore
<1>2. Progress'
  BY DEF RestorePos, TypeOK, Progress
<1>3. Position'
  BY DEF RestorePos, TypeOK, Progress, Position, Slots
<1>4. Slots'
  BY DEF RestorePos, TypeOK, Progress, Slots, EntriesBefore
<1>5. Mirror'
  BY DEF RestorePos, TypeOK, Progress, Position, Mirror, Fits, InFlight
<1>6. PriorKept'
  BY DEF RestorePos, TypeOK, Progress, Position, PriorKept
<1>7. QED
  BY <1>1, <1>2, <1>3, <1>4, <1>5, <1>6 DEF IInv

\* A write of the entry that fails may tear its slot in the file.
LEMMA PutEntryFailsIInv == ASSUME IInv, PutEntryFails PROVE IInv'
<1>1. /\ file' \in Seq(Cell) /\ Len(file') = Len(file)
      /\ \A i \in 1..Len(file) : i # start + curr_idx + 1 => file'[i] = file[i]
  <2>1. /\ file \in Seq(Cell) /\ fpos = start + curr_idx /\ Torn \in Cell
        /\ fpos \in 0..Len(file) /\ fpos + 1 <= Len(file)
    BY StreamsFacts DEF IInv, num_writers, PutEntryFails, At, TypeOK, Progress, Position, Cell
  <2>2. CASE file' = file
    BY <2>1, <2>2
  <2>3. CASE file' = WriteAt(file, fpos, <<Torn>>)
    <3> DEFINE w == WriteAt(file, fpos, <<Torn>>)
    <3>1. <<Torn>> \in Seq(Cell) /\ Len(<<Torn>>) = 1
      BY <2>1
    <3>2. /\ w \in Seq(Cell)
          /\ Len(w) = IF Len(file) < fpos + Len(<<Torn>>) THEN fpos + Len(<<Torn>>) ELSE Len(file)
          /\ \A i \in 1..Len(file) : i <= fpos \/ fpos + Len(<<Torn>>) < i => w[i] = file[i]
      BY Zenon, <2>1, <3>1, WriteAtFacts
    <3> HIDE DEF w
    <3>3. Len(w) = Len(file)
      BY <2>1, <3>1, <3>2
    <3>4. \A i \in 1..Len(file) : i # start + curr_idx + 1 => w[i] = file[i]
      BY <2>1, <3>1, <3>2
    <3>5. QED
      BY <2>3, <3>2, <3>3, <3>4 DEF w
  <2>4. QED
    BY <2>2, <2>3 DEF PutEntryFails
<1> USE StreamsFacts, DirectoryAssumption, RvaModAssumption DEF IInv, At, Fail, dirvars,
       num_writers, DirPos
<1>2. TypeOK'
  BY <1>1 DEF PutEntryFails, TypeOK, Progress, Position, Slots, EntriesBefore
<1>3. Progress'
  BY <1>1 DEF PutEntryFails, TypeOK, Progress
<1>4. Position'
  BY <1>1 DEF PutEntryFails, TypeOK, Progress, Position, Slots
<1>5. Slots'
  BY <1>1 DEF PutEntryFails, TypeOK, Progress, Slots, EntriesBefore
<1>6. Mirror'
  <2> USE DEF TypeOK
  <2>1. /\ pc = "put" /\ pc' = "put" /\ curr_idx' = curr_idx /\ InFlight = DirPos + curr_idx
        /\ last_pos' = last_pos /\ start' = start /\ buffer' = buffer
    BY DEF PutEntryFails, InFlight
  <2>2. InFlight' = DirPos + curr_idx
    BY <2>1 DEF InFlight
  <2>3. SUFFICES ASSUME Fits, NEW i \in 1..last_pos, i # DirPos + curr_idx
                 PROVE  file'[start + i] = buffer[i]
    BY Zenon, <2>1, <2>2 DEF Mirror, Fits
  <2>4. file[start + i] = buffer[i]
    BY <2>1, <2>3, SMTT(20) DEF Mirror
  <2>5. start + i \in 1..Len(file) /\ start + i # start + curr_idx + 1
    BY <2>1, <2>3, SMTT(20) DEF Position
  <2>6. QED
    BY Zenon, <1>1, <2>4, <2>5
<1>7. PriorKept'
  <2>1. /\ pc = "put" /\ start' = start /\ pc' # "begin" /\ start \in Nat /\ start <= Len(file)
        /\ curr_idx \in Nat /\ Len(file) \in Nat
    BY DEF PutEntryFails, TypeOK, Position
  <2>2. \A i \in 1..start : i \in 1..Len(file) /\ i # start + curr_idx + 1
    BY <2>1
  <2>3. QED
    BY <1>1, <2>1, <2>2 DEF PriorKept
<1>8. QED
  BY <1>2, <1>3, <1>4, <1>5, <1>6, <1>7 DEF IInv

\* What write_all appends to the file leaves what was flushed before alone.
LEMMA Appended ==
  ASSUME IInv, pc = "flush", NEW c \in Seq(Cell)
  PROVE  LET w == WriteAt(file, fpos, c)
         IN  /\ w \in Seq(Cell) /\ Len(w) >= Len(file) /\ Len(w) >= fpos + Len(c)
             /\ \A i \in 1..Len(c) : w[fpos + i] = c[i]
             /\ \A i \in 1..fpos : w[i] = file[i]
<1>1. file \in Seq(Cell) /\ fpos \in 0..Len(file) /\ Len(file) \in Nat /\ Len(c) \in Nat
  BY DEF IInv, TypeOK
<1> DEFINE w == WriteAt(file, fpos, c)
<1>2. /\ w \in Seq(Cell)
      /\ Len(w) = IF Len(file) < fpos + Len(c) THEN fpos + Len(c) ELSE Len(file)
      /\ \A i \in 1..Len(c) : w[fpos + i] = c[i]
      /\ \A i \in 1..Len(file) : i <= fpos \/ fpos + Len(c) < i => w[i] = file[i]
  BY <1>1, WriteAtFacts
<1> HIDE DEF w
<1>3. Len(w) >= Len(file) /\ Len(w) >= fpos + Len(c)
  BY <1>1, <1>2
<1>4. \A i \in 1..fpos : w[i] = file[i]
  BY <1>1, <1>2
<1>5. QED
  BY <1>2, <1>3, <1>4 DEF w

\* write_to_file writes the image from last_position_written_to_file on.
LEMMA UnwrittenFacts ==
  ASSUME IInv
  PROVE  /\ Unwritten \in Seq(Cell) /\ Len(Unwritten) = Len(buffer) - last_pos
         /\ \A i \in 1..Len(Unwritten) : Unwritten[i] = buffer[last_pos + i]
  BY DEF IInv, TypeOK, Unwritten

\* write_to_file appends what is new in the image.
LEMMA FlushIInv == ASSUME IInv, Flush PROVE IInv'
<1>1. /\ file' \in Seq(Cell) /\ Len(file') >= Len(file) /\ Len(file') >= fpos + Len(Unwritten)
      /\ \A i \in 1..Len(Unwritten) : file'[fpos + i] = Unwritten[i]
      /\ \A i \in 1..fpos : file'[i] = file[i]
  BY Zenon, Appended, UnwrittenFacts DEF Flush, At
<1>2. /\ Len(Unwritten) = Len(buffer) - last_pos
      /\ \A i \in 1..Len(Unwritten) : Unwritten[i] = buffer[last_pos + i]
  BY UnwrittenFacts
<1>3. fpos' = fpos + Len(Unwritten)
  BY DEF Flush
<1>4. Len(file') \in Nat /\ Len(file) \in Nat /\ Len(buffer) \in Nat
  BY <1>1 DEF IInv, TypeOK
<1> HIDE DEF Unwritten
<1> USE StreamsFacts, DirectoryAssumption, RvaModAssumption DEF IInv, At, Fail, dirvars,
       num_writers, DirPos
<1>5. TypeOK'
  BY <1>1, <1>2, <1>3, <1>4 DEF Flush, TypeOK, Progress, Position, Slots, EntriesBefore
<1>6. Progress'
  BY <1>1, <1>2, <1>3, <1>4 DEF Flush, TypeOK, Progress
<1>7. Position'
  BY <1>1, <1>2, <1>3, <1>4 DEF Flush, TypeOK, Progress, Position, Slots
<1>8. Slots'
  BY <1>1, <1>2, <1>3, <1>4 DEF Flush, TypeOK, Progress, Slots, EntriesBefore
<1>9. Mirror'
  <2>1. /\ pc = "flush" /\ InFlight = 0 /\ fpos = start + last_pos /\ last_pos' = Len(buffer)
        /\ start' = start /\ buffer' = buffer /\ start \in Nat /\ last_pos \in 0..Len(buffer)
    BY DEF Flush, InFlight, TypeOK, Position
  <2>2. SUFFICES ASSUME Fits, NEW i \in 1..Len(buffer) PROVE file'[start + i] = buffer[i]
    BY <2>1 DEF Mirror, Fits
  <2>3. CASE i <= last_pos
    <3>1. i \in 1..last_pos /\ start + i \in 1..fpos /\ i # 0
      BY <1>4, <2>1, <2>3
    <3>2. file[start + i] = buffer[i]
      BY <2>1, <2>2, <3>1 DEF Mirror
    <3>3. QED
      BY <1>1, <3>1, <3>2
  <2>4. CASE last_pos < i
    <3>1. /\ i - last_pos \in 1..Len(Unwritten) /\ fpos + (i - last_pos) = start + i
          /\ last_pos + (i - last_pos) = i
      BY <1>2, <1>4, <2>1, <2>4
    <3>2. file'[fpos + (i - last_pos)] = buffer[last_pos + (i - last_pos)]
      BY <1>1, <1>2, <3>1
    <3>3. QED
      BY <3>1, <3>2
  <2>5. QED
    BY <2>1, <2>3, <2>4
<1>10. PriorKept'
  <2>1. /\ pc # "begin" /\ pc' # "begin" /\ start' = start /\ start \in Nat /\ start <= fpos /\ fpos \in Nat
    BY <1>4 DEF Flush, TypeOK, Position
  <2>2. \A i \in 1..start : i \in 1..fpos
    BY <2>1
  <2>3. QED
    BY <1>1, <2>1, <2>2 DEF PriorKept
<1>11. QED
  BY <1>5, <1>6, <1>7, <1>8, <1>9, <1>10 DEF IInv

\* A flush that fails half-way has only written past what was flushed before.
LEMMA FlushFailsIInv == ASSUME IInv, NEW n \in Nat, FlushFails(n) PROVE IInv'
<1>1. SubSeq(Unwritten, 1, n) \in Seq(Cell)
  BY UnwrittenFacts DEF FlushFails
<1>2. /\ file' \in Seq(Cell) /\ Len(file') >= Len(file)
      /\ \A i \in 1..fpos : file'[i] = file[i]
  BY Zenon, <1>1, Appended DEF FlushFails, At
<1>3. Len(file') \in Nat /\ Len(file) \in Nat /\ Len(buffer) \in Nat
  BY <1>2 DEF IInv, TypeOK
<1> HIDE DEF Unwritten
<1> USE StreamsFacts, DirectoryAssumption, RvaModAssumption DEF IInv, At, Fail, dirvars,
       num_writers, DirPos
<1>4. TypeOK'
  BY <1>2, <1>3 DEF FlushFails, TypeOK, Progress, Position, Slots, EntriesBefore
<1>5. Progress'
  BY <1>2, <1>3 DEF FlushFails, TypeOK, Progress
<1>6. Position'
  BY <1>2, <1>3 DEF FlushFails, TypeOK, Progress, Position, Slots
<1>7. Slots'
  BY <1>2, <1>3 DEF FlushFails, TypeOK, Progress, Slots, EntriesBefore
<1>8. Mirror'
  <2>1. /\ pc = "flush" /\ pc' = "flush" /\ fpos = start + last_pos /\ last_pos' = last_pos
        /\ start' = start /\ buffer' = buffer /\ start \in Nat /\ last_pos \in 0..Len(buffer)
    BY DEF FlushFails, TypeOK, Position
  <2>2. InFlight = 0
    BY <2>1 DEF InFlight
  <2>3. SUFFICES ASSUME Fits, NEW i \in 1..last_pos PROVE file'[start + i] = buffer[i]
    BY <2>1 DEF Mirror, Fits
  <2>4. start + i \in 1..fpos /\ i # 0
    BY <1>3, <2>1
  <2>5. file[start + i] = buffer[i]
    BY <2>1, <2>2, <2>3, <2>4 DEF Mirror
  <2>6. QED
    BY <1>2, <2>4, <2>5
<1>9. PriorKept'
  <2>1. /\ pc # "begin" /\ pc' # "begin" /\ start' = start /\ start \in Nat /\ start <= fpos /\ fpos \in Nat
    BY <1>3 DEF FlushFails, TypeOK, Position
  <2>2. \A i \in 1..start : i \in 1..fpos
    BY <2>1
  <2>3. QED
    BY <1>2, <2>1, <2>2 DEF PriorKept
<1>10. QED
  BY <1>4, <1>5, <1>6, <1>7, <1>8, <1>9 DEF IInv

\* A failing seek returns with the file as it is.
LEMMA IoErrorIInv == ASSUME IInv, IoError PROVE IInv'
<1>1. /\ buffer' \in Seq(Cell) /\ Len(buffer') = Len(buffer)
      /\ pc # "entry" => buffer' = buffer
      /\ \A i \in 1..Len(buffer) : i # DirPos + curr_idx + 1 => buffer'[i] = buffer[i]
  <2>1. CASE pc = "entry"
    BY <2>1, EntryStored DEF IoError
  <2>2. CASE pc # "entry"
    BY <2>2 DEF IoError, IInv, TypeOK
  <2>3. QED
    BY <2>1, <2>2
<1> USE StreamsFacts, DirectoryAssumption, RvaModAssumption DEF IInv, At, Fail, dirvars,
       num_writers, DirPos
<1>2. TypeOK'
  BY <1>1 DEF IoError, TypeOK, Progress, Position, Slots, EntriesBefore
<1>3. Progress'
  BY <1>1 DEF IoError, TypeOK, Progress
<1>4. Position'
  BY <1>1 DEF IoError, TypeOK, Progress, Position, Slots
<1>5. Slots'
  BY <1>1 DEF IoError, TypeOK, Progress, Slots, EntriesBefore
<1>6. Mirror'
  <2>1. /\ pc' = pc /\ curr_idx' = curr_idx /\ last_pos' = last_pos /\ start' = start /\ file' = file
        /\ last_pos \in 0..Len(buffer) /\ Len(buffer) \in Nat
    BY DEF IoError, TypeOK
  <2>2. InFlight' = InFlight
    BY <2>1 DEF InFlight
  <2>3. SUFFICES ASSUME Fits, pc # "begin", NEW i \in 1..last_pos, i # InFlight
                 PROVE  file[start + i] = buffer'[i]
    BY <1>1, <2>1, <2>2 DEF Mirror, Fits
  <2>4. file[start + i] = buffer[i]
    BY <2>3 DEF Mirror
  <2>5. buffer'[i] = buffer[i]
    <3>1. CASE pc = "entry"
      <4>1. InFlight = DirPos + curr_idx + 1
        BY <3>1 DEF InFlight
      <4>2. QED
        BY <1>1, <2>1, <2>3, <4>1
    <3>2. CASE pc # "entry"
      BY <1>1, <3>2
    <3>3. QED
      BY <3>1, <3>2
  <2>6. QED
    BY <2>4, <2>5
<1>7. PriorKept'
  BY <1>1 DEF IoError, TypeOK, Progress, Position, PriorKept
<1>8. QED
  BY <1>2, <1>3, <1>4, <1>5, <1>6, <1>7 DEF IInv

-----------------------------------------------------------------------------
\* Every step of write_dump keeps the invariant.
LEMMA NextIInv == IInv /\ [Next]_vars => IInv'
<1> SUFFICES ASSUME IInv, [Next]_vars PROVE IInv'
  OBVIOUS
<1>1. ASSUME NEW n \in 0..Len(buffer), FlushFails(n) PROVE IInv'
  <2>1. n \in Nat
    BY DEF IInv, TypeOK
  <2>2. QED
    BY <1>1, <2>1, FlushFailsIInv
<1>2. ASSUME NEW shape \in (IF pc = "stream" THEN Shapes[step] ELSE {}),
             \/ StreamOk(shape)
             \/ \E n \in 0..Extent(shape) : StreamSoftError(n) \/ StreamHardError(n)
      PROVE  IInv'
  <2>1. pc = "stream" /\ shape \in Shapes[step]
    OBVIOUS
  <2>2. step \in 1..Len(Streams)
    BY <2>1 DEF IInv, Progress
  <2>3. shape \in Shape
    BY <2>1, <2>2, ShapesAssumption
  <2>4. Extent(shape) \in Nat
    BY <2>3 DEF Shape, Extent
  <2>5. QED
    BY <1>2, <2>3, <2>4, StreamOkIInv, StreamSoftErrorIInv, StreamHardErrorIInv
<1>3. CASE UNCHANGED vars
  BY <1>3 DEF vars, dirvars, IInv, TypeOK, Progress, Position, Slots, Mirror, Fits, InFlight,
     PriorKept,
              Cell, None
<1>4. QED
  BY <1>1, <1>2, <1>3, BeginIInv, SetEntryIInv, SeekEntryIInv, PutEntryIInv, PutEntryFailsIInv,
     RestorePosIInv, FlushIInv, IoErrorIInv DEF Next

\* write_dump never leaves the inductive invariant, whatever the streams, the
\* destination and the order of the failures.
THEOREM DumpInvariantCorrect == Spec => []IInv
  BY InitIInv, NextIInv, PTL DEF Spec

\* The positions stay within the image and the file, and the directory never
\* overflows its num_writers slots: dump_dir_entry always has a slot left.
THEOREM DumpTypeCorrect == Spec => []TypeOK
<1>1. IInv => TypeOK
  BY DEF IInv
<1>2. QED
  BY <1>1, DumpInvariantCorrect, PTL

\* While the image is at most 4 GiB, everything write_to_file has flushed is in
\* the file, unchanged, at its place, but for the entry being stored.
THEOREM FileMirrorsCorrect == Spec => [](Fits => FileMirrorsImage)
<1>1. IInv => (Fits => FileMirrorsImage)
  <2> SUFFICES ASSUME IInv, Fits PROVE FileMirrorsImage
    OBVIOUS
  <2>1. CASE pc = "begin"
    BY <2>1 DEF IInv, TypeOK, Progress, FileMirrorsImage
  <2>2. CASE pc # "begin"
    BY <2>2 DEF IInv, Position, Mirror, FileMirrorsImage
  <2>3. QED
    BY <2>1, <2>2
<1>2. QED
  BY <1>1, DumpInvariantCorrect, PTL

\* After a successful write of an image of at most 4 GiB, the destination holds
\* exactly the bytes that were returned to the caller.
THEOREM FileIsImageCorrect == Spec => [](Fits => FileIsImage)
<1>1. IInv => (Fits => FileIsImage)
  <2> SUFFICES ASSUME IInv, Fits, result = "ok" PROVE FileIsImage
    BY DEF FileIsImage
  <2>1. pc = "done" /\ last_pos = Len(buffer)
    BY DEF IInv, Progress
  <2>2. /\ file \in Seq(Cell) /\ buffer \in Seq(Cell) /\ start \in Nat
        /\ start + Len(buffer) <= Len(file)
    BY <2>1 DEF IInv, TypeOK, Position
  <2>3. InFlight = 0
    BY <2>1 DEF InFlight
  <2>4. \A i \in 1..Len(buffer) : file[start + i] = buffer[i]
    BY <2>1, <2>2, <2>3 DEF IInv, Mirror
  <2> DEFINE part == SubSeq(file, start + 1, start + Len(buffer))
  <2>5. /\ part \in Seq(Cell) /\ Len(part) = Len(buffer)
        /\ \A i \in 1..Len(buffer) : part[i] = file[start + i]
    BY <2>2
  <2> HIDE DEF part
  <2>6. part = buffer
    BY <2>2, <2>4, <2>5
  <2>7. QED
    BY <2>2, <2>6 DEF FileIsImage, part
<1>2. QED
  BY <1>1, DumpInvariantCorrect, PTL

\* Whatever its size and wherever it fails, a dump never changes what the
\* destination held before the position it was handed over at.
THEOREM PriorKeptCorrect == Spec => []PriorKept
<1>1. IInv => PriorKept
  BY DEF IInv
<1>2. QED
  BY <1>1, DumpInvariantCorrect, PTL

-----------------------------------------------------------------------------
(***************************************************************************)
(* The directory: what its slots hold at every point, in the image and in  *)
(* the file, and the refinement of Minidump that follows from it.          *)
(***************************************************************************)
\* The image is below 4 GiB, so that no position in it is truncated.
Below == Len(buffer) < RvaMod

\* The stream whose entry is in slot j
StreamOf(j) == IF j < 3 THEN j ELSE j + 1

\* Entry e tells the truth about stream k: unused, which only a soft error
\* leaves, or pointing at all of the stream's data, below `limit` in image b
\* and beyond the directory.
Described(b, k, e, limit) ==
    \/ e = Zero /\ ~Streams[k].hard
    \/ \E s \in Shapes[k] : \E p \in Nat :
          /\ num_writers + 1 <= p /\ p + Extent(s) <= limit
          /\ e = <<"entry", k, p + s.pre, s.len>>
          /\ \A i \in 1..Extent(s) : b[p + i] = DataCell(k, i)

\* Slots with equality: every stream but app memory takes exactly one slot.
Exact ==
    /\ pc \in {"stream", "entry"} => curr_idx = EntriesBefore(step)
    /\ pc \in {"seek", "put", "restore"} => curr_idx = EntriesBefore(step) + 1
    /\ pc = "flush" => curr_idx = EntriesBefore(step + 1)
    /\ pc = "done" => result = "ok" /\ step = Len(Streams) + 1

Stored == \A j \in 1..EntriesBefore(step) : Described(buffer, StreamOf(j), buffer[DirPos + j], last_pos)
Free == \A j \in 1..num_writers : j > EntriesBefore(step) + 1 => buffer[DirPos + j] = Zero
Vacant ==
    pc = "stream" \/ (pc = "flush" /\ step \in {0, 3})
        => buffer[DirPos + EntriesBefore(step) + 1] = Zero
Coming == pc = "entry" => Described(buffer, step, dirent, Len(buffer))
Current ==
    pc \in {"seek", "put", "restore"} \/ (pc = "flush" /\ step \notin {0, 3})
        => Described(buffer, step, buffer[DirPos + EntriesBefore(step) + 1], Len(buffer))
Directory ==
    Below /\ pc # "begin" =>
        buffer[1] = HeaderCell /\ Stored /\ Free /\ Vacant /\ Coming /\ Current

DInv == IInv /\ Exact /\ Directory

\* A tuple of nine elements, all but the third of which are in T.
LEMMA NineTupleEntries ==
  ASSUME NEW S, NEW T, T \subseteq S, NEW a \in T, NEW b \in T, NEW c \in S, NEW d \in T,
         NEW e \in T, NEW f \in T, NEW g \in T, NEW h \in T, NEW i \in T
  PROVE  /\ <<a, b, c, d, e, f, g, h, i>> \in Seq(S)
         /\ Len(<<a, b, c, d, e, f, g, h, i>>) = 9
         /\ \A k \in 1..9 : k # 3 => <<a, b, c, d, e, f, g, h, i>>[k] \in T
<1> DEFINE t == <<a, b, c, d, e, f, g, h, i>>
<1>1. t \in Seq(S) /\ Len(t) = 9
  OBVIOUS
<1>2. /\ t[1] = a /\ t[2] = b /\ t[4] = d /\ t[5] = e /\ t[6] = f /\ t[7] = g
      /\ t[8] = h /\ t[9] = i
  OBVIOUS
<1> HIDE DEF t
<1>3. \A k \in 1..9 : k # 3 => t[k] \in T
  <2> SUFFICES ASSUME NEW k \in 1..9, k # 3 PROVE t[k] \in T
    OBVIOUS
  <2>1. k \in {1, 2, 4, 5, 6, 7, 8, 9}
    OBVIOUS
  <2>2. QED
    BY <1>2, <2>1
<1>4. QED
  BY <1>1, <1>3 DEF t

\* Every stream but the third, app memory, has a directory entry.
LEMMA StreamEntries == \A k \in 1..Len(Streams) : Streams[k].entry <=> k # 3
<1> DEFINE WithEntry == {r \in StreamRecord : r.entry}
<1>1. \A name \in Names, h, p \in BOOLEAN : Stream(name, TRUE, h, p) \in WithEntry
  BY DEF Stream, StreamRecord
<1>2. \A name \in Names : ProcFile(name) \in WithEntry
  BY Zenon, <1>1 DEF ProcFile
<1> HIDE DEF WithEntry
<1> DEFINE middle == IF Android THEN << >> ELSE << ProcFile("LinuxLsbRelease") >>
           first == << Stream("ThreadList", TRUE, TRUE, TRUE),      Stream("ModuleList", TRUE, TRUE, TRUE),
                       Stream("AppMemory", FALSE, TRUE, FALSE),     Stream("MemoryList", TRUE, TRUE, FALSE),
                       Stream("Exception", TRUE, TRUE, FALSE),      Stream("SystemInfo", TRUE, TRUE, TRUE),
                       Stream("MemoryInfoList", TRUE, TRUE, FALSE), ProcFile("LinuxCpuInfo"),
                       ProcFile("LinuxProcStatus") >>
           last == << ProcFile("LinuxCmdLine"), ProcFile("LinuxEnviron"), ProcFile("LinuxAuxv"),
                      ProcFile("LinuxMaps"),                   Stream("LinuxDsoDebug", TRUE, FALSE, TRUE),
                      ProcFile("MozLinuxLimits"),              Stream("ThreadNames", TRUE, TRUE, TRUE),
                      Stream("HandleData", TRUE, FALSE, TRUE), ProcFile("MozSoftErrors") >>
<1>3. Streams = (first \o middle) \o last
  BY DEF Streams
<1>4. middle \in Seq(WithEntry)
  <2>1. ProcFile("LinuxLsbRelease") \in WithEntry
    BY <1>2 DEF Names
  <2>2. QED
    BY <2>1
<1>5. last \in Seq(WithEntry)
  <2>1. /\ ProcFile("LinuxCmdLine") \in WithEntry /\ ProcFile("LinuxEnviron") \in WithEntry
        /\ ProcFile("LinuxAuxv") \in WithEntry /\ ProcFile("LinuxMaps") \in WithEntry
        /\ Stream("LinuxDsoDebug", TRUE, FALSE, TRUE) \in WithEntry
        /\ ProcFile("MozLinuxLimits") \in WithEntry
        /\ Stream("ThreadNames", TRUE, TRUE, TRUE) \in WithEntry
        /\ Stream("HandleData", TRUE, FALSE, TRUE) \in WithEntry
        /\ ProcFile("MozSoftErrors") \in WithEntry
    BY Zenon, <1>1, <1>2 DEF Names
  <2>2. QED
    BY Zenon, <2>1, NineTuple
<1>6. first \in Seq(StreamRecord) /\ Len(first) = 9
      /\ \A i \in 1..9 : i # 3 => first[i] \in WithEntry
  <2>1. /\ Stream("ThreadList", TRUE, TRUE, TRUE) \in WithEntry
        /\ Stream("ModuleList", TRUE, TRUE, TRUE) \in WithEntry
        /\ Stream("MemoryList", TRUE, TRUE, FALSE) \in WithEntry
        /\ Stream("Exception", TRUE, TRUE, FALSE) \in WithEntry
        /\ Stream("SystemInfo", TRUE, TRUE, TRUE) \in WithEntry
        /\ Stream("MemoryInfoList", TRUE, TRUE, FALSE) \in WithEntry
        /\ ProcFile("LinuxCpuInfo") \in WithEntry /\ ProcFile("LinuxProcStatus") \in WithEntry
    BY Zenon, <1>1, <1>2 DEF Names
  <2>2. Stream("AppMemory", FALSE, TRUE, FALSE) \in StreamRecord
    BY DEF Stream, StreamRecord, Names
  <2>3. WithEntry \subseteq StreamRecord
    BY DEF WithEntry
  <2>4. QED
    BY Zenon, <2>1, <2>2, <2>3, NineTupleEntries
<1> HIDE DEF first, middle, last
<1>7. \A i \in 1..Len(Streams) : i # 3 => Streams[i] \in WithEntry
  <2> SUFFICES ASSUME NEW i \in 1..Len(Streams), i # 3 PROVE Streams[i] \in WithEntry
    OBVIOUS
  <2> DEFINE ab == first \o middle
  <2>1. first \in Seq(StreamRecord) /\ middle \in Seq(StreamRecord) /\ last \in Seq(StreamRecord)
    BY <1>4, <1>5, <1>6 DEF WithEntry
  <2>2. ab \in Seq(StreamRecord) /\ Len(ab) = Len(first) + Len(middle)
        /\ \A j \in 1..(Len(first) + Len(middle)) :
              ab[j] = IF j <= Len(first) THEN first[j] ELSE middle[j - Len(first)]
    BY Zenon, <2>1, ConcatIs
  <2> HIDE DEF ab
  <2>3. Len(middle) \in Nat /\ Len(last) \in Nat /\ Len(ab) \in Nat
        /\ (\A j \in 1..Len(middle) : middle[j] \in WithEntry)
        /\ (\A j \in 1..Len(last) : last[j] \in WithEntry)
    BY <1>4, <1>5, <2>2
  <2>4. \A j \in 1..Len(ab) : j # 3 => ab[j] \in WithEntry
    <3> SUFFICES ASSUME NEW j \in 1..Len(ab), j # 3 PROVE ab[j] \in WithEntry
      OBVIOUS
    <3>1. CASE j <= 9
      BY <3>1, <2>2, <2>3, <1>6
    <3>2. CASE j > 9
      <4>1. j - 9 \in 1..Len(middle) /\ ab[j] = middle[j - 9]
        BY <3>2, <2>2, <2>3, <1>6
      <4>2. QED
        BY <4>1, <2>3
    <3>3. QED
      BY <3>1, <3>2, <2>3
  <2>5. /\ ab \o last \in Seq(StreamRecord)
        /\ Len(ab \o last) = Len(ab) + Len(last)
        /\ \A j \in 1..(Len(ab) + Len(last)) :
              (ab \o last)[j] = IF j <= Len(ab) THEN ab[j] ELSE last[j - Len(ab)]
    <3>1. ab \in Seq(StreamRecord) /\ last \in Seq(StreamRecord)
      BY <2>1, <2>2
    <3>2. QED
      BY Zenon, <3>1, ConcatIs
  <2>6. Streams = ab \o last
    BY Zenon, <1>3 DEF ab
  <2>7. Len(Streams) = Len(ab) + Len(last)
        /\ Streams[i] = IF i <= Len(ab) THEN ab[i] ELSE last[i - Len(ab)]
    BY <2>5, <2>6
  <2>8. CASE i <= Len(ab)
    BY <2>3, <2>4, <2>7, <2>8
  <2>9. CASE i > Len(ab)
    <3>1. i - Len(ab) \in 1..Len(last) /\ Streams[i] = last[i - Len(ab)]
      BY <2>3, <2>7, <2>9
    <3>2. QED
      BY <3>1, <2>3
  <2>10. QED
    BY <2>3, <2>8, <2>9
<1>8. QED
  BY <1>7, StreamsFacts DEF WithEntry

\* A stream's data is appended to the image cell by cell.
LEMMA WithDataCells ==
  ASSUME buffer \in Seq(Cell), step \in Nat, NEW n \in Nat, Len(buffer) + n < RvaMod
  PROVE  \A i \in 1..n : WithData(n)[Len(buffer) + i] = DataCell(step, i)
<1> DEFINE d == Data(step, n)
<1>1. d \in Seq(Cell) /\ Len(d) = n
  BY DataFacts
<1>2. \A i \in 1..n : d[i] = DataCell(step, i)
  BY DEF Data
<1> HIDE DEF d
<1>3. Len(buffer) \in 0..Len(buffer)
  OBVIOUS
<1>4. \A i \in 1..Len(d) : WriteAt(buffer, Len(buffer), d)[Len(buffer) + i] = d[i]
  BY Zenon, <1>1, <1>3, WriteAtFacts
<1> DEFINE r == Reserve(buffer, n)
<1>5. r \in Seq(Cell) /\ Len(r) = Len(buffer) + n
  BY Zenon, ReserveFacts
<1> HIDE DEF r
<1>6. Rva(Len(buffer)) = Len(buffer) /\ Len(buffer) \in 0..Len(r)
  <2>1. Len(buffer) \in Nat /\ Len(buffer) < RvaMod
    BY RvaModAssumption
  <2>2. QED
    BY <1>5, <2>1, RvaSmall
<1>7. \A i \in 1..Len(d) : WriteAt(r, Len(buffer), d)[Len(buffer) + i] = d[i]
  BY Zenon, <1>1, <1>5, <1>6, WriteAtFacts
<1>8. WithData(n) = WriteAt(r, Len(buffer), d) \/ WithData(n) = WriteAt(buffer, Len(buffer), d)
  BY <1>1, <1>6 DEF WithData, AllocArray, WriteAll, r, d
<1>9. QED
  BY <1>1, <1>2, <1>4, <1>7, <1>8

\* A truthful entry stays truthful while the image only changes within the
\* directory and grows.
LEMMA DescribedKept ==
  ASSUME NEW b, NEW c, NEW k, NEW e, NEW l \in Nat, NEW m \in Nat, l <= m,
         \A i \in 1..l : num_writers + 1 < i => c[i] = b[i],
         \A s \in Shapes[k] : Extent(s) \in Nat,
         Described(b, k, e, l)
  PROVE  Described(c, k, e, m)
<1>1. CASE e = Zero /\ ~Streams[k].hard
  BY <1>1 DEF Described
<1>2. CASE ~(e = Zero /\ ~Streams[k].hard)
  <2>1. PICK s \in Shapes[k], p \in Nat :
          /\ num_writers + 1 <= p /\ p + Extent(s) <= l
          /\ e = <<"entry", k, p + s.pre, s.len>>
          /\ \A i \in 1..Extent(s) : b[p + i] = DataCell(k, i)
    BY Zenon, <1>2 DEF Described
  <2>2. Extent(s) \in Nat
    OBVIOUS
  <2>3. p + Extent(s) <= m
    BY <2>1, <2>2
  <2>4. \A i \in 1..Extent(s) : c[p + i] = DataCell(k, i)
    <3> SUFFICES ASSUME NEW i \in 1..Extent(s) PROVE c[p + i] = DataCell(k, i)
      OBVIOUS
    <3>1. p + i \in 1..l /\ num_writers + 1 < p + i
      BY <2>1, <2>2 DEF num_writers
    <3>2. QED
      BY <2>1, <3>1
  <2>5. QED
    BY Zenon, <2>1, <2>3, <2>4 DEF Described
<1>3. QED
  BY <1>1, <1>2

\* The shapes of a stream are sizes.
LEMMA ShapeFacts ==
  ASSUME NEW k \in 1..Len(Streams), NEW s \in Shapes[k]
  PROVE  /\ s \in Shape /\ s.pre \in Nat /\ s.len \in Nat /\ s.post \in Nat
         /\ Extent(s) \in Nat /\ Extent(s) = s.pre + s.len + s.post
<1>1. s \in Shape
  BY ShapesAssumption
<1>2. QED
  BY <1>1 DEF Shape, Extent

-----------------------------------------------------------------------------
\* What the invariant says about the sizes.
LEMMA Basics ==
  ASSUME IInv
  PROVE  /\ buffer \in Seq(Cell) /\ file \in Seq(Cell) /\ Len(buffer) \in Nat /\ Len(file) \in Nat
         /\ start \in Nat /\ last_pos \in Nat /\ last_pos <= Len(buffer) /\ curr_idx \in Nat
         /\ step \in 0..(Len(Streams) + 1) /\ step \in Nat /\ Len(Streams) \in Nat /\ 18 <= Len(Streams) /\ Len(Streams) <= 19
         /\ EntriesBefore(step) \in Nat /\ EntriesBefore(step) <= num_writers
         /\ (step <= Len(Streams) => EntriesBefore(step) < num_writers)
         /\ (pc # "begin" => num_writers + 1 <= Len(buffer))
         /\ (step > 0 => num_writers + 1 <= last_pos)
         /\ (pc \in {"stream", "entry", "seek", "put", "restore"} => step \in 1..Len(Streams))
         /\ (pc \in {"entry", "seek", "put", "restore"} => step # 3)
         /\ (pc = "flush" => step <= Len(Streams))
<1>1. Len(Streams) \in Nat /\ 18 <= Len(Streams) /\ Len(Streams) <= 19
  BY StreamsFacts
<1>2. /\ buffer \in Seq(Cell) /\ file \in Seq(Cell)
      /\ start \in Nat /\ last_pos \in 0..Len(buffer) /\ curr_idx \in 0..num_writers
      /\ step \in 0..(Len(Streams) + 1)
  BY DEF IInv, TypeOK
<1>3. /\ (pc # "begin" => num_writers + 1 <= Len(buffer))
      /\ (step > 0 => num_writers + 1 <= last_pos)
      /\ (pc \in {"stream", "entry", "seek", "put", "restore"} => step \in 1..Len(Streams))
      /\ (pc \in {"entry", "seek", "put", "restore"} => step # 3)
      /\ (pc = "flush" => step <= Len(Streams))
  BY DEF IInv, Progress
<1>4. Len(buffer) \in Nat /\ Len(file) \in Nat
  BY <1>2
<1>5. last_pos \in Nat /\ last_pos <= Len(buffer) /\ curr_idx \in Nat /\ step \in Nat
  BY <1>1, <1>2, <1>4
<1>6. EntriesBefore(step) \in Nat /\ EntriesBefore(step) <= num_writers
      /\ (step <= Len(Streams) => EntriesBefore(step) < num_writers)
  <2>1. step <= 20 /\ (step <= Len(Streams) => step <= 19)
    BY <1>1, <1>2
  <2>2. QED
    BY <1>5, <2>1 DEF EntriesBefore, num_writers
<1>7. QED
  BY <1>1, <1>2, <1>3, <1>4, <1>5, <1>6

\* A step that changes the image at most in the slot being filled, and beyond
\* its end, keeps the header, the filled slots and the free ones.
LEMMA KeepsSlots ==
  ASSUME IInv, Directory, pc # "begin", step <= Len(Streams), step' = step, last_pos' = last_pos,
         buffer' \in Seq(Cell), Len(buffer) <= Len(buffer'), Below',
         \A i \in 1..Len(buffer) : i # DirPos + EntriesBefore(step) + 1 => buffer'[i] = buffer[i]
  PROVE  Below /\ buffer'[1] = HeaderCell /\ Stored' /\ Free'
<1>1. Below
  BY Basics, RvaModAssumption DEF Below
<1>2. buffer[1] = HeaderCell /\ Stored /\ Free
  BY <1>1 DEF Directory
<1>3. /\ Len(buffer) \in Nat /\ num_writers + 1 <= Len(buffer) /\ last_pos \in Nat
      /\ last_pos <= Len(buffer) /\ EntriesBefore(step) \in Nat /\ EntriesBefore(step) < num_writers
      /\ Len(Streams) \in Nat /\ 18 <= Len(Streams) /\ Len(Streams) <= 19 /\ step \in Nat
  BY Basics
<1>4. buffer'[1] = HeaderCell
  BY <1>2, <1>3 DEF DirPos, num_writers
<1>5. \A i \in 1..last_pos : num_writers + 1 < i => buffer'[i] = buffer[i]
  BY <1>3 DEF DirPos, num_writers
<1>6. ASSUME NEW j \in 1..EntriesBefore(step)
      PROVE  Described(buffer', StreamOf(j), buffer'[DirPos + j], last_pos)
  <2>1. buffer'[DirPos + j] = buffer[DirPos + j]
    BY <1>3 DEF DirPos, num_writers
  <2>2. Described(buffer, StreamOf(j), buffer[DirPos + j], last_pos)
    BY <1>2 DEF Stored
  <2>3. StreamOf(j) \in 1..Len(Streams)
    BY <1>3 DEF StreamOf, EntriesBefore
  <2>4. \A s \in Shapes[StreamOf(j)] : Extent(s) \in Nat
    BY <2>3, ShapeFacts
  <2>5. last_pos <= last_pos
    BY <1>3
  <2>6. QED
    BY Zenon, <1>3, <1>5, <2>1, <2>2, <2>4, <2>5, DescribedKept
<1>7. Stored'
  BY <1>6 DEF Stored
<1>8. Free'
  <2> SUFFICES ASSUME NEW j \in 1..num_writers, j > EntriesBefore(step) + 1
               PROVE  buffer'[DirPos + j] = Zero
    BY DEF Free
  <2>1. buffer[DirPos + j] = Zero
    BY <1>2 DEF Free
  <2>2. buffer'[DirPos + j] = buffer[DirPos + j]
    BY <1>3 DEF DirPos, num_writers
  <2>3. QED
    BY <2>1, <2>2
<1>9. QED
  BY <1>1, <1>4, <1>7, <1>8

\* The slot count is exact before and after every step.
LEMMA ExactStep == ASSUME IInv, Exact, [Next]_vars PROVE Exact'
<1>1. /\ step \in Nat /\ Len(Streams) \in Nat /\ Len(Streams) > 3
      /\ (pc \in {"stream", "entry", "seek", "put", "restore"} => step \in 1..Len(Streams))
      /\ (pc \in {"entry", "seek", "put", "restore"} => step # 3)
      /\ (pc = "flush" => step <= Len(Streams))
  BY Basics
<1>2. pc = "begin" => curr_idx = 0 /\ step = 0
  BY DEF IInv, Progress
<1> USE <1>1, <1>2 DEF Exact, At, Fail, dirvars
<1>3. CASE Begin
  BY <1>3 DEF Begin, EntriesBefore
<1>4. CASE SetEntry
  BY <1>4 DEF SetEntry
<1>5. CASE SeekEntry
  BY <1>5 DEF SeekEntry
<1>6. CASE PutEntry
  BY <1>6 DEF PutEntry
<1>7. CASE PutEntryFails
  BY <1>7 DEF PutEntryFails
<1>8. CASE RestorePos
  <2>1. EntriesBefore(step) + 1 = EntriesBefore(step + 1)
    BY <1>8 DEF RestorePos, EntriesBefore
  <2>2. QED
    BY <1>8, <2>1 DEF RestorePos
<1>9. CASE Flush
  BY <1>9 DEF Flush
<1>10. CASE IoError
  BY <1>10 DEF IoError
<1>11. ASSUME NEW n, FlushFails(n) PROVE Exact'
  BY <1>11 DEF FlushFails
<1>12. ASSUME NEW shape, StreamOk(shape) PROVE Exact'
  <2>1. ~Streams[step].entry => EntriesBefore(step + 1) = EntriesBefore(step)
    BY <1>12, StreamEntries DEF StreamOk, EntriesBefore
  <2>2. QED
    BY <1>12, <2>1 DEF StreamOk
<1>13. ASSUME NEW n, StreamSoftError(n) PROVE Exact'
  BY <1>13 DEF StreamSoftError
<1>14. ASSUME NEW n, StreamHardError(n) PROVE Exact'
  BY <1>14 DEF StreamHardError
<1>15. CASE UNCHANGED vars
  BY <1>15 DEF vars
<1>16. QED
  BY <1>3, <1>4, <1>5, <1>6, <1>7, <1>8, <1>9, <1>10, <1>11, <1>12, <1>13, <1>14, <1>15 DEF Next

\* Steps that leave the image alone, within one stream.
LEMMA ImageKeptDirectory ==
  ASSUME IInv, Directory, buffer' = buffer, step' = step, last_pos' = last_pos, pc # "begin",
         step <= Len(Streams),
         \/ pc' = pc /\ dirent' = dirent
         \/ pc = "seek" /\ pc' = "put"
         \/ pc = "put" /\ pc' = "restore"
         \/ pc = "restore" /\ pc' = "flush"
  PROVE  Directory'
<1> SUFFICES ASSUME Below', pc' # "begin"
             PROVE  buffer'[1] = HeaderCell /\ Stored' /\ Free' /\ Vacant' /\ Coming' /\ Current'
  BY DEF Directory
<1>1. buffer \in Seq(Cell) /\ Len(buffer) <= Len(buffer')
      /\ (pc \in {"seek", "put", "restore"} => step \in 1..Len(Streams) /\ step # 3)
  BY Basics
<1>2. Below /\ buffer'[1] = HeaderCell /\ Stored' /\ Free'
  BY <1>1, KeepsSlots
<1>3. Vacant /\ Coming /\ Current
  BY <1>2 DEF Directory
<1>4. step \in Nat /\ Len(Streams) \in Nat
  BY Basics
<1>5. Vacant'
  BY <1>1, <1>3, <1>4 DEF Vacant
<1>6. Coming'
  BY <1>3 DEF Coming
<1>7. Current'
  BY <1>1, <1>3, <1>4 DEF Current
<1>8. QED
  BY <1>2, <1>5, <1>6, <1>7

\* dump_dir_entry fills the stream's slot with its entry; also when reading the
\* destination's position fails right after.
LEMMA EntrySetDirectory ==
  ASSUME IInv, Exact, Directory, pc = "entry", step' = step, last_pos' = last_pos,
         buffer' = WriteAt(buffer, Rva(DirPos) + curr_idx, <<dirent>>),
         pc' = "seek" \/ (pc' = "entry" /\ dirent' = dirent)
  PROVE  Directory'
<1> SUFFICES ASSUME Below'
             PROVE  buffer'[1] = HeaderCell /\ Stored' /\ Free' /\ Vacant' /\ Coming' /\ Current'
  BY DEF Directory
<1>1. /\ buffer' \in Seq(Cell) /\ Len(buffer') = Len(buffer)
      /\ \A i \in 1..Len(buffer) : i # DirPos + curr_idx + 1 => buffer'[i] = buffer[i]
  BY EntryStored
<1>2. /\ curr_idx = EntriesBefore(step) /\ step \in 1..Len(Streams) /\ step # 3
      /\ Len(buffer) \in Nat /\ curr_idx \in Nat /\ curr_idx < num_writers
      /\ num_writers + 1 <= Len(buffer) /\ Len(Streams) \in Nat /\ step <= Len(Streams)
  BY Basics DEF Exact
<1>3. Len(buffer) <= Len(buffer') /\ pc # "begin"
  BY <1>1, <1>2
<1>4. Below /\ buffer'[1] = HeaderCell /\ Stored' /\ Free'
  BY <1>1, <1>2, <1>3, KeepsSlots
<1>5. Described(buffer, step, dirent, Len(buffer))
  BY <1>4 DEF Directory, Coming
<1>6. buffer'[DirPos + curr_idx + 1] = dirent
  <2>1. Rva(DirPos) = DirPos
    BY RvaSmall, DirectoryAssumption, RvaModAssumption DEF DirPos, num_writers
  <2>2. buffer' = WriteAt(buffer, DirPos + curr_idx, <<dirent>>)
    BY <2>1
  <2>3. dirent \in Cell /\ buffer \in Seq(Cell) /\ DirPos + curr_idx \in 0..Len(buffer)
    BY <1>2, Basics DEF IInv, Progress, DirPos, num_writers
  <2>4. <<dirent>> \in Seq(Cell) /\ Len(<<dirent>>) = 1 /\ <<dirent>>[1] = dirent
    BY <2>3
  <2>5. \A i \in 1..Len(<<dirent>>) :
           WriteAt(buffer, DirPos + curr_idx, <<dirent>>)[DirPos + curr_idx + i] = <<dirent>>[i]
    BY Zenon, <2>3, <2>4, WriteAtFacts
  <2>6. 1 \in 1..Len(<<dirent>>)
    BY <2>4
  <2>7. QED
    BY Zenon, <2>2, <2>4, <2>5, <2>6
<1>7. Described(buffer', step, dirent, Len(buffer))
  <2>1. \A i \in 1..Len(buffer) : num_writers + 1 < i => buffer'[i] = buffer[i]
    BY <1>1, <1>2 DEF DirPos, num_writers
  <2>2. \A s \in Shapes[step] : Extent(s) \in Nat
    BY <1>2, ShapeFacts
  <2>3. Len(buffer) <= Len(buffer)
    BY <1>2
  <2>4. QED
    BY Zenon, <1>2, <1>5, <2>1, <2>2, <2>3, DescribedKept
<1>8. Vacant'
  BY DEF Vacant
<1>9. Coming'
  BY <1>1, <1>7 DEF Coming
<1>10. Current'
  BY <1>1, <1>2, <1>6, <1>7 DEF Current
<1>11. QED
  BY <1>4, <1>8, <1>9, <1>10

\* Appending a stream's data, all of it or part of it, leaves the directory as
\* it is, with the stream's own slot unused.
LEMMA DataKeepsSlots ==
  ASSUME IInv, Directory, At("stream"), NEW n \in Nat, buffer' = WithData(n), step' = step,
         last_pos' = last_pos, Below'
  PROVE  /\ buffer'[1] = HeaderCell /\ Stored' /\ Free'
         /\ buffer'[DirPos + EntriesBefore(step) + 1] = Zero
         /\ Len(buffer') = Len(buffer) + n
         /\ \A i \in 1..n : buffer'[Len(buffer) + i] = DataCell(step, i)
<1>1. /\ buffer \in Seq(Cell) /\ Len(buffer) \in Nat /\ step \in Nat /\ step <= Len(Streams)
      /\ pc = "stream" /\ num_writers + 1 <= Len(buffer)
      /\ EntriesBefore(step) \in Nat /\ EntriesBefore(step) < num_writers
  BY Basics DEF At
<1>2. buffer' \in Seq(Cell) /\ Len(buffer') = Len(buffer) + n
      /\ (Len(buffer') <= RvaMod => \A i \in 1..Len(buffer) : buffer'[i] = buffer[i])
  BY <1>1, WithDataFacts
<1>3. Len(buffer') < RvaMod /\ RvaMod \in Nat
  BY RvaModAssumption DEF Below
<1>4. \A i \in 1..Len(buffer) : buffer'[i] = buffer[i]
  BY <1>1, <1>2, <1>3
<1>5. Len(buffer) <= Len(buffer') /\ pc # "begin"
  BY <1>1, <1>2
<1>6. Below /\ buffer'[1] = HeaderCell /\ Stored' /\ Free'
  BY <1>1, <1>2, <1>4, <1>5, KeepsSlots
<1>7. buffer[DirPos + EntriesBefore(step) + 1] = Zero
  BY <1>1, <1>6 DEF Directory, Vacant
<1>8. buffer'[DirPos + EntriesBefore(step) + 1] = Zero
  BY <1>1, <1>4, <1>7 DEF DirPos, num_writers
<1>9. \A i \in 1..n : buffer'[Len(buffer) + i] = DataCell(step, i)
  BY <1>1, <1>2, <1>3, WithDataCells
<1>10. QED
  BY <1>2, <1>6, <1>8, <1>9

\* A stream that succeeds hands over an entry that points at all of its data.
LEMMA StreamOkDirectory ==
  ASSUME IInv, Directory, NEW shape \in Shapes[step], StreamOk(shape)
  PROVE  Directory'
<1> SUFFICES ASSUME Below'
             PROVE  buffer'[1] = HeaderCell /\ Stored' /\ Free' /\ Vacant' /\ Coming' /\ Current'
  BY DEF Directory
<1>1. pc = "stream" /\ step \in 1..Len(Streams) /\ Len(buffer) \in Nat /\ step \in Nat
      /\ num_writers + 1 <= Len(buffer)
  BY Basics DEF StreamOk, At
<1>2. /\ shape.pre \in Nat /\ shape.len \in Nat /\ shape.post \in Nat
      /\ Extent(shape) \in Nat /\ Extent(shape) = shape.pre + shape.len + shape.post
  BY <1>1, ShapeFacts
<1>3. /\ At("stream") /\ buffer' = WithData(Extent(shape)) /\ step' = step /\ last_pos' = last_pos
  BY DEF StreamOk, dirvars
<1>4. /\ buffer'[1] = HeaderCell /\ Stored' /\ Free'
      /\ buffer'[DirPos + EntriesBefore(step) + 1] = Zero
      /\ Len(buffer') = Len(buffer) + Extent(shape)
      /\ \A i \in 1..Extent(shape) : buffer'[Len(buffer) + i] = DataCell(step, i)
  BY <1>2, <1>3, DataKeepsSlots
<1>5. CASE Streams[step].entry
  <2>1. pc' = "entry" /\ dirent' = Entry(step, Location(Len(buffer) + shape.pre, shape.len))
    BY <1>5 DEF StreamOk
  <2>2. Len(buffer) + shape.pre < RvaMod /\ shape.len < RvaMod /\ RvaMod \in Nat
    <3>1. Len(buffer) + (shape.pre + shape.len + shape.post) < RvaMod /\ RvaMod \in Nat
      BY <1>2, <1>4, RvaModAssumption DEF Below
    <3>2. \A x, y, z \in Nat : Len(buffer) + (x + y + z) < RvaMod => Len(buffer) + x < RvaMod /\ y < RvaMod
      BY <1>1, RvaModAssumption
    <3>3. QED
      BY Zenon, <1>2, <3>1, <3>2
  <2>3. Rva(Len(buffer) + shape.pre) = Len(buffer) + shape.pre /\ Rva(shape.len) = shape.len
    <3>1. Len(buffer) + shape.pre \in Nat
      BY <1>1, <1>2
    <3>2. QED
      BY <1>2, <2>2, <3>1, RvaSmall
  <2>4. dirent' = <<"entry", step, Len(buffer) + shape.pre, shape.len>>
    BY <2>1, <2>3 DEF Entry, Location, Rva
  <2>5. num_writers + 1 <= Len(buffer) /\ Len(buffer) + Extent(shape) <= Len(buffer')
    BY <1>1, <1>2, <1>4
  <2>6. Described(buffer', step, dirent', Len(buffer'))
    BY Zenon, <1>1, <1>4, <2>4, <2>5 DEF Described
  <2>7. Coming'
    BY <1>3, <2>6 DEF Coming
  <2>8. Vacant' /\ Current'
    BY <2>1 DEF Vacant, Current
  <2>9. QED
    BY <1>4, <2>7, <2>8
<1>6. CASE ~Streams[step].entry
  <2>1. pc' = "flush" /\ step = 3
    BY <1>1, <1>6, StreamEntries DEF StreamOk
  <2>2. Vacant' /\ Coming' /\ Current'
    BY <1>3, <1>4, <2>1 DEF Vacant, Coming, Current
  <2>3. QED
    BY <1>4, <2>2
<1>7. QED
  BY <1>5, <1>6

\* A stream that fails softly hands over an unused entry, a stream that fails
\* hard none at all.
LEMMA StreamErrorDirectory ==
  ASSUME IInv, Directory, NEW n \in Nat, StreamSoftError(n) \/ StreamHardError(n)
  PROVE  Directory'
<1> SUFFICES ASSUME Below'
             PROVE  buffer'[1] = HeaderCell /\ Stored' /\ Free' /\ Vacant' /\ Coming' /\ Current'
  BY DEF Directory
<1>1. /\ At("stream") /\ buffer' = WithData(n) /\ step' = step /\ last_pos' = last_pos
  BY DEF StreamSoftError, StreamHardError, dirvars
<1>2. /\ buffer'[1] = HeaderCell /\ Stored' /\ Free'
      /\ buffer'[DirPos + EntriesBefore(step) + 1] = Zero
  BY <1>1, DataKeepsSlots
<1>3. \/ pc' = "entry" /\ dirent' = Zero /\ ~Streams[step].hard
      \/ pc' = "stream"
  BY <1>1 DEF StreamSoftError, StreamHardError, Fail, At
<1>4. Vacant'
  BY <1>1, <1>2, <1>3 DEF Vacant
<1>5. Coming'
  BY <1>1, <1>3 DEF Coming, Described
<1>6. Current'
  BY <1>1, <1>3 DEF Current
<1>7. QED
  BY <1>2, <1>4, <1>5, <1>6

\* write_to_file is done with the stream: its slot is now one of the filled ones.
LEMMA FlushDirectory == ASSUME IInv, Directory, Flush PROVE Directory'
<1> SUFFICES ASSUME Below'
             PROVE  buffer'[1] = HeaderCell /\ Stored' /\ Free' /\ Vacant' /\ Coming' /\ Current'
  BY DEF Directory
<1>1. /\ buffer' = buffer /\ step' = step + 1 /\ last_pos' = Len(buffer) /\ pc = "flush"
      /\ pc' = IF step < Len(Streams) THEN "stream" ELSE "done"
  BY DEF Flush, At
<1>2. /\ Len(buffer) \in Nat /\ last_pos \in Nat /\ last_pos <= Len(buffer)
      /\ step \in Nat /\ step <= Len(Streams) /\ Len(Streams) \in Nat /\ Len(Streams) <= 19
      /\ EntriesBefore(step) \in Nat
  BY <1>1, Basics
<1>3. buffer[1] = HeaderCell /\ Stored /\ Free /\ Vacant /\ Current
  BY <1>1 DEF Directory, Below
<1>4. /\ step \in {0, 3} => EntriesBefore(step + 1) = EntriesBefore(step)
      /\ step \notin {0, 3} => /\ EntriesBefore(step + 1) = EntriesBefore(step) + 1
                               /\ StreamOf(EntriesBefore(step) + 1) = step
      /\ step < Len(Streams) => EntriesBefore(step + 1) < num_writers
      /\ EntriesBefore(step + 1) \in Nat
  BY <1>2 DEF EntriesBefore, StreamOf, num_writers
<1>5. ASSUME NEW j \in 1..EntriesBefore(step + 1)
      PROVE  Described(buffer, StreamOf(j), buffer[DirPos + j], Len(buffer))
  <2>1. CASE j <= EntriesBefore(step)
    <3>1. Described(buffer, StreamOf(j), buffer[DirPos + j], last_pos)
      BY <1>2, <1>3, <1>4, <2>1 DEF Stored
    <3>2. StreamOf(j) \in 1..Len(Streams)
      BY <1>2, <1>4, <2>1 DEF StreamOf, EntriesBefore
    <3>3. \A s \in Shapes[StreamOf(j)] : Extent(s) \in Nat
      BY <3>2, ShapeFacts
    <3>4. \A i \in 1..last_pos : num_writers + 1 < i => buffer[i] = buffer[i]
      OBVIOUS
    <3>5. QED
      BY Zenon, <1>2, <3>1, <3>3, <3>4, DescribedKept
  <2>2. CASE j > EntriesBefore(step)
    <3>1. step \notin {0, 3} /\ j = EntriesBefore(step) + 1
      BY <1>2, <1>4, <2>2
    <3>2. StreamOf(j) = step /\ DirPos + EntriesBefore(step) + 1 = DirPos + j
      BY <1>2, <1>4, <3>1 DEF DirPos
    <3>3. QED
      BY <1>1, <1>3, <3>1, <3>2 DEF Current
  <2>3. QED
    BY <1>2, <1>4, <2>1, <2>2
<1>6. Stored'
  BY <1>1, <1>5 DEF Stored
<1>7. Free'
  BY <1>1, <1>2, <1>3, <1>4 DEF Free
<1>8. Vacant'
  <2> SUFFICES ASSUME step < Len(Streams) PROVE buffer[DirPos + EntriesBefore(step + 1) + 1] = Zero
    BY <1>1 DEF Vacant
  <2>1. CASE step \in {0, 3}
    BY <1>1, <1>3, <1>4, <2>1 DEF Vacant
  <2>2. CASE step \notin {0, 3}
    <3>1. /\ EntriesBefore(step + 1) + 1 \in 1..num_writers
          /\ EntriesBefore(step + 1) + 1 > EntriesBefore(step) + 1
      <4>1. EntriesBefore(step + 1) = EntriesBefore(step) + 1 /\ EntriesBefore(step + 1) < num_writers
        BY <1>4, <2>2
      <4>2. \A m, k \in Nat : k = m + 1 /\ k < num_writers => k + 1 \in 1..num_writers /\ k + 1 > m + 1
        BY DEF num_writers
      <4>3. EntriesBefore(step) \in Nat /\ EntriesBefore(step + 1) \in Nat
        BY <1>2, <1>4
      <4>4. QED
        BY Zenon, <4>1, <4>2, <4>3
    <3>2. DirPos + EntriesBefore(step + 1) + 1 = DirPos + (EntriesBefore(step + 1) + 1)
      BY <1>4 DEF DirPos
    <3>3. QED
      BY <1>3, <3>1, <3>2 DEF Free
  <2>3. QED
    BY <2>1, <2>2
<1>9. Coming' /\ Current'
  BY <1>1 DEF Coming, Current
<1>10. QED
  BY <1>1, <1>3, <1>6, <1>7, <1>8, <1>9

\* The header is set and every slot of the directory is unused.
LEMMA BeginDirectory == ASSUME IInv, Begin PROVE Directory'
<1>1. buffer = << >> /\ step = 0 /\ step' = 0 /\ pc' = "flush"
  BY DEF IInv, Progress, Begin, At
<1> DEFINE a == Reserve(buffer, 1)
           z == Reserve(a, num_writers)
<1>2. Len(a) = 1 /\ \A i \in 1..1 : a[i] = Zero
  BY <1>1 DEF Reserve
<1> HIDE DEF a
<1>3. z \in Seq(Cell) /\ Len(z) = num_writers + 1 /\ \A i \in 1..(num_writers + 1) : z[i] = Zero
  <2>1. z = [i \in 1..(1 + num_writers) |-> IF i <= 1 THEN a[i] ELSE Zero]
    BY <1>2 DEF Reserve
  <2> HIDE DEF z
  <2>2. \A i \in 1..(1 + num_writers) : (IF i <= 1 THEN a[i] ELSE Zero) = Zero
    BY <1>2 DEF num_writers
  <2>3. z \in [1..19 -> Cell] /\ \A i \in 1..19 : z[i] = Zero
    BY <2>1, <2>2 DEF num_writers, Cell
  <2>4. z \in Seq(Cell) /\ Len(z) = 19
    <3>1. \A n \in Nat : \A f \in [1..n -> Cell] : f \in Seq(Cell) /\ Len(f) = n
      OBVIOUS
    <3>2. 19 \in Nat
      OBVIOUS
    <3>3. QED
      BY Zenon, <2>3, <3>1, <3>2
  <2>5. QED
    BY <2>3, <2>4 DEF num_writers
<1> HIDE DEF z
<1>4. <<HeaderCell>> \in Seq(Cell) /\ Len(<<HeaderCell>>) = 1 /\ <<HeaderCell>>[1] = HeaderCell
  BY DEF Cell
<1>5. 0 \in 0..Len(z)
  BY <1>3 DEF num_writers
<1> DEFINE w == WriteAt(z, 0, <<HeaderCell>>)
<1>6. /\ \A i \in 1..Len(<<HeaderCell>>) : w[0 + i] = <<HeaderCell>>[i]
      /\ \A i \in 1..Len(z) : i <= 0 \/ 0 + Len(<<HeaderCell>>) < i => w[i] = z[i]
  BY Zenon, <1>3, <1>4, <1>5, WriteAtFacts
<1>7. buffer' = w
  BY DEF Begin, z, a
<1> HIDE DEF w
<1>8. buffer'[1] = HeaderCell /\ \A i \in 2..(num_writers + 1) : buffer'[i] = Zero
  BY <1>3, <1>4, <1>6, <1>7 DEF num_writers
<1>9. Stored'
  BY <1>1 DEF Stored, EntriesBefore
<1>10. Free'
  BY <1>1, <1>8 DEF Free, EntriesBefore, DirPos, num_writers
<1>11. Vacant'
  BY <1>1, <1>8 DEF Vacant, EntriesBefore, DirPos, num_writers
<1>12. Coming' /\ Current'
  BY <1>1 DEF Coming, Current
<1>13. QED
  BY <1>8, <1>9, <1>10, <1>11, <1>12 DEF Directory

-----------------------------------------------------------------------------
\* The first state satisfies the invariant about the directory.
LEMMA InitDInv == Init => DInv
<1>1. Init => Exact /\ Directory
  BY DEF Init, Exact, Directory
<1>2. QED
  BY <1>1, InitIInv DEF DInv

\* Every step of write_dump keeps it.
LEMMA NextDInv == DInv /\ [Next]_vars => DInv'
<1> SUFFICES ASSUME DInv, [Next]_vars PROVE DInv'
  OBVIOUS
<1>1. IInv /\ Exact /\ Directory
  BY DEF DInv
<1>2. IInv' /\ Exact'
  BY <1>1, NextIInv, ExactStep
<1> SUFFICES Directory'
  BY <1>2 DEF DInv
<1>3. step \in Nat /\ Len(Streams) \in Nat
      /\ (pc \in {"stream", "entry", "seek", "put", "restore"} => step \in 1..Len(Streams))
      /\ (pc = "flush" => step <= Len(Streams))
  BY <1>1, Basics
<1>4. CASE Begin
  BY <1>1, <1>4, BeginDirectory
<1>5. CASE SetEntry
  <2>1. /\ pc = "entry" /\ step' = step /\ last_pos' = last_pos /\ pc' = "seek"
        /\ buffer' = WriteAt(buffer, Rva(DirPos) + curr_idx, <<dirent>>)
    BY <1>5 DEF SetEntry, At
  <2>2. QED
    BY Zenon, <1>1, <2>1, EntrySetDirectory
<1>6. CASE SeekEntry \/ PutEntry \/ RestorePos
  <2>1. /\ buffer' = buffer /\ step' = step /\ last_pos' = last_pos /\ pc # "begin"
        /\ step <= Len(Streams)
        /\ \/ pc = "seek" /\ pc' = "put"
           \/ pc = "put" /\ pc' = "restore"
           \/ pc = "restore" /\ pc' = "flush"
    BY <1>3, <1>6 DEF SeekEntry, PutEntry, RestorePos, At, dirvars
  <2>2. QED
    BY Zenon, <1>1, <2>1, ImageKeptDirectory
<1>7. CASE PutEntryFails \/ (\E n \in 0..Len(buffer) : FlushFails(n)) \/ (IoError /\ pc \in {"seek", "restore"})
  <2>1. /\ buffer' = buffer /\ step' = step /\ last_pos' = last_pos /\ pc # "begin"
        /\ step <= Len(Streams) /\ pc' = pc /\ dirent' = dirent
    BY <1>3, <1>7 DEF PutEntryFails, FlushFails, IoError, At, Fail, dirvars
  <2>2. QED
    BY Zenon, <1>1, <2>1, ImageKeptDirectory
<1>8. CASE IoError /\ pc = "begin"
  <2>1. pc' = "begin"
    BY <1>8 DEF IoError, Fail
  <2>2. QED
    BY <2>1 DEF Directory
<1>9. CASE IoError /\ pc = "entry"
  <2>1. /\ step' = step /\ last_pos' = last_pos /\ pc' = "entry" /\ dirent' = dirent
        /\ buffer' = WriteAt(buffer, Rva(DirPos) + curr_idx, <<dirent>>)
    BY <1>9 DEF IoError, Fail, dirvars
  <2>2. QED
    BY Zenon, <1>1, <1>9, <2>1, EntrySetDirectory
<1>10. CASE Flush
  BY <1>1, <1>10, FlushDirectory
<1>11. ASSUME NEW shape \in (IF pc = "stream" THEN Shapes[step] ELSE {}),
              \/ StreamOk(shape)
              \/ \E n \in 0..Extent(shape) : StreamSoftError(n) \/ StreamHardError(n)
       PROVE  Directory'
  <2>1. pc = "stream" /\ shape \in Shapes[step] /\ step \in 1..Len(Streams)
    BY <1>3
  <2>2. Extent(shape) \in Nat
    BY <2>1, ShapeFacts
  <2>3. QED
    BY <1>1, <1>11, <2>1, <2>2, StreamOkDirectory, StreamErrorDirectory
<1>12. CASE UNCHANGED vars
  BY <1>1, <1>12 DEF vars, dirvars, Directory, Below, Stored, Free, Vacant, Coming, Current
<1>13. IoError => pc \in {"begin", "entry", "seek", "restore"}
  BY DEF IoError
<1>14. QED
  BY <1>4, <1>5, <1>6, <1>7, <1>8, <1>9, <1>10, <1>11, <1>12, <1>13 DEF Next

\* Every slot of the directory is truthful at every moment: in every state the
\* invariant about the directory holds, whatever failed before.
THEOREM DirectoryCorrect == Spec => []DInv
  BY InitDInv, NextDInv, PTL DEF Spec

-----------------------------------------------------------------------------
\* Once the header is flushed, the file has every flushed cell of the image but
\* for the slot being filled.
LEMMA FileHolds ==
  ASSUME DInv, Below, step > 0
  PROVE  /\ start + last_pos <= Len(file) /\ pc # "begin"
         /\ \A i \in 1..last_pos : i # DirPos + EntriesBefore(step) + 1 \/ num_writers + 1 < i
               => file[start + i] = buffer[i]
<1>1. IInv /\ Exact /\ Position /\ Mirror /\ Progress
  BY DEF DInv, IInv
<1>2. step \in Nat /\ curr_idx \in Nat /\ EntriesBefore(step) \in Nat
      /\ (pc \in {"entry", "seek", "put"} => EntriesBefore(step) < num_writers)
  BY <1>1, Basics
<1>3. pc # "begin"
  BY <1>1 DEF Progress
<1>4. Fits
  BY <1>1, Basics, RvaModAssumption DEF Fits, Below
<1>5. \A i \in 1..last_pos : file[start + i] = buffer[i] \/ i = InFlight
  BY <1>1, <1>3, <1>4 DEF Mirror
<1>6. \/ InFlight = 0
      \/ InFlight = DirPos + EntriesBefore(step) + 1 /\ InFlight <= num_writers + 1
  <2>1. CASE pc = "entry"
    BY <1>1, <1>2, <2>1 DEF InFlight, Exact, DirPos, num_writers
  <2>2. CASE pc \in {"seek", "put"}
    <3>1. curr_idx = EntriesBefore(step) + 1 /\ InFlight = DirPos + curr_idx
      BY <1>1, <2>2 DEF InFlight, Exact
    <3>2. QED
      BY <1>2, <2>2, <3>1 DEF DirPos, num_writers
  <2>3. CASE pc \notin {"entry", "seek", "put"}
    BY <2>3 DEF InFlight
  <2>4. QED
    BY <2>1, <2>2, <2>3
<1>7. start + last_pos <= Len(file)
  BY <1>1, <1>3 DEF Position
<1>8. \A i \in 1..last_pos : i # DirPos + EntriesBefore(step) + 1 \/ num_writers + 1 < i => i # InFlight
  BY <1>2, <1>6 DEF num_writers
<1>9. QED
  BY <1>3, <1>5, <1>7, <1>8

\* Every filled slot of the file describes data that is all in the file.
LEMMA StoredIntact ==
  ASSUME DInv, Below, step > 0, NEW j \in 1..EntriesBefore(step)
  PROVE  /\ file[start + DirPos + j] = buffer[DirPos + j]
         /\ Intact(file[start + DirPos + j])
<1>1. /\ start + last_pos <= Len(file) /\ pc # "begin"
      /\ \A i \in 1..last_pos : i # DirPos + EntriesBefore(step) + 1 \/ num_writers + 1 < i
            => file[start + i] = buffer[i]
  BY FileHolds
<1>2. /\ step \in Nat /\ step \in 0..(Len(Streams) + 1) /\ Len(Streams) \in Nat
      /\ EntriesBefore(step) \in Nat /\ EntriesBefore(step) <= num_writers /\ start \in Nat
      /\ last_pos \in Nat /\ num_writers + 1 <= last_pos /\ Len(file) \in Nat
  BY Basics DEF DInv
<1>3. Stored
  BY <1>1 DEF DInv, Directory
<1>4. file[start + DirPos + j] = buffer[DirPos + j]
  <2>1. DirPos + j \in 1..last_pos /\ DirPos + j # DirPos + EntriesBefore(step) + 1
        /\ start + DirPos + j = start + (DirPos + j)
    BY <1>2 DEF DirPos, num_writers
  <2>2. QED
    BY <1>1, <2>1
<1> DEFINE k == StreamOf(j)
           e == buffer[DirPos + j]
<1>5. k \in Written /\ k \in 1..Len(Streams)
  BY <1>2 DEF Written, StreamOf, EntriesBefore
<1>6. Described(buffer, k, e, last_pos)
  BY <1>3 DEF Stored
<1> HIDE DEF k, e
<1>7. CASE e = Zero
  BY <1>4, <1>7 DEF Intact, e
<1>8. CASE e # Zero
  <2>1. PICK s \in Shapes[k], p \in Nat :
          /\ num_writers + 1 <= p /\ p + Extent(s) <= last_pos
          /\ e = <<"entry", k, p + s.pre, s.len>>
          /\ \A i \in 1..Extent(s) : buffer[p + i] = DataCell(k, i)
    BY Zenon, <1>6, <1>8 DEF Described
  <2>2. s.pre \in Nat /\ Extent(s) \in Nat /\ num_writers + 1 <= p /\ p + Extent(s) <= last_pos
    BY <1>5, <2>1, ShapeFacts
  <2>3. e[1] = "entry" /\ e[2] = k /\ e[3] = p + s.pre /\ e[4] = s.len
    BY <2>1
  <2>4. start + e[3] - s.pre = start + p
    BY <1>2, <2>2, <2>3
  <2>5. start + e[3] - s.pre + Extent(s) <= Len(file)
    BY <1>1, <1>2, <2>2, <2>4
  <2>6. \A i \in 1..Extent(s) : file[start + e[3] - s.pre + i] = DataCell(k, i)
    <3> SUFFICES ASSUME NEW i \in 1..Extent(s) PROVE file[start + e[3] - s.pre + i] = DataCell(k, i)
      OBVIOUS
    <3>1. /\ p + i \in 1..last_pos /\ num_writers + 1 < p + i
          /\ start + p + i = start + (p + i)
      BY <1>2, <2>2 DEF num_writers
    <3>2. QED
      BY <1>1, <2>1, <2>4, <3>1
  <2>7. Intact(e)
    BY <1>5, <2>3, <2>5, <2>6 DEF Intact
  <2>8. QED
    BY <1>4, <2>7 DEF e
<1>9. QED
  BY <1>7, <1>8

-----------------------------------------------------------------------------
(***************************************************************************)
(* The refinement of Minidump: what the filled slots say of the image.     *)
(***************************************************************************)
\* What entry e says of image b
Item(b, e) ==
    IF e = Zero THEN Unused ELSE <<Streams[e[2]].name, SubSeq(b, e[3] + 1, e[3] + e[4])>>

\* A part of an image, cell by cell.
LEMMA SubSeqIs ==
  ASSUME NEW b \in Seq(Cell), NEW m \in Nat, NEW n \in Nat, m + n <= Len(b)
  PROVE  SubSeq(b, m + 1, m + n) = [i \in 1..n |-> b[m + i]]
<1> DEFINE t == SubSeq(b, m + 1, m + n)
<1>1. t \in Seq(Cell) /\ Len(t) = n
  OBVIOUS
<1>2. \A i \in 1..n : t[i] = b[m + i]
  OBVIOUS
<1> HIDE DEF t
<1>3. t = [i \in 1..n |-> t[i]]
  BY <1>1
<1>4. t = [i \in 1..n |-> b[m + i]]
  BY <1>2, <1>3
<1>5. QED
  BY <1>4 DEF t

\* A truthful entry names one of the items its stream may be.
LEMMA ItemIs ==
  ASSUME NEW b \in Seq(Cell), NEW k \in 1..Len(Streams), NEW e, NEW l \in Nat, l <= Len(b),
         Described(b, k, e, l)
  PROVE  Item(b, e) \in {<<Streams[k].name, [i \in 1..s.len |-> DataCell(k, s.pre + i)]>> : s \in Shapes[k]}
                            \cup (IF Streams[k].hard THEN {} ELSE {Unused})
<1>1. CASE e = Zero /\ ~Streams[k].hard
  BY <1>1 DEF Item
<1>2. CASE ~(e = Zero /\ ~Streams[k].hard)
  <2>1. PICK s \in Shapes[k], p \in Nat :
          /\ num_writers + 1 <= p /\ p + Extent(s) <= l
          /\ e = <<"entry", k, p + s.pre, s.len>>
          /\ \A i \in 1..Extent(s) : b[p + i] = DataCell(k, i)
    BY Zenon, <1>2 DEF Described
  <2>2. /\ s.pre \in Nat /\ s.len \in Nat /\ Extent(s) \in Nat /\ s.post \in Nat
        /\ Extent(s) = s.pre + s.len + s.post /\ p + (s.pre + s.len + s.post) <= l
    BY <2>1, ShapeFacts
  <2>3. e[2] = k /\ e[3] = p + s.pre /\ e[4] = s.len /\ e # Zero
    BY <2>1 DEF Zero
  <2>4. p + s.pre \in Nat /\ p + s.pre + s.len <= Len(b)
    <3>1. \A x, y, z \in Nat : p + (x + y + z) <= l => p + x \in Nat /\ p + x + y <= Len(b)
      OBVIOUS
    <3>2. QED
      BY Zenon, <2>2, <3>1
  <2>5. SubSeq(b, p + s.pre + 1, p + s.pre + s.len) = [i \in 1..s.len |-> b[p + s.pre + i]]
    BY Zenon, <2>2, <2>4, SubSeqIs
  <2>6. \A i \in 1..s.len : b[p + s.pre + i] = DataCell(k, s.pre + i)
    <3> SUFFICES ASSUME NEW i \in 1..s.len PROVE b[p + s.pre + i] = DataCell(k, s.pre + i)
      OBVIOUS
    <3>1. s.pre + i \in 1..Extent(s) /\ p + s.pre + i = p + (s.pre + i)
      <4>1. \A x, y, z \in Nat : i \in 1..y => x + i \in 1..(x + y + z) /\ p + x + i = p + (x + i)
        OBVIOUS
      <4>2. s.pre + i \in 1..(s.pre + s.len + s.post) /\ p + s.pre + i = p + (s.pre + i)
        BY Zenon, <2>2, <4>1
      <4>3. QED
        BY Zenon, <2>2, <4>2
    <3>2. QED
      BY <2>1, <3>1
  <2>7. [i \in 1..s.len |-> b[p + s.pre + i]] = [i \in 1..s.len |-> DataCell(k, s.pre + i)]
    BY <2>6
  <2>8. Item(b, e) = <<Streams[k].name, [i \in 1..s.len |-> DataCell(k, s.pre + i)]>>
    BY <2>3, <2>5, <2>7 DEF Item
  <2>9. QED
    BY <2>8
<1>3. QED
  BY <1>1, <1>2

\* What a truthful entry says stays the same while its data does.
LEMMA ItemKept ==
  ASSUME NEW b \in Seq(Cell), NEW c \in Seq(Cell), NEW k \in 1..Len(Streams), NEW e, NEW l \in Nat,
         l <= Len(b), l <= Len(c),
         \A i \in 1..l : num_writers + 1 < i => c[i] = b[i],
         Described(b, k, e, l)
  PROVE  Item(c, e) = Item(b, e)
<1>1. CASE e = Zero
  BY <1>1 DEF Item
<1>2. CASE e # Zero
  <2>1. PICK s \in Shapes[k], p \in Nat :
          /\ num_writers + 1 <= p /\ p + Extent(s) <= l
          /\ e = <<"entry", k, p + s.pre, s.len>>
    BY Zenon, <1>2 DEF Described
  <2>2. /\ s.pre \in Nat /\ s.len \in Nat /\ s.post \in Nat /\ num_writers + 1 <= p
        /\ p + (s.pre + s.len + s.post) <= l
    BY <2>1, ShapeFacts
  <2>3. e[2] = k /\ e[3] = p + s.pre /\ e[4] = s.len
    BY <2>1
  <2> DEFINE m == p + s.pre
  <2>4. m \in Nat /\ m + s.len <= Len(b) /\ m + s.len <= Len(c) /\ m + s.len <= l /\ num_writers + 1 <= m
    <3>1. \A x, y, z \in Nat : p + (x + y + z) <= l =>
             /\ p + x \in Nat /\ p + x + y <= Len(b) /\ p + x + y <= Len(c) /\ p + x + y <= l
             /\ (num_writers + 1 <= p => num_writers + 1 <= p + x)
      BY DEF num_writers
    <3>2. QED
      BY Zenon, <2>2, <3>1
  <2> HIDE DEF m
  <2>5. SubSeq(b, m + 1, m + s.len) = [i \in 1..s.len |-> b[m + i]]
    BY Zenon, <2>2, <2>4, SubSeqIs
  <2>6. SubSeq(c, m + 1, m + s.len) = [i \in 1..s.len |-> c[m + i]]
    BY Zenon, <2>2, <2>4, SubSeqIs
  <2>7. \A i \in 1..s.len : c[m + i] = b[m + i]
    <3> SUFFICES ASSUME NEW i \in 1..s.len PROVE c[m + i] = b[m + i]
      OBVIOUS
    <3>1. m + i \in 1..l /\ num_writers + 1 < m + i
      BY <2>2, <2>4 DEF num_writers
    <3>2. QED
      BY <3>1
  <2>8. SubSeq(c, m + 1, m + s.len) = SubSeq(b, m + 1, m + s.len)
    BY <2>5, <2>6, <2>7
  <2>9. QED
    BY <1>2, <2>3, <2>8 DEF Item, m
<1>3. QED
  BY <1>1, <1>2

\* What a reader finds in a filled slot of the file is what the slot says of
\* the image.
LEMMA DecodeIs ==
  ASSUME DInv, Below, NEW j \in 1..EntriesBefore(step)
  PROVE  Decode(file[start + DirPos + j]) = Item(buffer, buffer[DirPos + j])
<1>1. /\ step \in Nat /\ step \in 0..(Len(Streams) + 1) /\ Len(Streams) \in Nat
      /\ EntriesBefore(step) \in Nat /\ EntriesBefore(step) <= num_writers /\ start \in Nat
      /\ last_pos \in Nat /\ last_pos <= Len(buffer) /\ Len(file) \in Nat /\ Len(buffer) \in Nat
      /\ buffer \in Seq(Cell) /\ file \in Seq(Cell)
  BY Basics DEF DInv
<1>2. step > 0
  BY <1>1 DEF EntriesBefore
<1>3. /\ start + last_pos <= Len(file) /\ pc # "begin"
      /\ \A i \in 1..last_pos : i # DirPos + EntriesBefore(step) + 1 \/ num_writers + 1 < i
            => file[start + i] = buffer[i]
  BY <1>2, FileHolds
<1> DEFINE k == StreamOf(j)
           e == buffer[DirPos + j]
<1>4. file[start + DirPos + j] = e
  BY <1>2, StoredIntact
<1>5. k \in 1..Len(Streams)
  BY <1>1 DEF StreamOf, EntriesBefore
<1>6. Described(buffer, k, e, last_pos)
  BY <1>3 DEF Stored, DInv, Directory
<1> HIDE DEF k, e
<1>7. CASE e = Zero
  <2>1. Zero[1] = "zero"
    BY DEF Zero
  <2>2. Decode(e) = Unused
    BY <1>7, <2>1 DEF Decode
  <2>3. QED
    BY <1>4, <1>7, <2>2 DEF Item, e
<1>8. CASE e # Zero
  <2>1. PICK s \in Shapes[k], p \in Nat :
          /\ num_writers + 1 <= p /\ p + Extent(s) <= last_pos
          /\ e = <<"entry", k, p + s.pre, s.len>>
    BY Zenon, <1>6, <1>8 DEF Described
  <2>2. /\ s.pre \in Nat /\ s.len \in Nat /\ s.post \in Nat /\ num_writers + 1 <= p
        /\ p + (s.pre + s.len + s.post) <= last_pos
    BY <1>5, <2>1, ShapeFacts
  <2>3. e[1] = "entry" /\ e[2] = k /\ e[3] = p + s.pre /\ e[4] = s.len
    BY <2>1
  <2> DEFINE m == p + s.pre
             n == s.len
  <2>4. m \in Nat /\ n \in Nat /\ m + n <= last_pos /\ num_writers + 1 <= m
    <3>1. \A x, y, z \in Nat : p + (x + y + z) <= last_pos =>
             /\ p + x \in Nat /\ p + x + y <= last_pos
             /\ (num_writers + 1 <= p => num_writers + 1 <= p + x)
      <4>1. last_pos \in Nat
        BY <1>1
      <4>2. QED
        BY <4>1 DEF num_writers
    <3>2. QED
      BY Zenon, <2>2, <3>1
  <2>5. e[3] = m /\ e[4] = n
    BY <2>3
  <2> HIDE DEF m, n
  <2>6. m + n <= Len(buffer) /\ start + m \in Nat /\ start + m + n <= Len(file)
    BY <1>1, <1>3, <2>4
  <2>7. SubSeq(buffer, m + 1, m + n) = [i \in 1..n |-> buffer[m + i]]
    BY Zenon, <1>1, <2>4, <2>6, SubSeqIs
  <2>8. SubSeq(file, start + m + 1, start + m + n) = [i \in 1..n |-> file[start + m + i]]
    BY Zenon, <1>1, <2>4, <2>6, SubSeqIs
  <2>9. \A i \in 1..n : file[start + m + i] = buffer[m + i]
    <3> SUFFICES ASSUME NEW i \in 1..n PROVE file[start + m + i] = buffer[m + i]
      OBVIOUS
    <3>1. m + i \in 1..last_pos /\ num_writers + 1 < m + i /\ start + m + i = start + (m + i)
      BY <1>1, <2>4 DEF num_writers
    <3>2. QED
      BY <1>3, <3>1
  <2>10. SubSeq(file, start + m + 1, start + m + n) = SubSeq(buffer, m + 1, m + n)
    BY <2>7, <2>8, <2>9
  <2>11. Decode(e) = <<Streams[k].name, SubSeq(file, start + m + 1, start + m + n)>>
    BY <1>8, <2>3, <2>5, <2>6 DEF Decode
  <2>12. Item(buffer, e) = <<Streams[k].name, SubSeq(buffer, m + 1, m + n)>>
    BY <1>8, <2>3, <2>5 DEF Item
  <2>13. QED
    BY <1>4, <2>10, <2>11, <2>12 DEF e
<1>9. QED
  BY <1>7, <1>8

\* What a reader has found so far, in terms of the image.
Found == [j \in 1..EntriesBefore(step) |-> Item(buffer, buffer[DirPos + j])]

\* A step that is not the flush of a stream changes the image at most in the
\* slot being filled and beyond its end.
LEMMA ImageKept ==
  ASSUME DInv, Next, ~Flush, Below', pc # "begin"
  PROVE  /\ step' = step /\ step <= Len(Streams) /\ Len(buffer) <= Len(buffer')
         /\ \A i \in 1..Len(buffer) : i # DirPos + EntriesBefore(step) + 1 => buffer'[i] = buffer[i]
<1>1. IInv /\ Exact
  BY DEF DInv
<1>2. /\ step \in Nat /\ Len(Streams) \in Nat /\ buffer \in Seq(Cell) /\ Len(buffer) \in Nat
      /\ (pc \in {"stream", "entry", "seek", "put", "restore"} => step \in 1..Len(Streams))
      /\ (pc = "flush" => step <= Len(Streams))
  BY <1>1, Basics
<1>3. ASSUME buffer' = buffer, step' = step, pc \in {"entry", "seek", "put", "restore", "flush"}
      PROVE  /\ step <= Len(Streams) /\ Len(buffer) <= Len(buffer')
             /\ \A i \in 1..Len(buffer) : i # DirPos + EntriesBefore(step) + 1 => buffer'[i] = buffer[i]
  BY <1>2, <1>3
<1>4. ASSUME buffer' = WriteAt(buffer, Rva(DirPos) + curr_idx, <<dirent>>), pc = "entry"
      PROVE  /\ step <= Len(Streams) /\ Len(buffer) <= Len(buffer')
             /\ \A i \in 1..Len(buffer) : i # DirPos + EntriesBefore(step) + 1 => buffer'[i] = buffer[i]
  <2>1. curr_idx = EntriesBefore(step)
    BY <1>1, <1>4 DEF Exact
  <2>2. /\ Len(buffer') = Len(buffer)
        /\ \A i \in 1..Len(buffer) : i # DirPos + curr_idx + 1 => buffer'[i] = buffer[i]
    BY <1>1, <1>4, EntryStored
  <2>3. QED
    BY <1>2, <1>4, <2>1, <2>2
<1>5. ASSUME NEW n \in Nat, buffer' = WithData(n), pc = "stream"
      PROVE  /\ step <= Len(Streams) /\ Len(buffer) <= Len(buffer')
             /\ \A i \in 1..Len(buffer) : i # DirPos + EntriesBefore(step) + 1 => buffer'[i] = buffer[i]
  <2>1. Len(buffer') = Len(buffer) + n
        /\ (Len(buffer') <= RvaMod => \A i \in 1..Len(buffer) : buffer'[i] = buffer[i])
    BY <1>2, <1>5, WithDataFacts
  <2>2. Len(buffer') <= RvaMod
    BY <1>2, <2>1, RvaModAssumption DEF Below
  <2>3. QED
    BY <1>2, <1>5, <2>1, <2>2
<1>6. CASE SetEntry
  <2>1. step' = step /\ pc = "entry" /\ buffer' = WriteAt(buffer, Rva(DirPos) + curr_idx, <<dirent>>)
    BY <1>6 DEF SetEntry, At
  <2>2. QED
    BY Zenon, <1>4, <2>1
<1>7. CASE SeekEntry \/ PutEntry \/ PutEntryFails \/ RestorePos \/ \E n \in 0..Len(buffer) : FlushFails(n)
  <2>1. step' = step /\ buffer' = buffer /\ pc \in {"entry", "seek", "put", "restore", "flush"}
    BY <1>7 DEF SeekEntry, PutEntry, PutEntryFails, RestorePos, FlushFails, At
  <2>2. QED
    BY Zenon, <1>3, <2>1
<1>8. CASE IoError
  <2>1. /\ step' = step
        /\ \/ pc = "entry" /\ buffer' = WriteAt(buffer, Rva(DirPos) + curr_idx, <<dirent>>)
           \/ pc \in {"entry", "seek", "put", "restore", "flush"} /\ buffer' = buffer
    BY <1>8 DEF IoError
  <2>2. QED
    BY Zenon, <1>3, <1>4, <2>1
<1>9. ASSUME NEW shape \in (IF pc = "stream" THEN Shapes[step] ELSE {}),
             \/ StreamOk(shape)
             \/ \E n \in 0..Extent(shape) : StreamSoftError(n) \/ StreamHardError(n)
      PROVE  /\ step' = step /\ step <= Len(Streams) /\ Len(buffer) <= Len(buffer')
             /\ \A i \in 1..Len(buffer) : i # DirPos + EntriesBefore(step) + 1 => buffer'[i] = buffer[i]
  <2>1. pc = "stream" /\ shape \in Shapes[step] /\ step \in 1..Len(Streams)
    BY <1>2
  <2>2. Extent(shape) \in Nat
    BY <2>1, ShapeFacts
  <2>3. step' = step /\ \E n \in Nat : buffer' = WithData(n)
    BY <1>9, <2>2 DEF StreamOk, StreamSoftError, StreamHardError
  <2>4. QED
    BY Zenon, <1>5, <2>1, <2>3
<1>10. ~Begin
  BY DEF Begin, At
<1>11. QED
  BY Zenon, <1>6, <1>7, <1>8, <1>9, <1>10 DEF Next

\* Until a stream with an entry is flushed a reader finds the same streams.
LEMMA FoundKept ==
  ASSUME DInv, DInv', Below, Below', Next, ~(Flush /\ step \notin {0, 3})
  PROVE  Found' = Found
<1>1. /\ buffer \in Seq(Cell) /\ Len(buffer) \in Nat /\ last_pos \in Nat /\ last_pos <= Len(buffer)
      /\ step \in 0..(Len(Streams) + 1) /\ step \in Nat /\ Len(Streams) \in Nat
      /\ EntriesBefore(step) \in Nat /\ EntriesBefore(step) <= num_writers
      /\ (pc # "begin" => num_writers + 1 <= Len(buffer))
      /\ (step <= Len(Streams) => EntriesBefore(step) < num_writers)
  BY Basics DEF DInv
<1>2. buffer' \in Seq(Cell)
  BY DEF DInv, IInv, TypeOK
<1>3. CASE pc = "begin"
  <2>1. step = 0 /\ step' \in {0, 1}
    BY <1>3 DEF DInv, IInv, Progress, Next, Begin, SetEntry, SeekEntry, PutEntry, PutEntryFails,
       RestorePos, Flush, IoError, FlushFails, At
  <2>2. EntriesBefore(step) = 0 /\ EntriesBefore(step') = 0
    BY <2>1 DEF EntriesBefore
  <2>3. QED
    BY <2>2 DEF Found
<1>4. CASE Flush
  <2>1. step \in {0, 3} /\ buffer' = buffer /\ step' = step + 1
    BY <1>4 DEF Flush
  <2>2. EntriesBefore(step') = EntriesBefore(step)
    BY <2>1 DEF EntriesBefore
  <2>3. QED
    BY Zenon, <2>1, <2>2 DEF Found
<1>5. CASE pc # "begin" /\ ~Flush
  <2>1. /\ step' = step /\ step <= Len(Streams) /\ Len(buffer) <= Len(buffer')
        /\ \A i \in 1..Len(buffer) : i # DirPos + EntriesBefore(step) + 1 => buffer'[i] = buffer[i]
    BY <1>5, ImageKept
  <2>2. \A i \in 1..last_pos : num_writers + 1 < i => buffer'[i] = buffer[i]
    BY <1>1, <2>1 DEF DirPos, num_writers
  <2>3. last_pos <= Len(buffer')
    BY <1>1, <1>2, <2>1
  <2>4. Stored
    BY <1>5 DEF DInv, Directory
  <2>5. ASSUME NEW j \in 1..EntriesBefore(step)
        PROVE  Item(buffer', buffer'[DirPos + j]) = Item(buffer, buffer[DirPos + j])
    <3>1. buffer'[DirPos + j] = buffer[DirPos + j]
      BY <1>1, <1>5, <2>1 DEF DirPos, num_writers
    <3>2. StreamOf(j) \in 1..Len(Streams)
      BY <1>1 DEF StreamOf, EntriesBefore
    <3>3. Described(buffer, StreamOf(j), buffer[DirPos + j], last_pos)
      BY <2>4 DEF Stored
    <3>4. Item(buffer', buffer[DirPos + j]) = Item(buffer, buffer[DirPos + j])
      <4>1. buffer \in Seq(Cell) /\ last_pos \in Nat /\ last_pos <= Len(buffer)
        BY <1>1
      <4>2. QED
        BY Zenon, <4>1, <1>2, <2>2, <2>3, <3>2, <3>3, ItemKept
    <3>5. QED
      BY <3>1, <3>4
  <2>6. QED
    BY Zenon, <2>1, <2>5 DEF Found
<1>6. QED
  BY <1>3, <1>4, <1>5
=============================================================================
