--------------------------- MODULE MinidumpProofs ---------------------------
(***************************************************************************)
(* DumpFile implements Minidump, for streams of any size, any destination  *)
(* and any order of failures, while the image stays below 4 GiB.           *)
(***************************************************************************)
EXTENDS DumpFileProofs, FiniteSetTheorems

\* The size of 1..n without one number.
LEMMA CountAllBut ==
  ASSUME NEW n \in Nat, NEW k \in Nat \ {0}
  PROVE  Cardinality({i \in 1..n : i # k}) = IF k <= n THEN n - 1 ELSE n
<1>1. IsFiniteSet(1..n) /\ Cardinality(1..n) = n
  <2>1. n \in Int /\ 1 \in Int
    OBVIOUS
  <2>2. IsFiniteSet(1..n) /\ Cardinality(1..n) = IF 1 > n THEN 0 ELSE n - 1 + 1
    BY Zenon, <2>1, FS_Interval
  <2>3. QED
    BY <2>2
<1>2. {i \in 1..n : i # k} = (1..n) \ {k}
  OBVIOUS
<1>3. Cardinality((1..n) \ {k}) = IF k \in 1..n THEN Cardinality(1..n) - 1 ELSE Cardinality(1..n)
  BY Zenon, <1>1, FS_RemoveElement
<1>4. k \in 1..n <=> k <= n
  OBVIOUS
<1>5. QED
  BY Zenon, <1>1, <1>2, <1>3, <1>4

\* The streams before stream n + 1 take EntriesBefore(n + 1) slots.
LEMMA EntriesIs ==
  ASSUME NEW n \in 0..Len(Streams)
  PROVE  Entries(n) = EntriesBefore(n + 1)
<1>1. Len(Streams) \in Nat /\ n \in Nat /\ 3 \in Nat \ {0}
  BY StreamsFacts
<1>2. {k \in 1..n : Streams[k].entry} = {k \in 1..n : k # 3}
  BY <1>1, StreamEntries
<1>3. Cardinality({k \in 1..n : k # 3}) = IF 3 <= n THEN n - 1 ELSE n
  BY <1>1, CountAllBut
<1>4. Entries(n) = IF 3 <= n THEN n - 1 ELSE n
  BY Zenon, <1>2, <1>3 DEF Entries
<1>5. QED
  BY <1>1, <1>4 DEF EntriesBefore

\* The stream of slot j, by its definition through the number of entries.
LEMMA EntryStreamIs ==
  ASSUME NEW j \in 1..EntriesBefore(Len(Streams) + 1)
  PROVE  EntryStream(j) = StreamOf(j) /\ StreamOf(j) \in 1..Len(Streams) /\ StreamOf(j) # 3
<1>1. Len(Streams) \in Nat /\ 3 <= Len(Streams) /\ j \in Nat /\ j >= 1 /\ j <= Len(Streams) - 1
  BY StreamsFacts DEF EntriesBefore
<1>2. StreamOf(j) \in 1..Len(Streams) /\ StreamOf(j) # 3
  BY <1>1 DEF StreamOf
<1>3. \A k \in 1..Len(Streams) : Streams[k].entry /\ Entries(k) = j <=> k = StreamOf(j)
  <2> SUFFICES ASSUME NEW k \in 1..Len(Streams)
               PROVE  Streams[k].entry /\ Entries(k) = j <=> k = StreamOf(j)
    OBVIOUS
  <2>1. Streams[k].entry <=> k # 3
    BY StreamEntries
  <2>2. k \in 0..Len(Streams)
    BY <1>1
  <2>3. Entries(k) = EntriesBefore(k + 1)
    BY <2>2, EntriesIs
  <2>4. k # 3 => (EntriesBefore(k + 1) = j <=> k = StreamOf(j))
    BY <1>1 DEF EntriesBefore, StreamOf
  <2>5. QED
    BY <1>2, <2>1, <2>3, <2>4
<1>4. QED
  BY <1>2, <1>3 DEF EntryStream

\* The slots filled so far are those of the streams write_dump is done with.
LEMMA PublishedIs ==
  ASSUME step \in 0..(Len(Streams) + 1)
  PROVE  Published = EntriesBefore(step)
<1> DEFINE n == IF step = 0 THEN 0 ELSE step - 1
<1>1. n \in 0..Len(Streams) /\ EntriesBefore(n + 1) = EntriesBefore(step)
  BY StreamsFacts DEF EntriesBefore
<1>2. {k \in Written : Streams[k].entry} = {k \in 1..n : Streams[k].entry}
  BY StreamsFacts DEF Written
<1> HIDE DEF n
<1>3. Published = Entries(n)
  BY Zenon, <1>2 DEF Published, Entries
<1>4. QED
  BY <1>1, <1>3, EntriesIs

\* "If we crash somewhere below, we should have a mostly-intact dump": while the
\* image is below 4 GiB, whatever the streams hold and whatever has failed, the
\* file has its header and every slot of its directory but the one being
\* filled is unused or describes data that is all in the file.
THEOREM MostlyIntactCorrect == Spec => [](Below => MostlyIntact)
<1>1. DInv /\ Below => MostlyIntact
  <2> SUFFICES ASSUME DInv, Below, step > 0 PROVE MostlyIntact
    BY DEF MostlyIntact
  <2>1. /\ start + last_pos <= Len(file) /\ pc # "begin"
        /\ \A i \in 1..last_pos : i # DirPos + EntriesBefore(step) + 1 \/ num_writers + 1 < i
              => file[start + i] = buffer[i]
    BY FileHolds
  <2>2. /\ step \in 0..(Len(Streams) + 1) /\ start \in Nat /\ last_pos \in Nat
        /\ num_writers + 1 <= last_pos /\ EntriesBefore(step) \in Nat
    BY Basics DEF DInv
  <2>3. Published = EntriesBefore(step)
    BY <2>2, PublishedIs
  <2>4. buffer[1] = HeaderCell /\ Free
    BY <2>1 DEF DInv, Directory
  <2>5. file[start + 1] = HeaderCell
    BY <2>1, <2>2, <2>4 DEF DirPos, num_writers
  <2>6. ASSUME NEW j \in 1..num_writers, j # EntriesBefore(step) + 1
        PROVE  Intact(file[start + DirPos + j])
    <3>1. CASE j <= EntriesBefore(step)
      BY <2>2, <3>1, StoredIntact
    <3>2. CASE j > EntriesBefore(step) + 1
      <4>1. buffer[DirPos + j] = Zero
        BY <2>4, <3>2 DEF Free
      <4>2. /\ DirPos + j \in 1..last_pos /\ DirPos + j # DirPos + EntriesBefore(step) + 1
            /\ start + DirPos + j = start + (DirPos + j)
        BY <2>2, <3>2 DEF DirPos, num_writers
      <4>3. file[start + DirPos + j] = Zero
        BY <2>1, <4>1, <4>2
      <4>4. QED
        BY <4>3 DEF Intact
    <3>3. QED
      BY <2>2, <2>6, <3>1, <3>2
  <2>7. QED
    BY <2>3, <2>5, <2>6 DEF MostlyIntact
<1>2. QED
  BY <1>1, DirectoryCorrect, PTL

-----------------------------------------------------------------------------
\* What a reader finds through the directory of the file
FoundInFile == [j \in 1..Published |-> Decode(file[start + DirPos + j])]
LEMMA FoundIs == DInv /\ Below => FoundInFile = Found
<1> SUFFICES ASSUME DInv, Below PROVE FoundInFile = Found
  OBVIOUS
<1>1. Published = EntriesBefore(step)
  BY PublishedIs, Basics DEF DInv
<1>2. \A j \in 1..EntriesBefore(step) :
         Decode(file[start + DirPos + j]) = Item(buffer, buffer[DirPos + j])
  BY DecodeIs
<1>3. QED
  BY <1>1, <1>2 DEF Found, FoundInFile

\* What the flush of a stream with an entry adds for a reader is one of the
\* items the stream may be.
LEMMA FoundMore ==
  ASSUME DInv, Below, Flush, step \notin {0, 3}
  PROVE  /\ Found' = Append(Found, Item(buffer, buffer[DirPos + EntriesBefore(step) + 1]))
         /\ Len(Found) = EntriesBefore(step) /\ Len(Items) = Len(Streams) - 1
         /\ EntriesBefore(step) + 1 <= Len(Items)
         /\ (EntriesBefore(step) + 1 = Len(Items) <=> step = Len(Streams))
         /\ Item(buffer, buffer[DirPos + EntriesBefore(step) + 1]) \in Items[EntriesBefore(step) + 1]
<1>1. pc = "flush" /\ buffer' = buffer /\ step' = step + 1
  BY DEF Flush, At
<1>2. /\ buffer \in Seq(Cell) /\ Len(buffer) \in Nat /\ step \in Nat /\ step <= Len(Streams)
      /\ Len(Streams) \in Nat /\ 18 <= Len(Streams) /\ EntriesBefore(step) \in Nat
  BY <1>1, Basics DEF DInv
<1> DEFINE n == EntriesBefore(step)
           item == Item(buffer, buffer[DirPos + n + 1])
<1>3. /\ n \in Nat /\ EntriesBefore(step') = n + 1 /\ StreamOf(n + 1) = step
      /\ n + 1 <= Len(Streams) - 1 /\ (n + 1 = Len(Streams) - 1 <=> step = Len(Streams))
      /\ step \in 1..Len(Streams)
  BY <1>1, <1>2 DEF EntriesBefore, StreamOf
<1>4. EntriesBefore(Len(Streams) + 1) = Len(Streams) - 1
  BY <1>2 DEF EntriesBefore
<1>5. Entries(Len(Streams)) = Len(Streams) - 1
  <2>1. Len(Streams) \in 0..Len(Streams)
    BY <1>2
  <2>2. QED
    BY <1>4, <2>1, EntriesIs
<1>6. Found' = Append(Found, item) /\ Len(Found) = n
  <2>1. Found' = [j \in 1..(n + 1) |-> Item(buffer, buffer[DirPos + j])]
    BY Zenon, <1>1, <1>3 DEF Found
  <2>2. DirPos + n + 1 = DirPos + (n + 1)
    BY <1>3 DEF DirPos
  <2>3. item = Item(buffer, buffer[DirPos + (n + 1)])
    BY Zenon, <2>2
  <2> DEFINE f == [j \in 1..n |-> Item(buffer, buffer[DirPos + j])]
             g == [j \in 1..(n + 1) |-> Item(buffer, buffer[DirPos + j])]
  <2>4. Found = f
    BY Zenon DEF Found
  <2> HIDE DEF n, item
  <2>5. PICK S : \A j \in 1..(n + 1) : Item(buffer, buffer[DirPos + j]) \in S
    <3>1. \A j \in 1..(n + 1) :
             Item(buffer, buffer[DirPos + j]) \in {Item(buffer, buffer[DirPos + m]) : m \in 1..(n + 1)}
      OBVIOUS
    <3>2. QED
      BY Zenon, <3>1
  <2>6. f \in Seq(S) /\ Len(f) = n /\ item \in S
        /\ \A j \in 1..n : f[j] = Item(buffer, buffer[DirPos + j])
    BY <1>3, <2>3, <2>5
  <2>7. g \in Seq(S) /\ Len(g) = n + 1
        /\ \A j \in 1..(n + 1) : g[j] = Item(buffer, buffer[DirPos + j])
    BY <1>3, <2>5
  <2> HIDE DEF f, g
  <2>8. Append(f, item) \in Seq(S) /\ Len(Append(f, item)) = n + 1
        /\ Append(f, item)[n + 1] = item /\ \A j \in 1..n : Append(f, item)[j] = f[j]
    BY <2>6
  <2>9. \A j \in 1..(n + 1) : Append(f, item)[j] = g[j]
    <3>0. Append(f, item)[n + 1] = g[n + 1]
      <4>1. n + 1 \in 1..(n + 1)
        BY <1>3
      <4>2. g[n + 1] = Item(buffer, buffer[DirPos + (n + 1)])
        BY Zenon, <2>7, <4>1
      <4>3. QED
        BY Zenon, <2>3, <2>8, <4>2
    <3> SUFFICES ASSUME NEW j \in 1..(n + 1) PROVE Append(f, item)[j] = g[j]
      OBVIOUS
    <3>1. CASE j \in 1..n
      <4>1. Append(f, item)[j] = f[j]
        BY Zenon, <2>8, <3>1
      <4>2. f[j] = Item(buffer, buffer[DirPos + j]) /\ g[j] = Item(buffer, buffer[DirPos + j])
        BY Zenon, <2>6, <2>7, <3>1
      <4>3. QED
        BY <4>1, <4>2
    <3>2. CASE j = n + 1
      BY Zenon, <3>0, <3>2
    <3>3. j \in 1..n \/ j = n + 1
      <4>1. n \in Nat
        BY <1>3
      <4>2. QED
        BY <4>1
    <3>4. QED
      BY Zenon, <3>1, <3>2, <3>3
  <2> DEFINE h == Append(f, item)
  <2>10. h = g
    <3>1. h \in Seq(S) /\ Len(h) = n + 1 /\ \A j \in 1..(n + 1) : h[j] = g[j]
      BY <2>8, <2>9
    <3> HIDE DEF h
    <3>2. QED
      BY <1>3, <2>7, <3>1
  <2>11. QED
    BY <2>1, <2>4, <2>6, <2>10 DEF g
<1>7. Len(Items) = Len(Streams) - 1 /\ DOMAIN Items = 1..(Len(Streams) - 1)
  BY <1>2, <1>5 DEF Items
<1>8. Described(buffer, step, buffer[DirPos + n + 1], Len(buffer))
  BY <1>1 DEF DInv, Directory, Current
<1>9. item \in {<<Streams[step].name, [i \in 1..s.len |-> DataCell(step, s.pre + i)]>> : s \in Shapes[step]}
                  \cup (IF Streams[step].hard THEN {} ELSE {Unused})
  <2>1. buffer \in Seq(Cell) /\ Len(buffer) \in Nat /\ Len(buffer) <= Len(buffer) /\ step \in 1..Len(Streams)
    BY <1>2, <1>3
  <2>2. QED
    BY Zenon, <1>8, <2>1, ItemIs
<1>10. EntryStream(n + 1) = step
  <2>1. n + 1 \in 1..EntriesBefore(Len(Streams) + 1)
    BY <1>2, <1>3, <1>4
  <2>2. QED
    BY <1>3, <2>1, EntryStreamIs
<1>11. Items[n + 1] = {<<Streams[step].name, [i \in 1..s.len |-> DataCell(step, s.pre + i)]>> : s \in Shapes[step]}
                         \cup (IF Streams[step].hard THEN {} ELSE {Unused})
  <2>1. n + 1 \in 1..Entries(Len(Streams))
    BY <1>2, <1>3, <1>5
  <2>2. QED
    BY Zenon, <2>1, <1>10 DEF Items
<1>12. QED
  BY Zenon, <1>3, <1>6, <1>7, <1>9, <1>11

\* What the caller has been told
Outcome == CASE result = "ok" -> "ok" [] result = "err" -> "failed" [] OTHER -> "writing"

\* Before anything is written a reader finds nothing.
LEMMA RefinesInit == Init => Dump!Init
<1> SUFFICES ASSUME Init PROVE Dump!Init
  OBVIOUS
<1>1. step = 0 /\ result = "none" /\ step \in 0..(Len(Streams) + 1)
  BY StreamsFacts DEF Init
<1>2. Published = 0
  BY <1>1, PublishedIs DEF EntriesBefore
<1>3. FoundInFile = << >>
  BY <1>2 DEF FoundInFile
<1>4. Outcome = "writing"
  BY <1>1 DEF Outcome
<1>5. QED
  BY <1>3, <1>4 DEF Dump!Init, FoundInFile, Outcome

\* Every step of write_dump publishes the next stream, reports a failure or is
\* invisible to a reader.
LEMMA RefinesNext ==
  ASSUME DInv, DInv', Below, Below', FoundInFile = Found, FoundInFile' = Found', [Next]_vars
  PROVE  [Dump!Next]_<<FoundInFile, Outcome>>
<1>1. result \in {"none", "ok", "err"}
  BY DEF DInv, IInv, TypeOK
<1>2. CASE Flush /\ step \notin {0, 3}
  <2> DEFINE item == Item(buffer, buffer[DirPos + EntriesBefore(step) + 1])
  <2>1. /\ Found' = Append(Found, item)
        /\ Len(Found) = EntriesBefore(step) /\ Len(Items) = Len(Streams) - 1
        /\ EntriesBefore(step) + 1 <= Len(Items)
        /\ (EntriesBefore(step) + 1 = Len(Items) <=> step = Len(Streams))
        /\ item \in Items[EntriesBefore(step) + 1]
    BY <1>2, FoundMore
  <2> HIDE DEF item
  <2>2. /\ EntriesBefore(step) \in Nat /\ Len(Streams) \in Nat /\ step \in Nat /\ step <= Len(Streams)
    BY <1>2, Basics DEF DInv, Flush, At
  <2>3. result = "none" /\ result' = IF step < Len(Streams) THEN "none" ELSE "ok"
    BY <1>2 DEF Flush, At
  <2>4. Outcome = "writing" /\ Outcome' = IF step < Len(Streams) THEN "writing" ELSE "ok"
    BY <2>3 DEF Outcome
  <2>5. Len(FoundInFile) < Len(Items)
    BY <2>1, <2>2
  <2>6. \E i \in Items[Len(FoundInFile) + 1] : FoundInFile' = Append(FoundInFile, i)
    BY Zenon, <2>1
  <2>7. Outcome' = IF Len(FoundInFile) + 1 = Len(Items) THEN "ok" ELSE "writing"
    BY <2>1, <2>2, <2>4
  <2>8. Dump!Publish
    BY <2>4, <2>5, <2>6, <2>7 DEF Dump!Publish, FoundInFile, Outcome
  <2>9. QED
    BY <2>8 DEF Dump!Next
<1>3. CASE Next /\ ~(Flush /\ step \notin {0, 3})
  <2>1. FoundInFile' = FoundInFile
    BY <1>3, FoundKept
  <2>2. result' = result \/ (result = "none" /\ result' = "err")
    <3>1. CASE Flush
      <4>1. step \in {0, 3} /\ 3 < Len(Streams)
        BY <1>3, <3>1, StreamsFacts
      <4>2. QED
        BY <3>1, <4>1 DEF Flush, At
    <3>2. CASE ~Flush
      BY <1>3, <3>2 DEF Next, Begin, SetEntry, SeekEntry, PutEntry, PutEntryFails, RestorePos, IoError,
         FlushFails, StreamOk, StreamSoftError, StreamHardError, At, Fail
    <3>3. QED
      BY <3>1, <3>2
  <2>3. CASE result' = result
    BY <2>1, <2>3 DEF Outcome
  <2>4. CASE result = "none" /\ result' = "err"
    <3>1. Outcome = "writing" /\ Outcome' = "failed"
      BY <2>4 DEF Outcome
    <3>2. Dump!Fail
      BY <2>1, <3>1 DEF Dump!Fail, FoundInFile, Outcome
    <3>3. QED
      BY <3>2 DEF Dump!Next
  <2>5. QED
    BY <2>2, <2>3, <2>4
<1>4. CASE UNCHANGED vars
  <2>1. Found' = Found /\ Outcome' = Outcome
    BY <1>4 DEF vars, Found, Outcome
  <2>2. QED
    BY <2>1
<1>5. QED
  BY <1>2, <1>3, <1>4

\* The writer implements Minidump: as long as the image stays below 4 GiB, the
\* file read through its directory is, at every moment and whatever fails, a
\* growing list of complete streams, and success means that all are there.
THEOREM RefinesMinidump == Spec /\ []Below => ImplementsMinidump
<1>1. DInv /\ DInv' /\ Below /\ Below' /\ FoundInFile = Found /\ (FoundInFile = Found)' /\ [Next]_vars
        => [Dump!Next]_<<FoundInFile, Outcome>>
  BY RefinesNext
<1>2. [Dump!Next]_<<FoundInFile, Outcome>> <=>
        [Dump!Next]_<<[j \in 1..Published |-> Decode(file[start + DirPos + j])],
                      CASE result = "ok" -> "ok" [] result = "err" -> "failed" [] OTHER -> "writing">>
  BY DEF FoundInFile, Outcome
<1>3. QED
  BY <1>1, <1>2, RefinesInit, FoundIs, DirectoryCorrect, PTL DEF Spec, ImplementsMinidump, Dump!Spec
=============================================================================
