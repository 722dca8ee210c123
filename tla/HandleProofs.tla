---------------------------- MODULE HandleProofs ----------------------------
(***************************************************************************)
(* HandlesReadBack for any number of open files, as long as the image fits *)
(* the range of an RVA.                                                    *)
(***************************************************************************)
EXTENDS InfoStreams, ImageProofs

Fits == Len(buffer) < RvaMod

-----------------------------------------------------------------------------
(***************************************************************************)
(* The handles                                                             *)
(***************************************************************************)
Descriptor == [handle : Nat, object_name_rva : Nat, attributes : Nat]

\* What the streams before leave: an image, whatever is in it.
DsoTyped ==
    /\ target \in Targets
    /\ IsSeq(buffer) /\ IsSeq(dso_vec) /\ idx \in Nat /\ dynamic_length \in Nat
    /\ pc = "names" /\ idx < Len(dso_vec) => The(linkmap) \in Nat

HandleTyped ==
    /\ DOMAIN fds \subseteq DOMAIN target.fds /\ \A fd \in DOMAIN fds : fds[fd] \in File
    /\ target.stopped => fds = target.fds
    /\ entries \subseteq DOMAIN target.fds
    /\ descriptors \in Seq(Descriptor)
    /\ realpath # {} => \E r : realpath = {r} /\ r.fd \in entries /\ r.rva \in Nat
    /\ pc \notin {"entries", "done"} => entries = {} /\ realpath = {} /\ descriptors = << >>
    /\ pc # "done" => handles = {}

\* An entry of the directory has its descriptor or is still to be read, never both.
Gathered ==
    /\ \A i, j \in DOMAIN descriptors : i # j => descriptors[i].handle # descriptors[j].handle
    /\ \A i \in DOMAIN descriptors : descriptors[i].handle \notin entries
    /\ pc = "entries" /\ target.stopped =>
          DOMAIN fds = entries \cup {descriptors[i].handle : i \in DOMAIN descriptors}

\* The string of a stopped target's file stays where its descriptor says.
NamedAt(rva, fd) == rva < Len(buffer) /\ buffer[rva + 1] = <<"string", fds[fd].path>>
Named ==
    Fits /\ target.stopped =>
        /\ \A i \in DOMAIN descriptors : /\ NamedAt(descriptors[i].object_name_rva, descriptors[i].handle)
                                         /\ descriptors[i].attributes = fds[descriptors[i].handle].mode
        /\ \A r \in realpath : NamedAt(r.rva, r.fd)

HInv == DsoTyped /\ HandleTyped /\ Gathered /\ Named /\ (Fits => HandlesReadBack)

\* Nothing has been read or written before the stream begins.
LEMMA InitHandles == Init => HInv
<1> SUFFICES ASSUME Init PROVE HInv
  OBVIOUS
<1>1. target \in Targets /\ fds = target.fds /\ DOMAIN fds \subseteq Nat /\ \A fd \in DOMAIN fds : fds[fd] \in File
  BY FileAssumption DEF Init, DsoInit
<1>2. IsSeq(<< >>)
  <2>1. << >> \in Seq({}) /\ Len(<< >>) = 0 /\ DOMAIN << >> = 1..0
    OBVIOUS
  <2>2. \E S : << >> \in Seq(S)
    BY <2>1, Zenon
  <2> QED
    BY <2>1, <2>2 DEF IsSeq
<1>3. DsoTyped
  BY <1>1, <1>2 DEF Init, DsoInit, DsoTyped
<1>4. HandleTyped
  BY <1>1 DEF Init, DsoInit, HandleTyped
<1>5. Gathered /\ Named /\ HandlesReadBack
  BY DEF Init, DsoInit, Gathered, Named, HandlesReadBack
<1> QED
  BY <1>3, <1>4, <1>5 DEF HInv

\* The steps of the streams before leave an image and the counters of the walk.
LEMMA DsoStepTyped ==
    ASSUME DsoTyped, DsoStep \/ WriteSystemInfo
    PROVE  DsoTyped' /\ target' = target /\ pc \notin {"handles", "entries", "done"} /\ pc' \notin {"entries", "done"}
<1> USE DEF DsoTyped
<1>1. target.whole \in Nat
  BY TargetAssumption
<1>2. CASE FillAuxv \/ ReadProgramHeaders \/ ReadDyn \/ ReadRDebug
  BY <1>2 DEF FillAuxv, ReadProgramHeaders, ReadDyn, ReadRDebug
<1>3. CASE ProgramHeadersFail \/ DynFails \/ RDebugFails \/ LinkMapFails \/ DsoFails \/ CopyDynamicFails
  BY <1>3 DEF ProgramHeadersFail, DynFails, RDebugFails, LinkMapFails, DsoFails, CopyDynamicFails, CopyFails, Leave
<1>4. CASE ReadLinkMap
  <2>1. IsSeq(dso_vec')
    BY <1>4, AppendIs DEF ReadLinkMap
  <2> QED
    BY <1>4, <2>1 DEF ReadLinkMap
<1>5. CASE AllocLinkMap
  <2>1. Len(dso_vec) \in Nat /\ Len(buffer) \in Nat
    BY DEF IsSeq
  <2>2. IsSeq(buffer')
    BY <1>5, <2>1, ReserveIs DEF AllocLinkMap
  <2>3. idx < Len(dso_vec) => The(linkmap') \in Nat
    <3>1. Rva(Len(buffer)) \in Nat
      BY <2>1, RvaExact
    <3>2. idx < Len(dso_vec) => linkmap' = {Rva(Len(buffer))}
      BY <1>5 DEF AllocLinkMap
    <3> QED
      BY <3>1, <3>2 DEF The
  <2> QED
    BY <1>5, <2>2, <2>3 DEF AllocLinkMap, The
<1>6. CASE WriteDso
  <2>1. PICK name : buffer' = WriteAt(WriteAll(buffer, << <<"string", name>> >>), The(linkmap) + idx,
                                      << <<"linkmap", dso_vec[idx + 1], Rva(Len(buffer))>> >>)
    BY <1>6 DEF WriteDso
  <2>2. IsSeq(WriteAll(buffer, << <<"string", name>> >>))
    BY OneCell, WriteAllIs
  <2>3. The(linkmap) + idx \in Nat
    BY <1>6 DEF WriteDso
  <2>4. IsSeq(buffer')
    BY <2>1, <2>2, <2>3, OneCell, WriteAtIs
  <2> QED
    BY <1>6, <2>4 DEF WriteDso, The
<1>7. CASE WriteDebug
  <2>1. IsSeq(buffer')
    BY <1>7, OneCell, WriteAllIs DEF WriteDebug
  <2> QED
    BY <1>7, <2>1 DEF WriteDebug
<1>8. CASE CopyDynamic
  <2> DEFINE n == IF target.whole < dynamic_length THEN target.whole ELSE dynamic_length
             f == [i \in 1..n |-> <<"dyn", dyn_addr + i - 1>>]
  <2>1. n \in Nat /\ f = [i \in 1..n |-> f[i]]
    BY <1>1
  <2>2. buffer' = WriteAll(buffer, f)
    BY <1>8 DEF CopyDynamic
  <2> HIDE DEF n, f
  <2>3. IsSeq(f)
    BY <2>1, FunctionIsSeq
  <2>4. IsSeq(buffer')
    BY <2>2, <2>3, WriteAllIs
  <2> QED
    BY <1>8, <2>4 DEF CopyDynamic
<1>9. CASE WriteSystemInfo
  <2>1. PICK x : buffer' = WriteAt(WriteAll(Reserve(buffer, 1), << <<"string", "os">> >>), Len(buffer), <<x>>)
    BY <1>9 DEF WriteSystemInfo
  <2>2. IsSeq(WriteAll(Reserve(buffer, 1), << <<"string", "os">> >>))
    BY ReserveIs, OneCell, WriteAllIs
  <2>3. IsSeq(buffer')
    <3>1. Len(buffer) \in Nat
      BY DEF IsSeq
    <3> QED
      BY <2>1, <2>2, <3>1, OneCell, WriteAtIs
  <2> QED
    BY <1>9, <2>3 DEF WriteSystemInfo
<1> QED
  BY <1>2, <1>3, <1>4, <1>5, <1>6, <1>7, <1>8, <1>9 DEF DsoStep

\* Without a stream there is nothing to read back.
LEMMA NoStream == handles' = {} => HandlesReadBack'
BY DEF HandlesReadBack

\* A step that is not one of the handles' leaves them alone.
LEMMA HandlesUntouched ==
    ASSUME HandleTyped, target' = target, UNCHANGED handleVars,
           pc \notin {"entries", "done"}, pc' \notin {"entries", "done"}
    PROVE  HandleTyped' /\ Gathered' /\ Named' /\ HandlesReadBack'
<1>1. HandleTyped'
  BY DEF HandleTyped, handleVars
<1>2. Gathered' /\ Named' /\ HandlesReadBack'
  <2>1. descriptors' = << >> /\ realpath' = {} /\ handles' = {}
    BY DEF HandleTyped, handleVars
  <2>2. DOMAIN descriptors' = {}
    BY <2>1
  <2>3. Gathered' /\ Named'
    BY <2>1, <2>2 DEF Gathered, Named
  <2> QED
    BY <2>1, <2>3, NoStream
<1> QED
  BY <1>1, <1>2

\* The directory is read: every open file is still to be described.
LEMMA ReadDirKeeps == ASSUME HInv, ReadDir \/ ReadDirFails PROVE HInv'
<1> USE DEF HInv, HandleStep, UnchangedDso
<1>1. DsoTyped'
  BY DEF DsoTyped, ReadDir, ReadDirFails, handleVars
<1>2. HandleTyped'
  BY DEF HandleTyped, ReadDir, ReadDirFails, handleVars
<1>3. Gathered'
  <2>1. descriptors = << >> /\ descriptors' = << >> /\ fds' = fds /\ (pc' = "entries" => entries' = DOMAIN fds)
    BY DEF HandleTyped, ReadDir, ReadDirFails, handleVars
  <2>2. DOMAIN descriptors' = {}
    BY <2>1
  <2>3. {descriptors'[i].handle : i \in DOMAIN descriptors'} = {}
    BY <2>2
  <2> QED
    BY <2>1, <2>2, <2>3 DEF Gathered
<1>4. Named' /\ HandlesReadBack'
  <2>1. descriptors' = << >> /\ realpath' = {} /\ handles' = {}
    BY DEF HandleTyped, ReadDir, ReadDirFails, handleVars
  <2>2. DOMAIN descriptors' = {}
    BY <2>1
  <2>3. Named'
    BY <2>1, <2>2 DEF Named
  <2> QED
    BY <2>1, <2>3, NoStream
<1> QED
  BY <1>1, <1>2, <1>3, <1>4

\* The string of a link is written behind all others.
LEMMA ReadLinkKeeps == ASSUME HInv, NEW fd, ReadLink(fd) PROVE HInv'
<1> USE DEF HInv, HandleStep, UnchangedDso
<1>1. pc = "entries" /\ pc' = "entries" /\ target' = target /\ fds' = fds /\ descriptors' = descriptors
      /\ handles' = handles /\ handles = {} /\ realpath = {} /\ fd \in entries /\ dso_vec' = dso_vec /\ idx' = idx
      /\ dynamic_length' = dynamic_length
  BY DEF ReadLink, HandleTyped
<1>2. HandlesReadBack'
  BY <1>1, NoStream
<1>3. CASE fd \in DOMAIN fds
  <2>1. PICK r, cells : /\ r = [fd |-> fd, rva |-> Rva(Len(buffer)), path |-> fds[fd].path]
                        /\ cells = << <<"string", fds[fd].path>> >>
    OBVIOUS
  <2>2. buffer' = WriteAll(buffer, cells) /\ realpath' = {r} /\ entries' = entries
    BY <1>3, <2>1 DEF ReadLink
  <2>3. IsSeq(cells) /\ Len(cells) = 1 /\ cells[1] = <<"string", fds[fd].path>>
    BY <2>1, OneCell
  <2>4. IsSeq(buffer) /\ Len(buffer) \in Nat
    BY DEF DsoTyped, IsSeq
  <2>5. /\ IsSeq(buffer') /\ Len(buffer') = Len(buffer) + 1
        /\ \A i \in 1..Len(buffer) : buffer'[i] = buffer[i]
        /\ buffer'[Len(buffer) + 1] = <<"string", fds[fd].path>>
    <3>1. /\ IsSeq(buffer') /\ Len(buffer') = Len(buffer) + Len(cells)
          /\ \A i \in 1..Len(buffer) : buffer'[i] = buffer[i]
          /\ \A i \in 1..Len(cells) : buffer'[Len(buffer) + i] = cells[i]
      <4>1. IsSeq(buffer) /\ IsSeq(cells)
        BY <2>3, <2>4
      <4>2. /\ IsSeq(WriteAll(buffer, cells)) /\ Len(WriteAll(buffer, cells)) = Len(buffer) + Len(cells)
            /\ \A i \in 1..Len(buffer) : WriteAll(buffer, cells)[i] = buffer[i]
            /\ \A i \in 1..Len(cells) : WriteAll(buffer, cells)[Len(buffer) + i] = cells[i]
        <5> HIDE DEF HInv, HandleStep, UnchangedDso
        <5>1. IsSeq(WriteAll(buffer, cells)) /\ Len(WriteAll(buffer, cells)) = Len(buffer) + Len(cells)
          BY <4>1, WriteAllIs
        <5>2. \A i \in 1..Len(buffer) : WriteAll(buffer, cells)[i] = buffer[i]
          BY <4>1, WriteAllIs
        <5>3. \A i \in 1..Len(cells) : WriteAll(buffer, cells)[Len(buffer) + i] = cells[i]
          BY <4>1, WriteAllIs
        <5> QED
          BY <5>1, <5>2, <5>3
      <4> QED
        BY <2>2, <4>2, Zenon
    <3> QED
      BY <2>3, <2>4, <3>1
  <2>6. DsoTyped'
    BY <1>1, <2>5 DEF DsoTyped
  <2>7. r.fd = fd /\ r.rva \in Nat /\ (Fits => r.rva = Len(buffer))
    BY <2>1, <2>4, RvaExact DEF Fits
  <2>8. HandleTyped'
    BY <1>1, <2>2, <2>7 DEF HandleTyped
  <2>9. Gathered'
    BY <1>1, <2>2 DEF Gathered
  <2>10. Named'
    <3>1. SUFFICES ASSUME Fits', target.stopped
                   PROVE  /\ \A i \in DOMAIN descriptors :
                                /\ descriptors[i].object_name_rva < Len(buffer')
                                /\ buffer'[descriptors[i].object_name_rva + 1] = <<"string", fds[descriptors[i].handle].path>>
                                /\ descriptors[i].attributes = fds[descriptors[i].handle].mode
                          /\ r.rva < Len(buffer') /\ buffer'[r.rva + 1] = <<"string", fds[r.fd].path>>
      BY <1>1, <2>2 DEF Named, NamedAt
    <3>2. Fits
      BY <2>4, <2>5, <3>1, RvaModAssumption DEF Fits
    <3>3. r.rva < Len(buffer') /\ buffer'[r.rva + 1] = <<"string", fds[r.fd].path>>
      BY <2>4, <2>5, <2>7, <3>2
    <3>4. ASSUME NEW i \in DOMAIN descriptors
          PROVE  /\ descriptors[i].object_name_rva < Len(buffer')
                 /\ buffer'[descriptors[i].object_name_rva + 1] = <<"string", fds[descriptors[i].handle].path>>
                 /\ descriptors[i].attributes = fds[descriptors[i].handle].mode
      <4>1. descriptors[i].object_name_rva \in Nat
        <5>1. descriptors[i] \in Descriptor
          BY DEF HandleTyped
        <5> QED
          BY <5>1 DEF Descriptor
      <4>2. /\ descriptors[i].object_name_rva < Len(buffer)
            /\ buffer[descriptors[i].object_name_rva + 1] = <<"string", fds[descriptors[i].handle].path>>
            /\ descriptors[i].attributes = fds[descriptors[i].handle].mode
        BY <3>1, <3>2 DEF Named, NamedAt
      <4>3. descriptors[i].object_name_rva + 1 \in 1..Len(buffer)
        BY <2>4, <4>1, <4>2
      <4> QED
        BY <2>4, <2>5, <4>1, <4>2, <4>3
    <3> QED
      BY <3>3, <3>4
  <2> QED
    BY <1>2, <2>6, <2>8, <2>9, <2>10
<1>4. CASE fd \notin DOMAIN fds
  <2>1. entries' = entries \ {fd} /\ buffer' = buffer /\ realpath' = realpath
    BY <1>4 DEF ReadLink
  <2>2. DsoTyped' /\ HandleTyped'
    BY <1>1, <2>1 DEF DsoTyped, HandleTyped
  <2>3. Gathered'
    BY <1>1, <1>4, <2>1 DEF Gathered
  <2>4. Named'
    BY <1>1, <2>1 DEF Named, NamedAt, Fits
  <2> QED
    BY <1>2, <2>2, <2>3, <2>4
<1> QED
  BY <1>3, <1>4

\* An entry leaves the directory for the descriptors, if its file is still there.
LEMMA FileStatKeeps == ASSUME HInv, FileStat PROVE HInv'
<1>1. /\ pc = "entries" /\ pc' = "entries" /\ target' = target /\ fds' = fds /\ buffer' = buffer /\ realpath' = {}
      /\ handles' = handles /\ handles = {} /\ realpath # {} /\ dso_vec' = dso_vec /\ idx' = idx
      /\ dynamic_length' = dynamic_length
  BY DEF FileStat, HandleStep, UnchangedDso, HInv, HandleTyped
<1>2. PICK r : realpath = {r} /\ r.fd \in entries /\ r.rva \in Nat
  BY <1>1 DEF HInv, HandleTyped
<1>3. The(realpath) = r
  BY <1>2 DEF The
<1>4. entries' = entries \ {r.fd}
  BY <1>3 DEF FileStat
<1>5. DsoTyped' /\ HandlesReadBack'
  BY <1>1, NoStream DEF HInv, DsoTyped
<1>6. descriptors \in Seq(Descriptor) /\ target \in Targets /\ entries \subseteq DOMAIN target.fds
  BY DEF HInv, HandleTyped, DsoTyped
<1>7. CASE r.fd \in DOMAIN fds
  <2>1. PICK d : d = [handle |-> r.fd, object_name_rva |-> r.rva, attributes |-> fds[r.fd].mode]
    OBVIOUS
  <2>2. descriptors' = Append(descriptors, d)
    BY <1>3, <1>7, <2>1 DEF FileStat
  <2>3. d \in Descriptor /\ d.handle = r.fd /\ d.object_name_rva = r.rva /\ d.attributes = fds[r.fd].mode
    <3>1. r.fd \in Nat
      BY <1>2, <1>6, FileAssumption
    <3>2. fds[r.fd].mode \in Nat
      BY <1>7 DEF HInv, HandleTyped, File
    <3> QED
      BY <1>2, <2>1, <3>1, <3>2 DEF Descriptor
  <2> DEFINE n == Len(descriptors)
  <2>4. /\ descriptors' \in Seq(Descriptor) /\ n \in Nat /\ DOMAIN descriptors = 1..n /\ DOMAIN descriptors' = 1..(n + 1)
        /\ descriptors'[n + 1] = d /\ \A i \in 1..n : descriptors'[i] = descriptors[i]
    BY <1>6, <2>2, <2>3
  <2> HIDE DEF n
  <2>5. \A i \in DOMAIN descriptors' : (i \in DOMAIN descriptors /\ descriptors'[i] = descriptors[i]) \/ (i = n + 1 /\ descriptors'[i] = d)
    BY <2>4
  <2>6. HandleTyped'
    BY <1>1, <1>4, <2>4 DEF HInv, HandleTyped
  <2>7. Gathered'
    <3>1. \A i, j \in DOMAIN descriptors : i # j => descriptors[i].handle # descriptors[j].handle
      BY DEF HInv, Gathered
    <3>2. \A i \in DOMAIN descriptors : descriptors[i].handle \notin entries
      BY DEF HInv, Gathered
    <3>3. \A i, j \in DOMAIN descriptors' : i # j => descriptors'[i].handle # descriptors'[j].handle
      BY <1>2, <2>3, <2>5, <3>1, <3>2
    <3>4. \A i \in DOMAIN descriptors' : descriptors'[i].handle \notin entries'
      BY <1>4, <2>3, <2>5, <3>2
    <3>5. ASSUME target.stopped
          PROVE  DOMAIN fds = entries' \cup {descriptors'[i].handle : i \in DOMAIN descriptors'}
      <4>1. DOMAIN fds = entries \cup {descriptors[i].handle : i \in DOMAIN descriptors}
        BY <1>1, <3>5 DEF HInv, Gathered
      <4>2. {descriptors'[i].handle : i \in DOMAIN descriptors'} = {descriptors[i].handle : i \in DOMAIN descriptors} \cup {r.fd}
        <5>1. n + 1 \in DOMAIN descriptors' /\ descriptors'[n + 1].handle = r.fd
          BY <2>3, <2>4
        <5>2. \A i \in DOMAIN descriptors : i \in DOMAIN descriptors' /\ descriptors'[i] = descriptors[i]
          BY <2>4
        <5> QED
          BY <2>3, <2>5, <5>1, <5>2
      <4> QED
        BY <1>2, <1>4, <4>1, <4>2
    <3> QED
      BY <1>1, <3>3, <3>4, <3>5 DEF Gathered
  <2>8. Named'
    <3>1. SUFFICES ASSUME Fits, target.stopped, NEW i \in DOMAIN descriptors'
                   PROVE  /\ descriptors'[i].object_name_rva < Len(buffer)
                          /\ buffer[descriptors'[i].object_name_rva + 1] = <<"string", fds[descriptors'[i].handle].path>>
                          /\ descriptors'[i].attributes = fds[descriptors'[i].handle].mode
      BY <1>1 DEF Named, NamedAt, Fits
    <3>2. CASE i \in DOMAIN descriptors /\ descriptors'[i] = descriptors[i]
      BY <3>1, <3>2 DEF HInv, Named, NamedAt
    <3>3. CASE descriptors'[i] = d
      BY <1>2, <2>3, <3>1, <3>3 DEF HInv, Named, NamedAt
    <3> QED
      BY <2>5, <3>2, <3>3
  <2> QED
    BY <1>5, <2>6, <2>7, <2>8 DEF HInv
<1>8. CASE r.fd \notin DOMAIN fds
  <2>1. descriptors' = descriptors
    BY <1>3, <1>8 DEF FileStat
  <2>2. HandleTyped'
    BY <1>1, <1>4, <2>1 DEF HInv, HandleTyped
  <2>3. Gathered'
    BY <1>1, <1>4, <1>8, <2>1 DEF HInv, Gathered
  <2>4. Named'
    BY <1>1, <2>1 DEF HInv, Named, NamedAt, Fits
  <2> QED
    BY <1>5, <2>2, <2>3, <2>4 DEF HInv
<1> QED
  BY <1>7, <1>8

\* The descriptors are written behind the strings they point to.
LEMMA WriteHandlesKeeps == ASSUME HInv, WriteHandles PROVE HInv'
<1>1. /\ pc = "entries" /\ pc' = "done" /\ target' = target /\ fds' = fds /\ entries' = entries /\ entries = {}
      /\ realpath' = realpath /\ descriptors' = descriptors /\ dso_vec' = dso_vec /\ idx' = idx
      /\ dynamic_length' = dynamic_length
  BY DEF WriteHandles, HandleStep, UnchangedDso
<1>2. realpath = {}
  BY <1>1 DEF HInv, HandleTyped
<1> DEFINE n == Len(descriptors)
<1>3. IsSeq(buffer) /\ Len(buffer) \in Nat /\ descriptors \in Seq(Descriptor) /\ n \in Nat /\ DOMAIN descriptors = 1..n
  <2>1. IsSeq(buffer) /\ descriptors \in Seq(Descriptor)
    BY DEF HInv, DsoTyped, HandleTyped
  <2> QED
    BY <2>1 DEF IsSeq
<1>4. PICK x, cells : x = <<"handles", n>> /\ cells = <<x>> \o descriptors
  OBVIOUS
<1>5. buffer' = WriteAll(buffer, cells) /\ handles' = {Location(Len(buffer), 1 + n)}
  BY <1>4 DEF WriteHandles
<1>6. IsSeq(cells) /\ Len(cells) = 1 + n /\ cells[1] = x /\ \A i \in 1..n : cells[1 + i] = descriptors[i]
  BY <1>3, <1>4, HeaderIs
<1> HIDE DEF n
<1>7. /\ IsSeq(buffer') /\ Len(buffer') = Len(buffer) + 1 + n
      /\ \A i \in 1..Len(buffer) : buffer'[i] = buffer[i]
      /\ buffer'[Len(buffer) + 1] = x /\ \A i \in 1..n : buffer'[Len(buffer) + 1 + i] = descriptors[i]
  <2>1. IsSeq(WriteAll(buffer, cells)) /\ Len(WriteAll(buffer, cells)) = Len(buffer) + Len(cells)
    BY <1>3, <1>6, WriteAllIs
  <2>2. \A i \in 1..Len(buffer) : WriteAll(buffer, cells)[i] = buffer[i]
    BY <1>3, <1>6, WriteAllIs
  <2>3. \A i \in 1..Len(cells) : WriteAll(buffer, cells)[Len(buffer) + i] = cells[i]
    <3>1. IsSeq(buffer) /\ IsSeq(cells)
      BY <1>3, <1>6
    <3> QED
      BY <3>1, WriteAllIs
  <2>4. \A i \in 1..Len(cells) : buffer'[Len(buffer) + i] = cells[i]
    BY <1>5, <2>3
  <2>5. ASSUME NEW i \in 1..n PROVE buffer'[Len(buffer) + 1 + i] = descriptors[i]
    <3>1. 1 + i \in 1..Len(cells) /\ Len(buffer) + 1 + i = Len(buffer) + (1 + i)
      BY <1>3, <1>6
    <3> QED
      BY <1>6, <2>4, <3>1
  <2>6. 1 \in 1..Len(cells)
    BY <1>3, <1>6
  <2> QED
    BY <1>3, <1>5, <1>6, <2>1, <2>2, <2>4, <2>5, <2>6
<1>8. DsoTyped'
  BY <1>1, <1>7 DEF HInv, DsoTyped
<1>9. HandleTyped'
  BY <1>1, <1>2 DEF HInv, HandleTyped
<1>10. Gathered'
  BY <1>1 DEF HInv, Gathered
<1>11. ASSUME Fits', target.stopped, NEW i \in 1..n
       PROVE  /\ descriptors[i].object_name_rva < Len(buffer')
              /\ buffer'[descriptors[i].object_name_rva + 1] = <<"string", fds[descriptors[i].handle].path>>
              /\ descriptors[i].attributes = fds[descriptors[i].handle].mode
  <2>1. Fits
    BY <1>3, <1>7, <1>11, RvaModAssumption DEF Fits
  <2>2. descriptors[i] \in Descriptor
    BY <1>3
  <2>3. descriptors[i].object_name_rva \in Nat
    BY <2>2 DEF Descriptor
  <2>4. /\ descriptors[i].object_name_rva < Len(buffer)
        /\ buffer[descriptors[i].object_name_rva + 1] = <<"string", fds[descriptors[i].handle].path>>
        /\ descriptors[i].attributes = fds[descriptors[i].handle].mode
    BY <1>3, <1>11, <2>1 DEF HInv, Named, NamedAt
  <2>5. descriptors[i].object_name_rva + 1 \in 1..Len(buffer)
    BY <1>3, <2>3, <2>4
  <2> QED
    BY <1>3, <1>7, <2>3, <2>4, <2>5, SMTT(30)
<1>12. Named'
  BY <1>1, <1>2, <1>3, <1>11 DEF Named, NamedAt
<1>13. ASSUME Fits' PROVE HandlesReadBack'
  <2>1. SUFFICES ASSUME NEW h \in handles'
                 PROVE  LET m    == h.data_size - 1
                            at   == h.rva + 1
                            name == [i \in 1..m |-> buffer'[buffer'[at + i].object_name_rva + 1]]
                        IN  /\ buffer'[at] = <<"handles", m>> /\ at + m = Len(buffer')
                            /\ \A i, j \in 1..m : i # j => buffer'[at + i].handle # buffer'[at + j].handle
                            /\ target'.stopped =>
                                  /\ {buffer'[at + i].handle : i \in 1..m} = DOMAIN fds'
                                  /\ \A i \in 1..m : LET f == fds'[buffer'[at + i].handle]
                                                     IN  name[i] = <<"string", f.path>> /\ buffer'[at + i].attributes = f.mode
    BY Zenon DEF HandlesReadBack
  <2> DEFINE m    == h.data_size - 1
             at   == h.rva + 1
             name == [i \in 1..m |-> buffer'[buffer'[at + i].object_name_rva + 1]]
  <2>2. m = n /\ at = Len(buffer) + 1
    <3>1. h.rva = Rva(Len(buffer)) /\ h.data_size = (1 + n) % RvaMod
      BY <1>5, <2>1 DEF Location
    <3>2. Len(buffer) < RvaMod /\ 1 + n < RvaMod /\ RvaMod \in Nat
      BY <1>3, <1>7, <1>13, RvaModAssumption DEF Fits
    <3> QED
      BY <1>3, <3>1, <3>2, RvaExact DEF Rva
  <2>3. \A i \in 1..m : name[i] = buffer'[buffer'[at + i].object_name_rva + 1]
    OBVIOUS
  <2> HIDE DEF m, at, name
  <2>4. /\ buffer'[at] = <<"handles", m>> /\ at + m = Len(buffer') /\ DOMAIN descriptors = 1..m
        /\ \A i \in 1..m : i \in 1..n /\ buffer'[at + i] = descriptors[i]
    BY <1>3, <1>4, <1>7, <2>2
  <2>5. \A i, j \in 1..m : i # j => buffer'[at + i].handle # buffer'[at + j].handle
    <3>1. \A i, j \in 1..m : i # j => descriptors[i].handle # descriptors[j].handle
      BY <2>4 DEF HInv, Gathered
    <3> QED
      BY <2>4, <3>1
  <2>6. ASSUME target'.stopped PROVE {buffer'[at + i].handle : i \in 1..m} = DOMAIN fds'
    <3>1. DOMAIN fds' = {descriptors[i].handle : i \in 1..m}
      BY <1>1, <2>4, <2>6 DEF HInv, Gathered
    <3>2. {buffer'[at + i].handle : i \in 1..m} = {descriptors[i].handle : i \in 1..m}
      BY <2>4
    <3> QED
      BY <3>1, <3>2
  <2>7. ASSUME target'.stopped, NEW i \in 1..m
        PROVE  LET f == fds'[buffer'[at + i].handle]
               IN  name[i] = <<"string", f.path>> /\ buffer'[at + i].attributes = f.mode
    <3>1. buffer'[at + i] = descriptors[i] /\ i \in 1..n /\ fds' = fds /\ target.stopped
      BY <1>1, <2>4, <2>7
    <3>2. /\ buffer'[descriptors[i].object_name_rva + 1] = <<"string", fds[descriptors[i].handle].path>>
          /\ descriptors[i].attributes = fds[descriptors[i].handle].mode
      BY <1>11, <1>13, <3>1
    <3>3. name[i] = buffer'[buffer'[at + i].object_name_rva + 1]
      BY <2>3
    <3> QED
      BY <3>1, <3>2, <3>3, Zenon
  <2>8. /\ buffer'[at] = <<"handles", m>> /\ at + m = Len(buffer')
        /\ \A i, j \in 1..m : i # j => buffer'[at + i].handle # buffer'[at + j].handle
        /\ target'.stopped =>
              /\ {buffer'[at + i].handle : i \in 1..m} = DOMAIN fds'
              /\ \A i \in 1..m : LET f == fds'[buffer'[at + i].handle]
                                 IN  name[i] = <<"string", f.path>> /\ buffer'[at + i].attributes = f.mode
    BY <2>4, <2>5, <2>6, <2>7
  <2> QED
    BY <2>8, Zenon DEF m, at, name
<1> QED
  BY <1>8, <1>9, <1>10, <1>12, <1>13 DEF HInv

\* A target that runs may close and open files: nothing is promised of them.
LEMMA FilesChangeKeeps ==
    ASSUME HInv, NEW fd, Close(fd) \/ \E file \in OpenFiles : Open(fd, file)
    PROVE  HInv'
<1>1. /\ pc = "entries" /\ pc' = pc /\ target' = target /\ buffer' = buffer /\ entries' = entries /\ realpath' = realpath
      /\ descriptors' = descriptors /\ handles' = handles /\ dso_vec' = dso_vec /\ idx' = idx /\ linkmap' = linkmap
      /\ dynamic_length' = dynamic_length /\ ~target.stopped
  BY DEF Close, Open, UnchangedDso
<1>2. DOMAIN fds' \subseteq DOMAIN target.fds /\ \A f \in DOMAIN fds' : fds'[f] \in File
  <2>1. CASE Close(fd)
    BY <2>1 DEF Close, HInv, HandleTyped
  <2>2. ASSUME NEW file \in OpenFiles, Open(fd, file)
        PROVE  DOMAIN fds' \subseteq DOMAIN target.fds /\ \A f \in DOMAIN fds' : fds'[f] \in File
    BY <2>2, FileAssumption DEF Open, HInv, HandleTyped
  <2> QED
    BY <2>1, <2>2
<1>3. DsoTyped' /\ HandlesReadBack'
  <2>1. DsoTyped'
    BY <1>1 DEF HInv, DsoTyped
  <2>2. handles' = {}
    BY <1>1 DEF HInv, HandleTyped
  <2> QED
    BY <2>1, <2>2, NoStream
<1>4. HandleTyped'
  <2>1. /\ entries \subseteq DOMAIN target.fds /\ descriptors \in Seq(Descriptor)
        /\ realpath # {} => \E r : realpath = {r} /\ r.fd \in entries /\ r.rva \in Nat
        /\ pc # "done" => handles = {}
    BY DEF HInv, HandleTyped
  <2> QED
    BY <1>1, <1>2, <2>1, Zenon DEF HandleTyped
<1>5. Gathered' /\ Named'
  <2>1. Gathered'
    BY <1>1, Zenon DEF HInv, Gathered
  <2>2. Named'
    BY <1>1 DEF Named
  <2> QED
    BY <2>1, <2>2
<1> QED
  BY <1>3, <1>4, <1>5 DEF HInv

\* Every step keeps HInv.
LEMMA NextHandles == ASSUME HInv, [Next]_vars PROVE HInv'
<1>1. CASE (DsoStep /\ UNCHANGED handleVars) \/ WriteSystemInfo
  <2>1. DsoTyped' /\ target' = target /\ pc \notin {"handles", "entries", "done"} /\ pc' \notin {"entries", "done"}
    BY <1>1, DsoStepTyped DEF HInv
  <2>2. UNCHANGED handleVars
    BY <1>1 DEF WriteSystemInfo, handleVars
  <2> QED
    BY <2>1, <2>2, HandlesUntouched DEF HInv
<1>2. CASE ReadDir \/ ReadDirFails
  BY <1>2, ReadDirKeeps
<1>3. CASE \E fd \in DOMAIN target.fds : ReadLink(fd)
  BY <1>3, ReadLinkKeeps
<1>4. CASE FileStat
  BY <1>4, FileStatKeeps
<1>5. CASE WriteHandles
  BY <1>5, WriteHandlesKeeps
<1>6. CASE (\E map \in DOMAIN links : Unlink(map)) /\ UNCHANGED handleVars
  <2>1. /\ pc = "walk" /\ pc' = pc /\ target' = target /\ buffer' = buffer /\ dso_vec' = dso_vec /\ idx' = idx
        /\ dynamic_length' = dynamic_length /\ UNCHANGED handleVars
    BY <1>6 DEF Unlink
  <2>2. DsoTyped'
    BY <2>1 DEF HInv, DsoTyped
  <2> QED
    BY <2>1, <2>2, HandlesUntouched DEF HInv
<1>7. CASE \E fd \in DOMAIN target.fds : Close(fd) \/ \E file \in OpenFiles : Open(fd, file)
  BY <1>7, FilesChangeKeeps
<1>8. CASE UNCHANGED vars
  <2>1. /\ target' = target /\ buffer' = buffer /\ pc' = pc /\ dso_vec' = dso_vec /\ idx' = idx
        /\ linkmap' = linkmap /\ dynamic_length' = dynamic_length
    BY <1>8 DEF vars, dsoVars
  <2>2. fds' = fds /\ entries' = entries /\ realpath' = realpath /\ descriptors' = descriptors /\ handles' = handles
    BY <1>8 DEF vars, handleVars
  <2>3. DsoTyped' /\ HandleTyped'
    BY <2>1, <2>2 DEF HInv, DsoTyped, HandleTyped
  <2>4. Gathered' /\ Named'
    <3>1. Gathered'
      BY <2>1, <2>2, SMTT(30) DEF HInv, Gathered
    <3>2. Named'
      BY <2>1, <2>2 DEF HInv, Named, NamedAt, Fits
    <3> QED
      BY <3>1, <3>2
  <2>5. ASSUME HandlesReadBack PROVE HandlesReadBack'
    <3>1. SUFFICES ASSUME NEW h \in handles'
                   PROVE  LET m    == h.data_size - 1
                              at   == h.rva + 1
                              name == [i \in 1..m |-> buffer'[buffer'[at + i].object_name_rva + 1]]
                          IN  /\ buffer'[at] = <<"handles", m>> /\ at + m = Len(buffer')
                              /\ \A i, j \in 1..m : i # j => buffer'[at + i].handle # buffer'[at + j].handle
                              /\ target'.stopped =>
                                    /\ {buffer'[at + i].handle : i \in 1..m} = DOMAIN fds'
                                    /\ \A i \in 1..m : LET f == fds'[buffer'[at + i].handle]
                                                       IN  name[i] = <<"string", f.path>> /\ buffer'[at + i].attributes = f.mode
      BY Zenon DEF HandlesReadBack
    <3> DEFINE m     == h.data_size - 1
               at    == h.rva + 1
               name  == [i \in 1..m |-> buffer[buffer[at + i].object_name_rva + 1]]
               named == [i \in 1..m |-> buffer'[buffer'[at + i].object_name_rva + 1]]
    <3>2. /\ buffer[at] = <<"handles", m>> /\ at + m = Len(buffer)
          /\ \A i, j \in 1..m : i # j => buffer[at + i].handle # buffer[at + j].handle
          /\ target.stopped =>
                /\ {buffer[at + i].handle : i \in 1..m} = DOMAIN fds
                /\ \A i \in 1..m : LET f == fds[buffer[at + i].handle]
                                   IN  name[i] = <<"string", f.path>> /\ buffer[at + i].attributes = f.mode
      <4>1. h \in handles
        BY <2>2, <3>1
      <4> QED
        BY <2>5, <4>1, Zenon DEF HandlesReadBack
    <3>3. named = name
      BY <2>1
    <3> HIDE DEF m, at, name, named
    <3>4. {buffer'[at + i].handle : i \in 1..m} = {buffer[at + i].handle : i \in 1..m}
      BY <2>1
    <3>5. /\ buffer'[at] = <<"handles", m>> /\ at + m = Len(buffer')
          /\ \A i, j \in 1..m : i # j => buffer'[at + i].handle # buffer'[at + j].handle
      BY <2>1, <3>2, SMTT(30)
    <3>6. ASSUME target'.stopped
          PROVE  /\ {buffer'[at + i].handle : i \in 1..m} = DOMAIN fds'
                 /\ \A i \in 1..m : LET f == fds'[buffer'[at + i].handle]
                                    IN  named[i] = <<"string", f.path>> /\ buffer'[at + i].attributes = f.mode
      BY <2>1, <2>2, <3>2, <3>3, <3>4, <3>6, SMTT(30)
    <3> QED
      BY <3>5, <3>6, Zenon DEF m, at, named
  <2>6. Fits' => Fits
    BY <2>1 DEF Fits
  <2> QED
    BY <2>3, <2>4, <2>5, <2>6 DEF HInv
<1> QED
  BY <1>1, <1>2, <1>3, <1>4, <1>5, <1>6, <1>7, <1>8 DEF Next, Writer, TargetStep

\* handle_data_stream: the header counts the descriptors behind it, no handle has
\* two, and those of a stopped target are its open files with their names and
\* modes, for any number of files, as long as the image fits the range of an RVA.
THEOREM HandlesCorrect == Spec => [](Fits => HandlesReadBack)
<1>1. HInv => (Fits => HandlesReadBack)
  BY DEF HInv
<1> QED
  BY <1>1, InitHandles, NextHandles, PTL DEF Spec
=============================================================================
