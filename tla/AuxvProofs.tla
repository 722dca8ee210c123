----------------------------- MODULE AuxvProofs -----------------------------
(***************************************************************************)
(* AuxvOrigin for any auxiliary vector and any values of the caller's.     *)
(***************************************************************************)
EXTENDS InfoStreams, WellFoundedInduction, TLAPS

Pairs == [key : STRING, value : Nat]
Hits(pairs, key) == {i \in DOMAIN pairs : pairs[i].key = key}

\* A set of natural numbers that is not empty has a least element, so that the
\* CHOOSE of First and of ProcfsAuxvIter finds one.
LEMMA Least ==
    ASSUME NEW T, T \subseteq Nat, T # {}
    PROVE  \E i \in T : \A j \in T : i <= j
<1>1. PICK x \in T : \A y \in T : ~ (<<y, x>> \in OpToRel(<, Nat))
  BY NatLessThanWellFounded, WFMin
<1>2. \A y \in T : ~ (y < x)
  BY <1>1 DEF OpToRel
<1> QED
  BY <1>2

\* ProcfsAuxvIter gives the pairs of the file before the first that ends it.
LEMMA IterPrefix ==
    ASSUME NEW file \in Seq(Pairs), NEW pairs, pairs = ProcfsAuxvIter(file)
    PROVE  /\ pairs \in Seq(Pairs) /\ Len(pairs) <= Len(file)
           /\ \A i \in 1..Len(pairs) : pairs[i] = file[i] /\ file[i].key \notin {"AT_NULL", "error"}
<1> DEFINE ends == {i \in DOMAIN file : file[i].key \in {"AT_NULL", "error"}}
           last == IF ends = {} THEN Len(file) ELSE (CHOOSE i \in ends : \A j \in ends : i <= j) - 1
<1>1. pairs = SubSeq(file, 1, last)
  BY DEF ProcfsAuxvIter
<1>2. last \in 0..Len(file) /\ \A i \in 1..last : i \notin ends
  <2>1. CASE ends = {}
    BY <2>1
  <2>2. CASE ends # {}
    <3>1. PICK k \in ends : \A j \in ends : k <= j
      <4>1. ends \subseteq Nat
        OBVIOUS
      <4> HIDE DEF ends
      <4> QED
        BY <2>2, <4>1, Least
    <3> DEFINE m == CHOOSE i \in ends : \A j \in ends : i <= j
    <3>2. m \in ends /\ \A j \in ends : m <= j
      BY <3>1
    <3> QED
      BY <2>2, <3>2
  <2> QED
    BY <2>1, <2>2
<1> HIDE DEF last
<1> QED
  BY <1>1, <1>2

\* First gives the element with the least of the indices.
LEMMA FirstIsLeast ==
    ASSUME NEW hits, hits \subseteq Nat, NEW s, NEW x \in First(hits, s)
    PROVE  \E i \in hits : x = s[i] /\ \A j \in hits : i <= j
<1>1. hits # {}
  BY DEF First
<1> DEFINE m == CHOOSE i \in hits : \A j \in hits : i <= j
<1>2. m \in hits /\ \A j \in hits : m <= j
  BY <1>1, Least
<1> QED
  BY <1>1, <1>2 DEF First

\* A value of a key from the file is that of the first pair with that key, and no
\* pair before it ends the file.
LEMMA FromFile ==
    ASSUME NEW file \in Seq(Pairs), NEW key,
           NEW p \in First(Hits(ProcfsAuxvIter(file), key), ProcfsAuxvIter(file))
    PROVE  \E i \in DOMAIN file :
              /\ file[i] = [key |-> key, value |-> p.value]
              /\ \A j \in 1..(i - 1) : file[j].key \notin {key, "AT_NULL", "error"}
<1> DEFINE pairs == ProcfsAuxvIter(file)
           hits  == Hits(pairs, key)
<1>1. /\ pairs \in Seq(Pairs) /\ Len(pairs) <= Len(file)
      /\ \A i \in 1..Len(pairs) : pairs[i] = file[i] /\ file[i].key \notin {"AT_NULL", "error"}
  BY IterPrefix
<1>2. hits \subseteq Nat /\ hits \subseteq 1..Len(pairs) /\ \A i \in 1..Len(pairs) : i \in hits <=> pairs[i].key = key
  BY <1>1 DEF Hits
<1>3. p \in First(hits, pairs)
  OBVIOUS
<1> HIDE DEF pairs, hits
<1>4. PICK i \in hits : p = pairs[i] /\ \A j \in hits : i <= j
  BY <1>2, <1>3, FirstIsLeast
<1>5. i \in DOMAIN file /\ \A j \in 1..(i - 1) : file[j].key \notin {key, "AT_NULL", "error"}
  BY <1>1, <1>2, <1>4
<1>6. file[i] \in Pairs /\ file[i].key = key /\ file[i].value = p.value
  BY <1>1, <1>2, <1>5, <1>4
<1>7. file[i] = [key |-> key, value |-> p.value]
  BY <1>6 DEF Pairs
<1> QED
  BY <1>5, <1>7

\* What try_filling_missing_info makes of the caller's values.
LEMMA Filled ==
    ASSUME NEW direct \in [Keys -> Nat], NEW file \in Seq(Pairs), NEW filled, NEW key \in Keys,
           filled = try_filling_missing_info(FromDirect(direct), file)
    PROVE  IF direct[key] # 0 THEN filled[key] = {direct[key]}
           ELSE \A v \in filled[key] :
                   \E i \in DOMAIN file :
                       /\ file[i] = [key |-> key, value |-> v]
                       /\ \A j \in 1..(i - 1) : file[j].key \notin {key, "AT_NULL", "error"}
<1> DEFINE given == FromDirect(direct)
           pairs == ProcfsAuxvIter(file)
           hits  == Hits(pairs, key)
<1>1. given[key] = IF direct[key] # 0 THEN {direct[key]} ELSE {}
  BY DEF FromDirect
<1>2. filled[key] = IF is_complete(given) THEN given[key]
                    ELSE IF given[key] = {} THEN {p.value : p \in First(hits, pairs)} ELSE given[key]
  BY DEF try_filling_missing_info, OrElse, Hits
<1>3. CASE direct[key] # 0
  BY <1>1, <1>2, <1>3
<1>4. CASE direct[key] = 0
  <2>1. given[key] = {} /\ ~is_complete(given)
    BY <1>1, <1>4 DEF is_complete
  <2> SUFFICES ASSUME NEW v \in filled[key]
               PROVE  \E i \in DOMAIN file :
                          /\ file[i] = [key |-> key, value |-> v]
                          /\ \A j \in 1..(i - 1) : file[j].key \notin {key, "AT_NULL", "error"}
    BY <1>4
  <2>2. PICK p \in First(hits, pairs) : v = p.value
    BY <1>2, <2>1
  <2> QED
    BY <2>2, FromFile
<1> QED
  BY <1>3, <1>4

-----------------------------------------------------------------------------
(***************************************************************************)
(* The auxiliary vector                                                    *)
(***************************************************************************)
AInv ==
    /\ target \in Targets
    /\ pc = "auxv" => auxv = FromDirect(target.direct)
    /\ AuxvOrigin

\* The target is what it is, and its auxiliary vector is filled once and for all.
LEMMA AuxvOnce ==
    ASSUME [Next]_vars
    PROVE  target' = target /\ (FillAuxv \/ (auxv' = auxv /\ (pc' = "auxv" <=> pc = "auxv")))
<1>1. CASE DsoStep
  <2>1. CASE FillAuxv
    BY <2>1 DEF FillAuxv
  <2>2. CASE ReadProgramHeaders \/ ReadDyn \/ ReadRDebug \/ ReadLinkMap
    BY <2>2 DEF ReadProgramHeaders, ReadDyn, ReadRDebug, ReadLinkMap
  <2>3. CASE ProgramHeadersFail \/ DynFails \/ RDebugFails \/ LinkMapFails \/ DsoFails \/ CopyDynamicFails
    BY <2>3 DEF ProgramHeadersFail, DynFails, RDebugFails, LinkMapFails, DsoFails, CopyDynamicFails, CopyFails, Leave
  <2>4. CASE AllocLinkMap \/ WriteDso \/ WriteDebug \/ CopyDynamic
    BY <2>4 DEF AllocLinkMap, WriteDso, WriteDebug, CopyDynamic
  <2> QED
    BY <1>1, <2>1, <2>2, <2>3, <2>4 DEF DsoStep
<1>2. CASE WriteSystemInfo
  BY <1>2 DEF WriteSystemInfo
<1>3. CASE ReadDir \/ ReadDirFails \/ FileStat \/ WriteHandles \/ \E fd \in DOMAIN target.fds : ReadLink(fd)
  BY <1>3 DEF ReadDir, ReadDirFails, FileStat, WriteHandles, ReadLink, HandleStep, UnchangedDso
<1>4. CASE TargetStep
  BY <1>4 DEF TargetStep, Unlink, Close, Open, UnchangedDso
<1>5. CASE UNCHANGED vars
  BY <1>5 DEF vars, dsoVars
<1> QED
  BY <1>1, <1>2, <1>3, <1>4, <1>5 DEF Next, Writer

\* The caller's values are in place before the file is read, and afterwards every
\* value has its origin.
LEMMA AuxvInv == (Init => AInv) /\ (AInv /\ [Next]_vars => AInv')
<1>1. Init => AInv
  BY DEF Init, DsoInit, AInv, AuxvOrigin
<1>2. ASSUME AInv, [Next]_vars PROVE AInv'
  <2>1. target' = target /\ (FillAuxv \/ (auxv' = auxv /\ (pc' = "auxv" <=> pc = "auxv")))
    BY <1>2, AuxvOnce
  <2>2. CASE FillAuxv
    <3>1. target.direct \in [Keys -> Nat] /\ target.auxv \in Seq(Pairs)
      BY <1>2, TargetAssumption DEF AInv, Pairs
    <3>2. auxv' = try_filling_missing_info(FromDirect(target.direct), target.auxv) /\ pc' = "system"
      BY <1>2, <2>2 DEF AInv, FillAuxv
    <3>3. AuxvOrigin'
      BY <2>1, <3>1, <3>2, Filled DEF AuxvOrigin
    <3> QED
      BY <1>2, <2>1, <3>2, <3>3 DEF AInv
  <2>3. CASE auxv' = auxv /\ (pc' = "auxv" <=> pc = "auxv")
    BY <1>2, <2>1, <2>3 DEF AInv, AuxvOrigin
  <2> QED
    BY <2>1, <2>2, <2>3
<1> QED
  BY <1>1, <1>2

\* try_filling_missing_info never replaces a value of the caller's, and what the
\* caller does not know is the first value in the file, for any file and caller.
THEOREM AuxvOriginCorrect == Spec => []AuxvOrigin
<1>1. AInv => AuxvOrigin
  BY DEF AInv
<1> QED
  BY <1>1, AuxvInv, PTL DEF Spec
=============================================================================
