---------------------------- MODULE ImageProofs -----------------------------
(***************************************************************************)
(* Sequences of any elements, and what the operations on the image of      *)
(* MemWriter make of them.                                                 *)
(***************************************************************************)
EXTENDS MemWriter, TLAPS

\* Buffers and link maps have elements of many kinds.
IsSeq(s) == (\E S : s \in Seq(S)) /\ Len(s) \in Nat /\ DOMAIN s = 1..Len(s)

\* A function on 1..n is a sequence of length n.
LEMMA FunctionIsSeq ==
    ASSUME NEW n \in Nat, NEW f, f = [i \in 1..n |-> f[i]]
    PROVE  IsSeq(f) /\ Len(f) = n
<1>1. f \in [1..n -> {f[i] : i \in 1..n}]
  OBVIOUS
<1>2. f \in Seq({f[i] : i \in 1..n})
  BY <1>1
<1>3. Len(f) = n /\ DOMAIN f = 1..Len(f)
  BY <1>1, <1>2
<1>4. \E S : f \in Seq(S)
  BY <1>2, Zenon
<1> QED
  BY <1>3, <1>4 DEF IsSeq

\* Concatenation, element by element.
LEMMA ConcatIs ==
    ASSUME NEW S, NEW s \in Seq(S), NEW t \in Seq(S)
    PROVE  /\ s \o t \in Seq(S)
           /\ Len(s \o t) = Len(s) + Len(t)
           /\ \A i \in 1..(Len(s) + Len(t)) :
                 (s \o t)[i] = IF i <= Len(s) THEN s[i] ELSE t[i - Len(s)]
  OBVIOUS

\* A single cell.
LEMMA OneCell == ASSUME NEW x PROVE IsSeq(<<x>>) /\ Len(<<x>>) = 1 /\ <<x>>[1] = x
<1>1. <<x>> \in Seq({x}) /\ Len(<<x>>) = 1 /\ DOMAIN <<x>> = 1..1 /\ <<x>>[1] = x
  OBVIOUS
<1>2. \E S : <<x>> \in Seq(S)
  BY <1>1, Zenon
<1> QED
  BY <1>1, <1>2 DEF IsSeq

\* Append lengthens a sequence by one.
LEMMA AppendIs == ASSUME NEW s, IsSeq(s), NEW x PROVE IsSeq(Append(s, x)) /\ Len(Append(s, x)) = Len(s) + 1
<1>1. PICK S : s \in Seq(S)
  BY DEF IsSeq
<1>2. s \in Seq(S \cup {x}) /\ x \in S \cup {x}
  BY <1>1
<1>3. Append(s, x) \in Seq(S \cup {x}) /\ Len(Append(s, x)) = Len(s) + 1
  BY <1>2
<1> QED
  BY <1>2, <1>3 DEF IsSeq

\* Buffer::write_at overwrites the cells from the offset on and keeps the others.
LEMMA WriteAtIs ==
    ASSUME NEW b, IsSeq(b), NEW o \in Nat, NEW c, IsSeq(c)
    PROVE  /\ IsSeq(WriteAt(b, o, c))
           /\ Len(WriteAt(b, o, c)) = IF Len(b) < o + Len(c) THEN o + Len(c) ELSE Len(b)
           /\ \A i \in 1..Len(WriteAt(b, o, c)) :
                 WriteAt(b, o, c)[i] = IF o < i /\ i <= o + Len(c) THEN c[i - o] ELSE b[i]
<1> DEFINE n == IF Len(b) < o + Len(c) THEN o + Len(c) ELSE Len(b)
           w == WriteAt(b, o, c)
<1>1. n \in Nat
  BY DEF IsSeq
<1>2. w = [i \in 1..n |-> IF o < i /\ i <= o + Len(c) THEN c[i - o] ELSE b[i]]
  BY DEF WriteAt
<1> HIDE DEF n, w
<1>3. w = [i \in 1..n |-> w[i]]
  BY <1>2
<1>4. IsSeq(w) /\ Len(w) = n
  BY <1>1, <1>3, FunctionIsSeq
<1> QED
  BY <1>2, <1>4 DEF n, w

\* Buffer::write_all keeps what there is and appends.
LEMMA WriteAllIs ==
    ASSUME NEW b, IsSeq(b), NEW c, IsSeq(c)
    PROVE  /\ IsSeq(WriteAll(b, c)) /\ Len(WriteAll(b, c)) = Len(b) + Len(c)
           /\ \A i \in 1..Len(b) : WriteAll(b, c)[i] = b[i]
           /\ \A i \in 1..Len(c) : WriteAll(b, c)[Len(b) + i] = c[i]
<1> DEFINE w == WriteAll(b, c)
<1>1. Len(b) \in Nat /\ Len(c) \in Nat
  BY DEF IsSeq
<1>2. /\ IsSeq(w) /\ Len(w) = Len(b) + Len(c)
      /\ \A i \in 1..Len(w) : w[i] = IF Len(b) < i /\ i <= Len(b) + Len(c) THEN c[i - Len(b)] ELSE b[i]
  BY <1>1, WriteAtIs DEF WriteAll
<1> HIDE DEF w
<1>3. ASSUME NEW i \in 1..Len(c) PROVE w[Len(b) + i] = c[i]
  <2> DEFINE k == Len(b) + i
  <2>1. k \in 1..Len(w) /\ Len(b) < k /\ k <= Len(b) + Len(c) /\ k - Len(b) = i
    BY <1>1, <1>2
  <2> HIDE DEF k
  <2>2. w[k] = c[i]
    BY <1>2, <2>1
  <2> QED
    BY <2>2 DEF k
<1>4. \A i \in 1..Len(b) : w[i] = b[i]
  BY <1>1, <1>2
<1> QED
  BY <1>2, <1>3, <1>4 DEF w

\* Buffer::reserve appends.
LEMMA ReserveIs == ASSUME NEW b, IsSeq(b), NEW n \in Nat PROVE IsSeq(Reserve(b, n)) /\ Len(Reserve(b, n)) = Len(b) + n
<1> DEFINE w == Reserve(b, n)
<1>1. Len(b) + n \in Nat
  BY DEF IsSeq
<1>2. w = [i \in 1..(Len(b) + n) |-> w[i]]
  BY DEF Reserve
<1> HIDE DEF w
<1>3. IsSeq(w) /\ Len(w) = Len(b) + n
  BY <1>1, <1>2, FunctionIsSeq
<1> QED
  BY <1>3 DEF w

\* A header before an array.
LEMMA HeaderIs ==
    ASSUME NEW x, NEW D, NEW d \in Seq(D)
    PROVE  /\ IsSeq(<<x>> \o d) /\ Len(<<x>> \o d) = 1 + Len(d) /\ (<<x>> \o d)[1] = x
           /\ \A i \in 1..Len(d) : (<<x>> \o d)[1 + i] = d[i]
<1>1. <<x>> \in Seq(D \cup {x}) /\ d \in Seq(D \cup {x}) /\ Len(<<x>>) = 1 /\ <<x>>[1] = x
  OBVIOUS
<1> DEFINE h == <<x>>
           s == h \o d
<1> HIDE DEF h
<1>2. h \in Seq(D \cup {x}) /\ Len(h) = 1 /\ h[1] = x
  BY <1>1 DEF h
<1>3. /\ s \in Seq(D \cup {x}) /\ Len(s) = 1 + Len(d) /\ Len(s) \in Nat /\ DOMAIN s = 1..Len(s)
      /\ s[1] = x /\ \A i \in 1..Len(d) : s[1 + i] = d[i]
  <2> DEFINE E == D \cup {x}
  <2>1. h \in Seq(E) /\ d \in Seq(E)
    BY <1>1, <1>2
  <2> HIDE DEF E
  <2>2. /\ s \in Seq(E) /\ Len(s) = Len(h) + Len(d)
        /\ \A i \in 1..(Len(h) + Len(d)) : s[i] = IF i <= Len(h) THEN h[i] ELSE d[i - Len(h)]
    BY <2>1, ConcatIs
  <2> HIDE DEF s
  <2>3. /\ s \in Seq(D \cup {x}) /\ Len(s) = 1 + Len(d)
        /\ \A i \in 1..(1 + Len(d)) : s[i] = IF i <= 1 THEN h[i] ELSE d[i - 1]
    BY <1>2, <2>2 DEF E
  <2>4. Len(d) \in Nat
    OBVIOUS
  <2> HIDE DEF s
  <2>5. s[1] = x
    BY <1>2, <2>3, <2>4
  <2>6. ASSUME NEW i \in 1..Len(d) PROVE s[1 + i] = d[i]
    <3>1. 1 + i \in 1..(1 + Len(d)) /\ ~(1 + i <= 1) /\ (1 + i) - 1 = i
      BY <2>4
    <3> QED
      BY <2>3, <3>1
  <2> QED
    BY <2>3, <2>4, <2>5, <2>6
<1> HIDE DEF s
<1>4. \E S : s \in Seq(S)
  BY <1>3, Zenon
<1>5. IsSeq(s)
  BY <1>3, <1>4 DEF IsSeq
<1> QED
  BY <1>3, <1>5 DEF s, h

\* The positions of a small image are not truncated.
LEMMA RvaExact == ASSUME NEW n \in Nat PROVE Rva(n) \in Nat /\ (n < RvaMod => Rva(n) = n)
BY RvaModAssumption DEF Rva
=============================================================================
