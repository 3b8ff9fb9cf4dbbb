------------------------- MODULE ReliableChannelProofs -------------------------
(***************************************************************************)
(* The reliable data channel keeps its packets: every packet has its own   *)
(* number, the task holds it once, the task's count of the buffer is exact *)
(* and the buffer bounded, and nothing is reordered before a connection is *)
(* lost, for any calls, sizes and thresholds.                              *)
(***************************************************************************)
EXTENDS ReliableChannel, SequenceTheorems, FiniteSetTheorems, TLAPS

-----------------------------------------------------------------------------
(* Sets of numbers.                                                         *)

(* A set of numbers has a least one.                                        *)
LEMMA Least ==
  ASSUME NEW T \in SUBSET Nat, T # {}
  PROVE  \E m \in T : \A k \in T : m <= k
<1>1. \E m \in T : \A k \in T : ~ (<<k, m>> \in OpToRel(<, Nat))
  BY NatLessThanWellFounded, WFMin
<1>2. PICK m \in T : \A k \in T : ~ (<<k, m>> \in OpToRel(<, Nat))
  BY <1>1
<1>3. \A k \in T : ~ (k < m)
  BY <1>2 DEF OpToRel
<1> QED
  BY <1>3

(* A set of numbers with a bound has a greatest one.                        *)
LEMMA Greatest ==
  ASSUME NEW T \in SUBSET Nat, T # {}, NEW n \in Nat, \A k \in T : k <= n
  PROVE  \E m \in T : \A k \in T : k <= m
<1> DEFINE B == {b \in Nat : \A k \in T : k <= b}
<1>1. PICK b \in B : \A k \in B : b <= k
  <2>1. B \in SUBSET Nat /\ n \in B
    OBVIOUS
  <2> QED
    BY <2>1, Least
<1>2. b \in T
  <2>1. SUFFICES ASSUME b \notin T PROVE FALSE
    OBVIOUS
  <2>2. PICK t \in T : TRUE
    OBVIOUS
  <2>3. b \in Nat /\ b # 0
    BY <1>1, <2>1, <2>2
  <2>4. b - 1 \in B
    BY <1>1, <2>1, <2>3
  <2> QED
    BY <1>1, <2>3, <2>4
<1> QED
  BY <1>1, <1>2

(* A set of places that has all places before each of its places is the     *)
(* front of the sequence, as long as the set is large.                      *)
LEMMA FrontIsCounted ==
  ASSUME NEW n \in Nat, NEW T \in SUBSET (1 .. n),
         \A i \in T, j \in 1 .. n : j <= i => j \in T
  PROVE  /\ IsFiniteSet(T) /\ Cardinality(T) \in 0 .. n
         /\ T = 1 .. Cardinality(T)
<1> DEFINE B == {k \in 1 .. n + 1 : k \notin T}
<1>1. PICK k \in B : \A j \in B : k <= j
  <2>1. B \in SUBSET Nat /\ n + 1 \in B
    OBVIOUS
  <2> QED
    BY <2>1, Least
<1>2. T = 1 .. k - 1
  <2>1. k \in 1 .. n + 1 /\ k \notin T
    OBVIOUS
  <2>2. ASSUME NEW j \in T PROVE j \in 1 .. k - 1
    BY <2>1
  <2>3. ASSUME NEW j \in 1 .. k - 1 PROVE j \in T
    <3>1. j \in 1 .. n + 1 /\ ~ (k <= j)
      BY <2>1
    <3> QED
      BY <1>1, <3>1
  <2> QED
    BY <2>2, <2>3
<1>3. IsFiniteSet(1 .. k - 1) /\ Cardinality(1 .. k - 1) = k - 1
  BY <1>1, FS_Interval
<1> QED
  BY <1>1, <1>2, <1>3

-----------------------------------------------------------------------------
(* Sizes: Total is the sum that its definition counts byte by byte.         *)
Cells(s) == UNION {{i} \X (1 .. s[i]) : i \in DOMAIN s}

(* The cells of a sequence of sizes.                                        *)
LEMMA CellsAre ==
  ASSUME NEW s \in Seq(Nat)
  PROVE  /\ \A c : c \in Cells(s) <=> \E i \in 1 .. Len(s), b \in Nat : b \in 1 .. s[i] /\ c = <<i, b>>
         /\ IsFiniteSet(Cells(s))
<1>1. DOMAIN s = 1 .. Len(s) /\ Len(s) \in Nat /\ \A i \in 1 .. Len(s) : s[i] \in Nat
  BY LenProperties, ElementOfSeq
<1>2. \A c : c \in Cells(s) <=> \E i \in 1 .. Len(s), b \in Nat : b \in 1 .. s[i] /\ c = <<i, b>>
  BY <1>1 DEF Cells
<1> DEFINE C == {{i} \X (1 .. s[i]) : i \in 1 .. Len(s)}
           f == [i \in 1 .. Len(s) |-> {i} \X (1 .. s[i])]
<1>3. IsFiniteSet(C)
  <2>1. IsFiniteSet(1 .. Len(s))
    BY <1>1, FS_Interval
  <2>2. f \in Surjection(1 .. Len(s), C)
    BY DEF Surjection
  <2> QED
    BY <2>1, <2>2, FS_Surjection
<1>4. \A T \in C : IsFiniteSet(T)
  <2>1. TAKE T \in C
  <2>2. PICK i \in 1 .. Len(s) : T = {i} \X (1 .. s[i])
    OBVIOUS
  <2>3. IsFiniteSet({i})
    BY FS_Singleton
  <2>4. s[i] \in Int /\ 1 \in Int
    BY <1>1
  <2>5. IsFiniteSet(1 .. s[i])
    BY <2>4, FS_Interval
  <2> QED
    BY <2>2, <2>3, <2>5, FS_Product
<1>5. IsFiniteSet(UNION C)
  BY <1>3, <1>4, FS_UNION
<1> QED
  BY <1>1, <1>2, <1>5 DEF Cells

(* A total is a number.                                                     *)
LEMMA TotalIsNat ==
  ASSUME NEW s \in Seq(Nat)
  PROVE  Total(s) \in Nat
BY CellsAre, FS_CardinalityType DEF Total, Cells

(* The empty sequence has total 0.                                          *)
LEMMA TotalOfNone == Total(<<>>) = 0
<1>1. Cells(<<>>) = {}
  BY DEF Cells
<1> QED
  BY <1>1, FS_EmptySet DEF Total, Cells

(* A sequence of one has that one as its total.                             *)
LEMMA TotalOfOne ==
  ASSUME NEW n \in Nat
  PROVE  Total(<<n>>) = n
<1>1. Cells(<<n>>) = {1} \X (1 .. n)
  BY DEF Cells
<1>2. IsFiniteSet({1}) /\ Cardinality({1}) = 1
  BY FS_Singleton
<1>3. IsFiniteSet(1 .. n) /\ Cardinality(1 .. n) = n
  BY FS_Interval
<1>4. Cardinality({1} \X (1 .. n)) = 1 * n
  BY <1>2, <1>3, FS_Product
<1> QED
  BY <1>1, <1>4 DEF Total, Cells

(* The total of two sequences, one behind the other, is the sum.            *)
LEMMA TotalOfBoth ==
  ASSUME NEW s \in Seq(Nat), NEW t \in Seq(Nat)
  PROVE  Total(s \o t) = Total(s) + Total(t)
<1> DEFINE u == s \o t
           D == {<<c[1] + Len(s), c[2]>> : c \in Cells(t)}
           f == [c \in Cells(t) |-> <<c[1] + Len(s), c[2]>>]
<1>1. /\ u \in Seq(Nat) /\ Len(u) = Len(s) + Len(t)
      /\ \A i \in 1 .. Len(s) + Len(t) : u[i] = IF i <= Len(s) THEN s[i] ELSE t[i - Len(s)]
      /\ Len(s) \in Nat /\ Len(t) \in Nat
  BY ConcatProperties, LenProperties
<1> HIDE DEF u
<1>2. \A c : c \in Cells(s) <=> \E i \in 1 .. Len(s), b \in Nat : b \in 1 .. s[i] /\ c = <<i, b>>
  BY CellsAre
<1>3. \A c : c \in Cells(t) <=> \E i \in 1 .. Len(t), b \in Nat : b \in 1 .. t[i] /\ c = <<i, b>>
  BY CellsAre
<1>4. \A c : c \in Cells(u) <=> \E i \in 1 .. Len(u), b \in Nat : b \in 1 .. u[i] /\ c = <<i, b>>
  BY <1>1, CellsAre
<1>5. IsFiniteSet(Cells(s)) /\ IsFiniteSet(Cells(t))
  BY CellsAre
<1>6. \A d : d \in D <=> \E i \in 1 .. Len(t), b \in Nat : b \in 1 .. t[i] /\ d = <<i + Len(s), b>>
  <2>1. ASSUME NEW c \in Cells(t)
        PROVE  \E i \in 1 .. Len(t), b \in Nat : /\ b \in 1 .. t[i]
                                                /\ <<c[1] + Len(s), c[2]>> = <<i + Len(s), b>>
    <3>1. PICK i \in 1 .. Len(t), b \in Nat : b \in 1 .. t[i] /\ c = <<i, b>>
      BY <1>3
    <3> QED
      BY <3>1
  <2>2. ASSUME NEW i \in 1 .. Len(t), NEW b \in Nat, b \in 1 .. t[i]
        PROVE  <<i + Len(s), b>> \in D
    <3>1. <<i, b>> \in Cells(t)
      BY <1>3, <2>2
    <3>2. <<<<i, b>>[1] + Len(s), <<i, b>>[2]>> \in D
      BY <3>1
    <3> QED
      BY <3>2
  <2> QED
    BY <2>1, <2>2
<1>7. IsFiniteSet(D) /\ Cardinality(D) = Cardinality(Cells(t))
  <2>1. f \in Bijection(Cells(t), D)
    <3>1. f \in [Cells(t) -> D] /\ \A d \in D : \E c \in Cells(t) : f[c] = d
      OBVIOUS
    <3>2. ASSUME NEW c \in Cells(t), NEW d \in Cells(t), f[c] = f[d]
          PROVE  c = d
      <4>1. PICK i \in 1 .. Len(t), b \in Nat : b \in 1 .. t[i] /\ c = <<i, b>>
        BY <1>3
      <4>2. PICK j \in 1 .. Len(t), a \in Nat : a \in 1 .. t[j] /\ d = <<j, a>>
        BY <1>3
      <4>3. f[c] = <<i + Len(s), b>> /\ f[d] = <<j + Len(s), a>>
        BY <4>1, <4>2
      <4> QED
        BY <1>1, <3>2, <4>1, <4>2, <4>3
    <3>3. f \in Injection(Cells(t), D)
      BY <3>1, <3>2 DEF Injection, IsInjective
    <3>4. f \in Surjection(Cells(t), D)
      BY <3>1 DEF Surjection
    <3> QED
      BY <3>3, <3>4 DEF Bijection
  <2> QED
    BY <1>5, <2>1, FS_Bijection DEF ExistsBijection
<1>8. Cells(u) = Cells(s) \cup D
  <2>1. ASSUME NEW c \in Cells(u) PROVE c \in Cells(s) \cup D
    <3>1. PICK i \in 1 .. Len(u), b \in Nat : b \in 1 .. u[i] /\ c = <<i, b>>
      BY <1>4
    <3>2. CASE i <= Len(s)
      <4>1. i \in 1 .. Len(s) /\ u[i] = s[i]
        BY <1>1, <3>1, <3>2
      <4> QED
        BY <1>2, <3>1, <4>1
    <3>3. CASE i > Len(s)
      <4>1. i - Len(s) \in 1 .. Len(t) /\ b \in 1 .. t[i - Len(s)]
            /\ c = <<(i - Len(s)) + Len(s), b>>
        BY <1>1, <3>1, <3>3
      <4> QED
        BY <1>6, <4>1
    <3> QED
      BY <1>1, <3>1, <3>2, <3>3
  <2>2. ASSUME NEW c \in Cells(s) PROVE c \in Cells(u)
    <3>1. PICK i \in 1 .. Len(s), b \in Nat : b \in 1 .. s[i] /\ c = <<i, b>>
      BY <1>2
    <3>2. i \in 1 .. Len(u) /\ u[i] = s[i]
      BY <1>1
    <3> QED
      BY <1>4, <3>1, <3>2
  <2>3. ASSUME NEW c \in D PROVE c \in Cells(u)
    <3>1. PICK i \in 1 .. Len(t), b \in Nat : b \in 1 .. t[i] /\ c = <<i + Len(s), b>>
      BY <1>6
    <3>2. i + Len(s) \in 1 .. Len(u) /\ u[i + Len(s)] = t[i]
      <4>1. i \in Nat /\ i <= Len(t) /\ 1 <= i
        BY <1>1
      <4>2. (i + Len(s)) - Len(s) = i /\ ~ (i + Len(s) <= Len(s))
        BY <1>1, <4>1
      <4>3. i + Len(s) \in 1 .. Len(s) + Len(t)
        BY <1>1, <4>1
      <4> QED
        BY <1>1, <4>2, <4>3
    <3> QED
      BY <1>4, <3>1, <3>2
  <2> QED
    BY <2>1, <2>2, <2>3
<1>9. Cells(s) \cap D = {}
  <2>1. ASSUME NEW c \in Cells(s), c \in D PROVE FALSE
    <3>1. PICK i \in 1 .. Len(s), b \in Nat : b \in 1 .. s[i] /\ c = <<i, b>>
      BY <1>2
    <3>2. PICK j \in 1 .. Len(t), a \in Nat : a \in 1 .. t[j] /\ c = <<j + Len(s), a>>
      BY <1>6, <2>1
    <3> QED
      BY <1>1, <3>1, <3>2
  <2> QED
    BY <2>1
<1>10. Cardinality(Cells(u)) = Cardinality(Cells(s)) + Cardinality(D) - 0
  <2> DEFINE C == Cells(s)
  <2>1. IsFiniteSet(C) /\ IsFiniteSet(D)
    BY <1>5, <1>7
  <2> HIDE DEF D, C
  <2>2. Cardinality(C \cup D) = Cardinality(C) + Cardinality(D) - Cardinality(C \cap D)
    BY <2>1, FS_Union
  <2>3. Cardinality(C \cap D) = 0
    BY <1>9, FS_EmptySet DEF C
  <2> QED
    BY <1>8, <2>2, <2>3 DEF C
<1>11. Cardinality(Cells(s)) \in Nat /\ Cardinality(D) \in Nat
  BY <1>5, <1>7, FS_CardinalityType
<1>12. \A x : Total(x) = Cardinality(Cells(x))
  BY DEF Total, Cells
<1>13. Total(u) = Total(s) + Total(t)
  BY <1>7, <1>10, <1>11, <1>12
<1> QED
  BY <1>13 DEF u

-----------------------------------------------------------------------------
(* Sequences cut in two.                                                    *)

(* The first k of a sequence and those from the next on are the sequence.   *)
LEMMA Cut ==
  ASSUME NEW S, NEW s \in Seq(S), NEW k \in 0 .. Len(s)
  PROVE  /\ SubSeq(s, 1, k) \in Seq(S) /\ From(s, k + 1) \in Seq(S)
         /\ Len(SubSeq(s, 1, k)) = k /\ Len(From(s, k + 1)) = Len(s) - k
         /\ \A i \in 1 .. k : SubSeq(s, 1, k)[i] = s[i]
         /\ \A i \in 1 .. Len(s) - k : From(s, k + 1)[i] = s[i + k]
         /\ s = SubSeq(s, 1, k) \o From(s, k + 1)
<1>1. Len(s) \in Nat /\ k \in Nat /\ k <= Len(s) /\ \A i \in 1 .. Len(s) : s[i] \in S
  BY LenProperties, ElementOfSeq
<1>2. \A i \in 1 .. k : s[i] \in S
  BY <1>1
<1>3. \A i \in k + 1 .. Len(s) : s[i] \in S
  BY <1>1
<1>4. /\ SubSeq(s, 1, k) \in Seq(S)
      /\ Len(SubSeq(s, 1, k)) = IF 1 <= k THEN k - 1 + 1 ELSE 0
      /\ \A i \in 1 .. k - 1 + 1 : SubSeq(s, 1, k)[i] = s[1 + i - 1]
  BY <1>1, <1>2, SubSeqProperties
<1>5. /\ SubSeq(s, k + 1, Len(s)) \in Seq(S)
      /\ Len(SubSeq(s, k + 1, Len(s))) = IF k + 1 <= Len(s) THEN Len(s) - (k + 1) + 1 ELSE 0
      /\ \A i \in 1 .. Len(s) - (k + 1) + 1 : SubSeq(s, k + 1, Len(s))[i] = s[(k + 1) + i - 1]
  BY <1>1, <1>3, SubSeqProperties
<1>6. /\ SubSeq(s, 1, k) \in Seq(S) /\ From(s, k + 1) \in Seq(S)
      /\ Len(SubSeq(s, 1, k)) = k /\ Len(From(s, k + 1)) = Len(s) - k
      /\ \A i \in 1 .. k : SubSeq(s, 1, k)[i] = s[i]
  BY <1>1, <1>4, <1>5 DEF From
<1>7. \A i \in 1 .. Len(s) - k : From(s, k + 1)[i] = s[i + k]
  BY <1>1, <1>5 DEF From
<1> DEFINE a == SubSeq(s, 1, k)
           b == From(s, k + 1)
<1>8. /\ a \o b \in Seq(S) /\ Len(a \o b) = Len(s)
      /\ \A i \in 1 .. Len(s) : (a \o b)[i] = IF i <= k THEN a[i] ELSE b[i - k]
  <2>1. /\ a \o b \in Seq(S) /\ Len(a \o b) = Len(a) + Len(b)
        /\ \A i \in 1 .. Len(a) + Len(b) : (a \o b)[i] = IF i <= Len(a) THEN a[i] ELSE b[i - Len(a)]
    BY <1>6, ConcatProperties
  <2>2. Len(a) = k /\ Len(a) + Len(b) = Len(s)
    BY <1>1, <1>6
  <2> QED
    BY <2>1, <2>2
<1>9. \A i \in 1 .. Len(s) : s[i] = (a \o b)[i]
  <2>1. TAKE i \in 1 .. Len(s)
  <2>2. CASE i <= k
    BY <1>1, <1>6, <1>8, <2>2
  <2>3. CASE ~ (i <= k)
    <3>1. i - k \in 1 .. Len(s) - k /\ (i - k) + k = i
      BY <1>1, <2>3
    <3> QED
      BY <1>7, <1>8, <2>3, <3>1
  <2> QED
    BY <2>2, <2>3
<1>10. s = a \o b
  BY <1>8, <1>9, SeqEqual
<1> QED
  BY <1>6, <1>7, <1>10

(* The head of a sequence and its tail are the sequence.                    *)
LEMMA CutHead ==
  ASSUME NEW S, NEW s \in Seq(S), s # <<>>
  PROVE  /\ Head(s) \in S /\ Head(s) = s[1] /\ 1 \in 1 .. Len(s)
         /\ Tail(s) \in Seq(S) /\ Len(Tail(s)) = Len(s) - 1
         /\ \A i \in 1 .. Len(s) - 1 : Tail(s)[i] = s[i + 1] /\ i + 1 \in 1 .. Len(s)
         /\ <<Head(s)>> \in Seq(S) /\ s = <<Head(s)>> \o Tail(s)
<1>1. Len(s) \in Nat \ {0}
  BY EmptySeq
<1>2. /\ Head(s) \in S /\ Head(s) = s[1]
      /\ Tail(s) \in Seq(S) /\ Len(Tail(s)) = Len(s) - 1
      /\ \A i \in 1 .. Len(Tail(s)) : Tail(s)[i] = s[i + 1]
  BY HeadTailProperties, LenProperties
<1>3. 1 \in 1 .. Len(s) /\ \A i \in 1 .. Len(s) - 1 : i + 1 \in 1 .. Len(s)
  BY <1>1
<1>4. <<Head(s)>> \in Seq(S) /\ Len(<<Head(s)>>) = 1 /\ <<Head(s)>>[1] = s[1]
  BY <1>2
<1> DEFINE t == <<Head(s)>> \o Tail(s)
<1>5. /\ t \in Seq(S) /\ Len(t) = 1 + (Len(s) - 1)
      /\ \A i \in 1 .. 1 + (Len(s) - 1) : t[i] = IF i <= 1 THEN <<Head(s)>>[i] ELSE Tail(s)[i - 1]
  BY <1>2, <1>4, ConcatProperties
<1>6. \A i \in 1 .. Len(s) : s[i] = t[i]
  <2>1. TAKE i \in 1 .. Len(s)
  <2>2. CASE i = 1
    BY <1>1, <1>4, <1>5, <2>2
  <2>3. CASE i # 1
    <3>1. i - 1 \in 1 .. Len(s) - 1 /\ (i - 1) + 1 = i /\ ~ (i <= 1) /\ i \in 1 .. 1 + (Len(s) - 1)
      BY <1>1, <2>3
    <3> QED
      BY <1>2, <1>5, <3>1
  <2> QED
    BY <2>2, <2>3
<1>7. s = t
  BY <1>1, <1>5, <1>6, SeqEqual
<1> QED
  BY <1>2, <1>3, <1>4, <1>7

-----------------------------------------------------------------------------
(* Packets, requests and events, whatever numbers were handed out.          *)
AnyPacket == [seq : Nat, call : Call]
RequestOf(P) == [packet : P, reply : BOOLEAN]
AnyRequest == RequestOf(AnyPacket)
AnyEvent ==
       [type : {"publishPacket"}, call : Call]
  \cup [type : {"publishData"}, packet : AnyPacket, reply : BOOLEAN]
  \cup [type : {"bufferedAmountChange"}, sent : Nat]
  \cup [type : {"retryFrom"}, last : Nat]

(* A function applied to every element: of one sequence, and of two.        *)
Maps(F, S, T) == \A x \in S : F[x] \in T
Image(F, s) == [i \in DOMAIN s |-> F[s[i]]]

(* The image of two sequences, one behind the other, is that of both.       *)
LEMMA ImageOfBoth ==
  ASSUME NEW S, NEW T, NEW F, Maps(F, S, T),
         NEW s \in Seq(S), NEW t \in Seq(S)
  PROVE  /\ Image(F, s) \in Seq(T) /\ Len(Image(F, s)) = Len(s)
         /\ Image(F, t) \in Seq(T)
         /\ Image(F, s \o t) = Image(F, s) \o Image(F, t)
<1>1. ASSUME NEW p \in Seq(S)
      PROVE  /\ Image(F, p) \in Seq(T) /\ Len(Image(F, p)) = Len(p) /\ Len(p) \in Nat
             /\ \A i \in 1 .. Len(p) : Image(F, p)[i] = F[p[i]]
  <2>1. /\ DOMAIN p = 1 .. Len(p) /\ Len(p) \in Nat
        /\ \A i \in 1 .. Len(p) : p[i] \in S
    BY LenProperties, ElementOfSeq
  <2> QED
    BY <2>1 DEF Image, Maps
<1>2. /\ s \o t \in Seq(S) /\ Len(s \o t) = Len(s) + Len(t)
      /\ \A i \in 1 .. Len(s) + Len(t) : (s \o t)[i] = IF i <= Len(s) THEN s[i] ELSE t[i - Len(s)]
  BY ConcatProperties
<1> DEFINE a == Image(F, s)
           b == Image(F, t)
<1>3. a \in Seq(T) /\ b \in Seq(T) /\ Len(a) = Len(s) /\ Len(b) = Len(t)
  BY <1>1
<1> HIDE DEF a, b
<1>4. /\ a \o b \in Seq(T) /\ Len(a \o b) = Len(a) + Len(b)
      /\ \A i \in 1 .. Len(a) + Len(b) : (a \o b)[i] = IF i <= Len(a) THEN a[i] ELSE b[i - Len(a)]
  BY <1>3, ConcatProperties
<1>5. /\ Image(F, s \o t) \in Seq(T) /\ Len(Image(F, s \o t)) = Len(s) + Len(t)
      /\ \A i \in 1 .. Len(s) + Len(t) : Image(F, s \o t)[i] = F[(s \o t)[i]]
  BY <1>1, <1>2
<1>6. \A i \in 1 .. Len(s) + Len(t) : Image(F, s \o t)[i] = (a \o b)[i]
  <2>1. TAKE i \in 1 .. Len(s) + Len(t)
  <2>2. Len(s) \in Nat /\ Len(t) \in Nat
    BY LenProperties
  <2>3. CASE i <= Len(s)
    <3>1. i \in 1 .. Len(s)
      BY <2>2, <2>3
    <3>2. a[i] = F[s[i]]
      BY <1>1, <3>1 DEF a
    <3> QED
      BY <1>2, <1>3, <1>4, <1>5, <2>3, <3>2
  <2>4. CASE ~ (i <= Len(s))
    <3>1. i - Len(s) \in 1 .. Len(t)
      BY <2>2, <2>4
    <3>2. b[i - Len(s)] = F[t[i - Len(s)]]
      BY <1>1, <3>1 DEF b
    <3> QED
      BY <1>2, <1>3, <1>4, <1>5, <2>4, <3>2
  <2> QED
    BY <2>3, <2>4
<1>7. Image(F, s \o t) = a \o b
  BY <1>3, <1>4, <1>5, <1>6, SeqEqual
<1> QED
  BY <1>1, <1>7 DEF a, b

(* The bytes of two sequences of packets are those of both.                 *)
LEMMA BytesOfBoth ==
  ASSUME NEW s \in Seq(AnyPacket), NEW t \in Seq(AnyPacket)
  PROVE  /\ Bytes(s) \in Nat /\ Bytes(t) \in Nat
         /\ Bytes(s \o t) = Bytes(s) + Bytes(t)
<1> DEFINE F == [p \in AnyPacket |-> Size[p.call]]
<1>1. Maps(F, AnyPacket, Nat)
  BY ChannelAssumption DEF AnyPacket, Maps
<1>2. ASSUME NEW p \in Seq(AnyPacket)
      PROVE  Bytes(p) = Total(Image(F, p))
  <2>1. DOMAIN p = 1 .. Len(p) /\ \A i \in 1 .. Len(p) : p[i] \in AnyPacket
    BY LenProperties, ElementOfSeq
  <2>2. [i \in DOMAIN p |-> Size[p[i].call]] = [i \in DOMAIN p |-> F[p[i]]]
    BY <2>1
  <2> QED
    BY <2>2 DEF Bytes, Image
<1>3. s \o t \in Seq(AnyPacket)
  BY ConcatProperties
<1> HIDE DEF F
<1>4. /\ Image(F, s) \in Seq(Nat) /\ Image(F, t) \in Seq(Nat)
      /\ Image(F, s \o t) = Image(F, s) \o Image(F, t)
  BY <1>1, ImageOfBoth
<1>5. Total(Image(F, s) \o Image(F, t)) = Total(Image(F, s)) + Total(Image(F, t))
  BY <1>4, TotalOfBoth
<1>6. Total(Image(F, s)) \in Nat /\ Total(Image(F, t)) \in Nat
  BY <1>4, TotalIsNat
<1> QED
  BY <1>2, <1>3, <1>4, <1>5, <1>6

(* The packets of a sequence of requests.                                   *)
LEMMA PacketsAre ==
  ASSUME NEW P, NEW s \in Seq(RequestOf(P))
  PROVE  /\ Packets(s) \in Seq(P) /\ Len(Packets(s)) = Len(s)
         /\ \A i \in 1 .. Len(s) : Packets(s)[i] = s[i].packet
<1>1. /\ DOMAIN s = 1 .. Len(s) /\ Len(s) \in Nat
      /\ \A i \in 1 .. Len(s) : s[i] \in RequestOf(P)
  BY LenProperties, ElementOfSeq
<1>2. \A i \in 1 .. Len(s) : s[i].packet \in P
  BY <1>1 DEF RequestOf
<1> QED
  BY <1>1, <1>2 DEF Packets

(* The packets of two sequences of requests are those of both.              *)
LEMMA PacketsOfBoth ==
  ASSUME NEW P, NEW s \in Seq(RequestOf(P)), NEW t \in Seq(RequestOf(P))
  PROVE  Packets(s \o t) = Packets(s) \o Packets(t)
<1> DEFINE F == [r \in RequestOf(P) |-> r.packet]
<1>1. Maps(F, RequestOf(P), P)
  BY DEF Maps, RequestOf
<1>2. ASSUME NEW p \in Seq(RequestOf(P))
      PROVE  Packets(p) = Image(F, p)
  <2>1. DOMAIN p = 1 .. Len(p) /\ \A i \in 1 .. Len(p) : p[i] \in RequestOf(P)
    BY LenProperties, ElementOfSeq
  <2>2. [i \in DOMAIN p |-> p[i].packet] = [i \in DOMAIN p |-> F[p[i]]]
    BY <2>1
  <2> QED
    BY <2>2 DEF Packets, Image
<1>3. s \o t \in Seq(RequestOf(P))
  BY ConcatProperties
<1> HIDE DEF F
<1>4. Image(F, s \o t) = Image(F, s) \o Image(F, t)
  BY <1>1, ImageOfBoth
<1> QED
  BY <1>2, <1>3, <1>4

(* The changes of two sequences of events are those of both.                *)
LEMMA ChangesOfBoth ==
  ASSUME NEW s \in Seq(AnyEvent), NEW t \in Seq(AnyEvent)
  PROVE  /\ Total(Changes(s)) \in Nat /\ Total(Changes(t)) \in Nat
         /\ Total(Changes(s \o t)) = Total(Changes(s)) + Total(Changes(t))
<1> DEFINE F == [e \in AnyEvent |-> IF e.type = "bufferedAmountChange" THEN e.sent ELSE 0]
<1>1. Maps(F, AnyEvent, Nat)
  BY DEF AnyEvent, Maps
<1>2. ASSUME NEW p \in Seq(AnyEvent)
      PROVE  Changes(p) = Image(F, p)
  <2>1. DOMAIN p = 1 .. Len(p) /\ \A i \in 1 .. Len(p) : p[i] \in AnyEvent
    BY LenProperties, ElementOfSeq
  <2>2. [i \in DOMAIN p |-> IF p[i].type = "bufferedAmountChange" THEN p[i].sent ELSE 0]
          = [i \in DOMAIN p |-> F[p[i]]]
    BY <2>1
  <2> QED
    BY <2>2 DEF Changes, Image
<1>3. s \o t \in Seq(AnyEvent)
  BY ConcatProperties
<1> HIDE DEF F
<1>4. /\ Image(F, s) \in Seq(Nat) /\ Image(F, t) \in Seq(Nat)
      /\ Image(F, s \o t) = Image(F, s) \o Image(F, t)
  BY <1>1, ImageOfBoth
<1>5. Total(Image(F, s) \o Image(F, t)) = Total(Image(F, s)) + Total(Image(F, t))
  BY <1>4, TotalOfBoth
<1>6. Total(Image(F, s)) \in Nat /\ Total(Image(F, t)) \in Nat
  BY <1>4, TotalIsNat
<1> QED
  BY <1>2, <1>3, <1>4, <1>5, <1>6

(* No packets, no bytes; and one packet has its size.                       *)
LEMMA BytesOfFew ==
  /\ Bytes(<<>>) = 0
  /\ \A p \in AnyPacket : Bytes(<<p>>) = Size[p.call] /\ Size[p.call] \in Nat
<1>1. Bytes(<<>>) = 0
  <2>1. [i \in DOMAIN <<>> |-> Size[<<>>[i].call]] = <<>>
    OBVIOUS
  <2> QED
    BY <2>1, TotalOfNone DEF Bytes
<1>2. ASSUME NEW p \in AnyPacket
      PROVE  Bytes(<<p>>) = Size[p.call] /\ Size[p.call] \in Nat
  <2>1. Size[p.call] \in Nat
    BY ChannelAssumption DEF AnyPacket
  <2>2. [i \in DOMAIN <<p>> |-> Size[<<p>>[i].call]] = <<Size[p.call]>>
    OBVIOUS
  <2>3. Total(<<Size[p.call]>>) = Size[p.call]
    BY <2>1, TotalOfOne
  <2> QED
    BY <2>1, <2>2, <2>3 DEF Bytes
<1> QED
  BY <1>1, <1>2

(* A single event changes the total by what it says.                        *)
LEMMA ChangesOfOne ==
  ASSUME NEW e \in AnyEvent
  PROVE  Total(Changes(<<e>>)) = IF e.type = "bufferedAmountChange" THEN e.sent ELSE 0
<1> DEFINE n == IF e.type = "bufferedAmountChange" THEN e.sent ELSE 0
<1>1. n \in Nat
  BY DEF AnyEvent
<1>2. Changes(<<e>>) = <<n>>
  BY DEF Changes
<1> HIDE DEF n
<1>3. Total(<<n>>) = n
  BY <1>1, TotalOfOne
<1> QED
  BY <1>2, <1>3 DEF n

-----------------------------------------------------------------------------
(* What the handlers take and keep.                                         *)

(* A longer front of a sequence of packets has no fewer bytes.              *)
LEMMA BytesOfFront ==
  ASSUME NEW p \in Seq(AnyPacket), NEW i \in 0 .. Len(p), NEW j \in 0 .. i
  PROVE  /\ Bytes(SubSeq(p, 1, i)) \in Nat /\ Bytes(SubSeq(p, 1, j)) \in Nat
         /\ Bytes(SubSeq(p, 1, j)) <= Bytes(SubSeq(p, 1, i))
<1> DEFINE q == SubSeq(p, 1, i)
<1>1. Len(p) \in Nat /\ i \in Nat /\ j \in Nat /\ j <= i /\ j \in 0 .. Len(p)
  BY LenProperties
<1>2. q \in Seq(AnyPacket) /\ Len(q) = i /\ \A m \in 1 .. i : q[m] = p[m]
  BY Cut
<1> HIDE DEF q
<1>3. /\ SubSeq(p, 1, j) \in Seq(AnyPacket) /\ Len(SubSeq(p, 1, j)) = j
      /\ \A m \in 1 .. j : SubSeq(p, 1, j)[m] = p[m]
  BY <1>1, Cut
<1>4. /\ SubSeq(q, 1, j) \in Seq(AnyPacket) /\ From(q, j + 1) \in Seq(AnyPacket)
      /\ Len(SubSeq(q, 1, j)) = j
      /\ \A m \in 1 .. j : SubSeq(q, 1, j)[m] = q[m]
      /\ q = SubSeq(q, 1, j) \o From(q, j + 1)
  BY <1>1, <1>2, Cut
<1>5. SubSeq(q, 1, j) = SubSeq(p, 1, j)
  <2>1. \A m \in 1 .. j : SubSeq(q, 1, j)[m] = SubSeq(p, 1, j)[m]
    BY <1>1, <1>2, <1>3, <1>4
  <2> QED
    BY <1>3, <1>4, <2>1, SeqEqual
<1>6. /\ Bytes(SubSeq(p, 1, j)) \in Nat /\ Bytes(From(q, j + 1)) \in Nat
      /\ Bytes(SubSeq(p, 1, j) \o From(q, j + 1)) = Bytes(SubSeq(p, 1, j)) + Bytes(From(q, j + 1))
  BY <1>3, <1>4, BytesOfBoth
<1>7. Bytes(q) = Bytes(SubSeq(p, 1, j)) + Bytes(From(q, j + 1))
  BY <1>4, <1>5, <1>6
<1> QED
  BY <1>6, <1>7 DEF q

(* The packets of the first requests are the first packets.                 *)
LEMMA PacketsOfFront ==
  ASSUME NEW P, NEW r \in Seq(RequestOf(P)), NEW k \in 0 .. Len(r)
  PROVE  Packets(SubSeq(r, 1, k)) = SubSeq(Packets(r), 1, k)
<1>1. /\ Packets(r) \in Seq(P) /\ Len(Packets(r)) = Len(r)
      /\ \A i \in 1 .. Len(r) : Packets(r)[i] = r[i].packet
  BY PacketsAre
<1>2. /\ SubSeq(r, 1, k) \in Seq(RequestOf(P)) /\ Len(SubSeq(r, 1, k)) = k
      /\ \A i \in 1 .. k : SubSeq(r, 1, k)[i] = r[i]
  BY Cut
<1>3. /\ SubSeq(Packets(r), 1, k) \in Seq(P) /\ Len(SubSeq(Packets(r), 1, k)) = k
      /\ \A i \in 1 .. k : SubSeq(Packets(r), 1, k)[i] = Packets(r)[i]
  BY <1>1, Cut
<1>4. /\ Packets(SubSeq(r, 1, k)) \in Seq(P) /\ Len(Packets(SubSeq(r, 1, k))) = k
      /\ \A i \in 1 .. k : Packets(SubSeq(r, 1, k))[i] = SubSeq(r, 1, k)[i].packet
  BY <1>2, PacketsAre
<1>5. \A i \in 1 .. k : i \in 1 .. Len(r)
  BY LenProperties
<1>6. \A i \in 1 .. k : Packets(SubSeq(r, 1, k))[i] = SubSeq(Packets(r), 1, k)[i]
  BY <1>1, <1>2, <1>3, <1>4, <1>5
<1> QED
  BY <1>3, <1>4, <1>6, SeqEqual

(* _send_until_threshold takes the front of the queue, and took its last    *)
(* one while no more than the threshold was buffered.                       *)
LEMMA SentNowIsFront ==
  ASSUME NEW r \in Seq(AnyRequest), NEW buffered \in Nat, threshold \in Nat
  PROVE  \E k \in 0 .. Len(r) :
           /\ SentNow(r, buffered) = SubSeq(r, 1, k)
           /\ k # 0 => buffered + Bytes(SubSeq(Packets(r), 1, k - 1)) <= threshold
<1> DEFINE B(i) == Bytes(SubSeq(Packets(r), 1, i - 1))
           T == {i \in 1 .. Len(r) : buffered + B(i) <= threshold}
<1>1. Len(r) \in Nat /\ DOMAIN r = 1 .. Len(r)
  BY LenProperties
<1>2. Packets(r) \in Seq(AnyPacket) /\ Len(Packets(r)) = Len(r)
  BY PacketsAre DEF AnyRequest
<1>3. \A i \in 1 .. Len(r) : Packets(SubSeq(r, 1, i - 1)) = SubSeq(Packets(r), 1, i - 1)
  <2>1. \A i \in 1 .. Len(r) : i - 1 \in 0 .. Len(r)
    BY <1>1
  <2> QED
    BY <2>1, PacketsOfFront DEF AnyRequest
<1>4. \A i, j \in 1 .. Len(r) : j <= i => B(i) \in Nat /\ B(j) \in Nat /\ B(j) <= B(i)
  <2>1. \A i, j \in 1 .. Len(r) : j <= i => i - 1 \in 0 .. Len(r) /\ j - 1 \in 0 .. i - 1
    BY <1>1
  <2>2. \A i \in 0 .. Len(r) : \A j \in 0 .. i :
          /\ Bytes(SubSeq(Packets(r), 1, i)) \in Nat /\ Bytes(SubSeq(Packets(r), 1, j)) \in Nat
          /\ Bytes(SubSeq(Packets(r), 1, j)) <= Bytes(SubSeq(Packets(r), 1, i))
    BY <1>2, BytesOfFront
  <2> QED
    BY <2>1, <2>2
<1> HIDE DEF B
<1>5. \A i \in T, j \in 1 .. Len(r) : j <= i => j \in T
  BY <1>4
<1>6. /\ Cardinality(T) \in 0 .. Len(r)
      /\ T = 1 .. Cardinality(T)
  <2>1. T \in SUBSET (1 .. Len(r))
    OBVIOUS
  <2> HIDE DEF T
  <2> QED
    BY <1>1, <1>5, <2>1, FrontIsCounted
<1>7. SentNow(r, buffered) = SubSeq(r, 1, Cardinality(T))
  <2>1. \A i \in 1 .. Len(r) : Bytes(Packets(SubSeq(r, 1, i - 1))) = B(i)
    BY <1>3 DEF B
  <2>2. T = {i \in DOMAIN r : buffered + Bytes(Packets(SubSeq(r, 1, i - 1))) <= threshold}
    BY <1>1, <2>1
  <2> HIDE DEF T
  <2> QED
    BY <2>2 DEF SentNow
<1>8. Cardinality(T) # 0 => buffered + B(Cardinality(T)) <= threshold
  <2>1. Cardinality(T) # 0 => Cardinality(T) \in T
    BY <1>1, <1>6
  <2> QED
    BY <2>1
<1> QED
  BY <1>6, <1>7, <1>8 DEF B

(* What trim leaves is an end of the queue.                                 *)
LEMMA TrimIsEnd ==
  ASSUME NEW p \in Seq(AnyPacket), NEW target \in Nat
  PROVE  \E k \in 0 .. Len(p) : Trim(p, target) = From(p, k + 1)
<1> DEFINE T == {i \in 1 .. Len(p) + 1 : Bytes(From(p, i)) <= target}
<1>1. Len(p) \in Nat
  BY LenProperties
<1>2. Len(p) + 1 \in T
  <2>1. From(p, Len(p) + 1) = <<>>
    BY <1>1, SubSeqEmpty DEF From
  <2> QED
    BY <1>1, <2>1, BytesOfFew
<1>3. T \in SUBSET Nat /\ \A i \in T : i \in 1 .. Len(p) + 1
  OBVIOUS
<1>4. Trim(p, target) = From(p, Min(T))
  BY DEF Trim
<1> HIDE DEF T
<1>5. \E m \in T : \A k \in T : m <= k
  BY <1>2, <1>3, Least
<1>6. Min(T) \in T
  BY <1>5 DEF Min
<1>7. Min(T) - 1 \in 0 .. Len(p) /\ (Min(T) - 1) + 1 = Min(T)
  <2>1. Min(T) \in 1 .. Len(p) + 1
    BY <1>3, <1>6
  <2> HIDE DEF Min
  <2> QED
    BY <1>1, <2>1
<1> QED
  BY <1>4, <1>7

(* The places of a set can be listed in their order.                        *)
LEMMA PlacesInOrder ==
  ASSUME NEW n \in Nat, NEW T \in SUBSET (1 .. n)
  PROVE  /\ Cardinality(T) \in Nat
         /\ \E f \in [1 .. Cardinality(T) -> T] :
              \A i, j \in 1 .. Cardinality(T) : i < j => f[i] < f[j]
<1> DEFINE Ordered(S) ==
             \E f \in [1 .. Cardinality(S) -> S] :
               \A i, j \in 1 .. Cardinality(S) : i < j => f[i] < f[j]
           Bad == {m \in Nat : \E S \in SUBSET (1 .. m) : ~ Ordered(S)}
<1>1. ASSUME NEW m \in Nat, NEW S \in SUBSET (1 .. m)
      PROVE  IsFiniteSet(S) /\ Cardinality(S) \in Nat
  <2>1. IsFiniteSet(1 .. m)
    BY FS_Interval
  <2> QED
    BY <2>1, FS_Subset, FS_CardinalityType
<1>2. Bad = {}
  <2>1. SUFFICES ASSUME Bad # {} PROVE FALSE
    OBVIOUS
  <2>2. PICK m \in Bad : \A k \in Bad : m <= k
    BY <2>1, Least
  <2>3. PICK S \in SUBSET (1 .. m) : ~ Ordered(S)
    BY <2>2
  <2>4. m \in Nat
    BY <2>2
  <2>5. S # {}
    <3>1. SUFFICES ASSUME S = {} PROVE FALSE
      OBVIOUS
    <3>2. Cardinality(S) = 0
      BY <3>1, FS_EmptySet
    <3>3. [i \in 1 .. 0 |-> 0] \in [1 .. Cardinality(S) -> S]
      BY <3>2
    <3>4. \A i, j \in 1 .. Cardinality(S) : i < j => [k \in 1 .. 0 |-> 0][i] < [k \in 1 .. 0 |-> 0][j]
      BY <3>2
    <3> QED
      BY <2>3, <3>3, <3>4
  <2>6. m # 0
    <3>1. PICK x \in S : x \in 1 .. m
      BY <2>5
    <3> QED
      BY <2>4, <3>1
  <2>7. m - 1 \in Nat /\ m - 1 \notin Bad
    <3>1. m - 1 \in Nat /\ ~ (m <= m - 1)
      BY <2>4, <2>6
    <3> QED
      BY <2>2, <3>1
  <2>8. \A R \in SUBSET (1 .. m - 1) : Ordered(R)
    BY <2>7
  <2> DEFINE R == S \ {m}
             c == Cardinality(R)
  <2>9. R \in SUBSET (1 .. m - 1)
    BY <2>4
  <2>10. PICK f \in [1 .. c -> R] : \A i, j \in 1 .. c : i < j => f[i] < f[j]
    BY <2>8, <2>9
  <2>11. m \in S
    <3>1. SUFFICES ASSUME m \notin S PROVE FALSE
      OBVIOUS
    <3>2. R = S
      BY <3>1
    <3> QED
      BY <2>3, <2>8, <2>9, <3>2
  <2>12. c \in Nat /\ Cardinality(S) = c + 1
    <3>1. IsFiniteSet(S) /\ Cardinality(S) \in Nat /\ c \in Nat
      BY <1>1, <2>4, <2>7, <2>9
    <3>2. c = Cardinality(S) - 1
      BY <2>11, <3>1, FS_RemoveElement
    <3> QED
      BY <3>1, <3>2
  <2> DEFINE g == [i \in 1 .. c + 1 |-> IF i = c + 1 THEN m ELSE f[i]]
  <2>13. \A i \in 1 .. c + 1 : i # c + 1 => i \in 1 .. c
    BY <2>12
  <2>14. g \in [1 .. Cardinality(S) -> S]
    <3>1. \A i \in 1 .. c + 1 : g[i] \in S
      BY <2>10, <2>11, <2>13
    <3> QED
      BY <2>12, <3>1
  <2> HIDE DEF c
  <2>15. \A i, j \in 1 .. Cardinality(S) : i < j => g[i] < g[j]
    <3>1. SUFFICES ASSUME NEW i \in 1 .. c + 1, NEW j \in 1 .. c + 1, i < j
                   PROVE  g[i] < g[j]
      BY <2>12
    <3>2. i \in 1 .. c /\ g[i] = f[i] /\ f[i] \in R
      BY <2>10, <2>12, <3>1
    <3>3. f[i] \in Nat /\ f[i] < m
      <4>1. f[i] \in 1 .. m - 1
        BY <2>9, <3>2
      <4> QED
        BY <2>4, <4>1
    <3>4. CASE j = c + 1
      BY <3>2, <3>3, <3>4
    <3>5. CASE j # c + 1
      BY <2>10, <2>13, <3>1, <3>2, <3>5
    <3> QED
      BY <3>4, <3>5
  <2> HIDE DEF g
  <2> QED
    BY <2>3, <2>14, <2>15
<1>3. n \notin Bad
  BY <1>2
<1> QED
  BY <1>1, <1>3

(* Selecting places of a sequence gives elements of it, none of them twice. *)
LEMMA SelectedIsPart ==
  ASSUME NEW S, NEW p \in Seq(S), NEW T \in SUBSET DOMAIN p
  PROVE  /\ Selected(p, T) \in Seq(S)
         /\ \E f \in [1 .. Len(Selected(p, T)) -> 1 .. Len(p)] :
              /\ \A i, j \in 1 .. Len(Selected(p, T)) : f[i] = f[j] => i = j
              /\ \A i \in 1 .. Len(Selected(p, T)) : Selected(p, T)[i] = p[f[i]]
<1>1. DOMAIN p = 1 .. Len(p) /\ Len(p) \in Nat /\ \A i \in 1 .. Len(p) : p[i] \in S
  BY LenProperties, ElementOfSeq
<1> DEFINE n == Cardinality(T)
           f == CHOOSE g \in [1 .. n -> T] : \A i, j \in 1 .. n : i < j => g[i] < g[j]
<1>2. n \in Nat /\ \E g \in [1 .. n -> T] : \A i, j \in 1 .. n : i < j => g[i] < g[j]
  BY <1>1, PlacesInOrder
<1>3. Selected(p, T) = [i \in 1 .. n |-> p[f[i]]]
  BY DEF Selected
<1> HIDE DEF n
<1>4. f \in [1 .. n -> T] /\ \A i, j \in 1 .. n : i < j => f[i] < f[j]
  BY <1>2
<1> HIDE DEF f
<1>5. f \in [1 .. n -> 1 .. Len(p)]
  BY <1>1, <1>4
<1>6. Selected(p, T) \in Seq(S) /\ Len(Selected(p, T)) = n
  BY <1>1, <1>2, <1>3, <1>5
<1>7. \A i, j \in 1 .. n : f[i] = f[j] => i = j
  <2>1. SUFFICES ASSUME NEW i \in 1 .. n, NEW j \in 1 .. n, i # j PROVE f[i] # f[j]
    OBVIOUS
  <2>2. f[i] \in Nat /\ f[j] \in Nat
    BY <1>1, <1>5
  <2>3. i < j \/ j < i
    BY <1>2, <2>1
  <2> QED
    BY <1>4, <2>2, <2>3
<1> QED
  BY <1>3, <1>5, <1>6, <1>7

(* The highest number that the server received is a number.                 *)
LEMMA HighestIsNat ==
  ASSUME NEW n \in Nat, NEW p \in Seq([seq : 1 .. n - 1, call : Call])
  PROVE  Highest(p) \in Nat
<1> DEFINE T == {0} \cup {p[i].seq : i \in DOMAIN p}
<1>1. \A i \in DOMAIN p : p[i].seq \in 1 .. n - 1
  <2>1. \A i \in DOMAIN p : p[i] \in [seq : 1 .. n - 1, call : Call]
    BY LenProperties, ElementOfSeq
  <2> QED
    BY <2>1
<1>2. T \in SUBSET Nat /\ T # {} /\ \A k \in T : k <= n
  BY <1>1
<1>3. Highest(p) = Max(T)
  BY DEF Highest
<1> HIDE DEF T
<1>4. \E m \in T : \A k \in T : k <= m
  BY <1>2, Greatest
<1>5. \E m \in T : \A k \in T : m >= k
  BY <1>2, <1>4
<1>6. Max(T) \in T
  BY <1>5 DEF Max
<1> QED
  BY <1>2, <1>3, <1>6

-----------------------------------------------------------------------------
(* Types.                                                                   *)
PacketBelow(n) == [seq : 1 .. n - 1, call : Call]
EventBelow(n) ==
       [type : {"publishPacket"}, call : Call]
  \cup [type : {"publishData"}, packet : PacketBelow(n), reply : BOOLEAN]
  \cup [type : {"bufferedAmountChange"}, sent : Nat]
  \cup [type : {"retryFrom"}, last : Nat]

(* The parts of the type invariant that are sequences, for the next number  *)
(* and for any number at all.                                               *)
LEMMA TypesAre ==
  ASSUME ChannelTypeOK
  PROVE  /\ nextSeq \in Nat \ {0} /\ nextSeq \in Nat /\ amount \in Nat /\ drops \in Nat
         /\ running \in BOOLEAN /\ open \in BOOLEAN /\ alive \in BOOLEAN
         /\ threshold \in Nat /\ threshold \in Thresholds
         /\ call \in [Call -> {"idle", "waiting", "ok", "err"}]
         /\ dcEvents \in Seq(EventBelow(nextSeq)) /\ dcEvents \in Seq(AnyEvent)
         /\ queue \in Seq(RequestOf(PacketBelow(nextSeq))) /\ queue \in Seq(AnyRequest)
         /\ retry \in Seq(PacketBelow(nextSeq)) /\ retry \in Seq(AnyPacket)
         /\ buffer \in Seq(PacketBelow(nextSeq)) /\ buffer \in Seq(AnyPacket)
         /\ wire \in Seq(PacketBelow(nextSeq)) /\ wire \in Seq(AnyPacket)
         /\ received \in Seq(PacketBelow(nextSeq)) /\ received \in Seq(AnyPacket)
         /\ drained \in Seq(Nat)
<1>1. Packet = PacketBelow(nextSeq) /\ DataChannelEvent = EventBelow(nextSeq)
      /\ [packet : Packet, reply : BOOLEAN] = RequestOf(PacketBelow(nextSeq))
  BY DEF Packet, PacketBelow, DataChannelEvent, EventBelow, RequestOf
<1>2. /\ nextSeq \in Nat \ {0} /\ nextSeq \in Nat /\ amount \in Nat /\ drops \in Nat
      /\ running \in BOOLEAN /\ open \in BOOLEAN /\ alive \in BOOLEAN
      /\ threshold \in Nat /\ threshold \in Thresholds
      /\ call \in [Call -> {"idle", "waiting", "ok", "err"}]
      /\ drained \in Seq(Nat)
  BY ChannelAssumption DEF ChannelTypeOK
<1>3. /\ dcEvents \in Seq(EventBelow(nextSeq))
      /\ queue \in Seq(RequestOf(PacketBelow(nextSeq)))
      /\ retry \in Seq(PacketBelow(nextSeq))
      /\ buffer \in Seq(PacketBelow(nextSeq))
      /\ wire \in Seq(PacketBelow(nextSeq))
      /\ received \in Seq(PacketBelow(nextSeq))
  BY <1>1 DEF ChannelTypeOK
<1>4. PacketBelow(nextSeq) \subseteq AnyPacket
  BY <1>2 DEF PacketBelow, AnyPacket
<1>5. /\ EventBelow(nextSeq) \subseteq AnyEvent
      /\ RequestOf(PacketBelow(nextSeq)) \subseteq AnyRequest
  BY <1>4 DEF EventBelow, AnyEvent, RequestOf, AnyRequest
<1>6. dcEvents \in Seq(AnyEvent) /\ queue \in Seq(AnyRequest)
  BY <1>3, <1>5, SeqMonotonic
<1>7. /\ retry \in Seq(AnyPacket) /\ buffer \in Seq(AnyPacket)
      /\ wire \in Seq(AnyPacket) /\ received \in Seq(AnyPacket)
  BY <1>3, <1>4, SeqMonotonic
<1> QED
  BY <1>2, <1>3, <1>6, <1>7

(* The other way round, for the next state.                                 *)
LEMMA TypesSuffice ==
  ASSUME /\ nextSeq' \in Nat \ {0} /\ amount' \in Nat /\ drops' \in Nat
         /\ running' \in BOOLEAN /\ open' \in BOOLEAN /\ alive' \in BOOLEAN
         /\ threshold' \in Thresholds
         /\ call' \in [Call -> {"idle", "waiting", "ok", "err"}]
         /\ dcEvents' \in Seq(EventBelow(nextSeq'))
         /\ queue' \in Seq(RequestOf(PacketBelow(nextSeq')))
         /\ retry' \in Seq(PacketBelow(nextSeq'))
         /\ buffer' \in Seq(PacketBelow(nextSeq'))
         /\ wire' \in Seq(PacketBelow(nextSeq'))
         /\ received' \in Seq(PacketBelow(nextSeq'))
         /\ drained' \in Seq(Nat)
         /\ link' \in {"up", "lost", "locking", "resuming"}
  PROVE  ChannelTypeOK'
<1>1. Packet' = PacketBelow(nextSeq') /\ DataChannelEvent' = EventBelow(nextSeq')
      /\ [packet : Packet', reply : BOOLEAN] = RequestOf(PacketBelow(nextSeq'))
  BY DEF Packet, PacketBelow, DataChannelEvent, EventBelow, RequestOf
<1> QED
  BY <1>1 DEF ChannelTypeOK

(* _send_until_threshold: what it takes of the requests that it is given,   *)
(* when what it sends, or some end of it, stays in the retry queue.         *)
Sends(requests, buffered, k, d) ==
  LET sent == SubSeq(requests, 1, k)
  IN  /\ k \in 0 .. Len(requests)
      /\ k # 0 => buffered + Bytes(SubSeq(Packets(requests), 1, k - 1)) <= threshold
      /\ queue' = From(requests, k + 1)
      /\ amount' = buffered + Bytes(Packets(sent))
      /\ buffer' = IF open THEN buffer \o Packets(sent) ELSE buffer
      /\ call' = [c \in Call |-> IF c \in Answered(sent)
                                 THEN IF open THEN "ok" ELSE "err"
                                 ELSE call[c]]
      /\ d \in 0 .. Len(retry \o Packets(sent))
      /\ retry' = From(retry \o Packets(sent), d + 1)
      /\ dcEvents' = Tail(dcEvents)
      /\ handlerUnchanged

(* What is sent, what stays in the queue and what may be retried.           *)
LEMMA SendsParts ==
  ASSUME ChannelTypeOK, NEW requests \in Seq(RequestOf(PacketBelow(nextSeq))),
         NEW k \in 0 .. Len(requests)
  PROVE  /\ SubSeq(requests, 1, k) \in Seq(RequestOf(PacketBelow(nextSeq)))
         /\ Len(SubSeq(requests, 1, k)) = k
         /\ \A i \in 1 .. k : SubSeq(requests, 1, k)[i] = requests[i]
         /\ From(requests, k + 1) \in Seq(RequestOf(PacketBelow(nextSeq)))
         /\ Len(From(requests, k + 1)) = Len(requests) - k
         /\ \A i \in 1 .. Len(requests) - k : From(requests, k + 1)[i] = requests[i + k]
         /\ Packets(SubSeq(requests, 1, k)) \in Seq(PacketBelow(nextSeq))
         /\ Packets(SubSeq(requests, 1, k)) \in Seq(AnyPacket)
         /\ Len(Packets(SubSeq(requests, 1, k))) = k
         /\ \A i \in 1 .. k : Packets(SubSeq(requests, 1, k))[i] = requests[i].packet
         /\ retry \o Packets(SubSeq(requests, 1, k)) \in Seq(PacketBelow(nextSeq))
         /\ retry \o Packets(SubSeq(requests, 1, k)) \in Seq(AnyPacket)
<1> DEFINE sent == SubSeq(requests, 1, k)
<1>1. /\ sent \in Seq(RequestOf(PacketBelow(nextSeq))) /\ Len(sent) = k
      /\ \A i \in 1 .. k : sent[i] = requests[i]
      /\ From(requests, k + 1) \in Seq(RequestOf(PacketBelow(nextSeq)))
      /\ Len(From(requests, k + 1)) = Len(requests) - k
      /\ \A i \in 1 .. Len(requests) - k : From(requests, k + 1)[i] = requests[i + k]
  BY Cut
<1> HIDE DEF sent
<1>2. /\ Packets(sent) \in Seq(PacketBelow(nextSeq)) /\ Len(Packets(sent)) = k
      /\ \A i \in 1 .. k : Packets(sent)[i] = sent[i].packet
  BY <1>1, PacketsAre
<1>3. retry \o Packets(sent) \in Seq(PacketBelow(nextSeq))
  BY <1>2, TypesAre, ConcatProperties
<1>4. PacketBelow(nextSeq) \subseteq AnyPacket
  BY TypesAre DEF PacketBelow, AnyPacket
<1>5. Packets(sent) \in Seq(AnyPacket) /\ retry \o Packets(sent) \in Seq(AnyPacket)
  BY <1>2, <1>3, <1>4, SeqMonotonic
<1> QED
  BY <1>1, <1>2, <1>3, <1>5 DEF sent

(* The request of the event at the head.                                    *)
LEMMA RequestQueued ==
  ASSUME ChannelTypeOK, Handles("publishData")
  PROVE  /\ Request \in RequestOf(PacketBelow(nextSeq))
         /\ Append(queue, Request) \in Seq(RequestOf(PacketBelow(nextSeq)))
         /\ Len(Append(queue, Request)) = Len(queue) + 1 /\ Len(queue) \in Nat
         /\ \A i \in 1 .. Len(queue) : Append(queue, Request)[i] = queue[i]
         /\ Append(queue, Request)[Len(queue) + 1] = Request
<1>1. Head(dcEvents) \in EventBelow(nextSeq) /\ Head(dcEvents).type = "publishData"
  BY TypesAre, CutHead DEF Handles
<1>2. Request \in RequestOf(PacketBelow(nextSeq))
  BY <1>1 DEF EventBelow, Request, RequestOf
<1> QED
  BY <1>2, TypesAre, AppendProperties, LenProperties

(* PublishData sends from the queue with the request put behind it.         *)
LEMMA PublishDataSends ==
  ASSUME ChannelTypeOK, HandlePublishData
  PROVE  \E k \in Nat : Sends(Append(queue, Request), amount, k, 0)
<1> DEFINE requests == Append(queue, Request)
<1>1. /\ requests \in Seq(RequestOf(PacketBelow(nextSeq))) /\ requests \in Seq(AnyRequest)
      /\ amount \in Nat /\ threshold \in Nat
  <2>1. requests \in Seq(RequestOf(PacketBelow(nextSeq)))
    BY RequestQueued DEF HandlePublishData
  <2>2. RequestOf(PacketBelow(nextSeq)) \subseteq AnyRequest
    BY TypesAre DEF PacketBelow, AnyPacket, RequestOf, AnyRequest
  <2> QED
    BY <2>1, <2>2, TypesAre, SeqMonotonic
<1>2. /\ SendUntilThreshold(requests, amount) /\ dcEvents' = Tail(dcEvents) /\ handlerUnchanged
      /\ retry' = retry \o Packets(SentNow(requests, amount))
  BY DEF HandlePublishData
<1> HIDE DEF requests
<1>3. PICK k \in 0 .. Len(requests) :
        /\ SentNow(requests, amount) = SubSeq(requests, 1, k)
        /\ k # 0 => amount + Bytes(SubSeq(Packets(requests), 1, k - 1)) <= threshold
  BY <1>1, SentNowIsFront
<1> DEFINE sent == SubSeq(requests, 1, k)
<1>4. Len(sent) = k /\ retry \o Packets(sent) \in Seq(AnyPacket)
  BY <1>1, SendsParts
<1> HIDE DEF sent
<1>5. From(retry \o Packets(sent), 0 + 1) = retry \o Packets(sent)
      /\ 0 \in 0 .. Len(retry \o Packets(sent))
  BY <1>4, SubSeqFull, LenProperties DEF From
<1>6. SentNow(requests, amount) = sent
  BY <1>3 DEF sent
<1>7. /\ amount' = amount + Bytes(Packets(sent))
      /\ queue' = From(requests, k + 1)
      /\ buffer' = IF open THEN buffer \o Packets(sent) ELSE buffer
      /\ call' = [c \in Call |-> IF c \in Answered(sent)
                                 THEN IF open THEN "ok" ELSE "err"
                                 ELSE call[c]]
  BY <1>2, <1>4, <1>6 DEF SendUntilThreshold
<1>8. retry' = From(retry \o Packets(sent), 0 + 1)
  BY <1>2, <1>5, <1>6
<1>9. Sends(requests, amount, k, 0)
  BY <1>2, <1>3, <1>5, <1>7, <1>8 DEF Sends, sent
<1> QED
  BY <1>3, <1>9 DEF requests

Left(sent) == IF amount < sent THEN 0 ELSE amount - sent

(* BufferedAmountChange sends from the queue, and trims.                    *)
LEMMA ChangeSends ==
  ASSUME ChannelTypeOK, HandleBufferedAmountChange
  PROVE  /\ Head(dcEvents).sent \in Nat /\ Left(Head(dcEvents).sent) \in Nat
         /\ \E k, d \in Nat : Sends(queue, Left(Head(dcEvents).sent), k, d)
<1> DEFINE n == Head(dcEvents).sent
           left == Left(n)
<1>1. n \in Nat
  <2>1. Head(dcEvents) \in EventBelow(nextSeq) /\ Head(dcEvents).type = "bufferedAmountChange"
    BY TypesAre, CutHead DEF HandleBufferedAmountChange, Handles
  <2> QED
    BY <2>1 DEF EventBelow
<1>2. left \in Nat /\ threshold \in Nat /\ queue \in Seq(AnyRequest)
      /\ queue \in Seq(RequestOf(PacketBelow(nextSeq)))
  BY <1>1, TypesAre DEF Left
<1>3. /\ SendUntilThreshold(queue, left) /\ dcEvents' = Tail(dcEvents) /\ handlerUnchanged
      /\ retry' = Trim(retry \o Packets(SentNow(queue, left)), n)
  BY DEF HandleBufferedAmountChange, Left
<1> HIDE DEF n, left
<1>4. PICK k \in 0 .. Len(queue) :
        /\ SentNow(queue, left) = SubSeq(queue, 1, k)
        /\ k # 0 => left + Bytes(SubSeq(Packets(queue), 1, k - 1)) <= threshold
  BY <1>2, SentNowIsFront
<1> DEFINE sent == SubSeq(queue, 1, k)
<1>5. Len(sent) = k /\ retry \o Packets(sent) \in Seq(AnyPacket)
  BY <1>2, SendsParts
<1> HIDE DEF sent
<1>6. PICK d \in 0 .. Len(retry \o Packets(sent)) :
        Trim(retry \o Packets(sent), n) = From(retry \o Packets(sent), d + 1)
  BY <1>1, <1>5, TrimIsEnd
<1>7. SentNow(queue, left) = sent
  BY <1>4 DEF sent
<1>8. /\ amount' = left + Bytes(Packets(sent))
      /\ queue' = From(queue, k + 1)
      /\ buffer' = IF open THEN buffer \o Packets(sent) ELSE buffer
      /\ call' = [c \in Call |-> IF c \in Answered(sent)
                                 THEN IF open THEN "ok" ELSE "err"
                                 ELSE call[c]]
  BY <1>3, <1>5, <1>7 DEF SendUntilThreshold
<1>9. retry' = From(retry \o Packets(sent), d + 1)
  BY <1>3, <1>6, <1>7
<1>10. Sends(queue, left, k, d)
  BY <1>3, <1>4, <1>6, <1>8, <1>9 DEF Sends, sent
<1>11. k \in Nat /\ d \in Nat
  BY <1>4, <1>6
<1> QED
  BY <1>1, <1>2, <1>10, <1>11 DEF n, left

(* The events that bring the packets of a retry queue back.                 *)
Retried(packets) ==
  [i \in DOMAIN packets |->
    [type |-> "publishData", reply |-> FALSE, packet |-> packets[i]]]

(* They are events, one for each packet, that nobody waits for.             *)
LEMMA RetriedAre ==
  ASSUME NEW n \in Nat, NEW p \in Seq(PacketBelow(n))
  PROVE  /\ Retried(p) \in Seq(EventBelow(n)) /\ Len(Retried(p)) = Len(p) /\ Len(p) \in Nat
         /\ \A i \in 1 .. Len(p) : /\ Retried(p)[i].type = "publishData"
                                  /\ Retried(p)[i].reply = FALSE
                                  /\ Retried(p)[i].packet = p[i]
<1>1. DOMAIN p = 1 .. Len(p) /\ Len(p) \in Nat /\ \A i \in 1 .. Len(p) : p[i] \in PacketBelow(n)
  BY LenProperties, ElementOfSeq
<1>2. \A i \in 1 .. Len(p) :
        [type |-> "publishData", reply |-> FALSE, packet |-> p[i]] \in EventBelow(n)
  BY <1>1 DEF EventBelow
<1> QED
  BY <1>1, <1>2 DEF Retried

(* HandleRetryFrom: packets of the retry queue, none of them twice, are put *)
(* behind the events.                                                       *)
LEMMA RetryFromPuts ==
  ASSUME ChannelTypeOK, HandleRetryFrom
  PROVE  \E m \in Seq(PacketBelow(nextSeq)) :
           /\ dcEvents' = Tail(dcEvents) \o Retried(m)
           /\ \E f \in [1 .. Len(m) -> 1 .. Len(retry)] :
                /\ \A i, j \in 1 .. Len(m) : f[i] = f[j] => i = j
                /\ \A i \in 1 .. Len(m) : m[i] = retry[f[i]]
<1> DEFINE m == Unreceived(retry, Head(dcEvents).last)
           T == {i \in DOMAIN retry : retry[i].seq > Head(dcEvents).last}
<1>1. m = Selected(retry, T) /\ T \in SUBSET DOMAIN retry
  BY DEF Unreceived
<1>2. retry \in Seq(PacketBelow(nextSeq))
  BY TypesAre
<1>3. dcEvents' = Tail(dcEvents) \o Retried(m)
  BY DEF HandleRetryFrom, Retried
<1> HIDE DEF m, T
<1>4. /\ m \in Seq(PacketBelow(nextSeq))
      /\ \E f \in [1 .. Len(m) -> 1 .. Len(retry)] :
           /\ \A i, j \in 1 .. Len(m) : f[i] = f[j] => i = j
           /\ \A i \in 1 .. Len(m) : m[i] = retry[f[i]]
  BY <1>1, <1>2, SelectedIsPart
<1> QED
  BY <1>3, <1>4

(* Drain and its parts.                                                     *)
LEMMA DrainParts ==
  ASSUME ChannelTypeOK, NEW n \in Nat, Drain(n)
  PROVE  /\ n \in 0 .. Len(buffer)
         /\ SubSeq(buffer, 1, n) \in Seq(PacketBelow(nextSeq))
         /\ SubSeq(buffer, 1, n) \in Seq(AnyPacket)
         /\ From(buffer, n + 1) \in Seq(PacketBelow(nextSeq))
         /\ From(buffer, n + 1) \in Seq(AnyPacket)
         /\ Len(SubSeq(buffer, 1, n)) = n
         /\ \A i \in 1 .. n : SubSeq(buffer, 1, n)[i] = buffer[i]
         /\ \A i \in 1 .. Len(buffer) - n : From(buffer, n + 1)[i] = buffer[i + n]
         /\ Len(From(buffer, n + 1)) = Len(buffer) - n
         /\ buffer = SubSeq(buffer, 1, n) \o From(buffer, n + 1)
         /\ Bytes(SubSeq(buffer, 1, n)) \in Nat /\ Bytes(From(buffer, n + 1)) \in Nat
         /\ Bytes(buffer) = Bytes(SubSeq(buffer, 1, n)) + Bytes(From(buffer, n + 1))
<1>1. n \in 0 .. Len(buffer)
  BY DEF Drain
<1>2. /\ buffer \in Seq(PacketBelow(nextSeq)) /\ PacketBelow(nextSeq) \subseteq AnyPacket
  BY TypesAre DEF PacketBelow, AnyPacket
<1>3. /\ SubSeq(buffer, 1, n) \in Seq(PacketBelow(nextSeq))
      /\ From(buffer, n + 1) \in Seq(PacketBelow(nextSeq))
      /\ Len(SubSeq(buffer, 1, n)) = n
      /\ \A i \in 1 .. n : SubSeq(buffer, 1, n)[i] = buffer[i]
      /\ \A i \in 1 .. Len(buffer) - n : From(buffer, n + 1)[i] = buffer[i + n]
      /\ Len(From(buffer, n + 1)) = Len(buffer) - n
      /\ buffer = SubSeq(buffer, 1, n) \o From(buffer, n + 1)
  BY <1>1, <1>2, Cut
<1>4. SubSeq(buffer, 1, n) \in Seq(AnyPacket) /\ From(buffer, n + 1) \in Seq(AnyPacket)
  BY <1>2, <1>3, SeqMonotonic
<1> DEFINE a == SubSeq(buffer, 1, n)
           b == From(buffer, n + 1)
<1> HIDE DEF a, b
<1>5. a \in Seq(AnyPacket) /\ b \in Seq(AnyPacket) /\ buffer = a \o b
  BY <1>3, <1>4 DEF a, b
<1>6. Bytes(a) \in Nat /\ Bytes(b) \in Nat /\ Bytes(a \o b) = Bytes(a) + Bytes(b)
  BY <1>5, BytesOfBoth
<1>7. Bytes(buffer) = Bytes(a) + Bytes(b)
  BY <1>5, <1>6
<1> QED
  BY <1>1, <1>3, <1>4, <1>6, <1>7 DEF a, b

(* Sending keeps the types.                                                 *)
LEMMA SendsTypes ==
  ASSUME ChannelTypeOK, NEW requests \in Seq(RequestOf(PacketBelow(nextSeq))),
         NEW buffered \in Nat, NEW k \in Nat, NEW d \in Nat,
         dcEvents # <<>>, Sends(requests, buffered, k, d)
  PROVE  ChannelTypeOK'
<1> DEFINE sent == SubSeq(requests, 1, k)
           kept == retry \o Packets(sent)
<1>1. k \in 0 .. Len(requests)
  BY DEF Sends
<1>2. /\ From(requests, k + 1) \in Seq(RequestOf(PacketBelow(nextSeq)))
      /\ Packets(sent) \in Seq(PacketBelow(nextSeq)) /\ Packets(sent) \in Seq(AnyPacket)
      /\ kept \in Seq(PacketBelow(nextSeq))
  BY <1>1, SendsParts
<1>3. /\ queue' = From(requests, k + 1)
      /\ amount' = buffered + Bytes(Packets(sent))
      /\ buffer' = IF open THEN buffer \o Packets(sent) ELSE buffer
      /\ call' = [c \in Call |-> IF c \in Answered(sent)
                                 THEN IF open THEN "ok" ELSE "err"
                                 ELSE call[c]]
      /\ d \in 0 .. Len(kept)
      /\ retry' = From(kept, d + 1)
      /\ dcEvents' = Tail(dcEvents)
      /\ UNCHANGED <<running, nextSeq, threshold, open, wire, received, drained, alive, link, drops>>
  BY DEF Sends, handlerUnchanged, conn
<1> HIDE DEF sent, kept
<1>4. amount' \in Nat
  <2>1. Bytes(Packets(sent)) \in Nat
    BY <1>2, BytesOfBoth
  <2> QED
    BY <1>3, <2>1
<1>5. retry' \in Seq(PacketBelow(nextSeq))
  BY <1>2, <1>3, Cut
<1>6. dcEvents' \in Seq(EventBelow(nextSeq))
  BY <1>3, TypesAre, CutHead
<1>7. buffer' \in Seq(PacketBelow(nextSeq))
  <2>1. buffer \in Seq(PacketBelow(nextSeq))
    BY TypesAre
  <2>2. buffer \o Packets(sent) \in Seq(PacketBelow(nextSeq))
    BY <1>2, <2>1, ConcatProperties
  <2> QED
    BY <1>3, <2>1, <2>2
<1>8. call' \in [Call -> {"idle", "waiting", "ok", "err"}]
  BY <1>3, TypesAre
<1>9. link' \in {"up", "lost", "locking", "resuming"}
  BY <1>3 DEF ChannelTypeOK
<1>10. nextSeq' = nextSeq /\ queue' \in Seq(RequestOf(PacketBelow(nextSeq)))
  BY <1>2, <1>3
<1>11. /\ nextSeq' \in Nat \ {0} /\ drops' \in Nat
       /\ running' \in BOOLEAN /\ open' \in BOOLEAN /\ alive' \in BOOLEAN
       /\ threshold' \in Thresholds
       /\ wire' \in Seq(PacketBelow(nextSeq)) /\ received' \in Seq(PacketBelow(nextSeq))
       /\ drained' \in Seq(Nat)
  BY <1>3, TypesAre
<1> QED
  BY <1>4, <1>5, <1>6, <1>7, <1>8, <1>9, <1>10, <1>11, TypesSuffice

(* A step of the channel keeps the types.                                   *)
LEMMA TypesStep ==
  ASSUME ChannelTypeOK, [ChannelNext]_channelVars
  PROVE  ChannelTypeOK'
<1> USE DEF dcTask, sctp, conn
<1> DEFINE P == PacketBelow(nextSeq)
           E == EventBelow(nextSeq)
<1> HIDE DEF P, E
<1>1. /\ nextSeq \in Nat \ {0} /\ nextSeq \in Nat /\ amount \in Nat /\ drops \in Nat
      /\ running \in BOOLEAN /\ open \in BOOLEAN /\ alive \in BOOLEAN
      /\ threshold \in Thresholds
      /\ call \in [Call -> {"idle", "waiting", "ok", "err"}]
      /\ dcEvents \in Seq(E) /\ queue \in Seq(RequestOf(P)) /\ retry \in Seq(P)
      /\ buffer \in Seq(P) /\ wire \in Seq(P) /\ received \in Seq(P)
      /\ drained \in Seq(Nat)
      /\ link \in {"up", "lost", "locking", "resuming"}
  BY TypesAre DEF P, E, ChannelTypeOK
<1>2. ASSUME nextSeq' = nextSeq
      PROVE  P = PacketBelow(nextSeq') /\ E = EventBelow(nextSeq')
  BY <1>2 DEF P, E
<1>3. ASSUME NEW c \in Call, PublishData(c)
      PROVE  ChannelTypeOK'
  <2>1. [type |-> "publishPacket", call |-> c] \in E
    BY DEF E, EventBelow
  <2>2. dcEvents' \in Seq(E) /\ nextSeq' = nextSeq
    BY <1>1, <1>3, <2>1, AppendProperties DEF PublishData
  <2>3. call' \in [Call -> {"idle", "waiting", "ok", "err"}]
    BY <1>1, <1>3 DEF PublishData
  <2> QED
    BY <1>1, <1>2, <1>3, <2>2, <2>3, TypesSuffice DEF PublishData
<1>4. ASSUME NEW t \in Thresholds, SetThreshold(t)
      PROVE  ChannelTypeOK'
  BY <1>1, <1>2, <1>4, TypesSuffice DEF SetThreshold
<1>5. CASE HandlePublishPacket
  <2>1. /\ dcEvents # <<>> /\ nextSeq' = nextSeq + 1 /\ nextSeq' \in Nat \ {0}
        /\ Head(dcEvents) \in E /\ Head(dcEvents).type = "publishPacket"
        /\ Tail(dcEvents) \in Seq(E)
    BY <1>1, <1>5, CutHead DEF HandlePublishPacket, Handles
  <2> DEFINE e == [type |-> "publishData", reply |-> TRUE,
                   packet |-> [seq |-> nextSeq, call |-> Head(dcEvents).call]]
             PP == PacketBelow(nextSeq')
             EE == EventBelow(nextSeq')
  <2>2. PacketBelow(nextSeq) \subseteq PacketBelow(nextSeq')
    BY <1>1, <2>1 DEF PacketBelow
  <2>3. P \subseteq PP /\ E \subseteq EE /\ RequestOf(P) \subseteq RequestOf(PP)
    BY <2>2 DEF P, E, EventBelow, RequestOf
  <2>4. e \in EE
    <3>1. Head(dcEvents).call \in Call
      BY <2>1 DEF E, EventBelow
    <3>2. [seq |-> nextSeq, call |-> Head(dcEvents).call] \in PP
      BY <1>1, <2>1, <3>1 DEF PacketBelow
    <3> QED
      BY <3>2 DEF EventBelow
  <2> HIDE DEF e, PP, EE
  <2>5. Tail(dcEvents) \in Seq(EE)
    BY <2>1, <2>3, SeqMonotonic
  <2>6. Append(Tail(dcEvents), e) \in Seq(EE)
    BY <2>4, <2>5, AppendProperties
  <2>7. dcEvents' \in Seq(EE)
    BY <1>5, <2>6 DEF HandlePublishPacket, e
  <2>8. queue \in Seq(RequestOf(PP)) /\ retry \in Seq(PP) /\ buffer \in Seq(PP)
        /\ wire \in Seq(PP) /\ received \in Seq(PP)
    BY <1>1, <2>3, SeqMonotonic
  <2> QED
    BY <1>1, <1>5, <2>1, <2>7, <2>8, TypesSuffice DEF HandlePublishPacket, PP, EE
<1>6. CASE HandlePublishData
  <2>1. PICK k \in Nat : Sends(Append(queue, Request), amount, k, 0)
    BY <1>6, PublishDataSends
  <2>2. dcEvents # <<>> /\ Append(queue, Request) \in Seq(RequestOf(PacketBelow(nextSeq)))
    BY <1>6, RequestQueued DEF HandlePublishData, Handles
  <2> QED
    BY <1>1, <2>1, <2>2, SendsTypes
<1>7. CASE HandleBufferedAmountChange
  <2>1. PICK k, d \in Nat : Sends(queue, Left(Head(dcEvents).sent), k, d)
    BY <1>7, ChangeSends
  <2>2. /\ dcEvents # <<>> /\ queue \in Seq(RequestOf(PacketBelow(nextSeq)))
        /\ Left(Head(dcEvents).sent) \in Nat
    BY <1>1, <1>7, ChangeSends DEF HandleBufferedAmountChange, Handles, P
  <2> QED
    BY <2>1, <2>2, SendsTypes
<1>8. CASE HandleRetryFrom
  <2>1. PICK m \in Seq(PacketBelow(nextSeq)) : dcEvents' = Tail(dcEvents) \o Retried(m)
    BY <1>8, RetryFromPuts
  <2>2. Retried(m) \in Seq(E)
    BY <1>1, RetriedAre DEF E
  <2>3. Tail(dcEvents) \in Seq(E)
    BY <1>1, <1>8, CutHead DEF HandleRetryFrom, Handles
  <2>4. dcEvents' \in Seq(E)
    BY <2>1, <2>2, <2>3, ConcatProperties
  <2>5. retry' \in Seq(P)
    BY <1>8 DEF HandleRetryFrom
  <2> QED
    BY <1>1, <1>2, <1>8, <2>4, <2>5, TypesSuffice DEF HandleRetryFrom
<1>9. CASE CloseSession
  <2>1. call' \in [Call -> {"idle", "waiting", "ok", "err"}]
    BY <1>1, <1>9 DEF CloseSession
  <2>2. dcEvents' \in Seq(E) /\ queue' \in Seq(RequestOf(P)) /\ retry' \in Seq(P)
    BY <1>9 DEF CloseSession
  <2> QED
    BY <1>1, <1>2, <1>9, <2>1, <2>2, TypesSuffice DEF CloseSession
<1>10. CASE Deliver
  <2>1. Head(wire) \in P /\ Tail(wire) \in Seq(P)
    BY <1>1, <1>10, CutHead DEF Deliver
  <2>2. received' \in Seq(P) /\ wire' \in Seq(P)
    BY <1>1, <1>10, <2>1, AppendProperties DEF Deliver
  <2> QED
    BY <1>1, <1>2, <1>10, <2>2, TypesSuffice DEF Deliver
<1>11. ASSUME NEW n \in 1 .. Cardinality(Call), Drain(n)
       PROVE  ChannelTypeOK'
  <2>1. n \in Nat
    BY <1>1, <1>11, LenProperties DEF Drain
  <2>2. /\ SubSeq(buffer, 1, n) \in Seq(P) /\ From(buffer, n + 1) \in Seq(P)
        /\ Bytes(SubSeq(buffer, 1, n)) \in Nat
    BY <1>11, <2>1, DrainParts DEF P
  <2>3. buffer' \in Seq(P) /\ wire' \in Seq(P)
    BY <1>1, <1>11, <2>2, ConcatProperties DEF Drain
  <2>4. drained' \in Seq(Nat)
    BY <1>1, <1>11, <2>2, AppendProperties DEF Drain
  <2> QED
    BY <1>1, <1>2, <1>11, <2>3, <2>4, TypesSuffice DEF Drain
<1>12. CASE ForwardDrained
  <2>1. Head(drained) \in Nat /\ Tail(drained) \in Seq(Nat)
    BY <1>1, <1>12, CutHead DEF ForwardDrained
  <2>2. [type |-> "bufferedAmountChange", sent |-> Head(drained)] \in E
    BY <2>1 DEF E, EventBelow
  <2>3. dcEvents' \in Seq(E)
    BY <1>1, <1>12, <2>2, AppendProperties DEF ForwardDrained
  <2> QED
    BY <1>1, <1>2, <1>12, <2>1, <2>3, TypesSuffice DEF ForwardDrained
<1>13. CASE ChannelCloses
  <2>1. buffer' \in Seq(P)
    BY <1>13 DEF ChannelCloses
  <2> QED
    BY <1>1, <1>2, <1>13, <2>1, TypesSuffice DEF ChannelCloses
<1>14. CASE SignalLost
  BY <1>1, <1>2, <1>14, TypesSuffice DEF SignalLost
<1>15. ASSUME NEW inFlight \in BOOLEAN, TransportLost(inFlight)
       PROVE  ChannelTypeOK'
  <2>1. wire' \in Seq(P)
    BY <1>1, <1>15 DEF TransportLost
  <2>2. /\ alive' = FALSE /\ drops' = drops + 1 /\ link' = "lost"
        /\ UNCHANGED <<call, dcEvents, running, threshold, dcTask, open, buffer, received, drained>>
    BY <1>15 DEF TransportLost
  <2>3. P = PacketBelow(nextSeq') /\ E = EventBelow(nextSeq')
    BY <1>2, <2>2
  <2>4. /\ nextSeq' \in Nat \ {0} /\ amount' \in Nat /\ drops' \in Nat
        /\ running' \in BOOLEAN /\ open' \in BOOLEAN /\ alive' \in BOOLEAN
        /\ threshold' \in Thresholds
        /\ call' \in [Call -> {"idle", "waiting", "ok", "err"}]
        /\ link' \in {"up", "lost", "locking", "resuming"}
    <3>1. drops' \in Nat
      BY <1>1, <2>2
    <3>2. alive' \in BOOLEAN /\ link' \in {"up", "lost", "locking", "resuming"}
      BY <2>2
    <3> QED
      BY <1>1, <2>2, <3>1, <3>2
  <2>5. /\ dcEvents' \in Seq(E) /\ queue' \in Seq(RequestOf(P)) /\ retry' \in Seq(P)
        /\ buffer' \in Seq(P) /\ received' \in Seq(P) /\ drained' \in Seq(Nat)
    BY <1>1, <2>2
  <2> QED
    BY <2>1, <2>3, <2>4, <2>5, TypesSuffice
<1>16. CASE ReconnectionNeeded
  BY <1>1, <1>2, <1>16, TypesSuffice DEF ReconnectionNeeded
<1>17. CASE Restart
  <2>1. Highest(received) \in Nat
    BY TypesAre, HighestIsNat DEF PacketBelow
  <2>2. [type |-> "retryFrom", last |-> Highest(received)] \in E
    BY <2>1 DEF E, EventBelow
  <2>3. dcEvents' \in Seq(E)
    BY <1>1, <1>17, <2>2, AppendProperties DEF Restart
  <2> QED
    BY <1>1, <1>2, <1>17, <2>3, TypesSuffice DEF Restart
<1>18. CASE Resumed
  BY <1>1, <1>2, <1>18, TypesSuffice DEF Resumed
<1>19. CASE UNCHANGED channelVars
  BY <1>1, <1>2, <1>19, TypesSuffice DEF channelVars
<1> QED
  BY <1>3, <1>4, <1>5, <1>6, <1>7, <1>8, <1>9, <1>10, <1>11, <1>12, <1>13, <1>14, <1>15,
     <1>16, <1>17, <1>18, <1>19
     DEF ChannelNext, DataChannelTask, Transport, Reconnection

(* The types at the start.                                                  *)
LEMMA InitTypes == ChannelInit => ChannelTypeOK
<1> SUFFICES ASSUME ChannelInit PROVE ChannelTypeOK
  OBVIOUS
<1>0. call = [c \in Call |-> "idle"]
  BY DEF ChannelInit
<1>1. /\ nextSeq \in Nat \ {0} /\ amount \in Nat /\ drops \in Nat
      /\ running \in BOOLEAN /\ open \in BOOLEAN /\ alive \in BOOLEAN
      /\ threshold \in Thresholds /\ link \in {"up", "lost", "locking", "resuming"}
      /\ call \in [Call -> {"idle", "waiting", "ok", "err"}]
  BY <1>0 DEF ChannelInit
<1>2. /\ dcEvents \in Seq(DataChannelEvent)
      /\ queue \in Seq([packet : Packet, reply : BOOLEAN])
      /\ retry \in Seq(Packet) /\ buffer \in Seq(Packet)
      /\ wire \in Seq(Packet) /\ received \in Seq(Packet)
      /\ drained \in Seq(Nat)
  BY DEF ChannelInit
<1> QED
  BY <1>1, <1>2 DEF ChannelTypeOK

(* ChannelTypeOK holds throughout.                                          *)
THEOREM ChannelTypes == ChannelSpec => []ChannelTypeOK
BY InitTypes, TypesStep, PTL DEF ChannelSpec

-----------------------------------------------------------------------------
(* The inductive invariant.                                                 *)

IsData(e) == e.type = "publishData"
IsCallOf(e, c) == e.type = "publishPacket" /\ e.call = c

(* What the task holds, in the channel of events, the queue and the retry   *)
(* queue, is in one place of one of them.                                   *)
Apart(events, requests, retries) ==
  /\ \A i, j \in DOMAIN events :
       IsData(events[i]) /\ IsData(events[j]) /\ events[i].packet = events[j].packet => i = j
  /\ \A i, j \in DOMAIN requests : requests[i].packet = requests[j].packet => i = j
  /\ \A i, j \in DOMAIN retries : retries[i] = retries[j] => i = j
  /\ \A i \in DOMAIN events, j \in DOMAIN requests :
       IsData(events[i]) => events[i].packet # requests[j].packet
  /\ \A i \in DOMAIN events, j \in DOMAIN retries :
       IsData(events[i]) => events[i].packet # retries[j]
  /\ \A i \in DOMAIN requests, j \in DOMAIN retries : requests[i].packet # retries[j]

(* The packets of the channel of events, the queue and the retry queue.     *)
DataIn(events) == {events[i].packet : i \in {j \in DOMAIN events : IsData(events[j])}}
HeldIn(events, requests, retries) ==
  DataIn(events) \cup Range(Packets(requests)) \cup Range(retries)

(* A call that was not numbered yet has no packet, and is asked once.       *)
Unnumbered(events, all, calls) ==
  \A i \in DOMAIN events : events[i].type = "publishPacket" =>
    /\ calls[events[i].call] # "idle"
    /\ \A p \in all : p.call # events[i].call
    /\ \A j \in DOMAIN events : IsCallOf(events[j], events[i].call) => i = j
UnnumberedAreNew == Unnumbered(dcEvents, Everywhere, call)
NumberedWereCalled == \A p \in Everywhere : call[p.call] # "idle"

(* The calls that wait are those that a request is pending for.             *)
Wants(request, c) == request.reply /\ request.packet.call = c
AskedBy(event, c) == IsCallOf(event, c) \/ (IsData(event) /\ Wants(event, c))
Asks(events, requests, c) ==
  \/ \E i \in DOMAIN events : AskedBy(events[i], c)
  \/ \E i \in DOMAIN requests : Wants(requests[i], c)
WaitersAsk == \A c \in Call : call[c] = "waiting" <=> Asks(dcEvents, queue, c)

StoppedIsEmpty == ~running => dcEvents = <<>> /\ queue = <<>> /\ retry = <<>>
ClosedIsEmpty == ~open => buffer = <<>>

(* Until a loss: the packets on their way, from the server back to the      *)
(* queue, have the numbers from 1 on; those that are not queued yet follow  *)
(* in their order, and none of them is missing.                             *)
Line == received \o wire \o buffer \o Packets(queue)
InLine(line, events) ==
  /\ \A i \in DOMAIN line : line[i].seq = i
  /\ \A i \in DOMAIN events : events[i].type # "retryFrom"
  /\ \A i \in DOMAIN events : IsData(events[i]) => events[i].packet.seq > Len(line)
  /\ \A i, j \in DOMAIN events : i < j /\ IsData(events[i]) /\ IsData(events[j]) =>
       events[i].packet.seq < events[j].packet.seq
AllInLine(line, events, next) ==
  /\ Len(line) < next
  /\ \A n \in Len(line) + 1 .. next - 1 : \E i \in DOMAIN events :
       IsData(events[i]) /\ events[i].packet.seq = n
BeforeLoss ==
  drops = 0 =>
    /\ link = "up" /\ alive /\ open
    /\ InLine(Line, dcEvents)
    /\ running => AllInLine(Line, dcEvents, nextSeq)

Numbering == OneNumberPerPacket /\ UnnumberedAreNew /\ NumberedWereCalled
HeldApart == Apart(dcEvents, queue, retry)
Buffering == AmountIsExact /\ BufferIsBounded /\ ClosedIsEmpty
ChannelInv ==
  /\ ChannelTypeOK
  /\ Numbering /\ HeldApart /\ WaitersAsk /\ StoppedIsEmpty
  /\ Buffering /\ BeforeLoss


-----------------------------------------------------------------------------
(* What a sequence has after something was put in, or taken out.            *)

(* The elements of a sequence and of its parts.                             *)
LEMMA RangeIs ==
  ASSUME NEW S, NEW s \in Seq(S)
  PROVE  \A e : e \in Range(s) <=> \E i \in 1 .. Len(s) : e = s[i]
BY LenProperties DEF Range

(* A part of a sequence has no other elements.                              *)
LEMMA RangeOfParts ==
  ASSUME NEW S, NEW s \in Seq(S), NEW k \in 0 .. Len(s)
  PROVE  /\ Range(SubSeq(s, 1, k)) \subseteq Range(s)
         /\ Range(From(s, k + 1)) \subseteq Range(s)
<1>1. /\ SubSeq(s, 1, k) \in Seq(S) /\ From(s, k + 1) \in Seq(S)
      /\ s = SubSeq(s, 1, k) \o From(s, k + 1)
  BY Cut
<1>2. Range(SubSeq(s, 1, k) \o From(s, k + 1)) = Range(SubSeq(s, 1, k)) \cup Range(From(s, k + 1))
  BY <1>1, RangeConcatenation
<1> QED
  BY <1>1, <1>2

(* The head is an element, and those of the tail are.                       *)
LEMMA RangeOfTail ==
  ASSUME NEW S, NEW s \in Seq(S), s # <<>>
  PROVE  Head(s) \in Range(s) /\ Range(Tail(s)) \subseteq Range(s)
<1>1. /\ Head(s) = s[1] /\ 1 \in 1 .. Len(s)
      /\ Tail(s) \in Seq(S) /\ Len(Tail(s)) = Len(s) - 1
      /\ \A i \in 1 .. Len(s) - 1 : Tail(s)[i] = s[i + 1] /\ i + 1 \in 1 .. Len(s)
  BY CutHead
<1>2. Head(s) \in Range(s)
  BY <1>1, RangeIs
<1>3. ASSUME NEW e \in Range(Tail(s)) PROVE e \in Range(s)
  <2>1. PICK i \in 1 .. Len(s) - 1 : e = Tail(s)[i]
    <3> DEFINE t == Tail(s)
    <3>1. t \in Seq(S) /\ Len(t) = Len(s) - 1 /\ e \in Range(t)
      BY <1>1, <1>3
    <3> HIDE DEF t
    <3>2. \E i \in 1 .. Len(t) : e = t[i]
      BY <3>1, RangeIs
    <3> QED
      BY <3>1, <3>2 DEF t
  <2>2. i + 1 \in 1 .. Len(s) /\ e = s[i + 1]
    BY <1>1, <2>1
  <2> QED
    BY <2>2, RangeIs
<1> QED
  BY <1>2, <1>3

(* Appending adds one element.                                              *)
LEMMA RangeOfAppend ==
  ASSUME NEW S, NEW s \in Seq(S), NEW e \in S
  PROVE  Range(Append(s, e)) = Range(s) \cup {e}
<1>1. /\ Append(s, e) \in Seq(S) /\ Len(Append(s, e)) = Len(s) + 1
      /\ \A i \in 1 .. Len(s) : Append(s, e)[i] = s[i]
      /\ Append(s, e)[Len(s) + 1] = e
      /\ Len(s) \in Nat
  BY AppendProperties, LenProperties
<1>2. \A i \in 1 .. Len(s) + 1 : i \in 1 .. Len(s) \/ i = Len(s) + 1
  BY <1>1
<1>3. Len(s) + 1 \in 1 .. Len(s) + 1 /\ \A i \in 1 .. Len(s) : i \in 1 .. Len(s) + 1
  BY <1>1
<1>4. \A x : x \in Range(Append(s, e)) <=> \E i \in 1 .. Len(s) + 1 : x = Append(s, e)[i]
  <2> DEFINE t == Append(s, e)
  <2>1. t \in Seq(S) /\ Len(t) = Len(s) + 1
    BY <1>1
  <2> HIDE DEF t
  <2>2. \A x : x \in Range(t) <=> \E i \in 1 .. Len(t) : x = t[i]
    BY <2>1, RangeIs
  <2> QED
    BY <2>1, <2>2 DEF t
<1>5. \A x : x \in Range(s) <=> \E i \in 1 .. Len(s) : x = s[i]
  BY RangeIs
<1> QED
  BY <1>1, <1>2, <1>3, <1>4, <1>5

(* How the places of a changed channel of events were those of the old one. *)
LEMMA TailPlaces ==
  ASSUME NEW E, NEW s \in Seq(E), s # <<>>
  PROVE  /\ DOMAIN s = 1 .. Len(s) /\ DOMAIN Tail(s) = 1 .. Len(s) - 1 /\ Len(s) \in Nat
         /\ 1 \in DOMAIN s /\ Head(s) = s[1]
         /\ \A i \in DOMAIN Tail(s) : i + 1 \in DOMAIN s /\ Tail(s)[i] = s[i + 1] /\ i \in Nat
         /\ \A i \in DOMAIN s : i # 1 => i - 1 \in DOMAIN Tail(s) /\ s[i] = Tail(s)[i - 1]
<1>1. /\ Head(s) = s[1] /\ 1 \in 1 .. Len(s)
      /\ Tail(s) \in Seq(E) /\ Len(Tail(s)) = Len(s) - 1
      /\ \A i \in 1 .. Len(s) - 1 : Tail(s)[i] = s[i + 1] /\ i + 1 \in 1 .. Len(s)
  BY CutHead
<1>2. DOMAIN s = 1 .. Len(s) /\ DOMAIN Tail(s) = 1 .. Len(s) - 1 /\ Len(s) \in Nat
  BY <1>1, LenProperties
<1>3. \A i \in 1 .. Len(s) : i # 1 => i - 1 \in 1 .. Len(s) - 1 /\ (i - 1) + 1 = i
  BY <1>2
<1> QED
  BY <1>1, <1>2, <1>3

(* Appending keeps the places and adds one.                                 *)
LEMMA AppendPlaces ==
  ASSUME NEW E, NEW s \in Seq(E), NEW e \in E
  PROVE  /\ DOMAIN s = 1 .. Len(s) /\ DOMAIN Append(s, e) = 1 .. Len(s) + 1 /\ Len(s) \in Nat
         /\ \A i \in DOMAIN s : i \in DOMAIN Append(s, e) /\ Append(s, e)[i] = s[i] /\ i # Len(s) + 1
         /\ Append(s, e)[Len(s) + 1] = e /\ Len(s) + 1 \in DOMAIN Append(s, e)
         /\ \A i \in DOMAIN Append(s, e) : i \in DOMAIN s \/ i = Len(s) + 1
<1>1. /\ Append(s, e) \in Seq(E) /\ Len(Append(s, e)) = Len(s) + 1
      /\ \A i \in 1 .. Len(s) : Append(s, e)[i] = s[i]
      /\ Append(s, e)[Len(s) + 1] = e
      /\ Len(s) \in Nat /\ DOMAIN s = 1 .. Len(s)
  BY AppendProperties, LenProperties
<1>2. DOMAIN Append(s, e) = 1 .. Len(s) + 1
  BY <1>1, LenProperties
<1> QED
  BY <1>1, <1>2

(* Behind the places of the first sequence are those of the second.         *)
LEMMA BothPlaces ==
  ASSUME NEW E, NEW s \in Seq(E), NEW t \in Seq(E)
  PROVE  /\ DOMAIN s = 1 .. Len(s) /\ DOMAIN t = 1 .. Len(t) /\ Len(s) \in Nat /\ Len(t) \in Nat
         /\ \A i \in DOMAIN s : i \in DOMAIN (s \o t) /\ (s \o t)[i] = s[i]
         /\ \A i \in DOMAIN t : i + Len(s) \in DOMAIN (s \o t) /\ (s \o t)[i + Len(s)] = t[i]
         /\ \A i \in DOMAIN (s \o t) :
              i \in DOMAIN s \/ (\E j \in DOMAIN t : i = j + Len(s) /\ i \notin DOMAIN s)
<1>1. /\ s \o t \in Seq(E) /\ Len(s \o t) = Len(s) + Len(t)
      /\ \A i \in 1 .. Len(s) + Len(t) : (s \o t)[i] = IF i <= Len(s) THEN s[i] ELSE t[i - Len(s)]
      /\ DOMAIN s = 1 .. Len(s) /\ DOMAIN t = 1 .. Len(t) /\ Len(s) \in Nat /\ Len(t) \in Nat
  BY ConcatProperties, LenProperties
<1>2. DOMAIN (s \o t) = 1 .. Len(s) + Len(t)
  BY <1>1, LenProperties
<1>3. \A i \in 1 .. Len(t) : /\ i + Len(s) \in 1 .. Len(s) + Len(t)
                             /\ ~ (i + Len(s) <= Len(s)) /\ (i + Len(s)) - Len(s) = i
  BY <1>1
<1>4. \A i \in 1 .. Len(s) : i \in 1 .. Len(s) + Len(t) /\ i <= Len(s)
  BY <1>1
<1>5. ASSUME NEW i \in 1 .. Len(s) + Len(t), i \notin 1 .. Len(s)
      PROVE  i - Len(s) \in 1 .. Len(t) /\ i = (i - Len(s)) + Len(s)
  BY <1>1, <1>5
<1> QED
  BY <1>1, <1>2, <1>3, <1>4, <1>5

(* The packets in the channel of events.                                    *)
LEMMA DataOfTail ==
  ASSUME NEW E, NEW s \in Seq(E), s # <<>>
  PROVE  /\ DataIn(Tail(s)) \subseteq DataIn(s)
         /\ IsData(Head(s)) => Head(s).packet \in DataIn(s)
BY TailPlaces DEF DataIn

(* Appending an event adds its packet, if it has one.                       *)
LEMMA DataOfAppend ==
  ASSUME NEW E, NEW s \in Seq(E), NEW e \in E
  PROVE  /\ IsData(e) => DataIn(Append(s, e)) \subseteq DataIn(s) \cup {e.packet}
         /\ ~ IsData(e) => DataIn(Append(s, e)) \subseteq DataIn(s)
BY AppendPlaces DEF DataIn

(* A retry adds the packets that it brings back.                            *)
LEMMA DataOfRetried ==
  ASSUME NEW n \in Nat, NEW s \in Seq(EventBelow(n)), NEW m \in Seq(PacketBelow(n))
  PROVE  DataIn(s \o Retried(m)) \subseteq DataIn(s) \cup Range(m)
<1>1. /\ Retried(m) \in Seq(EventBelow(n)) /\ Len(Retried(m)) = Len(m) /\ Len(m) \in Nat
      /\ \A i \in 1 .. Len(m) : Retried(m)[i].packet = m[i]
  BY RetriedAre
<1> DEFINE t == Retried(m)
           u == s \o t
<1>2. \A i \in DOMAIN t : t[i].packet \in Range(m)
  <2>1. DOMAIN t = 1 .. Len(m)
    BY <1>1, LenProperties
  <2>2. \A i \in 1 .. Len(m) : t[i].packet = m[i]
    BY <1>1
  <2>3. \A i \in 1 .. Len(m) : m[i] \in Range(m)
    BY LenProperties DEF Range
  <2> QED
    BY <2>1, <2>2, <2>3
<1> HIDE DEF t
<1>3. /\ \A i \in DOMAIN s : i \in DOMAIN u /\ u[i] = s[i]
      /\ \A i \in DOMAIN t : i + Len(s) \in DOMAIN u /\ u[i + Len(s)] = t[i]
      /\ \A i \in DOMAIN u : i \in DOMAIN s \/ (\E j \in DOMAIN t : i = j + Len(s))
  BY <1>1, BothPlaces DEF t
<1> HIDE DEF u
<1>4. ASSUME NEW i \in DOMAIN u, IsData(u[i])
      PROVE  u[i].packet \in DataIn(s) \cup Range(m)
  <2>1. CASE i \in DOMAIN s
    BY <1>3, <1>4, <2>1 DEF DataIn
  <2>2. CASE \E j \in DOMAIN t : i = j + Len(s)
    BY <1>2, <1>3, <2>2
  <2> QED
    BY <1>3, <2>1, <2>2
<1>5. DataIn(u) \subseteq DataIn(s) \cup Range(m)
  BY <1>4 DEF DataIn
<1> QED
  BY <1>5 DEF u, t

-----------------------------------------------------------------------------
(* Packets stay apart when they move.                                       *)

(* From the head of the events to the end of the queue ...                  *)
LEMMA ApartTakeData ==
  ASSUME NEW E, NEW R, NEW events \in Seq(E), NEW requests \in Seq(R), NEW retries,
         NEW req \in R, events # <<>>, IsData(Head(events)), req.packet = Head(events).packet,
         Apart(events, requests, retries)
  PROVE  Apart(Tail(events), Append(requests, req), retries)
<1> DEFINE t == Tail(events)
           u == Append(requests, req)
<1>1. /\ 1 \in DOMAIN events /\ Head(events) = events[1]
      /\ \A i \in DOMAIN t : i + 1 \in DOMAIN events /\ t[i] = events[i + 1] /\ i \in Nat
      /\ \A i \in DOMAIN t : i \in 1 .. Len(events) - 1
      /\ Len(events) \in Nat
  BY TailPlaces
<1>2. /\ \A i \in DOMAIN requests : u[i] = requests[i]
      /\ u[Len(requests) + 1] = req
      /\ \A i \in DOMAIN u : i \in DOMAIN requests \/ i = Len(requests) + 1
  BY AppendPlaces
<1>3. \A i, j \in DOMAIN t : (i + 1 = j + 1 => i = j) /\ i + 1 # 1
  BY <1>1
<1> HIDE DEF t, u
<1>4. \A i, j \in DOMAIN t : IsData(t[i]) /\ IsData(t[j]) /\ t[i].packet = t[j].packet => i = j
  BY <1>1, <1>3 DEF Apart
<1>5. \A i, j \in DOMAIN u : u[i].packet = u[j].packet => i = j
  BY <1>1, <1>2 DEF Apart
<1>6. \A i \in DOMAIN t, j \in DOMAIN u : IsData(t[i]) => t[i].packet # u[j].packet
  <2>1. ASSUME NEW i \in DOMAIN t, NEW j \in DOMAIN u, IsData(t[i]) PROVE t[i].packet # u[j].packet
    <3>1. i + 1 \in DOMAIN events /\ t[i] = events[i + 1] /\ IsData(events[i + 1]) /\ i + 1 # 1
      BY <1>1, <1>3, <2>1
    <3>2. CASE j \in DOMAIN requests
      BY <1>2, <3>1, <3>2 DEF Apart
    <3>3. CASE j = Len(requests) + 1
      BY <1>1, <1>2, <3>1, <3>3 DEF Apart
    <3> QED
      BY <1>2, <3>2, <3>3
  <2> QED
    BY <2>1
<1>7. \A i \in DOMAIN t, j \in DOMAIN retries : IsData(t[i]) => t[i].packet # retries[j]
  BY <1>1 DEF Apart
<1>8. \A i \in DOMAIN u, j \in DOMAIN retries : u[i].packet # retries[j]
  BY <1>1, <1>2 DEF Apart
<1>9. \A i, j \in DOMAIN retries : retries[i] = retries[j] => i = j
  BY DEF Apart
<1>10. Apart(t, u, retries)
  BY <1>4, <1>5, <1>6, <1>7, <1>8, <1>9 DEF Apart
<1> QED
  BY <1>10 DEF t, u

(* ... from the front of the queue to the end of the retry queue ...        *)
LEMMA ApartSend ==
  ASSUME NEW P, NEW events, NEW requests \in Seq(RequestOf(P)), NEW retries \in Seq(P),
         NEW k \in 0 .. Len(requests), Apart(events, requests, retries)
  PROVE  Apart(events, From(requests, k + 1), retries \o Packets(SubSeq(requests, 1, k)))
<1> DEFINE t == From(requests, k + 1)
           s == Packets(SubSeq(requests, 1, k))
           u == retries \o s
<1>1. Len(requests) \in Nat /\ k \in Nat /\ k <= Len(requests) /\ DOMAIN requests = 1 .. Len(requests)
  BY LenProperties
<1>2. /\ t \in Seq(RequestOf(P)) /\ Len(t) = Len(requests) - k
      /\ \A i \in 1 .. Len(requests) - k : t[i] = requests[i + k]
      /\ SubSeq(requests, 1, k) \in Seq(RequestOf(P)) /\ Len(SubSeq(requests, 1, k)) = k
      /\ \A i \in 1 .. k : SubSeq(requests, 1, k)[i] = requests[i]
  BY Cut
<1>3. s \in Seq(P) /\ Len(s) = k /\ \A i \in 1 .. k : s[i] = SubSeq(requests, 1, k)[i].packet
  BY <1>2, PacketsAre
<1>4. \A i \in 1 .. k : s[i] = requests[i].packet /\ i \in DOMAIN requests
  BY <1>1, <1>2, <1>3
<1> HIDE DEF t, s
<1>5. DOMAIN s = 1 .. k /\ DOMAIN t = 1 .. Len(requests) - k
  BY <1>2, <1>3, LenProperties
<1>6. /\ \A i \in DOMAIN t : i + k \in DOMAIN requests /\ t[i] = requests[i + k] /\ i \in Nat
      /\ \A i \in DOMAIN t, j \in DOMAIN t : i + k = j + k => i = j
      /\ \A i \in DOMAIN t, j \in DOMAIN s : i + k # j
  BY <1>1, <1>2, <1>5
<1>7. /\ \A i \in DOMAIN retries : u[i] = retries[i]
      /\ \A i \in DOMAIN s : u[i + Len(retries)] = s[i]
      /\ \A i \in DOMAIN u :
           i \in DOMAIN retries \/ (\E j \in DOMAIN s : i = j + Len(retries) /\ i \notin DOMAIN retries)
  BY <1>3, BothPlaces
<1> HIDE DEF u
<1>8. \A i, j \in DOMAIN t : t[i].packet = t[j].packet => i = j
  BY <1>6 DEF Apart
<1>9. \A i, j \in DOMAIN u : u[i] = u[j] => i = j
  <2>1. SUFFICES ASSUME NEW i \in DOMAIN u, NEW j \in DOMAIN u, u[i] = u[j] PROVE i = j
    OBVIOUS
  <2>2. CASE i \in DOMAIN retries /\ j \in DOMAIN retries
    BY <1>7, <2>1, <2>2 DEF Apart
  <2>3. CASE i \notin DOMAIN retries /\ j \notin DOMAIN retries
    <3>1. PICK a \in DOMAIN s : i = a + Len(retries)
      BY <1>7, <2>3
    <3>2. PICK b \in DOMAIN s : j = b + Len(retries)
      BY <1>7, <2>3
    <3>3. s[a] = s[b]
      BY <1>7, <2>1, <3>1, <3>2
    <3>4. a = b
      BY <1>4, <1>5, <3>3 DEF Apart
    <3> QED
      BY <3>1, <3>2, <3>4
  <2>4. CASE i \in DOMAIN retries /\ j \notin DOMAIN retries
    <3>1. PICK b \in DOMAIN s : j = b + Len(retries)
      BY <1>7, <2>4
    <3>2. retries[i] = requests[b].packet /\ b \in DOMAIN requests
      BY <1>4, <1>5, <1>7, <2>1, <2>4, <3>1
    <3> QED
      BY <2>4, <3>2 DEF Apart
  <2>5. CASE i \notin DOMAIN retries /\ j \in DOMAIN retries
    <3>1. PICK b \in DOMAIN s : i = b + Len(retries)
      BY <1>7, <2>5
    <3>2. retries[j] = requests[b].packet /\ b \in DOMAIN requests
      BY <1>4, <1>5, <1>7, <2>1, <2>5, <3>1
    <3> QED
      BY <2>5, <3>2 DEF Apart
  <2> QED
    BY <2>2, <2>3, <2>4, <2>5
<1>10. \A i \in DOMAIN events, j \in DOMAIN t : IsData(events[i]) => events[i].packet # t[j].packet
  BY <1>6 DEF Apart
<1>11. \A j \in DOMAIN u :
         \/ \E i \in DOMAIN retries : u[j] = retries[i]
         \/ \E i \in DOMAIN s : u[j] = requests[i].packet /\ i \in DOMAIN requests
  <2>1. TAKE j \in DOMAIN u
  <2>2. CASE j \in DOMAIN retries
    BY <1>7, <2>2
  <2>3. CASE j \notin DOMAIN retries
    <3>1. PICK b \in DOMAIN s : j = b + Len(retries)
      BY <1>7, <2>3
    <3> QED
      BY <1>4, <1>5, <1>7, <3>1
  <2> QED
    BY <2>2, <2>3
<1>12. \A i \in DOMAIN events, j \in DOMAIN u : IsData(events[i]) => events[i].packet # u[j]
  BY <1>11 DEF Apart
<1>13. \A i \in DOMAIN t, j \in DOMAIN u : t[i].packet # u[j]
  <2>1. SUFFICES ASSUME NEW i \in DOMAIN t, NEW j \in DOMAIN u PROVE t[i].packet # u[j]
    OBVIOUS
  <2>2. i + k \in DOMAIN requests /\ t[i] = requests[i + k]
    BY <1>6
  <2>3. ASSUME NEW a \in DOMAIN retries, u[j] = retries[a] PROVE t[i].packet # u[j]
    BY <2>2, <2>3 DEF Apart
  <2>4. ASSUME NEW a \in DOMAIN s, u[j] = requests[a].packet, a \in DOMAIN requests
        PROVE  t[i].packet # u[j]
    <3>1. i + k # a
      BY <1>6
    <3> QED
      BY <2>2, <2>4, <3>1 DEF Apart
  <2> QED
    BY <1>11, <2>3, <2>4
<1>14. \A i, j \in DOMAIN events :
         IsData(events[i]) /\ IsData(events[j]) /\ events[i].packet = events[j].packet => i = j
  BY DEF Apart
<1>15. Apart(events, t, u)
  BY <1>8, <1>9, <1>10, <1>12, <1>13, <1>14 DEF Apart
<1> QED
  BY <1>15 DEF t, s, u

(* ... when the retry queue is trimmed ...                                  *)
LEMMA ApartEnd ==
  ASSUME NEW P, NEW events, NEW requests, NEW retries \in Seq(P),
         NEW d \in 0 .. Len(retries), Apart(events, requests, retries)
  PROVE  Apart(events, requests, From(retries, d + 1))
<1> DEFINE t == From(retries, d + 1)
<1>1. /\ Len(retries) \in Nat /\ d \in Nat /\ DOMAIN retries = 1 .. Len(retries)
  BY LenProperties
<1>2. /\ t \in Seq(P) /\ Len(t) = Len(retries) - d
      /\ \A i \in 1 .. Len(retries) - d : t[i] = retries[i + d]
  BY Cut
<1> HIDE DEF t
<1>3. DOMAIN t = 1 .. Len(retries) - d
  BY <1>2, LenProperties
<1>4. /\ \A i \in DOMAIN t : i + d \in DOMAIN retries /\ t[i] = retries[i + d]
      /\ \A i, j \in DOMAIN t : i + d = j + d => i = j
  BY <1>1, <1>2, <1>3
<1>5. Apart(events, requests, t)
  BY <1>4 DEF Apart
<1> QED
  BY <1>5 DEF t

(* ... and from the retry queue to the end of the events.                   *)
LEMMA ApartRetry ==
  ASSUME NEW n \in Nat, NEW events \in Seq(EventBelow(n)), NEW requests, NEW retries,
         NEW m \in Seq(PacketBelow(n)), NEW f,
         \A i \in 1 .. Len(m) : f[i] \in DOMAIN retries /\ m[i] = retries[f[i]],
         \A i, j \in 1 .. Len(m) : f[i] = f[j] => i = j,
         Apart(events, requests, retries)
  PROVE  Apart(events \o Retried(m), requests, <<>>)
<1> DEFINE t == Retried(m)
           u == events \o t
<1>1. /\ t \in Seq(EventBelow(n)) /\ Len(t) = Len(m)
      /\ \A i \in 1 .. Len(m) : t[i].packet = m[i]
  BY RetriedAre
<1> HIDE DEF t
<1>2. DOMAIN t = 1 .. Len(m)
  BY <1>1, LenProperties
<1>3. /\ \A i \in DOMAIN events : u[i] = events[i]
      /\ \A i \in DOMAIN t : u[i + Len(events)] = t[i]
      /\ \A i \in DOMAIN u : i \in DOMAIN events \/ (\E j \in DOMAIN t : i = j + Len(events))
  BY <1>1, BothPlaces
<1> HIDE DEF u
<1>4. \A i \in DOMAIN t : t[i].packet = retries[f[i]] /\ f[i] \in DOMAIN retries
  BY <1>1, <1>2
<1>5. \A i, j \in DOMAIN t : t[i].packet = t[j].packet => i = j
  BY <1>2, <1>4 DEF Apart
<1>6. \A i \in DOMAIN events, j \in DOMAIN t : IsData(events[i]) => events[i].packet # t[j].packet
  BY <1>4 DEF Apart
<1>7. \A i \in DOMAIN t, j \in DOMAIN requests : t[i].packet # requests[j].packet
  BY <1>4 DEF Apart
<1>8. \A i, j \in DOMAIN u : IsData(u[i]) /\ IsData(u[j]) /\ u[i].packet = u[j].packet => i = j
  <2>1. SUFFICES ASSUME NEW i \in DOMAIN u, NEW j \in DOMAIN u,
                        IsData(u[i]), IsData(u[j]), u[i].packet = u[j].packet
                 PROVE  i = j
    OBVIOUS
  <2>2. CASE i \in DOMAIN events /\ j \in DOMAIN events
    BY <1>3, <2>1, <2>2 DEF Apart
  <2>3. ASSUME NEW a \in DOMAIN t, i = a + Len(events), NEW b \in DOMAIN t, j = b + Len(events)
        PROVE  i = j
    BY <1>3, <1>5, <2>1, <2>3
  <2>4. ASSUME i \in DOMAIN events, NEW b \in DOMAIN t, j = b + Len(events)
        PROVE  FALSE
    BY <1>3, <1>6, <2>1, <2>4
  <2>5. ASSUME j \in DOMAIN events, NEW b \in DOMAIN t, i = b + Len(events)
        PROVE  FALSE
    BY <1>3, <1>6, <2>1, <2>5
  <2> QED
    BY <1>3, <2>2, <2>3, <2>4, <2>5
<1>9. \A i \in DOMAIN u, j \in DOMAIN requests : IsData(u[i]) => u[i].packet # requests[j].packet
  <2>1. SUFFICES ASSUME NEW i \in DOMAIN u, NEW j \in DOMAIN requests, IsData(u[i])
                 PROVE  u[i].packet # requests[j].packet
    OBVIOUS
  <2>2. CASE i \in DOMAIN events
    BY <1>3, <2>1, <2>2 DEF Apart
  <2>3. ASSUME NEW b \in DOMAIN t, i = b + Len(events)
        PROVE  u[i].packet # requests[j].packet
    BY <1>3, <1>7, <2>3
  <2> QED
    BY <1>3, <2>2, <2>3
<1>10. \A i, j \in DOMAIN requests : requests[i].packet = requests[j].packet => i = j
  BY DEF Apart
<1>11. DOMAIN <<>> = {}
  OBVIOUS
<1>12. Apart(u, requests, <<>>)
  BY <1>8, <1>9, <1>10, <1>11 DEF Apart
<1> QED
  BY <1>12 DEF t, u

(* An event that holds no packet may go, or come.                           *)
LEMMA ApartTakeOther ==
  ASSUME NEW E, NEW events \in Seq(E), NEW requests, NEW retries, events # <<>>,
         Apart(events, requests, retries)
  PROVE  Apart(Tail(events), requests, retries)
<1> DEFINE t == Tail(events)
<1>1. /\ \A i \in DOMAIN t : i + 1 \in DOMAIN events /\ t[i] = events[i + 1]
      /\ \A i, j \in DOMAIN t : i + 1 = j + 1 => i = j
  BY TailPlaces
<1> HIDE DEF t
<1>2. Apart(t, requests, retries)
  BY <1>1 DEF Apart
<1> QED
  BY <1>2 DEF t

(* A packet that comes is apart if it is new.                               *)
LEMMA ApartPut ==
  ASSUME NEW E, NEW P, NEW events \in Seq(E), NEW e \in E, NEW requests \in Seq(RequestOf(P)),
         NEW retries, Apart(events, requests, retries),
         IsData(e) => e.packet \notin HeldIn(events, requests, retries)
  PROVE  Apart(Append(events, e), requests, retries)
<1> DEFINE u == Append(events, e)
<1>1. /\ \A i \in DOMAIN events : u[i] = events[i]
      /\ u[Len(events) + 1] = e
      /\ \A i \in DOMAIN u : i \in DOMAIN events \/ i = Len(events) + 1
  BY AppendPlaces
<1> HIDE DEF u
<1>2. IsData(e) => /\ \A i \in DOMAIN events : IsData(events[i]) => events[i].packet # e.packet
                   /\ \A i \in DOMAIN requests : requests[i].packet # e.packet
                   /\ \A i \in DOMAIN retries : retries[i] # e.packet
  <2>1. \A i \in DOMAIN events : IsData(events[i]) => events[i].packet \in HeldIn(events, requests, retries)
    BY DEF HeldIn, DataIn
  <2>2. \A i \in DOMAIN requests : requests[i].packet \in HeldIn(events, requests, retries)
    BY DEF HeldIn, Packets, Range
  <2>3. \A i \in DOMAIN retries : retries[i] \in HeldIn(events, requests, retries)
    BY DEF HeldIn, Range
  <2> QED
    BY <2>1, <2>2, <2>3
<1>3. Apart(u, requests, retries)
  BY <1>1, <1>2 DEF Apart
<1> QED
  BY <1>3 DEF u

-----------------------------------------------------------------------------
(* The places of the model, and the sequences that they are places of.      *)
PlacesOf(events, requests, retries) ==
       ({"dcEvents"} \X {i \in DOMAIN events : events[i].type = "publishData"})
  \cup ({"queue"} \X DOMAIN requests)
  \cup ({"retry"} \X DOMAIN retries)
HeldOf(events, requests, retries) ==
  [at \in PlacesOf(events, requests, retries) |->
     CASE at[1] = "dcEvents" -> events[at[2]].packet
       [] at[1] = "queue" -> requests[at[2]].packet
       [] at[1] = "retry" -> retries[at[2]]]

(* A place is one of a sequence, and what it holds is there.                *)
LEMMA PlacesAre ==
  ASSUME NEW events, NEW requests, NEW retries
  PROVE  LET held == HeldOf(events, requests, retries)
             P == PlacesOf(events, requests, retries)
         IN  /\ DOMAIN held = P
             /\ \A i \in DOMAIN events : IsData(events[i]) =>
                  <<"dcEvents", i>> \in P /\ held[<<"dcEvents", i>>] = events[i].packet
             /\ \A i \in DOMAIN requests :
                  <<"queue", i>> \in P /\ held[<<"queue", i>>] = requests[i].packet
             /\ \A i \in DOMAIN retries :
                  <<"retry", i>> \in P /\ held[<<"retry", i>>] = retries[i]
             /\ \A at \in P :
                  \/ \E i \in DOMAIN events : IsData(events[i]) /\ at = <<"dcEvents", i>>
                  \/ \E i \in DOMAIN requests : at = <<"queue", i>>
                  \/ \E i \in DOMAIN retries : at = <<"retry", i>>
<1> DEFINE held == HeldOf(events, requests, retries)
           P == PlacesOf(events, requests, retries)
<1>1. held = [at \in P |->
                CASE at[1] = "dcEvents" -> events[at[2]].packet
                  [] at[1] = "queue" -> requests[at[2]].packet
                  [] at[1] = "retry" -> retries[at[2]]]
  BY DEF HeldOf
<1>2. /\ \A i \in DOMAIN events : IsData(events[i]) => <<"dcEvents", i>> \in P
      /\ \A i \in DOMAIN requests : <<"queue", i>> \in P
      /\ \A i \in DOMAIN retries : <<"retry", i>> \in P
      /\ \A at \in P :
           \/ \E i \in DOMAIN events : IsData(events[i]) /\ at = <<"dcEvents", i>>
           \/ \E i \in DOMAIN requests : at = <<"queue", i>>
           \/ \E i \in DOMAIN retries : at = <<"retry", i>>
  BY DEF PlacesOf, IsData
<1> HIDE DEF held, P
<1>3. DOMAIN held = P
  BY <1>1
<1>4. ASSUME NEW i \in DOMAIN events, IsData(events[i])
      PROVE  held[<<"dcEvents", i>>] = events[i].packet
  BY <1>1, <1>2, <1>4
<1>5. ASSUME NEW i \in DOMAIN requests
      PROVE  held[<<"queue", i>>] = requests[i].packet
  BY <1>1, <1>2
<1>6. ASSUME NEW i \in DOMAIN retries
      PROVE  held[<<"retry", i>>] = retries[i]
  BY <1>1, <1>2
<1> QED
  BY <1>2, <1>3, <1>4, <1>5, <1>6 DEF held, P

(* What is held at the places.                                              *)
LEMMA RangeOfHeld ==
  ASSUME NEW events, NEW requests, NEW retries
  PROVE  Range(HeldOf(events, requests, retries)) = HeldIn(events, requests, retries)
<1> DEFINE held == HeldOf(events, requests, retries)
           P == PlacesOf(events, requests, retries)
<1>1. /\ DOMAIN held = P
      /\ \A i \in DOMAIN events : IsData(events[i]) =>
           <<"dcEvents", i>> \in P /\ held[<<"dcEvents", i>>] = events[i].packet
      /\ \A i \in DOMAIN requests :
           <<"queue", i>> \in P /\ held[<<"queue", i>>] = requests[i].packet
      /\ \A i \in DOMAIN retries :
           <<"retry", i>> \in P /\ held[<<"retry", i>>] = retries[i]
      /\ \A at \in P :
           \/ \E i \in DOMAIN events : IsData(events[i]) /\ at = <<"dcEvents", i>>
           \/ \E i \in DOMAIN requests : at = <<"queue", i>>
           \/ \E i \in DOMAIN retries : at = <<"retry", i>>
  BY PlacesAre
<1> HIDE DEF held, P
<1>2. /\ \A p : p \in DataIn(events) <=> \E i \in DOMAIN events : IsData(events[i]) /\ p = events[i].packet
      /\ \A p : p \in Range(Packets(requests)) <=> \E i \in DOMAIN requests : p = requests[i].packet
      /\ \A p : p \in Range(retries) <=> \E i \in DOMAIN retries : p = retries[i]
      /\ \A p : p \in Range(held) <=> \E at \in P : p = held[at]
  BY <1>1 DEF DataIn, Range, Packets
<1>3. ASSUME NEW p \in Range(held)
      PROVE  p \in HeldIn(events, requests, retries)
  <2>1. PICK at \in P : p = held[at]
    BY <1>2
  <2>2. \/ \E i \in DOMAIN events : IsData(events[i]) /\ at = <<"dcEvents", i>>
        \/ \E i \in DOMAIN requests : at = <<"queue", i>>
        \/ \E i \in DOMAIN retries : at = <<"retry", i>>
    BY <1>1
  <2> QED
    BY <1>1, <1>2, <2>1, <2>2 DEF HeldIn
<1>4. ASSUME NEW p \in HeldIn(events, requests, retries)
      PROVE  p \in Range(held)
  <2>1. p \in DataIn(events) \/ p \in Range(Packets(requests)) \/ p \in Range(retries)
    BY DEF HeldIn
  <2>2. CASE p \in DataIn(events)
    <3>1. PICK i \in DOMAIN events : IsData(events[i]) /\ p = events[i].packet
      BY <1>2, <2>2
    <3> QED
      BY <1>1, <1>2, <3>1
  <2>3. CASE p \in Range(Packets(requests))
    <3>1. PICK i \in DOMAIN requests : p = requests[i].packet
      BY <1>2, <2>3
    <3> QED
      BY <1>1, <1>2, <3>1
  <2>4. CASE p \in Range(retries)
    <3>1. PICK i \in DOMAIN retries : p = retries[i]
      BY <1>2, <2>4
    <3> QED
      BY <1>1, <1>2, <3>1
  <2> QED
    BY <2>1, <2>2, <2>3, <2>4
<1> QED
  BY <1>3, <1>4 DEF held

(* One place for each packet.                                               *)
LEMMA ApartIsInjective ==
  ASSUME NEW events, NEW requests, NEW retries, Apart(events, requests, retries)
  PROVE  IsInjective(HeldOf(events, requests, retries))
<1> DEFINE held == HeldOf(events, requests, retries)
           P == PlacesOf(events, requests, retries)
<1>1. /\ DOMAIN held = P
      /\ \A i \in DOMAIN events : IsData(events[i]) =>
           <<"dcEvents", i>> \in P /\ held[<<"dcEvents", i>>] = events[i].packet
      /\ \A i \in DOMAIN requests :
           <<"queue", i>> \in P /\ held[<<"queue", i>>] = requests[i].packet
      /\ \A i \in DOMAIN retries :
           <<"retry", i>> \in P /\ held[<<"retry", i>>] = retries[i]
      /\ \A at \in P :
           \/ \E i \in DOMAIN events : IsData(events[i]) /\ at = <<"dcEvents", i>>
           \/ \E i \in DOMAIN requests : at = <<"queue", i>>
           \/ \E i \in DOMAIN retries : at = <<"retry", i>>
  BY PlacesAre
<1> HIDE DEF held, P
<1>2. ASSUME NEW a \in P, NEW b \in P, held[a] = held[b]
      PROVE  a = b
  <2>1. CASE \E i \in DOMAIN events : IsData(events[i]) /\ a = <<"dcEvents", i>>
    <3>1. PICK i \in DOMAIN events : IsData(events[i]) /\ a = <<"dcEvents", i>>
      BY <2>1
    <3>2. held[b] = events[i].packet
      BY <1>1, <1>2, <3>1
    <3>3. CASE \E j \in DOMAIN events : IsData(events[j]) /\ b = <<"dcEvents", j>>
      BY <1>1, <3>1, <3>2, <3>3 DEF Apart
    <3>4. CASE \E j \in DOMAIN requests : b = <<"queue", j>>
      BY <1>1, <3>1, <3>2, <3>4 DEF Apart
    <3>5. CASE \E j \in DOMAIN retries : b = <<"retry", j>>
      BY <1>1, <3>1, <3>2, <3>5 DEF Apart
    <3> QED
      BY <1>1, <3>3, <3>4, <3>5
  <2>2. CASE \E i \in DOMAIN requests : a = <<"queue", i>>
    <3>1. PICK i \in DOMAIN requests : a = <<"queue", i>>
      BY <2>2
    <3>2. held[b] = requests[i].packet
      BY <1>1, <1>2, <3>1
    <3>3. CASE \E j \in DOMAIN events : IsData(events[j]) /\ b = <<"dcEvents", j>>
      BY <1>1, <3>1, <3>2, <3>3 DEF Apart
    <3>4. CASE \E j \in DOMAIN requests : b = <<"queue", j>>
      BY <1>1, <3>1, <3>2, <3>4 DEF Apart
    <3>5. CASE \E j \in DOMAIN retries : b = <<"retry", j>>
      BY <1>1, <3>1, <3>2, <3>5 DEF Apart
    <3> QED
      BY <1>1, <3>3, <3>4, <3>5
  <2>3. CASE \E i \in DOMAIN retries : a = <<"retry", i>>
    <3>1. PICK i \in DOMAIN retries : a = <<"retry", i>>
      BY <2>3
    <3>2. held[b] = retries[i]
      BY <1>1, <1>2, <3>1
    <3>3. CASE \E j \in DOMAIN events : IsData(events[j]) /\ b = <<"dcEvents", j>>
      BY <1>1, <3>1, <3>2, <3>3 DEF Apart
    <3>4. CASE \E j \in DOMAIN requests : b = <<"queue", j>>
      BY <1>1, <3>1, <3>2, <3>4 DEF Apart
    <3>5. CASE \E j \in DOMAIN retries : b = <<"retry", j>>
      BY <1>1, <3>1, <3>2, <3>5 DEF Apart
    <3> QED
      BY <1>1, <3>3, <3>4, <3>5
  <2> QED
    BY <1>1, <2>1, <2>2, <2>3
<1>3. IsInjective(held)
  BY <1>1, <1>2 DEF IsInjective
<1> QED
  BY <1>3 DEF held

(* All packets, for a state and for the next.                               *)
All(events, requests, retries, buffered, under, got) ==
  HeldIn(events, requests, retries) \cup Range(buffered) \cup Range(under) \cup Range(got)

(* Everywhere is what the sequences have.                                   *)
LEMMA EverywhereIs ==
  /\ Everywhere = All(dcEvents, queue, retry, buffer, wire, received)
  /\ Everywhere' = All(dcEvents', queue', retry', buffer', wire', received')
<1>1. Held = HeldOf(dcEvents, queue, retry)
  BY DEF Held, HeldAt, HeldOf, PlacesOf
<1>2. Held' = HeldOf(dcEvents', queue', retry')
  BY DEF Held, HeldAt, HeldOf, PlacesOf
<1>3. /\ Range(Held) = HeldIn(dcEvents, queue, retry)
      /\ Range(HeldOf(dcEvents', queue', retry')) = HeldIn(dcEvents', queue', retry')
  BY <1>1, RangeOfHeld
<1> QED
  BY <1>2, <1>3 DEF Everywhere, All, Range

(* Every packet has a number that was handed out.                           *)
LEMMA EverywhereBelow ==
  ASSUME ChannelTypeOK
  PROVE  Everywhere \subseteq PacketBelow(nextSeq)
<1> DEFINE P == PacketBelow(nextSeq)
<1>1. /\ dcEvents \in Seq(EventBelow(nextSeq)) /\ queue \in Seq(RequestOf(P))
      /\ retry \in Seq(P) /\ buffer \in Seq(P) /\ wire \in Seq(P) /\ received \in Seq(P)
  BY TypesAre
<1>2. \A i \in DOMAIN dcEvents : IsData(dcEvents[i]) => dcEvents[i].packet \in P
  <2>1. \A i \in DOMAIN dcEvents : dcEvents[i] \in EventBelow(nextSeq)
    BY <1>1, LenProperties, ElementOfSeq
  <2> QED
    BY <2>1 DEF EventBelow, IsData
<1>3. Range(Packets(queue)) \subseteq P
  <2>1. Packets(queue) \in Seq(P)
    BY <1>1, PacketsAre
  <2> QED
    BY <2>1, RangeIs, ElementOfSeq
<1> HIDE DEF P
<1>4. \A s \in Seq(P) : Range(s) \subseteq P
  BY RangeIs, ElementOfSeq
<1>5. Everywhere = All(dcEvents, queue, retry, buffer, wire, received)
  BY EverywhereIs
<1>6. DataIn(dcEvents) \subseteq P
  BY <1>2 DEF DataIn
<1> QED
  BY <1>1, <1>3, <1>4, <1>5, <1>6 DEF All, HeldIn, P

(* What a part of the requests carries is carried by them.                  *)
LEMMA PacketsOfParts ==
  ASSUME NEW P, NEW r \in Seq(RequestOf(P)), NEW k \in 0 .. Len(r)
  PROVE  /\ Range(Packets(SubSeq(r, 1, k))) \subseteq Range(Packets(r))
         /\ Range(Packets(From(r, k + 1))) \subseteq Range(Packets(r))
<1> DEFINE a == SubSeq(r, 1, k)
           b == From(r, k + 1)
<1>1. a \in Seq(RequestOf(P)) /\ b \in Seq(RequestOf(P)) /\ r = a \o b
  BY Cut
<1> HIDE DEF a, b
<1>2. Packets(a \o b) = Packets(a) \o Packets(b)
  BY <1>1, PacketsOfBoth
<1>3. Packets(a) \in Seq(P) /\ Packets(b) \in Seq(P)
  BY <1>1, PacketsAre
<1>4. Range(Packets(a) \o Packets(b)) = Range(Packets(a)) \cup Range(Packets(b))
  BY <1>3, RangeConcatenation
<1> QED
  BY <1>1, <1>2, <1>4 DEF a, b

(* A request put behind the queue adds its packet.                          *)
LEMMA PacketsOfAppend ==
  ASSUME NEW P, NEW r \in Seq(RequestOf(P)), NEW q \in RequestOf(P)
  PROVE  Range(Packets(Append(r, q))) \subseteq Range(Packets(r)) \cup {q.packet}
BY AppendPlaces DEF Packets, Range

(* A step that sends moves packets, and keeps them apart.                   *)
LEMMA SendsMoves ==
  ASSUME ChannelTypeOK, NEW requests \in Seq(RequestOf(PacketBelow(nextSeq))),
         NEW buffered \in Nat, NEW k \in Nat, NEW d \in Nat,
         Sends(requests, buffered, k, d),
         Apart(Tail(dcEvents), requests, retry),
         HeldIn(Tail(dcEvents), requests, retry) \subseteq Everywhere
  PROVE  HeldApart' /\ Everywhere' \subseteq Everywhere
<1> DEFINE P == PacketBelow(nextSeq)
           sent == SubSeq(requests, 1, k)
           kept == retry \o Packets(sent)
           events == Tail(dcEvents)
           rest == From(requests, k + 1)
<1> HIDE DEF P
<1>1. k \in 0 .. Len(requests) /\ d \in 0 .. Len(kept)
  BY DEF Sends
<1>2. Packets(sent) \in Seq(P) /\ kept \in Seq(P) /\ retry \in Seq(P) /\ buffer \in Seq(P)
  BY <1>1, SendsParts, TypesAre DEF P
<1>3. /\ queue' = rest
      /\ buffer' = IF open THEN buffer \o Packets(sent) ELSE buffer
      /\ retry' = From(kept, d + 1)
      /\ dcEvents' = events
      /\ wire' = wire /\ received' = received
  BY DEF Sends, handlerUnchanged
<1>4. /\ Range(Packets(sent)) \subseteq Range(Packets(requests))
      /\ Range(Packets(rest)) \subseteq Range(Packets(requests))
  BY <1>1, PacketsOfParts
<1>5. Apart(events, rest, kept)
  BY <1>1, <1>2, ApartSend DEF P
<1> HIDE DEF sent, events, rest
<1>6. /\ Range(kept) = Range(retry) \cup Range(Packets(sent))
      /\ Range(buffer \o Packets(sent)) = Range(buffer) \cup Range(Packets(sent))
  BY <1>2, RangeConcatenation
<1> HIDE DEF kept
<1>7. Apart(events, rest, From(kept, d + 1))
  BY <1>1, <1>2, <1>5, ApartEnd
<1>8. HeldApart'
  BY <1>3, <1>7 DEF HeldApart
<1>9. Range(From(kept, d + 1)) \subseteq Range(kept)
  BY <1>1, <1>2, RangeOfParts
<1>10. /\ Everywhere = All(dcEvents, queue, retry, buffer, wire, received)
       /\ Everywhere' = All(dcEvents', queue', retry', buffer', wire', received')
  BY EverywhereIs
<1>11. HeldIn(events, requests, retry) \subseteq Everywhere
  BY DEF events
<1>12. /\ DataIn(events) \subseteq Everywhere /\ Range(Packets(requests)) \subseteq Everywhere
       /\ Range(retry) \subseteq Everywhere
       /\ Range(buffer) \subseteq Everywhere /\ Range(wire) \subseteq Everywhere
       /\ Range(received) \subseteq Everywhere
  BY <1>10, <1>11 DEF HeldIn, All
<1> DEFINE a == From(kept, d + 1)
<1> HIDE DEF a
<1>13. /\ Range(a) \subseteq Everywhere
       /\ Range(Packets(rest)) \subseteq Everywhere
       /\ Range(IF open THEN buffer \o Packets(sent) ELSE buffer) \subseteq Everywhere
  BY <1>4, <1>6, <1>9, <1>12 DEF a
<1>14. Everywhere' = All(events, rest, a,
                         IF open THEN buffer \o Packets(sent) ELSE buffer, wire, received)
  BY <1>3, <1>10 DEF a
<1>15. Everywhere' \subseteq Everywhere
  BY <1>12, <1>13, <1>14 DEF All, HeldIn
<1> QED
  BY <1>8, <1>15

(* What HandlePublishData has to send from: the request is behind the       *)
(* queue, apart from all others.                                            *)
LEMMA TakesData ==
  ASSUME ChannelTypeOK, HeldApart, Handles("publishData")
  PROVE  /\ Append(queue, Request) \in Seq(RequestOf(PacketBelow(nextSeq)))
         /\ Apart(Tail(dcEvents), Append(queue, Request), retry)
         /\ HeldIn(Tail(dcEvents), Append(queue, Request), retry) \subseteq Everywhere
<1> DEFINE P == PacketBelow(nextSeq)
           E == EventBelow(nextSeq)
           requests == Append(queue, Request)
           t == Tail(dcEvents)
<1>0. dcEvents \in Seq(E) /\ queue \in Seq(RequestOf(P))
  BY TypesAre
<1>1. Everywhere = All(dcEvents, queue, retry, buffer, wire, received)
      /\ Apart(dcEvents, queue, retry)
  BY EverywhereIs DEF HeldApart
<1>2. /\ DataIn(dcEvents) \subseteq Everywhere /\ Range(Packets(queue)) \subseteq Everywhere
      /\ Range(retry) \subseteq Everywhere
  BY <1>1 DEF HeldIn, All
<1> HIDE DEF P, E
<1>3. /\ dcEvents # <<>> /\ Head(dcEvents).type = "publishData"
      /\ Request \in RequestOf(P) /\ requests \in Seq(RequestOf(P))
      /\ Request.packet = Head(dcEvents).packet
  BY RequestQueued DEF Handles, P, Request
<1>4. IsData(Head(dcEvents)) /\ Head(dcEvents).packet \in DataIn(dcEvents)
      /\ DataIn(t) \subseteq DataIn(dcEvents)
  BY <1>0, <1>3, DataOfTail DEF IsData
<1>5. Apart(t, requests, retry)
  BY <1>0, <1>1, <1>3, <1>4, ApartTakeData
<1>6. Range(Packets(requests)) \subseteq Range(Packets(queue)) \cup {Request.packet}
  BY <1>0, <1>3, PacketsOfAppend
<1> HIDE DEF requests, t
<1>7. HeldIn(t, requests, retry) \subseteq Everywhere
  BY <1>2, <1>3, <1>4, <1>6 DEF HeldIn
<1> QED
  BY <1>3, <1>5, <1>7 DEF requests, t, P

(* What HandleBufferedAmountChange has to send from.                        *)
LEMMA TakesChange ==
  ASSUME ChannelTypeOK, HeldApart, Handles("bufferedAmountChange")
  PROVE  /\ queue \in Seq(RequestOf(PacketBelow(nextSeq)))
         /\ Apart(Tail(dcEvents), queue, retry)
         /\ HeldIn(Tail(dcEvents), queue, retry) \subseteq Everywhere
<1>1. /\ dcEvents \in Seq(EventBelow(nextSeq)) /\ dcEvents # <<>>
      /\ queue \in Seq(RequestOf(PacketBelow(nextSeq)))
      /\ Apart(dcEvents, queue, retry)
      /\ Everywhere = All(dcEvents, queue, retry, buffer, wire, received)
  BY TypesAre, EverywhereIs DEF HeldApart, Handles
<1>2. Apart(Tail(dcEvents), queue, retry) /\ DataIn(Tail(dcEvents)) \subseteq DataIn(dcEvents)
  BY <1>1, ApartTakeOther, DataOfTail
<1>3. HeldIn(Tail(dcEvents), queue, retry) \subseteq Everywhere
  BY <1>1, <1>2 DEF HeldIn, All
<1> QED
  BY <1>1, <1>2, <1>3

(* The packet that the next call gets.                                      *)
NewPacket == [seq |-> nextSeq, call |-> Head(dcEvents).call]

(* A step moves packets, and keeps them apart; only PublishPacket makes     *)
(* one, and its number is new.                                              *)
LEMMA Moves ==
  ASSUME ChannelTypeOK, HeldApart, [ChannelNext]_channelVars
  PROVE  /\ HeldApart'
         /\ Everywhere' \subseteq Everywhere \cup {NewPacket}
         /\ ~ HandlePublishPacket => Everywhere' \subseteq Everywhere
<1> USE DEF dcTask, sctp, conn
<1> DEFINE P == PacketBelow(nextSeq)
           E == EventBelow(nextSeq)
<1>0. /\ nextSeq \in Nat \ {0} /\ nextSeq \in Nat
      /\ dcEvents \in Seq(E) /\ queue \in Seq(RequestOf(P)) /\ retry \in Seq(P)
      /\ buffer \in Seq(P) /\ wire \in Seq(P) /\ received \in Seq(P)
      /\ drained \in Seq(Nat)
  BY TypesAre
<1>1. /\ Everywhere = All(dcEvents, queue, retry, buffer, wire, received)
      /\ Everywhere' = All(dcEvents', queue', retry', buffer', wire', received')
      /\ HeldApart = Apart(dcEvents, queue, retry)
      /\ HeldApart' = Apart(dcEvents', queue', retry')
  BY EverywhereIs DEF HeldApart
<1>2. /\ DataIn(dcEvents) \subseteq Everywhere /\ Range(Packets(queue)) \subseteq Everywhere
      /\ Range(retry) \subseteq Everywhere
      /\ Range(buffer) \subseteq Everywhere /\ Range(wire) \subseteq Everywhere
      /\ Range(received) \subseteq Everywhere
  BY <1>1 DEF HeldIn, All
<1>3. ASSUME NEW e \in E, ~ IsData(e), dcEvents' = Append(dcEvents, e),
             UNCHANGED <<queue, retry, buffer, wire, received>>
      PROVE  HeldApart' /\ Everywhere' \subseteq Everywhere
  <2>1. Apart(Append(dcEvents, e), queue, retry)
    BY <1>0, <1>1, <1>3, ApartPut
  <2>2. DataIn(Append(dcEvents, e)) \subseteq DataIn(dcEvents)
    BY <1>0, <1>3, DataOfAppend
  <2>3. DataIn(dcEvents') \subseteq Everywhere
    BY <1>2, <1>3, <2>2
  <2> QED
    BY <1>1, <1>2, <1>3, <2>1, <2>3 DEF All, HeldIn
<1>4. ASSUME UNCHANGED <<dcEvents, queue, retry>>,
             Range(buffer') \subseteq Everywhere, Range(wire') \subseteq Everywhere,
             Range(received') \subseteq Everywhere
      PROVE  HeldApart' /\ Everywhere' \subseteq Everywhere
  BY <1>1, <1>2, <1>4 DEF All, HeldIn
<1> HIDE DEF P, E
<1>5. ASSUME NEW c \in Call, PublishData(c)
      PROVE  HeldApart' /\ Everywhere' \subseteq Everywhere
  <2> DEFINE e == [type |-> "publishPacket", call |-> c]
  <2>1. e \in E /\ ~ IsData(e)
    BY DEF E, EventBelow, IsData
  <2> HIDE DEF e
  <2> QED
    BY <1>3, <1>5, <2>1 DEF PublishData, e
<1>6. ASSUME NEW t \in Thresholds, SetThreshold(t)
      PROVE  HeldApart' /\ Everywhere' \subseteq Everywhere
  BY <1>2, <1>4, <1>6 DEF SetThreshold
<1>7. CASE HandlePublishPacket
  <2> DEFINE e == [type |-> "publishData", reply |-> TRUE, packet |-> NewPacket]
             t == Tail(dcEvents)
  <2>1. dcEvents' = Append(t, e) /\ UNCHANGED <<queue, retry, buffer, wire, received>>
        /\ dcEvents # <<>> /\ Head(dcEvents).type = "publishPacket"
    BY <1>7 DEF HandlePublishPacket, Handles, NewPacket
  <2>2. Head(dcEvents) \in E /\ t \in Seq(E)
    BY <1>0, <2>1, CutHead
  <2>3. e \in EventBelow(nextSeq + 1) /\ IsData(e) /\ e.packet = NewPacket
    <3>1. Head(dcEvents).call \in Call
      BY <2>1, <2>2 DEF E, EventBelow
    <3>2. NewPacket \in PacketBelow(nextSeq + 1)
      BY <1>0, <3>1 DEF PacketBelow, NewPacket
    <3> QED
      BY <3>2 DEF EventBelow, IsData
  <2>4. NewPacket \notin Everywhere
    <3>1. NewPacket \notin PacketBelow(nextSeq)
      BY <1>0 DEF PacketBelow, NewPacket
    <3> QED
      BY <3>1, EverywhereBelow
  <2>5. E \subseteq EventBelow(nextSeq + 1)
    <3>1. PacketBelow(nextSeq) \subseteq PacketBelow(nextSeq + 1)
      BY <1>0 DEF PacketBelow
    <3> QED
      BY <3>1 DEF E, EventBelow
  <2>6. t \in Seq(EventBelow(nextSeq + 1))
    BY <2>2, <2>5, SeqMonotonic
  <2>7. Apart(t, queue, retry) /\ DataIn(t) \subseteq DataIn(dcEvents)
    BY <1>0, <1>1, <2>1, ApartTakeOther, DataOfTail
  <2> HIDE DEF e, t
  <2>8. e.packet \notin HeldIn(t, queue, retry)
    BY <1>2, <2>3, <2>4, <2>7 DEF HeldIn
  <2>9. Apart(Append(t, e), queue, retry)
    BY <1>0, <2>3, <2>6, <2>7, <2>8, ApartPut
  <2>10. DataIn(Append(t, e)) \subseteq DataIn(t) \cup {e.packet}
    BY <2>3, <2>6, DataOfAppend
  <2>11. DataIn(dcEvents') \subseteq Everywhere \cup {NewPacket}
    BY <1>2, <2>1, <2>3, <2>7, <2>10
  <2>12. Everywhere' \subseteq Everywhere \cup {NewPacket}
    BY <1>1, <1>2, <2>1, <2>11 DEF All, HeldIn
  <2> QED
    BY <1>1, <1>7, <2>1, <2>9, <2>12
<1>8. CASE HandlePublishData
  <2> DEFINE requests == Append(queue, Request)
  <2>1. PICK k \in Nat : Sends(requests, amount, k, 0)
    BY <1>8, PublishDataSends
  <2>2. /\ requests \in Seq(RequestOf(PacketBelow(nextSeq))) /\ amount \in Nat
        /\ Apart(Tail(dcEvents), requests, retry)
        /\ HeldIn(Tail(dcEvents), requests, retry) \subseteq Everywhere
    BY <1>8, TakesData, TypesAre DEF HandlePublishData
  <2> HIDE DEF requests
  <2> QED
    BY <2>1, <2>2, SendsMoves
<1>9. CASE HandleBufferedAmountChange
  <2> DEFINE left == Left(Head(dcEvents).sent)
  <2>1. left \in Nat /\ \E k, d \in Nat : Sends(queue, left, k, d)
    BY <1>9, ChangeSends
  <2>2. /\ queue \in Seq(RequestOf(PacketBelow(nextSeq)))
        /\ Apart(Tail(dcEvents), queue, retry)
        /\ HeldIn(Tail(dcEvents), queue, retry) \subseteq Everywhere
    BY <1>9, TakesChange DEF HandleBufferedAmountChange
  <2> HIDE DEF left
  <2>3. PICK k, d \in Nat : Sends(queue, left, k, d)
    BY <2>1
  <2> QED
    BY <2>1, <2>2, <2>3, SendsMoves
<1>10. CASE HandleRetryFrom
  <2> DEFINE t == Tail(dcEvents)
  <2>1. PICK m \in Seq(PacketBelow(nextSeq)) :
          /\ dcEvents' = t \o Retried(m)
          /\ \E f \in [1 .. Len(m) -> 1 .. Len(retry)] :
               /\ \A i, j \in 1 .. Len(m) : f[i] = f[j] => i = j
               /\ \A i \in 1 .. Len(m) : m[i] = retry[f[i]]
    BY <1>10, RetryFromPuts
  <2>2. PICK f \in [1 .. Len(m) -> 1 .. Len(retry)] :
               /\ \A i, j \in 1 .. Len(m) : f[i] = f[j] => i = j
               /\ \A i \in 1 .. Len(m) : m[i] = retry[f[i]]
    BY <2>1
  <2>3. dcEvents # <<>> /\ retry' = <<>> /\ UNCHANGED <<queue, buffer, wire, received>>
    BY <1>10 DEF HandleRetryFrom, Handles
  <2>4. t \in Seq(EventBelow(nextSeq)) /\ Apart(t, queue, retry) /\ DataIn(t) \subseteq DataIn(dcEvents)
    BY <1>0, <1>1, <2>3, CutHead, ApartTakeOther, DataOfTail DEF E
  <2> HIDE DEF t
  <2>5. \A i \in 1 .. Len(m) : f[i] \in DOMAIN retry /\ m[i] = retry[f[i]]
    BY <1>0, <2>2, LenProperties
  <2>6. Apart(t \o Retried(m), queue, <<>>)
    BY <1>0, <2>2, <2>4, <2>5, ApartRetry
  <2>7. DataIn(t \o Retried(m)) \subseteq DataIn(t) \cup Range(m)
    BY <1>0, <2>4, DataOfRetried
  <2>8. Range(m) \subseteq Range(retry)
    <3>1. \A e : e \in Range(m) <=> \E i \in 1 .. Len(m) : e = m[i]
      BY RangeIs
    <3> QED
      BY <2>5, <3>1 DEF Range
  <2>9. Range(<<>>) = {}
    BY DEF Range
  <2>10. DataIn(dcEvents') \subseteq Everywhere
    BY <1>2, <2>1, <2>4, <2>7, <2>8
  <2>11. Range(retry') = {}
    BY <2>3, <2>9
  <2>12. Everywhere' \subseteq Everywhere
    BY <1>1, <1>2, <2>3, <2>10, <2>11 DEF All, HeldIn
  <2>13. HeldApart'
    BY <1>1, <2>1, <2>3, <2>6
  <2> QED
    BY <2>12, <2>13
<1>11. CASE CloseSession
  <2>1. dcEvents' = <<>> /\ queue' = <<>> /\ retry' = <<>> /\ UNCHANGED <<buffer, wire, received>>
    BY <1>11 DEF CloseSession
  <2>2. DOMAIN <<>> = {}
    OBVIOUS
  <2>3. Apart(<<>>, <<>>, <<>>) /\ HeldIn(<<>>, <<>>, <<>>) = {}
    BY <2>2 DEF Apart, HeldIn, DataIn, Packets, Range
  <2>4. HeldApart' /\ HeldIn(dcEvents', queue', retry') = {}
    BY <1>1, <2>1, <2>3
  <2>5. Everywhere' \subseteq Everywhere
    BY <1>1, <1>2, <2>1, <2>4 DEF All
  <2> QED
    BY <2>4, <2>5
<1>12. CASE Deliver
  <2>1. wire # <<>> /\ received' = Append(received, Head(wire)) /\ wire' = Tail(wire)
        /\ UNCHANGED <<dcEvents, queue, retry, buffer>>
    BY <1>12 DEF Deliver
  <2>2. Head(wire) \in Range(wire) /\ Range(Tail(wire)) \subseteq Range(wire) /\ Head(wire) \in P
    BY <1>0, <2>1, RangeOfTail, CutHead
  <2>3. Range(Append(received, Head(wire))) = Range(received) \cup {Head(wire)}
    BY <1>0, <2>2, RangeOfAppend
  <2>4. /\ Range(buffer') \subseteq Everywhere /\ Range(wire') \subseteq Everywhere
        /\ Range(received') \subseteq Everywhere
    BY <1>2, <2>1, <2>2, <2>3
  <2> QED
    BY <1>4, <2>1, <2>4
<1>13. ASSUME NEW n \in 1 .. Cardinality(Call), Drain(n)
       PROVE  HeldApart' /\ Everywhere' \subseteq Everywhere
  <2> DEFINE a == SubSeq(buffer, 1, n)
             b == From(buffer, n + 1)
  <2>1. n \in Nat
    BY <1>0, <1>13, LenProperties DEF Drain
  <2>2. a \in Seq(P) /\ n \in 0 .. Len(buffer)
    BY <1>13, <2>1, DrainParts DEF P
  <2>3. Range(a) \subseteq Range(buffer) /\ Range(b) \subseteq Range(buffer)
    BY <1>0, <2>2, RangeOfParts
  <2>4. buffer' = b /\ wire' = wire \o a /\ UNCHANGED <<dcEvents, queue, retry, received>>
    BY <1>13 DEF Drain
  <2> HIDE DEF a, b
  <2>5. Range(wire \o a) = Range(wire) \cup Range(a)
    BY <1>0, <2>2, RangeConcatenation
  <2>6. /\ Range(buffer') \subseteq Everywhere /\ Range(wire') \subseteq Everywhere
        /\ Range(received') \subseteq Everywhere
    BY <1>2, <2>3, <2>4, <2>5
  <2> QED
    BY <1>4, <2>4, <2>6
<1>14. CASE ForwardDrained
  <2> DEFINE e == [type |-> "bufferedAmountChange", sent |-> Head(drained)]
  <2>1. e \in E /\ ~ IsData(e)
    <3>1. Head(drained) \in Nat
      BY <1>0, <1>14, CutHead DEF ForwardDrained
    <3> QED
      BY <3>1 DEF E, EventBelow, IsData
  <2>2. UNCHANGED <<queue, retry, buffer, wire, received>>
        /\ (dcEvents' = Append(dcEvents, e) \/ dcEvents' = dcEvents)
    BY <1>14 DEF ForwardDrained
  <2> HIDE DEF e
  <2> QED
    BY <1>2, <1>3, <1>4, <2>1, <2>2
<1>15. CASE ChannelCloses
  <2>1. buffer' = <<>> /\ UNCHANGED <<dcEvents, queue, retry, wire, received>>
    BY <1>15 DEF ChannelCloses
  <2>2. Range(<<>>) = {}
    BY DEF Range
  <2> QED
    BY <1>2, <1>4, <2>1, <2>2
<1>16. CASE SignalLost
  BY <1>2, <1>4, <1>16 DEF SignalLost
<1>17. ASSUME NEW inFlight \in BOOLEAN, TransportLost(inFlight)
       PROVE  HeldApart' /\ Everywhere' \subseteq Everywhere
  <2>1. (wire' = <<>> \/ wire' = wire) /\ UNCHANGED <<dcEvents, queue, retry, buffer, received>>
    BY <1>17 DEF TransportLost
  <2>2. Range(<<>>) = {}
    BY DEF Range
  <2> QED
    BY <1>2, <1>4, <2>1, <2>2
<1>18. CASE ReconnectionNeeded
  BY <1>2, <1>4, <1>18 DEF ReconnectionNeeded
<1>19. CASE Restart
  <2> DEFINE e == [type |-> "retryFrom", last |-> Highest(received)]
  <2>1. e \in E /\ ~ IsData(e)
    <3>1. Highest(received) \in Nat
      BY TypesAre, HighestIsNat DEF PacketBelow
    <3> QED
      BY <3>1 DEF E, EventBelow, IsData
  <2>2. UNCHANGED <<queue, retry, buffer, wire, received>>
        /\ (dcEvents' = Append(dcEvents, e) \/ dcEvents' = dcEvents)
    BY <1>19 DEF Restart
  <2> HIDE DEF e
  <2> QED
    BY <1>2, <1>3, <1>4, <2>1, <2>2
<1>20. CASE Resumed
  BY <1>2, <1>4, <1>20 DEF Resumed
<1>21. CASE UNCHANGED channelVars
  BY <1>2, <1>4, <1>21 DEF channelVars
<1> QED
  BY <1>5, <1>6, <1>7, <1>8, <1>9, <1>10, <1>11, <1>12, <1>13, <1>14, <1>15,
     <1>16, <1>17, <1>18, <1>19, <1>20, <1>21
     DEF ChannelNext, DataChannelTask, Transport, Reconnection

-----------------------------------------------------------------------------
(* Numbers.                                                                 *)

(* A call never goes back to "idle".                                        *)
LEMMA CallsStay ==
  ASSUME ChannelTypeOK, [ChannelNext]_channelVars
  PROVE  \A c \in Call : call[c] # "idle" => call'[c] # "idle"
<1> USE DEF dcTask, sctp, conn
<1>0. call \in [Call -> {"idle", "waiting", "ok", "err"}]
  BY TypesAre
<1>1. ASSUME NEW requests, NEW buffered, NEW k, NEW d, Sends(requests, buffered, k, d)
      PROVE  \A c \in Call : call[c] # "idle" => call'[c] # "idle"
  <2>1. call' = [c \in Call |-> IF c \in Answered(SubSeq(requests, 1, k))
                                THEN IF open THEN "ok" ELSE "err"
                                ELSE call[c]]
    BY <1>1 DEF Sends
  <2> QED
    BY <1>0, <2>1
<1>2. CASE HandlePublishData
  BY <1>1, <1>2, PublishDataSends
<1>3. CASE HandleBufferedAmountChange
  BY <1>1, <1>3, ChangeSends
<1>4. ASSUME NEW c \in Call, PublishData(c)
      PROVE  \A x \in Call : call[x] # "idle" => call'[x] # "idle"
  BY <1>0, <1>4 DEF PublishData
<1>5. CASE CloseSession
  BY <1>0, <1>5 DEF CloseSession
<1>6. CASE UNCHANGED call
  BY <1>6
<1> QED
  BY <1>2, <1>3, <1>4, <1>5, <1>6
     DEF ChannelNext, DataChannelTask, Transport, Reconnection, SetThreshold,
         HandlePublishPacket, HandleRetryFrom, Drain, Deliver, ForwardDrained, ChannelCloses,
         SignalLost, TransportLost, ReconnectionNeeded, Restart, Resumed, channelVars

(* The calls in the channel of events have no packet yet: that stays so     *)
(* when packets go and calls end ...                                        *)
LEMMA UnnumberedLess ==
  ASSUME NEW events, NEW all, NEW less, NEW before, NEW after, Unnumbered(events, all, before),
         less \subseteq all,
         \A i \in DOMAIN events : events[i].type = "publishPacket" =>
           (before[events[i].call] # "idle" => after[events[i].call] # "idle")
  PROVE  Unnumbered(events, less, after)
BY DEF Unnumbered

(* ... when an event is taken ...                                           *)
LEMMA UnnumberedTail ==
  ASSUME NEW E, NEW events \in Seq(E), events # <<>>, NEW all, NEW calls,
         Unnumbered(events, all, calls)
  PROVE  Unnumbered(Tail(events), all, calls)
<1> DEFINE t == Tail(events)
<1>1. /\ \A i \in DOMAIN t : i + 1 \in DOMAIN events /\ t[i] = events[i + 1] /\ i \in Nat
  BY TailPlaces
<1>2. \A i, j \in DOMAIN t : i + 1 = j + 1 => i = j
  BY <1>1
<1> HIDE DEF t
<1>3. Unnumbered(t, all, calls)
  BY <1>1, <1>2 DEF Unnumbered
<1> QED
  BY <1>3 DEF t

(* ... and numbered ...                                                     *)
LEMMA UnnumberedTake ==
  ASSUME NEW E, NEW events \in Seq(E), events # <<>>, NEW all, NEW calls,
         Head(events).type = "publishPacket", NEW p, p.call = Head(events).call,
         Unnumbered(events, all, calls)
  PROVE  Unnumbered(Tail(events), all \cup {p}, calls)
<1> DEFINE t == Tail(events)
<1>1. /\ 1 \in DOMAIN events /\ Head(events) = events[1]
      /\ \A i \in DOMAIN t : i + 1 \in DOMAIN events /\ t[i] = events[i + 1] /\ i \in Nat
      /\ \A i \in DOMAIN t : i \in 1 .. Len(events) - 1
      /\ Len(events) \in Nat
  BY TailPlaces
<1>2. \A i \in DOMAIN t : i + 1 # 1
  BY <1>1
<1> HIDE DEF t
<1>3. ASSUME NEW i \in DOMAIN t, t[i].type = "publishPacket"
      PROVE  t[i].call # p.call
  BY <1>1, <1>2, <1>3 DEF Unnumbered, IsCallOf
<1>4. Unnumbered(t, all, calls)
  BY UnnumberedTail DEF t
<1>5. Unnumbered(t, all \cup {p}, calls)
  BY <1>3, <1>4 DEF Unnumbered
<1> QED
  BY <1>5 DEF t

(* ... when an event of another kind comes ...                              *)
LEMMA UnnumberedOther ==
  ASSUME NEW E, NEW events \in Seq(E), NEW e \in E, e.type # "publishPacket", NEW all, NEW calls,
         Unnumbered(events, all, calls)
  PROVE  Unnumbered(Append(events, e), all, calls)
<1> DEFINE u == Append(events, e)
<1>1. /\ \A i \in DOMAIN events : u[i] = events[i]
      /\ u[Len(events) + 1] = e
      /\ \A i \in DOMAIN u : i \in DOMAIN events \/ i = Len(events) + 1
  BY AppendPlaces
<1> HIDE DEF u
<1>2. \A i \in DOMAIN u : u[i].type = "publishPacket" => i \in DOMAIN events
  BY <1>1
<1>3. Unnumbered(u, all, calls)
  BY <1>1, <1>2 DEF Unnumbered, IsCallOf
<1> QED
  BY <1>3 DEF u

(* ... when packets come back ...                                           *)
LEMMA UnnumberedRetry ==
  ASSUME NEW n \in Nat, NEW events \in Seq(EventBelow(n)), NEW m \in Seq(PacketBelow(n)),
         NEW all, NEW calls, Unnumbered(events, all, calls)
  PROVE  Unnumbered(events \o Retried(m), all, calls)
<1> DEFINE t == Retried(m)
           u == events \o t
<1>1. /\ t \in Seq(EventBelow(n)) /\ Len(t) = Len(m)
      /\ \A i \in 1 .. Len(m) : t[i].type = "publishData"
  BY RetriedAre
<1> HIDE DEF t
<1>2. \A i \in DOMAIN t : t[i].type = "publishData"
  BY <1>1, LenProperties
<1>3. /\ \A i \in DOMAIN events : u[i] = events[i]
      /\ \A i \in DOMAIN t : u[i + Len(events)] = t[i]
      /\ \A i \in DOMAIN u : i \in DOMAIN events \/ (\E j \in DOMAIN t : i = j + Len(events))
  BY <1>1, BothPlaces
<1> HIDE DEF u
<1>4. \A i \in DOMAIN u : u[i].type = "publishPacket" => i \in DOMAIN events
  BY <1>2, <1>3
<1>5. Unnumbered(u, all, calls)
  BY <1>3, <1>4 DEF Unnumbered, IsCallOf
<1> QED
  BY <1>5 DEF t, u

(* ... and when a call comes that was idle.                                 *)
LEMMA UnnumberedCall ==
  ASSUME NEW E, NEW events \in Seq(E), NEW e \in E, e.type = "publishPacket", NEW all, NEW calls,
         Unnumbered(events, all, calls),
         \A p \in all : p.call # e.call,
         \A i \in DOMAIN events : ~ IsCallOf(events[i], e.call),
         calls[e.call] # "idle"
  PROVE  Unnumbered(Append(events, e), all, calls)
<1> DEFINE u == Append(events, e)
<1>1. /\ \A i \in DOMAIN events : u[i] = events[i]
      /\ u[Len(events) + 1] = e
      /\ \A i \in DOMAIN u : i \in DOMAIN events \/ i = Len(events) + 1
  BY AppendPlaces
<1> HIDE DEF u
<1>2. Unnumbered(u, all, calls)
  BY <1>1 DEF Unnumbered, IsCallOf
<1> QED
  BY <1>2 DEF u

(* A step keeps the numbers.                                                *)
LEMMA NumberingStep ==
  ASSUME ChannelTypeOK, HeldApart, Numbering, [ChannelNext]_channelVars
  PROVE  Numbering'
<1> USE DEF dcTask, sctp, conn
<1> DEFINE P == PacketBelow(nextSeq)
           E == EventBelow(nextSeq)
           idle(c) == call[c] = "idle"
<1>0. /\ nextSeq \in Nat \ {0} /\ nextSeq \in Nat
      /\ dcEvents \in Seq(E) /\ drained \in Seq(Nat)
      /\ Everywhere \subseteq P
      /\ call \in [Call -> {"idle", "waiting", "ok", "err"}]
  BY TypesAre, EverywhereBelow
<1>1. \A c \in Call : call[c] # "idle" => call'[c] # "idle"
  BY CallsStay
<1>2. \A p \in Everywhere : p.call \in Call /\ p.seq < nextSeq /\ p.seq \in Nat
  BY <1>0 DEF PacketBelow
<1>3. \A i \in DOMAIN dcEvents : dcEvents[i].type = "publishPacket" => dcEvents[i].call \in Call
  <2>1. \A i \in DOMAIN dcEvents : dcEvents[i] \in E
    BY <1>0, LenProperties, ElementOfSeq
  <2> QED
    BY <2>1 DEF EventBelow
<1> HIDE DEF P, E
<1>4. /\ Everywhere' \subseteq Everywhere \cup {NewPacket}
      /\ ~ HandlePublishPacket => Everywhere' \subseteq Everywhere
  BY Moves
<1>5. Unnumbered(dcEvents, Everywhere, call)
  BY DEF Numbering, UnnumberedAreNew
<1>6. ASSUME Everywhere' \subseteq Everywhere
      PROVE  OneNumberPerPacket' /\ NumberedWereCalled'
  BY <1>1, <1>2, <1>6 DEF Numbering, OneNumberPerPacket, NumberedWereCalled
<1>7. ASSUME Everywhere' \subseteq Everywhere, Unnumbered(dcEvents', Everywhere, call')
      PROVE  Numbering'
  <2>1. Unnumbered(dcEvents', Everywhere', call')
    BY <1>7, UnnumberedLess
  <2> QED
    BY <1>6, <1>7, <2>1 DEF Numbering, UnnumberedAreNew
<1>8. Unnumbered(dcEvents, Everywhere, call')
  BY <1>1, <1>3, <1>5, UnnumberedLess
<1>9. CASE HandlePublishPacket
  <2> DEFINE e == [type |-> "publishData", reply |-> TRUE, packet |-> NewPacket]
             t == Tail(dcEvents)
             EE == EventBelow(nextSeq + 1)
  <2>1. dcEvents' = Append(t, e) /\ dcEvents # <<>> /\ Head(dcEvents).type = "publishPacket"
        /\ e.type = "publishData" /\ call' = call
    BY <1>9 DEF HandlePublishPacket, Handles, NewPacket
  <2>2. Head(dcEvents) = dcEvents[1] /\ 1 \in DOMAIN dcEvents /\ t \in Seq(E)
        /\ Head(dcEvents) \in E
    BY <1>0, <2>1, CutHead, LenProperties
  <2>3. /\ NewPacket.call = Head(dcEvents).call /\ NewPacket.seq = nextSeq
        /\ NewPacket.call \in Call
        /\ NewPacket = [seq |-> nextSeq, call |-> NewPacket.call]
    BY <1>3, <2>1, <2>2 DEF NewPacket
  <2>4. e \in EE
    <3>1. NewPacket \in PacketBelow(nextSeq + 1)
      BY <1>0, <2>3 DEF PacketBelow
    <3> QED
      BY <3>1 DEF EventBelow
  <2>5. t \in Seq(EE)
    <3>1. PacketBelow(nextSeq) \subseteq PacketBelow(nextSeq + 1)
      BY <1>0 DEF PacketBelow
    <3>2. E \subseteq EE
      BY <3>1 DEF E, EventBelow
    <3> QED
      BY <2>2, <3>2, SeqMonotonic
  <2>6. /\ call[NewPacket.call] # "idle"
        /\ \A p \in Everywhere : p.call # NewPacket.call /\ p.seq # NewPacket.seq
    <3>1. call[NewPacket.call] # "idle" /\ \A p \in Everywhere : p.call # NewPacket.call
      BY <1>5, <2>1, <2>2, <2>3 DEF Unnumbered
    <3>2. \A p \in Everywhere : p.seq # NewPacket.seq
      BY <1>0, <1>2, <2>3
    <3> QED
      BY <3>1, <3>2
  <2>7. Unnumbered(t, Everywhere \cup {NewPacket}, call)
    BY <1>0, <1>5, <2>1, <2>3, UnnumberedTake
  <2> HIDE DEF e, t, EE
  <2>8. Unnumbered(Append(t, e), Everywhere \cup {NewPacket}, call)
    BY <2>1, <2>4, <2>5, <2>7, UnnumberedOther
  <2>9. Unnumbered(dcEvents', Everywhere', call')
    BY <1>4, <2>1, <2>8, UnnumberedLess
  <2>10. OneNumberPerPacket'
    <3>1. \A p, q \in Everywhere \cup {NewPacket} : p.seq = q.seq <=> p.call = q.call
      BY <2>6 DEF Numbering, OneNumberPerPacket
    <3> QED
      BY <1>4, <3>1 DEF OneNumberPerPacket
  <2>11. NumberedWereCalled'
    <3>1. \A p \in Everywhere \cup {NewPacket} : call[p.call] # "idle"
      BY <2>6 DEF Numbering, NumberedWereCalled
    <3> QED
      BY <1>4, <2>1, <3>1 DEF NumberedWereCalled
  <2> QED
    BY <2>9, <2>10, <2>11 DEF Numbering, UnnumberedAreNew
<1>10. ASSUME NEW c \in Call, PublishData(c)
       PROVE  Numbering'
  <2> DEFINE e == [type |-> "publishPacket", call |-> c]
  <2>1. /\ e \in E /\ e.type = "publishPacket" /\ e.call = c
    BY DEF E, EventBelow
  <2>2. dcEvents' = Append(dcEvents, e) /\ call[c] = "idle" /\ call'[c] = "waiting"
    BY <1>0, <1>10 DEF PublishData
  <2> HIDE DEF e
  <2>3. \A p \in Everywhere : p.call # e.call
    BY <2>1, <2>2 DEF Numbering, NumberedWereCalled
  <2>4. \A i \in DOMAIN dcEvents : ~ IsCallOf(dcEvents[i], e.call)
    BY <1>5, <2>1, <2>2 DEF Unnumbered, IsCallOf
  <2>5. Unnumbered(Append(dcEvents, e), Everywhere, call')
    BY <1>0, <1>8, <2>1, <2>2, <2>3, <2>4, UnnumberedCall
  <2>6. ~ HandlePublishPacket
    <3>1. Len(dcEvents') = Len(dcEvents) + 1 /\ Len(dcEvents) \in Nat
      BY <1>0, <2>1, <2>2, AppendProperties, LenProperties
    <3>2. nextSeq' = nextSeq
      BY <1>10 DEF PublishData
    <3> QED
      BY <1>0, <3>2 DEF HandlePublishPacket
  <2> QED
    BY <1>4, <1>7, <2>2, <2>5, <2>6
<1>11. ASSUME NEW e \in E, e.type # "publishPacket", dcEvents' = Append(dcEvents, e)
       PROVE  Unnumbered(dcEvents', Everywhere, call')
  BY <1>0, <1>8, <1>11, UnnumberedOther
<1>12. CASE HandlePublishData \/ HandleBufferedAmountChange
  <2>1. dcEvents # <<>> /\ dcEvents' = Tail(dcEvents) /\ nextSeq' = nextSeq
    BY <1>12 DEF HandlePublishData, HandleBufferedAmountChange, Handles, handlerUnchanged
  <2>2. Unnumbered(dcEvents', Everywhere, call')
    BY <1>0, <1>8, <2>1, UnnumberedTail
  <2>3. ~ HandlePublishPacket
    BY <1>0, <2>1 DEF HandlePublishPacket
  <2> QED
    BY <1>4, <1>7, <2>2, <2>3
<1>13. CASE HandleRetryFrom
  <2>1. PICK m \in Seq(PacketBelow(nextSeq)) : dcEvents' = Tail(dcEvents) \o Retried(m)
    BY <1>13, RetryFromPuts
  <2>2. dcEvents # <<>> /\ nextSeq' = nextSeq
    BY <1>13 DEF HandleRetryFrom, Handles
  <2> DEFINE t == Tail(dcEvents)
  <2>3. t \in Seq(EventBelow(nextSeq)) /\ Unnumbered(t, Everywhere, call')
    BY <1>0, <1>8, <2>2, UnnumberedTail, CutHead DEF E
  <2> HIDE DEF t
  <2>4. Unnumbered(t \o Retried(m), Everywhere, call')
    BY <1>0, <2>3, UnnumberedRetry
  <2>5. ~ HandlePublishPacket
    BY <1>0, <2>2 DEF HandlePublishPacket
  <2> QED
    BY <1>4, <1>7, <2>1, <2>4, <2>5 DEF t
<1>14. CASE CloseSession
  <2>1. dcEvents' = <<>> /\ nextSeq' = nextSeq
    BY <1>14 DEF CloseSession
  <2>2. ~ HandlePublishPacket
    BY <1>0, <2>1 DEF HandlePublishPacket
  <2>3. Unnumbered(dcEvents', Everywhere, call')
    BY <2>1 DEF Unnumbered
  <2> QED
    BY <1>4, <1>7, <2>2, <2>3
<1>15. CASE ForwardDrained \/ Restart
  <2>1. nextSeq' = nextSeq
    BY <1>15 DEF ForwardDrained, Restart
  <2>2. \/ dcEvents' = dcEvents
        \/ \E e \in E : e.type # "publishPacket" /\ dcEvents' = Append(dcEvents, e)
    <3>1. CASE ForwardDrained
      <4> DEFINE e == [type |-> "bufferedAmountChange", sent |-> Head(drained)]
      <4>1. Head(drained) \in Nat
        BY <1>0, <3>1, CutHead DEF ForwardDrained
      <4>2. e \in E /\ e.type # "publishPacket"
        BY <4>1 DEF E, EventBelow
      <4>3. dcEvents' = Append(dcEvents, e) \/ dcEvents' = dcEvents
        BY <3>1 DEF ForwardDrained
      <4> QED
        BY <4>2, <4>3
    <3>2. CASE Restart
      <4> DEFINE e == [type |-> "retryFrom", last |-> Highest(received)]
      <4>1. Highest(received) \in Nat
        BY TypesAre, HighestIsNat DEF PacketBelow
      <4>2. e \in E /\ e.type # "publishPacket"
        BY <4>1 DEF E, EventBelow
      <4>3. dcEvents' = Append(dcEvents, e) \/ dcEvents' = dcEvents
        BY <3>2 DEF Restart
      <4> QED
        BY <4>2, <4>3
    <3> QED
      BY <1>15, <3>1, <3>2
  <2>3. Unnumbered(dcEvents', Everywhere, call')
    BY <1>8, <1>11, <2>2
  <2>4. ~ HandlePublishPacket
    BY <1>0, <2>1 DEF HandlePublishPacket
  <2> QED
    BY <1>4, <1>7, <2>3, <2>4
<1>16. CASE UNCHANGED <<dcEvents, nextSeq>>
  <2>1. ~ HandlePublishPacket
    BY <1>0, <1>16 DEF HandlePublishPacket
  <2> QED
    BY <1>4, <1>7, <1>8, <1>16, <2>1
<1> QED
  BY <1>9, <1>10, <1>12, <1>13, <1>14, <1>15, <1>16
     DEF ChannelNext, DataChannelTask, Transport, Reconnection, SetThreshold,
         Drain, Deliver, ChannelCloses,
         SignalLost, TransportLost, ReconnectionNeeded, Resumed, channelVars

-----------------------------------------------------------------------------
(* Requests pending for a call.                                             *)

(* What the head asks for, and the rest.                                    *)
LEMMA AsksTail ==
  ASSUME NEW E, NEW events \in Seq(E), events # <<>>, NEW requests, NEW c
  PROVE  Asks(events, requests, c) <=> (AskedBy(Head(events), c) \/ Asks(Tail(events), requests, c))
<1> DEFINE t == Tail(events)
<1>1. /\ 1 \in DOMAIN events /\ Head(events) = events[1]
      /\ \A i \in DOMAIN t : i + 1 \in DOMAIN events /\ t[i] = events[i + 1]
      /\ \A i \in DOMAIN events : i # 1 => i - 1 \in DOMAIN t /\ events[i] = t[i - 1]
  BY TailPlaces
<1> HIDE DEF t
<1>2. Asks(events, requests, c) <=> AskedBy(Head(events), c) \/ Asks(t, requests, c)
  BY <1>1 DEF Asks
<1> QED
  BY <1>2 DEF t

(* Appending an event adds what it asks for.                                *)
LEMMA AsksAppend ==
  ASSUME NEW E, NEW events \in Seq(E), NEW e \in E, NEW requests, NEW c
  PROVE  Asks(Append(events, e), requests, c) <=> (Asks(events, requests, c) \/ AskedBy(e, c))
<1> DEFINE u == Append(events, e)
<1>1. /\ \A i \in DOMAIN events : i \in DOMAIN u /\ u[i] = events[i]
      /\ u[Len(events) + 1] = e /\ Len(events) + 1 \in DOMAIN u
      /\ \A i \in DOMAIN u : i \in DOMAIN events \/ i = Len(events) + 1
  BY AppendPlaces
<1> HIDE DEF u
<1>2. Asks(u, requests, c) <=> Asks(events, requests, c) \/ AskedBy(e, c)
  BY <1>1 DEF Asks
<1> QED
  BY <1>2 DEF u

(* A request behind the queue adds what it asks for.                        *)
LEMMA AsksQueued ==
  ASSUME NEW R, NEW events, NEW requests \in Seq(R), NEW r \in R, NEW c
  PROVE  Asks(events, Append(requests, r), c) <=> (Asks(events, requests, c) \/ Wants(r, c))
<1> DEFINE u == Append(requests, r)
<1>1. /\ \A i \in DOMAIN requests : i \in DOMAIN u /\ u[i] = requests[i]
      /\ u[Len(requests) + 1] = r /\ Len(requests) + 1 \in DOMAIN u
      /\ \A i \in DOMAIN u : i \in DOMAIN requests \/ i = Len(requests) + 1
  BY AppendPlaces
<1> HIDE DEF u
<1>2. Asks(events, u, c) <=> Asks(events, requests, c) \/ Wants(r, c)
  BY <1>1 DEF Asks
<1> QED
  BY <1>2 DEF u

(* What is retried asks for nothing: it was answered when it was sent.      *)
LEMMA AsksRetried ==
  ASSUME NEW n \in Nat, NEW events \in Seq(EventBelow(n)), NEW m \in Seq(PacketBelow(n)),
         NEW requests, NEW c
  PROVE  Asks(events \o Retried(m), requests, c) <=> Asks(events, requests, c)
<1> DEFINE t == Retried(m)
           u == events \o t
<1>1. /\ t \in Seq(EventBelow(n)) /\ Len(t) = Len(m)
      /\ \A i \in 1 .. Len(m) : t[i].type = "publishData" /\ t[i].reply = FALSE
  BY RetriedAre
<1> HIDE DEF t
<1>2. \A i \in DOMAIN t : ~ AskedBy(t[i], c)
  BY <1>1, LenProperties DEF AskedBy, IsCallOf, Wants
<1>3. /\ \A i \in DOMAIN events : i \in DOMAIN u /\ u[i] = events[i]
      /\ \A i \in DOMAIN t : u[i + Len(events)] = t[i]
      /\ \A i \in DOMAIN u : i \in DOMAIN events \/ (\E j \in DOMAIN t : i = j + Len(events))
  BY <1>1, BothPlaces
<1> HIDE DEF u
<1>4. (\E i \in DOMAIN u : AskedBy(u[i], c)) <=> (\E i \in DOMAIN events : AskedBy(events[i], c))
  BY <1>2, <1>3
<1>5. Asks(u, requests, c) <=> Asks(events, requests, c)
  BY <1>4 DEF Asks
<1> QED
  BY <1>5 DEF t, u

(* What is sent is answered; the rest still asks.                           *)
LEMMA AsksSent ==
  ASSUME NEW P, NEW events, NEW requests \in Seq(RequestOf(P)), NEW k \in 0 .. Len(requests), NEW c
  PROVE  Asks(events, requests, c) <=>
           (c \in Answered(SubSeq(requests, 1, k)) \/ Asks(events, From(requests, k + 1), c))
<1> DEFINE a == SubSeq(requests, 1, k)
           b == From(requests, k + 1)
<1>1. a \in Seq(RequestOf(P)) /\ b \in Seq(RequestOf(P)) /\ requests = a \o b
  BY Cut
<1> HIDE DEF a, b
<1>2. /\ \A i \in DOMAIN a : i \in DOMAIN requests /\ requests[i] = a[i]
      /\ \A i \in DOMAIN b : i + Len(a) \in DOMAIN requests /\ requests[i + Len(a)] = b[i]
      /\ \A i \in DOMAIN requests : i \in DOMAIN a \/ (\E j \in DOMAIN b : i = j + Len(a))
  BY <1>1, BothPlaces
<1>3. c \in Answered(a) <=> \E i \in DOMAIN a : Wants(a[i], c)
  BY DEF Answered, Wants
<1>4. (\E i \in DOMAIN requests : Wants(requests[i], c)) <=>
        (\E i \in DOMAIN a : Wants(a[i], c)) \/ (\E i \in DOMAIN b : Wants(b[i], c))
  BY <1>2
<1>5. Asks(events, requests, c) <=> c \in Answered(a) \/ Asks(events, b, c)
  BY <1>3, <1>4 DEF Asks
<1> QED
  BY <1>5 DEF a, b

(* A call has one packet.                                                   *)
OneEach(all) == \A p, q \in all : p.call = q.call => p = q

(* One number for each packet means one packet for each call.               *)
LEMMA NumberingIsOneEach ==
  ASSUME ChannelTypeOK, OneNumberPerPacket
  PROVE  OneEach(Everywhere)
<1>1. \A p \in Everywhere : p = [seq |-> p.seq, call |-> p.call]
  BY EverywhereBelow DEF PacketBelow
<1> QED
  BY <1>1 DEF OneEach, OneNumberPerPacket

(* A call that is answered has no other request.                            *)
LEMMA AnsweredOnce ==
  ASSUME NEW P, NEW events, NEW requests \in Seq(RequestOf(P)), NEW retries,
         NEW k \in 0 .. Len(requests), NEW all, NEW calls,
         Apart(events, requests, retries), Unnumbered(events, all, calls), OneEach(all),
         HeldIn(events, requests, retries) \subseteq all,
         NEW c \in Answered(SubSeq(requests, 1, k))
  PROVE  ~ Asks(events, From(requests, k + 1), c)
<1> DEFINE a == SubSeq(requests, 1, k)
           b == From(requests, k + 1)
<1>1. a \in Seq(RequestOf(P)) /\ b \in Seq(RequestOf(P)) /\ requests = a \o b
  BY Cut
<1> HIDE DEF a, b
<1>2. /\ \A i \in DOMAIN a : i \in DOMAIN requests /\ requests[i] = a[i]
      /\ \A i \in DOMAIN b : i + Len(a) \in DOMAIN requests /\ requests[i + Len(a)] = b[i]
      /\ DOMAIN a = 1 .. Len(a) /\ DOMAIN b = 1 .. Len(b) /\ Len(a) \in Nat
  BY <1>1, BothPlaces
<1>3. PICK i \in DOMAIN a : Wants(a[i], c)
  BY DEF Answered, Wants, a
<1>4. i \in DOMAIN requests /\ requests[i].packet.call = c
  BY <1>2, <1>3 DEF Wants
<1>5. /\ \A j \in DOMAIN requests : requests[j].packet \in all
      /\ \A j \in DOMAIN events : IsData(events[j]) => events[j].packet \in all
  BY DEF HeldIn, DataIn, Packets, Range
<1>6. ASSUME NEW j \in DOMAIN b, Wants(b[j], c) PROVE FALSE
  <2>1. j + Len(a) \in DOMAIN requests /\ requests[j + Len(a)].packet.call = c
    BY <1>2, <1>6 DEF Wants
  <2>2. requests[j + Len(a)].packet = requests[i].packet
    BY <1>4, <1>5, <2>1 DEF OneEach
  <2>3. j + Len(a) # i
    BY <1>2
  <2> QED
    BY <1>4, <2>1, <2>2, <2>3 DEF Apart
<1>7. ASSUME NEW j \in DOMAIN events, AskedBy(events[j], c) PROVE FALSE
  <2>1. CASE IsCallOf(events[j], c)
    BY <1>4, <1>5, <2>1 DEF Unnumbered, IsCallOf
  <2>2. CASE IsData(events[j]) /\ Wants(events[j], c)
    <3>1. events[j].packet = requests[i].packet
      BY <1>4, <1>5, <2>2 DEF OneEach, Wants
    <3> QED
      BY <1>4, <2>2, <3>1 DEF Apart
  <2> QED
    BY <1>7, <2>1, <2>2 DEF AskedBy
<1>8. ~ Asks(events, b, c)
  BY <1>6, <1>7 DEF Asks
<1> QED
  BY <1>8 DEF b

(* A step that sends answers the calls that it sends for, and no others.    *)
LEMMA SendsAsk ==
  ASSUME ChannelTypeOK, NEW requests \in Seq(RequestOf(PacketBelow(nextSeq))),
         NEW buffered \in Nat, NEW k \in Nat, NEW d \in Nat,
         Sends(requests, buffered, k, d),
         Apart(Tail(dcEvents), requests, retry),
         HeldIn(Tail(dcEvents), requests, retry) \subseteq Everywhere,
         Unnumbered(Tail(dcEvents), Everywhere, call), OneEach(Everywhere),
         \A c \in Call : call[c] = "waiting" <=> Asks(Tail(dcEvents), requests, c)
  PROVE  WaitersAsk'
<1> DEFINE P == PacketBelow(nextSeq)
           sent == SubSeq(requests, 1, k)
           rest == From(requests, k + 1)
           events == Tail(dcEvents)
<1> HIDE DEF P
<1>1. k \in 0 .. Len(requests) /\ requests \in Seq(RequestOf(P))
  BY DEF Sends, P
<1>2. /\ queue' = rest
      /\ dcEvents' = events
      /\ call' = [c \in Call |-> IF c \in Answered(sent)
                                 THEN IF open THEN "ok" ELSE "err"
                                 ELSE call[c]]
  BY DEF Sends
<1> HIDE DEF events
<1>3. /\ Apart(events, requests, retry) /\ HeldIn(events, requests, retry) \subseteq Everywhere
      /\ Unnumbered(events, Everywhere, call)
      /\ \A c \in Call : call[c] = "waiting" <=> Asks(events, requests, c)
  BY DEF events
<1>4. \A c \in Answered(sent) : ~ Asks(events, rest, c)
  BY <1>1, <1>3, AnsweredOnce
<1>5. \A c \in Call : Asks(events, requests, c) <=> (c \in Answered(sent) \/ Asks(events, rest, c))
  BY <1>1, AsksSent
<1> HIDE DEF sent, rest
<1>6. \A c \in Call : call'[c] = "waiting" <=> Asks(events, rest, c)
  <2> TAKE c \in Call
  <2>1. CASE c \in Answered(sent)
    BY <1>2, <1>4, <2>1
  <2>2. CASE c \notin Answered(sent)
    BY <1>2, <1>3, <1>5, <2>2
  <2> QED
    BY <2>1, <2>2
<1> QED
  BY <1>2, <1>6 DEF WaitersAsk

(* A step keeps the requests of the calls that wait, and makes no others.   *)
LEMMA WaitersStep ==
  ASSUME ChannelTypeOK, HeldApart, Numbering, WaitersAsk, [ChannelNext]_channelVars
  PROVE  WaitersAsk'
<1> USE DEF dcTask, sctp, conn
<1> DEFINE P == PacketBelow(nextSeq)
           E == EventBelow(nextSeq)
<1>0. /\ nextSeq \in Nat /\ amount \in Nat
      /\ dcEvents \in Seq(E) /\ drained \in Seq(Nat) /\ queue \in Seq(RequestOf(P))
      /\ call \in [Call -> {"idle", "waiting", "ok", "err"}]
  BY TypesAre
<1>1. OneEach(Everywhere) /\ Unnumbered(dcEvents, Everywhere, call)
  BY NumberingIsOneEach DEF Numbering, UnnumberedAreNew
<1>2. \A c \in Call : call[c] = "waiting" <=> Asks(dcEvents, queue, c)
  BY DEF WaitersAsk
<1> HIDE DEF P, E
<1>3. ASSUME UNCHANGED <<dcEvents, queue, call>>
      PROVE  WaitersAsk'
  BY <1>2, <1>3 DEF WaitersAsk
<1>4. ASSUME NEW e \in E, \A c \in Call : ~ AskedBy(e, c), dcEvents' = Append(dcEvents, e),
             UNCHANGED <<queue, call>>
      PROVE  WaitersAsk'
  <2>1. \A c \in Call : Asks(Append(dcEvents, e), queue, c) <=> Asks(dcEvents, queue, c)
    BY <1>0, <1>4, AsksAppend
  <2> QED
    BY <1>2, <1>4, <2>1 DEF WaitersAsk
<1>5. ASSUME NEW c \in Call, PublishData(c)
      PROVE  WaitersAsk'
  <2> DEFINE e == [type |-> "publishPacket", call |-> c]
  <2>1. e \in E /\ \A x : AskedBy(e, x) <=> x = c
    BY DEF E, EventBelow, AskedBy, IsCallOf, IsData
  <2>2. dcEvents' = Append(dcEvents, e) /\ call' = [call EXCEPT ![c] = "waiting"] /\ queue' = queue
    BY <1>5 DEF PublishData
  <2> HIDE DEF e
  <2>3. \A x \in Call : Asks(Append(dcEvents, e), queue, x) <=> (Asks(dcEvents, queue, x) \/ x = c)
    BY <1>0, <2>1, AsksAppend
  <2>4. \A x \in Call : call'[x] = IF x = c THEN "waiting" ELSE call[x]
    BY <1>0, <2>2
  <2> QED
    BY <1>2, <2>2, <2>3, <2>4 DEF WaitersAsk
<1>6. CASE HandlePublishPacket
  <2> DEFINE e == [type |-> "publishData", reply |-> TRUE, packet |-> NewPacket]
             t == Tail(dcEvents)
             EE == EventBelow(nextSeq + 1)
  <2>1. dcEvents' = Append(t, e) /\ dcEvents # <<>> /\ Head(dcEvents).type = "publishPacket"
        /\ UNCHANGED <<queue, call>>
    BY <1>6 DEF HandlePublishPacket, Handles, NewPacket
  <2>2. t \in Seq(E) /\ Head(dcEvents) \in E /\ Head(dcEvents).call \in Call
    BY <1>0, <2>1, CutHead DEF E, EventBelow
  <2>3. e \in EE
    <3>1. NewPacket \in PacketBelow(nextSeq + 1)
      <4>1. nextSeq \in Nat \ {0}
        BY TypesAre
      <4> QED
        BY <2>2, <4>1 DEF PacketBelow, NewPacket
    <3> QED
      BY <3>1 DEF EventBelow
  <2>4. t \in Seq(EE)
    <3>1. PacketBelow(nextSeq) \subseteq PacketBelow(nextSeq + 1)
      BY <1>0 DEF PacketBelow
    <3>2. E \subseteq EE
      BY <3>1 DEF E, EventBelow
    <3> QED
      BY <2>2, <3>2, SeqMonotonic
  <2>5. \A c : AskedBy(e, c) <=> AskedBy(Head(dcEvents), c)
    BY <2>1 DEF AskedBy, IsCallOf, IsData, Wants, NewPacket
  <2>6. \A c : Asks(dcEvents, queue, c) <=> (AskedBy(Head(dcEvents), c) \/ Asks(t, queue, c))
    BY <1>0, <2>1, AsksTail
  <2> HIDE DEF e, t, EE
  <2>7. \A c : Asks(Append(t, e), queue, c) <=> (Asks(t, queue, c) \/ AskedBy(e, c))
    BY <2>3, <2>4, AsksAppend
  <2>8. \A c \in Call : call[c] = "waiting" <=> Asks(Append(t, e), queue, c)
    BY <1>2, <2>5, <2>6, <2>7
  <2> QED
    BY <2>1, <2>8 DEF WaitersAsk
<1>7. CASE HandlePublishData
  <2> DEFINE requests == Append(queue, Request)
  <2>1. PICK k \in Nat : Sends(requests, amount, k, 0)
    BY <1>7, PublishDataSends
  <2>2. /\ requests \in Seq(RequestOf(PacketBelow(nextSeq)))
        /\ Apart(Tail(dcEvents), requests, retry)
        /\ HeldIn(Tail(dcEvents), requests, retry) \subseteq Everywhere
    BY <1>7, TakesData DEF HandlePublishData
  <2>3. /\ dcEvents # <<>> /\ Head(dcEvents).type = "publishData"
        /\ Request \in RequestOf(P)
    BY <1>7, RequestQueued DEF HandlePublishData, Handles, P
  <2>4. Unnumbered(Tail(dcEvents), Everywhere, call)
    BY <1>0, <1>1, <2>3, UnnumberedTail
  <2>5. \A c : Asks(dcEvents, queue, c) <=> (AskedBy(Head(dcEvents), c) \/ Asks(Tail(dcEvents), queue, c))
    BY <1>0, <2>3, AsksTail
  <2>6. \A c : Asks(Tail(dcEvents), requests, c) <=> (Asks(Tail(dcEvents), queue, c) \/ Wants(Request, c))
    BY <1>0, <2>3, AsksQueued
  <2>7. \A c : Wants(Request, c) <=> AskedBy(Head(dcEvents), c)
    BY <2>3 DEF Wants, AskedBy, IsCallOf, IsData, Request
  <2> HIDE DEF requests
  <2>8. \A c \in Call : call[c] = "waiting" <=> Asks(Tail(dcEvents), requests, c)
    BY <1>2, <2>5, <2>6, <2>7
  <2> QED
    BY <1>0, <1>1, <2>1, <2>2, <2>4, <2>8, SendsAsk
<1>8. CASE HandleBufferedAmountChange
  <2> DEFINE left == Left(Head(dcEvents).sent)
  <2>1. left \in Nat /\ \E k, d \in Nat : Sends(queue, left, k, d)
    BY <1>8, ChangeSends
  <2>2. /\ queue \in Seq(RequestOf(PacketBelow(nextSeq)))
        /\ Apart(Tail(dcEvents), queue, retry)
        /\ HeldIn(Tail(dcEvents), queue, retry) \subseteq Everywhere
    BY <1>8, TakesChange DEF HandleBufferedAmountChange
  <2>3. dcEvents # <<>> /\ Head(dcEvents).type = "bufferedAmountChange"
    BY <1>8 DEF HandleBufferedAmountChange, Handles
  <2>4. Unnumbered(Tail(dcEvents), Everywhere, call)
    BY <1>0, <1>1, <2>3, UnnumberedTail
  <2>5. \A c : Asks(dcEvents, queue, c) <=> (AskedBy(Head(dcEvents), c) \/ Asks(Tail(dcEvents), queue, c))
    BY <1>0, <2>3, AsksTail
  <2>6. \A c : ~ AskedBy(Head(dcEvents), c)
    BY <2>3 DEF AskedBy, IsCallOf, IsData
  <2> HIDE DEF left
  <2>7. PICK k, d \in Nat : Sends(queue, left, k, d)
    BY <2>1
  <2>8. \A c \in Call : call[c] = "waiting" <=> Asks(Tail(dcEvents), queue, c)
    BY <1>2, <2>5, <2>6
  <2> QED
    BY <1>1, <2>1, <2>2, <2>4, <2>7, <2>8, SendsAsk
<1>9. CASE HandleRetryFrom
  <2> DEFINE t == Tail(dcEvents)
  <2>1. PICK m \in Seq(PacketBelow(nextSeq)) : dcEvents' = t \o Retried(m)
    BY <1>9, RetryFromPuts
  <2>2. dcEvents # <<>> /\ Head(dcEvents).type = "retryFrom" /\ UNCHANGED <<queue, call>>
    BY <1>9 DEF HandleRetryFrom, Handles
  <2>3. t \in Seq(EventBelow(nextSeq))
    BY <1>0, <2>2, CutHead DEF E
  <2>4. \A c : Asks(dcEvents, queue, c) <=> (AskedBy(Head(dcEvents), c) \/ Asks(t, queue, c))
    BY <1>0, <2>2, AsksTail
  <2>5. \A c : ~ AskedBy(Head(dcEvents), c)
    BY <2>2 DEF AskedBy, IsCallOf, IsData
  <2> HIDE DEF t
  <2>6. \A c : Asks(t \o Retried(m), queue, c) <=> Asks(t, queue, c)
    BY <1>0, <2>3, AsksRetried
  <2>7. \A c \in Call : call[c] = "waiting" <=> Asks(t \o Retried(m), queue, c)
    BY <1>2, <2>4, <2>5, <2>6
  <2> QED
    BY <2>1, <2>2, <2>7 DEF WaitersAsk
<1>10. CASE CloseSession
  <2>1. dcEvents' = <<>> /\ queue' = <<>> /\ \A c \in Call : call'[c] # "waiting"
    BY <1>0, <1>10 DEF CloseSession
  <2>2. \A c : ~ Asks(<<>>, <<>>, c)
    BY DEF Asks
  <2> QED
    BY <2>1, <2>2 DEF WaitersAsk
<1>11. CASE ForwardDrained
  <2> DEFINE e == [type |-> "bufferedAmountChange", sent |-> Head(drained)]
  <2>1. Head(drained) \in Nat
    BY <1>0, <1>11, CutHead DEF ForwardDrained
  <2>2. e \in E /\ \A c : ~ AskedBy(e, c)
    BY <2>1 DEF E, EventBelow, AskedBy, IsCallOf, IsData
  <2>3. (dcEvents' = Append(dcEvents, e) \/ dcEvents' = dcEvents) /\ UNCHANGED <<queue, call>>
    BY <1>11 DEF ForwardDrained
  <2> HIDE DEF e
  <2> QED
    BY <1>3, <1>4, <2>2, <2>3
<1>12. CASE Restart
  <2> DEFINE e == [type |-> "retryFrom", last |-> Highest(received)]
  <2>1. Highest(received) \in Nat
    BY TypesAre, HighestIsNat DEF PacketBelow
  <2>2. e \in E /\ \A c : ~ AskedBy(e, c)
    BY <2>1 DEF E, EventBelow, AskedBy, IsCallOf, IsData
  <2>3. (dcEvents' = Append(dcEvents, e) \/ dcEvents' = dcEvents) /\ UNCHANGED <<queue, call>>
    BY <1>12 DEF Restart
  <2> HIDE DEF e
  <2> QED
    BY <1>3, <1>4, <2>2, <2>3
<1> QED
  BY <1>3, <1>5, <1>6, <1>7, <1>8, <1>9, <1>10, <1>11, <1>12
     DEF ChannelNext, DataChannelTask, Transport, Reconnection, SetThreshold,
         Drain, Deliver, ChannelCloses,
         SignalLost, TransportLost, ReconnectionNeeded, Resumed, channelVars

(* A call that waits has one pending request, and any other has none.       *)
LEMMA WaitersHaveOne ==
  ASSUME ChannelTypeOK, HeldApart, Numbering, WaitersAsk
  PROVE  WaitingIsPending
<1>1. OneEach(Everywhere) /\ Unnumbered(dcEvents, Everywhere, call)
      /\ Apart(dcEvents, queue, retry)
      /\ Everywhere = All(dcEvents, queue, retry, buffer, wire, received)
  BY NumberingIsOneEach, EverywhereIs DEF Numbering, UnnumberedAreNew, HeldApart
<1>2. /\ \A j \in DOMAIN queue : queue[j].packet \in Everywhere
      /\ \A j \in DOMAIN dcEvents : IsData(dcEvents[j]) => dcEvents[j].packet \in Everywhere
  BY <1>1 DEF All, HeldIn, DataIn, Packets, Range
<1>3. ASSUME NEW c \in Call
      PROVE  Cardinality(Pending(c)) = (IF call[c] = "waiting" THEN 1 ELSE 0)
  <2>1. \A at \in Pending(c) :
          \/ \E i \in DOMAIN dcEvents : IsCallOf(dcEvents[i], c) /\ at = <<"dcEvents", i>>
          \/ \E i \in DOMAIN dcEvents : /\ IsData(dcEvents[i]) /\ Wants(dcEvents[i], c)
                                       /\ at = <<"dcEvents", i>>
          \/ \E i \in DOMAIN queue : Wants(queue[i], c) /\ at = <<"queue", i>>
    BY DEF Pending, IsCallOf, IsData, Wants
  <2>2. Asks(dcEvents, queue, c) => Pending(c) # {}
    <3>1. ASSUME NEW i \in DOMAIN dcEvents, AskedBy(dcEvents[i], c)
          PROVE  <<"dcEvents", i>> \in Pending(c)
      BY <3>1 DEF AskedBy, IsCallOf, IsData, Wants, Pending
    <3>2. ASSUME NEW i \in DOMAIN queue, Wants(queue[i], c)
          PROVE  <<"queue", i>> \in Pending(c)
      BY <3>2 DEF Wants, Pending
    <3> QED
      BY <3>1, <3>2 DEF Asks
  <2>3. Pending(c) # {} => Asks(dcEvents, queue, c)
    BY <2>1 DEF Asks, AskedBy
  <2>4. ASSUME NEW a \in Pending(c), NEW b \in Pending(c) PROVE a = b
    <3>1. CASE \E i \in DOMAIN dcEvents : IsCallOf(dcEvents[i], c) /\ a = <<"dcEvents", i>>
      <4>1. PICK i \in DOMAIN dcEvents : IsCallOf(dcEvents[i], c) /\ a = <<"dcEvents", i>>
        BY <3>1
      <4>2. /\ \A p \in Everywhere : p.call # c
            /\ \A j \in DOMAIN dcEvents : IsCallOf(dcEvents[j], c) => i = j
        BY <1>1, <4>1 DEF Unnumbered, IsCallOf
      <4> QED
        BY <1>2, <2>1, <4>1, <4>2 DEF Wants
    <3>2. CASE \E i \in DOMAIN dcEvents : /\ IsData(dcEvents[i]) /\ Wants(dcEvents[i], c)
                                         /\ a = <<"dcEvents", i>>
      <4>1. PICK i \in DOMAIN dcEvents : /\ IsData(dcEvents[i]) /\ Wants(dcEvents[i], c)
                                         /\ a = <<"dcEvents", i>>
        BY <3>2
      <4>2. dcEvents[i].packet \in Everywhere /\ dcEvents[i].packet.call = c
        BY <1>2, <4>1 DEF Wants
      <4>3. \A j \in DOMAIN dcEvents : ~ IsCallOf(dcEvents[j], c)
        BY <1>1, <4>2 DEF Unnumbered, IsCallOf
      <4>4. ASSUME NEW j \in DOMAIN dcEvents, IsData(dcEvents[j]), Wants(dcEvents[j], c)
            PROVE  i = j
        <5>1. dcEvents[j].packet = dcEvents[i].packet
          BY <1>1, <1>2, <4>2, <4>4 DEF OneEach, Wants
        <5> QED
          BY <1>1, <4>1, <4>4, <5>1 DEF Apart
      <4>5. ASSUME NEW j \in DOMAIN queue, Wants(queue[j], c)
            PROVE  FALSE
        <5>1. queue[j].packet = dcEvents[i].packet
          BY <1>1, <1>2, <4>2, <4>5 DEF OneEach, Wants
        <5> QED
          BY <1>1, <4>1, <5>1 DEF Apart
      <4> QED
        BY <2>1, <4>1, <4>3, <4>4, <4>5
    <3>3. CASE \E i \in DOMAIN queue : Wants(queue[i], c) /\ a = <<"queue", i>>
      <4>1. PICK i \in DOMAIN queue : Wants(queue[i], c) /\ a = <<"queue", i>>
        BY <3>3
      <4>2. queue[i].packet \in Everywhere /\ queue[i].packet.call = c
        BY <1>2, <4>1 DEF Wants
      <4>3. \A j \in DOMAIN dcEvents : ~ IsCallOf(dcEvents[j], c)
        BY <1>1, <4>2 DEF Unnumbered, IsCallOf
      <4>4. ASSUME NEW j \in DOMAIN dcEvents, IsData(dcEvents[j]), Wants(dcEvents[j], c)
            PROVE  FALSE
        <5>1. dcEvents[j].packet = queue[i].packet
          BY <1>1, <1>2, <4>2, <4>4 DEF OneEach, Wants
        <5> QED
          BY <1>1, <4>4, <5>1 DEF Apart
      <4>5. ASSUME NEW j \in DOMAIN queue, Wants(queue[j], c)
            PROVE  i = j
        <5>1. queue[j].packet = queue[i].packet
          BY <1>1, <1>2, <4>2, <4>5 DEF OneEach, Wants
        <5> QED
          BY <1>1, <4>1, <5>1 DEF Apart
      <4> QED
        BY <2>1, <4>1, <4>3, <4>4, <4>5
    <3> QED
      BY <2>1, <3>1, <3>2, <3>3
  <2>5. call[c] = "waiting" <=> Pending(c) # {}
    BY <2>2, <2>3 DEF WaitersAsk
  <2> DEFINE S == Pending(c)
  <2> HIDE DEF S
  <2>6. CASE call[c] = "waiting"
    <3>1. PICK a \in S : TRUE
      BY <2>5, <2>6 DEF S
    <3>2. S = {a}
      BY <2>4, <3>1 DEF S
    <3> QED
      BY <2>6, <3>2, FS_Singleton DEF S
  <2>7. CASE call[c] # "waiting"
    <3>1. S = {}
      BY <2>5, <2>7 DEF S
    <3> QED
      BY <2>7, <3>1, FS_EmptySet DEF S
  <2> QED
    BY <2>6, <2>7
<1> QED
  BY <1>3 DEF WaitingIsPending

(* A stopped task holds nothing.                                            *)
LEMMA StoppedStep ==
  ASSUME ChannelTypeOK, StoppedIsEmpty, [ChannelNext]_channelVars
  PROVE  StoppedIsEmpty'
<1> USE DEF dcTask, sctp, conn
<1>1. CASE DataChannelTask
  <2>1. running /\ running' = running
    BY <1>1 DEF DataChannelTask, HandlePublishPacket, HandlePublishData, HandleBufferedAmountChange,
                HandleRetryFrom, Handles, handlerUnchanged
  <2> QED
    BY <2>1 DEF StoppedIsEmpty
<1>2. CASE CloseSession
  BY <1>2 DEF CloseSession, StoppedIsEmpty
<1>3. ASSUME NEW c \in Call, PublishData(c)
      PROVE  StoppedIsEmpty'
  BY <1>3 DEF PublishData, StoppedIsEmpty
<1>4. CASE UNCHANGED <<running, dcEvents, queue, retry>>
  BY <1>4 DEF StoppedIsEmpty
<1>5. CASE ForwardDrained
  BY <1>5 DEF ForwardDrained, StoppedIsEmpty
<1>6. CASE Restart
  BY <1>6 DEF Restart, StoppedIsEmpty
<1> QED
  BY <1>1, <1>2, <1>3, <1>4, <1>5, <1>6
     DEF ChannelNext, Transport, Reconnection, SetThreshold, Drain, Deliver, ChannelCloses,
         SignalLost, TransportLost, ReconnectionNeeded, Resumed, channelVars

-----------------------------------------------------------------------------
(* The count of the channel's buffer.                                       *)

(* One more at the end, and the first one gone.                             *)
LEMMA TotalOfAppend ==
  ASSUME NEW s \in Seq(Nat), NEW n \in Nat
  PROVE  Total(Append(s, n)) = Total(s) + n /\ Total(s) \in Nat
<1>1. Append(s, n) = s \o <<n>> /\ <<n>> \in Seq(Nat)
  BY AppendIsConcat
<1> QED
  BY <1>1, TotalOfBoth, TotalOfOne, TotalIsNat

(* The first of a sequence counts, and the rest.                            *)
LEMMA TotalOfTail ==
  ASSUME NEW s \in Seq(Nat), s # <<>>
  PROVE  Total(s) = Head(s) + Total(Tail(s)) /\ Head(s) \in Nat /\ Total(Tail(s)) \in Nat
<1>1. Head(s) \in Nat /\ Tail(s) \in Seq(Nat) /\ <<Head(s)>> \in Seq(Nat)
      /\ s = <<Head(s)>> \o Tail(s)
  BY CutHead
<1> DEFINE h == <<Head(s)>>
           t == Tail(s)
<1>2. Total(h) = Head(s)
  BY <1>1, TotalOfOne
<1> HIDE DEF h, t
<1>3. Total(h \o t) = Total(h) + Total(t) /\ Total(t) \in Nat
  BY <1>1, TotalOfBoth, TotalIsNat DEF h, t
<1> QED
  BY <1>1, <1>2, <1>3 DEF h, t

(* What an event takes off the amount.                                      *)
Change(e) == IF e.type = "bufferedAmountChange" THEN e.sent ELSE 0

(* An event that comes counts with what it says.                            *)
LEMMA ChangesOfAppend ==
  ASSUME NEW s \in Seq(AnyEvent), NEW e \in AnyEvent
  PROVE  Total(Changes(Append(s, e))) = Total(Changes(s)) + Change(e)
         /\ Total(Changes(s)) \in Nat
<1> DEFINE t == <<e>>
<1>1. Append(s, e) = s \o t /\ t \in Seq(AnyEvent)
  BY AppendIsConcat
<1>2. Total(Changes(t)) = Change(e)
  BY ChangesOfOne DEF Change
<1> HIDE DEF t
<1>3. Total(Changes(s \o t)) = Total(Changes(s)) + Total(Changes(t)) /\ Total(Changes(s)) \in Nat
  BY <1>1, ChangesOfBoth
<1> QED
  BY <1>1, <1>2, <1>3

(* The first event counts, and the rest.                                    *)
LEMMA ChangesOfTail ==
  ASSUME NEW s \in Seq(AnyEvent), s # <<>>
  PROVE  /\ Total(Changes(s)) = Change(Head(s)) + Total(Changes(Tail(s)))
         /\ Change(Head(s)) \in Nat /\ Total(Changes(Tail(s))) \in Nat
<1> DEFINE h == <<Head(s)>>
           t == Tail(s)
<1>1. Head(s) \in AnyEvent /\ t \in Seq(AnyEvent) /\ h \in Seq(AnyEvent) /\ s = h \o t
  BY CutHead
<1>2. Total(Changes(h)) = Change(Head(s))
  BY <1>1, ChangesOfOne DEF Change
<1>3. Change(Head(s)) \in Nat
  BY <1>1 DEF AnyEvent, Change
<1> HIDE DEF h, t
<1>4. Total(Changes(h \o t)) = Total(Changes(h)) + Total(Changes(t)) /\ Total(Changes(t)) \in Nat
  BY <1>1, ChangesOfBoth
<1> QED
  BY <1>1, <1>2, <1>3, <1>4 DEF t

(* What comes back for a retry changes nothing.                             *)
LEMMA ChangesOfRetried ==
  ASSUME NEW n \in Nat, NEW s \in Seq(AnyEvent), NEW m \in Seq(PacketBelow(n))
  PROVE  Total(Changes(s \o Retried(m))) = Total(Changes(s))
<1> DEFINE t == Retried(m)
<1>1. /\ t \in Seq(EventBelow(n)) /\ Len(t) = Len(m)
      /\ \A i \in 1 .. Len(m) : t[i].type = "publishData"
  BY RetriedAre
<1>2. EventBelow(n) \subseteq AnyEvent
  BY DEF EventBelow, AnyEvent, PacketBelow, AnyPacket
<1> HIDE DEF t
<1>3. t \in Seq(AnyEvent)
  BY <1>1, <1>2, SeqMonotonic
<1>4. DOMAIN t = 1 .. Len(t) /\ Len(t) \in Nat
  BY <1>1, LenProperties
<1> DEFINE z == Changes(t)
<1>5. z = [i \in 1 .. Len(t) |-> 0]
  BY <1>1, <1>4 DEF Changes
<1> HIDE DEF z
<1>6. z \in Seq(Nat) /\ Len(z) = Len(t) /\ \A i \in 1 .. Len(t) : z[i] = 0
  BY <1>4, <1>5
<1>7. Cells(z) = {}
  BY <1>6, CellsAre
<1>8. Total(z) = 0
  BY <1>7, FS_EmptySet DEF Total, Cells
<1>9. Total(Changes(s \o t)) = Total(Changes(s)) + Total(Changes(t)) /\ Total(Changes(s)) \in Nat
  BY <1>3, ChangesOfBoth
<1> QED
  BY <1>8, <1>9 DEF z, t

(* The last of the first k packets.                                         *)
LEMMA BytesOfLast ==
  ASSUME NEW p \in Seq(AnyPacket), NEW k \in 1 .. Len(p)
  PROVE  /\ p[k].call \in Call /\ Bytes(SubSeq(p, 1, k - 1)) \in Nat /\ Size[p[k].call] \in Nat
         /\ Bytes(SubSeq(p, 1, k)) = Bytes(SubSeq(p, 1, k - 1)) + Size[p[k].call]
<1> DEFINE q == SubSeq(p, 1, k)
           a == SubSeq(p, 1, k - 1)
           b == <<p[k]>>
<1>1. Len(p) \in Nat /\ k \in Nat /\ k \in 0 .. Len(p) /\ k - 1 \in 0 .. Len(p)
      /\ p[k] \in AnyPacket
  BY LenProperties, ElementOfSeq
<1>2. q \in Seq(AnyPacket) /\ Len(q) = k /\ \A i \in 1 .. k : q[i] = p[i]
  BY <1>1, Cut
<1>3. a \in Seq(AnyPacket) /\ Len(a) = k - 1 /\ \A i \in 1 .. k - 1 : a[i] = p[i]
  BY <1>1, Cut
<1>4. b \in Seq(AnyPacket) /\ Len(b) = 1 /\ b[1] = p[k]
  BY <1>1
<1> HIDE DEF q, a, b
<1>5. /\ a \o b \in Seq(AnyPacket) /\ Len(a \o b) = k - 1 + 1
      /\ \A i \in 1 .. k - 1 + 1 : (a \o b)[i] = IF i <= k - 1 THEN a[i] ELSE b[i - (k - 1)]
  <2>1. /\ a \o b \in Seq(AnyPacket) /\ Len(a \o b) = Len(a) + Len(b)
        /\ \A i \in 1 .. Len(a) + Len(b) : (a \o b)[i] = IF i <= Len(a) THEN a[i] ELSE b[i - Len(a)]
    BY <1>3, <1>4, ConcatProperties
  <2> QED
    BY <1>3, <1>4, <2>1
<1>6. \A i \in 1 .. k : q[i] = (a \o b)[i]
  <2>1. TAKE i \in 1 .. k
  <2>2. CASE i = k
    BY <1>1, <1>2, <1>4, <1>5, <2>2
  <2>3. CASE i # k
    <3>1. i \in 1 .. k - 1 /\ i <= k - 1 /\ i \in 1 .. k - 1 + 1
      BY <1>1, <2>3
    <3> QED
      BY <1>2, <1>3, <1>5, <3>1
  <2> QED
    BY <2>2, <2>3
<1>7. q = a \o b
  <2>1. Len(a \o b) = k
    BY <1>1, <1>5
  <2> QED
    BY <1>2, <1>5, <1>6, <2>1, SeqEqual
<1>8. Bytes(a \o b) = Bytes(a) + Bytes(b) /\ Bytes(a) \in Nat
  BY <1>3, <1>4, BytesOfBoth
<1>9. Bytes(b) = Size[p[k].call] /\ Size[p[k].call] \in Nat /\ p[k].call \in Call
  BY <1>1, BytesOfFew DEF b, AnyPacket
<1> QED
  BY <1>7, <1>8, <1>9 DEF q, a

(* A step that sends counts what it hands to the channel, and stops once    *)
(* the threshold is passed.                                                 *)
LEMMA SendsBuffers ==
  ASSUME ChannelTypeOK, NEW requests \in Seq(RequestOf(PacketBelow(nextSeq))),
         NEW buffered \in Nat, NEW k \in Nat, NEW d \in Nat,
         Sends(requests, buffered, k, d), Buffering,
         open => buffered = Bytes(buffer) + Total(drained) + Total(Changes(Tail(dcEvents))),
         dcEvents # <<>>
  PROVE  Buffering'
<1> DEFINE sent == SubSeq(requests, 1, k)
           p == Packets(requests)
<1>1. k \in 0 .. Len(requests)
  BY DEF Sends
<1>2. Packets(sent) \in Seq(AnyPacket) /\ Packets(sent) = SubSeq(p, 1, k)
  BY <1>1, SendsParts, PacketsOfFront
<1>3. p \in Seq(AnyPacket) /\ Len(p) = Len(requests) /\ Len(p) \in Nat
  <2>1. p \in Seq(PacketBelow(nextSeq)) /\ Len(p) = Len(requests)
    BY PacketsAre
  <2>2. PacketBelow(nextSeq) \subseteq AnyPacket
    BY TypesAre DEF PacketBelow, AnyPacket
  <2> QED
    BY <2>1, <2>2, SeqMonotonic, LenProperties
<1>4. /\ amount' = buffered + Bytes(Packets(sent))
      /\ buffer' = IF open THEN buffer \o Packets(sent) ELSE buffer
      /\ dcEvents' = Tail(dcEvents)
      /\ k # 0 => buffered + Bytes(SubSeq(p, 1, k - 1)) <= threshold
      /\ UNCHANGED <<running, threshold, open, drained>>
  BY DEF Sends, handlerUnchanged
<1>5. /\ buffer \in Seq(AnyPacket) /\ drained \in Seq(Nat) /\ dcEvents \in Seq(AnyEvent)
      /\ threshold \in Nat /\ threshold \in Thresholds
      /\ Total(Changes(Tail(dcEvents))) \in Nat /\ Total(drained) \in Nat
  BY TypesAre, ChangesOfTail, TotalIsNat
<1> HIDE DEF sent, p
<1>6. /\ Bytes(buffer \o Packets(sent)) = Bytes(buffer) + Bytes(Packets(sent))
      /\ Bytes(buffer) \in Nat /\ Bytes(Packets(sent)) \in Nat
  BY <1>2, <1>5, BytesOfBoth
<1>7. AmountIsExact'
  <2>1. SUFFICES ASSUME open, running
                 PROVE  amount' = Bytes(buffer') + Total(drained') + Total(Changes(dcEvents'))
    BY <1>4 DEF AmountIsExact
  <2>2. Bytes(buffer') = Bytes(buffer) + Bytes(Packets(sent))
    BY <1>4, <1>6, <2>1
  <2>3. Total(drained') = Total(drained) /\ Total(Changes(dcEvents')) = Total(Changes(Tail(dcEvents)))
    BY <1>4
  <2>4. amount' = Bytes(buffer) + Total(drained) + Total(Changes(Tail(dcEvents))) + Bytes(Packets(sent))
    BY <1>4, <2>1
  <2> QED
    BY <1>5, <1>6, <2>2, <2>3, <2>4
<1>8. ClosedIsEmpty'
  BY <1>4 DEF Buffering, ClosedIsEmpty
<1>9. BufferIsBounded'
  <2>1. SUFFICES ASSUME buffer' # <<>>
                 PROVE  \E t \in Thresholds, c \in Call : Bytes(buffer') <= t + Size[c]
    BY DEF BufferIsBounded
  <2>2. open
    BY <1>4, <2>1 DEF Buffering, ClosedIsEmpty
  <2>3. CASE k = 0
    <3>1. Packets(sent) = <<>>
      <4>1. SubSeq(p, 1, 0) = <<>>
        BY <1>3, SubSeqEmpty
      <4> QED
        BY <1>2, <2>3, <4>1
    <3>2. buffer' = buffer
      BY <1>4, <1>5, <2>2, <3>1, ConcatEmptySeq
    <3> QED
      BY <2>1, <3>2 DEF Buffering, BufferIsBounded
  <2>4. CASE k # 0
    <3>1. k \in 1 .. Len(p)
      BY <1>1, <1>3, <2>4
    <3>2. /\ p[k].call \in Call /\ Bytes(SubSeq(p, 1, k - 1)) \in Nat /\ Size[p[k].call] \in Nat
          /\ Bytes(SubSeq(p, 1, k)) = Bytes(SubSeq(p, 1, k - 1)) + Size[p[k].call]
      BY <1>3, <3>1, BytesOfLast
    <3>3. Bytes(buffer') = Bytes(buffer) + (Bytes(SubSeq(p, 1, k - 1)) + Size[p[k].call])
      BY <1>2, <1>4, <1>6, <2>2, <3>2
    <3>4. buffered >= Bytes(buffer) /\ buffered + Bytes(SubSeq(p, 1, k - 1)) <= threshold
      <4> DEFINE u == Total(drained)
                 v == Total(Changes(Tail(dcEvents)))
                 w == Bytes(buffer)
      <4>1. buffered = w + u + v /\ w \in Nat /\ u \in Nat /\ v \in Nat
        BY <1>5, <1>6, <2>2
      <4> HIDE DEF u, v, w
      <4>2. buffered >= w
        BY <4>1
      <4> QED
        BY <1>4, <2>4, <4>2 DEF w
    <3> DEFINE x == Bytes(SubSeq(p, 1, k - 1))
               y == Size[p[k].call]
               z == Bytes(buffer)
    <3>5. /\ x \in Nat /\ y \in Nat /\ z \in Nat /\ buffered \in Nat /\ threshold \in Nat
          /\ buffered >= z /\ buffered + x <= threshold
      BY <1>5, <1>6, <3>2, <3>4
    <3>6. Bytes(buffer') = z + (x + y)
      BY <3>3
    <3> HIDE DEF x, y, z
    <3>7. Bytes(buffer') <= threshold + y
      BY <3>5, <3>6
    <3> QED
      BY <1>5, <3>2, <3>7 DEF y
  <2> QED
    BY <2>3, <2>4
<1> QED
  BY <1>7, <1>8, <1>9 DEF Buffering

(* A step keeps the count of the buffer exact and the buffer bounded.       *)
LEMMA BufferingStep ==
  ASSUME ChannelTypeOK, Buffering, [ChannelNext]_channelVars
  PROVE  Buffering'
<1> USE DEF dcTask, sctp, conn
<1>0. /\ nextSeq \in Nat /\ amount \in Nat
      /\ dcEvents \in Seq(AnyEvent) /\ drained \in Seq(Nat) /\ buffer \in Seq(AnyPacket)
  BY TypesAre
<1>1. Total(Changes(dcEvents)) \in Nat /\ Total(drained) \in Nat /\ Bytes(buffer) \in Nat
  BY <1>0, ChangesOfBoth, TotalIsNat, BytesOfBoth
<1>2. AmountIsExact /\ BufferIsBounded /\ ClosedIsEmpty
  BY DEF Buffering
<1>3. ASSUME UNCHANGED <<buffer, open>>
      PROVE  BufferIsBounded' /\ ClosedIsEmpty'
  BY <1>2, <1>3 DEF BufferIsBounded, ClosedIsEmpty
<1>4. ASSUME UNCHANGED <<buffer, open, running, amount, drained, dcEvents>>
      PROVE  Buffering'
  BY <1>2, <1>3, <1>4 DEF Buffering, AmountIsExact
<1>5. ASSUME UNCHANGED <<buffer, open, running, amount, drained>>,
             Total(Changes(dcEvents')) = Total(Changes(dcEvents))
      PROVE  Buffering'
  BY <1>2, <1>3, <1>5 DEF Buffering, AmountIsExact
<1>6. ASSUME NEW e \in AnyEvent, e.type # "bufferedAmountChange", dcEvents' = Append(dcEvents, e)
      PROVE  Total(Changes(dcEvents')) = Total(Changes(dcEvents))
  <2>1. Total(Changes(Append(dcEvents, e))) = Total(Changes(dcEvents)) + 0
    BY <1>0, <1>6, ChangesOfAppend DEF Change
  <2> QED
    BY <1>1, <1>6, <2>1
<1>7. ASSUME NEW c \in Call, PublishData(c)
      PROVE  Buffering'
  <2> DEFINE e == [type |-> "publishPacket", call |-> c]
  <2>1. e \in AnyEvent /\ e.type # "bufferedAmountChange"
    BY DEF AnyEvent
  <2>2. dcEvents' = Append(dcEvents, e) /\ UNCHANGED <<buffer, open, running, amount, drained>>
    BY <1>7 DEF PublishData
  <2> HIDE DEF e
  <2> QED
    BY <1>5, <1>6, <2>1, <2>2
<1>8. CASE HandlePublishPacket
  <2> DEFINE e == [type |-> "publishData", reply |-> TRUE, packet |-> NewPacket]
             t == Tail(dcEvents)
  <2>1. dcEvents' = Append(t, e) /\ dcEvents # <<>> /\ Head(dcEvents).type = "publishPacket"
        /\ UNCHANGED <<buffer, open, running, amount, drained>>
    BY <1>8 DEF HandlePublishPacket, Handles, NewPacket
  <2>2. t \in Seq(AnyEvent) /\ Head(dcEvents) \in AnyEvent /\ Head(dcEvents).call \in Call
    BY <1>0, <2>1, CutHead DEF AnyEvent
  <2>3. e \in AnyEvent /\ Change(e) = 0 /\ Change(Head(dcEvents)) = 0
    BY <1>0, <2>1, <2>2 DEF AnyEvent, AnyPacket, NewPacket, Change
  <2>4. Total(Changes(dcEvents)) = Change(Head(dcEvents)) + Total(Changes(t))
        /\ Total(Changes(t)) \in Nat
    BY <1>0, <2>1, ChangesOfTail
  <2> HIDE DEF e, t
  <2>5. Total(Changes(Append(t, e))) = Total(Changes(t)) + Change(e)
    BY <2>2, <2>3, ChangesOfAppend
  <2>6. Total(Changes(dcEvents')) = Total(Changes(dcEvents))
    BY <2>1, <2>3, <2>4, <2>5
  <2> QED
    BY <1>5, <2>1, <2>6
<1>9. CASE HandlePublishData
  <2> DEFINE requests == Append(queue, Request)
  <2>1. PICK k \in Nat : Sends(requests, amount, k, 0)
    BY <1>9, PublishDataSends
  <2>2. /\ requests \in Seq(RequestOf(PacketBelow(nextSeq)))
        /\ running /\ dcEvents # <<>> /\ Head(dcEvents).type = "publishData"
    BY <1>9, RequestQueued DEF HandlePublishData, Handles
  <2>3. Total(Changes(dcEvents)) = Change(Head(dcEvents)) + Total(Changes(Tail(dcEvents)))
        /\ Change(Head(dcEvents)) = 0 /\ Total(Changes(Tail(dcEvents))) \in Nat
    BY <1>0, <2>2, ChangesOfTail DEF Change
  <2>4. open => amount = Bytes(buffer) + Total(drained) + Total(Changes(Tail(dcEvents)))
    BY <1>1, <1>2, <2>2, <2>3 DEF AmountIsExact
  <2> HIDE DEF requests
  <2> QED
    BY <1>0, <2>1, <2>2, <2>4, SendsBuffers
<1>10. CASE HandleBufferedAmountChange
  <2> DEFINE n == Head(dcEvents).sent
             left == Left(n)
  <2>1. n \in Nat /\ left \in Nat /\ \E k, d \in Nat : Sends(queue, left, k, d)
    BY <1>10, ChangeSends
  <2>2. queue \in Seq(RequestOf(PacketBelow(nextSeq)))
        /\ running /\ dcEvents # <<>> /\ Head(dcEvents).type = "bufferedAmountChange"
    BY <1>10, TypesAre DEF HandleBufferedAmountChange, Handles
  <2>3. Total(Changes(dcEvents)) = n + Total(Changes(Tail(dcEvents)))
        /\ Total(Changes(Tail(dcEvents))) \in Nat
    BY <1>0, <2>2, ChangesOfTail DEF Change
  <2>4. left = IF amount < n THEN 0 ELSE amount - n
    BY DEF Left
  <2> HIDE DEF left, n
  <2>5. open => left = Bytes(buffer) + Total(drained) + Total(Changes(Tail(dcEvents)))
    <3>1. open => amount = Bytes(buffer) + Total(drained) + Total(Changes(dcEvents))
      BY <1>2, <2>2 DEF AmountIsExact
    <3> DEFINE u == Total(drained)
               v == Total(Changes(Tail(dcEvents)))
               w == Bytes(buffer)
               x == Total(Changes(dcEvents))
    <3>2. /\ u \in Nat /\ v \in Nat /\ w \in Nat /\ amount \in Nat /\ n \in Nat
          /\ x = n + v /\ (open => amount = w + u + x)
      BY <1>0, <1>1, <2>1, <2>3, <3>1
    <3> HIDE DEF u, v, w, x
    <3>3. open => left = w + u + v
      BY <2>4, <3>2
    <3> QED
      BY <3>3 DEF u, v, w
  <2>6. PICK k, d \in Nat : Sends(queue, left, k, d)
    BY <2>1
  <2> QED
    BY <2>1, <2>2, <2>5, <2>6, SendsBuffers
<1>11. CASE HandleRetryFrom
  <2>1. PICK m \in Seq(PacketBelow(nextSeq)) : dcEvents' = Tail(dcEvents) \o Retried(m)
    BY <1>11, RetryFromPuts
  <2>2. dcEvents # <<>> /\ Head(dcEvents).type = "retryFrom"
        /\ UNCHANGED <<buffer, open, running, amount, drained>>
    BY <1>11 DEF HandleRetryFrom, Handles
  <2> DEFINE t == Tail(dcEvents)
  <2>3. t \in Seq(AnyEvent)
    BY <1>0, <2>2, CutHead
  <2>4. Total(Changes(dcEvents)) = Change(Head(dcEvents)) + Total(Changes(t))
        /\ Change(Head(dcEvents)) = 0 /\ Total(Changes(t)) \in Nat
    BY <1>0, <2>2, ChangesOfTail DEF Change
  <2> HIDE DEF t
  <2>5. Total(Changes(t \o Retried(m))) = Total(Changes(t))
    BY <1>0, <2>3, ChangesOfRetried
  <2>6. Total(Changes(dcEvents')) = Total(Changes(dcEvents))
    BY <2>1, <2>4, <2>5 DEF t
  <2> QED
    BY <1>5, <2>2, <2>6
<1>12. CASE CloseSession
  <2>1. running' = FALSE /\ UNCHANGED <<buffer, open>>
    BY <1>12 DEF CloseSession
  <2> QED
    BY <1>3, <2>1 DEF Buffering, AmountIsExact
<1>13. ASSUME NEW n \in 1 .. Cardinality(Call), Drain(n)
       PROVE  Buffering'
  <2> DEFINE a == SubSeq(buffer, 1, n)
             b == From(buffer, n + 1)
  <2>1. n \in Nat /\ buffer # <<>>
    BY <1>0, <1>13, LenProperties DEF Drain
  <2>2. Bytes(a) \in Nat /\ Bytes(b) \in Nat /\ Bytes(buffer) = Bytes(a) + Bytes(b)
    BY <1>13, <2>1, DrainParts
  <2>3. buffer' = b /\ drained' = Append(drained, Bytes(a)) /\ open
        /\ UNCHANGED <<open, running, amount, dcEvents>>
    BY <1>13 DEF Drain
  <2> HIDE DEF a, b
  <2>4. Total(Append(drained, Bytes(a))) = Total(drained) + Bytes(a)
    BY <1>0, <2>2, TotalOfAppend
  <2>5. AmountIsExact'
    <3>1. Bytes(buffer') = Bytes(b) /\ Total(drained') = Total(drained) + Bytes(a)
          /\ Total(Changes(dcEvents')) = Total(Changes(dcEvents))
      BY <2>3, <2>4
    <3>2. running => amount' = Bytes(buffer) + Total(drained) + Total(Changes(dcEvents))
      BY <1>2, <2>3 DEF AmountIsExact
    <3>3. running => amount' = Bytes(buffer') + Total(drained') + Total(Changes(dcEvents'))
      BY <1>1, <2>2, <3>1, <3>2
    <3> QED
      BY <2>3, <3>3 DEF AmountIsExact
  <2>6. BufferIsBounded'
    <3>1. PICK t \in Thresholds, c \in Call : Bytes(buffer) <= t + Size[c]
      BY <1>2, <2>1 DEF BufferIsBounded
    <3>2. t + Size[c] \in Nat
      BY ChannelAssumption
    <3>3. Bytes(buffer') <= t + Size[c]
      BY <2>2, <2>3, <3>1, <3>2
    <3> QED
      BY <3>3 DEF BufferIsBounded
  <2>7. ClosedIsEmpty'
    BY <2>3 DEF ClosedIsEmpty
  <2> QED
    BY <2>5, <2>6, <2>7 DEF Buffering
<1>14. CASE ForwardDrained
  <2> DEFINE e == [type |-> "bufferedAmountChange", sent |-> Head(drained)]
  <2>1. drained # <<>> /\ drained' = Tail(drained) /\ UNCHANGED <<buffer, open, running, amount>>
        /\ (running => dcEvents' = Append(dcEvents, e))
    BY <1>14 DEF ForwardDrained
  <2>2. Total(drained) = Head(drained) + Total(Tail(drained)) /\ Head(drained) \in Nat
        /\ Total(Tail(drained)) \in Nat
    BY <1>0, <2>1, TotalOfTail
  <2>3. e \in AnyEvent /\ Change(e) = Head(drained)
    BY <2>2 DEF AnyEvent, Change
  <2> HIDE DEF e
  <2>4. Total(Changes(Append(dcEvents, e))) = Total(Changes(dcEvents)) + Head(drained)
    BY <1>0, <2>3, ChangesOfAppend
  <2>5. AmountIsExact'
    <3>1. SUFFICES ASSUME open, running
                   PROVE  amount' = Bytes(buffer') + Total(drained') + Total(Changes(dcEvents'))
      BY <2>1 DEF AmountIsExact
    <3>2. amount' = Bytes(buffer) + Total(drained) + Total(Changes(dcEvents))
      BY <1>2, <2>1, <3>1 DEF AmountIsExact
    <3>3. Total(drained') = Total(Tail(drained)) /\ Bytes(buffer') = Bytes(buffer)
          /\ Total(Changes(dcEvents')) = Total(Changes(dcEvents)) + Head(drained)
      BY <2>1, <2>4, <3>1
    <3> QED
      BY <1>1, <2>2, <3>2, <3>3
  <2> QED
    BY <1>3, <2>1, <2>5 DEF Buffering
<1>15. CASE ChannelCloses
  <2>1. buffer' = <<>> /\ open' = FALSE
    BY <1>15 DEF ChannelCloses
  <2> QED
    BY <2>1 DEF Buffering, AmountIsExact, BufferIsBounded, ClosedIsEmpty
<1>16. CASE Restart
  <2> DEFINE e == [type |-> "retryFrom", last |-> Highest(received)]
  <2>1. Highest(received) \in Nat
    BY TypesAre, HighestIsNat DEF PacketBelow
  <2>2. e \in AnyEvent /\ e.type # "bufferedAmountChange"
    BY <2>1 DEF AnyEvent
  <2>3. (dcEvents' = Append(dcEvents, e) \/ dcEvents' = dcEvents)
        /\ UNCHANGED <<buffer, open, running, amount, drained>>
    BY <1>16 DEF Restart
  <2> HIDE DEF e
  <2> QED
    BY <1>4, <1>5, <1>6, <2>2, <2>3
<1> QED
  BY <1>4, <1>7, <1>8, <1>9, <1>10, <1>11, <1>12, <1>13, <1>14, <1>15, <1>16
     DEF ChannelNext, DataChannelTask, Transport, Reconnection, SetThreshold, Deliver,
         SignalLost, TransportLost, ReconnectionNeeded, Resumed, channelVars

-----------------------------------------------------------------------------
(* The line of packets, until a loss.                                       *)

(* Events without a packet may be taken ...                                 *)
LEMMA InLineTail ==
  ASSUME NEW line, NEW events \in Seq(AnyEvent), events # <<>>, NEW next,
         ~ IsData(Head(events)), InLine(line, events)
  PROVE  /\ InLine(line, Tail(events))
         /\ AllInLine(line, events, next) => AllInLine(line, Tail(events), next)
<1> DEFINE t == Tail(events)
<1>1. /\ 1 \in DOMAIN events /\ Head(events) = events[1]
      /\ \A i \in DOMAIN t : i + 1 \in DOMAIN events /\ t[i] = events[i + 1] /\ i \in Nat
      /\ \A i \in DOMAIN events : i # 1 => i - 1 \in DOMAIN t /\ events[i] = t[i - 1]
  BY TailPlaces
<1>2. \A i, j \in DOMAIN t : i < j => i + 1 < j + 1
  BY <1>1
<1> HIDE DEF t
<1>3. InLine(line, t)
  <2>1. /\ \A i \in DOMAIN line : line[i].seq = i
        /\ \A i \in DOMAIN t : t[i].type # "retryFrom"
        /\ \A i \in DOMAIN t : IsData(t[i]) => t[i].packet.seq > Len(line)
    BY <1>1 DEF InLine
  <2>2. \A i, j \in DOMAIN t : i < j /\ IsData(t[i]) /\ IsData(t[j]) =>
          t[i].packet.seq < t[j].packet.seq
    BY <1>1, <1>2 DEF InLine
  <2> QED
    BY <2>1, <2>2 DEF InLine
<1>4. ASSUME AllInLine(line, events, next)
      PROVE  AllInLine(line, t, next)
  <2>1. ASSUME NEW n \in Len(line) + 1 .. next - 1
        PROVE  \E i \in DOMAIN t : IsData(t[i]) /\ t[i].packet.seq = n
    <3>1. PICK i \in DOMAIN events : IsData(events[i]) /\ events[i].packet.seq = n
      BY <1>4 DEF AllInLine
    <3>2. i # 1
      BY <1>1, <3>1
    <3> QED
      BY <1>1, <3>1, <3>2
  <2> QED
    BY <1>4, <2>1 DEF AllInLine
<1> QED
  BY <1>3, <1>4 DEF t

(* ... and may come, ...                                                    *)
LEMMA InLineOther ==
  ASSUME NEW line, NEW events \in Seq(AnyEvent), NEW e \in AnyEvent, NEW next,
         ~ IsData(e), e.type # "retryFrom", InLine(line, events)
  PROVE  /\ InLine(line, Append(events, e))
         /\ AllInLine(line, events, next) => AllInLine(line, Append(events, e), next)
<1> DEFINE u == Append(events, e)
<1>1. /\ \A i \in DOMAIN events : i \in DOMAIN u /\ u[i] = events[i]
      /\ u[Len(events) + 1] = e
      /\ \A i \in DOMAIN u : i \in DOMAIN events \/ i = Len(events) + 1
  BY AppendPlaces
<1> HIDE DEF u
<1>2. \A i \in DOMAIN u : IsData(u[i]) => i \in DOMAIN events
  BY <1>1
<1>3. InLine(line, u)
  BY <1>1, <1>2 DEF InLine
<1>4. AllInLine(line, events, next) => AllInLine(line, u, next)
  BY <1>1 DEF AllInLine
<1> QED
  BY <1>3, <1>4 DEF u

(* ... the packet with the next number may come, ...                        *)
LEMMA InLineNew ==
  ASSUME NEW line \in Seq(AnyPacket), NEW n \in Nat, NEW events \in Seq(EventBelow(n)),
         NEW e \in EventBelow(n + 1),
         IsData(e), e.packet.seq = n, InLine(line, events), AllInLine(line, events, n)
  PROVE  InLine(line, Append(events, e)) /\ AllInLine(line, Append(events, e), n + 1)
<1> DEFINE u == Append(events, e)
           E == EventBelow(n + 1)
<1>1. EventBelow(n) \subseteq E
  <2>1. PacketBelow(n) \subseteq PacketBelow(n + 1)
    BY DEF PacketBelow
  <2> QED
    BY <2>1 DEF EventBelow
<1>2. events \in Seq(E)
  BY <1>1, SeqMonotonic
<1>3. \A i \in DOMAIN events : IsData(events[i]) => events[i].packet.seq \in Nat /\ events[i].packet.seq < n
  <2>1. \A i \in DOMAIN events : events[i] \in EventBelow(n)
    BY LenProperties, ElementOfSeq
  <2> QED
    BY <2>1 DEF EventBelow, IsData, PacketBelow
<1> HIDE DEF E
<1>4. /\ \A i \in DOMAIN events : i \in DOMAIN u /\ u[i] = events[i]
      /\ u[Len(events) + 1] = e /\ Len(events) + 1 \in DOMAIN u
      /\ \A i \in DOMAIN u : i \in DOMAIN events \/ i = Len(events) + 1
      /\ DOMAIN events = 1 .. Len(events) /\ Len(events) \in Nat
  BY <1>2, AppendPlaces DEF E
<1> HIDE DEF u
<1>5. Len(line) \in Nat /\ Len(line) < n
  BY LenProperties DEF AllInLine
<1>6. e.type # "retryFrom"
  BY DEF IsData
<1>7. \A i, j \in DOMAIN u : i < j /\ IsData(u[i]) /\ IsData(u[j]) => u[i].packet.seq < u[j].packet.seq
  <2>1. SUFFICES ASSUME NEW i \in DOMAIN u, NEW j \in DOMAIN u, i < j, IsData(u[i]), IsData(u[j])
                 PROVE  u[i].packet.seq < u[j].packet.seq
    OBVIOUS
  <2>2. CASE j \in DOMAIN events
    <3>1. i \in DOMAIN events
      BY <1>4, <2>1, <2>2
    <3> QED
      BY <1>4, <2>1, <2>2, <3>1 DEF InLine
  <2>3. CASE j = Len(events) + 1
    <3>1. i \in DOMAIN events
      BY <1>4, <2>1, <2>3
    <3> QED
      BY <1>3, <1>4, <2>1, <2>3, <3>1
  <2> QED
    BY <1>4, <2>2, <2>3
<1>8. InLine(line, u)
  BY <1>4, <1>5, <1>6, <1>7 DEF InLine
<1>9. AllInLine(line, u, n + 1)
  <2>1. ASSUME NEW m \in Len(line) + 1 .. n + 1 - 1
        PROVE  \E i \in DOMAIN u : IsData(u[i]) /\ u[i].packet.seq = m
    <3>1. CASE m = n
      BY <1>4, <3>1
    <3>2. CASE m # n
      <4>1. m \in Len(line) + 1 .. n - 1
        BY <1>5, <3>2
      <4> QED
        BY <1>4, <4>1 DEF AllInLine
    <3> QED
      BY <3>1, <3>2
  <2> QED
    BY <1>5, <2>1 DEF AllInLine
<1> QED
  BY <1>8, <1>9 DEF u

(* ... and the first packet that comes in the events goes to the end of the *)
(* line.                                                                    *)
LEMMA InLineTake ==
  ASSUME NEW line \in Seq(AnyPacket), NEW n \in Nat, NEW events \in Seq(EventBelow(n)),
         events # <<>>, IsData(Head(events)), InLine(line, events), AllInLine(line, events, n)
  PROVE  /\ InLine(Append(line, Head(events).packet), Tail(events))
         /\ AllInLine(Append(line, Head(events).packet), Tail(events), n)
<1> DEFINE t == Tail(events)
           p == Head(events).packet
           l == Append(line, p)
<1>1. /\ DOMAIN events = 1 .. Len(events) /\ Len(events) \in Nat
      /\ 1 \in DOMAIN events /\ Head(events) = events[1]
      /\ \A i \in DOMAIN t : i + 1 \in DOMAIN events /\ t[i] = events[i + 1] /\ i \in Nat
      /\ \A i \in DOMAIN t : i \in 1 .. Len(events) - 1
      /\ \A i \in DOMAIN events : i # 1 => i - 1 \in DOMAIN t /\ events[i] = t[i - 1]
  BY TailPlaces
<1>2. \A i \in DOMAIN events : IsData(events[i]) =>
        events[i].packet.seq \in Nat /\ events[i].packet.seq < n /\ events[i].packet \in AnyPacket
  <2>1. \A i \in DOMAIN events : events[i] \in EventBelow(n)
    BY LenProperties, ElementOfSeq
  <2> QED
    BY <2>1 DEF EventBelow, IsData, PacketBelow, AnyPacket
<1>3. p \in AnyPacket /\ p.seq \in Nat /\ p.seq < n /\ p.seq > Len(line)
  BY <1>1, <1>2 DEF InLine
<1> HIDE DEF t, p
<1>4. /\ l \in Seq(AnyPacket) /\ Len(l) = Len(line) + 1 /\ Len(line) \in Nat
      /\ DOMAIN line = 1 .. Len(line) /\ DOMAIN l = 1 .. Len(line) + 1
      /\ \A i \in DOMAIN line : l[i] = line[i]
      /\ l[Len(line) + 1] = p
      /\ \A i \in DOMAIN l : i \in DOMAIN line \/ i = Len(line) + 1
  BY <1>3, AppendPlaces, AppendProperties, LenProperties
<1> HIDE DEF l
<1>5. \A i \in DOMAIN events : IsData(events[i]) /\ i # 1 => events[i].packet.seq > p.seq
  <2>1. \A i \in DOMAIN events : i # 1 => 1 < i
    BY <1>1
  <2> QED
    BY <1>1, <1>2, <1>3, <2>1 DEF InLine, p
<1>6. p.seq = Len(line) + 1
  <2>1. Len(line) + 1 \in Len(line) + 1 .. n - 1
    BY <1>3, <1>4
  <2>2. PICK i \in DOMAIN events : IsData(events[i]) /\ events[i].packet.seq = Len(line) + 1
    BY <2>1 DEF AllInLine
  <2>3. CASE i = 1
    BY <1>1, <2>2, <2>3 DEF p
  <2>4. CASE i # 1
    BY <1>3, <1>4, <1>5, <2>2, <2>4
  <2> QED
    BY <2>3, <2>4
<1>7. \A i \in DOMAIN l : l[i].seq = i
  BY <1>4, <1>6 DEF InLine
<1>8. \A i \in DOMAIN t : t[i].type # "retryFrom"
  BY <1>1 DEF InLine
<1>9. \A i \in DOMAIN t : IsData(t[i]) => t[i].packet.seq > Len(l)
  <2>1. \A i \in DOMAIN t : i + 1 # 1
    BY <1>1
  <2> QED
    BY <1>1, <1>4, <1>5, <1>6, <2>1
<1>10. \A i, j \in DOMAIN t : i < j /\ IsData(t[i]) /\ IsData(t[j]) =>
         t[i].packet.seq < t[j].packet.seq
  <2>1. \A i, j \in DOMAIN t : i < j => i + 1 < j + 1
    BY <1>1
  <2> QED
    BY <1>1, <2>1 DEF InLine
<1>11. InLine(l, t)
  BY <1>7, <1>8, <1>9, <1>10 DEF InLine
<1>12. AllInLine(l, t, n)
  <2>1. ASSUME NEW m \in Len(l) + 1 .. n - 1
        PROVE  \E i \in DOMAIN t : IsData(t[i]) /\ t[i].packet.seq = m
    <3>1. m \in Len(line) + 1 .. n - 1 /\ m # p.seq
      BY <1>3, <1>4, <1>6
    <3>2. PICK i \in DOMAIN events : IsData(events[i]) /\ events[i].packet.seq = m
      BY <3>1 DEF AllInLine
    <3>3. i # 1
      BY <1>1, <3>1, <3>2 DEF p
    <3> QED
      BY <1>1, <3>2, <3>3
  <2>2. Len(l) < n
    BY <1>3, <1>4, <1>6
  <2> QED
    BY <2>1, <2>2 DEF AllInLine
<1> QED
  BY <1>11, <1>12 DEF l, t, p

(* A line cut short is still a line.                                        *)
LEMMA InLineFront ==
  ASSUME NEW a \in Seq(AnyPacket), NEW b \in Seq(AnyPacket), NEW events, InLine(a \o b, events)
  PROVE  InLine(a, <<>>) /\ \A i \in DOMAIN a : a[i].seq = i
BY BothPlaces DEF InLine

(* Sequences of packets, one behind the other.                              *)
LEMMA ConcatIsPackets == \A s, t \in Seq(AnyPacket) : s \o t \in Seq(AnyPacket)
BY ConcatProperties

(* A third one may be put behind both, or behind the second first.          *)
LEMMA ConcatTwice == \A s, t, u \in Seq(AnyPacket) : (s \o t) \o u = s \o (t \o u)
BY ConcatAssociative

(* The line, in its four parts.                                             *)
LEMMA LineParts ==
  ASSUME NEW a \in Seq(AnyPacket), NEW b \in Seq(AnyPacket), NEW c \in Seq(AnyPacket),
         NEW d \in Seq(AnyPacket)
  PROVE  /\ a \o b \o c \o d \in Seq(AnyPacket)
         /\ a \o b \o c \o d = a \o (b \o (c \o d))
         /\ a \o b \o c \o d = (a \o b) \o (c \o d)
         /\ a \o b \o c = a \o (b \o c)
         /\ a \o b \o c \in Seq(AnyPacket)
<1>1. /\ a \o b \in Seq(AnyPacket) /\ c \o d \in Seq(AnyPacket) /\ b \o c \in Seq(AnyPacket)
  BY ConcatIsPackets, Zenon
<1> DEFINE ab == a \o b
           cd == c \o d
<1>2. (a \o b) \o (c \o d) = a \o (b \o (c \o d))
  <2>1. cd \in Seq(AnyPacket)
    BY <1>1
  <2> HIDE DEF cd
  <2>2. (a \o b) \o cd = a \o (b \o cd)
    BY <2>1, ConcatTwice, Zenon
  <2> QED
    BY <2>2 DEF cd
<1>3. ((a \o b) \o c) \o d = (a \o b) \o (c \o d)
  <2>1. ab \in Seq(AnyPacket)
    BY <1>1
  <2> HIDE DEF ab
  <2>2. (ab \o c) \o d = ab \o (c \o d)
    BY <2>1, ConcatTwice, Zenon
  <2> QED
    BY <2>2 DEF ab
<1>4. (a \o b) \o c = a \o (b \o c)
  BY ConcatTwice, Zenon
<1>5. ab \o c \in Seq(AnyPacket) /\ ab \o cd \in Seq(AnyPacket)
  <2>1. ab \in Seq(AnyPacket) /\ cd \in Seq(AnyPacket)
    BY <1>1
  <2> HIDE DEF ab, cd
  <2> QED
    BY <2>1, ConcatIsPackets, Zenon
<1> QED
  BY <1>2, <1>3, <1>4, <1>5

(* The line of a next state.                                                *)
LineOf(got, under, buffered, packets) == got \o under \o buffered \o packets

(* A step that sends moves the line on without a change.                    *)
LEMMA SendsLine ==
  ASSUME ChannelTypeOK, NEW requests \in Seq(RequestOf(PacketBelow(nextSeq))),
         NEW buffered \in Nat, NEW k \in Nat, NEW d \in Nat,
         Sends(requests, buffered, k, d), open
  PROVE  Line' = LineOf(received, wire, buffer, Packets(requests))
<1> DEFINE sent == SubSeq(requests, 1, k)
           rest == From(requests, k + 1)
           a == Packets(sent)
           b == Packets(rest)
<1>1. k \in 0 .. Len(requests)
  BY DEF Sends
<1>2. /\ sent \in Seq(RequestOf(PacketBelow(nextSeq))) /\ rest \in Seq(RequestOf(PacketBelow(nextSeq)))
      /\ requests = sent \o rest
  BY <1>1, Cut
<1>3. /\ queue' = rest /\ buffer' = buffer \o a /\ received' = received /\ wire' = wire
  BY DEF Sends, handlerUnchanged
<1>4. buffer \in Seq(AnyPacket) /\ received \in Seq(AnyPacket) /\ wire \in Seq(AnyPacket)
  BY TypesAre
<1>5. PacketBelow(nextSeq) \subseteq AnyPacket
  BY TypesAre DEF PacketBelow, AnyPacket
<1> HIDE DEF sent, rest
<1>6. Packets(sent \o rest) = a \o b
  BY <1>2, PacketsOfBoth
<1>7. a \in Seq(PacketBelow(nextSeq)) /\ b \in Seq(PacketBelow(nextSeq))
  BY <1>2, PacketsAre
<1>8. a \in Seq(AnyPacket) /\ b \in Seq(AnyPacket)
  BY <1>5, <1>7, SeqMonotonic
<1>9. Line' = received \o wire \o (buffer \o a) \o b
  BY <1>3 DEF Line
<1>10. Packets(requests) = a \o b
  BY <1>2, <1>6
<1> DEFINE ba == buffer \o a
           rw == received \o wire
<1> HIDE DEF a, b
<1>11. ba \in Seq(AnyPacket) /\ rw \in Seq(AnyPacket) /\ a \o b \in Seq(AnyPacket)
  BY <1>4, <1>8, ConcatIsPackets, Zenon
<1>12. ba \o b = buffer \o (a \o b)
  BY <1>4, <1>8, ConcatTwice, Zenon
<1> HIDE DEF ba, rw
<1>13. (rw \o buffer) \o (a \o b) = rw \o (buffer \o (a \o b))
  <2> DEFINE ab == a \o b
  <2>1. rw \in Seq(AnyPacket) /\ buffer \in Seq(AnyPacket) /\ ab \in Seq(AnyPacket)
    BY <1>4, <1>11
  <2> HIDE DEF ab
  <2>2. (rw \o buffer) \o ab = rw \o (buffer \o ab)
    BY <2>1, ConcatTwice, Zenon
  <2> QED
    BY <2>2 DEF ab
<1>14. (rw \o ba) \o b = rw \o (ba \o b)
  <2>1. rw \in Seq(AnyPacket) /\ ba \in Seq(AnyPacket) /\ b \in Seq(AnyPacket)
    BY <1>8, <1>11
  <2> QED
    BY <2>1, ConcatTwice, Zenon
<1>15. Line' = (rw \o buffer) \o (a \o b)
  BY <1>9, <1>12, <1>13, <1>14 DEF ba, rw
<1> QED
  BY <1>10, <1>15 DEF LineOf, rw

(* The whole of the line, and its parts, are packets.                       *)
LEMMA LineIs ==
  ASSUME ChannelTypeOK
  PROVE  /\ received \in Seq(AnyPacket) /\ wire \in Seq(AnyPacket) /\ buffer \in Seq(AnyPacket)
         /\ Packets(queue) \in Seq(AnyPacket) /\ Line \in Seq(AnyPacket)
         /\ Line = LineOf(received, wire, buffer, Packets(queue))
         /\ Line' = LineOf(received', wire', buffer', Packets(queue'))
<1>1. /\ received \in Seq(AnyPacket) /\ wire \in Seq(AnyPacket) /\ buffer \in Seq(AnyPacket)
      /\ queue \in Seq(RequestOf(PacketBelow(nextSeq)))
      /\ PacketBelow(nextSeq) \subseteq AnyPacket
  BY TypesAre DEF PacketBelow, AnyPacket
<1> DEFINE p == Packets(queue)
<1>2. p \in Seq(PacketBelow(nextSeq))
  BY <1>1, PacketsAre
<1>3. p \in Seq(AnyPacket)
  BY <1>1, <1>2, SeqMonotonic
<1> HIDE DEF p
<1>4. received \o wire \o buffer \o p \in Seq(AnyPacket)
  BY <1>1, <1>3, LineParts
<1>5. Line' = LineOf(received', wire', buffer', Packets(queue'))
  BY DEF Line, LineOf, Packets
<1> QED
  BY <1>1, <1>3, <1>4, <1>5 DEF Line, LineOf, p

(* Until a loss no step moves a packet past another, or loses one.          *)
LEMMA LossStep ==
  ASSUME ChannelTypeOK, BeforeLoss, [ChannelNext]_channelVars
  PROVE  BeforeLoss'
<1> USE DEF dcTask, sctp, conn
<1>0. SUFFICES ASSUME drops' = 0 PROVE BeforeLoss'
  BY DEF BeforeLoss
<1>1. ~ SignalLost /\ \A inFlight : ~ TransportLost(inFlight)
  BY <1>0, TypesAre DEF SignalLost, TransportLost
<1>2. drops' = drops \/ drops' = drops + 1
  BY DEF ChannelNext, DataChannelTask, Transport, Reconnection, SetThreshold, PublishData,
         HandlePublishPacket, HandlePublishData, HandleBufferedAmountChange, HandleRetryFrom,
         handlerUnchanged, CloseSession, Drain, Deliver, ForwardDrained, ChannelCloses,
         SignalLost, TransportLost, ReconnectionNeeded, Restart, Resumed, channelVars
<1>3. /\ drops = 0 /\ link = "up" /\ alive /\ open
      /\ InLine(Line, dcEvents)
      /\ running => AllInLine(Line, dcEvents, nextSeq)
  BY <1>0, <1>2, TypesAre DEF BeforeLoss
<1>4. /\ nextSeq \in Nat \ {0} /\ nextSeq \in Nat /\ amount \in Nat /\ running \in BOOLEAN
      /\ dcEvents \in Seq(EventBelow(nextSeq)) /\ dcEvents \in Seq(AnyEvent)
      /\ queue \in Seq(RequestOf(PacketBelow(nextSeq)))
      /\ drained \in Seq(Nat)
  BY TypesAre
<1>5. /\ received \in Seq(AnyPacket) /\ wire \in Seq(AnyPacket) /\ buffer \in Seq(AnyPacket)
      /\ Packets(queue) \in Seq(AnyPacket) /\ Line \in Seq(AnyPacket)
      /\ Line = LineOf(received, wire, buffer, Packets(queue))
      /\ Line' = LineOf(received', wire', buffer', Packets(queue'))
  BY LineIs
<1> DEFINE L == Line
           ps == Packets(queue)
<1>6. ASSUME UNCHANGED <<link, alive, open, Line, dcEvents, running, nextSeq>>
      PROVE  BeforeLoss'
  BY <1>3, <1>6 DEF BeforeLoss
<1>8. ASSUME UNCHANGED <<link, alive, open, received, wire, buffer, queue, running, nextSeq>>,
             NEW e \in AnyEvent, dcEvents' = Append(dcEvents, e),
             ~ IsData(e), e.type # "retryFrom"
      PROVE  BeforeLoss'
  <2>1. /\ InLine(L, Append(dcEvents, e))
        /\ AllInLine(L, dcEvents, nextSeq) => AllInLine(L, Append(dcEvents, e), nextSeq)
    BY <1>3, <1>4, <1>8, InLineOther
  <2>2. Line' = L
    BY <1>5, <1>8 DEF Packets
  <2> QED
    BY <1>3, <1>8, <2>1, <2>2 DEF BeforeLoss
<1>9. ASSUME NEW c \in Call, PublishData(c)
      PROVE  BeforeLoss'
  <2> DEFINE e == [type |-> "publishPacket", call |-> c]
  <2>1. e \in AnyEvent /\ ~ IsData(e) /\ e.type # "retryFrom"
    BY DEF AnyEvent, IsData
  <2>2. dcEvents' = Append(dcEvents, e)
        /\ UNCHANGED <<link, alive, open, received, wire, buffer, queue, running, nextSeq>>
    BY <1>9 DEF PublishData
  <2> HIDE DEF e
  <2> QED
    BY <1>8, <2>1, <2>2
<1>10. CASE HandlePublishPacket
  <2> DEFINE e == [type |-> "publishData", reply |-> TRUE, packet |-> NewPacket]
             t == Tail(dcEvents)
  <2>1. dcEvents' = Append(t, e) /\ dcEvents # <<>> /\ Head(dcEvents).type = "publishPacket"
        /\ nextSeq' = nextSeq + 1 /\ running
        /\ UNCHANGED <<link, alive, open, received, wire, buffer, queue, running>>
    BY <1>10 DEF HandlePublishPacket, Handles, NewPacket
  <2>2. t \in Seq(EventBelow(nextSeq)) /\ Head(dcEvents) \in EventBelow(nextSeq)
        /\ Head(dcEvents).call \in Call /\ ~ IsData(Head(dcEvents))
    BY <1>4, <2>1, CutHead DEF EventBelow, IsData
  <2>3. e \in EventBelow(nextSeq + 1) /\ IsData(e) /\ e.packet.seq = nextSeq
    <3>1. NewPacket \in PacketBelow(nextSeq + 1) /\ NewPacket.seq = nextSeq
      BY <1>4, <2>2 DEF PacketBelow, NewPacket
    <3> QED
      BY <3>1 DEF EventBelow, IsData
  <2>4. InLine(L, t) /\ AllInLine(L, t, nextSeq)
    BY <1>3, <1>4, <2>1, <2>2, InLineTail
  <2> HIDE DEF e, t, L
  <2>5. InLine(L, Append(t, e)) /\ AllInLine(L, Append(t, e), nextSeq + 1)
    BY <1>4, <1>5, <2>2, <2>3, <2>4, InLineNew DEF L
  <2>6. Line' = L
    BY <1>5, <2>1 DEF Packets, L
  <2> QED
    BY <1>3, <2>1, <2>5, <2>6 DEF BeforeLoss
<1>11. CASE HandlePublishData
  <2> DEFINE requests == Append(queue, Request)
             t == Tail(dcEvents)
             p == Head(dcEvents).packet
             r == <<Request>>
  <2>1. PICK k \in Nat : Sends(requests, amount, k, 0)
    BY <1>11, PublishDataSends
  <2>2. /\ requests \in Seq(RequestOf(PacketBelow(nextSeq))) /\ running
        /\ Request \in RequestOf(PacketBelow(nextSeq))
        /\ dcEvents # <<>> /\ IsData(Head(dcEvents)) /\ Request.packet = p
    BY <1>11, RequestQueued DEF HandlePublishData, Handles, IsData, Request
  <2>3. Line' = LineOf(received, wire, buffer, Packets(requests))
    BY <1>3, <1>4, <2>1, <2>2, SendsLine
  <2>4. dcEvents' = t /\ UNCHANGED <<link, alive, open, running, nextSeq>>
    BY <2>1 DEF Sends, handlerUnchanged
  <2>5. InLine(Append(L, p), t) /\ AllInLine(Append(L, p), t, nextSeq)
    BY <1>3, <1>4, <1>5, <2>2, InLineTake
  <2>6. p \in AnyPacket
    BY <1>4, <2>2 DEF RequestOf, PacketBelow, AnyPacket
  <2>7. Packets(requests) = Append(ps, p)
    <3>1. requests = queue \o r /\ r \in Seq(RequestOf(PacketBelow(nextSeq)))
      BY <1>4, <2>2, AppendIsConcat
    <3>2. Packets(r) = <<p>>
      BY <2>2 DEF Packets
    <3> HIDE DEF r, p
    <3>3. Packets(queue \o r) = ps \o Packets(r)
      BY <1>4, <3>1, PacketsOfBoth
    <3>4. Append(ps, p) = ps \o <<p>>
      BY <1>5, <2>6, AppendIsConcat
    <3> QED
      BY <3>1, <3>2, <3>3, <3>4
  <2> HIDE DEF p, t, requests
  <2>8. LineOf(received, wire, buffer, Append(ps, p)) = Append(L, p)
    <3> DEFINE rwb == received \o wire \o buffer
               one == <<p>>
    <3>1. rwb \in Seq(AnyPacket) /\ one \in Seq(AnyPacket)
      BY <1>5, <2>6, LineParts
    <3>2. Append(ps, p) = ps \o one /\ Append(L, p) = L \o one
      BY <1>5, <2>6, AppendIsConcat
    <3>3. L = rwb \o ps
      BY <1>5 DEF LineOf
    <3> HIDE DEF rwb, one, L, ps
    <3>4. (rwb \o ps) \o one = rwb \o (ps \o one)
      <4>1. rwb \in Seq(AnyPacket) /\ ps \in Seq(AnyPacket) /\ one \in Seq(AnyPacket)
        BY <1>5, <3>1 DEF ps
      <4> QED
        BY <4>1, ConcatTwice, Zenon
    <3> QED
      BY <3>2, <3>3, <3>4 DEF LineOf, rwb
  <2>9. Line' = Append(L, p)
    BY <2>3, <2>7, <2>8
  <2> HIDE DEF L
  <2> QED
    BY <1>3, <2>4, <2>5, <2>9 DEF BeforeLoss
<1>12. CASE HandleBufferedAmountChange
  <2> DEFINE left == Left(Head(dcEvents).sent)
             t == Tail(dcEvents)
  <2>1. left \in Nat /\ \E k, d \in Nat : Sends(queue, left, k, d)
    BY <1>12, ChangeSends
  <2>2. dcEvents # <<>> /\ ~ IsData(Head(dcEvents)) /\ running
    BY <1>12 DEF HandleBufferedAmountChange, Handles, IsData
  <2> HIDE DEF left
  <2>3. PICK k, d \in Nat : Sends(queue, left, k, d)
    BY <2>1
  <2>4. Line' = LineOf(received, wire, buffer, Packets(queue))
    BY <1>3, <1>4, <2>1, <2>3, SendsLine
  <2>5. dcEvents' = t /\ UNCHANGED <<link, alive, open, running, nextSeq>>
    BY <2>3 DEF Sends, handlerUnchanged
  <2>6. InLine(L, t) /\ AllInLine(L, t, nextSeq)
    BY <1>3, <1>4, <2>2, InLineTail
  <2>7. Line' = L
    BY <1>5, <2>4
  <2> HIDE DEF L, t
  <2> QED
    BY <1>3, <2>5, <2>6, <2>7 DEF BeforeLoss
<1>13. CASE HandleRetryFrom
  <2>1. dcEvents # <<>> /\ Head(dcEvents).type = "retryFrom" /\ Head(dcEvents) = dcEvents[1]
        /\ 1 \in DOMAIN dcEvents
    BY <1>4, <1>13, TailPlaces DEF HandleRetryFrom, Handles
  <2> QED
    BY <1>3, <2>1 DEF InLine
<1>14. CASE CloseSession
  <2>1. dcEvents' = <<>> /\ queue' = <<>> /\ running' = FALSE
        /\ UNCHANGED <<link, alive, open, received, wire, buffer>>
    BY <1>14 DEF CloseSession
  <2> DEFINE rwb == received \o wire \o buffer
  <2>2. rwb \in Seq(AnyPacket)
    BY <1>5, LineParts
  <2>3. InLine(rwb \o ps, dcEvents)
    BY <1>3, <1>5 DEF LineOf
  <2>4. Packets(<<>>) = <<>>
    BY DEF Packets
  <2>5. Line' = rwb \o <<>>
    BY <1>5, <2>1, <2>4 DEF LineOf
  <2> HIDE DEF rwb, ps
  <2>6. InLine(rwb, <<>>)
    BY <1>5, <2>2, <2>3, InLineFront DEF ps
  <2>7. Line' = rwb
    BY <2>2, <2>5, ConcatEmptySeq
  <2> QED
    BY <1>3, <2>1, <2>6, <2>7 DEF BeforeLoss
<1>15. CASE Deliver
  <2> DEFINE h == Head(wire)
             t == Tail(wire)
             one == <<h>>
  <2>1. wire # <<>> /\ received' = Append(received, h) /\ wire' = t
        /\ UNCHANGED <<link, alive, open, buffer, queue, dcEvents, running, nextSeq>>
    BY <1>15 DEF Deliver
  <2>2. h \in AnyPacket /\ t \in Seq(AnyPacket) /\ one \in Seq(AnyPacket) /\ wire = one \o t
    BY <1>5, <2>1, CutHead
  <2> HIDE DEF h, t
  <2>3. Append(received, h) = received \o one
    BY <1>5, <2>2, AppendIsConcat
  <2> HIDE DEF one
  <2>4. (received \o one) \o t = received \o (one \o t)
    <3>1. received \in Seq(AnyPacket)
      BY <1>5
    <3>2. received \in Seq(AnyPacket) /\ one \in Seq(AnyPacket) /\ t \in Seq(AnyPacket)
      BY <2>2, <3>1
    <3> QED
      BY <3>2, ConcatTwice, Zenon
  <2>5. received' \o wire' = received \o wire
    BY <2>1, <2>2, <2>3, <2>4
  <2>6. Packets(queue') = Packets(queue)
    BY <2>1
  <2>7. Line' = Line
    BY <1>5, <2>1, <2>5, <2>6 DEF LineOf
  <2> QED
    BY <1>6, <2>1, <2>7
<1>16. ASSUME NEW n \in 1 .. Cardinality(Call), Drain(n)
       PROVE  BeforeLoss'
  <2> DEFINE a == SubSeq(buffer, 1, n)
             b == From(buffer, n + 1)
  <2>1. n \in Nat
    BY <1>5, <1>16, LenProperties DEF Drain
  <2>2. a \in Seq(AnyPacket) /\ b \in Seq(AnyPacket) /\ buffer = a \o b
    BY <1>16, <2>1, DrainParts
  <2>3. buffer' = b /\ wire' = wire \o a
        /\ UNCHANGED <<link, alive, open, received, queue, dcEvents, running, nextSeq>>
    BY <1>16 DEF Drain
  <2> HIDE DEF a, b
  <2>4. /\ received \o wire \o a \o b = (received \o wire) \o (a \o b)
        /\ received \o wire \o a = received \o (wire \o a)
    <3> DEFINE rw == received \o wire
    <3>1. rw \in Seq(AnyPacket) /\ rw \o a = received \o (wire \o a)
      <4>1. received \in Seq(AnyPacket) /\ wire \in Seq(AnyPacket) /\ a \in Seq(AnyPacket)
        BY <1>5, <2>2
      <4>2. rw \in Seq(AnyPacket)
        BY <4>1, ConcatIsPackets, Zenon
      <4>3. (received \o wire) \o a = received \o (wire \o a)
        BY <4>1, ConcatTwice, Zenon
      <4> QED
        BY <4>2, <4>3
    <3> HIDE DEF rw
    <3>2. (rw \o a) \o b = rw \o (a \o b)
      <4>1. rw \in Seq(AnyPacket) /\ a \in Seq(AnyPacket) /\ b \in Seq(AnyPacket)
        BY <2>2, <3>1
      <4> QED
        BY <4>1, ConcatTwice, Zenon
    <3> QED
      BY <3>1, <3>2, Zenon DEF rw
  <2>5. received' \o wire' \o buffer' = received \o wire \o buffer
    BY <2>2, <2>3, <2>4
  <2>6. Packets(queue') = Packets(queue)
    BY <2>3
  <2>7. Line' = Line
    BY <1>5, <2>5, <2>6 DEF LineOf
  <2> QED
    BY <1>6, <2>3, <2>7
<1>17. CASE ForwardDrained
  <2> DEFINE e == [type |-> "bufferedAmountChange", sent |-> Head(drained)]
  <2>1. Head(drained) \in Nat
    BY <1>4, <1>17, CutHead DEF ForwardDrained
  <2>2. e \in AnyEvent /\ ~ IsData(e) /\ e.type # "retryFrom"
    BY <2>1 DEF AnyEvent, IsData
  <2>3. (dcEvents' = Append(dcEvents, e) \/ dcEvents' = dcEvents)
        /\ UNCHANGED <<link, alive, open, received, wire, buffer, queue, running, nextSeq>>
    BY <1>17 DEF ForwardDrained
  <2>4. Line' = Line
    BY <1>5, <2>3 DEF Packets
  <2> HIDE DEF e
  <2> QED
    BY <1>6, <1>8, <2>2, <2>3, <2>4
<1>18. ~ ChannelCloses /\ ~ ReconnectionNeeded /\ ~ Restart /\ ~ Resumed
  BY <1>3 DEF ChannelCloses, ReconnectionNeeded, Restart, Resumed
<1>19. ASSUME UNCHANGED <<link, alive, open, received, wire, buffer, queue, dcEvents, running, nextSeq>>
       PROVE  BeforeLoss'
  <2>1. Line' = Line
    BY <1>5, <1>19 DEF Packets
  <2> QED
    BY <1>6, <1>19, <2>1
<1>20. ASSUME NEW t \in Thresholds, SetThreshold(t)
       PROVE  BeforeLoss'
  BY <1>19, <1>20 DEF SetThreshold
<1>21. CASE UNCHANGED channelVars
  BY <1>19, <1>21 DEF channelVars
<1> QED
  BY <1>1, <1>9, <1>10, <1>11, <1>12, <1>13, <1>14, <1>15, <1>16, <1>17, <1>18, <1>20, <1>21
     DEF ChannelNext, DataChannelTask, Transport, Reconnection


-----------------------------------------------------------------------------
(* The theorems.                                                            *)

(* Nothing is held, sent or asked for at the start.                         *)
LEMMA InitChannel == ChannelInit => ChannelInv
<1> SUFFICES ASSUME ChannelInit PROVE ChannelInv
  OBVIOUS
<1>1. /\ call = [c \in Call |-> "idle"]
      /\ dcEvents = <<>> /\ queue = <<>> /\ retry = <<>> /\ buffer = <<>>
      /\ wire = <<>> /\ received = <<>> /\ drained = <<>>
      /\ amount = 0 /\ nextSeq = 1 /\ running /\ open /\ alive /\ link = "up"
  BY DEF ChannelInit
<1>2. ChannelTypeOK
  BY InitTypes
<1>3. Everywhere = {}
  <2>1. /\ \A i \in DOMAIN dcEvents : FALSE
        /\ \A i \in DOMAIN queue : FALSE
        /\ Range(retry) = {} /\ Range(buffer) = {} /\ Range(wire) = {} /\ Range(received) = {}
    BY <1>1 DEF Range
  <2>2. Range(Packets(queue)) = {} /\ DataIn(dcEvents) = {}
    BY <2>1 DEF Range, Packets, DataIn
  <2> QED
    BY <2>1, <2>2, EverywhereIs DEF All, HeldIn
<1>4. Numbering
  BY <1>1, <1>3 DEF Numbering, OneNumberPerPacket, UnnumberedAreNew, Unnumbered, NumberedWereCalled
<1>5. HeldApart
  BY <1>1 DEF HeldApart, Apart
<1>6. WaitersAsk
  BY <1>1 DEF WaitersAsk, Asks
<1>7. StoppedIsEmpty /\ ClosedIsEmpty /\ BufferIsBounded
  BY <1>1 DEF StoppedIsEmpty, ClosedIsEmpty, BufferIsBounded
<1>8. AmountIsExact
  <2>1. Bytes(buffer) = 0 /\ Total(Changes(dcEvents)) = 0 /\ Total(drained) = 0
    <3>1. Bytes(<<>>) = Total(<<>>)
      BY DEF Bytes
    <3>2. Changes(<<>>) = <<>>
      BY DEF Changes
    <3> QED
      BY <1>1, <3>1, <3>2, TotalOfNone
  <2> QED
    BY <1>1, <2>1 DEF AmountIsExact
<1>9. BeforeLoss
  <2>1. Line = <<>>
    <3>1. Packets(<<>>) = <<>>
      BY DEF Packets
    <3> QED
      BY <1>1, <3>1 DEF Line
  <2>2. InLine(<<>>, <<>>)
    BY DEF InLine
  <2>3. AllInLine(<<>>, <<>>, 1)
    BY DEF AllInLine
  <2> QED
    BY <1>1, <2>1, <2>2, <2>3 DEF BeforeLoss
<1> QED
  BY <1>2, <1>4, <1>5, <1>6, <1>7, <1>8, <1>9 DEF ChannelInv, Buffering

(* What the invariant says of a state: packets have one number and one      *)
(* place, waiting calls one request, the account is exact, the buffer is    *)
(* bounded, and before a loss what was received is in line.                 *)
LEMMA InvariantSays ==
  ASSUME ChannelInv
  PROVE  PacketsAccounted /\ AmountIsExact /\ BufferIsBounded /\ InOrderUntilLoss
<1>1. /\ ChannelTypeOK /\ Numbering /\ HeldApart /\ WaitersAsk /\ Buffering /\ BeforeLoss
  BY DEF ChannelInv
<1>2. HeldOnce
  <2>1. Held = HeldOf(dcEvents, queue, retry)
    BY DEF Held, HeldAt, HeldOf, PlacesOf
  <2>2. Apart(dcEvents, queue, retry)
    BY <1>1 DEF HeldApart
  <2>3. IsInjective(HeldOf(dcEvents, queue, retry))
    BY <2>2, ApartIsInjective
  <2> QED
    BY <2>1, <2>3 DEF HeldOnce
<1>3. WaitingIsPending
  BY <1>1, WaitersHaveOne
<1>4. ASSUME drops = 0
      PROVE  \A i \in DOMAIN received : received[i].seq = i
  <2>1. InLine(Line, dcEvents)
    BY <1>1, <1>4 DEF BeforeLoss
  <2> DEFINE rest == wire \o (buffer \o Packets(queue))
             ps == Packets(queue)
  <2>2. /\ received \in Seq(AnyPacket) /\ wire \in Seq(AnyPacket) /\ buffer \in Seq(AnyPacket)
        /\ ps \in Seq(AnyPacket)
        /\ Line = LineOf(received, wire, buffer, ps)
    BY <1>1, LineIs
  <2> HIDE DEF ps
  <2>3. received \o wire \o buffer \o ps = received \o (wire \o (buffer \o ps))
        /\ buffer \o ps \in Seq(AnyPacket)
    <3> DEFINE rw == received \o wire
               bp == buffer \o ps
    <3>1. received \in Seq(AnyPacket) /\ wire \in Seq(AnyPacket) /\ buffer \in Seq(AnyPacket)
          /\ ps \in Seq(AnyPacket)
      BY <2>2
    <3>2. rw \in Seq(AnyPacket) /\ bp \in Seq(AnyPacket)
      BY <3>1, ConcatIsPackets, Zenon
    <3> HIDE DEF bp
    <3>3. (received \o wire) \o bp = received \o (wire \o bp)
      <4>1. received \in Seq(AnyPacket) /\ wire \in Seq(AnyPacket) /\ bp \in Seq(AnyPacket)
        BY <3>1, <3>2
      <4> QED
        BY <4>1, ConcatTwice, Zenon
    <3> HIDE DEF rw
    <3>4. (rw \o buffer) \o ps = rw \o (buffer \o ps)
      <4>1. rw \in Seq(AnyPacket) /\ buffer \in Seq(AnyPacket) /\ ps \in Seq(AnyPacket)
        BY <3>1, <3>2
      <4> QED
        BY <4>1, ConcatTwice, Zenon
    <3> QED
      BY <3>2, <3>3, <3>4 DEF rw, bp
  <2>4. wire \o (buffer \o ps) \in Seq(AnyPacket)
    BY <2>2, <2>3, ConcatIsPackets, Zenon
  <2>5. rest \in Seq(AnyPacket) /\ Line = received \o rest
    <3>1. Line = received \o wire \o buffer \o ps
      BY <2>2 DEF LineOf
    <3> QED
      BY <2>3, <2>4, <3>1 DEF ps
  <2> HIDE DEF rest
  <2> QED
    BY <2>1, <2>2, <2>5, InLineFront
<1> QED
  BY <1>1, <1>2, <1>3, <1>4 DEF PacketsAccounted, Numbering, Buffering, InOrderUntilLoss

(* ChannelInv is inductive: it holds throughout.                            *)
THEOREM ChannelInvariant == ChannelSpec => []ChannelInv
<1>1. ASSUME ChannelInv, [ChannelNext]_channelVars
      PROVE  ChannelInv'
  <2>1. /\ ChannelTypeOK /\ Numbering /\ HeldApart /\ WaitersAsk /\ StoppedIsEmpty
        /\ Buffering /\ BeforeLoss
    BY <1>1 DEF ChannelInv
  <2>2. ChannelTypeOK' /\ Numbering' /\ HeldApart' /\ WaitersAsk'
    BY <1>1, <2>1, TypesStep, NumberingStep, Moves, WaitersStep
  <2>3. StoppedIsEmpty' /\ Buffering' /\ BeforeLoss'
    BY <1>1, <2>1, StoppedStep, BufferingStep, LossStep
  <2> QED
    BY <2>2, <2>3 DEF ChannelInv
<1> QED
  BY <1>1, InitChannel, PTL DEF ChannelSpec

(* A packet keeps its number and is held once, through every retry, and a   *)
(* waiting call of publish_data has exactly one request with the task.      *)
THEOREM PacketsAlwaysAccounted == ChannelSpec => []PacketsAccounted
<1>1. ChannelInv => PacketsAccounted
  BY InvariantSays
<1> QED
  BY <1>1, ChannelInvariant, PTL

(* The task's amount is what is buffered and what it was not told of yet.   *)
THEOREM AmountAlwaysExact == ChannelSpec => []AmountIsExact
<1>1. ChannelInv => AmountIsExact
  BY InvariantSays
<1> QED
  BY <1>1, ChannelInvariant, PTL

(* The channel's buffer has at most one packet above a threshold.           *)
THEOREM BufferAlwaysBounded == ChannelSpec => []BufferIsBounded
<1>1. ChannelInv => BufferIsBounded
  BY InvariantSays
<1> QED
  BY <1>1, ChannelInvariant, PTL

(* Before a connection is lost, packets are received in order, without gap. *)
THEOREM AlwaysInOrderUntilLoss == ChannelSpec => []InOrderUntilLoss
<1>1. ChannelInv => InOrderUntilLoss
  BY InvariantSays
<1> QED
  BY <1>1, ChannelInvariant, PTL

================================================================================
