--------------------------- MODULE RpcServer_proofs ----------------------------
(***************************************************************************)
(* Proofs about RpcServer, for lists of every length.  The messages, and   *)
(* what is freed, are sequences of sequences in a row; what such a row     *)
(* holds is proved first, by induction on the number of its parts: the     *)
(* library's theorem that < is well founded gives a set of numbers without *)
(* a least element that is not there (NumbersByInduction).                 *)
(***************************************************************************)
EXTENDS RpcServer, WellFoundedInduction, SequenceTheorems, TLAPS

-----------------------------------------------------------------------------
(* Induction, and sequences of sequences in a row.                         *)

\* A set of numbers that has 0, and n + 1 with n, has all of them.
LEMMA NumbersByInduction ==
    ASSUME NEW S, 0 \in S, \A n \in Nat : n \in S => n + 1 \in S
    PROVE  \A n \in Nat : n \in S
<1> DEFINE Missing == {n \in Nat : n \notin S}
<1>1. SUFFICES ASSUME Missing # {}
               PROVE  FALSE
  OBVIOUS
<1>2. PICK i \in Missing : \A j \in Missing : ~(<<j, i>> \in OpToRel(<, Nat))
  BY <1>1, NatLessThanWellFounded, WFMin, Zenon
<1>3. \A j \in Missing : ~(j < i)
  BY <1>2 DEF OpToRel
<1>4. i # 0 /\ i - 1 \in Nat /\ i - 1 \notin Missing
  BY <1>3
<1>5. i - 1 \in S /\ (i - 1) + 1 = i
  BY <1>4
<1> QED
  BY <1>4, <1>5

\* What the recursion of FlattenSeq computes: the first k sequences in a row.
Row(f, ss, n) == f = [i \in 1 .. n |-> IF i = 1 THEN ss[i] ELSE f[i - 1] \o ss[i]]

LEMMA RowAt ==
    ASSUME NEW f, NEW ss, NEW n, Row(f, ss, n), NEW i \in 1 .. n
    PROVE  f[i] = IF i = 1 THEN ss[i] ELSE f[i - 1] \o ss[i]
<1> DEFINE e(k) == IF k = 1 THEN ss[k] ELSE f[k - 1] \o ss[k]
<1>1. f = [k \in 1 .. n |-> e(k)]
  BY DEF Row
<1> HIDE DEF e
<1>2. f[i] = e(i)
  BY <1>1
<1> QED
  BY <1>2 DEF e

LEMMA RowExists ==
    ASSUME NEW ss
    PROVE  \A n \in Nat : \E f : Row(f, ss, n)
<1> DEFINE S == {n \in Nat : \E f : Row(f, ss, n)}
<1>1. 0 \in S
  <2>1. Row(<<>>, ss, 0)
    BY DEF Row
  <2> QED
    BY <2>1
<1>2. ASSUME NEW n \in Nat, n \in S
      PROVE  n + 1 \in S
  <2>1. PICK f : Row(f, ss, n)
    BY <1>2
  <2> DEFINE g == [i \in 1 .. n + 1 |-> IF i = 1 THEN ss[i] ELSE f[i - 1] \o ss[i]]
  <2>2. \A i \in 1 .. n : g[i] = f[i]
    <3>1. \A i \in 1 .. n : f[i] = IF i = 1 THEN ss[i] ELSE f[i - 1] \o ss[i]
      BY <2>1, RowAt
    <3>2. \A i \in 1 .. n : i \in 1 .. n + 1
      OBVIOUS
    <3> QED
      BY <3>1, <3>2, Zenon
  <2>3. g = [i \in 1 .. n + 1 |-> IF i = 1 THEN ss[i] ELSE g[i - 1] \o ss[i]]
    <3>1. \A i \in 1 .. n + 1 : i = 1 \/ i - 1 \in 1 .. n
      OBVIOUS
    <3>2. \A i \in 1 .. n + 1 : i = 1 \/ g[i - 1] = f[i - 1]
      BY <2>2, <3>1, Zenon
    <3> HIDE DEF g
    <3>3. \A i \in 1 .. n + 1 :
              (IF i = 1 THEN ss[i] ELSE f[i - 1] \o ss[i]) = (IF i = 1 THEN ss[i] ELSE g[i - 1] \o ss[i])
      BY <3>2, Zenon
    <3>4. g = [i \in 1 .. n + 1 |-> IF i = 1 THEN ss[i] ELSE f[i - 1] \o ss[i]]
      BY Zenon DEF g
    <3> QED
      BY <3>3, <3>4, Zenon
  <2>4. Row(g, ss, n + 1)
    BY <2>3 DEF Row
  <2> QED
    BY <2>4
<1> HIDE DEF S
<1>3. \A n \in Nat : n \in S
  BY <1>1, <1>2, NumbersByInduction
<1> QED
  BY <1>3 DEF S

LEMMA RowUnique ==
    ASSUME NEW ss, NEW tt, NEW m \in Nat, NEW n \in Nat, NEW f, NEW g,
           Row(f, ss, m), Row(g, tt, n), \A i \in 1 .. n : i <= m /\ ss[i] = tt[i]
    PROVE  \A i \in 1 .. n : g[i] = f[i]
<1> DEFINE S == {i \in Nat : i \in 1 .. n => g[i] = f[i]}
<1>1. 0 \in S
  OBVIOUS
<1>2. ASSUME NEW i \in Nat, i \in S
      PROVE  i + 1 \in S
  <2>1. CASE i + 1 \notin 1 .. n
    BY <2>1
  <2>2. CASE i + 1 \in 1 .. n
    <3>1. /\ g[i + 1] = IF i + 1 = 1 THEN tt[i + 1] ELSE g[(i + 1) - 1] \o tt[i + 1]
          /\ f[i + 1] = IF i + 1 = 1 THEN ss[i + 1] ELSE f[(i + 1) - 1] \o ss[i + 1]
          /\ ss[i + 1] = tt[i + 1]
      <4>1. i + 1 \in 1 .. m
        BY <2>2
      <4> QED
        BY <2>2, <4>1, RowAt
    <3>2. i + 1 = 1 \/ (i \in 1 .. n /\ (i + 1) - 1 = i)
      BY <2>2
    <3> QED
      BY <1>2, <3>1, <3>2
  <2> QED
    BY <2>1, <2>2
<1> HIDE DEF S
<1>3. \A i \in Nat : i \in S
  BY <1>1, <1>2, NumbersByInduction
<1> QED
  BY <1>3 DEF S

\* FlattenSeq is the last of the row.
LEMMA FlattenIsRow ==
    ASSUME NEW n \in Nat, n > 0, NEW ss, ss = [i \in 1 .. n |-> ss[i]]
    PROVE  \E f : Row(f, ss, n) /\ FlattenSeq(ss) = f[n]
<1>1. Len(ss) = n
  OBVIOUS
<1>2. \E f : Row(f, ss, n)
  BY RowExists
<1> DEFINE h == CHOOSE f : Row(f, ss, n)
<1>3. Row(h, ss, n)
  BY <1>2
<1>4. FlattenSeq(ss) = h[n]
  BY <1>1 DEF FlattenSeq, Row
<1> QED
  BY <1>3, <1>4

LEMMA FlattenEmpty == FlattenSeq(<<>>) = <<>>
BY DEF FlattenSeq

LEMMA FlattenLast ==
    ASSUME NEW n \in Nat, n > 0, NEW ss, ss = [i \in 1 .. n |-> ss[i]]
    PROVE  FlattenSeq(ss) = IF n = 1 THEN ss[1] ELSE FlattenSeq([i \in 1 .. n - 1 |-> ss[i]]) \o ss[n]
<1>1. PICK f : Row(f, ss, n) /\ FlattenSeq(ss) = f[n]
  BY FlattenIsRow
<1>2. CASE n = 1
  <2>1. 1 \in 1 .. n
    BY <1>2
  <2> QED
    BY <1>1, <1>2, <2>1, RowAt
<1>3. CASE n # 1
  <2>1. n - 1 \in Nat /\ n - 1 > 0 /\ n \in 1 .. n /\ n - 1 \in 1 .. n - 1
    BY <1>3
  <2> DEFINE front == [i \in 1 .. n - 1 |-> ss[i]]
  <2>2. PICK g : Row(g, front, n - 1) /\ FlattenSeq(front) = g[n - 1]
    <3>1. front = [i \in 1 .. n - 1 |-> front[i]]
      OBVIOUS
    <3> HIDE DEF front
    <3> QED
      BY <2>1, <3>1, FlattenIsRow
  <2>3. \A i \in 1 .. n - 1 : i <= n /\ ss[i] = front[i]
    OBVIOUS
  <2>4. g[n - 1] = f[n - 1]
    <3> HIDE DEF front
    <3>1. \A i \in 1 .. n - 1 : g[i] = f[i]
      BY ONLY <1>1, <2>1, <2>2, <2>3, n \in Nat, RowUnique, SMTT(30)
    <3> QED
      BY <2>1, <3>1
  <2>5. f[n] = f[n - 1] \o ss[n]
    <3>1. \A i \in 1 .. n : f[i] = IF i = 1 THEN ss[i] ELSE f[i - 1] \o ss[i]
      BY <1>1, RowAt
    <3> QED
      BY <1>3, <2>1, <3>1
  <2> QED
    BY <1>1, <1>3, <2>2, <2>4, <2>5
<1> QED
  BY <1>2, <1>3

-----------------------------------------------------------------------------
(* What a sequence of sequences has in a row.                              *)

IsSeq(s) == s \in Seq(Range(s))

\* A function whose domain is 1 .. n is a sequence,
LEMMA FunctionIsSeq ==
    ASSUME NEW n \in Nat, NEW s, s = [i \in 1 .. n |-> s[i]]
    PROVE  IsSeq(s) /\ Len(s) = n /\ DOMAIN s = 1 .. n
<1>1. DOMAIN s = 1 .. n
  OBVIOUS
<1>2. \A i \in 1 .. n : s[i] \in Range(s)
  BY <1>1 DEF Range
<1>3. s \in [1 .. n -> Range(s)]
  BY <1>1, <1>2
<1>4. s \in Seq(Range(s))
  BY <1>3, SeqDef
<1>5. Len(s) = n
  BY <1>1, <1>4
<1>6. IsSeq(s)
  BY ONLY <1>4 DEF IsSeq
<1> QED
  BY ONLY <1>1, <1>5, <1>6

\* and a sequence is one.
LEMMA SeqIs ==
    ASSUME NEW s, IsSeq(s)
    PROVE  Len(s) \in Nat /\ DOMAIN s = 1 .. Len(s) /\ s = [i \in 1 .. Len(s) |-> s[i]]
BY DEF IsSeq

LEMMA RowOfTwo ==
    ASSUME NEW a, NEW b, IsSeq(a), IsSeq(b)
    PROVE  /\ IsSeq(a \o b) /\ Range(a \o b) = Range(a) \cup Range(b)
           /\ Len(a \o b) = Len(a) + Len(b)
           /\ \A i \in 1 .. Len(a) : (a \o b)[i] = a[i]
           /\ \A i \in 1 .. Len(b) : (a \o b)[Len(a) + i] = b[i]
<1> DEFINE S == Range(a) \cup Range(b)
<1>1. a \in Seq(S) /\ b \in Seq(S)
  BY DEF IsSeq
<1>2. /\ a \o b \in Seq(S) /\ Len(a \o b) = Len(a) + Len(b)
      /\ \A i \in 1 .. Len(a) + Len(b) : (a \o b)[i] = IF i <= Len(a) THEN a[i] ELSE b[i - Len(a)]
  BY <1>1, ConcatProperties
<1>3. /\ Len(a) \in Nat /\ Len(b) \in Nat /\ DOMAIN a = 1 .. Len(a) /\ DOMAIN b = 1 .. Len(b)
      /\ DOMAIN (a \o b) = 1 .. Len(a) + Len(b)
  BY <1>1, <1>2
<1>4. \A i \in 1 .. Len(a) : (a \o b)[i] = a[i]
  BY <1>2, <1>3
<1>5. \A i \in 1 .. Len(b) : (a \o b)[Len(a) + i] = b[i]
  <2>1. ASSUME NEW i \in 1 .. Len(b)
        PROVE  (a \o b)[Len(a) + i] = b[i]
    <3>1. Len(a) + i \in 1 .. Len(a) + Len(b) /\ ~(Len(a) + i <= Len(a)) /\ (Len(a) + i) - Len(a) = i
      BY <1>3
    <3> QED
      BY <1>2, <3>1
  <2> QED
    BY <2>1
<1>6. Range(a \o b) = S
  <2>1. \A i \in 1 .. Len(a) + Len(b) : (a \o b)[i] \in S
    BY <1>2, <1>3, ElementOfSeq
  <2>2. ASSUME NEW x \in Range(a)
        PROVE  x \in Range(a \o b)
    <3>1. PICK i \in 1 .. Len(a) : x = a[i]
      BY <1>3 DEF Range
    <3>2. i \in DOMAIN (a \o b)
      BY <1>3
    <3> QED
      BY <1>4, <3>1, <3>2 DEF Range
  <2>3. ASSUME NEW x \in Range(b)
        PROVE  x \in Range(a \o b)
    <3>1. PICK i \in 1 .. Len(b) : x = b[i]
      BY <1>3 DEF Range
    <3>2. Len(a) + i \in DOMAIN (a \o b)
      BY <1>3
    <3> QED
      BY <1>5, <3>1, <3>2 DEF Range
  <2> QED
    BY <1>3, <2>1, <2>2, <2>3 DEF Range
<1> QED
  BY <1>2, <1>4, <1>5, <1>6 DEF IsSeq

LEMMA RowsJoin ==
    ASSUME NEW a, NEW b, NEW c, NEW d, IsSeq(a), IsSeq(b), IsSeq(c), IsSeq(d)
    PROVE  ((a \o b) \o c) \o d = a \o ((b \o c) \o d)
<1> DEFINE S == Range(a) \cup Range(b) \cup Range(c) \cup Range(d)
<1>1. a \in Seq(S) /\ b \in Seq(S) /\ c \in Seq(S) /\ d \in Seq(S)
  BY DEF IsSeq
<1> HIDE DEF S
<1> PICK e : e = b \o c
  OBVIOUS
<1>2. e \in Seq(S)
  BY <1>1, ConcatProperties
<1>3. (a \o e) \o d = a \o (e \o d)
  BY ONLY <1>1, <1>2, SMTT(30)
<1>4. (a \o b) \o c = a \o (b \o c)
  BY ONLY <1>1, SMTT(30)
<1>5. e = b \o c
  OBVIOUS
<1> QED
  BY ONLY <1>3, <1>4, <1>5

Sequences(ss, n) == ss = [i \in 1 .. n |-> ss[i]] /\ \A i \in 1 .. n : IsSeq(ss[i])

\* The row is that of all but the last, and the last,
LEMMA FlattenGrows ==
    ASSUME NEW n \in Nat, NEW ss, Sequences(ss, n + 1)
    PROVE  /\ Sequences([i \in 1 .. n |-> ss[i]], n)
           /\ FlattenSeq(ss) = FlattenSeq([i \in 1 .. n |-> ss[i]]) \o ss[n + 1]
<1> DEFINE front == [i \in 1 .. n |-> ss[i]]
<1>1. Sequences(front, n)
  BY DEF Sequences
<1>2. FlattenSeq(ss) = IF n + 1 = 1 THEN ss[1] ELSE FlattenSeq([i \in 1 .. (n + 1) - 1 |-> ss[i]]) \o ss[n + 1]
  <2>1. n + 1 \in Nat /\ n + 1 > 0
    OBVIOUS
  <2> QED
    BY <2>1, FlattenLast DEF Sequences
<1>3. (n + 1) - 1 = n
  OBVIOUS
<1>4. CASE n = 0
  <2>1. front = <<>>
    BY <1>4
  <2>2. <<>> \o ss[1] = ss[1]
    <3>1. IsSeq(ss[1])
      BY <1>4 DEF Sequences
    <3> QED
      BY <3>1, ConcatEmptySeq DEF IsSeq
  <2>3. n + 1 = 1 /\ FlattenSeq(ss) = ss[1]
    BY <1>2, <1>4
  <2> QED
    BY <1>1, <1>4, <2>1, <2>2, <2>3, FlattenEmpty
<1>5. CASE n # 0
  BY <1>1, <1>2, <1>3, <1>5
<1> QED
  BY <1>4, <1>5

\* and its elements are theirs.
LEMMA FlattenElements ==
    ASSUME NEW n \in Nat, NEW ss, Sequences(ss, n)
    PROVE  IsSeq(FlattenSeq(ss)) /\ Range(FlattenSeq(ss)) = UNION {Range(ss[i]) : i \in 1 .. n}
<1> DEFINE Good(m, tt) == IsSeq(FlattenSeq(tt)) /\ Range(FlattenSeq(tt)) = UNION {Range(tt[i]) : i \in 1 .. m}
           S == {m \in Nat : \A tt : Sequences(tt, m) => Good(m, tt)}
<1>1. 0 \in S
  <2>1. ASSUME NEW tt, Sequences(tt, 0)
        PROVE  Good(0, tt)
    <3>1. tt = <<>>
      BY <2>1 DEF Sequences
    <3>2. IsSeq(<<>>) /\ Range(<<>>) = {}
      BY DEF IsSeq, Range
    <3>3. UNION {Range(tt[i]) : i \in 1 .. 0} = {}
      OBVIOUS
    <3> QED
      BY <3>1, <3>2, <3>3, FlattenEmpty
  <2> HIDE DEF Good
  <2> QED
    BY <2>1
<1>2. ASSUME NEW m \in Nat, m \in S
      PROVE  m + 1 \in S
  <2>1. ASSUME NEW tt, Sequences(tt, m + 1)
        PROVE  Good(m + 1, tt)
    <3> DEFINE front == [i \in 1 .. m |-> tt[i]]
    <3>1. Sequences(front, m) /\ FlattenSeq(tt) = FlattenSeq(front) \o tt[m + 1]
      BY <2>1, FlattenGrows
    <3>2. Good(m, front)
      BY <1>2, <3>1
    <3>3. IsSeq(tt[m + 1])
      BY <2>1 DEF Sequences
    <3>4. /\ IsSeq(FlattenSeq(tt))
          /\ Range(FlattenSeq(tt)) = Range(FlattenSeq(front)) \cup Range(tt[m + 1])
      <4> HIDE DEF front
      <4>1. IsSeq(FlattenSeq(front))
        BY <3>2
      <4> QED
        BY <3>1, <3>3, <4>1, RowOfTwo
    <3>5. UNION {Range(tt[i]) : i \in 1 .. m + 1} = (UNION {Range(front[i]) : i \in 1 .. m}) \cup Range(tt[m + 1])
      <4>1. \A i \in 1 .. m + 1 : i \in 1 .. m \/ i = m + 1
        OBVIOUS
      <4>2. \A i \in 1 .. m : front[i] = tt[i] /\ i \in 1 .. m + 1
        OBVIOUS
      <4>3. m + 1 \in 1 .. m + 1
        OBVIOUS
      <4> HIDE DEF front
      <4>4. ASSUME NEW x
            PROVE  (\E i \in 1 .. m + 1 : x \in Range(tt[i]))
                       <=> (\E i \in 1 .. m : x \in Range(front[i])) \/ x \in Range(tt[m + 1])
        BY <4>1, <4>2, <4>3
      <4>5. ASSUME NEW x
            PROVE  /\ x \in UNION {Range(tt[i]) : i \in 1 .. m + 1} <=> \E i \in 1 .. m + 1 : x \in Range(tt[i])
                   /\ x \in UNION {Range(front[i]) : i \in 1 .. m} <=> \E i \in 1 .. m : x \in Range(front[i])
        OBVIOUS
      <4> QED
        BY <4>4, <4>5
    <3> QED
      BY <3>2, <3>4, <3>5
  <2> HIDE DEF Good
  <2> QED
    BY <2>1
<1> HIDE DEF S
<1>3. n \in S
  BY <1>1, <1>2, NumbersByInduction
<1> QED
  BY <1>3 DEF S

\* Two sequences without repetition that share nothing have none in a row,
LEMMA InjectiveTwo ==
    ASSUME NEW a, NEW b, IsSeq(a), IsSeq(b), IsInjective(a), IsInjective(b), Range(a) \cap Range(b) = {}
    PROVE  IsInjective(a \o b)
<1> DEFINE c == a \o b
<1>1. PICK la \in Nat, lb \in Nat : la = Len(a) /\ lb = Len(b)
  BY SeqIs
<1>2. /\ DOMAIN a = 1 .. la /\ DOMAIN b = 1 .. lb /\ DOMAIN c = 1 .. la + lb
      /\ \A i \in 1 .. la : c[i] = a[i] /\ a[i] \in Range(a)
      /\ \A i \in 1 .. lb : c[la + i] = b[i] /\ b[i] \in Range(b)
  BY <1>1, SeqIs, RowOfTwo DEF Range
<1>3. \A i \in 1 .. la + lb : i \in 1 .. la \/ \E j \in 1 .. lb : i = la + j
  <2>1. ASSUME NEW i \in 1 .. la + lb, i \notin 1 .. la
        PROVE  \E j \in 1 .. lb : i = la + j
    <3>1. i - la \in 1 .. lb /\ i = la + (i - la)
      BY <2>1
    <3> QED
      BY <3>1
  <2> QED
    BY <2>1
<1> HIDE DEF c
<1>4. ASSUME NEW i \in 1 .. la + lb, NEW j \in 1 .. la + lb, c[i] = c[j]
      PROVE  i = j
  <2>1. CASE i \in 1 .. la /\ j \in 1 .. la
    BY <1>2, <1>4, <2>1 DEF IsInjective
  <2>2. CASE i \notin 1 .. la /\ j \notin 1 .. la
    <3>1. PICK k \in 1 .. lb, l \in 1 .. lb : i = la + k /\ j = la + l
      BY <1>3, <2>2
    <3>2. b[k] = b[l]
      BY <1>2, <1>4, <3>1
    <3>3. k = l
      BY <1>2, <3>2 DEF IsInjective
    <3> QED
      BY <3>1, <3>3
  <2>3. CASE i \in 1 .. la /\ j \notin 1 .. la
    <3>1. PICK l \in 1 .. lb : j = la + l
      BY <1>3, <2>3
    <3>2. c[i] \in Range(a) /\ c[j] \in Range(b)
      BY <1>2, <2>3, <3>1
    <3> QED
      BY <1>4, <3>2
  <2>4. CASE i \notin 1 .. la /\ j \in 1 .. la
    <3>1. PICK l \in 1 .. lb : i = la + l
      BY <1>3, <2>4
    <3>2. c[j] \in Range(a) /\ c[i] \in Range(b)
      BY <1>2, <2>4, <3>1
    <3> QED
      BY <1>4, <3>2
  <2> QED
    BY <2>1, <2>2, <2>3, <2>4
<1> QED
  BY <1>2, <1>4 DEF IsInjective, c

Apart(ss, n) ==
    /\ \A i \in 1 .. n : IsInjective(ss[i])
    /\ \A i, j \in 1 .. n : i # j => Range(ss[i]) \cap Range(ss[j]) = {}

\* nor have many.
LEMMA InjectiveFlatten ==
    ASSUME NEW n \in Nat, NEW ss, Sequences(ss, n), Apart(ss, n)
    PROVE  IsInjective(FlattenSeq(ss))
<1> DEFINE S == {m \in Nat : \A tt : Sequences(tt, m) /\ Apart(tt, m) => IsInjective(FlattenSeq(tt))}
<1>1. 0 \in S
  <2>1. ASSUME NEW tt, Sequences(tt, 0)
        PROVE  IsInjective(FlattenSeq(tt))
    <3>1. tt = <<>>
      BY <2>1 DEF Sequences
    <3> QED
      BY <3>1, FlattenEmpty DEF IsInjective
  <2> QED
    BY <2>1
<1>2. ASSUME NEW m \in Nat, m \in S
      PROVE  m + 1 \in S
  <2>1. ASSUME NEW tt, Sequences(tt, m + 1), Apart(tt, m + 1)
        PROVE  IsInjective(FlattenSeq(tt))
    <3> DEFINE front == [i \in 1 .. m |-> tt[i]]
               row == FlattenSeq(front)
    <3>1. Sequences(front, m) /\ FlattenSeq(tt) = row \o tt[m + 1]
      BY <2>1, FlattenGrows
    <3>2. m + 1 \in 1 .. m + 1 /\ \A i \in 1 .. m : i \in 1 .. m + 1 /\ i # m + 1 /\ front[i] = tt[i]
      OBVIOUS
    <3> HIDE DEF front
    <3>3. Apart(front, m)
      BY <2>1, <3>2 DEF Apart
    <3>4. IsInjective(row)
      BY <1>2, <3>1, <3>3
    <3>5. IsSeq(row) /\ Range(row) = UNION {Range(front[i]) : i \in 1 .. m}
      BY <3>1, FlattenElements
    <3>6. IsSeq(tt[m + 1]) /\ IsInjective(tt[m + 1])
      BY <2>1, <3>2 DEF Sequences, Apart
    <3>7. Range(row) \cap Range(tt[m + 1]) = {}
      <4>1. ASSUME NEW x \in Range(row), x \in Range(tt[m + 1])
            PROVE  FALSE
        <5>1. PICK i \in 1 .. m : x \in Range(tt[i])
          BY <3>2, <3>5
        <5>2. Range(tt[i]) \cap Range(tt[m + 1]) = {}
          BY <2>1, <3>2 DEF Apart
        <5> QED
          BY <4>1, <5>1, <5>2
      <4> QED
        BY <4>1
    <3> HIDE DEF row
    <3>8. IsInjective(row \o tt[m + 1])
      BY <3>4, <3>5, <3>6, <3>7, InjectiveTwo
    <3> QED
      BY <3>1, <3>8
  <2> QED
    BY <2>1
<1> HIDE DEF S
<1>3. n \in S
  BY <1>1, <1>2, NumbersByInduction
<1> QED
  BY <1>3 DEF S

-----------------------------------------------------------------------------
(* The leaves of parameters.                                               *)

\* A layout is made of sequences.
IsLayout(layout) == IsSeq(layout.head) /\ IsSeq(layout.each)
AreParams(params) == IsSeq(params) /\ \A i \in DOMAIN params : IsLayout(params[i].layout)

ListLeaf(p) == [type |-> "list", path |-> Elements(p)]
HeadLeaves(param) == [i \in DOMAIN param.layout.head |-> At(param.name, 0, param.layout.head[i])]
EachLeaves(param, k) == [i \in DOMAIN param.layout.each |-> At(param.name, k, param.layout.each[i])]
Body(param, n) == FlattenSeq([k \in 1 .. n |-> EachLeaves(param, k)])

LEMMA LeavesParts ==
    ASSUME NEW param, NEW n
    PROVE  Leaves(param, n) =
              IF IsList(param.layout) THEN HeadLeaves(param) \o <<ListLeaf(param.name)>> \o Body(param, n)
              ELSE HeadLeaves(param)
BY Zenon DEF Leaves, HeadLeaves, EachLeaves, Body, ListLeaf

LEMMA BodyElements ==
    ASSUME NEW param, IsLayout(param.layout), NEW n \in Nat
    PROVE  /\ IsSeq(Body(param, n))
           /\ Range(Body(param, n)) = {At(param.name, k, leaf) : k \in 1 .. n, leaf \in Range(param.layout.each)}
<1> DEFINE ss == [k \in 1 .. n |-> EachLeaves(param, k)]
<1>1. PICK l \in Nat : DOMAIN param.layout.each = 1 .. l
  BY SeqIs DEF IsLayout
<1>2. \A k \in 1 .. n : /\ IsSeq(EachLeaves(param, k))
                        /\ Range(EachLeaves(param, k)) = {At(param.name, k, leaf) : leaf \in Range(param.layout.each)}
  <2>1. ASSUME NEW k \in 1 .. n
        PROVE  /\ IsSeq(EachLeaves(param, k))
               /\ Range(EachLeaves(param, k)) = {At(param.name, k, leaf) : leaf \in Range(param.layout.each)}
    <3>1. EachLeaves(param, k) = [i \in 1 .. l |-> At(param.name, k, param.layout.each[i])]
      BY <1>1 DEF EachLeaves
    <3>2. EachLeaves(param, k) = [i \in 1 .. l |-> EachLeaves(param, k)[i]]
      BY <3>1
    <3>3. IsSeq(EachLeaves(param, k))
      BY <3>2, FunctionIsSeq
    <3>4. Range(EachLeaves(param, k)) = {At(param.name, k, leaf) : leaf \in Range(param.layout.each)}
      BY <1>1, <3>1 DEF Range
    <3> QED
      BY <3>3, <3>4
  <2> QED
    BY <2>1
<1>3. Sequences(ss, n)
  BY <1>2 DEF Sequences
<1>4. IsSeq(FlattenSeq(ss)) /\ Range(FlattenSeq(ss)) = UNION {Range(ss[k]) : k \in 1 .. n}
  <2> HIDE DEF ss
  <2> QED
    BY <1>3, FlattenElements
<1>5. UNION {Range(ss[k]) : k \in 1 .. n} = {At(param.name, k, leaf) : k \in 1 .. n, leaf \in Range(param.layout.each)}
  BY <1>2
<1> QED
  BY <1>4, <1>5 DEF Body

\* The leaves of one parameter as a set,
LeafSet(param, n) ==
    {At(param.name, 0, leaf) : leaf \in Range(param.layout.head)}
    \cup (IF IsList(param.layout)
          THEN {ListLeaf(param.name)} \cup {At(param.name, k, leaf) : k \in 1 .. n, leaf \in Range(param.layout.each)}
          ELSE {})

LEMMA HeadElements ==
    ASSUME NEW param, IsLayout(param.layout)
    PROVE  /\ IsSeq(HeadLeaves(param))
           /\ Range(HeadLeaves(param)) = {At(param.name, 0, leaf) : leaf \in Range(param.layout.head)}
<1>1. PICK l \in Nat : DOMAIN param.layout.head = 1 .. l
  BY SeqIs DEF IsLayout
<1>2. HeadLeaves(param) = [i \in 1 .. l |-> At(param.name, 0, param.layout.head[i])]
  BY <1>1 DEF HeadLeaves
<1>3. HeadLeaves(param) = [i \in 1 .. l |-> HeadLeaves(param)[i]]
  BY <1>2
<1>4. IsSeq(HeadLeaves(param))
  BY <1>3, FunctionIsSeq
<1> QED
  BY <1>1, <1>2, <1>4 DEF Range

LEMMA OneInARow ==
    ASSUME NEW x
    PROVE  IsSeq(<<x>>) /\ Range(<<x>>) = {x} /\ IsInjective(<<x>>)
BY DEF IsSeq, Range, IsInjective

LEMMA LeavesElements ==
    ASSUME NEW param, IsLayout(param.layout), NEW n \in Nat
    PROVE  IsSeq(Leaves(param, n)) /\ Range(Leaves(param, n)) = LeafSet(param, n)
<1>1. /\ IsSeq(HeadLeaves(param))
      /\ Range(HeadLeaves(param)) = {At(param.name, 0, leaf) : leaf \in Range(param.layout.head)}
  BY HeadElements
<1>2. CASE IsList(param.layout)
  <2>1. PICK one : one = <<ListLeaf(param.name)>>
    OBVIOUS
  <2>2. IsSeq(one) /\ Range(one) = {ListLeaf(param.name)}
    BY <2>1, OneInARow
  <2>3. IsSeq(HeadLeaves(param) \o one) /\ Range(HeadLeaves(param) \o one) = Range(HeadLeaves(param)) \cup Range(one)
    BY <1>1, <2>2, RowOfTwo
  <2>4. PICK body : body = Body(param, n)
    OBVIOUS
  <2>5. IsSeq(body) /\ Range(body) = {At(param.name, k, leaf) : k \in 1 .. n, leaf \in Range(param.layout.each)}
    BY <2>4, BodyElements, SMTT(30)
  <2>6. PICK front : front = HeadLeaves(param) \o one
    OBVIOUS
  <2>7. IsSeq(front \o body) /\ Range(front \o body) = Range(front) \cup Range(body)
    BY <2>3, <2>5, <2>6, RowOfTwo
  <2>8. Leaves(param, n) = front \o body
    BY <1>2, <2>1, <2>4, <2>6, LeavesParts
  <2> QED
    BY <1>1, <1>2, <2>2, <2>3, <2>5, <2>6, <2>7, <2>8 DEF LeafSet
<1>3. CASE ~IsList(param.layout)
  <2>1. Leaves(param, n) = HeadLeaves(param)
    BY <1>3, LeavesParts
  <2>2. LeafSet(param, n) = {At(param.name, 0, leaf) : leaf \in Range(param.layout.head)}
    BY <1>3 DEF LeafSet
  <2> QED
    BY <1>1, <2>1, <2>2
<1> QED
  BY <1>2, <1>3

\* and those of several.
LEMMA AllLeavesElements ==
    ASSUME NEW params, AreParams(params), NEW n \in Nat
    PROVE  /\ IsSeq(AllLeaves(params, n))
           /\ Range(AllLeaves(params, n)) = UNION {LeafSet(params[i], n) : i \in DOMAIN params}
<1> DEFINE ss == [i \in DOMAIN params |-> Leaves(params[i], n)]
<1>1. PICK l \in Nat : DOMAIN params = 1 .. l
  BY SeqIs DEF AreParams
<1>2. \A i \in 1 .. l : IsSeq(Leaves(params[i], n)) /\ Range(Leaves(params[i], n)) = LeafSet(params[i], n)
  BY <1>1, LeavesElements DEF AreParams
<1>3. Sequences(ss, l)
  BY <1>1, <1>2 DEF Sequences
<1>4. IsSeq(FlattenSeq(ss)) /\ Range(FlattenSeq(ss)) = UNION {Range(ss[i]) : i \in 1 .. l}
  <2> HIDE DEF ss
  <2> QED
    BY <1>3, FlattenElements
<1>5. {Range(ss[i]) : i \in 1 .. l} = {LeafSet(params[i], n) : i \in DOMAIN params}
  BY <1>1, <1>2
<1> QED
  BY <1>4, <1>5 DEF AllLeaves

\* Only the last parameter is a list.
ListLast(params) == \A i \in DOMAIN params : IsList(params[i].layout) => i = Len(params)
NoListType(layout) == \A leaf \in Range(layout.head) \cup Range(layout.each) : leaf.type # "list"
Plain(s) == \A l \in Range(s) : l.type # "list"

\* The leaves of parameters that are no lists,
LEMMA NoLists ==
    ASSUME NEW params, AreParams(params), \A i \in DOMAIN params : ~IsList(params[i].layout), NEW n \in Nat
    PROVE  /\ AllLeaves(params, n) = AllLeaves(params, 0)
           /\ (\A i \in DOMAIN params : NoListType(params[i].layout)) => Plain(AllLeaves(params, n))
<1>1. \A i \in DOMAIN params : Leaves(params[i], n) = Leaves(params[i], 0)
  BY LeavesParts
<1>2. AllLeaves(params, n) = AllLeaves(params, 0)
  BY <1>1 DEF AllLeaves
<1>3. Range(AllLeaves(params, n)) = UNION {LeafSet(params[i], n) : i \in DOMAIN params}
  BY AllLeavesElements
<1>4. ASSUME \A i \in DOMAIN params : NoListType(params[i].layout), NEW l \in Range(AllLeaves(params, n))
      PROVE  l.type # "list"
  <2>1. PICK i \in DOMAIN params : l \in LeafSet(params[i], n)
    BY <1>3, <1>4
  <2>2. PICK leaf \in Range(params[i].layout.head) : l = At(params[i].name, 0, leaf)
    BY <2>1 DEF LeafSet
  <2>3. leaf.type # "list"
    BY <1>4 DEF NoListType
  <2> QED
    BY <2>2, <2>3 DEF At
<1> QED
  BY <1>2, <1>4 DEF Plain

\* the elements of a list,
LEMMA BodyPlain ==
    ASSUME NEW param, IsLayout(param.layout), NoListType(param.layout), NEW n \in Nat
    PROVE  Plain(Body(param, n))
<1>1. Range(Body(param, n)) = {At(param.name, k, leaf) : k \in 1 .. n, leaf \in Range(param.layout.each)}
  BY BodyElements
<1>2. ASSUME NEW l \in Range(Body(param, n))
      PROVE  l.type # "list"
  <2>1. PICK k \in 1 .. n, leaf \in Range(param.layout.each) : l = At(param.name, k, leaf)
    BY <1>1
  <2>2. leaf.type # "list"
    BY DEF NoListType
  <2> QED
    BY <2>1, <2>2 DEF At
<1> QED
  BY <1>2 DEF Plain

\* and those of parameters of which the last is a list: the leaf of the list is followed by
\* its elements.
LEMMA ListAtEnd ==
    ASSUME NEW params, AreParams(params), ListLast(params), params # <<>>,
           \A i \in DOMAIN params : NoListType(params[i].layout),
           NEW last, last = params[Len(params)], IsList(last.layout)
    PROVE  \E front : /\ IsSeq(front) /\ Plain(front)
                      /\ \A n \in Nat : AllLeaves(params, n) = (front \o <<ListLeaf(last.name)>>) \o Body(last, n)
<1>1. PICK l \in Nat : Len(params) = l + 1 /\ DOMAIN params = 1 .. l + 1
  <2>1. Len(params) \in Nat /\ DOMAIN params = 1 .. Len(params) /\ Len(params) # 0
    BY SeqIs, SMTT(30) DEF AreParams, IsSeq
  <2>2. PICK k \in Nat : k = Len(params)
    BY <2>1
  <2>3. k - 1 \in Nat /\ (k - 1) + 1 = k
    BY <2>1, <2>2
  <2> QED
    BY <2>1, <2>2, <2>3
<1> DEFINE before == [i \in 1 .. l |-> params[i]]
           front == AllLeaves(before, 0) \o HeadLeaves(last)
<1>2. DOMAIN before = 1 .. l /\ \A i \in 1 .. l : i \in DOMAIN params /\ i # l + 1 /\ before[i] = params[i]
  BY <1>1
<1>3. AreParams(before)
  <2>1. before = [i \in 1 .. l |-> before[i]]
    OBVIOUS
  <2> HIDE DEF before
  <2>2. IsSeq(before)
    BY <2>1, FunctionIsSeq
  <2> QED
    BY <1>2, <2>2 DEF AreParams
<1>4. /\ \A i \in DOMAIN before : ~IsList(before[i].layout)
      /\ \A i \in DOMAIN before : NoListType(before[i].layout)
  BY <1>1, <1>2 DEF ListLast
<1> HIDE DEF before
<1>5. l + 1 \in DOMAIN params /\ last = params[l + 1] /\ IsLayout(last.layout) /\ NoListType(last.layout)
  BY <1>1 DEF AreParams
<1>6. IsSeq(AllLeaves(before, 0)) /\ Plain(AllLeaves(before, 0))
  BY <1>3, <1>4, AllLeavesElements, NoLists
<1>7. IsSeq(HeadLeaves(last)) /\ Plain(HeadLeaves(last))
  <2>1. IsSeq(HeadLeaves(last)) /\ Range(HeadLeaves(last)) = {At(last.name, 0, leaf) : leaf \in Range(last.layout.head)}
    BY <1>5, HeadElements
  <2>2. \A leaf \in Range(last.layout.head) : At(last.name, 0, leaf).type # "list"
    BY <1>5 DEF NoListType, At
  <2> QED
    BY <2>1, <2>2 DEF Plain
<1>8. IsSeq(front) /\ Plain(front)
  BY <1>6, <1>7, RowOfTwo DEF Plain
<1>9. ASSUME NEW n \in Nat
      PROVE  AllLeaves(params, n) = (front \o <<ListLeaf(last.name)>>) \o Body(last, n)
  <2> DEFINE ss == [i \in DOMAIN params |-> Leaves(params[i], n)]
             fs == [i \in 1 .. l |-> ss[i]]
  <2>1. Sequences(ss, l + 1)
    <3>1. \A i \in 1 .. l + 1 : IsSeq(Leaves(params[i], n))
      BY <1>1, LeavesElements DEF AreParams
    <3> QED
      BY <1>1, <3>1 DEF Sequences
  <2>2. fs = [i \in DOMAIN before |-> Leaves(before[i], n)]
    <3>1. \A i \in 1 .. l : ss[i] = Leaves(before[i], n)
      BY <1>2
    <3> QED
      BY <1>2, <3>1
  <2>3. ss[l + 1] = Leaves(last, n)
    BY <1>5
  <2>4. FlattenSeq(ss) = FlattenSeq(fs) \o ss[l + 1]
    <3> HIDE DEF ss
    <3> QED
      BY <2>1, FlattenGrows
  <2>5. FlattenSeq(fs) = AllLeaves(before, n)
    BY <2>2 DEF AllLeaves
  <2>6. AllLeaves(before, n) = AllLeaves(before, 0)
    BY <1>3, <1>4, NoLists
  <2>7. AllLeaves(params, n) = AllLeaves(before, 0) \o Leaves(last, n)
    <3> HIDE DEF fs
    <3> QED
      BY <2>3, <2>4, <2>5, <2>6 DEF AllLeaves
  <2>8. Leaves(last, n) = (HeadLeaves(last) \o <<ListLeaf(last.name)>>) \o Body(last, n)
    BY LeavesParts
  <2>9. PICK a, b, c, d : a = AllLeaves(before, 0) /\ b = HeadLeaves(last) /\ c = <<ListLeaf(last.name)>> /\ d = Body(last, n)
    OBVIOUS
  <2>10. IsSeq(a) /\ IsSeq(b) /\ IsSeq(c) /\ IsSeq(d)
    BY <1>5, <1>6, <1>7, <2>9, OneInARow, BodyElements
  <2>11. ((a \o b) \o c) \o d = a \o ((b \o c) \o d)
    BY ONLY <2>10, RowsJoin, SMTT(60)
  <2> QED
    BY <2>7, <2>8, <2>9, <2>11
<1> QED
  BY <1>8, <1>9

-----------------------------------------------------------------------------
(* The shims.                                                              *)

LEMMA TheMethods ==
    Methods = {"AppendChunkToBlob", "GetLogMessage", "GetPLCID", "GetPLCstatus", "GetTraceVariables",
               "MatchMD5", "NewPLC", "PurgeBlobs", "RepairPLC", "ResetLogCount",
               "SeedBlob", "SetTraceVariablesList", "StartPLC", "StopPLC"}
BY DEF Methods, handleInvocation

LEMMA TheShims ==
    /\ handleInvocation["AppendChunkToBlob"] = AppendChunkToBlob_shim
    /\ handleInvocation["GetLogMessage"] = GetLogMessage_shim
    /\ handleInvocation["GetPLCID"] = GetPLCID_shim
    /\ handleInvocation["GetPLCstatus"] = GetPLCstatus_shim
    /\ handleInvocation["GetTraceVariables"] = GetTraceVariables_shim
    /\ handleInvocation["MatchMD5"] = MatchMD5_shim
    /\ handleInvocation["NewPLC"] = NewPLC_shim
    /\ handleInvocation["PurgeBlobs"] = PurgeBlobs_shim
    /\ handleInvocation["RepairPLC"] = RepairPLC_shim
    /\ handleInvocation["ResetLogCount"] = ResetLogCount_shim
    /\ handleInvocation["SeedBlob"] = SeedBlob_shim
    /\ handleInvocation["SetTraceVariablesList"] = SetTraceVariablesList_shim
    /\ handleInvocation["StartPLC"] = StartPLC_shim
    /\ handleInvocation["StopPLC"] = StopPLC_shim
BY DEF handleInvocation

LEMMA TheClients ==
    /\ BeremizPLCObjectService_client["AppendChunkToBlob"] = AppendChunkToBlob_client
    /\ BeremizPLCObjectService_client["GetLogMessage"] = GetLogMessage_client
    /\ BeremizPLCObjectService_client["GetPLCID"] = GetPLCID_client
    /\ BeremizPLCObjectService_client["GetPLCstatus"] = GetPLCstatus_client
    /\ BeremizPLCObjectService_client["GetTraceVariables"] = GetTraceVariables_client
    /\ BeremizPLCObjectService_client["MatchMD5"] = MatchMD5_client
    /\ BeremizPLCObjectService_client["NewPLC"] = NewPLC_client
    /\ BeremizPLCObjectService_client["PurgeBlobs"] = PurgeBlobs_client
    /\ BeremizPLCObjectService_client["RepairPLC"] = RepairPLC_client
    /\ BeremizPLCObjectService_client["ResetLogCount"] = ResetLogCount_client
    /\ BeremizPLCObjectService_client["SeedBlob"] = SeedBlob_client
    /\ BeremizPLCObjectService_client["SetTraceVariablesList"] = SetTraceVariablesList_client
    /\ BeremizPLCObjectService_client["StartPLC"] = StartPLC_client
    /\ BeremizPLCObjectService_client["StopPLC"] = StopPLC_client
BY DEF BeremizPLCObjectService_client

\* Short sequences.
LEMMA Tuples ==
    /\ IsSeq(<<>>) /\ Range(<<>>) = {} /\ Len(<<>>) = 0 /\ DOMAIN <<>> = {}
    /\ \A x : /\ IsSeq(<<x>>) /\ Range(<<x>>) = {x} /\ Len(<<x>>) = 1 /\ DOMAIN <<x>> = {1} /\ <<x>>[1] = x
    /\ \A x, y : /\ IsSeq(<<x, y>>) /\ Range(<<x, y>>) = {x, y} /\ Len(<<x, y>>) = 2
                 /\ DOMAIN <<x, y>> = {1, 2} /\ <<x, y>>[1] = x /\ <<x, y>>[2] = y
    /\ \A x, y, z : /\ IsSeq(<<x, y, z>>) /\ Range(<<x, y, z>>) = {x, y, z} /\ Len(<<x, y, z>>) = 3
                    /\ DOMAIN <<x, y, z>> = {1, 2, 3}
                    /\ <<x, y, z>>[1] = x /\ <<x, y, z>>[2] = y /\ <<x, y, z>>[3] = z
    /\ \A x, y, z, w : IsSeq(<<x, y, z, w>>) /\ Range(<<x, y, z, w>>) = {x, y, z, w}
<1>1. IsSeq(<<>>) /\ Range(<<>>) = {} /\ Len(<<>>) = 0 /\ DOMAIN <<>> = {}
  BY DEF IsSeq, Range
<1>2. ASSUME NEW x
      PROVE  IsSeq(<<x>>) /\ Range(<<x>>) = {x} /\ Len(<<x>>) = 1 /\ DOMAIN <<x>> = {1} /\ <<x>>[1] = x
  BY DEF IsSeq, Range
<1>3. ASSUME NEW x, NEW y
      PROVE  /\ IsSeq(<<x, y>>) /\ Range(<<x, y>>) = {x, y} /\ Len(<<x, y>>) = 2
             /\ DOMAIN <<x, y>> = {1, 2} /\ <<x, y>>[1] = x /\ <<x, y>>[2] = y
  BY DEF IsSeq, Range
<1>4. ASSUME NEW x, NEW y, NEW z
      PROVE  /\ IsSeq(<<x, y, z>>) /\ Range(<<x, y, z>>) = {x, y, z} /\ Len(<<x, y, z>>) = 3
             /\ DOMAIN <<x, y, z>> = {1, 2, 3}
             /\ <<x, y, z>>[1] = x /\ <<x, y, z>>[2] = y /\ <<x, y, z>>[3] = z
  <2> DOMAIN <<x, y, z>> = {1, 2, 3} /\ <<x, y, z>>[1] = x /\ <<x, y, z>>[2] = y /\ <<x, y, z>>[3] = z
    OBVIOUS
  <2> QED
    BY DEF IsSeq, Range
<1>5. ASSUME NEW x, NEW y, NEW z, NEW w
      PROVE  IsSeq(<<x, y, z, w>>) /\ Range(<<x, y, z, w>>) = {x, y, z, w}
  <2> /\ DOMAIN <<x, y, z, w>> = {1, 2, 3, 4}
      /\ <<x, y, z, w>>[1] = x /\ <<x, y, z, w>>[2] = y /\ <<x, y, z, w>>[3] = z /\ <<x, y, z, w>>[4] = w
    OBVIOUS
  <2> QED
    BY DEF IsSeq, Range
<1> QED
  BY <1>1, <1>2, <1>3, <1>4, <1>5

GoodLayout(l) == IsLayout(l) /\ NoListType(l)
GoodParams(params) == AreParams(params) /\ ListLast(params) /\ \A i \in DOMAIN params : NoListType(params[i].layout)

\* Parameters with good layouts, the last of which may be a list, are good.
LEMMA GoodTuples ==
    /\ GoodParams(<<>>)
    /\ \A p : GoodLayout(p.layout) => GoodParams(<<p>>)
    /\ \A p, q : GoodLayout(p.layout) /\ GoodLayout(q.layout) /\ ~IsList(p.layout) => GoodParams(<<p, q>>)
    /\ \A p, q, r : GoodLayout(p.layout) /\ GoodLayout(q.layout) /\ GoodLayout(r.layout)
                    /\ ~IsList(p.layout) /\ ~IsList(q.layout) => GoodParams(<<p, q, r>>)
<1>1. GoodParams(<<>>)
  BY Tuples DEF GoodParams, AreParams, ListLast
<1>2. ASSUME NEW p, GoodLayout(p.layout)
      PROVE  GoodParams(<<p>>)
  BY <1>2, Tuples DEF GoodParams, GoodLayout, AreParams, ListLast
<1>3. ASSUME NEW p, NEW q, GoodLayout(p.layout), GoodLayout(q.layout), ~IsList(p.layout)
      PROVE  GoodParams(<<p, q>>)
  <2> PICK s : s = <<p, q>>
    OBVIOUS
  <2>1. IsSeq(s) /\ Len(s) = 2 /\ DOMAIN s = {1, 2} /\ s[1] = p /\ s[2] = q
    BY Tuples
  <2> QED
    BY <1>3, <2>1 DEF GoodParams, GoodLayout, AreParams, ListLast
<1>4. ASSUME NEW p, NEW q, NEW r, GoodLayout(p.layout), GoodLayout(q.layout), GoodLayout(r.layout),
             ~IsList(p.layout), ~IsList(q.layout)
      PROVE  GoodParams(<<p, q, r>>)
  <2> PICK s : s = <<p, q, r>>
    OBVIOUS
  <2>1. IsSeq(s) /\ Len(s) = 3 /\ DOMAIN s = {1, 2, 3} /\ s[1] = p /\ s[2] = q /\ s[3] = r
    BY Tuples
  <2> QED
    BY <1>4, <2>1 DEF GoodParams, GoodLayout, AreParams, ListLast
<1> QED
  BY <1>1, <1>2, <1>3, <1>4

\* The layouts there are.
LEMMA StructLayout ==
    ASSUME NEW leaves, IsSeq(leaves), \A leaf \in Range(leaves) : leaf.type # "list"
    PROVE  GoodLayout(Struct(leaves)) /\ ~IsList(Struct(leaves))
BY Tuples DEF GoodLayout, IsLayout, NoListType, Struct, IsList

LEMMA ListLayout ==
    ASSUME NEW leaves, IsSeq(leaves), Len(leaves) # 0, \A leaf \in Range(leaves) : leaf.type # "list"
    PROVE  GoodLayout(List(leaves)) /\ IsList(List(leaves))
BY Tuples DEF GoodLayout, IsLayout, NoListType, List, IsList

LEMMA ScalarLayout ==
    ASSUME NEW type, type # "list"
    PROVE  GoodLayout(Scalar(type)) /\ ~IsList(Scalar(type))
<1> DEFINE s == <<Leaf(type, "")>>
<1>1. IsSeq(s) /\ Range(s) = {Leaf(type, "")} /\ Leaf(type, "").type # "list"
  BY Tuples DEF Leaf
<1> HIDE DEF s
<1>2. GoodLayout(Struct(s)) /\ ~IsList(Struct(s))
  BY <1>1, StructLayout
<1> QED
  BY <1>2 DEF Scalar, s

LEMMA BinLayout ==
    GoodLayout(Struct(read_binary_t_struct)) /\ ~IsList(Struct(read_binary_t_struct))
BY Tuples, StructLayout DEF read_binary_t_struct, Leaf

LEMMA ExtraFilesLayout ==
    GoodLayout(read_list_extra_file_1_t_struct) /\ IsList(read_list_extra_file_1_t_struct)
BY Tuples, ListLayout DEF read_list_extra_file_1_t_struct, read_extra_file_struct, Leaf

LEMMA OrdersLayout ==
    GoodLayout(read_list_trace_order_1_t_struct) /\ IsList(read_list_trace_order_1_t_struct)
BY Tuples, ListLayout DEF read_list_trace_order_1_t_struct, read_trace_order_struct, Leaf

LEMMA WriteBinLayout ==
    GoodLayout(Struct(write_binary_t_struct)) /\ ~IsList(Struct(write_binary_t_struct))
BY Tuples, StructLayout DEF write_binary_t_struct, Leaf

LEMMA LogMessageLayout ==
    GoodLayout(Struct(write_log_message_struct)) /\ ~IsList(Struct(write_log_message_struct))
BY Tuples, StructLayout DEF write_log_message_struct, Leaf

LEMMA PSKIDLayout ==
    GoodLayout(Struct(write_PSKID_struct)) /\ ~IsList(Struct(write_PSKID_struct))
BY Tuples, StructLayout DEF write_PSKID_struct, Leaf

LEMMA PLCstatusLeaves ==
    /\ IsSeq(write_PLCstatus_struct)
    /\ Range(write_PLCstatus_struct) = {Leaf("i32", "PLCstatus"), Leaf("u32", "logcounts")}
<1> DEFINE a == <<Leaf("i32", "PLCstatus")>>
           b == [i \in 1 .. 4 |-> Leaf("u32", "logcounts")]
<1>1. IsSeq(a) /\ Range(a) = {Leaf("i32", "PLCstatus")}
  BY Tuples
<1>2. IsSeq(b) /\ Range(b) = {Leaf("u32", "logcounts")}
  <2>1. b = [i \in 1 .. 4 |-> b[i]] /\ \A i \in 1 .. 4 : b[i] = Leaf("u32", "logcounts")
    OBVIOUS
  <2> HIDE DEF b
  <2>2. IsSeq(b) /\ DOMAIN b = 1 .. 4 /\ 1 \in 1 .. 4
    <3>1. PICK n \in Nat : n = 4
      OBVIOUS
    <3>2. IsSeq(b) /\ DOMAIN b = 1 .. n
      BY <2>1, <3>1, FunctionIsSeq
    <3> QED
      BY <3>1, <3>2
  <2> QED
    BY <2>1, <2>2 DEF Range
<1> HIDE DEF a, b
<1>3. IsSeq(a \o b) /\ Range(a \o b) = Range(a) \cup Range(b)
  BY <1>1, <1>2, RowOfTwo
<1>4. write_PLCstatus_struct = a \o b
  BY DEF a, b, write_PLCstatus_struct
<1> QED
  BY <1>1, <1>2, <1>3, <1>4

LEMMA PLCstatusLayout ==
    GoodLayout(Struct(write_PLCstatus_struct)) /\ ~IsList(Struct(write_PLCstatus_struct))
BY PLCstatusLeaves, StructLayout DEF Leaf

LEMMA TracesLayout ==
    /\ write_TraceVariables_struct.head = <<Leaf("i32", "PLCstatus")>>
    /\ write_TraceVariables_struct.each = write_trace_sample_struct
    /\ GoodLayout(write_TraceVariables_struct) /\ IsList(write_TraceVariables_struct)
<1>1. /\ write_TraceVariables_struct.head = <<Leaf("i32", "PLCstatus")>>
      /\ write_TraceVariables_struct.each = write_trace_sample_struct
  BY DEF write_TraceVariables_struct, write_list_trace_sample_1_t_struct, List
<1>2. IsSeq(write_trace_sample_struct) /\ Len(write_trace_sample_struct) # 0
      /\ Range(write_trace_sample_struct) = {Leaf("u32", "tick"), Leaf("binary", "TraceBuffer")}
  BY Tuples DEF write_trace_sample_struct
<1> QED
  BY <1>1, <1>2, Tuples DEF GoodLayout, IsLayout, NoListType, IsList, Leaf

\* What a shim reads and what it writes are well-formed parameters, a list last,
LEMMA ReadsGood == \A m \in Methods : GoodParams(handleInvocation[m].reads)
<1>1. GoodParams(handleInvocation["AppendChunkToBlob"].reads)
  BY TheShims, GoodTuples, BinLayout DEF AppendChunkToBlob_shim, Shim, Param
<1>2. GoodParams(handleInvocation["GetLogMessage"].reads)
  BY TheShims, GoodTuples, ScalarLayout DEF GetLogMessage_shim, Shim, Param
<1>3. GoodParams(handleInvocation["GetPLCID"].reads)
  BY TheShims, GoodTuples DEF GetPLCID_shim, Shim, Param
<1>4. GoodParams(handleInvocation["GetPLCstatus"].reads)
  BY TheShims, GoodTuples DEF GetPLCstatus_shim, Shim, Param
<1>5. GoodParams(handleInvocation["GetTraceVariables"].reads)
  BY TheShims, GoodTuples, ScalarLayout DEF GetTraceVariables_shim, Shim, Param
<1>6. GoodParams(handleInvocation["MatchMD5"].reads)
  BY TheShims, GoodTuples, ScalarLayout DEF MatchMD5_shim, Shim, Param
<1>7. GoodParams(handleInvocation["NewPLC"].reads)
  BY TheShims, GoodTuples, ScalarLayout, BinLayout, ExtraFilesLayout DEF NewPLC_shim, Shim, Param
<1>8. GoodParams(handleInvocation["PurgeBlobs"].reads)
  BY TheShims, GoodTuples DEF PurgeBlobs_shim, Shim, Param
<1>9. GoodParams(handleInvocation["RepairPLC"].reads)
  BY TheShims, GoodTuples DEF RepairPLC_shim, Shim, Param
<1>10. GoodParams(handleInvocation["ResetLogCount"].reads)
  BY TheShims, GoodTuples DEF ResetLogCount_shim, Shim, Param
<1>11. GoodParams(handleInvocation["SeedBlob"].reads)
  BY TheShims, GoodTuples, BinLayout DEF SeedBlob_shim, Shim, Param
<1>12. GoodParams(handleInvocation["SetTraceVariablesList"].reads)
  BY TheShims, GoodTuples, OrdersLayout DEF SetTraceVariablesList_shim, Shim, Param
<1>13. GoodParams(handleInvocation["StartPLC"].reads)
  BY TheShims, GoodTuples DEF StartPLC_shim, Shim, Param
<1>14. GoodParams(handleInvocation["StopPLC"].reads)
  BY TheShims, GoodTuples DEF StopPLC_shim, Shim, Param
<1> QED
  BY <1>1, <1>2, <1>3, <1>4, <1>5, <1>6, <1>7, <1>8, <1>9, <1>10, <1>11, <1>12, <1>13, <1>14, TheMethods

LEMMA WritesGood == \A m \in Methods : GoodParams(handleInvocation[m].writes)
<1>1. GoodParams(handleInvocation["AppendChunkToBlob"].writes)
  BY TheShims, GoodTuples, WriteBinLayout DEF AppendChunkToBlob_shim, Shim, Param
<1>2. GoodParams(handleInvocation["GetLogMessage"].writes)
  BY TheShims, GoodTuples, LogMessageLayout DEF GetLogMessage_shim, Shim, Param
<1>3. GoodParams(handleInvocation["GetPLCID"].writes)
  BY TheShims, GoodTuples, PSKIDLayout DEF GetPLCID_shim, Shim, Param
<1>4. GoodParams(handleInvocation["GetPLCstatus"].writes)
  BY TheShims, GoodTuples, PLCstatusLayout DEF GetPLCstatus_shim, Shim, Param
<1>5. GoodParams(handleInvocation["GetTraceVariables"].writes)
  BY TheShims, GoodTuples, TracesLayout DEF GetTraceVariables_shim, Shim, Param
<1>6. GoodParams(handleInvocation["MatchMD5"].writes)
  BY TheShims, GoodTuples, ScalarLayout DEF MatchMD5_shim, Shim, Param
<1>7. GoodParams(handleInvocation["NewPLC"].writes)
  BY TheShims, GoodTuples, ScalarLayout DEF NewPLC_shim, Shim, Param
<1>8. GoodParams(handleInvocation["PurgeBlobs"].writes)
  BY TheShims, GoodTuples DEF PurgeBlobs_shim, Shim, Param
<1>9. GoodParams(handleInvocation["RepairPLC"].writes)
  BY TheShims, GoodTuples DEF RepairPLC_shim, Shim, Param
<1>10. GoodParams(handleInvocation["ResetLogCount"].writes)
  BY TheShims, GoodTuples DEF ResetLogCount_shim, Shim, Param
<1>11. GoodParams(handleInvocation["SeedBlob"].writes)
  BY TheShims, GoodTuples, WriteBinLayout DEF SeedBlob_shim, Shim, Param
<1>12. GoodParams(handleInvocation["SetTraceVariablesList"].writes)
  BY TheShims, GoodTuples, ScalarLayout DEF SetTraceVariablesList_shim, Shim, Param
<1>13. GoodParams(handleInvocation["StartPLC"].writes)
  BY TheShims, GoodTuples DEF StartPLC_shim, Shim, Param
<1>14. GoodParams(handleInvocation["StopPLC"].writes)
  BY TheShims, GoodTuples, ScalarLayout DEF StopPLC_shim, Shim, Param
<1> QED
  BY <1>1, <1>2, <1>3, <1>4, <1>5, <1>6, <1>7, <1>8, <1>9, <1>10, <1>11, <1>12, <1>13, <1>14, TheMethods

\* and are what the client writes and reads.
SameMessages(m) ==
    /\ handleInvocation[m].reads = BeremizPLCObjectService_client[m].writes
    /\ handleInvocation[m].writes = BeremizPLCObjectService_client[m].reads

LEMMA MessagesSame == \A m \in Methods : SameMessages(m)
<1>1. SameMessages("AppendChunkToBlob")
  BY TheShims, TheClients
     DEF SameMessages, AppendChunkToBlob_shim, AppendChunkToBlob_client, Shim, Client,
         read_binary_t_struct, write_binary_t_struct, client_write_binary_t, client_read_binary_t
<1>2. SameMessages("GetLogMessage")
  BY TheShims, TheClients
     DEF SameMessages, GetLogMessage_shim, GetLogMessage_client, Shim, Client,
         write_log_message_struct, client_read_log_message
<1>3. SameMessages("GetPLCID")
  BY TheShims, TheClients
     DEF SameMessages, GetPLCID_shim, GetPLCID_client, Shim, Client,
         write_PSKID_struct, client_read_PSKID
<1>4. SameMessages("GetPLCstatus")
  BY TheShims, TheClients
     DEF SameMessages, GetPLCstatus_shim, GetPLCstatus_client, Shim, Client,
         write_PLCstatus_struct, client_read_PLCstatus
<1>5. SameMessages("GetTraceVariables")
  BY TheShims, TheClients
     DEF SameMessages, GetTraceVariables_shim, GetTraceVariables_client, Shim, Client,
         write_TraceVariables_struct, client_read_TraceVariables, write_list_trace_sample_1_t_struct,
         client_read_list_trace_sample, write_trace_sample_struct, client_read_trace_sample
<1>6. SameMessages("MatchMD5")
  BY TheShims, TheClients
     DEF SameMessages, MatchMD5_shim, MatchMD5_client, Shim, Client
<1>7. SameMessages("NewPLC")
  BY TheShims, TheClients
     DEF SameMessages, NewPLC_shim, NewPLC_client, Shim, Client,
         read_binary_t_struct, client_write_binary_t, read_list_extra_file_1_t_struct, client_write_list_extra_file,
         read_extra_file_struct, client_write_extra_file
<1>8. SameMessages("PurgeBlobs")
  BY TheShims, TheClients
     DEF SameMessages, PurgeBlobs_shim, PurgeBlobs_client, Shim, Client
<1>9. SameMessages("RepairPLC")
  BY TheShims, TheClients
     DEF SameMessages, RepairPLC_shim, RepairPLC_client, Shim, Client
<1>10. SameMessages("ResetLogCount")
  BY TheShims, TheClients
     DEF SameMessages, ResetLogCount_shim, ResetLogCount_client, Shim, Client
<1>11. SameMessages("SeedBlob")
  BY TheShims, TheClients
     DEF SameMessages, SeedBlob_shim, SeedBlob_client, Shim, Client,
         read_binary_t_struct, write_binary_t_struct, client_write_binary_t, client_read_binary_t
<1>12. SameMessages("SetTraceVariablesList")
  BY TheShims, TheClients
     DEF SameMessages, SetTraceVariablesList_shim, SetTraceVariablesList_client, Shim, Client,
         read_list_trace_order_1_t_struct, client_write_list_trace_order, read_trace_order_struct,
         client_write_trace_order
<1>13. SameMessages("StartPLC")
  BY TheShims, TheClients
     DEF SameMessages, StartPLC_shim, StartPLC_client, Shim, Client
<1>14. SameMessages("StopPLC")
  BY TheShims, TheClients
     DEF SameMessages, StopPLC_shim, StopPLC_client, Shim, Client
<1> QED
  BY <1>1, <1>2, <1>3, <1>4, <1>5, <1>6, <1>7, <1>8, <1>9, <1>10, <1>11, <1>12, <1>13, <1>14, TheMethods

-----------------------------------------------------------------------------
(* Types.                                                                  *)

LEMMA OverAt ==
    ASSUME NEW f, NEW g
    PROVE  /\ DOMAIN Over(f, g) = DOMAIN f \cup DOMAIN g
           /\ \A q \in DOMAIN f : Over(f, g)[q] = f[q]
           /\ \A q \in DOMAIN g : q \notin DOMAIN f => Over(f, g)[q] = g[q]
BY DEF Over

LEMMA TailOf ==
    ASSUME NEW s, IsSeq(s), s # <<>>
    PROVE  /\ IsSeq(Tail(s)) /\ Range(Tail(s)) \subseteq Range(s)
           /\ Len(Tail(s)) = Len(s) - 1 /\ Len(s) - 1 \in Nat
           /\ \A i \in 1 .. Len(Tail(s)) : Tail(s)[i] = s[i + 1] /\ i + 1 \in 1 .. Len(s)
           /\ Head(s) = s[1] /\ s[1] \in Range(s)
           /\ Range(s) = {s[1]} \cup Range(Tail(s))
<1>1. PICK n \in Nat : Len(s) = n /\ n # 0 /\ DOMAIN s = 1 .. n
  BY SeqIs DEF IsSeq
<1>2. Head(s) = s[1]
  BY DEF IsSeq
<1>3. n - 1 \in Nat
  BY <1>1
<1>4. PICK r : r = Tail(s)
  OBVIOUS
<1>5. r = [i \in 1 .. n - 1 |-> r[i]] /\ \A i \in 1 .. n - 1 : r[i] = s[i + 1] /\ i + 1 \in 1 .. n
  <2>1. /\ r \in Seq(Range(s)) /\ Len(r) = n - 1
        /\ \A i \in 1 .. Len(r) : r[i] = s[i + 1]
    BY <1>1, <1>4, HeadTailProperties DEF IsSeq
  <2>2. r = [i \in 1 .. Len(r) |-> r[i]]
    BY <2>1
  <2>3. \A i \in 1 .. n - 1 : i + 1 \in 1 .. n
    BY <1>1
  <2> QED
    BY <2>1, <2>2, <2>3
<1>6. IsSeq(r) /\ Len(r) = n - 1 /\ DOMAIN r = 1 .. n - 1
  BY <1>3, <1>5, FunctionIsSeq
<1>7. Range(r) \subseteq Range(s)
  BY <1>1, <1>5, <1>6 DEF Range
<1>8. 1 \in DOMAIN s /\ s[1] \in Range(s)
  BY <1>1, SMTT(30) DEF Range
<1>9. ASSUME NEW x \in Range(s), x # s[1]
      PROVE  x \in Range(r)
  <2>1. PICK i \in 1 .. n : x = s[i] /\ i # 1
    BY <1>1, <1>9 DEF Range
  <2>2. i - 1 \in 1 .. n - 1 /\ (i - 1) + 1 = i
    BY <1>1, <2>1
  <2>3. r[i - 1] = x
    BY <1>5, <2>1, <2>2
  <2> QED
    BY <1>6, <2>2, <2>3 DEF Range
<1> QED
  BY <1>1, <1>2, <1>3, <1>4, <1>5, <1>6, <1>7, <1>8, <1>9

\* The length of a list, where a field has one.
Announcing(fields) ==
    IsSeq(fields) /\ \A f \in Range(fields) : f[1] = "list" => \E k \in 0 .. MaxList : f[2] = <<k>>

Calls == [method : Methods, n : 0 .. MaxList, full : BOOLEAN]

Field0(l, c) == <<l.type, Value(l, c.n, c.full)>>

LEMMA RequestIs ==
    ASSUME NEW c \in Calls
    PROVE  LET leaves == AllLeaves(handleInvocation[c.method].reads, c.n)
           IN  /\ IsSeq(leaves)
               /\ Request(c) = [i \in 1 .. Len(leaves) |-> Field0(leaves[i], c)]
               /\ Arguments(c) = {<<l.path, Value(l, c.n, c.full)>> : l \in Range(leaves)}
<1> DEFINE leaves == AllLeaves(handleInvocation[c.method].reads, c.n)
<1>1. c.method \in Methods /\ c.n \in Nat
  BY RpcBounds DEF Calls
<1>2. AreParams(handleInvocation[c.method].reads)
  BY <1>1, ReadsGood DEF GoodParams
<1>3. IsSeq(leaves)
  BY <1>1, <1>2, AllLeavesElements
<1>4. handleInvocation[c.method].reads = BeremizPLCObjectService_client[c.method].writes
  BY <1>1, MessagesSame DEF SameMessages
<1>5. DOMAIN leaves = 1 .. Len(leaves)
  BY <1>3, SeqIs
<1> QED
  BY <1>3, <1>4, <1>5 DEF Request, Arguments, Field0

LEMMA RequestAnnounces ==
    ASSUME NEW c \in Calls
    PROVE  Announcing(Request(c))
<1>1. PICK leaves : leaves = AllLeaves(handleInvocation[c.method].reads, c.n)
  OBVIOUS
<1>2. PICK r : r = Request(c)
  OBVIOUS
<1>3. IsSeq(leaves) /\ r = [i \in 1 .. Len(leaves) |-> Field0(leaves[i], c)]
  BY <1>1, <1>2, RequestIs
<1>4. PICK n \in Nat : n = Len(leaves)
  BY <1>3, SeqIs
<1>5. r = [i \in 1 .. n |-> r[i]] /\ \A i \in 1 .. n : r[i] = Field0(leaves[i], c)
  BY <1>3, <1>4
<1>6. IsSeq(r) /\ DOMAIN r = 1 .. n
  BY <1>5, FunctionIsSeq
<1>7. ASSUME NEW f \in Range(r), f[1] = "list"
      PROVE  \E k \in 0 .. MaxList : f[2] = <<k>>
  <2>1. PICK i \in 1 .. n : f = Field0(leaves[i], c)
    BY <1>5, <1>6 DEF Range
  <2>2. leaves[i].type = "list" /\ f[2] = Value(leaves[i], c.n, c.full)
    BY <1>7, <2>1 DEF Field0
  <2>3. f[2] = <<c.n>> /\ c.n \in 0 .. MaxList
    BY <2>2 DEF Value, Calls
  <2> QED
    BY <2>3
<1> QED
  BY <1>2, <1>6, <1>7 DEF Announcing

\* TypeOK, and that a length is announced that lists may have.
ControlTypes ==
    /\ task \in Tasks
    /\ held \subseteq {"transport", "factory", "server", "service"}
    /\ connected \in BOOLEAN
    /\ call = Idle \/ call \in Calls
    /\ status \in {"ok", "memory", "overrun"}
    /\ answer.at \in {"none", "waiting", "ok", "error"}
    /\ faults \in 0 .. MaxFaults
CountTypes == \A p \in DOMAIN count : count[p] \in 0 .. MaxList
MemTypes == \A q \in DOMAIN mem : mem[q] \in {"unset", "null", "live"}

TypeInv == ControlTypes /\ CountTypes /\ MemTypes /\ Announcing(request)

LEMMA OverTyped ==
    ASSUME NEW f, NEW g, NEW T, \A q \in DOMAIN f : f[q] \in T, \A q \in DOMAIN g : g[q] \in T
    PROVE  \A q \in DOMAIN Over(f, g) : Over(f, g)[q] \in T
<1> SUFFICES ASSUME NEW q \in DOMAIN Over(f, g)
             PROVE  Over(f, g)[q] \in T
  OBVIOUS
<1>1. q \in DOMAIN f \cup DOMAIN g
  BY OverAt
<1>2. CASE q \in DOMAIN f
  <2>1. Over(f, g)[q] = f[q]
    BY <1>2 DEF Over
  <2> QED
    BY <2>1, <1>2
<1>3. CASE q \notin DOMAIN f
  <2>1. Over(f, g)[q] = g[q]
    BY <1>1, <1>3 DEF Over
  <2> QED
    BY <2>1, <1>1, <1>3
<1> QED
  BY <1>2, <1>3

LEMMA StructsTyped ==
    ASSUME NEW shim, NEW ps, NEW failed
    PROVE  \A q \in DOMAIN Structs(shim, ps, failed) : Structs(shim, ps, failed)[q] \in {"unset", "null", "live"}
<1> DEFINE f == [q \in {Self(p) : p \in ps} |-> IF q \in {Self(p) : p \in failed} THEN "null" ELSE "live"]
           g == Unset(UNION {Pointers(shim, p) : p \in ps \ failed})
<1>1. \A q \in DOMAIN f : f[q] \in {"unset", "null", "live"}
  OBVIOUS
<1>2. \A q \in DOMAIN g : g[q] \in {"unset", "null", "live"}
  BY DEF Unset
<1> HIDE DEF f, g
<1>3. \A q \in DOMAIN Over(f, g) : Over(f, g)[q] \in {"unset", "null", "live"}
  BY <1>1, <1>2, OverTyped
<1> QED
  BY <1>3 DEF Structs, f, g

\* A fault that may happen is there to be spent.
LEMMA MaySpend ==
    ASSUME ControlTypes, NEW site, May(site)
    PROVE  faults - 1 \in 0 .. MaxFaults
BY RpcBounds DEF ControlTypes, May

LEMMA SpendStructs ==
    ASSUME ControlTypes, NEW ps, NEW failed \in FailedStructs(ps), Spent(failed)
    PROVE  faults' \in 0 .. MaxFaults
<1>1. CASE failed = {}
  BY <1>1 DEF Spent, ControlTypes
<1>2. CASE failed # {}
  <2>1. May("struct")
    BY <1>2 DEF FailedStructs
  <2> QED
    BY <1>2, <2>1, MaySpend DEF Spent
<1> QED
  BY <1>1, <1>2

LEMMA OutcomeTyped ==
    ASSUME ControlTypes, NEW failed
    PROVE  Outcome(failed) \in {"ok", "memory", "overrun"}
BY DEF Outcome, ControlTypes

\* What is left of the request announces no other lengths.
LEMMA RestAnnounces ==
    ASSUME Announcing(request), NEW r, r = IF Wanted THEN Tail(request) ELSE request
    PROVE  Announcing(r)
<1>1. CASE Wanted
  <2>1. request # <<>> /\ r = Tail(request)
    BY <1>1 DEF Wanted
  <2>2. IsSeq(r) /\ Range(r) \subseteq Range(request)
    BY <2>1, TailOf DEF Announcing
  <2> QED
    BY <2>2 DEF Announcing
<1>2. CASE ~Wanted
  BY <1>2
<1> QED
  BY <1>1, <1>2

LEMMA LengthAnnounced ==
    ASSUME Announcing(request), Field.type = "list"
    PROVE  Announced \in 0 .. MaxList
<1>1. CASE Wanted
  <2>1. request # <<>> /\ Head(request)[1] = "list"
    BY <1>1 DEF Wanted
  <2>2. Head(request) \in Range(request)
    BY <2>1, TailOf DEF Announcing
  <2>3. PICK k \in 0 .. MaxList : Head(request)[2] = <<k>>
    BY <2>1, <2>2 DEF Announcing
  <2>4. Announced = k
    BY <1>1, <2>3 DEF Announced, Got
  <2> QED
    BY <2>4
<1>2. CASE ~Wanted
  BY <1>2, RpcBounds DEF Announced
<1> QED
  BY <1>1, <1>2

LEMMA TypesStart == Init => TypeInv
<1> SUFFICES ASSUME Init
             PROVE  TypeInv
  OBVIOUS
<1>1. ControlTypes
  <2>1. MaxFaults \in 0 .. MaxFaults
    BY RpcBounds
  <2>2. answer.at = "none" /\ faults = MaxFaults /\ task = "transport" /\ held = {} /\ connected = FALSE /\ call = Idle
        /\ status = "ok"
    BY DEF Init
  <2> QED
    BY <2>1, <2>2 DEF ControlTypes, Tasks
<1>2. CountTypes /\ MemTypes
  BY DEF Init, CountTypes, MemTypes
<1>3. Announcing(request)
  BY Tuples DEF Init, Announcing
<1> QED
  BY <1>1, <1>2, <1>3 DEF TypeInv

\* The steps of the set-up, and those that take all of it down.
LEMMA SetUpTyped ==
    ASSUME TypeInv, InitTransport \/ InitFactory \/ InitServer \/ InitService \/ Stop \/ Connect \/ Disconnect
    PROVE  TypeInv'
<1>1. UNCHANGED <<call, messages, memory>>
  BY DEF InitTransport, InitFactory, InitServer, InitService, Create, Stop, Connect, Disconnect
<1>2. CountTypes' /\ MemTypes' /\ Announcing(request)' /\ (call = Idle \/ call \in Calls)' /\ status' = status
  BY <1>1 DEF TypeInv, ControlTypes, CountTypes, MemTypes, Announcing, messages, memory
<1>3. faults > 0 => faults - 1 \in 0 .. MaxFaults
  BY RpcBounds DEF TypeInv, ControlTypes
<1>4. ASSUME NEW from, NEW what \in {"transport", "factory", "server", "service"}, NEW to \in Tasks, NEW cleanup,
             Create(from, what, to, cleanup)
      PROVE  ControlTypes'
  BY <1>2, <1>3, <1>4 DEF TypeInv, ControlTypes, Create, Tasks
<1>5. Failed.at \in {"none", "waiting", "ok", "error"}
  BY DEF Failed, TypeInv, ControlTypes
<1>6. CASE InitTransport
  BY <1>2, <1>4, <1>6 DEF TypeInv, InitTransport, Tasks
<1>7. CASE InitFactory
  BY <1>2, <1>4, <1>7 DEF TypeInv, InitFactory, Tasks
<1>8. CASE InitServer
  BY <1>2, <1>4, <1>8 DEF TypeInv, InitServer, Tasks
<1>9. CASE InitService
  BY <1>2, <1>4, <1>9 DEF TypeInv, InitService, Tasks
<1>10. CASE Stop
  BY <1>2, <1>5, <1>10 DEF TypeInv, ControlTypes, Stop, Tasks
<1>11. CASE Connect
  BY <1>2, <1>11 DEF TypeInv, ControlTypes, Connect, Tasks
<1>12. CASE Disconnect
  BY <1>2, <1>3, <1>5, <1>12 DEF TypeInv, ControlTypes, Disconnect, Tasks
<1> QED
  BY <1>6, <1>7, <1>8, <1>9, <1>10, <1>11, <1>12

LEMMA ReceiveTyped ==
    ASSUME TypeInv, Receive
    PROVE  TypeInv'
<1>1. PICK shim, strings, failed :
          /\ failed \in FailedStructs(shim.before)
          /\ mem' = Over([q \in {Self(p.name) : p \in strings} |-> "null"], Structs(shim, Range(shim.before), failed))
          /\ status' = (IF failed = {} THEN "ok" ELSE "memory")
          /\ Spent(failed)
  BY DEF Receive
<1>2. MemTypes'
  <2>1. \A q \in DOMAIN mem' : mem'[q] \in {"unset", "null", "live"}
    <3> DEFINE f == [q \in {Self(p.name) : p \in strings} |-> "null"]
    <3>1. \A q \in DOMAIN f : f[q] \in {"unset", "null", "live"}
      OBVIOUS
    <3> HIDE DEF f
    <3> QED
      BY <1>1, <3>1, StructsTyped, OverTyped DEF f
  <2> QED
    BY <2>1 DEF MemTypes
<1>3. faults' \in 0 .. MaxFaults
  BY <1>1, SpendStructs DEF TypeInv
<1>4. ControlTypes'
  BY <1>1, <1>3 DEF TypeInv, ControlTypes, Receive, Tasks
<1>5. CountTypes'
  BY DEF CountTypes, Receive
<1>6. Announcing(request)'
  BY DEF TypeInv, Announcing, Receive
<1> QED
  BY <1>2, <1>4, <1>5, <1>6 DEF TypeInv

LEMMA ReadFieldTyped ==
    ASSUME TypeInv, ReadField
    PROVE  TypeInv'
<1>1. PICK copied, failed :
          /\ failed \in {FALSE} \cup (IF copied /\ May("content") THEN {TRUE} ELSE {})
          /\ mem' = (IF Field.path \in DOMAIN mem THEN [mem EXCEPT ![Field.path] = Pointer(copied, failed)] ELSE mem)
          /\ status' = Outcome(failed)
          /\ Spent(IF failed THEN {Field} ELSE {})
  BY DEF ReadField
<1>2. MemTypes'
  BY <1>1 DEF TypeInv, MemTypes, Pointer
<1>3. faults' \in 0 .. MaxFaults
  BY <1>1, MaySpend DEF TypeInv, ControlTypes, Spent
<1>4. ControlTypes'
  BY <1>1, <1>3, OutcomeTyped DEF TypeInv, ControlTypes, ReadField
<1>5. CountTypes'
  BY DEF TypeInv, CountTypes, ReadField
<1>6. Announcing(request)'
  <2>1. Announcing(request')
    BY RestAnnounces DEF TypeInv, ReadField
  <2> QED
    BY <2>1 DEF Announcing
<1> QED
  BY <1>2, <1>4, <1>5, <1>6 DEF TypeInv

LEMMA ReadListTyped ==
    ASSUME TypeInv, ReadList
    PROVE  TypeInv'
<1>1. PICK paths, p, failed :
          /\ failed \in {FALSE} \cup (IF Announced > 0 /\ May("elements") THEN {TRUE} ELSE {})
          /\ mem' = Over([q \in {Elements(p)} |-> IF failed THEN "null" ELSE "live"], Over(Unset(paths), mem))
          /\ count' = Over([q \in {p} |-> Announced], count)
          /\ status' = Outcome(failed)
          /\ Spent(IF failed THEN {Field} ELSE {})
  BY DEF ReadList
<1>2. MemTypes'
  <2> DEFINE f == [q \in {Elements(p)} |-> IF failed THEN "null" ELSE "live"]
  <2>1. \A q \in DOMAIN f : f[q] \in {"unset", "null", "live"}
    OBVIOUS
  <2>2. \A q \in DOMAIN Unset(paths) : Unset(paths)[q] \in {"unset", "null", "live"}
    BY DEF Unset
  <2>3. \A q \in DOMAIN mem : mem[q] \in {"unset", "null", "live"}
    BY DEF TypeInv, MemTypes
  <2> HIDE DEF f
  <2>4. \A q \in DOMAIN Over(Unset(paths), mem) : Over(Unset(paths), mem)[q] \in {"unset", "null", "live"}
    BY <2>2, <2>3, OverTyped
  <2>5. \A q \in DOMAIN Over(f, Over(Unset(paths), mem)) : Over(f, Over(Unset(paths), mem))[q] \in {"unset", "null", "live"}
    BY <2>1, <2>4, OverTyped
  <2> QED
    BY <1>1, <2>5 DEF MemTypes, f
<1>3. faults' \in 0 .. MaxFaults
  BY <1>1, MaySpend DEF TypeInv, ControlTypes, Spent
<1>4. ControlTypes'
  BY <1>1, <1>3, OutcomeTyped DEF TypeInv, ControlTypes, ReadList
<1>5. CountTypes'
  <2> DEFINE f == [q \in {p} |-> Announced]
  <2>1. Announced \in 0 .. MaxList
    BY LengthAnnounced DEF TypeInv, ReadList
  <2>2. \A q \in DOMAIN f : f[q] \in 0 .. MaxList
    BY <2>1
  <2>3. \A q \in DOMAIN count : count[q] \in 0 .. MaxList
    BY DEF TypeInv, CountTypes
  <2> HIDE DEF f
  <2>4. \A q \in DOMAIN Over(f, count) : Over(f, count)[q] \in 0 .. MaxList
    BY <2>2, <2>3, OverTyped
  <2> QED
    BY <1>1, <2>4 DEF CountTypes, f
<1>6. Announcing(request)'
  <2>1. Announcing(request')
    BY RestAnnounces DEF TypeInv, ReadList
  <2> QED
    BY <2>1 DEF Announcing
<1> QED
  BY <1>2, <1>4, <1>5, <1>6 DEF TypeInv

LEMMA DecodedTyped ==
    ASSUME TypeInv, Decoded
    PROVE  TypeInv'
<1>1. PICK shim, failed :
          /\ failed \in FailedStructs(shim.after)
          /\ mem' = Over(Structs(shim, Range(shim.after), failed), mem)
          /\ status' = (IF failed = {} THEN status ELSE "memory")
          /\ Spent(failed)
  BY DEF Decoded
<1>2. MemTypes'
  <2>1. \A q \in DOMAIN mem : mem[q] \in {"unset", "null", "live"}
    BY DEF TypeInv, MemTypes
  <2>2. \A q \in DOMAIN mem' : mem'[q] \in {"unset", "null", "live"}
    BY <1>1, <2>1, StructsTyped, OverTyped
  <2> QED
    BY <2>2 DEF MemTypes
<1>3. faults' \in 0 .. MaxFaults
  BY <1>1, SpendStructs DEF TypeInv
<1>4. ControlTypes'
  BY <1>1, <1>3 DEF TypeInv, ControlTypes, Decoded, Tasks
<1>5. CountTypes' /\ Announcing(request)'
  BY DEF TypeInv, CountTypes, Announcing, Decoded
<1> QED
  BY <1>2, <1>4, <1>5 DEF TypeInv

\* A handler that fails spends a fault.
LEMMA FaultySpends ==
    ASSUME ControlTypes, NEW n, NEW blank \in {Fine} \cup Faulty(n), blank # Fine
    PROVE  faults - 1 \in 0 .. MaxFaults
<1>1. CASE call.method = "GetLogMessage"
  <2>1. May("handler") \/ May("nofile")
    BY <1>1 DEF Faulty, GetLogMessage_faults
  <2> QED
    BY <2>1, MaySpend
<1>2. CASE call.method # "GetLogMessage"
  <2>1. May("handler")
    BY <1>2 DEF Faulty
  <2> QED
    BY <2>1, MaySpend
<1> QED
  BY <1>1, <1>2

LEMMA InvokeTyped ==
    ASSUME TypeInv, Invoke
    PROVE  TypeInv'
<1>0. PICK l \in Lengths, extra \in ExtraFiles : \E blank \in {Fine} \cup Faulty(l[1]) :
          /\ Handle(l[1], l[2], blank, extra)
          /\ faults' = (IF blank = Fine THEN faults ELSE faults - 1)
  BY DEF Invoke
<1>1. PICK blank \in {Fine} \cup Faulty(l[1]) :
          /\ Handle(l[1], l[2], blank, extra)
          /\ faults' = (IF blank = Fine THEN faults ELSE faults - 1)
  BY <1>0
<1>2. l[1] \in 0 .. MaxList
  <2>1. MaxList \in Nat /\ 1 .. MaxList \subseteq 0 .. MaxList /\ {0, 1} \subseteq 0 .. MaxList
    BY RpcBounds
  <2>2. l \in (1 .. MaxList) \X {TRUE} \/ l = <<1, FALSE>> \/ l = <<0, TRUE>>
    BY DEF Lengths
  <2>3. CASE l \in (1 .. MaxList) \X {TRUE}
    BY <2>1, <2>3
  <2>4. CASE l = <<1, FALSE>>
    <3>1. l[1] = 1
      BY <2>4
    <3>2. 1 \in 0 .. MaxList
      BY <2>1
    <3> QED
      BY <3>1, <3>2
  <2>5. CASE l = <<0, TRUE>>
    <3>1. l[1] = 0
      BY <2>5
    <3>2. 0 \in 0 .. MaxList
      BY <2>1
    <3> QED
      BY <3>1, <3>2
  <2> QED
    BY <2>2, <2>3, <2>4, <2>5
<1>3. faults' \in 0 .. MaxFaults
  BY <1>1, FaultySpends DEF TypeInv, ControlTypes
<1>4. PICK points, names :
          /\ mem' = Over([q \in points |-> IF q \in blank.null THEN "null" ELSE "live"], Over(LostBlocks(extra), mem))
          /\ count' = Over([p \in names |-> l[1]], count)
  BY <1>1 DEF Handle
<1>5. MemTypes'
  <2> DEFINE f == [q \in points |-> IF q \in blank.null THEN "null" ELSE "live"]
  <2>1. \A q \in DOMAIN f : f[q] \in {"unset", "null", "live"}
    OBVIOUS
  <2>2. \A q \in DOMAIN LostBlocks(extra) : LostBlocks(extra)[q] \in {"unset", "null", "live"}
    BY DEF LostBlocks
  <2>3. \A q \in DOMAIN mem : mem[q] \in {"unset", "null", "live"}
    BY DEF TypeInv, MemTypes
  <2> HIDE DEF f
  <2> DEFINE g == Over(LostBlocks(extra), mem)
  <2>4. \A q \in DOMAIN g : g[q] \in {"unset", "null", "live"}
    BY <2>2, <2>3, OverTyped
  <2> HIDE DEF g
  <2>5. \A q \in DOMAIN Over(f, g) : Over(f, g)[q] \in {"unset", "null", "live"}
    BY <2>1, <2>4, OverTyped
  <2> QED
    BY <1>4, <2>5 DEF MemTypes, f, g
<1>6. CountTypes'
  <2> DEFINE f == [p \in names |-> l[1]]
  <2>1. \A q \in DOMAIN f : f[q] \in 0 .. MaxList
    BY <1>2
  <2>2. \A q \in DOMAIN count : count[q] \in 0 .. MaxList
    BY DEF TypeInv, CountTypes
  <2> HIDE DEF f
  <2>3. \A q \in DOMAIN Over(f, count) : Over(f, count)[q] \in 0 .. MaxList
    BY <2>1, <2>2, OverTyped
  <2> QED
    BY <1>4, <2>3 DEF CountTypes, f
<1>7. ControlTypes' /\ Announcing(request)'
  BY <1>3 DEF TypeInv, ControlTypes, Announcing, Invoke, messages, Tasks
<1> QED
  BY <1>5, <1>6, <1>7 DEF TypeInv

LEMMA EncodeTyped ==
    ASSUME TypeInv, Encode
    PROVE  TypeInv'
<1>1. /\ CountTypes' /\ MemTypes' /\ Announcing(request)'
  BY DEF TypeInv, CountTypes, MemTypes, Announcing, Encode, memory
<1>2. /\ status' \in {"ok", "memory", "overrun"} /\ faults' \in 0 .. MaxFaults
  <2>1. CASE UNCHANGED <<status, faults>>
    BY <2>1 DEF TypeInv, ControlTypes
  <2>2. CASE ~UNCHANGED <<status, faults>>
    <3>1. PICK site \in {"buffer", "overrun"} : May(site) /\ status' = IF site = "buffer" THEN "memory" ELSE "overrun"
      BY <2>2 DEF Encode
    <3>2. faults' = faults - 1
      BY <2>2 DEF Encode
    <3> QED
      BY <3>1, <3>2, MaySpend DEF TypeInv
  <2> QED
    BY <2>1, <2>2
<1>3. ControlTypes'
  BY <1>2 DEF TypeInv, ControlTypes, Encode, Tasks
<1> QED
  BY <1>1, <1>3 DEF TypeInv

LEMMA ReleaseTyped ==
    ASSUME TypeInv, Release
    PROVE  TypeInv'
<1>1. CountTypes' /\ Announcing(request)' /\ ControlTypes'
  BY DEF TypeInv, CountTypes, Announcing, ControlTypes, Release, messages, Tasks
<1>2. MemTypes'
  BY DEF TypeInv, MemTypes, Release
<1> QED
  BY <1>1, <1>2 DEF TypeInv

LEMMA SendTyped ==
    ASSUME TypeInv, Send
    PROVE  TypeInv'
<1>1. CountTypes' /\ MemTypes' /\ Announcing(request)'
  BY DEF TypeInv, CountTypes, MemTypes, Announcing, Send, messages, memory
<1>2. Answer.at \in {"none", "waiting", "ok", "error"}
  BY DEF Answer
<1>3. ControlTypes'
  BY <1>2 DEF TypeInv, ControlTypes, Send, messages, Tasks
<1> QED
  BY <1>1, <1>3 DEF TypeInv

LEMMA CallTyped ==
    ASSUME TypeInv, NEW m \in Methods, NEW n \in 0 .. MaxList, NEW full \in BOOLEAN, Call(m, n, full)
    PROVE  TypeInv'
<1>1. CountTypes' /\ MemTypes'
  BY DEF TypeInv, CountTypes, MemTypes, Call, memory
<1>2. call' \in Calls /\ request' = Request(call')
  BY DEF Call, Calls
<1>3. Announcing(request)'
  <2>1. Announcing(request')
    BY <1>2, RequestAnnounces
  <2> QED
    BY <2>1 DEF Announcing
<1>4. ControlTypes'
  BY <1>2 DEF TypeInv, ControlTypes, Call
<1> QED
  BY <1>1, <1>3, <1>4 DEF TypeInv

LEMMA TypesKeptStep == TypeInv /\ [Next]_vars => TypeInv'
<1> SUFFICES ASSUME TypeInv, [Next]_vars
             PROVE  TypeInv'
  OBVIOUS
<1>1. CASE InitTransport \/ InitFactory \/ InitServer \/ InitService \/ Stop \/ Connect \/ Disconnect
  BY <1>1, SetUpTyped
<1>2. CASE \E m \in Methods, n \in 0 .. MaxList, full \in BOOLEAN : Call(m, n, full)
  BY <1>2, CallTyped
<1>3. CASE UNCHANGED vars
  BY <1>3 DEF TypeInv, ControlTypes, CountTypes, MemTypes, Announcing, vars, messages, memory
<1> QED
  BY <1>1, <1>2, <1>3, ReceiveTyped, ReadFieldTyped, ReadListTyped, DecodedTyped, InvokeTyped, EncodeTyped,
     ReleaseTyped, SendTyped DEF Next, Server

\* Every variable keeps its type through every call and fault; no list has more elements
\* than the request or the handler says (generated shims, rpc_server_task).
THEOREM TypesKept == Spec => []TypeOK
<1>1. TypeInv => TypeOK
  BY DEF TypeInv, ControlTypes, CountTypes, MemTypes, TypeOK, Calls
<1> QED
  BY TypesStart, TypesKeptStep, <1>1, PTL DEF Spec
-----------------------------------------------------------------------------
(* The arguments: what the shim reads is what the client wrote.            *)

Reads(m) == handleInvocation[m].reads
Writes(m) == handleInvocation[m].writes

\* The list parameter of method m.
ReadsList(m, list) ==
    /\ list \in Range(Reads(m)) /\ GoodLayout(list.layout) /\ IsList(list.layout) /\ list.layout.head = <<>>
    /\ \A q \in Range(Reads(m)) : q.name = list.name => q = list

\* Parameters without a list, or with a list at the end.
EndsInList(m, params) ==
    \/ \A i \in DOMAIN params : ~IsList(params[i].layout)
    \/ params # <<>> /\ ReadsList(m, params[Len(params)])

ListsAtEnd(m) == EndsInList(m, Reads(m))

LEMMA ReadsEnd == \A m \in Methods : ListsAtEnd(m)
<1>1. ListsAtEnd("NewPLC")
  <2> DEFINE p == Param("md5sum", Scalar("string"))
             q == Param("plcObjectBlobID", Struct(read_binary_t_struct))
             r == Param("extrafiles", read_list_extra_file_1_t_struct)
  <2>1. PICK s : s = Reads("NewPLC")
    OBVIOUS
  <2>2. s = <<p, q, r>>
    BY <2>1, TheShims DEF Reads, NewPLC_shim, Shim
  <2>3. p.name = "md5sum" /\ q.name = "plcObjectBlobID" /\ r.name = "extrafiles"
        /\ r.layout = read_list_extra_file_1_t_struct
    BY DEF Param
  <2>4. GoodLayout(r.layout) /\ IsList(r.layout) /\ r.layout.head = <<>>
    BY <2>3, ExtraFilesLayout DEF read_list_extra_file_1_t_struct, List
  <2> HIDE DEF p, q, r
  <2>5. Range(s) = {p, q, r} /\ Len(s) = 3 /\ s[3] = r /\ s # <<>>
    BY <2>2, Tuples
  <2>6. ReadsList("NewPLC", r)
    BY <2>1, <2>3, <2>4, <2>5 DEF ReadsList
  <2> QED
    BY <2>1, <2>5, <2>6 DEF ListsAtEnd, EndsInList
<1>2. ListsAtEnd("SetTraceVariablesList")
  <2> DEFINE r == Param("orders", read_list_trace_order_1_t_struct)
  <2>1. PICK s : s = Reads("SetTraceVariablesList")
    OBVIOUS
  <2>2. s = <<r>>
    BY <2>1, TheShims DEF Reads, SetTraceVariablesList_shim, Shim
  <2>3. r.layout = read_list_trace_order_1_t_struct
    BY DEF Param
  <2>4. GoodLayout(r.layout) /\ IsList(r.layout) /\ r.layout.head = <<>>
    BY <2>3, OrdersLayout DEF read_list_trace_order_1_t_struct, List
  <2> HIDE DEF r
  <2>5. Range(s) = {r} /\ Len(s) = 1 /\ s[1] = r /\ s # <<>>
    BY <2>2, Tuples
  <2>6. ReadsList("SetTraceVariablesList", r)
    BY <2>1, <2>4, <2>5 DEF ReadsList
  <2> QED
    BY <2>1, <2>5, <2>6 DEF ListsAtEnd, EndsInList
<1>3. ASSUME NEW m \in Methods, m # "NewPLC", m # "SetTraceVariablesList"
      PROVE  ListsAtEnd(m)
  <2>1. Reads(m) = <<>> => ListsAtEnd(m)
    BY Tuples DEF ListsAtEnd, EndsInList
  <2>2. ASSUME NEW p, ~IsList(p.layout), Reads(m) = <<p>>
        PROVE  ListsAtEnd(m)
    BY <2>2, Tuples DEF ListsAtEnd, EndsInList
  <2>3. ASSUME NEW p, NEW q, ~IsList(p.layout), ~IsList(q.layout), Reads(m) = <<p, q>>
        PROVE  ListsAtEnd(m)
    BY <2>3, Tuples DEF ListsAtEnd, EndsInList
  <2>4. CASE m \in {"GetPLCID", "GetPLCstatus", "PurgeBlobs", "RepairPLC", "ResetLogCount", "StartPLC", "StopPLC"}
    <3>1. Reads(m) = <<>>
      BY <2>4, TheShims DEF Reads, GetPLCID_shim, GetPLCstatus_shim, PurgeBlobs_shim, RepairPLC_shim,
            ResetLogCount_shim, StartPLC_shim, StopPLC_shim, Shim
    <3> QED
      BY <3>1, <2>1
  <2>5. CASE m = "AppendChunkToBlob"
    <3> DEFINE p == Param("data", Struct(read_binary_t_struct))
               q == Param("blobID", Struct(read_binary_t_struct))
    <3>1. Reads(m) = <<p, q>>
      BY <2>5, TheShims DEF Reads, AppendChunkToBlob_shim, Shim
    <3>2. ~IsList(p.layout) /\ ~IsList(q.layout)
      BY BinLayout DEF Param
    <3> HIDE DEF p, q
    <3> QED
      BY <3>1, <3>2, <2>3
  <2>6. CASE m = "GetLogMessage"
    <3> DEFINE p == Param("level", Scalar("u8"))
               q == Param("msgID", Scalar("u32"))
    <3>1. Reads(m) = <<p, q>>
      BY <2>6, TheShims DEF Reads, GetLogMessage_shim, Shim
    <3>2. ~IsList(p.layout) /\ ~IsList(q.layout)
      BY ScalarLayout DEF Param
    <3> HIDE DEF p, q
    <3> QED
      BY <3>1, <3>2, <2>3
  <2>7. CASE m = "GetTraceVariables"
    <3> DEFINE p == Param("debugToken", Scalar("u32"))
    <3>1. Reads(m) = <<p>>
      BY <2>7, TheShims DEF Reads, GetTraceVariables_shim, Shim
    <3>2. ~IsList(p.layout)
      BY ScalarLayout DEF Param
    <3> HIDE DEF p
    <3> QED
      BY <3>1, <3>2, <2>2
  <2>8. CASE m = "MatchMD5"
    <3> DEFINE p == Param("MD5", Scalar("string"))
    <3>1. Reads(m) = <<p>>
      BY <2>8, TheShims DEF Reads, MatchMD5_shim, Shim
    <3>2. ~IsList(p.layout)
      BY ScalarLayout DEF Param
    <3> HIDE DEF p
    <3> QED
      BY <3>1, <3>2, <2>2
  <2>9. CASE m = "SeedBlob"
    <3> DEFINE p == Param("seed", Struct(read_binary_t_struct))
    <3>1. Reads(m) = <<p>>
      BY <2>9, TheShims DEF Reads, SeedBlob_shim, Shim
    <3>2. ~IsList(p.layout)
      BY BinLayout DEF Param
    <3> HIDE DEF p
    <3> QED
      BY <3>1, <3>2, <2>2
  <2> QED
    BY <1>3, <2>4, <2>5, <2>6, <2>7, <2>8, <2>9, TheMethods
<1> QED
  BY <1>1, <1>2, <1>3

\* What the shim is still to read of the request, list, if any, is the leaves rest for
\* lists of n elements: the elements are found out when the list itself is read.
Ahead(leaves, rest, m, n) ==
    /\ IsSeq(rest)
    /\ \/ leaves = rest /\ Plain(rest)
       \/ \E front, list :
             /\ IsSeq(front) /\ Plain(front) /\ ReadsList(m, list)
             /\ leaves = front \o <<ListLeaf(list.name)>>
             /\ rest = leaves \o Body(list, n)

LEMMA NothingMore ==
    ASSUME NEW s, IsSeq(s)
    PROVE  s \o <<>> = s /\ <<>> \o s = s
BY ConcatProperties, EmptySeq DEF IsSeq

\* It is so from the start,
LEMMA AheadStart ==
    ASSUME NEW m, NEW params, GoodParams(params), EndsInList(m, params), NEW n \in Nat
    PROVE  Ahead(AllLeaves(params, 0), AllLeaves(params, n), m, n)
<1>1. AreParams(params) /\ ListLast(params) /\ \A i \in DOMAIN params : NoListType(params[i].layout)
  BY DEF GoodParams
<1>2. IsSeq(AllLeaves(params, n)) /\ IsSeq(AllLeaves(params, 0))
  BY <1>1, AllLeavesElements
<1>3. CASE \A i \in DOMAIN params : ~IsList(params[i].layout)
  <2>1. AllLeaves(params, n) = AllLeaves(params, 0) /\ Plain(AllLeaves(params, n))
    BY <1>1, <1>3, NoLists
  <2> QED
    BY <1>2, <2>1 DEF Ahead
<1>4. CASE params # <<>> /\ ReadsList(m, params[Len(params)])
  <2> PICK list : list = params[Len(params)]
    OBVIOUS
  <2>1. IsList(list.layout) /\ ReadsList(m, list)
    BY <1>4 DEF ReadsList
  <2>2. PICK front : /\ IsSeq(front) /\ Plain(front)
                     /\ \A k \in Nat : AllLeaves(params, k) = (front \o <<ListLeaf(list.name)>>) \o Body(list, k)
    <3>1. list = params[Len(params)] /\ params # <<>>
      BY <1>4
    <3> QED
      BY ONLY <1>1, <2>1, <3>1, ListAtEnd, Zenon
  <2>3. PICK r : r = front \o <<ListLeaf(list.name)>>
    OBVIOUS
  <2>4. IsSeq(r)
    BY <2>2, <2>3, OneInARow, RowOfTwo
  <2>5. Body(list, 0) = <<>>
    BY FlattenEmpty DEF Body
  <2>6. AllLeaves(params, 0) = r
    <3>1. 0 \in Nat
      OBVIOUS
    <3> QED
      BY <2>2, <2>3, <2>4, <2>5, <3>1, NothingMore
  <2>7. AllLeaves(params, n) = r \o Body(list, n)
    BY <2>2, <2>3
  <2> QED
    BY <1>2, <2>1, <2>2, <2>3, <2>6, <2>7 DEF Ahead
<1> QED
  BY <1>3, <1>4 DEF EndsInList

LEMMA TailOfTwo ==
    ASSUME NEW a, NEW b, IsSeq(a), IsSeq(b), a # <<>>
    PROVE  Tail(a \o b) = Tail(a) \o b /\ Head(a \o b) = Head(a) /\ a \o b # <<>>
<1>1. PICK la \in Nat : Len(a) = la /\ la # 0 /\ DOMAIN a = 1 .. la
  BY SeqIs DEF IsSeq
<1>2. PICK lb \in Nat : Len(b) = lb /\ DOMAIN b = 1 .. lb
  BY SeqIs
<1>3. PICK c : c = a \o b
  OBVIOUS
<1>4. /\ IsSeq(c) /\ Len(c) = la + lb
      /\ \A i \in 1 .. la : c[i] = a[i]
      /\ \A i \in 1 .. lb : c[la + i] = b[i]
  <2>1. /\ IsSeq(a \o b) /\ Len(a \o b) = Len(a) + Len(b)
        /\ \A i \in 1 .. Len(a) : (a \o b)[i] = a[i]
        /\ \A i \in 1 .. Len(b) : (a \o b)[Len(a) + i] = b[i]
    BY RowOfTwo
  <2> QED
    BY ONLY <2>1, <1>1, <1>2, <1>3
<1>5. c # <<>>
  BY <1>1, <1>2, <1>4
<1>6. PICK t : t = Tail(a)
  OBVIOUS
<1>7. IsSeq(t) /\ Len(t) = la - 1 /\ Head(a) = a[1] /\ \A i \in 1 .. la - 1 : t[i] = a[i + 1]
  BY <1>1, <1>6, TailOf
<1>8. PICK d : d = t \o b
  OBVIOUS
<1>9. /\ IsSeq(d) /\ Len(d) = la - 1 + lb
      /\ \A i \in 1 .. la - 1 : d[i] = t[i]
      /\ \A i \in 1 .. lb : d[la - 1 + i] = b[i]
  <2>1. /\ IsSeq(t \o b) /\ Len(t \o b) = Len(t) + Len(b)
        /\ \A i \in 1 .. Len(t) : (t \o b)[i] = t[i]
        /\ \A i \in 1 .. Len(b) : (t \o b)[Len(t) + i] = b[i]
    BY <1>7, RowOfTwo
  <2>2. Len(t) = la - 1
    BY <1>7
  <2> QED
    BY ONLY <2>1, <2>2, <1>2, <1>8
<1>10. PICK e : e = Tail(c)
  OBVIOUS
<1>11. IsSeq(e) /\ Len(e) = la + lb - 1 /\ Head(c) = c[1] /\ \A i \in 1 .. la + lb - 1 : e[i] = c[i + 1]
  BY <1>1, <1>2, <1>4, <1>5, <1>10, TailOf
<1>12. ASSUME NEW i \in 1 .. la + lb - 1
       PROVE  e[i] = d[i]
  <2>1. CASE i \in 1 .. la - 1
    <3>1. i + 1 \in 1 .. la
      BY <1>1, <2>1
    <3>2. e[i] = a[i + 1]
      BY <1>4, <1>11, <1>12, <3>1
    <3> QED
      BY <1>7, <1>9, <2>1, <3>2
  <2>2. CASE i \notin 1 .. la - 1
    <3>1. PICK j \in 1 .. lb : i = la - 1 + j /\ i + 1 = la + j
      <4> DEFINE j == i - (la - 1)
      <4>1. j \in 1 .. lb /\ i = la - 1 + j /\ i + 1 = la + j
        BY <1>1, <1>2, <1>12, <2>2
      <4> QED
        BY <4>1
    <3>2. e[i] = b[j]
      BY <1>4, <1>11, <1>12, <3>1
    <3>3. d[i] = b[j]
      BY <1>9, <3>1
    <3> QED
      BY <3>2, <3>3
  <2> QED
    BY <2>1, <2>2
<1>13. e = d
  <2>1. PICK n \in Nat : n = la + lb - 1
    BY <1>1, <1>2
  <2>2. e = [i \in 1 .. n |-> e[i]]
    BY <1>11, <2>1, SeqIs
  <2>3. d = [i \in 1 .. n |-> d[i]]
    <3>1. n = la - 1 + lb
      BY <1>1, <1>2, <2>1
    <3> QED
      BY <1>9, <3>1, SeqIs
  <2>4. \A i \in 1 .. n : e[i] = d[i]
    BY <1>12, <2>1
  <2> QED
    BY <2>2, <2>3, <2>4
<1>14. Head(c) = Head(a)
  BY <1>1, <1>4, <1>7, <1>11
<1> QED
  BY <1>3, <1>5, <1>6, <1>8, <1>10, <1>13, <1>14

\* when a field has been read that is not a list,
LEMMA AheadOne ==
    ASSUME NEW leaves, NEW rest, NEW m, NEW n \in Nat, Ahead(leaves, rest, m, n), leaves # <<>>, Head(leaves).type # "list"
    PROVE  /\ rest # <<>> /\ Head(rest) = Head(leaves)
           /\ Ahead(Tail(leaves), Tail(rest), m, n)
<1>1. IsSeq(rest)
  BY DEF Ahead
<1>2. CASE leaves = rest /\ Plain(rest)
  <2>1. IsSeq(Tail(rest)) /\ Range(Tail(rest)) \subseteq Range(rest)
    BY <1>1, <1>2, TailOf
  <2>2. Plain(Tail(rest))
    BY <1>2, <2>1 DEF Plain
  <2> QED
    BY <1>2, <2>1, <2>2 DEF Ahead
<1>3. ASSUME NEW front, NEW list, IsSeq(front), Plain(front), ReadsList(m, list),
             leaves = front \o <<ListLeaf(list.name)>>, rest = leaves \o Body(list, n)
      PROVE  /\ rest # <<>> /\ Head(rest) = Head(leaves)
             /\ Ahead(Tail(leaves), Tail(rest), m, n)
  <2>1. PICK one : one = <<ListLeaf(list.name)>>
    OBVIOUS
  <2>2. IsSeq(one)
    BY <2>1, OneInARow
  <2>3. front # <<>>
    <3>1. ASSUME front = <<>>
          PROVE  FALSE
      <4>1. leaves = one
        BY <1>3, <2>1, <2>2, <3>1, NothingMore
      <4>2. Head(leaves) = ListLeaf(list.name)
        BY <2>1, <4>1
      <4> QED
        BY <4>2 DEF ListLeaf
    <3> QED
      BY <3>1
  <2>4. Tail(leaves) = Tail(front) \o one
    BY <1>3, <2>1, <2>2, <2>3, TailOfTwo
  <2>5. IsSeq(leaves)
    BY <1>3, <2>1, <2>2, RowOfTwo
  <2>6. PICK b : b = Body(list, n)
    OBVIOUS
  <2>7. IsSeq(b)
    BY <1>3, <2>6, BodyElements DEF ReadsList, GoodLayout
  <2>8. Tail(rest) = Tail(leaves) \o b /\ Head(rest) = Head(leaves) /\ rest # <<>>
    BY <1>3, <2>5, <2>6, <2>7, TailOfTwo
  <2>9. IsSeq(Tail(rest)) /\ IsSeq(Tail(front)) /\ Range(Tail(front)) \subseteq Range(front)
    BY <1>1, <1>3, <2>3, <2>8, TailOf
  <2>10. Plain(Tail(front))
    BY <1>3, <2>9 DEF Plain
  <2>11. Ahead(Tail(leaves), Tail(rest), m, n)
    <3> HIDE DEF Ahead
    <3>1. \E f, l : /\ IsSeq(f) /\ Plain(f) /\ ReadsList(m, l)
                    /\ Tail(leaves) = f \o <<ListLeaf(l.name)>>
                    /\ Tail(rest) = Tail(leaves) \o Body(l, n)
      <4> WITNESS Tail(front), list
      <4> QED
        BY <1>3, <2>1, <2>4, <2>6, <2>8, <2>9, <2>10
    <3> QED
      BY <2>9, <3>1 DEF Ahead
  <2> QED
    BY <2>8, <2>11
<1> QED
  BY <1>2, <1>3 DEF Ahead

\* and when the list has been.
LEMMA AheadList ==
    ASSUME NEW leaves, NEW rest, NEW m, NEW n \in Nat, Ahead(leaves, rest, m, n), leaves # <<>>, Head(leaves).type = "list"
    PROVE  \E list :
              /\ ReadsList(m, list) /\ Head(leaves) = ListLeaf(list.name)
              /\ rest # <<>> /\ Head(rest) = Head(leaves)
              /\ Tail(leaves) = <<>> /\ Tail(rest) = Body(list, n)
              /\ Tail(Leaves(list, n)) \o Tail(leaves) = Tail(rest)
              /\ Ahead(Tail(rest), Tail(rest), m, n)
<1>1. ASSUME leaves = rest, Plain(rest)
      PROVE  FALSE
  <2>1. Head(rest) \in Range(rest)
    BY <1>1, TailOf DEF Ahead
  <2> QED
    BY <1>1, <2>1 DEF Plain
<1>2. PICK front, list : /\ IsSeq(front) /\ Plain(front) /\ ReadsList(m, list)
                         /\ leaves = front \o <<ListLeaf(list.name)>>
                         /\ rest = leaves \o Body(list, n)
  BY <1>1 DEF Ahead
<1>3. PICK one : one = <<ListLeaf(list.name)>>
  OBVIOUS
<1>4. IsSeq(one) /\ Head(one) = ListLeaf(list.name) /\ Tail(one) = <<>> /\ one # <<>>
  BY <1>3, OneInARow
<1>5. front = <<>>
  <2>1. ASSUME front # <<>>
        PROVE  FALSE
    <3>1. Head(leaves) = Head(front)
      BY <1>2, <1>3, <1>4, <2>1, TailOfTwo
    <3>2. Head(front) \in Range(front)
      BY <1>2, <2>1, TailOf
    <3> QED
      BY <1>2, <3>1, <3>2 DEF Plain
  <2> QED
    BY <2>1
<1>6. leaves = one
  BY <1>2, <1>3, <1>4, <1>5, NothingMore
<1>7. PICK b : b = Body(list, n)
  OBVIOUS
<1>8. IsSeq(b) /\ Plain(b)
  BY <1>2, <1>7, BodyElements, BodyPlain DEF ReadsList, GoodLayout
<1>9. rest = one \o b /\ IsSeq(rest)
  BY <1>2, <1>6, <1>7 DEF Ahead
<1>10. Tail(rest) = b /\ Head(rest) = Head(one) /\ rest # <<>>
  <2>1. Tail(one \o b) = Tail(one) \o b /\ Head(one \o b) = Head(one) /\ one \o b # <<>>
    BY <1>4, <1>8, TailOfTwo
  <2>2. <<>> \o b = b
    BY <1>8, NothingMore
  <2> QED
    BY <1>4, <1>9, <2>1, <2>2
<1>11. Leaves(list, n) = rest
  <2>1. IsList(list.layout) /\ list.layout.head = <<>>
    BY <1>2 DEF ReadsList
  <2>2. HeadLeaves(list) = <<>>
    BY <2>1 DEF HeadLeaves
  <2>3. Leaves(list, n) = <<>> \o one \o b
    BY <2>1, <2>2, <1>3, <1>7, LeavesParts
  <2>4. <<>> \o one = one
    BY <1>4, NothingMore
  <2> QED
    BY <1>9, <2>3, <2>4
<1>12. Tail(Leaves(list, n)) \o Tail(leaves) = b
  BY <1>4, <1>6, <1>8, <1>10, <1>11, NothingMore
<1>13. Ahead(b, b, m, n)
  BY <1>8 DEF Ahead
<1> QED
  BY <1>2, <1>4, <1>6, <1>7, <1>10, <1>12, <1>13

\* The fields that carry leaves, and their values.
Fields(leaves, c) == [i \in 1 .. Len(leaves) |-> Field0(leaves[i], c)]
Values(leaves, c) == {<<l.path, Value(l, c.n, c.full)>> : l \in Range(leaves)}

LEMMA FieldsOne ==
    ASSUME NEW rest, IsSeq(rest), rest # <<>>, NEW c
    PROVE  /\ Fields(rest, c) # <<>> /\ Head(Fields(rest, c)) = Field0(Head(rest), c)
           /\ Tail(Fields(rest, c)) = Fields(Tail(rest), c)
           /\ Values(rest, c) = {<<Head(rest).path, Value(Head(rest), c.n, c.full)>>} \cup Values(Tail(rest), c)
<1>1. PICK n \in Nat : n = Len(rest) /\ n # 0
  BY SeqIs DEF IsSeq
<1>2. PICK t : t = Tail(rest)
  OBVIOUS
<1>3. /\ IsSeq(t) /\ Len(t) = n - 1 /\ n - 1 \in Nat
      /\ \A i \in 1 .. n - 1 : t[i] = rest[i + 1]
      /\ Head(rest) = rest[1] /\ Range(rest) = {rest[1]} \cup Range(t)
  BY <1>1, <1>2, TailOf
<1>4. PICK f : f = Fields(rest, c)
  OBVIOUS
<1>5. f = [i \in 1 .. n |-> f[i]] /\ \A i \in 1 .. n : f[i] = Field0(rest[i], c)
  BY <1>1, <1>4 DEF Fields
<1>6. IsSeq(f) /\ Len(f) = n
  BY <1>5, FunctionIsSeq
<1>7. f # <<>>
  BY <1>1, <1>6
<1>8. PICK u : u = Tail(f)
  OBVIOUS
<1>9. IsSeq(u) /\ Len(u) = n - 1 /\ Head(f) = f[1] /\ \A i \in 1 .. n - 1 : u[i] = f[i + 1]
  BY <1>1, <1>6, <1>7, <1>8, TailOf
<1>10. u = [i \in 1 .. n - 1 |-> u[i]]
  BY <1>9, SeqIs
<1>11. \A i \in 1 .. n - 1 : u[i] = Field0(t[i], c)
  <2>1. \A i \in 1 .. n - 1 : i + 1 \in 1 .. n
    BY <1>1
  <2> QED
    BY <1>3, <1>5, <1>9, <2>1
<1>12. u = Fields(t, c)
  BY <1>3, <1>10, <1>11 DEF Fields
<1>13. Head(f) = Field0(Head(rest), c)
  BY <1>1, <1>3, <1>5, <1>9
<1>14. Values(rest, c) = {<<Head(rest).path, Value(Head(rest), c.n, c.full)>>} \cup Values(t, c)
  BY <1>3 DEF Values
<1> QED
  BY <1>2, <1>4, <1>7, <1>8, <1>12, <1>13, <1>14

-----------------------------------------------------------------------------
(* The results: the handlers set what the reply is made of.                *)

\* No two members of a struct have one name, and none that of the list.
Named(layout) ==
    /\ \A a, b \in Range(layout.head) : a.member = b.member => a = b
    /\ \A a, b \in Range(layout.each) : a.member = b.member => a = b
    /\ \A a \in Range(layout.head) : a.member # "elements"

NamedWrites(m) ==
    \/ Writes(m) = <<>>
    \/ \E p : Writes(m) = <<p>> /\ GoodLayout(p.layout) /\ Named(p.layout)

LEMMA StructNamed ==
    ASSUME NEW leaves, \A a, b \in Range(leaves) : a.member = b.member => a = b,
           \A a \in Range(leaves) : a.member # "elements"
    PROVE  Named(Struct(leaves))
<1>1. Range(<<>>) = {}
  BY Tuples
<1> QED
  BY <1>1 DEF Named, Struct

LEMMA ScalarNamed == \A type : Named(Scalar(type))
<1> TAKE type
<1> PICK s : s = <<Leaf(type, "")>>
  OBVIOUS
<1>1. Range(s) = {Leaf(type, "")}
  BY Tuples
<1>2. \A a \in Range(s) : a.member # "elements"
  <2>1. Leaf(type, "").member # "elements"
    BY DEF Leaf
  <2> QED
    BY <1>1, <2>1
<1>3. \A a, b \in Range(s) : a.member = b.member => a = b
  BY <1>1
<1> QED
  BY <1>2, <1>3, StructNamed DEF Scalar

LEMMA WritesNamed == \A m \in Methods : NamedWrites(m)
<1>1. ASSUME NEW m \in Methods, NEW p, Writes(m) = <<p>>, GoodLayout(p.layout), Named(p.layout)
      PROVE  NamedWrites(m)
  BY <1>1 DEF NamedWrites
<1>2. ASSUME NEW m \in Methods, NEW name, NEW type, type # "list", Writes(m) = <<Param(name, Scalar(type))>>
      PROVE  NamedWrites(m)
  <2>1. Param(name, Scalar(type)).layout = Scalar(type)
    BY DEF Param
  <2> QED
    BY <1>1, <1>2, <2>1, ScalarLayout, ScalarNamed
<1>3. ASSUME NEW m \in Methods, NEW name, NEW leaves, Writes(m) = <<Param(name, Struct(leaves))>>,
             GoodLayout(Struct(leaves)),
             \A a, b \in Range(leaves) : a.member = b.member => a = b,
             \A a \in Range(leaves) : a.member # "elements"
      PROVE  NamedWrites(m)
  <2>1. Param(name, Struct(leaves)).layout = Struct(leaves)
    BY DEF Param
  <2> QED
    BY <1>1, <1>3, <2>1, StructNamed
<1>4. ASSUME NEW m \in {"AppendChunkToBlob", "SeedBlob"}
      PROVE  NamedWrites(m)
  <2>1. PICK name : Writes(m) = <<Param(name, Struct(write_binary_t_struct))>>
    BY TheShims DEF Writes, AppendChunkToBlob_shim, SeedBlob_shim, Shim
  <2>2. Range(write_binary_t_struct) = {Leaf("binary", "data")}
    BY Tuples DEF write_binary_t_struct
  <2>3. m \in Methods
    BY TheMethods
  <2>4. /\ \A a, b \in Range(write_binary_t_struct) : a.member = b.member => a = b
        /\ \A a \in Range(write_binary_t_struct) : a.member # "elements"
    BY <2>2 DEF Leaf
  <2> QED
    BY <1>3, <2>1, <2>3, <2>4, WriteBinLayout
<1>5. NamedWrites("GetLogMessage")
  <2>1. Writes("GetLogMessage") = <<Param("message", Struct(write_log_message_struct))>>
    BY TheShims DEF Writes, GetLogMessage_shim, Shim
  <2>2. Range(write_log_message_struct) = {Leaf("string", "msg"), Leaf("u32", "tick"), Leaf("u32", "sec"), Leaf("u32", "nsec")}
    BY Tuples DEF write_log_message_struct
  <2>3. /\ \A a, b \in Range(write_log_message_struct) : a.member = b.member => a = b
        /\ \A a \in Range(write_log_message_struct) : a.member # "elements"
    BY <2>2 DEF Leaf
  <2> QED
    BY <1>3, <2>1, <2>3, LogMessageLayout, TheMethods
<1>6. NamedWrites("GetPLCID")
  <2>1. Writes("GetPLCID") = <<Param("plcID", Struct(write_PSKID_struct))>>
    BY TheShims DEF Writes, GetPLCID_shim, Shim
  <2>2. Range(write_PSKID_struct) = {Leaf("string", "ID"), Leaf("string", "PSK")}
    BY Tuples DEF write_PSKID_struct
  <2>3. /\ \A a, b \in Range(write_PSKID_struct) : a.member = b.member => a = b
        /\ \A a \in Range(write_PSKID_struct) : a.member # "elements"
    BY <2>2 DEF Leaf
  <2> QED
    BY <1>3, <2>1, <2>3, PSKIDLayout, TheMethods
<1>7. NamedWrites("GetPLCstatus")
  <2>1. Writes("GetPLCstatus") = <<Param("status", Struct(write_PLCstatus_struct))>>
    BY TheShims DEF Writes, GetPLCstatus_shim, Shim
  <2>2. Range(write_PLCstatus_struct) = {Leaf("i32", "PLCstatus"), Leaf("u32", "logcounts")}
    BY PLCstatusLeaves
  <2>3. /\ \A a, b \in Range(write_PLCstatus_struct) : a.member = b.member => a = b
        /\ \A a \in Range(write_PLCstatus_struct) : a.member # "elements"
    BY <2>2 DEF Leaf
  <2> QED
    BY <1>3, <2>1, <2>3, PLCstatusLayout, TheMethods
<1>8. NamedWrites("GetTraceVariables")
  <2>1. Writes("GetTraceVariables") = <<Param("traces", write_TraceVariables_struct)>>
    BY TheShims DEF Writes, GetTraceVariables_shim, Shim
  <2>2. Range(write_TraceVariables_struct.head) = {Leaf("i32", "PLCstatus")}
    BY Tuples, TracesLayout
  <2>3. Range(write_TraceVariables_struct.each) = {Leaf("u32", "tick"), Leaf("binary", "TraceBuffer")}
    BY Tuples, TracesLayout DEF write_trace_sample_struct
  <2>4. Named(write_TraceVariables_struct)
    BY <2>2, <2>3 DEF Named, Leaf
  <2>5. Param("traces", write_TraceVariables_struct).layout = write_TraceVariables_struct
    BY DEF Param
  <2> QED
    BY <1>1, <2>1, <2>4, <2>5, TracesLayout, TheMethods
<1>9. ASSUME NEW m \in {"MatchMD5", "NewPLC", "SetTraceVariablesList", "StopPLC"}
      PROVE  NamedWrites(m)
  <2>1. PICK name, type : Writes(m) = <<Param(name, Scalar(type))>> /\ type # "list"
    BY TheShims DEF Writes, MatchMD5_shim, NewPLC_shim, SetTraceVariablesList_shim, StopPLC_shim, Shim
  <2> QED
    BY <1>2, <2>1, TheMethods
<1>10. ASSUME NEW m \in {"PurgeBlobs", "RepairPLC", "ResetLogCount", "StartPLC"}
       PROVE  NamedWrites(m)
  BY TheShims DEF NamedWrites, Writes, PurgeBlobs_shim, RepairPLC_shim, ResetLogCount_shim, StartPLC_shim, Shim
<1> QED
  BY <1>4, <1>5, <1>6, <1>7, <1>8, <1>9, <1>10, TheMethods

\* So a path names one leaf of the results.
LEMMA PathsNameResults ==
    ASSUME NEW m \in Methods, NEW n \in Nat,
           NEW l \in Range(AllLeaves(Writes(m), n)), NEW k \in Range(AllLeaves(Writes(m), n)), l.path = k.path
    PROVE  l = k
<1>1. PICK p : Writes(m) = <<p>> /\ GoodLayout(p.layout) /\ Named(p.layout)
  <2>1. ASSUME Writes(m) = <<>>
        PROVE  FALSE
    <3>1. AreParams(Writes(m)) /\ DOMAIN Writes(m) = {}
      BY <2>1, Tuples DEF AreParams
    <3> QED
      BY <3>1, AllLeavesElements
  <2> QED
    BY <2>1, WritesNamed DEF NamedWrites
<1>2. AreParams(Writes(m)) /\ DOMAIN Writes(m) = {1} /\ Writes(m)[1] = p
  BY <1>1, Tuples DEF AreParams, GoodLayout
<1>3. l \in LeafSet(p, n) /\ k \in LeafSet(p, n)
  BY <1>2, AllLeavesElements
<1>4. \A a, b \in Range(p.layout.head) : a.member = b.member => a = b
  BY <1>1 DEF Named
<1>5. \A a, b \in Range(p.layout.each) : a.member = b.member => a = b
  BY <1>1 DEF Named
<1>6. \A a \in Range(p.layout.head) : a.member # "elements"
  BY <1>1 DEF Named
<1> QED
  BY <1>3, <1>4, <1>5, <1>6 DEF LeafSet, At, ListLeaf, Elements

LEMMA OneParam ==
    ASSUME NEW p, GoodLayout(p.layout), NEW n \in Nat
    PROVE  Range(AllLeaves(<<p>>, n)) = LeafSet(p, n)
<1> PICK params : params = <<p>>
  OBVIOUS
<1>1. DOMAIN params = {1} /\ params[1] = p /\ AreParams(params)
  BY Tuples DEF AreParams, GoodLayout
<1>2. Range(AllLeaves(params, n)) = UNION {LeafSet(params[i], n) : i \in DOMAIN params}
  BY <1>1, AllLeavesElements
<1>3. UNION {LeafSet(params[i], n) : i \in DOMAIN params} = LeafSet(p, n)
  <2>1. {LeafSet(params[i], n) : i \in DOMAIN params} = {LeafSet(p, n)}
    BY <1>1
  <2> QED
    BY <2>1
<1> QED
  BY <1>2, <1>3

LEMMA StructLeaves ==
    ASSUME NEW name, NEW leaves, GoodLayout(Struct(leaves)), ~IsList(Struct(leaves)), NEW n \in Nat
    PROVE  Range(AllLeaves(<<Param(name, Struct(leaves))>>, n)) = {At(name, 0, leaf) : leaf \in Range(leaves)}
<1> PICK p : p = Param(name, Struct(leaves))
  OBVIOUS
<1>1. p.name = name /\ p.layout = Struct(leaves) /\ p.layout.head = leaves
  BY DEF Param, Struct
<1>2. LeafSet(p, n) = {At(name, 0, leaf) : leaf \in Range(leaves)}
  BY <1>1 DEF LeafSet
<1> QED
  BY <1>1, <1>2, OneParam

LEMMA ScalarLeaves ==
    ASSUME NEW name, NEW type, type # "list", NEW n \in Nat
    PROVE  Range(AllLeaves(<<Param(name, Scalar(type))>>, n)) = {At(name, 0, Leaf(type, ""))}
<1> PICK a : a = Leaf(type, "")
  OBVIOUS
<1> PICK s : s = <<a>>
  OBVIOUS
<1>1. Range(s) = {a}
  BY Tuples
<1>2. GoodLayout(Struct(s)) /\ ~IsList(Struct(s)) /\ Scalar(type) = Struct(s)
  BY ScalarLayout DEF Scalar
<1>3. Range(AllLeaves(<<Param(name, Struct(s))>>, n)) = {At(name, 0, leaf) : leaf \in Range(s)}
  BY <1>2, StructLeaves
<1> QED
  BY ZenonT(40), <1>1, <1>2, <1>3

LEMMA NoLeaves ==
    ASSUME NEW n \in Nat
    PROVE  Range(AllLeaves(<<>>, n)) = {}
<1>1. AreParams(<<>>) /\ DOMAIN <<>> = {}
  BY Tuples DEF AreParams
<1> QED
  BY <1>1, AllLeavesElements

\* A handler that does not fail sets every leaf of the reply.
LEMMA ResultsComplete ==
    ASSUME call.method \in Methods, NEW n \in Nat, NEW l \in Range(AllLeaves(Writes(call.method), n))
    PROVE  l.path \in ResultsSet(n)
<1> PICK m : m = call.method
  OBVIOUS
<1>1. CASE m = "AppendChunkToBlob"
  <2>1. Writes(m) = <<Param("newBlobID", Struct(write_binary_t_struct))>>
    BY <1>1, TheShims DEF Writes, AppendChunkToBlob_shim, Shim
  <2>2. Range(write_binary_t_struct) = {Leaf("binary", "data")}
    BY Tuples DEF write_binary_t_struct
  <2>3. l = At("newBlobID", 0, Leaf("binary", "data"))
    BY <2>1, <2>2, WriteBinLayout, StructLeaves
  <2> QED
    BY <1>1, <2>3 DEF At, Leaf, ResultsSet, AppendChunkToBlob_sets, Sets
<1>2. CASE m = "SeedBlob"
  <2>1. Writes(m) = <<Param("blobID", Struct(write_binary_t_struct))>>
    BY <1>2, TheShims DEF Writes, SeedBlob_shim, Shim
  <2>2. Range(write_binary_t_struct) = {Leaf("binary", "data")}
    BY Tuples DEF write_binary_t_struct
  <2>3. l = At("blobID", 0, Leaf("binary", "data"))
    BY <2>1, <2>2, WriteBinLayout, StructLeaves
  <2> QED
    BY <1>2, <2>3 DEF At, Leaf, ResultsSet, SeedBlob_sets, Sets
<1>3. CASE m = "GetPLCID"
  <2>1. Writes(m) = <<Param("plcID", Struct(write_PSKID_struct))>>
    BY <1>3, TheShims DEF Writes, GetPLCID_shim, Shim
  <2>2. Range(write_PSKID_struct) = {Leaf("string", "ID"), Leaf("string", "PSK")}
    BY Tuples DEF write_PSKID_struct
  <2>3. PICK leaf \in Range(write_PSKID_struct) : l = At("plcID", 0, leaf)
    BY <2>1, PSKIDLayout, StructLeaves
  <2>4. leaf.member \in {"ID", "PSK"}
    BY <2>2 DEF Leaf
  <2> QED
    BY <1>3, <2>3, <2>4 DEF At, ResultsSet, GetPLCID_sets, Sets
<1>4. CASE m = "GetLogMessage"
  <2>1. Writes(m) = <<Param("message", Struct(write_log_message_struct))>>
    BY <1>4, TheShims DEF Writes, GetLogMessage_shim, Shim
  <2>2. Range(write_log_message_struct) = {Leaf("string", "msg"), Leaf("u32", "tick"), Leaf("u32", "sec"), Leaf("u32", "nsec")}
    BY Tuples DEF write_log_message_struct
  <2>3. PICK leaf \in Range(write_log_message_struct) : l = At("message", 0, leaf)
    BY <2>1, LogMessageLayout, StructLeaves
  <2>4. leaf.member \in {"msg", "tick", "sec", "nsec"}
    BY <2>2 DEF Leaf
  <2> QED
    BY <1>4, <2>3, <2>4 DEF At, ResultsSet, GetLogMessage_sets, Sets
<1>5. CASE m = "GetPLCstatus"
  <2>1. Writes(m) = <<Param("status", Struct(write_PLCstatus_struct))>>
    BY <1>5, TheShims DEF Writes, GetPLCstatus_shim, Shim
  <2>2. Range(write_PLCstatus_struct) = {Leaf("i32", "PLCstatus"), Leaf("u32", "logcounts")}
    BY PLCstatusLeaves
  <2>3. PICK leaf \in Range(write_PLCstatus_struct) : l = At("status", 0, leaf)
    BY <2>1, PLCstatusLayout, StructLeaves
  <2>4. leaf.member \in {"PLCstatus", "logcounts"}
    BY <2>2 DEF Leaf
  <2> QED
    BY <1>5, <2>3, <2>4 DEF At, ResultsSet, GetPLCstatus_sets, Sets
<1>6. CASE m = "GetTraceVariables"
  <2> PICK p : p = Param("traces", write_TraceVariables_struct)
    OBVIOUS
  <2>1. Writes(m) = <<p>>
    BY <1>6, TheShims DEF Writes, GetTraceVariables_shim, Shim
  <2>2. p.name = "traces" /\ p.layout = write_TraceVariables_struct
    BY DEF Param
  <2>3. Range(p.layout.head) = {Leaf("i32", "PLCstatus")}
    BY <2>2, Tuples, TracesLayout
  <2>4. Range(p.layout.each) = {Leaf("u32", "tick"), Leaf("binary", "TraceBuffer")}
    <3>1. Range(write_trace_sample_struct) = {Leaf("u32", "tick"), Leaf("binary", "TraceBuffer")}
      BY Tuples DEF write_trace_sample_struct
    <3> QED
      BY <2>2, <3>1, TracesLayout
  <2>5. l \in LeafSet(p, n)
    BY <2>1, <2>2, TracesLayout, OneParam
  <2>6. \/ l = At("traces", 0, Leaf("i32", "PLCstatus"))
        \/ l = ListLeaf("traces")
        \/ \E k \in 1 .. n : l = At("traces", k, Leaf("u32", "tick")) \/ l = At("traces", k, Leaf("binary", "TraceBuffer"))
    BY <2>2, <2>3, <2>4, <2>5 DEF LeafSet
  <2>7. l.path \in GetTraceVariables_sets(n)
    BY <2>6 DEF At, Leaf, ListLeaf, Elements, GetTraceVariables_sets, Sets, SetsEach
  <2> QED
    BY <1>6, <2>7 DEF ResultsSet
<1>7. ASSUME NEW name, NEW type, type # "list", Writes(m) = <<Param(name, Scalar(type))>>
      PROVE  l.path = Self(name)
  <2>1. l = At(name, 0, Leaf(type, ""))
    <3>1. l \in Range(AllLeaves(<<Param(name, Scalar(type))>>, n))
      BY <1>7
    <3>2. Range(AllLeaves(<<Param(name, Scalar(type))>>, n)) = {At(name, 0, Leaf(type, ""))}
      BY <1>7, ScalarLeaves
    <3> QED
      BY ONLY <3>1, <3>2
  <2> QED
    BY <2>1 DEF At, Leaf, Self
<1>8. CASE m = "MatchMD5"
  <2>1. Writes(m) = <<Param("match", Scalar("bool"))>>
    BY <1>8, TheShims DEF Writes, MatchMD5_shim, Shim
  <2>2. l.path = Self("match")
    BY <1>7, <2>1
  <2> QED
    BY <1>8, <2>2 DEF ResultsSet, MatchMD5_sets
<1>9. CASE m = "NewPLC"
  <2>1. Writes(m) = <<Param("success", Scalar("bool"))>>
    BY <1>9, TheShims DEF Writes, NewPLC_shim, Shim
  <2>2. l.path = Self("success")
    BY <1>7, <2>1
  <2> QED
    BY <1>9, <2>2 DEF ResultsSet, NewPLC_sets
<1>10. CASE m = "SetTraceVariablesList"
  <2>1. Writes(m) = <<Param("debugtoken", Scalar("u32"))>>
    BY <1>10, TheShims DEF Writes, SetTraceVariablesList_shim, Shim
  <2>2. l.path = Self("debugtoken")
    BY <1>7, <2>1
  <2> QED
    BY <1>10, <2>2 DEF ResultsSet, SetTraceVariablesList_sets
<1>11. CASE m = "StopPLC"
  <2>1. Writes(m) = <<Param("success", Scalar("bool"))>>
    BY <1>11, TheShims DEF Writes, StopPLC_shim, Shim
  <2>2. l.path = Self("success")
    BY <1>7, <2>1
  <2> QED
    BY <1>11, <2>2 DEF ResultsSet, StopPLC_sets
<1>12. CASE m \in {"PurgeBlobs", "RepairPLC", "ResetLogCount", "StartPLC"}
  <2>1. Writes(m) = <<>>
    BY <1>12, TheShims DEF Writes, PurgeBlobs_shim, RepairPLC_shim, ResetLogCount_shim, StartPLC_shim, Shim
  <2> QED
    BY <2>1, NoLeaves
<1> QED
  BY <1>1, <1>2, <1>3, <1>4, <1>5, <1>6, <1>8, <1>9, <1>10, <1>11, <1>12, TheMethods

\* The results r of method m, and the reply that carries them.
Given(m, r) == Values(AllLeaves(Writes(m), r.n), r)
Reply(m, r) == Fields(AllLeaves(Writes(m), r.n), r)

\* The lists in memory have n elements.
ListsHave(m, n) == \A i \in DOMAIN Writes(m) : IsList(Writes(m)[i].layout) => ListLength(Writes(m)[i].name) = n

LEMMA WrittenIs ==
    ASSUME NEW n \in Nat, ListsHave(call.method, n)
    PROVE  Written = AllLeaves(Writes(call.method), n)
<1> PICK params : params = handleInvocation[call.method].writes
  OBVIOUS
<1>1. \A i \in DOMAIN params :
         Leaves(params[i], IF IsList(params[i].layout) THEN ListLength(params[i].name) ELSE 0) = Leaves(params[i], n)
  <2>1. ASSUME NEW i \in DOMAIN params
        PROVE  Leaves(params[i], IF IsList(params[i].layout) THEN ListLength(params[i].name) ELSE 0) = Leaves(params[i], n)
    <3>1. CASE IsList(params[i].layout)
      BY <3>1 DEF ListsHave, Writes
    <3>2. CASE ~IsList(params[i].layout)
      BY <3>2, LeavesParts
    <3> QED
      BY <3>1, <3>2
  <2> QED
    BY <2>1
<1>2. [i \in DOMAIN params |-> Leaves(params[i], IF IsList(params[i].layout) THEN ListLength(params[i].name) ELSE 0)]
      = [i \in DOMAIN params |-> Leaves(params[i], n)]
  BY <1>1
<1>3. Written = FlattenSeq([i \in DOMAIN params |-> Leaves(params[i], IF IsList(params[i].layout) THEN ListLength(params[i].name) ELSE 0)])
  BY Zenon DEF Written
<1>4. AllLeaves(params, n) = FlattenSeq([i \in DOMAIN params |-> Leaves(params[i], n)])
  BY Zenon DEF AllLeaves
<1> QED
  BY <1>2, <1>3, <1>4 DEF Writes

LEMMA StoredIs ==
    ASSUME NEW m \in Methods, NEW r, r.n \in Nat, given = Given(m, r), NEW l \in Range(AllLeaves(Writes(m), r.n))
    PROVE  Stored(l.path) = Value(l, r.n, r.full)
<1> PICK v : v = <<l.path, Value(l, r.n, r.full)>>
  OBVIOUS
<1>1. v \in given /\ v[1] = l.path /\ v[2] = Value(l, r.n, r.full)
  BY DEF Given, Values
<1>2. ASSUME NEW w \in given, w[1] = l.path
      PROVE  w = v
  <2>1. PICK k \in Range(AllLeaves(Writes(m), r.n)) : w = <<k.path, Value(k, r.n, r.full)>>
    BY DEF Given, Values
  <2>2. k = l
    BY <1>2, <2>1, PathsNameResults
  <2> QED
    BY <2>1, <2>2
<1>3. (CHOOSE w \in given : w[1] = l.path) = v
  BY <1>1, <1>2
<1> QED
  BY <1>1, <1>3 DEF Stored

LEMMA ReplyIs ==
    ASSUME call.method \in Methods, NEW r, r.n \in Nat, given = Given(call.method, r), ListsHave(call.method, r.n)
    PROVE  [i \in DOMAIN Written |-> <<Written[i].type, Stored(Written[i].path)>>] = Reply(call.method, r)
<1> PICK w : w = AllLeaves(Writes(call.method), r.n)
  OBVIOUS
<1>1. Written = w
  BY WrittenIs
<1>2. IsSeq(w) /\ DOMAIN w = 1 .. Len(w)
  <2>1. AreParams(Writes(call.method))
    BY WritesGood DEF GoodParams, Writes
  <2>2. IsSeq(w)
    BY <2>1, AllLeavesElements
  <2> QED
    BY <2>2, SeqIs
<1>3. ASSUME NEW i \in 1 .. Len(w)
      PROVE  <<w[i].type, Stored(w[i].path)>> = Field0(w[i], r)
  <2>1. w[i] \in Range(w)
    BY <1>2, <1>3 DEF Range
  <2>2. Stored(w[i].path) = Value(w[i], r.n, r.full)
    BY <2>1, StoredIs
  <2> QED
    BY <2>2 DEF Field0
<1> QED
  BY <1>1, <1>2, <1>3 DEF Reply, Fields

\* The client reads the results out of the reply.
LEMMA AnswerIs ==
    ASSUME call.method \in Methods, NEW r, r.n \in Nat, reply = Reply(call.method, r)
    PROVE  Answer = [at |-> "ok", got |-> Given(call.method, r)]
<1> PICK m : m = call.method
  OBVIOUS
<1> PICK w : w = AllLeaves(Writes(m), r.n)
  OBVIOUS
<1>1. AreParams(Writes(m)) /\ \A i \in DOMAIN Writes(m) : NoListType(Writes(m)[i].layout)
  BY WritesGood DEF GoodParams, Writes
<1>2. PICK len \in Nat : IsSeq(w) /\ Len(w) = len /\ DOMAIN w = 1 .. len
  <2>1. IsSeq(w)
    BY <1>1, AllLeavesElements
  <2> QED
    BY <2>1, SeqIs
<1>3. reply = [i \in 1 .. len |-> reply[i]] /\ \A i \in 1 .. len : reply[i] = Field0(w[i], r)
  BY <1>2 DEF Reply, Fields
<1>4. IsSeq(reply) /\ Len(reply) = len /\ DOMAIN reply = 1 .. len
  BY <1>3, FunctionIsSeq
<1> DEFINE n == IF \E i \in DOMAIN reply : reply[i][1] = "list"
                THEN (CHOOSE g \in Range(reply) : g[1] = "list")[2][1] ELSE 0
           leaves == AllLeaves(BeremizPLCObjectService_client[m].reads, n)
<1>5. BeremizPLCObjectService_client[m].reads = Writes(m)
  BY MessagesSame DEF SameMessages, Writes
<1>6. leaves = w
  <2>1. CASE \E i \in DOMAIN reply : reply[i][1] = "list"
    <3>1. PICK f : f = (CHOOSE g \in Range(reply) : g[1] = "list")
      OBVIOUS
    <3>2. f \in Range(reply) /\ f[1] = "list"
      <4>1. \E g \in Range(reply) : g[1] = "list"
        BY <2>1 DEF Range
      <4> QED
        BY <3>1, <4>1
    <3>3. PICK i \in 1 .. len : f = Field0(w[i], r)
      BY <1>3, <1>4, <3>2 DEF Range
    <3>4. f[2] = <<r.n>>
      BY <3>2, <3>3 DEF Field0, Value
    <3>5. n = r.n
      BY <2>1, <3>1, <3>4
    <3> QED
      BY <1>5, <3>5
  <2>2. CASE ~\E i \in DOMAIN reply : reply[i][1] = "list"
    <3>1. n = 0
      BY <2>2
    <3>2. \A i \in DOMAIN Writes(m) : ~IsList(Writes(m)[i].layout)
      <4>1. ASSUME NEW i \in DOMAIN Writes(m), IsList(Writes(m)[i].layout)
            PROVE  FALSE
        <5>1. ListLeaf(Writes(m)[i].name) \in LeafSet(Writes(m)[i], r.n)
          BY <4>1 DEF LeafSet
        <5>2. Range(w) = UNION {LeafSet(Writes(m)[j], r.n) : j \in DOMAIN Writes(m)}
          BY <1>1, AllLeavesElements
        <5>3. ListLeaf(Writes(m)[i].name) \in Range(w)
          BY <5>1, <5>2
        <5>4. PICK j \in 1 .. len : w[j] = ListLeaf(Writes(m)[i].name)
          BY <1>2, <5>3 DEF Range
        <5>5. reply[j][1] = "list"
          BY <1>3, <5>4 DEF Field0, ListLeaf
        <5> QED
          BY <1>4, <2>2, <5>5
      <4> QED
        BY <4>1
    <3>3. w = AllLeaves(Writes(m), 0)
      BY <1>1, <3>2, NoLists
    <3> QED
      BY <1>5, <3>1, <3>3
  <2> QED
    BY <2>1, <2>2
<1>7. Answer = IF Len(reply) = Len(leaves) /\ \A i \in DOMAIN leaves : leaves[i].type = reply[i][1]
               THEN [at |-> "ok", got |-> {<<leaves[i].path, reply[i][2]>> : i \in DOMAIN leaves}]
               ELSE [at |-> "error", got |-> {}]
  BY Zenon DEF Answer
<1> HIDE DEF leaves
<1>8. Len(reply) = Len(leaves) /\ \A i \in DOMAIN leaves : leaves[i].type = reply[i][1]
  BY <1>2, <1>3, <1>4, <1>6 DEF Field0
<1>9. {<<leaves[i].path, reply[i][2]>> : i \in DOMAIN leaves} = Given(m, r)
  <2>1. \A i \in 1 .. len : reply[i][2] = Value(w[i], r.n, r.full)
    BY <1>3 DEF Field0
  <2>2. {<<w[i].path, reply[i][2]>> : i \in 1 .. len} = {<<l.path, Value(l, r.n, r.full)>> : l \in Range(w)}
    BY <1>2, <2>1 DEF Range
  <2> QED
    BY <1>2, <1>6, <2>2 DEF Given, Values
<1> QED
  BY <1>7, <1>8, <1>9

-----------------------------------------------------------------------------
(* Calls are faithful.                                                     *)

\* No handler runs out of memory, or finds no log file.
HandlersSucceed == <<"GetLogMessage", "nofile">> \notin Failing /\ \A m \in Methods : <<m, "handler">> \notin Failing

Busy == {"decode", "invoke", "encode", "release", "send"}

\* The call, the request and the answer, by where the server is.
CallInv ==
    /\ task \in Busy \/ answer.at = "waiting" => call \in Calls
    /\ answer.at = "waiting" => connected /\ task \in Busy \cup {"poll", "stop"}
    /\ task = "poll" /\ answer.at = "waiting" => request = Request(call)
    /\ task \in Busy => answer.at # "ok"
    /\ task \in {"invoke", "encode", "send"} => status = "ok"

\* What has been read and what is still in the request are the arguments.
DecodeInv ==
    task = "decode" /\ status = "ok" =>
        \E rest : /\ Ahead(todo, rest, call.method, call.n)
                  /\ request = Fields(rest, call)
                  /\ Arguments(call) = seen \cup Values(rest, call)

SeenInv == task \in {"invoke", "encode", "release", "send"} /\ status = "ok" => seen = Arguments(call)

\* What the handler has set is what is in the reply.
SetInv ==
    /\ task = "encode" =>
          \E r : r.n \in Nat /\ given = Given(call.method, r) /\ ListsHave(call.method, r.n)
    /\ task \in {"release", "send"} /\ status = "ok" =>
          \E r : r.n \in Nat /\ given = Given(call.method, r) /\ reply = Reply(call.method, r)

AnswerInv == answer.at = "ok" => seen = Arguments(call) /\ answer.got = given

FaithInv == TypeInv /\ CallInv /\ DecodeInv /\ SeenInv /\ SetInv /\ AnswerInv

LEMMA FaithStart == Init => FaithInv
<1> SUFFICES ASSUME Init
             PROVE  FaithInv
  OBVIOUS
<1>1. task = "transport" /\ answer.at = "none"
  BY DEF Init
<1>2. CallInv /\ DecodeInv /\ SeenInv /\ SetInv /\ AnswerInv
  BY <1>1 DEF CallInv, DecodeInv, SeenInv, SetInv, AnswerInv, Busy
<1> QED
  BY <1>2, TypesStart DEF FaithInv

\* What does not touch a call keeps it faithful.
LEMMA AsideFaithful ==
    ASSUME FaithInv, TypeInv', UNCHANGED <<call, messages, memory>>,
           answer' = answer \/ answer'.at = "error",
           task' \in Busy => task' = task,
           answer'.at = "waiting" => connected' /\ task' \in Busy \cup {"poll", "stop"} /\ (task' = "poll" => task = "poll")
    PROVE  FaithInv'
<1>1. call' = call /\ request' = request /\ reply' = reply /\ todo' = todo /\ status' = status
      /\ count' = count /\ seen' = seen /\ given' = given
  BY DEF messages, memory
<1>2. CallInv'
  <2>1. answer'.at = "waiting" => answer.at = "waiting"
    OBVIOUS
  <2>2. answer'.at = "ok" => answer.at = "ok"
    OBVIOUS
  <2>3. CallInv
    BY DEF FaithInv
  <2> QED
    BY <1>1, <2>1, <2>2, <2>3 DEF CallInv, Busy
<1>3. DecodeInv'
  BY <1>1 DEF FaithInv, DecodeInv, Busy
<1>4. SeenInv'
  BY <1>1 DEF FaithInv, SeenInv, Busy
<1>5. SetInv'
  <2>1. \A m, n : ListsHave(m, n)' = ListsHave(m, n)
    BY <1>1 DEF ListsHave, ListLength
  <2> QED
    BY <1>1, <2>1 DEF FaithInv, SetInv, Busy
<1>6. AnswerInv'
  BY <1>1 DEF FaithInv, AnswerInv
<1> QED
  BY <1>2, <1>3, <1>4, <1>5, <1>6 DEF FaithInv

LEMMA SetUpFaithful ==
    ASSUME FaithInv, TypeInv', InitTransport \/ InitFactory \/ InitServer \/ InitService
    PROVE  FaithInv'
<1>1. /\ UNCHANGED <<call, messages, memory>> /\ answer' = answer
      /\ task \in {"transport", "factory", "server", "service"}
      /\ task' \in {"transport", "factory", "server", "service", "poll"}
  BY DEF InitTransport, InitFactory, InitServer, InitService, Create
<1>2. answer.at # "waiting"
  BY <1>1 DEF FaithInv, CallInv, Busy
<1>3. task' \notin Busy
  BY <1>1 DEF Busy
<1> QED
  BY <1>1, <1>2, <1>3, AsideFaithful

LEMMA StopFaithful ==
    ASSUME FaithInv, TypeInv', Stop
    PROVE  FaithInv'
<1>1. UNCHANGED <<call, messages, memory>> /\ task' = "transport" /\ answer' = Failed
  BY DEF Stop
<1>2. (answer' = answer /\ answer.at # "waiting") \/ answer'.at = "error"
  BY <1>1 DEF Failed
<1>3. task' \notin Busy /\ answer'.at # "waiting"
  BY <1>1, <1>2 DEF Busy
<1> QED
  BY <1>1, <1>2, <1>3, AsideFaithful

LEMMA ConnectFaithful ==
    ASSUME FaithInv, TypeInv', Connect
    PROVE  FaithInv'
<1>1. UNCHANGED <<call, messages, memory>> /\ task' = "poll" /\ task = "poll" /\ answer' = answer /\ connected' = TRUE
  BY DEF Connect
<1>2. task' \notin Busy
  BY <1>1 DEF Busy
<1> QED
  BY <1>1, <1>2, AsideFaithful

LEMMA DisconnectFaithful ==
    ASSUME FaithInv, TypeInv', Disconnect
    PROVE  FaithInv'
<1>1. UNCHANGED <<call, messages, memory>> /\ answer' = Failed /\ (task' = task \/ task' \in {"poll", "stop"})
  BY DEF Disconnect
<1>2. (answer' = answer /\ answer.at # "waiting") \/ answer'.at = "error"
  BY <1>1 DEF Failed
<1>3. answer'.at # "waiting"
  BY <1>2
<1>4. task' \in Busy => task' = task
  BY <1>1 DEF Busy
<1> QED
  BY <1>1, <1>2, <1>3, <1>4, AsideFaithful

LEMMA CallFaithful ==
    ASSUME FaithInv, TypeInv', NEW m \in Methods, NEW n \in 0 .. MaxList, NEW full \in BOOLEAN, Call(m, n, full)
    PROVE  FaithInv'
<1>1. /\ task' = "poll" /\ connected' /\ answer'.at = "waiting" /\ request' = Request(call')
      /\ call' = [method |-> m, n |-> n, full |-> full]
  BY DEF Call
<1>2. call' \in Calls
  BY <1>1 DEF Calls
<1>3. CallInv' /\ DecodeInv' /\ SeenInv' /\ SetInv' /\ AnswerInv'
  BY <1>1, <1>2 DEF CallInv, DecodeInv, SeenInv, SetInv, AnswerInv, Busy
<1> QED
  BY <1>3 DEF FaithInv

LEMMA ReceiveFaithful ==
    ASSUME FaithInv, TypeInv', Receive
    PROVE  FaithInv'
<1>1. PICK failed : /\ status' = (IF failed = {} THEN "ok" ELSE "memory")
                    /\ todo' = AllLeaves(Readable(handleInvocation[call.method].reads, failed), 0)
  BY DEF Receive
<1>2. /\ task = "poll" /\ answer.at = "waiting" /\ task' = "decode" /\ seen' = {}
      /\ connected' = connected /\ call' = call /\ request' = request /\ answer' = answer
  BY DEF Receive
<1>3. call \in Calls /\ connected /\ request = Request(call)
  BY <1>2 DEF FaithInv, CallInv
<1>4. CallInv'
  BY <1>2, <1>3 DEF CallInv, Busy
<1>5. ASSUME status' = "ok"
      PROVE  \E rest : /\ Ahead(todo', rest, call.method, call.n)
                       /\ request = Fields(rest, call)
                       /\ Arguments(call) = {} \cup Values(rest, call)
  <2> PICK params : params = Reads(call.method)
    OBVIOUS
  <2>1. call.method \in Methods /\ call.n \in Nat
    BY <1>3, RpcBounds DEF Calls
  <2>2. failed = {}
    BY <1>1, <1>5
  <2>3. AreParams(params)
    BY <2>1, ReadsGood DEF GoodParams, Reads
  <2>4. Readable(params, {}) = params
    <3>1. params = [i \in DOMAIN params |-> params[i]]
      BY <2>3, SeqIs DEF AreParams
    <3> QED
      BY <3>1 DEF Readable
  <2>5. todo' = AllLeaves(params, 0)
    BY <1>1, <2>2, <2>4 DEF Reads
  <2>6. Ahead(todo', AllLeaves(params, call.n), call.method, call.n)
    BY <2>1, <2>5, AheadStart, ReadsGood, ReadsEnd DEF Reads, ListsAtEnd
  <2> PICK rest : rest = AllLeaves(params, call.n)
    OBVIOUS
  <2>7. request = Fields(rest, call) /\ Arguments(call) = Values(rest, call)
    BY <1>3, RequestIs DEF Reads, Fields, Values
  <2> QED
    BY <2>6, <2>7
<1>6. DecodeInv'
  BY <1>2, <1>5 DEF DecodeInv
<1>7. SeenInv' /\ SetInv' /\ AnswerInv'
  BY <1>2 DEF SeenInv, SetInv, AnswerInv
<1> QED
  BY <1>4, <1>6, <1>7 DEF FaithInv

\* As long as the status is ok the next field is the one the shim expects.
LEMMA NextWanted ==
    ASSUME FaithInv, task = "decode", status = "ok", todo # <<>>, NEW rest, rest # <<>>, Head(rest) = Head(todo),
           IsSeq(rest), request = Fields(rest, call)
    PROVE  /\ Wanted /\ Got = Value(Field, call.n, call.full)
           /\ Tail(request) = Fields(Tail(rest), call)
           /\ Values(rest, call) = {<<Field.path, Got>>} \cup Values(Tail(rest), call)
<1>1. request # <<>> /\ Head(request) = Field0(Field, call)
  <2>1. Fields(rest, call) # <<>> /\ Head(Fields(rest, call)) = Field0(Head(rest), call)
    BY FieldsOne
  <2>2. request = Fields(rest, call) /\ Head(rest) = Head(todo)
    OBVIOUS
  <2> QED
    BY ONLY <2>1, <2>2 DEF Field
<1>2. Wanted
  BY <1>1 DEF Wanted, Field0
<1>3. Got = Value(Field, call.n, call.full)
  BY <1>1, <1>2 DEF Got, Field0
<1> QED
  BY <1>2, <1>3, FieldsOne DEF Field

LEMMA ReadingFaithful ==
    ASSUME FaithInv, TypeInv', task = "decode", task' = task,
           UNCHANGED <<connected, call, answer>>,
           status' = "ok" =>
              \E rest : /\ Ahead(todo', rest, call.method, call.n)
                        /\ request' = Fields(rest, call)
                        /\ Arguments(call) = seen' \cup Values(rest, call)
    PROVE  FaithInv'
<1>1. CallInv' /\ DecodeInv' /\ SeenInv' /\ SetInv' /\ AnswerInv'
  BY DEF FaithInv, CallInv, DecodeInv, SeenInv, SetInv, AnswerInv, Busy
<1> QED
  BY <1>1 DEF FaithInv

LEMMA ReadFieldFaithful ==
    ASSUME FaithInv, TypeInv', ReadField
    PROVE  FaithInv'
<1>1. /\ task = "decode" /\ todo # <<>> /\ Field.type # "list" /\ task' = task /\ UNCHANGED <<connected, call, answer>>
      /\ seen' = seen \cup {<<Field.path, Got>>} /\ request' = (IF Wanted THEN Tail(request) ELSE request)
      /\ todo' = Tail(todo) /\ \E failed : status' = Outcome(failed)
  BY DEF ReadField
<1>2. call.n \in Nat
  BY <1>1, RpcBounds DEF FaithInv, CallInv, Busy, Calls
<1>3. ASSUME status' = "ok"
      PROVE  \E rest : /\ Ahead(todo', rest, call.method, call.n)
                       /\ request' = Fields(rest, call)
                       /\ Arguments(call) = seen' \cup Values(rest, call)
  <2>1. status = "ok"
    BY <1>1, <1>3 DEF Outcome
  <2>2. PICK rest : /\ Ahead(todo, rest, call.method, call.n)
                    /\ request = Fields(rest, call)
                    /\ Arguments(call) = seen \cup Values(rest, call)
    BY <1>1, <2>1 DEF FaithInv, DecodeInv
  <2>3. rest # <<>> /\ Head(rest) = Head(todo) /\ Ahead(Tail(todo), Tail(rest), call.method, call.n) /\ IsSeq(rest)
    <3>1. Head(todo).type # "list"
      BY <1>1 DEF Field
    <3>2. rest # <<>> /\ Head(rest) = Head(todo) /\ Ahead(Tail(todo), Tail(rest), call.method, call.n)
      BY <1>1, <1>2, <2>2, <3>1, AheadOne
    <3> QED
      BY <2>2, <3>2 DEF Ahead
  <2>4. /\ Wanted
        /\ Tail(request) = Fields(Tail(rest), call)
        /\ Values(rest, call) = {<<Field.path, Got>>} \cup Values(Tail(rest), call)
    BY <1>1, <2>1, <2>2, <2>3, NextWanted
  <2>5. Arguments(call) = seen' \cup Values(Tail(rest), call)
    BY <1>1, <2>2, <2>4
  <2> QED
    BY <1>1, <2>3, <2>4, <2>5
<1> QED
  BY <1>1, <1>3, ReadingFaithful

LEMMA ReadListFaithful ==
    ASSUME FaithInv, TypeInv', ReadList
    PROVE  FaithInv'
<1>1. /\ task = "decode" /\ todo # <<>> /\ Field.type = "list" /\ task' = task /\ UNCHANGED <<connected, call, answer>>
      /\ seen' = seen \cup {<<Field.path, Got>>} /\ request' = (IF Wanted THEN Tail(request) ELSE request)
      /\ todo' = Tail(Leaves(CHOOSE q \in Range(handleInvocation[call.method].reads) : q.name = Field.path[1], Announced)) \o Tail(todo)
      /\ \E failed : status' = Outcome(failed)
  BY DEF ReadList
<1>2. call.n \in Nat
  BY <1>1, RpcBounds DEF FaithInv, CallInv, Busy, Calls
<1>3. ASSUME status' = "ok"
      PROVE  \E rest : /\ Ahead(todo', rest, call.method, call.n)
                       /\ request' = Fields(rest, call)
                       /\ Arguments(call) = seen' \cup Values(rest, call)
  <2>1. status = "ok"
    BY <1>1, <1>3 DEF Outcome
  <2>2. PICK rest : /\ Ahead(todo, rest, call.method, call.n)
                    /\ request = Fields(rest, call)
                    /\ Arguments(call) = seen \cup Values(rest, call)
    BY <1>1, <2>1 DEF FaithInv, DecodeInv
  <2>3. PICK list : /\ ReadsList(call.method, list) /\ Head(todo) = ListLeaf(list.name)
                    /\ rest # <<>> /\ Head(rest) = Head(todo)
                    /\ Tail(Leaves(list, call.n)) \o Tail(todo) = Tail(rest)
                    /\ Ahead(Tail(rest), Tail(rest), call.method, call.n)
    <3>1. Head(todo).type = "list"
      BY <1>1 DEF Field
    <3>2. \E list : /\ ReadsList(call.method, list) /\ Head(todo) = ListLeaf(list.name)
                    /\ rest # <<>> /\ Head(rest) = Head(todo)
                    /\ Tail(todo) = <<>> /\ Tail(rest) = Body(list, call.n)
                    /\ Tail(Leaves(list, call.n)) \o Tail(todo) = Tail(rest)
                    /\ Ahead(Tail(rest), Tail(rest), call.method, call.n)
      BY <1>1, <1>2, <2>2, <3>1, AheadList
    <3> QED
      BY <3>2
  <2>4. IsSeq(rest)
    BY <2>2 DEF Ahead
  <2>5. /\ Wanted /\ Got = Value(Field, call.n, call.full)
        /\ Tail(request) = Fields(Tail(rest), call)
        /\ Values(rest, call) = {<<Field.path, Got>>} \cup Values(Tail(rest), call)
    BY <1>1, <2>1, <2>2, <2>3, <2>4, NextWanted
  <2>6. Arguments(call) = seen' \cup Values(Tail(rest), call)
    BY <1>1, <2>2, <2>5
  <2>7. Announced = call.n
    BY <1>1, <2>5 DEF Announced, Value
  <2>8. (CHOOSE q \in Range(handleInvocation[call.method].reads) : q.name = Field.path[1]) = list
    <3>1. Field.path[1] = list.name
      BY <2>3 DEF Field, ListLeaf, Elements
    <3>2. list \in Range(Reads(call.method)) /\ \A q \in Range(Reads(call.method)) : q.name = list.name => q = list
      BY <2>3 DEF ReadsList
    <3> QED
      BY <3>1, <3>2 DEF Reads
  <2>9. todo' = Tail(rest)
    BY <1>1, <2>3, <2>7, <2>8
  <2> QED
    BY <1>1, <2>3, <2>5, <2>6, <2>9
<1> QED
  BY <1>1, <1>3, ReadingFaithful

LEMMA DecodedFaithful ==
    ASSUME FaithInv, TypeInv', Decoded
    PROVE  FaithInv'
<1>1. /\ task = "decode" /\ todo = <<>> /\ task' = (IF status' = "ok" THEN "invoke" ELSE "release")
      /\ UNCHANGED <<connected, call, seen, answer>>
      /\ \E failed : status' = (IF failed = {} THEN status ELSE "memory")
  BY DEF Decoded
<1>2. CallInv'
  BY <1>1 DEF FaithInv, CallInv, Busy
<1>3. ASSUME status' = "ok"
      PROVE  seen = Arguments(call)
  <2>1. status = "ok"
    BY <1>1, <1>3
  <2>2. PICK rest : /\ Ahead(todo, rest, call.method, call.n)
                    /\ Arguments(call) = seen \cup Values(rest, call)
    BY <1>1, <2>1 DEF FaithInv, DecodeInv
  <2>3. rest = <<>>
    <3>1. ASSUME NEW front, NEW list, IsSeq(front), todo = front \o <<ListLeaf(list.name)>>
          PROVE  FALSE
      <4> PICK one : one = <<ListLeaf(list.name)>>
        OBVIOUS
      <4>1. IsSeq(one) /\ Range(one) = {ListLeaf(list.name)}
        BY OneInARow
      <4>2. Range(todo) = Range(front) \cup Range(one)
        BY <3>1, <4>1, RowOfTwo
      <4>3. Range(todo) = {}
        BY <1>1, Tuples
      <4> QED
        BY <4>1, <4>2, <4>3
    <3> QED
      BY <1>1, <2>2, <3>1 DEF Ahead
  <2>4. Values(rest, call) = {}
    BY <2>3, Tuples DEF Values
  <2> QED
    BY <2>2, <2>4
<1>4. SeenInv'
  BY <1>1, <1>3 DEF SeenInv
<1>5. DecodeInv' /\ SetInv' /\ AnswerInv'
  BY <1>1 DEF FaithInv, CallInv, DecodeInv, SetInv, AnswerInv, Busy
<1> QED
  BY <1>2, <1>4, <1>5 DEF FaithInv

LEMMA NoBlank ==
    ASSUME HandlersSucceed, call.method \in Methods, NEW n, NEW blank \in {Fine} \cup Faulty(n)
    PROVE  blank = Fine
<1>1. ~May("handler") /\ (call.method = "GetLogMessage" => ~May("nofile"))
  BY DEF HandlersSucceed, May
<1>2. Faulty(n) = {}
  <2>1. CASE call.method = "GetLogMessage"
    <3>1. GetLogMessage_faults = {}
      BY <1>1, <2>1 DEF GetLogMessage_faults
    <3> QED
      BY <2>1, <3>1 DEF Faulty
  <2>2. CASE call.method # "GetLogMessage"
    BY <1>1, <2>2 DEF Faulty
  <2> QED
    BY <2>1, <2>2
<1> QED
  BY <1>2

LEMMA LengthIs ==
    ASSUME NEW l \in Lengths
    PROVE  l[1] \in Nat
<1>1. MaxList \in Nat /\ \A k \in 1 .. MaxList : k \in Nat
  BY RpcBounds
<1>2. l \in (1 .. MaxList) \X {TRUE} \/ l = <<1, FALSE>> \/ l = <<0, TRUE>>
  BY DEF Lengths
<1>3. CASE l \in (1 .. MaxList) \X {TRUE}
  BY <1>1, <1>3
<1>4. CASE l = <<1, FALSE>>
  BY <1>4
<1>5. CASE l = <<0, TRUE>>
  BY <1>5
<1> QED
  BY <1>2, <1>3, <1>4, <1>5

\* Only GetTraceVariables writes a list.
LEMMA ListWritten ==
    ASSUME NEW m \in Methods, NEW i \in DOMAIN Writes(m), IsList(Writes(m)[i].layout)
    PROVE  m = "GetTraceVariables" /\ Writes(m)[i].name = "traces"
<1>1. ASSUME NEW p, Writes(m) = <<p>>
      PROVE  Writes(m)[i] = p
  BY <1>1, Tuples
<1>2. CASE m = "GetTraceVariables"
  <2>1. Writes(m)[i] = Param("traces", write_TraceVariables_struct)
    BY <1>1, <1>2, TheShims DEF Writes, GetTraceVariables_shim, Shim
  <2> QED
    BY <1>2, <2>1 DEF Param
<1>3. ASSUME NEW name, NEW layout, ~IsList(layout), Writes(m) = <<Param(name, layout)>>
      PROVE  FALSE
  <2>1. Writes(m)[i].layout = layout
    BY <1>1, <1>3 DEF Param
  <2> QED
    BY <1>3, <2>1
<1>4. CASE m \in {"AppendChunkToBlob", "SeedBlob"}
  <2>1. PICK name : Writes(m) = <<Param(name, Struct(write_binary_t_struct))>>
    BY <1>4, TheShims DEF Writes, AppendChunkToBlob_shim, SeedBlob_shim, Shim
  <2> QED
    BY <1>3, <2>1, WriteBinLayout
<1>5. CASE m = "GetLogMessage"
  <2>1. Writes(m) = <<Param("message", Struct(write_log_message_struct))>>
    BY <1>5, TheShims DEF Writes, GetLogMessage_shim, Shim
  <2> QED
    BY <1>3, <2>1, LogMessageLayout
<1>6. CASE m = "GetPLCID"
  <2>1. Writes(m) = <<Param("plcID", Struct(write_PSKID_struct))>>
    BY <1>6, TheShims DEF Writes, GetPLCID_shim, Shim
  <2> QED
    BY <1>3, <2>1, PSKIDLayout
<1>7. CASE m = "GetPLCstatus"
  <2>1. Writes(m) = <<Param("status", Struct(write_PLCstatus_struct))>>
    BY <1>7, TheShims DEF Writes, GetPLCstatus_shim, Shim
  <2> QED
    BY <1>3, <2>1, PLCstatusLayout
<1>8. CASE m \in {"MatchMD5", "NewPLC", "SetTraceVariablesList", "StopPLC"}
  <2>1. PICK name, type : Writes(m) = <<Param(name, Scalar(type))>> /\ type # "list"
    BY <1>8, TheShims DEF Writes, MatchMD5_shim, NewPLC_shim, SetTraceVariablesList_shim, StopPLC_shim, Shim
  <2> QED
    BY <1>3, <2>1, ScalarLayout
<1>9. CASE m \in {"PurgeBlobs", "RepairPLC", "ResetLogCount", "StartPLC"}
  <2>1. Writes(m) = <<>>
    BY <1>9, TheShims DEF Writes, PurgeBlobs_shim, RepairPLC_shim, ResetLogCount_shim, StartPLC_shim, Shim
  <2> QED
    BY <2>1, Tuples
<1> QED
  BY <1>2, <1>4, <1>5, <1>6, <1>7, <1>8, <1>9, TheMethods

LEMMA InvokeFaithful ==
    ASSUME HandlersSucceed, FaithInv, TypeInv', Invoke
    PROVE  FaithInv'
<1>1. /\ task = "invoke" /\ task' = "encode" /\ UNCHANGED <<connected, call, answer, seen, status>>
  BY DEF Invoke, messages
<1>2. call \in Calls /\ call.method \in Methods
  BY <1>1 DEF FaithInv, CallInv, Busy, Calls
<1>3. PICK l \in Lengths, extra \in ExtraFiles : \E blank \in {Fine} \cup Faulty(l[1]) : Handle(l[1], l[2], blank, extra)
  BY DEF Invoke
<1>4. Handle(l[1], l[2], Fine, extra)
  BY <1>2, <1>3, NoBlank
<1>5. PICK r : r = [n |-> l[1], full |-> l[2]]
  OBVIOUS
<1>6. r.n = l[1] /\ r.full = l[2] /\ r.n \in Nat
  BY <1>5, LengthIs
<1> PICK m : m = call.method
  OBVIOUS
<1> PICK set : set = ResultsSet(r.n)
  OBVIOUS
<1>7. /\ given' = {<<k.path, Value(k, r.n, r.full)>> : k \in {k \in Range(AllLeaves(Writes(m), r.n)) : k.path \in set}}
      /\ count' = Over([p \in {q[1] : q \in {q \in set : q[3] = "elements"}} |-> r.n], count)
  <2>1. ResultsSet(l[1]) \ Fine.unset = set
    BY <1>6 DEF Fine, Blank
  <2> QED
    BY <1>4, <1>6, <2>1 DEF Handle, Writes
<1>8. given' = Given(m, r)
  <2>1. \A k \in Range(AllLeaves(Writes(m), r.n)) : k.path \in set
    BY <1>2, <1>6, ResultsComplete
  <2>2. {k \in Range(AllLeaves(Writes(m), r.n)) : k.path \in set} = Range(AllLeaves(Writes(m), r.n))
    BY <2>1
  <2> QED
    BY <1>7, <2>2 DEF Given, Values
<1>9. ListsHave(m, r.n)'
  <2>1. ASSUME NEW i \in DOMAIN Writes(m), IsList(Writes(m)[i].layout)
        PROVE  ListLength(Writes(m)[i].name)' = r.n
    <3>1. m = "GetTraceVariables" /\ Writes(m)[i].name = "traces"
      BY <1>2, <2>1, ListWritten
    <3>2. Elements("traces") \in set
      BY <3>1 DEF ResultsSet, GetTraceVariables_sets, Sets, Elements
    <3>3. Elements("traces")[1] = "traces" /\ Elements("traces")[3] = "elements"
      BY DEF Elements
    <3> DEFINE names == {q[1] : q \in {q \in set : q[3] = "elements"}}
               f == [p \in names |-> r.n]
    <3>4. "traces" \in names
      BY <3>2, <3>3
    <3>5. "traces" \in DOMAIN f /\ f["traces"] = r.n
      BY <3>4
    <3>6. count' = Over(f, count)
      BY <1>7
    <3> HIDE DEF f
    <3>7. "traces" \in DOMAIN count' /\ count'["traces"] = r.n
      BY <3>5, <3>6 DEF Over
    <3> QED
      BY <3>1, <3>7 DEF ListLength
  <2> QED
    BY <2>1 DEF ListsHave
<1>10. SetInv'
  BY <1>1, <1>6, <1>8, <1>9 DEF SetInv
<1>11. CallInv' /\ DecodeInv' /\ SeenInv' /\ AnswerInv'
  BY <1>1 DEF FaithInv, CallInv, DecodeInv, SeenInv, AnswerInv, Busy
<1> QED
  BY <1>10, <1>11 DEF FaithInv

LEMMA EncodeFaithful ==
    ASSUME FaithInv, TypeInv', Encode
    PROVE  FaithInv'
<1>1. /\ task = "encode" /\ task' = "release" /\ UNCHANGED <<connected, call, answer, seen, given, count>>
  BY DEF Encode, memory
<1>2. call.method \in Methods /\ status = "ok" /\ seen = Arguments(call)
  BY <1>1 DEF FaithInv, CallInv, SeenInv, Busy, Calls
<1>3. PICK r : r.n \in Nat /\ given = Given(call.method, r) /\ ListsHave(call.method, r.n)
  BY <1>1 DEF FaithInv, SetInv
<1>4. status' = "ok" => reply' = Reply(call.method, r)
  <2>1. ASSUME reply' = [i \in DOMAIN Written |-> <<Written[i].type, Stored(Written[i].path)>>]
        PROVE  reply' = Reply(call.method, r)
    BY <1>2, <1>3, <2>1, ReplyIs
  <2>2. \/ reply' = [i \in DOMAIN Written |-> <<Written[i].type, Stored(Written[i].path)>>]
        \/ \E site \in {"buffer", "overrun"} : status' = (IF site = "buffer" THEN "memory" ELSE "overrun")
    BY DEF Encode
  <2> QED
    BY <2>1, <2>2
<1>5. SetInv'
  BY <1>1, <1>3, <1>4 DEF SetInv
<1>6. CallInv' /\ DecodeInv' /\ SeenInv' /\ AnswerInv'
  BY <1>1, <1>2 DEF FaithInv, CallInv, DecodeInv, SeenInv, AnswerInv, Busy
<1> QED
  BY <1>5, <1>6 DEF FaithInv

LEMMA ReleaseFaithful ==
    ASSUME FaithInv, TypeInv', Release
    PROVE  FaithInv'
<1>1. /\ task = "release" /\ task' = (IF status = "ok" THEN "send" ELSE "stop")
      /\ UNCHANGED <<connected, call, request, reply, todo, status, count, seen, given, answer>>
  BY DEF Release, messages
<1>2. CallInv' /\ DecodeInv' /\ SeenInv' /\ SetInv' /\ AnswerInv'
  BY <1>1 DEF FaithInv, CallInv, DecodeInv, SeenInv, SetInv, AnswerInv, Busy
<1> QED
  BY <1>2 DEF FaithInv

LEMMA SendFaithful ==
    ASSUME FaithInv, TypeInv', Send
    PROVE  FaithInv'
<1>1. /\ task = "send" /\ UNCHANGED <<connected, call, request, reply, todo, status, count, seen, given>>
      /\ \/ answer' = Answer /\ task' = "poll"
         \/ ~connected /\ task' \in {"poll", "stop"} /\ answer' = answer
  BY DEF Send, messages, memory
<1>2. call.method \in Methods /\ status = "ok" /\ seen = Arguments(call)
  BY <1>1 DEF FaithInv, CallInv, SeenInv, Busy, Calls
<1>3. PICK r : r.n \in Nat /\ given = Given(call.method, r) /\ reply = Reply(call.method, r)
  BY <1>1, <1>2 DEF FaithInv, SetInv
<1>4. Answer = [at |-> "ok", got |-> given]
  BY <1>2, <1>3, AnswerIs
<1>5. answer'.at # "waiting"
  <2>1. ~connected => answer.at # "waiting"
    BY DEF FaithInv, CallInv
  <2> QED
    BY <1>1, <1>4, <2>1
<1>6. AnswerInv'
  <2>1. CASE answer' = Answer
    BY <1>1, <1>2, <1>4, <2>1 DEF AnswerInv
  <2>2. CASE answer' = answer
    BY <1>1, <2>2 DEF FaithInv, AnswerInv
  <2> QED
    BY <1>1, <2>1, <2>2
<1>7. CallInv' /\ DecodeInv' /\ SeenInv' /\ SetInv'
  BY <1>1, <1>5 DEF CallInv, DecodeInv, SeenInv, SetInv, Busy
<1> QED
  BY <1>6, <1>7 DEF FaithInv

LEMMA FaithStep == HandlersSucceed /\ FaithInv /\ [Next]_vars => FaithInv'
<1> SUFFICES ASSUME HandlersSucceed, FaithInv, [Next]_vars
             PROVE  FaithInv'
  OBVIOUS
<1>1. TypeInv'
  BY TypesKeptStep DEF FaithInv
<1>2. CASE UNCHANGED vars
  <2>1. /\ UNCHANGED <<call, messages, memory>> /\ answer' = answer /\ task' = task /\ connected' = connected
    BY <1>2 DEF vars
  <2>2. answer'.at = "waiting" => connected' /\ task' \in Busy \cup {"poll", "stop"} /\ (task' = "poll" => task = "poll")
    BY <2>1 DEF FaithInv, CallInv
  <2> QED
    BY <1>1, <2>1, <2>2, AsideFaithful
<1>3. CASE Server
  BY <1>1, <1>3, SetUpFaithful, ReceiveFaithful, ReadFieldFaithful, ReadListFaithful, DecodedFaithful, InvokeFaithful,
     EncodeFaithful, ReleaseFaithful, SendFaithful, StopFaithful DEF Server
<1>4. CASE Connect \/ Disconnect
  BY <1>1, <1>4, ConnectFaithful, DisconnectFaithful
<1>5. ASSUME NEW m \in Methods, NEW n \in 0 .. MaxList, NEW full \in BOOLEAN, Call(m, n, full)
      PROVE  FaithInv'
  BY <1>1, <1>5, CallFaithful
<1> QED
  BY <1>2, <1>3, <1>4, <1>5 DEF Next

\* A handler is called with the arguments its caller sent, every member where the
\* handler expects it, and the caller gets the results the handler set, for every
\* length of list and whatever else fails, as long as no handler does.
THEOREM CallsKept ==
    ASSUME HandlersSucceed
    PROVE  Spec => []CallsFaithful
<1>1. FaithInv => CallsFaithful
  BY DEF FaithInv, CallInv, SeenInv, AnswerInv, CallsFaithful
<1>2. FaithInv /\ [Next]_vars => FaithInv'
  BY FaithStep
<1> QED
  BY FaithStart, <1>1, <1>2, PTL DEF Spec

-----------------------------------------------------------------------------
(* The memory of a call: what each shim allocates, and what it frees.      *)

\* The structs and strings of the arguments, and the structs of the results.
Structures(m) == Range(handleInvocation[m].before)
Strings(m) == {p.name : p \in {p \in Range(Reads(m)) : p.layout = Scalar("string")}}
Owned(m) == Structures(m) \cup Strings(m)
Results(m) == Range(handleInvocation[m].after)

LEMMA NotString ==
    /\ Struct(read_binary_t_struct) # Scalar("string")
    /\ \A type : type # "string" => Scalar(type) # Scalar("string")
    /\ \A leaves : List(leaves) # Scalar("string")
<1>1. \A type : Scalar(type).head = <<Leaf(type, "")>> /\ Leaf(type, "").type = type
  BY DEF Scalar, Struct, Leaf
<1>2. Struct(read_binary_t_struct).head = <<Leaf("binary", "data")>> /\ Leaf("binary", "data").type = "binary"
  BY DEF Struct, read_binary_t_struct, Leaf
<1>3. \A leaves : List(leaves).head = <<>>
  BY DEF List
<1>4. \A a, b : <<a>> = <<b>> => a = b
  OBVIOUS
<1>5. \A a : <<a>> # <<>>
  OBVIOUS
<1>6. Struct(read_binary_t_struct) # Scalar("string")
  <2>1. ASSUME Struct(read_binary_t_struct) = Scalar("string")
        PROVE  FALSE
    <3>1. <<Leaf("binary", "data")>> = <<Leaf("string", "")>>
      BY <1>1, <1>2, <2>1
    <3>2. Leaf("binary", "data") = Leaf("string", "")
      BY <3>1, <1>4
    <3>3. Leaf("string", "").type = "string"
      BY DEF Leaf
    <3> QED
      BY <1>2, <3>2, <3>3
  <2> QED
    BY <2>1
<1>7. ASSUME NEW type, type # "string"
      PROVE  Scalar(type) # Scalar("string")
  <2>1. ASSUME Scalar(type) = Scalar("string")
        PROVE  FALSE
    <3>1. <<Leaf(type, "")>> = <<Leaf("string", "")>>
      BY <1>1, <2>1
    <3>2. Leaf(type, "") = Leaf("string", "")
      BY <3>1, <1>4
    <3>3. Leaf("string", "").type = "string" /\ Leaf(type, "").type = type
      BY DEF Leaf
    <3> QED
      BY <1>7, <3>2, <3>3
  <2> QED
    BY <2>1
<1>8. \A leaves : List(leaves) # Scalar("string")
  BY <1>1, <1>3, <1>5
<1> QED
  BY <1>6, <1>7, <1>8

\* What the shims allocate.
LEMMA TheStructures ==
    /\ Structures("AppendChunkToBlob") = {"data", "blobID"} /\ Strings("AppendChunkToBlob") = {} /\ Results("AppendChunkToBlob") = {"newBlobID"}
    /\ Structures("GetLogMessage") = {} /\ Strings("GetLogMessage") = {} /\ Results("GetLogMessage") = {"message"}
    /\ Structures("GetPLCID") = {} /\ Strings("GetPLCID") = {} /\ Results("GetPLCID") = {"plcID"}
    /\ Structures("GetPLCstatus") = {} /\ Strings("GetPLCstatus") = {} /\ Results("GetPLCstatus") = {"status"}
    /\ Structures("GetTraceVariables") = {} /\ Strings("GetTraceVariables") = {} /\ Results("GetTraceVariables") = {"traces"}
    /\ Structures("MatchMD5") = {} /\ Strings("MatchMD5") = {"MD5"} /\ Results("MatchMD5") = {}
    /\ Structures("NewPLC") = {"plcObjectBlobID", "extrafiles"} /\ Strings("NewPLC") = {"md5sum"} /\ Results("NewPLC") = {}
    /\ Structures("SeedBlob") = {"seed"} /\ Strings("SeedBlob") = {} /\ Results("SeedBlob") = {"blobID"}
    /\ Structures("SetTraceVariablesList") = {"orders"} /\ Strings("SetTraceVariablesList") = {} /\ Results("SetTraceVariablesList") = {}
    /\ \A m \in {"PurgeBlobs", "RepairPLC", "ResetLogCount", "StartPLC", "StopPLC"} : Structures(m) = {} /\ Strings(m) = {} /\ Results(m) = {}
<1>1. Structures("AppendChunkToBlob") = {"data", "blobID"} /\ Strings("AppendChunkToBlob") = {} /\ Results("AppendChunkToBlob") = {"newBlobID"}
  <2>1. Range(Reads("AppendChunkToBlob")) = {Param("data", Struct(read_binary_t_struct)), Param("blobID", Struct(read_binary_t_struct))}
    BY TheShims, Tuples DEF Reads, AppendChunkToBlob_shim, Shim
  <2>2. Structures("AppendChunkToBlob") = {"data", "blobID"} /\ Results("AppendChunkToBlob") = {"newBlobID"}
    BY TheShims, Tuples DEF Structures, Results, AppendChunkToBlob_shim, Shim
  <2>3. /\ Param("data", Struct(read_binary_t_struct)).name = "data" /\ Param("data", Struct(read_binary_t_struct)).layout # Scalar("string")
        /\ Param("blobID", Struct(read_binary_t_struct)).name = "blobID" /\ Param("blobID", Struct(read_binary_t_struct)).layout # Scalar("string")
    BY NotString DEF Param
  <2>4. \A n : n \in Strings("AppendChunkToBlob") <=> FALSE
    BY <2>1, <2>3 DEF Strings
  <2> QED
    BY <2>2, <2>4
<1>2. Structures("GetLogMessage") = {} /\ Strings("GetLogMessage") = {} /\ Results("GetLogMessage") = {"message"}
  <2>1. Range(Reads("GetLogMessage")) = {Param("level", Scalar("u8")), Param("msgID", Scalar("u32"))}
    BY TheShims, Tuples DEF Reads, GetLogMessage_shim, Shim
  <2>2. Structures("GetLogMessage") = {} /\ Results("GetLogMessage") = {"message"}
    BY TheShims, Tuples DEF Structures, Results, GetLogMessage_shim, Shim
  <2>3. /\ Param("level", Scalar("u8")).name = "level" /\ Param("level", Scalar("u8")).layout # Scalar("string")
        /\ Param("msgID", Scalar("u32")).name = "msgID" /\ Param("msgID", Scalar("u32")).layout # Scalar("string")
    BY NotString DEF Param
  <2>4. \A n : n \in Strings("GetLogMessage") <=> FALSE
    BY <2>1, <2>3 DEF Strings
  <2> QED
    BY <2>2, <2>4
<1>3. Structures("GetPLCID") = {} /\ Strings("GetPLCID") = {} /\ Results("GetPLCID") = {"plcID"}
  <2>1. Range(Reads("GetPLCID")) = {}
    BY TheShims, Tuples DEF Reads, GetPLCID_shim, Shim
  <2>2. Structures("GetPLCID") = {} /\ Results("GetPLCID") = {"plcID"}
    BY TheShims, Tuples DEF Structures, Results, GetPLCID_shim, Shim
  <2>4. \A n : n \in Strings("GetPLCID") <=> FALSE
    BY <2>1 DEF Strings
  <2> QED
    BY <2>2, <2>4
<1>4. Structures("GetPLCstatus") = {} /\ Strings("GetPLCstatus") = {} /\ Results("GetPLCstatus") = {"status"}
  <2>1. Range(Reads("GetPLCstatus")) = {}
    BY TheShims, Tuples DEF Reads, GetPLCstatus_shim, Shim
  <2>2. Structures("GetPLCstatus") = {} /\ Results("GetPLCstatus") = {"status"}
    BY TheShims, Tuples DEF Structures, Results, GetPLCstatus_shim, Shim
  <2>4. \A n : n \in Strings("GetPLCstatus") <=> FALSE
    BY <2>1 DEF Strings
  <2> QED
    BY <2>2, <2>4
<1>5. Structures("GetTraceVariables") = {} /\ Strings("GetTraceVariables") = {} /\ Results("GetTraceVariables") = {"traces"}
  <2>1. Range(Reads("GetTraceVariables")) = {Param("debugToken", Scalar("u32"))}
    BY TheShims, Tuples DEF Reads, GetTraceVariables_shim, Shim
  <2>2. Structures("GetTraceVariables") = {} /\ Results("GetTraceVariables") = {"traces"}
    BY TheShims, Tuples DEF Structures, Results, GetTraceVariables_shim, Shim
  <2>3. Param("debugToken", Scalar("u32")).name = "debugToken" /\ Param("debugToken", Scalar("u32")).layout # Scalar("string")
    BY NotString DEF Param
  <2>4. \A n : n \in Strings("GetTraceVariables") <=> FALSE
    BY <2>1, <2>3 DEF Strings
  <2> QED
    BY <2>2, <2>4
<1>6. Structures("MatchMD5") = {} /\ Strings("MatchMD5") = {"MD5"} /\ Results("MatchMD5") = {}
  <2>1. Range(Reads("MatchMD5")) = {Param("MD5", Scalar("string"))}
    BY TheShims, Tuples DEF Reads, MatchMD5_shim, Shim
  <2>2. Structures("MatchMD5") = {} /\ Results("MatchMD5") = {}
    BY TheShims, Tuples DEF Structures, Results, MatchMD5_shim, Shim
  <2>3. Param("MD5", Scalar("string")).name = "MD5" /\ Param("MD5", Scalar("string")).layout = Scalar("string")
    BY NotString DEF Param
  <2>4. \A n : n \in Strings("MatchMD5") <=> n = "MD5"
    BY <2>1, <2>3 DEF Strings
  <2> QED
    BY <2>2, <2>4
<1>7. Structures("NewPLC") = {"plcObjectBlobID", "extrafiles"} /\ Strings("NewPLC") = {"md5sum"} /\ Results("NewPLC") = {}
  <2>1. Range(Reads("NewPLC")) = {Param("md5sum", Scalar("string")), Param("plcObjectBlobID", Struct(read_binary_t_struct)), Param("extrafiles", read_list_extra_file_1_t_struct)}
    BY TheShims, Tuples DEF Reads, NewPLC_shim, Shim
  <2>2. Structures("NewPLC") = {"plcObjectBlobID", "extrafiles"} /\ Results("NewPLC") = {}
    BY TheShims, Tuples DEF Structures, Results, NewPLC_shim, Shim
  <2>3. /\ Param("md5sum", Scalar("string")).name = "md5sum" /\ Param("md5sum", Scalar("string")).layout = Scalar("string")
        /\ Param("plcObjectBlobID", Struct(read_binary_t_struct)).name = "plcObjectBlobID" /\ Param("plcObjectBlobID", Struct(read_binary_t_struct)).layout # Scalar("string")
        /\ Param("extrafiles", read_list_extra_file_1_t_struct).name = "extrafiles" /\ Param("extrafiles", read_list_extra_file_1_t_struct).layout # Scalar("string")
    BY NotString DEF Param, read_list_extra_file_1_t_struct
  <2>4. \A n : n \in Strings("NewPLC") <=> n = "md5sum"
    BY <2>1, <2>3 DEF Strings
  <2> QED
    BY <2>2, <2>4
<1>8. Structures("SeedBlob") = {"seed"} /\ Strings("SeedBlob") = {} /\ Results("SeedBlob") = {"blobID"}
  <2>1. Range(Reads("SeedBlob")) = {Param("seed", Struct(read_binary_t_struct))}
    BY TheShims, Tuples DEF Reads, SeedBlob_shim, Shim
  <2>2. Structures("SeedBlob") = {"seed"} /\ Results("SeedBlob") = {"blobID"}
    BY TheShims, Tuples DEF Structures, Results, SeedBlob_shim, Shim
  <2>3. Param("seed", Struct(read_binary_t_struct)).name = "seed" /\ Param("seed", Struct(read_binary_t_struct)).layout # Scalar("string")
    BY NotString DEF Param
  <2>4. \A n : n \in Strings("SeedBlob") <=> FALSE
    BY <2>1, <2>3 DEF Strings
  <2> QED
    BY <2>2, <2>4
<1>9. Structures("SetTraceVariablesList") = {"orders"} /\ Strings("SetTraceVariablesList") = {} /\ Results("SetTraceVariablesList") = {}
  <2>1. Range(Reads("SetTraceVariablesList")) = {Param("orders", read_list_trace_order_1_t_struct)}
    BY TheShims, Tuples DEF Reads, SetTraceVariablesList_shim, Shim
  <2>2. Structures("SetTraceVariablesList") = {"orders"} /\ Results("SetTraceVariablesList") = {}
    BY TheShims, Tuples DEF Structures, Results, SetTraceVariablesList_shim, Shim
  <2>3. Param("orders", read_list_trace_order_1_t_struct).name = "orders" /\ Param("orders", read_list_trace_order_1_t_struct).layout # Scalar("string")
    BY NotString DEF Param, read_list_trace_order_1_t_struct
  <2>4. \A n : n \in Strings("SetTraceVariablesList") <=> FALSE
    BY <2>1, <2>3 DEF Strings
  <2> QED
    BY <2>2, <2>4
<1>10. ASSUME NEW m \in {"PurgeBlobs", "RepairPLC", "ResetLogCount", "StartPLC", "StopPLC"}
       PROVE  Structures(m) = {} /\ Strings(m) = {} /\ Results(m) = {}
  <2>1. Reads(m) = <<>> /\ handleInvocation[m].before = <<>> /\ handleInvocation[m].after = <<>>
    BY TheShims DEF Reads, PurgeBlobs_shim, RepairPLC_shim, ResetLogCount_shim, StartPLC_shim, StopPLC_shim, Shim
  <2>2. Range(<<>>) = {}
    BY Tuples
  <2> QED
    BY <2>1, <2>2 DEF Structures, Strings, Results
<1> QED
  BY <1>1, <1>2, <1>3, <1>4, <1>5, <1>6, <1>7, <1>8, <1>9, <1>10

\* The parameters of the shims.
LEMMA TheParams ==
    /\ Range(Reads("AppendChunkToBlob")) = {Param("data", Struct(read_binary_t_struct)), Param("blobID", Struct(read_binary_t_struct))}
    /\ Range(Writes("AppendChunkToBlob")) = {Param("newBlobID", Struct(write_binary_t_struct))}
    /\ Range(Reads("GetLogMessage")) = {Param("level", Scalar("u8")), Param("msgID", Scalar("u32"))}
    /\ Range(Writes("GetLogMessage")) = {Param("message", Struct(write_log_message_struct))}
    /\ Range(Reads("GetPLCID")) = {}
    /\ Range(Writes("GetPLCID")) = {Param("plcID", Struct(write_PSKID_struct))}
    /\ Range(Reads("GetPLCstatus")) = {}
    /\ Range(Writes("GetPLCstatus")) = {Param("status", Struct(write_PLCstatus_struct))}
    /\ Range(Reads("GetTraceVariables")) = {Param("debugToken", Scalar("u32"))}
    /\ Range(Writes("GetTraceVariables")) = {Param("traces", write_TraceVariables_struct)}
    /\ Range(Reads("MatchMD5")) = {Param("MD5", Scalar("string"))}
    /\ Range(Writes("MatchMD5")) = {Param("match", Scalar("bool"))}
    /\ Range(Reads("NewPLC")) = {Param("md5sum", Scalar("string")), Param("plcObjectBlobID", Struct(read_binary_t_struct)), Param("extrafiles", read_list_extra_file_1_t_struct)}
    /\ Range(Writes("NewPLC")) = {Param("success", Scalar("bool"))}
    /\ Range(Reads("SeedBlob")) = {Param("seed", Struct(read_binary_t_struct))}
    /\ Range(Writes("SeedBlob")) = {Param("blobID", Struct(write_binary_t_struct))}
    /\ Range(Reads("SetTraceVariablesList")) = {Param("orders", read_list_trace_order_1_t_struct)}
    /\ Range(Writes("SetTraceVariablesList")) = {Param("debugtoken", Scalar("u32"))}
    /\ \A m \in {"PurgeBlobs", "RepairPLC", "ResetLogCount", "StartPLC"} : Range(Reads(m)) = {} /\ Range(Writes(m)) = {}
    /\ Range(Reads("StopPLC")) = {} /\ Range(Writes("StopPLC")) = {Param("success", Scalar("bool"))}
<1>1. Range(Reads("AppendChunkToBlob")) = {Param("data", Struct(read_binary_t_struct)), Param("blobID", Struct(read_binary_t_struct))} /\ Range(Writes("AppendChunkToBlob")) = {Param("newBlobID", Struct(write_binary_t_struct))}
  BY TheShims, Tuples DEF Reads, Writes, AppendChunkToBlob_shim, Shim
<1>2. Range(Reads("GetLogMessage")) = {Param("level", Scalar("u8")), Param("msgID", Scalar("u32"))} /\ Range(Writes("GetLogMessage")) = {Param("message", Struct(write_log_message_struct))}
  BY TheShims, Tuples DEF Reads, Writes, GetLogMessage_shim, Shim
<1>3. Range(Reads("GetPLCID")) = {} /\ Range(Writes("GetPLCID")) = {Param("plcID", Struct(write_PSKID_struct))}
  BY TheShims, Tuples DEF Reads, Writes, GetPLCID_shim, Shim
<1>4. Range(Reads("GetPLCstatus")) = {} /\ Range(Writes("GetPLCstatus")) = {Param("status", Struct(write_PLCstatus_struct))}
  BY TheShims, Tuples DEF Reads, Writes, GetPLCstatus_shim, Shim
<1>5. Range(Reads("GetTraceVariables")) = {Param("debugToken", Scalar("u32"))} /\ Range(Writes("GetTraceVariables")) = {Param("traces", write_TraceVariables_struct)}
  BY TheShims, Tuples DEF Reads, Writes, GetTraceVariables_shim, Shim
<1>6. Range(Reads("MatchMD5")) = {Param("MD5", Scalar("string"))} /\ Range(Writes("MatchMD5")) = {Param("match", Scalar("bool"))}
  BY TheShims, Tuples DEF Reads, Writes, MatchMD5_shim, Shim
<1>7. Range(Reads("NewPLC")) = {Param("md5sum", Scalar("string")), Param("plcObjectBlobID", Struct(read_binary_t_struct)), Param("extrafiles", read_list_extra_file_1_t_struct)} /\ Range(Writes("NewPLC")) = {Param("success", Scalar("bool"))}
  BY TheShims, Tuples DEF Reads, Writes, NewPLC_shim, Shim
<1>8. Range(Reads("SeedBlob")) = {Param("seed", Struct(read_binary_t_struct))} /\ Range(Writes("SeedBlob")) = {Param("blobID", Struct(write_binary_t_struct))}
  BY TheShims, Tuples DEF Reads, Writes, SeedBlob_shim, Shim
<1>9. Range(Reads("SetTraceVariablesList")) = {Param("orders", read_list_trace_order_1_t_struct)} /\ Range(Writes("SetTraceVariablesList")) = {Param("debugtoken", Scalar("u32"))}
  BY TheShims, Tuples DEF Reads, Writes, SetTraceVariablesList_shim, Shim
<1>10. Range(Reads("StopPLC")) = {} /\ Range(Writes("StopPLC")) = {Param("success", Scalar("bool"))}
  BY TheShims, Tuples DEF Reads, Writes, StopPLC_shim, Shim
<1>11. ASSUME NEW m \in {"PurgeBlobs", "RepairPLC", "ResetLogCount", "StartPLC"}
       PROVE  Range(Reads(m)) = {} /\ Range(Writes(m)) = {}
  BY TheShims, Tuples DEF Reads, Writes, PurgeBlobs_shim, RepairPLC_shim, ResetLogCount_shim, StartPLC_shim, Shim
<1> QED
  BY <1>1, <1>2, <1>3, <1>4, <1>5, <1>6, <1>7, <1>8, <1>9, <1>10, <1>11

\* A method whose results, if any, are only allocated when nothing can have failed before:
\* what may fail of the others is in NotHandled.
Sure(m) == Results(m) = {} \/ m \in {"AppendChunkToBlob", "SeedBlob"}

\* The leaves of a parameter the shim reads: only those of strings and numbers are the parameter
\* itself, and lists have a struct.
ReadFits(m, p, layout) ==
    /\ \A leaf \in Range(layout.head) \cup Range(layout.each) :
          /\ leaf.member # "elements"
          /\ leaf.member = "" => p \notin Structures(m)
          /\ leaf.type \in {"string", "binary"} => Sure(m)
    /\ IsList(layout) => p \in Structures(m) /\ m \in {"NewPLC", "SetTraceVariablesList"}

Distinct(m) == \A a, b \in Range(Reads(m)) \cup Range(Writes(m)) : a.name = b.name => a = b

ShimFits(m) ==
    /\ Distinct(m)
    /\ \A p \in Structures(m) : \E a \in Range(Reads(m)) : a.name = p
    /\ \A p \in Results(m) : \E a \in Range(Writes(m)) : a.name = p
    /\ \A p, q \in Results(m) : p = q
    /\ Owned(m) \cap Results(m) = {} /\ Structures(m) \cap Strings(m) = {}
    /\ "extra_files_blob" \notin Owned(m) \cup Results(m)
    /\ Structures(m) # {} => Sure(m)
    /\ \A a \in Range(Reads(m)) : ReadFits(m, a.name, a.layout)

LEMMA BinaryReadFits ==
    ASSUME NEW m, NEW p, Sure(m)
    PROVE  ReadFits(m, p, Struct(read_binary_t_struct))
<1> PICK layout : layout = Struct(read_binary_t_struct)
  OBVIOUS
<1>1. layout.head = read_binary_t_struct /\ layout.each = <<>>
  BY DEF Struct
<1>2. Range(read_binary_t_struct) = {Leaf("binary", "data")} /\ Range(<<>>) = {}
  BY Tuples DEF read_binary_t_struct
<1>3. Leaf("binary", "data").member = "data"
  BY DEF Leaf
<1>4. ~IsList(layout)
  BY <1>1 DEF IsList
<1>5. ReadFits(m, p, layout)
  BY <1>1, <1>2, <1>3, <1>4 DEF ReadFits
<1> QED
  BY <1>5

LEMMA ScalarReadFits ==
    ASSUME NEW m, NEW p, NEW type, type \notin {"list", "binary"}, type = "string" => Sure(m), p \notin Structures(m)
    PROVE  ReadFits(m, p, Scalar(type))
<1> PICK layout : layout = Scalar(type)
  OBVIOUS
<1>1. layout.head = <<Leaf(type, "")>> /\ layout.each = <<>>
  BY DEF Scalar, Struct
<1>2. Range(<<Leaf(type, "")>>) = {Leaf(type, "")} /\ Range(<<>>) = {}
  BY Tuples
<1>3. Leaf(type, "").member = "" /\ Leaf(type, "").type = type
  BY DEF Leaf
<1>4. ~IsList(layout)
  BY <1>1 DEF IsList
<1>5. ReadFits(m, p, layout)
  BY <1>1, <1>2, <1>3, <1>4 DEF ReadFits
<1> QED
  BY <1>5

LEMMA ListReadFits ==
    ASSUME NEW m \in {"NewPLC", "SetTraceVariablesList"}, NEW p \in Structures(m), Sure(m), NEW leaves,
           \A leaf \in Range(leaves) : leaf.member # "elements" /\ leaf.member # ""
    PROVE  ReadFits(m, p, List(leaves))
<1> PICK layout : layout = List(leaves)
  OBVIOUS
<1>1. layout.head = <<>> /\ layout.each = leaves
  BY DEF List
<1>2. Range(<<>>) = {}
  BY Tuples
<1>3. ReadFits(m, p, layout)
  BY <1>1, <1>2 DEF ReadFits
<1> QED
  BY <1>3

LEMMA ListsReadFit ==
    ASSUME NEW m \in {"NewPLC", "SetTraceVariablesList"}, NEW p \in Structures(m), Sure(m)
    PROVE  ReadFits(m, p, read_list_extra_file_1_t_struct) /\ ReadFits(m, p, read_list_trace_order_1_t_struct)
<1>0. \A type, member : Leaf(type, member).member = member
  BY DEF Leaf
<1>1. Range(read_extra_file_struct) = {Leaf("string", "fname"), Leaf("binary", "blobID")}
  BY Tuples DEF read_extra_file_struct
<1>2. Range(read_trace_order_struct) = {Leaf("u32", "idx"), Leaf("binary", "force")}
  BY Tuples DEF read_trace_order_struct
<1>3. \A leaf \in Range(read_extra_file_struct) : leaf.member # "elements" /\ leaf.member # ""
  BY <1>0, <1>1
<1>4. \A leaf \in Range(read_trace_order_struct) : leaf.member # "elements" /\ leaf.member # ""
  BY <1>0, <1>2
<1> QED
  BY <1>3, <1>4, ListReadFits DEF read_list_extra_file_1_t_struct, read_list_trace_order_1_t_struct

LEMMA ShimsFit == \A m \in Methods : ShimFits(m)
<1>1. ShimFits("AppendChunkToBlob")
  <2> DEFINE a == Param("data", Struct(read_binary_t_struct))
             b == Param("blobID", Struct(read_binary_t_struct))
             c == Param("newBlobID", Struct(write_binary_t_struct))
  <2>1. Range(Reads("AppendChunkToBlob")) = {a, b} /\ Range(Writes("AppendChunkToBlob")) = {c}
    BY TheParams
  <2>2. a.name = "data" /\ b.name = "blobID" /\ c.name = "newBlobID"
        /\ a.layout = Struct(read_binary_t_struct) /\ b.layout = Struct(read_binary_t_struct)
    BY DEF Param
  <2> HIDE DEF a, b, c
  <2>3. Sure("AppendChunkToBlob")
    BY TheStructures DEF Sure
  <2>4. ReadFits("AppendChunkToBlob", a.name, a.layout)
    BY <2>2, <2>3, BinaryReadFits
  <2>5. ReadFits("AppendChunkToBlob", b.name, b.layout)
    BY <2>2, <2>3, BinaryReadFits
  <2>6. Distinct("AppendChunkToBlob")
    BY <2>1, <2>2 DEF Distinct
  <2> QED
    BY <2>1, <2>2, <2>3, <2>4, <2>5, <2>6, TheStructures DEF ShimFits, Owned
<1>2. ShimFits("GetLogMessage")
  <2> DEFINE a == Param("level", Scalar("u8"))
             b == Param("msgID", Scalar("u32"))
             c == Param("message", Struct(write_log_message_struct))
  <2>1. Range(Reads("GetLogMessage")) = {a, b} /\ Range(Writes("GetLogMessage")) = {c}
    BY TheParams
  <2>2. a.name = "level" /\ b.name = "msgID" /\ c.name = "message"
        /\ a.layout = Scalar("u8") /\ b.layout = Scalar("u32")
    BY DEF Param
  <2> HIDE DEF a, b, c
  <2>3. ReadFits("GetLogMessage", a.name, a.layout)
    BY <2>2, TheStructures, ScalarReadFits
  <2>4. ReadFits("GetLogMessage", b.name, b.layout)
    BY <2>2, TheStructures, ScalarReadFits
  <2>5. Distinct("GetLogMessage")
    BY <2>1, <2>2 DEF Distinct
  <2> QED
    BY <2>1, <2>2, <2>3, <2>4, <2>5, TheStructures DEF ShimFits, Owned
<1>3. ShimFits("GetPLCID")
  <2> DEFINE a == Param("plcID", Struct(write_PSKID_struct))
  <2>1. Range(Reads("GetPLCID")) = {} /\ Range(Writes("GetPLCID")) = {a}
    BY TheParams
  <2>2. a.name = "plcID"
    BY DEF Param
  <2> HIDE DEF a
  <2>3. Distinct("GetPLCID")
    BY <2>1, <2>2 DEF Distinct
  <2> QED
    BY <2>1, <2>2, <2>3, TheStructures DEF ShimFits, Owned
<1>4. ShimFits("GetPLCstatus")
  <2> DEFINE a == Param("status", Struct(write_PLCstatus_struct))
  <2>1. Range(Reads("GetPLCstatus")) = {} /\ Range(Writes("GetPLCstatus")) = {a}
    BY TheParams
  <2>2. a.name = "status"
    BY DEF Param
  <2> HIDE DEF a
  <2>3. Distinct("GetPLCstatus")
    BY <2>1, <2>2 DEF Distinct
  <2> QED
    BY <2>1, <2>2, <2>3, TheStructures DEF ShimFits, Owned
<1>5. ShimFits("GetTraceVariables")
  <2> DEFINE a == Param("debugToken", Scalar("u32"))
             b == Param("traces", write_TraceVariables_struct)
  <2>1. Range(Reads("GetTraceVariables")) = {a} /\ Range(Writes("GetTraceVariables")) = {b}
    BY TheParams
  <2>2. a.name = "debugToken" /\ b.name = "traces"
        /\ a.layout = Scalar("u32")
    BY DEF Param
  <2> HIDE DEF a, b
  <2>3. ReadFits("GetTraceVariables", a.name, a.layout)
    BY <2>2, TheStructures, ScalarReadFits
  <2>4. Distinct("GetTraceVariables")
    BY <2>1, <2>2 DEF Distinct
  <2> QED
    BY <2>1, <2>2, <2>3, <2>4, TheStructures DEF ShimFits, Owned
<1>6. ShimFits("MatchMD5")
  <2> DEFINE a == Param("MD5", Scalar("string"))
             b == Param("match", Scalar("bool"))
  <2>1. Range(Reads("MatchMD5")) = {a} /\ Range(Writes("MatchMD5")) = {b}
    BY TheParams
  <2>2. a.name = "MD5" /\ b.name = "match"
        /\ a.layout = Scalar("string")
    BY DEF Param
  <2> HIDE DEF a, b
  <2>3. Sure("MatchMD5")
    BY TheStructures DEF Sure
  <2>4. ReadFits("MatchMD5", a.name, a.layout)
    BY <2>2, <2>3, TheStructures, ScalarReadFits
  <2>5. Distinct("MatchMD5")
    BY <2>1, <2>2 DEF Distinct
  <2> QED
    BY <2>1, <2>2, <2>3, <2>4, <2>5, TheStructures DEF ShimFits, Owned
<1>7. ShimFits("NewPLC")
  <2> DEFINE a == Param("md5sum", Scalar("string"))
             b == Param("plcObjectBlobID", Struct(read_binary_t_struct))
             c == Param("extrafiles", read_list_extra_file_1_t_struct)
             d == Param("success", Scalar("bool"))
  <2>1. Range(Reads("NewPLC")) = {a, b, c} /\ Range(Writes("NewPLC")) = {d}
    BY TheParams
  <2>2. a.name = "md5sum" /\ b.name = "plcObjectBlobID" /\ c.name = "extrafiles" /\ d.name = "success"
        /\ a.layout = Scalar("string") /\ b.layout = Struct(read_binary_t_struct) /\ c.layout = read_list_extra_file_1_t_struct
    BY DEF Param
  <2> HIDE DEF a, b, c, d
  <2>3. Sure("NewPLC")
    BY TheStructures DEF Sure
  <2>4. ReadFits("NewPLC", a.name, a.layout)
    BY <2>2, <2>3, TheStructures, ScalarReadFits
  <2>5. ReadFits("NewPLC", b.name, b.layout)
    BY <2>2, <2>3, BinaryReadFits
  <2>6. ReadFits("NewPLC", c.name, c.layout)
    BY <2>2, <2>3, TheStructures, ListsReadFit
  <2>7. Distinct("NewPLC")
    BY <2>1, <2>2 DEF Distinct
  <2> QED
    BY <2>1, <2>2, <2>3, <2>4, <2>5, <2>6, <2>7, TheStructures DEF ShimFits, Owned
<1>8. ShimFits("SeedBlob")
  <2> DEFINE a == Param("seed", Struct(read_binary_t_struct))
             b == Param("blobID", Struct(write_binary_t_struct))
  <2>1. Range(Reads("SeedBlob")) = {a} /\ Range(Writes("SeedBlob")) = {b}
    BY TheParams
  <2>2. a.name = "seed" /\ b.name = "blobID"
        /\ a.layout = Struct(read_binary_t_struct)
    BY DEF Param
  <2> HIDE DEF a, b
  <2>3. Sure("SeedBlob")
    BY TheStructures DEF Sure
  <2>4. ReadFits("SeedBlob", a.name, a.layout)
    BY <2>2, <2>3, BinaryReadFits
  <2>5. Distinct("SeedBlob")
    BY <2>1, <2>2 DEF Distinct
  <2> QED
    BY <2>1, <2>2, <2>3, <2>4, <2>5, TheStructures DEF ShimFits, Owned
<1>9. ShimFits("SetTraceVariablesList")
  <2> DEFINE a == Param("orders", read_list_trace_order_1_t_struct)
             b == Param("debugtoken", Scalar("u32"))
  <2>1. Range(Reads("SetTraceVariablesList")) = {a} /\ Range(Writes("SetTraceVariablesList")) = {b}
    BY TheParams
  <2>2. a.name = "orders" /\ b.name = "debugtoken"
        /\ a.layout = read_list_trace_order_1_t_struct
    BY DEF Param
  <2> HIDE DEF a, b
  <2>3. Sure("SetTraceVariablesList")
    BY TheStructures DEF Sure
  <2>4. ReadFits("SetTraceVariablesList", a.name, a.layout)
    BY <2>2, <2>3, TheStructures, ListsReadFit
  <2>5. Distinct("SetTraceVariablesList")
    BY <2>1, <2>2 DEF Distinct
  <2> QED
    BY <2>1, <2>2, <2>3, <2>4, <2>5, TheStructures DEF ShimFits, Owned
<1>10. ASSUME NEW m \in {"PurgeBlobs", "RepairPLC", "ResetLogCount", "StartPLC", "StopPLC"}
       PROVE  ShimFits(m)
  <2>1. Range(Reads(m)) = {} /\ (Range(Writes(m)) = {} \/ Range(Writes(m)) = {Param("success", Scalar("bool"))})
    BY TheParams
  <2>2. Structures(m) = {} /\ Strings(m) = {} /\ Results(m) = {}
    BY TheStructures
  <2>3. Distinct(m)
    BY <2>1 DEF Distinct
  <2> QED
    BY <2>1, <2>2, <2>3 DEF ShimFits, Owned
<1> QED
  BY <1>1, <1>2, <1>3, <1>4, <1>5, <1>6, <1>7, <1>8, <1>9, <1>10, TheMethods

\* What the shim frees of parameter p, the members head of the struct and each of every
\* element, are the pointers of p.
FreeFits(m, p, head, each) ==
    /\ IsSeq(head) /\ IsInjective(head) /\ IsSeq(each) /\ IsInjective(each)
    /\ "" \notin Range(head) /\ "elements" \notin Range(head)
    /\ {Self(p)} \cup Pointers(handleInvocation[m], p)
       = {Self(p)} \cup Sets(p, Range(head)) \cup (IF each # <<>> THEN {Elements(p)} ELSE {})
    /\ \A n \in Nat : ElementPointers(handleInvocation[m], p, n) = SetsEach(p, n, Range(each))

FreesFit(m) ==
    LET frees == handleInvocation[m].frees
    IN  /\ IsSeq(frees)
        /\ \A i, j \in DOMAIN frees : frees[i].name = frees[j].name => i = j
        /\ {frees[i].name : i \in DOMAIN frees} = Owned(m) \cup Results(m)
        /\ \A i \in DOMAIN frees : FreeFits(m, frees[i].name, frees[i].layout.head, frees[i].layout.each)

\* Pointers of the struct p, and of the elements of its list.
Points(m, p, heads, elements) ==
    /\ Pointers(handleInvocation[m], p) = Sets(p, heads)
    /\ \A n : ElementPointers(handleInvocation[m], p, n) = SetsEach(p, n, elements)

LEMMA PointsOf ==
    ASSUME NEW m, NEW p, NEW layout, Layouts(handleInvocation[m], p) = {layout}
    PROVE  Points(m, p, Bytes(layout.head) \cup (IF IsList(layout) THEN {"elements"} ELSE {}), Bytes(layout.each))
<1> PICK shim : shim = handleInvocation[m]
  OBVIOUS
<1> PICK heads : heads = Bytes(layout.head)
  OBVIOUS
<1> PICK elements : elements = Bytes(layout.each)
  OBVIOUS
<1>1. Pointers(shim, p) = Sets(p, heads) \cup (IF IsList(layout) THEN {Elements(p)} ELSE {})
  BY DEF Pointers, Sets
<1>2. \A n : ElementPointers(shim, p, n) = SetsEach(p, n, elements)
  BY DEF ElementPointers, SetsEach
<1>3. Pointers(shim, p) = Sets(p, heads \cup (IF IsList(layout) THEN {"elements"} ELSE {}))
  <2>1. CASE IsList(layout)
    BY <1>1, <2>1 DEF Elements, Sets
  <2>2. CASE ~IsList(layout)
    BY <1>1, <2>2 DEF Sets
  <2> QED
    BY <2>1, <2>2
<1> QED
  BY <1>2, <1>3 DEF Points

LEMMA LayoutsOf ==
    ASSUME NEW m \in Methods, NEW param, param \in Range(Reads(m)) \cup Range(Writes(m))
    PROVE  Layouts(handleInvocation[m], param.name) = {param.layout}
<1>1. IsSeq(Reads(m)) /\ IsSeq(Writes(m))
  BY ReadsGood, WritesGood DEF GoodParams, AreParams, Reads, Writes
<1>2. Range(handleInvocation[m].reads \o handleInvocation[m].writes) = Range(Reads(m)) \cup Range(Writes(m))
  BY <1>1, RowOfTwo DEF Reads, Writes
<1>3. {q \in Range(handleInvocation[m].reads \o handleInvocation[m].writes) : q.name = param.name} = {param}
  <2>1. \A q \in Range(Reads(m)) \cup Range(Writes(m)) : q.name = param.name => q = param
    BY ShimsFit DEF ShimFits, Distinct
  <2> QED
    BY <1>2, <2>1
<1> QED
  BY <1>3 DEF Layouts

LEMMA PointsOfParam ==
    ASSUME NEW m \in Methods, NEW p, NEW layout, Param(p, layout) \in Range(Reads(m)) \cup Range(Writes(m))
    PROVE  Points(m, p, Bytes(layout.head) \cup (IF IsList(layout) THEN {"elements"} ELSE {}), Bytes(layout.each))
<1> PICK param : param = Param(p, layout)
  OBVIOUS
<1>1. param.name = p /\ param.layout = layout
  BY DEF Param
<1>2. Layouts(handleInvocation[m], p) = {layout}
  BY <1>1, LayoutsOf
<1> QED
  BY <1>2, PointsOf

LEMMA PointsOfStruct ==
    ASSUME NEW m \in Methods, NEW p, NEW leaves, ~IsList(Struct(leaves)),
           Param(p, Struct(leaves)) \in Range(Reads(m)) \cup Range(Writes(m))
    PROVE  Points(m, p, Bytes(leaves), {})
<1>1. Struct(leaves).head = leaves /\ Struct(leaves).each = <<>>
  BY DEF Struct
<1>2. Bytes(<<>>) = {}
  BY Tuples DEF Bytes
<1>3. Points(m, p, Bytes(leaves) \cup {}, {})
  BY <1>1, <1>2, PointsOfParam
<1> QED
  BY <1>3

\* What is a string or a binary among the leaves of a struct.
LEMMA BytesOf ==
    /\ Bytes(read_binary_t_struct) = {"data"} /\ Bytes(write_binary_t_struct) = {"data"}
    /\ Bytes(write_log_message_struct) = {"msg"}
    /\ Bytes(write_PSKID_struct) = {"ID", "PSK"}
    /\ Bytes(write_PLCstatus_struct) = {}
    /\ Bytes(write_trace_sample_struct) = {"TraceBuffer"}
    /\ Bytes(read_extra_file_struct) = {"fname", "blobID"}
    /\ Bytes(read_trace_order_struct) = {"force"}
    /\ Bytes(<<Leaf("string", "")>>) = {""}
<1>0. \A type, member : Leaf(type, member).type = type /\ Leaf(type, member).member = member
  BY DEF Leaf
<1>1. \A leaves, f : f \in Bytes(leaves) <=> \E l \in Range(leaves) : l.type \in {"string", "binary"} /\ l.member = f
  BY DEF Bytes
<1>2. ASSUME NEW leaves, NEW member, NEW type \in {"string", "binary"}, Range(leaves) = {Leaf(type, member)}
      PROVE  Bytes(leaves) = {member}
  <2>1. \A f : f \in Bytes(leaves) <=> f = member
    BY <1>0, <1>1, <1>2
  <2> QED
    BY <2>1
<1>3. Bytes(read_binary_t_struct) = {"data"} /\ Bytes(write_binary_t_struct) = {"data"} /\ Bytes(<<Leaf("string", "")>>) = {""}
  <2>1. /\ Range(read_binary_t_struct) = {Leaf("binary", "data")} /\ Range(write_binary_t_struct) = {Leaf("binary", "data")}
        /\ Range(<<Leaf("string", "")>>) = {Leaf("string", "")}
    BY Tuples DEF read_binary_t_struct, write_binary_t_struct
  <2> QED
    BY <1>2, <2>1
<1>4. Bytes(write_log_message_struct) = {"msg"}
  <2>1. Range(write_log_message_struct) = {Leaf("string", "msg"), Leaf("u32", "tick"), Leaf("u32", "sec"), Leaf("u32", "nsec")}
    BY Tuples DEF write_log_message_struct
  <2>2. \A f : f \in Bytes(write_log_message_struct) <=> f = "msg"
    BY <1>0, <1>1, <2>1
  <2> QED
    BY <2>2
<1>5. Bytes(write_PSKID_struct) = {"ID", "PSK"}
  <2>1. Range(write_PSKID_struct) = {Leaf("string", "ID"), Leaf("string", "PSK")}
    BY Tuples DEF write_PSKID_struct
  <2>2. \A f : f \in Bytes(write_PSKID_struct) <=> (f = "ID" \/ f = "PSK")
    BY <1>0, <1>1, <2>1
  <2> QED
    BY <2>2
<1>6. Bytes(write_PLCstatus_struct) = {}
  BY PLCstatusLeaves DEF Bytes, Leaf
<1>7. Bytes(write_trace_sample_struct) = {"TraceBuffer"}
  <2>1. Range(write_trace_sample_struct) = {Leaf("u32", "tick"), Leaf("binary", "TraceBuffer")}
    BY Tuples DEF write_trace_sample_struct
  <2>2. \A f : f \in Bytes(write_trace_sample_struct) <=> f = "TraceBuffer"
    BY <1>0, <1>1, <2>1
  <2> QED
    BY <2>2
<1>8. Bytes(read_extra_file_struct) = {"fname", "blobID"}
  <2>1. Range(read_extra_file_struct) = {Leaf("string", "fname"), Leaf("binary", "blobID")}
    BY Tuples DEF read_extra_file_struct
  <2>2. \A f : f \in Bytes(read_extra_file_struct) <=> (f = "fname" \/ f = "blobID")
    BY <1>0, <1>1, <2>1
  <2> QED
    BY <2>2
<1>9. Bytes(read_trace_order_struct) = {"force"}
  <2>1. Range(read_trace_order_struct) = {Leaf("u32", "idx"), Leaf("binary", "force")}
    BY Tuples DEF read_trace_order_struct
  <2>2. \A f : f \in Bytes(read_trace_order_struct) <=> f = "force"
    BY <1>0, <1>1, <2>1
  <2> QED
    BY <2>2
<1> QED
  BY <1>3, <1>4, <1>5, <1>6, <1>7, <1>8, <1>9

LEMMA PointsOfString ==
    ASSUME NEW m \in Methods, NEW p, Param(p, Scalar("string")) \in Range(Reads(m)) \cup Range(Writes(m))
    PROVE  Points(m, p, {""}, {})
<1>1. Scalar("string") = Struct(<<Leaf("string", "")>>) /\ ~IsList(Scalar("string"))
  BY ScalarLayout DEF Scalar
<1>2. Points(m, p, Bytes(<<Leaf("string", "")>>), {})
  BY <1>1, PointsOfStruct
<1> QED
  BY <1>2, BytesOf

LEMMA PointsOfList ==
    ASSUME NEW m \in Methods, NEW p, NEW leaves, leaves # <<>>,
           Param(p, List(leaves)) \in Range(Reads(m)) \cup Range(Writes(m))
    PROVE  Points(m, p, {"elements"}, Bytes(leaves))
<1>1. List(leaves).head = <<>> /\ List(leaves).each = leaves /\ IsList(List(leaves))
  BY DEF List, IsList
<1>2. Bytes(<<>>) = {}
  BY Tuples DEF Bytes
<1>3. Points(m, p, {} \cup {"elements"}, Bytes(leaves))
  BY <1>1, <1>2, PointsOfParam
<1> QED
  BY <1>3

LEMMA TwoInARow ==
    ASSUME NEW x, NEW y, x # y
    PROVE  IsSeq(<<x, y>>) /\ Range(<<x, y>>) = {x, y} /\ IsInjective(<<x, y>>)
<1>1. IsSeq(<<x, y>>) /\ Range(<<x, y>>) = {x, y}
  BY Tuples
<1>2. IsInjective(<<x, y>>)
  BY DEF IsInjective
<1> QED
  BY <1>1, <1>2

LEMMA FitsStruct ==
    ASSUME NEW m, NEW p, NEW fs, IsSeq(fs), IsInjective(fs), "" \notin Range(fs), "elements" \notin Range(fs),
           Points(m, p, Range(fs), {})
    PROVE  FreeFits(m, p, fs, <<>>)
<1> PICK none : none = <<>>
  OBVIOUS
<1>1. IsSeq(none) /\ IsInjective(none) /\ Range(none) = {}
  BY Tuples DEF IsInjective
<1>2. Pointers(handleInvocation[m], p) = Sets(p, Range(fs))
  BY DEF Points
<1>3. \A n \in Nat : ElementPointers(handleInvocation[m], p, n) = SetsEach(p, n, Range(none))
  BY <1>1 DEF Points
<1>4. {Self(p)} \cup Pointers(handleInvocation[m], p)
      = {Self(p)} \cup Sets(p, Range(fs)) \cup (IF none # <<>> THEN {Elements(p)} ELSE {})
  BY <1>2
<1>5. FreeFits(m, p, fs, none)
  BY <1>1, <1>3, <1>4 DEF FreeFits
<1> QED
  BY <1>5

LEMMA FitsOneMember ==
    ASSUME NEW m, NEW p, NEW f, f # "", f # "elements", Points(m, p, {f}, {})
    PROVE  FreeFits(m, p, <<f>>, <<>>)
<1> PICK fs : fs = <<f>>
  OBVIOUS
<1>1. IsSeq(fs) /\ IsInjective(fs) /\ Range(fs) = {f}
  BY OneInARow
<1> QED
  BY <1>1, FitsStruct

LEMMA FitsString ==
    ASSUME NEW m, NEW p, Points(m, p, {""}, {})
    PROVE  FreeFits(m, p, <<>>, <<>>)
<1> PICK none : none = <<>>
  OBVIOUS
<1>1. IsSeq(none) /\ IsInjective(none) /\ Range(none) = {} /\ "" \notin Range(none) /\ "elements" \notin Range(none)
  BY Tuples DEF IsInjective
<1>2. Pointers(handleInvocation[m], p) = {Self(p)}
  BY DEF Points, Self, Sets
<1>3. \A n \in Nat : ElementPointers(handleInvocation[m], p, n) = SetsEach(p, n, Range(none))
  BY <1>1 DEF Points
<1>4. Sets(p, Range(none)) = {}
  BY <1>1 DEF Sets
<1>5. {Self(p)} \cup Pointers(handleInvocation[m], p)
      = {Self(p)} \cup Sets(p, Range(none)) \cup (IF none # <<>> THEN {Elements(p)} ELSE {})
  BY <1>2, <1>4
<1>6. FreeFits(m, p, none, none)
  BY <1>1, <1>3, <1>5 DEF FreeFits
<1> QED
  BY <1>6

LEMMA FitsList ==
    ASSUME NEW m, NEW p, NEW fs, fs # <<>>, IsSeq(fs), IsInjective(fs), Points(m, p, {"elements"}, Range(fs))
    PROVE  FreeFits(m, p, <<>>, fs)
<1> PICK none : none = <<>>
  OBVIOUS
<1>1. IsSeq(none) /\ IsInjective(none) /\ Range(none) = {} /\ "" \notin Range(none) /\ "elements" \notin Range(none)
  BY Tuples DEF IsInjective
<1>2. Pointers(handleInvocation[m], p) = {Elements(p)}
  BY DEF Points, Elements, Sets
<1>3. \A n \in Nat : ElementPointers(handleInvocation[m], p, n) = SetsEach(p, n, Range(fs))
  BY DEF Points
<1>4. Sets(p, Range(none)) = {}
  BY <1>1 DEF Sets
<1>5. {Self(p)} \cup Pointers(handleInvocation[m], p)
      = {Self(p)} \cup Sets(p, Range(none)) \cup (IF fs # <<>> THEN {Elements(p)} ELSE {})
  BY <1>2, <1>4
<1>6. FreeFits(m, p, none, fs)
  BY <1>1, <1>3, <1>5 DEF FreeFits
<1> QED
  BY <1>6

\* The parameters a shim frees, one, two or three.
LEMMA FreesOne ==
    ASSUME NEW m, NEW p, NEW a, handleInvocation[m].frees = <<Param(p, a)>>, Owned(m) \cup Results(m) = {p},
           FreeFits(m, p, a.head, a.each)
    PROVE  FreesFit(m)
<1> PICK s : s = <<Param(p, a)>>
  OBVIOUS
<1>1. IsSeq(s) /\ DOMAIN s = {1} /\ s[1].name = p /\ s[1].layout = a
  BY Tuples DEF Param
<1> QED
  BY <1>1 DEF FreesFit

LEMMA FreesTwo ==
    ASSUME NEW m, NEW p, NEW a, NEW q, NEW b, p # q, handleInvocation[m].frees = <<Param(p, a), Param(q, b)>>,
           Owned(m) \cup Results(m) = {p, q}, FreeFits(m, p, a.head, a.each), FreeFits(m, q, b.head, b.each)
    PROVE  FreesFit(m)
<1> PICK s : s = <<Param(p, a), Param(q, b)>>
  OBVIOUS
<1>1. IsSeq(s) /\ DOMAIN s = {1, 2} /\ s[1].name = p /\ s[1].layout = a /\ s[2].name = q /\ s[2].layout = b
  BY Tuples DEF Param
<1> QED
  BY <1>1 DEF FreesFit

LEMMA FreesThree ==
    ASSUME NEW m, NEW p, NEW a, NEW q, NEW b, NEW r, NEW c, p # q, p # r, q # r,
           handleInvocation[m].frees = <<Param(p, a), Param(q, b), Param(r, c)>>,
           Owned(m) \cup Results(m) = {p, q, r}, FreeFits(m, p, a.head, a.each), FreeFits(m, q, b.head, b.each),
           FreeFits(m, r, c.head, c.each)
    PROVE  FreesFit(m)
<1> PICK s : s = <<Param(p, a), Param(q, b), Param(r, c)>>
  OBVIOUS
<1>1. IsSeq(s) /\ DOMAIN s = {1, 2, 3}
  BY Tuples
<1>2. s[1] = Param(p, a) /\ s[2] = Param(q, b) /\ s[3] = Param(r, c)
  BY Tuples
<1>3. s[1].name = p /\ s[1].layout = a /\ s[2].name = q /\ s[2].layout = b /\ s[3].name = r /\ s[3].layout = c
  BY <1>2 DEF Param
<1>4. \A i, j \in DOMAIN s : s[i].name = s[j].name => i = j
  BY <1>1, <1>3
<1>5. {s[i].name : i \in DOMAIN s} = {p, q, r}
  BY <1>1, <1>3
<1>6. \A i \in DOMAIN s : FreeFits(m, s[i].name, s[i].layout.head, s[i].layout.each)
  BY <1>1, <1>3
<1> QED
  BY <1>1, <1>4, <1>5, <1>6 DEF FreesFit

\* What is freed of a binary, and of a string, which has no members.
LEMMA BinaryFits ==
    ASSUME NEW m \in Methods, NEW p,
           \/ Param(p, Struct(read_binary_t_struct)) \in Range(Reads(m)) \cup Range(Writes(m))
           \/ Param(p, Struct(write_binary_t_struct)) \in Range(Reads(m)) \cup Range(Writes(m))
    PROVE  FreeFits(m, p, free_binary_t_struct.head, free_binary_t_struct.each)
<1>1. Points(m, p, {"data"}, {})
  <2>1. CASE Param(p, Struct(read_binary_t_struct)) \in Range(Reads(m)) \cup Range(Writes(m))
    <3>1. Points(m, p, Bytes(read_binary_t_struct), {})
      BY <2>1, BinLayout, PointsOfStruct
    <3> QED
      BY <3>1, BytesOf
  <2>2. CASE Param(p, Struct(write_binary_t_struct)) \in Range(Reads(m)) \cup Range(Writes(m))
    <3>1. Points(m, p, Bytes(write_binary_t_struct), {})
      BY <2>2, WriteBinLayout, PointsOfStruct
    <3> QED
      BY <3>1, BytesOf
  <2> QED
    BY <2>1, <2>2
<1>2. free_binary_t_struct.head = <<"data">> /\ free_binary_t_struct.each = <<>>
  BY DEF free_binary_t_struct, Struct
<1>3. FreeFits(m, p, <<"data">>, <<>>)
  BY <1>1, FitsOneMember
<1> QED
  BY <1>2, <1>3

LEMMA StringFits ==
    ASSUME NEW m \in Methods, NEW p, Param(p, Scalar("string")) \in Range(Reads(m)) \cup Range(Writes(m))
    PROVE  FreeFits(m, p, free_nothing.head, free_nothing.each)
<1>1. Points(m, p, {""}, {})
  BY PointsOfString
<1>2. free_nothing.head = <<>> /\ free_nothing.each = <<>>
  BY DEF free_nothing, Struct
<1> QED
  BY <1>1, <1>2, FitsString

\* Two lists, of the extra files and of the orders.
LEMMA ExtraFilesFit ==
    ASSUME NEW m \in Methods, NEW p, Param(p, read_list_extra_file_1_t_struct) \in Range(Reads(m)) \cup Range(Writes(m))
    PROVE  FreeFits(m, p, free_list_extra_file_1_t_struct.head, free_list_extra_file_1_t_struct.each)
<1>1. read_extra_file_struct # <<>>
  BY DEF read_extra_file_struct
<1>2. Points(m, p, {"elements"}, {"fname", "blobID"})
  <2>1. read_list_extra_file_1_t_struct = List(read_extra_file_struct)
    BY DEF read_list_extra_file_1_t_struct
  <2>2. Points(m, p, {"elements"}, Bytes(read_extra_file_struct))
    BY <1>1, <2>1, PointsOfList
  <2> QED
    BY <2>2, BytesOf
<1>3. free_list_extra_file_1_t_struct.head = <<>> /\ free_list_extra_file_1_t_struct.each = <<"fname", "blobID">>
  BY DEF free_list_extra_file_1_t_struct, List, free_extra_file_struct
<1> PICK fs : fs = <<"fname", "blobID">>
  OBVIOUS
<1>4. fs # <<>> /\ IsSeq(fs) /\ IsInjective(fs) /\ Range(fs) = {"fname", "blobID"}
  BY TwoInARow
<1>5. FreeFits(m, p, <<>>, fs)
  BY <1>2, <1>4, FitsList
<1> QED
  BY <1>3, <1>5

LEMMA OrdersFit ==
    ASSUME NEW m \in Methods, NEW p, Param(p, read_list_trace_order_1_t_struct) \in Range(Reads(m)) \cup Range(Writes(m))
    PROVE  FreeFits(m, p, free_list_trace_order_1_t_struct.head, free_list_trace_order_1_t_struct.each)
<1>1. read_trace_order_struct # <<>>
  BY DEF read_trace_order_struct
<1>2. Points(m, p, {"elements"}, {"force"})
  <2>1. read_list_trace_order_1_t_struct = List(read_trace_order_struct)
    BY DEF read_list_trace_order_1_t_struct
  <2>2. Points(m, p, {"elements"}, Bytes(read_trace_order_struct))
    BY <1>1, <2>1, PointsOfList
  <2> QED
    BY <2>2, BytesOf
<1>3. free_list_trace_order_1_t_struct.head = <<>> /\ free_list_trace_order_1_t_struct.each = <<"force">>
  BY DEF free_list_trace_order_1_t_struct, List, free_trace_order_struct
<1> PICK fs : fs = <<"force">>
  OBVIOUS
<1>4. fs # <<>> /\ IsSeq(fs) /\ IsInjective(fs) /\ Range(fs) = {"force"}
  BY OneInARow
<1>5. FreeFits(m, p, <<>>, fs)
  BY <1>2, <1>4, FitsList
<1> QED
  BY <1>3, <1>5

\* The results.
LEMMA ResultsFit ==
    /\ FreeFits("GetLogMessage", "message", free_log_message_struct.head, free_log_message_struct.each)
    /\ FreeFits("GetPLCID", "plcID", free_PSKID_struct.head, free_PSKID_struct.each)
    /\ FreeFits("GetPLCstatus", "status", free_nothing.head, free_nothing.each)
    /\ FreeFits("GetTraceVariables", "traces", free_TraceVariables_struct.head, free_TraceVariables_struct.each)
<1>1. FreeFits("GetLogMessage", "message", free_log_message_struct.head, free_log_message_struct.each)
  <2>1. Param("message", Struct(write_log_message_struct)) \in Range(Reads("GetLogMessage")) \cup Range(Writes("GetLogMessage")) /\ "GetLogMessage" \in Methods
    BY TheParams, TheMethods
  <2>2. Points("GetLogMessage", "message", {"msg"}, {})
    <3>1. Points("GetLogMessage", "message", Bytes(write_log_message_struct), {})
      BY <2>1, LogMessageLayout, PointsOfStruct
    <3> QED
      BY <3>1, BytesOf
  <2>3. free_log_message_struct.head = <<"msg">> /\ free_log_message_struct.each = <<>>
    BY DEF free_log_message_struct, Struct
  <2>4. FreeFits("GetLogMessage", "message", <<"msg">>, <<>>)
    BY <2>2, FitsOneMember
  <2> QED
    BY <2>3, <2>4
<1>2. FreeFits("GetPLCID", "plcID", free_PSKID_struct.head, free_PSKID_struct.each)
  <2>1. Param("plcID", Struct(write_PSKID_struct)) \in Range(Reads("GetPLCID")) \cup Range(Writes("GetPLCID")) /\ "GetPLCID" \in Methods
    BY TheParams, TheMethods
  <2>2. Points("GetPLCID", "plcID", {"ID", "PSK"}, {})
    <3>1. Points("GetPLCID", "plcID", Bytes(write_PSKID_struct), {})
      BY <2>1, PSKIDLayout, PointsOfStruct
    <3> QED
      BY <3>1, BytesOf
  <2>3. free_PSKID_struct.head = <<"ID", "PSK">> /\ free_PSKID_struct.each = <<>>
    BY DEF free_PSKID_struct, Struct
  <2> PICK fs : fs = <<"ID", "PSK">>
    OBVIOUS
  <2>4. IsSeq(fs) /\ IsInjective(fs) /\ Range(fs) = {"ID", "PSK"} /\ "" \notin Range(fs) /\ "elements" \notin Range(fs)
    <3>1. "ID" # "PSK"
      OBVIOUS
    <3>2. IsSeq(<<"ID", "PSK">>) /\ Range(<<"ID", "PSK">>) = {"ID", "PSK"} /\ IsInjective(<<"ID", "PSK">>)
      BY <3>1, TwoInARow
    <3> QED
      BY <3>2
  <2>5. FreeFits("GetPLCID", "plcID", fs, <<>>)
    BY <2>2, <2>4, FitsStruct
  <2> QED
    BY <2>3, <2>5
<1>3. FreeFits("GetPLCstatus", "status", free_nothing.head, free_nothing.each)
  <2>1. Param("status", Struct(write_PLCstatus_struct)) \in Range(Reads("GetPLCstatus")) \cup Range(Writes("GetPLCstatus")) /\ "GetPLCstatus" \in Methods
    BY TheParams, TheMethods
  <2>2. Points("GetPLCstatus", "status", {}, {})
    <3>1. Points("GetPLCstatus", "status", Bytes(write_PLCstatus_struct), {})
      BY <2>1, PLCstatusLayout, PointsOfStruct
    <3> QED
      BY <3>1, BytesOf
  <2>3. free_nothing.head = <<>> /\ free_nothing.each = <<>>
    BY DEF free_nothing, Struct
  <2> PICK fs : fs = <<>>
    OBVIOUS
  <2>4. IsSeq(fs) /\ IsInjective(fs) /\ Range(fs) = {} /\ "" \notin Range(fs) /\ "elements" \notin Range(fs)
    BY Tuples DEF IsInjective
  <2>5. FreeFits("GetPLCstatus", "status", fs, <<>>)
    BY <2>2, <2>4, FitsStruct
  <2> QED
    BY <2>3, <2>5
<1>4. FreeFits("GetTraceVariables", "traces", free_TraceVariables_struct.head, free_TraceVariables_struct.each)
  <2>1. Param("traces", write_TraceVariables_struct) \in Range(Reads("GetTraceVariables")) \cup Range(Writes("GetTraceVariables")) /\ "GetTraceVariables" \in Methods
    BY TheParams, TheMethods
  <2>2. Bytes(<<Leaf("i32", "PLCstatus")>>) = {}
    <3>1. Range(<<Leaf("i32", "PLCstatus")>>) = {Leaf("i32", "PLCstatus")} /\ Leaf("i32", "PLCstatus").type = "i32"
      BY Tuples DEF Leaf
    <3> QED
      BY <3>1 DEF Bytes
  <2>3. Points("GetTraceVariables", "traces", {} \cup {"elements"}, {"TraceBuffer"})
    <3> PICK layout : layout = write_TraceVariables_struct
      OBVIOUS
    <3>1. Points("GetTraceVariables", "traces", Bytes(layout.head) \cup (IF IsList(layout) THEN {"elements"} ELSE {}), Bytes(layout.each))
      BY <2>1, PointsOfParam
    <3>2. Bytes(layout.head) = {} /\ IsList(layout) /\ Bytes(layout.each) = {"TraceBuffer"}
      BY <2>2, BytesOf, TracesLayout
    <3> QED
      BY <3>1, <3>2
  <2>4. free_TraceVariables_struct.head = <<>> /\ free_TraceVariables_struct.each = <<"TraceBuffer">>
    BY DEF free_TraceVariables_struct, free_list_trace_sample_1_t_struct, List, free_trace_sample_struct
  <2> PICK fs : fs = <<"TraceBuffer">>
    OBVIOUS
  <2>5. fs # <<>> /\ IsSeq(fs) /\ IsInjective(fs) /\ Range(fs) = {"TraceBuffer"}
    BY OneInARow
  <2>6. {} \cup {"elements"} = {"elements"}
    OBVIOUS
  <2>7. FreeFits("GetTraceVariables", "traces", <<>>, fs)
    BY <2>3, <2>5, <2>6, FitsList
  <2> QED
    BY <2>4, <2>7
<1> QED
  BY <1>1, <1>2, <1>3, <1>4

\* Every shim frees what it allocates.
LEMMA FreesFitAll == \A m \in Methods : FreesFit(m)
<1>1. FreesFit("AppendChunkToBlob")
  <2>1. handleInvocation["AppendChunkToBlob"].frees = <<Param("data", free_binary_t_struct), Param("blobID", free_binary_t_struct), Param("newBlobID", free_binary_t_struct)>>
    BY TheShims DEF AppendChunkToBlob_shim, Shim
  <2>2. Owned("AppendChunkToBlob") \cup Results("AppendChunkToBlob") = {"data", "blobID", "newBlobID"}
    BY TheStructures DEF Owned
  <2>3. FreeFits("AppendChunkToBlob", "data", free_binary_t_struct.head, free_binary_t_struct.each)
    BY TheParams, TheMethods, BinaryFits
  <2>4. FreeFits("AppendChunkToBlob", "blobID", free_binary_t_struct.head, free_binary_t_struct.each)
    BY TheParams, TheMethods, BinaryFits
  <2>5. FreeFits("AppendChunkToBlob", "newBlobID", free_binary_t_struct.head, free_binary_t_struct.each)
    BY TheParams, TheMethods, BinaryFits
  <2> QED
    BY <2>1, <2>2, <2>3, <2>4, <2>5, FreesThree
<1>2. FreesFit("GetLogMessage")
  <2>1. handleInvocation["GetLogMessage"].frees = <<Param("message", free_log_message_struct)>>
    BY TheShims DEF GetLogMessage_shim, Shim
  <2>2. Owned("GetLogMessage") \cup Results("GetLogMessage") = {"message"}
    BY TheStructures DEF Owned
  <2>3. FreeFits("GetLogMessage", "message", free_log_message_struct.head, free_log_message_struct.each)
    BY ResultsFit
  <2> QED
    BY <2>1, <2>2, <2>3, FreesOne
<1>3. FreesFit("GetPLCID")
  <2>1. handleInvocation["GetPLCID"].frees = <<Param("plcID", free_PSKID_struct)>>
    BY TheShims DEF GetPLCID_shim, Shim
  <2>2. Owned("GetPLCID") \cup Results("GetPLCID") = {"plcID"}
    BY TheStructures DEF Owned
  <2>3. FreeFits("GetPLCID", "plcID", free_PSKID_struct.head, free_PSKID_struct.each)
    BY ResultsFit
  <2> QED
    BY <2>1, <2>2, <2>3, FreesOne
<1>4. FreesFit("GetPLCstatus")
  <2>1. handleInvocation["GetPLCstatus"].frees = <<Param("status", free_nothing)>>
    BY TheShims DEF GetPLCstatus_shim, Shim
  <2>2. Owned("GetPLCstatus") \cup Results("GetPLCstatus") = {"status"}
    BY TheStructures DEF Owned
  <2>3. FreeFits("GetPLCstatus", "status", free_nothing.head, free_nothing.each)
    BY ResultsFit
  <2> QED
    BY <2>1, <2>2, <2>3, FreesOne
<1>5. FreesFit("GetTraceVariables")
  <2>1. handleInvocation["GetTraceVariables"].frees = <<Param("traces", free_TraceVariables_struct)>>
    BY TheShims DEF GetTraceVariables_shim, Shim
  <2>2. Owned("GetTraceVariables") \cup Results("GetTraceVariables") = {"traces"}
    BY TheStructures DEF Owned
  <2>3. FreeFits("GetTraceVariables", "traces", free_TraceVariables_struct.head, free_TraceVariables_struct.each)
    BY ResultsFit
  <2> QED
    BY <2>1, <2>2, <2>3, FreesOne
<1>6. FreesFit("MatchMD5")
  <2>1. handleInvocation["MatchMD5"].frees = <<Param("MD5", free_nothing)>>
    BY TheShims DEF MatchMD5_shim, Shim
  <2>2. Owned("MatchMD5") \cup Results("MatchMD5") = {"MD5"}
    BY TheStructures DEF Owned
  <2>3. FreeFits("MatchMD5", "MD5", free_nothing.head, free_nothing.each)
    BY TheParams, TheMethods, StringFits
  <2> QED
    BY <2>1, <2>2, <2>3, FreesOne
<1>7. FreesFit("NewPLC")
  <2>1. handleInvocation["NewPLC"].frees = <<Param("md5sum", free_nothing), Param("plcObjectBlobID", free_binary_t_struct), Param("extrafiles", free_list_extra_file_1_t_struct)>>
    BY TheShims DEF NewPLC_shim, Shim
  <2>2. Owned("NewPLC") \cup Results("NewPLC") = {"md5sum", "plcObjectBlobID", "extrafiles"}
    BY TheStructures DEF Owned
  <2>3. FreeFits("NewPLC", "md5sum", free_nothing.head, free_nothing.each)
    BY TheParams, TheMethods, StringFits
  <2>4. FreeFits("NewPLC", "plcObjectBlobID", free_binary_t_struct.head, free_binary_t_struct.each)
    BY TheParams, TheMethods, BinaryFits
  <2>5. FreeFits("NewPLC", "extrafiles", free_list_extra_file_1_t_struct.head, free_list_extra_file_1_t_struct.each)
    BY TheParams, TheMethods, ExtraFilesFit
  <2> QED
    BY <2>1, <2>2, <2>3, <2>4, <2>5, FreesThree
<1>8. FreesFit("SeedBlob")
  <2>1. handleInvocation["SeedBlob"].frees = <<Param("seed", free_binary_t_struct), Param("blobID", free_binary_t_struct)>>
    BY TheShims DEF SeedBlob_shim, Shim
  <2>2. Owned("SeedBlob") \cup Results("SeedBlob") = {"seed", "blobID"}
    BY TheStructures DEF Owned
  <2>3. FreeFits("SeedBlob", "seed", free_binary_t_struct.head, free_binary_t_struct.each)
    BY TheParams, TheMethods, BinaryFits
  <2>4. FreeFits("SeedBlob", "blobID", free_binary_t_struct.head, free_binary_t_struct.each)
    BY TheParams, TheMethods, BinaryFits
  <2> QED
    BY <2>1, <2>2, <2>3, <2>4, FreesTwo
<1>9. FreesFit("SetTraceVariablesList")
  <2>1. handleInvocation["SetTraceVariablesList"].frees = <<Param("orders", free_list_trace_order_1_t_struct)>>
    BY TheShims DEF SetTraceVariablesList_shim, Shim
  <2>2. Owned("SetTraceVariablesList") \cup Results("SetTraceVariablesList") = {"orders"}
    BY TheStructures DEF Owned
  <2>3. FreeFits("SetTraceVariablesList", "orders", free_list_trace_order_1_t_struct.head, free_list_trace_order_1_t_struct.each)
    BY TheParams, TheMethods, OrdersFit
  <2> QED
    BY <2>1, <2>2, <2>3, FreesOne
<1>10. ASSUME NEW m \in {"PurgeBlobs", "RepairPLC", "ResetLogCount", "StartPLC", "StopPLC"}
       PROVE  FreesFit(m)
  <2>1. handleInvocation[m].frees = <<>>
    BY TheShims DEF PurgeBlobs_shim, RepairPLC_shim, ResetLogCount_shim, StartPLC_shim, StopPLC_shim, Shim
  <2>2. Owned(m) \cup Results(m) = {}
    BY TheStructures DEF Owned
  <2> PICK s : s = handleInvocation[m].frees
    OBVIOUS
  <2>3. IsSeq(s) /\ DOMAIN s = {}
    BY <2>1, Tuples
  <2> QED
    BY <2>2, <2>3 DEF FreesFit
<1> QED
  BY <1>1, <1>2, <1>3, <1>4, <1>5, <1>6, <1>7, <1>8, <1>9, <1>10, TheMethods

-----------------------------------------------------------------------------
(* What is in memory.                                                      *)

\* A shim and its handler fail only at what they are prepared for.
Prepared == Failing \cap NotHandled = {}

\* What is allocated for parameter p: its struct, and if there is one what it points to,
\* in memory me with lists of the lengths co.
Block(m, p, me, co) ==
    IF me[Self(p)] = "null" THEN {Self(p)}
    ELSE {Self(p)} \cup Pointers(handleInvocation[m], p)
         \cup (IF p \in DOMAIN co THEN ElementPointers(handleInvocation[m], p, co[p]) ELSE {})

\* The memory is that of the parameters A, and the blocks NewPLC has lost.
Blocks(m, A, me, co) ==
    /\ \A p \in A : Self(p) \in DOMAIN me /\ Block(m, p, me, co) \subseteq DOMAIN me
    /\ \A q \in DOMAIN me : q[1] = "extra_files_blob" \/ \E p \in A : q \in Block(m, p, me, co)

\* A list in memory has its length.
Counted(m, A, me, co) ==
    \A p \in A : me[Self(p)] # "null" /\ Elements(p) \in Pointers(handleInvocation[m], p) /\ me[Elements(p)] # "unset"
                 => p \in DOMAIN co

\* Nothing is unset but qs.
AllSet(me, qs) == \A q \in DOMAIN me : me[q] = "unset" => q \in qs

\* While the request is decoded, what is unset is still to be read.
Fit(m, l) ==
    l.type # "list" =>
        /\ \A p \in Structures(m) : l.path # Self(p) /\ l.path # Elements(p)
        /\ l.type \in {"string", "binary"} => Sure(m)

Orderly(m, leaves) == \A n \in Nat : \E rest : Ahead(leaves, rest, m, n)

Reading(m, me, co, leaves, st) ==
    /\ Blocks(m, Owned(m), me, co) /\ Counted(m, Owned(m), me, co)
    /\ AllSet(me, {l.path : l \in Range(leaves)})
    /\ Orderly(m, leaves) /\ \A l \in Range(leaves) : Fit(m, l)
    /\ \A p \in Structures(m) : ListLeaf(p) \in Range(leaves) => me[Self(p)] # "null" /\ DOMAIN co = {}
    /\ DOMAIN co \subseteq Owned(m)
    /\ st # "ok" => Results(m) = {}

\* Afterwards it is for the handler to set.
Using(m, me, co, qs) ==
    /\ Blocks(m, Owned(m) \cup Results(m), me, co) /\ Counted(m, Owned(m) \cup Results(m), me, co)
    /\ AllSet(me, qs)

ResultPointers(m) == UNION {Pointers(handleInvocation[m], p) : p \in Results(m)}

Untouched(m, me, co) == DOMAIN co \cap Results(m) = {} /\ \A p \in Results(m) : me[Self(p)] # "null"

LEMMA PointersOf ==
    ASSUME NEW m \in Methods, NEW a \in Range(Reads(m)) \cup Range(Writes(m))
    PROVE  /\ Pointers(handleInvocation[m], a.name)
              = Sets(a.name, Bytes(a.layout.head)) \cup (IF IsList(a.layout) THEN {Elements(a.name)} ELSE {})
           /\ \A n : ElementPointers(handleInvocation[m], a.name, n) = SetsEach(a.name, n, Bytes(a.layout.each))
<1> PICK layout : layout = a.layout
  OBVIOUS
<1> PICK shim : shim = handleInvocation[m]
  OBVIOUS
<1> PICK p : p = a.name
  OBVIOUS
<1>1. Layouts(shim, p) = {layout}
  BY LayoutsOf
<1>2. Pointers(shim, p) = Sets(p, Bytes(layout.head)) \cup (IF IsList(layout) THEN {Elements(p)} ELSE {})
  BY <1>1 DEF Pointers, Sets
<1>3. \A n : ElementPointers(shim, p, n) = SetsEach(p, n, Bytes(layout.each))
  BY <1>1 DEF ElementPointers, SetsEach
<1> QED
  BY <1>2, <1>3

\* A pointer is one of the leaves that are read or written.
LEMMA PointersAreLeaves ==
    ASSUME NEW m \in Methods, NEW a \in Range(Reads(m)) \cup Range(Writes(m)), NEW n \in Nat,
           NEW q \in Pointers(handleInvocation[m], a.name) \cup ElementPointers(handleInvocation[m], a.name, n)
    PROVE  \E l \in LeafSet(a, n) : l.path = q
<1> PICK layout : layout = a.layout
  OBVIOUS
<1> PICK p : p = a.name
  OBVIOUS
<1>0. \A leaves, f : f \in Bytes(leaves) => \E leaf \in Range(leaves) : leaf.member = f
  BY DEF Bytes
<1>1. CASE q \in Sets(p, Bytes(layout.head))
  <2>1. PICK f \in Bytes(layout.head) : q = <<p, 0, f>>
    BY <1>1 DEF Sets
  <2>2. PICK leaf \in Range(layout.head) : leaf.member = f
    BY <1>0, <2>1
  <2>3. At(p, 0, leaf).path = q
    BY <2>1, <2>2 DEF At
  <2> QED
    BY <2>3 DEF LeafSet
<1>2. CASE IsList(layout) /\ q = Elements(p)
  <2>1. ListLeaf(p) \in LeafSet(a, n)
    BY <1>2 DEF LeafSet
  <2>2. ListLeaf(p).path = q
    BY <1>2 DEF ListLeaf
  <2> QED
    BY <2>1, <2>2
<1>3. CASE q \in SetsEach(p, n, Bytes(layout.each))
  <2>1. PICK k \in 1 .. n, f \in Bytes(layout.each) : q = <<p, k, f>>
    BY <1>3 DEF SetsEach
  <2>2. PICK leaf \in Range(layout.each) : leaf.member = f
    BY <1>0, <2>1
  <2>3. At(p, k, leaf).path = q
    BY <2>1, <2>2 DEF At
  <2>4. layout.each # <<>>
    BY <2>2, Tuples
  <2> QED
    BY <2>3, <2>4 DEF LeafSet, IsList
<1> QED
  BY <1>1, <1>2, <1>3, PointersOf

LEMMA SelfOf ==
    ASSUME NEW p
    PROVE  Self(p)[1] = p /\ Elements(p)[1] = p
BY DEF Self, Elements

LEMMA SelfApart ==
    ASSUME NEW p, NEW r
    PROVE  (Self(p) = Self(r) => p = r) /\ (Elements(p) = Elements(r) => p = r) /\ Self(p) # Elements(r)
BY DEF Self, Elements

\* A pointer is of its parameter, and that of an element is not the struct or the list.
LEMMA PathsOf ==
    ASSUME NEW shim, NEW p, NEW q \in Pointers(shim, p)
    PROVE  q[1] = p
<1>1. q = Elements(p) \/ \E f : q = <<p, 0, f>>
  BY DEF Pointers
<1> QED
  BY <1>1 DEF Elements

LEMMA ElementPathsOf ==
    ASSUME NEW shim, NEW p, NEW n, NEW q \in ElementPointers(shim, p, n)
    PROVE  q[1] = p /\ q # Self(p) /\ q # Elements(p)
<1>1. PICK k \in 1 .. n : \E f : q = <<p, k, f>>
  BY DEF ElementPointers
<1>2. q[1] = p /\ q[2] = k /\ k # 0
  BY <1>1
<1>3. Self(p)[2] = 0 /\ Elements(p)[2] = 0
  BY DEF Self, Elements
<1> QED
  BY <1>2, <1>3

LEMMA BlockOf ==
    ASSUME NEW m, NEW p, NEW me, NEW co, NEW q \in Block(m, p, me, co)
    PROVE  q[1] = p
<1> PICK shim : shim = handleInvocation[m]
  OBVIOUS
<1> PICK n : n = co[p]
  OBVIOUS
<1>1. q = Self(p) \/ q \in Pointers(shim, p) \/ q \in ElementPointers(shim, p, n)
  BY DEF Block
<1>2. CASE q = Self(p)
  BY <1>2, SelfOf
<1>3. CASE q \in Pointers(shim, p)
  BY <1>3, PathsOf
<1>4. CASE q \in ElementPointers(shim, p, n)
  BY <1>4, ElementPathsOf
<1> QED
  BY <1>1, <1>2, <1>3, <1>4

LEMMA StringPointers ==
    ASSUME NEW m \in Methods, NEW p \in Strings(m), NEW me, NEW co
    PROVE  Block(m, p, me, co) = {Self(p)} /\ Elements(p) \notin Pointers(handleInvocation[m], p)
<1>1. PICK a \in Range(Reads(m)) : a.layout = Scalar("string") /\ a.name = p
  BY DEF Strings
<1>2. a.layout.head = <<Leaf("string", "")>> /\ a.layout.each = <<>>
  <2>1. Scalar("string").head = <<Leaf("string", "")>> /\ Scalar("string").each = <<>>
    BY DEF Scalar, Struct
  <2> QED
    BY <1>1, <2>1
<1>3. Bytes(a.layout.head) = {""} /\ Bytes(a.layout.each) = {} /\ ~IsList(a.layout)
  <2>1. Bytes(<<>>) = {}
    BY Tuples DEF Bytes
  <2> QED
    BY <1>2, <2>1, BytesOf DEF IsList
<1>4. Pointers(handleInvocation[m], p) = Sets(p, {""}) /\ \A n : ElementPointers(handleInvocation[m], p, n) = SetsEach(p, n, {})
  BY <1>1, <1>3, PointersOf
<1>5. Sets(p, {""}) = {Self(p)} /\ \A n : SetsEach(p, n, {}) = {}
  BY DEF Sets, SetsEach, Self
<1>6. Self(p) # Elements(p)
  BY SelfApart
<1> QED
  BY <1>4, <1>5, <1>6 DEF Block

\* What is freed of parameter p.
LEMMA FreesAt ==
    ASSUME NEW m \in Methods, NEW p \in Owned(m) \cup Results(m)
    PROVE  \E i \in DOMAIN handleInvocation[m].frees :
              /\ handleInvocation[m].frees[i].name = p
              /\ FreeFits(m, p, handleInvocation[m].frees[i].layout.head, handleInvocation[m].frees[i].layout.each)
<1> PICK frees : frees = handleInvocation[m].frees
  OBVIOUS
<1>1. /\ {frees[i].name : i \in DOMAIN frees} = Owned(m) \cup Results(m)
      /\ \A i \in DOMAIN frees : FreeFits(m, frees[i].name, frees[i].layout.head, frees[i].layout.each)
  BY FreesFitAll DEF FreesFit
<1>2. PICK i \in DOMAIN frees : frees[i].name = p
  BY <1>1
<1> QED
  BY <1>1, <1>2

\* Only a list has elements.
LEMMA NoElements ==
    ASSUME NEW m \in Methods, NEW p \in Owned(m) \cup Results(m), NEW n \in Nat,
           NEW q \in ElementPointers(handleInvocation[m], p, n)
    PROVE  Elements(p) \in Pointers(handleInvocation[m], p)
<1>1. PICK head, each : FreeFits(m, p, head, each)
  BY FreesAt
<1>2. q \in SetsEach(p, n, Range(each))
  BY <1>1 DEF FreeFits
<1>3. each # <<>>
  BY <1>2, Tuples DEF SetsEach
<1>4. Elements(p) \in {Self(p)} \cup Pointers(handleInvocation[m], p)
  BY <1>1, <1>3 DEF FreeFits
<1> QED
  BY <1>4, SelfApart

\* What is in memory after the structs ps have been allocated, all but failed.
LEMMA StructsAt ==
    ASSUME NEW shim, NEW ps, NEW failed \in SUBSET ps, NEW me, me = Structs(shim, ps, failed)
    PROVE  /\ \A p \in ps : Self(p) \in DOMAIN me /\ me[Self(p)] = IF p \in failed THEN "null" ELSE "live"
           /\ \A p \in ps \ failed : Pointers(shim, p) \subseteq DOMAIN me
           /\ \A q \in DOMAIN me : \/ \E p \in ps : q = Self(p)
                                   \/ me[q] = "unset" /\ \E p \in ps \ failed : q \in Pointers(shim, p)
<1> DEFINE f == [q \in {Self(p) : p \in ps} |-> IF q \in {Self(p) : p \in failed} THEN "null" ELSE "live"]
           pointers == UNION {Pointers(shim, p) : p \in ps \ failed}
           g == Unset(pointers)
<1>1. DOMAIN f = {Self(p) : p \in ps} /\ DOMAIN g = pointers /\ \A q \in pointers : g[q] = "unset"
  BY DEF Unset
<1>2. ASSUME NEW p \in ps
      PROVE  f[Self(p)] = IF p \in failed THEN "null" ELSE "live"
  <2>1. Self(p) \in {Self(r) : r \in failed} <=> p \in failed
    BY SelfApart
  <2> QED
    BY <2>1
<1>3. me = Over(f, g)
  BY DEF Structs
<1> HIDE DEF f, g
<1>4. /\ DOMAIN Over(f, g) = DOMAIN f \cup DOMAIN g
      /\ \A q \in DOMAIN f : Over(f, g)[q] = f[q]
      /\ \A q \in DOMAIN g : q \notin DOMAIN f => Over(f, g)[q] = g[q]
  BY OverAt
<1>5. DOMAIN me = DOMAIN f \cup DOMAIN g /\ \A q \in DOMAIN f : me[q] = f[q]
  BY <1>3, <1>4
<1>6. \A q \in DOMAIN g : q \notin DOMAIN f => me[q] = g[q]
  BY <1>3, <1>4
<1>7. \A p \in ps : Self(p) \in DOMAIN me /\ me[Self(p)] = IF p \in failed THEN "null" ELSE "live"
  BY <1>1, <1>2, <1>5
<1>8. \A p \in ps \ failed : Pointers(shim, p) \subseteq DOMAIN me
  BY <1>1, <1>5
<1>9. ASSUME NEW q \in DOMAIN me, q \notin DOMAIN f
      PROVE  me[q] = "unset" /\ \E p \in ps \ failed : q \in Pointers(shim, p)
  BY <1>1, <1>5, <1>6, <1>9
<1> QED
  BY <1>1, <1>7, <1>8, <1>9

\* The leaves that are still to be read.
LEMMA OrderlyTail ==
    ASSUME NEW m, NEW leaves, Orderly(m, leaves), leaves # <<>>, Head(leaves).type # "list"
    PROVE  Orderly(m, Tail(leaves))
BY AheadOne DEF Orderly

LEMMA OrderlySeq ==
    ASSUME NEW m, NEW leaves, Orderly(m, leaves)
    PROVE  IsSeq(leaves)
<1>1. PICK rest : Ahead(leaves, rest, m, 0)
  BY DEF Orderly
<1>2. ASSUME NEW front, NEW list, IsSeq(front), leaves = front \o <<ListLeaf(list.name)>>
      PROVE  IsSeq(leaves)
  <2> PICK one : one = <<ListLeaf(list.name)>>
    OBVIOUS
  <2>1. IsSeq(one)
    BY OneInARow
  <2> QED
    BY <1>2, <2>1, RowOfTwo
<1> QED
  BY <1>1, <1>2 DEF Ahead

\* A field is read.
LEMMA FieldRead ==
    ASSUME NEW m \in Methods, NEW me, NEW co, NEW leaves, NEW st, Reading(m, me, co, leaves, st),
           leaves # <<>>, Head(leaves).type # "list", NEW v \in {"null", "live"}, NEW me2,
           me2 = IF Head(leaves).path \in DOMAIN me THEN [me EXCEPT ![Head(leaves).path] = v] ELSE me,
           NEW st2, st2 # "ok" => Results(m) = {}
    PROVE  Reading(m, me2, co, Tail(leaves), st2)
<1> PICK l : l = Head(leaves)
  OBVIOUS
<1> PICK t : t = Tail(leaves)
  OBVIOUS
<1> PICK shim : shim = handleInvocation[m]
  OBVIOUS
<1>1. l \in Range(leaves) /\ Range(t) \subseteq Range(leaves) /\ Range(leaves) = {l} \cup Range(t)
  BY OrderlySeq, TailOf DEF Reading
<1>2. Fit(m, l)
  BY <1>1 DEF Reading
<1>3. /\ DOMAIN me2 = DOMAIN me
      /\ \A q \in DOMAIN me : q # l.path => me2[q] = me[q]
      /\ l.path \in DOMAIN me => me2[l.path] = v
  OBVIOUS
<1>4. \A p \in Structures(m) : Self(p) # l.path
  BY <1>2 DEF Fit
<1>5. \A p \in Structures(m) : Elements(p) # l.path
  BY <1>2 DEF Fit
<1>6. \A p \in Owned(m) : Self(p) \in DOMAIN me /\ Block(m, p, me, co) \subseteq DOMAIN me
  BY DEF Reading, Blocks
<1>7. \A p \in Structures(m) : me2[Self(p)] = me[Self(p)]
  BY <1>3, <1>4, <1>6 DEF Owned
<1>8. \A p \in Owned(m) : Block(m, p, me2, co) = Block(m, p, me, co)
  <2>1. ASSUME NEW p \in Strings(m)
        PROVE  Block(m, p, me2, co) = Block(m, p, me, co)
    BY StringPointers
  <2>2. ASSUME NEW p \in Structures(m)
        PROVE  Block(m, p, me2, co) = Block(m, p, me, co)
    BY <1>7 DEF Block
  <2> QED
    BY <2>1, <2>2 DEF Owned
<1>9. Blocks(m, Owned(m), me2, co)
  <2>1. Blocks(m, Owned(m), me, co)
    BY DEF Reading
  <2>2. \A p \in Owned(m) : Self(p) \in DOMAIN me2 /\ Block(m, p, me2, co) \subseteq DOMAIN me2
    BY <1>3, <1>6, <1>8
  <2>3. ASSUME NEW q \in DOMAIN me2, q[1] # "extra_files_blob"
        PROVE  \E p \in Owned(m) : q \in Block(m, p, me2, co)
    <3>1. PICK p \in Owned(m) : q \in Block(m, p, me, co)
      BY <1>3, <2>1, <2>3 DEF Blocks
    <3> QED
      BY <1>8, <3>1
  <2> QED
    BY <2>2, <2>3 DEF Blocks
<1>10. Counted(m, Owned(m), me2, co)
  <2>1. ASSUME NEW p \in Owned(m), me2[Self(p)] # "null", Elements(p) \in Pointers(shim, p), me2[Elements(p)] # "unset"
        PROVE  p \in DOMAIN co
    <3>1. p \in Structures(m)
      BY <2>1, StringPointers DEF Owned
    <3>2. me[Self(p)] # "null"
      BY <1>7, <2>1, <3>1
    <3>3. Elements(p) \in DOMAIN me
      BY <1>6, <2>1, <3>2 DEF Block
    <3>4. me[Elements(p)] # "unset"
      BY <1>3, <1>5, <2>1, <3>1, <3>3
    <3> QED
      BY <2>1, <3>2, <3>4 DEF Reading, Counted
  <2> QED
    BY <2>1 DEF Counted
<1>11. AllSet(me2, {k.path : k \in Range(t)})
  <2>1. ASSUME NEW q \in DOMAIN me2, me2[q] = "unset"
        PROVE  \E k \in Range(t) : q = k.path
    <3>1. q # l.path /\ q \in DOMAIN me /\ me[q] = "unset"
      BY <1>3, <2>1
    <3>2. q \in {k.path : k \in Range(leaves)}
      BY <3>1 DEF Reading, AllSet
    <3> QED
      BY <1>1, <3>1, <3>2
  <2> QED
    BY <2>1 DEF AllSet
<1>12. Orderly(m, t) /\ \A k \in Range(t) : Fit(m, k)
  BY <1>1, OrderlyTail DEF Reading
<1>13. \A p \in Structures(m) : ListLeaf(p) \in Range(t) => me2[Self(p)] # "null" /\ DOMAIN co = {}
  BY <1>1, <1>7 DEF Reading
<1>14. DOMAIN co \subseteq Owned(m)
  BY DEF Reading
<1>15. Reading(m, me2, co, t, st2)
  BY <1>9, <1>10, <1>11, <1>12, <1>13, <1>14 DEF Reading
<1> QED
  BY <1>15

\* A list that is read has a struct, and its elements fit.
LEMMA ListFits ==
    ASSUME NEW m \in Methods, NEW list, ReadsList(m, list), NEW n \in Nat
    PROVE  /\ list.name \in Structures(m) /\ m \in {"NewPLC", "SetTraceVariablesList"}
           /\ Elements(list.name) \in Pointers(handleInvocation[m], list.name)
           /\ IsSeq(Body(list, n)) /\ Plain(Body(list, n)) /\ \A l \in Range(Body(list, n)) : Fit(m, l)
           /\ \A q \in ElementPointers(handleInvocation[m], list.name, n) : \E l \in Range(Body(list, n)) : q = l.path
<1> PICK body : body = Body(list, n)
  OBVIOUS
<1> PICK p : p = list.name
  OBVIOUS
<1> PICK shim : shim = handleInvocation[m]
  OBVIOUS
<1>1. list \in Range(Reads(m)) /\ GoodLayout(list.layout) /\ IsList(list.layout)
  BY DEF ReadsList
<1>2. ReadFits(m, p, list.layout)
  BY <1>1, ShimsFit DEF ShimFits
<1>3. p \in Structures(m) /\ m \in {"NewPLC", "SetTraceVariablesList"}
  BY <1>1, <1>2 DEF ReadFits
<1>4. Pointers(shim, p) = Sets(p, Bytes(list.layout.head)) \cup (IF IsList(list.layout) THEN {Elements(p)} ELSE {})
  BY <1>1, PointersOf
<1>5. ElementPointers(shim, p, n) = SetsEach(p, n, Bytes(list.layout.each))
  BY <1>1, PointersOf
<1>6. IsSeq(body) /\ Range(body) = {At(p, k, leaf) : k \in 1 .. n, leaf \in Range(list.layout.each)} /\ Plain(body)
  BY <1>1, BodyElements, BodyPlain DEF GoodLayout
<1>7. ASSUME NEW l \in Range(body)
      PROVE  Fit(m, l)
  <2>1. PICK k \in 1 .. n, leaf \in Range(list.layout.each) : l = At(p, k, leaf)
    BY <1>6
  <2>2. l.path[2] = k /\ k # 0 /\ l.type = leaf.type
    BY <2>1 DEF At
  <2>3. \A r : Self(r)[2] = 0 /\ Elements(r)[2] = 0
    BY DEF Self, Elements
  <2>4. leaf.type \in {"string", "binary"} => Sure(m)
    BY <1>2 DEF ReadFits
  <2> QED
    BY <2>2, <2>3, <2>4 DEF Fit
<1>8. ASSUME NEW q \in ElementPointers(shim, p, n)
      PROVE  \E l \in Range(body) : q = l.path
  <2>1. PICK k \in 1 .. n, f \in Bytes(list.layout.each) : q = <<p, k, f>>
    BY <1>5 DEF SetsEach
  <2>2. PICK leaf \in Range(list.layout.each) : leaf.member = f
    BY DEF Bytes
  <2>3. At(p, k, leaf) \in Range(body)
    BY <1>6
  <2>4. At(p, k, leaf).path = q
    BY <2>1, <2>2 DEF At
  <2> QED
    BY <2>3, <2>4
<1> QED
  BY <1>1, <1>3, <1>4, <1>6, <1>7, <1>8

\* The elements of a list are allocated.
LEMMA ListRead ==
    ASSUME NEW m \in Methods, NEW me, NEW co, NEW leaves, NEW st, Reading(m, me, co, leaves, st),
           leaves # <<>>, Head(leaves).type = "list", NEW p, p = Head(leaves).path[1], NEW n \in Nat,
           NEW param, param = (CHOOSE q \in Range(Reads(m)) : q.name = p), NEW me2, NEW co2,
           me2 = Over([q \in {Elements(p)} |-> "live"], Over(Unset(ElementPointers(handleInvocation[m], p, n)), me)),
           co2 = Over([q \in {p} |-> n], co), NEW st2, st2 # "ok" => Results(m) = {}
    PROVE  Reading(m, me2, co2, Tail(Leaves(param, n)) \o Tail(leaves), st2)
<1> PICK shim : shim = handleInvocation[m]
  OBVIOUS
<1> PICK list : /\ ReadsList(m, list) /\ Head(leaves) = ListLeaf(list.name)
                /\ Tail(leaves) = <<>> /\ Tail(Leaves(list, n)) \o Tail(leaves) = Body(list, n)
  <2>1. PICK rest : Ahead(leaves, rest, m, n)
    BY DEF Reading, Orderly
  <2>2. \E list : /\ ReadsList(m, list) /\ Head(leaves) = ListLeaf(list.name)
                  /\ rest # <<>> /\ Head(rest) = Head(leaves)
                  /\ Tail(leaves) = <<>> /\ Tail(rest) = Body(list, n)
                  /\ Tail(Leaves(list, n)) \o Tail(leaves) = Tail(rest)
                  /\ Ahead(Tail(rest), Tail(rest), m, n)
    BY <2>1, AheadList
  <2> QED
    BY <2>2
<1> PICK body : body = Body(list, n)
  OBVIOUS
<1>1. p = list.name
  BY DEF ListLeaf, Elements
<1>2. param = list
  <2>1. list \in Range(Reads(m)) /\ \A q \in Range(Reads(m)) : q.name = list.name => q = list
    BY DEF ReadsList
  <2> QED
    BY <1>1, <2>1
<1>3. /\ p \in Structures(m) /\ Elements(p) \in Pointers(shim, p)
      /\ IsSeq(body) /\ Plain(body) /\ \A l \in Range(body) : Fit(m, l)
      /\ \A q \in ElementPointers(shim, p, n) : \E l \in Range(body) : q = l.path
  <2> PICK r : r = list.name
    OBVIOUS
  <2>1. /\ r \in Structures(m) /\ Elements(r) \in Pointers(shim, r)
        /\ IsSeq(body) /\ Plain(body) /\ \A l \in Range(body) : Fit(m, l)
    BY ListFits
  <2>2. \A q \in ElementPointers(handleInvocation[m], list.name, n) : \E l \in Range(Body(list, n)) : q = l.path
    BY ListFits, Zenon
  <2> QED
    BY <1>1, <2>1, <2>2
<1>4. Head(leaves) \in Range(leaves) /\ Range(leaves) = {Head(leaves)} \cup Range(Tail(leaves)) /\ Range(Tail(leaves)) = {}
  BY ZenonT(40), OrderlySeq, TailOf, Tuples DEF Reading
<1>5. me[Self(p)] # "null" /\ DOMAIN co = {}
  BY <1>1, <1>3, <1>4 DEF Reading
<1> PICK eps : eps = ElementPointers(shim, p, n)
  OBVIOUS
<1>6. /\ DOMAIN me2 = {Elements(p)} \cup eps \cup DOMAIN me
      /\ me2[Elements(p)] = "live"
      /\ \A q \in eps : q # Elements(p) => me2[q] = "unset"
      /\ \A q \in DOMAIN me : q # Elements(p) /\ q \notin eps => me2[q] = me[q]
  <2> PICK a : a = [q \in {Elements(p)} |-> "live"]
    OBVIOUS
  <2> PICK b : b = Over(Unset(eps), me)
    OBVIOUS
  <2>1. DOMAIN Unset(eps) = eps /\ \A q \in eps : Unset(eps)[q] = "unset"
    BY DEF Unset
  <2>2. DOMAIN b = eps \cup DOMAIN me /\ (\A q \in eps : b[q] = "unset") /\ \A q \in DOMAIN me : q \notin eps => b[q] = me[q]
    <3>1. /\ DOMAIN Over(Unset(eps), me) = DOMAIN Unset(eps) \cup DOMAIN me
          /\ \A q \in DOMAIN Unset(eps) : Over(Unset(eps), me)[q] = Unset(eps)[q]
          /\ \A q \in DOMAIN me : q \notin DOMAIN Unset(eps) => Over(Unset(eps), me)[q] = me[q]
      BY ONLY OverAt
    <3>2. b = Over(Unset(eps), me)
      OBVIOUS
    <3> QED
      BY ONLY <2>1, <3>1, <3>2
  <2>3. /\ DOMAIN Over(a, b) = DOMAIN a \cup DOMAIN b
        /\ \A q \in DOMAIN a : Over(a, b)[q] = a[q]
        /\ \A q \in DOMAIN b : q \notin DOMAIN a => Over(a, b)[q] = b[q]
    BY ONLY OverAt
  <2>4. me2 = Over(a, b) /\ DOMAIN a = {Elements(p)} /\ a[Elements(p)] = "live"
    OBVIOUS
  <2> QED
    BY ONLY <2>2, <2>3, <2>4
<1>7. DOMAIN co2 = {p} /\ co2[p] = n
  <2>1. DOMAIN [q \in {p} |-> n] = {p} /\ [q \in {p} |-> n][p] = n
    OBVIOUS
  <2>2. /\ DOMAIN Over([q \in {p} |-> n], co) = DOMAIN [q \in {p} |-> n] \cup DOMAIN co
        /\ \A r \in DOMAIN [q \in {p} |-> n] : Over([q \in {p} |-> n], co)[r] = [q \in {p} |-> n][r]
    BY ONLY OverAt
  <2> QED
    BY <1>5, <2>1, <2>2
<1>8. \A q \in eps : q[1] = p /\ q # Self(p) /\ q # Elements(p)
  BY ElementPathsOf
<1>9. ASSUME NEW r \in Owned(m)
      PROVE  Self(r) \in DOMAIN me /\ me2[Self(r)] = me[Self(r)]
  <2>1. Self(r) \in DOMAIN me
    BY DEF Reading, Blocks
  <2>2. Self(r) # Elements(p) /\ Self(r) \notin eps
    BY <1>8, SelfOf, SelfApart
  <2> QED
    BY <1>6, <2>1, <2>2
<1>10. \A r \in Owned(m) : r # p => Block(m, r, me2, co2) = Block(m, r, me, co)
  BY <1>5, <1>7, <1>9 DEF Block
<1>11. Block(m, p, me2, co2) = {Self(p)} \cup Pointers(shim, p) \cup eps /\ Block(m, p, me, co) = {Self(p)} \cup Pointers(shim, p)
  <2>1. me2[Self(p)] # "null"
    BY <1>3, <1>5, <1>9 DEF Owned
  <2> QED
    BY <1>5, <1>7, <2>1 DEF Block
<1>12. Blocks(m, Owned(m), me2, co2)
  <2>1. Blocks(m, Owned(m), me, co)
    BY DEF Reading
  <2>2. ASSUME NEW r \in Owned(m)
        PROVE  Self(r) \in DOMAIN me2 /\ Block(m, r, me2, co2) \subseteq DOMAIN me2
    <3>1. Self(r) \in DOMAIN me /\ Block(m, r, me, co) \subseteq DOMAIN me
      BY <2>1 DEF Blocks
    <3> QED
      BY <1>6, <1>10, <1>11, <3>1
  <2>3. ASSUME NEW q \in DOMAIN me2, q[1] # "extra_files_blob"
        PROVE  \E r \in Owned(m) : q \in Block(m, r, me2, co2)
    <3>1. CASE q \in DOMAIN me
      <4>1. PICK r \in Owned(m) : q \in Block(m, r, me, co)
        BY <2>1, <2>3, <3>1 DEF Blocks
      <4> QED
        BY <1>10, <1>11, <4>1
    <3>2. CASE q = Elements(p) \/ q \in eps
      BY <1>3, <1>11, <3>2 DEF Owned
    <3> QED
      BY <1>6, <3>1, <3>2
  <2> QED
    BY SMTT(30), <2>2, <2>3 DEF Blocks
<1>13. Counted(m, Owned(m), me2, co2)
  <2>1. ASSUME NEW r \in Owned(m), me2[Self(r)] # "null", Elements(r) \in Pointers(shim, r), me2[Elements(r)] # "unset", r # p
        PROVE  FALSE
    <3>1. me[Self(r)] # "null"
      BY <1>9, <2>1
    <3>2. Elements(r) \in DOMAIN me
      <4>1. Elements(r) \in Block(m, r, me, co)
        BY <2>1, <3>1 DEF Block
      <4> QED
        BY <4>1 DEF Reading, Blocks
    <3>3. Elements(r) # Elements(p) /\ Elements(r) \notin eps
      BY <1>8, <2>1, SelfOf, SelfApart
    <3>4. me[Elements(r)] # "unset"
      BY <1>6, <2>1, <3>2, <3>3
    <3>5. r \in DOMAIN co
      BY <2>1, <3>1, <3>4 DEF Reading, Counted
    <3> QED
      BY <1>5, <3>5
  <2> QED
    BY <1>7, <2>1 DEF Counted
<1>14. AllSet(me2, {l.path : l \in Range(body)})
  <2>1. ASSUME NEW q \in DOMAIN me2, me2[q] = "unset", q \notin eps
        PROVE  FALSE
    <3>1. q # Elements(p) /\ q \in DOMAIN me /\ me[q] = "unset"
      BY <1>6, <2>1
    <3>2. q \in {l.path : l \in Range(leaves)}
      BY <3>1 DEF Reading, AllSet
    <3>3. Head(leaves).path = Elements(p)
      BY <1>1 DEF ListLeaf
    <3> QED
      BY <1>4, <3>1, <3>2, <3>3
  <2> QED
    BY <1>3, <2>1 DEF AllSet
<1>15. Orderly(m, body)
  BY <1>3 DEF Orderly, Ahead
<1>16. \A r \in Structures(m) : ListLeaf(r) \notin Range(body)
  BY <1>3 DEF Plain, ListLeaf
<1>17. DOMAIN co2 \subseteq Owned(m)
  BY <1>3, <1>7 DEF Owned
<1>18. Reading(m, me2, co2, body, st2)
  BY <1>3, <1>12, <1>13, <1>14, <1>15, <1>16, <1>17 DEF Reading
<1>19. Tail(Leaves(param, n)) \o Tail(leaves) = body
  BY <1>2
<1> QED
  BY <1>18, <1>19

\* The structs of the results are allocated: their pointers are not set yet.
LEMMA ResultsAllocated ==
    ASSUME NEW m \in Methods, NEW me, NEW co, NEW st, Reading(m, me, co, <<>>, st),
           NEW failed, failed = {} \/ failed = Results(m),
           NEW me2, me2 = Over(Structs(handleInvocation[m], Results(m), failed), me)
    PROVE  /\ Using(m, me2, co, IF failed = {} THEN ResultPointers(m) ELSE {})
           /\ Results(m) = {} => Using(m, me2, co, {})
           /\ failed = {} => Untouched(m, me2, co)
<1> PICK shim : shim = handleInvocation[m]
  OBVIOUS
<1> PICK new : new = Structs(shim, Results(m), failed)
  OBVIOUS
<1>1. failed \in SUBSET Results(m)
  OBVIOUS
<1>2. /\ \A p \in Results(m) : Self(p) \in DOMAIN new /\ new[Self(p)] = IF p \in failed THEN "null" ELSE "live"
      /\ \A p \in Results(m) \ failed : Pointers(shim, p) \subseteq DOMAIN new
      /\ \A q \in DOMAIN new : \/ \E p \in Results(m) : q = Self(p)
                               \/ new[q] = "unset" /\ \E p \in Results(m) \ failed : q \in Pointers(shim, p)
  BY <1>1, StructsAt
<1>3. DOMAIN me2 = DOMAIN new \cup DOMAIN me /\ (\A q \in DOMAIN new : me2[q] = new[q])
      /\ \A q \in DOMAIN me : q \notin DOMAIN new => me2[q] = me[q]
  <2>1. /\ DOMAIN Over(new, me) = DOMAIN new \cup DOMAIN me
        /\ \A q \in DOMAIN new : Over(new, me)[q] = new[q]
        /\ \A q \in DOMAIN me : q \notin DOMAIN new => Over(new, me)[q] = me[q]
    BY ONLY OverAt
  <2>2. me2 = Over(new, me)
    OBVIOUS
  <2> QED
    BY ONLY <2>1, <2>2
<1>4. Owned(m) \cap Results(m) = {} /\ DOMAIN co \subseteq Owned(m) /\ Blocks(m, Owned(m), me, co)
      /\ Counted(m, Owned(m), me, co)
  BY ShimsFit DEF ShimFits, Reading
<1>5. \A q \in DOMAIN new : q[1] \in Results(m)
  <2>1. ASSUME NEW p \in Results(m), NEW q \in Pointers(shim, p)
        PROVE  q[1] \in Results(m)
    <3>1. q[1] = p
      BY PathsOf
    <3> QED
      BY <3>1
  <2>2. \A p \in Results(m) : Self(p)[1] \in Results(m)
    BY SelfOf
  <2> QED
    BY <1>2, <2>1, <2>2
<1>6. ASSUME NEW p \in Owned(m)
      PROVE  /\ Self(p) \in DOMAIN me /\ me2[Self(p)] = me[Self(p)]
             /\ Block(m, p, me, co) \subseteq DOMAIN me /\ Block(m, p, me2, co) = Block(m, p, me, co)
             /\ Elements(p) \in DOMAIN me => me2[Elements(p)] = me[Elements(p)]
  <2>1. Self(p) \in DOMAIN me /\ Block(m, p, me, co) \subseteq DOMAIN me
    BY <1>4 DEF Blocks
  <2>2. Self(p) \notin DOMAIN new /\ Elements(p) \notin DOMAIN new
    BY <1>4, <1>5, SelfOf
  <2>3. me2[Self(p)] = me[Self(p)] /\ (Elements(p) \in DOMAIN me => me2[Elements(p)] = me[Elements(p)])
    BY <1>3, <2>1, <2>2
  <2> QED
    BY <2>1, <2>3 DEF Block
<1>7. ASSUME NEW p \in Results(m)
      PROVE  Block(m, p, me2, co) = IF failed = {} THEN {Self(p)} \cup Pointers(shim, p) ELSE {Self(p)}
  <2>1. p \notin DOMAIN co
    BY <1>4
  <2>2. me2[Self(p)] = IF failed = {} THEN "live" ELSE "null"
    BY <1>2, <1>3
  <2> QED
    BY <2>1, <2>2 DEF Block
<1>8. Blocks(m, Owned(m) \cup Results(m), me2, co)
  <2>1. ASSUME NEW p \in Owned(m) \cup Results(m)
        PROVE  Self(p) \in DOMAIN me2 /\ Block(m, p, me2, co) \subseteq DOMAIN me2
    <3>1. CASE p \in Owned(m)
      BY <1>3, <1>6, <3>1
    <3>2. CASE p \in Results(m)
      <4>1. Self(p) \in DOMAIN new
        BY <1>2, <3>2
      <4>2. failed = {} => Pointers(shim, p) \subseteq DOMAIN new
        BY <1>2, <3>2
      <4>3. CASE failed = {}
        BY <1>3, <1>7, <3>2, <4>1, <4>2, <4>3
      <4>4. CASE failed # {}
        BY <1>3, <1>7, <3>2, <4>1, <4>4
      <4> QED
        BY <4>3, <4>4
    <3> QED
      BY <3>1, <3>2
  <2>2. ASSUME NEW q \in DOMAIN me2, q[1] # "extra_files_blob"
        PROVE  \E p \in Owned(m) \cup Results(m) : q \in Block(m, p, me2, co)
    <3>1. CASE q \in DOMAIN new
      <4>1. CASE \E p \in Results(m) : q = Self(p)
        BY <1>7, <4>1
      <4>2. CASE \E p \in Results(m) \ failed : q \in Pointers(shim, p)
        BY <1>7, <4>2
      <4> QED
        BY <1>2, <3>1, <4>1, <4>2
    <3>2. CASE q \in DOMAIN me
      <4>1. PICK p \in Owned(m) : q \in Block(m, p, me, co)
        BY <1>4, <2>2, <3>2 DEF Blocks
      <4> QED
        BY <1>6, <4>1
    <3> QED
      BY <1>3, <3>1, <3>2
  <2> QED
    BY <2>1, <2>2 DEF Blocks
<1>9. Counted(m, Owned(m) \cup Results(m), me2, co)
  <2>1. ASSUME NEW p \in Owned(m), me2[Self(p)] # "null", Elements(p) \in Pointers(shim, p), me2[Elements(p)] # "unset"
        PROVE  p \in DOMAIN co
    <3>1. Elements(p) \in Block(m, p, me, co) /\ me[Self(p)] # "null"
      BY <1>6, <2>1 DEF Block
    <3>2. me[Elements(p)] # "unset"
      BY <1>6, <2>1, <3>1
    <3> QED
      BY <1>4, <2>1, <3>1, <3>2 DEF Counted
  <2>2. ASSUME NEW p \in Results(m), me2[Self(p)] # "null", Elements(p) \in Pointers(shim, p)
        PROVE  me2[Elements(p)] = "unset"
    <3>1. failed = {}
      BY <1>2, <1>3, <2>2
    <3>2. Elements(p) \in DOMAIN new
      BY <1>2, <2>2, <3>1
    <3>3. \A r : Elements(p) # Self(r)
      BY SelfApart
    <3>4. new[Elements(p)] = "unset"
      BY <1>2, <3>2, <3>3
    <3> QED
      BY <1>3, <3>2, <3>4
  <2> QED
    BY <2>1, <2>2 DEF Counted
<1>10. ASSUME NEW q \in DOMAIN me2, me2[q] = "unset"
       PROVE  failed = {} /\ q \in ResultPointers(m) /\ Results(m) # {}
  <2>1. q \in DOMAIN new
    <3>1. ASSUME q \notin DOMAIN new
          PROVE  FALSE
      <4>1. q \in DOMAIN me /\ me[q] = "unset"
        BY <1>3, <1>10, <3>1
      <4>2. q \in {l.path : l \in Range(<<>>)}
        BY <4>1 DEF Reading, AllSet
      <4> QED
        BY <4>2, Tuples
    <3> QED
      BY <3>1
  <2>2. new[q] = "unset"
    BY <1>3, <1>10, <2>1
  <2>3. \A p \in Results(m) : q # Self(p)
    BY <1>2, <2>2
  <2>4. PICK p \in Results(m) \ failed : q \in Pointers(shim, p)
    BY <1>2, <2>1, <2>3
  <2> QED
    BY <2>4 DEF ResultPointers
<1>11. AllSet(me2, IF failed = {} THEN ResultPointers(m) ELSE {}) /\ (Results(m) = {} => AllSet(me2, {}))
  BY <1>10 DEF AllSet
<1>12. failed = {} => Untouched(m, me2, co)
  BY <1>2, <1>3, <1>4 DEF Untouched
<1> QED
  BY <1>8, <1>9, <1>11, <1>12 DEF Using

\* The handler sets what set has, the pointers of the results and of n elements among it.
LEMMA Handled ==
    ASSUME NEW m \in Methods, NEW me, NEW co, Using(m, me, co, ResultPointers(m)), Untouched(m, me, co), NEW n \in Nat, NEW set,
           \A p \in Results(m) : Pointers(handleInvocation[m], p) \subseteq set,
           NEW points, points = UNION {Pointers(handleInvocation[m], p) \cup ElementPointers(handleInvocation[m], p, n) : p \in Results(m)},
           \A q \in set : q[3] = "elements" => q[1] \in Results(m),
           NEW lost, \A q \in DOMAIN lost : q[1] = "extra_files_blob" /\ lost[q] = "live",
           NEW me2, me2 = Over([q \in points |-> "live"], Over(lost, me)),
           NEW co2, co2 = Over([p \in {q[1] : q \in {q \in set : q[3] = "elements"}} |-> n], co)
    PROVE  Using(m, me2, co2, {})
<1> PICK shim : shim = handleInvocation[m]
  OBVIOUS
<1> PICK listed : listed = {q[1] : q \in {q \in set : q[3] = "elements"}}
  OBVIOUS
<1>1. Owned(m) \cap Results(m) = {} /\ "extra_files_blob" \notin Owned(m) \cup Results(m)
  BY ShimsFit DEF ShimFits
<1>2. /\ Blocks(m, Owned(m) \cup Results(m), me, co) /\ Counted(m, Owned(m) \cup Results(m), me, co)
      /\ AllSet(me, ResultPointers(m))
      /\ DOMAIN co \cap Results(m) = {} /\ \A p \in Results(m) : me[Self(p)] # "null"
  BY DEF Using, Untouched
<1>3. \A q : q \in points <=> \E p \in Results(m) : q \in Pointers(shim, p) \/ q \in ElementPointers(shim, p, n)
  OBVIOUS
<1>4. \A q \in points : q[1] \in Results(m)
  <2>1. ASSUME NEW p \in Results(m), NEW q \in Pointers(shim, p)
        PROVE  q[1] \in Results(m)
    <3>1. q[1] = p
      BY PathsOf
    <3> QED
      BY <3>1
  <2>2. ASSUME NEW p \in Results(m), NEW q \in ElementPointers(shim, p, n)
        PROVE  q[1] \in Results(m)
    <3>1. q[1] = p
      BY ElementPathsOf
    <3> QED
      BY <3>1
  <2> QED
    BY <1>3, <2>1, <2>2
<1>5. /\ DOMAIN me2 = points \cup DOMAIN lost \cup DOMAIN me
      /\ \A q \in points : me2[q] = "live"
      /\ \A q \in DOMAIN lost : q \notin points => me2[q] = "live"
      /\ \A q \in DOMAIN me : q \notin points /\ q \notin DOMAIN lost => me2[q] = me[q]
  <2> PICK a : a = [q \in points |-> "live"]
    OBVIOUS
  <2> PICK b : b = Over(lost, me)
    OBVIOUS
  <2>1. /\ DOMAIN Over(lost, me) = DOMAIN lost \cup DOMAIN me
        /\ \A q \in DOMAIN lost : Over(lost, me)[q] = lost[q]
        /\ \A q \in DOMAIN me : q \notin DOMAIN lost => Over(lost, me)[q] = me[q]
    BY ONLY OverAt
  <2>2. /\ DOMAIN Over(a, b) = DOMAIN a \cup DOMAIN b
        /\ \A q \in DOMAIN a : Over(a, b)[q] = a[q]
        /\ \A q \in DOMAIN b : q \notin DOMAIN a => Over(a, b)[q] = b[q]
    BY ONLY OverAt
  <2>3. me2 = Over(a, b) /\ DOMAIN a = points /\ \A q \in points : a[q] = "live"
    OBVIOUS
  <2>4. b = Over(lost, me) /\ \A q \in DOMAIN lost : lost[q] = "live"
    OBVIOUS
  <2>5. DOMAIN b = DOMAIN lost \cup DOMAIN me /\ (\A q \in DOMAIN lost : b[q] = "live")
        /\ \A q \in DOMAIN me : q \notin DOMAIN lost => b[q] = me[q]
    BY ONLY <2>1, <2>4
  <2> QED
    BY ONLY <2>2, <2>3, <2>5
<1>6. DOMAIN co2 = listed \cup DOMAIN co /\ (\A p \in listed : co2[p] = n)
      /\ \A p \in DOMAIN co : p \notin listed => co2[p] = co[p]
  <2> PICK a : a = [p \in listed |-> n]
    OBVIOUS
  <2>1. /\ DOMAIN Over(a, co) = DOMAIN a \cup DOMAIN co
        /\ \A q \in DOMAIN a : Over(a, co)[q] = a[q]
        /\ \A q \in DOMAIN co : q \notin DOMAIN a => Over(a, co)[q] = co[q]
    BY ONLY OverAt
  <2>2. co2 = Over(a, co) /\ DOMAIN a = listed /\ \A p \in listed : a[p] = n
    OBVIOUS
  <2> QED
    BY ONLY <2>1, <2>2
<1>7. listed \subseteq Results(m)
  OBVIOUS
<1>8. \A p \in Results(m) : Elements(p) \in Pointers(shim, p) => p \in listed
  <2>1. ASSUME NEW p \in Results(m), Elements(p) \in Pointers(shim, p)
        PROVE  p \in listed
    <3>1. Elements(p) \in set /\ Elements(p)[1] = p
      BY <2>1, SelfOf
    <3>2. Elements(p)[3] = "elements"
      BY DEF Elements
    <3> QED
      BY <3>1, <3>2
  <2> QED
    BY <2>1
<1>9. ASSUME NEW p \in Owned(m)
      PROVE  /\ Self(p) \in DOMAIN me /\ me2[Self(p)] = me[Self(p)]
             /\ Block(m, p, me, co) \subseteq DOMAIN me /\ Block(m, p, me2, co2) = Block(m, p, me, co)
             /\ Elements(p) \in DOMAIN me => me2[Elements(p)] = me[Elements(p)]
  <2>1. Self(p) \in DOMAIN me /\ Block(m, p, me, co) \subseteq DOMAIN me
    BY <1>2 DEF Blocks
  <2>2. \A q : q[1] = p => q \notin points /\ q \notin DOMAIN lost
    BY <1>1, <1>4
  <2>3. me2[Self(p)] = me[Self(p)] /\ (Elements(p) \in DOMAIN me => me2[Elements(p)] = me[Elements(p)])
    BY <1>5, <2>1, <2>2, SelfOf
  <2>4. p \notin listed
    BY <1>1, <1>7
  <2>5. (p \in DOMAIN co2 <=> p \in DOMAIN co) /\ (p \in DOMAIN co => co2[p] = co[p])
    BY <1>6, <2>4
  <2>6. Block(m, p, me2, co2) = Block(m, p, me, co)
    BY <2>3, <2>5 DEF Block
  <2> QED
    BY <2>1, <2>3, <2>6
<1>10. ASSUME NEW p \in Results(m)
       PROVE  /\ Self(p) \in DOMAIN me2
              /\ Block(m, p, me, co) = {Self(p)} \cup Pointers(shim, p)
              /\ Block(m, p, me2, co2) = {Self(p)} \cup Pointers(shim, p) \cup ElementPointers(shim, p, n)
  <2>1. p \notin DOMAIN co /\ me[Self(p)] # "null" /\ Self(p) \in DOMAIN me
    BY <1>2 DEF Blocks
  <2>2. Self(p) \notin DOMAIN lost
    BY <1>1, SelfOf
  <2>3. me2[Self(p)] # "null"
    BY <1>5, <2>1, <2>2
  <2>4. Block(m, p, me, co) = {Self(p)} \cup Pointers(shim, p)
    BY <2>1 DEF Block
  <2>5. CASE p \in listed
    <3>1. p \in DOMAIN co2 /\ co2[p] = n
      BY <1>6, <2>5
    <3> QED
      BY <1>5, <2>1, <2>3, <2>4, <3>1 DEF Block
  <2>6. CASE p \notin listed
    <3>1. p \notin DOMAIN co2
      BY <1>6, <2>1, <2>6
    <3>2. Elements(p) \notin Pointers(shim, p)
      BY <1>8, <2>6
    <3>3. ElementPointers(shim, p, n) = {}
      BY <3>2, NoElements
    <3> QED
      BY <1>5, <2>1, <2>3, <2>4, <3>1, <3>3 DEF Block
  <2> QED
    BY <2>5, <2>6
<1>11. Blocks(m, Owned(m) \cup Results(m), me2, co2)
  <2>1. ASSUME NEW p \in Owned(m) \cup Results(m)
        PROVE  Self(p) \in DOMAIN me2 /\ Block(m, p, me2, co2) \subseteq DOMAIN me2
    <3>1. CASE p \in Owned(m)
      BY <1>5, <1>9, <3>1
    <3>2. CASE p \in Results(m)
      BY <1>3, <1>5, <1>10, <3>2
    <3> QED
      BY <3>1, <3>2
  <2>2. ASSUME NEW q \in DOMAIN me2, q[1] # "extra_files_blob"
        PROVE  \E p \in Owned(m) \cup Results(m) : q \in Block(m, p, me2, co2)
    <3>1. CASE q \in points
      BY <1>3, <1>10, <3>1
    <3>2. CASE q \in DOMAIN me
      <4>1. PICK p \in Owned(m) \cup Results(m) : q \in Block(m, p, me, co)
        BY <1>2, <2>2, <3>2 DEF Blocks
      <4>2. CASE p \in Owned(m)
        BY <1>9, <4>1, <4>2
      <4>3. CASE p \in Results(m)
        BY <1>10, <4>1, <4>3
      <4> QED
        BY <4>2, <4>3
    <3> QED
      BY <1>5, <2>2, <3>1, <3>2
  <2> QED
    BY <2>1, <2>2 DEF Blocks
<1>12. Counted(m, Owned(m) \cup Results(m), me2, co2)
  <2>1. ASSUME NEW p \in Owned(m), me2[Self(p)] # "null", Elements(p) \in Pointers(shim, p), me2[Elements(p)] # "unset"
        PROVE  p \in DOMAIN co2
    <3>1. Elements(p) \in Block(m, p, me, co) /\ me[Self(p)] # "null"
      BY <1>9, <2>1 DEF Block
    <3>2. me[Elements(p)] # "unset"
      BY <1>9, <2>1, <3>1
    <3>3. p \in DOMAIN co
      BY <1>2, <2>1, <3>1, <3>2 DEF Counted
    <3> QED
      BY <1>6, <3>3
  <2>2. ASSUME NEW p \in Results(m), Elements(p) \in Pointers(shim, p)
        PROVE  p \in DOMAIN co2
    BY <1>6, <1>8, <2>2
  <2> QED
    BY <2>1, <2>2 DEF Counted
<1>13. ASSUME NEW q \in DOMAIN me2, me2[q] = "unset"
       PROVE  FALSE
  <2>1. q \notin points /\ q \in DOMAIN me /\ me[q] = "unset"
    BY <1>5, <1>13
  <2>2. q \in ResultPointers(m)
    BY <1>2, <2>1 DEF AllSet
  <2> QED
    BY <1>3, <2>1, <2>2 DEF ResultPointers
<1> QED
  BY <1>11, <1>12, <1>13 DEF Using, AllSet

\* The parameters that are read after structs could not be allocated.
LEMMA ReadableAt ==
    ASSUME NEW params, AreParams(params), NEW failed, NEW ps, ps = Readable(params, failed)
    PROVE  /\ IsSeq(ps) /\ DOMAIN ps = DOMAIN params /\ Len(ps) = Len(params)
           /\ \A i \in DOMAIN params : params[i].name \notin failed => ps[i] = params[i]
           /\ \A i \in DOMAIN params : params[i].name \in failed => ps[i] = Param(params[i].name, Struct(<<>>))
<1>1. PICK n \in Nat : DOMAIN params = 1 .. n /\ Len(params) = n
  BY SeqIs DEF AreParams
<1>2. ps = [i \in 1 .. n |-> IF params[i].name \in failed THEN Param(params[i].name, Struct(<<>>)) ELSE params[i]]
  BY <1>1 DEF Readable
<1>3. ps = [i \in 1 .. n |-> ps[i]]
  BY <1>2
<1>4. IsSeq(ps) /\ Len(ps) = n /\ DOMAIN ps = 1 .. n
  BY <1>3, FunctionIsSeq
<1> QED
  BY <1>1, <1>2, <1>4

LEMMA EmptyLayout ==
    /\ \A p : Param(p, Struct(<<>>)).layout = Struct(<<>>)
    /\ Struct(<<>>).head = <<>> /\ ~IsList(Struct(<<>>)) /\ IsLayout(Struct(<<>>)) /\ NoListType(Struct(<<>>))
<1>1. \A p : Param(p, Struct(<<>>)).layout = Struct(<<>>)
  BY DEF Param
<1>2. Struct(<<>>).head = <<>> /\ Struct(<<>>).each = <<>>
  BY DEF Struct
<1> QED
  BY <1>1, <1>2, Tuples DEF IsList, IsLayout, NoListType

LEMMA ReadableGood ==
    ASSUME NEW m, NEW params, GoodParams(params), EndsInList(m, params), NEW failed, NEW ps, ps = Readable(params, failed)
    PROVE  GoodParams(ps) /\ EndsInList(m, ps)
<1>1. /\ IsSeq(ps) /\ DOMAIN ps = DOMAIN params /\ Len(ps) = Len(params)
      /\ \A i \in DOMAIN params : params[i].name \notin failed => ps[i] = params[i]
      /\ \A i \in DOMAIN params : params[i].name \in failed => ps[i] = Param(params[i].name, Struct(<<>>))
  BY ReadableAt DEF GoodParams
<1>2. \A i \in DOMAIN ps : IsLayout(ps[i].layout) /\ NoListType(ps[i].layout)
  BY <1>1, EmptyLayout DEF GoodParams, AreParams
<1>3. \A i \in DOMAIN ps : IsList(ps[i].layout) => ps[i] = params[i]
  BY <1>1, EmptyLayout
<1>4. ListLast(ps)
  BY <1>1, <1>3 DEF GoodParams, ListLast
<1>5. GoodParams(ps)
  BY <1>1, <1>2, <1>4 DEF GoodParams, AreParams
<1>6. EndsInList(m, ps)
  <2>1. CASE \A i \in DOMAIN ps : ~IsList(ps[i].layout)
    BY <2>1 DEF EndsInList
  <2>2. ASSUME NEW i \in DOMAIN ps, IsList(ps[i].layout)
        PROVE  EndsInList(m, ps)
    <3>1. ps[i] = params[i] /\ i = Len(ps) /\ i \in DOMAIN params /\ Len(params) = Len(ps)
      BY <1>1, <1>3, <1>4, <2>2 DEF ListLast
    <3>2. ReadsList(m, params[Len(params)])
      BY <2>2, <3>1 DEF EndsInList
    <3>3. ps # <<>>
      BY <2>2, Tuples
    <3> QED
      BY <3>1, <3>2, <3>3 DEF EndsInList
  <2> QED
    BY <2>1, <2>2
<1> QED
  BY <1>5, <1>6

LEMMA PathsSame ==
    ASSUME NEW p, NEW r, NEW f, NEW g, <<p, 0, f>> = <<r, 0, g>>
    PROVE  p = r /\ f = g
OBVIOUS

\* The request of a call is about to be read.
LEMMA Received ==
    ASSUME NEW m \in Methods, NEW failed \in SUBSET Structures(m), NEW strings, strings = {p \in Range(Reads(m)) : p.layout = Scalar("string")},
           NEW me, me = Over([q \in {Self(p.name) : p \in strings} |-> "null"], Structs(handleInvocation[m], Structures(m), failed)),
           NEW st, st # "ok" => Results(m) = {}
    PROVE  Reading(m, me, <<>>, AllLeaves(Readable(Reads(m), failed), 0), st)
<1> PICK shim : shim = handleInvocation[m]
  OBVIOUS
<1> PICK new : new = Structs(shim, Structures(m), failed)
  OBVIOUS
<1> PICK params : params = Reads(m)
  OBVIOUS
<1> PICK ps : ps = Readable(params, failed)
  OBVIOUS
<1> PICK leaves : leaves = AllLeaves(ps, 0)
  OBVIOUS
<1>1. /\ \A p \in Structures(m) : Self(p) \in DOMAIN new /\ new[Self(p)] = IF p \in failed THEN "null" ELSE "live"
      /\ \A p \in Structures(m) \ failed : Pointers(shim, p) \subseteq DOMAIN new
      /\ \A q \in DOMAIN new : \/ \E p \in Structures(m) : q = Self(p)
                               \/ new[q] = "unset" /\ \E p \in Structures(m) \ failed : q \in Pointers(shim, p)
  BY StructsAt
<1> PICK nulls : nulls = {Self(p.name) : p \in strings}
  OBVIOUS
<1>2. \A q : q \in nulls <=> \E p \in Strings(m) : q = Self(p)
  BY DEF Strings
<1>3. DOMAIN me = nulls \cup DOMAIN new /\ (\A q \in nulls : me[q] = "null")
      /\ \A q \in DOMAIN new : q \notin nulls => me[q] = new[q]
  <2> PICK f : f = [q \in nulls |-> "null"]
    OBVIOUS
  <2>1. /\ DOMAIN Over(f, new) = DOMAIN f \cup DOMAIN new
        /\ \A q \in DOMAIN f : Over(f, new)[q] = f[q]
        /\ \A q \in DOMAIN new : q \notin DOMAIN f => Over(f, new)[q] = new[q]
    BY ONLY OverAt
  <2>2. me = Over(f, new) /\ DOMAIN f = nulls /\ \A q \in nulls : f[q] = "null"
    OBVIOUS
  <2> QED
    BY ONLY <2>1, <2>2
<1>4. /\ Structures(m) \cap Strings(m) = {} /\ \A p \in Structures(m) : \E a \in Range(params) : a.name = p
      /\ \A a \in Range(params) : ReadFits(m, a.name, a.layout)
  BY ShimsFit DEF ShimFits
<1>5. \A p \in Structures(m) : Self(p) \notin nulls /\ Elements(p) \notin nulls
  BY <1>2, <1>4, SelfApart
<1>6. \A p \in Structures(m) : Self(p) \in DOMAIN me /\ me[Self(p)] = IF p \in failed THEN "null" ELSE "live"
  BY <1>1, <1>3, <1>5
<1>7. \A p \in Structures(m) : Block(m, p, me, <<>>) = IF p \in failed THEN {Self(p)} ELSE {Self(p)} \cup Pointers(shim, p)
  <2>1. DOMAIN <<>> = {}
    OBVIOUS
  <2> QED
    BY <1>6, <2>1 DEF Block
<1>8. Blocks(m, Owned(m), me, <<>>)
  <2>1. ASSUME NEW p \in Structures(m)
        PROVE  Block(m, p, me, <<>>) \subseteq DOMAIN me
    <3>1. CASE p \in failed
      BY <1>6, <1>7, <3>1
    <3>2. CASE p \notin failed
      <4>1. Pointers(shim, p) \subseteq DOMAIN me
        BY <1>1, <1>3, <3>2
      <4> QED
        BY <1>6, <1>7, <3>2, <4>1
    <3> QED
      BY <3>1, <3>2
  <2>2. ASSUME NEW p \in Strings(m)
        PROVE  Self(p) \in DOMAIN me /\ Block(m, p, me, <<>>) = {Self(p)}
    BY <1>2, <1>3, StringPointers
  <2>3. ASSUME NEW q \in DOMAIN me
        PROVE  \E p \in Owned(m) : q \in Block(m, p, me, <<>>)
    <3>1. CASE q \in nulls
      BY <1>2, <2>2, <3>1 DEF Owned
    <3>2. CASE q \in DOMAIN new
      BY <1>1, <1>7, <3>2 DEF Owned
    <3> QED
      BY <1>3, <3>1, <3>2
  <2> QED
    BY <1>6, <2>1, <2>2, <2>3 DEF Blocks, Owned
<1>9. Counted(m, Owned(m), me, <<>>)
  <2>1. ASSUME NEW p \in Structures(m), me[Self(p)] # "null", Elements(p) \in Pointers(shim, p)
        PROVE  me[Elements(p)] = "unset"
    <3>1. Elements(p) \in DOMAIN new
      BY <1>1, <1>6, <2>1
    <3>2. new[Elements(p)] = "unset"
      BY <1>1, <3>1, SelfApart
    <3> QED
      BY <1>3, <1>5, <3>1, <3>2
  <2>2. \A p \in Strings(m) : Elements(p) \notin Pointers(shim, p)
    BY StringPointers
  <2> QED
    BY <2>1, <2>2 DEF Counted, Owned
<1>10. GoodParams(params) /\ EndsInList(m, params)
  BY ReadsGood, ReadsEnd DEF Reads, ListsAtEnd
<1>11. GoodParams(ps) /\ EndsInList(m, ps)
  BY <1>10, ReadableGood
<1>12. /\ DOMAIN ps = DOMAIN params
       /\ \A i \in DOMAIN params : params[i].name \notin failed => ps[i] = params[i]
       /\ \A i \in DOMAIN params : params[i].name \in failed => ps[i] = Param(params[i].name, Struct(<<>>))
  BY <1>10, ReadableAt DEF GoodParams
<1>13. \A l : l \in Range(leaves) <=> \E i \in DOMAIN params : l \in LeafSet(ps[i], 0)
  <2>1. Range(AllLeaves(ps, 0)) = UNION {LeafSet(ps[i], 0) : i \in DOMAIN ps}
    BY <1>11, AllLeavesElements DEF GoodParams
  <2> QED
    BY <1>12, <2>1
<1>14. Orderly(m, leaves)
  BY <1>11, AheadStart DEF Orderly
<1>15. AllSet(me, {l.path : l \in Range(leaves)})
  <2>1. ASSUME NEW q \in DOMAIN me, me[q] = "unset"
        PROVE  \E l \in Range(leaves) : q = l.path
    <3>1. q \in DOMAIN new /\ new[q] = "unset"
      BY <1>3, <2>1
    <3>2. PICK p \in Structures(m) \ failed : q \in Pointers(shim, p)
      BY <1>1, <3>1
    <3>3. PICK a \in Range(params) : a.name = p
      BY <1>4, <3>2
    <3>4. \E l \in LeafSet(a, 0) : l.path = q
      BY <3>2, <3>3, PointersAreLeaves
    <3>5. PICK i \in DOMAIN params : a = params[i]
      BY DEF Range
    <3>6. ps[i] = a
      BY <1>12, <3>2, <3>3, <3>5
    <3> QED
      BY <1>13, <3>4, <3>5, <3>6
  <2> QED
    BY <2>1 DEF AllSet
\* A leaf that is read is the list of its parameter, or a member of its struct.
<1>16. ASSUME NEW l \in Range(leaves)
       PROVE  \E a \in Range(params) :
                 /\ a.name \notin failed
                 /\ \/ l = ListLeaf(a.name)
                    \/ \E leaf \in Range(a.layout.head) : l = At(a.name, 0, leaf)
  <2>1. PICK i \in DOMAIN params : l \in LeafSet(ps[i], 0)
    BY <1>13
  <2>2. \/ IsList(ps[i].layout) /\ l = ListLeaf(ps[i].name)
        \/ \E leaf \in Range(ps[i].layout.head) : l = At(ps[i].name, 0, leaf)
    BY <2>1 DEF LeafSet
  <2>3. ps[i] = params[i] /\ params[i].name \notin failed
    BY <1>12, <2>2, EmptyLayout, Tuples
  <2>4. params[i] \in Range(params)
    BY DEF Range
  <2> QED
    BY <2>2, <2>3, <2>4
<1>17. ASSUME NEW l \in Range(leaves)
       PROVE  Fit(m, l)
  <2>1. PICK a \in Range(params) : \/ l = ListLeaf(a.name)
                                   \/ \E leaf \in Range(a.layout.head) : l = At(a.name, 0, leaf)
    BY <1>16
  <2>2. CASE l = ListLeaf(a.name)
    BY <2>2 DEF Fit, ListLeaf
  <2>3. ASSUME NEW leaf \in Range(a.layout.head), l = At(a.name, 0, leaf)
        PROVE  Fit(m, l)
    <3>1. /\ leaf.member # "elements" /\ (leaf.member = "" => a.name \notin Structures(m))
          /\ leaf.type \in {"string", "binary"} => Sure(m)
      BY <1>4 DEF ReadFits
    <3>2. l.path = <<a.name, 0, leaf.member>> /\ l.type = leaf.type
      BY <2>3 DEF At
    <3>3. ASSUME NEW p \in Structures(m)
          PROVE  l.path # Self(p) /\ l.path # Elements(p)
      <4>1. Self(p) = <<p, 0, "">> /\ Elements(p) = <<p, 0, "elements">>
        BY DEF Self, Elements
      <4>2. ASSUME <<a.name, 0, leaf.member>> = <<p, 0, "">>
            PROVE  FALSE
        BY <3>1, <4>2, PathsSame
      <4>3. ASSUME <<a.name, 0, leaf.member>> = <<p, 0, "elements">>
            PROVE  FALSE
        BY <3>1, <4>3, PathsSame
      <4> QED
        BY <3>2, <4>1, <4>2, <4>3
    <3> QED
      BY <3>1, <3>2, <3>3 DEF Fit
  <2> QED
    BY <2>1, <2>2, <2>3
<1>18. ASSUME NEW p \in Structures(m), ListLeaf(p) \in Range(leaves)
       PROVE  me[Self(p)] # "null"
  <2>1. PICK a \in Range(params) : /\ a.name \notin failed
                                   /\ \/ ListLeaf(p) = ListLeaf(a.name)
                                      \/ \E leaf \in Range(a.layout.head) : ListLeaf(p) = At(a.name, 0, leaf)
    BY <1>16, <1>18
  <2>2. \A leaf \in Range(a.layout.head) : leaf.type # "list"
    <3>1. PICK i \in DOMAIN params : a = params[i]
      BY DEF Range
    <3> QED
      BY <1>10, <3>1 DEF GoodParams, NoListType
  <2>3. ListLeaf(p) = ListLeaf(a.name)
    BY <2>1, <2>2 DEF ListLeaf, At
  <2>4. p = a.name
    BY <2>3, SelfApart DEF ListLeaf
  <2> QED
    BY <1>6, <2>1, <2>4
<1>19. DOMAIN <<>> = {}
  OBVIOUS
<1> QED
  BY <1>8, <1>9, <1>14, <1>15, <1>17, <1>18, <1>19 DEF Reading
-----------------------------------------------------------------------------
(* What the shims free.                                                    *)

LEMMA InARow ==
    ASSUME NEW a, NEW b, IsSeq(a), IsSeq(b), IsInjective(a), IsInjective(b), \A q \in Range(a) : q \notin Range(b),
           NEW c, c = a \o b
    PROVE  IsSeq(c) /\ IsInjective(c) /\ \A q : q \in Range(c) <=> q \in Range(a) \/ q \in Range(b)
<1>1. Range(a) \cap Range(b) = {}
  OBVIOUS
<1>2. IsSeq(c) /\ Range(c) = Range(a) \cup Range(b)
  BY RowOfTwo
<1>3. IsInjective(c)
  BY <1>1, InjectiveTwo
<1> QED
  BY <1>2, <1>3

\* The members of the elements of a list, freed element by element.
LEMMA FreedElements ==
    ASSUME NEW p, NEW members, IsSeq(members), IsInjective(members), NEW n \in Nat,
           NEW freed, freed = FlattenSeq([k \in 1 .. n |-> [i \in DOMAIN members |-> <<p, k, members[i]>>]])
    PROVE  IsSeq(freed) /\ IsInjective(freed) /\ Range(freed) = SetsEach(p, n, Range(members))
<1> DEFINE each(k) == [i \in DOMAIN members |-> <<p, k, members[i]>>]
           ss == [k \in 1 .. n |-> each(k)]
<1>1. PICK l \in Nat : DOMAIN members = 1 .. l
  BY SeqIs
<1>2. ASSUME NEW k
      PROVE  /\ IsSeq(each(k)) /\ IsInjective(each(k))
             /\ \A q : q \in Range(each(k)) <=> \E f \in Range(members) : q = <<p, k, f>>
  <2>1. DOMAIN each(k) = 1 .. l /\ each(k) = [i \in 1 .. l |-> each(k)[i]] /\ \A i \in 1 .. l : each(k)[i] = <<p, k, members[i]>>
    BY <1>1
  <2> PICK e : e = each(k)
    OBVIOUS
  <2>2. DOMAIN e = 1 .. l /\ e = [i \in 1 .. l |-> e[i]] /\ \A i \in 1 .. l : e[i] = <<p, k, members[i]>>
    BY <2>1
  <2> HIDE DEF each
  <2>3. IsSeq(e)
    BY <2>2, FunctionIsSeq
  <2>4. IsInjective(e)
    BY <1>1, <2>2 DEF IsInjective
  <2>5. \A q : q \in Range(e) <=> \E f \in Range(members) : q = <<p, k, f>>
    BY <1>1, <2>2 DEF Range
  <2> QED
    BY <2>3, <2>4, <2>5
<1>3. ss = [k \in 1 .. n |-> ss[k]] /\ \A k \in 1 .. n : ss[k] = each(k)
  OBVIOUS
<1>4. freed = FlattenSeq(ss)
  OBVIOUS
<1> HIDE DEF ss, each
<1>5. Sequences(ss, n)
  BY <1>2, <1>3 DEF Sequences
<1>6. Apart(ss, n)
  <2>1. ASSUME NEW i \in 1 .. n, NEW j \in 1 .. n, NEW q \in Range(each(i)), q \in Range(each(j))
        PROVE  i = j
    <3>1. q[2] = i
      BY <1>2
    <3>2. q[2] = j
      BY <1>2, <2>1
    <3> QED
      BY <3>1, <3>2
  <2>2. \A i, j \in 1 .. n : i # j => Range(ss[i]) \cap Range(ss[j]) = {}
    BY <1>3, <2>1
  <2> QED
    BY <1>2, <1>3, <2>2 DEF Apart
<1>7. IsSeq(freed) /\ IsInjective(freed)
  BY <1>4, <1>5, <1>6, FlattenElements, InjectiveFlatten
<1>8. \A q : q \in Range(freed) <=> \E k \in 1 .. n : q \in Range(ss[k])
  BY <1>4, <1>5, FlattenElements
<1>9. \A q : q \in Range(freed) <=> q \in SetsEach(p, n, Range(members))
  BY <1>2, <1>3, <1>8 DEF SetsEach
<1> QED
  BY <1>7, <1>9

\* The members of a struct.
LEMMA FreedHead ==
    ASSUME NEW p, NEW members, IsSeq(members), IsInjective(members),
           NEW freed, freed = [i \in DOMAIN members |-> <<p, 0, members[i]>>]
    PROVE  IsSeq(freed) /\ IsInjective(freed) /\ Range(freed) = Sets(p, Range(members))
<1>1. PICK l \in Nat : DOMAIN members = 1 .. l
  BY SeqIs
<1>2. freed = [i \in 1 .. l |-> <<p, 0, members[i]>>]
  BY <1>1
<1>3. freed = [i \in 1 .. l |-> freed[i]] /\ DOMAIN freed = 1 .. l /\ \A i \in 1 .. l : freed[i] = <<p, 0, members[i]>>
  BY <1>2
<1>4. IsSeq(freed)
  BY <1>3, FunctionIsSeq
<1>5. IsInjective(freed)
  BY <1>1, <1>3 DEF IsInjective
<1>6. \A q : q \in Range(freed) <=> \E f \in Range(members) : q = <<p, 0, f>>
  BY <1>1, <1>3 DEF Range
<1>7. \A q : q \in Range(freed) <=> q \in Sets(p, Range(members))
  BY <1>6 DEF Sets
<1> QED
  BY <1>4, <1>5, <1>7

\* A struct, with its list if it has one, is freed with all it points to, and nothing twice.
FreedRow(p, head, each, n) ==
    ([i \in DOMAIN head |-> <<p, 0, head[i]>>]
     \o (IF each # <<>>
         THEN FlattenSeq([k \in 1 .. n |-> [i \in DOMAIN each |-> <<p, k, each[i]>>]]) \o <<Elements(p)>>
         ELSE <<>>)) \o <<Self(p)>>

LEMMA FreedAll ==
    ASSUME NEW m, NEW p, NEW head, NEW each, FreeFits(m, p, head, each), NEW n \in Nat
    PROVE  /\ IsSeq(FreedRow(p, head, each, n)) /\ IsInjective(FreedRow(p, head, each, n))
           /\ \A q : q \in Range(FreedRow(p, head, each, n)) <=> \/ q = Self(p)
                                                                 \/ q \in Pointers(handleInvocation[m], p)
                                                                 \/ q \in ElementPointers(handleInvocation[m], p, n)
<1> PICK hs : hs = [i \in DOMAIN head |-> <<p, 0, head[i]>>]
  OBVIOUS
<1> PICK ls : ls = FlattenSeq([k \in 1 .. n |-> [i \in DOMAIN each |-> <<p, k, each[i]>>]])
  OBVIOUS
<1> PICK freed : freed = FreedRow(p, head, each, n)
  OBVIOUS
<1>0. freed = (hs \o (IF each # <<>> THEN ls \o <<Elements(p)>> ELSE <<>>)) \o <<Self(p)>>
  BY DEF FreedRow
<1> PICK self : self = Self(p)
  OBVIOUS
<1> PICK elements : elements = Elements(p)
  OBVIOUS
<1> PICK pointers : pointers = Pointers(handleInvocation[m], p)
  OBVIOUS
<1> PICK others : others = ElementPointers(handleInvocation[m], p, n)
  OBVIOUS
<1> PICK heads : heads = Sets(p, Range(head))
  OBVIOUS
<1> PICK eachs : eachs = SetsEach(p, n, Range(each))
  OBVIOUS
<1>1. /\ IsSeq(hs) /\ IsInjective(hs) /\ Range(hs) = heads
  BY ZenonT(40), FreedHead DEF FreeFits
<1>2. IsSeq(ls) /\ IsInjective(ls) /\ Range(ls) = eachs
  BY ZenonT(40), FreedElements DEF FreeFits
<1>3. self # elements
  BY SelfApart
<1>4. self \notin heads /\ elements \notin heads
  <2>1. ASSUME NEW f \in Range(head)
        PROVE  <<p, 0, f>> # self /\ <<p, 0, f>> # elements
    <3>1. f # "" /\ f # "elements"
      BY DEF FreeFits
    <3>2. self = <<p, 0, "">> /\ elements = <<p, 0, "elements">>
      BY DEF Self, Elements
    <3>3. <<p, 0, f>> # <<p, 0, "">> /\ <<p, 0, f>> # <<p, 0, "elements">>
      BY ONLY <3>1, PathsSame
    <3> QED
      BY ONLY <3>2, <3>3
  <2> QED
    BY <2>1 DEF Sets
<1>5. /\ \A q \in eachs : q # self /\ q # elements
      /\ heads \cap eachs = {}
  <2>1. ASSUME NEW q \in eachs
        PROVE  \E k \in 1 .. n : q[2] = k
    BY DEF SetsEach
  <2>2. \A q \in eachs : q[2] # 0
    BY <2>1
  <2>3. \A q \in heads : q[2] = 0
    BY DEF Sets
  <2>4. self[2] = 0 /\ elements[2] = 0
    BY DEF Self, Elements
  <2> QED
    BY <2>2, <2>3, <2>4
<1>6. \A q : q = self \/ q \in pointers <=> q = self \/ q \in heads \/ (each # <<>> /\ q = elements)
  <2>1. {self} \cup pointers = {self} \cup heads \cup (IF each # <<>> THEN {elements} ELSE {})
    BY DEF FreeFits
  <2> QED
    BY <2>1
<1>7. others = eachs
  BY DEF FreeFits
<1> PICK one : one = <<elements>>
  OBVIOUS
<1> PICK last : last = <<self>>
  OBVIOUS
<1>8. IsSeq(one) /\ Range(one) = {elements} /\ IsInjective(one) /\ IsSeq(last) /\ Range(last) = {self} /\ IsInjective(last)
  BY OneInARow
<1>9. CASE each # <<>>
  <2> PICK list : list = ls \o one
    OBVIOUS
  <2> PICK front : front = hs \o list
    OBVIOUS
  <2>1. IsSeq(list) /\ IsInjective(list) /\ \A q : q \in Range(list) <=> q \in eachs \/ q = elements
    <3>1. list = ls \o one /\ \A q \in Range(ls) : q \notin Range(one)
      BY <1>2, <1>5, <1>8
    <3>2. IsSeq(list) /\ IsInjective(list) /\ \A q : q \in Range(list) <=> q \in Range(ls) \/ q \in Range(one)
      BY ONLY <1>2, <1>8, <3>1, InARow, ZenonT(40)
    <3> QED
      BY <1>2, <1>8, <3>2
  <2>2. IsSeq(front) /\ IsInjective(front) /\ \A q : q \in Range(front) <=> q \in heads \/ q \in eachs \/ q = elements
    <3>1. front = hs \o list /\ \A q \in Range(hs) : q \notin Range(list)
      BY <1>1, <1>4, <1>5, <2>1
    <3>2. IsSeq(front) /\ IsInjective(front) /\ \A q : q \in Range(front) <=> q \in Range(hs) \/ q \in Range(list)
      BY ONLY <1>1, <2>1, <3>1, InARow, ZenonT(40)
    <3> QED
      BY <1>1, <2>1, <3>2
  <2>3. IsSeq(freed) /\ IsInjective(freed) /\ \A q : q \in Range(freed) <=> q \in Range(front) \/ q = self
    <3>1. freed = front \o last /\ \A q \in Range(front) : q \notin Range(last)
      BY <1>0, <1>3, <1>4, <1>5, <1>8, <1>9, <2>2
    <3>2. IsSeq(freed) /\ IsInjective(freed) /\ \A q : q \in Range(freed) <=> q \in Range(front) \/ q \in Range(last)
      BY ONLY <1>8, <2>2, <3>1, InARow, ZenonT(40)
    <3> QED
      BY <1>8, <3>2
  <2>4. \A q : q \in Range(freed) <=> q = self \/ q \in pointers \/ q \in others
    BY <1>6, <1>7, <1>9, <2>2, <2>3
  <2> QED
    BY <2>3, <2>4
<1>10. CASE each = <<>>
  <2>1. hs \o <<>> = hs
    BY <1>1, NothingMore
  <2>2. IsSeq(freed) /\ IsInjective(freed) /\ \A q : q \in Range(freed) <=> q \in heads \/ q = self
    <3>1. freed = hs \o last /\ \A q \in Range(hs) : q \notin Range(last)
      BY <1>0, <1>1, <1>4, <1>8, <1>10, <2>1
    <3>2. IsSeq(freed) /\ IsInjective(freed) /\ \A q : q \in Range(freed) <=> q \in Range(hs) \/ q \in Range(last)
      BY ONLY <1>1, <1>8, <3>1, InARow, ZenonT(40)
    <3> QED
      BY <1>1, <1>8, <3>2
  <2>3. eachs = {}
    <3>1. Range(each) = {}
      BY <1>10, Tuples
    <3> QED
      BY <3>1 DEF SetsEach
  <2>4. \A q : q \in Range(freed) <=> q = self \/ q \in pointers \/ q \in others
    BY <1>6, <1>7, <1>10, <2>2, <2>3
  <2> QED
    BY <2>2, <2>4
<1> QED
  BY <1>9, <1>10

\* A list that is set is that of the result.
LEMMA ResultsListed ==
    ASSUME call.method \in Methods, NEW n, NEW q \in ResultsSet(n), q[3] = "elements"
    PROVE  q[1] \in Results(call.method)
<1> PICK m : m = call.method
  OBVIOUS
<1>1. ASSUME NEW p, NEW members, q \in Sets(p, members), p \in Results(m)
      PROVE  q[1] \in Results(m)
  <2>1. q[1] = p
    BY <1>1 DEF Sets
  <2> QED
    BY <1>1, <2>1
<1>2. ASSUME NEW p, NEW members, q \in SetsEach(p, n, members), p \in Results(m)
      PROVE  q[1] \in Results(m)
  <2>1. q[1] = p
    BY <1>2 DEF SetsEach
  <2> QED
    BY <1>2, <2>1
<1>3. ASSUME NEW p
      PROVE  q # Self(p)
  <2>1. Self(p)[3] = ""
    BY DEF Self
  <2> QED
    BY <2>1
<1>4. CASE m = "AppendChunkToBlob"
  BY <1>1, <1>4, TheStructures DEF ResultsSet, AppendChunkToBlob_sets
<1>5. CASE m = "SeedBlob"
  BY <1>1, <1>5, TheStructures DEF ResultsSet, SeedBlob_sets
<1>6. CASE m = "GetPLCID"
  BY <1>1, <1>6, TheStructures DEF ResultsSet, GetPLCID_sets
<1>7. CASE m = "GetLogMessage"
  BY <1>1, <1>7, TheStructures DEF ResultsSet, GetLogMessage_sets
<1>8. CASE m = "GetPLCstatus"
  BY <1>1, <1>8, TheStructures DEF ResultsSet, GetPLCstatus_sets
<1>9. CASE m = "GetTraceVariables"
  BY <1>1, <1>2, <1>9, TheStructures DEF ResultsSet, GetTraceVariables_sets
<1>10. CASE m \in {"MatchMD5", "NewPLC", "SetTraceVariablesList", "StopPLC"}
  BY <1>3, <1>10 DEF ResultsSet, MatchMD5_sets, NewPLC_sets, SetTraceVariablesList_sets, StopPLC_sets
<1>11. CASE m \in {"PurgeBlobs", "RepairPLC", "ResetLogCount", "StartPLC"}
  BY <1>11 DEF ResultsSet
<1> QED
  BY <1>4, <1>5, <1>6, <1>7, <1>8, <1>9, <1>10, <1>11, TheMethods

\* A handler that does not fail sets every pointer of its results.
LEMMA ResultsPointed ==
    ASSUME call.method \in Methods, NEW n \in Nat, NEW p \in Results(call.method),
           NEW q \in Pointers(handleInvocation[call.method], p) \cup ElementPointers(handleInvocation[call.method], p, n)
    PROVE  q \in ResultsSet(n)
<1> PICK m : m = call.method
  OBVIOUS
<1>1. PICK a \in Range(Writes(m)) : a.name = p
  BY ShimsFit DEF ShimFits
<1>2. PICK l \in LeafSet(a, n) : l.path = q
  BY <1>1, PointersAreLeaves
<1>3. PICK i \in DOMAIN Writes(m) : a = Writes(m)[i]
  BY <1>1 DEF Range
<1>4. Range(AllLeaves(Writes(m), n)) = UNION {LeafSet(Writes(m)[j], n) : j \in DOMAIN Writes(m)}
  BY WritesGood, AllLeavesElements DEF GoodParams, Writes
<1>5. l \in Range(AllLeaves(Writes(m), n))
  BY <1>2, <1>3, <1>4
<1> QED
  BY <1>2, <1>5, ResultsComplete

\* What is freed of a parameter is what it has in memory,
LEMMA FreesOfBlock ==
    ASSUME NEW m \in Methods, Using(m, mem, count, {}), CountTypes, NEW param, NEW p, p = param.name,
           p \in Owned(m) \cup Results(m), FreeFits(m, p, param.layout.head, param.layout.each)
    PROVE  /\ IsSeq(FreesOf(param)) /\ IsInjective(FreesOf(param))
           /\ \A q : q \in Range(FreesOf(param)) <=> q \in Block(m, p, mem, count)
<1> PICK shim : shim = handleInvocation[m]
  OBVIOUS
<1>1. Self(p) \in DOMAIN mem /\ Block(m, p, mem, count) \subseteq DOMAIN mem
  BY DEF Using, Blocks
<1>2. CASE mem[Self(p)] = "null"
  <2>1. FreesOf(param) = <<Self(p)>>
    BY <1>1, <1>2 DEF FreesOf
  <2> PICK one : one = <<Self(p)>>
    OBVIOUS
  <2>2. IsSeq(one) /\ IsInjective(one) /\ Range(one) = {Self(p)}
    BY OneInARow
  <2>3. Block(m, p, mem, count) = {Self(p)}
    BY <1>2 DEF Block
  <2> QED
    BY <2>1, <2>2, <2>3
<1>3. CASE mem[Self(p)] # "null"
  <2> PICK n : n = ListLength(p)
    OBVIOUS
  <2>1. n \in Nat /\ (p \in DOMAIN count => n = count[p])
    BY RpcBounds DEF ListLength, CountTypes
  <2> PICK head : head = param.layout.head
    OBVIOUS
  <2> PICK each : each = param.layout.each
    OBVIOUS
  <2> PICK freed : freed = FreedRow(p, head, each, n)
    OBVIOUS
  <2>2. FreesOf(param) = freed
    <3>1. Self(param.name) \in DOMAIN mem /\ mem[Self(param.name)] # "null"
      BY <1>1, <1>3
    <3>2. FreesOf(param) = FreedRow(param.name, param.layout.head, param.layout.each, ListLength(param.name))
      BY ONLY <3>1, Zenon DEF FreesOf, FreedRow, IsList
    <3> QED
      BY <3>2
  <2>3. /\ IsSeq(freed) /\ IsInjective(freed)
        /\ \A q : q \in Range(freed) <=> q = Self(p) \/ q \in Pointers(shim, p) \/ q \in ElementPointers(shim, p, n)
    BY <2>1, FreedAll
  <2>4. ASSUME NEW q \in ElementPointers(shim, p, n)
        PROVE  p \in DOMAIN count
    <3>1. Elements(p) \in Pointers(shim, p)
      BY <2>1, <2>4, NoElements
    <3>2. Elements(p) \in DOMAIN mem
      BY <1>1, <1>3, <3>1 DEF Block
    <3>3. mem[Elements(p)] # "unset"
      BY <3>2 DEF Using, AllSet
    <3> QED
      BY <1>3, <3>1, <3>3 DEF Using, Counted
  <2>5. \A q : q \in Block(m, p, mem, count) <=> q = Self(p) \/ q \in Pointers(shim, p) \/ q \in ElementPointers(shim, p, n)
    <3>1. CASE p \in DOMAIN count
      BY <1>3, <2>1, <3>1 DEF Block
    <3>2. CASE p \notin DOMAIN count
      BY <1>3, <2>4, <3>2 DEF Block
    <3> QED
      BY <3>1, <3>2
  <2> QED
    BY <2>2, <2>3, <2>5
<1> QED
  BY <1>2, <1>3

\* and what a call frees is all that is in memory but what NewPLC has lost, and nothing twice.
LEMMA FreesAll ==
    ASSUME NEW m \in Methods, m = call.method, Using(m, mem, count, {}), CountTypes
    PROVE  /\ IsInjective(Frees) /\ IsSeq(Frees)
           /\ \A q \in Range(Frees) : q \in DOMAIN mem /\ mem[q] # "unset"
           /\ \A q \in DOMAIN mem : q[1] # "extra_files_blob" => q \in Range(Frees)
<1> PICK params : params = handleInvocation[m].frees
  OBVIOUS
<1> PICK A : A = Owned(m) \cup Results(m)
  OBVIOUS
<1>1. /\ IsSeq(params)
      /\ \A i, j \in DOMAIN params : params[i].name = params[j].name => i = j
      /\ {params[i].name : i \in DOMAIN params} = A
      /\ \A i \in DOMAIN params : FreeFits(m, params[i].name, params[i].layout.head, params[i].layout.each)
  BY FreesFitAll DEF FreesFit
<1>2. PICK n \in Nat : DOMAIN params = 1 .. n
  BY <1>1, SeqIs
<1>3. ASSUME NEW i \in 1 .. n
      PROVE  /\ IsSeq(FreesOf(params[i])) /\ IsInjective(FreesOf(params[i]))
             /\ \A q : q \in Range(FreesOf(params[i])) <=> q \in Block(m, params[i].name, mem, count)
  <2>1. params[i].name \in Owned(m) \cup Results(m)
    BY <1>1, <1>2
  <2>2. FreeFits(m, params[i].name, params[i].layout.head, params[i].layout.each)
    BY <1>1, <1>2
  <2> QED
    BY <2>1, <2>2, FreesOfBlock
<1> DEFINE ss == [i \in 1 .. n |-> FreesOf(params[i])]
<1>4. Frees = FlattenSeq(ss)
  <2>1. Frees = FlattenSeq([i \in DOMAIN handleInvocation[call.method].frees |-> FreesOf(handleInvocation[call.method].frees[i])])
    BY Zenon DEF Frees
  <2> QED
    BY <1>2, <2>1
<1>5. ss = [i \in 1 .. n |-> ss[i]] /\ \A i \in 1 .. n : ss[i] = FreesOf(params[i])
  OBVIOUS
<1> HIDE DEF ss
<1>6. Sequences(ss, n)
  BY <1>3, <1>5 DEF Sequences
<1>7. Apart(ss, n)
  <2>1. ASSUME NEW i \in 1 .. n, NEW j \in 1 .. n, NEW q \in Range(ss[i]), q \in Range(ss[j])
        PROVE  i = j
    <3>1. q \in Block(m, params[i].name, mem, count) /\ q \in Block(m, params[j].name, mem, count)
      BY <1>3, <1>5, <2>1
    <3>2. q[1] = params[i].name /\ q[1] = params[j].name
      BY <3>1, BlockOf
    <3> QED
      BY <1>1, <1>2, <3>2
  <2>2. \A i, j \in 1 .. n : i # j => Range(ss[i]) \cap Range(ss[j]) = {}
    BY <2>1
  <2> QED
    BY <1>3, <1>5, <2>2 DEF Apart
<1>8. IsSeq(Frees) /\ IsInjective(Frees)
  BY <1>4, <1>6, <1>7, FlattenElements, InjectiveFlatten
<1>9. \A q : q \in Range(Frees) <=> \E i \in 1 .. n : q \in Block(m, params[i].name, mem, count)
  <2>1. \A q : q \in Range(Frees) <=> \E i \in 1 .. n : q \in Range(ss[i])
    BY <1>4, <1>6, FlattenElements
  <2> QED
    BY <1>3, <1>5, <2>1
<1>10. \A q : q \in Range(Frees) <=> \E p \in A : q \in Block(m, p, mem, count)
  <2>1. \A p : p \in A <=> \E i \in 1 .. n : p = params[i].name
    BY <1>1, <1>2
  <2> QED
    BY <1>9, <2>1
<1>11. \A q \in Range(Frees) : q \in DOMAIN mem
  BY <1>10 DEF Using, Blocks
<1>12. \A q \in DOMAIN mem : mem[q] # "unset"
  BY DEF Using, AllSet
<1>13. \A q \in DOMAIN mem : q[1] # "extra_files_blob" => q \in Range(Frees)
  BY <1>10 DEF Using, Blocks
<1> QED
  BY <1>8, <1>11, <1>12, <1>13
-----------------------------------------------------------------------------
(* Memory is given back.                                                   *)

Shimmed == {"decode", "invoke", "encode", "release"}

\* What is in memory, by where the server is.
MemInv ==
    /\ task = "decode" => Reading(call.method, mem, count, todo, status)
    /\ task = "invoke" => /\ Using(call.method, mem, count, ResultPointers(call.method))
                          /\ Untouched(call.method, mem, count)
    /\ task \in {"encode", "release"} => Using(call.method, mem, count, {})
    /\ task \notin Shimmed => \A q \in DOMAIN mem : q[1] = "extra_files_blob"

\* What the server has created, by where its task is.
Created == [transport |-> {}, factory |-> {"transport"}, server |-> {"transport", "factory"},
            service |-> {"transport", "factory", "server"}]
HeldInv == held = IF task \in DOMAIN Created THEN Created[task] ELSE {"transport", "factory", "server", "service"}

FreeInv == FaithInv /\ MemInv /\ HeldInv

LEMMA PreparedHandlers ==
    ASSUME Prepared
    PROVE  /\ HandlersSucceed
           /\ \A m \in Methods : <<m, "struct">> \in Failing \/ <<m, "content">> \in Failing => m \notin {"AppendChunkToBlob", "SeedBlob"}
           /\ \A m \in {"NewPLC", "SetTraceVariablesList"} : <<m, "elements">> \notin Failing
<1>1. \A m \in Methods : <<m, "handler">> \in NotHandled
  BY DEF NotHandled
<1>2. <<"GetLogMessage", "nofile">> \in NotHandled
  BY DEF NotHandled
<1>3. \A m \in {"AppendChunkToBlob", "SeedBlob"} : <<m, "struct">> \in NotHandled /\ <<m, "content">> \in NotHandled
  BY DEF NotHandled
<1>4. \A m \in {"NewPLC", "SetTraceVariablesList"} : <<m, "elements">> \in NotHandled
  BY DEF NotHandled
<1>5. \A x \in NotHandled : x \notin Failing
  BY DEF Prepared
<1> QED
  BY <1>1, <1>2, <1>3, <1>4, <1>5 DEF HandlersSucceed

LEMMA MemStart == Init => MemInv /\ HeldInv
<1> SUFFICES ASSUME Init
             PROVE  MemInv /\ HeldInv
  OBVIOUS
<1>1. task = "transport" /\ held = {} /\ mem = <<>>
  BY DEF Init
<1>2. DOMAIN mem = {}
  BY <1>1
<1> QED
  BY <1>1, <1>2 DEF MemInv, HeldInv, Created, Shimmed

\* A parameter fails to be allocated only where there is nothing left unset by it.
LEMMA StructFails ==
    ASSUME Prepared, call.method \in Methods, NEW failed \in FailedStructs(handleInvocation[call.method].before), failed # {}
    PROVE  Results(call.method) = {}
<1> PICK m : m = call.method
  OBVIOUS
<1>1. May("struct") /\ handleInvocation[m].before # <<>>
  BY Tuples DEF FailedStructs
<1>2. m \notin {"AppendChunkToBlob", "SeedBlob"}
  BY <1>1, PreparedHandlers DEF May
<1>3. Structures(m) # {}
  <2>1. PICK p \in Range(handleInvocation[m].before) : failed = {p}
    BY DEF FailedStructs
  <2> QED
    BY <2>1 DEF Structures
<1> QED
  BY <1>2, <1>3, ShimsFit DEF ShimFits, Sure

LEMMA FailedAre ==
    ASSUME NEW ps, NEW failed \in FailedStructs(ps)
    PROVE  failed \in SUBSET Range(ps)
BY DEF FailedStructs

LEMMA ReceiveMem ==
    ASSUME Prepared, FreeInv, Receive
    PROVE  MemInv'
<1> PICK m : m = call.method
  OBVIOUS
<1>1. task = "poll" /\ answer.at = "waiting" /\ task' = "decode" /\ call' = call /\ count' = <<>>
  BY DEF Receive
<1>2. m \in Methods
  BY <1>1 DEF FreeInv, FaithInv, CallInv, Calls
<1> PICK strings : strings = {p \in Range(Reads(m)) : p.layout = Scalar("string")}
  OBVIOUS
<1>3. PICK failed \in FailedStructs(handleInvocation[m].before) :
         /\ mem' = Over([q \in {Self(p.name) : p \in strings} |-> "null"], Structs(handleInvocation[m], Structures(m), failed))
         /\ status' = (IF failed = {} THEN "ok" ELSE "memory")
         /\ todo' = AllLeaves(Readable(Reads(m), failed), 0)
  BY DEF Receive, Reads, Structures
<1>4. failed \in SUBSET Structures(m)
  BY FailedAre DEF Structures
<1>5. status' # "ok" => Results(m) = {}
  BY <1>2, <1>3, StructFails
<1>6. Reading(m, mem', <<>>, todo', status')
  BY <1>2, <1>3, <1>4, <1>5, Received
<1>7. Reading(call.method, mem, count, todo, status)'
  BY <1>1, <1>6
<1> QED
  BY <1>1, <1>7 DEF MemInv, Shimmed

\* The request has what the shim reads.
LEMMA FieldWanted ==
    ASSUME FaithInv, task = "decode", status = "ok", todo # <<>>
    PROVE  Wanted
<1>1. call.n \in Nat
  BY RpcBounds DEF FaithInv, CallInv, Busy, Calls
<1>2. PICK rest : Ahead(todo, rest, call.method, call.n) /\ request = Fields(rest, call)
  BY DEF FaithInv, DecodeInv
<1>3. rest # <<>> /\ Head(rest) = Head(todo)
  <2>1. CASE Head(todo).type = "list"
    BY <1>1, <1>2, <2>1, AheadList
  <2>2. CASE Head(todo).type # "list"
    BY <1>1, <1>2, <2>2, AheadOne
  <2> QED
    BY <2>1, <2>2
<1>4. IsSeq(rest)
  BY <1>2 DEF Ahead
<1> QED
  BY <1>2, <1>3, <1>4, NextWanted

LEMMA ReadFieldMem ==
    ASSUME Prepared, FreeInv, ReadField
    PROVE  MemInv'
<1> PICK m : m = call.method
  OBVIOUS
<1>1. task = "decode" /\ todo # <<>> /\ Field.type # "list" /\ task' = task /\ call' = call /\ count' = count /\ todo' = Tail(todo)
  BY DEF ReadField
<1>2. m \in Methods /\ Reading(m, mem, count, todo, status)
  BY <1>1 DEF FreeInv, FaithInv, CallInv, Calls, Busy, MemInv
<1> PICK copied : copied = (Field.type = "string" \/ (Field.type = "binary" /\ Got # <<>>))
  OBVIOUS
<1>3. PICK failed \in BOOLEAN :
         /\ failed => copied /\ May("content")
         /\ mem' = (IF Field.path \in DOMAIN mem THEN [mem EXCEPT ![Field.path] = Pointer(copied, failed)] ELSE mem)
         /\ status' = Outcome(failed)
  BY DEF ReadField
<1>4. ASSUME status' # "ok"
      PROVE  Results(m) = {}
  <2>1. CASE status # "ok"
    BY <1>2, <2>1 DEF Reading
  <2>2. CASE status = "ok"
    <3>1. Wanted
      BY <1>1, <2>2, FieldWanted DEF FreeInv
    <3>2. failed
      BY <1>3, <1>4, <2>2, <3>1 DEF Outcome
    <3>3. m \notin {"AppendChunkToBlob", "SeedBlob"}
      BY <1>2, <1>3, <3>2, PreparedHandlers DEF May
    <3>4. Field \in Range(todo)
      BY <1>1, <1>2, OrderlySeq, TailOf DEF Reading, Field
    <3>5. Field.type \in {"string", "binary"}
      BY <1>3, <3>2
    <3>6. Sure(m)
      BY <1>1, <1>2, <3>4, <3>5 DEF Reading, Fit
    <3> QED
      BY <3>3, <3>6 DEF Sure
  <2> QED
    BY <2>1, <2>2
<1>5. Pointer(copied, failed) \in {"null", "live"}
  BY DEF Pointer
<1>6. Reading(m, mem', count, Tail(todo), status')
  <2> PICK v \in {"null", "live"} : v = Pointer(copied, failed)
    BY <1>5
  <2>1. mem' = IF Head(todo).path \in DOMAIN mem THEN [mem EXCEPT ![Head(todo).path] = v] ELSE mem
    BY <1>3 DEF Field
  <2>2. Head(todo).type # "list"
    BY <1>1 DEF Field
  <2> QED
    BY <1>1, <1>2, <1>4, <2>1, <2>2, FieldRead
<1>7. Reading(call.method, mem, count, todo, status)'
  BY <1>1, <1>6
<1> QED
  BY <1>1, <1>7 DEF MemInv, Shimmed

LEMMA ReadListMem ==
    ASSUME Prepared, FreeInv, ReadList
    PROVE  MemInv'
<1> PICK m : m = call.method
  OBVIOUS
<1> PICK p : p = Field.path[1]
  OBVIOUS
<1> PICK n : n = Announced
  OBVIOUS
<1> PICK param : param = (CHOOSE q \in Range(Reads(m)) : q.name = p)
  OBVIOUS
<1>1. task = "decode" /\ todo # <<>> /\ Field.type = "list" /\ task' = task /\ call' = call
  BY DEF ReadList
<1>2. m \in Methods /\ Reading(m, mem, count, todo, status)
  BY <1>1 DEF FreeInv, FaithInv, CallInv, Calls, Busy, MemInv
<1>3. n \in Nat
  BY <1>1, LengthAnnounced, RpcBounds DEF FreeInv, FaithInv, TypeInv
<1>4. PICK failed \in BOOLEAN :
         /\ failed => May("elements")
         /\ mem' = Over([q \in {Elements(p)} |-> IF failed THEN "null" ELSE "live"],
                        Over(Unset(IF failed THEN {} ELSE ElementPointers(handleInvocation[m], p, n)), mem))
         /\ count' = Over([q \in {p} |-> n], count)
         /\ todo' = Tail(Leaves(param, n)) \o Tail(todo)
         /\ status' = Outcome(failed)
  BY DEF ReadList, Reads
<1>5. m \in {"NewPLC", "SetTraceVariablesList"}
  <2>1. PICK rest : Ahead(todo, rest, m, 0)
    BY <1>2 DEF Reading, Orderly
  <2>2. Head(todo).type = "list"
    BY <1>1 DEF Field
  <2>3. \E list : ReadsList(m, list)
    BY <1>1, <2>1, <2>2, AheadList
  <2> QED
    BY <1>2, <2>3, ListFits
<1>6. ~failed
  BY <1>4, <1>5, PreparedHandlers DEF May
<1>7. ASSUME status' # "ok"
      PROVE  Results(m) = {}
  <2>1. CASE status # "ok"
    BY <1>2, <2>1 DEF Reading
  <2>2. CASE status = "ok"
    <3>1. Wanted
      BY <1>1, <2>2, FieldWanted DEF FreeInv
    <3> QED
      BY <1>4, <1>6, <1>7, <2>2, <3>1 DEF Outcome
  <2> QED
    BY <2>1, <2>2
<1>8. mem' = Over([q \in {Elements(p)} |-> "live"], Over(Unset(ElementPointers(handleInvocation[m], p, n)), mem))
  BY <1>4, <1>6
<1>9. Reading(m, mem', count', Tail(Leaves(param, n)) \o Tail(todo), status')
  <2> PICK me2 : me2 = mem'
    OBVIOUS
  <2> PICK co2 : co2 = count'
    OBVIOUS
  <2> PICK st2 : st2 = status'
    OBVIOUS
  <2>1. Head(todo).type = "list" /\ p = Head(todo).path[1]
    BY <1>1 DEF Field
  <2>2. me2 = Over([q \in {Elements(p)} |-> "live"], Over(Unset(ElementPointers(handleInvocation[m], p, n)), mem))
    BY <1>8
  <2>3. co2 = Over([q \in {p} |-> n], count)
    BY <1>4
  <2>4. st2 # "ok" => Results(m) = {}
    BY <1>7
  <2>5. param = (CHOOSE q \in Range(Reads(m)) : q.name = p)
    OBVIOUS
  <2>6. m \in Methods /\ Reading(m, mem, count, todo, status) /\ todo # <<>> /\ n \in Nat
    BY <1>1, <1>2, <1>3
  <2>7. Reading(m, me2, co2, Tail(Leaves(param, n)) \o Tail(todo), st2)
    BY ONLY <2>1, <2>2, <2>3, <2>4, <2>5, <2>6, ListRead
  <2>8. me2 = mem' /\ co2 = count' /\ st2 = status'
    OBVIOUS
  <2> QED
    BY ONLY <2>7, <2>8
<1>10. Reading(call.method, mem, count, todo, status)'
  BY <1>1, <1>4, <1>9
<1> QED
  BY <1>1, <1>10 DEF MemInv, Shimmed

LEMMA DecodedMem ==
    ASSUME Prepared, FreeInv, Decoded
    PROVE  MemInv'
<1> PICK m : m = call.method
  OBVIOUS
<1>1. task = "decode" /\ todo = <<>> /\ call' = call /\ count' = count /\ task' = (IF status' = "ok" THEN "invoke" ELSE "release")
  BY DEF Decoded
<1>2. m \in Methods /\ Reading(m, mem, count, <<>>, status)
  BY <1>1 DEF FreeInv, FaithInv, CallInv, Calls, Busy, MemInv
<1>3. PICK failed \in FailedStructs(handleInvocation[m].after) :
         /\ mem' = Over(Structs(handleInvocation[m], Results(m), failed), mem)
         /\ status' = (IF failed = {} THEN status ELSE "memory")
  BY DEF Decoded, Results
<1>4. failed = {} \/ failed = Results(m)
  <2>1. failed = {} \/ \E p \in Results(m) : failed = {p}
    BY DEF FailedStructs, Results
  <2>2. \A p, q \in Results(m) : p = q
    BY <1>2, ShimsFit DEF ShimFits
  <2> QED
    BY <2>1, <2>2
<1>5. /\ Using(m, mem', count, IF failed = {} THEN ResultPointers(m) ELSE {})
      /\ Results(m) = {} => Using(m, mem', count, {})
      /\ failed = {} => Untouched(m, mem', count)
  <2> PICK me2 : me2 = mem'
    OBVIOUS
  <2>1. me2 = Over(Structs(handleInvocation[m], Results(m), failed), mem)
    BY <1>3
  <2>2. /\ Using(m, me2, count, IF failed = {} THEN ResultPointers(m) ELSE {})
        /\ Results(m) = {} => Using(m, me2, count, {})
        /\ failed = {} => Untouched(m, me2, count)
    BY ONLY <1>2, <1>4, <2>1, ResultsAllocated
  <2>3. me2 = mem'
    OBVIOUS
  <2> QED
    BY ONLY <2>2, <2>3
<1>6. CASE status' = "ok"
  <2>1. failed = {}
    BY <1>3, <1>6
  <2>2. Using(m, mem', count, ResultPointers(m)) /\ Untouched(m, mem', count)
    BY <1>5, <2>1
  <2>3. (Using(call.method, mem, count, ResultPointers(call.method)) /\ Untouched(call.method, mem, count))'
    BY <1>1, <2>2
  <2> QED
    BY <1>1, <1>6, <2>3 DEF MemInv, Shimmed
<1>7. CASE status' # "ok"
  <2>1. Using(m, mem', count, {})
    <3>1. CASE failed = {}
      BY <1>2, <1>3, <1>5, <1>7, <3>1 DEF Reading
    <3>2. CASE failed # {}
      BY <1>5, <3>2
    <3> QED
      BY <3>1, <3>2
  <2>2. Using(call.method, mem, count, {})'
    BY <1>1, <2>1
  <2> QED
    BY <1>1, <1>7, <2>2 DEF MemInv, Shimmed
<1> QED
  BY <1>6, <1>7

LEMMA InvokeMem ==
    ASSUME Prepared, FreeInv, Invoke
    PROVE  MemInv'
<1> PICK m : m = call.method
  OBVIOUS
<1>1. task = "invoke" /\ task' = "encode" /\ call' = call
  BY DEF Invoke
<1>2. m \in Methods /\ Using(m, mem, count, ResultPointers(m)) /\ Untouched(m, mem, count)
  BY <1>1 DEF FreeInv, FaithInv, CallInv, Calls, Busy, MemInv
<1>3. PICK l \in Lengths, extra \in ExtraFiles : \E blank \in {Fine} \cup Faulty(l[1]) : Handle(l[1], l[2], blank, extra)
  BY DEF Invoke
<1>4. Handle(l[1], l[2], Fine, extra)
  BY <1>2, <1>3, NoBlank, PreparedHandlers
<1> PICK n \in Nat : n = l[1]
  BY LengthIs
<1> PICK set : set = ResultsSet(n)
  OBVIOUS
<1> PICK points : points = UNION {Pointers(handleInvocation[m], p) \cup ElementPointers(handleInvocation[m], p, n) : p \in Results(m)}
  OBVIOUS
<1> PICK lost : lost = LostBlocks(extra)
  OBVIOUS
<1>5. Fine.unset = {} /\ Fine.null = {}
  BY DEF Fine, Blank
<1>6. \A p \in Results(m) : Pointers(handleInvocation[m], p) \cup ElementPointers(handleInvocation[m], p, n) \subseteq set
  BY <1>2, ResultsPointed
<1>7. /\ mem' = Over([q \in points |-> "live"], Over(lost, mem))
      /\ count' = Over([p \in {q[1] : q \in {q \in set : q[3] = "elements"}} |-> n], count)
  <2>1. set \ Fine.unset = set /\ set \cup Fine.null = set
    BY <1>5
  <2>2. points \cap set = points
    BY <1>6
  <2>3. mem' = Over([q \in points |-> IF q \in Fine.null THEN "null" ELSE "live"], Over(lost, mem))
    BY <1>4, <2>1, <2>2 DEF Handle, Results
  <2>4. \A q \in points : q \notin Fine.null
    BY <1>5
  <2>5. [q \in points |-> IF q \in Fine.null THEN "null" ELSE "live"] = [q \in points |-> "live"]
    BY <2>4
  <2>6. count' = Over([p \in {q[1] : q \in {q \in set : q[3] = "elements"}} |-> n], count)
    BY <1>4, <2>1 DEF Handle
  <2> QED
    BY ONLY <2>3, <2>5, <2>6
<1>8. \A q \in DOMAIN lost : q[1] = "extra_files_blob" /\ lost[q] = "live"
  BY DEF LostBlocks, SetsEach
<1>9. \A q \in set : q[3] = "elements" => q[1] \in Results(m)
  BY <1>2, ResultsListed
<1>10. Using(m, mem', count', {})
  <2> PICK me2 : me2 = mem'
    OBVIOUS
  <2> PICK co2 : co2 = count'
    OBVIOUS
  <2>1. me2 = Over([q \in points |-> "live"], Over(lost, mem))
    BY <1>7
  <2>2. co2 = Over([p \in {q[1] : q \in {q \in set : q[3] = "elements"}} |-> n], count)
    BY <1>7
  <2>3. points = UNION {Pointers(handleInvocation[m], p) \cup ElementPointers(handleInvocation[m], p, n) : p \in Results(m)}
    OBVIOUS
  <2>4. \A p \in Results(m) : Pointers(handleInvocation[m], p) \subseteq set
    BY <1>6
  <2>5. n \in Nat
    OBVIOUS
  <2>6. Using(m, me2, co2, {})
    BY ONLY <1>2, <1>8, <1>9, <2>1, <2>2, <2>3, <2>4, <2>5, Handled
  <2>7. me2 = mem' /\ co2 = count'
    OBVIOUS
  <2> QED
    BY ONLY <2>6, <2>7
<1>11. Using(call.method, mem, count, {})'
  BY <1>1, <1>10
<1> QED
  BY <1>1, <1>11 DEF MemInv, Shimmed

LEMMA ReleaseMem ==
    ASSUME FreeInv, Release
    PROVE  MemInv'
<1> PICK m : m = call.method
  OBVIOUS
<1>1. task = "release" /\ task' \in {"send", "stop"} /\ mem' = [q \in DOMAIN mem \ Range(Frees) |-> mem[q]]
  BY DEF Release
<1>2. m \in Methods /\ Using(m, mem, count, {}) /\ CountTypes
  BY <1>1 DEF FreeInv, FaithInv, TypeInv, CallInv, Calls, Busy, MemInv
<1>3. \A q \in DOMAIN mem : q[1] # "extra_files_blob" => q \in Range(Frees)
  BY <1>2, FreesAll
<1>4. \A q \in DOMAIN mem' : q[1] = "extra_files_blob"
  BY <1>1, <1>3
<1> QED
  BY <1>1, <1>4 DEF MemInv, Shimmed

\* A step that leaves the call and its memory alone.
LEMMA AsideMem ==
    ASSUME MemInv, UNCHANGED <<call, todo, status, mem, count>>, task' = task \/ (task \notin Shimmed /\ task' \notin Shimmed)
    PROVE  MemInv'
<1>1. Reading(call.method, mem, count, todo, status)' <=> Reading(call.method, mem, count, todo, status)
  OBVIOUS
<1>2. Using(call.method, mem, count, {})' <=> Using(call.method, mem, count, {})
  OBVIOUS
<1>3. (Using(call.method, mem, count, ResultPointers(call.method)) /\ Untouched(call.method, mem, count))'
      <=> (Using(call.method, mem, count, ResultPointers(call.method)) /\ Untouched(call.method, mem, count))
  OBVIOUS
<1> QED
  BY <1>1, <1>2, <1>3 DEF MemInv, Shimmed

LEMMA EncodeMem ==
    ASSUME FreeInv, Encode
    PROVE  MemInv'
<1>1. task = "encode" /\ task' = "release" /\ UNCHANGED <<call, mem, count>>
  BY DEF Encode, memory
<1>2. Using(call.method, mem, count, {})
  BY <1>1 DEF FreeInv, MemInv
<1>3. Using(call.method, mem, count, {})'
  BY <1>1, <1>2
<1> QED
  BY <1>1, <1>3 DEF MemInv, Shimmed

LEMMA CallMem ==
    ASSUME FreeInv, NEW m \in Methods, NEW n \in 0 .. MaxList, NEW full \in BOOLEAN, Call(m, n, full)
    PROVE  MemInv'
<1>1. task = "poll" /\ task' = task /\ mem' = mem
  BY DEF Call, memory
<1> QED
  BY <1>1 DEF FreeInv, MemInv, Shimmed

\* The other steps.
LEMMA OtherMem ==
    ASSUME FreeInv, \/ InitTransport \/ InitFactory \/ InitServer \/ InitService \/ Send \/ Stop
                    \/ Connect \/ Disconnect \/ UNCHANGED vars
    PROVE  MemInv'
<1>1. UNCHANGED <<call, todo, status, mem, count>>
  BY DEF InitTransport, InitFactory, InitServer, InitService, Create, Send, Stop, Connect, Disconnect, vars, messages, memory
<1>2. task' = task \/ (task \notin Shimmed /\ task' \notin Shimmed)
  BY DEF InitTransport, InitFactory, InitServer, InitService, Create, Send, Stop, Connect, Disconnect, vars, Shimmed
<1> QED
  BY <1>1, <1>2, AsideMem DEF FreeInv

\* What is created by the set-up is what its next step expects.
LEMMA SetUpHeld ==
    ASSUME HeldInv, InitTransport \/ InitFactory \/ InitServer \/ InitService
    PROVE  HeldInv'
<1>1. CASE InitTransport
  BY <1>1 DEF HeldInv, Created, InitTransport, Create
<1>2. CASE InitFactory
  BY <1>2 DEF HeldInv, Created, InitFactory, Create
<1>3. CASE InitServer
  BY <1>3 DEF HeldInv, Created, InitServer, Create
<1>4. CASE InitService
  BY <1>4 DEF HeldInv, Created, InitService, Create
<1> QED
  BY <1>1, <1>2, <1>3, <1>4

LEMMA HeldStep == TypeInv /\ HeldInv /\ [Next]_vars => HeldInv'
<1> SUFFICES ASSUME TypeInv, HeldInv, [Next]_vars
             PROVE  HeldInv'
  OBVIOUS
<1>1. CASE InitTransport \/ InitFactory \/ InitServer \/ InitService
  BY <1>1, SetUpHeld
<1>2. CASE Stop
  <2>1. held \subseteq {"transport", "factory", "server", "service"}
    BY DEF TypeInv, ControlTypes
  <2>2. task' = "transport" /\ held' = held \ {"service", "server", "factory", "transport"}
    BY <1>2 DEF Stop
  <2>3. held' = {}
    BY <2>1, <2>2
  <2> QED
    BY <2>2, <2>3 DEF HeldInv, Created
<1>3. ASSUME held' = held, task' = task \/ (task \notin DOMAIN Created /\ task' \notin DOMAIN Created)
      PROVE  HeldInv'
  BY <1>3 DEF HeldInv
<1>4. DOMAIN Created = {"transport", "factory", "server", "service"}
  BY SMTT(30) DEF Created
<1>5. CASE Receive \/ ReadField \/ ReadList \/ Decoded \/ Invoke \/ Encode \/ Release \/ Send
  BY <1>3, <1>4, <1>5 DEF Receive, ReadField, ReadList, Decoded, Invoke, Encode, Release, Send
<1>6. CASE Connect \/ Disconnect \/ UNCHANGED vars
  BY <1>3, <1>4, <1>6 DEF Connect, Disconnect, vars
<1>7. ASSUME NEW m \in Methods, NEW n \in 0 .. MaxList, NEW full \in BOOLEAN, Call(m, n, full)
      PROVE  HeldInv'
  BY <1>3, <1>7 DEF Call
<1> QED
  BY <1>1, <1>2, <1>5, <1>6, <1>7 DEF Next, Server

LEMMA FreeStep == Prepared /\ FreeInv /\ [Next]_vars => FreeInv'
<1> SUFFICES ASSUME Prepared, FreeInv, [Next]_vars
             PROVE  FreeInv'
  OBVIOUS
<1>1. FaithInv'
  BY FaithStep, PreparedHandlers DEF FreeInv
<1>2. HeldInv'
  BY HeldStep DEF FreeInv, FaithInv
<1>3. MemInv'
  <2>1. CASE UNCHANGED vars
    BY <2>1, OtherMem
  <2>2. CASE Server
    BY <2>2, ReceiveMem, ReadFieldMem, ReadListMem, DecodedMem, InvokeMem, EncodeMem, ReleaseMem, OtherMem DEF Server
  <2>3. CASE Connect \/ Disconnect
    BY <2>3, OtherMem
  <2>4. ASSUME NEW m \in Methods, NEW n \in 0 .. MaxList, NEW full \in BOOLEAN, Call(m, n, full)
        PROVE  MemInv'
    BY <2>4, CallMem
  <2> QED
    BY <2>1, <2>2, <2>3, <2>4 DEF Next
<1> QED
  BY <1>1, <1>2, <1>3 DEF FreeInv

LEMMA FreeStart == Init => FreeInv
BY FaithStart, MemStart DEF FreeInv

\* What FreesAreSound and NothingKept need of the invariant.
LEMMA FreeSafe ==
    ASSUME FreeInv
    PROVE  FreesAreSound /\ NothingKept
<1>1. FreesAreSound
  <2> SUFFICES ASSUME task = "release"
               PROVE  /\ \A i \in DOMAIN Frees : Frees[i] \in DOMAIN mem /\ mem[Frees[i]] # "unset"
                      /\ \A i, j \in DOMAIN Frees : i # j /\ mem[Frees[i]] = "live" => Frees[i] # Frees[j]
    BY DEF FreesAreSound
  <2>1. call.method \in Methods /\ Using(call.method, mem, count, {}) /\ CountTypes
    BY DEF FreeInv, FaithInv, TypeInv, CallInv, Calls, Busy, MemInv
  <2>2. IsInjective(Frees) /\ \A q \in Range(Frees) : q \in DOMAIN mem /\ mem[q] # "unset"
    BY <2>1, FreesAll
  <2>3. \A i \in DOMAIN Frees : Frees[i] \in Range(Frees)
    BY DEF Range
  <2> QED
    BY <2>2, <2>3 DEF IsInjective
<1>2. NothingKept
  BY DEF FreeInv, MemInv, Shimmed, HeldInv, Created, NothingKept
<1> QED
  BY <1>1, <1>2

\* A shim frees only what was allocated or is NULL, never a member that nobody set, nor
\* anything twice, whatever fails of what it is prepared for: for every length of list,
\* and any number of faults.
THEOREM FreesSound ==
    ASSUME Prepared
    PROVE  Spec => []FreesAreSound
<1>1. FreeInv => FreesAreSound
  BY FreeSafe
<1>2. FreeInv /\ [Next]_vars => FreeInv'
  BY FreeStep
<1> QED
  BY FreeStart, <1>1, <1>2, PTL DEF Spec

\* Every call gives back all the memory it took, but for the blocks NewPLC loses, whatever
\* fails of what the shims are prepared for, and the server all it created before it is set up
\* again.
THEOREM MemoryGivenBack ==
    ASSUME Prepared
    PROVE  Spec => []NothingKept
<1>1. FreeInv => NothingKept
  BY FreeSafe
<1>2. FreeInv /\ [Next]_vars => FreeInv'
  BY FreeStep
<1> QED
  BY FreeStart, <1>1, <1>2, PTL DEF Spec
===============================================================================
