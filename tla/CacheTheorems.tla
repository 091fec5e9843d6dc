---------------------------- MODULE CacheTheorems ----------------------------
(***************************************************************************)
(* The inductive invariant of the chapter cache, for any books, chapters,  *)
(* readers and bounds: what the counters, the slot, the queues and the     *)
(* shared downloads say stays true through deletions and restarts; and the *)
(* proof that the coordinator implements ChapterOrder.                     *)
(***************************************************************************)
EXTENDS ChapterCache, SequenceTheorems, FiniteSetTheorems, TLAPS

\* InOrder lists each chapter of a finite set once: the number of chapters
\* below one is different for each, so the numbers are all those below the
\* number of chapters.
LEMMA InOrderLists ==
  ASSUME NEW S, S \subseteq Nat, IsFiniteSet(S)
  PROVE  /\ InOrder(S) \in Seq(S)
         /\ IsInjective(InOrder(S))
         /\ Range(InOrder(S)) = S
PROOF
  <1> DEFINE n == Cardinality(S)
             Below(c) == {d \in S : d < c}
             rank == [c \in S |-> Cardinality(Below(c))]
  <1>1. n \in Nat
    BY FS_CardinalityType
  <1>2. \A c \in S : rank[c] \in Nat /\ rank[c] < n
    <2> TAKE c \in S
    <2>1. Below(c) \in SUBSET S /\ Below(c) # S
      BY DEF Below
    <2>2. IsFiniteSet(Below(c)) /\ Cardinality(Below(c)) <= n /\ Cardinality(Below(c)) # n
      BY <2>1, FS_Subset
    <2>3. Cardinality(Below(c)) \in Nat
      BY <2>2, FS_CardinalityType
    <2> QED
      BY <1>1, <2>2, <2>3
  <1>3. ASSUME NEW c \in S, NEW d \in S, c < d PROVE rank[c] # rank[d]
    <2>1. Below(d) \in SUBSET S /\ Below(c) \in SUBSET Below(d) /\ Below(c) # Below(d)
      <3>1. \A e \in S : e < c => e < d
        BY <1>3
      <3>2. c \in Below(d) /\ c \notin Below(c)
        BY <1>3
      <3> QED
        BY <3>1, <3>2
    <2>2. IsFiniteSet(Below(d))
      BY <2>1, FS_Subset
    <2>3. Cardinality(Below(c)) # Cardinality(Below(d))
      <3> HIDE DEF Below
      <3> QED
        BY <2>1, <2>2, FS_Subset
    <2> QED
      BY <2>3
  <1>4. \A c, d \in S : rank[c] = rank[d] => c = d
    <2>1. \A c, d \in S : c < d \/ d < c \/ c = d
      OBVIOUS
    <2> QED
      BY <1>3, <2>1
  <1>5. \A i \in 1 .. n : \E c \in S : rank[c] = i - 1
    <2>1. rank \in [S -> 0 .. (n - 1)]
      BY <1>1, <1>2
    <2>2. rank \in Injection(S, 0 .. (n - 1))
      BY <2>1, <1>4 DEF Injection, IsInjective
    <2>3. IsFiniteSet(0 .. (n - 1)) /\ Cardinality(0 .. (n - 1)) = n
      <3>1. n - 1 \in Int /\ (0 > n - 1 <=> n = 0) /\ (n - 1) - 0 + 1 = n
        BY <1>1
      <3> QED
        BY <3>1, FS_Interval
    <2> HIDE DEF rank
    <2>4. rank \in Surjection(S, 0 .. (n - 1))
      BY <2>2, <2>3, FS_Injection
    <2> QED
      BY <1>1, <2>4 DEF Surjection
  <1> DEFINE s == InOrder(S)
  <1>6. /\ DOMAIN s = 1 .. n /\ s = [i \in 1 .. n |-> s[i]]
        /\ \A i \in 1 .. n : s[i] = CHOOSE c \in S : rank[c] = i - 1
    <2>1. \A i \in 1 .. n :
            (CHOOSE c \in S : Cardinality(Below(c)) = i - 1) = CHOOSE c \in S : rank[c] = i - 1
      OBVIOUS
    <2>2. s = [i \in 1 .. n |-> CHOOSE c \in S : Cardinality(Below(c)) = i - 1]
      BY DEF InOrder
    <2> HIDE DEF s, rank, Below
    <2> QED
      BY <2>1, <2>2
  <1> HIDE DEF rank, s
  <1>7. \A i \in 1 .. n : s[i] \in S /\ rank[s[i]] = i - 1
    BY <1>5, <1>6
  <1>9. s \in Seq(S)
    BY <1>1, <1>6, <1>7, IsASeq
  <1>10. IsInjective(s)
    BY <1>1, <1>6, <1>7 DEF IsInjective
  <1>11. S \subseteq Range(s)
    <2> SUFFICES ASSUME NEW c \in S PROVE c \in Range(s)
      OBVIOUS
    <2>1. rank[c] + 1 \in 1 .. n
      BY <1>1, <1>2
    <2>2. s[rank[c] + 1] \in S /\ rank[s[rank[c] + 1]] = rank[c]
      <3>1. rank[s[rank[c] + 1]] = (rank[c] + 1) - 1
        BY <2>1, <1>7
      <3> QED
        BY <2>1, <1>7, <1>2, <3>1
    <2>3. s[rank[c] + 1] = c
      BY <2>2, <1>4
    <2> QED
      BY <2>1, <2>3, <1>6 DEF Range
  <1>12. Range(s) \subseteq S
    BY <1>6, <1>7 DEF Range
  <1> QED
    BY <1>9, <1>10, <1>11, <1>12 DEF s

\* Lists without doubles, put together.
LEMMA ConcatLists ==
  ASSUME NEW S, NEW s \in Seq(S), NEW t \in Seq(S),
         IsInjective(s), IsInjective(t), Range(s) \cap Range(t) = {}
  PROVE  /\ s \o t \in Seq(S)
         /\ IsInjective(s \o t)
         /\ Range(s \o t) = Range(s) \cup Range(t)
PROOF
  <1>1. /\ s \o t \in Seq(S) /\ Len(s \o t) = Len(s) + Len(t)
        /\ \A i \in 1 .. Len(s) + Len(t) :
             (s \o t)[i] = IF i <= Len(s) THEN s[i] ELSE t[i - Len(s)]
    BY ConcatProperties
  <1>2. /\ Len(s) \in Nat /\ Len(t) \in Nat
        /\ DOMAIN s = 1 .. Len(s) /\ DOMAIN t = 1 .. Len(t)
        /\ DOMAIN (s \o t) = 1 .. Len(s) + Len(t)
    BY <1>1, LenProperties
  <1>3. ASSUME NEW i \in 1 .. Len(s) + Len(t), NEW j \in 1 .. Len(s) + Len(t),
               (s \o t)[i] = (s \o t)[j]
        PROVE  i = j
    <2>1. CASE i <= Len(s) /\ j <= Len(s)
      <3>1. s[i] = s[j] /\ i \in DOMAIN s /\ j \in DOMAIN s
        BY <1>1, <1>2, <1>3, <2>1
      <3> QED
        BY <3>1 DEF IsInjective
    <2>2. CASE ~(i <= Len(s)) /\ ~(j <= Len(s))
      <3>1. t[i - Len(s)] = t[j - Len(s)]
        BY <1>1, <1>3, <2>2
      <3>2. i - Len(s) \in DOMAIN t /\ j - Len(s) \in DOMAIN t
        BY <1>2, <2>2
      <3>3. i - Len(s) = j - Len(s)
        BY <3>1, <3>2 DEF IsInjective
      <3> QED
        BY <1>2, <3>3
    <2>3. CASE i <= Len(s) /\ ~(j <= Len(s))
      <3>1. s[i] = t[j - Len(s)] /\ i \in DOMAIN s /\ j - Len(s) \in DOMAIN t
        BY <1>1, <1>2, <1>3, <2>3
      <3> QED
        BY <3>1 DEF Range
    <2>4. CASE ~(i <= Len(s)) /\ j <= Len(s)
      <3>1. s[j] = t[i - Len(s)] /\ j \in DOMAIN s /\ i - Len(s) \in DOMAIN t
        BY <1>1, <1>2, <1>3, <2>4
      <3> QED
        BY <3>1 DEF Range
    <2> QED
      BY <2>1, <2>2, <2>3, <2>4
  <1>4. IsInjective(s \o t)
    BY <1>2, <1>3 DEF IsInjective
  <1> QED
    BY <1>1, <1>4, RangeConcatenation

\* The empty list and a list of one.
LEMMA ShortLists ==
  ASSUME NEW S, NEW c \in S
  PROVE  /\ <<>> \in Seq(S) /\ IsInjective(<<>>) /\ Range(<<>>) = {}
         /\ <<c>> \in Seq(S) /\ IsInjective(<<c>>) /\ Range(<<c>>) = {c}
PROOF
  BY DEF IsInjective, Range

\* A list without doubles, its head and its tail.
LEMMA HeadAndTail ==
  ASSUME NEW S, NEW s \in Seq(S), s # <<>>, IsInjective(s)
  PROVE  /\ Head(s) \in S /\ Head(s) \in Range(s)
         /\ Tail(s) \in Seq(S) /\ IsInjective(Tail(s))
         /\ Range(Tail(s)) = Range(s) \ {Head(s)}
         /\ s = <<Head(s)>> \o Tail(s)
PROOF
  <1>1. Len(s) \in Nat /\ Len(s) # 0 /\ DOMAIN s = 1 .. Len(s) /\ s[1] = Head(s)
    BY EmptySeq, LenProperties
  <1>2. /\ Head(s) \in S /\ Tail(s) \in Seq(S) /\ Len(Tail(s)) = Len(s) - 1
        /\ \A i \in 1 .. Len(s) - 1 : Tail(s)[i] = s[i + 1]
    BY HeadTailProperties
  <1>3. DOMAIN Tail(s) = 1 .. Len(s) - 1
    BY <1>2, LenProperties
  <1>4. IsInjective(Tail(s))
    BY <1>1, <1>2, <1>3 DEF IsInjective
  <1>5. Head(s) \in Range(s)
    BY <1>1 DEF Range
  <1>6. ASSUME NEW x PROVE x \in Range(Tail(s)) <=> x \in Range(s) /\ x # Head(s)
    <2>1. ASSUME x \in Range(Tail(s)) PROVE x \in Range(s) /\ x # Head(s)
      <3>1. PICK i \in 1 .. Len(s) - 1 : x = s[i + 1]
        BY <2>1, <1>2, <1>3 DEF Range
      <3>2. i + 1 \in DOMAIN s /\ 1 \in DOMAIN s /\ i + 1 # 1
        BY <1>1, <3>1
      <3> QED
        BY <3>1, <3>2, <1>1 DEF Range, IsInjective
    <2>2. ASSUME x \in Range(s), x # Head(s) PROVE x \in Range(Tail(s))
      <3>1. PICK i \in 1 .. Len(s) : x = s[i]
        BY <2>2, <1>1 DEF Range
      <3>2. i # 1
        BY <2>2, <3>1, <1>1
      <3>3. i - 1 \in 1 .. Len(s) - 1 /\ (i - 1) + 1 = i
        BY <1>1, <3>2
      <3>4. x = Tail(s)[i - 1] /\ i - 1 \in DOMAIN Tail(s)
        <4>1. Tail(s)[i - 1] = s[(i - 1) + 1]
          BY <1>2, <3>3
        <4> QED
          BY <3>1, <3>3, <1>3, <4>1
      <3> QED
        BY <3>4 DEF Range
    <2> QED
      BY <2>1, <2>2
  <1>7. s = <<Head(s)>> \o Tail(s)
    <2>1. <<Head(s)>> \in Seq(S) /\ Len(<<Head(s)>>) = 1 /\ <<Head(s)>>[1] = Head(s)
      BY <1>2
    <2>2. /\ <<Head(s)>> \o Tail(s) \in Seq(S)
          /\ Len(<<Head(s)>> \o Tail(s)) = 1 + (Len(s) - 1)
          /\ \A i \in 1 .. 1 + (Len(s) - 1) : (<<Head(s)>> \o Tail(s))[i] =
               IF i <= 1 THEN <<Head(s)>>[i] ELSE Tail(s)[i - 1]
      BY <2>1, <1>2, ConcatProperties
    <2>3. ASSUME NEW i \in 1 .. Len(s) PROVE s[i] = (<<Head(s)>> \o Tail(s))[i]
      <3>1. CASE i = 1
        BY <3>1, <1>1, <2>1, <2>2
      <3>2. CASE i # 1
        <4>1. i - 1 \in 1 .. Len(s) - 1 /\ (i - 1) + 1 = i /\ ~(i <= 1) /\ i \in 1 .. 1 + (Len(s) - 1)
          BY <1>1, <3>2
        <4>2. Tail(s)[i - 1] = s[(i - 1) + 1]
          BY <4>1, <1>2
        <4> QED
          BY <4>1, <4>2, <2>2
      <3> QED
        BY <3>1, <3>2
    <2>4. Len(s) = Len(<<Head(s)>> \o Tail(s))
      BY <1>1, <2>2
    <2> QED
      BY <2>2, <2>3, <2>4, SeqEqual, Zenon
  <1> QED
    BY <1>2, <1>4, <1>5, <1>6, <1>7

\* A list with one more at its head.
LEMMA PutFirst ==
  ASSUME NEW S, NEW s \in Seq(S), NEW c \in S
  PROVE  /\ <<c>> \o s \in Seq(S) /\ <<c>> \o s # <<>>
         /\ Head(<<c>> \o s) = c /\ Tail(<<c>> \o s) = s
PROOF
  <1>1. <<c>> \in Seq(S) /\ Len(<<c>>) = 1 /\ <<c>>[1] = c /\ Len(s) \in Nat
    BY LenProperties
  <1>2. /\ <<c>> \o s \in Seq(S) /\ Len(<<c>> \o s) = 1 + Len(s)
        /\ \A i \in 1 .. 1 + Len(s) :
             (<<c>> \o s)[i] = IF i <= 1 THEN <<c>>[i] ELSE s[i - 1]
    BY <1>1, ConcatProperties
  <1>3. <<c>> \o s # <<>>
    <2>1. Len(<<c>> \o s) # 0
      BY <1>1, <1>2
    <2> QED
      BY <2>1, EmptySeq
  <1>4. Head(<<c>> \o s) = c
    BY <1>1, <1>2, <1>3
  <1>5. /\ Tail(<<c>> \o s) \in Seq(S)
        /\ Len(Tail(<<c>> \o s)) = Len(<<c>> \o s) - 1
        /\ \A i \in 1 .. Len(Tail(<<c>> \o s)) : Tail(<<c>> \o s)[i] = (<<c>> \o s)[i + 1]
    BY <1>2, <1>3, HeadTailProperties
  <1>6. Len(Tail(<<c>> \o s)) = Len(s)
    BY <1>1, <1>2, <1>5
  <1>7. ASSUME NEW i \in 1 .. Len(Tail(<<c>> \o s)) PROVE Tail(<<c>> \o s)[i] = s[i]
    <2>1. i + 1 \in 1 .. 1 + Len(s) /\ ~(i + 1 <= 1) /\ (i + 1) - 1 = i
      BY <1>1, <1>6
    <2>2. (<<c>> \o s)[i + 1] = s[(i + 1) - 1]
      BY <2>1, <1>2
    <2> QED
      BY <2>1, <2>2, <1>5
  <1>8. Tail(<<c>> \o s) = s
    BY <1>5, <1>6, <1>7, SeqEqual, Zenon
  <1> QED
    BY <1>2, <1>3, <1>4, <1>8

\* A list without doubles, and one taken out of it.
LEMMA TakenOut ==
  ASSUME NEW S, NEW s \in Seq(S), IsInjective(s), NEW i \in DOMAIN s
  PROVE  /\ RemoveAt(s, i) \in Seq(S)
         /\ IsInjective(RemoveAt(s, i))
         /\ Range(RemoveAt(s, i)) = Range(s) \ {s[i]}
         /\ i # 1 => Head(RemoveAt(s, i)) = Head(s)
PROOF
  <1> DEFINE n == Len(s)
             u == SubSeq(s, 1, i - 1)
             v == SubSeq(s, i + 1, n)
  <1>1. n \in Nat /\ DOMAIN s = 1 .. n /\ i \in 1 .. n /\ i - 1 \in Int /\ i + 1 \in Int
    BY LenProperties
  <1>2. \A j \in 1 .. n : s[j] \in S
    BY <1>1, ElementOfSeq
  <1>3. /\ u \in Seq(S) /\ Len(u) = i - 1
        /\ \A j \in 1 .. i - 1 : u[j] = s[j]
    <2>1. \A j \in 1 .. i - 1 : s[j] \in S
      BY <1>1, <1>2
    <2>2. /\ u \in Seq(S) /\ Len(u) = IF 1 <= i - 1 THEN (i - 1) - 1 + 1 ELSE 0
          /\ \A j \in 1 .. (i - 1) - 1 + 1 : u[j] = s[1 + j - 1]
      BY <1>1, <2>1, SubSeqProperties
    <2>3. (i - 1) - 1 + 1 = i - 1 /\ (~(1 <= i - 1) => i - 1 = 0)
      BY <1>1
    <2>4. \A j \in 1 .. i - 1 : 1 + j - 1 = j
      OBVIOUS
    <2> HIDE DEF u
    <2> QED
      BY <2>2, <2>3, <2>4
  <1>4. /\ v \in Seq(S) /\ Len(v) = n - i
        /\ \A j \in 1 .. n - i : v[j] = s[i + j]
    <2>1. \A j \in i + 1 .. n : s[j] \in S
      BY <1>1, <1>2
    <2>2. /\ v \in Seq(S) /\ Len(v) = IF i + 1 <= n THEN n - (i + 1) + 1 ELSE 0
          /\ \A j \in 1 .. n - (i + 1) + 1 : v[j] = s[(i + 1) + j - 1]
      BY <1>1, <2>1, SubSeqProperties
    <2>3. n - (i + 1) + 1 = n - i /\ (~(i + 1 <= n) => n - i = 0)
      BY <1>1
    <2>4. \A j \in 1 .. n - i : (i + 1) + j - 1 = i + j
      BY <1>1
    <2> HIDE DEF v, n
    <2> QED
      BY <2>2, <2>3, <2>4
  <1> HIDE DEF u, v
  <1>5. RemoveAt(s, i) = u \o v
    BY DEF RemoveAt, u, v
  <1>6. DOMAIN u = 1 .. i - 1 /\ DOMAIN v = 1 .. n - i
    BY <1>3, <1>4, LenProperties
  <1> HIDE DEF n
  <1>7. IsInjective(u)
    BY <1>1, <1>3, <1>6 DEF IsInjective
  <1>8. IsInjective(v)
    <2> SUFFICES ASSUME NEW a \in 1 .. n - i, NEW b \in 1 .. n - i, v[a] = v[b] PROVE a = b
      BY <1>6 DEF IsInjective
    <2>1. s[i + a] = s[i + b] /\ i + a \in DOMAIN s /\ i + b \in DOMAIN s
      BY <1>1, <1>4
    <2>2. i + a = i + b
      BY <2>1 DEF IsInjective
    <2> QED
      BY <2>2, <1>1
  <1>9. \A x : x \in Range(u) <=> \E j \in 1 .. i - 1 : x = s[j]
    BY <1>3, <1>6 DEF Range
  <1>10. \A x : x \in Range(v) <=> \E j \in 1 .. n - i : x = s[i + j]
    BY <1>4, <1>6 DEF Range
  <1>11. Range(u) \cap Range(v) = {}
    <2> SUFFICES ASSUME NEW j \in 1 .. i - 1, NEW k \in 1 .. n - i, s[j] = s[i + k] PROVE FALSE
      BY <1>9, <1>10
    <2>1. j \in DOMAIN s /\ i + k \in DOMAIN s /\ j # i + k
      BY <1>1
    <2> QED
      BY <2>1 DEF IsInjective
  <1>12. /\ u \o v \in Seq(S) /\ IsInjective(u \o v)
         /\ Range(u \o v) = Range(u) \cup Range(v)
    BY <1>3, <1>4, <1>7, <1>8, <1>11, ConcatLists
  <1>13. ASSUME NEW x
         PROVE  x \in Range(u) \/ x \in Range(v) <=> x \in Range(s) /\ x # s[i]
    <2>1. ASSUME NEW j \in 1 .. i - 1, x = s[j] PROVE x \in Range(s) /\ x # s[i]
      <3>1. j \in DOMAIN s /\ j # i
        BY <1>1
      <3> QED
        BY <2>1, <3>1 DEF Range, IsInjective
    <2>2. ASSUME NEW j \in 1 .. n - i, x = s[i + j] PROVE x \in Range(s) /\ x # s[i]
      <3>1. i + j \in DOMAIN s /\ i + j # i
        BY <1>1
      <3> QED
        BY <2>2, <3>1 DEF Range, IsInjective
    <2>3. ASSUME x \in Range(s), x # s[i] PROVE x \in Range(u) \/ x \in Range(v)
      <3>1. PICK j \in 1 .. n : x = s[j]
        BY <2>3, <1>1 DEF Range
      <3>2. j # i
        BY <2>3, <3>1
      <3>3. CASE j < i
        <4>1. j \in 1 .. i - 1
          BY <1>1, <3>3
        <4> QED
          BY <4>1, <3>1, <1>9
      <3>4. CASE j > i
        <4>1. j - i \in 1 .. n - i /\ i + (j - i) = j
          BY <1>1, <3>4
        <4>2. x = s[i + (j - i)]
          BY <3>1, <4>1
        <4> QED
          BY <4>1, <4>2, <1>10
      <3> QED
        BY <1>1, <3>2, <3>3, <3>4
    <2> QED
      BY <1>9, <1>10, <2>1, <2>2, <2>3
  <1>14. ASSUME i # 1 PROVE Head(u \o v) = Head(s)
    <2>1. Len(u) \in Nat /\ Len(v) \in Nat /\ 1 <= Len(u) /\ 1 \in 1 .. Len(u) + Len(v) /\ 1 \in 1 .. i - 1
      BY <1>1, <1>3, <1>4, <1>14
    <2>2. (u \o v)[1] = u[1] /\ Len(u \o v) = Len(u) + Len(v)
      <3>1. /\ Len(u \o v) = Len(u) + Len(v)
            /\ \A k \in 1 .. Len(u) + Len(v) :
                 (u \o v)[k] = IF k <= Len(u) THEN u[k] ELSE v[k - Len(u)]
        BY <1>3, <1>4, ConcatProperties
      <3> QED
        BY <2>1, <3>1
    <2>3. u[1] = s[1]
      BY <2>1, <1>3
    <2>4. u \o v # <<>> /\ s # <<>>
      <3>1. Len(u \o v) # 0 /\ n # 0
        BY <2>1, <2>2, <1>1
      <3> QED
        BY <3>1, EmptySeq DEF n
    <2>5. Head(u \o v) = (u \o v)[1]
      BY <2>4, <1>12
    <2>6. Head(s) = s[1]
      BY <2>4
    <2> QED
      BY <2>2, <2>3, <2>5, <2>6
  <1> QED
    BY <1>5, <1>12, <1>13, <1>14

-----------------------------------------------------------------------------
Inv == Coherent /\ AwaitedIsLive

\* There are finitely many chapters.
LEMMA KeysAreFinite == IsFiniteSet(Keys)
PROOF
  <1> DEFINE F == [b \in Books |-> {b} \X ChaptersOf[b]]
  <1>1. IsFiniteSet(Books) /\ \A b \in Books : IsFiniteSet(ChaptersOf[b])
    BY CacheAssumption
  <1>2. \A b \in Books : IsFiniteSet({b} \X ChaptersOf[b])
    BY <1>1, FS_Singleton, FS_Product
  <1>3. IsFiniteSet({F[b] : b \in Books})
    <2>1. F \in Surjection(Books, {F[b] : b \in Books})
      BY DEF Surjection
    <2> HIDE DEF F
    <2> QED
      BY <1>1, <2>1, FS_Surjection
  <1>4. \A X \in {F[b] : b \in Books} : IsFiniteSet(X)
    BY <1>2
  <1>5. IsFiniteSet(UNION {F[b] : b \in Books})
    BY <1>3, <1>4, FS_UNION
  <1>6. Keys = UNION {F[b] : b \in Books}
    BY DEF Keys
  <1> QED
    BY <1>5, <1>6

\* A chapter's key is its book and its number.
LEMMA KeyParts ==
  /\ \A k \in Keys : k = <<k[1], k[2]>> /\ k[1] \in Books /\ k[2] \in ChaptersOf[k[1]]
  /\ \A b \in Books : \A c \in ChaptersOf[b] : <<b, c>> \in Keys
  /\ \A b \in Books : ChaptersOf[b] \subseteq Nat /\ 0 \notin ChaptersOf[b]
PROOF
  BY CacheAssumption DEF Keys

\* Nobody, NoWorker and NewWorker are recognised by their first field.
LEMMA Workers ==
  ASSUME TypeOK, NEW b \in Books
  PROVE  /\ worker[b] \in [at : WorkerStates, chapter : Nat]
         /\ worker[b] = NoWorker <=> worker[b].at = "none"
         /\ worker[b] = NewWorker <=> worker[b].at = "new"
PROOF
  <1>1. worker[b] \in [at : WorkerStates, chapter : Nat]
    BY DEF TypeOK
  <1>2. worker[b] = [at |-> worker[b].at, chapter |-> worker[b].chapter]
    BY <1>1
  <1>3. worker[b].at \in {"none", "new"} => worker[b].chapter = 0
    BY DEF TypeOK
  <1> QED
    BY <1>1, <1>2, <1>3 DEF NoWorker, NewWorker

\* The sections there are at a time are finitely many.
LEMMA SectionsAreFinite ==
  ASSUME NEW X, X \subseteq (Readers \X {1}) \cup (Keys \X {2})
  PROVE  IsFiniteSet(X)
PROOF
  <1>1. IsFiniteSet(Readers) /\ IsFiniteSet(Keys) /\ IsFiniteSet({1}) /\ IsFiniteSet({2})
    BY CacheAssumption, KeysAreFinite, FS_Singleton
  <1>2. IsFiniteSet(Readers \X {1}) /\ IsFiniteSet(Keys \X {2})
    BY <1>1, FS_Product
  <1>3. IsFiniteSet((Readers \X {1}) \cup (Keys \X {2}))
    BY <1>2, FS_Union
  <1> QED
    BY <1>3, FS_Subset

\* What a server has to fetch of a book.
LEMMA MissingLists ==
  ASSUME NEW b \in Books, NEW X, X \subseteq ChaptersOf[b]
  PROVE  /\ InOrder(X) \in Seq(ChaptersOf[b])
         /\ IsInjective(InOrder(X))
         /\ Range(InOrder(X)) = X
         /\ InOrder(X) = <<>> <=> X = {}
PROOF
  <1>1. IsFiniteSet(X) /\ X \subseteq Nat
    BY CacheAssumption, FS_Subset
  <1>2. InOrder(X) \in Seq(X) /\ IsInjective(InOrder(X)) /\ Range(InOrder(X)) = X
    BY <1>1, InOrderLists
  <1>3. InOrder(X) \in Seq(ChaptersOf[b])
    BY <1>2, SeqMonotonic
  <1>4. InOrder(X) = <<>> => X = {}
    <2>1. InOrder(X) = <<>> => Range(InOrder(X)) = {}
      BY DEF Range
    <2> QED
      BY <1>2, <2>1
  <1>5. X = {} => InOrder(X) = <<>>
    <2>1. X = {} => Len(InOrder(X)) = 0
      <3>1. X = {} => Cardinality(X) = 0
        BY FS_EmptySet
      <3>2. Len(InOrder(X)) \in Nat /\ DOMAIN InOrder(X) = 1 .. Len(InOrder(X))
        BY <1>2, LenProperties
      <3>3. DOMAIN InOrder(X) = 1 .. Cardinality(X)
        BY DEF InOrder
      <3> QED
        BY <3>1, <3>2, <3>3
    <2> QED
      BY <1>2, <2>1, EmptySeq
  <1> QED
    BY <1>2, <1>3, <1>4, <1>5

\* A start leaves queues, workers and _queued as the missing chapters say.
LEMMA StartupTypes ==
  ASSUME TypeOK, NEW stored, Startup(stored)
  PROVE  /\ DOMAIN queue' = Books
         /\ \A b \in Books : queue'[b] \in Seq(ChaptersOf[b])
         /\ queued' \subseteq Keys
         /\ worker' \in [Books -> {NoWorker, NewWorker}]
         /\ \A b \in Books :
              /\ IsInjective(queue'[b])
              /\ Range(queue'[b]) = {c \in ChaptersOf[b] : <<b, c>> \in queued'}
              /\ queue'[b] # <<>> => worker'[b] = NewWorker
PROOF
  <1> DEFINE books == {b \in Managed : fate[b] # "gone" /\ Missing(b, stored) # {}}
  <1>1. /\ queue' = [b \in Books |-> IF b \in books THEN InOrder(Missing(b, stored)) ELSE <<>>]
        /\ queued' = UNION {{b} \X Missing(b, stored) : b \in books}
        /\ worker' = [b \in Books |-> IF b \in books THEN NewWorker ELSE NoWorker]
    BY DEF Startup
  <1>2. books \subseteq Books /\ \A b \in Books : Missing(b, stored) \subseteq ChaptersOf[b]
    BY CacheAssumption DEF Missing
  <1> HIDE DEF books
  <1>3. \A b \in Books : \A c : <<b, c>> \in queued' <=> b \in books /\ c \in Missing(b, stored)
    BY <1>1
  <1>4. queued' \subseteq Keys
    BY <1>1, <1>2 DEF Keys
  <1>5. ASSUME NEW b \in Books
        PROVE  /\ queue'[b] \in Seq(ChaptersOf[b]) /\ IsInjective(queue'[b])
               /\ Range(queue'[b]) = {c \in ChaptersOf[b] : <<b, c>> \in queued'}
    <2>1. CASE b \in books
      <3>1. queue'[b] = InOrder(Missing(b, stored))
        BY <2>1, <1>1
      <3>2. {c \in ChaptersOf[b] : <<b, c>> \in queued'} = Missing(b, stored)
        BY <2>1, <1>2, <1>3
      <3> QED
        BY <3>1, <3>2, <1>2, MissingLists
    <2>2. CASE b \notin books
      <3>1. queue'[b] = <<>>
        BY <2>2, <1>1
      <3>2. {c \in ChaptersOf[b] : <<b, c>> \in queued'} = {}
        BY <2>2, <1>3
      <3> QED
        BY <3>1, <3>2 DEF IsInjective, Range
    <2> QED
      BY <2>1, <2>2
  <1>6. \A b \in Books : queue'[b] # <<>> => worker'[b] = NewWorker
    BY <1>1
  <1> QED
    BY <1>1, <1>4, <1>5, <1>6

\* A queue that a schedule extends.
LEMMA ScheduleTypes ==
  ASSUME TypeOK, NEW b \in Books, NEW chapters, chapters \subseteq ChaptersOf[b]
  PROVE  /\ InOrder({c \in chapters : <<b, c>> \notin queued}) \in Seq(ChaptersOf[b])
         /\ queue[b] \o InOrder({c \in chapters : <<b, c>> \notin queued}) \in Seq(ChaptersOf[b])
PROOF
  <1> DEFINE X == {c \in chapters : <<b, c>> \notin queued}
  <1>1. InOrder(X) \in Seq(ChaptersOf[b])
    BY MissingLists
  <1>2. queue[b] \in Seq(ChaptersOf[b])
    BY DEF TypeOK
  <1> HIDE DEF X
  <1>3. queue[b] \o InOrder(X) \in Seq(ChaptersOf[b])
    BY <1>1, <1>2, ConcatProperties
  <1> QED
    BY <1>1, <1>3 DEF X

\* The next chapter a worker takes is one of its book.
LEMMA TakeNextTypes ==
  ASSUME TypeOK, NEW b \in Books, NEW chapters \in Seq(ChaptersOf[b]), TakeNext(b, chapters)
  PROVE  /\ DOMAIN queue' = Books
         /\ \A a \in Books : queue'[a] \in Seq(ChaptersOf[a])
         /\ worker' \in [Books -> [at : WorkerStates, chapter : Nat]]
         /\ \A a \in Books :
              IF worker'[a].at \in {"none", "new"}
              THEN worker'[a].chapter = 0 ELSE worker'[a].chapter \in ChaptersOf[a]
PROOF
  <1>1. DOMAIN queue = Books /\ \A a \in Books : queue[a] \in Seq(ChaptersOf[a])
    BY DEF TypeOK
  <1>2. /\ worker \in [Books -> [at : WorkerStates, chapter : Nat]]
        /\ \A a \in Books :
             IF worker[a].at \in {"none", "new"}
             THEN worker[a].chapter = 0 ELSE worker[a].chapter \in ChaptersOf[a]
    BY DEF TypeOK
  <1>3. CASE chapters = <<>>
    <2>1. /\ worker' = [worker EXCEPT ![b] = NoWorker] /\ queue' = [queue EXCEPT ![b] = <<>>]
      BY <1>3 DEF TakeNext
    <2>2. NoWorker \in [at : WorkerStates, chapter : Nat] /\ NoWorker.at = "none" /\ NoWorker.chapter = 0
      BY DEF NoWorker, WorkerStates
    <2>3. <<>> \in Seq(ChaptersOf[b])
      BY EmptySeq
    <2> QED
      BY <1>1, <1>2, <2>1, <2>2, <2>3
  <1>4. CASE chapters # <<>>
    <2> DEFINE w == [at |-> IF idle THEN "yield" ELSE "pause", chapter |-> Head(chapters)]
    <2>1. worker' = [worker EXCEPT ![b] = w] /\ queue' = [queue EXCEPT ![b] = Tail(chapters)]
      BY <1>4 DEF TakeNext
    <2>2. Head(chapters) \in ChaptersOf[b] /\ Tail(chapters) \in Seq(ChaptersOf[b])
      BY <1>4, HeadTailProperties
    <2>3. w \in [at : WorkerStates, chapter : Nat] /\ w.at \notin {"none", "new"} /\ w.chapter \in ChaptersOf[b]
      BY <2>2, KeyParts DEF WorkerStates
    <2> HIDE DEF w
    <2> QED
      BY <1>1, <1>2, <2>1, <2>2, <2>3
  <1> QED
    BY <1>3, <1>4

\* A download that ends, whatever its outcome.
LEMMA DownloadStepShape ==
  ASSUME TypeOK, NEW k \in Keys, DownloadStep(k)
  PROVE  \E outcome \in Outcomes :
           /\ DownloadEnds(k, outcome)
           /\ download[k] # "none"
           /\ cached' = cached \/ (cached' = cached \cup {k} /\ fate[k[1]] # "gone")
PROOF
  BY DEF DownloadStep, Downloaded, DownloadFails, DownloadCancelled, Stored, Outcomes

\* A new process or coordinator, orderly or not.
LEMMA StartShape ==
  ASSUME TypeOK, Restart \/ Shutdown
  PROVE  \E stored : /\ StartsOn(stored)
                     /\ cached \subseteq stored /\ stored \subseteq Keys
                     /\ \A k \in stored \ cached : fate[k[1]] # "gone"
PROOF
  <1>1. CASE Restart
    BY <1>1 DEF Restart, TypeOK
  <1>2. CASE Shutdown
    <2>1. PICK committing \in SUBSET {k \in Keys : download[k] # "none"} :
            StartsOn(cached \cup {k \in committing : fate[k[1]] # "gone"})
      BY <1>2 DEF Shutdown
    <2> DEFINE stored == cached \cup {k \in committing : fate[k[1]] # "gone"}
    <2>2. /\ StartsOn(stored) /\ cached \subseteq stored /\ stored \subseteq Keys
          /\ \A k \in stored \ cached : fate[k[1]] # "gone"
      BY <2>1 DEF TypeOK
    <2> HIDE DEF stored
    <2> QED
      BY <2>2
  <1> QED
    BY <1>1, <1>2

\* Who is in the slot, or in line for it: without doubles.
LEMMA SlotFacts ==
  ASSUME TypeOK, OneInBackground, NEW b \in Books
  PROVE  /\ slot \in Seq(Books) /\ IsInjective(slot)
         /\ At(b) \in {"slot"} \cup PastLine <=> b \in Range(slot)
         /\ b \in Range(slot) =>
              /\ slot # <<>>
              /\ (CHOOSE i \in DOMAIN slot : slot[i] = b) \in DOMAIN slot
              /\ slot[CHOOSE i \in DOMAIN slot : slot[i] = b] = b
         /\ leaving[b] = Nobody => At(b) = worker[b].at
         /\ leaving[b] # Nobody => At(b) = leaving[b].at /\ worker[b].at \in {"none", "new"}
PROOF
  <1>1. slot \in Seq(Books) /\ IsInjective(slot)
    BY DEF TypeOK, OneInBackground
  <1>2. At(b) \in {"slot"} \cup PastLine <=> b \in Range(slot)
    BY DEF OneInBackground
  <1>3. b \in Range(slot) => \E i \in DOMAIN slot : slot[i] = b
    BY DEF Range
  <1>4. b \in Range(slot) => slot # <<>>
    BY <1>3
  <1> QED
    BY <1>1, <1>2, <1>3, <1>4 DEF At, OneInBackground

\* A worker in the slot whose download has ended has the slot, and is not leaving.
LEMMA WakingWorker ==
  ASSUME TypeOK, OneInBackground, NEW b \in Books,
         worker[b].at \notin {"none", "new"}
  PROVE  leaving[b] = Nobody /\ At(b) = worker[b].at
PROOF
  BY SlotFacts

\* Every step keeps the types.
LEMMA TypesStay ==
  ASSUME TypeOK, OneInBackground, [Next]_vars
  PROVE  TypeOK'
PROOF
  <1>1. ASSUME NEW b \in Books, Schedule(b) PROVE TypeOK'
    <2>1. PICK chapters \in SUBSET Missing(b, cached) :
            /\ queue' = [queue EXCEPT ![b] =
                           queue[b] \o InOrder({c \in chapters : <<b, c>> \notin queued})]
            /\ queued' = queued \cup ({b} \X {c \in chapters : <<b, c>> \notin queued})
            /\ worker' = worker \/ worker' = [worker EXCEPT ![b] = NewWorker]
      BY <1>1 DEF Schedule
    <2>2. chapters \subseteq ChaptersOf[b]
      BY DEF Missing
    <2>3. queue[b] \o InOrder({c \in chapters : <<b, c>> \notin queued}) \in Seq(ChaptersOf[b])
      BY <2>2, ScheduleTypes
    <2>4. DOMAIN queue' = Books /\ \A a \in Books : queue'[a] \in Seq(ChaptersOf[a])
      BY <2>1, <2>3 DEF TypeOK
    <2>5. queued' \subseteq Keys
      BY <2>1, <2>2, KeyParts DEF TypeOK
    <2>6. /\ worker' \in [Books -> [at : WorkerStates, chapter : Nat]]
          /\ \A a \in Books :
               IF worker'[a].at \in {"none", "new"}
               THEN worker'[a].chapter = 0 ELSE worker'[a].chapter \in ChaptersOf[a]
      <3>1. NewWorker \in [at : WorkerStates, chapter : Nat] /\ NewWorker.at = "new" /\ NewWorker.chapter = 0
        BY DEF NewWorker, WorkerStates
      <3>2. /\ worker \in [Books -> [at : WorkerStates, chapter : Nat]]
            /\ \A a \in Books :
                 IF worker[a].at \in {"none", "new"}
                 THEN worker[a].chapter = 0 ELSE worker[a].chapter \in ChaptersOf[a]
        BY DEF TypeOK
      <3> HIDE DEF NewWorker
      <3> QED
        BY <2>1, <3>1, <3>2
    <2> QED
      BY <1>1, <2>4, <2>5, <2>6 DEF Schedule, foreground, deletion, TypeOK
  <1>2. ASSUME NEW b \in Books, WorkerStarts(b) \/ WorkerWakes(b) PROVE TypeOK'
    <2>1. queue[b] \in Seq(ChaptersOf[b])
      BY DEF TypeOK
    <2>2. ASSUME worker[b].at \in Outcomes
          PROVE  <<worker[b].chapter>> \o queue[b] \in Seq(ChaptersOf[b])
      <3>1. worker[b].chapter \in ChaptersOf[b]
        BY <2>2 DEF TypeOK, Outcomes
      <3> QED
        BY <2>1, <3>1, PutFirst
    <2>3. PICK chapters \in Seq(ChaptersOf[b]) : TakeNext(b, chapters)
      BY <1>2, <2>1, <2>2 DEF WorkerStarts, WorkerWakes
    <2>4. slot' \in Seq(Books)
      <3>1. CASE WorkerStarts(b)
        BY <3>1 DEF WorkerStarts, TypeOK
      <3>2. CASE WorkerWakes(b)
        <4>1. slot' = Tail(slot) /\ worker[b].at \in Outcomes
          BY <3>2 DEF WorkerWakes
        <4>2. worker[b].at \in {"slot"} \cup PastLine /\ leaving[b] = Nobody
          BY <4>1, WakingWorker DEF Outcomes, PastLine, Fetching
        <4>3. slot # <<>> /\ slot \in Seq(Books)
          BY <4>2, SlotFacts
        <4> QED
          BY <4>1, <4>3, HeadTailProperties
      <3> QED
        BY <1>2, <3>1, <3>2
    <2>5. queued' \subseteq Keys /\ background' \in Keys \cup {NoKey}
      BY <1>2 DEF WorkerStarts, WorkerWakes, TypeOK
    <2> QED
      BY <1>2, <2>3, <2>4, <2>5, TakeNextTypes
        DEF WorkerStarts, WorkerWakes, foreground, deletion, TypeOK
  <1>3. ASSUME NEW b \in Books,
               WorkerResumes(b) \/ WorkerQueuesForSlot(b) \/ WorkerHasSlot(b) \/ WorkerResumesInSlot(b)
        PROVE  TypeOK'
    <2>1. worker[b].at \notin {"none", "new"} /\ worker[b].chapter \in ChaptersOf[b]
      BY <1>3 DEF WorkerResumes, WorkerQueuesForSlot, WorkerHasSlot, WorkerResumesInSlot, TypeOK
    <2>2. \E at \in WorkerStates \ {"none", "new"} : worker' = [worker EXCEPT ![b].at = at]
      BY <1>3 DEF WorkerResumes, WorkerQueuesForSlot, WorkerHasSlot, WorkerResumesInSlot,
                  InSlot, BeginDownload, WorkerStates, Outcomes
    <2>3. /\ worker' \in [Books -> [at : WorkerStates, chapter : Nat]]
          /\ \A a \in Books :
               IF worker'[a].at \in {"none", "new"}
               THEN worker'[a].chapter = 0 ELSE worker'[a].chapter \in ChaptersOf[a]
      BY <2>1, <2>2 DEF TypeOK
    <2>4. slot' = slot \/ slot' = Append(slot, b)
      BY <1>3 DEF WorkerResumes, WorkerQueuesForSlot, WorkerHasSlot, WorkerResumesInSlot
    <2>5. slot' \in Seq(Books)
      <3>1. slot \in Seq(Books)
        BY DEF TypeOK
      <3>2. Append(slot, b) \in Seq(Books)
        BY <3>1, AppendProperties
      <3> QED
        BY <2>4, <3>1, <3>2
    <2>6. <<b, worker[b].chapter>> \in Keys
      BY <2>1, KeyParts
    <2>7. download' = download \/ download' = CacheTaskFor(<<b, worker[b].chapter>>, download)
      BY <1>3 DEF WorkerResumes, WorkerQueuesForSlot, WorkerHasSlot, WorkerResumesInSlot,
                  InSlot, BeginDownload
    <2>8. download' \in [Keys -> {"none", "running", "cancelling"}]
      <3>1. download \in [Keys -> {"none", "running", "cancelling"}]
        BY DEF TypeOK
      <3>2. CacheTaskFor(<<b, worker[b].chapter>>, download)
              \in [Keys -> {"none", "running", "cancelling"}]
        BY <2>6, <3>1 DEF CacheTaskFor
      <3> QED
        BY <2>7, <3>1, <3>2
    <2>9. background' = background \/ background' = <<b, worker[b].chapter>>
      BY <1>3 DEF WorkerResumes, WorkerQueuesForSlot, WorkerHasSlot, WorkerResumesInSlot,
                  InSlot, BeginDownload
    <2> QED
      BY <1>3, <2>3, <2>5, <2>6, <2>8, <2>9
        DEF WorkerResumes, WorkerQueuesForSlot, WorkerHasSlot, WorkerResumesInSlot,
            foreground, deletion, TypeOK
  <1>4. ASSUME NEW b \in Books, WorkerLeaves(b) PROVE TypeOK'
    <2>1. slot' \in Seq(Books)
      <3>1. b \in Range(slot) =>
              RemoveAt(slot, CHOOSE i \in DOMAIN slot : slot[i] = b) \in Seq(Books)
        BY SlotFacts, TakenOut
      <3> QED
        BY <1>4, <3>1 DEF WorkerLeaves, TypeOK
    <2>2. /\ DOMAIN queue' = Books /\ \A a \in Books : queue'[a] \in Seq(ChaptersOf[a])
      BY <1>4, EmptySeq DEF WorkerLeaves, TypeOK
    <2>3. leaving' \in [Books -> [at : WorkerStates, last : BOOLEAN]]
      BY <1>4 DEF WorkerLeaves, TypeOK, Nobody, WorkerStates
    <2> QED
      BY <1>4, <2>1, <2>2, <2>3 DEF WorkerLeaves, foreground, TypeOK
  <1>5. ASSUME NEW b \in Books, CancelBook(b) PROVE TypeOK'
    <2> DEFINE own == {k \in Keys : k[1] = b}
    <2>1. /\ DOMAIN queue' = Books /\ \A a \in Books : queue'[a] \in Seq(ChaptersOf[a])
      BY <1>5, EmptySeq DEF CancelBook, TypeOK
    <2>2. /\ worker' \in [Books -> [at : WorkerStates, chapter : Nat]]
          /\ \A a \in Books :
               IF worker'[a].at \in {"none", "new"}
               THEN worker'[a].chapter = 0 ELSE worker'[a].chapter \in ChaptersOf[a]
      <3>1. NoWorker \in [at : WorkerStates, chapter : Nat] /\ NoWorker.at = "none" /\ NoWorker.chapter = 0
        BY DEF NoWorker, WorkerStates
      <3> QED
        BY <1>5, <3>1 DEF CancelBook, TypeOK
    <2>3. leaving' \in [Books -> [at : WorkerStates, last : BOOLEAN]]
      <3>1. worker[b].at \in WorkerStates
        BY Workers
      <3>2. leaving' = [leaving EXCEPT ![b] =
                          [at |-> worker[b].at,
                           last |-> worker[b].at \notin {"none", "new"} /\ queue[b] = <<>>]]
        BY <1>5 DEF CancelBook
      <3>3. [at |-> worker[b].at,
             last |-> worker[b].at \notin {"none", "new"} /\ queue[b] = <<>>]
              \in [at : WorkerStates, last : BOOLEAN]
        BY <3>1
      <3> QED
        BY <3>2, <3>3 DEF TypeOK
    <2>4. prefetch' \in [Keys -> {"none", "new", "preempting", "dropped"} \cup InSection]
      BY <1>5 DEF CancelBook, TypeOK, InSection, Outcomes
    <2>5. download' \in [Keys -> {"none", "running", "cancelling"}]
      BY <1>5 DEF CancelBook, TypeOK
    <2>6. gathered' \subseteq Keys \X {"download", "prefetch"}
      BY <1>5 DEF CancelBook, TypeOK
    <2>7. fate' \in [Books -> {"kept", "going", "gone"}]
      BY <1>5 DEF CancelBook, TypeOK
    <2>8. upsets' \in 0 .. MaxUpsets
      BY <1>5, CacheAssumption DEF CancelBook, TypeOK
    <2>9. queued' \subseteq Keys
      BY <1>5 DEF CancelBook, TypeOK
    <2> QED
      BY <1>5, <2>1, <2>2, <2>3, <2>4, <2>5, <2>6, <2>7, <2>8, <2>9
        DEF CancelBook, foreground, TypeOK
  <1>6. ASSUME NEW b \in Books, DeleteBook(b) PROVE TypeOK'
    BY <1>6 DEF DeleteBook, foreground, TypeOK
  <1>7. ASSUME NEW k \in Keys, DownloadStep(k) PROVE TypeOK'
    <2>1. PICK outcome \in Outcomes :
            /\ DownloadEnds(k, outcome)
            /\ cached' = cached \/ cached' = cached \cup {k}
      BY <1>7, DownloadStepShape
    <2>2. outcome \in WorkerStates \ {"none", "new"} /\ outcome \in InSection
      BY DEF WorkerStates, InSection, Outcomes
    <2>3. /\ worker' \in [Books -> [at : WorkerStates, chapter : Nat]]
          /\ \A a \in Books :
               IF worker'[a].at \in {"none", "new"}
               THEN worker'[a].chapter = 0 ELSE worker'[a].chapter \in ChaptersOf[a]
      <3>1. worker' = worker \/
              (worker[k[1]] = [at |-> "fetch", chapter |-> k[2]]
                 /\ worker' = [worker EXCEPT ![k[1]].at = outcome])
        BY <2>1 DEF DownloadEnds
      <3>2. k[1] \in Books /\ k[2] \in ChaptersOf[k[1]]
        BY KeyParts
      <3>3. /\ worker \in [Books -> [at : WorkerStates, chapter : Nat]]
            /\ \A a \in Books :
                 IF worker[a].at \in {"none", "new"}
                 THEN worker[a].chapter = 0 ELSE worker[a].chapter \in ChaptersOf[a]
        BY DEF TypeOK
      <3>4. CASE worker' = worker
        BY <3>3, <3>4
      <3>5. CASE /\ worker[k[1]] = [at |-> "fetch", chapter |-> k[2]]
                 /\ worker' = [worker EXCEPT ![k[1]].at = outcome]
        <4>1. /\ worker'[k[1]].at = outcome /\ worker'[k[1]].chapter = k[2]
              /\ worker'[k[1]] \in [at : WorkerStates, chapter : Nat]
          BY <3>2, <3>3, <3>5, <2>2
        <4>2. \A a \in Books \ {k[1]} : worker'[a] = worker[a]
          BY <3>3, <3>5
        <4>3. worker' \in [Books -> [at : WorkerStates, chapter : Nat]]
          BY <3>3, <3>5, <4>1
        <4> QED
          BY <3>2, <3>3, <4>1, <4>2, <4>3, <2>2
      <3> QED
        BY <3>1, <3>4, <3>5
    <2>4. /\ reader' \in [Readers -> [at : {"out", "over"} \cup InSection,
                                      key : Keys \cup {NoKey}, ahead : SUBSET Keys]]
          /\ \A r \in Readers : reader'[r].at \in InSection => reader'[r].key # NoKey
      <3>1. reader' = [r \in Readers |->
                         IF reader[r].at = "waits" /\ reader[r].key = k
                         THEN [reader[r] EXCEPT !.at = outcome] ELSE reader[r]]
        BY <2>1 DEF DownloadEnds
      <3>2. ASSUME NEW r \in Readers
            PROVE  /\ reader'[r] \in [at : {"out", "over"} \cup InSection,
                                      key : Keys \cup {NoKey}, ahead : SUBSET Keys]
                   /\ reader'[r].at \in InSection => reader'[r].key # NoKey
        <4>1. /\ reader[r] \in [at : {"out", "over"} \cup InSection,
                                 key : Keys \cup {NoKey}, ahead : SUBSET Keys]
              /\ reader[r].at \in InSection => reader[r].key # NoKey
          BY DEF TypeOK
        <4>2. CASE reader[r].at = "waits" /\ reader[r].key = k
          <5>1. reader'[r] = [reader[r] EXCEPT !.at = outcome] /\ reader[r].key # NoKey
            BY <4>2, <3>1, NoKeyIsNoKey
          <5> QED
            BY <4>1, <5>1, <2>2
        <4>3. CASE ~(reader[r].at = "waits" /\ reader[r].key = k)
          <5>1. reader'[r] = reader[r]
            BY <4>3, <3>1
          <5> QED
            BY <4>1, <5>1
        <4> QED
          BY <4>2, <4>3
      <3> QED
        BY <3>1, <3>2
    <2>5. prefetch' \in [Keys -> {"none", "new", "preempting", "dropped"} \cup InSection]
      BY <2>1, <2>2 DEF DownloadEnds, TypeOK
    <2>6. download' \in [Keys -> {"none", "running", "cancelling"}] /\ cached' \subseteq Keys
      BY <2>1 DEF DownloadEnds, TypeOK
    <2>7. gathered' \subseteq Keys \X {"download", "prefetch"}
      BY <2>1 DEF DownloadEnds, TypeOK
    <2> QED
      BY <2>1, <2>3, <2>4, <2>5, <2>6, <2>7 DEF DownloadEnds, foreground, TypeOK
  <1>8. ASSUME NEW keys \in SUBSET Keys, Enter(keys)
        PROVE  count' \in Nat /\ protected' \in [Keys -> Nat] /\ idle' \in BOOLEAN
    <2>1. count \in Nat /\ protected \in [Keys -> Nat]
      BY DEF TypeOK
    <2>2. count' = count + 1 /\ idle' = FALSE
      BY <1>8 DEF Enter
    <2>3. protected' = [k \in Keys |-> protected[k] + (IF k \in keys THEN 1 ELSE 0)]
      BY <1>8 DEF Enter
    <2>4. count' \in Nat
      BY <2>1, <2>2
    <2>5. protected' \in [Keys -> Nat]
      BY <2>1, <2>3
    <2> QED
      BY <2>2, <2>4, <2>5
  <1>9. ASSUME NEW keys \in SUBSET Keys, Leave(keys)
        PROVE  /\ count' \in Nat /\ protected' \in [Keys -> Nat] /\ idle' \in BOOLEAN
               /\ worker' \in [Books -> [at : WorkerStates, chapter : Nat]]
               /\ \A a \in Books :
                    IF worker'[a].at \in {"none", "new"}
                    THEN worker'[a].chapter = 0 ELSE worker'[a].chapter \in ChaptersOf[a]
    <2>1. count' \in Nat /\ protected' \in [Keys -> Nat] /\ idle' \in BOOLEAN
      <3>1. count \in Nat /\ protected \in [Keys -> Nat] /\ idle \in BOOLEAN
        BY DEF TypeOK
      <3>2. count' \in Nat
        BY <1>9, <3>1 DEF Leave
      <3>3. protected' \in [Keys -> Nat]
        BY <1>9, <3>1 DEF Leave
      <3>4. idle' \in BOOLEAN
        <4>1. idle' = (idle \/ count' = 0)
          BY <1>9 DEF Leave
        <4> QED
          BY <4>1, Zenon
      <3> QED
        BY <3>2, <3>3, <3>4
    <2>2. ASSUME NEW a \in Books
          PROVE  /\ Released(worker[a]) \in [at : WorkerStates, chapter : Nat]
                 /\ Released(worker[a]).chapter = worker[a].chapter
                 /\ Released(worker[a]).at \in {"none", "new"} <=> worker[a].at \in {"none", "new"}
      BY Workers DEF Released, WorkerStates
    <2>3. worker' = worker \/ worker' = [a \in Books |-> Released(worker[a])]
      BY <1>9 DEF Leave
    <2> QED
      BY <2>1, <2>2, <2>3 DEF TypeOK
  <1>10. ASSUME NEW k \in Keys, NEW d \in [Keys -> {"none", "running", "cancelling"}]
         PROVE  /\ CacheTaskFor(k, d) \in [Keys -> {"none", "running", "cancelling"}]
                /\ Preempted(d) \in [Keys -> {"none", "running", "cancelling"}]
    BY DEF CacheTaskFor, Preempted
  <1>11. ASSUME NEW r \in Readers, Ensure(r) PROVE TypeOK'
    <2>1. PICK k \in Keys \ cached : \E ahead \in {{}, NextChapter(k)} :
            /\ Enter({k} \cup ahead)
            /\ download' = CacheTaskFor(k, Preempted(download))
            /\ Prefetching(ahead, "new")
            /\ reader' = [reader EXCEPT ![r] = [at |-> "waits", key |-> k, ahead |-> ahead]]
      BY <1>11 DEF Ensure
    <2>2. PICK ahead \in {{}, NextChapter(k)} :
            /\ Enter({k} \cup ahead)
            /\ download' = CacheTaskFor(k, Preempted(download))
            /\ Prefetching(ahead, "new")
            /\ reader' = [reader EXCEPT ![r] = [at |-> "waits", key |-> k, ahead |-> ahead]]
      BY <2>1
    <2>3. ahead \in SUBSET Keys /\ {k} \cup ahead \in SUBSET Keys
      BY DEF NextChapter
    <2>4. count' \in Nat /\ protected' \in [Keys -> Nat] /\ idle' \in BOOLEAN
      BY <2>2, <2>3, <1>8
    <2>5. download' \in [Keys -> {"none", "running", "cancelling"}]
      BY <2>2, <1>10 DEF TypeOK
    <2>6. prefetch' \in [Keys -> {"none", "new", "preempting", "dropped"} \cup InSection]
      BY <2>2 DEF Prefetching, TypeOK
    <2>7. /\ reader' \in [Readers -> [at : {"out", "over"} \cup InSection,
                                      key : Keys \cup {NoKey}, ahead : SUBSET Keys]]
          /\ \A q \in Readers : reader'[q].at \in InSection => reader'[q].key # NoKey
      BY <2>2, <2>3, NoKeyIsNoKey DEF InSection, TypeOK
    <2> QED
      BY <1>11, <2>4, <2>5, <2>6, <2>7 DEF Ensure, deletion, TypeOK
  <1>12. ASSUME NEW r \in Readers, ReadStored(r) PROVE TypeOK'
    <2>1. prefetch' \in [Keys -> {"none", "new", "preempting", "dropped"} \cup InSection]
      BY <1>12 DEF ReadStored, Prefetching, TypeOK
    <2>2. /\ reader' \in [Readers -> [at : {"out", "over"} \cup InSection,
                                      key : Keys \cup {NoKey}, ahead : SUBSET Keys]]
          /\ \A q \in Readers : reader'[q].at \in InSection => reader'[q].key # NoKey
      BY <1>12 DEF ReadStored, Over, InSection, Outcomes, TypeOK
    <2> QED
      BY <1>12, <2>1, <2>2 DEF ReadStored, foreground, deletion, TypeOK
  <1>13. ASSUME NEW r \in Readers, ReaderWakes(r) \/ Disconnect(r) PROVE TypeOK'
    <2>1. reader[r].at \in InSection /\ Leave({reader[r].key} \cup reader[r].ahead)
      BY <1>13 DEF ReaderWakes, Disconnect, LeaveReader, InSection
    <2>2. {reader[r].key} \cup reader[r].ahead \in SUBSET Keys
      <3>1. reader[r] \in [at : {"out", "over"} \cup InSection,
                           key : Keys \cup {NoKey}, ahead : SUBSET Keys] /\ reader[r].key # NoKey
        BY <2>1 DEF TypeOK
      <3> QED
        BY <3>1
    <2>3. /\ reader' \in [Readers -> [at : {"out", "over"} \cup InSection,
                                      key : Keys \cup {NoKey}, ahead : SUBSET Keys]]
          /\ \A q \in Readers : reader'[q].at \in InSection => reader'[q].key # NoKey
      <3>1. reader' = [reader EXCEPT ![r] = Over]
        BY <1>13 DEF ReaderWakes, Disconnect
      <3>2. /\ Over \in [at : {"out", "over"} \cup InSection,
                         key : Keys \cup {NoKey}, ahead : SUBSET Keys]
            /\ Over.at \notin InSection
        BY DEF Over, InSection, Outcomes
      <3>3. /\ reader \in [Readers -> [at : {"out", "over"} \cup InSection,
                                      key : Keys \cup {NoKey}, ahead : SUBSET Keys]]
            /\ \A q \in Readers : reader[q].at \in InSection => reader[q].key # NoKey
        BY DEF TypeOK
      <3> HIDE DEF Over
      <3> QED
        BY <3>1, <3>2, <3>3
    <2> QED
      BY <1>13, <2>1, <2>2, <2>3, <1>9 DEF ReaderWakes, Disconnect, deletion, TypeOK
  <1>14. ASSUME NEW k \in Keys, PrefetchStarts(k) PROVE TypeOK'
    <2>1. count' \in Nat /\ protected' \in [Keys -> Nat] /\ idle' \in BOOLEAN
      BY <1>14, <1>8 DEF PrefetchStarts
    <2>2. download' \in [Keys -> {"none", "running", "cancelling"}]
      <3> DEFINE others == IF prefetch[k] = "preempting" THEN Preempted(download) ELSE download
      <3>1. others \in [Keys -> {"none", "running", "cancelling"}]
        BY <1>10 DEF TypeOK
      <3>2. download' = others \/ download' = CacheTaskFor(k, others)
        BY <1>14 DEF PrefetchStarts
      <3> HIDE DEF others
      <3> QED
        BY <3>1, <3>2, <1>10
    <2>3. prefetch' \in [Keys -> {"none", "new", "preempting", "dropped"} \cup InSection]
      BY <1>14 DEF PrefetchStarts, TypeOK, InSection, Outcomes
    <2> QED
      BY <1>14, <2>1, <2>2, <2>3 DEF PrefetchStarts, deletion, TypeOK
  <1>15. ASSUME NEW k \in Keys, PrefetchWakes(k) PROVE TypeOK'
    BY <1>15, <1>9 DEF PrefetchWakes, TypeOK
  <1>16. ASSUME NEW k \in Keys, PrefetchDropped(k) PROVE TypeOK'
    BY <1>16 DEF PrefetchDropped, foreground, TypeOK
  <1>17. ASSUME Restart \/ Shutdown PROVE TypeOK'
    <2>1. PICK stored : StartsOn(stored) /\ stored \subseteq Keys
      BY <1>17, StartShape
    <2>2. /\ DOMAIN queue' = Books /\ \A b \in Books : queue'[b] \in Seq(ChaptersOf[b])
          /\ queued' \subseteq Keys /\ worker' \in [Books -> {NoWorker, NewWorker}]
      BY <2>1, StartupTypes DEF StartsOn
    <2>3. /\ worker' \in [Books -> [at : WorkerStates, chapter : Nat]]
          /\ \A a \in Books :
               IF worker'[a].at \in {"none", "new"}
               THEN worker'[a].chapter = 0 ELSE worker'[a].chapter \in ChaptersOf[a]
      BY <2>2 DEF NoWorker, NewWorker, WorkerStates
    <2>4. /\ reader' \in [Readers -> [at : {"out", "over"} \cup InSection,
                                      key : Keys \cup {NoKey}, ahead : SUBSET Keys]]
          /\ \A r \in Readers : reader'[r].at \in InSection => reader'[r].key # NoKey
      <3>1. reader' = [r \in Readers |-> IF reader[r].at = "out" THEN reader[r] ELSE Over]
        BY <2>1 DEF StartsOn
      <3>2. ASSUME NEW r \in Readers
            PROVE  /\ reader'[r] \in [at : {"out", "over"} \cup InSection,
                                      key : Keys \cup {NoKey}, ahead : SUBSET Keys]
                   /\ reader'[r].at \notin InSection
        <4>1. reader[r] \in [at : {"out", "over"} \cup InSection,
                             key : Keys \cup {NoKey}, ahead : SUBSET Keys]
          BY DEF TypeOK
        <4>2. (reader'[r] = reader[r] /\ reader[r].at = "out") \/ reader'[r] = Over
          BY <3>1
        <4> QED
          BY <4>1, <4>2 DEF Over, InSection, Outcomes
      <3> QED
        BY <3>1, <3>2
    <2>5. fate' \in [Books -> {"kept", "going", "gone"}]
      BY <2>1 DEF StartsOn
    <2>6. leaving' \in [Books -> [at : WorkerStates, last : BOOLEAN]]
      BY <2>1 DEF StartsOn, Nobody, WorkerStates
    <2>7. slot' \in Seq(Books)
      BY <2>1, EmptySeq DEF StartsOn
    <2>8. upsets' \in 0 .. MaxUpsets
      BY <2>1, CacheAssumption DEF StartsOn, TypeOK
    <2> QED
      BY <2>1, <2>2, <2>3, <2>4, <2>5, <2>6, <2>7, <2>8 DEF StartsOn, TypeOK
  <1>18. ASSUME UNCHANGED vars PROVE TypeOK'
    BY <1>18 DEF vars, TypeOK
  <1> QED
    BY <1>1, <1>2, <1>3, <1>4, <1>5, <1>6, <1>7, <1>11, <1>12, <1>13, <1>14, <1>15, <1>16,
       <1>17, <1>18
      DEF Next, WorkerStep, PrefetchStep, ReaderStep

\* No download that somebody awaits disappears: a section or a worker only
\* begins to await one that it has started or found running, and all who await
\* one that ends are told.
LEMMA AwaitedStaysLive ==
  ASSUME TypeOK, AwaitedIsLive, [Next]_vars
  PROVE  AwaitedIsLive'
PROOF
  <1>1. /\ \A k \in Keys : download[k] \in {"none", "running", "cancelling"}
        /\ DOMAIN download = Keys
        /\ download = [k \in Keys |-> download[k]]
    BY DEF TypeOK
  \* While downloads only begin or are cancelled, it is enough to look at those
  \* who begin to await one.
  <1>2. ASSUME \A k \in Keys : download[k] # "none" => download'[k] # "none",
               \A r \in Readers : reader'[r].at = "waits" =>
                 reader'[r] = reader[r] \/ download'[reader'[r].key] # "none",
               \A k \in Keys : prefetch'[k] = "waits" =>
                 prefetch[k] = "waits" \/ download'[k] # "none",
               \A b \in Books : worker'[b].at = "fetch" =>
                 worker'[b] = worker[b] \/ download'[<<b, worker'[b].chapter>>] # "none"
        PROVE  AwaitedIsLive'
    <2>1. \A r \in Readers : reader[r].at = "waits" => reader[r].key \in Keys
      BY DEF TypeOK, InSection
    <2>2. \A b \in Books : worker[b].at = "fetch" => <<b, worker[b].chapter>> \in Keys
      BY KeyParts DEF TypeOK
    <2> QED
      BY <1>2, <2>1, <2>2 DEF AwaitedIsLive
  <1>3. ASSUME NEW k \in Keys, NEW d \in [Keys -> {"none", "running", "cancelling"}]
        PROVE  /\ CacheTaskFor(k, d)[k] # "none"
               /\ \A j \in Keys : d[j] # "none" => CacheTaskFor(k, d)[j] # "none"
               /\ \A j \in Keys : d[j] # "none" => Preempted(d)[j] # "none"
               /\ CacheTaskFor(k, d) \in [Keys -> {"none", "running", "cancelling"}]
               /\ Preempted(d) \in [Keys -> {"none", "running", "cancelling"}]
    BY DEF CacheTaskFor, Preempted
  <1>4. ASSUME NEW b \in Books, Schedule(b) \/ WorkerStarts(b) \/ WorkerWakes(b) \/ WorkerLeaves(b)
                                  \/ DeleteBook(b)
        PROVE  AwaitedIsLive'
    <2>1. UNCHANGED <<download, reader, prefetch>>
      BY <1>4 DEF Schedule, WorkerStarts, WorkerWakes, WorkerLeaves, DeleteBook
    <2>2. \E w : w.at # "fetch" /\ (worker' = worker \/ worker' = [worker EXCEPT ![b] = w])
      <3>1. NoWorker.at # "fetch" /\ NewWorker.at # "fetch"
        BY DEF NoWorker, NewWorker
      <3>2. \A c : [at |-> IF idle THEN "yield" ELSE "pause", chapter |-> c].at # "fetch"
        OBVIOUS
      <3>3. ASSUME NEW chapters, TakeNext(b, chapters)
            PROVE  \E w : w.at # "fetch" /\ worker' = [worker EXCEPT ![b] = w]
        BY <3>1, <3>2, <3>3 DEF TakeNext
      <3>4. CASE WorkerStarts(b) \/ WorkerWakes(b)
        <4>1. \E chapters : TakeNext(b, chapters)
          BY <3>4 DEF WorkerStarts, WorkerWakes
        <4> QED
          BY <4>1, <3>3
      <3>5. CASE Schedule(b) \/ WorkerLeaves(b) \/ DeleteBook(b)
        <4>1. worker' = worker \/ worker' = [worker EXCEPT ![b] = NewWorker]
          BY <3>5 DEF Schedule, WorkerLeaves, DeleteBook
        <4> QED
          BY <4>1, <3>1
      <3> QED
        BY <1>4, <3>4, <3>5
    <2>3. \A a \in Books : worker'[a].at = "fetch" => worker'[a] = worker[a]
      BY <2>2 DEF TypeOK
    <2> QED
      BY <1>2, <2>1, <2>3
  <1>5. ASSUME NEW b \in Books, CancelBook(b) PROVE AwaitedIsLive'
    <2>1. \A k \in Keys : download[k] # "none" => download'[k] # "none"
      BY <1>5 DEF CancelBook
    <2>2. \A k \in Keys : prefetch'[k] = "waits" => prefetch[k] = "waits"
      BY <1>5 DEF CancelBook
    <2>3. \A a \in Books : worker'[a].at = "fetch" => worker'[a] = worker[a]
      BY <1>5 DEF CancelBook, NoWorker, TypeOK
    <2>4. UNCHANGED reader
      BY <1>5 DEF CancelBook
    <2> QED
      BY <1>2, <2>1, <2>2, <2>3, <2>4
  <1>6. ASSUME NEW b \in Books,
               WorkerResumes(b) \/ WorkerQueuesForSlot(b) \/ WorkerHasSlot(b) \/ WorkerResumesInSlot(b)
        PROVE  AwaitedIsLive'
    <2> DEFINE k == <<b, worker[b].chapter>>
    <2>1. k \in Keys
      BY <1>6, KeyParts
        DEF WorkerResumes, WorkerQueuesForSlot, WorkerHasSlot, WorkerResumesInSlot, TypeOK
    <2>2. \/ download' = CacheTaskFor(k, download)
          \/ /\ download' = download
             /\ \E at \in WorkerStates \ {"fetch"} : worker' = [worker EXCEPT ![b].at = at]
      BY <1>6 DEF WorkerResumes, WorkerQueuesForSlot, WorkerHasSlot, WorkerResumesInSlot,
                  InSlot, BeginDownload, WorkerStates, Outcomes
    <2>3. \E at : worker' = [worker EXCEPT ![b].at = at]
      BY <1>6 DEF WorkerResumes, WorkerQueuesForSlot, WorkerHasSlot, WorkerResumesInSlot,
                  InSlot, BeginDownload
    <2>4. \A a \in Books : a # b => worker'[a] = worker[a]
      BY <2>3 DEF TypeOK
    <2>5. worker'[b].chapter = worker[b].chapter
      BY <2>3 DEF TypeOK
    <2>6. \A j \in Keys : download[j] # "none" => download'[j] # "none"
      <3>1. download \in [Keys -> {"none", "running", "cancelling"}]
        BY DEF TypeOK
      <3>2. \A j \in Keys : download[j] # "none" => CacheTaskFor(k, download)[j] # "none"
        BY <3>1, <2>1, <1>3
      <3> HIDE DEF k
      <3> QED
        BY <2>2, <3>2
    <2>7. worker'[b].at = "fetch" => download'[<<b, worker'[b].chapter>>] # "none"
      <3>1. CASE download' = CacheTaskFor(k, download)
        BY <3>1, <2>1, <2>5, <1>3 DEF TypeOK
      <3>2. CASE \E at \in WorkerStates \ {"fetch"} : worker' = [worker EXCEPT ![b].at = at]
        BY <3>2 DEF TypeOK
      <3> QED
        BY <2>2, <3>1, <3>2
    <2>8. UNCHANGED <<reader, prefetch>>
      BY <1>6 DEF WorkerResumes, WorkerQueuesForSlot, WorkerHasSlot, WorkerResumesInSlot
    <2> QED
      BY <1>2, <2>4, <2>6, <2>7, <2>8
  <1>7. ASSUME NEW k \in Keys, DownloadStep(k) PROVE AwaitedIsLive'
    <2>1. PICK outcome \in Outcomes : DownloadEnds(k, outcome)
      BY <1>7, DownloadStepShape
    <2>2. outcome \notin {"waits", "fetch"}
      BY DEF Outcomes
    <2>3. \A j \in Keys : j # k => download'[j] = download[j]
      BY <2>1, <1>1 DEF DownloadEnds
    <2>4. ASSUME NEW r \in Readers, reader'[r].at = "waits" PROVE download'[reader'[r].key] # "none"
      <3>1. reader' = [q \in Readers |->
                         IF reader[q].at = "waits" /\ reader[q].key = k
                         THEN [reader[q] EXCEPT !.at = outcome] ELSE reader[q]]
        BY <2>1 DEF DownloadEnds
      <3>2. reader[r] \in [at : {"out", "over"} \cup InSection,
                           key : Keys \cup {NoKey}, ahead : SUBSET Keys]
        BY DEF TypeOK
      <3>3. reader'[r] = reader[r] /\ reader[r].at = "waits" /\ reader[r].key # k
        BY <3>1, <3>2, <2>2, <2>4
      <3>4. reader[r].key \in Keys
        BY <3>3 DEF TypeOK, InSection
      <3> QED
        BY <3>3, <3>4, <2>3 DEF AwaitedIsLive
    <2>5. ASSUME NEW j \in Keys, prefetch'[j] = "waits" PROVE download'[j] # "none"
      <3>1. prefetch[j] = "waits" /\ j # k
        BY <2>1, <2>2, <2>5 DEF DownloadEnds, TypeOK
      <3> QED
        BY <3>1, <2>3 DEF AwaitedIsLive
    <2>6. ASSUME NEW b \in Books, worker'[b].at = "fetch"
          PROVE  download'[<<b, worker'[b].chapter>>] # "none"
      <3>1. worker' = IF worker[k[1]] = [at |-> "fetch", chapter |-> k[2]]
                      THEN [worker EXCEPT ![k[1]].at = outcome] ELSE worker
        BY <2>1 DEF DownloadEnds
      <3>2. worker[b] \in [at : WorkerStates, chapter : Nat]
        BY DEF TypeOK
      <3>3. worker'[b] = worker[b]
        BY <3>1, <3>2, <2>2, <2>6 DEF TypeOK
      <3>4. <<b, worker[b].chapter>> \in Keys
        BY <3>3, <2>6, KeyParts DEF TypeOK
      <3>5. <<b, worker[b].chapter>> # k
        <4>1. ASSUME <<b, worker[b].chapter>> = k PROVE FALSE
          <5>1. k[1] = b /\ k[2] = worker[b].chapter
            BY <4>1
          <5>2. worker[b] = [at |-> worker[b].at, chapter |-> worker[b].chapter]
            BY <3>2
          <5>3. worker[k[1]] = [at |-> "fetch", chapter |-> k[2]]
            BY <5>1, <5>2, <3>3, <2>6
          <5>4. worker'[b].at = outcome
            BY <5>1, <5>3, <3>1 DEF TypeOK
          <5> QED
            BY <5>4, <2>2, <2>6
        <4> QED
          BY <4>1
      <3> QED
        BY <3>3, <3>4, <3>5, <2>3, <2>6 DEF AwaitedIsLive
    <2> QED
      BY <2>4, <2>5, <2>6 DEF AwaitedIsLive
  <1>8. ASSUME NEW keys, Leave(keys), UNCHANGED download,
               \A r \in Readers : reader'[r].at = "waits" => reader'[r] = reader[r],
               \A k \in Keys : prefetch'[k] = "waits" => prefetch[k] = "waits"
        PROVE  AwaitedIsLive'
    <2>1. \A b \in Books : worker'[b].at = "fetch" => worker'[b] = worker[b]
      <3>1. worker' = worker \/ worker' = [b \in Books |-> Released(worker[b])]
        BY <1>8 DEF Leave
      <3>2. \A b \in Books : Released(worker[b]) = worker[b] \/ Released(worker[b]).at # "fetch"
        BY Workers DEF Released
      <3> QED
        BY <3>1, <3>2
    <2> QED
      BY <1>2, <1>8, <2>1
  <1>9. ASSUME NEW r \in Readers, ReaderWakes(r) \/ Disconnect(r) PROVE AwaitedIsLive'
    <2>1. \A q \in Readers : reader'[q].at = "waits" => reader'[q] = reader[q]
      BY <1>9 DEF ReaderWakes, Disconnect, Over, TypeOK
    <2> QED
      BY <1>8, <1>9, <2>1 DEF ReaderWakes, Disconnect, LeaveReader
  <1>10. ASSUME NEW k \in Keys, PrefetchWakes(k) PROVE AwaitedIsLive'
    <2>1. \A j \in Keys : prefetch'[j] = "waits" => prefetch[j] = "waits"
      BY <1>10 DEF PrefetchWakes, TypeOK
    <2> QED
      BY <1>8, <1>10, <2>1 DEF PrefetchWakes
  <1>11. ASSUME NEW r \in Readers, Ensure(r) PROVE AwaitedIsLive'
    <2>1. PICK k \in Keys \ cached : \E ahead \in {{}, NextChapter(k)} :
            /\ download' = CacheTaskFor(k, Preempted(download))
            /\ Prefetching(ahead, "new")
            /\ reader' = [reader EXCEPT ![r] = [at |-> "waits", key |-> k, ahead |-> ahead]]
      BY <1>11 DEF Ensure
    <2>2. PICK ahead \in {{}, NextChapter(k)} :
            /\ download' = CacheTaskFor(k, Preempted(download))
            /\ Prefetching(ahead, "new")
            /\ reader' = [reader EXCEPT ![r] = [at |-> "waits", key |-> k, ahead |-> ahead]]
      BY <2>1
    <2>3. download \in [Keys -> {"none", "running", "cancelling"}]
      BY DEF TypeOK
    <2>4. /\ \A j \in Keys : download[j] # "none" => download'[j] # "none"
          /\ download'[k] # "none"
      BY <2>2, <2>3, <1>3
    <2>5. \A q \in Readers : reader'[q].at = "waits" =>
            reader'[q] = reader[q] \/ download'[reader'[q].key] # "none"
      BY <2>2, <2>4 DEF TypeOK
    <2>6. \A j \in Keys : prefetch'[j] = "waits" => prefetch[j] = "waits"
      BY <2>2 DEF Prefetching
    <2>7. UNCHANGED worker
      BY <1>11 DEF Ensure
    <2> QED
      BY <1>2, <2>4, <2>5, <2>6, <2>7
  <1>12. ASSUME NEW r \in Readers, ReadStored(r) PROVE AwaitedIsLive'
    <2>1. \A q \in Readers : reader'[q].at = "waits" => reader'[q] = reader[q]
      BY <1>12 DEF ReadStored, Over, TypeOK
    <2>2. \A j \in Keys : prefetch'[j] = "waits" => prefetch[j] = "waits"
      BY <1>12 DEF ReadStored, Prefetching
    <2> QED
      BY <1>12, <1>2, <2>1, <2>2 DEF ReadStored
  <1>13. ASSUME NEW k \in Keys, PrefetchStarts(k) PROVE AwaitedIsLive'
    <2> DEFINE others == IF prefetch[k] = "preempting" THEN Preempted(download) ELSE download
               gone == fate[k[1]] = "gone"
    <2>1. /\ download' = IF gone THEN others ELSE CacheTaskFor(k, others)
          /\ prefetch' = [prefetch EXCEPT ![k] = IF gone THEN "error" ELSE "waits"]
          /\ UNCHANGED <<worker, reader>>
      BY <1>13 DEF PrefetchStarts
    <2>2. download \in [Keys -> {"none", "running", "cancelling"}]
      BY DEF TypeOK
    <2>3. /\ others \in [Keys -> {"none", "running", "cancelling"}]
          /\ \A j \in Keys : download[j] # "none" => others[j] # "none"
      BY <2>2, <1>3
    <2> HIDE DEF others, gone
    <2>4. \A j \in Keys : download[j] # "none" => download'[j] # "none"
      BY <2>1, <2>3, <1>3
    <2>5. ~gone => download'[k] # "none"
      BY <2>1, <2>3, <1>3
    <2>6. \A j \in Keys : prefetch'[j] = "waits" => prefetch[j] = "waits" \/ download'[j] # "none"
      BY <2>1, <2>5 DEF TypeOK
    <2> QED
      BY <1>2, <2>1, <2>4, <2>6
  <1>14. ASSUME NEW k \in Keys, PrefetchDropped(k) PROVE AwaitedIsLive'
    <2>1. \A j \in Keys : prefetch'[j] = "waits" => prefetch[j] = "waits"
      BY <1>14 DEF PrefetchDropped, TypeOK
    <2> QED
      BY <1>2, <1>14, <2>1 DEF PrefetchDropped
  <1>15. ASSUME Restart \/ Shutdown PROVE AwaitedIsLive'
    <2>1. PICK stored : StartsOn(stored)
      BY <1>15, StartShape
    <2>2. \A r \in Readers : reader'[r].at # "waits"
      BY <2>1 DEF StartsOn, Over
    <2>3. \A k \in Keys : prefetch'[k] # "waits"
      BY <2>1 DEF StartsOn
    <2>4. \A b \in Books : worker'[b].at # "fetch"
      BY <2>1 DEF StartsOn, Startup, NewWorker, NoWorker
    <2> QED
      BY <2>2, <2>3, <2>4 DEF AwaitedIsLive
  <1>16. ASSUME UNCHANGED vars PROVE AwaitedIsLive'
    BY <1>16 DEF vars, AwaitedIsLive
  <1> QED
    BY <1>4, <1>5, <1>6, <1>7, <1>9, <1>10, <1>11, <1>12, <1>13, <1>14, <1>15, <1>16
      DEF Next, WorkerStep, PrefetchStep, ReaderStep

\* Who is in a section, before a step and after it.
LEMMA SectionMembers ==
  /\ \A s : s \in Sections <=>
       \/ \E r \in Readers : s = <<r, 1>> /\ reader[r].at \in InSection
       \/ \E k \in Keys : s = <<k, 2>> /\ prefetch[k] \in InSection
  /\ \A s : s \in Sections' <=>
       \/ \E r \in Readers : s = <<r, 1>> /\ reader'[r].at \in InSection
       \/ \E k \in Keys : s = <<k, 2>> /\ prefetch'[k] \in InSection
  /\ \A r : Protects(<<r, 1>>) = {reader[r].key} \cup reader[r].ahead
  /\ \A r : Protects(<<r, 1>>)' = {reader'[r].key} \cup reader'[r].ahead
  /\ \A k : Protects(<<k, 2>>) = {k} /\ Protects(<<k, 2>>)' = {k}
  /\ IsFiniteSet(Sections)
  /\ \A k \in Keys : IsFiniteSet(Serving(k)) /\ Serving(k) \subseteq Sections
PROOF
  <1>1. Sections \subseteq (Readers \X {1}) \cup (Keys \X {2})
    BY DEF Sections
  <1>2. IsFiniteSet(Sections)
    BY <1>1, SectionsAreFinite
  <1>3. \A k \in Keys : IsFiniteSet(Serving(k)) /\ Serving(k) \subseteq Sections
    BY <1>2, FS_Subset DEF Serving
  <1>4. \A s : s \in Sections <=>
          \/ \E r \in Readers : s = <<r, 1>> /\ reader[r].at \in InSection
          \/ \E k \in Keys : s = <<k, 2>> /\ prefetch[k] \in InSection
    BY DEF Sections
  <1>5. \A s : s \in Sections' <=>
          \/ \E r \in Readers : s = <<r, 1>> /\ reader'[r].at \in InSection
          \/ \E k \in Keys : s = <<k, 2>> /\ prefetch'[k] \in InSection
    BY DEF Sections
  <1>6. /\ \A r : Protects(<<r, 1>>) = {reader[r].key} \cup reader[r].ahead
        /\ \A r : Protects(<<r, 1>>)' = {reader'[r].key} \cup reader'[r].ahead
        /\ \A k : Protects(<<k, 2>>) = {k} /\ Protects(<<k, 2>>)' = {k}
    BY DEF Protects
  <1> QED
    BY <1>2, <1>3, <1>4, <1>5, <1>6

\* The counters follow a section that begins.
LEMMA SectionBegins ==
  ASSUME TypeOK, ForegroundCounted, NEW s, NEW keys, Enter(keys),
         s \notin Sections, Sections' = Sections \cup {s}, Protects(s)' = keys,
         \A t \in Sections : Protects(t)' = Protects(t)
  PROVE  ForegroundCounted'
PROOF
  <1>1. count \in Nat /\ protected \in [Keys -> Nat]
    BY DEF TypeOK
  <1>2. Cardinality(Sections') = Cardinality(Sections) + 1
    BY SectionMembers, FS_AddElement
  <1>3. count' = Cardinality(Sections') /\ idle' = (count' = 0)
    <2>1. count = Cardinality(Sections) /\ count' = count + 1 /\ idle' = FALSE
      BY DEF Enter, ForegroundCounted
    <2>2. count' = Cardinality(Sections') /\ count' # 0
      BY <1>1, <1>2, <2>1
    <2> QED
      BY <2>1, <2>2
  <1>4. ASSUME NEW k \in Keys PROVE protected'[k] = Cardinality(Serving(k)')
    <2>1. IsFiniteSet(Serving(k)) /\ s \notin Serving(k) /\ protected[k] = Cardinality(Serving(k))
      BY SectionMembers DEF ForegroundCounted
    <2>2. protected'[k] = protected[k] + (IF k \in keys THEN 1 ELSE 0)
      BY DEF Enter
    <2>3. CASE k \in keys
      <3>1. Serving(k)' = Serving(k) \cup {s}
        BY <2>3 DEF Serving
      <3> QED
        BY <2>1, <2>2, <2>3, <3>1, FS_AddElement
    <2>4. CASE k \notin keys
      <3>1. Serving(k)' = Serving(k)
        BY <2>4 DEF Serving
      <3> QED
        BY <1>1, <2>1, <2>2, <2>4, <3>1
    <2> QED
      BY <2>3, <2>4
  <1> QED
    BY <1>3, <1>4 DEF ForegroundCounted

\* The counters follow a section that ends: none of them was zero.
LEMMA SectionEnds ==
  ASSUME TypeOK, ForegroundCounted, NEW s, NEW keys, Leave(keys),
         s \in Sections, Sections' = Sections \ {s}, Protects(s) = keys,
         \A t \in Sections \ {s} : Protects(t)' = Protects(t)
  PROVE  ForegroundCounted'
PROOF
  <1>1. count \in Nat /\ protected \in [Keys -> Nat] /\ idle \in BOOLEAN
    BY DEF TypeOK
  <1>2. Cardinality(Sections') = Cardinality(Sections) - 1 /\ Cardinality(Sections) \in Nat
    BY SectionMembers, FS_RemoveElement, FS_CardinalityType
  <1>3. Cardinality(Sections) # 0
    BY SectionMembers, FS_EmptySet
  <1>4. count' = Cardinality(Sections') /\ idle' = (count' = 0)
    <2>1. count = Cardinality(Sections) /\ idle = (count = 0)
      BY DEF ForegroundCounted
    <2>2. count > 0 /\ count # 0
      BY <1>2, <1>3, <2>1
    <2>3. ~idle
      BY <2>1, <2>2, Zenon
    <2>4. count' = count - 1 /\ idle' = (idle \/ count' = 0)
      BY <2>2 DEF Leave
    <2>5. count' = Cardinality(Sections')
      BY <1>2, <2>1, <2>4
    <2> QED
      BY <2>3, <2>4, <2>5
  <1>5. ASSUME NEW k \in Keys PROVE protected'[k] = Cardinality(Serving(k)')
    <2>1. IsFiniteSet(Serving(k)) /\ protected[k] = Cardinality(Serving(k))
      BY SectionMembers DEF ForegroundCounted
    <2>2. CASE k \in keys
      <3>1. s \in Serving(k) /\ Serving(k)' = Serving(k) \ {s}
        BY <2>2 DEF Serving
      <3>2. Cardinality(Serving(k)') = Cardinality(Serving(k)) - 1
        BY <2>1, <3>1, FS_RemoveElement
      <3>3. Cardinality(Serving(k)) # 0 /\ Cardinality(Serving(k)) \in Nat
        BY <2>1, <3>1, FS_EmptySet, FS_CardinalityType
      <3>4. protected[k] > 0
        BY <2>1, <3>3
      <3>5. protected'[k] = protected[k] - 1
        BY <2>2, <3>4 DEF Leave
      <3> QED
        BY <2>1, <3>2, <3>5
    <2>3. CASE k \notin keys
      <3>1. Serving(k)' = Serving(k)
        BY <2>3 DEF Serving
      <3>2. protected'[k] = protected[k]
        BY <2>3 DEF Leave
      <3> QED
        BY <2>1, <3>1, <3>2
    <2> QED
      BY <2>2, <2>3
  <1> QED
    BY <1>4, <1>5 DEF ForegroundCounted

\* While nobody begins or ends a section, the counters stay right.
LEMMA SectionsStay ==
  ASSUME TypeOK, ForegroundCounted, UNCHANGED foreground,
         \A r \in Readers : reader'[r].at \in InSection <=> reader[r].at \in InSection,
         \A r \in Readers : reader[r].at \in InSection =>
           reader'[r].key = reader[r].key /\ reader'[r].ahead = reader[r].ahead,
         \A k \in Keys : prefetch'[k] \in InSection <=> prefetch[k] \in InSection
  PROVE  ForegroundCounted'
PROOF
  <1>1. Sections' = Sections
    BY SectionMembers
  <1>2. \A s \in Sections : Protects(s)' = Protects(s)
    <2> SUFFICES ASSUME NEW s \in Sections PROVE Protects(s)' = Protects(s)
      OBVIOUS
    <2>1. CASE \E r \in Readers : s = <<r, 1>> /\ reader[r].at \in InSection
      <3>1. PICK r \in Readers : s = <<r, 1>> /\ reader[r].at \in InSection
        BY <2>1
      <3>2. reader'[r].key = reader[r].key /\ reader'[r].ahead = reader[r].ahead
        BY <3>1
      <3>3. Protects(<<r, 1>>)' = Protects(<<r, 1>>)
        BY <3>2 DEF Protects
      <3> QED
        BY <3>1, <3>3
    <2>2. CASE \E k \in Keys : s = <<k, 2>> /\ prefetch[k] \in InSection
      <3>1. PICK k \in Keys : s = <<k, 2>>
        BY <2>2
      <3>2. Protects(<<k, 2>>)' = Protects(<<k, 2>>)
        BY DEF Protects
      <3> QED
        BY <3>1, <3>2
    <2> QED
      BY <2>1, <2>2, SectionMembers
  <1>3. \A k \in Keys : Serving(k)' = Serving(k)
    BY <1>1, <1>2 DEF Serving
  <1> QED
    BY <1>1, <1>3 DEF foreground, ForegroundCounted

\* The counters say how many sections there are, whoever comes, goes away or
\* is cancelled.
LEMMA CountersStay ==
  ASSUME TypeOK, ForegroundCounted, [Next]_vars
  PROVE  ForegroundCounted'
PROOF
  <1>1. CASE UNCHANGED <<reader, prefetch, foreground>>
    BY <1>1, SectionsStay
  <1>2. \A r \in Readers : reader[r] \in [at : {"out", "over"} \cup InSection,
                                         key : Keys \cup {NoKey}, ahead : SUBSET Keys]
    BY DEF TypeOK
  <1>3. DOMAIN reader = Readers /\ DOMAIN prefetch = Keys
    BY DEF TypeOK
  <1>4. ASSUME NEW b \in Books, CancelBook(b) PROVE ForegroundCounted'
    <2>1. "cancelled" \in InSection /\ {"none", "dropped"} \cap InSection = {}
      BY DEF InSection, Outcomes
    <2>2. UNCHANGED <<reader, foreground>>
      BY <1>4 DEF CancelBook
    <2>3. prefetch' = [k \in Keys |->
                         IF k[1] # b \/ prefetch[k] = "none" THEN prefetch[k]
                         ELSE IF prefetch[k] \in InSection THEN "cancelled" ELSE "dropped"]
      BY <1>4 DEF CancelBook
    <2>4. \A k \in Keys : prefetch'[k] \in InSection <=> prefetch[k] \in InSection
      BY <2>1, <2>3
    <2> QED
      BY <2>2, <2>4, SectionsStay
  <1>5. ASSUME NEW k \in Keys, DownloadStep(k) PROVE ForegroundCounted'
    <2>1. PICK outcome \in Outcomes : DownloadEnds(k, outcome)
      BY <1>5, DownloadStepShape
    <2>2. outcome \in InSection /\ "waits" \in InSection
      BY DEF InSection
    <2>3. ASSUME NEW r \in Readers
          PROVE  /\ reader'[r].at \in InSection <=> reader[r].at \in InSection
                 /\ reader'[r].key = reader[r].key /\ reader'[r].ahead = reader[r].ahead
      <3>1. reader'[r] = IF reader[r].at = "waits" /\ reader[r].key = k
                         THEN [reader[r] EXCEPT !.at = outcome] ELSE reader[r]
        BY <2>1 DEF DownloadEnds
      <3> QED
        BY <3>1, <1>2, <2>2
    <2>4. \A j \in Keys : prefetch'[j] \in InSection <=> prefetch[j] \in InSection
      BY <2>1, <2>2, <1>3 DEF DownloadEnds
    <2>5. UNCHANGED foreground
      BY <2>1 DEF DownloadEnds
    <2> QED
      BY <2>3, <2>4, <2>5, SectionsStay
  <1>6. ASSUME NEW r \in Readers, Ensure(r) PROVE ForegroundCounted'
    <2>1. PICK k \in Keys \ cached : \E ahead \in {{}, NextChapter(k)} :
            /\ Enter({k} \cup ahead)
            /\ Prefetching(ahead, "new")
            /\ reader' = [reader EXCEPT ![r] = [at |-> "waits", key |-> k, ahead |-> ahead]]
      BY <1>6 DEF Ensure
    <2>2. PICK ahead \in {{}, NextChapter(k)} :
            /\ Enter({k} \cup ahead)
            /\ Prefetching(ahead, "new")
            /\ reader' = [reader EXCEPT ![r] = [at |-> "waits", key |-> k, ahead |-> ahead]]
      BY <2>1
    <2>3. reader[r].at = "out" /\ {"out", "none", "new"} \cap InSection = {} /\ "waits" \in InSection
      BY <1>6 DEF Ensure, InSection, Outcomes
    <2>4. \A j \in Keys : prefetch'[j] \in InSection <=> prefetch[j] \in InSection
      BY <2>2, <2>3 DEF Prefetching
    <2>5. /\ reader'[r] = [at |-> "waits", key |-> k, ahead |-> ahead]
          /\ \A q \in Readers : q # r => reader'[q] = reader[q]
      BY <2>2, <1>3
    <2>6. <<r, 1>> \notin Sections
      BY <2>3, SectionMembers
    <2>7. Sections' = Sections \cup {<<r, 1>>}
      <3>1. reader'[r].at \in InSection
        BY <2>3, <2>5
      <3>2. \A q \in Readers : reader'[q].at \in InSection <=> q = r \/ reader[q].at \in InSection
        BY <3>1, <2>5
      <3>3. \A s : s \in Sections' <=> s \in Sections \/ s = <<r, 1>>
        BY <3>2, <2>4, SectionMembers
      <3> QED
        BY <3>3
    <2>8. Protects(<<r, 1>>)' = {k} \cup ahead
      BY <2>5, SectionMembers
    <2>9. \A t \in Sections : Protects(t)' = Protects(t)
      <3>1. ASSUME NEW q \in Readers, reader[q].at \in InSection
            PROVE  Protects(<<q, 1>>)' = Protects(<<q, 1>>)
        BY <3>1, <2>3, <2>5 DEF Protects
      <3>2. \A j \in Keys : Protects(<<j, 2>>)' = Protects(<<j, 2>>)
        BY DEF Protects
      <3> QED
        BY <3>1, <3>2, SectionMembers
    <2> QED
      BY <2>2, <2>6, <2>7, <2>8, <2>9, SectionBegins
  <1>7. ASSUME NEW r \in Readers, ReadStored(r) PROVE ForegroundCounted'
    <2>1. /\ reader[r].at = "out"
          /\ reader' = [reader EXCEPT ![r] = Over] /\ UNCHANGED foreground
      BY <1>7 DEF ReadStored
    <2>2. PICK k : Prefetching(NextChapter(k), "preempting")
      BY <1>7 DEF ReadStored
    <2>3. {"out", "over", "none", "preempting"} \cap InSection = {} /\ Over.at = "over"
      BY DEF InSection, Outcomes, Over
    <2>4. \A j \in Keys : prefetch'[j] \in InSection <=> prefetch[j] \in InSection
      BY <2>2, <2>3 DEF Prefetching
    <2>5. reader'[r] = Over /\ \A q \in Readers : q # r => reader'[q] = reader[q]
      BY <2>1, <1>3
    <2> HIDE DEF Over
    <2>6. \A q \in Readers :
            /\ reader'[q].at \in InSection <=> reader[q].at \in InSection
            /\ reader[q].at \in InSection =>
                 reader'[q].key = reader[q].key /\ reader'[q].ahead = reader[q].ahead
      BY <2>1, <2>3, <2>5
    <2> QED
      BY <2>1, <2>4, <2>6, SectionsStay
  <1>8. ASSUME NEW r \in Readers, ReaderWakes(r) \/ Disconnect(r) PROVE ForegroundCounted'
    <2>1. /\ reader[r].at \in InSection /\ LeaveReader(r)
          /\ reader' = [reader EXCEPT ![r] = Over] /\ UNCHANGED prefetch
      BY <1>8 DEF ReaderWakes, Disconnect, InSection
    <2>2. Over.at \notin InSection
      BY DEF Over, InSection, Outcomes
    <2> HIDE DEF Over
    <2>3. reader'[r] = Over /\ \A q \in Readers : q # r => reader'[q] = reader[q]
      BY <2>1, <1>3
    <2>4. <<r, 1>> \in Sections
      BY <2>1, SectionMembers
    <2>5. Sections' = Sections \ {<<r, 1>>}
      <3>1. \A q \in Readers : reader'[q].at \in InSection <=> q # r /\ reader[q].at \in InSection
        BY <2>2, <2>3
      <3>2. \A s : s \in Sections' <=> s \in Sections /\ s # <<r, 1>>
        BY <3>1, <2>1, SectionMembers
      <3> QED
        BY <3>2
    <2>6. Protects(<<r, 1>>) = {reader[r].key} \cup reader[r].ahead
      BY SectionMembers
    <2>7. \A t \in Sections \ {<<r, 1>>} : Protects(t)' = Protects(t)
      <3>1. ASSUME NEW q \in Readers, q # r PROVE Protects(<<q, 1>>)' = Protects(<<q, 1>>)
        BY <3>1, <2>3 DEF Protects
      <3>2. \A j \in Keys : Protects(<<j, 2>>)' = Protects(<<j, 2>>)
        BY DEF Protects
      <3> QED
        BY <3>1, <3>2, SectionMembers
    <2> QED
      BY <2>1, <2>4, <2>5, <2>6, <2>7, SectionEnds DEF LeaveReader
  <1>9. ASSUME NEW k \in Keys, PrefetchStarts(k) PROVE ForegroundCounted'
    <2>1. /\ prefetch[k] \in {"new", "preempting"} /\ Enter({k}) /\ UNCHANGED reader
          /\ prefetch' = [prefetch EXCEPT ![k] = IF fate[k[1]] = "gone" THEN "error" ELSE "waits"]
      BY <1>9 DEF PrefetchStarts
    <2>2. prefetch[k] \notin InSection /\ prefetch'[k] \in InSection
      BY <2>1, <1>3 DEF InSection, Outcomes
    <2>3. \A j \in Keys : j # k => prefetch'[j] = prefetch[j]
      BY <2>1, <1>3
    <2>4. <<k, 2>> \notin Sections
      BY <2>2, SectionMembers
    <2>5. Sections' = Sections \cup {<<k, 2>>}
      <3>1. \A s : s \in Sections' <=> s \in Sections \/ s = <<k, 2>>
        BY <2>1, <2>2, <2>3, SectionMembers
      <3> QED
        BY <3>1
    <2>6. Protects(<<k, 2>>)' = {k}
      BY SectionMembers
    <2>7. \A t \in Sections : Protects(t)' = Protects(t)
      BY <2>1 DEF Protects
    <2> QED
      BY <2>1, <2>4, <2>5, <2>6, <2>7, SectionBegins
  <1>10. ASSUME NEW k \in Keys, PrefetchWakes(k) PROVE ForegroundCounted'
    <2>1. /\ prefetch[k] \in InSection /\ Leave({k}) /\ UNCHANGED reader
          /\ prefetch' = [prefetch EXCEPT ![k] = "none"]
      BY <1>10 DEF PrefetchWakes, InSection
    <2>2. prefetch'[k] \notin InSection
      BY <2>1, <1>3 DEF InSection, Outcomes
    <2>3. \A j \in Keys : j # k => prefetch'[j] = prefetch[j]
      BY <2>1, <1>3
    <2>4. <<k, 2>> \in Sections
      BY <2>1, SectionMembers
    <2>5. Sections' = Sections \ {<<k, 2>>}
      <3>1. \A s : s \in Sections' <=> s \in Sections /\ s # <<k, 2>>
        BY <2>1, <2>2, <2>3, SectionMembers
      <3> QED
        BY <3>1
    <2>6. Protects(<<k, 2>>) = {k}
      BY SectionMembers
    <2>7. \A t \in Sections \ {<<k, 2>>} : Protects(t)' = Protects(t)
      BY <2>1 DEF Protects
    <2> QED
      BY <2>1, <2>4, <2>5, <2>6, <2>7, SectionEnds
  <1>11. ASSUME NEW k \in Keys, PrefetchDropped(k) PROVE ForegroundCounted'
    <2>1. /\ prefetch[k] \notin InSection /\ UNCHANGED <<reader, foreground>>
          /\ prefetch' = [prefetch EXCEPT ![k] = "none"]
      BY <1>11 DEF PrefetchDropped, InSection, Outcomes
    <2>2. \A j \in Keys : prefetch'[j] \in InSection <=> prefetch[j] \in InSection
      BY <2>1, <1>3 DEF InSection, Outcomes
    <2> QED
      BY <2>1, <2>2, SectionsStay
  <1>12. ASSUME Restart \/ Shutdown PROVE ForegroundCounted'
    <2>1. PICK stored : StartsOn(stored)
      BY <1>12, StartShape
    <2>2. {"out", "over", "none"} \cap InSection = {} /\ Over.at = "over"
      BY DEF InSection, Outcomes, Over
    <2>3. /\ \A r \in Readers : reader'[r].at \notin InSection
          /\ \A k \in Keys : prefetch'[k] \notin InSection
      BY <2>1, <2>2 DEF StartsOn
    <2>4. Sections' = {}
      BY <2>3, SectionMembers
    <2>5. Cardinality(Sections') = 0 /\ \A k \in Keys : Serving(k)' = {}
      BY <2>4, FS_EmptySet DEF Serving
    <2>6. count' = 0 /\ idle' = TRUE /\ \A k \in Keys : protected'[k] = 0
      BY <2>1 DEF StartsOn
    <2> QED
      BY <2>4, <2>5, <2>6, FS_EmptySet DEF ForegroundCounted
  <1> QED
    BY <1>1, <1>4, <1>5, <1>6, <1>7, <1>8, <1>9, <1>10, <1>11, <1>12
      DEF Next, WorkerStep, PrefetchStep, ReaderStep, Schedule, DeleteBook, WorkerStarts,
          WorkerResumes, WorkerQueuesForSlot, WorkerHasSlot, WorkerResumesInSlot, WorkerWakes,
          WorkerLeaves, vars, foreground

\* While the line for the slot stands, and no worker enters or leaves it.
LEMMA LineStays ==
  ASSUME TypeOK, OneInBackground, UNCHANGED <<slot, background, leaving, fate>>,
         \A a \in Books :
           /\ leaving[a] # Nobody => worker'[a].at \in {"none", "new"}
           /\ worker'[a].at = "slot" <=> worker[a].at = "slot"
           /\ worker'[a].at \in PastLine <=> worker[a].at \in PastLine
           /\ worker'[a].at \in Fetching <=> worker[a].at \in Fetching
           /\ worker[a].at \in Fetching => worker'[a].chapter = worker[a].chapter
  PROVE  OneInBackground'
PROOF
  <1>1. \A a \in Books : /\ At(a)' = "slot" <=> At(a) = "slot"
                         /\ At(a)' \in PastLine <=> At(a) \in PastLine
                         /\ At(a)' \in Fetching <=> At(a) \in Fetching
    BY DEF At
  <1>2. background # NoKey => background[1] \in Books
    BY KeyParts DEF TypeOK
  <1>4. ASSUME NEW a \in Books
        PROVE  /\ leaving'[a] # Nobody => worker'[a].at \in {"none", "new"}
               /\ At(a)' \in {"slot"} \cup PastLine <=> a \in Range(slot')
               /\ At(a)' \in PastLine => Head(slot') = a
               /\ worker'[a].at \in Fetching =>
                    background' = <<a, worker'[a].chapter>> \/ (fate'[a] = "gone" /\ background' = NoKey)
    BY <1>1 DEF OneInBackground
  <1>5. ASSUME background' # NoKey
        PROVE  (IF leaving'[background'[1]] = Nobody THEN worker'[background'[1]].at
                ELSE leaving'[background'[1]].at) \in Fetching
    <2>1. PICK a \in Books : a = background[1]
      BY <1>5, <1>2
    <2>2. At(a) \in Fetching
      BY <1>5, <2>1 DEF OneInBackground
    <2>3. At(a)' \in Fetching
      BY <2>2, <1>1
    <2>4. background'[1] = a
      BY <2>1
    <2> QED
      BY <2>3, <2>4 DEF At
  <1>6. IsInjective(slot')
    BY DEF OneInBackground
  <1> QED
    BY <1>4, <1>5, <1>6 DEF OneInBackground, At

\* What there is to show of a line that has changed.
LEMMA LineHolds ==
  ASSUME IsInjective(slot'),
         \A a \in Books :
           /\ leaving'[a] # Nobody => worker'[a].at \in {"none", "new"}
           /\ At(a)' \in {"slot"} \cup PastLine <=> a \in Range(slot')
           /\ At(a)' \in PastLine => Head(slot') = a
           /\ worker'[a].at \in Fetching =>
                background' = <<a, worker'[a].chapter>> \/ (fate'[a] = "gone" /\ background' = NoKey),
         background' = NoKey \/ \E a \in Books : background'[1] = a /\ At(a)' \in Fetching
  PROVE  OneInBackground'
PROOF
  <1>1. ASSUME background' # NoKey
        PROVE  (IF leaving'[background'[1]] = Nobody THEN worker'[background'[1]].at
                ELSE leaving'[background'[1]].at) \in Fetching
    <2>1. PICK a \in Books : background'[1] = a /\ At(a)' \in Fetching
      BY <1>1
    <2> QED
      BY <2>1 DEF At
  <1> QED
    BY <1>1 DEF OneInBackground, At

\* At most one background download, whoever takes the slot, gives it up, ends
\* or is deleted.
LEMMA OneStaysInBackground ==
  ASSUME TypeOK, OneInBackground, DeletionsEnd, [Next]_vars
  PROVE  OneInBackground'
PROOF
  <1>1. /\ slot \in Seq(Books) /\ IsInjective(slot)
        /\ DOMAIN worker = Books /\ DOMAIN leaving = Books /\ DOMAIN fate = Books
        /\ background # NoKey => background[1] \in Books
    BY KeyParts DEF TypeOK, OneInBackground
  <1>2. /\ {"none", "new", "pause", "resume", "yield", "slot"} \cap PastLine = {}
        /\ {"none", "new", "pause", "resume", "yield", "slot", "pause2", "resume2"} \cap Fetching = {}
        /\ Fetching \subseteq PastLine /\ {"pause2", "resume2"} \subseteq PastLine
        /\ "slot" \notin PastLine /\ "fetch" \in Fetching /\ Outcomes \subseteq Fetching
    BY DEF PastLine, Fetching, Outcomes
  <1>3. ASSUME NEW b \in Books, At(b) \in PastLine, NEW a \in Books, a # b
        PROVE  At(a) \notin PastLine /\ worker[a].at \notin Fetching
    <2>1. At(a) \notin PastLine
      BY <1>3 DEF OneInBackground
    <2> QED
      BY <2>1, <1>2 DEF At, OneInBackground
  <1>4. ASSUME NEW b \in Books, Schedule(b) PROVE OneInBackground'
    <2>1. /\ worker' = worker \/ (worker[b] = NoWorker /\ worker' = [worker EXCEPT ![b] = NewWorker])
          /\ UNCHANGED <<slot, background, leaving, fate>>
      BY <1>4 DEF Schedule, deletion
    <2>2. NewWorker.at = "new" /\ NoWorker.at = "none"
      BY DEF NewWorker, NoWorker
    <2> HIDE DEF NewWorker, NoWorker
    <2> QED
      BY <1>1, <1>2, <2>1, <2>2, LineStays DEF OneInBackground
  <1>5. ASSUME NEW b \in Books, WorkerStarts(b) \/ WorkerResumes(b) PROVE OneInBackground'
    <2>1. /\ worker[b].at \in {"new", "resume"} /\ leaving[b] = Nobody
          /\ UNCHANGED <<slot, background, leaving, fate>>
      BY <1>5, WakingWorker DEF WorkerStarts, WorkerResumes, deletion
    <2>2. /\ worker'[b].at \in {"none", "yield", "pause"}
          /\ \A a \in Books : a # b => worker'[a] = worker[a]
      <3>1. CASE WorkerStarts(b)
        <4> DEFINE w == [at |-> IF idle THEN "yield" ELSE "pause", chapter |-> Head(queue[b])]
        <4>1. worker' = [worker EXCEPT ![b] = NoWorker] \/ worker' = [worker EXCEPT ![b] = w]
          BY <3>1 DEF WorkerStarts, TakeNext
        <4>2. w.at \in {"yield", "pause"} /\ NoWorker.at = "none"
          BY DEF NoWorker
        <4> HIDE DEF NoWorker, w
        <4> QED
          BY <4>1, <4>2, <1>1
      <3>2. CASE WorkerResumes(b)
        BY <3>2, <1>1, Workers DEF WorkerResumes
      <3> QED
        BY <1>5, <3>1, <3>2
    <2> QED
      BY <1>2, <2>1, <2>2, LineStays DEF OneInBackground
  <1>6. ASSUME NEW b \in Books, InSlot(b), UNCHANGED deletion,
               leaving[b] = Nobody,
               \A a \in Books : a # b => At(a) \notin PastLine,
               worker[b].at \notin Fetching,
               IsInjective(slot'), Range(slot') = Range(slot) \cup {b}, Head(slot') = b
        PROVE  OneInBackground'
    <2>1. \E at \in PastLine :
            /\ worker' = [worker EXCEPT ![b].at = at]
            /\ \/ at \in Fetching /\ background' = <<b, worker[b].chapter>>
               \/ at \notin Fetching /\ background' = background
      BY <1>2, <1>6 DEF InSlot, BeginDownload, Outcomes
    <2>2. PICK at \in PastLine :
            /\ worker' = [worker EXCEPT ![b].at = at]
            /\ \/ at \in Fetching /\ background' = <<b, worker[b].chapter>>
               \/ at \notin Fetching /\ background' = background
      BY <2>1
    <2>3. /\ worker'[b].at = at /\ worker'[b].chapter = worker[b].chapter
          /\ \A a \in Books : a # b => worker'[a] = worker[a]
          /\ leaving' = leaving /\ fate' = fate
      BY <1>1, <1>6, <2>2, Workers DEF deletion
    <2>4. At(b)' = at /\ \A a \in Books : a # b => At(a)' = At(a)
      BY <2>3, <1>6 DEF At
    <2>5. background = NoKey
      <3>1. At(b) \notin Fetching
        BY <1>6 DEF At
      <3>2. \A a \in Books : At(a) \notin Fetching
        BY <3>1, <1>2, <1>6
      <3> QED
        BY <3>2, <1>1 DEF OneInBackground
    <2>6. ASSUME NEW a \in Books
          PROVE  /\ leaving'[a] # Nobody => worker'[a].at \in {"none", "new"}
                 /\ At(a)' \in {"slot"} \cup PastLine <=> a \in Range(slot')
                 /\ At(a)' \in PastLine => Head(slot') = a
                 /\ worker'[a].at \in Fetching =>
                      \/ background' = <<a, worker'[a].chapter>>
                      \/ fate'[a] = "gone" /\ background' = NoKey
      <3>1. CASE a = b
        BY <3>1, <2>2, <2>3, <2>4, <1>6
      <3>2. CASE a # b
        <4>1. At(a) \notin PastLine /\ worker[a].at \notin Fetching
          BY <3>2, <1>6, <1>2 DEF At, OneInBackground
        <4> QED
          BY <3>2, <4>1, <2>3, <2>4, <1>6 DEF OneInBackground
      <3> QED
        BY <3>1, <3>2
    <2>7. background' = NoKey \/ \E a \in Books : background'[1] = a /\ At(a)' \in Fetching
      BY <2>2, <2>4, <2>5
    <2> QED
      BY <1>6, <2>6, <2>7, LineHolds
  <1>7. ASSUME NEW b \in Books, WorkerQueuesForSlot(b) PROVE OneInBackground'
    <2>1. worker[b].at = "yield" /\ slot' = Append(slot, b) /\ UNCHANGED deletion
      BY <1>7 DEF WorkerQueuesForSlot
    <2>2. leaving[b] = Nobody /\ At(b) = "yield" /\ b \notin Range(slot)
      BY <2>1, <1>2, WakingWorker DEF OneInBackground
    <2>3. PICK t \in Seq(Books) : t = <<b>> /\ IsInjective(t) /\ Range(t) = {b}
      BY ShortLists
    <2>4. slot' = slot \o t
      BY <2>1, <2>3, <1>1, AppendIsConcat
    <2>5. IsInjective(slot') /\ Range(slot') = Range(slot) \cup {b} /\ slot' \in Seq(Books)
      <3>1. IsInjective(t) /\ Range(slot) \cap Range(t) = {}
        BY <2>2, <2>3
      <3>2. /\ slot \o t \in Seq(Books) /\ IsInjective(slot \o t)
            /\ Range(slot \o t) = Range(slot) \cup Range(t)
        BY <1>1, <3>1, ConcatLists
      <3> QED
        BY <2>3, <2>4, <3>2
    <2>6. CASE slot = <<>> /\ InSlot(b)
      <3>1. Head(slot') = b
        BY <2>1, <2>6
      <3>2. Range(slot) = {}
        BY <2>6 DEF Range
      <3>3. \A a \in Books : a # b => At(a) \notin PastLine
        BY <3>2 DEF OneInBackground
      <3> QED
        BY <2>1, <2>2, <2>5, <2>6, <3>1, <3>3, <1>2, <1>6
    <2>7. CASE slot # <<>> /\ worker' = [worker EXCEPT ![b].at = "slot"] /\ UNCHANGED background
      <3>1. Head(slot') = Head(slot)
        <4>1. slot'[1] = slot[1] /\ slot' # <<>>
          <5>1. Len(slot) # 0 /\ Len(slot) \in Nat
            BY <2>7, <1>1, EmptySeq, LenProperties
          <5>2. /\ Len(slot') = Len(slot) + 1
                /\ \A i \in 1 .. Len(slot) : slot'[i] = slot[i]
            BY <2>1, <1>1, AppendProperties
          <5>3. 1 \in 1 .. Len(slot) /\ Len(slot') # 0
            BY <5>1, <5>2
          <5> QED
            BY <5>2, <5>3, <2>5, EmptySeq
        <4> QED
          BY <4>1, <2>7, <2>5, <1>1
      <3>2. /\ worker'[b].at = "slot" /\ leaving' = leaving /\ fate' = fate
            /\ \A a \in Books : a # b => worker'[a] = worker[a]
        BY <2>7, <2>1, <1>1, Workers DEF deletion
      <3>3. At(b)' = "slot" /\ \A a \in Books : a # b => At(a)' = At(a)
        BY <3>2, <2>2 DEF At
      <3>4. ASSUME NEW a \in Books
            PROVE  /\ leaving'[a] # Nobody => worker'[a].at \in {"none", "new"}
                   /\ At(a)' \in {"slot"} \cup PastLine <=> a \in Range(slot')
                   /\ At(a)' \in PastLine => Head(slot') = a
                   /\ worker'[a].at \in Fetching =>
                        \/ background' = <<a, worker'[a].chapter>>
                        \/ fate'[a] = "gone" /\ background' = NoKey
        <4>1. CASE a = b
          BY <4>1, <2>2, <3>2, <3>3, <2>5, <1>2
        <4>2. CASE a # b
          BY <4>2, <3>1, <3>2, <3>3, <2>5, <2>7 DEF OneInBackground
        <4> QED
          BY <4>1, <4>2
      <3>5. background' = NoKey \/ \E a \in Books : background'[1] = a /\ At(a)' \in Fetching
        <4>1. background = NoKey \/ (background[1] # b /\ At(background[1]) \in Fetching)
          BY <2>2, <1>2 DEF OneInBackground
        <4> QED
          BY <4>1, <3>3, <2>7, <1>1
      <3> QED
        BY <2>5, <3>4, <3>5, LineHolds
    <2> QED
      BY <1>7, <2>6, <2>7 DEF WorkerQueuesForSlot
  <1>8. ASSUME NEW b \in Books, WorkerHasSlot(b) \/ WorkerResumesInSlot(b) PROVE OneInBackground'
    <2>1. /\ worker[b].at \in {"slot", "resume2"} /\ UNCHANGED deletion /\ slot' = slot
          /\ (WorkerHasSlot(b) => Head(slot) = b)
      BY <1>8 DEF WorkerHasSlot, WorkerResumesInSlot
    <2>2. leaving[b] = Nobody /\ At(b) = worker[b].at
      BY <2>1, WakingWorker
    <2>3. b \in Range(slot) /\ Head(slot) = b
      BY <1>8, <2>1, <2>2, <1>2 DEF OneInBackground, WorkerResumesInSlot
    <2>4. \A a \in Books : a # b => At(a) \notin PastLine
      BY <2>3 DEF OneInBackground
    <2>5. CASE InSlot(b)
      BY <2>1, <2>2, <2>3, <2>4, <2>5, <1>1, <1>2, <1>6
    <2>6. CASE WorkerResumesInSlot(b)
      <3>1. \E at \in Fetching :
              /\ worker' = [worker EXCEPT ![b].at = at] /\ background' = <<b, worker[b].chapter>>
        BY <2>6, <1>2 DEF WorkerResumesInSlot, BeginDownload, Outcomes
      <3>2. PICK at \in Fetching :
              /\ worker' = [worker EXCEPT ![b].at = at] /\ background' = <<b, worker[b].chapter>>
        BY <3>1
      <3>3. /\ worker'[b].at = at /\ worker'[b].chapter = worker[b].chapter
            /\ \A a \in Books : a # b => worker'[a] = worker[a]
            /\ leaving' = leaving /\ fate' = fate
        BY <1>1, <2>1, <3>2, Workers DEF deletion
      <3>4. At(b)' = at /\ \A a \in Books : a # b => At(a)' = At(a)
        BY <3>3, <2>2 DEF At
      <3>5. ASSUME NEW a \in Books
            PROVE  /\ leaving'[a] # Nobody => worker'[a].at \in {"none", "new"}
                   /\ At(a)' \in {"slot"} \cup PastLine <=> a \in Range(slot')
                   /\ At(a)' \in PastLine => Head(slot') = a
                   /\ worker'[a].at \in Fetching =>
                        \/ background' = <<a, worker'[a].chapter>>
                        \/ fate'[a] = "gone" /\ background' = NoKey
        <4>1. CASE a = b
          BY <4>1, <1>2, <2>1, <2>2, <2>3, <3>2, <3>3, <3>4
        <4>2. CASE a # b
          <5>1. At(a) \notin PastLine /\ worker[a].at \notin Fetching
            BY <4>2, <2>4, <1>2 DEF At, OneInBackground
          <5> QED
            BY <4>2, <5>1, <2>1, <3>3, <3>4 DEF OneInBackground
        <4> QED
          BY <4>1, <4>2
      <3> QED
        BY <1>1, <2>1, <3>2, <3>4, <3>5, LineHolds
    <2> QED
      BY <1>8, <2>5, <2>6 DEF WorkerHasSlot
  <1>9. ASSUME NEW b \in Books, WorkerWakes(b) PROVE OneInBackground'
    <2>1. /\ worker[b].at \in Outcomes /\ slot' = Tail(slot) /\ background' = NoKey
          /\ UNCHANGED deletion
      BY <1>9 DEF WorkerWakes
    <2>2. /\ leaving[b] = Nobody /\ At(b) \in PastLine
          /\ worker[b].at \notin {"none", "new"}
      BY <2>1, <1>2, WakingWorker DEF Outcomes
    <2>3. b \in Range(slot) /\ Head(slot) = b /\ slot # <<>>
      BY <2>2, SlotFacts DEF OneInBackground
    <2>4. IsInjective(slot') /\ Range(slot') = Range(slot) \ {b}
      BY <2>1, <2>3, <1>1, HeadAndTail
    <2>5. \E w : w.at \in {"none", "yield", "pause"} /\ worker' = [worker EXCEPT ![b] = w]
      <3>1. PICK chapters : TakeNext(b, chapters)
        BY <1>9 DEF WorkerWakes
      <3> DEFINE w == [at |-> IF idle THEN "yield" ELSE "pause", chapter |-> Head(chapters)]
      <3>2. worker' = [worker EXCEPT ![b] = NoWorker] \/ worker' = [worker EXCEPT ![b] = w]
        BY <3>1 DEF TakeNext
      <3>3. w.at \in {"yield", "pause"} /\ NoWorker.at = "none"
        BY DEF NoWorker
      <3> HIDE DEF NoWorker, w
      <3> QED
        BY <3>2, <3>3
    <2>6. /\ worker'[b].at \in {"none", "yield", "pause"}
          /\ \A a \in Books : a # b => worker'[a] = worker[a]
          /\ leaving' = leaving /\ fate' = fate
      BY <2>1, <2>5, <1>1 DEF deletion
    <2>7. At(b)' \in {"none", "yield", "pause"} /\ \A a \in Books : a # b => At(a)' = At(a)
      BY <2>6, <2>2 DEF At
    <2>8. ASSUME NEW a \in Books
          PROVE  /\ leaving'[a] # Nobody => worker'[a].at \in {"none", "new"}
                 /\ At(a)' \in {"slot"} \cup PastLine <=> a \in Range(slot')
                 /\ At(a)' \in PastLine => Head(slot') = a
                 /\ worker'[a].at \in Fetching =>
                      \/ background' = <<a, worker'[a].chapter>>
                      \/ fate'[a] = "gone" /\ background' = NoKey
      <3>1. CASE a = b
        BY <3>1, <2>2, <2>4, <2>6, <2>7, <1>2
      <3>2. CASE a # b
        <4>1. At(a) \notin PastLine /\ worker[a].at \notin Fetching
          BY <3>2, <2>2, <1>3
        <4> QED
          BY <3>2, <4>1, <2>4, <2>6, <2>7 DEF OneInBackground
      <3> QED
        BY <3>1, <3>2
    <2> QED
      BY <2>1, <2>4, <2>8, LineHolds
  <1>10. ASSUME NEW b \in Books, WorkerLeaves(b) PROVE OneInBackground'
    <2> DEFINE i == CHOOSE i \in DOMAIN slot : slot[i] = b
    <2>1. /\ leaving[b] # Nobody /\ leaving' = [leaving EXCEPT ![b] = Nobody]
          /\ slot' = IF b \in Range(slot) THEN RemoveAt(slot, i) ELSE slot
          /\ background' = IF leaving[b].at \in Fetching THEN NoKey ELSE background
          /\ UNCHANGED <<worker, fate>>
      BY <1>10 DEF WorkerLeaves
    <2>2. At(b) = leaving[b].at /\ worker[b].at \in {"none", "new"}
      BY <2>1, SlotFacts
    <2>3. b \in Range(slot) => i \in DOMAIN slot /\ slot[i] = b
      BY SlotFacts
    <2> HIDE DEF i
    <2>4. /\ IsInjective(slot') /\ Range(slot') = Range(slot) \ {b}
          /\ Head(slot) # b => Head(slot') = Head(slot)
      <3>1. CASE b \in Range(slot)
        <4>1. /\ IsInjective(RemoveAt(slot, i)) /\ Range(RemoveAt(slot, i)) = Range(slot) \ {slot[i]}
              /\ i # 1 => Head(RemoveAt(slot, i)) = Head(slot)
          BY <3>1, <2>3, <1>1, TakenOut
        <4>2. i = 1 => Head(slot) = b
          <5>1. slot # <<>>
            BY <3>1, SlotFacts
          <5> QED
            BY <5>1, <3>1, <2>3, <1>1
        <4> QED
          BY <3>1, <4>1, <4>2, <2>1, <2>3
      <3>2. CASE b \notin Range(slot)
        BY <3>2, <2>1, <1>1
      <3> QED
        BY <3>1, <3>2
    <2>5. At(b)' = worker[b].at /\ \A a \in Books : a # b => At(a)' = At(a) /\ leaving'[a] = leaving[a]
      BY <2>1, <1>1 DEF At
    <2>6. ASSUME NEW a \in Books
          PROVE  /\ leaving'[a] # Nobody => worker'[a].at \in {"none", "new"}
                 /\ At(a)' \in {"slot"} \cup PastLine <=> a \in Range(slot')
                 /\ At(a)' \in PastLine => Head(slot') = a
                 /\ worker'[a].at \in Fetching =>
                      \/ background' = <<a, worker'[a].chapter>>
                      \/ fate'[a] = "gone" /\ background' = NoKey
      <3>1. CASE a = b
        <4>1. leaving'[b] = Nobody
          BY <2>1, <1>1
        <4> QED
          BY <3>1, <4>1, <2>1, <2>2, <2>4, <2>5, <1>2
      <3>2. CASE a # b
        <4>1. worker[a].at \in Fetching => background' = background
          <5>1. leaving[b].at \in Fetching => worker[a].at \notin Fetching
            BY <3>2, <2>2, <1>2, <1>3
          <5> QED
            BY <5>1, <2>1
        <4> QED
          BY <3>2, <4>1, <2>1, <2>4, <2>5 DEF OneInBackground
      <3> QED
        BY <3>1, <3>2
    <2>7. background' = NoKey \/ \E a \in Books : background'[1] = a /\ At(a)' \in Fetching
      <3>1. CASE leaving[b].at \in Fetching
        BY <3>1, <2>1
      <3>2. CASE leaving[b].at \notin Fetching
        <4>1. background' = background
          BY <3>2, <2>1
        <4>2. background = NoKey \/ (background[1] # b /\ At(background[1]) \in Fetching)
          BY <3>2, <2>2 DEF OneInBackground
        <4> QED
          BY <4>1, <4>2, <2>5, <1>1
      <3> QED
        BY <3>1, <3>2
    <2> QED
      BY <2>4, <2>6, <2>7, LineHolds
  <1>11. ASSUME NEW b \in Books, CancelBook(b) PROVE OneInBackground'
    <2>1. /\ fate[b] = "kept" /\ fate' = [fate EXCEPT ![b] = "going"]
          /\ worker' = [worker EXCEPT ![b] = NoWorker]
          /\ UNCHANGED <<slot, background>>
      BY <1>11 DEF CancelBook
    <2>2. \E last \in BOOLEAN :
            /\ leaving' = [leaving EXCEPT ![b] = [at |-> worker[b].at, last |-> last]]
            /\ worker[b].at = "none" => ~last
      BY <1>11 DEF CancelBook
    <2>3. PICK last \in BOOLEAN :
            /\ leaving' = [leaving EXCEPT ![b] = [at |-> worker[b].at, last |-> last]]
            /\ worker[b].at = "none" => ~last
      BY <2>2
    <2>4. leaving[b] = Nobody
      BY <2>1 DEF DeletionsEnd
    <2>5. /\ leaving'[b] = [at |-> worker[b].at, last |-> last] /\ worker'[b] = NoWorker
          /\ \A a \in Books : a # b => worker'[a] = worker[a] /\ leaving'[a] = leaving[a]
                                        /\ fate'[a] = fate[a]
      BY <2>1, <2>3, <1>1
    <2>6. NoWorker.at = "none"
      BY DEF NoWorker
    <2> HIDE DEF NoWorker
    <2>7. At(b)' = At(b)
      <3>1. At(b) = worker[b].at
        BY <2>4 DEF At
      <3>2. leaving'[b].at = worker[b].at
        BY <2>5
      <3>3. leaving'[b] = Nobody => worker[b].at = "none"
        BY <3>2 DEF Nobody
      <3> QED
        BY <3>1, <3>2, <3>3, <2>5, <2>6 DEF At
    <2>8. \A a \in Books : At(a)' = At(a)
      <3>1. ASSUME NEW a \in Books, a # b PROVE At(a)' = At(a)
        BY <3>1, <2>5 DEF At
      <3> QED
        BY <3>1, <2>7
    <2>9. ASSUME NEW a \in Books
          PROVE  /\ leaving'[a] # Nobody => worker'[a].at \in {"none", "new"}
                 /\ At(a)' \in {"slot"} \cup PastLine <=> a \in Range(slot')
                 /\ At(a)' \in PastLine => Head(slot') = a
                 /\ worker'[a].at \in Fetching =>
                      \/ background' = <<a, worker'[a].chapter>>
                      \/ fate'[a] = "gone" /\ background' = NoKey
      BY <2>1, <2>5, <2>6, <2>8, <1>2 DEF OneInBackground
    <2>10. background' = NoKey \/ \E a \in Books : background'[1] = a /\ At(a)' \in Fetching
      BY <2>1, <2>8, <1>1 DEF OneInBackground
    <2> QED
      BY <2>1, <2>9, <2>10, <1>1, LineHolds
  <1>12. ASSUME NEW b \in Books, DeleteBook(b) PROVE OneInBackground'
    <2>1. /\ fate[b] = "going" /\ leaving[b] = Nobody
          /\ background' = IF background # NoKey /\ background[1] = b THEN NoKey ELSE background
          /\ fate' = [fate EXCEPT ![b] = "gone"]
          /\ UNCHANGED <<slot, worker, leaving>>
      BY <1>12 DEF DeleteBook
    <2>2. \A a \in Books : At(a)' = At(a)
      BY <2>1 DEF At
    <2>3. fate'[b] = "gone" /\ \A a \in Books : a # b => fate'[a] = fate[a]
      BY <2>1, <1>1
    <2>4. ASSUME NEW a \in Books, worker[a].at \in Fetching
          PROVE  \/ background' = <<a, worker[a].chapter>>
                 \/ fate'[a] = "gone" /\ background' = NoKey
      <3>1. background = <<a, worker[a].chapter>> \/ (fate[a] = "gone" /\ background = NoKey)
        BY <2>4 DEF OneInBackground
      <3>2. CASE background = NoKey
        BY <3>1, <3>2, <2>1, <2>3, NoKeyIsNoKey, KeyParts, <2>4 DEF TypeOK
      <3>3. CASE background # NoKey /\ a = b
        BY <3>1, <3>3, <2>1, <2>3
      <3>4. CASE background # NoKey /\ a # b
        BY <3>1, <3>4, <2>1
      <3> QED
        BY <3>2, <3>3, <3>4
    <2>5. ASSUME NEW a \in Books
          PROVE  /\ leaving'[a] # Nobody => worker'[a].at \in {"none", "new"}
                 /\ At(a)' \in {"slot"} \cup PastLine <=> a \in Range(slot')
                 /\ At(a)' \in PastLine => Head(slot') = a
                 /\ worker'[a].at \in Fetching =>
                      \/ background' = <<a, worker'[a].chapter>>
                      \/ fate'[a] = "gone" /\ background' = NoKey
      BY <2>1, <2>2, <2>4 DEF OneInBackground
    <2>6. background' = NoKey \/ \E a \in Books : background'[1] = a /\ At(a)' \in Fetching
      BY <2>1, <2>2, <1>1 DEF OneInBackground
    <2> QED
      BY <2>1, <2>5, <2>6, <1>1, LineHolds
  <1>13. ASSUME NEW k \in Keys, DownloadStep(k) PROVE OneInBackground'
    <2>1. PICK outcome \in Outcomes : DownloadEnds(k, outcome)
      BY <1>13, DownloadStepShape
    <2>2. UNCHANGED <<slot, background, leaving, fate>>
      BY <2>1 DEF DownloadEnds
    <2>3. worker' = worker \/ (worker[k[1]].at = "fetch" /\ worker' = [worker EXCEPT ![k[1]].at = outcome])
      BY <2>1 DEF DownloadEnds
    <2>4. k[1] \in Books /\ outcome \in Fetching /\ outcome \in PastLine /\ outcome # "slot"
      BY KeyParts, <1>2 DEF Outcomes
    <2>5. ASSUME NEW a \in Books
          PROVE  \/ worker'[a] = worker[a]
                 \/ /\ worker[a].at = "fetch" /\ worker'[a].at = outcome
                    /\ worker'[a].chapter = worker[a].chapter
      BY <2>3, <2>4, <1>1, Workers
    <2>6. ASSUME NEW a \in Books
          PROVE  /\ leaving[a] # Nobody => worker'[a].at \in {"none", "new"}
                 /\ worker'[a].at = "slot" <=> worker[a].at = "slot"
                 /\ worker'[a].at \in PastLine <=> worker[a].at \in PastLine
                 /\ worker'[a].at \in Fetching <=> worker[a].at \in Fetching
                 /\ worker[a].at \in Fetching => worker'[a].chapter = worker[a].chapter
      BY <2>4, <2>5, <1>2 DEF OneInBackground
    <2> QED
      BY <2>2, <2>6, LineStays
  <1>14. ASSUME NEW keys, Leave(keys), UNCHANGED <<slot, background, leaving, fate>>
         PROVE  OneInBackground'
    <2>1. worker' = worker \/ worker' = [a \in Books |-> Released(worker[a])]
      BY <1>14 DEF Leave
    <2>2. ASSUME NEW a \in Books
          PROVE  \/ worker'[a] = worker[a]
                 \/ worker[a].at = "pause" /\ worker'[a].at = "resume"
                 \/ worker[a].at = "pause2" /\ worker'[a].at = "resume2"
      BY <2>1, Workers DEF Released
    <2>3. ASSUME NEW a \in Books
          PROVE  /\ leaving[a] # Nobody => worker'[a].at \in {"none", "new"}
                 /\ worker'[a].at = "slot" <=> worker[a].at = "slot"
                 /\ worker'[a].at \in PastLine <=> worker[a].at \in PastLine
                 /\ worker'[a].at \in Fetching <=> worker[a].at \in Fetching
                 /\ worker[a].at \in Fetching => worker'[a].chapter = worker[a].chapter
      BY <2>2, <1>2 DEF OneInBackground
    <2> QED
      BY <1>14, <2>3, LineStays
  <1>15. ASSUME Restart \/ Shutdown PROVE OneInBackground'
    <2>1. PICK stored : StartsOn(stored)
      BY <1>15, StartShape
    <2>2. /\ slot' = <<>> /\ background' = NoKey /\ worker' \in [Books -> {NoWorker, NewWorker}]
          /\ \A a \in Books : leaving'[a] = Nobody
      BY <2>1, StartupTypes DEF StartsOn
    <2>3. NoWorker.at = "none" /\ NewWorker.at = "new"
      BY DEF NoWorker, NewWorker
    <2>4. IsInjective(slot') /\ Range(slot') = {}
      BY <2>2 DEF IsInjective, Range
    <2> HIDE DEF NoWorker, NewWorker
    <2>5. \A a \in Books : worker'[a].at \in {"none", "new"} /\ At(a)' \in {"none", "new"}
      BY <2>2, <2>3 DEF At
    <2> QED
      BY <2>2, <2>4, <2>5, <1>2, LineHolds
  <1>16. CASE UNCHANGED <<slot, background, leaving, fate, worker>>
    BY <1>16, LineStays DEF OneInBackground
  <1> QED
    BY <1>4, <1>5, <1>7, <1>8, <1>9, <1>10, <1>11, <1>12, <1>13, <1>14, <1>15, <1>16
      DEF Next, WorkerStep, PrefetchStep, ReaderStep, Ensure, ReadStored, ReaderWakes,
          Disconnect, LeaveReader, PrefetchStarts, PrefetchWakes, PrefetchDropped, vars, deletion

\* A line is the chapter its worker holds, if any, and the queue.
LEMMA LineOf ==
  ASSUME TypeOK, TypeOK', NEW b \in Books
  PROVE  /\ worker[b].chapter = 0 => Line[b] = queue[b]
         /\ worker[b].chapter # 0 =>
              /\ worker[b].chapter \in ChaptersOf[b] /\ Line[b] # <<>>
              /\ Head(Line[b]) = worker[b].chapter /\ Tail(Line[b]) = queue[b]
         /\ worker'[b].chapter = 0 => Line'[b] = queue'[b]
         /\ worker'[b].chapter # 0 =>
              /\ worker'[b].chapter \in ChaptersOf[b] /\ Line'[b] # <<>>
              /\ Head(Line'[b]) = worker'[b].chapter /\ Tail(Line'[b]) = queue'[b]
         /\ Line[b] \in Seq(ChaptersOf[b]) /\ Line'[b] \in Seq(ChaptersOf[b])
         /\ queue[b] \in Seq(ChaptersOf[b]) /\ queue'[b] \in Seq(ChaptersOf[b])
         /\ worker'[b].chapter = worker[b].chapter /\ queue'[b] = queue[b] => Line'[b] = Line[b]
PROOF
  <1>1. /\ worker[b].chapter = 0 \/ worker[b].chapter \in ChaptersOf[b]
        /\ queue[b] \in Seq(ChaptersOf[b])
    BY DEF TypeOK
  <1>2. /\ worker'[b].chapter = 0 \/ worker'[b].chapter \in ChaptersOf[b]
        /\ queue'[b] \in Seq(ChaptersOf[b])
    BY DEF TypeOK
  <1>3. Line[b] = (IF worker[b].chapter = 0 THEN <<>> ELSE <<worker[b].chapter>>) \o queue[b]
    BY DEF Line, Held
  <1>4. Line'[b] = (IF worker'[b].chapter = 0 THEN <<>> ELSE <<worker'[b].chapter>>) \o queue'[b]
    BY DEF Line, Held
  <1>5. /\ Line[b] \in Seq(ChaptersOf[b])
        /\ worker[b].chapter = 0 => Line[b] = queue[b]
        /\ worker[b].chapter # 0 =>
             /\ worker[b].chapter \in ChaptersOf[b] /\ Line[b] # <<>>
             /\ Head(Line[b]) = worker[b].chapter /\ Tail(Line[b]) = queue[b]
    <2>1. CASE worker[b].chapter = 0
      <3>1. Line[b] = <<>> \o queue[b]
        BY <2>1, <1>3
      <3>2. <<>> \o queue[b] = queue[b]
        BY <1>1, ConcatEmptySeq
      <3>3. Line[b] = queue[b]
        BY <3>1, <3>2, Zenon
      <3> QED
        BY <2>1, <3>3, <1>1, Zenon
    <2>2. CASE worker[b].chapter # 0
      <3>1. PICK c \in ChaptersOf[b] : c = worker[b].chapter
        BY <2>2, <1>1
      <3>2. PICK q \in Seq(ChaptersOf[b]) : q = queue[b]
        BY <1>1
      <3>3. PICK l : l = <<c>> \o q
        OBVIOUS
      <3>4. l \in Seq(ChaptersOf[b]) /\ l # <<>> /\ Head(l) = c /\ Tail(l) = q
        <4>1. /\ <<c>> \o q \in Seq(ChaptersOf[b]) /\ <<c>> \o q # <<>>
              /\ Head(<<c>> \o q) = c /\ Tail(<<c>> \o q) = q
          BY PutFirst
        <4> QED
          BY <3>3, <4>1, Zenon
      <3>5. Line[b] = l
        <4>1. Line[b] = <<worker[b].chapter>> \o queue[b]
          BY <2>2, <1>3
        <4> QED
          BY <3>1, <3>2, <3>3, <4>1, Zenon
      <3> QED
        BY <2>2, <3>1, <3>2, <3>4, <3>5
    <2> QED
      BY <2>1, <2>2
  <1>6. /\ Line'[b] \in Seq(ChaptersOf[b])
        /\ worker'[b].chapter = 0 => Line'[b] = queue'[b]
        /\ worker'[b].chapter # 0 =>
             /\ worker'[b].chapter \in ChaptersOf[b] /\ Line'[b] # <<>>
             /\ Head(Line'[b]) = worker'[b].chapter /\ Tail(Line'[b]) = queue'[b]
    <2>1. CASE worker'[b].chapter = 0
      <3>1. Line'[b] = <<>> \o queue'[b]
        BY <2>1, <1>4
      <3>2. <<>> \o queue'[b] = queue'[b]
        BY <1>2, ConcatEmptySeq
      <3>3. Line'[b] = queue'[b]
        BY <3>1, <3>2, Zenon
      <3> QED
        BY <2>1, <3>3, <1>2, Zenon
    <2>2. CASE worker'[b].chapter # 0
      <3>1. PICK c \in ChaptersOf[b] : c = worker'[b].chapter
        BY <2>2, <1>2
      <3>2. PICK q \in Seq(ChaptersOf[b]) : q = queue'[b]
        BY <1>2
      <3>3. PICK l : l = <<c>> \o q
        OBVIOUS
      <3>4. l \in Seq(ChaptersOf[b]) /\ l # <<>> /\ Head(l) = c /\ Tail(l) = q
        <4>1. /\ <<c>> \o q \in Seq(ChaptersOf[b]) /\ <<c>> \o q # <<>>
              /\ Head(<<c>> \o q) = c /\ Tail(<<c>> \o q) = q
          BY PutFirst
        <4> QED
          BY <3>3, <4>1, Zenon
      <3>5. Line'[b] = l
        <4>1. Line'[b] = <<worker'[b].chapter>> \o queue'[b]
          BY <2>2, <1>4
        <4> QED
          BY <3>1, <3>2, <3>3, <4>1, Zenon
      <3> QED
        BY <2>2, <3>1, <3>2, <3>4, <3>5
    <2> QED
      BY <2>1, <2>2
  <1>7. worker'[b].chapter = worker[b].chapter /\ queue'[b] = queue[b] => Line'[b] = Line[b]
    BY <1>3, <1>4
  <1> QED
    BY <1>1, <1>2, <1>5, <1>6, <1>7

\* The lines of the books are equal when each is.
LEMMA SameLines ==
  ASSUME \A b \in Books : Line'[b] = Line[b]
  PROVE  Line' = Line
PROOF
  <1>1. Line = [b \in Books |-> Line[b]] /\ Line' = [b \in Books |-> Line'[b]]
    BY DEF Line
  <1> QED
    BY <1>1

\* A list is its head and its tail.
LEMMA ListOf ==
  ASSUME NEW S, NEW s \in Seq(S), NEW t \in Seq(S), s # <<>>, t # <<>>,
         Head(s) = Head(t), Tail(s) = Tail(t)
  PROVE  s = t
PROOF
  <1>1. \A u \in Seq(S) : u # <<>> =>
          /\ Len(u) \in Nat /\ Len(u) # 0 /\ Head(u) = u[1] /\ Len(Tail(u)) = Len(u) - 1
          /\ \A i \in 1 .. Len(u) - 1 : Tail(u)[i] = u[i + 1]
    BY EmptySeq, LenProperties, HeadTailProperties
  <1>2. Len(s) = Len(t) /\ s[1] = t[1]
    BY <1>1
  <1>3. ASSUME NEW i \in 1 .. Len(s) PROVE s[i] = t[i]
    <2>1. CASE i = 1
      BY <2>1, <1>2
    <2>2. CASE i # 1
      <3>1. i - 1 \in 1 .. Len(s) - 1 /\ i - 1 \in 1 .. Len(t) - 1 /\ (i - 1) + 1 = i
        BY <2>2, <1>1, <1>2
      <3>2. Tail(s)[i - 1] = s[(i - 1) + 1] /\ Tail(t)[i - 1] = t[(i - 1) + 1]
        BY <1>1, <3>1
      <3> QED
        BY <3>1, <3>2
    <2> QED
      BY <2>1, <2>2
  <1> QED
    BY <1>2, <1>3, SeqEqual, Zenon

\* What a schedule adds to a line: chapters that were in no line of the book.
LEMMA LineAsked ==
  ASSUME TypeOK, TypeOK', NEW b \in Books, Schedule(b)
  PROVE  \E X \in SUBSET ChaptersOf[b] :
           /\ \A c \in X : <<b, c>> \notin queued
           /\ queued' = queued \cup ({b} \X X)
           /\ Line'[b] = Line[b] \o InOrder(X)
           /\ worker[b] # NoWorker \/ queue'[b] # <<>> => worker'[b] # NoWorker
           /\ worker'[b].chapter = worker[b].chapter
           /\ \A a \in Books : a # b => Line'[a] = Line[a] /\ worker'[a] = worker[a]
PROOF
  <1>1. PICK chapters \in SUBSET Missing(b, cached) :
          LET fresh == {c \in chapters : <<b, c>> \notin queued}
              longer == queue[b] \o InOrder(fresh)
          IN  /\ queue' = [queue EXCEPT ![b] = longer]
              /\ queued' = queued \cup ({b} \X fresh)
              /\ worker' = IF worker[b] = NoWorker /\ longer # <<>>
                           THEN [worker EXCEPT ![b] = NewWorker] ELSE worker
    BY DEF Schedule
  <1> DEFINE X == {c \in chapters : <<b, c>> \notin queued}
  <1>2. /\ X \in SUBSET ChaptersOf[b] /\ \A c \in X : <<b, c>> \notin queued
        /\ queued' = queued \cup ({b} \X X)
        /\ queue' = [queue EXCEPT ![b] = queue[b] \o InOrder(X)]
        /\ worker' = IF worker[b] = NoWorker /\ queue[b] \o InOrder(X) # <<>>
                     THEN [worker EXCEPT ![b] = NewWorker] ELSE worker
    BY <1>1 DEF Missing
  <1> HIDE DEF X
  <1>3. DOMAIN queue = Books /\ DOMAIN worker = Books
    BY DEF TypeOK
  <1>4. /\ queue'[b] = queue[b] \o InOrder(X)
        /\ \A a \in Books : a # b => queue'[a] = queue[a] /\ worker'[a] = worker[a]
    BY <1>2, <1>3
  <1>5. NoWorker.chapter = 0 /\ NewWorker.chapter = 0 /\ NewWorker # NoWorker
    <2>1. NoWorker.chapter = 0 /\ NewWorker.chapter = 0 /\ NewWorker.at # NoWorker.at
      BY DEF NoWorker, NewWorker
    <2> QED
      BY <2>1
  <1>6. /\ worker'[b].chapter = worker[b].chapter
        /\ worker[b] # NoWorker \/ queue'[b] # <<>> => worker'[b] # NoWorker
    <2> HIDE DEF NoWorker, NewWorker
    <2> QED
      BY <1>2, <1>3, <1>4, <1>5
  <1>7. InOrder(X) \in Seq(ChaptersOf[b])
    BY <1>2, MissingLists
  <1>8. Line'[b] = Line[b] \o InOrder(X)
    <2>1. CASE worker[b].chapter = 0
      <3>1. Line[b] = queue[b] /\ Line'[b] = queue'[b]
        BY <2>1, <1>6, LineOf
      <3> QED
        BY <3>1, <1>4
    <2>2. CASE worker[b].chapter # 0
      <3>1. PICK h : h = <<worker[b].chapter>>
        OBVIOUS
      <3>2. h \in Seq(ChaptersOf[b]) /\ queue[b] \in Seq(ChaptersOf[b])
        BY <3>1, <2>2, LineOf, ShortLists
      <3>3. Line[b] = h \o queue[b] /\ Line'[b] = h \o queue'[b]
        BY <3>1, <2>2, <1>6 DEF Line, Held
      <3>4. (h \o queue[b]) \o InOrder(X) = h \o (queue[b] \o InOrder(X))
        <4>1. \A s, t, u \in Seq(ChaptersOf[b]) : (s \o t) \o u = s \o (t \o u)
          BY ConcatAssociative
        <4> QED
          BY <3>2, <1>7, <4>1, Zenon
      <3> QED
        BY <3>3, <3>4, <1>4
    <2> QED
      BY <2>1, <2>2
  <1>9. \A a \in Books : a # b => Line'[a] = Line[a]
    BY <1>4, LineOf
  <1> QED
    BY <1>2, <1>4, <1>6, <1>8, <1>9

\* The line of a worker that looks for its next chapter is what it finds.
LEMMA LineTaken ==
  ASSUME TypeOK, TypeOK', NEW b \in Books, NEW chapters \in Seq(ChaptersOf[b]),
         TakeNext(b, chapters)
  PROVE  /\ Line'[b] = chapters
         /\ chapters # <<>> => worker'[b] # NoWorker
         /\ \A a \in Books : a # b => Line'[a] = Line[a] /\ worker'[a] = worker[a]
PROOF
  <1>1. DOMAIN queue = Books /\ DOMAIN worker = Books
    BY DEF TypeOK
  <1>2. CASE chapters = <<>>
    <2>1. worker' = [worker EXCEPT ![b] = NoWorker] /\ queue' = [queue EXCEPT ![b] = <<>>]
      BY <1>2 DEF TakeNext
    <2>2. NoWorker.chapter = 0
      BY DEF NoWorker
    <2> HIDE DEF NoWorker
    <2>3. /\ worker'[b].chapter = 0 /\ queue'[b] = <<>>
          /\ \A a \in Books : a # b => worker'[a] = worker[a] /\ queue'[a] = queue[a]
      BY <2>1, <2>2, <1>1
    <2> QED
      BY <1>2, <2>3, LineOf
  <1>3. CASE chapters # <<>>
    <2> DEFINE w == [at |-> IF idle THEN "yield" ELSE "pause", chapter |-> Head(chapters)]
    <2>1. worker' = [worker EXCEPT ![b] = w] /\ queue' = [queue EXCEPT ![b] = Tail(chapters)]
      BY <1>3 DEF TakeNext
    <2>2. w.chapter = Head(chapters) /\ w.at \in {"yield", "pause"}
      OBVIOUS
    <2>3. w # NoWorker
      <3>1. NoWorker.at = "none"
        BY DEF NoWorker
      <3> HIDE DEF w, NoWorker
      <3> QED
        BY <2>2, <3>1
    <2>4. Head(chapters) \in ChaptersOf[b] /\ Head(chapters) # 0
      BY <1>3, HeadTailProperties, KeyParts
    <2> HIDE DEF w
    <2>5. /\ worker'[b] = w /\ queue'[b] = Tail(chapters)
          /\ \A a \in Books : a # b => worker'[a] = worker[a] /\ queue'[a] = queue[a]
      BY <2>1, <1>1
    <2>6. /\ Line'[b] # <<>> /\ Line'[b] \in Seq(ChaptersOf[b])
          /\ Head(Line'[b]) = Head(chapters) /\ Tail(Line'[b]) = Tail(chapters)
      BY <2>2, <2>4, <2>5, LineOf
    <2>7. Line'[b] = chapters
      BY <1>3, <2>6, ListOf
    <2> QED
      BY <2>3, <2>5, <2>7, LineOf
  <1> QED
    BY <1>2, <1>3

\* The line of a worker that begins, or whose download has ended: it loses its
\* head, unless that is to be fetched again.
LEMMA LineMoves ==
  ASSUME TypeOK, TypeOK', NEW b \in Books, WorkerStarts(b) \/ WorkerWakes(b)
  PROVE  /\ \/ Line'[b] = Line[b] /\ queued' = queued
            \/ /\ Line[b] # <<>> /\ Line'[b] = Tail(Line[b])
               /\ queued' = queued \ {<<b, Head(Line[b])>>}
         /\ Line'[b] # <<>> => worker'[b] # NoWorker
         /\ \A a \in Books : a # b => Line'[a] = Line[a] /\ worker'[a] = worker[a]
PROOF
  <1>1. queue[b] \in Seq(ChaptersOf[b])
    BY DEF TypeOK
  <1>2. CASE WorkerStarts(b)
    <2>1. TakeNext(b, queue[b]) /\ queued' = queued /\ worker[b].at = "new"
      BY <1>2 DEF WorkerStarts
    <2>2. Line[b] = queue[b]
      <3>1. worker[b].chapter = 0
        BY <2>1 DEF TypeOK
      <3> QED
        BY <3>1, LineOf
    <2>3. /\ Line'[b] = queue[b] /\ (queue[b] # <<>> => worker'[b] # NoWorker)
          /\ \A a \in Books : a # b => Line'[a] = Line[a] /\ worker'[a] = worker[a]
      BY <1>1, <2>1, LineTaken
    <2> QED
      BY <2>1, <2>2, <2>3
  <1>3. CASE WorkerWakes(b)
    <2>1. worker[b].at \in Outcomes /\ worker[b].chapter \in ChaptersOf[b] /\ worker[b].chapter # 0
      <3>1. worker[b].at \in Outcomes
        BY <1>3 DEF WorkerWakes, Outcomes
      <3>2. worker[b].chapter \in ChaptersOf[b]
        BY <3>1 DEF TypeOK, Outcomes
      <3> QED
        BY <3>1, <3>2, KeyParts
    <2>2. /\ Line[b] # <<>> /\ Line[b] \in Seq(ChaptersOf[b])
          /\ Head(Line[b]) = worker[b].chapter /\ Tail(Line[b]) = queue[b]
      BY <2>1, LineOf
    <2>3. CASE worker[b].at = "cancelled"
      <3>1. TakeNext(b, <<worker[b].chapter>> \o queue[b]) /\ queued' = queued
        BY <1>3, <2>3 DEF WorkerWakes
      <3>2. Line[b] = <<worker[b].chapter>> \o queue[b]
        BY <2>1 DEF Line, Held
      <3>3. TakeNext(b, Line[b])
        BY <3>1, <3>2
      <3> QED
        BY <2>2, <3>1, <3>3, LineTaken
    <2>4. CASE worker[b].at # "cancelled"
      <3>1. TakeNext(b, queue[b]) /\ queued' = queued \ {<<b, worker[b].chapter>>}
        BY <1>3, <2>4 DEF WorkerWakes
      <3>2. /\ Line'[b] = queue[b] /\ (queue[b] # <<>> => worker'[b] # NoWorker)
            /\ \A a \in Books : a # b => Line'[a] = Line[a] /\ worker'[a] = worker[a]
        BY <1>1, <3>1, LineTaken
      <3> QED
        BY <2>2, <3>1, <3>2
    <2> QED
      BY <2>3, <2>4
  <1> QED
    BY <1>2, <1>3

\* The line of a book that a deletion cuts off, and those of the others.
LEMMA LineCut ==
  ASSUME TypeOK, TypeOK', OneInBackground, NEW b \in Books, CancelBook(b) \/ WorkerLeaves(b)
  PROVE  /\ Line'[b] = <<>> \/ (Line'[b] = Line[b] /\ worker'[b] = worker[b])
         /\ CancelBook(b) => Line'[b] = <<>>
         /\ \A a \in Books : a # b => Line'[a] = Line[a] /\ worker'[a] = worker[a]
PROOF
  <1>1. DOMAIN queue = Books /\ DOMAIN worker = Books
    BY DEF TypeOK
  <1>2. CASE CancelBook(b)
    <2>1. queue' = [queue EXCEPT ![b] = <<>>] /\ worker' = [worker EXCEPT ![b] = NoWorker]
      BY <1>2 DEF CancelBook
    <2>2. NoWorker.chapter = 0
      BY DEF NoWorker
    <2> HIDE DEF NoWorker
    <2>3. /\ worker'[b].chapter = 0 /\ queue'[b] = <<>>
          /\ \A a \in Books : a # b => worker'[a] = worker[a] /\ queue'[a] = queue[a]
      BY <2>1, <2>2, <1>1
    <2> QED
      BY <2>3, LineOf
  <1>3. CASE WorkerLeaves(b)
    <2>1. /\ leaving[b] # Nobody /\ worker' = worker
          /\ queue' = queue \/ queue' = [queue EXCEPT ![b] = <<>>]
      BY <1>3 DEF WorkerLeaves
    <2>2. worker'[b].chapter = 0
      BY <2>1 DEF OneInBackground, TypeOK
    <2>3. /\ \A a \in Books : a # b => queue'[a] = queue[a]
          /\ queue'[b] = queue[b] \/ queue'[b] = <<>>
      BY <2>1, <1>1
    <2>4. ~CancelBook(b)
      <3>1. ASSUME CancelBook(b) PROVE FALSE
        <4>1. upsets' = upsets + 1 /\ upsets' = upsets /\ upsets \in Nat
          BY <1>3, <3>1 DEF CancelBook, WorkerLeaves, TypeOK
        <4> QED
          BY <4>1
      <3> QED
        BY <3>1
    <2> QED
      BY <2>1, <2>2, <2>3, <2>4, LineOf
  <1> QED
    BY <1>2, <1>3

\* The steps that leave the lines alone.
LEMMA LinesKept ==
  ASSUME TypeOK, TypeOK', [Next]_vars,
         \A b \in Books : ~Schedule(b) /\ ~WorkerStarts(b) /\ ~WorkerWakes(b)
                          /\ ~CancelBook(b) /\ ~WorkerLeaves(b),
         ~Restart, ~Shutdown
  PROVE  /\ Line' = Line /\ queued' = queued
         /\ \A a \in Books : worker[a] # NoWorker => worker'[a] # NoWorker
PROOF
  <1>1. ASSUME UNCHANGED <<queue, queued>>,
               \A a \in Books : /\ worker'[a].chapter = worker[a].chapter
                                /\ worker[a] # NoWorker => worker'[a] # NoWorker
        PROVE  /\ Line' = Line /\ queued' = queued
               /\ \A a \in Books : worker[a] # NoWorker => worker'[a] # NoWorker
    BY <1>1, LineOf, SameLines
  <1>2. DOMAIN worker = Books
    BY DEF TypeOK
  <1>3. ASSUME NEW b \in Books, NEW at, worker[b].at \notin {"none", "new"}, at # "none",
               worker' = [worker EXCEPT ![b].at = at]
        PROVE  \A a \in Books : /\ worker'[a].chapter = worker[a].chapter
                                /\ worker[a] # NoWorker => worker'[a] # NoWorker
    <2>1. /\ worker'[b].chapter = worker[b].chapter /\ worker'[b].at = at
          /\ \A a \in Books : a # b => worker'[a] = worker[a]
      BY <1>2, <1>3, Workers
    <2>2. worker'[b] # NoWorker
      BY <1>3, <2>1 DEF NoWorker
    <2> QED
      BY <1>3, <2>1, <2>2
  <1>4. ASSUME NEW keys, Leave(keys), UNCHANGED <<queue, queued>>
        PROVE  \A a \in Books : /\ worker'[a].chapter = worker[a].chapter
                                /\ worker[a] # NoWorker => worker'[a] # NoWorker
    <2>1. worker' = worker \/ worker' = [a \in Books |-> Released(worker[a])]
      BY <1>4 DEF Leave
    <2>2. ASSUME NEW a \in Books
          PROVE  \/ worker'[a] = worker[a]
                 \/ /\ worker'[a].chapter = worker[a].chapter /\ worker'[a].at # "none"
                    /\ worker[a].at \notin {"none", "new"}
      BY <2>1, Workers DEF Released
    <2>3. NoWorker.at = "none"
      BY DEF NoWorker
    <2> HIDE DEF NoWorker
    <2> QED
      BY <2>2, <2>3
  <1>5. ASSUME NEW b \in Books,
               WorkerResumes(b) \/ WorkerQueuesForSlot(b) \/ WorkerHasSlot(b) \/ WorkerResumesInSlot(b)
        PROVE  /\ UNCHANGED <<queue, queued>>
               /\ worker[b].at \notin {"none", "new"}
               /\ \E at : at # "none" /\ worker' = [worker EXCEPT ![b].at = at]
    BY <1>5 DEF WorkerResumes, WorkerQueuesForSlot, WorkerHasSlot, WorkerResumesInSlot,
                InSlot, BeginDownload
  <1>6. ASSUME NEW k \in Keys, DownloadStep(k)
        PROVE  /\ UNCHANGED <<queue, queued>>
               /\ \/ worker' = worker
                  \/ \E at : /\ k[1] \in Books /\ worker[k[1]].at \notin {"none", "new"} /\ at # "none"
                             /\ worker' = [worker EXCEPT ![k[1]].at = at]
    <2>1. PICK outcome \in Outcomes : DownloadEnds(k, outcome)
      BY <1>6, DownloadStepShape
    <2>2. /\ UNCHANGED <<queue, queued>>
          /\ worker' = worker \/ (worker[k[1]].at = "fetch" /\ worker' = [worker EXCEPT ![k[1]].at = outcome])
      BY <2>1 DEF DownloadEnds
    <2> QED
      BY <2>2, KeyParts DEF Outcomes
  <1>7. CASE \E b \in Books : WorkerResumes(b) \/ WorkerQueuesForSlot(b) \/ WorkerHasSlot(b)
                               \/ WorkerResumesInSlot(b)
    BY <1>7, <1>1, <1>3, <1>5
  <1>8. CASE \E k \in Keys : DownloadStep(k)
    BY <1>8, <1>1, <1>3, <1>6
  <1>9. CASE \E k \in Keys : PrefetchWakes(k)
    BY <1>9, <1>1, <1>4 DEF PrefetchWakes
  <1>10. CASE \E r \in Readers : ReaderWakes(r) \/ Disconnect(r)
    BY <1>10, <1>1, <1>4 DEF ReaderWakes, Disconnect, LeaveReader
  <1>11. CASE UNCHANGED <<queue, queued, worker>>
    BY <1>11, <1>1
  <1> QED
    BY <1>7, <1>8, <1>9, <1>10, <1>11
      DEF Next, WorkerStep, PrefetchStep, ReaderStep, Ensure, ReadStored, PrefetchStarts,
          PrefetchDropped, DeleteBook, vars

\* NoChapterForgotten, of one book.
Accounted(b) ==
  /\ IsInjective(Line[b])
  /\ Range(Line[b]) \subseteq {c \in ChaptersOf[b] : <<b, c>> \in queued}
  /\ Line[b] # <<>> => worker[b] # NoWorker
  /\ fate[b] = "kept" => Range(Line[b]) = {c \in ChaptersOf[b] : <<b, c>> \in queued}

\* A book whose line and chapters asked for stay as they are.
LEMMA AccountedStays ==
  ASSUME NEW b \in Books, Accounted(b), Line'[b] = Line[b],
         \A c \in ChaptersOf[b] : <<b, c>> \in queued' <=> <<b, c>> \in queued,
         Line'[b] # <<>> => worker[b] = NoWorker \/ worker'[b] # NoWorker,
         fate'[b] = "kept" => fate[b] = "kept"
  PROVE  Accounted(b)'
PROOF
  <1>1. {c \in ChaptersOf[b] : <<b, c>> \in queued'} = {c \in ChaptersOf[b] : <<b, c>> \in queued}
    OBVIOUS
  <1> QED
    BY <1>1 DEF Accounted

\* What was asked for is in a line, once, and nothing else is: a chapter leaves
\* _queued when it leaves its line.
LEMMA NoneForgotten ==
  ASSUME TypeOK, TypeOK', OneInBackground, DeletionsEnd, NoChapterForgotten, [Next]_vars
  PROVE  NoChapterForgotten'
PROOF
  <1>1. \A b \in Books : Accounted(b)
    BY DEF NoChapterForgotten, Accounted
  <1>2. SUFFICES \A b \in Books : Accounted(b)'
    BY <1>2 DEF NoChapterForgotten, Accounted
  <1>3. DOMAIN fate = Books /\ fate \in [Books -> {"kept", "going", "gone"}]
    BY DEF TypeOK
  <1>4. ASSUME NEW b \in Books, Schedule(b) PROVE \A a \in Books : Accounted(a)'
    <2>1. PICK X \in SUBSET ChaptersOf[b] :
            /\ \A c \in X : <<b, c>> \notin queued
            /\ queued' = queued \cup ({b} \X X)
            /\ Line'[b] = Line[b] \o InOrder(X)
            /\ worker[b] # NoWorker \/ queue'[b] # <<>> => worker'[b] # NoWorker
            /\ worker'[b].chapter = worker[b].chapter
            /\ \A a \in Books : a # b => Line'[a] = Line[a] /\ worker'[a] = worker[a]
      BY <1>4, LineAsked
    <2>2. UNCHANGED fate
      BY <1>4 DEF Schedule, deletion
    <2>3. ASSUME NEW a \in Books, a # b PROVE Accounted(a)'
      <3>1. \A c : <<a, c>> \in queued' <=> <<a, c>> \in queued
        BY <2>1, <2>3
      <3> QED
        BY <1>1, <2>1, <2>2, <2>3, <3>1, AccountedStays
    <2>4. Accounted(b)'
      <3>1. /\ InOrder(X) \in Seq(ChaptersOf[b]) /\ IsInjective(InOrder(X)) /\ Range(InOrder(X)) = X
        BY MissingLists
      <3>2. Line[b] \in Seq(ChaptersOf[b]) /\ Accounted(b)
        BY <1>1, LineOf
      <3>3. Range(Line[b]) \cap Range(InOrder(X)) = {}
        BY <2>1, <3>1, <3>2 DEF Accounted
      <3>4. IsInjective(Line[b])
        BY <3>2 DEF Accounted
      <3>5. /\ IsInjective(Line[b] \o InOrder(X))
            /\ Range(Line[b] \o InOrder(X)) = Range(Line[b]) \cup X
        BY <3>1, <3>2, <3>3, <3>4, ConcatLists
      <3>6. IsInjective(Line'[b]) /\ Range(Line'[b]) = Range(Line[b]) \cup X
        BY <2>1, <3>5
      <3>7. {c \in ChaptersOf[b] : <<b, c>> \in queued'} =
              {c \in ChaptersOf[b] : <<b, c>> \in queued} \cup X
        BY <2>1
      <3>8. Line'[b] # <<>> => worker'[b] # NoWorker
        <4>1. ASSUME worker'[b] = NoWorker PROVE Line'[b] = <<>>
          <5>1. queue'[b] = <<>> /\ worker'[b].chapter = 0
            BY <2>1, <4>1 DEF NoWorker
          <5> QED
            BY <5>1, LineOf
        <4> QED
          BY <4>1
      <3> QED
        BY <2>2, <3>2, <3>6, <3>7, <3>8 DEF Accounted
    <2> QED
      BY <2>3, <2>4
  <1>5. ASSUME NEW b \in Books, WorkerStarts(b) \/ WorkerWakes(b) PROVE \A a \in Books : Accounted(a)'
    <2>1. /\ \/ Line'[b] = Line[b] /\ queued' = queued
             \/ /\ Line[b] # <<>> /\ Line'[b] = Tail(Line[b])
                /\ queued' = queued \ {<<b, Head(Line[b])>>}
          /\ Line'[b] # <<>> => worker'[b] # NoWorker
          /\ \A a \in Books : a # b => Line'[a] = Line[a] /\ worker'[a] = worker[a]
      BY <1>5, LineMoves
    <2>2. UNCHANGED fate
      BY <1>5 DEF WorkerStarts, WorkerWakes, deletion
    <2>3. ASSUME NEW a \in Books, a # b PROVE Accounted(a)'
      <3>1. \A c : <<a, c>> \in queued' <=> <<a, c>> \in queued
        BY <2>1, <2>3
      <3> QED
        BY <1>1, <2>1, <2>2, <2>3, <3>1, AccountedStays
    <2>4. CASE Line'[b] = Line[b] /\ queued' = queued
      BY <1>1, <2>1, <2>2, <2>3, <2>4, AccountedStays
    <2>5. CASE /\ Line[b] # <<>> /\ Line'[b] = Tail(Line[b])
               /\ queued' = queued \ {<<b, Head(Line[b])>>}
      <3>1. Line[b] \in Seq(ChaptersOf[b]) /\ Accounted(b)
        BY <1>1, LineOf
      <3>2. IsInjective(Line[b])
        BY <3>1 DEF Accounted
      <3>3. IsInjective(Tail(Line[b])) /\ Range(Tail(Line[b])) = Range(Line[b]) \ {Head(Line[b])}
        BY <2>5, <3>1, <3>2, HeadAndTail
      <3>4. IsInjective(Line'[b]) /\ Range(Line'[b]) = Range(Line[b]) \ {Head(Line[b])}
        BY <2>5, <3>3
      <3>5. {c \in ChaptersOf[b] : <<b, c>> \in queued'} =
              {c \in ChaptersOf[b] : <<b, c>> \in queued} \ {Head(Line[b])}
        BY <2>5
      <3>6. Accounted(b)'
        BY <2>1, <2>2, <3>1, <3>4, <3>5 DEF Accounted
      <3> QED
        BY <2>3, <3>6
    <2> QED
      BY <2>1, <2>4, <2>5
  <1>6. ASSUME NEW b \in Books, CancelBook(b) \/ WorkerLeaves(b) PROVE \A a \in Books : Accounted(a)'
    <2>1. /\ Line'[b] = <<>> \/ (Line'[b] = Line[b] /\ worker'[b] = worker[b])
          /\ CancelBook(b) => Line'[b] = <<>>
          /\ \A a \in Books : a # b => Line'[a] = Line[a] /\ worker'[a] = worker[a]
      BY <1>6, LineCut
    <2>2. fate'[b] = "going" /\ \A a \in Books : a # b => fate'[a] = fate[a]
      <3>1. CASE CancelBook(b)
        <4>1. fate' = [fate EXCEPT ![b] = "going"]
          BY <3>1 DEF CancelBook
        <4> QED
          BY <4>1, <1>3
      <3>2. CASE WorkerLeaves(b)
        BY <3>2 DEF WorkerLeaves, DeletionsEnd
      <3> QED
        BY <1>6, <3>1, <3>2
    <2>3. \A a \in Books : a # b => \A c : <<a, c>> \in queued' <=> <<a, c>> \in queued
      BY <1>6 DEF CancelBook, WorkerLeaves
    <2>4. ASSUME NEW a \in Books, a # b PROVE Accounted(a)'
      BY <1>1, <2>1, <2>2, <2>3, <2>4, AccountedStays
    <2>5. CASE Line'[b] = <<>>
      <3>1. IsInjective(Line'[b]) /\ Range(Line'[b]) = {}
        BY <2>5 DEF IsInjective, Range
      <3>2. Accounted(b)'
        BY <2>2, <2>5, <3>1 DEF Accounted
      <3> QED
        BY <2>4, <3>2
    <2>6. CASE Line'[b] = Line[b] /\ worker'[b] = worker[b] /\ WorkerLeaves(b)
      <3>1. queued' = queued
        BY <2>6 DEF WorkerLeaves
      <3>2. Accounted(b)'
        BY <1>1, <2>2, <2>6, <3>1 DEF Accounted
      <3> QED
        BY <2>4, <3>2
    <2> QED
      BY <1>6, <2>1, <2>5, <2>6
  <1>7. ASSUME Restart \/ Shutdown PROVE \A a \in Books : Accounted(a)'
    <2>1. PICK stored : StartsOn(stored)
      BY <1>7, StartShape
    <2>2. /\ worker' \in [Books -> {NoWorker, NewWorker}]
          /\ \A b \in Books :
               /\ IsInjective(queue'[b])
               /\ Range(queue'[b]) = {c \in ChaptersOf[b] : <<b, c>> \in queued'}
               /\ queue'[b] # <<>> => worker'[b] = NewWorker
      BY <2>1, StartupTypes DEF StartsOn
    <2>3. NoWorker.chapter = 0 /\ NewWorker.chapter = 0 /\ NewWorker.at # NoWorker.at
      BY DEF NoWorker, NewWorker
    <2> HIDE DEF NoWorker, NewWorker
    <2>4. \A b \in Books : worker'[b].chapter = 0
      BY <2>2, <2>3
    <2>5. \A b \in Books : Line'[b] = queue'[b]
      BY <2>4, LineOf
    <2>6. NewWorker # NoWorker
      BY <2>3
    <2> QED
      BY <2>2, <2>5, <2>6 DEF Accounted
  <1>8. CASE /\ \A b \in Books : ~Schedule(b) /\ ~WorkerStarts(b) /\ ~WorkerWakes(b)
                                 /\ ~CancelBook(b) /\ ~WorkerLeaves(b)
             /\ ~Restart /\ ~Shutdown
    <2>1. /\ Line' = Line /\ queued' = queued
          /\ \A a \in Books : worker[a] # NoWorker => worker'[a] # NoWorker
      BY <1>8, LinesKept
    <2>2. \A a \in Books : fate'[a] = "kept" => fate[a] = "kept"
      <3>1. \A b \in Books : DeleteBook(b) => fate' = [fate EXCEPT ![b] = "gone"]
        BY DEF DeleteBook
      <3>2. fate' = fate \/ \E b \in Books : fate' = [fate EXCEPT ![b] = "gone"]
        BY <3>1, <1>8
          DEF Next, WorkerStep, PrefetchStep, ReaderStep, DownloadStep, WorkerResumes,
              WorkerQueuesForSlot, WorkerHasSlot, WorkerResumesInSlot, Downloaded, DownloadFails,
              DownloadCancelled, DownloadEnds, PrefetchStarts, PrefetchWakes, PrefetchDropped,
              Ensure, ReadStored, ReaderWakes, Disconnect, deletion, vars
      <3> QED
        BY <3>2, <1>3
    <2> QED
      BY <1>1, <2>1, <2>2, AccountedStays
  <1> QED
    BY <1>4, <1>5, <1>6, <1>7, <1>8

\* A deletion waits only for what it has cancelled, and a deleted book has
\* nothing stored and no worker that was cancelled.
LEMMA DeletionsStay ==
  ASSUME TypeOK, DeletionsEnd, [Next]_vars
  PROVE  DeletionsEnd'
PROOF
  <1>1. /\ fate \in [Books -> {"kept", "going", "gone"}]
        /\ DOMAIN leaving = Books /\ DOMAIN download = Keys /\ DOMAIN prefetch = Keys
        /\ cached \subseteq Keys /\ gathered \subseteq Keys \X {"download", "prefetch"}
    BY DEF TypeOK
  \* What is gathered stays as it is while downloads and read-aheads only begin.
  <1>2. ASSUME UNCHANGED <<fate, leaving>>, gathered' \subseteq gathered,
               \A k \in cached' : fate[k[1]] # "gone",
               \A k \in Keys : <<k, "download">> \in gathered' /\ download[k] = "cancelling"
                                 => download'[k] = "cancelling",
               \A k \in Keys : <<k, "prefetch">> \in gathered' /\ prefetch[k] \in {"dropped", "cancelled"}
                                 => prefetch'[k] = prefetch[k]
        PROVE  DeletionsEnd'
    <2>1. ASSUME NEW g \in gathered'
          PROVE  /\ fate'[g[1][1]] = "going"
                 /\ g[2] = "download" => download'[g[1]] = "cancelling"
                 /\ g[2] = "prefetch" => prefetch'[g[1]] \in {"dropped", "cancelled"}
      <3>1. g \in gathered /\ g[1] \in Keys /\ g = <<g[1], g[2]>>
        BY <1>1, <1>2, <2>1
      <3> QED
        BY <1>2, <2>1, <3>1 DEF DeletionsEnd
    <2> QED
      BY <1>2, <2>1 DEF DeletionsEnd
  <1>3. \A k \in cached : fate[k[1]] # "gone"
    BY <1>1, KeyParts DEF DeletionsEnd
  <1>4. ASSUME UNCHANGED <<fate, leaving, gathered, cached, download, prefetch>> PROVE DeletionsEnd'
    BY <1>2, <1>3, <1>4
  <1>5. ASSUME NEW k \in Keys, NEW d \in [Keys -> {"none", "running", "cancelling"}]
        PROVE  \A j \in Keys : d[j] = "cancelling" =>
                 CacheTaskFor(k, d)[j] = "cancelling" /\ Preempted(d)[j] = "cancelling"
    BY <1>5 DEF CacheTaskFor, Preempted
  <1>6. ASSUME NEW k \in Keys, NEW d \in [Keys -> {"none", "running", "cancelling"}]
        PROVE  Preempted(d) \in [Keys -> {"none", "running", "cancelling"}]
    BY DEF Preempted
  <1>7. download \in [Keys -> {"none", "running", "cancelling"}]
    BY DEF TypeOK
  <1>8. ASSUME NEW b \in Books,
               WorkerResumes(b) \/ WorkerQueuesForSlot(b) \/ WorkerHasSlot(b) \/ WorkerResumesInSlot(b)
        PROVE  DeletionsEnd'
    <2>1. UNCHANGED <<fate, leaving, gathered, cached, prefetch>>
      BY <1>8 DEF WorkerResumes, WorkerQueuesForSlot, WorkerHasSlot, WorkerResumesInSlot, deletion
    <2>2. PICK k \in Keys : k = <<b, worker[b].chapter>>
      BY <1>8, KeyParts
        DEF WorkerResumes, WorkerQueuesForSlot, WorkerHasSlot, WorkerResumesInSlot, TypeOK
    <2>3. download' = download \/ download' = CacheTaskFor(k, download)
      BY <1>8, <2>2 DEF WorkerResumes, WorkerQueuesForSlot, WorkerHasSlot, WorkerResumesInSlot,
                        InSlot, BeginDownload
    <2>4. \A j \in Keys : download[j] = "cancelling" => download'[j] = "cancelling"
      BY <2>3, <1>5, <1>7
    <2> QED
      BY <2>1, <2>4, <1>2, <1>3
  <1>9. ASSUME NEW b \in Books, WorkerLeaves(b) PROVE DeletionsEnd'
    <2>1. /\ leaving' = [leaving EXCEPT ![b] = Nobody]
          /\ UNCHANGED <<fate, gathered, cached, download, prefetch>>
      BY <1>9 DEF WorkerLeaves
    <2>2. \A a \in Books : leaving'[a] # Nobody => leaving[a] # Nobody
      BY <2>1, <1>1
    <2> QED
      BY <2>1, <2>2 DEF DeletionsEnd
  <1>10. ASSUME NEW b \in Books, CancelBook(b) PROVE DeletionsEnd'
    <2> DEFINE own == {k \in Keys : k[1] = b}
    <2>1. /\ fate[b] = "kept" /\ fate' = [fate EXCEPT ![b] = "going"] /\ cached' = cached
          /\ leaving' = [leaving EXCEPT ![b] =
                           [at |-> worker[b].at,
                            last |-> worker[b].at \notin {"none", "new"} /\ queue[b] = <<>>]]
          /\ prefetch' = [k \in Keys |->
                            IF k \notin own \/ prefetch[k] = "none" THEN prefetch[k]
                            ELSE IF prefetch[k] \in InSection THEN "cancelled" ELSE "dropped"]
          /\ download' = [k \in Keys |-> IF k \in own /\ download[k] = "running"
                                         THEN "cancelling" ELSE download[k]]
          /\ gathered' = gathered
               \cup {<<k, "download">> : k \in {j \in own : download[j] # "none"}}
               \cup {<<k, "prefetch">> : k \in {j \in own : prefetch[j] # "none"}}
      BY <1>10 DEF CancelBook
    <2>2. fate'[b] = "going" /\ \A a \in Books : a # b => fate'[a] = fate[a]
      BY <2>1, <1>1
    <2>3. \A a \in Books : leaving'[a] # Nobody => a = b \/ leaving[a] # Nobody
      BY <2>1, <1>1
    <2>4. \A a \in Books : leaving'[a] # Nobody => fate'[a] = "going"
      BY <2>2, <2>3 DEF DeletionsEnd
    <2>5. \A a \in Books : fate'[a] = "gone" => \A k \in cached' : k[1] # a
      BY <2>1, <2>2 DEF DeletionsEnd
    <2>6. ASSUME NEW g \in gathered'
          PROVE  /\ fate'[g[1][1]] = "going"
                 /\ g[2] = "download" => download'[g[1]] = "cancelling"
                 /\ g[2] = "prefetch" => prefetch'[g[1]] \in {"dropped", "cancelled"}
      <3>1. CASE g \in gathered
        <4>1. /\ g[1] \in Keys /\ g[1][1] \in Books /\ fate[g[1][1]] = "going"
              /\ g[2] = "download" => download[g[1]] = "cancelling"
              /\ g[2] = "prefetch" => prefetch[g[1]] \in {"dropped", "cancelled"}
          BY <3>1, <1>1, KeyParts DEF DeletionsEnd
        <4>2. g[1][1] # b
          BY <4>1, <2>1
        <4> QED
          BY <4>1, <4>2, <2>1, <2>2
      <3>2. CASE g \in {<<k, "download">> : k \in {j \in own : download[j] # "none"}}
        <4>1. PICK k \in Keys : k[1] = b /\ download[k] # "none" /\ g = <<k, "download">>
          BY <3>2
        <4>2. download'[k] = "cancelling"
          BY <4>1, <2>1, <1>7
        <4> QED
          BY <4>1, <4>2, <2>2
      <3>3. CASE g \in {<<k, "prefetch">> : k \in {j \in own : prefetch[j] # "none"}}
        <4>1. PICK k \in Keys : k[1] = b /\ prefetch[k] # "none" /\ g = <<k, "prefetch">>
          BY <3>3
        <4>2. prefetch'[k] \in {"dropped", "cancelled"}
          BY <4>1, <2>1
        <4> QED
          BY <4>1, <4>2, <2>2
      <3> QED
        BY <2>1, <3>1, <3>2, <3>3
    <2> QED
      BY <2>4, <2>5, <2>6 DEF DeletionsEnd
  <1>11. ASSUME NEW b \in Books, DeleteBook(b) PROVE DeletionsEnd'
    <2>1. /\ leaving[b] = Nobody /\ \A g \in gathered : g[1][1] # b
          /\ fate' = [fate EXCEPT ![b] = "gone"]
          /\ cached' = {k \in cached : k[1] # b}
          /\ UNCHANGED <<leaving, gathered, download, prefetch>>
      BY <1>11 DEF DeleteBook
    <2>2. fate'[b] = "gone" /\ \A a \in Books : a # b => fate'[a] = fate[a]
      BY <2>1, <1>1
    <2>3. \A a \in Books : fate'[a] = "gone" => \A k \in cached' : k[1] # a
      BY <2>1, <2>2 DEF DeletionsEnd
    <2>4. \A a \in Books : leaving'[a] # Nobody => fate'[a] = "going"
      BY <2>1, <2>2 DEF DeletionsEnd
    <2>5. \A g \in gathered' : fate'[g[1][1]] = "going"
      <3>1. \A g \in gathered : g[1][1] \in Books
        BY <1>1, KeyParts
      <3> QED
        BY <2>1, <2>2, <3>1 DEF DeletionsEnd
    <2> QED
      BY <2>1, <2>3, <2>4, <2>5 DEF DeletionsEnd
  <1>12. ASSUME NEW k \in Keys, DownloadStep(k) PROVE DeletionsEnd'
    <2>1. PICK outcome \in Outcomes :
            /\ DownloadEnds(k, outcome)
            /\ cached' = cached \/ (cached' = cached \cup {k} /\ fate[k[1]] # "gone")
      BY <1>12, DownloadStepShape
    <2>2. /\ gathered' = gathered \ {<<k, "download">>} /\ UNCHANGED <<fate, leaving>>
          /\ download' = [download EXCEPT ![k] = "none"]
          /\ prefetch' = IF prefetch[k] = "waits" THEN [prefetch EXCEPT ![k] = outcome] ELSE prefetch
      BY <2>1 DEF DownloadEnds
    <2>3. \A j \in Keys : <<j, "download">> \in gathered' => download'[j] = download[j]
      BY <2>2, <1>1
    <2>4. \A j \in Keys : prefetch[j] # "waits" => prefetch'[j] = prefetch[j]
      BY <2>2, <1>1
    <2>5. \A j \in cached' : fate[j[1]] # "gone"
      BY <2>1, <1>3
    <2> QED
      BY <2>2, <2>3, <2>4, <2>5, <1>2
  <1>13. ASSUME NEW ahead, NEW state, Prefetching(ahead, state)
         PROVE  \A j \in Keys : prefetch[j] # "none" => prefetch'[j] = prefetch[j]
    BY <1>13 DEF Prefetching
  <1>14. ASSUME NEW r \in Readers, Ensure(r) PROVE DeletionsEnd'
    <2>1. PICK k \in Keys \ cached : \E ahead \in {{}, NextChapter(k)} :
            /\ download' = CacheTaskFor(k, Preempted(download))
            /\ Prefetching(ahead, "new")
      BY <1>14 DEF Ensure
    <2>2. \A j \in Keys : download[j] = "cancelling" => download'[j] = "cancelling"
      <3>1. Preempted(download) \in [Keys -> {"none", "running", "cancelling"}]
        BY <1>6, <1>7
      <3>2. \A j \in Keys : download[j] = "cancelling" => Preempted(download)[j] = "cancelling"
        BY <1>5, <1>7
      <3>3. \A j \in Keys : Preempted(download)[j] = "cancelling" =>
              CacheTaskFor(k, Preempted(download))[j] = "cancelling"
        BY <1>5, <3>1
      <3> QED
        BY <2>1, <3>2, <3>3
    <2>3. \A j \in Keys : prefetch[j] # "none" => prefetch'[j] = prefetch[j]
      BY <2>1, <1>13
    <2>4. UNCHANGED <<fate, leaving, gathered, cached>>
      BY <1>14 DEF Ensure, deletion
    <2> QED
      BY <2>2, <2>3, <2>4, <1>2, <1>3
  <1>15. ASSUME NEW r \in Readers, ReadStored(r) PROVE DeletionsEnd'
    <2>1. \A j \in Keys : prefetch[j] # "none" => prefetch'[j] = prefetch[j]
      BY <1>15, <1>13 DEF ReadStored
    <2>2. UNCHANGED <<fate, leaving, gathered, cached, download>>
      BY <1>15 DEF ReadStored, deletion
    <2> QED
      BY <2>1, <2>2, <1>2, <1>3
  <1>16. ASSUME NEW r \in Readers, ReaderWakes(r) \/ Disconnect(r) PROVE DeletionsEnd'
    BY <1>16, <1>4 DEF ReaderWakes, Disconnect, deletion
  <1>17. ASSUME NEW k \in Keys, PrefetchStarts(k) PROVE DeletionsEnd'
    <2> DEFINE others == IF prefetch[k] = "preempting" THEN Preempted(download) ELSE download
    <2>1. /\ prefetch[k] \in {"new", "preempting"}
          /\ download' = others \/ download' = CacheTaskFor(k, others)
          /\ \E state : prefetch' = [prefetch EXCEPT ![k] = state]
          /\ UNCHANGED <<fate, leaving, gathered, cached>>
      BY <1>17 DEF PrefetchStarts, deletion
    <2>2. /\ others \in [Keys -> {"none", "running", "cancelling"}]
          /\ \A j \in Keys : download[j] = "cancelling" => others[j] = "cancelling"
      BY <1>5, <1>6, <1>7
    <2> HIDE DEF others
    <2>3. \A j \in Keys : download[j] = "cancelling" => download'[j] = "cancelling"
      BY <2>1, <2>2, <1>5
    <2>4. \A j \in Keys : prefetch[j] \in {"dropped", "cancelled"} => prefetch'[j] = prefetch[j]
      BY <2>1, <1>1
    <2> QED
      BY <2>1, <2>3, <2>4, <1>2, <1>3
  <1>18. ASSUME NEW k \in Keys, PrefetchWakes(k) \/ PrefetchDropped(k) PROVE DeletionsEnd'
    <2>1. /\ prefetch' = [prefetch EXCEPT ![k] = "none"]
          /\ gathered' = gathered \ {<<k, "prefetch">>}
          /\ UNCHANGED <<fate, leaving, cached, download>>
      BY <1>18 DEF PrefetchWakes, PrefetchDropped
    <2>2. \A j \in Keys : <<j, "prefetch">> \in gathered' => prefetch'[j] = prefetch[j]
      BY <2>1, <1>1
    <2> QED
      BY <2>1, <2>2, <1>2, <1>3
  <1>19. ASSUME Restart \/ Shutdown PROVE DeletionsEnd'
    <2>1. PICK stored : /\ StartsOn(stored)
                        /\ \A k \in stored \ cached : fate[k[1]] # "gone"
      BY <1>19, StartShape
    <2>2. /\ cached' = stored /\ gathered' = {}
          /\ fate' = [b \in Books |-> IF fate[b] = "gone" THEN "gone" ELSE "kept"]
          /\ \A b \in Books : leaving'[b] = Nobody
      BY <2>1 DEF StartsOn
    <2>3. \A b \in Books : fate'[b] = "gone" => \A k \in cached' : k[1] # b
      BY <2>1, <2>2, <1>3
    <2> QED
      BY <2>2, <2>3 DEF DeletionsEnd
  <1> QED
    BY <1>4, <1>8, <1>9, <1>10, <1>11, <1>12, <1>14, <1>15, <1>16, <1>17, <1>18, <1>19
      DEF Next, WorkerStep, PrefetchStep, ReaderStep, Schedule, WorkerStarts, WorkerWakes,
          vars, deletion

\* A server's first start.
LEMMA InitHolds == Init => Inv
PROOF
  <1> SUFFICES ASSUME Init PROVE Inv
    OBVIOUS
  <1>1. /\ queue = [b \in Books |-> IF b \in Managed THEN InOrder(ChaptersOf[b]) ELSE <<>>]
        /\ queued = UNION {{b} \X ChaptersOf[b] : b \in Managed}
        /\ worker = [b \in Books |-> IF queue[b] # <<>> THEN NewWorker ELSE NoWorker]
        /\ Managed \subseteq Books
    BY CacheAssumption DEF Init
  <1>2. ASSUME NEW b \in Books
        PROVE  /\ queue[b] \in Seq(ChaptersOf[b]) /\ IsInjective(queue[b])
               /\ Range(queue[b]) = {c \in ChaptersOf[b] : <<b, c>> \in queued}
    <2>1. CASE b \in Managed
      <3>1. {c \in ChaptersOf[b] : <<b, c>> \in queued} = ChaptersOf[b]
        BY <1>1, <2>1
      <3>2. queue[b] = InOrder(ChaptersOf[b])
        BY <1>1, <2>1
      <3> QED
        BY <3>1, <3>2, MissingLists
    <2>2. CASE b \notin Managed
      <3>1. {c \in ChaptersOf[b] : <<b, c>> \in queued} = {}
        BY <1>1, <2>2
      <3>2. queue[b] = <<>>
        BY <1>1, <2>2
      <3> QED
        BY <3>1, <3>2 DEF IsInjective, Range
    <2> QED
      BY <2>1, <2>2
  <1>3. NoWorker.chapter = 0 /\ NewWorker.chapter = 0 /\ NoWorker.at = "none" /\ NewWorker.at = "new"
    BY DEF NoWorker, NewWorker
  <1>4. TypeOK
    <2>1. queued \subseteq Keys
      BY <1>1 DEF Keys
    <2>2. DOMAIN queue = Books /\ \A b \in Books : queue[b] \in Seq(ChaptersOf[b])
      BY <1>1, <1>2
    <2>3. /\ worker \in [Books -> [at : WorkerStates, chapter : Nat]]
          /\ \A b \in Books :
               IF worker[b].at \in {"none", "new"}
               THEN worker[b].chapter = 0 ELSE worker[b].chapter \in ChaptersOf[b]
      BY <1>1 DEF NoWorker, NewWorker, WorkerStates
    <2>4. leaving \in [Books -> [at : WorkerStates, last : BOOLEAN]]
      BY DEF Init, Nobody, WorkerStates
    <2>5. slot \in Seq(Books)
      BY EmptySeq DEF Init
    <2> QED
      BY <2>1, <2>2, <2>3, <2>4, <2>5, CacheAssumption DEF Init, TypeOK, InSection, Outcomes
  <1>5. ForegroundCounted
    <2>1. Sections = {}
      BY DEF Init, Sections, InSection, Outcomes
    <2>2. Cardinality(Sections) = 0 /\ \A k \in Keys : Cardinality(Serving(k)) = 0
      BY <2>1, FS_EmptySet DEF Serving
    <2> QED
      BY <2>2 DEF Init, ForegroundCounted
  <1>6. OneInBackground
    <2>1. /\ slot = <<>> /\ background = NoKey /\ \A b \in Books : leaving[b] = Nobody
          /\ \A b \in Books : worker[b].at \in {"none", "new"}
      BY <1>1, <1>3 DEF Init
    <2>2. IsInjective(slot) /\ Range(slot) = {}
      BY <2>1 DEF IsInjective, Range
    <2>3. {"none", "new"} \cap ({"slot"} \cup PastLine \cup Fetching) = {}
      BY DEF PastLine, Fetching, Outcomes
    <2> QED
      BY <2>1, <2>2, <2>3 DEF OneInBackground, At
  <1>7. NoChapterForgotten
    <2> HIDE DEF NoWorker, NewWorker
    <2>1. \A b \in Books : worker[b].chapter = 0
      BY <1>1, <1>3
    <2>2. ASSUME NEW b \in Books PROVE Line[b] = queue[b]
      <3>1. Line[b] = <<>> \o queue[b]
        BY <2>1 DEF Line, Held
      <3> QED
        BY <3>1, <1>2, ConcatEmptySeq
    <2>3. \A b \in Books : queue[b] # <<>> => worker[b] # NoWorker
      BY <1>1, <1>3
    <2> QED
      BY <1>2, <2>2, <2>3 DEF NoChapterForgotten
  <1>8. DeletionsEnd /\ AwaitedIsLive
    BY <1>1, <1>3 DEF Init, DeletionsEnd, AwaitedIsLive
  <1> QED
    BY <1>4, <1>5, <1>6, <1>7, <1>8 DEF Inv, Coherent

\* What the counters, the slot, the queues, the deletions and the shared
\* downloads say is true of every reachable state.
THEOREM CacheInvariant == Spec => []Inv
PROOF
  <1>1. Init => Inv
    BY InitHolds
  <1>2. Inv /\ [Next]_vars => Inv'
    BY TypesStay, AwaitedStaysLive, CountersStay, OneStaysInBackground, NoneForgotten, DeletionsStay
      DEF Inv, Coherent
  <1> QED
    BY <1>1, <1>2, PTL DEF Spec

\* The counters count, at most one download runs in the background, no chapter
\* asked for is forgotten, and a deletion waits only for what it has cancelled.
THEOREM CacheIsCoherent == Spec => []Coherent
PROOF
  BY CacheInvariant, PTL DEF Inv

\* Whoever awaits a chapter awaits a download that is under way.
THEOREM AwaitedStays == Spec => []AwaitedIsLive
PROOF
  BY CacheInvariant, PTL DEF Inv

\* A reader who comes first pushes aside no download that another awaits.
THEOREM DownloadsKept == Spec => ReadersKeepTheirDownload
PROOF
  <1> DEFINE Kept == \A k \in Keys :
               /\ download[k] = "running"
               /\ prefetch[k] = "waits" \/ \E r \in Readers : reader[r].at = "waits" /\ reader[r].key = k
               /\ fate' = fate
               => download'[k] # "cancelling"
  <1>1. Inv /\ [Next]_vars => [Kept]_vars
    <2> SUFFICES ASSUME Inv, Next, NEW k \in Keys, download[k] = "running", fate' = fate,
                        prefetch[k] = "waits"
                          \/ \E r \in Readers : reader[r].at = "waits" /\ reader[r].key = k
                 PROVE  download'[k] # "cancelling"
      OBVIOUS
    <2>1. TypeOK /\ ForegroundCounted /\ download \in [Keys -> {"none", "running", "cancelling"}]
      BY DEF Inv, Coherent, TypeOK
    <2>2. Serving(k) # {}
      <3>1. CASE prefetch[k] = "waits"
        <4>1. <<k, 2>> \in Serving(k)
          BY <3>1, SectionMembers DEF Serving, InSection
        <4> QED
          BY <4>1
      <3>2. CASE \E r \in Readers : reader[r].at = "waits" /\ reader[r].key = k
        <4>1. PICK r \in Readers : reader[r].at = "waits" /\ reader[r].key = k
          BY <3>2
        <4>2. <<r, 1>> \in Serving(k)
          BY <4>1, SectionMembers DEF Serving, InSection
        <4> QED
          BY <4>2
      <3> QED
        BY <3>1, <3>2
    <2>3. protected[k] \in Nat /\ protected[k] # 0
      <3>1. Cardinality(Serving(k)) # 0
        BY <2>2, SectionMembers, FS_EmptySet
      <3> QED
        BY <2>1, <3>1 DEF ForegroundCounted, TypeOK
    <2>4. ASSUME NEW keys, Enter(keys) PROVE Preempted(download)[k] = "running"
      <3>1. protected'[k] # 0
        BY <2>3, <2>4 DEF Enter
      <3> QED
        BY <3>1, <2>1 DEF Preempted
    <2>5. ASSUME NEW j \in Keys, NEW d, d[k] = "running", DOMAIN d = Keys
          PROVE  CacheTaskFor(j, d)[k] = "running"
      BY <2>5 DEF CacheTaskFor
    <2>6. DOMAIN Preempted(download) = Keys
      BY DEF Preempted
    <2>7. ASSUME NEW b \in Books, CancelBook(b) PROVE FALSE
      <3>1. fate[b] = "kept" /\ fate' = [fate EXCEPT ![b] = "going"]
        BY <2>7 DEF CancelBook
      <3> QED
        BY <3>1, <2>1 DEF TypeOK
    <2>8. ASSUME NEW b \in Books, Schedule(b) \/ WorkerStep(b) \/ DeleteBook(b)
          PROVE  download'[k] = "running"
      <3>1. \/ download' = download
            \/ /\ download' = CacheTaskFor(<<b, worker[b].chapter>>, download)
               /\ worker[b].at \notin {"none", "new"}
        BY <2>8 DEF Schedule, WorkerStep, DeleteBook, WorkerStarts, WorkerResumes, WorkerQueuesForSlot,
                    WorkerHasSlot, WorkerResumesInSlot, WorkerWakes, WorkerLeaves, InSlot, BeginDownload
      <3>2. worker[b].at \notin {"none", "new"} => <<b, worker[b].chapter>> \in Keys
        BY <2>1, KeyParts DEF TypeOK
      <3>3. PICK j : j = <<b, worker[b].chapter>>
        OBVIOUS
      <3> QED
        BY <3>1, <3>2, <3>3, <2>1, <2>5
    <2>9. ASSUME NEW j \in Keys, DownloadStep(j) PROVE download'[k] # "cancelling"
      <3>1. PICK outcome : DownloadEnds(j, outcome)
        BY <2>1, <2>9, DownloadStepShape
      <3> QED
        BY <3>1, <2>1 DEF DownloadEnds
    <2>10. ASSUME NEW j \in Keys, PrefetchStep(j) PROVE download'[k] = "running"
      <3>1. CASE PrefetchStarts(j)
        <4> DEFINE others == IF prefetch[j] = "preempting" THEN Preempted(download) ELSE download
        <4>1. /\ Enter({j})
              /\ download' = others \/ download' = CacheTaskFor(j, others)
          BY <3>1 DEF PrefetchStarts
        <4>2. others[k] = "running" /\ DOMAIN others = Keys
          BY <4>1, <2>1, <2>4, <2>6
        <4> HIDE DEF others
        <4> QED
          BY <4>1, <4>2, <2>5
      <3>2. CASE PrefetchWakes(j) \/ PrefetchDropped(j)
        BY <3>2 DEF PrefetchWakes, PrefetchDropped
      <3> QED
        BY <2>10, <3>1, <3>2 DEF PrefetchStep
    <2>11. ASSUME NEW r \in Readers, ReaderStep(r) PROVE download'[k] = "running"
      <3>1. CASE Ensure(r)
        <4>1. PICK j \in Keys : \E keys : Enter(keys) /\ download' = CacheTaskFor(j, Preempted(download))
          BY <3>1 DEF Ensure
        <4>2. Preempted(download)[k] = "running"
          BY <4>1, <2>4
        <4> QED
          BY <4>1, <4>2, <2>5, <2>6
      <3>2. CASE ReadStored(r) \/ ReaderWakes(r) \/ Disconnect(r)
        BY <3>2 DEF ReadStored, ReaderWakes, Disconnect
      <3> QED
        BY <2>11, <3>1, <3>2 DEF ReaderStep
    <2>12. ASSUME Restart \/ Shutdown PROVE download'[k] = "none"
      <3>1. PICK stored : StartsOn(stored)
        BY <2>1, <2>12, StartShape
      <3> QED
        BY <3>1 DEF StartsOn
    <2> QED
      BY <2>7, <2>8, <2>9, <2>10, <2>11, <2>12 DEF Next
  <1> QED
    BY <1>1, CacheInvariant, PTL DEF Spec, ReadersKeepTheirDownload

\* Every book's line is what it starts with, loses its head when a download has
\* ended, grows at its end, and is dropped only when its book is deleted.
THEOREM CacheImplementsChapterOrder == Spec => ImplementsChapterOrder
PROOF
  <1> DEFINE gone == {b \in Books : fate[b] # "kept"}
  <1>1. ASSUME NEW S PROVE Order!InOrder(S) = InOrder(S) /\ Order!Range(S) = Range(S)
    <2>1. \A T : Order!Cardinality(T) = Cardinality(T)
      BY DEF Cardinality, Order!Cardinality
    <2>2. Order!Range(S) = Range(S)
      BY DEF Range, Order!Range
    <2>3. Order!InOrder(S) = InOrder(S)
      <3> DEFINE theirs(i) == CHOOSE c \in S : Order!Cardinality({d \in S : d < c}) = i - 1
                 ours(i)   == CHOOSE c \in S : Cardinality({d \in S : d < c}) = i - 1
      <3>1. \A i : theirs(i) = ours(i)
        BY <2>1
      <3>2. Order!Cardinality(S) = Cardinality(S)
        BY <2>1
      <3>3. /\ Order!InOrder(S) = [i \in 1..Order!Cardinality(S) |-> theirs(i)]
            /\ InOrder(S) = [i \in 1..Cardinality(S) |-> ours(i)]
        BY Zenon DEF InOrder, Order!InOrder
      <3> HIDE DEF theirs, ours
      <3> QED
        BY <3>1, <3>2, <3>3
    <2> QED
      BY <2>2, <2>3
  <1>2. ASSUME NEW stored, NEW deleted
        PROVE  Order!Unfetched(stored, deleted) =
                 [b \in Books |-> IF b \in Managed \ deleted THEN InOrder(Missing(b, stored)) ELSE <<>>]
    BY <1>1 DEF Order!Unfetched, Missing
  <1>3. Init => Order!Init
    <2> SUFFICES ASSUME Init PROVE Order!Init
      OBVIOUS
    <2>1. /\ cached = {} /\ gone = {}
          /\ queue = [b \in Books |-> IF b \in Managed THEN InOrder(ChaptersOf[b]) ELSE <<>>]
          /\ worker = [b \in Books |-> IF queue[b] # <<>> THEN NewWorker ELSE NoWorker]
      BY DEF Init
    <2>2. NoWorker.chapter = 0 /\ NewWorker.chapter = 0
      BY DEF NoWorker, NewWorker
    <2> HIDE DEF NoWorker, NewWorker
    <2>3. ASSUME NEW b \in Books PROVE Line[b] = IF b \in Managed THEN InOrder(Missing(b, {})) ELSE <<>>
      <3>1. queue[b] \in Seq(ChaptersOf[b]) /\ worker[b].chapter = 0
        BY InitHolds, <2>1, <2>2 DEF Inv, Coherent, TypeOK
      <3>2. Line[b] = <<>> \o queue[b]
        BY <3>1 DEF Line, Held
      <3>3. Line[b] = queue[b]
        BY <3>1, <3>2, ConcatEmptySeq
      <3>4. Missing(b, {}) = ChaptersOf[b]
        BY DEF Missing
      <3> QED
        BY <2>1, <3>3, <3>4
    <2>4. Line = Order!Unfetched({}, {})
      BY <2>3, <1>2 DEF Line
    <2> QED
      BY <2>1, <2>4 DEF Order!Init
  <1>4. ASSUME Inv, Inv', [Next]_vars PROVE [Order!Next]_(Order!vars)
    <2>1. /\ TypeOK /\ TypeOK' /\ OneInBackground /\ DeletionsEnd /\ NoChapterForgotten
          /\ fate \in [Books -> {"kept", "going", "gone"}]
      BY <1>4 DEF Inv, Coherent, TypeOK
    <2>2. Line = [b \in Books |-> Line[b]] /\ Line' = [b \in Books |-> Line'[b]]
      BY DEF Line
    <2>3. ASSUME NEW b \in Books, Schedule(b) PROVE Order!Next
      <3>1. PICK X \in SUBSET ChaptersOf[b] :
              /\ \A c \in X : <<b, c>> \notin queued
              /\ Line'[b] = Line[b] \o InOrder(X)
              /\ \A a \in Books : a # b => Line'[a] = Line[a]
        BY <2>1, <2>3, LineAsked
      <3>2. X \ Range(Line[b]) = X
        BY <2>1, <3>1 DEF NoChapterForgotten
      <3>3. Line' = [Line EXCEPT ![b] = Line[b] \o InOrder(X)]
        BY <2>2, <3>1
      <3>4. Line' = [Line EXCEPT ![b] = @ \o Order!InOrder(X \ Order!Range(@))]
        BY <3>2, <3>3, <1>1
      <3>5. cached' = cached /\ gone' = gone
        BY <2>3 DEF Schedule, deletion
      <3> QED
        BY <3>4, <3>5 DEF Order!Next, Order!Ask
    <2>4. ASSUME NEW b \in Books, WorkerStarts(b) \/ WorkerWakes(b) PROVE [Order!Next]_(Order!vars)
      <3>1. /\ Line'[b] = Line[b] \/ (Line[b] # <<>> /\ Line'[b] = Tail(Line[b]))
            /\ \A a \in Books : a # b => Line'[a] = Line[a]
        BY <2>1, <2>4, LineMoves
      <3>2. cached' = cached /\ gone' = gone
        BY <2>4 DEF WorkerStarts, WorkerWakes, deletion
      <3>3. CASE Line'[b] = Line[b]
        BY <3>1, <3>2, <3>3, SameLines DEF Order!vars
      <3>4. CASE Line[b] # <<>> /\ Line'[b] = Tail(Line[b])
        <4>1. Line' = [Line EXCEPT ![b] = Tail(@)]
          BY <2>2, <3>1, <3>4
        <4> QED
          BY <3>2, <3>4, <4>1 DEF Order!Next, Order!Attempted
      <3> QED
        BY <3>1, <3>3, <3>4
    <2>5. ASSUME NEW b \in Books, CancelBook(b) PROVE Order!Next
      <3>1. Line'[b] = <<>> /\ \A a \in Books : a # b => Line'[a] = Line[a]
        BY <2>1, <2>5, LineCut
      <3>2. Line' = [Line EXCEPT ![b] = <<>>]
        BY <2>2, <3>1
      <3>3. cached' = cached /\ fate' = [fate EXCEPT ![b] = "going"]
        BY <2>5 DEF CancelBook
      <3>4. gone' = gone \cup {b}
        BY <2>1, <3>3
      <3> QED
        BY <3>2, <3>3, <3>4 DEF Order!Next, Order!Delete
    <2>6. ASSUME NEW b \in Books, WorkerLeaves(b) PROVE Order!Next
      <3>1. \A a \in Books : a # b => Line'[a] = Line[a]
        BY <2>1, <2>6, LineCut
      <3>2. fate[b] = "going" /\ cached' = cached /\ fate' = fate
        BY <2>1, <2>6 DEF WorkerLeaves, DeletionsEnd
      <3> QED
        BY <3>1, <3>2 DEF Order!Next, Order!Unwind
    <2>7. ASSUME Restart \/ Shutdown PROVE Order!Next
      <3>1. PICK stored : StartsOn(stored) /\ cached \subseteq stored
        BY <2>1, <2>7, StartShape
      <3>2. /\ queue' = [b \in Books |-> IF b \in Managed /\ fate[b] # "gone" /\ Missing(b, stored) # {}
                                         THEN InOrder(Missing(b, stored)) ELSE <<>>]
            /\ worker' \in [Books -> {NoWorker, NewWorker}]
            /\ cached' = stored
            /\ fate' = [b \in Books |-> IF fate[b] = "gone" THEN "gone" ELSE "kept"]
        BY <2>1, <3>1, StartupTypes DEF StartsOn, Startup
      <3>3. gone' \subseteq gone /\ \A b \in Books : b \in gone' <=> fate[b] = "gone"
        BY <2>1, <3>2
      <3>4. NoWorker.chapter = 0 /\ NewWorker.chapter = 0
        BY DEF NoWorker, NewWorker
      <3> HIDE DEF NoWorker, NewWorker
      <3>5. \A b \in Books : Line'[b] = queue'[b]
        BY <2>1, <3>2, <3>4, LineOf
      <3>6. ASSUME NEW b \in Books
            PROVE  Line'[b] = IF b \in Managed \ gone' THEN InOrder(Missing(b, cached')) ELSE <<>>
        <4>1. Missing(b, stored) = {} => InOrder(Missing(b, stored)) = <<>>
          BY MissingLists
        <4> QED
          BY <3>2, <3>3, <3>5, <4>1
      <3> HIDE DEF gone
      <3>7. Line' = Order!Unfetched(cached', gone')
        BY <2>2, <3>6, <1>2
      <3> USE DEF gone
      <3> QED
        BY <3>1, <3>2, <3>3, <3>7 DEF Order!Next, Order!Start
    <2>8. CASE /\ \A b \in Books : ~Schedule(b) /\ ~WorkerStarts(b) /\ ~WorkerWakes(b)
                                   /\ ~CancelBook(b) /\ ~WorkerLeaves(b)
               /\ ~Restart /\ ~Shutdown
      <3>1. Line' = Line
        BY <2>1, <2>8, <1>4, LinesKept
      <3>2. CASE \E k \in Keys : DownloadStep(k)
        <4>1. PICK k \in Keys : DownloadStep(k)
          BY <3>2
        <4>2. cached' = cached \/ cached' = cached \cup {k}
          BY <2>1, <4>1, DownloadStepShape
        <4>3. fate' = fate
          BY <2>1, <4>1, DownloadStepShape DEF DownloadEnds
        <4>4. CASE cached' = cached
          BY <3>1, <4>3, <4>4 DEF Order!vars
        <4>5. CASE cached' = cached \cup {k}
          <5>1. k = <<k[1], k[2]>> /\ k[1] \in Books /\ k[2] \in ChaptersOf[k[1]]
            BY KeyParts
          <5>2. \E c \in ChaptersOf[k[1]] : cached' = cached \cup {<<k[1], c>>}
            BY <4>5, <5>1
          <5> QED
            BY <3>1, <4>3, <5>1, <5>2 DEF Order!Next, Order!Store
        <4> QED
          BY <4>2, <4>4, <4>5
      <3>3. CASE \E b \in Books : DeleteBook(b)
        <4>1. PICK b \in Books : DeleteBook(b)
          BY <3>3
        <4>2. /\ fate[b] = "going" /\ fate' = [fate EXCEPT ![b] = "gone"]
              /\ cached' = {k \in cached : k[1] # b}
          BY <4>1 DEF DeleteBook
        <4>3. b \in gone /\ gone' = gone
          BY <2>1, <4>2
        <4> QED
          BY <3>1, <4>2, <4>3 DEF Order!Next, Order!Unwind
      <3>4. CASE cached' = cached /\ fate' = fate
        BY <3>1, <3>4 DEF Order!vars
      <3> QED
        BY <2>8, <1>4, <3>2, <3>3, <3>4
          DEF Next, WorkerStep, PrefetchStep, ReaderStep, WorkerResumes, WorkerQueuesForSlot,
              WorkerHasSlot, WorkerResumesInSlot, PrefetchStarts, PrefetchWakes, PrefetchDropped,
              Ensure, ReadStored, ReaderWakes, Disconnect, deletion, vars
    <2> QED
      BY <2>3, <2>4, <2>5, <2>6, <2>7, <2>8
  <1> QED
    BY <1>3, <1>4, CacheInvariant, PTL DEF Spec, ImplementsChapterOrder, Order!Spec
=============================================================================
