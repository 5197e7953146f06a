--------------------------- MODULE WaitListLemmas ---------------------------
(***************************************************************************)
(* What pushing on a wait list, popping from it, appending to it, joining  *)
(* two of them and picking entries of one keep; and sums over finite sets. *)
(***************************************************************************)
EXTENDS WaitLists, FiniteSetTheorems, FunctionTheorems, SequenceTheorems, TLAPS

\* Pushing t adds t and nothing else.
LEMMA PushLemma ==
  ASSUME NEW T, NEW t \in T, NEW s \in Seq(T)
  PROVE  /\ <<t>> \o s \in Seq(T) /\ <<t>> \o s # <<>>
         /\ \A x : In(x, <<t>> \o s) <=> x = t \/ In(x, s)
         /\ Distinct(s) /\ ~In(t, s) => Distinct(<<t>> \o s)
<1> DEFINE p == <<t>> \o s
<1>1. p \in Seq(T) /\ Len(p) = Len(s) + 1 /\ p[1] = t
  OBVIOUS
<1>2. \A i \in 2..Len(p) : p[i] = s[i - 1]
  OBVIOUS
<1>3. \A i \in 1..Len(s) : p[i + 1] = s[i]
  BY <1>2
<1>4. p # <<>>
  BY <1>1
<1> HIDE DEF p
<1>5. \A x : In(x, p) <=> x = t \/ In(x, s)
  BY <1>1, <1>2, <1>3, SMTT(30) DEF In
<1>6. ASSUME Distinct(s), ~In(t, s) PROVE Distinct(p)
  <2> SUFFICES ASSUME NEW i \in 1..Len(p), NEW j \in 1..Len(p), p[i] = p[j]
               PROVE  i = j
    BY DEF Distinct
  <2>1. Len(s) \in Nat
    OBVIOUS
  <2>2. ASSUME NEW k \in 2..Len(p) PROVE p[k] # t
    BY <1>1, <1>2, <1>6, <2>1, k - 1 \in 1..Len(s) DEF In
  <2>3. CASE i = 1 \/ j = 1
    BY <1>1, <2>1, <2>2, <2>3
  <2>4. CASE i # 1 /\ j # 1
    <3>1. i - 1 \in 1..Len(s) /\ j - 1 \in 1..Len(s)
      BY <1>1, <2>1, <2>4
    <3>2. s[i - 1] = s[j - 1]
      BY <1>1, <1>2, <2>1, <2>4
    <3>3. QED
      BY <1>6, <3>1, <3>2 DEF Distinct
  <2>5. QED
    BY <2>3, <2>4
<1>7. QED
  BY <1>1, <1>4, <1>5, <1>6 DEF p

\* Popping takes the head out and leaves the rest.
LEMMA PopLemma ==
  ASSUME NEW T, NEW s \in Seq(T), s # <<>>
  PROVE  /\ Head(s) \in T /\ Tail(s) \in Seq(T)
         /\ \A x : In(x, s) <=> x = Head(s) \/ In(x, Tail(s))
         /\ Distinct(s) => Distinct(Tail(s)) /\ ~In(Head(s), Tail(s))
<1>1. Len(s) \in Nat /\ Len(s) >= 1 /\ Head(s) = s[1] /\ Head(s) \in T
  OBVIOUS
<1>2. Tail(s) \in Seq(T) /\ Len(Tail(s)) = Len(s) - 1
  OBVIOUS
<1>3. \A i \in 1..Len(Tail(s)) : Tail(s)[i] = s[i + 1]
  OBVIOUS
<1>4. \A i \in 2..Len(s) : s[i] = Tail(s)[i - 1]
  BY <1>1, <1>2, <1>3
<1>5. \A x : In(x, s) <=> x = Head(s) \/ In(x, Tail(s))
  BY <1>1, <1>2, <1>3, <1>4, SMTT(30) DEF In
<1>6. Distinct(s) => Distinct(Tail(s)) /\ ~In(Head(s), Tail(s))
  BY <1>1, <1>2, <1>3 DEF In, Distinct
<1>7. QED
  BY <1>1, <1>2, <1>5, <1>6

\* Stacks of no entry and of one entry.
LEMMA SmallStacks ==
  /\ \A x : ~In(x, <<>>)
  /\ \A x, t : In(x, <<t>>) <=> x = t
  /\ Distinct(<<>>)
BY DEF In, Distinct

\* Appending t adds t and nothing else.
LEMMA AppendLemma ==
  ASSUME NEW T, NEW t \in T, NEW s \in Seq(T)
  PROVE  /\ Append(s, t) \in Seq(T) /\ Append(s, t) # <<>>
         /\ \A x : In(x, Append(s, t)) <=> x = t \/ In(x, s)
         /\ Distinct(s) /\ ~In(t, s) => Distinct(Append(s, t))
<1>1. /\ Append(s, t) \in Seq(T) /\ Len(Append(s, t)) = Len(s) + 1 /\ Len(s) \in Nat
      /\ Append(s, t)[Len(s) + 1] = t
      /\ \A i \in 1..Len(s) : Append(s, t)[i] = s[i]
  OBVIOUS
<1>2. \A x : In(x, Append(s, t)) <=> x = t \/ In(x, s)
  BY <1>1 DEF In
<1>3. Distinct(s) /\ ~In(t, s) => Distinct(Append(s, t))
  BY <1>1 DEF In, Distinct
<1>4. QED
  BY <1>1, <1>2, <1>3

\* Joining two lists that share no entry.
LEMMA ConcatLemma ==
  ASSUME NEW T, NEW r \in Seq(T), NEW s \in Seq(T)
  PROVE  /\ r \o s \in Seq(T)
         /\ \A x : In(x, r \o s) <=> In(x, r) \/ In(x, s)
         /\ Distinct(r) /\ Distinct(s) /\ (\A x : ~(In(x, r) /\ In(x, s))) => Distinct(r \o s)
<1>1. /\ Len(r) \in Nat /\ Len(s) \in Nat
      /\ r \o s \in Seq(T) /\ Len(r \o s) = Len(r) + Len(s)
      /\ \A i \in 1..Len(r) : (r \o s)[i] = r[i]
      /\ \A i \in Len(r) + 1..Len(r) + Len(s) : (r \o s)[i] = s[i - Len(r)]
  OBVIOUS
<1>2. \A i \in 1..Len(s) : (r \o s)[i + Len(r)] = s[i]
  BY <1>1
<1>3. \A x : In(x, r \o s) <=> In(x, r) \/ In(x, s)
  <2> TAKE x
  <2>1. In(x, r) => In(x, r \o s)
    BY <1>1 DEF In
  <2>2. ASSUME In(x, s) PROVE In(x, r \o s)
    <3>1. PICK i \in 1..Len(s) : s[i] = x
      BY <2>2 DEF In
    <3>2. i + Len(r) \in 1..Len(r \o s) /\ (r \o s)[i + Len(r)] = x
      BY <1>1, <1>2, <3>1
    <3>3. QED
      BY <3>2 DEF In
  <2>3. ASSUME In(x, r \o s) PROVE In(x, r) \/ In(x, s)
    <3>1. PICK i \in 1..Len(r \o s) : (r \o s)[i] = x
      BY <2>3 DEF In
    <3>2. CASE i <= Len(r)
      BY <1>1, <3>1, <3>2 DEF In
    <3>3. CASE i > Len(r)
      <4>1. i - Len(r) \in 1..Len(s) /\ s[i - Len(r)] = x
        BY <1>1, <3>1, <3>3
      <4>2. QED
        BY <4>1 DEF In
    <3>4. QED
      BY <1>1, <3>2, <3>3
  <2>4. QED
    BY <2>1, <2>2, <2>3
<1>4. ASSUME Distinct(r), Distinct(s), \A x : ~(In(x, r) /\ In(x, s)) PROVE Distinct(r \o s)
  <2> DEFINE q == r \o s
  <2> SUFFICES ASSUME NEW i \in 1..Len(q), NEW j \in 1..Len(q), q[i] = q[j] PROVE i = j
    BY DEF Distinct
  <2>1. CASE i <= Len(r) /\ j <= Len(r)
    BY <1>1, <1>4, <2>1 DEF Distinct
  <2>2. CASE i > Len(r) /\ j > Len(r)
    <3>1. i - Len(r) \in 1..Len(s) /\ j - Len(r) \in 1..Len(s)
      BY <1>1, <2>2
    <3>2. s[i - Len(r)] = s[j - Len(r)]
      BY <1>1, <2>2
    <3>3. i - Len(r) = j - Len(r)
      BY <1>4, <3>1, <3>2 DEF Distinct
    <3>4. QED
      BY <1>1, <3>3
  <2>3. CASE i <= Len(r) /\ j > Len(r)
    <3>1. j - Len(r) \in 1..Len(s) /\ q[j] = s[j - Len(r)] /\ q[i] = r[i] /\ i \in 1..Len(r)
      BY <1>1, <2>3
    <3>2. In(q[i], r) /\ In(q[i], s)
      BY <3>1 DEF In
    <3>3. QED
      BY <1>4, <3>2
  <2>4. CASE j <= Len(r) /\ i > Len(r)
    <3>1. i - Len(r) \in 1..Len(s) /\ q[i] = s[i - Len(r)] /\ q[j] = r[j] /\ j \in 1..Len(r)
      BY <1>1, <2>4
    <3>2. In(q[i], r) /\ In(q[i], s)
      BY <3>1 DEF In
    <3>3. QED
      BY <1>4, <3>2
  <2>5. QED
    BY <1>1, <2>1, <2>2, <2>3, <2>4
<1>5. QED
  BY <1>1, <1>3, <1>4

\* Moving the last entry of a list to its front.
LEMMA LastFirstLemma ==
  ASSUME NEW T, NEW s \in Seq(T), Len(s) >= 2
  PROVE  LET q == <<s[Len(s)]>> \o SubSeq(s, 1, Len(s) - 1) IN
         /\ q \in Seq(T) /\ \A x : In(x, q) <=> In(x, s)
         /\ Distinct(s) => Distinct(q)
<1> DEFINE n == Len(s)
           u == SubSeq(s, 1, n - 1)
           q == <<s[n]>> \o u
<1>1. n \in Nat /\ n >= 2 /\ s[n] \in T
  OBVIOUS
<1>2. u \in Seq(T) /\ Len(u) = n - 1 /\ \A i \in 1..n - 1 : u[i] = s[i]
  BY <1>1
<1> HIDE DEF u
<1>3. \A x : In(x, s) <=> x = s[n] \/ In(x, u)
  BY <1>1, <1>2 DEF In
<1>4. Distinct(s) => Distinct(u) /\ ~In(s[n], u)
  BY <1>1, <1>2 DEF In, Distinct
<1>5. /\ q \in Seq(T) /\ \A x : In(x, q) <=> x = s[n] \/ In(x, u)
      /\ Distinct(u) /\ ~In(s[n], u) => Distinct(q)
  BY <1>1, <1>2, PushLemma
<1>6. QED
  BY <1>3, <1>4, <1>5 DEF u
\* Removing t takes out t and nothing else.
LEMMA WithoutLemma ==
  ASSUME NEW T, NEW t, NEW s \in Seq(T), Distinct(s)
  PROVE  /\ Without(s, t) \in Seq(T) /\ Distinct(Without(s, t))
         /\ \A x : In(x, Without(s, t)) <=> x # t /\ In(x, s)
<1>1. CASE ~In(t, s)
  BY <1>1 DEF Without
<1>2. CASE In(t, s)
  <2> DEFINE k == CHOOSE k \in 1..Len(s) : s[k] = t
             q == Without(s, t)
             a == SubSeq(s, 1, k - 1)
             b == SubSeq(s, k + 1, Len(s))
  <2>1. k \in 1..Len(s) /\ s[k] = t /\ Len(s) \in Nat
    BY <1>2 DEF In
  <2>2. q = a \o b
    BY <1>2 DEF Without
  <2> HIDE DEF k
  <2>3. /\ a \in Seq(T) /\ Len(a) = k - 1 /\ \A i \in 1..(k - 1) : a[i] = s[i]
        /\ b \in Seq(T) /\ Len(b) = Len(s) - k /\ \A i \in 1..(Len(s) - k) : b[i] = s[k + i]
    BY <2>1
  <2> HIDE DEF q, a, b
  <2>4. /\ q \in Seq(T) /\ Len(q) = Len(s) - 1 /\ \A i \in 1..(k - 1) : q[i] = s[i]
    <3>1. /\ q \in Seq(T) /\ Len(q) = Len(a) + Len(b)
          /\ \A i \in 1..(Len(a) + Len(b)) : q[i] = IF i <= Len(a) THEN a[i] ELSE b[i - Len(a)]
      BY <2>2, <2>3, ConcatProperties
    <3>2. Len(q) = Len(s) - 1
      BY <2>1, <2>3, <3>1
    <3>3. ASSUME NEW i \in 1..(k - 1) PROVE q[i] = s[i]
      <4>1. i \in 1..(Len(a) + Len(b)) /\ i <= Len(a) /\ a[i] = s[i]
        BY <2>1, <2>3
      <4>2. QED
        BY <3>1, <4>1
    <3>4. QED
      BY <3>1, <3>2, <3>3
  <2>5. \A i \in k..Len(q) : q[i] = s[i + 1]
    <3>1. \A i \in 1..(Len(a) + Len(b)) : q[i] = IF i <= Len(a) THEN a[i] ELSE b[i - Len(a)]
      BY <2>2, <2>3, ConcatProperties, SMTT(30)
    <3>2. QED
      BY <2>1, <2>3, <2>4, <3>1
  <2>6. \A i \in 1..Len(s) : s[i] = t <=> i = k
    BY <2>1 DEF Distinct
  <2>7. Distinct(q)
    <3> SUFFICES ASSUME NEW i \in 1..Len(q), NEW j \in 1..Len(q), q[i] = q[j] PROVE i = j
      BY DEF Distinct
    <3> DEFINE old(n) == IF n < k THEN n ELSE n + 1
    <3>1. ASSUME NEW n \in 1..Len(q) PROVE old(n) \in 1..Len(s) /\ q[n] = s[old(n)]
      BY <2>1, <2>4, <2>5
    <3>2. old(i) = old(j)
      <4> HIDE DEF old
      <4> QED BY <3>1 DEF Distinct
    <3>3. QED
      BY <3>2, <2>1, <2>4
  <2>8. \A x : In(x, q) <=> x # t /\ In(x, s)
    <3>1. ASSUME NEW n \in 1..Len(q) PROVE q[n] # t /\ ((q[n] = s[n] /\ n \in 1..Len(s)) \/ (q[n] = s[n + 1] /\ n + 1 \in 1..Len(s)))
      BY <2>1, <2>4, <2>5, <2>6
    <3>2. ASSUME NEW n \in 1..Len(s), s[n] # t PROVE (s[n] = q[n] /\ n \in 1..Len(q)) \/ (s[n] = q[n - 1] /\ n - 1 \in 1..Len(q))
      <4>1. n # k
        BY <2>1, <3>2
      <4>2. CASE n < k
        BY <2>1, <2>4, <4>2
      <4>3. CASE n > k
        <5>1. n - 1 \in k..Len(q)
          BY <2>1, <2>4, <4>3
        <5>2. q[n - 1] = s[n]
          BY <2>5, <5>1, <2>1
        <5>3. QED
          BY <5>1, <5>2, <2>1, <2>4
      <4>4. QED
        BY <4>1, <4>2, <4>3, <2>1
    <3>3. QED
      BY <3>1, <3>2, SMTT(30) DEF In
  <2>9. QED
    BY <2>4, <2>7, <2>8 DEF q
<1>3. QED
  BY <1>1, <1>2

\* What is left of s behind its first n elements.
LEMMA RestLemma ==
  ASSUME NEW T, NEW s \in Seq(T), NEW n \in 0..Len(s)
  PROVE  LET r == SubSeq(s, n + 1, Len(s)) IN
         /\ r \in Seq(T) /\ Len(r) = Len(s) - n
         /\ \A i \in 1..Len(s) - n : r[i] = s[n + i]
         /\ \A x : In(x, r) <=> \E i \in n + 1..Len(s) : s[i] = x
         /\ Distinct(s) => Distinct(r)
<1> DEFINE r == SubSeq(s, n + 1, Len(s))
<1>1. r \in Seq(T) /\ Len(r) = Len(s) - n /\ \A i \in 1..Len(s) - n : r[i] = s[n + i]
  OBVIOUS
<1> HIDE DEF r
<1>2. ASSUME NEW x, In(x, r) PROVE \E i \in n + 1..Len(s) : s[i] = x
  <2>1. PICK i \in 1..Len(r) : r[i] = x
    BY <1>2 DEF In
  <2>2. n + i \in n + 1..Len(s) /\ s[n + i] = x
    BY <1>1, <2>1
  <2>3. QED
    BY <2>2
<1>3. ASSUME NEW x, NEW i \in n + 1..Len(s), s[i] = x PROVE In(x, r)
  <2>1. i - n \in 1..Len(r) /\ r[i - n] = x
    BY <1>1, <1>3
  <2>2. QED
    BY <2>1 DEF In
<1>4. Distinct(s) => Distinct(r)
  BY <1>1 DEF Distinct
<1>5. QED
  BY <1>1, <1>2, <1>3, <1>4 DEF r

\* What maps a finite set one to one to a set of its size leaves nothing of it out.
LEMMA OntoLemma ==
  ASSUME NEW S, NEW T, IsFiniteSet(T), Cardinality(T) = Cardinality(S),
         NEW f \in Injection(S, T)
  PROVE  f \in Surjection(S, T)
BY FS_Injection

\* The rank counts the positions L from 1 up, in order, and leaves none out.
LEMMA RankLemma ==
  ASSUME NEW n \in Nat, NEW L \in SUBSET (1..n)
  PROVE  /\ IsFiniteSet(L) /\ Cardinality(L) \in Nat /\ Cardinality(L) <= n
         /\ \A i \in L : Rank(L, i) \in 1..Cardinality(L)
         /\ \A i, j \in L : i < j => Rank(L, i) < Rank(L, j)
         /\ \A k \in 1..Cardinality(L) : \E i \in L : Rank(L, i) = k
<1>1. IsFiniteSet(1..n) /\ Cardinality(1..n) = n
  BY FS_Interval
<1>2. IsFiniteSet(L) /\ Cardinality(L) \in Nat /\ Cardinality(L) <= n
  BY <1>1, FS_Subset, FS_CardinalityType
<1>0. \A i \in L : i \in Nat
  OBVIOUS
<1> DEFINE B(i) == {j \in L : j <= i}
<1>3. \A i \in L : B(i) \in SUBSET L /\ IsFiniteSet(B(i)) /\ Cardinality(B(i)) \in Nat
                   /\ Cardinality(B(i)) <= Cardinality(L)
  <2> SUFFICES ASSUME NEW i \in L PROVE B(i) \in SUBSET L /\ IsFiniteSet(B(i))
                   /\ Cardinality(B(i)) \in Nat /\ Cardinality(B(i)) <= Cardinality(L)
    OBVIOUS
  <2>1. B(i) \in SUBSET L
    OBVIOUS
  <2>2. QED
    BY <1>2, <2>1, FS_Subset, FS_CardinalityType
<1>4. \A i \in L : Rank(L, i) = Cardinality(B(i)) /\ Rank(L, i) \in 1..Cardinality(L)
  <2> SUFFICES ASSUME NEW i \in L PROVE Rank(L, i) = Cardinality(B(i))
                                        /\ Rank(L, i) \in 1..Cardinality(L)
    OBVIOUS
  <2>1. i \in B(i) /\ Rank(L, i) = Cardinality(B(i))
    BY DEF Rank
  <2>2. Cardinality(B(i)) # 0
    BY <1>3, <2>1, FS_EmptySet
  <2>3. QED
    BY <1>2, <1>3, <2>1, <2>2
<1>5. \A i, j \in L : i < j => Rank(L, i) < Rank(L, j)
  <2> SUFFICES ASSUME NEW i \in L, NEW j \in L, i < j PROVE Rank(L, i) < Rank(L, j)
    OBVIOUS
  <2>0. i \in Nat /\ j \in Nat /\ \A k \in L : k \in Nat
    BY <1>0
  <2>1. B(i) \subseteq B(j) /\ j \in B(j) /\ j \notin B(i)
    <3>1. \A k \in B(i) : k \in B(j)
      BY <2>0
    <3>2. j \in B(j) /\ j \notin B(i)
      BY <2>0
    <3>3. QED
      BY <3>1, <3>2
  <2>2. Cardinality(B(i)) <= Cardinality(B(j)) /\ Cardinality(B(i)) # Cardinality(B(j))
    BY <1>3, <2>1, FS_Subset
  <2>3. QED
    BY <1>3, <1>4, <2>2
<1>6. \A k \in 1..Cardinality(L) : \E i \in L : Rank(L, i) = k
  <2> DEFINE N == 1..Cardinality(L)
             f == [i \in L |-> Rank(L, i)]
  <2>1. f \in [L -> N]
    BY <1>4
  <2>2. ASSUME NEW i \in L, NEW j \in L, f[i] = f[j] PROVE i = j
    <3>1. Rank(L, i) = Rank(L, j)
      BY <2>2
    <3>2. Rank(L, i) \in Nat
      <4>1. \A k \in L : Rank(L, k) \in 1..Cardinality(L)
        BY <1>4
      <4>2. QED
        BY <1>2, <4>1
    <3>3. ~(i < j) /\ ~(j < i)
      BY <1>5, <3>1, <3>2
    <3>4. QED
      BY <1>0, <3>3
  <2>3. f \in Injection(L, N)
    BY <2>1, <2>2, Fun_IsInj
  <2>4. IsFiniteSet(N) /\ Cardinality(N) = Cardinality(L)
    BY <1>2, FS_Interval
  <2>5. f \in Surjection(L, N)
    BY <1>2, <2>3, <2>4, OntoLemma
  <2>6. \A k \in N : \E i \in L : f[i] = k
    BY <2>5 DEF Surjection
  <2>7. QED
    BY <2>6 DEF N, f
<1>7. QED
  BY <1>2, <1>4, <1>5, <1>6

\* The entries picked are those at the positions L, in order.
LEMMA PickedLemma ==
  ASSUME NEW T, NEW s \in Seq(T), NEW L \in SUBSET (1..Len(s))
  PROVE  /\ Picked(s, L) \in Seq(T) /\ Len(Picked(s, L)) = Cardinality(L)
         /\ \A x : In(x, Picked(s, L)) <=> \E i \in L : s[i] = x
         /\ Distinct(s) => Distinct(Picked(s, L))
<1> DEFINE n == Cardinality(L)
           P(k) == Position(L, k)
<1>0. \A i \in L : i \in Nat /\ i \in 1..Len(s) /\ s[i] \in T
  OBVIOUS
<1>1. /\ n \in Nat /\ \A i \in L : Rank(L, i) \in 1..n
      /\ \A i, j \in L : i < j => Rank(L, i) < Rank(L, j)
      /\ \A k \in 1..n : \E i \in L : Rank(L, i) = k
  BY RankLemma, SMTT(30)
<1>2. \A k \in 1..n : P(k) \in L /\ Rank(L, P(k)) = k
  BY <1>1 DEF Position
<1>3. \A i \in L : P(Rank(L, i)) = i
  <2> SUFFICES ASSUME NEW i \in L PROVE P(Rank(L, i)) = i
    OBVIOUS
  <2>1. Rank(L, i) \in 1..n
    BY <1>1
  <2>2. P(Rank(L, i)) \in L /\ Rank(L, P(Rank(L, i))) = Rank(L, i)
    BY <1>2, <2>1
  <2> HIDE DEF P
  <2>3. ~(P(Rank(L, i)) < i) /\ ~(i < P(Rank(L, i)))
    <3> DEFINE m == Rank(L, i)
    <3>1. m \in Nat /\ P(m) \in L /\ Rank(L, P(m)) = m
      BY <1>1, <2>1, <2>2
    <3>2. P(m) < i => Rank(L, P(m)) < m
      BY <1>1, <3>1
    <3>3. i < P(m) => m < Rank(L, P(m))
      BY <1>1, <3>1
    <3> HIDE DEF m
    <3>4. QED
      BY <3>1, <3>2, <3>3 DEF m
  <2>4. P(Rank(L, i)) \in Nat /\ i \in Nat
    BY <1>0, <2>2
  <2>5. QED
    BY <2>3, <2>4
<1> HIDE DEF P
<1>4. Picked(s, L) = [k \in 1..n |-> s[P(k)]]
  BY DEF Picked, P
<1>5. Picked(s, L) \in Seq(T) /\ Len(Picked(s, L)) = n
  <2>1. n \in Nat /\ \A k \in 1..n : s[P(k)] \in T
    BY <1>0, <1>1, <1>2
  <2> HIDE DEF n
  <2>2. QED
    BY <1>4, <2>1
<1>6. ASSUME NEW x, In(x, Picked(s, L)) PROVE \E i \in L : s[i] = x
  BY <1>2, <1>4, <1>5, <1>6 DEF In
<1>7. ASSUME NEW i \in L PROVE In(s[i], Picked(s, L))
  <2>1. Rank(L, i) \in 1..n /\ P(Rank(L, i)) = i
    BY <1>1, <1>3
  <2>2. Picked(s, L)[Rank(L, i)] = s[i]
    BY <1>4, <2>1
  <2>3. QED
    BY <1>5, <2>1, <2>2 DEF In
<1>8. ASSUME Distinct(s) PROVE Distinct(Picked(s, L))
  <2>1. \A j, k \in 1..n : P(j) = P(k) => j = k
    BY <1>2
  <2>2. \A j, k \in 1..n : s[P(j)] = s[P(k)] => P(j) = P(k)
    BY <1>2, <1>8 DEF Distinct
  <2>3. \A k \in 1..n : Picked(s, L)[k] = s[P(k)]
    BY <1>4
  <2> HIDE DEF n
  <2>4. QED
    BY <1>5, <2>1, <2>2, <2>3 DEF Distinct
<1>9. QED
  BY <1>5, <1>6, <1>7, <1>8

-----------------------------------------------------------------------------
(* Sums. *)

\* A set of subsets of a finite set has a minimal member.
LEMMA SmallestSubset ==
  ASSUME NEW S, IsFiniteSet(S), NEW T, T \subseteq SUBSET S, T # {}
  PROVE  \E x \in T : \A y \in T : y \subseteq x => y = x
<1>1. T \subseteq FiniteSubsetsOf(S)
  BY FS_Subset DEF FiniteSubsetsOf
<1>2. PICK x \in T : \A y \in T : ~(<<y, x>> \in StrictSubsetOrdering(S))
  BY <1>1, FS_StrictSubsetOrderingWellFounded, WFMin
<1>3. QED
  BY <1>2 DEF StrictSubsetOrdering

\* The element of s that a sum takes first, and the function that sums f over the subsets of S.
First(s) == CHOOSE x \in s : TRUE
IsSum(F, f, S) ==
  F = [s \in SUBSET S |-> IF s = {} THEN 0 ELSE f[First(s)] + F[s \ {First(s)}]]

\* Two such functions agree on the subsets that both sum over.
LEMMA SumUnique ==
  ASSUME NEW S, IsFiniteSet(S), NEW f, NEW u \in SUBSET S, NEW w \in SUBSET S,
         NEW F, IsSum(F, f, u), NEW G, IsSum(G, f, w)
  PROVE  \A s \in SUBSET (u \cap w) : F[s] = G[s]
<1> DEFINE T == {s \in SUBSET (u \cap w) : F[s] # G[s]}
<1> SUFFICES ASSUME T # {} PROVE FALSE
  OBVIOUS
<1>1. T \subseteq SUBSET S
  OBVIOUS
<1> HIDE DEF T
<1>2. PICK x \in T : \A y \in T : y \subseteq x => y = x
  BY <1>1, SmallestSubset
<1> USE DEF T
<1>3. F[x] # G[x] /\ x \subseteq u /\ x \subseteq w
  BY <1>2
<1>4. CASE x = {}
  BY <1>3, <1>4 DEF IsSum
<1>5. CASE x # {}
  <2>1. First(x) \in x
    BY <1>5 DEF First
  <2>2. F[x \ {First(x)}] = G[x \ {First(x)}]
    BY <1>2, <1>3, <2>1
  <2>3. F[x] = f[First(x)] + F[x \ {First(x)}] /\ G[x] = f[First(x)] + G[x \ {First(x)}]
    BY <1>3, <1>5, <2>1 DEF IsSum
  <2>4. QED
    BY <1>3, <2>2, <2>3
<1>6. QED
  BY <1>4, <1>5

\* There is such a function for every finite set.
LEMMA SumExists ==
  ASSUME NEW S, IsFiniteSet(S), NEW f
  PROVE  \E F : IsSum(F, f, S)
<1> DEFINE T == {u \in SUBSET S : ~\E F : IsSum(F, f, u)}
<1> SUFFICES ASSUME T # {} PROVE FALSE
  OBVIOUS
<1>1. T \subseteq SUBSET S
  OBVIOUS
<1> HIDE DEF T
<1>2. PICK x \in T : \A y \in T : y \subseteq x => y = x
  BY <1>1, SmallestSubset
<1> DEFINE Fun(u) == CHOOSE H : IsSum(H, f, u)
           val(u) == IF u = {} THEN 0 ELSE f[First(u)] + Fun(u \ {First(u)})[u \ {First(u)}]
           G == [s \in SUBSET x |-> val(s)]
<1>3. \A u \in SUBSET x : u # x => IsSum(Fun(u), f, u)
  BY <1>1, <1>2 DEF T
<1> HIDE DEF Fun
<1>4. ASSUME NEW s \in SUBSET x, s # {} PROVE val(s) = f[First(s)] + val(s \ {First(s)})
  <2> DEFINE r == s \ {First(s)}
  <2>1. First(s) \in s /\ r \in SUBSET x /\ r # x /\ r \in SUBSET S
    BY <1>1, <1>4 DEF First
  <2>2. IsSum(Fun(r), f, r)
    BY <1>3, <2>1
  <2> HIDE DEF r
  <2>3. Fun(r)[r] = val(r)
    <3>1. CASE r = {}
      BY <2>2, <3>1 DEF IsSum
    <3>2. CASE r # {}
      <4> DEFINE q == r \ {First(r)}
      <4>1. First(r) \in r /\ q \in SUBSET x /\ q # x /\ q \subseteq r
        BY <2>1, <3>2 DEF First
      <4>2. IsSum(Fun(q), f, q)
        BY <1>3, <4>1
      <4>3. Fun(r)[r] = f[First(r)] + Fun(r)[q]
        BY <2>2, <3>2 DEF IsSum
      <4>4. Fun(r)[q] = Fun(q)[q]
        <5>1. q \in SUBSET S /\ q \in SUBSET (r \cap q)
          BY <1>1, <4>1
        <5> HIDE DEF q
        <5>2. \A s_1 \in SUBSET (r \cap q) : Fun(r)[s_1] = Fun(q)[s_1]
          BY <2>1, <2>2, <4>2, <5>1, SumUnique
        <5>3. QED
          BY <5>1, <5>2
      <4>5. QED
        BY <3>2, <4>3, <4>4
    <3>3. QED
      BY <3>1, <3>2
  <2>4. QED
    BY <1>4, <2>3 DEF r
<1>5. IsSum(G, f, x)
  <2>1. \A s \in SUBSET x : s # {} => s \ {First(s)} \in SUBSET x
    OBVIOUS
  <2> HIDE DEF val
  <2>2. val({}) = 0
    BY DEF val
  <2>3. \A s \in SUBSET x : val(s) = IF s = {} THEN 0 ELSE f[First(s)] + G[s \ {First(s)}]
    BY <1>4, <2>1, <2>2
  <2>4. QED
    BY <2>3 DEF IsSum
<1>6. QED
  BY <1>2, <1>5 DEF T

\* A sum changes with the value of one element by as much.
LEMMA SumChange ==
  ASSUME NEW S, IsFiniteSet(S), NEW f \in [S -> Int], NEW g \in [S -> Int], NEW x \in S,
         \A y \in S \ {x} : g[y] = f[y]
  PROVE  /\ SumFunction(f) \in Int /\ SumFunction(g) \in Int
         /\ SumFunction(g) = SumFunction(f) + (g[x] - f[x])
<1> DEFINE F == CHOOSE H : IsSum(H, f, S)
           G == CHOOSE H : IsSum(H, g, S)
<1>1. SumFunction(f) = F[S] /\ SumFunction(g) = G[S]
  BY DEF SumFunction, SumFunctionOnSet, FoldFunctionOnSet, MapThenFoldSet, IsSum, First
<1>2. IsSum(F, f, S) /\ IsSum(G, g, S)
  BY SumExists
<1> HIDE DEF F, G
<1> DEFINE T == {s \in SUBSET S : ~(/\ F[s] \in Int /\ G[s] \in Int
                                    /\ G[s] = F[s] + (IF x \in s THEN g[x] - f[x] ELSE 0))}
<1>3. T = {}
  <2> SUFFICES ASSUME T # {} PROVE FALSE
    OBVIOUS
  <2>1. T \subseteq SUBSET S
    OBVIOUS
  <2> HIDE DEF T
  <2>2. PICK u \in T : \A y \in T : y \subseteq u => y = u
    BY <2>1, SmallestSubset
  <2>3. u \in SUBSET S
    BY <2>1
  <2>4. CASE u = {}
    <3>1. F[u] = 0 /\ G[u] = 0
      BY <1>2, <2>3, <2>4 DEF IsSum
    <3>2. QED
      BY <2>2, <2>4, <3>1 DEF T
  <2>5. CASE u # {}
    <3> DEFINE e == First(u)
               r == u \ {e}
    <3>1. e \in u /\ e \in S /\ r \in SUBSET S /\ r \subseteq u /\ r # u
      BY <2>3, <2>5 DEF First
    <3>2. F[u] = f[e] + F[r] /\ G[u] = g[e] + G[r]
      BY <1>2, <2>3, <2>5 DEF IsSum
    <3> HIDE DEF e
    <3>3. F[r] \in Int /\ G[r] \in Int /\ G[r] = F[r] + (IF x \in r THEN g[x] - f[x] ELSE 0)
      BY <2>2, <3>1 DEF T
    <3>4. f[e] \in Int /\ g[e] \in Int /\ f[x] \in Int /\ g[x] \in Int
      BY <3>1
    <3>5. F[u] \in Int /\ G[u] \in Int /\ G[u] = F[u] + (IF x \in u THEN g[x] - f[x] ELSE 0)
      <4>1. CASE e = x
        BY <3>1, <3>2, <3>3, <3>4, <4>1
      <4>2. CASE e # x
        <5>1. g[e] = f[e] /\ (x \in r <=> x \in u)
          BY <3>1, <4>2
        <5> HIDE DEF r
        <5>2. QED
          BY <3>2, <3>3, <3>4, <5>1
      <4>3. QED
        BY <4>1, <4>2
    <3>6. QED
      BY <2>2, <3>5 DEF T
  <2>6. QED
    BY <2>4, <2>5
<1>4. F[S] \in Int /\ G[S] \in Int /\ G[S] = F[S] + (g[x] - f[x])
  BY <1>3
<1>5. QED
  BY <1>1, <1>4

\* The sum of zeros.
LEMMA SumZero ==
  ASSUME NEW S, IsFiniteSet(S), NEW f \in [S -> Int], \A x \in S : f[x] = 0
  PROVE  SumFunction(f) = 0
<1> DEFINE F == CHOOSE H : IsSum(H, f, S)
<1>1. SumFunction(f) = F[S]
  BY DEF SumFunction, SumFunctionOnSet, FoldFunctionOnSet, MapThenFoldSet, IsSum, First
<1>2. IsSum(F, f, S)
  BY SumExists
<1> HIDE DEF F
<1> DEFINE T == {s \in SUBSET S : F[s] # 0}
<1>3. T = {}
  <2> SUFFICES ASSUME T # {} PROVE FALSE
    OBVIOUS
  <2>1. T \subseteq SUBSET S
    OBVIOUS
  <2> HIDE DEF T
  <2>2. PICK u \in T : \A y \in T : y \subseteq u => y = u
    BY <2>1, SmallestSubset
  <2>3. u \in SUBSET S /\ F[u] # 0
    BY <2>1 DEF T
  <2>4. u # {}
    BY <1>2, <2>3 DEF IsSum
  <2> DEFINE r == u \ {First(u)}
  <2>5. First(u) \in S /\ r \in SUBSET S /\ r \subseteq u /\ r # u
    BY <2>3, <2>4 DEF First
  <2>6. F[u] = f[First(u)] + F[r]
    BY <1>2, <2>3, <2>4 DEF IsSum
  <2>7. F[r] = 0
    BY <2>2, <2>5 DEF T
  <2>8. QED
    BY <2>3, <2>5, <2>6, <2>7
<1>4. QED
  BY <1>1, <1>3
=============================================================================
