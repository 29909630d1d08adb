--------------------------- MODULE Filtering_proofs ---------------------------
(***************************************************************************)
(* What filtering a slice keeps and preserves, for every slice.            *)
(***************************************************************************)
EXTENDS Filtering, SequencesExt, FiniteSetTheorems, SequenceTheorems,
        WellFoundedInduction, TLAPS

-----------------------------------------------------------------------------
(* Induction on numbers, as the existence of a least one. *)

Less == OpToRel(<, Nat)

LEMMA LessIs == Less = {p \in Nat \X Nat : p[1] < p[2]}
BY Zenon DEF Less, OpToRel

LEMMA LeastOne ==
    ASSUME NEW T \in SUBSET Nat, T # {}
    PROVE  \E n \in T : \A m \in T : n <= m
<1>1. IsWellFoundedOn(Less, Nat)
  BY NatLessThanWellFounded DEF Less
<1>2. PICK n \in T : \A m \in T : <<m, n>> \notin Less
  BY <1>1, WFMin
<1>3. ASSUME NEW m \in T PROVE n <= m
  <2>1. ~(<<m, n>>[1] < <<m, n>>[2])
    BY <1>2, LessIs
  <2> QED BY <2>1
<1> QED BY <1>3

\* A set of numbers that has 0 and with every number below n the next one has
\* all of 0..n.
LEMMA CountUp ==
    ASSUME NEW n \in Nat, NEW T, 0 \in T,
           \A i \in 1..n : i - 1 \in T => i \in T
    PROVE  \A i \in 0..n : i \in T
<1> DEFINE missing == {i \in 0..n : i \notin T}
<1>1. SUFFICES ASSUME missing # {} PROVE FALSE
  OBVIOUS
<1>2. PICK i \in missing : \A j \in missing : i <= j
  <2>1. missing \in SUBSET Nat
    OBVIOUS
  <2> QED BY <1>1, <2>1, LeastOne
<1>3. i \in 1..n /\ i - 1 \in 0..n
  BY <1>2
<1>4. i - 1 \in T
  BY <1>2, <1>3
<1> QED BY <1>2, <1>3, <1>4

-----------------------------------------------------------------------------
(* The recursive definition. *)

\* f is the function that OnlyIn defines, up to n.
Filters(s, S, n, f) ==
    f = [i \in 0..n |-> IF i = 0 THEN <<>>
                        ELSE IF s[i] \in S THEN Append(f[i - 1], s[i])
                        ELSE f[i - 1]]

LEMMA FiltersExtend ==
    ASSUME NEW s, NEW S, NEW n \in Nat \ {0}, NEW g, Filters(s, S, n - 1, g)
    PROVE  \E f : Filters(s, S, n, f)
<1> DEFINE f == [i \in 0..n |->
                    IF i = n THEN IF s[n] \in S THEN Append(g[n - 1], s[n])
                                                ELSE g[n - 1]
                    ELSE g[i]]
<1>1. DOMAIN g = 0..n-1 /\ n - 1 \in 0..n-1
  BY DEF Filters
<1>2. ASSUME NEW i \in 0..n
      PROVE  f[i] = IF i = 0 THEN <<>>
                    ELSE IF s[i] \in S THEN Append(f[i - 1], s[i])
                    ELSE f[i - 1]
  <2>1. CASE i = n
    <3>1. f[n - 1] = g[n - 1] /\ n # 0
      BY <1>1
    <3> QED BY <2>1, <3>1
  <2>2. CASE i # n
    <3>1. i \in 0..n-1 /\ f[i] = g[i] /\ (i # 0 => i - 1 \in 0..n /\ i - 1 # n)
      BY <2>2
    <3>2. i # 0 => f[i - 1] = g[i - 1]
      BY <3>1
    <3>3. g[i] = IF i = 0 THEN <<>>
                 ELSE IF s[i] \in S THEN Append(g[i - 1], s[i])
                 ELSE g[i - 1]
      BY <3>1 DEF Filters
    <3> QED BY <3>1, <3>2, <3>3
  <2> QED BY <2>1, <2>2
<1>3. Filters(s, S, n, f)
  <2>1. f = [i \in 0..n |-> f[i]]
    OBVIOUS
  <2> HIDE DEF f
  <2> QED BY <1>2, <2>1 DEF Filters
<1> QED BY <1>3

LEMMA FiltersExist ==
    ASSUME NEW s, NEW S, NEW n \in Nat PROVE \E f : Filters(s, S, n, f)
<1> DEFINE T == {i \in 0..n : \E f : Filters(s, S, i, f)}
<1>1. 0 \in T
  <2>1. Filters(s, S, 0, [i \in 0..0 |-> <<>>])
    BY DEF Filters
  <2> QED BY <2>1
<1>2. ASSUME NEW i \in 1..n, i - 1 \in T PROVE i \in T
  <2>1. PICK g : Filters(s, S, i - 1, g)
    BY <1>2
  <2>2. i \in Nat \ {0}
    OBVIOUS
  <2>3. \E f : Filters(s, S, i, f)
    BY <2>1, <2>2, FiltersExtend
  <2> QED BY <2>3
<1> HIDE DEF T
<1>3. n \in T
  BY <1>1, <1>2, CountUp
<1> QED BY <1>3 DEF T

LEMMA OnlyInFilters ==
    ASSUME NEW s, NEW S, Len(s) \in Nat
    PROVE  \E f : Filters(s, S, Len(s), f) /\ OnlyIn(s, S) = f[Len(s)]
<1> DEFINE f == CHOOSE f : Filters(s, S, Len(s), f)
<1>1. Filters(s, S, Len(s), f)
  BY FiltersExist
<1>2. OnlyIn(s, S) = f[Len(s)]
  BY DEF OnlyIn, Filters
<1> QED BY <1>1, <1>2

-----------------------------------------------------------------------------
(* What is kept. *)

\* t is the elements of S among the first n of s: e says where each was.
Keeps(s, S, n, t, e) ==
    /\ e \in [1..Len(t) -> 1..n]
    /\ \A i, j \in 1..Len(t) : i < j => e[i] < e[j]
    /\ \A i \in 1..Len(t) : t[i] = s[e[i]] /\ t[i] \in S
    /\ \A k \in 1..n : s[k] \in S => \E i \in 1..Len(t) : e[i] = k

LEMMA KeepsNext ==
    ASSUME NEW T, NEW s \in Seq(T), NEW S, NEW n \in 1..Len(s),
           NEW t \in Seq(T), NEW e, Keeps(s, S, n - 1, t, e)
    PROVE  LET u == IF s[n] \in S THEN Append(t, s[n]) ELSE t
           IN  u \in Seq(T) /\ \E d : Keeps(s, S, n, u, d)
<1>1. CASE s[n] \notin S
  <2>1. Keeps(s, S, n, t, e)
    BY <1>1 DEF Keeps
  <2> QED BY <1>1, <2>1
<1>2. CASE s[n] \in S
  <2> DEFINE u == Append(t, s[n])
             m == Len(t)
             d == [i \in 1..m+1 |-> IF i = m + 1 THEN n ELSE e[i]]
  <2>1. s[n] \in T /\ m \in Nat /\ n \in Nat \ {0}
    OBVIOUS
  <2>2. /\ u \in Seq(T) /\ Len(u) = m + 1 /\ u[m + 1] = s[n]
        /\ \A i \in 1..m : u[i] = t[i]
    BY <2>1
  <2> HIDE DEF u
  <2>3. \A i \in 1..m : d[i] = e[i] /\ e[i] \in 1..n-1
    <3>1. \A i \in 1..m : e[i] \in 1..n-1
      BY DEF Keeps
    <3>2. ASSUME NEW i \in 1..m PROVE d[i] = e[i]
      <4>1. i \in 1..m+1 /\ i # m + 1
        BY <2>1
      <4> QED BY <4>1
    <3> QED BY <3>1, <3>2
  <2>4. d[m + 1] = n
    BY <2>1
  <2>5. d \in [1..m+1 -> 1..n]
    <3>1. ASSUME NEW i \in 1..m+1
          PROVE  (IF i = m + 1 THEN n ELSE e[i]) \in 1..n
      <4>1. CASE i = m + 1
        BY <2>1, <4>1
      <4>2. CASE i # m + 1
        <5>1. i \in 1..m
          BY <2>1, <4>2
        <5>2. e[i] \in 1..n-1
          BY <5>1 DEF Keeps
        <5> QED BY <2>1, <4>2, <5>2
      <4> QED BY <4>1, <4>2
    <3> QED BY <3>1
  <2>6. ASSUME NEW i \in 1..m+1, NEW j \in 1..m+1, i < j PROVE d[i] < d[j]
    <3>1. i \in 1..m /\ d[i] < n
      <4>1. i \in 1..m
        BY <2>1, <2>6
      <4>2. d[i] \in 1..n-1
        BY <2>3, <4>1
      <4> QED BY <2>1, <4>1, <4>2
    <3>2. CASE j = m + 1
      BY <2>4, <3>1, <3>2
    <3>3. CASE j \in 1..m
      BY <2>3, <2>6, <3>1, <3>3 DEF Keeps
    <3> QED BY <2>1, <3>2, <3>3
  <2>7. ASSUME NEW i \in 1..m+1 PROVE u[i] = s[d[i]] /\ u[i] \in S
    <3>1. CASE i = m + 1
      BY <1>2, <2>2, <2>4, <3>1
    <3>2. CASE i \in 1..m
      BY <2>2, <2>3, <3>2 DEF Keeps
    <3> QED BY <2>1, <3>1, <3>2
  <2>8. ASSUME NEW k \in 1..n, s[k] \in S PROVE \E i \in 1..m+1 : d[i] = k
    <3>1. CASE k = n
      <4>1. m + 1 \in 1..m+1
        BY <2>1
      <4> QED BY <2>4, <3>1, <4>1
    <3>2. CASE k # n
      <4>1. PICK i \in 1..m : e[i] = k
        BY <2>8, <3>2 DEF Keeps
      <4>2. i \in 1..m+1 /\ d[i] = k
        BY <2>1, <2>3, <4>1
      <4> QED BY <4>2
    <3> QED BY <3>1, <3>2
  <2> HIDE DEF d, m
  <2>9. Keeps(s, S, n, u, d)
    BY <2>2, <2>5, <2>6, <2>7, <2>8 DEF Keeps
  <2> QED BY <1>2, <2>2, <2>9 DEF u
<1> QED BY <1>1, <1>2

\* OnlyIn(s, S) is the elements of S among those of s.
LEMMA OnlyInKeeps ==
    ASSUME NEW T, NEW s \in Seq(T), NEW S
    PROVE  /\ OnlyIn(s, S) \in Seq(T)
           /\ \E e : Keeps(s, S, Len(s), OnlyIn(s, S), e)
<1> DEFINE n == Len(s)
<1>1. n \in Nat
  OBVIOUS
<1>2. PICK f : Filters(s, S, n, f) /\ OnlyIn(s, S) = f[n]
  BY <1>1, OnlyInFilters
<1>3. f[0] = <<>>
  <2>1. 0 \in 0..n
    BY <1>1
  <2> QED BY <1>2, <2>1 DEF Filters
<1>4. ASSUME NEW i \in 1..n
      PROVE  f[i] = IF s[i] \in S THEN Append(f[i - 1], s[i]) ELSE f[i - 1]
  <2>1. i \in 0..n /\ i # 0
    BY <1>1
  <2> QED BY <1>2, <2>1 DEF Filters
<1> DEFINE G == {i \in 0..n : f[i] \in Seq(T) /\ \E e : Keeps(s, S, i, f[i], e)}
<1>5. 0 \in G
  <2>1. <<>> \in Seq(T) /\ Len(<<>>) = 0
    BY EmptySeq
  <2>2. Keeps(s, S, 0, <<>>, <<>>)
    BY <2>1 DEF Keeps
  <2>3. 0 \in 0..n /\ f[0] \in Seq(T) /\ \E e : Keeps(s, S, 0, f[0], e)
    BY <1>1, <1>3, <2>1, <2>2
  <2> QED BY <2>3
<1>6. ASSUME NEW i \in 1..n, i - 1 \in G PROVE i \in G
  <2>1. f[i - 1] \in Seq(T) /\ \E e : Keeps(s, S, i - 1, f[i - 1], e)
    BY <1>6
  <2>2. f[i] \in Seq(T) /\ \E e : Keeps(s, S, i, f[i], e)
    <3> DEFINE t == f[i - 1]
    <3>1. t \in Seq(T) /\ \E e : Keeps(s, S, i - 1, t, e)
      BY <2>1
    <3>2. f[i] = IF s[i] \in S THEN Append(t, s[i]) ELSE t
      BY <1>4
    <3> HIDE DEF t
    <3> QED BY <3>1, <3>2, KeepsNext
  <2>3. i \in 0..n
    BY <1>1
  <2> QED BY <2>2, <2>3
<1>7. n \in G
  <2>1. \A i \in 1..n : i - 1 \in G => i \in G
    BY <1>6
  <2> HIDE DEF G
  <2>2. \A i \in 0..n : i \in G
    <3> HIDE DEF n
    <3> QED BY <1>1, <1>5, <2>1, CountUp
  <2>3. n \in 0..n
    BY <1>1
  <2> QED BY <2>2, <2>3
<1> QED BY <1>2, <1>7

\* It has those elements of s that are in S, and no others.
LEMMA OnlyInRange ==
    ASSUME NEW T, NEW s \in Seq(T), NEW S
    PROVE  ToSet(OnlyIn(s, S)) = ToSet(s) \cap S
<1> DEFINE t == OnlyIn(s, S)
<1>1. PICK e : t \in Seq(T) /\ Keeps(s, S, Len(s), t, e)
  BY OnlyInKeeps
<1> HIDE DEF t
<1>2. DOMAIN t = 1..Len(t) /\ DOMAIN s = 1..Len(s)
  BY <1>1
<1>3. ASSUME NEW i \in 1..Len(t) PROVE t[i] \in ToSet(s) \cap S
  <2>1. e[i] \in 1..Len(s) /\ t[i] = s[e[i]] /\ t[i] \in S
    BY <1>1 DEF Keeps
  <2> QED BY <1>2, <2>1 DEF ToSet
<1>4. ASSUME NEW k \in 1..Len(s), s[k] \in S PROVE s[k] \in ToSet(t)
  <2>1. PICK i \in 1..Len(t) : e[i] = k
    BY <1>1, <1>4 DEF Keeps
  <2>2. t[i] = s[k]
    BY <1>1, <2>1 DEF Keeps
  <2> QED BY <1>2, <2>2 DEF ToSet
<1>5. ToSet(t) \subseteq ToSet(s) \cap S
  BY <1>2, <1>3 DEF ToSet
<1>6. ToSet(s) \cap S \subseteq ToSet(t)
  <2> SUFFICES ASSUME NEW x \in ToSet(s), x \in S PROVE x \in ToSet(t)
    OBVIOUS
  <2>1. PICK k \in 1..Len(s) : x = s[k]
    BY <1>2 DEF ToSet
  <2> QED BY <1>4, <2>1
<1> QED BY <1>5, <1>6 DEF t

\* What is in s once is kept once.
LEMMA OnlyInInjective ==
    ASSUME NEW T, NEW s \in Seq(T), NEW S, IsInjective(s)
    PROVE  IsInjective(OnlyIn(s, S))
<1> DEFINE t == OnlyIn(s, S)
<1>1. PICK e : t \in Seq(T) /\ Keeps(s, S, Len(s), t, e)
  BY OnlyInKeeps
<1> HIDE DEF t
<1>2. DOMAIN t = 1..Len(t) /\ DOMAIN s = 1..Len(s)
  BY <1>1
<1>3. ASSUME NEW i \in 1..Len(t), NEW j \in 1..Len(t), t[i] = t[j] PROVE i = j
  <2>1. e[i] \in 1..Len(s) /\ e[j] \in 1..Len(s) /\ s[e[i]] = s[e[j]]
    BY <1>1, <1>3 DEF Keeps
  <2>2. e[i] = e[j]
    BY <1>2, <2>1 DEF IsInjective
  <2>3. ~(e[i] < e[j]) /\ ~(e[j] < e[i])
    BY <2>1, <2>2
  <2>4. ~(i < j) /\ ~(j < i)
    BY <1>1, <2>3 DEF Keeps
  <2> QED BY <2>4
<1> QED BY <1>2, <1>3 DEF IsInjective, t

\* Where the elements of S are in s.
Places(s, S) == {k \in 1..Len(s) : s[k] \in S}

LEMMA OnlyInLength ==
    ASSUME NEW T, NEW s \in Seq(T), NEW S
    PROVE  /\ IsFiniteSet(Places(s, S))
           /\ Len(OnlyIn(s, S)) = Cardinality(Places(s, S))
           /\ Len(OnlyIn(s, S)) \in Nat /\ Len(OnlyIn(s, S)) <= Len(s)
<1> DEFINE t == OnlyIn(s, S)
<1>1. PICK e : t \in Seq(T) /\ Keeps(s, S, Len(s), t, e)
  BY OnlyInKeeps
<1> HIDE DEF t
<1>2. Len(t) \in Nat /\ Len(s) \in Nat
  BY <1>1
<1>3. \A i, j \in 1..Len(t) : e[i] = e[j] => i = j
  <2> SUFFICES ASSUME NEW i \in 1..Len(t), NEW j \in 1..Len(t), e[i] = e[j]
               PROVE  i = j
    OBVIOUS
  <2>1. e[i] \in 1..Len(s) /\ e[j] \in 1..Len(s)
    BY <1>1 DEF Keeps
  <2>2. ~(i < j) /\ ~(j < i)
    BY <1>1, <2>1 DEF Keeps
  <2> QED BY <2>2
<1>4. e \in [1..Len(t) -> Places(s, S)]
  BY <1>1 DEF Keeps, Places
<1>5. \A k \in Places(s, S) : \E i \in 1..Len(t) : e[i] = k
  BY <1>1 DEF Keeps, Places
<1>6. e \in Bijection(1..Len(t), Places(s, S))
  BY <1>3, <1>4, <1>5 DEF Bijection, Injection, Surjection, IsInjective
<1>7. ExistsBijection(1..Len(t), Places(s, S))
  BY <1>6 DEF ExistsBijection
<1>8. IsFiniteSet(Places(s, S)) /\ Cardinality(Places(s, S)) = Len(t)
  BY <1>2, <1>7, FS_NatBijection, FS_CountingElements
<1>9. Cardinality(Places(s, S)) <= Len(s)
  <2>1. IsFiniteSet(1..Len(s)) /\ Cardinality(1..Len(s)) = Len(s)
    <3>1. 1 \in Int /\ Len(s) \in Int
      BY <1>2
    <3>2. /\ IsFiniteSet(1..Len(s))
          /\ Cardinality(1..Len(s)) = IF 1 > Len(s) THEN 0 ELSE Len(s) - 1 + 1
      BY ONLY <3>1, FS_Interval
    <3> QED BY <1>2, <3>2
  <2>2. Places(s, S) \in SUBSET (1..Len(s))
    BY DEF Places
  <2> QED BY <2>1, <2>2, FS_Subset
<1> QED BY <1>2, <1>8, <1>9 DEF t

\* The fewer elements are wanted, the fewer are kept.
LEMMA OnlyInFewer ==
    ASSUME NEW T, NEW s \in Seq(T), NEW R, NEW S,
           \A k \in 1..Len(s) : s[k] \in R => s[k] \in S
    PROVE  Len(OnlyIn(s, R)) <= Len(OnlyIn(s, S))
<1>1. Places(s, R) \in SUBSET Places(s, S)
  BY DEF Places
<1> QED BY <1>1, OnlyInLength, FS_Subset

\* One element more is kept or not.
LEMMA OnlyInAppendIs ==
    ASSUME NEW T, NEW s \in Seq(T), NEW x \in T, NEW S
    PROVE  OnlyIn(Append(s, x), S) =
               IF x \in S THEN Append(OnlyIn(s, S), x) ELSE OnlyIn(s, S)
<1> DEFINE u == Append(s, x)
           n == Len(s)
<1>1. /\ n \in Nat /\ Len(u) = n + 1 /\ u[n + 1] = x
      /\ \A k \in 1..n : u[k] = s[k]
  OBVIOUS
<1> HIDE DEF u
<1>2. PICK f : Filters(s, S, n, f) /\ OnlyIn(s, S) = f[n]
  BY <1>1, OnlyInFilters
<1>3. PICK g : Filters(u, S, n + 1, g) /\ OnlyIn(u, S) = g[n + 1]
  <2>1. Len(u) \in Nat /\ Len(u) = n + 1
    BY <1>1
  <2> QED BY <2>1, OnlyInFilters
<1> HIDE DEF n
<1> DEFINE Same == {i \in 0..n : f[i] = g[i]}
<1>4. 0 \in Same
  <2>1. 0 \in 0..n /\ 0 \in 0..n+1
    BY <1>1
  <2>2. f[0] = <<>> /\ g[0] = <<>>
    BY <1>2, <1>3, <2>1 DEF Filters
  <2> QED BY <2>1, <2>2
<1>5. ASSUME NEW i \in 1..n, i - 1 \in Same PROVE i \in Same
  <2>1. i \in 0..n /\ i \in 0..n+1 /\ i # 0
    BY <1>1
  <2>2. f[i] = IF s[i] \in S THEN Append(f[i - 1], s[i]) ELSE f[i - 1]
    BY <1>2, <2>1 DEF Filters
  <2>3. g[i] = IF u[i] \in S THEN Append(g[i - 1], u[i]) ELSE g[i - 1]
    BY <1>3, <2>1 DEF Filters
  <2>4. f[i - 1] = g[i - 1] /\ u[i] = s[i]
    BY <1>1, <1>5
  <2> QED BY <2>1, <2>2, <2>3, <2>4
<1> HIDE DEF Same
<1>6. n \in Same
  <2>1. n \in Nat /\ n \in 0..n
    BY <1>1
  <2>2. \A i \in 0..n : i \in Same
    BY <1>4, <1>5, <2>1, CountUp
  <2> QED BY <2>1, <2>2
<1>7. f[n] = g[n]
  BY <1>6 DEF Same
<1>8. g[n + 1] = IF u[n + 1] \in S THEN Append(g[n], u[n + 1]) ELSE g[n]
  <2>1. n + 1 \in 0..n+1 /\ n + 1 # 0 /\ (n + 1) - 1 = n
    BY <1>1
  <2>2. g[n + 1] = IF u[n + 1] \in S THEN Append(g[(n + 1) - 1], u[n + 1])
                   ELSE g[(n + 1) - 1]
    BY <1>3, <2>1 DEF Filters
  <2> QED BY <2>1, <2>2
<1> QED BY <1>1, <1>2, <1>3, <1>7, <1>8 DEF u

LEMMA OnlyInAppend ==
    ASSUME NEW T, NEW s \in Seq(T), NEW x \in T, NEW S
    PROVE  Len(OnlyIn(Append(s, x), S)) <= Len(OnlyIn(s, S)) + 1
<1> DEFINE t == OnlyIn(s, S)
<1>1. t \in Seq(T)
  BY OnlyInKeeps
<1>2. OnlyIn(Append(s, x), S) \in {t, Append(t, x)}
  BY OnlyInAppendIs
<1> HIDE DEF t
<1>3. Len(t) \in Nat /\ Len(Append(t, x)) = Len(t) + 1
  BY <1>1
<1> QED BY <1>2, <1>3 DEF t
=============================================================================
