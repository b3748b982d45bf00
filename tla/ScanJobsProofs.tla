----------------------------- MODULE ScanJobsProofs -----------------------------
(* The pool of ScanJobs and what it reports, for all requests, outputs and numbers *)
(* of threads.                                                                     *)
EXTENDS ScanJobs, CollectorProofs, SequenceTheorems

-------------------------------------------------------------------------------
(* ScanJobs: lists in which each element is kept once.                             *)

\* What starts at base and takes each step from where it is, is their run.
LEMMA StepsAreRun ==
    ASSUME NEW n \in Nat, NEW D, NEW base \in D, NEW step \in [1..n -> [D -> D]],
           NEW g, g = [i \in 0..n |-> g[i]], g[0] = base,
           \A i \in 1..n : g[i - 1] \in D => g[i] = step[i][g[i - 1]]
    PROVE  g \in Runs(n, D, base, step)
<1> DEFINE T == {i \in 0..n : g[i] \in D}
<1>1. 0 \in T
  OBVIOUS
<1>2. ASSUME NEW i \in 1..n, i - 1 \in T PROVE i \in T
  <2>1. g[i] = step[i][g[i - 1]] /\ g[i - 1] \in D /\ step[i] \in [D -> D]
    BY <1>2
  <2> QED
    BY <2>1
<1>3. \A i \in 0..n : i \in T
  <2> HIDE DEF T
  <2> QED
    BY <1>1, <1>2, Induct
<1>4. g \in [0..n -> D]
  BY <1>3
<1>5. \A i \in 1..n : g[i - 1] \in D
  BY <1>3
<1> QED
  BY <1>4, <1>5 DEF Runs

\* Named, one element after the other.
LEMMA NamedSteps ==
    ASSUME NEW S, NEW seq \in Seq(S)
    PROVE  \E f \in [0..Len(seq) -> Seq(S)] :
               /\ f[0] = <<>>
               /\ \A i \in 1..Len(seq) : f[i] = KeepNamed(f[i - 1], seq[i])
               /\ Named(seq) = f[Len(seq)]
<1> DEFINE n == Len(seq)
           D == Seq(S)
           step == [i \in 1..n |-> [kept \in D |-> KeepNamed(kept, seq[i])]]
           Steps(f) == f = [i \in 0..n |-> IF i = 0 THEN <<>> ELSE KeepNamed(f[i - 1], seq[i])]
<1>1. n \in Nat /\ <<>> \in D
  OBVIOUS
<1>2. step \in [1..n -> [D -> D]]
  <2>1. ASSUME NEW i \in 1..n, NEW kept \in D PROVE KeepNamed(kept, seq[i]) \in D
    <3>1. seq[i] \in S /\ Append(kept, seq[i]) \in Seq(S) /\ kept \in Seq(S)
      OBVIOUS
    <3> QED
      BY <3>1 DEF KeepNamed
  <2> HIDE DEF D
  <2> QED
    BY <2>1
<1>3. PICK f \in Runs(n, D, <<>>, step) : TRUE
  <2> HIDE DEF D, n, step
  <2> QED
    BY <1>1, <1>2, Recursion
<1> HIDE DEF n
<1>4. /\ f \in [0..n -> D] /\ f[0] = <<>>
      /\ \A i \in 1..n : f[i] = step[i][f[i - 1]] /\ f[i - 1] \in D
  <2> HIDE DEF D, step
  <2> QED
    BY <1>1, <1>3 DEF Runs
<1>5. Steps(f)
  <2> HIDE DEF D
  <2>1. \A i \in 0..n : f[i] = IF i = 0 THEN <<>> ELSE KeepNamed(f[i - 1], seq[i])
    BY <1>4
  <2> QED
    BY <1>1, <1>4, <2>1
<1> DEFINE g == CHOOSE h : Steps(h)
<1>6. Steps(g)
  BY <1>5
<1>7. Named(seq) = g[n]
  BY DEF Named, n
<1>8. \A i \in 0..n : g[i] = IF i = 0 THEN <<>> ELSE KeepNamed(g[i - 1], seq[i])
  BY <1>6, Zenon
<1>9. g = [i \in 0..n |-> g[i]]
  BY <1>6
<1> HIDE DEF g
<1>10. g[0] = <<>> /\ \A i \in 1..n : g[i] = KeepNamed(g[i - 1], seq[i])
  BY <1>1, <1>8
<1>11. \A i \in 1..n : g[i - 1] \in D => g[i] = step[i][g[i - 1]]
  <2> HIDE DEF D
  <2> QED
    BY <1>10
<1>12. g \in Runs(n, D, <<>>, step)
  <2> HIDE DEF D, step
  <2> QED
    BY <1>1, <1>2, <1>9, <1>10, <1>11, StepsAreRun
<1>13. g \in [0..n -> D]
  BY <1>12 DEF Runs
<1> QED
  BY <1>7, <1>10, <1>13 DEF n

\* Distinct, one element after the other.
LEMMA DistinctSteps ==
    ASSUME NEW S, NEW seq \in Seq(S)
    PROVE  \E f \in [0..Len(seq) -> Seq(S)] :
               /\ f[0] = <<>>
               /\ \A i \in 1..Len(seq) : f[i] = KeepNew(f[i - 1], seq[i])
               /\ Distinct(seq) = f[Len(seq)]
<1> DEFINE n == Len(seq)
           D == Seq(S)
           step == [i \in 1..n |-> [kept \in D |-> KeepNew(kept, seq[i])]]
           Steps(f) == f = [i \in 0..n |-> IF i = 0 THEN <<>> ELSE KeepNew(f[i - 1], seq[i])]
<1>1. n \in Nat /\ <<>> \in D
  OBVIOUS
<1>2. step \in [1..n -> [D -> D]]
  <2>1. ASSUME NEW i \in 1..n, NEW kept \in D PROVE KeepNew(kept, seq[i]) \in D
    BY DEF KeepNew
  <2> HIDE DEF D
  <2> QED
    BY <2>1
<1>3. PICK f \in Runs(n, D, <<>>, step) : TRUE
  <2> HIDE DEF D, n, step
  <2> QED
    BY <1>1, <1>2, Recursion
<1> HIDE DEF n
<1>4. /\ f \in [0..n -> D] /\ f[0] = <<>>
      /\ \A i \in 1..n : f[i] = step[i][f[i - 1]] /\ f[i - 1] \in D
  <2> HIDE DEF D, step
  <2> QED
    BY <1>1, <1>3 DEF Runs
<1>5. Steps(f)
  <2> HIDE DEF D
  <2>1. \A i \in 0..n : f[i] = IF i = 0 THEN <<>> ELSE KeepNew(f[i - 1], seq[i])
    BY <1>4
  <2> QED
    BY <1>1, <1>4, <2>1
<1> DEFINE g == CHOOSE h : Steps(h)
<1>6. Steps(g)
  BY <1>5
<1>7. Distinct(seq) = g[n]
  BY DEF Distinct, n
<1>8. \A i \in 0..n : g[i] = IF i = 0 THEN <<>> ELSE KeepNew(g[i - 1], seq[i])
  BY <1>6, Zenon
<1>9. g = [i \in 0..n |-> g[i]]
  BY <1>6
<1> HIDE DEF g
<1>10. g[0] = <<>> /\ \A i \in 1..n : g[i] = KeepNew(g[i - 1], seq[i])
  BY <1>1, <1>8
<1>11. \A i \in 1..n : g[i - 1] \in D => g[i] = step[i][g[i - 1]]
  <2> HIDE DEF D
  <2> QED
    BY <1>10
<1>12. g \in Runs(n, D, <<>>, step)
  <2> HIDE DEF D, step
  <2> QED
    BY <1>1, <1>2, <1>9, <1>10, <1>11, StepsAreRun
<1>13. g \in [0..n -> D]
  BY <1>12 DEF Runs
<1> QED
  BY <1>7, <1>10, <1>13 DEF n

\* A list without the targets that have no host is a list.
LEMMA NamedIsSequence ==
    ASSUME NEW S, NEW seq \in Seq(S) PROVE Named(seq) \in Seq(S)
<1>1. PICK f \in [0..Len(seq) -> Seq(S)] : Named(seq) = f[Len(seq)]
  BY NamedSteps
<1>2. Len(seq) \in 0..Len(seq)
  OBVIOUS
<1> QED
  BY <1>1, <1>2

\* The first n elements of seq, each of them once; all of them when they are different.
AreFirst(kept, seq, n) ==
    /\ IsInjective(kept)
    /\ {kept[i] : i \in DOMAIN kept} = {seq[i] : i \in 1..n}
    /\ IsInjective(seq) => Len(kept) = n /\ \A i \in 1..n : kept[i] = seq[i]

\* One more element, unless it is there.
LEMMA KeepNewIsNext ==
    ASSUME NEW S, NEW seq \in Seq(S), NEW n \in 1..Len(seq), NEW kept \in Seq(S),
           AreFirst(kept, seq, n - 1)
    PROVE  AreFirst(KeepNew(kept, seq[n]), seq, n)
<1> DEFINE x == seq[n]
<1>1. {seq[i] : i \in 1..n} = {seq[i] : i \in 1..n - 1} \cup {x}
  <2>1. 1..n = 1..(n - 1) \cup {n}
    OBVIOUS
  <2> QED
    BY <2>1
<1>2. CASE Contains(kept, x)
  <2>1. KeepNew(kept, x) = kept
    BY <1>2 DEF KeepNew
  <2>2. PICK k \in 1..Len(kept) : kept[k] = x
    BY <1>2 DEF Contains
  <2>3. ~IsInjective(seq)
    <3>1. SUFFICES ASSUME IsInjective(seq) PROVE FALSE
      OBVIOUS
    <3>2. k \in 1..n - 1 /\ seq[k] = x /\ k # n /\ k \in DOMAIN seq /\ n \in DOMAIN seq
      BY <2>2, <3>1 DEF AreFirst
    <3> QED
      BY <3>1, <3>2 DEF IsInjective
  <2>4. x \in {kept[i] : i \in DOMAIN kept}
    BY <2>2
  <2> QED
    BY <1>1, <2>1, <2>3, <2>4 DEF AreFirst
<1>3. CASE ~Contains(kept, x)
  <2> DEFINE more == Append(kept, x)
  <2>1. KeepNew(kept, x) = more
    BY <1>3 DEF KeepNew
  <2>2. /\ DOMAIN more = 1..Len(kept) + 1 /\ Len(more) = Len(kept) + 1
        /\ more[Len(kept) + 1] = x /\ \A i \in 1..Len(kept) : more[i] = kept[i]
    OBVIOUS
  <2>3. \A i \in 1..Len(kept) : kept[i] # x
    BY <1>3 DEF Contains
  <2>4. \A i \in DOMAIN more : i \in 1..Len(kept) \/ i = Len(kept) + 1
    BY <2>2
  <2>5. Len(kept) + 1 \in DOMAIN more /\ 1..Len(kept) \subseteq DOMAIN more /\ DOMAIN kept = 1..Len(kept)
    BY <2>2
  <2> HIDE DEF more
  <2>6. IsInjective(more)
    <3>1. ASSUME NEW i \in DOMAIN more, NEW j \in DOMAIN more, more[i] = more[j] PROVE i = j
      BY <2>2, <2>3, <2>4, <2>5, <3>1 DEF AreFirst, IsInjective
    <3> QED
      BY <3>1 DEF IsInjective
  <2>7. {more[i] : i \in DOMAIN more} = {kept[i] : i \in DOMAIN kept} \cup {x}
    BY <2>2, <2>4, <2>5
  <2>8. ASSUME IsInjective(seq) PROVE Len(more) = n /\ \A i \in 1..n : more[i] = seq[i]
    <3>1. Len(kept) = n - 1 /\ \A i \in 1..n - 1 : kept[i] = seq[i]
      BY <2>8 DEF AreFirst
    <3>2. \A i \in 1..n : i \in 1..n - 1 \/ i = n
      OBVIOUS
    <3> QED
      BY <2>2, <3>1, <3>2
  <2> QED
    <3>1. {more[i] : i \in DOMAIN more} = {seq[i] : i \in 1..n}
      BY <1>1, <2>7 DEF AreFirst
    <3>2. AreFirst(more, seq, n)
      BY <2>6, <2>8, <3>1 DEF AreFirst
    <3> QED
      BY <2>1, <3>2
<1> QED
  BY <1>2, <1>3

\* Every element is kept, once, and a list of different ones stays as it is.
LEMMA DistinctIsOnce ==
    ASSUME NEW S, NEW seq \in Seq(S)
    PROVE  Distinct(seq) \in Seq(S) /\ AreFirst(Distinct(seq), seq, Len(seq))
<1> DEFINE n == Len(seq)
<1>1. PICK f \in [0..n -> Seq(S)] :
               /\ f[0] = <<>>
               /\ \A i \in 1..n : f[i] = KeepNew(f[i - 1], seq[i])
               /\ Distinct(seq) = f[n]
  BY DistinctSteps
<1>2. n \in Nat /\ n \in 0..n
  OBVIOUS
<1> DEFINE T == {i \in 0..n : AreFirst(f[i], seq, i)}
<1>3. 0 \in T
  BY <1>1, <1>2 DEF AreFirst, IsInjective
<1>4. ASSUME NEW i \in 1..n, i - 1 \in T PROVE i \in T
  <2>1. AreFirst(f[i - 1], seq, i - 1) /\ f[i - 1] \in Seq(S)
    BY <1>4
  <2>2. AreFirst(KeepNew(f[i - 1], seq[i]), seq, i)
    BY <2>1, KeepNewIsNext
  <2> QED
    BY <1>1, <2>2
<1>5. \A i \in 0..n : i \in T
  <2> HIDE DEF T, n
  <2> QED
    BY <1>2, <1>3, <1>4, Induct
<1> QED
  BY <1>1, <1>2, <1>5

-------------------------------------------------------------------------------
(* Sorting by ranks.                                                               *)

\* A strict order of S in which any two can be compared.
IsOrder(less, S) ==
    /\ less \subseteq S \X S
    /\ \A j \in S : <<j, j>> \notin less
    /\ \A j, k \in S : j # k => <<j, k>> \in less \/ <<k, j>> \in less
    /\ \A j, k, l \in S : <<j, k>> \in less /\ <<k, l>> \in less => <<j, l>> \in less

Below(k, less, S) == {j \in S : <<j, k>> \in less}

EachRank(less, S) ==
    \A i \in 1..Cardinality(S) : \E k \in S : Cardinality(Below(k, less, S)) = i - 1

\* The numbers of those below tell the elements of a finite set apart, in their order,
\* and each number there may be is one's.
LEMMA Ranks ==
    ASSUME NEW S, IsFiniteSet(S), NEW less, IsOrder(less, S)
    PROVE  /\ \A k \in S : Cardinality(Below(k, less, S)) \in 0..Cardinality(S) - 1
           /\ \A j, k \in S : Cardinality(Below(j, less, S)) < Cardinality(Below(k, less, S))
                                  <=> <<j, k>> \in less
           /\ \A j, k \in S :
                  Cardinality(Below(j, less, S)) = Cardinality(Below(k, less, S)) => j = k
           /\ EachRank(less, S)
<1> DEFINE n == Cardinality(S)
           below(k) == Below(k, less, S)
           rank(k) == Cardinality(below(k))
           f == [k \in S |-> rank(k)]
<1>1. n \in Nat
  BY FS_CardinalityType
<1>2. ASSUME NEW k \in S PROVE IsFiniteSet(below(k)) /\ rank(k) \in 0..n - 1
  <2>1. below(k) \in SUBSET (S \ {k})
    BY DEF IsOrder, Below
  <2>2. IsFiniteSet(S \ {k}) /\ Cardinality(S \ {k}) = n - 1
    BY FS_RemoveElement
  <2> HIDE DEF below
  <2>3. IsFiniteSet(below(k)) /\ Cardinality(below(k)) <= n - 1
    BY <2>1, <2>2, FS_Subset
  <2>4. Cardinality(below(k)) \in Nat
    BY <2>3, FS_CardinalityType
  <2> QED
    BY <1>1, <2>3, <2>4
<1>3. ASSUME NEW j \in S, NEW k \in S, <<j, k>> \in less PROVE rank(j) < rank(k)
  <2>1. j \notin below(j) /\ below(j) \cup {j} \in SUBSET below(k)
    <3>1. j \notin below(j) /\ j \in below(k)
      BY <1>3 DEF IsOrder, Below
    <3>2. \A l \in S : <<l, j>> \in less => <<l, k>> \in less
      BY <1>3 DEF IsOrder
    <3> QED
      BY <3>1, <3>2 DEF Below
  <2> HIDE DEF below
  <2>2. Cardinality(below(j) \cup {j}) = Cardinality(below(j)) + 1
    BY <1>2, <2>1, FS_AddElement
  <2>3. Cardinality(below(j) \cup {j}) <= Cardinality(below(k))
    BY <1>2, <2>1, FS_Subset
  <2> QED
    BY <1>1, <1>2, <2>2, <2>3
<1>4. ASSUME NEW j \in S, NEW k \in S, j # k PROVE rank(j) < rank(k) \/ rank(k) < rank(j)
  <2>1. <<j, k>> \in less \/ <<k, j>> \in less
    BY <1>4 DEF IsOrder
  <2> HIDE DEF rank
  <2> QED
    BY <1>3, <2>1
<1> HIDE DEF rank
<1>5. \A j, k \in S : rank(j) = rank(k) => j = k
  <2>1. SUFFICES ASSUME NEW j \in S, NEW k \in S, rank(j) = rank(k), j # k PROVE FALSE
    OBVIOUS
  <2>2. rank(j) \in Int /\ rank(k) \in Int
    BY <1>1, <1>2
  <2> QED
    BY <1>4, <2>1, <2>2
<1>6. \A j, k \in S : rank(j) < rank(k) <=> <<j, k>> \in less
  <2>1. SUFFICES ASSUME NEW j \in S, NEW k \in S, rank(j) < rank(k), <<j, k>> \notin less
                 PROVE  FALSE
    BY <1>3
  <2>2. rank(j) \in Int /\ rank(k) \in Int
    BY <1>1, <1>2
  <2>3. j # k
    BY <2>1, <2>2
  <2>4. <<k, j>> \in less
    BY <2>1, <2>3 DEF IsOrder
  <2>5. rank(k) < rank(j)
    BY <1>3, <2>4
  <2> QED
    BY <2>1, <2>2, <2>5
<1>7. f \in Injection(S, 0..n - 1)
  <2>1. f \in [S -> 0..n - 1]
    BY <1>2
  <2>2. IsInjective(f)
    BY <1>5 DEF IsInjective
  <2> QED
    BY <2>1, <2>2 DEF Injection
<1>8. IsFiniteSet(0..n - 1) /\ Cardinality(0..n - 1) = n
  <2>1. 0 \in Int /\ n - 1 \in Int
    BY <1>1
  <2> QED
    BY <1>1, <2>1, FS_Interval
<1>9. f \in Surjection(S, 0..n - 1)
  <2> HIDE DEF f
  <2> QED
    BY <1>7, <1>8, FS_Injection
<1>10. \A i \in 1..n : \E k \in S : rank(k) = i - 1
  <2>1. ASSUME NEW i \in 1..n PROVE \E k \in S : rank(k) = i - 1
    <3>1. i - 1 \in 0..n - 1
      BY <1>1
    <3>2. PICK k \in S : f[k] = i - 1
      BY <1>9, <3>1 DEF Surjection
    <3> QED
      BY <3>2
  <2> QED
    BY <2>1
<1> QED
  BY <1>2, <1>5, <1>6, <1>10 DEF rank, EachRank

\* A finite set in an order: each element once, one before another as the order has it.
LEMMA InOrderSorts ==
    ASSUME NEW S, IsFiniteSet(S), NEW before, IsOrder(before, S)
    PROVE  /\ InOrder(S, before) \in Seq(S) /\ Len(InOrder(S, before)) = Cardinality(S)
           /\ IsInjective(InOrder(S, before))
           /\ {InOrder(S, before)[i] : i \in DOMAIN InOrder(S, before)} = S
           /\ \A i, j \in DOMAIN InOrder(S, before) :
                  i < j => <<InOrder(S, before)[i], InOrder(S, before)[j]>> \in before
<1> DEFINE n == Cardinality(S)
           rank(k) == Cardinality(Below(k, before, S))
           s == InOrder(S, before)
<1>1. n \in Nat
  BY FS_CardinalityType
<1>2. \A i \in 1..n : \E k \in S : rank(k) = i - 1
  <2>1. EachRank(before, S)
    BY Ranks
  <2> QED
    BY <2>1 DEF EachRank
<1>3. \A k \in S : rank(k) \in 0..n - 1
  BY Ranks
<1>4. \A j, k \in S : rank(j) = rank(k) => j = k
  BY Ranks
<1>5. \A j, k \in S : rank(j) < rank(k) <=> <<j, k>> \in before
  BY Ranks
<1>6. s = [i \in 1..n |-> CHOOSE k \in S : rank(k) = i - 1]
  BY DEF InOrder, Below
<1> HIDE DEF rank, s
<1>7. ASSUME NEW i \in 1..n PROVE s[i] \in S /\ rank(s[i]) = i - 1
  <2>1. s[i] = CHOOSE k \in S : rank(k) = i - 1
    BY <1>6
  <2>2. \E k \in S : rank(k) = i - 1
    BY <1>2
  <2> QED
    BY <2>1, <2>2
<1>8. s \in [1..n -> S]
  BY <1>6, <1>7
<1> HIDE DEF n
<1>9. s \in Seq(S) /\ Len(s) = n /\ DOMAIN s = 1..n
  BY <1>1, <1>8
<1>10. \A i, j \in 1..n : i < j => <<s[i], s[j]>> \in before
  <2>1. ASSUME NEW i \in 1..n, NEW j \in 1..n, i < j PROVE <<s[i], s[j]>> \in before
    <3>1. rank(s[i]) < rank(s[j]) /\ s[i] \in S /\ s[j] \in S
      BY <1>1, <1>7, <2>1
    <3> QED
      BY <1>5, <3>1
  <2> QED
    BY <2>1
<1>11. IsInjective(s)
  <2>1. ASSUME NEW i \in 1..n, NEW j \in 1..n, s[i] = s[j] PROVE i = j
    <3>1. i - 1 = j - 1
      BY <1>7, <2>1
    <3> QED
      BY <1>1, <3>1
  <2> QED
    BY <1>9, <2>1 DEF IsInjective
<1>12. \A k \in S : \E i \in 1..n : s[i] = k
  <2>1. ASSUME NEW k \in S PROVE \E i \in 1..n : s[i] = k
    <3> DEFINE i == rank(k) + 1
    <3>1. i \in 1..n /\ i - 1 = rank(k)
      BY <1>1, <1>3
    <3>2. s[i] \in S /\ rank(s[i]) = rank(k)
      BY <1>7, <3>1
    <3>3. s[i] = k
      BY <1>4, <3>2
    <3> QED
      BY <3>1, <3>3
  <2> QED
    BY <2>1
<1> QED
  BY <1>7, <1>9, <1>10, <1>11, <1>12 DEF n, s

\* In ascending order.
IsIncreasing(s) == \A i, j \in DOMAIN s : i < j => s[i] < s[j]

\* sorted() of a set of numbers has each of them, in order (ports.py:59-76).
LEMMA AscendingIsSorted ==
    ASSUME NEW S \in SUBSET Int, IsFiniteSet(S)
    PROVE  /\ Ascending(S) \in Seq(S) /\ Len(Ascending(S)) = Cardinality(S)
           /\ IsIncreasing(Ascending(S)) /\ IsInjective(Ascending(S))
           /\ {Ascending(S)[i] : i \in DOMAIN Ascending(S)} = S
<1> DEFINE before == {p \in S \X S : p[1] < p[2]}
           s == Ascending(S)
<1>1. IsOrder(before, S)
  BY DEF IsOrder
<1>2. s = InOrder(S, before)
  BY DEF Ascending
<1>3. \A j, k \in S : <<j, k>> \in before => j < k
  OBVIOUS
<1> HIDE DEF before, s
<1>4. /\ s \in Seq(S) /\ Len(s) = Cardinality(S) /\ IsInjective(s)
      /\ {s[i] : i \in DOMAIN s} = S
      /\ \A i, j \in DOMAIN s : i < j => <<s[i], s[j]>> \in before
  BY <1>1, <1>2, InOrderSorts
<1>5. IsIncreasing(s)
  <2>1. \A i \in DOMAIN s : s[i] \in S
    BY <1>4
  <2> QED
    BY <1>3, <1>4, <2>1 DEF IsIncreasing
<1> QED
  BY <1>4, <1>5 DEF s

\* The report of a scan has what has ended, sorted by the port.
LEMMA ByPortIsSorted ==
    ASSUME NEW E, ended \in Seq(E), \A i \in DOMAIN ended : ended[i].job \in Int
    PROVE  /\ ByPort \in Seq(E)
           /\ {ByPort[i] : i \in DOMAIN ByPort} = {ended[i] : i \in DOMAIN ended}
           /\ Once(ended) => \A i, j \in DOMAIN ByPort : i < j => ByPort[i].job < ByPort[j].job
<1> DEFINE n == Len(ended)
           D == DOMAIN ended
           less == {p \in D \X D : \/ ended[p[1]].job < ended[p[2]].job
                                   \/ ended[p[1]].job = ended[p[2]].job /\ p[1] < p[2]}
           rank(k) == Cardinality(Before(k))
           s == ByPort
<1>1. n \in Nat /\ D = 1..n
  OBVIOUS
<1>2. IsFiniteSet(D) /\ Cardinality(D) = n
  <2>1. 1 \in Int /\ n \in Int
    BY <1>1
  <2> HIDE DEF n, D
  <2>2. IsFiniteSet(1..n) /\ Cardinality(1..n) = IF 1 > n THEN 0 ELSE n - 1 + 1
    BY <2>1, FS_Interval
  <2> QED
    BY <1>1, <2>2
<1>3. IsOrder(less, D)
  <2> HIDE DEF D
  <2>1. \A j \in D : j \in Int /\ ended[j].job \in Int
    BY <1>1
  <2>2. \A i \in D : <<i, i>> \notin less
    BY <2>1
  <2>3. \A i, j \in D : i # j => <<i, j>> \in less \/ <<j, i>> \in less
    BY <2>1
  <2>4. \A i, j, k \in D : <<i, j>> \in less /\ <<j, k>> \in less => <<i, k>> \in less
    BY <2>1
  <2>5. less \subseteq D \X D
    OBVIOUS
  <2> HIDE DEF less
  <2> QED
    BY <2>2, <2>3, <2>4, <2>5 DEF IsOrder
<1>4. ASSUME NEW k \in D PROVE Below(k, less, D) = Before(k)
  BY DEF Below, Before
<1> HIDE DEF less, D
<1>5. \A i \in 1..n : \E k \in D : rank(k) = i - 1
  <2>1. EachRank(less, D)
    BY <1>2, <1>3, Ranks
  <2> QED
    BY <1>2, <1>4, <2>1 DEF EachRank
<1>6. \A k \in D : rank(k) \in 0..n - 1
  <2>1. \A k \in D : Cardinality(Below(k, less, D)) \in 0..n - 1
    BY <1>2, <1>3, Ranks
  <2> QED
    BY <1>4, <2>1
<1>7. \A j, k \in D : rank(j) = rank(k) => j = k
  <2>1. \A j, k \in D :
            Cardinality(Below(j, less, D)) = Cardinality(Below(k, less, D)) => j = k
    BY <1>2, <1>3, Ranks
  <2> QED
    BY <1>4, <2>1
<1>8. \A j, k \in D : rank(j) < rank(k) <=> <<j, k>> \in less
  <2>1. \A j, k \in D : Cardinality(Below(j, less, D)) < Cardinality(Below(k, less, D))
                            <=> <<j, k>> \in less
    BY <1>2, <1>3, Ranks
  <2> QED
    BY <1>4, <2>1
<1> DEFINE at(i) == CHOOSE k \in D : rank(k) = i - 1
<1>9. s = [i \in D |-> ended[at(i)]]
  BY DEF ByPort, D
<1> HIDE DEF rank
<1>10. ASSUME NEW i \in D PROVE at(i) \in D /\ rank(at(i)) = i - 1
  <2>1. \E k \in D : rank(k) = i - 1
    BY <1>1, <1>5
  <2> QED
    BY <2>1
<1> HIDE DEF at, s, n
<1>11. \A i \in D : at(i) \in D /\ rank(at(i)) = i - 1 /\ s[i] = ended[at(i)]
  BY <1>9, <1>10
<1>12. \A i \in D : ended[i] \in E
  BY DEF D
<1>13. s \in [1..n -> E]
  BY <1>1, <1>9, <1>11, <1>12
<1>14. s \in Seq(E) /\ DOMAIN s = D
  BY <1>1, <1>13
<1>15. \A k \in D : \E i \in D : at(i) = k
  <2>1. ASSUME NEW k \in D PROVE \E i \in D : at(i) = k
    <3> DEFINE i == rank(k) + 1
    <3>1. i \in D /\ i - 1 = rank(k)
      BY <1>1, <1>6
    <3>2. at(i) \in D /\ rank(at(i)) = rank(k)
      BY <1>11, <3>1
    <3>3. at(i) = k
      BY <1>7, <3>2
    <3> QED
      BY <3>1, <3>3
  <2> QED
    BY <2>1
<1>16. {s[i] : i \in DOMAIN s} = {ended[i] : i \in D}
  <2>1. ASSUME NEW i \in D PROVE \E k \in D : s[i] = ended[k]
    BY <1>11
  <2>2. ASSUME NEW k \in D PROVE \E i \in D : s[i] = ended[k]
    BY <1>11, <1>15
  <2>3. {s[i] : i \in D} = {ended[i] : i \in D}
    <3> HIDE DEF D, s
    <3>1. {s[i] : i \in D} \subseteq {ended[i] : i \in D}
      BY <2>1
    <3>2. {ended[i] : i \in D} \subseteq {s[i] : i \in D}
      BY <2>2
    <3> QED
      BY <3>1, <3>2
  <2> QED
    BY <1>14, <2>3
<1>17. ASSUME Once(ended), NEW i \in D, NEW j \in D, i < j PROVE s[i].job < s[j].job
  <2>1. rank(at(i)) < rank(at(j))
    BY <1>1, <1>11, <1>17
  <2>2. <<at(i), at(j)>> \in less
    BY <1>8, <1>11, <2>1
  <2>3. \/ ended[at(i)].job < ended[at(j)].job
        \/ ended[at(i)].job = ended[at(j)].job /\ at(i) < at(j)
    BY <2>2 DEF less
  <2>4. at(i) \in D /\ at(j) \in D /\ (at(i) < at(j) => at(i) # at(j))
    <3>1. at(i) \in D /\ at(j) \in D
      BY <1>11
    <3>2. at(i) \in Int /\ at(j) \in Int
      BY <1>1, <3>1
    <3> QED
      BY <3>1, <3>2
  <2>5. ended[at(i)].job = ended[at(j)].job => at(i) = at(j)
    BY <1>17, <2>4 DEF Once, D
  <2> QED
    BY <1>11, <2>3, <2>4, <2>5
<1> QED
  BY <1>14, <1>16, <1>17 DEF s, D

\* A quotient and its remainder.
LEMMA Divided ==
    ASSUME NEW a \in Int, NEW d \in Int, d > 0
    PROVE  a \div d \in Int /\ d * (a \div d) <= a /\ a < d * (a \div d) + d
BY SMT

\* What ping prints of the loss, in four decimals of a percent, is the number of packets
\* it has received, as long as these are no more than such a number tells apart
\* (collectors/ping.py:76-81).
THEOREM LossTellsReceived ==
    ASSUME PingCount <= AllLost, NEW received \in 0..PingCount
    PROVE  Received(PingCount, Printed(PingCount, received)) = received
<1> DEFINE c == PingCount
           h == c \div 2
           a == AllLost * (c - received) + h
           q == a \div c
           p == c * q
           x == c * (AllLost - q) + AllLost \div 2
<1>1. c \in Int /\ c > 0 /\ c <= 1000000 /\ received \in Int /\ AllLost = 1000000
  BY JobsAssumption DEF AllLost
<1>2. AllLost \div 2 = 500000
  BY <1>1
<1>3. h \in Int /\ 2 * h <= c /\ c < 2 * h + 2
  BY <1>1
<1>4. Printed(PingCount, received) = q /\ Received(PingCount, q) = x \div AllLost
  BY DEF Printed, Received
<1> HIDE DEF c, h
<1>5. a \in Int /\ a = 1000000 * c - 1000000 * received + h
  BY <1>1, <1>3
<1> HIDE DEF a
<1>6. q \in Int /\ c * q <= a /\ a < c * q + c
  BY <1>1, <1>5, Divided
<1> HIDE DEF q
<1>7. p \in Int /\ p <= a /\ a < p + c
  BY <1>1, <1>6
<1>8. x = 1000000 * c - p + 500000
  BY <1>1, <1>2, <1>6
<1> HIDE DEF p
<1>9. x \in Int /\ 1000000 * received <= x /\ x < 1000000 * received + 1000000
  BY <1>1, <1>3, <1>5, <1>7, <1>8
<1> HIDE DEF x
<1>10. x \div 1000000 = received
  BY <1>1, <1>9
<1> QED
  BY <1>1, <1>4, <1>10

-------------------------------------------------------------------------------
(* The jobs of a request: a list, and where several threads take them no job twice. *)

\* A list, of whatever.
IsSequence(s) == s \in Seq(Range(s))

\* A list of anything is a list.
LEMMA AreSequences ==
    ASSUME NEW S, NEW s \in Seq(S) PROVE IsSequence(s)
BY SeqOfRange DEF IsSequence

\* So is what is given a value at each place up to n.
LEMMA Listed ==
    ASSUME NEW n \in Nat, NEW s, DOMAIN s = 1..n, s = [i \in 1..n |-> s[i]] PROVE IsSequence(s)
BY DEF IsSequence, Range

\* So are two lists in a row.
LEMMA Joined ==
    ASSUME NEW s, NEW t, IsSequence(s), IsSequence(t) PROVE IsSequence(s \o t)
<1> DEFINE S == Range(s) \cup Range(t)
<1>1. s \in Seq(S) /\ t \in Seq(S)
  BY SeqMonotonic DEF IsSequence
<1>2. s \o t \in Seq(S)
  BY <1>1
<1> QED
  BY <1>2, AreSequences

\* So is one that has lost the elements without a host.
LEMMA NamedList ==
    ASSUME NEW s, IsSequence(s) PROVE IsSequence(Named(s))
BY NamedIsSequence, AreSequences DEF IsSequence

\* seq[:n] begins as seq does.
LEMMA UpToIsPrefix ==
    ASSUME NEW S, NEW s \in Seq(S), NEW n \in Nat
    PROVE  /\ UpTo(n, s) \in Seq(S) /\ Len(UpTo(n, s)) <= Len(s)
           /\ \A i \in DOMAIN UpTo(n, s) : UpTo(n, s)[i] = s[i] /\ i \in DOMAIN s
BY DEF UpTo

\* The targets of a ping request are a list (ping/service.py:61-109, 154-160).
LEMMA TargetsAreSequence ==
    ASSUME NEW r \in Requests, Pings(r) PROVE IsSequence(Targets(r))
<1>1. r.custom \in Seq(STRING) /\ r.hosts \in Seq(STRING)
  BY RequestsAssumption
<1>2. IsSequence(CustomTargets(r.custom, r.gateway))
  <2> DEFINE u == UpTo(4, r.custom)
             s == [i \in DOMAIN u |-> Target("Custom", ResolveHost(r.custom[i], r.gateway), "custom")]
  <2>1. u \in Seq(STRING)
    BY <1>1, UpToIsPrefix
  <2>2. IsSequence(s)
    <3>1. Len(u) \in Nat /\ DOMAIN s = 1..Len(u)
      BY <2>1
    <3> HIDE DEF u
    <3>2. s = [i \in 1..Len(u) |-> s[i]]
      BY <3>1
    <3> HIDE DEF s
    <3> QED
      BY <3>1, <3>2, Listed
  <2>3. CustomTargets(r.custom, r.gateway) = Named(s)
    BY DEF CustomTargets
  <2> HIDE DEF s
  <2> QED
    BY <2>2, <2>3, NamedList
<1>3. IsSequence(LiveTargets(r.hosts, r.gateway))
  <2> DEFINE u == UpTo(3, r.hosts)
             s == [i \in DOMAIN u |->
                      Target(i, IF ResolveHost(r.hosts[i], r.gateway) = "" THEN r.hosts[i]
                                ELSE ResolveHost(r.hosts[i], r.gateway), "live")]
  <2>1. u \in Seq(STRING)
    BY <1>1, UpToIsPrefix
  <2>2. IsSequence(s)
    <3>1. Len(u) \in Nat /\ DOMAIN s = 1..Len(u)
      BY <2>1
    <3> HIDE DEF u
    <3>2. s = [i \in 1..Len(u) |-> s[i]]
      BY <3>1
    <3> HIDE DEF s
    <3> QED
      BY <3>1, <3>2, Listed
  <2>3. LiveTargets(r.hosts, r.gateway) = Named(s)
    BY DEF LiveTargets
  <2> HIDE DEF s
  <2> QED
    BY <2>2, <2>3, NamedList
<1>4. IsSequence(AdhocTargets(r.adhoc))
  <2> DEFINE t == Target("Adhoc", r.adhoc, "adhoc")
  <2>1. <<>> \in Seq({t}) /\ <<t>> \in Seq({t})
    OBVIOUS
  <2>2. AdhocTargets(r.adhoc) \in Seq({t})
    BY <2>1 DEF AdhocTargets
  <2> QED
    BY <2>2, AreSequences
<1>5. IsSequence(Builtin)
  <2> DEFINE t == Target("Google DNS", "8.8.8.8", "builtin")
             u == Target("Cloudflare", "1.1.1.1", "builtin")
  <2>1. Builtin = <<t, u>>
    BY DEF Builtin
  <2>2. <<t, u>> \in Seq({t, u})
    OBVIOUS
  <2> QED
    BY <2>1, <2>2, AreSequences
<1>6. IsSequence(BuildPingTargets(r))
  BY <1>2, <1>4, <1>5, Joined DEF BuildPingTargets
<1>7. IsSequence(BuildPingTargets(r) \o LiveTargets(r.hosts, r.gateway))
  BY <1>3, <1>6, Joined
<1> QED
  BY <1>3, <1>7 DEF Targets, Pings

\* A prefix of different elements has different elements.
LEMMA PrefixesAreOnce ==
    ASSUME NEW S, NEW s \in Seq(S), IsInjective(s), NEW n \in Nat
    PROVE  IsInjective(UpTo(n, s))
<1>1. \A i \in DOMAIN UpTo(n, s) : UpTo(n, s)[i] = s[i] /\ i \in DOMAIN s
  BY UpToIsPrefix
<1> QED
  BY <1>1 DEF IsInjective

\* No table names a port twice (scan/profiles.py:16-72).
LEMMA TablesNameOnce ==
    /\ StandardPorts \in Seq(Int) /\ IsInjective(StandardPorts)
    /\ IndustrialPorts \in Seq(Int) /\ IsInjective(IndustrialPorts)
    /\ GatewayQuickPorts \in Seq(Int) /\ IsInjective(GatewayQuickPorts)
<1>1. StandardPorts \in Seq(Int) /\ IsInjective(StandardPorts)
  BY DEF StandardPorts, IsInjective
<1>2. IndustrialPorts \in Seq(Int) /\ IsInjective(IndustrialPorts)
  BY DEF IndustrialPorts, IsInjective
<1>3. GatewayQuickPorts \in Seq(Int) /\ IsInjective(GatewayQuickPorts)
  BY DEF GatewayQuickPorts, IsInjective
<1> QED
  BY <1>1, <1>2, <1>3

\* No profile does (scan/profiles.py:75-87, ports.py:59-76).
LEMMA PortsAreOnce ==
    ASSUME NEW r \in Requests, r.kind = "ports"
    PROVE  ProfilePorts(r) \in Seq(Int) /\ IsInjective(ProfilePorts(r))
<1> DEFINE S == {n \in {r.ports[i] : i \in DOMAIN r.ports} : IsPort(n)}
<1>1. S \in SUBSET Int /\ IsFiniteSet(S)
  <2>1. S \in SUBSET Int
    BY RequestsAssumption DEF IsPort
  <2>2. \E top \in Int : \A n \in S : 1 <= n /\ n <= top
    <3> DEFINE top == 65535
    <3>1. top \in Int /\ \A n \in S : 1 <= n /\ n <= top
      BY DEF IsPort
    <3> HIDE DEF top, S
    <3> QED
      BY <3>1
  <2> HIDE DEF S
  <2>3. PICK top \in Int : \A n \in S : 1 <= n /\ n <= top
    BY <2>2
  <2>4. IsFiniteSet(1..top)
    BY FS_Interval
  <2>5. S \in SUBSET (1..top)
    BY <2>1, <2>3
  <2> QED
    BY <2>1, <2>4, <2>5, FS_Subset
<1>2. ParseCustomPorts(r) = UpTo(MaxPorts, Ascending(S))
  BY DEF ParseCustomPorts
<1> HIDE DEF S
<1>3. Ascending(S) \in Seq(S) /\ IsInjective(Ascending(S))
  BY <1>1, AscendingIsSorted
<1>4. Ascending(S) \in Seq(Int)
  BY <1>1, <1>3, SeqMonotonic
<1>5. ParseCustomPorts(r) \in Seq(Int) /\ IsInjective(ParseCustomPorts(r))
  BY <1>2, <1>3, <1>4, UpToIsPrefix, PrefixesAreOnce, JobsAssumption
<1>6. r.profile \in {"standard", "industrial", "custom"}
  BY RequestsAssumption
<1> QED
  BY <1>5, <1>6, TablesNameOnce DEF ProfilePorts

\* Two lists of different elements with none in common, in a row.
LEMMA JoinedOnce ==
    ASSUME NEW s, NEW t, IsSequence(s), IsSequence(t), IsInjective(s), IsInjective(t),
           Range(s) \cap Range(t) = {}
    PROVE  /\ IsSequence(s \o t) /\ IsInjective(s \o t)
           /\ Range(s \o t) = Range(s) \cup Range(t)
<1> DEFINE S == Range(s) \cup Range(t)
           u == s \o t
<1>1. s \in Seq(S) /\ t \in Seq(S)
  BY SeqMonotonic DEF IsSequence
<1>2. IsSequence(u)
  BY Joined
<1>3. Range(u) = S
  BY <1>1, RangeConcatenation
<1>4. /\ DOMAIN u = 1..Len(s) + Len(t)
      /\ \A i \in DOMAIN u : u[i] = IF i <= Len(s) THEN s[i] ELSE t[i - Len(s)]
  BY <1>1, ConcatProperties
<1>5. /\ Len(s) \in Nat /\ DOMAIN s = 1..Len(s) /\ Len(t) \in Nat /\ DOMAIN t = 1..Len(t)
      /\ \A i \in DOMAIN s, j \in DOMAIN t : s[i] # t[j]
  <2>1. \A i \in DOMAIN s, j \in DOMAIN t : s[i] # t[j]
    BY DEF Range
  <2> QED
    BY <1>1, <2>1
<1> HIDE DEF u, S
<1>6. ASSUME NEW i \in DOMAIN u, NEW j \in DOMAIN u, u[i] = u[j] PROVE i = j
  <2>1. i <= Len(s) => i \in DOMAIN s /\ u[i] = s[i]
    BY <1>4, <1>5
  <2>2. ~(i <= Len(s)) => i - Len(s) \in DOMAIN t /\ u[i] = t[i - Len(s)]
    BY <1>4, <1>5
  <2>3. j <= Len(s) => j \in DOMAIN s /\ u[j] = s[j]
    BY <1>4, <1>5
  <2>4. ~(j <= Len(s)) => j - Len(s) \in DOMAIN t /\ u[j] = t[j - Len(s)]
    BY <1>4, <1>5
  <2>5. CASE i <= Len(s) /\ j <= Len(s)
    BY <1>6, <2>1, <2>3, <2>5 DEF IsInjective
  <2>6. CASE ~(i <= Len(s)) /\ ~(j <= Len(s))
    <3>1. i - Len(s) = j - Len(s)
      BY <1>6, <2>2, <2>4, <2>6 DEF IsInjective
    <3> QED
      BY <1>4, <1>5, <3>1
  <2> QED
    BY <1>5, <1>6, <2>1, <2>2, <2>3, <2>4, <2>5, <2>6
<1> QED
  BY <1>2, <1>3, <1>6 DEF IsInjective, u, S

\* No suite of probes has a probe twice.
LEMMA ProbesAreOnce ==
    ASSUME NEW kind \in VendorKinds \cup {"passive"}
    PROVE  IsSequence(ProbesOf(kind)) /\ IsInjective(ProbesOf(kind))
<1>1. IsSequence(PassiveProbes) /\ IsInjective(PassiveProbes)
  <2>1. PassiveProbes \in Seq({"l2", "dhcp", "snmp", "mdns", "ssdp", "l2_probe"})
    BY DEF PassiveProbes
  <2>2. IsInjective(PassiveProbes)
    BY DEF PassiveProbes, IsInjective
  <2> QED
    BY <2>1, <2>2, AreSequences
<1>2. IsSequence(CameraProbes) /\ IsInjective(CameraProbes)
  <2>1. CameraProbes \in Seq({"onvif", "sadp", "dahua", "mdns", "ssdp"})
    BY DEF CameraProbes
  <2>2. IsInjective(CameraProbes)
    BY DEF CameraProbes, IsInjective
  <2> QED
    BY <2>1, <2>2, AreSequences
<1>3. IsSequence(NasProbes) /\ IsInjective(NasProbes)
  <2>1. NasProbes \in Seq({"Synology", "QNAP", "ASUSTOR", "Netgear_ReadyNAS",
                           "WS_Discovery", "mdns", "ssdp"})
    BY DEF NasProbes
  <2>2. IsInjective(NasProbes)
    BY DEF NasProbes, IsInjective
  <2> QED
    BY <2>1, <2>2, AreSequences
<1>4. IsSequence(PrinterProbes) /\ IsInjective(PrinterProbes)
  <2>1. PrinterProbes \in Seq({"epson", "zebra"})
    BY DEF PrinterProbes
  <2>2. IsInjective(PrinterProbes)
    BY DEF PrinterProbes, IsInjective
  <2> QED
    BY <2>1, <2>2, AreSequences
<1>5. IsSequence(WeintekProbes) /\ IsInjective(WeintekProbes)
  <2>1. WeintekProbes \in Seq({"weintek_60000", "weintek_10275", "weintek_20249"})
    BY DEF WeintekProbes
  <2>2. IsInjective(WeintekProbes)
    BY DEF WeintekProbes, IsInjective
  <2> QED
    BY <2>1, <2>2, AreSequences
<1>6. IsSequence(EwonProbes) /\ IsInjective(EwonProbes)
  <2>1. EwonProbes \in Seq({"ewon_1507", "ewon_1234", "ewon_4242"})
    BY DEF EwonProbes
  <2>2. IsInjective(EwonProbes)
    BY DEF EwonProbes, IsInjective
  <2> QED
    BY <2>1, <2>2, AreSequences
<1> DEFINE last == <<"neighbors">>
<1>7. IsSequence(last) /\ IsInjective(last)
  <2>1. last \in Seq({"neighbors"}) /\ IsInjective(last)
    BY DEF IsInjective
  <2> HIDE DEF last
  <2> QED
    BY <2>1, AreSequences
<1>8. Range(WeintekProbes) = {"weintek_60000", "weintek_10275", "weintek_20249"}
  BY DEF WeintekProbes, Range
<1>9. Range(EwonProbes) = {"ewon_1507", "ewon_1234", "ewon_4242"}
  BY DEF EwonProbes, Range
<1>10. Range(last) = {"neighbors"}
  BY DEF Range
<1> HIDE DEF last
<1> DEFINE both == WeintekProbes \o EwonProbes
<1>11. /\ IsSequence(both) /\ IsInjective(both)
       /\ Range(both) = Range(WeintekProbes) \cup Range(EwonProbes)
  <2>1. Range(WeintekProbes) \cap Range(EwonProbes) = {}
    BY <1>8, <1>9
  <2> QED
    BY <1>5, <1>6, <2>1, JoinedOnce
<1>12. IsSequence(both \o last) /\ IsInjective(both \o last)
  <2>1. Range(both) \cap Range(last) = {}
    BY <1>8, <1>9, <1>10, <1>11
  <2> HIDE DEF both
  <2> QED
    BY <1>7, <1>11, <2>1, JoinedOnce
<1> QED
  BY <1>1, <1>2, <1>3, <1>4, <1>12 DEF ProbesOf, VendorKinds, last

\* The checks of the servers and the gateway are a list.
LEMMA ChecksAreSequence ==
    ASSUME NEW r \in Requests, r.kind = "checks" PROVE IsSequence(Checks(r))
<1> DEFINE s == [i \in DOMAIN r.servers |-> Target("DNS", r.servers[i], "server")]
           t == Target("Gateway", r.gateway, "gateway")
<1>1. r.servers \in Seq(STRING)
  BY RequestsAssumption
<1>2. IsSequence(s)
  <2>1. Len(r.servers) \in Nat /\ DOMAIN s = 1..Len(r.servers)
    BY <1>1
  <2>2. s = [i \in 1..Len(r.servers) |-> s[i]]
    BY <2>1
  <2> HIDE DEF s
  <2> QED
    BY <2>1, <2>2, Listed
<1>3. IsSequence(<<t>>)
  <2> HIDE DEF t
  <2>1. <<t>> \in Seq({t})
    OBVIOUS
  <2> QED
    BY <2>1, AreSequences
<1>4. Checks(r) = Named(s) \o Named(<<t>>)
  BY DEF Checks
<1> HIDE DEF s, t
<1> QED
  BY <1>2, <1>3, <1>4, NamedList, Joined

\* Each host of the targets is a job, once (collectors/ping.py:182-205).
LEMMA HostsAreOnce ==
    ASSUME NEW r \in Requests, Pings(r)
    PROVE  /\ IsSequence(JobsOf(r)) /\ IsInjective(JobsOf(r))
           /\ Range(JobsOf(r)) = {Targets(r)[i].host : i \in DOMAIN Targets(r)}
<1> DEFINE s == Targets(r)
           h == [i \in DOMAIN s |-> s[i].host]
<1>1. s \in Seq(Range(s))
  BY TargetsAreSequence DEF IsSequence
<1>2. Len(s) \in Nat /\ DOMAIN s = 1..Len(s)
  BY <1>1
<1> HIDE DEF s
<1>3. IsSequence(h)
  <2>1. DOMAIN h = 1..Len(s) /\ h = [i \in 1..Len(s) |-> h[i]]
    BY <1>2
  <2> HIDE DEF h
  <2> QED
    BY <1>2, <2>1, Listed
<1>4. h \in Seq(Range(h))
  BY <1>3 DEF IsSequence
<1>5. JobsOf(r) = Distinct(h)
  <2>1. r.kind # "ports" /\ r.kind # "checks" /\ ~Probes(r)
    BY DEF Pings, Probes, VendorKinds
  <2> QED
    BY <2>1 DEF JobsOf, s
<1>6. Range(h) = {s[i].host : i \in DOMAIN s}
  BY DEF Range
<1> HIDE DEF h
<1>7. Distinct(h) \in Seq(Range(h)) /\ AreFirst(Distinct(h), h, Len(h))
  BY <1>4, DistinctIsOnce
<1>8. IsInjective(Distinct(h)) /\ Range(Distinct(h)) = Range(h)
  <2>1. {Distinct(h)[i] : i \in DOMAIN Distinct(h)} = {h[i] : i \in 1..Len(h)}
    BY <1>7 DEF AreFirst
  <2>2. DOMAIN h = 1..Len(h)
    BY <1>4
  <2> QED
    BY <1>7, <2>1, <2>2 DEF AreFirst, Range
<1> QED
  BY <1>5, <1>6, <1>7, <1>8, AreSequences DEF s

\* No request gives several threads a job twice; the checks, which may repeat a server,
\* are one thread's.
LEMMA JobsAreOnce ==
    ASSUME NEW r \in Requests
    PROVE  /\ IsSequence(JobsOf(r))
           /\ Threads(r) # 1 => IsInjective(JobsOf(r))
           /\ r.kind # "checks" => IsInjective(JobsOf(r))
           /\ Threads(r) \in Nat \ {0}
<1>1. r.kind \in {"suite", "hosts", "ports", "checks", "passive"} \cup VendorKinds
  BY RequestsAssumption
<1>2. Threads(r) \in Nat \ {0} /\ (r.kind = "checks" => Threads(r) = 1)
  BY JobsAssumption DEF Threads, InTurn
<1>3. CASE Pings(r)
  <2>1. r.kind # "checks"
    BY <1>3 DEF Pings
  <2> QED
    BY <1>2, <1>3, <2>1, HostsAreOnce
<1>4. CASE r.kind = "ports"
  <2>1. JobsOf(r) = ProfilePorts(r)
    BY <1>4 DEF JobsOf, Pings, Probes, VendorKinds
  <2> QED
    BY <1>2, <1>4, <2>1, PortsAreOnce, AreSequences
<1>5. CASE r.kind = "checks"
  <2>1. JobsOf(r) = Checks(r)
    BY <1>5 DEF JobsOf, Pings, Probes, VendorKinds
  <2> QED
    BY <1>2, <1>5, <2>1, ChecksAreSequence
<1>6. CASE r.kind \in VendorKinds \cup {"passive"}
  <2>1. ~Pings(r) /\ r.kind # "ports" /\ r.kind # "checks"
    BY <1>6 DEF Pings, VendorKinds
  <2>2. JobsOf(r) = ProbesOf(r.kind)
    BY <1>6, <2>1 DEF JobsOf, Probes
  <2> QED
    BY <1>2, <1>6, <2>1, <2>2, ProbesAreOnce
<1> QED
  BY <1>1, <1>3, <1>4, <1>5, <1>6 DEF Pings

-------------------------------------------------------------------------------
(* The pool.                                                                       *)

\* How many jobs have been taken from the list, and those that have ended.
Taken == Cardinality(busy) + Len(ended)
EndedJobs == {ended[i].job : i \in DOMAIN ended}

\* Jobs are taken in their order, and each that was taken is busy or has ended.
TakenInv ==
    /\ Taken <= Len(JobsOf(asked))
    /\ todo = SubSeq(JobsOf(asked), Taken + 1, Len(JobsOf(asked)))
    /\ Cardinality(busy) <= Threads(asked)

\* Where no job is given twice, none is run twice.
OnceInv ==
    IsInjective(JobsOf(asked)) =>
        /\ busy \cup EndedJobs = {JobsOf(asked)[i] : i \in 1..Taken}
        /\ busy \cap EndedJobs = {}
        /\ Once(ended)

\* One thread ends them in order.
OrderInv ==
    Threads(asked) = 1 =>
        /\ \A k \in DOMAIN ended : ended[k].job = JobsOf(asked)[k]
        /\ busy # {} => busy = {JobsOf(asked)[Taken]}

\* What a job has ended with is one of its results.
ResultInv == \A k \in DOMAIN ended : ended[k].result \in ResultsFor(ended[k].job)

\* Nothing has been asked yet.
AtRest == todo = <<>> /\ busy = {} /\ ended = <<>> /\ report = <<>>

\* Before, while and after the pool works.
JobsInv ==
    /\ asked \in Requests /\ phase \in {"idle", "running", "reported", "failed"}
    /\ IsFiniteSet(busy) /\ IsSequence(ended)
    /\ phase = "idle" => AtRest
    /\ phase = "failed" => todo = <<>> /\ busy = {}
    /\ phase \in {"running", "reported"} => TakenInv /\ OnceInv /\ OrderInv /\ ResultInv
    /\ phase = "reported" => todo = <<>> /\ busy = {} /\ report = Results

\* Facts about what is empty.
LEMMA EmptyIsSequence == IsSequence(<<>>)
BY AreSequences, EmptySeq

LEMMA CountsOfEmpty == IsFiniteSet({}) /\ Cardinality({}) = 0
BY FS_EmptySet

\* The steps of the pool, one lemma each.
LEMMA JobsStart == JobsInit => JobsInv
BY EmptyIsSequence, CountsOfEmpty DEF JobsInit, JobsInv, AtRest

LEMMA JobsSubmitted ==
    ASSUME JobsInv, Submit PROVE JobsInv'
<1> DEFINE jobs == JobsOf(asked)
<1>1. /\ AtRest /\ asked' = asked /\ busy' = {} /\ ended' = <<>> /\ phase' = "running"
      /\ todo' = jobs /\ asked \in Requests
  BY DEF JobsInv, Submit, AtRest
<1>2. Taken' = 0
  BY <1>1, CountsOfEmpty DEF Taken
<1>3. IsSequence(jobs) /\ Threads(asked) \in Nat
  BY <1>1, JobsAreOnce
<1>4. Len(jobs) \in Nat /\ SubSeq(jobs, 1, Len(jobs)) = jobs
  BY <1>3, SubSeqFull DEF IsSequence
<1> HIDE DEF jobs
<1>5. TakenInv'
  <2>1. JobsOf(asked') = jobs
    BY <1>1 DEF jobs
  <2> QED
    BY <1>1, <1>2, <1>3, <1>4, <2>1, CountsOfEmpty DEF TakenInv
<1>6. OnceInv' /\ OrderInv' /\ ResultInv'
  BY <1>1, <1>2 DEF OnceInv, OrderInv, ResultInv, Once, EndedJobs
<1> QED
  BY <1>1, <1>5, <1>6, EmptyIsSequence, CountsOfEmpty DEF JobsInv

LEMMA JobTaken ==
    ASSUME JobsInv, Take PROVE JobsInv'
<1> DEFINE jobs == JobsOf(asked)
           n == Taken
           job == jobs[n + 1]
<1>1. /\ todo # <<>> /\ Cardinality(busy) < Threads(asked)
      /\ busy' = busy \cup {Head(todo)} /\ todo' = Tail(todo)
      /\ asked' = asked /\ phase' = phase /\ ended' = ended /\ report' = report
  BY DEF Take
<1>2. /\ asked \in Requests /\ phase = "running" /\ IsFiniteSet(busy) /\ IsSequence(ended)
      /\ TakenInv /\ OnceInv /\ OrderInv /\ ResultInv
  BY <1>1 DEF JobsInv, AtRest
<1>3. /\ Cardinality(busy) \in Nat /\ Len(ended) \in Nat /\ n \in Nat
      /\ DOMAIN ended = 1..Len(ended)
  <2>1. Cardinality(busy) \in Nat
    BY <1>2, FS_CardinalityType
  <2> QED
    BY <1>2, <2>1 DEF IsSequence, Taken
<1>4. /\ jobs \in Seq(Range(jobs)) /\ Len(jobs) \in Nat /\ DOMAIN jobs = 1..Len(jobs)
      /\ Threads(asked) \in Nat
      /\ Threads(asked) # 1 => IsInjective(jobs)
  <2>1. /\ IsSequence(jobs) /\ Threads(asked) \in Nat
        /\ Threads(asked) # 1 => IsInjective(jobs)
    BY <1>2, JobsAreOnce
  <2> QED
    BY <2>1 DEF IsSequence
<1>5. todo = SubSeq(jobs, n + 1, Len(jobs)) /\ n <= Len(jobs)
  BY <1>2 DEF TakenInv
<1>6. jobs' = jobs
  BY <1>1
<1> HIDE DEF jobs, n
<1>7. n + 1 \in 1..Len(jobs)
  <2>1. n # Len(jobs)
    <3>1. SUFFICES ASSUME n = Len(jobs) PROVE todo = <<>>
      BY <1>1
    <3>2. n + 1 \in Int /\ Len(jobs) \in Int /\ Len(jobs) < n + 1
      BY <1>3, <1>4, <3>1
    <3>3. SubSeq(jobs, n + 1, Len(jobs)) = <<>>
      BY <3>2, SubSeqEmpty
    <3> QED
      BY <1>5, <3>3
  <2>2. n \in Nat /\ Len(jobs) \in Nat /\ n <= Len(jobs)
    BY <1>3, <1>4, <1>5
  <2> QED
    BY <2>1, <2>2
<1>8. Head(todo) = job /\ Tail(todo) = SubSeq(jobs, n + 2, Len(jobs))
  <2>1. Len(jobs) \in (n + 1)..Len(jobs)
    BY <1>7
  <2>2. Head(todo) = jobs[n + 1] /\ Tail(todo) = SubSeq(jobs, (n + 1) + 1, Len(jobs))
    BY <1>4, <1>5, <1>7, <2>1, HeadTailOfSubSeq
  <2>3. (n + 1) + 1 = n + 2
    BY <1>3
  <2> QED
    BY <2>2, <2>3
<1>9. IsInjective(jobs) => job \notin busy /\ job \notin EndedJobs
  <2>1. SUFFICES ASSUME IsInjective(jobs) PROVE job \notin {jobs[i] : i \in 1..n}
    BY <1>2 DEF OnceInv, jobs, n
  <2>2. \A i \in 1..n : i \in DOMAIN jobs /\ n + 1 \in DOMAIN jobs /\ i # n + 1
    BY <1>3, <1>4, <1>7
  <2> QED
    BY <2>1, <2>2 DEF IsInjective
<1>10. Threads(asked) = 1 => busy = {}
  <2>1. SUFFICES ASSUME Threads(asked) = 1 PROVE Cardinality(busy) = 0
    BY <1>2, FS_EmptySet
  <2> QED
    BY <1>1, <1>3, <2>1
<1>11. job \notin busy
  BY <1>4, <1>9, <1>10
<1>12. IsFiniteSet(busy') /\ Cardinality(busy') = Cardinality(busy) + 1
  BY <1>1, <1>2, <1>8, <1>11, FS_AddElement
<1>13. Taken' = n + 1
  BY <1>1, <1>3, <1>12 DEF Taken, n
<1>14. TakenInv'
  <2>1. /\ JobsOf(asked)' = jobs /\ Threads(asked)' = Threads(asked)
        /\ Taken' + 1 = n + 2 /\ Taken' <= Len(jobs)
    BY <1>1, <1>3, <1>7, <1>13 DEF jobs
  <2>2. Cardinality(busy') <= Threads(asked)
    BY <1>1, <1>3, <1>4, <1>12
  <2> QED
    BY <1>1, <1>8, <2>1, <2>2 DEF TakenInv
<1>15. OnceInv'
  <2>1. SUFFICES ASSUME IsInjective(jobs)
        PROVE  /\ busy' \cup EndedJobs' = {jobs[i] : i \in 1..n + 1}
               /\ busy' \cap EndedJobs' = {} /\ Once(ended')
    BY <1>6, <1>13 DEF OnceInv, jobs
  <2>2. /\ busy \cup EndedJobs = {jobs[i] : i \in 1..n}
        /\ busy \cap EndedJobs = {} /\ Once(ended)
    BY <1>2, <2>1 DEF OnceInv, jobs, n
  <2>3. EndedJobs' = EndedJobs
    BY <1>1 DEF EndedJobs
  <2>4. {jobs[i] : i \in 1..n + 1} = {jobs[i] : i \in 1..n} \cup {job}
    <3>1. 1..n + 1 = 1..n \cup {n + 1}
      BY <1>3
    <3> QED
      BY <3>1
  <2> HIDE DEF job
  <2> QED
    BY <1>1, <1>8, <1>9, <2>1, <2>2, <2>3, <2>4
<1>16. OrderInv'
  <2>1. SUFFICES ASSUME Threads(asked) = 1
        PROVE  /\ \A k \in DOMAIN ended' : ended'[k].job = jobs[k]
               /\ busy' = {jobs[n + 1]}
    BY <1>1, <1>6, <1>13 DEF OrderInv, jobs
  <2>2. \A k \in DOMAIN ended : ended[k].job = jobs[k]
    BY <1>2, <2>1 DEF OrderInv, jobs
  <2> QED
    BY <1>1, <1>8, <1>10, <2>1, <2>2
<1>17. ResultInv'
  <2>1. \A k \in DOMAIN ended : ended[k].result \in ResultsFor(ended[k].job)
    BY <1>2 DEF ResultInv
  <2>2. \A k \in DOMAIN ended : ResultsFor(ended[k].job)' = ResultsFor(ended[k].job)
    BY <1>1 DEF ResultsFor
  <2> QED
    BY <1>1, <2>1, <2>2 DEF ResultInv
<1> QED
  BY <1>1, <1>2, <1>12, <1>14, <1>15, <1>16, <1>17 DEF JobsInv

\* A job ends with one of its results.
LEMMA JobEnded ==
    ASSUME JobsInv, EndJob PROVE JobsInv'
<1> DEFINE jobs == JobsOf(asked)
           n == Taken
<1>1. PICK job \in busy :
          /\ busy' = busy \ {job}
          /\ \E result \in ResultsFor(job) :
                 ended' = Append(ended, [job |-> job, result |-> result])
          /\ asked' = asked /\ phase' = phase /\ todo' = todo /\ report' = report
  BY DEF EndJob
<1>2. PICK result \in ResultsFor(job) : ended' = Append(ended, [job |-> job, result |-> result])
  BY <1>1
<1> DEFINE e == [job |-> job, result |-> result]
<1>3. /\ asked \in Requests /\ phase = "running" /\ IsFiniteSet(busy) /\ IsSequence(ended)
      /\ TakenInv /\ OnceInv /\ OrderInv /\ ResultInv
  BY <1>1 DEF JobsInv, AtRest
<1>4. /\ Cardinality(busy) \in Nat /\ Len(ended) \in Nat /\ n \in Nat
      /\ DOMAIN ended = 1..Len(ended)
  <2>1. Cardinality(busy) \in Nat
    BY <1>3, FS_CardinalityType
  <2> QED
    BY <1>3, <2>1 DEF IsSequence, Taken
<1>5. /\ IsSequence(ended') /\ Len(ended') = Len(ended) + 1 /\ DOMAIN ended' = 1..Len(ended) + 1
      /\ ended'[Len(ended) + 1] = e
      /\ \A k \in 1..Len(ended) : ended'[k] = ended[k]
  <2> DEFINE S == Range(ended) \cup {e}
  <2> HIDE DEF e
  <2>1. ended \in Seq(S) /\ e \in S
    BY <1>3, SeqMonotonic DEF IsSequence
  <2>2. ended' = Append(ended, e)
    BY <1>2 DEF e
  <2> HIDE DEF S
  <2>3. ended' \in Seq(S)
    BY <2>1, <2>2
  <2>4. IsSequence(ended')
    BY <2>3, AreSequences
  <2> QED
    BY <2>1, <2>2, <2>4
<1>6. IsFiniteSet(busy') /\ Cardinality(busy') = Cardinality(busy) - 1
  BY <1>1, <1>3, FS_RemoveElement
<1>7. Taken' = n
  BY <1>4, <1>5, <1>6 DEF Taken
<1>8. jobs' = jobs
  BY <1>1
<1>9. \A k \in DOMAIN ended' : k \in DOMAIN ended \/ k = Len(ended) + 1
  BY <1>4, <1>5
<1>10. EndedJobs' = EndedJobs \cup {job}
  <2>1. \A k \in DOMAIN ended : k \in DOMAIN ended' /\ ended'[k].job = ended[k].job
    BY <1>4, <1>5
  <2>2. Len(ended) + 1 \in DOMAIN ended' /\ ended'[Len(ended) + 1].job = job
    BY <1>4, <1>5
  <2> QED
    BY <1>9, <2>1, <2>2 DEF EndedJobs
<1> HIDE DEF jobs, n, e
<1>11. Cardinality(busy') <= Cardinality(busy)
  BY <1>4, <1>6
<1>12. TakenInv'
  <2>1. Threads(asked)' = Threads(asked) /\ Threads(asked) \in Nat /\ Cardinality(busy') \in Nat
    BY <1>1, <1>3, <1>6, JobsAreOnce, FS_CardinalityType
  <2> QED
    BY <1>1, <1>3, <1>4, <1>7, <1>8, <1>11, <2>1 DEF TakenInv, jobs, n
<1>13. OnceInv'
  <2>1. SUFFICES ASSUME IsInjective(jobs)
        PROVE  /\ busy' \cup EndedJobs' = {jobs[i] : i \in 1..n}
               /\ busy' \cap EndedJobs' = {} /\ Once(ended')
    BY <1>7, <1>8 DEF OnceInv, jobs
  <2>2. /\ busy \cup EndedJobs = {jobs[i] : i \in 1..n}
        /\ busy \cap EndedJobs = {} /\ Once(ended)
    BY <1>3, <2>1 DEF OnceInv, jobs, n
  <2>3. ASSUME NEW i \in DOMAIN ended', NEW j \in DOMAIN ended', ended'[i].job = ended'[j].job
        PROVE  i = j
    <3>1. \A k \in DOMAIN ended : ended'[k].job = ended[k].job /\ ended[k].job # job
      <4>1. \A k \in DOMAIN ended : ended[k].job \in EndedJobs
        BY DEF EndedJobs
      <4> QED
        BY <1>4, <1>5, <2>2, <4>1
    <3>2. ended'[Len(ended) + 1].job = job
      BY <1>5 DEF e
    <3> QED
      BY <1>9, <2>2, <2>3, <3>1, <3>2 DEF Once
  <2> QED
    BY <1>1, <1>10, <2>2, <2>3 DEF Once
<1>14. OrderInv'
  <2>1. SUFFICES ASSUME Threads(asked) = 1
        PROVE  (\A k \in DOMAIN ended' : ended'[k].job = jobs[k]) /\ busy' = {}
    BY <1>1, <1>8 DEF OrderInv, jobs
  <2>2. (\A k \in DOMAIN ended : ended[k].job = jobs[k]) /\ busy = {jobs[n]}
    BY <1>1, <1>3, <2>1 DEF OrderInv, jobs, n
  <2>3. busy' = {} /\ job = jobs[n]
    BY <1>1, <2>2
  <2>4. n = Len(ended) + 1
    <3>1. Cardinality(busy) = 1
      BY <2>2, FS_Singleton
    <3> QED
      BY <1>4, <3>1 DEF Taken, n
  <2>5. ended'[Len(ended) + 1].job = job
    BY <1>5 DEF e
  <2> QED
    BY <1>4, <1>5, <1>9, <2>2, <2>3, <2>4, <2>5
<1>15. ResultInv'
  <2>1. \A k \in DOMAIN ended : ended[k].result \in ResultsFor(ended[k].job)
    BY <1>3 DEF ResultInv
  <2>2. ASSUME NEW k \in DOMAIN ended' PROVE ended'[k].result \in ResultsFor(ended'[k].job)
    <3>1. CASE k = Len(ended) + 1
      BY <1>2, <1>5, <3>1 DEF e
    <3>2. CASE k \in DOMAIN ended
      BY <1>4, <1>5, <2>1, <3>2
    <3> QED
      BY <1>9, <3>1, <3>2
  <2>3. \A k \in DOMAIN ended' : ResultsFor(ended[k].job)' = ResultsFor(ended'[k].job)
    BY <1>1 DEF ResultsFor
  <2> QED
    BY <2>2, <2>3 DEF ResultInv
<1> QED
  BY <1>1, <1>3, <1>5, <1>6, <1>12, <1>13, <1>14, <1>15 DEF JobsInv

\* The report is made of what has ended.
LEMMA JobsReported ==
    ASSUME JobsInv, Report PROVE JobsInv'
<1>1. /\ phase = "running" /\ todo = <<>> /\ busy = {}
      /\ phase' = "reported" /\ report' = Results
      /\ asked' = asked /\ todo' = todo /\ busy' = busy /\ ended' = ended
  BY DEF Report
<1>2. /\ asked \in Requests /\ IsFiniteSet(busy) /\ IsSequence(ended)
      /\ TakenInv /\ OnceInv /\ OrderInv /\ ResultInv
  BY <1>1 DEF JobsInv
<1>3. TakenInv' /\ OnceInv' /\ OrderInv'
  <2>1. TakenInv' = TakenInv /\ OnceInv' = OnceInv /\ OrderInv' = OrderInv
    BY <1>1 DEF TakenInv, OnceInv, OrderInv, Taken, EndedJobs
  <2> QED
    BY <1>2, <2>1
<1>4. ResultInv'
  <2>1. \A k \in DOMAIN ended : ResultsFor(ended[k].job)' = ResultsFor(ended[k].job)
    BY <1>1 DEF ResultsFor
  <2> QED
    BY <1>1, <1>2, <2>1 DEF ResultInv
<1>5. Results' = Results
  <2>1. ByTarget' = ByTarget /\ ByPort' = ByPort
    BY <1>1 DEF ByTarget, ByPort, Before, ResultOf
  <2>3. PassiveReport' = PassiveReport
    BY <1>1 DEF PassiveReport, FoundBy, ResultOf
  <2>4. DevicesFound' = DevicesFound
    BY <1>1 DEF DevicesFound, FoundByAll, FoundBy, ResultOf
  <2> QED
    BY <1>1, <2>1, <2>3, <2>4 DEF Results
<1> QED
  BY <1>1, <1>2, <1>3, <1>4, <1>5 DEF JobsInv

\* A request that fails has nothing left to do.
LEMMA JobsFailed ==
    ASSUME JobsInv, Fail PROVE JobsInv'
BY CountsOfEmpty DEF Fail, JobsInv

LEMMA JobsUnchanged ==
    ASSUME JobsInv, UNCHANGED jobVars PROVE JobsInv'
<1>1. /\ phase' = phase /\ report' = report /\ asked' = asked /\ todo' = todo
      /\ busy' = busy /\ ended' = ended
  BY DEF jobVars
<1>2. TakenInv' = TakenInv /\ OnceInv' = OnceInv /\ OrderInv' = OrderInv
  BY <1>1 DEF TakenInv, OnceInv, OrderInv, Taken, EndedJobs
<1>3. ResultInv' = ResultInv
  <2>1. \A k \in DOMAIN ended : ResultsFor(ended[k].job)' = ResultsFor(ended[k].job)
    BY <1>1 DEF ResultsFor
  <2> QED
    BY <1>1, <2>1 DEF ResultInv
<1>4. Results' = Results
  BY <1>1 DEF Results, ByTarget, ByPort, Before, PassiveReport, DevicesFound, FoundByAll, FoundBy,
     ResultOf
<1> QED
  BY <1>1, <1>2, <1>3, <1>4 DEF JobsInv, AtRest

LEMMA JobsKeepInv ==
    ASSUME JobsInv, [JobsNext]_jobVars PROVE JobsInv'
BY JobsSubmitted, JobTaken, JobEnded, JobsFailed, JobsReported, JobsUnchanged
   DEF JobsNext, RaiseJob, RaiseLookup

\* The invariant counts the jobs.
LEMMA JobsHaveTypes ==
    ASSUME JobsInv PROVE JobsTypeOK
<1>1. Cardinality(busy) \in Nat /\ Len(ended) \in Nat
  BY FS_CardinalityType DEF JobsInv, IsSequence
<1>2. IsSequence(JobsOf(asked)) /\ Threads(asked) \in Nat \ {0} /\ asked \in Requests
  BY JobsAreOnce DEF JobsInv
<1>3. CASE phase = "idle"
  BY <1>1, <1>2, <1>3, CountsOfEmpty DEF JobsTypeOK, JobsInv, AtRest
<1>5. CASE phase = "failed"
  <2>1. busy = {}
    BY <1>5 DEF JobsInv
  <2>2. Cardinality(busy) <= Threads(asked)
    BY <1>2, <2>1, CountsOfEmpty
  <2> QED
    BY <1>2, <1>5, <2>2 DEF JobsTypeOK
<1>4. CASE phase \in {"running", "reported"}
  <2> DEFINE jobs == JobsOf(asked)
             n == Taken
  <2>1. n \in Nat /\ Len(jobs) \in Nat /\ n = Cardinality(busy) + Len(ended)
    BY <1>1, <1>2 DEF IsSequence, Taken
  <2>2. n <= Len(jobs) /\ todo = SubSeq(jobs, n + 1, Len(jobs))
    BY <1>4 DEF JobsInv, TakenInv
  <2>3. Len(todo) = Len(jobs) - n
    <3>1. jobs \in Seq(Range(jobs))
      BY <1>2 DEF IsSequence
    <3> HIDE DEF jobs, n
    <3>2. \A i \in (n + 1)..Len(jobs) : jobs[i] \in Range(jobs)
      BY <2>1, <3>1
    <3>3. n + 1 \in Int /\ Len(jobs) \in Int
      BY <2>1
    <3>4. Len(SubSeq(jobs, n + 1, Len(jobs)))
              = IF n + 1 <= Len(jobs) THEN Len(jobs) - (n + 1) + 1 ELSE 0
      BY <3>2, <3>3, SubSeqProperties
    <3> QED
      BY <2>1, <2>2, <3>4
  <2> HIDE DEF jobs, n
  <2>4. Len(todo) + Cardinality(busy) + Len(ended) = Len(jobs)
    <3> DEFINE c == Cardinality(busy)
               e == Len(ended)
               t == Len(todo)
               m == Len(jobs)
    <3>1. c \in Nat /\ e \in Nat /\ m \in Nat /\ n = c + e
      BY <1>1, <2>1
    <3>2. t = m - n
      BY <2>3
    <3> HIDE DEF c, e, t, m
    <3>3. t + c + e = m
      BY <3>1, <3>2
    <3> QED
      BY <3>3 DEF c, e, t, m
  <2> QED
    BY <1>2, <1>4, <2>4 DEF JobsTypeOK, JobsInv, TakenInv, jobs
<1> QED
  BY <1>3, <1>4, <1>5 DEF JobsInv

\* Each job is done once: those that wait, those in hand and those that have ended
\* are the jobs of the request (ping.py:194-205, ports.py:118-127).
THEOREM JobsAreTyped == JobsSpec => []JobsTypeOK
<1>1. JobsInit => JobsInv
  BY JobsStart
<1>2. JobsInv /\ [JobsNext]_jobVars => JobsInv'
  BY JobsKeepInv
<1>3. JobsInv => JobsTypeOK
  BY JobsHaveTypes
<1> QED
  BY <1>1, <1>2, <1>3, PTL DEF JobsSpec

-------------------------------------------------------------------------------
(* What the pool reports.                                                          *)

\* When the report is made, every job of the request has ended.
LEMMA AllHaveEnded ==
    ASSUME JobsInv, phase = "reported"
    PROVE  /\ IsSequence(ended) /\ DOMAIN ended = 1..Len(JobsOf(asked))
           /\ IsSequence(JobsOf(asked)) /\ DOMAIN JobsOf(asked) = DOMAIN ended
           /\ IsInjective(JobsOf(asked)) => Once(ended) /\ EndedJobs = Range(JobsOf(asked))
           /\ Threads(asked) = 1 => \A k \in DOMAIN ended : ended[k].job = JobsOf(asked)[k]
           /\ ResultInv /\ report = Results /\ asked \in Requests
<1> DEFINE jobs == JobsOf(asked)
           n == Taken
<1>1. /\ TakenInv /\ OnceInv /\ OrderInv /\ ResultInv /\ todo = <<>> /\ busy = {}
      /\ report = Results /\ asked \in Requests /\ IsSequence(ended)
  BY DEF JobsInv
<1>2. IsSequence(jobs) /\ jobs \in Seq(Range(jobs)) /\ Len(jobs) \in Nat
      /\ DOMAIN jobs = 1..Len(jobs)
  BY <1>1, JobsAreOnce DEF IsSequence
<1>3. n = Len(ended) /\ Len(ended) \in Nat /\ DOMAIN ended = 1..Len(ended)
  BY <1>1, CountsOfEmpty DEF Taken, IsSequence
<1>4. n <= Len(jobs) /\ SubSeq(jobs, n + 1, Len(jobs)) = <<>>
  BY <1>1 DEF TakenInv
<1> HIDE DEF jobs, n
<1>5. n = Len(jobs)
  <2>1. \A i \in (n + 1)..Len(jobs) : jobs[i] \in Range(jobs)
    BY <1>2, <1>3 DEF Range
  <2>2. n + 1 \in Int /\ Len(jobs) \in Int
    BY <1>2, <1>3
  <2>3. Len(SubSeq(jobs, n + 1, Len(jobs)))
            = IF n + 1 <= Len(jobs) THEN Len(jobs) - (n + 1) + 1 ELSE 0
    BY <2>1, <2>2, SubSeqProperties
  <2>4. (IF n + 1 <= Len(jobs) THEN Len(jobs) - (n + 1) + 1 ELSE 0) = 0
    BY <1>4, <2>3
  <2> DEFINE m == Len(jobs)
  <2>5. n \in Nat /\ m \in Nat /\ n <= m /\ (IF n + 1 <= m THEN m - (n + 1) + 1 ELSE 0) = 0
    BY <1>2, <1>3, <1>4, <2>4
  <2> HIDE DEF m
  <2>6. n = m
    BY <2>5
  <2> QED
    BY <2>6 DEF m
<1>6. IsInjective(jobs) => Once(ended) /\ EndedJobs = Range(jobs)
  <2>1. SUFFICES ASSUME IsInjective(jobs) PROVE Once(ended) /\ EndedJobs = Range(jobs)
    OBVIOUS
  <2>2. Once(ended) /\ EndedJobs = {jobs[i] : i \in 1..n}
    BY <1>1, <2>1 DEF OnceInv, jobs, n
  <2> QED
    BY <1>2, <1>5, <2>2 DEF Range
<1>7. Threads(asked) = 1 => \A k \in DOMAIN ended : ended[k].job = jobs[k]
  BY <1>1 DEF OrderInv, jobs
<1> QED
  BY <1>1, <1>2, <1>3, <1>5, <1>6, <1>7 DEF jobs

\* A ping report: every target in its place with its host's result.
LEMMA EachTargetItsResult ==
    ASSUME JobsInv, phase = "reported", Pings(asked), PingCount <= AllLost
    PROVE  PingsAreTrue
<1> DEFINE s == Targets(asked)
<1>1. /\ asked \in Requests /\ report = Results
      /\ IsInjective(JobsOf(asked)) => Once(ended)
  BY AllHaveEnded
<1>2. Once(ended)
  BY <1>1, HostsAreOnce
<1>3. report = ByTarget
  <2>1. asked.kind # "ports" /\ asked.kind # "checks" /\ asked.kind # "passive"
        /\ asked.kind \notin VendorKinds
    BY DEF Pings, VendorKinds
  <2> QED
    BY <1>1, <2>1 DEF Results
<1>4. s \in Seq(Range(s))
  BY <1>1, TargetsAreSequence DEF IsSequence
<1>5. /\ DOMAIN report = DOMAIN s
      /\ \A i \in DOMAIN s : report[i].target = s[i] /\ report[i].result = ResultOf(s[i].host)
  BY <1>3 DEF ByTarget
<1> HIDE DEF s
<1>6. s = [i \in DOMAIN s |-> s[i]]
  BY <1>4
<1>7. [i \in DOMAIN report |-> report[i].target] = s
  BY <1>5, <1>6
<1>8. ASSUME NEW i \in DOMAIN report, NEW j \in DOMAIN ended,
             ended[j].job = report[i].target.host
      PROVE  report[i].result = ended[j].result
  <2> DEFINE k == CHOOSE m \in DOMAIN ended : ended[m].job = s[i].host
  <2>1. report[i].result = ended[k].result /\ report[i].target = s[i]
    BY <1>5 DEF ResultOf
  <2>2. ended[j].job = s[i].host
    BY <1>8, <2>1
  <2>3. k \in DOMAIN ended /\ ended[k].job = s[i].host
    BY <2>2
  <2>4. k = j
    BY <1>2, <2>2, <2>3 DEF Once
  <2> QED
    BY <2>1, <2>4
<1>9. \A received \in 0..PingCount : Received(PingCount, Printed(PingCount, received)) = received
  BY LossTellsReceived
<1> QED
  BY <1>7, <1>8, <1>9 DEF PingsAreTrue, s

\* A list of different elements is what Distinct makes of it.
LEMMA DistinctIsSame ==
    ASSUME NEW S, NEW s \in Seq(S), IsInjective(s) PROVE Distinct(s) = s
<1>1. Distinct(s) \in Seq(S) /\ AreFirst(Distinct(s), s, Len(s))
  BY DistinctIsOnce
<1>2. Len(Distinct(s)) = Len(s) /\ \A i \in 1..Len(s) : Distinct(s)[i] = s[i]
  BY <1>1 DEF AreFirst
<1> QED
  BY <1>1, <1>2, SeqEqual

\* A scan report: each port once, in order, and which of them are open.
LEMMA EachPortInOrder ==
    ASSUME JobsInv, phase = "reported", asked.kind = "ports" PROVE PortsAreTrue
<1> DEFINE jobs == ProfilePorts(asked)
<1>1. asked \in Requests /\ ~Pings(asked) /\ ~Probes(asked)
  BY AllHaveEnded DEF Pings, Probes, VendorKinds
<1>2. JobsOf(asked) = jobs /\ jobs \in Seq(Int) /\ IsInjective(jobs)
  BY <1>1, PortsAreOnce DEF JobsOf
<1>3. /\ IsSequence(ended) /\ Once(ended) /\ EndedJobs = Range(jobs) /\ ResultInv
      /\ report = Results
  BY <1>2, AllHaveEnded
<1>4. report = ByPort
  BY <1>1, <1>3 DEF Results, VendorKinds
<1> HIDE DEF jobs
<1>5. Range(jobs) = ToSet(jobs) /\ Range(jobs) \subseteq Int
  BY <1>2 DEF Range, ToSet
<1>6. \A i \in DOMAIN ended : ended[i].job \in Int
  BY <1>3, <1>5 DEF EndedJobs
<1>7. ended \in Seq(Range(ended))
  BY <1>3 DEF IsSequence
<1>8. /\ report \in Seq(Range(ended))
      /\ {report[i] : i \in DOMAIN report} = {ended[i] : i \in DOMAIN ended}
      /\ \A i, j \in DOMAIN report : i < j => report[i].job < report[j].job
  BY <1>3, <1>4, <1>6, <1>7, ByPortIsSorted
<1>9. \A i \in 1..Len(report) - 1 : report[i].job < report[i + 1].job
  <2>1. ASSUME NEW i \in 1..Len(report) - 1 PROVE report[i].job < report[i + 1].job
    <3>1. i \in DOMAIN report /\ i + 1 \in DOMAIN report /\ i < i + 1
      BY <1>8
    <3> QED
      BY <1>8, <3>1
  <2> QED
    BY <2>1
<1>10. \A i \in DOMAIN report : \E k \in DOMAIN ended : report[i] = ended[k]
  BY <1>8
<1>11. \A k \in DOMAIN ended : \E i \in DOMAIN report : report[i] = ended[k]
  BY <1>8
<1>12. \A k \in DOMAIN ended : ended[k].result = ProbeTcpPort(ended[k].job)
  <2>1. ASSUME NEW k \in DOMAIN ended PROVE ended[k].result = ProbeTcpPort(ended[k].job)
    <3>1. ResultsFor(ended[k].job) = {ProbeTcpPort(ended[k].job)}
      BY <1>1 DEF ResultsFor
    <3> QED
      BY <1>3, <3>1 DEF ResultInv
  <2> QED
    BY <2>1
<1>13. {report[i].job : i \in DOMAIN report} = ToSet(jobs)
  <2>1. {report[i].job : i \in DOMAIN report} = EndedJobs
    BY <1>10, <1>11 DEF EndedJobs
  <2> QED
    BY <1>3, <1>5, <2>1
<1>14. {report[i].job : i \in {k \in DOMAIN report : report[k].result}} = OpenPorts \cap ToSet(jobs)
  <2>1. \A i \in DOMAIN report : report[i].result = (report[i].job \in OpenPorts)
    BY <1>10, <1>12 DEF ProbeTcpPort
  <2> QED
    BY <1>13, <2>1
<1>15. \A table \in {StandardPorts, IndustrialPorts, GatewayQuickPorts} :
           Distinct(table) = table
  BY TablesNameOnce, DistinctIsSame
<1> QED
  BY <1>9, <1>13, <1>14, <1>15 DEF PortsAreTrue, jobs

\* The checks, in the order of the servers.
LEMMA EachCheckInOrder ==
    ASSUME JobsInv, phase = "reported", asked.kind = "checks"
    PROVE  [i \in DOMAIN report |-> report[i].job] = Checks(asked)
<1> DEFINE jobs == Checks(asked)
<1>1. asked \in Requests /\ ~Pings(asked) /\ ~Probes(asked)
  BY AllHaveEnded DEF Pings, Probes, VendorKinds
<1>2. JobsOf(asked) = jobs /\ Threads(asked) = 1
  BY <1>1 DEF JobsOf, Threads, InTurn
<1>3. /\ DOMAIN jobs = DOMAIN ended /\ IsSequence(jobs) /\ report = Results
      /\ \A k \in DOMAIN ended : ended[k].job = jobs[k]
  BY <1>2, AllHaveEnded
<1>4. report = ended
  BY <1>1, <1>3 DEF Results, VendorKinds
<1> HIDE DEF jobs
<1>5. jobs = [i \in DOMAIN jobs |-> jobs[i]]
  BY <1>3 DEF IsSequence
<1> QED
  BY <1>3, <1>4, <1>5 DEF jobs

\* In whatever order a pool's jobs end, and however many are done at a time: the report
\* of a ping has each target with the result of its own host, that of a scan each port
\* once, in order and with what the probe of that port has found, and the checks are in
\* the order of the servers (service.py:111-134, ports.py:107-135, dns.py:169-177).
THEOREM PoolReportsAreTrue ==
    ASSUME PingCount <= AllLost
    PROVE  JobsSpec => []ReportsAreTrue
<1>1. JobsInit => JobsInv
  BY JobsStart
<1>2. JobsInv /\ [JobsNext]_jobVars => JobsInv'
  BY JobsKeepInv
<1>3. JobsInv => ReportsAreTrue
  <2>1. SUFFICES ASSUME JobsInv, phase = "reported" PROVE PoolIsTrue
    BY DEF ReportsAreTrue
  <2>2. asked.kind # "checks" => Once(ended)
    BY <2>1, AllHaveEnded, JobsAreOnce
  <2> QED
    BY <2>1, <2>2, EachTargetItsResult, EachPortInOrder, EachCheckInOrder DEF PoolIsTrue
<1> QED
  BY <1>1, <1>2, <1>3, PTL DEF JobsSpec

-------------------------------------------------------------------------------
(* Lists made of lists.                                                            *)

\* FlattenSeq, one list after the other.
LEMMA FlattenSteps ==
    ASSUME NEW S, NEW seqs \in Seq(Seq(S))
    PROVE  \E f \in [0..Len(seqs) -> Seq(S)] :
               /\ f[0] = <<>>
               /\ \A i \in 1..Len(seqs) : f[i] = f[i - 1] \o seqs[i]
               /\ FlattenSeq(seqs) = f[Len(seqs)]
<1> DEFINE n == Len(seqs)
           D == Seq(S)
           step == [i \in 1..n |-> [s \in D |-> s \o seqs[i]]]
           Steps(f) == f = [i \in 1..n |-> IF i = 1 THEN seqs[i] ELSE f[i - 1] \o seqs[i]]
           IsIt(f) == /\ f[0] = <<>>
                      /\ \A i \in 1..n : f[i] = f[i - 1] \o seqs[i]
                      /\ FlattenSeq(seqs) = f[n]
<1>1. n \in Nat /\ <<>> \in D /\ \A i \in 1..n : seqs[i] \in D
  OBVIOUS
<1>2. \A s, t \in D : s \o t \in D /\ <<>> \o s = s
  OBVIOUS
<1>3. n = 0 => FlattenSeq(seqs) = <<>>
  BY DEF FlattenSeq
<1>4. n # 0 => FlattenSeq(seqs) = (CHOOSE f : Steps(f))[n]
  BY DEF FlattenSeq
<1> HIDE DEF n, D
<1>5. step \in [1..n -> [D -> D]]
  BY <1>1, <1>2
<1>6. PICK f \in Runs(n, D, <<>>, step) : TRUE
  <2> HIDE DEF step
  <2> QED
    BY <1>1, <1>5, Recursion
<1>7. /\ f \in [0..n -> D] /\ f[0] = <<>>
      /\ \A i \in 1..n : f[i] = step[i][f[i - 1]] /\ f[i - 1] \in D
  <2> HIDE DEF step
  <2> QED
    BY <1>1, <1>6 DEF Runs
<1>8. \A i \in 1..n : f[i] = f[i - 1] \o seqs[i]
  BY <1>7
<1> HIDE DEF step
<1>9. SUFFICES \E g \in [0..n -> D] : IsIt(g)
  BY DEF n, D
<1>10. CASE n = 0
  <2>1. IsIt(f)
    BY <1>3, <1>7, <1>8, <1>10
  <2> QED
    BY <1>7, <2>1
<1>11. CASE n # 0
  <2> DEFINE h == [i \in 1..n |-> f[i]]
  <2>1. Steps(h)
    <3>1. ASSUME NEW i \in 1..n
          PROVE  h[i] = IF i = 1 THEN seqs[i] ELSE h[i - 1] \o seqs[i]
      <4>1. f[i] = f[i - 1] \o seqs[i]
        BY <1>8
      <4>2. CASE i = 1
        <5>1. i - 1 = 0 /\ seqs[i] \in D
          BY <1>1, <4>2
        <5>2. f[i] = <<>> \o seqs[i]
          BY <1>7, <4>1, <5>1, Zenon
        <5>3. f[i] = seqs[i]
          BY <1>2, <5>1, <5>2, Zenon
        <5> QED
          BY <4>2, <5>3
      <4>3. CASE i # 1
        <5>1. i - 1 \in 1..n
          BY <1>1, <4>3
        <5> QED
          BY <4>1, <4>3, <5>1
      <4> QED
        BY <4>2, <4>3
    <3> QED
      BY <3>1
  <2> DEFINE g == CHOOSE z : Steps(z)
  <2> HIDE DEF h
  <2>2. Steps(g)
    BY <2>1
  <2>3. FlattenSeq(seqs) = g[n]
    BY <1>4, <1>11
  <2>4. \A i \in 1..n : g[i] = IF i = 1 THEN seqs[i] ELSE g[i - 1] \o seqs[i]
    BY <2>2, Zenon
  <2> HIDE DEF g
  <2> DEFINE e == [i \in 0..n |-> IF i = 0 THEN <<>> ELSE g[i]]
             T == {i \in 0..n : e[i] \in D}
  <2>5. e[0] = <<>> /\ e[n] = g[n] /\ e = [i \in 0..n |-> e[i]]
        /\ \A i \in 1..n : e[i] = g[i]
    <3>1. 0 \in 0..n /\ n \in 0..n /\ \A i \in 1..n : i \in 0..n /\ i # 0
      BY <1>1
    <3> QED
      BY <1>11, <3>1
  <2> HIDE DEF e
  <2>6. \A i \in 1..n : e[i] = e[i - 1] \o seqs[i]
    <3>1. ASSUME NEW i \in 1..n PROVE e[i] = e[i - 1] \o seqs[i]
      <4>1. CASE i = 1
        <5>1. e[1] = seqs[1] /\ seqs[1] \in D
          BY <1>1, <2>4, <2>5, <4>1
        <5>2. e[1] = e[0] \o seqs[1]
          BY <1>2, <2>5, <5>1
        <5> QED
          BY <4>1, <5>2
      <4>2. CASE i # 1
        <5>1. i - 1 \in 1..n
          BY <1>1, <4>2
        <5> QED
          BY <2>4, <2>5, <4>2, <5>1
      <4> QED
        BY <4>1, <4>2
    <3> QED
      BY <3>1
  <2>7. \A i \in 0..n : i \in T
    <3>1. 0 \in T
      BY <1>1, <2>5
    <3>2. ASSUME NEW i \in 1..n, i - 1 \in T PROVE i \in T
      <4>1. e[i - 1] \in D /\ seqs[i] \in D /\ e[i] = e[i - 1] \o seqs[i]
        BY <1>1, <2>6, <3>2
      <4>2. e[i - 1] \o seqs[i] \in D
        BY <1>2, <4>1, Zenon
      <4>3. e[i] \in D
        BY <4>1, <4>2, Zenon
      <4> QED
        BY <1>1, <4>3
    <3> HIDE DEF T
    <3> QED
      BY <1>1, <3>1, <3>2, Induct
  <2>8. e \in [0..n -> D]
    BY <2>5, <2>7
  <2>9. IsIt(e)
    BY <2>3, <2>5, <2>6
  <2> QED
    BY <2>8, <2>9
<1> QED
  BY <1>10, <1>11

\* The lists in a row have what each of them has.
LEMMA FlattenHas ==
    ASSUME NEW S, NEW seqs \in Seq(Seq(S))
    PROVE  /\ FlattenSeq(seqs) \in Seq(S)
           /\ Range(FlattenSeq(seqs)) = UNION {Range(seqs[i]) : i \in DOMAIN seqs}
<1> DEFINE n == Len(seqs)
           up(i) == UNION {Range(seqs[j]) : j \in 1..i}
<1>1. PICK f \in [0..n -> Seq(S)] :
          /\ f[0] = <<>>
          /\ \A i \in 1..n : f[i] = f[i - 1] \o seqs[i]
          /\ FlattenSeq(seqs) = f[n]
  BY FlattenSteps
<1>2. n \in Nat /\ DOMAIN seqs = 1..n /\ \A i \in 1..n : seqs[i] \in Seq(S)
  OBVIOUS
<1> HIDE DEF n
<1>3. \A i \in 0..n : f[i] \in Seq(S)
  OBVIOUS
<1> DEFINE T == {i \in 0..n : Range(f[i]) = up(i)}
<1>4. 0 \in T
  BY <1>1, <1>2 DEF Range
<1>5. ASSUME NEW i \in 1..n, i - 1 \in T PROVE i \in T
  <2>1. f[i - 1] \in Seq(S) /\ seqs[i] \in Seq(S) /\ f[i] = f[i - 1] \o seqs[i]
    <3>1. i - 1 \in 0..n
      BY <1>2
    <3> QED
      BY <1>1, <1>2, <1>3, <3>1
  <2>2. Range(f[i]) = Range(f[i - 1]) \cup Range(seqs[i])
    BY <2>1, RangeConcatenation
  <2>3. 1..i = 1..(i - 1) \cup {i}
    OBVIOUS
  <2>4. up(i) = up(i - 1) \cup Range(seqs[i])
    <3> DEFINE r(j) == Range(seqs[j])
    <3>1. up(i) = UNION {r(j) : j \in 1..i} /\ up(i - 1) = UNION {r(j) : j \in 1..i - 1}
      OBVIOUS
    <3> HIDE DEF r, up
    <3>2. UNION {r(j) : j \in 1..i} = (UNION {r(j) : j \in 1..i - 1}) \cup r(i)
      BY <2>3
    <3> QED
      BY <3>1, <3>2 DEF r
  <2>5. Range(f[i - 1]) = up(i - 1)
    BY <1>5
  <2> HIDE DEF up
  <2>6. Range(f[i]) = up(i)
    BY <2>2, <2>4, <2>5
  <2> QED
    BY <1>2, <2>6
<1>6. \A i \in 0..n : i \in T
  <2> HIDE DEF T
  <2> QED
    BY <1>2, <1>4, <1>5, Induct
<1>7. n \in 0..n
  BY <1>2
<1> QED
  BY <1>1, <1>2, <1>3, <1>6, <1>7

\* The hits of a protocol, by their places.
HitsOf(s, p) == {i \in DOMAIN s : s[i].protocol = p}

IsJoined(st, s, t) == st = s \o t

\* The places where the first of two lists in a row has a hit of p, with the one of the second.
OnePlaceMore(st, s, j, p) == HitsOf(st, p) = HitsOf(s, p) \cup {Len(s) + j}

\* One list after another has a protocol's hits where the two have them.
LEMMA ConcatPlaces ==
    ASSUME NEW S, NEW p, NEW s \in Seq(S), NEW t \in Seq(S), NEW st, IsJoined(st, s, t),
           NEW j, HitsOf(t, p) = {j}
    PROVE  OnePlaceMore(st, s, j, p)
<1>0. j \in DOMAIN t /\ t[j].protocol = p
  BY DEF HitsOf
<1>1. /\ Len(s) \in Nat /\ Len(t) \in Nat /\ DOMAIN s = 1..Len(s) /\ DOMAIN t = 1..Len(t)
      /\ DOMAIN st = 1..Len(s) + Len(t)
      /\ \A i \in 1..Len(s) : st[i] = s[i]
      /\ \A i \in 1..Len(t) : st[Len(s) + i] = t[i]
  BY DEF IsJoined
<1>2. ASSUME NEW i \in DOMAIN st, i \notin 1..Len(s)
      PROVE  i - Len(s) \in 1..Len(t) /\ st[i] = t[i - Len(s)]
  <2>1. i - Len(s) \in 1..Len(t) /\ Len(s) + (i - Len(s)) = i
    BY <1>1, <1>2
  <2> QED
    BY <1>1, <2>1
<1>3. Len(s) + j \in DOMAIN st /\ st[Len(s) + j].protocol = p
  BY <1>0, <1>1
<1>4. ASSUME NEW i \in DOMAIN st, st[i].protocol = p PROVE i \in HitsOf(s, p) \cup {Len(s) + j}
  <2>1. CASE i \in 1..Len(s)
    BY <1>1, <1>4, <2>1 DEF HitsOf
  <2>2. CASE i \notin 1..Len(s)
    <3>1. i - Len(s) \in HitsOf(t, p)
      BY <1>1, <1>2, <1>4, <2>2 DEF HitsOf
    <3>2. i - Len(s) = j
      BY <3>1
    <3> QED
      BY <1>1, <3>2
  <2> QED
    BY <2>1, <2>2
<1>5. ASSUME NEW i \in HitsOf(s, p) PROVE i \in DOMAIN st /\ st[i].protocol = p
  BY <1>1 DEF HitsOf
<1>6. HitsOf(st, p) = HitsOf(s, p) \cup {Len(s) + j}
  BY <1>3, <1>4, <1>5 DEF HitsOf
<1> QED
  BY <1>6 DEF OnePlaceMore

LEMMA ConcatNone ==
    ASSUME NEW S, NEW p, NEW s \in Seq(S), NEW t \in Seq(S), NEW st, IsJoined(st, s, t),
           HitsOf(t, p) = {}
    PROVE  HitsOf(st, p) = HitsOf(s, p)
<1>1. /\ Len(s) \in Nat /\ Len(t) \in Nat /\ DOMAIN s = 1..Len(s) /\ DOMAIN t = 1..Len(t)
      /\ DOMAIN st = 1..Len(s) + Len(t)
      /\ \A i \in 1..Len(s) : st[i] = s[i]
      /\ \A i \in 1..Len(t) : st[Len(s) + i] = t[i]
  BY DEF IsJoined
<1>2. ASSUME NEW i \in DOMAIN st, st[i].protocol = p PROVE i \in HitsOf(s, p)
  <2>1. CASE i \in 1..Len(s)
    BY <1>1, <1>2, <2>1 DEF HitsOf
  <2>2. CASE i \notin 1..Len(s)
    <3>1. i - Len(s) \in 1..Len(t) /\ Len(s) + (i - Len(s)) = i
      BY <1>1, <2>2
    <3>2. i - Len(s) \in HitsOf(t, p)
      BY <1>1, <1>2, <3>1 DEF HitsOf
    <3> QED
      BY <3>2
  <2> QED
    BY <2>1, <2>2
<1>3. ASSUME NEW i \in HitsOf(s, p) PROVE i \in DOMAIN st /\ st[i].protocol = p
  BY <1>1 DEF HitsOf
<1>4. HitsOf(st, p) = HitsOf(s, p)
  BY <1>2, <1>3 DEF HitsOf
<1> QED
  BY <1>4

\* Of lists that each have at most one hit of p.
OneEach(seqs, p) ==
    \A i \in DOMAIN seqs :
        HitsOf(seqs[i], p) = {} \/ \E j \in DOMAIN seqs[i] : HitsOf(seqs[i], p) = {j}

\* When no list has more than one hit of p, they have together as many as have one.
LEMMA FlattenCounts ==
    ASSUME NEW S, NEW p, NEW seqs \in Seq(Seq(S)), OneEach(seqs, p)
    PROVE  /\ IsFiniteSet(HitsOf(FlattenSeq(seqs), p))
           /\ Cardinality(HitsOf(FlattenSeq(seqs), p))
                  = Cardinality({i \in DOMAIN seqs : HitsOf(seqs[i], p) # {}})
<1> DEFINE n == Len(seqs)
           with(i) == {j \in 1..i : HitsOf(seqs[j], p) # {}}
<1>1. PICK f \in [0..n -> Seq(S)] :
          /\ f[0] = <<>>
          /\ \A i \in 1..n : f[i] = f[i - 1] \o seqs[i]
          /\ FlattenSeq(seqs) = f[n]
  BY FlattenSteps
<1>2. n \in Nat /\ DOMAIN seqs = 1..n /\ \A i \in 1..n : seqs[i] \in Seq(S)
  OBVIOUS
<1> HIDE DEF n
<1>3. \A i \in 0..n : f[i] \in Seq(S)
  OBVIOUS
<1> DEFINE Same(i) == /\ IsFiniteSet(HitsOf(f[i], p)) /\ IsFiniteSet(with(i))
                      /\ Cardinality(HitsOf(f[i], p)) = Cardinality(with(i))
           H == {i \in 0..n : Same(i)}
<1>4. 0 \in H
  <2>1. HitsOf(f[0], p) = {} /\ with(0) = {}
    BY <1>1 DEF HitsOf
  <2> HIDE DEF with
  <2>2. Same(0)
    BY <2>1, FS_EmptySet
  <2> QED
    BY <1>2, <2>2
<1>5. ASSUME NEW i \in 1..n, i - 1 \in H PROVE i \in H
  <2>1. f[i - 1] \in Seq(S) /\ seqs[i] \in Seq(S) /\ f[i] = f[i - 1] \o seqs[i]
    <3>1. i - 1 \in 0..n
      BY <1>2
    <3> QED
      BY <1>1, <1>2, <1>3, <3>1
  <2>2. Same(i - 1)
    BY <1>5
  <2>3. 1..i = 1..(i - 1) \cup {i} /\ i \notin 1..(i - 1)
    OBVIOUS
  <2>4. SUFFICES Same(i)
    BY <1>2
  <2>5. CASE HitsOf(seqs[i], p) = {}
    <3>1. HitsOf(f[i], p) = HitsOf(f[i - 1], p)
      <4> DEFINE s == f[i - 1]
                 t == seqs[i]
                 st == f[i]
      <4>1. s \in Seq(S) /\ t \in Seq(S) /\ HitsOf(t, p) = {} /\ IsJoined(st, s, t)
        BY <2>1, <2>5, Zenon DEF IsJoined
      <4> HIDE DEF s, t, st
      <4>2. HitsOf(st, p) = HitsOf(s, p)
        BY <4>1, ConcatNone
      <4> QED
        BY <4>2 DEF s, st
    <3>2. with(i) = with(i - 1)
      BY <2>3, <2>5
    <3> HIDE DEF with
    <3> QED
      BY <2>2, <3>1, <3>2
  <2>6. CASE HitsOf(seqs[i], p) # {}
    <3>1. PICK j \in DOMAIN seqs[i] : HitsOf(seqs[i], p) = {j}
      BY <1>2, <2>6 DEF OneEach
    <3>2. HitsOf(f[i], p) = HitsOf(f[i - 1], p) \cup {Len(f[i - 1]) + j}
      <4> DEFINE s == f[i - 1]
                 t == seqs[i]
                 st == f[i]
      <4>1. s \in Seq(S) /\ t \in Seq(S) /\ j \in DOMAIN t /\ HitsOf(t, p) = {j} /\ IsJoined(st, s, t)
        BY <2>1, <3>1, Zenon DEF IsJoined
      <4> HIDE DEF s, t, st
      <4>2. OnePlaceMore(st, s, j, p)
        BY <4>1, ConcatPlaces
      <4> QED
        BY <4>2 DEF s, st, OnePlaceMore
    <3>3. Len(f[i - 1]) + j \notin HitsOf(f[i - 1], p)
      <4>1. j \in Nat /\ j > 0 /\ Len(f[i - 1]) \in Nat /\ DOMAIN f[i - 1] = 1..Len(f[i - 1])
        BY <2>1
      <4> QED
        BY <4>1 DEF HitsOf
    <3>4. with(i) = with(i - 1) \cup {i} /\ i \notin with(i - 1)
      BY <2>3, <2>6
    <3> HIDE DEF with
    <3>5. /\ IsFiniteSet(HitsOf(f[i], p))
          /\ Cardinality(HitsOf(f[i], p)) = Cardinality(HitsOf(f[i - 1], p)) + 1
      <4> DEFINE h == HitsOf(f[i - 1], p)
                 x == Len(f[i - 1]) + j
      <4>1. IsFiniteSet(h) /\ x \notin h /\ HitsOf(f[i], p) = h \cup {x}
        BY <2>1, <2>2, <3>2, <3>3
      <4> HIDE DEF h, x
      <4>2. IsFiniteSet(h \cup {x}) /\ Cardinality(h \cup {x}) = Cardinality(h) + 1
        BY <4>1, FS_AddElement
      <4> QED
        BY <4>1, <4>2 DEF h
    <3>6. IsFiniteSet(with(i)) /\ Cardinality(with(i)) = Cardinality(with(i - 1)) + 1
      <4> DEFINE w == with(i - 1)
      <4>1. IsFiniteSet(w) /\ i \notin w /\ with(i) = w \cup {i}
        BY <2>2, <3>4
      <4> HIDE DEF w
      <4>2. IsFiniteSet(w \cup {i}) /\ Cardinality(w \cup {i}) = Cardinality(w) + 1
        BY <4>1, FS_AddElement
      <4> QED
        BY <4>1, <4>2 DEF w
    <3> QED
      BY <2>2, <3>5, <3>6
  <2> QED
    BY <2>5, <2>6
<1>6. \A i \in 0..n : i \in H
  <2> HIDE DEF H
  <2> QED
    BY <1>2, <1>4, <1>5, Induct
<1>7. Same(n)
  <2>1. n \in 0..n
    BY <1>2
  <2>2. n \in H
    BY <1>6, <2>1, Zenon
  <2> HIDE DEF Same
  <2> QED
    BY <2>2
<1>8. with(n) = {i \in DOMAIN seqs : HitsOf(seqs[i], p) # {}}
  BY <1>2
<1> HIDE DEF with
<1> QED
  BY <1>1, <1>7, <1>8

-------------------------------------------------------------------------------
(* Lists made of some places of another.                                           *)

\* The places of a list are finitely many numbers.
LEMMA PlacesAreFinite ==
    ASSUME NEW s, IsSequence(s), NEW places \in SUBSET DOMAIN s
    PROVE  places \in SUBSET Int /\ IsFiniteSet(places)
<1>1. Len(s) \in Nat /\ DOMAIN s = 1..Len(s)
  BY DEF IsSequence
<1>2. IsFiniteSet(1..Len(s))
  <2> DEFINE n == Len(s)
  <2>1. 1 \in Int /\ n \in Int
    BY <1>1
  <2> HIDE DEF n
  <2>2. IsFiniteSet(1..n)
    BY <2>1, FS_Interval
  <2> QED
    BY <2>2 DEF n
<1> QED
  BY <1>1, <1>2, FS_Subset

\* The elements at the places, in their order.
LEMMA PickedHas ==
    ASSUME NEW s, IsSequence(s), NEW places \in SUBSET DOMAIN s
    PROVE  /\ IsSequence(Picked(s, places))
           /\ Range(Picked(s, places)) = {s[i] : i \in places}
<1> DEFINE a == Ascending(places)
           t == Picked(s, places)
<1>1. places \in SUBSET Int /\ IsFiniteSet(places)
  BY PlacesAreFinite
<1>2. a \in Seq(places) /\ {a[i] : i \in DOMAIN a} = places
  BY <1>1, AscendingIsSorted
<1>3. t = [i \in DOMAIN a |-> s[a[i]]]
  BY DEF Picked
<1> HIDE DEF a, t
<1>4. Len(a) \in Nat /\ DOMAIN a = 1..Len(a)
  BY <1>2
<1>5. DOMAIN t = 1..Len(a) /\ t = [i \in 1..Len(a) |-> t[i]]
  BY <1>3, <1>4
<1>6. IsSequence(t)
  BY <1>4, <1>5, Listed
<1>7. Range(t) = {s[a[i]] : i \in DOMAIN a}
  BY <1>3 DEF Range
<1>8. {s[a[i]] : i \in DOMAIN a} = {s[i] : i \in places}
  BY <1>2
<1> QED
  BY <1>6, <1>7, <1>8 DEF t

\* Of a place with a key the first and the last of the same key.
LEMMA FirstAndLast ==
    ASSUME NEW keys, IsSequence(keys), NEW i \in DOMAIN keys
    PROVE  /\ \E j \in FirstPlaces(keys) : keys[j] = keys[i] /\ j <= i
           /\ LastPlace(keys, keys[i]) \in DOMAIN keys
           /\ keys[LastPlace(keys, keys[i])] = keys[i]
<1> DEFINE n == Len(keys)
           same == {j \in DOMAIN keys : keys[j] = keys[i]}
           down == {n - j : j \in same}
<1>1. n \in Nat /\ DOMAIN keys = 1..n
  BY DEF IsSequence
<1> HIDE DEF n
<1>2. \E j \in FirstPlaces(keys) : keys[j] = keys[i] /\ j <= i
  <2>1. same \in SUBSET Nat /\ same # {}
    BY <1>1
  <2>2. PICK j \in same : \A k \in same : j <= k
    BY <2>1, LeastNumber
  <2>3. j \in DOMAIN keys /\ keys[j] = keys[i] /\ j <= i
    BY <2>2
  <2>4. ASSUME NEW k \in 1..j - 1 PROVE keys[k] # keys[j]
    <3>1. k \in DOMAIN keys /\ ~(j <= k)
      BY <1>1, <2>3
    <3> QED
      BY <2>2, <2>3, <3>1
  <2> QED
    BY <2>3, <2>4 DEF FirstPlaces
<1>3. \E j \in DOMAIN keys :
          keys[j] = keys[i] /\ \A k \in DOMAIN keys : keys[k] = keys[i] => k <= j
  <2>1. down \in SUBSET Nat /\ down # {}
    BY <1>1
  <2> HIDE DEF down
  <2>2. PICK d \in down : \A e \in down : d <= e
    BY <2>1, LeastNumber
  <2>3. PICK j \in same : d = n - j
    BY <2>2 DEF down
  <2>4. ASSUME NEW k \in DOMAIN keys, keys[k] = keys[i] PROVE k <= j
    <3>1. n - k \in down
      BY <2>4 DEF down
    <3>2. n - j <= n - k
      BY <2>2, <2>3, <3>1
    <3> QED
      BY <1>1, <3>2
  <2> QED
    BY <2>3, <2>4
<1>4. /\ LastPlace(keys, keys[i]) \in DOMAIN keys
      /\ keys[LastPlace(keys, keys[i])] = keys[i]
  BY <1>3 DEF LastPlace
<1> QED
  BY <1>2, <1>4

\* What is left of a list when one of each key is: its elements, one for each.
IsOneOfEach(t, s, keys) ==
    /\ IsSequence(t)
    /\ \A x \in Range(t) : \E i \in DOMAIN s : x = s[i]
    /\ \A i \in DOMAIN s : \E j \in DOMAIN s : keys[j] = keys[i] /\ s[j] \in Range(t)

LEMMA FirstIsOneOfEach ==
    ASSUME NEW s, IsSequence(s), NEW keys, IsSequence(keys), DOMAIN keys = DOMAIN s
    PROVE  /\ IsOneOfEach(KeepFirst(s, keys), s, keys)
           /\ \A i \in FirstPlaces(keys) : s[i] \in Range(KeepFirst(s, keys))
<1> DEFINE first == FirstPlaces(keys)
<1>1. first \in SUBSET DOMAIN s
  BY DEF FirstPlaces
<1>2. IsSequence(Picked(s, first)) /\ Range(Picked(s, first)) = {s[i] : i \in first}
  BY <1>1, PickedHas
<1>3. KeepFirst(s, keys) = Picked(s, first)
  BY DEF KeepFirst
<1>4. \A i \in DOMAIN keys : \E j \in first : keys[j] = keys[i]
  BY FirstAndLast
<1> HIDE DEF first
<1>5. IsOneOfEach(Picked(s, first), s, keys)
  BY <1>1, <1>2, <1>4 DEF IsOneOfEach
<1> QED
  BY <1>2, <1>3, <1>5 DEF first

LEMMA LastIsOneOfEach ==
    ASSUME NEW s, IsSequence(s), NEW keys, IsSequence(keys), DOMAIN keys = DOMAIN s
    PROVE  IsOneOfEach(KeepLast(s, keys), s, keys)
<1> DEFINE first == FirstPlaces(keys)
           picked == Picked(keys, first)
           t == KeepLast(s, keys)
<1>1. first \in SUBSET DOMAIN keys
  BY DEF FirstPlaces
<1>2. IsSequence(picked) /\ Range(picked) = {keys[i] : i \in first}
  BY <1>1, PickedHas
<1>3. t = [k \in DOMAIN picked |-> s[LastPlace(keys, picked[k])]]
  BY DEF KeepLast
<1>4. \A i \in DOMAIN keys : \E j \in first : keys[j] = keys[i]
  BY FirstAndLast
<1>5. \A i \in DOMAIN keys : /\ LastPlace(keys, keys[i]) \in DOMAIN keys
                             /\ keys[LastPlace(keys, keys[i])] = keys[i]
  BY FirstAndLast
<1> HIDE DEF first, picked, t
<1>6. Len(picked) \in Nat /\ DOMAIN picked = 1..Len(picked)
  BY <1>2 DEF IsSequence
<1>7. IsSequence(t)
  <2>1. DOMAIN t = 1..Len(picked) /\ t = [i \in 1..Len(picked) |-> t[i]]
    BY <1>3, <1>6
  <2> QED
    BY <1>6, <2>1, Listed
<1>8. ASSUME NEW k \in DOMAIN picked PROVE \E i \in DOMAIN keys : picked[k] = keys[i]
  <2>1. picked[k] \in Range(picked)
    BY DEF Range
  <2> QED
    BY <1>1, <1>2, <2>1
<1>9. ASSUME NEW x \in Range(t) PROVE \E i \in DOMAIN s : x = s[i]
  <2>1. PICK k \in DOMAIN picked : x = s[LastPlace(keys, picked[k])]
    BY <1>3 DEF Range
  <2>2. PICK i \in DOMAIN keys : picked[k] = keys[i]
    BY <1>8
  <2> QED
    BY <1>5, <2>1, <2>2
<1>10. ASSUME NEW i \in DOMAIN s PROVE \E j \in DOMAIN s : keys[j] = keys[i] /\ s[j] \in Range(t)
  <2>1. PICK j \in first : keys[j] = keys[i]
    BY <1>4
  <2>2. keys[i] \in Range(picked)
    BY <1>2, <2>1
  <2>3. PICK k \in DOMAIN picked : picked[k] = keys[i]
    BY <2>2 DEF Range
  <2>4. t[k] = s[LastPlace(keys, keys[i])] /\ k \in DOMAIN t
    BY <1>3, <2>3
  <2>5. s[LastPlace(keys, keys[i])] \in Range(t)
    BY <2>4 DEF Range
  <2> QED
    BY <1>5, <2>5
<1> QED
  BY <1>7, <1>9, <1>10 DEF IsOneOfEach, t

\* A list of what f gives for each place of another.
LEMMA IsListOf ==
    ASSUME NEW s, IsSequence(s), NEW t, DOMAIN t = DOMAIN s, t = [i \in DOMAIN s |-> t[i]]
    PROVE  IsSequence(t)
<1>1. Len(s) \in Nat /\ DOMAIN s = 1..Len(s)
  BY DEF IsSequence
<1> QED
  BY <1>1, Listed

-------------------------------------------------------------------------------
(* What a frame is taken for.                                                      *)

\* A frame is bytes; what is not in it is read as zero.
IsFrame(f) == f.bytes \in Seq(0..255) /\ f.more \in Nat

LEMMA FrameNumbers ==
    ASSUME NEW f, IsFrame(f)
    PROVE  /\ Size(f) \in Nat
           /\ \A n \in Nat : Byte(f, n) \in 0..255 /\ Word(f, n) \in Nat
<1> DEFINE b == f.bytes
<1>1. b \in Seq(0..255) /\ f.more \in Nat
  BY DEF IsFrame
<1> HIDE DEF b
<1>2. Len(b) \in Nat /\ \A i \in DOMAIN b : b[i] \in 0..255
  <2> DEFINE B == 0..255
  <2>1. b \in Seq(B)
    BY <1>1
  <2> HIDE DEF B
  <2>2. Len(b) \in Nat /\ \A i \in DOMAIN b : b[i] \in B
    BY <2>1
  <2> QED
    BY <2>2 DEF B
<1>3. \A n \in Nat : Byte(f, n) = IF n - 11 \in DOMAIN b THEN b[n - 11] ELSE 0
  BY DEF Byte, b
<1>4. \A n \in Nat : Byte(f, n) \in 0..255
  <2>1. ASSUME NEW n \in Nat PROVE Byte(f, n) \in 0..255
    <3>1. CASE n - 11 \in DOMAIN b
      BY <1>2, <1>3, <3>1
    <3>2. CASE n - 11 \notin DOMAIN b
      BY <1>3, <3>2
    <3> QED
      BY <3>1, <3>2
  <2> QED
    BY <2>1
<1>5. ASSUME NEW n \in Nat PROVE Word(f, n) \in Nat
  <2> DEFINE x == Byte(f, n)
             y == Byte(f, n + 1)
  <2>1. x \in 0..255 /\ y \in 0..255
    <3>1. n + 1 \in Nat
      OBVIOUS
    <3> QED
      BY <1>4, <3>1
  <2>2. Word(f, n) = 256 * x + y
    BY DEF Word
  <2> HIDE DEF x, y
  <2> QED
    BY <2>1, <2>2
<1>6. Size(f) \in Nat
  <2>1. Size(f) = 12 + Len(b) + f.more
    BY DEF Size, b
  <2> QED
    BY <1>1, <1>2, <2>1
<1> QED
  BY <1>4, <1>5, <1>6

\* A frame has tags exactly when it has one where the type is.
LEMMA TaggedHaveVlans ==
    ASSUME NEW f, IsFrame(f)
    PROVE  VlanStack(f).vlans # <<>> <=> IsTagged(f)
<1> DEFINE tag(k) == 12 + 4 * k + 4 <= Size(f) /\ Word(f, 12 + 4 * k) \in VlanTypes
           n == Len(f.bytes)
           ends(m) == ~tag(m) /\ \A k \in 0..m - 1 : tag(k)
           tags == CHOOSE m \in 0..n : ends(m)
           out == {m \in 0..n : ~tag(m)}
<1>1. n \in Nat /\ DOMAIN f.bytes = 1..n
  BY DEF IsFrame
<1>2. ~tag(n)
  <2>1. Byte(f, 12 + 4 * n) = 0 /\ Byte(f, 12 + 4 * n + 1) = 0
    <3>1. 12 + 4 * n - 11 \notin DOMAIN f.bytes /\ 12 + 4 * n + 1 - 11 \notin DOMAIN f.bytes
      BY <1>1
    <3> QED
      BY <3>1 DEF Byte
  <2>2. Word(f, 12 + 4 * n) = 0
    BY <2>1 DEF Word
  <2> QED
    BY <2>2 DEF VlanTypes
<1> HIDE DEF n
<1>3. \E m \in 0..n : ends(m)
  <2> HIDE DEF tag
  <2>1. out \in SUBSET Nat /\ out # {}
    BY <1>1, <1>2
  <2>2. PICK m \in out : \A k \in out : m <= k
    BY <2>1, LeastNumber
  <2>3. ASSUME NEW k \in 0..m - 1 PROVE tag(k)
    <3>1. k \in 0..n /\ ~(m <= k)
      BY <1>1, <2>2
    <3> QED
      BY <2>2, <3>1
  <2> QED
    BY <2>2, <2>3
<1> HIDE DEF tag
<1>4. tags \in 0..n /\ ends(tags)
  BY <1>3
<1>5. VlanStack(f).vlans = [k \in 1..tags |-> Word(f, 10 + 4 * k) % 4096]
  BY DEF VlanStack, tag, n
<1> HIDE DEF tags
<1>6. tag(0) <=> IsTagged(f)
  BY DEF tag, IsTagged
<1>7. CASE tags = 0
  <2>1. VlanStack(f).vlans = <<>>
    BY <1>5, <1>7
  <2> QED
    BY <1>4, <1>6, <1>7, <2>1
<1>8. CASE tags # 0
  <2>1. 0 \in 0..tags - 1 /\ 1 \in 1..tags
    BY <1>1, <1>4, <1>8
  <2>2. VlanStack(f).vlans # <<>>
    <3> DEFINE v == VlanStack(f).vlans
    <3>1. 1 \in DOMAIN v
      BY <1>5, <2>1
    <3> HIDE DEF v
    <3>2. v # <<>>
      BY <3>1
    <3> QED
      BY <3>2 DEF v
  <2> QED
    BY <1>4, <1>6, <2>1, <2>2
<1> QED
  BY <1>7, <1>8

\* A list of hits, each of a protocol that has a name; how many are of p.
IsHits(s) == IsSequence(s) /\ \A i \in DOMAIN s : s[i].protocol \in Range(Alphabetical)
NoneOf(s, p) == HitsOf(s, p) = {}
OneOf(s, p) == \E j \in DOMAIN s : HitsOf(s, p) = {j}

\* The list holds the hit when the condition holds, as far as p is concerned.
IsWhen(s, cond, hit, p) ==
    /\ IsHits(s)
    /\ cond /\ hit.protocol = p => OneOf(s, p)
    /\ ~cond \/ hit.protocol # p => NoneOf(s, p)

LEMMA WhenHits ==
    ASSUME NEW cond, NEW hit, hit.protocol \in Range(Alphabetical), NEW p
    PROVE  IsWhen(When(cond, hit), cond, hit, p)
<1>1. When(cond, hit) = <<hit>> \/ When(cond, hit) = <<>>
  BY DEF When
<1>2. cond => When(cond, hit) = <<hit>>
  BY DEF When
<1>3. ~cond => When(cond, hit) = <<>>
  BY DEF When
<1>4. IsHits(<<hit>>) /\ IsHits(<<>>)
  <2>1. IsSequence(<<hit>>) /\ IsSequence(<<>>)
    BY DEF IsSequence, Range
  <2> QED
    BY <2>1 DEF IsHits
<1>5. NoneOf(<<>>, p)
  BY DEF NoneOf, HitsOf
<1>6. hit.protocol = p => HitsOf(<<hit>>, p) = {1} /\ 1 \in DOMAIN <<hit>>
  BY DEF HitsOf
<1>7. hit.protocol # p => NoneOf(<<hit>>, p)
  BY DEF NoneOf, HitsOf
<1> QED
  BY <1>1, <1>2, <1>3, <1>4, <1>5, <1>6, <1>7 DEF OneOf, IsWhen

\* Whether the condition holds or not, there is no hit of another protocol.
LEMMA OtherHits ==
    ASSUME NEW cond, NEW hit, hit.protocol \in Range(Alphabetical), NEW p, hit.protocol # p
    PROVE  IsHits(When(cond, hit)) /\ NoneOf(When(cond, hit), p)
<1>1. IsWhen(When(cond, hit), cond, hit, p)
  BY WhenHits
<1> QED
  BY <1>1 DEF IsWhen

LEMMA JoinedHits ==
    ASSUME NEW s, NEW t, IsHits(s), IsHits(t), NEW st, IsJoined(st, s, t), NEW p
    PROVE  /\ IsHits(st)
           /\ NoneOf(s, p) /\ NoneOf(t, p) => NoneOf(st, p)
           /\ OneOf(s, p) /\ NoneOf(t, p) => OneOf(st, p)
           /\ NoneOf(s, p) /\ OneOf(t, p) => OneOf(st, p)
<1> DEFINE S == Range(s) \cup Range(t)
<1>1. s \in Seq(S) /\ t \in Seq(S)
  BY SeqMonotonic DEF IsHits, IsSequence
<1>2. /\ Len(s) \in Nat /\ Len(t) \in Nat /\ DOMAIN s = 1..Len(s) /\ DOMAIN t = 1..Len(t)
      /\ DOMAIN st = 1..Len(s) + Len(t) /\ st \in Seq(S)
      /\ \A i \in 1..Len(s) : st[i] = s[i]
      /\ \A i \in 1..Len(t) : st[Len(s) + i] = t[i]
  <2> HIDE DEF S
  <2> QED
    BY <1>1 DEF IsJoined
<1> HIDE DEF S
<1>3. IsHits(st)
  <2>1. IsSequence(st)
    BY <1>2, AreSequences
  <2>2. ASSUME NEW i \in DOMAIN st PROVE st[i].protocol \in Range(Alphabetical)
    <3>1. CASE i \in 1..Len(s)
      BY <1>2, <3>1 DEF IsHits
    <3>2. CASE i \notin 1..Len(s)
      <4>1. i - Len(s) \in 1..Len(t) /\ Len(s) + (i - Len(s)) = i
        BY <1>2, <3>2
      <4> QED
        BY <1>2, <4>1 DEF IsHits
    <3> QED
      BY <3>1, <3>2
  <2> QED
    BY <2>1, <2>2 DEF IsHits
<1>4. ASSUME NoneOf(t, p) PROVE HitsOf(st, p) = HitsOf(s, p)
  BY <1>1, <1>4, ConcatNone DEF NoneOf
<1>5. DOMAIN s \subseteq DOMAIN st
  BY <1>2
<1>6. ASSUME NoneOf(s, p), OneOf(t, p) PROVE OneOf(st, p)
  <2>1. PICK j \in DOMAIN t : HitsOf(t, p) = {j}
    BY <1>6 DEF OneOf
  <2>2. OnePlaceMore(st, s, j, p)
    BY <1>1, <2>1, ConcatPlaces
  <2>3. HitsOf(st, p) = {Len(s) + j}
    BY <1>6, <2>2 DEF OnePlaceMore, NoneOf
  <2>4. Len(s) + j \in DOMAIN st
    BY <1>2
  <2> QED
    BY <2>3, <2>4 DEF OneOf
<1> QED
  BY <1>3, <1>4, <1>5, <1>6 DEF NoneOf, OneOf

\* A hit that is added when there is none of its protocol leaves one of it.
LEMMA UnlessHits ==
    ASSUME NEW s, IsHits(s), NEW cond, NEW hit, hit.protocol \in Range(Alphabetical), NEW p
    PROVE  /\ IsHits(Unless(s, cond, hit))
           /\ OneOf(s, p) => OneOf(Unless(s, cond, hit), p)
           /\ NoneOf(s, p) /\ cond /\ hit.protocol = p => OneOf(Unless(s, cond, hit), p)
           /\ NoneOf(s, p) /\ (~cond \/ hit.protocol # p) => NoneOf(Unless(s, cond, hit), p)
<1> DEFINE adds == cond /\ ~Has(s, hit.protocol)
           t == When(adds, hit)
           st == Unless(s, cond, hit)
<1>1. IsJoined(st, s, t)
  BY DEF IsJoined, Unless
<1>2. /\ IsHits(t)
      /\ adds /\ hit.protocol = p => OneOf(t, p)
      /\ ~adds \/ hit.protocol # p => NoneOf(t, p)
  <2>1. IsWhen(t, adds, hit, p)
    BY WhenHits
  <2> HIDE DEF t, adds
  <2> QED
    BY <2>1 DEF IsWhen
<1>3. OneOf(s, p) => Has(s, p)
  BY DEF OneOf, HitsOf, Has
<1>4. NoneOf(s, p) => ~Has(s, p)
  BY DEF NoneOf, HitsOf, Has
<1>5. adds => cond /\ ~Has(s, hit.protocol)
  OBVIOUS
<1>6. cond /\ ~Has(s, hit.protocol) => adds
  OBVIOUS
<1> HIDE DEF adds, t, st
<1>7. /\ IsHits(st)
      /\ NoneOf(s, p) /\ NoneOf(t, p) => NoneOf(st, p)
      /\ OneOf(s, p) /\ NoneOf(t, p) => OneOf(st, p)
      /\ NoneOf(s, p) /\ OneOf(t, p) => OneOf(st, p)
  BY <1>1, <1>2, JoinedHits
<1>8. OneOf(s, p) => OneOf(st, p)
  <2>1. SUFFICES ASSUME OneOf(s, p) PROVE NoneOf(t, p)
    BY <1>7
  <2>2. CASE hit.protocol = p
    BY <1>2, <1>3, <1>5, <2>1, <2>2
  <2>3. CASE hit.protocol # p
    BY <1>2, <2>3
  <2> QED
    BY <2>2, <2>3
<1>9. NoneOf(s, p) /\ cond /\ hit.protocol = p => OneOf(st, p)
  BY <1>2, <1>4, <1>6, <1>7
<1>10. NoneOf(s, p) /\ (~cond \/ hit.protocol # p) => NoneOf(st, p)
  BY <1>2, <1>5, <1>7
<1> QED
  BY <1>7, <1>8, <1>9, <1>10 DEF st

\* A name with a space in it, which the arithmetic prover cannot read.
StpName == "Spanning Tree"
Known6 == {"IGMP", "ISL", "LACP", StpName, "VLAN", "VTP"}

LEMMA ProtocolsHaveNames == Known6 = Range(Alphabetical)
<1>1. DOMAIN Alphabetical = {1, 2, 3, 4, 5, 6}
  BY DEF Alphabetical
<1>2. /\ Alphabetical[1] = "IGMP" /\ Alphabetical[2] = "ISL" /\ Alphabetical[3] = "LACP"
      /\ Alphabetical[4] = "Spanning Tree" /\ Alphabetical[5] = "VLAN"
      /\ Alphabetical[6] = "VTP"
  BY DEF Alphabetical
<1>3. Range(Alphabetical) = {Alphabetical[i] : i \in {1, 2, 3, 4, 5, 6}}
  BY <1>1 DEF Range
<1>4. Alphabetical[4] = StpName
  BY <1>2 DEF StpName
<1> QED
  BY <1>2, <1>3, <1>4 DEF Known6

LEMMA NamesDiffer ==
    /\ StpName # "VLAN" /\ StpName # "LACP" /\ StpName # "IGMP" /\ StpName # "ISL"
    /\ StpName # "VTP"
BY DEF StpName

\* The protocols whose frames are counted below.
Counted == {"VLAN", StpName}

\* What a destination, or the first bytes of an encapsulation, tells is none of them.
LEMMA DestinationHits ==
    ASSUME NEW f, NEW p \in Counted
    PROVE  IsHits(ByDestination(f)) /\ NoneOf(ByDestination(f), p)
<1> DEFINE h1 == Hit("IGMP", "multicast-mac", f.dest)
           h2 == Hit("VTP", "Cisco", f.dest)
           h3 == Hit("ISL", "Cisco", f.dest)
           h4 == Hit("ISL", "encap", "header")
           w1 == When(f.dest = "multicast", h1)
           w2 == When(f.dest = "vtp", h2)
           w3 == When(f.dest = "isl", h3)
           w4 == When(Size(f) >= 16 /\ Word(f, 12) = \hAAAA /\ Word(f, 14) = \h0300, h4)
           w12 == w1 \o w2
           w123 == w12 \o w3
           all == w123 \o w4
<1>0. /\ h1.protocol = "IGMP" /\ h2.protocol = "VTP"
      /\ h3.protocol = "ISL" /\ h4.protocol = "ISL"
  BY DEF Hit
<1> HIDE DEF h1, h2, h3, h4
<1>1. /\ h1.protocol \in Range(Alphabetical) /\ h1.protocol # p
      /\ h2.protocol \in Range(Alphabetical) /\ h2.protocol # p
      /\ h3.protocol \in Range(Alphabetical) /\ h3.protocol # p
      /\ h4.protocol \in Range(Alphabetical) /\ h4.protocol # p
  BY <1>0, ProtocolsHaveNames, NamesDiffer DEF Known6, Counted
<1>2. IsHits(w1) /\ NoneOf(w1, p)
  BY <1>1, OtherHits
<1>3. IsHits(w2) /\ NoneOf(w2, p)
  BY <1>1, OtherHits
<1>4. IsHits(w3) /\ NoneOf(w3, p)
  BY <1>1, OtherHits
<1>5. IsHits(w4) /\ NoneOf(w4, p)
  BY <1>1, OtherHits
<1>6. IsJoined(w12, w1, w2) /\ IsJoined(w123, w12, w3) /\ IsJoined(all, w123, w4)
  BY DEF IsJoined
<1>7. ByDestination(f) = all
  BY DEF ByDestination, h1, h2, h3, h4
<1> HIDE DEF w1, w2, w3, w4, w12, w123, all
<1>8. IsHits(w12) /\ NoneOf(w12, p)
  BY <1>2, <1>3, <1>6, JoinedHits
<1>9. IsHits(w123) /\ NoneOf(w123, p)
  BY <1>4, <1>6, <1>8, JoinedHits
<1> QED
  BY <1>5, <1>6, <1>7, <1>9, JoinedHits

\* A frame's hits of p are one when the frame tells of it, none otherwise.
Tells(hits, p, cond) == IsHits(hits) /\ (cond => OneOf(hits, p)) /\ (~cond => NoneOf(hits, p))
BpduOf(f, p) == p = StpName /\ HoldsBpdu(f)
SpanningOf(f, p) == p = StpName /\ IsSpanning(f)

\* An 802.3 frame has a hit of spanning tree when it holds a BPDU.
LEMMA PayloadHits ==
    ASSUME NEW f, IsFrame(f), Word(f, 12) <= 1500, NEW p \in Counted
    PROVE  Tells(Classify8023(f), p, BpduOf(f, p))
<1> DEFINE subtype == Byte(f, 17)
           slow == 19 > Size(f) \/ Word(f, 14) # \h4242 \/ Byte(f, 16) # 3
           bpdu == Size(f) >= 20 /\ Word(f, 17) = 0
           h1 == Hit("LACP", "802.3ad", "subtype 1")
           h2 == Hit("LACP", "slow-protocol", subtype)
           h3 == Hit("Spanning Tree", StpVariant(f, 17), Byte(f, 19))
           w1 == When(subtype = 1, h1)
           w2 == When(subtype \in {2, 3}, h2)
           w3 == When(bpdu, h3)
           w12 == w1 \o w2
           all == w12 \o w3
<1>1. Classify8023(f) = IF slow THEN <<>> ELSE all
  BY DEF Classify8023
<1>2. HoldsBpdu(f) <=> ~slow /\ bpdu
  <2>1. Size(f) \in Nat
    BY FrameNumbers
  <2> QED
    BY <2>1 DEF HoldsBpdu
<1>0. h1.protocol = "LACP" /\ h2.protocol = "LACP" /\ h3.protocol = StpName
  BY DEF Hit, StpName
<1> HIDE DEF h1, h2, h3
<1>3. /\ h1.protocol \in Range(Alphabetical) /\ h1.protocol # p
      /\ h2.protocol \in Range(Alphabetical) /\ h2.protocol # p
      /\ h3.protocol \in Range(Alphabetical) /\ h3.protocol = StpName
  <2>1. {"LACP", StpName} \subseteq Range(Alphabetical)
    BY ProtocolsHaveNames, NamesDiffer DEF Known6
  <2>2. "LACP" # p
    BY NamesDiffer DEF Counted
  <2> QED
    BY <1>0, <2>1, <2>2
<1>4. IsHits(w1) /\ NoneOf(w1, p)
  BY <1>3, OtherHits
<1>5. IsHits(w2) /\ NoneOf(w2, p)
  BY <1>3, OtherHits
<1>6. /\ IsHits(w3)
      /\ bpdu /\ h3.protocol = p => OneOf(w3, p)
      /\ ~bpdu \/ h3.protocol # p => NoneOf(w3, p)
  <2> HIDE DEF bpdu
  <2>1. IsWhen(w3, bpdu, h3, p)
    BY <1>3, WhenHits
  <2> HIDE DEF w3
  <2> QED
    BY <2>1 DEF IsWhen
<1>7. IsJoined(w12, w1, w2) /\ IsJoined(all, w12, w3)
  BY DEF IsJoined
<1>8. IsHits(<<>>) /\ NoneOf(<<>>, p)
  BY DEF IsHits, IsSequence, NoneOf, HitsOf
<1> HIDE DEF w1, w2, w3, w12, all, slow, bpdu
<1>9. IsHits(w12) /\ NoneOf(w12, p)
  BY <1>4, <1>5, <1>7, JoinedHits
<1>10. /\ IsHits(all)
       /\ NoneOf(w3, p) => NoneOf(all, p)
       /\ OneOf(w3, p) => OneOf(all, p)
  BY <1>6, <1>7, <1>9, JoinedHits
<1>13. BpduOf(f, p) <=> h3.protocol = p /\ ~slow /\ bpdu
  BY <1>2, <1>3 DEF BpduOf
<1>11. CASE slow
  BY <1>1, <1>8, <1>11, <1>13 DEF Tells
<1>12. CASE ~slow
  <2>1. Classify8023(f) = all
    BY <1>1, <1>12
  <2>2. BpduOf(f, p) => OneOf(all, p)
    BY <1>6, <1>10, <1>13
  <2>3. ~BpduOf(f, p) => NoneOf(all, p)
    BY <1>6, <1>10, <1>12, <1>13
  <2> QED
    BY <1>10, <2>1, <2>2, <2>3 DEF Tells
<1> QED
  BY <1>11, <1>12

\* Of one with a length, one hit of spanning tree when it holds a BPDU or is for a bridge
\* group.
LEMMA LengthHits ==
    ASSUME NEW f, IsFrame(f), Word(f, 12) <= 1500, Size(f) >= 14, NEW p \in Counted
    PROVE  Tells(Length8023(f), p, SpanningOf(f, p))
<1> DEFINE h1 == Hit("Spanning Tree", "unknown", "bridge-group MAC")
           h2 == Hit("LACP", "802.3ad", "multicast")
           s == ByDestination(f)
           t == Classify8023(f)
           st == s \o t
           group == BridgeGroup(f.dest)
           lacp == f.dest = "lacp"
           u == Unless(st, group, h1)
           all == Unless(u, lacp, h2)
<1>1. Length8023(f) = all
  BY DEF Length8023
<1>2. h1.protocol = StpName /\ h2.protocol = "LACP"
  BY DEF Hit, StpName
<1> HIDE DEF h1, h2
<1>3. /\ h1.protocol \in Range(Alphabetical) /\ h1.protocol = StpName
      /\ h2.protocol \in Range(Alphabetical) /\ h2.protocol # p
  BY <1>2, ProtocolsHaveNames, NamesDiffer DEF Known6, Counted
<1>4. IsHits(s) /\ NoneOf(s, p)
  <2>1. IsHits(ByDestination(f)) /\ NoneOf(ByDestination(f), p)
    BY DestinationHits
  <2> QED
    BY <2>1 DEF s
<1>5. Tells(t, p, BpduOf(f, p))
  <2>1. Tells(Classify8023(f), p, BpduOf(f, p))
    BY PayloadHits
  <2> QED
    BY <2>1 DEF t
<1>6. IsJoined(st, s, t)
  BY DEF IsJoined
<1>10. IsSpanning(f) <=> group \/ HoldsBpdu(f)
  BY DEF IsSpanning
<1> HIDE DEF s, t, st, group, lacp
<1>14. IsHits(s) /\ IsHits(t)
  BY <1>4, <1>5 DEF Tells
<1>7. /\ IsHits(st)
      /\ NoneOf(t, p) => NoneOf(st, p)
      /\ OneOf(t, p) => OneOf(st, p)
  BY <1>4, <1>14, <1>6, JoinedHits
<1>15. Tells(st, p, BpduOf(f, p))
  BY <1>5, <1>7 DEF Tells
<1>16. h1.protocol \in Range(Alphabetical) /\ h2.protocol \in Range(Alphabetical)
  BY <1>3
<1>17. IsHits(st)
  BY <1>7
<1>8. /\ IsHits(u)
      /\ OneOf(st, p) => OneOf(u, p)
      /\ NoneOf(st, p) /\ group /\ h1.protocol = p => OneOf(u, p)
      /\ NoneOf(st, p) /\ (~group \/ h1.protocol # p) => NoneOf(u, p)
  BY <1>16, <1>17, UnlessHits
<1> HIDE DEF u
<1>18. IsHits(u)
  BY <1>8
<1>9. /\ IsHits(all)
      /\ OneOf(u, p) => OneOf(all, p)
      /\ NoneOf(u, p) /\ (~lacp \/ h2.protocol # p) => NoneOf(all, p)
  BY <1>16, <1>18, UnlessHits
<1> HIDE DEF all
<1>19. h2.protocol # p
  BY <1>3
<1>20. SpanningOf(f, p) <=> p = StpName /\ (group \/ HoldsBpdu(f))
  BY <1>10 DEF SpanningOf
<1>21. h1.protocol = StpName
  BY <1>3
<1>22. SpanningOf(f, p) <=> BpduOf(f, p) \/ (group /\ h1.protocol = p)
  BY <1>20, <1>21 DEF BpduOf
<1>23. SpanningOf(f, p) => OneOf(u, p)
  BY <1>8, <1>15, <1>22 DEF Tells
<1>24. ~SpanningOf(f, p) => NoneOf(u, p)
  BY <1>8, <1>15, <1>22 DEF Tells
<1> QED
  BY <1>1, <1>9, <1>19, <1>23, <1>24 DEF Tells

\* A frame that the rows of p count, once.
CountsAs(f, p) == IF p = "VLAN" THEN IsTagged(f) ELSE IsSpanning(f)

\* Of one with a type, one hit of VLANs when it has a tag, and one of spanning tree when it
\* is for a bridge group.
LEMMA TypedHits ==
    ASSUME NEW f, IsFrame(f), Word(f, 12) > 1500, Size(f) >= 14, NEW p \in Counted
    PROVE  Tells(Typed(f), p, CountsAs(f, p))
<1> DEFINE stack == VlanStack(f)
           h0 == Hit("VLAN", IF Word(f, 12) = \h88A8 THEN "Q-in-Q" ELSE "802.1Q", stack.vlans)
           h1 == Hit("LACP", "802.3ad", "destination")
           h2 == Hit("Spanning Tree", "unknown", "bridge-group MAC")
           s == ByDestination(f)
           tagged == stack.vlans # <<>>
           t == When(tagged, h0)
           g == Igmp(f, stack)
           st == s \o t
           stg == st \o g
           group == BridgeGroup(f.dest)
           lacp == f.dest = "lacp"
           u == Unless(stg, lacp, h1)
           all == Unless(u, group, h2)
<1>1. Typed(f) = all
  BY DEF Typed
<1>2. h0.protocol = "VLAN" /\ h1.protocol = "LACP" /\ h2.protocol = StpName
  BY DEF Hit, StpName
<1> HIDE DEF h0, h1, h2
<1>3. /\ h0.protocol \in Range(Alphabetical) /\ h0.protocol = "VLAN"
      /\ h1.protocol \in Range(Alphabetical) /\ h1.protocol # p
      /\ h2.protocol \in Range(Alphabetical) /\ h2.protocol = StpName
  BY <1>2, ProtocolsHaveNames, NamesDiffer DEF Known6, Counted
<1>4. IsHits(s) /\ NoneOf(s, p)
  BY DestinationHits
<1>5. tagged <=> IsTagged(f)
  BY TaggedHaveVlans
<1>6. /\ IsHits(t)
      /\ tagged /\ h0.protocol = p => OneOf(t, p)
      /\ ~tagged \/ h0.protocol # p => NoneOf(t, p)
  <2> HIDE DEF tagged
  <2>1. IsWhen(t, tagged, h0, p)
    BY <1>3, WhenHits
  <2> HIDE DEF t
  <2> QED
    BY <2>1 DEF IsWhen
<1>7. IsHits(g) /\ NoneOf(g, p)
  <2> DEFINE header == (Byte(f, stack.next) % 16) * 4
             cond == /\ stack.inner = Ipv4
                     /\ stack.next + 20 <= Size(f)
                     /\ stack.next + header + 1 <= Size(f)
                     /\ Byte(f, stack.next + 9) = 2
             h == Hit("IGMP", ToString(Byte(f, stack.next + header)), "IPv4 proto 2")
  <2>1. g = When(cond, h)
    BY DEF Igmp
  <2>2. h.protocol = "IGMP"
    BY DEF Hit
  <2> HIDE DEF cond, h
  <2>3. h.protocol \in Range(Alphabetical) /\ h.protocol # p
    BY <2>2, ProtocolsHaveNames, NamesDiffer DEF Known6, Counted
  <2>4. IsHits(When(cond, h)) /\ NoneOf(When(cond, h), p)
    BY <2>3, OtherHits
  <2> QED
    BY <2>1, <2>4
<1>8. IsJoined(st, s, t) /\ IsJoined(stg, st, g)
  BY DEF IsJoined
<1>13. IsSpanning(f) <=> group
  <2>1. Word(f, 12) \in Nat
    BY FrameNumbers
  <2>2. ~HoldsBpdu(f)
    BY <2>1 DEF HoldsBpdu
  <2> QED
    BY <2>2 DEF IsSpanning
<1> HIDE DEF s, t, g, st, stg, tagged, stack, group, lacp
<1>9. /\ IsHits(st)
      /\ NoneOf(t, p) => NoneOf(st, p)
      /\ OneOf(t, p) => OneOf(st, p)
  BY <1>4, <1>6, <1>8, JoinedHits
<1>10. /\ IsHits(stg)
       /\ NoneOf(st, p) => NoneOf(stg, p)
       /\ OneOf(st, p) => OneOf(stg, p)
  BY <1>7, <1>8, <1>9, JoinedHits
<1>16. h1.protocol \in Range(Alphabetical) /\ h2.protocol \in Range(Alphabetical)
  BY <1>3
<1>17. IsHits(stg)
  BY <1>10
<1>18. /\ IsHits(u)
       /\ OneOf(stg, p) => OneOf(u, p)
       /\ NoneOf(stg, p) /\ (~lacp \/ h1.protocol # p) => NoneOf(u, p)
  BY <1>16, <1>17, UnlessHits
<1>19. h1.protocol # p
  BY <1>3
<1>11. NoneOf(stg, p) => NoneOf(u, p)
  BY <1>18, <1>19
<1> HIDE DEF u
<1>20. IsHits(u)
  BY <1>18
<1>12. /\ IsHits(all)
       /\ OneOf(u, p) => OneOf(all, p)
       /\ NoneOf(u, p) /\ group /\ h2.protocol = p => OneOf(all, p)
       /\ NoneOf(u, p) /\ (~group \/ h2.protocol # p) => NoneOf(all, p)
  BY <1>16, <1>20, UnlessHits
<1> HIDE DEF all
<1>14. CASE p = "VLAN"
  <2>1. h0.protocol = p /\ h2.protocol # p
    BY <1>2, <1>14, NamesDiffer
  <2>2. CountsAs(f, p) <=> tagged
    BY <1>5, <1>14 DEF CountsAs
  <2>3. tagged => OneOf(t, p)
    BY <1>6, <2>1
  <2>4. ~tagged => NoneOf(t, p)
    BY <1>6
  <2>5. tagged => OneOf(all, p)
    BY <1>9, <1>10, <1>12, <1>18, <2>3
  <2>6. ~tagged => NoneOf(all, p)
    BY <1>9, <1>10, <1>11, <1>12, <2>1, <2>4
  <2> QED
    BY <1>1, <1>12, <2>2, <2>5, <2>6 DEF Tells
<1>15. CASE p = StpName
  <2>1. h0.protocol # p /\ h2.protocol = p
    BY <1>2, <1>15, NamesDiffer
  <2>4. NoneOf(t, p)
    BY <1>6, <2>1
  <2>2. NoneOf(u, p)
    BY <1>9, <1>10, <1>11, <2>4
  <2>3. CountsAs(f, p) <=> group
    <3>1. CountsAs(f, p) <=> IsSpanning(f)
      BY <1>15, NamesDiffer DEF CountsAs
    <3> QED
      BY <1>13, <3>1
  <2>5. group => OneOf(all, p)
    BY <1>12, <2>1, <2>2
  <2>6. ~group => NoneOf(all, p)
    BY <1>12, <2>2
  <2> QED
    BY <1>1, <1>12, <2>3, <2>5, <2>6 DEF Tells
<1> QED
  BY <1>14, <1>15 DEF Counted

\* Each frame has a hit of VLANs if it is tagged, and of spanning tree if it is one of it,
\* and never two (passive_check.py:117-182).
LEMMA ClassifyHits ==
    ASSUME NEW f, IsFrame(f), NEW p \in Counted
    PROVE  Tells(Classify(f), p, CountsAs(f, p))
<1>1. Size(f) \in Nat /\ Word(f, 12) \in Nat
  BY FrameNumbers
<1>2. CASE Size(f) < 14
  <2>1. Classify(f) = <<>>
    BY <1>2 DEF Classify
  <2>2. IsHits(<<>>) /\ NoneOf(<<>>, p)
    BY DEF IsHits, IsSequence, NoneOf, HitsOf
  <2>3. ~IsTagged(f) /\ ~IsSpanning(f)
    BY <1>1, <1>2 DEF IsTagged, IsSpanning, HoldsBpdu
  <2>4. ~CountsAs(f, p)
    BY <2>3 DEF CountsAs
  <2> QED
    BY <2>1, <2>2, <2>4 DEF Tells
<1>3. CASE Size(f) >= 14 /\ Word(f, 12) <= 1500
  <2>1. Classify(f) = Length8023(f)
    BY <1>1, <1>3 DEF Classify
  <2>2. ~IsTagged(f)
    BY <1>1, <1>3 DEF IsTagged, VlanTypes
  <2>3. Tells(Length8023(f), p, SpanningOf(f, p))
    BY <1>3, LengthHits
  <2>4. CountsAs(f, p) <=> SpanningOf(f, p)
    BY <2>2, NamesDiffer DEF CountsAs, SpanningOf, Counted
  <2> QED
    BY <2>1, <2>3, <2>4 DEF Tells
<1>4. CASE Size(f) >= 14 /\ Word(f, 12) > 1500
  <2>1. Classify(f) = Typed(f)
    BY <1>1, <1>4 DEF Classify
  <2> QED
    BY <1>4, <2>1, TypedHits
<1> QED
  BY <1>1, <1>2, <1>3, <1>4

\* The frames of each are as many as the hits.
LEMMA HitsCountFrames ==
    ASSUME NEW frames, IsSequence(frames), \A i \in DOMAIN frames : IsFrame(frames[i]),
           NEW p \in Counted
    PROVE  /\ IsHits(Hits(frames))
           /\ Cardinality(HitsOf(Hits(frames), p))
                  = Cardinality({i \in DOMAIN frames : CountsAs(frames[i], p)})
<1> DEFINE S == UNION {Range(Classify(frames[i])) : i \in DOMAIN frames}
           seqs == [i \in DOMAIN frames |-> Classify(frames[i])]
<1>1. Len(frames) \in Nat /\ DOMAIN frames = 1..Len(frames)
  BY DEF IsSequence
<1>2. \A i \in DOMAIN frames :
          /\ IsHits(Classify(frames[i]))
          /\ CountsAs(frames[i], p) => OneOf(Classify(frames[i]), p)
          /\ ~CountsAs(frames[i], p) => NoneOf(Classify(frames[i]), p)
  BY ClassifyHits DEF Tells
<1>3. \A i \in DOMAIN frames : Classify(frames[i]) \in Seq(S)
  <2>1. ASSUME NEW i \in DOMAIN frames PROVE Classify(frames[i]) \in Seq(S)
    <3> DEFINE c == Classify(frames[i])
    <3>1. c \in Seq(Range(c)) /\ Range(c) \subseteq S
      BY <1>2 DEF IsHits, IsSequence
    <3> HIDE DEF c, S
    <3>2. c \in Seq(S)
      BY <3>1, SeqMonotonic
    <3> QED
      BY <3>2 DEF c
  <2> QED
    BY <2>1
<1>4. seqs \in Seq(Seq(S)) /\ DOMAIN seqs = DOMAIN frames
      /\ \A i \in DOMAIN frames : seqs[i] = Classify(frames[i])
  <2> HIDE DEF S
  <2> QED
    BY <1>1, <1>3
<1>5. Hits(frames) = FlattenSeq(seqs)
  BY DEF Hits
<1> HIDE DEF seqs
<1>6. OneEach(seqs, p)
  BY <1>2, <1>4 DEF OneEach, OneOf, NoneOf
<1>7. /\ FlattenSeq(seqs) \in Seq(S)
      /\ Range(FlattenSeq(seqs)) = UNION {Range(seqs[i]) : i \in DOMAIN seqs}
  <2> HIDE DEF S
  <2> QED
    BY <1>4, FlattenHas
<1>8. Cardinality(HitsOf(FlattenSeq(seqs), p))
          = Cardinality({i \in DOMAIN seqs : HitsOf(seqs[i], p) # {}})
  <2> HIDE DEF S
  <2> QED
    BY <1>4, <1>6, FlattenCounts
<1>9. {i \in DOMAIN seqs : HitsOf(seqs[i], p) # {}}
          = {i \in DOMAIN frames : CountsAs(frames[i], p)}
  BY <1>2, <1>4 DEF OneOf, NoneOf
<1>10. IsHits(FlattenSeq(seqs))
  <2> DEFINE t == FlattenSeq(seqs)
  <2>1. IsSequence(t)
    <3> HIDE DEF S
    <3> QED
      BY <1>7, AreSequences
  <2>2. ASSUME NEW j \in DOMAIN t PROVE t[j].protocol \in Range(Alphabetical)
    <3>1. t[j] \in Range(t)
      BY DEF Range
    <3>2. PICK i \in DOMAIN seqs : t[j] \in Range(seqs[i])
      BY <1>7, <3>1
    <3>3. IsHits(seqs[i])
      BY <1>2, <1>4
    <3> QED
      BY <3>2, <3>3 DEF IsHits, Range
  <2> QED
    BY <2>1, <2>2 DEF IsHits
<1> QED
  BY <1>5, <1>8, <1>9, <1>10

-------------------------------------------------------------------------------
(* The rows of a sniffer.                                                          *)

\* The hits that are like one of them are finitely many, and it is one of them.
LEMMA LikeAreFinite ==
    ASSUME NEW h, IsHits(h), NEW i \in DOMAIN h
    PROVE  /\ i \in Int /\ i \in Like(h, i) /\ Like(h, i) \in SUBSET DOMAIN h
           /\ IsFiniteSet(Like(h, i)) /\ Cardinality(Like(h, i)) \in Nat
           /\ Rank(h[i].protocol) \in Int
<1>1. IsSequence(h) /\ h[i].protocol \in Range(Alphabetical)
  BY DEF IsHits
<1>2. Len(h) \in Nat /\ DOMAIN h = 1..Len(h)
  BY <1>1 DEF IsSequence
<1>3. i \in Like(h, i) /\ Like(h, i) \in SUBSET DOMAIN h
  BY DEF Like
<1>4. IsFiniteSet(Like(h, i))
  BY <1>1, <1>3, PlacesAreFinite
<1>5. Rank(h[i].protocol) \in Int
  <2>1. DOMAIN Alphabetical = 1..6
    BY DEF Alphabetical
  <2>2. \E k \in DOMAIN Alphabetical : Alphabetical[k] = h[i].protocol
    BY <1>1 DEF Range
  <2> QED
    BY <2>1, <2>2 DEF Rank
<1> QED
  BY <1>2, <1>3, <1>4, <1>5, FS_CardinalityType

\* Two hits that are like each other are like the same.
LEMMA LikeIsSame ==
    ASSUME NEW h, NEW i \in DOMAIN h, NEW j \in DOMAIN h, h[i].protocol = h[j].protocol,
           h[i].variant = h[j].variant
    PROVE  Like(h, i) = Like(h, j)
BY DEF Like

\* Those before another: which of two comes first is always told.
LEMMA SoonerIsOrder ==
    ASSUME NEW h, IsHits(h)
    PROVE  /\ IsFiniteSet(FirstHits(h))
           /\ IsOrder({p \in FirstHits(h) \X FirstHits(h) : Sooner(h, p[1], p[2])},
                      FirstHits(h))
<1> DEFINE F == FirstHits(h)
           a(i) == Cardinality(Like(h, i))
           c(i) == Rank(h[i].protocol)
           first(i, j) == a(i) > a(j) \/ (a(i) = a(j) /\ (c(i) < c(j) \/ (c(i) = c(j) /\ i < j)))
           less == {p \in F \X F : Sooner(h, p[1], p[2])}
<1>1. F \in SUBSET DOMAIN h
  BY DEF FirstHits
<1>2. IsFiniteSet(F)
  BY <1>1, PlacesAreFinite DEF IsHits
<1>3. \A i \in F : i \in Int /\ a(i) \in Int /\ c(i) \in Int
  BY <1>1, LikeAreFinite
<1>4. \A i, j : Sooner(h, i, j) <=> first(i, j)
  BY DEF Sooner
<1> HIDE DEF F
<1>5. \A i, j \in F : <<i, j>> \in less <=> first(i, j)
  BY <1>4
<1>6. less \subseteq F \X F
  OBVIOUS
<1> HIDE DEF less, a, c
<1>7. IsOrder(less, F)
  <2>1. \A i \in F : ~first(i, i)
    BY <1>3
  <2>2. \A i, j \in F : i # j => first(i, j) \/ first(j, i)
    BY <1>3
  <2>3. \A i, j, k \in F : first(i, j) /\ first(j, k) => first(i, k)
    BY <1>3
  <2> HIDE DEF first
  <2> QED
    BY <1>5, <1>6, <2>1, <2>2, <2>3 DEF IsOrder
<1> QED
  BY <1>2, <1>7 DEF F, less

\* Each kind of hit has its place in the order, once.
LEMMA OrderHasFirsts ==
    ASSUME NEW h, IsHits(h)
    PROVE  /\ HitOrder(h) \in Seq(DOMAIN h) /\ IsInjective(HitOrder(h))
           /\ \A k \in DOMAIN HitOrder(h) : HitOrder(h)[k] \in FirstHits(h)
           /\ \A i \in FirstHits(h) : \E k \in DOMAIN HitOrder(h) : HitOrder(h)[k] = i
           /\ \A k, m \in DOMAIN HitOrder(h) :
                  k < m => Sooner(h, HitOrder(h)[k], HitOrder(h)[m])
<1> DEFINE F == FirstHits(h)
           less == {p \in F \X F : Sooner(h, p[1], p[2])}
           o == HitOrder(h)
<1>1. F \in SUBSET DOMAIN h
  BY DEF FirstHits
<1>2. IsFiniteSet(F) /\ IsOrder(less, F)
  BY SoonerIsOrder
<1>3. o = InOrder(F, less)
  BY DEF HitOrder
<1>4. \A p \in less : Sooner(h, p[1], p[2])
  OBVIOUS
<1> HIDE DEF F, less, o
<1>5. /\ o \in Seq(F) /\ IsInjective(o) /\ {o[i] : i \in DOMAIN o} = F
      /\ \A i, j \in DOMAIN o : i < j => <<o[i], o[j]>> \in less
  BY <1>2, <1>3, InOrderSorts
<1>6. o \in Seq(DOMAIN h)
  BY <1>1, <1>5, SeqMonotonic
<1>7. \A i, j : <<i, j>>[1] = i /\ <<i, j>>[2] = j
  OBVIOUS
<1>8. \A k, m \in DOMAIN o : k < m => Sooner(h, o[k], o[m])
  BY <1>4, <1>5, <1>7
<1>9. \A i \in F : \E k \in DOMAIN o : o[k] = i
  BY <1>5
<1>10. \A k \in DOMAIN o : o[k] \in F
  BY <1>5
<1> QED
  BY <1>5, <1>6, <1>8, <1>9, <1>10 DEF F, o

\* The rows made of hits.
RowsOf(h) == [k \in DOMAIN HitOrder(h) |-> Entry(h, HitOrder(h)[k])]

LEMMA RowsHave ==
    ASSUME NEW h, IsHits(h)
    PROVE  /\ IsSequence(RowsOf(h)) /\ DOMAIN RowsOf(h) = DOMAIN HitOrder(h)
           /\ \A k \in DOMAIN HitOrder(h) :
                  /\ HitOrder(h)[k] \in DOMAIN h
                  /\ RowsOf(h)[k].protocol = h[HitOrder(h)[k]].protocol
                  /\ RowsOf(h)[k].variant = h[HitOrder(h)[k]].variant
                  /\ RowsOf(h)[k].frames = Cardinality(Like(h, HitOrder(h)[k]))
<1> DEFINE o == HitOrder(h)
           rows == RowsOf(h)
<1>1. o \in Seq(DOMAIN h)
  BY OrderHasFirsts
<1> HIDE DEF o
<1>2. Len(o) \in Nat /\ DOMAIN o = 1..Len(o) /\ \A k \in DOMAIN o : o[k] \in DOMAIN h
  BY <1>1
<1>3. rows = [k \in DOMAIN o |-> Entry(h, o[k])]
  BY DEF RowsOf, o
<1> HIDE DEF rows
<1>4. DOMAIN rows = 1..Len(o) /\ rows = [k \in 1..Len(o) |-> rows[k]]
  BY <1>2, <1>3
<1>5. IsSequence(rows)
  BY <1>2, <1>4, Listed
<1>6. \A k \in DOMAIN o : rows[k] = Entry(h, o[k])
  BY <1>3
<1>7. \A i : /\ Entry(h, i).protocol = h[i].protocol
             /\ Entry(h, i).variant = h[i].variant
             /\ Entry(h, i).frames = Cardinality(Like(h, i))
  BY DEF Entry
<1> QED
  BY <1>2, <1>4, <1>5, <1>6, <1>7 DEF o, rows

\* The most frequent first, and each kind once.
LEMMA RowsAreSorted ==
    ASSUME NEW h, IsHits(h), NEW k \in DOMAIN RowsOf(h), NEW m \in DOMAIN RowsOf(h), k < m
    PROVE  /\ RowsOf(h)[k].frames >= RowsOf(h)[m].frames
           /\ RowsOf(h)[k].protocol = RowsOf(h)[m].protocol
                  => RowsOf(h)[k].variant # RowsOf(h)[m].variant
<1> DEFINE i == HitOrder(h)[k]
           j == HitOrder(h)[m]
<1>1. k \in DOMAIN HitOrder(h) /\ m \in DOMAIN HitOrder(h) /\ k # m
  <2>1. k \in DOMAIN HitOrder(h) /\ m \in DOMAIN HitOrder(h) /\ HitOrder(h) \in Seq(DOMAIN h)
    BY RowsHave, OrderHasFirsts
  <2> QED
    BY <2>1
<1>2. /\ i \in DOMAIN h /\ j \in DOMAIN h
      /\ RowsOf(h)[k].protocol = h[i].protocol /\ RowsOf(h)[m].protocol = h[j].protocol
      /\ RowsOf(h)[k].variant = h[i].variant /\ RowsOf(h)[m].variant = h[j].variant
      /\ RowsOf(h)[k].frames = Cardinality(Like(h, i))
      /\ RowsOf(h)[m].frames = Cardinality(Like(h, j))
  BY <1>1, RowsHave
<1>3. i \in FirstHits(h) /\ j \in FirstHits(h) /\ Sooner(h, i, j)
  BY <1>1, OrderHasFirsts
<1>4. i # j
  <2>1. IsInjective(HitOrder(h))
    BY OrderHasFirsts
  <2> QED
    BY <1>1, <2>1 DEF IsInjective
<1> HIDE DEF i, j
<1>5. /\ i \in Int /\ j \in Int /\ i \in Like(h, i) /\ j \in Like(h, j)
      /\ Cardinality(Like(h, i)) \in Nat /\ Cardinality(Like(h, j)) \in Nat
  BY <1>2, LikeAreFinite
<1>6. Cardinality(Like(h, i)) >= Cardinality(Like(h, j))
  BY <1>3, <1>5 DEF Sooner
<1>7. ASSUME h[i].protocol = h[j].protocol, h[i].variant = h[j].variant PROVE FALSE
  <2>1. Like(h, i) = Like(h, j)
    BY <1>2, <1>7, LikeIsSame
  <2>2. i <= j /\ j <= i
    BY <1>3, <1>5, <2>1 DEF FirstHits
  <2> QED
    BY <1>4, <1>5, <2>2
<1> QED
  BY <1>2, <1>6, <1>7

\* FramesOf, one row after the other.
LEMMA FramesSteps ==
    ASSUME NEW rows, IsSequence(rows), \A i \in DOMAIN rows : rows[i].frames \in Nat, NEW p
    PROVE  \E f \in [0..Len(rows) -> Int] :
               /\ f[0] = 0
               /\ \A i \in 1..Len(rows) :
                      f[i] = f[i - 1] + IF rows[i].protocol = p THEN rows[i].frames ELSE 0
               /\ FramesOf(rows, p) = f[Len(rows)]
<1> DEFINE n == Len(rows)
           more(i) == IF rows[i].protocol = p THEN rows[i].frames ELSE 0
           step == [i \in 1..n |-> [kept \in Int |-> kept + more(i)]]
           Steps(f) == f = [i \in 0..n |-> IF i = 0 THEN 0 ELSE f[i - 1] + more(i)]
<1>1. n \in Nat /\ 0 \in Int /\ DOMAIN rows = 1..n
  BY DEF IsSequence
<1>2. \A i \in 1..n : more(i) \in Int
  BY <1>1
<1>3. FramesOf(rows, p) = (CHOOSE f : Steps(f))[n]
  BY DEF FramesOf
<1> HIDE DEF n, more
<1>4. step \in [1..n -> [Int -> Int]]
  BY <1>2
<1>5. PICK f \in Runs(n, Int, 0, step) : TRUE
  <2> HIDE DEF step
  <2> QED
    BY <1>1, <1>4, Recursion
<1>6. /\ f \in [0..n -> Int] /\ f[0] = 0
      /\ \A i \in 1..n : f[i] = step[i][f[i - 1]] /\ f[i - 1] \in Int
  <2> HIDE DEF step
  <2> QED
    BY <1>1, <1>5 DEF Runs
<1>7. Steps(f)
  <2>1. \A i \in 0..n : f[i] = IF i = 0 THEN 0 ELSE f[i - 1] + more(i)
    BY <1>6
  <2> QED
    BY <1>1, <1>6, <2>1
<1> DEFINE g == CHOOSE k : Steps(k)
<1>8. Steps(g)
  BY <1>7
<1>9. FramesOf(rows, p) = g[n]
  BY <1>3
<1>10. \A i \in 0..n : g[i] = IF i = 0 THEN 0 ELSE g[i - 1] + more(i)
  BY <1>8, Zenon
<1>11. g = [i \in 0..n |-> g[i]]
  BY <1>8
<1> HIDE DEF g
<1>12. g[0] = 0 /\ \A i \in 1..n : g[i] = g[i - 1] + more(i)
  BY <1>1, <1>10
<1>13. \A i \in 1..n : g[i - 1] \in Int => g[i] = step[i][g[i - 1]]
  BY <1>12
<1>14. g \in Runs(n, Int, 0, step)
  <2> HIDE DEF step
  <2> QED
    BY <1>1, <1>4, <1>11, <1>12, <1>13, StepsAreRun
<1>15. g \in [0..n -> Int]
  BY <1>14 DEF Runs
<1> QED
  BY <1>9, <1>12, <1>15 DEF n, more

\* The rows of a protocol count its hits.
LEMMA RowsCountHits ==
    ASSUME NEW h, IsHits(h), NEW p
    PROVE  FramesOf(RowsOf(h), p) = Cardinality(HitsOf(h, p))
<1> DEFINE rows == RowsOf(h)
           n == Len(rows)
           like(m) == Like(h, HitOrder(h)[m])
           covered(k) == {i \in DOMAIN h :
                              \E m \in 1..k : rows[m].protocol = p /\ i \in like(m)}
<1>1. /\ IsSequence(rows) /\ n \in Nat /\ DOMAIN rows = 1..n /\ DOMAIN HitOrder(h) = 1..n
      /\ \A m \in 1..n :
             /\ HitOrder(h)[m] \in DOMAIN h
             /\ rows[m].protocol = h[HitOrder(h)[m]].protocol
             /\ rows[m].variant = h[HitOrder(h)[m]].variant
             /\ rows[m].frames = Cardinality(like(m))
  BY RowsHave DEF IsSequence
<1>2. IsSequence(h)
  BY DEF IsHits
<1>3. \A m \in 1..n : /\ like(m) \in SUBSET DOMAIN h /\ IsFiniteSet(like(m))
                      /\ Cardinality(like(m)) \in Nat
  BY <1>1, LikeAreFinite
<1>4. \A m \in 1..n : \A i \in like(m) :
          i \in DOMAIN h /\ h[i].protocol = rows[m].protocol /\ h[i].variant = rows[m].variant
  BY <1>1 DEF Like
<1>5. ASSUME NEW k \in 1..n, NEW m \in 1..n, k < m PROVE like(k) \cap like(m) = {}
  <2>1. rows[k].protocol = rows[m].protocol => rows[k].variant # rows[m].variant
    BY <1>1, <1>5, RowsAreSorted
  <2> HIDE DEF like, rows
  <2> QED
    BY <1>4, <2>1
<1>6. PICK f \in [0..n -> Int] :
          /\ f[0] = 0
          /\ \A i \in 1..n : f[i] = f[i - 1] + IF rows[i].protocol = p THEN rows[i].frames ELSE 0
          /\ FramesOf(rows, p) = f[n]
  <2>1. \A i \in DOMAIN rows : rows[i].frames \in Nat
    BY <1>1, <1>3
  <2>2. IsSequence(rows) /\ n = Len(rows)
    BY <1>1
  <2> HIDE DEF rows, n
  <2> QED
    BY <2>1, <2>2, FramesSteps
<1> HIDE DEF n, rows, like
<1>7. \A k \in 0..n : IsFiniteSet(covered(k))
  BY <1>2, PlacesAreFinite
<1> DEFINE T == {k \in 0..n : f[k] = Cardinality(covered(k))}
<1>8. 0 \in T
  <2>1. covered(0) = {}
    OBVIOUS
  <2>2. Cardinality(covered(0)) = 0
    BY <2>1, FS_EmptySet
  <2>3. f[0] = 0 /\ 0 \in 0..n
    BY <1>1, <1>6
  <2> QED
    BY <2>2, <2>3
<1>9. ASSUME NEW k \in 1..n, k - 1 \in T PROVE k \in T
  <2>1. f[k - 1] = Cardinality(covered(k - 1)) /\ k \in 0..n /\ k - 1 \in 0..n
    BY <1>9
  <2>2. 1..k = 1..(k - 1) \cup {k}
    OBVIOUS
  <2>3. CASE rows[k].protocol = p
    <3>1. covered(k) = covered(k - 1) \cup like(k)
      BY <1>3, <2>2, <2>3
    <3>2. covered(k - 1) \cap like(k) = {}
      <4>1. \A m \in 1..k - 1 : like(m) \cap like(k) = {}
        BY <1>1, <1>5
      <4> QED
        BY <4>1
    <3>3. f[k] = f[k - 1] + Cardinality(like(k))
      BY <1>1, <1>6, <2>3
    <3>4. IsFiniteSet(covered(k - 1)) /\ IsFiniteSet(like(k))
      BY <1>3, <1>7, <2>1
    <3> DEFINE A == covered(k - 1)
               B == like(k)
    <3> HIDE DEF covered, A, B
    <3>5. Cardinality(A \cup B) = Cardinality(A) + Cardinality(B) - Cardinality(A \cap B)
      BY <3>4, FS_Union DEF A, B
    <3>6. Cardinality(A) \in Nat /\ Cardinality(B) \in Nat /\ Cardinality(A \cap B) = 0
      BY <3>2, <3>4, FS_CardinalityType, FS_EmptySet DEF A, B
    <3>7. f[k] = Cardinality(A) + Cardinality(B)
      BY <2>1, <3>3 DEF A, B
    <3>8. f[k] = Cardinality(A \cup B)
      BY <3>5, <3>6, <3>7
    <3> QED
      BY <2>1, <3>1, <3>8 DEF A, B
  <2>4. CASE rows[k].protocol # p
    <3>1. covered(k) = covered(k - 1)
      BY <2>2, <2>4
    <3>2. f[k] = f[k - 1]
      BY <1>6, <2>1, <2>4
    <3> QED
      BY <2>1, <3>1, <3>2
  <2> QED
    BY <2>3, <2>4
<1>10. \A k \in 0..n : k \in T
  <2> HIDE DEF T
  <2> QED
    BY <1>1, <1>8, <1>9, Induct
<1>11. covered(n) = HitsOf(h, p)
  <2>1. ASSUME NEW i \in covered(n) PROVE i \in HitsOf(h, p)
    BY <1>4 DEF HitsOf
  <2>2. ASSUME NEW i \in HitsOf(h, p) PROVE i \in covered(n)
    <3>1. i \in DOMAIN h /\ h[i].protocol = p
      BY DEF HitsOf
    <3>2. Like(h, i) \in SUBSET DOMAIN h /\ Like(h, i) # {} /\ DOMAIN h = 1..Len(h)
      BY <1>2, <3>1, LikeAreFinite DEF IsSequence
    <3>3. Like(h, i) \in SUBSET Nat
      BY <1>2, <3>2 DEF IsSequence
    <3>4. PICK j \in Like(h, i) : \A k \in Like(h, i) : j <= k
      BY <3>2, <3>3, LeastNumber
    <3>5. j \in DOMAIN h /\ h[j].protocol = h[i].protocol /\ h[j].variant = h[i].variant
      BY <3>4 DEF Like
    <3>6. Like(h, j) = Like(h, i)
      BY <3>1, <3>5, LikeIsSame
    <3>7. j \in FirstHits(h) /\ i \in Like(h, j)
      BY <3>1, <3>4, <3>5, <3>6, LikeAreFinite DEF FirstHits
    <3>8. PICK m \in 1..n : HitOrder(h)[m] = j
      BY <1>1, <3>7, OrderHasFirsts
    <3>9. rows[m].protocol = p /\ i \in like(m)
      BY <1>1, <3>1, <3>5, <3>7, <3>8 DEF like
    <3> QED
      BY <3>1, <3>9
  <2> QED
    BY <2>1, <2>2
<1>12. FramesOf(rows, p) = Cardinality(covered(n))
  BY <1>1, <1>6, <1>10
<1> QED
  BY <1>11, <1>12 DEF rows

\* The rows count each frame once for what it is (passive_check.py:117-229).
LEMMA SniffedRows ==
    ASSUME NEW frames, IsSequence(frames), \A i \in DOMAIN frames : IsFrame(frames[i])
    PROVE  /\ \A p \in Counted : FramesOf(SniffPassive(frames), p)
                  = Cardinality({i \in DOMAIN frames : CountsAs(frames[i], p)})
           /\ IsSequence(SniffPassive(frames))
           /\ \A i \in DOMAIN SniffPassive(frames) : SniffPassive(frames)[i].frames \in Nat \ {0}
           /\ \A i, j \in DOMAIN SniffPassive(frames) : i < j =>
                  /\ SniffPassive(frames)[i].frames >= SniffPassive(frames)[j].frames
                  /\ SniffPassive(frames)[i].protocol = SniffPassive(frames)[j].protocol
                         => SniffPassive(frames)[i].variant # SniffPassive(frames)[j].variant
<1> DEFINE h == Hits(frames)
<1>1. "VLAN" \in Counted
  BY DEF Counted
<1>2. IsHits(h)
  BY <1>1, HitsCountFrames
<1>3. SniffPassive(frames) = RowsOf(h)
  BY DEF SniffPassive, RowsOf
<1>4. ASSUME NEW p \in Counted
      PROVE  FramesOf(SniffPassive(frames), p)
                 = Cardinality({i \in DOMAIN frames : CountsAs(frames[i], p)})
  <2>1. FramesOf(RowsOf(h), p) = Cardinality(HitsOf(h, p))
    BY <1>2, RowsCountHits
  <2>2. Cardinality(HitsOf(h, p)) = Cardinality({i \in DOMAIN frames : CountsAs(frames[i], p)})
    BY HitsCountFrames
  <2> QED
    BY <1>3, <2>1, <2>2
<1> HIDE DEF h
<1>5. ASSUME NEW k \in DOMAIN RowsOf(h) PROVE RowsOf(h)[k].frames \in Nat \ {0}
  <2> DEFINE i == HitOrder(h)[k]
  <2>1. i \in DOMAIN h /\ RowsOf(h)[k].frames = Cardinality(Like(h, i))
    BY <1>2, RowsHave
  <2> HIDE DEF i
  <2>2. i \in Like(h, i) /\ IsFiniteSet(Like(h, i)) /\ Cardinality(Like(h, i)) \in Nat
    BY <1>2, <2>1, LikeAreFinite
  <2>3. Cardinality(Like(h, i)) # 0
    BY <2>2, FS_EmptySet
  <2> QED
    BY <2>1, <2>2, <2>3
<1>6. \A k, m \in DOMAIN RowsOf(h) : k < m =>
          /\ RowsOf(h)[k].frames >= RowsOf(h)[m].frames
          /\ RowsOf(h)[k].protocol = RowsOf(h)[m].protocol
                 => RowsOf(h)[k].variant # RowsOf(h)[m].variant
  BY <1>2, RowsAreSorted
<1>7. IsSequence(RowsOf(h))
  BY <1>2, RowsHave
<1> QED
  BY <1>3, <1>4, <1>5, <1>6, <1>7

-------------------------------------------------------------------------------
(* What the probes of a check have heard.                                          *)

LEMMA WindowsAreParts ==
    ASSUME NEW S, NEW seq \in Seq(S), NEW w \in Windows(seq) PROVE w \in Seq(S)
<1>1. Len(seq) \in Nat /\ DOMAIN seq = 1..Len(seq) /\ \A i \in DOMAIN seq : seq[i] \in S
  OBVIOUS
<1>2. CASE w = <<>>
  BY <1>2
<1>3. ASSUME NEW missed \in 0..MaxMissed, w = SubSeq(seq, missed + 1, Len(seq))
      PROVE  w \in Seq(S)
  <2>1. missed + 1 \in Int /\ Len(seq) \in Int
    BY <1>1, JobsAssumption
  <2>2. \A i \in (missed + 1)..Len(seq) : seq[i] \in S
    BY <1>1, JobsAssumption
  <2> QED
    BY <1>3, <2>1, <2>2, SubSeqProperties
<1> QED
  BY <1>2, <1>3 DEF Windows

\* A list of what a probe may hear.
AreHeard(probe, s) == IsSequence(s) /\ \A i \in DOMAIN s : IsHeard(probe, s[i])

\* Each probe has heard a list, and what it has found it made of that; where each probe is
\* asked for what it found, the result is its own.
LEMMA EachHasHeard ==
    ASSUME JobsInv, phase = "reported", Probes(asked)
    PROVE  /\ \A k \in DOMAIN ended :
                  /\ ended[k].job \in Range(ProbesOf(asked.kind))
                  /\ ResultOf(ended[k].job) = ended[k].result
                  /\ ended[k].job # "snmp" =>
                         /\ AreHeard(ended[k].job, ended[k].result.heard)
                         /\ ended[k].result.found
                                = Devices(asked.kind, ended[k].job, ended[k].result.heard)
           /\ \A probe \in Range(ProbesOf(asked.kind)) :
                  \E k \in DOMAIN ended : ended[k].job = probe
<1> DEFINE jobs == ProbesOf(asked.kind)
<1>1. asked.kind \in VendorKinds \cup {"passive"} /\ asked \in Requests
  BY AllHaveEnded DEF Probes
<1>2. JobsOf(asked) = jobs /\ ~Pings(asked) /\ asked.kind # "ports" /\ asked.kind # "checks"
  BY <1>1 DEF JobsOf, Pings, Probes, VendorKinds
<1>3. IsSequence(jobs) /\ IsInjective(jobs)
  BY <1>1, ProbesAreOnce
<1>4. Once(ended) /\ EndedJobs = Range(jobs) /\ ResultInv
  BY <1>2, <1>3, AllHaveEnded
<1> HIDE DEF jobs
<1>5. \A probe \in Range(jobs) : \E k \in DOMAIN ended : ended[k].job = probe
  BY <1>4 DEF EndedJobs
<1>6. ASSUME NEW k \in DOMAIN ended
      PROVE  ended[k].job \in Range(jobs) /\ ResultOf(ended[k].job) = ended[k].result
  <2> DEFINE m == CHOOSE i \in DOMAIN ended : ended[i].job = ended[k].job
  <2>1. m \in DOMAIN ended /\ ended[m].job = ended[k].job
    OBVIOUS
  <2>2. m = k
    BY <1>4, <2>1 DEF Once
  <2> QED
    BY <1>4, <2>2 DEF ResultOf, EndedJobs
<1>7. ASSUME NEW k \in DOMAIN ended, ended[k].job # "snmp"
      PROVE  /\ AreHeard(ended[k].job, ended[k].result.heard)
             /\ ended[k].result.found
                    = Devices(asked.kind, ended[k].job, ended[k].result.heard)
  <2> DEFINE job == ended[k].job
             traffic == asked.traffic[job]
  <2>1. job \in ToSet(jobs) \ {"snmp"}
    BY <1>6, <1>7 DEF ToSet, Range
  <2>2. /\ traffic \in Seq(ToSet(traffic))
        /\ \A x \in ToSet(traffic) : IsHeard(job, x)
    BY <1>1, <2>1, TrafficAssumption DEF jobs
  <2>3. ended[k].result \in ResultsFor(job)
    BY <1>4 DEF ResultInv
  <2>4. ResultsFor(job) = {[heard |-> w, found |-> Devices(asked.kind, job, w)] :
                               w \in Windows(traffic)}
    BY <1>2, <1>7 DEF ResultsFor
  <2> HIDE DEF job, traffic
  <2>5. PICK w \in Windows(traffic) :
            ended[k].result = [heard |-> w, found |-> Devices(asked.kind, job, w)]
    BY <2>3, <2>4
  <2>6. ended[k].result.heard = w /\ ended[k].result.found = Devices(asked.kind, job, w)
    BY <2>5
  <2>7. w \in Seq(ToSet(traffic))
    BY <2>2, WindowsAreParts
  <2>8. AreHeard(job, w)
    <3>1. IsSequence(w)
      BY <2>7, AreSequences
    <3>2. \A i \in DOMAIN w : w[i] \in ToSet(traffic)
      BY <2>7
    <3> QED
      BY <2>2, <3>1, <3>2 DEF AreHeard
  <2> QED
    BY <2>6, <2>8 DEF job
<1> QED
  BY <1>5, <1>6, <1>7 DEF jobs

-------------------------------------------------------------------------------
(* The summary of a passive check.                                                 *)

\* A row of the summary says that there is none exactly when it counts none.
RowSays(row) == (row.status = "none") = (row.count = 0)
AllSay(rows) == IsSequence(rows) /\ \A i \in DOMAIN rows : RowSays(rows[i])

LEMMA JoinedSay ==
    ASSUME NEW s, NEW t, AllSay(s), AllSay(t), NEW st, IsJoined(st, s, t) PROVE AllSay(st)
<1> DEFINE S == Range(s) \cup Range(t)
<1>1. s \in Seq(S) /\ t \in Seq(S)
  BY SeqMonotonic DEF AllSay, IsSequence
<1>2. /\ Len(s) \in Nat /\ Len(t) \in Nat /\ DOMAIN s = 1..Len(s) /\ DOMAIN t = 1..Len(t)
      /\ DOMAIN st = 1..Len(s) + Len(t) /\ st \in Seq(S)
      /\ \A i \in 1..Len(s) : st[i] = s[i]
      /\ \A i \in 1..Len(t) : st[Len(s) + i] = t[i]
  <2> HIDE DEF S
  <2> QED
    BY <1>1 DEF IsJoined
<1> HIDE DEF S
<1>3. IsSequence(st)
  BY <1>2, AreSequences
<1>4. ASSUME NEW i \in DOMAIN st PROVE RowSays(st[i])
  <2>1. CASE i \in 1..Len(s)
    BY <1>2, <2>1 DEF AllSay
  <2>2. CASE i \notin 1..Len(s)
    <3>1. i - Len(s) \in 1..Len(t) /\ Len(s) + (i - Len(s)) = i
      BY <1>2, <2>2
    <3> QED
      BY <1>2, <3>1 DEF AllSay
  <2> QED
    BY <2>1, <2>2
<1> QED
  BY <1>3, <1>4 DEF AllSay

\* Rows of what was detected, as often as some frames were.
LEMMA DetectedSay ==
    ASSUME NEW s, IsSequence(s), NEW t, DOMAIN t = DOMAIN s, t = [i \in DOMAIN s |-> t[i]],
           \A i \in DOMAIN s : t[i].status = "detected" /\ t[i].count \in Nat \ {0}
    PROVE  AllSay(t)
<1>1. IsSequence(t)
  BY IsListOf
<1>2. \A i \in DOMAIN t : t[i].status # "none"
  OBVIOUS
<1>3. \A i \in DOMAIN t : t[i].count # 0
  OBVIOUS
<1> QED
  BY <1>1, <1>2, <1>3 DEF AllSay, RowSays

LEMMA ServicesSay ==
    ASSUME NEW protocol, NEW category, NEW things, IsSequence(things)
    PROVE  RowSays(ServiceRow(protocol, category, things))
<1> DEFINE row == ServiceRow(protocol, category, things)
<1>1. /\ row.status = IF things = <<>> THEN "none" ELSE "ok"
      /\ row.count = Len(things)
  BY DEF ServiceRow, Row
<1>2. Len(things) = 0 <=> things = <<>>
  BY DEF IsSequence
<1> HIDE DEF row
<1>3. row.status = "none" <=> things = <<>>
  BY <1>1
<1> QED
  BY <1>1, <1>2, <1>3 DEF RowSays, row

LEMMA SummarySays ==
    ASSUME NEW l2, NEW mdns, NEW ssdp, NEW probes, NEW dhcp,
           IsSequence(l2), IsSequence(mdns), IsSequence(ssdp), IsSequence(probes),
           IsSequence(dhcp),
           \A i \in DOMAIN l2 : l2[i].frames \in Nat \ {0},
           \A i \in DOMAIN probes : probes[i].frames \in Nat \ {0}
    PROVE  AllSay(BuildSummary(l2, mdns, ssdp, probes, dhcp))
<1> DEFINE a == [i \in DOMAIN l2 |-> Row(l2[i].protocol, "L2 broadcast", "detected", l2[i].frames)]
           b == [i \in DOMAIN probes |->
                    Row(probes[i].type, "L2 ethertype", "detected", probes[i].frames)]
           c1 == ServiceRow("mDNS", "service discovery", mdns)
           c2 == ServiceRow("SSDP", "service discovery", ssdp)
           c3 == ServiceRow("DHCP Option 82", "DHCP", dhcp)
           c == <<c1, c2, c3>>
           ab == a \o b
           all == ab \o c
<1>1. AllSay(a)
  <2>1. /\ DOMAIN a = DOMAIN l2 /\ a = [i \in DOMAIN l2 |-> a[i]]
        /\ \A i \in DOMAIN l2 : a[i].status = "detected" /\ a[i].count = l2[i].frames
    BY DEF Row
  <2> HIDE DEF a
  <2> QED
    BY <2>1, DetectedSay
<1>2. AllSay(b)
  <2>1. /\ DOMAIN b = DOMAIN probes /\ b = [i \in DOMAIN probes |-> b[i]]
        /\ \A i \in DOMAIN probes : b[i].status = "detected" /\ b[i].count = probes[i].frames
    BY DEF Row
  <2> HIDE DEF b
  <2> QED
    BY <2>1, DetectedSay
<1>3. RowSays(c1) /\ RowSays(c2) /\ RowSays(c3)
  BY ServicesSay
<1> HIDE DEF c1, c2, c3
<1>4. AllSay(c)
  <2>1. DOMAIN c = 1..3 /\ c[1] = c1 /\ c[2] = c2 /\ c[3] = c3
    OBVIOUS
  <2>2. IsSequence(c)
    <3>1. c \in Seq({c1, c2, c3})
      OBVIOUS
    <3> QED
      BY <3>1, AreSequences
  <2> HIDE DEF c
  <2>3. \A i \in DOMAIN c : i = 1 \/ i = 2 \/ i = 3
    BY <2>1
  <2> QED
    BY <1>3, <2>1, <2>2, <2>3 DEF AllSay
<1>5. IsJoined(ab, a, b) /\ IsJoined(all, ab, c)
  BY DEF IsJoined
<1>6. BuildSummary(l2, mdns, ssdp, probes, dhcp) = all
  BY DEF BuildSummary, c1, c2, c3
<1> HIDE DEF a, b, c, ab, all
<1>7. AllSay(ab)
  BY <1>1, <1>2, <1>5, JoinedSay
<1> QED
  BY <1>4, <1>5, <1>6, <1>7, JoinedSay

\* What the other probes find are lists.
LEMMA ProbedL2 ==
    ASSUME NEW frames, IsSequence(frames)
    PROVE  /\ IsSequence(ProbeL2(frames))
           /\ \A i \in DOMAIN ProbeL2(frames) : ProbeL2(frames)[i].frames \in Nat \ {0}
<1> DEFINE n(k) == Cardinality(OfType(frames, EtherTypes[k]))
           s == [k \in DOMAIN EtherTypes |-> [type |-> EtherTypes[k], frames |-> n(k)]]
           places == {k \in DOMAIN EtherTypes : OfType(frames, EtherTypes[k]) # {}}
           t == Picked(s, places)
<1>1. ProbeL2(frames) = t
  BY DEF ProbeL2
<1>2. \A k \in places : n(k) \in Nat \ {0}
  <2>1. ASSUME NEW k \in places PROVE n(k) \in Nat \ {0}
    <3> DEFINE o == OfType(frames, EtherTypes[k])
    <3>1. o \in SUBSET DOMAIN frames /\ o # {}
      BY DEF OfType
    <3> HIDE DEF o
    <3>2. IsFiniteSet(o)
      BY <3>1, PlacesAreFinite
    <3>3. Cardinality(o) \in Nat /\ Cardinality(o) # 0
      BY <3>1, <3>2, FS_CardinalityType, FS_EmptySet
    <3> QED
      BY <3>3 DEF o
  <2> QED
    BY <2>1
<1>3. places \in SUBSET DOMAIN EtherTypes
  OBVIOUS
<1> HIDE DEF n, places
<1>4. DOMAIN EtherTypes = 1..3
  BY DEF EtherTypes
<1>5. DOMAIN s = 1..3 /\ s = [i \in 1..3 |-> s[i]] /\ \A k \in 1..3 : s[k].frames = n(k)
  BY <1>4
<1> HIDE DEF s
<1>6. IsSequence(s)
  <2>1. 3 \in Nat
    OBVIOUS
  <2> QED
    BY <1>5, <2>1, Listed
<1>7. IsSequence(t) /\ Range(t) = {s[i] : i \in places}
  BY <1>3, <1>4, <1>5, <1>6, PickedHas
<1> HIDE DEF t
<1>8. ASSUME NEW i \in DOMAIN t PROVE t[i].frames \in Nat \ {0}
  <2>1. t[i] \in Range(t)
    BY DEF Range
  <2>2. PICK k \in places : t[i] = s[k]
    BY <1>7, <2>1
  <2>3. s[k].frames = n(k)
    BY <1>3, <1>4, <1>5
  <2> QED
    BY <1>2, <2>2, <2>3
<1> QED
  BY <1>1, <1>7, <1>8

\* A list of lists, one after the other, is a list.
LEMMA FlattenIsList ==
    ASSUME NEW s, IsSequence(s), NEW t, DOMAIN t = DOMAIN s, t = [i \in DOMAIN s |-> t[i]],
           \A i \in DOMAIN s : IsSequence(t[i])
    PROVE  /\ IsSequence(FlattenSeq(t))
           /\ Range(FlattenSeq(t)) = UNION {Range(t[i]) : i \in DOMAIN s}
<1> DEFINE S == UNION {Range(t[i]) : i \in DOMAIN s}
<1>1. Len(s) \in Nat /\ DOMAIN s = 1..Len(s)
  BY DEF IsSequence
<1>2. \A i \in DOMAIN s : Range(t[i]) \subseteq S
  OBVIOUS
<1> HIDE DEF S
<1>3. \A i \in DOMAIN s : t[i] \in Seq(S)
  BY <1>2, SeqMonotonic DEF IsSequence
<1>4. t \in Seq(Seq(S))
  BY <1>1, <1>3
<1>5. /\ FlattenSeq(t) \in Seq(S)
      /\ Range(FlattenSeq(t)) = UNION {Range(t[i]) : i \in DOMAIN t}
  BY <1>4, FlattenHas
<1> QED
  BY <1>5, AreSequences

LEMMA SniffedSamples ==
    ASSUME NEW frames, IsSequence(frames) PROVE IsSequence(SniffOption82(frames))
<1> DEFINE t == [i \in DOMAIN frames |-> ParseDhcpPacket(ExtractUdpPayload(frames[i]))]
           all == FlattenSeq(t)
<1>1. ASSUME NEW options PROVE IsSequence(ParseDhcpPacket(options))
  <2> DEFINE whole == UpToCut(options, {255}, {0})
             relay == LastValue(whole, 82)
             samples == ParseDhcpPacket(options)
  <2>1. samples = [i \in DOMAIN relay |->
                      [message |-> LastValue(whole, 53), parts |-> ParseOption82(relay[i])]]
    BY DEF ParseDhcpPacket
  <2>2. relay = <<>> \/ \E x : relay = <<x>>
    BY DEF LastValue
  <2> HIDE DEF whole, relay, samples
  <2>3. IsSequence(relay)
    <3>1. \A x : IsSequence(<<x>>)
      BY DEF IsSequence, Range
    <3> QED
      BY <2>2, <3>1, EmptyIsSequence
  <2>4. DOMAIN samples = DOMAIN relay /\ samples = [i \in DOMAIN relay |-> samples[i]]
    BY <2>1
  <2>5. IsSequence(samples)
    BY <2>3, <2>4, IsListOf
  <2> QED
    BY <2>5 DEF samples
<1>2. /\ DOMAIN t = DOMAIN frames /\ t = [i \in DOMAIN frames |-> t[i]]
      /\ \A i \in DOMAIN frames : IsSequence(t[i])
  BY <1>1
<1>3. SniffOption82(frames) = Distinct(all)
  BY DEF SniffOption82
<1> HIDE DEF t
<1>4. IsSequence(all)
  BY <1>2, FlattenIsList
<1> HIDE DEF all
<1>5. all \in Seq(Range(all))
  BY <1>4 DEF IsSequence
<1>6. Distinct(all) \in Seq(Range(all))
  BY <1>5, DistinctIsOnce
<1> QED
  BY <1>3, <1>6, AreSequences

LEMMA ServicesFound ==
    ASSUME NEW packets, IsSequence(packets), \A i \in DOMAIN packets : IsSequence(packets[i])
    PROVE  /\ IsSequence(DiscoverMdns(packets))
           /\ Range(DiscoverMdns(packets))
                  = UNION {Range(ParseResponse(packets[i])) : i \in DOMAIN packets}
<1> DEFINE t == [i \in DOMAIN packets |-> ParseResponse(packets[i])]
<1>1. ASSUME NEW packet, IsSequence(packet) PROVE IsSequence(ParseResponse(packet))
  <2> DEFINE places == {p \in DOMAIN packet : packet[p].type = "PTR"}
             ptr == Ascending(places)
             services == [k \in DOMAIN ptr |-> ServiceOf(packet, ptr[k])]
             keys == [k \in DOMAIN services |-> <<services[k].name, services[k].kind>>]
  <2>1. places \in SUBSET Int /\ IsFiniteSet(places)
    BY <1>1, PlacesAreFinite
  <2>2. ptr \in Seq(places)
    BY <2>1, AscendingIsSorted
  <2>3. ParseResponse(packet) = KeepFirst(services, keys)
    BY DEF ParseResponse
  <2> HIDE DEF places, ptr
  <2>4. IsSequence(ptr)
    BY <2>2, AreSequences
  <2>5. DOMAIN services = DOMAIN ptr /\ services = [k \in DOMAIN ptr |-> services[k]]
    OBVIOUS
  <2> HIDE DEF services
  <2>6. IsSequence(services)
    BY <2>4, <2>5, IsListOf
  <2>7. DOMAIN keys = DOMAIN services /\ keys = [k \in DOMAIN services |-> keys[k]]
    OBVIOUS
  <2> HIDE DEF keys
  <2>8. IsSequence(keys)
    BY <2>6, <2>7, IsListOf
  <2> QED
    BY <2>3, <2>6, <2>7, <2>8, FirstIsOneOfEach DEF IsOneOfEach
<1>2. /\ DOMAIN t = DOMAIN packets /\ t = [i \in DOMAIN packets |-> t[i]]
      /\ \A i \in DOMAIN packets : t[i] = ParseResponse(packets[i])
  OBVIOUS
<1>3. DiscoverMdns(packets) = FlattenSeq(t)
  BY DEF DiscoverMdns
<1> HIDE DEF t
<1>4. \A i \in DOMAIN packets : IsSequence(t[i])
  BY <1>1, <1>2
<1>5. /\ IsSequence(FlattenSeq(t))
      /\ Range(FlattenSeq(t)) = UNION {Range(t[i]) : i \in DOMAIN packets}
  BY <1>2, <1>4, FlattenIsList
<1>6. UNION {Range(t[i]) : i \in DOMAIN packets}
          = UNION {Range(ParseResponse(packets[i])) : i \in DOMAIN packets}
  BY <1>2
<1> QED
  BY <1>3, <1>5, <1>6

\* The SSDP devices are those of the replies that name one, the first of each name.
NamesOne(r) == r.usn # "" /\ r.http

LEMMA NotifiersFound ==
    ASSUME NEW replies, IsSequence(replies)
    PROVE  /\ IsSequence(DiscoverSsdp(replies))
           /\ \A d \in Range(DiscoverSsdp(replies)) :
                  \E i \in DOMAIN replies : NamesOne(replies[i]) /\ d = replies[i]
           /\ \A i \in DOMAIN replies : NamesOne(replies[i]) =>
                  \E d \in Range(DiscoverSsdp(replies)) : d.usn = replies[i].usn
<1> DEFINE places == {i \in DOMAIN replies : replies[i].usn # "" /\ replies[i].http}
           devices == Picked(replies, places)
           keys == [i \in DOMAIN devices |-> devices[i].usn]
           t == DiscoverSsdp(replies)
<1>1. IsSequence(devices) /\ Range(devices) = {replies[i] : i \in places}
  BY PickedHas
<1>2. t = KeepFirst(devices, keys)
  BY DEF DiscoverSsdp
<1>3. \A i \in DOMAIN replies : i \in places <=> NamesOne(replies[i])
  BY DEF NamesOne
<1>4. places \subseteq DOMAIN replies
  OBVIOUS
<1> HIDE DEF places, devices, t
<1>5. /\ DOMAIN keys = DOMAIN devices /\ keys = [i \in DOMAIN devices |-> keys[i]]
      /\ \A i \in DOMAIN devices : keys[i] = devices[i].usn
  OBVIOUS
<1> HIDE DEF keys
<1>6. IsOneOfEach(t, devices, keys)
  <2>1. IsSequence(keys)
    BY <1>1, <1>5, IsListOf
  <2> QED
    BY <1>1, <1>2, <1>5, <2>1, FirstIsOneOfEach
<1>7. ASSUME NEW d \in Range(t)
      PROVE  \E i \in DOMAIN replies : NamesOne(replies[i]) /\ d = replies[i]
  <2>1. PICK j \in DOMAIN devices : d = devices[j]
    BY <1>6 DEF IsOneOfEach
  <2>2. d \in Range(devices)
    BY <2>1 DEF Range
  <2>3. PICK i \in places : d = replies[i]
    BY <1>1, <2>2
  <2> QED
    BY <1>3, <1>4, <2>3
<1>8. ASSUME NEW i \in DOMAIN replies, NamesOne(replies[i])
      PROVE  \E d \in Range(t) : d.usn = replies[i].usn
  <2>1. replies[i] \in Range(devices)
    BY <1>1, <1>3, <1>8
  <2>2. PICK j \in DOMAIN devices : devices[j] = replies[i]
    BY <2>1 DEF Range
  <2>3. PICK m \in DOMAIN devices : keys[m] = keys[j] /\ devices[m] \in Range(t)
    BY <1>6, <2>2 DEF IsOneOfEach
  <2> QED
    BY <1>5, <2>2, <2>3
<1> QED
  BY <1>6, <1>7, <1>8 DEF t, IsOneOfEach

\* What a passive check reports is true of what its probes have heard
\* (passive_check.py:117-229, passive_suite.py).
LEMMA CheckTells ==
    ASSUME JobsInv, phase = "reported", asked.kind = "passive" PROVE CheckIsTrue
<1> DEFINE of(probe) == ResultOf(probe)
           heard == ResultOf("l2").heard
<1>1. Probes(asked) /\ report = PassiveReport
  <2>1. report = Results /\ ~Pings(asked)
    BY AllHaveEnded DEF Pings
  <2>2. Probes(asked)
    BY DEF Probes
  <2>3. Results = PassiveReport
    BY <2>1 DEF Results, VendorKinds
  <2> QED
    BY <2>1, <2>2, <2>3
<1>2. PassiveProbes = ProbesOf(asked.kind)
  BY DEF ProbesOf
<1>3. \A probe \in {"l2", "dhcp", "mdns", "ssdp", "l2_probe"} : probe \in Range(PassiveProbes)
  <2>1. DOMAIN PassiveProbes = 1..6
    BY DEF PassiveProbes
  <2>2. /\ PassiveProbes[1] = "l2" /\ PassiveProbes[2] = "dhcp" /\ PassiveProbes[4] = "mdns"
        /\ PassiveProbes[5] = "ssdp" /\ PassiveProbes[6] = "l2_probe"
    BY DEF PassiveProbes
  <2> QED
    BY <2>1, <2>2 DEF Range
<1>4. \A probe \in {"l2", "dhcp", "mdns", "ssdp", "l2_probe"} :
          /\ AreHeard(probe, of(probe).heard)
          /\ of(probe).found = PassiveOf(probe, of(probe).heard)
  <2>1. ASSUME NEW probe \in {"l2", "dhcp", "mdns", "ssdp", "l2_probe"}
        PROVE  /\ AreHeard(probe, of(probe).heard)
               /\ of(probe).found = PassiveOf(probe, of(probe).heard)
    <3>1. PICK k \in DOMAIN ended : ended[k].job = probe
      BY <1>1, <1>2, <1>3, EachHasHeard
    <3>2. /\ ResultOf(ended[k].job) = ended[k].result
          /\ ended[k].job # "snmp" =>
                 /\ AreHeard(ended[k].job, ended[k].result.heard)
                 /\ ended[k].result.found
                        = Devices(asked.kind, ended[k].job, ended[k].result.heard)
      BY <1>1, EachHasHeard
    <3>3. probe # "snmp"
      OBVIOUS
    <3>4. Devices(asked.kind, probe, of(probe).heard) = PassiveOf(probe, of(probe).heard)
      BY DEF Devices
    <3> QED
      BY <3>1, <3>2, <3>3, <3>4
  <2> QED
    BY <2>1
<1> HIDE DEF of
<1>5. /\ of("l2").found = SniffPassive(of("l2").heard)
      /\ of("dhcp").found = SniffOption82(of("dhcp").heard)
      /\ of("mdns").found = DiscoverMdns(of("mdns").heard)
      /\ of("ssdp").found = DiscoverSsdp(of("ssdp").heard)
      /\ of("l2_probe").found = ProbeL2(of("l2_probe").heard)
  <2>1. \A w : /\ PassiveOf("l2", w) = SniffPassive(w) /\ PassiveOf("dhcp", w) = SniffOption82(w)
               /\ PassiveOf("mdns", w) = DiscoverMdns(w)
               /\ PassiveOf("ssdp", w) = DiscoverSsdp(w)
               /\ PassiveOf("l2_probe", w) = ProbeL2(w)
    BY DEF PassiveOf
  <2> QED
    BY <1>4, <2>1
<1>6. /\ IsSequence(of("l2").heard) /\ IsSequence(of("dhcp").heard)
      /\ IsSequence(of("mdns").heard) /\ IsSequence(of("ssdp").heard)
      /\ IsSequence(of("l2_probe").heard)
  BY <1>4 DEF AreHeard
<1>7. heard = of("l2").heard
  BY DEF of
<1>8. \A i \in DOMAIN heard : IsFrame(heard[i])
  <2>1. \A i \in DOMAIN heard : IsHeard("l2", heard[i])
    BY <1>4, <1>7 DEF AreHeard
  <2>2. \A x : IsHeard("l2", x) => IsFrame(x)
    BY DEF IsHeard, IsFrame
  <2> QED
    BY <2>1, <2>2
<1>9. \A i \in DOMAIN of("mdns").heard : IsSequence(of("mdns").heard[i])
  <2>1. \A i \in DOMAIN of("mdns").heard : IsHeard("mdns", of("mdns").heard[i])
    BY <1>4 DEF AreHeard
  <2>2. \A x : IsHeard("mdns", x) => IsSequence(x)
    BY DEF IsHeard, IsSequence, ToSet, Range
  <2> QED
    BY <2>1, <2>2
<1>10. /\ report.l2 = of("l2").found
       /\ report.summary = BuildSummary(of("l2").found, of("mdns").found, of("ssdp").found,
                                        of("l2_probe").found, of("dhcp").found)
  BY <1>1 DEF PassiveReport, FoundBy, of
<1> HIDE DEF heard
<1>11. /\ \A p \in Counted : FramesOf(report.l2, p)
              = Cardinality({i \in DOMAIN heard : CountsAs(heard[i], p)})
       /\ IsSequence(report.l2)
       /\ \A i \in DOMAIN report.l2 : report.l2[i].frames \in Nat \ {0}
       /\ \A i, j \in DOMAIN report.l2 : i < j =>
              /\ report.l2[i].frames >= report.l2[j].frames
              /\ report.l2[i].protocol = report.l2[j].protocol
                     => report.l2[i].variant # report.l2[j].variant
  <2>1. report.l2 = SniffPassive(heard) /\ IsSequence(heard)
    BY <1>5, <1>6, <1>7, <1>10
  <2> QED
    BY <1>8, <2>1, SniffedRows
<1>12. AllSay(report.summary)
  <2>1. IsSequence(of("mdns").found) /\ IsSequence(of("ssdp").found)
    BY <1>5, <1>6, <1>9, ServicesFound, NotifiersFound
  <2>2. IsSequence(of("dhcp").found)
    BY <1>5, <1>6, SniffedSamples
  <2>3. /\ IsSequence(of("l2_probe").found)
        /\ \A i \in DOMAIN of("l2_probe").found : of("l2_probe").found[i].frames \in Nat \ {0}
    BY <1>5, <1>6, ProbedL2
  <2> QED
    BY <1>10, <1>11, <2>1, <2>2, <2>3, SummarySays
<1>13. /\ FramesOf(report.l2, "VLAN") = Cardinality({i \in DOMAIN heard : IsTagged(heard[i])})
       /\ FramesOf(report.l2, "Spanning Tree")
              = Cardinality({i \in DOMAIN heard : IsSpanning(heard[i])})
  <2>1. "VLAN" \in Counted /\ "Spanning Tree" \in Counted
    BY DEF Counted, StpName
  <2>2. /\ \A f : CountsAs(f, "VLAN") <=> IsTagged(f)
        /\ \A f : CountsAs(f, "Spanning Tree") <=> IsSpanning(f)
    BY DEF CountsAs
  <2>3. {i \in DOMAIN heard : CountsAs(heard[i], "VLAN")} = {i \in DOMAIN heard : IsTagged(heard[i])}
    BY <2>2
  <2>4. {i \in DOMAIN heard : CountsAs(heard[i], "Spanning Tree")}
            = {i \in DOMAIN heard : IsSpanning(heard[i])}
    BY <2>2
  <2> QED
    BY <1>11, <2>1, <2>3, <2>4
<1> QED
  BY <1>11, <1>12, <1>13 DEF CheckIsTrue, AllSay, RowSays, heard

-------------------------------------------------------------------------------
(* What the vendors' probes make of the replies.                                   *)

HmiProbes == {"weintek_60000", "weintek_10275", "weintek_20249"}
GatewayProbes == {"ewon_1507", "ewon_1234", "ewon_4242"}
CameraSources == {"onvif", "sadp", "dahua"}
PrinterSources == {"epson", "zebra"}
ReplyProbes == CameraSources \cup NasProtocols \cup PrinterSources \cup HmiProbes \cup GatewayProbes

\* A probe's device for a reply, and what tells it from others.
ReplySource(probe) ==
    IF probe \in HmiProbes THEN "Weintek HMI Search"
    ELSE IF probe \in GatewayProbes THEN "eWON IPCONF" ELSE probe
ReplyDevice(probe, r) == DeviceOf(ReplySource(probe), r)

MarkOf(probe, d) ==
    IF probe = "onvif" THEN Otherwise(d.url, d.host)
    ELSE IF probe = "dahua" THEN DahuaKey(d)
    ELSE IF probe \in NasProtocols THEN d.host
    ELSE IF probe = "zebra" THEN ZebraKey(d)
    ELSE MacOrHost(d)

\* What a device says of itself.
LEMMA DeviceHas ==
    ASSUME NEW source, NEW r
    PROVE  /\ DeviceOf(source, r).source = source
           /\ DeviceOf(source, r).host = HostOf(source, r)
           /\ DeviceOf(source, r).mac = r.mac
           /\ DeviceOf(source, r).model = r.model /\ DeviceOf(source, r).url = r.url
           /\ source \notin {"QNAP", "WS_Discovery"} => DeviceOf(source, r).serial = r.serial
           /\ source \notin NasProtocols => DeviceOf(source, r).name = r.name
BY DEF DeviceOf

LEMMA ReplyHosts ==
    ASSUME NEW probe \in ReplyProbes, NEW r
    PROVE  ReplyDevice(probe, r).host = HostOf(probe, r)
<1>1. ReplyDevice(probe, r).host = HostOf(ReplySource(probe), r)
  BY DeviceHas DEF ReplyDevice
<1>2. CASE probe \in HmiProbes \cup GatewayProbes
  <2>1. ReplySource(probe) \notin FromOnly
    BY <1>2 DEF ReplySource, FromOnly
  <2>2. probe \notin FromOnly
    BY <1>2 DEF FromOnly, HmiProbes, GatewayProbes
  <2> QED
    BY <1>1, <2>1, <2>2 DEF HostOf
<1>3. CASE probe \notin HmiProbes \cup GatewayProbes
  BY <1>1, <1>3 DEF ReplySource
<1> QED
  BY <1>2, <1>3

\* What tells the device of a reply from others: for a Zebra printer its host name, or
\* the model where it says none.
IsMark(probe, m, r) ==
    IF probe = "zebra" THEN m = Otherwise(r.name, r.model) ELSE m \in Marks(probe, r)

\* A reply that came from somewhere has it.
LEMMA MarkIsMark ==
    ASSUME NEW probe \in ReplyProbes, NEW r, r.from # "", r.valid, IsHeard(probe, r)
    PROVE  IsMark(probe, MarkOf(probe, ReplyDevice(probe, r)), r)
<1> DEFINE d == ReplyDevice(probe, r)
           host == HostOf(probe, r)
           source == ReplySource(probe)
<1>0. d = DeviceOf(source, r)
  BY DEF ReplyDevice
<1> HIDE DEF d, source
<1>1. d.host = host /\ d.mac = r.mac /\ d.url = r.url /\ d.model = r.model
  <2>1. d.host = host
    BY ReplyHosts DEF d
  <2>2. /\ DeviceOf(source, r).mac = r.mac /\ DeviceOf(source, r).url = r.url
        /\ DeviceOf(source, r).model = r.model
    BY DEF DeviceOf
  <2> QED
    BY <1>0, <2>1, <2>2
<1>2. probe = "dahua" => d.serial = r.serial
  <2>1. probe = "dahua" => source = "dahua"
    BY DEF ReplySource, HmiProbes, GatewayProbes, source
  <2>2. DeviceOf("dahua", r).serial = r.serial
    BY DEF DeviceOf
  <2> QED
    BY <1>0, <2>1, <2>2
<1>3. probe = "zebra" => d.name = r.name
  <2>1. probe = "zebra" => source = "zebra"
    BY DEF ReplySource, HmiProbes, GatewayProbes, source
  <2>2. DeviceOf("zebra", r).name = r.name
    BY DEF DeviceOf, NasProtocols
  <2> QED
    BY <1>0, <2>1, <2>2
<1>4. host # ""
  BY DEF HostOf, Otherwise
<1> HIDE DEF host
<1>5. {host, r.mac, r.serial, r.url} \ {""} \subseteq Marks(probe, r)
  BY DEF Marks, host
<1>7. CASE probe = "onvif"
  <2>1. MarkOf(probe, d) = Otherwise(d.url, d.host)
    BY <1>7 DEF MarkOf
  <2> QED
    BY <1>1, <1>4, <1>5, <1>7, <2>1 DEF Otherwise, d, host, IsMark
<1>8. CASE probe = "dahua"
  <2>1. MarkOf(probe, d) = DahuaKey(d)
    BY <1>8 DEF MarkOf
  <2>2. DahuaKey(d) \in {host, r.mac, r.serial, r.url} \ {""}
    BY <1>1, <1>2, <1>4, <1>8 DEF DahuaKey, Otherwise
  <2> QED
    BY <1>4, <1>5, <1>8, <2>1, <2>2 DEF d, host, IsMark
<1>9. CASE probe \in NasProtocols
  <2>1. MarkOf(probe, d) = d.host
    BY <1>9 DEF MarkOf, NasProtocols
  <2> QED
    BY <1>1, <1>4, <1>5, <1>9, <2>1 DEF d, host, IsMark, NasProtocols
<1>10. CASE probe = "zebra"
  <2>1. MarkOf(probe, d) = ZebraKey(d)
    BY <1>10 DEF MarkOf, NasProtocols
  <2>2. r.name # "" \/ r.model # ""
    BY <1>10 DEF IsHeard
  <2>3. ZebraKey(d) = Otherwise(r.name, r.model)
    BY <1>1, <1>3, <1>10, <2>2 DEF ZebraKey, Otherwise
  <2> QED
    BY <1>10, <2>1, <2>3 DEF d, IsMark
<1>11. CASE /\ probe # "onvif" /\ probe # "dahua" /\ probe \notin NasProtocols
            /\ probe # "zebra"
  <2>1. MarkOf(probe, d) = MacOrHost(d)
    BY <1>11 DEF MarkOf
  <2> QED
    BY <1>1, <1>4, <1>5, <1>11, <2>1 DEF MacOrHost, Otherwise, d, host, IsMark
<1> QED
  BY <1>7, <1>8, <1>9, <1>10, <1>11

\* Replies that it tells from others in the same way seem to be of one device.
LEMMA SameMark ==
    ASSUME NEW p, NEW q, NEW probe, NEW r, NEW m,
           IsMark(p, m, q), IsMark(probe, m, r), p = "zebra" <=> probe = "zebra",
           IsHeard(p, q), IsHeard(probe, r)
    PROVE  SeemOne(p, q, probe, r)
<1>1. CASE p # "zebra"
  <2>1. m \in Marks(p, q) /\ m \in Marks(probe, r)
    BY <1>1 DEF IsMark
  <2> QED
    BY <2>1 DEF SeemOne
<1>2. CASE p = "zebra"
  <2>1. /\ probe = "zebra"
        /\ Otherwise(q.name, q.model) = Otherwise(r.name, r.model)
    BY <1>2 DEF IsMark
  <2>2. /\ q.name \in ZebraNames \/ (q.name = "" /\ q.model \notin ZebraNames)
        /\ r.name \in ZebraNames \/ (r.name = "" /\ r.model \notin ZebraNames)
    BY <1>2, <2>1 DEF IsHeard
  <2>3. CASE q.name = "" /\ r.name = ""
    BY <1>2, <2>1, <2>3 DEF Otherwise, SeemOne, OfOneModel
  <2>4. CASE q.name # "" \/ r.name # ""
    <3>1. q.name = r.name /\ q.name # ""
      <4> DEFINE m1 == Otherwise(q.name, q.model)
                 m2 == Otherwise(r.name, r.model)
      <4>1. /\ q.name # "" => m1 \in ZebraNames /\ m1 = q.name
            /\ q.name = "" => m1 \notin ZebraNames
        BY <2>2, NamesAssumption DEF Otherwise
      <4>2. /\ r.name # "" => m2 \in ZebraNames /\ m2 = r.name
            /\ r.name = "" => m2 \notin ZebraNames
        BY <2>2, NamesAssumption DEF Otherwise
      <4>3. m1 = m2
        BY <2>1
      <4> HIDE DEF m1, m2
      <4> QED
        BY <2>4, <4>1, <4>2, <4>3
    <3>2. q.name \in Marks(p, q) /\ r.name \in Marks(probe, r)
      BY <1>2, <2>1, <3>1 DEF Marks
    <3> QED
      BY <3>1, <3>2 DEF SeemOne
  <2> QED
    BY <2>3, <2>4
<1> QED
  BY <1>1, <1>2

\* The devices that valid replies tell of.
LEMMA DevicesHave ==
    ASSUME NEW source, NEW heard, IsSequence(heard)
    PROVE  /\ IsSequence(DevicesFrom(source, heard))
           /\ \A a \in DOMAIN DevicesFrom(source, heard) :
                  \E j \in DOMAIN heard :
                      heard[j].valid /\ DevicesFrom(source, heard)[a] = DeviceOf(source, heard[j])
           /\ \A i \in DOMAIN heard : heard[i].valid =>
                  \E a \in DOMAIN DevicesFrom(source, heard) :
                      DevicesFrom(source, heard)[a] = DeviceOf(source, heard[i])
<1> DEFINE places == {i \in DOMAIN heard : heard[i].valid}
           v == Valid(heard)
           d == DevicesFrom(source, heard)
<1>1. IsSequence(v) /\ Range(v) = {heard[i] : i \in places}
  BY PickedHas DEF Valid
<1>2. d = [i \in DOMAIN v |-> DeviceOf(source, v[i])]
  BY DEF DevicesFrom
<1> HIDE DEF v, d
<1>3. /\ DOMAIN d = DOMAIN v /\ d = [i \in DOMAIN v |-> d[i]]
      /\ \A i \in DOMAIN v : d[i] = DeviceOf(source, v[i])
  BY <1>2
<1>4. IsSequence(d)
  BY <1>1, <1>3, IsListOf
<1>5. ASSUME NEW a \in DOMAIN d
      PROVE  \E j \in DOMAIN heard : heard[j].valid /\ d[a] = DeviceOf(source, heard[j])
  <2>1. v[a] \in Range(v)
    BY <1>3 DEF Range
  <2>2. PICK j \in places : v[a] = heard[j]
    BY <1>1, <2>1
  <2> QED
    BY <1>3, <2>2
<1>6. ASSUME NEW i \in DOMAIN heard, heard[i].valid
      PROVE  \E a \in DOMAIN d : d[a] = DeviceOf(source, heard[i])
  <2>1. heard[i] \in Range(v)
    BY <1>1, <1>6
  <2>2. PICK a \in DOMAIN v : v[a] = heard[i]
    BY <2>1 DEF Range
  <2> QED
    BY <1>3, <2>2
<1> QED
  BY <1>4, <1>5, <1>6 DEF d

\* Every device found is one that a valid reply tells of, and every valid reply has its
\* device found, or one that cannot be told from it.
KeptBy(probe, heard, found) ==
    /\ IsSequence(found)
    /\ \A x \in Range(found) : \E j \in DOMAIN heard :
           /\ heard[j].valid
           /\ x.host = HostOf(probe, heard[j])
           /\ MarkOf(probe, x) = MarkOf(probe, ReplyDevice(probe, heard[j]))
           /\ probe \notin GatewayProbes => x = ReplyDevice(probe, heard[j])
    /\ \A i \in DOMAIN heard : heard[i].valid =>
           \E x \in Range(found) : MarkOf(probe, x) = MarkOf(probe, ReplyDevice(probe, heard[i]))

\* One device of each key, when devices of one key have the same mark.
LEMMA OneOfEachIsKept ==
    ASSUME NEW probe \in ReplyProbes, NEW heard, IsSequence(heard), NEW d,
           d = DevicesFrom(ReplySource(probe), heard), NEW keys, NEW t,
           IsOneOfEach(t, d, keys),
           \A a, b \in DOMAIN d : keys[a] = keys[b] => MarkOf(probe, d[a]) = MarkOf(probe, d[b])
    PROVE  KeptBy(probe, heard, t)
<1>1. \A a \in DOMAIN d : \E j \in DOMAIN heard :
          heard[j].valid /\ d[a] = ReplyDevice(probe, heard[j])
  BY DevicesHave DEF ReplyDevice
<1>2. \A i \in DOMAIN heard : heard[i].valid =>
          \E a \in DOMAIN d : d[a] = ReplyDevice(probe, heard[i])
  BY DevicesHave DEF ReplyDevice
<1>3. ASSUME NEW x \in Range(t)
      PROVE  \E j \in DOMAIN heard :
                 /\ heard[j].valid /\ x.host = HostOf(probe, heard[j])
                 /\ x = ReplyDevice(probe, heard[j])
  <2>1. PICK a \in DOMAIN d : x = d[a]
    BY DEF IsOneOfEach
  <2>2. PICK j \in DOMAIN heard : heard[j].valid /\ d[a] = ReplyDevice(probe, heard[j])
    BY <1>1
  <2> QED
    BY <2>1, <2>2, ReplyHosts
<1>4. ASSUME NEW i \in DOMAIN heard, heard[i].valid
      PROVE  \E x \in Range(t) : MarkOf(probe, x) = MarkOf(probe, ReplyDevice(probe, heard[i]))
  <2>1. PICK a \in DOMAIN d : d[a] = ReplyDevice(probe, heard[i])
    BY <1>2, <1>4
  <2>2. PICK b \in DOMAIN d : keys[b] = keys[a] /\ d[b] \in Range(t)
    BY DEF IsOneOfEach
  <2>3. MarkOf(probe, d[b]) = MarkOf(probe, d[a])
    BY <2>2
  <2> QED
    BY <2>1, <2>2, <2>3
<1>5. IsSequence(t)
  BY DEF IsOneOfEach
<1> QED
  BY <1>3, <1>4, <1>5 DEF KeptBy

\* The cameras' and the HMIs' probes (cameras.py, hikvision_sadp.py, dahua_discover.py,
\* weintek_hmi.py) keep the first of each key.
LEMMA CamerasAreKept ==
    ASSUME NEW probe \in CameraSources, NEW heard, IsSequence(heard)
    PROVE  KeptBy(probe, heard, CamerasOf(probe, heard))
<1> DEFINE d == DevicesFrom(ReplySource(probe), heard)
           marks == [a \in DOMAIN d |-> MarkOf(probe, d[a])]
<1>1. probe \in ReplyProbes
  BY DEF ReplyProbes
<1>2. CamerasOf(probe, heard) = KeepFirst(d, marks)
  <2>1. ReplySource(probe) = probe
    BY DEF ReplySource, CameraSources, HmiProbes, GatewayProbes
  <2>2. CASE probe = "onvif"
    <3>1. CamerasOf(probe, heard) = DiscoverOnvif(heard)
      BY <2>2 DEF CamerasOf
    <3>2. \A x : MarkOf(probe, x) = Otherwise(x.url, x.host)
      BY <2>2 DEF MarkOf
    <3> QED
      BY <2>1, <2>2, <3>1, <3>2 DEF DiscoverOnvif
  <2>3. CASE probe = "sadp"
    <3>1. CamerasOf(probe, heard) = DiscoverSadp(heard)
      BY <2>3 DEF CamerasOf
    <3>2. \A x : MarkOf(probe, x) = Otherwise(x.mac, x.host)
      BY <2>3 DEF MarkOf, NasProtocols, MacOrHost
    <3> QED
      BY <2>1, <2>3, <3>1, <3>2 DEF DiscoverSadp
  <2>4. CASE probe = "dahua"
    <3>1. CamerasOf(probe, heard) = DiscoverDahua(heard)
      BY <2>4 DEF CamerasOf
    <3>2. \A x : MarkOf(probe, x) = DahuaKey(x)
      BY <2>4 DEF MarkOf
    <3> QED
      BY <2>1, <2>4, <3>1, <3>2 DEF DiscoverDahua
  <2> QED
    BY <2>2, <2>3, <2>4 DEF CameraSources
<1>3. IsSequence(d)
  BY DevicesHave
<1> HIDE DEF d
<1>4. /\ DOMAIN marks = DOMAIN d /\ marks = [a \in DOMAIN d |-> marks[a]]
      /\ \A a \in DOMAIN d : marks[a] = MarkOf(probe, d[a])
  OBVIOUS
<1> HIDE DEF marks
<1>5. IsSequence(marks)
  BY <1>3, <1>4, IsListOf
<1>6. IsOneOfEach(KeepFirst(d, marks), d, marks)
  BY <1>3, <1>4, <1>5, FirstIsOneOfEach
<1>7. \A a, b \in DOMAIN d : marks[a] = marks[b] => MarkOf(probe, d[a]) = MarkOf(probe, d[b])
  BY <1>4
<1> QED
  BY <1>1, <1>2, <1>6, <1>7, OneOfEachIsKept DEF d

LEMMA HmisAreKept ==
    ASSUME NEW probe \in HmiProbes, NEW heard, IsSequence(heard)
    PROVE  KeptBy(probe, heard, DiscoverWeintek(heard))
<1> DEFINE d == DevicesFrom(ReplySource(probe), heard)
           keys == KeysOf(d)
<1>1. probe \in ReplyProbes
  BY DEF ReplyProbes
<1>2. DiscoverWeintek(heard) = KeepFirst(d, keys)
  <2>1. ReplySource(probe) = "Weintek HMI Search"
    BY DEF ReplySource
  <2> QED
    BY <2>1 DEF DiscoverWeintek
<1>3. IsSequence(d)
  BY DevicesHave
<1>4. \A x : MarkOf(probe, x) = MacOrHost(x)
  BY DEF MarkOf, HmiProbes, NasProtocols
<1> HIDE DEF d
<1>5. /\ DOMAIN keys = DOMAIN d /\ keys = [a \in DOMAIN d |-> keys[a]]
      /\ \A a \in DOMAIN d : keys[a] = MacOrHost(d[a])
  BY DEF KeysOf
<1> HIDE DEF keys
<1>6. IsSequence(keys)
  BY <1>3, <1>5, IsListOf
<1>7. IsOneOfEach(KeepFirst(d, keys), d, keys)
  BY <1>3, <1>5, <1>6, FirstIsOneOfEach
<1>8. \A a, b \in DOMAIN d : keys[a] = keys[b] => MarkOf(probe, d[a]) = MarkOf(probe, d[b])
  BY <1>4, <1>5
<1> QED
  BY <1>1, <1>2, <1>7, <1>8, OneOfEachIsKept DEF d

\* A dictionary of printers (epson_enpc.py, zebra_discovery.py) has the last of each key.
LEMMA PrintersAreKept ==
    ASSUME NEW probe \in PrinterSources, NEW heard, IsSequence(heard)
    PROVE  KeptBy(probe, heard, PrintersOf(probe, heard))
<1> DEFINE d == DevicesFrom(ReplySource(probe), heard)
           keys == [i \in DOMAIN d |-> IF probe = "epson" THEN EpsonKey(d[i])
                                       ELSE ZebraKey(d[i])]
<1>1. probe \in ReplyProbes
  BY DEF ReplyProbes
<1>2. PrintersOf(probe, heard) = KeepLast(d, keys)
  <2>1. ReplySource(probe) = probe
    BY DEF ReplySource, PrinterSources, HmiProbes, GatewayProbes
  <2> QED
    BY <2>1 DEF PrintersOf
<1>3. IsSequence(d)
  BY DevicesHave
<1> HIDE DEF d
<1>5. /\ DOMAIN keys = DOMAIN d /\ keys = [a \in DOMAIN d |-> keys[a]]
      /\ \A a \in DOMAIN d : keys[a] = IF probe = "epson" THEN EpsonKey(d[a]) ELSE ZebraKey(d[a])
  OBVIOUS
<1> HIDE DEF keys
<1>6. IsSequence(keys)
  BY <1>3, <1>5, IsListOf
<1>7. IsOneOfEach(KeepLast(d, keys), d, keys)
  BY <1>3, <1>5, <1>6, LastIsOneOfEach
<1>8. ASSUME NEW a \in DOMAIN d, NEW b \in DOMAIN d, keys[a] = keys[b]
      PROVE  MarkOf(probe, d[a]) = MarkOf(probe, d[b])
  <2>1. CASE probe = "epson"
    <3>1. \A x : MarkOf(probe, x) = MacOrHost(x)
      BY <2>1 DEF MarkOf, NasProtocols
    <3>2. EpsonKey(d[a]) = EpsonKey(d[b])
      BY <1>5, <1>8, <2>1
    <3>3. \A x, y : EpsonKey(x) = EpsonKey(y) => MacOrHost(x) = MacOrHost(y)
      <4>1. SUFFICES ASSUME NEW x, NEW y, EpsonKey(x) = EpsonKey(y)
                     PROVE  MacOrHost(x) = MacOrHost(y)
        OBVIOUS
      <4> DEFINE m == x.mac
                 n == y.mac
                 g == x.host
                 h == y.host
      <4>2. /\ EpsonKey(x) = IF m # "" THEN <<m>> ELSE <<g, x.model>>
            /\ EpsonKey(y) = IF n # "" THEN <<n>> ELSE <<h, y.model>>
        BY DEF EpsonKey
      <4>3. MacOrHost(x) = (IF m = "" THEN g ELSE m) /\ MacOrHost(y) = (IF n = "" THEN h ELSE n)
        BY DEF MacOrHost, Otherwise
      <4> HIDE DEF m, n, g, h
      <4>5. \A u, v, w : <<u>> # <<v, w>>
        <5>1. \A u, v, w : 2 \in DOMAIN <<v, w>> /\ 2 \notin DOMAIN <<u>>
          OBVIOUS
        <5> QED
          BY <5>1, Zenon
      <4>6. \A u, v : <<u>> = <<v>> => u = v
        OBVIOUS
      <4> DEFINE k == EpsonKey(x)
                 l == EpsonKey(y)
      <4> HIDE DEF k, l
      <4>7. k = l /\ (m # "" => k = <<m>>) /\ (m = "" => k = <<g, x.model>>)
            /\ (n # "" => l = <<n>>) /\ (n = "" => l = <<h, y.model>>)
        BY <4>1, <4>2 DEF k, l
      <4>8. m = "" <=> n = ""
        BY <4>5, <4>7, Zenon
      <4>9. m # "" => m = n
        BY <4>6, <4>7, <4>8, Zenon
      <4>10. CASE m = ""
        <5>1. n = "" /\ <<g, x.model>> = <<h, y.model>>
          BY <4>7, <4>8, <4>10
        <5>2. g = h
          BY <5>1
        <5>3. MacOrHost(x) = g /\ MacOrHost(y) = h
          BY <4>3, <4>10, <5>1
        <5> QED
          BY <5>2, <5>3
      <4>11. CASE m # ""
        <5>1. MacOrHost(x) = m /\ MacOrHost(y) = n
          BY <4>3, <4>8, <4>11
        <5> QED
          BY <4>9, <4>11, <5>1
      <4> QED
        BY <4>10, <4>11
    <3> QED
      BY <3>1, <3>2, <3>3
  <2>2. CASE probe = "zebra"
    <3>1. \A x : MarkOf(probe, x) = ZebraKey(x)
      BY <2>2 DEF MarkOf, NasProtocols
    <3> QED
      BY <1>5, <1>8, <2>2, <3>1
  <2> QED
    BY <2>1, <2>2 DEF PrinterSources
<1> QED
  BY <1>1, <1>2, <1>7, <1>8, OneOfEachIsKept DEF d

\* What is heard of a reply.
LEMMA ReplyIsHeard ==
    ASSUME NEW probe \in ReplyProbes, NEW x, IsHeard(probe, x)
    PROVE  x.from # "" /\ (probe = "ASUSTOR" => x.port \in AsustorPorts)
<1>1. probe \notin {"l2", "dhcp", "l2_probe", "mdns", "ssdp", "neighbors"}
  BY DEF ReplyProbes, CameraSources, NasProtocols, PrinterSources, HmiProbes, GatewayProbes
<1>2. x.from # ""
  BY <1>1, Zenon DEF IsHeard
<1>3. probe = "ASUSTOR" => x.port \in AsustorPorts
  BY Zenon DEF IsHeard
<1> QED
  BY <1>2, <1>3, Zenon

LEMMA JoinedRange ==
    ASSUME NEW s, NEW t, IsSequence(s), IsSequence(t), NEW st, IsJoined(st, s, t)
    PROVE  /\ IsSequence(st) /\ Range(st) = Range(s) \cup Range(t)
           /\ Len(s) \in Nat /\ DOMAIN s = 1..Len(s)
           /\ \A i \in DOMAIN s : i \in DOMAIN st /\ st[i] = s[i]
           /\ \A i \in DOMAIN st : i \notin DOMAIN s => st[i] \in Range(t) /\ Len(s) < i
<1> DEFINE S == Range(s) \cup Range(t)
<1>1. s \in Seq(S) /\ t \in Seq(S)
  BY SeqMonotonic DEF IsSequence
<1>2. /\ Len(s) \in Nat /\ Len(t) \in Nat /\ DOMAIN s = 1..Len(s) /\ DOMAIN t = 1..Len(t)
      /\ DOMAIN st = 1..Len(s) + Len(t) /\ st \in Seq(S)
      /\ \A i \in 1..Len(s) : st[i] = s[i]
      /\ \A i \in 1..Len(t) : st[Len(s) + i] = t[i]
  <2> HIDE DEF S
  <2> QED
    BY <1>1 DEF IsJoined
<1>3. IsSequence(st)
  <2> HIDE DEF S
  <2> QED
    BY <1>2, AreSequences
<1>4. ASSUME NEW i \in DOMAIN st, i \notin DOMAIN s PROVE st[i] \in Range(t) /\ Len(s) < i
  <2>1. i - Len(s) \in 1..Len(t) /\ Len(s) + (i - Len(s)) = i /\ Len(s) < i
    BY <1>2, <1>4
  <2> QED
    BY <1>2, <2>1 DEF Range
<1>5. \A i \in DOMAIN s : i \in DOMAIN st /\ st[i] = s[i]
  BY <1>2
<1>6. Range(st) \subseteq Range(s) \cup Range(t)
  BY <1>4, <1>5 DEF Range
<1>7. Range(s) \subseteq Range(st)
  BY <1>5 DEF Range
<1>8. Range(t) \subseteq Range(st)
  <2>1. ASSUME NEW i \in DOMAIN t PROVE t[i] \in Range(st)
    <3>1. Len(s) + i \in DOMAIN st /\ st[Len(s) + i] = t[i]
      BY <1>2
    <3> QED
      BY <3>1 DEF Range
  <2> QED
    BY <2>1 DEF Range
<1> QED
  BY <1>2, <1>3, <1>4, <1>5, <1>6, <1>7, <1>8

\* Storage: the first of each address and serial number, or name (nas.py:52-97).
LEMMA CollectedAreKept ==
    ASSUME NEW probe \in NasProtocols, NEW heard, IsSequence(heard)
    PROVE  KeptBy(probe, heard, UdpBroadcastCollect(probe, heard))
<1> DEFINE d == DevicesFrom(ReplySource(probe), heard)
           keys == [i \in DOMAIN d |-> NasKey(d[i])]
<1>1. probe \in ReplyProbes
  BY DEF ReplyProbes
<1>2. UdpBroadcastCollect(probe, heard) = KeepFirst(d, keys)
  <2>1. ReplySource(probe) = probe
    BY DEF ReplySource, NasProtocols, HmiProbes, GatewayProbes
  <2> QED
    BY <2>1 DEF UdpBroadcastCollect
<1>3. IsSequence(d)
  BY DevicesHave
<1>4. \A x : MarkOf(probe, x) = x.host
  BY DEF MarkOf, NasProtocols
<1> HIDE DEF d
<1>5. /\ DOMAIN keys = DOMAIN d /\ keys = [a \in DOMAIN d |-> keys[a]]
      /\ \A a \in DOMAIN d : keys[a] = NasKey(d[a])
  OBVIOUS
<1> HIDE DEF keys
<1>6. IsSequence(keys)
  BY <1>3, <1>5, IsListOf
<1>7. IsOneOfEach(KeepFirst(d, keys), d, keys)
  BY <1>3, <1>5, <1>6, FirstIsOneOfEach
<1>8. \A x, y : NasKey(x) = NasKey(y) => x.host = y.host
  BY DEF NasKey
<1>9. \A a, b \in DOMAIN d : keys[a] = keys[b] => MarkOf(probe, d[a]) = MarkOf(probe, d[b])
  BY <1>4, <1>5, <1>8
<1> QED
  BY <1>1, <1>2, <1>7, <1>9, OneOfEachIsKept DEF d

\* Of ASUSTOR, at both ports (nas.py:401-438).
LEMMA AsustorIsKept ==
    ASSUME NEW heard, AreHeard("ASUSTOR", heard)
    PROVE  KeptBy("ASUSTOR", heard, ProbeAsustor(heard))
<1> DEFINE at(port) == {i \in DOMAIN heard : heard[i].port = port}
           part(port) == Picked(heard, at(port))
           s == AtPort(heard, 8888)
           t == AtPort(heard, 8889)
           d == s \o t
           keys == [i \in DOMAIN d |-> NasKey(d[i])]
           found == KeepLast(d, keys)
<1>1. IsSequence(heard) /\ \A i \in DOMAIN heard : heard[i].port \in {8888, 8889}
  <2>1. "ASUSTOR" \in ReplyProbes
    BY DEF ReplyProbes, NasProtocols
  <2>2. \A x : IsHeard("ASUSTOR", x) => x.port \in AsustorPorts
    BY <2>1, ReplyIsHeard
  <2> QED
    BY <2>2 DEF AreHeard, AsustorPorts
<1>2. "ASUSTOR" \in NasProtocols
  BY DEF NasProtocols
<1>3. ASSUME NEW port
      PROVE  /\ IsSequence(part(port)) /\ Range(part(port)) = {heard[i] : i \in at(port)}
             /\ KeptBy("ASUSTOR", part(port), AtPort(heard, port))
  <2>1. IsSequence(part(port)) /\ Range(part(port)) = {heard[i] : i \in at(port)}
    BY <1>1, PickedHas
  <2>2. AtPort(heard, port) = UdpBroadcastCollect("ASUSTOR", part(port))
    BY DEF AtPort
  <2> HIDE DEF part
  <2> QED
    BY <1>2, <2>1, <2>2, CollectedAreKept
<1>4. \A i \in DOMAIN heard : i \in at(8888) \/ i \in at(8889)
  BY <1>1
<1>5. \A port : at(port) \subseteq DOMAIN heard
  OBVIOUS
<1>6. ProbeAsustor(heard) = found
  BY DEF ProbeAsustor
<1>7. IsJoined(d, s, t)
  BY DEF IsJoined
<1>8. \A x : MarkOf("ASUSTOR", x) = x.host
  BY DEF MarkOf, NasProtocols
<1> HIDE DEF d, at, part
<1>9. IsSequence(s) /\ IsSequence(t)
  BY <1>3 DEF KeptBy
<1>10. IsSequence(d) /\ Range(d) = Range(s) \cup Range(t)
  <2> HIDE DEF s, t
  <2> QED
    BY <1>7, <1>9, JoinedRange
<1>11. /\ DOMAIN keys = DOMAIN d /\ keys = [a \in DOMAIN d |-> keys[a]]
       /\ \A a \in DOMAIN d : keys[a] = NasKey(d[a])
  OBVIOUS
<1> HIDE DEF keys
<1>12. IsSequence(keys)
  BY <1>10, <1>11, IsListOf
<1>13. IsOneOfEach(found, d, keys)
  BY <1>10, <1>11, <1>12, LastIsOneOfEach
<1> HIDE DEF found
<1>14. ASSUME NEW port, NEW x \in Range(AtPort(heard, port))
       PROVE  \E j \in DOMAIN heard : /\ heard[j].valid
                                      /\ x.host = HostOf("ASUSTOR", heard[j])
                                      /\ x = ReplyDevice("ASUSTOR", heard[j])
  <2> DEFINE p == part(port)
  <2>1. PICK i \in DOMAIN p : /\ p[i].valid /\ x.host = HostOf("ASUSTOR", p[i])
                              /\ "ASUSTOR" \notin GatewayProbes => x = ReplyDevice("ASUSTOR", p[i])
    BY <1>3 DEF KeptBy
  <2>2. p[i] \in Range(p)
    BY DEF Range
  <2>3. PICK j \in at(port) : p[i] = heard[j]
    BY <1>3, <2>2
  <2>4. "ASUSTOR" \notin GatewayProbes
    BY DEF GatewayProbes
  <2> QED
    BY <1>5, <2>1, <2>3, <2>4
<1>15. ASSUME NEW x \in Range(found)
       PROVE  \E j \in DOMAIN heard : /\ heard[j].valid
                                      /\ x.host = HostOf("ASUSTOR", heard[j])
                                      /\ x = ReplyDevice("ASUSTOR", heard[j])
  <2>1. PICK a \in DOMAIN d : x = d[a]
    BY <1>13 DEF IsOneOfEach
  <2>2. x \in Range(s) \/ x \in Range(t)
    BY <1>10, <2>1 DEF Range
  <2> QED
    BY <1>14, <2>2
<1>16. ASSUME NEW port, NEW i \in at(port), heard[i].valid
       PROVE  \E y \in Range(AtPort(heard, port)) :
                  y.host = MarkOf("ASUSTOR", ReplyDevice("ASUSTOR", heard[i]))
  <2> DEFINE p == part(port)
  <2>1. heard[i] \in Range(p)
    BY <1>3
  <2>2. PICK j \in DOMAIN p : p[j] = heard[i]
    BY <2>1 DEF Range
  <2>3. KeptBy("ASUSTOR", p, AtPort(heard, port))
    BY <1>3
  <2> HIDE DEF p
  <2>4. \E y \in Range(AtPort(heard, port)) :
            MarkOf("ASUSTOR", y) = MarkOf("ASUSTOR", ReplyDevice("ASUSTOR", p[j]))
    BY <1>16, <2>2, <2>3 DEF KeptBy
  <2> QED
    BY <1>8, <2>2, <2>4
<1>17. ASSUME NEW i \in DOMAIN heard, heard[i].valid
       PROVE  \E x \in Range(found) :
                  MarkOf("ASUSTOR", x) = MarkOf("ASUSTOR", ReplyDevice("ASUSTOR", heard[i]))
  <2> DEFINE m == MarkOf("ASUSTOR", ReplyDevice("ASUSTOR", heard[i]))
  <2>1. \E y \in Range(s) \cup Range(t) : y.host = m
    BY <1>4, <1>16, <1>17
  <2>2. PICK y \in Range(d) : y.host = m
    BY <1>10, <2>1
  <2>3. PICK a \in DOMAIN d : d[a] = y
    BY DEF Range
  <2>4. PICK b \in DOMAIN d : keys[b] = keys[a] /\ d[b] \in Range(found)
    BY <1>13 DEF IsOneOfEach
  <2>5. \A u, v : NasKey(u) = NasKey(v) => u.host = v.host
    BY DEF NasKey
  <2>6. d[b].host = m
    BY <1>11, <2>2, <2>3, <2>4, <2>5
  <2> QED
    BY <1>8, <2>4, <2>6
<1>18. IsSequence(found)
  BY <1>13 DEF IsOneOfEach
<1> QED
  BY <1>6, <1>15, <1>17, <1>18 DEF KeptBy

-------------------------------------------------------------------------------
(* Gateways: what several answers of one say is put together (ewon.py:137-160).    *)

IsSaid(d, key, f, i) == MacOrHost(d[i]) = key /\ d[i][f] # ""
IsSaidBySome(d, key, f) ==
    \E i \in DOMAIN d : IsSaid(d, key, f, i) /\ Said(d, key, f) = d[i][f]

LEMMA SaidHas ==
    ASSUME NEW d, IsSequence(d), NEW key, NEW f
    PROVE  /\ \A i \in DOMAIN d : IsSaid(d, key, f, i) => Said(d, key, f) # ""
           /\ Said(d, key, f) # "" => IsSaidBySome(d, key, f)
<1> DEFINE saying == {i \in DOMAIN d : MacOrHost(d[i]) = key /\ d[i][f] # ""}
           x == Said(d, key, f)
<1>1. saying \in SUBSET Nat
  <2>1. DOMAIN d = 1..Len(d) /\ Len(d) \in Nat
    BY DEF IsSequence
  <2>2. saying \subseteq DOMAIN d
    OBVIOUS
  <2> HIDE DEF saying
  <2> QED
    BY <2>1, <2>2
<1>2. x = IF saying = {} THEN "" ELSE d[Min(saying)][f]
  BY DEF Said
<1>6. \A i : i \in saying <=> i \in DOMAIN d /\ IsSaid(d, key, f, i)
  BY DEF IsSaid
<1> HIDE DEF x, saying
<1>3. saying # {} => Min(saying) \in saying
  BY <1>1, LeastNumber DEF Min
<1>4. CASE saying = {}
  <2>1. x = ""
    BY <1>2, <1>4
  <2>2. \A i \in DOMAIN d : ~IsSaid(d, key, f, i)
    BY <1>4, <1>6
  <2> QED
    BY <2>1, <2>2 DEF x
<1>5. CASE saying # {}
  <2> DEFINE i == Min(saying)
  <2>1. i \in DOMAIN d /\ IsSaid(d, key, f, i)
    BY <1>3, <1>5, <1>6
  <2>2. x = d[i][f]
    BY <1>2, <1>5
  <2>3. d[i][f] # ""
    BY <2>1 DEF IsSaid
  <2> HIDE DEF i
  <2>4. x # "" /\ IsSaidBySome(d, key, f)
    BY <2>1, <2>2, <2>3 DEF x, IsSaidBySome
  <2> QED
    BY <2>4 DEF x
<1> QED
  BY <1>4, <1>5

IsDeviceRecord(x) ==
    {"source", "host", "mac", "serial", "name", "model"} \subseteq DOMAIN x

LEMMA MergedHas ==
    ASSUME NEW d, IsSequence(d), NEW a \in DOMAIN d, IsDeviceRecord(d[a])
    PROVE  /\ Merged(d, d[a]).host = d[a].host /\ IsDeviceRecord(Merged(d, d[a]))
           /\ MacOrHost(Merged(d, d[a])) = MacOrHost(d[a])
           /\ \A f \in {"mac", "serial", "name", "model"} : \A i \in DOMAIN d :
                  MacOrHost(d[i]) = MacOrHost(d[a]) /\ d[i][f] # "" => Merged(d, d[a])[f] # ""
<1> DEFINE x == d[a]
           key == MacOrHost(x)
           m == Merged(d, x)
<1>1. /\ "host" \in DOMAIN x /\ "mac" \in DOMAIN x
      /\ \A f \in {"serial", "name", "model"} : f \in DOMAIN x
  BY DEF IsDeviceRecord
<1>2. m = [f \in DOMAIN x |-> IF f \in {"source", "host"} THEN x[f] ELSE Said(d, key, f)]
  BY DEF Merged
<1> HIDE DEF m
<1>7. IsDeviceRecord(m)
  BY <1>2 DEF IsDeviceRecord
<1>3. m.host = x.host /\ m.mac = Said(d, key, "mac")
  BY <1>1, <1>2
<1>4. \A f \in {"mac", "serial", "name", "model"} : m[f] = Said(d, key, f)
  BY <1>1, <1>2
<1>5. MacOrHost(m) = key
  <2>1. CASE m.mac = ""
    <3>1. x.mac = ""
      <4>1. Said(d, key, "mac") = ""
        BY <1>3, <2>1
      <4>2. ~IsSaid(d, key, "mac", a)
        <5> HIDE DEF key
        <5> QED
          BY <4>1, SaidHas
      <4> QED
        BY <4>2 DEF IsSaid
    <3> QED
      BY <1>3, <2>1, <3>1 DEF MacOrHost, Otherwise
  <2>2. CASE m.mac # ""
    <3>1. PICK i \in DOMAIN d : MacOrHost(d[i]) = key /\ d[i].mac # "" /\ m.mac = d[i].mac
      <4>1. Said(d, key, "mac") # ""
        BY <1>3, <2>2
      <4> HIDE DEF key
      <4>2. IsSaidBySome(d, key, "mac")
        BY <4>1, SaidHas
      <4> QED
        BY <1>3, <4>2 DEF IsSaid, IsSaidBySome
    <3>2. MacOrHost(d[i]) = d[i].mac
      BY <3>1 DEF MacOrHost, Otherwise
    <3>3. MacOrHost(m) = m.mac
      BY <2>2 DEF MacOrHost, Otherwise
    <3> QED
      BY <3>1, <3>2, <3>3
  <2> QED
    BY <2>1, <2>2
<1>6. ASSUME NEW f \in {"mac", "serial", "name", "model"}, NEW i \in DOMAIN d,
             MacOrHost(d[i]) = key, d[i][f] # ""
      PROVE  m[f] # ""
  <2>1. Said(d, key, f) # ""
    <3>1. IsSaid(d, key, f, i)
      BY <1>6 DEF IsSaid
    <3> HIDE DEF key
    <3> QED
      BY <3>1, SaidHas
  <2> QED
    BY <1>4, <2>1
<1> QED
  BY <1>3, <1>5, <1>6, <1>7 DEF m

LEMMA GatewaysAreKept ==
    ASSUME NEW probe \in GatewayProbes, NEW heard, IsSequence(heard)
    PROVE  /\ KeptBy(probe, heard, IpconfCollect(heard))
           /\ \A i \in DOMAIN heard : heard[i].valid /\ heard[i].mac # "" =>
                  IsMerged(heard[i], IpconfCollect(heard))
           /\ \A x \in Range(IpconfCollect(heard)) : IsDeviceRecord(x)
<1> DEFINE source == "eWON IPCONF"
           d == DevicesFrom(source, heard)
           keys == KeysOf(d)
           firsts == KeepFirst(d, keys)
           t == [i \in DOMAIN firsts |-> Merged(d, firsts[i])]
<1>1. probe \in ReplyProbes
  BY DEF ReplyProbes
<1>2. IpconfCollect(heard) = t
  BY DEF IpconfCollect, MergeDevices
<1>3. \A r : ReplyDevice(probe, r) = DeviceOf(source, r)
  BY DEF ReplyDevice, ReplySource, HmiProbes, GatewayProbes
<1>4. /\ IsSequence(d)
      /\ \A a \in DOMAIN d : \E j \in DOMAIN heard :
             heard[j].valid /\ d[a] = DeviceOf(source, heard[j])
      /\ \A i \in DOMAIN heard : heard[i].valid =>
             \E a \in DOMAIN d : d[a] = DeviceOf(source, heard[i])
  <2> HIDE DEF source
  <2> QED
    BY DevicesHave
<1>5. \A x : MarkOf(probe, x) = MacOrHost(x)
  BY DEF MarkOf, GatewayProbes, NasProtocols
<1>6. \A r : /\ DeviceOf(source, r).serial = r.serial /\ DeviceOf(source, r).name = r.name
             /\ DeviceOf(source, r).model = r.model /\ DeviceOf(source, r).mac = r.mac
             /\ DeviceOf(source, r).host = Otherwise(r.ip, r.from)
             /\ IsDeviceRecord(DeviceOf(source, r))
  BY DEF DeviceOf, NasProtocols, IsDeviceRecord, HostOf, FromOnly
<1> HIDE DEF d, source
<1>7. /\ DOMAIN keys = DOMAIN d /\ keys = [a \in DOMAIN d |-> keys[a]]
      /\ \A a \in DOMAIN d : keys[a] = MacOrHost(d[a])
  BY DEF KeysOf
<1> HIDE DEF keys
<1>8. IsSequence(keys)
  BY <1>4, <1>7, IsListOf
<1>9. IsOneOfEach(firsts, d, keys)
  BY <1>4, <1>7, <1>8, FirstIsOneOfEach
<1> HIDE DEF firsts
<1>10. /\ DOMAIN t = DOMAIN firsts /\ t = [i \in DOMAIN firsts |-> t[i]]
       /\ \A i \in DOMAIN firsts : t[i] = Merged(d, firsts[i])
  OBVIOUS
<1> HIDE DEF t
<1>11. IsSequence(t)
  BY <1>9, <1>10, IsListOf DEF IsOneOfEach
<1>12. \A a \in DOMAIN d :
           /\ Merged(d, d[a]).host = d[a].host /\ IsDeviceRecord(Merged(d, d[a]))
           /\ MacOrHost(Merged(d, d[a])) = MacOrHost(d[a])
           /\ \A f \in {"mac", "serial", "name", "model"} : \A i \in DOMAIN d :
                  MacOrHost(d[i]) = MacOrHost(d[a]) /\ d[i][f] # "" => Merged(d, d[a])[f] # ""
  <2>1. \A a \in DOMAIN d : IsDeviceRecord(d[a])
    BY <1>4, <1>6
  <2> QED
    BY <1>4, <2>1, MergedHas
<1>13. ASSUME NEW x \in Range(t)
       PROVE  \E j \in DOMAIN heard :
                  /\ heard[j].valid /\ x.host = HostOf(probe, heard[j])
                  /\ MarkOf(probe, x) = MarkOf(probe, ReplyDevice(probe, heard[j]))
  <2>1. PICK i \in DOMAIN firsts : x = Merged(d, firsts[i])
    BY <1>10 DEF Range
  <2>2. firsts[i] \in Range(firsts)
    BY DEF Range
  <2>3. PICK a \in DOMAIN d : firsts[i] = d[a]
    BY <1>9, <2>2 DEF IsOneOfEach
  <2>4. PICK j \in DOMAIN heard : heard[j].valid /\ d[a] = DeviceOf(source, heard[j])
    BY <1>4
  <2>5. x.host = d[a].host /\ MacOrHost(x) = MacOrHost(d[a])
    BY <1>12, <2>1, <2>3
  <2>6. d[a] = ReplyDevice(probe, heard[j])
    BY <1>3, <2>4
  <2>7. d[a].host = HostOf(probe, heard[j])
    BY <1>1, <2>6, ReplyHosts
  <2> QED
    BY <1>5, <2>4, <2>5, <2>6, <2>7
<1>14. ASSUME NEW i \in DOMAIN heard, heard[i].valid
       PROVE  \E k \in DOMAIN t :
                  /\ MacOrHost(t[k]) = MacOrHost(DeviceOf(source, heard[i]))
                  /\ \A f \in {"mac", "serial", "name", "model"} :
                         heard[i][f] # "" => t[k][f] # ""
  <2>1. PICK a \in DOMAIN d : d[a] = DeviceOf(source, heard[i])
    BY <1>4, <1>14
  <2>2. PICK b \in DOMAIN d : keys[b] = keys[a] /\ d[b] \in Range(firsts)
    BY <1>9 DEF IsOneOfEach
  <2>3. PICK k \in DOMAIN firsts : firsts[k] = d[b]
    BY <2>2 DEF Range
  <2>4. MacOrHost(d[b]) = MacOrHost(d[a])
    BY <1>7, <2>2
  <2>5. t[k] = Merged(d, d[b]) /\ k \in DOMAIN t
    BY <1>10, <2>3
  <2>6. MacOrHost(t[k]) = MacOrHost(d[a])
    BY <1>12, <2>4, <2>5
  <2>7. \A f \in {"mac", "serial", "name", "model"} : d[a][f] # "" => t[k][f] # ""
    BY <1>12, <2>4, <2>5
  <2>8. \A f \in {"mac", "serial", "name", "model"} : d[a][f] = heard[i][f]
    BY <1>6, <2>1
  <2> QED
    BY <2>1, <2>5, <2>6, <2>7, <2>8
<1>15. KeptBy(probe, heard, t)
  <2>1. ASSUME NEW i \in DOMAIN heard, heard[i].valid
        PROVE  \E x \in Range(t) : MarkOf(probe, x) = MarkOf(probe, ReplyDevice(probe, heard[i]))
    <3>1. PICK k \in DOMAIN t : MacOrHost(t[k]) = MacOrHost(DeviceOf(source, heard[i]))
      BY <1>14, <2>1
    <3>2. t[k] \in Range(t)
      BY DEF Range
    <3> QED
      BY <1>3, <1>5, <3>1, <3>2
  <2> QED
    BY <1>11, <1>13, <2>1 DEF KeptBy
\* No two entries have one key, and so no two one MAC address.
<1>18. ASSUME NEW k \in DOMAIN t, NEW m \in DOMAIN t, MacOrHost(t[k]) = MacOrHost(t[m])
       PROVE  k = m
  <2> DEFINE places == FirstPlaces(keys)
             at == Ascending(places)
  <2>1. places \in SUBSET DOMAIN d
    BY <1>7 DEF FirstPlaces
  <2>2. places \in SUBSET Int /\ IsFiniteSet(places)
    BY <1>4, <2>1, PlacesAreFinite
  <2>3. /\ at \in Seq(places) /\ IsInjective(at)
        /\ \A i, j \in places : keys[i] = keys[j] => i = j
    <3>1. at \in Seq(places) /\ IsInjective(at)
      BY <2>2, AscendingIsSorted
    <3>2. ASSUME NEW i \in places, NEW j \in places, keys[i] = keys[j] PROVE i = j
      <4>1. /\ i \in Int /\ j \in Int /\ 1 <= i /\ 1 <= j
            /\ \A n \in 1..i - 1 : keys[n] # keys[i]
            /\ \A n \in 1..j - 1 : keys[n] # keys[j]
        BY <1>8, <2>2 DEF FirstPlaces, IsSequence
      <4> QED
        BY <3>2, <4>1
    <3> QED
      BY <3>1, <3>2
  <2>4. /\ DOMAIN firsts = DOMAIN at
        /\ \A i \in DOMAIN at : firsts[i] = d[at[i]] /\ at[i] \in places
    <3>1. firsts = [i \in DOMAIN at |-> d[at[i]]]
      BY DEF firsts, KeepFirst, Picked
    <3> QED
      BY <2>3, <3>1
  <2> HIDE DEF places, at
  <2>5. ASSUME NEW i \in DOMAIN t
        PROVE  /\ i \in DOMAIN at /\ at[i] \in places
               /\ MacOrHost(t[i]) = keys[at[i]]
    <3>1. i \in DOMAIN at /\ at[i] \in places /\ at[i] \in DOMAIN d
      BY <1>10, <2>1, <2>4
    <3>2. t[i] = Merged(d, d[at[i]])
      BY <1>10, <2>4, <3>1
    <3>3. MacOrHost(t[i]) = MacOrHost(d[at[i]])
      BY <1>12, <3>1, <3>2
    <3> QED
      BY <1>7, <3>1, <3>3
  <2>6. at[k] = at[m]
    BY <1>18, <2>3, <2>5
  <2> QED
    BY <2>3, <2>5, <2>6 DEF IsInjective
<1>16. ASSUME NEW i \in DOMAIN heard, heard[i].valid, heard[i].mac # ""
       PROVE  IsMerged(heard[i], t)
  <2> DEFINE mac == heard[i].mac
  <2>1. MacOrHost(DeviceOf(source, heard[i])) = mac
    BY <1>6, <1>16 DEF MacOrHost, Otherwise
  <2>2. PICK k \in DOMAIN t :
            /\ MacOrHost(t[k]) = mac
            /\ \A f \in {"mac", "serial", "name", "model"} : heard[i][f] # "" => t[k][f] # ""
    BY <1>14, <1>16, <2>1
  <2>3. t[k].mac = mac
    <3>1. t[k].mac # ""
      BY <1>16, <2>2
    <3> QED
      BY <2>2, <3>1 DEF MacOrHost, Otherwise
  <2>4. ASSUME NEW j \in DOMAIN t, t[j].mac = mac PROVE j = k
    <3>1. MacOrHost(t[j]) = mac
      BY <1>16, <2>4 DEF MacOrHost, Otherwise
    <3> QED
      BY <1>18, <2>2, <3>1
  <2>5. {j \in DOMAIN t : t[j].mac = mac} = {k}
    BY <2>3, <2>4
  <2> QED
    BY <2>2, <2>5 DEF IsMerged
<1>17. ASSUME NEW x \in Range(t) PROVE IsDeviceRecord(x)
  <2>1. PICK i \in DOMAIN firsts : x = Merged(d, firsts[i])
    BY <1>10 DEF Range
  <2>2. firsts[i] \in Range(firsts)
    BY DEF Range
  <2>3. PICK a \in DOMAIN d : firsts[i] = d[a]
    BY <1>9, <2>2 DEF IsOneOfEach
  <2> QED
    BY <1>12, <2>1, <2>3
<1> QED
  BY <1>2, <1>15, <1>16, <1>17

-------------------------------------------------------------------------------
(* The probes of each kind.                                                        *)

LEMMA VendorsProbes ==
    /\ IsSequence(CameraProbes) /\ Range(CameraProbes) = CameraSources \cup {"mdns", "ssdp"}
    /\ IsSequence(NasProbes) /\ Range(NasProbes) = NasProtocols \cup {"mdns", "ssdp"}
    /\ IsSequence(PrinterProbes) /\ Range(PrinterProbes) = PrinterSources
    /\ IsSequence(WeintekProbes) /\ Range(WeintekProbes) = HmiProbes
    /\ IsSequence(EwonProbes) /\ Range(EwonProbes) = GatewayProbes
<1>1. IsSequence(CameraProbes) /\ Range(CameraProbes) = CameraSources \cup {"mdns", "ssdp"}
  <2>1. DOMAIN CameraProbes = 1..5
    BY DEF CameraProbes
  <2>0. CameraProbes \in Seq({"onvif", "sadp", "dahua", "mdns", "ssdp"})
    BY DEF CameraProbes
  <2>3. 1..5 = {1, 2, 3, 4, 5}
    OBVIOUS
  <2>2. /\ CameraProbes[1] = "onvif" /\ CameraProbes[2] = "sadp" /\ CameraProbes[3] = "dahua"
        /\ CameraProbes[4] = "mdns" /\ CameraProbes[5] = "ssdp"
    BY DEF CameraProbes
  <2> QED
    BY <2>0, <2>1, <2>2, <2>3, AreSequences DEF Range, CameraSources
<1>2. IsSequence(NasProbes) /\ Range(NasProbes) = NasProtocols \cup {"mdns", "ssdp"}
  <2>1. DOMAIN NasProbes = 1..7
    BY DEF NasProbes
  <2>0. NasProbes \in Seq({"Synology", "QNAP", "ASUSTOR", "Netgear_ReadyNAS",
                           "WS_Discovery", "mdns", "ssdp"})
    BY DEF NasProbes
  <2>3. 1..7 = {1, 2, 3, 4, 5, 6, 7}
    OBVIOUS
  <2>2. /\ NasProbes[1] = "Synology" /\ NasProbes[2] = "QNAP" /\ NasProbes[3] = "ASUSTOR"
        /\ NasProbes[4] = "Netgear_ReadyNAS" /\ NasProbes[5] = "WS_Discovery"
        /\ NasProbes[6] = "mdns" /\ NasProbes[7] = "ssdp"
    BY DEF NasProbes
  <2> QED
    BY <2>0, <2>1, <2>2, <2>3, AreSequences DEF Range, NasProtocols
<1>3. IsSequence(PrinterProbes) /\ Range(PrinterProbes) = PrinterSources
  <2>1. DOMAIN PrinterProbes = 1..2
    BY DEF PrinterProbes
  <2>0. PrinterProbes \in Seq({"epson", "zebra"})
    BY DEF PrinterProbes
  <2>3. 1..2 = {1, 2}
    OBVIOUS
  <2>2. PrinterProbes[1] = "epson" /\ PrinterProbes[2] = "zebra"
    BY DEF PrinterProbes
  <2> QED
    BY <2>0, <2>1, <2>2, <2>3, AreSequences DEF Range, PrinterSources
<1>4. IsSequence(WeintekProbes) /\ Range(WeintekProbes) = HmiProbes
  <2>1. DOMAIN WeintekProbes = 1..3
    BY DEF WeintekProbes
  <2>0. WeintekProbes \in Seq({"weintek_60000", "weintek_10275", "weintek_20249"})
    BY DEF WeintekProbes
  <2>3. 1..3 = {1, 2, 3}
    OBVIOUS
  <2>2. /\ WeintekProbes[1] = "weintek_60000" /\ WeintekProbes[2] = "weintek_10275"
        /\ WeintekProbes[3] = "weintek_20249"
    BY DEF WeintekProbes
  <2> QED
    BY <2>0, <2>1, <2>2, <2>3, AreSequences DEF Range, HmiProbes
<1>5. IsSequence(EwonProbes) /\ Range(EwonProbes) = GatewayProbes
  <2>1. DOMAIN EwonProbes = 1..3
    BY DEF EwonProbes
  <2>0. EwonProbes \in Seq({"ewon_1507", "ewon_1234", "ewon_4242"})
    BY DEF EwonProbes
  <2>3. 1..3 = {1, 2, 3}
    OBVIOUS
  <2>2. /\ EwonProbes[1] = "ewon_1507" /\ EwonProbes[2] = "ewon_1234"
        /\ EwonProbes[3] = "ewon_4242"
    BY DEF EwonProbes
  <2> QED
    BY <2>0, <2>1, <2>2, <2>3, AreSequences DEF Range, GatewayProbes
<1> QED
  BY <1>1, <1>2, <1>3, <1>4, <1>5

LEMMA IndustrialProbes ==
    Range(ProbesOf("industrial")) = HmiProbes \cup GatewayProbes \cup {"neighbors"}
<1> DEFINE s == WeintekProbes \o EwonProbes
           t == <<"neighbors">>
           st == s \o t
<1>1. ProbesOf("industrial") = st
  BY DEF ProbesOf
<1>2. IsJoined(s, WeintekProbes, EwonProbes) /\ IsJoined(st, s, t)
  BY DEF IsJoined
<1>3. IsSequence(t) /\ Range(t) = {"neighbors"}
  <2>1. t \in Seq({"neighbors"})
    OBVIOUS
  <2>2. DOMAIN t = 1..1 /\ t[1] = "neighbors"
    OBVIOUS
  <2>3. 1..1 = {1}
    OBVIOUS
  <2> HIDE DEF t
  <2> QED
    BY <2>1, <2>2, <2>3, AreSequences DEF Range
<1> HIDE DEF s, t, st
<1>4. IsSequence(s) /\ Range(s) = HmiProbes \cup GatewayProbes
  BY <1>2, VendorsProbes, JoinedRange
<1> QED
  BY <1>1, <1>2, <1>3, <1>4, JoinedRange

\* The names that Contains finds in the lists of probes.
LEMMA ContainsNames ==
    ASSUME NEW s, IsSequence(s), NEW x PROVE Contains(s, x) <=> x \in Range(s)
<1>1. DOMAIN s = 1..Len(s)
  BY DEF IsSequence
<1> QED
  BY <1>1 DEF Contains, Range

\* Every probe with replies keeps what it was told.
LEMMA RepliesAreKept ==
    ASSUME NEW kind \in VendorKinds, NEW probe \in Range(ProbesOf(kind)), HasReplies(probe),
           NEW heard, AreHeard(probe, heard)
    PROVE  probe \in ReplyProbes /\ KeptBy(probe, heard, Devices(kind, probe, heard))
<1>1. probe \notin {"mdns", "ssdp", "neighbors"} /\ IsSequence(heard)
  BY DEF HasReplies, AreHeard
<1>2. CASE kind = "cameras"
  <2>1. probe \in CameraSources
    <3>1. ProbesOf(kind) = CameraProbes
      BY <1>2 DEF ProbesOf
    <3> QED
      BY <1>1, <3>1, VendorsProbes
  <2>2. Devices(kind, probe, heard) = CamerasOf(probe, heard)
    BY <1>2 DEF Devices
  <2> QED
    BY <1>1, <2>1, <2>2, CamerasAreKept DEF ReplyProbes
<1>3. CASE kind = "nas"
  <2>1. probe \in NasProtocols
    <3>1. ProbesOf(kind) = NasProbes
      BY <1>3 DEF ProbesOf
    <3> QED
      BY <1>1, <3>1, VendorsProbes
  <2>2. Devices(kind, probe, heard) = NasOf(probe, heard)
    BY <1>3 DEF Devices
  <2>3. CASE probe = "ASUSTOR"
    <3>1. NasOf(probe, heard) = ProbeAsustor(heard)
      BY <2>3 DEF NasOf
    <3> QED
      BY <2>1, <2>2, <2>3, <3>1, AsustorIsKept DEF ReplyProbes
  <2>4. CASE probe # "ASUSTOR"
    <3>1. NasOf(probe, heard) = UdpBroadcastCollect(probe, heard)
      BY <2>1, <2>4 DEF NasOf, NasProtocols
    <3> QED
      BY <1>1, <2>1, <2>2, <3>1, CollectedAreKept DEF ReplyProbes
  <2> QED
    BY <2>3, <2>4
<1>4. CASE kind = "printers"
  <2>1. probe \in PrinterSources
    <3>1. ProbesOf(kind) = PrinterProbes
      BY <1>4 DEF ProbesOf
    <3> QED
      BY <1>1, <3>1, VendorsProbes
  <2>2. Devices(kind, probe, heard) = PrintersOf(probe, heard)
    BY <1>4 DEF Devices
  <2> QED
    BY <1>1, <2>1, <2>2, PrintersAreKept DEF ReplyProbes
<1>5. CASE kind = "industrial"
  <2>1. probe \in HmiProbes \/ probe \in GatewayProbes
    BY <1>1, <1>5, IndustrialProbes
  <2>2. Devices(kind, probe, heard) = IndustrialOf(probe, heard)
    BY <1>5 DEF Devices
  <2>3. /\ Contains(WeintekProbes, probe) <=> probe \in HmiProbes
        /\ Contains(EwonProbes, probe) <=> probe \in GatewayProbes
    BY VendorsProbes, ContainsNames
  <2>4. CASE probe \in HmiProbes
    <3>1. IndustrialOf(probe, heard) = DiscoverWeintek(heard)
      BY <2>3, <2>4 DEF IndustrialOf, HmiProbes, GatewayProbes
    <3> QED
      BY <1>1, <2>2, <2>4, <3>1, HmisAreKept DEF ReplyProbes
  <2>5. CASE probe \in GatewayProbes
    <3>1. IndustrialOf(probe, heard) = IpconfCollect(heard)
      BY <2>3, <2>5 DEF IndustrialOf, HmiProbes, GatewayProbes
    <3> QED
      BY <1>1, <2>2, <2>5, <3>1, GatewaysAreKept DEF ReplyProbes
  <2> QED
    BY <2>1, <2>4, <2>5
<1> QED
  BY <1>2, <1>3, <1>4, <1>5 DEF VendorKinds

-------------------------------------------------------------------------------
(* In another order the same addresses are found.                                  *)

LEMMA ReverseHas ==
    ASSUME NEW s, IsSequence(s)
    PROVE  /\ IsSequence(Reverse(s)) /\ Range(Reverse(s)) = Range(s)
           /\ \A i \in DOMAIN Reverse(s) : \E j \in DOMAIN s : Reverse(s)[i] = s[j]
<1> DEFINE n == Len(s)
           t == Reverse(s)
<1>1. n \in Nat /\ DOMAIN s = 1..n
  BY DEF IsSequence
<1>2. t = [i \in 1..n |-> s[(n - i) + 1]]
  BY DEF Reverse
<1> HIDE DEF n, t
<1>3. DOMAIN t = 1..n /\ t = [i \in 1..n |-> t[i]] /\ \A i \in 1..n : t[i] = s[(n - i) + 1]
  BY <1>2
<1>4. \A i \in 1..n : (n - i) + 1 \in 1..n /\ (n - ((n - i) + 1)) + 1 = i
  BY <1>1
<1>5. IsSequence(t)
  BY <1>1, <1>3, Listed
<1>6. \A i \in DOMAIN t : \E j \in DOMAIN s : t[i] = s[j]
  BY <1>1, <1>3, <1>4
<1>7. \A j \in DOMAIN s : \E i \in DOMAIN t : t[i] = s[j]
  BY <1>1, <1>3, <1>4
<1>8. Range(t) = Range(s)
  BY <1>6, <1>7 DEF Range
<1> QED
  BY <1>5, <1>6, <1>8 DEF t

LEMMA HeardInReverse ==
    ASSUME NEW probe, NEW heard, AreHeard(probe, heard)
    PROVE  /\ AreHeard(probe, Reverse(heard)) /\ Range(Reverse(heard)) = Range(heard)
           /\ Agree(probe, heard) => Agree(probe, Reverse(heard))
<1> DEFINE t == Reverse(heard)
<1>1. /\ IsSequence(t) /\ Range(t) = Range(heard)
      /\ \A i \in DOMAIN t : \E j \in DOMAIN heard : t[i] = heard[j]
  BY ReverseHas DEF AreHeard
<1> HIDE DEF t
<1>2. AreHeard(probe, t)
  BY <1>1 DEF AreHeard
<1>3. ASSUME Agree(probe, heard) PROVE Agree(probe, t)
  <2>1. ASSUME probe = "ssdp", NEW i \in DOMAIN t, NEW j \in DOMAIN t, t[i].usn = t[j].usn
        PROVE  t[i].host = t[j].host /\ t[i].hints = t[j].hints
    <3>1. PICK k \in DOMAIN heard : t[i] = heard[k]
      BY <1>1
    <3>2. PICK m \in DOMAIN heard : t[j] = heard[m]
      BY <1>1
    <3> QED
      BY <1>3, <2>1, <3>1, <3>2 DEF Agree
  <2>2. ASSUME HasReplies(probe), NEW i \in DOMAIN t, NEW j \in DOMAIN t, t[i].valid, t[j].valid,
               SeemOne(probe, t[i], probe, t[j])
        PROVE  HostOf(probe, t[i]) = HostOf(probe, t[j])
    <3>1. PICK k \in DOMAIN heard : t[i] = heard[k]
      BY <1>1
    <3>2. PICK m \in DOMAIN heard : t[j] = heard[m]
      BY <1>1
    <3> QED
      BY <1>3, <2>2, <3>1, <3>2 DEF Agree
  <2> QED
    BY <2>1, <2>2 DEF Agree
<1> QED
  BY <1>1, <1>2, <1>3 DEF t

\* The addresses in a list.
LEMMA HostsInRange ==
    ASSUME NEW s PROVE HostsOf(s) = {x.host : x \in Range(s)}
BY DEF HostsOf, Range

ValidHosts(probe, heard) == {HostOf(probe, r) : r \in {x \in Range(heard) : x.valid}}

\* Where answers of one device agree, the addresses found are those of all that answered.
LEMMA KeptHosts ==
    ASSUME NEW probe \in ReplyProbes, NEW heard, AreHeard(probe, heard), NEW found,
           KeptBy(probe, heard, found), HasReplies(probe), Agree(probe, heard)
    PROVE  HostsOf(found) = ValidHosts(probe, heard)
<1>1. \A i \in DOMAIN heard : heard[i].from # "" /\ IsHeard(probe, heard[i])
  BY ReplyIsHeard DEF AreHeard
<1>2. ASSUME NEW x \in Range(found) PROVE x.host \in ValidHosts(probe, heard)
  <2>1. PICK j \in DOMAIN heard : heard[j].valid /\ x.host = HostOf(probe, heard[j])
    BY DEF KeptBy
  <2>2. heard[j] \in Range(heard)
    BY DEF Range
  <2> QED
    BY <2>1, <2>2 DEF ValidHosts
<1>3. ASSUME NEW i \in DOMAIN heard, heard[i].valid
      PROVE  \E x \in Range(found) : x.host = HostOf(probe, heard[i])
  <2>1. PICK x \in Range(found) :
            MarkOf(probe, x) = MarkOf(probe, ReplyDevice(probe, heard[i]))
    BY <1>3 DEF KeptBy
  <2>2. PICK j \in DOMAIN heard :
            /\ heard[j].valid /\ x.host = HostOf(probe, heard[j])
            /\ MarkOf(probe, x) = MarkOf(probe, ReplyDevice(probe, heard[j]))
    BY DEF KeptBy
  <2>3. /\ IsMark(probe, MarkOf(probe, ReplyDevice(probe, heard[i])), heard[i])
        /\ IsMark(probe, MarkOf(probe, ReplyDevice(probe, heard[j])), heard[j])
    BY <1>1, <1>3, <2>2, MarkIsMark
  <2>4. SeemOne(probe, heard[i], probe, heard[j])
    BY <1>1, <2>1, <2>2, <2>3, SameMark
  <2>5. HostOf(probe, heard[i]) = HostOf(probe, heard[j])
    BY <1>3, <2>2, <2>4 DEF Agree
  <2> QED
    BY <2>2, <2>5
<1>4. \A h \in ValidHosts(probe, heard) : \E x \in Range(found) : x.host = h
  <2>1. ASSUME NEW h \in ValidHosts(probe, heard) PROVE \E x \in Range(found) : x.host = h
    <3>1. PICK r \in Range(heard) : r.valid /\ h = HostOf(probe, r)
      BY DEF ValidHosts
    <3>2. PICK i \in DOMAIN heard : r = heard[i]
      BY DEF Range
    <3> QED
      BY <1>3, <3>1, <3>2
  <2> QED
    BY <2>1
<1>5. HostsOf(found) = {x.host : x \in Range(found)}
  BY HostsInRange
<1> QED
  BY <1>2, <1>4, <1>5

\* The services, and the SSDP devices, that are taken for a vendor's.
LEMMA ServicesInHave ==
    ASSUME NEW packets, AreHeard("mdns", packets),
           NEW places \in SUBSET DOMAIN DiscoverMdns(packets)
    PROVE  /\ IsSequence(DiscoverMdns(packets)) /\ IsSequence(ServicesIn(packets, places))
           /\ HostsOf(ServicesIn(packets, places))
                  = {DiscoverMdns(packets)[i].host : i \in places}
<1> DEFINE m == DiscoverMdns(packets)
           services == Picked(m, places)
           t == ServicesIn(packets, places)
<1>1. IsSequence(m)
  <2>1. \A x : IsHeard("mdns", x) => IsSequence(x)
    BY DEF IsHeard, IsSequence, ToSet, Range
  <2> QED
    BY <2>1, ServicesFound DEF AreHeard
<1>2. t = [i \in DOMAIN services |-> FromService(services[i])]
  BY DEF ServicesIn
<1> HIDE DEF m
<1>3. IsSequence(services) /\ Range(services) = {m[i] : i \in places}
  BY <1>1, PickedHas DEF m
<1> HIDE DEF services, t
<1>4. /\ DOMAIN t = DOMAIN services /\ t = [i \in DOMAIN services |-> t[i]]
      /\ \A i \in DOMAIN services : t[i] = FromService(services[i])
  BY <1>2
<1>5. IsSequence(t)
  BY <1>3, <1>4, IsListOf
<1>6. \A s : FromService(s).host = s.host
  BY DEF FromService
<1>7. HostsOf(t) = {services[i].host : i \in DOMAIN services}
  BY <1>4, <1>6 DEF HostsOf
<1>8. {services[i].host : i \in DOMAIN services} = {x.host : x \in Range(services)}
  BY DEF Range
<1>9. {x.host : x \in Range(services)} = {m[i].host : i \in places}
  BY <1>3
<1> QED
  BY <1>1, <1>5, <1>7, <1>8, <1>9 DEF m, t

LEMMA NotifiersInHave ==
    ASSUME NEW replies, IsSequence(replies),
           NEW places \in SUBSET DOMAIN DiscoverSsdp(replies)
    PROVE  /\ IsSequence(DiscoverSsdp(replies)) /\ IsSequence(NotifiersIn(replies, places))
           /\ HostsOf(NotifiersIn(replies, places))
                  = {DiscoverSsdp(replies)[i].host : i \in places}
<1> DEFINE m == DiscoverSsdp(replies)
           devices == Picked(m, places)
           t == NotifiersIn(replies, places)
<1>1. IsSequence(m)
  BY NotifiersFound
<1>2. t = [i \in DOMAIN devices |-> FromSsdp(devices[i])]
  BY DEF NotifiersIn
<1> HIDE DEF m
<1>3. IsSequence(devices) /\ Range(devices) = {m[i] : i \in places}
  BY <1>1, PickedHas DEF m
<1> HIDE DEF devices, t
<1>4. /\ DOMAIN t = DOMAIN devices /\ t = [i \in DOMAIN devices |-> t[i]]
      /\ \A i \in DOMAIN devices : t[i] = FromSsdp(devices[i])
  BY <1>2
<1>5. IsSequence(t)
  BY <1>3, <1>4, IsListOf
<1>6. \A s : FromSsdp(s).host = s.host
  BY DEF FromSsdp
<1>7. HostsOf(t) = {devices[i].host : i \in DOMAIN devices}
  BY <1>4, <1>6 DEF HostsOf
<1>8. {devices[i].host : i \in DOMAIN devices} = {x.host : x \in Range(devices)}
  BY DEF Range
<1>9. {x.host : x \in Range(devices)} = {m[i].host : i \in places}
  BY <1>3
<1> QED
  BY <1>1, <1>5, <1>7, <1>8, <1>9 DEF m, t

LEMMA RepliesInReverse ==
    ASSUME NEW kind \in VendorKinds, NEW probe \in Range(ProbesOf(kind)), HasReplies(probe),
           NEW heard, AreHeard(probe, heard), Agree(probe, heard)
    PROVE  HostsOf(Devices(kind, probe, Reverse(heard))) = HostsOf(Devices(kind, probe, heard))
<1> DEFINE t == Reverse(heard)
<1>1. AreHeard(probe, t) /\ Range(t) = Range(heard) /\ Agree(probe, t)
  BY HeardInReverse
<1> HIDE DEF t
<1>2. /\ probe \in ReplyProbes
      /\ KeptBy(probe, heard, Devices(kind, probe, heard))
      /\ KeptBy(probe, t, Devices(kind, probe, t))
  BY <1>1, RepliesAreKept
<1>3. /\ HostsOf(Devices(kind, probe, heard)) = ValidHosts(probe, heard)
      /\ HostsOf(Devices(kind, probe, t)) = ValidHosts(probe, t)
  BY <1>1, <1>2, KeptHosts
<1>4. ValidHosts(probe, t) = ValidHosts(probe, heard)
  BY <1>1 DEF ValidHosts
<1> QED
  BY <1>3, <1>4 DEF t

\* The services that are cameras, and those that are disks.
CameraServices(services) == {s.host : s \in {x \in services : CameraFromMdns(x)}}
NasServices(services) == {s.host : s \in {x \in services : NasFromMdns(x)}}
CameraNotifiers(replies) ==
    {r.host : r \in {x \in replies : NamesOne(x) /\ CameraFromSsdp(x)}}
NasNotifiers(replies) == {r.host : r \in {x \in replies : NamesOne(x) /\ NasFromSsdp(x)}}

LEMMA ServiceHosts ==
    ASSUME NEW packets, AreHeard("mdns", packets)
    PROVE  /\ HostsOf(CamerasOf("mdns", packets)) = CameraServices(Range(DiscoverMdns(packets)))
           /\ HostsOf(NasOf("mdns", packets)) = NasServices(Range(DiscoverMdns(packets)))
<1> DEFINE m == DiscoverMdns(packets)
           cameras == {i \in DOMAIN m : CameraFromMdns(m[i])}
           disks == {i \in DOMAIN m : NasFromMdns(m[i])}
<1>1. cameras \in SUBSET DOMAIN m /\ disks \in SUBSET DOMAIN m
  OBVIOUS
<1>2. CamerasOf("mdns", packets) = ServicesIn(packets, cameras)
  BY DEF CamerasOf
<1>3. NasOf("mdns", packets) = ServicesIn(packets, disks)
  BY DEF NasOf
<1>4. /\ HostsOf(CamerasOf("mdns", packets)) = {m[i].host : i \in cameras}
      /\ HostsOf(NasOf("mdns", packets)) = {m[i].host : i \in disks}
  <2> HIDE DEF cameras, disks
  <2> QED
    BY <1>1, <1>2, <1>3, ServicesInHave
<1> HIDE DEF m
<1>5. {m[i].host : i \in cameras} = CameraServices(Range(m))
  BY DEF CameraServices, Range
<1>6. {m[i].host : i \in disks} = NasServices(Range(m))
  BY DEF NasServices, Range
<1> QED
  BY <1>4, <1>5, <1>6 DEF m

LEMMA NotifierHosts ==
    ASSUME NEW replies, IsSequence(replies), Agree("ssdp", replies)
    PROVE  /\ HostsOf(CamerasOf("ssdp", replies)) = CameraNotifiers(Range(replies))
           /\ HostsOf(NasOf("ssdp", replies)) = NasNotifiers(Range(replies))
<1> DEFINE m == DiscoverSsdp(replies)
           cameras == {i \in DOMAIN m : CameraFromSsdp(m[i])}
           disks == {i \in DOMAIN m : NasFromSsdp(m[i])}
<1>1. cameras \in SUBSET DOMAIN m /\ disks \in SUBSET DOMAIN m
  OBVIOUS
<1>2. CamerasOf("ssdp", replies) = NotifiersIn(replies, cameras)
  BY DEF CamerasOf
<1>3. NasOf("ssdp", replies) = NotifiersIn(replies, disks)
  BY DEF NasOf
<1>4. /\ HostsOf(CamerasOf("ssdp", replies)) = {m[i].host : i \in cameras}
      /\ HostsOf(NasOf("ssdp", replies)) = {m[i].host : i \in disks}
  <2> HIDE DEF cameras, disks
  <2> QED
    BY <1>1, <1>2, <1>3, NotifiersInHave
<1>5. /\ \A d \in Range(m) : \E i \in DOMAIN replies : NamesOne(replies[i]) /\ d = replies[i]
      /\ \A i \in DOMAIN replies : NamesOne(replies[i]) =>
             \E d \in Range(m) : d.usn = replies[i].usn
  BY NotifiersFound
<1> HIDE DEF m
<1>6. \A i, j \in DOMAIN replies : replies[i].usn = replies[j].usn =>
          replies[i].host = replies[j].host /\ replies[i].hints = replies[j].hints
  BY DEF Agree
<1>7. \A i \in DOMAIN m : \E r \in Range(replies) : NamesOne(r) /\ m[i] = r
  <2>1. \A i \in DOMAIN m : m[i] \in Range(m)
    BY DEF Range
  <2> QED
    BY <1>5, <2>1 DEF Range
<1>8. ASSUME NEW r \in Range(replies), NamesOne(r)
      PROVE  \E i \in DOMAIN m : m[i].host = r.host /\ m[i].hints = r.hints
  <2>1. PICK j \in DOMAIN replies : r = replies[j]
    BY DEF Range
  <2>2. PICK d \in Range(m) : d.usn = r.usn
    BY <1>5, <1>8, <2>1
  <2>3. PICK k \in DOMAIN replies : d = replies[k]
    BY <1>5
  <2>4. d.host = r.host /\ d.hints = r.hints
    BY <1>6, <2>1, <2>2, <2>3
  <2> QED
    BY <2>4 DEF Range
<1>9. \A x, y : x.hints = y.hints => /\ CameraFromSsdp(x) <=> CameraFromSsdp(y)
                                     /\ NasFromSsdp(x) <=> NasFromSsdp(y)
  BY DEF CameraFromSsdp, NasFromSsdp
<1>10. {m[i].host : i \in cameras} = CameraNotifiers(Range(replies))
  <2>1. ASSUME NEW i \in cameras PROVE m[i].host \in CameraNotifiers(Range(replies))
    BY <1>7 DEF CameraNotifiers
  <2>2. ASSUME NEW r \in Range(replies), NamesOne(r), CameraFromSsdp(r)
        PROVE  \E i \in cameras : m[i].host = r.host
    BY <1>8, <1>9, <2>2
  <2>3. \A h \in CameraNotifiers(Range(replies)) : \E i \in cameras : m[i].host = h
    BY <2>2 DEF CameraNotifiers
  <2> QED
    BY <2>1, <2>3
<1>11. {m[i].host : i \in disks} = NasNotifiers(Range(replies))
  <2>1. ASSUME NEW i \in disks PROVE m[i].host \in NasNotifiers(Range(replies))
    BY <1>7 DEF NasNotifiers
  <2>2. ASSUME NEW r \in Range(replies), NamesOne(r), NasFromSsdp(r)
        PROVE  \E i \in disks : m[i].host = r.host
    BY <1>8, <1>9, <2>2
  <2>3. \A h \in NasNotifiers(Range(replies)) : \E i \in disks : m[i].host = h
    BY <2>2 DEF NasNotifiers
  <2> QED
    BY <2>1, <2>3
<1> QED
  BY <1>4, <1>10, <1>11

\* What the packets tell of does not depend on their order.
LEMMA ServicesInReverse ==
    ASSUME NEW packets, AreHeard("mdns", packets)
    PROVE  Range(DiscoverMdns(Reverse(packets))) = Range(DiscoverMdns(packets))
<1> DEFINE t == Reverse(packets)
           told == {Range(ParseResponse(x)) : x \in Range(packets)}
<1>1. AreHeard("mdns", t) /\ Range(t) = Range(packets)
  BY HeardInReverse
<1> HIDE DEF t
<1>2. ASSUME NEW s, AreHeard("mdns", s), Range(s) = Range(packets)
      PROVE  Range(DiscoverMdns(s)) = UNION told
  <2>1. \A x : IsHeard("mdns", x) => IsSequence(x)
    BY DEF IsHeard, IsSequence, ToSet, Range
  <2>2. Range(DiscoverMdns(s)) = UNION {Range(ParseResponse(s[i])) : i \in DOMAIN s}
    BY <1>2, <2>1, ServicesFound DEF AreHeard
  <2>3. {Range(ParseResponse(s[i])) : i \in DOMAIN s} = {Range(ParseResponse(x)) : x \in Range(s)}
    BY DEF Range
  <2> QED
    BY <1>2, <2>2, <2>3
<1> QED
  BY <1>1, <1>2 DEF t

\* Cameras and disks are what services may be.
LEMMA VendorsOfServices ==
    ASSUME NEW kind \in VendorKinds, NEW probe \in Range(ProbesOf(kind)),
           probe \in {"mdns", "ssdp"}
    PROVE  kind \in {"cameras", "nas"}
<1>1. CASE kind = "printers"
  <2>1. ProbesOf(kind) = PrinterProbes
    BY <1>1 DEF ProbesOf
  <2> QED
    BY <2>1, VendorsProbes DEF PrinterSources
<1>2. CASE kind = "industrial"
  BY <1>2, IndustrialProbes DEF HmiProbes, GatewayProbes
<1> QED
  BY <1>1, <1>2 DEF VendorKinds

\* In another order answers that agree name devices of the same addresses.
LEMMA OrderIsNoMatter ==
    ASSUME NEW kind \in VendorKinds, NEW probe \in Range(ProbesOf(kind)), probe # "neighbors",
           NEW heard, AreHeard(probe, heard), Agree(probe, heard)
    PROVE  HostsOf(Devices(kind, probe, Reverse(heard))) = HostsOf(Devices(kind, probe, heard))
<1> DEFINE t == Reverse(heard)
<1>1. AreHeard(probe, t) /\ Range(t) = Range(heard) /\ Agree(probe, t)
  BY HeardInReverse
<1>2. CASE HasReplies(probe)
  BY <1>2, RepliesInReverse
<1>3. probe \in {"mdns", "ssdp"} => kind \in {"cameras", "nas"}
  BY VendorsOfServices
<1>4. \A s : (kind = "cameras" => Devices(kind, probe, s) = CamerasOf(probe, s))
          /\ (kind = "nas" => Devices(kind, probe, s) = NasOf(probe, s))
  BY DEF Devices
<1> HIDE DEF t
<1>5. CASE probe = "mdns"
  <2>1. Range(DiscoverMdns(t)) = Range(DiscoverMdns(heard))
    BY <1>5, ServicesInReverse DEF t
  <2>2. /\ HostsOf(CamerasOf(probe, t)) = HostsOf(CamerasOf(probe, heard))
        /\ HostsOf(NasOf(probe, t)) = HostsOf(NasOf(probe, heard))
    BY <1>1, <1>5, <2>1, ServiceHosts
  <2> QED
    BY <1>3, <1>4, <1>5, <2>2 DEF t
<1>6. CASE probe = "ssdp"
  <2>1. IsSequence(heard) /\ IsSequence(t)
    BY <1>1 DEF AreHeard
  <2>2. /\ HostsOf(CamerasOf(probe, t)) = HostsOf(CamerasOf(probe, heard))
        /\ HostsOf(NasOf(probe, t)) = HostsOf(NasOf(probe, heard))
    BY <1>1, <1>6, <2>1, NotifierHosts
  <2> QED
    BY <1>3, <1>4, <1>6, <2>2 DEF t
<1> QED
  BY <1>2, <1>5, <1>6 DEF HasReplies

\* What a gateway has said in any answer is in the probe's entry for it.
LEMMA AnswersAreMerged ==
    ASSUME NEW kind \in VendorKinds, NEW probe \in Range(ProbesOf(kind)),
           Contains(EwonProbes, probe), NEW heard, AreHeard(probe, heard)
    PROVE  /\ kind = "industrial" /\ probe \in GatewayProbes
           /\ \A i \in DOMAIN heard : heard[i].valid /\ heard[i].mac # "" =>
                  IsMerged(heard[i], Devices(kind, probe, heard))
           /\ \A x \in Range(Devices(kind, probe, heard)) : IsDeviceRecord(x)
<1>1. probe \in GatewayProbes /\ probe \notin HmiProbes
  BY VendorsProbes, ContainsNames DEF HmiProbes, GatewayProbes
<1>2. kind = "industrial"
  <2>1. CASE kind = "cameras"
    <3>1. ProbesOf(kind) = CameraProbes
      BY <2>1 DEF ProbesOf
    <3> QED
      BY <1>1, <3>1, VendorsProbes DEF CameraSources, GatewayProbes
  <2>2. CASE kind = "nas"
    <3>1. ProbesOf(kind) = NasProbes
      BY <2>2 DEF ProbesOf
    <3> QED
      BY <1>1, <3>1, VendorsProbes DEF NasProtocols, GatewayProbes
  <2>3. CASE kind = "printers"
    <3>1. ProbesOf(kind) = PrinterProbes
      BY <2>3 DEF ProbesOf
    <3> QED
      BY <1>1, <3>1, VendorsProbes DEF PrinterSources, GatewayProbes
  <2> QED
    BY <2>1, <2>2, <2>3 DEF VendorKinds
<1>3. ~Contains(WeintekProbes, probe)
  BY <1>1, VendorsProbes, ContainsNames
<1>4. Devices(kind, probe, heard) = IpconfCollect(heard)
  <2>1. Devices(kind, probe, heard) = IndustrialOf(probe, heard)
    BY <1>2 DEF Devices
  <2>2. probe # "neighbors"
    BY <1>1 DEF GatewayProbes
  <2> QED
    BY <1>3, <2>1, <2>2 DEF IndustrialOf
<1> QED
  BY <1>1, <1>2, <1>4, GatewaysAreKept DEF AreHeard

-------------------------------------------------------------------------------
(* The list of devices.                                                            *)

LEMMA DevicesAreList ==
    ASSUME NEW kind \in VendorKinds, NEW probe \in Range(ProbesOf(kind)),
           NEW heard, AreHeard(probe, heard)
    PROVE  IsSequence(Devices(kind, probe, heard))
<1>1. CASE HasReplies(probe)
  BY <1>1, RepliesAreKept DEF KeptBy
<1>2. CASE probe = "neighbors"
  <2>1. kind = "industrial"
    <3>1. kind \in {"cameras", "nas", "printers"} => probe \notin Range(ProbesOf(kind))
      <4>1. /\ kind = "cameras" => ProbesOf(kind) = CameraProbes
            /\ kind = "nas" => ProbesOf(kind) = NasProbes
            /\ kind = "printers" => ProbesOf(kind) = PrinterProbes
        BY DEF ProbesOf
      <4> QED
        BY <1>2, <4>1, VendorsProbes DEF CameraSources, NasProtocols, PrinterSources
    <3> QED
      BY <3>1 DEF VendorKinds
  <2>2. ~Contains(WeintekProbes, probe) /\ ~Contains(EwonProbes, probe)
    BY <1>2, VendorsProbes, ContainsNames DEF HmiProbes, GatewayProbes
  <2>3. Devices(kind, probe, heard) = IndustrialOf(probe, heard)
    BY <2>1 DEF Devices
  <2>4. IndustrialOf(probe, heard) = heard
    BY <1>2, <2>2 DEF IndustrialOf
  <2> QED
    BY <2>3, <2>4 DEF AreHeard
<1>3. CASE probe \in {"mdns", "ssdp"}
  <2>1. kind \in {"cameras", "nas"}
    BY <1>3, VendorsOfServices
  <2>2. /\ kind = "cameras" => Devices(kind, probe, heard) = CamerasOf(probe, heard)
        /\ kind = "nas" => Devices(kind, probe, heard) = NasOf(probe, heard)
    BY DEF Devices
  <2>3. CASE probe = "mdns"
    <3> DEFINE m == DiscoverMdns(heard)
               cameras == {i \in DOMAIN m : CameraFromMdns(m[i])}
               disks == {i \in DOMAIN m : NasFromMdns(m[i])}
    <3>1. cameras \in SUBSET DOMAIN m /\ disks \in SUBSET DOMAIN m
      OBVIOUS
    <3>2. /\ CamerasOf(probe, heard) = ServicesIn(heard, cameras)
          /\ NasOf(probe, heard) = ServicesIn(heard, disks)
      BY <2>3 DEF CamerasOf, NasOf
    <3> HIDE DEF cameras, disks
    <3>3. IsSequence(CamerasOf(probe, heard)) /\ IsSequence(NasOf(probe, heard))
      BY <2>3, <3>1, <3>2, ServicesInHave
    <3> QED
      BY <2>1, <2>2, <3>3
  <2>4. CASE probe = "ssdp"
    <3> DEFINE m == DiscoverSsdp(heard)
               cameras == {i \in DOMAIN m : CameraFromSsdp(m[i])}
               disks == {i \in DOMAIN m : NasFromSsdp(m[i])}
    <3>1. cameras \in SUBSET DOMAIN m /\ disks \in SUBSET DOMAIN m
      OBVIOUS
    <3>2. /\ CamerasOf(probe, heard) = NotifiersIn(heard, cameras)
          /\ NasOf(probe, heard) = NotifiersIn(heard, disks)
      BY <2>4 DEF CamerasOf, NasOf
    <3> HIDE DEF cameras, disks
    <3>3. IsSequence(CamerasOf(probe, heard)) /\ IsSequence(NasOf(probe, heard))
      BY <2>4, <3>1, <3>2, NotifiersInHave DEF AreHeard
    <3> QED
      BY <2>1, <2>2, <3>3
  <2> QED
    BY <1>3, <2>3, <2>4
<1> QED
  BY <1>1, <1>2, <1>3 DEF HasReplies

\* What a probe has found, with what it has heard.
IsFoundBy(probe, k) ==
    /\ k \in DOMAIN ended /\ ended[k].job = probe
    /\ AreHeard(probe, ended[k].result.heard)
    /\ FoundBy(probe) = Devices(asked.kind, probe, ended[k].result.heard)
    /\ FoundBy(probe) = ended[k].result.found

LEMMA EachHasFound ==
    ASSUME JobsInv, phase = "reported", asked.kind \in VendorKinds
    PROVE  /\ \A k \in DOMAIN ended :
                  ended[k].job \in Range(ProbesOf(asked.kind)) /\ IsFoundBy(ended[k].job, k)
           /\ \A probe \in Range(ProbesOf(asked.kind)) :
                  (\E k \in DOMAIN ended : IsFoundBy(probe, k)) /\ IsSequence(FoundBy(probe))
<1>1. Probes(asked)
  BY DEF Probes
<1>2. "snmp" \notin Range(ProbesOf(asked.kind))
  <2>1. /\ asked.kind = "cameras" => ProbesOf(asked.kind) = CameraProbes
        /\ asked.kind = "nas" => ProbesOf(asked.kind) = NasProbes
        /\ asked.kind = "printers" => ProbesOf(asked.kind) = PrinterProbes
    BY DEF ProbesOf
  <2>2. "snmp" \notin Range(CameraProbes)
    BY VendorsProbes DEF CameraSources
  <2>3. "snmp" \notin Range(NasProbes)
    BY VendorsProbes DEF NasProtocols
  <2>4. "snmp" \notin Range(PrinterProbes)
    BY VendorsProbes DEF PrinterSources
  <2>5. "snmp" \notin Range(ProbesOf("industrial"))
    BY IndustrialProbes DEF HmiProbes, GatewayProbes
  <2> QED
    BY <2>1, <2>2, <2>3, <2>4, <2>5 DEF VendorKinds
<1>3. ASSUME NEW k \in DOMAIN ended
      PROVE  ended[k].job \in Range(ProbesOf(asked.kind)) /\ IsFoundBy(ended[k].job, k)
  <2>1. /\ ended[k].job \in Range(ProbesOf(asked.kind))
        /\ ResultOf(ended[k].job) = ended[k].result
        /\ ended[k].job # "snmp" =>
               /\ AreHeard(ended[k].job, ended[k].result.heard)
               /\ ended[k].result.found
                      = Devices(asked.kind, ended[k].job, ended[k].result.heard)
    BY <1>1, EachHasHeard
  <2>2. FoundBy(ended[k].job) = ended[k].result.found
    BY <2>1 DEF FoundBy
  <2> QED
    BY <1>2, <2>1, <2>2 DEF IsFoundBy
<1>4. ASSUME NEW probe \in Range(ProbesOf(asked.kind))
      PROVE  (\E k \in DOMAIN ended : IsFoundBy(probe, k)) /\ IsSequence(FoundBy(probe))
  <2>1. PICK k \in DOMAIN ended : ended[k].job = probe
    BY <1>1, EachHasHeard
  <2>2. IsFoundBy(probe, k)
    BY <1>3, <2>1
  <2>3. IsSequence(FoundBy(probe))
    BY <2>2, DevicesAreList DEF IsFoundBy
  <2> QED
    BY <2>2, <2>3
<1> QED
  BY <1>3, <1>4

LEMMA AllThatIsFound ==
    ASSUME JobsInv, phase = "reported", asked.kind \in VendorKinds,
           NEW jobs, IsSequence(jobs), Range(jobs) \subseteq Range(ProbesOf(asked.kind))
    PROVE  /\ IsSequence(FoundByAll(jobs))
           /\ \A probe \in Range(jobs) : Range(FoundBy(probe)) \subseteq Range(FoundByAll(jobs))
           /\ \A x \in Range(FoundByAll(jobs)) : \E probe \in Range(jobs) :
                  x \in Range(FoundBy(probe))
<1> DEFINE t == [i \in DOMAIN jobs |-> FoundBy(jobs[i])]
<1>1. /\ DOMAIN t = DOMAIN jobs /\ t = [i \in DOMAIN jobs |-> t[i]]
      /\ \A i \in DOMAIN jobs : t[i] = FoundBy(jobs[i])
  OBVIOUS
<1>2. FoundByAll(jobs) = FlattenSeq(t)
  BY DEF FoundByAll
<1> HIDE DEF t
<1>3. \A i \in DOMAIN jobs : jobs[i] \in Range(jobs)
  BY DEF Range
<1>4. \A i \in DOMAIN jobs : IsSequence(t[i])
  BY <1>1, <1>3, EachHasFound
<1>5. /\ IsSequence(FoundByAll(jobs))
      /\ Range(FoundByAll(jobs)) = UNION {Range(t[i]) : i \in DOMAIN jobs}
  BY <1>1, <1>2, <1>4, FlattenIsList
<1>6. ASSUME NEW probe \in Range(jobs), NEW x \in Range(FoundBy(probe))
      PROVE  x \in Range(FoundByAll(jobs))
  <2>1. PICK i \in DOMAIN jobs : jobs[i] = probe
    BY DEF Range
  <2>2. x \in Range(t[i])
    BY <1>1, <2>1
  <2> QED
    BY <1>5, <2>2
<1>7. ASSUME NEW x \in Range(FoundByAll(jobs))
      PROVE  \E probe \in Range(jobs) : x \in Range(FoundBy(probe))
  <2>1. PICK i \in DOMAIN jobs : x \in Range(t[i])
    BY <1>5
  <2> QED
    BY <1>1, <1>3, <2>1
<1> QED
  BY <1>5, <1>6, <1>7

\* A probe with replies.
LEMMA ReplyIsKept ==
    ASSUME JobsInv, phase = "reported", asked.kind \in VendorKinds,
           NEW probe \in Range(ProbesOf(asked.kind)), HasReplies(probe),
           NEW k, IsFoundBy(probe, k)
    PROVE  /\ probe \in ReplyProbes
           /\ \A i \in DOMAIN ended[k].result.heard :
                  /\ ended[k].result.heard[i].from # ""
                  /\ IsHeard(probe, ended[k].result.heard[i])
           /\ KeptBy(probe, ended[k].result.heard, FoundBy(probe))
<1>1. probe \in ReplyProbes /\ KeptBy(probe, ended[k].result.heard, FoundBy(probe))
  BY RepliesAreKept DEF IsFoundBy
<1>2. \A i \in DOMAIN ended[k].result.heard :
          /\ ended[k].result.heard[i].from # ""
          /\ IsHeard(probe, ended[k].result.heard[i])
  BY <1>1, ReplyIsHeard DEF IsFoundBy, AreHeard
<1> QED
  BY <1>1, <1>2

\* A reply is in the list by a device found that has its mark and whose address is there.
LEMMA ListedBy ==
    ASSUME JobsInv, phase = "reported", asked.kind \in VendorKinds,
           NEW p \in Range(ProbesOf(asked.kind)), HasReplies(p),
           NEW x \in Range(FoundBy(p)), x.host \in HostsOf(report),
           NEW probe, NEW r, IsMark(probe, MarkOf(p, x), r), IsHeard(probe, r),
           p = "zebra" <=> probe = "zebra"
    PROVE  IsListed(probe, r)
<1>1. PICK k \in DOMAIN ended : IsFoundBy(p, k)
  BY EachHasFound
<1> DEFINE heard == ended[k].result.heard
<1>2. /\ p \in ReplyProbes /\ KeptBy(p, heard, FoundBy(p))
      /\ \A i \in DOMAIN heard : heard[i].from # "" /\ IsHeard(p, heard[i])
  BY <1>1, ReplyIsKept
<1> HIDE DEF heard
<1>3. PICK j \in DOMAIN heard : /\ heard[j].valid
                                /\ x.host = HostOf(p, heard[j])
                                /\ MarkOf(p, x) = MarkOf(p, ReplyDevice(p, heard[j]))
  BY <1>2 DEF KeptBy
<1>4. IsMark(p, MarkOf(p, x), heard[j])
  BY <1>2, <1>3, MarkIsMark
<1>5. SeemOne(p, heard[j], probe, r)
  BY <1>2, <1>4, SameMark
<1>6. HostOf(p, heard[j]) \in HostsOf(report)
  BY <1>3
<1>7. ended[k].job = p
  BY <1>1 DEF IsFoundBy
<1> QED
  BY <1>3, <1>5, <1>6, <1>7 DEF IsListed, heard

\* What is reported of devices.
LEMMA DevicesReported ==
    ASSUME JobsInv, phase = "reported", asked.kind \in VendorKinds
    PROVE  report = DevicesFound
<1>1. report = Results /\ ~Pings(asked) /\ asked.kind \notin {"ports", "checks", "passive"}
  BY AllHaveEnded DEF Pings, VendorKinds
<1> QED
  BY <1>1 DEF Results

\* One of each key keeps an address for every device, when the key names the address.
LEMMA AddressIsKept ==
    ASSUME NEW s, NEW keys, NEW t, IsOneOfEach(t, s, keys),
           \A a, b \in DOMAIN s : keys[a] = keys[b] => s[a].host = s[b].host,
           NEW x \in Range(s)
    PROVE  x.host \in HostsOf(t)
<1>1. PICK a \in DOMAIN s : s[a] = x
  BY DEF Range
<1>2. PICK b \in DOMAIN s : keys[b] = keys[a] /\ s[b] \in Range(t)
  BY DEF IsOneOfEach
<1>3. s[b].host = x.host
  BY <1>1, <1>2
<1>4. HostsOf(t) = {y.host : y \in Range(t)}
  BY HostsInRange
<1> QED
  BY <1>2, <1>3, <1>4

\* Cameras and disks are told apart by their addresses first (cameras.py:188-218,
\* nas.py:401-438).
LEMMA CamerasListed ==
    ASSUME JobsInv, phase = "reported", asked.kind \in {"cameras", "nas"},
           NEW probe \in Range(ProbesOf(asked.kind)), NEW x \in Range(FoundBy(probe))
    PROVE  x.host \in HostsOf(report)
<1>1. CASE asked.kind = "cameras"
  <2> DEFINE s == FoundByAll(CameraProbes)
             keys == [i \in DOMAIN s |-> CameraKey(s[i])]
  <2>1. ProbesOf(asked.kind) = CameraProbes /\ asked.kind \in VendorKinds
    BY <1>1 DEF ProbesOf, VendorKinds
  <2>2. IsSequence(s) /\ x \in Range(s)
    BY <2>1, VendorsProbes, AllThatIsFound
  <2>3. report = KeepLast(s, keys)
    <3>1. DevicesFound = DiscoverCameras(s)
      BY <1>1 DEF DevicesFound
    <3> QED
      BY <2>1, <3>1, DevicesReported DEF DiscoverCameras
  <2> HIDE DEF s
  <2>4. /\ DOMAIN keys = DOMAIN s /\ keys = [i \in DOMAIN s |-> keys[i]]
        /\ \A i \in DOMAIN s : keys[i] = CameraKey(s[i])
    OBVIOUS
  <2> HIDE DEF keys
  <2>5. IsSequence(keys)
    BY <2>2, <2>4, IsListOf
  <2>6. IsOneOfEach(KeepLast(s, keys), s, keys)
    BY <2>2, <2>4, <2>5, LastIsOneOfEach
  <2>7. \A u, v : CameraKey(u) = CameraKey(v) => u.host = v.host
    <3>1. \A u : CameraKey(u)[2] = u.host
      BY DEF CameraKey
    <3> QED
      BY <3>1
  <2>8. \A a, b \in DOMAIN s : keys[a] = keys[b] => s[a].host = s[b].host
    BY <2>4, <2>7
  <2> QED
    BY <2>2, <2>3, <2>6, <2>8, AddressIsKept
<1>2. CASE asked.kind = "nas"
  <2> DEFINE s == FoundByAll(NasProbes)
             keys == [i \in DOMAIN s |-> <<s[i].source, NasKey(s[i])>>]
  <2>1. ProbesOf(asked.kind) = NasProbes /\ asked.kind \in VendorKinds
    BY <1>2 DEF ProbesOf, VendorKinds
  <2>2. IsSequence(s) /\ x \in Range(s)
    BY <2>1, VendorsProbes, AllThatIsFound
  <2>3. report = KeepLast(s, keys)
    <3>1. DevicesFound = DiscoverNas(s)
      BY <1>2 DEF DevicesFound
    <3> QED
      BY <2>1, <3>1, DevicesReported DEF DiscoverNas
  <2> HIDE DEF s
  <2>4. /\ DOMAIN keys = DOMAIN s /\ keys = [i \in DOMAIN s |-> keys[i]]
        /\ \A i \in DOMAIN s : keys[i] = <<s[i].source, NasKey(s[i])>>
    OBVIOUS
  <2> HIDE DEF keys
  <2>5. IsSequence(keys)
    BY <2>2, <2>4, IsListOf
  <2>6. IsOneOfEach(KeepLast(s, keys), s, keys)
    BY <2>2, <2>4, <2>5, LastIsOneOfEach
  <2>7. \A u, v : NasKey(u) = NasKey(v) => u.host = v.host
    BY DEF NasKey
  <2>8. ASSUME NEW a \in DOMAIN s, NEW b \in DOMAIN s, keys[a] = keys[b]
        PROVE  s[a].host = s[b].host
    <3>1. <<s[a].source, NasKey(s[a])>> = <<s[b].source, NasKey(s[b])>>
      BY <2>4, <2>8
    <3>2. NasKey(s[a]) = NasKey(s[b])
      BY <3>1
    <3> QED
      BY <2>7, <3>2
  <2> QED
    BY <2>2, <2>3, <2>6, <2>8, AddressIsKept
<1> QED
  BY <1>1, <1>2

\* Printers by what they are and say (printers.py:36-48).
LEMMA PrintersListed ==
    ASSUME JobsInv, phase = "reported", asked.kind = "printers",
           NEW probe \in PrinterSources, NEW x \in Range(FoundBy(probe)),
           NEW r, IsMark(probe, MarkOf(probe, x), r), IsHeard(probe, r)
    PROVE  IsListed(probe, r)
<1> DEFINE s == FoundByAll(PrinterProbes)
           keys == [i \in DOMAIN s |-> PrinterKey(s[i])]
           mark == MarkOf(probe, x)
<1>1. /\ ProbesOf(asked.kind) = PrinterProbes /\ asked.kind \in VendorKinds
      /\ Range(ProbesOf(asked.kind)) = PrinterSources
  BY VendorsProbes DEF ProbesOf, VendorKinds
<1>2. /\ IsSequence(s) /\ x \in Range(s)
      /\ \A y \in Range(s) : \E p \in PrinterSources : y \in Range(FoundBy(p))
  BY <1>1, VendorsProbes, AllThatIsFound
<1>3. report = KeepLast(s, keys)
  <2>1. DevicesFound = DiscoverPrinters(s)
    BY DEF DevicesFound
  <2> QED
    BY <1>1, <2>1, DevicesReported DEF DiscoverPrinters
<1> HIDE DEF s
<1>4. /\ DOMAIN keys = DOMAIN s /\ keys = [i \in DOMAIN s |-> keys[i]]
      /\ \A i \in DOMAIN s : keys[i] = PrinterKey(s[i])
  OBVIOUS
<1> HIDE DEF keys
<1>5. IsSequence(keys)
  BY <1>2, <1>4, IsListOf
<1>6. IsOneOfEach(report, s, keys)
  BY <1>2, <1>3, <1>4, <1>5, LastIsOneOfEach
<1>7. PICK a \in DOMAIN s : s[a] = x
  BY <1>2 DEF Range
<1>8. PICK b \in DOMAIN s : keys[b] = keys[a] /\ s[b] \in Range(report)
  BY <1>6 DEF IsOneOfEach
<1> DEFINE y == s[b]
<1>9. PrinterKey(y) = PrinterKey(x) /\ y \in Range(report) /\ y \in Range(s)
  BY <1>4, <1>7, <1>8 DEF Range
<1>10. y.host \in HostsOf(report)
  BY <1>9, HostsInRange
<1> HIDE DEF y
<1>11. /\ y.source = x.source /\ y.model = x.model
       /\ Otherwise(IF y.source = "epson" THEN y.mac ELSE y.name, y.host)
              = Otherwise(IF x.source = "epson" THEN x.mac ELSE x.name, x.host)
  <2>1. \A u : /\ PrinterKey(u)[1] = u.source /\ PrinterKey(u)[2] = u.model
               /\ PrinterKey(u)[3]
                      = Otherwise(IF u.source = "epson" THEN u.mac ELSE u.name, u.host)
    BY DEF PrinterKey
  <2> HIDE DEF y
  <2> QED
    BY <1>9, <2>1
\* Each printer's source is its probe.
<1>12. ASSUME NEW p \in PrinterSources, NEW u \in Range(FoundBy(p))
       PROVE  /\ u.source = p
              /\ \E k \in DOMAIN ended : \E j \in DOMAIN ended[k].result.heard :
                     LET q == ended[k].result.heard[j]
                     IN /\ ended[k].job = p /\ q.valid /\ q.from # "" /\ IsHeard(p, q)
                        /\ u = DeviceOf(p, q) /\ u.host = HostOf(p, q)
  <2>1. HasReplies(p) /\ p \notin GatewayProbes /\ ReplySource(p) = p
    BY DEF PrinterSources, HasReplies, GatewayProbes, HmiProbes, ReplySource
  <2>2. PICK k \in DOMAIN ended : IsFoundBy(p, k)
    BY <1>1, EachHasFound
  <2> DEFINE heard == ended[k].result.heard
  <2>3. /\ KeptBy(p, heard, FoundBy(p))
        /\ \A i \in DOMAIN heard : heard[i].from # "" /\ IsHeard(p, heard[i])
    BY <1>1, <2>1, <2>2, ReplyIsKept
  <2>4. ended[k].job = p
    BY <2>2 DEF IsFoundBy
  <2> HIDE DEF heard
  <2>5. PICK j \in DOMAIN heard : /\ heard[j].valid /\ u.host = HostOf(p, heard[j])
                                  /\ u = ReplyDevice(p, heard[j])
    BY <2>1, <2>3 DEF KeptBy
  <2>6. u = DeviceOf(p, heard[j])
    BY <2>1, <2>5 DEF ReplyDevice
  <2>7. u.source = p
    BY <2>6, DeviceHas
  <2> QED
    BY <2>3, <2>4, <2>5, <2>6, <2>7 DEF heard
<1>13. x.source = probe
  BY <1>12
<1>14. PICK p \in PrinterSources : y \in Range(FoundBy(p))
  BY <1>2, <1>9
<1>15. p = probe
  BY <1>11, <1>12, <1>13, <1>14
<1>16. PICK k \in DOMAIN ended : \E j \in DOMAIN ended[k].result.heard :
           LET q == ended[k].result.heard[j]
           IN /\ ended[k].job = probe /\ q.valid /\ q.from # "" /\ IsHeard(probe, q)
              /\ y = DeviceOf(probe, q) /\ y.host = HostOf(probe, q)
  BY <1>12, <1>14, <1>15
<1> DEFINE heard == ended[k].result.heard
<1>17. PICK j \in DOMAIN heard : /\ ended[k].job = probe /\ heard[j].valid
                                 /\ heard[j].from # "" /\ IsHeard(probe, heard[j])
                                 /\ y = DeviceOf(probe, heard[j])
                                 /\ y.host = HostOf(probe, heard[j])
  BY <1>16
<1> DEFINE q == heard[j]
<1>19. /\ y.mac = q.mac /\ y.model = q.model
       /\ y.name = q.name
  <2>1. probe \notin NasProtocols
    BY DEF PrinterSources, NasProtocols
  <2>2. y = DeviceOf(probe, q)
    BY <1>17
  <2> HIDE DEF q
  <2>3. /\ DeviceOf(probe, q).mac = q.mac /\ DeviceOf(probe, q).model = q.model
        /\ DeviceOf(probe, q).name = q.name
    BY <2>1, DeviceHas
  <2> QED
    BY <2>2, <2>3
<1>18. PICK given : IsHeard(probe, given) /\ given.valid /\ x = DeviceOf(probe, given)
                    /\ x.host = HostOf(probe, given)
  <2>1. PICK n \in DOMAIN ended : \E i \in DOMAIN ended[n].result.heard :
            LET u == ended[n].result.heard[i]
            IN /\ ended[n].job = probe /\ u.valid /\ u.from # "" /\ IsHeard(probe, u)
               /\ x = DeviceOf(probe, u) /\ x.host = HostOf(probe, u)
    BY <1>12
  <2> QED
    BY <2>1
<1>23. x.name = given.name /\ x.model = given.model
  BY <1>18, DeviceHas DEF PrinterSources, NasProtocols
<1>20. IsMark(probe, mark, q)
  <2>1. CASE probe = "epson"
    <3>0. mark # ""
      BY <2>1 DEF IsMark, Marks
    <3>1. mark = Otherwise(x.mac, x.host)
      BY <2>1 DEF MarkOf, NasProtocols, MacOrHost
    <3>2. mark = Otherwise(y.mac, y.host)
      BY <1>11, <1>13, <2>1, <3>1
    <3>3. mark = y.mac \/ mark = y.host
      BY <3>2 DEF Otherwise
    <3> HIDE DEF mark
    <3>4. {HostOf(probe, q), q.mac} \ {""} \subseteq Marks(probe, q)
      BY DEF Marks
    <3> HIDE DEF q
    <3> QED
      BY <1>17, <1>19, <2>1, <3>0, <3>3, <3>4 DEF q, IsMark
  <2>2. CASE probe = "zebra"
    <3>1. mark = Otherwise(x.name, Otherwise(x.model, x.host))
      BY <2>2 DEF MarkOf, NasProtocols, ZebraKey
    <3>2. Otherwise(y.name, y.host) = Otherwise(x.name, x.host) /\ y.model = x.model
      BY <1>11, <1>13, <2>2
    <3> HIDE DEF mark, q
    <3>3. /\ x.host \notin ZebraNames /\ y.host \notin ZebraNames
          /\ x.name \in ZebraNames \/ x.name = ""
          /\ y.name \in ZebraNames \/ y.name = ""
          /\ x.name # "" \/ x.model # ""
      <4>1. /\ HostOf("zebra", q) \notin ZebraNames
            /\ q.name \in ZebraNames \/ q.name = ""
            /\ HostOf("zebra", given) \notin ZebraNames
            /\ given.name \in ZebraNames \/ given.name = ""
            /\ given.name # "" \/ given.model # ""
        BY <1>17, <1>18, <2>2 DEF IsHeard, q
      <4>2. x.host = HostOf("zebra", given) /\ y.host = HostOf("zebra", q)
        BY <1>17, <1>18, <2>2 DEF q
      <4> QED
        BY <1>19, <1>23, <4>1, <4>2
    <3>4. x.name = y.name
      BY <3>2, <3>3 DEF Otherwise
    <3>5. mark = Otherwise(y.name, y.model)
      BY <3>1, <3>2, <3>3, <3>4 DEF Otherwise
    <3> QED
      BY <1>19, <2>2, <3>5 DEF IsMark
  <2> QED
    BY <2>1, <2>2 DEF PrinterSources
<1>21. SeemOne(probe, q, probe, r)
  BY <1>17, <1>20, SameMark
<1>22. HasReplies(probe)
  BY DEF HasReplies, PrinterSources
<1> QED
  BY <1>10, <1>17, <1>21, <1>22 DEF IsListed

\* The first of the HMIs of a MAC address, or address (weintek_hmi.py:309-336), and of
\* the gateways: the last port's answer is before the neighbors (ewon.py:269-296).
LEMMA FirstsHave ==
    ASSUME NEW s, IsSequence(s), NEW x \in Range(s)
    PROVE  \E y \in Range(KeepFirst(s, KeysOf(s))) : y \in Range(s) /\ MacOrHost(y) = MacOrHost(x)
<1> DEFINE keys == KeysOf(s)
           t == KeepFirst(s, keys)
<1>1. /\ DOMAIN keys = DOMAIN s /\ keys = [i \in DOMAIN s |-> keys[i]]
      /\ \A i \in DOMAIN s : keys[i] = MacOrHost(s[i])
  BY DEF KeysOf
<1> HIDE DEF keys
<1>2. IsSequence(keys)
  BY <1>1, IsListOf
<1>3. IsOneOfEach(t, s, keys)
  BY <1>1, <1>2, FirstIsOneOfEach
<1> HIDE DEF t
<1>4. PICK a \in DOMAIN s : s[a] = x
  BY DEF Range
<1>5. PICK b \in DOMAIN s : keys[b] = keys[a] /\ s[b] \in Range(t)
  BY <1>3 DEF IsOneOfEach
<1>6. MacOrHost(s[b]) = MacOrHost(x) /\ s[b] \in Range(s)
  BY <1>1, <1>4, <1>5 DEF Range
<1> QED
  BY <1>5, <1>6 DEF t, keys

LEMMA EwonsAreList ==
    ASSUME NEW gateways, IsSequence(gateways), NEW entries, IsSequence(entries)
    PROVE  IsSequence(EwonDevices(gateways, entries))
<1> DEFINE lasts == KeysOf(gateways)
           l == KeepLast(gateways, lasts)
           others == EwonFromOuiNeighbors(entries)
           d == l \o others
           keys == KeysOf(d)
<1>1. EwonDevices(gateways, entries) = KeepFirst(d, keys)
  BY DEF EwonDevices
<1>2. IsSequence(others)
  <2>1. IsSequence(Usable(entries))
    BY PickedHas DEF Usable
  <2>2. IsSequence(OfEwon(Usable(entries)))
    BY <2>1, PickedHas DEF OfEwon
  <2> QED
    BY <2>2, DevicesHave DEF EwonFromOuiNeighbors
<1>3. DOMAIN lasts = DOMAIN gateways /\ lasts = [i \in DOMAIN gateways |-> lasts[i]]
  BY DEF KeysOf
<1> HIDE DEF lasts
<1>4. IsSequence(lasts)
  BY <1>3, IsListOf
<1>5. IsSequence(l)
  BY <1>3, <1>4, LastIsOneOfEach DEF IsOneOfEach
<1>6. IsJoined(d, l, others)
  BY DEF IsJoined
<1> HIDE DEF l, others, d
<1>7. IsSequence(d)
  BY <1>2, <1>5, <1>6, JoinedRange
<1>8. DOMAIN keys = DOMAIN d /\ keys = [i \in DOMAIN d |-> keys[i]]
  BY DEF KeysOf
<1> HIDE DEF keys
<1>9. IsSequence(keys)
  BY <1>7, <1>8, IsListOf
<1>10. IsSequence(KeepFirst(d, keys))
  BY <1>7, <1>8, <1>9, FirstIsOneOfEach DEF IsOneOfEach
<1> QED
  BY <1>1, <1>10 DEF d, keys

LEMMA GatewaysFirst ==
    ASSUME NEW gateways, IsSequence(gateways), NEW entries, IsSequence(entries),
           NEW x \in Range(gateways)
    PROVE  \E z \in Range(EwonDevices(gateways, entries)) :
               z \in Range(gateways) /\ MacOrHost(z) = MacOrHost(x)
<1> DEFINE lasts == KeysOf(gateways)
           l == KeepLast(gateways, lasts)
           others == EwonFromOuiNeighbors(entries)
           d == l \o others
           keys == KeysOf(d)
<1>1. EwonDevices(gateways, entries) = KeepFirst(d, keys)
  BY DEF EwonDevices
<1>2. IsSequence(others)
  <2>1. IsSequence(Usable(entries))
    BY PickedHas DEF Usable
  <2>2. IsSequence(OfEwon(Usable(entries)))
    BY <2>1, PickedHas DEF OfEwon
  <2> QED
    BY <2>2, DevicesHave DEF EwonFromOuiNeighbors
<1>3. /\ DOMAIN lasts = DOMAIN gateways /\ lasts = [i \in DOMAIN gateways |-> lasts[i]]
      /\ \A i \in DOMAIN gateways : lasts[i] = MacOrHost(gateways[i])
  BY DEF KeysOf
<1> HIDE DEF lasts
<1>4. IsSequence(lasts)
  BY <1>3, IsListOf
<1>5. IsOneOfEach(l, gateways, lasts)
  BY <1>3, <1>4, LastIsOneOfEach
<1>6. IsJoined(d, l, others)
  BY DEF IsJoined
<1> HIDE DEF l, others, d
<1>7. IsSequence(l)
  BY <1>5 DEF IsOneOfEach
<1>8. /\ IsSequence(d) /\ Len(l) \in Nat /\ DOMAIN l = 1..Len(l)
      /\ \A i \in DOMAIN l : i \in DOMAIN d /\ d[i] = l[i]
      /\ \A i \in DOMAIN d : i \notin DOMAIN l => Len(l) < i
  BY <1>2, <1>6, <1>7, JoinedRange
<1>9. /\ DOMAIN keys = DOMAIN d /\ keys = [i \in DOMAIN d |-> keys[i]]
      /\ \A i \in DOMAIN d : keys[i] = MacOrHost(d[i])
  BY DEF KeysOf
<1> HIDE DEF keys
<1>10. IsSequence(keys)
  BY <1>8, <1>9, IsListOf
<1>11. PICK a \in DOMAIN l : MacOrHost(l[a]) = MacOrHost(x)
  <2>1. PICK i \in DOMAIN gateways : gateways[i] = x
    BY DEF Range
  <2>2. PICK j \in DOMAIN gateways : lasts[j] = lasts[i] /\ gateways[j] \in Range(l)
    BY <1>5, <2>1 DEF IsOneOfEach
  <2>3. MacOrHost(gateways[j]) = MacOrHost(x)
    BY <1>3, <2>1, <2>2
  <2> QED
    BY <2>2, <2>3 DEF Range
<1>12. a \in DOMAIN keys
  BY <1>8, <1>9
<1>13. PICK j \in FirstPlaces(keys) : keys[j] = keys[a] /\ j <= a
  BY <1>10, <1>12, FirstAndLast
<1>14. j \in DOMAIN d
  BY <1>9 DEF FirstPlaces
<1>15. j \in DOMAIN l
  <2>1. j \in Nat /\ a <= Len(l) /\ a \in Nat
    <3>1. DOMAIN d = 1..Len(d)
      BY <1>8 DEF IsSequence
    <3> QED
      BY <1>8, <1>14, <3>1
  <2> QED
    BY <1>8, <1>13, <1>14, <2>1
<1>16. d[j] \in Range(KeepFirst(d, keys))
  BY <1>8, <1>9, <1>10, FirstIsOneOfEach
<1>17. MacOrHost(d[j]) = MacOrHost(x)
  BY <1>8, <1>9, <1>11, <1>13, <1>14
<1>18. d[j] \in Range(gateways)
  <2>1. d[j] \in Range(l)
    BY <1>8, <1>15 DEF Range
  <2> QED
    BY <1>5, <2>1 DEF IsOneOfEach, Range
<1> QED
  BY <1>1, <1>16, <1>17, <1>18 DEF d, keys

LEMMA ResolvedHas ==
    ASSUME NEW d, IsDeviceRecord(d), NEW entries PROVE Resolved(d, entries).host = d.host
<1> DEFINE known == {i \in DOMAIN Usable(entries) : Usable(entries)[i].ip = d.host}
           mac == Usable(entries)[Min(known)].mac
           e == [d EXCEPT !.mac = mac]
<1>1. Resolved(d, entries) = d \/ Resolved(d, entries) = e
  BY DEF Resolved
<1>2. "host" \in DOMAIN d
  BY DEF IsDeviceRecord
<1> HIDE DEF mac
<1>3. e.host = d.host
  BY <1>2
<1> QED
  BY <1>1, <1>3

\* HMIs and gateways.
LEMMA IndustrialListed ==
    ASSUME JobsInv, phase = "reported", asked.kind = "industrial",
           NEW probe \in HmiProbes \cup GatewayProbes, NEW x \in Range(FoundBy(probe)),
           NEW r, MacOrHost(x) \in Marks(probe, r), IsHeard(probe, r)
    PROVE  IsListed(probe, r)
<1> DEFINE hmis == FoundByAll(WeintekProbes)
           gateways == FoundByAll(EwonProbes)
           entries == FoundBy("neighbors")
           s == KeepFirst(hmis, KeysOf(hmis))
           all == EwonDevices(gateways, entries)
           t == [i \in DOMAIN all |-> Resolved(all[i], entries)]
<1>1. /\ asked.kind \in VendorKinds
      /\ Range(ProbesOf(asked.kind)) = HmiProbes \cup GatewayProbes \cup {"neighbors"}
  BY IndustrialProbes DEF VendorKinds
<1>2. /\ IsSequence(hmis)
      /\ \A p \in HmiProbes : Range(FoundBy(p)) \subseteq Range(hmis)
      /\ \A y \in Range(hmis) : \E p \in HmiProbes : y \in Range(FoundBy(p))
  BY <1>1, VendorsProbes, AllThatIsFound
<1>3. /\ IsSequence(gateways)
      /\ \A p \in GatewayProbes : Range(FoundBy(p)) \subseteq Range(gateways)
      /\ \A y \in Range(gateways) : \E p \in GatewayProbes : y \in Range(FoundBy(p))
  BY <1>1, VendorsProbes, AllThatIsFound
<1>4. IsSequence(entries)
  BY <1>1, EachHasFound
<1>5. IsJoined(report, s, t)
  <2>1. DevicesFound = DiscoverIndustrial(hmis, gateways, entries)
    BY DEF DevicesFound
  <2>2. report = DiscoverIndustrial(hmis, gateways, entries)
    BY <1>1, <2>1, DevicesReported
  <2>3. DiscoverIndustrial(hmis, gateways, entries) = s \o t
    BY DEF DiscoverIndustrial
  <2> QED
    BY <2>2, <2>3 DEF IsJoined
<1> HIDE DEF hmis, gateways, entries
<1>6. IsSequence(s)
  <2> DEFINE keys == KeysOf(hmis)
  <2>1. DOMAIN keys = DOMAIN hmis /\ keys = [i \in DOMAIN hmis |-> keys[i]]
    BY DEF KeysOf
  <2> HIDE DEF keys
  <2>2. IsSequence(keys)
    BY <1>2, <2>1, IsListOf
  <2>3. IsOneOfEach(KeepFirst(hmis, keys), hmis, keys)
    BY <1>2, <2>1, <2>2, FirstIsOneOfEach
  <2> QED
    BY <2>3 DEF IsOneOfEach, keys
<1>7. IsSequence(all)
  BY <1>3, <1>4, EwonsAreList
<1> HIDE DEF all
<1>8. /\ DOMAIN t = DOMAIN all /\ t = [i \in DOMAIN all |-> t[i]]
      /\ \A i \in DOMAIN all : t[i] = Resolved(all[i], entries)
  OBVIOUS
<1> HIDE DEF t
<1>9. IsSequence(t)
  BY <1>7, <1>8, IsListOf
<1> HIDE DEF s
<1>10. Range(report) = Range(s) \cup Range(t)
  BY <1>5, <1>6, <1>9, JoinedRange
<1>11. HostsOf(report) = {y.host : y \in Range(report)}
  BY HostsInRange
<1>12. \A p \in HmiProbes \cup GatewayProbes :
           HasReplies(p) /\ \A y : MarkOf(p, y) = MacOrHost(y)
  BY DEF HmiProbes, GatewayProbes, HasReplies, MarkOf, NasProtocols
\* Once a device of the same MAC address, or address, is in the list.
<1>13. ASSUME NEW p \in HmiProbes \cup GatewayProbes, NEW y \in Range(FoundBy(p)),
              MacOrHost(y) = MacOrHost(x), y.host \in HostsOf(report)
       PROVE  IsListed(probe, r)
  <2>1. HasReplies(p) /\ MarkOf(p, y) = MacOrHost(y)
    BY <1>12
  <2>2. p # "zebra" /\ probe # "zebra"
    BY DEF HmiProbes, GatewayProbes
  <2>3. IsMark(probe, MarkOf(p, y), r)
    BY <1>13, <2>1, <2>2 DEF IsMark
  <2> QED
    BY <1>1, <1>13, <2>1, <2>2, <2>3, ListedBy
<1>14. CASE probe \in HmiProbes
  <2>1. x \in Range(hmis)
    BY <1>2, <1>14
  <2>2. PICK y \in Range(s) : y \in Range(hmis) /\ MacOrHost(y) = MacOrHost(x)
    BY <1>2, <2>1, FirstsHave DEF s
  <2>3. PICK p \in HmiProbes : y \in Range(FoundBy(p))
    BY <1>2, <2>2
  <2>4. y.host \in HostsOf(report)
    BY <1>10, <1>11, <2>2
  <2> QED
    BY <1>13, <2>2, <2>3, <2>4
<1>15. CASE probe \in GatewayProbes
  <2>1. x \in Range(gateways)
    BY <1>3, <1>15
  <2>2. PICK y \in Range(all) : y \in Range(gateways) /\ MacOrHost(y) = MacOrHost(x)
    BY <1>3, <1>4, <2>1, GatewaysFirst DEF all
  <2>3. PICK p \in GatewayProbes : y \in Range(FoundBy(p))
    BY <1>3, <2>2
  <2>4. IsDeviceRecord(y)
    <3>1. PICK k \in DOMAIN ended : IsFoundBy(p, k)
      BY <1>1, EachHasFound
    <3>2. Contains(EwonProbes, p)
      BY VendorsProbes, ContainsNames
    <3>3. \A z \in Range(Devices(asked.kind, p, ended[k].result.heard)) : IsDeviceRecord(z)
      BY <1>1, <3>1, <3>2, AnswersAreMerged DEF IsFoundBy
    <3> QED
      BY <2>3, <3>1, <3>3 DEF IsFoundBy
  <2>5. y.host \in HostsOf(report)
    <3>1. PICK i \in DOMAIN all : all[i] = y
      BY <2>2 DEF Range
    <3>2. t[i] \in Range(report) /\ t[i] = Resolved(y, entries)
      BY <1>8, <1>10, <3>1 DEF Range
    <3>3. t[i].host = y.host
      BY <2>4, <3>2, ResolvedHas
    <3> QED
      BY <1>11, <3>2, <3>3
  <2> QED
    BY <1>13, <2>2, <2>3, <2>5
<1> QED
  BY <1>14, <1>15

\* Every reply is in the list, and what depends on the order of the answers is not there
\* (cameras.py:188-218, nas.py:401-438, printers.py:36-48, weintek_hmi.py:309-336,
\* ewon.py:137-160, 269-296).
LEMMA DevicesTell ==
    ASSUME JobsInv, phase = "reported", asked.kind \in VendorKinds PROVE DevicesAreKept
<1>1. SUFFICES ASSUME NEW k \in DOMAIN ended
               PROVE  LET probe == ended[k].job
                          heard == ended[k].result.heard
                          found == ended[k].result.found
                      IN /\ HasReplies(probe) =>
                                \A i \in DOMAIN heard :
                                    heard[i].valid => IsListed(probe, heard[i])
                         /\ Contains(EwonProbes, probe) =>
                                \A i \in DOMAIN heard :
                                    heard[i].valid /\ heard[i].mac # ""
                                        => IsMerged(heard[i], found)
                         /\ probe # "neighbors" /\ Agree(probe, heard) =>
                                HostsOf(Devices(asked.kind, probe, Reverse(heard)))
                                    = HostsOf(found)
  BY DEF DevicesAreKept
<1> DEFINE probe == ended[k].job
           heard == ended[k].result.heard
           found == ended[k].result.found
<1>2. probe \in Range(ProbesOf(asked.kind)) /\ IsFoundBy(probe, k)
  BY EachHasFound
<1>3. /\ AreHeard(probe, heard) /\ FoundBy(probe) = found
      /\ found = Devices(asked.kind, probe, heard)
  BY <1>2 DEF IsFoundBy
<1>4. ASSUME HasReplies(probe), NEW i \in DOMAIN heard, heard[i].valid
      PROVE  IsListed(probe, heard[i])
  <2> DEFINE r == heard[i]
  <2>1. /\ probe \in ReplyProbes /\ r.from # "" /\ IsHeard(probe, r) /\ r.valid
        /\ KeptBy(probe, heard, FoundBy(probe))
    BY <1>2, <1>4, ReplyIsKept
  <2> HIDE DEF probe, heard
  <2>2. PICK x \in Range(FoundBy(probe)) : MarkOf(probe, x) = MarkOf(probe, ReplyDevice(probe, r))
    BY <1>4, <2>1 DEF KeptBy
  <2>3. IsMark(probe, MarkOf(probe, x), r)
    BY <2>1, <2>2, MarkIsMark
  <2>4. CASE asked.kind \in {"cameras", "nas"}
    <3>1. x.host \in HostsOf(report)
      BY <1>2, <2>4, CamerasListed
    <3> QED
      BY <1>2, <1>4, <2>1, <2>3, <3>1, ListedBy DEF VendorKinds
  <2>5. CASE asked.kind = "printers"
    <3>1. probe \in PrinterSources
      <4>1. ProbesOf(asked.kind) = PrinterProbes
        BY <2>5 DEF ProbesOf
      <4> QED
        BY <1>2, <4>1, VendorsProbes
    <3> QED
      BY <2>1, <2>2, <2>3, <2>5, <3>1, PrintersListed
  <2>6. CASE asked.kind = "industrial"
    <3>1. probe \in HmiProbes \cup GatewayProbes
      BY <1>2, <1>4, <2>6, IndustrialProbes DEF HasReplies
    <3>2. MarkOf(probe, x) = MacOrHost(x)
      BY <3>1 DEF MarkOf, HmiProbes, GatewayProbes, NasProtocols
    <3>3. MacOrHost(x) \in Marks(probe, r)
      BY <2>3, <3>1, <3>2 DEF IsMark, HmiProbes, GatewayProbes
    <3> QED
      BY <2>1, <2>6, <3>1, <3>3, IndustrialListed
  <2> QED
    BY <2>4, <2>5, <2>6 DEF VendorKinds
<1>5. ASSUME Contains(EwonProbes, probe), NEW i \in DOMAIN heard, heard[i].valid,
             heard[i].mac # ""
      PROVE  IsMerged(heard[i], found)
  <2> HIDE DEF probe, heard, found
  <2> QED
    BY <1>2, <1>3, <1>5, AnswersAreMerged
<1>6. ASSUME probe # "neighbors", Agree(probe, heard)
      PROVE  HostsOf(Devices(asked.kind, probe, Reverse(heard))) = HostsOf(found)
  <2> HIDE DEF probe, heard, found
  <2> QED
    BY <1>2, <1>3, <1>6, OrderIsNoMatter
<1> QED
  BY <1>4, <1>5, <1>6

\* Whichever probe ends first and whenever it began to listen, of a search that none of
\* the probes ends by raising: a passive check counts each frame once for what it is,
\* heaviest first and nothing twice, and says there is none of what it has not counted;
\* a list of devices has the address of every one that answered or of one that seems the
\* same, where of Zebra printers of one model that say no host name one is enough
\* (zebra_discovery.py:129); the answers of a gateway to one port that say its MAC
\* address make one entry with every field that one of them fills, its firmware answer,
\* without that address, another (ewon.py:133); and answers that agree name the same devices in another order
\* (passive_check.py:117-229, cameras.py:188-218, nas.py:401-438, printers.py:36-48,
\* ewon.py:137-160, 269-296).
THEOREM FindingsHold == JobsSpec => []FindingsAreTrue
<1>1. JobsInit => JobsInv
  BY JobsStart
<1>2. JobsInv /\ [JobsNext]_jobVars => JobsInv'
  BY JobsKeepInv
<1>3. JobsInv => FindingsAreTrue
  BY CheckTells, DevicesTell DEF FindingsAreTrue
<1> QED
  BY <1>1, <1>2, <1>3, PTL DEF JobsSpec

===============================================================================
