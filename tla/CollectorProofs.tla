---------------------------- MODULE CollectorProofs ----------------------------
(* Whatever lldpctl answers, however many MNDP replies are heard and in whatever  *)
(* order: the neighbor lacks nothing that one of them knows, and the device that  *)
(* is taken for the one on the cable is the same.  What the collectors compute is *)
(* a recursion over a sequence; what holds of it is shown for every prefix.       *)
EXTENDS CollectorCases, FiniteSetTheorems, WellFoundedInduction, TLAPS

-------------------------------------------------------------------------------
(* Numbers, and recursion over them.                                            *)

\* A set of numbers that is not empty has a least one.
LEMMA LeastNumber ==
    ASSUME NEW T \in SUBSET Nat, T # {}
    PROVE  \E n \in T : \A m \in T : n <= m
<1> DEFINE less == OpToRel(<, Nat)
<1>1. \A m, n \in Nat : m < n => <<m, n>> \in less
  BY DEF OpToRel
<1>2. IsWellFoundedOn(less, Nat)
  BY NatLessThanWellFounded
<1> HIDE DEF less
<1>3. PICK n \in T : \A m \in T : ~(<<m, n>> \in less)
  BY <1>2, WFMin
<1>4. ASSUME NEW m \in T PROVE n <= m
  <2>1. n \in Nat /\ m \in Nat
    OBVIOUS
  <2>2. ~(m < n)
    BY <1>1, <1>3, <2>1, Zenon
  <2> QED
    BY <2>1, <2>2
<1> QED
  BY <1>4

LEMMA MinIsLeast ==
    ASSUME NEW T \in SUBSET Nat, T # {}
    PROVE  Min(T) \in T /\ \A m \in T : Min(T) <= m
BY LeastNumber DEF Min

\* What holds of 0, and of each number up to n if of the one before, holds of all.
LEMMA Induct ==
    ASSUME NEW n \in Nat, NEW T, 0 \in T, \A i \in 1..n : i - 1 \in T => i \in T
    PROVE  \A i \in 0..n : i \in T
<1> SUFFICES ASSUME NEW j \in 0..n, j \notin T PROVE FALSE
  OBVIOUS
<1> DEFINE out == {i \in 0..n : i \notin T}
<1>1. out \in SUBSET Nat /\ out # {}
  OBVIOUS
<1>2. PICK i \in out : \A m \in out : i <= m
  BY <1>1, LeastNumber
<1>3. i # 0 /\ i \in 1..n
  BY <1>2
<1>4. i - 1 \in 0..n /\ ~(i <= i - 1)
  BY <1>3
<1>5. i - 1 \in T
  BY <1>2, <1>4
<1> QED
  BY <1>2, <1>3, <1>5

\* n steps from base within a set, each one a function of its own.
Runs(n, D, base, step) ==
    {f \in [0..n -> D] : f[0] = base /\ \A i \in 1..n : f[i] = step[i][f[i - 1]]}

LEMMA Recursion ==
    ASSUME NEW n \in Nat, NEW D, NEW base \in D, NEW step \in [1..n -> [D -> D]]
    PROVE  Runs(n, D, base, step) # {}
<1> DEFINE Reaches(k, f) == f[0] = base /\ \A i \in 1..k : f[i] = step[i][f[i - 1]]
           T == {k \in 0..n : \E f \in [0..k -> D] : Reaches(k, f)}
<1>1. 0 \in T
  <2>1. [i \in 0..0 |-> base] \in [0..0 -> D] /\ Reaches(0, [i \in 0..0 |-> base])
    OBVIOUS
  <2> HIDE DEF Reaches
  <2> QED
    BY <2>1
<1>2. ASSUME NEW k \in 1..n, k - 1 \in T PROVE k \in T
  <2>1. PICK f \in [0..k - 1 -> D] : Reaches(k - 1, f)
    BY <1>2
  <2> DEFINE g == [i \in 0..k |-> IF i = k THEN step[k][f[k - 1]] ELSE f[i]]
  <2>2. g \in [0..k -> D]
    <3>1. f[k - 1] \in D /\ step[k] \in [D -> D]
      OBVIOUS
    <3>2. step[k][f[k - 1]] \in D
      BY <3>1
    <3>3. ASSUME NEW i \in 0..k, i # k PROVE f[i] \in D
      BY <3>3
    <3> QED
      BY <3>2, <3>3
  <2>3. g[0] = base
    BY <2>1
  <2>4. ASSUME NEW i \in 1..k PROVE g[i] = step[i][g[i - 1]]
    <3>1. CASE i = k
      BY <3>1
    <3>2. CASE i # k
      <4>1. i \in 1..k - 1 /\ i - 1 \in 0..k /\ i - 1 # k
        BY <3>2
      <4>2. g[i] = f[i] /\ g[i - 1] = f[i - 1]
        BY <3>2, <4>1
      <4> QED
        BY <2>1, <4>1, <4>2
    <3> QED
      BY <3>1, <3>2
  <2>5. Reaches(k, g)
    BY <2>3, <2>4
  <2> HIDE DEF g, Reaches
  <2> QED
    BY <2>2, <2>5
<1>3. \A k \in 0..n : k \in T
  <2> HIDE DEF T
  <2> QED
    BY <1>1, <1>2, Induct
<1>4. n \in T
  BY <1>3
<1>5. PICK f \in [0..n -> D] : Reaches(n, f)
  <2> HIDE DEF Reaches
  <2> QED
    BY <1>4
<1> QED
  BY <1>5 DEF Runs

-------------------------------------------------------------------------------
(* The devices heard.                                                           *)

DevicesOf(p) == {ParsePayload(p[i]) : i \in DOMAIN p}

LEMMA HeardIsSequence ==
    ASSUME NEW D, NEW ds \in Seq(D), NEW payload, ParsePayload(payload) \in D
    PROVE  Heard(ds, payload) \in Seq(D)
<1> DEFINE d == ParsePayload(payload)
           same == {i \in DOMAIN ds : Key(ds[i]) = Key(d)}
<1>1. same # {} => Min(same) \in DOMAIN ds
  <2>1. same \in SUBSET Nat
    OBVIOUS
  <2> QED
    BY <2>1, MinIsLeast
<1>2. Append(ds, d) \in Seq(D)
  OBVIOUS
<1>3. ASSUME NEW m \in DOMAIN ds PROVE [ds EXCEPT ![m] = d] \in Seq(D)
  OBVIOUS
<1>4. CASE same = {}
  BY <1>2, <1>4 DEF Heard
<1>5. CASE same # {}
  BY <1>1, <1>3, <1>5 DEF Heard
<1> QED
  BY <1>4, <1>5

\* What Discover computes, one reply after the other.
LEMMA DiscoverSteps ==
    ASSUME NEW R, NEW p \in Seq(R)
    PROVE  \E f \in [0..Len(p) -> Seq(DevicesOf(p))] :
               /\ f[0] = <<>>
               /\ \A i \in 1..Len(p) : f[i] = Heard(f[i - 1], p[i])
               /\ Discover(p) = f[Len(p)]
<1> DEFINE n == Len(p)
           D == Seq(DevicesOf(p))
           step == [i \in 1..n |-> [ds \in D |-> Heard(ds, p[i])]]
           Steps(f) == f = [i \in 0..n |-> IF i = 0 THEN <<>> ELSE Heard(f[i - 1], p[i])]
<1>1. n \in Nat /\ <<>> \in D
  OBVIOUS
<1>2. step \in [1..n -> [D -> D]]
  <2>1. ASSUME NEW i \in 1..n, NEW ds \in D PROVE Heard(ds, p[i]) \in D
    <3>1. ParsePayload(p[i]) \in DevicesOf(p)
      BY DEF DevicesOf
    <3> QED
      BY <3>1, HeardIsSequence
  <2> HIDE DEF D
  <2> QED
    BY <2>1
<1>3. PICK f \in Runs(n, D, <<>>, step) : TRUE
  <2> HIDE DEF D, n, step
  <2> QED
    BY <1>1, <1>2, Recursion
<1> HIDE DEF n
<1>4. /\ f \in [0..n -> D] /\ f[0] = <<>>
      /\ \A i \in 1..n : f[i] = Heard(f[i - 1], p[i])
  <2> HIDE DEF D
  <2>1. f \in [0..n -> D] /\ f[0] = <<>>
    BY <1>1, <1>3 DEF Runs
  <2>2. ASSUME NEW i \in 1..n PROVE f[i] = Heard(f[i - 1], p[i])
    <3>1. f[i] = step[i][f[i - 1]] /\ f[i - 1] \in D
      <4> HIDE DEF step
      <4> QED
        BY <1>1, <1>3 DEF Runs
    <3> QED
      BY <3>1
  <2> QED
    BY <2>1, <2>2
<1>5. Steps(f)
  <2> HIDE DEF D
  <2>1. \A i \in 0..n : f[i] = IF i = 0 THEN <<>> ELSE Heard(f[i - 1], p[i])
    BY <1>4
  <2> QED
    BY <1>1, <1>4, <2>1
<1> DEFINE g == CHOOSE h : Steps(h)
<1>6. Steps(g)
  BY <1>5
<1>7. Discover(p) = g[n]
  BY DEF Discover, n
<1>8. g \in [0..n -> D] /\ g[0] = <<>> /\ \A i \in 1..n : g[i] = Heard(g[i - 1], p[i])
  <2>1. \A i \in 0..n : g[i] = IF i = 0 THEN <<>> ELSE Heard(g[i - 1], p[i])
    BY <1>6, Zenon
  <2>2. DOMAIN g = 0..n /\ g = [i \in 0..n |-> g[i]]
    BY <1>6
  <2>3. g[0] = <<>> /\ \A i \in 1..n : g[i] = Heard(g[i - 1], p[i])
    <3> HIDE DEF g
    <3> QED
      BY <1>1, <2>1
  <2> DEFINE T == {i \in 0..n : g[i] = f[i]}
  <2>4. 0 \in T
    <3> HIDE DEF g
    <3> QED
      BY <1>1, <1>4, <2>3
  <2>5. ASSUME NEW i \in 1..n, i - 1 \in T PROVE i \in T
    <3> HIDE DEF g
    <3> QED
      BY <1>4, <2>3, <2>5
  <2>6. \A i \in 0..n : i \in T
    <3> HIDE DEF T, n
    <3> QED
      BY <1>1, <2>4, <2>5, Induct
  <2> HIDE DEF g, D
  <2>7. \A i \in 0..n : g[i] \in D
    BY <1>4, <2>6
  <2> QED
    BY <2>2, <2>3, <2>7
<1> HIDE DEF g
<1> QED
  BY <1>7, <1>8 DEF n

LEMMA DiscoverIsSequence ==
    ASSUME NEW R, NEW p \in Seq(R) PROVE Discover(p) \in Seq(DevicesOf(p))
<1>1. PICK f \in [0..Len(p) -> Seq(DevicesOf(p))] : Discover(p) = f[Len(p)]
  BY DiscoverSteps
<1>2. Len(p) \in 0..Len(p)
  OBVIOUS
<1> QED
  BY <1>1, <1>2

\* The devices of ds are those of the first k replies, each of them once.
OneOfEach(ds, p, k) ==
    /\ \A i \in DOMAIN ds : IsDevice(ds[i]) /\ \E j \in 1..k : ds[i] = ParsePayload(p[j])
    /\ \A j \in 1..k : IsDevice(ParsePayload(p[j])) =>
           \E i \in DOMAIN ds : ds[i] = ParsePayload(p[j])
    /\ \A i, j \in DOMAIN ds : Key(ds[i]) = Key(ds[j]) => i = j

LEMMA HeardOneMore ==
    ASSUME NEW R, SaySame(R), NEW p \in Seq(R), NEW k \in 1..Len(p), NEW D, NEW ds \in Seq(D),
           OneOfEach(ds, p, k - 1)
    PROVE  OneOfEach(Heard(ds, p[k]), p, k)
<1> DEFINE d == ParsePayload(p[k])
           same == {i \in DOMAIN ds : Key(ds[i]) = Key(d)}
<1>1. \A j \in 1..k : j \in 1..k - 1 \/ j = k
  OBVIOUS
<1>2. 1..k - 1 \subseteq 1..k /\ k \in 1..k /\ 1..k \subseteq DOMAIN p
  OBVIOUS
<1>3. CASE ~IsDevice(d)
  <2>1. Heard(ds, p[k]) = ds
    BY <1>3 DEF Heard
  <2> QED
    BY <1>1, <1>2, <1>3, <2>1 DEF OneOfEach
<1>4. CASE IsDevice(d) /\ same = {}
  <2> DEFINE es == Append(ds, d)
  <2>1. Heard(ds, p[k]) = es
    BY <1>4 DEF Heard
  <2>2. /\ DOMAIN es = DOMAIN ds \cup {Len(ds) + 1} /\ Len(ds) + 1 \notin DOMAIN ds
        /\ es[Len(ds) + 1] = d /\ \A i \in DOMAIN ds : es[i] = ds[i]
    OBVIOUS
  <2> HIDE DEF es
  <2>3. \A i \in DOMAIN es : IsDevice(es[i]) /\ \E j \in 1..k : es[i] = ParsePayload(p[j])
    BY <1>2, <1>4, <2>2 DEF OneOfEach
  <2>4. \A j \in 1..k : IsDevice(ParsePayload(p[j])) =>
            \E i \in DOMAIN es : es[i] = ParsePayload(p[j])
    BY <1>1, <2>2 DEF OneOfEach
  <2>5. \A i, j \in DOMAIN es : Key(es[i]) = Key(es[j]) => i = j
    BY <1>4, <2>2 DEF OneOfEach
  <2> QED
    BY <2>1, <2>3, <2>4, <2>5 DEF OneOfEach
<1>5. CASE IsDevice(d) /\ same # {}
  <2>1. Min(same) \in same
    <3>1. same \in SUBSET Nat
      OBVIOUS
    <3> QED
      BY <1>5, <3>1, MinIsLeast
  <2>2. ds[Min(same)] = d
    <3>1. PICK j \in 1..k - 1 : ds[Min(same)] = ParsePayload(p[j])
      BY <2>1 DEF OneOfEach
    <3>2. Key(d) = Key(ParsePayload(p[j])) /\ p[j] \in R /\ p[k] \in R
      BY <1>2, <2>1, <3>1
    <3> QED
      BY <1>5, <3>1, <3>2 DEF SaySame
  <2>3. [ds EXCEPT ![Min(same)] = d] = ds
    BY <2>2
  <2>4. Heard(ds, p[k]) = ds
    BY <1>5, <2>3 DEF Heard
  <2> QED
    BY <1>1, <1>2, <2>1, <2>2, <2>4 DEF OneOfEach
<1> QED
  BY <1>3, <1>4, <1>5

LEMMA DiscoverOneOfEach ==
    ASSUME NEW R, SaySame(R), NEW p \in Seq(R)
    PROVE  /\ Discover(p) \in Seq(DevicesOf(p))
           /\ OneOfEach(Discover(p), p, Len(p))
<1>1. PICK f \in [0..Len(p) -> Seq(DevicesOf(p))] :
          /\ f[0] = <<>>
          /\ \A i \in 1..Len(p) : f[i] = Heard(f[i - 1], p[i])
          /\ Discover(p) = f[Len(p)]
  BY DiscoverSteps
<1> DEFINE T == {i \in 0..Len(p) : OneOfEach(f[i], p, i)}
<1>2. 0 \in T
  BY <1>1 DEF OneOfEach
<1>3. ASSUME NEW i \in 1..Len(p), i - 1 \in T PROVE i \in T
  <2>1. f[i - 1] \in Seq(DevicesOf(p)) /\ OneOfEach(f[i - 1], p, i - 1)
    BY <1>3
  <2>2. OneOfEach(Heard(f[i - 1], p[i]), p, i)
    BY <2>1, HeardOneMore
  <2> QED
    BY <1>1, <2>2
<1>4. \A i \in 0..Len(p) : i \in T
  <2>1. Len(p) \in Nat
    OBVIOUS
  <2> HIDE DEF T
  <2> QED
    BY <1>2, <1>3, <2>1, Induct
<1> QED
  BY <1>1, <1>4

\* Two lists of the same devices, each of them once in either.
SameDevices(ds, es) ==
    /\ \A i \in DOMAIN ds : \E j \in DOMAIN es : ds[i] = es[j]
    /\ \A j \in DOMAIN es : \E i \in DOMAIN ds : ds[i] = es[j]
    /\ \A i, j \in DOMAIN ds : Key(ds[i]) = Key(ds[j]) => i = j
    /\ \A i, j \in DOMAIN es : Key(es[i]) = Key(es[j]) => i = j

\* The only element of a set of positions.
LEMMA OnlyOne ==
    ASSUME NEW D, NEW ds \in Seq(D), NEW A \in SUBSET DOMAIN ds
    PROVE  Cardinality(A) = 1 <=> \E i \in A : A = {i}
<1>1. IsFiniteSet(A)
  <2>1. Len(ds) \in Nat /\ DOMAIN ds = 1..Len(ds)
    OBVIOUS
  <2>2. IsFiniteSet(1..Len(ds))
    BY <2>1, FS_Interval
  <2> QED
    BY <2>1, <2>2, FS_Subset
<1> QED
  BY <1>1, FS_Singleton

\* Two positions that say the same: that there is none, or where one device is.
SameAt(ds, i, es, j) ==
    \/ i = 0 /\ j = 0
    \/ /\ i # 0 /\ i \in DOMAIN ds
       /\ j # 0 /\ j \in DOMAIN es
       /\ ds[i] = es[j]

\* At most one of the devices has an address.
OneHas(ds, ip) ==
    ip # "" => \A i, j \in DOMAIN ds : ds[i].ipv4 = ip /\ ds[j].ipv4 = ip => ds[i] = ds[j]

\* The device picked does not depend on the order of the list.
LEMMA SamePick ==
    ASSUME NEW D, NEW ds \in Seq(D), NEW es \in Seq(D), SameDevices(ds, es),
           NEW chassis, NEW gwMac, NEW gwIp, OneHas(ds, gwIp)
    PROVE  SameAt(ds, Pick(ds, chassis, gwMac, gwIp), es, Pick(es, chassis, gwMac, gwIp))
<1> DEFINE By(s, text, f) == {i \in DOMAIN s : text # "" /\ s[i][f] = text}
           Switches(s) == {i \in DOMAIN s : SwitchLike(s[i])}
           Named(s) ==
               IF By(s, chassis, "mac") # {} THEN By(s, chassis, "mac")
               ELSE IF By(s, gwMac, "mac") # {} THEN By(s, gwMac, "mac")
               ELSE IF By(s, gwIp, "ipv4") # {} THEN By(s, gwIp, "ipv4")
               ELSE IF OnlySwitch(Switches(s)) THEN Switches(s)
               ELSE {}
           Alike(A, B) == /\ A = {} <=> B = {}
                          /\ \A i \in A, j \in B : ds[i] = es[j]
<1>1. ASSUME NEW i \in DOMAIN ds, NEW j \in DOMAIN es, Key(ds[i]) = Key(es[j])
      PROVE  ds[i] = es[j]
  BY <1>1 DEF SameDevices
<1>12. ASSUME NEW text, NEW f PROVE By(ds, text, f) = {} <=> By(es, text, f) = {}
  <2>1. ASSUME NEW i \in By(ds, text, f) PROVE By(es, text, f) # {}
    <3>1. PICK j \in DOMAIN es : ds[i] = es[j]
      BY DEF SameDevices
    <3>2. j \in By(es, text, f)
      BY <3>1
    <3> QED
      BY <3>2
  <2>2. ASSUME NEW j \in By(es, text, f) PROVE By(ds, text, f) # {}
    <3>1. PICK i \in DOMAIN ds : ds[i] = es[j]
      BY DEF SameDevices
    <3>2. i \in By(ds, text, f)
      BY <3>1
    <3> QED
      BY <3>2
  <2> HIDE DEF By
  <2> QED
    BY <2>1, <2>2
<1>2. ASSUME NEW text PROVE Alike(By(ds, text, "mac"), By(es, text, "mac"))
  <2>1. By(ds, text, "mac") = {} <=> By(es, text, "mac") = {}
    BY <1>12
  <2>2. ASSUME NEW i \in By(ds, text, "mac"), NEW j \in By(es, text, "mac")
        PROVE  ds[i] = es[j]
    <3>1. Key(ds[i]) = Key(es[j])
      BY DEF Key
    <3> QED
      BY <1>1, <3>1
  <2> QED
    BY <2>1, <2>2
<1>3. Alike(By(ds, gwIp, "ipv4"), By(es, gwIp, "ipv4"))
  <2>1. By(ds, gwIp, "ipv4") = {} <=> By(es, gwIp, "ipv4") = {}
    BY <1>12
  <2>2. ASSUME NEW i \in By(ds, gwIp, "ipv4"), NEW j \in By(es, gwIp, "ipv4")
        PROVE  ds[i] = es[j]
    <3>1. PICK k \in DOMAIN ds : ds[k] = es[j]
      BY DEF SameDevices
    <3> QED
      BY <3>1 DEF OneHas
  <2> QED
    BY <2>1, <2>2
<1>4. Switches(ds) = {} <=> Switches(es) = {}
  BY DEF SameDevices
<1>5. /\ OnlySwitch(Switches(ds)) <=> OnlySwitch(Switches(es))
      /\ OnlySwitch(Switches(ds)) => Alike(Switches(ds), Switches(es))
  <2>1. OnlySwitch(Switches(ds)) <=> \E i \in Switches(ds) : Switches(ds) = {i}
    BY OnlyOne DEF OnlySwitch
  <2>2. OnlySwitch(Switches(es)) <=> \E i \in Switches(es) : Switches(es) = {i}
    BY OnlyOne DEF OnlySwitch
  <2>3. ASSUME NEW i \in Switches(ds), Switches(ds) = {i}
        PROVE  \E j \in Switches(es) : Switches(es) = {j} /\ ds[i] = es[j]
    <3>1. PICK j \in DOMAIN es : ds[i] = es[j]
      BY DEF SameDevices
    <3>2. ASSUME NEW k \in Switches(es) PROVE k = j
      <4>1. PICK m \in DOMAIN ds : ds[m] = es[k]
        BY DEF SameDevices
      <4>2. m = i
        BY <2>3, <4>1
      <4> QED
        BY <3>1, <4>1, <4>2 DEF SameDevices
    <3> QED
      BY <3>1, <3>2
  <2>4. ASSUME NEW j \in Switches(es), Switches(es) = {j}
        PROVE  \E i \in Switches(ds) : Switches(ds) = {i}
    <3>1. PICK i \in DOMAIN ds : ds[i] = es[j]
      BY DEF SameDevices
    <3>2. ASSUME NEW k \in Switches(ds) PROVE k = i
      <4>1. PICK m \in DOMAIN es : ds[k] = es[m]
        BY DEF SameDevices
      <4>2. m = j
        BY <2>4, <4>1
      <4> QED
        BY <3>1, <4>1, <4>2 DEF SameDevices
    <3> QED
      BY <3>1, <3>2
  <2> HIDE DEF Switches
  <2> QED
    BY <2>1, <2>2, <2>3, <2>4
<1>6. /\ Pick(ds, chassis, gwMac, gwIp) = IF Named(ds) = {} THEN 0 ELSE Min(Named(ds))
      /\ Pick(es, chassis, gwMac, gwIp) = IF Named(es) = {} THEN 0 ELSE Min(Named(es))
  BY DEF Pick
<1>7. Alike(Named(ds), Named(es))
  <2> HIDE DEF By, Switches
  <2> QED
    BY <1>2, <1>3, <1>5
<1>8. /\ Named(ds) \in SUBSET DOMAIN ds /\ Named(es) \in SUBSET DOMAIN es
      /\ DOMAIN ds \in SUBSET (Nat \ {0}) /\ DOMAIN es \in SUBSET (Nat \ {0})
  <2>1. ASSUME NEW s \in {ds, es} PROVE Named(s) \in SUBSET DOMAIN s
    <3>1. ASSUME NEW text, NEW f PROVE By(s, text, f) \in SUBSET DOMAIN s
      OBVIOUS
    <3>2. Switches(s) \in SUBSET DOMAIN s
      OBVIOUS
    <3> HIDE DEF By, Switches
    <3> QED
      BY <3>1, <3>2
  <2>2. \A i \in DOMAIN ds \cup DOMAIN es : i \in Nat /\ i # 0
    OBVIOUS
  <2> HIDE DEF Named
  <2> QED
    BY <2>1, <2>2
<1> HIDE DEF Named
<1>9. /\ Named(ds) # {} => Min(Named(ds)) \in Named(ds)
      /\ Named(es) # {} => Min(Named(es)) \in Named(es)
  BY <1>8, MinIsLeast
<1>10. CASE Named(ds) = {}
  BY <1>6, <1>7, <1>10 DEF SameAt
<1>11. CASE Named(ds) # {}
  <2>1. Named(es) # {}
    BY <1>7, <1>11
  <2>2. /\ Min(Named(ds)) \in DOMAIN ds /\ Min(Named(ds)) # 0
        /\ Min(Named(es)) \in DOMAIN es /\ Min(Named(es)) # 0
    BY <1>8, <1>9, <1>11, <2>1
  <2>3. ds[Min(Named(ds))] = es[Min(Named(es))]
    BY <1>7, <1>9, <1>11, <2>1
  <2> QED
    BY <1>6, <1>11, <2>1, <2>2, <2>3 DEF SameAt
<1> QED
  BY <1>10, <1>11

\* Replies that are the same, in whatever order and however often, give one neighbor.
LEMMA SameNeighbor ==
    ASSUME NEW R, SaySame(R), NEW p \in Seq(R), NEW q \in Seq(R),
           Range(p) = Range(q), NEW chassis, NEW gwMac,
           NEW gwIp, OneHas(Discover(p), gwIp)
    PROVE  CollectMndp(p, chassis, gwMac, gwIp) = CollectMndp(q, chassis, gwMac, gwIp)
<1> DEFINE ds == Discover(p)
           es == Discover(q)
           S == DevicesOf(p) \cup DevicesOf(q)
           i == Pick(ds, chassis, gwMac, gwIp)
           j == Pick(es, chassis, gwMac, gwIp)
<1>1. /\ \A m \in 1..Len(p) : \E n \in 1..Len(q) : p[m] = q[n]
      /\ \A n \in 1..Len(q) : \E m \in 1..Len(p) : p[m] = q[n]
  <2>1. ASSUME NEW m \in 1..Len(p) PROVE p[m] \in {q[k] : k \in DOMAIN q}
    BY p[m] \in {p[k] : k \in DOMAIN p} DEF Range
  <2>2. ASSUME NEW m \in 1..Len(q) PROVE q[m] \in {p[k] : k \in DOMAIN p}
    BY q[m] \in {q[k] : k \in DOMAIN q} DEF Range
  <2>3. DOMAIN p = 1..Len(p) /\ DOMAIN q = 1..Len(q)
    OBVIOUS
  <2> QED
    BY <2>1, <2>2, <2>3
<1>2. OneOfEach(ds, p, Len(p)) /\ OneOfEach(es, q, Len(q))
  BY DiscoverOneOfEach
<1>3. ds \in Seq(S) /\ es \in Seq(S)
  <2>1. ds \in Seq(DevicesOf(p)) /\ es \in Seq(DevicesOf(q))
    BY DiscoverOneOfEach
  <2> HIDE DEF ds, es
  <2> QED
    BY <2>1
<1>8. OneHas(ds, gwIp)
  OBVIOUS
<1> HIDE DEF ds, es, S
<1>4. SameDevices(ds, es)
  BY <1>1, <1>2 DEF SameDevices, OneOfEach
<1>5. SameAt(ds, i, es, j)
  BY <1>3, <1>4, <1>8, SamePick
<1> HIDE DEF i, j
<1>6. Len(ds) = 1 <=> Len(es) = 1
  BY <1>3, <1>4 DEF SameDevices
<1>7. Len(ds) = 1 => ds[1] = es[1]
  BY <1>3, <1>4, <1>6 DEF SameDevices
<1> QED
  BY <1>5, <1>6, <1>7 DEF CollectMndp, SameAt, i, j, ds, es

LEMMA CasesAreHeard ==
    ASSUME CasesInit
    PROVE  /\ collected.answer \in Answers
           /\ collected.replies \in Seq(Replies)
<1>1. PICK answer \in Answers, replies \in Heards, gateway \in Gateways :
          collected = [answer |-> answer, replies |-> replies, gateway |-> gateway]
  BY DEF CasesInit
<1>2. PICK n \in 0..MaxHeard : replies \in [1..n -> Replies]
  BY DEF Heards
<1>3. n \in Nat
  <2>1. MaxHeard \in Nat
    BY Zenon, CasesAssumption
  <2> QED
    BY <2>1
<1> QED
  BY <1>1, <1>2, <1>3

LEMMA InAnyOrder == CasesInit => RepliesInAnyOrder
<1> DEFINE p == collected.replies
<1> SUFFICES ASSUME CasesInit, ~Contended(p)
             PROVE  /\ MndpOfReplies(Reverse(p)) = MndpOfReplies(p)
                    /\ MndpOfReplies(p \o p) = MndpOfReplies(p)
  BY DEF RepliesInAnyOrder
<1>1. p \in Seq(Replies)
  BY CasesAreHeard
<1>2. SaySame(Replies)
  BY CasesAssumption
<1> HIDE DEF p
<1>6. OneHas(Discover(p), collected.gateway.ip)
  <2> DEFINE ds == Discover(p)
  <2>1. OneOfEach(ds, p, Len(p)) /\ DOMAIN p = 1..Len(p)
    BY <1>1, <1>2, DiscoverOneOfEach
  <2> HIDE DEF ds
  <2>2. ASSUME NEW i \in DOMAIN ds, collected.gateway.ip # "",
               ds[i].ipv4 = collected.gateway.ip
        PROVE  \E j \in DOMAIN p : Claims(p[j]) /\ ds[i] = ParsePayload(p[j])
    <3>1. PICK j \in 1..Len(p) : ds[i] = ParsePayload(p[j])
      BY <2>1 DEF OneOfEach
    <3>2. Claims(p[j])
      BY <2>1, <2>2, <3>1 DEF OneOfEach, Claims
    <3> QED
      BY <2>1, <3>1, <3>2
  <2>3. OneHas(ds, collected.gateway.ip)
    BY <2>2 DEF OneHas, Contended
  <2> QED
    BY <2>3 DEF ds
<1>3. /\ Reverse(p) \in Seq(Replies)
      /\ Range(Reverse(p)) = Range(p)
  <2>1. /\ Reverse(p) \in Seq(Replies) /\ DOMAIN Reverse(p) = 1..Len(p)
        /\ \A i \in 1..Len(p) : Reverse(p)[i] = p[Len(p) - i + 1]
    BY <1>1 DEF Reverse
  <2>2. \A i \in 1..Len(p) : Len(p) - i + 1 \in 1..Len(p)
                             /\ p[i] = Reverse(p)[Len(p) - i + 1]
    BY <1>1, <2>1
  <2>3. ASSUME NEW i \in 1..Len(p)
        PROVE  /\ Reverse(p)[i] \in {p[k] : k \in 1..Len(p)}
               /\ p[i] \in {Reverse(p)[k] : k \in 1..Len(p)}
    BY <2>1, <2>2
  <2>4. DOMAIN p = 1..Len(p)
    BY <1>1
  <2> QED
    BY <2>1, <2>3, <2>4 DEF Range
<1>4. /\ p \o p \in Seq(Replies)
      /\ Range(p \o p) = Range(p)
  <2> DEFINE pp == p \o p
  <2>1. /\ pp \in Seq(Replies) /\ DOMAIN pp = 1..Len(p) + Len(p)
        /\ \A i \in 1..Len(p) : pp[i] = p[i]
        /\ \A i \in Len(p) + 1..Len(p) + Len(p) : pp[i] = p[i - Len(p)]
    BY <1>1
  <2> HIDE DEF pp
  <2>2. \A i \in DOMAIN pp : i \in 1..Len(p) \/ i - Len(p) \in 1..Len(p)
    BY <1>1, <2>1
  <2>3. Range(pp) = Range(p)
    <3>1. \A i \in DOMAIN pp : pp[i] \in {p[k] : k \in 1..Len(p)}
      BY <1>1, <2>1, <2>2
    <3>2. ASSUME NEW i \in 1..Len(p) PROVE i \in DOMAIN pp /\ p[i] = pp[i]
      BY <1>1, <2>1
    <3>3. DOMAIN p = 1..Len(p)
      BY <1>1
    <3> QED
      BY <3>1, <3>2, <3>3 DEF Range
  <2> QED
    BY <2>1, <2>3 DEF pp
<1>5. ASSUME NEW q \in Seq(Replies),
             Range(p) = Range(q)
      PROVE  MndpOfReplies(q) = MndpOfReplies(p)
  <2> DEFINE mac == collected.gateway.mac
             ip == collected.gateway.ip
             chassis == Lldp1.chassis
  <2>1. OneHas(Discover(p), ip)
    BY <1>6
  <2> HIDE DEF mac, ip, chassis
  <2>2. CollectMndp(p, chassis, mac, ip) = CollectMndp(q, chassis, mac, ip)
    BY <1>1, <1>2, <1>5, <2>1, SameNeighbor
  <2> QED
    BY <2>2 DEF MndpOfReplies, mac, ip, chassis
<1>7. /\ MndpOfReplies(Reverse(p)) = MndpOfReplies(p)
      /\ MndpOfReplies(p \o p) = MndpOfReplies(p)
  <2> HIDE DEF MndpOfReplies
  <2> QED
    BY <1>3, <1>4, <1>5
<1> QED
  BY <1>7 DEF p

\* The neighbor MNDP gives does not depend on the order in which the replies come,
\* nor on how often each does, for any devices and gateway, as long as one says the same
\* each time and no two claim the gateway's address (mndp.py:136-171, 230-261).
THEOREM OrderDoesNotMatter == CasesSpec => []RepliesInAnyOrder
<1>1. RepliesInAnyOrder /\ [FALSE]_collected => RepliesInAnyOrder'
  BY DEF RepliesInAnyOrder, MndpOfReplies, Lldp1, Contended, Claims
<1> QED
  BY InAnyOrder, <1>1, PTL DEF CasesSpec

-------------------------------------------------------------------------------
(* LLDP.                                                                        *)

Fields == Texts \cup {"age", "available", "message"}

\* A neighbor record with its age, and one that does not come from MNDP.
IsNeighbor(n) == n = [f \in Fields |-> n[f]] /\ n.age \in Nat
IsLldp(n) == IsNeighbor(n) /\ n.protocol # "MNDP"

LEMMA NoNeighborIsLldp == ASSUME NEW message PROVE IsLldp(NoNeighbor(message))
<1>1. NoAge \in Nat
  BY SMT DEF NoAge
<1> QED
  BY <1>1 DEF NoNeighbor, IsLldp, IsNeighbor, Fields, Texts

LEMMA EntryIsLldp == ASSUME NEW e, IsEntry(e) PROVE IsLldp(ParseEntry(e))
<1> DEFINE n == [NoNeighbor("neighbor present but no usable TLV fields") EXCEPT
                    !.protocol = e.via,
                    !.name = SwitchName(e.chassis),
                    !.port = PortId(e.port),
                    !.vlan = VlanId(e),
                    !.chassis = e.chassis.id,
                    !.descr = e.chassis.descr,
                    !.age = e.age]
<1>1. IsLldp(n)
  BY NoNeighborIsLldp DEF IsLldp, IsNeighbor, IsEntry, Fields, Texts
<1>2. ParseEntry(e) = n \/ ParseEntry(e) = [n EXCEPT !.available = TRUE, !.message = "ok"]
  BY DEF ParseEntry
<1> HIDE DEF n
<1> QED
  BY <1>1, <1>2 DEF IsLldp, IsNeighbor, Fields, Texts

\* Records with their values in a set.
Records(V) == {n \in [Fields -> V] : IsLldp(n)}

\* What no collector may lose.
Known == {"name", "port", "vlan", "chassis", "descr"}

LEMMA LeastAge == ASSUME NEW a \in Nat, NEW b \in Nat PROVE Min({a, b}) \in Nat
BY MinIsLeast, {a, b} \in SUBSET Nat

LEMMA FilledIsRecord ==
    ASSUME NEW V, Nat \subseteq V, NEW a \in Records(V), NEW b \in Records(V)
    PROVE  FilledFrom(a, b) \in Records(V)
<1>1. a \in [Fields -> V] /\ b \in [Fields -> V] /\ IsLldp(a) /\ IsLldp(b)
  BY DEF Records
<1> DEFINE n == FilledFrom(a, b)
<1>2. DOMAIN n = Fields /\ n = [f \in Fields |-> n[f]]
  BY <1>1 DEF FilledFrom
<1>3. \A f \in Fields \ {"age"} : n[f] \in {a[f], b[f]}
  BY <1>1 DEF FilledFrom, Or, Fields, Texts
<1>4. n.age \in Nat
  <2>1. a.age \in Nat /\ b.age \in Nat /\ n.age = Min({a.age, b.age})
    BY <1>1 DEF FilledFrom, IsLldp, IsNeighbor, Fields
  <2> QED
    BY <2>1, LeastAge
<1>5. "protocol" \in Fields \ {"age"} /\ a.protocol # "MNDP" /\ b.protocol # "MNDP"
  BY <1>1 DEF Fields, Texts, IsLldp
<1> HIDE DEF n
<1>6. n.protocol # "MNDP"
  BY <1>3, <1>5
<1>7. \A f \in Fields : n[f] \in V
  BY <1>1, <1>3, <1>4
<1> QED
  BY <1>2, <1>4, <1>6, <1>7 DEF n, Records, IsLldp, IsNeighbor

LEMMA FilledKeeps ==
    ASSUME NEW a, NEW b, IsLldp(a), NEW f \in Known
    PROVE  FilledFrom(a, b)[f] = Or(a[f], b[f])
BY DEF FilledFrom, IsLldp, IsNeighbor, Fields, Texts, Known

LEMMA PointsInRange == ASSUME NEW n PROVE Points(n) \in Int /\ 30 - Points(n) \in Nat
<1> DEFINE port == IF n.port # "" THEN 10 ELSE 0
           name == IF n.name # "" THEN 8 ELSE 0
           vlan == IF n.vlan # "" THEN 4 ELSE 0
           chassis == IF n.chassis # "" THEN 2 ELSE 0
           descr == CASE n.descr = "switch os" -> 6 [] n.descr = "linux" -> -4 [] OTHER -> 0
<1>1. /\ port \in {0, 10} /\ name \in {0, 8} /\ vlan \in {0, 4} /\ chassis \in {0, 2}
      /\ descr \in {6, -4, 0}
  OBVIOUS
<1>2. Points(n) = port + name + vlan + chassis + descr
  BY DEF Points
<1> HIDE DEF port, name, vlan, chassis, descr
<1> QED
  BY <1>1, <1>2

\* The best of several records is one of them, if one is available.
LEMMA BestIsOne ==
    ASSUME NEW V, NEW c \in Seq(Records(V))
    PROVE  Best(c) = NoNeighbor("no neighbor data") \/ \E i \in DOMAIN c : Best(c) = c[i]
<1> DEFINE A == {i \in DOMAIN c : c[i].available}
           B == {i \in A : \A j \in A : ~Better(c[j], c[i])}
<1>1. CASE A = {}
  BY <1>1 DEF Best
<1>2. CASE A # {}
  <2>1. \A i \in DOMAIN c : Points(c[i]) \in Int /\ 30 - Points(c[i]) \in Nat
    BY PointsInRange
  <2>2. \A i \in DOMAIN c : c[i].age \in Nat
    <3>1. \A i \in DOMAIN c : c[i] \in Records(V)
      OBVIOUS
    <3> QED
      BY <3>1 DEF Records, IsLldp, IsNeighbor
  <2> DEFINE S == {30 - Points(c[i]) : i \in A}
  <2>3. S \in SUBSET Nat /\ S # {}
    BY <1>2, <2>1
  <2>4. PICK s \in S : \A t \in S : s <= t
    BY <2>3, LeastNumber
  <2> DEFINE A2 == {i \in A : 30 - Points(c[i]) = s}
             Y == {c[i].age : i \in A2}
  <2>5. Y \in SUBSET Nat /\ Y # {}
    BY <2>2, <2>4
  <2>6. PICK y \in Y : \A z \in Y : y <= z
    BY <2>5, LeastNumber
  <2>7. PICK i \in A2 : c[i].age = y
    OBVIOUS
  <2>8. ASSUME NEW j \in A PROVE ~Better(c[j], c[i])
    <3>1. s <= 30 - Points(c[j]) /\ 30 - Points(c[i]) = s
      BY <2>4, <2>7
    <3>2. Points(c[j]) = Points(c[i]) => y <= c[j].age
      BY <2>6, <2>7
    <3>3. Points(c[j]) \in Int /\ Points(c[i]) \in Int /\ c[i].age \in Nat /\ c[j].age \in Nat
      BY <2>1, <2>2, <2>7
    <3> QED
      BY <2>7, <3>1, <3>2, <3>3 DEF Better
  <2>9. i \in B
    BY <2>7, <2>8
  <2>10. B \in SUBSET Nat
    OBVIOUS
  <2> HIDE DEF B
  <2>11. Min(B) \in B
    BY <2>9, <2>10, MinIsLeast
  <2>12. Best(c) = c[Min(B)]
    BY <1>2 DEF Best, B
  <2> QED
    BY <2>11, <2>12 DEF B
<1> QED
  BY <1>1, <1>2

\* What Consolidate fills in, one candidate after the other.
LEMMA FillingSteps ==
    ASSUME NEW V, Nat \subseteq V, NEW c \in Seq(Records(V)), Best(c) \in Records(V)
    PROVE  \E g \in [0..Len(c) -> Records(V)] :
               /\ g[0] = Best(c)
               /\ \A i \in 1..Len(c) : g[i] = FilledFrom(g[i - 1], c[i])
               /\ LET n == g[Len(c)]
                  IN Consolidate(c) =
                       IF <<n.port, n.vlan, n.name, n.chassis>> # <<"", "", "", "">>
                       THEN [n EXCEPT !.available = TRUE, !.message = "ok"] ELSE n
<1> DEFINE n == Len(c)
           D == Records(V)
           base == Best(c)
           step == [i \in 1..n |-> [r \in D |-> FilledFrom(r, c[i])]]
           Steps(f) == f = [i \in 0..n |-> IF i = 0 THEN Best(c)
                                           ELSE FilledFrom(f[i - 1], c[i])]
<1>1. n \in Nat /\ base \in D
  OBVIOUS
<1>2. ASSUME NEW i \in 1..n, NEW r \in D PROVE FilledFrom(r, c[i]) \in D
  BY FilledIsRecord, c[i] \in D
<1>3. PICK f \in Runs(n, D, base, step) : TRUE
  <2>1. step \in [1..n -> [D -> D]]
    <3> HIDE DEF D, n
    <3> QED
      BY <1>2
  <2> HIDE DEF D, n, step, base
  <2> QED
    BY <1>1, <2>1, Recursion
<1> HIDE DEF n, D
<1>4. f \in [0..n -> D] /\ \A i \in 1..n : f[i] = step[i][f[i - 1]]
  <2> HIDE DEF step
  <2> QED
    BY <1>3 DEF Runs
<1>5. f[0] = Best(c)
  <2> HIDE DEF step
  <2> QED
    BY <1>3 DEF Runs
<1>6. ASSUME NEW i \in 1..n PROVE f[i] = FilledFrom(f[i - 1], c[i])
  <2>1. f[i - 1] \in D
    BY <1>1, <1>4
  <2> QED
    BY <1>4, <2>1
<1>7. Steps(f)
  <2>1. \A i \in 0..n : f[i] = IF i = 0 THEN Best(c) ELSE FilledFrom(f[i - 1], c[i])
    BY <1>1, <1>5, <1>6
  <2> QED
    BY <1>1, <1>4, <2>1
<1> DEFINE g == CHOOSE h : Steps(h)
<1>8. Steps(g)
  BY <1>7
<1>9. LET m == g[n]
      IN Consolidate(c) =
           IF <<m.port, m.vlan, m.name, m.chassis>> # <<"", "", "", "">>
           THEN [m EXCEPT !.available = TRUE, !.message = "ok"] ELSE m
  BY DEF Consolidate, n
<1> HIDE DEF g
<1>10. \A i \in 0..n : g[i] = IF i = 0 THEN Best(c) ELSE FilledFrom(g[i - 1], c[i])
  BY <1>8, Zenon
<1>11. g[0] = Best(c) /\ \A i \in 1..n : g[i] = FilledFrom(g[i - 1], c[i])
  BY <1>1, <1>10
<1>12. \A i \in 0..n : g[i] \in D
  <2> DEFINE T == {i \in 0..n : g[i] \in D}
  <2>1. 0 \in T
    BY <1>1, <1>11
  <2>2. ASSUME NEW i \in 1..n, i - 1 \in T PROVE i \in T
    BY <1>1, <1>2, <1>11, <2>2
  <2> HIDE DEF T
  <2>3. \A i \in 0..n : i \in T
    BY <1>1, <2>1, <2>2, Induct
  <2> QED
    BY <2>3 DEF T
<1>13. g \in [0..n -> D]
  <2>1. g = [i \in 0..n |-> g[i]]
    BY <1>8
  <2> QED
    BY <1>12, <2>1
<1> QED
  BY <1>9, <1>11, <1>13 DEF n, D

\* What the record lacks, the first k candidates lack.
Keeps(r, c, k) == \A f \in Known : r[f] = "" => \A i \in 1..k : c[i][f] = ""

LEMMA FilledKeepsAll ==
    ASSUME NEW c, NEW k \in Nat \ {0}, NEW r, IsLldp(r), Keeps(r, c, k - 1)
    PROVE  Keeps(FilledFrom(r, c[k]), c, k)
<1>1. \A i \in 1..k : i \in 1..k - 1 \/ i = k
  OBVIOUS
<1> SUFFICES ASSUME NEW f \in Known, FilledFrom(r, c[k])[f] = "", NEW i \in 1..k
             PROVE  c[i][f] = ""
  BY DEF Keeps
<1>2. FilledFrom(r, c[k])[f] = Or(r[f], c[k][f])
  BY FilledKeeps
<1>3. r[f] = "" /\ c[k][f] = ""
  BY <1>2 DEF Or
<1>4. \A j \in 1..k - 1 : c[j][f] = ""
  BY <1>3 DEF Keeps
<1> QED
  BY <1>1, <1>3, <1>4

\* What none of the candidates lacks, the record made of them does not lack.
LEMMA ConsolidateKeeps ==
    ASSUME NEW c, NEW E, c \in Seq(E), \A i \in DOMAIN c : IsLldp(c[i])
    PROVE  /\ IsLldp(Consolidate(c))
           /\ \A f \in Known : Consolidate(c)[f] = "" => \A i \in DOMAIN c : c[i][f] = ""
           /\ Consolidate(c).available \/ Consolidate(c).chassis = ""
<1> DEFINE none == NoNeighbor("no neighbor data")
           Of(i) == {c[i][f] : f \in Fields}
           V == (UNION {Of(i) : i \in DOMAIN c}) \cup {none[f] : f \in Fields} \cup Nat
<1>1. ASSUME NEW r, IsLldp(r), \A f \in Fields : r[f] \in V PROVE r \in Records(V)
  <2> HIDE DEF V
  <2>1. r = [f \in Fields |-> r[f]]
    BY <1>1 DEF IsLldp, IsNeighbor
  <2>2. r \in [Fields -> V]
    BY <1>1, <2>1
  <2> QED
    BY <1>1, <2>2 DEF Records
<1>2. none \in Records(V)
  <2>1. IsLldp(none)
    BY NoNeighborIsLldp
  <2>2. \A f \in Fields : none[f] \in V
    OBVIOUS
  <2> HIDE DEF none, V
  <2> QED
    BY <1>1, <2>1, <2>2
<1>3. \A i \in DOMAIN c : c[i] \in Records(V)
  <2> SUFFICES ASSUME NEW i \in DOMAIN c PROVE c[i] \in Records(V)
    OBVIOUS
  <2>1. \A f \in Fields : c[i][f] \in V
    <3>1. \A f \in Fields : c[i][f] \in Of(i)
      OBVIOUS
    <3> HIDE DEF Of
    <3> QED
      BY <3>1
  <2> HIDE DEF V
  <2> QED
    BY <1>1, <2>1
<1>4. Nat \subseteq V
  OBVIOUS
<1> HIDE DEF V, none
<1>5. c \in Seq(Records(V))
  <2>1. Len(c) \in Nat /\ c = [i \in 1..Len(c) |-> c[i]] /\ DOMAIN c = 1..Len(c)
    OBVIOUS
  <2> QED
    BY <1>3, <2>1
<1>6. Best(c) \in Records(V)
  <2>1. Best(c) = none \/ \E i \in DOMAIN c : Best(c) = c[i]
    BY <1>5, BestIsOne DEF none
  <2> QED
    BY <1>2, <1>3, <2>1
<1>7. PICK g \in [0..Len(c) -> Records(V)] :
          /\ g[0] = Best(c)
          /\ \A i \in 1..Len(c) : g[i] = FilledFrom(g[i - 1], c[i])
          /\ LET n == g[Len(c)]
             IN Consolidate(c) =
                  IF <<n.port, n.vlan, n.name, n.chassis>> # <<"", "", "", "">>
                  THEN [n EXCEPT !.available = TRUE, !.message = "ok"] ELSE n
  BY <1>4, <1>5, <1>6, FillingSteps
<1>8. Len(c) \in Nat /\ DOMAIN c = 1..Len(c)
  OBVIOUS
<1> DEFINE n == g[Len(c)]
           T == {k \in 0..Len(c) : Keeps(g[k], c, k)}
<1>9. \A i \in 0..Len(c) : IsLldp(g[i])
  BY <1>7 DEF Records
<1>10. 0 \in T
  <2>1. Keeps(g[0], c, 0)
    <3>1. 1..0 = {}
      OBVIOUS
    <3> QED
      BY <3>1, Zenon DEF Keeps
  <2> QED
    BY <1>8, <2>1
<1>11. ASSUME NEW k \in 1..Len(c), k - 1 \in T PROVE k \in T
  <2>1. k - 1 \in 0..Len(c) /\ k \in Nat \ {0}
    BY <1>8
  <2>2. Keeps(FilledFrom(g[k - 1], c[k]), c, k)
    BY <1>9, <1>11, <2>1, FilledKeepsAll
  <2>3. g[k] = FilledFrom(g[k - 1], c[k])
    BY <1>7
  <2>4. k \in 0..Len(c)
    BY <1>8
  <2> HIDE DEF n
  <2> QED
    BY <2>2, <2>3, <2>4
<1>12. Len(c) \in T
  <2> HIDE DEF T
  <2>1. \A k \in 0..Len(c) : k \in T
    BY <1>8, <1>10, <1>11, Induct
  <2> QED
    BY <1>8, <2>1
<1>13. /\ \A f \in Known : n[f] = "" => \A i \in DOMAIN c : c[i][f] = ""
       /\ IsLldp(n)
  BY <1>8, <1>9, <1>12 DEF Keeps
<1>14. Consolidate(c) \in {n, [n EXCEPT !.available = TRUE, !.message = "ok"]}
  BY <1>7
<1>15. \/ Consolidate(c) = n /\ n.chassis = ""
       \/ Consolidate(c) = [n EXCEPT !.available = TRUE, !.message = "ok"]
  BY <1>7
<1> HIDE DEF n
<1>16. Consolidate(c).available \/ Consolidate(c).chassis = ""
  BY <1>13, <1>15 DEF IsLldp, IsNeighbor, Fields, Texts
<1>17. /\ IsLldp(Consolidate(c))
       /\ \A f \in Known : Consolidate(c)[f] = n[f]
  BY <1>13, <1>14 DEF IsLldp, IsNeighbor, Fields, Texts, Known
<1> QED
  BY <1>13, <1>16, <1>17

\* The entries that match are entries of the answer.
LEMMA MatchingIsSequence ==
    ASSUME NEW E, NEW entries \in Seq(E), NEW interface
    PROVE  Matching(entries, interface) \in Seq(E)
<1> DEFINE n == Len(entries)
           D == Seq(E)
           Kept(s, i) == IF entries[i].interface = interface THEN Append(s, entries[i]) ELSE s
           step == [i \in 1..n |-> [s \in D |-> Kept(s, i)]]
           Steps(f) == f = [k \in 0..n |->
                               IF k = 0 THEN <<>>
                               ELSE IF entries[k].interface = interface
                                    THEN Append(f[k - 1], entries[k])
                               ELSE f[k - 1]]
<1>1. n \in Nat /\ <<>> \in D
  OBVIOUS
<1>2. ASSUME NEW i \in 1..n, NEW s \in D PROVE Kept(s, i) \in D
  <2>1. Append(s, entries[i]) \in D
    OBVIOUS
  <2> HIDE DEF D
  <2> QED
    BY <2>1
<1>3. PICK f \in Runs(n, D, <<>>, step) : TRUE
  <2>1. step \in [1..n -> [D -> D]]
    <3> HIDE DEF D, n, Kept
    <3> QED
      BY <1>2
  <2> HIDE DEF D, n, step
  <2> QED
    BY <1>1, <2>1, Recursion
<1> HIDE DEF n, D
<1>4. f \in [0..n -> D] /\ f[0] = <<>> /\ \A i \in 1..n : f[i] = step[i][f[i - 1]]
  <2> HIDE DEF step
  <2> QED
    BY <1>3 DEF Runs
<1>5. ASSUME NEW i \in 1..n PROVE f[i] = Kept(f[i - 1], i)
  <2>1. f[i - 1] \in D
    BY <1>1, <1>4
  <2> HIDE DEF Kept
  <2> QED
    BY <1>4, <2>1
<1>6. Steps(f)
  <2>1. \A k \in 0..n : f[k] = IF k = 0 THEN <<>>
                               ELSE IF entries[k].interface = interface
                                    THEN Append(f[k - 1], entries[k])
                               ELSE f[k - 1]
    <3>1. \A k \in 0..n : k = 0 \/ k \in 1..n
      BY <1>1
    <3>2. ASSUME NEW k \in 1..n
          PROVE  /\ k # 0
                 /\ f[k] = IF entries[k].interface = interface
                           THEN Append(f[k - 1], entries[k]) ELSE f[k - 1]
      <4>1. k # 0
        BY <1>1
      <4> QED
        BY <1>5, <4>1
    <3>3. f[0] = <<>>
      BY <1>4
    <3> QED
      BY <3>1, <3>2, <3>3
  <2>2. f = [k \in 0..n |-> f[k]]
    BY <1>4
  <2> QED
    BY <2>1, <2>2
<1> DEFINE g == CHOOSE h : Steps(h)
<1>7. Steps(g)
  BY <1>6
<1>8. Matching(entries, interface) \in {entries, g[n]}
  BY DEF Matching, n
<1> HIDE DEF g
<1>9. \A k \in 0..n : g[k] = IF k = 0 THEN <<>> ELSE Kept(g[k - 1], k)
  BY <1>7, Zenon
<1> HIDE DEF Kept
<1>10. \A k \in 0..n : g[k] \in D
  <2> DEFINE T == {k \in 0..n : g[k] \in D}
  <2>1. 0 \in T
    BY <1>1, <1>9
  <2>2. ASSUME NEW k \in 1..n, k - 1 \in T PROVE k \in T
    BY <1>1, <1>2, <1>9, <2>2
  <2> HIDE DEF T
  <2>3. \A k \in 0..n : k \in T
    BY <1>1, <2>1, <2>2, Induct
  <2> QED
    BY <2>3 DEF T
<1> QED
  BY <1>1, <1>8, <1>10 DEF D

\* What LLDP makes of the entries of its answer lacks nothing that one of them knows.
LEMMA LldpKeeps ==
    ASSUME NEW answer, NEW E, answer \in Seq(E), \A e \in E : IsEntry(e), NEW interface
    PROVE  LET own == Matching(answer, interface)
               n == CollectLldp(answer, interface)
           IN /\ IsLldp(n)
              /\ \A f \in Known : n[f] = "" =>
                     \A i \in DOMAIN own : ParseEntry(own[i])[f] = ""
              /\ n.available \/ n.chassis = ""
<1> DEFINE own == Matching(answer, interface)
           c == [i \in DOMAIN own |-> ParseEntry(own[i])]
           n == CollectLldp(answer, interface)
<1>1. own \in Seq(E)
  BY MatchingIsSequence
<1>2. CASE answer = <<>>
  <2>1. own = <<>>
    <3>1. answer \in Seq({})
      BY <1>2
    <3>2. own \in Seq({})
      BY <3>1, MatchingIsSequence
    <3> QED
      BY <3>2
  <2>2. DOMAIN own = {}
    BY <2>1
  <2>3. n = NoNeighbor("lldpctl unavailable")
    BY <1>2 DEF CollectLldp
  <2>4. NoNeighbor("lldpctl unavailable").chassis = ""
    BY DEF NoNeighbor
  <2>5. IsLldp(n) /\ n.chassis = ""
    <3> HIDE DEF n
    <3> QED
      BY <2>3, <2>4, NoNeighborIsLldp
  <2> QED
    BY <2>2, <2>5
<1>3. CASE answer # <<>>
  <2> DEFINE P == {ParseEntry(e) : e \in E}
  <2>1. c \in Seq(P) /\ DOMAIN c = DOMAIN own
    BY <1>1
  <2>2. \A i \in DOMAIN c : c[i] = ParseEntry(own[i]) /\ IsLldp(c[i])
    <3> SUFFICES ASSUME NEW i \in DOMAIN own
                 PROVE  c[i] = ParseEntry(own[i]) /\ IsLldp(c[i])
      BY <2>1
    <3>1. own[i] \in E
      BY <1>1
    <3> QED
      BY <3>1, EntryIsLldp
  <2>3. n = Consolidate(c)
    BY <1>3 DEF CollectLldp
  <2> HIDE DEF c, n, own, P
  <2>4. /\ IsLldp(Consolidate(c))
        /\ \A f \in Known : Consolidate(c)[f] = "" => \A i \in DOMAIN c : c[i][f] = ""
        /\ Consolidate(c).available \/ Consolidate(c).chassis = ""
    BY <2>1, <2>2, ConsolidateKeeps
  <2> QED
    BY <2>1, <2>2, <2>3, <2>4 DEF n, own
<1> QED
  BY <1>2, <1>3

-------------------------------------------------------------------------------
(* MNDP, and both.                                                              *)

LEMMA PickInList ==
    ASSUME NEW D, NEW ds \in Seq(D), NEW chassis, NEW gwMac, NEW gwIp
    PROVE  \/ Pick(ds, chassis, gwMac, gwIp) = 0
           \/ Pick(ds, chassis, gwMac, gwIp) \in DOMAIN ds
<1> DEFINE By(text, f) == {i \in DOMAIN ds : text # "" /\ ds[i][f] = text}
           switches == {i \in DOMAIN ds : SwitchLike(ds[i])}
           named == IF By(chassis, "mac") # {} THEN By(chassis, "mac")
                    ELSE IF By(gwMac, "mac") # {} THEN By(gwMac, "mac")
                    ELSE IF By(gwIp, "ipv4") # {} THEN By(gwIp, "ipv4")
                    ELSE IF OnlySwitch(switches) THEN switches
                    ELSE {}
<1>1. Pick(ds, chassis, gwMac, gwIp) = IF named = {} THEN 0 ELSE Min(named)
  BY DEF Pick
<1>2. named \in SUBSET DOMAIN ds
  <2>1. ASSUME NEW text, NEW f PROVE By(text, f) \in SUBSET DOMAIN ds
    OBVIOUS
  <2>2. switches \in SUBSET DOMAIN ds
    OBVIOUS
  <2> HIDE DEF By, switches
  <2> QED
    BY <2>1, <2>2
<1>3. DOMAIN ds \in SUBSET Nat
  OBVIOUS
<1> HIDE DEF named
<1> QED
  BY <1>1, <1>2, <1>3, MinIsLeast

\* The record of a neighbor that MNDP gives, and that of none.
NoneHeard == [NoNeighbor("no mndp neighbor") EXCEPT !.protocol = "MNDP"]

LEMMA DeviceIsNeighbor ==
    ASSUME NEW d
    PROVE  LET n == ToNeighbor(d)
           IN IsNeighbor(n) /\ n.protocol = "MNDP" /\ n.available /\ n.chassis = d.mac
<1>1. IsNeighbor(NoNeighbor("ok"))
  BY NoNeighborIsLldp DEF IsLldp
<1> QED
  BY <1>1 DEF ToNeighbor, IsNeighbor, Fields, Texts

LEMMA NoneIsNeighbor ==
    /\ IsNeighbor(NoneHeard) /\ NoneHeard.protocol = "MNDP" /\ ~NoneHeard.available
    /\ \A f \in Texts \ {"protocol"} : NoneHeard[f] = ""
<1>1. IsNeighbor(NoNeighbor("no mndp neighbor"))
  BY NoNeighborIsLldp DEF IsLldp
<1> DEFINE n == NoNeighbor("no mndp neighbor")
<1>2. /\ n.name = "" /\ n.port = "" /\ n.vlan = "" /\ n.chassis = "" /\ n.descr = ""
      /\ n.board = "" /\ ~n.available
  BY DEF NoNeighbor
<1> HIDE DEF n
<1> QED
  BY <1>1, <1>2 DEF NoneHeard, IsNeighbor, Fields, Texts, n

\* What MNDP gives is one of the devices heard, or nothing.
LEMMA MndpIsOne ==
    ASSUME NEW R, NEW p \in Seq(R), NEW chassis, NEW gwMac, NEW gwIp
    PROVE  \/ CollectMndp(p, chassis, gwMac, gwIp) = NoneHeard
           \/ \E d \in DevicesOf(p) : CollectMndp(p, chassis, gwMac, gwIp) = ToNeighbor(d)
<1> DEFINE ds == Discover(p)
           i == Pick(ds, chassis, gwMac, gwIp)
<1>1. ds \in Seq(DevicesOf(p))
  BY DiscoverIsSequence
<1> HIDE DEF ds
<1>2. i = 0 \/ i \in DOMAIN ds
  BY <1>1, PickInList
<1> HIDE DEF i
<1>3. CASE i # 0
  <2>1. ds[i] \in DevicesOf(p)
    BY <1>1, <1>2, <1>3
  <2> QED
    BY <1>3, <2>1 DEF CollectMndp, ds, i
<1>4. CASE i = 0 /\ Len(ds) = 1
  <2>1. ds[1] \in DevicesOf(p)
    <3>1. Len(ds) = 1
      BY <1>4
    <3>2. 1 \in DOMAIN ds
      BY <1>1, <3>1
    <3> QED
      BY <1>1, <3>2
  <2> QED
    BY <1>4, <2>1 DEF CollectMndp, ds, i
<1>5. CASE i = 0 /\ Len(ds) # 1
  BY <1>5 DEF CollectMndp, NoneHeard, ds, i
<1> QED
  BY <1>3, <1>4, <1>5

\* A record MNDP gives: with nothing to say, it says nothing.
IsMndp(n) ==
    /\ IsNeighbor(n) /\ n.protocol = "MNDP"
    /\ n.available \/ \A f \in Texts \ {"protocol"} : n[f] = ""

LEMMA MndpIsNeighbor ==
    ASSUME NEW R, NEW p \in Seq(R), NEW chassis, NEW gwMac, NEW gwIp
    PROVE  IsMndp(CollectMndp(p, chassis, gwMac, gwIp))
<1> DEFINE n == CollectMndp(p, chassis, gwMac, gwIp)
<1>1. n = NoneHeard \/ \E d \in DevicesOf(p) : n = ToNeighbor(d)
  BY MndpIsOne
<1> HIDE DEF n
<1>2. CASE n = NoneHeard
  <2>1. IsMndp(NoneHeard)
    BY NoneIsNeighbor DEF IsMndp
  <2> QED
    BY <1>2, <2>1 DEF n
<1>3. ASSUME NEW d, n = ToNeighbor(d) PROVE IsMndp(n)
  BY <1>3, DeviceIsNeighbor DEF IsMndp
<1> QED
  BY <1>1, <1>2, <1>3 DEF n

\* What Merge, and Combine, make of a record of LLDP's and one of MNDP's.
Lossless(n, l, m) ==
    /\ \A f \in Known : n[f] = "" => l[f] = "" /\ m[f] = ""
    /\ \A f \in {"name", "vlan", "chassis"} : l[f] # "" => n[f] = l[f]
    /\ ~IsWeakPort(l.port) => n.port = l.port
    /\ IsWeakPort(n.port) => IsWeakPort(m.port) /\ IsWeakPort(l.port)

LEMMA MergeLosesNothing ==
    ASSUME NEW l, NEW m, IsLldp(l), IsMndp(m), m.available
    PROVE  Lossless(Merge(l, m), l, m)
<1> DEFINE n == Merge(l, m)
<1>1. /\ n.name = Or(l.name, m.name)
      /\ n.port = MergedPort(l, m)
      /\ n.vlan = Or(TextOf("vlan", Lldp, l, m), Or(l.vlan, m.vlan))
      /\ n.chassis = Or(l.chassis, m.chassis)
      /\ n.descr = Or(l.descr, m.descr)
  BY DEF Merge, SaysNothing, IsLldp, IsNeighbor, Fields, Texts
<1>2. \A f \in Texts : TextOf(f, Lldp, l, m) \in {l[f], ""}
  BY DEF TextOf, Or, Lldp, IsMndp
<1>3. n.vlan = Or(l.vlan, m.vlan)
  <2>1. TextOf("vlan", Lldp, l, m) \in {l.vlan, ""}
    BY <1>2 DEF Texts
  <2> QED
    BY <1>1, <2>1 DEF Or
<1>4. /\ n.port = "" => l.port = "" /\ m.port = ""
      /\ ~IsWeakPort(l.port) => n.port = l.port
      /\ IsWeakPort(n.port) => IsWeakPort(m.port) /\ IsWeakPort(l.port)
  <2>1. TextOf("port", Lldp, l, m) \in {l.port, ""}
    BY <1>2 DEF Texts
  <2>2. TextOf("port", {"MNDP"}, l, m) = m.port
    BY DEF TextOf, Or, IsLldp, IsMndp
  <2>3. Or(TextOf("port", Lldp, l, m), Or(l.port, m.port)) = Or(l.port, m.port)
    BY <2>1 DEF Or
  <2>4. n.port = IF IsWeakPort(Or(l.port, m.port)) /\ ~IsWeakPort(m.port)
                 THEN m.port ELSE Or(l.port, m.port)
    BY <1>1, <2>2, <2>3 DEF MergedPort, StrongerMndpPort
  <2> HIDE DEF n
  <2> QED
    BY <2>4 DEF IsWeakPort, Weak, Or
<1> HIDE DEF n
<1>5. \A f \in {"name", "vlan", "chassis", "descr"} : n[f] = Or(l[f], m[f])
  BY <1>1, <1>3
<1> QED
  BY <1>4, <1>5 DEF Lossless, Known, Or, n

LEMMA CombineLosesNothing ==
    ASSUME NEW l, NEW m, IsLldp(l), IsMndp(m)
    PROVE  Lossless(Combine(l, m), l, m)
<1> DEFINE n == Combine(l, m)
<1>1. ASSUME NEW x, ~HasTopology(x) PROVE \A f \in Known : x[f] = ""
  BY <1>1 DEF HasTopology, Known, Texts
<1>2. ~m.available => \A f \in Known : m[f] = ""
  BY DEF IsMndp, Known, Texts
<1>3. {"name", "vlan", "chassis", "port"} \subseteq Known /\ IsWeakPort("")
  BY DEF Known, IsWeakPort, Weak
<1>4. CASE HasTopology(l) /\ HasTopology(m)
  <2>1. n = Merge(l, m)
    BY <1>4 DEF Combine
  <2>2. m.available
    BY <1>4 DEF HasTopology, IsMndp
  <2> QED
    BY <2>1, <2>2, MergeLosesNothing
<1>5. CASE HasTopology(l) /\ ~HasTopology(m)
  <2>1. n = l
    BY <1>5 DEF Combine
  <2>2. \A f \in Known : m[f] = ""
    BY <1>1, <1>5
  <2> HIDE DEF n
  <2>3. Lossless(n, l, m)
    BY <1>3, <2>1, <2>2 DEF Lossless
  <2> QED
    BY <2>3 DEF n
<1>6. CASE ~HasTopology(l) /\ HasTopology(m)
  <2>1. n = m
    BY <1>6 DEF Combine
  <2>2. \A f \in Known : l[f] = ""
    BY <1>1, <1>6
  <2> HIDE DEF n
  <2>3. Lossless(n, l, m)
    BY <1>3, <2>1, <2>2 DEF Lossless
  <2> QED
    BY <2>3 DEF n
<1>7. CASE ~HasTopology(l) /\ ~HasTopology(m)
  <2>1. n = [l EXCEPT !.available = FALSE, !.protocol = Or(@, "LLDP")]
    BY <1>7 DEF Combine
  <2>2. \A f \in Known : l[f] = "" /\ m[f] = ""
    BY <1>1, <1>7
  <2>3. \A f \in Known : n[f] = l[f]
    BY <2>1 DEF IsLldp, IsNeighbor, Fields, Texts, Known
  <2> HIDE DEF n
  <2>4. Lossless(n, l, m)
    BY <1>3, <2>2, <2>3 DEF Lossless
  <2> QED
    BY <2>4 DEF n
<1> QED
  BY <1>4, <1>5, <1>6, <1>7

LEMMA LosesNothing == CasesInit => NothingIsLost
<1> SUFFICES ASSUME CasesInit PROVE NothingIsLost
  OBVIOUS
<1> DEFINE answer == collected.answer
           replies == collected.replies
           own == Matching(answer, "eth0")
           l == Lldp1
           m == MndpOfReplies(replies)
           n == Combine(l, m)
           E == Range(answer)
<1>1. answer \in Seq(E) /\ \A e \in E : IsEntry(e)
  <2>1. collected.answer \in Answers
    BY CasesAreHeard
  <2> QED
    BY <2>1, CasesAssumption DEF IsAnswer
<1>2. /\ IsLldp(l)
      /\ \A f \in Known : l[f] = "" => \A i \in DOMAIN own : ParseEntry(own[i])[f] = ""
  <2> HIDE DEF E, answer
  <2>1. LET n1 == CollectLldp(answer, "eth0")
        IN /\ IsLldp(n1)
           /\ \A f \in Known : n1[f] = "" => \A i \in DOMAIN own : ParseEntry(own[i])[f] = ""
           /\ n1.available \/ n1.chassis = ""
    BY <1>1, LldpKeeps
  <2> QED
    BY <2>1 DEF Lldp1, answer
<1>3. IsMndp(m)
  BY CasesAreHeard, MndpIsNeighbor DEF MndpOfReplies
<1> HIDE DEF l, m, n
<1>4. Lossless(n, l, m)
  BY <1>2, <1>3, CombineLosesNothing DEF n
<1>5. ASSUME NEW f \in Known, n[f] = "", NEW s \in Parsed \cup {m} PROVE s[f] = ""
  <2>1. l[f] = "" /\ m[f] = ""
    BY <1>4, <1>5 DEF Lossless
  <2>2. CASE s \in Parsed
    <3>1. PICK i \in DOMAIN own : s = ParseEntry(own[i])
      BY <2>2 DEF Parsed
    <3> QED
      BY <1>2, <2>1, <3>1
  <2> QED
    BY <2>1, <2>2
<1> QED
  BY <1>4, <1>5 DEF NothingIsLost, Lossless, Known, l, m, n

\* Of what lldpctl's entries and the MNDP device on the cable say of name, port,
\* VLAN, chassis and description, the neighbor lacks nothing, and LLDP's word stands,
\* for any entries and replies (lldp.py:224-257, neighbors.py:26-67, 84-114).
THEOREM CollectorsLoseNothing == CasesSpec => []NothingIsLost
<1>1. NothingIsLost /\ [FALSE]_collected => NothingIsLost'
  BY DEF NothingIsLost, MndpOfReplies, Parsed, Lldp1
<1> QED
  BY LosesNothing, <1>1, PTL DEF CasesSpec

\* What is available after the two are combined was named by one of them.
LEMMA CombineNames ==
    ASSUME NEW l, NEW m, IsLldp(l), l.available \/ l.chassis = "", IsMndp(m)
    PROVE  /\ IsNeighbor(Combine(l, m))
           /\ Combine(l, m).available =>
                  \/ m.available /\ Combine(l, m).chassis = m.chassis
                  \/ l.available /\ Combine(l, m).chassis = l.chassis
           /\ m.available => Combine(l, m).available
<1> DEFINE n == Combine(l, m)
<1>1. IsNeighbor(l) /\ IsNeighbor(m)
  BY DEF IsLldp, IsMndp
<1>2. CASE HasTopology(l) /\ HasTopology(m)
  <2>1. n = Merge(l, m)
    BY <1>2 DEF Combine
  <2>2. m.available
    BY <1>2 DEF HasTopology, IsMndp
  <2>3. IsNeighbor(Merge(l, m)) /\ Merge(l, m).available
        /\ Merge(l, m).chassis = Or(l.chassis, m.chassis)
    BY <1>1, <2>2 DEF Merge, SaysNothing, IsNeighbor, Fields, Texts
  <2> QED
    BY <2>1, <2>2, <2>3 DEF Or
<1>3. CASE HasTopology(l) /\ ~HasTopology(m)
  <2>1. n = l /\ ~m.available
    BY <1>3 DEF Combine, HasTopology
  <2> QED
    BY <1>1, <2>1
<1>4. CASE ~HasTopology(l) /\ HasTopology(m)
  <2>1. n = m
    BY <1>4 DEF Combine
  <2> QED
    BY <1>1, <2>1
<1>5. CASE ~HasTopology(l) /\ ~HasTopology(m)
  <2>1. n = [l EXCEPT !.available = FALSE, !.protocol = Or(@, "LLDP")] /\ ~m.available
    BY <1>5 DEF Combine, HasTopology
  <2>2. IsNeighbor(n) /\ ~n.available
    BY <1>1, <2>1 DEF IsNeighbor, Fields, Texts
  <2> QED
    BY <2>1, <2>2
<1> QED
  BY <1>2, <1>3, <1>4, <1>5

\* What MNDP gives was named by a device that was heard.
LEMMA MndpNames ==
    ASSUME NEW R, NEW p \in Seq(R), NEW chassis, NEW gwMac, NEW gwIp,
           CollectMndp(p, chassis, gwMac, gwIp).available
    PROVE  \E reply \in R :
               CollectMndp(p, chassis, gwMac, gwIp).chassis = ParsePayload(reply).mac
<1> DEFINE n == CollectMndp(p, chassis, gwMac, gwIp)
<1>1. n = NoneHeard \/ \E d \in DevicesOf(p) : n = ToNeighbor(d)
  BY MndpIsOne
<1> HIDE DEF n
<1>2. n # NoneHeard
  BY NoneIsNeighbor DEF n
<1>3. PICK i \in DOMAIN p : n = ToNeighbor(ParsePayload(p[i]))
  BY <1>1, <1>2 DEF DevicesOf
<1>4. n.chassis = ParsePayload(p[i]).mac /\ p[i] \in R
  BY <1>3, DeviceIsNeighbor
<1> QED
  BY <1>4 DEF n

\* When all have been heard, the device on the cable is told from the others.
LEMMA SwitchIsFound ==
    ASSUME NEW R, SaySame(R), OneIsOnCable(R), NEW p \in Seq(R),
           \A reply \in R : \E i \in DOMAIN p : p[i] = reply,
           NEW chassis, NEW gwMac, NEW gwIp
    PROVE  CollectMndp(p, chassis, gwMac, gwIp).available
<1> DEFINE ds == Discover(p)
           a == Pick(ds, chassis, gwMac, gwIp)
           switches == {i \in DOMAIN ds : SwitchLike(ds[i])}
           devices == {d \in {ParsePayload(r) : r \in R} : IsDevice(d)}
<1>1. ds \in Seq(DevicesOf(p)) /\ OneOfEach(ds, p, Len(p))
  BY DiscoverOneOfEach
<1>2. PICK d \in devices : devices = {d} \/ {e \in devices : SwitchLike(e)} = {d}
  BY DEF OneIsOnCable
<1>3. DOMAIN p = 1..Len(p)
  OBVIOUS
<1> HIDE DEF ds
<1>4. \A i \in DOMAIN ds : ds[i] \in devices
  <2> SUFFICES ASSUME NEW i \in DOMAIN ds PROVE ds[i] \in devices
    OBVIOUS
  <2>1. IsDevice(ds[i]) /\ \E j \in 1..Len(p) : ds[i] = ParsePayload(p[j])
    BY <1>1 DEF OneOfEach
  <2> QED
    BY <1>3, <2>1
<1>5. PICK k \in DOMAIN ds : ds[k] = d
  <2>1. PICK r \in R : d = ParsePayload(r) /\ IsDevice(d)
    OBVIOUS
  <2>2. PICK j \in DOMAIN p : p[j] = r
    OBVIOUS
  <2> QED
    BY <1>1, <1>3, <2>1, <2>2 DEF OneOfEach
<1> HIDE DEF devices
<1>6. \A i \in DOMAIN ds : ds[i] = d => i = k
  BY <1>1, <1>5 DEF OneOfEach
<1>7. a # 0 => a \in DOMAIN ds
  BY <1>1, PickInList
<1>8. a # 0 \/ Len(ds) = 1
  <2>1. CASE devices = {d}
    <3>1. \A i \in DOMAIN ds : i = k
      BY <1>4, <1>6, <2>1
    <3>2. Len(ds) \in DOMAIN ds /\ 1 \in DOMAIN ds
      BY <1>1, <1>5
    <3> QED
      BY <3>1, <3>2
  <2>2. CASE {e \in devices : SwitchLike(e)} = {d}
    <3>1. \A i \in DOMAIN ds : SwitchLike(ds[i]) <=> ds[i] = d
      BY <1>4, <2>2
    <3>2. switches = {k}
      BY <1>5, <1>6, <3>1
    <3>3. OnlySwitch(switches)
      BY <3>2, FS_Singleton DEF OnlySwitch
    <3>4. DOMAIN ds \in SUBSET (Nat \ {0})
      BY <1>1
    <3> DEFINE By(text, f) == {i \in DOMAIN ds : text # "" /\ ds[i][f] = text}
               named == IF By(chassis, "mac") # {} THEN By(chassis, "mac")
                        ELSE IF By(gwMac, "mac") # {} THEN By(gwMac, "mac")
                        ELSE IF By(gwIp, "ipv4") # {} THEN By(gwIp, "ipv4")
                        ELSE IF OnlySwitch(switches) THEN switches
                        ELSE {}
    <3>5. a = IF named = {} THEN 0 ELSE Min(named)
      BY DEF Pick
    <3>6. named # {} /\ named \in SUBSET DOMAIN ds
      <4>1. ASSUME NEW text, NEW f PROVE By(text, f) \in SUBSET DOMAIN ds
        OBVIOUS
      <4> HIDE DEF By, switches
      <4> QED
        BY <1>5, <3>2, <3>3, <4>1
    <3> HIDE DEF named
    <3>7. Min(named) \in named
      BY <3>4, <3>6, MinIsLeast
    <3> QED
      BY <3>4, <3>5, <3>6, <3>7
  <2> QED
    BY <1>2, <2>1, <2>2
<1> HIDE DEF a
<1>9. \E e : CollectMndp(p, chassis, gwMac, gwIp) = ToNeighbor(e)
  BY <1>8 DEF CollectMndp, ds, a
<1> QED
  BY <1>9, DeviceIsNeighbor

===============================================================================
