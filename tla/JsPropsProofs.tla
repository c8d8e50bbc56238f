--------------------------- MODULE JsPropsProofs ---------------------------
(***************************************************************************)
(* What the hash table of an object guarantees for every set of keys, hash *)
(* values, addresses and tables it starts with.                            *)
(***************************************************************************)
EXTENDS JsProps, FiniteSetTheorems, SequenceTheorems, WellFoundedInduction, TLAPS

-----------------------------------------------------------------------------
(* Numbers in sets.                                                        *)

LEMMA LeastIsIn ==
    ASSUME NEW S \in SUBSET Nat, S # {}
    PROVE  Least(S) \in S /\ \A j \in S : Least(S) <= j
<1>1. IsWellFoundedOn(OpToRel(<, Nat), Nat)
  BY NatLessThanWellFounded
<1>2. PICK i \in S : \A j \in S : ~(<<j, i>> \in OpToRel(<, Nat))
  BY <1>1, WFMin
<1>3. ASSUME NEW j \in S PROVE i <= j
  <2>1. ~(j < i)
    BY <1>2, Zenon DEF OpToRel
  <2> QED
    BY <2>1
<1> QED
  BY <1>2, <1>3 DEF Least

LEMMA GreatestIsIn ==
    ASSUME NEW n \in Nat, NEW S \in SUBSET (0 .. n), S # {}
    PROVE  Greatest(S) \in S /\ \A j \in S : j <= Greatest(S)
<1> DEFINE below == {m \in 0 .. n : n - m \in S}
<1>1. below \in SUBSET Nat /\ below # {}
  <2>1. PICK j \in S : j \in 0 .. n
    OBVIOUS
  <2>2. n - j \in below
    BY <2>1
  <2>3. below \in SUBSET Nat
    OBVIOUS
  <2> HIDE DEF below
  <2> QED
    BY <2>2, <2>3
<1>2. PICK m \in below : \A j \in below : m <= j
  BY <1>1, LeastIsIn
<1>3. ASSUME NEW j \in S PROVE j <= n - m
  <2>1. n - j \in below /\ j \in 0 .. n
    OBVIOUS
  <2> QED
    BY <1>2, <2>1
<1>4. n - m \in S
  BY <1>2
<1> QED
  BY <1>3, <1>4 DEF Greatest

\* The greatest is the only one.
LEMMA GreatestIs ==
    ASSUME NEW S \in SUBSET Nat, NEW g \in S, \A j \in S : j <= g
    PROVE  Greatest(S) = g
<1>1. \A h \in S : (\A j \in S : j <= h) => h = g
  OBVIOUS
<1> QED
  BY <1>1 DEF Greatest

-----------------------------------------------------------------------------
(* The places of a table.                                                  *)

LEMMA PlaceOfOffset ==
    ASSUME NEW t, t.mask \in Nat, NEW i \in Nat \ {0}
    PROVE  /\ Offset(t.mask, i) \in Nat \ {0}
           /\ Place(t, Offset(t.mask, i)) = i
BY DEF Offset, Base, Place

LEMMA BucketInTable ==
    ASSUME NEW a \in [Movable -> Nat], NEW k \in Keys, NEW mask \in Nat
    PROVE  Bucket(a, k, mask) \in 0 .. mask
<1>1. Hash(a, k) \in Nat
  BY PropsAssumption DEF Hash, NextUp, Keys
<1>2. \A h \in Nat : h % (mask + 1) \in 0 .. mask
  OBVIOUS
<1> QED
  BY <1>1, <1>2 DEF Bucket

\* What Latest gives for a set of places.
LEMMA LatestIs ==
    ASSUME NEW mask \in Nat, NEW n \in Nat, NEW S \in SUBSET (1 .. n)
    PROVE  /\ S = {} => Latest(mask, S) = 0
           /\ S # {} => \E g \in S : (\A j \in S : j <= g) /\ Latest(mask, S) = Offset(mask, g)
           /\ \A g \in S : (\A j \in S : j <= g) => Latest(mask, S) = Offset(mask, g)
           /\ Latest(mask, S) \in Nat
<1>1. S \in SUBSET (0 .. n) /\ S \in SUBSET Nat
  OBVIOUS
<1>2. ASSUME S # {} PROVE Greatest(S) \in S /\ \A j \in S : j <= Greatest(S)
  BY <1>1, <1>2, GreatestIsIn
<1>3. ASSUME NEW g \in S, \A j \in S : j <= g PROVE Greatest(S) = g
  BY <1>1, <1>3, GreatestIs
<1>4. \A g \in S : Offset(mask, g) \in Nat
  BY DEF Offset, Base
<1> QED
  BY <1>2, <1>3, <1>4 DEF Latest

LEMMA InBuckets ==
    ASSUME NEW a \in [Movable -> Nat], NEW t, Typed(t)
    PROVE  /\ Len(t.props) \in Nat /\ DOMAIN t.props = 1 .. Len(t.props) /\ t.mask \in Nat
           /\ Used(t) \in SUBSET (1 .. Len(t.props))
           /\ \A b : InBucket(a, t, b) \in SUBSET (1 .. Len(t.props))
           /\ \A i \in Used(t) : Bucket(a, t.props[i].key, t.mask) \in 0 .. t.mask
<1>1. Len(t.props) \in Nat /\ DOMAIN t.props = 1 .. Len(t.props) /\ t.mask \in Nat
  BY DEF Typed
<1>2. \A i \in Used(t) : t.props[i].key \in Keys
  BY DEF Used
<1> QED
  BY <1>1, <1>2, BucketInTable DEF Used, InBucket

-----------------------------------------------------------------------------
(* The walk along a chain.                                                 *)

\* The next link of the walk along a chain.
After(t, idx) == IF idx = 0 THEN 0 ELSE t.props[Place(t, idx)].next

\* The definition of the walk has a solution, link by link.
LEMMA ChainIsDefined ==
    ASSUME NEW a, NEW t, NEW k, Len(t.props) \in Nat
    PROVE  /\ DOMAIN Chain(a, t, k) = 0 .. Len(t.props)
           /\ Chain(a, t, k)[0] = t.heads[Bucket(a, k, t.mask)]
           /\ \A n \in 1 .. Len(t.props) : Chain(a, t, k)[n] = After(t, Chain(a, t, k)[n - 1])
<1> DEFINE N == Len(t.props)
           start == t.heads[Bucket(a, k, t.mask)]
           Walk(f, m) == f = [n \in 0 .. m |-> IF n = 0 THEN start
                                              ELSE IF f[n - 1] = 0 THEN 0 ELSE t.props[Place(t, f[n - 1])].next]
           missing == {m \in 0 .. N : ~\E f : Walk(f, m)}
<1>1. \E f : Walk(f, 0)
  <2>1. Walk([n \in 0 .. 0 |-> start], 0)
    OBVIOUS
  <2> QED
    BY <2>1
<1>2. ASSUME NEW m \in 0 .. N, m # 0, NEW f, Walk(f, m - 1) PROVE \E g : Walk(g, m)
  <2> DEFINE g == [n \in 0 .. m |-> IF n = 0 THEN start
                       ELSE IF f[n - 1] = 0 THEN 0 ELSE t.props[Place(t, f[n - 1])].next]
  <2>1. \A n \in 0 .. m - 1 : f[n] = g[n]
    <3> TAKE n \in 0 .. m - 1
    <3>1. n \in 0 .. m
      OBVIOUS
    <3> QED
      BY <1>2, <3>1
  <2>2. \A n \in 0 .. m : n # 0 => n - 1 \in 0 .. m - 1
    OBVIOUS
  <2>3. Walk(g, m)
    <3> HIDE DEF g
    <3>1. \A n \in 0 .. m : n # 0 => f[n - 1] = g[n - 1]
      BY <2>1, <2>2
    <3> QED
      BY <3>1 DEF g
  <2> QED
    BY <2>3
<1>3. missing = {}
  <2> SUFFICES ASSUME missing # {} PROVE FALSE
    OBVIOUS
  <2>1. missing \in SUBSET Nat
    OBVIOUS
  <2> HIDE DEF missing
  <2>2. PICK m \in missing : \A j \in missing : m <= j
    BY <2>1, LeastIsIn
  <2>3. m \in 0 .. N /\ ~\E f : Walk(f, m)
    BY DEF missing
  <2>4. m # 0
    BY <1>1, <2>3
  <2>5. m - 1 \in 0 .. N /\ m - 1 \notin missing
    BY <2>1, <2>2, <2>3, <2>4
  <2>6. PICK f : Walk(f, m - 1)
    BY <2>5 DEF missing
  <2> QED
    BY <1>2, <2>3, <2>4, <2>6
<1>4. \E f : Walk(f, N)
  BY <1>3
<1>5. Walk(Chain(a, t, k), N)
  BY <1>4, Zenon DEF Chain
<1> HIDE DEF start
<1> DEFINE link == Chain(a, t, k)
<1>6. link = [n \in 0 .. N |-> IF n = 0 THEN start
                 ELSE IF link[n - 1] = 0 THEN 0 ELSE t.props[Place(t, link[n - 1])].next]
  BY <1>5, Zenon
<1> HIDE DEF link
<1>7. /\ DOMAIN link = 0 .. N /\ link[0] = start
      /\ \A n \in 1 .. N : link[n] = IF link[n - 1] = 0 THEN 0 ELSE t.props[Place(t, link[n - 1])].next
  <2>1. 0 \in 0 .. N /\ \A n \in 1 .. N : n \in 0 .. N /\ n # 0
    OBVIOUS
  <2>2. DOMAIN link = 0 .. N
    BY <1>6, Zenon
  <2>3. link[0] = start
    BY <1>6, <2>1, Zenon
  <2>4. ASSUME NEW n \in 1 .. N
        PROVE  link[n] = IF link[n - 1] = 0 THEN 0 ELSE t.props[Place(t, link[n - 1])].next
    <3>1. n \in 0 .. N /\ n # 0
      BY <2>1
    <3> QED
      BY <1>6, <3>1, Zenon
  <2> QED
    BY <2>2, <2>3, <2>4
<1> QED
  BY <1>7, Zenon DEF link, start, After

\* What the first place of a bucket and the links of its places are.
LEMMA LinkedBucket ==
    ASSUME NEW a \in [Movable -> Nat], NEW t, Typed(t), Linked(a, t), NEW b \in 0 .. t.mask
    PROVE  /\ t.heads[b] = Latest(t.mask, InBucket(a, t, b))
           /\ \A i \in InBucket(a, t, b) : After(t, Offset(t.mask, i)) = Latest(t.mask, Before(InBucket(a, t, b), i))
<1>1. t.heads[b] = Latest(t.mask, InBucket(a, t, b))
  BY DEF Linked
<1>2. ASSUME NEW i \in InBucket(a, t, b)
      PROVE  After(t, Offset(t.mask, i)) = Latest(t.mask, Before(InBucket(a, t, b), i))
  <2>1. i \in Used(t) /\ Bucket(a, t.props[i].key, t.mask) = b
    BY <1>2 DEF InBucket
  <2>2. t.props[i].next = Latest(t.mask, Before(InBucket(a, t, b), i))
    BY <2>1 DEF Linked
  <2>3. i \in Nat \ {0}
    BY <2>1, InBuckets
  <2>4. Offset(t.mask, i) # 0 /\ Place(t, Offset(t.mask, i)) = i
    BY <2>3, InBuckets, PlaceOfOffset
  <2> QED
    BY <2>2, <2>4 DEF After
<1> QED
  BY <1>1, <1>2

\* The walk stays in the bucket, and gets to everything there.
LEMMA WalkStays ==
    ASSUME NEW a \in [Movable -> Nat], NEW t, Typed(t), Linked(a, t), NEW k \in Keys
    PROVE  \A n \in 0 .. Len(t.props) :
             \/ Chain(a, t, k)[n] = 0
             \/ \E i \in InBucket(a, t, Bucket(a, k, t.mask)) : Chain(a, t, k)[n] = Offset(t.mask, i)
<1> DEFINE N == Len(t.props)
           link == Chain(a, t, k)
           b == Bucket(a, k, t.mask)
           S == InBucket(a, t, b)
           Good(n) == link[n] = 0 \/ \E i \in S : link[n] = Offset(t.mask, i)
           strays == {n \in 0 .. N : ~Good(n)}
<1>1. N \in Nat /\ t.mask \in Nat /\ S \in SUBSET (1 .. N) /\ b \in 0 .. t.mask
  BY InBuckets, BucketInTable
<1>2. link[0] = t.heads[b] /\ \A n \in 1 .. N : link[n] = After(t, link[n - 1])
  BY <1>1, ChainIsDefined
<1> HIDE DEF b
<1>3. t.heads[b] = Latest(t.mask, S)
  BY <1>1, LinkedBucket
<1>4. \A i \in S : After(t, Offset(t.mask, i)) = Latest(t.mask, Before(S, i))
  BY <1>1, LinkedBucket
<1> HIDE DEF link, S, N
<1>5. ASSUME NEW T \in SUBSET S PROVE Latest(t.mask, T) = 0 \/ \E i \in S : Latest(t.mask, T) = Offset(t.mask, i)
  <2>1. T \in SUBSET (1 .. N)
    BY <1>1
  <2> QED
    BY <1>1, <2>1, LatestIs
<1>6. Good(0)
  BY <1>2, <1>3, <1>5
<1>7. ASSUME NEW n \in 1 .. N, Good(n - 1) PROVE Good(n)
  <2>1. CASE link[n - 1] = 0
    BY <1>2, <2>1 DEF After
  <2>2. ASSUME NEW i \in S, link[n - 1] = Offset(t.mask, i) PROVE Good(n)
    <3>1. link[n] = Latest(t.mask, Before(S, i))
      BY <1>2, <1>4, <2>2
    <3> QED
      BY <1>5, <3>1 DEF Before
  <2> QED
    BY <1>7, <2>1, <2>2
<1>8. strays = {}
  <2> SUFFICES ASSUME strays # {} PROVE FALSE
    OBVIOUS
  <2>1. strays \in SUBSET Nat
    BY <1>1
  <2>2. \A n \in 0 .. N : n \in strays <=> ~Good(n)
    OBVIOUS
  <2>3. strays \in SUBSET (0 .. N)
    OBVIOUS
  <2> HIDE DEF strays, Good
  <2>4. PICK m \in strays : \A j \in strays : m <= j
    BY <2>1, LeastIsIn
  <2>5. m # 0 /\ m \in 1 .. N /\ m - 1 \in 0 .. N
    BY <1>1, <1>6, <2>2, <2>3, <2>4
  <2>6. m - 1 \notin strays
    BY <2>1, <2>4, <2>5
  <2> QED
    BY <1>7, <2>2, <2>3, <2>4, <2>5, <2>6
<1> QED
  BY <1>8 DEF N, S, link, b

LEMMA WalkReaches ==
    ASSUME NEW a \in [Movable -> Nat], NEW t, Typed(t), Linked(a, t), NEW k \in Keys
    PROVE  \A i \in InBucket(a, t, Bucket(a, k, t.mask)) :
             \E n \in 0 .. Len(t.props) : Chain(a, t, k)[n] = Offset(t.mask, i)
<1> DEFINE N == Len(t.props)
           link == Chain(a, t, k)
           b == Bucket(a, k, t.mask)
           S == InBucket(a, t, b)
           Early(i) == \E n \in 0 .. N - i : link[n] = Offset(t.mask, i)
           missed == {i \in S : ~Early(i)}
<1>1. N \in Nat /\ t.mask \in Nat /\ S \in SUBSET (1 .. N) /\ b \in 0 .. t.mask
  BY InBuckets, BucketInTable
<1>2. link[0] = t.heads[b] /\ \A n \in 1 .. N : link[n] = After(t, link[n - 1])
  BY <1>1, ChainIsDefined
<1> HIDE DEF b
<1>3. t.heads[b] = Latest(t.mask, S)
  BY <1>1, LinkedBucket
<1>4. \A i \in S : After(t, Offset(t.mask, i)) = Latest(t.mask, Before(S, i))
  BY <1>1, LinkedBucket
<1> HIDE DEF link, S, N
\* The last place is where the bucket starts; any other, the one behind it links to.
<1>5. ASSUME NEW i \in S, \A j \in S : j <= i PROVE Early(i)
  <2>1. link[0] = Offset(t.mask, i)
    BY <1>1, <1>2, <1>3, <1>5, LatestIs
  <2>2. 0 \in 0 .. N - i
    BY <1>1
  <2> QED
    BY <2>1, <2>2
<1>6. ASSUME NEW i \in S, NEW m \in S, i < m, \A j \in S : i < j => m <= j, Early(m) PROVE Early(i)
  <2>1. PICK n \in 0 .. N - m : link[n] = Offset(t.mask, m)
    BY <1>6
  <2>2. i \in 1 .. N /\ m \in 1 .. N
    BY <1>1
  <2>3. n + 1 \in 1 .. N /\ n + 1 \in 0 .. N - i /\ (n + 1) - 1 = n
    BY <1>1, <1>6, <2>2
  <2>4. link[n + 1] = Latest(t.mask, Before(S, m))
    BY <1>2, <1>4, <2>1, <2>3
  <2> DEFINE T == Before(S, m)
  <2>5. T \in SUBSET (1 .. N) /\ i \in T
    BY <1>1, <1>6 DEF Before
  <2>6. \A j \in T : j <= i
    BY <1>1, <1>6 DEF Before
  <2> HIDE DEF T
  <2>7. Latest(t.mask, T) = Offset(t.mask, i)
    BY <1>1, <2>5, <2>6, LatestIs
  <2> QED
    BY <2>3, <2>4, <2>7 DEF T
<1>7. missed = {}
  <2> SUFFICES ASSUME missed # {} PROVE FALSE
    OBVIOUS
  <2>2. \A i \in S : i \in missed <=> ~Early(i)
    OBVIOUS
  <2> HIDE DEF Early
  <2>0. missed \in SUBSET S
    OBVIOUS
  <2> HIDE DEF missed
  <2>1. missed \in SUBSET (0 .. N) /\ missed \in SUBSET S
    BY <1>1, <2>0
  <2>3. PICK i \in missed : \A j \in missed : j <= i
    BY <1>1, <2>1, GreatestIsIn
  <2> DEFINE behind == {j \in S : i < j}
  <2>4. behind \in SUBSET Nat
    <3>1. S \in SUBSET Nat
      BY <1>1
    <3> QED
      BY <3>1
  <2>9. behind # {}
    <3>1. i \in S /\ ~Early(i)
      BY <2>1, <2>2, <2>3
    <3>2. PICK j \in S : ~(j <= i)
      BY <1>5, <3>1
    <3>3. j \in behind
      BY <1>1, <3>1, <3>2
    <3> QED
      BY <3>3
  <2>5. PICK m \in behind : \A j \in behind : m <= j
    BY <2>4, <2>9, LeastIsIn
  <2>6. m \in S /\ i < m /\ m \notin missed
    BY <1>1, <2>1, <2>3, <2>5
  <2> QED
    BY <1>6, <2>1, <2>2, <2>3, <2>5, <2>6
<1>8. \A i \in S : \E n \in 0 .. N : link[n] = Offset(t.mask, i)
  <2> TAKE i \in S
  <2>1. PICK n \in 0 .. N - i : link[n] = Offset(t.mask, i)
    BY <1>7
  <2>2. n \in 0 .. N
    BY <1>1
  <2> QED
    BY <2>1, <2>2
<1> QED
  BY <1>8 DEF N, S, link, b

\* find_own_property finds what is in use, and nothing else.
LEMMA FindsByHash ==
    ASSUME NEW a \in [Movable -> Nat], NEW t, Typed(t), Linked(a, t), NEW k \in Keys
    PROVE  IF \E i \in Used(t) : t.props[i].key = k
           THEN Find(a, t, k) \in Used(t) /\ t.props[Find(a, t, k)].key = k
           ELSE Find(a, t, k) = 0
<1> DEFINE N == Len(t.props)
           link == Chain(a, t, k)
           S == InBucket(a, t, Bucket(a, k, t.mask))
           found == {n \in 0 .. N : link[n] # 0 /\ t.props[Place(t, link[n])].key = k}
<1>1. N \in Nat /\ t.mask \in Nat /\ S \in SUBSET (1 .. N) /\ S \in SUBSET Used(t)
  BY InBuckets DEF InBucket
<1>2. \A n \in 0 .. N : link[n] = 0 \/ \E i \in S : link[n] = Offset(t.mask, i)
  BY WalkStays
<1>3. \A i \in S : Offset(t.mask, i) # 0 /\ Place(t, Offset(t.mask, i)) = i
  <2> TAKE i \in S
  <2>1. i \in Nat \ {0}
    BY <1>1
  <2> QED
    BY <1>1, <2>1, PlaceOfOffset
<1>4. ASSUME NEW n \in found PROVE Place(t, link[n]) \in Used(t) /\ t.props[Place(t, link[n])].key = k
  BY <1>1, <1>2, <1>3, <1>4
<1>5. ASSUME NEW i \in Used(t), t.props[i].key = k PROVE found # {}
  <2>1. i \in S
    BY <1>5 DEF InBucket
  <2>2. PICK n \in 0 .. N : link[n] = Offset(t.mask, i)
    BY <2>1, WalkReaches
  <2> QED
    BY <1>3, <1>5, <2>1, <2>2
<1>6. found \in SUBSET Nat
  BY <1>1
<1>7. Find(a, t, k) = IF found = {} THEN 0 ELSE Place(t, link[Least(found)])
  BY DEF Find
<1> HIDE DEF found, link
<1>8. found # {} => Least(found) \in found
  BY <1>6, LeastIsIn
<1> QED
  BY <1>4, <1>5, <1>7, <1>8

-----------------------------------------------------------------------------
(* Tables that are alike.                                                  *)

LEMMA Fields ==
    ASSUME NEW t, Typed(t)
    PROVE  /\ t = [rom |-> t.rom, count |-> t.count, mask |-> t.mask, heads |-> t.heads, props |-> t.props]
           /\ t.rom \in BOOLEAN /\ t.count \in Nat /\ t.mask \in Nat
           /\ t.heads \in [0 .. t.mask -> Nat] /\ t.props \in Seq(Property)
           /\ Len(t.props) \in Nat /\ DOMAIN t.props = 1 .. Len(t.props)
           /\ \A i \in 1 .. Len(t.props) : t.props[i] \in Property
<1>1. /\ t = [rom |-> t.rom, count |-> t.count, mask |-> t.mask, heads |-> t.heads, props |-> t.props]
      /\ t.rom \in BOOLEAN /\ t.count \in Nat /\ t.mask \in Nat
      /\ t.heads \in [0 .. t.mask -> Nat] /\ t.props \in Seq(Property)
  BY DEF Typed
<1> HIDE DEF Property
<1>2. Len(t.props) \in Nat /\ DOMAIN t.props = 1 .. Len(t.props) /\ \A i \in 1 .. Len(t.props) : t.props[i] \in Property
  BY <1>1
<1> QED
  BY <1>1, <1>2

LEMMA IsTyped ==
    ASSUME NEW rom \in BOOLEAN, NEW count \in Nat, NEW mask \in Nat, NEW heads \in [0 .. mask -> Nat],
           NEW props \in Seq(Property)
    PROVE  Typed([rom |-> rom, count |-> count, mask |-> mask, heads |-> heads, props |-> props])
<1> HIDE DEF Property
<1> QED
  BY DEF Typed

LEMMA LastFreeIs ==
    ASSUME NEW t, Typed(t)
    PROVE  LastFree(t) <=> Len(t.props) > 0 /\ t.props[Len(t.props)].key = Uninitialized
<1>1. t.props \in Seq(Property)
  BY Fields
<1>2. t.props # <<>> <=> Len(t.props) > 0
  BY <1>1
<1> QED
  BY <1>2 DEF LastFree, Last

\* The same keys, in the same places.
Alike(t, u) ==
    /\ DOMAIN u.props = DOMAIN t.props /\ Len(u.props) = Len(t.props)
    /\ \A i \in DOMAIN t.props : u.props[i].key = t.props[i].key

LEMMA AlikeUsed ==
    ASSUME NEW t, NEW u, Alike(t, u)
    PROVE  /\ Used(u) = Used(t) /\ Taken(u) = Taken(t)
           /\ \A a, b : u.mask = t.mask => InBucket(a, u, b) = InBucket(a, t, b)
<1>1. Used(u) = Used(t) /\ Taken(u) = Taken(t)
  BY DEF Alike, Used, Taken
<1>2. \A i \in Used(t) : u.props[i].key = t.props[i].key
  BY DEF Alike, Used
<1> QED
  BY <1>1, <1>2 DEF InBucket

\* Links that are the same are still right.
LEMMA AlikeLinked ==
    ASSUME NEW a, NEW t, NEW u, Alike(t, u), Linked(a, t), u.mask = t.mask, u.heads = t.heads,
           \A i \in Used(t) : u.props[i].next = t.props[i].next
    PROVE  Linked(a, u)
<1>1. Used(u) = Used(t) /\ \A b : InBucket(a, u, b) = InBucket(a, t, b)
  BY AlikeUsed
<1>2. \A i \in Used(t) : u.props[i].key = t.props[i].key
  BY DEF Alike, Used
<1> QED
  BY <1>1, <1>2 DEF Linked

\* A table is as sound with other links: the first free place is kept in a place that
\* is not in use.
LEMMA AlikeSound ==
    ASSUME NEW t, NEW u, Sound(t), Typed(u), Alike(t, u), u.mask = t.mask, u.count = t.count,
           u.rom => t.rom,
           \A i \in DOMAIN t.props \ Used(t) : u.props[i].next = t.props[i].next
    PROVE  Sound(u)
<1>1. Used(u) = Used(t) /\ \A i \in Used(t) : u.props[i].key = t.props[i].key
  BY AlikeUsed DEF Alike, Used
<1>2. Typed(t) /\ DOMAIN t.props = 1 .. Len(t.props) /\ Len(t.props) \in Nat
  BY Fields DEF Sound
<1>3. LastFree(u) <=> LastFree(t)
  BY <1>2, LastFreeIs DEF Alike
<1>4. FirstFree(u) = FirstFree(t)
  <2>1. Words(u) = Words(t)
    BY DEF Words, Base, Alike
  <2>2. ASSUME LastFree(t) PROVE u.props[Len(u.props)].next = t.props[Len(t.props)].next
    <3>1. Len(t.props) \in DOMAIN t.props /\ t.props[Len(t.props)].key = Uninitialized
      BY <1>2, <2>2, LastFreeIs
    <3>2. Len(t.props) \notin Used(t)
      BY <3>1, PropsAssumption DEF Used, Uninitialized
    <3> QED
      BY <3>1, <3>2 DEF Alike
  <2> QED
    BY <1>3, <2>1, <2>2 DEF FirstFree, Last
<1>5. FreeKnown(u)
  BY <1>3, <1>4 DEF Sound, FreeKnown, Alike
<1>6. Distinct(u) /\ Counted(u) /\ RomIsFixed(u)
  BY <1>1 DEF Sound, Distinct, Counted, RomIsFixed
<1> QED
  BY <1>5, <1>6 DEF Sound

-----------------------------------------------------------------------------
(* Counting the places.                                                    *)

LEMMA Interval ==
    ASSUME NEW n \in Nat
    PROVE  IsFiniteSet(1 .. n) /\ Cardinality(1 .. n) = n
<1>1. Cardinality(1 .. n) = IF 1 > n THEN 0 ELSE n - 1 + 1
  BY FS_Interval
<1>2. IsFiniteSet(1 .. n)
  BY FS_Interval
<1> QED
  BY <1>1, <1>2

LEMMA Counting ==
    ASSUME NEW n \in Nat, NEW S \in SUBSET (1 .. n), NEW T \in SUBSET S
    PROVE  /\ IsFiniteSet(T) /\ Cardinality(T) \in Nat /\ Cardinality(T) <= Cardinality(S)
           /\ Cardinality(S) \in Nat /\ (Cardinality(T) = Cardinality(S) => T = S)
<1>0. IsFiniteSet(1 .. n)
  BY FS_Interval
<1>1. IsFiniteSet(S)
  BY <1>0, FS_Subset
<1> QED
  BY <1>1, FS_Subset, FS_CardinalityType

\* Every n up to its size has an n-th number in a finite set.
LEMMA NthIs ==
    ASSUME NEW n \in Nat, NEW S \in SUBSET (1 .. n), NEW k \in 1 .. Cardinality(S)
    PROVE  Nth(S, k) \in S /\ Cardinality(UpTo(S, Nth(S, k))) = k
<1> DEFINE size(i) == Cardinality(UpTo(S, i))
           enough == {i \in 0 .. n : size(i) >= k}
<1>1. \A i \in 0 .. n : IsFiniteSet(UpTo(S, i)) /\ size(i) \in Nat
  <2> TAKE i \in 0 .. n
  <2>1. UpTo(S, i) \in SUBSET S
    BY DEF UpTo
  <2> QED
    BY <2>1, Counting
<1>2. size(0) = 0 /\ size(n) = Cardinality(S)
  <2>1. \A j \in S : ~(j <= 0) /\ j <= n
    OBVIOUS
  <2>2. UpTo(S, 0) = {} /\ UpTo(S, n) = S
    BY <2>1 DEF UpTo
  <2> QED
    BY <2>2, FS_EmptySet
<1>3. ASSUME NEW i \in 1 .. n PROVE size(i) = IF i \in S THEN size(i - 1) + 1 ELSE size(i - 1)
  <2>1. i - 1 \in 0 .. n /\ i \notin UpTo(S, i - 1)
    BY DEF UpTo
  <2>2. \A j \in S : j <= i <=> j <= i - 1 \/ j = i
    OBVIOUS
  <2>3. CASE i \in S
    <3>1. UpTo(S, i) = UpTo(S, i - 1) \cup {i}
      BY <2>2, <2>3, Zenon DEF UpTo
    <3> QED
      BY <1>1, <2>1, <2>3, <3>1, FS_AddElement
  <2>4. CASE i \notin S
    <3>1. UpTo(S, i) = UpTo(S, i - 1)
      BY <2>2, <2>4, Zenon DEF UpTo
    <3> QED
      BY <2>4, <3>1
  <2> QED
    BY <2>3, <2>4
<1>4. Cardinality(S) \in Nat
  BY Counting
<1> HIDE DEF size
<1>5. n \in enough /\ enough \in SUBSET Nat
  BY <1>2, <1>4
<1>6. PICK i \in enough : \A j \in enough : i <= j
  BY <1>5, LeastIsIn
<1>7. i \in 1 .. n /\ i - 1 \in 0 .. n /\ i - 1 \notin enough
  BY <1>2, <1>6
<1>8. i \in S /\ size(i) = k
  BY <1>1, <1>3, <1>6, <1>7
<1> QED
  BY <1>8 DEF Nth, size

\* It is the one with n numbers up to it.
LEMMA NthOf ==
    ASSUME NEW n \in Nat, NEW S \in SUBSET (1 .. n), NEW i \in S
    PROVE  /\ Cardinality(UpTo(S, i)) \in 1 .. Cardinality(S) /\ Nth(S, Cardinality(UpTo(S, i))) = i
           /\ \A j \in S : i < j => Cardinality(UpTo(S, i)) < Cardinality(UpTo(S, j))
<1> DEFINE size(j) == Cardinality(UpTo(S, j))
<1>1. Cardinality(S) \in Nat /\ \A j \in S : /\ IsFiniteSet(UpTo(S, j)) /\ size(j) \in Nat
                                             /\ size(j) <= Cardinality(S)
  <2>1. ASSUME NEW j \in S PROVE UpTo(S, j) \in SUBSET S
    BY DEF UpTo
  <2> QED
    BY <2>1, Counting
<1>2. ASSUME NEW j \in S, NEW l \in S, j < l PROVE size(j) < size(l)
  <2>1. UpTo(S, j) \in SUBSET UpTo(S, l) /\ UpTo(S, l) \in SUBSET (1 .. n)
    <3>1. \A g \in S : g <= j => g <= l
      BY <1>2
    <3> QED
      BY <3>1, Zenon DEF UpTo
  <2>2. l \in UpTo(S, l) /\ l \notin UpTo(S, j)
    BY <1>2 DEF UpTo
  <2>3. UpTo(S, j) # UpTo(S, l)
    BY <2>2
  <2>4. size(j) <= size(l) /\ size(j) # size(l)
    BY <2>1, <2>3, Counting
  <2> QED
    BY <1>1, <2>4
<1>3. size(i) # 0
  <2>1. i \in UpTo(S, i)
    BY DEF UpTo
  <2> QED
    BY <1>1, <2>1, FS_EmptySet
<1>4. ASSUME NEW j \in S, size(j) = size(i) PROVE j = i
  <2>1. ~(j < i) /\ ~(i < j)
    BY <1>1, <1>2, <1>4
  <2> QED
    BY <2>1
<1> HIDE DEF size
<1>5. size(i) \in 1 .. Cardinality(S)
  BY <1>1, <1>3
<1>6. Nth(S, size(i)) = i
  BY <1>4 DEF Nth, size
<1> QED
  BY <1>2, <1>5, <1>6 DEF size

LEMMA NthInOrder ==
    ASSUME NEW n \in Nat, NEW S \in SUBSET (1 .. n), NEW k \in 1 .. Cardinality(S), NEW i \in S,
           Cardinality(UpTo(S, i)) = k
    PROVE  Nth(S, k) = i
BY NthOf

\* What is in use comes before what was not cleared.
Packed(t) == \A i \in Used(t), j \in DOMAIN t.props : t.props[j].key = Undefined => i < j

\* As many as are counted are the places in use.
LEMMA FirstTaken ==
    ASSUME NEW t, Typed(t), Counted(t), Packed(t)
    PROVE  Rehashed(t) = Used(t) /\ Used(t) \in SUBSET Taken(t)
<1> DEFINE N == Len(t.props)
<1>1. N \in Nat /\ DOMAIN t.props = 1 .. N /\ \A i \in 1 .. N : t.props[i].key \in Keys \cup {Undefined, Uninitialized}
  <2>1. \A x \in Property : x.key \in Keys \cup {Undefined, Uninitialized}
    BY DEF Property
  <2> QED
    BY <2>1, Fields
<1>2. Used(t) \in SUBSET Taken(t) /\ Taken(t) \in SUBSET (1 .. N)
  BY <1>1, PropsAssumption DEF Used, Taken, Uninitialized
<1>3. ASSUME NEW i \in Used(t) PROVE i \in Rehashed(t)
  <2>1. UpTo(Taken(t), i) \in SUBSET Used(t)
    <3>1. ASSUME NEW j \in Taken(t), j <= i PROVE j \in Used(t)
      <4>1. t.props[j].key # Undefined
        BY <1>1, <1>2, <3>1 DEF Packed
      <4> QED
        BY <1>1, <1>2, <4>1 DEF Taken, Used
    <3> QED
      BY <3>1 DEF UpTo
  <2>2. Cardinality(UpTo(Taken(t), i)) <= Cardinality(Used(t))
    BY <1>1, <1>2, <2>1, Counting
  <2> QED
    BY <1>2, <2>2 DEF Rehashed, Counted
<1>4. ASSUME NEW i \in Rehashed(t), i \notin Used(t) PROVE FALSE
  <2>1. i \in Taken(t) /\ Cardinality(UpTo(Taken(t), i)) <= Cardinality(Used(t))
    BY <1>4 DEF Rehashed, Counted
  <2>2. i \in 1 .. N /\ t.props[i].key = Undefined
    BY <1>1, <1>2, <1>4, <2>1 DEF Taken, Used
  <2>3. \A j \in Used(t) : j < i
    BY <1>1, <2>2 DEF Packed
  <2> DEFINE S == UpTo(Taken(t), i)
  <2>4. Used(t) \in SUBSET S /\ i \in S /\ S \in SUBSET (1 .. N)
    BY <1>1, <1>2, <2>1, <2>3 DEF UpTo
  <2>5. Cardinality(S) <= Cardinality(Used(t))
    BY <2>1
  <2> HIDE DEF S
  <2>9. /\ Cardinality(Used(t)) \in Nat /\ Cardinality(S) \in Nat
        /\ Cardinality(Used(t)) <= Cardinality(S)
    BY <1>1, <2>4, Counting, Zenon
  <2>7. Cardinality(Used(t)) = Cardinality(S)
    BY <2>5, <2>9
  <2>8. IsFiniteSet(S)
    BY <1>1, <2>4, Counting
  <2>6. S = Used(t)
    BY <2>4, <2>7, <2>8, FS_Subset, Zenon
  <2> QED
    BY <1>4, <2>4, <2>6
<1>5. Rehashed(t) \in SUBSET Taken(t)
  BY DEF Rehashed
<1> QED
  BY <1>2, <1>3, <1>4

LEMMA SoundIsPacked ==
    ASSUME NEW t, Sound(t)
    PROVE  Packed(t)
<1>1. DOMAIN t.props = 1 .. Len(t.props) /\ Len(t.props) \in Nat
  BY Fields DEF Sound
<1>2. PICK f \in 1 .. Len(t.props) + 1 :
        /\ FirstFree(t) = Offset(t.mask, f)
        /\ LastFree(t) => f <= Len(t.props)
        /\ \A i \in DOMAIN t.props : /\ t.props[i].key \in Keys => i < f
                                     /\ t.props[i].key = Undefined => f <= i
  <2>1. FreeKnown(t)
    BY DEF Sound
  <2> QED
    BY <2>1 DEF FreeKnown
<1> QED
  BY <1>1, <1>2 DEF Packed, Used

-----------------------------------------------------------------------------
(* The list of properties.                                                 *)

\* The list depends on the places in use and what is in them.
LEMMA SameEntries ==
    ASSUME NEW t, NEW n \in Nat, Used(t) \in SUBSET (1 .. n), NEW u, Used(u) = Used(t),
           \A i \in Used(t) : Entry(u.props[i]) = Entry(t.props[i])
    PROVE  Entries(u) = Entries(t)
<1> DEFINE S == Used(t)
<1>1. \A k \in 1 .. Cardinality(S) : Nth(S, k) \in S
  BY NthIs
<1> QED
  BY <1>1 DEF Entries

LEMMA EntriesKept ==
    ASSUME NEW t, Typed(t), NEW u, Alike(t, u), \A i \in Used(t) : Entry(u.props[i]) = Entry(t.props[i])
    PROVE  Entries(u) = Entries(t)
<1>1. Len(t.props) \in Nat /\ Used(t) \in SUBSET (1 .. Len(t.props))
  BY Fields DEF Used
<1>2. Used(u) = Used(t)
  BY AlikeUsed
<1> QED
  BY <1>1, <1>2, SameEntries

\* The same in some places.
Kept(t, u, places) == \A i \in places : Entry(u.props[i]) = Entry(t.props[i])

\* Places up to another.
LEMMA UpToOthers ==
    ASSUME NEW n \in Nat, NEW S \in SUBSET (1 .. n), NEW i \in S, NEW j \in S \ {i}
    PROVE  UpTo(S \ {i}, j) = IF j < i THEN UpTo(S, j) ELSE UpTo(S, j) \ {i}
<1>1. j < i \/ i <= j
  OBVIOUS
<1>2. CASE j < i
  <2>1. \A g \in S : g <= j => g # i
    BY <1>2
  <2> QED
    BY <1>2, <2>1, Zenon DEF UpTo
<1>3. CASE ~(j < i)
  BY <1>3, Zenon DEF UpTo
<1> QED
  BY <1>2, <1>3

\* Without one of its numbers, the later ones of a set come one earlier.
LEMMA NthWithout ==
    ASSUME NEW n \in Nat, NEW S \in SUBSET (1 .. n), NEW i \in S, NEW k \in 1 .. Cardinality(S) - 1
    PROVE  /\ Cardinality(S \ {i}) = Cardinality(S) - 1
           /\ Nth(S \ {i}, k) = IF k < Cardinality(UpTo(S, i)) THEN Nth(S, k) ELSE Nth(S, k + 1)
<1> DEFINE R == S \ {i}
           rank == Cardinality(UpTo(S, i))
           at == IF k < rank THEN k ELSE k + 1
           j == Nth(S, at)
<1>1. IsFiniteSet(S) /\ Cardinality(S) \in Nat
  BY Counting
<1>2. Cardinality(R) = Cardinality(S) - 1 /\ R \in SUBSET (1 .. n)
  BY <1>1, FS_RemoveElement
<1>3. rank \in 1 .. Cardinality(S) /\ Nth(S, rank) = i
  BY NthOf
<1> HIDE DEF rank
<1>4. at \in 1 .. Cardinality(S) /\ at # rank
  BY <1>1, <1>3
<1>5. j \in S /\ Cardinality(UpTo(S, j)) = at
  <2> HIDE DEF at
  <2> QED
    BY <1>4, NthIs
<1> HIDE DEF j
<1>6. j # i /\ j \in R
  BY <1>4, <1>5 DEF rank
<1>7. UpTo(R, j) = IF j < i THEN UpTo(S, j) ELSE UpTo(S, j) \ {i}
  BY <1>6, UpToOthers
<1>8. Cardinality(UpTo(R, j)) = k
  <2>1. \A l \in S : l < i => Cardinality(UpTo(S, l)) < rank
    BY NthOf DEF rank
  <2>2. \A l \in S : i < l => rank < Cardinality(UpTo(S, l))
    BY NthOf DEF rank
  <2>3. CASE j < i
    BY <1>1, <1>3, <1>4, <1>5, <1>7, <2>1, <2>3
  <2>4. CASE ~(j < i)
    <3>1. i < j
      BY <1>5, <1>6, <2>4
    <3>2. rank < at /\ at = k + 1
      BY <1>1, <1>3, <1>4, <1>5, <2>2, <3>1
    <3>3. UpTo(S, j) \in SUBSET S /\ i \in UpTo(S, j)
      <4>1. i <= j
        BY <1>5, <3>1
      <4> QED
        BY <4>1, Zenon DEF UpTo
    <3>4. IsFiniteSet(UpTo(S, j))
      BY <3>3, Counting
    <3>5. Cardinality(UpTo(S, j) \ {i}) = Cardinality(UpTo(S, j)) - 1
      BY <3>3, <3>4, FS_RemoveElement
    <3> QED
      BY <1>5, <1>7, <2>4, <3>2, <3>5
  <2> QED
    BY <2>3, <2>4
<1>9. Nth(R, k) = j
  BY <1>2, <1>6, <1>8, NthInOrder
<1> QED
  BY <1>2, <1>9 DEF j, rank

\* A property behind all others is added at the end.
LEMMA EntriesAppended ==
    ASSUME NEW t, Typed(t), NEW u, NEW i \in 1 .. Len(t.props), i \notin Used(t),
           Used(u) = Used(t) \cup {i}, \A j \in Used(t) : j < i,
           Kept(t, u, Used(t))
    PROVE  Entries(u) = Append(Entries(t), Entry(u.props[i]))
<1> DEFINE n == Len(t.props)
           S == Used(t)
           R == S \cup {i}
           c == Cardinality(S)
<1>1. R \in SUBSET (1 .. n) /\ R \ {i} = S /\ i \in R /\ n \in Nat /\ S \in SUBSET (1 .. n)
  BY Fields DEF Used
<1> HIDE DEF n
<1>2. IsFiniteSet(S) /\ c \in Nat
  BY <1>1, Counting
<1>3. Cardinality(R) = c + 1
  BY <1>2, FS_AddElement
<1>4. UpTo(R, i) = R
  <2>1. \A j \in S : j < i => j <= i
    BY <1>1
  <2>2. i <= i
    BY <1>1
  <2> QED
    BY <2>1, <2>2, Zenon DEF UpTo
<1> HIDE DEF R
<1>5. Nth(R, c + 1) = i
  <2>1. Nth(R, Cardinality(UpTo(R, i))) = i
    BY <1>1, NthOf
  <2> QED
    BY <1>3, <1>4, <2>1
<1>6. ASSUME NEW k \in 1 .. c PROVE Nth(R, k) = Nth(S, k) /\ Nth(S, k) \in S
  <2>1. k \in 1 .. Cardinality(R) - 1 /\ k < Cardinality(UpTo(R, i))
    BY <1>2, <1>3, <1>4
  <2> QED
    BY <1>1, <2>1, NthWithout, NthIs
<1>7. Entries(u) = [k \in 1 .. c + 1 |-> Entry(u.props[Nth(R, k)])]
  BY <1>3 DEF Entries, R
<1>8. Entries(t) = [k \in 1 .. c |-> Entry(t.props[Nth(S, k)])]
  BY DEF Entries
<1>9. Append(Entries(t), Entry(u.props[i])) =
        [k \in 1 .. c + 1 |-> IF k = c + 1 THEN Entry(u.props[i]) ELSE Entry(t.props[Nth(S, k)])]
  <2> DEFINE e == Entry(u.props[i])
             val(k) == Entry(t.props[Nth(S, k)])
  <2> HIDE DEF e, val, S
  <2>1. \A m \in Nat : \A x : Append([k \in 1 .. m |-> val(k)], x) = [k \in 1 .. m + 1 |-> IF k = m + 1 THEN x ELSE val(k)]
    OBVIOUS
  <2> QED
    BY <1>2, <1>8, <2>1 DEF e, val
<1>10. \A k \in 1 .. c + 1 : Entry(u.props[Nth(R, k)]) =
                               IF k = c + 1 THEN Entry(u.props[i]) ELSE Entry(t.props[Nth(S, k)])
  <2> TAKE k \in 1 .. c + 1
  <2>1. k = c + 1 \/ k \in 1 .. c
    BY <1>2
  <2>2. CASE k = c + 1
    BY <1>5, <2>2
  <2>3. CASE k # c + 1
    BY <1>6, <2>1, <2>3 DEF Kept
  <2> QED
    BY <2>2, <2>3
<1> HIDE DEF S, c
<1> QED
  BY <1>7, <1>9, <1>10, Zenon

Stored(t, u, i, v) ==
    \E k \in DOMAIN Entries(t) : /\ Entries(t)[k] = Entry(t.props[i])
                                 /\ Entries(u) = [Entries(t) EXCEPT ![k].value = v]

\* A new value of the property at a place in use.
LEMMA EntriesStored ==
    ASSUME NEW t, Typed(t), NEW u, Used(u) = Used(t), NEW i \in Used(t), NEW v,
           Kept(t, u, Used(t) \ {i}),
           Entry(u.props[i]) = [Entry(t.props[i]) EXCEPT !.value = v]
    PROVE  Stored(t, u, i, v)
<1> DEFINE S == Used(t)
           k == Cardinality(UpTo(S, i))
           val(j) == Entry(t.props[Nth(S, j)])
           new(j) == Entry(u.props[Nth(S, j)])
<1>0. Len(t.props) \in Nat /\ S \in SUBSET (1 .. Len(t.props))
  BY Fields DEF Used
<1>1. k \in 1 .. Cardinality(S) /\ Nth(S, k) = i
  BY <1>0, NthOf
<1>2. Entries(t) = [j \in 1 .. Cardinality(S) |-> val(j)] /\ Entries(u) = [j \in 1 .. Cardinality(S) |-> new(j)]
  BY DEF Entries
<1>3. ASSUME NEW j \in 1 .. Cardinality(S) PROVE Nth(S, j) \in S /\ (Nth(S, j) = i => j = k)
  BY <1>0, NthIs
<1>4. \A j \in 1 .. Cardinality(S) : new(j) = IF j = k THEN [val(j) EXCEPT !.value = v] ELSE val(j)
  BY <1>1, <1>3 DEF Kept
<1>5. val(k) = Entry(t.props[i])
  BY <1>1
<1> HIDE DEF S, k, val, new
<1>6. Entries(u) = [Entries(t) EXCEPT ![k].value = v]
  <2> DEFINE f == [j \in 1 .. Cardinality(S) |-> val(j)]
             e == [f[k] EXCEPT !.value = v]
  <2>1. [f EXCEPT ![k].value = v] = [f EXCEPT ![k] = e]
    OBVIOUS
  <2>2. e = [val(k) EXCEPT !.value = v]
    BY <1>1
  <2> HIDE DEF e
  <2>3. [f EXCEPT ![k] = e] = [j \in 1 .. Cardinality(S) |-> IF j = k THEN e ELSE val(j)]
    BY <1>1
  <2>4. Entries(u) = [j \in 1 .. Cardinality(S) |-> IF j = k THEN e ELSE val(j)]
    BY <1>2, <1>4, <2>2
  <2>5. Entries(t) = f
    BY <1>2
  <2> HIDE DEF f
  <2> QED
    BY <2>1, <2>3, <2>4, <2>5, Zenon
<1> QED
  BY <1>1, <1>2, <1>5, <1>6 DEF Stored

LEMMA RemoveAtIs ==
    ASSUME NEW X, NEW s \in Seq(X), NEW k \in 1 .. Len(s)
    PROVE  /\ RemoveAt(s, k) \in Seq(X) /\ Len(RemoveAt(s, k)) = Len(s) - 1
           /\ \A j \in 1 .. Len(s) - 1 : RemoveAt(s, k)[j] = IF j < k THEN s[j] ELSE s[j + 1]
<1> DEFINE n == Len(s)
           before == SubSeq(s, 1, k - 1)
           behind == SubSeq(s, k + 1, n)
<1>1. n \in Nat /\ k \in Nat /\ 1 <= k /\ k <= n
  OBVIOUS
<1>2. \A j \in 1 .. n : s[j] \in X
  OBVIOUS
<1>3. /\ before \in Seq(X) /\ Len(before) = k - 1
      /\ \A j \in 1 .. k - 1 : before[j] = s[j]
  <2>1. \A j \in 1 .. k - 1 : s[j] \in X
    BY <1>1, <1>2
  <2> QED
    BY <1>1, <2>1, SubSeqProperties
<1>4. /\ behind \in Seq(X) /\ Len(behind) = n - k
      /\ \A j \in 1 .. n - k : behind[j] = s[k + j]
  <2>1. \A j \in k + 1 .. n : s[j] \in X
    BY <1>1, <1>2
  <2> HIDE DEF n
  <2> QED
    BY <1>1, <2>1, SubSeqProperties
<1>5. RemoveAt(s, k) = before \o behind
  BY DEF RemoveAt
<1> HIDE DEF n, before, behind
<1>6. /\ before \o behind \in Seq(X) /\ Len(before \o behind) = n - 1
      /\ \A j \in 1 .. n - 1 : (before \o behind)[j] = IF j <= k - 1 THEN before[j] ELSE behind[j - (k - 1)]
  BY <1>1, <1>3, <1>4, ConcatProperties
<1>7. ASSUME NEW j \in 1 .. n - 1 PROVE RemoveAt(s, k)[j] = IF j < k THEN s[j] ELSE s[j + 1]
  <2>1. CASE j < k
    BY <1>1, <1>3, <1>5, <1>6, <2>1
  <2>2. CASE ~(j < k)
    <3>1. j - (k - 1) \in 1 .. n - k /\ k + (j - (k - 1)) = j + 1
      BY <1>1, <2>2
    <3> QED
      BY <1>1, <1>4, <1>5, <1>6, <2>2, <3>1
  <2> QED
    BY <2>1, <2>2
<1> QED
  BY <1>5, <1>6, <1>7 DEF n

Dropped(t, u, i) ==
    \E k \in DOMAIN Entries(t) : Entries(t)[k] = Entry(t.props[i]) /\ Entries(u) = RemoveAt(Entries(t), k)

\* A property is dropped; those behind it move up.
LEMMA EntriesDropped ==
    ASSUME NEW t, Typed(t), NEW u, NEW i \in Used(t), Used(u) = Used(t) \ {i},
           Kept(t, u, Used(u))
    PROVE  Dropped(t, u, i)
<1> DEFINE n == Len(t.props)
           S == Used(t)
           c == Cardinality(S)
           k == Cardinality(UpTo(S, i))
           val(j) == Entry(t.props[Nth(S, j)])
           R == S \ {i}
<1>0. n \in Nat /\ S \in SUBSET (1 .. n)
  BY Fields DEF Used
<1> HIDE DEF n
<1>1. k \in 1 .. c /\ Nth(S, k) = i /\ c \in Nat /\ k \in Nat
  <2>1. k \in 1 .. c /\ Nth(S, k) = i
    BY <1>0, NthOf
  <2>2. c \in Nat
    BY <1>0, Counting
  <2> HIDE DEF c, k
  <2> QED
    BY <2>1, <2>2
<1>2. Entries(t) = [j \in 1 .. c |-> val(j)]
  BY DEF Entries
<1>3. Cardinality(R) = c - 1
  BY <1>0, Counting, FS_RemoveElement
<1>4. ASSUME NEW j \in 1 .. c - 1
      PROVE  Nth(R, j) \in R /\ Nth(R, j) = IF j < k THEN Nth(S, j) ELSE Nth(S, j + 1)
  <2>1. Nth(R, j) = IF j < k THEN Nth(S, j) ELSE Nth(S, j + 1)
    BY <1>0, NthWithout
  <2>2. Nth(R, j) \in R
    <3>1. R \in SUBSET (1 .. n) /\ j \in 1 .. Cardinality(R)
      BY <1>0, <1>3
    <3> QED
      BY <1>0, <3>1, NthIs
  <2> QED
    BY <2>1, <2>2
<1>5. Entries(u) = [j \in 1 .. c - 1 |-> Entry(u.props[Nth(R, j)])]
  BY <1>3 DEF Entries
<1>6. \A j \in 1 .. c - 1 : Entry(u.props[Nth(R, j)]) = IF j < k THEN val(j) ELSE val(j + 1)
  BY <1>4 DEF Kept
<1>7. val(k) = Entry(t.props[i])
  BY <1>1
<1> HIDE DEF S, c, k, val, R
<1>8. Entries(u) = [j \in 1 .. c - 1 |-> IF j < k THEN val(j) ELSE val(j + 1)]
  BY <1>5, <1>6, Zenon
<1> DEFINE X == {val(j) : j \in 1 .. c}
           s == Entries(t)
<1>9. s \in Seq(X) /\ Len(s) = c
  BY <1>1, <1>2
<1>10. Entries(u) \in Seq(X) /\ Len(Entries(u)) = c - 1
  <2>1. \A j \in 1 .. c - 1 : j \in 1 .. c /\ j + 1 \in 1 .. c
    BY <1>1
  <2>2. \A j \in 1 .. c - 1 : (IF j < k THEN val(j) ELSE val(j + 1)) \in X
    BY <2>1
  <2> HIDE DEF X
  <2>3. c - 1 \in Nat
    BY <1>1
  <2> QED
    BY <1>8, <2>2, <2>3
<1> HIDE DEF X, s
<1>11. /\ RemoveAt(s, k) \in Seq(X) /\ Len(RemoveAt(s, k)) = c - 1
       /\ \A j \in 1 .. c - 1 : RemoveAt(s, k)[j] = IF j < k THEN s[j] ELSE s[j + 1]
  BY <1>1, <1>9, RemoveAtIs
<1>12. \A j \in 1 .. c - 1 : Entries(u)[j] = RemoveAt(s, k)[j]
  <2>1. \A j \in 1 .. c - 1 : j \in 1 .. c /\ j + 1 \in 1 .. c
    BY <1>1
  <2>2. \A j \in 1 .. c : s[j] = val(j)
    BY <1>2 DEF s
  <2> QED
    BY <1>8, <1>11, <2>1, <2>2
<1>13. Entries(u) = RemoveAt(s, k)
  BY <1>10, <1>11, <1>12, SeqEqual
<1> QED
  BY <1>1, <1>2, <1>7, <1>13 DEF s, Dropped

-----------------------------------------------------------------------------
(* js_rehash_props.                                                        *)

LEMMA RehashIs ==
    ASSUME NEW a \in [Movable -> Nat], NEW t, Typed(t), Counted(t), Packed(t)
    PROVE  /\ Typed(Rehash(a, t)) /\ Linked(a, Rehash(a, t)) /\ Alike(t, Rehash(a, t))
           /\ Rehash(a, t).rom = t.rom /\ Rehash(a, t).count = t.count /\ Rehash(a, t).mask = t.mask
           /\ \A i \in DOMAIN t.props \ Used(t) : Rehash(a, t).props[i] = t.props[i]
           /\ Entries(Rehash(a, t)) = Entries(t)
<1> DEFINE N == Len(t.props)
           bucket(i) == Bucket(a, t.props[i].key, t.mask)
           heads == [b \in 0 .. t.mask |-> Latest(t.mask, InBucket(a, t, b))]
           props == [i \in DOMAIN t.props |->
                       IF i \in Used(t)
                       THEN [t.props[i] EXCEPT !.next = Latest(t.mask, Before(InBucket(a, t, bucket(i)), i))]
                       ELSE t.props[i]]
           u == Rehash(a, t)
<1>1. /\ N \in Nat /\ t.mask \in Nat /\ DOMAIN t.props = 1 .. N
      /\ \A i \in 1 .. N : t.props[i] \in Property
      /\ t = [rom |-> t.rom, count |-> t.count, mask |-> t.mask, heads |-> t.heads, props |-> t.props]
  BY Fields
<1>2. Rehashed(t) = Used(t)
  BY FirstTaken
<1>3. \A b : {i \in Used(t) : bucket(i) = b} = InBucket(a, t, b)
  BY DEF InBucket
<1>4. u = [t EXCEPT !.heads = heads, !.props = props]
  BY <1>2, <1>3, Zenon DEF Rehash
<1> HIDE DEF bucket
<1>5. u = [rom |-> t.rom, count |-> t.count, mask |-> t.mask, heads |-> heads, props |-> props]
  <2> HIDE DEF heads, props, u
  <2> QED
    BY <1>1, <1>4
<1>6. ASSUME NEW b PROVE Latest(t.mask, InBucket(a, t, b)) \in Nat /\ \A i : Latest(t.mask, Before(InBucket(a, t, b), i)) \in Nat
  <2>1. InBucket(a, t, b) \in SUBSET (1 .. N)
    BY InBuckets
  <2>2. \A i : Before(InBucket(a, t, b), i) \in SUBSET (1 .. N)
    BY <2>1 DEF Before
  <2> QED
    BY <1>1, <2>1, <2>2, LatestIs
<1>7. heads \in [0 .. t.mask -> Nat]
  BY <1>6
<1>8. ASSUME NEW i \in 1 .. N
      PROVE  /\ props[i] \in Property
             /\ props[i].key = t.props[i].key /\ props[i].kind = t.props[i].kind /\ props[i].value = t.props[i].value
             /\ i \in Used(t) => props[i].next = Latest(t.mask, Before(InBucket(a, t, bucket(i)), i))
             /\ i \notin Used(t) => props[i] = t.props[i]
  <2> DEFINE l == Latest(t.mask, Before(InBucket(a, t, bucket(i)), i))
  <2>1. l \in Nat /\ t.props[i] \in Property
    BY <1>1, <1>6
  <2>2. props[i] = IF i \in Used(t) THEN [t.props[i] EXCEPT !.next = l] ELSE t.props[i]
    BY <1>1
  <2> HIDE DEF l, props
  <2>3. \A x \in Property : /\ [x EXCEPT !.next = l] \in Property /\ [x EXCEPT !.next = l].next = l
                            /\ [x EXCEPT !.next = l].key = x.key /\ [x EXCEPT !.next = l].kind = x.kind
                            /\ [x EXCEPT !.next = l].value = x.value
    BY <2>1 DEF Property
  <2> QED
    BY <2>1, <2>2, <2>3 DEF l
<1>9. DOMAIN props = 1 .. N
  BY <1>1
<1>10. props \in Seq(Property) /\ Len(props) = N
  <2> HIDE DEF props, Property
  <2>1. props = [i \in 1 .. N |-> props[i]]
    BY <1>9, <1>1 DEF props
  <2> QED
    BY <1>1, <1>8, <2>1, <1>9
<1>11. u.rom = t.rom /\ u.count = t.count /\ u.mask = t.mask /\ u.heads = heads /\ u.props = props
  <2> HIDE DEF heads, props, u
  <2> QED
    BY <1>5
<1>12. Typed(u)
  <2>1. t.rom \in BOOLEAN /\ t.count \in Nat
    BY Fields
  <2> HIDE DEF heads, props, u, Property
  <2> QED
    BY <1>1, <1>5, <1>7, <1>10, <2>1 DEF Typed
<1>13. Alike(t, u)
  <2> HIDE DEF props
  <2> QED
    BY <1>1, <1>8, <1>9, <1>10, <1>11 DEF Alike
<1>14. Linked(a, u)
  <2>1. Used(u) = Used(t) /\ \A b : InBucket(a, u, b) = InBucket(a, t, b)
    BY <1>11, <1>13, AlikeUsed
  <2>2. \A b \in 0 .. t.mask : u.heads[b] = Latest(t.mask, InBucket(a, t, b))
    BY <1>11
  <2> HIDE DEF u, props
  <2>3. ASSUME NEW i \in Used(t)
        PROVE  /\ u.props[i].next = Latest(t.mask, Before(InBucket(a, t, bucket(i)), i))
               /\ bucket(i) = Bucket(a, u.props[i].key, u.mask)
    BY <1>1, <1>8, <1>11 DEF Used, bucket
  <2> QED
    BY <1>11, <2>1, <2>2, <2>3 DEF Linked
<1>15. \A i \in 1 .. N : u.props[i] = props[i]
  BY <1>11
<1> HIDE DEF u, props
<1>16. Entries(u) = Entries(t)
  <2>1. \A i \in 1 .. N : Entry(u.props[i]) = Entry(t.props[i])
    BY <1>8, <1>15, Zenon DEF Entry
  <2>2. \A i \in Used(t) : Entry(u.props[i]) = Entry(t.props[i])
    BY <1>1, <2>1 DEF Used
  <2> QED
    BY <1>13, <2>2, EntriesKept
<1> QED
  BY <1>1, <1>8, <1>11, <1>12, <1>13, <1>14, <1>15, <1>16 DEF u

\* js_rehash_props keeps a table sound, and puts its links right.
LEMMA RehashKeeps ==
    ASSUME NEW a \in [Movable -> Nat], NEW t, Sound(t)
    PROVE  /\ Sound(Rehash(a, t)) /\ Linked(a, Rehash(a, t)) /\ Alike(t, Rehash(a, t))
           /\ Rehash(a, t).rom = t.rom /\ Entries(Rehash(a, t)) = Entries(t)
<1>1. Typed(t) /\ Counted(t) /\ Packed(t)
  BY SoundIsPacked DEF Sound
<1>2. Sound(Rehash(a, t))
  BY <1>1, RehashIs, AlikeSound
<1> QED
  BY <1>1, <1>2, RehashIs

-----------------------------------------------------------------------------
(* Allocations.                                                            *)

\* Keys that hash as before keep their links.
LEMMA SameBuckets ==
    ASSUME NEW a, NEW c, NEW t, Linked(a, t),
           \A i \in Used(t) : Bucket(c, t.props[i].key, t.mask) = Bucket(a, t.props[i].key, t.mask)
    PROVE  Linked(c, t)
<1>1. \A b : InBucket(c, t, b) = InBucket(a, t, b)
  BY DEF InBucket
<1> QED
  BY <1>1 DEF Linked

InOrder(s) ==
    /\ s = [addr |-> s.addr, table |-> s.table]
    /\ s.addr \in [Movable -> Nat] /\ Sound(s.table) /\ Linked(s.addr, s.table)

\* A table in ROM, which no collection rehashes, has keys that do not move, and a
\* table with one bucket has all its keys there.
LEMMA NeedsNoRehash ==
    ASSUME NEW a \in [Movable -> Nat], NEW c \in [Movable -> Nat], NEW t, Sound(t), Linked(a, t),
           t.rom \/ t.mask = 0
    PROVE  Linked(c, t)
<1>1. ASSUME NEW i \in Used(t) PROVE Bucket(c, t.props[i].key, t.mask) = Bucket(a, t.props[i].key, t.mask)
  <2>1. CASE t.rom
    <3>1. t.props[i].key \in Fixed
      BY <2>1 DEF Sound, RomIsFixed
    <3>2. t.props[i].key \notin Movable
      BY <3>1, PropsAssumption
    <3> QED
      BY <3>2 DEF Bucket, Hash
  <2>2. CASE t.mask = 0
    <3>1. t.props[i].key \in Keys
      BY DEF Used
    <3>2. Bucket(a, t.props[i].key, 0) \in 0 .. 0 /\ Bucket(c, t.props[i].key, 0) \in 0 .. 0
      BY <3>1, BucketInTable
    <3> QED
      BY <2>2, <3>2
  <2> QED
    BY <2>1, <2>2
<1> QED
  BY <1>1, SameBuckets

LEMMA AfterAllocKeeps ==
    ASSUME NEW s, InOrder(s), NEW x \in AfterAlloc(s)
    PROVE  /\ InOrder(x) /\ Alike(s.table, x.table) /\ x.table.rom = s.table.rom
           /\ s.table.rom => x.table = s.table
           /\ Entries(x.table) = Entries(s.table)
<1>1. s.addr \in [Movable -> Nat] /\ Sound(s.table) /\ Linked(s.addr, s.table)
  BY DEF InOrder
<1>2. Alike(s.table, s.table)
  BY DEF Alike
<1>3. CASE x = s
  BY <1>2, <1>3
<1>4. ASSUME NEW c \in Moves(s.addr), x = [addr |-> c, table |-> RehashAfterGC(c, s.table)]
      PROVE  /\ InOrder(x) /\ Alike(s.table, x.table) /\ x.table.rom = s.table.rom
             /\ (s.table.rom => x.table = s.table) /\ Entries(x.table) = Entries(s.table)
  <2>1. c \in [Movable -> Nat]
    <3>1. c \in [Movable -> 0 .. MaxAddr] /\ MaxAddr \in Nat
      BY PropsAssumption DEF Moves
    <3> QED
      BY <3>1
  <2>2. x = [addr |-> x.addr, table |-> x.table] /\ x.addr = c /\ x.table = RehashAfterGC(c, s.table)
    BY <1>4
  <2>3. CASE s.table.rom \/ s.table.mask = 0
    BY <1>1, <1>2, <2>1, <2>2, <2>3, NeedsNoRehash, Zenon DEF RehashAfterGC, InOrder
  <2>4. CASE ~(s.table.rom \/ s.table.mask = 0)
    BY <1>1, <2>1, <2>2, <2>4, RehashKeeps, Zenon DEF RehashAfterGC, InOrder
  <2> QED
    BY <2>3, <2>4
<1> QED
  BY <1>3, <1>4 DEF AfterAlloc

\* js_update_props: the copy has the links it had in ROM.
LEMMA ToRamKeeps ==
    ASSUME NEW s, InOrder(s)
    PROVE  /\ InOrder(ToRam(s)) /\ Alike(s.table, ToRam(s).table) /\ ~ToRam(s).table.rom
           /\ ToRam(s).addr = s.addr /\ ToRam(s).table.heads = s.table.heads
           /\ ToRam(s).table.mask = s.table.mask
           /\ \A i \in DOMAIN s.table.props : ToRam(s).table.props[i].next = s.table.props[i].next
           /\ Entries(ToRam(s).table) = Entries(s.table)
<1> DEFINE t == s.table
           N == Len(t.props)
           props == [i \in DOMAIN t.props |->
                       IF t.props[i].kind = "special" THEN [t.props[i] EXCEPT !.kind = "normal"] ELSE t.props[i]]
           u == [rom |-> FALSE, count |-> t.count, mask |-> t.mask, heads |-> t.heads, props |-> props]
<1>1. s = [addr |-> s.addr, table |-> t] /\ s.addr \in [Movable -> Nat] /\ Sound(t) /\ Linked(s.addr, t) /\ Typed(t)
  BY DEF InOrder, Sound
<1>2. /\ N \in Nat /\ DOMAIN t.props = 1 .. N
      /\ \A i \in 1 .. N : t.props[i] \in Property
      /\ t = [rom |-> t.rom, count |-> t.count, mask |-> t.mask, heads |-> t.heads, props |-> t.props]
  BY <1>1, Fields
<1> HIDE DEF t
<1>3. ToRam(s) = [addr |-> s.addr, table |-> u]
  <2>1. ToRam(s) = [s EXCEPT !.table = [t EXCEPT !.rom = FALSE, !.props = props]]
    BY DEF ToRam, t
  <2> HIDE DEF props
  <2> QED
    BY <1>1, <1>2, <2>1
<1>4. ASSUME NEW i \in 1 .. N
      PROVE  /\ props[i] \in Property /\ props[i].key = t.props[i].key /\ props[i].next = t.props[i].next
             /\ Entry(props[i]) = Entry(t.props[i])
  <2>1. \A x \in Property : /\ [x EXCEPT !.kind = "normal"] \in Property
                            /\ [x EXCEPT !.kind = "normal"].key = x.key /\ [x EXCEPT !.kind = "normal"].next = x.next
    BY DEF Property
  <2>3. \A x \in Property : x.kind = "special" => Entry([x EXCEPT !.kind = "normal"]) = Entry(x)
    BY DEF Property, Entry
  <2>2. props[i] = IF t.props[i].kind = "special" THEN [t.props[i] EXCEPT !.kind = "normal"] ELSE t.props[i]
    BY <1>2
  <2> HIDE DEF props
  <2> QED
    BY <1>2, <2>1, <2>2, <2>3
<1>5. props \in Seq(Property) /\ Len(props) = N /\ DOMAIN props = 1 .. N
  <2>1. props = [i \in 1 .. N |-> props[i]] /\ DOMAIN props = 1 .. N
    BY <1>2
  <2> HIDE DEF props, Property
  <2> QED
    BY <1>2, <1>4, <2>1
<1> HIDE DEF props, Property
<1>6. u.props = props /\ u.mask = t.mask /\ u.count = t.count /\ u.heads = t.heads /\ u.rom = FALSE
  OBVIOUS
<1>7. Typed(u)
  <2>1. t.count \in Nat /\ t.mask \in Nat /\ t.heads \in [0 .. t.mask -> Nat]
    BY <1>1, Fields
  <2> QED
    BY <1>5, <2>1 DEF Typed
<1> HIDE DEF u
<1>8. Alike(t, u) /\ \A i \in 1 .. N : u.props[i].next = t.props[i].next
  BY <1>2, <1>4, <1>5, <1>6 DEF Alike
<1>9. Sound(u)
  BY <1>1, <1>2, <1>6, <1>7, <1>8, AlikeSound
<1>10. Linked(s.addr, u)
  <2>1. \A i \in Used(t) : u.props[i].next = t.props[i].next
    BY <1>2, <1>8 DEF Used
  <2> QED
    BY <1>1, <1>6, <1>8, <2>1, AlikeLinked
<1>11. ToRam(s).addr = s.addr /\ ToRam(s).table = u
  BY <1>3
<1>12. Entries(u) = Entries(t)
  <2>1. \A i \in Used(t) : Entry(u.props[i]) = Entry(t.props[i])
    BY <1>2, <1>4, <1>6 DEF Used
  <2> QED
    BY <1>1, <1>8, <2>1, EntriesKept
<1> QED
  BY <1>1, <1>2, <1>3, <1>6, <1>8, <1>9, <1>10, <1>11, <1>12 DEF InOrder, t

\* What an update does: nothing, or a copy, after an allocation, with the same links.
LEMMA UpdatedKeeps ==
    ASSUME NEW s, InOrder(s), NEW x \in Updated(s)
    PROVE  /\ InOrder(x) /\ Alike(s.table, x.table) /\ ~x.table.rom
           /\ x.table.mask = s.table.mask /\ x.table.heads = s.table.heads
           /\ \A i \in DOMAIN s.table.props : x.table.props[i].next = s.table.props[i].next
           /\ s.table.rom \/ x = s
           /\ Entries(x.table) = Entries(s.table)
<1>1. CASE ~s.table.rom
  <2>1. x = s
    BY <1>1 DEF Updated
  <2> QED
    BY <1>1, <2>1 DEF Alike
<1>2. CASE s.table.rom
  <2>1. PICK y \in AfterAlloc(s) : x = ToRam(y)
    BY <1>2 DEF Updated
  <2>2. InOrder(y) /\ y.table = s.table
    BY <1>2, AfterAllocKeeps
  <2> QED
    BY <1>2, <2>1, <2>2, ToRamKeeps
<1> QED
  BY <1>1, <1>2

\* A place of a table that gets another property in it.
LEMMA PlaceChanges ==
    ASSUME NEW props \in Seq(Property), NEW i \in 1 .. Len(props), NEW x \in Property
    PROVE  /\ [props EXCEPT ![i] = x] \in Seq(Property)
           /\ Len([props EXCEPT ![i] = x]) = Len(props)
           /\ DOMAIN [props EXCEPT ![i] = x] = 1 .. Len(props)
           /\ [props EXCEPT ![i] = x][i] = x
           /\ \A j \in 1 .. Len(props) : j # i => [props EXCEPT ![i] = x][j] = props[j]
<1> HIDE DEF Property
<1> QED
  OBVIOUS

LEMMA WithValueKeeps ==
    ASSUME NEW s, InOrder(s), NEW i \in 1 .. Len(s.table.props), NEW v \in Values
    PROVE  /\ InOrder(WithValue(s, i, v))
           /\ i \in Used(s.table) => Stored(s.table, WithValue(s, i, v).table, i, v)
<1> DEFINE t == s.table
           x == [t.props[i] EXCEPT !.value = v]
           props == [t.props EXCEPT ![i] = x]
           u == [rom |-> t.rom, count |-> t.count, mask |-> t.mask, heads |-> t.heads, props |-> props]
<1>1. s = [addr |-> s.addr, table |-> t] /\ s.addr \in [Movable -> Nat] /\ Sound(t) /\ Linked(s.addr, t) /\ Typed(t)
  BY DEF InOrder, Sound
<1>2. /\ t.props \in Seq(Property) /\ t.props[i] \in Property
      /\ DOMAIN t.props = 1 .. Len(t.props)
      /\ t = [rom |-> t.rom, count |-> t.count, mask |-> t.mask, heads |-> t.heads, props |-> t.props]
  BY <1>1, Fields
<1>3. WithValue(s, i, v) = [addr |-> s.addr, table |-> u]
  <2>1. WithValue(s, i, v) = [s EXCEPT !.table = [t EXCEPT !.props = [t.props EXCEPT ![i] = [t.props[i] EXCEPT !.value = v]]]]
    BY DEF WithValue
  <2> HIDE DEF t
  <2> QED
    BY <1>1, <1>2, <2>1
<1>4. x \in Property /\ x.key = t.props[i].key /\ x.next = t.props[i].next
  BY <1>2 DEF Property
<1>11. Entry(x) = [Entry(t.props[i]) EXCEPT !.value = v]
  <2> DEFINE p == t.props[i]
  <2>1. p \in Property /\ x = [p EXCEPT !.value = v]
    BY <1>2
  <2> HIDE DEF p, x
  <2>2. Entry(x) = [Entry(p) EXCEPT !.value = v]
    BY <2>1 DEF Property, Entry
  <2> QED
    BY <2>2 DEF p
<1> HIDE DEF t, x, Property
<1>5. /\ props \in Seq(Property) /\ Len(props) = Len(t.props) /\ DOMAIN props = 1 .. Len(t.props)
      /\ props[i] = x /\ \A j \in 1 .. Len(t.props) : j # i => props[j] = t.props[j]
  BY <1>2, <1>4, PlaceChanges DEF t
<1> HIDE DEF props
<1>6. u.props = props /\ u.mask = t.mask /\ u.count = t.count /\ u.heads = t.heads /\ u.rom = t.rom
  OBVIOUS
<1>7. Typed(u)
  <2>1. t.count \in Nat /\ t.mask \in Nat /\ t.heads \in [0 .. t.mask -> Nat] /\ t.rom \in BOOLEAN
    BY <1>1, Fields
  <2> QED
    BY <1>5, <2>1 DEF Typed
<1> HIDE DEF u
<1>8. Alike(t, u) /\ \A j \in 1 .. Len(t.props) : u.props[j].next = t.props[j].next
  BY <1>2, <1>4, <1>5, <1>6 DEF Alike
<1>9. Sound(u)
  BY <1>1, <1>2, <1>6, <1>7, <1>8, AlikeSound
<1>10. Linked(s.addr, u)
  <2>1. \A j \in Used(t) : u.props[j].next = t.props[j].next
    BY <1>2, <1>8 DEF Used
  <2> QED
    BY <1>1, <1>6, <1>8, <2>1, AlikeLinked
<1>12. InOrder(WithValue(s, i, v))
  BY <1>1, <1>3, <1>9, <1>10 DEF InOrder
<1>13. ASSUME i \in Used(t) PROVE Stored(t, u, i, v)
  <2>1. Used(u) = Used(t) /\ Used(t) \in SUBSET (1 .. Len(t.props))
    BY <1>2, <1>8, AlikeUsed DEF Used
  <2>2. Kept(t, u, Used(t) \ {i})
    BY <1>5, <1>6, <2>1 DEF Kept
  <2>3. Entry(u.props[i]) = [Entry(t.props[i]) EXCEPT !.value = v]
    BY <1>5, <1>6, <1>11
  <2> QED
    BY <1>1, <1>13, <2>1, <2>2, <2>3, EntriesStored
<1>14. WithValue(s, i, v).table = u
  BY <1>3
<1> QED
  BY <1>12, <1>13, <1>14 DEF t

-----------------------------------------------------------------------------
(* js_create_property.                                                     *)

\* A table that holds and finds its properties, whatever place is free.
Filed(a, t) == Typed(t) /\ Linked(a, t) /\ Distinct(t) /\ Counted(t) /\ RomIsFixed(t)

\* The place a property may be made in.
RoomAt(t, i) ==
    /\ i \in 1 .. Len(t.props) /\ (i < Len(t.props) => LastFree(t))
    /\ \A j \in DOMAIN t.props : /\ t.props[j].key \in Keys => j < i
                                 /\ t.props[j].key = Undefined => i <= j

LEMMA CreatedKeeps ==
    ASSUME NEW a \in [Movable -> Nat], NEW t, Filed(a, t), ~t.rom, NEW i, RoomAt(t, i),
           NEW k \in Keys, ~\E j \in Used(t) : t.props[j].key = k,
           NEW kind \in {"normal", "special", "getset", "varref"}, NEW v \in Values
    PROVE  /\ Sound(Created(a, t, Offset(t.mask, i), Slot(k, kind, v)))
           /\ Linked(a, Created(a, t, Offset(t.mask, i), Slot(k, kind, v)))
           /\ Entries(Created(a, t, Offset(t.mask, i), Slot(k, kind, v))) = Append(Entries(t), Entry(Slot(k, kind, v)))
<1> DEFINE N == Len(t.props)
           b == Bucket(a, k, t.mask)
           idx == Offset(t.mask, i)
           x == [key |-> k, next |-> t.heads[b], kind |-> kind, value |-> v]
           l == [t.props[N] EXCEPT !.next = idx + 3]
           mid == [t.props EXCEPT ![i] = x]
           props == IF i < N THEN [mid EXCEPT ![N] = l] ELSE mid
           heads == [t.heads EXCEPT ![b] = idx]
           u == [rom |-> t.rom, count |-> t.count + 1, mask |-> t.mask, heads |-> heads, props |-> props]
<1>1. /\ t = [rom |-> t.rom, count |-> t.count, mask |-> t.mask, heads |-> t.heads, props |-> t.props]
      /\ t.count \in Nat /\ t.mask \in Nat /\ t.heads \in [0 .. t.mask -> Nat] /\ t.props \in Seq(Property)
      /\ N \in Nat /\ DOMAIN t.props = 1 .. N /\ t.rom \in BOOLEAN /\ Typed(t)
  BY Fields DEF Filed
<1>2. i \in 1 .. N /\ t.props[N] \in Property
  <2>1. i \in 1 .. N
    BY DEF RoomAt
  <2>2. N \in 1 .. N
    BY <1>1, <2>1
  <2> QED
    BY <1>1, <2>1, <2>2, Fields
<1>3. b \in 0 .. t.mask /\ idx \in Nat
  <2>1. i \in Nat \ {0} /\ t.mask \in Nat
    BY <1>1, <1>2
  <2> QED
    BY <2>1, BucketInTable, PlaceOfOffset
<1>4. Place(t, idx) = i
  <2>1. i \in Nat \ {0} /\ t.mask \in Nat
    BY <1>1, <1>2
  <2> QED
    BY <2>1, PlaceOfOffset
<1>5. x \in Property /\ x.key = k /\ x.next = t.heads[b]
  <2>1. t.heads[b] \in Nat
    BY <1>1, <1>3
  <2> HIDE DEF b
  <2> QED
    BY <2>1 DEF Property
<1>6. l \in Property /\ l.key = t.props[N].key /\ l.next = idx + 3
  <2> DEFINE p == t.props[N]
             next == idx + 3
  <2>1. p \in Property /\ next \in Nat /\ l = [p EXCEPT !.next = next]
    BY <1>2, <1>3
  <2> HIDE DEF p, next, l
  <2>2. l \in Property /\ l.key = p.key /\ l.next = next
    BY <2>1 DEF Property
  <2> QED
    BY <2>2 DEF p, next
<1>7. /\ mid \in Seq(Property) /\ Len(mid) = N /\ mid[i] = x
      /\ \A j \in 1 .. N : j # i => mid[j] = t.props[j]
  <2> HIDE DEF x, Property
  <2> QED
    BY <1>1, <1>2, <1>5, PlaceChanges
<1>8. Created(a, t, idx, Slot(k, kind, v)) = u
  <2> DEFINE put == [rom |-> t.rom, count |-> t.count + 1, mask |-> t.mask, heads |-> heads, props |-> mid]
  <2>1. [Slot(k, kind, v) EXCEPT !.next = t.heads[b]] = x /\ Slot(k, kind, v).key = k
    BY DEF Slot
  <2>2. Created(a, t, idx, Slot(k, kind, v)) =
          IF i < N THEN [put EXCEPT !.props[N].next = idx + 3] ELSE put
    <3>1. put = [t EXCEPT !.count = t.count + 1, !.heads = heads, !.props = mid]
      <4>1. t = [rom |-> t.rom, count |-> t.count, mask |-> t.mask, heads |-> t.heads, props |-> t.props]
        BY <1>1
      <4> DEFINE changed == [t EXCEPT !.count = t.count + 1, !.heads = heads, !.props = mid]
      <4>2. changed = [t EXCEPT !.count = t.count + 1, !.heads = heads, !.props = mid]
        OBVIOUS
      <4> HIDE DEF heads, mid, changed
      <4>3. changed = put
        BY <4>1, <4>2
      <4> QED
        BY <4>3 DEF changed
    <3>2. put = [t EXCEPT !.count = t.count + 1, !.heads[b] = idx,
                          !.props[i] = [Slot(k, kind, v) EXCEPT !.next = t.heads[b]]]
      BY <2>1, <3>1
    <3> HIDE DEF put, idx
    <3> QED
      BY <1>4, <2>1, <3>2 DEF Created
  <2>3. ASSUME i < N PROVE [put EXCEPT !.props[N].next = idx + 3] = [put EXCEPT !.props = [mid EXCEPT ![N] = l]]
    <3>1. mid[N] = t.props[N]
      BY <1>1, <1>2, <1>7, <2>3
    <3>2. put.props = mid
      OBVIOUS
    <3> HIDE DEF put, mid, idx
    <3> QED
      BY <3>1, <3>2
  <2> HIDE DEF heads, mid, l, idx
  <2> QED
    BY <2>2, <2>3
<1> HIDE DEF b, idx, x, l
<1>9. /\ props \in Seq(Property) /\ Len(props) = N /\ DOMAIN props = 1 .. N /\ props[i] = x
      /\ \A j \in 1 .. N : j # i => props[j].key = t.props[j].key
      /\ \A j \in 1 .. N : j # i /\ ~(j = N /\ i < N) => props[j] = t.props[j]
      /\ i < N => props[N].next = idx + 3
  <2> HIDE DEF mid, Property
  <2>1. CASE i < N
    <3>1. props = [mid EXCEPT ![N] = l]
      BY <2>1
    <3>2. N \in 1 .. Len(mid)
      BY <1>1, <1>2, <1>7
    <3> HIDE DEF props
    <3>3. /\ props \in Seq(Property) /\ Len(props) = N /\ DOMAIN props = 1 .. N /\ props[N] = l
          /\ \A j \in 1 .. N : j # N => props[j] = mid[j]
      BY <1>6, <1>7, <3>1, <3>2, PlaceChanges
    <3> QED
      BY <1>2, <1>6, <1>7, <2>1, <3>3
  <2>2. CASE ~(i < N)
    <3>1. props = mid
      BY <2>2
    <3>2. DOMAIN mid = 1 .. N
      BY <1>7
    <3> HIDE DEF props
    <3> QED
      BY <1>2, <1>7, <2>2, <3>1, <3>2
  <2> QED
    BY <2>1, <2>2
<1> HIDE DEF mid, props
<1>10. heads \in [0 .. t.mask -> Nat] /\ heads[b] = idx /\ \A c \in 0 .. t.mask : c # b => heads[c] = t.heads[c]
  BY <1>1, <1>3
<1> HIDE DEF heads
<1>11. /\ u.rom = t.rom /\ u.count = t.count + 1 /\ u.mask = t.mask /\ u.heads = heads /\ u.props = props
  OBVIOUS
<1>12. Typed(u)
  <2> HIDE DEF Property
  <2> QED
    BY <1>1, <1>9, <1>10 DEF Typed
<1> HIDE DEF u
\* The new property is behind all others.
<1>13. \A j \in 1 .. N : /\ t.props[j].key \in Keys => j < i
                         /\ t.props[j].key = Undefined => i <= j
  BY <1>1 DEF RoomAt
<1>14. \A j \in Used(t) : j \in 1 .. N /\ j < i
  BY <1>1, <1>13 DEF Used
<1>15. Used(u) = Used(t) \cup {i} /\ i \notin Used(t)
  <2>1. i \notin Used(t)
    BY <1>2, <1>14
  <2> QED
    BY <1>1, <1>2, <1>5, <1>9, <1>11, <2>1 DEF Used
<1>16. ASSUME NEW j \in Used(t) PROVE u.props[j] = t.props[j]
  <2>1. i < N => t.props[N].key = Uninitialized
    BY <1>1, LastFreeIs DEF RoomAt
  <2>2. j # N \/ ~(i < N)
    BY <2>1, PropsAssumption DEF Used, Uninitialized
  <2>3. j # i /\ j \in 1 .. N
    BY <1>2, <1>14
  <2> QED
    BY <1>9, <1>11, <2>2, <2>3
<1>17. FreeKnown(u)
  <2>1. Words(u) = Offset(u.mask, N + 1) /\ Len(u.props) = N /\ idx + 3 = Offset(u.mask, i + 1)
    <3>1. u.mask = t.mask /\ Len(u.props) = N /\ i \in Nat /\ N \in Nat /\ t.mask \in Nat
      BY <1>1, <1>2, <1>9, <1>11
    <3> HIDE DEF N
    <3> QED
      BY <3>1 DEF Words, Offset, Base, idx
  <2>2. \A j \in 1 .. N : u.props[j].key = IF j = i THEN k ELSE t.props[j].key
    BY <1>5, <1>9, <1>11
  <2>3. CASE i < N
    <3>1. t.props[N].key = Uninitialized
      BY <1>1, <2>3, LastFreeIs DEF RoomAt
    <3>2. u.props[N].key = Uninitialized
      BY <1>1, <1>2, <2>2, <2>3, <3>1
    <3>3. LastFree(u)
      BY <1>1, <1>2, <1>12, <2>1, <3>2, LastFreeIs
    <3>4. FirstFree(u) = Offset(u.mask, i + 1)
      BY <1>9, <1>11, <2>1, <2>3, <3>3 DEF FirstFree, Last
    <3>5. \A j \in 1 .. N : /\ u.props[j].key \in Keys => j < i + 1
                            /\ u.props[j].key = Undefined => i + 1 <= j
      BY <1>2, <1>13, <2>2, PropsAssumption DEF Undefined
    <3>6. i + 1 \in 1 .. Len(u.props) + 1 /\ i + 1 <= Len(u.props) /\ DOMAIN u.props = 1 .. N
      BY <1>1, <1>2, <1>9, <1>11, <2>3
    <3> QED
      BY <3>4, <3>5, <3>6, Zenon DEF FreeKnown
  <2>4. CASE i = N
    <3>1. ~LastFree(u)
      BY <1>12, <2>1, <2>2, <2>4, <1>2, LastFreeIs, PropsAssumption DEF Uninitialized
    <3>2. FirstFree(u) = Offset(u.mask, N + 1)
      BY <2>1, <3>1 DEF FirstFree
    <3>3. \A j \in 1 .. N : /\ u.props[j].key \in Keys => j < N + 1
                            /\ u.props[j].key = Undefined => N + 1 <= j
      <4>1. i \in Nat /\ N \in Nat /\ i = N /\ k # Undefined
        BY <1>1, <1>2, <2>4, PropsAssumption DEF Undefined
      <4> HIDE DEF N, u
      <4> QED
        BY <4>1, <1>13, <2>2
    <3>4. N + 1 \in 1 .. Len(u.props) + 1 /\ DOMAIN u.props = 1 .. N
      BY <1>1, <1>9, <1>11
    <3> QED
      BY <3>1, <3>2, <3>3, <3>4, Zenon DEF FreeKnown
  <2> QED
    BY <1>2, <2>3, <2>4
<1>18. Distinct(u)
  BY <1>5, <1>9, <1>11, <1>15, <1>16 DEF Distinct, Filed
<1>19. Counted(u)
  <2>1. IsFiniteSet(Used(t)) /\ Cardinality(Used(t)) = t.count
    <3>1. Used(t) \in SUBSET (1 .. N)
      BY <1>14
    <3>2. IsFiniteSet(1 .. N)
      BY <1>1, FS_Interval
    <3> QED
      BY <3>1, <3>2, FS_Subset DEF Filed, Counted
  <2> QED
    BY <1>11, <1>15, <2>1, FS_AddElement DEF Counted
<1>20. RomIsFixed(u)
  BY <1>11 DEF RomIsFixed
<1>21. Sound(u)
  BY <1>12, <1>17, <1>18, <1>19, <1>20 DEF Sound
<1>22. InBucket(a, u, b) = InBucket(a, t, b) \cup {i} /\ \A c : c # b => InBucket(a, u, c) = InBucket(a, t, c)
  <2>1. Bucket(a, u.props[i].key, u.mask) = b
    BY <1>5, <1>9, <1>11 DEF b
  <2>2. \A j \in Used(t) : Bucket(a, u.props[j].key, u.mask) = Bucket(a, t.props[j].key, t.mask)
    BY <1>11, <1>16
  <2> QED
    BY <1>15, <2>1, <2>2 DEF InBucket
<1>23. \A c : InBucket(a, t, c) \in SUBSET Used(t) /\ InBucket(a, u, c) \in SUBSET (1 .. N)
  BY <1>9, <1>11, <1>12, InBuckets DEF InBucket
<1>24. \A c \in 0 .. t.mask : u.heads[c] = Latest(u.mask, InBucket(a, u, c))
  <2> TAKE c \in 0 .. t.mask
  <2>1. CASE c # b
    <3>1. t.heads[c] = Latest(t.mask, InBucket(a, t, c))
      BY DEF Filed, Linked
    <3> QED
      BY <1>10, <1>11, <1>22, <2>1, <3>1
  <2>2. CASE c = b
    <3> DEFINE S == InBucket(a, u, b)
    <3>1. i \in S /\ S \in SUBSET (1 .. N) /\ \A j \in S : j <= i
      BY <1>2, <1>14, <1>22, <1>23
    <3> HIDE DEF S
    <3>2. Latest(t.mask, S) = Offset(t.mask, i)
      BY <1>1, <3>1, LatestIs
    <3> QED
      BY <1>10, <1>11, <2>2, <3>2 DEF S, idx
  <2> QED
    BY <2>1, <2>2
<1>25. \A j \in Used(u) : u.props[j].next = Latest(u.mask, Before(InBucket(a, u, Bucket(a, u.props[j].key, u.mask)), j))
  <2> TAKE j \in Used(u)
  <2>1. CASE j = i
    <3>1. Bucket(a, u.props[j].key, u.mask) = b /\ u.props[j].next = t.heads[b]
      BY <1>5, <1>9, <1>11, <2>1 DEF b
    <3>2. Before(InBucket(a, u, b), i) = InBucket(a, t, b)
      BY <1>2, <1>14, <1>22, <1>23 DEF Before
    <3>3. t.heads[b] = Latest(t.mask, InBucket(a, t, b))
      BY <1>3 DEF Filed, Linked
    <3> QED
      BY <1>11, <2>1, <3>1, <3>2, <3>3
  <2>2. CASE j # i
    <3> DEFINE c == Bucket(a, t.props[j].key, t.mask)
    <3>1. j \in Used(t) /\ u.props[j] = t.props[j]
      BY <1>15, <1>16, <2>2
    <3>2. t.props[j].next = Latest(t.mask, Before(InBucket(a, t, c), j))
      BY <3>1 DEF Filed, Linked
    <3>3. Before(InBucket(a, u, c), j) = Before(InBucket(a, t, c), j)
      <4> HIDE DEF c
      <4>1. j < i /\ ~(i < j)
        BY <1>2, <1>14, <3>1
      <4>2. InBucket(a, u, c) = InBucket(a, t, c) \cup {i} \/ InBucket(a, u, c) = InBucket(a, t, c)
        BY <1>22
      <4> QED
        BY <4>1, <4>2, Zenon DEF Before
    <3> QED
      BY <1>11, <3>1, <3>2, <3>3
  <2> QED
    BY <2>1, <2>2
<1>26. Linked(a, u)
  BY <1>11, <1>24, <1>25 DEF Linked
<1>27. Entries(u) = Append(Entries(t), Entry(Slot(k, kind, v)))
  <2>1. Kept(t, u, Used(t))
    BY <1>16 DEF Kept
  <2>2. Entry(u.props[i]) = Entry(Slot(k, kind, v))
    <3>1. u.props[i] = x
      BY <1>5, <1>9, <1>11
    <3> QED
      BY <3>1 DEF x, Slot, Entry
  <2>3. Entries(u) = Append(Entries(t), Entry(u.props[i]))
    BY <1>1, <1>2, <1>14, <1>15, <2>1, EntriesAppended
  <2> QED
    BY <2>2, <2>3
<1> QED
  BY <1>8, <1>21, <1>26, <1>27 DEF idx

\* Where no place is free, none was left uncleared.
LEMMA NoneUncleared ==
    ASSUME NEW t, Sound(t), ~LastFree(t)
    PROVE  \A j \in DOMAIN t.props : t.props[j].key # Undefined
<1> DEFINE N == Len(t.props)
<1>1. N \in Nat /\ DOMAIN t.props = 1 .. N /\ t.mask \in Nat
  BY Fields DEF Sound
<1>2. PICK f \in 1 .. N + 1 :
        /\ FirstFree(t) = Offset(t.mask, f)
        /\ LastFree(t) => f <= N
        /\ \A i \in DOMAIN t.props : /\ t.props[i].key \in Keys => i < f
                                     /\ t.props[i].key = Undefined => f <= i
  BY Zenon DEF Sound, FreeKnown
<1>3. Offset(t.mask, f) = Base(t.mask) + 3 * N
  BY <1>2 DEF FirstFree, Words
<1>4. f = N + 1
  BY <1>1, <1>3 DEF Offset, Base
<1> QED
  BY <1>1, <1>2, <1>4

\* More buckets, or as many.
LEMMA WidenedIs ==
    ASSUME NEW a \in [Movable -> Nat], NEW t, Filed(a, t), Packed(t), NEW mask \in Nat
    PROVE  /\ Filed(a, Widened(a, t, mask)) /\ Alike(t, Widened(a, t, mask))
           /\ Widened(a, t, mask).mask = mask /\ Widened(a, t, mask).rom = t.rom
           /\ Entries(Widened(a, t, mask)) = Entries(t)
<1>1. CASE mask = t.mask
  <2>1. Widened(a, t, mask) = t
    BY <1>1 DEF Widened
  <2> QED
    BY <1>1, <2>1 DEF Alike
<1>2. CASE mask # t.mask
  <2> DEFINE heads == [b \in 0 .. mask |-> 0]
             u == [t EXCEPT !.mask = mask, !.heads = heads]
             w == Rehash(a, u)
  <2>1. Typed(t) /\ Counted(t) /\ Distinct(t) /\ RomIsFixed(t)
    BY DEF Filed
  <2>2. /\ t = [rom |-> t.rom, count |-> t.count, mask |-> t.mask, heads |-> t.heads, props |-> t.props]
        /\ t.rom \in BOOLEAN /\ t.count \in Nat /\ t.props \in Seq(Property)
    BY <2>1, Fields
  <2>3. heads \in [0 .. mask -> Nat] /\ u = [t EXCEPT !.mask = mask, !.heads = heads]
    OBVIOUS
  <2> HIDE DEF heads, u, Property
  <2>4. u = [rom |-> t.rom, count |-> t.count, mask |-> mask, heads |-> heads, props |-> t.props]
    BY <2>2, <2>3
  <2>5. Typed(u)
    BY <2>2, <2>3, <2>4 DEF Typed
  <2>6. u.props = t.props /\ u.count = t.count /\ u.rom = t.rom /\ u.mask = mask
    BY <2>4
  <2>7. Used(u) = Used(t) /\ Counted(u) /\ Packed(u)
    BY <2>1, <2>6 DEF Used, Counted, Packed
  <2>8. /\ Typed(w) /\ Linked(a, w) /\ Alike(u, w)
        /\ w.rom = u.rom /\ w.count = u.count /\ w.mask = u.mask /\ Entries(w) = Entries(u)
    BY <2>5, <2>7, RehashIs
  <2> HIDE DEF w
  <2>9. Used(w) = Used(t) /\ Alike(t, w) /\ \A i \in Used(t) : w.props[i].key = t.props[i].key
    BY <2>6, <2>7, <2>8, AlikeUsed DEF Alike, Used
  <2>10. Distinct(w) /\ Counted(w) /\ RomIsFixed(w)
    BY <2>1, <2>6, <2>8, <2>9 DEF Distinct, Counted, RomIsFixed
  <2>11. w = Widened(a, t, mask)
    BY <1>2 DEF Widened, w, u, heads
  <2>12. Entries(u) = Entries(t)
    BY <2>6, <2>7, Zenon DEF Entries
  <2> QED
    BY <2>6, <2>8, <2>9, <2>10, <2>11, <2>12 DEF Filed
<1> QED
  BY <1>1, <1>2

\* More places, which hold no property.
Longer(t, fresh) == [t EXCEPT !.props = t.props \o fresh]

LEMMA LongerIs ==
    ASSUME NEW a \in [Movable -> Nat], NEW t, Filed(a, t), NEW fresh \in Seq(Property),
           \A j \in 1 .. Len(fresh) : fresh[j].key \notin Keys
    PROVE  /\ Filed(a, Longer(t, fresh)) /\ Longer(t, fresh).rom = t.rom
           /\ Used(Longer(t, fresh)) = Used(t)
           /\ Len(Longer(t, fresh).props) = Len(t.props) + Len(fresh)
           /\ \A j \in 1 .. Len(t.props) : Longer(t, fresh).props[j] = t.props[j]
           /\ \A j \in 1 .. Len(fresh) : Longer(t, fresh).props[Len(t.props) + j] = fresh[j]
           /\ Entries(Longer(t, fresh)) = Entries(t)
<1> DEFINE N == Len(t.props)
           u == Longer(t, fresh)
           props == t.props \o fresh
<1>1. Typed(t) /\ Linked(a, t) /\ Counted(t) /\ Distinct(t) /\ RomIsFixed(t)
  BY DEF Filed
<1>2. /\ t = [rom |-> t.rom, count |-> t.count, mask |-> t.mask, heads |-> t.heads, props |-> t.props]
      /\ t.rom \in BOOLEAN /\ t.count \in Nat /\ t.props \in Seq(Property) /\ t.mask \in Nat
      /\ N \in Nat /\ DOMAIN t.props = 1 .. N /\ t.heads \in [0 .. t.mask -> Nat]
  BY <1>1, Fields
<1> HIDE DEF Property
<1>3. /\ props \in Seq(Property) /\ Len(props) = N + Len(fresh) /\ Len(fresh) \in Nat
      /\ \A j \in 1 .. N + Len(fresh) : props[j] = IF j <= N THEN t.props[j] ELSE fresh[j - N]
  BY <1>2, ConcatProperties
<1>4. DOMAIN props = 1 .. N + Len(fresh)
  BY <1>3
<1> HIDE DEF props
<1>5. /\ \A j \in 1 .. N : props[j] = t.props[j]
      /\ \A j \in 1 .. Len(fresh) : props[N + j] = fresh[j]
  <2>1. ASSUME NEW j \in 1 .. N PROVE props[j] = t.props[j]
    <3>1. j \in 1 .. N + Len(fresh) /\ j <= N
      BY <1>2, <1>3
    <3> QED
      BY <1>3, <3>1
  <2>2. ASSUME NEW j \in 1 .. Len(fresh) PROVE props[N + j] = fresh[j]
    <3>1. N + j \in 1 .. N + Len(fresh) /\ ~(N + j <= N) /\ (N + j) - N = j
      BY <1>2, <1>3
    <3> QED
      BY <1>3, <3>1
  <2> QED
    BY <2>1, <2>2
<1>6. u = [t EXCEPT !.props = props]
  BY DEF props, Longer
<1> HIDE DEF u
<1>7. u = [rom |-> t.rom, count |-> t.count, mask |-> t.mask, heads |-> t.heads, props |-> props]
  BY <1>2, <1>6
<1>8. u.rom = t.rom /\ u.count = t.count /\ u.mask = t.mask /\ u.heads = t.heads /\ u.props = props
  BY <1>7
<1>9. Typed(u)
  <2>1. /\ props \in Seq(Property) /\ t.rom \in BOOLEAN /\ t.count \in Nat /\ t.mask \in Nat
        /\ t.heads \in [0 .. t.mask -> Nat]
    BY <1>2, <1>3
  <2>2. Typed([rom |-> t.rom, count |-> t.count, mask |-> t.mask, heads |-> t.heads, props |-> props])
    BY <2>1, IsTyped, Zenon
  <2> QED
    BY <1>7, <2>2, Zenon
<1>10. Used(u) = Used(t)
  <2>1. ASSUME NEW j \in Used(u) PROVE j \in Used(t)
    <3>1. j \in 1 .. N + Len(fresh) /\ props[j].key \in Keys
      BY <1>4, <1>8 DEF Used
    <3>2. CASE j <= N
      <4>1. j \in 1 .. N
        BY <1>2, <3>1, <3>2
      <4> QED
        BY <1>2, <1>5, <3>1, <4>1 DEF Used
    <3>3. CASE ~(j <= N)
      <4>1. j - N \in 1 .. Len(fresh) /\ N + (j - N) = j
        BY <1>2, <1>3, <3>1, <3>3
      <4>2. props[j] = fresh[j - N]
        BY <1>5, <4>1
      <4> QED
        BY <3>1, <4>1, <4>2
    <3> QED
      BY <3>2, <3>3
  <2>2. ASSUME NEW j \in Used(t) PROVE j \in Used(u)
    <3>1. j \in 1 .. N /\ t.props[j].key \in Keys
      BY <1>2 DEF Used
    <3>2. j \in 1 .. N + Len(fresh)
      BY <1>2, <1>3, <3>1
    <3> QED
      BY <1>4, <1>5, <1>8, <3>1, <3>2 DEF Used
  <2> QED
    BY <2>1, <2>2
<1>11. \A j \in Used(t) : u.props[j] = t.props[j]
  BY <1>2, <1>5, <1>8 DEF Used
<1>12. Linked(a, u)
  <2>1. \A b : InBucket(a, u, b) = InBucket(a, t, b)
    BY <1>8, <1>10, <1>11 DEF InBucket
  <2>2. \A b \in 0 .. u.mask : u.heads[b] = Latest(u.mask, InBucket(a, u, b))
    BY <1>1, <1>8, <2>1 DEF Linked
  <2>3. ASSUME NEW i \in Used(t)
        PROVE  u.props[i].next = Latest(u.mask, Before(InBucket(a, u, Bucket(a, u.props[i].key, u.mask)), i))
    <3>1. t.props[i].next = Latest(t.mask, Before(InBucket(a, t, Bucket(a, t.props[i].key, t.mask)), i))
      BY <1>1 DEF Linked
    <3> QED
      BY <1>8, <1>11, <2>1, <3>1
  <2> QED
    BY <1>10, <2>2, <2>3 DEF Linked
<1>13. Distinct(u) /\ Counted(u) /\ RomIsFixed(u)
  BY <1>1, <1>8, <1>10, <1>11 DEF Distinct, Counted, RomIsFixed
<1>14. Entries(u) = Entries(t)
  <2>1. Used(t) \in SUBSET (1 .. N) /\ N \in Nat
    BY <1>2 DEF Used
  <2> QED
    BY <1>10, <1>11, <2>1, SameEntries
<1> QED
  BY <1>3, <1>5, <1>8, <1>9, <1>10, <1>12, <1>13, <1>14 DEF Filed, u

\* A resize leaves room for one property at least.
LEMMA ResizedIs ==
    ASSUME NEW old \in Nat, NEW size \in Nat, NEW base \in Nat
    PROVE  Resized(old, size, base) \in Nat /\ Resized(old, size, base) >= size
<1> DEFINE more == old + old \div 2
           extra == (more - base) % 3
<1>1. more \in Nat
  OBVIOUS
<1> HIDE DEF more
<1>2. extra \in 0 .. 2
  BY <1>1
<1>3. Resized(old, size, base) = IF more > size THEN (IF extra = 0 THEN more ELSE more + 3 - extra) ELSE size
  BY DEF Resized, more
<1> HIDE DEF extra
<1> QED
  BY <1>1, <1>2, <1>3

LEMMA ExtendedIs ==
    ASSUME NEW a \in [Movable -> Nat], NEW t, Sound(t), Linked(a, t), ~LastFree(t), ~t.rom
    PROVE  /\ Filed(a, Extended(a, t)) /\ ~Extended(a, t).rom
           /\ RoomAt(Extended(a, t), Len(t.props) + 1)
           /\ Used(Extended(a, t)) = Used(t)
           /\ \A i \in Used(t) : Extended(a, t).props[i].key = t.props[i].key
           /\ Entries(Extended(a, t)) = Entries(t)
<1> DEFINE N == Len(t.props)
           e == Extended(a, t)
           Fresh(m) == [i \in 1 .. m |-> Slot(IF i = m THEN Uninitialized ELSE Undefined, "normal", Undefined)]
<1>1. /\ Filed(a, t) /\ Packed(t) /\ Typed(t)
      /\ N \in Nat /\ DOMAIN t.props = 1 .. N /\ t.mask \in Nat /\ t.count \in Nat
  BY SoundIsPacked, Fields DEF Sound, Filed
\* Some table with the same properties gets the fresh places.
<1>2. \E w : \E m \in Nat \ {0} :
         /\ Filed(a, w) /\ Alike(t, w) /\ w.rom = t.rom /\ Entries(w) = Entries(t)
         /\ e = Longer(w, Fresh(m))
  <2>1. CASE t = Empty
    <3>1. e = [t EXCEPT !.props = <<Slot(Uninitialized, "normal", Undefined)>>]
      BY <2>1 DEF Extended
    <3>2. t.props = <<>>
      BY <2>1 DEF Empty
    <3>3. Fresh(1) = <<Slot(Uninitialized, "normal", Undefined)>>
      OBVIOUS
    <3>4. t.props \o Fresh(1) = Fresh(1)
      BY <3>2, <3>3
    <3>5. e = Longer(t, Fresh(1))
      BY <3>1, <3>3, <3>4 DEF Longer
    <3>6. Alike(t, t)
      BY DEF Alike
    <3> HIDE DEF e, Fresh
    <3>7. 1 \in Nat \ {0}
      OBVIOUS
    <3> QED
      BY <1>1, <3>5, <3>6, <3>7, Zenon
  <2>2. CASE t # Empty
    <3> DEFINE mask == IF t.count + 1 > 2 * (t.mask + 1) THEN 2 * (t.mask + 1) - 1 ELSE t.mask
               wide == Widened(a, t, mask)
               size == Resized(Words(t), Words(t) + 3 + mask - t.mask, Base(mask))
               n == (size - Base(mask)) \div 3
    <3>1. mask \in Nat /\ mask >= t.mask
      BY <1>1
    <3>2. e = Longer(wide, Fresh(n - N))
      BY <2>2, Zenon DEF Extended, Longer
    <3> HIDE DEF mask
    <3>3. Filed(a, wide) /\ Alike(t, wide) /\ wide.rom = t.rom /\ Entries(wide) = Entries(t)
      BY <1>1, <3>1, WidenedIs
    <3>4. /\ Words(t) \in Nat /\ Base(mask) \in Nat /\ Words(t) + 3 + mask - t.mask \in Nat
          /\ Words(t) + 3 + mask - t.mask = Base(mask) + 3 * (N + 1)
      <4>1. N \in Nat /\ t.mask \in Nat /\ Words(t) = 2 + t.mask + 1 + 3 * N /\ Base(mask) = 2 + mask + 1
        BY <1>1 DEF Words, Base
      <4> HIDE DEF N
      <4> QED
        BY <3>1, <4>1
    <3>5. size \in Nat /\ size >= Base(mask) + 3 * (N + 1)
      BY <3>4, ResizedIs
    <3> HIDE DEF size
    <3>6. n - N \in Nat \ {0}
      <4> DEFINE d == size - Base(mask)
      <4> HIDE DEF N
      <4>1. d \in Nat /\ d >= 3 * (N + 1)
        BY <1>1, <3>4, <3>5
      <4> HIDE DEF d
      <4>2. d \div 3 \in Nat /\ d \div 3 >= N + 1
        BY <1>1, <4>1
      <4> QED
        BY <1>1, <4>2 DEF d
    <3> HIDE DEF e, Fresh, wide, n, N
    <3> QED
      BY <3>2, <3>3, <3>6
  <2> QED
    BY <2>1, <2>2
<1>3. PICK w : \E m \in Nat \ {0} :
         /\ Filed(a, w) /\ Alike(t, w) /\ w.rom = t.rom /\ Entries(w) = Entries(t)
         /\ e = Longer(w, Fresh(m))
  BY <1>2
<1>10. PICK m \in Nat \ {0} :
         /\ Filed(a, w) /\ Alike(t, w) /\ w.rom = t.rom /\ Entries(w) = Entries(t)
         /\ e = Longer(w, Fresh(m))
  BY <1>3
<1> DEFINE fresh == Fresh(m)
<1>4. /\ fresh \in Seq(Property) /\ Len(fresh) = m
      /\ \A j \in 1 .. m : /\ fresh[j].key = IF j = m THEN Uninitialized ELSE Undefined
                           /\ fresh[j].key \notin Keys
  <2>1. ASSUME NEW key \in {Undefined, Uninitialized}
        PROVE  Slot(key, "normal", Undefined) \in Property /\ Slot(key, "normal", Undefined).key = key
    BY DEF Slot, Property
  <2>2. \A key \in {Undefined, Uninitialized} : key \notin Keys
    BY PropsAssumption DEF Undefined, Uninitialized
  <2>3. \A j \in 1 .. m : /\ fresh[j] = Slot(IF j = m THEN Uninitialized ELSE Undefined, "normal", Undefined)
                          /\ fresh[j] \in Property
                          /\ fresh[j].key = IF j = m THEN Uninitialized ELSE Undefined
    BY <2>1
  <2>4. fresh = [j \in 1 .. m |-> fresh[j]]
    OBVIOUS
  <2> HIDE DEF fresh, Property
  <2>5. fresh \in Seq(Property) /\ Len(fresh) = m
    BY <2>3, <2>4
  <2> QED
    BY <2>2, <2>3, <2>5
<1>5. e = Longer(w, fresh)
  BY <1>10
<1> HIDE DEF e, fresh, Fresh
<1>6. /\ Filed(a, e) /\ e.rom = t.rom /\ Used(e) = Used(w) /\ Len(e.props) = N + m
      /\ \A j \in 1 .. N : e.props[j] = w.props[j]
      /\ \A j \in 1 .. m : e.props[N + j] = fresh[j]
  <2>1. Filed(a, w) /\ w.rom = t.rom /\ Len(w.props) = N
    BY <1>10 DEF Alike
  <2>2. fresh \in Seq(Property) /\ Len(fresh) = m /\ \A j \in 1 .. Len(fresh) : fresh[j].key \notin Keys
    BY <1>4
  <2>4. /\ Filed(a, Longer(w, fresh)) /\ Longer(w, fresh).rom = w.rom /\ Used(Longer(w, fresh)) = Used(w)
        /\ Len(Longer(w, fresh).props) = Len(w.props) + Len(fresh)
        /\ \A j \in 1 .. Len(w.props) : Longer(w, fresh).props[j] = w.props[j]
        /\ \A j \in 1 .. Len(fresh) : Longer(w, fresh).props[Len(w.props) + j] = fresh[j]
    <3>1. \A j \in 1 .. Len(fresh) : fresh[j].key \notin Keys
      BY <2>2
    <3>2. Filed(a, w)
      BY <2>1
    <3>3. fresh \in Seq(Property)
      BY <2>2
    <3>4. ASSUME NEW f, f = fresh
          PROVE  /\ Filed(a, Longer(w, f)) /\ Longer(w, f).rom = w.rom /\ Used(Longer(w, f)) = Used(w)
                 /\ Len(Longer(w, f).props) = Len(w.props) + Len(f)
                 /\ \A j \in 1 .. Len(w.props) : Longer(w, f).props[j] = w.props[j]
                 /\ \A j \in 1 .. Len(f) : Longer(w, f).props[Len(w.props) + j] = f[j]
      <4>1. f \in Seq(Property) /\ \A j \in 1 .. Len(f) : f[j].key \notin Keys
        BY <3>1, <3>3, <3>4
      <4> QED
        BY <3>2, <4>1, LongerIs
    <3> QED
      BY <3>4
  <2>3. /\ Filed(a, e) /\ e.rom = w.rom /\ Used(e) = Used(w)
        /\ Len(e.props) = Len(w.props) + Len(fresh)
        /\ \A j \in 1 .. Len(w.props) : e.props[j] = w.props[j]
        /\ \A j \in 1 .. Len(fresh) : e.props[Len(w.props) + j] = fresh[j]
    BY <1>5, <2>4
  <2> QED
    BY <2>1, <2>2, <2>3
<1>7. /\ Used(e) = Used(t)
      /\ \A j \in 1 .. N : e.props[j].key = t.props[j].key
      /\ \A j \in 1 .. m : e.props[N + j].key = IF j = m THEN Uninitialized ELSE Undefined
      /\ DOMAIN e.props = 1 .. N + m /\ Typed(e)
  <2>1. Used(e) = Used(t)
    BY <1>10, <1>6, AlikeUsed
  <2>2. \A j \in 1 .. N : w.props[j].key = t.props[j].key
    BY <1>1, <1>10 DEF Alike
  <2>3. Typed(e)
    BY <1>6 DEF Filed
  <2>4. DOMAIN e.props = 1 .. N + m
    BY <1>6, <2>3, Fields
  <2>5. \A j \in 1 .. N : e.props[j].key = t.props[j].key
    BY <1>6, <2>2
  <2>6. \A j \in 1 .. m : e.props[N + j].key = IF j = m THEN Uninitialized ELSE Undefined
    BY <1>4, <1>6
  <2> QED
    BY <2>1, <2>3, <2>4, <2>5, <2>6, Zenon
<1>8. RoomAt(e, N + 1)
  <2>1. \A j \in 1 .. N : t.props[j].key # Undefined
    BY <1>1, NoneUncleared
  <2>2. ASSUME NEW j \in 1 .. N + m
        PROVE  /\ e.props[j].key \in Keys => j < N + 1
               /\ e.props[j].key = Undefined => N + 1 <= j
    <3>1. CASE j <= N
      <4>1. j \in 1 .. N
        BY <1>1, <3>1
      <4> QED
        BY <1>1, <1>7, <2>1, <4>1
    <3>2. CASE ~(j <= N)
      <4>1. j - N \in 1 .. m /\ N + (j - N) = j
        BY <1>1, <3>2
      <4>2. e.props[j].key \in {Undefined, Uninitialized}
        BY <1>7, <4>1
      <4> QED
        BY <1>1, <3>2, <4>2, PropsAssumption DEF Undefined, Uninitialized
    <3> QED
      BY <3>1, <3>2
  <2>3. LastFree(e)
    <3>1. e.props[N + m].key = Uninitialized
      <4>1. m \in 1 .. m
        OBVIOUS
      <4> QED
        BY <1>7, <4>1, Zenon
    <3>2. Len(e.props) = N + m /\ N + m > 0
      BY <1>1, <1>6
    <3> QED
      BY <1>7, <3>1, <3>2, LastFreeIs
  <2>4. N + 1 \in 1 .. Len(e.props)
    BY <1>1, <1>6
  <2> QED
    BY <1>7, <2>2, <2>3, <2>4 DEF RoomAt
<1>9. \A i \in Used(t) : i \in 1 .. N
  BY <1>1 DEF Used
<1>11. Entries(e) = Entries(t)
  <2>1. Used(w) \in SUBSET (1 .. N)
    BY <1>1, <1>10, AlikeUsed DEF Used
  <2>2. \A j \in Used(w) : Entry(e.props[j]) = Entry(w.props[j])
    BY <1>6, <2>1
  <2>3. Entries(e) = Entries(w)
    BY <1>1, <1>6, <2>1, <2>2, SameEntries
  <2> QED
    BY <1>10, <2>3
<1> QED
  BY <1>6, <1>7, <1>8, <1>9, <1>11 DEF e

\* js_create_property makes a property there is not.
LEMMA CreateKeeps ==
    ASSUME NEW s, InOrder(s), ~s.table.rom,
           NEW k \in Keys, ~\E j \in Used(s.table) : s.table.props[j].key = k,
           NEW kind \in {"normal", "special", "getset", "varref"}, NEW v \in Values,
           NEW y \in Create(s, Slot(k, kind, v))
    PROVE  InOrder(y) /\ Entries(y.table) = Append(Entries(s.table), Entry(Slot(k, kind, v)))
<1> DEFINE slot == Slot(k, kind, v)
<1>1. CASE LastFree(s.table)
  <2> DEFINE t == s.table
             u == Created(s.addr, t, FirstFree(t), slot)
  <2>1. y = [s EXCEPT !.table = u]
    BY <1>1 DEF Create
  <2>2. s = [addr |-> s.addr, table |-> t] /\ s.addr \in [Movable -> Nat] /\ Sound(t) /\ Linked(s.addr, t)
    BY DEF InOrder
  <2>3. PICK f \in 1 .. Len(t.props) + 1 :
          /\ FirstFree(t) = Offset(t.mask, f)
          /\ LastFree(t) => f <= Len(t.props)
          /\ \A i \in DOMAIN t.props : /\ t.props[i].key \in Keys => i < f
                                       /\ t.props[i].key = Undefined => f <= i
    BY <2>2, Zenon DEF Sound, FreeKnown
  <2>4. Len(t.props) \in Nat
    BY <2>2, Fields DEF Sound
  <2>5. RoomAt(t, f)
    BY <1>1, <2>3, <2>4 DEF RoomAt
  <2>6. Filed(s.addr, t)
    BY <2>2 DEF Sound, Filed
  <2>7. Sound(u) /\ Linked(s.addr, u) /\ Entries(u) = Append(Entries(t), Entry(slot))
    BY <2>2, <2>3, <2>5, <2>6, CreatedKeeps
  <2> HIDE DEF u, t
  <2>8. y = [addr |-> s.addr, table |-> u]
    BY <2>1, <2>2
  <2> QED
    BY <2>2, <2>7, <2>8 DEF InOrder, t
<1>2. CASE ~LastFree(s.table)
  <2>1. PICK x \in AfterAlloc(s) :
          y = [x EXCEPT !.table = LET t == Extended(x.addr, x.table)
                                      idx == Offset(t.mask, Len(x.table.props) + 1)
                                  IN Created(x.addr, t, idx, slot)]
    BY <1>2, Zenon DEF Create
  <2> DEFINE t == x.table
             e == Extended(x.addr, t)
             i == Len(t.props) + 1
             u == Created(x.addr, e, Offset(e.mask, i), slot)
  <2>2. InOrder(x) /\ Alike(s.table, t) /\ ~t.rom /\ Entries(t) = Entries(s.table)
    BY AfterAllocKeeps
  <2>3. x = [addr |-> x.addr, table |-> t] /\ x.addr \in [Movable -> Nat] /\ Sound(t) /\ Linked(x.addr, t)
    BY <2>2 DEF InOrder
  <2>4. Typed(s.table) /\ Typed(t)
    BY <2>3 DEF InOrder, Sound
  <2>5. ~LastFree(t)
    <3>1. Len(s.table.props) \in Nat /\ DOMAIN s.table.props = 1 .. Len(s.table.props)
      BY <2>4, Fields
    <3> QED
      BY <1>2, <2>2, <2>4, <3>1, LastFreeIs DEF Alike
  <2>6. ~\E j \in Used(t) : t.props[j].key = k
    BY <2>2, AlikeUsed DEF Alike, Used
  <2>7. /\ Filed(x.addr, e) /\ ~e.rom /\ RoomAt(e, i) /\ Used(e) = Used(t)
        /\ \A j \in Used(t) : e.props[j].key = t.props[j].key
        /\ Entries(e) = Entries(t)
    BY <2>2, <2>3, <2>5, ExtendedIs
  <2>8. y = [x EXCEPT !.table = u]
    BY <2>1
  <2> HIDE DEF e, i
  <2>9. Sound(u) /\ Linked(x.addr, u) /\ Entries(u) = Append(Entries(e), Entry(slot))
    BY <2>3, <2>6, <2>7, CreatedKeeps
  <2> HIDE DEF u, t
  <2>10. y = [addr |-> x.addr, table |-> u]
    BY <2>3, <2>8
  <2> QED
    BY <2>2, <2>3, <2>7, <2>9, <2>10 DEF InOrder
<1> QED
  BY <1>1, <1>2

-----------------------------------------------------------------------------
(* JS_DeleteProperty.                                                      *)

\* The latest of some places when one of them is gone.
LEMMA LatestWithout ==
    ASSUME NEW mask \in Nat, NEW n \in Nat, NEW T \in SUBSET (1 .. n), NEW i \in T
    PROVE  /\ Latest(mask, T) = Offset(mask, i) => \A j \in T : j <= i
           /\ (\A j \in T : j <= i) => T \ {i} = Before(T, i)
           /\ (\E j \in T : i < j) => Latest(mask, T \ {i}) = Latest(mask, T)
<1>1. PICK g \in T : (\A j \in T : j <= g) /\ Latest(mask, T) = Offset(mask, g)
  BY LatestIs
<1>2. ASSUME Latest(mask, T) = Offset(mask, i) PROVE i = g
  <2>1. i \in Nat /\ g \in Nat
    OBVIOUS
  <2>2. Offset(mask, i) = Offset(mask, g)
    BY <1>1, <1>2
  <2> QED
    BY <2>1, <2>2 DEF Offset, Base
<1>3. ASSUME \A j \in T : j <= i PROVE T \ {i} = Before(T, i)
  <2>1. \A j \in T : j # i <=> j < i
    BY <1>3
  <2> QED
    BY <2>1 DEF Before
<1>4. ASSUME NEW j \in T, i < j PROVE Latest(mask, T \ {i}) = Latest(mask, T)
  <2>1. g \in T \ {i} /\ T \ {i} \in SUBSET (1 .. n) /\ \A l \in T \ {i} : l <= g
    BY <1>1, <1>4
  <2>2. Latest(mask, T \ {i}) = Offset(mask, g)
    BY <2>1, LatestIs
  <2> QED
    BY <1>1, <2>2
<1> QED
  BY <1>1, <1>2, <1>3, <1>4

\* The offset that a walk along the chain of bucket b has just before place i, or 0.
Precedes(a, t, last, i, b) ==
    \/ last = 0 /\ t.heads[b] = Offset(t.mask, i)
    \/ \E j \in InBucket(a, t, b) : last = Offset(t.mask, j) /\ t.props[j].next = Offset(t.mask, i)

\* The table with the links around place i in bucket b.
Without(a, t, i, u) ==
    /\ Typed(u) /\ u.rom = t.rom /\ u.count = t.count /\ u.mask = t.mask
    /\ Len(u.props) = Len(t.props) /\ u.props[i].key = Uninitialized
    /\ \A l \in 1 .. Len(t.props) : /\ l # i => u.props[l].key = t.props[l].key /\ Entry(u.props[l]) = Entry(t.props[l])
                                    /\ l \notin Used(t) => u.props[l] = t.props[l]
    /\ \A c \in 0 .. t.mask : u.heads[c] = Latest(t.mask, InBucket(a, t, c) \ {i})
    /\ \A l \in Used(t) \ {i} :
        u.props[l].next = Latest(t.mask, Before(InBucket(a, t, Bucket(a, t.props[l].key, t.mask)) \ {i}, l))

LEMMA UnlinkedIs ==
    ASSUME NEW a \in [Movable -> Nat], NEW t, Filed(a, t), NEW i \in Used(t),
           NEW b, b = Bucket(a, t.props[i].key, t.mask), NEW last, Precedes(a, t, last, i, b)
    PROVE  Without(a, t, i, Unlinked(t, i, last, b))
<1> DEFINE N == Len(t.props)
           S == InBucket(a, t, b)
           next == t.props[i].next
           gone == Slot(Uninitialized, "normal", Undefined)
           u == Unlinked(t, i, last, b)
<1>1. Typed(t) /\ Linked(a, t)
  BY DEF Filed
<1>2. /\ t = [rom |-> t.rom, count |-> t.count, mask |-> t.mask, heads |-> t.heads, props |-> t.props]
      /\ t.rom \in BOOLEAN /\ t.count \in Nat /\ t.mask \in Nat /\ t.heads \in [0 .. t.mask -> Nat]
      /\ t.props \in Seq(Property) /\ N \in Nat /\ DOMAIN t.props = 1 .. N
      /\ \A l \in 1 .. N : t.props[l] \in Property
  BY <1>1, Fields
<1>3. /\ i \in 1 .. N /\ i \in S /\ b \in 0 .. t.mask
      /\ \A c : InBucket(a, t, c) \in SUBSET (1 .. N) /\ InBucket(a, t, c) \in SUBSET Used(t)
      /\ \A c : c # b => i \notin InBucket(a, t, c)
  BY <1>1, InBuckets DEF InBucket
<1>4. gone \in Property /\ gone.key = Uninitialized
  BY DEF gone, Slot, Property
<1>5. next \in Nat /\ next = Latest(t.mask, Before(S, i))
  <2>1. next = Latest(t.mask, Before(S, i))
    BY <1>1 DEF Linked
  <2>2. Before(S, i) \in SUBSET (1 .. N)
    BY <1>3 DEF Before
  <2> DEFINE T == Before(S, i)
  <2>3. T \in SUBSET (1 .. N) /\ t.mask \in Nat /\ N \in Nat /\ next = Latest(t.mask, T)
    BY <1>2, <2>1, <2>2
  <2> HIDE DEF T, N, next
  <2>4. Latest(t.mask, T) \in Nat
    BY <2>3, LatestIs
  <2> QED
    BY <2>3, <2>4 DEF T
<1>6. /\ \A c \in 0 .. t.mask : t.heads[c] = Latest(t.mask, InBucket(a, t, c))
      /\ \A l \in Used(t) : t.props[l].next = Latest(t.mask, Before(InBucket(a, t, Bucket(a, t.props[l].key, t.mask)), l))
  BY <1>1 DEF Linked
<1>7. \A c : c # b => InBucket(a, t, c) \ {i} = InBucket(a, t, c)
  BY <1>3
<1>8. ASSUME NEW l, NEW c, c # b PROVE Before(InBucket(a, t, c) \ {i}, l) = Before(InBucket(a, t, c), l)
  BY <1>7, <1>8
<1>9. ASSUME NEW l \in S, l < i PROVE Before(S \ {i}, l) = Before(S, l)
  <2>1. ~(i < l)
    <3>1. l \in 1 .. N
      BY <1>3
    <3> QED
      BY <1>3, <1>9, <3>1
  <2> QED
    BY <2>1 DEF Before
<1> HIDE DEF gone, next, Property
<1>10. CASE last = 0 /\ t.heads[b] = Offset(t.mask, i)
  <2> DEFINE heads == [t.heads EXCEPT ![b] = next]
             props == [t.props EXCEPT ![i] = gone]
  <2>1. u = [t EXCEPT !.heads = heads, !.props = props]
    BY <1>10 DEF Unlinked, next, gone
  <2>2. heads \in [0 .. t.mask -> Nat] /\ heads[b] = next /\ \A c \in 0 .. t.mask : c # b => heads[c] = t.heads[c]
    BY <1>2, <1>3, <1>5
  <2>3. /\ props \in Seq(Property) /\ Len(props) = N /\ props[i] = gone
        /\ \A l \in 1 .. N : l # i => props[l] = t.props[l]
    BY <1>2, <1>3, <1>4, PlaceChanges
  <2> HIDE DEF heads, props, u
  <2>4. u = [rom |-> t.rom, count |-> t.count, mask |-> t.mask, heads |-> heads, props |-> props]
    BY <1>2, <2>1
  <2>5. Typed(u)
    BY <1>2, <2>2, <2>3, <2>4, IsTyped
  <2>6. u.rom = t.rom /\ u.count = t.count /\ u.mask = t.mask /\ u.heads = heads /\ u.props = props
    BY <2>4
  <2>7. \A l \in S : l <= i
    <3>1. t.mask \in Nat /\ N \in Nat /\ S \in SUBSET (1 .. N) /\ i \in S /\ Latest(t.mask, S) = Offset(t.mask, i)
      BY <1>2, <1>3, <1>6, <1>10
    <3> HIDE DEF S, N
    <3> QED
      BY <3>1, LatestWithout
  <2>8. S \ {i} = Before(S, i)
    BY <1>2, <1>3, <2>7, LatestWithout
  <2>9. \A c \in 0 .. t.mask : u.heads[c] = Latest(t.mask, InBucket(a, t, c) \ {i})
    BY <1>5, <1>6, <1>7, <2>2, <2>6, <2>8
  <2>10. ASSUME NEW l \in Used(t) \ {i}
         PROVE  u.props[l].next = Latest(t.mask, Before(InBucket(a, t, Bucket(a, t.props[l].key, t.mask)) \ {i}, l))
    <3> DEFINE c == Bucket(a, t.props[l].key, t.mask)
    <3>1. u.props[l].next = Latest(t.mask, Before(InBucket(a, t, c), l))
      BY <1>2, <1>6, <2>3, <2>6 DEF Used
    <3>2. CASE c # b
      BY <1>8, <3>1, <3>2
    <3>3. CASE c = b
      <4>1. l \in S
        BY <3>3 DEF InBucket
      <4>2. l < i
        BY <1>3, <2>7, <4>1
      <4> QED
        BY <1>9, <3>1, <3>3, <4>1, <4>2
    <3> QED
      BY <3>2, <3>3
  <2>11. /\ Len(u.props) = N /\ u.props[i].key = Uninitialized
         /\ \A l \in 1 .. N : /\ l # i => u.props[l].key = t.props[l].key /\ Entry(u.props[l]) = Entry(t.props[l])
                              /\ l \notin Used(t) => u.props[l] = t.props[l]
    BY <1>3, <1>4, <2>3, <2>6
  <2>12. Without(a, t, i, u)
    BY <2>5, <2>6, <2>9, <2>10, <2>11, Zenon DEF Without
  <2> QED
    BY <2>12 DEF u
<1>11. ASSUME NEW j \in S, last = Offset(t.mask, j), t.props[j].next = Offset(t.mask, i)
       PROVE  Without(a, t, i, u)
  <2> DEFINE x == [t.props[j] EXCEPT !.next = next]
             mid == [t.props EXCEPT ![j] = x]
             props == [mid EXCEPT ![i] = gone]
  <2>1. j \in 1 .. N /\ j \in Used(t) /\ Bucket(a, t.props[j].key, t.mask) = b
    BY <1>3 DEF InBucket
  <2>2. last # 0 /\ Place(t, last) = j
    <3>1. j \in Nat \ {0}
      BY <2>1
    <3> QED
      BY <1>2, <1>11, <3>1, PlaceOfOffset
  <2>3. i \in Before(S, j) /\ \A l \in Before(S, j) : l <= i
    <3>1. Before(S, j) \in SUBSET (1 .. N)
      BY <1>3 DEF Before
    <3>2. Latest(t.mask, Before(S, j)) = Offset(t.mask, i)
      BY <1>6, <1>11, <2>1
    <3>3. Offset(t.mask, i) # 0
      <4>1. i \in Nat \ {0}
        BY <1>3
      <4> QED
        BY <1>2, <4>1, PlaceOfOffset
    <3>4. PICK g \in Before(S, j) : (\A l \in Before(S, j) : l <= g) /\ Offset(t.mask, g) = Offset(t.mask, i)
      <4> DEFINE T == Before(S, j)
      <4>1. T \in SUBSET (1 .. N) /\ Latest(t.mask, T) = Offset(t.mask, i) /\ Offset(t.mask, i) # 0
        BY <3>1, <3>2, <3>3
      <4> HIDE DEF T, N
      <4>2. T # {}
        BY <1>2, <4>1, LatestIs
      <4>3. \E g \in T : (\A l \in T : l <= g) /\ Latest(t.mask, T) = Offset(t.mask, g)
        BY <1>2, <4>1, <4>2, LatestIs
      <4>4. \E g \in T : (\A l \in T : l <= g) /\ Offset(t.mask, g) = Offset(t.mask, i)
        BY <4>1, <4>3
      <4> QED
        BY <4>4 DEF T
    <3>5. g = i
      <4>1. g \in Nat /\ i \in Nat
        BY <1>3, <3>1, <3>4
      <4> QED
        BY <1>2, <3>4, <4>1 DEF Offset, Base
    <3> QED
      BY <3>4, <3>5
  <2>4. i < j
    BY <2>3 DEF Before
  <2>5. u = [t EXCEPT !.props = props]
    BY <2>2 DEF Unlinked, next, gone
  <2>6. /\ x \in Property /\ x.key = t.props[j].key /\ x.next = next
        /\ x.kind = t.props[j].kind /\ x.value = t.props[j].value
    <3> DEFINE p == t.props[j]
    <3>1. p \in Property /\ next \in Nat /\ x = [p EXCEPT !.next = next]
      BY <1>2, <1>5, <2>1
    <3> HIDE DEF p, x
    <3>2. /\ x \in Property /\ x.key = p.key /\ x.next = next
          /\ x.kind = p.kind /\ x.value = p.value
      BY <3>1 DEF Property
    <3> QED
      BY <3>2 DEF p
  <2>16. Entry(x) = Entry(t.props[j])
    BY <2>6 DEF Entry
  <2> HIDE DEF x
  <2>7. /\ mid \in Seq(Property) /\ Len(mid) = N /\ mid[j] = x
        /\ \A l \in 1 .. N : l # j => mid[l] = t.props[l]
    BY <1>2, <2>1, <2>6, PlaceChanges
  <2> HIDE DEF mid
  <2>8. /\ props \in Seq(Property) /\ Len(props) = N /\ props[i] = gone
        /\ \A l \in 1 .. N : l # i => props[l] = mid[l]
    BY <1>3, <1>4, <2>7, PlaceChanges
  <2> HIDE DEF props, u
  <2>9. u = [rom |-> t.rom, count |-> t.count, mask |-> t.mask, heads |-> t.heads, props |-> props]
    BY <1>2, <2>5
  <2>10. Typed(u)
    BY <1>2, <2>8, <2>9, IsTyped
  <2>11. u.rom = t.rom /\ u.count = t.count /\ u.mask = t.mask /\ u.heads = t.heads /\ u.props = props
    BY <2>9
  <2>12. \A c \in 0 .. t.mask : u.heads[c] = Latest(t.mask, InBucket(a, t, c) \ {i})
    <3> TAKE c \in 0 .. t.mask
    <3>1. CASE c # b
      BY <1>6, <1>7, <2>11, <3>1
    <3>2. CASE c = b
      <4> DEFINE T == S
      <4>2. T \in SUBSET (1 .. N) /\ i \in T /\ j \in T
        BY <1>3
      <4> HIDE DEF T
      <4>1. Latest(t.mask, T \ {i}) = Latest(t.mask, T)
        BY <1>2, <2>4, <4>2, LatestWithout
      <4> QED
        BY <1>6, <2>11, <3>2, <4>1 DEF T
    <3> QED
      BY <3>1, <3>2
  <2>13. ASSUME NEW l \in Used(t) \ {i}
         PROVE  u.props[l].next = Latest(t.mask, Before(InBucket(a, t, Bucket(a, t.props[l].key, t.mask)) \ {i}, l))
    <3> DEFINE c == Bucket(a, t.props[l].key, t.mask)
    <3>0. l \in 1 .. N
      BY <1>2 DEF Used
    <3>1. l # j => u.props[l].next = Latest(t.mask, Before(InBucket(a, t, c), l))
      BY <1>6, <2>7, <2>8, <2>11, <3>0
    <3>2. CASE c # b
      <4>1. l # j
        BY <2>1, <3>2
      <4> QED
        BY <1>8, <3>1, <3>2, <4>1
    <3>3. CASE c = b /\ l = j
      <4>1. u.props[l].next = next
        BY <2>6, <2>7, <2>8, <2>11, <3>0, <3>3
      <4>2. Before(S \ {i}, j) = Before(S, i)
        <5>1. ASSUME NEW m \in S PROVE (m # i /\ m < j) <=> m < i
          <6>1. m \in 1 .. N /\ (m < j => m <= i)
            BY <1>3, <2>3 DEF Before
          <6> QED
            BY <1>3, <2>1, <2>4, <6>1
        <5> QED
          BY <5>1, <1>3 DEF Before
      <4> QED
        BY <1>5, <3>3, <4>1, <4>2
    <3>4. CASE c = b /\ l # j
      <4>1. l \in S
        BY <3>4 DEF InBucket
      <4>2. CASE l < i
        BY <1>9, <3>1, <3>4, <4>1, <4>2
      <4>3. CASE ~(l < i)
        <5>1. i < l /\ j < l
          <6>1. l < j => l <= i
            BY <2>3, <4>1 DEF Before
          <6> QED
            BY <1>3, <2>1, <3>0, <3>4, <4>3, <6>1
        <5> DEFINE T == Before(S, l)
        <5>2. T \in SUBSET (1 .. N) /\ i \in T /\ j \in T
          BY <1>3, <5>1 DEF Before
        <5>3. Before(S \ {i}, l) = T \ {i}
          BY DEF Before
        <5> HIDE DEF T
        <5>4. Latest(t.mask, T \ {i}) = Latest(t.mask, T)
          BY <1>2, <2>4, <5>2, LatestWithout
        <5> QED
          BY <3>1, <3>4, <5>3, <5>4 DEF T
      <4> QED
        BY <4>2, <4>3
    <3> QED
      BY <3>2, <3>3, <3>4
  <2>14. \A l \in 1 .. N : /\ l # i => u.props[l].key = t.props[l].key /\ Entry(u.props[l]) = Entry(t.props[l])
                           /\ l \notin Used(t) => u.props[l] = t.props[l]
    BY <2>1, <2>6, <2>7, <2>8, <2>11, <2>16
  <2>15. Len(u.props) = N /\ u.props[i].key = Uninitialized
    BY <1>4, <2>8, <2>11
  <2> QED
    BY <2>10, <2>11, <2>12, <2>13, <2>14, <2>15, Zenon DEF Without
<1> QED
  BY <1>10, <1>11 DEF Precedes

\* The table u without a property of t, when the first free place is known again.
Removed(t, u) ==
    LET gone == [u EXCEPT !.count = @ - 1]
        free == FreeAfter(gone, FirstFree(t))
    IN IF free < Words(t) THEN [gone EXCEPT !.props[Len(t.props)].next = free] ELSE gone

LEMMA DeletedIs ==
    ASSUME NEW a, NEW t, NEW idx, NEW last, NEW b, NEW d, d = Removed(t, Unlinked(t, Place(t, idx), last, b))
    PROVE  Deleted(a, t, idx, last, b) =
               IF Base(t.mask) + 3 * t.count < Words(t) \div 2 THEN Compacted(a, d) ELSE d
  BY DEF Deleted, Removed

LEMMA RemovedKeeps ==
    ASSUME NEW a \in [Movable -> Nat], NEW t, Sound(t), ~t.rom, NEW i \in Used(t), NEW u, Without(a, t, i, u)
    PROVE  /\ Sound(Removed(t, u)) /\ Linked(a, Removed(t, u)) /\ ~Removed(t, u).rom
           /\ Dropped(t, Removed(t, u), i)
<1> DEFINE N == Len(t.props)
           gone == [u EXCEPT !.count = @ - 1]
           free == FreeAfter(gone, FirstFree(t))
           x == [u.props[N] EXCEPT !.next = free]
           props == IF free < Words(t) THEN [u.props EXCEPT ![N] = x] ELSE u.props
           d == Removed(t, u)
<1>1. /\ Typed(t) /\ t.mask \in Nat /\ N \in Nat /\ DOMAIN t.props = 1 .. N /\ t.count \in Nat
      /\ i \in 1 .. N /\ \A l \in 1 .. N : t.props[l] \in Property
  BY Fields DEF Sound, Used
<1>2. /\ u.rom = t.rom /\ u.count = t.count /\ u.mask = t.mask /\ Typed(u)
      /\ Len(u.props) = N /\ u.props[i].key = Uninitialized
      /\ \A l \in 1 .. N : /\ l # i => u.props[l].key = t.props[l].key /\ Entry(u.props[l]) = Entry(t.props[l])
                           /\ l \notin Used(t) => u.props[l] = t.props[l]
      /\ \A c \in 0 .. t.mask : u.heads[c] = Latest(t.mask, InBucket(a, t, c) \ {i})
      /\ \A l \in Used(t) \ {i} :
          u.props[l].next = Latest(t.mask, Before(InBucket(a, t, Bucket(a, t.props[l].key, t.mask)) \ {i}, l))
  BY DEF Without
<1>3. /\ u = [rom |-> u.rom, count |-> u.count, mask |-> u.mask, heads |-> u.heads, props |-> u.props]
      /\ u.rom \in BOOLEAN /\ u.heads \in [0 .. t.mask -> Nat] /\ u.props \in Seq(Property) /\ DOMAIN u.props = 1 .. N
      /\ \A l \in 1 .. N : u.props[l] \in Property
  BY <1>2, Fields
<1>4. PICK f \in 1 .. N + 1 :
        /\ FirstFree(t) = Offset(t.mask, f)
        /\ LastFree(t) => f <= N
        /\ \A l \in DOMAIN t.props : /\ t.props[l].key \in Keys => l < f
                                     /\ t.props[l].key = Undefined => f <= l
  BY Zenon DEF Sound, FreeKnown
<1>5. Used(u) = Used(t) \ {i} /\ Used(u) \in SUBSET (1 .. N) /\ Uninitialized \notin Keys
  <2>1. Uninitialized \notin Keys
    BY PropsAssumption DEF Uninitialized
  <2> QED
    BY <1>1, <1>2, <1>3, <2>1 DEF Used
<1>6. gone = [rom |-> u.rom, count |-> u.count - 1, mask |-> u.mask, heads |-> u.heads, props |-> u.props]
  <2>1. gone = [u EXCEPT !.count = u.count - 1]
    OBVIOUS
  <2> HIDE DEF gone
  <2> QED
    BY <1>3, <2>1
<1> HIDE DEF gone, free, d, Property
<1>7. gone.mask = t.mask /\ gone.props = u.props /\ gone.count = t.count - 1
  BY <1>2, <1>6
\* What is taken before the old first free place is what is left.
<1>8. Before(Taken(gone), Place(gone, FirstFree(t))) = Used(u)
  <2>1. Place(gone, FirstFree(t)) = f
    <3>1. f \in Nat \ {0} /\ gone.mask \in Nat
      BY <1>1, <1>4, <1>7
    <3> QED
      BY <1>4, <1>7, <3>1, PlaceOfOffset
  <2>2. Taken(gone) = Taken(u)
    BY <1>7 DEF Taken
  <2>3. ASSUME NEW l \in Taken(u), l < f PROVE l \in Used(u)
    <3>1. l \in 1 .. N /\ u.props[l].key # Uninitialized
      BY <1>3 DEF Taken
    <3>2. u.props[l].key = t.props[l].key
      BY <1>2, <3>1
    <3>3. t.props[l].key # Undefined
      BY <1>1, <1>4, <2>3, <3>1
    <3>4. \A y \in Property : y.key \in Keys \cup {Undefined, Uninitialized}
      BY DEF Property
    <3>5. u.props[l].key \in Keys
      BY <1>3, <3>1, <3>2, <3>3, <3>4
    <3> QED
      BY <1>3, <3>1, <3>5 DEF Used
  <2>4. ASSUME NEW l \in Used(u) PROVE l \in Taken(u) /\ l < f
    <3>1. l \in Taken(u)
      BY <1>5 DEF Used, Taken
    <3>2. l \in DOMAIN t.props /\ t.props[l].key \in Keys
      BY <1>5 DEF Used
    <3> QED
      BY <1>4, <3>1, <3>2
  <2> QED
    BY <2>1, <2>2, <2>3, <2>4 DEF Before
<1>9. PICK e \in 1 .. N + 1 :
        /\ free = Offset(t.mask, e) /\ e <= f
        /\ \A l \in Used(u) : l < e
        /\ e = 1 \/ e - 1 \in Used(u)
  <2>1. CASE Used(u) = {}
    <3>1. free = Base(t.mask)
      BY <1>7, <1>8, <2>1 DEF free, FreeAfter
    <3>2. Base(t.mask) = Offset(t.mask, 1)
      BY <1>1 DEF Base, Offset
    <3>3. 1 \in 1 .. N + 1 /\ 1 <= f
      BY <1>1, <1>4
    <3> QED
      BY <2>1, <3>1, <3>2, <3>3
  <2>2. CASE Used(u) # {}
    <3> DEFINE S == Used(u)
               g == Greatest(S)
    <3>1. S \in SUBSET (0 .. N) /\ S # {}
      BY <1>5, <2>2
    <3>2. free = Offset(t.mask, 1 + g)
      BY <1>7, <1>8, <2>2 DEF free, FreeAfter
    <3>6. \A l \in S : l \in DOMAIN t.props /\ t.props[l].key \in Keys
      BY <1>5 DEF Used
    <3>7. S \in SUBSET (1 .. N)
      BY <1>5
    <3> HIDE DEF S
    <3>3. g \in S /\ \A l \in S : l <= g
      BY <1>1, <3>1, GreatestIsIn
    <3>4. g < f
      BY <1>4, <3>3, <3>6
    <3> HIDE DEF g
    <3>5. 1 + g \in 1 .. N + 1 /\ 1 + g <= f /\ (1 + g) - 1 = g /\ \A l \in S : l < 1 + g
      BY <1>1, <1>4, <3>3, <3>4, <3>7
    <3>8. free = Offset(t.mask, 1 + g) /\ (1 + g) - 1 \in S
      BY <3>2, <3>3, <3>5
    <3> QED
      BY <3>5, <3>8 DEF S
  <2> QED
    BY <2>1, <2>2
<1>10. (free < Words(t) <=> e <= N) /\ free \in Nat /\ Words(t) = Offset(t.mask, N + 1)
  <2>1. free = Base(t.mask) + 3 * (e - 1) /\ Words(t) = Base(t.mask) + 3 * N /\ Base(t.mask) \in Nat
    <3>1. free = Base(t.mask) + 3 * (e - 1)
      BY <1>9, Zenon DEF Offset
    <3>2. Words(t) = Base(t.mask) + 3 * N
      BY DEF Words
    <3>3. Base(t.mask) \in Nat
      BY <1>1 DEF Base
    <3> QED
      BY <3>1, <3>2, <3>3
  <2>2. Words(t) = Offset(t.mask, N + 1)
    BY <1>1 DEF Words, Offset
  <2> HIDE DEF N
  <2>3. e \in Nat /\ e >= 1 /\ N \in Nat
    BY <1>1, <1>9
  <2> DEFINE first == free
             words == Words(t)
             base == Base(t.mask)
  <2>4. first = base + 3 * (e - 1) /\ words = base + 3 * N /\ base \in Nat
    BY <2>1
  <2> HIDE DEF first, words, base
  <2>5. (first < words <=> e <= N) /\ first \in Nat
    BY <2>3, <2>4
  <2> QED
    BY <2>2, <2>5 DEF first, words
<1>11. N \in 1 .. N
  BY <1>1
<1>12. x \in Property /\ x.key = u.props[N].key /\ x.next = free
  BY <1>3, <1>10, <1>11 DEF Property
<1>13. d = [rom |-> u.rom, count |-> u.count - 1, mask |-> u.mask, heads |-> u.heads, props |-> props]
  <2>1. d = IF free < Words(t) THEN [gone EXCEPT !.props[N].next = free] ELSE gone
    BY DEF d, Removed, gone, free
  <2>2. CASE ~(free < Words(t))
    BY <1>6, <2>1, <2>2
  <2>3. CASE free < Words(t)
    <3>1. d = [gone EXCEPT !.props = [u.props EXCEPT ![N] = x]]
      BY <1>7, <2>1, <2>3
    <3> HIDE DEF x
    <3> QED
      BY <1>6, <2>3, <3>1
  <2> QED
    BY <2>2, <2>3
<1> HIDE DEF x
<1>14. /\ props \in Seq(Property) /\ Len(props) = N /\ DOMAIN props = 1 .. N
       /\ \A l \in 1 .. N : props[l].key = u.props[l].key
       /\ \A l \in 1 .. N : l # N => props[l] = u.props[l]
       /\ e <= N => props[N].next = free
       /\ ~(e <= N) => props = u.props
  <2>1. CASE free < Words(t)
    <3>1. props = [u.props EXCEPT ![N] = x]
      BY <2>1
    <3> HIDE DEF props
    <3>2. /\ props \in Seq(Property) /\ Len(props) = N /\ DOMAIN props = 1 .. N /\ props[N] = x
          /\ \A l \in 1 .. N : l # N => props[l] = u.props[l]
      BY <1>2, <1>3, <1>11, <1>12, <3>1, PlaceChanges
    <3> QED
      BY <1>10, <1>12, <2>1, <3>2
  <2>2. CASE ~(free < Words(t))
    <3>1. props = u.props
      BY <2>2
    <3> HIDE DEF props
    <3> QED
      BY <1>2, <1>3, <1>10, <2>2, <3>1
  <2> QED
    BY <2>1, <2>2
<1> HIDE DEF props
<1>15. /\ d.rom = t.rom /\ d.count = t.count - 1 /\ d.mask = t.mask /\ d.heads = u.heads /\ d.props = props
  BY <1>2, <1>13
<1>16. /\ IsFiniteSet(Used(t)) /\ t.count = Cardinality(Used(t)) /\ Cardinality(Used(u)) = t.count - 1
       /\ t.count - 1 \in Nat
  <2>1. Used(t) \in SUBSET (1 .. N)
    BY <1>1 DEF Used
  <2>2. IsFiniteSet(Used(t))
    BY <1>1, <2>1, Counting
  <2>3. t.count = Cardinality(Used(t))
    BY DEF Sound, Counted
  <2>4. Cardinality(Used(t) \ {i}) = Cardinality(Used(t)) - 1 /\ IsFiniteSet(Used(t) \ {i})
    BY <2>2, FS_RemoveElement
  <2>5. Cardinality(Used(u)) \in Nat
    BY <1>5, <2>4, FS_CardinalityType
  <2> QED
    BY <1>5, <2>2, <2>3, <2>4, <2>5
<1>17. Typed(d)
  <2>1. u.count - 1 \in Nat /\ u.mask \in Nat /\ u.heads \in [0 .. u.mask -> Nat]
    BY <1>1, <1>2, <1>3, <1>16
  <2> QED
    BY <1>3, <1>13, <1>14, <2>1, IsTyped
<1> HIDE DEF d
<1>18. Used(d) = Used(u)
  BY <1>3, <1>14, <1>15 DEF Used
\* A place that is not in use is free; only then is its link written.
<1>19. ASSUME e <= N PROVE d.props[N].key = Uninitialized /\ N \notin Used(u)
  <2>1. N \notin Used(u)
    BY <1>1, <1>9, <1>19
  <2>2. d.props[N].key = u.props[N].key
    BY <1>11, <1>14, <1>15
  <2>3. CASE N = i
    BY <1>2, <2>1, <2>2, <2>3
  <2>4. CASE N # i
    <3>1. u.props[N].key = t.props[N].key
      BY <1>2, <1>11, <2>4
    <3>2. t.props[N].key \notin Keys
      BY <1>1, <1>3, <1>11, <2>1, <3>1 DEF Used
    <3>3. LastFree(t) => t.props[N].key = Uninitialized
      BY <1>1, LastFreeIs
    <3>4. ~LastFree(t) => t.props[N].key # Undefined
      BY <1>1, <1>11, NoneUncleared
    <3>5. \A y \in Property : y.key \in Keys \cup {Undefined, Uninitialized}
      BY DEF Property
    <3>6. t.props[N].key = Uninitialized
      BY <1>1, <1>11, <3>2, <3>3, <3>4, <3>5
    <3> QED
      BY <2>1, <2>2, <3>1, <3>6
  <2> QED
    BY <2>3, <2>4
<1>20. FreeKnown(d)
  <2>1. /\ DOMAIN d.props = 1 .. N /\ Len(d.props) = N
        /\ \A l \in 1 .. N : /\ d.props[l].key \in Keys => l < e
                             /\ d.props[l].key = Undefined => e <= l
    <3>1. ASSUME NEW l \in 1 .. N, d.props[l].key = Undefined PROVE e <= l
      <4>1. u.props[l].key = Undefined
        BY <1>14, <1>15, <3>1
      <4>2. l # i
        BY <1>2, <4>1 DEF Undefined, Uninitialized
      <4>3. t.props[l].key = Undefined
        BY <1>2, <4>1, <4>2
      <4>4. f <= l
        BY <1>1, <1>4, <4>3
      <4> QED
        BY <1>4, <1>9, <4>4
    <3>2. ASSUME NEW l \in 1 .. N, d.props[l].key \in Keys PROVE l < e
      <4>1. l \in Used(u)
        BY <1>14, <1>15, <1>18, <3>2 DEF Used
      <4> QED
        BY <1>9, <4>1
    <3> QED
      BY <1>14, <1>15, <3>1, <3>2
  <2>2. Words(d) = Words(t)
    BY <1>15, <2>1 DEF Words
  <2>3. FirstFree(d) = Offset(d.mask, e) /\ (LastFree(d) => e <= N)
    <3>1. CASE e <= N
      <4>1. LastFree(d)
        BY <1>1, <1>17, <1>19, <2>1, <3>1, LastFreeIs
      <4>2. FirstFree(d) = d.props[N].next
        BY <2>1, <4>1 DEF FirstFree, Last
      <4> QED
        BY <1>9, <1>14, <1>15, <3>1, <4>2
    <3>2. CASE ~(e <= N)
      <4>1. e = N + 1 /\ e - 1 = N
        BY <1>1, <1>9, <3>2
      <4>2. N \in Used(u)
        BY <1>1, <1>9, <4>1
      <4>3. d.props[N].key \in Keys
        BY <1>18, <4>2 DEF Used
      <4>4. ~LastFree(d)
        BY <1>5, <1>17, <2>1, <4>3, LastFreeIs
      <4> QED
        BY <1>10, <1>15, <2>2, <4>1, <4>4 DEF FirstFree
    <3> QED
      BY <3>1, <3>2
  <2>4. e \in 1 .. Len(d.props) + 1
    BY <1>9, <2>1
  <2> QED
    BY <2>1, <2>3, <2>4, Zenon DEF FreeKnown
<1>21. \A l \in Used(u) : d.props[l] = u.props[l] /\ d.props[l].key = t.props[l].key /\ l \in Used(t) \ {i}
  <2> TAKE l \in Used(u)
  <2>1. l \in 1 .. N /\ l \in Used(t) \ {i}
    BY <1>5
  <2>2. d.props[l] = u.props[l]
    <3>1. CASE e <= N
      BY <1>14, <1>15, <1>19, <2>1, <3>1
    <3>2. CASE ~(e <= N)
      BY <1>14, <1>15, <3>2
    <3> QED
      BY <3>1, <3>2
  <2> QED
    BY <1>2, <2>1, <2>2
<1>22. Distinct(d) /\ Counted(d) /\ RomIsFixed(d)
  <2>1. Distinct(d)
    BY <1>18, <1>21 DEF Sound, Distinct
  <2>2. Counted(d)
    BY <1>15, <1>16, <1>18 DEF Counted
  <2>3. RomIsFixed(d)
    BY <1>15 DEF RomIsFixed
  <2> QED
    BY <2>1, <2>2, <2>3
<1>23. Sound(d)
  BY <1>17, <1>20, <1>22 DEF Sound
<1>24. \A c : InBucket(a, d, c) = InBucket(a, t, c) \ {i}
  BY <1>5, <1>15, <1>18, <1>21 DEF InBucket
<1>25. Linked(a, d)
  <2>1. \A c \in 0 .. d.mask : d.heads[c] = Latest(d.mask, InBucket(a, d, c))
    BY <1>2, <1>15, <1>24
  <2>2. ASSUME NEW l \in Used(d)
        PROVE  d.props[l].next = Latest(d.mask, Before(InBucket(a, d, Bucket(a, d.props[l].key, d.mask)), l))
    <3>1. l \in Used(t) \ {i} /\ d.props[l] = u.props[l] /\ d.props[l].key = t.props[l].key
      BY <1>18, <1>21
    <3>2. u.props[l].next = Latest(t.mask, Before(InBucket(a, t, Bucket(a, t.props[l].key, t.mask)) \ {i}, l))
      BY <1>2, <3>1
    <3> QED
      BY <1>15, <1>24, <3>1, <3>2
  <2> QED
    BY <2>1, <2>2 DEF Linked
<1>26. Dropped(t, d, i)
  <2>1. Kept(t, d, Used(d))
    <3>1. ASSUME NEW l \in Used(d) PROVE Entry(d.props[l]) = Entry(t.props[l])
      <4>1. l \in 1 .. N /\ l # i /\ d.props[l] = u.props[l]
        BY <1>5, <1>18, <1>21
      <4> QED
        BY <1>2, <4>1
    <3> QED
      BY <3>1 DEF Kept
  <2>2. Used(d) = Used(t) \ {i}
    BY <1>5, <1>18
  <2> QED
    BY <1>1, <2>1, <2>2, EntriesDropped
<1> QED
  BY <1>15, <1>23, <1>25, <1>26 DEF d

LEMMA HashMaskIs ==
    ASSUME NEW count \in Nat
    PROVE  HashMask(count) \in Nat
<1> DEFINE masks == {m \in 0 .. count : m = 0 \/ (m + 1 < count /\ \E e \in 1 .. 30 : m + 1 = 2 ^ e)}
<1>1. masks \in SUBSET (0 .. count) /\ 0 \in masks
  OBVIOUS
<1>2. HashMask(count) = Greatest(masks)
  BY DEF HashMask
<1> HIDE DEF masks
<1>3. Greatest(masks) \in masks
  BY <1>1, GreatestIsIn
<1>4. Greatest(masks) \in 0 .. count
  BY <1>1, <1>3
<1> QED
  BY <1>2, <1>4

LEMMA EmptyInOrder ==
    ASSUME NEW a
    PROVE  Sound(Empty) /\ Linked(a, Empty)
<1>1. /\ Empty.rom = FALSE /\ Empty.count = 0 /\ Empty.mask = 0 /\ Empty.props = <<>>
      /\ Empty.heads = [b \in {0} |-> 0]
  BY DEF Empty
<1>2. Typed(Empty)
  <2>1. [b \in {0} |-> 0] \in [0 .. 0 -> Nat] /\ <<>> \in Seq(Property)
    OBVIOUS
  <2>2. Empty = [rom |-> FALSE, count |-> 0, mask |-> 0, heads |-> [b \in {0} |-> 0], props |-> <<>>]
    BY DEF Empty
  <2>3. FALSE \in BOOLEAN /\ 0 \in Nat
    OBVIOUS
  <2> QED
    BY <2>1, <2>2, <2>3, IsTyped
<1>3. Used(Empty) = {} /\ DOMAIN Empty.props = {} /\ Len(Empty.props) = 0
  BY <1>1 DEF Used
<1>4. Linked(a, Empty)
  <2>1. \A b : InBucket(a, Empty, b) = {}
    BY <1>3 DEF InBucket
  <2>2. \A b \in 0 .. 0 : Empty.heads[b] = 0
    BY <1>1
  <2> QED
    BY <1>1, <1>3, <2>1, <2>2 DEF Linked, Latest
<1>5. FreeKnown(Empty)
  <2>1. ~LastFree(Empty) /\ FirstFree(Empty) = Offset(Empty.mask, 1)
    BY <1>1, <1>3 DEF LastFree, FirstFree, Words, Offset, Base
  <2>2. 1 \in 1 .. Len(Empty.props) + 1
    BY <1>3
  <2> QED
    BY <1>3, <2>1, <2>2, Zenon DEF FreeKnown
<1>6. Distinct(Empty) /\ Counted(Empty) /\ RomIsFixed(Empty)
  BY <1>1, <1>3, FS_EmptySet DEF Distinct, Counted, RomIsFixed
<1> QED
  BY <1>2, <1>4, <1>5, <1>6 DEF Sound

\* js_compact_props
LEMMA CompactedKeeps ==
    ASSUME NEW a \in [Movable -> Nat], NEW t, Sound(t), Linked(a, t), ~t.rom
    PROVE  /\ Sound(Compacted(a, t)) /\ Linked(a, Compacted(a, t)) /\ ~Compacted(a, t).rom
           /\ Entries(Compacted(a, t)) = Entries(t)
<1> DEFINE N == Len(t.props)
           M == t.count
           mask == IF HashMask(M) < t.mask THEN HashMask(M) ELSE t.mask
           kept == [i \in 1 .. M |-> t.props[Nth(Taken(t), i)]]
           heads == [b \in 0 .. mask |-> 0]
           u == [rom |-> t.rom, count |-> M, mask |-> mask, heads |-> heads, props |-> kept]
           w == Rehash(a, u)
<1>1. CASE M = 0
  <2>1. Compacted(a, t) = Empty
    BY <1>1 DEF Compacted
  <2>2. Empty.rom = FALSE /\ Empty.props = <<>>
    BY DEF Empty
  <2>3. Used(Empty) = {} /\ Used(t) = {}
    <3>1. Len(t.props) \in Nat /\ Used(t) \in SUBSET (1 .. Len(t.props)) /\ Cardinality(Used(t)) = 0
      BY <1>1, Fields DEF Sound, Used, Counted
    <3>2. IsFiniteSet(Used(t))
      BY <3>1, Counting
    <3> QED
      BY <2>2, <3>1, <3>2, FS_EmptySet DEF Used
  <2>4. Entries(Empty) = Entries(t)
    BY <2>3, 0 \in Nat, SameEntries, Zenon
  <2> QED
    BY <2>1, <2>2, <2>4, EmptyInOrder
<1>2. CASE M # 0 /\ Base(mask) + 3 * M >= Words(t)
  <2>1. Compacted(a, t) = t
    BY <1>2 DEF Compacted
  <2> QED
    BY <2>1
<1>3. CASE M # 0 /\ ~(Base(mask) + 3 * M >= Words(t))
  <2>1. /\ Typed(t) /\ t.mask \in Nat /\ M \in Nat /\ t.rom \in BOOLEAN /\ N \in Nat /\ DOMAIN t.props = 1 .. N
        /\ t = [rom |-> t.rom, count |-> t.count, mask |-> t.mask, heads |-> t.heads, props |-> t.props]
        /\ \A i \in 1 .. N : t.props[i] \in Property
    BY Fields DEF Sound
  <2>2. Compacted(a, t) = w
    <3> DEFINE v == [t EXCEPT !.mask = mask, !.props = kept, !.heads = heads]
    <3>1. v = [t EXCEPT !.mask = mask, !.props = kept, !.heads = heads]
      OBVIOUS
    <3>2. Compacted(a, t) = Rehash(a, v)
      BY <1>3 DEF Compacted
    <3> HIDE DEF v, mask, kept, heads
    <3>3. v = u
      BY <2>1, <3>1
    <3> QED
      BY <3>2, <3>3
  <2>3. mask \in Nat
    BY <2>1, HashMaskIs
  <2> HIDE DEF mask
\* The kept places are those in use.
  <2>4. ASSUME NEW k \in 1 .. M
        PROVE  Nth(Taken(t), k) \in Used(t) /\ Cardinality(UpTo(Taken(t), Nth(Taken(t), k))) = k
    <3>1. Rehashed(t) = Used(t) /\ Used(t) \in SUBSET Taken(t) /\ Taken(t) \in SUBSET (1 .. N)
      BY <2>1, FirstTaken, SoundIsPacked DEF Sound, Taken
    <3>2. M <= Cardinality(Taken(t)) /\ Cardinality(Taken(t)) \in Nat
      BY <2>1, <3>1, Counting DEF Sound, Counted
    <3>3. k \in 1 .. Cardinality(Taken(t))
      BY <2>1, <3>2
    <3>4. Nth(Taken(t), k) \in Taken(t) /\ Cardinality(UpTo(Taken(t), Nth(Taken(t), k))) = k
      BY <2>1, <3>1, <3>3, NthIs
    <3>5. k <= t.count
      BY <2>1
    <3>6. Nth(Taken(t), k) \in Rehashed(t)
      BY <3>4, <3>5 DEF Rehashed
    <3> QED
      BY <3>1, <3>4, <3>6
  <2>5. /\ DOMAIN kept = 1 .. M
        /\ \A k \in 1 .. M : kept[k] = t.props[Nth(Taken(t), k)] /\ kept[k] \in Property /\ kept[k].key \in Keys
    BY <2>1, <2>4 DEF Used
  <2>6. \A j, k \in 1 .. M : kept[j].key = kept[k].key => j = k
    <3> SUFFICES ASSUME NEW j \in 1 .. M, NEW k \in 1 .. M, kept[j].key = kept[k].key PROVE j = k
      OBVIOUS
    <3>1. Nth(Taken(t), j) = Nth(Taken(t), k)
      BY <2>4, <2>5 DEF Sound, Distinct
    <3> QED
      BY <2>4, <3>1
  <2>7. kept \in Seq(Property) /\ Len(kept) = M
    <3>1. kept = [k \in 1 .. M |-> kept[k]]
      BY <2>5
    <3> HIDE DEF kept, Property
    <3> QED
      BY <2>1, <2>5, <3>1
  <2> HIDE DEF kept
  <2>8. Typed(u)
    <3>1. heads \in [0 .. mask -> Nat]
      OBVIOUS
    <3> HIDE DEF heads
    <3> QED
      BY <2>1, <2>3, <2>7, <3>1, IsTyped
  <2>9. u.rom = t.rom /\ u.count = M /\ u.mask = mask /\ u.props = kept
    OBVIOUS
  <2> HIDE DEF u, Property
  <2>10. Used(u) = 1 .. M
    BY <2>5, <2>9 DEF Used
  <2>11. Counted(u) /\ Packed(u)
    <3>0. Cardinality(1 .. M) = M
      BY <2>1, Interval
    <3>1. Counted(u)
      BY <2>9, <2>10, <3>0 DEF Counted
    <3>2. Undefined \notin Keys
      BY PropsAssumption DEF Undefined
    <3> QED
      BY <2>5, <2>9, <3>1, <3>2 DEF Packed
  <2>12. /\ Typed(w) /\ Linked(a, w) /\ Alike(u, w)
         /\ w.rom = t.rom /\ w.count = M /\ w.mask = mask
    BY <2>8, <2>9, <2>11, RehashIs
  <2> HIDE DEF w
  <2>13. /\ DOMAIN w.props = 1 .. M /\ Len(w.props) = M /\ Used(w) = 1 .. M
         /\ \A k \in 1 .. M : w.props[k].key = kept[k].key /\ w.props[k].key \in Keys
    BY <2>5, <2>7, <2>9, <2>10, <2>12, AlikeUsed DEF Alike
  <2>14. Distinct(w) /\ Counted(w) /\ RomIsFixed(w)
    <3>0. Cardinality(1 .. M) = M
      BY <2>1, Interval
    <3> QED
      BY <2>6, <2>12, <2>13, <3>0 DEF Distinct, Counted, RomIsFixed
  <2>15. FreeKnown(w)
    <3>1. ~LastFree(w)
      <4>1. M \in 1 .. M
        BY <1>3, <2>1
      <4>2. w.props[M].key # Uninitialized
        BY <2>13, <4>1, PropsAssumption DEF Uninitialized
      <4> QED
        BY <2>12, <2>13, <4>2, LastFreeIs
    <3>2. FirstFree(w) = Offset(w.mask, M + 1)
      <4>1. FirstFree(w) = Base(w.mask) + 3 * M
        BY <2>13, <3>1 DEF FirstFree, Words
      <4> QED
        BY <2>1, <4>1 DEF Offset
    <3>3. \A l \in DOMAIN w.props : /\ w.props[l].key \in Keys => l < M + 1
                                    /\ w.props[l].key = Undefined => M + 1 <= l
      BY <2>1, <2>13, PropsAssumption DEF Undefined
    <3>4. M + 1 \in 1 .. Len(w.props) + 1
      BY <2>1, <2>13
    <3> QED
      BY <3>1, <3>2, <3>3, <3>4, Zenon DEF FreeKnown
  <2>16. Sound(w)
    BY <2>12, <2>14, <2>15 DEF Sound
  <2>17. Entries(u) = Entries(t)
    <3>1. \A k \in 1 .. M : Nth(1 .. M, k) = k
      <4> TAKE k \in 1 .. M
      <4>1. UpTo(1 .. M, k) = 1 .. k
        BY <2>1 DEF UpTo
      <4>2. k \in Nat /\ M \in Nat
        BY <2>1
      <4>3. Cardinality(UpTo(1 .. M, k)) = k /\ Cardinality(1 .. M) = M
        BY <4>1, <4>2, Interval
      <4> HIDE DEF M
      <4> QED
        BY <4>2, <4>3, NthInOrder
    <3>2. Cardinality(Used(u)) = M /\ Cardinality(Used(t)) = M
      BY <2>1, <2>10, Interval DEF Sound, Counted
    <3>3. \A k \in 1 .. M : Nth(Used(t), k) = Nth(Taken(t), k)
      <4> TAKE k \in 1 .. M
      <4> DEFINE i == Nth(Taken(t), k)
      <4>1. i \in Used(t) /\ Cardinality(UpTo(Taken(t), i)) = k
        BY <2>4
      <4>2. Used(t) \in SUBSET Taken(t) /\ Used(t) \in SUBSET (1 .. N) /\ Taken(t) \in SUBSET (1 .. N)
        BY <2>1, FirstTaken, SoundIsPacked DEF Sound, Taken, Used
      <4> HIDE DEF i
      <4>3. UpTo(Used(t), i) = UpTo(Taken(t), i)
        <5>1. ASSUME NEW j \in Taken(t), j <= i PROVE j \in Used(t)
          <6>1. j \in 1 .. N /\ t.props[j].key # Uninitialized /\ j \in DOMAIN t.props
            BY <2>1, <4>2 DEF Taken
          <6>2. t.props[j].key # Undefined
            <7>1. ~(i < j)
              BY <2>1, <4>1, <4>2, <5>1
            <7> QED
              BY <4>1, <6>1, <7>1, SoundIsPacked DEF Packed
          <6>3. \A y \in Property : y.key \in Keys \cup {Undefined, Uninitialized}
            BY DEF Property
          <6> QED
            BY <2>1, <6>1, <6>2, <6>3 DEF Used
        <5> QED
          BY <4>2, <5>1, Zenon DEF UpTo
      <4> QED
        BY <2>1, <3>2, <4>1, <4>2, <4>3, NthInOrder DEF i
    <3>4. \A k \in 1 .. M : u.props[Nth(Used(u), k)] = t.props[Nth(Used(t), k)]
      BY <2>5, <2>9, <2>10, <3>1, <3>3
    <3> HIDE DEF M
    <3> QED
      BY <3>2, <3>4 DEF Entries
  <2>18. Entries(w) = Entries(t)
    BY <2>8, <2>11, <2>17, RehashIs DEF w
  <2> QED
    BY <2>2, <2>12, <2>16, <2>18 DEF w
<1> QED
  BY <1>1, <1>2, <1>3

\* What find_own_property says of a key.
LEMMA FoundIs ==
    ASSUME NEW s, InOrder(s), NEW k \in Keys
    PROVE  /\ Found(s, k) # 0 => Found(s, k) \in Used(s.table) /\ s.table.props[Found(s, k)].key = k
           /\ Found(s, k) = 0 => ~\E i \in Used(s.table) : s.table.props[i].key = k
           /\ Used(s.table) \in SUBSET (1 .. Len(s.table.props))
<1>1. Typed(s.table) /\ s.addr \in [Movable -> Nat] /\ Linked(s.addr, s.table)
  BY DEF InOrder, Sound
<1>2. Used(s.table) \in SUBSET (1 .. Len(s.table.props)) /\ 0 \notin Used(s.table)
  <2>1. DOMAIN s.table.props = 1 .. Len(s.table.props)
    BY <1>1, Fields
  <2> QED
    BY <2>1 DEF Used
<1>3. IF \E i \in Used(s.table) : s.table.props[i].key = k
      THEN Found(s, k) \in Used(s.table) /\ s.table.props[Found(s, k)].key = k
      ELSE Found(s, k) = 0
  BY <1>1, FindsByHash DEF Found
<1> QED
  BY <1>2, <1>3

\* The offset found in a chain and the one before it are what a removal needs.
LEMMA DeletedPlace ==
    ASSUME NEW s, InOrder(s), NEW k \in Keys, NEW n \in 0 .. Len(s.table.props),
           NEW link, link = Chain(s.addr, s.table, k),
           link[n] # 0, Place(s.table, link[n]) = Found(s, k)
    PROVE  /\ Found(s, k) \in Used(s.table) /\ s.table.props[Found(s, k)].key = k
           /\ link[n] = Offset(s.table.mask, Found(s, k))
           /\ Precedes(s.addr, s.table, IF n = 0 THEN 0 ELSE link[n - 1], Found(s, k),
                       Bucket(s.addr, k, s.table.mask))
<1> DEFINE t == s.table
           N == Len(t.props)
           b == Bucket(s.addr, k, t.mask)
           S == InBucket(s.addr, t, b)
           i == Found(s, k)
<1>1. Typed(t) /\ s.addr \in [Movable -> Nat] /\ Linked(s.addr, t)
  BY DEF InOrder, Sound
<1>2. /\ N \in Nat /\ t.mask \in Nat /\ S \in SUBSET (1 .. N) /\ b \in 0 .. t.mask
      /\ S \in SUBSET Used(t)
  BY <1>1, InBuckets, BucketInTable DEF InBucket
<1>3. \A m \in 0 .. N : link[m] = 0 \/ \E j \in S : link[m] = Offset(t.mask, j)
  BY <1>1, WalkStays
<1>4. link[0] = t.heads[b] /\ \A m \in 1 .. N : link[m] = After(t, link[m - 1])
  BY <1>2, ChainIsDefined
<1> HIDE DEF S, b
<1>5. \A j \in S : Place(t, Offset(t.mask, j)) = j /\ Offset(t.mask, j) # 0
  <2> TAKE j \in S
  <2>1. j \in Nat \ {0}
    BY <1>2
  <2> QED
    BY <1>2, <2>1, PlaceOfOffset
<1>6. i \in S /\ link[n] = Offset(t.mask, i)
  <2>1. PICK j \in S : link[n] = Offset(t.mask, j)
    BY <1>3
  <2> QED
    BY <1>5, <2>1
<1>7. i \in Used(t) /\ t.props[i].key = k
  <2>1. i # 0
    BY <1>2, <1>6
  <2> QED
    BY <2>1, FoundIs
<1>8. Precedes(s.addr, t, IF n = 0 THEN 0 ELSE link[n - 1], i, b)
  <2>1. CASE n = 0
    BY <1>4, <1>6, <2>1 DEF Precedes
  <2>2. CASE n # 0
    <3>1. n \in 1 .. N /\ n - 1 \in 0 .. N
      BY <1>2, <2>2
    <3>2. link[n] = After(t, link[n - 1])
      BY <1>4, <3>1
    <3>3. link[n - 1] # 0
      BY <3>2 DEF After
    <3>4. PICK j \in S : link[n - 1] = Offset(t.mask, j)
      BY <1>3, <3>1, <3>3
    <3>5. t.props[j].next = Offset(t.mask, i)
      BY <1>5, <1>6, <3>2, <3>3, <3>4 DEF After
    <3> QED
      BY <2>2, <3>4, <3>5 DEF Precedes, S
  <2> QED
    BY <2>1, <2>2
<1> QED
  BY <1>6, <1>7, <1>8 DEF b

LEMMA DeleteKeeps ==
    ASSUME NEW s, InOrder(s), NEW k \in Keys, NEW n \in 0 .. Len(s.table.props),
           NEW link, link = Chain(s.addr, s.table, k),
           link[n] # 0, Place(s.table, link[n]) = Found(s, k), NEW x \in Updated(s), NEW y,
           y = [x EXCEPT !.table = Deleted(x.addr, x.table, link[n], IF n = 0 THEN 0 ELSE link[n - 1],
                                           Bucket(s.addr, k, s.table.mask))]
    PROVE  /\ InOrder(y)
           /\ Found(s, k) \in Used(x.table) /\ x.table.props[Found(s, k)].key = k
           /\ Dropped(x.table, y.table, Found(s, k))
<1> DEFINE t == x.table
           i == Found(s, k)
           last == IF n = 0 THEN 0 ELSE link[n - 1]
           b == Bucket(s.addr, k, s.table.mask)
           u == Unlinked(t, i, last, b)
           d == Removed(t, u)
           e == Deleted(x.addr, t, link[n], last, b)
<1>1. /\ i \in Used(s.table) /\ s.table.props[i].key = k /\ link[n] = Offset(s.table.mask, i)
      /\ Precedes(s.addr, s.table, last, i, b)
  BY DeletedPlace
<1>2. /\ InOrder(x) /\ Alike(s.table, t) /\ ~t.rom
      /\ t.mask = s.table.mask /\ t.heads = s.table.heads
      /\ \A j \in DOMAIN s.table.props : t.props[j].next = s.table.props[j].next
      /\ s.table.rom \/ x = s
  BY UpdatedKeeps
<1>3. x = [addr |-> x.addr, table |-> t] /\ x.addr \in [Movable -> Nat] /\ Sound(t) /\ Linked(x.addr, t)
  BY <1>2 DEF InOrder
<1>4. Used(t) = Used(s.table) /\ \A j \in Used(t) : t.props[j].key = s.table.props[j].key
  BY <1>2, AlikeUsed DEF Alike, Used
\* Keys of a table in ROM hash as before.
<1>5. \A j \in Used(t) : Bucket(x.addr, t.props[j].key, t.mask) = Bucket(s.addr, s.table.props[j].key, s.table.mask)
  <2> TAKE j \in Used(t)
  <2>1. CASE s.table.rom
    <3>1. s.table.props[j].key \in Fixed
      BY <1>4, <2>1 DEF InOrder, Sound, RomIsFixed
    <3>2. s.table.props[j].key \notin Movable
      BY <3>1, PropsAssumption
    <3> QED
      BY <1>2, <1>4, <3>2 DEF Bucket, Hash
  <2>2. CASE x = s
    BY <2>2
  <2> QED
    BY <1>2, <2>1, <2>2
<1>6. InBucket(x.addr, t, b) = InBucket(s.addr, s.table, b)
  BY <1>4, <1>5 DEF InBucket
<1>7. i \in Used(t) /\ b = Bucket(x.addr, t.props[i].key, t.mask)
  BY <1>1, <1>4, <1>5
<1>8. Precedes(x.addr, t, last, i, b)
  <2>1. CASE last = 0 /\ s.table.heads[b] = Offset(s.table.mask, i)
    BY <1>2, <2>1 DEF Precedes
  <2>2. ASSUME NEW j \in InBucket(s.addr, s.table, b),
               last = Offset(s.table.mask, j), s.table.props[j].next = Offset(s.table.mask, i)
        PROVE  Precedes(x.addr, t, last, i, b)
    <3>1. j \in DOMAIN s.table.props
      BY DEF InBucket, Used
    <3>2. t.props[j].next = Offset(t.mask, i) /\ last = Offset(t.mask, j) /\ j \in InBucket(x.addr, t, b)
      BY <1>2, <1>6, <2>2, <3>1
    <3> HIDE DEF last, b, t
    <3> QED
      BY <3>2 DEF Precedes
  <2> QED
    BY <1>1, <2>1, <2>2 DEF Precedes
<1>9. Place(t, link[n]) = i
  <2>1. Len(t.props) \in Nat /\ DOMAIN t.props = 1 .. Len(t.props) /\ t.mask \in Nat
    BY <1>3, Fields DEF Sound
  <2>2. i \in Nat \ {0}
    BY <1>7, <2>1 DEF Used
  <2> QED
    BY <1>1, <1>2, <2>1, <2>2, PlaceOfOffset
<1> HIDE DEF last, b, i, t
<1>10. Filed(x.addr, t)
  BY <1>3 DEF Sound, Filed
<1>11. Without(x.addr, t, i, u)
  BY <1>3, <1>7, <1>8, <1>10, UnlinkedIs
<1>12. Sound(d) /\ Linked(x.addr, d) /\ ~d.rom /\ Dropped(t, d, i)
  <2> HIDE DEF u
  <2> QED
    BY <1>2, <1>3, <1>7, <1>11, RemovedKeeps DEF t
<1>13. e = IF Base(t.mask) + 3 * t.count < Words(t) \div 2 THEN Compacted(x.addr, d) ELSE d
  <2>1. d = Removed(t, Unlinked(t, Place(t, link[n]), last, b))
    BY <1>9
  <2> HIDE DEF d, u
  <2> QED
    BY <2>1, DeletedIs
<1> HIDE DEF d, e
<1>14. Sound(e) /\ Linked(x.addr, e) /\ Entries(e) = Entries(d)
  BY <1>3, <1>12, <1>13, CompactedKeeps
<1>15. y = [addr |-> x.addr, table |-> e]
  <2>1. y = [x EXCEPT !.table = e]
    BY DEF e, t, last, b
  <2> QED
    BY <1>3, <2>1
<1>16. InOrder(y)
  BY <1>3, <1>14, <1>15 DEF InOrder
<1>17. Dropped(t, y.table, i)
  BY <1>12, <1>14, <1>15 DEF Dropped
<1>18. t.props[i].key = k
  BY <1>1, <1>4, <1>7
<1> QED
  BY <1>7, <1>16, <1>17, <1>18 DEF t, i

-----------------------------------------------------------------------------
(* The invariant.                                                          *)

LEMMA NowInOrder ==
    ASSUME IInv
    PROVE  InOrder(Now) /\ Now.table = table /\ Now.addr = addr
BY DEF IInv, InOrder, Now

LEMMA BecomeKeeps ==
    ASSUME IInv, NEW s, InOrder(s), Become(s)
    PROVE  IInv'
<1>1. addr' = s.addr /\ table' = s.table /\ global' = global
  BY DEF Become
<1>2. s.addr \in [Movable -> Nat] /\ Sound(s.table) /\ Linked(s.addr, s.table) /\ global \in BOOLEAN
  BY DEF InOrder, IInv
<1> QED
  BY <1>1, <1>2 DEF IInv

THEOREM InitInv == Init => IInv
<1> SUFFICES ASSUME Init PROVE IInv
  OBVIOUS
<1>1. addr \in [Movable -> 0 .. MaxAddr] /\ addr \in [Movable -> Nat]
  BY PropsAssumption DEF Init
<1>2. PICK start \in Starts : table = start.table /\ global = start.global
  BY DEF Init
<1> QED
  BY <1>1, <1>2, StartsAssumption DEF IInv

THEOREM NextInv == IInv /\ [Next]_vars => IInv'
<1> SUFFICES ASSUME IInv, [Next]_vars PROVE IInv'
  OBVIOUS
<1>1. InOrder(Now) /\ Now.table = table /\ Now.addr = addr
  BY NowInOrder
<1>2. ASSUME NEW k \in Keys, NEW v \in Values, NEW kind \in {"normal", "getset", "varref"}, AddProperty(k, kind, v)
      PROVE  IInv'
  <2>1. PICK s \in Updated(Now) :
          \E x \in (IF kind = "normal" THEN {s} ELSE AfterAlloc(s)) :
          \E y \in Create(x, Slot(k, kind, v)) : Become(y)
    BY <1>2 DEF AddProperty
  <2>2. PICK x \in (IF kind = "normal" THEN {s} ELSE AfterAlloc(s)) :
          \E y \in Create(x, Slot(k, kind, v)) : Become(y)
    BY <2>1
  <2>3. PICK y \in Create(x, Slot(k, kind, v)) : Become(y)
    BY <2>2
  <2>4. InOrder(s) /\ Alike(table, s.table) /\ ~s.table.rom
    BY <1>1, UpdatedKeeps
  <2>5. InOrder(x) /\ Alike(s.table, x.table) /\ ~x.table.rom
    <3>1. x = s \/ x \in AfterAlloc(s)
      BY <2>2
    <3>2. Alike(s.table, s.table)
      BY DEF Alike
    <3> QED
      BY <2>4, <3>1, <3>2, AfterAllocKeeps
  <2>6. ~\E j \in Used(x.table) : x.table.props[j].key = k
    <3>1. ~\E j \in Used(table) : table.props[j].key = k
      BY <1>1, <1>2, FoundIs DEF AddProperty
    <3>2. Used(x.table) = Used(table) /\ \A j \in Used(table) : x.table.props[j].key = table.props[j].key
      BY <2>4, <2>5, AlikeUsed DEF Alike, Used
    <3> QED
      BY <3>1, <3>2
  <2>7. InOrder(y)
    BY <2>3, <2>5, <2>6, CreateKeeps
  <2> QED
    BY <2>3, <2>7, BecomeKeeps
\* A property there was is there when the table is updated.
<1>3. ASSUME NEW k \in Keys, Found(Now, k) # 0, NEW s, InOrder(s), Alike(table, s.table)
      PROVE  Found(s, k) \in 1 .. Len(s.table.props)
  <2>1. Found(Now, k) \in Used(table) /\ table.props[Found(Now, k)].key = k
    BY <1>1, <1>3, FoundIs
  <2>2. Found(Now, k) \in Used(s.table) /\ s.table.props[Found(Now, k)].key = k
    BY <1>3, <2>1, AlikeUsed DEF Alike, Used
  <2>3. Found(s, k) # 0
    BY <1>3, <2>2, FoundIs
  <2> QED
    BY <1>3, <2>3, FoundIs
<1>4. ASSUME NEW k \in Keys, NEW v \in Values, Found(Now, k) # 0, NEW s, InOrder(s), Alike(table, s.table),
             Become(WithValue(s, Found(s, k), v))
      PROVE  IInv'
  <2>1. InOrder(WithValue(s, Found(s, k), v))
    BY <1>3, <1>4, WithValueKeeps
  <2> QED
    BY <1>4, <2>1, BecomeKeeps
<1>5. ASSUME NEW s \in Updated(Now) PROVE InOrder(s) /\ Alike(table, s.table)
  BY <1>1, UpdatedKeeps
<1>6. ASSUME NEW k \in Keys, NEW v \in Values, DefineValue(k, v) PROVE IInv'
  <2>1. PICK s \in Updated(Now) : Become(s) \/ Become(WithValue(s, Found(s, k), v))
    BY <1>6 DEF DefineValue
  <2>2. Found(Now, k) # 0
    BY <1>6 DEF DefineValue
  <2> QED
    BY <1>4, <1>5, <2>1, <2>2, BecomeKeeps
<1>7. ASSUME NEW k \in Keys, NEW v \in Values, DefineGetSet(k, v) PROVE IInv'
  <2>1. PICK s \in Updated(Now) :
          Become(s) \/ \E x \in AfterAlloc(s) : Become(WithValue(x, Found(x, k), v))
    BY <1>7 DEF DefineGetSet
  <2>2. Found(Now, k) # 0
    BY <1>7 DEF DefineGetSet
  <2>3. InOrder(s) /\ Alike(table, s.table)
    BY <1>5
  <2>4. CASE Become(s)
    BY <2>3, <2>4, BecomeKeeps
  <2>5. ASSUME NEW x \in AfterAlloc(s), Become(WithValue(x, Found(x, k), v)) PROVE IInv'
    <3>1. InOrder(x) /\ Alike(s.table, x.table)
      BY <2>3, AfterAllocKeeps
    <3>2. Alike(table, x.table)
      BY <2>3, <3>1 DEF Alike
    <3> QED
      BY <1>4, <2>2, <2>5, <3>1, <3>2
  <2> QED
    BY <2>1, <2>4, <2>5
<1>8. ASSUME NEW k \in Keys, NEW v \in Values, SetOwn(k, v) PROVE IInv'
  <2>1. Found(Now, k) # 0
    BY <1>8 DEF SetOwn
  <2>2. CASE table.rom
    <3>1. PICK s \in Updated(Now) : Become(WithValue(s, Found(s, k), v))
      BY <1>8, <2>2 DEF SetOwn
    <3> QED
      BY <1>4, <1>5, <2>1, <3>1
  <2>3. CASE ~table.rom
    <3>1. Become(WithValue(Now, Found(Now, k), v))
      BY <1>8, <2>3 DEF SetOwn
    <3>2. Alike(table, Now.table)
      BY <1>1 DEF Alike
    <3> QED
      BY <1>1, <1>4, <2>1, <3>1, <3>2
  <2> QED
    BY <2>2, <2>3
<1>9. ASSUME NEW k \in Keys, JS_DeleteProperty(k) PROVE IInv'
  <2> DEFINE link == Chain(addr, table, k)
             b == Bucket(addr, k, table.mask)
             Cut(s, n) == [s EXCEPT !.table = Deleted(s.addr, s.table, link[n], IF n = 0 THEN 0 ELSE link[n - 1], b)]
  <2>1. PICK n \in 0 .. Len(table.props) :
          /\ link[n] # 0 /\ Place(table, link[n]) = Found(Now, k)
          /\ \E s \in Updated(Now) : Become(Cut(s, n))
    BY <1>9 DEF JS_DeleteProperty
  <2>2. PICK s \in Updated(Now) : Become(Cut(s, n))
    BY <2>1
  <2>3. link = Chain(Now.addr, Now.table, k) /\ b = Bucket(Now.addr, k, Now.table.mask)
    BY <1>1
  <2> HIDE DEF link
  <2>4. InOrder(Cut(s, n))
    <3> DEFINE y == Cut(s, n)
    <3>1. y = [s EXCEPT !.table = Deleted(s.addr, s.table, link[n], IF n = 0 THEN 0 ELSE link[n - 1],
                                          Bucket(Now.addr, k, Now.table.mask))]
      BY <2>3
    <3> HIDE DEF y
    <3>2. InOrder(y)
      BY <1>1, <2>1, <2>3, <3>1, DeleteKeeps
    <3> QED
      BY <3>2 DEF y
  <2> QED
    BY <2>2, <2>4, BecomeKeeps
<1>10. ASSUME Fails PROVE IInv'
  <2>1. PICK s \in {Now} \cup Updated(Now) : OutOfMemory(s)
    BY <1>10 DEF Fails
  <2>2. PICK x \in AfterAlloc(s) : Become(x)
    BY <2>1 DEF OutOfMemory
  <2>3. InOrder(s)
    BY <1>1, <1>5
  <2> QED
    BY <2>2, <2>3, AfterAllocKeeps, BecomeKeeps
\* A string that moves is no key of the table.
<1>11. ASSUME NEW k \in Movable, NewString(k) PROVE IInv'
  <2>1. PICK w \in 0 .. MaxAddr : addr' = [addr EXCEPT ![k] = w]
    BY <1>11 DEF NewString
  <2>2. k \in Keys /\ Found(Now, k) = 0 /\ table' = table /\ global' = global
    BY <1>11 DEF NewString, Keys
  <2>3. addr \in [Movable -> Nat] /\ Sound(table) /\ Linked(addr, table) /\ global \in BOOLEAN
    BY DEF IInv
  <2>4. addr' \in [Movable -> Nat] /\ \A j \in Movable : j # k => addr'[j] = addr[j]
    <3>1. w \in Nat
      BY PropsAssumption
    <3> QED
      BY <2>1, <2>3, <3>1
  <2>5. ~\E i \in Used(table) : table.props[i].key = k
    BY <1>1, <2>2, FoundIs
  <2>6. \A i \in Used(table) : Bucket(addr', table.props[i].key, table.mask) = Bucket(addr, table.props[i].key, table.mask)
    BY <2>4, <2>5 DEF Bucket, Hash
  <2>7. Linked(addr', table)
    BY <2>3, <2>6, SameBuckets
  <2> QED
    BY <2>2, <2>3, <2>4, <2>7 DEF IInv
<1>12. CASE UNCHANGED vars
  BY <1>12 DEF IInv, vars
<1>13. CASE Next
  <2>1. KindOfValue \in {"normal", "getset", "varref"} /\ Accessors \subseteq Keys
    BY PropsAssumption DEF KindOfValue
  <2> QED
    BY <1>2, <1>6, <1>7, <1>8, <1>9, <1>10, <1>11, <1>13, <2>1 DEF Next
<1> QED
  BY <1>12, <1>13

\* The table always holds what is counted, at a place find_own_property gets to by
\* the hash of the key.
THEOREM PropertiesAreFound == Spec => []FoundByHash
<1>1. IInv => FoundByHash
  <2> SUFFICES ASSUME IInv PROVE FoundByHash
    OBVIOUS
  <2>1. Typed(table) /\ Linked(addr, table) /\ addr \in [Movable -> Nat]
    BY DEF IInv, Sound
  <2>2. Cardinality(Used(table)) = table.count
    BY DEF IInv, Sound, Counted
  <2>3. ASSUME NEW k \in Keys
        PROVE  IF \E i \in Used(table) : table.props[i].key = k
               THEN Find(addr, table, k) \in Used(table) /\ table.props[Find(addr, table, k)].key = k
               ELSE Find(addr, table, k) = 0
    BY <2>1, FindsByHash
  <2> QED
    BY <2>1, <2>2, <2>3 DEF FoundByHash
<1> QED
  BY <1>1, InitInv, NextInv, PTL DEF Spec

-----------------------------------------------------------------------------
(* The table is a list of properties.                                      *)

\* An entry of the list is that of a place in use.
LEMMA EntriesInUse ==
    ASSUME NEW t, Typed(t)
    PROVE  /\ DOMAIN Entries(t) = 1 .. Cardinality(Used(t)) /\ Cardinality(Used(t)) \in Nat
           /\ \A n \in DOMAIN Entries(t) : \E i \in Used(t) : Entries(t)[n] = Entry(t.props[i])
<1>1. Len(t.props) \in Nat /\ Used(t) \in SUBSET (1 .. Len(t.props))
  BY Fields DEF Used
<1>2. Cardinality(Used(t)) \in Nat
  BY <1>1, Counting
<1>3. \A n \in 1 .. Cardinality(Used(t)) : Nth(Used(t), n) \in Used(t)
  BY <1>1, NthIs
<1> QED
  BY <1>2, <1>3 DEF Entries

\* What a table starts with is a list of properties.
LEMMA InitIsList == Init => List!Init
<1> SUFFICES ASSUME Init PROVE List!Init
  OBVIOUS
<1> DEFINE P == [key : Keys, kind : {"normal", "getset", "varref"}, value : Values]
           c == Cardinality(Used(table))
<1>1. PICK start \in Starts : table = start.table
  BY DEF Init
<1>2. Typed(table) /\ \A i \in Used(table) : table.props[i].value \in Values
  BY <1>1, StartsAssumption DEF Sound
<1>3. ASSUME NEW i \in Used(table) PROVE Entry(table.props[i]) \in P
  <2>1. i \in 1 .. Len(table.props) /\ table.props[i].key \in Keys
    BY <1>2, Fields DEF Used
  <2>2. table.props[i] \in Property
    BY <1>2, <2>1, Fields
  <2>3. \A x \in Property : x.kind \in {"normal", "special", "getset", "varref"}
    BY DEF Property
  <2> QED
    BY <1>2, <2>1, <2>2, <2>3 DEF Entry
<1>4. DOMAIN Entries(table) = 1 .. c /\ c \in Nat /\ \A n \in 1 .. c : Entries(table)[n] \in P
  BY <1>2, <1>3, EntriesInUse
<1>5. Entries(table) = [n \in 1 .. c |-> Entries(table)[n]]
  BY <1>4 DEF Entries
<1> HIDE DEF P, c
<1>6. Entries(table) \in Seq(P)
  BY <1>4, <1>5
<1> QED
  BY <1>6 DEF List!Init, P

\* A property there is, found again after an allocation, gets another value.
LEMMA StoreIsStore ==
    ASSUME IInv, NEW k \in Keys, NEW v \in Values, Found(Now, k) # 0,
           NEW s, InOrder(s), Alike(table, s.table), Entries(s.table) = Entries(table),
           Become(WithValue(s, Found(s, k), v))
    PROVE  List!Store(k)
<1> DEFINE i == Found(s, k)
<1>1. InOrder(Now) /\ Now.table = table /\ Now.addr = addr
  BY NowInOrder
<1>2. i \in Used(s.table) /\ s.table.props[i].key = k /\ i \in 1 .. Len(s.table.props)
  <2>1. Found(Now, k) \in Used(table) /\ table.props[Found(Now, k)].key = k
    BY <1>1, FoundIs
  <2>2. Found(Now, k) \in Used(s.table) /\ s.table.props[Found(Now, k)].key = k
    BY <2>1, AlikeUsed DEF Alike, Used
  <2> QED
    BY <2>2, FoundIs
<1> HIDE DEF i
<1>3. Stored(s.table, WithValue(s, i, v).table, i, v)
  BY <1>2, WithValueKeeps
<1>4. table' = WithValue(s, i, v).table
  BY DEF Become, i
<1>5. PICK n \in DOMAIN Entries(table) :
        Entries(table)[n] = Entry(s.table.props[i]) /\ Entries(table') = [Entries(table) EXCEPT ![n].value = v]
  BY <1>3, <1>4 DEF Stored
<1>6. Entries(table)[n].key = k
  BY <1>2, <1>5 DEF Entry
<1> QED
  BY <1>5, <1>6 DEF List!Store

\* What only moves, copies or rehashes the table changes no property.
LEMMA BecomeSame ==
    ASSUME NEW s, Entries(s.table) = Entries(table), Become(s)
    PROVE  UNCHANGED Entries(table)
BY DEF Become

LEMMA AddIsAdd ==
    ASSUME IInv, NEW k \in Keys, NEW v \in Values, NEW kind \in {"normal", "getset", "varref"},
           AddProperty(k, kind, v)
    PROVE  List!Add(k)
<1>1. InOrder(Now) /\ Now.table = table /\ Now.addr = addr
  BY NowInOrder
<1>2. PICK s \in Updated(Now) :
        \E x \in (IF kind = "normal" THEN {s} ELSE AfterAlloc(s)) :
        \E y \in Create(x, Slot(k, kind, v)) : Become(y)
  BY DEF AddProperty
<1>3. PICK x \in (IF kind = "normal" THEN {s} ELSE AfterAlloc(s)) :
        \E y \in Create(x, Slot(k, kind, v)) : Become(y)
  BY <1>2
<1>4. PICK y \in Create(x, Slot(k, kind, v)) : Become(y)
  BY <1>3
<1>5. InOrder(s) /\ Alike(table, s.table) /\ ~s.table.rom /\ Entries(s.table) = Entries(table)
  BY <1>1, UpdatedKeeps
<1>6. InOrder(x) /\ Alike(s.table, x.table) /\ ~x.table.rom /\ Entries(x.table) = Entries(table)
  <2>1. x = s \/ x \in AfterAlloc(s)
    BY <1>3
  <2>2. Alike(s.table, s.table)
    BY DEF Alike
  <2> QED
    BY <1>5, <2>1, <2>2, AfterAllocKeeps
<1>7. ~\E j \in Used(table) : table.props[j].key = k
  BY <1>1, FoundIs DEF AddProperty
<1>8. ~\E j \in Used(x.table) : x.table.props[j].key = k
  <2>1. Used(x.table) = Used(table) /\ \A j \in Used(table) : x.table.props[j].key = table.props[j].key
    BY <1>5, <1>6, AlikeUsed DEF Alike, Used
  <2> QED
    BY <1>7, <2>1
<1>9. Entries(y.table) = Append(Entries(table), Entry(Slot(k, kind, v)))
  BY <1>4, <1>6, <1>8, CreateKeeps
<1>10. Entry(Slot(k, kind, v)) = [key |-> k, kind |-> kind, value |-> v]
  BY DEF Entry, Slot
<1>11. ~List!Has(k)
  <2>1. Typed(table)
    BY DEF IInv, Sound
  <2>2. \A j : Entry(table.props[j]).key = table.props[j].key
    BY DEF Entry
  <2> QED
    BY <1>7, <2>1, <2>2, EntriesInUse DEF List!Has
<1>12. Entries(table') = Append(Entries(table), [key |-> k, kind |-> kind, value |-> v])
  BY <1>4, <1>9, <1>10 DEF Become
<1> QED
  BY <1>11, <1>12 DEF List!Add

LEMMA DeleteIsDrop ==
    ASSUME IInv, NEW k \in Keys, JS_DeleteProperty(k)
    PROVE  List!Drop(k)
<1> DEFINE link == Chain(addr, table, k)
           b == Bucket(addr, k, table.mask)
           Cut(s, n) == [s EXCEPT !.table = Deleted(s.addr, s.table, link[n], IF n = 0 THEN 0 ELSE link[n - 1], b)]
<1>1. InOrder(Now) /\ Now.table = table /\ Now.addr = addr
  BY NowInOrder
<1>2. PICK n \in 0 .. Len(table.props) :
        /\ link[n] # 0 /\ Place(table, link[n]) = Found(Now, k)
        /\ \E s \in Updated(Now) : Become(Cut(s, n))
  BY DEF JS_DeleteProperty
<1>3. PICK s \in Updated(Now) : Become(Cut(s, n))
  BY <1>2
<1>4. link = Chain(Now.addr, Now.table, k) /\ b = Bucket(Now.addr, k, Now.table.mask)
  BY <1>1
<1> HIDE DEF link
<1> DEFINE y == Cut(s, n)
<1>5. y = [s EXCEPT !.table = Deleted(s.addr, s.table, link[n], IF n = 0 THEN 0 ELSE link[n - 1],
                                      Bucket(Now.addr, k, Now.table.mask))]
  BY <1>4
<1>6. table' = y.table
  BY <1>3 DEF Become
<1> HIDE DEF y
<1> DEFINE i == Found(Now, k)
<1>7. s.table.props[i].key = k /\ Dropped(s.table, y.table, i)
  <2>1. s.table.props[i].key = k
    BY <1>1, <1>2, <1>4, <1>5, DeleteKeeps
  <2>2. Dropped(s.table, y.table, i)
    BY <1>1, <1>2, <1>4, <1>5, DeleteKeeps, Zenon
  <2> QED
    BY <2>1, <2>2
<1> HIDE DEF i
<1>8. Entries(s.table) = Entries(table)
  BY <1>1, UpdatedKeeps
<1>9. PICK m \in DOMAIN Entries(table) :
        Entries(table)[m] = Entry(s.table.props[i]) /\ Entries(table') = RemoveAt(Entries(table), m)
  BY <1>6, <1>7, <1>8 DEF Dropped
<1>10. Entries(table)[m].key = k
  BY <1>7, <1>9 DEF Entry
<1> QED
  BY <1>9, <1>10 DEF List!Drop, RemoveAt, List!RemoveAt

\* Every step on the table is one on the list, or changes nothing in it.
LEMMA NextIsList == IInv /\ [Next]_vars => [List!Next]_(Entries(table))
<1> SUFFICES ASSUME IInv, [Next]_vars PROVE List!Next \/ UNCHANGED Entries(table)
  OBVIOUS
<1> DEFINE Mapped == List!Next \/ UNCHANGED Entries(table)
<1> SUFFICES Mapped
  OBVIOUS
<1>1. InOrder(Now) /\ Now.table = table /\ Now.addr = addr
  BY NowInOrder
<1>2. \A k \in Keys : List!Add(k) \/ List!Store(k) \/ List!Drop(k) => Mapped
  BY DEF List!Next
<1> HIDE DEF Mapped
<1>3. ASSUME NEW s \in Updated(Now) PROVE InOrder(s) /\ Alike(table, s.table) /\ Entries(s.table) = Entries(table)
  BY <1>1, UpdatedKeeps
<1>4. ASSUME NEW s, Entries(s.table) = Entries(table), Become(s) PROVE Mapped
  BY <1>4, BecomeSame DEF Mapped
<1>5. ASSUME NEW k \in Keys, NEW v \in Values, DefineValue(k, v) PROVE Mapped
  <2>1. PICK s \in Updated(Now) : Become(s) \/ Become(WithValue(s, Found(s, k), v))
    BY <1>5 DEF DefineValue
  <2>2. Found(Now, k) # 0
    BY <1>5 DEF DefineValue
  <2> QED
    BY <1>2, <1>3, <1>4, <2>1, <2>2, StoreIsStore
<1>6. ASSUME NEW k \in Keys, NEW v \in Values, DefineGetSet(k, v) PROVE Mapped
  <2>1. PICK s \in Updated(Now) :
          Become(s) \/ \E x \in AfterAlloc(s) : Become(WithValue(x, Found(x, k), v))
    BY <1>6 DEF DefineGetSet
  <2>2. Found(Now, k) # 0
    BY <1>6 DEF DefineGetSet
  <2>3. CASE Become(s)
    BY <1>3, <1>4, <2>3
  <2>4. ASSUME NEW x \in AfterAlloc(s), Become(WithValue(x, Found(x, k), v)) PROVE Mapped
    <3>1. InOrder(x) /\ Alike(table, x.table) /\ Entries(x.table) = Entries(table)
      BY <1>3, AfterAllocKeeps DEF Alike
    <3> QED
      BY <1>2, <2>2, <2>4, <3>1, StoreIsStore
  <2> QED
    BY <2>1, <2>3, <2>4
<1>7. ASSUME NEW k \in Keys, NEW v \in Values, SetOwn(k, v) PROVE Mapped
  <2>1. Found(Now, k) # 0
    BY <1>7 DEF SetOwn
  <2>2. CASE table.rom
    <3>1. PICK s \in Updated(Now) : Become(WithValue(s, Found(s, k), v))
      BY <1>7, <2>2 DEF SetOwn
    <3> QED
      BY <1>2, <1>3, <2>1, <3>1, StoreIsStore
  <2>3. CASE ~table.rom
    <3>1. Become(WithValue(Now, Found(Now, k), v))
      BY <1>7, <2>3 DEF SetOwn
    <3>2. Alike(table, Now.table)
      BY <1>1 DEF Alike
    <3> QED
      BY <1>1, <1>2, <2>1, <3>1, <3>2, StoreIsStore
  <2> QED
    BY <2>2, <2>3
<1>8. ASSUME Fails PROVE Mapped
  <2>1. PICK s \in {Now} \cup Updated(Now) : OutOfMemory(s)
    BY <1>8 DEF Fails
  <2>2. PICK x \in AfterAlloc(s) : Become(x)
    BY <2>1 DEF OutOfMemory
  <2>3. InOrder(s) /\ Entries(s.table) = Entries(table)
    BY <1>1, <1>3
  <2>4. Entries(x.table) = Entries(table)
    BY <2>3, AfterAllocKeeps
  <2> QED
    BY <1>4, <2>2, <2>4
<1>9. ASSUME UNCHANGED table PROVE Mapped
  BY <1>9 DEF Mapped
<1>10. CASE Next
  <2>1. KindOfValue \in {"normal", "getset", "varref"} /\ Accessors \subseteq Keys
    BY PropsAssumption DEF KindOfValue
  <2>2. \A k \in Movable : NewString(k) => UNCHANGED table
    BY DEF NewString
  <2>3. ASSUME NEW k \in Keys, NEW v \in Values, NEW kind \in {"normal", "getset", "varref"}, AddProperty(k, kind, v)
        PROVE  Mapped
    BY <1>2, <2>3, AddIsAdd
  <2>4. ASSUME NEW k \in Keys, JS_DeleteProperty(k) PROVE Mapped
    BY <1>2, <2>4, DeleteIsDrop
  <2>5. CASE \E k \in Keys, v \in Values : AddProperty(k, KindOfValue, v) \/ DefineValue(k, v) \/ SetOwn(k, v)
    BY <1>5, <1>7, <2>1, <2>3, <2>5
  <2>6. CASE \E k \in Accessors, v \in Values : AddProperty(k, "getset", v) \/ DefineGetSet(k, v)
    BY <1>6, <2>1, <2>3, <2>6
  <2> QED
    BY <1>8, <1>9, <1>10, <2>2, <2>4, <2>5, <2>6, Zenon DEF Next
<1> QED
  BY <1>9, <1>10 DEF vars, Mapped

\* The hash table of an object, whatever collections move, behaves as its list of
\* properties: a definition adds one at the end or changes one in its place, and a
\* deletion takes one out.
THEOREM TableIsPropList == Spec => ImplementsPropList
<1> QED
  BY InitIsList, InitInv, NextInv, NextIsList, PTL DEF Spec, ImplementsPropList, List!Spec

=============================================================================
