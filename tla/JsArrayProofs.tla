---------------------------- MODULE JsArrayProofs ----------------------------
(***************************************************************************)
(* An array of the engine is the sequence of ECMAScript, but for the       *)
(* divergences JsArray names, whatever scripts and the functions they      *)
(* call back do.                                                           *)
(***************************************************************************)
EXTENDS JsArray, RqSort, SequenceTheorems, FiniteSetTheorems, WellFoundedInduction, TLAPS

-----------------------------------------------------------------------------
(* Tables and what is seen of them.                                        *)

IsArray(a) ==
    /\ a = [tab |-> a.tab, len |-> a.len]
    /\ a.tab \in Seq(Elements) /\ a.len \in 0 .. Len(a.tab) /\ a.len <= ShortIntMax

LEMMA Fields ==
    ASSUME NEW t \in Seq(Elements)
    PROVE  /\ Len(t) \in Nat /\ DOMAIN t = 1 .. Len(t) /\ \A i \in 1 .. Len(t) : t[i] \in Elements
           /\ t = [i \in 1 .. Len(t) |-> t[i]]
<1>1. Len(t) \in Nat /\ t \in [1 .. Len(t) -> Elements]
  BY LenProperties
<1> QED
  BY <1>1

\* A function on 1 .. n is a sequence.
LEMMA Listed ==
    ASSUME NEW n \in Nat, NEW t, t = [i \in 1 .. n |-> t[i]], \A i \in 1 .. n : t[i] \in Elements
    PROVE  t \in Seq(Elements) /\ Len(t) = n
<1>1. t \in [1 .. n -> Elements]
  BY Zenon
<1> QED
  BY <1>1, IsASeq, LenProperties

LEMMA Same ==
    ASSUME NEW s \in Seq(Elements), NEW t \in Seq(Elements), Len(s) = Len(t),
           \A i \in 1 .. Len(s) : s[i] = t[i]
    PROVE  s = t
  BY SeqEqual

LEMMA Limits == ShortIntMax \in Nat /\ Undefined \in Elements /\ Elements \subseteq Nat
  BY ArrayAssumption DEF Elements, Undefined

LEMMA VisibleIs ==
    ASSUME NEW a, IsArray(a)
    PROVE  /\ Visible(a) \in Seq(Elements) /\ Len(Visible(a)) = a.len
           /\ \A i \in 1 .. a.len : Visible(a)[i] = a.tab[i]
<1>1. a.tab \in Seq(Elements) /\ Len(a.tab) \in Nat /\ a.len \in 0 .. Len(a.tab)
  BY Fields DEF IsArray
<1>2. \A i \in 1 .. a.len : a.tab[i] \in Elements
  BY <1>1, Fields
<1> QED
  BY <1>1, <1>2, SubSeqProperties DEF Visible

\* An array is seen as s if its elements are those of s.
LEMMA SeenAs ==
    ASSUME NEW a, IsArray(a), NEW s \in Seq(Elements), Len(s) = a.len,
           \A i \in 1 .. a.len : a.tab[i] = s[i]
    PROVE  Visible(a) = s
  BY VisibleIs, Same

\* An array is the sequence s if its table starts with the elements of s.
LEMMA Holds ==
    ASSUME NEW t \in Seq(Elements), NEW n \in 0 .. Len(t), n <= ShortIntMax,
           NEW s \in Seq(Elements), Len(s) = n, \A i \in 1 .. n : t[i] = s[i],
           NEW b, b = [tab |-> t, len |-> n]
    PROVE  IsArray(b) /\ Visible(b) = s
<1>1. b.tab = t /\ b.len = n
  OBVIOUS
<1>2. IsArray(b)
  BY <1>1 DEF IsArray
<1> QED
  BY <1>1, <1>2, SeenAs

LEMMA Refilled ==
    ASSUME NEW a, a = [tab |-> a.tab, len |-> a.len], NEW t
    PROVE  [a EXCEPT !.tab = t] = [tab |-> t, len |-> a.len]
  OBVIOUS

LEMMA ResizedIs ==
    ASSUME NEW t \in Seq(Elements), NEW n \in Nat
    PROVE  /\ Resized(t, n) \in Seq(Elements) /\ Len(Resized(t, n)) >= n /\ Len(Resized(t, n)) >= Len(t)
           /\ \A i \in 1 .. Len(t) : Resized(t, n)[i] = t[i]
<1>1. CASE n <= Len(t)
  BY <1>1, Fields DEF Resized
<1>2. CASE n > Len(t)
  <2> DEFINE more == Larger(n, Len(t) + Len(t) \div 2) - Len(t)
             u == UndefinedTimes(more)
  <2>1. Len(t) \in Nat
    BY Fields
  <2>2. more \in Nat /\ Len(t) + more >= n
    BY <1>2, <2>1 DEF Larger
  <2>3. u \in Seq(Elements) /\ Len(u) = more
    <3> HIDE DEF more
    <3>1. u = [i \in 1 .. more |-> u[i]] /\ \A i \in 1 .. more : u[i] \in Elements
      BY Limits DEF UndefinedTimes
    <3> QED
      BY <2>2, <3>1, Listed
  <2>4. Resized(t, n) = t \o u
    BY <1>2, <2>1 DEF Resized
  <2> HIDE DEF more, u
  <2> QED
    BY <2>1, <2>2, <2>3, <2>4, ConcatProperties
<1> QED
  BY <1>1, <1>2, Fields

LEMMA ClearedIs ==
    ASSUME NEW t \in Seq(Elements), NEW from \in Nat, NEW upto \in Nat
    PROVE  /\ Cleared(t, from, upto) \in Seq(Elements) /\ Len(Cleared(t, from, upto)) = Len(t)
           /\ \A i \in 1 .. Len(t) : Cleared(t, from, upto)[i] = IF i \in from + 1 .. upto THEN Undefined ELSE t[i]
<1> DEFINE u == Cleared(t, from, upto)
<1>1. Len(t) \in Nat /\ DOMAIN t = 1 .. Len(t) /\ \A i \in 1 .. Len(t) : t[i] \in Elements
  BY Fields
<1>2. u = [i \in 1 .. Len(t) |-> IF i \in from + 1 .. upto THEN Undefined ELSE t[i]]
  BY <1>1 DEF Cleared
<1> HIDE DEF u
<1>3. u = [i \in 1 .. Len(t) |-> u[i]] /\ \A i \in 1 .. Len(t) : u[i] \in Elements
  BY <1>1, <1>2, Limits
<1> QED
  BY <1>1, <1>2, <1>3, Listed DEF u

LEMMA MovedIs ==
    ASSUME NEW t \in Seq(Elements), NEW to \in Nat, NEW from \in Nat, NEW n \in Nat,
           from + n <= Len(t)
    PROVE  /\ Moved(t, to, from, n) \in Seq(Elements) /\ Len(Moved(t, to, from, n)) = Len(t)
           /\ \A i \in 1 .. Len(t) : Moved(t, to, from, n)[i] = IF i \in to + 1 .. to + n THEN t[i - to + from] ELSE t[i]
<1> DEFINE u == Moved(t, to, from, n)
<1>1. Len(t) \in Nat /\ DOMAIN t = 1 .. Len(t) /\ \A i \in 1 .. Len(t) : t[i] \in Elements
  BY Fields
<1>2. \A i \in 1 .. Len(t) : i - to \in 1 .. n <=> i \in to + 1 .. to + n
  BY <1>1
<1>3. u = [i \in 1 .. Len(t) |-> IF i - to \in 1 .. n THEN t[i - to + from] ELSE t[i]]
  BY <1>1 DEF Moved
<1>4. \A i \in 1 .. Len(t) : i - to \in 1 .. n => i - to + from \in 1 .. Len(t)
  BY <1>1
<1> HIDE DEF u
<1>5. \A i \in 1 .. Len(t) : u[i] = IF i - to \in 1 .. n THEN t[i - to + from] ELSE t[i]
  BY <1>3
<1>6. u = [i \in 1 .. Len(t) |-> u[i]]
  BY <1>3
<1>7. \A i \in 1 .. Len(t) : u[i] \in Elements
  BY <1>1, <1>4, <1>5
<1> QED
  BY <1>1, <1>2, <1>5, <1>6, <1>7, Listed DEF u

LEMMA PutIs ==
    ASSUME NEW t \in Seq(Elements), NEW at \in Nat, NEW items \in Seq(Elements)
    PROVE  /\ Put(t, at, items) \in Seq(Elements) /\ Len(Put(t, at, items)) = Len(t)
           /\ \A i \in 1 .. Len(t) :
                Put(t, at, items)[i] = IF i \in at + 1 .. at + Len(items) THEN items[i - at] ELSE t[i]
<1> DEFINE u == Put(t, at, items)
<1>1. /\ Len(t) \in Nat /\ DOMAIN t = 1 .. Len(t) /\ \A i \in 1 .. Len(t) : t[i] \in Elements
      /\ Len(items) \in Nat /\ DOMAIN items = 1 .. Len(items)
      /\ \A i \in 1 .. Len(items) : items[i] \in Elements
  BY Fields
<1>2. \A i \in 1 .. Len(t) : i - at \in 1 .. Len(items) <=> i \in at + 1 .. at + Len(items)
  BY <1>1
<1>3. u = [i \in 1 .. Len(t) |-> IF i - at \in 1 .. Len(items) THEN items[i - at] ELSE t[i]]
  BY <1>1 DEF Put
<1> HIDE DEF u
<1>5. \A i \in 1 .. Len(t) : u[i] = IF i - at \in 1 .. Len(items) THEN items[i - at] ELSE t[i]
  BY <1>3
<1>6. u = [i \in 1 .. Len(t) |-> u[i]]
  BY <1>3
<1>7. \A i \in 1 .. Len(t) : u[i] \in Elements
  BY <1>1, <1>5
<1> QED
  BY <1>1, <1>2, <1>5, <1>6, <1>7, Listed DEF u

\* At the start of the table.
LEMMA PutFirstIs ==
    ASSUME NEW t \in Seq(Elements), NEW items \in Seq(Elements)
    PROVE  /\ Put(t, 0, items) \in Seq(Elements) /\ Len(Put(t, 0, items)) = Len(t)
           /\ \A i \in 1 .. Len(t) : Put(t, 0, items)[i] = IF i <= Len(items) THEN items[i] ELSE t[i]
<1> DEFINE z == 0
           u == Put(t, z, items)
<1>1. z \in Nat /\ Len(items) \in Nat
  BY Fields
<1>2. \A i \in 1 .. Len(t) : (i \in z + 1 .. z + Len(items) <=> i <= Len(items)) /\ i - z = i
  BY <1>1, Fields
<1> HIDE DEF z, u
<1>3. /\ u \in Seq(Elements) /\ Len(u) = Len(t)
      /\ \A i \in 1 .. Len(t) : u[i] = IF i \in z + 1 .. z + Len(items) THEN items[i - z] ELSE t[i]
  BY <1>1, PutIs DEF u
<1>4. \A i \in 1 .. Len(t) : u[i] = IF i <= Len(items) THEN items[i] ELSE t[i]
  BY <1>2, <1>3
<1> QED
  BY <1>3, <1>4, Zenon DEF u, z

-----------------------------------------------------------------------------
(* What each operation on a table makes of the sequence.                   *)

\* Splits of IsArray that the provers need often.
LEMMA ArrayParts ==
    ASSUME NEW a, IsArray(a)
    PROVE  /\ a.tab \in Seq(Elements) /\ Len(a.tab) \in Nat /\ a.len \in Nat /\ a.len <= Len(a.tab)
           /\ a.len <= ShortIntMax /\ DOMAIN a.tab = 1 .. Len(a.tab)
           /\ \A i \in 1 .. Len(a.tab) : a.tab[i] \in Elements
  BY Fields DEF IsArray

LEMMA JoinedIs ==
    ASSUME NEW s \in Seq(Elements), NEW t \in Seq(Elements)
    PROVE  /\ s \o t \in Seq(Elements) /\ Len(s \o t) = Len(s) + Len(t) /\ Len(s) \in Nat /\ Len(t) \in Nat
           /\ \A i \in 1 .. Len(s) + Len(t) : (s \o t)[i] = IF i <= Len(s) THEN s[i] ELSE t[i - Len(s)]
  BY ConcatProperties, LenProperties

LEMMA PushedIs ==
    ASSUME NEW a, IsArray(a), NEW args \in Seq(Elements), a.len + Len(args) <= ShortIntMax
    PROVE  IsArray(Pushed(a, args)) /\ Visible(Pushed(a, args)) = Visible(a) \o args
<1> DEFINE n == a.len + Len(args)
           r == Resized(a.tab, n)
           t == Put(r, a.len, args)
           v == Visible(a)
           w == v \o args
<1>1. /\ a.tab \in Seq(Elements) /\ Len(a.tab) \in Nat /\ a.len \in Nat /\ a.len <= Len(a.tab)
      /\ Len(args) \in Nat /\ n \in Nat
  BY ArrayParts, Fields
<1>2. /\ r \in Seq(Elements) /\ Len(r) >= n /\ Len(r) \in Nat /\ Len(r) >= Len(a.tab)
      /\ \A i \in 1 .. Len(a.tab) : r[i] = a.tab[i]
  BY <1>1, ResizedIs, Fields
<1> HIDE DEF n, r
<1>3. /\ t \in Seq(Elements) /\ Len(t) = Len(r)
      /\ \A i \in 1 .. Len(r) : t[i] = IF i \in a.len + 1 .. a.len + Len(args) THEN args[i - a.len] ELSE r[i]
  BY <1>1, <1>2, PutIs
<1> HIDE DEF t
<1>4. Pushed(a, args) = [tab |-> t, len |-> n]
  BY DEF Pushed, t, r, n
<1>5. n \in 0 .. Len(t) /\ n <= ShortIntMax
  BY <1>1, <1>2, <1>3 DEF n
<1>6. /\ v \in Seq(Elements) /\ Len(v) = a.len /\ \A i \in 1 .. a.len : v[i] = a.tab[i]
  BY VisibleIs
<1> HIDE DEF v
<1>7. w \in Seq(Elements) /\ Len(w) = n
      /\ \A i \in 1 .. n : w[i] = IF i <= a.len THEN v[i] ELSE args[i - a.len]
  <2>1. w \in Seq(Elements)
    BY <1>6, JoinedIs
  <2>2. Len(w) = Len(v) + Len(args)
    BY <1>6, JoinedIs
  <2>3. \A i \in 1 .. Len(v) + Len(args) : w[i] = IF i <= Len(v) THEN v[i] ELSE args[i - Len(v)]
    BY <1>6, JoinedIs
  <2> QED
    BY <1>6, <2>1, <2>2, <2>3 DEF n
<1> HIDE DEF w
<1>8. \A i \in 1 .. n : t[i] = w[i]
  <2> TAKE i \in 1 .. n
  <2>1. CASE i <= a.len
    <3>1. i \in 1 .. Len(r) /\ i \in 1 .. Len(a.tab) /\ i \in 1 .. a.len /\ i \notin a.len + 1 .. a.len + Len(args)
      BY <1>1, <1>2, <2>1 DEF n
    <3> QED
      BY <1>2, <1>3, <1>6, <1>7, <2>1, <3>1
  <2>2. CASE i > a.len
    <3>1. i \in 1 .. Len(r) /\ i \in a.len + 1 .. a.len + Len(args) /\ ~(i <= a.len)
      BY <1>1, <1>2, <2>2 DEF n
    <3> QED
      BY <1>3, <1>7, <3>1
  <2> QED
    BY <1>1, <2>1, <2>2 DEF n
<1>9. IsArray(Pushed(a, args)) /\ Visible(Pushed(a, args)) = w
  BY <1>3, <1>4, <1>5, <1>7, <1>8, Holds
<1> QED
  BY <1>9 DEF v, w

LEMMA UnshiftedIs ==
    ASSUME NEW a, IsArray(a), NEW args \in Seq(Elements), a.len + Len(args) <= ShortIntMax
    PROVE  IsArray(Unshifted(a, args)) /\ Visible(Unshifted(a, args)) = args \o Visible(a)
<1> DEFINE n == a.len + Len(args)
           r == Resized(a.tab, n)
           m == Moved(r, Len(args), 0, a.len)
           t == Put(m, 0, args)
           v == Visible(a)
           w == args \o v
<1>1. /\ a.tab \in Seq(Elements) /\ Len(a.tab) \in Nat /\ a.len \in Nat /\ a.len <= Len(a.tab)
      /\ Len(args) \in Nat /\ n \in Nat
  BY ArrayParts, Fields
<1>2. /\ r \in Seq(Elements) /\ Len(r) >= n /\ Len(r) \in Nat /\ Len(r) >= Len(a.tab)
      /\ \A i \in 1 .. Len(a.tab) : r[i] = a.tab[i]
  BY <1>1, ResizedIs, Fields
<1> HIDE DEF r
<1>3. /\ m \in Seq(Elements) /\ Len(m) = Len(r)
      /\ \A i \in 1 .. Len(r) : m[i] = IF i \in Len(args) + 1 .. Len(args) + a.len THEN r[i - Len(args) + 0] ELSE r[i]
  BY <1>1, <1>2, MovedIs
<1> HIDE DEF m
<1>4. /\ t \in Seq(Elements) /\ Len(t) = Len(m)
      /\ \A i \in 1 .. Len(m) : t[i] = IF i \in 0 + 1 .. 0 + Len(args) THEN args[i - 0] ELSE m[i]
  BY <1>3, PutIs
<1> HIDE DEF t, n
<1>5. Unshifted(a, args) = [tab |-> t, len |-> n]
  BY DEF Unshifted, t, m, r, n
<1>6. n \in 0 .. Len(t) /\ n <= ShortIntMax
  BY <1>1, <1>2, <1>3, <1>4 DEF n
<1>7. /\ v \in Seq(Elements) /\ Len(v) = a.len /\ \A i \in 1 .. a.len : v[i] = a.tab[i]
  BY VisibleIs
<1>8. w \in Seq(Elements) /\ Len(w) = n
      /\ \A i \in 1 .. n : w[i] = IF i <= Len(args) THEN args[i] ELSE v[i - Len(args)]
  <2>1. w \in Seq(Elements) /\ Len(w) = Len(args) + Len(v)
        /\ \A i \in 1 .. Len(args) + Len(v) : w[i] = IF i <= Len(args) THEN args[i] ELSE v[i - Len(args)]
    BY <1>7, JoinedIs
  <2>2. n = Len(args) + Len(v)
    BY <1>1, <1>7 DEF n
  <2> HIDE DEF v, w
  <2> QED
    BY <2>1, <2>2
<1> HIDE DEF v, w
<1>9. \A i \in 1 .. n : t[i] = w[i]
  <2> TAKE i \in 1 .. n
  <2>1. CASE i <= Len(args)
    <3>1. i \in 1 .. Len(m) /\ i \in 0 + 1 .. 0 + Len(args) /\ i - 0 = i
      BY <1>1, <1>2, <1>3, <2>1 DEF n
    <3> QED
      BY <1>4, <1>8, <2>1, <3>1
  <2>2. CASE i > Len(args)
    <3>1. i \in 1 .. Len(r) /\ i \in Len(args) + 1 .. Len(args) + a.len /\ i - Len(args) \in 1 .. a.len
      BY <1>1, <1>2, <2>2 DEF n
    <3>2. t[i] = m[i] /\ m[i] = r[i - Len(args) + 0]
      BY <1>1, <1>3, <1>4, <2>2, <3>1
    <3>3. r[i - Len(args)] = a.tab[i - Len(args)]
      BY <1>1, <1>2, <3>1
    <3>4. i - Len(args) + 0 = i - Len(args) /\ ~(i <= Len(args))
      BY <1>1, <2>2 DEF n
    <3>5. w[i] = v[i - Len(args)]
      BY <1>8, <3>4
    <3>6. v[i - Len(args)] = a.tab[i - Len(args)]
      BY <1>7, <3>1
    <3> QED
      BY <3>2, <3>3, <3>4, <3>5, <3>6
  <2> QED
    BY <1>1, <2>1, <2>2 DEF n
<1>10. IsArray(Unshifted(a, args)) /\ Visible(Unshifted(a, args)) = w
  BY <1>4, <1>5, <1>6, <1>8, <1>9, Holds
<1> QED
  BY <1>10 DEF v, w

LEMMA ShiftedIs ==
    ASSUME NEW a, IsArray(a), a.len # 0
    PROVE  IsArray(Shifted(a)) /\ Visible(Shifted(a)) = Tail(Visible(a)) /\ a.tab[1] = Head(Visible(a))
<1> DEFINE t == Moved(a.tab, 0, 1, a.len - 1)
           v == Visible(a)
           w == Tail(v)
<1>1. /\ a.tab \in Seq(Elements) /\ Len(a.tab) \in Nat /\ a.len \in Nat /\ a.len <= Len(a.tab)
      /\ a.len <= ShortIntMax
  BY ArrayParts
<1>2. a.len - 1 \in Nat
  BY <1>1
<1>3. /\ t \in Seq(Elements) /\ Len(t) = Len(a.tab)
      /\ \A i \in 1 .. Len(a.tab) : t[i] = IF i \in 0 + 1 .. 0 + (a.len - 1) THEN a.tab[i - 0 + 1] ELSE a.tab[i]
  BY <1>1, <1>2, MovedIs
<1> HIDE DEF t
<1>4. Shifted(a) = [tab |-> t, len |-> a.len - 1]
  BY DEF Shifted, t
<1>5. a.len - 1 \in 0 .. Len(t) /\ a.len - 1 <= ShortIntMax
  BY <1>1, <1>2, <1>3, Limits
<1>6. /\ v \in Seq(Elements) /\ Len(v) = a.len /\ \A i \in 1 .. a.len : v[i] = a.tab[i]
  BY VisibleIs
<1> HIDE DEF v
<1>7. Head(v) = v[1] /\ w \in Seq(Elements) /\ Len(w) = a.len - 1
      /\ \A i \in 1 .. a.len - 1 : w[i] = v[i + 1]
  BY <1>1, <1>6, HeadTailProperties, EmptySeq
<1> HIDE DEF w
<1>8. \A i \in 1 .. a.len - 1 : t[i] = w[i]
  <2> TAKE i \in 1 .. a.len - 1
  <2>1. i \in 1 .. Len(a.tab) /\ i \in 0 + 1 .. 0 + (a.len - 1) /\ i + 1 \in 1 .. a.len /\ i - 0 + 1 = i + 1
    BY <1>1
  <2> QED
    BY <1>3, <1>6, <1>7, <2>1
<1>9. a.tab[1] = Head(v)
  BY <1>1, <1>6, <1>7
<1>10. IsArray(Shifted(a)) /\ Visible(Shifted(a)) = w
  BY <1>3, <1>4, <1>5, <1>7, <1>8, Holds
<1> QED
  BY <1>9, <1>10 DEF v, w

LEMMA PoppedIs ==
    ASSUME NEW a, IsArray(a), a.len # 0, NEW b, b = [a EXCEPT !.len = @ - 1]
    PROVE  IsArray(b) /\ Visible(b) = Front(Visible(a)) /\ a.tab[a.len] = Last(Visible(a))
<1> DEFINE v == Visible(a)
<1>1. /\ a.tab \in Seq(Elements) /\ Len(a.tab) \in Nat /\ a.len \in Nat /\ a.len <= Len(a.tab)
      /\ a.len <= ShortIntMax /\ a = [tab |-> a.tab, len |-> a.len]
  BY ArrayParts DEF IsArray
<1>2. b = [tab |-> a.tab, len |-> a.len - 1]
  BY <1>1
<1>3. a.len - 1 \in 0 .. Len(a.tab) /\ a.len - 1 <= ShortIntMax
  BY <1>1, Limits
<1>4. /\ v \in Seq(Elements) /\ Len(v) = a.len /\ \A i \in 1 .. a.len : v[i] = a.tab[i]
  BY VisibleIs
<1>5. \A i \in 1 .. a.len - 1 : v[i] \in Elements
  BY <1>1, <1>4, Fields
<1> HIDE DEF v
<1>6. Front(v) \in Seq(Elements) /\ Len(Front(v)) = a.len - 1 /\ \A i \in 1 .. a.len - 1 : Front(v)[i] = v[i]
  BY <1>1, <1>4, <1>5, SubSeqProperties DEF Front
<1>7. \A i \in 1 .. a.len - 1 : a.tab[i] = Front(v)[i]
  BY <1>1, <1>4, <1>6
<1>8. a.tab[a.len] = Last(v)
  BY <1>1, <1>4 DEF Last
<1> QED
  BY <1>1, <1>2, <1>3, <1>6, <1>7, <1>8, Holds DEF v

LEMMA ReversedIs ==
    ASSUME NEW a, IsArray(a),
           NEW b, b = [a EXCEPT !.tab = [i \in DOMAIN @ |-> IF i <= a.len THEN @[a.len + 1 - i] ELSE @[i]]]
    PROVE  IsArray(b) /\ Visible(b) = Reverse(Visible(a))
<1> DEFINE v == Visible(a)
           w == Reverse(v)
           t == [i \in DOMAIN a.tab |-> IF i <= a.len THEN a.tab[a.len + 1 - i] ELSE a.tab[i]]
<1>1. /\ a.tab \in Seq(Elements) /\ Len(a.tab) \in Nat /\ a.len \in Nat /\ a.len <= Len(a.tab)
      /\ a.len <= ShortIntMax /\ a = [tab |-> a.tab, len |-> a.len] /\ DOMAIN a.tab = 1 .. Len(a.tab)
      /\ \A i \in 1 .. Len(a.tab) : a.tab[i] \in Elements
  BY ArrayParts DEF IsArray
<1>2. b = [tab |-> t, len |-> a.len]
  BY <1>1
<1>3. /\ t = [i \in 1 .. Len(a.tab) |-> t[i]]
      /\ \A i \in 1 .. Len(a.tab) : t[i] = IF i <= a.len THEN a.tab[a.len + 1 - i] ELSE a.tab[i]
  BY <1>1
<1> HIDE DEF t
<1>4. \A i \in 1 .. Len(a.tab) : t[i] \in Elements
  BY <1>1, <1>3
<1>5. t \in Seq(Elements) /\ Len(t) = Len(a.tab)
  BY <1>1, <1>3, <1>4, Listed
<1>6. a.len \in 0 .. Len(t)
  BY <1>1, <1>5
<1>7. /\ v \in Seq(Elements) /\ Len(v) = a.len /\ \A i \in 1 .. a.len : v[i] = a.tab[i]
  BY VisibleIs
<1> HIDE DEF v
<1>8. /\ w = [i \in 1 .. a.len |-> w[i]]
      /\ \A i \in 1 .. a.len : w[i] = v[(a.len - i) + 1]
  BY <1>7 DEF Reverse
<1> HIDE DEF w
<1>9. \A i \in 1 .. a.len : w[i] = t[i] /\ t[i] \in Elements
  <2> TAKE i \in 1 .. a.len
  <2>1. i \in 1 .. Len(a.tab) /\ (a.len - i) + 1 \in 1 .. a.len /\ (a.len - i) + 1 = a.len + 1 - i
    BY <1>1
  <2>2. w[i] = a.tab[a.len + 1 - i]
    BY <1>7, <1>8, <2>1
  <2> QED
    BY <1>1, <1>3, <1>4, <2>1, <2>2
<1>10. w \in Seq(Elements) /\ Len(w) = a.len
  BY <1>1, <1>8, <1>9, Listed
<1>11. IsArray(b) /\ Visible(b) = w
  <2>1. a.len <= ShortIntMax /\ \A i \in 1 .. a.len : t[i] = w[i]
    BY <1>1, <1>9
  <2>2. ASSUME NEW c, c = [tab |-> t, len |-> a.len] PROVE IsArray(c) /\ Visible(c) = w
    BY <1>5, <1>6, <1>10, <2>1, <2>2, Holds
  <2> QED
    BY <1>2, <2>2, Zenon
<1> QED
  BY <1>11 DEF v, w

LEMMA PartIs ==
    ASSUME NEW s \in Seq(Elements), NEW m \in Nat \ {0}, NEW n \in 0 .. Len(s)
    PROVE  /\ SubSeq(s, m, n) \in Seq(Elements)
           /\ Len(SubSeq(s, m, n)) = IF m <= n THEN n - m + 1 ELSE 0
           /\ \A i \in 1 .. n - m + 1 : SubSeq(s, m, n)[i] = s[m + i - 1]
<1>1. Len(s) \in Nat /\ \A i \in 1 .. Len(s) : s[i] \in Elements
  BY Fields
<1>2. \A i \in m .. n : s[i] \in Elements
  BY <1>1
<1> QED
  BY <1>1, <1>2, SubSeqProperties

\* js_array_resize to a smaller length.
LEMMA ShortenedIs ==
    ASSUME NEW a, IsArray(a), NEW n \in 0 .. a.len
    PROVE  IsArray(Shortened(a, n)) /\ Visible(Shortened(a, n)) = SubSeq(Visible(a), 1, n)
           /\ Shortened(a, n).len = n
<1> DEFINE v == Visible(a)
           w == SubSeq(v, 1, n)
           b == Shortened(a, n)
<1>1. /\ a.tab \in Seq(Elements) /\ Len(a.tab) \in Nat /\ a.len \in Nat /\ a.len <= Len(a.tab)
      /\ a.len <= ShortIntMax /\ n \in Nat /\ ShortIntMax \in Nat
  BY ArrayParts, Limits
<1>2. /\ v \in Seq(Elements) /\ Len(v) = a.len /\ \A i \in 1 .. a.len : v[i] = a.tab[i]
  BY VisibleIs
<1> HIDE DEF v
<1>3. w \in Seq(Elements) /\ Len(w) = n /\ \A i \in 1 .. n : w[i] = v[i]
  <2>1. n \in 0 .. Len(v) /\ 1 \in Nat \ {0} /\ n - 1 + 1 = n /\ (IF 1 <= n THEN n - 1 + 1 ELSE 0) = n
    BY <1>1, <1>2
  <2>2. \A i \in 1 .. n : 1 + i - 1 = i
    BY <1>1
  <2> QED
    BY <1>2, <2>1, <2>2, PartIs
<1> HIDE DEF w
<1>4. PICK t : b = [tab |-> t, len |-> n] /\ (t = SubSeq(a.tab, 1, n) \/ t = Cleared(a.tab, n, a.len))
  BY DEF Shortened
<1>5. t \in Seq(Elements) /\ n <= Len(t) /\ Len(t) \in Nat /\ \A i \in 1 .. n : t[i] = a.tab[i]
  <2>1. CASE t = SubSeq(a.tab, 1, n)
    <3>1. n \in 0 .. Len(a.tab) /\ 1 \in Nat \ {0} /\ n - 1 + 1 = n /\ (IF 1 <= n THEN n - 1 + 1 ELSE 0) = n
      BY <1>1
    <3>2. \A i \in 1 .. n : 1 + i - 1 = i
      BY <1>1
    <3>3. t \in Seq(Elements) /\ Len(t) = n /\ \A i \in 1 .. n : t[i] = a.tab[i]
      BY <1>1, <2>1, <3>1, <3>2, PartIs
    <3> QED
      BY <1>1, <3>3
  <2>2. CASE t = Cleared(a.tab, n, a.len)
    <3>1. /\ t \in Seq(Elements) /\ Len(t) = Len(a.tab)
          /\ \A i \in 1 .. Len(a.tab) : t[i] = IF i \in n + 1 .. a.len THEN Undefined ELSE a.tab[i]
      BY <1>1, <2>2, ClearedIs
    <3> QED
      BY <1>1, <3>1
  <2> QED
    BY <1>4, <2>1, <2>2
<1>6. n \in 0 .. Len(t) /\ n <= ShortIntMax /\ \A i \in 1 .. n : t[i] = w[i]
  BY <1>1, <1>2, <1>3, <1>5
<1>7. IsArray(b) /\ Visible(b) = w
  BY <1>3, <1>4, <1>5, <1>6, Holds
<1> QED
  BY <1>4, <1>7 DEF v, w

\* js_array_resize to a larger length.
LEMMA LengthenedIs ==
    ASSUME NEW a, IsArray(a), NEW n \in Nat, n > a.len, n <= ShortIntMax
    PROVE  /\ IsArray(Lengthened(a, n)) /\ Lengthened(a, n).len = n
           /\ Visible(Lengthened(a, n)) = Visible(a) \o UndefinedTimes(n - a.len)
<1> DEFINE v == Visible(a)
           u == UndefinedTimes(n - a.len)
           w == v \o u
           r == Resized(a.tab, n)
           t == Cleared(r, a.len, n)
<1>1. /\ a.tab \in Seq(Elements) /\ Len(a.tab) \in Nat /\ a.len \in Nat /\ a.len <= Len(a.tab)
      /\ n - a.len \in Nat
  BY ArrayParts
<1>2. /\ r \in Seq(Elements) /\ Len(r) >= n /\ Len(r) \in Nat /\ Len(r) >= Len(a.tab)
      /\ \A i \in 1 .. Len(a.tab) : r[i] = a.tab[i]
  BY <1>1, ResizedIs, Fields
<1> HIDE DEF r
<1>3. /\ t \in Seq(Elements) /\ Len(t) = Len(r)
      /\ \A i \in 1 .. Len(r) : t[i] = IF i \in a.len + 1 .. n THEN Undefined ELSE r[i]
  BY <1>1, <1>2, ClearedIs
<1> HIDE DEF t
<1>4. Lengthened(a, n) = [tab |-> t, len |-> n] /\ n \in 0 .. Len(t)
  BY <1>2, <1>3 DEF Lengthened, t, r
<1>5. /\ v \in Seq(Elements) /\ Len(v) = a.len /\ \A i \in 1 .. a.len : v[i] = a.tab[i]
  BY VisibleIs
<1>6. u = [i \in 1 .. n - a.len |-> u[i]] /\ \A i \in 1 .. n - a.len : u[i] = Undefined
  BY DEF UndefinedTimes
<1> HIDE DEF u, v
<1>7. u \in Seq(Elements) /\ Len(u) = n - a.len
  BY <1>1, <1>6, Limits, Listed
<1>8. /\ w \in Seq(Elements) /\ Len(w) = Len(v) + Len(u)
      /\ \A i \in 1 .. Len(v) + Len(u) : w[i] = IF i <= Len(v) THEN v[i] ELSE u[i - Len(v)]
  BY <1>5, <1>7, JoinedIs
<1> HIDE DEF w
<1>9. Len(v) + Len(u) = n
  BY <1>1, <1>5, <1>7
<1>10. \A i \in 1 .. n : t[i] = w[i]
  <2> TAKE i \in 1 .. n
  <2>1. CASE i <= a.len
    <3>1. i \in 1 .. Len(r) /\ i \notin a.len + 1 .. n /\ i \in 1 .. Len(a.tab) /\ i \in 1 .. a.len
      BY <1>1, <1>2, <2>1
    <3> QED
      BY <1>2, <1>3, <1>5, <1>8, <1>9, <2>1, <3>1
  <2>2. CASE i > a.len
    <3>1. i \in 1 .. Len(r) /\ i \in a.len + 1 .. n /\ ~(i <= a.len) /\ i - a.len \in 1 .. n - a.len
      BY <1>1, <1>2, <2>2
    <3> QED
      BY <1>3, <1>5, <1>6, <1>8, <1>9, <3>1
  <2> QED
    BY <1>1, <2>1, <2>2
<1>11. Len(w) = n
  BY <1>8, <1>9
<1>12. IsArray(Lengthened(a, n)) /\ Visible(Lengthened(a, n)) = w
  BY <1>3, <1>4, <1>8, <1>10, <1>11, Holds
<1> QED
  BY <1>4, <1>12 DEF w, v, u

\* An element of an array is stored.
LEMMA StoredIs ==
    ASSUME NEW a, IsArray(a), NEW i \in 0 .. a.len - 1, NEW x \in Elements,
           NEW b, b = [a EXCEPT !.tab[i + 1] = x]
    PROVE  IsArray(b) /\ Visible(b) = ReplaceAt(Visible(a), i + 1, x)
<1> DEFINE v == Visible(a)
           w == [v EXCEPT ![i + 1] = x]
           t == [a.tab EXCEPT ![i + 1] = x]
<1>1. /\ a.tab \in Seq(Elements) /\ Len(a.tab) \in Nat /\ a.len \in Nat /\ a.len <= Len(a.tab)
      /\ a.len <= ShortIntMax /\ a = [tab |-> a.tab, len |-> a.len]
  BY ArrayParts DEF IsArray
<1>2. b = [tab |-> t, len |-> a.len]
  BY <1>1
<1>3. /\ v \in Seq(Elements) /\ Len(v) = a.len /\ \A j \in 1 .. a.len : v[j] = a.tab[j]
  BY VisibleIs
<1> HIDE DEF v
<1>4. i + 1 \in 1 .. Len(a.tab) /\ i + 1 \in 1 .. Len(v)
  BY <1>1, <1>3
<1>5. t \in Seq(Elements) /\ Len(t) = Len(a.tab) /\ \A j \in 1 .. Len(a.tab) : t[j] = IF j = i + 1 THEN x ELSE a.tab[j]
  BY <1>1, <1>4, ExceptSeq
<1>6. w \in Seq(Elements) /\ Len(w) = Len(v) /\ \A j \in 1 .. Len(v) : w[j] = IF j = i + 1 THEN x ELSE v[j]
  BY <1>3, <1>4, ExceptSeq
<1> HIDE DEF w, t
<1>7. a.len \in 0 .. Len(t) /\ Len(w) = a.len /\ \A j \in 1 .. a.len : t[j] = w[j]
  <2>1. \A j \in 1 .. a.len : j \in 1 .. Len(a.tab) /\ j \in 1 .. Len(v)
    BY <1>1, <1>3
  <2>2. a.len \in 0 .. Len(t) /\ Len(w) = a.len
    BY <1>1, <1>3, <1>5, <1>6
  <2> QED
    BY <1>3, <1>5, <1>6, <2>1, <2>2, Zenon
<1>8. IsArray(b) /\ Visible(b) = w
  <2>1. ASSUME NEW c, c = [tab |-> t, len |-> a.len] PROVE IsArray(c) /\ Visible(c) = w
    BY <1>1, <1>5, <1>6, <1>7, <2>1, Holds
  <2> QED
    BY <1>2, <2>1, Zenon
<1> QED
  BY <1>8 DEF ReplaceAt, v, w

\* What is made room in: the elements before the place, and the rest behind it.
Roomy(a, b, start, del, k) ==
    LET n == a.len + k - del IN
    /\ IsArray(b) /\ b.len = n
    /\ \A i \in 1 .. start : b.tab[i] = a.tab[i]
    /\ \A i \in start + k + 1 .. n : b.tab[i] = a.tab[i - k + del]

\* Where the places are: those before stay, those behind move by k - del.
LEMMA Shifts ==
    ASSUME NEW len \in Nat, NEW start \in Nat, NEW del \in Nat, NEW k \in Nat, start + del <= len,
           NEW n, n = len + k - del, NEW cnt, cnt = len - (start + del)
    PROVE  /\ cnt \in Nat /\ n \in Nat /\ start + k \in Nat /\ start + del \in Nat /\ start + del + cnt = len
           /\ start + k + cnt = n
           /\ \A i \in 1 .. start : i \in 1 .. n /\ i \in 1 .. len /\ i \notin start + k + 1 .. start + k + cnt
           /\ \A i \in start + k + 1 .. n :
                /\ i \in 1 .. n /\ i \in start + k + 1 .. start + k + cnt
                /\ i - (start + k) + (start + del) = i - k + del /\ i - k + del \in 1 .. len
  OBVIOUS

\* The elements after those that go, k places after start.
Rest(t, len, start, del, k) == Moved(t, start + k, start + del, len - (start + del))
IsRest(m, t, len, start, del, k) ==
    /\ m \in Seq(Elements) /\ Len(m) = Len(t)
    /\ \A i \in 1 .. start : m[i] = t[i]
    /\ \A i \in start + k + 1 .. len + k - del : m[i] = t[i - k + del] /\ i - k + del \in 1 .. len

LEMMA RestIs ==
    ASSUME NEW t \in Seq(Elements), NEW len \in Nat, len <= Len(t), NEW start \in Nat, NEW del \in Nat,
           start + del <= len, NEW k \in Nat, len + k - del <= Len(t)
    PROVE  IsRest(Rest(t, len, start, del, k), t, len, start, del, k)
<1> DEFINE cnt == len - (start + del)
           n == len + k - del
           m == Rest(t, len, start, del, k)
<1>1. /\ cnt \in Nat /\ n \in Nat /\ start + k \in Nat /\ start + del \in Nat /\ start + del + cnt = len
      /\ start + k + cnt = n
      /\ \A i \in 1 .. start : i \in 1 .. n /\ i \in 1 .. len /\ i \notin start + k + 1 .. start + k + cnt
      /\ \A i \in start + k + 1 .. n :
            /\ i \in 1 .. n /\ i \in start + k + 1 .. start + k + cnt
            /\ i - (start + k) + (start + del) = i - k + del /\ i - k + del \in 1 .. len
  BY Shifts
<1>2. Len(t) \in Nat /\ start + del + cnt <= Len(t)
  BY <1>1, Fields
<1>3. /\ m \in Seq(Elements) /\ Len(m) = Len(t)
      /\ \A i \in 1 .. Len(t) :
            m[i] = IF i \in start + k + 1 .. start + k + cnt THEN t[i - (start + k) + (start + del)] ELSE t[i]
  <2>1. m = Moved(t, start + k, start + del, cnt)
    BY DEF Rest
  <2> HIDE DEF cnt, m
  <2> QED
    BY <1>1, <1>2, <2>1, MovedIs
<1> HIDE DEF cnt, m
<1>4. \A i \in 1 .. len : i \in 1 .. Len(t)
  BY <1>2
<1>5. \A i \in 1 .. n : i \in 1 .. Len(t)
  BY <1>1, <1>2
<1>6. \A i \in 1 .. start : m[i] = t[i]
  BY <1>1, <1>3, <1>4
<1>7. \A i \in start + k + 1 .. n : m[i] = t[i - k + del] /\ i - k + del \in 1 .. len
  BY <1>1, <1>3, <1>5
<1>8. IsRest(m, t, len, start, del, k)
  BY <1>3, <1>6, <1>7 DEF IsRest
<1> QED
  BY <1>8 DEF m

LEMMA RoomByShrinking ==
    ASSUME NEW a, IsArray(a), NEW start \in Nat, NEW del \in Nat, start + del <= a.len, NEW k \in Nat, del > k
    PROVE  Roomy(a, ArrayResize([a EXCEPT !.tab = Moved(@, start + k, start + del, a.len - (start + del))],
                                a.len + k - del), start, del, k)
<1> DEFINE n == a.len + k - del
           m == Moved(a.tab, start + k, start + del, a.len - (start + del))
           c == [tab |-> m, len |-> a.len]
           b == ArrayResize(c, n)
           v == Visible(c)
           w == Visible(b)
<1>1. /\ a.tab \in Seq(Elements) /\ Len(a.tab) \in Nat /\ a.len \in Nat /\ a.len <= Len(a.tab)
      /\ a.len <= ShortIntMax /\ a = [tab |-> a.tab, len |-> a.len]
  BY ArrayParts DEF IsArray
<1>2. [a EXCEPT !.tab = Moved(@, start + k, start + del, a.len - (start + del))] = c
  BY <1>1, Refilled, Zenon
<1>3. n \in 0 .. a.len /\ n \in Nat /\ n < a.len /\ n <= Len(a.tab)
  BY <1>1
<1>4. /\ m \in Seq(Elements) /\ Len(m) = Len(a.tab)
      /\ \A i \in 1 .. start : m[i] = a.tab[i]
      /\ \A i \in start + k + 1 .. n : m[i] = a.tab[i - k + del] /\ i - k + del \in 1 .. a.len
  <2>1. a.len + k - del <= Len(a.tab)
    BY <1>3
  <2>2. IsRest(Rest(a.tab, a.len, start, del, k), a.tab, a.len, start, del, k)
    BY <1>1, <2>1, RestIs
  <2>3. m = Rest(a.tab, a.len, start, del, k)
    BY DEF Rest
  <2> HIDE DEF m
  <2>4. IsRest(m, a.tab, a.len, start, del, k)
    BY <2>2, <2>3, Zenon
  <2> QED
    BY <2>4 DEF IsRest
<1>5. \A i \in 1 .. start : i \in 1 .. n
  BY <1>1
<1>6. \A i \in start + k + 1 .. n : i \in 1 .. n
  BY <1>1
<1>7. Roomy(a, b, start, del, k) <=>
          /\ IsArray(b) /\ b.len = n
          /\ \A i \in 1 .. start : b.tab[i] = a.tab[i]
          /\ \A i \in start + k + 1 .. n : b.tab[i] = a.tab[i - k + del]
  BY DEF Roomy
<1> HIDE DEF m, n
<1>8. IsArray(c) /\ c.len = a.len /\ c.tab = m
  BY <1>1, <1>4 DEF IsArray
<1>9. b = Shortened(c, n)
  BY <1>3, <1>8 DEF ArrayResize
<1> HIDE DEF b, c
<1>10. IsArray(b) /\ w = SubSeq(v, 1, n) /\ b.len = n
  BY <1>3, <1>8, <1>9, ShortenedIs
<1>11. v \in Seq(Elements) /\ Len(v) = a.len /\ \A i \in 1 .. a.len : v[i] = m[i]
  BY <1>8, VisibleIs
<1>12. \A i \in 1 .. n : w[i] = b.tab[i]
  BY <1>10, VisibleIs
<1> HIDE DEF v, w
<1>13. \A i \in 1 .. n : w[i] = v[i]
  <2>1. n \in 0 .. Len(v) /\ n - 1 + 1 = n /\ \A i \in 1 .. n : 1 + i - 1 = i
    BY <1>3, <1>11
  <2> QED
    BY <1>10, <1>11, <2>1, PartIs
<1>14. \A i \in 1 .. n : b.tab[i] = m[i]
  <2>1. \A i \in 1 .. n : i \in 1 .. a.len
    BY <1>1, <1>3
  <2> QED
    BY <1>11, <1>12, <1>13, <2>1, Zenon
<1>15. Roomy(a, b, start, del, k)
  BY <1>4, <1>5, <1>6, <1>7, <1>10, <1>14, Zenon
<1> QED
  BY <1>2, <1>15, Zenon DEF b, n

LEMMA RoomByGrowing ==
    ASSUME NEW a, IsArray(a), NEW start \in Nat, NEW del \in Nat, start + del <= a.len, NEW k \in Nat, del < k,
           a.len + k - del <= ShortIntMax
    PROVE  Roomy(a, [ArrayResize(a, a.len + k - del) EXCEPT
                         !.tab = Moved(@, start + k, start + del, a.len - (start + del))], start, del, k)
<1> DEFINE n == a.len + k - del
           c == Lengthened(a, n)
           m == Moved(c.tab, start + k, start + del, a.len - (start + del))
           u == UndefinedTimes(n - a.len)
           v == Visible(a)
           w == Visible(c)
           b == [tab |-> m, len |-> n]
<1>1. /\ a.tab \in Seq(Elements) /\ Len(a.tab) \in Nat /\ a.len \in Nat /\ a.len <= Len(a.tab)
  BY ArrayParts
<1>2. n \in Nat /\ n > a.len /\ ~(n < a.len) /\ n <= ShortIntMax /\ n - a.len \in Nat
  BY <1>1
<1>3. ArrayResize(a, n) = c
  BY <1>2 DEF ArrayResize
<1>4. n = a.len + k - del
  OBVIOUS
<1>5. Roomy(a, b, start, del, k) <=>
          /\ IsArray(b) /\ b.len = n
          /\ \A i \in 1 .. start : b.tab[i] = a.tab[i]
          /\ \A i \in start + k + 1 .. n : b.tab[i] = a.tab[i - k + del]
  BY DEF Roomy
<1>6. \A i \in 1 .. start : i \in 1 .. a.len
  BY <1>1
<1> HIDE DEF n
<1>7. IsArray(c) /\ c.len = n /\ w = v \o u
  BY <1>2, LengthenedIs
<1> HIDE DEF c
<1>8. /\ c.tab \in Seq(Elements) /\ Len(c.tab) \in Nat /\ n <= Len(c.tab) /\ c = [tab |-> c.tab, len |-> n]
  BY <1>7, ArrayParts DEF IsArray
<1>9. [c EXCEPT !.tab = Moved(@, start + k, start + del, a.len - (start + del))] = b
  <2>1. c = [tab |-> c.tab, len |-> c.len]
    BY <1>7, <1>8
  <2> QED
    BY <1>7, <2>1, Refilled, Zenon
<1>10. /\ m \in Seq(Elements) /\ Len(m) = Len(c.tab)
       /\ \A i \in 1 .. start : m[i] = c.tab[i]
       /\ \A i \in start + k + 1 .. n : m[i] = c.tab[i - k + del] /\ i - k + del \in 1 .. a.len
  <2> DEFINE tab == c.tab
  <2>1. tab \in Seq(Elements) /\ a.len \in Nat /\ a.len <= Len(tab) /\ a.len + k - del <= Len(tab)
    BY <1>1, <1>2, <1>4, <1>8
  <2>2. m = Rest(tab, a.len, start, del, k)
    BY DEF Rest
  <2> HIDE DEF m, tab
  <2>3. IsRest(Rest(tab, a.len, start, del, k), tab, a.len, start, del, k)
    BY <2>1, RestIs
  <2>4. IsRest(m, tab, a.len, start, del, k)
    BY <2>2, <2>3, Zenon
  <2> QED
    BY <1>4, <2>4 DEF IsRest, tab
<1>11. \A i \in 1 .. a.len : c.tab[i] = a.tab[i]
  <2>1. v \in Seq(Elements) /\ Len(v) = a.len /\ \A i \in 1 .. a.len : v[i] = a.tab[i]
    BY VisibleIs
  <2>2. \A i \in 1 .. n : w[i] = c.tab[i]
    BY <1>7, VisibleIs
  <2>3. u \in Seq(Elements)
    <3>1. u = [i \in 1 .. n - a.len |-> u[i]] /\ \A i \in 1 .. n - a.len : u[i] = Undefined
      BY DEF UndefinedTimes
    <3> HIDE DEF u
    <3> QED
      BY <1>2, <3>1, Limits, Listed
  <2> HIDE DEF u, v, w
  <2>4. Len(u) \in Nat /\ \A i \in 1 .. Len(v) + Len(u) : w[i] = IF i <= Len(v) THEN v[i] ELSE u[i - Len(v)]
    BY <1>7, <2>1, <2>3, JoinedIs
  <2> TAKE i \in 1 .. a.len
  <2>5. i \in 1 .. n /\ i <= Len(v) /\ i \in 1 .. Len(v) + Len(u)
    BY <1>1, <1>2, <2>1, <2>4
  <2> QED
    BY <2>1, <2>2, <2>4, <2>5
<1> HIDE DEF m
<1>12. IsArray(b) /\ b.len = n /\ b.tab = m
  BY <1>2, <1>8, <1>10 DEF IsArray
<1> HIDE DEF b
<1>13. Roomy(a, b, start, del, k)
  BY <1>5, <1>6, <1>10, <1>11, <1>12, Zenon
<1> QED
  BY <1>3, <1>9, <1>13, Zenon DEF n

\* The sequence that a splice makes.
SpliceOf(v, start, del, items) == SubSeq(v, 1, start) \o items \o SubSeq(v, start + del + 1, Len(v))

LEMMA SpliceIs ==
    ASSUME NEW v \in Seq(Elements), NEW items \in Seq(Elements), NEW start \in Nat, NEW del \in Nat,
           start + del <= Len(v)
    PROVE  /\ SpliceOf(v, start, del, items) \in Seq(Elements)
           /\ Len(SpliceOf(v, start, del, items)) = Len(v) + Len(items) - del
           /\ \A i \in 1 .. start : SpliceOf(v, start, del, items)[i] = v[i]
           /\ \A i \in start + 1 .. start + Len(items) : SpliceOf(v, start, del, items)[i] = items[i - start]
           /\ \A i \in start + Len(items) + 1 .. Len(v) + Len(items) - del :
                SpliceOf(v, start, del, items)[i] = v[i - Len(items) + del]
<1> DEFINE w == SpliceOf(v, start, del, items)
           x == SubSeq(v, 1, start)
           y == SubSeq(v, start + del + 1, Len(v))
           xi == x \o items
           k == Len(items)
           L == Len(v)
<1>1. L \in Nat /\ k \in Nat
  BY Fields
<1>2. x \in Seq(Elements) /\ Len(x) = start /\ \A i \in 1 .. start : x[i] = v[i]
  <2>1. 1 \in Nat \ {0} /\ start \in 0 .. Len(v) /\ start - 1 + 1 = start /\ (IF 1 <= start THEN start - 1 + 1 ELSE 0) = start
    BY <1>1
  <2>2. \A i \in 1 .. start : 1 + i - 1 = i
    OBVIOUS
  <2> QED
    BY <2>1, <2>2, PartIs
<1>3. /\ y \in Seq(Elements) /\ Len(y) = L - start - del
      /\ \A i \in 1 .. L - start - del : y[i] = v[start + del + i]
  <2>1. /\ start + del + 1 \in Nat \ {0} /\ L \in 0 .. L /\ L - (start + del + 1) + 1 = L - start - del
        /\ (IF start + del + 1 <= L THEN L - (start + del + 1) + 1 ELSE 0) = L - start - del
    BY <1>1
  <2>2. \A i \in 1 .. L - start - del : start + del + 1 + i - 1 = start + del + i
    BY <1>1
  <2> DEFINE p == start + del + 1
  <2>3. /\ SubSeq(v, p, L) \in Seq(Elements)
        /\ Len(SubSeq(v, p, L)) = IF p <= L THEN L - p + 1 ELSE 0
        /\ \A i \in 1 .. L - p + 1 : SubSeq(v, p, L)[i] = v[p + i - 1]
    <3>1. p \in Nat \ {0} /\ L \in 0 .. Len(v)
      BY <2>1
    <3> HIDE DEF p, L
    <3> QED
      BY <3>1, PartIs
  <2>4. y = SubSeq(v, p, L)
    OBVIOUS
  <2>5. Len(y) = L - start - del
    BY <2>1, <2>3, <2>4
  <2>6. \A i \in 1 .. L - start - del : y[i] = v[p + i - 1]
    BY <2>1, <2>3, <2>4
  <2> HIDE DEF y, L
  <2> QED
    BY <2>2, <2>3, <2>4, <2>5, <2>6
<1> HIDE DEF x, y
<1>4. /\ xi \in Seq(Elements) /\ Len(xi) = start + k
      /\ \A i \in 1 .. start + k : xi[i] = IF i <= start THEN x[i] ELSE items[i - start]
  BY <1>2, JoinedIs
<1> HIDE DEF xi
<1>5. /\ w \in Seq(Elements) /\ Len(w) = Len(xi) + Len(y)
      /\ \A i \in 1 .. Len(xi) + Len(y) : w[i] = IF i <= Len(xi) THEN xi[i] ELSE y[i - Len(xi)]
  <2>1. w = xi \o y
    BY DEF SpliceOf, xi, x, y
  <2>2. ASSUME NEW z, z = xi \o y
        PROVE  /\ z \in Seq(Elements) /\ Len(z) = Len(xi) + Len(y)
               /\ \A i \in 1 .. Len(xi) + Len(y) : z[i] = IF i <= Len(xi) THEN xi[i] ELSE y[i - Len(xi)]
    BY <1>3, <1>4, <2>2, JoinedIs, Zenon
  <2> HIDE DEF w
  <2> QED
    BY <2>1, <2>2, Zenon
<1>6. Len(xi) + Len(y) = L + k - del
  BY <1>1, <1>3, <1>4
<1> HIDE DEF k, L, w
<1>7. \A i \in 1 .. start : w[i] = v[i]
  <2> TAKE i \in 1 .. start
  <2>1. i \in 1 .. L + k - del /\ i <= start + k /\ i <= start /\ i \in 1 .. start + k
    BY <1>1 DEF k, L
  <2> QED
    BY <1>2, <1>4, <1>5, <1>6, <2>1
<1>8. \A i \in start + 1 .. start + k : w[i] = items[i - start]
  <2> TAKE i \in start + 1 .. start + k
  <2>1. i \in 1 .. L + k - del /\ i <= start + k /\ ~(i <= start) /\ i \in 1 .. start + k
    BY <1>1 DEF k, L
  <2> QED
    BY <1>4, <1>5, <1>6, <2>1
<1>9. \A i \in start + k + 1 .. L + k - del : w[i] = v[i - k + del]
  <2> TAKE i \in start + k + 1 .. L + k - del
  <2>1. /\ i \in 1 .. L + k - del /\ ~(i <= start + k) /\ i - (start + k) \in 1 .. L - start - del
        /\ start + del + (i - (start + k)) = i - k + del
    BY <1>1 DEF k, L
  <2> QED
    BY <1>3, <1>4, <1>5, <1>6, <2>1
<1> QED
  BY <1>5, <1>6, <1>7, <1>8, <1>9 DEF k, L, w

LEMMA SpliceLength ==
    ASSUME NEW v \in Seq(Elements), NEW items \in Seq(Elements), NEW start \in Nat, NEW del \in Nat,
           start + del <= Len(v)
    PROVE  Len(SpliceOf(v, start, del, items)) = Len(v) + Len(items) - del
  BY SpliceIs, Zenon

LEMMA SplicedIs ==
    ASSUME NEW a, IsArray(a), NEW start \in Nat, NEW del \in Nat, start + del <= a.len,
           NEW items \in Seq(Elements), a.len + Len(items) - del <= ShortIntMax
    PROVE  /\ IsArray(Spliced(a, start, del, items))
           /\ Visible(Spliced(a, start, del, items)) = SpliceOf(Visible(a), start, del, items)
<1> DEFINE k == Len(items)
           n == a.len + k - del
           room == IF del > k
                   THEN ArrayResize([a EXCEPT !.tab = Moved(@, start + k, start + del, a.len - (start + del))], n)
                   ELSE IF del < k
                   THEN [ArrayResize(a, n) EXCEPT !.tab = Moved(@, start + k, start + del, a.len - (start + del))]
                   ELSE a
           t == Put(room.tab, start, items)
           v == Visible(a)
           w == SpliceOf(v, start, del, items)
<1>1. /\ a.len \in Nat /\ k \in Nat /\ n \in Nat /\ a.len <= ShortIntMax
  BY ArrayParts, Fields
<1>2. Roomy(a, room, start, del, k)
  <2>1. CASE del > k
    BY <1>1, <2>1, RoomByShrinking
  <2>2. CASE del < k
    <3>1. ~(del > k)
      BY <1>1, <2>2
    <3> QED
      BY <1>1, <2>2, <3>1, RoomByGrowing
  <2>3. CASE del = k
    <3>1. n = a.len /\ room = a
      BY <1>1, <2>3
    <3>2. \A i \in start + k + 1 .. n : i - k + del = i
      BY <1>1, <2>3
    <3> QED
      BY <3>1, <3>2 DEF Roomy
  <2> QED
    BY <1>1, <2>1, <2>2, <2>3
<1>3. Spliced(a, start, del, items) = [room EXCEPT !.tab = Put(@, start, items)]
  BY DEF Spliced
<1> HIDE DEF room
<1>4. /\ IsArray(room) /\ room.len = n
      /\ \A i \in 1 .. start : room.tab[i] = a.tab[i]
      /\ \A i \in start + k + 1 .. n : room.tab[i] = a.tab[i - k + del]
  BY <1>2 DEF Roomy
<1>5. /\ room.tab \in Seq(Elements) /\ Len(room.tab) \in Nat /\ n <= Len(room.tab)
      /\ room = [tab |-> room.tab, len |-> room.len]
  BY <1>4, ArrayParts DEF IsArray
<1>6. Spliced(a, start, del, items) = [tab |-> t, len |-> n]
  BY <1>3, <1>4, <1>5, Refilled, Zenon
<1>7. /\ t \in Seq(Elements) /\ Len(t) = Len(room.tab)
      /\ \A i \in 1 .. Len(room.tab) :
            t[i] = IF i \in start + 1 .. start + k THEN items[i - start] ELSE room.tab[i]
  BY <1>5, PutIs
<1>8. /\ v \in Seq(Elements) /\ Len(v) = a.len /\ \A i \in 1 .. a.len : v[i] = a.tab[i]
  BY VisibleIs
<1> HIDE DEF v, t
<1>9. /\ w \in Seq(Elements) /\ Len(w) = n
      /\ \A i \in 1 .. start : w[i] = v[i]
      /\ \A i \in start + 1 .. start + k : w[i] = items[i - start]
      /\ \A i \in start + k + 1 .. n : w[i] = v[i - k + del]
  <2>1. start + del <= Len(v)
    BY <1>8
  <2>3. n = Len(v) + Len(items) - del
    BY <1>8
  <2>4. /\ w \in Seq(Elements) /\ Len(w) = Len(v) + Len(items) - del
        /\ \A i \in 1 .. start : w[i] = v[i]
        /\ \A i \in start + 1 .. start + Len(items) : w[i] = items[i - start]
        /\ \A i \in start + Len(items) + 1 .. Len(v) + Len(items) - del : w[i] = v[i - Len(items) + del]
    <3>0. v \in Seq(Elements) /\ start + del <= Len(v)
      BY <1>8, <2>1
    <3>1. w \in Seq(Elements)
      BY <3>0, SpliceIs
    <3>2. Len(w) = Len(v) + Len(items) - del
      BY <3>0, SpliceIs
    <3>3. \A i \in 1 .. start : w[i] = v[i]
      BY <3>0, SpliceIs
    <3>4. \A i \in start + 1 .. start + Len(items) : w[i] = items[i - start]
      BY <3>0, SpliceIs
    <3>5. \A i \in start + Len(items) + 1 .. Len(v) + Len(items) - del : w[i] = v[i - Len(items) + del]
      BY <3>0, SpliceIs
    <3> QED
      BY <3>1, <3>2, <3>3, <3>4, <3>5
  <2> HIDE DEF n
  <2> QED
    BY <2>3, <2>4
<1> HIDE DEF w
<1>10. \A i \in 1 .. n : t[i] = w[i]
  <2> TAKE i \in 1 .. n
  <2>0. i \in 1 .. Len(room.tab)
    BY <1>1, <1>5
  <2>1. CASE i <= start
    <3>1. i \in 1 .. start /\ i \notin start + 1 .. start + k /\ i \in 1 .. a.len
      BY <1>1, <2>1
    <3> QED
      BY <1>4, <1>7, <1>8, <1>9, <2>0, <3>1
  <2>2. CASE i > start /\ i <= start + k
    <3>1. i \in start + 1 .. start + k
      BY <1>1, <2>2
    <3> QED
      BY <1>7, <1>9, <2>0, <3>1
  <2>3. CASE i > start + k
    <3>1. i \in start + k + 1 .. n /\ i \notin start + 1 .. start + k /\ i - k + del \in 1 .. a.len
      BY <1>1, <2>3
    <3> QED
      BY <1>4, <1>7, <1>8, <1>9, <2>0, <3>1
  <2> QED
    BY <1>1, <2>1, <2>2, <2>3
<1>11. n \in 0 .. Len(t) /\ n <= ShortIntMax
  BY <1>1, <1>5, <1>7
<1>12. IsArray(Spliced(a, start, del, items)) /\ Visible(Spliced(a, start, del, items)) = w
  <2>1. t \in Seq(Elements) /\ w \in Seq(Elements) /\ Len(w) = n
    BY <1>7, <1>9
  <2> HIDE DEF n
  <2>2. ASSUME NEW c, c = [tab |-> t, len |-> n] PROVE IsArray(c) /\ Visible(c) = w
    BY <1>10, <1>11, <2>1, <2>2, Holds
  <2> QED
    BY <1>6, <2>2, Zenon
<1> QED
  BY <1>12 DEF w, v

-----------------------------------------------------------------------------
(* The invariant: the table is never shorter than the array, and what a    *)
(* call holds of the array it started with stays within what it saw.       *)

CallFields == {"op", "phase", "len", "k", "val", "ret", "edits"}
IsCall(c) == c = [op |-> c.op, phase |-> c.phase, len |-> c.len, k |-> c.k, val |-> c.val, ret |-> c.ret,
                  edits |-> c.edits]
CallHolds(c) ==
    /\ IsCall(c)
    /\ c.phase \in {"none", "callback", "loop"} /\ (c.phase = "none" => c = NoCall)
    /\ c.len \in 0 .. ShortIntMax /\ c.k \in 0 .. c.len
    /\ c.phase = "callback" /\ c.op \in Loops => c.k < c.len
    /\ c.op = "filter" => c.ret \in Seq(Elements) /\ c.val \in Elements
    /\ c.op = "sort" => \E s \in Seq(Elements) : Len(s) = c.len /\ c.ret = PairsOf(s)

IInv == IsArray(array) /\ CallHolds(call)

LEMMA NoCallHolds == CallHolds(NoCall)
  BY Limits DEF CallHolds, IsCall, NoCall, Loops, Reductions

\* A function on the fields of a call is a call.
LEMMA CallWhole ==
    ASSUME NEW c, c = [f \in CallFields |-> c[f]]
    PROVE  IsCall(c)
  BY DEF IsCall, CallFields

LEMMA InitHolds == Init => IInv /\ Ecma!Init
<1> SUFFICES ASSUME Init PROVE IInv /\ Ecma!Init
  OBVIOUS
<1>1. <<>> \in Seq(Elements) /\ Len(<<>>) = 0
  BY EmptySeq
<1>2. array.tab = <<>> /\ array.len = 0 /\ call = NoCall /\ result = NoResult
  BY DEF Init
<1>3. IsArray(array) /\ Visible(array) = <<>>
  <2>1. array = [tab |-> array.tab, len |-> array.len] /\ 0 <= ShortIntMax
    BY Limits DEF Init
  <2>2. IsArray(array)
    BY <1>1, <1>2, <2>1 DEF IsArray
  <2> QED
    BY <1>2, <2>2, VisibleIs, EmptySeq
<1> QED
  BY <1>2, <1>3, NoCallHolds DEF IInv, Ecma!Init, Ecma!Idle, Ecma!Nothing, NoCall, NoResult

\* Both modules take the operators of sequences from the same library.
LEMMA Shared ==
    ASSUME NEW s, NEW i, NEW x
    PROVE  /\ Ecma!Front(s) = Front(s) /\ Ecma!Last(s) = Last(s) /\ Ecma!Reverse(s) = Reverse(s)
           /\ Ecma!ReplaceAt(s, i, x) = ReplaceAt(s, i, x)
           /\ Ecma!ToSet(s) = ToSet(s)
<1>1. Ecma!Front(s) = Front(s) /\ Ecma!Last(s) = Last(s)
  BY DEF Front, Last, Ecma!Front, Ecma!Last
<1>2. Ecma!Reverse(s) = Reverse(s)
  BY DEF Reverse, Ecma!Reverse
<1>3. Ecma!ReplaceAt(s, i, x) = ReplaceAt(s, i, x)
  BY DEF ReplaceAt, Ecma!ReplaceAt
<1>4. Ecma!ToSet(s) = ToSet(s)
  BY DEF ToSet, Ecma!ToSet
<1> QED
  BY <1>1, <1>2, <1>3, <1>4

\* An operation that runs to its end is one of the sequence, if its table holds it.
LEMMA ReturnsIs ==
    ASSUME IInv, NEW op, NEW b, IsArray(b), NEW value, Returns(op, b, value)
    PROVE  Ecma!Operates(op, Visible(b), value) /\ IInv'
<1>1. /\ call.phase \in {"none", "callback"} /\ (call.phase = "callback" => call.edits < MaxEdits)
      /\ call' = IF call.phase = "none" THEN call ELSE [call EXCEPT !.edits = @ + 1]
      /\ array' = b /\ result' = [op |-> op, value |-> value]
  BY DEF Returns, MayRun, Edited
<1>2. call.phase = "none" <=> call = NoCall
  BY DEF IInv, CallHolds, NoCall
<1>3. CallHolds(call')
  <2>1. CASE call.phase = "none"
    BY <1>1, <2>1 DEF IInv
  <2>2. CASE call.phase = "callback"
    <3> DEFINE d == [call EXCEPT !.edits = @ + 1]
    <3>1. call' = d
      BY <1>1, <2>2
    <3>2. /\ d.op = call.op /\ d.phase = call.phase /\ d.len = call.len /\ d.k = call.k /\ d.val = call.val
          /\ d.ret = call.ret /\ IsCall(d)
      BY DEF IInv, CallHolds, IsCall
    <3> HIDE DEF d
    <3> QED
      BY <2>2, <3>1, <3>2 DEF IInv, CallHolds
  <2> QED
    BY <1>1, <2>1, <2>2
<1>4. Ecma!Idle = NoCall
  BY DEF Ecma!Idle, NoCall
<1>5. Visible(array)' = Visible(b)
  BY <1>1 DEF Visible
<1>6. Ecma!Operates(op, Visible(b), value)
  BY <1>1, <1>2, <1>4, <1>5 DEF Ecma!Operates
<1> QED
  BY <1>1, <1>3, <1>6 DEF IInv

LEMMA ThrowsIs ==
    ASSUME IInv, NEW op \in {"push", "unshift", "length", "set", "concat", "sort"} \cup Loops, Throws(op)
    PROVE  Ecma!Next /\ IInv'
<1>1. IsArray(array)
  BY DEF IInv
<1>2. Ecma!Operates(op, Visible(array), Thrown) /\ IInv'
  BY <1>1, ReturnsIs DEF Throws
<1>3. op \in {"push", "unshift", "length", "set", "concat", "sort"} \cup Ecma!Iterations
  BY DEF Loops, Reductions, Ecma!Iterations, Ecma!Reductions
<1>4. Ecma!Fails
  BY <1>2, <1>3, Zenon DEF Ecma!Fails
<1> QED
  BY <1>2, <1>4 DEF Ecma!Next

LEMMA RefusedIs ==
    ASSUME IInv, Refused
    PROVE  Ecma!Next /\ IInv'
<1>1. PICK op \in Loops \cup {"sort"} : Throws(op)
  BY DEF Refused
<1>2. op \in {"push", "unshift", "length", "set", "concat", "sort"} \cup Loops
  BY <1>1
<1> QED
  BY <1>1, <1>2, ThrowsIs, Zenon

LEMMA PushIs ==
    ASSUME IInv, NEW op \in {"push", "unshift"}, js_array_push(op)
    PROVE  Ecma!Next /\ IInv'
<1>1. PICK args \in Args :
        LET n == array.len + Len(args) IN
        \/ /\ n <= ShortIntMax
           /\ Returns(op, IF op = "push" THEN Pushed(array, args) ELSE Unshifted(array, args), <<n>>)
        \/ (n > ShortIntMax \/ Allocates(array.tab, n)) /\ Throws(op)
  BY DEF js_array_push
<1>2. IsArray(array) /\ args \in Seq(Elements)
  BY ArrayAssumption DEF IInv
<1>3. Visible(array) \in Seq(Elements) /\ Len(Visible(array)) = array.len /\ array.len \in Nat /\ Len(args) \in Nat
  BY <1>2, VisibleIs, ArrayParts, Fields
<1>4. CASE Throws(op)
  BY <1>4, ThrowsIs
<1>5. CASE /\ array.len + Len(args) <= ShortIntMax /\ op = "push"
           /\ Returns(op, Pushed(array, args), <<array.len + Len(args)>>)
  <2> DEFINE s == Visible(array) \o args
  <2>1. IsArray(Pushed(array, args)) /\ Visible(Pushed(array, args)) = s
    BY <1>2, <1>5, PushedIs
  <2>2. Len(s) = array.len + Len(args)
    BY <1>2, <1>3, JoinedIs
  <2> HIDE DEF s
  <2>3. Ecma!Operates("push", s, <<Len(s)>>) /\ IInv'
    BY <1>5, <2>1, <2>2, ReturnsIs
  <2> QED
    BY <1>5, <2>2, <2>3 DEF s, Ecma!Next, Ecma!Push, Ecma!Fits
<1>6. CASE /\ array.len + Len(args) <= ShortIntMax /\ op = "unshift"
           /\ Returns(op, Unshifted(array, args), <<array.len + Len(args)>>)
  <2> DEFINE s == args \o Visible(array)
  <2>1. IsArray(Unshifted(array, args)) /\ Visible(Unshifted(array, args)) = s
    BY <1>2, <1>6, UnshiftedIs
  <2>2. Len(s) = array.len + Len(args)
    BY <1>2, <1>3, JoinedIs
  <2> HIDE DEF s
  <2>3. Ecma!Operates("unshift", s, <<Len(s)>>) /\ IInv'
    BY <1>6, <2>1, <2>2, ReturnsIs
  <2> QED
    BY <1>6, <2>2, <2>3 DEF s, Ecma!Next, Ecma!Unshift, Ecma!Fits
<1> QED
  BY <1>1, <1>4, <1>5, <1>6

LEMMA PopIs ==
    ASSUME IInv, js_array_pop
    PROVE  Ecma!Next /\ IInv'
<1> DEFINE v == Visible(array)
           b == [array EXCEPT !.len = @ - 1]
<1>1. IsArray(array) /\ v \in Seq(Elements) /\ Len(v) = array.len
  BY VisibleIs DEF IInv
<1>2. v = <<>> <=> array.len = 0
  BY <1>1, EmptySeq
<1>3. CASE array.len = 0
  <2>1. Returns("pop", array, <<Undefined>>)
    BY <1>3 DEF js_array_pop
  <2>2. Ecma!Operates("pop", v, <<Undefined>>) /\ IInv'
    BY <1>1, <2>1, ReturnsIs
  <2> QED
    BY <1>2, <1>3, <2>2 DEF Ecma!Next, Ecma!Pop
<1>4. CASE array.len # 0
  <2>1. Returns("pop", b, <<array.tab[array.len]>>)
    BY <1>4 DEF js_array_pop
  <2>2. IsArray(b) /\ Visible(b) = Front(v) /\ array.tab[array.len] = Last(v)
    BY <1>1, <1>4, PoppedIs
  <2> HIDE DEF b, v
  <2>3. Ecma!Operates("pop", Front(v), <<Last(v)>>) /\ IInv'
    BY <2>1, <2>2, ReturnsIs
  <2>4. v # <<>>
    BY <1>2, <1>4
  <2>5. Ecma!Pop
    BY <2>3, <2>4, Shared, Zenon DEF v, Ecma!Pop
  <2> QED
    BY <2>3, <2>5 DEF Ecma!Next
<1> QED
  BY <1>3, <1>4

LEMMA ShiftIs ==
    ASSUME IInv, js_array_shift
    PROVE  Ecma!Next /\ IInv'
<1> DEFINE v == Visible(array)
<1>1. IsArray(array) /\ v \in Seq(Elements) /\ Len(v) = array.len
  BY VisibleIs DEF IInv
<1>2. v = <<>> <=> array.len = 0
  BY <1>1, EmptySeq
<1>3. CASE array.len = 0
  <2>1. Returns("shift", array, <<Undefined>>)
    BY <1>3 DEF js_array_shift
  <2>2. Ecma!Operates("shift", v, <<Undefined>>) /\ IInv'
    BY <1>1, <2>1, ReturnsIs
  <2> QED
    BY <1>2, <1>3, <2>2 DEF Ecma!Next, Ecma!Shift
<1>4. CASE array.len # 0
  <2>1. Returns("shift", Shifted(array), <<array.tab[1]>>)
    BY <1>4 DEF js_array_shift
  <2>2. IsArray(Shifted(array)) /\ Visible(Shifted(array)) = Tail(v) /\ array.tab[1] = Head(v)
    BY <1>1, <1>4, ShiftedIs
  <2> HIDE DEF v
  <2>3. Ecma!Operates("shift", Tail(v), <<Head(v)>>) /\ IInv'
    BY <2>1, <2>2, ReturnsIs
  <2> QED
    BY <1>2, <1>4, <2>3 DEF v, Ecma!Next, Ecma!Shift
<1> QED
  BY <1>3, <1>4

LEMMA ReverseIs ==
    ASSUME IInv, js_array_reverse
    PROVE  Ecma!Next /\ IInv'
<1> DEFINE b == [array EXCEPT !.tab = [i \in DOMAIN @ |-> IF i <= array.len THEN @[array.len + 1 - i] ELSE @[i]]]
<1>1. Returns("reverse", b, <<>>)
  BY DEF js_array_reverse
<1>2. IsArray(array)
  BY DEF IInv
<1>3. IsArray(b) /\ Visible(b) = Reverse(Visible(array))
  BY <1>2, ReversedIs
<1> HIDE DEF b
<1>4. Ecma!Operates("reverse", Reverse(Visible(array)), <<>>) /\ IInv'
  BY <1>1, <1>3, ReturnsIs
<1>5. Ecma!ReverseInPlace
  BY <1>4, Shared, Zenon DEF Ecma!ReverseInPlace
<1> QED
  BY <1>4, <1>5 DEF Ecma!Next

LEMMA SetLengthIs ==
    ASSUME IInv, js_array_set_length
    PROVE  Ecma!Next /\ IInv'
<1> DEFINE v == Visible(array)
<1>1. PICK n \in Indexes :
        \/ n \in 0 .. ShortIntMax /\ Returns("length", ArrayResize(array, n), <<>>)
        \/ (n \notin 0 .. ShortIntMax \/ Allocates(array.tab, n)) /\ Throws("length")
  BY DEF js_array_set_length
<1>2. IsArray(array) /\ v \in Seq(Elements) /\ Len(v) = array.len /\ array.len \in Nat
  BY VisibleIs, ArrayParts DEF IInv
<1>3. CASE Throws("length")
  BY <1>3, ThrowsIs
<1>4. CASE n \in 0 .. ShortIntMax /\ Returns("length", ArrayResize(array, n), <<>>)
  <2> DEFINE b == ArrayResize(array, n)
             s == IF n <= Len(v) THEN SubSeq(v, 1, n) ELSE v \o Ecma!Undefineds(n - Len(v))
  <2>1. n \in Nat /\ n <= ShortIntMax
    BY <1>4, Limits
  <2>2. IsArray(b) /\ Visible(b) = s
    <3>1. CASE n < array.len
      <4>1. b = Shortened(array, n) /\ s = SubSeq(v, 1, n) /\ n \in 0 .. array.len
        BY <1>2, <2>1, <3>1 DEF ArrayResize
      <4> HIDE DEF b, s
      <4> QED
        BY <1>2, <4>1, ShortenedIs
    <3>2. CASE n = array.len
      <4>1. b = array /\ s = SubSeq(v, 1, n)
        BY <1>2, <2>1, <3>2 DEF ArrayResize
      <4>2. s = v
        BY <1>2, <3>2, <4>1, SubSeqFull
      <4> HIDE DEF b, s
      <4> QED
        BY <1>2, <4>1, <4>2
    <3>3. CASE n > array.len
      <4>1. b = Lengthened(array, n) /\ s = v \o UndefinedTimes(n - array.len)
        BY <1>2, <2>1, <3>3 DEF ArrayResize, UndefinedTimes, Ecma!Undefineds
      <4> HIDE DEF b, s
      <4> QED
        BY <1>2, <2>1, <3>3, <4>1, LengthenedIs
    <3> QED
      BY <1>2, <2>1, <3>1, <3>2, <3>3
  <2> HIDE DEF b, s
  <2>3. Ecma!Operates("length", s, <<>>) /\ IInv'
    BY <1>4, <2>2, ReturnsIs DEF b
  <2>4. n \in Indexes \cap 0 .. ShortIntMax
    BY <1>4
  <2> QED
    BY <2>3, <2>4 DEF s, v, Ecma!Next, Ecma!SetLength
<1> QED
  BY <1>1, <1>3, <1>4

LEMMA SingleIs ==
    ASSUME NEW x \in Elements
    PROVE  <<x>> \in Seq(Elements) /\ Len(<<x>>) = 1
  OBVIOUS

LEMMA SetIs ==
    ASSUME IInv, JS_SetProperty
    PROVE  Ecma!Next /\ IInv'
<1> DEFINE v == Visible(array)
<1>1. PICK i \in 0 .. ShortIntMax - 1, x \in Elements :
        \/ i < array.len /\ Returns("set", [array EXCEPT !.tab[i + 1] = x], <<i, x>>)
        \/ i = array.len /\ Returns("set", Pushed(array, <<x>>), <<i, x>>)
        \/ (i > array.len \/ Allocates(array.tab, i + 1)) /\ Throws("set")
  BY DEF JS_SetProperty
<1>2. IsArray(array) /\ v \in Seq(Elements) /\ Len(v) = array.len /\ array.len \in Nat
  BY VisibleIs, ArrayParts DEF IInv
<1>3. CASE Throws("set")
  BY <1>3, ThrowsIs
<1>4. CASE i < array.len /\ Returns("set", [array EXCEPT !.tab[i + 1] = x], <<i, x>>)
  <2> DEFINE b == [array EXCEPT !.tab[i + 1] = x]
  <2>1. i \in 0 .. array.len - 1
    BY <1>2, <1>4, Limits
  <2>2. IsArray(b) /\ Visible(b) = ReplaceAt(v, i + 1, x)
    BY <1>2, <2>1, StoredIs
  <2> HIDE DEF b
  <2>3. Ecma!Operates("set", ReplaceAt(v, i + 1, x), <<i, x>>) /\ IInv'
    BY <1>4, <2>2, ReturnsIs DEF b
  <2>4. i <= Len(v) /\ i # Len(v)
    BY <1>2, <2>1
  <2>5. Ecma!Operates("set", IF i = Len(v) THEN Append(v, x) ELSE ReplaceAt(v, i + 1, x), <<i, x>>)
    BY <2>3, <2>4, Zenon
  <2>6. i \in 0 .. ShortIntMax - 1 /\ x \in Values \cup {Undefined}
    BY DEF Elements
  <2>7. Ecma!Set
    BY <2>4, <2>5, <2>6, Shared, Zenon DEF Ecma!Set
  <2> QED
    BY <2>3, <2>7 DEF Ecma!Next
<1>5. CASE i = array.len /\ Returns("set", Pushed(array, <<x>>), <<i, x>>)
  <2>1. <<x>> \in Seq(Elements) /\ array.len + Len(<<x>>) <= ShortIntMax
    BY <1>2, <1>5, Limits, SingleIs
  <2>2. IsArray(Pushed(array, <<x>>)) /\ Visible(Pushed(array, <<x>>)) = v \o <<x>>
    BY <1>2, <2>1, PushedIs
  <2>3. v \o <<x>> = Append(v, x)
    BY <1>2, AppendIsConcat
  <2>4. Ecma!Operates("set", Append(v, x), <<i, x>>) /\ IInv'
    BY <1>5, <2>2, <2>3, ReturnsIs
  <2>5. i <= Len(v) /\ i = Len(v)
    BY <1>2, <1>5
  <2> HIDE DEF v
  <2>6. Ecma!Set
    BY <2>4, <2>5 DEF v, Ecma!Set, Elements
  <2> QED
    BY <2>4, <2>6 DEF Ecma!Next
<1> QED
  BY <1>1, <1>3, <1>4, <1>5

LEMMA ConcatIs ==
    ASSUME IInv, js_array_concat
    PROVE  Ecma!Next /\ IInv'
<1> DEFINE v == Visible(array)
<1>1. PICK items \in {<<x>> : x \in Values} \cup {v} :
        \/ /\ array.len + Len(items) <= ShortIntMax
           /\ Returns("concat", array,
                      Put(Put(UndefinedTimes(array.len + Len(items)), 0, v), array.len, items))
        \/ Throws("concat")
  BY DEF js_array_concat
<1>2. IsArray(array) /\ v \in Seq(Elements) /\ Len(v) = array.len /\ array.len \in Nat
  BY VisibleIs, ArrayParts DEF IInv
<1>3. items \in Seq(Elements) /\ Len(items) \in Nat
  <2>1. items \in Seq(Elements)
    BY <1>2, SingleIs DEF Elements
  <2> QED
    BY <2>1, Fields
<1>4. CASE Throws("concat")
  BY <1>4, ThrowsIs
<1>5. CASE /\ array.len + Len(items) <= ShortIntMax
           /\ Returns("concat", array, Put(Put(UndefinedTimes(array.len + Len(items)), 0, v), array.len, items))
  <2> DEFINE n == array.len + Len(items)
             u == UndefinedTimes(n)
             c == Put(u, 0, v)
             d == Put(c, array.len, items)
             s == v \o items
  <2>1. n \in Nat
    BY <1>2, <1>3
  <2>2. u \in Seq(Elements) /\ Len(u) = n
    <3>1. u = [i \in 1 .. n |-> u[i]] /\ \A i \in 1 .. n : u[i] = Undefined
      BY DEF UndefinedTimes
    <3> HIDE DEF u, n
    <3> QED
      BY <2>1, <3>1, Limits, Listed
  <2>3. c \in Seq(Elements) /\ Len(c) = n /\ \A i \in 1 .. n : c[i] = IF i <= array.len THEN v[i] ELSE u[i]
    <3> HIDE DEF u, v, n
    <3> QED
      BY <1>2, <2>2, PutFirstIs
  <2>4. /\ d \in Seq(Elements) /\ Len(d) = n
        /\ \A i \in 1 .. n : d[i] = IF i \in array.len + 1 .. array.len + Len(items) THEN items[i - array.len] ELSE c[i]
    <3>1. c \in Seq(Elements) /\ Len(c) = n /\ array.len \in Nat /\ items \in Seq(Elements)
      BY <1>2, <1>3, <2>3
    <3> HIDE DEF c, v, n
    <3>2. d \in Seq(Elements) /\ Len(d) = Len(c)
      BY <3>1, PutIs
    <3>3. \A i \in 1 .. Len(c) : d[i] = IF i \in array.len + 1 .. array.len + Len(items) THEN items[i - array.len] ELSE c[i]
      BY <3>1, PutIs
    <3> QED
      BY <3>1, <3>2, <3>3
  <2>5. s \in Seq(Elements) /\ Len(s) = n /\ \A i \in 1 .. n : s[i] = IF i <= array.len THEN v[i] ELSE items[i - array.len]
    <3>1. v \in Seq(Elements) /\ Len(v) = array.len
      BY <1>2
    <3> HIDE DEF v
    <3>2. s \in Seq(Elements)
      BY <1>3, <3>1, JoinedIs
    <3>3. Len(s) = Len(v) + Len(items)
      BY <1>3, <3>1, JoinedIs
    <3>4. \A i \in 1 .. Len(v) + Len(items) : s[i] = IF i <= Len(v) THEN v[i] ELSE items[i - Len(v)]
      BY <1>3, <3>1, JoinedIs
    <3> QED
      BY <3>1, <3>2, <3>3, <3>4
  <2> HIDE DEF c, d, s, v, u
  <2>6. \A i \in 1 .. n : d[i] = s[i]
    <3> TAKE i \in 1 .. n
    <3>1. CASE i <= array.len
      <4>1. i \notin array.len + 1 .. array.len + Len(items)
        BY <1>2, <1>3, <3>1
      <4> QED
        BY <2>3, <2>4, <2>5, <3>1, <4>1
    <3>2. CASE i > array.len
      <4>1. i \in array.len + 1 .. array.len + Len(items) /\ ~(i <= array.len)
        BY <1>2, <1>3, <3>2
      <4> QED
        BY <2>4, <2>5, <4>1
    <3> QED
      BY <1>2, <1>3, <3>1, <3>2
  <2>7. d = s
    BY <2>4, <2>5, <2>6, Same
  <2>8. Ecma!Operates("concat", v, s) /\ IInv'
    BY <1>2, <1>5, <2>7, ReturnsIs DEF d, c, u, v
  <2>9. items \in {<<x>> : x \in Values} \cup {v} /\ Len(s) <= ShortIntMax
    BY <1>5, <2>5 DEF v
  <2> QED
    BY <2>8, <2>9 DEF v, s, Ecma!Next, Ecma!Concat, Ecma!Fits
<1> QED
  BY <1>1, <1>4, <1>5

-----------------------------------------------------------------------------
(* Calls that run a script's function.                                     *)

LEMMA Named == Ecma!Idle = NoCall /\ Ecma!Nothing = NoResult
  BY DEF Ecma!Idle, Ecma!Nothing, NoCall, NoResult

LEMMA DoneIs ==
    ASSUME IInv, NEW value, Done(value)
    PROVE  Ecma!Ends(Visible(array), value) /\ IInv'
<1>1. call' = NoCall /\ result' = [op |-> call.op, value |-> value] /\ array' = array
  BY DEF Done
<1>2. Visible(array)' = Visible(array)
  BY <1>1 DEF Visible
<1>3. Ecma!Ends(Visible(array), value)
  BY <1>1, <1>2, Named DEF Ecma!Ends, Ecma!Returns
<1> QED
  BY <1>1, <1>3, NoCallHolds DEF IInv

\* What a call keeps while it runs must be what its loop or its sort expects.
LEMMA CallsIs ==
    ASSUME IInv, NEW op, NEW phase \in {"callback", "loop"}, NEW ret, NEW k \in Nat, Calls(op, phase, ret, k),
           k <= array.len,
           phase = "callback" => op \notin Loops,
           op = "filter" => ret \in Seq(Elements),
           op = "sort" => ret = PairsOf(Visible(array))
    PROVE  Ecma!Begins(op, phase, ret, k) /\ IInv'
<1> DEFINE c == [NoCall EXCEPT !.op = op, !.phase = phase, !.len = array.len, !.k = k, !.ret = ret]
<1>1. call = NoCall /\ call' = c /\ result' = NoResult /\ array' = array
  BY DEF Calls
<1>2. /\ c.op = op /\ c.phase = phase /\ c.len = array.len /\ c.k = k /\ c.val = Undefined /\ c.ret = ret
      /\ IsCall(c)
  <2>1. c.op = op /\ c.phase = phase /\ c.len = array.len /\ c.k = k /\ c.val = Undefined /\ c.ret = ret
    BY DEF NoCall
  <2>2. c = [f \in CallFields |-> c[f]]
    BY DEF NoCall, CallFields
  <2> HIDE DEF c
  <2> QED
    BY <2>1, <2>2, CallWhole
<1>3. /\ IsArray(array) /\ Visible(array) \in Seq(Elements) /\ Len(Visible(array)) = array.len
      /\ array.len \in Nat /\ array.len <= ShortIntMax
  BY VisibleIs, ArrayParts DEF IInv
<1>4. Ecma!Begins(op, phase, ret, k)
  <2>1. Visible(array)' = Visible(array)
    BY <1>1 DEF Visible
  <2>2. call' = [Ecma!Idle EXCEPT !.op = op, !.phase = phase, !.len = Len(Visible(array)), !.k = k, !.ret = ret]
    BY <1>1, <1>3, Named, Zenon
  <2> HIDE DEF c
  <2> QED
    BY <1>1, <2>1, <2>2, Named, Zenon DEF Ecma!Begins
<1>5. CallHolds(c)
  <2> HIDE DEF c
  <2>1. c.len \in 0 .. ShortIntMax /\ c.k \in 0 .. c.len
    BY <1>2, <1>3, Limits
  <2>2. c.phase = "callback" /\ c.op \in Loops => c.k < c.len
    BY <1>2
  <2>3. c.op = "filter" => c.ret \in Seq(Elements) /\ c.val \in Elements
    BY <1>2, Limits
  <2>4. c.op = "sort" => \E s \in Seq(Elements) : Len(s) = c.len /\ c.ret = PairsOf(s)
    <3> SUFFICES ASSUME c.op = "sort" PROVE \E s \in Seq(Elements) : Len(s) = c.len /\ c.ret = PairsOf(s)
      OBVIOUS
    <3>1. Len(Visible(array)) = c.len /\ c.ret = PairsOf(Visible(array))
      BY <1>2, <1>3
    <3> QED
      BY <1>3, <3>1
  <2>5. c.phase \in {"none", "callback", "loop"} /\ c.phase # "none"
    BY <1>2
  <2> QED
    BY <1>2, <2>1, <2>2, <2>3, <2>4, <2>5 DEF CallHolds
<1> HIDE DEF c
<1> QED
  BY <1>1, <1>3, <1>4, <1>5 DEF IInv

LEMMA AsksIs ==
    ASSUME IInv, ConvertsArgument
    PROVE  Ecma!Next /\ IInv'
<1>1. PICK op \in Searches \cup Copies : Calls(op, "callback", <<>>, 0)
  BY DEF ConvertsArgument
<1>2. op \in {"indexOf", "lastIndexOf", "slice", "splice"}
  BY DEF Searches, Copies
<1>3. Ecma!Begins(op, "callback", <<>>, 0) /\ IInv'
  <2>1. op \notin Loops /\ op # "filter" /\ op # "sort"
    BY <1>2 DEF Loops, Reductions
  <2>2. 0 <= array.len /\ 0 \in Nat
    BY ArrayParts DEF IInv
  <2> QED
    BY <1>1, <2>1, <2>2, CallsIs
<1>4. Ecma!Asks
  BY <1>2, <1>3, Zenon DEF Ecma!Asks
<1> QED
  BY <1>3, <1>4 DEF Ecma!Next

LEMMA GivesIs ==
    ASSUME IInv, call.phase = "callback", Done(Thrown)
    PROVE  Ecma!Next /\ IInv'
<1>1. Ecma!Ends(Visible(array), Thrown) /\ IInv'
  BY DoneIs
<1>2. Ecma!Gives
  BY <1>1, Zenon DEF Ecma!Gives
<1> QED
  BY <1>1, <1>2 DEF Ecma!Next

LEMMA StartsSortIs ==
    ASSUME IInv, StartsSort
    PROVE  Ecma!Next /\ IInv'
<1> DEFINE v == Visible(array)
<1>1. "sort" \notin Loops /\ "sort" # "filter" /\ 0 <= array.len /\ 0 \in Nat
  BY ArrayParts DEF Loops, Reductions, IInv
<1>2. Ecma!Begins("sort", "callback", PairsOf(v), 0) /\ IInv'
  BY <1>1, CallsIs DEF StartsSort
<1>3. Ecma!BeginsSort
  BY <1>2 DEF Ecma!BeginsSort, PairsOf
<1> QED
  BY <1>2, <1>3 DEF Ecma!Next

LEMMA StartsLoopIs ==
    ASSUME IInv, StartsLoop
    PROVE  Ecma!Next /\ IInv'
<1> DEFINE v == Visible(array)
           first(op) == array.tab[IF op = "reduceRight" THEN array.len ELSE 1]
<1>0. /\ <<>> \in Seq(Elements) /\ v \in Seq(Elements) /\ Len(v) = array.len /\ array.len \in Nat
      /\ \A i \in 1 .. array.len : v[i] = array.tab[i]
  BY EmptySeq, VisibleIs, ArrayParts DEF IInv
<1>1. ASSUME NEW op \in {"every", "some", "map", "reduce", "reduceRight"}, NEW ret, NEW k \in {0, 1},
             k <= array.len, Calls(op, "loop", ret, k)
      PROVE  Ecma!Begins(op, "loop", ret, k) /\ IInv'
  <2>1. op # "filter" /\ op # "sort" /\ k \in Nat
    OBVIOUS
  <2> QED
    BY <1>1, <2>1, CallsIs
<1>9. 0 \in {0, 1} /\ 0 <= array.len
  BY <1>0
<1>2. CASE Calls("every", "loop", <<1>>, 0)
  <2>1. Ecma!Begins("every", "loop", <<1>>, 0) /\ IInv'
    BY <1>1, <1>2, <1>9
  <2> QED
    BY <2>1 DEF Ecma!Next, Ecma!Loops
<1>3. CASE Calls("some", "loop", <<0>>, 0)
  <2>1. Ecma!Begins("some", "loop", <<0>>, 0) /\ IInv'
    BY <1>1, <1>3, <1>9
  <2> QED
    BY <2>1 DEF Ecma!Next, Ecma!Loops
<1>4. CASE Calls("map", "loop", UndefinedTimes(array.len), 0)
  <2>1. Ecma!Begins("map", "loop", UndefinedTimes(array.len), 0) /\ IInv'
    BY <1>1, <1>4, <1>9
  <2>2. UndefinedTimes(array.len) = Ecma!Undefineds(Len(v))
    BY <1>0 DEF UndefinedTimes, Ecma!Undefineds
  <2> QED
    BY <2>1, <2>2 DEF Ecma!Next, Ecma!Loops
<1>5. CASE Calls("filter", "loop", <<>>, 0)
  <2>1. "filter" # "sort" /\ "loop" # "callback" /\ 0 \in Nat
    OBVIOUS
  <2>2. Ecma!Begins("filter", "loop", <<>>, 0) /\ IInv'
    BY <1>0, <1>5, <1>9, <2>1, CallsIs
  <2> QED
    BY <2>2 DEF Ecma!Next, Ecma!Loops
<1>6. CASE \E op \in Reductions, x \in Values : Calls(op, "loop", <<x>>, 0)
  <2>1. PICK op \in Reductions, x \in Values : Calls(op, "loop", <<x>>, 0)
    BY <1>6
  <2>2. Ecma!Begins(op, "loop", <<x>>, 0) /\ IInv'
    BY <1>1, <1>9, <2>1 DEF Reductions
  <2>3. Ecma!Loops
    BY <2>2 DEF Ecma!Loops, Ecma!Reductions, Reductions
  <2> QED
    BY <2>2, <2>3 DEF Ecma!Next
<1>7. CASE \E op \in Reductions : array.len > 0 /\ Calls(op, "loop", <<first(op)>>, 1)
  <2>1. PICK op \in Reductions : array.len > 0 /\ Calls(op, "loop", <<first(op)>>, 1)
    BY <1>7
  <2>2. 1 \in {0, 1} /\ 1 <= array.len /\ 1 \in 1 .. array.len /\ array.len \in 1 .. array.len
    BY <1>0, <2>1
  <2> HIDE DEF v, first
  <2>3. Ecma!Begins(op, "loop", <<first(op)>>, 1) /\ IInv'
    BY <1>1, <2>1, <2>2 DEF Reductions
  <2>4. Head(v) = first("reduce") /\ Ecma!Last(v) = first("reduceRight") /\ v # <<>>
    <3>1. v[1] = array.tab[1] /\ v[Len(v)] = array.tab[array.len]
      BY <1>0, <2>2
    <3>2. Head(v) = v[1] /\ Ecma!Last(v) = v[Len(v)] /\ v # <<>>
      BY <1>0, <2>1, HeadTailProperties, EmptySeq DEF Ecma!Last
    <3> QED
      BY <3>1, <3>2 DEF first
  <2>5. CASE op = "reduce"
    <3>1. Ecma!Begins("reduce", "loop", <<Head(v)>>, 1)
      BY <2>3, <2>4, <2>5
    <3> QED
      BY <2>3, <2>4, <3>1, Zenon DEF v, Ecma!Loops, Ecma!Next
  <2>6. CASE op = "reduceRight"
    <3>1. Ecma!Begins("reduceRight", "loop", <<Ecma!Last(v)>>, 1)
      BY <2>3, <2>4, <2>6
    <3> QED
      BY <2>3, <2>4, <3>1, Zenon DEF v, Ecma!Loops, Ecma!Next
  <2> QED
    BY <2>5, <2>6 DEF Reductions
<1>8. \/ Calls("every", "loop", <<1>>, 0) \/ Calls("some", "loop", <<0>>, 0)
      \/ Calls("map", "loop", UndefinedTimes(array.len), 0) \/ Calls("filter", "loop", <<>>, 0)
      \/ \E op \in Reductions, x \in Values : Calls(op, "loop", <<x>>, 0)
      \/ \E op \in Reductions : array.len > 0 /\ Calls(op, "loop", <<first(op)>>, 1)
  BY DEF StartsLoop
<1> QED
  BY <1>2, <1>3, <1>4, <1>5, <1>6, <1>7, <1>8

\* The element a loop is at is where the array shows it.
LEMMA AtIs ==
    ASSUME IInv, call.phase = "loop"
    PROVE  /\ Ecma!At(call.k) = Index /\ Len(Visible(array)) = array.len
           /\ call.k < call.len /\ Index < array.len =>
                 /\ Visible(array)[Index + 1] = array.tab[Index + 1]
                 /\ array.tab[Index + 1] \in Elements
<1>1. call.len \in Nat /\ call.k \in 0 .. call.len /\ array.len \in Nat /\ array.len <= Len(array.tab)
  BY Limits, ArrayParts DEF IInv, CallHolds
<1>2. Ecma!At(call.k) = Index
  BY <1>1 DEF Ecma!At, Index
<1>3. Len(Visible(array)) = array.len /\ \A i \in 1 .. array.len : Visible(array)[i] = array.tab[i]
  BY VisibleIs DEF IInv
<1>4. \A i \in 1 .. array.len : array.tab[i] \in Elements
  BY <1>1, ArrayParts DEF IInv
<1>5. call.k < call.len /\ Index < array.len => Index + 1 \in 1 .. array.len
  BY <1>1 DEF Index
<1> QED
  BY <1>2, <1>3, <1>4, <1>5

\* What a call holds, part by part.
LEMMA CallParts ==
    ASSUME IInv
    PROVE  /\ IsCall(call)
           /\ call.len \in Nat /\ call.len <= ShortIntMax /\ call.k \in Nat /\ call.k <= call.len
           /\ call.phase = "callback" /\ call.op \in Loops => call.k < call.len
           /\ call.op = "filter" => call.ret \in Seq(Elements) /\ call.val \in Elements
           /\ call.op = "sort" => \E s \in Seq(Elements) : Len(s) = call.len /\ call.ret = PairsOf(s)
  BY Limits DEF IInv, CallHolds

LEMMA VisitsIs ==
    ASSUME IInv, CallsBack
    PROVE  Ecma!Next /\ IInv'
<1> DEFINE x == array.tab[Index + 1]
           c == [call EXCEPT !.phase = "callback", !.val = x]
<1>1. /\ call.phase = "loop" /\ call.k < call.len /\ Index < array.len
      /\ call' = c /\ array' = array /\ result' = result
  BY DEF CallsBack
<1>2. /\ Ecma!At(call.k) = Index /\ Len(Visible(array)) = array.len
      /\ Visible(array)[Index + 1] = x /\ x \in Elements
  BY <1>1, AtIs
<1>3. Visible(array)' = Visible(array)
  BY <1>1 DEF Visible
<1>4. Ecma!Visits
  <2>1. call' = [call EXCEPT !.phase = "callback", !.k = call.k, !.val = Visible(array)[Ecma!At(call.k) + 1]]
    <3>1. c = [call EXCEPT !.phase = "callback", !.k = call.k, !.val = x]
      BY CallParts DEF IsCall
    <3> QED
      BY <1>1, <1>2, <3>1, Zenon
  <2>2. call.k \in Ecma!Ahead /\ \A i \in Ecma!Ahead : call.k <= i
    BY <1>1, <1>2, CallParts DEF Ecma!Ahead
  <2> QED
    BY <1>1, <1>3, <2>1, <2>2, Zenon DEF Ecma!Visits
<1> HIDE DEF x
<1>5. /\ c.op = call.op /\ c.phase = "callback" /\ c.len = call.len /\ c.k = call.k /\ c.val = x
      /\ c.ret = call.ret /\ IsCall(c)
  <2>1. /\ c.op = call.op /\ c.phase = "callback" /\ c.len = call.len /\ c.k = call.k /\ c.val = x
        /\ c.ret = call.ret
    BY CallParts DEF IsCall
  <2>2. c = [f \in CallFields |-> c[f]]
    BY CallParts DEF IsCall, CallFields
  <2> HIDE DEF c
  <2> QED
    BY <2>1, <2>2, CallWhole
<1> HIDE DEF c
<1>6. CallHolds(c)
  <2>1. c.len \in 0 .. ShortIntMax /\ c.k \in 0 .. c.len /\ c.k < c.len
    BY <1>1, <1>5, CallParts, Limits
  <2>2. c.op = "filter" => c.ret \in Seq(Elements) /\ c.val \in Elements
    BY <1>2, <1>5, CallParts
  <2>3. c.op = "sort" => \E s \in Seq(Elements) : Len(s) = c.len /\ c.ret = PairsOf(s)
    BY <1>5, CallParts
  <2> QED
    BY <1>5, <2>1, <2>2, <2>3 DEF CallHolds
<1> QED
  BY <1>1, <1>4, <1>6 DEF IInv, Ecma!Next

LEMMA AnswersIs ==
    ASSUME IInv, LoopEnds
    PROVE  Ecma!Next /\ IInv'
<1>1. call.phase = "loop" /\ (call.k = call.len \/ Index >= array.len) /\ Done(call.ret)
  BY DEF LoopEnds
<1>2. Ecma!Ends(Visible(array), call.ret) /\ IInv'
  BY <1>1, DoneIs
<1>3. Ecma!Ahead = {} \/ call.k \notin Ecma!Ahead
  <2>1. CASE call.k = call.len
    BY <2>1, CallParts DEF Ecma!Ahead
  <2>2. CASE Index >= array.len
    <3>1. Ecma!At(call.k) = Index /\ Len(Visible(array)) = array.len /\ array.len \in Nat /\ Index \in Int
      BY <1>1, AtIs, CallParts, ArrayParts DEF IInv, Index
    <3> QED
      BY <2>2, <3>1 DEF Ecma!Ahead
  <2> QED
    BY <1>1, <2>1, <2>2
<1>4. Ecma!Answers
  BY <1>1, <1>2, <1>3, Zenon DEF Ecma!Answers, Divergences
<1> QED
  BY <1>2, <1>4 DEF Ecma!Next

LEMMA HearsIs ==
    ASSUME IInv, FunctionReturns
    PROVE  Ecma!Next /\ IInv'
<1>1. PICK r \in {0, 1} :
        call' = [call EXCEPT !.phase = "loop", !.ret = Taken(r),
                             !.k = IF Ends(r) THEN call.len ELSE @ + 1, !.val = Undefined]
  BY DEF FunctionReturns
<1>2. call.phase = "callback" /\ call.op \in Loops /\ result' = NoResult /\ array' = array
  BY DEF FunctionReturns
<1> DEFINE kept == IF r = 1 THEN <<call.val>> ELSE <<>>
           answer == CASE call.op = "map" -> Ecma!ReplaceAt(call.ret, call.k + 1, r)
                       [] call.op = "filter" -> call.ret \o kept
                       [] OTHER -> <<r>>
           last == IF Ends(r) THEN call.len ELSE call.k + 1
           c == [call EXCEPT !.phase = "loop", !.ret = Taken(r), !.k = last, !.val = Undefined]
<1>3. Taken(r) = answer
  <2>1. CASE call.op = "map"
    <3>1. Taken(r) = [call.ret EXCEPT ![call.k + 1] = r]
      BY <2>1 DEF Taken
    <3>2. answer = Ecma!ReplaceAt(call.ret, call.k + 1, r)
      BY <2>1
    <3> QED
      BY <3>1, <3>2 DEF Ecma!ReplaceAt
  <2>2. CASE call.op = "filter"
    <3>1. call.ret \in Seq(Elements) /\ call.val \in Elements
      BY <2>2, CallParts
    <3>2. Taken(r) = IF r = 1 THEN Append(call.ret, call.val) ELSE call.ret
      BY <2>2 DEF Taken
    <3>3. answer = call.ret \o kept
      BY <2>2
    <3>4. call.ret \o <<call.val>> = Append(call.ret, call.val) /\ call.ret \o <<>> = call.ret
      BY <3>1, AppendIsConcat, ConcatEmptySeq
    <3> QED
      BY <3>2, <3>3, <3>4
  <2>3. CASE call.op \in {"every", "some", "reduce", "reduceRight"}
    <3>1. Taken(r) = <<r>>
      BY <2>3 DEF Taken
    <3>2. answer = <<r>>
      BY <2>3
    <3> QED
      BY <3>1, <3>2
  <2> QED
    BY <1>2, <2>1, <2>2, <2>3 DEF Loops, Reductions
<1>4. call.op = "filter" => Taken(r) \in Seq(Elements)
  BY CallParts, AppendProperties DEF Taken
<1>5. last \in Nat /\ last <= call.len
  BY <1>2, CallParts
<1>6. call' = c
  BY <1>1
<1>7. Ecma!Hears
  <2>1. call' = [call EXCEPT !.phase = "loop", !.val = Undefined, !.ret = answer,
                             !.k = IF (call.op = "every" /\ r = 0) \/ (call.op = "some" /\ r = 1) THEN call.len ELSE @ + 1]
    <3>1. last = IF (call.op = "every" /\ r = 0) \/ (call.op = "some" /\ r = 1) THEN call.len ELSE call.k + 1
      BY DEF Ends
    <3> HIDE DEF answer, last
    <3>2. c = [call EXCEPT !.phase = "loop", !.val = Undefined, !.ret = answer, !.k = last]
      BY <1>3, CallParts DEF IsCall
    <3> QED
      BY <1>6, <3>1, <3>2, Zenon
  <2>2. Visible(array)' = Visible(array)
    BY <1>2 DEF Visible
  <2>3. call.op \in Ecma!Iterations
    BY <1>2 DEF Loops, Reductions, Ecma!Iterations, Ecma!Reductions
  <2> QED
    BY <1>2, <2>1, <2>2, <2>3, Named, Zenon DEF Ecma!Hears
<1> HIDE DEF last
<1>8. /\ c.op = call.op /\ c.phase = "loop" /\ c.len = call.len /\ c.k = last /\ c.val = Undefined
      /\ c.ret = Taken(r) /\ IsCall(c)
  <2>1. /\ c.op = call.op /\ c.phase = "loop" /\ c.len = call.len /\ c.k = last /\ c.val = Undefined
        /\ c.ret = Taken(r)
    BY CallParts DEF IsCall
  <2>2. c = [f \in CallFields |-> c[f]]
    BY CallParts DEF IsCall, CallFields
  <2> HIDE DEF c
  <2> QED
    BY <2>1, <2>2, CallWhole
<1> HIDE DEF c
<1>9. CallHolds(c)
  <2>1. c.len \in 0 .. ShortIntMax /\ c.k \in 0 .. c.len
    BY <1>5, <1>8, CallParts, Limits
  <2>2. c.op = "filter" => c.ret \in Seq(Elements) /\ c.val \in Elements
    BY <1>4, <1>8, Limits
  <2>3. c.op # "sort"
    BY <1>2, <1>8 DEF Loops, Reductions
  <2> QED
    BY <1>8, <2>1, <2>2, <2>3 DEF CallHolds
<1> QED
  BY <1>2, <1>6, <1>7, <1>9 DEF IInv, Ecma!Next

\* An index of a script is relative to the length the call read.
LEMMA ClampIs ==
    ASSUME NEW n \in Int, NEW len \in Nat
    PROVE  /\ Clamp(n, 0, len, len) = Ecma!Relative(n, len)
           /\ Ecma!Relative(n, len) \in 0 .. len
           /\ Clamp(n, 0, len, 0) = IF n < 0 THEN 0 ELSE Ecma!Relative(n, len)
  BY DEF Clamp, Ecma!Relative, Larger, Smaller

\* A part of the array is the same part of its table.
LEMMA SeenPartIs ==
    ASSUME NEW a, IsArray(a), NEW m \in Nat \ {0}, NEW n \in 0 .. a.len
    PROVE  SubSeq(a.tab, m, n) = SubSeq(Visible(a), m, n)
<1> DEFINE v == Visible(a)
<1>1. /\ a.tab \in Seq(Elements) /\ Len(a.tab) \in Nat /\ a.len \in Nat /\ a.len <= Len(a.tab)
      /\ v \in Seq(Elements) /\ Len(v) = a.len /\ \A i \in 1 .. a.len : v[i] = a.tab[i]
  BY ArrayParts, VisibleIs
<1> HIDE DEF v
<1>2. n \in 0 .. Len(v) /\ n \in 0 .. Len(a.tab) /\ n \in Nat
  BY <1>1
<1>3. /\ SubSeq(v, m, n) \in Seq(Elements)
      /\ Len(SubSeq(v, m, n)) = IF m <= n THEN n - m + 1 ELSE 0
      /\ \A i \in 1 .. n - m + 1 : SubSeq(v, m, n)[i] = v[m + i - 1]
  BY <1>1, <1>2, PartIs
<1>4. /\ SubSeq(a.tab, m, n) \in Seq(Elements)
      /\ Len(SubSeq(a.tab, m, n)) = IF m <= n THEN n - m + 1 ELSE 0
      /\ \A i \in 1 .. n - m + 1 : SubSeq(a.tab, m, n)[i] = a.tab[m + i - 1]
  BY <1>1, <1>2, PartIs
<1> DEFINE s == SubSeq(a.tab, m, n)
           t == SubSeq(v, m, n)
<1>5. s \in Seq(Elements) /\ t \in Seq(Elements) /\ Len(s) = Len(t)
  BY <1>3, <1>4
<1>6. \A i \in 1 .. Len(s) : s[i] = t[i]
  <2> TAKE i \in 1 .. Len(s)
  <2>1. i \in 1 .. n - m + 1 /\ m + i - 1 \in 1 .. a.len
    BY <1>1, <1>2, <1>4
  <2> QED
    BY <1>1, <1>3, <1>4, <2>1
<1> HIDE DEF s, t
<1>7. s = t
  BY <1>5, <1>6, Same
<1> QED
  BY <1>7 DEF s, t, v

\* What is empty is empty wherever it starts.
LEMMA EmptyPartIs ==
    ASSUME NEW s \in Seq(Elements), NEW m \in Nat \ {0}, NEW n \in Nat, n < m
    PROVE  SubSeq(s, m, n) = <<>>
  BY SubSeqEmpty

LEMMA SliceIs ==
    ASSUME NEW a, IsArray(a), NEW start \in Nat, NEW upto \in Nat
    PROVE  SubSeq(a.tab, start + 1, Larger(start, Smaller(upto, a.len))) =
           Ecma!Slice(Visible(a), start + 1, upto)
<1> DEFINE v == Visible(a)
           final == Smaller(upto, a.len)
<1>1. /\ a.tab \in Seq(Elements) /\ a.len \in Nat /\ v \in Seq(Elements) /\ Len(v) = a.len
  BY ArrayParts, VisibleIs
<1>2. final \in 0 .. a.len /\ final \in Nat
  BY <1>1 DEF Smaller
<1>3. Ecma!Slice(v, start + 1, upto) = SubSeq(v, start + 1, final)
  BY <1>1 DEF Ecma!Slice, Smaller
<1> HIDE DEF final, v
<1>4. SubSeq(a.tab, start + 1, final) = SubSeq(v, start + 1, final)
  BY <1>2, SeenPartIs DEF v
<1>5. CASE final > start
  <2>1. Larger(start, final) = final
    BY <1>2, <1>5 DEF Larger
  <2> QED
    BY <1>3, <1>4, <2>1 DEF v, final
<1>6. CASE final <= start
  <2>1. Larger(start, final) = start
    BY <1>2, <1>6 DEF Larger
  <2>2. start + 1 \in Nat \ {0} /\ start < start + 1 /\ final < start + 1
    BY <1>2, <1>6
  <2>3. SubSeq(a.tab, start + 1, start) = <<>>
    BY <1>1, <2>2, EmptyPartIs
  <2>4. SubSeq(v, start + 1, final) = <<>>
    BY <1>1, <1>2, <2>2, EmptyPartIs
  <2> QED
    BY <1>3, <2>1, <2>3, <2>4 DEF v, final
<1> QED
  BY <1>2, <1>5, <1>6

LEMMA TakesSliceIs ==
    ASSUME IInv, js_array_slice
    PROVE  Ecma!Next /\ IInv'
<1> DEFINE v == Visible(array)
<1>1. PICK from \in Indexes, upto \in Indexes :
        LET start == Clamp(from, 0, call.len, call.len)
            final == Smaller(Clamp(upto, 0, call.len, call.len), array.len)
        IN Done(<<from, upto>> \o SubSeq(array.tab, start + 1, Larger(start, final))) \/ Done(Thrown)
  BY DEF js_array_slice
<1>2. call.phase = "callback" /\ call.op = "slice"
  BY DEF js_array_slice
<1>3. CASE Done(Thrown)
  BY <1>2, <1>3, GivesIs
<1> DEFINE start == Ecma!Relative(from, call.len)
           end == Ecma!Relative(upto, call.len)
<1>4. CASE Done(<<from, upto>> \o SubSeq(array.tab, start + 1, Larger(start, Smaller(end, array.len))))
  <2>1. IsArray(array) /\ start \in Nat /\ end \in Nat
    <3>1. IsArray(array) /\ call.len \in Nat /\ from \in Int /\ upto \in Int
      BY CallParts, ArrayAssumption DEF IInv
    <3>2. start \in 0 .. call.len
      BY <3>1, ClampIs
    <3>3. end \in 0 .. call.len
      BY <3>1, ClampIs
    <3> QED
      BY <3>1, <3>2, <3>3
  <2> DEFINE part == SubSeq(array.tab, start + 1, Larger(start, Smaller(end, array.len)))
  <2>2. part = Ecma!Slice(v, start + 1, end)
    BY <2>1, SliceIs
  <2>3. Ecma!Ends(v, <<from, upto>> \o part) /\ IInv'
    BY <1>4, DoneIs
  <2> HIDE DEF part
  <2>4. Ecma!TakesSlice
    BY <1>2, <2>2, <2>3, Zenon DEF Ecma!TakesSlice, Divergences
  <2> QED
    BY <2>3, <2>4 DEF Ecma!Next
<1>5. start = Clamp(from, 0, call.len, call.len) /\ end = Clamp(upto, 0, call.len, call.len)
  BY CallParts, ArrayAssumption, ClampIs
<1> QED
  BY <1>1, <1>3, <1>4, <1>5

-----------------------------------------------------------------------------
(* Searches.  A script counts the elements from 0, a table from 1.         *)

LEMMA MinIsIn ==
    ASSUME NEW S \in SUBSET Nat, S # {}
    PROVE  Min(S) \in S /\ \A j \in S : Min(S) <= j
<1>1. IsWellFoundedOn(OpToRel(<, Nat), Nat)
  BY NatLessThanWellFounded
<1>2. PICK i \in S : \A j \in S : ~(<<j, i>> \in OpToRel(<, Nat))
  BY <1>1, WFMin
<1>3. ASSUME NEW j \in S PROVE i <= j
  <2>1. ~(j < i)
    BY <1>2, Zenon DEF OpToRel
  <2> QED
    BY <2>1
<1> QED
  BY <1>2, <1>3 DEF Min

LEMMA MaxIsIn ==
    ASSUME NEW n \in Nat, NEW S \in SUBSET (0 .. n), S # {}
    PROVE  Max(S) \in S /\ \A j \in S : j <= Max(S)
<1> DEFINE below == {m \in 0 .. n : n - m \in S}
<1>1. below \in SUBSET Nat /\ below # {}
  <2>1. PICK j \in S : j \in 0 .. n
    OBVIOUS
  <2>2. n - j \in below
    BY <2>1
  <2>3. below \in SUBSET Nat
    OBVIOUS
  <2> HIDE DEF below
  <2> QED
    BY <2>2, <2>3
<1>2. PICK m \in below : \A j \in below : m <= j
  BY <1>1, MinIsIn
<1>3. ASSUME NEW j \in S PROVE j <= n - m
  <2>1. n - j \in below /\ j \in 0 .. n
    OBVIOUS
  <2> QED
    BY <1>2, <2>1
<1>4. n - m \in S
  BY <1>2
<1> QED
  BY <1>3, <1>4 DEF Max

\* The elements from 1 are those from 0, each one further.
OneFurther(S, T) == \A i \in Nat : i \in T <=> i # 0 /\ i - 1 \in S

LEMMA FurtherParts ==
    ASSUME NEW S \in SUBSET Nat, NEW T \in SUBSET Nat, OneFurther(S, T)
    PROVE  /\ S = {} <=> T = {}
           /\ \A i \in S : i + 1 \in T
           /\ \A i \in T : i - 1 \in S
<1>1. \A i \in S : i + 1 \in T
  <2> TAKE i \in S
  <2>1. i \in Nat /\ i + 1 \in Nat /\ i + 1 # 0 /\ i + 1 - 1 = i
    OBVIOUS
  <2> QED
    BY <2>1 DEF OneFurther
<1>2. \A i \in T : i - 1 \in S
  BY DEF OneFurther
<1> QED
  BY <1>1, <1>2

LEMMA FirstIs ==
    ASSUME NEW S \in SUBSET Nat, NEW T \in SUBSET Nat, OneFurther(S, T)
    PROVE  (IF T # {} THEN Min(T) ELSE 0) - 1 = IF S = {} THEN -1 ELSE Ecma!Min(S)
<1> DEFINE a == Min(S)
           b == Min(T)
<1>1. /\ S = {} <=> T = {}
      /\ \A i \in S : i + 1 \in T
      /\ \A i \in T : i - 1 \in S
  BY FurtherParts
<1>2. CASE S = {}
  <2>1. (IF T # {} THEN b ELSE 0) = 0
    BY <1>1, <1>2
  <2>2. (IF S = {} THEN -1 ELSE Ecma!Min(S)) = -1
    BY <1>2
  <2>3. 0 - 1 = -1
    OBVIOUS
  <2> QED
    BY <2>1, <2>2, <2>3, Zenon
<1>3. CASE S # {}
  <2>1. Ecma!Min(S) = a
    BY DEF Min, Ecma!Min
  <2>2. a \in S /\ \A j \in S : a <= j
    BY <1>3, MinIsIn
  <2>3. b \in T /\ \A j \in T : b <= j
    BY <1>1, <1>3, MinIsIn
  <2>4. (IF T # {} THEN b ELSE 0) = b
    BY <1>1, <1>3
  <2> HIDE DEF a, b
  <2>5. a + 1 \in T /\ b - 1 \in S /\ a \in Nat /\ b \in Nat
    BY <1>1, <2>2, <2>3
  <2>6. b <= a + 1 /\ a <= b - 1
    BY <2>2, <2>3, <2>5
  <2>7. b - 1 = a
    BY <2>5, <2>6
  <2> QED
    BY <1>3, <2>1, <2>4, <2>7 DEF b
<1> QED
  BY <1>2, <1>3

LEMMA LastIs ==
    ASSUME NEW n \in Nat, NEW S \in SUBSET (0 .. n), NEW T \in SUBSET (0 .. n + 1), OneFurther(S, T)
    PROVE  (IF T # {} THEN Max(T) ELSE 0) - 1 = IF S = {} THEN -1 ELSE Ecma!Max(S)
<1> DEFINE a == Max(S)
           b == Max(T)
<1>0. S \in SUBSET Nat /\ T \in SUBSET Nat
  OBVIOUS
<1>1. /\ S = {} <=> T = {}
      /\ \A i \in S : i + 1 \in T
      /\ \A i \in T : i - 1 \in S
  BY <1>0, FurtherParts
<1>2. CASE S = {}
  <2>1. (IF T # {} THEN b ELSE 0) = 0
    BY <1>1, <1>2
  <2>2. (IF S = {} THEN -1 ELSE Ecma!Max(S)) = -1
    BY <1>2
  <2>3. 0 - 1 = -1
    OBVIOUS
  <2> QED
    BY <2>1, <2>2, <2>3, Zenon
<1>3. CASE S # {}
  <2>1. Ecma!Max(S) = a
    BY DEF Max, Ecma!Max
  <2>2. a \in S /\ \A j \in S : j <= a
    BY <1>3, MaxIsIn
  <2>3. b \in T /\ \A j \in T : j <= b
    <3> DEFINE m == n + 1
    <3>1. T # {}
      BY <1>1, <1>3
    <3>2. m \in Nat
      OBVIOUS
    <3>3. T \in SUBSET (0 .. m)
      OBVIOUS
    <3> HIDE DEF m
    <3> QED
      BY <3>1, <3>2, <3>3, MaxIsIn
  <2>4. (IF T # {} THEN b ELSE 0) = b
    BY <1>1, <1>3
  <2> HIDE DEF a, b
  <2>5. a + 1 \in T /\ b - 1 \in S /\ a \in Nat /\ b \in Nat
    BY <1>0, <1>1, <2>2, <2>3
  <2>6. a + 1 <= b /\ b - 1 <= a
    BY <2>2, <2>3, <2>5
  <2>7. b - 1 = a
    BY <2>5, <2>6
  <2> QED
    BY <1>3, <2>1, <2>4, <2>7 DEF b
<1> QED
  BY <1>2, <1>3

\* indexOf
LEMMA FirstFromIs ==
    ASSUME IsArray(array), NEW x, NEW m \in Nat
    PROVE  FirstFrom(x, m) =
           LET after == Ecma!Found(x, m, Len(Visible(array)) - 1)
           IN IF after = {} THEN -1 ELSE Ecma!Min(after)
<1> DEFINE v == Visible(array)
           S == Ecma!Found(x, m, Len(v) - 1)
           T == {i \in m + 1 .. array.len : array.tab[i] = x}
<1>1. array.len \in Nat /\ Len(v) = array.len /\ \A i \in 1 .. array.len : v[i] = array.tab[i]
  BY ArrayParts, VisibleIs
<1>2. FirstFrom(x, m) = (IF T # {} THEN Min(T) ELSE 0) - 1
  BY DEF FirstFrom, SelectInSubSeq
<1>3. S = {i \in m .. array.len - 1 : i < array.len /\ v[i + 1] = x}
  BY <1>1 DEF Ecma!Found
<1>4. S \in SUBSET Nat /\ T \in SUBSET Nat
  BY <1>1, <1>3
<1>5. ASSUME NEW i \in Nat PROVE i \in T <=> i # 0 /\ i - 1 \in S
  <2>1. CASE i = 0
    BY <2>1
  <2>2. CASE i # 0
    <3>1. i - 1 + 1 = i /\ i - 1 \in Nat
      BY <2>2
    <3>2. i - 1 \in S <=> i \in m + 1 .. array.len /\ v[i] = x
      BY <1>1, <1>3, <3>1
    <3>3. i \in m + 1 .. array.len => v[i] = array.tab[i]
      BY <1>1
    <3> QED
      BY <2>2, <3>2, <3>3
  <2> QED
    BY <2>1, <2>2
<1> HIDE DEF S, T
<1>6. (IF T # {} THEN Min(T) ELSE 0) - 1 = IF S = {} THEN -1 ELSE Ecma!Min(S)
  BY <1>4, <1>5, FirstIs DEF OneFurther
<1> QED
  BY <1>2, <1>6 DEF S

\* lastIndexOf
FoundBefore(x, n, len) ==
    IF n = -1 THEN {} ELSE {i \in Ecma!Found(x, 0, len - 1) : i <= n \/ (n < 0 /\ i <= len + n)}

LEMMA LastFromIs ==
    ASSUME IsArray(array), NEW x, NEW n \in Int, NEW len \in Nat
    PROVE  LastFrom(x, Clamp(n, -1, len - 1, len)) =
           IF FoundBefore(x, n, len) = {} THEN -1 ELSE Ecma!Max(FoundBefore(x, n, len))
<1> DEFINE v == Visible(array)
           S == FoundBefore(x, n, len)
           c == Clamp(n, -1, len - 1, len)
           m == Smaller(c + 1, array.len)
           T == {i \in 1 .. m : array.tab[i] = x}
<1>1. array.len \in Nat /\ Len(v) = array.len /\ \A i \in 1 .. array.len : v[i] = array.tab[i]
  BY ArrayParts, VisibleIs
<1>2. LastFrom(x, c) = (IF T # {} THEN Max(T) ELSE 0) - 1
  BY DEF LastFrom, SelectLastInSubSeq
<1>3. c + 1 \in Nat /\ c + 1 <= len
  BY DEF Clamp, Larger, Smaller
<1>4. \A i \in Nat : i \in 1 .. c + 1 <=> n # -1 /\ i # 0 /\ i <= len /\ (i - 1 <= n \/ (n < 0 /\ i - 1 <= len + n))
  BY DEF Clamp, Larger, Smaller
<1> HIDE DEF c
<1>5. m \in Nat /\ m <= len /\ \A i \in Nat : i \in 1 .. m <=> i \in 1 .. c + 1 /\ i <= array.len
  BY <1>1, <1>3 DEF Smaller
<1> HIDE DEF m
<1>6. ASSUME NEW i \in Nat
      PROVE  i \in S <=> /\ n # -1 /\ i <= len - 1 /\ (i <= n \/ (n < 0 /\ i <= len + n))
                         /\ i < array.len /\ v[i + 1] = x
  <2>1. i \in Ecma!Found(x, 0, len - 1) <=> i <= len - 1 /\ i < array.len /\ v[i + 1] = x
    BY <1>1 DEF Ecma!Found
  <2> QED
    BY <2>1 DEF FoundBefore
<1>7. S \in SUBSET Nat
  BY DEF Ecma!Found, FoundBefore
<1>8. ASSUME NEW i \in Nat PROVE i \in T <=> i # 0 /\ i - 1 \in S
  <2>1. CASE i = 0
    BY <2>1
  <2>2. CASE i # 0
    <3>1. i - 1 + 1 = i /\ i - 1 \in Nat /\ (i - 1 <= len - 1 <=> i <= len) /\ (i - 1 < array.len <=> i <= array.len)
      BY <1>1, <2>2
    <3> HIDE DEF S
    <3>2. i - 1 \in S <=> i \in 1 .. m /\ v[i] = x
      BY <1>4, <1>5, <1>6, <2>2, <3>1
    <3>3. i \in 1 .. m => v[i] = array.tab[i]
      BY <1>1, <1>5
    <3> QED
      BY <2>2, <3>2, <3>3
  <2> QED
    BY <2>1, <2>2
<1>9. S \in SUBSET (0 .. len) /\ T \in SUBSET (0 .. len + 1)
  <2>1. S \in SUBSET (0 .. len)
    <3> HIDE DEF S
    <3> QED
      BY <1>6, <1>7
  <2>2. T \in SUBSET (0 .. len + 1)
    BY <1>5
  <2> QED
    BY <2>1, <2>2
<1> HIDE DEF S, T
<1>10. (IF T # {} THEN Max(T) ELSE 0) - 1 = IF S = {} THEN -1 ELSE Ecma!Max(S)
  BY <1>8, <1>9, LastIs DEF OneFurther
<1> QED
  BY <1>2, <1>10 DEF S, c

LEMMA FindsIs ==
    ASSUME IInv, js_array_indexOf
    PROVE  Ecma!Next /\ IInv'
<1>1. PICK x \in Elements, n \in Indexes :
        Done(<<x, n, IF call.op = "indexOf" THEN FirstFrom(x, Clamp(n, 0, call.len, call.len))
                     ELSE LastFrom(x, Clamp(n, -1, call.len - 1, call.len))>>)
  BY DEF js_array_indexOf
<1>2. call.phase = "callback" /\ call.op \in {"indexOf", "lastIndexOf"}
  BY DEF js_array_indexOf, Searches
<1>3. IsArray(array) /\ call.len \in Nat /\ n \in Int /\ x \in Values \cup {Undefined}
  BY CallParts, ArrayAssumption DEF IInv, Elements
<1> DEFINE after == Ecma!Found(x, Ecma!Relative(n, call.len), Len(Visible(array)) - 1)
           before == FoundBefore(x, n, call.len)
<1>4. CASE call.op = "indexOf"
  <2> DEFINE m == Clamp(n, 0, call.len, call.len)
  <2>1. m = Ecma!Relative(n, call.len) /\ m \in Nat
    <3>1. m = Ecma!Relative(n, call.len)
      BY <1>3, ClampIs
    <3>2. Ecma!Relative(n, call.len) \in 0 .. call.len
      BY <1>3, ClampIs
    <3> HIDE DEF m
    <3> QED
      BY <1>3, <3>1, <3>2
  <2>2. FirstFrom(x, m) = IF after = {} THEN -1 ELSE Ecma!Min(after)
    <3> HIDE DEF m
    <3> QED
      BY <1>3, <2>1, FirstFromIs
  <2>3. Done(<<x, n, FirstFrom(x, m)>>)
    BY <1>1, <1>4
  <2> HIDE DEF m, after
  <2>4. Done(<<x, n, IF after = {} THEN -1 ELSE Ecma!Min(after)>>)
    BY <2>2, <2>3, Zenon
  <2>5. Ecma!Ends(Visible(array), <<x, n, IF after = {} THEN -1 ELSE Ecma!Min(after)>>) /\ IInv'
    BY <2>4, DoneIs
  <2>6. Ecma!Finds
    BY <1>2, <1>3, <1>4, <2>5, Zenon DEF after, Ecma!Finds, Divergences
  <2> QED
    BY <2>5, <2>6 DEF Ecma!Next
<1>5. CASE call.op = "lastIndexOf"
  <2> DEFINE m == Clamp(n, -1, call.len - 1, call.len)
  <2>1. call.len \in Nat /\ n \in Int
    BY <1>3
  <2>2. LastFrom(x, m) = IF before = {} THEN -1 ELSE Ecma!Max(before)
    <3>1. IsArray(array)
      BY <1>3
    <3> QED
      BY <2>1, <3>1, LastFromIs
  <2>3. Done(<<x, n, LastFrom(x, m)>>)
    BY <1>1, <1>5
  <2> HIDE DEF m, before
  <2>4. Done(<<x, n, IF before = {} THEN -1 ELSE Ecma!Max(before)>>)
    BY <2>2, <2>3, Zenon
  <2>5. Ecma!Ends(Visible(array), <<x, n, IF before = {} THEN -1 ELSE Ecma!Max(before)>>) /\ IInv'
    BY <2>4, DoneIs
  <2>6. Ecma!Finds
    BY <1>2, <1>3, <1>5, <2>5, Zenon DEF before, FoundBefore, Ecma!Finds, Divergences
  <2> QED
    BY <2>5, <2>6 DEF Ecma!Next
<1> QED
  BY <1>2, <1>4, <1>5

-----------------------------------------------------------------------------
(* Splices and sorts.                                                      *)

LEMMA WholeSlices ==
    ASSUME NEW v \in Seq(Elements), NEW start \in Nat, NEW del \in Nat, start + del <= Len(v)
    PROVE  /\ Ecma!Slice(v, 1, start) = SubSeq(v, 1, start)
           /\ Ecma!Slice(v, start + 1, start + del) = SubSeq(v, start + 1, start + del)
           /\ Ecma!Slice(v, start + del + 1, Len(v)) = SubSeq(v, start + del + 1, Len(v))
<1>1. Len(v) \in Nat
  BY Fields
<1>2. /\ (IF start < Len(v) THEN start ELSE Len(v)) = start
      /\ (IF start + del < Len(v) THEN start + del ELSE Len(v)) = start + del
      /\ (IF Len(v) < Len(v) THEN Len(v) ELSE Len(v)) = Len(v)
  BY <1>1
<1> QED
  BY <1>2, Zenon DEF Ecma!Slice

\* What is as long as it was is read whole.
LEMMA ReadIs ==
    ASSUME NEW v \in Seq(Elements)
    PROVE  Ecma!Padded(v, Len(v)) = v
<1> DEFINE u == Ecma!Padded(v, Len(v))
<1>1. Len(v) \in Nat /\ \A i \in 1 .. Len(v) : v[i] \in Elements
  BY Fields
<1>2. u = [i \in 1 .. Len(v) |-> u[i]] /\ \A i \in 1 .. Len(v) : u[i] = v[i]
  BY <1>1 DEF Ecma!Padded
<1> HIDE DEF u
<1>3. u \in Seq(Elements) /\ Len(u) = Len(v)
  BY <1>1, <1>2, Listed
<1>4. u = v
  BY <1>2, <1>3, Same
<1> QED
  BY <1>4 DEF u

LEMMA SplicesIs ==
    ASSUME IInv, js_array_splice
    PROVE  Ecma!Next /\ IInv'
<1> DEFINE v == Visible(array)
<1>1. call.phase = "callback" /\ call.op = "splice"
  BY DEF js_array_splice
<1>2. PICK from \in Indexes, count \in Indexes, items \in Args :
        LET start == Clamp(from, 0, call.len, call.len)
            del == Clamp(count, 0, call.len - start, 0)
            n == call.len + Len(items) - del
        IN IF call.len # array.len \/ n > ShortIntMax THEN Done(Thrown)
           ELSE \/ /\ array' = Spliced(array, start, del, items)
                   /\ call' = NoCall
                   /\ result' = [op |-> "splice",
                                 value |-> <<from, count>> \o SubSeq(array.tab, start + 1, start + del)]
                \/ Done(Thrown)
  BY DEF js_array_splice
<1> DEFINE start == Clamp(from, 0, call.len, call.len)
           del == Clamp(count, 0, call.len - start, 0)
<1>3. CASE Done(Thrown)
  BY <1>1, <1>3, GivesIs
<1>4. CASE /\ call.len = array.len /\ ~(call.len + Len(items) - del > ShortIntMax)
           /\ array' = Spliced(array, start, del, items) /\ call' = NoCall
           /\ result' = [op |-> "splice", value |-> <<from, count>> \o SubSeq(array.tab, start + 1, start + del)]
  <2>1. /\ IsArray(array) /\ v \in Seq(Elements) /\ Len(v) = array.len /\ array.len \in Nat
        /\ items \in Seq(Elements) /\ Len(items) \in Nat /\ from \in Int /\ count \in Int /\ call.len \in Nat
    BY VisibleIs, ArrayParts, ArrayAssumption, CallParts, Fields DEF IInv
  <2>2. start = Ecma!Relative(from, call.len) /\ start \in 0 .. call.len
    <3>1. start = Ecma!Relative(from, call.len)
      BY <2>1, ClampIs
    <3>2. Ecma!Relative(from, call.len) \in 0 .. call.len
      BY <2>1, ClampIs
    <3> HIDE DEF start
    <3> QED
      BY <3>1, <3>2
  <2>3. del = (IF count < 0 THEN 0 ELSE Ecma!Relative(count, call.len - start)) /\ del \in 0 .. call.len - start
    <3> HIDE DEF start
    <3>1. call.len - start \in Nat
      BY <2>1, <2>2
    <3> DEFINE rest == call.len - start
    <3> HIDE DEF rest
    <3>2. Clamp(count, 0, rest, 0) = IF count < 0 THEN 0 ELSE Ecma!Relative(count, rest)
      BY <2>1, <3>1, ClampIs DEF rest
    <3>3. Clamp(count, 0, rest, 0) \in 0 .. rest
      BY <2>1, <3>1 DEF Clamp, Larger, Smaller, rest
    <3> QED
      BY <3>2, <3>3 DEF rest
  <2> HIDE DEF start, del
  <2>4. start \in Nat /\ del \in Nat /\ start + del <= array.len /\ array.len + Len(items) - del <= ShortIntMax
    <3>1. start \in 0 .. call.len /\ call.len \in Nat
      BY <2>1, <2>2
    <3>2. del \in 0 .. call.len - start
      BY <2>3
    <3>3. start \in Nat /\ del \in Nat /\ start + del <= call.len
      BY <3>1, <3>2
    <3>4. call.len = array.len /\ ~(call.len + Len(items) - del > ShortIntMax)
      BY <1>4
    <3>5. array.len + Len(items) - del <= ShortIntMax
      BY <2>1, <3>3, <3>4, Limits
    <3> QED
      BY <3>3, <3>4, <3>5
  <2> DEFINE w == SpliceOf(v, start, del, items)
             part == SubSeq(array.tab, start + 1, start + del)
  <2> HIDE DEF w, part
  <2>5. IsArray(array)' /\ Visible(array)' = w
    <3>1. IsArray(Spliced(array, start, del, items)) /\ Visible(Spliced(array, start, del, items)) = w
      BY <2>1, <2>4, SplicedIs DEF w
    <3> QED
      BY <1>4, <3>1 DEF IsArray, Visible
  <2>6. part = SubSeq(v, start + 1, start + del)
    <3>1. start + 1 \in Nat \ {0} /\ start + del \in 0 .. array.len
      BY <2>1, <2>4
    <3> QED
      BY <2>1, <3>1, SeenPartIs DEF part
  <2>7. Len(w) = array.len + Len(items) - del
    <3>1. start + del <= Len(v)
      BY <2>1, <2>4
    <3>2. v \in Seq(Elements) /\ items \in Seq(Elements) /\ start \in Nat /\ del \in Nat /\ Len(v) = array.len
      BY <2>1, <2>4
    <3> HIDE DEF v
    <3>3. Len(SpliceOf(v, start, del, items)) = Len(v) + Len(items) - del
      BY <3>1, <3>2, SpliceLength
    <3> QED
      BY <3>2, <3>3, Zenon DEF w
  <2> DEFINE end == start + (IF count < 0 THEN 0 ELSE Ecma!Relative(count, call.len - start))
             spliced == Ecma!Slice(v, 1, start) \o items \o Ecma!Slice(v, end + 1, Len(v))
  <2>8. end = start + del
    BY <2>3, Zenon
  <2>9. spliced = w /\ Ecma!Slice(v, start + 1, end) = part
    <3>1. start + del <= Len(v)
      BY <2>1, <2>4
    <3> HIDE DEF end, v, part
    <3>2. /\ Ecma!Slice(v, 1, start) = SubSeq(v, 1, start)
          /\ Ecma!Slice(v, start + 1, start + del) = SubSeq(v, start + 1, start + del)
          /\ Ecma!Slice(v, start + del + 1, Len(v)) = SubSeq(v, start + del + 1, Len(v))
      BY <2>1, <2>4, <3>1, WholeSlices
    <3> QED
      BY <2>6, <2>8, <3>2, Zenon DEF SpliceOf, w
  <2>10. Ecma!Returns(spliced, call.op, <<from, count>> \o Ecma!Slice(v, start + 1, end))
    BY <1>1, <1>4, <2>5, <2>9, Named, Zenon DEF Ecma!Returns, part
  <2>11. Ecma!Fits(Len(spliced))
    <3> HIDE DEF spliced
    <3> QED
      BY <2>4, <2>7, <2>9 DEF Ecma!Fits
  <2>12. Len(v) = call.len
    BY <1>4, <2>1
  <2>13. Ecma!Read = v
    BY <2>1, <2>12, ReadIs, Zenon DEF Ecma!Read
  <2>14. Ecma!Splices
    <3>1. Ecma!Ends(spliced, <<from, count>> \o Ecma!Slice(v, start + 1, end))
      BY <2>10, Zenon DEF Ecma!Ends
    <3> QED
      BY <1>1, <2>2, <2>11, <2>12, <2>13, <3>1, Zenon DEF Ecma!Splices
  <2> QED
    BY <1>4, <2>5, <2>14, NoCallHolds DEF IInv, Ecma!Next
<1> QED
  BY <1>2, <1>3, <1>4

LEMMA SignsOrder ==
    ASSUME NEW a \in Int, NEW b \in Int, NEW c \in Int, NEW d \in Int,
           (IF SignOf(a - b) # 0 THEN SignOf(a - b) ELSE SignOf(c - d)) < 0
    PROVE  a < b \/ (a = b /\ c < d)
  BY DEF SignOf

\* What the comparison of the engine puts first, ECMAScript does.
LEMMA SortCmpIs ==
    ASSUME NEW by \in {"value", "parity"}, NEW p \in Values \X Nat, NEW q \in Values \X Nat,
           SortCmp(by, p, q) < 0
    PROVE  Ecma!Before(by, p, q)
<1> DEFINE x == p[1]
           y == q[1]
           i == p[2]
           j == q[2]
           xp == p[1] % 2
           yp == q[1] % 2
<1>1. x \in Values /\ y \in Values /\ i \in Nat /\ j \in Nat
  OBVIOUS
<1>2. x \in Int /\ y \in Int /\ i \in Int /\ j \in Int
  <2>1. Values \subseteq Int
    BY Limits DEF Elements
  <2> HIDE DEF x, y, i, j
  <2> QED
    BY <1>1, <2>1
<1>3. xp \in Int /\ yp \in Int
  <2> HIDE DEF x, y
  <2> QED
    BY <1>2 DEF x, y
<1>4. CASE by = "value"
  <2>1. SortCmp(by, p, q) = IF SignOf(x - y) # 0 THEN SignOf(x - y) ELSE SignOf(i - j)
    BY <1>4 DEF SortCmp
  <2>2. Ecma!Before(by, p, q) <=> x < y \/ (x = y /\ i < j)
    BY <1>4 DEF Ecma!Before
  <2> HIDE DEF x, y, i, j
  <2>3. (IF SignOf(x - y) # 0 THEN SignOf(x - y) ELSE SignOf(i - j)) < 0
    BY <2>1, Zenon
  <2>4. x < y \/ (x = y /\ i < j)
    BY <1>2, <2>3, SignsOrder
  <2> QED
    BY <2>2, <2>4
<1>5. CASE by = "parity"
  <2>1. SortCmp(by, p, q) = IF SignOf(xp - yp) # 0 THEN SignOf(xp - yp) ELSE SignOf(i - j)
    BY <1>5 DEF SortCmp
  <2>2. Ecma!Before(by, p, q) <=> xp < yp \/ (xp = yp /\ i < j)
    BY <1>5 DEF Ecma!Before
  <2> HIDE DEF xp, yp, i, j
  <2>3. (IF SignOf(xp - yp) # 0 THEN SignOf(xp - yp) ELSE SignOf(i - j)) < 0
    BY <2>1, Zenon
  <2>4. xp < yp \/ (xp = yp /\ i < j)
    BY <1>2, <1>3, <2>3, SignsOrder
  <2> QED
    BY <2>2, <2>4
<1> QED
  BY <1>4, <1>5

\* What a sort leaves in the first len places.
PutBack(s, len) == [i \in 1 .. len |-> IF i <= Len(s) THEN s[i][1] ELSE Undefined]

\* The array after it, and the sequence.
SortedInto(a, s, len) == [a EXCEPT !.tab = Put(@, 0, PutBack(s, Smaller(len, a.len)))]
Rearranged(v, s, len) == [i \in DOMAIN v |-> IF i <= len THEN PutBack(s, len)[i] ELSE v[i]]

LEMMA SortedIs ==
    ASSUME NEW a, IsArray(a), NEW len \in Nat, NEW s \in Seq(Values \X Nat)
    PROVE  IsArray(SortedInto(a, s, len)) /\ Visible(SortedInto(a, s, len)) = Rearranged(Visible(a), s, len)
<1> DEFINE v == Visible(a)
           n == Smaller(len, a.len)
           items == PutBack(s, n)
           t == Put(a.tab, 0, items)
           w == [i \in DOMAIN v |-> IF i <= len THEN PutBack(s, len)[i] ELSE v[i]]
           b == [a EXCEPT !.tab = Put(@, 0, items)]
<1>1. /\ a.tab \in Seq(Elements) /\ Len(a.tab) \in Nat /\ a.len \in Nat /\ a.len <= Len(a.tab)
      /\ a.len <= ShortIntMax /\ a = [tab |-> a.tab, len |-> a.len]
  BY ArrayParts DEF IsArray
<1>2. v \in Seq(Elements) /\ Len(v) = a.len /\ \A i \in 1 .. a.len : v[i] = a.tab[i]
  BY VisibleIs
<1>3. n \in Nat /\ n <= a.len /\ n <= len /\ \A i \in 1 .. a.len : i <= len <=> i <= n
  BY <1>1 DEF Smaller
<1> HIDE DEF n, v
<1>4. ASSUME NEW m \in Nat
      PROVE  /\ PutBack(s, m) \in Seq(Elements) /\ Len(PutBack(s, m)) = m
             /\ \A i \in 1 .. m : PutBack(s, m)[i] = IF i <= Len(s) THEN s[i][1] ELSE Undefined
  <2> DEFINE u == PutBack(s, m)
  <2>1. Len(s) \in Nat /\ \A i \in 1 .. Len(s) : s[i] \in Values \X Nat
    OBVIOUS
  <2>2. \A i \in 1 .. Len(s) : s[i][1] \in Values
    BY <2>1
  <2>3. u = [i \in 1 .. m |-> u[i]] /\ \A i \in 1 .. m : u[i] = IF i <= Len(s) THEN s[i][1] ELSE Undefined
    BY DEF PutBack
  <2> HIDE DEF u
  <2>4. \A i \in 1 .. m : u[i] \in Elements
    <3> TAKE i \in 1 .. m
    <3>1. CASE i <= Len(s)
      <4>1. i \in 1 .. Len(s)
        BY <2>1, <3>1
      <4> QED
        BY <2>2, <2>3, <3>1, <4>1 DEF Elements
    <3>2. CASE ~(i <= Len(s))
      BY <2>3, <3>2, Limits
    <3> QED
      BY <3>1, <3>2
  <2>5. u \in Seq(Elements) /\ Len(u) = m
    BY <2>3, <2>4, Listed
  <2> QED
    BY <2>3, <2>5 DEF u
<1>5. items \in Seq(Elements) /\ Len(items) = n /\ \A i \in 1 .. n : items[i] = IF i <= Len(s) THEN s[i][1] ELSE Undefined
  BY <1>3, <1>4
<1>6. \A i \in 1 .. len : PutBack(s, len)[i] = IF i <= Len(s) THEN s[i][1] ELSE Undefined
  BY <1>4
<1>7. \A i \in 1 .. len : PutBack(s, len)[i] \in Elements
  <2>1. PutBack(s, len) \in Seq(Elements) /\ Len(PutBack(s, len)) = len
    BY <1>4
  <2> QED
    BY <2>1, Fields
<1>8. b = [tab |-> t, len |-> a.len]
  BY <1>1, Refilled, Zenon
<1> HIDE DEF items, b
<1>9. /\ t \in Seq(Elements) /\ Len(t) = Len(a.tab)
      /\ \A i \in 1 .. Len(a.tab) : t[i] = IF i <= n THEN items[i] ELSE a.tab[i]
  BY <1>1, <1>5, PutFirstIs
<1> HIDE DEF t
<1>10. DOMAIN v = 1 .. a.len
  BY <1>2, Fields
<1>11. w = [i \in 1 .. a.len |-> w[i]]
  BY <1>10
<1>12. \A i \in 1 .. a.len : w[i] = IF i <= len THEN PutBack(s, len)[i] ELSE v[i]
  BY <1>10
<1> HIDE DEF w
<1>13. \A i \in 1 .. a.len : w[i] \in Elements
  <2>1. \A i \in 1 .. a.len : i <= len => i \in 1 .. len
    OBVIOUS
  <2>2. \A i \in 1 .. a.len : v[i] \in Elements
    BY <1>2, Fields
  <2> QED
    BY <1>7, <1>12, <2>1, <2>2
<1>14. w \in Seq(Elements) /\ Len(w) = a.len
  BY <1>1, <1>11, <1>13, Listed
<1>15. \A i \in 1 .. a.len : t[i] = w[i]
  <2> TAKE i \in 1 .. a.len
  <2>1. i \in 1 .. Len(a.tab)
    BY <1>1
  <2>2. CASE i <= n
    <3>1. i \in 1 .. n /\ i \in 1 .. len /\ i <= len
      BY <1>3, <2>2
    <3> QED
      BY <1>5, <1>6, <1>9, <1>12, <2>1, <2>2, <3>1
  <2>3. CASE ~(i <= n)
    <3>1. ~(i <= len)
      BY <1>3, <2>3
    <3> QED
      BY <1>2, <1>9, <1>12, <2>1, <2>3, <3>1
  <2> QED
    BY <2>2, <2>3
<1>16. a.len \in 0 .. Len(t)
  BY <1>1, <1>9
<1>17. IsArray(b) /\ Visible(b) = w
  <2> DEFINE l == a.len
  <2>1. t \in Seq(Elements) /\ w \in Seq(Elements)
    BY <1>9, <1>14
  <2>2. l \in 0 .. Len(t) /\ l <= ShortIntMax /\ Len(w) = l
    BY <1>1, <1>14, <1>16
  <2>3. \A i \in 1 .. l : t[i] = w[i]
    BY <1>15
  <2> HIDE DEF l
  <2>4. ASSUME NEW c, c = [tab |-> t, len |-> l] PROVE IsArray(c) /\ Visible(c) = w
    BY <2>1, <2>2, <2>3, <2>4, Holds
  <2> QED
    BY <1>8, <2>4, Zenon DEF l
<1> QED
  BY <1>17, Zenon DEF b, items, n, w, v, SortedInto, Rearranged

LEMMA SortsIs ==
    ASSUME IInv, js_array_sort
    PROVE  Ecma!Next /\ IInv'
<1> DEFINE v == Visible(array)
<1>1. call.phase = "callback" /\ call.op = "sort"
  BY DEF js_array_sort
<1>2. PICK by \in Orders :
        LET s == SortedBy(by, call.ret)
            n == Smaller(call.len, array.len)
        IN /\ array' = [array EXCEPT !.tab = Put(@, 0, [i \in 1 .. n |-> IF i <= Len(s) THEN s[i][1] ELSE Undefined])]
           /\ call' = NoCall
           /\ result' = [op |-> by, value |-> <<>>]
  BY DEF js_array_sort
<1> DEFINE s == SortedBy(by, call.ret)
<1>3. /\ array' = [array EXCEPT !.tab = Put(@, 0, PutBack(s, Smaller(call.len, array.len)))]
      /\ call' = NoCall /\ result' = [op |-> by, value |-> <<>>]
  BY <1>2 DEF PutBack
<1>4. /\ s \in Seq(Values \X Nat) /\ s \in [DOMAIN call.ret -> ToSet(call.ret)] /\ ToSet(s) = ToSet(call.ret)
      /\ by # "throws" => \A i \in 1 .. Len(s) - 1 : SortCmp(by, s[i], s[i + 1]) < 0
  <2>1. PICK z \in Seq(Elements) : Len(z) = call.len /\ call.ret = PairsOf(z)
    BY <1>1, CallParts
  <2>2. call.len \in 0 .. ShortIntMax /\ z \in [1 .. call.len -> Elements]
    BY <2>1, CallParts, Limits, LenProperties
  <2> QED
    BY <2>1, <2>2, SortAssumption, Zenon DEF IsSortOf
<1> HIDE DEF s
<1>5. s \in Ecma!Arrangements(by)
  <2>1. ASSUME by # "throws", NEW i \in 1 .. Len(s) - 1 PROVE Ecma!Before(by, s[i], s[i + 1])
    <3>1. s[i] \in Values \X Nat /\ s[i + 1] \in Values \X Nat
      BY <1>4
    <3>2. by \in {"value", "parity"} /\ SortCmp(by, s[i], s[i + 1]) < 0
      BY <1>4, <2>1 DEF Orders
    <3> QED
      BY <3>1, <3>2, SortCmpIs
  <2>2. by # "throws" => \A i \in 1 .. Len(s) - 1 : Ecma!Before(by, s[i], s[i + 1])
    BY <2>1, Zenon
  <2>3. s \in [DOMAIN call.ret -> Ecma!ToSet(call.ret)] /\ Ecma!ToSet(s) = Ecma!ToSet(call.ret)
    BY <1>4, Shared, Zenon
  <2> QED
    BY <2>2, <2>3, Zenon DEF Ecma!Arrangements
<1>6. IsArray(array) /\ call.len \in Nat
  BY CallParts DEF IInv
<1> DEFINE w == Rearranged(v, s, call.len)
<1>7. IsArray(array)' /\ Visible(array)' = w
  <2> DEFINE b == SortedInto(array, s, call.len)
  <2>1. IsArray(b) /\ Visible(b) = w
    BY <1>4, <1>6, SortedIs
  <2>2. array' = b
    BY <1>3, Zenon DEF SortedInto
  <2> HIDE DEF b, w
  <2> QED
    BY <2>1, <2>2 DEF IsArray, Visible
<1>8. Ecma!Returns(w, by, <<>>)
  <2> HIDE DEF w
  <2> QED
    BY <1>3, <1>7, Named DEF Ecma!Returns
<1>9. DOMAIN v = 1 .. Len(v)
  BY <1>6, VisibleIs, Fields
<1> HIDE DEF v
<1>10. w = [i \in 1 .. Len(v) |-> IF i <= call.len THEN PutBack(s, call.len)[i] ELSE v[i]]
  BY <1>9, Zenon DEF Rearranged
<1>11. Ecma!Sorts
  BY <1>1, <1>5, <1>8, <1>10, Zenon DEF Ecma!Sorts, PutBack, Orders, Divergences, v
<1> QED
  BY <1>3, <1>7, <1>11, NoCallHolds DEF IInv, Ecma!Next

-----------------------------------------------------------------------------
(* The refinement.                                                         *)

\* Every step is one of the sequence.
LEMMA StepIs ==
    ASSUME IInv, Next
    PROVE  Ecma!Next /\ IInv'
<1>1. CASE js_array_push("push")
  BY <1>1, PushIs
<1>2. CASE js_array_push("unshift")
  BY <1>2, PushIs
<1>3. CASE js_array_pop
  BY <1>3, PopIs
<1>4. CASE js_array_shift
  BY <1>4, ShiftIs
<1>5. CASE js_array_reverse
  BY <1>5, ReverseIs
<1>6. CASE js_array_set_length
  BY <1>6, SetLengthIs
<1>7. CASE JS_SetProperty
  BY <1>7, SetIs
<1>8. CASE js_array_concat
  BY <1>8, ConcatIs
<1>9. CASE ConvertsArgument
  BY <1>9, AsksIs
<1>10. CASE FunctionThrows
  <2>1. call.phase = "callback" /\ Done(Thrown)
    BY <1>10 DEF FunctionThrows
  <2> QED
    BY <2>1, GivesIs
<1>11. CASE js_array_indexOf
  BY <1>11, FindsIs
<1>12. CASE js_array_slice
  BY <1>12, TakesSliceIs
<1>13. CASE js_array_splice
  BY <1>13, SplicesIs
<1>14. CASE Refused
  BY <1>14, RefusedIs
<1>15. CASE StartsLoop
  BY <1>15, StartsLoopIs
<1>16. CASE CallsBack
  BY <1>16, VisitsIs
<1>17. CASE FunctionReturns
  BY <1>17, HearsIs
<1>18. CASE LoopEnds
  BY <1>18, AnswersIs
<1>19. CASE StartsSort
  BY <1>19, StartsSortIs
<1>20. CASE js_array_sort
  BY <1>20, SortsIs
<1> QED
  BY <1>1, <1>2, <1>3, <1>4, <1>5, <1>6, <1>7, <1>8, <1>9, <1>10, <1>11, <1>12, <1>13, <1>14, <1>15,
     <1>16, <1>17, <1>18, <1>19, <1>20 DEF Next

LEMMA NextHolds == IInv /\ [Next]_vars => IInv' /\ [Ecma!Next]_Ecma!vars
<1> SUFFICES ASSUME IInv, [Next]_vars PROVE IInv' /\ [Ecma!Next]_Ecma!vars
  OBVIOUS
<1>1. CASE Next
  BY <1>1, StepIs
<1>2. CASE UNCHANGED vars
  <2>1. array' = array /\ call' = call /\ result' = result
    BY <1>2 DEF vars
  <2>2. Visible(array)' = Visible(array)
    BY <2>1 DEF Visible
  <2> QED
    BY <2>1, <2>2 DEF IInv, Ecma!vars
<1> QED
  BY <1>1, <1>2

\* An array never claims more elements than its table has room for, and what a
\* call holds of it (the length it read, how far its loop is, the elements it
\* sorts) agrees with itself, whatever the function it runs did to the array
\* (js_array_resize, js_array_splice, js_array_every, js_array_sort).
THEOREM TableHoldsArray == Spec => []IInv
<1>1. Init => IInv
  BY InitHolds
<1>2. IInv /\ [Next]_vars => IInv'
  BY NextHolds
<1> QED
  BY <1>1, <1>2, PTL DEF Spec

\* For every set of values and arguments, every limit of elements and edits, and
\* every sort that keeps its contract, the modelled operations on the engine's arrays
\* are those of ECMAScript's sequences, but for what Divergences names: the table,
\* what it keeps of popped elements and when it grows and shrinks are not seen by
\* scripts or by the functions they call back.
THEOREM ArrayIsEcma == Spec => ImplementsArray
<1>1. Init => IInv /\ Ecma!Init
  BY InitHolds
<1>2. IInv /\ [Next]_vars => IInv' /\ [Ecma!Next]_Ecma!vars
  BY NextHolds
<1> QED
  BY <1>1, <1>2, PTL DEF Spec, ImplementsArray, Ecma!Spec
-----------------------------------------------------------------------------
(* Heaps.                                                                  *)

IsChild(c, p) == c = 2 * p + 1 \/ c = 2 * p + 2
AtLeast(o, p, q) == ~Above(o, q, p)

\* The elements from lo up to hi are a heap, but for the element at x.
HeapExcept(o, t, lo, hi, x) ==
    \A p, c \in lo .. hi - 1 : IsChild(c, p) /\ p # x => AtLeast(o, t[p], t[c])
\* What is above x is at least what is below it.
Bridged(o, t, lo, hi, x) ==
    \A p, c \in lo .. hi - 1 : IsChild(x, p) /\ IsChild(c, x) => AtLeast(o, t[p], t[c])
HeapFrom(o, t, lo, hi) == HeapExcept(o, t, lo, hi, -1)

\* The elements from hi are in order, and above all others.
SortedFrom(o, t, hi, n) == \A j, k \in 0 .. n - 1 : j < k /\ hi <= k => Above(o, t[k], t[j])

Table(t, n) == t \in [0 .. n - 1 -> Items] /\ \A j, k \in 0 .. n - 1 : t[j] = t[k] => j = k

SortTypes ==
    /\ nmemb \in Nat /\ Table(given, nmemb) /\ Table(heap, nmemb) /\ order \in Comparisons
    /\ stage \in {"build", "drain", "done"} /\ turn \in Nat /\ sinking \in BOOLEAN /\ node \in Nat
    /\ IF stage = "done" THEN turn = 0 ELSE nmemb > 1 /\ turn < nmemb
    /\ sinking => stage # "done" /\ node < End
Building ==
    stage = "build" =>
        IF sinking THEN turn <= node /\ HeapExcept(order, heap, turn, nmemb, node) /\ Bridged(order, heap, turn, nmemb, node)
                   ELSE HeapFrom(order, heap, turn, nmemb)
Draining ==
    stage = "drain" =>
        IF sinking THEN /\ turn > 0 /\ SortedFrom(order, heap, turn, nmemb)
                        /\ HeapExcept(order, heap, 0, turn, node) /\ Bridged(order, heap, 0, turn, node)
                   ELSE SortedFrom(order, heap, turn + 1, nmemb) /\ HeapFrom(order, heap, 0, turn + 1)
Drained == stage = "done" => SortedFrom(order, heap, 1, nmemb)
SortInv ==
    /\ SortTypes /\ ItemsOf(heap) = ItemsOf(given)
    /\ Consistent(order, ItemsOf(given)) => Building /\ Draining /\ Drained

LEMMA OrderIs ==
    ASSUME NEW o, NEW S, Consistent(o, S), NEW p \in S, NEW q \in S, NEW s \in S
    PROVE  /\ AtLeast(o, p, q) /\ AtLeast(o, q, s) => AtLeast(o, p, s)
           /\ AtLeast(o, p, q) \/ AtLeast(o, q, p)
           /\ AtLeast(o, p, q) <=> p = q \/ Above(o, p, q)
           /\ Above(o, p, q) => AtLeast(o, p, q)
           /\ Above(o, p, q) /\ AtLeast(o, q, s) => Above(o, p, s)
           /\ AtLeast(o, p, p)
<1>1. /\ \A x, y \in S : (x = y \/ Above(o, x, y)) <=> ~Above(o, y, x)
      /\ \A x, y, z \in S : Above(o, x, y) /\ Above(o, y, z) => Above(o, x, z)
  BY Zenon DEF Consistent
<1> QED
  BY <1>1 DEF AtLeast

LEMMA InItems ==
    ASSUME NEW n \in Nat, NEW t, DOMAIN t = 0 .. n - 1
    PROVE  \A k \in 0 .. n - 1 : t[k] \in ItemsOf(t)
  BY DEF ItemsOf

\* In u the elements of t at j and k have changed places.
Exchanged(t, u, n, j, k) ==
    u[j] = t[k] /\ u[k] = t[j] /\ \A i \in 0 .. n - 1 : i # j /\ i # k => u[i] = t[i]

LEMMA SwappedIs ==
    ASSUME NEW n \in Nat, NEW t, Table(t, n), NEW j \in 0 .. n - 1, NEW k \in 0 .. n - 1
    PROVE  /\ Table(Swapped(t, j, k), n) /\ ItemsOf(Swapped(t, j, k)) = ItemsOf(t)
           /\ Exchanged(t, Swapped(t, j, k), n, j, k)
<1> DEFINE u == Swapped(t, j, k)
<1>0. u = [t EXCEPT ![j] = t[k], ![k] = t[j]]
  BY DEF Swapped
<1> HIDE DEF u
<1>1. DOMAIN t = 0 .. n - 1 /\ \A i \in 0 .. n - 1 : t[i] \in Items
  BY DEF Table
<1>2. DOMAIN u = 0 .. n - 1 /\ u \in [0 .. n - 1 -> Items]
  BY <1>0, <1>1 DEF Table
<1>3. u[j] = t[k] /\ u[k] = t[j] /\ \A i \in 0 .. n - 1 : i # j /\ i # k => u[i] = t[i]
  BY <1>0, <1>1 DEF Table
<1>4. \A a, b \in 0 .. n - 1 : u[a] = u[b] => a = b
  BY <1>3 DEF Table
<1>5. ItemsOf(u) = ItemsOf(t)
  <2>1. ASSUME NEW i \in 0 .. n - 1 PROVE t[i] \in {u[a] : a \in 0 .. n - 1}
    <3>1. \E a \in 0 .. n - 1 : u[a] = t[i]
      BY <1>3
    <3> QED
      BY <3>1, Zenon
  <2>2. ASSUME NEW i \in 0 .. n - 1 PROVE u[i] \in {t[a] : a \in 0 .. n - 1}
    <3>1. \E a \in 0 .. n - 1 : t[a] = u[i]
      BY <1>3
    <3> QED
      BY <3>1, Zenon
  <2>3. ItemsOf(u) = {u[i] : i \in 0 .. n - 1} /\ ItemsOf(t) = {t[i] : i \in 0 .. n - 1}
    BY <1>1, <1>2, Zenon DEF ItemsOf
  <2> QED
    <3>1. ASSUME NEW x \in {u[i] : i \in 0 .. n - 1} PROVE x \in {t[i] : i \in 0 .. n - 1}
      BY <2>2, Zenon
    <3>2. ASSUME NEW x \in {t[i] : i \in 0 .. n - 1} PROVE x \in {u[i] : i \in 0 .. n - 1}
      BY <2>1, Zenon
    <3> QED
      BY <2>3, <3>1, <3>2, Zenon
<1> QED
  BY <1>2, <1>3, <1>4, <1>5 DEF Table, Exchanged, u

\* The largest element of a heap is its root: take the first that is larger.
LEMMA RootIsLargest ==
    ASSUME NEW o, NEW n \in Nat, NEW t, Table(t, n), Consistent(o, ItemsOf(t)),
           NEW hi \in 0 .. n, HeapFrom(o, t, 0, hi)
    PROVE  \A k \in 0 .. hi - 1 : AtLeast(o, t[0], t[k])
<1> DEFINE S == {k \in 0 .. hi - 1 : ~AtLeast(o, t[0], t[k])}
<1> SUFFICES ASSUME S # {} PROVE FALSE
  OBVIOUS
<1>1. PICK i \in S : \A j \in S : ~(j < i)
  <2>1. IsWellFoundedOn(OpToRel(<, Nat), Nat)
    BY NatLessThanWellFounded
  <2>2. S \in SUBSET Nat /\ S # {}
    OBVIOUS
  <2>3. PICK i \in S : \A j \in S : ~(<<j, i>> \in OpToRel(<, Nat))
    BY <2>1, <2>2, WFMin
  <2> QED
    BY <2>2, <2>3, Zenon DEF OpToRel
<1>2. \A k \in 0 .. n - 1 : t[k] \in ItemsOf(t)
  BY InItems DEF Table
<1>3. i \in 0 .. hi - 1 /\ ~AtLeast(o, t[0], t[i])
  OBVIOUS
<1>4. i # 0
  BY <1>2, <1>3, OrderIs
<1>5. PICK p \in 0 .. hi - 1 : p < i /\ IsChild(i, p)
  <2>1. (i - 1) \div 2 \in 0 .. hi - 1 /\ (i - 1) \div 2 < i /\ IsChild(i, (i - 1) \div 2)
    BY <1>3, <1>4 DEF IsChild
  <2> QED
    BY <2>1
<1>6. AtLeast(o, t[p], t[i])
  BY <1>3, <1>5 DEF HeapFrom, HeapExcept
<1>7. AtLeast(o, t[0], t[p])
  BY <1>1, <1>5
<1>8. t[0] \in ItemsOf(t) /\ t[p] \in ItemsOf(t) /\ t[i] \in ItemsOf(t)
  BY <1>2, <1>3, <1>5
<1> QED
  BY <1>3, <1>6, <1>7, <1>8, OrderIs

-----------------------------------------------------------------------------
(* One element sinks.                                                      *)

LEMMA StaysIs ==
    ASSUME NEW o, NEW n \in Nat, NEW t, Table(t, n), Consistent(o, ItemsOf(t)),
           NEW lo \in Nat, NEW hi \in 0 .. n, NEW x \in lo .. hi - 1, HeapExcept(o, t, lo, hi, x),
           \A c \in lo .. hi - 1 : IsChild(c, x) => AtLeast(o, t[x], t[c])
    PROVE  HeapFrom(o, t, lo, hi)
  BY DEF HeapFrom, HeapExcept

LEMMA SinksIs ==
    ASSUME NEW o, NEW n \in Nat, NEW t, Table(t, n), Consistent(o, ItemsOf(t)),
           NEW lo \in Nat, NEW hi \in 0 .. n, NEW x \in lo .. hi - 1,
           HeapExcept(o, t, lo, hi, x), Bridged(o, t, lo, hi, x),
           NEW d \in lo .. hi - 1, IsChild(d, x), AtLeast(o, t[d], t[x]),
           \A c \in lo .. hi - 1 : IsChild(c, x) => AtLeast(o, t[d], t[c]),
           NEW u, Exchanged(t, u, n, x, d)
    PROVE  HeapExcept(o, u, lo, hi, d) /\ Bridged(o, u, lo, hi, d)
<1>1. u[x] = t[d] /\ u[d] = t[x] /\ \A i \in 0 .. n - 1 : i # x /\ i # d => u[i] = t[i]
  BY DEF Exchanged
<1>2. ASSUME NEW p \in lo .. hi - 1, NEW c \in lo .. hi - 1, IsChild(c, p), p # d
      PROVE  AtLeast(o, u[p], u[c])
  <2>1. CASE p = x /\ c = d
    BY <1>1, <2>1
  <2>2. CASE p = x /\ c # d
    BY <1>1, <1>2, <2>2 DEF IsChild
  <2>3. CASE p # x /\ c = x
    <3>1. AtLeast(o, t[p], t[d])
      BY <1>2, <2>3 DEF Bridged
    <3> QED
      BY <1>1, <1>2, <2>3, <3>1
  <2>4. CASE p # x /\ c # x
    <3>1. c # d
      BY <1>2, <2>4 DEF IsChild
    <3>2. AtLeast(o, t[p], t[c])
      BY <1>2, <2>4 DEF HeapExcept
    <3> QED
      BY <1>1, <1>2, <2>4, <3>1, <3>2
  <2> QED
    BY <2>1, <2>2, <2>3, <2>4
<1>3. ASSUME NEW p \in lo .. hi - 1, NEW c \in lo .. hi - 1, IsChild(d, p), IsChild(c, d)
      PROVE  AtLeast(o, u[p], u[c])
  <2>1. p = x /\ c # x /\ c # d /\ d # x
    BY <1>3 DEF IsChild
  <2>2. AtLeast(o, t[d], t[c])
    BY <1>3, <2>1 DEF HeapExcept
  <2> QED
    BY <1>1, <2>1, <2>2
<1> QED
  BY <1>2, <1>3 DEF HeapExcept, Bridged

\* What is below hi changes places there: what is behind hi stays above it.
LEMMA StaySorted ==
    ASSUME NEW o, NEW n \in Nat, NEW t, Table(t, n), NEW hi \in 0 .. n, SortedFrom(o, t, hi, n),
           NEW x \in 0 .. hi - 1, NEW d \in 0 .. hi - 1,
           NEW u, Exchanged(t, u, n, x, d)
    PROVE  SortedFrom(o, u, hi, n)
<1>1. u[x] = t[d] /\ u[d] = t[x] /\ \A i \in 0 .. n - 1 : i # x /\ i # d => u[i] = t[i]
  BY DEF Exchanged
<1>2. ASSUME NEW j \in 0 .. n - 1, NEW k \in 0 .. n - 1, j < k, hi <= k PROVE Above(o, u[k], u[j])
  <2>1. u[k] = t[k]
    BY <1>1, <1>2
  <2>2. PICK i \in 0 .. n - 1 : u[j] = t[i] /\ i < k
    BY <1>1, <1>2
  <2> QED
    BY <1>2, <2>1, <2>2 DEF SortedFrom
<1> QED
  BY <1>2 DEF SortedFrom

\* A subtree whose root is next has only that to be put right.
LEMMA NextSubtree ==
    ASSUME NEW o, NEW n \in Nat, NEW t, NEW lo \in 1 .. n, HeapFrom(o, t, lo, n)
    PROVE  HeapExcept(o, t, lo - 1, n, lo - 1) /\ Bridged(o, t, lo - 1, n, lo - 1)
  BY DEF HeapFrom, HeapExcept, Bridged, IsChild

LEMMA RootTaken ==
    ASSUME NEW o, NEW n \in Nat, NEW t, Table(t, n), Consistent(o, ItemsOf(t)),
           NEW m \in 1 .. n - 1, HeapFrom(o, t, 0, m + 1), SortedFrom(o, t, m + 1, n),
           NEW u, Exchanged(t, u, n, 0, m)
    PROVE  HeapExcept(o, u, 0, m, 0) /\ Bridged(o, u, 0, m, 0) /\ SortedFrom(o, u, m, n)
<1>0. m + 1 \in 0 .. n /\ (m + 1) - 1 = m
  OBVIOUS
<1>1. u[0] = t[m] /\ u[m] = t[0] /\ \A i \in 0 .. n - 1 : i # 0 /\ i # m => u[i] = t[i]
  BY DEF Exchanged
<1>2. \A k \in 0 .. (m + 1) - 1 : AtLeast(o, t[0], t[k])
  BY <1>0, RootIsLargest, Zenon
<1>3. \A k \in 1 .. m : Above(o, t[0], t[k])
  <2>1. ASSUME NEW k \in 1 .. m PROVE Above(o, t[0], t[k])
    <3>1. t[0] # t[k] /\ AtLeast(o, t[0], t[k])
      BY <1>2 DEF Table
    <3>2. t[0] \in ItemsOf(t) /\ t[k] \in ItemsOf(t)
      BY InItems DEF Table
    <3> QED
      BY <3>1, <3>2, OrderIs
  <2> QED
    BY <2>1
<1>4. HeapExcept(o, u, 0, m, 0)
  <2>1. ASSUME NEW p \in 0 .. m - 1, NEW c \in 0 .. m - 1, IsChild(c, p), p # 0
        PROVE  AtLeast(o, u[p], u[c])
    <3>1. AtLeast(o, t[p], t[c])
      BY <2>1 DEF HeapFrom, HeapExcept
    <3>2. c # 0 /\ c # m /\ p # m
      BY <2>1 DEF IsChild
    <3> QED
      BY <1>1, <2>1, <3>1, <3>2
  <2> QED
    BY <2>1 DEF HeapExcept
<1>5. Bridged(o, u, 0, m, 0)
  BY DEF Bridged, IsChild
<1>6. ASSUME NEW j \in 0 .. n - 1, NEW k \in 0 .. n - 1, j < k, m <= k PROVE Above(o, u[k], u[j])
  <2>1. CASE k = m
    <3>1. u[k] = t[0] /\ u[j] = t[IF j = 0 THEN m ELSE j]
      BY <1>1, <1>6, <2>1
    <3> QED
      BY <1>3, <1>6, <2>1, <3>1
  <2>2. CASE k # m
    <3>1. u[k] = t[k]
      BY <1>1, <1>6, <2>2
    <3>2. PICK i \in 0 .. n - 1 : u[j] = t[i] /\ i < k
      BY <1>1, <1>6, <2>2
    <3> QED
      BY <1>6, <2>2, <3>1, <3>2 DEF SortedFrom
  <2> QED
    BY <2>1, <2>2
<1> QED
  BY <1>4, <1>5, <1>6 DEF SortedFrom

-----------------------------------------------------------------------------
(* The invariant.                                                          *)

LEMMA SortInitHolds == SortInit => SortInv
<1> SUFFICES ASSUME SortInit PROVE SortInv
  OBVIOUS
<1>1. nmemb \in Nat /\ Table(given, nmemb)
  <2>1. given \in Tables
    BY DEF SortInit
  <2>2. nmemb \in Nat
    BY <2>1, TablesAssumption, FS_CardinalityType DEF nmemb
  <2>3. DOMAIN given = 0 .. nmemb - 1
    BY <2>1, TablesAssumption DEF nmemb
  <2> QED
    BY <2>1, <2>2, <2>3, TablesAssumption DEF nmemb, Table
<1>2. SortTypes
  <2>1. nmemb \div 2 \in Nat /\ IF nmemb > 1 THEN nmemb \div 2 < nmemb ELSE nmemb \div 2 = 0
    BY <1>1
  <2>2. /\ sinking = FALSE /\ node = 0 /\ turn \in Nat
        /\ IF stage = "done" THEN turn = 0 ELSE nmemb > 1 /\ turn < nmemb
    BY <2>1 DEF SortInit
  <2>3. stage \in {"build", "drain", "done"} /\ order \in Comparisons /\ heap = given
    BY DEF SortInit
  <2> QED
    BY <1>1, <2>2, <2>3 DEF SortTypes
<1>3. stage = "build" => HeapFrom(order, heap, turn, nmemb)
  BY <1>1 DEF SortInit, HeapFrom, HeapExcept, IsChild
<1>4. stage = "done" => SortedFrom(order, heap, 1, nmemb)
  BY <1>1 DEF SortInit, SortedFrom
<1>5. ~sinking /\ stage # "drain" /\ heap = given
  BY DEF SortInit
<1> QED
  BY <1>2, <1>3, <1>4, <1>5 DEF SortInv, Building, Draining, Drained

LEMMA SortFacts ==
    ASSUME SortInv
    PROVE  /\ nmemb \in Nat /\ Table(heap, nmemb) /\ turn \in Nat /\ node \in Nat /\ sinking \in BOOLEAN
           /\ stage # "done" => nmemb > 1 /\ turn < nmemb
           /\ ItemsOf(heap) = ItemsOf(given) /\ End \in 0 .. nmemb
           /\ sinking => stage # "done" /\ node < End
           /\ Consistent(order, ItemsOf(given)) => Building /\ Draining /\ Drained
<1>1. SortTypes /\ ItemsOf(heap) = ItemsOf(given)
  BY DEF SortInv
<1>2. CASE stage = "done"
  BY <1>1, <1>2 DEF SortInv, SortTypes, End
<1>3. CASE stage # "done"
  <2>1. nmemb \in Nat /\ turn \in Nat /\ turn < nmemb
    BY <1>1, <1>3 DEF SortTypes
  <2>2. End \in 0 .. nmemb
    BY <2>1 DEF End
  <2> QED
    BY <1>1, <1>3, <2>2 DEF SortInv, SortTypes
<1> QED
  BY <1>2, <1>3

LEMMA SinksNextHolds == SortInv /\ SinksNext => SortInv'
<1> SUFFICES ASSUME SortInv, SinksNext PROVE SortInv'
  OBVIOUS
<1>1. nmemb' = nmemb /\ heap' = heap /\ order' = order /\ given' = given
  BY DEF SinksNext, nmemb
<1>2. SortTypes'
  BY <1>1, SortFacts DEF SortInv, SortTypes, SinksNext, End
<1>3. ASSUME Consistent(order, ItemsOf(given)) PROVE Building' /\ Draining' /\ Drained'
  <2>1. HeapFrom(order, heap, turn, nmemb) /\ turn \in 1 .. nmemb
    BY <1>3, SortFacts DEF SinksNext, Building
  <2>2. HeapExcept(order, heap, turn - 1, nmemb, turn - 1) /\ Bridged(order, heap, turn - 1, nmemb, turn - 1)
    BY <2>1, SortFacts, NextSubtree
  <2> QED
    BY <1>1, <2>2, SortFacts DEF SinksNext, Building, Draining, Drained
<1> QED
  BY <1>1, <1>2, <1>3, SortFacts DEF SortInv

LEMMA IsBuiltHolds == SortInv /\ IsBuilt => SortInv'
<1> SUFFICES ASSUME SortInv, IsBuilt PROVE SortInv'
  OBVIOUS
<1>1. nmemb' = nmemb /\ heap' = heap /\ order' = order /\ given' = given
  BY DEF IsBuilt, nmemb
<1>2. SortTypes'
  BY <1>1, SortFacts DEF SortInv, SortTypes, IsBuilt, End
<1>3. ASSUME Consistent(order, ItemsOf(given)) PROVE Building' /\ Draining' /\ Drained'
  <2>1. HeapFrom(order, heap, 0, nmemb) /\ turn' + 1 = nmemb
    BY <1>3, SortFacts DEF IsBuilt, Building
  <2>2. SortedFrom(order, heap, nmemb, nmemb)
    BY SortFacts DEF SortedFrom
  <2> QED
    BY <1>1, <2>1, <2>2, SortFacts DEF IsBuilt, Building, Draining, Drained
<1> QED
  BY <1>1, <1>2, <1>3, SortFacts DEF SortInv

LEMMA TakesRootHolds == SortInv /\ TakesRoot => SortInv'
<1> SUFFICES ASSUME SortInv, TakesRoot PROVE SortInv'
  OBVIOUS
<1>1. nmemb' = nmemb /\ order' = order /\ given' = given
  BY DEF TakesRoot, nmemb
<1>2. turn \in 1 .. nmemb - 1 /\ turn \in 0 .. nmemb - 1 /\ 0 \in 0 .. nmemb - 1
  BY SortFacts DEF TakesRoot
<1>3. Table(heap', nmemb) /\ ItemsOf(heap') = ItemsOf(heap) /\ Exchanged(heap, heap', nmemb, 0, turn)
  <2>1. heap' = Swapped(heap, 0, turn)
    BY DEF TakesRoot
  <2>2. nmemb \in Nat /\ Table(heap, nmemb)
    BY SortFacts
  <2> QED
    BY <1>2, <2>1, <2>2, SwappedIs, Zenon
<1>4. SortTypes'
  BY <1>1, <1>2, <1>3, SortFacts DEF SortInv, SortTypes, TakesRoot, End
<1>5. ASSUME Consistent(order, ItemsOf(given)) PROVE Building' /\ Draining' /\ Drained'
  <2>1. HeapFrom(order, heap, 0, turn + 1) /\ SortedFrom(order, heap, turn + 1, nmemb)
    BY <1>5, SortFacts DEF TakesRoot, Draining
  <2>2. /\ HeapExcept(order, heap', 0, turn, 0) /\ Bridged(order, heap', 0, turn, 0)
        /\ SortedFrom(order, heap', turn, nmemb)
    BY <1>2, <1>3, <1>5, <2>1, SortFacts, RootTaken
  <2> QED
    BY <1>1, <1>2, <2>2 DEF TakesRoot, Building, Draining, Drained
<1> QED
  BY <1>1, <1>3, <1>4, <1>5, SortFacts DEF SortInv

LEMMA IsDrainedHolds == SortInv /\ IsDrained => SortInv'
<1> SUFFICES ASSUME SortInv, IsDrained PROVE SortInv'
  OBVIOUS
<1>1. nmemb' = nmemb /\ heap' = heap /\ order' = order /\ given' = given
  BY DEF IsDrained, nmemb
<1>2. SortTypes'
  BY <1>1, SortFacts DEF SortInv, SortTypes, IsDrained, End
<1>3. ASSUME Consistent(order, ItemsOf(given)) PROVE Building' /\ Draining' /\ Drained'
  <2>1. SortedFrom(order, heap, 1, nmemb)
    BY <1>3, SortFacts DEF IsDrained, Draining
  <2> QED
    BY <1>1, <2>1 DEF IsDrained, Building, Draining, Drained
<1> QED
  BY <1>1, <1>2, <1>3, SortFacts DEF SortInv

\* The child that node is compared with is one of its children, and no smaller than the other.
LEMMA LargerChildIs ==
    ASSUME SortInv, sinking, Child < End
    PROVE  /\ LargerChild(Child) \in node + 1 .. End - 1 /\ IsChild(LargerChild(Child), node)
           /\ Consistent(order, ItemsOf(given)) =>
                  \A c \in 0 .. End - 1 : IsChild(c, node) => AtLeast(order, heap[LargerChild(Child)], heap[c])
<1> DEFINE d == LargerChild(Child)
<1>1. node \in Nat /\ End \in Nat /\ Child = 2 * node + 1
  BY SortFacts DEF Child
<1>2. d \in node + 1 .. End - 1 /\ IsChild(d, node)
  BY <1>1 DEF LargerChild, IsChild
<1>3. ASSUME Consistent(order, ItemsOf(given)), NEW c \in 0 .. End - 1, IsChild(c, node)
      PROVE  AtLeast(order, heap[d], heap[c])
  <2>1. \A k \in 0 .. nmemb - 1 : heap[k] \in ItemsOf(given)
    BY SortFacts, InItems DEF Table
  <2>2. CASE c = d
    BY <1>3, <2>1, <2>2, SortFacts, OrderIs
  <2>3. CASE d = Child /\ c = Child + 1
    <3>1. Above(order, heap[Child], heap[Child + 1])
      BY <1>1, <1>3, <2>3 DEF LargerChild
    <3>2. heap[d] \in ItemsOf(given) /\ heap[c] \in ItemsOf(given)
      BY <1>1, <1>2, <1>3, <2>1, SortFacts
    <3> QED
      BY <1>3, <2>3, <3>1, <3>2, OrderIs
  <2>4. CASE d = Child + 1 /\ c = Child
    <3>1. ~Above(order, heap[Child], heap[Child + 1])
      BY <1>1, <2>4 DEF LargerChild
    <3> QED
      BY <2>4, <3>1 DEF AtLeast
  <2>5. c \in {Child, Child + 1} /\ d \in {Child, Child + 1}
    BY <1>1, <1>2, <1>3 DEF IsChild
  <2> QED
    BY <2>2, <2>3, <2>4, <2>5
<1> QED
  BY <1>2, <1>3

LEMMA SinksHolds == SortInv /\ Sinks => SortInv'
<1> SUFFICES ASSUME SortInv, Sinks PROVE SortInv'
  OBVIOUS
<1> DEFINE d == LargerChild(Child)
           lo == IF stage = "build" THEN turn ELSE 0
<1>1. nmemb' = nmemb /\ order' = order /\ given' = given /\ End' = End
  BY DEF Sinks, nmemb, End
<1>2. d \in node + 1 .. End - 1 /\ IsChild(d, node)
  BY LargerChildIs DEF Sinks
<1>3. stage \in {"build", "drain"} /\ node' = d /\ heap' = Swapped(heap, node, d) /\ sinking /\ sinking'
  BY SortFacts DEF Sinks, SortInv, SortTypes
<1> HIDE DEF d
<1>4. node \in 0 .. nmemb - 1 /\ d \in 0 .. nmemb - 1 /\ nmemb \in Nat /\ d \in Nat /\ d < End
  BY <1>2, <1>3, SortFacts
<1>5. Table(heap', nmemb) /\ ItemsOf(heap') = ItemsOf(heap) /\ Exchanged(heap, heap', nmemb, node, d)
  <2>1. heap' = Swapped(heap, node, d)
    BY <1>3
  <2>2. Table(heap, nmemb)
    BY SortFacts
  <2> QED
    BY <1>4, <2>1, <2>2, SwappedIs, Zenon
<1>6. SortTypes'
  BY <1>1, <1>3, <1>4, <1>5, SortFacts DEF SortInv, SortTypes, Sinks
<1>7. ASSUME Consistent(order, ItemsOf(given)) PROVE Building' /\ Draining' /\ Drained'
  <2>1. HeapExcept(order, heap, lo, End, node) /\ Bridged(order, heap, lo, End, node) /\ lo <= node
    BY <1>3, <1>7, SortFacts DEF Building, Draining, End
  <2>2. lo \in Nat /\ node \in lo .. End - 1 /\ d \in lo .. End - 1 /\ lo <= d
    BY <1>2, <1>3, <2>1, SortFacts
  <2>3. AtLeast(order, heap[d], heap[node])
    BY DEF Sinks, AtLeast, d
  <2>4. \A c \in lo .. End - 1 : IsChild(c, node) => AtLeast(order, heap[d], heap[c])
    <3>1. \A c \in 0 .. End - 1 : IsChild(c, node) => AtLeast(order, heap[d], heap[c])
      BY <1>7, LargerChildIs DEF Sinks, d
    <3> QED
      BY <2>2, <3>1, SortFacts
  <2> HIDE DEF lo
  <2>5. HeapExcept(order, heap', lo, End, d) /\ Bridged(order, heap', lo, End, d)
    BY <1>2, <1>4, <1>5, <1>7, <2>1, <2>2, <2>3, <2>4, SortFacts, SinksIs
  <2>6. CASE stage = "build"
    BY <1>1, <1>3, <2>2, <2>5, <2>6 DEF Sinks, Building, Draining, Drained, End, lo
  <2>7. CASE stage = "drain"
    <3>1. SortedFrom(order, heap, End, nmemb) /\ turn > 0 /\ End = turn
      BY <1>3, <1>7, <2>7, SortFacts DEF Draining, End
    <3>2. node \in 0 .. End - 1 /\ d \in 0 .. End - 1
      BY <2>2
    <3>3. SortedFrom(order, heap', End, nmemb)
      BY <1>4, <1>5, <3>1, <3>2, SortFacts, StaySorted
    <3> QED
      BY <1>1, <1>3, <2>5, <2>7, <3>1, <3>3 DEF Sinks, Building, Draining, Drained, lo
  <2> QED
    BY <1>3, <2>6, <2>7
<1> QED
  BY <1>1, <1>5, <1>6, <1>7, SortFacts DEF SortInv

LEMMA StaysHolds == SortInv /\ Stays => SortInv'
<1> SUFFICES ASSUME SortInv, Stays PROVE SortInv'
  OBVIOUS
<1> DEFINE lo == IF stage = "build" THEN turn ELSE 0
<1>1. nmemb' = nmemb /\ heap' = heap /\ order' = order /\ given' = given /\ stage' = stage /\ ~sinking'
  BY DEF Stays, Rests, nmemb
<1>2. stage \in {"build", "drain"} /\ sinking /\ node < End
  BY SortFacts DEF Stays, SortInv, SortTypes
<1>3. SortTypes'
  <2>1. CASE stage = "build"
    BY <1>1, <2>1, SortFacts DEF SortInv, SortTypes, Stays, Rests, End
  <2>2. CASE stage = "drain"
    <3>1. turn > 0 /\ turn' = turn - 1 /\ turn \in Nat
      BY <1>2, <2>2, SortFacts DEF Stays, Rests, End
    <3> QED
      <4>1. node \in Nat /\ stage' = "drain" /\ sinking' = FALSE /\ node' = node
        BY <1>1, <2>2, SortFacts DEF Stays, Rests
      <4>2. turn' \in Nat /\ turn' < nmemb /\ nmemb > 1
        BY <2>2, <3>1, SortFacts
      <4> QED
        BY <1>1, <4>1, <4>2 DEF SortInv, SortTypes
  <2> QED
    BY <1>2, <2>1, <2>2
<1>4. ASSUME Consistent(order, ItemsOf(given)) PROVE Building' /\ Draining' /\ Drained'
  <2>1. HeapExcept(order, heap, lo, End, node) /\ lo <= node
    BY <1>2, <1>4, SortFacts DEF Building, Draining, End
  <2>2. lo \in Nat /\ node \in lo .. End - 1
    BY <1>2, <2>1, SortFacts
  <2>3. ASSUME NEW c \in lo .. End - 1, IsChild(c, node) PROVE AtLeast(order, heap[node], heap[c])
    <3> DEFINE d == LargerChild(Child)
    <3>1. Child < End
      BY <2>2, <2>3, SortFacts DEF IsChild, Child
    <3>2. Above(order, heap[node], heap[d])
      BY <3>1 DEF Stays
    <3>3. c \in 0 .. End - 1 /\ d \in node + 1 .. End - 1
      BY <1>2, <2>2, <3>1, LargerChildIs
    <3>4. AtLeast(order, heap[d], heap[c])
      BY <1>2, <1>4, <2>3, <3>1, <3>3, LargerChildIs
    <3> HIDE DEF d
    <3>5. heap[node] \in ItemsOf(given) /\ heap[d] \in ItemsOf(given) /\ heap[c] \in ItemsOf(given)
      BY <2>2, <3>3, SortFacts, InItems DEF Table
    <3> QED
      BY <1>4, <3>2, <3>4, <3>5, OrderIs
  <2> HIDE DEF lo
  <2>4. HeapFrom(order, heap, lo, End)
    BY <1>4, <2>1, <2>2, <2>3, SortFacts, StaysIs
  <2>5. CASE stage = "build"
    BY <1>1, <2>4, <2>5 DEF Stays, Rests, Building, Draining, Drained, End, lo
  <2>6. CASE stage = "drain"
    <3>1. SortedFrom(order, heap, turn, nmemb) /\ turn' + 1 = turn
      BY <1>2, <1>4, <2>6, SortFacts DEF Stays, Rests, Draining
    <3> QED
      BY <1>1, <2>4, <2>6, <3>1 DEF Building, Draining, Drained, End, lo
  <2> QED
    BY <1>2, <2>5, <2>6
<1> QED
  BY <1>1, <1>3, <1>4, SortFacts DEF SortInv

LEMMA SortNextHolds == SortInv /\ [SortNext]_sortVars => SortInv'
<1>1. CASE UNCHANGED sortVars
  BY <1>1 DEF sortVars, SortInv, SortTypes, Building, Draining, Drained, End, nmemb
<1> QED
  BY <1>1, SinksNextHolds, IsBuiltHolds, TakesRootHolds, IsDrainedHolds, SinksHolds, StaysHolds DEF SortNext

\* What the heap sort ends with is what it was given, in order.
THEOREM SortIsStable == SortSpec => []SortsStably
<1>1. SortInv => SortsStably
  <2> SUFFICES ASSUME SortInv, stage = "done"
               PROVE  /\ DOMAIN heap = DOMAIN given /\ ItemsOf(heap) = ItemsOf(given)
                      /\ Consistent(order, ItemsOf(given)) =>
                             \A k \in 0 .. nmemb - 2 : Above(order, heap[k + 1], heap[k])
    BY DEF SortsStably
  <2>1. DOMAIN heap = DOMAIN given /\ ItemsOf(heap) = ItemsOf(given)
    BY DEF SortInv, SortTypes, Table
  <2>2. ASSUME Consistent(order, ItemsOf(given)), NEW k \in 0 .. nmemb - 2
        PROVE  Above(order, heap[k + 1], heap[k])
    <3>1. SortedFrom(order, heap, 1, nmemb)
      BY <2>2, SortFacts DEF Drained
    <3>2. k \in 0 .. nmemb - 1 /\ k + 1 \in 0 .. nmemb - 1 /\ k < k + 1 /\ 1 <= k + 1
      BY SortFacts
    <3> QED
      BY <3>1, <3>2 DEF SortedFrom
  <2> QED
    BY <2>1, <2>2
<1> QED
  BY <1>1, SortInitHolds, SortNextHolds, PTL DEF SortSpec

-----------------------------------------------------------------------------
(* The comparison of js_array_sort orders what it sorts, so that what the  *)
(* heap sort does is what JsArray relies on.                               *)

KeyOf(by, p) == IF by = "value" THEN p[1] ELSE p[1] % 2

LEMMA SortCmpSigns ==
    ASSUME NEW by \in {"value", "parity"}, NEW p \in Values \X Nat, NEW q \in Values \X Nat
    PROVE  /\ KeyOf(by, p) \in Int /\ p[2] \in Int
           /\ SortCmp(by, p, q) > 0 <=> KeyOf(by, p) > KeyOf(by, q) \/ (KeyOf(by, p) = KeyOf(by, q) /\ p[2] > q[2])
           /\ SortCmp(by, p, q) < 0 <=> KeyOf(by, p) < KeyOf(by, q) \/ (KeyOf(by, p) = KeyOf(by, q) /\ p[2] < q[2])
<1> DEFINE x == KeyOf(by, p)
           y == KeyOf(by, q)
<1>1. p[1] \in Int /\ q[1] \in Int /\ p[2] \in Int /\ q[2] \in Int
  <2>1. p[1] \in Values /\ q[1] \in Values /\ p[2] \in Nat /\ q[2] \in Nat
    OBVIOUS
  <2> QED
    BY <2>1, Limits DEF Elements
<1>2. x \in Int /\ y \in Int
  BY <1>1 DEF KeyOf
<1>3. SortCmp(by, p, q) = IF SignOf(x - y) # 0 THEN SignOf(x - y) ELSE SignOf(p[2] - q[2])
  BY DEF SortCmp, KeyOf
<1> HIDE DEF x, y
<1> QED
  BY <1>1, <1>2, <1>3 DEF SignOf, x, y

\* Elements with places of their own.
Placed(p) == p \in Seq(Values \X Nat) /\ \A j, k \in DOMAIN p : p[j][2] = p[k][2] => j = k

LEMMA SortCmpOrders ==
    ASSUME NEW p, Placed(p), NEW by \in {"value", "parity"},
           \A q, r \in ToSet(p) : Cmp(by, q, r) = SortCmp(by, q, r)
    PROVE  Consistent(by, ToSet(p))
<1>1. \A q \in ToSet(p) : q \in Values \X Nat
  BY DEF Placed, ToSet
<1>2. \A q, r \in ToSet(p) : q[2] = r[2] => q = r
  BY DEF Placed, ToSet
<1>3. \A q, r \in ToSet(p) :
          Above(by, q, r) <=> KeyOf(by, q) > KeyOf(by, r) \/ (KeyOf(by, q) = KeyOf(by, r) /\ q[2] > r[2])
  BY <1>1, SortCmpSigns DEF Above
<1>4. \A q \in ToSet(p) : KeyOf(by, q) \in Int /\ q[2] \in Int
  BY <1>1, SortCmpSigns
<1>5. ASSUME NEW q \in ToSet(p), NEW r \in ToSet(p) PROVE (q = r \/ Above(by, q, r)) <=> ~Above(by, r, q)
  BY <1>2, <1>3, <1>4
<1>6. ASSUME NEW q \in ToSet(p), NEW r \in ToSet(p), NEW s \in ToSet(p), Above(by, q, r), Above(by, r, s)
      PROVE  Above(by, q, s)
  BY <1>3, <1>4, <1>6
<1> QED
  BY <1>5, <1>6 DEF Consistent

\* The table with the elements p, from index 0, as the heap sort is given it.
TableOf(p) == [k \in 0 .. Len(p) - 1 |-> p[k + 1]]
ListOf(t, n) == [k \in 1 .. n |-> t[k - 1]]

\* js_array_sort relies on what rqsort_idx does: whatever a heap sort by the
\* comparisons of js_array_sort ends with is a sort of what it was given.
THEOREM HeapSortKeepsContract ==
    ASSUME NEW p, Placed(p), given = TableOf(p), order \in Orders,
           \A q, r \in ToSet(p) : Cmp(order, q, r) = SortCmp(order, q, r),
           SortsStably, stage = "done"
    PROVE  IsSortOf(order, p, ListOf(heap, Len(p)))
<1> DEFINE n == Len(p)
           t == ListOf(heap, n)
<1>1. n \in Nat /\ DOMAIN p = 1 .. n /\ p \in Seq(Values \X Nat)
  BY LenProperties DEF Placed
<1>2. DOMAIN given = 0 .. n - 1 /\ \A k \in 0 .. n - 1 : given[k] = p[k + 1]
  BY DEF TableOf
<1>3. nmemb = n
  <2>1. Cardinality(0 .. n - 1) = n
    BY <1>1, FS_Interval
  <2> QED
    BY <1>2, <2>1 DEF nmemb
<1>4. DOMAIN heap = 0 .. n - 1 /\ ItemsOf(heap) = ItemsOf(given)
  BY <1>2 DEF SortsStably
<1> HIDE DEF n
<1>5. ItemsOf(given) = ToSet(p)
  <2>1. ASSUME NEW x \in ItemsOf(given) PROVE x \in ToSet(p)
    <3>1. PICK k \in 0 .. n - 1 : x = given[k]
      BY <1>2, Zenon DEF ItemsOf
    <3>2. k + 1 \in 1 .. n /\ p[k + 1] = x
      BY <1>1, <1>2, <3>1
    <3> QED
      BY <1>1, <3>2, Zenon DEF ToSet
  <2>2. ASSUME NEW x \in ToSet(p) PROVE x \in ItemsOf(given)
    <3>1. PICK k \in 1 .. n : x = p[k]
      BY <1>1 DEF ToSet
    <3>2. k - 1 \in 0 .. n - 1 /\ given[k - 1] = x
      BY <1>1, <1>2, <3>1
    <3> QED
      BY <1>2, <3>2 DEF ItemsOf
  <2> QED
    BY <2>1, <2>2
<1>6. t = [k \in 1 .. n |-> heap[k - 1]] /\ DOMAIN t = 1 .. n /\ \A k \in 1 .. n : t[k] = heap[k - 1]
  BY DEF ListOf
<1> HIDE DEF t
<1>7. \A k \in 1 .. n : t[k] \in ToSet(p)
  <2>1. ASSUME NEW k \in 1 .. n PROVE t[k] \in ToSet(p)
    <3>1. k - 1 \in DOMAIN heap
      BY <1>1, <1>4
    <3> QED
      BY <1>4, <1>5, <1>6, <3>1 DEF ItemsOf
  <2> QED
    BY <2>1
<1>8. ToSet(p) \subseteq Values \X Nat
  BY DEF Placed, ToSet
<1>9. t \in [DOMAIN p -> ToSet(p)] /\ t \in Seq(Values \X Nat) /\ Len(t) = n
  <2>1. t \in [1 .. n -> ToSet(p)] /\ t \in [1 .. n -> Values \X Nat]
    BY <1>6, <1>7, <1>8
  <2> QED
    BY <1>1, <2>1, IsASeq, LenProperties
<1>10. ToSet(t) = ToSet(p)
  <2>1. ASSUME NEW x \in ToSet(p) PROVE x \in ToSet(t)
    <3>1. PICK k \in 0 .. n - 1 : x = heap[k]
      BY <1>4, <1>5 DEF ItemsOf
    <3>2. k + 1 \in 1 .. n /\ t[k + 1] = x
      BY <1>1, <1>6, <3>1
    <3> QED
      BY <1>6, <3>2 DEF ToSet
  <2>2. ASSUME NEW x \in ToSet(t) PROVE x \in ToSet(p)
    BY <1>6, <1>7 DEF ToSet
  <2> QED
    BY <2>1, <2>2
<1>11. ASSUME order # "throws", NEW i \in 1 .. n - 1 PROVE SortCmp(order, t[i], t[i + 1]) < 0
  <2>1. order \in {"value", "parity"}
    BY <1>11 DEF Orders
  <2>2. Consistent(order, ItemsOf(given))
    BY <1>5, <2>1, SortCmpOrders
  <2>3. i - 1 \in 0 .. n - 2 /\ i \in 1 .. n /\ i + 1 \in 1 .. n /\ (i - 1) + 1 = i
    BY <1>1
  <2>4. Above(order, heap[(i - 1) + 1], heap[i - 1])
    BY <1>3, <2>2, <2>3 DEF SortsStably
  <2>5. t[i + 1] = heap[i] /\ t[i] = heap[i - 1] /\ t[i] \in ToSet(p) /\ t[i + 1] \in ToSet(p)
    <3>1. (i + 1) - 1 = i
      BY <2>3
    <3> QED
      BY <1>6, <1>7, <2>3, <3>1
  <2>6. SortCmp(order, t[i + 1], t[i]) > 0
    BY <2>3, <2>4, <2>5 DEF Above
  <2> QED
    BY <1>8, <2>1, <2>5, <2>6, SortCmpSigns
<1> QED
  BY <1>1, <1>9, <1>10, <1>11 DEF IsSortOf, t, n
=============================================================================
