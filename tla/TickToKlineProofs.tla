------------------------- MODULE TickToKlineProofs -------------------------
(***************************************************************************)
(* The bars of the k-line, for any number of ticks in a bar, any files and *)
(* any run of pushed ticks.  That the stream is cut into exact bars is     *)
(* inductive with the types once it is known that bars are written to the  *)
(* file only while there are none in memory.  What the bars of pushed      *)
(* ticks say of the volume rests on how the exchange counts: within a day  *)
(* the count grows by what is traded, and a day begins at zero.            *)
(***************************************************************************)
EXTENDS TickToKline, SequenceTheorems, WellFoundedInduction, TLAPS

-----------------------------------------------------------------------------
(* The greatest and the least of a vector. *)

\* A set of natural numbers has a least element.
LEMMA LeastNumber ==
  ASSUME NEW T, T \subseteq Nat, T # {}
  PROVE  \E n \in T : \A m \in T : n <= m
<1>1. PICK n \in T : \A m \in T : ~(<<m, n>> \in OpToRel(<, Nat))
  BY WFMin, NatLessThanWellFounded
<1>2. \A m \in T : ~(m < n)
  BY <1>1 DEF OpToRel
<1> QED BY <1>2

\* What holds of 1, and of n + 1 when it holds of n, holds up to any number.
LEMMA UpFromOne ==
  ASSUME NEW last \in Nat \ {0}, NEW T, 1 \in T,
         \A n \in 1 .. last - 1 : n \in T => n + 1 \in T
  PROVE  last \in T
<1> SUFFICES ASSUME last \notin T PROVE FALSE
  OBVIOUS
<1> DEFINE F == (1 .. last) \ T
<1>1. last \in F /\ F \subseteq Nat
  OBVIOUS
<1>2. PICK n \in F : \A m \in F : n <= m
  <2> HIDE DEF F
  <2> QED BY <1>1, LeastNumber
<1>3. n \in 2 .. last
  OBVIOUS
<1>4. n - 1 \notin F
  <2>1. n - 1 < n /\ n - 1 \in Nat
    BY <1>3
  <2> HIDE DEF F
  <2> QED BY <1>1, <1>2, <2>1
<1>5. n - 1 \in 1 .. last - 1 /\ n - 1 \in T
  BY <1>3, <1>4
<1>6. n \in T
  BY <1>3, <1>5
<1> QED BY <1>6

\* The first n elements of q have a greatest.
HasGreatest(q, n) == \E i \in 1 .. n : \A j \in 1 .. n : q[j] <= q[i]

\* A vector that is not empty has a greatest element.
LEMMA GreatestElement ==
  ASSUME NEW q \in Seq(Int), q # << >>
  PROVE  \E i \in DOMAIN q : \A j \in DOMAIN q : q[j] <= q[i]
<1>1. Len(q) \in Nat \ {0} /\ DOMAIN q = 1 .. Len(q) /\ \A i \in 1 .. Len(q) : q[i] \in Int
  BY EmptySeq, LenProperties, ElementOfSeq
<1>2. HasGreatest(q, 1)
  <2>1. q[1] \in Int /\ \A j \in 1 .. 1 : j = 1
    BY <1>1
  <2> QED BY <2>1 DEF HasGreatest
<1>3. ASSUME NEW n \in 1 .. Len(q) - 1, HasGreatest(q, n) PROVE HasGreatest(q, n + 1)
  <2>1. PICK i \in 1 .. n : \A j \in 1 .. n : q[j] <= q[i]
    BY <1>3 DEF HasGreatest
  <2>2. /\ i \in 1 .. n + 1 /\ n + 1 \in 1 .. n + 1
        /\ \A j \in 1 .. n + 1 : j \in 1 .. n \/ j = n + 1
    BY <1>1
  <2>3. \A j \in 1 .. n + 1 : q[j] \in Int
    BY <1>1
  <2>4. CASE q[n + 1] <= q[i]
    <3>1. \A j \in 1 .. n + 1 : q[j] <= q[i]
      BY <2>1, <2>2, <2>4
    <3> QED BY <2>2, <3>1 DEF HasGreatest
  <2>5. CASE q[i] < q[n + 1]
    <3>1. \A j \in 1 .. n : q[j] <= q[n + 1]
      BY <2>1, <2>2, <2>3, <2>5
    <3>2. \A j \in 1 .. n + 1 : q[j] <= q[n + 1]
      BY <2>2, <2>3, <3>1
    <3> QED BY <2>2, <3>2 DEF HasGreatest
  <2> QED BY <2>2, <2>3, <2>4, <2>5
<1>4. PICK T : T = {n \in 1 .. Len(q) : HasGreatest(q, n)}
  OBVIOUS
<1>5. 1 \in T /\ \A n \in 1 .. Len(q) - 1 : n \in T => n + 1 \in T
  BY <1>1, <1>2, <1>3, <1>4
<1>6. Len(q) \in T
  BY <1>1, <1>5, UpFromOne
<1> QED BY <1>1, <1>4, <1>6 DEF HasGreatest

\* And a least one.
LEMMA LeastElement ==
  ASSUME NEW q \in Seq(Int), q # << >>
  PROVE  \E i \in DOMAIN q : \A j \in DOMAIN q : q[i] <= q[j]
<1>1. Len(q) \in Nat \ {0} /\ DOMAIN q = 1 .. Len(q) /\ \A i \in 1 .. Len(q) : q[i] \in Int
  BY EmptySeq, LenProperties, ElementOfSeq
<1>2. PICK r : r = [i \in 1 .. Len(q) |-> -q[i]]
  OBVIOUS
<1>3. r \in [1 .. Len(q) -> Int] /\ DOMAIN r = 1 .. Len(q) /\ \A i \in 1 .. Len(q) : r[i] = -q[i]
  BY <1>1, <1>2
<1>4. r \in Seq(Int) /\ r # << >>
  BY <1>1, <1>3
<1>5. PICK i \in DOMAIN r : \A j \in DOMAIN r : r[j] <= r[i]
  BY <1>4, GreatestElement
<1>6. \A j \in 1 .. Len(q) : q[i] <= q[j]
  BY <1>1, <1>3, <1>5
<1> QED BY <1>1, <1>3, <1>5, <1>6

\* max_element and min_element of a vector that is not empty.
LEMMA MaxAndMin ==
  ASSUME NEW q \in Seq(Int), q # << >>
  PROVE  /\ Max(Range(q)) \in Range(q) /\ \A x \in Range(q) : x <= Max(Range(q))
         /\ Min(Range(q)) \in Range(q) /\ \A x \in Range(q) : Min(Range(q)) <= x
<1>1. \E x \in Range(q) : \A y \in Range(q) : x >= y
  BY GreatestElement, ElementOfSeq, LenProperties DEF Range
<1>2. \E x \in Range(q) : \A y \in Range(q) : x <= y
  BY LeastElement DEF Range
<1>3. Max(Range(q)) \in Range(q) /\ \A y \in Range(q) : Max(Range(q)) >= y
  BY <1>1, Zenon DEF Max
<1>4. Min(Range(q)) \in Range(q) /\ \A y \in Range(q) : Min(Range(q)) <= y
  BY <1>2, Zenon DEF Min
<1>5. Range(q) \subseteq Int
  BY ElementOfSeq, LenProperties DEF Range
<1> QED BY <1>3, <1>4, <1>5

-----------------------------------------------------------------------------
(* What is added to a vector. *)

\* An element put behind those of a vector.
LEMMA Appended ==
  ASSUME NEW S, NEW q \in Seq(S), NEW x \in S
  PROVE  /\ Append(q, x) \in Seq(S) /\ Len(Append(q, x)) = Len(q) + 1
         /\ DOMAIN q = 1 .. Len(q) /\ DOMAIN Append(q, x) = 1 .. Len(q) + 1
         /\ Append(q, x)[Len(q) + 1] = x
         /\ \A i \in 1 .. Len(q) : Append(q, x)[i] = q[i]
         /\ Len(q) \in Nat
BY AppendProperties, LenProperties

\* What a bar says depends on its own ticks only.
LEMMA SameTicks ==
  ASSUME NEW bar, NEW w1, NEW w2, NEW first \in Nat, NEW last \in Nat, first <= last,
         \A i \in first .. last : w2[i] = w1[i], IsBarOf(bar, w1, first, last)
  PROVE  IsBarOf(bar, w2, first, last)
<1>1. first \in first .. last /\ last \in first .. last
  OBVIOUS
<1>2. Measured(w2, first, last) = Measured(w1, first, last)
  BY DEF Measured
<1>3. /\ bar.open_price = w2[first].price /\ bar.close_price = w2[last].price
      /\ \A i \in first .. last : bar.low_price <= w2[i].price /\ w2[i].price <= bar.high_price
      /\ \E i \in first .. last : bar.low_price = w2[i].price
      /\ \E i \in first .. last : bar.high_price = w2[i].price
  BY <1>1 DEF IsBarOf
<1>4. ASSUME Measured(w2, first, last) # {}
      PROVE  \E i, j \in Measured(w2, first, last) :
               /\ \A n \in Measured(w2, first, last) : i <= n /\ n <= j
               /\ bar.volume = w2[j].volume - w2[i].volume
  <2>1. PICK i \in Measured(w1, first, last), j \in Measured(w1, first, last) :
          /\ \A n \in Measured(w1, first, last) : i <= n /\ n <= j
          /\ bar.volume = w1[j].volume - w1[i].volume
    BY <1>2, <1>4 DEF IsBarOf
  <2>2. w2[i] = w1[i] /\ w2[j] = w1[j]
    BY DEF Measured
  <2> QED BY <1>2, <2>1, <2>2
<1> QED BY <1>3, <1>4 DEF IsBarOf

-----------------------------------------------------------------------------
(* The bar in the making. *)

\* The vectors p and v hold what the ticks w say, those behind the first n.
Making(w, p, v, n) ==
  /\ Len(w) = n + Len(p)
  /\ \A i \in DOMAIN p : p[i] = w[n + i].price
  /\ AreVolumes(v, w, n + 1, Len(w))

\* The vectors when no tick has come yet.
LEMMA NoTicks ==
  ASSUME NEW w \in Seq(Tick)
  PROVE  Making(w, << >>, << >>, Len(w))
<1>1. Len(w) \in Nat /\ DOMAIN << >> = {} /\ Len(<< >>) = 0
  BY LenProperties
<1>2. Measured(w, Len(w) + 1, Len(w)) = {}
  BY <1>1 DEF Measured
<1>3. << >> \in [DOMAIN << >> -> {}]
  BY <1>1
<1>4. AreVolumes(<< >>, w, Len(w) + 1, Len(w))
  BY <1>1, <1>2, <1>3 DEF AreVolumes
<1> QED BY <1>1, <1>4 DEF Making

\* The ticks with a volume, one more tick having come.
LEMMA MeasuredMore ==
  ASSUME NEW w \in Seq(Tick), NEW x \in Tick, NEW n \in Nat, n <= Len(w)
  PROVE  Measured(Append(w, x), n + 1, Len(w) + 1) =
           IF x.volume = NoVolume THEN Measured(w, n + 1, Len(w))
                                  ELSE Measured(w, n + 1, Len(w)) \cup {Len(w) + 1}
<1>1. /\ Len(w) \in Nat /\ Append(w, x)[Len(w) + 1] = x
      /\ \A i \in 1 .. Len(w) : Append(w, x)[i] = w[i]
  BY Appended
<1>2. n + 1 .. Len(w) + 1 = (n + 1 .. Len(w)) \cup {Len(w) + 1}
  BY <1>1
<1>3. \A i \in n + 1 .. Len(w) : Append(w, x)[i] = w[i] /\ i # Len(w) + 1
  BY <1>1
<1> QED BY <1>1, <1>2, <1>3 DEF Measured

\* A tick without a volume leaves the second vector as it is.
LEMMA NoVolumeAdded ==
  ASSUME NEW w \in Seq(Tick), NEW x \in Tick, NEW n \in Nat, n <= Len(w), NEW v \in Seq(Nat),
         AreVolumes(v, w, n + 1, Len(w)), x.volume = NoVolume
  PROVE  AreVolumes(v, Append(w, x), n + 1, Len(w) + 1)
<1>1. PICK at \in [DOMAIN v -> Measured(w, n + 1, Len(w))] :
        /\ \A i, j \in DOMAIN v : i < j => at[i] < at[j]
        /\ \A m \in Measured(w, n + 1, Len(w)) : \E i \in DOMAIN v : at[i] = m
        /\ \A i \in DOMAIN v : v[i] = w[at[i]].volume
  BY DEF AreVolumes
<1>2. Measured(Append(w, x), n + 1, Len(w) + 1) = Measured(w, n + 1, Len(w))
  BY MeasuredMore
<1>3. \A m \in Measured(w, n + 1, Len(w)) : Append(w, x)[m] = w[m]
  BY Appended DEF Measured
<1>4. \A i \in DOMAIN v : v[i] = Append(w, x)[at[i]].volume
  BY <1>1, <1>3
<1> QED BY <1>1, <1>2, <1>4, Zenon DEF AreVolumes

\* The volume of a tick goes behind the others.
LEMMA VolumeAdded ==
  ASSUME NEW w \in Seq(Tick), NEW x \in Tick, NEW n \in Nat, n <= Len(w), NEW v \in Seq(Nat),
         AreVolumes(v, w, n + 1, Len(w)), x.volume \in Nat
  PROVE  AreVolumes(Append(v, x.volume), Append(w, x), n + 1, Len(w) + 1)
<1> DEFINE old == Measured(w, n + 1, Len(w))
<1>1. PICK at \in [DOMAIN v -> old] :
        /\ \A i, j \in DOMAIN v : i < j => at[i] < at[j]
        /\ \A m \in old : \E i \in DOMAIN v : at[i] = m
        /\ \A i \in DOMAIN v : v[i] = w[at[i]].volume
  BY DEF AreVolumes
<1>2. PICK new : new = Measured(Append(w, x), n + 1, Len(w) + 1)
  OBVIOUS
<1>3. new = old \cup {Len(w) + 1}
  <2>1. x.volume # NoVolume
    BY DEF NoVolume
  <2> QED BY <1>2, <2>1, MeasuredMore
<1>4. PICK u : u = Append(v, x.volume)
  OBVIOUS
<1>5. /\ DOMAIN v = 1 .. Len(v) /\ DOMAIN u = 1 .. Len(v) + 1 /\ Len(v) \in Nat
      /\ u[Len(v) + 1] = x.volume /\ \A i \in 1 .. Len(v) : u[i] = v[i]
  BY <1>4, Appended
<1>6. /\ Append(w, x)[Len(w) + 1] = x /\ Len(w) \in Nat
      /\ \A m \in 1 .. Len(w) : Append(w, x)[m] = w[m]
  BY Appended
<1>7. \A m \in old : m \in 1 .. Len(w) /\ m < Len(w) + 1
  BY <1>6 DEF Measured
<1> HIDE DEF old
<1>8. PICK to : to = [i \in 1 .. Len(v) + 1 |-> IF i = Len(v) + 1 THEN Len(w) + 1 ELSE at[i]]
  OBVIOUS
<1>9. /\ to[Len(v) + 1] = Len(w) + 1
      /\ \A i \in 1 .. Len(v) : to[i] = at[i] /\ at[i] \in old
  <2>1. Len(v) + 1 \in 1 .. Len(v) + 1 /\ \A i \in 1 .. Len(v) : i \in 1 .. Len(v) + 1 /\ i # Len(v) + 1
    BY <1>5
  <2>2. \A i \in 1 .. Len(v) : at[i] \in old
    BY <1>1, <1>5
  <2> QED BY <1>8, <2>1, <2>2, Zenon
<1>10. \A i \in 1 .. Len(v) + 1 : i \in 1 .. Len(v) \/ i = Len(v) + 1
  BY <1>5
<1>11. to \in [DOMAIN u -> new]
  BY <1>3, <1>5, <1>8, <1>9, <1>10
<1>12. ASSUME NEW i \in DOMAIN u, NEW j \in DOMAIN u, i < j PROVE to[i] < to[j]
  <2>1. i \in 1 .. Len(v)
    BY <1>5, <1>12
  <2>2. CASE j \in 1 .. Len(v)
    BY <1>1, <1>5, <1>9, <1>12, <2>1, <2>2
  <2>3. CASE j = Len(v) + 1
    BY <1>7, <1>9, <2>1, <2>3
  <2> QED BY <1>5, <1>10, <2>2, <2>3
<1>13. \A m \in new : \E i \in DOMAIN u : to[i] = m
  <2>1. ASSUME NEW m \in old PROVE \E i \in DOMAIN u : to[i] = m
    <3>1. PICK i \in DOMAIN v : at[i] = m
      BY <1>1
    <3>2. i \in DOMAIN u /\ to[i] = m
      BY <1>5, <1>9, <3>1
    <3> QED BY <3>2
  <2>2. Len(v) + 1 \in DOMAIN u
    BY <1>5
  <2> QED BY <1>3, <1>9, <2>1, <2>2
<1>14. ASSUME NEW i \in DOMAIN u PROVE u[i] = Append(w, x)[to[i]].volume
  <2>1. CASE i \in 1 .. Len(v)
    BY <1>1, <1>5, <1>6, <1>7, <1>9, <2>1
  <2>2. CASE i = Len(v) + 1
    BY <1>5, <1>6, <1>9, <2>2
  <2> QED BY <1>5, <1>10, <2>1, <2>2
<1> QED BY <1>2, <1>4, <1>11, <1>12, <1>13, <1>14 DEF AreVolumes

\* A tick that has come is in the vectors.
LEMMA TickTaken ==
  ASSUME NEW w \in Seq(Tick), NEW x \in Tick, NEW n \in Nat,
         NEW p \in Seq(Prices), NEW v \in Seq(Nat), NEW u, Making(w, p, v, n),
         \/ x.volume = NoVolume /\ u = v
         \/ x.volume \in Nat /\ u = Append(v, x.volume)
  PROVE  Making(Append(w, x), Append(p, x.price), u, n)
<1>1. x.price \in Prices
  BY DEF Tick
<1>2. /\ Len(Append(w, x)) = Len(w) + 1 /\ Len(w) \in Nat /\ Append(w, x)[Len(w) + 1] = x
      /\ \A i \in 1 .. Len(w) : Append(w, x)[i] = w[i]
  BY Appended
<1>3. PICK r : r = Append(p, x.price)
  OBVIOUS
<1>4. /\ Len(r) = Len(p) + 1 /\ Len(p) \in Nat
      /\ DOMAIN p = 1 .. Len(p) /\ DOMAIN r = 1 .. Len(p) + 1
      /\ r[Len(p) + 1] = x.price /\ \A i \in 1 .. Len(p) : r[i] = p[i]
  BY <1>1, <1>3, Appended
<1>5. Len(w) = n + Len(p) /\ n <= Len(w)
  BY <1>4 DEF Making
<1>6. ASSUME NEW i \in DOMAIN r PROVE r[i] = Append(w, x)[n + i].price
  <2>1. CASE i \in 1 .. Len(p)
    <3>1. n + i \in 1 .. Len(w) /\ p[i] = w[n + i].price
      BY <1>4, <1>5, <2>1 DEF Making
    <3> QED BY <1>2, <1>4, <2>1, <3>1
  <2>2. CASE i = Len(p) + 1
    <3>1. n + i = Len(w) + 1
      BY <1>4, <1>5, <2>2
    <3> QED BY <1>2, <1>4, <2>2, <3>1
  <2>3. i \in 1 .. Len(p) \/ i = Len(p) + 1
    BY <1>4
  <2> QED BY <2>1, <2>2, <2>3
<1>7. AreVolumes(u, Append(w, x), n + 1, Len(w) + 1)
  BY <1>5, NoVolumeAdded, VolumeAdded DEF Making
<1> QED BY <1>2, <1>3, <1>4, <1>5, <1>6, <1>7 DEF Making

-----------------------------------------------------------------------------
(* A bar that is made. *)

\* back() less front() of the volumes is the last volume there is less the first.
LEMMA DifferenceOfEnds ==
  ASSUME NEW w \in Seq(Tick), NEW first \in Nat, NEW last \in Nat, NEW v \in Seq(Nat),
         AreVolumes(v, w, first, last), Measured(w, first, last) # {}
  PROVE  \E i, j \in Measured(w, first, last) :
           /\ \A n \in Measured(w, first, last) : i <= n /\ n <= j
           /\ Difference(v) = w[j].volume - w[i].volume
<1>1. PICK at \in [DOMAIN v -> Measured(w, first, last)] :
        /\ \A i, j \in DOMAIN v : i < j => at[i] < at[j]
        /\ \A n \in Measured(w, first, last) : \E i \in DOMAIN v : at[i] = n
        /\ \A i \in DOMAIN v : v[i] = w[at[i]].volume
  BY DEF AreVolumes
<1>2. DOMAIN v = 1 .. Len(v) /\ Len(v) \in Nat
  BY LenProperties
<1>3. DOMAIN v # {}
  BY <1>1
<1>4. 1 \in DOMAIN v /\ Len(v) \in DOMAIN v /\ v # << >>
  BY <1>2, <1>3
<1>5. Measured(w, first, last) \subseteq Nat
  BY DEF Measured
<1>6. ASSUME NEW n \in Measured(w, first, last) PROVE at[1] <= n /\ n <= at[Len(v)]
  <2>1. PICK i \in DOMAIN v : at[i] = n
    BY <1>1
  <2>2. /\ at[1] \in Nat /\ at[Len(v)] \in Nat /\ n \in Nat
    BY <1>1, <1>4, <1>5
  <2>3. i = 1 \/ 1 < i
    BY <1>2
  <2>4. i = Len(v) \/ i < Len(v)
    BY <1>2
  <2>5. at[1] = n \/ at[1] < n
    BY <1>1, <1>4, <2>1, <2>3
  <2>6. n = at[Len(v)] \/ n < at[Len(v)]
    BY <1>1, <1>4, <2>1, <2>4
  <2> QED BY <2>2, <2>5, <2>6
<1>7. Difference(v) = v[Len(v)] - v[1]
  BY <1>4 DEF Difference, Last
<1>8. Difference(v) = w[at[Len(v)]].volume - w[at[1]].volume
  BY <1>1, <1>4, <1>7
<1>9. at[1] \in Measured(w, first, last) /\ at[Len(v)] \in Measured(w, first, last)
  BY <1>1, <1>4
<1> QED BY <1>6, <1>8, <1>9

\* The difference is a number, whatever the vector.
LEMMA DifferenceType ==
  ASSUME NEW v \in Seq(Nat)
  PROVE  Difference(v) \in Int
<1>1. CASE v = << >>
  BY <1>1 DEF Difference, Garbage
<1>2. CASE v # << >>
  <2>1. Len(v) \in 1 .. Len(v) /\ 1 \in 1 .. Len(v)
    BY <1>2, EmptySeq, LenProperties
  <2>2. v[Len(v)] \in Nat /\ v[1] \in Nat
    BY <2>1, ElementOfSeq
  <2> QED BY <1>2, <2>2 DEF Difference, Last
<1> QED BY <1>1, <1>2

\* A bar made of the vectors is the bar of their ticks
\* (TickToKlineHelper.cpp:58-77, 90-103).
LEMMA BarMade ==
  ASSUME KlineAssumption, NEW w \in Seq(Tick), NEW n \in Nat,
         NEW p \in Seq(Prices), NEW v \in Seq(Nat), Making(w, p, v, n), p # << >>
  PROVE  Bar(p, v) \in KLineDataType /\ IsBarOf(Bar(p, v), w, n + 1, n + Len(p))
<1>1. /\ Len(p) \in Nat \ {0} /\ DOMAIN p = 1 .. Len(p) /\ Len(w) = n + Len(p)
      /\ \A i \in 1 .. Len(p) : p[i] \in Prices /\ p[i] = w[n + i].price
  BY EmptySeq, LenProperties, ElementOfSeq DEF Making
<1>2. p \in Seq(Int)
  BY SeqMonotonic, KlineAssumption
<1>3. /\ Max(Range(p)) \in Range(p) /\ \A x \in Range(p) : x <= Max(Range(p))
      /\ Min(Range(p)) \in Range(p) /\ \A x \in Range(p) : Min(Range(p)) <= x
  BY <1>2, MaxAndMin
<1>4. PICK bar : bar = Bar(p, v)
  OBVIOUS
<1>5. /\ bar.open_price = p[1] /\ bar.close_price = p[Len(p)] /\ bar.volume = Difference(v)
      /\ bar.high_price = Max(Range(p)) /\ bar.low_price = Min(Range(p))
  BY <1>4 DEF Bar, Last
<1>6. Range(p) \subseteq Prices
  BY <1>1 DEF Range
<1>7. bar \in KLineDataType
  <2>1. p[1] \in Prices /\ p[Len(p)] \in Prices /\ Difference(v) \in Int
    BY <1>1, DifferenceType
  <2>2. Max(Range(p)) \in Prices /\ Min(Range(p)) \in Prices
    BY <1>3, <1>6
  <2>3. bar = [open_price |-> p[1], high_price |-> Max(Range(p)), low_price |-> Min(Range(p)),
               close_price |-> p[Len(p)], volume |-> Difference(v)]
    BY <1>4 DEF Bar, Last
  <2> QED BY <2>1, <2>2, <2>3 DEF KLineDataType
<1>8. ASSUME NEW m \in n + 1 .. n + Len(p)
      PROVE  m - n \in 1 .. Len(p) /\ p[m - n] = w[m].price /\ w[m].price \in Range(p)
  <2>1. m - n \in 1 .. Len(p) /\ n + (m - n) = m
    BY <1>1
  <2> QED BY <1>1, <2>1 DEF Range
<1>9. bar.open_price = w[n + 1].price /\ bar.close_price = w[n + Len(p)].price
  BY <1>1, <1>5
<1>10. \A m \in n + 1 .. n + Len(p) : bar.low_price <= w[m].price /\ w[m].price <= bar.high_price
  BY <1>3, <1>5, <1>8
<1>11. ASSUME NEW x \in Range(p) PROVE \E m \in n + 1 .. n + Len(p) : x = w[m].price
  <2>1. PICK i \in 1 .. Len(p) : x = p[i]
    BY <1>1 DEF Range
  <2>2. n + i \in n + 1 .. n + Len(p) /\ x = w[n + i].price
    BY <1>1, <2>1
  <2> QED BY <2>2
<1>12. Measured(w, n + 1, n + Len(p)) # {} =>
         \E i, j \in Measured(w, n + 1, n + Len(p)) :
           /\ \A m \in Measured(w, n + 1, n + Len(p)) : i <= m /\ m <= j
           /\ bar.volume = w[j].volume - w[i].volume
  <2>1. n + 1 \in Nat /\ n + Len(p) \in Nat /\ AreVolumes(v, w, n + 1, n + Len(p))
    BY <1>1 DEF Making
  <2>2. PICK first \in Nat, last \in Nat : first = n + 1 /\ last = n + Len(p)
    BY <2>1
  <2>3. AreVolumes(v, w, first, last)
    BY <2>1, <2>2
  <2>4. ASSUME Measured(w, first, last) # {}
        PROVE  \E i, j \in Measured(w, first, last) :
                 /\ \A m \in Measured(w, first, last) : i <= m /\ m <= j
                 /\ Difference(v) = w[j].volume - w[i].volume
    BY <2>3, <2>4, DifferenceOfEnds
  <2> QED BY <1>5, <2>2, <2>4
<1>13. IsBarOf(bar, w, n + 1, n + Len(p))
  BY <1>3, <1>5, <1>9, <1>10, <1>11, <1>12 DEF IsBarOf
<1> QED BY <1>4, <1>7, <1>13

-----------------------------------------------------------------------------
(* The bars made so far. *)

\* Each of the bars is that of its kDataLineNum ticks of w.
Cut(bars, w) ==
  \A b \in DOMAIN bars : IsBarOf(bars[b], w, (b - 1) * kDataLineNum + 1, b * kDataLineNum)

\* Blocks of k, one after the other.
LEMMA Blocks ==
  ASSUME NEW k \in Nat, NEW n \in Nat
  PROVE  n * k \in Nat /\ (n + 1) * k = n * k + k
OBVIOUS

\* A block ends where the next begins, at the latest.
LEMMA BlocksInOrder ==
  ASSUME NEW k \in Nat, NEW b \in Nat, NEW n \in Nat, b <= n
  PROVE  b * k <= n * k
<1>1. PICK d \in Nat : n = b + d
  <2>1. n - b \in Nat /\ n = b + (n - b)
    OBVIOUS
  <2> QED BY <2>1
<1>2. b * k \in Nat /\ d * k \in Nat
  BY Blocks
<1>3. n * k = b * k + d * k
  BY <1>1
<1> QED BY <1>2, <1>3

\* Where the ticks of the b-th of n blocks are.
LEMMA BlockWithin ==
  ASSUME NEW k \in Nat \ {0}, NEW n \in Nat, NEW b \in 1 .. n
  PROVE  /\ (b - 1) * k \in Nat /\ b * k = (b - 1) * k + k
         /\ (b - 1) * k + 1 <= b * k /\ b * k <= n * k
<1>1. b - 1 \in Nat /\ b \in Nat /\ b = (b - 1) + 1
  OBVIOUS
<1>2. (b - 1) * k \in Nat /\ b * k = (b - 1) * k + k
  <2>1. PICK a \in Nat : a = b - 1
    BY <1>1
  <2>2. a * k \in Nat /\ (a + 1) * k = a * k + k
    BY Blocks
  <2> QED BY <1>1, <2>1, <2>2
<1>3. b * k <= n * k
  BY <1>1, BlocksInOrder
<1> QED BY <1>2, <1>3

\* The bars stay what they are when a tick comes.
LEMMA CutKept ==
  ASSUME KlineAssumption, NEW S, NEW bars \in Seq(S), NEW w \in Seq(Tick), NEW x \in Tick,
         Len(bars) * kDataLineNum <= Len(w), Cut(bars, w)
  PROVE  Cut(bars, Append(w, x))
<1> SUFFICES ASSUME NEW b \in DOMAIN bars
             PROVE  IsBarOf(bars[b], Append(w, x), (b - 1) * kDataLineNum + 1, b * kDataLineNum)
  BY DEF Cut
<1>1. PICK k \in Nat \ {0} : k = kDataLineNum
  BY KlineAssumption
<1>2. Len(bars) \in Nat /\ b \in 1 .. Len(bars) /\ Len(w) \in Nat
  BY LenProperties
<1>3. PICK first : first = (b - 1) * k + 1
  OBVIOUS
<1>4. PICK last : last = b * k
  OBVIOUS
<1>5. PICK all : all = Len(bars) * k
  OBVIOUS
<1>6. first \in Nat /\ last \in Nat /\ 1 <= first /\ first <= last /\ last <= all /\ all \in Nat
  <2>1. PICK n \in Nat : n = Len(bars) /\ b \in 1 .. n
    BY <1>2
  <2>2. /\ (b - 1) * k \in Nat /\ b * k = (b - 1) * k + k
        /\ (b - 1) * k + 1 <= b * k /\ b * k <= n * k
    BY <2>1, BlockWithin
  <2>3. n * k \in Nat
    BY Blocks
  <2>4. PICK before \in Nat : before = (b - 1) * k
    BY <2>2
  <2>5. first = before + 1 /\ last = before + k /\ first <= last /\ last <= all
    BY <1>3, <1>4, <1>5, <2>1, <2>2, <2>4
  <2>6. all \in Nat
    BY <1>5, <2>1, <2>3
  <2> QED BY <2>5, <2>6
<1>7. all <= Len(w)
  BY <1>1, <1>5
<1>8. \A i \in first .. last : Append(w, x)[i] = w[i]
  <2>1. \A i \in first .. last : i \in 1 .. Len(w)
    BY <1>2, <1>6, <1>7
  <2> QED BY <2>1, Appended
<1>9. IsBarOf(bars[b], w, first, last)
  BY <1>1, <1>3, <1>4 DEF Cut
<1>10. IsBarOf(bars[b], Append(w, x), first, last)
  BY <1>6, <1>8, <1>9, SameTicks
<1> QED BY <1>1, <1>3, <1>4, <1>10

\* A bar of the next ticks continues the bars.
LEMMA CutLonger ==
  ASSUME KlineAssumption, NEW S, NEW bars \in Seq(S), NEW w \in Seq(Tick), Cut(bars, w),
         NEW bar \in S,
         IsBarOf(bar, w, Len(bars) * kDataLineNum + 1, Len(bars) * kDataLineNum + kDataLineNum)
  PROVE  Cut(Append(bars, bar), w)
<1>1. PICK more : more = Append(bars, bar)
  OBVIOUS
<1>2. /\ DOMAIN bars = 1 .. Len(bars) /\ DOMAIN more = 1 .. Len(bars) + 1 /\ Len(bars) \in Nat
      /\ more[Len(bars) + 1] = bar /\ \A b \in 1 .. Len(bars) : more[b] = bars[b]
  BY <1>1, Appended
<1>3. ASSUME NEW b \in DOMAIN more
      PROVE  IsBarOf(more[b], w, (b - 1) * kDataLineNum + 1, b * kDataLineNum)
  <2>1. CASE b \in 1 .. Len(bars)
    BY <1>2, <2>1 DEF Cut
  <2>2. CASE b = Len(bars) + 1
    <3>1. PICK n \in Nat : n = Len(bars)
      BY <1>2
    <3>2. PICK k \in Nat : k = kDataLineNum
      BY KlineAssumption
    <3>3. b * k = n * k + k /\ b - 1 = n
      BY <2>2, <3>1, Blocks
    <3>4. more[b] = bar
      BY <1>2, <2>2
    <3> QED BY <3>1, <3>2, <3>3, <3>4
  <2>3. b \in 1 .. Len(bars) \/ b = Len(bars) + 1
    BY <1>2
  <2> QED BY <2>1, <2>2, <2>3
<1> QED BY <1>1, <1>3 DEF Cut

-----------------------------------------------------------------------------
(* The invariant. *)

\* What the exchange says of two ticks, or of a tick and of now, in this order.
CountsAgree(x, y) ==
  /\ x.day <= y.day /\ x.traded <= y.traded
  /\ x.day = y.day => y.volume - x.volume = y.traded - x.traded
  /\ x.day < y.day => y.volume <= y.traded - x.traded

Now == [volume |-> volume, traded |-> traded, day |-> day]

\* So it is with any two of the pushed ticks.
CountInv ==
  \A j \in fromFile + 1 .. Len(stream) :
    /\ stream[j].volume \in Nat
    /\ CountsAgree(stream[j], Now)
    /\ \A i \in fromFile + 1 .. j : CountsAgree(stream[i], stream[j])

\* Bars are written to the file only while there are none in memory.
FileFirst == running = "converting" => m_KLineDataArray = << >>

IInv == TypeOK /\ BarsExact /\ CountInv /\ FileFirst

\* That the stream is cut into bars, in the terms of the lemmas.
LEMMA ExactParts ==
  BarsExact <=> /\ Cut(Bars, stream)
                /\ Making(stream, m_priceVec, m_volumeVec, Len(Bars) * kDataLineNum)
BY DEF BarsExact, Cut, Making

\* The same of the next state.
LEMMA ExactMade ==
  ASSUME Cut(Bars', stream'),
         Making(stream', m_priceVec', m_volumeVec', Len(Bars') * kDataLineNum)
  PROVE  BarsExact'
BY DEF BarsExact, Cut, Making

\* The bars are a sequence of bars, and fill a part of the stream.
LEMMA BarsType ==
  ASSUME TypeOK
  PROVE  /\ Bars \in Seq(KLineDataType) /\ Len(Bars) \in Nat
         /\ Len(Bars) = Len(dstFile) + Len(m_KLineDataArray)
         /\ Len(Bars) * kDataLineNum \in Nat
         /\ \A b \in 1 .. Len(m_KLineDataArray) : Bars[Len(dstFile) + b] = m_KLineDataArray[b]
<1>1. dstFile \in Seq(KLineDataType) /\ m_KLineDataArray \in Seq(KLineDataType)
  BY DEF TypeOK
<1>2. Len(dstFile) \in Nat /\ Len(m_KLineDataArray) \in Nat
  BY <1>1, LenProperties
<1>3. /\ Bars \in Seq(KLineDataType) /\ Len(Bars) = Len(dstFile) + Len(m_KLineDataArray)
      /\ \A i \in 1 .. Len(dstFile) + Len(m_KLineDataArray) :
           Bars[i] = IF i <= Len(dstFile) THEN dstFile[i] ELSE m_KLineDataArray[i - Len(dstFile)]
  BY <1>1, ConcatProperties DEF Bars
<1>4. ASSUME NEW b \in 1 .. Len(m_KLineDataArray)
      PROVE  Bars[Len(dstFile) + b] = m_KLineDataArray[b]
  <2>1. PICK i : i = Len(dstFile) + b
    OBVIOUS
  <2>2. i \in 1 .. Len(dstFile) + Len(m_KLineDataArray) /\ ~(i <= Len(dstFile))
        /\ i - Len(dstFile) = b
    BY <1>2, <2>1
  <2> QED BY <1>3, <2>1, <2>2
<1>5. Len(Bars) \in Nat
  BY <1>2, <1>3
<1>6. Len(Bars) * kDataLineNum \in Nat
  BY <1>5, KlineAssumption, Blocks
<1> QED BY <1>3, <1>4, <1>5, <1>6

\* A bar behind those of the file, or behind those in memory, is the last.
LEMMA BarAdded ==
  ASSUME TypeOK, NEW bar \in KLineDataType,
         \/ /\ m_KLineDataArray = << >> /\ m_KLineDataArray' = << >>
            /\ dstFile' = Append(dstFile, bar)
         \/ m_KLineDataArray' = Append(m_KLineDataArray, bar) /\ dstFile' = dstFile
  PROVE  Bars' = Append(Bars, bar)
<1>1. dstFile \in Seq(KLineDataType) /\ m_KLineDataArray \in Seq(KLineDataType)
  BY DEF TypeOK
<1>2. CASE /\ m_KLineDataArray = << >> /\ m_KLineDataArray' = << >>
           /\ dstFile' = Append(dstFile, bar)
  <2>1. Append(dstFile, bar) \in Seq(KLineDataType)
    BY <1>1, AppendProperties
  <2> QED BY <1>1, <1>2, <2>1, ConcatEmptySeq DEF Bars
<1>3. CASE m_KLineDataArray' = Append(m_KLineDataArray, bar) /\ dstFile' = dstFile
  <2>1. <<bar>> \in Seq(KLineDataType)
    OBVIOUS
  <2>2. dstFile \o m_KLineDataArray \in Seq(KLineDataType)
    BY <1>1, ConcatProperties
  <2>3. m_KLineDataArray \o <<bar>> = Append(m_KLineDataArray, bar)
        /\ Append(dstFile \o m_KLineDataArray, bar) = (dstFile \o m_KLineDataArray) \o <<bar>>
    BY <1>1, <2>2, AppendIsConcat
  <2>4. (dstFile \o m_KLineDataArray) \o <<bar>> = dstFile \o (m_KLineDataArray \o <<bar>>)
    BY <1>1, <2>1, ConcatAssociative
  <2> QED BY <1>3, <2>3, <2>4, Zenon DEF Bars
<1> QED BY <1>2, <1>3

\* The vectors with what a tick adds to them.
LEMMA VectorsLonger ==
  ASSUME TypeOK, NEW x \in Tick, NEW p, NEW v, p = Append(m_priceVec, x.price),
         \/ x.volume = NoVolume /\ v = m_volumeVec
         \/ x.volume \in Nat /\ v = Append(m_volumeVec, x.volume)
  PROVE  /\ p \in Seq(Prices) /\ Len(p) = Len(m_priceVec) + 1 /\ Len(m_priceVec) \in Nat
         /\ v \in Seq(Nat) /\ Len(v) <= Len(p) /\ Len(v) \in Nat
<1>1. /\ m_priceVec \in Seq(Prices) /\ m_volumeVec \in Seq(Nat)
      /\ Len(m_volumeVec) <= Len(m_priceVec)
  BY DEF TypeOK
<1>2. p \in Seq(Prices) /\ Len(p) = Len(m_priceVec) + 1 /\ Len(m_priceVec) \in Nat
  <2>1. x.price \in Prices
    BY DEF Tick
  <2> QED BY <1>1, <2>1, Appended
<1>3. CASE v = m_volumeVec
  <2>1. Len(v) \in Nat
    BY <1>1, <1>3, LenProperties
  <2> QED BY <1>1, <1>2, <1>3, <2>1
<1>4. CASE x.volume \in Nat /\ v = Append(m_volumeVec, x.volume)
  <2>1. v \in Seq(Nat) /\ Len(v) = Len(m_volumeVec) + 1 /\ Len(m_volumeVec) \in Nat
    BY <1>1, <1>4, Appended
  <2> QED BY <1>1, <1>2, <2>1
<1> QED BY <1>3, <1>4

\* What is written is a bar.
LEMMA BarType ==
  ASSUME TypeOK, BarsExact, NEW x \in Tick, NEW p, NEW v, p = Append(m_priceVec, x.price),
         \/ x.volume = NoVolume /\ v = m_volumeVec
         \/ x.volume \in Nat /\ v = Append(m_volumeVec, x.volume)
  PROVE  Bar(p, v) \in KLineDataType
<1>1. PICK n \in Nat : n = Len(Bars) * kDataLineNum
  BY BarsType
<1>2. /\ stream \in Seq(Tick) /\ m_priceVec \in Seq(Prices) /\ m_volumeVec \in Seq(Nat)
  BY DEF TypeOK
<1>3. Making(stream, m_priceVec, m_volumeVec, n)
  BY <1>1, ExactParts
<1>4. Making(Append(stream, x), p, v, n)
  BY <1>2, <1>3, TickTaken
<1>5. p \in Seq(Prices) /\ v \in Seq(Nat) /\ p # << >>
  <2>1. /\ p \in Seq(Prices) /\ Len(p) = Len(m_priceVec) + 1 /\ Len(m_priceVec) \in Nat
        /\ v \in Seq(Nat)
    <3>1. CASE x.volume = NoVolume /\ v = m_volumeVec
      BY <3>1, VectorsLonger
    <3>2. CASE x.volume \in Nat /\ v = Append(m_volumeVec, x.volume)
      BY <3>2, VectorsLonger
    <3> QED BY <3>1, <3>2
  <2>2. Len(p) # 0
    BY <2>1
  <2>3. CASE p = << >>
    BY <2>2, <2>3
  <2> QED BY <2>1, <2>3
<1>6. Append(stream, x) \in Seq(Tick)
  BY <1>2, Appended
<1> QED BY <1>4, <1>5, <1>6, KlineAssumption, BarMade

\* A tick that comes keeps the cut, whether it fills a bar or not.
LEMMA TickKeeps ==
  ASSUME TypeOK, BarsExact, NEW x \in Tick, NEW p, NEW v,
         p = Append(m_priceVec, x.price), stream' = Append(stream, x),
         \/ x.volume = NoVolume /\ v = m_volumeVec
         \/ x.volume \in Nat /\ v = Append(m_volumeVec, x.volume),
         Len(p) = kDataLineNum => /\ m_priceVec' = << >> /\ m_volumeVec' = << >>
                                  /\ Bars' = Append(Bars, Bar(p, v)),
         Len(p) # kDataLineNum => m_priceVec' = p /\ m_volumeVec' = v /\ Bars' = Bars
  PROVE  /\ BarsExact' /\ stream' \in Seq(Tick) /\ Len(stream') = Len(stream) + 1
         /\ m_priceVec' \in Seq(Prices) /\ m_volumeVec' \in Seq(Nat)
         /\ Len(m_priceVec') < kDataLineNum /\ Len(m_volumeVec') <= Len(m_priceVec')
<1>1. PICK n \in Nat : n = Len(Bars) * kDataLineNum
  BY BarsType
<1>2. /\ stream \in Seq(Tick) /\ m_priceVec \in Seq(Prices) /\ m_volumeVec \in Seq(Nat)
      /\ Len(m_priceVec) < kDataLineNum /\ Len(m_volumeVec) <= Len(m_priceVec)
      /\ Bars \in Seq(KLineDataType) /\ Len(Bars) \in Nat /\ kDataLineNum \in Nat \ {0}
  BY BarsType, KlineAssumption DEF TypeOK
<1>3. Cut(Bars, stream) /\ Making(stream, m_priceVec, m_volumeVec, n)
  BY <1>1, ExactParts
<1>4. x.price \in Prices
  BY DEF Tick
<1>5. /\ stream' \in Seq(Tick) /\ Len(stream') = Len(stream) + 1 /\ Len(stream) \in Nat
      /\ p \in Seq(Prices) /\ Len(p) = Len(m_priceVec) + 1 /\ Len(m_priceVec) \in Nat
  BY <1>2, <1>4, Appended
<1>6. v \in Seq(Nat) /\ Len(v) <= Len(p) /\ Len(v) \in Nat
  BY VectorsLonger
<1>7. n <= Len(stream)
  BY <1>3, <1>5 DEF Making
<1>8. Making(stream', p, v, n)
  BY <1>2, <1>3, TickTaken
<1>9. Cut(Bars, stream')
  BY <1>1, <1>2, <1>3, <1>7, KlineAssumption, CutKept
<1>10. CASE Len(p) = kDataLineNum
  <2>1. p # << >>
    BY <1>5
  <2>2. PICK bar : bar = Bar(p, v)
    OBVIOUS
  <2>3. bar \in KLineDataType /\ IsBarOf(bar, stream', n + 1, n + kDataLineNum)
    BY <1>5, <1>6, <1>8, <1>10, <2>1, <2>2, KlineAssumption, BarMade
  <2>4. Cut(Append(Bars, bar), stream')
    BY <1>1, <1>2, <1>5, <1>9, <2>3, KlineAssumption, CutLonger
  <2>5. Len(Append(Bars, bar)) * kDataLineNum = Len(stream')
    <3>1. Len(Append(Bars, bar)) = Len(Bars) + 1
      BY <1>2, <2>3, Appended
    <3>2. (Len(Bars) + 1) * kDataLineNum = n + kDataLineNum
      BY <1>1, <1>2, Blocks
    <3>3. Len(stream') = n + kDataLineNum
      BY <1>8, <1>10 DEF Making
    <3> QED BY <3>1, <3>2, <3>3
  <2>6. Making(stream', << >>, << >>, Len(stream'))
    BY <1>5, NoTicks
  <2>7. /\ m_priceVec' = << >> /\ m_volumeVec' = << >> /\ Bars' = Append(Bars, bar)
    BY <1>10, <2>2
  <2>8. BarsExact'
    BY <2>4, <2>5, <2>6, <2>7, ExactMade
  <2>9. /\ m_priceVec' \in Seq(Prices) /\ m_volumeVec' \in Seq(Nat)
        /\ Len(m_priceVec') = 0 /\ Len(m_volumeVec') = 0
    BY <2>7, EmptySeq
  <2> QED BY <1>2, <1>5, <2>8, <2>9
<1>11. CASE Len(p) # kDataLineNum
  <2>1. m_priceVec' = p /\ m_volumeVec' = v /\ Bars' = Bars
    BY <1>11
  <2>2. BarsExact'
    BY <1>1, <1>8, <1>9, <2>1, ExactMade
  <2>3. Len(p) < kDataLineNum
    <3>1. PICK old \in Nat, k \in Nat : old = Len(m_priceVec) /\ k = kDataLineNum
      BY <1>2, <1>5
    <3>2. old < k /\ Len(p) = old + 1 /\ Len(p) # k
      BY <1>2, <1>5, <1>11, <3>1
    <3>3. old + 1 < k
      BY <3>2
    <3> QED BY <3>1, <3>2, <3>3
  <2> QED BY <1>5, <1>6, <2>1, <2>2, <2>3
<1> QED BY <1>10, <1>11

-----------------------------------------------------------------------------
(* The steps. *)

\* The first state satisfies the invariant.
LEMMA InitInv == Init => IInv
<1> SUFFICES ASSUME Init PROVE IInv
  OBVIOUS
<1>1. /\ << >> \in Seq(Prices) /\ << >> \in Seq(Nat) /\ << >> \in Seq(KLineDataType)
      /\ << >> \in Seq(Line) /\ << >> \in Seq(Tick) /\ Len(<< >>) = 0
  BY EmptySeq
<1>2. TypeOK
  BY <1>1, KlineAssumption DEF Init, TypeOK
<1>3. Bars = << >>
  BY <1>1, ConcatEmptySeq DEF Init, Bars
<1>4. Len(Bars) * kDataLineNum = 0
  BY <1>1, <1>3, KlineAssumption
<1>5. BarsExact
  <2>1. Cut(Bars, stream)
    BY <1>3 DEF Cut
  <2>2. Making(<< >>, << >>, << >>, Len(<< >>))
    BY <1>1, NoTicks
  <2> QED BY <1>1, <1>4, <2>1, <2>2, ExactParts DEF Init
<1>6. CountInv /\ FileFirst
  BY <1>1 DEF Init, CountInv, FileFirst
<1> QED BY <1>2, <1>5, <1>6 DEF IInv

\* A conversion begins with everything empty.
LEMMA BeginKeeps ==
  ASSUME IInv, NEW lines \in Files, KLineFromLocalDataBegins(lines)
  PROVE  IInv'
<1>1. /\ << >> \in Seq(Prices) /\ << >> \in Seq(Nat) /\ << >> \in Seq(KLineDataType)
      /\ << >> \in Seq(Tick) /\ Len(<< >>) = 0
  BY EmptySeq
<1>2. /\ running' = "converting" /\ srcInFile' = lines
      /\ dstFile' = << >> /\ m_KLineDataArray' = << >>
      /\ m_priceVec' = << >> /\ m_volumeVec' = << >>
      /\ stream' = << >> /\ fromFile' = 0
      /\ UNCHANGED <<volume, traded, day>>
  BY DEF KLineFromLocalDataBegins, exchange
<1>3. lines \in Seq(Line)
  BY KlineAssumption
<1>4. TypeOK'
  BY <1>1, <1>2, <1>3, KlineAssumption DEF IInv, TypeOK
<1>5. Bars' = << >>
  BY <1>1, <1>2, ConcatEmptySeq DEF Bars
<1>6. Len(Bars') * kDataLineNum = 0
  BY <1>1, <1>5, KlineAssumption
<1>7. BarsExact'
  <2>1. Cut(Bars', stream')
    BY <1>5 DEF Cut
  <2>2. Making(<< >>, << >>, << >>, Len(<< >>))
    BY <1>1, NoTicks
  <2> QED BY <1>1, <1>2, <1>6, <2>1, <2>2, ExactMade
<1>8. CountInv' /\ FileFirst'
  BY <1>1, <1>2 DEF CountInv, FileFirst
<1> QED BY <1>4, <1>7, <1>8 DEF IInv

\* A line adds its tick, and its volume if it has one, or nothing.
LEMMA LineKeeps ==
  ASSUME IInv, ReadLine
  PROVE  IInv'
<1>1. PICK line : line = Head(srcInFile)
  OBVIOUS
<1>2. line \in Line /\ srcInFile' \in Seq(Line)
  BY <1>1, HeadTailProperties DEF IInv, TypeOK, ReadLine
<1>3. PICK x : x = [price |-> line.price, traded |-> 0, day |-> 0,
                    volume |-> IF line.fields >= 4 THEN line.volume ELSE NoVolume]
  OBVIOUS
<1>4. /\ line.fields \in Nat /\ line.price \in Prices /\ line.volume \in Nat
  BY <1>2 DEF Line
<1>5. /\ x \in Tick /\ x.price = line.price
      /\ line.fields >= 4 => x.volume = line.volume
      /\ ~(line.fields >= 4) => x.volume = NoVolume
  BY <1>3, <1>4 DEF Tick
<1>6. PICK p : p = m_priceVec \o PriceOf(line)
  OBVIOUS
<1>7. PICK v : v = m_volumeVec \o VolumeOf(line)
  OBVIOUS
<1>8. /\ Gather(p, v, dstFile)
      /\ stream' = IF line.fields >= 3 THEN Append(stream, x) ELSE stream
      /\ fromFile' = Len(stream') /\ running = "converting"
      /\ UNCHANGED <<m_KLineDataArray, running, volume, traded, day>>
  BY <1>1, <1>3, <1>6, <1>7 DEF ReadLine, exchange
<1>9. /\ m_priceVec \in Seq(Prices) /\ m_volumeVec \in Seq(Nat) /\ stream \in Seq(Tick)
      /\ m_KLineDataArray = << >> /\ m_KLineDataArray' = << >>
      /\ dstFile \in Seq(KLineDataType) /\ Len(m_priceVec) < kDataLineNum
      /\ Len(m_volumeVec) <= Len(m_priceVec)
  BY <1>8 DEF IInv, TypeOK, FileFirst
<1>10. ASSUME BarsExact', stream' \in Seq(Tick),
              m_priceVec' \in Seq(Prices), m_volumeVec' \in Seq(Nat),
              Len(m_priceVec') < kDataLineNum, Len(m_volumeVec') <= Len(m_priceVec'),
              dstFile' \in Seq(KLineDataType)
       PROVE  IInv'
  <2>1. Len(stream') \in Nat /\ fromFile' = Len(stream')
    BY <1>8, <1>10, LenProperties
  <2>2. TypeOK'
    BY <1>2, <1>8, <1>9, <1>10, <2>1 DEF IInv, TypeOK
  <2>3. CountInv'
    BY <2>1 DEF CountInv
  <2>4. FileFirst'
    BY <1>9 DEF FileFirst
  <2> QED BY <1>10, <2>2, <2>3, <2>4 DEF IInv
<1>11. CASE line.fields >= 3
  <2>1. p = Append(m_priceVec, x.price) /\ stream' = Append(stream, x)
    <3>1. PriceOf(line) = <<line.price>>
      BY <1>11 DEF PriceOf
    <3> QED BY <1>4, <1>5, <1>6, <1>8, <1>9, <1>11, <3>1, AppendIsConcat
  <2>2. \/ x.volume = NoVolume /\ v = m_volumeVec
        \/ x.volume \in Nat /\ v = Append(m_volumeVec, x.volume)
    <3>1. CASE line.fields >= 4
      <4>1. VolumeOf(line) = <<line.volume>> /\ x.volume = line.volume
        BY <1>5, <3>1 DEF VolumeOf
      <4> QED BY <1>4, <1>7, <1>9, <4>1, AppendIsConcat
    <3>2. CASE ~(line.fields >= 4)
      <4>1. VolumeOf(line) = << >> /\ x.volume = NoVolume
        BY <1>5, <3>2 DEF VolumeOf
      <4> QED BY <1>7, <1>9, <4>1, ConcatEmptySeq
    <3> QED BY <3>1, <3>2
  <2>3. IF Len(p) = kDataLineNum
        THEN m_priceVec' = << >> /\ m_volumeVec' = << >> /\ dstFile' = Append(dstFile, Bar(p, v))
        ELSE m_priceVec' = p /\ m_volumeVec' = v /\ dstFile' = dstFile
    BY <1>8 DEF Gather
  <2>4. Bar(p, v) \in KLineDataType
    BY <1>5, <2>1, <2>2, BarType DEF IInv
  <2>5. /\ Len(p) = kDataLineNum => Bars' = Append(Bars, Bar(p, v))
        /\ Len(p) # kDataLineNum => Bars' = Bars
    <3>1. CASE Len(p) = kDataLineNum
      BY <1>9, <2>3, <2>4, <3>1, BarAdded DEF IInv
    <3>2. CASE Len(p) # kDataLineNum
      BY <1>8, <2>3, <3>2 DEF Bars
    <3> QED BY <3>1, <3>2
  <2>6. dstFile' \in Seq(KLineDataType)
    <3>1. Append(dstFile, Bar(p, v)) \in Seq(KLineDataType)
      BY <1>9, <2>4, AppendProperties
    <3> QED BY <1>9, <2>3, <3>1
  <2> QED BY <1>5, <1>10, <2>1, <2>2, <2>3, <2>5, <2>6, TickKeeps DEF IInv
<1>12. CASE ~(line.fields >= 3)
  <2>1. PriceOf(line) = << >> /\ VolumeOf(line) = << >>
    BY <1>4, <1>12 DEF PriceOf, VolumeOf
  <2>2. p = m_priceVec /\ v = m_volumeVec
    BY <1>6, <1>7, <1>9, <2>1, ConcatEmptySeq
  <2>3. UNCHANGED <<m_priceVec, m_volumeVec, dstFile, stream, m_KLineDataArray>>
    <3>1. Len(p) # kDataLineNum
      BY <1>9, <2>2, LenProperties, KlineAssumption
    <3> QED BY <1>8, <1>12, <2>2, <3>1 DEF Gather
  <2>4. BarsExact'
    BY <2>3 DEF IInv, BarsExact, Bars
  <2> QED BY <1>9, <1>10, <2>3, <2>4
<1> QED BY <1>11, <1>12

\* What agrees with a count agrees with it when as much has been added as was traded.
LEMMA AgreesLater ==
  ASSUME NEW x, NEW y, NEW z, NEW step \in Nat, CountsAgree(x, y),
         x.day \in Nat, x.traded \in Nat, x.volume \in Nat,
         y.day \in Nat, y.traded \in Nat, y.volume \in Nat,
         z.day = y.day, z.traded = y.traded + step, z.volume = y.volume + step
  PROVE  CountsAgree(x, z)
<1>1. z.day \in Nat /\ z.traded \in Nat /\ z.volume \in Nat
  OBVIOUS
<1>2. x.day <= z.day /\ x.traded <= z.traded
  BY <1>1 DEF CountsAgree
<1>3. x.day = z.day => z.volume - x.volume = z.traded - x.traded
  BY <1>1 DEF CountsAgree
<1>4. x.day < z.day => z.volume <= z.traded - x.traded
  BY <1>1 DEF CountsAgree
<1> QED BY <1>2, <1>3, <1>4 DEF CountsAgree

\* What the exchange counts agrees with what it has sent when it sends a tick.
LEMMA PushAgrees ==
  ASSUME TypeOK, CountInv, NEW x \in Tick, stream' = Append(stream, x),
         x.volume = volume', x.traded = traded', x.day = day,
         day' = day, fromFile' = fromFile,
         NEW step \in Nat, volume' = volume + step, traded' = traded + step
  PROVE  CountInv'
<1>1. /\ stream \in Seq(Tick) /\ fromFile \in Nat /\ fromFile <= Len(stream)
      /\ volume \in Nat /\ traded \in Nat /\ day \in Nat
  BY LenProperties DEF TypeOK
<1>2. /\ Len(stream') = Len(stream) + 1 /\ Len(stream) \in Nat
      /\ stream'[Len(stream) + 1] = x
      /\ \A i \in 1 .. Len(stream) : stream'[i] = stream[i] /\ stream[i] \in Tick
  BY <1>1, Appended, ElementOfSeq
<1>3. /\ volume' \in Nat /\ x.volume \in Nat
      /\ Now' = [volume |-> volume', traded |-> traded', day |-> day']
  BY <1>1 DEF Now
<1>4. ASSUME NEW i \in fromFile + 1 .. Len(stream)
      PROVE  /\ stream'[i] = stream[i] /\ stream[i].volume \in Nat
             /\ CountsAgree(stream[i], Now') /\ CountsAgree(stream[i], x)
  <2>1. i \in 1 .. Len(stream)
    BY <1>1, <1>2
  <2>2. stream'[i] = stream[i] /\ stream[i].traded \in Nat /\ stream[i].day \in Nat
    BY <1>2, <2>1 DEF Tick
  <2>3. stream[i].volume \in Nat /\ CountsAgree(stream[i], Now)
    BY DEF CountInv
  <2>4. /\ Now.volume = volume /\ Now.traded = traded /\ Now.day = day
        /\ Now'.volume = volume' /\ Now'.traded = traded' /\ Now'.day = day'
    BY <1>3 DEF Now
  <2>5. CountsAgree(stream[i], Now') /\ CountsAgree(stream[i], x)
    BY <1>1, <2>2, <2>3, <2>4, AgreesLater
  <2> QED BY <2>2, <2>3, <2>5
<1>5. CountsAgree(x, Now') /\ CountsAgree(x, x)
  BY <1>1, <1>3 DEF CountsAgree
<1>6. \A j \in fromFile + 1 .. Len(stream') : j \in fromFile + 1 .. Len(stream) \/ j = Len(stream) + 1
  BY <1>1, <1>2
<1>7. ASSUME NEW j \in fromFile + 1 .. Len(stream')
      PROVE  /\ stream'[j].volume \in Nat /\ CountsAgree(stream'[j], Now')
             /\ \A i \in fromFile + 1 .. j : CountsAgree(stream'[i], stream'[j])
  <2>1. CASE j \in fromFile + 1 .. Len(stream)
    <3>1. stream'[j] = stream[j] /\ stream[j].volume \in Nat /\ CountsAgree(stream[j], Now')
      BY <1>4, <2>1
    <3>2. ASSUME NEW i \in fromFile + 1 .. j PROVE CountsAgree(stream'[i], stream'[j])
      <4>1. i \in fromFile + 1 .. Len(stream)
        BY <1>1, <1>2, <2>1
      <4>2. CountsAgree(stream[i], stream[j])
        BY <2>1 DEF CountInv
      <4> QED BY <1>4, <2>1, <4>1, <4>2
    <3> QED BY <3>1, <3>2
  <2>2. CASE j = Len(stream) + 1
    <3>1. stream'[j] = x
      BY <1>2, <2>2
    <3>2. ASSUME NEW i \in fromFile + 1 .. j PROVE CountsAgree(stream'[i], x)
      <4>1. CASE i \in fromFile + 1 .. Len(stream)
        BY <1>4, <4>1
      <4>2. CASE i = Len(stream) + 1
        BY <1>2, <1>5, <4>2
      <4>3. i \in fromFile + 1 .. Len(stream) \/ i = Len(stream) + 1
        BY <1>1, <1>2, <2>2
      <4> QED BY <4>1, <4>2, <4>3
    <3> QED BY <1>3, <1>5, <3>1, <3>2
  <2> QED BY <1>6, <2>1, <2>2
<1> QED BY <1>7 DEF CountInv

\* A tick that is pushed keeps the invariant.
LEMMA PushKeeps ==
  ASSUME IInv, NEW price \in Prices, NEW step \in Steps, KLineFromRealtimeData(price, step)
  PROVE  IInv'
<1>1. /\ volume \in Nat /\ traded \in Nat /\ day \in Nat /\ step \in Nat
      /\ m_KLineDataArray \in Seq(KLineDataType) /\ dstFile \in Seq(KLineDataType)
      /\ srcInFile \in Seq(Line) /\ fromFile \in 0 .. Len(stream) /\ stream \in Seq(Tick)
  BY KlineAssumption DEF IInv, TypeOK
<1>2. PICK x : x = [price |-> price, volume |-> volume', traded |-> traded', day |-> day]
  OBVIOUS
<1>3. PICK p : p = Append(m_priceVec, price)
  OBVIOUS
<1>4. PICK v : v = Append(m_volumeVec, volume')
  OBVIOUS
<1>5. /\ running = "idle" /\ volume' = volume + step /\ traded' = traded + step
      /\ Gather(p, v, m_KLineDataArray) /\ stream' = Append(stream, x)
      /\ UNCHANGED <<dstFile, srcInFile, running, day, fromFile>>
  BY <1>2, <1>3, <1>4 DEF KLineFromRealtimeData
<1>6. volume' \in Nat /\ traded' \in Nat
  BY <1>1, <1>5
<1>7. /\ x \in Tick /\ x.price = price /\ x.volume = volume' /\ x.traded = traded' /\ x.day = day
  BY <1>1, <1>2, <1>6 DEF Tick
<1>8. p = Append(m_priceVec, x.price) /\ x.volume \in Nat /\ v = Append(m_volumeVec, x.volume)
  BY <1>3, <1>4, <1>6, <1>7
<1>9. IF Len(p) = kDataLineNum
      THEN /\ m_priceVec' = << >> /\ m_volumeVec' = << >>
           /\ m_KLineDataArray' = Append(m_KLineDataArray, Bar(p, v))
      ELSE m_priceVec' = p /\ m_volumeVec' = v /\ m_KLineDataArray' = m_KLineDataArray
  BY <1>5 DEF Gather
<1>10. Bar(p, v) \in KLineDataType
  BY <1>7, <1>8, BarType DEF IInv
<1>11. /\ Len(p) = kDataLineNum => Bars' = Append(Bars, Bar(p, v))
       /\ Len(p) # kDataLineNum => Bars' = Bars
  <2>1. CASE Len(p) = kDataLineNum
    BY <1>5, <1>9, <1>10, <2>1, BarAdded DEF IInv
  <2>2. CASE Len(p) # kDataLineNum
    BY <1>5, <1>9, <2>2 DEF Bars
  <2> QED BY <2>1, <2>2
<1>12. m_KLineDataArray' \in Seq(KLineDataType)
  <2>1. Append(m_KLineDataArray, Bar(p, v)) \in Seq(KLineDataType)
    BY <1>1, <1>10, AppendProperties
  <2> QED BY <1>1, <1>9, <2>1
<1>13. /\ BarsExact' /\ stream' \in Seq(Tick) /\ Len(stream') = Len(stream) + 1
       /\ m_priceVec' \in Seq(Prices) /\ m_volumeVec' \in Seq(Nat)
       /\ Len(m_priceVec') < kDataLineNum /\ Len(m_volumeVec') <= Len(m_priceVec')
  BY <1>5, <1>7, <1>8, <1>9, <1>11, TickKeeps DEF IInv
<1>14. TypeOK'
  <2>1. fromFile' \in 0 .. Len(stream')
    BY <1>1, <1>5, <1>13, LenProperties
  <2> QED BY <1>1, <1>5, <1>6, <1>12, <1>13, <2>1 DEF TypeOK
<1>15. CountInv'
  BY <1>1, <1>5, <1>7, PushAgrees DEF IInv
<1>16. FileFirst'
  BY <1>5 DEF FileFirst
<1> QED BY <1>13, <1>14, <1>15, <1>16 DEF IInv

\* So does the end of a day: what was traded after a tick that came on an earlier
\* day is no less than nothing, which is what the new day has.
LEMMA DayKeeps ==
  ASSUME IInv, DayEnds
  PROVE  IInv'
<1>1. /\ UNCHANGED <<m_priceVec, m_volumeVec, m_KLineDataArray, dstFile, srcInFile, running,
                     traded, stream, fromFile>>
      /\ day' = day + 1 /\ volume' = 0
  BY DEF DayEnds, members
<1>2. /\ volume \in Nat /\ traded \in Nat /\ day \in Nat /\ fromFile \in Nat
      /\ stream \in Seq(Tick)
  BY DEF IInv, TypeOK
<1>3. TypeOK'
  BY <1>1, <1>2 DEF IInv, TypeOK
<1>4. BarsExact'
  BY <1>1 DEF IInv, BarsExact, Bars
<1>5. ASSUME NEW j \in fromFile + 1 .. Len(stream)
      PROVE  CountsAgree(stream[j], Now')
  <2>1. stream[j] \in Tick
    <3>1. j \in 1 .. Len(stream)
      BY <1>2, LenProperties
    <3> QED BY <1>2, <3>1, ElementOfSeq
  <2>2. stream[j].traded \in Nat /\ stream[j].day \in Nat
    BY <2>1 DEF Tick
  <2>3. stream[j].volume \in Nat /\ CountsAgree(stream[j], Now)
    BY DEF IInv, CountInv
  <2>4. /\ Now.volume = volume /\ Now.traded = traded /\ Now.day = day
        /\ Now'.volume = 0 /\ Now'.traded = traded /\ Now'.day = day + 1
    BY <1>1 DEF Now
  <2>5. stream[j].day <= day /\ stream[j].traded <= traded
    BY <2>3, <2>4 DEF CountsAgree
  <2>6. stream[j].day < day + 1 /\ 0 <= traded - stream[j].traded
    BY <1>2, <2>2, <2>5
  <2> QED BY <1>2, <2>2, <2>4, <2>5, <2>6 DEF CountsAgree
<1>6. CountInv'
  BY <1>1, <1>5 DEF IInv, CountInv
<1>7. FileFirst'
  BY <1>1 DEF IInv, FileFirst
<1> QED BY <1>3, <1>4, <1>6, <1>7 DEF IInv

\* Every step keeps the invariant.
LEMMA InvariantStep == IInv /\ [Next]_vars => IInv'
<1> SUFFICES ASSUME IInv, [Next]_vars PROVE IInv'
  OBVIOUS
<1>1. ASSUME UNCHANGED <<members, dstFile, srcInFile, exchange, stream, fromFile>>,
             running' \in {"idle", "dead"} \/ running' = running
      PROVE  IInv'
  <2>1. UNCHANGED <<m_priceVec, m_volumeVec, m_KLineDataArray, dstFile, srcInFile,
                    volume, traded, day, stream, fromFile>>
    BY <1>1 DEF members, exchange
  <2>2. TypeOK'
    BY <1>1, <2>1 DEF IInv, TypeOK
  <2>3. BarsExact'
    BY <2>1 DEF IInv, BarsExact, Bars
  <2>4. CountInv' /\ FileFirst'
    BY <1>1, <2>1 DEF IInv, CountInv, Now, FileFirst
  <2> QED BY <2>2, <2>3, <2>4 DEF IInv
<1>2. CASE ReadLineDies \/ KLineFromLocalDataEnds \/ UNCHANGED vars
  BY <1>1, <1>2 DEF ReadLineDies, KLineFromLocalDataEnds, vars
<1> QED BY <1>2, BeginKeeps, LineKeeps, PushKeeps, DayKeeps DEF Next

-----------------------------------------------------------------------------
(* The volume. *)

\* Every tick of a window has a volume.
AllMeasured(w, first, last) == \A i \in first .. last : w[i].volume \in Nat

\* The volume of a bar of pushed ticks is that of its last less that of its
\* first, since each of them has one.
LEMMA VolumeTold ==
  ASSUME NEW bar, NEW w, NEW first, NEW last,
         first \in Nat, last \in Nat, first <= last,
         IsBarOf(bar, w, first, last), AllMeasured(w, first, last)
  PROVE  bar.volume = w[last].volume - w[first].volume
<1>1. Measured(w, first, last) = first .. last
  <2>1. \A i \in first .. last : w[i].volume # NoVolume
    BY DEF AllMeasured, NoVolume
  <2> QED BY <2>1 DEF Measured
<1>2. first \in first .. last /\ last \in first .. last
  OBVIOUS
<1>3. PICK i \in first .. last, j \in first .. last :
        /\ \A n \in first .. last : i <= n /\ n <= j
        /\ bar.volume = w[j].volume - w[i].volume
  <2>1. Measured(w, first, last) # {}
    BY <1>1, <1>2
  <2> QED BY <1>1, <2>1 DEF IsBarOf
<1>4. i <= first /\ last <= j
  BY <1>2, <1>3
<1>5. i = first /\ j = last
  BY <1>3, <1>4
<1> QED BY <1>3, <1>5

\* The invariant has no trade counted twice.
LEMMA NoTradeTwice == IInv => VolumeNotOvercounted
<1> SUFFICES ASSUME IInv, NEW b \in DOMAIN m_KLineDataArray,
                    (Len(dstFile) + b) * kDataLineNum - kDataLineNum >= fromFile
             PROVE  LET end == (Len(dstFile) + b) * kDataLineNum
                        first == stream[end - kDataLineNum + 1]
                        last == stream[end]
                        truly == last.traded - first.traded
                    IN  IF first.day = last.day THEN m_KLineDataArray[b].volume = truly
                                                ELSE m_KLineDataArray[b].volume <= truly
  BY DEF VolumeNotOvercounted
<1>1. PICK k \in Nat \ {0} : k = kDataLineNum
  BY KlineAssumption
<1>2. /\ m_KLineDataArray \in Seq(KLineDataType) /\ dstFile \in Seq(KLineDataType)
      /\ stream \in Seq(Tick) /\ m_priceVec \in Seq(Prices) /\ fromFile \in Nat
  BY DEF IInv, TypeOK
<1>3. /\ Len(dstFile) \in Nat /\ Len(m_KLineDataArray) \in Nat /\ Len(m_priceVec) \in Nat
      /\ Len(stream) \in Nat
      /\ b \in 1 .. Len(m_KLineDataArray)
  BY <1>2, LenProperties
<1>4. PICK n \in Nat : n = Len(dstFile) + b
  BY <1>3
<1>5. /\ Len(Bars) = Len(dstFile) + Len(m_KLineDataArray) /\ Bars \in Seq(KLineDataType)
      /\ Bars[n] = m_KLineDataArray[b]
  BY <1>3, <1>4, BarsType DEF IInv
<1>6. Len(Bars) \in Nat /\ n \in 1 .. Len(Bars) /\ DOMAIN Bars = 1 .. Len(Bars)
  BY <1>3, <1>4, <1>5, LenProperties
<1>7. PICK end : end = n * k
  OBVIOUS
<1>8. PICK first : first = (n - 1) * k + 1
  OBVIOUS
<1>9. /\ first \in Nat /\ end \in Nat /\ first <= end /\ first = end - k + 1
      /\ end <= Len(Bars) * k
  <2>1. /\ (n - 1) * k \in Nat /\ n * k = (n - 1) * k + k
        /\ (n - 1) * k + 1 <= n * k /\ n * k <= Len(Bars) * k
    BY <1>6, BlockWithin
  <2> QED BY <1>7, <1>8, <2>1
<1>10. IsBarOf(m_KLineDataArray[b], stream, first, end)
  BY <1>1, <1>5, <1>6, <1>7, <1>8 DEF IInv, BarsExact
<1>11. end <= Len(stream) /\ fromFile < first
  <2>1. Len(stream) = Len(Bars) * k + Len(m_priceVec)
    BY <1>1 DEF IInv, BarsExact
  <2>2. PICK all \in Nat : all = Len(Bars) * k
    BY <1>6, Blocks
  <2>3. end - k >= fromFile
    BY <1>1, <1>4, <1>7
  <2> QED BY <1>2, <1>3, <1>9, <2>1, <2>2, <2>3
<1>12. \A i \in first .. end : i \in fromFile + 1 .. Len(stream)
  BY <1>2, <1>3, <1>9, <1>11
<1>13. first \in fromFile + 1 .. end /\ end \in fromFile + 1 .. Len(stream)
  BY <1>2, <1>3, <1>9, <1>11
<1>14. \A i \in first .. end : stream[i].volume \in Nat
  BY <1>12 DEF IInv, CountInv
<1>15. m_KLineDataArray[b].volume = stream[end].volume - stream[first].volume
  <2>1. PICK bar, w : bar = m_KLineDataArray[b] /\ w = stream
    OBVIOUS
  <2>2. PICK i \in Nat, j \in Nat : i = first /\ j = end
    BY <1>9
  <2>3. i <= j
    BY <1>9, <2>2
  <2>4. IsBarOf(bar, w, i, j)
    BY <1>10, <2>1, <2>2
  <2>5. AllMeasured(w, i, j)
    BY <1>14, <2>1, <2>2 DEF AllMeasured
  <2>6. bar.volume = w[j].volume - w[i].volume
    BY <2>3, <2>4, <2>5, VolumeTold
  <2> QED BY <2>1, <2>2, <2>6
<1>16. CountsAgree(stream[first], stream[end])
  BY <1>13 DEF IInv, CountInv
<1>17. /\ stream[first] \in Tick /\ stream[end] \in Tick
  <2>1. first \in 1 .. Len(stream) /\ end \in 1 .. Len(stream)
    BY <1>2, <1>3, <1>9, <1>11
  <2> QED BY <1>2, <2>1, ElementOfSeq
<1>18. /\ stream[first].day \in Nat /\ stream[first].traded \in Nat
       /\ stream[end].day \in Nat /\ stream[end].traded \in Nat
       /\ stream[first].volume \in Nat /\ stream[end].volume \in Nat
  BY <1>9, <1>14, <1>17 DEF Tick
<1>19. IF stream[first].day = stream[end].day
       THEN m_KLineDataArray[b].volume = stream[end].traded - stream[first].traded
       ELSE m_KLineDataArray[b].volume <= stream[end].traded - stream[first].traded
  <2>1. CASE stream[first].day = stream[end].day
    BY <1>15, <1>16, <2>1 DEF CountsAgree
  <2>2. CASE stream[first].day # stream[end].day
    <3>1. stream[end].volume <= stream[end].traded - stream[first].traded
      BY <1>16, <1>18, <2>2 DEF CountsAgree
    <3>2. stream[end].volume - stream[first].volume <= stream[end].volume
      BY <1>18
    <3> QED BY <1>15, <1>18, <2>2, <3>1, <3>2
  <2> QED BY <2>1, <2>2
<1>20. end = (Len(dstFile) + b) * kDataLineNum /\ first = end - kDataLineNum + 1
  BY <1>1, <1>4, <1>7, <1>9
<1> QED BY <1>19, <1>20

-----------------------------------------------------------------------------
(* The theorems. *)

\* IInv is an inductive invariant of the specification.
THEOREM Invariant == Spec => []IInv
BY InitInv, InvariantStep, PTL DEF Spec

\* The vectors never hold a full bar between two lines or calls, and the bars are
\* bars (TickToKlineHelper.cpp:58, 90).
THEOREM TypeCorrect == Spec => []TypeOK
BY Invariant, PTL DEF IInv

\* The stream is cut into bars with no tick left out and none used twice, and
\* each says of its ticks what they were, for bars of any length and any mixture
\* of lines with and without a volume (TickToKlineHelper.cpp:33-78, 88-103).
THEOREM BarsAreExact == Spec => []BarsExact
BY Invariant, PTL DEF IInv

\* No trade is counted twice in the bars of pushed ticks, whenever trading days
\* end (TickToKlineHelper.cpp:98).
THEOREM VolumeIsTrue == Spec => []VolumeNotOvercounted
BY Invariant, NoTradeTwice, PTL
=============================================================================
