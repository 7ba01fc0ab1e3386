----------------------------- MODULE FlashProofs -----------------------------
(***************************************************************************)
(* What the flash commands promise, for any geometry of the chips, any     *)
(* files and buffers, and however many commands are given.                 *)
(***************************************************************************)
EXTENDS Flash, SequenceTheorems, WellFoundedInduction, TLAPS

-----------------------------------------------------------------------------
(* Induction over the natural numbers, for sets. *)

(* A set of natural numbers that is not empty has a least one. *)
LEMMA LeastNat ==
    ASSUME NEW T \in SUBSET Nat, T # {}
    PROVE  \E x \in T : \A y \in T : ~(y < x)
<1> DEFINE R == OpToRel(<, Nat)
<1>1. \E x \in T : \A y \in T : <<y, x>> \notin R
  <2>1. IsWellFoundedOn(R, Nat)
    BY NatLessThanWellFounded
  <2> HIDE DEF R
  <2> QED
    BY <2>1, WFMin
<1> QED
  BY <1>1 DEF OpToRel

(* A set with 0 and every successor of its numbers has them all. *)
LEMMA SetInduction ==
    ASSUME NEW S, 0 \in S, \A n \in Nat : n \in S => n + 1 \in S
    PROVE  Nat \subseteq S
<1> SUFFICES ASSUME Nat \ S # {} PROVE FALSE
  OBVIOUS
<1>1. PICK x \in Nat \ S : \A y \in Nat \ S : ~(y < x)
  BY LeastNat
<1>2. x # 0 /\ x - 1 \in Nat
  BY <1>1
<1>3. x - 1 \in S
  BY <1>1, <1>2
<1> QED
  BY <1>1, <1>2, <1>3

-----------------------------------------------------------------------------
(* Sums over the regions before one: what Base and FirstBlock are. *)

(* g sums w up to n. *)
SumsTo(g, w, n) == g = [i \in 0 .. n |-> IF i <= 1 THEN 0 ELSE g[i - 1] + w[i - 1]]

(* f is the sum of w before each number. *)
Sums(f, w) == f = [i \in Nat |-> IF i <= 1 THEN 0 ELSE f[i - 1] + w[i - 1]]

LEMMA SumsToExist ==
    ASSUME NEW w, NEW n \in Nat
    PROVE  \E g : SumsTo(g, w, n)
<1> DEFINE S == {m \in Nat : \E g : SumsTo(g, w, m)}
<1>1. 0 \in S
  <2> DEFINE g == [i \in 0 .. 0 |-> 0]
  <2>1. SumsTo(g, w, 0)
    BY DEF SumsTo
  <2> QED
    BY <2>1
<1>2. ASSUME NEW m \in Nat, m \in S PROVE m + 1 \in S
  <2>1. PICK g : SumsTo(g, w, m)
    BY <1>2
  <2> DEFINE h == [i \in 0 .. m + 1 |-> IF i <= 1 THEN 0 ELSE IF i = m + 1 THEN g[m] + w[m] ELSE g[i]]
  <2>2. SumsTo(h, w, m + 1)
    BY <2>1 DEF SumsTo
  <2> QED
    BY <2>2
<1> QED
  BY <1>1, <1>2, SetInduction

LEMMA SumsToAgree ==
    ASSUME NEW w, NEW n \in Nat, NEW m \in Nat, NEW g, NEW h, SumsTo(g, w, n), SumsTo(h, w, m),
           NEW i \in Nat, i <= n, i <= m
    PROVE  g[i] = h[i]
<1> DEFINE S == {k \in Nat : k <= n /\ k <= m => g[k] = h[k]}
<1>1. 0 \in S
  BY DEF SumsTo
<1>2. ASSUME NEW k \in Nat, k \in S PROVE k + 1 \in S
  <2>1. CASE k + 1 <= n /\ k + 1 <= m
    <3>1. g[k] = h[k]
      BY <1>2, <2>1
    <3>2. g[k + 1] = IF k + 1 <= 1 THEN 0 ELSE g[k + 1 - 1] + w[k + 1 - 1]
      BY <2>1 DEF SumsTo
    <3>3. h[k + 1] = IF k + 1 <= 1 THEN 0 ELSE h[k + 1 - 1] + w[k + 1 - 1]
      BY <2>1 DEF SumsTo
    <3>4. k + 1 - 1 = k
      OBVIOUS
    <3> QED
      BY <3>1, <3>2, <3>3, <3>4
  <2> QED
    BY <2>1
<1> QED
  BY <1>1, <1>2, SetInduction

LEMMA SumsExist ==
    ASSUME NEW w
    PROVE  \E f : Sums(f, w)
<1> DEFINE G(n) == CHOOSE g : SumsTo(g, w, n)
           f == [n \in Nat |-> G(n)[n]]
<1>1. ASSUME NEW n \in Nat PROVE SumsTo(G(n), w, n)
  BY SumsToExist
<1>2. ASSUME NEW i \in Nat PROVE f[i] = IF i <= 1 THEN 0 ELSE f[i - 1] + w[i - 1]
  <2>1. G(i)[i] = IF i <= 1 THEN 0 ELSE G(i)[i - 1] + w[i - 1]
    <3> HIDE DEF G
    <3>1. SumsTo(G(i), w, i)
      BY <1>1
    <3> QED
      BY <3>1 DEF SumsTo
  <2>2. CASE i <= 1
    BY <2>1, <2>2
  <2>3. CASE ~(i <= 1)
    <3>1. i - 1 \in Nat /\ SumsTo(G(i), w, i) /\ SumsTo(G(i - 1), w, i - 1)
      BY <1>1, <2>3
    <3> HIDE DEF G
    <3>2. G(i)[i - 1] = G(i - 1)[i - 1]
      BY <3>1, SumsToAgree
    <3>3. f[i - 1] = G(i - 1)[i - 1]
      BY <3>1
    <3> QED
      BY <2>1, <2>3, <3>2, <3>3
  <2> QED
    BY <2>2, <2>3
<1> HIDE DEF G
<1>3. Sums(f, w)
  <2>1. f = [i \in Nat |-> IF i <= 1 THEN 0 ELSE f[i - 1] + w[i - 1]]
    BY <1>2
  <2> QED
    BY <2>1 DEF Sums
<1> QED
  BY <1>3

LEMMA BaseIs ==
    /\ Base[1] = 0
    /\ \A i \in Nat \ {0} : Base[i + 1] = Base[i] + Regions[i].blocks * Regions[i].size
<1> DEFINE w == [i \in Nat |-> Regions[i].blocks * Regions[i].size]
           Is(f) == f = [i \in Nat |-> IF i <= 1 THEN 0
                                       ELSE f[i - 1] + Regions[i - 1].blocks * Regions[i - 1].size]
<1>1. PICK f : Sums(f, w)
  BY SumsExist
<1>2. Is(f)
  <2>1. f = [i \in Nat |-> IF i <= 1 THEN 0 ELSE f[i - 1] + w[i - 1]]
    BY <1>1 DEF Sums
  <2>2. \A i \in Nat : ~(i <= 1) => w[i - 1] = Regions[i - 1].blocks * Regions[i - 1].size
    OBVIOUS
  <2> HIDE DEF w
  <2> QED
    BY <2>1, <2>2
<1>3. Base = CHOOSE g : Is(g)
  BY DEF Base
<1>4. Is(Base)
  <2> HIDE DEF Is
  <2> QED
    BY <1>2, <1>3
<1>5. \A i \in Nat : Base[i] = IF i <= 1 THEN 0
                               ELSE Base[i - 1] + Regions[i - 1].blocks * Regions[i - 1].size
  BY <1>4
<1>6. ASSUME NEW i \in Nat \ {0} PROVE Base[i + 1] = Base[i] + Regions[i].blocks * Regions[i].size
  <2>1. i + 1 \in Nat /\ ~(i + 1 <= 1) /\ i + 1 - 1 = i
    OBVIOUS
  <2> QED
    BY <1>5, <2>1
<1> QED
  BY <1>5, <1>6

LEMMA FirstBlockIs ==
    /\ FirstBlock[1] = 0
    /\ \A i \in Nat \ {0} : FirstBlock[i + 1] = FirstBlock[i] + Regions[i].blocks
<1> DEFINE w == [i \in Nat |-> Regions[i].blocks]
           Is(f) == f = [i \in Nat |-> IF i <= 1 THEN 0 ELSE f[i - 1] + Regions[i - 1].blocks]
<1>1. PICK f : Sums(f, w)
  BY SumsExist
<1>2. Is(f)
  <2>1. f = [i \in Nat |-> IF i <= 1 THEN 0 ELSE f[i - 1] + w[i - 1]]
    BY <1>1 DEF Sums
  <2>2. \A i \in Nat : ~(i <= 1) => w[i - 1] = Regions[i - 1].blocks
    OBVIOUS
  <2> HIDE DEF w
  <2> QED
    BY <2>1, <2>2
<1>3. FirstBlock = CHOOSE g : Is(g)
  BY DEF FirstBlock
<1>4. Is(FirstBlock)
  <2> HIDE DEF Is
  <2> QED
    BY <1>2, <1>3
<1>5. \A i \in Nat : FirstBlock[i] = IF i <= 1 THEN 0 ELSE FirstBlock[i - 1] + Regions[i - 1].blocks
  BY <1>4
<1>6. ASSUME NEW i \in Nat \ {0} PROVE FirstBlock[i + 1] = FirstBlock[i] + Regions[i].blocks
  <2>1. i + 1 \in Nat /\ ~(i + 1 <= 1) /\ i + 1 - 1 = i
    OBVIOUS
  <2> QED
    BY <1>5, <2>1
<1> QED
  BY <1>5, <1>6

-----------------------------------------------------------------------------
(* The geometry: regions follow one another, blocks of a region too. *)

(* The numbers of the regions. *)
Region(i) == i \in Nat /\ 1 <= i /\ i <= Len(Regions)

LEMMA RegionsAre ==
    /\ Len(Regions) \in Nat /\ 1 <= Len(Regions)
    /\ DOMAIN Regions = 1 .. Len(Regions)
    /\ \A i : Region(i) => /\ Regions[i].blocks \in Nat /\ 1 <= Regions[i].blocks
                           /\ Regions[i].size \in Nat /\ 1 <= Regions[i].size
<1>1. Regions \in Seq([blocks : Nat \ {0}, size : Nat \ {0}]) /\ Regions # << >>
  BY FlashAssumption
<1>2. Len(Regions) \in Nat /\ DOMAIN Regions = 1 .. Len(Regions) /\ Len(Regions) # 0
  BY <1>1, LenProperties, EmptySeq
<1>3. ASSUME NEW i, Region(i) PROVE Regions[i] \in [blocks : Nat \ {0}, size : Nat \ {0}]
  <2>1. i \in 1 .. Len(Regions)
    BY <1>2, <1>3 DEF Region
  <2> QED
    BY <1>1, <2>1, ElementOfSeq
<1> QED
  BY <1>2, <1>3

LEMMA Products ==
    ASSUME NEW x \in Nat, NEW y \in Nat, NEW s \in Nat, 1 <= s
    PROVE  /\ x * s \in Nat /\ (x + 1) * s = x * s + s
           /\ x < y => x * s + s <= y * s
<1>1. x * s \in Nat /\ (x + 1) * s = x * s + s
  BY SMT
<1>2. ASSUME x < y PROVE x * s + s <= y * s
  <2>1. y * s - (x + 1) * s = (y - (x + 1)) * s
    BY SMT
  <2>2. y - (x + 1) \in Nat
    BY <1>2
  <2>3. (y - (x + 1)) * s >= 0
    BY <2>2, SMT
  <2>4. y * s \in Nat
    BY SMT
  <2> QED
    BY <1>1, <2>1, <2>3, <2>4
<1> QED
  BY <1>1, <1>2

LEMMA Quotients ==
    ASSUME NEW x \in Nat, NEW s \in Nat, 1 <= s
    PROVE  /\ x \div s \in Nat
           /\ (x \div s) * s <= x /\ x < (x \div s) * s + s
<1> QED
  BY SMT

(* A quotient is the number between whose multiples the dividend lies. *)
LEMMA QuotientIs ==
    ASSUME NEW x \in Nat, NEW s \in Nat, 1 <= s, NEW q \in Nat, q * s <= x, x < q * s + s
    PROVE  x \div s = q
<1> DEFINE d == x \div s
<1>1. d \in Nat /\ d * s <= x /\ x < d * s + s
  BY Quotients
<1> HIDE DEF d
<1>2. (d < q => d * s + s <= q * s) /\ (q < d => q * s + s <= d * s)
  BY <1>1, Products
<1>3. d * s \in Nat /\ q * s \in Nat
  BY <1>1, Products
<1>4. d = q
  BY <1>1, <1>2, <1>3
<1> QED
  BY <1>4 DEF d

(* A region's first word and block, and those of the next. *)
LEMMA NextRegion ==
    /\ \A i \in Nat : 1 <= i /\ i <= Len(Regions) + 1 => Base[i] \in Nat /\ FirstBlock[i] \in Nat
    /\ \A i : Region(i) =>
            /\ Base[i + 1] = Base[i] + Regions[i].blocks * Regions[i].size
            /\ FirstBlock[i + 1] = FirstBlock[i] + Regions[i].blocks
            /\ Regions[i].blocks * Regions[i].size \in Nat
            /\ 1 <= Regions[i].blocks * Regions[i].size
<1>1. ASSUME NEW i, Region(i)
      PROVE  /\ Base[i + 1] = Base[i] + Regions[i].blocks * Regions[i].size
             /\ FirstBlock[i + 1] = FirstBlock[i] + Regions[i].blocks
             /\ Regions[i].blocks * Regions[i].size \in Nat
             /\ 1 <= Regions[i].blocks * Regions[i].size
  <2>1. i \in Nat \ {0}
    BY <1>1 DEF Region
  <2>2. \A b, s \in Nat : 1 <= b /\ 1 <= s => b * s \in Nat /\ 1 <= b * s
    <3> SUFFICES ASSUME NEW b \in Nat, NEW s \in Nat, 1 <= b, 1 <= s
                 PROVE  b * s \in Nat /\ 1 <= b * s
      OBVIOUS
    <3>1. 0 * s + s <= b * s /\ 0 * s = 0 /\ b * s \in Nat
      BY Products, SMT
    <3> QED
      BY <3>1
  <2> QED
    BY <1>1, <2>1, <2>2, RegionsAre, BaseIs, FirstBlockIs
<1>2. \A i \in Nat : 1 <= i /\ i <= Len(Regions) + 1 => Base[i] \in Nat /\ FirstBlock[i] \in Nat
  <2> DEFINE S == {k \in Nat : k <= Len(Regions) => Base[k + 1] \in Nat /\ FirstBlock[k + 1] \in Nat}
  <2>1. 0 \in S
    BY BaseIs, FirstBlockIs
  <2>2. ASSUME NEW k \in Nat, k \in S PROVE k + 1 \in S
    <3>1. CASE k + 1 <= Len(Regions)
      <4>1. Region(k + 1) /\ Base[k + 1] \in Nat /\ FirstBlock[k + 1] \in Nat
        BY <2>2, <3>1, RegionsAre DEF Region
      <4>2. Base[k + 1 + 1] \in Nat /\ FirstBlock[k + 1 + 1] \in Nat
        BY <1>1, <4>1, RegionsAre
      <4> QED
        BY <4>2
    <3> QED
      BY <3>1
  <2>3. Nat \subseteq S
    BY <2>1, <2>2, SetInduction
  <2>4. ASSUME NEW i \in Nat, 1 <= i, i <= Len(Regions) + 1
        PROVE  Base[i] \in Nat /\ FirstBlock[i] \in Nat
    <3>1. i - 1 \in Nat /\ i - 1 <= Len(Regions) /\ i - 1 + 1 = i
      BY <2>4, RegionsAre
    <3>2. i - 1 \in S
      BY <2>3, <3>1
    <3> QED
      BY <3>1, <3>2
  <2> QED
    BY <2>4
<1> QED
  BY <1>1, <1>2

(* Later regions begin later. *)
LEMMA RegionsAscend ==
    ASSUME NEW i \in Nat, NEW j \in Nat, 1 <= i, i <= j, j <= Len(Regions) + 1
    PROVE  Base[i] <= Base[j] /\ FirstBlock[i] <= FirstBlock[j]
<1> DEFINE S == {k \in Nat : i + k <= Len(Regions) + 1 =>
                                Base[i] <= Base[i + k] /\ FirstBlock[i] <= FirstBlock[i + k]}
<1>1. 0 \in S
  <2>1. i + 0 = i /\ Base[i] \in Nat /\ FirstBlock[i] \in Nat
    BY NextRegion
  <2> QED
    BY <2>1
<1>2. ASSUME NEW k \in Nat, k \in S PROVE k + 1 \in S
  <2>1. CASE i + (k + 1) <= Len(Regions) + 1
    <3> DEFINE m == i + k
    <3>1. Region(m) /\ m + 1 = i + (k + 1) /\ m \in Nat /\ m <= Len(Regions) + 1 /\ m + 1 <= Len(Regions) + 1 /\ 1 <= m
      BY <2>1, RegionsAre DEF Region
    <3>2. Base[i] <= Base[m] /\ FirstBlock[i] <= FirstBlock[m]
      BY <1>2, <2>1, RegionsAre
    <3> HIDE DEF m
    <3>3. Base[i] \in Nat /\ Base[m] \in Nat /\ FirstBlock[i] \in Nat /\ FirstBlock[m] \in Nat
      BY <3>1, NextRegion, RegionsAre
    <3>4. Base[m] <= Base[m + 1] /\ FirstBlock[m] <= FirstBlock[m + 1]
      <4> DEFINE p == Regions[m].blocks * Regions[m].size
      <4>1. Base[m + 1] = Base[m] + p /\ p \in Nat
        BY <3>1, NextRegion
      <4>2. FirstBlock[m + 1] = FirstBlock[m] + Regions[m].blocks /\ Regions[m].blocks \in Nat
        BY <3>1, NextRegion, RegionsAre
      <4> HIDE DEF p
      <4> QED
        BY <3>3, <4>1, <4>2
    <3>5. Base[m + 1] \in Nat /\ FirstBlock[m + 1] \in Nat
      BY <3>1, NextRegion
    <3>6. Base[i] <= Base[m + 1] /\ FirstBlock[i] <= FirstBlock[m + 1]
      BY <3>2, <3>3, <3>4, <3>5
    <3> QED
      BY <3>1, <3>6
  <2> QED
    BY <2>1
<1>3. j - i \in S /\ i + (j - i) = j
  <2>1. Nat \subseteq S
    BY <1>1, <1>2, SetInduction
  <2> HIDE DEF S
  <2> QED
    BY <2>1
<1> QED
  BY <1>3

LEMMA RegionFacts ==
    ASSUME NEW i, Region(i)
    PROVE  /\ i \in Nat /\ 1 <= i /\ i + 1 \in Nat /\ 1 <= i + 1
           /\ i <= Len(Regions) + 1 /\ i + 1 <= Len(Regions) + 1
           /\ i \in DOMAIN Regions
           /\ Regions[i].blocks \in Nat /\ 1 <= Regions[i].blocks
           /\ Regions[i].size \in Nat /\ 1 <= Regions[i].size
           /\ Base[i] \in Nat /\ Base[i + 1] \in Nat
           /\ FirstBlock[i] \in Nat /\ FirstBlock[i + 1] \in Nat
<1>1. /\ i \in Nat /\ 1 <= i /\ i + 1 \in Nat /\ 1 <= i + 1
      /\ i <= Len(Regions) + 1 /\ i + 1 <= Len(Regions) + 1
      /\ i \in DOMAIN Regions
  BY RegionsAre DEF Region
<1>2. /\ Regions[i].blocks \in Nat /\ 1 <= Regions[i].blocks
      /\ Regions[i].size \in Nat /\ 1 <= Regions[i].size
  BY RegionsAre
<1>3. Base[i] \in Nat /\ FirstBlock[i] \in Nat
  BY <1>1, NextRegion
<1>4. Base[i + 1] \in Nat /\ FirstBlock[i + 1] \in Nat
  BY <1>1, NextRegion
<1> QED
  BY <1>1, <1>2, <1>3, <1>4

(* Every word lies in a region ... *)
LEMMA WordInRegion ==
    ASSUME NEW a \in Addr
    PROVE  \E i : Region(i) /\ Base[i] <= a /\ a < Base[i + 1]
<1> DEFINE S == {k \in Nat : k <= Len(Regions) /\ a < Base[k + 1] =>
                                \E i : Region(i) /\ Base[i] <= a /\ a < Base[i + 1]}
<1>1. 0 \in S
  BY BaseIs DEF Addr
<1>2. ASSUME NEW k \in Nat, k \in S PROVE k + 1 \in S
  <2>1. CASE k + 1 <= Len(Regions) /\ a < Base[k + 1 + 1] /\ ~(a < Base[k + 1])
    <3>1. Region(k + 1) /\ Base[k + 1] \in Nat
      BY <2>1, RegionsAre, NextRegion DEF Region
    <3>2. Base[k + 1] <= a
      BY <2>1, <3>1 DEF Addr
    <3> QED
      BY <2>1, <3>1, <3>2
  <2>2. CASE k + 1 <= Len(Regions) /\ a < Base[k + 1]
    <3>1. k <= Len(Regions)
      BY <2>2, RegionsAre
    <3> QED
      BY <1>2, <2>2, <3>1
  <2> QED
    BY <2>1, <2>2
<1>3. Len(Regions) \in S
  <2>1. Nat \subseteq S
    BY <1>1, <1>2, SetInduction
  <2> HIDE DEF S
  <2> QED
    BY <2>1, RegionsAre
<1>4. a < Base[Len(Regions) + 1]
  <2>1. Base[Len(Regions) + 1] \in Nat
    BY NextRegion, RegionsAre
  <2> QED
    BY <2>1 DEF Addr, Size
<1> QED
  BY <1>3, <1>4

(* ... and in one only. *)
LEMMA OneRegion ==
    ASSUME NEW a \in Int, NEW i, NEW j, Region(i), Region(j),
           Base[i] <= a, a < Base[i + 1], Base[j] <= a, a < Base[j + 1]
    PROVE  i = j
<1>1. ASSUME NEW k, NEW m, Region(k), Region(m), k < m, a < Base[k + 1], Base[m] <= a
      PROVE  FALSE
  <2>1. /\ k + 1 \in Nat /\ m \in Nat /\ 1 <= k + 1 /\ k + 1 <= m /\ m <= Len(Regions) + 1
        /\ k + 1 <= Len(Regions) + 1 /\ 1 <= m
    BY <1>1, RegionsAre DEF Region
  <2>2. Base[k + 1] <= Base[m]
    BY <2>1, RegionsAscend
  <2>3. Base[k + 1] \in Nat /\ Base[m] \in Nat
    BY <2>1, NextRegion
  <2> QED
    BY <1>1, <2>2, <2>3
<1>2. i \in Nat /\ j \in Nat
  BY DEF Region
<1>3. ~(i < j)
  BY <1>1
<1>4. ~(j < i)
  BY <1>1
<1> QED
  BY <1>2, <1>3, <1>4

(* The words of block d of region i: what find_block finds for them. *)
LEMMA BlockOfRegion ==
    ASSUME NEW i, Region(i), NEW d \in Nat, d < Regions[i].blocks, NEW x \in Int,
           Base[i] + d * Regions[i].size <= x, x < Base[i] + d * Regions[i].size + Regions[i].size
    PROVE  /\ x \in Addr
           /\ FindBlock(x).block = FirstBlock[i] + d
           /\ FindBlock(x).left = Base[i] + d * Regions[i].size + Regions[i].size - x
<1> DEFINE s == Regions[i].size
           b == Regions[i].blocks
<1>1. i \in Nat /\ s \in Nat /\ 1 <= s /\ b \in Nat /\ 1 <= b /\ Base[i] \in Nat
  BY RegionsAre, NextRegion DEF Region
<1>2. d * s \in Nat /\ d * s + s <= b * s /\ b * s \in Nat
  BY <1>1, Products
<1>3. Base[i + 1] = Base[i] + b * s
  BY NextRegion
<1>4. Base[i] <= x /\ x < Base[i + 1]
  <2> HIDE DEF s, b
  <2>1. Base[i] + d * s <= x /\ x < Base[i] + d * s + s
    BY DEF s
  <2> QED
    BY <1>1, <1>2, <1>3, <2>1
<1>5. x \in Addr
  <2>1. i + 1 \in Nat /\ 1 <= i + 1 /\ i + 1 <= Len(Regions) + 1 /\ Len(Regions) + 1 \in Nat
    BY RegionsAre DEF Region
  <2>2. Base[i + 1] <= Base[Len(Regions) + 1]
    BY <2>1, RegionsAscend
  <2>3. Base[Len(Regions) + 1] \in Nat /\ Base[i + 1] \in Nat
    BY <2>1, NextRegion, RegionsAre
  <2> QED
    BY <1>1, <1>4, <2>2, <2>3 DEF Addr, Size
<1>6. (CHOOSE j \in DOMAIN Regions : Base[j] <= x /\ x < Base[j + 1]) = i
  <2>1. i \in DOMAIN Regions
    BY <1>1, RegionsAre DEF Region
  <2>2. ASSUME NEW j \in DOMAIN Regions, Base[j] <= x, x < Base[j + 1] PROVE j = i
    <3>1. Region(j)
      BY RegionsAre DEF Region
    <3> QED
      BY <1>4, <2>2, <3>1, OneRegion
  <2> QED
    BY <1>4, <2>1, <2>2
<1>7. (x - Base[i]) \div s = d
  <2>1. x - Base[i] \in Nat /\ d * s <= x - Base[i] /\ x - Base[i] < d * s + s
    <3> HIDE DEF s
    <3>1. Base[i] + d * s <= x /\ x < Base[i] + d * s + s
      BY DEF s
    <3> QED
      BY <1>1, <1>2, <1>4, <3>1
  <2> HIDE DEF s
  <2> QED
    BY <1>1, <2>1, QuotientIs
<1>8. Found[x] = [block |-> FirstBlock[i] + d, left |-> Base[i] + (d + 1) * s - x]
  <2>1. Found[x] =
          LET k == CHOOSE j \in DOMAIN Regions : Base[j] <= x /\ x < Base[j + 1]
              q == (x - Base[k]) \div Regions[k].size
          IN [block |-> FirstBlock[k] + q, left |-> Base[k] + (q + 1) * Regions[k].size - x]
    BY <1>5 DEF Found
  <2> QED
    BY <1>6, <1>7, <2>1
<1>9. (d + 1) * s = d * s + s
  BY <1>1, Products
<1>10. FindBlock(x) = [block |-> FirstBlock[i] + d, left |-> Base[i] + (d * s + s) - x]
  BY <1>5, <1>8, <1>9 DEF FindBlock
<1>11. Base[i] + (d * s + s) - x = Base[i] + d * s + s - x
  <2> HIDE DEF s
  <2> QED
    BY <1>1, <1>2
<1> QED
  BY <1>5, <1>10, <1>11

(* Every word lies in a block of a region. *)
LEMMA WordInBlock ==
    ASSUME NEW a \in Addr
    PROVE  \E i : Region(i) /\ \E d \in Nat :
              /\ d < Regions[i].blocks
              /\ Base[i] + d * Regions[i].size <= a
              /\ a < Base[i] + d * Regions[i].size + Regions[i].size
<1>1. PICK i : Region(i) /\ Base[i] <= a /\ a < Base[i + 1]
  BY WordInRegion
<1> DEFINE s == Regions[i].size
           b == Regions[i].blocks
           d == (a - Base[i]) \div s
<1>2. i \in Nat /\ s \in Nat /\ 1 <= s /\ b \in Nat /\ 1 <= b /\ Base[i] \in Nat
  BY <1>1, RegionFacts
<1>3. a \in Nat /\ a - Base[i] \in Nat
  <2>1. a \in Nat
    BY NextRegion, RegionsAre DEF Addr, Size
  <2> QED
    BY <1>1, <1>2, <2>1
<1>4. d \in Nat /\ d * s <= a - Base[i] /\ a - Base[i] < d * s + s
  <2> HIDE DEF s
  <2> QED
    BY <1>2, <1>3, Quotients
<1> HIDE DEF d
<1>5. Base[i + 1] = Base[i] + b * s /\ b * s \in Nat /\ d * s \in Nat
  BY <1>1, <1>2, <1>4, NextRegion, Products
<1>6. d < b
  <2>1. b < d => b * s + s <= d * s
    BY <1>2, <1>4, Products
  <2> HIDE DEF s, b
  <2>2. a - Base[i] < b * s
    BY <1>1, <1>2, <1>3, <1>5
  <2> QED
    BY <1>2, <1>3, <1>4, <1>5, <2>1, <2>2
<1>7. Base[i] + d * s <= a /\ a < Base[i] + d * s + s
  <2> HIDE DEF s
  <2> QED
    BY <1>2, <1>3, <1>4, <1>5
<1> QED
  BY <1>1, <1>4, <1>6, <1>7

(* Blocks have numbers, and all words before the end of a block are of it. *)
LEMMA BlockRest ==
    ASSUME NEW a \in Addr
    PROVE  LET b == a + FindBlock(a).left
           IN /\ Block(a) \in Nat
              /\ FindBlock(a).left \in Nat /\ 1 <= FindBlock(a).left
              /\ \A x \in Int : a <= x /\ x < b => x \in Addr /\ Block(x) = Block(a)
              /\ \/ b \in Addr /\ Block(b) = Block(a) + 1
                 \/ b = Size /\ Block(a) + 1 \notin Blocks
<1>1. PICK i : Region(i) /\ \E d \in Nat :
                  /\ d < Regions[i].blocks
                  /\ Base[i] + d * Regions[i].size <= a
                  /\ a < Base[i] + d * Regions[i].size + Regions[i].size
  BY WordInBlock
<1>2. PICK d \in Nat : /\ d < Regions[i].blocks
                       /\ Base[i] + d * Regions[i].size <= a
                       /\ a < Base[i] + d * Regions[i].size + Regions[i].size
  BY <1>1
<1> DEFINE s == Regions[i].size
           n == Regions[i].blocks
           b == Base[i] + d * s + s
<1>3. /\ i \in Nat /\ s \in Nat /\ 1 <= s /\ n \in Nat /\ 1 <= n /\ Base[i] \in Nat /\ FirstBlock[i] \in Nat
      /\ d * s \in Nat /\ a \in Int
  <2>1. /\ i \in Nat /\ s \in Nat /\ 1 <= s /\ n \in Nat /\ 1 <= n /\ Base[i] \in Nat
        /\ FirstBlock[i] \in Nat
    BY <1>1, RegionFacts
  <2>2. d * s \in Nat
    BY <2>1, Products
  <2> QED
    BY <2>1, <2>2 DEF Addr
<1>4. Block(a) = FirstBlock[i] + d /\ FindBlock(a).left = b - a
  BY <1>1, <1>2, <1>3, BlockOfRegion DEF Block
<1>5. Block(a) \in Nat /\ FindBlock(a).left \in Nat /\ 1 <= FindBlock(a).left /\ a + FindBlock(a).left = b
  <2> HIDE DEF s
  <2>1. a < b
    BY <1>2 DEF s
  <2> QED
    BY <1>3, <1>4, <2>1
<1>6. ASSUME NEW x \in Int, a <= x, x < b PROVE x \in Addr /\ Block(x) = Block(a)
  <2>1. Base[i] + d * s <= x
    <3> HIDE DEF s
    <3>1. Base[i] + d * s <= a
      BY <1>2 DEF s
    <3> QED
      BY <1>3, <1>6, <3>1
  <2> QED
    BY <1>1, <1>2, <1>4, <1>6, <2>1, BlockOfRegion DEF Block
<1>7. (d + 1) * s = d * s + s
  BY <1>3, Products
<1>8. CASE d + 1 < n
  <2>1. Base[i] + (d + 1) * s = b /\ b < b + s /\ b \in Int
    <3> HIDE DEF s
    <3> QED
      BY <1>3, <1>7
  <2>2. b \in Addr /\ Block(b) = FirstBlock[i] + (d + 1)
    <3>1. Base[i] + (d + 1) * s <= b /\ b < Base[i] + (d + 1) * s + s
      BY <2>1
    <3> HIDE DEF b
    <3> QED
      BY <1>1, <1>3, <1>8, <2>1, <3>1, BlockOfRegion DEF Block
  <2> QED
    BY <1>3, <1>4, <1>5, <1>6, <2>2
<1>9. CASE d + 1 = n
  <2>1. Base[i + 1] = b /\ FirstBlock[i + 1] = Block(a) + 1
    <3>1. Base[i + 1] = Base[i] + n * s /\ FirstBlock[i + 1] = FirstBlock[i] + n
      BY <1>1, NextRegion
    <3>2. n * s = d * s + s
      BY <1>7, <1>9
    <3> HIDE DEF s, n
    <3> QED
      BY <1>3, <1>4, <1>9, <3>1, <3>2
  <2>2. CASE Region(i + 1)
    <3> DEFINE t == Regions[i + 1].size
    <3>1. t \in Nat /\ 1 <= t /\ 0 < Regions[i + 1].blocks /\ 0 * t = 0 /\ b \in Nat
      BY <2>1, <2>2, NextRegion, RegionsAre, SMT DEF Region
    <3>2. Base[i + 1] + 0 * t <= b /\ b < Base[i + 1] + 0 * t + t
      BY <2>1, <3>1
    <3>3. b \in Addr /\ Block(b) = FirstBlock[i + 1] + 0
      <4> HIDE DEF b
      <4> QED
        BY <2>2, <3>1, <3>2, BlockOfRegion DEF Block
    <3>4. Block(b) = Block(a) + 1
      BY <1>5, <2>1, <3>3
    <3> QED
      BY <1>5, <1>6, <3>3, <3>4
  <2>3. CASE ~Region(i + 1)
    <3>1. i = Len(Regions)
      <4>1. i \in Nat /\ 1 <= i /\ i <= Len(Regions) /\ Len(Regions) \in Nat
        BY <1>1, RegionsAre DEF Region
      <4>2. ~(i + 1 <= Len(Regions))
        BY <2>3, <4>1 DEF Region
      <4> QED
        BY <4>1, <4>2
    <3>2. b = Size
      BY <2>1, <3>1 DEF Size
    <3>3. ASSUME Block(a) + 1 \in Blocks PROVE FALSE
      <4>1. PICK x \in Addr : Block(x) = Block(a) + 1
        BY <3>3 DEF Blocks
      <4>2. PICK j : Region(j) /\ \E e \in Nat :
                  /\ e < Regions[j].blocks
                  /\ Base[j] + e * Regions[j].size <= x
                  /\ x < Base[j] + e * Regions[j].size + Regions[j].size
        BY WordInBlock
      <4>3. PICK e \in Nat : /\ e < Regions[j].blocks
                             /\ Base[j] + e * Regions[j].size <= x
                             /\ x < Base[j] + e * Regions[j].size + Regions[j].size
        BY <4>2
      <4>4. x \in Int
        BY DEF Addr
      <4>5. Block(x) = FirstBlock[j] + e
        BY <4>2, <4>3, <4>4, BlockOfRegion DEF Block
      <4>6. /\ j \in Nat /\ 1 <= j + 1 /\ j + 1 <= i + 1 /\ i + 1 <= Len(Regions) + 1 /\ FirstBlock[j] \in Nat
            /\ FirstBlock[j + 1] = FirstBlock[j] + Regions[j].blocks /\ Regions[j].blocks \in Nat
        <5>1. Region(j)
          BY <4>2
        <5>2. j \in Nat /\ 1 <= j + 1 /\ FirstBlock[j] \in Nat /\ Regions[j].blocks \in Nat
          BY <5>1, RegionFacts
        <5>3. FirstBlock[j + 1] = FirstBlock[j] + Regions[j].blocks
          BY <5>1, NextRegion
        <5>4. j + 1 <= i + 1 /\ i + 1 <= Len(Regions) + 1
          BY <3>1, <5>1, RegionsAre DEF Region
        <5> QED
          BY <5>2, <5>3, <5>4
      <4>7. FirstBlock[j + 1] <= FirstBlock[i + 1]
        <5>1. i + 1 \in Nat /\ j + 1 \in Nat
          BY <1>3, <4>6
        <5> QED
          BY <4>6, <5>1, RegionsAscend
      <4>8. FirstBlock[j + 1] \in Nat /\ FirstBlock[i + 1] \in Nat
        BY <1>1, <4>2, RegionFacts
      <4> QED
        BY <2>1, <4>1, <4>3, <4>5, <4>6, <4>7, <4>8
    <3> QED
      BY <1>5, <1>6, <3>2, <3>3
  <2> QED
    BY <2>2, <2>3
<1>10. d + 1 < n \/ d + 1 = n
  <2> HIDE DEF n
  <2>1. d < n
    BY <1>2 DEF n
  <2> QED
    BY <1>3, <2>1
<1> QED
  BY <1>8, <1>9, <1>10

LEMMA SizeIsNat == Size \in Nat /\ 1 <= Size
<1>1. Region(1) /\ Base[1] = 0
  BY RegionsAre, BaseIs DEF Region
<1>2. Base[2] \in Nat /\ 1 <= Base[2]
  <2>1. Base[1 + 1] = Base[1] + Regions[1].blocks * Regions[1].size
    BY <1>1, NextRegion
  <2>2. Regions[1].blocks * Regions[1].size \in Nat /\ 1 <= Regions[1].blocks * Regions[1].size
    BY <1>1, NextRegion
  <2> QED
    BY <1>1, <2>1, <2>2
<1>3. 2 <= Len(Regions) + 1 /\ Len(Regions) + 1 \in Nat
  BY RegionsAre
<1>4. Base[2] <= Base[Len(Regions) + 1] /\ Base[Len(Regions) + 1] \in Nat
  BY <1>3, RegionsAscend, NextRegion
<1> QED
  BY <1>2, <1>4 DEF Size

(* No word, no block. *)
LEMMA NoBlockThere ==
    ASSUME NEW a
    PROVE  /\ a \in Addr <=> FindBlock(a) # NoBlock
           /\ a \notin Addr => Block(a) = -1 /\ FindBlock(a).left = Chunk
           /\ -1 \notin Blocks /\ 0 \in Blocks
<1>1. ASSUME a \in Addr PROVE FindBlock(a) # NoBlock
  <2>1. FindBlock(a).block \in Nat
    BY <1>1, BlockRest DEF Block
  <2> QED
    BY <2>1 DEF NoBlock
<1>2. -1 \notin Blocks
  BY BlockRest DEF Blocks
<1>3. 0 \in Blocks
  <2>1. Region(1) /\ Base[1] = 0 /\ FirstBlock[1] = 0
    BY RegionsAre, BaseIs, FirstBlockIs DEF Region
  <2>2. Regions[1].size \in Nat /\ 1 <= Regions[1].size /\ 0 < Regions[1].blocks
    BY <2>1, RegionsAre
  <2>3. 0 * Regions[1].size = 0
    BY <2>2, SMT
  <2>4. 0 \in Addr /\ FindBlock(0).block = FirstBlock[1] + 0
    BY <2>1, <2>2, <2>3, BlockOfRegion
  <2>5. Block(0) = 0
    BY <2>1, <2>4 DEF Block
  <2> QED
    BY <2>4, <2>5 DEF Blocks
<1> QED
  BY <1>1, <1>2, <1>3 DEF FindBlock, Block, NoBlock

-----------------------------------------------------------------------------
(* The inductive invariants. *)

(* The places of the commands, and those of them that flashmem writes at. *)
Pcs == {"idle", "block", "chunk", "unlock", "unlocking", "lock", "locking", "erase", "erasing",
        "program", "buffer", "programming", "verify"}

BlockCommands == {"erase", "lock", "unlock"}

Writing == {"unlock", "unlocking", "erase", "erasing", "program", "buffer", "programming"}

(* Operations for a block, and for the words they program. *)
BlockOps == [op : BlockCommands, block : Blocks, at : Addr, bit7 : BOOLEAN, buffer : BOOLEAN]

WordSets == UNION {[A -> SUBSET Bits] : A \in SUBSET Addr}

ProgramOps == [op : {"program"}, buffer : BOOLEAN, at : Addr, bit7 : BOOLEAN, words : WordSets]

(* Chips, and commands. *)
ChipStates ==
    [cells : [Addr -> SUBSET Bits], locked : SUBSET Blocks, busy : {None} \cup BlockOps \cup ProgramOps,
     stuck : BOOLEAN, bypass : BOOLEAN, sr : SUBSET {"erase", "program", "unlock", "lock", "locked"},
     mode : {"array", "status", "identifier"}]

Tasks ==
    [cmd : {"none", "flashmem"} \cup BlockCommands, at : Nat, next : Nat, file : Seq(SUBSET Bits),
     verify : BOOLEAN, pos : Nat, eof : BOOLEAN, count : Nat, number : Nat,
     status : {"ok", "fail"}, result : {"none", "ok", "fail"}]

(* Calls of program(), and what is left of them. *)
Calls == [at : Nat, words : Seq(SUBSET Bits)]

(* The types of the variables. *)
Typed ==
    /\ driver \in Drivers /\ faults \in BOOLEAN /\ buffered \in Buffered /\ multi \in BOOLEAN
    /\ chip \in [Chips -> ChipStates]
    /\ task \in Tasks
    /\ pc \in Pcs
    /\ call \in Calls /\ todo \in Calls
    /\ issued \in {NoOp} \cup BlockOps \cup ProgramOps
    /\ polls \in 0 .. Polls
    /\ content \in SUBSET Bits

(* Which command is where, and the operation waited for. *)
Placed ==
    /\ pc \in {"chunk", "program", "buffer", "programming", "verify"} => task.cmd = "flashmem"
    /\ pc = "block" => task.cmd \in BlockCommands
    /\ pc \in {"lock", "locking"} => task.cmd = "lock"
    /\ pc \in {"unlock", "unlocking"} => task.cmd \in {"flashmem", "erase", "unlock"}
    /\ pc \in {"erase", "erasing"} => task.cmd \in {"flashmem", "erase"}

(* A command for blocks is as many blocks from its first as it has counted.  *)
BlocksCounted ==
    pc # "idle" /\ task.cmd \in BlockCommands =>
        /\ task.number <= task.count
        /\ task.next \in Addr => Block(task.next) = Block(task.at) + (task.count - task.number)
        /\ task.next \notin Addr => Block(task.at) + (task.count - task.number) \notin Blocks
        /\ pc # "block" => task.next \in Addr /\ 1 <= task.number

(* Words of a file where it puts them. *)
OfFile(at, words) == \A i \in 1 .. Len(words) : words[i] = task.file[at - task.at + i]

(* The file lies within the flash, what was read of it is what the call of   *)
(* program() under way has, and lies in one block.                           *)
FilePlaced ==
    task.cmd = "flashmem" =>
        /\ task.at + Len(task.file) <= Size
        /\ task.pos <= Len(task.file)
        /\ task.eof => task.pos = Len(task.file)
        /\ pc = "idle" /\ task.result = "ok" => task.pos = Len(task.file)
        /\ pc = "verify" => /\ task.pos = Len(task.file)
                            /\ task.at <= task.next /\ task.next <= task.at + Len(task.file)
        /\ pc = "chunk" => task.next = task.at + task.pos
        /\ pc \in Writing =>
              /\ task.next = call.at /\ task.at <= call.at /\ call.at < task.at + task.pos
              /\ call.at + Len(call.words) = task.at + task.pos /\ OfFile(call.at, call.words)
              /\ call.at <= todo.at
              /\ todo.at + Len(todo.words) = task.at + task.pos /\ OfFile(todo.at, todo.words)
              /\ \A x \in Addr : call.at <= x /\ x < task.at + task.pos => Block(x) = Block(call.at)
        /\ pc \in {"unlock", "unlocking", "erase", "erasing"} => todo = call
        /\ pc = "buffer" => todo.words # << >> /\ multi /\ driver = "intel"

(* The operation issued last is the one that is waited for. *)
OperationIssued ==
    /\ pc = "erasing" => /\ issued.op = "erase" /\ issued.block = Block(task.next) /\ issued.at = task.next
                         /\ issued.bit7 /\ ~issued.buffer
    /\ pc = "unlocking" => issued.op = "unlock" /\ issued.block = Block(task.next)
    /\ pc = "programming" => issued.op = "program"
    /\ issued.op = "program" =>
          /\ task.cmd = "flashmem"
          /\ issued.buffer => driver \in {"intel", "amd"}
          /\ issued.at \in DOMAIN issued.words
          /\ issued.bit7 = (7 \in issued.words[issued.at])
          /\ \A x \in DOMAIN issued.words :
                /\ task.at <= x /\ x < task.at + task.pos
                /\ issued.words[x] = task.file[x - task.at + 1]

(* How the variables of the model belong together. *)
Shape == Typed /\ Placed /\ BlocksCounted /\ FilePlaced /\ OperationIssued

(* What chips do and did lies in blocks of the commands given. *)
Touching ==
    /\ OnlyItsBlocks
    /\ NamedBlocks(task) \subseteq named
    /\ \A l \in Chips, a \in Addr : a \in Touched(chip[l].busy) => Block(a) \in named

(* Chips that tell a refusal or cannot fail. *)
Telling == driver \in Intel \/ ~faults

(* Where chips may be at work. *)
Waiting == {"unlocking", "locking", "erasing", "programming"}

(* Otherwise they are settled: those that tell or cannot fail are idle, or   *)
(* at work on what was issued last and is waited for.                        *)
Settled ==
    /\ pc = "unlocking" => driver \in Intel
    /\ pc = "locking" => driver = "intel" /\ issued.op = "lock"
    /\ \A l \in Chips : /\ chip[l].stuck => faults /\ driver \notin Intel /\ chip[l].busy # None
                        /\ driver \notin Intel => /\ chip[l].sr = {} /\ chip[l].busy.op # "lock"
                                                  /\ ~faults => chip[l].locked = {}
                        /\ Telling /\ chip[l].busy # None => chip[l].busy = issued
    /\ Telling => \/ AllIdle
                  \/ pc \in Waiting
                  \/ /\ pc \in {"program", "buffer"} /\ todo.words # << >> /\ multi /\ driver = "intel"
                     /\ issued.op = "program"
    /\ task.cmd = "flashmem" /\ 0 < task.pos /\ (pc \in {"chunk", "verify"} \/ Succeeded) => AllIdle
    /\ pc = "program" /\ todo.words = << >> => AllIdle
    /\ pc = "verify" /\ 0 < task.pos => \A l \in Chips : chip[l].mode = "array"

(* The mode the driver takes the chips for: only an Am29LV040B is ever in     *)
(* unlock bypass mode, and chips that do not fail are when it thinks so.     *)
Agreed ==
    /\ bypassing \in BOOLEAN
    /\ ~Short => ~bypassing /\ \A l \in Chips : ~chip[l].bypass
    /\ ~faults => \A l \in Chips : chip[l].bypass = bypassing

(* The blocks eraseflash has counted as erased are. *)
CountedErased ==
    task.cmd = "erase" /\ Telling =>
        /\ (pc # "idle" \/ task.result = "ok") /\ task.status = "ok" =>
              \A l \in Chips, a \in Addr :
                  Block(task.at) <= Block(a) /\ Block(a) < Block(task.at) + (task.count - task.number)
                      => chip[l].cells[a] = Bits
        /\ pc = "erasing" =>
              \A l \in Chips : \/ chip[l].busy # None \/ chip[l].sr # {}
                               \/ \A a \in Addr : Block(a) = issued.block => chip[l].cells[a] = Bits
        /\ Succeeded => task.number = 0 /\ task.status = "ok"

(* What was verified is so. *)
Verified ==
    task.cmd = "flashmem" =>
        /\ pc = "verify" \/ (Succeeded /\ task.verify) =>
              \A l \in Chips, x \in Addr :
                  task.at <= x /\ x < (IF pc = "verify" THEN task.next ELSE task.at + Len(task.file))
                      => chip[l].cells[x] = task.file[x - task.at + 1]

(* Where flashmem is: the first word it did not yet give to the chips. *)
Reached == IF pc \in Writing THEN todo.at ELSE task.at + task.pos

(* The check of intel's lockflash has an answer of the flash. *)
Answered == task.cmd = "lock" /\ driver = "intel" => atZero

(* Without faults no operation is refused. *)
NeverRefused ==
    /\ \A l \in Chips : chip[l].sr = {}
    /\ pc # "idle" /\ Answered => task.status = "ok"
    /\ FlawlessSucceeds
    /\ pc \in {"erase", "erasing"} => \A l \in Chips : Block(task.next) \notin chip[l].locked
    /\ pc = "unlocking" => \A l \in Chips : chip[l].busy # None \/ Block(task.next) \notin chip[l].locked
    /\ pc = "erasing" => \A l \in Chips : \/ chip[l].busy # None
                                          \/ \A a \in Addr : Block(a) = issued.block => chip[l].cells[a] = Bits

(* Without faults the chips have what was written of the file, or get it,    *)
(* and the rest of the blocks that were erased is empty.                     *)
FileWritten ==
    task.cmd = "flashmem" /\ (pc # "idle" \/ task.result = "ok") =>
        /\ \A l \in Chips, b \in erased : b \notin chip[l].locked
        /\ pc \in {"unlock", "unlocking", "erase", "erasing"} => Block(call.at) \notin erased
        /\ pc \in {"program", "buffer", "programming"} => Block(call.at) \in erased
        /\ \A x \in Addr : task.at <= x /\ x < Reached => Block(x) \in erased
        /\ \A l \in Chips, x \in Addr :
              /\ task.at <= x /\ x < Reached =>
                    \/ chip[l].cells[x] = task.file[x - task.at + 1]
                    \/ /\ chip[l].busy # None /\ issued.op = "program" /\ x \in DOMAIN issued.words
                       /\ chip[l].cells[x] = Bits
              /\ Reached <= x /\ Block(x) \in erased => chip[l].cells[x] = Bits
        /\ issued.op = "program" /\ ~AllIdle => \A x \in DOMAIN issued.words : x < Reached
        /\ pc = "programming" => \A x \in DOMAIN issued.words : x < Reached

(* Without faults all goes well. *)
Flawless == ~faults => NeverRefused /\ FileWritten

-----------------------------------------------------------------------------
(* What the operators of the model do. *)

LEMMA LanesAre == Chips \in SUBSET {1, 2} /\ 1 \in Chips /\ (driver \in {"intel", "amd", "amd040"} => Chips = {1})
  BY DEF Chips, Lanes

LEMMA MinOfTwo ==
    ASSUME NEW a \in Int, NEW b \in Int
    PROVE  Min({a, b}) = IF a <= b THEN a ELSE b
<1> DEFINE m == IF a <= b THEN a ELSE b
<1>1. m \in {a, b} /\ \A y \in {a, b} : m <= y
  OBVIOUS
<1>2. \A x \in {a, b} : (\A y \in {a, b} : x <= y) => x = m
  OBVIOUS
<1> HIDE DEF m
<1>3. Min({a, b}) = m
  BY <1>1, <1>2 DEF Min
<1> QED
  BY <1>3 DEF m

LEMMA ClearedIs ==
    ASSUME chip \in [Chips -> ChipStates]
    PROVE  /\ Cleared \in [Chips -> ChipStates]
           /\ \A l \in Chips : /\ Cleared[l].cells = chip[l].cells /\ Cleared[l].locked = chip[l].locked
                               /\ Cleared[l].busy = chip[l].busy /\ Cleared[l].stuck = chip[l].stuck
                               /\ Cleared[l].mode = chip[l].mode /\ Cleared[l].bypass = chip[l].bypass
                               /\ Cleared[l].sr = IF Idle(chip[l]) THEN {} ELSE chip[l].sr
  BY DEF Cleared, ChipStates

LEMMA BypassIs ==
    ASSUME chip \in [Chips -> ChipStates], NEW on \in BOOLEAN
    PROVE  /\ Bypass(on) \in [Chips -> ChipStates]
           /\ \A l \in Chips : /\ Bypass(on)[l].cells = chip[l].cells /\ Bypass(on)[l].locked = chip[l].locked
                               /\ Bypass(on)[l].busy = chip[l].busy /\ Bypass(on)[l].stuck = chip[l].stuck
                               /\ Bypass(on)[l].sr = chip[l].sr
                               /\ Bypass(on)[l].bypass = IF Idle(chip[l]) THEN on ELSE chip[l].bypass
  BY DEF Bypass, ChipStates

LEMMA IssuedIs ==
    ASSUME NEW chips \in [Chips -> ChipStates], NEW op \in BlockOps \cup ProgramOps
    PROVE  /\ Issued(chips, op) \in [Chips -> ChipStates]
           /\ \A l \in Chips : /\ Issued(chips, op)[l].cells = chips[l].cells
                               /\ Issued(chips, op)[l].locked = chips[l].locked
                               /\ Issued(chips, op)[l].stuck = chips[l].stuck
                               /\ Issued(chips, op)[l].sr = chips[l].sr
                               /\ Issued(chips, op)[l].bypass = chips[l].bypass
                               /\ Issued(chips, op)[l].busy =
                                     IF Idle(chips[l]) /\ Takes(chips[l], op) THEN op ELSE chips[l].busy
<1> SUFFICES ASSUME NEW l \in Chips
             PROVE  /\ Issued(chips, op)[l] \in ChipStates
                    /\ Issued(chips, op)[l].cells = chips[l].cells /\ Issued(chips, op)[l].locked = chips[l].locked
                    /\ Issued(chips, op)[l].stuck = chips[l].stuck /\ Issued(chips, op)[l].sr = chips[l].sr
                    /\ Issued(chips, op)[l].bypass = chips[l].bypass
                    /\ Issued(chips, op)[l].busy =
                          IF Idle(chips[l]) /\ Takes(chips[l], op) THEN op ELSE chips[l].busy
  BY DEF Issued
<1> DEFINE takes == Idle(chips[l]) /\ Takes(chips[l], op)
           mode == IF driver \in Intel THEN "status" ELSE chips[l].mode
<1>1. Issued(chips, op)[l] = IF takes THEN [chips[l] EXCEPT !.busy = op, !.mode = mode] ELSE chips[l]
  BY DEF Issued
<1>2. chips[l] \in ChipStates /\ mode \in {"array", "status", "identifier"}
  BY DEF ChipStates
<1> HIDE DEF takes, mode
<1>3. /\ Issued(chips, op)[l] \in ChipStates
      /\ Issued(chips, op)[l].cells = chips[l].cells /\ Issued(chips, op)[l].locked = chips[l].locked
      /\ Issued(chips, op)[l].stuck = chips[l].stuck /\ Issued(chips, op)[l].sr = chips[l].sr
      /\ Issued(chips, op)[l].bypass = chips[l].bypass
      /\ Issued(chips, op)[l].busy = IF takes THEN op ELSE chips[l].busy
  BY <1>1, <1>2 DEF ChipStates
<1> QED
  BY <1>3 DEF takes

LEMMA OpsAreBusy ==
    /\ \A o \in BlockOps \cup ProgramOps : o # None /\ o # NoOp /\ o.op \notin {"none"}
    /\ None.op = "none" /\ NoOp.op = "none"
    /\ \A o \in BlockOps : o.op \in BlockCommands /\ o.op # "program" /\ o.block \in Blocks /\ o.at \in Addr
    /\ \A o \in ProgramOps : o.op = "program" /\ o.at \in Addr
<1>1. \A o \in BlockOps : o.op \in BlockCommands /\ o.block \in Blocks /\ o.at \in Addr
  BY DEF BlockOps
<1>2. \A o \in ProgramOps : o.op = "program" /\ o.at \in Addr
  BY DEF ProgramOps
<1>3. None.op = "none" /\ NoOp.op = "none"
  BY DEF None, NoOp
<1> QED
  BY <1>1, <1>2, <1>3 DEF BlockCommands

(* Chips are reset: those that are idle stay so and show their array, those  *)
(* that failed are idle again.                                               *)
LEMMA ResetIs ==
    ASSUME NEW chips \in [Chips -> ChipStates]
    PROVE  /\ Reset(chips) \in [Chips -> ChipStates]
           /\ \A l \in Chips :
                 /\ Reset(chips)[l].cells = chips[l].cells /\ Reset(chips)[l].locked = chips[l].locked
                 /\ Reset(chips)[l].sr = chips[l].sr /\ Reset(chips)[l].bypass = chips[l].bypass
                 /\ Idle(chips[l]) => Reset(chips)[l].mode = "array"
                 /\ ~Reset(chips)[l].stuck
                 /\ Reset(chips)[l].busy = IF chips[l].stuck THEN None ELSE chips[l].busy
<1> SUFFICES ASSUME NEW l \in Chips
             PROVE  /\ Reset(chips)[l] \in ChipStates
                    /\ Reset(chips)[l].cells = chips[l].cells /\ Reset(chips)[l].locked = chips[l].locked
                    /\ Reset(chips)[l].sr = chips[l].sr /\ Reset(chips)[l].bypass = chips[l].bypass
                    /\ Idle(chips[l]) => Reset(chips)[l].mode = "array"
                    /\ ~Reset(chips)[l].stuck
                    /\ Reset(chips)[l].busy = IF chips[l].stuck THEN None ELSE chips[l].busy
  BY DEF Reset
<1> DEFINE c == chips[l]
<1>1. c \in ChipStates /\ (Idle(c) => c.busy = None /\ ~c.stuck)
  BY DEF Idle
<1>2. Reset(chips)[l] = IF Idle(c) THEN [c EXCEPT !.mode = "array"]
                        ELSE IF c.stuck THEN [c EXCEPT !.mode = "array", !.stuck = FALSE, !.busy = None] ELSE c
  BY DEF Reset
<1> DEFINE r == Reset(chips)[l]
           idle == Idle(c)
<1> SUFFICES /\ r \in ChipStates /\ r.cells = c.cells /\ r.locked = c.locked /\ r.sr = c.sr
             /\ r.bypass = c.bypass /\ (idle => r.mode = "array") /\ ~r.stuck
             /\ r.busy = IF c.stuck THEN None ELSE c.busy
  OBVIOUS
<1> HIDE DEF c, r, idle
<1>3. CASE idle
  <2>1. r = [c EXCEPT !.mode = "array"] /\ ~c.stuck
    BY <1>1, <1>2, <1>3 DEF c, r, idle
  <2> QED
    BY <1>1, <2>1 DEF ChipStates
<1>4. CASE ~idle /\ c.stuck
  <2> DEFINE no == FALSE
             free == None
             d == [c EXCEPT !.mode = "array", !.stuck = no, !.busy = free]
  <2>1. r = d
    BY <1>2, <1>4 DEF c, r, idle
  <2>2. no \in BOOLEAN /\ ~no /\ free \in {None} \cup BlockOps \cup ProgramOps
    OBVIOUS
  <2> HIDE DEF no, free
  <2>3. /\ d \in ChipStates /\ d.cells = c.cells /\ d.locked = c.locked /\ d.sr = c.sr /\ d.bypass = c.bypass
        /\ d.busy = free /\ d.stuck = no
    BY <1>1, <2>2 DEF ChipStates
  <2> QED
    BY <1>4, <2>1, <2>2, <2>3 DEF free
<1>5. CASE ~idle /\ ~c.stuck
  <2>1. r = c
    BY <1>2, <1>5 DEF c, r, idle
  <2> QED
    BY <1>1, <1>5, <2>1
<1> QED
  BY <1>3, <1>4, <1>5

(* Back to the array: out of unlock bypass mode, and reset. *)
LEMMA InArrayIs ==
    ASSUME chip \in [Chips -> ChipStates]
    PROVE  /\ InArray \in [Chips -> ChipStates]
           /\ \A l \in Chips :
                 /\ InArray[l].cells = chip[l].cells /\ InArray[l].locked = chip[l].locked
                 /\ InArray[l].sr = chip[l].sr
                 /\ InArray[l].bypass = IF bypassing /\ Idle(chip[l]) THEN FALSE ELSE chip[l].bypass
                 /\ Idle(chip[l]) => /\ InArray[l].mode = "array"
                                     /\ InArray[l].busy = chip[l].busy /\ InArray[l].stuck = chip[l].stuck
                 /\ ~InArray[l].stuck
                 /\ InArray[l].busy = IF chip[l].stuck THEN None ELSE chip[l].busy
<1> DEFINE no == FALSE
           chips == IF bypassing THEN Bypass(no) ELSE chip
<1>1. InArray = Reset(chips)
  BY DEF InArray
<1>2. no \in BOOLEAN /\ ~no
  OBVIOUS
<1> HIDE DEF no
<1>3. /\ chips \in [Chips -> ChipStates]
      /\ \A l \in Chips : /\ chips[l].cells = chip[l].cells /\ chips[l].locked = chip[l].locked
                          /\ chips[l].busy = chip[l].busy /\ chips[l].stuck = chip[l].stuck
                          /\ chips[l].sr = chip[l].sr
                          /\ chips[l].bypass = IF bypassing /\ Idle(chip[l]) THEN no ELSE chip[l].bypass
  <2>1. CASE bypassing
    BY <1>2, <2>1, BypassIs
  <2>2. CASE ~bypassing
    BY <2>2
  <2> QED
    BY <2>1, <2>2
<1> HIDE DEF chips
<1>4. /\ Reset(chips) \in [Chips -> ChipStates]
      /\ \A l \in Chips :
            /\ Reset(chips)[l].cells = chips[l].cells /\ Reset(chips)[l].locked = chips[l].locked
            /\ Reset(chips)[l].sr = chips[l].sr /\ Reset(chips)[l].bypass = chips[l].bypass
            /\ Idle(chips[l]) => Reset(chips)[l].mode = "array"
            /\ ~Reset(chips)[l].stuck
            /\ Reset(chips)[l].busy = IF chips[l].stuck THEN None ELSE chips[l].busy
  BY <1>3, ResetIs
<1> SUFFICES ASSUME NEW l \in Chips
             PROVE  /\ Reset(chips)[l].cells = chip[l].cells /\ Reset(chips)[l].locked = chip[l].locked
                    /\ Reset(chips)[l].sr = chip[l].sr
                    /\ Reset(chips)[l].bypass = IF bypassing /\ Idle(chip[l]) THEN FALSE ELSE chip[l].bypass
                    /\ Idle(chip[l]) => /\ Reset(chips)[l].mode = "array"
                                        /\ Reset(chips)[l].busy = chip[l].busy
                                        /\ Reset(chips)[l].stuck = chip[l].stuck
                    /\ ~Reset(chips)[l].stuck
                    /\ Reset(chips)[l].busy = IF chip[l].stuck THEN None ELSE chip[l].busy
  BY <1>1, <1>4
<1>5. (Idle(chips[l]) <=> Idle(chip[l])) /\ (Idle(chip[l]) => ~chip[l].stuck)
  BY <1>3 DEF Idle
<1>6. chip[l].stuck \in BOOLEAN /\ Reset(chips)[l].stuck \in BOOLEAN
  BY <1>4 DEF ChipStates
<1>7. Reset(chips)[l].bypass = IF bypassing /\ Idle(chip[l]) THEN FALSE ELSE chip[l].bypass
  <2>1. Reset(chips)[l].bypass = IF bypassing /\ Idle(chip[l]) THEN no ELSE chip[l].bypass
    BY <1>3, <1>4
  <2> QED
    BY <2>1 DEF no
<1>8. Idle(chip[l]) => Reset(chips)[l].stuck = chip[l].stuck
  BY <1>4, <1>5, <1>6
<1> QED
  BY <1>3, <1>4, <1>5, <1>7, <1>8

(* What drivers write before an operation clears the status, changes the     *)
(* mode, or frees a chip that failed.                                        *)
LEMMA PreparedIs ==
    ASSUME chip \in [Chips -> ChipStates], NEW o
    PROVE  /\ Prepared(o) \in [Chips -> ChipStates]
           /\ \A l \in Chips :
                 /\ Prepared(o)[l].cells = chip[l].cells /\ Prepared(o)[l].locked = chip[l].locked
                 /\ Prepared(o)[l].sr \in {{}, chip[l].sr}
                 /\ \/ Prepared(o)[l].busy = chip[l].busy /\ Prepared(o)[l].stuck = chip[l].stuck
                    \/ chip[l].stuck /\ Prepared(o)[l].busy = None /\ ~Prepared(o)[l].stuck
                 /\ ~Short /\ ~bypassing => Prepared(o)[l].bypass = chip[l].bypass
                 /\ driver \in Intel /\ Idle(chip[l]) => Prepared(o)[l].sr = {}
<1>1. CASE Prepared(o) = Cleared
  BY <1>1, ClearedIs
<1>2. CASE Prepared(o) = InArray /\ driver \notin Intel
  <2>1. \A l \in Chips : InArray[l].stuck \in BOOLEAN /\ chip[l].stuck \in BOOLEAN
    BY InArrayIs DEF ChipStates
  <2> QED
    BY <1>2, <2>1, InArrayIs
<1>3. CASE Short /\ Prepared(o) = Bypass(TRUE)
  <2> DEFINE yes == TRUE
  <2>1. yes \in BOOLEAN /\ Prepared(o) = Bypass(yes)
    BY <1>3
  <2>2. driver \notin Intel /\ Short
    BY <1>3 DEF Short, Intel
  <2> HIDE DEF yes
  <2>3. /\ Bypass(yes) \in [Chips -> ChipStates]
        /\ \A l \in Chips :
              /\ Bypass(yes)[l].cells = chip[l].cells /\ Bypass(yes)[l].locked = chip[l].locked
              /\ Bypass(yes)[l].busy = chip[l].busy /\ Bypass(yes)[l].stuck = chip[l].stuck
              /\ Bypass(yes)[l].sr = chip[l].sr
    BY <2>1, BypassIs
  <2> DEFINE chips == Bypass(yes)
  <2> HIDE DEF chips
  <2>4. Prepared(o) = chips
    BY <2>1 DEF chips
  <2>5. /\ chips \in [Chips -> ChipStates]
        /\ \A l \in Chips :
              /\ chips[l].cells = chip[l].cells /\ chips[l].locked = chip[l].locked
              /\ chips[l].busy = chip[l].busy /\ chips[l].stuck = chip[l].stuck /\ chips[l].sr = chip[l].sr
    BY <2>3 DEF chips
  <2> QED
    BY <2>2, <2>4, <2>5
<1> QED
  BY <1>1, <1>2, <1>3 DEF Prepared, Intel

(* An operation is issued: chips that are idle may begin it, those at work   *)
(* ignore it.                                                                *)
LEMMA IssueIs ==
    ASSUME chip \in [Chips -> ChipStates], NEW o \in BlockOps \cup ProgramOps, Issue(o)
    PROVE  /\ issued' = o /\ polls' = Polls
           /\ chip' \in [Chips -> ChipStates]
           /\ \A l \in Chips : /\ chip'[l].cells = chip[l].cells /\ chip'[l].locked = chip[l].locked
                               /\ chip'[l].sr \in {{}, chip[l].sr} /\ (chip'[l].stuck => chip[l].stuck)
                               /\ \/ chip'[l].busy = chip[l].busy
                                  \/ chip'[l].busy = None /\ chip[l].stuck /\ ~chip'[l].stuck
                                  \/ chip'[l].busy = o /\ ~chip'[l].stuck /\ (Idle(chip[l]) \/ chip[l].stuck)
                               /\ ~Short /\ ~bypassing => chip'[l].bypass = chip[l].bypass
<1> DEFINE chips == Prepared(o)
<1>1. chip' = Issued(chips, o) /\ issued' = o /\ polls' = Polls
  BY DEF Issue
<1>2. /\ chips \in [Chips -> ChipStates]
      /\ \A l \in Chips :
            /\ chips[l].cells = chip[l].cells /\ chips[l].locked = chip[l].locked
            /\ chips[l].sr \in {{}, chip[l].sr}
            /\ \/ chips[l].busy = chip[l].busy /\ chips[l].stuck = chip[l].stuck
               \/ chip[l].stuck /\ chips[l].busy = None /\ ~chips[l].stuck
            /\ ~Short /\ ~bypassing => chips[l].bypass = chip[l].bypass
  BY PreparedIs
<1> HIDE DEF chips
<1>3. /\ chip' \in [Chips -> ChipStates]
      /\ \A l \in Chips : /\ chip'[l].cells = chips[l].cells /\ chip'[l].locked = chips[l].locked
                          /\ chip'[l].stuck = chips[l].stuck /\ chip'[l].sr = chips[l].sr
                          /\ chip'[l].bypass = chips[l].bypass
                          /\ \/ chip'[l].busy = chips[l].busy
                             \/ chip'[l].busy = o /\ chips[l].busy = None /\ ~chips[l].stuck
  BY <1>1, <1>2, IssuedIs DEF Idle
<1> QED
  BY <1>1, <1>2, <1>3 DEF Idle

(* Chips that are idle, and in the mode the driver takes them for, begin it, *)
(* with their status clear.                                                  *)
LEMMA IssueTaken ==
    ASSUME chip \in [Chips -> ChipStates], NEW o \in BlockOps \cup ProgramOps, Issue(o),
           Agreed, Telling, AllIdle, driver \notin Intel => \A l \in Chips : chip[l].sr = {},
           driver \notin Intel => o.op \in {"erase", "program"}
    PROVE  /\ \A l \in Chips : chip'[l].busy = o /\ chip'[l].sr = {} /\ chip'[l].bypass = bypassing'
           /\ bypassing' \in BOOLEAN
<1> DEFINE chips == Prepared(o)
           short == Short
           on == Short /\ o.op = "program"
<1>1. chip' = Issued(chips, o) /\ bypassing' = on
  BY DEF Issue
<1>2. /\ bypassing \in BOOLEAN /\ (~short => ~bypassing) /\ (short => driver = "amd040" /\ driver \notin Intel)
      /\ \A l \in Chips : chip[l].bypass = bypassing /\ chip[l].bypass \in BOOLEAN
  <2>1. driver \in Intel => ~short
    BY DEF Short, Intel
  <2> QED
    BY <2>1 DEF Agreed, Telling, ChipStates, Short, Intel
<1>3. chips \in [Chips -> ChipStates] /\ \A l \in Chips : Idle(chips[l]) /\ chips[l].sr = {}
  <2>1. \A l \in Chips : Idle(chip[l]) /\ ~chip[l].stuck /\ chip[l].busy = None
    BY DEF AllIdle, Idle
  <2> QED
    BY <2>1, PreparedIs DEF Idle
<1>4. ASSUME NEW l \in Chips PROVE chips[l].bypass = on /\ on \in BOOLEAN
  <2>1. CASE driver = "amd040" /\ o.op = "erase"
    <3>1. chips = InArray
      BY <2>1 DEF Prepared
    <3>2. InArray[l].bypass = FALSE
      BY <1>2, InArrayIs DEF AllIdle
    <3> QED
      BY <2>1, <3>1, <3>2
  <2>2. CASE ~(driver = "amd040" /\ o.op = "erase") /\ short /\ ~bypassing
    <3> DEFINE yes == TRUE
    <3>1. chips = Bypass(yes) /\ yes \in BOOLEAN /\ yes
      BY <2>2 DEF Prepared
    <3> HIDE DEF yes
    <3>2. chips[l].bypass = yes
      BY <3>1, BypassIs DEF AllIdle
    <3>3. on
      BY <1>2, <2>2
    <3> QED
      BY <3>1, <3>2, <3>3
  <2>3. CASE ~(driver = "amd040" /\ o.op = "erase") /\ ~(short /\ ~bypassing)
    <3>1. chips = Cleared
      BY <2>3 DEF Prepared
    <3>2. chips[l].bypass = bypassing
      BY <1>2, <3>1, ClearedIs
    <3>3. bypassing = on
      BY <1>2, <2>3
    <3> QED
      BY <3>2, <3>3
  <2> QED
    BY <2>1, <2>2, <2>3
<1>5. \A l \in Chips : Takes(chips[l], o)
  <2> TAKE l \in Chips
  <2>1. chips[l].bypass = (short /\ o.op = "program")
    BY <1>4
  <2> QED
    BY <2>1 DEF Takes
<1> HIDE DEF chips, on
<1> QED
  BY <1>1, <1>3, <1>4, <1>5, IssuedIs, LanesAre

(* The words of an operation. *)
Programs(o, at, words, buffer) ==
    /\ o \in ProgramOps
    /\ o.buffer = buffer
    /\ DOMAIN o.words = at .. at + Len(words) - 1
    /\ \A x \in DOMAIN o.words : x \in Addr /\ o.words[x] = words[x - at + 1]
    /\ o.at \in DOMAIN o.words
    /\ o.bit7 = (7 \in o.words[o.at])

LEMMA ProgramOpIs ==
    ASSUME NEW at \in Nat, NEW words \in Seq(SUBSET Bits), words # << >>, at + Len(words) <= Size,
           NEW buffer \in BOOLEAN
    PROVE  Programs(ProgramOp(at, words, buffer), at, words, buffer)
<1> DEFINE n == Len(words)
           o == ProgramOp(at, words, buffer)
           W == [a \in at .. at + n - 1 |-> words[a - at + 1]]
<1>1. n \in Nat /\ 1 <= n
  BY EmptySeq, LenProperties
<1>2. o = [op |-> "program", buffer |-> buffer, at |-> at + n - 1, bit7 |-> 7 \in words[n], words |-> W]
  BY DEF ProgramOp
<1>3. at + n - 1 \in Addr /\ at .. at + n - 1 \subseteq Addr
  BY <1>1, SizeIsNat DEF Addr
<1>4. \A x \in at .. at + n - 1 : x - at + 1 \in 1 .. n
  <2> HIDE DEF n
  <2> QED
    BY <1>1
<1>5. W \in [at .. at + n - 1 -> SUBSET Bits]
  <2>1. \A i \in 1 .. n : words[i] \in SUBSET Bits
    BY ElementOfSeq
  <2> HIDE DEF n
  <2> QED
    BY <1>4, <2>1
<1>6. W \in WordSets
  BY <1>3, <1>5 DEF WordSets
<1>7. at + n - 1 \in at .. at + n - 1 /\ at + n - 1 - at + 1 = n
  <2> HIDE DEF n
  <2> QED
    BY <1>1
<1>8. W[at + n - 1] = words[n]
  <2>1. W[at + n - 1] = words[at + n - 1 - at + 1]
    BY <1>7
  <2> QED
    BY <1>7, <2>1
<1> HIDE DEF W
<1>9. (7 \in words[n]) \in BOOLEAN
  BY ElementOfSeq
<1>10. o \in ProgramOps
  BY <1>2, <1>3, <1>6, <1>9 DEF ProgramOps
<1>11. DOMAIN o.words = at .. at + n - 1 /\ o.at = at + n - 1 /\ o.words = W
  BY <1>2, <1>5
<1>12. \A x \in at .. at + n - 1 : W[x] = words[x - at + 1]
  BY DEF W
<1>13. o.bit7 = (7 \in o.words[o.at]) /\ o.buffer = buffer
  BY <1>2, <1>8, <1>11
<1> HIDE DEF o
<1>14. Programs(o, at, words, buffer)
  BY <1>3, <1>7, <1>10, <1>11, <1>12, <1>13 DEF Programs
<1> QED
  BY <1>14 DEF o

LEMMA BlockOpIs ==
    ASSUME NEW name \in BlockCommands, NEW a \in Addr
    PROVE  LET o == BlockOp(name, a)
           IN o \in BlockOps /\ o.op = name /\ o.block = Block(a) /\ o.at = a /\ o.bit7 /\ ~o.buffer
<1>1. Block(a) \in Blocks
  BY DEF Blocks
<1> QED
  BY <1>1 DEF BlockOp, BlockOps

LEMMA IdentifyingIs ==
    ASSUME chip \in [Chips -> ChipStates], chip' = [chip EXCEPT ![1].mode = "identifier"]
    PROVE  /\ chip' \in [Chips -> ChipStates]
           /\ \A l \in Chips : /\ chip'[l].cells = chip[l].cells /\ chip'[l].locked = chip[l].locked
                               /\ chip'[l].busy = chip[l].busy /\ chip'[l].stuck = chip[l].stuck
                               /\ chip'[l].sr = chip[l].sr /\ chip'[l].bypass = chip[l].bypass
<1> DEFINE d == [chip[1] EXCEPT !.mode = "identifier"]
<1>1. chip' = [chip EXCEPT ![1] = d]
  OBVIOUS
<1>2. /\ d \in ChipStates /\ d.cells = chip[1].cells /\ d.locked = chip[1].locked
      /\ d.busy = chip[1].busy /\ d.stuck = chip[1].stuck /\ d.sr = chip[1].sr
      /\ d.bypass = chip[1].bypass
  BY LanesAre DEF ChipStates
<1> HIDE DEF d
<1> QED
  BY <1>1, <1>2

LEMMA FinishIs ==
    ASSUME task \in Tasks, NEW r \in {"ok", "fail"}, Finish(r)
    PROVE  /\ pc' = "idle" /\ task' \in Tasks
           /\ task'.cmd = task.cmd /\ task'.at = task.at /\ task'.next = task.next /\ task'.file = task.file
           /\ task'.verify = task.verify /\ task'.pos = task.pos /\ task'.eof = task.eof
           /\ task'.count = task.count /\ task'.number = task.number /\ task'.status = task.status
           /\ task'.result = r
  BY DEF Finish, Tasks

LEMMA NextBlockIs ==
    ASSUME task \in Tasks, 1 <= task.number, task.next \in Addr, NEW ok \in BOOLEAN, NextBlock(ok)
    PROVE  /\ pc' = "block" /\ task' \in Tasks
           /\ task'.cmd = task.cmd /\ task'.at = task.at /\ task'.file = task.file
           /\ task'.verify = task.verify /\ task'.pos = task.pos /\ task'.eof = task.eof
           /\ task'.count = task.count /\ task'.result = task.result
           /\ task'.next = task.next + FindBlock(task.next).left
           /\ task'.number = task.number - 1
           /\ task'.status = IF ok THEN task.status ELSE "fail"
<1>1. FindBlock(task.next).left \in Nat
  BY BlockRest
<1> DEFINE s == IF ok THEN task.status ELSE "fail"
<1>2. task' = [task EXCEPT !.next = task.next + FindBlock(task.next).left, !.number = task.number - 1,
                           !.status = s] /\ pc' = "block"
  BY DEF NextBlock
<1>3. task.next + FindBlock(task.next).left \in Nat /\ task.number - 1 \in Nat
  BY <1>1 DEF Tasks
<1>4. s \in {"ok", "fail"}
  BY DEF Tasks
<1> HIDE DEF s
<1>5. /\ task' \in Tasks
      /\ task'.cmd = task.cmd /\ task'.at = task.at /\ task'.file = task.file
      /\ task'.verify = task.verify /\ task'.pos = task.pos /\ task'.eof = task.eof
      /\ task'.count = task.count /\ task'.result = task.result
      /\ task'.next = task.next + FindBlock(task.next).left
      /\ task'.number = task.number - 1 /\ task'.status = s
  BY <1>2, <1>3, <1>4 DEF Tasks
<1> QED
  BY <1>2, <1>5 DEF s

LEMMA TouchedAre ==
    ASSUME NEW op \in BlockOps \cup ProgramOps
    PROVE  /\ op.op = "erase" => Touched(op) = {a \in Addr : Block(a) = op.block}
           /\ op.op = "program" => Touched(op) = DOMAIN op.words
           /\ op.op \in {"lock", "unlock"} => Touched(op) = {}
           /\ op.op \in {"erase", "lock", "unlock", "program"}
           /\ Touched(op) \subseteq Addr
           /\ op.op # "program" => op.block \in Blocks
           /\ op.op = "program" => \A a \in Touched(op) : op.words[a] \in SUBSET Bits
<1>1. CASE op \in BlockOps
  BY <1>1, OpsAreBusy DEF Touched, BlockCommands
<1>2. CASE op \in ProgramOps
  <2>1. op.op = "program" /\ op.words \in WordSets
    BY <1>2 DEF ProgramOps
  <2>2. PICK A \in SUBSET Addr : op.words \in [A -> SUBSET Bits]
    BY <2>1 DEF WordSets
  <2>3. Touched(op) = DOMAIN op.words
    BY <2>1 DEF Touched
  <2> QED
    BY <2>1, <2>2, <2>3
<1> QED
  BY <1>1, <1>2

(* A chip ends its operation: done, refused or failed. *)
ChipDone(l) ==
    LET op == chip[l].busy
    IN /\ ~Protected(chip[l], op)
       /\ \A a \in Addr : chip'[l].cells[a] = IF a \notin Touched(op) THEN chip[l].cells[a]
                                              ELSE IF op.op = "erase" THEN Bits
                                              ELSE chip[l].cells[a] \cap op.words[a]
       /\ chip'[l].locked = IF op.op = "lock" THEN chip[l].locked \cup {op.block}
                            ELSE IF op.op = "unlock" THEN chip[l].locked \ {op.block} ELSE chip[l].locked
       /\ chip'[l].busy = None /\ ~chip'[l].stuck /\ chip'[l].sr = chip[l].sr

ChipRefused(l) ==
    /\ Protected(chip[l], chip[l].busy)
    /\ chip'[l].cells = chip[l].cells /\ chip'[l].locked = chip[l].locked
    /\ chip'[l].busy = None /\ ~chip'[l].stuck
    /\ chip'[l].sr = IF driver \in Intel THEN chip[l].sr \cup {"locked"} ELSE chip[l].sr

ChipFailed(l) ==
    /\ faults
    /\ chip'[l].cells = chip[l].cells /\ chip'[l].locked = chip[l].locked
    /\ driver \in Intel => /\ chip'[l].busy = None /\ ~chip'[l].stuck
                           /\ chip'[l].sr = chip[l].sr \cup {chip[l].busy.op}
    /\ driver \notin Intel => chip'[l].busy = chip[l].busy /\ chip'[l].sr = chip[l].sr

LEMMA ChipEndsIs ==
    ASSUME chip \in [Chips -> ChipStates], NEW l \in Chips, ChipEnds(l)
    PROVE  /\ chip[l].busy \in BlockOps \cup ProgramOps /\ ~chip[l].stuck
           /\ chip' \in [Chips -> ChipStates]
           /\ \A k \in Chips : k # l => chip'[k] = chip[k]
           /\ chip'[l].mode = chip[l].mode /\ chip'[l].bypass = chip[l].bypass
           /\ ChipDone(l) \/ ChipRefused(l) \/ ChipFailed(l)
<1> DEFINE c == chip[l]
           op == c.busy
<1>1. c \in ChipStates /\ op # None /\ ~c.stuck
  BY DEF ChipEnds
<1>2. op \in BlockOps \cup ProgramOps
  BY <1>1 DEF ChipStates
<1>3. op.op \in {"erase", "lock", "unlock", "program"}
  BY <1>2, TouchedAre
<1>4. CASE ~Protected(c, op) /\ chip' = [chip EXCEPT ![l] = Changed(c, op)]
  <2> DEFINE new == [a \in Addr |-> IF a \notin Touched(op) THEN c.cells[a]
                                    ELSE IF op.op = "erase" THEN Bits ELSE c.cells[a] \cap op.words[a]]
             locked == IF op.op = "lock" THEN c.locked \cup {op.block}
                       ELSE IF op.op = "unlock" THEN c.locked \ {op.block} ELSE c.locked
             free == None
             d == [c EXCEPT !.cells = new, !.locked = locked, !.busy = free]
  <2>1. Changed(c, op) = d
    BY DEF Changed
  <2>2. new \in [Addr -> SUBSET Bits]
    <3> SUFFICES ASSUME NEW a \in Addr
                 PROVE  (IF a \notin Touched(op) THEN c.cells[a]
                         ELSE IF op.op = "erase" THEN Bits ELSE c.cells[a] \cap op.words[a]) \in SUBSET Bits
      OBVIOUS
    <3>1. c.cells[a] \in SUBSET Bits
      BY <1>1 DEF ChipStates
    <3> QED
      BY <3>1
  <2>3. locked \in SUBSET Blocks
    <3>1. c.locked \in SUBSET Blocks
      BY <1>1 DEF ChipStates
    <3>2. op.op = "lock" => op.block \in Blocks
      BY <1>2, TouchedAre
    <3> QED
      BY <3>1, <3>2
  <2>4. free \in {None} \cup BlockOps \cup ProgramOps
    OBVIOUS
  <2>5. \A a \in Addr : new[a] = IF a \notin Touched(op) THEN c.cells[a]
                                 ELSE IF op.op = "erase" THEN Bits ELSE c.cells[a] \cap op.words[a]
    OBVIOUS
  <2> HIDE DEF new, locked, free
  <2>6. /\ d \in ChipStates /\ d.cells = new /\ d.locked = locked /\ d.busy = free /\ d.stuck = c.stuck
        /\ d.sr = c.sr /\ d.mode = c.mode /\ d.bypass = c.bypass
    BY <1>1, <2>2, <2>3, <2>4 DEF ChipStates
  <2> HIDE DEF d
  <2>7. chip'[l] = d /\ (\A k \in Chips : k # l => chip'[k] = chip[k]) /\ chip' \in [Chips -> ChipStates]
    BY <1>4, <2>1, <2>6
  <2>8. ChipDone(l)
    BY <1>1, <1>4, <2>5, <2>6, <2>7 DEF ChipDone, locked, free
  <2> QED
    BY <1>1, <1>2, <2>6, <2>7, <2>8
<1>5. CASE /\ Protected(c, op)
           /\ chip' = [chip EXCEPT ![l].busy = None,
                                   ![l].sr = IF driver \in Intel THEN @ \cup {"locked"} ELSE @]
  <2> DEFINE free == None
             sr == IF driver \in Intel THEN c.sr \cup {"locked"} ELSE c.sr
             d == [c EXCEPT !.busy = free, !.sr = sr]
  <2>1. chip' = [chip EXCEPT ![l] = d]
    BY <1>5
  <2>2. free \in {None} \cup BlockOps \cup ProgramOps
    OBVIOUS
  <2>3. sr \in SUBSET {"erase", "program", "unlock", "lock", "locked"}
    <3>1. c.sr \in SUBSET {"erase", "program", "unlock", "lock", "locked"}
      BY <1>1 DEF ChipStates
    <3> QED
      BY <3>1
  <2> HIDE DEF free, sr
  <2>4. /\ d \in ChipStates /\ d.cells = c.cells /\ d.locked = c.locked /\ d.busy = free /\ d.stuck = c.stuck
        /\ d.sr = sr /\ d.mode = c.mode /\ d.bypass = c.bypass
    BY <1>1, <2>2, <2>3 DEF ChipStates
  <2> HIDE DEF d
  <2>5. chip'[l] = d /\ (\A k \in Chips : k # l => chip'[k] = chip[k]) /\ chip' \in [Chips -> ChipStates]
    BY <2>1, <2>4
  <2>6. ChipRefused(l)
    BY <1>1, <1>5, <2>4, <2>5 DEF ChipRefused, sr, free
  <2> QED
    BY <1>1, <1>2, <2>4, <2>5, <2>6
<1>6. CASE driver \in Intel /\ faults /\ chip' = [chip EXCEPT ![l] = [c EXCEPT !.sr = @ \cup {c.busy.op}, !.busy = None]]
  <2> DEFINE free == None
             sr == c.sr \cup {op.op}
             d == [c EXCEPT !.sr = sr, !.busy = free]
  <2>1. chip' = [chip EXCEPT ![l] = d]
    BY <1>6
  <2>2. free \in {None} \cup BlockOps \cup ProgramOps
    OBVIOUS
  <2>3. sr \in SUBSET {"erase", "program", "unlock", "lock", "locked"}
    <3>1. c.sr \in SUBSET {"erase", "program", "unlock", "lock", "locked"}
      BY <1>1 DEF ChipStates
    <3> QED
      BY <1>3, <3>1
  <2> HIDE DEF free, sr
  <2>4. /\ d \in ChipStates /\ d.cells = c.cells /\ d.locked = c.locked /\ d.busy = free /\ d.stuck = c.stuck
        /\ d.sr = sr /\ d.mode = c.mode /\ d.bypass = c.bypass
    BY <1>1, <2>2, <2>3 DEF ChipStates
  <2> HIDE DEF d
  <2>5. chip'[l] = d /\ (\A k \in Chips : k # l => chip'[k] = chip[k]) /\ chip' \in [Chips -> ChipStates]
    BY <2>1, <2>4
  <2>6. ChipFailed(l)
    BY <1>1, <1>6, <2>4, <2>5 DEF ChipFailed, sr, free
  <2> QED
    BY <1>1, <1>2, <2>4, <2>5, <2>6
<1>7. CASE driver \notin Intel /\ faults /\ chip' = [chip EXCEPT ![l] = [c EXCEPT !.stuck = TRUE]]
  <2> DEFINE yes == TRUE
             d == [c EXCEPT !.stuck = yes]
  <2>1. chip' = [chip EXCEPT ![l] = d]
    BY <1>7
  <2>2. yes \in BOOLEAN /\ yes
    OBVIOUS
  <2> HIDE DEF yes
  <2>4. /\ d \in ChipStates /\ d.cells = c.cells /\ d.locked = c.locked /\ d.busy = c.busy
        /\ d.sr = c.sr /\ d.mode = c.mode /\ d.bypass = c.bypass
    BY <1>1, <2>2 DEF ChipStates
  <2> HIDE DEF d
  <2>5. chip'[l] = d /\ (\A k \in Chips : k # l => chip'[k] = chip[k]) /\ chip' \in [Chips -> ChipStates]
    BY <2>1, <2>4
  <2>6. ChipFailed(l)
    BY <1>1, <1>7, <2>4, <2>5 DEF ChipFailed
  <2> QED
    BY <1>1, <1>2, <2>4, <2>5, <2>6
<1>8. /\ \/ ~Protected(c, op) /\ chip' = [chip EXCEPT ![l] = Changed(c, op)]
         \/ /\ Protected(c, op)
            /\ chip' = [chip EXCEPT ![l].busy = None,
                                    ![l].sr = IF driver \in Intel THEN @ \cup {"locked"} ELSE @]
         \/ /\ faults
            /\ chip' = [chip EXCEPT ![l] = IF driver \in Intel
                                           THEN [c EXCEPT !.sr = @ \cup {c.busy.op}, !.busy = None]
                                           ELSE [c EXCEPT !.stuck = TRUE]]
  BY DEF ChipEnds
<1> HIDE DEF c, op
<1>9. CASE faults /\ chip' = [chip EXCEPT ![l] = IF driver \in Intel
                                           THEN [c EXCEPT !.sr = @ \cup {c.busy.op}, !.busy = None]
                                           ELSE [c EXCEPT !.stuck = TRUE]]
  <2>1. CASE driver \in Intel
    BY <1>6, <1>9, <2>1
  <2>2. CASE driver \notin Intel
    BY <1>7, <1>9, <2>2
  <2> QED
    BY <2>1, <2>2
<1> QED
  BY <1>4, <1>5, <1>8, <1>9

-----------------------------------------------------------------------------
(* Every step keeps Shape. *)

LEMMA ShapeInit == Init => Shape
<1> SUFFICES ASSUME Init PROVE Shape
  OBVIOUS
<1>1. Drivers \subseteq AllDrivers /\ Faults \subseteq BOOLEAN /\ Multi \subseteq BOOLEAN /\ Contents \subseteq SUBSET Bits
                     /\ Polls \in Nat
  BY FlashAssumption
<1>2. PICK locked \in {{}, {0}} :
        chip = [l \in Chips |-> [cells |-> [a \in Addr |-> content], locked |-> locked, busy |-> None,
                                 stuck |-> FALSE, bypass |-> FALSE, sr |-> {}, mode |-> "array"]]
  BY DEF Init
<1>3. chip \in [Chips -> ChipStates]
  <2> DEFINE free == None
             no == FALSE
             c == [cells |-> [a \in Addr |-> content], locked |-> locked, busy |-> free,
                   stuck |-> no, bypass |-> no, sr |-> {}, mode |-> "array"]
  <2>1. content \in SUBSET Bits
    BY <1>1 DEF Init
  <2>2. locked \in SUBSET Blocks
    BY NoBlockThere
  <2>3. no \in BOOLEAN /\ free \in {None} \cup BlockOps \cup ProgramOps
    OBVIOUS
  <2>4. [a \in Addr |-> content] \in [Addr -> SUBSET Bits]
    BY <2>1
  <2>5. chip = [l \in Chips |-> c]
    BY <1>2
  <2> HIDE DEF free, no
  <2>6. c \in ChipStates
    BY <2>2, <2>3, <2>4 DEF ChipStates
  <2> HIDE DEF c
  <2> QED
    BY <2>5, <2>6
<1>4. << >> \in Seq(SUBSET Bits)
  OBVIOUS
<1>5. NoTask \in Tasks /\ NoCall \in Calls /\ NoTask.cmd = "none"
  BY <1>4 DEF NoTask, Tasks, NoCall, Calls, BlockCommands
<1>6. Typed
  <2>1. driver \in Drivers /\ faults \in BOOLEAN /\ buffered \in Buffered /\ multi \in BOOLEAN /\ content \in SUBSET Bits
    BY <1>1 DEF Init
  <2>2. pc \in Pcs /\ polls \in 0 .. Polls
    BY <1>1 DEF Init, Pcs
  <2>3. task \in Tasks /\ call \in Calls /\ todo \in Calls /\ issued \in {NoOp} \cup BlockOps \cup ProgramOps
    BY <1>5 DEF Init
  <2> QED
    BY <1>3, <2>1, <2>2, <2>3 DEF Typed
<1>7. Placed /\ BlocksCounted /\ FilePlaced
  BY <1>5 DEF Init, Placed, BlocksCounted, FilePlaced, BlockCommands, NoTask
<1>8. OperationIssued
  BY OpsAreBusy DEF Init, OperationIssued
<1> QED
  BY <1>6, <1>7, <1>8 DEF Shape

(* A poll that says busy, and operations that end, change nothing of it. *)
LEMMA ShapeKept ==
    ASSUME Shape, UNCHANGED <<driver, faults, buffered, content, multi, task, call, todo, issued>>,
           chip' \in [Chips -> ChipStates], pc' = pc, polls' \in 0 .. Polls
    PROVE  Shape'
<1>1. Chips' = Chips
  BY DEF Chips
<1>2. Typed'
  BY <1>1 DEF Shape, Typed
<1>3. Placed' /\ BlocksCounted'
  BY DEF Shape, Placed, BlocksCounted
<1>4. FilePlaced'
  BY DEF Shape, FilePlaced, OfFile
<1>5. OperationIssued'
  BY DEF Shape, OperationIssued
<1> QED
  BY <1>2, <1>3, <1>4, <1>5 DEF Shape

(* A command ends. *)
LEMMA ShapeFinished ==
    ASSUME Shape, NEW r \in {"ok", "fail"}, Finish(r),
           task.cmd = "flashmem" /\ r = "ok" => task.pos = Len(task.file),
           UNCHANGED <<driver, faults, buffered, content, call, todo, issued, polls>>,
           multi' \in BOOLEAN, chip' \in [Chips -> ChipStates]
    PROVE  Shape'
<1>1. Chips' = Chips
  BY DEF Chips
<1>2. /\ pc' = "idle" /\ task' \in Tasks
      /\ task'.cmd = task.cmd /\ task'.at = task.at /\ task'.next = task.next /\ task'.file = task.file
      /\ task'.verify = task.verify /\ task'.pos = task.pos /\ task'.eof = task.eof
      /\ task'.count = task.count /\ task'.number = task.number /\ task'.status = task.status
      /\ task'.result = r
  BY FinishIs DEF Shape, Typed
<1>3. Typed'
  BY <1>1, <1>2 DEF Shape, Typed, Pcs
<1>4. Placed' /\ BlocksCounted'
  BY <1>2 DEF Placed, BlocksCounted
<1>5. FilePlaced'
  BY <1>2 DEF Shape, FilePlaced, Writing
<1>6. OperationIssued'
  BY <1>2 DEF Shape, OperationIssued
<1> QED
  BY <1>3, <1>4, <1>5, <1>6 DEF Shape

(* A command goes on to its next block. *)
LEMMA ShapeNextBlock ==
    ASSUME Shape, NEW ok \in BOOLEAN, NextBlock(ok), pc \notin {"idle", "block"}, task.cmd \in BlockCommands,
           UNCHANGED <<driver, faults, buffered, content, multi, call, todo, issued, polls>>,
           chip' \in [Chips -> ChipStates]
    PROVE  Shape'
<1>1. Chips' = Chips
  BY DEF Chips
<1>2. /\ task \in Tasks /\ 1 <= task.number /\ task.next \in Addr /\ task.number <= task.count
      /\ Block(task.next) = Block(task.at) + (task.count - task.number)
  BY DEF Shape, Typed, BlocksCounted
<1>3. /\ pc' = "block" /\ task' \in Tasks
      /\ task'.cmd = task.cmd /\ task'.at = task.at /\ task'.file = task.file
      /\ task'.verify = task.verify /\ task'.pos = task.pos /\ task'.eof = task.eof
      /\ task'.count = task.count /\ task'.result = task.result
      /\ task'.next = task.next + FindBlock(task.next).left
      /\ task'.number = task.number - 1
  BY <1>2, NextBlockIs
<1>4. Typed'
  BY <1>1, <1>3 DEF Shape, Typed, Pcs
<1>5. Placed'
  BY <1>3 DEF Placed, BlockCommands
<1>6. BlocksCounted'
  <2>1. \/ task'.next \in Addr /\ Block(task'.next) = Block(task.next) + 1
        \/ task'.next = Size /\ Block(task.next) + 1 \notin Blocks
    BY <1>2, <1>3, BlockRest
  <2>2. Size \notin Addr
    BY SizeIsNat DEF Addr
  <2>3. Block(task.next) \in Nat
    BY <1>2, BlockRest
  <2>4. Block(task.at) \in Int
    BY BlockRest, NoBlockThere
  <2>5. Block(task.next) + 1 = Block(task'.at) + (task'.count - task'.number)
    BY <1>2, <1>3, <2>3, <2>4 DEF Tasks
  <2>6. task'.number <= task'.count
    BY <1>2, <1>3 DEF Tasks
  <2> QED
    BY <1>3, <2>1, <2>2, <2>5, <2>6 DEF BlocksCounted
<1>7. FilePlaced'
  BY <1>3 DEF FilePlaced, BlockCommands
<1>8. OperationIssued'
  BY <1>3 DEF Shape, OperationIssued
<1> QED
  BY <1>4, <1>5, <1>6, <1>7, <1>8 DEF Shape

(* A command goes on to where it unlocks, erases, locks or waits, with the   *)
(* same block.                                                               *)
LEMMA ShapeStage ==
    ASSUME Shape, pc \in {"unlock", "unlocking", "erase", "lock"}, pc' \in {"unlocking", "erase", "erasing", "locking"},
           UNCHANGED <<driver, faults, buffered, content, multi, task, call, todo>>,
           chip' \in [Chips -> ChipStates], polls' \in 0 .. Polls,
           issued' \in {NoOp} \cup BlockOps \cup ProgramOps,
           Placed', OperationIssued'
    PROVE  Shape'
<1>1. Chips' = Chips
  BY DEF Chips
<1>2. Typed'
  BY <1>1 DEF Shape, Typed, Pcs
<1>3. BlocksCounted'
  BY DEF Shape, BlocksCounted
<1>4. FilePlaced'
  <2>1. task.cmd = "flashmem" => pc \in {"unlock", "unlocking", "erase"}
    BY DEF Shape, Placed
  <2> QED
    BY <2>1 DEF Shape, FilePlaced, OfFile, Writing
<1> QED
  BY <1>2, <1>3, <1>4 DEF Shape

LEMMA ShapeUnlock == ASSUME Shape, Unlock PROVE Shape'
<1>1. /\ task \in Tasks /\ chip \in [Chips -> ChipStates] /\ Polls \in Nat /\ polls \in 0 .. Polls
      /\ issued \in {NoOp} \cup BlockOps \cup ProgramOps
  BY FlashAssumption DEF Shape, Typed
<1>2. pc = "unlock" /\ task.cmd \in {"flashmem", "erase", "unlock"}
  BY DEF Unlock, Shape, Placed
<1>3. task.next \in Addr
  BY <1>2, SizeIsNat DEF Shape, BlocksCounted, FilePlaced, BlockCommands, Writing, Typed, Calls, Tasks, Addr
<1>4. UNCHANGED <<driver, faults, buffered, content, multi, call, todo>>
  BY DEF Unlock, constants
<1>5. CASE driver \in Intel
  <2>1. Issue(BlockOp("unlock", task.next)) /\ pc' = "unlocking" /\ task' = task
    BY <1>5 DEF Unlock
  <2> DEFINE o == BlockOp("unlock", task.next)
  <2>2. o \in BlockOps /\ o.op = "unlock" /\ o.block = Block(task.next)
    BY <1>3, BlockOpIs DEF BlockCommands
  <2> HIDE DEF o
  <2>3. chip' \in [Chips -> ChipStates] /\ issued' = o /\ polls' = Polls
    BY <1>1, <2>1, <2>2, IssueIs DEF o
  <2>4. Placed' /\ OperationIssued'
    BY <1>2, <2>1, <2>2, <2>3 DEF Placed, OperationIssued
  <2> QED
    BY <1>1, <1>2, <1>4, <2>1, <2>2, <2>3, <2>4, ShapeStage
<1>6. CASE driver \notin Intel /\ task.cmd = "unlock"
  <2>1. NextBlock(TRUE) /\ UNCHANGED <<chip, issued, polls>>
    BY <1>6 DEF Unlock
  <2> QED
    BY <1>1, <1>2, <1>4, <1>6, <2>1, ShapeNextBlock DEF BlockCommands
<1>7. CASE driver \notin Intel /\ task.cmd # "unlock"
  <2>1. pc' = "erase" /\ UNCHANGED <<task, chip, issued, polls>>
    BY <1>7 DEF Unlock
  <2>2. Placed' /\ OperationIssued'
    BY <1>2, <1>4, <1>7, <2>1 DEF Placed, OperationIssued, Shape
  <2> QED
    BY <1>1, <1>2, <1>4, <2>1, <2>2, ShapeStage
<1> QED
  BY <1>5, <1>6, <1>7

LEMMA ShapeUnlocked == ASSUME Shape, Unlocked PROVE Shape'
<1>1. /\ task \in Tasks /\ chip \in [Chips -> ChipStates] /\ Polls \in Nat /\ polls \in 0 .. Polls
      /\ issued \in {NoOp} \cup BlockOps \cup ProgramOps
  BY FlashAssumption DEF Shape, Typed
<1>2. pc = "unlocking" /\ task.cmd \in {"flashmem", "erase", "unlock"}
  BY DEF Unlocked, Shape, Placed
<1>3. UNCHANGED <<driver, faults, buffered, content, multi, call, todo, chip, issued, polls>>
  BY DEF Unlocked, constants
<1>4. PICK ok \in BOOLEAN :
        IF task.cmd = "unlock" THEN NextBlock(ok) ELSE pc' = "erase" /\ UNCHANGED task
  BY DEF Unlocked
<1>5. CASE task.cmd = "unlock"
  BY <1>1, <1>2, <1>3, <1>4, <1>5, ShapeNextBlock DEF BlockCommands
<1>6. CASE task.cmd # "unlock"
  <2>1. pc' = "erase" /\ task' = task
    BY <1>4, <1>6
  <2>2. Placed' /\ OperationIssued'
    BY <1>2, <1>3, <1>6, <2>1 DEF Placed, OperationIssued, Shape
  <2> QED
    BY <1>1, <1>2, <1>3, <2>1, <2>2, ShapeStage
<1> QED
  BY <1>5, <1>6

LEMMA ShapeLock == ASSUME Shape, Lock PROVE Shape'
<1>1. /\ task \in Tasks /\ chip \in [Chips -> ChipStates] /\ Polls \in Nat /\ polls \in 0 .. Polls
      /\ issued \in {NoOp} \cup BlockOps \cup ProgramOps
  BY FlashAssumption DEF Shape, Typed
<1>2. pc = "lock" /\ task.cmd = "lock"
  BY DEF Lock, Shape, Placed
<1>3. task.next \in Addr
  BY <1>2 DEF Shape, BlocksCounted, BlockCommands
<1>4. UNCHANGED <<driver, faults, buffered, content, multi, call, todo>>
  BY DEF Lock, constants
<1>5. CASE driver = "intel"
  <2>1. Issue(BlockOp("lock", task.next)) /\ pc' = "locking" /\ task' = task
    BY <1>5 DEF Lock
  <2> DEFINE o == BlockOp("lock", task.next)
  <2>2. o \in BlockOps /\ o.op = "lock" /\ o.block = Block(task.next)
    BY <1>3, BlockOpIs DEF BlockCommands
  <2> HIDE DEF o
  <2>3. chip' \in [Chips -> ChipStates] /\ issued' = o /\ polls' = Polls
    BY <1>1, <2>1, <2>2, IssueIs DEF o
  <2>4. Placed' /\ OperationIssued'
    BY <1>2, <2>1, <2>2, <2>3 DEF Placed, OperationIssued
  <2> QED
    BY <1>1, <1>2, <1>4, <2>1, <2>2, <2>3, <2>4, ShapeStage
<1>6. CASE driver # "intel"
  <2>1. NextBlock(TRUE) /\ UNCHANGED <<chip, issued, polls>>
    BY <1>6 DEF Lock
  <2> QED
    BY <1>1, <1>2, <1>4, <1>6, <2>1, ShapeNextBlock DEF BlockCommands
<1> QED
  BY <1>5, <1>6

LEMMA ShapeLocked == ASSUME Shape, Locked PROVE Shape'
<1>1. task \in Tasks /\ chip \in [Chips -> ChipStates]
  BY DEF Shape, Typed
<1>2. pc = "locking" /\ task.cmd = "lock"
  BY DEF Locked, Shape, Placed
<1>3. UNCHANGED <<driver, faults, buffered, content, multi, call, todo, issued, polls>>
  BY DEF Locked, constants
<1>4. PICK ok \in BOOLEAN : /\ NextBlock(ok)
                            /\ chip' = [chip EXCEPT ![1].mode = "identifier"] \/ chip' = chip
  BY DEF Locked
<1>5. chip' \in [Chips -> ChipStates]
  BY <1>1, <1>4, IdentifyingIs
<1> QED
  BY <1>2, <1>3, <1>4, <1>5, ShapeNextBlock DEF BlockCommands

LEMMA ShapeErase == ASSUME Shape, Erase PROVE Shape'
<1>1. /\ task \in Tasks /\ chip \in [Chips -> ChipStates] /\ Polls \in Nat
  BY FlashAssumption DEF Shape, Typed
<1>2. pc = "erase" /\ task.cmd \in {"flashmem", "erase"}
  BY DEF Erase, Shape, Placed
<1>3. task.next \in Addr
  BY <1>2, SizeIsNat DEF Shape, BlocksCounted, FilePlaced, BlockCommands, Writing, Typed, Calls, Tasks, Addr
<1>4. UNCHANGED <<driver, faults, buffered, content, multi, call, todo, task>> /\ pc' = "erasing"
  BY DEF Erase, constants
<1> DEFINE o == BlockOp("erase", task.next)
<1>5. o \in BlockOps /\ o.op = "erase" /\ o.block = Block(task.next) /\ o.at = task.next /\ o.bit7 /\ ~o.buffer
  BY <1>3, BlockOpIs DEF BlockCommands
<1>6. Issue(o)
  BY DEF Erase
<1> HIDE DEF o
<1>7. chip' \in [Chips -> ChipStates] /\ issued' = o /\ polls' = Polls
  BY <1>1, <1>5, <1>6, IssueIs
<1>8. Placed' /\ OperationIssued'
  BY <1>2, <1>4, <1>5, <1>7 DEF Placed, OperationIssued
<1> QED
  BY <1>1, <1>2, <1>4, <1>5, <1>7, <1>8, ShapeStage

LEMMA ShapeErased == ASSUME Shape, Erased PROVE Shape'
<1>1. task \in Tasks /\ chip \in [Chips -> ChipStates]
  BY DEF Shape, Typed
<1>2. pc = "erasing" /\ task.cmd \in {"flashmem", "erase"}
  BY DEF Erased, Shape, Placed
<1>3. UNCHANGED <<driver, faults, buffered, content, multi, call, todo, issued, polls>>
  BY DEF Erased, constants
<1>4. PICK ok \in BOOLEAN :
        IF task.cmd = "erase" THEN NextBlock(ok) /\ UNCHANGED erased
        ELSE pc' = "program" /\ erased' = erased \cup {issued.block} /\ UNCHANGED task
  BY DEF Erased
<1>5. chip' \in [Chips -> ChipStates]
  BY <1>1, InArrayIs DEF Erased
<1>6. CASE task.cmd = "erase"
  BY <1>2, <1>3, <1>4, <1>5, <1>6, ShapeNextBlock DEF BlockCommands
<1>7. CASE task.cmd # "erase"
  <2>1. pc' = "program" /\ task' = task /\ task.cmd = "flashmem" /\ Chips' = Chips
    BY <1>2, <1>3, <1>4, <1>7 DEF Chips
  <2>2. Typed'
    BY <1>3, <1>5, <2>1 DEF Shape, Typed, Pcs
  <2>3. Placed' /\ BlocksCounted' /\ OperationIssued'
    BY <1>3, <2>1 DEF Shape, Placed, BlocksCounted, OperationIssued, BlockCommands
  <2>4. FilePlaced'
    BY <1>2, <1>3, <2>1 DEF Shape, FilePlaced, OfFile, Writing
  <2> QED
    BY <2>2, <2>3, <2>4 DEF Shape
<1> QED
  BY <1>6, <1>7

(* program() goes on with what is left. *)
LEMMA ShapeProgram ==
    ASSUME Shape, task.cmd = "flashmem",
           pc \in {"program", "buffer", "programming"}, pc' \in {"program", "buffer", "programming"},
           pc' = "programming" => issued'.op = "program",
           pc' = "buffer" => todo'.words # << >> /\ multi' /\ driver = "intel",
           UNCHANGED <<driver, faults, buffered, content, task, call>>,
           multi' \in BOOLEAN, chip' \in [Chips -> ChipStates], polls' \in 0 .. Polls,
           issued' \in {NoOp} \cup BlockOps \cup ProgramOps,
           todo' \in Calls, call.at <= todo'.at,
           todo'.at + Len(todo'.words) = task.at + task.pos, OfFile(todo'.at, todo'.words),
           issued' = issued \/
               /\ issued'.buffer => driver \in {"intel", "amd"}
               /\ issued'.at \in DOMAIN issued'.words
               /\ issued'.bit7 = (7 \in issued'.words[issued'.at])
               /\ \A x \in DOMAIN issued'.words :
                     /\ task.at <= x /\ x < task.at + task.pos
                     /\ issued'.words[x] = task.file[x - task.at + 1]
    PROVE  Shape'
<1>1. Chips' = Chips
  BY DEF Chips
<1>2. Typed'
  BY <1>1 DEF Shape, Typed, Pcs
<1>3. Placed' /\ BlocksCounted'
  BY DEF Shape, Placed, BlocksCounted, BlockCommands
<1>4. FilePlaced'
  BY DEF Shape, FilePlaced, OfFile, Writing
<1>5. OperationIssued'
  BY DEF Shape, OperationIssued
<1> QED
  BY <1>2, <1>3, <1>4, <1>5 DEF Shape

(* What flashmem reads and writes, in numbers. *)
LEMMA WritingIs ==
    ASSUME Shape, pc \in {"program", "buffer", "programming"}
    PROVE  /\ task.cmd = "flashmem" /\ task.at \in Nat /\ task.pos \in Nat /\ Len(task.file) \in Nat
           /\ call \in Calls /\ call.at \in Nat /\ Len(call.words) \in Nat
           /\ todo \in Calls /\ todo.at \in Nat /\ todo.words \in Seq(SUBSET Bits) /\ Len(todo.words) \in Nat
           /\ task.at <= call.at /\ call.at <= todo.at /\ call.at < task.at + task.pos
           /\ call.at + Len(call.words) = task.at + task.pos
           /\ todo.at + Len(todo.words) = task.at + task.pos
           /\ task.at + task.pos <= Size /\ task.at + Len(task.file) <= Size /\ task.pos <= Len(task.file)
           /\ OfFile(todo.at, todo.words) /\ OfFile(call.at, call.words)
           /\ task \in Tasks /\ chip \in [Chips -> ChipStates] /\ Polls \in Nat /\ polls \in 0 .. Polls
           /\ issued \in {NoOp} \cup BlockOps \cup ProgramOps
<1>1. /\ task \in Tasks /\ chip \in [Chips -> ChipStates] /\ Polls \in Nat /\ polls \in 0 .. Polls
      /\ issued \in {NoOp} \cup BlockOps \cup ProgramOps
      /\ call \in Calls /\ todo \in Calls
  BY FlashAssumption DEF Shape, Typed
<1>2. /\ task.at \in Nat /\ task.pos \in Nat /\ Len(task.file) \in Nat
      /\ call.at \in Nat /\ Len(call.words) \in Nat
      /\ todo.at \in Nat /\ todo.words \in Seq(SUBSET Bits) /\ Len(todo.words) \in Nat
  BY <1>1, LenProperties DEF Tasks, Calls
<1>3. task.cmd = "flashmem"
  BY DEF Shape, Placed
<1>4. /\ task.at <= call.at /\ call.at <= todo.at /\ call.at < task.at + task.pos
      /\ call.at + Len(call.words) = task.at + task.pos
      /\ todo.at + Len(todo.words) = task.at + task.pos
      /\ task.at + Len(task.file) <= Size /\ task.pos <= Len(task.file)
      /\ OfFile(todo.at, todo.words) /\ OfFile(call.at, call.words)
  BY <1>3 DEF Shape, FilePlaced, Writing
<1>5. task.at + task.pos <= Size
  BY <1>2, <1>4, SizeIsNat
<1> QED
  BY <1>1, <1>2, <1>3, <1>4, <1>5

(* The words given to the chips, of those left. *)
LEMMA FirstWords ==
    ASSUME NEW s \in Seq(SUBSET Bits), NEW n \in Nat, 1 <= n, n <= Len(s)
    PROVE  /\ SubSeq(s, 1, n) \in Seq(SUBSET Bits) /\ Len(SubSeq(s, 1, n)) = n
           /\ \A i \in 1 .. n : SubSeq(s, 1, n)[i] = s[i]
           /\ SubSeq(s, n + 1, Len(s)) \in Seq(SUBSET Bits) /\ Len(SubSeq(s, n + 1, Len(s))) = Len(s) - n
           /\ \A i \in 1 .. Len(s) - n : SubSeq(s, n + 1, Len(s))[i] = s[n + i]
<1> DEFINE m == Len(s)
<1>1. m \in Nat /\ \A i \in 1 .. m : s[i] \in SUBSET Bits
  BY LenProperties, ElementOfSeq
<1> HIDE DEF m
<1>2. n <= m
  BY DEF m
<1>3. /\ SubSeq(s, 1, n) \in Seq(SUBSET Bits) /\ Len(SubSeq(s, 1, n)) = n - 1 + 1
      /\ \A i \in 1 .. n - 1 + 1 : SubSeq(s, 1, n)[i] = s[1 + i - 1]
  BY <1>1, <1>2, SubSeqProperties
<1>4. /\ SubSeq(s, n + 1, m) \in Seq(SUBSET Bits)
      /\ Len(SubSeq(s, n + 1, m)) = IF n + 1 <= m THEN m - (n + 1) + 1 ELSE 0
      /\ \A i \in 1 .. m - (n + 1) + 1 : SubSeq(s, n + 1, m)[i] = s[n + 1 + i - 1]
  BY <1>1, <1>2, SubSeqProperties
<1>5. n - 1 + 1 = n /\ m - (n + 1) + 1 = m - n /\ (~(n + 1 <= m) => m - n = 0)
  BY <1>1, <1>2
<1>6. \A i \in 1 .. n : 1 + i - 1 = i
  OBVIOUS
<1>7. \A i \in 1 .. m - n : n + 1 + i - 1 = n + i
  BY <1>1
<1> QED
  BY <1>3, <1>4, <1>5, <1>6, <1>7 DEF m

(* The first n words of those left are taken, rest is what remains ... *)
Taken(words, n, rest) ==
    /\ words \in Seq(SUBSET Bits) /\ Len(words) = n /\ \A i \in 1 .. n : words[i] = todo.words[i]
    /\ rest \in Calls /\ rest.at = todo.at + n /\ Len(rest.words) = Len(todo.words) - n
    /\ \A i \in 1 .. Len(rest.words) : rest.words[i] = todo.words[n + i]

(* ... and the operation o gives them to the chips. *)
Gives(o, n, buffer, rest) ==
    /\ o \in ProgramOps /\ o.op = "program" /\ o.buffer = buffer
    /\ o.buffer => driver \in {"intel", "amd"}
    /\ o.at \in DOMAIN o.words
    /\ o.bit7 = (7 \in o.words[o.at])
    /\ DOMAIN o.words = todo.at .. todo.at + n - 1
    /\ \A x \in DOMAIN o.words :
          /\ task.at <= x /\ x < task.at + task.pos
          /\ o.words[x] = task.file[x - task.at + 1]
    /\ rest \in Calls /\ rest.at = todo.at + n /\ call.at <= rest.at
    /\ rest.at + Len(rest.words) = task.at + task.pos /\ OfFile(rest.at, rest.words)

LEMMA WordsGiven ==
    ASSUME Shape, pc \in {"program", "buffer"}, NEW n \in Nat, 1 <= n, n <= Len(todo.words),
           NEW buffer \in BOOLEAN, buffer => driver \in {"intel", "amd"},
           NEW words, NEW rest, Taken(words, n, rest)
    PROVE  Gives(ProgramOp(todo.at, words, buffer), n, buffer, rest)
<1> DEFINE o == ProgramOp(todo.at, words, buffer)
<1>a. /\ words \in Seq(SUBSET Bits) /\ Len(words) = n /\ \A i \in 1 .. n : words[i] = todo.words[i]
      /\ rest \in Calls /\ rest.at = todo.at + n /\ Len(rest.words) = Len(todo.words) - n
      /\ \A i \in 1 .. Len(rest.words) : rest.words[i] = todo.words[n + i]
  BY DEF Taken
<1> DEFINE m == Len(todo.words)
           r == Len(rest.words)
           t == todo.at
           at == task.at
           end == task.at + task.pos
<1>0. /\ m \in Nat /\ t \in Nat /\ at \in Nat /\ end \in Nat /\ call.at \in Nat
      /\ at <= t /\ t + m = end /\ end <= Size /\ r = m - n /\ n <= m /\ rest.at = t + n
      /\ call.at <= t
  <2>1. /\ m \in Nat /\ t \in Nat /\ at \in Nat /\ task.pos \in Nat /\ call.at \in Nat
        /\ task.at <= call.at /\ call.at <= t /\ t + m = end /\ end <= Size
    BY WritingIs
  <2>2. r = m - n /\ n <= m /\ rest.at = t + n
    BY <1>a
  <2> HIDE DEF m, r, t
  <2> QED
    BY <2>1, <2>2
<1>1. words # << >>
  <2>1. n # 0
    OBVIOUS
  <2> QED
    BY <1>a, <2>1, EmptySeq, Zenon
<1> HIDE DEF m, r, t, at, end
<1>2. t + Len(words) <= Size
  BY <1>0, <1>a, SizeIsNat
<1>3. /\ o \in ProgramOps /\ o.buffer = buffer /\ o.at \in DOMAIN o.words /\ o.bit7 = (7 \in o.words[o.at])
      /\ DOMAIN o.words = t .. t + n - 1
      /\ \A x \in DOMAIN o.words : o.words[x] = words[x - t + 1]
  <2>1. todo.at \in Nat /\ words \in Seq(SUBSET Bits) /\ words # << >> /\ todo.at + Len(words) <= Size
    BY <1>0, <1>1, <1>2, <1>a DEF t
  <2>2. /\ o \in ProgramOps /\ o.buffer = buffer /\ o.at \in DOMAIN o.words /\ o.bit7 = (7 \in o.words[o.at])
        /\ DOMAIN o.words = todo.at .. todo.at + Len(words) - 1
        /\ \A x \in DOMAIN o.words : o.words[x] = words[x - todo.at + 1]
    <3>1. Programs(ProgramOp(todo.at, words, buffer), todo.at, words, buffer)
      BY <2>1, ProgramOpIs, Zenon
    <3>2. Programs(o, todo.at, words, buffer)
      BY <3>1
    <3> HIDE DEF o
    <3> QED
      BY <3>2 DEF Programs
  <2> HIDE DEF o
  <2> QED
    BY <1>a, <2>2 DEF t
<1> HIDE DEF o
<1>4. OfFile(t, todo.words)
  BY WritingIs DEF t
<1>5. ASSUME NEW x \in DOMAIN o.words
      PROVE  at <= x /\ x < end /\ o.words[x] = task.file[x - at + 1]
  <2>1. x \in Int /\ t <= x /\ x <= t + n - 1
    <3>1. x \in t .. t + n - 1
      BY <1>3
    <3> QED
      BY <1>0, <3>1
  <2>2. x - t + 1 \in 1 .. n /\ x - t + 1 \in 1 .. m
    BY <1>0, <2>1
  <2>3. at <= x /\ x < end
    BY <1>0, <2>1
  <2>4. o.words[x] = todo.words[x - t + 1]
    BY <1>a, <1>3, <1>5, <2>2
  <2>5. todo.words[x - t + 1] = task.file[t - at + (x - t + 1)]
    BY <1>4, <2>2 DEF OfFile, m, at
  <2>6. t - at + (x - t + 1) = x - at + 1
    BY <1>0, <2>1
  <2> QED
    BY <2>3, <2>4, <2>5, <2>6
<1>6. call.at <= rest.at /\ rest.at + r = end
  <2> DEFINE ra == rest.at
             ca == call.at
  <2>1. ca \in Nat /\ ca <= t /\ ra = t + n /\ r = m - n /\ t + m = end /\ t \in Nat /\ m \in Nat
    BY <1>0
  <2> HIDE DEF ra, ca
  <2>2. ca <= ra /\ ra + r = end
    BY <2>1
  <2> QED
    BY <2>2 DEF ra, ca
<1>7. OfFile(rest.at, rest.words)
  <2> SUFFICES ASSUME NEW i \in 1 .. r
               PROVE  rest.words[i] = task.file[rest.at - at + i]
    BY DEF OfFile, r, at
  <2>1. n + i \in 1 .. m
    BY <1>0
  <2>2. todo.words[n + i] = task.file[t - at + (n + i)]
    BY <1>4, <2>1 DEF OfFile, m, at
  <2>3. t - at + (n + i) = rest.at - at + i
    BY <1>0
  <2>4. rest.words[i] = todo.words[n + i]
    BY <1>a DEF r
  <2> QED
    BY <2>2, <2>3, <2>4
<1>8. o.op = "program"
  BY <1>3, OpsAreBusy
<1>9. o.buffer => driver \in {"intel", "amd"}
  BY <1>3
<1>10. Gives(o, n, buffer, rest)
  BY <1>3, <1>5, <1>6, <1>7, <1>8, <1>9, <1>a DEF r, t, at, end, Gives
<1> QED
  BY <1>10 DEF o

LEMMA ProgramWordIs ==
    ASSUME Shape, ProgramWord
    PROVE  \E o : /\ Gives(o, 1, FALSE, todo') /\ Issue(o)
                  /\ pc = "program" /\ pc' = "programming" /\ todo.words # << >> /\ 1 <= Len(todo.words)
                  /\ UNCHANGED <<driver, faults, buffered, content, named, multi, task, call, erased>>
<1>1. pc = "program" /\ todo.words # << >> /\ ~UsesBuffer /\ pc' = "programming"
  BY DEF ProgramWord
<1>2. UNCHANGED <<driver, faults, buffered, content, named, multi, task, call, erased>>
  BY DEF ProgramWord, constants
<1>3. Len(todo.words) \in Nat /\ 1 <= Len(todo.words)
  BY <1>1, WritingIs, EmptySeq
<1> DEFINE words == <<Head(todo.words)>>
           rest == [at |-> todo.at + 1, words |-> Tail(todo.words)]
<1>4. Head(todo.words) = todo.words[1] /\ todo.words[1] \in SUBSET Bits
  BY <1>1, <1>3, WritingIs, ElementOfSeq
<1>5. words \in Seq(SUBSET Bits) /\ Len(words) = 1 /\ \A i \in 1 .. 1 : words[i] = todo.words[i]
  BY <1>4
<1>6. /\ rest \in Calls /\ rest.at = todo.at + 1 /\ Len(rest.words) = Len(todo.words) - 1
      /\ \A i \in 1 .. Len(rest.words) : rest.words[i] = todo.words[1 + i]
  <2> DEFINE tail == Tail(todo.words)
  <2>1. todo.words \in Seq(SUBSET Bits) /\ todo.words # << >> /\ todo.at \in Nat
    BY <1>1, WritingIs
  <2>2. tail \in Seq(SUBSET Bits) /\ Len(tail) = Len(todo.words) - 1
    BY <2>1, HeadTailProperties
  <2>3. \A i \in 1 .. Len(tail) : tail[i] = todo.words[1 + i]
    BY <2>1, HeadTailProperties
  <2> HIDE DEF tail
  <2>4. [at |-> todo.at + 1, words |-> tail] \in Calls
    BY <2>1, <2>2 DEF Calls
  <2> QED
    BY <2>2, <2>3, <2>4 DEF tail
<1> HIDE DEF words, rest
<1>7. Taken(words, 1, rest)
  BY <1>5, <1>6 DEF Taken
<1> DEFINE no == FALSE
           one == 1
<1>8. Gives(ProgramOp(todo.at, words, FALSE), 1, FALSE, rest)
  <2>1. /\ no \in BOOLEAN /\ (no => driver \in {"intel", "amd"}) /\ pc \in {"program", "buffer"}
        /\ one \in Nat /\ 1 <= one /\ one <= Len(todo.words) /\ Taken(words, one, rest)
    BY <1>1, <1>3, <1>7
  <2> HIDE DEF no, one
  <2>2. Gives(ProgramOp(todo.at, words, no), one, no, rest)
    BY <2>1, WordsGiven, Zenon
  <2> QED
    BY <2>2 DEF no, one
<1>9. Issue(ProgramOp(todo.at, words, FALSE)) /\ todo' = rest
  BY DEF ProgramWord, words, rest
<1> QED
  BY <1>1, <1>2, <1>3, <1>8, <1>9

LEMMA ShapeProgramWord == ASSUME Shape, ProgramWord PROVE Shape'
<1>1. PICK o : /\ Gives(o, 1, FALSE, todo') /\ Issue(o)
               /\ pc = "program" /\ pc' = "programming" /\ todo.words # << >> /\ 1 <= Len(todo.words)
               /\ UNCHANGED <<driver, faults, buffered, content, named, multi, task, call, erased>>
  BY ProgramWordIs
<1>2. /\ o \in ProgramOps /\ o.op = "program"
      /\ o.buffer => driver \in {"intel", "amd"}
      /\ o.at \in DOMAIN o.words
      /\ o.bit7 = (7 \in o.words[o.at])
      /\ \A x \in DOMAIN o.words :
            /\ task.at <= x /\ x < task.at + task.pos
            /\ o.words[x] = task.file[x - task.at + 1]
      /\ todo' \in Calls /\ call.at <= todo'.at
      /\ todo'.at + Len(todo'.words) = task.at + task.pos /\ OfFile(todo'.at, todo'.words)
  BY <1>1 DEF Gives
<1>3. chip' \in [Chips -> ChipStates] /\ issued' = o /\ polls' = Polls /\ Polls \in Nat
  BY <1>1, <1>2, IssueIs, WritingIs
<1>4. task.cmd = "flashmem" /\ multi \in BOOLEAN
  BY <1>1, WritingIs DEF Shape, Typed
<1> QED
  BY <1>1, <1>2, <1>3, <1>4, ShapeProgram

LEMMA ProgramBufferIs ==
    ASSUME Shape, ProgramBuffer
    PROVE  \E o, n : /\ Gives(o, n, TRUE, todo') /\ n \in Nat /\ 1 <= n
                     /\ issued' = o /\ polls' = Polls
                     /\ chip' = IF driver \in Intel \/ buffered THEN Issued(chip, o) ELSE chip
                     /\ \/ pc = "buffer" /\ AllIdle /\ driver = "intel"
                        \/ pc = "program" /\ driver = "amd"
                     /\ pc' = IF driver \in Intel /\ todo'.words # << >> THEN "program" ELSE "programming"
                     /\ todo.words # << >> /\ multi
                     /\ UNCHANGED <<driver, faults, buffered, content, named, multi, task, call, erased>>
<1> DEFINE m == Len(todo.words)
           left == BufferSize - (todo.at % BufferSize)
           n == Min({left, m})
           words == SubSeq(todo.words, 1, n)
           rest == [at |-> todo.at + n, words |-> SubSeq(todo.words, n + 1, m)]
           yes == TRUE
           o == ProgramOp(todo.at, words, yes)
<1>1. /\ \/ pc = "buffer" /\ AllIdle
         \/ pc = "program" /\ todo.words # << >> /\ UsesBuffer /\ driver \notin Intel
      /\ issued' = o
      /\ chip' = IF driver \in Intel \/ buffered THEN Issued(chip, o) ELSE chip
      /\ polls' = Polls
      /\ todo' = rest
      /\ pc' = IF driver \in Intel /\ todo'.words # << >> THEN "program" ELSE "programming"
      /\ UNCHANGED <<driver, faults, buffered, content, named, multi, task, call, erased>>
  BY DEF ProgramBuffer, constants
<1>2. pc \in {"program", "buffer", "programming"} /\ pc \in {"program", "buffer"}
  BY <1>1
<1>3. task.cmd = "flashmem" /\ todo.at \in Nat /\ todo.words \in Seq(SUBSET Bits) /\ m \in Nat
  BY <1>2, WritingIs
<1>4. /\ todo.words # << >> /\ multi /\ driver \in {"intel", "amd"}
      /\ pc = "buffer" => driver = "intel"
      /\ pc = "program" => driver = "amd"
  <2>1. CASE pc = "buffer"
    BY <1>3, <2>1 DEF Shape, FilePlaced
  <2>2. CASE pc # "buffer"
    BY <1>1, <2>2 DEF UsesBuffer, Intel
  <2> QED
    BY <2>1, <2>2
<1>5. m # 0
  BY <1>3, <1>4, EmptySeq
<1>6. left \in Nat /\ 1 <= left
  <2>1. BufferSize \in Nat /\ 1 <= BufferSize
    BY FlashAssumption
  <2>2. todo.at % BufferSize \in Nat /\ todo.at % BufferSize < BufferSize
    BY <1>3, <2>1
  <2> QED
    BY <2>1, <2>2
<1> HIDE DEF m, left, o
<1>7. n \in Nat /\ 1 <= n /\ n <= m
  <2>1. n = IF left <= m THEN left ELSE m
    BY <1>3, <1>6, MinOfTwo
  <2> HIDE DEF n
  <2> QED
    BY <1>3, <1>5, <1>6, <2>1
<1> HIDE DEF n
<1>8. /\ words \in Seq(SUBSET Bits) /\ Len(words) = n /\ \A i \in 1 .. n : words[i] = todo.words[i]
      /\ SubSeq(todo.words, n + 1, m) \in Seq(SUBSET Bits) /\ Len(SubSeq(todo.words, n + 1, m)) = m - n
      /\ \A i \in 1 .. m - n : SubSeq(todo.words, n + 1, m)[i] = todo.words[n + i]
  BY <1>3, <1>7, FirstWords DEF m
<1>9. /\ rest \in Calls /\ rest.at = todo.at + n /\ Len(rest.words) = m - n
      /\ \A i \in 1 .. m - n : rest.words[i] = todo.words[n + i]
  <2> DEFINE tail == SubSeq(todo.words, n + 1, m)
  <2>1. tail \in Seq(SUBSET Bits) /\ Len(tail) = m - n /\ \A i \in 1 .. m - n : tail[i] = todo.words[n + i]
    BY <1>8
  <2> HIDE DEF tail
  <2>2. [at |-> todo.at + n, words |-> tail] \in Calls
    BY <1>3, <1>7, <2>1 DEF Calls
  <2> QED
    BY <2>1, <2>2 DEF tail
<1> HIDE DEF words, rest
<1>10. Taken(words, n, rest)
  BY <1>8, <1>9 DEF Taken, m
<1>11. yes \in BOOLEAN /\ (yes => driver \in {"intel", "amd"}) /\ n <= Len(todo.words)
  BY <1>4, <1>7 DEF m
<1> HIDE DEF yes
<1>12. Gives(ProgramOp(todo.at, words, yes), n, yes, rest)
  BY <1>2, <1>7, <1>10, <1>11, WordsGiven, Zenon
<1>13. Gives(o, n, TRUE, todo')
  BY <1>1, <1>12 DEF o, yes
<1> QED
  BY <1>1, <1>4, <1>7, <1>13

LEMMA ShapeProgramBuffer == ASSUME Shape, ProgramBuffer PROVE Shape'
<1>1. PICK o, n : /\ Gives(o, n, TRUE, todo') /\ issued' = o /\ polls' = Polls
                  /\ chip' = IF driver \in Intel \/ buffered THEN Issued(chip, o) ELSE chip
                  /\ pc \in {"program", "buffer"} /\ pc' \in {"program", "programming"}
                  /\ UNCHANGED <<driver, faults, buffered, content, named, multi, task, call, erased>>
  BY ProgramBufferIs
<1>2. /\ o \in ProgramOps /\ o.op = "program"
      /\ o.buffer => driver \in {"intel", "amd"}
      /\ o.at \in DOMAIN o.words
      /\ o.bit7 = (7 \in o.words[o.at])
      /\ \A x \in DOMAIN o.words :
            /\ task.at <= x /\ x < task.at + task.pos
            /\ o.words[x] = task.file[x - task.at + 1]
      /\ todo' \in Calls /\ call.at <= todo'.at
      /\ todo'.at + Len(todo'.words) = task.at + task.pos /\ OfFile(todo'.at, todo'.words)
  BY <1>1 DEF Gives
<1>3. task.cmd = "flashmem" /\ chip \in [Chips -> ChipStates] /\ Polls \in Nat
  BY <1>1, WritingIs
<1>4. Issued(chip, o) \in [Chips -> ChipStates]
  BY <1>2, <1>3, IssuedIs
<1>5. chip' \in [Chips -> ChipStates] /\ multi' \in BOOLEAN
  BY <1>1, <1>3, <1>4 DEF Shape, Typed
<1> QED
  BY <1>1, <1>2, <1>3, <1>5, ShapeProgram

LEMMA ShapeClearStatus == ASSUME Shape, ClearStatus PROVE Shape'
<1>1. /\ pc = "program" /\ pc' = "buffer" /\ todo.words # << >> /\ multi /\ driver = "intel"
      /\ chip' = Cleared
      /\ UNCHANGED <<driver, faults, buffered, content, named, multi, task, call, todo, issued, polls, erased>>
  BY DEF ClearStatus, constants, UsesBuffer, Intel
<1>2. /\ task.cmd = "flashmem" /\ polls \in 0 .. Polls /\ chip \in [Chips -> ChipStates]
      /\ issued \in {NoOp} \cup BlockOps \cup ProgramOps /\ todo \in Calls /\ call.at <= todo.at
      /\ todo.at + Len(todo.words) = task.at + task.pos /\ OfFile(todo.at, todo.words)
  BY <1>1, WritingIs
<1>3. chip' \in [Chips -> ChipStates]
  BY <1>1, <1>2, ClearedIs
<1> QED
  BY <1>1, <1>2, <1>3, ShapeProgram

LEMMA ShapeProgrammed == ASSUME Shape, Programmed PROVE Shape'
<1>1. /\ pc = "programming" /\ pc' = "program"
      /\ UNCHANGED <<driver, faults, buffered, content, named, multi, chip, task, call, todo, issued, polls, erased>>
  BY DEF Programmed, constants
<1>2. /\ task.cmd = "flashmem" /\ polls \in 0 .. Polls /\ chip \in [Chips -> ChipStates]
      /\ issued \in {NoOp} \cup BlockOps \cup ProgramOps /\ todo \in Calls /\ call.at <= todo.at
      /\ todo.at + Len(todo.words) = task.at + task.pos /\ OfFile(todo.at, todo.words)
  BY <1>1, WritingIs
<1>3. Chips' = Chips /\ multi \in BOOLEAN
  BY <1>1 DEF Chips, Shape, Typed
<1> QED
  BY <1>1, <1>2, <1>3, ShapeProgram

LEMMA ShapeProgramFails == ASSUME Shape, ProgramFails PROVE Shape'
<1>1. /\ pc = "programming"
      /\ UNCHANGED <<driver, faults, buffered, content, named, chip, call, issued, polls, erased>>
      /\ \/ multi' = FALSE /\ todo' = call /\ pc' = "program" /\ task' = task
         \/ Finish("fail") /\ multi' = multi /\ todo' = todo
  BY DEF ProgramFails, constants
<1>2. /\ task.cmd = "flashmem" /\ polls \in 0 .. Polls /\ chip \in [Chips -> ChipStates]
      /\ issued \in {NoOp} \cup BlockOps \cup ProgramOps /\ call \in Calls /\ call.at \in Nat
      /\ call.at + Len(call.words) = task.at + task.pos /\ OfFile(call.at, call.words)
  BY <1>1, WritingIs
<1>3. Chips' = Chips /\ multi \in BOOLEAN /\ call.at <= call.at
  BY <1>1, <1>2 DEF Chips, Shape, Typed
<1>4. CASE multi' = FALSE /\ todo' = call /\ pc' = "program" /\ task' = task
  BY <1>1, <1>2, <1>3, <1>4, ShapeProgram
<1>5. CASE Finish("fail") /\ multi' = multi /\ todo' = todo
  BY <1>1, <1>2, <1>3, <1>5, ShapeFinished
<1> QED
  BY <1>1, <1>4, <1>5

LEMMA Slice ==
    ASSUME NEW s \in Seq(SUBSET Bits), NEW i \in Nat, NEW n \in Nat, i + n <= Len(s)
    PROVE  /\ SubSeq(s, i + 1, i + n) \in Seq(SUBSET Bits) /\ Len(SubSeq(s, i + 1, i + n)) = n
           /\ \A k \in 1 .. n : SubSeq(s, i + 1, i + n)[k] = s[i + k]
<1> DEFINE m == Len(s)
<1>1. m \in Nat /\ \A k \in 1 .. m : s[k] \in SUBSET Bits
  BY LenProperties, ElementOfSeq
<1> HIDE DEF m
<1>2. i + n <= m
  BY DEF m
<1>3. /\ SubSeq(s, i + 1, i + n) \in Seq(SUBSET Bits)
      /\ Len(SubSeq(s, i + 1, i + n)) = IF i + 1 <= i + n THEN i + n - (i + 1) + 1 ELSE 0
      /\ \A k \in 1 .. i + n - (i + 1) + 1 : SubSeq(s, i + 1, i + n)[k] = s[i + 1 + k - 1]
  BY <1>1, <1>2, SubSeqProperties
<1>4. i + n - (i + 1) + 1 = n /\ (~(i + 1 <= i + n) => n = 0) /\ \A k \in 1 .. n : i + 1 + k - 1 = i + k
  OBVIOUS
<1> QED
  BY <1>3, <1>4

(* flashmem reads so many words of the file, of one block. *)
ChunkRead(got) ==
    /\ pc = "chunk" /\ ~task.eof /\ task.cmd = "flashmem" /\ task \in Tasks /\ task' \in Tasks
    /\ got \in Nat /\ task.pos + got <= Len(task.file) /\ task.next = task.at + task.pos
    /\ task'.cmd = task.cmd /\ task'.at = task.at /\ task'.next = task.next /\ task'.file = task.file
    /\ task'.verify = task.verify /\ task'.count = task.count /\ task'.number = task.number
    /\ task'.status = task.status /\ task'.result = task.result
    /\ task'.pos = task.pos + got
    /\ task'.eof => task.pos + got = Len(task.file)
    /\ got = 0 => task'.eof /\ pc' = "chunk"
    /\ call' \in Calls /\ todo' = call' /\ call'.at = task.next /\ Len(call'.words) = got
    /\ \A i \in 1 .. got : call'.words[i] = task.file[task.pos + i]
    /\ 1 <= got => /\ task.next \in Addr /\ task.next + got <= Size
                   /\ \A x \in Int : task.next <= x /\ x < task.next + got => Block(x) = Block(task.next)
                   /\ pc' = IF Block(task.next) \in erased THEN "program" ELSE "unlock"
    /\ UNCHANGED <<driver, faults, buffered, content, named, multi, chip, issued, polls, erased>>

LEMMA ReadChunkIs == ASSUME Shape, ReadChunk PROVE \E got : ChunkRead(got)
<1> DEFINE found == FindBlock(task.next)
           left == found.left
           len == Len(task.file)
           pos == task.pos
           want == Min({left, Chunk})
           got == Min({want, len - pos})
           words == SubSeq(task.file, pos + 1, pos + got)
           next == task.next
           late == got < want
<1>1. /\ pc = "chunk" /\ ~task.eof
      /\ task' = [task EXCEPT !.pos = pos + got, !.eof = late]
      /\ call' = [at |-> next, words |-> words]
      /\ todo' = call'
      /\ pc' = IF got = 0 THEN "chunk" ELSE IF found.block \in erased THEN "program" ELSE "unlock"
      /\ UNCHANGED <<driver, faults, buffered, content, named, multi, chip, issued, polls, erased>>
  BY DEF ReadChunk, constants
<1>2. /\ task.cmd = "flashmem" /\ task \in Tasks /\ pos \in Nat /\ len \in Nat /\ next \in Nat
      /\ task.file \in Seq(SUBSET Bits) /\ task.at \in Nat
  <2>1. task.cmd = "flashmem" /\ task \in Tasks
    BY <1>1 DEF Shape, Placed, Typed
  <2> QED
    BY <2>1, LenProperties DEF Tasks
<1>3. task.at + len <= Size /\ pos <= len /\ next = task.at + pos
  BY <1>1, <1>2 DEF Shape, FilePlaced
<1>4. left \in Nat /\ 1 <= left /\ Chunk \in Nat /\ 1 <= Chunk
  BY FlashAssumption, BlockRest, NoBlockThere
<1> HIDE DEF left, len, pos, next
<1>5. want \in Nat /\ 1 <= want /\ want <= left
  <2>1. want = IF left <= Chunk THEN left ELSE Chunk
    BY <1>4, MinOfTwo
  <2> HIDE DEF want
  <2> QED
    BY <1>4, <2>1
<1> HIDE DEF want
<1>6. /\ got \in Nat /\ pos + got <= len /\ got <= left
      /\ got < want => pos + got = len
      /\ got = 0 => got < want
  <2>1. len - pos \in Nat
    BY <1>2, <1>3
  <2>2. got = IF want <= len - pos THEN want ELSE len - pos
    BY <1>5, <2>1, MinOfTwo
  <2> HIDE DEF got
  <2> QED
    BY <1>2, <1>3, <1>4, <1>5, <2>1, <2>2
<1> HIDE DEF got
<1>7. late \in BOOLEAN /\ (late => pos + got = len) /\ (got = 0 => late)
  BY <1>6
<1> HIDE DEF late
<1>8. /\ task' \in Tasks
      /\ task'.cmd = task.cmd /\ task'.at = task.at /\ task'.next = task.next /\ task'.file = task.file
      /\ task'.verify = task.verify /\ task'.count = task.count /\ task'.number = task.number
      /\ task'.status = task.status /\ task'.result = task.result
      /\ task'.pos = pos + got /\ task'.eof = late
  <2> DEFINE p == pos + got
  <2>1. p \in Nat
    BY <1>2, <1>6
  <2>2. task' = [task EXCEPT !.pos = p, !.eof = late]
    BY <1>1
  <2> HIDE DEF p
  <2>3. /\ task' \in Tasks
        /\ task'.cmd = task.cmd /\ task'.at = task.at /\ task'.next = task.next /\ task'.file = task.file
        /\ task'.verify = task.verify /\ task'.count = task.count /\ task'.number = task.number
        /\ task'.status = task.status /\ task'.result = task.result
        /\ task'.pos = p /\ task'.eof = late
    BY <1>2, <1>7, <2>1, <2>2 DEF Tasks
  <2> QED
    BY <2>3 DEF p
<1>9. words \in Seq(SUBSET Bits) /\ Len(words) = got /\ \A i \in 1 .. got : words[i] = task.file[pos + i]
  BY <1>2, <1>6, Slice DEF len
<1> HIDE DEF words
<1>10. call' \in Calls /\ call'.at = next /\ call'.words = words
  BY <1>1, <1>2, <1>9 DEF Calls
<1>11. ASSUME 1 <= got
       PROVE  /\ next \in Addr /\ next + got <= Size
              /\ \A x \in Int : next <= x /\ x < next + got => Block(x) = Block(next)
              /\ pc' = IF Block(next) \in erased THEN "program" ELSE "unlock"
  <2>1. next \in Addr /\ next + got <= Size
    BY <1>2, <1>3, <1>6, <1>11, SizeIsNat DEF Addr
  <2>2. \A x \in Int : next <= x /\ x < next + left => Block(x) = Block(next)
    BY <2>1, BlockRest DEF left, next
  <2>3. \A x \in Int : x < next + got => x < next + left
    BY <1>2, <1>4, <1>6
  <2>4. got # 0
    BY <1>11
  <2> QED
    BY <1>1, <2>1, <2>2, <2>3, <2>4 DEF Block, next
<1>12. got = 0 => task'.eof /\ pc' = "chunk"
  BY <1>1, <1>7, <1>8
<1>13. ChunkRead(got)
  BY <1>1, <1>2, <1>3, <1>6, <1>7, <1>8, <1>9, <1>10, <1>11, <1>12 DEF ChunkRead, len, pos, next
<1> QED
  BY <1>13

LEMMA ShapeReadChunk == ASSUME Shape, ReadChunk PROVE Shape'
<1>1. PICK got : ChunkRead(got)
  BY ReadChunkIs
<1> DEFINE next == task.next
           at == task.at
           pos == task.pos
           len == Len(task.file)
<1>2. /\ next \in Nat /\ at \in Nat /\ pos \in Nat /\ got \in Nat /\ len \in Nat /\ next = at + pos
      /\ pos + got <= len /\ at + len <= Size
  BY <1>1, LenProperties DEF ChunkRead, Tasks, Shape, FilePlaced
<1>3. Chips' = Chips
  BY <1>1 DEF Chips, ChunkRead
<1>4. pc' \in {"chunk", "program", "unlock"} /\ (pc' # "chunk" => 1 <= got)
  <2>1. got = 0 \/ 1 <= got
    BY <1>2
  <2> QED
    BY <1>1, <2>1 DEF ChunkRead
<1>5. Typed'
  BY <1>1, <1>3, <1>4 DEF Shape, Typed, ChunkRead, Pcs
<1>6. Placed' /\ BlocksCounted'
  BY <1>1, <1>4 DEF Placed, BlocksCounted, ChunkRead, BlockCommands
<1>7. OperationIssued'
  <2>1. /\ issued' = issued /\ driver' = driver /\ task'.cmd = task.cmd /\ task'.at = at /\ task'.file = task.file
        /\ task'.pos = pos + got
    BY <1>1 DEF ChunkRead
  <2>2. \A x \in Int : x < at + pos => x < at + (pos + got)
    BY <1>2
  <2>3. issued.op = "program" => DOMAIN issued.words \subseteq Int
    <3>1. issued \in {NoOp} \cup BlockOps \cup ProgramOps
      BY DEF Shape, Typed
    <3>2. issued.op = "program" => issued \in ProgramOps
      BY <3>1, OpsAreBusy
    <3>3. \A o \in ProgramOps : o.op = "program" /\ o \in BlockOps \cup ProgramOps
      BY OpsAreBusy
    <3>4. Addr \subseteq Int
      BY DEF Addr
    <3> QED
      BY <3>2, <3>3, <3>4, TouchedAre
  <2> QED
    BY <1>4, <2>1, <2>2, <2>3 DEF Shape, OperationIssued
<1>8. FilePlaced'
  <2>1. /\ task'.cmd = "flashmem" /\ task'.at = at /\ task'.file = task.file /\ task'.pos = pos + got
        /\ task'.next = next /\ (task'.eof => pos + got = len)
        /\ call'.at = next /\ Len(call'.words) = got /\ todo' = call'
        /\ \A i \in 1 .. got : call'.words[i] = task.file[pos + i]
        /\ pc' = "chunk" => got = 0
    <3>1. 1 <= got => pc' # "chunk"
      BY <1>1 DEF ChunkRead
    <3> QED
      BY <1>1, <1>2, <3>1 DEF ChunkRead
  <2>2. at + len <= Size /\ pos + got <= len
    BY <1>2
  <2>3. (pc' = "chunk" => next = at + (pos + got)) /\ (1 <= got => at <= next /\ next < at + (pos + got))
        /\ next + got = at + (pos + got)
    BY <1>2, <2>1
  <2>4. OfFile(call.at, call.words)'
    <3> SUFFICES ASSUME NEW i \in 1 .. got PROVE call'.words[i] = task.file[next - at + i]
      BY <2>1 DEF OfFile
    <3>1. next - at + i = pos + i
      BY <1>2
    <3> QED
      BY <2>1, <3>1
  <2>5. 1 <= got => \A x \in Addr : next <= x /\ x < at + (pos + got) => Block(x) = Block(next)
    <3>1. 1 <= got => \A x \in Int : next <= x /\ x < next + got => Block(x) = Block(next)
      BY <1>1 DEF ChunkRead
    <3>2. Addr \subseteq Int
      BY DEF Addr
    <3> QED
      BY <2>3, <3>1, <3>2
  <2>6. next <= next
    BY <1>2
  <2> HIDE DEF next, at, pos, len
  <2> QED
    BY <1>4, <2>1, <2>2, <2>3, <2>4, <2>5, <2>6 DEF FilePlaced, Writing, OfFile, len
<1> QED
  BY <1>5, <1>6, <1>7, <1>8 DEF Shape

LEMMA ShapeChunkProgrammed == ASSUME Shape, ChunkProgrammed PROVE Shape'
<1>1. /\ pc = "program" /\ todo.words = << >> /\ task' = [task EXCEPT !.next = todo.at] /\ pc' = "chunk"
      /\ UNCHANGED <<driver, faults, buffered, content, named, multi, chip, call, todo, issued, polls, erased>>
  BY DEF ChunkProgrammed, constants
<1>2. /\ task.cmd = "flashmem" /\ task \in Tasks /\ todo.at \in Nat /\ Len(todo.words) = 0
      /\ todo.at + Len(todo.words) = task.at + task.pos /\ task.pos <= Len(task.file)
      /\ task.at + Len(task.file) <= Size
  BY <1>1, WritingIs DEF Shape, FilePlaced
<1>3. /\ task' \in Tasks
      /\ task'.cmd = task.cmd /\ task'.at = task.at /\ task'.next = todo.at /\ task'.file = task.file
      /\ task'.verify = task.verify /\ task'.pos = task.pos /\ task'.eof = task.eof
      /\ task'.count = task.count /\ task'.number = task.number /\ task'.status = task.status
      /\ task'.result = task.result
  BY <1>1, <1>2 DEF Tasks
<1>4. Chips' = Chips
  BY <1>1 DEF Chips
<1>5. Typed'
  BY <1>1, <1>3, <1>4 DEF Shape, Typed, Pcs
<1>6. Placed' /\ BlocksCounted'
  BY <1>1, <1>2, <1>3 DEF Placed, BlocksCounted, BlockCommands
<1>7. OperationIssued'
  BY <1>1, <1>3 DEF Shape, OperationIssued
<1>8. FilePlaced'
  <2>1. todo.at = task.at + task.pos
    BY <1>2
  <2>2. task.eof => task.pos = Len(task.file)
    BY <1>2 DEF Shape, FilePlaced
  <2> QED
    BY <1>1, <1>2, <1>3, <2>1, <2>2 DEF FilePlaced, Writing
<1> QED
  BY <1>5, <1>6, <1>7, <1>8 DEF Shape

LEMMA ShapeReadArray == ASSUME Shape, ReadArray PROVE Shape'
<1>1. /\ pc = "chunk" /\ task.eof /\ chip' = InArray
      /\ UNCHANGED <<driver, faults, buffered, content, named, multi, call, todo, issued, polls, erased>>
      /\ \/ pc' = "verify" /\ task' = [task EXCEPT !.next = task.at]
         \/ Finish("ok")
  BY DEF ReadArray, constants
<1>2. /\ task.cmd = "flashmem" /\ task \in Tasks /\ task.pos = Len(task.file) /\ task.at \in Nat
      /\ task.at + Len(task.file) <= Size /\ Len(task.file) \in Nat
  BY <1>1, LenProperties DEF Shape, Placed, Typed, FilePlaced, Tasks
<1>3. chip' \in [Chips -> ChipStates] /\ Chips' = Chips /\ multi' \in BOOLEAN
  BY <1>1, InArrayIs DEF Shape, Typed, Chips
<1>4. CASE Finish("ok")
  BY <1>1, <1>2, <1>3, <1>4, ShapeFinished
<1>5. CASE pc' = "verify" /\ task' = [task EXCEPT !.next = task.at]
  <2>1. /\ task' \in Tasks
        /\ task'.cmd = task.cmd /\ task'.at = task.at /\ task'.next = task.at /\ task'.file = task.file
        /\ task'.pos = task.pos /\ task'.eof = task.eof
    BY <1>2, <1>5 DEF Tasks
  <2>2. Typed'
    BY <1>1, <1>3, <1>5, <2>1 DEF Shape, Typed, Pcs
  <2>3. Placed' /\ BlocksCounted'
    BY <1>2, <1>5, <2>1 DEF Placed, BlocksCounted, BlockCommands
  <2>4. OperationIssued'
    BY <1>1, <1>5, <2>1 DEF Shape, OperationIssued
  <2>5. task.at <= task.at /\ task.at <= task.at + Len(task.file)
    BY <1>2
  <2>6. task.pos <= Len(task.file)
    BY <1>2
  <2>7. FilePlaced'
    BY <1>2, <1>5, <2>1, <2>5, <2>6 DEF FilePlaced, Writing
  <2> QED
    BY <2>2, <2>3, <2>4, <2>7 DEF Shape
<1> QED
  BY <1>1, <1>4, <1>5

(* Verifying compares the next word, or ends. *)
LEMMA VerifyIs ==
    ASSUME Shape, Verify
    PROVE  /\ pc = "verify" /\ task.cmd = "flashmem" /\ task.pos = Len(task.file)
           /\ task \in Tasks /\ task' \in Tasks
           /\ UNCHANGED <<driver, faults, buffered, content, named, multi, chip, call, todo, issued, polls, erased>>
           /\ \/ Finish("ok") /\ task.next = task.at + Len(task.file)
              \/ Finish("fail") /\ FALSE \in Matches(task.next) /\ task.next # task.at + Len(task.file)
              \/ /\ pc' = pc /\ task.next # task.at + Len(task.file) /\ TRUE \in Matches(task.next)
                 /\ task'.cmd = task.cmd /\ task'.at = task.at /\ task'.next = task.next + 1
                 /\ task'.file = task.file /\ task'.verify = task.verify /\ task'.pos = task.pos
                 /\ task'.eof = task.eof /\ task'.count = task.count /\ task'.number = task.number
                 /\ task'.status = task.status /\ task'.result = task.result
<1>1. /\ pc = "verify"
      /\ UNCHANGED <<driver, faults, buffered, content, named, multi, chip, call, todo, issued, polls, erased>>
      /\ \/ Finish("ok") /\ task.next = task.at + Len(task.file)
         \/ Finish("fail") /\ FALSE \in Matches(task.next) /\ task.next # task.at + Len(task.file)
         \/ /\ pc' = pc /\ task.next # task.at + Len(task.file) /\ TRUE \in Matches(task.next)
            /\ task' = [task EXCEPT !.next = task.next + 1]
  BY DEF Verify, constants
<1>2. task \in Tasks /\ task.cmd = "flashmem" /\ task.pos = Len(task.file)
  BY <1>1 DEF Shape, Typed, Placed, FilePlaced
<1>3. ASSUME NEW r \in {"ok", "fail"}, Finish(r) PROVE task' \in Tasks
  BY <1>2, <1>3, FinishIs
<1>4. ASSUME task' = [task EXCEPT !.next = task.next + 1]
      PROVE  /\ task' \in Tasks
             /\ task'.cmd = task.cmd /\ task'.at = task.at /\ task'.next = task.next + 1
             /\ task'.file = task.file /\ task'.verify = task.verify /\ task'.pos = task.pos
             /\ task'.eof = task.eof /\ task'.count = task.count /\ task'.number = task.number
             /\ task'.status = task.status /\ task'.result = task.result
  <2> DEFINE n == task.next + 1
  <2>1. n \in Nat
    BY <1>2 DEF Tasks
  <2>2. task' = [task EXCEPT !.next = n]
    BY <1>4
  <2> HIDE DEF n
  <2>3. /\ task' \in Tasks
        /\ task'.cmd = task.cmd /\ task'.at = task.at /\ task'.next = n
        /\ task'.file = task.file /\ task'.verify = task.verify /\ task'.pos = task.pos
        /\ task'.eof = task.eof /\ task'.count = task.count /\ task'.number = task.number
        /\ task'.status = task.status /\ task'.result = task.result
    BY <1>2, <2>1, <2>2 DEF Tasks
  <2> QED
    BY <2>3 DEF n
<1> QED
  BY <1>1, <1>2, <1>3, <1>4

LEMMA ShapeVerify == ASSUME Shape, Verify PROVE Shape'
<1>1. /\ pc = "verify" /\ task.cmd = "flashmem" /\ task.pos = Len(task.file)
      /\ task \in Tasks /\ task' \in Tasks
      /\ UNCHANGED <<driver, faults, buffered, content, named, multi, chip, call, todo, issued, polls, erased>>
  BY VerifyIs
<1>2. Chips' = Chips /\ chip' \in [Chips -> ChipStates] /\ multi' \in BOOLEAN
  BY <1>1 DEF Chips, Shape, Typed
<1>3. ASSUME NEW r \in {"ok", "fail"}, Finish(r) PROVE Shape'
  BY <1>1, <1>2, <1>3, ShapeFinished
<1>4. CASE /\ pc' = pc /\ task.next # task.at + Len(task.file)
           /\ task'.cmd = task.cmd /\ task'.at = task.at /\ task'.next = task.next + 1
           /\ task'.file = task.file /\ task'.pos = task.pos /\ task'.eof = task.eof
           /\ task'.result = task.result
  <2>1. Typed'
    BY <1>1, <1>2, <1>4 DEF Shape, Typed
  <2>2. Placed' /\ BlocksCounted' /\ OperationIssued'
    BY <1>1, <1>4 DEF Shape, Placed, BlocksCounted, OperationIssued, BlockCommands
  <2>3. FilePlaced'
    <3> DEFINE len == Len(task.file)
    <3>1. /\ len \in Nat /\ task.at \in Nat /\ task.next \in Nat
          /\ task.at <= task.next /\ task.next <= task.at + len
      BY <1>1, LenProperties DEF Tasks, Shape, FilePlaced
    <3> HIDE DEF len
    <3>2. task.next # task.at + len
      BY <1>4 DEF len
    <3>3. task.at <= task.next + 1 /\ task.next + 1 <= task.at + len
      BY <3>1, <3>2
    <3> QED
      BY <1>1, <1>4, <3>3 DEF Shape, FilePlaced, Writing, len
  <2> QED
    BY <2>1, <2>2, <2>3 DEF Shape
<1> QED
  BY <1>3, <1>4, VerifyIs

LEMMA ShapeStartBlock == ASSUME Shape, StartBlock PROVE Shape'
<1>1. /\ pc = "block"
      /\ UNCHANGED <<driver, faults, buffered, content, named, multi, chip, call, todo, issued, polls, erased>>
      /\ \/ Finish(task.status)
         \/ Finish("fail")
         \/ /\ task.number # 0 /\ FindBlock(task.next) # NoBlock /\ task' = task
            /\ pc' = IF task.cmd = "lock" THEN "lock" ELSE "unlock"
  BY DEF StartBlock, constants
<1>2. task \in Tasks /\ task.status \in {"ok", "fail"} /\ task.cmd \in BlockCommands /\ task.cmd # "flashmem"
  BY <1>1 DEF Shape, Typed, Placed, Tasks, BlockCommands
<1>3. Chips' = Chips /\ chip' \in [Chips -> ChipStates] /\ multi' \in BOOLEAN
  BY <1>1 DEF Chips, Shape, Typed
<1>4. ASSUME NEW r \in {"ok", "fail"}, Finish(r) PROVE Shape'
  BY <1>1, <1>2, <1>3, <1>4, ShapeFinished
<1>5. CASE /\ task.number # 0 /\ FindBlock(task.next) # NoBlock /\ task' = task
           /\ pc' = IF task.cmd = "lock" THEN "lock" ELSE "unlock"
  <2>1. task.next \in Addr /\ 1 <= task.number
    BY <1>2, <1>5, NoBlockThere DEF Tasks
  <2>2. Typed'
    BY <1>1, <1>3, <1>5 DEF Shape, Typed, Pcs
  <2>3. Placed' /\ OperationIssued' /\ FilePlaced'
    BY <1>1, <1>2, <1>5 DEF Shape, Placed, OperationIssued, FilePlaced, BlockCommands
  <2>4. BlocksCounted'
    BY <1>1, <1>2, <1>5, <2>1 DEF Shape, BlocksCounted
  <2> QED
    BY <2>2, <2>3, <2>4 DEF Shape
<1> QED
  BY <1>1, <1>2, <1>4, <1>5

(* A command begins. *)
BeginsAs(t, at) ==
    /\ pc = "idle" /\ task' = t /\ pc' = at /\ erased' = {} /\ call' = NoCall /\ todo' = NoCall
    /\ issued' = NoOp /\ polls' = 0 /\ named' = named \cup NamedBlocks(t)
    /\ chip' = Reset(Cleared)
    /\ UNCHANGED <<driver, faults, buffered, algorithm, atZero, content, multi, bypassing>>

(* set_flash_driver leaves idle chips idle, and frees those that failed. *)
LEMMA BeginIs ==
    ASSUME chip \in [Chips -> ChipStates], NEW t, NEW at, BeginsAs(t, at)
    PROVE  /\ Chips' = Chips /\ chip' \in [Chips -> ChipStates]
           /\ \A l \in Chips : /\ chip'[l].cells = chip[l].cells /\ chip'[l].locked = chip[l].locked
                               /\ chip'[l].sr \in {{}, chip[l].sr} /\ ~chip'[l].stuck
                               /\ chip'[l].busy = (IF chip[l].stuck THEN None ELSE chip[l].busy)
                               /\ chip'[l].bypass = chip[l].bypass
<1> DEFINE chips == Cleared
<1>1. chip' = Reset(chips) /\ driver' = driver
  BY DEF BeginsAs
<1>2. /\ chips \in [Chips -> ChipStates]
      /\ \A l \in Chips : /\ chips[l].cells = chip[l].cells /\ chips[l].locked = chip[l].locked
                          /\ chips[l].busy = chip[l].busy /\ chips[l].stuck = chip[l].stuck
                          /\ chips[l].bypass = chip[l].bypass /\ chips[l].sr \in {{}, chip[l].sr}
  BY ClearedIs
<1> HIDE DEF chips
<1>3. Chips' = Chips
  BY <1>1 DEF Chips
<1> QED
  BY <1>1, <1>2, <1>3, ResetIs

LEMMA FlashmemIs ==
    ASSUME Shape, NEW a \in Starts, NEW f \in Files, NEW v \in BOOLEAN, Flashmem(a, f, v)
    PROVE  \E t \in Tasks : /\ BeginsAs(t, "chunk") /\ t.cmd = "flashmem" /\ t.at = a /\ t.next = a /\ t.file = f
                            /\ t.verify = v /\ t.pos = 0 /\ ~t.eof /\ t.status = "ok" /\ t.result = "none"
                            /\ a + Len(f) <= Size /\ a \in Nat
<1> DEFINE t == [NoTask EXCEPT !.cmd = "flashmem", !.at = a, !.next = a, !.file = f, !.verify = v]
           no == FALSE
<1>1. BeginsAs(t, "chunk") /\ a + Len(f) <= Size
  BY DEF Flashmem, Begin, BeginsAs
<1>2. a \in Nat /\ f \in Seq(SUBSET Bits) /\ no \in BOOLEAN /\ ~no
  BY FlashAssumption
<1> HIDE DEF no
<1>3. NoTask = [cmd |-> "none", at |-> 0, next |-> 0, file |-> << >>, verify |-> no, pos |-> 0,
                eof |-> no, count |-> 0, number |-> 0, status |-> "ok", result |-> "none"]
  BY DEF NoTask, no
<1>4. /\ t \in Tasks /\ t.cmd = "flashmem" /\ t.at = a /\ t.next = a /\ t.file = f
      /\ t.verify = v /\ t.pos = 0 /\ ~t.eof /\ t.status = "ok" /\ t.result = "none"
  BY <1>2, <1>3 DEF Tasks
<1> QED
  BY <1>1, <1>2, <1>4

LEMMA ForBlocksIs ==
    ASSUME Shape, NEW cmd \in BlockCommands, NEW a \in Starts, NEW n \in Counts, ForBlocks(cmd, a, n)
    PROVE  \E t \in Tasks : /\ BeginsAs(t, "block") /\ t.cmd = cmd /\ t.at = a /\ t.next = a
                            /\ t.count = n /\ t.number = n /\ t.status = "ok" /\ t.result = "none"
                            /\ n \in Nat /\ 1 <= n /\ a \in Nat
<1> DEFINE t == [NoTask EXCEPT !.cmd = cmd, !.at = a, !.next = a, !.count = n, !.number = n]
           no == FALSE
<1>1. BeginsAs(t, "block")
  BY DEF ForBlocks, Begin, BeginsAs
<1>2. a \in Nat /\ n \in Nat /\ 1 <= n /\ no \in BOOLEAN
  BY FlashAssumption
<1> HIDE DEF no
<1>3. NoTask = [cmd |-> "none", at |-> 0, next |-> 0, file |-> << >>, verify |-> no, pos |-> 0,
                eof |-> no, count |-> 0, number |-> 0, status |-> "ok", result |-> "none"]
  BY DEF NoTask, no
<1>4. << >> \in Seq(SUBSET Bits)
  OBVIOUS
<1>5. /\ t \in Tasks /\ t.cmd = cmd /\ t.at = a /\ t.next = a
      /\ t.count = n /\ t.number = n /\ t.status = "ok" /\ t.result = "none"
  BY <1>2, <1>3, <1>4 DEF Tasks
<1> QED
  BY <1>1, <1>2, <1>5

LEMMA ShapeCommand == ASSUME Shape, Command PROVE Shape'
<1>1. NoCall \in Calls /\ 0 \in 0 .. Polls
  <2>1. << >> \in Seq(SUBSET Bits) /\ Polls \in Nat
    BY FlashAssumption
  <2> QED
    BY <2>1 DEF NoCall, Calls
<1>2. ASSUME NEW t \in Tasks, NEW at \in {"chunk", "block"}, BeginsAs(t, at) PROVE Typed' /\ OperationIssued'
  <2>1. chip' \in [Chips' -> ChipStates]
    BY <1>2, BeginIs DEF Shape, Typed
  <2>3. Typed'
    BY <1>1, <1>2, <2>1 DEF Shape, Typed, BeginsAs, Pcs
  <2>2. OperationIssued'
    BY <1>2, OpsAreBusy DEF OperationIssued, BeginsAs
  <2> QED
    BY <2>2, <2>3
<1>3. ASSUME NEW a \in Starts, NEW f \in Files, NEW v \in BOOLEAN, Flashmem(a, f, v) PROVE Shape'
  <2>1. PICK t \in Tasks : /\ BeginsAs(t, "chunk") /\ t.cmd = "flashmem" /\ t.at = a /\ t.next = a /\ t.file = f
                           /\ t.pos = 0 /\ ~t.eof /\ a + Len(f) <= Size /\ a \in Nat
    BY <1>3, FlashmemIs
  <2>2. pc' = "chunk" /\ task' = t
    BY <2>1 DEF BeginsAs
  <2>3. Typed' /\ OperationIssued'
    BY <1>2, <2>1
  <2>4. Placed' /\ BlocksCounted'
    BY <2>1, <2>2 DEF Placed, BlocksCounted, BlockCommands
  <2>5. 0 <= Len(f) /\ a = a + 0
    BY <2>1, LenProperties DEF Tasks
  <2>6. FilePlaced'
    BY <2>1, <2>2, <2>5 DEF FilePlaced, Writing
  <2> QED
    BY <2>3, <2>4, <2>6 DEF Shape
<1>4. ASSUME NEW cmd \in BlockCommands, NEW a \in Starts, NEW n \in Counts, ForBlocks(cmd, a, n) PROVE Shape'
  <2>1. PICK t \in Tasks : /\ BeginsAs(t, "block") /\ t.cmd = cmd /\ t.at = a /\ t.next = a
                           /\ t.count = n /\ t.number = n /\ n \in Nat /\ 1 <= n /\ a \in Nat
    BY <1>4, ForBlocksIs
  <2>2. pc' = "block" /\ task' = t
    BY <2>1 DEF BeginsAs
  <2>3. Typed' /\ OperationIssued'
    BY <1>2, <2>1
  <2>4. Placed' /\ FilePlaced'
    BY <2>1, <2>2 DEF Placed, FilePlaced, BlockCommands
  <2>5. BlocksCounted'
    <3>1. n - n = 0 /\ n <= n
      BY <2>1
    <3>2. Block(a) \in Int
      BY BlockRest, NoBlockThere
    <3>3. Block(a) = Block(a) + (n - n)
      BY <3>1, <3>2
    <3>4. a \notin Addr => Block(a) \notin Blocks
      BY NoBlockThere
    <3> QED
      BY <2>1, <2>2, <3>1, <3>3, <3>4 DEF BlocksCounted
  <2> QED
    BY <2>3, <2>4, <2>5 DEF Shape
<1> QED
  BY <1>3, <1>4 DEF Command, BlockCommands

(* The variables have their types, a command is at a place of its own, has   *)
(* counted the blocks it is past, and gives the chips its file where it      *)
(* belongs.                                                                  *)
THEOREM FlashShape == Spec => []Shape
<1>1. ASSUME Shape, [Next]_vars PROVE Shape'
  <2>1. CASE Command
    BY <1>1, <2>1, ShapeCommand
  <2>2. CASE Unlock \/ Unlocked \/ Lock \/ Locked \/ Erase \/ Erased
    BY <1>1, <2>2, ShapeUnlock, ShapeUnlocked, ShapeLock, ShapeLocked, ShapeErase, ShapeErased
  <2>3. CASE PollAgain
    <3>1. polls \in 0 .. Polls /\ polls > 0 /\ Polls \in Nat /\ polls' = polls - 1
      BY <1>1, <2>3, FlashAssumption DEF PollAgain, Shape, Typed
    <3>2. polls' \in 0 .. Polls
      BY <3>1
    <3>3. /\ UNCHANGED <<driver, faults, buffered, content, multi, task, call, todo, issued, chip>> /\ pc' = pc
          /\ chip \in [Chips -> ChipStates]
      BY <1>1, <2>3 DEF PollAgain, constants, Shape, Typed
    <3> QED
      BY <1>1, <3>2, <3>3, ShapeKept
  <2>4. CASE ProgramWord \/ ClearStatus \/ ProgramBuffer \/ Programmed \/ ProgramFails
    BY <1>1, <2>4, ShapeProgramWord, ShapeClearStatus, ShapeProgramBuffer, ShapeProgrammed, ShapeProgramFails
  <2>5. CASE ReadChunk \/ ChunkProgrammed \/ ReadArray \/ Verify \/ StartBlock
    BY <1>1, <2>5, ShapeReadChunk, ShapeChunkProgrammed, ShapeReadArray, ShapeVerify, ShapeStartBlock
  <2>6. ASSUME NEW l \in Chips, ChipEnds(l) PROVE Shape'
    <3>1. chip \in [Chips -> ChipStates] /\ polls \in 0 .. Polls
      BY <1>1 DEF Shape, Typed
    <3>2. chip' \in [Chips -> ChipStates]
      BY <2>6, <3>1, ChipEndsIs
    <3>3. UNCHANGED <<driver, faults, buffered, content, multi, task, call, todo, issued, pc, polls>>
      BY <2>6 DEF ChipEnds, constants
    <3> QED
      BY <1>1, <3>1, <3>2, <3>3, ShapeKept
  <2>7. CASE UNCHANGED vars
    <3>1. UNCHANGED <<driver, faults, buffered, content, multi, task, call, todo, issued, pc, polls, chip>>
      BY <2>7 DEF vars, constants
    <3>2. chip \in [Chips -> ChipStates] /\ polls \in 0 .. Polls
      BY <1>1 DEF Shape, Typed
    <3> QED
      BY <1>1, <3>1, <3>2, ShapeKept
  <2> QED
    BY <1>1, <2>1, <2>2, <2>3, <2>4, <2>5, <2>6, <2>7 DEF Next, Step
<1> QED
  BY <1>1, ShapeInit, PTL DEF Spec

-----------------------------------------------------------------------------
(* No step of a command changes what chips hold, or what the command is; a   *)
(* chip that is idle may begin the operation that is issued, and one that    *)
(* failed may be reset.                                                      *)

(* A command stays what it is. *)
SameCommand ==
    /\ task'.cmd = task.cmd /\ task'.at = task.at /\ task'.file = task.file
    /\ task'.verify = task.verify /\ task'.count = task.count

(* A step that issues an operation goes on to wait for it, or for the next   *)
(* buffer.                                                                   *)
Begins(o) ==
    /\ o \in BlockOps \cup ProgramOps
    /\ o.op = "erase" => pc' = "erasing"
    /\ o.op = "lock" => driver \in Intel
    /\ \/ pc' \in Waiting
       \/ pc' = "program" /\ todo'.words # << >> /\ multi' /\ driver = "intel" /\ o.op = "program"

(* What the steps of a command do to a chip. *)
ChipWaits(l) ==
    /\ chip'[l].cells = chip[l].cells /\ chip'[l].locked = chip[l].locked
    /\ chip'[l].sr \in {{}, chip[l].sr} /\ (chip'[l].stuck => chip[l].stuck)
    /\ \/ chip'[l].busy = chip[l].busy
       \/ chip'[l].busy = None /\ chip[l].stuck /\ ~chip'[l].stuck
       \/ /\ Idle(chip[l]) \/ chip[l].stuck
          /\ chip'[l].busy = issued' /\ ~chip'[l].stuck /\ Begins(issued')

LEMMA SameCommandIs ==
    ASSUME task \in Tasks,
           \/ \E ok \in BOOLEAN : NextBlock(ok)
           \/ \E r \in {"ok", "fail"} : Finish(r)
           \/ UNCHANGED task
    PROVE  SameCommand
<1>1. ASSUME NEW ok \in BOOLEAN, NextBlock(ok) PROVE SameCommand
  <2> DEFINE next == task.next + FindBlock(task.next).left
             number == task.number - 1
             status == IF ok THEN task.status ELSE "fail"
  <2>1. task' = [task EXCEPT !.next = next, !.number = number, !.status = status]
    BY <1>1 DEF NextBlock
  <2> HIDE DEF next, number, status
  <2> QED
    BY <2>1 DEF SameCommand, Tasks
<1>2. ASSUME NEW r \in {"ok", "fail"}, Finish(r) PROVE SameCommand
  BY <1>2, FinishIs DEF SameCommand
<1> QED
  BY <1>1, <1>2 DEF SameCommand

LEMMA ChipsWait ==
    ASSUME chip \in [Chips -> ChipStates],
           \/ UNCHANGED chip
           \/ chip' = Cleared
           \/ chip' = InArray
           \/ chip' = [chip EXCEPT ![1].mode = "identifier"]
           \/ \E o : Begins(o) /\ (Issue(o) \/ (chip' = Issued(chip, o) /\ issued' = o))
    PROVE  \A l \in Chips : ChipWaits(l)
<1>1. CASE UNCHANGED chip
  BY <1>1 DEF ChipWaits
<1>2. CASE chip' = Cleared
  BY <1>2, ClearedIs DEF ChipWaits
<1>3. CASE chip' = InArray
  BY <1>3, InArrayIs DEF ChipWaits
<1>4. CASE chip' = [chip EXCEPT ![1].mode = "identifier"]
  BY <1>4, IdentifyingIs DEF ChipWaits
<1>5. ASSUME NEW o, Begins(o), Issue(o) PROVE \A l \in Chips : ChipWaits(l)
  <2>1. o \in BlockOps \cup ProgramOps
    BY <1>5 DEF Begins
  <2> QED
    BY <1>5, <2>1, IssueIs DEF ChipWaits
<1>6. ASSUME NEW o, Begins(o), chip' = Issued(chip, o), issued' = o PROVE \A l \in Chips : ChipWaits(l)
  <2>1. o \in BlockOps \cup ProgramOps
    BY <1>6 DEF Begins
  <2> QED
    BY <1>6, <2>1, IssuedIs DEF ChipWaits, Idle
<1> QED
  BY <1>1, <1>2, <1>3, <1>4, <1>5, <1>6

LEMMA NextIsThere ==
    ASSUME Shape, pc \in {"unlock", "unlocking", "lock", "locking", "erase", "erasing"}
    PROVE  task.next \in Addr
<1>1. \/ task.cmd = "flashmem" /\ pc \in Writing
      \/ task.cmd \in BlockCommands
  BY DEF Shape, Placed, BlockCommands, Writing
<1> QED
  BY <1>1, SizeIsNat DEF Shape, BlocksCounted, FilePlaced, BlockCommands, Typed, Calls, Tasks, Addr

LEMMA StepKeeps ==
    ASSUME Shape, Step
    PROVE  /\ Chips' = Chips /\ SameCommand /\ \A l \in Chips : ChipWaits(l)
           /\ UNCHANGED <<driver, faults, buffered, algorithm, atZero, content, named, given>>
<1>1. chip \in [Chips -> ChipStates] /\ task \in Tasks
  BY DEF Shape, Typed
<1>2. UNCHANGED <<driver, faults, buffered, algorithm, atZero, content, named, given>>
  BY DEF Step, Unlock, Unlocked, Lock, Locked, Erase, Erased, PollAgain, ProgramWord, ClearStatus, ProgramBuffer,
         Programmed, ProgramFails, ReadChunk, ChunkProgrammed, ReadArray, Verify, StartBlock, constants
<1>3. Chips' = Chips
  BY <1>2 DEF Chips
<1>4. CASE Unlock \/ Lock \/ Erase
  <2>1. task.next \in Addr
    BY <1>4, NextIsThere DEF Unlock, Lock, Erase
  <2>2. ASSUME NEW name \in BlockCommands
        PROVE  BlockOp(name, task.next) \in BlockOps /\ BlockOp(name, task.next).op = name
    BY <2>1, BlockOpIs
  <2>3. SameCommand
    <3>1. (\E ok \in BOOLEAN : NextBlock(ok)) \/ UNCHANGED task
      BY <1>4 DEF Unlock, Lock, Erase
    <3> QED
      BY <1>1, <3>1, SameCommandIs
  <2>4. \/ UNCHANGED chip
        \/ Issue(BlockOp("unlock", task.next)) /\ pc' = "unlocking"
        \/ Issue(BlockOp("lock", task.next)) /\ pc' = "locking" /\ driver \in Intel
        \/ Issue(BlockOp("erase", task.next)) /\ pc' = "erasing"
    BY <1>4 DEF Unlock, Lock, Erase, Intel
  <2>5. \A l \in Chips : ChipWaits(l)
    <3> DEFINE u == BlockOp("unlock", task.next)
               k == BlockOp("lock", task.next)
               e == BlockOp("erase", task.next)
    <3>1. u \in BlockOps /\ u.op = "unlock" /\ k \in BlockOps /\ k.op = "lock" /\ e \in BlockOps /\ e.op = "erase"
      BY <2>2 DEF BlockCommands
    <3> HIDE DEF u, k, e
    <3>2. \/ UNCHANGED chip
          \/ Issue(u) /\ pc' = "unlocking"
          \/ Issue(k) /\ pc' = "locking" /\ driver \in Intel
          \/ Issue(e) /\ pc' = "erasing"
      BY <2>4 DEF u, k, e
    <3>3. UNCHANGED chip \/ (Issue(u) /\ Begins(u)) \/ (Issue(k) /\ Begins(k)) \/ (Issue(e) /\ Begins(e))
      BY <3>1, <3>2 DEF Begins, Waiting
    <3> QED
      BY <1>1, <3>3, ChipsWait
  <2> QED
    BY <1>2, <1>3, <2>3, <2>5
<1>5. CASE Unlocked \/ Locked \/ Erased \/ PollAgain \/ StartBlock \/ Programmed \/ ClearStatus
  <2>1. SameCommand
    <3>1. (\E ok \in BOOLEAN : NextBlock(ok)) \/ UNCHANGED task \/ (\E r \in {"ok", "fail"} : Finish(r))
      BY <1>1, <1>5 DEF Unlocked, Locked, Erased, PollAgain, StartBlock, Programmed, ClearStatus, Tasks
    <3> QED
      BY <1>1, <3>1, SameCommandIs
  <2>2. \A l \in Chips : ChipWaits(l)
    <3>1. UNCHANGED chip \/ chip' = Cleared \/ chip' = InArray \/ chip' = [chip EXCEPT ![1].mode = "identifier"]
      BY <1>5 DEF Unlocked, Locked, Erased, PollAgain, StartBlock, Programmed, ClearStatus
    <3> QED
      BY <1>1, <3>1, ChipsWait
  <2> QED
    BY <1>2, <1>3, <2>1, <2>2
<1>6. CASE ProgramWord
  <2>1. PICK o : Gives(o, 1, FALSE, todo') /\ Issue(o) /\ task' = task /\ pc' = "programming"
    BY <1>6, ProgramWordIs
  <2>2. Begins(o)
    BY <2>1 DEF Gives, Begins, Waiting
  <2> QED
    BY <1>1, <1>2, <1>3, <2>1, <2>2, ChipsWait, SameCommandIs
<1>7. CASE ProgramBuffer
  <2>1. PICK o, n : /\ Gives(o, n, TRUE, todo') /\ issued' = o /\ task' = task
                    /\ chip' = IF driver \in Intel \/ buffered THEN Issued(chip, o) ELSE chip
                    /\ multi /\ multi' = multi /\ (driver = "intel" \/ driver = "amd")
                    /\ pc' = IF driver \in Intel /\ todo'.words # << >> THEN "program" ELSE "programming"
    BY <1>7, ProgramBufferIs
  <2>2. Begins(o)
    BY <2>1 DEF Gives, Begins, Waiting, Intel
  <2> QED
    BY <1>1, <1>2, <1>3, <2>1, <2>2, ChipsWait, SameCommandIs
<1>8. CASE ProgramFails
  <2>1. UNCHANGED chip /\ (Finish("fail") \/ UNCHANGED task)
    BY <1>8 DEF ProgramFails
  <2> QED
    BY <1>1, <1>2, <1>3, <2>1, ChipsWait, SameCommandIs
<1>9. CASE ReadChunk
  <2>1. PICK got : ChunkRead(got)
    BY <1>9, ReadChunkIs
  <2> QED
    BY <1>1, <1>2, <1>3, <2>1, ChipsWait DEF ChunkRead, SameCommand
<1>10. CASE ChunkProgrammed
  <2>1. UNCHANGED chip /\ task' = [task EXCEPT !.next = todo.at]
    BY <1>10 DEF ChunkProgrammed
  <2>2. SameCommand
    BY <1>1, <2>1 DEF Tasks, SameCommand
  <2> QED
    BY <1>1, <1>2, <1>3, <2>1, <2>2, ChipsWait
<1>11. CASE ReadArray
  <2>1. chip' = InArray /\ (Finish("ok") \/ task' = [task EXCEPT !.next = task.at])
    BY <1>11 DEF ReadArray
  <2>2. task' = [task EXCEPT !.next = task.at] => SameCommand
    BY <1>1 DEF Tasks, SameCommand
  <2> QED
    BY <1>1, <1>2, <1>3, <2>1, <2>2, ChipsWait, SameCommandIs
<1>12. CASE Verify
  <2>1. UNCHANGED chip /\ (SameCommand \/ \E r \in {"ok", "fail"} : Finish(r))
    BY <1>12, VerifyIs DEF SameCommand
  <2> QED
    BY <1>1, <1>2, <1>3, <2>1, ChipsWait, SameCommandIs
<1> QED
  BY <1>4, <1>5, <1>6, <1>7, <1>8, <1>9, <1>10, <1>11, <1>12 DEF Step

-----------------------------------------------------------------------------
(* What chips change lies in the blocks named. *)

LEMMA NamedAre ==
    ASSUME NEW t
    PROVE  /\ t.cmd = "flashmem" =>
                 NamedBlocks(t) = {Block(a) : a \in {a \in Addr : t.at <= a /\ a < t.at + Len(t.file)}}
           /\ t.cmd \in BlockCommands => NamedBlocks(t) = Block(t.at) .. Block(t.at) + t.count - 1
<1>1. CASE t.cmd = "flashmem"
  BY <1>1 DEF NamedBlocks, BlockCommands
<1>2. CASE t.cmd \in {"erase", "lock", "unlock"}
  BY <1>2 DEF NamedBlocks
<1> QED
  BY <1>1, <1>2 DEF BlockCommands

LEMMA IssuedInBlocks ==
    Shape => (issued \in BlockOps \cup ProgramOps /\ (issued.op = "erase" => pc = "erasing") =>
                 \A a \in Touched(issued) : a \in Addr /\ Block(a) \in NamedBlocks(task))
<1> SUFFICES ASSUME Shape, issued \in BlockOps \cup ProgramOps, issued.op = "erase" => pc = "erasing",
                    NEW a \in Touched(issued)
             PROVE  a \in Addr /\ Block(a) \in NamedBlocks(task)
  OBVIOUS
<1>1. a \in Addr
  BY TouchedAre
<1>2. task \in Tasks /\ Block(task.at) \in Int
  BY BlockRest, NoBlockThere DEF Shape, Typed
<1>3. issued.op \in {"erase", "program"}
  BY TouchedAre
<1>4. CASE issued.op = "program"
  <2>1. a \in DOMAIN issued.words
    BY <1>4, TouchedAre
  <2>2. task.cmd = "flashmem" /\ task.at <= a /\ a < task.at + task.pos
    BY <1>4, <2>1 DEF Shape, OperationIssued
  <2> DEFINE len == Len(task.file)
  <2>3. task.pos <= len /\ len \in Nat /\ task.pos \in Nat /\ task.at \in Nat
    BY <1>2, <2>2, LenProperties DEF Shape, FilePlaced, Tasks
  <2> HIDE DEF len
  <2>4. a < task.at + len
    BY <1>1, <2>2, <2>3 DEF Addr
  <2> QED
    BY <1>1, <2>2, <2>4 DEF NamedBlocks, len
<1>5. CASE issued.op = "erase"
  <2>1. Block(a) = Block(task.next) /\ pc = "erasing"
    BY <1>5, TouchedAre DEF Shape, OperationIssued
  <2>2. task.cmd \in {"flashmem", "erase"} /\ task.next \in Addr
    BY <2>1, NextIsThere DEF Shape, Placed
  <2>3. CASE task.cmd = "erase"
    <3>1. /\ task.number \in Nat /\ task.count \in Nat
          /\ Block(task.next) = Block(task.at) + (task.count - task.number)
          /\ 1 <= task.number /\ task.number <= task.count
      BY <1>2, <2>1, <2>2, <2>3 DEF Shape, BlocksCounted, BlockCommands, Tasks
    <3>2. Block(task.next) \in Block(task.at) .. Block(task.at) + task.count - 1
      BY <1>2, <3>1
    <3> QED
      BY <1>1, <2>1, <2>3, <3>2, NamedAre DEF BlockCommands
  <2>4. CASE task.cmd = "flashmem"
    <3> DEFINE len == Len(task.file)
    <3>1. /\ task.pos <= len /\ len \in Nat /\ task.pos \in Nat /\ task.at \in Nat
          /\ task.next = call.at /\ task.at <= call.at /\ call.at < task.at + task.pos
      BY <1>2, <2>1, <2>4, LenProperties DEF Shape, FilePlaced, Tasks, Writing
    <3> HIDE DEF len
    <3>2. task.at <= task.next /\ task.next < task.at + len
      BY <2>2, <3>1 DEF Addr
    <3> QED
      BY <1>1, <2>1, <2>2, <2>4, <3>2, NamedAre DEF len
  <2> QED
    BY <2>2, <2>3, <2>4
<1> QED
  BY <1>3, <1>4, <1>5

LEMMA NothingTouched == Touched(None) = {}
  BY OpsAreBusy DEF Touched

LEMMA TouchingStep == ASSUME Shape, Shape', Touching, Step PROVE Touching'
<1>1. /\ Chips' = Chips /\ SameCommand /\ \A l \in Chips : ChipWaits(l)
      /\ UNCHANGED <<driver, faults, buffered, content, named, given>>
  BY StepKeeps
<1>2. OnlyItsBlocks'
  BY <1>1 DEF OnlyItsBlocks, ChipWaits, Touching
<1>3. NamedBlocks(task') = NamedBlocks(task)
  BY <1>1 DEF NamedBlocks, SameCommand
<1>4. (issued \in BlockOps \cup ProgramOps /\ (issued.op = "erase" => pc = "erasing") =>
                 \A a \in Touched(issued) : a \in Addr /\ Block(a) \in NamedBlocks(task))'
  BY IssuedInBlocks, PTL
<1>5. ASSUME NEW l \in Chips, NEW a \in Addr, a \in Touched(chip'[l].busy) PROVE Block(a) \in named
  <2>1. CASE chip'[l].busy = chip[l].busy
    BY <1>5, <2>1 DEF Touching
  <2>2. CASE chip'[l].busy = None
    BY <1>5, <2>2, NothingTouched
  <2>3. CASE chip'[l].busy = issued' /\ Begins(issued')
    <3>1. Block(a) \in NamedBlocks(task')
      BY <1>4, <1>5, <2>3 DEF Begins
    <3> QED
      BY <1>3, <3>1 DEF Touching
  <2> QED
    BY <1>1, <2>1, <2>2, <2>3 DEF ChipWaits
<1> QED
  BY <1>1, <1>2, <1>3, <1>5 DEF Touching

LEMMA TouchingChip == ASSUME Shape, Touching, NEW l \in Chips, ChipEnds(l) PROVE Touching'
<1>1. UNCHANGED <<driver, content, named, task>> /\ Chips' = Chips
  BY DEF ChipEnds, constants, Chips
<1>2. chip \in [Chips -> ChipStates]
  BY DEF Shape, Typed
<1>3. /\ chip[l].busy \in BlockOps \cup ProgramOps
      /\ \A k \in Chips : k # l => chip'[k] = chip[k]
      /\ ChipDone(l) \/ ChipRefused(l) \/ ChipFailed(l)
  BY <1>2, ChipEndsIs
<1>4. \A a \in Addr : Block(a) \notin named => chip'[l].cells[a] = chip[l].cells[a]
  <2>1. \A a \in Addr : Block(a) \notin named => a \notin Touched(chip[l].busy)
    BY DEF Touching
  <2> QED
    BY <1>3, <2>1 DEF ChipDone, ChipRefused, ChipFailed
<1>5. chip'[l].busy = None \/ chip'[l].busy = chip[l].busy
  BY <1>3 DEF ChipDone, ChipRefused, ChipFailed
<1>6. OnlyItsBlocks'
  <2> SUFFICES ASSUME NEW k \in Chips, NEW a \in Addr, Block(a) \notin named PROVE chip'[k].cells[a] = content
    BY <1>1 DEF OnlyItsBlocks
  <2>1. chip[k].cells[a] = content
    BY DEF Touching, OnlyItsBlocks
  <2> QED
    BY <1>3, <1>4, <2>1
<1>7. \A k \in Chips, a \in Addr : a \in Touched(chip'[k].busy) => Block(a) \in named
  BY <1>3, <1>5, NothingTouched DEF Touching
<1> QED
  BY <1>1, <1>6, <1>7 DEF Touching

LEMMA TouchingCommand == ASSUME Shape, Touching, Command PROVE Touching'
<1>1. \E t, at : BeginsAs(t, at)
  <2>1. \/ \E a \in Starts, f \in Files, v \in BOOLEAN : Flashmem(a, f, v)
        \/ \E cmd \in BlockCommands, a \in Starts, n \in Counts : ForBlocks(cmd, a, n)
    BY DEF Command, BlockCommands
  <2> QED
    BY <2>1, FlashmemIs, ForBlocksIs
<1>2. PICK t, at : BeginsAs(t, at)
  BY <1>1
<1>3. /\ task' = t /\ named' = named \cup NamedBlocks(t) /\ content' = content /\ Chips' = Chips
      /\ \A l \in Chips : chip'[l].cells = chip[l].cells /\ chip'[l].busy \in {None, chip[l].busy}
  BY <1>2, BeginIs DEF BeginsAs, Shape, Typed
<1>4. OnlyItsBlocks'
  BY <1>3 DEF OnlyItsBlocks, Touching
<1>5. \A l \in Chips, a \in Addr : a \in Touched(chip'[l].busy) => Block(a) \in named'
  BY <1>3, NothingTouched DEF Touching
<1>6. NamedBlocks(task') \subseteq named'
  BY <1>3
<1> QED
  BY <1>3, <1>4, <1>5, <1>6 DEF Touching

(* Operations and what they did stay within the blocks of the commands       *)
(* given.                                                                    *)
THEOREM FlashTouches == Spec => []Touching
<1>1. Init => Touching
  <2> SUFFICES ASSUME Init PROVE Touching
    OBVIOUS
  <2>1. PICK locked \in {{}, {0}} :
          chip = [l \in Chips |-> [cells |-> [a \in Addr |-> content], locked |-> locked, busy |-> None,
                                   stuck |-> FALSE, bypass |-> FALSE, sr |-> {}, mode |-> "array"]]
    BY DEF Init
  <2>2. \A l \in Chips : chip[l].busy = None /\ chip[l].cells = [a \in Addr |-> content]
    BY <2>1
  <2>3. task.cmd = "none"
    BY DEF Init, NoTask
  <2>4. NamedBlocks(task) = {}
    BY <2>3 DEF NamedBlocks
  <2> QED
    BY <2>2, <2>4, NothingTouched DEF Touching, OnlyItsBlocks
<1>2. ASSUME Shape, Shape', Touching, [Next]_vars PROVE Touching'
  <2>1. CASE UNCHANGED vars
    <3>1. UNCHANGED <<driver, content, named, task, chip>> /\ Chips' = Chips
      BY <2>1 DEF vars, constants, Chips
    <3> QED
      BY <1>2, <3>1 DEF Touching, OnlyItsBlocks
  <2> QED
    BY <1>2, <2>1, TouchingStep, TouchingChip, TouchingCommand DEF Next
<1> QED
  BY <1>1, <1>2, FlashShape, PTL DEF Spec

(* No command changes a word outside of the blocks it was given. *)
THEOREM FlashOnlyItsBlocks == Spec => []OnlyItsBlocks
<1>1. Touching => OnlyItsBlocks
  BY DEF Touching
<1> QED
  BY <1>1, FlashTouches, PTL

-----------------------------------------------------------------------------
(* The chips when a command goes on. *)

LEMMA StatusIs ==
    ASSUME NEW ok \in BOOLEAN, Status(ok)
    PROVE  /\ driver \in Intel => IntelStatus(ok)
           /\ driver \notin Intel /\ (driver = "amd040" \/ issued.buffer) =>
                 PollingStatus(issued.at, issued.bit7, ok)
           /\ driver \notin Intel /\ ~(driver = "amd040" \/ issued.buffer) => ToggleStatus(ok)
  BY DEF Status

(* The poll says done only when all chips are, and chips that tell are done  *)
(* when it says failed.                                                      *)
LEMMA StatusSettles ==
    ASSUME Shape, Settled, pc \in Waiting, NEW ok \in BOOLEAN, Status(ok), ok \/ Telling
    PROVE  AllIdle
<1>1. CASE driver \in Intel
  BY <1>1, StatusIs DEF IntelStatus
<1>2. CASE driver \notin Intel /\ (driver = "amd040" \/ issued.buffer)
  <2>1. PollingStatus(issued.at, issued.bit7, ok)
    BY <1>2, StatusIs
  <2>2. Chips = {1}
    <3>1. driver = "amd040" \/ driver \in {"intel", "amd"}
      BY <1>2 DEF Shape, OperationIssued, Settled, Waiting
    <3> QED
      BY <3>1, LanesAre
  <2>3. Idle(chip[1])
    <3>1. 1 \in Chips
      BY <2>2
    <3>2. chip[1].stuck => faults
      BY <3>1 DEF Settled
    <3>3. ok \/ ~faults
      BY <1>2 DEF Telling
    <3>4. /\ ok => ok # FALSE
          /\ ~ok => ok # TRUE
      OBVIOUS
    <3> QED
      BY <2>1, <3>2, <3>3, <3>4 DEF PollingStatus
  <2> QED
    BY <2>2, <2>3 DEF AllIdle
<1>3. CASE driver \notin Intel /\ ~(driver = "amd040" \/ issued.buffer)
  <2>1. ToggleStatus(ok)
    BY <1>3, StatusIs
  <2>2. ok \/ ~faults
    BY <1>3 DEF Telling
  <2> QED
    BY <2>1, <2>2 DEF ToggleStatus
<1> QED
  BY <1>1, <1>2, <1>3

LEMMA TrueSettles == ASSUME Shape, Settled, pc \in Waiting, Status(TRUE) PROVE AllIdle
<1> DEFINE yes == TRUE
<1>1. yes \in BOOLEAN /\ Status(yes) /\ (yes \/ Telling)
  OBVIOUS
<1> HIDE DEF yes
<1> QED
  BY <1>1, StatusSettles

LEMMA FalseSettles == ASSUME Shape, Settled, pc \in Waiting, Telling, Status(FALSE) PROVE AllIdle
<1> DEFINE no == FALSE
<1>1. no \in BOOLEAN /\ Status(no) /\ (no \/ Telling)
  OBVIOUS
<1> HIDE DEF no
<1> QED
  BY <1>1, StatusSettles

(* While chips that tell are at work a driver only polls, or is about to     *)
(* wait for the chip to take the next buffer.                                *)
LEMMA StepsWait ==
    ASSUME Shape, Settled, Step, Telling, ~AllIdle
    PROVE  PollAgain \/ ClearStatus
<1>1. pc \in Waiting \/ (pc \in {"program", "buffer"} /\ todo.words # << >> /\ multi /\ driver = "intel")
  BY DEF Settled
<1>2. CASE pc \in Waiting
  <2>1. ~Status(TRUE) /\ ~Status(FALSE)
    BY <1>2, TrueSettles, FalseSettles
  <2>2. \A ok \in BOOLEAN : ~Status(ok)
    BY <1>2, StatusSettles
  <2> QED
    BY <1>2, <2>1, <2>2 DEF Step, Waiting, Unlock, Unlocked, Lock, Locked, Erase, Erased, ProgramWord,
       ProgramBuffer, Programmed, ProgramFails, ReadChunk, ChunkProgrammed, ReadArray, Verify, StartBlock
<1>3. CASE pc = "buffer"
  BY <1>3 DEF Step, Unlock, Unlocked, Lock, Locked, Erase, Erased, ProgramWord,
     ProgramBuffer, Programmed, ProgramFails, ReadChunk, ChunkProgrammed, ReadArray, Verify, StartBlock
<1>4. CASE pc = "program" /\ todo.words # << >> /\ multi /\ driver = "intel"
  BY <1>4 DEF Step, Unlock, Unlocked, Lock, Locked, Erase, Erased, ProgramWord, UsesBuffer, Intel,
     ProgramBuffer, Programmed, ProgramFails, ReadChunk, ChunkProgrammed, ReadArray, Verify, StartBlock
<1> QED
  BY <1>1, <1>2, <1>3, <1>4

LEMMA WaitingOn ==
    ASSUME PollAgain \/ ClearStatus, chip \in [Chips -> ChipStates]
    PROVE  /\ UNCHANGED <<issued, task, todo, call, multi, erased, driver, faults>>
           /\ \/ pc \in {"erasing", "programming"} /\ pc' = pc
              \/ pc = "program" /\ pc' = "buffer" /\ todo.words # << >> /\ multi /\ driver = "intel"
           /\ Chips' = Chips /\ \A l \in Chips : chip'[l].busy = chip[l].busy /\ chip'[l].stuck = chip[l].stuck
<1>1. CASE PollAgain
  BY <1>1 DEF PollAgain, constants, Chips
<1>2. CASE ClearStatus
  BY <1>2, ClearedIs DEF ClearStatus, constants, Chips, UsesBuffer, Intel
<1> QED
  BY <1>1, <1>2

LEMMA SettledStep == ASSUME Shape, Settled, Step PROVE Settled'
<1>1. /\ Chips' = Chips /\ SameCommand /\ \A l \in Chips : ChipWaits(l)
      /\ UNCHANGED <<driver, faults, buffered, content, named, given>>
  BY StepKeeps
<1>2. chip \in [Chips -> ChipStates] /\ task \in Tasks /\ (Telling' <=> Telling)
  BY <1>1 DEF Shape, Typed, Telling
<1>3. (pc = "unlocking" => driver \in Intel)' /\ (pc = "locking" => driver = "intel" /\ issued.op = "lock")'
  <2>2. CASE Lock
    <3>1. pc' = "locking" => driver = "intel" /\ issued' = BlockOp("lock", task.next)
      BY <2>2 DEF Lock, NextBlock, Issue
    <3>2. BlockOp("lock", task.next).op = "lock"
      BY DEF BlockOp
    <3>3. pc' # "unlocking"
      BY <2>2 DEF Lock, NextBlock
    <3> QED
      BY <1>1, <3>1, <3>2, <3>3 DEF Intel
  <2>3. CASE ~Unlock /\ ~Lock
    <3>1. pc' \notin {"unlocking", "locking"}
      BY <2>3 DEF Step, Unlocked, Locked, Erase, Erased, PollAgain, ProgramWord, ClearStatus, ProgramBuffer,
         Programmed, ProgramFails, ReadChunk, ChunkProgrammed, ReadArray, Verify, StartBlock, NextBlock, Finish
    <3> QED
      BY <3>1
  <2>4. CASE Unlock
    <3>1. pc' = "unlocking" => driver \in Intel
      BY <2>4 DEF Unlock, NextBlock
    <3>2. pc' # "locking"
      BY <2>4 DEF Unlock, NextBlock
    <3> QED
      BY <1>1, <3>1, <3>2
  <2> QED
    BY <2>2, <2>3, <2>4
<1>4. ASSUME NEW l \in Chips
      PROVE  /\ chip'[l].stuck => faults /\ driver \notin Intel /\ chip'[l].busy # None
             /\ driver \notin Intel => /\ chip'[l].sr = {} /\ chip'[l].busy.op # "lock"
                                       /\ ~faults => chip'[l].locked = {}
  <2>1. /\ chip[l].stuck => faults /\ driver \notin Intel /\ chip[l].busy # None
        /\ driver \notin Intel => /\ chip[l].sr = {} /\ chip[l].busy.op # "lock"
                                  /\ ~faults => chip[l].locked = {}
    BY DEF Settled
  <2>2. ChipWaits(l)
    BY <1>1
  <2>3. CASE chip'[l].busy = chip[l].busy
    BY <2>1, <2>2, <2>3 DEF ChipWaits
  <2>4. CASE chip'[l].busy = None /\ ~chip'[l].stuck
    BY <2>1, <2>2, <2>4, OpsAreBusy DEF ChipWaits
  <2>5. CASE chip'[l].busy = issued' /\ ~chip'[l].stuck /\ Begins(issued')
    BY <2>1, <2>2, <2>5 DEF ChipWaits, Begins
  <2> QED
    BY <2>2, <2>3, <2>4, <2>5 DEF ChipWaits
<1>5. ASSUME Telling
      PROVE  /\ \A l \in Chips : chip'[l].busy # None => chip'[l].busy = issued'
             /\ \/ \A l \in Chips : Idle(chip'[l])
                \/ pc' \in Waiting
                \/ /\ pc' \in {"program", "buffer"} /\ todo'.words # << >> /\ multi' /\ driver = "intel"
                   /\ issued'.op = "program"
  <2>1. CASE AllIdle
    <3>1. \A l \in Chips : Idle(chip'[l]) \/ (chip'[l].busy = issued' /\ Begins(issued'))
      BY <1>1, <2>1 DEF ChipWaits, AllIdle, Idle
    <3> QED
      BY <3>1 DEF Begins, Idle
  <2>2. CASE ~AllIdle
    <3>1. PollAgain \/ ClearStatus
      BY <1>5, <2>2, StepsWait
    <3>2. pc \in {"program", "buffer"} => issued.op = "program"
      BY <1>5, <2>2 DEF Settled, Waiting
    <3>3. \A l \in Chips : chip[l].busy # None => chip[l].busy = issued
      BY <1>5 DEF Settled
    <3> QED
      BY <1>2, <3>1, <3>2, <3>3, WaitingOn DEF Waiting
  <2> QED
    BY <2>1, <2>2
<1>6. ASSUME task'.cmd = "flashmem", 0 < task'.pos, pc' \in {"chunk", "verify"} \/ Succeeded'
      PROVE  (\A l \in Chips : Idle(chip'[l])) /\ (pc' = "verify" => \A l \in Chips : chip'[l].mode = "array")
  <2>1. task.cmd = "flashmem"
    BY <1>1, <1>6 DEF SameCommand
  <2>2. CASE ReadChunk
    <3>1. PICK got : ChunkRead(got)
      BY <2>2, ReadChunkIs
    <3>2. got = 0 /\ pc' = "chunk"
      <4>1. 1 <= got => pc' \in {"program", "unlock"}
        BY <3>1 DEF ChunkRead
      <4>2. got \in Nat /\ (got = 0 => pc' = "chunk")
        BY <3>1 DEF ChunkRead
      <4>3. ~(1 <= got)
        BY <1>6, <4>1 DEF Succeeded
      <4> QED
        BY <4>2, <4>3
    <3>3. task'.pos = task.pos /\ pc = "chunk" /\ chip' = chip
      BY <1>2, <3>1, <3>2 DEF ChunkRead, Tasks
    <3> QED
      BY <1>6, <2>1, <3>2, <3>3 DEF Settled, AllIdle
  <2>3. CASE ChunkProgrammed
    <3>1. pc = "program" /\ todo.words = << >> /\ chip' = chip /\ pc' = "chunk"
      BY <2>3 DEF ChunkProgrammed
    <3> QED
      BY <3>1 DEF Settled, AllIdle
  <2>4. CASE ReadArray
    <3>1. pc = "chunk" /\ chip' = InArray /\ task'.pos = task.pos
      BY <1>2, <2>4 DEF ReadArray, Finish, Tasks
    <3>2. AllIdle
      BY <1>6, <2>1, <3>1 DEF Settled
    <3> QED
      BY <1>2, <3>1, <3>2, InArrayIs DEF AllIdle, Idle
  <2>5. CASE Verify
    <3>1. pc = "verify" /\ chip' = chip /\ task'.pos = task.pos
      BY <1>2, <2>5, VerifyIs, FinishIs
    <3> QED
      BY <1>6, <2>1, <3>1 DEF Settled, AllIdle
  <2>6. CASE ProgramFails
    <3>1. pc' = "program" \/ (pc' = "idle" /\ task'.result = "fail")
      BY <1>2, <2>6, FinishIs DEF ProgramFails
    <3> QED
      BY <1>6, <3>1 DEF Succeeded
  <2>7. CASE PollAgain \/ StartBlock
    <3>1. pc' \notin {"chunk", "verify", "idle"}
      BY <2>1, <2>7 DEF PollAgain, StartBlock, Shape, Placed, BlockCommands
    <3> QED
      BY <1>6, <3>1 DEF Succeeded
  <2>8. CASE Unlock \/ Unlocked \/ Lock \/ Locked \/ Erase \/ Erased \/ ProgramWord \/ ClearStatus \/ ProgramBuffer
             \/ Programmed
    <3>1. pc' \notin {"chunk", "verify", "idle"}
      BY <2>8 DEF Unlock, Unlocked, Lock, Locked, Erase, Erased, ProgramWord, ClearStatus, ProgramBuffer, Programmed,
         NextBlock
    <3> QED
      BY <1>6, <3>1 DEF Succeeded
  <2> QED
    BY <2>2, <2>3, <2>4, <2>5, <2>6, <2>7, <2>8 DEF Step
<1>7. ASSUME pc' = "program", todo'.words = << >> PROVE \A l \in Chips : Idle(chip'[l])
  <2>1. Programmed
    <3>1. ASSUME pc = "erasing" \/ pc = "programming", task.cmd = "flashmem"
          PROVE  call.words # << >> /\ (pc = "erasing" => todo.words # << >>)
      <4>1. pc \in Writing
        BY <3>1 DEF Writing
      <4>2. /\ call \in Calls /\ task \in Tasks /\ call.at < task.at + task.pos
            /\ call.at + Len(call.words) = task.at + task.pos
            /\ pc = "erasing" => todo = call
        BY <3>1, <4>1 DEF Shape, FilePlaced, Typed
      <4>3. Len(call.words) # 0
        BY <4>2 DEF Calls, Tasks
      <4> QED
        BY <4>2, <4>3, EmptySeq DEF Calls
    <3>2. ~Erased
      <4>1. Erased => pc = "erasing" /\ (pc' = "program" => task.cmd = "flashmem" /\ todo' = todo)
        BY DEF Erased, NextBlock, Shape, Placed
      <4> QED
        BY <1>7, <3>1, <4>1
    <3>3. ~ProgramFails
      <4>1. ProgramFails => pc = "programming" /\ (pc' = "program" => task.cmd = "flashmem" /\ todo' = call)
        BY DEF ProgramFails, Finish, Shape, Placed
      <4> QED
        BY <1>7, <3>1, <4>1
    <3>4. ~ReadChunk
      <4>1. SUFFICES ASSUME ReadChunk PROVE FALSE
        OBVIOUS
      <4>2. PICK got : ChunkRead(got)
        BY <4>1, ReadChunkIs
      <4>3. got # 0 /\ todo' = call' /\ call' \in Calls /\ Len(call'.words) = got
        BY <1>7, <4>2 DEF ChunkRead
      <4> QED
        BY <1>7, <4>3, EmptySeq
    <3>5. ~ProgramBuffer
      <4>1. ProgramBuffer => (pc' = "program" => todo'.words # << >>)
        BY DEF ProgramBuffer
      <4> QED
        BY <1>7, <4>1
    <3> QED
      BY <1>7, <3>2, <3>3, <3>4, <3>5 DEF Step, Unlock, Unlocked, Lock, Locked, Erase, PollAgain, ProgramWord,
         ClearStatus, ChunkProgrammed, ReadArray, Verify, StartBlock, NextBlock, Finish
  <2>2. AllIdle /\ chip' = chip
    BY <2>1, TrueSettles DEF Programmed, Waiting
  <2> QED
    BY <2>2 DEF AllIdle
<1>8. /\ AllIdle' <=> \A l \in Chips : Idle(chip'[l])
  BY <1>1 DEF AllIdle, Idle
<1>9. pc' = "verify" => task'.cmd = "flashmem"
  <2>1. CASE ReadArray \/ Verify
    BY <1>1, <2>1 DEF ReadArray, Verify, SameCommand, Shape, Placed
  <2>2. CASE ~ReadArray /\ ~Verify
    BY <2>2 DEF Step, Unlock, Unlocked, Lock, Locked, Erase, Erased, PollAgain, ProgramWord, ClearStatus,
         ProgramBuffer, Programmed, ProgramFails, ReadChunk, ChunkProgrammed, StartBlock, NextBlock, Finish
  <2> QED
    BY <2>1, <2>2
<1> QED
  BY <1>1, <1>2, <1>3, <1>4, <1>5, <1>6, <1>7, <1>8, <1>9 DEF Settled

(* Chips that are idle end nothing. *)
LEMMA NoneEnds == ASSUME AllIdle, NEW l \in Chips PROVE ~ChipEnds(l)
  BY DEF AllIdle, Idle, ChipEnds

LEMMA SettledChip == ASSUME Shape, Settled, NEW l \in Chips, ChipEnds(l) PROVE Settled'
<1>1. UNCHANGED <<driver, faults, task, pc, todo, multi, issued>> /\ Chips' = Chips
  BY DEF ChipEnds, constants, Chips
<1>2. chip \in [Chips -> ChipStates]
  BY DEF Shape, Typed
<1>3. /\ chip[l].busy \in BlockOps \cup ProgramOps /\ ~chip[l].stuck
      /\ \A k \in Chips : k # l => chip'[k] = chip[k]
      /\ ChipDone(l) \/ ChipRefused(l) \/ ChipFailed(l)
  BY <1>2, ChipEndsIs
<1>4. ~AllIdle
  BY NoneEnds
<1>5. chip[l].busy # None /\ chip[l].busy.op \in {"erase", "lock", "unlock", "program"} /\ None.op = "none"
  BY <1>3, OpsAreBusy, TouchedAre
<1>6. ASSUME NEW k \in Chips
      PROVE  /\ chip'[k].stuck => faults /\ driver \notin Intel /\ chip'[k].busy # None
             /\ driver \notin Intel => /\ chip'[k].sr = {} /\ chip'[k].busy.op # "lock"
                                       /\ ~faults => chip'[k].locked = {}
             /\ Telling /\ chip'[k].busy # None => chip'[k].busy = issued
  <2>1. /\ chip[k].stuck => faults /\ driver \notin Intel /\ chip[k].busy # None
        /\ driver \notin Intel => /\ chip[k].sr = {} /\ chip[k].busy.op # "lock"
                                  /\ ~faults => chip[k].locked = {}
        /\ Telling /\ chip[k].busy # None => chip[k].busy = issued
    BY DEF Settled
  <2>2. CASE k # l
    BY <1>3, <2>1, <2>2
  <2>3. CASE k = l /\ ChipDone(l)
    <3>1. ~chip'[l].stuck /\ chip'[l].busy = None /\ chip'[l].sr = chip[l].sr
      BY <2>3 DEF ChipDone
    <3>2. driver \notin Intel /\ ~faults => chip'[l].locked = {}
      BY <1>5, <2>1, <2>3 DEF ChipDone
    <3> QED
      BY <1>5, <2>1, <2>3, <3>1, <3>2
  <2>4. CASE k = l /\ ChipRefused(l)
    BY <1>5, <2>1, <2>4 DEF ChipRefused
  <2>5. CASE k = l /\ ChipFailed(l)
    BY <1>5, <2>1, <2>5 DEF ChipFailed
  <2> QED
    BY <1>3, <2>2, <2>3, <2>4, <2>5
<1>7. \/ ~Telling
      \/ pc \in Waiting
      \/ /\ pc \in {"program", "buffer"} /\ todo.words # << >> /\ multi /\ driver = "intel"
         /\ issued.op = "program"
  BY <1>4 DEF Settled
<1>8. /\ ~(task.cmd = "flashmem" /\ 0 < task.pos /\ (pc \in {"chunk", "verify"} \/ Succeeded))
      /\ ~(pc = "program" /\ todo.words = << >>)
  BY <1>4 DEF Settled
<1>9. pc = "verify" => task.cmd = "flashmem"
  BY DEF Shape, Placed
<1>10. (pc = "unlocking" => driver \in Intel) /\ (pc = "locking" => driver = "intel" /\ issued.op = "lock")
  BY DEF Settled
<1>11. Telling' <=> Telling
  BY <1>1 DEF Telling
<1>12. Succeeded' <=> Succeeded
  BY <1>1 DEF Succeeded
<1> QED
  BY <1>1, <1>6, <1>7, <1>8, <1>9, <1>10, <1>11, <1>12 DEF Settled

LEMMA CommandIs ==
    ASSUME Shape, Command
    PROVE  \E t \in Tasks : /\ BeginsAs(t, "chunk") \/ BeginsAs(t, "block")
                            /\ t.cmd = "flashmem" => t.pos = 0 /\ BeginsAs(t, "chunk")
                            /\ t.cmd # "flashmem" => BeginsAs(t, "block")
                            /\ t.number = t.count \/ t.cmd = "flashmem"
                            /\ t.status = "ok" /\ t.result = "none"
<1>1. ASSUME NEW a \in Starts, NEW f \in Files, NEW v \in BOOLEAN, Flashmem(a, f, v)
      PROVE  \E t \in Tasks : /\ BeginsAs(t, "chunk") /\ t.cmd = "flashmem" /\ t.pos = 0
                              /\ t.status = "ok" /\ t.result = "none"
  BY <1>1, FlashmemIs
<1>2. ASSUME NEW cmd \in BlockCommands, NEW a \in Starts, NEW n \in Counts, ForBlocks(cmd, a, n)
      PROVE  \E t \in Tasks : /\ BeginsAs(t, "block") /\ t.cmd = cmd /\ t.number = t.count
                              /\ t.status = "ok" /\ t.result = "none"
  BY <1>2, ForBlocksIs
<1>3. \/ \E a \in Starts, f \in Files, v \in BOOLEAN : Flashmem(a, f, v)
      \/ \E cmd \in BlockCommands, a \in Starts, n \in Counts : ForBlocks(cmd, a, n)
  BY DEF Command, BlockCommands
<1> QED
  BY <1>1, <1>2, <1>3 DEF BlockCommands

LEMMA SettledCommand == ASSUME Shape, Settled, Command PROVE Settled'
<1>1. PICK t \in Tasks : /\ BeginsAs(t, "chunk") \/ BeginsAs(t, "block")
                         /\ t.cmd = "flashmem" => t.pos = 0
                         /\ t.result = "none"
  BY CommandIs
<1>2. /\ pc = "idle" /\ task' = t /\ pc' \in {"chunk", "block"} /\ issued' = NoOp
      /\ UNCHANGED <<driver, faults>> /\ Chips' = Chips
      /\ \A l \in Chips : /\ chip'[l].locked = chip[l].locked /\ ~chip'[l].stuck
                          /\ chip'[l].sr \in {{}, chip[l].sr}
                          /\ chip'[l].busy = (IF chip[l].stuck THEN None ELSE chip[l].busy)
  BY <1>1, BeginIs DEF BeginsAs, Shape, Typed
<1>3. Telling' <=> Telling
  BY <1>2 DEF Telling
<1>4. Telling => AllIdle
  BY <1>2 DEF Settled, Waiting
<1>5. AllIdle => AllIdle' /\ \A l \in Chips : chip'[l].busy = None
  BY <1>2 DEF AllIdle, Idle
<1>7. \A l \in Chips : driver \notin Intel => /\ chip'[l].sr = {} /\ chip'[l].busy.op # "lock"
                                              /\ ~faults => chip'[l].locked = {}
  BY <1>2, OpsAreBusy DEF Settled
<1>6. ~Succeeded' /\ ~(task'.cmd = "flashmem" /\ 0 < task'.pos)
  BY <1>1, <1>2 DEF Succeeded
<1> QED
  BY <1>2, <1>3, <1>4, <1>5, <1>6, <1>7 DEF Settled

LEMMA ChipsAtFirst ==
    ASSUME Init
    PROVE  /\ \A l \in Chips : /\ chip[l].cells = [a \in Addr |-> content] /\ chip[l].busy = None
                               /\ ~chip[l].stuck /\ chip[l].sr = {} /\ chip[l].mode = "array"
                               /\ ~chip[l].bypass
                               /\ driver \notin Intel /\ ~faults => chip[l].locked = {}
           /\ AllIdle
<1>1. PICK locked \in {{}, {0}} :
        /\ driver \notin Intel /\ ~faults => locked = {}
        /\ chip = [l \in Chips |-> [cells |-> [a \in Addr |-> content], locked |-> locked, busy |-> None,
                                    stuck |-> FALSE, bypass |-> FALSE, sr |-> {}, mode |-> "array"]]
  BY DEF Init
<1> QED
  BY <1>1 DEF AllIdle, Idle

(* Chips that tell refusals or cannot fail are at work only while they are   *)
(* waited for, at what was issued last.                                      *)
THEOREM FlashSettles == Spec => []Settled
<1>1. Init => Settled
  <2> SUFFICES ASSUME Init PROVE Settled
    OBVIOUS
  <2>1. /\ \A l \in Chips : /\ chip[l].busy = None /\ ~chip[l].stuck /\ chip[l].sr = {} /\ chip[l].mode = "array"
                            /\ driver \notin Intel /\ ~faults => chip[l].locked = {}
        /\ AllIdle
    BY ChipsAtFirst
  <2>2. pc = "idle"
    BY DEF Init
  <2> QED
    BY <2>1, <2>2, OpsAreBusy DEF Settled
<1>2. ASSUME Shape, Settled, [Next]_vars PROVE Settled'
  <2>1. CASE UNCHANGED vars
    <3>1. UNCHANGED <<driver, faults, task, pc, todo, multi, issued, chip>> /\ Chips' = Chips
      BY <2>1 DEF vars, constants, Chips
    <3>2. (Telling' <=> Telling) /\ (AllIdle' <=> AllIdle) /\ (Succeeded' <=> Succeeded)
      BY <3>1 DEF Telling, AllIdle, Succeeded
    <3> QED
      BY <1>2, <3>1, <3>2 DEF Settled
  <2> QED
    BY <1>2, <2>1, SettledStep, SettledChip, SettledCommand DEF Next
<1> QED
  BY <1>1, <1>2, FlashShape, PTL DEF Spec

-----------------------------------------------------------------------------
(* The mode of the chips. *)

LEMMA AgreedKept ==
    ASSUME Agreed, UNCHANGED <<driver, faults, algorithm, bypassing>>, Chips' = Chips,
           \A l \in Chips : chip'[l].bypass = chip[l].bypass
    PROVE  Agreed'
<1>1. Short' <=> Short
  BY DEF Short
<1> QED
  BY <1>1 DEF Agreed

(* An operation is issued where chips that cannot fail are idle. *)
LEMMA AgreedIssue ==
    ASSUME Shape, Settled, Agreed, NEW o \in BlockOps \cup ProgramOps, Issue(o),
           UNCHANGED <<driver, faults, algorithm>>, Chips' = Chips,
           ~faults => AllIdle, driver \notin Intel => o.op \in {"erase", "program"}
    PROVE  Agreed'
<1>1. chip \in [Chips -> ChipStates]
  BY DEF Shape, Typed
<1>2. (Short' <=> Short) /\ bypassing' = (Short /\ o.op = "program")
  BY DEF Short, Issue
<1>3. ~Short => \A l \in Chips : ~chip'[l].bypass
  BY <1>1, IssueIs DEF Agreed
<1>4. ASSUME ~faults PROVE \A l \in Chips : chip'[l].bypass = bypassing'
  <2>1. Telling /\ AllIdle /\ (driver \notin Intel => \A l \in Chips : chip[l].sr = {})
    BY <1>4 DEF Telling, Settled
  <2> QED
    BY <1>1, <2>1, IssueTaken
<1>5. bypassing' \in BOOLEAN
  BY <1>2
<1>6. ~Short => ~bypassing'
  BY <1>2
<1> QED
  BY <1>2, <1>3, <1>4, <1>5, <1>6 DEF Agreed

(* The chips are brought back to their array. *)
LEMMA AgreedArray ==
    ASSUME chip \in [Chips -> ChipStates], Agreed, chip' = InArray, bypassing' = FALSE,
           UNCHANGED <<driver, faults, algorithm>>, Chips' = Chips, ~faults => AllIdle
    PROVE  Agreed'
<1>1. Short' <=> Short
  BY DEF Short
<1>2. \A l \in Chips : chip'[l].bypass = IF bypassing /\ Idle(chip[l]) THEN FALSE ELSE chip[l].bypass
  BY InArrayIs
<1>3. ~Short => \A l \in Chips : ~chip'[l].bypass
  BY <1>2 DEF Agreed
<1>4. ~faults => \A l \in Chips : ~chip'[l].bypass /\ chip'[l].bypass \in BOOLEAN
  <2>1. \A l \in Chips : chip'[l].bypass \in BOOLEAN
    BY InArrayIs DEF ChipStates
  <2> QED
    BY <1>2, <2>1 DEF Agreed, AllIdle
<1> QED
  BY <1>1, <1>3, <1>4 DEF Agreed

LEMMA AgreedStep == ASSUME Shape, Settled, Agreed, Step PROVE Agreed'
<1>1. chip \in [Chips -> ChipStates] /\ Chips' = Chips /\ UNCHANGED <<driver, faults, algorithm>>
  BY StepKeeps DEF Shape, Typed
<1>2. ~faults => Telling
  BY DEF Telling
<1>3. CASE /\ UNCHANGED bypassing
           /\ \/ UNCHANGED chip
              \/ chip' = Cleared
              \/ chip' = [chip EXCEPT ![1].mode = "identifier"]
              \/ \E o \in BlockOps \cup ProgramOps : chip' = Issued(chip, o)
  <2>1. \A l \in Chips : chip'[l].bypass = chip[l].bypass
    BY <1>1, <1>3, ClearedIs, IdentifyingIs, IssuedIs
  <2> QED
    BY <1>1, <1>3, <2>1, AgreedKept
<1>4. CASE \/ Unlocked \/ Locked \/ PollAgain \/ Programmed \/ ProgramFails \/ ClearStatus
           \/ ReadChunk \/ ChunkProgrammed \/ Verify \/ StartBlock
  BY <1>3, <1>4 DEF Unlocked, Locked, PollAgain, Programmed, ProgramFails, ClearStatus, ReadChunk, ChunkProgrammed,
     Verify, StartBlock
<1>5. CASE ProgramBuffer
  <2>1. PICK o, n : /\ Gives(o, n, TRUE, todo')
                    /\ chip' = IF driver \in Intel \/ buffered THEN Issued(chip, o) ELSE chip
    BY <1>5, ProgramBufferIs
  <2>2. o \in ProgramOps /\ bypassing' = bypassing
    BY <1>5, <2>1 DEF Gives, ProgramBuffer
  <2> QED
    BY <1>3, <2>1, <2>2
<1>6. CASE Erased
  <2>1. ~faults => AllIdle
    BY <1>2, <1>6, StatusSettles DEF Erased, Waiting
  <2>2. bypassing' = FALSE /\ (chip' = chip \/ chip' = InArray)
    BY <1>6 DEF Erased
  <2>3. CASE driver \in Intel
    <3>1. chip' = chip /\ ~Short
      BY <1>6, <2>3 DEF Erased, Short, Intel
    <3> QED
      BY <1>1, <2>2, <3>1, AgreedKept DEF Agreed
  <2>4. CASE driver \notin Intel
    <3>1. chip' = InArray
      BY <1>6, <2>4 DEF Erased
    <3> QED
      BY <1>1, <2>1, <2>2, <3>1, AgreedArray
  <2> QED
    BY <2>3, <2>4
<1>7. CASE ReadArray
  <2>1. ~faults => AllIdle
    BY <1>2, <1>7 DEF ReadArray, Settled, Waiting
  <2>2. chip' = InArray /\ bypassing' = FALSE
    BY <1>7 DEF ReadArray
  <2> QED
    BY <1>1, <2>1, <2>2, AgreedArray
<1>8. CASE Unlock \/ Lock \/ Erase
  <2>1. task.next \in Addr
    BY <1>8, NextIsThere DEF Unlock, Lock, Erase
  <2>2. ~faults => AllIdle
    BY <1>2, <1>8 DEF Unlock, Lock, Erase, Settled, Waiting
  <2> DEFINE u == BlockOp("unlock", task.next)
             k == BlockOp("lock", task.next)
             e == BlockOp("erase", task.next)
  <2>3. u \in BlockOps /\ k \in BlockOps /\ e \in BlockOps /\ e.op = "erase"
    BY <2>1, BlockOpIs DEF BlockCommands
  <2>4. \/ chip' = chip /\ bypassing' = bypassing
        \/ Issue(u) /\ driver \in Intel
        \/ Issue(k) /\ driver \in Intel
        \/ Issue(e)
    BY <1>8 DEF Unlock, Lock, Erase, Intel
  <2> HIDE DEF u, k, e
  <2> QED
    BY <1>1, <1>3, <2>2, <2>3, <2>4, AgreedIssue
<1>9. CASE ProgramWord
  <2>1. PICK o : Gives(o, 1, FALSE, todo') /\ Issue(o) /\ pc = "program"
    BY <1>9, ProgramWordIs
  <2>2. o \in ProgramOps /\ o.op = "program"
    BY <2>1, OpsAreBusy DEF Gives
  <2>3. ~faults => AllIdle
    BY <1>2, <1>9, <2>1 DEF ProgramWord, UsesBuffer, Settled, Waiting
  <2> QED
    BY <1>1, <2>1, <2>2, <2>3, AgreedIssue
<1> QED
  BY <1>4, <1>5, <1>6, <1>7, <1>8, <1>9 DEF Step

(* The chips are in the mode the driver takes them for. *)
THEOREM FlashAgrees == Spec => []Agreed
<1>1. Init => Agreed
  <2> SUFFICES ASSUME Init PROVE Agreed
    OBVIOUS
  <2>1. \A l \in Chips : ~chip[l].bypass /\ chip[l].bypass \in BOOLEAN
    BY ChipsAtFirst, ShapeInit DEF Shape, Typed, ChipStates
  <2> QED
    BY <2>1 DEF Init, Agreed
<1>2. ASSUME Shape, Settled, Agreed, [Next]_vars PROVE Agreed'
  <2>1. chip \in [Chips -> ChipStates]
    BY <1>2 DEF Shape, Typed
  <2>2. CASE UNCHANGED vars
    BY <1>2, <2>2, AgreedKept DEF vars, constants, Chips
  <2>3. CASE Command
    <3>1. PICK t, at : BeginsAs(t, at)
      BY <1>2, <2>3, CommandIs
    <3> QED
      BY <1>2, <2>1, <3>1, BeginIs, AgreedKept DEF BeginsAs
  <2>4. ASSUME NEW l \in Chips, ChipEnds(l) PROVE Agreed'
    <3>1. UNCHANGED <<driver, faults, algorithm, bypassing>> /\ Chips' = Chips
      BY <2>4 DEF ChipEnds, constants, Chips
    <3>2. \A k \in Chips : chip'[k].bypass = chip[k].bypass
      BY <2>1, <2>4, ChipEndsIs
    <3> QED
      BY <1>2, <3>1, <3>2, AgreedKept
  <2> QED
    BY <1>2, <2>2, <2>3, <2>4, AgreedStep DEF Next
<1> QED
  BY <1>1, <1>2, FlashShape, FlashSettles, PTL DEF Spec

-----------------------------------------------------------------------------
(* What eraseflash counted is erased. *)

(* An operation of chips that tell is done, or told. *)
LEMMA EndsTold ==
    ASSUME Shape, Settled, Telling, NEW l \in Chips, ChipEnds(l)
    PROVE  /\ chip[l].busy = issued /\ issued \in BlockOps \cup ProgramOps
           /\ chip' \in [Chips -> ChipStates]
           /\ \A k \in Chips : k # l => chip'[k] = chip[k]
           /\ ChipDone(l) \/ (driver \in Intel /\ (ChipRefused(l) \/ ChipFailed(l)))
                 \/ (~faults /\ driver \notin Intel /\ ChipRefused(l) /\ chip[l].locked = {})
<1>1. chip \in [Chips -> ChipStates]
  BY DEF Shape, Typed
<1>2. /\ chip[l].busy \in BlockOps \cup ProgramOps /\ ~chip[l].stuck
      /\ chip' \in [Chips -> ChipStates]
      /\ \A k \in Chips : k # l => chip'[k] = chip[k]
      /\ ChipDone(l) \/ ChipRefused(l) \/ ChipFailed(l)
  BY <1>1, ChipEndsIs
<1>3. chip[l].busy = issued
  BY <1>2, OpsAreBusy DEF Settled
<1>4. ChipFailed(l) => faults
  BY DEF ChipFailed
<1>5. driver \notin Intel => ~faults /\ chip[l].locked = {}
  BY DEF Telling, Settled
<1> QED
  BY <1>2, <1>3, <1>4, <1>5

(* Where nothing is locked nothing is refused. *)
LEMMA NothingProtected == ASSUME NEW c, c.locked = {}, NEW op PROVE ~Protected(c, op)
  BY DEF Protected

LEMMA CountedStep == ASSUME Shape, Settled, Agreed, CountedErased, Step PROVE CountedErased'
<1> SUFFICES ASSUME task'.cmd = "erase", Telling'
             PROVE  /\ (pc' # "idle" \/ task'.result = "ok") /\ task'.status = "ok" =>
                          \A l \in Chips', a \in Addr :
                              Block(task'.at) <= Block(a) /\ Block(a) < Block(task'.at) + (task'.count - task'.number)
                                  => chip'[l].cells[a] = Bits
                    /\ pc' = "erasing" =>
                          \A l \in Chips' : \/ chip'[l].busy # None \/ chip'[l].sr # {}
                                            \/ \A a \in Addr : Block(a) = issued'.block => chip'[l].cells[a] = Bits
                    /\ Succeeded' => task'.number = 0 /\ task'.status = "ok"
  BY DEF CountedErased
<1>1. /\ Chips' = Chips /\ SameCommand /\ \A l \in Chips : ChipWaits(l)
      /\ UNCHANGED <<driver, faults, buffered, content, named, given>>
  BY StepKeeps
<1>2. chip \in [Chips -> ChipStates] /\ task \in Tasks /\ Telling /\ task.cmd = "erase"
  BY <1>1 DEF Shape, Typed, Telling, SameCommand
<1>3. \A l \in Chips : chip'[l].cells = chip[l].cells
  BY <1>1 DEF ChipWaits
<1>4. task'.at = task.at /\ task'.count = task.count
  BY <1>1 DEF SameCommand
<1>5. /\ (pc # "idle" \/ task.result = "ok") /\ task.status = "ok" =>
            \A l \in Chips, a \in Addr :
                Block(task.at) <= Block(a) /\ Block(a) < Block(task.at) + (task.count - task.number)
                    => chip[l].cells[a] = Bits
      /\ pc = "erasing" =>
            \A l \in Chips : \/ chip[l].busy # None \/ chip[l].sr # {}
                             \/ \A a \in Addr : Block(a) = issued.block => chip[l].cells[a] = Bits
  BY <1>2 DEF CountedErased
<1>6. CASE Unlock \/ Unlocked
  <2>1. task' = task /\ pc' \in {"unlocking", "erase"} /\ pc # "idle"
    BY <1>2, <1>6 DEF Unlock, Unlocked
  <2> QED
    BY <1>1, <1>3, <1>5, <2>1 DEF Succeeded
<1>7. CASE Erase
  <2>1. task' = task /\ pc' = "erasing" /\ pc = "erase" /\ Issue(BlockOp("erase", task.next))
    BY <1>7 DEF Erase
  <2>2. AllIdle /\ task.next \in Addr
    BY <1>2, <2>1, NextIsThere DEF Settled, Waiting
  <2> DEFINE o == BlockOp("erase", task.next)
  <2>3. o \in BlockOps /\ o.op = "erase"
    BY <2>2, BlockOpIs DEF BlockCommands
  <2>6. Issue(o) /\ (driver \notin Intel => \A l \in Chips : chip[l].sr = {})
    BY <2>1 DEF Settled
  <2> HIDE DEF o
  <2>4. \A l \in Chips : chip'[l].busy = o
    BY <1>2, <2>2, <2>3, <2>6, IssueTaken
  <2>5. o # None
    BY <2>3, OpsAreBusy
  <2> QED
    BY <1>1, <1>3, <1>5, <2>1, <2>4, <2>5 DEF Succeeded
<1>8. CASE Erased
  <2>1. PICK ok \in BOOLEAN : Status(ok) /\ NextBlock(ok)
    BY <1>2, <1>8 DEF Erased
  <2>2. pc = "erasing" /\ pc' = "block"
    BY <1>8, <2>1 DEF Erased, NextBlock
  <2>3. /\ task.next \in Addr /\ 1 <= task.number /\ issued.block = Block(task.next)
        /\ Block(task.next) = Block(task.at) + (task.count - task.number)
    BY <1>2, <2>2, NextIsThere DEF Shape, BlocksCounted, OperationIssued, BlockCommands
  <2>4. task'.number = task.number - 1 /\ task'.status = IF ok THEN task.status ELSE "fail"
    BY <1>2, <2>1, <2>3, NextBlockIs
  <2>5. ASSUME task'.status = "ok", NEW l \in Chips, NEW a \in Addr,
               Block(task.at) <= Block(a), Block(a) < Block(task.at) + (task.count - task'.number)
        PROVE  chip[l].cells[a] = Bits
    <3>1. ok /\ task.status = "ok"
      BY <2>4, <2>5
    <3>2. AllIdle
      BY <2>1, <2>2, <3>1, StatusSettles DEF Waiting
    <3>3. chip[l].sr = {}
      <4>1. CASE driver \in Intel
        <5>1. IntelStatus(ok)
          BY <2>1, <4>1, StatusIs
        <5> QED
          BY <3>1, <5>1 DEF IntelStatus
      <4>2. CASE driver \notin Intel
        BY <4>2 DEF Settled
      <4> QED
        BY <4>1, <4>2
    <3>4. \A x \in Addr : Block(x) = issued.block => chip[l].cells[x] = Bits
      BY <1>5, <2>2, <3>2, <3>3 DEF AllIdle, Idle
    <3>5. Block(a) \in Nat /\ Block(task.at) \in Int /\ task.number \in Nat /\ task.count \in Nat
      BY <1>2, BlockRest, NoBlockThere DEF Tasks
    <3>6. Block(a) = issued.block \/ Block(a) < Block(task.at) + (task.count - task.number)
      BY <2>3, <2>4, <2>5, <3>5
    <3> QED
      BY <1>5, <2>2, <2>5, <3>1, <3>4, <3>6
  <2> QED
    BY <1>1, <1>3, <1>4, <2>2, <2>5 DEF Succeeded
<1>9. CASE PollAgain
  <2>1. task' = task /\ pc' = pc /\ pc # "idle" /\ chip' = chip /\ issued' = issued
    BY <1>9 DEF PollAgain
  <2> QED
    BY <1>1, <1>5, <2>1 DEF Succeeded
<1>10. CASE StartBlock
  <2>1. CASE Finish("fail")
    <3>1. pc' = "idle" /\ task'.result = "fail"
      BY <1>2, <2>1, FinishIs
    <3> QED
      BY <3>1 DEF Succeeded
  <2>2. CASE Finish(task.status) /\ task.number = 0
    <3>1. task.status \in {"ok", "fail"}
      BY <1>2 DEF Tasks
    <3>2. /\ pc' = "idle" /\ task'.result = task.status /\ task'.number = task.number
          /\ task'.status = task.status
      BY <1>2, <2>2, <3>1, FinishIs
    <3>3. pc # "idle"
      BY <1>10 DEF StartBlock
    <3> QED
      BY <1>1, <1>3, <1>4, <1>5, <2>2, <3>2, <3>3 DEF Succeeded
  <2>3. CASE task' = task /\ pc' = IF task.cmd = "lock" THEN "lock" ELSE "unlock"
    <3>1. pc # "idle"
      BY <1>10 DEF StartBlock
    <3> QED
      BY <1>1, <1>3, <1>5, <2>3, <3>1 DEF Succeeded
  <2> QED
    BY <1>10, <2>1, <2>2, <2>3 DEF StartBlock
<1>11. Unlock \/ Unlocked \/ Erase \/ Erased \/ PollAgain \/ StartBlock
  BY <1>2 DEF Shape, Placed, Step, Lock, Locked, ProgramWord, ClearStatus, ProgramBuffer, Programmed, ProgramFails,
              ReadChunk, ChunkProgrammed, ReadArray, Verify
<1> QED
  BY <1>6, <1>7, <1>8, <1>9, <1>10, <1>11

LEMMA CountedChip == ASSUME Shape, Settled, CountedErased, NEW l \in Chips, ChipEnds(l) PROVE CountedErased'
<1>1. UNCHANGED <<driver, faults, task, pc, issued>> /\ Chips' = Chips
  BY DEF ChipEnds, constants, Chips
<1>2. (Telling' <=> Telling) /\ (Succeeded' <=> Succeeded)
  BY <1>1 DEF Telling, Succeeded
<1>3. ASSUME Telling, task.cmd = "erase"
      PROVE  /\ \A k \in Chips, a \in Addr : chip[k].cells[a] = Bits => chip'[k].cells[a] = Bits
             /\ \A k \in Chips : k # l => chip'[k] = chip[k]
             /\ issued.op = "erase" =>
                   chip'[l].sr # {} \/ \A a \in Addr : Block(a) = issued.block => chip'[l].cells[a] = Bits
  <2>1. /\ chip[l].busy = issued /\ issued \in BlockOps \cup ProgramOps
        /\ \A k \in Chips : k # l => chip'[k] = chip[k]
        /\ ChipDone(l) \/ (driver \in Intel /\ (ChipRefused(l) \/ ChipFailed(l)))
              \/ (~faults /\ driver \notin Intel /\ ChipRefused(l) /\ chip[l].locked = {})
    BY <1>3, EndsTold
  <2>2. issued.op # "program"
    BY <1>3 DEF Shape, OperationIssued
  <2>3. CASE ChipDone(l)
    <3>1. \A a \in Addr : chip'[l].cells[a] = IF a \notin Touched(issued) THEN chip[l].cells[a] ELSE Bits
      <4>1. issued.op # "erase" => Touched(issued) = {}
        BY <2>1, <2>2, TouchedAre
      <4> QED
        BY <2>1, <2>3, <4>1 DEF ChipDone
    <3>2. issued.op = "erase" => Touched(issued) = {a \in Addr : Block(a) = issued.block}
      BY <2>1, TouchedAre
    <3> QED
      BY <2>1, <3>1, <3>2
  <2>4. CASE driver \in Intel /\ (ChipRefused(l) \/ ChipFailed(l))
    BY <2>1, <2>4 DEF ChipRefused, ChipFailed
  <2>5. CASE ChipRefused(l) /\ chip[l].locked = {}
    BY <2>5, NothingProtected DEF ChipRefused
  <2> QED
    BY <2>1, <2>3, <2>4, <2>5
<1>4. pc = "erasing" => issued.op = "erase"
  BY DEF Shape, OperationIssued
<1> QED
  BY <1>1, <1>2, <1>3, <1>4 DEF CountedErased

(* The blocks eraseflash has counted as erased are. *)
THEOREM FlashCounts == Spec => []CountedErased
<1>1. Init => CountedErased
  BY DEF Init, NoTask, CountedErased
<1>2. ASSUME Shape, Settled, Agreed, CountedErased, [Next]_vars PROVE CountedErased'
  <2>1. CASE UNCHANGED vars
    <3>1. UNCHANGED <<driver, faults, task, pc, issued, chip>> /\ Chips' = Chips
      BY <2>1 DEF vars, constants, Chips
    <3>2. (Telling' <=> Telling) /\ (Succeeded' <=> Succeeded)
      BY <3>1 DEF Telling, Succeeded
    <3> QED
      BY <1>2, <3>1, <3>2 DEF CountedErased
  <2>2. CASE Command
    <3>1. PICK t \in Tasks : /\ BeginsAs(t, "chunk") \/ BeginsAs(t, "block")
                             /\ t.number = t.count \/ t.cmd = "flashmem"
                             /\ t.status = "ok" /\ t.result = "none"
      BY <1>2, <2>2, CommandIs
    <3>2. task' = t /\ pc' \in {"chunk", "block"} /\ ~Succeeded'
      BY <3>1 DEF BeginsAs, Succeeded
    <3>3. t.cmd = "erase" => t.count - t.number = 0
      BY <3>1 DEF Tasks
    <3>4. \A a \in Addr : Block(a) \in Nat /\ Block(t.at) \in Int
      BY BlockRest, NoBlockThere
    <3>5. ASSUME t.cmd = "erase", NEW a \in Addr, Block(t.at) <= Block(a), Block(a) < Block(t.at) + (t.count - t.number)
          PROVE  FALSE
      BY <3>3, <3>4, <3>5
    <3> QED
      BY <3>2, <3>5 DEF CountedErased
  <2> QED
    BY <1>2, <2>1, <2>2, CountedStep, CountedChip DEF Next
<1> QED
  BY <1>1, <1>2, FlashShape, FlashSettles, FlashAgrees, PTL DEF Spec

-----------------------------------------------------------------------------
(* What was verified is so. *)

(* A file of no words is verified at once; to verify one of some the chips   *)
(* show their array.                                                         *)
LEMMA MatchesAre ==
    ASSUME Shape, Settled, pc = "verify", task.next # task.at + Len(task.file)
    PROVE  /\ AllIdle /\ Matches(task.next) = {\A l \in Chips : chip[l].cells[task.next] = task.file[task.next - task.at + 1]}
           /\ task.at <= task.next /\ task.next < task.at + Len(task.file) /\ task.next \in Addr
           /\ task.pos = Len(task.file)
<1> DEFINE len == Len(task.file)
<1>1. /\ task.cmd = "flashmem" /\ task \in Tasks /\ task.pos = len /\ len \in Nat /\ task.at \in Nat
      /\ task.next \in Nat /\ task.at <= task.next /\ task.next <= task.at + len /\ task.at + len <= Size
  BY LenProperties DEF Shape, Placed, Typed, FilePlaced, Tasks
<1>2. task.next # task.at + len
  OBVIOUS
<1> HIDE DEF len
<1>3. task.next < task.at + len /\ 0 < len /\ task.next \in Addr
  BY <1>1, <1>2, SizeIsNat DEF Addr
<1>4. AllIdle /\ \A l \in Chips : chip[l].mode = "array"
  BY <1>1, <1>3 DEF Settled
<1>5. \A l \in Chips : chip[l].mode = "array" /\ Idle(chip[l])
  BY <1>4 DEF AllIdle
<1> QED
  BY <1>1, <1>3, <1>4, <1>5 DEF Matches, len

LEMMA VerifiedStep == ASSUME Shape, Settled, Verified, Step PROVE Verified'
<1>1. /\ Chips' = Chips /\ SameCommand /\ \A l \in Chips : ChipWaits(l)
  BY StepKeeps
<1>2. task \in Tasks
  BY DEF Shape, Typed
<1>3. \A l \in Chips : chip'[l].cells = chip[l].cells
  BY <1>1 DEF ChipWaits
<1>4. task'.at = task.at /\ task'.file = task.file /\ task'.cmd = task.cmd /\ task'.verify = task.verify
  BY <1>1 DEF SameCommand
<1>5. ASSUME task.cmd = "flashmem", pc' = "verify" \/ (Succeeded' /\ task.verify)
      PROVE  ReadArray \/ Verify
  <2>1. ~StartBlock
    BY <1>5 DEF StartBlock, Shape, Placed, BlockCommands
  <2>2. ~ProgramFails
    <3>1. ProgramFails => pc' = "program" \/ (pc' = "idle" /\ task'.result = "fail")
      BY <1>2, FinishIs DEF ProgramFails
    <3> QED
      BY <1>5, <3>1 DEF Succeeded
  <2>3. ~ReadChunk
    <3>1. ReadChunk => pc' \in {"chunk", "program", "unlock"}
      BY DEF ReadChunk
    <3> QED
      BY <1>5, <3>1 DEF Succeeded
  <2>4. ~PollAgain
    BY <1>5 DEF PollAgain, Succeeded
  <2>5. ~(Unlock \/ Unlocked \/ Lock \/ Locked \/ Erase \/ Erased \/ ProgramWord \/ ClearStatus \/ ProgramBuffer
             \/ Programmed \/ ChunkProgrammed)
    BY <1>5 DEF Unlock, Unlocked, Lock, Locked, Erase, Erased, ProgramWord, ClearStatus, ProgramBuffer, Programmed,
       ChunkProgrammed, NextBlock, Succeeded
  <2> QED
    BY <2>1, <2>2, <2>3, <2>4, <2>5 DEF Step
<1>6. ASSUME task.cmd = "flashmem", pc' = "verify" \/ (Succeeded' /\ task.verify),
             NEW l \in Chips, NEW x \in Addr, task.at <= x,
             x < (IF pc' = "verify" THEN task'.next ELSE task.at + Len(task.file))
      PROVE  chip[l].cells[x] = task.file[x - task.at + 1]
  <2>1. CASE ReadArray
    <3>1. task.verify /\ pc' = "verify" /\ task'.next = task.at
      BY <1>2, <1>6, <2>1 DEF ReadArray, Finish, Tasks, Succeeded
    <3>2. task.at \in Nat /\ x \in Int
      BY <1>2 DEF Tasks, Addr
    <3> QED
      BY <1>6, <3>1, <3>2
  <2>2. CASE Verify
    <3>1. pc = "verify" /\ task.pos = Len(task.file)
      BY <2>2, VerifyIs
    <3>2. \A y \in Addr : task.at <= y /\ y < task.next => chip[l].cells[y] = task.file[y - task.at + 1]
      BY <1>6, <3>1 DEF Verified
    <3>3. CASE Finish("ok") /\ task.next = task.at + Len(task.file)
      <4>1. pc' = "idle"
        BY <1>2, <3>3, FinishIs
      <4> QED
        BY <1>6, <3>2, <3>3, <4>1
    <3>4. CASE Finish("fail")
      <4>1. pc' = "idle" /\ task'.result = "fail"
        BY <1>2, <3>4, FinishIs
      <4> QED
        BY <1>6, <4>1 DEF Succeeded
    <3>5. CASE /\ pc' = pc /\ task.next # task.at + Len(task.file) /\ TRUE \in Matches(task.next)
               /\ task'.next = task.next + 1
      <4>1. Matches(task.next) = {\A k \in Chips : chip[k].cells[task.next] = task.file[task.next - task.at + 1]}
        BY <3>1, <3>5, MatchesAre
      <4>2. chip[l].cells[task.next] = task.file[task.next - task.at + 1]
        BY <3>5, <4>1
      <4>3. task.next \in Nat /\ x \in Int
        BY <1>2 DEF Tasks, Addr
      <4>4. x < task.next + 1
        BY <1>6, <3>1, <3>5
      <4>5. x < task.next \/ x = task.next
        BY <4>3, <4>4
      <4> QED
        BY <1>6, <3>2, <4>2, <4>5
    <3> QED
      BY <2>2, <3>3, <3>4, <3>5, VerifyIs
  <2> QED
    BY <1>5, <1>6, <2>1, <2>2
<1> QED
  BY <1>1, <1>3, <1>4, <1>6 DEF Verified

LEMMA VerifiedChip == ASSUME Shape, Settled, Verified, NEW l \in Chips, ChipEnds(l) PROVE Verified'
<1>1. UNCHANGED <<driver, faults, task, pc>> /\ Chips' = Chips
  BY DEF ChipEnds, constants, Chips
<1>2. ~AllIdle
  BY NoneEnds
<1>3. ASSUME task.cmd = "flashmem", pc = "verify" \/ (Succeeded /\ task.verify), NEW x \in Addr, task.at <= x,
             x < (IF pc = "verify" THEN task.next ELSE task.at + Len(task.file))
      PROVE  FALSE
  <2> DEFINE len == Len(task.file)
  <2>1. /\ task \in Tasks /\ task.pos = len /\ len \in Nat /\ task.at \in Nat /\ task.next \in Nat
        /\ pc = "verify" => task.next <= task.at + len
    BY <1>3, LenProperties DEF Shape, Placed, Typed, FilePlaced, Tasks, Succeeded
  <2>2. ~(0 < task.pos)
    BY <1>2, <1>3 DEF Settled
  <2> HIDE DEF len
  <2>3. x < task.at + len
    BY <1>3, <2>1 DEF Addr, len
  <2> QED
    BY <1>3, <2>1, <2>2, <2>3 DEF Addr
<1>4. Succeeded' <=> Succeeded
  BY <1>1 DEF Succeeded
<1> QED
  BY <1>1, <1>3, <1>4 DEF Verified

(* The words flashmem has verified are those of the file. *)
THEOREM FlashVerifies == Spec => []Verified
<1>1. Init => Verified
  BY DEF Init, NoTask, Verified
<1>2. ASSUME Shape, Settled, Verified, [Next]_vars PROVE Verified'
  <2>1. CASE UNCHANGED vars
    <3>1. UNCHANGED <<driver, task, pc, chip>> /\ Chips' = Chips
      BY <2>1 DEF vars, constants, Chips
    <3>2. Succeeded' <=> Succeeded
      BY <3>1 DEF Succeeded
    <3> QED
      BY <1>2, <3>1, <3>2 DEF Verified
  <2>2. CASE Command
    <3>1. PICK t \in Tasks : /\ BeginsAs(t, "chunk") \/ BeginsAs(t, "block")
                             /\ t.result = "none"
      BY <1>2, <2>2, CommandIs
    <3>2. task' = t /\ pc' \in {"chunk", "block"} /\ ~Succeeded'
      BY <3>1 DEF BeginsAs, Succeeded
    <3> QED
      BY <3>2 DEF Verified
  <2> QED
    BY <1>2, <2>1, <2>2, VerifiedStep, VerifiedChip DEF Next
<1> QED
  BY <1>1, <1>2, FlashShape, FlashSettles, PTL DEF Spec

-----------------------------------------------------------------------------
(* Chips that do not fail. *)

LEMMA StatusTells ==
    ASSUME Shape, Settled, ~faults, NeverRefused, FileWritten, pc \in Waiting, NEW ok \in BOOLEAN, Status(ok)
    PROVE  ok
<1> SUFFICES ASSUME ~ok PROVE FALSE
  OBVIOUS
<1>1. AllIdle
  BY StatusSettles DEF Telling
<1>2. CASE driver \in Intel
  BY <1>2, StatusIs DEF IntelStatus, NeverRefused
<1>3. CASE driver \notin Intel /\ (driver = "amd040" \/ issued.buffer)
  <2>1. PollingStatus(issued.at, issued.bit7, ok)
    BY <1>3, StatusIs
  <2>2. 1 \in Chips
    BY LanesAre
  <2>3. Idle(chip[1]) /\ ~chip[1].stuck /\ chip[1].busy = None
    BY <1>1, <2>2 DEF AllIdle, Idle
  <2>4. (7 \in chip[1].cells[issued.at]) # issued.bit7
    <3>1. ok # TRUE
      OBVIOUS
    <3> QED
      BY <2>1, <2>3, <3>1 DEF PollingStatus
  <2>5. pc \in {"erasing", "programming"}
    BY <1>3 DEF Settled, Waiting, Intel
  <2>6. CASE pc = "erasing"
    <3>1. issued.op = "erase" /\ issued.block = Block(issued.at) /\ issued.bit7
      BY <2>6 DEF Shape, OperationIssued
    <3>2. issued.at \in Addr
      BY <2>6, NextIsThere DEF Shape, OperationIssued
    <3>3. chip[1].cells[issued.at] = Bits
      BY <2>2, <2>3, <2>6, <3>1, <3>2 DEF NeverRefused
    <3>4. 7 \in Bits
      BY FlashAssumption
    <3>5. issued.bit7 \in BOOLEAN
      <4>1. issued \in BlockOps \cup ProgramOps
        BY <3>1, OpsAreBusy DEF Shape, Typed
      <4> QED
        BY <4>1 DEF BlockOps, ProgramOps
    <3> QED
      BY <2>4, <3>1, <3>3, <3>4, <3>5
  <2>7. CASE pc = "programming"
    <3>1. /\ issued.op = "program" /\ task.cmd = "flashmem" /\ issued.at \in DOMAIN issued.words
          /\ issued.bit7 = (7 \in issued.words[issued.at])
          /\ task.at <= issued.at
          /\ issued.words[issued.at] = task.file[issued.at - task.at + 1]
      BY <2>7 DEF Shape, OperationIssued
    <3>2. issued \in ProgramOps
      BY <3>1, OpsAreBusy DEF Shape, Typed
    <3>3. issued.at \in Addr
      BY <3>2, OpsAreBusy
    <3>4. issued.at < Reached
      BY <2>7, <3>1 DEF FileWritten
    <3>5. chip[1].cells[issued.at] = task.file[issued.at - task.at + 1]
      BY <2>2, <2>3, <2>7, <3>1, <3>3, <3>4 DEF FileWritten
    <3> QED
      BY <2>4, <3>1, <3>5
  <2> QED
    BY <2>5, <2>6, <2>7
<1>4. CASE driver \notin Intel /\ ~(driver = "amd040" \/ issued.buffer)
  <2>1. ToggleStatus(ok)
    BY <1>4, StatusIs
  <2>2. ok # TRUE
    OBVIOUS
  <2> QED
    BY <2>1, <2>2 DEF ToggleStatus
<1> QED
  BY <1>2, <1>3, <1>4

LEMMA NeverFails ==
    ASSUME Shape, Settled, ~faults, NeverRefused, FileWritten, pc \in Waiting
    PROVE  ~Status(FALSE)
<1> SUFFICES ASSUME Status(FALSE) PROVE FALSE
  OBVIOUS
<1> DEFINE no == FALSE
<1>1. no \in BOOLEAN /\ Status(no) /\ ~no
  OBVIOUS
<1> HIDE DEF no
<1> QED
  BY <1>1, StatusTells

(* Which operation is under way, and that it is done. *)
LEMMA EndsDone ==
    ASSUME Shape, Settled, ~faults, NeverRefused, FileWritten, NEW l \in Chips, ChipEnds(l)
    PROVE  /\ ChipDone(l) /\ chip[l].busy = issued /\ issued \in BlockOps \cup ProgramOps
           /\ \A k \in Chips : k # l => chip'[k] = chip[k]
           /\ pc \notin {"idle", "unlock", "erase"} /\ ~AllIdle
           /\ issued.op = "erase" => pc = "erasing" /\ issued.block = Block(task.next)
           /\ pc = "erasing" => issued.op = "erase"
           /\ pc = "unlocking" => issued.op = "unlock" /\ issued.block = Block(task.next)
           /\ issued.op = "lock" => task.cmd = "lock"
<1>1. /\ chip[l].busy = issued /\ issued \in BlockOps \cup ProgramOps
      /\ \A k \in Chips : k # l => chip'[k] = chip[k]
      /\ ChipDone(l) \/ ChipRefused(l) \/ ChipFailed(l)
  <2>1. Telling /\ chip \in [Chips -> ChipStates]
    BY DEF Telling, Shape, Typed
  <2> QED
    BY <2>1, ChipEndsIs, EndsTold
<1>2. ~AllIdle
  BY NoneEnds
<1>3. \/ pc \in Waiting
      \/ pc \in {"program", "buffer"} /\ issued.op = "program"
  BY <1>2 DEF Settled, Telling
<1>4. /\ pc = "erasing" => issued.op = "erase" /\ issued.block = Block(task.next)
      /\ pc = "unlocking" => issued.op = "unlock" /\ issued.block = Block(task.next)
      /\ pc = "locking" => issued.op = "lock" /\ task.cmd = "lock"
      /\ pc = "programming" => issued.op = "program"
      /\ issued.op = "program" => task.cmd = "flashmem" /\ \A x \in DOMAIN issued.words : task.at <= x
  BY DEF Shape, OperationIssued, Settled, Placed
<1>5. ~Protected(chip[l], issued)
  <2> SUFFICES ASSUME NEW a \in Touched(issued) PROVE Block(a) \notin chip[l].locked
    BY DEF Protected
  <2>1. issued.op \in {"erase", "program"} /\ a \in Addr
    BY <1>1, TouchedAre
  <2>2. CASE issued.op = "erase"
    <3>1. pc = "erasing" /\ Block(a) = Block(task.next)
      BY <1>1, <1>3, <1>4, <2>2, TouchedAre DEF Waiting
    <3> QED
      BY <3>1 DEF NeverRefused
  <2>3. CASE issued.op = "program"
    <3>1. a \in DOMAIN issued.words
      BY <1>1, <2>3, TouchedAre
    <3>2. task.cmd = "flashmem" /\ pc # "idle" /\ task.at <= a
      BY <1>3, <1>4, <2>3, <3>1 DEF Waiting
    <3>3. a < Reached
      BY <1>2, <2>3, <3>1, <3>2 DEF FileWritten
    <3>4. Block(a) \in erased
      BY <2>1, <3>2, <3>3 DEF FileWritten
    <3> QED
      BY <3>2, <3>4 DEF FileWritten
  <2> QED
    BY <2>1, <2>2, <2>3
<1>6. ChipDone(l)
  BY <1>1, <1>5 DEF ChipRefused, ChipFailed
<1> QED
  BY <1>1, <1>2, <1>3, <1>4, <1>6 DEF Waiting

LEMMA FlawlessChip ==
    ASSUME Shape, Settled, ~faults, NeverRefused, FileWritten, NEW l \in Chips, ChipEnds(l)
    PROVE  NeverRefused' /\ FileWritten'
<1>1. UNCHANGED <<driver, faults, atZero, task, pc, issued, erased, todo, call>> /\ Chips' = Chips
  BY DEF ChipEnds, constants, Chips
<1>2. /\ ChipDone(l) /\ chip[l].busy = issued /\ issued \in BlockOps \cup ProgramOps
      /\ \A k \in Chips : k # l => chip'[k] = chip[k]
      /\ pc \notin {"idle", "unlock", "erase"} /\ ~AllIdle
      /\ issued.op = "erase" => pc = "erasing" /\ issued.block = Block(task.next)
      /\ pc = "erasing" => issued.op = "erase"
      /\ pc = "unlocking" => issued.op = "unlock" /\ issued.block = Block(task.next)
      /\ issued.op = "lock" => task.cmd = "lock"
  BY EndsDone
<1>3. /\ \A a \in Addr : chip'[l].cells[a] = IF a \notin Touched(issued) THEN chip[l].cells[a]
                                             ELSE IF issued.op = "erase" THEN Bits
                                             ELSE chip[l].cells[a] \cap issued.words[a]
      /\ chip'[l].locked = IF issued.op = "lock" THEN chip[l].locked \cup {issued.block}
                           ELSE IF issued.op = "unlock" THEN chip[l].locked \ {issued.block} ELSE chip[l].locked
      /\ chip'[l].busy = None /\ chip'[l].sr = chip[l].sr
  BY <1>2 DEF ChipDone
<1>4. /\ issued.op = "erase" => Touched(issued) = {a \in Addr : Block(a) = issued.block}
      /\ issued.op = "program" => Touched(issued) = DOMAIN issued.words
      /\ issued.op \in {"lock", "unlock"} => Touched(issued) = {}
      /\ issued.op \in {"erase", "lock", "unlock", "program"}
      /\ issued.op = "program" => \A a \in Touched(issued) : issued.words[a] \in SUBSET Bits
  BY <1>2, TouchedAre
<1>5. NeverRefused'
  <2>1. /\ \A k \in Chips : chip'[k].sr = {}
        /\ FlawlessSucceeds' /\ (pc' # "idle" /\ Answered' => task'.status = "ok")
    BY <1>1, <1>2, <1>3 DEF NeverRefused, FlawlessSucceeds, Answered
  <2>2. pc \in {"erase", "erasing"} => \A k \in Chips : Block(task.next) \notin chip'[k].locked
    BY <1>2, <1>3 DEF NeverRefused
  <2>3. pc = "unlocking" => \A k \in Chips : chip'[k].busy # None \/ Block(task.next) \notin chip'[k].locked
    BY <1>2, <1>3 DEF NeverRefused
  <2>4. pc = "erasing" => \A k \in Chips : \/ chip'[k].busy # None
                                           \/ \A a \in Addr : Block(a) = issued.block => chip'[k].cells[a] = Bits
    <3>1. ASSUME pc = "erasing", NEW a \in Addr, Block(a) = issued.block PROVE chip'[l].cells[a] = Bits
      BY <1>2, <1>3, <1>4, <3>1
    <3>2. ASSUME pc = "erasing", NEW k \in Chips, k # l
          PROVE  \/ chip'[k].busy # None
                 \/ \A a \in Addr : Block(a) = issued.block => chip'[k].cells[a] = Bits
      BY <1>2, <3>2 DEF NeverRefused
    <3> QED
      BY <3>1, <3>2
  <2> QED
    BY <1>1, <2>1, <2>2, <2>3, <2>4 DEF NeverRefused
<1>6. FileWritten'
  <2> SUFFICES ASSUME task.cmd = "flashmem" PROVE FileWritten'
    BY <1>1 DEF FileWritten
  <2>1. /\ \A k \in Chips, b \in erased : b \notin chip[k].locked
        /\ pc \in {"unlock", "unlocking", "erase", "erasing"} => Block(call.at) \notin erased
        /\ pc \in {"program", "buffer", "programming"} => Block(call.at) \in erased
        /\ \A x \in Addr : task.at <= x /\ x < Reached => Block(x) \in erased
        /\ \A k \in Chips, x \in Addr :
              /\ task.at <= x /\ x < Reached =>
                    \/ chip[k].cells[x] = task.file[x - task.at + 1]
                    \/ /\ chip[k].busy # None /\ issued.op = "program" /\ x \in DOMAIN issued.words
                       /\ chip[k].cells[x] = Bits
              /\ Reached <= x /\ Block(x) \in erased => chip[k].cells[x] = Bits
        /\ issued.op = "program" => \A x \in DOMAIN issued.words : x < Reached
        /\ pc = "programming" => \A x \in DOMAIN issued.words : x < Reached
    BY <1>2 DEF FileWritten
  <2>2. Reached' = Reached /\ Reached \in Int
    <3>1. Reached' = Reached
      BY <1>1 DEF Reached
    <3>2. todo.at \in Nat /\ task.at + task.pos \in Nat
      BY DEF Shape, Typed, Tasks, Calls
    <3> QED
      BY <3>1, <3>2 DEF Reached
  <2>3. \A k \in Chips, b \in erased : b \notin chip'[k].locked
    BY <1>2, <1>3, <2>1
  <2>4. ASSUME NEW x \in Addr, task.at <= x, x < Reached
        PROVE  chip'[l].cells[x] = task.file[x - task.at + 1]
    <3>1. CASE issued.op = "erase"
      <4>1. Block(call.at) \notin erased /\ issued.block = Block(call.at)
        BY <1>2, <2>1, <3>1 DEF Shape, FilePlaced, Writing
      <4>2. x \notin Touched(issued)
        BY <1>4, <2>1, <2>4, <3>1, <4>1
      <4> QED
        BY <1>3, <2>1, <2>4, <3>1, <4>2
    <3>2. CASE issued.op \in {"lock", "unlock"}
      BY <1>3, <1>4, <2>1, <2>4, <3>2
    <3>3. CASE issued.op = "program" /\ x \in DOMAIN issued.words
      <4>1. issued.words[x] = task.file[x - task.at + 1] /\ issued.words[x] \in SUBSET Bits
        BY <1>4, <3>3 DEF Shape, OperationIssued
      <4>2. chip[l].cells[x] = issued.words[x] \/ chip[l].cells[x] = Bits
        BY <2>1, <2>4, <4>1
      <4>3. chip'[l].cells[x] = chip[l].cells[x] \cap issued.words[x]
        BY <1>3, <1>4, <3>3
      <4>4. chip'[l].cells[x] = issued.words[x]
        BY <4>1, <4>2, <4>3
      <4> QED
        BY <4>1, <4>4
    <3>4. CASE issued.op = "program" /\ x \notin DOMAIN issued.words
      BY <1>3, <1>4, <2>1, <2>4, <3>4
    <3> QED
      BY <1>4, <3>1, <3>2, <3>3, <3>4
  <2>5. ASSUME NEW x \in Addr, Reached <= x, Block(x) \in erased PROVE chip'[l].cells[x] = Bits
    <3>1. CASE issued.op = "erase"
      BY <1>3, <1>4, <2>1, <2>5, <3>1
    <3>2. CASE issued.op \in {"lock", "unlock"}
      BY <1>3, <1>4, <2>1, <2>5, <3>2
    <3>3. CASE issued.op = "program"
      <4>1. x \notin DOMAIN issued.words
        BY <2>1, <2>2, <2>5, <3>3 DEF Addr
      <4> QED
        BY <1>3, <1>4, <2>1, <2>5, <3>3, <4>1
    <3> QED
      BY <1>4, <3>1, <3>2, <3>3
  <2>6. \A k \in Chips, x \in Addr :
              /\ task.at <= x /\ x < Reached =>
                    \/ chip'[k].cells[x] = task.file[x - task.at + 1]
                    \/ /\ chip'[k].busy # None /\ issued.op = "program" /\ x \in DOMAIN issued.words
                       /\ chip'[k].cells[x] = Bits
              /\ Reached <= x /\ Block(x) \in erased => chip'[k].cells[x] = Bits
    <3> TAKE k \in Chips, x \in Addr
    <3>1. CASE k = l
      BY <2>4, <2>5, <3>1
    <3>2. CASE k # l
      BY <1>2, <2>1, <3>2
    <3> QED
      BY <3>1, <3>2
  <2> QED
    BY <1>1, <2>1, <2>2, <2>3, <2>6 DEF FileWritten
<1> QED
  BY <1>5, <1>6

(* A step of a command that leaves what flashmem wrote as it is. *)
LEMMA WrittenOn ==
    ASSUME FileWritten, task.cmd = "flashmem", pc # "idle", SameCommand, Chips' = Chips,
           \A l \in Chips : chip'[l].cells = chip[l].cells /\ chip'[l].locked = chip[l].locked,
           erased' = erased, Reached' = Reached,
           \/ /\ issued' = issued
              /\ \A l \in Chips : chip'[l].busy = chip[l].busy /\ chip'[l].stuck = chip[l].stuck
           \/ AllIdle /\ issued'.op # "program",
           pc' \in {"unlock", "unlocking", "erase", "erasing"} => Block(call'.at) \notin erased,
           pc' \in {"program", "buffer", "programming"} => Block(call'.at) \in erased,
           pc' = "programming" => pc = "programming" /\ issued' = issued
    PROVE  FileWritten'
<1>1. task'.at = task.at /\ task'.file = task.file
  BY DEF SameCommand
<1>2. /\ \A l \in Chips, b \in erased : b \notin chip[l].locked
      /\ \A x \in Addr : task.at <= x /\ x < Reached => Block(x) \in erased
      /\ \A l \in Chips, x \in Addr :
            /\ task.at <= x /\ x < Reached =>
                  \/ chip[l].cells[x] = task.file[x - task.at + 1]
                  \/ /\ chip[l].busy # None /\ issued.op = "program" /\ x \in DOMAIN issued.words
                     /\ chip[l].cells[x] = Bits
            /\ Reached <= x /\ Block(x) \in erased => chip[l].cells[x] = Bits
      /\ issued.op = "program" /\ ~AllIdle => \A x \in DOMAIN issued.words : x < Reached
      /\ pc = "programming" => \A x \in DOMAIN issued.words : x < Reached
  BY DEF FileWritten
<1>3. \A l \in Chips, x \in Addr :
            /\ task.at <= x /\ x < Reached =>
                  \/ chip'[l].cells[x] = task.file[x - task.at + 1]
                  \/ /\ chip'[l].busy # None /\ issued'.op = "program" /\ x \in DOMAIN issued'.words
                     /\ chip'[l].cells[x] = Bits
            /\ Reached <= x /\ Block(x) \in erased => chip'[l].cells[x] = Bits
  <2>1. CASE issued' = issued /\ \A l \in Chips : chip'[l].busy = chip[l].busy /\ chip'[l].stuck = chip[l].stuck
    BY <1>2, <2>1
  <2>2. CASE AllIdle
    BY <1>2, <2>2 DEF AllIdle, Idle
  <2> QED
    BY <2>1, <2>2
<1>4. issued'.op = "program" /\ ~AllIdle' => \A x \in DOMAIN issued'.words : x < Reached
  <2>1. CASE issued' = issued /\ \A l \in Chips : chip'[l].busy = chip[l].busy /\ chip'[l].stuck = chip[l].stuck
    <3>1. AllIdle' <=> AllIdle
      BY <2>1 DEF AllIdle, Idle
    <3> QED
      BY <1>2, <2>1, <3>1
  <2>2. CASE issued'.op # "program"
    BY <2>2
  <2> QED
    BY <2>1, <2>2
<1>5. \A l \in Chips, b \in erased : b \notin chip'[l].locked
  BY <1>2
<1> QED
  BY <1>1, <1>2, <1>3, <1>4, <1>5 DEF FileWritten

(* Words given to idle chips that all take them. *)
LEMMA WrittenMore ==
    ASSUME Shape, FileWritten, pc \in {"program", "buffer"}, AllIdle,
           NEW o, NEW n \in Nat, NEW b, Gives(o, n, b, todo'), issued' = o, Chips' = Chips,
           \A l \in Chips : /\ chip'[l].cells = chip[l].cells /\ chip'[l].locked = chip[l].locked
                            /\ chip'[l].busy = o,
           UNCHANGED <<erased, task, call>>, pc' \in {"program", "programming"}
    PROVE  FileWritten'
<1> DEFINE t == todo.at
           r == todo'.at
           end == task.at + task.pos
<1>1. /\ task.cmd = "flashmem" /\ task.at \in Nat /\ end \in Nat /\ call.at \in Nat /\ t \in Nat
      /\ task.at <= call.at /\ call.at <= t
  BY WritingIs
<1>2. /\ o \in ProgramOps /\ o.op = "program" /\ DOMAIN o.words = t .. t + n - 1
      /\ todo' \in Calls /\ r = t + n /\ r + Len(todo'.words) = end
      /\ \A x \in DOMAIN o.words : o.words[x] = task.file[x - task.at + 1]
  BY DEF Gives
<1>3. r \in Nat /\ r <= end
  BY <1>1, <1>2, LenProperties DEF Calls
<1>4. Reached = t /\ Reached' = r
  BY DEF Reached, Writing
<1>5. /\ \A l \in Chips, k \in erased : k \notin chip[l].locked
      /\ Block(call.at) \in erased
      /\ \A x \in Addr : task.at <= x /\ x < t => Block(x) \in erased
      /\ \A l \in Chips, x \in Addr :
            /\ task.at <= x /\ x < t => chip[l].cells[x] = task.file[x - task.at + 1]
            /\ t <= x /\ Block(x) \in erased => chip[l].cells[x] = Bits
  BY <1>1, <1>4 DEF FileWritten, AllIdle, Idle
<1>6. \A x \in Addr : call.at <= x /\ x < end => Block(x) = Block(call.at)
  BY <1>1 DEF Shape, FilePlaced, Writing
<1> HIDE DEF t, r, end
<1>7. \A x \in Addr : t <= x /\ x < r => Block(x) \in erased /\ x \in DOMAIN o.words
  <2> TAKE x \in Addr
  <2> HAVE t <= x /\ x < r
  <2>1. x \in Int
    BY DEF Addr
  <2>2. call.at <= x /\ x < end /\ x \in t .. t + n - 1
    BY <1>1, <1>2, <1>3, <2>1
  <2> QED
    BY <1>2, <1>5, <1>6, <2>2
<1>8. \A x \in Addr : x < t \/ t <= x
  BY <1>1 DEF Addr
<1>9. \A x \in Addr : r <= x => t <= x
  BY <1>1, <1>2 DEF Addr
<1>10. \A x \in DOMAIN o.words : x < r
  BY <1>1, <1>2
<1>11. o # None
  BY <1>2, OpsAreBusy
<1>12. \A x \in Addr : task.at <= x /\ x < r => Block(x) \in erased
  BY <1>5, <1>7, <1>8
<1>13. \A l \in Chips, x \in Addr :
            /\ task.at <= x /\ x < r =>
                  \/ chip'[l].cells[x] = task.file[x - task.at + 1]
                  \/ /\ chip'[l].busy # None /\ o.op = "program" /\ x \in DOMAIN o.words
                     /\ chip'[l].cells[x] = Bits
            /\ r <= x /\ Block(x) \in erased => chip'[l].cells[x] = Bits
  <2> TAKE l \in Chips, x \in Addr
  <2>1. ASSUME task.at <= x, x < t PROVE chip'[l].cells[x] = task.file[x - task.at + 1]
    BY <1>5, <2>1
  <2>2. ASSUME t <= x, x < r
        PROVE  chip'[l].busy # None /\ x \in DOMAIN o.words /\ chip'[l].cells[x] = Bits
    BY <1>5, <1>7, <1>11, <2>2
  <2>3. ASSUME r <= x, Block(x) \in erased PROVE chip'[l].cells[x] = Bits
    BY <1>5, <1>9, <2>3
  <2> QED
    BY <1>2, <1>8, <2>1, <2>2, <2>3
<1>14. \A l \in Chips, k \in erased : k \notin chip'[l].locked
  BY <1>5
<1> QED
  BY <1>2, <1>4, <1>5, <1>10, <1>12, <1>13, <1>14 DEF FileWritten

LEMMA AllGoesWell ==
    ASSUME Shape, Settled, ~faults, NeverRefused, FileWritten, Answered, Step
    PROVE  (pc' # "idle" => task'.status = "ok") /\ FlawlessSucceeds'
<1>1. SameCommand /\ Chips' = Chips /\ faults' = faults
  BY StepKeeps
<1>2. task \in Tasks /\ Telling
  BY DEF Shape, Typed, Telling
<1>3. pc # "idle" /\ task.status = "ok"
  <2>1. pc # "idle"
    BY DEF Step, Unlock, Unlocked, Lock, Locked, Erase, Erased, PollAgain, ProgramWord, ClearStatus,
       ProgramBuffer, Programmed, ProgramFails, ReadChunk, ChunkProgrammed, ReadArray, Verify, StartBlock
  <2> QED
    BY <2>1 DEF NeverRefused
<1>4. ASSUME pc' # "idle", task'.status = "ok" PROVE (pc' # "idle" => task'.status = "ok") /\ FlawlessSucceeds'
  BY <1>4 DEF FlawlessSucceeds
<1>5. CASE Unlock \/ Unlocked \/ Lock \/ Locked \/ Erase \/ Erased \/ PollAgain \/ ProgramWord \/ ClearStatus
           \/ ProgramBuffer \/ Programmed
  <2>1. pc' # "idle" /\ (task' = task \/ \E ok \in BOOLEAN : ok /\ NextBlock(ok))
    <3>1. CASE Unlock \/ Lock
      <4> DEFINE yes == TRUE
      <4>1. yes \in BOOLEAN /\ yes /\ pc' # "idle" /\ (task' = task \/ NextBlock(yes))
        BY <3>1 DEF Unlock, Lock, NextBlock
      <4> HIDE DEF yes
      <4> QED
        BY <4>1
    <3>2. CASE Unlocked \/ Locked \/ Erased
      <4>1. PICK ok, answer \in BOOLEAN :
              Status(ok) /\ (Locked => (atZero => answer)) /\ (~Locked => answer)
                /\ pc' # "idle" /\ (task' = task \/ NextBlock(ok /\ answer))
        <5>1. CASE Locked
          BY <5>1 DEF Locked, NextBlock
        <5>2. CASE ~Locked
          <6> DEFINE yes == TRUE
          <6>1. PICK ok \in BOOLEAN : Status(ok) /\ pc' # "idle" /\ (task' = task \/ NextBlock(ok))
            BY <3>2, <5>2 DEF Unlocked, Erased, NextBlock
          <6>2. (ok /\ yes) = ok /\ yes \in BOOLEAN /\ yes
            OBVIOUS
          <6> HIDE DEF yes
          <6>3. NextBlock(ok) => NextBlock(ok /\ yes)
            BY <6>2
          <6> QED
            BY <5>2, <6>1, <6>2, <6>3
        <5> QED
          BY <5>1, <5>2
      <4>2. pc \in Waiting /\ (Locked => pc = "locking")
        BY <3>2 DEF Unlocked, Locked, Erased, Waiting
      <4>3. ok
        BY <4>1, <4>2, StatusTells
      <4>4. Locked => atZero
        BY <4>2 DEF Settled, Shape, Placed, Answered
      <4> DEFINE both == ok /\ answer
      <4>5. both \in BOOLEAN /\ both
        BY <4>1, <4>3, <4>4
      <4>6. task' = task \/ NextBlock(both)
        BY <4>1
      <4> HIDE DEF both
      <4> QED
        BY <4>1, <4>5, <4>6
    <3>3. CASE Erase \/ PollAgain \/ ProgramWord \/ ClearStatus \/ ProgramBuffer \/ Programmed
      BY <1>3, <3>3 DEF Erase, PollAgain, ProgramWord, ClearStatus, ProgramBuffer, Programmed
    <3> QED
      BY <1>5, <3>1, <3>2, <3>3
  <2>2. ASSUME NEW ok \in BOOLEAN, ok, NextBlock(ok) PROVE task'.status = "ok"
    <3> DEFINE next == task.next + FindBlock(task.next).left
               number == task.number - 1
               status == IF ok THEN task.status ELSE "fail"
    <3>1. task' = [task EXCEPT !.next = next, !.number = number, !.status = status] /\ status = "ok"
      BY <1>3, <2>2 DEF NextBlock
    <3> HIDE DEF next, number, status
    <3> QED
      BY <1>2, <3>1 DEF Tasks
  <2> QED
    BY <1>3, <1>4, <2>1, <2>2
<1>6. CASE ProgramFails
  BY <1>6, NeverFails DEF ProgramFails, Waiting
<1>7. CASE ReadChunk
  <2>1. PICK got : ChunkRead(got)
    BY <1>7, ReadChunkIs
  <2>2. task'.status = task.status /\ pc' # "idle"
    BY <1>7, <2>1 DEF ChunkRead, ReadChunk
  <2> QED
    BY <1>3, <1>4, <2>2
<1>8. CASE ChunkProgrammed
  <2>1. task'.status = task.status /\ pc' # "idle"
    BY <1>2, <1>8 DEF ChunkProgrammed, Tasks
  <2> QED
    BY <1>3, <1>4, <2>1
<1>9. CASE ReadArray
  <2>1. CASE Finish("ok")
    <3>1. pc' = "idle" /\ task'.result = "ok"
      BY <1>2, <2>1, FinishIs
    <3> QED
      BY <3>1 DEF FlawlessSucceeds
  <2>2. CASE pc' = "verify" /\ task' = [task EXCEPT !.next = task.at]
    <3>1. task'.status = task.status
      BY <1>2, <2>2 DEF Tasks
    <3> QED
      BY <1>3, <1>4, <2>2, <3>1
  <2> QED
    BY <1>9, <2>1, <2>2 DEF ReadArray
<1>10. CASE Verify
  <2>1. pc = "verify" /\ task.cmd = "flashmem"
    BY <1>10, VerifyIs
  <2>2. CASE Finish("ok")
    <3>1. pc' = "idle" /\ task'.result = "ok"
      BY <1>2, <2>2, FinishIs
    <3> QED
      BY <3>1 DEF FlawlessSucceeds
  <2>3. CASE FALSE \in Matches(task.next) /\ task.next # task.at + Len(task.file)
    <3>1. /\ AllIdle /\ Matches(task.next) = {\A l \in Chips : chip[l].cells[task.next] = task.file[task.next - task.at + 1]}
          /\ task.at <= task.next /\ task.next < task.at + Len(task.file) /\ task.next \in Addr
          /\ task.pos = Len(task.file)
      BY <2>1, <2>3, MatchesAre
    <3>2. Reached = task.at + Len(task.file)
      BY <2>1, <3>1 DEF Reached, Writing
    <3>3. \A l \in Chips : chip[l].cells[task.next] = task.file[task.next - task.at + 1]
      BY <2>1, <3>1, <3>2 DEF FileWritten, AllIdle, Idle
    <3> QED
      BY <2>3, <3>1, <3>3
  <2>4. CASE pc' = pc /\ task'.status = task.status
    BY <1>3, <1>4, <2>4
  <2> QED
    BY <1>10, <2>2, <2>3, <2>4, VerifyIs
<1>11. CASE StartBlock
  <2>1. CASE Finish(task.status)
    <3> DEFINE s == task.status
    <3>1. s \in {"ok", "fail"} /\ Finish(s)
      BY <1>2, <2>1 DEF Tasks
    <3> HIDE DEF s
    <3>2. pc' = "idle" /\ task'.result = s
      BY <1>2, <3>1, FinishIs
    <3> QED
      BY <1>3, <3>2 DEF FlawlessSucceeds, s
  <2>2. CASE task.number # 0 /\ FindBlock(task.next) = NoBlock /\ Finish("fail")
    <3>1. pc' = "idle" /\ task'.cmd = task.cmd /\ task'.at = task.at /\ task'.count = task.count
      BY <1>2, <2>2, FinishIs
    <3>2. task.cmd \in BlockCommands /\ task.next \notin Addr
      BY <1>11, <2>2, NoBlockThere DEF StartBlock, Shape, Placed
    <3>3. /\ task.number <= task.count /\ task.number \in Nat /\ task.count \in Nat
          /\ Block(task.at) + (task.count - task.number) \notin Blocks
      BY <1>2, <1>3, <3>2 DEF Shape, BlocksCounted, Tasks
    <3>4. NamedBlocks(task') = Block(task.at) .. Block(task.at) + task.count - 1
      BY <3>1, <3>2, NamedAre
    <3>5. Block(task.at) \in Int
      BY BlockRest, NoBlockThere
    <3>6. Block(task.at) + (task.count - task.number) \in Block(task.at) .. Block(task.at) + task.count - 1
      BY <2>2, <3>3, <3>5
    <3> QED
      BY <3>1, <3>3, <3>4, <3>6 DEF FlawlessSucceeds
  <2>3. CASE task' = task /\ pc' = IF task.cmd = "lock" THEN "lock" ELSE "unlock"
    BY <1>3, <1>4, <2>3
  <2> QED
    BY <1>11, <2>1, <2>2, <2>3 DEF StartBlock
<1> QED
  BY <1>5, <1>6, <1>7, <1>8, <1>9, <1>10, <1>11 DEF Step

LEMMA NeverRefusedStep ==
    ASSUME Shape, Settled, Agreed, ~faults, NeverRefused, FileWritten, Step
    PROVE  NeverRefused'
<1>1. /\ Chips' = Chips /\ SameCommand /\ \A l \in Chips : ChipWaits(l)
      /\ UNCHANGED <<driver, faults, atZero>>
  BY StepKeeps
<1>2. (pc' # "idle" /\ Answered' => task'.status = "ok") /\ FlawlessSucceeds'
  <2>1. Answered' <=> Answered
    BY <1>1 DEF Answered, SameCommand
  <2>2. CASE Answered
    BY <2>2, AllGoesWell
  <2>3. CASE ~Answered
    BY <2>1, <2>3 DEF FlawlessSucceeds, Answered
  <2> QED
    BY <2>2, <2>3, <2>1
<1>3. /\ \A l \in Chips : chip'[l].sr = {} /\ chip'[l].cells = chip[l].cells /\ chip'[l].locked = chip[l].locked
      /\ task \in Tasks /\ chip \in [Chips -> ChipStates] /\ Telling
  BY <1>1 DEF ChipWaits, NeverRefused, Shape, Typed, Telling
<1>4. ASSUME pc' \in {"erase", "erasing", "unlocking"}
      PROVE  Unlock \/ Unlocked \/ Erase \/ PollAgain
  BY <1>4 DEF Step, Lock, Locked, Erased, ProgramWord, ClearStatus, NextBlock, Finish,
     ProgramBuffer, Programmed, ProgramFails, ReadChunk, ChunkProgrammed, ReadArray, Verify, StartBlock
<1>5. /\ pc \in {"erase", "erasing"} => \A l \in Chips : Block(task.next) \notin chip[l].locked
      /\ pc = "unlocking" => \A l \in Chips : chip[l].busy # None \/ Block(task.next) \notin chip[l].locked
      /\ pc = "erasing" => \A l \in Chips : \/ chip[l].busy # None
                                            \/ \A a \in Addr : Block(a) = issued.block => chip[l].cells[a] = Bits
  BY DEF NeverRefused
<1>6. /\ pc' \in {"erase", "erasing"} => \A l \in Chips : Block(task'.next) \notin chip'[l].locked
      /\ pc' = "unlocking" => \A l \in Chips : chip'[l].busy # None \/ Block(task'.next) \notin chip'[l].locked
      /\ pc' = "erasing" => \A l \in Chips : \/ chip'[l].busy # None
                                             \/ \A a \in Addr : Block(a) = issued'.block => chip'[l].cells[a] = Bits
  <2>1. CASE Unlock /\ driver \in Intel
    <3>1. Issue(BlockOp("unlock", task.next)) /\ pc' = "unlocking" /\ pc = "unlock"
      BY <2>1 DEF Unlock
    <3>2. AllIdle /\ task.next \in Addr
      BY <1>3, <3>1, NextIsThere DEF Settled, Waiting
    <3> DEFINE o == BlockOp("unlock", task.next)
    <3>3. o \in BlockOps /\ o.op = "unlock"
      BY <3>2, BlockOpIs DEF BlockCommands
    <3>6. Issue(o) /\ (driver \notin Intel => \A l \in Chips : chip[l].sr = {})
      BY <3>1 DEF Settled
    <3> HIDE DEF o
    <3>4. \A l \in Chips : chip'[l].busy = o
      BY <1>3, <2>1, <3>2, <3>3, <3>6, IssueTaken
    <3>5. o # None
      BY <3>3, OpsAreBusy
    <3> QED
      BY <3>1, <3>4, <3>5
  <2>2. CASE Unlock /\ driver \notin Intel
    <3>1. pc' \in {"block", "erase"}
      BY <2>2 DEF Unlock, NextBlock
    <3>2. \A l \in Chips : chip[l].locked = {}
      BY <2>2 DEF Settled
    <3> QED
      BY <1>3, <3>1, <3>2
  <2>3. CASE Unlocked
    <3>1. pc = "unlocking" /\ AllIdle
      BY <1>3, <2>3, StatusSettles DEF Unlocked, Waiting
    <3>2. pc' = "block" \/ (pc' = "erase" /\ task' = task)
      BY <2>3 DEF Unlocked, NextBlock
    <3>3. \A l \in Chips : Block(task.next) \notin chip[l].locked
      BY <1>5, <3>1 DEF AllIdle, Idle
    <3> QED
      BY <1>3, <3>2, <3>3
  <2>4. CASE Erase
    <3>1. Issue(BlockOp("erase", task.next)) /\ pc' = "erasing" /\ pc = "erase" /\ task' = task
      BY <2>4 DEF Erase
    <3>2. AllIdle /\ task.next \in Addr
      BY <1>3, <3>1, NextIsThere DEF Settled, Waiting
    <3> DEFINE o == BlockOp("erase", task.next)
    <3>3. o \in BlockOps /\ o.op = "erase"
      BY <3>2, BlockOpIs DEF BlockCommands
    <3>6. Issue(o) /\ (driver \notin Intel => \A l \in Chips : chip[l].sr = {})
      BY <3>1 DEF Settled
    <3> HIDE DEF o
    <3>4. \A l \in Chips : chip'[l].busy = o
      BY <1>3, <3>2, <3>3, <3>6, IssueTaken
    <3>5. o # None
      BY <3>3, OpsAreBusy
    <3> QED
      BY <1>3, <1>5, <3>1, <3>4, <3>5
  <2>5. CASE PollAgain
    <3>1. pc' = pc /\ task' = task /\ chip' = chip /\ issued' = issued
      BY <2>5 DEF PollAgain
    <3> QED
      BY <1>5, <3>1
  <2>6. CASE ~(Unlock \/ Unlocked \/ Erase \/ PollAgain)
    BY <1>4, <2>6
  <2> QED
    BY <2>1, <2>2, <2>3, <2>4, <2>5, <2>6
<1> QED
  BY <1>1, <1>2, <1>3, <1>6 DEF NeverRefused

(* A block is erased: the words to come are of it, and empty. *)
LEMMA WrittenErased ==
    ASSUME Shape, Settled, ~faults, NeverRefused, FileWritten, Erased, task.cmd = "flashmem"
    PROVE  FileWritten'
<1>1. Chips' = Chips /\ \A l \in Chips : chip'[l].cells = chip[l].cells /\ chip'[l].locked = chip[l].locked
  <2>1. Step
    BY DEF Step
  <2> QED
    BY <2>1, StepKeeps DEF ChipWaits
<1>2. /\ pc = "erasing" /\ pc' = "program" /\ task' = task /\ call' = call /\ todo' = todo /\ issued' = issued
      /\ erased' = erased \cup {issued.block}
  BY DEF Erased
<1>3. \E ok \in BOOLEAN : Status(ok)
  BY DEF Erased
<1>4. AllIdle
  BY <1>2, <1>3, StatusSettles DEF Waiting, Telling
<1>5. Reached' = Reached
  BY <1>2 DEF Reached, Writing
<1>6. issued.op = "erase" /\ issued.block = Block(call.at)
  BY <1>2 DEF Shape, OperationIssued, FilePlaced, Writing
<1>7. \A l \in Chips : /\ issued.block \notin chip[l].locked
                       /\ \A a \in Addr : Block(a) = issued.block => chip[l].cells[a] = Bits
  BY <1>2, <1>4 DEF NeverRefused, AllIdle, Idle, Shape, OperationIssued
<1>8. /\ \A l \in Chips, b \in erased : b \notin chip[l].locked
      /\ \A x \in Addr : task.at <= x /\ x < Reached => Block(x) \in erased
      /\ \A l \in Chips, x \in Addr :
            /\ task.at <= x /\ x < Reached => chip[l].cells[x] = task.file[x - task.at + 1]
            /\ Reached <= x /\ Block(x) \in erased => chip[l].cells[x] = Bits
  BY <1>2, <1>4 DEF FileWritten, AllIdle, Idle
<1>9. \A l \in Chips, x \in Addr :
            /\ task.at <= x /\ x < Reached => chip'[l].cells[x] = task.file[x - task.at + 1]
            /\ Reached <= x /\ Block(x) \in erased' => chip'[l].cells[x] = Bits
  BY <1>1, <1>2, <1>7, <1>8
<1>10. \A l \in Chips, b \in erased' : b \notin chip'[l].locked
  BY <1>1, <1>2, <1>7, <1>8
<1>11. issued'.op # "program" /\ Block(call'.at) \in erased'
  BY <1>2, <1>6
<1> QED
  BY <1>1, <1>2, <1>5, <1>8, <1>9, <1>10, <1>11 DEF FileWritten

LEMMA FileWrittenStep ==
    ASSUME Shape, Settled, Agreed, ~faults, NeverRefused, FileWritten, Step, Buffered \subseteq {TRUE}
    PROVE  FileWritten'
<1> SUFFICES ASSUME task'.cmd = "flashmem", pc' # "idle" \/ task'.result = "ok" PROVE FileWritten'
  BY DEF FileWritten
<1>1. /\ Chips' = Chips /\ SameCommand
      /\ \A l \in Chips : chip'[l].cells = chip[l].cells /\ chip'[l].locked = chip[l].locked
  BY StepKeeps DEF ChipWaits
<1>2. task.cmd = "flashmem" /\ task \in Tasks /\ chip \in [Chips -> ChipStates] /\ Telling
  BY <1>1 DEF SameCommand, Shape, Typed, Telling
<1>3. pc # "idle"
  BY DEF Step, Unlock, Unlocked, Lock, Locked, Erase, Erased, PollAgain, ProgramWord, ClearStatus,
     ProgramBuffer, Programmed, ProgramFails, ReadChunk, ChunkProgrammed, ReadArray, Verify, StartBlock
<1>4. /\ pc \in {"unlock", "unlocking", "erase", "erasing"} => Block(call.at) \notin erased
      /\ pc \in {"program", "buffer", "programming"} => Block(call.at) \in erased
  BY <1>2, <1>3 DEF FileWritten
<1>5. CASE Unlock \/ Erase
  <2>1. AllIdle /\ task.next \in Addr
    BY <1>2, <1>5, NextIsThere DEF Unlock, Erase, Settled, Waiting
  <2>2. /\ pc \in {"unlock", "erase"} /\ pc' \in {"unlocking", "erase", "erasing"}
        /\ erased' = erased /\ todo' = todo /\ call' = call /\ pc' # "programming"
    BY <1>2, <1>5 DEF Unlock, Erase
  <2>3. Reached' = Reached
    BY <2>2 DEF Reached, Writing
  <2>4. \/ chip' = chip /\ issued' = issued
        \/ Issue(BlockOp("unlock", task.next))
        \/ Issue(BlockOp("erase", task.next))
    BY <1>5 DEF Unlock, Erase
  <2>5. BlockOp("unlock", task.next).op # "program" /\ BlockOp("erase", task.next).op # "program"
    BY DEF BlockOp
  <2>6. (chip' = chip /\ issued' = issued) \/ issued'.op # "program"
    BY <2>4, <2>5 DEF Issue
  <2> QED
    BY <1>1, <1>2, <1>3, <1>4, <2>1, <2>2, <2>3, <2>6, WrittenOn
<1>6. CASE Unlocked \/ Programmed
  <2>1. /\ \/ pc = "unlocking" /\ pc' = "erase"
           \/ pc = "programming" /\ pc' = "program"
        /\ chip' = chip /\ issued' = issued /\ erased' = erased /\ todo' = todo /\ call' = call
    BY <1>2, <1>6 DEF Unlocked, Programmed
  <2>2. Reached' = Reached
    BY <2>1 DEF Reached, Writing
  <2> QED
    BY <1>1, <1>2, <1>3, <1>4, <2>1, <2>2, WrittenOn
<1>7. CASE Lock \/ Locked
  BY <1>2, <1>7 DEF Lock, Locked, Shape, Placed
<1>8. CASE Erased
  BY <1>2, <1>8, WrittenErased
<1>9. CASE PollAgain \/ ClearStatus
  <2>1. /\ UNCHANGED <<issued, task, todo, call, multi, erased, driver, faults>>
        /\ \/ pc \in {"erasing", "programming"} /\ pc' = pc
           \/ pc = "program" /\ pc' = "buffer"
        /\ \A l \in Chips : chip'[l].busy = chip[l].busy /\ chip'[l].stuck = chip[l].stuck
    BY <1>2, <1>9, WaitingOn
  <2>2. Reached' = Reached
    BY <2>1 DEF Reached, Writing
  <2> QED
    BY <1>1, <1>2, <1>3, <1>4, <2>1, <2>2, WrittenOn
<1>10. CASE ProgramWord
  <2>1. PICK o : /\ Gives(o, 1, FALSE, todo') /\ Issue(o)
                 /\ pc = "program" /\ pc' = "programming"
                 /\ UNCHANGED <<task, call, erased>>
    BY <1>10, ProgramWordIs
  <2>2. AllIdle
    <3>1. ~(multi /\ driver = "intel")
      BY <1>10 DEF ProgramWord, UsesBuffer
    <3> QED
      BY <1>2, <2>1, <3>1 DEF Settled, Waiting
  <2>3. o \in ProgramOps
    BY <2>1 DEF Gives
  <2>7. o.op = "program" /\ (driver \notin Intel => \A l \in Chips : chip[l].sr = {})
    BY <2>3, OpsAreBusy DEF Settled
  <2>4. issued' = o /\ \A l \in Chips : chip'[l].busy = o
    BY <1>2, <2>1, <2>2, <2>3, <2>7, IssueIs, IssueTaken
  <2> DEFINE no == FALSE
             one == 1
  <2>5. Gives(o, one, no, todo') /\ one \in Nat
    BY <2>1
  <2> HIDE DEF no, one
  <2>6. pc \in {"program", "buffer"} /\ pc' \in {"program", "programming"}
    BY <2>1
  <2> QED
    BY <1>1, <2>1, <2>2, <2>4, <2>5, <2>6, WrittenMore
<1>11. CASE ProgramBuffer
  <2>1. PICK o, n : /\ Gives(o, n, TRUE, todo') /\ n \in Nat /\ issued' = o
                    /\ chip' = IF driver \in Intel \/ buffered THEN Issued(chip, o) ELSE chip
                    /\ \/ pc = "buffer" /\ AllIdle
                       \/ pc = "program" /\ driver = "amd"
                    /\ driver = "intel" \/ driver = "amd"
                    /\ pc' = IF driver \in Intel /\ todo'.words # << >> THEN "program" ELSE "programming"
                    /\ UNCHANGED <<task, call, erased>>
    BY <1>11, ProgramBufferIs
  <2>2. AllIdle
    BY <1>2, <2>1 DEF Settled, Waiting
  <2>3. o \in ProgramOps
    BY <2>1 DEF Gives
  <2>4. chip' = Issued(chip, o)
    <3>1. buffered \in Buffered
      BY DEF Shape, Typed
    <3> QED
      BY <2>1, <3>1
  <2>8. \A l \in Chips : Takes(chip[l], o)
    BY <2>1, <2>3, OpsAreBusy DEF Takes, Short
  <2>5. \A l \in Chips : chip'[l].busy = o
    BY <1>2, <2>2, <2>3, <2>4, <2>8, IssuedIs DEF AllIdle
  <2> DEFINE yes == TRUE
  <2>6. Gives(o, n, yes, todo')
    BY <2>1
  <2> HIDE DEF yes
  <2>7. pc \in {"program", "buffer"} /\ pc' \in {"program", "programming"}
    BY <2>1
  <2> QED
    BY <1>1, <2>1, <2>2, <2>5, <2>6, <2>7, WrittenMore
<1>12. CASE ProgramFails
  BY <1>12, NeverFails DEF ProgramFails, Waiting
<1>13. CASE ReadChunk
  <2>1. PICK got : ChunkRead(got)
    BY <1>13, ReadChunkIs
  <2>2. /\ pc = "chunk" /\ got \in Nat /\ task.next = task.at + task.pos /\ task'.at = task.at
        /\ task'.pos = task.pos + got /\ todo' = call' /\ call'.at = task.next
        /\ got = 0 => pc' = "chunk"
        /\ 1 <= got => pc' = IF Block(task.next) \in erased THEN "program" ELSE "unlock"
        /\ UNCHANGED <<chip, issued, erased>>
    BY <2>1 DEF ChunkRead
  <2>3. task.at \in Nat /\ task.pos \in Nat
    BY <1>2 DEF Tasks
  <2>4. CASE got = 0
    <3>1. Reached' = Reached
      BY <2>2, <2>3, <2>4 DEF Reached, Writing
    <3> QED
      BY <1>1, <1>2, <1>3, <2>2, <2>4, <3>1, WrittenOn
  <2>5. CASE 1 <= got
    <3>1. Reached' = Reached
      BY <2>2, <2>3, <2>5 DEF Reached, Writing
    <3>2. /\ pc' \in {"program", "unlock"}
          /\ pc' = "unlock" => Block(call'.at) \notin erased
          /\ pc' = "program" => Block(call'.at) \in erased
      BY <2>2, <2>5
    <3> QED
      BY <1>1, <1>2, <1>3, <2>2, <3>1, <3>2, WrittenOn
  <2> QED
    BY <2>2, <2>4, <2>5
<1>14. CASE ChunkProgrammed
  <2>1. /\ pc = "program" /\ todo.words = << >> /\ pc' = "chunk" /\ UNCHANGED <<chip, issued, erased>>
        /\ task'.at = task.at /\ task'.pos = task.pos
    BY <1>2, <1>14 DEF ChunkProgrammed, Tasks
  <2>2. todo.at \in Nat /\ todo.at + Len(todo.words) = task.at + task.pos
    BY <2>1, WritingIs
  <2>3. Reached' = Reached
    <3>1. Len(todo.words) = 0
      BY <2>1
    <3>2. todo.at = task.at + task.pos
      BY <2>2, <3>1
    <3> QED
      BY <2>1, <3>2 DEF Reached, Writing
  <2> QED
    BY <1>1, <1>2, <1>3, <2>1, <2>3, WrittenOn
<1>15. CASE ReadArray
  <2>1. pc = "chunk" /\ chip' = InArray /\ UNCHANGED <<issued, erased>>
    BY <1>15 DEF ReadArray
  <2>2. pc' \in {"verify", "idle"} /\ task'.at = task.at /\ task'.pos = task.pos
    BY <1>2, <1>15 DEF ReadArray, Finish, Tasks
  <2>3. \A l \in Chips : ~chip[l].stuck
    BY DEF Settled
  <2>4. \A l \in Chips : chip'[l].busy = chip[l].busy /\ chip'[l].stuck = chip[l].stuck
    <3>1. \A l \in Chips : InArray[l].busy = chip[l].busy /\ ~InArray[l].stuck
      BY <1>2, <2>3, InArrayIs
    <3>2. \A l \in Chips : InArray[l].stuck \in BOOLEAN /\ chip[l].stuck \in BOOLEAN
      BY <1>2, InArrayIs DEF ChipStates
    <3> QED
      BY <2>1, <2>3, <3>1, <3>2
  <2>5. Reached' = Reached
    BY <2>1, <2>2 DEF Reached, Writing
  <2> QED
    BY <1>1, <1>2, <1>3, <2>1, <2>2, <2>4, <2>5, WrittenOn
<1>16. CASE Verify
  <2>1. /\ pc = "verify" /\ UNCHANGED <<chip, issued, erased>>
        /\ pc' \in {"verify", "idle"} /\ task'.at = task.at /\ task'.pos = task.pos
    BY <1>2, <1>16, VerifyIs, FinishIs
  <2>2. Reached' = Reached
    BY <2>1 DEF Reached, Writing
  <2> QED
    BY <1>1, <1>2, <1>3, <2>1, <2>2, WrittenOn
<1>17. CASE StartBlock
  BY <1>2, <1>17 DEF StartBlock, Shape, Placed, BlockCommands
<1> QED
  BY <1>5, <1>6, <1>7, <1>8, <1>9, <1>10, <1>11, <1>12, <1>13, <1>14, <1>15, <1>16, <1>17 DEF Step

(* Chips without faults refuse nothing flashmem and eraseflash ask for, and  *)
(* have what flashmem gave them or are at it.                                *)
THEOREM FlashFlawless == ASSUME Buffered \subseteq {TRUE} PROVE Spec => []Flawless
<1>1. Init => Flawless
  <2> SUFFICES ASSUME Init PROVE Flawless
    OBVIOUS
  <2>1. pc = "idle" /\ task.cmd = "none" /\ task.result = "none"
    BY DEF Init, NoTask
  <2>2. \A l \in Chips : chip[l].sr = {}
    BY ChipsAtFirst
  <2> QED
    BY <2>1, <2>2 DEF Flawless, NeverRefused, FileWritten, FlawlessSucceeds
<1>2. ASSUME Shape, Settled, Agreed, Flawless, [Next]_vars PROVE Flawless'
  <2> SUFFICES ASSUME ~faults' PROVE NeverRefused' /\ FileWritten'
    BY DEF Flawless
  <2>1. ~faults
    BY <1>2 DEF Next, Step, Command, Flashmem, ForBlocks, Begin, ChipEnds, Unlock, Unlocked, Lock, Locked, Erase, Erased,
       PollAgain, ProgramWord, ClearStatus, ProgramBuffer, Programmed, ProgramFails, ReadChunk, ChunkProgrammed,
       ReadArray, Verify, StartBlock, constants, vars
  <2>2. NeverRefused /\ FileWritten
    BY <1>2, <2>1 DEF Flawless
  <2>3. CASE UNCHANGED vars
    <3>1. UNCHANGED <<driver, faults, atZero, task, pc, issued, chip, erased, todo, call>> /\ Chips' = Chips
      BY <2>3 DEF vars, constants, Chips
    <3>2. (AllIdle' <=> AllIdle) /\ Reached' = Reached
      BY <3>1 DEF AllIdle, Reached
    <3>3. NeverRefused'
      BY <2>2, <3>1 DEF NeverRefused, FlawlessSucceeds, Answered
    <3>4. FileWritten'
      BY <2>2, <3>1, <3>2 DEF FileWritten
    <3> QED
      BY <3>3, <3>4
  <2>4. CASE Step
    BY <1>2, <2>1, <2>2, <2>4, NeverRefusedStep, FileWrittenStep
  <2>5. CASE \E l \in Chips : ChipEnds(l)
    BY <1>2, <2>1, <2>2, <2>5, FlawlessChip
  <2>6. CASE Command
    <3>1. PICK t \in Tasks : /\ BeginsAs(t, "chunk") \/ BeginsAs(t, "block")
                             /\ t.cmd = "flashmem" => t.pos = 0 /\ BeginsAs(t, "chunk")
                             /\ t.status = "ok" /\ t.result = "none"
      BY <1>2, <2>6, CommandIs
    <3>2. /\ task' = t /\ pc' \in {"chunk", "block"} /\ Chips' = Chips /\ erased' = {} /\ issued' = NoOp
          /\ \A l \in Chips : chip'[l].locked = chip[l].locked /\ chip'[l].sr \in {{}, chip[l].sr}
      BY <1>2, <3>1, BeginIs DEF BeginsAs, Shape, Typed
    <3>3. NeverRefused'
      BY <2>2, <3>1, <3>2 DEF NeverRefused, FlawlessSucceeds
    <3>4. FileWritten'
      <4> SUFFICES ASSUME t.cmd = "flashmem" PROVE FileWritten'
        BY <3>2 DEF FileWritten
      <4>1. pc' = "chunk" /\ t.pos = 0 /\ t.at \in Nat
        BY <3>1 DEF BeginsAs, Tasks
      <4>2. Reached' = t.at
        BY <3>2, <4>1 DEF Reached, Writing
      <4>3. \A x \in Addr : ~(t.at <= x /\ x < t.at)
        BY <4>1 DEF Addr
      <4>4. issued'.op # "program"
        BY <3>2, OpsAreBusy
      <4> QED
        BY <3>2, <4>1, <4>2, <4>3, <4>4 DEF FileWritten
    <3> QED
      BY <3>3, <3>4
  <2> QED
    BY <1>2, <2>3, <2>4, <2>5, <2>6 DEF Next
<1> QED
  BY <1>1, <1>2, FlashShape, FlashSettles, FlashAgrees, PTL DEF Spec

(* With chips that do not fail a command within the flash succeeds, where the *)
(* write buffers of AMD's chips work.                                         *)
THEOREM FlashFlawlessSucceeds == ASSUME Buffered \subseteq {TRUE} PROVE Spec => []FlawlessSucceeds
<1>1. Flawless => FlawlessSucceeds
  BY DEF Flawless, NeverRefused, FlawlessSucceeds
<1> QED
  BY <1>1, FlashFlawless, PTL

(* What a command says it did, it did, where the write buffers work. *)
THEOREM FlashResultTrue == ASSUME Buffered \subseteq {TRUE} PROVE Spec => []ResultTrue
<1>1. Shape /\ Settled /\ CountedErased /\ Verified /\ Flawless => ResultTrue
  <2> SUFFICES ASSUME Shape, Settled, CountedErased, Verified, Flawless, Succeeded PROVE ResultTrue
    BY DEF ResultTrue
  <2>1. task \in Tasks /\ pc = "idle" /\ task.result = "ok"
    BY DEF Shape, Typed, Succeeded
  <2>2. ASSUME task.cmd = "flashmem", task.verify \/ ~faults, NEW l \in Chips, NEW i \in DOMAIN task.file
        PROVE  chip[l].cells[task.at + i - 1] = task.file[i]
    <3> DEFINE len == Len(task.file)
    <3>1. /\ task.at \in Nat /\ len \in Nat /\ task.at + len <= Size /\ task.pos = len
          /\ i \in 1 .. len
      BY <2>1, <2>2, LenProperties DEF Tasks, Shape, FilePlaced
    <3> HIDE DEF len
    <3> DEFINE x == task.at + i - 1
    <3>2. x \in Addr /\ task.at <= x /\ x < task.at + len /\ x - task.at + 1 = i
      BY <3>1, SizeIsNat DEF Addr
    <3> HIDE DEF x
    <3>3. CASE task.verify
      <4>1. \A y \in Addr : task.at <= y /\ y < task.at + Len(task.file) => chip[l].cells[y] = task.file[y - task.at + 1]
        BY <2>1, <2>2, <3>3 DEF Verified
      <4> QED
        BY <3>2, <4>1 DEF len, x
    <3>4. CASE ~faults
      <4>1. AllIdle
        BY <2>1, <3>4 DEF Settled, Telling, Waiting
      <4>2. Reached = task.at + len
        BY <2>1, <3>1 DEF Reached, Writing
      <4>3. chip[l].cells[x] = task.file[x - task.at + 1]
        BY <2>1, <2>2, <3>2, <3>4, <4>1, <4>2 DEF Flawless, FileWritten, AllIdle, Idle
      <4> QED
        BY <3>2, <4>3 DEF x
    <3> QED
      BY <2>2, <3>3, <3>4
  <2>3. ASSUME task.cmd = "erase", driver \in Intel \/ ~faults, NEW l \in Chips, NEW a \in Addr,
               Block(a) \in NamedBlocks(task)
        PROVE  chip[l].cells[a] = Bits
    <3>1. /\ task.number = 0 /\ task.status = "ok"
          /\ \A x \in Addr : Block(task.at) <= Block(x) /\ Block(x) < Block(task.at) + (task.count - task.number)
                => chip[l].cells[x] = Bits
      BY <2>1, <2>3 DEF CountedErased, Telling
    <3>2. Block(a) \in Block(task.at) .. Block(task.at) + task.count - 1
      BY <2>3, NamedAre DEF BlockCommands
    <3>3. Block(a) \in Nat /\ Block(task.at) \in Int /\ task.count \in Nat
      BY <2>1, BlockRest, NoBlockThere DEF Tasks
    <3>4. Block(task.at) <= Block(a) /\ Block(a) < Block(task.at) + (task.count - task.number)
      BY <3>1, <3>2, <3>3
    <3> QED
      BY <3>1, <3>4
  <2> QED
    BY <2>2, <2>3 DEF ResultTrue
<1> QED
  BY <1>1, FlashShape, FlashSettles, FlashCounts, FlashVerifies, FlashFlawless, PTL

-----------------------------------------------------------------------------
(* What is left of a call of program() ends where the call ends. *)
SameEnd == todo.words # << >> => todo.at + Len(todo.words) = call.at + Len(call.words)

LEMMA SameEndStep == ASSUME Shape, SameEnd, Next PROVE SameEnd'
<1>1. CASE Command \/ ReadChunk
  <2>1. todo' = call'
    BY <1>1 DEF Command, Flashmem, ForBlocks, Begin, ReadChunk
  <2> QED
    BY <2>1 DEF SameEnd
<1>2. CASE ProgramWord
  <2>1. PICK o : /\ Gives(o, 1, FALSE, todo') /\ pc = "program" /\ UNCHANGED <<task, call>>
    BY <1>2, ProgramWordIs
  <2> QED
    BY <2>1, WritingIs DEF Gives, SameEnd
<1>3. CASE ProgramBuffer
  <2>1. PICK o, n : /\ Gives(o, n, TRUE, todo') /\ pc \in {"buffer", "program"} /\ UNCHANGED <<task, call>>
    BY <1>3, ProgramBufferIs
  <2> QED
    BY <2>1, WritingIs DEF Gives, SameEnd
<1>4. CASE ProgramFails
  BY <1>4 DEF ProgramFails, SameEnd
<1>5. ASSUME NEW l \in Chips, ChipEnds(l) PROVE SameEnd'
  BY <1>5 DEF ChipEnds, SameEnd
<1>6. CASE \/ Unlock \/ Unlocked \/ Lock \/ Locked \/ Erase \/ Erased \/ PollAgain \/ ClearStatus \/ Programmed
           \/ ChunkProgrammed \/ ReadArray \/ Verify \/ StartBlock
  BY <1>6 DEF Unlock, Unlocked, Lock, Locked, Erase, Erased, PollAgain, ClearStatus, Programmed, ChunkProgrammed,
              ReadArray, Verify, StartBlock, SameEnd
<1> QED
  BY <1>1, <1>2, <1>3, <1>4, <1>5, <1>6 DEF Next, Step

(* The types of the variables, and that what is left of the words of a call  *)
(* of program() ends where the call ends.                                    *)
THEOREM FlashTyped == Spec => []TypeOK
<1>1. Init => SameEnd
  BY DEF Init, NoCall, SameEnd
<1>2. SameEnd /\ Shape /\ [Next]_vars => SameEnd'
  <2>1. SameEnd /\ UNCHANGED vars => SameEnd'
    BY DEF vars, SameEnd
  <2> QED
    BY <2>1, SameEndStep
<1>3. Shape /\ Settled /\ SameEnd => TypeOK
  <2> SUFFICES ASSUME Shape, Settled, SameEnd PROVE TypeOK
    OBVIOUS
  <2>1. chip \in [Chips -> ChipStates] /\ task \in Tasks /\ pc \in Pcs /\ polls \in 0 .. Polls
    BY DEF Shape, Typed
  <2>2. task.result \in {"none", "ok", "fail"}
    BY <2>1 DEF Tasks
  <2>3. ASSUME NEW l \in Chips
        PROVE  /\ chip[l].cells \in [Addr -> SUBSET Bits]
               /\ chip[l].locked \subseteq Blocks
               /\ chip[l].sr \subseteq {"erase", "program", "unlock", "lock", "locked"}
               /\ chip[l].mode \in {"array", "status", "identifier"}
               /\ chip[l].stuck => chip[l].busy # None
    <3>1. chip[l] \in ChipStates
      BY <2>1
    <3>2. chip[l].stuck => chip[l].busy # None
      BY DEF Settled
    <3> QED
      BY <3>1, <3>2 DEF ChipStates
  <2> QED
    BY <2>1, <2>2, <2>3 DEF TypeOK, SameEnd, Pcs
<1> QED
  BY <1>1, <1>2, <1>3, FlashShape, FlashSettles, PTL DEF Spec
=============================================================================
