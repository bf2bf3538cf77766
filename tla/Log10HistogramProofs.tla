------------------------ MODULE Log10HistogramProofs ------------------------
(***************************************************************************)
(* Proofs about Log10Histogram for all configurations and upstream         *)
(* histograms: the bounds, the counts between them, and that a second      *)
(* translation repeats the first.                                          *)
(***************************************************************************)
EXTENDS Log10Histogram, FiniteSetTheorems, WellFoundedInduction, TLAPS

-----------------------------------------------------------------------------
(* Powers of ten, and logarithms.                                          *)

\* The induction principle of the natural numbers: the intervals from 0 are
\* finite sets, on which inclusion is well-founded.
LEMMA Least ==
    ASSUME NEW S \in SUBSET Nat, S # {}
    PROVE  \E m \in S : \A k \in S : m <= k
<1> DEFINE F == FiniteSubsetsOf(Nat)
           T == {0..n : n \in S}
<1>1. IsWellFoundedOn(StrictSubsetOrdering(Nat), F)
  BY FS_StrictSubsetOrderingWellFounded
<1>2. T \subseteq F /\ T # {}
  <2>1. ASSUME NEW n \in S PROVE 0..n \in F
    <3>1. IsFiniteSet(0..n)
      BY FS_Interval
    <3> QED
      BY <3>1 DEF FiniteSubsetsOf
  <2> QED
    BY <2>1, Zenon
<1>3. PICK x \in T : \A y \in T : ~(<<y, x>> \in StrictSubsetOrdering(Nat))
  <2> HIDE DEF F, T
  <2> QED
    BY <1>1, <1>2, WFMin
<1>4. PICK m \in S : x = 0..m
  OBVIOUS
<1>5. ASSUME NEW k \in S, k < m PROVE FALSE
  <2>1. 0..k \in T /\ 0..k \subseteq 0..m /\ 0..k # 0..m
    <3>1. m \in 0..m /\ m \notin 0..k
      BY <1>5
    <3> QED
      BY <1>5, <3>1
  <2>2. <<0..k, 0..m>> \in StrictSubsetOrdering(Nat)
    BY <2>1 DEF StrictSubsetOrdering
  <2> QED
    BY <1>3, <1>4, <2>1, <2>2, Zenon
<1> QED
  BY <1>5

LEMMA PowerType == \A d \in 0..MaxDecade + 1 : 10^d \in Nat \ {0}
<1> DEFINE S == {d \in 0..MaxDecade + 1 : 10^d \notin Nat \ {0}}
<1>0. MaxDecade \in Nat
  BY DecadeAssumption
<1>1. SUFFICES ASSUME S # {} PROVE FALSE
  OBVIOUS
<1>2. PICK m \in S : \A k \in S : m <= k
  <2>1. S \in SUBSET Nat
    BY <1>0
  <2> HIDE DEF S
  <2> QED
    BY <1>1, <2>1, Least
<1>3. m # 0
  <2>1. 10^0 \in Nat \ {0}
    BY PowerAssumption
  <2> QED
    BY <2>1, Zenon
<1>4. m - 1 \in 0..MaxDecade /\ m - 1 \notin S
  BY <1>0, <1>2, <1>3
<1>5. 10^(m - 1) \in Nat \ {0}
  BY <1>0, <1>4
<1>6. 10^((m - 1) + 1) = 10 * 10^(m - 1)
  BY <1>4, PowerAssumption
<1>7. (m - 1) + 1 = m
  BY <1>0
<1> QED
  BY <1>2, <1>5, <1>6, <1>7

LEMMA PowerGrows ==
    ASSUME NEW d \in 0..MaxDecade + 1, NEW e \in 0..MaxDecade + 1, d < e
    PROVE  10 * 10^d <= 10^e
<1> DEFINE S == {i \in 0..MaxDecade + 1 : d < i /\ ~(10 * 10^d <= 10^i)}
<1>0. MaxDecade \in Nat
  BY DecadeAssumption
<1>1. SUFFICES ASSUME S # {} PROVE FALSE
  OBVIOUS
<1>2. PICK m \in S : \A k \in S : m <= k
  <2>1. S \in SUBSET Nat
    BY <1>0
  <2> HIDE DEF S
  <2> QED
    BY <1>1, <2>1, Least
<1>3. m - 1 \in 0..MaxDecade /\ m - 1 \notin S /\ d <= m - 1 /\ (m - 1) + 1 = m
  BY <1>0, <1>2
<1>4. 10^m = 10 * 10^(m - 1)
  <2>1. 10^((m - 1) + 1) = 10 * 10^(m - 1)
    BY <1>3, PowerAssumption
  <2> QED
    BY <1>3, <2>1
<1>5. 10^d \in Nat /\ 10^(m - 1) \in Nat /\ 10^m \in Nat
  BY <1>0, <1>3, PowerType
<1>6. CASE d = m - 1
  BY <1>4, <1>5, <1>6
<1>7. CASE d < m - 1
  <2>1. 10 * 10^d <= 10^(m - 1)
    BY <1>0, <1>3, <1>7
  <2> QED
    BY <1>4, <1>5, <2>1
<1> QED
  BY <1>3, <1>6, <1>7, <1>0

\* The logarithm of a bound below the next power of ten.
LEMMA Log10Is ==
    ASSUME NEW x \in Nat, 0 < x, x < 10^(MaxDecade + 1)
    PROVE  Log10(x) \in 0..MaxDecade /\ 10^Log10(x) <= x /\ x < 10^(Log10(x) + 1)
<1> DEFINE S == {d \in 0..MaxDecade + 1 : x < 10^d}
           P(d) == 10^d <= x /\ x < 10^(d + 1)
<1>0. MaxDecade \in Nat
  BY DecadeAssumption
<1>1. PICK m \in S : \A k \in S : m <= k
  <2>1. S \in SUBSET Nat
    BY <1>0
  <2>2. MaxDecade + 1 \in S
    BY <1>0
  <2> HIDE DEF S
  <2> QED
    BY <2>1, <2>2, Least
<1>2. m # 0
  <2>1. 10^0 = 1
    BY PowerAssumption
  <2>2. ~(x < 10^0)
    BY <2>1
  <2> QED
    BY <2>2, Zenon
<1>3. m - 1 \in 0..MaxDecade /\ m - 1 \notin S /\ (m - 1) + 1 = m
  BY <1>0, <1>1, <1>2
<1>4. 10^(m - 1) \in Nat
  BY <1>0, <1>3, PowerType
<1>5. P(m - 1)
  <2>1. 10^(m - 1) <= x
    BY <1>0, <1>3, <1>4
  <2> QED
    BY <1>1, <1>3, <2>1
<1>6. Log10(x) \in 0..MaxDecade + 1 /\ P(Log10(x))
  <2>1. \E d \in 0..MaxDecade + 1 : P(d)
    BY <1>0, <1>3, <1>5
  <2>2. Log10(x) = CHOOSE d \in 0..MaxDecade + 1 : P(d)
    BY Zenon DEF Log10
  <2> HIDE DEF P
  <2> QED
    BY <2>1, <2>2
<1>7. Log10(x) # MaxDecade + 1
  <2>1. 10^(MaxDecade + 1) \in Nat
    BY <1>0, PowerType
  <2> QED
    BY <1>6, <2>1
<1> QED
  BY <1>0, <1>6, <1>7

LEMMA Log10Grows ==
    ASSUME NEW x \in Nat, NEW y \in Nat, 0 < x, x <= y, y < 10^(MaxDecade + 1)
    PROVE  Log10(x) <= Log10(y)
<1>0. MaxDecade \in Nat /\ 10^(MaxDecade + 1) \in Nat
  BY DecadeAssumption, PowerType
<1>1. Log10(x) \in 0..MaxDecade /\ 10^Log10(x) <= x
  BY <1>0, Log10Is
<1>2. Log10(y) \in 0..MaxDecade /\ y < 10^(Log10(y) + 1)
  BY <1>0, Log10Is
<1>3. /\ 10^Log10(x) \in Nat \ {0} /\ 10^Log10(y) \in Nat \ {0}
      /\ 10^(Log10(y) + 1) = 10 * 10^Log10(y)
  BY <1>0, <1>1, <1>2, PowerType, PowerAssumption
<1>4. ASSUME Log10(y) < Log10(x) PROVE FALSE
  <2>1. 10 * 10^Log10(y) <= 10^Log10(x)
    BY <1>0, <1>1, <1>2, <1>4, PowerGrows
  <2> QED
    BY <1>1, <1>2, <1>3, <2>1
<1> QED
  BY <1>1, <1>2, <1>4

-----------------------------------------------------------------------------
(* nextBin.                                                                *)

Top == 10^MaxDecade

Width(d) == 10^(d + 1) \div cfg.bins

\* nextBin of any bound.
BinAfter(c) == After(c, Log10(c))

LEMMA ConfigIs ==
    ASSUME cfg \in Configs
    PROVE  /\ MaxDecade \in Nat /\ Top \in Nat \ {0} /\ 10^(MaxDecade + 1) = 10 * Top
           /\ cfg.bins \in Nat \ {0} /\ cfg.start \in 1..Top /\ cfg.end \in 0..Top
           /\ Log10(cfg.start) \in 0..MaxDecade
           /\ 10^Log10(cfg.start) <= cfg.start /\ cfg.start < 10^(Log10(cfg.start) + 1)
<1>1. MaxDecade \in Nat /\ Top \in Nat \ {0} /\ 10^(MaxDecade + 1) = 10 * Top
  BY DecadeAssumption, PowerType, PowerAssumption DEF Top
<1>2. cfg.bins \in Nat \ {0} /\ cfg.start \in 1..Top /\ cfg.end \in 0..Top
  BY ConfigsAssumption DEF Top
<1>3. cfg.start \in Nat /\ 0 < cfg.start /\ cfg.start < 10^(MaxDecade + 1)
  BY <1>1, <1>2
<1> QED
  BY <1>1, <1>2, <1>3, Log10Is

LEMMA WidthIs ==
    ASSUME cfg \in Configs, NEW d \in Log10(cfg.start)..MaxDecade
    PROVE  /\ Width(d) \in Nat \ {0} /\ cfg.bins * Width(d) = 10^(d + 1)
           /\ 10^(d + 1) = 10 * 10^d /\ 10^d \in Nat \ {0}
<1>1. d \in 0..MaxDecade /\ cfg.bins \in Nat \ {0}
  BY ConfigIs
<1>2. 10^(d + 1) \in Nat \ {0} /\ 10^d \in Nat \ {0} /\ 10^(d + 1) = 10 * 10^d
  BY <1>1, ConfigIs, PowerType, PowerAssumption
<1>3. 10^(d + 1) % cfg.bins = 0
  BY ConfigsAssumption
<1>4. \A m \in Nat \ {0}, b \in Nat \ {0} :
        m % b = 0 => (m \div b) \in Nat \ {0} /\ b * (m \div b) = m
  OBVIOUS
<1> QED
  BY <1>1, <1>2, <1>3, <1>4, Zenon DEF Width

\* The next bound is in the same decade or the next power of ten.
LEMMA BinAfterIs ==
    ASSUME cfg \in Configs, NEW c \in Nat, cfg.start <= c, c < Top
    PROVE  LET d == Log10(c)
               w == Width(d)
               n == IF cfg.bins < 10 /\ c <= 10^d THEN w ELSE c + w
           IN  /\ d \in Log10(cfg.start)..MaxDecade - 1
               /\ 10^d <= c /\ c < 10^(d + 1) /\ 10^(d + 1) <= Top
               /\ BinAfter(c) = IF n <= 10^(d + 1) THEN n ELSE 10^(d + 1)
               /\ BinAfter(c) \in Nat /\ c < BinAfter(c) /\ BinAfter(c) <= 10^(d + 1)
<1> DEFINE d == Log10(c)
           w == Width(d)
           n == IF cfg.bins < 10 /\ c <= 10^d THEN w ELSE c + w
<1>0. /\ MaxDecade \in Nat /\ Top \in Nat \ {0} /\ 10^(MaxDecade + 1) = 10 * Top
      /\ cfg.bins \in Nat \ {0} /\ cfg.start \in 1..Top
      /\ Log10(cfg.start) \in 0..MaxDecade
  BY ConfigIs
<1>1. 0 < c /\ c < 10^(MaxDecade + 1)
  BY <1>0
<1>2. d \in 0..MaxDecade /\ 10^d <= c /\ c < 10^(d + 1)
  BY <1>1, Log10Is
<1>3. Log10(cfg.start) <= d
  BY <1>0, <1>1, Log10Grows
<1>4. /\ w \in Nat \ {0} /\ cfg.bins * w = 10^(d + 1)
      /\ 10^(d + 1) = 10 * 10^d /\ 10^d \in Nat \ {0}
  BY <1>0, <1>2, <1>3, WidthIs
<1>5. d < MaxDecade
  BY <1>0, <1>2 DEF Top
<1>6. 10^(d + 1) <= Top
  <2>1. 10 * 10^d <= 10^MaxDecade
    BY <1>0, <1>2, <1>5, PowerGrows
  <2> QED
    BY <1>4, <2>1 DEF Top
<1>7. BinAfter(c) = IF n <= 10^(d + 1) THEN n ELSE 10^(d + 1)
  BY DEF BinAfter, After, Width
<1> HIDE DEF d, w
<1>8. c < n /\ n \in Nat
  <2>1. CASE cfg.bins < 10 /\ c <= 10^d
    <3>1. cfg.bins * w <= 9 * w
      BY <1>0, <1>4, <2>1
    <3> QED
      BY <1>0, <1>2, <1>4, <2>1, <3>1
  <2>2. CASE ~(cfg.bins < 10 /\ c <= 10^d)
    BY <1>4, <2>2
  <2> QED
    BY <2>1, <2>2
<1> HIDE DEF n
<1>9. BinAfter(c) \in Nat /\ c < BinAfter(c) /\ BinAfter(c) <= 10^(d + 1)
  BY <1>2, <1>4, <1>7, <1>8
<1> QED
  BY <1>0, <1>2, <1>3, <1>5, <1>6, <1>7, <1>9 DEF d, w, n

-----------------------------------------------------------------------------
(* The proportional adjustment.                                            *)

LEMMA Share ==
    ASSUME NEW a \in Nat, NEW y \in Nat \ {0}
    PROVE  /\ \A x \in 0..y : (a * x) \div y \in 0..a
           /\ (a * y) \div y = a
           /\ \A x, z \in Nat : z <= x => (a * z) \div y <= (a * x) \div y
<1>1. ASSUME NEW x \in 0..y PROVE (a * x) \div y \in 0..a
  OBVIOUS
<1>2. (a * y) \div y = a
  OBVIOUS
<1>3. ASSUME NEW x \in Nat, NEW z \in Nat, z <= x PROVE (a * z) \div y <= (a * x) \div y
  BY <1>3
<1> QED
  BY <1>1, <1>2, <1>3

-----------------------------------------------------------------------------
(* The inductive invariant of the counts.                                  *)

Sorted(bs) ==
    /\ bs \in Seq([le : 1..Top \cup {Inf}, n : Nat])
    /\ bs # <<>> /\ bs[Len(bs)].le = Inf
    /\ \A i, j \in 1..Len(bs) :
         i < j => /\ bs[i].le # Inf /\ bs[i].n <= bs[j].n
                  /\ j < Len(bs) => bs[i].le < bs[j].le

TypeInv ==
    /\ cfg \in Configs
    /\ Sorted(buckets)
    /\ at \in 1..Len(buckets) + 1
    /\ curr \in cfg.start..Top
    /\ new \in Seq([le : 1..Top, n : Nat])

\* The old buckets behind end at or before curr, the one at hand ends after the
\* new ones, and the new ones end before curr until the last.
PlaceInv ==
    /\ at = 1 => new = <<>>
    /\ \A j \in 1..Len(buckets) - 1 : j < at => buckets[j].le <= curr \/ MaxBound < curr
    /\ at < Len(buckets) => \A k \in 1..Len(new) : new[k].le < buckets[at].le
    /\ ~Done => \A k \in 1..Len(new) : new[k].le < curr /\ new[k].le <= MaxBound

\* The counts so far are at most the next, and the last.
CountInv ==
    /\ \A k \in 1..Len(new) : new[k].n <= buckets[Len(buckets)].n
    /\ Below /\ at > 1 => \A k \in 1..Len(new) : new[k].n <= Count
    /\ \A i, j \in 1..Len(new) : i < j => new[i].le < new[j].le /\ new[i].n <= new[j].n

HistogramInv == TypeInv /\ PlaceInv /\ CountInv /\ Bracketed

\* The bounds of the old buckets are numbers, but for the last.
LEMMA OldIs ==
    ASSUME TypeInv
    PROVE  /\ Len(buckets) \in Nat \ {0} /\ Top \in Nat \ {0} /\ Inf \notin 0..Top
           /\ \A i \in 1..Len(buckets) - 1 : buckets[i].le \in 1..Top
           /\ \A i \in 1..Len(buckets) : buckets[i].n \in Nat
           /\ \A i \in 1..Len(buckets) : buckets[i].le = Inf <=> i = Len(buckets)
           /\ \A i, j \in 1..Len(buckets) : i < j => buckets[i].n <= buckets[j].n
           /\ \A i, j \in 1..Len(buckets) - 1 : i < j => buckets[i].le < buckets[j].le
           /\ Finite(buckets) = 1..Len(buckets) - 1
<1>0. Top \in Nat \ {0} /\ Inf \notin 0..Top
  BY ConfigIs, DecadeAssumption DEF TypeInv, Top
<1>1. /\ buckets \in Seq([le : 1..Top \cup {Inf}, n : Nat]) /\ buckets # <<>>
      /\ buckets[Len(buckets)].le = Inf
      /\ \A i, j \in 1..Len(buckets) :
           i < j => /\ buckets[i].le # Inf /\ buckets[i].n <= buckets[j].n
                    /\ j < Len(buckets) => buckets[i].le < buckets[j].le
  BY Zenon DEF TypeInv, Sorted
<1>2. Len(buckets) \in Nat \ {0} /\ DOMAIN buckets = 1..Len(buckets)
  BY <1>1
<1>l. Len(buckets) \in Nat \ {0}
  BY <1>2
<1> DEFINE S == 1..Top \cup {Inf}
           R == [le : S, n : Nat]
<1>3. \A i \in 1..Len(buckets) : buckets[i] \in R
  <2>1. buckets \in Seq(R)
    BY <1>1
  <2> HIDE DEF R
  <2> QED
    BY <1>2, <2>1
<1>4. \A i \in 1..Len(buckets) : buckets[i].le \in S /\ buckets[i].n \in Nat
  <2> HIDE DEF S
  <2> QED
    BY <1>3
<1> HIDE DEF R
<1>5. \A i \in 1..Len(buckets) : buckets[i].le = Inf <=> i = Len(buckets)
  <2>1. ASSUME NEW i \in 1..Len(buckets), i # Len(buckets) PROVE buckets[i].le # Inf
    <3>1. i < Len(buckets) /\ Len(buckets) \in 1..Len(buckets)
      BY <1>l, <2>1
    <3> QED
      BY <1>1, <3>1
  <2> QED
    BY <1>1, <2>1
<1>6. \A i \in 1..Len(buckets) - 1 : buckets[i].le \in 1..Top
  <2>1. ASSUME NEW i \in 1..Len(buckets) - 1 PROVE buckets[i].le \in 1..Top
    <3>1. i \in 1..Len(buckets) /\ i # Len(buckets)
      BY <1>l
    <3>2. buckets[i].le \in S /\ buckets[i].le # Inf
      BY <1>4, <1>5, <3>1
    <3> QED
      BY <3>2
  <2> QED
    BY <2>1
<1>7. Finite(buckets) = 1..Len(buckets) - 1
  <2>1. ASSUME NEW i PROVE i \in Finite(buckets) <=> i \in 1..Len(buckets) /\ i # Len(buckets)
    BY <1>2, <1>5, Zenon DEF Finite
  <2>2. \A i : i \in 1..Len(buckets) /\ i # Len(buckets) <=> i \in 1..Len(buckets) - 1
    BY <1>2
  <2> QED
    BY <2>1, <2>2, Zenon
<1>8. \A i, j \in 1..Len(buckets) : i < j => buckets[i].n <= buckets[j].n
  BY <1>1
<1>9. \A i, j \in 1..Len(buckets) - 1 : i < j => buckets[i].le < buckets[j].le
  <2>1. \A i \in 1..Len(buckets) - 1 : i \in 1..Len(buckets) /\ i < Len(buckets)
    BY <1>2
  <2> QED
    BY <1>1, <2>1
<1>10. \A i \in 1..Len(buckets) : buckets[i].n \in Nat
  BY <1>4
<1> QED
  BY <1>0, <1>2, <1>5, <1>6, <1>7, <1>8, <1>9, <1>10, Zenon

LEMMA MaxBoundIs ==
    ASSUME TypeInv
    PROVE  MaxBound \in 0..Top
<1>1. cfg.end \in 0..Top /\ Top \in Nat
  BY ConfigIs DEF TypeInv
<1>2. CASE Len(buckets) < 2
  BY <1>1, <1>2 DEF MaxBound
<1>3. CASE ~(Len(buckets) < 2) /\ cfg.end > 0
  BY <1>1, <1>3 DEF MaxBound
<1>4. CASE ~(Len(buckets) < 2) /\ ~(cfg.end > 0)
  <2> DEFINE S == {buckets[i].le : i \in Finite(buckets)} \cup {0}
             p == Len(buckets) - 1
  <2>1. Len(buckets) \in Nat /\ p \in 1..p /\ Finite(buckets) = 1..p
    BY <1>4, OldIs
  <2>2. S \subseteq 0..Top
    BY <1>1, <2>1, OldIs
  <2>3. buckets[p].le \in S
    BY <2>1
  <2>4. \A i \in 1..p : buckets[i].le <= buckets[p].le
    BY <2>1, OldIs
  <2>5. \A y \in S : buckets[p].le >= y
    BY <1>1, <2>1, <2>2, <2>3, <2>4
  <2>6. Max(S) \in S
    <3> HIDE DEF S, p
    <3> QED
      BY <2>3, <2>5 DEF Max
  <2>7. MaxBound = Max(S)
    BY <1>4 DEF MaxBound
  <2> QED
    BY <2>2, <2>6, <2>7
<1> QED
  BY <1>2, <1>3, <1>4

\* MaxBound depends on the configuration and the old buckets only.
LEMMA MaxBoundStays ==
    ASSUME cfg' = cfg, buckets' = buckets
    PROVE  MaxBound' = MaxBound
BY DEF MaxBound, Finite

LEMMA NewIs ==
    ASSUME Top \in Nat, NEW s \in Seq([le : 1..Top, n : Nat])
    PROVE  /\ Len(s) \in Nat /\ DOMAIN s = 1..Len(s)
           /\ \A k \in 1..Len(s) : s[k].le \in 1..Top /\ s[k].le \in Nat /\ s[k].n \in Nat
<1> DEFINE R == [le : 1..Top, n : Nat]
<1>1. s \in Seq(R)
  OBVIOUS
<1>2. \A r \in R : r.le \in 1..Top /\ r.le \in Nat /\ r.n \in Nat
  OBVIOUS
<1> HIDE DEF R
<1>3. Len(s) \in Nat /\ DOMAIN s = 1..Len(s) /\ \A k \in 1..Len(s) : s[k] \in R
  BY <1>1
<1> QED
  BY <1>2, <1>3

LEMMA TypesAre ==
    ASSUME TypeInv
    PROVE  /\ Top \in Nat /\ curr \in 1..Top /\ curr \in Nat /\ MaxBound \in Nat
           /\ Len(buckets) \in Nat /\ at \in Nat /\ at >= 1 /\ at <= Len(buckets) + 1
           /\ Len(new) \in Nat /\ DOMAIN new = 1..Len(new)
           /\ \A k \in 1..Len(new) : new[k].le \in 1..Top /\ new[k].le \in Nat /\ new[k].n \in Nat
           /\ \A i \in 1..Len(buckets) - 1 : buckets[i].le \in Nat
           /\ \A i \in 1..Len(buckets) : buckets[i].n \in Nat
<1>0. cfg \in Configs /\ Top \in Nat
  BY ConfigIs DEF TypeInv
<1>1. curr \in 1..Top /\ curr \in Nat
  <2>1. curr \in cfg.start..Top /\ cfg.start \in 1..Top
    BY <1>0, ConfigIs DEF TypeInv
  <2> QED
    BY <1>0, <2>1
<1>2. MaxBound \in Nat
  BY <1>0, MaxBoundIs
<1>3. new \in Seq([le : 1..Top, n : Nat]) /\ at \in 1..Len(buckets) + 1
  BY DEF TypeInv
<1>4. /\ Len(new) \in Nat /\ DOMAIN new = 1..Len(new)
      /\ \A k \in 1..Len(new) : new[k].le \in 1..Top /\ new[k].le \in Nat /\ new[k].n \in Nat
  BY <1>0, <1>3, NewIs, Zenon
<1>5. \A i \in 1..Len(buckets) - 1 : buckets[i].le \in Nat
  <2>1. \A i \in 1..Len(buckets) - 1 : buckets[i].le \in 1..Top
    BY OldIs
  <2>2. \A x \in 1..Top : x \in Nat
    OBVIOUS
  <2> QED
    BY <2>1, <2>2
<1>6. Len(buckets) \in Nat /\ \A i \in 1..Len(buckets) : buckets[i].n \in Nat
  BY OldIs
<1>7. at \in Nat /\ at >= 1 /\ at <= Len(buckets) + 1
  BY <1>3, <1>6
<1> QED
  BY <1>0, <1>1, <1>2, <1>4, <1>5, <1>6, <1>7

\* Bounds and counts are in the order of the old buckets.
LEMMA OldOrder ==
    ASSUME TypeInv, NEW i \in 1..Len(buckets) - 1, NEW j \in 1..Len(buckets) - 1
    PROVE  /\ i <= j => buckets[i].le <= buckets[j].le /\ buckets[i].n <= buckets[j].n
           /\ buckets[i].le <= buckets[j].le => i <= j
           /\ buckets[i].le < buckets[j].le <=> i < j
<1>1. Len(buckets) \in Nat /\ i \in 1..Len(buckets) /\ j \in 1..Len(buckets)
      /\ i \in Nat /\ j \in Nat
  BY OldIs
<1>2. buckets[i].le \in Nat /\ buckets[j].le \in Nat /\ buckets[i].n \in Nat /\ buckets[j].n \in Nat
  BY <1>1, TypesAre, Zenon
<1>3. i < j => buckets[i].le < buckets[j].le /\ buckets[i].n <= buckets[j].n
  BY <1>1, OldIs
<1>4. j < i => buckets[j].le < buckets[i].le
  BY <1>1, OldIs
<1>5. i < j \/ i = j \/ j < i
  BY <1>1
<1> QED
  BY <1>1, <1>2, <1>3, <1>4, <1>5

\* The count at c in the i-th of the old buckets.
CountAt(i, c) ==
    buckets[i].n - ((buckets[i].n - buckets[i - 1].n) * (buckets[i].le - c))
                     \div (buckets[i].le - buckets[i - 1].le)

\* A count between two old ones, which goes up with the bound.
LEMMA CountAtIs ==
    ASSUME TypeInv, NEW i \in 2..Len(buckets) - 1,
           NEW c \in Nat, buckets[i - 1].le <= c, c <= buckets[i].le
    PROVE  /\ buckets[i - 1].n <= CountAt(i, c) /\ CountAt(i, c) <= buckets[i].n
           /\ CountAt(i, c) \in Nat
           /\ c = buckets[i - 1].le => CountAt(i, c) = buckets[i - 1].n
           /\ \A e \in Nat : c <= e /\ e <= buckets[i].le => CountAt(i, c) <= CountAt(i, e)
<1> DEFINE n == buckets[i].n
           p == buckets[i - 1].n
           u == buckets[i].le
           y == u - buckets[i - 1].le
<1>1. /\ buckets[i - 1].le \in Nat /\ u \in Nat /\ p \in Nat /\ n \in Nat
      /\ buckets[i - 1].le < u /\ p <= n
  <2>1. i - 1 \in 1..Len(buckets) - 1 /\ i \in 1..Len(buckets) - 1 /\ i - 1 < i
        /\ i - 1 \in 1..Len(buckets) /\ i \in 1..Len(buckets)
    BY OldIs
  <2> QED
    BY <2>1, OldIs, SMTT(30)
<1>2. n - p \in Nat /\ y \in Nat \ {0} /\ u - c \in 0..y /\ u - c \in Nat /\ n \in Nat /\ p \in Nat
  <2>1. \A a, b, g \in Nat :
          a < b /\ a <= g /\ g <= b => b - a \in Nat \ {0} /\ b - g \in 0..b - a /\ b - g \in Nat
    OBVIOUS
  <2>2. \A a, b \in Nat : a <= b => b - a \in Nat
    OBVIOUS
  <2> QED
    BY <1>1, <2>1, <2>2, Zenon
<1>3. \A e : CountAt(i, e) = n - ((n - p) * (u - e)) \div y
  BY DEF CountAt
<1>4. p <= CountAt(i, c) /\ CountAt(i, c) <= n /\ CountAt(i, c) \in Nat
  <2> DEFINE q == ((n - p) * (u - c)) \div y
  <2>1. q \in 0..n - p
    BY <1>2, Share, Zenon
  <2>2. CountAt(i, c) = n - q
    BY <1>3
  <2> HIDE DEF n, p, q
  <2> QED
    BY <1>2, <2>1, <2>2
<1>5. ASSUME c = buckets[i - 1].le PROVE CountAt(i, c) = p
  <2>1. u - c = y
    BY <1>5
  <2>2. ((n - p) * y) \div y = n - p
    BY <1>2, Share, Zenon
  <2>3. CountAt(i, c) = n - ((n - p) * y) \div y
    BY <1>3, <2>1
  <2> HIDE DEF n, p, u, y
  <2>4. CountAt(i, c) = n - (n - p)
    BY <2>2, <2>3
  <2> QED
    BY <1>2, <2>4
<1>6. ASSUME NEW e \in Nat, c <= e, e <= u PROVE CountAt(i, c) <= CountAt(i, e)
  <2> DEFINE q == ((n - p) * (u - e)) \div y
             r == ((n - p) * (u - c)) \div y
  <2>1. u - e \in 0..y /\ u - e \in Nat /\ u - e <= u - c
    <3>1. \A a, b, f, g \in Nat :
            a <= f /\ f <= g /\ g <= b => b - g \in 0..b - a /\ b - g \in Nat /\ b - g <= b - f
      OBVIOUS
    <3> QED
      BY <1>1, <1>6, <3>1, Zenon
  <2>2. q <= r /\ q \in 0..n - p /\ r \in 0..n - p
    BY <1>2, <2>1, Share, Zenon
  <2>3. CountAt(i, c) = n - r /\ CountAt(i, e) = n - q
    BY <1>3
  <2> HIDE DEF n, p, q, r
  <2> QED
    BY <1>2, <2>2, <2>3
<1> QED
  BY <1>4, <1>5, <1>6

LEMMA CountIs ==
    ASSUME TypeInv, PlaceInv, Below, at > 1
    PROVE  /\ at \in 2..Len(buckets) - 1
           /\ curr \in Nat /\ curr < Top /\ curr <= MaxBound
           /\ buckets[at - 1].le <= curr /\ curr < buckets[at].le
           /\ Count = CountAt(at, curr)
<1>1. at \in 2..Len(buckets) - 1
  BY OldIs DEF TypeInv, Below, le
<1>2. at - 1 \in 1..Len(buckets) - 1 /\ at - 1 < at /\ at \in 1..Len(buckets) - 1
  BY <1>1, OldIs
<1>3. curr \in Nat /\ curr < buckets[at].le /\ curr <= MaxBound /\ MaxBound \in Nat
  <2>1. curr \in Nat /\ MaxBound \in Nat
    BY TypesAre
  <2>2. curr < buckets[at].le /\ curr <= MaxBound
    BY DEF Below, le
  <2> QED
    BY <2>1, <2>2
<1>4. buckets[at - 1].le <= curr \/ MaxBound < curr
  BY <1>2 DEF PlaceInv
<1>5. buckets[at].le \in 1..Top
  BY <1>2, OldIs
<1> QED
  BY <1>1, <1>3, <1>4, <1>5, OldIs DEF Count, CountAt, prev, le

-----------------------------------------------------------------------------
(* The steps keep the invariant of the counts.                             *)

LEMMA NextBinUp ==
    ASSUME TypeInv, curr < Top
    PROVE  NextBin \in cfg.start..Top /\ curr < NextBin /\ NextBin = BinAfter(curr)
<1>1. curr \in Nat /\ cfg.start <= curr /\ cfg \in Configs /\ cfg.start \in Nat /\ Top \in Nat
  BY ConfigIs, SMTT(30) DEF TypeInv
<1>2. NextBin = BinAfter(curr)
  BY DEF NextBin, BinAfter
<1>3. BinAfter(curr) \in Nat /\ curr < BinAfter(curr) /\ BinAfter(curr) <= Top
  <2> DEFINE m == 10^(Log10(curr) + 1)
  <2>1. BinAfter(curr) \in Nat /\ curr < BinAfter(curr) /\ BinAfter(curr) <= m /\ m <= Top
    BY <1>1, BinAfterIs
  <2>2. m \in Nat
    <3>1. Log10(curr) \in Log10(cfg.start)..MaxDecade - 1
      BY <1>1, BinAfterIs
    <3>2. Log10(curr) + 1 \in 0..MaxDecade + 1
      BY <1>1, <3>1, ConfigIs
    <3> QED
      BY <3>2, PowerType
  <2> HIDE DEF m
  <2> QED
    BY <1>1, <2>1, <2>2
<1> QED
  BY <1>1, <1>2, <1>3

LEMMA AppendIs ==
    ASSUME TypeInv, NEW c \in 1..Top, NEW n \in Nat, new' = Append(new, Bucket(c, n))
    PROVE  /\ new' \in Seq([le : 1..Top, n : Nat])
           /\ Len(new) \in Nat /\ Len(new') = Len(new) + 1
           /\ \A i \in 1..Len(new) : new'[i] = new[i]
           /\ new'[Len(new) + 1].le = c /\ new'[Len(new) + 1].n = n
<1> DEFINE R == [le : 1..Top, n : Nat]
<1>1. new \in Seq(R) /\ Bucket(c, n) \in R /\ Bucket(c, n).le = c /\ Bucket(c, n).n = n
  BY DEF TypeInv, Bucket
<1>2. new' = Append(new, Bucket(c, n))
  OBVIOUS
<1> HIDE DEF R
<1>3. /\ new' \in Seq(R) /\ Len(new) \in Nat /\ Len(new') = Len(new) + 1
      /\ \A i \in 1..Len(new) : new'[i] = new[i]
      /\ new'[Len(new) + 1] = Bucket(c, n)
  BY <1>1, <1>2
<1> QED
  BY <1>1, <1>3 DEF R

\* Bracketed, for one new bucket.
Bracket(c, n) ==
    IF c <= MaxBound /\ \E j \in Finite(buckets) : c < buckets[j].le
      THEN \A j \in Finite(buckets) :
             /\ buckets[j].le <= c => buckets[j].n <= n
             /\ buckets[j].le >= c => buckets[j].n >= n
      ELSE n = buckets[Len(buckets)].n

\* What the three actions that add a bucket have in common.
LEMMA AddStep ==
    ASSUME HistogramInv, UNCHANGED <<cfg, buckets, first>>, ~Done,
           NEW n \in Nat, new' = Append(new, Bucket(curr, n)), Bracket(curr, n),
           n <= buckets[Len(buckets)].n, \A k \in 1..Len(new) : new[k].n <= n
    PROVE  /\ new' \in Seq([le : 1..Top, n : Nat])
           /\ \A k \in 1..Len(new') : new'[k].n <= buckets[Len(buckets)].n
           /\ \A i, j \in 1..Len(new') : i < j => new'[i].le < new'[j].le /\ new'[i].n <= new'[j].n
           /\ Bracketed'
           /\ \A k \in 1..Len(new') : new'[k].le <= curr
<1> DEFINE L == Len(new) + 1
           N == buckets[Len(buckets)].n
<1>0. TypeInv /\ PlaceInv /\ CountInv /\ Bracketed
  BY DEF HistogramInv
<1>1. curr \in 1..Top /\ curr \in Nat
  BY <1>0, TypesAre
<1>2. /\ new' \in Seq([le : 1..Top, n : Nat])
      /\ Len(new) \in Nat /\ Len(new') = L
      /\ \A i \in 1..Len(new) : new'[i] = new[i]
      /\ new'[L].le = curr /\ new'[L].n = n
  BY <1>0, <1>1, AppendIs, Zenon
<1>3. DOMAIN new = 1..Len(new) /\ DOMAIN new' = 1..L
  BY <1>0, <1>2, TypesAre, NewIs
<1>4. ASSUME NEW k \in 1..L, k # L PROVE k \in 1..Len(new)
  BY <1>2, <1>4, SMTT(30)
<1>5. \A k \in 1..Len(new) : new[k].le < curr /\ new[k].n <= N /\ new[k].n <= n
  BY <1>0 DEF PlaceInv, CountInv
<1>6. ASSUME NEW k \in 1..L PROVE new'[k].n <= N /\ new'[k].le <= curr
  <2>1. CASE k = L
    BY <1>1, <1>2, <2>1
  <2>2. CASE k # L
    <3>1. k \in 1..Len(new)
      BY <1>4, <2>2
    <3>2. new[k].le \in Nat /\ new[k].le < curr /\ new[k].n <= N /\ new'[k] = new[k]
      BY <1>0, <1>2, <1>5, <3>1, TypesAre, Zenon
    <3>3. new[k].le <= curr
      BY <1>1, <3>2
    <3> QED
      BY <3>2, <3>3
  <2> QED
    BY <2>1, <2>2
<1>7. ASSUME NEW i \in 1..L, NEW j \in 1..L, i < j
      PROVE  new'[i].le < new'[j].le /\ new'[i].n <= new'[j].n
  <2>1. i \in 1..Len(new) /\ (j = L \/ j \in 1..Len(new))
    <3>1. \A m \in Nat : \A a, b \in 1..m + 1 : a < b => a \in 1..m /\ (b = m + 1 \/ b \in 1..m)
      OBVIOUS
    <3> QED
      BY <1>2, <1>7, <3>1, Zenon
  <2>2. CASE j = L
    BY <1>2, <1>5, <2>1, <2>2, Zenon
  <2>3. CASE j \in 1..Len(new)
    BY <1>0, <1>2, <1>7, <2>1, <2>3, Zenon DEF CountInv
  <2> QED
    BY <2>1, <2>2, <2>3
<1>8. Bracketed'
  <2>1. \A k \in 1..Len(new) : Bracket(new[k].le, new[k].n)
    BY <1>0, <1>3, Zenon DEF Bracketed, Bracket
  <2>2. ASSUME NEW k \in 1..L PROVE Bracket(new'[k].le, new'[k].n)
    BY <1>2, <1>4, <2>1, Zenon
  <2>3. MaxBound' = MaxBound /\ buckets' = buckets
    BY MaxBoundStays
  <2>4. Finite(buckets)' = Finite(buckets)
    BY <2>3 DEF Finite
  <2> QED
    BY <1>3, <2>2, <2>3, <2>4, Zenon DEF Bracketed, Bracket
<1> QED
  BY <1>2, <1>6, <1>7, <1>8, Zenon

LEMMA SkipBinStep ==
    ASSUME HistogramInv, SkipBin
    PROVE  HistogramInv'
<1>0. TypeInv /\ PlaceInv /\ CountInv /\ Bracketed /\ Below
  BY DEF HistogramInv, SkipBin
<1>1. new = <<>> /\ at = 1 /\ UNCHANGED <<cfg, buckets, at, new, first>>
  BY <1>0 DEF SkipBin, PlaceInv
<1>2. curr < Top
  <2>1. at \in 1..Len(buckets) - 1
    BY <1>0, OldIs, TypesAre DEF Below, le
  <2>2. buckets[at].le \in 1..Top /\ curr < buckets[at].le
    BY <1>0, <2>1, OldIs DEF Below, le
  <2> QED
    BY <1>0, <2>2, TypesAre
<1>3. TypeInv'
  BY <1>0, <1>1, <1>2, NextBinUp DEF TypeInv, SkipBin, Sorted
<1>4. PlaceInv' /\ CountInv'
  BY <1>1 DEF PlaceInv, CountInv
<1>5. Bracketed'
  BY <1>1 DEF Bracketed
<1> QED
  BY <1>3, <1>4, <1>5 DEF HistogramInv

LEMMA AddBinStep ==
    ASSUME HistogramInv, AddBin
    PROVE  HistogramInv'
<1> DEFINE N == buckets[Len(buckets)].n
<1>0. TypeInv /\ PlaceInv /\ CountInv /\ Bracketed /\ Below /\ at > 1
  BY DEF HistogramInv, AddBin
<1>1. UNCHANGED <<cfg, buckets, at, first>> /\ MaxBound' = MaxBound
  BY MaxBoundStays DEF AddBin
<1>2. /\ at \in 2..Len(buckets) - 1
      /\ curr \in Nat /\ curr < Top /\ curr <= MaxBound
      /\ buckets[at - 1].le <= curr /\ curr < buckets[at].le
      /\ Count = CountAt(at, curr)
  BY <1>0, CountIs
<1>3. /\ buckets[at - 1].n <= Count /\ Count <= buckets[at].n /\ Count \in Nat
      /\ curr = buckets[at - 1].le => Count = buckets[at - 1].n
      /\ \A e \in Nat : curr <= e /\ e <= buckets[at].le => Count <= CountAt(at, e)
  <2>1. buckets[at].le \in Nat
    BY <1>0, <1>2, OldIs
  <2>2. curr <= buckets[at].le
    BY <1>2, <2>1
  <2> QED
    BY <1>0, <1>2, <2>2, CountAtIs
<1>4. ~Done /\ new' = Append(new, Bucket(curr, Count)) /\ curr' = NextBin
  BY <1>0 DEF Done, Below, AddBin, TypeInv
<1>5. Count <= N
  <2>1. at \in 1..Len(buckets) /\ Len(buckets) \in 1..Len(buckets) /\ at < Len(buckets)
    BY <1>0, <1>2, OldIs
  <2>2. buckets[at].n <= N /\ buckets[at].n \in Nat /\ N \in Nat
    BY <1>0, <2>1, OldIs
  <2> QED
    BY <1>3, <2>2
<1>6. Bracket(curr, Count)
  <2>1. Finite(buckets) = 1..Len(buckets) - 1 /\ at \in Finite(buckets) /\ Len(buckets) \in Nat
    BY <1>0, <1>2, OldIs
  <2>a. /\ at \in 1..Len(buckets) - 1 /\ at - 1 \in 1..Len(buckets) - 1
        /\ at \in 1..Len(buckets) /\ at - 1 \in 1..Len(buckets) /\ at \in Nat
    BY <1>2, <2>1
  <2>b. /\ buckets[at].le \in Nat /\ buckets[at - 1].le \in Nat
        /\ buckets[at].n \in Nat /\ buckets[at - 1].n \in Nat
    BY <1>0, <2>a, TypesAre
  <2>c. \A j \in Finite(buckets) : buckets[j].le \in Nat /\ buckets[j].n \in Nat /\ j \in Nat
    <3>1. \A j \in Finite(buckets) : j \in 1..Len(buckets) - 1 /\ j \in 1..Len(buckets) /\ j \in Nat
      BY <2>1
    <3> QED
      BY <1>0, <3>1, TypesAre, Zenon
  <2>2. ASSUME NEW j \in Finite(buckets), buckets[j].le <= curr PROVE buckets[j].n <= Count
    <3>1. buckets[j].le < buckets[at].le
      BY <1>2, <2>2, <2>b, <2>c, SMTT(30)
    <3>2. j < at
      BY <1>0, <2>1, <2>a, <3>1, OldOrder
    <3>3. j <= at - 1
      BY <2>a, <2>c, <3>2
    <3>4. buckets[j].n <= buckets[at - 1].n
      BY <1>0, <2>1, <2>a, <3>3, OldOrder, Zenon
    <3> QED
      BY <1>3, <2>b, <2>c, <3>4
  <2>3. ASSUME NEW j \in Finite(buckets), buckets[j].le >= curr PROVE buckets[j].n >= Count
    <3>1. CASE at <= j
      <4>1. buckets[at].n <= buckets[j].n
        BY <1>0, <2>1, <2>a, <3>1, OldOrder
      <4> QED
        BY <1>3, <2>b, <2>c, <4>1
    <3>2. CASE ~(at <= j)
      <4>1. buckets[at - 1].le <= buckets[j].le
        BY <1>2, <2>3, <2>b, <2>c, SMTT(30)
      <4>2. at - 1 <= j
        BY <1>0, <2>1, <2>a, <4>1, OldOrder
      <4>3. j = at - 1
        BY <2>a, <2>c, <3>2, <4>2
      <4>4. CASE curr = buckets[at - 1].le
        BY <1>3, <2>b, <4>3, <4>4
      <4>5. CASE curr # buckets[at - 1].le
        <5>1. buckets[j].le > buckets[at - 1].le
          BY <1>2, <2>3, <2>b, <2>c, <4>5, SMTT(30)
        <5> QED
          BY <2>b, <4>3, <5>1
      <4> QED
        BY <4>4, <4>5
    <3> QED
      BY <3>1, <3>2
  <2> QED
    BY <1>2, <2>1, <2>2, <2>3 DEF Bracket
<1>7. \A k \in 1..Len(new) : new[k].n <= Count
  BY <1>0 DEF CountInv
<1>8. /\ new' \in Seq([le : 1..Top, n : Nat])
      /\ \A k \in 1..Len(new') : new'[k].n <= N
      /\ \A i, j \in 1..Len(new') : i < j => new'[i].le < new'[j].le /\ new'[i].n <= new'[j].n
      /\ Bracketed'
      /\ \A k \in 1..Len(new') : new'[k].le <= curr
  BY <1>1, <1>3, <1>4, <1>5, <1>6, <1>7, AddStep, Zenon
<1>9. NextBin \in cfg.start..Top /\ curr < NextBin /\ NextBin \in Nat
  BY <1>0, <1>2, NextBinUp, ConfigIs, SMTT(30) DEF TypeInv
<1>10. TypeInv'
  BY <1>0, <1>1, <1>4, <1>8, <1>9 DEF TypeInv, Sorted
<1>11. \A k \in 1..Len(new') : new'[k].le \in Nat /\ new'[k].n \in Nat
  BY <1>0, <1>8, NewIs, TypesAre, Zenon
<1>12. PlaceInv'
  <2>1. ASSUME NEW k \in 1..Len(new')
        PROVE  new'[k].le < buckets[at].le /\ new'[k].le < curr' /\ new'[k].le <= MaxBound
    <3>1. new'[k].le \in Nat /\ new'[k].le <= curr
      BY <1>8, <1>11, Zenon
    <3>2. buckets[at].le \in Nat /\ MaxBound \in Nat
      BY <1>0, <1>2, TypesAre
    <3>3. curr \in Nat /\ curr < buckets[at].le /\ curr <= MaxBound
      BY <1>2
    <3>4. curr' \in Nat /\ curr < curr'
      BY <1>4, <1>9
    <3> QED
      BY <3>1, <3>2, <3>3, <3>4, SMTT(30)
  <2>2. ASSUME NEW j \in 1..Len(buckets) - 1, j < at
        PROVE  buckets[j].le <= curr' \/ MaxBound < curr'
    <3>1. buckets[j].le <= curr \/ MaxBound < curr
      BY <1>0, <2>2, Zenon DEF PlaceInv
    <3> QED
      BY <1>0, <1>2, <1>4, <1>9, <3>1, TypesAre, SMTT(30)
  <2>3. at' # 1
    BY <1>1, <1>2
  <2> QED
    BY <1>1, <2>1, <2>2, <2>3 DEF PlaceInv
<1>13. CountInv'
  <2>1. ASSUME Below', NEW k \in 1..Len(new') PROVE new'[k].n <= Count'
    <3>1. curr' \in Nat /\ curr <= curr' /\ curr' <= buckets[at].le
      BY <1>0, <1>1, <1>2, <1>4, <1>9, <2>1, OldIs, SMTT(30) DEF Below, le
    <3>2. Count' = CountAt(at, curr')
      BY <1>1, Zenon DEF Count, CountAt, prev, le
    <3>3. Count <= CountAt(at, curr')
      BY <1>3, <3>1
    <3>4. CountAt(at, curr') \in Nat
      <4>1. buckets[at - 1].le <= curr'
        <5>1. at - 1 \in 1..Len(buckets) - 1
          BY <1>0, <1>2, OldIs
        <5>2. buckets[at - 1].le \in Nat
          BY <1>0, <5>1, TypesAre, Zenon
        <5> QED
          BY <1>2, <3>1, <5>2, SMTT(30)
      <4> QED
        BY <1>0, <1>2, <3>1, <4>1, CountAtIs, Zenon
    <3>5. new'[k].n <= Count
      <4>1. Len(new') = Len(new) + 1 /\ Len(new) \in Nat /\ new'[Len(new) + 1].n = Count
            /\ \A i \in 1..Len(new) : new'[i] = new[i]
        <5>1. curr \in 1..Top
          BY <1>0, ConfigIs, SMTT(30) DEF TypeInv
        <5> QED
          BY <1>0, <1>3, <1>4, <5>1, AppendIs
      <4> QED
        BY <1>3, <1>7, <4>1
    <3> QED
      BY <1>3, <1>11, <3>2, <3>3, <3>4, <3>5
  <2> QED
    BY <1>1, <1>8, <2>1 DEF CountInv
<1> QED
  BY <1>8, <1>10, <1>12, <1>13 DEF HistogramInv

LEMMA NextBucketStep ==
    ASSUME HistogramInv, NextBucket
    PROVE  HistogramInv'
<1>0. TypeInv /\ PlaceInv /\ CountInv /\ Bracketed
  BY DEF HistogramInv
<1>1. UNCHANGED <<cfg, buckets, curr, new, first>> /\ at' = at + 1 /\ MaxBound' = MaxBound
  BY MaxBoundStays DEF NextBucket
<1>2. /\ at \in 1..Len(buckets) - 1 /\ Len(buckets) \in Nat /\ at \in Nat
      /\ at \in 1..Len(buckets) /\ ~Done
  BY <1>0, OldIs, TypesAre, SMTT(30) DEF NextBucket, le, Done
<1>3. buckets[at].le \in Nat /\ curr \in Nat /\ MaxBound \in Nat /\ buckets[at].n \in Nat
  BY <1>0, <1>2, TypesAre, Zenon
<1>4. buckets[at].le <= curr \/ MaxBound < curr
  <2>1. ~(curr < buckets[at].le /\ curr <= MaxBound)
    BY <1>2 DEF NextBucket, Below, le
  <2> QED
    BY <1>3, <2>1
<1>5. \A k \in 1..Len(new) :
        /\ new[k].le < buckets[at].le /\ new[k].le <= MaxBound /\ new[k].le < curr
        /\ new[k].le \in Nat /\ new[k].n \in Nat
  BY <1>0, <1>2, TypesAre DEF PlaceInv
<1>6. TypeInv'
  <2>1. at + 1 \in 1..Len(buckets) + 1
    BY <1>2
  <2> QED
    BY <1>0, <1>1, <2>1, Zenon DEF TypeInv, Sorted
<1>7. PlaceInv'
  <2>1. at' # 1 /\ ~(at + 1 > Len(buckets))
    BY <1>1, <1>2
  <2>2. ASSUME NEW j \in 1..Len(buckets) - 1, j < at + 1
        PROVE  buckets[j].le <= curr \/ MaxBound < curr
    <3>1. CASE j = at
      BY <1>4, <3>1
    <3>2. CASE j # at
      <4>1. j < at
        BY <1>2, <2>2, <3>2
      <4> QED
        BY <1>0, <4>1 DEF PlaceInv
    <3> QED
      BY <3>1, <3>2
  <2>3. ASSUME at + 1 < Len(buckets), NEW k \in 1..Len(new) PROVE new[k].le < buckets[at + 1].le
    <3>1. at + 1 \in 1..Len(buckets) - 1 /\ at < at + 1
      BY <1>2, <2>3
    <3>2. buckets[at].le < buckets[at + 1].le
      BY <1>0, <1>2, <3>1, OldOrder
    <3>3. buckets[at + 1].le \in Nat
      BY <1>0, <3>1, TypesAre, Zenon
    <3> QED
      BY <1>3, <1>5, <3>2, <3>3
  <2> QED
    BY <1>1, <1>5, <2>1, <2>2, <2>3, Zenon DEF PlaceInv, Done
<1>8. CountInv'
  <2>1. ASSUME Below', NEW k \in 1..Len(new) PROVE new[k].n <= Count'
    <3>1. at + 1 \in 2..Len(buckets) - 1 /\ at + 1 \in 1..Len(buckets) - 1
      <4>1. at + 1 <= Len(buckets) /\ buckets[at + 1].le # Inf
        BY <1>1, <2>1 DEF Below, le
      <4>2. at + 1 \in 1..Len(buckets)
        BY <1>2, <4>1
      <4>3. at + 1 # Len(buckets)
        BY <1>0, <4>1, <4>2, OldIs
      <4> QED
        BY <1>2, <4>1, <4>3
    <3>2. curr < buckets[at + 1].le /\ curr <= MaxBound
      BY <1>1, <2>1 DEF Below, le
    <3>3. buckets[at + 1].le \in Nat
      BY <1>0, <3>1, TypesAre, Zenon
    <3>4. (at + 1) - 1 = at
      BY <1>2
    <3>5. buckets[at].le <= curr /\ curr <= buckets[at + 1].le
      BY <1>3, <1>4, <3>2, <3>3
    <3>6. buckets[at].n <= CountAt(at + 1, curr) /\ CountAt(at + 1, curr) \in Nat
      <4> DEFINE i == at + 1
      <4>1. i \in 2..Len(buckets) - 1 /\ i - 1 = at /\ curr <= buckets[i].le
        BY <3>1, <3>4, <3>5
      <4>2. buckets[at].n <= CountAt(i, curr) /\ CountAt(i, curr) \in Nat
        <5> HIDE DEF i
        <5>1. buckets[i - 1].le <= curr
          BY <3>5, <4>1
        <5>2. buckets[i - 1].n <= CountAt(i, curr) /\ CountAt(i, curr) \in Nat
          BY <1>0, <1>3, <4>1, <5>1, CountAtIs, Zenon
        <5> QED
          BY <4>1, <5>2
      <4> QED
        BY <4>2
    <3>7. Count' = CountAt(at + 1, curr)
      BY <1>1 DEF Count, CountAt, prev, le
    <3>8. new[k].n <= buckets[at].n
      <4>1. /\ at \in Finite(buckets) /\ new[k].le < buckets[at].le /\ new[k].le <= MaxBound
            /\ k \in DOMAIN new
        BY <1>0, <1>2, <1>5, OldIs, TypesAre
      <4>2. buckets[at].le >= new[k].le => buckets[at].n >= new[k].n
        BY <1>0, <4>1, Zenon DEF Bracketed
      <4> QED
        BY <1>3, <1>5, <4>1, <4>2
    <3> QED
      BY <1>3, <1>5, <3>6, <3>7, <3>8
  <2> QED
    BY <1>0, <1>1, <2>1 DEF CountInv
<1>9. Bracketed'
  BY <1>0, <1>1 DEF Bracketed, Finite
<1> QED
  BY <1>6, <1>7, <1>8, <1>9 DEF HistogramInv

\* At +Inf's bucket, a new bucket gets all of the samples.
LEMMA TailAdds ==
    ASSUME HistogramInv, at <= Len(buckets), le = Inf
    PROVE  /\ at = Len(buckets) /\ ~Done /\ buckets[at].n \in Nat
           /\ Bracket(curr, buckets[at].n)
           /\ \A k \in 1..Len(new) : new[k].n <= buckets[at].n
           /\ curr < MaxBound => at > 1 /\ curr < Top
<1>0. TypeInv /\ PlaceInv /\ CountInv /\ Bracketed
  BY DEF HistogramInv
<1>1. at = Len(buckets) /\ ~Done /\ buckets[at].n \in Nat
  BY <1>0, OldIs, TypesAre, SMTT(30) DEF le, Done
<1>2. ASSUME curr <= MaxBound, NEW j \in Finite(buckets), curr < buckets[j].le PROVE FALSE
  <2>1. j \in 1..Len(buckets) - 1 /\ j < at
    BY <1>0, <1>1, OldIs
  <2>2. buckets[j].le <= curr \/ MaxBound < curr
    BY <1>0, <2>1 DEF PlaceInv
  <2> QED
    BY <1>0, <1>2, <2>1, <2>2, TypesAre
<1>3. Bracket(curr, buckets[at].n)
  BY <1>1, <1>2 DEF Bracket
<1>4. \A k \in 1..Len(new) : new[k].n <= buckets[at].n
  BY <1>0, <1>1 DEF CountInv
<1>5. ASSUME curr < MaxBound PROVE at > 1 /\ curr < Top
  <2>1. MaxBound # 0 /\ MaxBound \in 0..Top /\ curr \in 1..Top /\ Top \in Nat
    BY <1>0, <1>5, TypesAre, MaxBoundIs
  <2>2. ~(Len(buckets) < 2)
    BY <2>1 DEF MaxBound
  <2> QED
    BY <1>0, <1>1, <1>5, <2>1, <2>2, TypesAre
<1> QED
  BY <1>1, <1>3, <1>4, <1>5

LEMMA AddTailStep ==
    ASSUME HistogramInv, AddTail
    PROVE  HistogramInv'
<1> DEFINE N == buckets[Len(buckets)].n
<1>0. TypeInv /\ PlaceInv /\ CountInv /\ Bracketed
  BY DEF HistogramInv
<1>1. /\ UNCHANGED <<cfg, buckets, at, first>> /\ MaxBound' = MaxBound /\ curr' = NextBin
      /\ curr < MaxBound
  BY MaxBoundStays DEF AddTail
<1>2. /\ at = Len(buckets) /\ ~Done /\ N \in Nat /\ Bracket(curr, N) /\ at > 1 /\ curr < Top
      /\ \A k \in 1..Len(new) : new[k].n <= N
  BY <1>1, TailAdds DEF AddTail
<1>3. new' = Append(new, Bucket(curr, N)) /\ N <= N
  BY <1>2 DEF AddTail
<1>4. /\ new' \in Seq([le : 1..Top, n : Nat])
      /\ \A k \in 1..Len(new') : new'[k].n <= N
      /\ \A i, j \in 1..Len(new') : i < j => new'[i].le < new'[j].le /\ new'[i].n <= new'[j].n
      /\ Bracketed'
      /\ \A k \in 1..Len(new') : new'[k].le <= curr
  BY <1>1, <1>2, <1>3, AddStep, Zenon
<1>5. NextBin \in cfg.start..Top /\ curr < NextBin
  BY <1>0, <1>2, NextBinUp
<1>6. NextBin \in Nat /\ curr \in Nat /\ MaxBound \in Nat
  BY <1>0, <1>5, TypesAre, ConfigIs DEF TypeInv
<1>7. TypeInv'
  BY <1>0, <1>1, <1>4, <1>5, Zenon DEF TypeInv, Sorted
<1>8. PlaceInv'
  <2>1. \A k \in 1..Len(new') : new'[k].le < curr' /\ new'[k].le <= MaxBound
    <3>1. \A k \in 1..Len(new') : new'[k].le \in Nat
      BY <1>0, <1>4, NewIs, TypesAre, Zenon
    <3>2. curr < curr' /\ curr' \in Nat /\ curr < MaxBound /\ curr \in Nat /\ MaxBound \in Nat
      BY <1>1, <1>5, <1>6
    <3>3. \A k \in 1..Len(new') : new'[k].le <= curr
      BY <1>4
    <3> QED
      BY <3>1, <3>2, <3>3
  <2>2. ASSUME NEW j \in 1..Len(buckets) - 1, j < at
        PROVE  buckets[j].le <= curr' \/ MaxBound < curr'
    <3>1. buckets[j].le <= curr \/ MaxBound < curr
      BY <1>0, <2>2 DEF PlaceInv
    <3>2. buckets[j].le \in Nat
      BY <1>0, TypesAre
    <3> QED
      BY <1>1, <1>5, <1>6, <3>1, <3>2
  <2>3. at' # 1 /\ ~(at < Len(buckets))
    BY <1>0, <1>1, <1>2, TypesAre
  <2> QED
    BY <1>1, <2>1, <2>2, <2>3 DEF PlaceInv
<1>9. CountInv'
  <2>1. ~Below'
    BY <1>1, Zenon DEF AddTail, Below, le
  <2> QED
    BY <1>1, <1>4, <2>1, Zenon DEF CountInv
<1> QED
  BY <1>4, <1>7, <1>8, <1>9 DEF HistogramInv

LEMMA AddLastStep ==
    ASSUME HistogramInv, AddLast
    PROVE  HistogramInv'
<1> DEFINE N == buckets[Len(buckets)].n
<1>0. TypeInv /\ PlaceInv /\ CountInv /\ Bracketed
  BY DEF HistogramInv
<1>1. UNCHANGED <<cfg, buckets, curr, first>> /\ MaxBound' = MaxBound /\ at' = at + 1
  BY MaxBoundStays DEF AddLast
<1>2. /\ at = Len(buckets) /\ ~Done /\ N \in Nat /\ Bracket(curr, N)
      /\ \A k \in 1..Len(new) : new[k].n <= N
  BY TailAdds DEF AddLast
<1>3. new' = Append(new, Bucket(curr, N)) /\ N <= N
  BY <1>2 DEF AddLast
<1>4. /\ new' \in Seq([le : 1..Top, n : Nat])
      /\ \A k \in 1..Len(new') : new'[k].n <= N
      /\ \A i, j \in 1..Len(new') : i < j => new'[i].le < new'[j].le /\ new'[i].n <= new'[j].n
      /\ Bracketed'
  BY <1>1, <1>2, <1>3, AddStep, Zenon
<1>5. at + 1 \in 1..Len(buckets) + 1 /\ at + 1 > Len(buckets) /\ at + 1 # 1
      /\ ~(at + 1 < Len(buckets)) /\ ~(at + 1 <= Len(buckets))
  BY <1>0, <1>2, TypesAre
<1>7. TypeInv'
  BY <1>0, <1>1, <1>4, <1>5 DEF TypeInv, Sorted
<1>8. PlaceInv'
  <2>1. ASSUME NEW j \in 1..Len(buckets) - 1 PROVE buckets[j].le <= curr \/ MaxBound < curr
    <3>1. j < at
      BY <1>0, <1>2, TypesAre
    <3> QED
      BY <1>0, <3>1 DEF PlaceInv
  <2> QED
    BY <1>1, <1>5, <2>1 DEF PlaceInv, Done
<1>9. CountInv'
  BY <1>1, <1>4, <1>5 DEF CountInv, Below
<1> QED
  BY <1>4, <1>7, <1>8, <1>9 DEF HistogramInv

\* What was made of the buckets is an upstream's histogram again.
LEMMA AgainStep ==
    ASSUME HistogramInv, Again
    PROVE  HistogramInv'
<1> DEFINE N == buckets[Len(buckets)].n
           L == Len(new) + 1
           S == 1..Top \cup {Inf}
           R == [le : S, n : Nat]
<1>0. TypeInv /\ PlaceInv /\ CountInv /\ Bracketed
  BY DEF HistogramInv
<1>1. /\ buckets' = Append(new, Bucket(Inf, N)) /\ at' = 1 /\ curr' = cfg.start
      /\ new' = <<>> /\ cfg' = cfg
  BY DEF Again
<1>2. N \in Nat /\ Len(new) \in Nat /\ Inf \notin 0..Top
  BY <1>0, OldIs, TypesAre
<1>3. new \in Seq(R)
  <2> DEFINE Q == [le : 1..Top, n : Nat]
  <2>1. new \in Seq(Q)
    BY <1>0 DEF TypeInv
  <2>2. \A r \in Q : r \in R
    OBVIOUS
  <2> HIDE DEF Q, R
  <2> QED
    BY <2>1, <2>2
<1>4. Bucket(Inf, N) \in R /\ Bucket(Inf, N).le = Inf /\ Bucket(Inf, N).n = N
  BY <1>2 DEF Bucket
<1>5. /\ buckets' \in Seq(R) /\ Len(buckets') = L
      /\ \A i \in 1..Len(new) : buckets'[i] = new[i]
      /\ buckets'[L] = Bucket(Inf, N)
  <2> HIDE DEF R, N
  <2> QED
    BY <1>1, <1>2, <1>3, <1>4
<1>6. ASSUME NEW i \in 1..L, NEW j \in 1..L, i < j
      PROVE  /\ buckets'[i].le # Inf /\ buckets'[i].n <= buckets'[j].n
             /\ j < L => buckets'[i].le < buckets'[j].le
  <2>1. i \in 1..Len(new) /\ (j = L \/ (j \in 1..Len(new) /\ j # L))
    BY <1>2, <1>6
  <2>2. buckets'[i] = new[i] /\ new[i].le \in 1..Top
    BY <1>0, <1>5, <2>1, TypesAre
  <2>3. buckets'[i].le # Inf
    <3>1. \A x \in 1..Top : x \in 0..Top
      OBVIOUS
    <3> QED
      BY <1>2, <2>2, <3>1, Zenon
  <2>4. CASE j = L
    <3>1. buckets'[i].n <= N
      BY <1>0, <2>1, <2>2, Zenon DEF CountInv
    <3>2. ~(j < L)
      BY <1>2, <2>4
    <3> QED
      BY <1>4, <1>5, <2>3, <2>4, <3>1, <3>2
  <2>5. CASE j \in 1..Len(new)
    <3>1. buckets'[j] = new[j]
      BY <1>5, <2>5, Zenon
    <3>2. new[i].n <= new[j].n /\ new[i].le < new[j].le
      BY <1>0, <1>6, <2>1, <2>5 DEF CountInv
    <3> QED
      BY <2>2, <2>3, <3>1, <3>2
  <2> QED
    BY <2>1, <2>4, <2>5
<1>7. Sorted(buckets)'
  <2>1. Len(buckets') # 0
    BY <1>2, <1>5
  <2>2. buckets' # <<>>
    BY <2>1
  <2>3. buckets'[Len(buckets')].le = Inf
    BY <1>4, <1>5
  <2> QED
    BY <1>5, <1>6, <2>2, <2>3 DEF Sorted, Top
<1>8. TypeInv'
  <2>1. 1 \in 1..Len(buckets') + 1
    BY <1>2, <1>5
  <2>2. cfg.start \in cfg.start..Top /\ cfg \in Configs
    BY <1>0, ConfigIs, SMTT(30) DEF TypeInv
  <2>3. <<>> \in Seq([le : 1..Top, n : Nat])
    OBVIOUS
  <2> QED
    BY <1>1, <1>7, <2>1, <2>2, <2>3 DEF TypeInv, Top
<1>9. PlaceInv' /\ CountInv'
  BY <1>1 DEF PlaceInv, CountInv
<1>10. Bracketed'
  BY <1>1 DEF Bracketed
<1> QED
  BY <1>8, <1>9, <1>10 DEF HistogramInv

LEMMA HistogramInit ==
    ASSUME Init
    PROVE  HistogramInv
<1>1. Sorted(buckets)
  BY InputsAssumption, Zenon DEF Init, Sorted, Top
<1>2. TypeInv
  <2>1. Len(buckets) \in Nat
    BY <1>1 DEF Sorted
  <2>2. 1 \in 1..Len(buckets) + 1
    BY <2>1
  <2>3. cfg.start \in cfg.start..Top
    BY ConfigIs DEF Init
  <2>4. <<>> \in Seq([le : 1..Top, n : Nat])
    OBVIOUS
  <2> QED
    BY <1>1, <2>2, <2>3, <2>4 DEF Init, TypeInv
<1>3. PlaceInv /\ CountInv
  BY DEF Init, PlaceInv, CountInv
<1>4. Bracketed
  BY DEF Init, Bracketed
<1> QED
  BY <1>2, <1>3, <1>4 DEF HistogramInv

LEMMA HistogramStep ==
    ASSUME HistogramInv, [Next]_vars
    PROVE  HistogramInv'
<1>1. CASE SkipBin
  BY <1>1, SkipBinStep, Zenon
<1>2. CASE AddBin
  BY <1>2, AddBinStep
<1>3. CASE NextBucket
  BY <1>3, NextBucketStep
<1>4. CASE AddTail
  BY <1>4, AddTailStep
<1>5. CASE AddLast
  BY <1>5, AddLastStep
<1>6. CASE Again
  BY <1>6, AgainStep
<1>7. CASE UNCHANGED vars
  <2>1. UNCHANGED <<cfg, buckets, at, curr, new, first>>
    BY <1>7 DEF vars
  <2>2. TypeInv'
    BY <2>1 DEF HistogramInv, TypeInv, Sorted, Top
  <2>3. PlaceInv'
    BY <2>1, MaxBoundStays DEF HistogramInv, PlaceInv, Done
  <2>4. CountInv'
    <3>1. Count' = Count /\ (Below' <=> Below)
      BY <2>1, MaxBoundStays DEF Count, Below, le, prev
    <3> QED
      BY <2>1, <3>1 DEF HistogramInv, CountInv
  <2>5. Bracketed'
    BY <2>1, MaxBoundStays DEF HistogramInv, Bracketed, Finite
  <2> QED
    BY <2>2, <2>3, <2>4, <2>5 DEF HistogramInv
<1> QED
  BY <1>1, <1>2, <1>3, <1>4, <1>5, <1>6, <1>7 DEF Next

LEMMA HistogramInvariant == Spec => []HistogramInv
<1>1. Init => HistogramInv
  BY HistogramInit
<1>2. HistogramInv /\ [Next]_vars => HistogramInv'
  BY HistogramStep
<1> QED
  BY <1>1, <1>2, PTL DEF Spec

(***************************************************************************)
(* Whatever the configuration and the upstream's buckets, what             *)
(* addLog10Buckets makes of them is a cumulative histogram.                *)
(***************************************************************************)
THEOREM CumulativeCorrect == Spec => []Cumulative
<1>1. HistogramInv => Cumulative
  <2> SUFFICES ASSUME HistogramInv, NEW i \in 1..Len(new) - 1
               PROVE  new[i].le < new[i + 1].le /\ new[i].n <= new[i + 1].n
    BY DEF Cumulative
  <2>1. Len(new) \in Nat
    BY TypesAre DEF HistogramInv
  <2>2. i \in 1..Len(new) /\ i + 1 \in 1..Len(new) /\ i < i + 1
    BY <2>1
  <2> QED
    BY <2>2 DEF HistogramInv, CountInv
<1> QED
  BY <1>1, HistogramInvariant, PTL

(***************************************************************************)
(* A new count below the last old bound, and not past max, stays between   *)
(* the old counts around its bound, for any two of the old bounds and any  *)
(* rounding of the share; from there on, new buckets have all samples.     *)
(***************************************************************************)
THEOREM BracketedCorrect == Spec => []Bracketed
<1>1. HistogramInv => Bracketed
  BY DEF HistogramInv
<1> QED
  BY <1>1, HistogramInvariant, PTL

-----------------------------------------------------------------------------
(* nextBin leaves no bound of LogLinear out.                               *)

Low(d) == IF d = Log10(cfg.start) THEN cfg.start ELSE 10^d

From(d) == IF cfg.bins < 10 /\ Low(d) = 10^d THEN 0 ELSE Low(d)

LEMMA Multiples ==
    ASSUME NEW w \in Nat \ {0}
    PROVE  /\ \A k \in Nat : k * w \in Nat /\ (k + 1) * w = k * w + w
           /\ \A k \in Nat \ {0} : w <= k * w
           /\ \A k, l \in Nat : k <= l => k * w <= l * w
           /\ \A k, l \in Nat : k * w <= l * w => k <= l
<1>1. \A k \in Nat : k * w \in Nat /\ (k + 1) * w = k * w + w
  OBVIOUS
<1>2. ASSUME NEW k \in Nat \ {0} PROVE w <= k * w
  OBVIOUS
<1>3. ASSUME NEW k \in Nat, NEW l \in Nat, k <= l PROVE k * w <= l * w
  BY <1>3
<1>4. ASSUME NEW k \in Nat, NEW l \in Nat, k * w <= l * w PROVE k <= l
  BY <1>4
<1> QED
  BY <1>1, <1>2, <1>3, <1>4

\* The bounds of a decade: its lowest, and steps of a width from there.
LEMMA DecadeIs ==
    ASSUME cfg \in Configs, NEW d \in Log10(cfg.start)..MaxDecade
    PROVE  /\ Low(d) \in Nat /\ From(d) \in Nat /\ Width(d) \in Nat \ {0}
           /\ 10^d \in Nat \ {0} /\ 10^(d + 1) \in Nat
           /\ 10^d <= Low(d) /\ Low(d) < 10^(d + 1) /\ Low(d) \in Decade(d)
           /\ \A b \in Decade(d) :
                b = Low(d) \/ \E k \in Nat \ {0} : b = From(d) + k * Width(d)
           /\ \A k \in Nat \ {0} : From(d) + k * Width(d) <= 10^(d + 1) =>
                                     From(d) + k * Width(d) \in Decade(d)
           /\ \A k \in Nat \ {0} : Low(d) < From(d) + k * Width(d)
           /\ \A b \in Decade(d) : b \in Nat /\ Low(d) <= b /\ b <= 10^(d + 1)
<1> DEFINE w == Width(d)
           m == 10^(d + 1)
           p == 10^d
           l == Low(d)
           f == From(d)
           B == cfg.bins
<1>1. w \in Nat \ {0} /\ B * w = m /\ m = 10 * p /\ p \in Nat \ {0} /\ B \in Nat \ {0} /\ m \in Nat
  BY WidthIs, ConfigIs
<1>2. l \in Nat /\ p <= l /\ l < m
  <2>1. CASE d = Log10(cfg.start)
    BY <1>1, <2>1, ConfigIs DEF Low
  <2>2. CASE d # Log10(cfg.start)
    BY <1>1, <2>2 DEF Low
  <2> QED
    BY <2>1, <2>2
<1>3. (B < 10 /\ l = p /\ f = 0) \/ (~(B < 10 /\ l = p) /\ f = l)
  BY DEF From
<1>4. Decade(d) = {l} \cup {b \in {f + k * w : k \in 1..B} : b <= m}
  BY DEF Decade, Low, From, Width
<1> HIDE DEF w, m, p, l, f, B
<1>5. f \in Nat
  BY <1>2, <1>3
<1>6. ASSUME NEW k \in Nat \ {0} PROVE l < f + k * w
  <2>1. w <= k * w /\ k * w \in Nat
    BY <1>1, Multiples
  <2>2. CASE B < 10 /\ l = p /\ f = 0
    <3>1. B * w <= 9 * w
      BY <1>1, <2>2
    <3> QED
      BY <1>1, <2>1, <2>2, <3>1
  <2>3. CASE f = l
    BY <1>1, <1>2, <2>1, <2>3
  <2> QED
    BY <1>3, <2>2, <2>3
<1>7. ASSUME NEW k \in Nat \ {0}, f + k * w <= m PROVE f + k * w \in Decade(d)
  <2>1. k * w \in Nat
    BY <1>1, Multiples
  <2>2. k * w <= B * w
    BY <1>1, <1>5, <1>7, <2>1
  <2>3. k <= B
    BY <1>1, <2>2, Multiples
  <2>4. k \in 1..B
    BY <1>1, <2>3
  <2> QED
    BY <1>4, <1>7, <2>4, Zenon
<1>8. ASSUME NEW b \in Decade(d) PROVE b = l \/ \E k \in Nat \ {0} : b = f + k * w
  <2>1. b = l \/ \E k \in 1..B : b = f + k * w
    BY <1>4
  <2>2. \A k \in 1..B : k \in Nat \ {0}
    BY <1>1
  <2> QED
    BY <2>1, <2>2
<1>9. ASSUME NEW b \in Decade(d) PROVE b \in Nat /\ l <= b /\ b <= m
  <2>1. CASE b = l
    BY <1>1, <1>2, <2>1
  <2>2. CASE b # l
    <3>1. b <= m
      BY <1>4, <2>2
    <3>2. PICK k \in Nat \ {0} : b = f + k * w
      BY <1>8, <2>2
    <3>3. k * w \in Nat /\ l < f + k * w
      BY <1>1, <1>6, Multiples
    <3> QED
      BY <1>2, <1>5, <3>1, <3>2, <3>3
  <2> QED
    BY <2>1, <2>2
<1>10. l \in Decade(d)
  BY <1>4
<1> QED
  BY <1>1, <1>2, <1>5, <1>6, <1>7, <1>8, <1>9, <1>10 DEF w, m, p, l, f

LEMMA LogLinearIs ==
    ASSUME cfg \in Configs
    PROVE  /\ cfg.start \in LogLinear
           /\ \A b \in LogLinear : b \in Nat /\ cfg.start <= b
<1> DEFINE s == Log10(cfg.start)
<1>0. MaxDecade \in Nat /\ s \in 0..MaxDecade /\ s \in s..MaxDecade /\ cfg.start \in Nat
  BY ConfigIs
<1>1. Low(s) = cfg.start /\ cfg.start < 10^(s + 1) /\ 10^(s + 1) \in Nat /\ Low(s) \in Decade(s)
  BY <1>0, DecadeIs, ConfigIs, Zenon DEF Low
<1>2. cfg.start \in LogLinear
  BY <1>0, <1>1 DEF LogLinear
<1>3. ASSUME NEW b \in LogLinear PROVE b \in Nat /\ cfg.start <= b
  <2>1. PICK e \in s..MaxDecade : b \in Decade(e)
    BY DEF LogLinear
  <2>2. b \in Nat /\ Low(e) <= b /\ Low(e) \in Nat /\ 10^e <= Low(e) /\ 10^e \in Nat
    BY <2>1, DecadeIs
  <2>3. CASE e = s
    BY <1>1, <2>2, <2>3
  <2>4. CASE e # s
    <3>1. s < e /\ e \in 0..MaxDecade + 1 /\ s \in 0..MaxDecade + 1
      BY <1>0, <2>4
    <3>2. 10 * 10^s <= 10^e /\ 10^(s + 1) = 10 * 10^s
      BY <1>0, <3>1, PowerGrows, PowerAssumption
    <3> QED
      BY <1>0, <1>1, <2>2, <3>2
  <2> QED
    BY <2>3, <2>4
<1> QED
  BY <1>2, <1>3

LEMMA OwnDecade ==
    ASSUME cfg \in Configs, NEW c \in LogLinear, c < Top
    PROVE  /\ c \in Nat /\ cfg.start <= c /\ Log10(c) \in Log10(cfg.start)..MaxDecade - 1
           /\ Log10(c) \in Log10(cfg.start)..MaxDecade
           /\ c \in Decade(Log10(c))
<1> DEFINE s == Log10(cfg.start)
           d == Log10(c)
<1>0. c \in Nat /\ cfg.start <= c /\ MaxDecade \in Nat /\ s \in 0..MaxDecade
  BY LogLinearIs, ConfigIs
<1>1. d \in s..MaxDecade - 1 /\ 10^d <= c /\ c < 10^(d + 1)
  BY <1>0, BinAfterIs
<1>2. d \in s..MaxDecade /\ d \in 0..MaxDecade + 1 /\ d + 1 \in 0..MaxDecade + 1
  BY <1>0, <1>1
<1>3. PICK e \in s..MaxDecade : c \in Decade(e)
  BY DEF LogLinear
<1>4. /\ Low(e) <= c /\ c <= 10^(e + 1) /\ 10^e <= Low(e) /\ Low(e) \in Nat
      /\ 10^e \in Nat /\ 10^(e + 1) \in Nat
  BY <1>3, DecadeIs
<1>5. /\ 10^d \in Nat /\ 10^(d + 1) \in Nat /\ 10^(d + 1) = 10 * 10^d /\ 10^(e + 1) = 10 * 10^e
      /\ Low(d) \in Decade(d)
  BY <1>2, WidthIs, DecadeIs, Zenon
<1>6. e \in 0..MaxDecade + 1
  BY <1>0
<1> HIDE DEF d
<1>7. c \in Decade(d)
  <2>1. CASE e = d
    BY <1>3, <2>1
  <2>2. CASE e < d
    <3>1. 10 * 10^e <= 10^d
      BY <1>2, <1>6, <2>2, PowerGrows
    <3>2. c = 10^d
      BY <1>0, <1>1, <1>4, <1>5, <3>1
    <3>3. d # s
      BY <1>0, <2>2
    <3>4. Low(d) = 10^d
      BY <3>3 DEF Low
    <3> QED
      BY <1>5, <3>2, <3>4
  <2>3. CASE d < e
    <3>1. 10 * 10^d <= 10^e
      BY <1>2, <1>6, <2>3, PowerGrows
    <3> QED
      BY <1>0, <1>1, <1>4, <1>5, <3>1
  <2>4. e < d \/ e = d \/ d < e
    BY <1>0, <1>2
  <2> QED
    BY <2>1, <2>2, <2>3, <2>4
<1> QED
  BY <1>0, <1>1, <1>2, <1>7 DEF d

\* nextBin of a bound is the bound after it.
LEMMA BinAfterNext ==
    ASSUME cfg \in Configs, NEW c \in LogLinear, c < Top
    PROVE  /\ BinAfter(c) \in LogLinear /\ c < BinAfter(c) /\ BinAfter(c) <= Top
           /\ \A b \in LogLinear : b <= c \/ BinAfter(c) <= b
<1> DEFINE s == Log10(cfg.start)
           d == Log10(c)
           w == Width(d)
           m == 10^(d + 1)
           f == From(d)
           l == Low(d)
           n == IF cfg.bins < 10 /\ c <= 10^d THEN w ELSE c + w
           a == BinAfter(c)
<1>0. /\ c \in Nat /\ cfg.start <= c /\ d \in s..MaxDecade - 1 /\ d \in s..MaxDecade
      /\ c \in Decade(d) /\ MaxDecade \in Nat /\ s \in 0..MaxDecade
  BY OwnDecade, ConfigIs
<1>1. /\ 10^d <= c /\ c < m /\ m <= Top
      /\ a = IF n <= m THEN n ELSE m
      /\ a \in Nat /\ c < a /\ a <= m
  BY <1>0, BinAfterIs
<1>2. /\ l \in Nat /\ f \in Nat /\ w \in Nat \ {0} /\ 10^d \in Nat /\ m \in Nat
      /\ 10^d <= l /\ l < m /\ l \in Decade(d)
      /\ \A b \in Decade(d) : b = l \/ \E k \in Nat \ {0} : b = f + k * w
      /\ \A k \in Nat \ {0} : f + k * w <= m => f + k * w \in Decade(d)
      /\ \A k \in Nat \ {0} : l < f + k * w
  BY <1>0, DecadeIs, Zenon
<1>3. \A b \in Decade(d) : b \in Nat /\ l <= b
  BY <1>0, DecadeIs
<1>4. (cfg.bins < 10 /\ l = 10^d /\ f = 0) \/ (~(cfg.bins < 10 /\ l = 10^d) /\ f = l)
  BY DEF From
<1>5. n = IF cfg.bins < 10 /\ c <= 10^d THEN w ELSE c + w
  OBVIOUS
<1>6. Top \in Nat
  BY ConfigIs
<1>7. m = 10 * 10^d
  BY <1>0, WidthIs
<1>8. d + 1 <= MaxDecade /\ d + 1 # s /\ d + 1 \in s..MaxDecade /\ d \in 0..MaxDecade + 1
  BY <1>0
<1>9. m \in LogLinear
  <2>1. Low(d + 1) \in Decade(d + 1)
    BY <1>8, DecadeIs, Zenon
  <2>2. Low(d + 1) = m
    BY <1>8 DEF Low
  <2> QED
    BY <1>8, <2>1, <2>2 DEF LogLinear
<1>10. Decade(d) \subseteq LogLinear
  BY <1>0 DEF LogLinear
<1> HIDE DEF w, m, f, l, n, a, d
\* c is j widths from the start of its decade, and n is one more.
<1>11. \E j \in Nat : /\ n = f + (j + 1) * w
                      /\ \A k \in Nat \ {0} : k <= j => f + k * w <= c
  <2>1. CASE c = l
    <3>1. n = f + w
      BY <1>2, <1>4, <1>5, <2>1
    <3>2. (0 + 1) * w = w
      BY <1>2
    <3>3. n = f + (0 + 1) * w /\ \A k \in Nat \ {0} : ~(k <= 0)
      BY <3>1, <3>2
    <3> QED
      BY <3>3
  <2>2. CASE c # l
    <3>1. PICK j \in Nat \ {0} : c = f + j * w
      BY <1>0, <1>2, <2>2
    <3>2. l < c
      BY <1>2, <3>1
    <3>3. n = c + w
      BY <1>0, <1>2, <1>5, <3>2
    <3>4. (j + 1) * w = j * w + w /\ j * w \in Nat
      BY <1>2, Multiples, Zenon
    <3>5. n = f + (j + 1) * w
      BY <1>2, <3>1, <3>3, <3>4
    <3>6. ASSUME NEW k \in Nat \ {0}, k <= j PROVE f + k * w <= c
      <4>1. k * w <= j * w /\ k * w \in Nat
        BY <1>2, <3>6, Multiples, Zenon
      <4> QED
        BY <1>2, <3>1, <3>4, <4>1
    <3> QED
      BY <3>5, <3>6
  <2> QED
    BY <2>1, <2>2
<1>12. PICK j \in Nat : /\ n = f + (j + 1) * w
                        /\ \A k \in Nat \ {0} : k <= j => f + k * w <= c
  BY <1>11
<1>13. j + 1 \in Nat \ {0} /\ (j + 1) * w \in Nat /\ n \in Nat
  BY <1>2, <1>12, Multiples
<1>14. a \in LogLinear
  <2>1. CASE n <= m
    BY <1>1, <1>2, <1>10, <1>12, <1>13, <2>1, Zenon
  <2>2. CASE ~(n <= m)
    BY <1>1, <1>9, <2>2, Zenon
  <2> QED
    BY <2>1, <2>2
<1>15. a <= n
  BY <1>1, <1>2, <1>13
<1>16. ASSUME NEW b \in LogLinear PROVE b <= c \/ a <= b
  <2>1. PICK e \in s..MaxDecade : b \in Decade(e)
    BY DEF LogLinear
  <2>2. /\ b \in Nat /\ Low(e) <= b /\ b <= 10^(e + 1) /\ Low(e) \in Nat /\ 10^e <= Low(e)
        /\ 10^e \in Nat /\ 10^(e + 1) \in Nat
    BY <2>1, DecadeIs
  <2>3. e \in 0..MaxDecade + 1
    BY <1>0
  <2>4. CASE e = d
    <3>1. CASE b = l
      BY <1>0, <1>3, <3>1
    <3>2. CASE b # l
      <4>1. PICK k \in Nat \ {0} : b = f + k * w
        BY <1>2, <2>1, <2>4, <3>2
      <4>2. CASE k <= j
        BY <1>12, <4>1, <4>2
      <4>3. CASE ~(k <= j)
        <5>1. j + 1 <= k
          BY <4>3
        <5>2. (j + 1) * w <= k * w /\ k * w \in Nat
          BY <1>2, <5>1, Multiples
        <5>3. n <= b
          BY <1>2, <1>12, <1>13, <4>1, <5>2
        <5> QED
          BY <1>1, <1>13, <1>15, <2>2, <5>3
      <4> QED
        BY <4>2, <4>3
    <3> QED
      BY <3>1, <3>2
  <2>5. CASE e < d
    <3>1. 10 * 10^e <= 10^d /\ 10^(e + 1) = 10 * 10^e
      BY <1>8, <2>3, <2>5, PowerGrows, WidthIs, Zenon
    <3> QED
      BY <1>0, <1>1, <1>2, <2>2, <3>1
  <2>6. CASE d < e
    <3>1. 10 * 10^d <= 10^e
      BY <1>8, <2>3, <2>6, PowerGrows
    <3> QED
      BY <1>1, <1>2, <1>7, <2>2, <3>1
  <2>7. e < d \/ e = d \/ d < e
    BY <1>0
  <2> QED
    BY <2>4, <2>5, <2>6, <2>7, Zenon
<1>17. c < a /\ a <= Top
  BY <1>1, <1>2, <1>6
<1> QED
  BY <1>14, <1>16, <1>17 DEF a

-----------------------------------------------------------------------------
(* The inductive invariant of the bounds.                                  *)

\* The bounds that new buckets may have.
Kept == {b \in LogLinear : buckets[1].le = Inf \/ buckets[1].le <= b}

Got == {new[i].le : i \in DOMAIN new}

\* No bound from the first of the old ones up to curr was left out, and curr is
\* beyond max by one bound at most.
BoundsInv ==
    /\ curr \in LogLinear
    /\ \A b \in LogLinear : b < curr => b <= MaxBound
    /\ ~Done => Got = {b \in Kept : b < curr}
    /\ Done => /\ Got = {b \in Kept : b < curr} \cup {curr}
               /\ curr >= MaxBound /\ (curr > MaxBound \/ curr \in Kept)

LEMMA LogLinearStays ==
    ASSUME cfg' = cfg
    PROVE  LogLinear' = LogLinear
<1>1. \A d : Decade(d)' = Decade(d)
  BY DEF Decade
<1> QED
  BY <1>1 DEF LogLinear

LEMMA KeptStays ==
    ASSUME cfg' = cfg, buckets' = buckets
    PROVE  Kept' = Kept
BY LogLinearStays DEF Kept

\* Up to the next bound there are the bounds up to this one.
LEMMA Advances ==
    ASSUME TypeInv, curr \in LogLinear, curr < Top
    PROVE  /\ NextBin \in LogLinear
           /\ \A b \in LogLinear : b < NextBin <=> b <= curr
<1>1. NextBin = BinAfter(curr) /\ cfg \in Configs /\ curr \in Nat
  BY TypesAre, Zenon DEF TypeInv, NextBin, BinAfter
<1>2. /\ BinAfter(curr) \in LogLinear /\ curr < BinAfter(curr)
      /\ \A b \in LogLinear : b <= curr \/ BinAfter(curr) <= b
  BY <1>1, BinAfterNext
<1>3. \A b \in LogLinear : b \in Nat
  BY <1>1, LogLinearIs
<1>4. ASSUME NEW b \in LogLinear PROVE b < NextBin <=> b <= curr
  <2>1. b \in Nat /\ NextBin \in Nat /\ curr \in Nat /\ curr < NextBin
    BY <1>1, <1>2, <1>3, Zenon
  <2>2. b <= curr \/ NextBin <= b
    BY <1>1, <1>2
  <2> QED
    BY <2>1, <2>2
<1> QED
  BY <1>1, <1>2, <1>4

LEMMA GotAdds ==
    ASSUME TypeInv, NEW n \in Nat, new' = Append(new, Bucket(curr, n))
    PROVE  Got' = Got \cup {curr}
<1>1. curr \in 1..Top
  BY TypesAre
<1>2. /\ new' \in Seq([le : 1..Top, n : Nat])
      /\ Len(new) \in Nat /\ Len(new') = Len(new) + 1
      /\ \A i \in 1..Len(new) : new'[i] = new[i]
      /\ new'[Len(new) + 1].le = curr
  BY <1>1, AppendIs, Zenon
<1>3. DOMAIN new = 1..Len(new) /\ DOMAIN new' = 1..Len(new) + 1
  BY <1>2, TypesAre, NewIs, Zenon
<1>4. \A i : i \in 1..Len(new) + 1 <=> i \in 1..Len(new) \/ i = Len(new) + 1
  BY <1>2
<1>5. Got' = {new'[i].le : i \in 1..Len(new) + 1} /\ Got = {new[i].le : i \in 1..Len(new)}
  BY <1>3 DEF Got
<1>6. ASSUME NEW x PROVE x \in Got' <=> x \in Got \/ x = curr
  <2>1. x \in Got' <=> \E i \in 1..Len(new) + 1 : x = new'[i].le
    BY <1>5, Zenon
  <2>2. x \in Got <=> \E i \in 1..Len(new) : x = new[i].le
    BY <1>5
  <2>3. ASSUME NEW i \in 1..Len(new), x = new[i].le PROVE x \in Got'
    <3>1. i \in 1..Len(new) + 1 /\ x = new'[i].le
      BY <1>2, <1>4, <2>3
    <3> QED
      BY <2>1, <3>1
  <2>4. x = curr => x \in Got'
    <3>1. Len(new) + 1 \in 1..Len(new) + 1
      BY <1>4
    <3> QED
      BY <1>2, <2>1, <3>1, Zenon
  <2>5. ASSUME NEW i \in 1..Len(new) + 1, x = new'[i].le PROVE x \in Got \/ x = curr
    <3>1. CASE i \in 1..Len(new)
      <4>1. x = new[i].le
        BY <1>2, <2>5, <3>1
      <4> QED
        BY <2>2, <3>1, <4>1
    <3>2. CASE i = Len(new) + 1
      BY <1>2, <2>5, <3>2
    <3> QED
      BY <1>4, <3>1, <3>2
  <2> QED
    BY <2>1, <2>2, <2>3, <2>4, <2>5
<1> QED
  BY <1>6

\* A bin that is added while there are buckets left, at or below max.
LEMMA BoundsAdd ==
    ASSUME TypeInv, BoundsInv, ~Done, at' = at, curr < Top, curr <= MaxBound, curr \in Kept,
           UNCHANGED <<cfg, buckets, first>>, curr' = NextBin,
           NEW n \in Nat, new' = Append(new, Bucket(curr, n))
    PROVE  BoundsInv'
<1>1. curr \in LogLinear /\ curr \in Nat /\ MaxBound \in Nat
  BY TypesAre, Zenon DEF BoundsInv
<1>2. NextBin \in LogLinear /\ \A b \in LogLinear : b < NextBin <=> b <= curr
  BY <1>1, Advances
<1>3. LogLinear' = LogLinear /\ Kept' = Kept /\ MaxBound' = MaxBound /\ ~Done'
  BY LogLinearStays, KeptStays, MaxBoundStays DEF Done
<1>4. Got' = {b \in Kept : b < curr} \cup {curr}
  BY GotAdds, Zenon DEF BoundsInv
<1>5. \A b \in LogLinear : b \in Nat
  BY LogLinearIs DEF TypeInv
<1>6. \A b \in LogLinear : b < curr' => b <= MaxBound
  BY <1>1, <1>2, <1>5
<1>7. {b \in Kept : b < curr'} = {b \in Kept : b < curr} \cup {curr}
  <2>1. \A b \in Kept : b \in LogLinear
    BY Zenon DEF Kept
  <2>2. \A b \in Kept : b < curr' <=> b < curr \/ b = curr
    BY <1>1, <1>2, <1>5, <2>1
  <2> QED
    BY <2>2
<1> QED
  BY <1>2, <1>3, <1>4, <1>6, <1>7, Zenon DEF BoundsInv

\* Past the first of the old buckets, bounds are kept.
LEMMA PastFirst ==
    ASSUME TypeInv, PlaceInv, curr \in LogLinear, curr <= MaxBound, at > 1
    PROVE  curr \in Kept
<1>1. curr \in Nat /\ MaxBound \in Nat /\ Len(buckets) \in Nat /\ Len(buckets) >= 1
      /\ at \in Nat
  BY TypesAre, OldIs
<1>2. CASE Len(buckets) = 1
  <2>1. buckets[1].le = Inf
    BY <1>1, <1>2, OldIs
  <2> QED
    BY <2>1 DEF Kept
<1>3. CASE Len(buckets) > 1
  <2>1. 1 \in 1..Len(buckets) - 1 /\ 1 < at
    BY <1>1, <1>3
  <2>2. buckets[1].le <= curr \/ MaxBound < curr
    BY <2>1 DEF PlaceInv
  <2>3. buckets[1].le <= curr
    BY <1>1, <2>2
  <2> QED
    BY <2>3, Zenon DEF Kept
<1>4. Len(buckets) = 1 \/ Len(buckets) > 1
  <2>1. Len(buckets) \in Nat \ {0}
    BY OldIs
  <2>2. \A x \in Nat \ {0} : x = 1 \/ x > 1
    OBVIOUS
  <2> QED
    BY <2>1, <2>2, Zenon
<1> QED
  BY <1>2, <1>3, <1>4

LEMMA BoundsStep ==
    ASSUME HistogramInv, BoundsInv, [Next]_vars
    PROVE  BoundsInv'
<1>0. TypeInv /\ PlaceInv /\ CountInv /\ Bracketed /\ cfg \in Configs
  BY Zenon DEF HistogramInv, TypeInv
<1>1. curr \in LogLinear /\ curr \in Nat /\ MaxBound \in Nat /\ Top \in Nat
      /\ \A b \in LogLinear : b \in Nat
  BY <1>0, TypesAre, LogLinearIs DEF BoundsInv
<1>2. CASE SkipBin
  <2>1. /\ new = <<>> /\ at = 1 /\ UNCHANGED <<cfg, buckets, at, new, first>> /\ curr' = NextBin
        /\ ~Done
    BY <1>0, <1>2, TypesAre DEF SkipBin, PlaceInv, Done, Below
  <2>2. 1 \in 1..Len(buckets) - 1 /\ curr < buckets[1].le /\ buckets[1].le # Inf /\ curr <= MaxBound
    BY <1>0, <1>2, <2>1, OldIs, TypesAre DEF SkipBin, Below, le
  <2>3. buckets[1].le \in Nat /\ buckets[1].le \in 1..Top
    BY <1>0, <2>2, TypesAre, OldIs, Zenon
  <2>4. curr < Top
    BY <1>1, <2>2, <2>3
  <2>5. NextBin \in LogLinear /\ \A b \in LogLinear : b < NextBin <=> b <= curr
    BY <1>0, <1>1, <2>4, Advances
  <2>6. LogLinear' = LogLinear /\ Kept' = Kept /\ MaxBound' = MaxBound /\ ~Done'
    BY <2>1, LogLinearStays, KeptStays, MaxBoundStays DEF Done
  <2>7. Got' = {}
    BY <2>1 DEF Got
  <2>8. \A b \in Kept : b \in LogLinear /\ buckets[1].le <= b
    BY <2>2 DEF Kept
  <2>9. ASSUME NEW b \in Kept, b < NextBin PROVE FALSE
    <3>1. b \in LogLinear /\ b \in Nat /\ buckets[1].le <= b
      BY <1>1, <2>8, Zenon
    <3>2. b <= curr
      BY <2>5, <2>9, <3>1
    <3> QED
      BY <1>1, <2>2, <2>3, <3>1, <3>2
  <2>10. \A b \in LogLinear : b < NextBin => b <= MaxBound
    BY <1>1, <2>2, <2>5
  <2> QED
    BY <2>1, <2>5, <2>6, <2>7, <2>9, <2>10, Zenon DEF BoundsInv
<1>3. CASE AddBin
  <2>1. Below /\ at > 1
    BY <1>3, Zenon DEF AddBin
  <2>2. at \in 2..Len(buckets) - 1 /\ curr < Top /\ curr <= MaxBound /\ Count = CountAt(at, curr)
        /\ buckets[at - 1].le <= curr /\ curr < buckets[at].le
    BY <1>0, <2>1, CountIs
  <2>3. Count \in Nat
    <3>1. curr <= buckets[at].le
      <4>1. buckets[at].le \in Nat
        BY <1>0, <2>2, TypesAre
      <4> QED
        BY <1>1, <2>2, <4>1
    <3> QED
      BY <1>0, <1>1, <2>2, <3>1, CountAtIs, Zenon
  <2>4. ~Done
    BY <1>0, <2>2, TypesAre DEF Done
  <2>5. curr \in Kept
    BY <1>0, <1>1, <2>1, <2>2, PastFirst, Zenon
  <2> QED
    BY <1>0, <1>3, <2>2, <2>3, <2>4, <2>5, BoundsAdd, Zenon DEF AddBin
<1>4. CASE NextBucket
  <2>1. UNCHANGED <<cfg, buckets, curr, new, first>> /\ at' = at + 1
    BY <1>4, Zenon DEF NextBucket
  <2>2. ~Done /\ ~Done'
    BY <1>0, <1>4, <2>1, OldIs, TypesAre DEF NextBucket, Done, le
  <2> QED
    BY <2>1, <2>2, LogLinearStays, KeptStays, MaxBoundStays, Zenon DEF BoundsInv, Got
<1>5. CASE AddTail
  <2>1. /\ at = Len(buckets) /\ ~Done /\ buckets[at].n \in Nat /\ at > 1 /\ curr < Top
    BY <1>5, TailAdds, Zenon DEF AddTail
  <2>2. curr <= MaxBound
    BY <1>1, <1>5 DEF AddTail
  <2>3. curr \in Kept
    BY <1>0, <1>1, <2>1, <2>2, PastFirst, Zenon
  <2> QED
    BY <1>0, <1>5, <2>1, <2>2, <2>3, BoundsAdd, Zenon DEF AddTail
<1>6. CASE AddLast
  <2>1. at = Len(buckets) /\ ~Done /\ buckets[at].n \in Nat
    BY <1>6, TailAdds, Zenon DEF AddLast
  <2>2. /\ UNCHANGED <<cfg, buckets, curr, first>> /\ at' = at + 1 /\ curr >= MaxBound
        /\ new' = Append(new, Bucket(curr, buckets[at].n))
    BY <1>6 DEF AddLast
  <2>3. Got' = {b \in Kept : b < curr} \cup {curr}
    BY <1>0, <2>1, <2>2, GotAdds DEF BoundsInv
  <2>4. LogLinear' = LogLinear /\ Kept' = Kept /\ MaxBound' = MaxBound /\ Done'
    BY <1>0, <2>1, <2>2, LogLinearStays, KeptStays, MaxBoundStays, TypesAre DEF Done
  <2>5. curr > MaxBound \/ curr \in Kept
    <3>1. CASE curr > MaxBound
      BY <3>1
    <3>2. CASE ~(curr > MaxBound)
      <4>1. curr <= MaxBound
        BY <1>1, <3>2
      <4>2. CASE at > 1
        BY <1>0, <1>1, <4>1, <4>2, PastFirst
      <4>3. CASE ~(at > 1)
        <5>1. at = 1
          BY <1>0, <4>3, TypesAre
        <5>2. buckets[1].le = Inf
          BY <1>6, <5>1 DEF AddLast, le
        <5> QED
          BY <1>1, <5>2 DEF Kept
      <4> QED
        BY <4>2, <4>3
    <3> QED
      BY <3>1, <3>2, Zenon
  <2> QED
    BY <2>2, <2>3, <2>4, <2>5, Zenon DEF BoundsInv
<1>7. CASE Again
  <2>1. cfg' = cfg /\ curr' = cfg.start /\ new' = <<>> /\ at' = 1
    BY <1>7, Zenon DEF Again
  <2>2. LogLinear' = LogLinear
    BY <2>1, LogLinearStays
  <2>3. cfg.start \in LogLinear /\ \A b \in LogLinear : ~(b < cfg.start)
    <3>1. cfg.start \in LogLinear /\ \A b \in LogLinear : b \in Nat /\ cfg.start <= b
      BY <1>0, LogLinearIs
    <3> QED
      BY <3>1
  <2>4. Got' = {}
    BY <2>1 DEF Got
  <2>5. \A b \in Kept' : ~(b < cfg.start)
    BY <2>2, <2>3 DEF Kept
  <2>6. ~Done'
    <3>1. Len(buckets') = Len(new) + 1 /\ Len(new) \in Nat
      <4>1. buckets' = Append(new, Bucket(Inf, buckets[Len(buckets)].n))
        BY <1>7 DEF Again
      <4>2. new \in Seq([le : 1..Top, n : Nat]) /\ Len(new) \in Nat
        BY <1>0, TypesAre DEF TypeInv
      <4> QED
        BY <4>1, <4>2
    <3> QED
      BY <2>1, <3>1 DEF Done
  <2> QED
    BY <2>1, <2>2, <2>3, <2>4, <2>5, <2>6 DEF BoundsInv
<1>8. CASE UNCHANGED vars
  <2>1. UNCHANGED <<cfg, buckets, at, curr, new, first>>
    BY <1>8 DEF vars
  <2> QED
    BY <2>1, LogLinearStays, KeptStays, MaxBoundStays DEF BoundsInv, Got, Done
<1> QED
  BY <1>2, <1>3, <1>4, <1>5, <1>6, <1>7, <1>8 DEF Next

LEMMA BoundsInit ==
    ASSUME Init
    PROVE  BoundsInv
<1>1. curr = cfg.start /\ new = <<>> /\ at = 1 /\ cfg \in Configs
  BY DEF Init
<1>2. cfg.start \in LogLinear /\ \A b \in LogLinear : b \in Nat /\ cfg.start <= b
  BY <1>1, LogLinearIs
<1>3. \A b \in LogLinear : ~(b < cfg.start)
  BY <1>2
<1>4. Got = {} /\ {b \in Kept : b < curr} = {}
  BY <1>1, <1>3 DEF Got, Kept
<1>5. ~Done
  BY <1>1, HistogramInit, OldIs DEF HistogramInv, Done
<1> QED
  BY <1>1, <1>2, <1>3, <1>4, <1>5 DEF BoundsInv

LEMMA BoundsInvariant == Spec => []BoundsInv
<1>1. Init => BoundsInv
  BY BoundsInit
<1>2. HistogramInv /\ BoundsInv /\ [Next]_vars => BoundsInv'
  BY BoundsStep
<1> QED
  BY <1>1, <1>2, HistogramInvariant, PTL DEF Spec

\* The walk goes past a max that is a bound only inside of an old bucket.
PastInv ==
    MaxBound \in LogLinear /\ curr > MaxBound =>
        \E i \in Finite(buckets) : MaxBound < buckets[i].le

\* From a bound at or below max, the next bound is past max only from max itself.
LEMMA PastMax ==
    ASSUME TypeInv, curr \in LogLinear, curr < Top, curr <= MaxBound,
           MaxBound \in LogLinear, NextBin > MaxBound
    PROVE  curr = MaxBound
<1>1. curr \in Nat /\ MaxBound \in Nat
  BY TypesAre
<1>2. \A b \in LogLinear : b < NextBin <=> b <= curr
  BY Advances
<1>3. NextBin \in LogLinear /\ NextBin \in Nat
  BY Advances, LogLinearIs, Zenon DEF TypeInv
<1>4. MaxBound <= curr
  BY <1>1, <1>2, <1>3
<1> QED
  BY <1>1, <1>4

LEMMA PastStep ==
    ASSUME HistogramInv, BoundsInv, PastInv, [Next]_vars
    PROVE  PastInv'
<1>0. TypeInv /\ PlaceInv /\ cfg \in Configs /\ curr \in LogLinear
  BY Zenon DEF HistogramInv, TypeInv, BoundsInv
<1>1. curr \in Nat /\ MaxBound \in Nat /\ Top \in Nat
  BY <1>0, TypesAre
<1>2. CASE SkipBin \/ AddBin
  <2>1. Below /\ curr' = NextBin /\ UNCHANGED <<cfg, buckets>>
    BY <1>2 DEF SkipBin, AddBin
  <2>2. at \in 1..Len(buckets) - 1 /\ curr < buckets[at].le /\ curr <= MaxBound
    BY <1>0, <2>1, OldIs, TypesAre DEF Below, le
  <2>3. buckets[at].le \in 1..Top /\ buckets[at].le \in Nat /\ at \in Finite(buckets)
    BY <1>0, <2>2, OldIs, TypesAre, Zenon
  <2>4. curr < Top
    BY <1>1, <2>2, <2>3
  <2>5. MaxBound \in LogLinear /\ NextBin > MaxBound => curr = MaxBound
    BY <1>0, <2>2, <2>4, PastMax
  <2>6. LogLinear' = LogLinear /\ MaxBound' = MaxBound /\ Finite(buckets)' = Finite(buckets)
    BY <2>1, LogLinearStays, MaxBoundStays DEF Finite
  <2> QED
    BY <2>1, <2>2, <2>3, <2>5, <2>6, Zenon DEF PastInv
<1>3. CASE AddTail
  <2>1. curr < Top
    BY <1>3, TailAdds, Zenon DEF AddTail
  <2>2. curr < MaxBound /\ curr' = NextBin /\ UNCHANGED <<cfg, buckets>>
    BY <1>3 DEF AddTail
  <2>3. ~(MaxBound \in LogLinear /\ NextBin > MaxBound)
    BY <1>0, <1>1, <2>1, <2>2, PastMax
  <2>4. LogLinear' = LogLinear /\ MaxBound' = MaxBound
    BY <2>2, LogLinearStays, MaxBoundStays
  <2> QED
    BY <2>2, <2>3, <2>4, Zenon DEF PastInv
<1>4. CASE NextBucket \/ AddLast \/ UNCHANGED vars
  <2>1. UNCHANGED <<cfg, buckets, curr>>
    BY <1>4 DEF NextBucket, AddLast, vars
  <2>2. LogLinear' = LogLinear /\ MaxBound' = MaxBound /\ Finite(buckets)' = Finite(buckets)
    BY <2>1, LogLinearStays, MaxBoundStays DEF Finite
  <2> QED
    BY <2>1, <2>2, Zenon DEF PastInv
<1>5. CASE Again
  <2>1. cfg' = cfg /\ curr' = cfg.start
    BY <1>5, Zenon DEF Again
  <2>2. LogLinear' = LogLinear
    BY <2>1, LogLinearStays
  <2>3. \A b \in LogLinear : ~(cfg.start > b)
    <3>1. cfg.start \in LogLinear /\ \A b \in LogLinear : b \in Nat /\ cfg.start <= b
      BY <1>0, LogLinearIs
    <3> QED
      BY <3>1
  <2> QED
    BY <2>1, <2>2, <2>3, Zenon DEF PastInv
<1> QED
  BY <1>2, <1>3, <1>4, <1>5 DEF Next

LEMMA PastInvariant == Spec => []PastInv
<1>1. Init => PastInv
  <2> SUFFICES ASSUME Init PROVE PastInv
    OBVIOUS
  <2>1. curr = cfg.start /\ cfg \in Configs
    BY DEF Init
  <2>2. cfg.start \in LogLinear /\ \A b \in LogLinear : b \in Nat /\ cfg.start <= b
    BY <2>1, LogLinearIs
  <2>3. \A b \in LogLinear : ~(cfg.start > b)
    BY <2>2
  <2> QED
    BY <2>1, <2>3, Zenon DEF PastInv
<1>2. HistogramInv /\ BoundsInv /\ PastInv /\ [Next]_vars => PastInv'
  BY PastStep, Zenon
<1> QED
  BY <1>1, <1>2, HistogramInvariant, BoundsInvariant, PTL DEF Spec

\* A max that is a bound and below an old bound is an end that cuts off.
LEMMA PastIsCut ==
    ASSUME TypeInv, MaxBound \in LogLinear, NEW i \in Finite(buckets), MaxBound < buckets[i].le
    PROVE  Cut
<1>0. Finite(buckets) = 1..Len(buckets) - 1
  BY OldIs, Zenon
<1>1. MaxBound \in Nat /\ Len(buckets) \in Nat
  BY TypesAre, Zenon
<1>2. i \in 1..Len(buckets) - 1
  BY <1>0
<1>3. ~(Len(buckets) < 2)
  BY <1>1, <1>2
<1>4. CASE cfg.end > 0
  <2>1. MaxBound = cfg.end
    BY <1>3, <1>4 DEF MaxBound
  <2> QED
    BY <2>1 DEF Cut
<1>5. CASE ~(cfg.end > 0)
  <2> DEFINE S == {buckets[j].le : j \in Finite(buckets)} \cup {0}
             p == Len(buckets) - 1
  <2>1. MaxBound = Max(S)
    BY <1>3, <1>5 DEF MaxBound
  <2>2. p \in 1..p /\ Finite(buckets) = 1..p /\ p \in Nat
    BY <1>0, <1>1, <1>2
  <2>3. buckets[p].le \in S /\ buckets[i].le \in S /\ buckets[i].le \in Nat
    BY <1>2, <2>2, TypesAre, Zenon
  <2>4. \A j \in 1..p : buckets[j].le <= buckets[p].le /\ buckets[j].le \in Nat
    <3>1. \A j \in 1..p : buckets[j].le \in Nat
      BY TypesAre, Zenon
    <3>2. \A j, k \in 1..p : j < k => buckets[j].le < buckets[k].le
      BY OldIs, Zenon
    <3>3. \A j \in 1..p : j = p \/ j < p
      BY <2>2
    <3> QED
      BY <2>2, <3>1, <3>2, <3>3
  <2>5. \A y \in S : buckets[p].le >= y
    BY <2>2, <2>4
  <2>6. \A y \in S : Max(S) >= y
    <3> HIDE DEF S, p
    <3> QED
      BY <2>3, <2>5 DEF Max
  <2>7. MaxBound >= buckets[i].le
    BY <2>1, <2>3, <2>6, Zenon
  <2> QED
    BY <1>1, <2>3, <2>7
<1> QED
  BY <1>4, <1>5

(***************************************************************************)
(* For every number of bins, start and end, and all old bounds, nextBin's  *)
(* walk over the old buckets keeps the bounds of the log-10 linear         *)
(* histogram up to max and no others, without a gap at a seam, a decade's  *)
(* or an old bucket's.  Past max there is the next bound if max is none,   *)
(* and no bound if it is one, but for an end that cuts the histogram off,  *)
(* where the theorem leaves open whether there is one more.                *)
(***************************************************************************)
THEOREM BoundsCorrect == Spec => []BoundsComplete
<1>1. HistogramInv /\ BoundsInv /\ PastInv => BoundsComplete
  <2> DEFINE kept == {b \in LogLinear : /\ buckets[1].le = Inf \/ buckets[1].le <= b
                                        /\ b <= MaxBound}
             S    == {b \in LogLinear : b > MaxBound}
  <2> SUFFICES ASSUME HistogramInv, BoundsInv, PastInv, Done
               PROVE  /\ {b \in Got : b <= MaxBound} = kept
                      /\ ~Cut => Got \ kept = IF MaxBound \in LogLinear THEN {} ELSE {Min(S)}
    BY Zenon DEF BoundsComplete, Got
  <2>1. /\ curr \in LogLinear /\ curr \in Nat /\ MaxBound \in Nat /\ curr >= MaxBound
        /\ \A b \in LogLinear : b \in Nat /\ (b < curr => b <= MaxBound)
    BY TypesAre, LogLinearIs DEF HistogramInv, TypeInv, BoundsInv
  <2>2. Got = {b \in Kept : b < curr} \cup {curr} /\ (curr > MaxBound \/ curr \in Kept)
    BY DEF BoundsInv
  <2>3. kept = {b \in Kept : b <= MaxBound} /\ \A b \in Kept : b \in LogLinear
    BY DEF Kept
  <2>4. \A b \in kept : b <= MaxBound
    OBVIOUS
  <2>5. CASE curr = MaxBound
    <3>1. curr \in Kept
      BY <2>1, <2>2, <2>5
    <3>2. ASSUME NEW b \in Kept PROVE b <= MaxBound <=> b < curr \/ b = curr
      <4>1. b \in Nat /\ curr \in Nat
        BY <2>1, <2>3, Zenon
      <4> QED
        BY <2>5, <4>1
    <3> HIDE DEF kept, S
    <3>3. Got = kept
      BY <2>2, <2>3, <3>1, <3>2
    <3>4. MaxBound \in LogLinear
      BY <2>1, <2>5
    <3> QED
      BY <2>4, <3>3, <3>4
  <2>6. CASE curr # MaxBound
    <3>0. curr > MaxBound /\ ~(curr <= MaxBound)
      BY <2>1, <2>6
    <3>1. curr \in S /\ \A b \in S : curr <= b
      BY <2>1, <2>6
    <3>2. \A b \in S : b \in Nat
      BY <2>1
    <3>3. Min(S) = curr
      <4> HIDE DEF S
      <4>1. Min(S) \in S /\ \A b \in S : Min(S) <= b
        BY <3>1 DEF Min
      <4>2. Min(S) \in Nat /\ curr <= Min(S) /\ Min(S) <= curr /\ curr \in Nat
        BY <2>1, <3>1, <3>2, <4>1, Zenon
      <4> QED
        BY <4>2
    <3>4. ASSUME NEW b \in Kept PROVE b <= MaxBound <=> b < curr
      <4>1. b \in Nat /\ (b < curr => b <= MaxBound)
        BY <2>1, <2>3, Zenon
      <4>2. curr \in Nat /\ MaxBound \in Nat /\ MaxBound < curr
        BY <2>1, <2>6
      <4> QED
        BY <4>1, <4>2
    <3>5. ~Cut => MaxBound \notin LogLinear
      BY <3>0, PastIsCut, Zenon DEF PastInv, HistogramInv
    <3> HIDE DEF kept, S
    <3>6. Got = kept \cup {curr}
      BY <2>2, <2>3, <3>4
    <3>7. {b \in Got : b <= MaxBound} = kept /\ Got \ kept = {curr}
      BY <2>4, <3>0, <3>6, Zenon
    <3> QED
      BY <3>3, <3>5, <3>7
  <2> QED
    BY <2>5, <2>6, Zenon
<1> QED
  BY <1>1, HistogramInvariant, BoundsInvariant, PastInvariant, PTL

-----------------------------------------------------------------------------
(* The inductive invariant of the second translation.                      *)

\* A sequence of new buckets leaves no bound out.
Chain(s) ==
    /\ \A i \in 1..Len(s) : s[i].le \in LogLinear
    /\ \A i \in 1..Len(s) - 1 : s[i + 1].le = BinAfter(s[i].le)

ChainInv ==
    /\ Chain(new)
    /\ ~Done /\ new # <<>> => curr = BinAfter(new[Len(new)].le)
    /\ Done => /\ new # <<>> /\ curr = new[Len(new)].le
               /\ new[Len(new)].n = buckets[Len(buckets)].n

\* What the second translation starts from.
FirstInv ==
    first # <<>> =>
        /\ Chain(first) /\ first \in Seq([le : 1..Top, n : Nat])
        /\ buckets = Append(first, Bucket(Inf, first[Len(first)].n))
        /\ MaxBound <= first[Len(first)].le
        /\ \A b \in LogLinear : b < first[Len(first)].le => b <= MaxBound

\* Where it is: it adds a bucket, and goes on to the next.
SecondInv ==
    first # <<>> =>
        /\ at = 1 => curr <= first[1].le
        /\ at \in 2..Len(first) + 1 =>
             \/ Len(new) = at - 2 /\ curr = first[at - 1].le
             \/ Len(new) = at - 1 /\ at <= Len(first) /\ curr = first[at].le
        /\ Done => Len(new) = Len(first)
        /\ \A i \in 1..Len(new) : new[i] = first[i]

LEMMA ChainPrime ==
    ASSUME cfg' = cfg
    PROVE  /\ Chain(new)' <=>
                /\ \A i \in 1..Len(new') : new'[i].le \in LogLinear
                /\ \A i \in 1..Len(new') - 1 : new'[i + 1].le = BinAfter(new'[i].le)
           /\ BinAfter(new[Len(new)].le)' = BinAfter(new'[Len(new')].le)
           /\ first' = first => (Chain(first)' <=> Chain(first))
           /\ first' = new => (Chain(first)' <=> Chain(new))
BY LogLinearStays, ZenonT(40) DEF Chain, BinAfter, After

LEMMA ChainAdd ==
    ASSUME TypeInv, ChainInv, ~Done, curr \in LogLinear, cfg' = cfg,
           NEW n \in Nat, new' = Append(new, Bucket(curr, n))
    PROVE  /\ Chain(new)' /\ new' # <<>> /\ Len(new) \in Nat /\ Len(new') = Len(new) + 1
           /\ new'[Len(new')].le = curr /\ new'[Len(new')].n = n
           /\ \A i \in 1..Len(new) : new'[i] = new[i]
<1>1. /\ Len(new) \in Nat /\ Len(new') = Len(new) + 1
      /\ \A i \in 1..Len(new) : new'[i] = new[i]
      /\ new'[Len(new) + 1].le = curr /\ new'[Len(new) + 1].n = n
  <2>1. curr \in 1..Top
    BY TypesAre, Zenon
  <2> QED
    BY <2>1, AppendIs, Zenon
<1>2. ASSUME NEW i \in 1..Len(new') PROVE new'[i].le \in LogLinear
  <2>1. CASE i \in 1..Len(new)
    BY <1>1, <2>1, Zenon DEF ChainInv, Chain
  <2>2. CASE i = Len(new) + 1
    BY <1>1, <2>2
  <2>3. i \in 1..Len(new) \/ i = Len(new) + 1
    BY <1>1
  <2> QED
    BY <2>1, <2>2, <2>3
<1>3. ASSUME NEW i \in 1..Len(new') - 1 PROVE new'[i + 1].le = BinAfter(new'[i].le)
  <2>1. i \in 1..Len(new) /\ new'[i] = new[i]
    BY <1>1
  <2>2. CASE i = Len(new)
    <3>1. Len(new) # 0
      BY <1>1, <2>1
    <3>2. new # <<>>
      BY <3>1
    <3>3. curr = BinAfter(new[i].le)
      BY <2>2, <3>2 DEF ChainInv
    <3> QED
      BY <1>1, <2>1, <2>2, <3>3, Zenon
  <2>3. CASE i # Len(new)
    <3>1. i \in 1..Len(new) - 1 /\ i + 1 \in 1..Len(new)
      BY <1>1, <2>1, <2>3
    <3>2. new[i + 1].le = BinAfter(new[i].le)
      BY <3>1, Zenon DEF ChainInv, Chain
    <3> QED
      BY <1>1, <2>1, <3>1, <3>2, Zenon
  <2> QED
    BY <2>2, <2>3
<1>4. Len(new') # 0
  BY <1>1
<1>5. new' # <<>>
  BY <1>4
<1> QED
  BY <1>1, <1>2, <1>3, <1>5, ChainPrime, Zenon

LEMMA ChainStep ==
    ASSUME HistogramInv, BoundsInv, ChainInv, [Next]_vars
    PROVE  ChainInv'
<1>0. TypeInv /\ PlaceInv /\ curr \in LogLinear
  BY Zenon DEF HistogramInv, BoundsInv
\* A bin that is added before the last.
<1>1. ASSUME ~Done, UNCHANGED <<cfg, buckets, at, first>>, curr' = NextBin,
             NEW n \in Nat, new' = Append(new, Bucket(curr, n))
      PROVE  ChainInv'
  <2>1. Chain(new)' /\ new'[Len(new')].le = curr
    BY <1>0, <1>1, ChainAdd, Zenon
  <2>2. curr' = BinAfter(new'[Len(new')].le)
    BY <1>1, <2>1 DEF NextBin, BinAfter
  <2>3. ~Done'
    BY <1>1 DEF Done
  <2> QED
    BY <1>1, <2>1, <2>2, <2>3, ChainPrime DEF ChainInv
<1>2. CASE SkipBin
  <2>1. new = <<>> /\ new' = <<>> /\ cfg' = cfg /\ ~Done'
    BY <1>0, <1>2, TypesAre DEF SkipBin, PlaceInv, Done, Below
  <2>2. Chain(new)'
    BY <2>1 DEF Chain
  <2> QED
    BY <2>1, <2>2 DEF ChainInv
<1>3. CASE AddBin
  <2>1. Below /\ at > 1 /\ ~Done
    BY <1>0, <1>3, TypesAre DEF AddBin, Below, Done
  <2>2. /\ at \in 2..Len(buckets) - 1 /\ Count = CountAt(at, curr) /\ curr \in Nat
        /\ buckets[at - 1].le <= curr /\ curr < buckets[at].le
    BY <1>0, <2>1, CountIs, Zenon
  <2>3. Count \in Nat
    <3>1. curr <= buckets[at].le
      <4>1. buckets[at].le \in Nat
        BY <1>0, <2>2, TypesAre
      <4> QED
        BY <2>2, <4>1
    <3> QED
      BY <1>0, <2>2, <3>1, CountAtIs, Zenon
  <2> QED
    BY <1>1, <1>3, <2>1, <2>3 DEF AddBin
<1>4. CASE NextBucket
  <2>1. UNCHANGED <<cfg, buckets, curr, new, first>> /\ at' = at + 1
    BY <1>4 DEF NextBucket
  <2>2. ~Done /\ ~Done'
    BY <1>0, <1>4, <2>1, OldIs, TypesAre, SMTT(30) DEF NextBucket, Done, le
  <2> QED
    BY <2>1, <2>2, ChainPrime, Zenon DEF ChainInv, Chain
<1>5. CASE AddTail
  <2>1. ~Done /\ buckets[at].n \in Nat
    BY <1>5, TailAdds, Zenon DEF AddTail
  <2> QED
    BY <1>1, <1>5, <2>1, Zenon DEF AddTail
<1>6. CASE AddLast
  <2>1. at = Len(buckets) /\ ~Done /\ buckets[at].n \in Nat
    BY <1>6, TailAdds, Zenon DEF AddLast
  <2>2. /\ UNCHANGED <<cfg, buckets, curr, first>> /\ at' = at + 1
        /\ new' = Append(new, Bucket(curr, buckets[at].n))
    BY <1>6, Zenon DEF AddLast
  <2>3. /\ Chain(new)' /\ new' # <<>> /\ new'[Len(new')].le = curr
        /\ new'[Len(new')].n = buckets[at].n
    BY <1>0, <2>1, <2>2, ChainAdd, Zenon
  <2>4. Done'
    BY <1>0, <2>1, <2>2, TypesAre DEF Done
  <2> QED
    BY <2>1, <2>2, <2>3, <2>4, Zenon DEF ChainInv
<1>7. CASE Again
  <2>1. new' = <<>> /\ cfg' = cfg /\ at' = 1
    BY <1>7, Zenon DEF Again
  <2>2. Chain(new)'
    BY <2>1 DEF Chain
  <2>3. ~Done'
    <3>1. TypeInv'
      BY HistogramStep DEF HistogramInv
    <3>2. buckets' # <<>> /\ buckets' \in Seq([le : 1..Top' \cup {Inf}, n : Nat])
      BY <3>1 DEF TypeInv, Sorted
    <3>3. Len(buckets') \in Nat /\ Len(buckets') # 0
      BY <3>2
    <3> QED
      BY <2>1, <3>3 DEF Done
  <2> QED
    BY <2>1, <2>2, <2>3, Zenon DEF ChainInv
<1>8. CASE UNCHANGED vars
  <2>1. UNCHANGED <<cfg, buckets, at, curr, new, first>>
    BY <1>8 DEF vars
  <2> QED
    BY <2>1, ChainPrime, Zenon DEF ChainInv, Chain, Done
<1> QED
  BY <1>2, <1>3, <1>4, <1>5, <1>6, <1>7, <1>8 DEF Next

\* The range that is covered by default ends with the last of the old bounds.
LEMMA DefaultRange ==
    TypeInv /\ ~(Len(buckets) < 2) /\ ~(cfg.end > 0)
      => MaxBound = buckets[Len(buckets) - 1].le
<1> SUFFICES ASSUME TypeInv, ~(Len(buckets) < 2), ~(cfg.end > 0)
             PROVE  MaxBound = buckets[Len(buckets) - 1].le
  OBVIOUS
<1> DEFINE S == {buckets[i].le : i \in Finite(buckets)} \cup {0}
           p == Len(buckets) - 1
<1>1. Len(buckets) \in Nat /\ p \in 1..p /\ Finite(buckets) = 1..p
  BY OldIs
<1>2. \A i \in 1..p : buckets[i].le \in Nat
  BY TypesAre
<1>3. \A x \in S : x \in Nat
  BY <1>1, <1>2
<1>4. buckets[p].le \in S
  BY <1>1
<1>5. \A i \in 1..p : buckets[i].le <= buckets[p].le
  <2>1. \A i \in 1..p : i <= p
    BY <1>1
  <2> QED
    BY <1>1, <2>1, OldOrder
<1>6. \A y \in S : buckets[p].le >= y
  <2>1. buckets[p].le \in Nat
    BY <1>1, <1>2, Zenon
  <2>2. ASSUME NEW i \in 1..p PROVE buckets[p].le >= buckets[i].le
    BY <1>2, <1>5, <2>1
  <2> QED
    BY <1>1, <2>1, <2>2
<1>7. MaxBound = Max(S)
  BY Zenon DEF MaxBound
<1> HIDE DEF S, p
<1>8. Max(S) \in S /\ \A y \in S : Max(S) >= y
  BY <1>4, <1>6 DEF Max
<1>9. Max(S) \in Nat /\ buckets[p].le \in Nat /\ Max(S) >= buckets[p].le /\ buckets[p].le >= Max(S)
  BY <1>3, <1>4, <1>6, <1>8
<1>10. Max(S) = buckets[p].le
  BY <1>9
<1> QED
  BY <1>7, <1>10 DEF p

LEMMA FirstStep ==
    ASSUME HistogramInv, BoundsInv, ChainInv, FirstInv, [Next]_vars
    PROVE  FirstInv'
<1>0. TypeInv /\ PlaceInv
  BY DEF HistogramInv
<1>1. ASSUME UNCHANGED <<cfg, buckets, first>> PROVE FirstInv'
  <2>1. LogLinear' = LogLinear /\ MaxBound' = MaxBound /\ (Chain(first)' <=> Chain(first))
    BY <1>1, LogLinearStays, MaxBoundStays, ChainPrime, Zenon
  <2> QED
    BY <1>1, <2>1, Zenon DEF FirstInv, Bucket, Top
<1>2. CASE Again
  <2> DEFINE K == Len(new)
             N == buckets[Len(buckets)].n
  <2>1. /\ Done /\ first' = new /\ cfg' = cfg /\ buckets' = Append(new, Bucket(Inf, N))
        /\ ~(Len(buckets) < 2)
    <3>1. Len(buckets) > 1 /\ Len(buckets) \in Nat
      BY <1>0, <1>2, TypesAre, Zenon DEF Again
    <3> QED
      BY <1>2, <3>1 DEF Again
  <2>2. new # <<>> /\ curr = new[K].le /\ new[K].n = N /\ Chain(new)
    BY <2>1 DEF ChainInv
  <2>3. curr >= MaxBound /\ \A b \in LogLinear : b < curr => b <= MaxBound
    BY <2>1 DEF BoundsInv
  <2>4. new \in Seq([le : 1..Top, n : Nat]) /\ K \in Nat
    BY <1>0, TypesAre, Zenon DEF TypeInv
  <2>5. K # 0
    BY <2>2, <2>4
  <2>6. Len(buckets') = K + 1 /\ \A i \in 1..K : buckets'[i] = new[i]
    BY <2>1, <2>4
  <2>7. LogLinear' = LogLinear /\ (Chain(first)' <=> Chain(new))
    BY <2>1, LogLinearStays, ChainPrime
  <2>8. MaxBound' <= new[K].le /\ \A b \in LogLinear : b < new[K].le => b <= MaxBound'
    <3>1. new[K].le \in Nat /\ K \in 1..K
      BY <1>0, <2>4, <2>5, TypesAre
    <3>2. ~(Len(buckets') < 2)
      BY <2>4, <2>5, <2>6
    <3>3. CASE cfg.end > 0
      <4>1. MaxBound' = cfg.end /\ MaxBound = cfg.end
        BY <2>1, <3>2, <3>3, Zenon DEF MaxBound
      <4>2. MaxBound' = MaxBound /\ MaxBound \in Nat
        BY <1>0, <4>1, TypesAre, Zenon
      <4> QED
        BY <2>2, <2>3, <3>1, <4>2
    <3>4. CASE ~(cfg.end > 0)
      <4>1. (TypeInv /\ ~(Len(buckets) < 2) /\ ~(cfg.end > 0)
               => MaxBound = buckets[Len(buckets) - 1].le)'
        BY DefaultRange, PTL
      <4>2. TypeInv'
        BY HistogramStep DEF HistogramInv
      <4>3. MaxBound' = buckets'[Len(buckets') - 1].le
        BY <2>1, <3>2, <3>4, <4>1, <4>2
      <4>4. Len(buckets') - 1 = K
        BY <2>4, <2>6
      <4>5. MaxBound' = new[K].le
        BY <2>6, <3>1, <4>3, <4>4
      <4>6. \A b \in LogLinear : b \in Nat
        BY <1>0, LogLinearIs, Zenon DEF TypeInv
      <4> QED
        BY <3>1, <4>5, <4>6
    <3> QED
      BY <3>3, <3>4, Zenon
  <2> QED
    BY <2>1, <2>2, <2>4, <2>7, <2>8, Zenon DEF FirstInv, Bucket, Top
<1>3. CASE SkipBin \/ AddBin \/ NextBucket \/ AddTail \/ AddLast
  BY <1>1, <1>3, Zenon DEF SkipBin, AddBin, NextBucket, AddTail, AddLast
<1>4. CASE UNCHANGED vars
  BY <1>1, <1>4 DEF vars
<1> QED
  BY <1>2, <1>3, <1>4 DEF Next

LEMMA FirstIs ==
    ASSUME TypeInv, FirstInv, first # <<>>
    PROVE  LET K == Len(first)
           IN  /\ K \in Nat \ {0} /\ Len(buckets) = K + 1 /\ Len(buckets) - 1 = K
               /\ \A i \in 1..K :
                    /\ buckets[i] = first[i] /\ first[i].le \in Nat /\ first[i].le \in LogLinear
                    /\ first[i].le <= first[K].le
                    /\ Bucket(first[i].le, first[i].n) = first[i]
               /\ \A i \in 1..K - 1 :
                    first[i + 1].le = BinAfter(first[i].le) /\ first[i].le < first[i + 1].le
               /\ buckets[K + 1].n = first[K].n
<1> DEFINE K == Len(first)
           Q == [le : 1..Top, n : Nat]
           b == Bucket(Inf, first[K].n)
<1>1. first \in Seq(Q) /\ buckets = Append(first, b) /\ Chain(first)
  BY Zenon DEF FirstInv
<1>2. K \in Nat /\ \A i \in 1..K : first[i].le \in Nat
  BY <1>1, NewIs, TypesAre, Zenon
<1>3. K # 0
  BY <1>1, <1>2
<1>4. \A r \in Q : Bucket(r.le, r.n) = r
  BY DEF Bucket
<1>5. b.n = first[K].n
  BY DEF Bucket
<1> HIDE DEF Q, b
<1>6. Len(buckets) = K + 1 /\ \A i \in 1..K : buckets[i] = first[i] /\ first[i] \in Q
  BY <1>1, <1>2
<1>7. buckets[K + 1] = b
  BY <1>1, <1>2
<1>8. Len(buckets) - 1 = K
  BY <1>2, <1>6
<1>9. ASSUME NEW i \in 1..K PROVE first[i].le <= first[K].le /\ first[i].le \in LogLinear
  <2>1. i <= K /\ K \in 1..K
    BY <1>2, <1>3
  <2>2. buckets[i].le <= buckets[K].le
    BY <1>8, <2>1, OldOrder, Zenon
  <2>3. first[i].le \in LogLinear
    BY <1>1, Zenon DEF Chain
  <2> QED
    BY <1>6, <2>1, <2>2, <2>3
<1>10. ASSUME NEW i \in 1..K - 1
       PROVE  first[i + 1].le = BinAfter(first[i].le) /\ first[i].le < first[i + 1].le
  <2>1. i \in 1..K /\ i + 1 \in 1..K /\ i < i + 1
    BY <1>2
  <2>2. buckets[i].le < buckets[i + 1].le
    BY <1>8, <2>1, OldOrder, Zenon
  <2>3. first[i + 1].le = BinAfter(first[i].le)
    BY <1>1 DEF Chain
  <2> QED
    BY <1>6, <2>1, <2>2, <2>3
<1>11. \A i \in 1..K : Bucket(first[i].le, first[i].n) = first[i]
  BY <1>4, <1>6
<1> QED
  BY <1>2, <1>3, <1>5, <1>6, <1>7, <1>8, <1>9, <1>10, <1>11, Zenon

LEMMA SecondStep ==
    ASSUME HistogramInv, BoundsInv, ChainInv, FirstInv, SecondInv, [Next]_vars
    PROVE  SecondInv'
<1>0. TypeInv /\ PlaceInv /\ curr \in LogLinear /\ curr \in Nat /\ MaxBound \in Nat /\ at \in Nat
  BY TypesAre DEF HistogramInv, BoundsInv
<1>1. CASE UNCHANGED vars
  BY <1>1 DEF SecondInv, vars, Done
<1>2. CASE Again
  <2>1. first' = new /\ new' = <<>> /\ at' = 1 /\ curr' = cfg.start /\ new # <<>>
    BY <1>2 DEF Again, ChainInv
  <2>2. Len(new) \in Nat /\ Len(new) # 0 /\ 1 \in 1..Len(new)
    <3>1. Len(new) \in Nat /\ new \in Seq([le : 1..Top, n : Nat])
      BY <1>0, TypesAre DEF TypeInv
    <3>2. Len(new) # 0
      BY <2>1, <3>1
    <3> QED
      BY <3>1, <3>2
  <2>3. cfg.start <= new[1].le
    <3>1. new[1].le \in LogLinear
      BY <2>2 DEF ChainInv, Chain
    <3> QED
      BY <1>0, <3>1, LogLinearIs, Zenon DEF TypeInv
  <2>4. ~Done'
    <3>1. TypeInv'
      BY HistogramStep DEF HistogramInv
    <3>2. buckets' # <<>> /\ buckets' \in Seq([le : 1..Top' \cup {Inf}, n : Nat])
      BY <3>1 DEF TypeInv, Sorted
    <3>3. Len(buckets') \in Nat /\ Len(buckets') # 0
      BY <3>2
    <3> QED
      BY <2>1, <3>3 DEF Done
  <2>5. 1 \notin 2..Len(new) + 1
    BY <2>2
  <2> QED
    BY <2>1, <2>3, <2>4, <2>5 DEF SecondInv
<1>3. CASE SkipBin \/ AddBin \/ NextBucket \/ AddTail \/ AddLast
  <2> SUFFICES ASSUME first' # <<>> PROVE SecondInv'
    BY Zenon DEF SecondInv
  <2>0. UNCHANGED <<cfg, buckets, first>> /\ first # <<>>
    BY <1>3 DEF SkipBin, AddBin, NextBucket, AddTail, AddLast
  <2> DEFINE K == Len(first)
  <2>1. /\ K \in Nat \ {0} /\ Len(buckets) = K + 1 /\ Len(buckets) - 1 = K
        /\ \A i \in 1..K :
             /\ buckets[i] = first[i] /\ first[i].le \in Nat /\ first[i].le \in LogLinear
             /\ first[i].le <= first[K].le
             /\ Bucket(first[i].le, first[i].n) = first[i]
        /\ \A i \in 1..K - 1 :
             first[i + 1].le = BinAfter(first[i].le) /\ first[i].le < first[i + 1].le
        /\ buckets[K + 1].n = first[K].n
    BY <1>0, <2>0, FirstIs, Zenon
  <2>2. /\ MaxBound <= first[K].le
        /\ \A b \in LogLinear : b < first[K].le => b <= MaxBound
    BY <2>0 DEF FirstInv
  <2>3. /\ at = 1 => curr <= first[1].le
        /\ at \in 2..K + 1 =>
             \/ Len(new) = at - 2 /\ curr = first[at - 1].le
             \/ Len(new) = at - 1 /\ at <= K /\ curr = first[at].le
        /\ \A i \in 1..Len(new) : new[i] = first[i]
    BY <2>0, Zenon DEF SecondInv
  <2>4. K \in Nat /\ K # 0 /\ K \in 1..K /\ 1 \in 1..K
    BY <2>1
  <2>k. Len(buckets) = K + 1
    BY <2>1
  <2>5. Len(new) \in Nat /\ new \in Seq([le : 1..Top, n : Nat])
    BY <1>0, TypesAre, Zenon DEF TypeInv
  \* Below the last of its buckets, curr is in the range.
  <2>6. ASSUME NEW i \in 1..K, curr < first[i].le PROVE curr <= MaxBound
    <3>1. first[i].le \in Nat /\ first[i].le <= first[K].le /\ first[K].le \in Nat
      BY <2>1, <2>4, Zenon
    <3>2. curr < first[K].le
      BY <1>0, <2>6, <3>1
    <3> QED
      BY <1>0, <2>2, <3>2
  \* The bucket that is added is the one of the first translation.
  <2>7. ASSUME NEW i \in 1..K, Len(new) = i - 1, curr = first[i].le,
               new' = Append(new, Bucket(curr, first[i].n))
        PROVE  Len(new') = i /\ \A j \in 1..Len(new') : new'[j] = first[j]
    <3>1. i \in Nat /\ Len(new) + 1 = i
      BY <2>4, <2>7
    <3>2. new' = Append(new, first[i])
      BY <2>1, <2>7, Zenon
    <3>3. /\ Len(new') = i /\ new'[i] = first[i]
          /\ \A j \in 1..Len(new) : new'[j] = new[j]
      BY <2>5, <3>1, <3>2
    <3>4. \A j \in 1..i : j = i \/ j \in 1..Len(new)
      BY <2>7, <3>1
    <3> QED
      BY <2>3, <3>3, <3>4, Zenon
  <2>8. CASE SkipBin
    <3>1. at = 1 /\ at' = 1 /\ new' = new /\ curr' = NextBin /\ curr < buckets[1].le
      BY <2>8, Zenon DEF SkipBin, Below, le
    <3>2. curr < first[1].le /\ first[1].le \in LogLinear /\ first[1].le \in Nat
      BY <2>1, <2>4, <3>1, Zenon
    <3>3. curr < Top
      <4>1. buckets[1].le \in 1..Top /\ Top \in Nat
        BY <1>0, <2>1, <2>4, OldIs, Zenon
      <4> QED
        BY <1>0, <3>1, <4>1
    <3>4. NextBin \in LogLinear /\ (first[1].le < NextBin <=> first[1].le <= curr)
      BY <1>0, <3>2, <3>3, Advances, Zenon
    <3>5. NextBin \in Nat
      BY <1>0, <3>4, LogLinearIs, Zenon DEF TypeInv
    <3>6. NextBin <= first[1].le
      BY <1>0, <3>2, <3>4, <3>5
    <3>7. ~Done' /\ 1 \notin 2..K + 1
      <4>1. ~(1 > K + 1) /\ 1 \notin 2..K + 1
        BY <2>4
      <4> QED
        BY <2>0, <2>k, <3>1, <4>1, Zenon DEF Done
    <3> QED
      BY <2>0, <2>3, <3>1, <3>6, <3>7, Zenon DEF SecondInv
  <2>9. CASE AddBin
    <3>1. Below /\ at > 1 /\ at' = at /\ curr' = NextBin /\ new' = Append(new, Bucket(curr, Count))
      BY <2>9, Zenon DEF AddBin
    <3>2. /\ at \in 2..Len(buckets) - 1 /\ Count = CountAt(at, curr)
          /\ buckets[at - 1].le <= curr /\ curr < buckets[at].le
      BY <1>0, <3>1, CountIs
    <3>3. at \in 2..K
      BY <2>1, <3>2, Zenon
    <3>4. at \in 1..K /\ at - 1 \in 1..K /\ at - 1 \in 1..K - 1 /\ at \in 2..K + 1
          /\ (at - 1) + 1 = at /\ ~(at > K + 1) /\ at # 1 /\ at - 2 = (at - 1) - 1
      BY <2>4, <3>3
    <3>5. /\ buckets[at] = first[at] /\ buckets[at - 1] = first[at - 1] /\ first[at].le \in Nat
          /\ first[at - 1].le \in Nat
      BY <2>1, <3>4, Zenon
    <3>6. Len(new) = at - 2 /\ curr = first[at - 1].le
      <4>1. curr # first[at].le
        BY <1>0, <3>2, <3>5
      <4> QED
        BY <2>3, <3>4, <4>1, Zenon
    <3>7. Count = first[at - 1].n
      <4>1. curr = buckets[at - 1].le /\ curr <= buckets[at].le
        BY <1>0, <3>2, <3>5, <3>6
      <4>2. CountAt(at, curr) = buckets[at - 1].n
        BY <1>0, <3>2, <4>1, CountAtIs, Zenon
      <4> QED
        BY <3>2, <3>5, <4>2, Zenon
    <3>8. Len(new') = at - 1 /\ \A j \in 1..Len(new') : new'[j] = first[j]
      BY <2>7, <3>1, <3>4, <3>6, <3>7, Zenon
    <3>9. curr' = first[at].le
      <4> DEFINE i == at - 1
      <4>1. i \in 1..K - 1 /\ i + 1 = at /\ curr = first[i].le
        BY <3>4, <3>6, Zenon
      <4> HIDE DEF i
      <4>2. first[at].le = BinAfter(first[i].le)
        BY <2>1, <4>1, Zenon
      <4> QED
        BY <3>1, <4>1, <4>2, Zenon DEF NextBin, BinAfter
    <3>10. ~Done' /\ at <= K
      BY <2>0, <2>4, <2>k, <3>1, <3>3, <3>4 DEF Done
    <3> QED
      BY <2>0, <3>1, <3>4, <3>8, <3>9, <3>10, Zenon DEF SecondInv
  <2>10. CASE NextBucket
    <3>1. at <= Len(buckets) /\ le # Inf /\ ~Below /\ at' = at + 1 /\ new' = new /\ curr' = curr
      BY <2>10, Zenon DEF NextBucket
    <3>2. at \in 1..Len(buckets) - 1
      BY <1>0, <3>1, OldIs, TypesAre DEF le
    <3>3. at \in 1..K /\ at \in Nat
      BY <2>1, <3>2
    <3>4. first[at].le \in Nat /\ ~(curr < first[at].le /\ curr <= MaxBound)
      BY <2>1, <3>1, <3>3, Zenon DEF Below, le
    <3>5. ~(curr < first[at].le)
      BY <2>6, <3>3, <3>4, Zenon
    <3>6. at + 1 \in 2..K + 1 /\ (at + 1) - 1 = at /\ at + 1 # 1 /\ ~(at + 1 > K + 1)
          /\ (at + 1) - 2 = at - 1
      BY <2>4, <3>3
    <3>7. Len(new) = at - 1 /\ curr = first[at].le
      <4>1. CASE at = 1
        <5>1. curr = first[at].le
          BY <1>0, <2>3, <3>4, <3>5, <4>1
        <5>2. new = <<>>
          BY <1>0, <4>1, Zenon DEF PlaceInv
        <5>3. Len(new) = 0
          BY <5>2, Zenon
        <5> QED
          BY <4>1, <5>1, <5>3
      <4>2. CASE at # 1
        <5> DEFINE i == at - 1
        <5>1. at \in 2..K + 1 /\ i \in 1..K - 1 /\ i \in 1..K /\ i + 1 = at
          BY <2>4, <3>3, <4>2
        <5>2. first[i].le < first[at].le /\ first[i].le \in Nat
          <6> HIDE DEF i
          <6> QED
            BY <2>1, <5>1, Zenon
        <5>3. curr # first[at - 1].le
          BY <1>0, <3>4, <3>5, <5>2, Zenon
        <5> QED
          BY <2>3, <5>1, <5>3, Zenon
      <4> QED
        BY <4>1, <4>2
    <3>8. ~Done'
      BY <2>0, <2>k, <3>1, <3>6, Zenon DEF Done
    <3>9. Len(new) = (at + 1) - 2 /\ curr = first[(at + 1) - 1].le
      BY <3>6, <3>7, Zenon
    <3> QED
      BY <2>0, <2>3, <3>1, <3>6, <3>8, <3>9, Zenon DEF SecondInv
  <2>11. ASSUME at = Len(buckets) PROVE Len(new) = K - 1 /\ curr = first[K].le
    <3>1. at = K + 1 /\ at \in 2..K + 1 /\ ~(at <= K) /\ at - 1 = K /\ at - 2 = K - 1
      BY <2>4, <2>k, <2>11
    <3> QED
      BY <2>3, <3>1, Zenon
  <2>12. CASE AddTail
    <3>1. at = Len(buckets) /\ curr < MaxBound
      BY <2>12, TailAdds, Zenon DEF AddTail
    <3>2. curr = first[K].le
      BY <2>11, <3>1, Zenon
    <3> QED
      BY <1>0, <2>2, <3>1, <3>2
  <2>13. CASE AddLast
    <3>1. /\ at = Len(buckets) /\ at' = at + 1 /\ new' = Append(new, Bucket(curr, buckets[at].n))
          /\ curr' = curr
      BY <2>13, TailAdds, Zenon DEF AddLast
    <3>2. at = K + 1 /\ Len(new) = K - 1 /\ curr = first[K].le
      BY <2>11, <2>k, <3>1, Zenon
    <3>3. buckets[at].n = first[K].n
      BY <2>1, <3>2, Zenon
    <3>4. Len(new') = K /\ \A j \in 1..Len(new') : new'[j] = first[j]
      BY <2>4, <2>7, <3>1, <3>2, <3>3, Zenon
    <3>5. at' \notin 2..K + 1 /\ at' # 1
      BY <2>4, <3>1, <3>2
    <3> QED
      BY <2>0, <3>4, <3>5, Zenon DEF SecondInv
  <2> QED
    BY <1>3, <2>8, <2>9, <2>10, <2>12, <2>13
<1> QED
  BY <1>1, <1>2, <1>3 DEF Next

LEMMA SecondInvariant == Spec => [](ChainInv /\ FirstInv /\ SecondInv)
<1>1. Init => ChainInv /\ FirstInv /\ SecondInv
  <2> SUFFICES ASSUME Init PROVE ChainInv /\ FirstInv /\ SecondInv
    OBVIOUS
  <2>1. new = <<>> /\ first = <<>> /\ at = 1
    BY DEF Init
  <2>2. ~Done
    BY <2>1, HistogramInit, OldIs DEF HistogramInv, Done
  <2>3. ChainInv
    BY <2>1, <2>2 DEF ChainInv, Chain
  <2> QED
    BY <2>1, <2>3, Zenon DEF FirstInv, SecondInv
<1>2. /\ HistogramInv /\ BoundsInv /\ ChainInv /\ FirstInv /\ SecondInv /\ [Next]_vars
      => (ChainInv /\ FirstInv /\ SecondInv)'
  BY ChainStep, FirstStep, SecondStep
<1> QED
  BY <1>1, <1>2, HistogramInvariant, BoundsInvariant, PTL DEF Spec

(***************************************************************************)
(* A proxy behind a proxy with the same configuration writes what it       *)
(* scrapes, for every configuration and every upstream histogram.          *)
(***************************************************************************)
THEOREM IdempotentCorrect == Spec => []Idempotent
<1>1. HistogramInv /\ FirstInv /\ SecondInv => Idempotent
  <2> SUFFICES ASSUME HistogramInv, FirstInv, SecondInv, Done, first # <<>>
               PROVE  new = first
    BY DEF Idempotent
  <2> DEFINE Q == [le : 1..Top, n : Nat]
  <2>1. new \in Seq(Q) /\ first \in Seq(Q)
    BY DEF HistogramInv, TypeInv, FirstInv
  <2>2. Len(new) = Len(first) /\ \A i \in 1..Len(new) : new[i] = first[i]
    BY DEF SecondInv
  <2> HIDE DEF Q
  <2> QED
    BY <2>1, <2>2
<1> QED
  BY <1>1, HistogramInvariant, SecondInvariant, PTL

=============================================================================
