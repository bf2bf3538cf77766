--------------------------- MODULE Log10Histogram ---------------------------
(***************************************************************************)
(* How a translator turns the buckets of one metric of a histogram family  *)
(* into log-10 linear ones (translate, internal/translator/translator.go,  *)
(* and internal/translator/bucket.go), a step of a loop at a time.         *)
(*                                                                         *)
(* The upstream is scraped as text, where the last bucket is +Inf's; the   *)
(* text that the proxy writes gets one too.  Bounds are whole numbers, and *)
(* so are the widths of the bins.                                          *)
(***************************************************************************)
EXTENDS Naturals, Sequences, FiniteSetsExt

CONSTANTS
    Configs,    \* the histogram configurations: bins, start and end
    Inputs,     \* the buckets of upstream histograms
    Inf,        \* the bound of the last bucket
    MaxDecade   \* no bound exceeds 10^MaxDecade

Log10(x) == CHOOSE d \in 0..MaxDecade + 1 : 10^d <= x /\ x < 10^(d + 1)

ASSUME DecadeAssumption == MaxDecade \in Nat /\ Inf \notin 0..10^MaxDecade

\* What the provers need to be told of exponents.
ASSUME PowerAssumption == 10^0 = 1 /\ \A d \in 0..MaxDecade : 10^(d + 1) = 10 * 10^d

\* Bins of whole numbers, and at least one: put also accepts a negative number
\* of them, with which translate panics when it allocates the new buckets.
ASSUME ConfigsAssumption ==
    \A c \in Configs :
        /\ c.bins \in Nat \ {0} /\ c.start \in 1..10^MaxDecade /\ c.end \in 0..10^MaxDecade
        /\ \A d \in Log10(c.start)..MaxDecade : 10^(d + 1) % c.bins = 0

\* Bounds grow and so do the cumulative counts, up to +Inf's.
ASSUME InputsAssumption ==
    \A in \in Inputs :
        /\ in \in Seq([le : 1..10^MaxDecade \cup {Inf}, n : Nat])
        /\ in # <<>> /\ in[Len(in)].le = Inf
        /\ \A i, j \in 1..Len(in) :
             i < j => /\ in[i].le # Inf /\ in[i].n <= in[j].n
                      /\ j < Len(in) => in[i].le < in[j].le

VARIABLES
    cfg,        \* t.histogram
    buckets,    \* m.Histogram.Bucket
    at,         \* the index in buckets of curr; its predecessor is prev
    curr,       \* b.Curr
    new,        \* newBuckets
    first       \* what the first translation made of the buckets, or <<>>

vars == <<cfg, buckets, at, curr, new, first>>

Bucket(le, n) == [le |-> le, n |-> n]

Finite(bs) == {i \in DOMAIN bs : bs[i].le # Inf}

\* max in translate: with one bucket only, there is no range to cover.  The
\* capacity of newBuckets that the code computes from it has no other effect.
MaxBound ==
    IF Len(buckets) < 2 THEN 0
    ELSE IF cfg.end > 0 THEN cfg.end
    ELSE Max({buckets[i].le : i \in Finite(buckets)} \cup {0})

\* The next bound after c, where d is the logarithm of c.
After(c, d) ==
    LET m == 10^(d + 1)
        n == IF cfg.bins < 10 /\ c <= 10^d THEN m \div cfg.bins ELSE c + m \div cfg.bins
    IN  IF n <= m THEN n ELSE m

\* Faulty variant: the logarithm of a power of ten comes out just below.
NextBinLow == After(curr, IF curr > 1 /\ curr = 10^Log10(curr) THEN Log10(curr) - 1 ELSE Log10(curr))

\* Faulty variant: the first bin of a decade is as wide as the others.
NextBinEven ==
    LET m == 10^(Log10(curr) + 1)
        n == curr + m \div cfg.bins
    IN  IF n <= m THEN n ELSE m

NextBin == After(curr, Log10(curr))

-----------------------------------------------------------------------------
(* addLog10Buckets, called for each of the buckets in turn.                *)

le   == buckets[at].le
prev == buckets[at - 1]

\* Faulty variant: the distance is taken from the wrong end.
CountFromBelow ==
    LET n == buckets[at].n
    IN  n - ((n - prev.n) * (curr - prev.le)) \div (le - prev.le)

\* Faulty variant: the bucket is taken to start at 0.
CountFromZero ==
    LET n == buckets[at].n
    IN  n - ((n - prev.n) * (le - curr)) \div le

\* The count at curr, if the samples are spread evenly between prev and le.
Count ==
    LET n == buckets[at].n
    IN  n - ((n - prev.n) * (le - curr)) \div (le - prev.le)

\* Faulty variant: a bin that ends where the first bucket does is skipped.
BelowOrAt == at <= Len(buckets) /\ le # Inf /\ curr <= le /\ curr <= MaxBound

\* The bin ends inside the bucket, and is to be kept.
Below == at <= Len(buckets) /\ le # Inf /\ curr < le /\ curr <= MaxBound

\* Bins that end below the first bucket's bound are dropped.
SkipBin ==
    /\ Below /\ at = 1
    /\ curr' = NextBin
    /\ UNCHANGED <<cfg, buckets, at, new, first>>

AddBin ==
    /\ Below /\ at > 1
    /\ new' = Append(new, Bucket(curr, Count))
    /\ curr' = NextBin
    /\ UNCHANGED <<cfg, buckets, at, first>>

NextBucket ==
    /\ at <= Len(buckets) /\ le # Inf
    /\ ~Below
    /\ at' = at + 1
    /\ UNCHANGED <<cfg, buckets, curr, new, first>>

\* +Inf: the bins up to max have all of the samples.
AddTail ==
    /\ at <= Len(buckets) /\ le = Inf
    /\ curr < MaxBound
    /\ new' = Append(new, Bucket(curr, buckets[at].n))
    /\ curr' = NextBin
    /\ UNCHANGED <<cfg, buckets, at, first>>

AddLast ==
    /\ at <= Len(buckets) /\ le = Inf
    /\ curr >= MaxBound
    /\ new' = Append(new, Bucket(curr, buckets[at].n))
    /\ at' = at + 1
    /\ UNCHANGED <<cfg, buckets, curr, first>>

Done == at > Len(buckets)

\* What was written is scraped by another proxy.  The range of a histogram with
\* +Inf's bucket alone is not covered, which makes it a case of its own.
Again ==
    /\ Done /\ first = <<>> /\ Len(buckets) > 1
    /\ first' = new
    /\ buckets' = Append(new, Bucket(Inf, buckets[Len(buckets)].n))
    /\ at' = 1
    /\ curr' = cfg.start
    /\ new' = <<>>
    /\ UNCHANGED cfg

-----------------------------------------------------------------------------

Init ==
    /\ cfg \in Configs
    /\ buckets \in Inputs
    /\ at = 1
    /\ curr = cfg.start
    /\ new = <<>>
    /\ first = <<>>

Next ==
    \/ SkipBin
    \/ AddBin
    \/ NextBucket
    \/ AddTail
    \/ AddLast
    \/ Again

Spec == Init /\ [][Next]_vars /\ WF_vars(Next)

-----------------------------------------------------------------------------
(* Properties.                                                             *)

\* The bounds of a log-10 linear histogram: in each decade the lowest, a power of
\* ten or start, and from there the ends of bins of equal width.  With less than
\* ten bins the first of a decade is shortened instead of shifted.
Decade(d) ==
    LET low   == IF d = Log10(cfg.start) THEN cfg.start ELSE 10^d
        width == 10^(d + 1) \div cfg.bins
        from  == IF cfg.bins < 10 /\ low = 10^d THEN 0 ELSE low
    IN  {low} \cup {b \in {from + k * width : k \in 1..cfg.bins} : b <= 10^(d + 1)}

LogLinear == UNION {Decade(d) : d \in Log10(cfg.start)..MaxDecade}

\* The histogram is cut off at a configured end that is itself a bound.
Cut == cfg.end \in LogLinear /\ \E i \in Finite(buckets) : cfg.end < buckets[i].le

(***************************************************************************)
(* The new bounds are those of a log-10 linear histogram: all of them from *)
(* the first of the old ones up to max, and, if max is not one of them,    *)
(* the next one, so that max is covered.  Nothing is said of the bounds    *)
(* past an end that cuts the histogram off at a bound: addLog10Buckets     *)
(* adds one more there.                                                    *)
(***************************************************************************)
BoundsComplete ==
    Done =>
        LET kept == {b \in LogLinear : /\ buckets[1].le = Inf \/ buckets[1].le <= b
                                       /\ b <= MaxBound}
            over == Min({b \in LogLinear : b > MaxBound})
            got  == {new[i].le : i \in DOMAIN new}
        IN  /\ {b \in got : b <= MaxBound} = kept
            /\ ~Cut => got \ kept = IF MaxBound \in LogLinear THEN {} ELSE {over}

(***************************************************************************)
(* The new buckets are a cumulative histogram: bounds go up, and counts do *)
(* not go down, across the seams between the old buckets too.              *)
(***************************************************************************)
Cumulative ==
    \A i \in 1..Len(new) - 1 : new[i].le < new[i + 1].le /\ new[i].n <= new[i + 1].n

(***************************************************************************)
(* The proportional adjustment moves no sample past a bound that the       *)
(* upstream knew of: a new count is at least the old count of any bound    *)
(* below, and at most that of any bound above.  From the last old bound    *)
(* on, and past max, a new bucket has all of the samples.                  *)
(***************************************************************************)
Bracketed ==
    \A i \in DOMAIN new :
        IF new[i].le <= MaxBound /\ \E j \in Finite(buckets) : new[i].le < buckets[j].le
          THEN \A j \in Finite(buckets) :
                 /\ buckets[j].le <= new[i].le => buckets[j].n <= new[i].n
                 /\ buckets[j].le >= new[i].le => buckets[j].n >= new[i].n
          ELSE new[i].n = buckets[Len(buckets)].n

(***************************************************************************)
(* Translating a translated histogram changes nothing (the identity that   *)
(* TestIdentityConversion tries on one histogram), for every input with a  *)
(* bucket besides +Inf's.                                                  *)
(***************************************************************************)
Idempotent == Done /\ first # <<>> => new = first

(***************************************************************************)
(* The loops end: nextBin always gets further, powers of ten included.     *)
(***************************************************************************)
Ends == []<>Done
=============================================================================
