---------------------------- MODULE OndemandProofs ----------------------------
(***************************************************************************)
(* Proofs about Ondemand, for every frequency table, sampling period and   *)
(* set of loads.                                                           *)
(***************************************************************************)
EXTENDS Ondemand, WellFoundedInduction, TLAPS

-----------------------------------------------------------------------------
(* Look-ups in the frequency table                                          *)

(* The order of the natural numbers is well founded, so every nonempty set *)
(* of them has a least element.                                            *)
LEMMA LeastNatural ==
  ASSUME NEW S \in SUBSET Nat, S # {}
  PROVE  \E n \in S : \A j \in S : n <= j
<1>. DEFINE R == OpToRel(<, Nat)
<1>1. IsWellFoundedOn(R, Nat)
  BY NatLessThanWellFounded
<1>2. \A x, y \in Nat : x < y => <<x, y>> \in R
  BY DEF OpToRel
<1>. HIDE DEF R
<1>3. PICK n \in S : \A j \in S : <<j, n>> \notin R
  BY <1>1, WFMin
<1>4. ASSUME NEW j \in S PROVE n <= j
  <2>1. n \in Nat /\ j \in Nat
    OBVIOUS
  <2>2. ~(j < n)
    BY <1>2, <1>3, <2>1
  <2>. QED
    BY ONLY <2>1, <2>2
<1>. QED
  BY <1>4

(* A nonempty set of levels has a fastest and a slowest one.               *)
LEMMA FastestExists ==
  ASSUME NEW S \in SUBSET Levels, S # {}
  PROVE  Fastest(S) \in S /\ \A j \in S : Fastest(S) <= j
<1>1. S \in SUBSET Nat
  BY LevelsAssumption DEF Levels
<1>2. PICK n \in S : \A j \in S : n <= j
  BY <1>1, LeastNatural
<1>. QED
  BY <1>2 DEF Fastest

LEMMA SlowestExists ==
  ASSUME NEW S \in SUBSET Levels, S # {}
  PROVE  Slowest(S) \in S /\ \A j \in S : j <= Slowest(S)
<1>. DEFINE M == { MinIdx - i : i \in S }
<1>1. M \in SUBSET Nat /\ M # {}
  BY LevelsAssumption DEF Levels
<1>2. PICK n \in M : \A j \in M : n <= j
  BY <1>1, LeastNatural
<1>3. PICK m \in S : n = MinIdx - m
  BY <1>2
<1>4. \A j \in S : j <= m
  <2>1. SUFFICES ASSUME NEW j \in S PROVE j <= m
    OBVIOUS
  <2>2. n <= MinIdx - j
    BY <1>2
  <2>. QED
    BY <1>3, <2>2, LevelsAssumption DEF Levels
<1>. QED
  BY <1>3, <1>4 DEF Slowest

(* The two look-ups of one frequency find levels on both sides of it, or    *)
(* one and the same at an end of the policy.                               *)
LEMMA LookupsSurround ==
  ASSUME NEW pol, InPolicy(pol) # {}, NEW f \in Int
  PROVE  LET l == TableTarget(pol, f, "H")
             h == TableTarget(pol, f, "L")
         IN  /\ l \in InPolicy(pol) /\ h \in InPolicy(pol)
             /\ l = h \/ (Freq[l] <= f /\ f <= Freq[h])
<1>. DEFINE below == { i \in InPolicy(pol) : Freq[i] <= f }
            above == { i \in InPolicy(pol) : Freq[i] >= f }
<1>1. below \in SUBSET Levels /\ above \in SUBSET Levels
  BY DEF InPolicy
<1>2. below # {} \/ above # {}
  <2>1. PICK i \in InPolicy(pol) : TRUE
    OBVIOUS
  <2>2. i \in Levels /\ Freq[i] \in Nat
    BY FreqAssumption DEF InPolicy
  <2>3. Freq[i] <= f \/ Freq[i] >= f
    BY <2>2
  <2>. QED
    BY <2>1, <2>3
<1>3. /\ below # {} => Fastest(below) \in below
      /\ above # {} => Slowest(above) \in above
  BY <1>1, FastestExists, SlowestExists
<1>4. /\ TableTarget(pol, f, "H") =
           IF below # {} THEN Fastest(below) ELSE Slowest(above)
      /\ TableTarget(pol, f, "L") =
           IF above # {} THEN Slowest(above) ELSE Fastest(below)
  BY DEF TableTarget
<1>. QED
  BY <1>2, <1>3, <1>4

-----------------------------------------------------------------------------
(* Once stopped the governor has no work: STOP waits for a running one, and *)
(* only the work itself queues it again.                                    *)

StopInv ==
  /\ work \in {"idle", "queued", "sampled", "requeue"}
  /\ StoppedMeansIdle

LEMMA StopKept == StopInv /\ [Next]_vars => StopInv'
<1>. SUFFICES ASSUME StopInv, [Next]_vars PROVE StopInv'
  OBVIOUS
<1>1. CASE Work
  BY <1>1
  DEF Work, Sample, SubSample, Target, Requeue, StopInv, StoppedMeansIdle
<1>2. CASE Start
  <2>1. PICK fails \in BOOLEAN :
          /\ gov' = [enable |-> gov.enable + 1, ready |-> ~fails,
                     set |-> gov.set \/ (gov.enable = 0 /\ ~fails)]
          /\ work' = IF fails THEN work ELSE "queued"
    BY <1>2 DEF Start
  <2>. QED
    BY <1>2, <2>1 DEF Start, StopInv, StoppedMeansIdle
<1>3. CASE Stop
  BY <1>3 DEF Stop, Cancelled, Running, StopInv, StoppedMeansIdle
<1>4. CASE UNCHANGED <<gov, work>>
  BY <1>4 DEF StopInv, StoppedMeansIdle
<1>. QED
  BY <1>1, <1>2, <1>3, <1>4
  DEF Next, Task, StoreMin, StoreMax, Limits, StoreTuner, OtherRequest, vars

(* After STOP has returned no work is queued or running, however tunables   *)
(* and the policy are written.                                              *)
THEOREM StopSilences == Spec => []StoppedMeansIdle
<1>1. Init => StopInv
  BY DEF Init, StopInv, StoppedMeansIdle
<1>2. StopInv => StoppedMeansIdle
  BY DEF StopInv
<1>. QED
  BY <1>1, <1>2, StopKept, PTL DEF Spec

-----------------------------------------------------------------------------
(* powersave_bias.  A share of the sampling period is rounded to a whole    *)
(* jiffy, which is wrong by half a jiffy at most.                           *)

LEMMA RoundedQuotient ==
  ASSUME NEW x \in Nat, NEW d \in Nat \ {0}
  PROVE  LET q == (x + d \div 2) \div d
         IN  q \in Nat /\ 2 * (d * q - x) <= d /\ 2 * (d * q - x) >= -d
<1>. DEFINE h == d \div 2
            y == x + h
            q == y \div d
<1>1. h \in Nat /\ 2 * h <= d /\ 2 * h >= d - 1
  OBVIOUS
<1>2. y \in Nat
  BY <1>1
<1>3. q \in Int /\ d * q \in Int /\ d * q <= y /\ y < d * q + d
  <2>. HIDE DEF y
  <2>1. q \in Int
    BY <1>2
  <2>2. d * q <= y
    BY <1>2
  <2>3. y < d * q + d
    BY <1>2
  <2>. QED
    BY <2>1, <2>2, <2>3
<1>4. q \in Nat
  <2>. HIDE DEF q
  <2>1. SUFFICES ASSUME q < 0 PROVE FALSE
    BY <1>3
  <2>2. d * (q + 1) <= 0
    BY <1>3, <2>1
  <2>3. d * (q + 1) = d * q + d
    BY <1>3
  <2>. QED
    BY <1>2, <1>3, <2>2, <2>3
<1>. HIDE DEF q
<1>5. 2 * (d * q - x) <= d /\ 2 * (d * q - x) >= -d
  BY <1>1, <1>3
<1>. QED
  BY <1>4, <1>5 DEF q

LEMMA ShareOfPeriod ==
  ASSUME NEW d \in Nat \ {0}, NEW a \in 0 .. d
  PROVE  LET j == (a * Period + d \div 2) \div d
         IN  /\ j \in 0 .. Period
             /\ 2 * (d * j - a * Period) \in -d .. d
<1>. DEFINE x == a * Period
            j == (x + d \div 2) \div d
<1>1. Period \in Nat \ {0}
  BY OndemandAssumption
<1>2. x \in Nat /\ d * Period - x \in Nat
  <2>1. (d - a) * Period \in Nat /\ a * Period \in Nat
    BY <1>1
  <2>2. (d - a) * Period = d * Period - a * Period
    BY <1>1
  <2>. QED
    BY <2>1, <2>2
<1>. HIDE DEF x
<1>3. j \in Nat /\ 2 * (d * j - x) <= d /\ 2 * (d * j - x) >= -d
  BY <1>2, RoundedQuotient
<1>. HIDE DEF j
<1>4. j <= Period
  <2>1. SUFFICES ASSUME j >= Period + 1 PROVE FALSE
    BY <1>1, <1>3
  <2>2. d * j >= d * Period + d
    <3>1. d * (j - (Period + 1)) \in Nat
      BY <1>1, <1>3, <2>1
    <3>2. d * (j - (Period + 1)) = d * j - d * Period - d
      BY <1>1, <1>3
    <3>. QED
      BY <1>1, <1>3, <3>1, <3>2
  <2>3. d * j \in Int /\ d * Period \in Int
    BY <1>1, <1>3
  <2>. QED
    BY <1>1, <1>2, <1>3, <2>2, <2>3
<1>5. 2 * (d * j - x) \in -d .. d
  BY <1>1, <1>2, <1>3
<1>. QED
  BY <1>1, <1>3, <1>4, <1>5 DEF x, j

(* The two frequencies and their jiffies                                    *)
Lows == [lo : Nat, hi : Nat, avg : Int, lo_jiffies : Int, hi_jiffies : Int]

Averages(l) ==
  LET sum == l.hi * l.hi_jiffies + l.lo * l.lo_jiffies
  IN  l.lo # 0 => /\ l.hi_jiffies \in 0 .. Period
                  /\ 2 * (sum - l.avg * Period) \in -(l.hi - l.lo) .. l.hi - l.lo

LEMMA BiasedAverages ==
  ASSUME InPolicy(policy) # {}, tuners.bias \in 0 .. 1000,
         NEW f \in Int, NEW r \in Relations
  PROVE  Biased(f, r) \in Lows /\ Averages(Biased(f, r))
<1>. DEFINE req == Freq[TableTarget(policy, f, r)]
            avg == req - (req * tuners.bias) \div 1000
            l == TableTarget(policy, avg, "H")
            h == TableTarget(policy, avg, "L")
            lo == Freq[l]
            hi == Freq[h]
            j == JiffiesHi(avg, lo, hi)
<1>1. req \in Nat
  <2>1. TableTarget(policy, f, r) \in InPolicy(policy)
    BY LookupsSurround DEF Relations
  <2>. QED
    BY <2>1, FreqAssumption DEF InPolicy
<1>2. avg \in Int
  <2>. HIDE DEF req
  <2>. DEFINE bias == tuners.bias
              cut == req * bias
  <2>0. bias \in Nat
    OBVIOUS
  <2>. HIDE DEF bias
  <2>1. cut \in Nat
    BY <1>1, <2>0
  <2>. HIDE DEF cut
  <2>2. cut \div 1000 \in Int
    BY <2>1
  <2>3. avg = req - cut \div 1000
    BY DEF cut, bias
  <2>. HIDE DEF avg
  <2>. QED
    BY <1>1, <2>2, <2>3
<1>. HIDE DEF avg
<1>3. /\ l \in InPolicy(policy) /\ h \in InPolicy(policy)
      /\ l = h \/ (lo <= avg /\ avg <= hi)
  BY <1>2, LookupsSurround
<1>4. lo \in Nat /\ hi \in Nat
  BY <1>3, FreqAssumption DEF InPolicy
<1>5. Period \in Nat \ {0}
  BY OndemandAssumption
<1>6. Biased(f, r) = IF lo = hi THEN [NoLow EXCEPT !.hi = hi]
                     ELSE [lo |-> lo, hi |-> hi, avg |-> avg,
                           lo_jiffies |-> Period - j, hi_jiffies |-> j]
  BY DEF Biased, avg
<1>7. CASE lo = hi
  BY <1>4, <1>6, <1>7 DEF NoLow, Lows, Averages
<1>8. CASE lo # hi
  <2>. DEFINE d == hi - lo
              a == avg - lo
  <2>. HIDE DEF l, h
  <2>1. d \in Nat \ {0} /\ a \in 0 .. d
    BY <1>2, <1>3, <1>4, <1>8
  <2>2. j = (a * Period + d \div 2) \div d
    BY DEF JiffiesHi
  <2>. HIDE DEF j
  <2>3. j \in 0 .. Period /\ 2 * (d * j - a * Period) \in -d .. d
    <3>. HIDE DEF d, a
    <3>. QED
      BY <2>1, <2>2, ShareOfPeriod
  <2>4. j \in Nat
    BY <1>5, <2>3
  <2>. DEFINE sum == hi * j + lo * (Period - j)
  <2>5. sum - avg * Period = d * j - a * Period
    <3>. HIDE DEF lo, hi
    <3>. QED
      BY <1>2, <1>4, <1>5, <2>4
  <2>6. 2 * (sum - avg * Period) \in -(hi - lo) .. hi - lo
    BY <2>3, <2>5
  <2>. HIDE DEF lo, hi
  <2>7. Biased(f, r) = [lo |-> lo, hi |-> hi, avg |-> avg,
                        lo_jiffies |-> Period - j, hi_jiffies |-> j]
    BY <1>6, <1>8
  <2>. QED
    BY <1>2, <1>4, <1>5, <2>3, <2>4, <2>6, <2>7 DEF Lows, Averages
<1>. QED
  BY <1>7, <1>8

-----------------------------------------------------------------------------
(* The policy always leaves a level, also between the stores of its limits  *)

TableFreqs == { Freq[i] : i \in Levels }

PolicyInv ==
  /\ policy \in [min : TableFreqs, max : TableFreqs]
  /\ policy.min <= policy.max
  /\ task.at = "max" => task.max \in TableFreqs /\ policy.min <= task.max
  /\ cur \in TableFreqs

TunersInv ==
  tuners \in [up : Nat, diff : Nat, down_factor : Nat, bias : 0 .. 1000]

LowInv == info.low \in Lows /\ Averages(info.low)

InfoTyped == info \in [low : Lows, rate_mult : Nat, sub : BOOLEAN]
TargetTyped == s.next \in Int /\ s.relation \in Relations

BiasInv == PolicyInv /\ TunersInv /\ LowInv /\ InfoTyped /\ TargetTyped

LEMMA TableFreqsPositive == TableFreqs \subseteq Nat \ {0}
BY FreqAssumption DEF TableFreqs

LEMMA PolicyFreqs ==
  ASSUME PolicyInv
  PROVE  policy.min \in Nat /\ policy.max \in Nat /\ cur \in Nat
BY TableFreqsPositive DEF PolicyInv

LEMMA PolicyLeavesLevel ==
  ASSUME PolicyInv
  PROVE  InPolicy(policy) # {}
<1>1. PICK i \in Levels : policy.min = Freq[i]
  BY DEF PolicyInv, TableFreqs
<1>2. Freq[i] \in Nat
  BY FreqAssumption
<1>3. i \in InPolicy(policy)
  BY <1>1, <1>2 DEF InPolicy, PolicyInv
<1>. QED
  BY <1>3

LEMMA LookupInTable ==
  ASSUME PolicyInv, NEW f \in Int, NEW r \in Relations
  PROVE  Freq[TableTarget(policy, f, r)] \in TableFreqs
<1>1. TableTarget(policy, f, r) \in InPolicy(policy)
  BY PolicyLeavesLevel, LookupsSurround DEF Relations
<1>. QED
  BY <1>1 DEF InPolicy, TableFreqs

LEMMA LowerIsFreq ==
  ASSUME PolicyInv, TunersInv, NEW load \in Nat, load < (Spare * cur) % Wrap
  PROVE  Lower(load) \in Nat
<1>1. /\ Wrap \in Nat \ {0} /\ tuners.up \in Nat /\ tuners.diff \in Nat
      /\ policy.min \in Nat /\ cur \in Nat
  <2>1. Wrap \in Nat \ {0}
    <3>1. MaxIdx \in Levels
      BY LevelsAssumption DEF Levels
    <3>2. Freq[MaxIdx] \in Nat
      BY <3>1, FreqAssumption
    <3>. QED
      BY <3>2, OndemandAssumption
  <2>2. policy.min \in Nat /\ cur \in Nat
    BY TableFreqsPositive DEF PolicyInv
  <2>. QED
    BY <2>1, <2>2 DEF TunersInv
<1>2. Spare \in Nat
  BY <1>1 DEF Spare
<1>3. Spare # 0
  <2>1. SUFFICES ASSUME Spare = 0 PROVE FALSE
    OBVIOUS
  <2>2. (Spare * cur) % Wrap = 0
    BY <1>1, <2>1
  <2>. QED
    BY <2>2
<1>. DEFINE q == load \div Spare
<1>4. q \in Nat
  <2>. HIDE DEF Spare
  <2>. QED
    BY <1>2, <1>3
<1>5. Lower(load) \in {q, policy.min}
  <2>. HIDE DEF q
  <2>1. \E m \in {q, policy.min} : \A n \in {q, policy.min} : m >= n
    BY <1>1, <1>4
  <2>2. Lower(load) = Max({q, policy.min})
    BY DEF Lower, q
  <2>. QED
    BY <2>1, <2>2 DEF Max
<1>. QED
  BY <1>1, <1>4, <1>5

LEMMA SampleKeepsLow ==
  ASSUME BiasInv, Sample
  PROVE  LowInv' /\ InfoTyped' /\ TargetTyped'
<1>. DEFINE load(b) == b * cur
            kind(b) == Decision(load(b))
            asked(b) == IF kind(b) = "up" THEN policy.max
                        ELSE IF kind(b) = "down" THEN Lower(load(b)) ELSE 0
            low(b) == IF tuners.bias = 0 \/ kind(b) = "none" THEN NoLow
                      ELSE Biased(asked(b), IF kind(b) = "up" THEN "H" ELSE "L")
            mult(b) == IF kind(b) = "up" /\ cur < policy.max
                       THEN tuners.down_factor
                       ELSE IF kind(b) = "down" THEN 1 ELSE info.rate_mult
<1>1. PICK b \in Loads :
        /\ info' = [low |-> low(b), sub |-> FALSE, rate_mult |-> mult(b)]
        /\ s' = [kind |-> kind(b), load |-> load(b), percent |-> b,
                 min |-> policy.min, up |-> tuners.up, diff |-> tuners.diff,
                 bias |-> tuners.bias,
                 next |-> IF tuners.bias = 0 THEN asked(b) ELSE low(b).hi,
                 relation |-> IF kind(b) = "up" /\ tuners.bias = 0
                              THEN "H" ELSE "L"]
  BY DEF Sample
<1>2. load(b) \in Nat
  BY OndemandAssumption, TableFreqsPositive DEF BiasInv, PolicyInv
<1>3. /\ kind(b) \in {"up", "down", "none"}
      /\ kind(b) = "down" => load(b) < (Spare * cur) % Wrap
  BY DEF Decision
<1>. HIDE DEF load, kind
<1>4. asked(b) \in Int
  <2>1. kind(b) = "down" => Lower(load(b)) \in Nat
    BY <1>2, <1>3, LowerIsFreq DEF BiasInv
  <2>2. policy.max \in Nat
    BY TableFreqsPositive DEF BiasInv, PolicyInv
  <2>. QED
    BY <1>3, <2>1, <2>2
<1>. HIDE DEF asked
<1>5. low(b) \in Lows /\ Averages(low(b))
  <2>1. NoLow \in Lows /\ Averages(NoLow)
    BY DEF NoLow, Lows, Averages
  <2>2. \A r \in Relations : Biased(asked(b), r) \in Lows
                            /\ Averages(Biased(asked(b), r))
    BY <1>4, PolicyLeavesLevel, BiasedAverages DEF BiasInv, TunersInv
  <2>. QED
    BY <2>1, <2>2 DEF Relations
<1>6. mult(b) \in Nat
  BY DEF BiasInv, TunersInv, InfoTyped
<1>. HIDE DEF low, mult
<1>7. LowInv' /\ InfoTyped'
  BY <1>1, <1>5, <1>6 DEF LowInv, InfoTyped
<1>8. low(b).hi \in Int
  BY <1>5 DEF Lows
<1>. QED
  BY <1>1, <1>4, <1>7, <1>8 DEF TargetTyped, Relations

(* Without a low frequency there is nothing to average                      *)
LEMMA NoLowAverages ==
  ASSUME NEW l \in Lows
  PROVE  [l EXCEPT !.lo = 0] \in Lows /\ Averages([l EXCEPT !.lo = 0])
BY DEF Lows, Averages

LEMMA TunerKeepsBias ==
  ASSUME BiasInv, StoreTuner
  PROVE  TunersInv' /\ LowInv' /\ InfoTyped'
<1>1. PICK w \in TunerWrites :
        /\ w[2] \in TunerRange[w[1]]
        /\ tuners' = [tuners EXCEPT ![w[1]] = w[2]]
        /\ info' = CASE w[1] = "down_factor" -> [info EXCEPT !.rate_mult = 1]
                     [] w[1] = "bias" -> [info EXCEPT !.low.lo = 0]
                     [] OTHER -> info
  BY DEF StoreTuner
<1>2. TunersInv'
  <2>1. TunersInv
    BY DEF BiasInv
  <2>2. tuners.up \in Nat
    BY <2>1 DEF TunersInv
  <2>3. CASE w[1] = "up"
    <3>1. w[2] \in Nat
      <4>1. w[2] \in 11 .. 100
        BY <1>1, <2>3 DEF TunerRange
      <4>. QED
        BY <4>1
    <3>2. tuners' = [tuners EXCEPT !.up = w[2]]
      BY <1>1, <2>3
    <3>. QED
      BY <2>1, <3>1, <3>2 DEF TunersInv
  <2>4. CASE w[1] = "diff"
    <3>1. w[2] \in Nat
      <4>1. w[2] \in 3 .. tuners.up
        BY <1>1, <2>4 DEF TunerRange
      <4>. QED
        BY <2>2, <4>1
    <3>2. tuners' = [tuners EXCEPT !.diff = w[2]]
      BY <1>1, <2>4
    <3>. QED
      BY <2>1, <3>1, <3>2 DEF TunersInv
  <2>5. CASE w[1] = "down_factor"
    <3>1. w[2] \in Nat
      <4>. DEFINE range == 1 .. 100000
      <4>1. TunerRange["down_factor"] = range
        BY DEF TunerRange
      <4>2. range \subseteq Nat
        OBVIOUS
      <4>. HIDE DEF range
      <4>. QED
        BY <1>1, <2>5, <4>1, <4>2
    <3>2. tuners' = [tuners EXCEPT !.down_factor = w[2]]
      BY <1>1, <2>5
    <3>. QED
      BY <2>1, <3>1, <3>2 DEF TunersInv
  <2>6. CASE w[1] = "bias"
    <3>. DEFINE range == 0 .. 1000
    <3>1. w[2] \in range
      <4>1. TunerRange["bias"] = range
        BY DEF TunerRange
      <4>. HIDE DEF range
      <4>. QED
        BY <1>1, <2>6, <4>1
    <3>2. tuners' = [tuners EXCEPT !.bias = w[2]]
      BY <1>1, <2>6
    <3>3. tuners \in [up : Nat, diff : Nat, down_factor : Nat, bias : range]
      BY <2>1 DEF TunersInv
    <3>. HIDE DEF range
    <3>4. tuners' \in [up : Nat, diff : Nat, down_factor : Nat, bias : range]
      BY <3>1, <3>2, <3>3
    <3>. QED
      BY <3>4 DEF TunersInv, range
  <2>7. CASE w[1] \notin {"up", "diff", "down_factor", "bias"}
    <3>1. tuners' = tuners
      BY <1>1, <2>1, <2>7 DEF TunersInv
    <3>. QED
      BY <2>1, <3>1 DEF TunersInv
  <2>. QED
    BY <2>3, <2>4, <2>5, <2>6, <2>7
<1>3. info.low \in Lows /\ info.rate_mult \in Nat /\ info.sub \in BOOLEAN
  BY DEF BiasInv, InfoTyped
<1>7. InfoTyped
  BY DEF BiasInv
<1>4. CASE w[1] = "down_factor"
  BY <1>1, <1>2, <1>4 DEF BiasInv, InfoTyped, LowInv
<1>5. CASE w[1] = "bias"
  <2>1. info' = [info EXCEPT !.low = [@ EXCEPT !.lo = 0]]
    BY <1>1, <1>5
  <2>2. [info.low EXCEPT !.lo = 0] \in Lows /\ Averages([info.low EXCEPT !.lo = 0])
    BY <1>3, NoLowAverages
  <2>3. /\ info'.low = [info.low EXCEPT !.lo = 0]
        /\ info' \in [low : Lows, rate_mult : Nat, sub : BOOLEAN]
    <3>. DEFINE l == [info.low EXCEPT !.lo = 0]
    <3>1. l \in Lows
      BY <2>2
    <3>2. info' = [info EXCEPT !.low = l]
      BY <2>1
    <3>. HIDE DEF l
    <3>3. info' \in [low : Lows, rate_mult : Nat, sub : BOOLEAN] /\ info'.low = l
      BY <1>7, <3>1, <3>2 DEF InfoTyped
    <3>. QED
      BY <3>3 DEF l
  <2>. QED
    BY <1>2, <2>2, <2>3 DEF InfoTyped, LowInv
<1>6. CASE w[1] \notin {"down_factor", "bias"}
  BY <1>1, <1>2, <1>6 DEF BiasInv, InfoTyped, LowInv
<1>. QED
  BY <1>2, <1>4, <1>5, <1>6

(* A step that leaves the tuners, the governor's records and the sample alone *)
LEMMA BiasUntouched ==
  ASSUME BiasInv, PolicyInv', UNCHANGED <<tuners, info, s>>
  PROVE  BiasInv'
<1>1. TunersInv' /\ LowInv' /\ InfoTyped' /\ TargetTyped'
  BY DEF BiasInv, TunersInv, LowInv, InfoTyped, TargetTyped
<1>. QED
  BY <1>1 DEF BiasInv

LEMMA BiasKept == BiasInv /\ [Next]_vars => BiasInv'
<1>. SUFFICES ASSUME BiasInv, [Next]_vars PROVE BiasInv'
  OBVIOUS
<1>0. PolicyInv /\ TunersInv /\ LowInv /\ InfoTyped /\ TargetTyped
  BY DEF BiasInv
<1>1. CASE Sample
  <2>1. PolicyInv' /\ TunersInv'
    BY <1>0, <1>1 DEF Sample, PolicyInv, TunersInv
  <2>. QED
    BY <1>1, <2>1, SampleKeepsLow DEF BiasInv
<1>2. CASE SubSample \/ Requeue
  <2>1. info'.low = info.low /\ InfoTyped'
    BY <1>0, <1>2 DEF SubSample, Requeue, InfoTyped
  <2>2. PolicyInv' /\ TunersInv'
    BY <1>0, <1>2 DEF SubSample, Requeue, PolicyInv, TunersInv
  <2>3. TargetTyped'
    <3>1. info.low.lo \in Nat
      BY <1>0 DEF InfoTyped, Lows
    <3>2. SubSample => s'.next = info.low.lo /\ s'.relation = "H"
      BY DEF SubSample, NoSample
    <3>3. Requeue => s'.next = 0 /\ s'.relation = "L"
      BY DEF Requeue, NoSample
    <3>. QED
      BY <1>2, <3>1, <3>2, <3>3 DEF TargetTyped, Relations
  <2>. QED
    BY <1>0, <2>1, <2>2, <2>3 DEF BiasInv, LowInv
<1>3. CASE Target
  <2>1. cur' \in TableFreqs
    BY <1>0, <1>3, LookupInTable DEF Target, PolicyInv, TargetTyped
  <2>. QED
    BY <1>0, <1>3, <2>1 DEF Target, BiasInv, PolicyInv, TunersInv, LowInv,
       InfoTyped, TargetTyped
<1>4. CASE StoreMin
  <2>1. PICK min, max \in TableFreqs :
          /\ Acceptable(min, max)
          /\ policy' = [policy EXCEPT !.min = min]
          /\ task' = [at |-> "max", min |-> min, max |-> max]
    BY <1>4 DEF StoreMin, TableFreqs
  <2>2. min <= max /\ min <= policy.max
    <3>1. PICK i \in Levels : min <= Freq[i] /\ Freq[i] <= max
      BY <2>1 DEF Acceptable, InPolicy
    <3>2. min \in Nat /\ max \in Nat /\ Freq[i] \in Nat
      BY TableFreqsPositive, FreqAssumption
    <3>. QED
      BY <2>1, <3>1, <3>2 DEF Acceptable
  <2>3. PolicyInv'
    BY <1>0, <1>4, <2>1, <2>2 DEF StoreMin, PolicyInv
  <2>. QED
    BY <1>4, <2>3, BiasUntouched DEF StoreMin
<1>5. CASE StoreMax
  <2>1. PolicyInv'
    BY <1>0, <1>5 DEF StoreMax, PolicyInv, NoTask
  <2>. QED
    BY <1>5, <2>1, BiasUntouched DEF StoreMax
<1>6. CASE Limits
  <2>1. policy.max \in Int /\ policy.min \in Int
    BY <1>0, PolicyFreqs
  <2>. "H" \in Relations /\ "L" \in Relations
    BY DEF Relations
  <2>2. /\ Freq[TableTarget(policy, policy.max, "H")] \in TableFreqs
        /\ Freq[TableTarget(policy, policy.min, "L")] \in TableFreqs
    BY <1>0, <2>1, LookupInTable
  <2>3. PolicyInv'
    BY <1>0, <1>6, <2>2 DEF Limits, PolicyInv, NoTask
  <2>. QED
    BY <1>6, <2>3, BiasUntouched DEF Limits
<1>7. CASE Start
  <2>1. PICK fails \in BOOLEAN :
          /\ info' = [info EXCEPT !.rate_mult = 1, !.low.lo = 0,
                                  !.sub = IF fails THEN @ ELSE FALSE]
          /\ task' = IF fails THEN task ELSE [NoTask EXCEPT !.at = "limits"]
    BY <1>7 DEF Start
  <2>2. PolicyInv'
    BY <1>0, <1>7, <2>1 DEF Start, PolicyInv, NoTask
  <2>3. [info.low EXCEPT !.lo = 0] \in Lows /\ Averages([info.low EXCEPT !.lo = 0])
    BY <1>0, NoLowAverages DEF LowInv
  <2>4. InfoTyped' /\ info'.low = [info.low EXCEPT !.lo = 0]
    BY <1>0, <2>1, <2>3 DEF InfoTyped
  <2>5. TunersInv' /\ TargetTyped'
    BY <1>0, <1>7 DEF Start, TunersInv, TargetTyped
  <2>6. LowInv'
    BY <2>3, <2>4 DEF LowInv
  <2>. QED
    BY <2>2, <2>4, <2>5, <2>6 DEF BiasInv
<1>8. CASE Stop
  <2>1. PolicyInv'
    BY <1>0, <1>8 DEF Stop, PolicyInv
  <2>. QED
    BY <1>8, <2>1, BiasUntouched DEF Stop
<1>9. CASE StoreTuner
  <2>1. PolicyInv' /\ TargetTyped'
    BY <1>0, <1>9 DEF StoreTuner, PolicyInv, TargetTyped
  <2>. QED
    BY <1>9, <2>1, TunerKeepsBias DEF BiasInv
<1>10. CASE OtherRequest
  <2>1. PolicyInv'
    BY <1>0, <1>10 DEF OtherRequest, PolicyInv, TableFreqs
  <2>. QED
    BY <1>10, <2>1, BiasUntouched DEF OtherRequest
<1>11. CASE UNCHANGED vars
  <2>1. PolicyInv'
    BY <1>0, <1>11 DEF vars, PolicyInv
  <2>. QED
    BY <1>11, <2>1, BiasUntouched DEF vars
<1>. QED
  BY <1>1, <1>2, <1>3, <1>4, <1>5, <1>6, <1>7, <1>8, <1>9, <1>10, <1>11
  DEF Next, Work, Task

LEMMA InitBias == Init => BiasInv
<1>. SUFFICES ASSUME Init PROVE BiasInv
  OBVIOUS
<1>1. PolicyInv
  <2>1. MinIdx \in Levels /\ MaxIdx \in Levels /\ MaxIdx <= MinIdx
    BY LevelsAssumption DEF Levels
  <2>2. Freq[MinIdx] \in Nat /\ Freq[MaxIdx] \in Nat /\ Freq[MinIdx] <= Freq[MaxIdx]
    <3>1. CASE MaxIdx = MinIdx
      BY <2>1, <3>1, FreqAssumption
    <3>2. CASE MaxIdx < MinIdx
      BY <2>1, <3>2, FreqAssumption
    <3>. QED
      BY <3>1, <3>2, LevelsAssumption
  <2>. QED
    BY <2>1, <2>2 DEF Init, PolicyInv, TableFreqs, NoTask
<1>2. TunersInv /\ TargetTyped
  BY DEF Init, TunersInv, TargetTyped, NoSample, Relations
<1>3. LowInv /\ InfoTyped
  BY DEF Init, LowInv, InfoTyped, NoLow, Lows, Averages
<1>. QED
  BY <1>1, <1>2, <1>3 DEF BiasInv

(* For every table and sampling period, the two frequencies that a biased   *)
(* sample alternates between average to the one asked for within half a     *)
(* jiffy, also when tunables are written between the halves of the sample.  *)
THEOREM BiasAlwaysAverages == Spec => []BiasAverages
<1>1. BiasInv => BiasAverages
  BY DEF BiasInv, LowInv, Averages, BiasAverages
<1>. QED
  BY <1>1, InitBias, BiasKept, PTL DEF Spec

-----------------------------------------------------------------------------
(* A lowered frequency.  What a sample of the kind "down" asks for is the    *)
(* quotient of the load by the percentage it may use, or the minimum.       *)

TunersBound == tuners.up <= 100 /\ tuners.diff >= 3

AsksLowest(r) ==
  LET spare == r.up - r.diff
      quotient == r.load \div spare
  IN  /\ r.up \in Nat /\ r.up <= 100 /\ r.diff \in Nat /\ r.diff >= 3
      /\ r.load \in Nat /\ r.min \in Nat /\ r.relation = "L"
      /\ r.next \in {quotient, r.min}
      /\ r.next >= quotient /\ r.next >= r.min

SampledInv ==
  s.kind = "down" /\ s.bias = 0 /\ s.diff < s.up => AsksLowest(s)

DownInv == TunersBound /\ SampledInv

LEMMA TunersBoundKept ==
  ASSUME BiasInv, TunersBound, [Next]_vars
  PROVE  TunersBound'
<1>0. tuners \in [up : Nat, diff : Nat, down_factor : Nat, bias : 0 .. 1000]
  BY DEF BiasInv, TunersInv
<1>1. CASE StoreTuner
  <2>1. PICK w \in TunerWrites :
          /\ w[2] \in TunerRange[w[1]]
          /\ tuners' = [tuners EXCEPT ![w[1]] = w[2]]
    BY <1>1 DEF StoreTuner
  <2>2. CASE w[1] = "up"
    <3>1. w[2] \in 11 .. 100
      BY <2>1, <2>2 DEF TunerRange
    <3>2. tuners' = [tuners EXCEPT !.up = w[2]]
      BY <2>1, <2>2
    <3>. QED
      BY <1>0, <3>1, <3>2 DEF TunersBound
  <2>3. CASE w[1] = "diff"
    <3>1. w[2] \in 3 .. tuners.up
      BY <2>1, <2>3 DEF TunerRange
    <3>2. tuners' = [tuners EXCEPT !.diff = w[2]]
      BY <2>1, <2>3
    <3>. QED
      BY <1>0, <3>1, <3>2 DEF TunersBound
  <2>4. CASE w[1] \notin {"up", "diff"}
    BY <1>0, <2>1, <2>4 DEF TunersBound
  <2>. QED
    BY <2>2, <2>3, <2>4
<1>2. CASE UNCHANGED tuners
  BY <1>2 DEF TunersBound
<1>. QED
  BY <1>1, <1>2 DEF Next, Work, Sample, SubSample, Target, Requeue, Task,
     StoreMax, Limits, StoreMin, Start, Stop, OtherRequest, vars

LEMMA WrapLarge == Wrap \in Nat /\ Wrap > 100
<1>1. MaxIdx \in Levels
  BY LevelsAssumption DEF Levels
<1>2. Freq[MaxIdx] \in Nat \ {0}
  BY <1>1, FreqAssumption
<1>. QED
  BY <1>2, OndemandAssumption

(* With the margin below the threshold nothing wraps                        *)
LEMMA LowerIsLowest ==
  ASSUME TunersInv, TunersBound, tuners.diff < tuners.up, NEW load \in Nat,
         policy.min \in Nat
  PROVE  LET q == load \div (tuners.up - tuners.diff)
         IN  /\ Lower(load) \in {q, policy.min}
             /\ Lower(load) >= q /\ Lower(load) >= policy.min
<1>. DEFINE d == tuners.up - tuners.diff
            q == load \div d
<1>1. d \in Nat \ {0} /\ d <= 100
  BY DEF TunersInv, TunersBound
<1>2. Spare = d
  <2>. HIDE DEF d
  <2>1. d % Wrap = d
    BY <1>1, WrapLarge
  <2>. QED
    BY <2>1 DEF Spare, d
<1>3. q \in Nat
  <2>. HIDE DEF d
  <2>. QED
    BY <1>1
<1>4. Lower(load) = Max({q, policy.min})
  BY <1>2 DEF Lower
<1>. HIDE DEF q
<1>5. \E m \in {q, policy.min} : \A n \in {q, policy.min} : m >= n
  BY <1>3
<1>6. /\ Lower(load) \in {q, policy.min}
      /\ \A n \in {q, policy.min} : Lower(load) >= n
  BY <1>4, <1>5 DEF Max
<1>. QED
  BY <1>6 DEF q

LEMMA SampleAsksLowest ==
  ASSUME BiasInv, TunersBound, Sample
  PROVE  SampledInv'
<1>. DEFINE load(b) == b * cur
            kind(b) == Decision(load(b))
            asked(b) == IF kind(b) = "up" THEN policy.max
                        ELSE IF kind(b) = "down" THEN Lower(load(b)) ELSE 0
            low(b) == IF tuners.bias = 0 \/ kind(b) = "none" THEN NoLow
                      ELSE Biased(asked(b), IF kind(b) = "up" THEN "H" ELSE "L")
<1>1. PICK b \in Loads :
        s' = [kind |-> kind(b), load |-> load(b), percent |-> b,
              min |-> policy.min, up |-> tuners.up, diff |-> tuners.diff,
              bias |-> tuners.bias,
              next |-> IF tuners.bias = 0 THEN asked(b) ELSE low(b).hi,
              relation |-> IF kind(b) = "up" /\ tuners.bias = 0
                           THEN "H" ELSE "L"]
  BY DEF Sample
<1>2. load(b) \in Nat /\ policy.min \in Nat
  <2>1. b \in Nat /\ cur \in Nat /\ policy.min \in Nat
    BY OndemandAssumption, PolicyFreqs DEF BiasInv
  <2>. QED
    BY <2>1
<1>3. TunersInv
  BY DEF BiasInv
<1>. HIDE DEF load, low
<1>4. SUFFICES ASSUME kind(b) = "down", tuners.bias = 0, tuners.diff < tuners.up
               PROVE  AsksLowest(s')
  BY <1>1 DEF SampledInv, AsksLowest
<1>5. /\ s'.next = Lower(load(b)) /\ s'.relation = "L" /\ s'.load = load(b)
      /\ s'.up = tuners.up /\ s'.diff = tuners.diff /\ s'.min = policy.min
  <2>. HIDE DEF kind
  <2>. QED
    BY <1>1, <1>4
<1>6. tuners.up \in Nat /\ tuners.diff \in Nat
  BY <1>3 DEF TunersInv
<1>. QED
  BY <1>2, <1>3, <1>4, <1>5, <1>6, LowerIsLowest DEF AsksLowest, TunersBound

LEMMA DownKept == BiasInv /\ DownInv /\ [Next]_vars => DownInv'
<1>. SUFFICES ASSUME BiasInv, DownInv, [Next]_vars PROVE DownInv'
  OBVIOUS
<1>1. TunersBound'
  BY TunersBoundKept DEF DownInv
<1>2. CASE Sample
  BY <1>1, <1>2, SampleAsksLowest DEF DownInv
<1>3. CASE SubSample
  BY <1>1, <1>3 DEF SubSample, NoSample, DownInv, SampledInv
<1>4. CASE Requeue
  BY <1>1, <1>4 DEF Requeue, NoSample, DownInv, SampledInv
<1>5. CASE UNCHANGED s
  BY <1>1, <1>5 DEF DownInv, SampledInv, AsksLowest
<1>. QED
  BY <1>2, <1>3, <1>4, <1>5 DEF Next, Work, Target, Task, StoreMax, Limits,
     StoreMin, Start, Stop, StoreTuner, OtherRequest, vars

(* The look-up from below: a level at the frequency or above it with none    *)
(* between, or the fastest level of the policy                              *)
LEMMA LowestAbove ==
  ASSUME NEW pol, InPolicy(pol) # {}, NEW f \in Nat
  PROVE  LET l == TableTarget(pol, f, "L")
         IN  /\ l \in InPolicy(pol)
             /\ Freq[l] >= f \/ l = Fastest(InPolicy(pol))
             /\ \A i \in InPolicy(pol) : Freq[i] < Freq[l] => Freq[i] < f
<1>. DEFINE below == { i \in InPolicy(pol) : Freq[i] <= f }
            above == { i \in InPolicy(pol) : Freq[i] >= f }
            l == TableTarget(pol, f, "L")
<1>1. InPolicy(pol) \in SUBSET Levels /\ above \in SUBSET Levels
  BY DEF InPolicy
<1>2. \A i \in Levels : i \in Nat /\ Freq[i] \in Nat
  BY LevelsAssumption, FreqAssumption DEF Levels
<1>3. l = IF above # {} THEN Slowest(above) ELSE Fastest(below)
  BY DEF TableTarget
<1>. HIDE DEF l
<1>4. CASE above # {}
  <2>1. l \in above /\ \A j \in above : j <= l
    BY <1>1, <1>3, <1>4, SlowestExists
  <2>2. ASSUME NEW i \in InPolicy(pol), Freq[i] < Freq[l] PROVE Freq[i] < f
    <3>1. i \in Levels /\ l \in Levels
      BY <1>1, <2>1
    <3>2. CASE Freq[i] >= f
      <4>1. i <= l /\ i # l
        BY <1>2, <2>1, <2>2, <3>1, <3>2
      <4>2. i < l
        BY <1>2, <3>1, <4>1
      <4>3. Freq[l] < Freq[i]
        BY <3>1, <4>2, FreqAssumption
      <4>. QED
        BY <1>2, <2>2, <3>1, <4>3
    <3>. QED
      BY <1>2, <3>1, <3>2
  <2>. QED
    BY <2>1, <2>2 DEF l
<1>5. CASE above = {}
  <2>1. \A i \in InPolicy(pol) : Freq[i] < f
    BY <1>1, <1>2, <1>5
  <2>2. below = InPolicy(pol)
    BY <1>1, <1>2, <2>1
  <2>3. l = Fastest(InPolicy(pol)) /\ l \in InPolicy(pol)
    BY <1>1, <1>3, <1>5, <2>2, FastestExists
  <2>. QED
    BY <2>1, <2>3 DEF l
<1>. QED
  BY <1>4, <1>5

(* A quotient is rounded down by less than the divisor                      *)
LEMMA QuotientBounds ==
  ASSUME NEW x \in Nat, NEW d \in Nat \ {0}
  PROVE  /\ x \div d \in Nat
         /\ d * (x \div d) <= x
         /\ x < d * (x \div d) + d
OBVIOUS

LEMMA LevelResolution ==
  ASSUME NEW i \in Levels
  PROVE  Freq[i] \in Nat /\ Freq[i] >= 100
<1>1. MinIdx \in Levels /\ i \in Nat /\ i <= MinIdx
  BY LevelsAssumption DEF Levels
<1>2. Freq[i] \in Nat /\ Freq[MinIdx] \in Nat /\ Freq[i] >= Freq[MinIdx]
  BY <1>1, FreqAssumption, LevelsAssumption
<1>. QED
  BY <1>2, FreqResolution

(* What the rounding loses, the margin makes up for: three percent of a     *)
(* frequency are more than the percentages that the quotient dropped        *)
LEMMA QuotientCarries ==
  ASSUME NEW up \in Nat, up <= 100, NEW diff \in Nat, diff >= 3, diff < up,
         NEW load \in Nat, NEW f \in Nat, f >= 100,
         f >= load \div (up - diff)
  PROVE  f * up >= load
<1>. DEFINE d == up - diff
            q == load \div d
<1>1. d \in Nat \ {0} /\ d <= 100 /\ up = d + diff
  OBVIOUS
<1>. HIDE DEF d
<1>2. q \in Nat /\ load < d * q + d
  BY <1>1, QuotientBounds
<1>3. f >= q
  BY DEF d
<1>. HIDE DEF q
<1>4. d * f >= d * q
  BY <1>1, <1>2, <1>3
<1>5. diff * f >= d
  <2>1. diff * f >= 3 * f
    OBVIOUS
  <2>. QED
    BY <1>1, <2>1
<1>6. f * up = d * f + diff * f
  BY <1>1
<1>. QED
  BY <1>1, <1>2, <1>4, <1>5, <1>6

LEMMA TargetSustains ==
  ASSUME BiasInv, DownInv, Target, s.kind = "down", s.bias = 0, s.diff < s.up
  PROVE  /\ \/ cur' * s.up >= s.load
            \/ cur' = Freq[Fastest(InPolicy(policy))]
         /\ \A i \in InPolicy(policy) :
              Freq[i] \in s.min .. cur' - 1 => Freq[i] * (s.up - s.diff) < s.load
<1>. DEFINE l == TableTarget(policy, s.next, "L")
            d == s.up - s.diff
            q == s.load \div d
<1>1. AsksLowest(s)
  BY DEF DownInv, SampledInv
<1>2. cur' = Freq[l]
  BY <1>1 DEF Target, AsksLowest
<1>3. /\ s.up \in Nat /\ s.up <= 100 /\ s.diff \in Nat /\ s.diff >= 3
      /\ s.load \in Nat /\ s.min \in Nat
  BY <1>1 DEF AsksLowest
<1>4. d \in Nat \ {0} /\ d <= 100
  BY <1>3
<1>5. s.next \in {q, s.min} /\ s.next >= q /\ s.next >= s.min
  BY <1>1 DEF AsksLowest
<1>6. q \in Nat /\ d * q <= s.load
  BY <1>3, <1>4, QuotientBounds
<1>. HIDE DEF q
<1>7. s.next \in Nat
  BY <1>3, <1>5, <1>6
<1>8. /\ l \in InPolicy(policy)
      /\ Freq[l] >= s.next \/ l = Fastest(InPolicy(policy))
      /\ \A i \in InPolicy(policy) : Freq[i] < Freq[l] => Freq[i] < s.next
  BY <1>7, PolicyLeavesLevel, LowestAbove DEF BiasInv
<1>. HIDE DEF l
<1>9. l \in Levels /\ Freq[l] \in Nat /\ Freq[l] >= 100
  BY <1>8, LevelResolution DEF InPolicy
<1>10. cur' * s.up >= s.load \/ cur' = Freq[Fastest(InPolicy(policy))]
  <2>1. CASE Freq[l] >= s.next
    <3>1. Freq[l] >= q
      BY <1>5, <1>6, <1>7, <1>9, <2>1
    <3>. QED
      BY <1>2, <1>3, <1>9, <3>1, QuotientCarries DEF q
  <2>2. CASE l = Fastest(InPolicy(policy))
    BY <1>2, <2>2
  <2>. QED
    BY <1>8, <2>1, <2>2
<1>11. ASSUME NEW i \in InPolicy(policy), Freq[i] \in s.min .. cur' - 1
       PROVE  Freq[i] * d < s.load
  <2>1. Freq[i] \in Nat /\ s.min <= Freq[i] /\ Freq[i] < Freq[l]
    BY <1>2, <1>3, <1>9, <1>11, LevelResolution DEF InPolicy
  <2>2. Freq[i] < s.next
    BY <1>8, <2>1
  <2>3. s.next = q
    BY <1>3, <1>5, <2>1, <2>2
  <2>4. Freq[i] <= q - 1
    BY <1>6, <2>1, <2>2, <2>3
  <2>5. d * Freq[i] <= d * (q - 1) /\ d * (q - 1) = d * q - d
    <3>. HIDE DEF d
    <3>1. d * (q - 1 - Freq[i]) \in Nat
      BY <1>4, <1>6, <2>1, <2>4
    <3>. QED
      BY <1>4, <1>6, <2>1, <3>1
  <2>. QED
    <3>. HIDE DEF d
    <3>1. d * Freq[i] \in Int /\ Freq[i] * d = d * Freq[i] /\ d * q \in Int
      BY <1>4, <1>6, <2>1
    <3>. QED
      BY <1>3, <1>4, <1>6, <2>5, <3>1
<1>. QED
  BY <1>10, <1>11

(* For every table, tunables and limits, also when they are written while a *)
(* sample is under way: a lowered frequency carries the load sampled and no *)
(* slower one of the policy would with the margin.                          *)
THEOREM LowersToLowest == Spec => LowestSustaining
<1>1. Init => BiasInv /\ DownInv
  BY InitBias DEF Init, DownInv, TunersBound, SampledInv, NoSample
<1>2. BiasInv /\ DownInv /\ [Next]_vars =>
        [Target /\ s.kind = "down" /\ s.bias = 0 /\ s.diff < s.up =>
           /\ \/ cur' * s.up >= s.load
              \/ cur' = Freq[Fastest(InPolicy(policy))]
           /\ \A i \in InPolicy(policy) :
                Freq[i] \in s.min .. cur' - 1
                  => Freq[i] * (s.up - s.diff) < s.load]_vars
  BY TargetSustains
<1>. QED
  BY <1>1, <1>2, BiasKept, DownKept, PTL DEF Spec, LowestSustaining
================================================================================
