-------------------------- MODULE VbfsSamplingProofs --------------------------
(***************************************************************************)
(* Proofs about VbfsSampling, for every frequency table, set of loads and  *)
(* of limits, any limits being stored in the middle of a sample.           *)
(*                                                                         *)
(* The limits that a sample finds and those its three searches find can    *)
(* differ, but one change of the limits at most overlaps a sample, since a *)
(* change ends with CPUFREQ_GOV_LIMITS, for which the work must wait.  So  *)
(* each search finds limits that are related to what the sample saw: a     *)
(* bound that differs from it will not be stored again before the work is  *)
(* done (MinStays, MaxStays).                                              *)
(***************************************************************************)
EXTENDS VbfsSampling, FiniteSetTheorems, WellFoundedInduction, TLAPS

-----------------------------------------------------------------------------
(* Look-ups in the frequency table                                          *)

(* The order of the natural numbers is well founded, so every nonempty set *)
(* of them has a least element.                                            *)
LEMMA LeastNatural ==
  ASSUME NEW S \in SUBSET Nat, S # {}
  PROVE  \E n \in S : \A j \in S : n <= j
<1>. DEFINE R == OpToRel(<, Nat)
<1>1. IsWellFoundedOn(R, Nat)
  BY NatLessThanWellFounded
<1>2. \A x, y \in Nat : x < y => <<x, y>> \in R
  BY DEF OpToRel
<1>. HIDE DEF R
<1>3. PICK n \in S : \A j \in S : <<j, n>> \notin R
  BY <1>1, WFMin
<1>4. ASSUME NEW j \in S PROVE n <= j
  <2>1. n \in Nat /\ j \in Nat
    OBVIOUS
  <2>2. ~(j < n)
    BY <1>2, <1>3, <2>1
  <2>. QED
    BY ONLY <2>1, <2>2
<1>. QED
  BY <1>4

(* A nonempty set of levels has a fastest and a slowest one.               *)
LEMMA FastestExists ==
  ASSUME NEW S \in SUBSET Levels, S # {}
  PROVE  Fastest(S) \in S /\ \A j \in S : Fastest(S) <= j
<1>1. S \in SUBSET Nat
  BY LevelsAssumption DEF Levels
<1>2. PICK n \in S : \A j \in S : n <= j
  BY <1>1, LeastNatural
<1>. QED
  BY <1>2 DEF Fastest

LEMMA SlowestExists ==
  ASSUME NEW S \in SUBSET Levels, S # {}
  PROVE  Slowest(S) \in S /\ \A j \in S : j <= Slowest(S)
<1>. DEFINE M == { MinIdx - i : i \in S }
<1>1. M \in SUBSET Nat /\ M # {}
  BY LevelsAssumption DEF Levels
<1>2. PICK n \in M : \A j \in M : n <= j
  BY <1>1, LeastNatural
<1>3. PICK m \in S : n = MinIdx - m
  BY <1>2
<1>4. \A j \in S : j <= m
  <2>1. SUFFICES ASSUME NEW j \in S PROVE j <= m
    OBVIOUS
  <2>2. n <= MinIdx - j
    BY <1>2
  <2>. QED
    BY <1>3, <2>2, LevelsAssumption DEF Levels
<1>. QED
  BY <1>3, <1>4 DEF Slowest

-----------------------------------------------------------------------------
(* Levels and frequencies run in opposite directions.                      *)

LEMMA FreqIsNat == \A i \in Levels : i \in Nat /\ Freq[i] \in Nat /\ Freq[i] > 0
  BY FreqAssumption, LevelsAssumption DEF Levels

LEMMA FreqOrder ==
  ASSUME NEW i \in Levels, NEW j \in Levels
  PROVE  /\ i < j <=> Freq[j] < Freq[i]
         /\ i <= j <=> Freq[j] <= Freq[i]
         /\ i = j <=> Freq[i] = Freq[j]
<1>1. /\ i < j => Freq[j] < Freq[i]
      /\ j < i => Freq[i] < Freq[j]
  BY FreqAssumption
<1>2. i \in Int /\ j \in Int /\ Freq[i] \in Int /\ Freq[j] \in Int
  BY FreqIsNat
<1>. QED
  BY <1>1, <1>2

(* The neighbours of a level.                                              *)
LEMMA Neighbours ==
  ASSUME NEW i \in Levels
  PROVE  /\ i # MinIdx => i + 1 \in Levels
         /\ i # MaxIdx => i - 1 \in Levels
         /\ MinIdx \in Levels /\ MaxIdx \in Levels
         /\ Freq[MinIdx] <= Freq[i] /\ Freq[i] <= Freq[MaxIdx]
<1>1. /\ i # MinIdx => i + 1 \in Levels
      /\ i # MaxIdx => i - 1 \in Levels
      /\ MinIdx \in Levels /\ MaxIdx \in Levels
      /\ MaxIdx <= i /\ i <= MinIdx
  BY LevelsAssumption DEF Levels
<1>. QED
  BY <1>1, FreqOrder

(* A finite set of numbers that is not empty has a largest one.            *)
LEMMA LargestExists ==
  ASSUME NEW S \in SUBSET Int, IsFiniteSet(S), S # {}
  PROVE  Max(S) \in S
<1>. DEFINE HasMax(T) == \E x \in T : \A y \in T : x >= y
            Bad == {T \in SUBSET S : T # {} /\ ~HasMax(T)}
<1>1. Bad = {}
  <2>1. SUFFICES ASSUME Bad # {} PROVE FALSE
    OBVIOUS
  <2>2. Bad \subseteq FiniteSubsetsOf(S)
    BY FS_Subset DEF FiniteSubsetsOf
  <2>3. PICK m \in Bad : \A y \in Bad : ~(<<y, m>> \in StrictSubsetOrdering(S))
    BY <2>1, <2>2, FS_StrictSubsetOrderingWellFounded, WFMin
  <2>4. PICK x \in m : TRUE
    OBVIOUS
  <2>5. m \ {x} \notin Bad
    BY <2>3, <2>4 DEF StrictSubsetOrdering
  <2>6. m \ {x} # {}
    <3>1. SUFFICES ASSUME m = {x} PROVE FALSE
      BY <2>4
    <3>. QED
      BY <3>1
  <2>7. PICK z \in m \ {x} : \A y \in m \ {x} : z >= y
    BY <2>5, <2>6
  <2>8. x \in Int /\ z \in Int /\ \A y \in m : y \in Int
    BY <2>4, <2>7
  <2>9. HasMax(m)
    <3>1. CASE z >= x
      BY <2>7, <3>1
    <3>2. CASE x >= z
      <4>1. \A y \in m : x >= y
        BY <2>7, <2>8, <3>2
      <4>. QED
        BY <2>4, <4>1
    <3>. QED
      BY <2>8, <3>1, <3>2
  <2>. QED
    BY <2>9
<1>2. HasMax(S)
  BY <1>1
<1>. QED
  BY <1>2 DEF Max

-----------------------------------------------------------------------------
(* The look-ups                                                            *)

LEMMA InPolicyLevels == \A p : InPolicy(p) \in SUBSET Levels
  BY DEF InPolicy

(* A level between two that a policy admits, or within its bounds, is one  *)
(* of the policy's.                                                        *)
LEMMA TargetSplit ==
  ASSUME NEW p, InPolicy(p) # {}, NEW f \in Nat
  PROVE  LET P == InPolicy(p)
             h == TableTarget(p, f, "H")
             l == TableTarget(p, f, "L")
         IN  /\ \/ /\ h \in P /\ Freq[h] <= f
                   /\ \A j \in P : Freq[j] <= f => h <= j
                \/ /\ h \in P /\ f < Freq[h] /\ h = Slowest(P)
                   /\ \A j \in P : j <= h /\ f < Freq[j]
             /\ \/ /\ l \in P /\ Freq[l] >= f
                   /\ \A j \in P : Freq[j] >= f => j <= l
                \/ /\ l \in P /\ Freq[l] < f /\ l = Fastest(P)
                   /\ \A j \in P : l <= j /\ Freq[j] < f
<1>. DEFINE P == InPolicy(p)
            below == { i \in P : Freq[i] <= f }
            above == { i \in P : Freq[i] >= f }
<1>1. below \in SUBSET Levels /\ above \in SUBSET Levels /\ P \in SUBSET Levels
  BY DEF InPolicy
<1>2. \A i \in P : Freq[i] \in Nat
  BY FreqIsNat, <1>1
<1>3. /\ below # {} => Fastest(below) \in below /\ \A j \in below : Fastest(below) <= j
      /\ above # {} => Slowest(above) \in above /\ \A j \in above : j <= Slowest(above)
  BY <1>1, FastestExists, SlowestExists
<1>4. /\ below = {} => above = P /\ \A j \in P : f < Freq[j]
      /\ above = {} => below = P /\ \A j \in P : Freq[j] < f
  BY <1>2
<1>5. /\ TableTarget(p, f, "H") =
           IF below # {} THEN Fastest(below) ELSE Slowest(above)
      /\ TableTarget(p, f, "L") =
           IF above # {} THEN Slowest(above) ELSE Fastest(below)
  BY DEF TableTarget
<1>. HIDE DEF P
<1>6. P # {}
  BY DEF P
<1>7. LET h == TableTarget(p, f, "H")
      IN  \/ /\ h \in P /\ Freq[h] <= f
             /\ \A j \in P : Freq[j] <= f => h <= j
          \/ /\ h \in P /\ f < Freq[h] /\ h = Slowest(P)
             /\ \A j \in P : j <= h /\ f < Freq[j]
  <2>1. CASE below # {}
    BY <1>3, <1>5, <2>1
  <2>2. CASE below = {}
    BY <1>3, <1>4, <1>5, <1>6, <2>2
  <2>. QED
    BY <2>1, <2>2
<1>8. LET l == TableTarget(p, f, "L")
      IN  \/ /\ l \in P /\ Freq[l] >= f
             /\ \A j \in P : Freq[j] >= f => j <= l
          \/ /\ l \in P /\ Freq[l] < f /\ l = Fastest(P)
             /\ \A j \in P : l <= j /\ Freq[j] < f
  <2>1. CASE above # {}
    BY <1>3, <1>5, <2>1
  <2>2. CASE above = {}
    BY <1>3, <1>4, <1>5, <1>6, <2>2
  <2>. QED
    BY <2>1, <2>2
<1>. QED
  BY <1>7, <1>8 DEF P

LEMMA TargetInPolicy ==
  ASSUME NEW p, InPolicy(p) # {}, NEW f \in Nat, NEW r
  PROVE  TableTarget(p, f, r) \in InPolicy(p)
<1>1. /\ TableTarget(p, f, "H") \in InPolicy(p)
      /\ TableTarget(p, f, "L") \in InPolicy(p)
  BY TargetSplit
<1>2. r = "H" \/ TableTarget(p, f, r) = TableTarget(p, f, "L")
  BY DEF TableTarget
<1>. QED
  BY <1>1, <1>2

(* Looking a frequency of the table up leads away from it only to the end  *)
(* of the policy that is nearest.                                          *)
LEMMA TargetOfSpeed ==
  ASSUME NEW p, p.min \in Nat, p.max \in Nat, InPolicy(p) # {}, NEW f \in Speeds
  PROVE  LET h == TableTarget(p, f, "H")
             l == TableTarget(p, f, "L")
         IN  /\ Freq[h] >= f \/ h = Fastest(InPolicy(p))
             /\ Freq[l] <= f \/ l = Slowest(InPolicy(p))
<1>. DEFINE P == InPolicy(p)
            h == TableTarget(p, f, "H")
            l == TableTarget(p, f, "L")
<1>1. PICK k \in Levels : f = Freq[k]
  BY DEF Speeds
<1>2. f \in Nat
  BY <1>1, FreqIsNat
<1>3. k \in P <=> p.min <= f /\ f <= p.max
  BY <1>1 DEF InPolicy
<1>4. \A j \in P : j \in Levels /\ j \in Nat /\ Freq[j] \in Nat
                   /\ p.min <= Freq[j] /\ Freq[j] <= p.max
  BY FreqIsNat DEF InPolicy
<1>5. P \in SUBSET Levels /\ P # {}
  BY DEF InPolicy
<1>6. /\ Fastest(P) \in P /\ \A j \in P : Fastest(P) <= j
      /\ Slowest(P) \in P /\ \A j \in P : j <= Slowest(P)
  BY <1>5, FastestExists, SlowestExists
<1>7. Freq[h] >= f \/ h = Fastest(P)
  <2>1. SUFFICES ASSUME Freq[h] < f PROVE h = Fastest(P)
    BY <1>2, <1>4, TargetSplit
  <2>2. h \in P /\ \A j \in P : Freq[j] <= f => h <= j
    BY <1>2, <1>4, <2>1, TargetSplit
  <2>3. k \notin P
    BY <1>1, <1>2, <1>4, <2>1, <2>2, FreqOrder
  <2>4. \A j \in P : Freq[j] <= f
    BY <1>2, <1>3, <1>4, <2>1, <2>2, <2>3
  <2>. QED
    BY <1>4, <1>6, <2>2, <2>4
<1>8. Freq[l] <= f \/ l = Slowest(P)
  <2>1. SUFFICES ASSUME f < Freq[l] PROVE l = Slowest(P)
    BY <1>2, <1>4, TargetSplit
  <2>2. l \in P /\ \A j \in P : Freq[j] >= f => j <= l
    BY <1>2, <1>4, <2>1, TargetSplit
  <2>3. k \notin P
    BY <1>1, <1>2, <1>4, <2>1, <2>2, FreqOrder
  <2>4. \A j \in P : Freq[j] >= f
    BY <1>2, <1>3, <1>4, <2>1, <2>2, <2>3
  <2>. QED
    BY <1>4, <1>6, <2>2, <2>4
<1>. QED
  BY <1>7, <1>8

-----------------------------------------------------------------------------
(* Types                                                                   *)

LEMMA SpeedIsNat == \A f \in Speeds : f \in Nat
  BY FreqIsNat DEF Speeds

LEMMA AdmittedIsNat == \A f \in Admitted : f \in Nat
  BY FreqIsNat, Neighbours, LevelsAssumption DEF Admitted, Levels

LEMMA PolicyTypes ==
  ASSUME LimitsOK
  PROVE  /\ policy.min \in Nat /\ policy.max \in Nat
         /\ change.min \in Nat /\ change.max \in Nat
         /\ Freq[MinIdx] <= policy.min /\ policy.max <= Freq[MaxIdx]
  BY AdmittedIsNat DEF LimitsOK, NoChange, Admitted

(* A look-up returns a level within the limits, or leaves 0 if there is    *)
(* none.                                                                   *)
LEMMA LookupInPolicy ==
  ASSUME NEW f \in Nat, NEW r
  PROVE  /\ Lookup(f, r) \in Indices
         /\ InPolicy(policy) # {} =>
              /\ Lookup(f, r) = TableTarget(policy, f, r)
              /\ Lookup(f, r) \in InPolicy(policy)
              /\ Lookup(f, r) \in Levels /\ Freq[Lookup(f, r)] \in Speeds
<1>1. CASE InPolicy(policy) = {}
  BY <1>1 DEF Lookup, Indices
<1>2. CASE InPolicy(policy) # {}
  <2>1. Lookup(f, r) = TableTarget(policy, f, r)
    BY <1>2 DEF Lookup
  <2>2. Lookup(f, r) \in InPolicy(policy)
    BY <1>2, <2>1, TargetInPolicy
  <2>3. Lookup(f, r) \in Levels
    BY <2>2, InPolicyLevels
  <2>. QED
    BY <2>1, <2>2, <2>3 DEF Indices, Speeds
<1>. QED
  BY <1>1, <1>2

LEMMA IndexIsNat == \A i \in Indices : i \in Nat
  BY FreqIsNat DEF Indices

LEMMA FreqAtIsNat == \A i : FreqAt(i) \in Nat
  BY FreqIsNat, Neighbours, LevelsAssumption DEF FreqAt, InvalidFreq, Levels

LEMMA MaxLoadType ==
  ASSUME NEW load \in [Cpus -> Loads], TypeOK
  PROVE  MaxLoad(load) \in 0 .. 100
<1>. DEFINE busy == { c \in Cpus : load[c] * cur > 0 }
<1>1. busy # {} => Max(busy) \in Cpus
  BY SamplesAssumption, FS_Subset, LargestExists
<1>2. \A c \in Cpus : load[c] \in 0 .. 100
  BY SamplesAssumption
<1>3. res.max_load \in 0 .. 100
  BY DEF TypeOK, Resources
<1>. QED
  BY <1>1, <1>2, <1>3 DEF MaxLoad

LEMMA MemPortionType ==
  ASSUME NEW used \in MemUsed
  PROVE  MemPortion(used) \in Nat
<1>1. used \in Nat /\ MemTotal \in Nat /\ MemTotal > 0 /\ MemWrap \in Nat /\ MemWrap > 0
  BY SamplesAssumption
<1>. DEFINE x == (used * 10000) % MemWrap
            q == x \div MemTotal
<1>2. x \in Nat
  <2>. DEFINE y == used * 10000
  <2>1. y \in Nat
    BY <1>1
  <2>. HIDE DEF y
  <2>. QED
    BY <1>1, <2>1
<1>. HIDE DEF x
<1>3. q \in Int /\ x < MemTotal * q + MemTotal
  BY <1>1, <1>2
<1>. HIDE DEF q
<1>4. q >= 0
  <2>1. SUFFICES ASSUME q <= -1 PROVE FALSE
    BY <1>3
  <2>2. MemTotal * (q + 1) <= 0
    BY <1>1, <1>3, <2>1
  <2>3. MemTotal * (q + 1) = MemTotal * q + MemTotal
    BY <1>1, <1>3
  <2>. QED
    BY <1>1, <1>2, <1>3, <2>2, <2>3
<1>. QED
  BY <1>3, <1>4 DEF MemPortion, x, q

LEMMA CondType ==
  ASSUME NEW d, NEW up, NEW down PROVE Cond(d, up, down) \in {-1, 0, 1}
  BY DEF Cond

LEMMA LoadCondType ==
  ASSUME NEW l, NEW d
  PROVE  LoadCond(l, d) \in Ups \cup Downs \cup {"settled", "no_need"}
  BY DEF LoadCond, Ups, Downs

LEMMA SelectedType ==
  ASSUME TypeOK, NEW end \in Nat
  PROVE  Selected(end) \in Int
<1>1. /\ s.start \in Nat /\ s.index \in Nat /\ s.usage \in 0 .. 100
  BY IndexIsNat DEF TypeOK, Locals
<1>2. ScaledDown(s.start, end) \in Int
  <2>. DEFINE x == (s.start - end + 1) % IndexWrap
  <2>1. IndexWrap \in Nat /\ IndexWrap > 0
    BY SamplesAssumption, LevelsAssumption
  <2>2. x \in Int
    BY <1>1, <2>1
  <2>. HIDE DEF x
  <2>3. x \div 3 + end \in Int
    BY <2>2
  <2>. QED
    BY <2>3 DEF ScaledDown, x
<1>3. ScaledUp(s.start, end, s.usage) \in Int
  <2>. DEFINE n == (s.start - end + 1) * s.usage - 1
              m == IF n < 0 THEN 0 ELSE n
  <2>1. n \in Int
    BY <1>1
  <2>. HIDE DEF n
  <2>2. m \in Int
    BY <2>1
  <2>. HIDE DEF m
  <2>3. m \div 100 - s.start \in Int
    BY <1>1, <2>2
  <2>. QED
    BY <2>3 DEF ScaledUp, Abs, m, n
<1>. QED
  BY <1>1, <1>2, <1>3 DEF Selected

LEMMA MovedType ==
  ASSUME TypeOK, ~Uninitialised, NEW i \in Indices
  PROVE  /\ Moved(i) \in Int
         /\ i \in Levels => Moved(i) \in Levels
         /\ s.point > 0 => Moved(i) <= i
         /\ s.point < 0 => Moved(i) >= i
<1>1. /\ s.point \in -2 .. 2
      /\ res.maxfreqindex \in Levels /\ res.minfreqindex \in Levels
  BY DEF TypeOK, Locals, Resources, Indices, Uninitialised
<1>2. /\ i \in Int /\ res.maxfreqindex \in Int /\ res.minfreqindex \in Int
      /\ \A j \in Levels : MaxIdx <= j /\ j <= MinIdx
      /\ MaxIdx \in Nat /\ MinIdx \in Nat
  BY <1>1, IndexIsNat, FreqIsNat, LevelsAssumption DEF Levels
<1>3. \A a, b \in Int : /\ Max({a, b}) = IF a >= b THEN a ELSE b
                        /\ Min({a, b}) = IF a <= b THEN a ELSE b
  <2>1. SUFFICES ASSUME NEW a \in Int, NEW b \in Int
                 PROVE  /\ Max({a, b}) = IF a >= b THEN a ELSE b
                        /\ Min({a, b}) = IF a <= b THEN a ELSE b
    OBVIOUS
  <2>. QED
    BY DEF Max, Min
<1>4. CASE s.point > 0
  <2>1. Moved(i) = IF i <= res.maxfreqindex THEN i
                   ELSE IF res.maxfreqindex >= i - s.point
                        THEN res.maxfreqindex ELSE i - s.point
    BY <1>1, <1>2, <1>3, <1>4 DEF Moved
  <2>. QED
    BY <1>1, <1>2, <1>4, <2>1 DEF Levels
<1>5. CASE ~(s.point > 0)
  <2>1. Moved(i) = IF i >= res.minfreqindex THEN i
                   ELSE IF res.minfreqindex <= i - s.point
                        THEN res.minfreqindex ELSE i - s.point
    <3>. DEFINE a == i - s.point
    <3>1. a \in Int
      BY <1>1, <1>2
    <3>2. Min({res.minfreqindex, a}) =
            IF res.minfreqindex <= a THEN res.minfreqindex ELSE a
      BY <1>2, <1>3, <3>1
    <3>3. Moved(i) = IF i >= res.minfreqindex THEN i
                     ELSE Min({res.minfreqindex, a})
      BY <1>5 DEF Moved
    <3>. QED
      BY <3>2, <3>3
  <2>. QED
    BY <1>1, <1>2, <1>5, <2>1 DEF Levels
<1>. QED
  BY <1>4, <1>5

LEMMA InitType == Init => TypeOK
<1>. SUFFICES ASSUME Init PROVE TypeOK
  OBVIOUS
<1>1. MaxIdx \in Levels /\ MinIdx \in Levels /\ MaxIdx \in Nat
      /\ Freq[MinIdx] \in Nat /\ Freq[MaxIdx] \in Nat /\ Freq[MinIdx] <= Freq[MaxIdx]
  BY FreqIsNat, Neighbours, LevelsAssumption DEF Levels
<1>2. LimitsOK
  <2>1. policy \in [min : Admitted, max : Admitted] /\ MinIdx \in InPolicy(policy)
    BY <1>1 DEF Init, Admitted, InPolicy
  <2>. QED
    BY <2>1 DEF Init, LimitsOK, NoChange
<1>3. s \in Locals
  BY <1>1, FreqIsNat
  DEF Init, NoSample, Locals, Ups, Downs, Indices, Relations
<1>4. res \in Resources
  BY DEF Init, Resources, Indices
<1>. QED
  BY <1>2, <1>3, <1>4, SamplesAssumption, LimitsAssumption DEF Init, TypeOK, Speeds

LEMMA StoresType == TypeOK /\ (StoreMin \/ StoreMax \/ GovLimits) => TypeOK'
<1>. SUFFICES ASSUME TypeOK, StoreMin \/ StoreMax \/ GovLimits PROVE TypeOK'
  OBVIOUS
<1>1. LimitsOK
  BY DEF TypeOK
<1>2. CASE StoreMin
  <2>1. PICK min, max \in Limits :
          /\ Acceptable(min, max)
          /\ policy' = [policy EXCEPT !.min = min]
          /\ change' = [at |-> "max", min |-> min, max |-> max]
    BY <1>2 DEF StoreMin
  <2>2. min \in Admitted /\ max \in Admitted
    BY LimitsAssumption DEF Admitted
  <2>3. LimitsOK'
    BY <1>1, <2>1, <2>2 DEF LimitsOK, Acceptable, InPolicy
  <2>4. s' \in Locals
    BY <1>2 DEF StoreMin, TypeOK, Locals
  <2>5. writes' \in 0 .. MaxWrites
    BY <1>2, LimitsAssumption DEF StoreMin, TypeOK
  <2>. QED
    BY <1>2, <2>3, <2>4, <2>5 DEF StoreMin, TypeOK, Uninitialised
<1>3. CASE StoreMax
  <2>1. /\ change \in [at : {"max", "limits"}, min : Admitted, max : Admitted]
        /\ policy' = [policy EXCEPT !.max = change.max]
        /\ change' = [change EXCEPT !.at = "limits"] /\ change.at = "max"
    BY <1>1, <1>3 DEF StoreMax, LimitsOK, NoChange
  <2>2. LimitsOK'
    BY <1>1, <2>1 DEF LimitsOK, InPolicy
  <2>3. s' \in Locals
    BY <1>3 DEF StoreMax, TypeOK, Locals
  <2>. QED
    BY <1>3, <2>2, <2>3 DEF StoreMax, TypeOK, Uninitialised
<1>4. CASE GovLimits
  <2>1. LimitsOK'
    BY <1>1, <1>4 DEF GovLimits, LimitsOK, NoChange
  <2>2. InPolicy(policy) # {}
    BY <1>1, <1>4 DEF GovLimits, LimitsOK
  <2>3. cur' \in Speeds
    BY <1>1, <1>4, <2>2, LookupInPolicy, PolicyTypes DEF GovLimits, TypeOK
  <2>. QED
    BY <1>4, <2>1, <2>3 DEF GovLimits, TypeOK, Uninitialised
<1>. QED
  BY <1>2, <1>3, <1>4

LEMMA SampleType == TypeOK /\ Sample => TypeOK'
<1>. SUFFICES ASSUME TypeOK, Sample PROVE TypeOK'
  OBVIOUS
<1>1. PICK load \in [Cpus -> Loads], threads \in Threads, used \in MemUsed :
        SampleOf(load, threads, used)
  BY DEF Sample
<1>. DEFINE max_load == MaxLoad(load)
            mem == MemPortion(used)
            cond == LoadCond(max_load, max_load - res.max_load)
            point == Cond(threads - res.thread_prev,
                          tuners.thread_up, tuners.thread_down)
                       + Cond(mem - res.mem_prev, tuners.mem_up, tuners.mem_down)
<1>2. /\ max_load \in 0 .. 100 /\ mem \in Nat /\ threads \in Nat
      /\ cond \in Ups \cup Downs \cup {"settled", "no_need"}
      /\ point \in -2 .. 2
  BY MaxLoadType, MemPortionType, LoadCondType, CondType, SamplesAssumption
<1>. HIDE DEF max_load, mem, cond, point
<1>3. LimitsOK /\ LimitsOK' /\ cur \in Nat /\ policy.min \in Nat /\ policy.max \in Nat
  BY PolicyTypes, SpeedIsNat
  DEF Sample, outside, TypeOK, LimitsOK
<1>4. res' \in Resources
  <2>1. Lookup(policy.max, "H") \in Indices /\ Lookup(policy.min, "L") \in Indices
    BY <1>3, LookupInPolicy
  <2>. QED
    BY <1>1, <1>2, <1>3, <2>1
    DEF SampleOf, Resources, TypeOK, max_load, mem, cond
<1>5. lazy' \in 0 .. LazyWrap - 1
  BY <1>1, SamplesAssumption DEF SampleOf, LazyCount, TypeOK
<1>6. CASE Uninitialised
  BY <1>1, <1>3, <1>4, <1>5, <1>6 DEF SampleOf, Sample, outside, TypeOK
<1>7. CASE ~Uninitialised
  <2>1. /\ s' = [NoSample EXCEPT
             !.cond = cond, !.point = point, !.freq = cur, !.usage = max_load,
             !.from = IF cond \in Ups THEN cur ELSE policy.min,
             !.to = IF cond \in Ups THEN policy.max ELSE cur,
             !.out = cur < policy.min \/ policy.max < cur]
        /\ pc' = IF cond \in Ups \cup Downs THEN "index" ELSE "adjust"
    BY <1>1, <1>7 DEF SampleOf, max_load, mem, cond, point
  <2>2. MaxIdx \in Int /\ NoSample.index \in Indices
    BY LevelsAssumption DEF NoSample, Indices
  <2>3. s' \in Locals
    BY <1>2, <1>3, <2>1, <2>2 DEF NoSample, Locals, Indices, Relations
  <2>4. ~Uninitialised'
    BY <1>1, <1>7 DEF SampleOf, Uninitialised, TypeOK, Resources
  <2>5. s'.cond = cond
    BY <2>1 DEF NoSample
  <2>. QED
    BY <1>3, <1>4, <1>5, <2>1, <2>3, <2>4, <2>5 DEF Sample, outside, TypeOK
<1>. QED
  BY <1>6, <1>7

LEMMA SearchType == TypeOK /\ (FindIndex \/ FindStart) => TypeOK'
<1>. SUFFICES ASSUME TypeOK, FindIndex \/ FindStart PROVE TypeOK'
  OBVIOUS
<1>1. /\ \A r : Lookup(s.freq, r) \in Indices
      /\ \A r : Lookup(s.from, r) \in Indices
      /\ Lost \in BOOLEAN
  BY LookupInPolicy DEF TypeOK, Locals, Lost
<1>2. LimitsOK'
  BY DEF FindIndex, FindStart, outside, TypeOK, LimitsOK
<1>3. s' \in Locals /\ s'.cond = s.cond
  <2>1. CASE FindIndex
    <3>. DEFINE i == Lookup(s.freq, IF s.cond \in Ups THEN "H" ELSE "L")
    <3>1. i \in Indices /\ s' = [s EXCEPT !.index = i, !.lost = Lost]
      BY <1>1, <2>1 DEF FindIndex
    <3>. HIDE DEF i
    <3>. QED
      BY <1>1, <3>1 DEF TypeOK, Locals
  <2>2. CASE FindStart
    <3>. DEFINE i == Lookup(s.from, "L")
    <3>1. i \in Indices /\ s' = [s EXCEPT !.start = i, !.lost = Lost]
      BY <1>1, <2>2 DEF FindStart
    <3>. HIDE DEF i
    <3>. QED
      BY <1>1, <3>1 DEF TypeOK, Locals
  <2>. QED
    BY <2>1, <2>2
<1>. QED
  BY <1>2, <1>3 DEF FindIndex, FindStart, outside, TypeOK, Uninitialised

LEMMA SelectType == TypeOK /\ Select => TypeOK'
<1>. SUFFICES ASSUME TypeOK, Select PROVE TypeOK'
  OBVIOUS
<1>. DEFINE i == Selected(Lookup(s.to, "H"))
<1>1. i \in Int /\ Lost \in BOOLEAN /\ FreqAt(i) \in Nat /\ cur \in Nat
  BY SelectedType, LookupInPolicy, IndexIsNat, FreqAtIsNat, SpeedIsNat
  DEF TypeOK, Locals, Lost
<1>. HIDE DEF i
<1>2. /\ res' = [res EXCEPT !.next_freq = IF LazyOver THEN FreqAt(i) ELSE cur]
      /\ s' = [s EXCEPT !.read = IF LazyOver THEN i ELSE @, !.lost = Lost]
  BY DEF Select, i
<1>3. LimitsOK'
  BY DEF Select, outside, TypeOK, LimitsOK
<1>4. s' \in Locals
  BY <1>1, <1>2 DEF TypeOK, Locals
<1>5. res' \in Resources
  <2>1. (IF LazyOver THEN FreqAt(i) ELSE cur) \in Nat
    BY <1>1
  <2>. QED
    BY <1>2, <2>1 DEF TypeOK, Resources
<1>6. ~Uninitialised'
  <2>1. res'.maxfreqindex = res.maxfreqindex /\ res'.minfreqindex = res.minfreqindex
    BY <1>2 DEF TypeOK, Resources
  <2>2. ~Uninitialised
    BY DEF Select, TypeOK
  <2>. QED
    BY <2>1, <2>2 DEF Uninitialised
<1>. QED
  BY <1>3, <1>4, <1>5, <1>6, SamplesAssumption DEF Select, outside, TypeOK

LEMMA AdjustType == TypeOK /\ Adjust => TypeOK'
<1>. SUFFICES ASSUME TypeOK, Adjust PROVE TypeOK'
  OBVIOUS
<1>. DEFINE from == IF s.cond = "no_need" THEN cur ELSE res.next_freq
            i == Moved(Lookup(from, Relation))
<1>1. i \in Int /\ Lost \in BOOLEAN /\ FreqAt(i) \in Nat
  <2>1. from \in Nat
    BY SpeedIsNat DEF TypeOK, Resources
  <2>. HIDE DEF from
  <2>2. Lookup(from, Relation) \in Indices
    BY <2>1, LookupInPolicy
  <2>3. pc # "wait"
    BY DEF Adjust
  <2>. QED
    BY <2>2, <2>3, MovedType, FreqAtIsNat DEF TypeOK, Locals, Lost
<1>. HIDE DEF i
<1>2. /\ res' = [res EXCEPT !.adj = s.cond # "no_need" \/ Adjusted,
                            !.next_freq = IF Adjusted THEN FreqAt(i) ELSE @]
      /\ s' = [s EXCEPT !.relation = Relation,
                        !.read = IF Adjusted THEN i ELSE @, !.lost = Lost]
  BY DEF Adjust, i
<1>3. LimitsOK'
  BY DEF Adjust, outside, TypeOK, LimitsOK
<1>4. Adjusted \in BOOLEAN /\ Relation \in Relations
  BY DEF Adjusted, Relation, Relations
<1>5. s' \in Locals
  BY <1>1, <1>2, <1>4 DEF TypeOK, Locals
<1>6. res' \in Resources /\ ~Uninitialised'
  BY <1>1, <1>2, <1>4 DEF Adjust, TypeOK, Resources, Uninitialised
<1>. QED
  BY <1>3, <1>5, <1>6 DEF Adjust, outside, TypeOK

LEMMA TargetType == TypeOK /\ Target => TypeOK'
<1>. SUFFICES ASSUME TypeOK, Target PROVE TypeOK'
  OBVIOUS
<1>1. LimitsOK'
  BY DEF Target, outside, TypeOK, LimitsOK
<1>2. cur' \in Speeds
  <2>1. InPolicy(policy) # {} =>
          Freq[TableTarget(policy, res.next_freq, s.relation)] \in Speeds
    BY LookupInPolicy DEF TypeOK, Resources
  <2>. QED
    BY <2>1 DEF Target, TypeOK
<1>3. s' \in Locals
  <2>1. MaxIdx \in Int /\ 0 \in Indices
    BY LevelsAssumption DEF Indices
  <2>. QED
    BY <2>1 DEF Target, NoSample, Locals, Relations
<1>. QED
  BY <1>1, <1>2, <1>3 DEF Target, outside, TypeOK

LEMMA TypeKept == TypeOK /\ [Next]_vars => TypeOK'
<1>. SUFFICES ASSUME TypeOK, [Next]_vars PROVE TypeOK'
  OBVIOUS
<1>1. CASE StoreTuner
  BY <1>1, LimitsAssumption DEF StoreTuner, TypeOK, LimitsOK, Uninitialised
<1>2. CASE OtherRequest
  <2>1. s' \in Locals /\ s'.cond = s.cond
    BY <1>2 DEF OtherRequest, TypeOK, Locals
  <2>2. cur' \in Speeds
    BY <1>2 DEF OtherRequest, Speeds
  <2>. QED
    BY <1>2, <2>1, <2>2, LimitsAssumption
    DEF OtherRequest, TypeOK, LimitsOK, Uninitialised
<1>3. CASE UNCHANGED vars
  BY <1>3 DEF vars, outside, TypeOK, LimitsOK, Uninitialised
<1>. QED
  BY <1>1, <1>2, <1>3, StoresType, SampleType, SearchType, SelectType,
     AdjustType, TargetType
  DEF Next, Work, StoreLimits

(* The limits hold a frequency of the table, but for the time between the  *)
(* two stores, and the clock always runs at one, whatever is stored,       *)
(* sampled and asked for meanwhile.                                        *)
THEOREM TypeCorrect == Spec => []TypeOK
<1>. QED
  BY InitType, TypeKept, PTL DEF Spec

-----------------------------------------------------------------------------
(* What a sample under way knows                                           *)

(* Bounds that differ from those of the sample are there to stay until the *)
(* work is done.                                                           *)
MinStays == s.out \/ change.at # "none"
MaxStays == s.out \/ change.at = "limits"

(* Not faster than the sample's frequency, or than any that the policy's   *)
(* minimum admits; not slower, or than any its maximum admits              *)
Below(x) ==
  \/ x <= s.freq
  \/ MinStays /\ \A j \in Levels : policy.min <= Freq[j] => x <= Freq[j]
Above(x) ==
  \/ s.freq <= x
  \/ MaxStays /\ \A j \in Levels : Freq[j] <= policy.max => Freq[j] <= x

(* How the limits of the sample, its bounds from and to, and the limits of *)
(* now are related                                                         *)
DownLimits ==
  /\ s.to = s.freq /\ s.freq \in Speeds /\ Freq[MinIdx] <= s.from
  /\ ~MinStays => policy.min = s.from
  /\ ~s.out => /\ s.from < s.freq /\ s.from <= policy.max
               /\ change.at = "max" => s.from <= change.max
               /\ policy.max < s.freq => MaxStays
  /\ s.out => /\ policy.min = s.from
              /\ s.freq < policy.min \/ policy.max < s.freq

UpLimits ==
  /\ s.from = s.freq /\ s.freq \in Speeds /\ s.to <= Freq[MaxIdx]
  /\ ~MaxStays => policy.max = s.to
  /\ ~s.out => /\ s.freq < s.to
               /\ s.freq < policy.min => MinStays
               /\ policy.max < s.freq => MaxStays
  /\ s.out => s.freq < policy.min \/ policy.max < s.freq

(* One level slower than index is still one of the table, and slow enough, *)
(* or the limits admit the slowest level only                              *)
DownIndex ==
  \/ s.index + 1 \in Levels /\ Below(Freq[s.index + 1])
  \/ MaxStays /\ InPolicy(policy) = {MinIdx}

UpIndex ==
  \/ s.index - 1 \in Levels /\ Above(Freq[s.index - 1])
  \/ /\ MinStays /\ \A j \in Levels : policy.min <= Freq[j] => j = MaxIdx
     /\ pc = "select" => s.start = MaxIdx

(* The search for the other end cannot find a level two slower than start  *)
DownStart ==
  /\ s.start \in Levels
  /\ s.start + 1 \in Levels =>
       \/ Freq[s.start + 1] < s.from
       \/ MinStays /\ Freq[s.start + 1] < policy.min

UpStart == s.start \in Levels /\ Above(Freq[s.start])

DownInv ==
  /\ DownLimits
  /\ pc \in {"start", "select"} => DownIndex
  /\ pc = "select" => DownStart
  /\ pc \in {"adjust", "target"} =>
       /\ res.next_freq \in Speeds
       /\ ~s.moved => Below(res.next_freq)
  /\ pc = "target" => s.relation = "L"

UpInv ==
  /\ UpLimits
  /\ pc \in {"start", "select"} => UpIndex
  /\ pc = "select" => UpStart
  /\ pc \in {"adjust", "target"} =>
       /\ res.next_freq \in Speeds
       /\ ~s.moved => Above(res.next_freq)
  /\ pc = "target" => s.relation = "H"

SampleInv ==
  /\ IndexInTable
  /\ pc # "wait" /\ ~s.moved => cur = s.freq
  /\ pc # "wait" /\ ~s.lost /\ s.cond \in Downs => DownInv
  /\ pc # "wait" /\ ~s.lost /\ s.cond \in Ups => UpInv

LEMMA SampleTypes ==
  ASSUME TypeOK
  PROVE  /\ policy.min \in Nat /\ policy.max \in Nat /\ change.max \in Nat
         /\ Freq[MinIdx] <= policy.min /\ policy.max <= Freq[MaxIdx]
         /\ s.freq \in Nat /\ s.from \in Nat /\ s.to \in Nat
         /\ s.index \in Nat /\ s.start \in Nat /\ s.usage \in 0 .. 100
         /\ s.out \in BOOLEAN /\ s.lost \in BOOLEAN /\ s.moved \in BOOLEAN
         /\ cur \in Nat /\ res.next_freq \in Nat
  BY PolicyTypes, SpeedIsNat, IndexIsNat DEF TypeOK, Locals, Resources

LEMMA PolicyLevels ==
  \A j : j \in InPolicy(policy)
           <=> j \in Levels /\ policy.min <= Freq[j] /\ Freq[j] <= policy.max
  BY DEF InPolicy

LEMMA BelowSlower ==
  ASSUME TypeOK, NEW x \in Nat, NEW y \in Nat, y <= x, Below(x) PROVE Below(y)
  BY SampleTypes, FreqIsNat DEF Below

LEMMA AboveFaster ==
  ASSUME TypeOK, NEW x \in Nat, NEW y \in Nat, x <= y, Above(x) PROVE Above(y)
  BY SampleTypes, FreqIsNat DEF Above

(* The ends of the policy are never the wrong way.                         *)
LEMMA BelowSlowest ==
  ASSUME TypeOK, DownLimits, InPolicy(policy) # {}
  PROVE  Below(Freq[Slowest(InPolicy(policy))])
<1>. DEFINE P == InPolicy(policy)
            e == Slowest(P)
<1>1. e \in P /\ \A j \in P : j <= e
  BY InPolicyLevels, SlowestExists
<1>. HIDE DEF e
<1>2. /\ e \in Levels /\ Freq[e] \in Nat
      /\ policy.min <= Freq[e] /\ Freq[e] <= policy.max
      /\ \A j \in P : Freq[e] <= Freq[j]
  BY <1>1, PolicyLevels, FreqOrder, FreqIsNat
<1>3. \A j \in Levels : policy.min <= Freq[j] => Freq[e] <= Freq[j]
  BY <1>2, PolicyLevels, FreqIsNat, SampleTypes
<1>4. SUFFICES ASSUME s.freq < Freq[e], ~MinStays PROVE FALSE
  BY <1>2, <1>3, SampleTypes DEF Below, e
<1>5. ~s.out /\ policy.min < s.freq
  BY <1>4 DEF MinStays, DownLimits
<1>6. PICK k \in Levels : s.freq = Freq[k]
  BY DEF DownLimits, Speeds
<1>7. Freq[e] <= Freq[k]
  BY <1>3, <1>5, <1>6, SampleTypes
<1>. QED
  BY <1>2, <1>4, <1>6, <1>7, FreqIsNat

LEMMA AboveFastest ==
  ASSUME TypeOK, UpLimits, InPolicy(policy) # {}
  PROVE  Above(Freq[Fastest(InPolicy(policy))])
<1>. DEFINE P == InPolicy(policy)
            e == Fastest(P)
<1>1. e \in P /\ \A j \in P : e <= j
  BY InPolicyLevels, FastestExists
<1>. HIDE DEF e
<1>2. /\ e \in Levels /\ Freq[e] \in Nat
      /\ policy.min <= Freq[e] /\ Freq[e] <= policy.max
      /\ \A j \in P : Freq[j] <= Freq[e]
  BY <1>1, PolicyLevels, FreqOrder, FreqIsNat
<1>3. \A j \in Levels : Freq[j] <= policy.max => Freq[j] <= Freq[e]
  BY <1>2, PolicyLevels, FreqIsNat, SampleTypes
<1>4. SUFFICES ASSUME Freq[e] < s.freq, ~MaxStays PROVE FALSE
  BY <1>2, <1>3, SampleTypes DEF Above, e
<1>5. ~s.out /\ s.freq <= policy.max
  BY <1>4, SampleTypes DEF MaxStays, UpLimits
<1>6. PICK k \in Levels : s.freq = Freq[k]
  BY DEF UpLimits, Speeds
<1>7. Freq[k] <= Freq[e]
  BY <1>3, <1>5, <1>6
<1>. QED
  BY <1>2, <1>4, <1>6, <1>7, FreqIsNat

(* What the search of the index finds                                      *)

LEMMA DownIndexFound ==
  ASSUME TypeOK, DownLimits, InPolicy(policy) # {}
  PROVE  LET i == Lookup(s.freq, "L")
         IN  \/ i + 1 \in Levels /\ Below(Freq[i + 1])
             \/ MaxStays /\ InPolicy(policy) = {MinIdx}
<1>. DEFINE P == InPolicy(policy)
            i == Lookup(s.freq, "L")
            f == s.freq
<1>1. \/ /\ i \in P /\ Freq[i] >= f
         /\ \A j \in P : Freq[j] >= f => j <= i
      \/ /\ i \in P /\ Freq[i] < f
         /\ \A j \in P : i <= j /\ Freq[j] < f
  BY LookupInPolicy, TargetSplit, SampleTypes
<1>. HIDE DEF i
<1>2. /\ i \in Levels /\ i \in Nat /\ Freq[i] \in Nat /\ i \in P
      /\ policy.min <= Freq[i] /\ Freq[i] <= policy.max
  BY <1>1, PolicyLevels, FreqIsNat
<1>3. PICK k \in Levels : f = Freq[k]
  BY DEF DownLimits, Speeds
<1>4. f \in Nat /\ policy.min \in Nat /\ policy.max \in Nat /\ s.from \in Nat
      /\ Freq[MinIdx] <= f /\ Freq[MinIdx] \in Nat /\ Freq[MinIdx] <= policy.min
  BY <1>3, SampleTypes, Neighbours, FreqIsNat
<1>5. CASE i # MinIdx
  <2>1. /\ i + 1 \in Levels /\ Freq[i + 1] < Freq[i] /\ Freq[i + 1] \in Nat
    BY <1>2, <1>5, Neighbours, FreqOrder, FreqIsNat
  <2>2. SUFFICES ASSUME f < Freq[i + 1] PROVE Below(Freq[i + 1])
    BY <2>1, <1>4 DEF Below, i
  <2>3. i + 1 \notin P
    BY <1>1, <1>2, <1>4, <2>1, <2>2
  <2>4. Freq[i + 1] < policy.min
    BY <1>2, <1>4, <2>1, <2>3, PolicyLevels
  <2>5. MinStays
    BY <1>4, <2>1, <2>2, <2>4 DEF DownLimits, MinStays
  <2>6. \A j \in Levels : policy.min <= Freq[j] => Freq[i + 1] <= Freq[j]
    BY <1>4, <2>1, <2>4, FreqIsNat
  <2>. QED
    BY <2>5, <2>6 DEF Below
<1>6. CASE i = MinIdx
  <2>1. Freq[i] < f
    <3>1. SUFFICES ASSUME Freq[i] >= f PROVE FALSE
      BY <1>2, <1>4
    <3>2. f = Freq[MinIdx]
      BY <1>4, <1>6, <3>1
    <3>. QED
      BY <1>2, <1>4, <1>6, <3>2 DEF DownLimits
  <2>2. P = {MinIdx}
    <3>1. \A j \in P : i <= j
      BY <1>1, <1>2, <1>4, <2>1
    <3>2. \A j \in P : j \in Levels /\ j <= MinIdx /\ j \in Nat
      BY PolicyLevels, FreqIsNat, LevelsAssumption DEF Levels
    <3>3. \A j \in P : j = MinIdx
      <4>1. SUFFICES ASSUME NEW j \in P PROVE j = MinIdx
        OBVIOUS
      <4>2. i <= j /\ j <= MinIdx /\ j \in Nat /\ i \in Nat
        BY <1>2, <3>1, <3>2
      <4>. HIDE DEF P
      <4>. QED
        BY <1>6, <4>2
    <3>. QED
      BY <1>2, <1>6, <3>3
  <2>3. k \notin P
    BY <1>2, <1>3, <1>4, <1>6, <2>1, <2>2
  <2>4. policy.max < f
    BY <1>2, <1>3, <1>4, <2>1, <2>3, PolicyLevels
  <2>5. MaxStays
    BY <2>4 DEF DownLimits, MaxStays
  <2>. QED
    BY <2>2, <2>5
<1>. QED
  BY <1>5, <1>6 DEF i

LEMMA UpIndexFound ==
  ASSUME TypeOK, UpLimits, InPolicy(policy) # {}
  PROVE  LET i == Lookup(s.freq, "H")
         IN  \/ i - 1 \in Levels /\ Above(Freq[i - 1])
             \/ MinStays /\ \A j \in Levels : policy.min <= Freq[j] => j = MaxIdx
<1>. DEFINE P == InPolicy(policy)
            i == Lookup(s.freq, "H")
            f == s.freq
<1>1. \/ /\ i \in P /\ Freq[i] <= f
         /\ \A j \in P : Freq[j] <= f => i <= j
      \/ /\ i \in P /\ f < Freq[i]
         /\ \A j \in P : j <= i /\ f < Freq[j]
  BY LookupInPolicy, TargetSplit, SampleTypes
<1>. HIDE DEF i
<1>2. /\ i \in Levels /\ i \in Nat /\ Freq[i] \in Nat /\ i \in P
      /\ policy.min <= Freq[i] /\ Freq[i] <= policy.max
  BY <1>1, PolicyLevels, FreqIsNat
<1>3. PICK k \in Levels : f = Freq[k]
  BY DEF UpLimits, Speeds
<1>4. /\ f \in Nat /\ policy.min \in Nat /\ policy.max \in Nat /\ s.to \in Nat
      /\ f <= Freq[MaxIdx] /\ Freq[MaxIdx] \in Nat /\ policy.max <= Freq[MaxIdx]
  BY <1>3, SampleTypes, Neighbours, FreqIsNat
<1>5. CASE i # MaxIdx
  <2>1. i - 1 \in Levels /\ Freq[i] < Freq[i - 1] /\ Freq[i - 1] \in Nat
    BY <1>2, <1>5, Neighbours, FreqOrder, FreqIsNat
  <2>2. SUFFICES ASSUME Freq[i - 1] < f PROVE Above(Freq[i - 1])
    BY <2>1, <1>4 DEF Above, i
  <2>3. i - 1 \notin P
    BY <1>1, <1>2, <1>4, <2>1, <2>2
  <2>4. policy.max < Freq[i - 1]
    BY <1>2, <1>4, <2>1, <2>3, PolicyLevels
  <2>5. MaxStays
    BY <1>4, <2>1, <2>2, <2>4 DEF UpLimits, MaxStays
  <2>6. \A j \in Levels : Freq[j] <= policy.max => Freq[j] <= Freq[i - 1]
    BY <1>4, <2>1, <2>4, FreqIsNat
  <2>. QED
    BY <2>5, <2>6 DEF Above
<1>6. CASE i = MaxIdx
  <2>1. f < Freq[i]
    <3>1. SUFFICES ASSUME Freq[i] <= f PROVE FALSE
      BY <1>2, <1>4
    <3>2. f = Freq[MaxIdx]
      BY <1>4, <1>6, <3>1
    <3>. QED
      BY <1>2, <1>4, <1>6, <3>2 DEF UpLimits
  <2>2. k \notin P
    BY <1>1, <1>2, <1>3, <1>4, <2>1
  <2>3. f < policy.min
    BY <1>2, <1>3, <1>4, <2>1, <2>2, PolicyLevels
  <2>4. MinStays
    BY <2>3 DEF UpLimits, MinStays
  <2>5. ASSUME NEW j \in Levels, policy.min <= Freq[j] PROVE j = MaxIdx
    <3>1. Freq[j] <= Freq[MaxIdx] /\ Freq[j] \in Nat /\ j \in Nat /\ MaxIdx <= j
      BY Neighbours, FreqIsNat, LevelsAssumption DEF Levels
    <3>2. j \in P
      BY <1>2, <1>4, <1>6, <2>5, <3>1, PolicyLevels
    <3>3. j <= i
      BY <1>1, <1>2, <1>4, <2>1, <3>2
    <3>. QED
      BY <1>2, <1>6, <3>1, <3>3
  <2>. QED
    BY <2>4, <2>5
<1>. QED
  BY <1>5, <1>6 DEF i

(* What the search of the start finds                                      *)

LEMMA DownStartFound ==
  ASSUME TypeOK, DownLimits, InPolicy(policy) # {}
  PROVE  LET i == Lookup(s.from, "L")
         IN  /\ i \in Levels
             /\ i + 1 \in Levels =>
                  \/ Freq[i + 1] < s.from
                  \/ MinStays /\ Freq[i + 1] < policy.min
<1>. DEFINE P == InPolicy(policy)
            i == Lookup(s.from, "L")
<1>1. \/ /\ i \in P /\ Freq[i] >= s.from
         /\ \A j \in P : Freq[j] >= s.from => j <= i
      \/ /\ i \in P /\ Freq[i] < s.from
  BY LookupInPolicy, TargetSplit, SampleTypes
<1>. HIDE DEF i
<1>2. /\ i \in Levels /\ i \in Nat /\ Freq[i] \in Nat /\ i \in P
      /\ policy.min <= Freq[i] /\ Freq[i] <= policy.max
  BY <1>1, PolicyLevels, FreqIsNat
<1>3. SUFFICES ASSUME i + 1 \in Levels, s.from <= Freq[i + 1]
               PROVE  MinStays /\ Freq[i + 1] < policy.min
  BY <1>2, FreqIsNat, SampleTypes DEF i
<1>4. Freq[i + 1] < Freq[i] /\ Freq[i + 1] \in Nat
  BY <1>2, <1>3, FreqOrder, FreqIsNat
<1>5. i + 1 \notin P
  BY <1>1, <1>2, <1>3, <1>4, SampleTypes
<1>6. Freq[i + 1] < policy.min
  BY <1>2, <1>3, <1>4, <1>5, PolicyLevels, SampleTypes
<1>7. MinStays
  BY <1>3, <1>4, <1>6, SampleTypes DEF DownLimits
<1>. QED
  BY <1>6, <1>7

LEMMA UpStartFound ==
  ASSUME TypeOK, UpLimits, InPolicy(policy) # {}
  PROVE  LET i == Lookup(s.from, "L")
         IN  i \in InPolicy(policy) /\ i \in Levels /\ Above(Freq[i])
<1>. DEFINE P == InPolicy(policy)
            i == Lookup(s.from, "L")
<1>1. i \in P /\ (Freq[i] >= s.freq \/ i = Fastest(P))
  BY LookupInPolicy, TargetSplit, SampleTypes DEF UpLimits
<1>2. i \in Levels
  BY <1>1, PolicyLevels
<1>3. Above(Freq[i])
  BY <1>1, AboveFastest DEF Above
<1>. QED
  BY <1>1, <1>2, <1>3

-----------------------------------------------------------------------------
(* The level that is chosen                                                *)

LEMMA ThirdDown ==
  ASSUME NEW start \in Nat, NEW end \in Nat, end <= start + 1
  PROVE  LET i == ScaledDown(start, end)
         IN  i \in Nat /\ end <= i /\ (i <= start \/ i = end)
<1>. DEFINE n == start - end + 1
            r == n % IndexWrap
<1>1. IndexWrap \in Nat /\ IndexWrap > 0 /\ n \in Nat
  BY SamplesAssumption, LevelsAssumption
<1>. HIDE DEF n
<1>2. r \in Nat /\ r <= n
  <2>. DEFINE q == n \div IndexWrap
  <2>1. q \in Int /\ r \in Nat /\ n = IndexWrap * q + r /\ r < IndexWrap
    BY <1>1
  <2>. HIDE DEF q, r
  <2>2. IndexWrap * q >= 0
    <3>1. SUFFICES ASSUME q <= -1 PROVE FALSE
      BY <1>1, <2>1
    <3>2. IndexWrap * (q + 1) <= 0
      BY <1>1, <2>1, <3>1
    <3>3. IndexWrap * (q + 1) = IndexWrap * q + IndexWrap
      BY <1>1, <2>1
    <3>. QED
      BY <1>1, <2>1, <3>2, <3>3
  <2>. QED
    BY <1>1, <2>1, <2>2
<1>. HIDE DEF r
<1>3. ScaledDown(start, end) = r \div 3 + end
  BY DEF ScaledDown, r, n
<1>4. r \div 3 \in Nat /\ 3 * (r \div 3) <= r
  BY <1>2
<1>5. n = start - end + 1
  BY DEF n
<1>. QED
  BY <1>1, <1>2, <1>3, <1>4, <1>5

LEMMA ShareUp ==
  ASSUME NEW start \in Nat, NEW end \in Nat, NEW usage \in 0 .. 100
  PROVE  LET i == ScaledUp(start, end, usage)
         IN  /\ i \in Nat /\ i <= start
             /\ end <= i \/ i = start
<1>. DEFINE d == start - end + 1
            n == d * usage - 1
            m == IF n < 0 THEN 0 ELSE n
            v == m \div 100
<1>1. d \in Int /\ usage \in Int /\ d * usage \in Int
  OBVIOUS
<1>2. d <= 0 => n < 0
  <2>1. d <= 0 => d * usage <= 0
    BY <1>1
  <2>. QED
    BY <1>1, <2>1
<1>3. d > 0 => n < d * 100
  <2>1. d > 0 => d * usage <= d * 100
    BY <1>1
  <2>. QED
    BY <1>1, <2>1
<1>4. m \in Nat /\ (d <= 0 => m = 0) /\ (d > 0 => m < d * 100)
  BY <1>1, <1>2, <1>3
<1>5. ScaledUp(start, end, usage) = Abs(v - start)
  BY DEF ScaledUp
<1>6. d = start - end + 1 /\ d \in Int
  OBVIOUS
<1>. HIDE DEF d, m
<1>7. v \in Nat /\ 100 * v <= m
  BY <1>4
<1>. HIDE DEF v
<1>8. CASE d <= 0
  <2>1. v = 0
    BY <1>4, <1>7, <1>8
  <2>2. Abs(v - start) = start
    BY <2>1 DEF Abs
  <2>. QED
    BY <1>5, <2>2
<1>9. CASE d > 0
  <2>1. v <= start - end /\ v \in Nat
    BY <1>4, <1>6, <1>7, <1>9
  <2>2. Abs(v - start) = start - v
    BY <2>1 DEF Abs
  <2>. QED
    BY <1>5, <2>1, <2>2
<1>. QED
  BY <1>6, <1>8, <1>9

(* The search for the other end comes at most one level below the start    *)
LEMMA DownEndFound ==
  ASSUME TypeOK, DownLimits, DownStart, InPolicy(policy) # {}
  PROVE  LET e == Lookup(s.to, "H")
         IN  /\ e \in InPolicy(policy) /\ e \in Levels
             /\ e <= s.start + 1 /\ Below(Freq[e])
<1>. DEFINE P == InPolicy(policy)
            e == Lookup(s.to, "H")
            f == s.freq
<1>1. \/ /\ e \in P /\ Freq[e] <= f
         /\ \A j \in P : Freq[j] <= f => e <= j
      \/ /\ e \in P /\ f < Freq[e] /\ e = Slowest(P)
  BY LookupInPolicy, TargetSplit, SampleTypes DEF DownLimits
<1>. HIDE DEF e
<1>2. /\ e \in Levels /\ e \in Nat /\ Freq[e] \in Nat /\ e \in P
      /\ policy.min <= Freq[e] /\ Freq[e] <= policy.max
  BY <1>1, PolicyLevels, FreqIsNat
<1>3. Below(Freq[e])
  BY <1>1, <1>2, BelowSlowest DEF Below
<1>4. e <= s.start + 1
  <2>1. SUFFICES ASSUME s.start + 1 < e PROVE FALSE
    BY <1>2, SampleTypes
  <2>2. s.start \in Levels /\ s.start + 1 \in Levels
    BY <1>2, <2>1, SampleTypes, LevelsAssumption DEF DownStart, Levels
  <2>3. Freq[e] < Freq[s.start + 1] /\ Freq[s.start + 1] \in Nat
    BY <1>2, <2>1, <2>2, FreqOrder, FreqIsNat
  <2>4. Freq[s.start + 1] < s.from
    BY <1>2, <2>2, <2>3, SampleTypes DEF DownStart
  <2>5. ~s.out
    BY <1>2, <2>3, <2>4, SampleTypes DEF DownLimits
  <2>6. s.start + 1 \in P /\ Freq[s.start + 1] <= f
    BY <1>2, <2>2, <2>3, <2>4, <2>5, PolicyLevels, SampleTypes DEF DownLimits
  <2>7. Freq[e] <= f
    BY <1>2, <2>3, <2>6, SampleTypes
  <2>8. e <= s.start + 1
    BY <1>1, <1>2, <2>6, <2>7, SampleTypes
  <2>. QED
    BY <1>2, <2>1, <2>8, SampleTypes
<1>. QED
  BY <1>2, <1>3, <1>4 DEF e

LEMMA DownSelected ==
  ASSUME TypeOK, s.cond \in Downs, DownLimits, DownIndex, DownStart,
         InPolicy(policy) # {}
  PROVE  LET i == Selected(Lookup(s.to, "H"))
         IN  i \in Levels /\ Below(Freq[i])
<1>. DEFINE e == Lookup(s.to, "H")
            down == ScaledDown(s.start, e)
            i == Selected(e)
<1>1. /\ e \in InPolicy(policy) /\ e \in Levels
      /\ e <= s.start + 1 /\ Below(Freq[e])
  BY DownEndFound
<1>2. s.start \in Levels /\ s.start \in Nat /\ s.index \in Nat /\ e \in Nat
      /\ MaxIdx <= e /\ e <= MinIdx /\ s.start <= MinIdx
      /\ MinIdx \in Nat /\ MaxIdx \in Nat
  BY <1>1, FreqIsNat, SampleTypes, LevelsAssumption DEF DownStart, Levels
<1>. HIDE DEF e
<1>3. down \in Nat /\ e <= down /\ (down <= s.start \/ down = e)
  BY <1>1, <1>2, ThirdDown
<1>. HIDE DEF down
<1>4. i = IF down <= s.index /\ down < s.start THEN s.index + 1 ELSE down
  BY DEF Selected, Ups, Downs, down
<1>. HIDE DEF i
<1>5. CASE down <= s.index /\ down < s.start
  <2>1. i = s.index + 1
    BY <1>4, <1>5
  <2>2. InPolicy(policy) # {MinIdx}
    <3>1. SUFFICES ASSUME e = MinIdx PROVE FALSE
      BY <1>1
    <3>. QED
      BY <1>2, <1>3, <1>5, <3>1
  <2>. QED
    BY <2>1, <2>2 DEF DownIndex, i, e
<1>6. CASE ~(down <= s.index /\ down < s.start)
  <2>1. i = down
    BY <1>4, <1>6
  <2>2. down \in Levels
    BY <1>2, <1>3 DEF Levels
  <2>3. Freq[down] <= Freq[e] /\ Freq[down] \in Nat /\ Freq[e] \in Nat
    BY <1>1, <1>3, <2>2, FreqOrder, FreqIsNat
  <2>. QED
    BY <1>1, <2>1, <2>2, <2>3, BelowSlower DEF i, e
<1>. QED
  BY <1>5, <1>6

LEMMA UpSelected ==
  ASSUME TypeOK, pc = "select", s.cond \in Ups, UpLimits, UpIndex, UpStart,
         InPolicy(policy) # {}
  PROVE  LET i == Selected(Lookup(s.to, "H"))
         IN  i \in Levels /\ Above(Freq[i])
<1>. DEFINE e == Lookup(s.to, "H")
            up == ScaledUp(s.start, e, s.usage)
            i == Selected(e)
<1>1. e \in InPolicy(policy) /\ e \in Levels
  BY LookupInPolicy, SampleTypes
<1>2. /\ s.start \in Levels /\ s.start \in Nat /\ s.index \in Nat /\ e \in Nat
      /\ MaxIdx <= e /\ e <= MinIdx /\ MaxIdx <= s.start /\ s.start <= MinIdx
      /\ MinIdx \in Nat /\ MaxIdx \in Nat /\ s.usage \in 0 .. 100
  BY <1>1, FreqIsNat, SampleTypes, LevelsAssumption DEF UpStart, Levels
<1>. HIDE DEF e
<1>3. up \in Nat /\ up <= s.start /\ (e <= up \/ up = s.start)
  BY <1>2, ShareUp
<1>. HIDE DEF up
<1>4. i = IF up >= s.index /\ up > e THEN s.index - 1 ELSE up
  BY DEF Selected, Ups, Downs, up
<1>. HIDE DEF i
<1>5. CASE up >= s.index /\ up > e
  <2>1. i = s.index - 1
    BY <1>4, <1>5
  <2>2. ~(/\ MinStays /\ \A j \in Levels : policy.min <= Freq[j] => j = MaxIdx
          /\ s.start = MaxIdx)
    <3>1. policy.min <= Freq[e]
      BY <1>1, PolicyLevels
    <3>2. SUFFICES ASSUME e = MaxIdx, s.start = MaxIdx PROVE FALSE
      BY <1>1, <3>1
    <3>. QED
      BY <1>2, <1>3, <1>5, <3>2
  <2>. QED
    BY <2>1, <2>2 DEF UpIndex, i, e
<1>6. CASE ~(up >= s.index /\ up > e)
  <2>1. i = up
    BY <1>4, <1>6
  <2>2. up \in Levels
    BY <1>2, <1>3 DEF Levels
  <2>3. Freq[s.start] <= Freq[up] /\ Freq[up] \in Nat /\ Freq[s.start] \in Nat
    BY <1>2, <1>3, <2>2, FreqOrder, FreqIsNat
  <2>. QED
    BY <2>1, <2>2, <2>3, AboveFaster DEF UpStart, i, e
<1>. QED
  BY <1>5, <1>6

(* adjustCond and the transition look the chosen frequency up once more    *)

LEMMA SlowerStillBelow ==
  ASSUME TypeOK, DownLimits, InPolicy(policy) # {},
         res.next_freq \in Speeds, Below(res.next_freq)
  PROVE  LET i == TableTarget(policy, res.next_freq, "L")
         IN  /\ i \in Levels /\ Below(Freq[i])
             /\ Freq[i] <= res.next_freq \/ i = Slowest(InPolicy(policy))
<1>. DEFINE i == TableTarget(policy, res.next_freq, "L")
<1>1. /\ i \in Levels /\ Freq[i] \in Nat
      /\ Freq[i] <= res.next_freq \/ i = Slowest(InPolicy(policy))
  BY TargetOfSpeed, TargetInPolicy, InPolicyLevels, FreqIsNat, SampleTypes
<1>. HIDE DEF i
<1>2. Below(Freq[i])
  BY <1>1, BelowSlower, BelowSlowest, SampleTypes
<1>. QED
  BY <1>1, <1>2 DEF i

LEMMA FasterStillAbove ==
  ASSUME TypeOK, UpLimits, InPolicy(policy) # {},
         res.next_freq \in Speeds, Above(res.next_freq)
  PROVE  LET i == TableTarget(policy, res.next_freq, "H")
         IN  /\ i \in Levels /\ Above(Freq[i])
             /\ Freq[i] >= res.next_freq \/ i = Fastest(InPolicy(policy))
<1>. DEFINE i == TableTarget(policy, res.next_freq, "H")
<1>1. /\ i \in Levels /\ Freq[i] \in Nat
      /\ Freq[i] >= res.next_freq \/ i = Fastest(InPolicy(policy))
  BY TargetOfSpeed, TargetInPolicy, InPolicyLevels, FreqIsNat, SampleTypes
<1>. HIDE DEF i
<1>2. Above(Freq[i])
  BY <1>1, AboveFaster, AboveFastest, SampleTypes
<1>. QED
  BY <1>1, <1>2 DEF i

-----------------------------------------------------------------------------
(* Steps                                                                   *)

(* The work's own steps leave the limits and what the sample saw alone     *)
LEMMA SameLimits ==
  ASSUME UNCHANGED <<policy, change>>, s'.freq = s.freq, s'.from = s.from,
         s'.to = s.to, s'.out = s.out
  PROVE  /\ MinStays' <=> MinStays
         /\ MaxStays' <=> MaxStays
         /\ \A x : Below(x)' <=> Below(x)
         /\ \A x : Above(x)' <=> Above(x)
         /\ DownLimits' <=> DownLimits
         /\ UpLimits' <=> UpLimits
  BY DEF MinStays, MaxStays, Below, Above, DownLimits, UpLimits

(* What a store of one of the limits takes away nothing from               *)
LEMMA LimitsStored ==
  ASSUME TypeOK, TypeOK', StoreMin \/ StoreMax, pc # "wait", ~s'.lost
  PROVE  /\ ~s.lost /\ ~s.out /\ s' = s /\ UNCHANGED <<pc, cur, res>>
         /\ MinStays => MinStays' /\ policy'.min = policy.min
         /\ ~MaxStays
         /\ \A x \in Nat : Below(x) => Below(x)'
         /\ \A x \in Nat : Above(x) => Above(x)'
<1>1. /\ s.lost \in BOOLEAN /\ s.out \in BOOLEAN
      /\ s' = [s EXCEPT !.lost = @ \/ s.out] /\ UNCHANGED <<pc, cur, res>>
  BY SampleTypes DEF StoreMin, StoreMax
<1>2. ~s.lost /\ ~s.out /\ s' = s
  BY <1>1 DEF TypeOK, Locals
<1>3. CASE StoreMin
  <2>1. change.at = "none"
    BY <1>3 DEF StoreMin, NoChange
  <2>. QED
    BY <1>1, <1>2, <2>1 DEF MinStays, MaxStays, Below, Above
<1>4. CASE StoreMax
  <2>1. change.at = "max" /\ change'.at = "limits" /\ policy'.min = policy.min
    BY <1>4 DEF StoreMax, TypeOK, LimitsOK, NoChange
  <2>. QED
    BY <1>1, <1>2, <2>1 DEF MinStays, MaxStays, Below, Above
<1>. QED
  BY <1>3, <1>4

LEMMA DownLimitsStored ==
  ASSUME TypeOK, TypeOK', StoreMin \/ StoreMax, pc # "wait", ~s'.lost, DownLimits
  PROVE  DownLimits'
<1>1. s' = s /\ ~s.out
  BY LimitsStored
<1>2. CASE StoreMin
  <2>1. PICK min, max \in Limits :
          /\ Acceptable(min, max)
          /\ policy' = [policy EXCEPT !.min = min]
          /\ change' = [at |-> "max", min |-> min, max |-> max]
    BY <1>2 DEF StoreMin
  <2>2. change.at = "none"
    BY <1>2 DEF StoreMin, NoChange
  <2>3. policy'.max = policy.max /\ change'.max >= policy.min
    BY <2>1 DEF Acceptable, TypeOK, LimitsOK
  <2>4. policy.min = s.from
    BY <1>1, <2>2 DEF DownLimits, MinStays
  <2>. QED
    BY <1>1, <2>1, <2>2, <2>3, <2>4, SampleTypes DEF DownLimits, MinStays, MaxStays
<1>3. CASE StoreMax
  <2>1. /\ change.at = "max" /\ change'.at = "limits"
        /\ policy'.min = policy.min /\ policy'.max = change.max
    BY <1>3 DEF StoreMax, TypeOK, LimitsOK, NoChange
  <2>. QED
    BY <1>1, <2>1 DEF DownLimits, MinStays, MaxStays
<1>. QED
  BY <1>2, <1>3

LEMMA UpLimitsStored ==
  ASSUME TypeOK, TypeOK', StoreMin \/ StoreMax, pc # "wait", ~s'.lost, UpLimits
  PROVE  UpLimits'
<1>1. s' = s /\ ~s.out
  BY LimitsStored
<1>2. CASE StoreMin
  <2>1. change.at = "none" /\ change'.at = "max" /\ policy'.max = policy.max
    BY <1>2 DEF StoreMin, NoChange, TypeOK, LimitsOK
  <2>. QED
    BY <1>1, <2>1 DEF UpLimits, MinStays, MaxStays
<1>3. CASE StoreMax
  <2>1. /\ change.at = "max" /\ change'.at = "limits" /\ policy'.min = policy.min
    BY <1>3 DEF StoreMax, TypeOK, LimitsOK, NoChange
  <2>. QED
    BY <1>1, <2>1 DEF UpLimits, MinStays, MaxStays
<1>. QED
  BY <1>2, <1>3

LEMMA StoresKeep ==
  TypeOK /\ TypeOK' /\ SampleInv /\ (StoreMin \/ StoreMax) => SampleInv'
<1>. SUFFICES ASSUME TypeOK, TypeOK', SampleInv, StoreMin \/ StoreMax
              PROVE  SampleInv'
  OBVIOUS
<1>1. /\ s' = [s EXCEPT !.lost = @ \/ s.out] /\ UNCHANGED <<pc, cur, res>>
      /\ s'.read = s.read /\ s'.freq = s.freq /\ s'.moved = s.moved
      /\ s'.cond = s.cond /\ (s'.lost <=> s.lost \/ s.out)
  BY SampleTypes DEF StoreMin, StoreMax, TypeOK, Locals
<1>2. IndexInTable' /\ (pc' # "wait" /\ ~s'.moved => cur' = s'.freq)
  BY <1>1 DEF SampleInv, IndexInTable
<1>3. SUFFICES ASSUME pc # "wait", ~s'.lost
               PROVE  /\ s.cond \in Downs => DownInv'
                      /\ s.cond \in Ups => UpInv'
  BY <1>1, <1>2 DEF SampleInv
<1>4. /\ s' = s /\ ~s.lost /\ ~MaxStays /\ UNCHANGED <<pc, cur, res>>
      /\ MinStays => MinStays' /\ policy'.min = policy.min
      /\ \A x \in Nat : Below(x) => Below(x)'
      /\ \A x \in Nat : Above(x) => Above(x)'
  BY <1>3, LimitsStored
<1>5. /\ \A i \in Levels : Freq[i] \in Nat
      /\ res.next_freq \in Nat
  BY FreqIsNat, SampleTypes
<1>6. ASSUME s.cond \in Downs PROVE DownInv'
  <2>1. DownInv
    BY <1>3, <1>4, <1>6 DEF SampleInv
  <2>2. DownLimits'
    BY <1>3, <2>1, DownLimitsStored DEF DownInv
  <2>3. pc \in {"start", "select"} => DownIndex'
    BY <1>4, <1>5, <2>1 DEF DownInv, DownIndex
  <2>4. pc = "select" => DownStart'
    BY <1>4, <2>1 DEF DownInv, DownStart
  <2>. QED
    BY <1>4, <1>5, <2>1, <2>2, <2>3, <2>4 DEF DownInv
<1>7. ASSUME s.cond \in Ups PROVE UpInv'
  <2>1. UpInv
    BY <1>3, <1>4, <1>7 DEF SampleInv
  <2>2. UpLimits'
    BY <1>3, <2>1, UpLimitsStored DEF UpInv
  <2>3. pc \in {"start", "select"} => UpIndex'
    BY <1>4, <1>5, <2>1 DEF UpInv, UpIndex
  <2>4. pc = "select" => UpStart'
    BY <1>4, <1>5, <2>1 DEF UpInv, UpStart
  <2>. QED
    BY <1>4, <1>5, <2>1, <2>2, <2>3, <2>4 DEF UpInv
<1>. QED
  BY <1>6, <1>7

LEMMA SampleStarts == TypeOK /\ TypeOK' /\ SampleInv /\ Sample => SampleInv'
<1>. SUFFICES ASSUME TypeOK, TypeOK', SampleInv, Sample PROVE SampleInv'
  OBVIOUS
<1>1. PICK load \in [Cpus -> Loads], threads \in Threads, used \in MemUsed :
        SampleOf(load, threads, used)
  BY DEF Sample
<1>2. CASE Uninitialised
  <2>1. UNCHANGED <<lazy, pc, s>>
    BY <1>1, <1>2 DEF SampleOf
  <2>2. pc = "wait"
    BY DEF Sample
  <2>. QED
    BY <2>1, <2>2 DEF SampleInv, IndexInTable
<1>3. CASE ~Uninitialised
  <2>. DEFINE max_load == MaxLoad(load)
              cond == LoadCond(max_load, max_load - res.max_load)
  <2>1. /\ s'.cond = cond /\ s'.freq = cur /\ s'.read = MaxIdx /\ ~s'.lost
        /\ s'.from = IF cond \in Ups THEN cur ELSE policy.min
        /\ s'.to = IF cond \in Ups THEN policy.max ELSE cur
        /\ s'.out <=> cur < policy.min \/ policy.max < cur
        /\ pc' = IF cond \in Ups \cup Downs THEN "index" ELSE "adjust"
    <3>. DEFINE point == Cond(threads - res.thread_prev,
                              tuners.thread_up, tuners.thread_down)
                  + Cond(MemPortion(used) - res.mem_prev,
                         tuners.mem_up, tuners.mem_down)
    <3>1. /\ s' = [NoSample EXCEPT
                 !.cond = cond, !.point = point, !.freq = cur,
                 !.usage = max_load,
                 !.from = IF cond \in Ups THEN cur ELSE policy.min,
                 !.to = IF cond \in Ups THEN policy.max ELSE cur,
                 !.out = cur < policy.min \/ policy.max < cur]
          /\ pc' = IF cond \in Ups \cup Downs THEN "index" ELSE "adjust"
      BY <1>1, <1>3 DEF SampleOf
    <3>. HIDE DEF cond, point, max_load
    <3>. QED
      BY <3>1 DEF NoSample
  <2>2. /\ cond \in Ups => cur # policy.max
        /\ cond \in Downs => cur # policy.min
    BY DEF LoadCond, Ups, Downs
  <2>. HIDE DEF cond
  <2>3. UNCHANGED <<policy, change, cur>> /\ cur \in Speeds
    BY DEF Sample, outside, TypeOK
  <2>4. MaxIdx \in Levels
    BY LevelsAssumption DEF Levels
  <2>5. cond \in Downs => DownLimits'
    <3>1. SUFFICES ASSUME cond \in Downs PROVE DownLimits'
      OBVIOUS
    <3>2. s'.from = policy.min /\ s'.to = cur /\ cur # policy.min
      BY <2>1, <2>2, <3>1 DEF Ups, Downs
    <3>3. change.at = "max" => policy.min <= change.max
      <4>1. SUFFICES ASSUME change.at = "max" PROVE policy.min <= change.max
        OBVIOUS
      <4>2. PICK j \in Levels : policy.min <= Freq[j] /\ Freq[j] <= change.max
        BY <4>1 DEF TypeOK, LimitsOK, InPolicy
      <4>. QED
        BY <4>2, SampleTypes, FreqIsNat
    <3>. QED
      BY <2>1, <2>3, <3>2, <3>3, SampleTypes DEF DownLimits, MinStays, MaxStays
  <2>6. cond \in Ups => UpLimits'
    <3>1. SUFFICES ASSUME cond \in Ups PROVE UpLimits'
      OBVIOUS
    <3>2. s'.from = cur /\ s'.to = policy.max /\ cur # policy.max
      BY <2>1, <2>2, <3>1
    <3>. QED
      BY <2>1, <2>3, <3>2, SampleTypes DEF UpLimits, MinStays, MaxStays
  <2>7. cond \in Ups \cup Downs => pc' = "index"
    BY <2>1
  <2>. QED
    BY <2>1, <2>3, <2>4, <2>5, <2>6, <2>7
    DEF SampleInv, IndexInTable, DownInv, UpInv
<1>. QED
  BY <1>2, <1>3

LEMMA FindIndexKeeps == TypeOK /\ TypeOK' /\ SampleInv /\ FindIndex => SampleInv'
<1>. SUFFICES ASSUME TypeOK, TypeOK', SampleInv, FindIndex PROVE SampleInv'
  OBVIOUS
<1>1. /\ UNCHANGED <<policy, change, cur, res>> /\ pc = "index" /\ pc' = "start"
      /\ s'.index = Lookup(s.freq, IF s.cond \in Ups THEN "H" ELSE "L")
      /\ s'.lost = Lost
      /\ s'.cond = s.cond /\ s'.freq = s.freq /\ s'.from = s.from /\ s'.to = s.to
      /\ s'.out = s.out /\ s'.read = s.read /\ s'.moved = s.moved
  BY DEF FindIndex, outside, TypeOK, Locals
<1>2. /\ MinStays' <=> MinStays
      /\ MaxStays' <=> MaxStays
      /\ \A x : Below(x)' <=> Below(x)
      /\ \A x : Above(x)' <=> Above(x)
      /\ DownLimits' <=> DownLimits
      /\ UpLimits' <=> UpLimits
  BY <1>1, SameLimits
<1>3. CASE Lost
  BY <1>1, <1>3 DEF SampleInv, IndexInTable
<1>4. CASE ~Lost
  <2>1. ~s.lost /\ InPolicy(policy) # {}
    BY <1>4 DEF Lost
  <2>2. s.cond \in Downs => DownInv'
    <3>1. SUFFICES ASSUME s.cond \in Downs PROVE DownInv'
      OBVIOUS
    <3>2. DownLimits /\ s.cond \notin Ups
      BY <1>1, <2>1, <3>1 DEF SampleInv, DownInv, Ups, Downs
    <3>3. DownIndex'
      BY <1>1, <1>2, <2>1, <3>2, DownIndexFound DEF DownIndex
    <3>. QED
      BY <1>1, <1>2, <3>2, <3>3 DEF DownInv
  <2>3. s.cond \in Ups => UpInv'
    <3>1. SUFFICES ASSUME s.cond \in Ups PROVE UpInv'
      OBVIOUS
    <3>2. UpLimits
      BY <1>1, <2>1, <3>1 DEF SampleInv, UpInv
    <3>3. UpIndex'
      BY <1>1, <1>2, <2>1, <3>1, <3>2, UpIndexFound DEF UpIndex
    <3>. QED
      BY <1>1, <1>2, <3>2, <3>3 DEF UpInv
  <2>. QED
    BY <1>1, <2>2, <2>3 DEF SampleInv, IndexInTable, Lost
<1>. QED
  BY <1>3, <1>4

LEMMA FindStartKeeps == TypeOK /\ TypeOK' /\ SampleInv /\ FindStart => SampleInv'
<1>. SUFFICES ASSUME TypeOK, TypeOK', SampleInv, FindStart PROVE SampleInv'
  OBVIOUS
<1>1. /\ UNCHANGED <<policy, change, cur, res>> /\ pc = "start" /\ pc' = "select"
      /\ s'.start = Lookup(s.from, "L") /\ s'.lost = Lost
      /\ s'.cond = s.cond /\ s'.freq = s.freq /\ s'.from = s.from /\ s'.to = s.to
      /\ s'.out = s.out /\ s'.read = s.read /\ s'.moved = s.moved
      /\ s'.index = s.index
  BY DEF FindStart, outside, TypeOK, Locals
<1>2. /\ MinStays' <=> MinStays
      /\ MaxStays' <=> MaxStays
      /\ \A x : Below(x)' <=> Below(x)
      /\ \A x : Above(x)' <=> Above(x)
      /\ DownLimits' <=> DownLimits
      /\ UpLimits' <=> UpLimits
  BY <1>1, SameLimits
<1>3. CASE Lost
  BY <1>1, <1>3 DEF SampleInv, IndexInTable
<1>4. CASE ~Lost
  <2>1. ~s.lost /\ InPolicy(policy) # {}
    BY <1>4 DEF Lost
  <2>2. s.cond \in Downs => DownInv'
    <3>1. SUFFICES ASSUME s.cond \in Downs PROVE DownInv'
      OBVIOUS
    <3>2. DownLimits /\ DownIndex
      BY <1>1, <2>1, <3>1 DEF SampleInv, DownInv
    <3>3. DownStart'
      BY <1>1, <1>2, <2>1, <3>2, DownStartFound DEF DownStart
    <3>4. DownIndex'
      BY <1>1, <1>2, <3>2 DEF DownIndex
    <3>. QED
      BY <1>1, <1>2, <3>2, <3>3, <3>4 DEF DownInv
  <2>3. s.cond \in Ups => UpInv'
    <3>1. SUFFICES ASSUME s.cond \in Ups PROVE UpInv'
      OBVIOUS
    <3>2. UpLimits /\ UpIndex
      BY <1>1, <2>1, <3>1 DEF SampleInv, UpInv
    <3>3. /\ s'.start \in Levels /\ s'.start \in InPolicy(policy)
          /\ Above(Freq[s'.start])
      BY <1>1, <2>1, <3>2, UpStartFound
    <3>4. UpStart'
      BY <1>1, <1>2, <3>3 DEF UpStart
    <3>5. UpIndex'
      BY <1>1, <1>2, <3>2, <3>3, PolicyLevels DEF UpIndex
    <3>. QED
      BY <1>1, <1>2, <3>2, <3>4, <3>5 DEF UpInv
  <2>. QED
    BY <1>1, <2>2, <2>3 DEF SampleInv, IndexInTable, Lost
<1>. QED
  BY <1>3, <1>4

LEMMA SelectKeeps == TypeOK /\ TypeOK' /\ SampleInv /\ Select => SampleInv'
<1>. SUFFICES ASSUME TypeOK, TypeOK', SampleInv, Select PROVE SampleInv'
  OBVIOUS
<1>. DEFINE i == Selected(Lookup(s.to, "H"))
<1>1. /\ UNCHANGED <<policy, change, cur>> /\ pc = "select" /\ pc' = "adjust"
      /\ res'.next_freq = (IF LazyOver THEN FreqAt(i) ELSE cur)
      /\ s'.read = (IF LazyOver THEN i ELSE s.read) /\ s'.lost = Lost
      /\ s'.cond = s.cond /\ s'.freq = s.freq /\ s'.from = s.from /\ s'.to = s.to
      /\ s'.out = s.out /\ s'.moved = s.moved
  BY DEF Select, outside, TypeOK, Locals, Resources
<1>. HIDE DEF i
<1>2. /\ \A x : Below(x)' <=> Below(x)
      /\ \A x : Above(x)' <=> Above(x)
      /\ DownLimits' <=> DownLimits
      /\ UpLimits' <=> UpLimits
  BY <1>1, SameLimits
<1>3. CASE Lost
  BY <1>1, <1>3 DEF SampleInv, IndexInTable
<1>4. CASE ~Lost
  <2>1. ~s.lost /\ InPolicy(policy) # {}
    BY <1>4 DEF Lost
  <2>2. cur \in Speeds /\ (~s.moved => cur = s.freq) /\ s.freq \in Nat
    BY <1>1, SampleTypes DEF TypeOK, SampleInv
  <2>3. s.cond \in Downs => i \in Levels /\ DownInv'
    <3>1. SUFFICES ASSUME s.cond \in Downs PROVE i \in Levels /\ DownInv'
      OBVIOUS
    <3>2. DownLimits /\ DownIndex /\ DownStart
      BY <1>1, <2>1, <3>1 DEF SampleInv, DownInv
    <3>3. i \in Levels /\ Below(Freq[i])
      BY <2>1, <3>1, <3>2, DownSelected DEF i
    <3>4. res'.next_freq \in Speeds /\ (~s.moved => Below(res'.next_freq))
      BY <1>1, <2>2, <3>3 DEF FreqAt, Speeds, Below
    <3>. QED
      BY <1>1, <1>2, <3>2, <3>3, <3>4 DEF DownInv
  <2>4. s.cond \in Ups => i \in Levels /\ UpInv'
    <3>1. SUFFICES ASSUME s.cond \in Ups PROVE i \in Levels /\ UpInv'
      OBVIOUS
    <3>2. UpLimits /\ UpIndex /\ UpStart
      BY <1>1, <2>1, <3>1 DEF SampleInv, UpInv
    <3>3. i \in Levels /\ Above(Freq[i])
      BY <1>1, <2>1, <3>1, <3>2, UpSelected DEF i
    <3>4. res'.next_freq \in Speeds /\ (~s.moved => Above(res'.next_freq))
      BY <1>1, <2>2, <3>3 DEF FreqAt, Speeds, Above
    <3>. QED
      BY <1>1, <1>2, <3>2, <3>3, <3>4 DEF UpInv
  <2>5. s.cond \in Ups \cup Downs
    BY <1>1 DEF TypeOK
  <2>6. IndexInTable'
    BY <1>1, <2>1, <2>3, <2>4, <2>5 DEF SampleInv, IndexInTable
  <2>. QED
    BY <1>1, <2>2, <2>3, <2>4, <2>6 DEF SampleInv
<1>. QED
  BY <1>3, <1>4

LEMMA AdjustKeeps == TypeOK /\ TypeOK' /\ SampleInv /\ Adjust => SampleInv'
<1>. SUFFICES ASSUME TypeOK, TypeOK', SampleInv, Adjust PROVE SampleInv'
  OBVIOUS
<1>. DEFINE from == IF s.cond = "no_need" THEN cur ELSE res.next_freq
            at == Lookup(from, Relation)
            i == Moved(at)
<1>1. /\ UNCHANGED <<policy, change, cur>> /\ pc = "adjust" /\ pc' = "target"
      /\ res'.next_freq = (IF Adjusted THEN FreqAt(i) ELSE res.next_freq)
      /\ s'.read = (IF Adjusted THEN i ELSE s.read) /\ s'.lost = Lost
      /\ s'.relation = Relation
      /\ s'.cond = s.cond /\ s'.freq = s.freq /\ s'.from = s.from /\ s'.to = s.to
      /\ s'.out = s.out /\ s'.moved = s.moved
  BY DEF Adjust, outside, TypeOK, Locals, Resources
<1>2. /\ \A x : Below(x)' <=> Below(x)
      /\ \A x : Above(x)' <=> Above(x)
      /\ DownLimits' <=> DownLimits
      /\ UpLimits' <=> UpLimits
  BY <1>1, SameLimits
<1>3. CASE Lost
  BY <1>1, <1>3 DEF SampleInv, IndexInTable
<1>4. CASE ~Lost
  <2>1. ~s.lost /\ InPolicy(policy) # {}
    BY <1>4 DEF Lost
  <2>2. at \in Levels /\ at = TableTarget(policy, from, Relation)
    BY <2>1, LookupInPolicy, SampleTypes
  <2>. HIDE DEF at
  <2>3. /\ i \in Levels
        /\ s.point > 0 => i <= at
        /\ s.point < 0 => i >= at
    BY <1>1, <2>2, MovedType DEF TypeOK, Indices
  <2>. HIDE DEF i
  <2>4. FreqAt(i) = Freq[i] /\ Freq[i] \in Speeds /\ Freq[i] \in Nat
        /\ Freq[at] \in Nat
        /\ (s.point > 0 => Freq[at] <= Freq[i])
        /\ (s.point < 0 => Freq[i] <= Freq[at])
    BY <2>2, <2>3, FreqOrder, FreqIsNat DEF FreqAt, Speeds
  <2>5. s.cond \in Downs => DownInv'
    <3>1. SUFFICES ASSUME s.cond \in Downs PROVE DownInv'
      OBVIOUS
    <3>2. DownLimits /\ res.next_freq \in Speeds /\ (~s.moved => Below(res.next_freq))
      BY <1>1, <2>1, <3>1 DEF SampleInv, DownInv
    <3>3. Relation = "L" /\ from = res.next_freq /\ (Adjusted => s.point < 0)
      BY <3>1 DEF Relation, Adjusted, Ups, Downs
    <3>4. ~s.moved => Below(Freq[at])
      BY <2>1, <2>2, <3>2, <3>3, SlowerStillBelow
    <3>5. ~s.moved /\ Adjusted => Below(Freq[i])
      BY <2>4, <3>3, <3>4, BelowSlower
    <3>. QED
      BY <1>1, <1>2, <2>4, <3>2, <3>3, <3>5 DEF DownInv
  <2>6. s.cond \in Ups => UpInv'
    <3>1. SUFFICES ASSUME s.cond \in Ups PROVE UpInv'
      OBVIOUS
    <3>2. UpLimits /\ res.next_freq \in Speeds /\ (~s.moved => Above(res.next_freq))
      BY <1>1, <2>1, <3>1 DEF SampleInv, UpInv
    <3>3. Relation = "H" /\ from = res.next_freq /\ (Adjusted => s.point > 0)
      BY <3>1 DEF Relation, Adjusted, Ups, Downs
    <3>4. ~s.moved => Above(Freq[at])
      BY <2>1, <2>2, <3>2, <3>3, FasterStillAbove
    <3>5. ~s.moved /\ Adjusted => Above(Freq[i])
      BY <2>4, <3>3, <3>4, AboveFaster
    <3>. QED
      BY <1>1, <1>2, <2>4, <3>2, <3>3, <3>5 DEF UpInv
  <2>7. IndexInTable'
    BY <1>1, <2>1, <2>3 DEF SampleInv, IndexInTable
  <2>. QED
    BY <1>1, <2>5, <2>6, <2>7 DEF SampleInv
<1>. QED
  BY <1>3, <1>4

LEMMA SampleInvKept == TypeOK /\ TypeOK' /\ SampleInv /\ [Next]_vars => SampleInv'
<1>. SUFFICES ASSUME TypeOK, TypeOK', SampleInv, [Next]_vars PROVE SampleInv'
  OBVIOUS
<1>1. CASE Target
  <2>1. MaxIdx \in Levels
    BY LevelsAssumption DEF Levels
  <2>. QED
    BY <1>1, <2>1 DEF Target, NoSample, SampleInv, IndexInTable
<1>2. CASE GovLimits
  BY <1>2 DEF GovLimits, SampleInv, IndexInTable
<1>3. CASE OtherRequest
  <2>1. /\ UNCHANGED <<policy, change, pc, res>>
        /\ s'.moved = (pc # "wait") /\ s'.cond = s.cond /\ s'.lost = s.lost
        /\ s'.read = s.read /\ s'.freq = s.freq /\ s'.from = s.from
        /\ s'.to = s.to /\ s'.out = s.out /\ s'.index = s.index
        /\ s'.start = s.start /\ s'.relation = s.relation
    BY <1>3 DEF OtherRequest, TypeOK, Locals
  <2>2. /\ MinStays' <=> MinStays
        /\ MaxStays' <=> MaxStays
        /\ \A x : Below(x)' <=> Below(x)
        /\ \A x : Above(x)' <=> Above(x)
        /\ DownLimits' <=> DownLimits
        /\ UpLimits' <=> UpLimits
    BY <2>1, SameLimits
  <2>3. pc # "wait" /\ DownInv => DownInv'
    BY <2>1, <2>2 DEF DownInv, DownIndex, DownStart
  <2>4. pc # "wait" /\ UpInv => UpInv'
    BY <2>1, <2>2 DEF UpInv, UpIndex, UpStart
  <2>. QED
    BY <2>1, <2>3, <2>4 DEF SampleInv, IndexInTable
<1>4. CASE StoreTuner \/ UNCHANGED vars
  <2>1. UNCHANGED <<policy, change, cur, res, pc, s>>
    BY <1>4 DEF StoreTuner, vars, outside
  <2>. QED
    BY <2>1
    DEF SampleInv, IndexInTable, DownInv, UpInv, DownIndex, UpIndex, DownStart,
        UpStart, DownLimits, UpLimits, Below, Above, MinStays, MaxStays
<1>. QED
  BY <1>1, <1>2, <1>3, <1>4, StoresKeep, SampleStarts, FindIndexKeeps,
     FindStartKeeps, SelectKeeps, AdjustKeeps
  DEF Next, Work, StoreLimits

LEMMA InitSampleInv == Init => SampleInv
  BY LevelsAssumption DEF Init, SampleInv, IndexInTable, NoSample, Levels

LEMMA SampleInvHolds == Spec => [](TypeOK /\ SampleInv)
<1>. QED
  BY InitType, InitSampleInv, TypeKept, SampleInvKept, PTL DEF Spec

(* Whatever limits are stored in the middle of a decision, however much the *)
(* load, the threads and the memory change, no search, step or adjustment   *)
(* leaves the table, but in the two cases that IndexInTable names.          *)
THEOREM NeverOutsideTable == Spec => []IndexInTable
<1>1. SampleInv => IndexInTable
  BY DEF SampleInv
<1>. QED
  BY <1>1, SampleInvHolds, PTL

LEMMA StepTowardLoad ==
  ASSUME TypeOK, TypeOK', SampleInv, Target, ~s.moved, ~Lost
  PROVE  /\ s.cond \in Ups => cur' >= Min({cur, Freq[Fastest(InPolicy(policy))]})
         /\ s.cond \in Downs => cur' <= Max({cur, Freq[Slowest(InPolicy(policy))]})
<1>. DEFINE P == InPolicy(policy)
            i == TableTarget(policy, res.next_freq, s.relation)
<1>1. /\ ~s.lost /\ P # {} /\ pc = "target"
      /\ cur' = (IF res.adj THEN Freq[i] ELSE cur)
  BY DEF Lost, Target
<1>2. cur = s.freq /\ cur \in Nat
  BY <1>1, SampleTypes DEF SampleInv
<1>3. /\ Fastest(P) \in P /\ Slowest(P) \in P
      /\ Freq[Fastest(P)] \in Nat /\ Freq[Slowest(P)] \in Nat
      /\ policy.min <= Freq[Slowest(P)] /\ Freq[Fastest(P)] <= policy.max
      /\ Fastest(P) \in Levels /\ Slowest(P) \in Levels
  BY <1>1, InPolicyLevels, FastestExists, SlowestExists, PolicyLevels, FreqIsNat
<1>4. \A a, b \in Nat : /\ Max({a, b}) = IF a >= b THEN a ELSE b
                        /\ Min({a, b}) = IF a <= b THEN a ELSE b
  <2>1. SUFFICES ASSUME NEW a \in Nat, NEW b \in Nat
                 PROVE  /\ Max({a, b}) = IF a >= b THEN a ELSE b
                        /\ Min({a, b}) = IF a <= b THEN a ELSE b
    OBVIOUS
  <2>. QED
    BY DEF Max, Min
<1>5. ASSUME s.cond \in Downs
      PROVE  cur' <= Max({cur, Freq[Slowest(P)]})
  <2>1. DownInv /\ s.relation = "L"
    BY <1>1, <1>5 DEF SampleInv, DownInv
  <2>2. /\ DownLimits /\ res.next_freq \in Speeds /\ Below(res.next_freq)
    BY <1>1, <2>1 DEF DownInv
  <2>3. i \in Levels /\ Below(Freq[i]) /\ Freq[i] \in Nat
    BY <1>1, <2>1, <2>2, SlowerStillBelow, FreqIsNat
  <2>. HIDE DEF i, P
  <2>4. Freq[i] <= cur \/ Freq[i] <= Freq[Slowest(P)]
    BY <1>2, <1>3, <2>3 DEF Below
  <2>5. Max({cur, Freq[Slowest(P)]}) =
          IF cur >= Freq[Slowest(P)] THEN cur ELSE Freq[Slowest(P)]
    BY <1>2, <1>3, <1>4
  <2>. QED
    BY <1>1, <1>2, <1>3, <2>3, <2>4, <2>5
<1>6. ASSUME s.cond \in Ups
      PROVE  cur' >= Min({cur, Freq[Fastest(P)]})
  <2>1. UpInv /\ s.relation = "H"
    BY <1>1, <1>6 DEF SampleInv, UpInv
  <2>2. /\ UpLimits /\ res.next_freq \in Speeds /\ Above(res.next_freq)
    BY <1>1, <2>1 DEF UpInv
  <2>3. i \in Levels /\ Above(Freq[i]) /\ Freq[i] \in Nat
    BY <1>1, <2>1, <2>2, FasterStillAbove, FreqIsNat
  <2>. HIDE DEF i, P
  <2>4. cur <= Freq[i] \/ Freq[Fastest(P)] <= Freq[i]
    BY <1>2, <1>3, <2>3 DEF Above
  <2>5. Min({cur, Freq[Fastest(P)]}) =
          IF cur <= Freq[Fastest(P)] THEN cur ELSE Freq[Fastest(P)]
    BY <1>2, <1>3, <1>4
  <2>. QED
    BY <1>1, <1>2, <1>3, <2>3, <2>4, <2>5
<1>. QED
  BY <1>5, <1>6

(* A busy sample never slows the clock and a calm one never raises it, as  *)
(* long as no other driver moved it meanwhile and but for TowardLoad's own *)
(* exceptions, whatever limits are stored between its searches.            *)
THEOREM NeverAgainstSample == Spec => TowardLoad
<1>1. TypeOK /\ TypeOK' /\ SampleInv /\ [Next]_vars
        => [Target /\ ~s.moved /\ ~Lost =>
              /\ s.cond \in Ups =>
                   cur' >= Min({cur, Freq[Fastest(InPolicy(policy))]})
              /\ s.cond \in Downs =>
                   cur' <= Max({cur, Freq[Slowest(InPolicy(policy))]})]_vars
  BY StepTowardLoad
<1>. QED
  BY <1>1, SampleInvHolds, PTL DEF Spec, TowardLoad
=============================================================================
