--------------------------- MODULE UsageScoreProofs ---------------------------
(***************************************************************************)
(* Proofs about UsageScore, for every ladder and every set of samples.     *)
(***************************************************************************)
EXTENDS UsageScore, TLAPS

(* The neighbours of a step are steps: the ends are their own               *)
LEMMA NeighboursOnLadder ==
  ASSUME NEW f \in Steps
  PROVE  NextFreq(f) \in Steps /\ PrevFreq(f) \in Steps
BY TopAssumption DEF NextFreq, PrevFreq, Steps

(* The scaled index is a weighted mean of the current and the last one      *)
LEMMA ScaledUpOnLadder ==
  ASSUME NEW f \in Steps, NEW u \in 0 .. 100
  PROVE  ScaledUp(f, u) \in Steps
<1>. DEFINE d == Top - f + 1
            sum == d * u + 100 * (f - 1)
            adj == sum \div 100
<1>1. f \in Nat /\ Top \in Nat /\ d \in Nat /\ f - 1 = Top - d
  BY TopAssumption DEF Steps
<1>2. d * u \in Int /\ d * u <= d * 100
  <2>. HIDE DEF d
  <2>1. d * (100 - u) \in Nat
    BY <1>1
  <2>2. d * (100 - u) = d * 100 - d * u
    BY <1>1
  <2>. QED
    BY <1>1, <2>1, <2>2
<1>3. sum \in Int /\ sum <= 100 * Top
  <2>. HIDE DEF d
  <2>1. d * 100 + 100 * (Top - d) = 100 * Top
    BY <1>1
  <2>. QED
    BY <1>1, <1>2, <2>1
<1>4. adj \in Int /\ adj <= Top
  <2>. HIDE DEF sum
  <2>. QED
    BY <1>1, <1>3
<1>5. NextFreq(f) \in Steps
  BY NeighboursOnLadder
<1>6. ScaledUp(f, u) = IF adj < f THEN f ELSE IF adj = f THEN NextFreq(f) ELSE adj
  BY DEF ScaledUp
<1>. HIDE DEF adj
<1>. QED
  BY <1>1, <1>4, <1>5, <1>6 DEF Steps

(* In the low range of usage the index shrinks                              *)
LEMMA ScaledDownOnLadder ==
  ASSUME NEW f \in Steps, NEW u \in 0 .. DownLimit
  PROVE  ScaledDown(f, u) \in Steps /\ ScaledDown(f, u) <= f
<1>. DEFINE x == (f + 1) * u
<1>1. f \in Nat /\ Top \in Nat /\ f <= Top /\ u \in 0 .. 30
  BY TopAssumption DEF Steps, DownLimit
<1>2. x \in Nat /\ x <= 30 * (f + 1)
  <2>1. (f + 1) * (30 - u) \in Nat
    BY <1>1
  <2>2. (f + 1) * (30 - u) = 30 * (f + 1) - x
    BY <1>1
  <2>3. x \in Nat
    BY <1>1
  <2>. QED
    BY <1>1, <2>1, <2>2, <2>3
<1>. HIDE DEF x
<1>3. x \div 100 \in Nat /\ x \div 100 <= f
  BY <1>1, <1>2
<1>. QED
  BY <1>1, <1>3 DEF ScaledDown, Steps, x

Wanted == Steps \cup {NoFreq}

LEMMA UsageCondWanted ==
  ASSUME NEW f \in Steps, NEW u \in 0 .. 100, NEW diff
  PROVE  UsageCond(f, u, diff) \in Wanted
<1>1. ScaledUp(f, u) \in Steps /\ NextFreq(f) \in Steps /\ PrevFreq(f) \in Steps
  BY ScaledUpOnLadder, NeighboursOnLadder
<1>2. u <= DownLimit => ScaledDown(f, u) \in Steps
  BY ScaledDownOnLadder DEF DownLimit
<1>. QED
  BY <1>1, <1>2 DEF UsageCond, Wanted

LEMMA AdjustedWanted ==
  ASSUME NEW f \in Steps, NEW want \in Wanted, NEW point
  PROVE  Adjusted(f, want, point) \in Wanted
<1>. DEFINE from == IF want = NoFreq THEN f ELSE want
<1>1. from \in Steps
  BY DEF Wanted
<1>. HIDE DEF from
<1>2. /\ NextFreq(from) \in Steps /\ NextFreq(NextFreq(from)) \in Steps
      /\ PrevFreq(from) \in Steps /\ PrevFreq(PrevFreq(from)) \in Steps
  BY <1>1, NeighboursOnLadder
<1>3. Adjusted(f, want, point) =
        CASE point = 2  /\ from # Top -> NextFreq(NextFreq(from))
          [] point = 1  /\ from # Top -> NextFreq(from)
          [] point = -1 /\ from # 0   -> PrevFreq(from)
          [] point = -2 /\ from # 0   -> PrevFreq(PrevFreq(from))
          [] point = 0  -> want
          [] OTHER -> NoFreq
  BY DEF Adjusted, from
<1>. QED
  BY <1>2, <1>3 DEF Wanted

LEMMA DecidedWanted ==
  ASSUME NEW f \in Steps, NEW r \in Resource, NEW last
  PROVE  Decided(f, r, last) \in Wanted
<1>1. r.cpu \in 0 .. 100
  BY UsageAssumption DEF Resource
<1>2. UsageCond(f, r.cpu, Diff(r, last).cpu) \in Wanted
  BY <1>1, UsageCondWanted
<1>. QED
  BY <1>2, AdjustedWanted DEF Decided

-----------------------------------------------------------------------------
(* The clock of a policy is on the ladder because its limits are            *)

LadderInv ==
  /\ lim \in LimitPairs
  /\ cur \in lim.lo .. lim.hi
  /\ set \in Steps

LEMMA LimitsOnLadder ==
  ASSUME NEW l \in LimitPairs
  PROVE  /\ l.lo \in Steps /\ l.hi \in Steps /\ l.lo <= l.hi
         /\ l.lo \in Nat /\ l.hi \in Nat /\ l.lo .. l.hi \subseteq Steps
BY LimitAssumption, TopAssumption DEF Steps

LEMMA SetGovernorKept ==
  ASSUME LadderInv, NEW g, SetGovernor(g)
  PROVE  LadderInv'
BY LimitsOnLadder DEF LadderInv, SetGovernor

LEMMA LadderKept == LadderInv /\ [Next]_vars => LadderInv'
<1>. SUFFICES ASSUME LadderInv, [Next]_vars PROVE LadderInv'
  OBVIOUS
<1>0. /\ lim.lo \in Nat /\ lim.hi \in Nat /\ lim.lo <= lim.hi
      /\ cur \in Steps /\ set \in Steps /\ set \in Nat /\ cur \in Nat
  BY LimitsOnLadder, TopAssumption DEF LadderInv, Steps
<1>1. CASE Start
  BY <1>1, SetGovernorKept DEF Start, LadderInv, kernel
<1>2. CASE Loop
  <2>1. PICK r \in Resource : Sample(r)
    BY <1>2 DEF Loop
  <2>2. CASE UNCHANGED kernel
    BY <2>2 DEF kernel, LadderInv
  <2>3. CASE Decided(cur, r, pre) # NoFreq /\ SetSpeed(Decided(cur, r, pre))
    <3>1. Decided(cur, r, pre) \in Steps
      BY <1>0, <2>3, DecidedWanted DEF Wanted
    <3>2. Clamp(Decided(cur, r, pre)) \in lim.lo .. lim.hi
      <4>1. ASSUME NEW f \in Steps PROVE Clamp(f) \in lim.lo .. lim.hi
        BY <1>0, TopAssumption DEF Clamp, Steps
      <4>. QED
        BY <3>1, <4>1
    <3>. QED
      BY <2>2, <2>3, <3>1, <3>2 DEF SetSpeed, LadderInv
  <2>. QED
    BY <2>1, <2>2, <2>3 DEF Sample
<1>3. CASE LogFails
  BY <1>3 DEF LogFails, LadderInv, kernel
<1>4. CASE Finish
  BY <1>4, SetGovernorKept DEF Finish, LadderInv, kernel
<1>5. CASE OtherGovernor
  BY <1>5, SetGovernorKept DEF OtherGovernor
<1>6. CASE OtherLimits
  <2>1. PICK l \in LimitPairs \ {lim} :
          /\ lim' = l
          /\ LET want == IF gov = "userspace" THEN set ELSE cur IN
             cur' = IF want < l.lo THEN l.lo ELSE IF want > l.hi THEN l.hi ELSE want
    BY <1>6 DEF OtherLimits
  <2>2. l.lo \in Nat /\ l.hi \in Nat /\ l.lo <= l.hi
    BY LimitsOnLadder
  <2>3. set' = set
    BY <1>6 DEF OtherLimits
  <2>. QED
    BY <1>0, <2>1, <2>2, <2>3 DEF LadderInv
<1>7. CASE GovernorMoves
  BY <1>7 DEF GovernorMoves, LadderInv
<1>8. CASE OtherPse
  BY <1>8 DEF OtherPse, LadderInv, kernel
<1>9. CASE UNCHANGED vars
  BY <1>9 DEF vars, kernel, LadderInv
<1>. QED
  BY <1>1, <1>2, <1>3, <1>4, <1>5, <1>6, <1>7, <1>8, <1>9 DEF Next

(* Whatever the samples, the limits and the order of events, the speed that *)
(* the daemon writes is a step of its table: no scaled index and no         *)
(* neighbour of a neighbour leaves it.                                      *)
THEOREM SpeedAlwaysOnLadder == Spec => []SpeedOnLadder
<1>1. Init => LadderInv
  BY LimitsOnLadder DEF Init, LadderInv
<1>2. LadderInv => SpeedOnLadder
  BY DEF LadderInv, SpeedOnLadder
<1>. QED
  BY <1>1, <1>2, LadderKept, PTL DEF Spec

-----------------------------------------------------------------------------
(* A marked change of the usage decides the direction                       *)

LEMMA ScaledUpNotBelow ==
  ASSUME NEW f \in Steps, NEW u \in 0 .. 100
  PROVE  ScaledUp(f, u) >= f
<1>. DEFINE sum == (Top - f + 1) * u + 100 * (f - 1)
            adj == sum \div 100
<1>1. f \in Nat /\ u \in Nat /\ Top - f + 1 \in Nat
  BY TopAssumption DEF Steps
<1>2. sum \in Int
  BY <1>1, TopAssumption
<1>3. adj \in Int
  <2>. HIDE DEF sum
  <2>. QED
    BY <1>2
<1>4. NextFreq(f) >= f
  BY <1>1 DEF NextFreq
<1>5. ScaledUp(f, u) = IF adj < f THEN f ELSE IF adj = f THEN NextFreq(f) ELSE adj
  BY DEF ScaledUp
<1>. HIDE DEF adj
<1>. QED
  BY <1>1, <1>3, <1>4, <1>5

LEMMA NeighboursInOrder ==
  ASSUME NEW f \in Steps
  PROVE  /\ NextFreq(f) >= f /\ NextFreq(NextFreq(f)) >= f
         /\ PrevFreq(f) <= f /\ PrevFreq(PrevFreq(f)) <= f
BY TopAssumption DEF NextFreq, PrevFreq, Steps

(* At a marked rise the wanted step is not below the current one, and no    *)
(* point of threads and memory counts but one that adds to it               *)
LEMMA RiseDecidesUp ==
  ASSUME NEW f \in Steps, NEW r \in Resource, NEW last,
         last.cpu \in Int, r.cpu - last.cpu >= UpThreshold,
         Decided(f, r, last) # NoFreq
  PROVE  Decided(f, r, last) \in Steps /\ Decided(f, r, last) >= f
<1>. DEFINE diff == Diff(r, last)
            point == Cond(diff.thread, ThreadThreshold) + Cond(diff.mem, MemThreshold)
            want == UsageCond(f, r.cpu, diff.cpu)
<1>1. r.cpu \in 0 .. 100
  BY UsageAssumption DEF Resource
<1>2. diff.cpu = r.cpu - last.cpu /\ diff.cpu >= 20
  BY DEF Diff, UpThreshold
<1>3. want = ScaledUp(f, r.cpu)
  BY <1>2 DEF UsageCond, UpThreshold
<1>4. want \in Steps /\ want >= f /\ want # NoFreq
  BY <1>1, <1>3, ScaledUpOnLadder, ScaledUpNotBelow, NoFreqAssumption
<1>5. point \in -2 .. 2
  BY DEF Cond
<1>6. Decided(f, r, last) = IF want # NoFreq /\ ~SameDirection(diff.cpu, point)
                            THEN want ELSE Adjusted(f, want, point)
  BY DEF Decided
<1>7. SameDirection(diff.cpu, point) => point > 0
  BY <1>1, <1>2 DEF SameDirection
<1>. HIDE DEF want, diff, point
<1>8. CASE ~SameDirection(diff.cpu, point)
  BY <1>4, <1>6, <1>8
<1>9. CASE SameDirection(diff.cpu, point)
  <2>1. Decided(f, r, last) = Adjusted(f, want, point) /\ point \in {1, 2}
    BY <1>5, <1>6, <1>7, <1>9
  <2>2. Adjusted(f, want, point) \in {NextFreq(want), NextFreq(NextFreq(want)), NoFreq}
    BY <1>4, <2>1 DEF Adjusted
  <2>3. /\ NextFreq(want) \in Steps /\ NextFreq(NextFreq(want)) \in Steps
        /\ NextFreq(want) >= want /\ NextFreq(NextFreq(want)) >= want
    BY <1>4, NeighboursOnLadder, NeighboursInOrder
  <2>. QED
    BY <1>4, <2>1, <2>2, <2>3, TopAssumption DEF Steps
<1>. QED
  BY <1>8, <1>9

(* A marked fall into the low range is the same for less                    *)
LEMMA FallDecidesDown ==
  ASSUME NEW f \in Steps, NEW r \in Resource, NEW last,
         last.cpu \in Int, r.cpu - last.cpu <= -DownThreshold,
         r.cpu <= DownLimit, Decided(f, r, last) # NoFreq
  PROVE  Decided(f, r, last) \in Steps /\ Decided(f, r, last) <= f
<1>. DEFINE diff == Diff(r, last)
            point == Cond(diff.thread, ThreadThreshold) + Cond(diff.mem, MemThreshold)
            want == UsageCond(f, r.cpu, diff.cpu)
<1>1. r.cpu \in 0 .. 100
  BY UsageAssumption DEF Resource
<1>2. diff.cpu = r.cpu - last.cpu /\ diff.cpu <= -20
  BY DEF Diff, DownThreshold
<1>3. want = ScaledDown(f, r.cpu)
  BY <1>1, <1>2 DEF UsageCond, UpThreshold, DownThreshold
<1>4. want \in Steps /\ want <= f /\ want # NoFreq
  <2>1. r.cpu \in 0 .. DownLimit
    BY <1>1 DEF DownLimit
  <2>. QED
    BY <1>3, <2>1, ScaledDownOnLadder, NoFreqAssumption
<1>5. point \in -2 .. 2
  BY DEF Cond
<1>6. Decided(f, r, last) = IF want # NoFreq /\ ~SameDirection(diff.cpu, point)
                            THEN want ELSE Adjusted(f, want, point)
  BY DEF Decided
<1>7. SameDirection(diff.cpu, point) => point < 0
  BY <1>1, <1>2 DEF SameDirection
<1>. HIDE DEF want, diff, point
<1>8. CASE ~SameDirection(diff.cpu, point)
  BY <1>4, <1>6, <1>8
<1>9. CASE SameDirection(diff.cpu, point)
  <2>1. Decided(f, r, last) = Adjusted(f, want, point) /\ point \in {-1, -2}
    BY <1>5, <1>6, <1>7, <1>9
  <2>2. Adjusted(f, want, point) \in {PrevFreq(want), PrevFreq(PrevFreq(want)), NoFreq}
    BY <1>4, <2>1 DEF Adjusted
  <2>3. /\ PrevFreq(want) \in Steps /\ PrevFreq(PrevFreq(want)) \in Steps
        /\ PrevFreq(want) <= want /\ PrevFreq(PrevFreq(want)) <= want
    BY <1>4, NeighboursOnLadder, NeighboursInOrder
  <2>. QED
    BY <1>4, <2>1, <2>2, <2>3, TopAssumption DEF Steps
<1>. QED
  BY <1>8, <1>9

(* The sample before is one, or what the program starts with                *)
PreInv == pre \in Resource \cup {FirstUsage}

LEMMA PreKept == PreInv /\ [Next]_vars => PreInv'
BY DEF PreInv, Next, vars, Start, Loop, Sample, LogFails, Finish,
   OtherGovernor, OtherLimits, GovernorMoves, OtherPse

DaemonTypes ==
  /\ gov \in Governors /\ pseFile \in BOOLEAN /\ on \in BOOLEAN
  /\ phase \in {"off", "started", "looping"}

LEMMA DaemonKept == DaemonTypes /\ [Next]_vars => DaemonTypes'
BY DEF DaemonTypes, Governors, Named, Next, vars, kernel, Start, Loop, Sample,
   Loaded, LogFails, Finish, OtherGovernor, OtherLimits, GovernorMoves, OtherPse,
   SetGovernor, SetSpeed

(* The variables have the values that TypeOK says                           *)
THEOREM TypeCorrect == Spec => []TypeOK
<1>1. Init => LadderInv /\ PreInv /\ DaemonTypes
  <2>1. Init => LadderInv
    BY LimitsOnLadder DEF Init, LadderInv
  <2>2. Init => PreInv /\ DaemonTypes
    BY DEF Init, PreInv, DaemonTypes, Governors
  <2>. QED
    BY <2>1, <2>2
<1>2. LadderInv /\ PreInv /\ DaemonTypes => TypeOK
  BY DEF LadderInv, PreInv, DaemonTypes, TypeOK
<1>. QED
  BY <1>1, <1>2, LadderKept, PreKept, DaemonKept, PTL DEF Spec

LEMMA NotAgainst ==
  ASSUME LadderInv, PreInv, NEW r \in Resource, Sample(r)
  PROVE  /\ r.cpu - pre.cpu >= UpThreshold => cur' >= cur
         /\ r.cpu - pre.cpu <= -DownThreshold /\ r.cpu <= DownLimit => cur' <= cur
<1>. DEFINE f == Decided(cur, r, pre)
<1>1. /\ lim.lo \in Nat /\ lim.hi \in Nat /\ lim.lo <= lim.hi
      /\ cur \in Nat /\ cur \in Steps /\ lim.lo <= cur /\ cur <= lim.hi
  BY LimitsOnLadder DEF LadderInv
<1>2. pre.cpu \in Int
  <2>1. pre \in Resource => pre.cpu \in Usages
    BY DEF Resource
  <2>2. pre.cpu \in 0 .. 100
    BY <2>1, UsageAssumption DEF PreInv
  <2>. QED
    BY <2>2
<1>3. CASE cur' = cur
  BY <1>1, <1>3
<1>4. CASE f # NoFreq /\ cur' = Clamp(f)
  <2>1. r.cpu - pre.cpu >= UpThreshold => f \in Nat /\ f >= cur
    BY <1>1, <1>2, <1>4, RiseDecidesUp, TopAssumption DEF Steps
  <2>2. r.cpu - pre.cpu <= -DownThreshold /\ r.cpu <= DownLimit
          => f \in Nat /\ f <= cur
    BY <1>1, <1>2, <1>4, FallDecidesDown, TopAssumption DEF Steps
  <2>. HIDE DEF f
  <2>3. f \in Nat /\ f >= cur => Clamp(f) >= cur
    BY <1>1 DEF Clamp
  <2>4. f \in Nat /\ f <= cur => Clamp(f) <= cur
    BY <1>1 DEF Clamp
  <2>. QED
    BY <1>4, <2>1, <2>2, <2>3, <2>4
<1>. QED
  BY <1>3, <1>4 DEF Sample, SetSpeed, kernel

(* Whatever the threads and the memory did, and whatever limits the policy  *)
(* has, a sample with a marked rise of the usage does not lower the clock,  *)
(* and one with a marked fall into the low range does not raise it.         *)
THEOREM NeverAgainstUsage == Spec => NeverAgainstLoad
<1>1. Init => LadderInv /\ PreInv
  BY LimitsOnLadder DEF Init, LadderInv, PreInv
<1>2. LadderInv /\ PreInv =>
        [\A r \in Resource : Sample(r) =>
           /\ r.cpu - pre.cpu >= UpThreshold => cur' >= cur
           /\ r.cpu - pre.cpu <= -DownThreshold /\ r.cpu <= DownLimit
                => cur' <= cur]_vars
  BY NotAgainst
<1>. QED
  BY <1>1, <1>2, LadderKept, PreKept, PTL DEF Spec, NeverAgainstLoad
=============================================================================
