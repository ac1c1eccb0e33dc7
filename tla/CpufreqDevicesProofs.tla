------------------------ MODULE CpufreqDevicesProofs ------------------------
(***************************************************************************)
(* Proofs about CpufreqDevices: for any number of CPUs, policies and       *)
(* users, the CPUs that have a policy share it (PolicyShared); and where   *)
(* there are two CPUs at most, no reference is lost and no policy that     *)
(* somebody holds is freed (RefsExact).                                    *)
(***************************************************************************)
EXTENDS CpufreqDevices, FiniteSetTheorems, TLAPS

-----------------------------------------------------------------------------
(* The invariant                                                            *)

Adding == {"add", "init", "policy", "join", "links", "start"}
Making == {"init", "policy", "join", "links", "start"}
Unlinking == {"unlink", "unlinked", "wait"}
Pcs == Adding \cup Unlinking \cup {"idle", "remove", "own", "free", "removed"}

PolicyRecord == [used : BOOLEAN, cpu : Cpus, cpus : SUBSET Cpus, refs : Int,
                 released : BOOLEAN, started : BOOLEAN]
OrNone == Policies \cup {NoOne}
HandRecord == [pc : Pcs, cpu : Cpus, add : Cpus, new : OrNone, join : OrNone,
               old : OrNone, unlink : SUBSET Cpus, then : {"next", "idle", "own"}]
UserRecord == [pc : {"idle", "put", "find", "lock", "use"}, cpu : Cpus, p : OrNone,
               sem : Cpus \cup {NoOne}]

Types ==
  /\ online \subseteq Cpus
  /\ data \in [Cpus -> OrNone] /\ policy_cpu \in [Cpus -> Cpus \cup {NoOne}]
  /\ pol \in [Policies -> PolicyRecord]
  /\ h \in HandRecord
  /\ user \in [Users -> UserRecord]

Live(p) == \E c \in Cpus : data[c] = p

(* Which policies the hotplug thread has in its hands                       *)
Removing == At("own") \/ At("free") \/ h.pc \in Unlinking
            \/ (h.pc \in Adding /\ h.then = "own")

HandsInv ==
  /\ h.new # NoOne <=> h.pc \in Making
  /\ h.join # NoOne <=> At("join")
  /\ h.old # NoOne <=> Removing
  /\ h.new # NoOne => h.new # h.old /\ pol[h.new].used
  /\ h.old # NoOne => pol[h.old].used

(* The CPUs that have a policy share it                                     *)
OwnersInv ==
  /\ \A c \in Cpus : data[c] # NoOne =>
       /\ c \in online /\ c \in pol[data[c]].cpus /\ data[c] # h.old
       /\ pol[data[c]].used /\ (data[c] # h.new => pol[data[c]].started)
       /\ policy_cpu[c] = pol[data[c]].cpu /\ data[pol[data[c]].cpu] = data[c]
  /\ \A c, d \in Cpus : data[c] # NoOne /\ data[d] # NoOne => data[c] = data[d]
  /\ \A p \in Policies : pol[p].used => Live(p) \/ p = h.new \/ p = h.old

(* A policy that is made is the CPU's, and becomes that of others when it   *)
(* is complete                                                              *)
NewInv ==
  h.pc \in Making =>
    /\ pol[h.new].cpu = h.add /\ h.add \in online /\ h.add \in pol[h.new].cpus
    /\ h.pc \in {"init", "policy", "join"} => ~Live(h.new) /\ data[h.add] = NoOne
    /\ h.pc \in {"policy", "join"} => pol[h.new].cpus = AllCpus
    /\ At("join") => Live(h.join) /\ policy_cpu[h.add] = pol[h.join].cpu
    /\ h.pc \in {"links", "start"} => \A c \in Cpus : data[c] = h.new <=> c \in Shared

(* Nobody has a policy while one is removed, nor has the CPU that goes in   *)
(* the end                                                                  *)
GoneInv ==
  /\ h.pc \in Unlinking => \A c \in Cpus : data[c] = NoOne
  /\ h.pc \in {"free", "removed"} => data[h.cpu] = NoOne

SharedInv == Types /\ HandsInv /\ OwnersInv /\ NewInv /\ GoneInv

(* Who holds a policy got it from a CPU, and it is not freed meanwhile      *)
HoldersInv ==
  /\ \A u \in Users : user[u].p = NoOne <=> user[u].pc = "idle"
  /\ \A p \in Policies : IsFiniteSet(Holders(p)) /\ (Holders(p) # {} => pol[p].used)
  /\ h.pc \in {"init", "policy", "join"} => Holders(h.new) = {} /\ ~pol[h.new].released
  /\ At("unlinked") => h.unlink # {}

(* The links are counted when they have all been made                       *)
Links(p) == IF At("links") /\ h.new = p THEN 0 ELSE Cardinality(Linked(p))
Counted(p) == pol[p].refs = InCore(p) + Cardinality(Holders(p)) + Links(p)
CountInv == \A p \in Policies : Counted(p)

(* The last reference is dropped once                                       *)
DropInv ==
  /\ \A p \in Policies : pol[p].released => pol[p].refs = 0
  /\ Removing /\ h.pc \notin Unlinking => pol[h.old].released

(* A policy lists the CPUs that have it, if there are two at most           *)
ListInv == \A p \in Policies, c \in Cpus : Live(p) /\ c \in pol[p].cpus => data[c] = p

RefsInv == HoldersInv /\ CountInv /\ DropInv /\ ListInv

-----------------------------------------------------------------------------
(* Sets of CPUs, and the records                                            *)

LEMMA LeastCpu ==
  ASSUME NEW S \in SUBSET Cpus, S # {}
  PROVE  Min(S) \in S
<1>. DEFINE R == OpToRel(<, Nat)
<1>1. IsWellFoundedOn(R, Nat)
  BY NatLessThanWellFounded
<1>2. \A x, y \in Nat : x < y => <<x, y>> \in R
  BY DEF OpToRel
<1>3. S \in SUBSET Nat
  BY DevicesAssumption
<1>. HIDE DEF R
<1>4. PICK n \in S : \A j \in S : <<j, n>> \notin R
  BY <1>1, <1>3, WFMin
<1>5. \A j \in S : n <= j
  <2>1. SUFFICES ASSUME NEW j \in S PROVE n <= j
    OBVIOUS
  <2>2. n \in Nat /\ j \in Nat /\ ~(j < n)
    BY <1>2, <1>3, <1>4
  <2>. QED
    BY <2>2
<1>. QED
  BY <1>5 DEF Min

(* What is kept of the policies when references are taken and dropped       *)
OnlyRefs ==
  /\ pol' \in [Policies -> PolicyRecord]
  /\ \A p \in Policies :
       /\ pol'[p].used <=> pol[p].used
       /\ pol'[p].started <=> pol[p].started
       /\ pol'[p].cpu = pol[p].cpu /\ pol'[p].cpus = pol[p].cpus

LEMMA GetFacts ==
  ASSUME Types, NEW p \in Policies, pol' = Get(p)
  PROVE  /\ OnlyRefs
         /\ pol'[p].refs = pol[p].refs + 1
         /\ pol'[p].released <=> pol[p].released
         /\ \A q \in Policies \ {p} : pol'[q] = pol[q]
BY DEF Types, Get, OnlyRefs, PolicyRecord

LEMMA PutValue ==
  ASSUME Types, NEW p \in Policies, NEW g, g = Put(p)
  PROVE  /\ g \in [Policies -> PolicyRecord]
         /\ g[p].used <=> pol[p].used
         /\ g[p].started <=> pol[p].started
         /\ g[p].cpu = pol[p].cpu /\ g[p].cpus = pol[p].cpus
         /\ g[p].refs = pol[p].refs - 1
         /\ g[p].released <=> pol[p].released \/ pol[p].refs = 1
         /\ \A q \in Policies \ {p} : g[q] = pol[q]
<1>. DEFINE r == [pol[p] EXCEPT !.refs = @ - 1, !.released = @ \/ pol[p].refs = 1]
<1>1. pol[p] \in PolicyRecord /\ pol \in [Policies -> PolicyRecord]
  BY DEF Types
<1>2. g = [pol EXCEPT ![p] = r]
  BY <1>1 DEF Put
<1>2a. PICK b \in BOOLEAN, n \in Int :
        /\ b <=> pol[p].released \/ pol[p].refs = 1
        /\ n = pol[p].refs - 1 /\ r = [pol[p] EXCEPT !.refs = n, !.released = b]
  <2>1. pol[p].refs - 1 \in Int /\ (pol[p].released \/ pol[p].refs = 1) \in BOOLEAN
    BY <1>1 DEF PolicyRecord
  <2>. QED
    BY <2>1
<1>. HIDE DEF r
<1>3. /\ r \in PolicyRecord /\ r.refs = pol[p].refs - 1
      /\ r.released <=> pol[p].released \/ pol[p].refs = 1
      /\ r.used = pol[p].used /\ r.started = pol[p].started
      /\ r.cpu = pol[p].cpu /\ r.cpus = pol[p].cpus
  BY <1>1, <1>2a DEF PolicyRecord
<1>4. g[p] = r /\ \A q \in Policies \ {p} : g[q] = pol[q]
  BY <1>1, <1>2
<1>5. g \in [Policies -> PolicyRecord]
  BY <1>1, <1>2, <1>3
<1>. QED
  BY <1>3, <1>4, <1>5

LEMMA PutFacts ==
  ASSUME Types, NEW p \in Policies, pol' = Put(p)
  PROVE  /\ OnlyRefs
         /\ pol'[p].refs = pol[p].refs - 1
         /\ pol'[p].released <=> pol[p].released \/ pol[p].refs = 1
         /\ \A q \in Policies \ {p} : pol'[q] = pol[q]
<1>1. PICK g : g = Put(p)
  OBVIOUS
<1>2. /\ g \in [Policies -> PolicyRecord]
      /\ g[p].used <=> pol[p].used
      /\ g[p].started <=> pol[p].started
      /\ g[p].cpu = pol[p].cpu /\ g[p].cpus = pol[p].cpus
      /\ g[p].refs = pol[p].refs - 1
      /\ g[p].released <=> pol[p].released \/ pol[p].refs = 1
      /\ \A q \in Policies \ {p} : g[q] = pol[q]
  BY <1>1, PutValue
<1>. QED
  BY <1>1, <1>2 DEF OnlyRefs

LEMMA NoPolicyType == NoPolicy \in PolicyRecord
BY DevicesAssumption DEF NoPolicy, PolicyRecord

LEMMA UserTypes ==
  ASSUME Types, NEW u \in Users, NEW c \in Cpus, User(u) \/ CpuGet(u, c)
  PROVE  /\ user' \in [Users -> UserRecord]
         /\ UNCHANGED <<online, data, policy_cpu, h>>
<1>. USE DEF Types
<1>1. CASE CpuGet(u, c)
  <2>1. PICK p \in Policies : p = data[c]
    BY <1>1 DEF CpuGet, OrNone
  <2>2. pol[p].cpu \in Cpus /\ p \in OrNone
    BY DEF PolicyRecord, OrNone
  <2>3. PICK r \in UserRecord : r = NoUse
    BY DevicesAssumption DEF NoUse, UserRecord, OrNone
  <2>4. /\ [r EXCEPT !.pc = "put", !.p = p] \in UserRecord
        /\ [r EXCEPT !.pc = "find", !.cpu = pol[p].cpu, !.p = p] \in UserRecord
    BY <2>2 DEF UserRecord
  <2>5. \E x \in UserRecord : user' = [user EXCEPT ![u] = x]
    BY <1>1, <2>1, <2>3, <2>4 DEF CpuGet
  <2>. QED
    BY <1>1, <2>5 DEF CpuGet
<1>2. CASE User(u)
  BY <1>2, DevicesAssumption DEF User, FindSem, Down, UserUnlock, CpuPut, Step, NoUse,
     UserRecord, OrNone, SemOf
<1>. QED
  BY <1>1, <1>2

LEMMA RefsKeepShared ==
  ASSUME SharedInv, OnlyRefs, UNCHANGED <<online, data, policy_cpu, h>>,
         user' \in [Users -> UserRecord]
  PROVE  SharedInv'
<1>. USE DEF SharedInv
<1>1. Types'
  BY DEF Types, OnlyRefs
<1>2. HandsInv'
  BY DEF HandsInv, Removing, At, OnlyRefs, Types, HandRecord, OrNone
<1>3. OwnersInv'
  BY DEF OwnersInv, OnlyRefs, Types, OrNone, Live
<1>4. NewInv'
  <2>1. SUFFICES ASSUME h.pc \in Making PROVE NewInv'
    BY DEF NewInv
  <2>2. PICK p \in Policies : p = h.new
    BY <2>1 DEF HandsInv, Types, HandRecord, OrNone
  <2>3. At("join") => h.join \in Policies
    BY DEF HandsInv, Types, HandRecord, OrNone
  <2>4. pol'[p].cpu = pol[p].cpu /\ pol'[p].cpus = pol[p].cpus
        /\ (At("join") => pol'[h.join].cpu = pol[h.join].cpu)
    BY <2>3 DEF OnlyRefs
  <2>. QED
    BY <2>1, <2>2, <2>4 DEF NewInv, Live, AllCpus, Shared, At
<1>5. GoneInv'
  BY DEF GoneInv
<1>. QED
  BY <1>1, <1>2, <1>3, <1>4, <1>5 DEF SharedInv

LEMMA UserShared ==
  ASSUME SharedInv, NEW u \in Users, NEW c \in Cpus, User(u) \/ CpuGet(u, c)
  PROVE  SharedInv'
<1>1. OnlyRefs
  <2>1. CASE UNCHANGED pol
    BY <2>1 DEF OnlyRefs, SharedInv, Types
  <2>2. CASE CpuGet(u, c)
    <3>1. data[c] \in Policies /\ pol' = Get(data[c])
      BY <2>2 DEF CpuGet, SharedInv, Types, OrNone
    <3>. QED
      BY <3>1, GetFacts DEF SharedInv
  <2>3. CASE CpuPut(u)
    <3>1. CASE user[u].p \in Policies
      BY <2>3, <3>1, PutFacts DEF CpuPut, SharedInv
    <3>2. CASE user[u].p \notin Policies
      <4>1. UNCHANGED pol
        BY <2>3, <3>2 DEF CpuPut, Put, SharedInv, Types
      <4>. QED
        BY <2>1, <4>1
    <3>. QED
      BY <3>1, <3>2
  <2>. QED
    BY <2>1, <2>2, <2>3 DEF User, FindSem, Down, UserUnlock
<1>. QED
  BY <1>1, UserTypes, RefsKeepShared DEF SharedInv

-----------------------------------------------------------------------------
(* The hotplug thread, where the policies stay as they are                  *)

Stages == {"next", "idle", "own"}

(* What follows the adding of a CPU                                         *)
LEMMA AddedFacts ==
  ASSUME Types, Added
  PROVE  /\ h' \in HandRecord
         /\ h'.new = NoOne /\ h'.join = NoOne /\ h'.old = h.old
         /\ h'.cpu = h.cpu /\ h'.unlink = h.unlink /\ h'.then = h.then
         /\ h'.pc \in {"add", "idle", "own"}
         /\ h'.pc = "own" <=> h.then = "own"
         /\ h'.pc = "add" => h.then = "next"
<1>1. h \in HandRecord /\ NoOne \in OrNone
  BY DEF Types, OrNone
<1>2. CASE h.then = "next" /\ Later # {}
  <2>1. Min(Later) \in Cpus
    BY <1>2, LeastCpu DEF Later
  <2>2. h' = [h EXCEPT !.pc = "add", !.add = Min(Later), !.new = NoOne, !.join = NoOne]
    BY <1>2 DEF Added
  <2>. QED
    BY <1>1, <1>2, <2>1, <2>2 DEF HandRecord, Pcs, Adding
<1>3. CASE ~(h.then = "next" /\ Later # {})
  <2>1. PICK p \in {"idle", "own"} :
          /\ p = IF h.then = "next" THEN "idle" ELSE h.then
          /\ h' = [h EXCEPT !.pc = p, !.new = NoOne, !.join = NoOne]
    BY <1>1, <1>3 DEF Added, HandRecord
  <2>. QED
    BY <1>1, <1>3, <2>1 DEF HandRecord, Pcs
<1>. QED
  BY <1>2, <1>3

(* The adding is over, and has left nothing behind                          *)
LEMMA AddedHands ==
  ASSUME Types, HandsInv, h.pc \in Adding, Added
  PROVE  /\ h'.new = NoOne /\ h'.join = NoOne
         /\ h'.old # NoOne <=> Removing'
         /\ h'.new # NoOne <=> h'.pc \in Making
         /\ h'.join # NoOne <=> At("join")'
         /\ h'.pc \notin Unlinking \cup {"free", "removed"}
BY AddedFacts DEF HandsInv, Removing, At, Adding, Making, Unlinking

LEMMA AddNothingShared ==
  ASSUME SharedInv, AddNothing
  PROVE  SharedInv'
<1>. USE DEF SharedInv
<1>1. Added /\ h.pc = "add" /\ UNCHANGED <<online, data, policy_cpu, pol, user>>
  BY DEF AddNothing, At
<1>2. Types'
  BY <1>1, AddedFacts DEF Types
<1>3. /\ h'.new = NoOne /\ h'.old = h.old /\ h.new = NoOne
      /\ h'.pc \notin Making \cup Unlinking \cup {"free", "removed"}
  BY <1>1, AddedFacts DEF HandsInv, Making, Unlinking
<1>4. HandsInv'
  BY <1>1, <1>3, AddedHands DEF HandsInv, Adding
<1>5. OwnersInv'
  BY <1>1, <1>3 DEF OwnersInv, Live
<1>6. NewInv' /\ GoneInv'
  BY <1>3 DEF NewInv, GoneInv
<1>. QED
  BY <1>2, <1>4, <1>5, <1>6

(* Only what the thread does next changes, and perhaps which CPU it adds    *)
LEMMA GoesOn ==
  ASSUME SharedInv, UNCHANGED <<data, policy_cpu, pol, user>>,
         online' \subseteq Cpus, \A c \in online : data[c] # NoOne => c \in online',
         h' \in HandRecord, h'.new = NoOne, h'.join = NoOne, h'.old = h.old,
         h.new = NoOne, h.join = NoOne,
         h'.pc \notin Making, Removing' <=> Removing,
         GoneInv'
  PROVE  SharedInv'
<1>. USE DEF SharedInv
<1>1. Types'
  BY DEF Types
<1>2. HandsInv'
  BY DEF HandsInv, At, Making
<1>3. OwnersInv'
  BY DEF OwnersInv, Live
<1>4. NewInv'
  BY DEF NewInv
<1>. QED
  BY <1>1, <1>2, <1>3, <1>4

LEMMA HotplugSteps ==
  ASSUME SharedInv,
         \/ \E c \in Cpus : CpuOnline(c) \/ CpuDownPrepare(c)
         \/ CpuDead \/ CpuDownFailed \/ Unlink \/ WaitForDrop
  PROVE  SharedInv'
<1>. USE DEF SharedInv
<1>0. h \in HandRecord /\ online \subseteq Cpus
  BY DEF Types
<1>1. UNCHANGED <<data, policy_cpu, pol, user>>
  BY DEF CpuOnline, CpuDownPrepare, CpuDead, CpuDownFailed, Unlink, WaitForDrop
<1>2. h.pc \in {"idle", "removed", "unlink", "wait"}
  BY DEF CpuOnline, CpuDownPrepare, CpuDead, CpuDownFailed, Unlink, WaitForDrop, At
<1>3. h.new = NoOne /\ h.join = NoOne
  BY <1>2 DEF HandsInv, Making, At
<1>4. ASSUME NEW c \in Cpus, CpuOnline(c) PROVE SharedInv'
  <2>1. /\ h' = [h EXCEPT !.pc = "add", !.add = c, !.then = "idle"]
        /\ h.pc = "idle" /\ online' = online \cup {c}
    BY <1>4 DEF CpuOnline, At
  <2>2. /\ h' \in HandRecord /\ h'.pc = "add" /\ h'.new = h.new /\ h'.join = h.join
        /\ h'.old = h.old /\ h'.then = "idle"
    BY <1>0, <2>1 DEF HandRecord, Pcs, Adding
  <2>3. (Removing' <=> Removing) /\ GoneInv' /\ h'.pc \notin Making
    BY <2>1, <2>2 DEF Removing, At, GoneInv, Unlinking, Adding, Making
  <2>. QED
    BY <1>0, <1>1, <1>3, <2>1, <2>2, <2>3, GoesOn
<1>5. ASSUME NEW c \in Cpus, CpuDownPrepare(c) PROVE SharedInv'
  <2>1. /\ h' = [h EXCEPT !.pc = "remove", !.cpu = c]
        /\ h.pc = "idle" /\ online' = online
    BY <1>5 DEF CpuDownPrepare, At
  <2>2. /\ h' \in HandRecord /\ h'.pc = "remove" /\ h'.new = h.new /\ h'.join = h.join
        /\ h'.old = h.old
    BY <1>0, <2>1 DEF HandRecord, Pcs
  <2>3. (Removing' <=> Removing) /\ GoneInv' /\ h'.pc \notin Making
    BY <2>1, <2>2 DEF Removing, At, GoneInv, Unlinking, Adding, Making
  <2>. QED
    BY <1>0, <1>1, <1>3, <2>1, <2>2, <2>3, GoesOn
<1>6. CASE CpuDead
  <2>1. /\ h' = [h EXCEPT !.pc = "idle"]
        /\ h.pc = "removed" /\ online' = online \ {h.cpu}
    BY <1>6 DEF CpuDead, At, Goto
  <2>2. /\ h' \in HandRecord /\ h'.pc = "idle" /\ h'.new = h.new /\ h'.join = h.join
        /\ h'.old = h.old
    BY <1>0, <2>1 DEF HandRecord, Pcs
  <2>3. (Removing' <=> Removing) /\ GoneInv' /\ h'.pc \notin Making
    BY <2>1, <2>2 DEF Removing, At, GoneInv, Unlinking, Adding, Making
  <2>4. data[h.cpu] = NoOne
    BY <2>1 DEF GoneInv
  <2>. QED
    BY <1>0, <1>1, <1>3, <2>1, <2>2, <2>3, <2>4, GoesOn
<1>7. CASE CpuDownFailed
  <2>1. /\ h' = [h EXCEPT !.pc = "add", !.add = h.cpu, !.then = "idle"]
        /\ h.pc = "removed" /\ online' = online
    BY <1>7 DEF CpuDownFailed, At
  <2>2. /\ h' \in HandRecord /\ h'.pc = "add" /\ h'.new = h.new /\ h'.join = h.join
        /\ h'.old = h.old /\ h'.then = "idle"
    BY <1>0, <2>1 DEF HandRecord, Pcs, Adding
  <2>3. (Removing' <=> Removing) /\ GoneInv' /\ h'.pc \notin Making
    BY <2>1, <2>2 DEF Removing, At, GoneInv, Unlinking, Adding, Making
  <2>. QED
    BY <1>0, <1>1, <1>3, <2>1, <2>2, <2>3, GoesOn
<1>8. CASE Unlink
  <2>1. /\ h' = [h EXCEPT !.pc = "unlinked"]
        /\ h.pc = "unlink" /\ online' = online
    BY <1>8 DEF Unlink, At, Goto
  <2>2. /\ h' \in HandRecord /\ h'.pc = "unlinked" /\ h'.new = h.new /\ h'.join = h.join
        /\ h'.old = h.old
    BY <1>0, <2>1 DEF HandRecord, Pcs, Unlinking
  <2>3. (Removing' <=> Removing) /\ GoneInv' /\ h'.pc \notin Making
    BY <1>1, <2>1, <2>2 DEF Removing, At, GoneInv, Unlinking, Adding, Making
  <2>. QED
    BY <1>0, <1>1, <1>3, <2>1, <2>2, <2>3, GoesOn
<1>9. CASE WaitForDrop
  <2>1. h.pc = "wait" /\ online' = online
    BY <1>9 DEF WaitForDrop, At
  <2>2. PICK p \in Policies : p = h.old
    BY <1>0, <2>1 DEF HandsInv, Removing, Unlinking, HandRecord, OrNone
  <2>3. PICK others \in SUBSET Cpus : others = pol[p].cpus \ {h.cpu}
    BY DEF Types, PolicyRecord
  <2>4. CASE others = {}
    <3>1. h' = [h EXCEPT !.pc = "free"]
      BY <1>9, <2>2, <2>3, <2>4 DEF WaitForDrop
    <3>2. /\ h' \in HandRecord /\ h'.pc = "free" /\ h'.new = h.new /\ h'.join = h.join
          /\ h'.old = h.old /\ h'.cpu = h.cpu
      BY <1>0, <3>1 DEF HandRecord, Pcs
    <3>3. (Removing' <=> Removing) /\ GoneInv' /\ h'.pc \notin Making
      BY <1>0, <1>1, <2>1, <3>2 DEF Removing, At, GoneInv, Unlinking, Adding, Making,
         HandRecord
    <3>. QED
      BY <1>0, <1>1, <1>3, <2>1, <3>2, <3>3, GoesOn
  <2>5. CASE others # {}
    <3>1. h' = [h EXCEPT !.pc = "add", !.add = Min(others), !.then = "own"]
      BY <1>9, <2>2, <2>3, <2>5 DEF WaitForDrop
    <3>2. /\ h' \in HandRecord /\ h'.pc = "add" /\ h'.new = h.new /\ h'.join = h.join
          /\ h'.old = h.old /\ h'.then = "own"
      BY <1>0, <2>5, <3>1, LeastCpu DEF HandRecord, Pcs, Adding
    <3>3. (Removing' <=> Removing) /\ GoneInv' /\ h'.pc \notin Making
      BY <2>1, <3>2 DEF Removing, At, GoneInv, Unlinking, Adding, Making
    <3>. QED
      BY <1>0, <1>1, <1>3, <2>1, <3>2, <3>3, GoesOn
  <2>. QED
    BY <2>4, <2>5
<1>. QED
  BY <1>4, <1>5, <1>6, <1>7, <1>8, <1>9

-----------------------------------------------------------------------------
(* The hotplug thread, where it makes a policy                              *)

LEMMA FreedFacts ==
  ASSUME Types, NEW p \in Policies, pol' = Freed(p)
  PROVE  /\ pol' \in [Policies -> PolicyRecord] /\ pol'[p] = NoPolicy
         /\ ~pol'[p].used
         /\ \A q \in Policies \ {p} : pol'[q] = pol[q]
BY NoPolicyType DEF Types, Freed, NoPolicy

LEMMA AddDevShared ==
  ASSUME SharedInv, AddDev
  PROVE  SharedInv'
<1>. USE DEF SharedInv
<1>1. PICK p \in Policies :
        /\ ~pol[p].used
        /\ pol' = [pol EXCEPT ![p] = [NoPolicy EXCEPT !.used = TRUE, !.cpu = h.add,
                                                      !.cpus = {h.add}]]
        /\ h' = [h EXCEPT !.pc = "init", !.new = p]
  BY DEF AddDev
<1>2. /\ h.pc = "add" /\ h.add \in online /\ data[h.add] = NoOne
      /\ policy_cpu' = [policy_cpu EXCEPT ![h.add] = h.add]
      /\ UNCHANGED <<online, data, user>>
  BY DEF AddDev, At
<1>3. h \in HandRecord /\ h.add \in Cpus
  BY DEF Types, HandRecord
<1>4. /\ h' \in HandRecord /\ h'.pc = "init" /\ h'.new = p /\ h'.join = h.join
      /\ h'.old = h.old /\ h'.add = h.add /\ h'.then = h.then /\ h'.cpu = h.cpu
  BY <1>1, <1>3 DEF HandRecord, Pcs, Adding, OrNone
<1>5. PICK r \in PolicyRecord :
        /\ r.used /\ r.cpu = h.add /\ r.cpus = {h.add}
        /\ pol' = [pol EXCEPT ![p] = r]
  <2>1. PICK n \in PolicyRecord : n = NoPolicy
    BY NoPolicyType
  <2>2. [n EXCEPT !.used = TRUE, !.cpu = h.add, !.cpus = {h.add}] \in PolicyRecord
    BY <1>3 DEF PolicyRecord
  <2>. QED
    BY <1>1, <2>1, <2>2 DEF PolicyRecord
<1>6. pol' \in [Policies -> PolicyRecord] /\ pol'[p] = r
      /\ \A q \in Policies \ {p} : pol'[q] = pol[q]
  BY <1>5 DEF Types
<1>7. \A c \in Cpus : data[c] # NoOne => data[c] \in Policies \ {p} /\ c # h.add
  BY <1>1, <1>2 DEF OwnersInv, Types, OrNone
<1>8. /\ policy_cpu' \in [Cpus -> Cpus \cup {NoOne}] /\ policy_cpu'[h.add] = h.add
      /\ \A c \in Cpus \ {h.add} : policy_cpu'[c] = policy_cpu[c]
  BY <1>2, <1>3 DEF Types
<1>9. p # NoOne /\ h.new = NoOne /\ h.join = NoOne
  BY <1>2, DevicesAssumption DEF HandsInv, Making, At
<1>10. h.old # NoOne => h.old \in Policies \ {p}
  BY <1>1, <1>3 DEF HandsInv, HandRecord, OrNone
<1>11. Types'
  BY <1>2, <1>4, <1>6, <1>8 DEF Types
<1>12. HandsInv'
  BY <1>2, <1>4, <1>5, <1>6, <1>9, <1>10 DEF HandsInv, Removing, At, Making, Adding,
     Unlinking
<1>13. OwnersInv'
  BY <1>2, <1>4, <1>6, <1>7, <1>8, <1>9 DEF OwnersInv, Live
<1>14. NewInv'
  BY <1>2, <1>4, <1>5, <1>6, <1>7, <1>9 DEF NewInv, Live, At
<1>15. GoneInv'
  BY <1>4 DEF GoneInv, Unlinking
<1>. QED
  BY <1>11, <1>12, <1>13, <1>14, <1>15

(* A policy that could not be made is freed                                 *)
LEMMA GivenUp ==
  ASSUME SharedInv, h.pc \in {"init", "policy"}, pol' = Freed(h.new), Added,
         UNCHANGED <<online, data, policy_cpu, user>>
  PROVE  SharedInv'
<1>. USE DEF SharedInv
<1>1. PICK p \in Policies : p = h.new
  BY DEF HandsInv, Making, Types, HandRecord, OrNone
<1>2. /\ pol' \in [Policies -> PolicyRecord] /\ ~pol'[p].used
      /\ \A q \in Policies \ {p} : pol'[q] = pol[q]
  BY <1>1, FreedFacts
<1>3. \A c \in Cpus : data[c] # p
  BY <1>1 DEF NewInv, Making, Live
<1>4. /\ h'.new = NoOne /\ h'.old = h.old
      /\ h'.pc \notin Making \cup Unlinking \cup {"free", "removed"}
  BY AddedFacts DEF Making, Unlinking
<1>5. h.old # NoOne => h.old \in Policies \ {p}
  BY <1>1, DevicesAssumption DEF HandsInv, Types, HandRecord, OrNone
<1>6. Types'
  BY <1>2, AddedFacts DEF Types
<1>7. HandsInv'
  BY <1>2, <1>4, <1>5, AddedHands DEF HandsInv, Adding
<1>8. OwnersInv'
  <2>1. \A c \in Cpus : data[c] # NoOne => data[c] \in Policies \ {p}
    BY <1>3 DEF Types, OrNone
  <2>. QED
    BY <1>1, <1>2, <1>4, <2>1 DEF OwnersInv, Live
<1>9. NewInv' /\ GoneInv'
  BY <1>4 DEF NewInv, GoneInv
<1>. QED
  BY <1>6, <1>7, <1>8, <1>9

LEMMA AddIsOnline ==
  ASSUME SharedInv, h.pc \in Making
  PROVE  /\ h.new \in Policies /\ h.add \in online /\ h.add \in Cpus
         /\ AllCpus \in SUBSET Cpus /\ h.add \in AllCpus /\ online \subseteq AllCpus
BY DEF SharedInv, HandsInv, NewInv, Making, Types, HandRecord, OrNone, AllCpus

LEMMA DriverInitShared ==
  ASSUME SharedInv, DriverInit
  PROVE  SharedInv'
<1>. USE DEF SharedInv
<1>1. h.pc = "init" /\ UNCHANGED <<online, data, policy_cpu, user>>
  BY DEF DriverInit, At
<1>2. CASE pol' = Freed(h.new) /\ Added
  BY <1>1, <1>2, GivenUp
<1>3. CASE pol' = [pol EXCEPT ![h.new].cpus = AllCpus] /\ Goto("policy")
  <2>1. PICK p \in Policies : p = h.new
    BY <1>1, AddIsOnline DEF Making
  <2>2. /\ h.add \in online /\ h.add \in Cpus
        /\ AllCpus \in SUBSET Cpus /\ h.add \in AllCpus
    BY <1>1, AddIsOnline DEF Making
  <2>3. /\ h' \in HandRecord /\ h'.pc = "policy" /\ h'.new = p /\ h'.join = h.join
        /\ h'.old = h.old /\ h'.add = h.add /\ h'.then = h.then /\ h'.cpu = h.cpu
    BY <1>3, <2>1 DEF Goto, Types, HandRecord, Pcs, Adding
  <2>4. /\ pol' \in [Policies -> PolicyRecord]
        /\ pol'[p].used = pol[p].used /\ pol'[p].cpu = pol[p].cpu
        /\ pol'[p].cpus = AllCpus /\ \A q \in Policies \ {p} : pol'[q] = pol[q]
    BY <1>3, <2>1, <2>2 DEF Types, PolicyRecord
  <2>5. /\ \A c \in Cpus : data[c] # NoOne => data[c] \in Policies \ {p}
        /\ ~Live(p)
    BY <1>1, <2>1 DEF NewInv, Making, Live, Types, OrNone
  <2>6. h.old # NoOne => h.old \in Policies \ {p}
    BY <2>1, DevicesAssumption DEF HandsInv, Types, HandRecord, OrNone
  <2>7. Types'
    BY <1>1, <2>3, <2>4 DEF Types
  <2>8. HandsInv'
    BY <1>1, <2>1, <2>3, <2>4, <2>6 DEF HandsInv, Removing, At, Making, Adding, Unlinking
  <2>9. OwnersInv'
    BY <1>1, <2>1, <2>3, <2>4, <2>5 DEF OwnersInv, Live
  <2>10. NewInv'
    <3>1. pol[p].cpu = h.add /\ data[h.add] = NoOne
      BY <1>1, <2>1 DEF NewInv, Making
    <3>. QED
      BY <1>1, <2>2, <2>3, <2>4, <2>5, <3>1 DEF NewInv, Live, At, AllCpus
  <2>11. GoneInv'
    BY <2>3 DEF GoneInv, Unlinking
  <2>. QED
    BY <2>7, <2>8, <2>9, <2>10, <2>11
<1>. QED
  BY <1>2, <1>3 DEF DriverInit

(* The CPUs that manage a policy of the driver's CPUs all have the same     *)
LEMMA ManagedFacts ==
  ASSUME SharedInv, At("policy"), Managed # {}
  PROVE  /\ Min(Managed) \in Cpus /\ data[Min(Managed)] \in Policies
         /\ Live(data[Min(Managed)]) /\ data[Min(Managed)] # h.new
<1>. USE DEF SharedInv
<1>1. Managed \in SUBSET Cpus
  <2>1. h.new \in Policies
    BY AddIsOnline DEF At, Making
  <2>. QED
    BY <2>1 DEF Managed, Types, PolicyRecord
<1>2. Min(Managed) \in Managed
  BY <1>1, LeastCpu
<1>3. data[Min(Managed)] # NoOne
  BY <1>2 DEF Managed
<1>. QED
  BY <1>1, <1>2, <1>3 DEF Types, OrNone, Live, NewInv, At, Making

LEMMA FindManagedShared ==
  ASSUME SharedInv, FindManaged
  PROVE  SharedInv'
<1>. USE DEF SharedInv
<1>0. At("policy") /\ h.pc = "policy" /\ Managed # {} /\ UNCHANGED <<online, data, user>>
  BY DEF FindManaged, At
<1>1. PICK m \in Policies : m = data[Min(Managed)]
  BY <1>0, ManagedFacts
<1>2. Live(m) /\ m # h.new /\ m # NoOne
  BY <1>0, <1>1, ManagedFacts, DevicesAssumption
<1>3. /\ pol' = Get(m) /\ policy_cpu' = [policy_cpu EXCEPT ![h.add] = pol[m].cpu]
      /\ h' = [h EXCEPT !.pc = "join", !.join = m]
  BY <1>1 DEF FindManaged
<1>4. OnlyRefs
  BY <1>3, GetFacts
<1>5. PICK p \in Policies : p = h.new
  BY <1>0, AddIsOnline DEF Making
<1>6. /\ h.add \in online /\ h.add \in Cpus
      /\ AllCpus \in SUBSET Cpus /\ h.add \in AllCpus
  BY <1>0, AddIsOnline DEF Making
<1>7. /\ h' \in HandRecord /\ h'.pc = "join" /\ h'.new = p /\ h'.join = m
      /\ h'.old = h.old /\ h'.add = h.add /\ h'.then = h.then /\ h'.cpu = h.cpu
  BY <1>3, <1>5 DEF Types, HandRecord, Pcs, Adding, OrNone
<1>8. pol[m].cpu \in Cpus /\ data[h.add] = NoOne /\ ~Live(p)
      /\ pol[p].cpu = h.add /\ pol[p].cpus = AllCpus
  BY <1>0, <1>5 DEF Types, PolicyRecord, NewInv, Making
<1>9. /\ policy_cpu' \in [Cpus -> Cpus \cup {NoOne}] /\ policy_cpu'[h.add] = pol[m].cpu
      /\ \A c \in Cpus \ {h.add} : policy_cpu'[c] = policy_cpu[c]
  BY <1>3, <1>6, <1>8 DEF Types
<1>10. Types'
  BY <1>0, <1>4, <1>7, <1>9 DEF Types, OnlyRefs
<1>11. h.old # NoOne => h.old \in Policies
  BY DEF Types, HandRecord, OrNone
<1>12. HandsInv'
  BY <1>0, <1>2, <1>4, <1>5, <1>7, <1>11 DEF HandsInv, Removing, At, Making, Adding,
     Unlinking, OnlyRefs
<1>13. OwnersInv'
  <2>1. \A c \in Cpus : data[c] # NoOne => data[c] \in Policies /\ c # h.add
    BY <1>8 DEF Types, OrNone
  <2>. QED
    BY <1>0, <1>4, <1>5, <1>7, <1>9, <2>1 DEF OwnersInv, Live, OnlyRefs
<1>14. NewInv'
  BY <1>0, <1>2, <1>4, <1>5, <1>6, <1>7, <1>8, <1>9 DEF NewInv, Live, At, AllCpus,
     OnlyRefs
<1>15. GoneInv'
  BY <1>7 DEF GoneInv, Unlinking
<1>. QED
  BY <1>10, <1>12, <1>13, <1>14, <1>15

LEMMA JoinManagedShared ==
  ASSUME SharedInv, JoinManaged
  PROVE  SharedInv'
<1>. USE DEF SharedInv
<1>0. /\ h.pc = "join" /\ UNCHANGED <<online, policy_cpu, user>> /\ Added
      /\ data' = [data EXCEPT ![h.add] = h.join]
  BY DEF JoinManaged, At
<1>1. PICK p \in Policies, m \in Policies : p = h.new /\ m = h.join
  BY <1>0, AddIsOnline DEF HandsInv, Making, At, Types, HandRecord, OrNone
<1>2. /\ h.add \in online /\ h.add \in Cpus /\ AllCpus \in SUBSET Cpus
      /\ online \subseteq AllCpus
  BY <1>0, AddIsOnline DEF Making
<1>3. /\ Live(m) /\ ~Live(p) /\ data[h.add] = NoOne /\ pol[p].cpus = AllCpus
      /\ policy_cpu[h.add] = pol[m].cpu
  BY <1>0, <1>1 DEF NewInv, Making, At
<1>4. m # p /\ m # NoOne
  BY <1>3, DevicesAssumption
<1>5. /\ pol' \in [Policies -> PolicyRecord] /\ ~pol'[p].used
      /\ \A q \in Policies \ {p, m} : pol'[q] = pol[q]
      /\ pol'[m].used = pol[m].used /\ pol'[m].started = pol[m].started
      /\ pol'[m].cpu = pol[m].cpu /\ pol'[m].cpus = AllCpus
  <2>1. PICK n \in PolicyRecord : n = NoPolicy /\ ~n.used
    BY NoPolicyType DEF NoPolicy
  <2>2. pol' = [[pol EXCEPT ![p] = n] EXCEPT ![m].cpus = AllCpus]
    BY <1>1, <1>3, <2>1 DEF JoinManaged, Freed, Joined
  <2>. QED
    BY <1>2, <1>4, <2>1, <2>2 DEF Types, PolicyRecord
<1>6. /\ h'.new = NoOne /\ h'.old = h.old /\ h' \in HandRecord
      /\ h'.pc \notin Making \cup Unlinking \cup {"free", "removed"}
  BY <1>0, AddedFacts DEF Making, Unlinking
<1>7. h.old # NoOne => h.old \in Policies \ {p, m}
  BY <1>1, <1>3, <1>4 DEF HandsInv, OwnersInv, Live, Types, HandRecord, OrNone
<1>8. data' \in [Cpus -> OrNone] /\ data'[h.add] = m
      /\ \A c \in Cpus \ {h.add} : data'[c] = data[c]
  BY <1>0, <1>1, <1>2 DEF Types, OrNone
<1>9. \A c \in Cpus : data[c] # NoOne => data[c] = m
  BY <1>3, <1>4 DEF OwnersInv, Live
<1>10. /\ pol[m].used /\ pol[m].started /\ data[pol[m].cpu] = m /\ m # h.old
       /\ pol[m].cpu \in Cpus
  BY <1>1, <1>3, <1>4 DEF OwnersInv, Live, Types, PolicyRecord
<1>11. Types'
  BY <1>0, <1>5, <1>6, <1>8 DEF Types
<1>12. HandsInv'
  BY <1>0, <1>5, <1>6, <1>7, AddedHands DEF HandsInv, Adding
<1>13. OwnersInv'
  <2>1. \A c \in Cpus : data'[c] # NoOne => c \in online /\ data'[c] = m
    BY <1>2, <1>8, <1>9 DEF OwnersInv
  <2>2. \A c \in Cpus : data'[c] # NoOne => policy_cpu[c] = pol[m].cpu
    BY <1>3, <1>8, <1>9 DEF OwnersInv
  <2>3. data'[pol[m].cpu] = m
    BY <1>8, <1>10
  <2>4. \A q \in Policies : pol'[q].used => Live(q)' \/ q = h.old
    <3>1. SUFFICES ASSUME NEW q \in Policies, pol'[q].used, q # m
                   PROVE  q = h.old
      BY <1>10, <2>3 DEF Live
    <3>2. q # p /\ pol[q].used /\ q # NoOne
      BY <1>5, <3>1, DevicesAssumption
    <3>3. ~Live(q)
      BY <1>9, <3>1, <3>2 DEF Live
    <3>. QED
      BY <1>1, <3>2, <3>3 DEF OwnersInv
  <2>5. \A c \in Cpus : data'[c] # NoOne =>
          /\ c \in online' /\ c \in pol'[data'[c]].cpus /\ data'[c] # h'.old
          /\ pol'[data'[c]].used /\ pol'[data'[c]].started
          /\ policy_cpu'[c] = pol'[data'[c]].cpu
          /\ data'[pol'[data'[c]].cpu] = data'[c]
    BY <1>0, <1>2, <1>5, <1>6, <1>10, <2>1, <2>2, <2>3
  <2>6. \A c, d \in Cpus : data'[c] # NoOne /\ data'[d] # NoOne => data'[c] = data'[d]
    BY <2>1
  <2>7. \A q \in Policies : pol'[q].used => Live(q)' \/ q = h'.new \/ q = h'.old
    BY <1>6, <2>4
  <2>. QED
    BY <2>5, <2>6, <2>7 DEF OwnersInv
<1>14. NewInv' /\ GoneInv'
  BY <1>6 DEF NewInv, GoneInv
<1>. QED
  BY <1>11, <1>12, <1>13, <1>14

LEMMA NobodyManages ==
  ASSUME SharedInv, At("policy"), Managed = {}
  PROVE  \A c \in Cpus : data[c] = NoOne
<1>1. online \subseteq AllCpus /\ pol[h.new].cpus = AllCpus /\ data[h.add] = NoOne
  BY AddIsOnline DEF SharedInv, NewInv, At, Making
<1>. QED
  BY <1>1 DEF SharedInv, OwnersInv, Managed

LEMMA AddKobjectShared ==
  ASSUME SharedInv, AddKobject
  PROVE  SharedInv'
<1>. USE DEF SharedInv
<1>1. At("policy") /\ h.pc = "policy" /\ Managed = {} /\ UNCHANGED <<online, user>>
  BY DEF AddKobject, At
<1>2. CASE pol' = Freed(h.new) /\ Added /\ UNCHANGED <<data, policy_cpu>>
  BY <1>1, <1>2, GivenUp
<1>3. CASE /\ pol' = [pol EXCEPT ![h.new].refs = 1]
           /\ data' = [c \in Cpus |-> IF c \in Shared THEN h.new ELSE data[c]]
           /\ policy_cpu' = [c \in Cpus |-> IF c \in Shared THEN h.add
                                            ELSE policy_cpu[c]]
           /\ Goto("links")
  <2>1. PICK p \in Policies : p = h.new
    BY <1>1, AddIsOnline DEF Making
  <2>2. /\ h.add \in online /\ h.add \in Cpus /\ h.add \in AllCpus
        /\ pol[p].cpus = AllCpus /\ pol[p].cpu = h.add /\ p # NoOne
    BY <1>1, <2>1, AddIsOnline, DevicesAssumption DEF Making, NewInv
  <2>3. /\ h' \in HandRecord /\ h'.pc = "links" /\ h'.new = p /\ h'.join = h.join
        /\ h'.old = h.old /\ h'.add = h.add /\ h'.then = h.then /\ h'.cpu = h.cpu
    BY <1>3, <2>1 DEF Goto, Types, HandRecord, Pcs, Adding
  <2>4. OnlyRefs
    BY <1>3, <2>1 DEF OnlyRefs, Types, PolicyRecord
  <2>5. h.add \in Shared /\ Shared \subseteq Cpus /\ Shared \subseteq online
        /\ Shared \subseteq pol[p].cpus
    BY <2>1, <2>2 DEF Shared, Types
  <2>6. /\ data' \in [Cpus -> OrNone] /\ policy_cpu' \in [Cpus -> Cpus \cup {NoOne}]
        /\ \A c \in Cpus : data'[c] = IF c \in Shared THEN p ELSE NoOne
        /\ \A c \in Shared : policy_cpu'[c] = h.add
    BY <1>1, <1>3, <2>1, <2>2, <2>5, NobodyManages DEF Types, OrNone
  <2>7. h.old # NoOne => h.old \in Policies \ {p}
    BY <2>1, <2>2 DEF HandsInv, Types, HandRecord, OrNone
  <2>8. Types'
    BY <1>1, <2>3, <2>4, <2>6 DEF Types, OnlyRefs
  <2>9. HandsInv'
    BY <1>1, <2>1, <2>3, <2>4, <2>7 DEF HandsInv, Removing, At, Making, Adding, Unlinking,
       OnlyRefs
  <2>10. OwnersInv'
    <3>1. pol[p].used /\ p # h.old
      BY <1>1, <2>1, <2>2 DEF HandsInv, Making
    <3>2. \A q \in Policies : pol[q].used => q = p \/ q = h.old
      <4>1. \A c \in Cpus : data[c] = NoOne
        BY <1>1, NobodyManages
      <4>2. \A q \in Policies : q # NoOne
        BY DevicesAssumption
      <4>. QED
        BY <2>1, <4>1, <4>2 DEF OwnersInv, Live
    <3>. QED
      BY <1>1, <2>2, <2>3, <2>4, <2>5, <2>6, <3>1, <3>2 DEF OwnersInv, OnlyRefs
  <2>11. NewInv'
    <3>1. Shared' = Shared
      BY <1>1, <2>1, <2>3, <2>4 DEF Shared, OnlyRefs
    <3>. QED
      BY <1>1, <2>2, <2>3, <2>4, <2>6, <3>1 DEF NewInv, At, OnlyRefs
  <2>12. GoneInv'
    BY <2>3 DEF GoneInv, Unlinking
  <2>. QED
    BY <2>8, <2>9, <2>10, <2>11, <2>12
<1>. QED
  BY <1>1, <1>2, <1>3 DEF AddKobject

(* The CPUs have the new policy, which is completed                         *)
LEMMA AddSymlinksShared ==
  ASSUME SharedInv, AddSymlinks
  PROVE  SharedInv'
<1>. USE DEF SharedInv
<1>1. /\ h.pc = "links" /\ Goto("start") /\ UNCHANGED <<online, data, policy_cpu, user>>
      /\ pol' = [pol EXCEPT ![h.new].refs = @ + Cardinality(Shared \ {h.add})]
  BY DEF AddSymlinks, At
<1>2. PICK p \in Policies : p = h.new
  BY <1>1, AddIsOnline DEF Making
<1>3. /\ h' \in HandRecord /\ h'.pc = "start" /\ h'.new = p /\ h'.join = h.join
      /\ h'.old = h.old /\ h'.add = h.add /\ h'.then = h.then /\ h'.cpu = h.cpu
  BY <1>1, <1>2 DEF Goto, Types, HandRecord, Pcs, Adding
<1>4. Shared \ {h.add} \in SUBSET Cpus /\ IsFiniteSet(Shared \ {h.add})
  BY <1>2, DevicesAssumption, FS_Subset DEF Shared, Types
<1>5. PICK n \in Nat : n = Cardinality(Shared \ {h.add})
  BY <1>4, FS_CardinalityType
<1>6. OnlyRefs
  <2>1. pol' = [pol EXCEPT ![p].refs = @ + n]
    BY <1>1, <1>2, <1>5
  <2>. QED
    BY <2>1 DEF OnlyRefs, Types, PolicyRecord
<1>7. h.old # NoOne => h.old \in Policies
  BY DEF Types, HandRecord, OrNone
<1>8. Types'
  BY <1>1, <1>3, <1>6 DEF Types, OnlyRefs
<1>9. HandsInv'
  BY <1>1, <1>2, <1>3, <1>6, <1>7 DEF HandsInv, Removing, At, Making, Adding, Unlinking,
     OnlyRefs
<1>10. OwnersInv'
  <2>1. \A c \in Cpus : data[c] # NoOne => data[c] \in Policies
    BY DEF Types, OrNone
  <2>. QED
    BY <1>1, <1>2, <1>3, <1>6, <2>1 DEF OwnersInv, Live, OnlyRefs
<1>11. NewInv'
  <2>1. Shared' = Shared
    BY <1>1, <1>2, <1>3, <1>6 DEF Shared, OnlyRefs
  <2>. QED
    BY <1>1, <1>2, <1>3, <1>6, <2>1 DEF NewInv, At, Making, OnlyRefs
<1>12. GoneInv'
  BY <1>3 DEF GoneInv, Unlinking
<1>. QED
  BY <1>8, <1>9, <1>10, <1>11, <1>12

LEMMA SetPolicyShared ==
  ASSUME SharedInv, SetPolicy
  PROVE  SharedInv'
<1>. USE DEF SharedInv
<1>1. /\ h.pc = "start" /\ Added /\ UNCHANGED <<online, data, policy_cpu, user>>
      /\ pol' = [pol EXCEPT ![h.new].started = TRUE]
  BY DEF SetPolicy, At
<1>2. PICK p \in Policies : p = h.new
  BY <1>1, AddIsOnline DEF Making
<1>3. /\ pol' \in [Policies -> PolicyRecord] /\ pol'[p].started
      /\ pol'[p].used = pol[p].used /\ pol'[p].cpu = pol[p].cpu
      /\ pol'[p].cpus = pol[p].cpus /\ \A q \in Policies \ {p} : pol'[q] = pol[q]
  BY <1>1, <1>2 DEF Types, PolicyRecord
<1>4. /\ h'.new = NoOne /\ h'.old = h.old /\ h' \in HandRecord
      /\ h'.pc \notin Making \cup Unlinking \cup {"free", "removed"}
  BY <1>1, AddedFacts DEF Making, Unlinking
<1>5. h.old # NoOne => h.old \in Policies \ {p}
  BY <1>2, DevicesAssumption DEF HandsInv, Types, HandRecord, OrNone
<1>6. Live(p)
  <2>1. h.add \in Shared /\ h.add \in Cpus
    BY <1>1, AddIsOnline DEF Making, NewInv, Shared
  <2>. QED
    BY <1>1, <1>2, <2>1 DEF NewInv, Making, Live
<1>7. Types'
  BY <1>1, <1>3, <1>4 DEF Types
<1>8. HandsInv'
  BY <1>1, <1>3, <1>4, <1>5, AddedHands DEF HandsInv, Adding
<1>9. OwnersInv'
  <2>1. \A c \in Cpus : data[c] # NoOne => data[c] \in Policies
    BY DEF Types, OrNone
  <2>. QED
    BY <1>1, <1>2, <1>3, <1>4, <1>6, <2>1 DEF OwnersInv, Live
<1>10. NewInv' /\ GoneInv'
  BY <1>4 DEF NewInv, GoneInv
<1>. QED
  BY <1>7, <1>8, <1>9, <1>10

-----------------------------------------------------------------------------
(* The hotplug thread, where it takes a policy away                         *)

(* A CPU leaves the policy that another one is the first of                 *)
LEMMA LeaveKeeps ==
  ASSUME SharedInv, NEW c \in Cpus, LeavePolicy(c), h.pc \notin Making,
         UNCHANGED <<online, policy_cpu, user>>,
         h' \in HandRecord, h'.new = h.new, h'.join = h.join, h'.old = h.old,
         h'.cpu = h.cpu, h'.pc \notin Making \cup {"join"} \cup Unlinking,
         Removing' <=> Removing, h'.pc \in {"free", "removed"} => c = h.cpu
  PROVE  SharedInv' /\ data'[c] = NoOne
<1>. USE DEF SharedInv
<1>0. h.new = NoOne /\ h.join = NoOne
  BY DEF HandsInv, Making, At
<1>1. CASE data[c] = NoOne /\ UNCHANGED <<pol, data>>
  <2>1. GoneInv'
    BY <1>1 DEF GoneInv
  <2>. QED
    BY <1>0, <1>1, <2>1, GoesOn DEF Types
<1>2. CASE /\ data[c] # NoOne /\ pol[data[c]].cpu # c
           /\ data' = [data EXCEPT ![c] = NoOne]
           /\ pol' = [Put(data[c]) EXCEPT ![data[c]].cpus = @ \ {c}]
  <2>1. PICK p \in Policies : p = data[c]
    BY <1>2 DEF Types, OrNone
  <2>2. /\ pol' \in [Policies -> PolicyRecord]
        /\ pol'[p].used <=> pol[p].used
        /\ pol'[p].started <=> pol[p].started
        /\ pol'[p].cpu = pol[p].cpu /\ pol'[p].cpus = pol[p].cpus \ {c}
        /\ \A q \in Policies \ {p} : pol'[q] = pol[q]
    <3>1. PICK g : g = Put(p)
      OBVIOUS
    <3>2. /\ g \in [Policies -> PolicyRecord]
          /\ g[p].used <=> pol[p].used
          /\ g[p].started <=> pol[p].started
          /\ g[p].cpu = pol[p].cpu /\ g[p].cpus = pol[p].cpus
          /\ \A q \in Policies \ {p} : g[q] = pol[q]
      BY <3>1, PutValue
    <3>3. pol' = [g EXCEPT ![p].cpus = @ \ {c}]
      BY <1>2, <2>1, <3>1
    <3>. QED
      BY <3>2, <3>3 DEF PolicyRecord
  <2>3. data' \in [Cpus -> OrNone] /\ data'[c] = NoOne
        /\ \A d \in Cpus \ {c} : data'[d] = data[d]
    BY <1>2 DEF Types, OrNone
  <2>4. /\ pol[p].cpu \in Cpus \ {c} /\ data[pol[p].cpu] = p /\ p # NoOne
        /\ pol[p].used /\ pol[p].started /\ p # h.old
    BY <1>0, <1>2, <2>1, DevicesAssumption DEF OwnersInv, Types, PolicyRecord
  <2>5. Types'
    BY <2>2, <2>3 DEF Types
  <2>6. HandsInv'
    <3>1. h.old # NoOne => h.old \in Policies \ {p}
      BY <2>4 DEF Types, HandRecord, OrNone
    <3>. QED
      BY <1>0, <2>2, <3>1 DEF HandsInv, At, Making
  <2>7. OwnersInv'
    <3>1. \A d \in Cpus : data'[d] # NoOne => d # c /\ data[d] = p /\ data'[d] = p
      BY <2>1, <2>3, <2>4 DEF OwnersInv
    <3>2. \A d \in Cpus : data'[d] # NoOne =>
            /\ d \in online' /\ d \in pol'[data'[d]].cpus /\ data'[d] # h'.old
            /\ pol'[data'[d]].used /\ pol'[data'[d]].started
            /\ policy_cpu'[d] = pol'[data'[d]].cpu
            /\ data'[pol'[data'[d]].cpu] = data'[d]
      BY <2>2, <2>3, <2>4, <3>1 DEF OwnersInv
    <3>3. \A q \in Policies : pol'[q].used => Live(q)' \/ q = h'.new \/ q = h'.old
      <4>1. Live(p)'
        BY <2>3, <2>4 DEF Live
      <4>2. ASSUME NEW q \in Policies \ {p}, Live(q) PROVE Live(q)'
        BY <2>1, <2>3, <4>2 DEF Live
      <4>. QED
        BY <2>2, <4>1, <4>2 DEF OwnersInv
    <3>. QED
      BY <3>1, <3>2, <3>3 DEF OwnersInv
  <2>8. NewInv' /\ GoneInv'
    BY <2>3 DEF NewInv, GoneInv
  <2>. QED
    BY <2>3, <2>5, <2>6, <2>7, <2>8
<1>. QED
  BY <1>1, <1>2 DEF LeavePolicy

LEMMA LeavesShared ==
  ASSUME SharedInv, RemoveLink \/ RemoveOwnLink
  PROVE  SharedInv'
<1>1. PICK q \in {"removed", "free"}, r \in {"remove", "own"} :
        /\ h.pc = r /\ h' = [h EXCEPT !.pc = q] /\ (r = "own" <=> q = "free")
        /\ LeavePolicy(h.cpu) /\ UNCHANGED <<online, policy_cpu, user>>
  BY DEF RemoveLink, RemoveOwnLink, At, Goto
<1>2. h \in HandRecord /\ h.cpu \in Cpus
  BY DEF SharedInv, Types, HandRecord
<1>3. /\ h' \in HandRecord /\ h'.pc = q /\ h'.new = h.new /\ h'.join = h.join
      /\ h'.old = h.old /\ h'.cpu = h.cpu
  BY <1>1, <1>2 DEF HandRecord, Pcs
<1>4. /\ h.pc \notin Making /\ h'.pc \notin Making \cup {"join"} \cup Unlinking
      /\ Removing' <=> Removing
  BY <1>1, <1>3 DEF Removing, At, Making, Unlinking, Adding
<1>. QED
  BY <1>1, <1>2, <1>3, <1>4, LeaveKeeps

LEMMA RemoveOwnerShared ==
  ASSUME SharedInv, RemoveOwner
  PROVE  SharedInv'
<1>. USE DEF SharedInv
<1>0. h \in HandRecord /\ h.cpu \in Cpus
  BY DEF Types, HandRecord
<1>1. PICK p \in Policies : p = data[h.cpu]
  BY <1>0 DEF RemoveOwner, Types, OrNone
<1>2. /\ h.pc = "remove" /\ UNCHANGED <<online, policy_cpu, pol, user>>
      /\ data' = [c \in Cpus |-> IF c \in pol[p].cpus THEN NoOne ELSE data[c]]
      /\ h' = [h EXCEPT !.pc = "unlink", !.old = p, !.unlink = pol[p].cpus \ {h.cpu}]
  BY <1>1 DEF RemoveOwner, At
<1>3. /\ h' \in HandRecord /\ h'.pc = "unlink" /\ h'.new = h.new /\ h'.join = h.join
      /\ h'.old = p
  BY <1>0, <1>2 DEF Types, PolicyRecord, HandRecord, Pcs, Unlinking, OrNone
<1>4. p # NoOne /\ pol[p].used
  BY <1>0, <1>1, DevicesAssumption DEF OwnersInv
<1>5. \A c \in Cpus : data[c] # NoOne => data[c] = p /\ c \in pol[p].cpus
  BY <1>0, <1>1, <1>4 DEF OwnersInv
<1>6. data' \in [Cpus -> OrNone] /\ \A c \in Cpus : data'[c] = NoOne
  BY <1>2, <1>5 DEF Types, OrNone
<1>7. h.new = NoOne /\ h.join = NoOne /\ h.old = NoOne
  BY <1>2 DEF HandsInv, Making, At, Removing, Unlinking, Adding
<1>8. Types'
  BY <1>2, <1>3, <1>6 DEF Types
<1>9. HandsInv'
  BY <1>2, <1>3, <1>4, <1>7 DEF HandsInv, Removing, At, Making, Unlinking
<1>10. OwnersInv'
  <2>1. \A q \in Policies : pol[q].used => q = p
    <3>1. SUFFICES ASSUME NEW q \in Policies, pol[q].used PROVE q = p
      OBVIOUS
    <3>2. q # NoOne
      BY DevicesAssumption
    <3>3. PICK c \in Cpus : data[c] = q
      BY <1>7, <3>1, <3>2 DEF OwnersInv, Live
    <3>. QED
      BY <1>5, <3>2, <3>3
  <2>. QED
    BY <1>2, <1>3, <1>6, <2>1 DEF OwnersInv
<1>11. NewInv' /\ GoneInv'
  BY <1>3, <1>6 DEF NewInv, GoneInv, Making, Unlinking
<1>. QED
  BY <1>8, <1>9, <1>10, <1>11

(* While nobody has it a policy loses its references and stops              *)
LEMMA OldChanges ==
  ASSUME SharedInv, h.pc \in Unlinking, UNCHANGED <<online, data, policy_cpu, user>>,
         pol' \in [Policies -> PolicyRecord], pol'[h.old].used,
         \A q \in Policies \ {h.old} : pol'[q] = pol[q],
         h' \in HandRecord, h'.pc \in Unlinking, h'.new = h.new, h'.join = h.join,
         h'.old = h.old
  PROVE  SharedInv'
<1>. USE DEF SharedInv
<1>1. PICK p \in Policies : p = h.old
  BY DEF HandsInv, Removing, Types, HandRecord, OrNone
<1>2. \A c \in Cpus : data[c] = NoOne
  BY DEF GoneInv
<1>3. h.new = NoOne /\ h.join = NoOne
  BY DEF HandsInv, Making, Unlinking, At
<1>4. Types'
  BY DEF Types
<1>5. HandsInv'
  BY <1>1, <1>3 DEF HandsInv, Making, Unlinking, Removing, At
<1>6. OwnersInv'
  BY <1>1, <1>2 DEF OwnersInv, Live
<1>7. NewInv' /\ GoneInv'
  BY <1>2 DEF NewInv, GoneInv, Making, Unlinking
<1>. QED
  BY <1>4, <1>5, <1>6, <1>7

LEMMA OldShared ==
  ASSUME SharedInv, PutUnlinked \/ StopGovernor
  PROVE  SharedInv'
<1>. USE DEF SharedInv
<1>1. h.pc \in {"unlink", "unlinked"} /\ UNCHANGED <<online, data, policy_cpu, user>>
  BY DEF PutUnlinked, StopGovernor, At
<1>2. PICK p \in Policies : p = h.old
  BY <1>1 DEF HandsInv, Removing, Unlinking, Types, HandRecord, OrNone
<1>3. pol[p].used
  BY <1>2, DevicesAssumption DEF HandsInv
<1>4. PICK g : g = Put(p)
  OBVIOUS
<1>5. /\ g \in [Policies -> PolicyRecord] /\ g[p].used
      /\ \A q \in Policies \ {p} : g[q] = pol[q]
  BY <1>3, <1>4, PutValue
<1>6. /\ pol' \in [Policies -> PolicyRecord] /\ pol'[p].used
      /\ \A q \in Policies \ {p} : pol'[q] = pol[q]
  <2>1. pol' = g \/ pol' = [g EXCEPT ![p].started = FALSE]
    BY <1>2, <1>4 DEF PutUnlinked, StopGovernor
  <2>. QED
    BY <1>5, <2>1 DEF PolicyRecord
<1>7. /\ h' \in HandRecord /\ h'.pc \in {"unlink", "wait"} /\ h'.new = h.new
      /\ h'.join = h.join /\ h'.old = h.old
  <2>1. h \in HandRecord
    BY DEF Types
  <2>2. CASE PutUnlinked
    <3>1. PICK s \in SUBSET Cpus : h' = [h EXCEPT !.pc = "unlink", !.unlink = s]
      <4>1. h.unlink \ {Min(h.unlink)} \in SUBSET Cpus
        BY <2>1 DEF HandRecord
      <4>. QED
        BY <2>2, <4>1 DEF PutUnlinked
    <3>. QED
      BY <2>1, <3>1 DEF HandRecord, Pcs, Unlinking
  <2>3. CASE StopGovernor
    BY <2>1, <2>3 DEF StopGovernor, Goto, HandRecord, Pcs, Unlinking
  <2>. QED
    BY <2>2, <2>3
<1>. QED
  BY <1>1, <1>2, <1>6, <1>7, OldChanges DEF Unlinking

LEMMA FreePolicyShared ==
  ASSUME SharedInv, FreePolicy
  PROVE  SharedInv'
<1>. USE DEF SharedInv
<1>1. /\ h.pc = "free" /\ UNCHANGED <<online, data, policy_cpu, user>>
      /\ pol' = Freed(h.old) /\ h' = [h EXCEPT !.pc = "removed", !.old = NoOne]
  BY DEF FreePolicy, At
<1>2. PICK p \in Policies : p = h.old
  BY <1>1 DEF HandsInv, Removing, At, Types, HandRecord, OrNone
<1>3. /\ pol' \in [Policies -> PolicyRecord] /\ ~pol'[p].used
      /\ \A q \in Policies \ {p} : pol'[q] = pol[q]
  BY <1>1, <1>2, FreedFacts
<1>4. /\ h' \in HandRecord /\ h'.pc = "removed" /\ h'.new = h.new /\ h'.join = h.join
      /\ h'.old = NoOne /\ h'.cpu = h.cpu
  BY <1>1 DEF Types, HandRecord, Pcs, OrNone
<1>5. h.new = NoOne /\ h.join = NoOne
  BY <1>1 DEF HandsInv, Making, At
<1>6. Types'
  BY <1>1, <1>3, <1>4 DEF Types
<1>7. HandsInv'
  BY <1>4, <1>5 DEF HandsInv, Making, Removing, At, Unlinking, Adding
<1>8. OwnersInv'
  <2>1. \A c \in Cpus : data[c] # NoOne => data[c] \in Policies \ {p}
    BY <1>2 DEF OwnersInv, Types, OrNone
  <2>2. \A c \in Cpus : data[c] # NoOne =>
          /\ c \in online' /\ c \in pol'[data'[c]].cpus /\ data'[c] # h'.old
          /\ pol'[data'[c]].used /\ pol'[data'[c]].started
          /\ policy_cpu'[c] = pol'[data'[c]].cpu
          /\ data'[pol'[data'[c]].cpu] = data'[c]
    BY <1>1, <1>3, <1>4, <1>5, <2>1 DEF OwnersInv
  <2>3. \A q \in Policies : pol'[q].used => Live(q)' \/ q = h'.new \/ q = h'.old
    BY <1>1, <1>2, <1>3, <1>4 DEF OwnersInv, Live
  <2>. QED
    BY <1>1, <2>2, <2>3 DEF OwnersInv
<1>9. NewInv' /\ GoneInv'
  BY <1>1, <1>4 DEF NewInv, GoneInv, Making, Unlinking
<1>. QED
  BY <1>6, <1>7, <1>8, <1>9

-----------------------------------------------------------------------------
(* The CPUs share one policy                                                *)

LEMMA SharedStep ==
  ASSUME SharedInv, [Next]_vars
  PROVE  SharedInv'
<1>1. CASE UNCHANGED vars
  <2>1. OnlyRefs
    BY <1>1 DEF vars, OnlyRefs, SharedInv, Types
  <2>. QED
    BY <1>1, <2>1, RefsKeepShared DEF vars, SharedInv, Types
<1>2. CASE \E u \in Users : User(u) \/ \E c \in Cpus : CpuGet(u, c)
  <2>1. ASSUME NEW u \in Users, User(u) PROVE SharedInv'
    BY <2>1, UserShared, DevicesAssumption
  <2>. QED
    BY <1>2, <2>1, UserShared
<1>. QED
  BY <1>1, <1>2, AddNothingShared, HotplugSteps, AddDevShared, DriverInitShared,
     FindManagedShared, JoinManagedShared, AddKobjectShared, AddSymlinksShared,
     SetPolicyShared, LeavesShared, RemoveOwnerShared, OldShared, FreePolicyShared
     DEF Next, Hotplug

LEMMA InitShared == Init => SharedInv
<1>. SUFFICES ASSUME Init PROVE SharedInv
  OBVIOUS
<1>1. Min(Cpus) \in Cpus /\ BootCpu \in Cpus /\ NoOne \in OrNone
  BY LeastCpu, DevicesAssumption DEF OrNone
<1>2. h \in HandRecord /\ h.pc = "add" /\ h.new = NoOne /\ h.join = NoOne
      /\ h.old = NoOne /\ h.then = "next"
  BY <1>1 DEF Init, HandRecord, Pcs, Adding
<1>3. Types
  <2>1. NoUse \in UserRecord
    BY <1>1 DEF NoUse, UserRecord
  <2>. QED
    BY <1>1, <1>2, <2>1, NoPolicyType DEF Init, Types
<1>4. HandsInv
  BY <1>2 DEF HandsInv, Removing, At, Making, Unlinking, Adding
<1>5. OwnersInv
  BY DEF Init, OwnersInv, NoPolicy
<1>6. NewInv /\ GoneInv
  BY <1>2 DEF NewInv, GoneInv, Making, Unlinking
<1>. QED
  BY <1>3, <1>4, <1>5, <1>6 DEF SharedInv

LEMMA AlwaysShared == Spec => []SharedInv
BY InitShared, SharedStep, PTL DEF Spec

(* For any number of CPUs, between hotplug operations those that have a     *)
(* policy share it with its first CPU and use its semaphore, whichever      *)
(* CPUs went and came and whichever inits and additions failed              *)
THEOREM PolicyIsShared == Spec => []PolicyShared
<1>1. SharedInv => PolicyShared
  <2>. SUFFICES ASSUME SharedInv, h.pc = "idle" PROVE PolicyShared
    BY DEF PolicyShared, At
  <2>1. h.new = NoOne /\ h.old = NoOne
    BY DEF SharedInv, HandsInv, Removing, At, Making, Unlinking, Adding
  <2>2. \A p \in Policies : p # NoOne
    BY DevicesAssumption
  <2>3. \A p \in Policies : pol[p].used => \E c \in Cpus : data[c] = p
    BY <2>1, <2>2 DEF SharedInv, OwnersInv, Live
  <2>4. ASSUME NEW c \in Cpus, NEW d \in Cpus, data[c] # NoOne
        PROVE  /\ c \in online /\ c \in pol[data[c]].cpus
               /\ policy_cpu[c] = pol[data[c]].cpu
               /\ data[pol[data[c]].cpu] = data[c] /\ pol[data[c]].started
               /\ data[d] \in {data[c], NoOne}
    BY <2>1, <2>4 DEF SharedInv, OwnersInv
  <2>. QED
    BY <2>3, <2>4 DEF PolicyShared
<1>. QED
  BY <1>1, AlwaysShared, PTL

-----------------------------------------------------------------------------
(* The references, where there are two CPUs at most                         *)

TwoCpus == Cardinality(Cpus) <= 2

Good == SharedInv /\ RefsInv

One(b) == IF b THEN 1 ELSE 0
ToUnlink(p) == IF h.old = p /\ h.pc \in {"unlink", "unlinked"}
               THEN 1 + Cardinality(h.unlink) ELSE 0

LEMMA CoreParts ==
  ASSUME NEW p \in Policies
  PROVE  /\ InCore(p) = One(Live(p)) + One(h.join = p) + ToUnlink(p)
         /\ InCore(p)' = One(Live(p)') + One(h'.join = p) + ToUnlink(p)'
BY DEF InCore, Live, One, ToUnlink

LEMMA CountTypes ==
  ASSUME Good, NEW p \in Policies
  PROVE  /\ ToUnlink(p) \in Nat /\ Cardinality(Linked(p)) \in Nat /\ Links(p) \in Nat
         /\ Cardinality(Holders(p)) \in Nat /\ IsFiniteSet(Holders(p))
         /\ IsFiniteSet(Linked(p)) /\ IsFiniteSet(h.unlink)
         /\ Cardinality(h.unlink) \in Nat
<1>1. Linked(p) \in SUBSET Cpus /\ h.unlink \in SUBSET Cpus
  BY DEF Linked, Good, SharedInv, Types, HandRecord
<1>2. IsFiniteSet(Linked(p)) /\ IsFiniteSet(h.unlink) /\ IsFiniteSet(Holders(p))
  BY <1>1, DevicesAssumption, FS_Subset DEF Good, RefsInv, HoldersInv
<1>3. /\ Cardinality(Linked(p)) \in Nat /\ Cardinality(h.unlink) \in Nat
      /\ Cardinality(Holders(p)) \in Nat
  BY <1>2, FS_CardinalityType
<1>. QED
  BY <1>2, <1>3 DEF ToUnlink, Links

(* While a CPU has it, or a caller, a policy has a reference                *)
LEMMA RefsLeft ==
  ASSUME Good, NEW p \in Policies
  PROVE  /\ pol[p].refs = One(Live(p)) + One(h.join = p) + ToUnlink(p)
                            + Cardinality(Holders(p)) + Links(p)
         /\ pol[p].refs \in Nat
         /\ Live(p) => pol[p].refs >= 1 /\ ~pol[p].released
         /\ Holders(p) # {} => pol[p].refs >= 1 /\ ~pol[p].released
<1>1. pol[p].refs = One(Live(p)) + One(h.join = p) + ToUnlink(p)
                      + Cardinality(Holders(p)) + Links(p)
  <2>1. InCore(p) = One(Live(p)) + One(h.join = p) + ToUnlink(p)
    BY CoreParts
  <2>2. pol[p].refs = InCore(p) + Cardinality(Holders(p)) + Links(p)
    BY DEF Good, RefsInv, CountInv, Counted
  <2>. QED
    BY <2>1, <2>2
<1>2. /\ ToUnlink(p) \in Nat /\ Links(p) \in Nat /\ Cardinality(Holders(p)) \in Nat
      /\ One(Live(p)) \in Nat /\ One(h.join = p) \in Nat
  BY CountTypes DEF One
<1>3. Holders(p) # {} => Cardinality(Holders(p)) >= 1
  <2>1. Cardinality(Holders(p)) = 0 <=> Holders(p) = {}
    BY CountTypes, FS_EmptySet
  <2>. QED
    BY <1>2, <2>1
<1>4. Live(p) => One(Live(p)) = 1
  BY DEF One
<1>5. pol[p].released => pol[p].refs = 0
  BY DEF Good, RefsInv, DropInv
<1>. HIDE DEF One
<1>6. pol[p].refs \in Nat
  BY <1>1, <1>2
<1>7. Live(p) \/ Holders(p) # {} => pol[p].refs >= 1
  BY <1>1, <1>2, <1>3, <1>4
<1>. QED
  BY <1>1, <1>5, <1>6, <1>7

(* The count of a policy changes with its parts                             *)
LEMMA CountMoves ==
  ASSUME Good, NEW p \in Policies, NEW n \in Int,
         pol'[p].refs = pol[p].refs + n,
         One(Live(p)') + One(h'.join = p) + ToUnlink(p)'
             + Cardinality(Holders(p)') + Links(p)'
           = One(Live(p)) + One(h.join = p) + ToUnlink(p)
               + Cardinality(Holders(p)) + Links(p) + n
  PROVE  Counted(p)'
<1>1. InCore(p)' = One(Live(p)') + One(h'.join = p) + ToUnlink(p)'
  BY CoreParts
<1>2. pol[p].refs = One(Live(p)) + One(h.join = p) + ToUnlink(p)
                      + Cardinality(Holders(p)) + Links(p)
  BY RefsLeft
<1>3. pol'[p].refs = InCore(p)' + Cardinality(Holders(p)') + Links(p)'
  BY <1>1, <1>2
<1>. QED
  BY <1>3 DEF Counted

(* One that nobody has counts nothing                                       *)
LEMMA CountsNothing ==
  ASSUME NEW p \in Policies, pol'[p].refs = 0, ~(Live(p)'), h'.join # p,
         ToUnlink(p)' = 0, Holders(p)' = {}
  PROVE  Counted(p)'
<1>1. Linked(p)' = {}
  BY DEF Linked, Live
<1>2. Cardinality(Linked(p)') = 0 /\ Cardinality(Holders(p)') = 0
  BY <1>1, FS_EmptySet
<1>3. Links(p)' = 0
  BY <1>2 DEF Links
<1>4. InCore(p)' = 0
  BY CoreParts DEF One
<1>. QED
  BY <1>2, <1>3, <1>4 DEF Counted

(* Nothing that counts for a policy changes                                 *)
LEMMA CountKept ==
  ASSUME Good, NEW p \in Policies, pol'[p].refs = pol[p].refs,
         pol'[p].cpu = pol[p].cpu, Holders(p)' = Holders(p),
         \A c \in Cpus : data'[c] = p <=> data[c] = p,
         h'.join = p <=> h.join = p, ToUnlink(p)' = ToUnlink(p),
         At("links")' /\ h'.new = p <=> At("links") /\ h.new = p
  PROVE  Counted(p)'
<1>1. /\ Live(p)' <=> Live(p)
      /\ Linked(p)' = Linked(p)
  BY DEF Live, Linked
<1>2. Links(p)' = Links(p)
  BY <1>1 DEF Links
<1>3. One(Live(p)') = One(Live(p)) /\ One(h'.join = p) = One(h.join = p)
  BY <1>1 DEF One
<1>4. pol[p].refs + 0 = pol[p].refs
  BY RefsLeft
<1>5. One(Live(p)) \in Int /\ One(h.join = p) \in Int /\ ToUnlink(p) \in Int
      /\ Cardinality(Holders(p)) \in Int /\ Links(p) \in Int
  BY CountTypes DEF One
<1>6. One(Live(p)') + One(h'.join = p) + ToUnlink(p)' + Cardinality(Holders(p)')
          + Links(p)'
        = One(Live(p)) + One(h.join = p) + ToUnlink(p) + Cardinality(Holders(p))
            + Links(p) + 0
  BY <1>2, <1>3, <1>5
<1>. QED
  BY <1>4, <1>6, CountMoves

-----------------------------------------------------------------------------
(* The callers                                                              *)

(* What callers do leaves the thread and the CPUs' policies alone           *)
LEMMA CallersKeep ==
  ASSUME Good, OnlyRefs, UNCHANGED <<data, h>>,
         \A u \in Users : user'[u].p = NoOne <=> user'[u].pc = "idle",
         \A p \in Policies :
           /\ Counted(p)' /\ IsFiniteSet(Holders(p)')
           /\ Holders(p)' # {} => pol[p].used
           /\ (pol'[p].released => pol'[p].refs = 0)
           /\ (Holders(p) = {} /\ ~Live(p)
                 => Holders(p)' = {} /\ (pol'[p].released <=> pol[p].released)),
         h.old \in Policies /\ pol[h.old].released => pol'[h.old].released
  PROVE  RefsInv'
<1>. USE DEF Good, SharedInv
<1>1. HoldersInv'
  <2>1. At("unlinked")' => h'.unlink # {}
    BY DEF RefsInv, HoldersInv, At
  <2>2. h.pc \in {"init", "policy", "join"} =>
          /\ h.new \in Policies /\ ~Live(h.new)
          /\ Holders(h.new) = {} /\ ~pol[h.new].released
    BY AddIsOnline DEF Making, RefsInv, HoldersInv, NewInv
  <2>3. h'.pc \in {"init", "policy", "join"} =>
          (Holders(h.new) = {})' /\ ~pol'[h'.new].released
    <3>1. SUFFICES ASSUME h.pc \in {"init", "policy", "join"}
                   PROVE  (Holders(h.new) = {})' /\ ~pol'[h'.new].released
      OBVIOUS
    <3>2. PICK p \in Policies : p = h.new
      BY <2>2, <3>1
    <3>3. Holders(p)' = {} /\ ~pol'[p].released
      BY <2>2, <3>1, <3>2
    <3>. QED
      BY <3>2, <3>3 DEF Holders
  <2>4. \A p \in Policies : IsFiniteSet(Holders(p)') /\ (Holders(p)' # {} => pol'[p].used)
    BY DEF OnlyRefs
  <2>. QED
    BY <2>1, <2>3, <2>4 DEF HoldersInv
<1>2. CountInv'
  BY DEF CountInv
<1>3. DropInv'
  <2>1. Removing => h.old \in Policies
    BY DEF HandsInv, Types, HandRecord, OrNone
  <2>. QED
    BY <2>1 DEF DropInv, RefsInv, Removing, At
<1>4. ListInv'
  BY DEF ListInv, RefsInv, OnlyRefs, Live
<1>. QED
  BY <1>1, <1>2, <1>3, <1>4 DEF RefsInv

LEMMA CpuGetRefs ==
  ASSUME Good, NEW u \in Users, NEW c \in Cpus, CpuGet(u, c)
  PROVE  RefsInv'
<1>. USE DEF Good
<1>1. PICK p \in Policies : p = data[c]
  BY DEF CpuGet, SharedInv, Types, OrNone
<1>2. /\ user[u].pc = "idle" /\ pol' = Get(p) /\ UNCHANGED <<data, h>> /\ Live(p)
      /\ p # NoOne
  BY <1>1, DevicesAssumption DEF CpuGet, Live
<1>3. /\ OnlyRefs /\ pol'[p].refs = pol[p].refs + 1
      /\ pol'[p].released <=> pol[p].released
      /\ \A q \in Policies \ {p} : pol'[q] = pol[q]
  BY <1>2, GetFacts DEF SharedInv
<1>4. /\ user'[u].p = p /\ user'[u].pc \in {"put", "find"}
      /\ \A v \in Users \ {u} : user'[v] = user[v]
  <2>1. PICK r \in UserRecord : r = NoUse
    BY DevicesAssumption DEF NoUse, UserRecord, OrNone
  <2>2. \/ user' = [user EXCEPT ![u] = [r EXCEPT !.pc = "put", !.p = p]]
        \/ user' = [user EXCEPT ![u] = [r EXCEPT !.pc = "find", !.cpu = pol[p].cpu,
                                                 !.p = p]]
    BY <1>1, <2>1 DEF CpuGet
  <2>3. pol[p].cpu \in Cpus
    BY DEF SharedInv, Types, PolicyRecord
  <2>4. PICK x \in UserRecord :
          user' = [user EXCEPT ![u] = x] /\ x.p = p /\ x.pc \in {"put", "find"}
    <3>1. p \in OrNone
      BY DEF OrNone
    <3>2. CASE user' = [user EXCEPT ![u] = [r EXCEPT !.pc = "put", !.p = p]]
      <4>1. [r EXCEPT !.pc = "put", !.p = p] \in UserRecord
        BY <3>1 DEF UserRecord
      <4>2. /\ [r EXCEPT !.pc = "put", !.p = p].p = p
            /\ [r EXCEPT !.pc = "put", !.p = p].pc = "put"
        BY DEF UserRecord
      <4>. QED
        BY <3>2, <4>1, <4>2
    <3>3. CASE user' = [user EXCEPT ![u] = [r EXCEPT !.pc = "find", !.cpu = pol[p].cpu,
                                                     !.p = p]]
      <4>1. PICK x \in UserRecord :
              x = [r EXCEPT !.pc = "find", !.cpu = pol[p].cpu, !.p = p]
        BY <2>3, <3>1 DEF UserRecord
      <4>2. x.p = p /\ x.pc = "find"
        BY <4>1 DEF UserRecord
      <4>. QED
        BY <3>3, <4>1, <4>2
    <3>. QED
      BY <2>2, <3>2, <3>3
  <2>. QED
    BY <2>4 DEF SharedInv, Types
<1>5. user[u].p = NoOne
  BY <1>2 DEF RefsInv, HoldersInv
<1>6. /\ Holders(p)' = Holders(p) \cup {u} /\ u \notin Holders(p)
      /\ \A q \in Policies \ {p} : Holders(q)' = Holders(q)
  <2>1. \A q \in Policies : q # NoOne
    BY DevicesAssumption
  <2>. QED
    BY <1>2, <1>4, <1>5, <2>1 DEF Holders
<1>7. /\ IsFiniteSet(Holders(p)')
      /\ Cardinality(Holders(p)') = Cardinality(Holders(p)) + 1
  BY <1>6, CountTypes, FS_AddElement
<1>8. /\ pol[p].used /\ ~pol[p].released
  <2>1. pol[p].used
    BY <1>1, <1>2 DEF SharedInv, OwnersInv
  <2>. QED
    BY <1>2, <2>1, RefsLeft
<1>9. Counted(p)'
  <2>1. /\ Live(p)' <=> Live(p)
        /\ ToUnlink(p)' = ToUnlink(p) /\ Links(p)' = Links(p)
    BY <1>2, <1>3 DEF Live, ToUnlink, Links, Linked, At, OnlyRefs
  <2>2. /\ ToUnlink(p) \in Nat /\ Links(p) \in Nat /\ Cardinality(Holders(p)) \in Nat
        /\ One(Live(p)) \in Nat /\ One(h.join = p) \in Nat
        /\ One(Live(p)') = One(Live(p)) /\ h' = h
    BY <1>2, <2>1, CountTypes DEF One
  <2>. HIDE DEF Good
  <2>3. One(Live(p)') + One(h'.join = p) + ToUnlink(p)' + Cardinality(Holders(p)')
            + Links(p)'
          = One(Live(p)) + One(h.join = p) + ToUnlink(p) + Cardinality(Holders(p))
              + Links(p) + 1
    BY <1>7, <2>1, <2>2
  <2>. QED
    BY <1>3, <2>3, CountMoves DEF Good
<1>10. ASSUME NEW q \in Policies \ {p} PROVE Counted(q)'
  BY <1>2, <1>3, <1>6, CountKept DEF ToUnlink, At
<1>11. \A v \in Users : user'[v].p = NoOne <=> user'[v].pc = "idle"
  BY <1>2, <1>4 DEF RefsInv, HoldersInv
<1>12. \A q \in Policies :
           /\ Counted(q)' /\ IsFiniteSet(Holders(q)')
           /\ Holders(q)' # {} => pol[q].used
           /\ (pol'[q].released => pol'[q].refs = 0)
           /\ (Holders(q) = {} /\ ~Live(q)
                 => Holders(q)' = {} /\ (pol'[q].released <=> pol[q].released))
  BY <1>2, <1>3, <1>6, <1>7, <1>8, <1>9, <1>10 DEF RefsInv, HoldersInv, DropInv
<1>13. h.old \in Policies /\ pol[h.old].released => pol'[h.old].released
  BY <1>3
<1>. QED
  BY <1>2, <1>3, <1>11, <1>12, <1>13, CallersKeep

LEMMA CpuPutRefs ==
  ASSUME Good, NEW u \in Users, CpuPut(u)
  PROVE  RefsInv'
<1>. USE DEF Good
<1>1. PICK p \in Policies : p = user[u].p
  <2>1. user[u].p # NoOne
    BY DEF CpuPut, RefsInv, HoldersInv
  <2>. QED
    BY <2>1 DEF SharedInv, Types, UserRecord, OrNone
<1>2. pol' = Put(p) /\ UNCHANGED <<data, h>> /\ p # NoOne
  BY <1>1, DevicesAssumption DEF CpuPut
<1>3. /\ OnlyRefs /\ pol'[p].refs = pol[p].refs - 1
      /\ pol'[p].released <=> pol[p].released \/ pol[p].refs = 1
      /\ \A q \in Policies \ {p} : pol'[q] = pol[q]
  BY <1>2, PutFacts DEF SharedInv
<1>4. /\ user'[u].p = NoOne /\ user'[u].pc = "idle"
      /\ \A v \in Users \ {u} : user'[v] = user[v]
  BY DEF CpuPut, NoUse, SharedInv, Types
<1>5. /\ Holders(p)' = Holders(p) \ {u} /\ u \in Holders(p)
      /\ \A q \in Policies \ {p} : Holders(q)' = Holders(q)
  <2>1. \A q \in Policies : q # NoOne
    BY DevicesAssumption
  <2>. QED
    BY <1>1, <1>2, <1>4, <2>1 DEF Holders
<1>6. /\ IsFiniteSet(Holders(p)')
      /\ Cardinality(Holders(p)') = Cardinality(Holders(p)) - 1
  BY <1>5, CountTypes, FS_RemoveElement
<1>7. /\ pol[p].used /\ ~pol[p].released /\ pol[p].refs \in Nat
  <2>1. pol[p].used
    BY <1>5 DEF RefsInv, HoldersInv
  <2>. QED
    BY <1>5, <2>1, RefsLeft
<1>8. Counted(p)'
  <2>1. /\ Live(p)' <=> Live(p)
        /\ ToUnlink(p)' = ToUnlink(p) /\ Links(p)' = Links(p)
    BY <1>2, <1>3 DEF Live, ToUnlink, Links, Linked, At, OnlyRefs
  <2>2. /\ ToUnlink(p) \in Nat /\ Links(p) \in Nat /\ Cardinality(Holders(p)) \in Nat
        /\ One(Live(p)) \in Nat /\ One(h.join = p) \in Nat
        /\ One(Live(p)') = One(Live(p)) /\ h' = h
    BY <1>2, <2>1, CountTypes DEF One
  <2>. HIDE DEF Good
  <2>3. One(Live(p)') + One(h'.join = p) + ToUnlink(p)' + Cardinality(Holders(p)')
            + Links(p)'
          = One(Live(p)) + One(h.join = p) + ToUnlink(p) + Cardinality(Holders(p))
              + Links(p) + (-1)
    BY <1>6, <2>1, <2>2
  <2>4. pol'[p].refs = pol[p].refs + (-1)
    BY <1>3, <1>7
  <2>. QED
    BY <2>3, <2>4, CountMoves DEF Good
<1>9. ASSUME NEW q \in Policies \ {p} PROVE Counted(q)'
  BY <1>2, <1>3, <1>5, CountKept DEF ToUnlink, At
<1>10. \A v \in Users : user'[v].p = NoOne <=> user'[v].pc = "idle"
  BY <1>4 DEF RefsInv, HoldersInv
<1>11. \A q \in Policies :
           /\ Counted(q)' /\ IsFiniteSet(Holders(q)')
           /\ Holders(q)' # {} => pol[q].used
           /\ (pol'[q].released => pol'[q].refs = 0)
           /\ (Holders(q) = {} /\ ~Live(q)
                 => Holders(q)' = {} /\ (pol'[q].released <=> pol[q].released))
  <2>1. pol'[p].released => pol'[p].refs = 0
    BY <1>3, <1>7
  <2>2. Holders(p) # {}
    BY <1>5
  <2>3. \A q \in Policies \ {p} :
           /\ IsFiniteSet(Holders(q)') /\ (Holders(q)' # {} => pol[q].used)
           /\ pol'[q].released => pol'[q].refs = 0
    BY <1>3, <1>5 DEF RefsInv, HoldersInv, DropInv
  <2>. QED
    BY <1>3, <1>5, <1>6, <1>7, <1>8, <1>9, <2>1, <2>2, <2>3
<1>12. h.old \in Policies /\ pol[h.old].released => pol'[h.old].released
  BY <1>3
<1>. QED
  BY <1>2, <1>3, <1>10, <1>11, <1>12, CallersKeep

(* Where nobody takes or puts a policy                                      *)
LEMMA NobodyTakes ==
  ASSUME Good, UNCHANGED <<data, h, pol>>,
         \A v \in Users : /\ user'[v].p = user[v].p
                          /\ user'[v].pc = "idle" <=> user[v].pc = "idle"
  PROVE  RefsInv'
<1>. USE DEF Good
<1>1. OnlyRefs
  BY DEF SharedInv, Types, OnlyRefs
<1>2. \A p \in Policies : Holders(p)' = Holders(p)
  BY DEF Holders
<1>3. ASSUME NEW p \in Policies PROVE Counted(p)'
  BY <1>2, CountKept DEF ToUnlink, At
<1>4. \A v \in Users : user'[v].p = NoOne <=> user'[v].pc = "idle"
  BY DEF RefsInv, HoldersInv
<1>5. \A q \in Policies :
           /\ Counted(q)' /\ IsFiniteSet(Holders(q)')
           /\ Holders(q)' # {} => pol[q].used
           /\ (pol'[q].released => pol'[q].refs = 0)
           /\ (Holders(q) = {} /\ ~Live(q)
                 => Holders(q)' = {} /\ (pol'[q].released <=> pol[q].released))
  BY <1>2, <1>3 DEF RefsInv, HoldersInv, DropInv
<1>. QED
  BY <1>1, <1>4, <1>5, CallersKeep

LEMMA UserRefs ==
  ASSUME Good, NEW u \in Users, NEW c \in Cpus, User(u) \/ CpuGet(u, c)
  PROVE  RefsInv'
<1>1. CASE FindSem(u) \/ Down(u) \/ UserUnlock(u)
  <2>1. UNCHANGED <<data, h, pol>> /\ user[u].pc \in {"find", "lock", "use"}
    BY <1>1 DEF FindSem, Down, UserUnlock
  <2>2. PICK q \in {"lock", "use", "put"} :
          \/ user' = [user EXCEPT ![u].pc = q]
          \/ \E s : user' = [user EXCEPT ![u].pc = q, ![u].sem = s]
    BY <1>1 DEF FindSem, Down, UserUnlock, Step
  <2>3. user \in [Users -> UserRecord]
    BY DEF Good, SharedInv, Types
  <2>4. \A v \in Users : /\ user'[v].p = user[v].p
                         /\ user'[v].pc = "idle" <=> user[v].pc = "idle"
    BY <2>1, <2>2, <2>3 DEF UserRecord
  <2>. QED
    BY <2>1, <2>4, NobodyTakes
<1>. QED
  BY <1>1, CpuGetRefs, CpuPutRefs DEF User

-----------------------------------------------------------------------------
(* The hotplug thread, where no reference is taken or put                   *)

LEMMA ThreadKeeps ==
  ASSUME Good, UNCHANGED user, ListInv',
         \A p \in Policies :
           /\ Counted(p)'
           /\ pol'[p].released => pol'[p].refs = 0
           /\ pol[p].used => pol'[p].used \/ Holders(p) = {},
         h'.pc \in {"init", "policy", "join"}
           => Holders(h'.new) = {} /\ ~pol'[h'.new].released,
         h'.pc = "unlinked" => h'.unlink # {},
         Removing' /\ h'.pc \notin Unlinking => pol'[h'.old].released
  PROVE  RefsInv'
<1>1. HoldersInv'
  <2>1. (Holders(h.new) = {})' <=> Holders(h'.new) = {}
    BY DEF Holders
  <2>2. \A p \in Policies : Holders(p)' = Holders(p)
    BY DEF Holders
  <2>3. \A p \in Policies : IsFiniteSet(Holders(p)') /\ (Holders(p)' # {} => pol'[p].used)
    BY <2>2 DEF Good, RefsInv, HoldersInv
  <2>4. \A u \in Users : user'[u].p = NoOne <=> user'[u].pc = "idle"
    BY DEF Good, RefsInv, HoldersInv
  <2>. QED
    BY <2>1, <2>3, <2>4 DEF HoldersInv, At
<1>2. CountInv'
  BY DEF CountInv
<1>3. DropInv'
  BY DEF DropInv
<1>. QED
  BY <1>1, <1>2, <1>3 DEF RefsInv

(* After the adding of a CPU the thread removes what it was removing        *)
LEMMA AddedRefs ==
  ASSUME Good, h.pc \in Adding, Added
  PROVE  /\ h'.pc \in {"add", "idle", "own"} /\ h'.join = NoOne /\ h'.old = h.old
         /\ \A p \in Policies : ToUnlink(p)' = 0 /\ ToUnlink(p) = 0
         /\ Removing' => Removing /\ h.pc \notin Unlinking /\ h.old \in Policies
                           /\ pol[h.old].released
<1>. USE DEF Good
<1>1. /\ h'.pc \in {"add", "idle", "own"} /\ h'.join = NoOne /\ h'.old = h.old
      /\ h'.then = h.then /\ h \in HandRecord
      /\ h'.pc = "own" <=> h.then = "own"
      /\ h'.pc = "add" => h.then = "next"
  BY AddedFacts DEF SharedInv, Types
<1>2. \A p \in Policies : ToUnlink(p)' = 0 /\ ToUnlink(p) = 0
  BY <1>1 DEF ToUnlink, Adding
<1>3. Removing' => Removing /\ h.pc \notin Unlinking
  BY <1>1 DEF Removing, At, Adding, Unlinking
<1>4. Removing /\ h.pc \notin Unlinking => h.old \in Policies /\ pol[h.old].released
  BY DEF SharedInv, HandsInv, Types, HandRecord, OrNone, RefsInv, DropInv
<1>. QED
  BY <1>1, <1>2, <1>3, <1>4

LEMMA ThreadOnly ==
  ASSUME Good, UNCHANGED <<data, pol, user>>,
         h.pc # "links", h'.pc \notin {"init", "policy", "join", "links"},
         h'.join = h.join, \A p \in Policies : ToUnlink(p)' = ToUnlink(p),
         h'.pc = "unlinked" => h'.unlink # {},
         Removing' /\ h'.pc \notin Unlinking => pol[h'.old].released
  PROVE  RefsInv'
<1>. USE DEF Good
<1>1. \A p \in Policies : Holders(p)' = Holders(p)
  BY DEF Holders
<1>2. ASSUME NEW p \in Policies PROVE Counted(p)'
  BY <1>1, CountKept DEF At
<1>3. ListInv'
  BY DEF RefsInv, ListInv, Live
<1>4. \A p \in Policies : pol[p].released => pol[p].refs = 0
  BY DEF RefsInv, DropInv
<1>. QED
  BY <1>2, <1>3, <1>4, ThreadKeeps

LEMMA HotplugRefs ==
  ASSUME Good,
         \/ \E c \in Cpus : CpuOnline(c) \/ CpuDownPrepare(c)
         \/ CpuDead \/ CpuDownFailed \/ AddNothing \/ Unlink \/ WaitForDrop
  PROVE  RefsInv'
<1>. USE DEF Good
<1>0. UNCHANGED <<data, pol, user>> /\ h \in HandRecord
  BY DEF CpuOnline, CpuDownPrepare, CpuDead, CpuDownFailed, Unlink, WaitForDrop,
     AddNothing, SharedInv, Types
<1>1. CASE \E c \in Cpus : CpuOnline(c) \/ CpuDownPrepare(c) \/ CpuDead \/ CpuDownFailed
  <2>1. /\ h.pc \in {"idle", "removed"} /\ h'.pc \in {"add", "remove", "idle"}
        /\ h'.join = h.join /\ (h'.pc = "add" => h'.then = "idle")
    BY <1>0, <1>1 DEF CpuOnline, CpuDownPrepare, CpuDead, CpuDownFailed, At, Goto,
       HandRecord
  <2>2. \A p \in Policies : ToUnlink(p)' = ToUnlink(p)
    BY <2>1 DEF ToUnlink
  <2>3. ~Removing'
    BY <2>1 DEF Removing, At, Unlinking, Adding
  <2>. QED
    BY <1>0, <2>1, <2>2, <2>3, ThreadOnly
<1>2. CASE AddNothing
  <2>1. h.pc = "add" /\ Added
    BY <1>2 DEF AddNothing, At
  <2>2. h.join = NoOne
    BY <2>1 DEF SharedInv, HandsInv, At
  <2>. QED
    BY <1>0, <2>1, <2>2, AddedRefs, ThreadOnly DEF Adding
<1>3. CASE Unlink
  <2>1. /\ h.pc = "unlink" /\ h'.pc = "unlinked" /\ h'.join = h.join /\ h'.old = h.old
        /\ h'.unlink = h.unlink /\ h.unlink # {}
    BY <1>0, <1>3 DEF Unlink, At, Goto, HandRecord
  <2>2. \A p \in Policies : ToUnlink(p)' = ToUnlink(p)
    BY <2>1 DEF ToUnlink
  <2>. QED
    BY <1>0, <2>1, <2>2, ThreadOnly DEF Unlinking
<1>4. CASE WaitForDrop
  <2>1. h.pc = "wait" /\ pol[h.old].released
    BY <1>4 DEF WaitForDrop, Dropped, At
  <2>2. h'.pc \in {"free", "add"} /\ h'.join = h.join /\ h'.old = h.old
    <3>1. PICK s : s = pol[h.old].cpus \ {h.cpu}
      OBVIOUS
    <3>2. h' = IF s = {} THEN [h EXCEPT !.pc = "free"]
               ELSE [h EXCEPT !.pc = "add", !.add = Min(s), !.then = "own"]
      BY <1>4, <3>1 DEF WaitForDrop
    <3>. QED
      BY <1>0, <3>2 DEF HandRecord
  <2>3. \A p \in Policies : ToUnlink(p)' = ToUnlink(p)
    BY <2>1, <2>2 DEF ToUnlink
  <2>. QED
    BY <1>0, <2>1, <2>2, <2>3, ThreadOnly
<1>. QED
  BY <1>1, <1>2, <1>3, <1>4, DevicesAssumption

-----------------------------------------------------------------------------
(* The hotplug thread, where it makes a policy                              *)

LEMMA AddingFacts ==
  ASSUME Good, h.pc \in Adding
  PROVE  /\ h.pc \in Making => h.new \in Policies /\ h.new # h.old
         /\ h.pc # "join" => h.join = NoOne
         /\ \A p \in Policies : ToUnlink(p) = 0 /\ p # NoOne
         /\ Removing => h.old \in Policies /\ pol[h.old].used /\ pol[h.old].released
BY DevicesAssumption DEF Good, SharedInv, HandsInv, Types, HandRecord, OrNone, ToUnlink,
   RefsInv, DropInv, Adding, Unlinking, At

LEMMA AddDevRefs ==
  ASSUME Good, AddDev
  PROVE  RefsInv'
<1>. USE DEF Good
<1>1. PICK p \in Policies :
        /\ ~pol[p].used
        /\ pol' = [pol EXCEPT ![p] = [NoPolicy EXCEPT !.used = TRUE, !.cpu = h.add,
                                                      !.cpus = {h.add}]]
        /\ h' = [h EXCEPT !.pc = "init", !.new = p]
  BY DEF AddDev
<1>2. h.pc = "add" /\ UNCHANGED <<data, user>> /\ h \in HandRecord
  BY DEF AddDev, At, SharedInv, Types
<1>3. /\ h'.pc = "init" /\ h'.new = p /\ h'.join = h.join /\ h'.old = h.old
      /\ h'.then = h.then
  BY <1>1, <1>2 DEF HandRecord
<1>4. /\ pol'[p].refs = 0 /\ ~pol'[p].released
      /\ \A q \in Policies \ {p} : pol'[q] = pol[q]
  <2>1. PICK n \in PolicyRecord : n = NoPolicy /\ n.refs = 0 /\ ~n.released
    BY NoPolicyType DEF NoPolicy
  <2>2. PICK r : r = [n EXCEPT !.used = TRUE, !.cpu = h.add, !.cpus = {h.add}]
    OBVIOUS
  <2>3. r.refs = 0 /\ ~r.released
    BY <2>1, <2>2 DEF PolicyRecord
  <2>4. pol' = [pol EXCEPT ![p] = r]
    BY <1>1, <2>1, <2>2
  <2>. QED
    BY <2>3, <2>4 DEF SharedInv, Types
<1>5. /\ h.join = NoOne
      /\ \A q \in Policies : ToUnlink(q) = 0 /\ ToUnlink(q)' = 0 /\ q # NoOne
  BY <1>2, <1>3, AddingFacts DEF Adding, ToUnlink
<1>6. Holders(p) = {} /\ \A q \in Policies : Holders(q)' = Holders(q)
  BY <1>1, <1>2 DEF RefsInv, HoldersInv, Holders
<1>7. ~Live(p)
  BY <1>1, <1>5 DEF SharedInv, OwnersInv, Live
<1>8. Counted(p)'
  BY <1>2, <1>3, <1>4, <1>5, <1>6, <1>7, CountsNothing DEF Live
<1>9. ASSUME NEW q \in Policies \ {p} PROVE Counted(q)'
  BY <1>2, <1>3, <1>4, <1>5, <1>6, CountKept DEF At
<1>10. ListInv'
  BY <1>2, <1>4, <1>7 DEF RefsInv, ListInv, Live
<1>11. Removing' => pol'[h'.old].released
  <2>1. Removing' => Removing
    BY <1>2, <1>3 DEF Removing, Adding, Unlinking, At
  <2>2. Removing => h.old \in Policies \ {p} /\ pol[h.old].released
    BY <1>1, <1>2, AddingFacts DEF Adding
  <2>. QED
    BY <1>3, <1>4, <2>1, <2>2
<1>12. \A q \in Policies :
         /\ pol'[q].released => pol'[q].refs = 0
         /\ pol[q].used => pol'[q].used \/ Holders(q) = {}
  BY <1>4, <1>6 DEF RefsInv, DropInv
<1>. QED
  BY <1>2, <1>3, <1>4, <1>6, <1>8, <1>9, <1>10, <1>11, <1>12, ThreadKeeps

LEMMA GivenUpRefs ==
  ASSUME Good, h.pc \in {"init", "policy"}, pol' = Freed(h.new), Added,
         UNCHANGED <<data, user>>
  PROVE  RefsInv'
<1>. USE DEF Good
<1>1. PICK p \in Policies : p = h.new
  BY AddingFacts DEF Making, Adding
<1>2. /\ pol'[p].refs = 0 /\ ~pol'[p].released
      /\ \A q \in Policies \ {p} : pol'[q] = pol[q]
  BY <1>1, FreedFacts DEF NoPolicy, SharedInv
<1>3. /\ h.join = NoOne /\ h'.join = NoOne /\ h'.pc \in {"add", "idle", "own"}
      /\ \A q \in Policies : ToUnlink(q) = 0 /\ ToUnlink(q)' = 0 /\ q # NoOne
  BY AddingFacts, AddedRefs DEF Adding
<1>4. Holders(p) = {} /\ \A q \in Policies : Holders(q)' = Holders(q)
  BY <1>1 DEF RefsInv, HoldersInv, Holders
<1>5. ~Live(p)
  BY <1>1 DEF SharedInv, NewInv, Making
<1>6. Counted(p)'
  BY <1>2, <1>3, <1>4, <1>5, CountsNothing DEF Live
<1>7. ASSUME NEW q \in Policies \ {p} PROVE Counted(q)'
  BY <1>2, <1>3, <1>4, CountKept DEF At
<1>8. ListInv'
  BY <1>2, <1>5 DEF RefsInv, ListInv, Live
<1>9. Removing' => pol'[h'.old].released
  BY <1>1, <1>2, AddedRefs, AddingFacts DEF Adding, Making
<1>10. \A q \in Policies :
         /\ pol'[q].released => pol'[q].refs = 0
         /\ pol[q].used => pol'[q].used \/ Holders(q) = {}
  BY <1>2, <1>4 DEF RefsInv, DropInv
<1>. QED
  BY <1>3, <1>6, <1>7, <1>8, <1>9, <1>10, ThreadKeeps

LEMMA DriverInitRefs ==
  ASSUME Good, DriverInit
  PROVE  RefsInv'
<1>. USE DEF Good
<1>1. h.pc = "init" /\ UNCHANGED <<data, user>>
  BY DEF DriverInit, At
<1>2. CASE pol' = Freed(h.new) /\ Added
  BY <1>1, <1>2, GivenUpRefs
<1>3. CASE pol' = [pol EXCEPT ![h.new].cpus = AllCpus] /\ Goto("policy")
  <2>1. PICK p \in Policies : p = h.new
    BY <1>1, AddingFacts DEF Making, Adding
  <2>2. /\ h'.pc = "policy" /\ h'.new = p /\ h'.join = h.join /\ h'.old = h.old
        /\ h'.then = h.then
    BY <1>3, <2>1 DEF Goto, SharedInv, Types, HandRecord
  <2>3. /\ pol'[p].refs = pol[p].refs /\ pol'[p].cpu = pol[p].cpu
        /\ pol'[p].used = pol[p].used /\ pol'[p].released = pol[p].released
        /\ \A q \in Policies \ {p} : pol'[q] = pol[q]
    BY <1>3, <2>1 DEF SharedInv, Types, PolicyRecord
  <2>4. /\ \A q \in Policies : ToUnlink(q) = 0 /\ ToUnlink(q)' = 0
    BY <1>1, <2>2, AddingFacts DEF Adding, ToUnlink
  <2>5. \A q \in Policies : Holders(q)' = Holders(q)
    BY <1>1 DEF Holders
  <2>6. ASSUME NEW q \in Policies PROVE Counted(q)'
    BY <1>1, <2>2, <2>3, <2>4, <2>5, CountKept DEF At
  <2>7. ~Live(p)
    BY <1>1, <2>1 DEF SharedInv, NewInv, Making
  <2>8. ListInv'
    BY <1>1, <2>3, <2>7 DEF RefsInv, ListInv, Live
  <2>9. Holders(p) = {} /\ ~pol'[p].released
    BY <1>1, <2>1, <2>3 DEF RefsInv, HoldersInv
  <2>10. Removing' => pol'[h'.old].released
    <3>1. Removing' => Removing
      BY <1>1, <2>2 DEF Removing, Adding, Unlinking, At
    <3>. QED
      BY <1>1, <2>1, <2>2, <2>3, <3>1, AddingFacts DEF Adding, Making
  <2>11. \A q \in Policies :
           /\ pol'[q].released => pol'[q].refs = 0
           /\ pol[q].used => pol'[q].used \/ Holders(q) = {}
    BY <2>3 DEF RefsInv, DropInv
  <2>. QED
    BY <1>1, <2>2, <2>6, <2>8, <2>9, <2>10, <2>11, ThreadKeeps
<1>. QED
  BY <1>2, <1>3 DEF DriverInit

LEMMA FindManagedRefs ==
  ASSUME Good, FindManaged
  PROVE  RefsInv'
<1>. USE DEF Good
<1>1. At("policy") /\ h.pc = "policy" /\ Managed # {} /\ UNCHANGED <<data, user>>
  BY DEF FindManaged, At
<1>2. PICK m \in Policies : m = data[Min(Managed)] /\ Live(m) /\ m # h.new
  BY <1>1, ManagedFacts
<1>3. pol' = Get(m) /\ h' = [h EXCEPT !.pc = "join", !.join = m]
  BY <1>2 DEF FindManaged
<1>4. /\ OnlyRefs /\ pol'[m].refs = pol[m].refs + 1
      /\ pol'[m].released <=> pol[m].released
      /\ \A q \in Policies \ {m} : pol'[q] = pol[q]
  BY <1>3, GetFacts DEF SharedInv
<1>5. PICK p \in Policies : p = h.new
  BY <1>1, AddingFacts DEF Making, Adding
<1>6. /\ h'.pc = "join" /\ h'.new = p /\ h'.join = m /\ h'.old = h.old
      /\ h'.then = h.then
  BY <1>3, <1>5 DEF SharedInv, Types, HandRecord
<1>7. /\ h.join = NoOne
      /\ \A q \in Policies : ToUnlink(q) = 0 /\ ToUnlink(q)' = 0 /\ q # NoOne
  BY <1>1, <1>6, AddingFacts DEF Adding, ToUnlink
<1>8. \A q \in Policies : Holders(q)' = Holders(q)
  BY <1>1 DEF Holders
<1>9. Counted(m)'
  <2>1. /\ One(Live(m)') = 1 /\ One(Live(m)) = 1 /\ One(h'.join = m) = 1
        /\ One(h.join = m) = 0
    <3>1. Live(m)'
      BY <1>1, <1>2 DEF Live
    <3>. QED
      BY <1>2, <1>6, <1>7, <3>1 DEF One
  <2>2. Links(m)' = Links(m)
    BY <1>1, <1>4, <1>6 DEF Links, Linked, At, OnlyRefs
  <2>3. PICK k \in Nat, l \in Nat :
          /\ Links(m) = k /\ Links(m)' = k
          /\ Cardinality(Holders(m)) = l /\ Cardinality(Holders(m)') = l
          /\ ToUnlink(m) = 0 /\ ToUnlink(m)' = 0
    BY <1>7, <1>8, <2>2, CountTypes
  <2>. HIDE DEF Good
  <2>4. One(Live(m)') + One(h'.join = m) + ToUnlink(m)' + Cardinality(Holders(m)')
            + Links(m)'
          = One(Live(m)) + One(h.join = m) + ToUnlink(m) + Cardinality(Holders(m))
              + Links(m) + 1
    BY <2>1, <2>3
  <2>. QED
    BY <1>4, <2>4, CountMoves DEF Good
<1>10. ASSUME NEW q \in Policies \ {m} PROVE Counted(q)'
  BY <1>1, <1>4, <1>6, <1>7, <1>8, CountKept DEF At
<1>11. ListInv'
  BY <1>1, <1>4 DEF RefsInv, ListInv, Live, OnlyRefs
<1>12. Holders(p) = {} /\ ~pol'[p].released
  BY <1>1, <1>2, <1>4, <1>5 DEF RefsInv, HoldersInv
<1>13. Removing' => pol'[h'.old].released
  <2>1. Removing' => Removing
    BY <1>1, <1>6 DEF Removing, Adding, Unlinking, At
  <2>2. Removing => h.old \in Policies /\ pol[h.old].released
    BY <1>1, AddingFacts DEF Adding
  <2>. QED
    BY <1>4, <1>6, <2>1, <2>2
<1>14. \A q \in Policies :
         /\ pol'[q].released => pol'[q].refs = 0
         /\ pol[q].used => pol'[q].used \/ Holders(q) = {}
  <2>1. ~pol'[m].released
    BY <1>2, <1>4, RefsLeft
  <2>. QED
    BY <1>4, <2>1 DEF RefsInv, DropInv, OnlyRefs
<1>. QED
  BY <1>1, <1>6, <1>9, <1>10, <1>11, <1>12, <1>13, <1>14, ThreadKeeps

(* Two CPUs are all there are                                               *)
LEMMA TheTwo ==
  ASSUME TwoCpus, NEW a \in Cpus, NEW b \in Cpus, a # b
  PROVE  Cpus = {a, b}
<1>1. IsFiniteSet(Cpus) /\ {a, b} \in SUBSET Cpus
  BY DevicesAssumption
<1>2. Cardinality({a, b}) = 2
  <2>1. Cardinality({a}) = 1 /\ IsFiniteSet({a})
    BY FS_Singleton
  <2>2. {a, b} = {a} \cup {b} /\ b \notin {a}
    OBVIOUS
  <2>. QED
    BY <2>1, <2>2, FS_AddElement
<1>3. Cardinality({a, b}) <= Cardinality(Cpus) /\ Cardinality(Cpus) \in Nat
      /\ (Cardinality(Cpus) = Cardinality({a, b}) => Cpus = {a, b})
  BY <1>1, FS_Subset, FS_CardinalityType
<1>. QED
  BY <1>2, <1>3 DEF TwoCpus

(* and then the driver's mask is right                                      *)
LEMMA MaskRight ==
  ASSUME TwoCpus, SharedInv, NEW a \in online
  PROVE  AllCpus \subseteq online
<1>1. online \subseteq Cpus /\ a \in Cpus
  BY DEF SharedInv, Types
<1>2. CASE online = {a}
  <2>1. Cardinality(online) = 1
    BY <1>2, FS_Singleton
  <2>. QED
    BY <2>1 DEF AllCpus
<1>3. CASE online # {a}
  <2>1. PICK b \in online : b # a
    BY <1>3
  <2>2. Cpus = {a, b}
    BY <1>1, <2>1, TheTwo
  <2>. QED
    BY <1>1, <2>1, <2>2 DEF AllCpus
<1>. QED
  BY <1>2, <1>3

LEMMA JoinManagedRefs ==
  ASSUME Good, TwoCpus, JoinManaged
  PROVE  RefsInv'
<1>. USE DEF Good
<1>1. /\ h.pc = "join" /\ UNCHANGED user /\ Added
      /\ data' = [data EXCEPT ![h.add] = h.join]
  BY DEF JoinManaged, At
<1>2. PICK p \in Policies, m \in Policies : p = h.new /\ m = h.join
  BY <1>1, AddIsOnline DEF SharedInv, HandsInv, Making, At, Types, HandRecord, OrNone
<1>3. /\ Live(m) /\ ~Live(p) /\ data[h.add] = NoOne /\ pol[p].cpus = AllCpus
      /\ h.add \in Cpus /\ AllCpus \in SUBSET Cpus /\ m # p
      /\ m # NoOne
  BY <1>1, <1>2, AddIsOnline, DevicesAssumption DEF SharedInv, NewInv, Making, At
<1>4. /\ pol'[p].refs = 0 /\ ~pol'[p].released
      /\ \A q \in Policies \ {p, m} : pol'[q] = pol[q]
      /\ pol'[m].used = pol[m].used /\ pol'[m].refs = pol[m].refs
      /\ pol'[m].released = pol[m].released
      /\ pol'[m].cpu = pol[m].cpu /\ pol'[m].cpus = AllCpus
  <2>1. PICK n \in PolicyRecord : n = NoPolicy /\ n.refs = 0 /\ ~n.released
    BY NoPolicyType DEF NoPolicy
  <2>2. pol' = [[pol EXCEPT ![p] = n] EXCEPT ![m].cpus = AllCpus]
    BY <1>2, <1>3, <2>1 DEF JoinManaged, Freed, Joined
  <2>. QED
    BY <1>3, <2>1, <2>2 DEF SharedInv, Types, PolicyRecord
<1>5. /\ h'.join = NoOne /\ h'.pc \in {"add", "idle", "own"} /\ h'.old = h.old
      /\ \A q \in Policies : ToUnlink(q) = 0 /\ ToUnlink(q)' = 0 /\ q # NoOne
  BY <1>1, AddingFacts, AddedRefs DEF Adding
<1>6. Holders(p) = {} /\ \A q \in Policies : Holders(q)' = Holders(q)
  BY <1>1, <1>2 DEF RefsInv, HoldersInv, Holders
<1>7. data'[h.add] = m /\ \A c \in Cpus \ {h.add} : data'[c] = data[c]
  BY <1>1, <1>2, <1>3 DEF SharedInv, Types
<1>8. /\ pol[m].cpu \in Cpus \ {h.add} /\ data[pol[m].cpu] = m /\ pol[m].used
      /\ \A c \in Cpus : data[c] # NoOne => data[c] = m
  BY <1>3 DEF SharedInv, OwnersInv, Live, Types, PolicyRecord
<1>9. Counted(m)'
  <2>1. Linked(m)' = Linked(m) \cup {h.add} /\ h.add \notin Linked(m)
    BY <1>3, <1>4, <1>7, <1>8 DEF Linked
  <2>2. /\ Cardinality(Linked(m)') = Cardinality(Linked(m)) + 1
        /\ Cardinality(Linked(m)) \in Nat
    BY <2>1, CountTypes, FS_AddElement
  <2>3. Links(m)' = Links(m) + 1 /\ Links(m) \in Nat
    BY <1>1, <1>5, <2>2 DEF Links, At
  <2>4. Live(m)'
    BY <1>3, <1>7 DEF Live
  <2>5. /\ One(Live(m)') = 1 /\ One(Live(m)) = 1 /\ One(h'.join = m) = 0
        /\ One(h.join = m) = 1
    BY <1>2, <1>3, <1>5, <2>4 DEF One
  <2>6. /\ Cardinality(Holders(m)) \in Nat /\ ToUnlink(m) = 0 /\ ToUnlink(m)' = 0
        /\ Cardinality(Holders(m)') = Cardinality(Holders(m)) /\ pol[m].refs \in Nat
    BY <1>5, <1>6, CountTypes, RefsLeft
  <2>. HIDE DEF Good
  <2>7. One(Live(m)') + One(h'.join = m) + ToUnlink(m)' + Cardinality(Holders(m)')
            + Links(m)'
          = One(Live(m)) + One(h.join = m) + ToUnlink(m) + Cardinality(Holders(m))
              + Links(m) + 0
    BY <2>3, <2>5, <2>6
  <2>8. pol'[m].refs = pol[m].refs + 0
    BY <1>4, <2>6
  <2>. QED
    BY <2>7, <2>8, CountMoves DEF Good
<1>10. Counted(p)'
  <2>1. ~(Live(p)')
    BY <1>3, <1>7 DEF Live
  <2>. QED
    BY <1>4, <1>5, <1>6, <2>1, CountsNothing
<1>11. ASSUME NEW q \in Policies \ {p, m} PROVE Counted(q)'
  <2>1. \A c \in Cpus : data'[c] = q <=> data[c] = q
    BY <1>3, <1>5, <1>7
  <2>. QED
    BY <1>1, <1>2, <1>4, <1>5, <1>6, <2>1, CountKept DEF At
<1>12. ListInv'
  <2>1. SUFFICES ASSUME NEW q \in Policies, NEW c \in Cpus, Live(q)', c \in pol'[q].cpus
                 PROVE  data'[c] = q
    BY DEF ListInv
  <2>2. q = m
    BY <1>5, <1>7, <1>8, <2>1 DEF Live
  <2>3. c = h.add \/ c = pol[m].cpu
    BY <1>3, <1>8, TheTwo
  <2>. QED
    BY <1>7, <1>8, <2>2, <2>3
<1>13. Removing' => pol'[h'.old].released
  <2>1. Removing => h.old \in Policies \ {p, m} /\ pol[h.old].released
    BY <1>1, <1>2, <1>3, AddingFacts, RefsLeft DEF Adding, Making
  <2>. QED
    BY <1>1, <1>4, <1>5, <2>1, AddedRefs DEF Adding
<1>14. \A q \in Policies :
         /\ pol'[q].released => pol'[q].refs = 0
         /\ pol[q].used => pol'[q].used \/ Holders(q) = {}
  BY <1>4, <1>6, <1>8 DEF RefsInv, DropInv
<1>. QED
  BY <1>1, <1>5, <1>9, <1>10, <1>11, <1>12, <1>13, <1>14, ThreadKeeps

LEMMA AddKobjectRefs ==
  ASSUME Good, TwoCpus, AddKobject
  PROVE  RefsInv'
<1>. USE DEF Good
<1>1. At("policy") /\ h.pc = "policy" /\ Managed = {} /\ UNCHANGED user
  BY DEF AddKobject, At
<1>2. CASE pol' = Freed(h.new) /\ Added /\ UNCHANGED data
  BY <1>1, <1>2, GivenUpRefs
<1>3. CASE /\ pol' = [pol EXCEPT ![h.new].refs = 1]
           /\ data' = [c \in Cpus |-> IF c \in Shared THEN h.new ELSE data[c]]
           /\ Goto("links")
  <2>1. PICK p \in Policies : p = h.new /\ p # h.old /\ p # NoOne
    BY <1>1, AddingFacts DEF Making, Adding
  <2>2. /\ h'.pc = "links" /\ h'.new = p /\ h'.join = NoOne /\ h'.old = h.old
        /\ h'.then = h.then /\ h.join = NoOne
    BY <1>1, <1>3, <2>1, AddingFacts DEF Goto, SharedInv, Types, HandRecord, Adding
  <2>3. /\ pol'[p].refs = 1 /\ pol'[p].cpus = pol[p].cpus
        /\ pol'[p].used = pol[p].used /\ pol'[p].released = pol[p].released
        /\ \A q \in Policies \ {p} : pol'[q] = pol[q]
    BY <1>3, <2>1 DEF SharedInv, Types, PolicyRecord
  <2>4. /\ \A q \in Policies : ToUnlink(q) = 0 /\ ToUnlink(q)' = 0 /\ q # NoOne
    BY <1>1, <2>2, AddingFacts DEF Adding, ToUnlink
  <2>5. /\ Holders(p) = {} /\ ~pol[p].released
        /\ \A q \in Policies : Holders(q)' = Holders(q)
    BY <1>1, <2>1 DEF RefsInv, HoldersInv, Holders
  <2>6. /\ h.add \in online /\ h.add \in Cpus /\ h.add \in AllCpus
        /\ pol[p].cpus = AllCpus
    BY <1>1, <2>1, AddIsOnline DEF Making, SharedInv, NewInv
  <2>7. \A c \in Cpus : /\ data[c] = NoOne
                        /\ data'[c] = IF c \in AllCpus \cap online THEN p ELSE NoOne
    BY <1>1, <1>3, <2>1, <2>6, NobodyManages DEF Shared
  <2>8. Counted(p)'
    <3>1. Live(p)'
      BY <2>6, <2>7 DEF Live
    <3>2. InCore(p)' = 1
      BY <2>1, <2>2, <2>4, <3>1, CoreParts DEF One
    <3>3. Links(p)' = 0
      BY <2>2 DEF Links, At
    <3>4. Cardinality(Holders(p)') = 0
      BY <2>5, FS_EmptySet
    <3>. QED
      BY <2>3, <3>2, <3>3, <3>4 DEF Counted
  <2>9. ASSUME NEW q \in Policies \ {p} PROVE Counted(q)'
    <3>1. \A c \in Cpus : data'[c] = q <=> data[c] = q
      BY <2>4, <2>7
    <3>. QED
      BY <1>1, <2>1, <2>2, <2>3, <2>4, <2>5, <3>1, CountKept DEF At
  <2>10. ListInv'
    <3>1. SUFFICES ASSUME NEW q \in Policies, NEW c \in Cpus, Live(q)', c \in pol'[q].cpus
                   PROVE  data'[c] = q
      BY DEF ListInv
    <3>2. q = p
      BY <2>4, <2>7, <3>1 DEF Live
    <3>3. c \in AllCpus /\ c \in online
      BY <2>3, <2>6, <3>1, <3>2, MaskRight
    <3>. QED
      BY <2>7, <3>2, <3>3
  <2>11. Removing' => pol'[h'.old].released
    <3>1. Removing' => Removing
      BY <1>1, <2>2 DEF Removing, Adding, Unlinking, At
    <3>2. Removing => h.old \in Policies \ {p} /\ pol[h.old].released
      BY <1>1, <2>1, AddingFacts DEF Adding
    <3>. QED
      BY <2>2, <2>3, <3>1, <3>2
  <2>12. \A q \in Policies :
           /\ pol'[q].released => pol'[q].refs = 0
           /\ pol[q].used => pol'[q].used \/ Holders(q) = {}
    BY <2>3, <2>5 DEF RefsInv, DropInv
  <2>. QED
    BY <1>1, <2>2, <2>8, <2>9, <2>10, <2>11, <2>12, ThreadKeeps
<1>. QED
  BY <1>1, <1>2, <1>3 DEF AddKobject

LEMMA AddSymlinksRefs ==
  ASSUME Good, AddSymlinks
  PROVE  RefsInv'
<1>. USE DEF Good
<1>1. /\ h.pc = "links" /\ Goto("start") /\ UNCHANGED <<data, user>>
      /\ pol' = [pol EXCEPT ![h.new].refs = @ + Cardinality(Shared \ {h.add})]
  BY DEF AddSymlinks, At
<1>2. PICK p \in Policies : p = h.new /\ p # h.old /\ p # NoOne
  BY <1>1, AddingFacts DEF Making, Adding
<1>3. /\ h'.pc = "start" /\ h'.new = p /\ h'.join = h.join /\ h'.old = h.old
      /\ h'.then = h.then
  BY <1>1, <1>2 DEF Goto, SharedInv, Types, HandRecord
<1>4. /\ pol[p].cpu = h.add /\ h.add \in Shared /\ Shared \in SUBSET Cpus
      /\ \A c \in Cpus : data[c] = p <=> c \in Shared
  BY <1>1, <1>2, AddIsOnline DEF SharedInv, NewInv, Making, Shared, Types
<1>5. Linked(p) = Shared \ {h.add} /\ Live(p)
  BY <1>4 DEF Linked, Live
<1>6. PICK n \in Nat : n = Cardinality(Shared \ {h.add}) /\ n = Cardinality(Linked(p))
  BY <1>5, CountTypes
<1>7. /\ pol'[p].refs = pol[p].refs + n /\ pol'[p].cpu = pol[p].cpu
      /\ pol'[p].cpus = pol[p].cpus
      /\ pol'[p].used = pol[p].used /\ pol'[p].released = pol[p].released
      /\ \A q \in Policies \ {p} : pol'[q] = pol[q]
  <2>1. pol' = [pol EXCEPT ![p].refs = @ + n]
    BY <1>1, <1>2, <1>6
  <2>. QED
    BY <2>1 DEF SharedInv, Types, PolicyRecord
<1>8. /\ \A q \in Policies : ToUnlink(q) = 0 /\ ToUnlink(q)' = 0
  BY <1>1, <1>3, AddingFacts DEF Adding, ToUnlink
<1>9. \A q \in Policies : Holders(q)' = Holders(q)
  BY <1>1 DEF Holders
<1>10. Counted(p)'
  <2>1. Linked(p)' = Linked(p) /\ (Live(p)' <=> Live(p))
    BY <1>1, <1>7 DEF Linked, Live
  <2>2. Links(p) = 0 /\ Links(p)' = n
    BY <1>1, <1>2, <1>3, <1>6, <2>1 DEF Links, At
  <2>3. /\ One(Live(p)') = One(Live(p)) /\ One(h'.join = p) = One(h.join = p)
        /\ One(Live(p)) \in Nat /\ One(h.join = p) \in Nat
    BY <1>3, <2>1 DEF One
  <2>4. /\ Cardinality(Holders(p)) \in Nat /\ ToUnlink(p) = 0 /\ ToUnlink(p)' = 0
        /\ Cardinality(Holders(p)') = Cardinality(Holders(p))
    BY <1>8, <1>9, CountTypes
  <2>. HIDE DEF Good
  <2>5. One(Live(p)') + One(h'.join = p) + ToUnlink(p)' + Cardinality(Holders(p)')
            + Links(p)'
          = One(Live(p)) + One(h.join = p) + ToUnlink(p) + Cardinality(Holders(p))
              + Links(p) + n
    BY <2>2, <2>3, <2>4
  <2>. QED
    BY <1>7, <2>5, CountMoves DEF Good
<1>11. ASSUME NEW q \in Policies \ {p} PROVE Counted(q)'
  BY <1>1, <1>2, <1>3, <1>7, <1>8, <1>9, CountKept DEF At
<1>12. ListInv'
  BY <1>1, <1>7 DEF RefsInv, ListInv, Live
<1>13. Removing' => pol'[h'.old].released
  <2>1. Removing' => Removing
    BY <1>1, <1>3 DEF Removing, Adding, Unlinking, At
  <2>. QED
    BY <1>1, <1>2, <1>3, <1>7, <2>1, AddingFacts DEF Adding
<1>14. \A q \in Policies :
         /\ pol'[q].released => pol'[q].refs = 0
         /\ pol[q].used => pol'[q].used \/ Holders(q) = {}
  BY <1>5, <1>7, RefsLeft DEF RefsInv, DropInv
<1>. QED
  BY <1>1, <1>3, <1>10, <1>11, <1>12, <1>13, <1>14, ThreadKeeps

LEMMA SetPolicyRefs ==
  ASSUME Good, SetPolicy
  PROVE  RefsInv'
<1>. USE DEF Good
<1>1. /\ h.pc = "start" /\ Added /\ UNCHANGED <<data, user>>
      /\ pol' = [pol EXCEPT ![h.new].started = TRUE]
  BY DEF SetPolicy, At
<1>2. \A q \in Policies :
        /\ pol'[q].refs = pol[q].refs /\ pol'[q].cpu = pol[q].cpu
        /\ pol'[q].cpus = pol[q].cpus /\ pol'[q].used = pol[q].used
        /\ pol'[q].released = pol[q].released
  BY <1>1 DEF SharedInv, Types, PolicyRecord
<1>3. /\ h.join = NoOne /\ h'.join = NoOne /\ h'.pc \in {"add", "idle", "own"}
      /\ \A q \in Policies : ToUnlink(q) = 0 /\ ToUnlink(q)' = 0
  BY <1>1, AddingFacts, AddedRefs DEF Adding
<1>4. \A q \in Policies : Holders(q)' = Holders(q)
  BY <1>1 DEF Holders
<1>5. ASSUME NEW q \in Policies PROVE Counted(q)'
  BY <1>1, <1>2, <1>3, <1>4, CountKept DEF At
<1>6. ListInv'
  BY <1>1, <1>2 DEF RefsInv, ListInv, Live
<1>7. Removing' => pol'[h'.old].released
  BY <1>1, <1>2, AddedRefs DEF Adding
<1>8. \A q \in Policies :
        /\ pol'[q].released => pol'[q].refs = 0
        /\ pol[q].used => pol'[q].used \/ Holders(q) = {}
  BY <1>2 DEF RefsInv, DropInv
<1>. QED
  BY <1>1, <1>3, <1>5, <1>6, <1>7, <1>8, ThreadKeeps

-----------------------------------------------------------------------------
(* The hotplug thread, where it takes a policy away                         *)

(* A CPU that leaves puts the reference of its link; that of the first CPU  *)
(* remains                                                                  *)
LEMMA LeaveRefs ==
  ASSUME Good, NEW c \in Cpus, LeavePolicy(c), UNCHANGED user,
         \/ h.pc = "remove" /\ h'.pc = "removed"
         \/ h.pc = "own" /\ h'.pc = "free",
         h'.join = h.join, h'.old = h.old
  PROVE  RefsInv'
<1>. USE DEF Good
<1>1. /\ h.join = NoOne /\ h'.join = NoOne /\ h.new = NoOne
      /\ \A q \in Policies : ToUnlink(q) = 0 /\ ToUnlink(q)' = 0 /\ q # NoOne
  BY DevicesAssumption DEF SharedInv, HandsInv, Making, At, ToUnlink
<1>2. Removing' => h.old \in Policies /\ pol[h.old].released
  BY DEF Removing, At, Unlinking, Adding, RefsInv, DropInv, SharedInv, HandsInv, Types,
     HandRecord, OrNone
<1>3. CASE data[c] = NoOne /\ UNCHANGED <<pol, data>>
  BY <1>1, <1>2, <1>3, ThreadOnly
<1>4. CASE /\ data[c] # NoOne /\ pol[data[c]].cpu # c
           /\ data' = [data EXCEPT ![c] = NoOne]
           /\ pol' = [Put(data[c]) EXCEPT ![data[c]].cpus = @ \ {c}]
  <2>1. PICK p \in Policies : p = data[c]
    BY <1>4 DEF SharedInv, Types, OrNone
  <2>2. /\ pol'[p].used <=> pol[p].used
        /\ pol'[p].released <=> pol[p].released \/ pol[p].refs = 1
        /\ pol'[p].cpu = pol[p].cpu /\ pol'[p].cpus = pol[p].cpus \ {c}
        /\ pol'[p].refs = pol[p].refs - 1
        /\ \A q \in Policies \ {p} : pol'[q] = pol[q]
    <3>1. PICK g : g = Put(p)
      OBVIOUS
    <3>2. /\ g \in [Policies -> PolicyRecord]
          /\ g[p].used <=> pol[p].used
          /\ g[p].released <=> pol[p].released \/ pol[p].refs = 1
          /\ g[p].cpu = pol[p].cpu /\ g[p].cpus = pol[p].cpus
          /\ g[p].refs = pol[p].refs - 1
          /\ \A q \in Policies \ {p} : g[q] = pol[q]
      BY <3>1, PutValue DEF SharedInv
    <3>3. pol' = [g EXCEPT ![p].cpus = @ \ {c}]
      BY <1>4, <2>1, <3>1
    <3>. QED
      BY <3>2, <3>3 DEF PolicyRecord
  <2>3. data'[c] = NoOne /\ \A d \in Cpus \ {c} : data'[d] = data[d]
    BY <1>4 DEF SharedInv, Types
  <2>4. /\ pol[p].cpu \in Cpus \ {c} /\ data[pol[p].cpu] = p /\ p # NoOne
        /\ p # h.old /\ \A d \in Cpus : data[d] # NoOne => data[d] = p
    BY <1>4, <2>1, DevicesAssumption DEF SharedInv, OwnersInv, Types, PolicyRecord
  <2>5. \A q \in Policies : Holders(q)' = Holders(q)
    BY DEF Holders
  <2>6. Live(p) /\ Live(p)'
    BY <2>3, <2>4 DEF Live
  <2>7. Linked(p)' = Linked(p) \ {c} /\ c \in Linked(p)
    BY <1>4, <2>1, <2>2, <2>3, <2>4 DEF Linked
  <2>8. PICK k \in Nat, l \in Nat :
          /\ Links(p) = k + 1 /\ Links(p)' = k
          /\ Cardinality(Holders(p)) = l /\ Cardinality(Holders(p)') = l
          /\ ToUnlink(p) = 0 /\ ToUnlink(p)' = 0
    <3>1. /\ Cardinality(Linked(p)') = Cardinality(Linked(p)) - 1
          /\ Cardinality(Linked(p)) \in Nat /\ Cardinality(Linked(p)') \in Nat
      BY <2>7, CountTypes, FS_RemoveElement, FS_CardinalityType
    <3>2. Links(p) = Cardinality(Linked(p)) /\ Links(p)' = Cardinality(Linked(p)')
      BY DEF Links, At
    <3>3. Cardinality(Holders(p)') = Cardinality(Holders(p))
          /\ Cardinality(Holders(p)) \in Nat
      BY <2>5, CountTypes
    <3>. QED
      BY <1>1, <3>1, <3>2, <3>3
  <2>9. /\ One(Live(p)') = 1 /\ One(Live(p)) = 1 /\ One(h'.join = p) = 0
        /\ One(h.join = p) = 0
    BY <1>1, <2>6 DEF One
  <2>10. Counted(p)' /\ pol[p].refs >= 2 /\ ~pol[p].released
    <3>1. pol[p].refs = 1 + 0 + 0 + l + (k + 1) /\ ~pol[p].released
      BY <2>6, <2>8, <2>9, RefsLeft
    <3>. HIDE DEF Good
    <3>2. One(Live(p)') + One(h'.join = p) + ToUnlink(p)' + Cardinality(Holders(p)')
            + Links(p)'
          = One(Live(p)) + One(h.join = p) + ToUnlink(p) + Cardinality(Holders(p))
              + Links(p) + (-1)
      BY <2>8, <2>9
    <3>3. pol'[p].refs = pol[p].refs + (-1)
      BY <2>2, <3>1
    <3>4. Counted(p)'
      BY <3>2, <3>3, CountMoves DEF Good
    <3>. QED
      BY <3>1, <3>4
  <2>11. ASSUME NEW q \in Policies \ {p} PROVE Counted(q)'
    <3>1. \A d \in Cpus : data'[d] = q <=> data[d] = q
      BY <1>1, <2>1, <2>3
    <3>. QED
      BY <1>1, <2>2, <2>5, <3>1, CountKept DEF At
  <2>12. ListInv'
    <3>1. SUFFICES ASSUME NEW q \in Policies, NEW d \in Cpus, Live(q)', d \in pol'[q].cpus
                   PROVE  data'[d] = q
      BY DEF ListInv
    <3>2. q = p
      BY <1>1, <2>3, <2>4, <3>1 DEF Live
    <3>3. d # c /\ data[d] = p
      BY <2>2, <2>6, <3>1, <3>2 DEF RefsInv, ListInv
    <3>. QED
      BY <2>3, <3>2, <3>3
  <2>13. Removing' => pol'[h'.old].released
    BY <1>2, <2>2, <2>4
  <2>14. \A q \in Policies :
           /\ pol'[q].released => pol'[q].refs = 0
           /\ pol[q].used => pol'[q].used \/ Holders(q) = {}
    <3>1. ~pol'[p].released
      BY <2>2, <2>10
    <3>. QED
      BY <2>2, <3>1 DEF RefsInv, DropInv
  <2>. QED
    BY <2>10, <2>11, <2>12, <2>13, <2>14, ThreadKeeps
<1>. QED
  BY <1>3, <1>4 DEF LeavePolicy

LEMMA LeavesRefs ==
  ASSUME Good, RemoveLink \/ RemoveOwnLink
  PROVE  RefsInv'
<1>1. PICK q \in {"removed", "free"}, r \in {"remove", "own"} :
        /\ h.pc = r /\ h' = [h EXCEPT !.pc = q] /\ (r = "own" <=> q = "free")
        /\ LeavePolicy(h.cpu) /\ UNCHANGED user
  BY DEF RemoveLink, RemoveOwnLink, At, Goto
<1>2. h \in HandRecord /\ h.cpu \in Cpus
  BY DEF Good, SharedInv, Types, HandRecord
<1>3. h'.pc = q /\ h'.join = h.join /\ h'.old = h.old
  BY <1>1, <1>2 DEF HandRecord
<1>. QED
  BY <1>1, <1>2, <1>3, LeaveRefs

LEMMA RemoveOwnerRefs ==
  ASSUME Good, RemoveOwner
  PROVE  RefsInv'
<1>. USE DEF Good
<1>0. h \in HandRecord /\ h.cpu \in Cpus
  BY DEF SharedInv, Types, HandRecord
<1>1. PICK p \in Policies : p = data[h.cpu]
  BY <1>0 DEF RemoveOwner, SharedInv, Types, OrNone
<1>2. /\ h.pc = "remove" /\ UNCHANGED <<pol, user>> /\ pol[p].cpu = h.cpu
      /\ data' = [c \in Cpus |-> IF c \in pol[p].cpus THEN NoOne ELSE data[c]]
      /\ h' = [h EXCEPT !.pc = "unlink", !.old = p, !.unlink = pol[p].cpus \ {h.cpu}]
  BY <1>1 DEF RemoveOwner, At
<1>3. /\ h'.pc = "unlink" /\ h'.new = h.new /\ h'.join = h.join /\ h'.old = p
      /\ h'.unlink = pol[p].cpus \ {h.cpu}
  BY <1>0, <1>2 DEF HandRecord
<1>4. \A q \in Policies : q # NoOne
  BY DevicesAssumption
<1>5. \A c \in Cpus : data[c] # NoOne => data[c] = p /\ c \in pol[p].cpus
  BY <1>0, <1>1, <1>4 DEF SharedInv, OwnersInv
<1>6. \A c \in Cpus : data'[c] = NoOne
  BY <1>2, <1>5
<1>7. h.join = NoOne
  BY <1>2 DEF SharedInv, HandsInv, At
<1>8. \A q \in Policies : Holders(q)' = Holders(q)
  BY <1>2 DEF Holders
<1>9. Live(p)
  BY <1>0, <1>1 DEF Live
<1>10. Linked(p) = pol[p].cpus \ {h.cpu} /\ Linked(p)' = {}
  <2>1. \A c \in pol[p].cpus : c \in Cpus /\ data[c] = p
    BY <1>9 DEF RefsInv, ListInv, SharedInv, Types, PolicyRecord
  <2>2. Linked(p)' = {}
    BY <1>4, <1>6 DEF Linked
  <2>3. Linked(p) = {c \in Cpus : data[c] = p /\ h.cpu # c}
    BY <1>2 DEF Linked
  <2>. QED
    BY <1>4, <1>5, <2>1, <2>2, <2>3
<1>11. Counted(p)'
  <2>1. PICK k \in Nat, l \in Nat :
          /\ Links(p) = k /\ Links(p)' = 0 /\ ToUnlink(p) = 0 /\ ToUnlink(p)' = 1 + k
          /\ Cardinality(Holders(p)) = l /\ Cardinality(Holders(p)') = l
    <3>1. Links(p) = Cardinality(Linked(p)) /\ Links(p)' = Cardinality(Linked(p)')
      BY <1>2, <1>3 DEF Links, At
    <3>2. ToUnlink(p) = 0 /\ ToUnlink(p)' = 1 + Cardinality(Linked(p))
      BY <1>2, <1>3, <1>10 DEF ToUnlink
    <3>3. Cardinality(Linked(p)') = 0
      BY <1>10, FS_EmptySet
    <3>. QED
      BY <1>8, <3>1, <3>2, <3>3, CountTypes
  <2>2. /\ One(Live(p)') = 0 /\ One(Live(p)) = 1 /\ One(h'.join = p) = 0
        /\ One(h.join = p) = 0
    <3>1. ~(Live(p)')
      BY <1>4, <1>6 DEF Live
    <3>. QED
      BY <1>3, <1>4, <1>7, <1>9, <3>1 DEF One
  <2>3. pol'[p].refs = pol[p].refs + 0
    <3>1. pol[p].refs \in Nat
      BY RefsLeft
    <3>. QED
      BY <1>2, <3>1
  <2>. HIDE DEF Good
  <2>4. One(Live(p)') + One(h'.join = p) + ToUnlink(p)' + Cardinality(Holders(p)')
            + Links(p)'
          = One(Live(p)) + One(h.join = p) + ToUnlink(p) + Cardinality(Holders(p))
              + Links(p) + 0
    BY <2>1, <2>2
  <2>. QED
    BY <2>3, <2>4, CountMoves DEF Good
<1>12. ASSUME NEW q \in Policies \ {p} PROVE Counted(q)'
  <2>1. \A c \in Cpus : data'[c] = q <=> data[c] = q
    BY <1>4, <1>5, <1>6
  <2>2. ToUnlink(q)' = ToUnlink(q)
    BY <1>2, <1>3 DEF ToUnlink
  <2>. QED
    BY <1>2, <1>3, <1>8, <2>1, <2>2, CountKept DEF At
<1>13. ListInv'
  BY <1>4, <1>6 DEF ListInv, Live
<1>14. h'.pc \in Unlinking
  BY <1>3 DEF Unlinking
<1>15. \A q \in Policies : pol[q].released => pol[q].refs = 0
  BY DEF RefsInv, DropInv
<1>. QED
  BY <1>2, <1>3, <1>11, <1>12, <1>13, <1>14, <1>15, ThreadKeeps

(* The policy that goes loses its references                                *)
LEMMA OldRefs ==
  ASSUME Good, PutUnlinked \/ StopGovernor
  PROVE  RefsInv'
<1>. USE DEF Good
<1>1. h.pc \in {"unlink", "unlinked"} /\ UNCHANGED <<data, user>> /\ h \in HandRecord
  BY DEF PutUnlinked, StopGovernor, At, SharedInv, Types
<1>2. PICK p \in Policies : p = h.old
  BY <1>1 DEF SharedInv, HandsInv, Removing, Unlinking, Types, HandRecord, OrNone
<1>3. PICK g : g = Put(p)
  OBVIOUS
<1>4. /\ pol'[p].used <=> pol[p].used
      /\ pol'[p].released <=> pol[p].released \/ pol[p].refs = 1
      /\ pol'[p].cpu = pol[p].cpu /\ pol'[p].cpus = pol[p].cpus
      /\ pol'[p].refs = pol[p].refs - 1
      /\ \A q \in Policies \ {p} : pol'[q] = pol[q]
  <2>1. pol' = g \/ pol' = [g EXCEPT ![p].started = FALSE]
    BY <1>2, <1>3 DEF PutUnlinked, StopGovernor
  <2>2. /\ g \in [Policies -> PolicyRecord]
        /\ g[p].used <=> pol[p].used
        /\ g[p].released <=> pol[p].released \/ pol[p].refs = 1
        /\ g[p].cpu = pol[p].cpu /\ g[p].cpus = pol[p].cpus
        /\ g[p].refs = pol[p].refs - 1
        /\ \A q \in Policies \ {p} : g[q] = pol[q]
    BY <1>3, PutValue DEF SharedInv
  <2>. QED
    BY <2>1, <2>2 DEF PolicyRecord
<1>5. /\ h'.pc \in {"unlink", "wait"} /\ h'.join = h.join /\ h'.old = p
      /\ h'.new = h.new /\ ToUnlink(p)' = ToUnlink(p) - 1 /\ ToUnlink(p) >= 1
  <2>1. CASE PutUnlinked
    <3>1. PICK s \in SUBSET Cpus :
            /\ h' = [h EXCEPT !.pc = "unlink", !.unlink = s]
            /\ s = h.unlink \ {Min(h.unlink)}
      <4>1. h.unlink \ {Min(h.unlink)} \in SUBSET Cpus
        BY <1>1 DEF HandRecord
      <4>. QED
        BY <2>1, <4>1 DEF PutUnlinked
    <3>2. /\ h'.pc = "unlink" /\ h'.join = h.join /\ h'.old = p /\ h'.new = h.new
          /\ h'.unlink = s /\ h.pc = "unlinked"
      BY <1>1, <1>2, <2>1, <3>1 DEF HandRecord, PutUnlinked, At
    <3>3. Min(h.unlink) \in h.unlink
      <4>1. h.unlink # {} /\ h.unlink \in SUBSET Cpus
        BY <1>1, <3>2 DEF RefsInv, HoldersInv, At, HandRecord
      <4>. QED
        BY <4>1, LeastCpu
    <3>4. /\ Cardinality(s) = Cardinality(h.unlink) - 1
          /\ Cardinality(s) \in Nat /\ Cardinality(h.unlink) \in Nat
      BY <3>1, <3>3, CountTypes, FS_RemoveElement, FS_CardinalityType
    <3>5. ToUnlink(p) = 1 + Cardinality(h.unlink) /\ ToUnlink(p)' = 1 + Cardinality(s)
      BY <1>2, <3>2 DEF ToUnlink
    <3>. QED
      BY <3>2, <3>4, <3>5
  <2>2. CASE StopGovernor
    <3>1. /\ h'.pc = "wait" /\ h'.join = h.join /\ h'.old = p /\ h'.new = h.new
          /\ h.pc = "unlink" /\ h.unlink = {}
      BY <1>1, <1>2, <2>2 DEF HandRecord, StopGovernor, Goto, At
    <3>2. Cardinality(h.unlink) = 0
      BY <3>1, FS_EmptySet
    <3>3. ToUnlink(p) = 1 /\ ToUnlink(p)' = 0
      BY <1>2, <3>1, <3>2 DEF ToUnlink
    <3>. QED
      BY <3>1, <3>3
  <2>. QED
    BY <2>1, <2>2
<1>6. \A q \in Policies : Holders(q)' = Holders(q)
  BY <1>1 DEF Holders
<1>7. /\ h.pc # "links" /\ h.pc \notin Making /\ h'.pc # "links"
  BY <1>1, <1>5 DEF Making
<1>8. PICK k \in Nat, l \in Nat, n \in Nat, a \in Nat, b \in Nat :
        /\ Links(p) = k /\ Links(p)' = k /\ ToUnlink(p) = n + 1 /\ ToUnlink(p)' = n
        /\ Cardinality(Holders(p)) = l /\ Cardinality(Holders(p)') = l
        /\ One(Live(p)) = a /\ One(Live(p)') = a
        /\ One(h.join = p) = b /\ One(h'.join = p) = b
  <2>1. (Live(p)' <=> Live(p)) /\ Linked(p)' = Linked(p)
    BY <1>1, <1>4 DEF Live, Linked
  <2>2. Links(p)' = Links(p)
    BY <1>7, <2>1 DEF Links, At
  <2>3. /\ One(Live(p)) \in Nat /\ One(Live(p)') = One(Live(p))
        /\ One(h.join = p) \in Nat /\ One(h'.join = p) = One(h.join = p)
    BY <1>5, <2>1 DEF One
  <2>4. Cardinality(Holders(p)') = Cardinality(Holders(p))
    BY <1>6
  <2>5. /\ Links(p) \in Nat /\ Cardinality(Holders(p)) \in Nat /\ ToUnlink(p) \in Nat
    BY CountTypes
  <2>6. ToUnlink(p) - 1 \in Nat /\ ToUnlink(p) = (ToUnlink(p) - 1) + 1
        /\ ToUnlink(p)' = ToUnlink(p) - 1
    BY <1>5, <2>5
  <2>. QED
    BY <2>2, <2>3, <2>4, <2>5, <2>6
<1>9. pol[p].refs \in Nat /\ pol[p].refs >= 1
  <2>1. pol[p].refs = a + b + (n + 1) + l + k
    BY <1>8, RefsLeft
  <2>. QED
    BY <2>1
<1>10. Counted(p)'
  <2>. HIDE DEF Good
  <2>1. One(Live(p)') + One(h'.join = p) + ToUnlink(p)' + Cardinality(Holders(p)')
            + Links(p)'
          = One(Live(p)) + One(h.join = p) + ToUnlink(p) + Cardinality(Holders(p))
              + Links(p) + (-1)
    BY <1>8
  <2>2. pol'[p].refs = pol[p].refs + (-1)
    BY <1>4, <1>9
  <2>. QED
    BY <2>1, <2>2, CountMoves DEF Good
<1>11. ASSUME NEW q \in Policies \ {p} PROVE Counted(q)'
  <2>1. ToUnlink(q)' = ToUnlink(q)
    BY <1>2, <1>5 DEF ToUnlink
  <2>. QED
    BY <1>1, <1>4, <1>5, <1>6, <1>7, <2>1, CountKept DEF At
<1>12. ListInv'
  BY <1>1, <1>4 DEF RefsInv, ListInv, Live
<1>13. h'.pc \in Unlinking
  BY <1>5 DEF Unlinking
<1>14. \A q \in Policies :
         /\ pol'[q].released => pol'[q].refs = 0
         /\ pol[q].used => pol'[q].used \/ Holders(q) = {}
  <2>1. pol[p].released => pol[p].refs = 0
    BY DEF RefsInv, DropInv
  <2>2. pol'[p].released => pol'[p].refs = 0
    BY <1>4, <1>9, <2>1
  <2>. QED
    BY <1>4, <2>2 DEF RefsInv, DropInv
<1>. QED
  BY <1>1, <1>5, <1>10, <1>11, <1>12, <1>13, <1>14, ThreadKeeps

LEMMA FreePolicyRefs ==
  ASSUME Good, FreePolicy
  PROVE  RefsInv'
<1>. USE DEF Good
<1>1. /\ h.pc = "free" /\ UNCHANGED <<data, user>>
      /\ pol' = Freed(h.old) /\ h' = [h EXCEPT !.pc = "removed", !.old = NoOne]
  BY DEF FreePolicy, At
<1>2. PICK p \in Policies : p = h.old /\ pol[p].released
  BY <1>1 DEF SharedInv, HandsInv, Removing, At, Types, HandRecord, OrNone, RefsInv,
     DropInv, Unlinking
<1>3. /\ pol'[p].refs = 0 /\ ~pol'[p].released
      /\ \A q \in Policies \ {p} : pol'[q] = pol[q]
  BY <1>1, <1>2, FreedFacts DEF NoPolicy, SharedInv
<1>4. h'.pc = "removed" /\ h'.join = h.join /\ h'.old = NoOne /\ h.join = NoOne
  BY <1>1 DEF SharedInv, Types, HandRecord, HandsInv, At
<1>5. \A q \in Policies : ToUnlink(q) = 0 /\ ToUnlink(q)' = 0 /\ q # NoOne
  BY <1>1, <1>4, DevicesAssumption DEF ToUnlink
<1>6. Holders(p) = {} /\ \A q \in Policies : Holders(q)' = Holders(q)
  <2>1. Holders(p) = {}
    BY <1>2, RefsLeft
  <2>. QED
    BY <1>1, <2>1 DEF Holders
<1>7. ~Live(p)
  BY <1>2, <1>5 DEF SharedInv, OwnersInv, Live
<1>8. Counted(p)'
  BY <1>1, <1>3, <1>4, <1>5, <1>6, <1>7, CountsNothing DEF Live
<1>9. ASSUME NEW q \in Policies \ {p} PROVE Counted(q)'
  BY <1>1, <1>3, <1>4, <1>5, <1>6, CountKept DEF At
<1>10. ListInv'
  BY <1>1, <1>3, <1>7 DEF RefsInv, ListInv, Live
<1>11. ~Removing'
  BY <1>4 DEF Removing, At, Unlinking, Adding
<1>12. \A q \in Policies :
         /\ pol'[q].released => pol'[q].refs = 0
         /\ pol[q].used => pol'[q].used \/ Holders(q) = {}
  BY <1>3, <1>6 DEF RefsInv, DropInv
<1>. QED
  BY <1>1, <1>4, <1>8, <1>9, <1>10, <1>11, <1>12, ThreadKeeps

-----------------------------------------------------------------------------
(* No reference is lost                                                     *)

LEMMA RefsStep ==
  ASSUME Good, TwoCpus, [Next]_vars
  PROVE  Good'
<1>1. SharedInv'
  BY SharedStep DEF Good
<1>2. CASE \E u \in Users : User(u) \/ \E c \in Cpus : CpuGet(u, c)
  <2>1. ASSUME NEW u \in Users, User(u) PROVE RefsInv'
    BY <2>1, UserRefs, DevicesAssumption
  <2>. QED
    BY <1>1, <1>2, <2>1, UserRefs DEF Good
<1>3. CASE Hotplug
  <2>1. RefsInv'
    BY <1>3, HotplugRefs, AddDevRefs, DriverInitRefs, FindManagedRefs, JoinManagedRefs,
       AddKobjectRefs, AddSymlinksRefs, SetPolicyRefs, LeavesRefs, RemoveOwnerRefs,
       OldRefs, FreePolicyRefs DEF Hotplug
  <2>. QED
    BY <1>1, <2>1 DEF Good
<1>4. CASE UNCHANGED vars
  <2>1. RefsInv'
    BY <1>4, NobodyTakes DEF vars
  <2>. QED
    BY <1>1, <2>1 DEF Good
<1>. QED
  BY <1>2, <1>3, <1>4 DEF Next

LEMMA InitGood == Init => Good
<1>. SUFFICES ASSUME Init PROVE Good
  OBVIOUS
<1>1. SharedInv
  BY InitShared
<1>2. /\ h.pc = "add" /\ h.new = NoOne /\ h.join = NoOne /\ h.old = NoOne
      /\ h.then = "next"
  BY DEF Init
<1>3. \A p \in Policies :
        /\ p # NoOne /\ ~Live(p) /\ pol[p].refs = 0 /\ ~pol[p].released
        /\ Holders(p) = {} /\ Linked(p) = {} /\ ToUnlink(p) = 0
  BY <1>2, DevicesAssumption DEF Init, Live, NoPolicy, NoUse, Holders, Linked, ToUnlink
<1>4. Cardinality({}) = 0 /\ IsFiniteSet({})
  BY FS_EmptySet
<1>5. \A p \in Policies : InCore(p) = 0 /\ Links(p) = 0
  BY <1>2, <1>3, <1>4, CoreParts DEF One, Links
<1>6. HoldersInv
  BY <1>2, <1>3, <1>4 DEF HoldersInv, At, Init, NoUse
<1>7. CountInv
  BY <1>3, <1>4, <1>5 DEF CountInv, Counted
<1>8. DropInv
  BY <1>2, <1>3 DEF DropInv, Removing, At, Unlinking, Adding
<1>9. ListInv
  BY <1>3 DEF ListInv
<1>. QED
  BY <1>1, <1>6, <1>7, <1>8, <1>9 DEF Good, RefsInv

LEMMA GoodCounts == Good => RefsExact
<1>. SUFFICES ASSUME Good PROVE RefsExact
  OBVIOUS
<1>. USE DEF Good
<1>1. ASSUME NEW p \in Policies, InCore(p) > 0 \/ Holders(p) # {} PROVE pol[p].used
  <2>1. p # NoOne
    BY DevicesAssumption
  <2>2. CASE Holders(p) # {}
    BY <2>2 DEF RefsInv, HoldersInv
  <2>3. CASE Live(p)
    BY <2>1, <2>3 DEF SharedInv, OwnersInv, Live
  <2>4. CASE h.join = p
    <3>1. Live(p)
      BY <2>1, <2>4 DEF SharedInv, HandsInv, NewInv, At, Making
    <3>. QED
      BY <2>3, <3>1
  <2>5. CASE h.old = p
    BY <2>1, <2>5 DEF SharedInv, HandsInv
  <2>6. ~Live(p) /\ h.join # p /\ h.old # p => InCore(p) = 0
    BY DEF InCore, Live
  <2>. QED
    BY <1>1, <2>2, <2>3, <2>4, <2>5, <2>6
<1>2. HeldNotFreed
  BY <1>1 DEF HeldNotFreed
<1>3. ASSUME NEW p \in Policies, ~(At("links") /\ h.new = p)
      PROVE  pol[p].refs = InCore(p) + Cardinality(Linked(p)) + Cardinality(Holders(p))
  <2>1. pol[p].refs = InCore(p) + Cardinality(Holders(p)) + Cardinality(Linked(p))
    BY <1>3 DEF RefsInv, CountInv, Counted, Links
  <2>2. Cardinality(Holders(p)) \in Nat /\ Cardinality(Linked(p)) \in Nat
    BY CountTypes
  <2>3. InCore(p) \in Nat
    <3>1. InCore(p) = One(Live(p)) + One(h.join = p) + ToUnlink(p)
      BY CoreParts
    <3>. QED
      BY <3>1, CountTypes DEF One
  <2>. QED
    BY <2>1, <2>2, <2>3
<1>. QED
  BY <1>2, <1>3 DEF RefsExact

(* With two CPUs at most, as the driver expects ("EXYNOS4 multi-core        *)
(* processors has 2 cores", :613), a policy's references are at any time    *)
(* those of its first CPU, of the CPUs linked to it and of its              *)
(* callers, however many these are, and while there is one it is not freed. *)
(* With more the driver's mask names CPUs that hold no reference, and one   *)
(* is put for each of them all the same.                                    *)
THEOREM ReferencesExact ==
  ASSUME TwoCpus
  PROVE  Spec => []RefsExact
<1>1. Good /\ [Next]_vars => Good'
  BY RefsStep
<1>. QED
  BY <1>1, InitGood, GoodCounts, PTL DEF Spec
=============================================================================
