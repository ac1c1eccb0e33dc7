---------------------------- MODULE CpufreqDevices ----------------------------
(***************************************************************************)
(* How the cpufreq core, drivers/cpufreq/cpufreq.c, makes, shares and      *)
(* takes away the policies of the CPUs as they go and come: the devices    *)
(* are added at boot, when a CPU comes online and when it failed to go     *)
(* down, and removed when one is about to go down.  Meanwhile callers get  *)
(* a policy by its CPU, take the policy's semaphore, use it and put it     *)
(* back.  The driver is that of the Exynos, whose CPUs share a policy.     *)
(*                                                                         *)
(* One hotplug operation goes on at a time (cpu_hotplug.lock).  What is    *)
(* done under cpufreq_driver_lock is one step.  Readers of the semaphore   *)
(* are treated as its writers.  Memory suffices, and sysfs files and links *)
(* can be made; the driver's init and kobject_init_and_add may fail.       *)
(* CpufreqPolicy says what is done with the policy under its semaphore.    *)
(***************************************************************************)
EXTENDS Integers, FiniteSetsExt

CONSTANTS
  Cpus,        (* numbers, as cpumask_first takes the least                 *)
  BootCpu,     (* the CPU that the platform refuses to take down            *)
  Policies,    (* the memory for policies                                   *)
  Users,       (* threads that use a policy                                 *)
  NoOne        (* no thread, no policy, no CPU                              *)

ASSUME DevicesAssumption ==
  /\ Cpus \subseteq Nat /\ IsFiniteSet(Cpus) /\ BootCpu \in Cpus
  /\ IsFiniteSet(Policies) /\ Cardinality(Policies) > 2
  /\ NoOne \notin Cpus /\ NoOne \notin Policies
  /\ NoOne \notin Users /\ NoOne # "hotplug" /\ "hotplug" \notin Users

VARIABLES
  online,
  data,        (* cpufreq_cpu_data of each CPU                              *)
  policy_cpu,  (* cpufreq_policy_cpu                                        *)
  rwsem,       (* the thread that holds each CPU's cpu_policy_rwsem         *)
  pol,         (* each policy: whether it is allocated, its cpu, its cpus,
                  the references to its kobject, whether the last of them is
                  dropped, and whether its governor was started             *)
  h,           (* the hotplug thread: where it is, the CPU it removes or
                  boots, the CPU it adds, the policies it makes, joins and
                  removes, the CPUs to unlink, and what follows the adding  *)
  user         (* each user: where it is, its CPU, policy and semaphore     *)

vars == <<online, data, policy_cpu, rwsem, pol, h, user>>

NoPolicy == [used |-> FALSE, cpu |-> BootCpu, cpus |-> {}, refs |-> 0,
             released |-> FALSE, started |-> FALSE]
NoUse == [pc |-> "idle", cpu |-> BootCpu, p |-> NoOne, sem |-> BootCpu]

(* The driver was registered, and adds the devices of the CPUs in turn      *)
Init ==
  /\ online \in {{BootCpu}, Cpus}
  /\ data = [c \in Cpus |-> NoOne]
  /\ policy_cpu = [c \in Cpus |-> NoOne]
  /\ rwsem = [c \in Cpus |-> NoOne]
  /\ pol = [p \in Policies |-> NoPolicy]
  /\ h = [pc |-> "add", cpu |-> BootCpu, add |-> Min(Cpus), new |-> NoOne,
          join |-> NoOne, old |-> NoOne, unlink |-> {}, then |-> "next"]
  /\ user = [u \in Users |-> NoUse]

-----------------------------------------------------------------------------
(* References and semaphores                                                *)

Get(p) == [pol EXCEPT ![p].refs = @ + 1]

(* The last kobject_put completes kobj_unregister                           *)
Put_Leak(p) == pol
Put(p) == [pol EXCEPT ![p].refs = @ - 1, ![p].released = @ \/ pol[p].refs = 1]

(* lock_policy_rwsem_write and unlock_policy_rwsem_write look the semaphore *)
(* up again each time                                                       *)
SemOf(c) == policy_cpu[c]
Lock(c) == rwsem[SemOf(c)] = NoOne /\ rwsem' = [rwsem EXCEPT ![SemOf(c)] = "hotplug"]
Unlock(c) == rwsem' = [rwsem EXCEPT ![SemOf(c)] = NoOne]
LockAndUnlock(c) == rwsem[SemOf(c)] = NoOne /\ UNCHANGED rwsem

Goto(p) == h' = [h EXCEPT !.pc = p]
At(p) == h.pc = p

-----------------------------------------------------------------------------
(* cpufreq_cpu_callback                                                     *)

CpuOnline(c) ==
  /\ At("idle") /\ c \notin online
  /\ online' = online \cup {c}
  /\ h' = [h EXCEPT !.pc = "add", !.add = c, !.then = "idle"]
  /\ UNCHANGED <<data, policy_cpu, rwsem, pol, user>>

CpuDownPrepare(c) ==
  /\ At("idle") /\ c \in online /\ online # {c}
  /\ Lock(c)
  /\ h' = [h EXCEPT !.pc = "remove", !.cpu = c]
  /\ UNCHANGED <<online, data, policy_cpu, pol, user>>

CpuDead ==
  /\ At("removed") /\ h.cpu # BootCpu
  /\ online' = online \ {h.cpu}
  /\ Goto("idle")
  /\ UNCHANGED <<data, policy_cpu, rwsem, pol, user>>

CpuDownFailed ==
  /\ At("removed")
  /\ h' = [h EXCEPT !.pc = "add", !.add = h.cpu, !.then = "idle"]
  /\ UNCHANGED <<online, data, policy_cpu, rwsem, pol, user>>

-----------------------------------------------------------------------------
(* cpufreq_add_dev                                                          *)

(* At boot the next CPU follows                                             *)
Later == {c \in Cpus : c > h.add}
Added ==
  h' = IF h.then = "next" /\ Later # {}
       THEN [h EXCEPT !.pc = "add", !.add = Min(Later), !.new = NoOne,
                      !.join = NoOne]
       ELSE [h EXCEPT !.pc = IF h.then = "next" THEN "idle" ELSE h.then,
                      !.new = NoOne, !.join = NoOne]

Freed(p) == [pol EXCEPT ![p] = NoPolicy]

(* Nothing to do for a CPU that is offline or has a policy                  *)
AddNothing ==
  /\ At("add") /\ (h.add \notin online \/ data[h.add] # NoOne)
  /\ Added
  /\ UNCHANGED <<online, data, policy_cpu, rwsem, pol, user>>

AddDev ==
  /\ At("add") /\ h.add \in online /\ data[h.add] = NoOne
  /\ \E p \in Policies :
       /\ ~pol[p].used
       /\ pol' = [pol EXCEPT ![p] = [NoPolicy EXCEPT !.used = TRUE,
                                       !.cpu = h.add, !.cpus = {h.add}]]
       /\ h' = [h EXCEPT !.pc = "init", !.new = p]
  /\ policy_cpu' = [policy_cpu EXCEPT ![h.add] = h.add]
  /\ rwsem[h.add] = NoOne /\ rwsem' = [rwsem EXCEPT ![h.add] = "hotplug"]
  /\ UNCHANGED <<online, data, user>>

(* exynos_cpufreq_cpu_init                                                  *)
AllCpus == IF Cardinality(online) = 1 THEN online ELSE Cpus

DriverInit ==
  /\ At("init")
  /\ \/ /\ pol' = [pol EXCEPT ![h.new].cpus = AllCpus]
        /\ Goto("policy")
        /\ UNCHANGED rwsem
     \/ /\ pol' = Freed(h.new)
        /\ Unlock(h.add)
        /\ Added
  /\ UNCHANGED <<online, data, policy_cpu, user>>

(* cpufreq_add_dev_policy: a CPU that shares its policy with others joins   *)
(* theirs, for which the semaphores are exchanged                           *)
Managed == {j \in pol[h.new].cpus \ {h.add} : data[j] # NoOne}

FindManaged ==
  /\ At("policy") /\ Managed # {}
  /\ LET m == data[Min(Managed)]
     IN  /\ pol' = Get(m)
         /\ policy_cpu' = [policy_cpu EXCEPT ![h.add] = pol[m].cpu]
         /\ h' = [h EXCEPT !.pc = "join", !.join = m]
  /\ Unlock(h.add)
  /\ UNCHANGED <<online, data, user>>

Joined_OwnMask(m) == pol[m].cpus
Joined(m) == pol[h.new].cpus

JoinManaged ==
  /\ At("join") /\ LockAndUnlock(h.add)
  /\ pol' = [Freed(h.new) EXCEPT ![h.join].cpus = Joined(h.join)]
  /\ data' = [data EXCEPT ![h.add] = h.join]
  /\ Added
  /\ UNCHANGED <<online, policy_cpu, user>>

(* cpufreq_add_dev_interface: the new policy becomes that of its CPUs that  *)
(* are online, each but the first of which holds a reference                *)
Shared == pol[h.new].cpus \cap online

AddKobject ==
  /\ At("policy") /\ Managed = {}
  /\ \/ /\ pol' = [pol EXCEPT ![h.new].refs = 1]
        /\ data' = [c \in Cpus |-> IF c \in Shared THEN h.new ELSE data[c]]
        /\ policy_cpu' = [c \in Cpus |-> IF c \in Shared THEN h.add
                                         ELSE policy_cpu[c]]
        /\ Goto("links")
        /\ UNCHANGED rwsem
     \/ /\ pol' = Freed(h.new)
        /\ Unlock(h.add)
        /\ Added
        /\ UNCHANGED <<data, policy_cpu>>
  /\ UNCHANGED <<online, user>>

AddSymlinks ==
  /\ At("links")
  /\ pol' = [pol EXCEPT ![h.new].refs = @ + Cardinality(Shared \ {h.add})]
  /\ Goto("start")
  /\ UNCHANGED <<online, data, policy_cpu, rwsem, user>>

(* The policy is set, which starts its governor                             *)
SetPolicy ==
  /\ At("start")
  /\ pol' = [pol EXCEPT ![h.new].started = TRUE]
  /\ Unlock(h.add)
  /\ Added
  /\ UNCHANGED <<online, data, policy_cpu, user>>

-----------------------------------------------------------------------------
(* __cpufreq_remove_dev, entered with the semaphore                         *)

(* A CPU that is not the policy's first only leaves it; the hotplug thread  *)
(* does this a second time for the CPU whose policy another one took over   *)
LeavePolicy(c) ==
  /\ \/ data[c] = NoOne /\ UNCHANGED <<pol, data>>
     \/ /\ data[c] # NoOne /\ pol[data[c]].cpu # c
        /\ data' = [data EXCEPT ![c] = NoOne]
        /\ pol' = [Put(data[c]) EXCEPT ![data[c]].cpus = @ \ {c}]

RemoveLink ==
  /\ At("remove") /\ LeavePolicy(h.cpu)
  /\ Unlock(h.cpu)
  /\ Goto("removed")
  /\ UNCHANGED <<online, policy_cpu, user>>

(* The first CPU's policy goes: no CPU has it any more ...                  *)
RemoveOwner ==
  /\ At("remove") /\ data[h.cpu] # NoOne /\ pol[data[h.cpu]].cpu = h.cpu
  /\ LET p == data[h.cpu]
     IN  /\ data' = [c \in Cpus |-> IF c \in pol[p].cpus THEN NoOne ELSE data[c]]
         /\ h' = [h EXCEPT !.pc = "unlink", !.old = p,
                           !.unlink = pol[p].cpus \ {h.cpu}]
  /\ UNCHANGED <<online, policy_cpu, rwsem, pol, user>>

(* ... the other CPUs' links are removed, without the semaphore, ...        *)
Unlink ==
  /\ At("unlink") /\ h.unlink # {}
  /\ Unlock(h.cpu)
  /\ Goto("unlinked")
  /\ UNCHANGED <<online, data, policy_cpu, pol, user>>

PutUnlinked ==
  /\ At("unlinked") /\ Lock(h.cpu)
  /\ pol' = Put(h.old)
  /\ h' = [h EXCEPT !.pc = "unlink", !.unlink = @ \ {Min(@)}]
  /\ UNCHANGED <<online, data, policy_cpu, user>>

(* ... the governor stops and the last reference of the core is put, ...    *)
StopGovernor ==
  /\ At("unlink") /\ h.unlink = {}
  /\ pol' = [Put(h.old) EXCEPT ![h.old].started = FALSE]
  /\ Unlock(h.cpu)
  /\ Goto("wait")
  /\ UNCHANGED <<online, data, policy_cpu, user>>

(* ... and when nobody has one any more a sibling gets the CPUs             *)
Dropped_NoWait == TRUE
Dropped == pol[h.old].released

WaitForDrop ==
  /\ At("wait") /\ Dropped /\ LockAndUnlock(h.cpu)
  /\ LET others == pol[h.old].cpus \ {h.cpu}
     IN  h' = IF others = {} THEN [h EXCEPT !.pc = "free"]
              ELSE [h EXCEPT !.pc = "add", !.add = Min(others), !.then = "own"]
  /\ UNCHANGED <<online, data, policy_cpu, rwsem, pol, user>>

RemoveOwnLink ==
  /\ At("own") /\ LockAndUnlock(h.cpu)
  /\ LeavePolicy(h.cpu)
  /\ Goto("free")
  /\ UNCHANGED <<online, policy_cpu, rwsem, user>>

FreePolicy ==
  /\ At("free")
  /\ pol' = Freed(h.old)
  /\ h' = [h EXCEPT !.pc = "removed", !.old = NoOne]
  /\ UNCHANGED <<online, data, policy_cpu, rwsem, user>>

Hotplug ==
  \/ \E c \in Cpus : CpuOnline(c) \/ CpuDownPrepare(c)
  \/ CpuDead \/ CpuDownFailed
  \/ AddNothing \/ AddDev \/ DriverInit \/ FindManaged \/ JoinManaged
  \/ AddKobject \/ AddSymlinks \/ SetPolicy
  \/ RemoveLink \/ RemoveOwner \/ Unlink \/ PutUnlinked \/ StopGovernor
  \/ WaitForDrop \/ RemoveOwnLink \/ FreePolicy

-----------------------------------------------------------------------------
(* Callers                                                                  *)

Step(u, p) == user' = [user EXCEPT ![u].pc = p]

(* cpufreq_cpu_get: to look only, as cpufreq_quick_get does, or to lock, by *)
(* policy->cpu as all callers in the repository do                          *)
CpuGet(u, c) ==
  /\ user[u].pc = "idle" /\ data[c] # NoOne
  /\ pol' = Get(data[c])
  /\ \/ user' = [user EXCEPT ![u] = [NoUse EXCEPT !.pc = "put", !.p = data[c]]]
     \/ user' = [user EXCEPT ![u] = [NoUse EXCEPT !.pc = "find",
                                   !.cpu = pol[data[c]].cpu, !.p = data[c]]]
  /\ UNCHANGED <<online, data, policy_cpu, rwsem, h>>

FindSem(u) ==
  /\ user[u].pc = "find"
  /\ user' = [user EXCEPT ![u].pc = "lock", ![u].sem = SemOf(user[u].cpu)]
  /\ UNCHANGED <<online, data, policy_cpu, rwsem, pol, h>>

(* down_write, and the test whether the CPU is still online                 *)
Down(u) ==
  /\ user[u].pc = "lock" /\ rwsem[user[u].sem] = NoOne
  /\ IF user[u].cpu \in online
     THEN rwsem' = [rwsem EXCEPT ![user[u].sem] = u] /\ Step(u, "use")
     ELSE UNCHANGED rwsem /\ Step(u, "put")
  /\ UNCHANGED <<online, data, policy_cpu, pol, h>>

UserUnlock(u) ==
  /\ user[u].pc = "use"
  /\ Unlock(user[u].cpu)
  /\ Step(u, "put")
  /\ UNCHANGED <<online, data, policy_cpu, pol, h>>

CpuPut(u) ==
  /\ user[u].pc = "put"
  /\ pol' = Put(user[u].p)
  /\ user' = [user EXCEPT ![u] = NoUse]
  /\ UNCHANGED <<online, data, policy_cpu, rwsem, h>>

User(u) == FindSem(u) \/ Down(u) \/ UserUnlock(u) \/ CpuPut(u)

Next == Hotplug \/ \E u \in Users : User(u) \/ \E c \in Cpus : CpuGet(u, c)

Spec == Init /\ [][Next]_vars

(* Semaphores are given out in the order in which they are asked for; a     *)
(* call goes on to its end                                                  *)
FairSpec ==
  /\ Spec
  /\ SF_vars(Hotplug)
  /\ \A u \in Users : SF_vars(User(u))

-----------------------------------------------------------------------------
(* Properties                                                               *)

Linked(p) == {c \in Cpus : data[c] = p /\ pol[p].cpu # c}
Holders(p) == {u \in Users : user[u].p = p}
InCore(p) ==
  (IF \E c \in Cpus : data[c] = p THEN 1 ELSE 0)
    + (IF h.join = p THEN 1 ELSE 0)
    + (IF h.old = p /\ h.pc \in {"unlink", "unlinked"}
       THEN 1 + Cardinality(h.unlink) ELSE 0)

(* "we need to make sure that the underlying kobj is actually not           *)
(* referenced anymore by anybody before we proceed with unloading"          *)
(* (:1280-1282): a policy that somebody holds is not freed.                 *)
HeldNotFreed ==
  \A p \in Policies : InCore(p) > 0 \/ Holders(p) # {} => pol[p].used

(* A policy's references are those of its first CPU, of each CPU linked to  *)
(* it and of its callers, through all of what happens when CPUs go and come *)
(* (:139-183, :893-924, :958, :1222, :1265), and none of them is lost.      *)
RefsExact ==
  /\ HeldNotFreed
  /\ \A p \in Policies :
       ~(At("links") /\ h.new = p) =>
         pol[p].refs = InCore(p) + Cardinality(Linked(p)) + Cardinality(Holders(p))

(* When no hotplug operation is going on, CPUs that have a policy share it, *)
(* with its first CPU online and in its place, the semaphore of which all   *)
(* of them use; it lists them; its governor was started; and all others are *)
(* free.                                                                    *)
PolicyShared ==
  At("idle") =>
    /\ \A c, d \in Cpus :
         data[c] # NoOne =>
           /\ c \in online /\ c \in pol[data[c]].cpus
           /\ policy_cpu[c] = pol[data[c]].cpu
           /\ data[pol[data[c]].cpu] = data[c] /\ pol[data[c]].started
           /\ data[d] \in {data[c], NoOne}
    /\ \A p \in Policies : pol[p].used => \E c \in Cpus : data[c] = p

(* A hotplug operation comes to its end: the completion it waits for comes, *)
(* and nobody waits in a circle with it.                                    *)
HotplugReturns == ~At("idle") ~> At("idle")
=============================================================================
