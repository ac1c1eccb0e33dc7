------------------------------ MODULE Scheduler ------------------------------
(***************************************************************************)
(* The life of a task in the scheduler, kernel/sched.c: schedule() and the *)
(* context switch, wakeups from any CPU, fork, the change of a task's      *)
(* affinity with the help of the stopper thread, and CPUs that go down and *)
(* come up, for the multiprocessor without preemption of kernel code that  *)
(* the board's configuration selects.                                      *)
(*                                                                         *)
(* Which task is the best to run is the business of the scheduling classes *)
(* (sched_fair.c and sched_rt.c, not in the repository): here a CPU picks  *)
(* any task of its queue.  A critical section under a run queue's lock is  *)
(* one step; pi_lock is held for the steps of a wakeup.  Work queue        *)
(* workers and threads bound to a CPU are not among the tasks, and the     *)
(* stopper and idle threads are not counted in nr_running.                 *)
(***************************************************************************)
EXTENDS Integers, FiniteSets, FiniteSetsExt

CONSTANTS
  Tasks,
  Cpus,
  BootCpu,
  InitTask,    (* the task that runs at boot                                *)
  Idle,        (* the idle thread of any CPU                                *)
  Stopper,     (* the stopper thread of any CPU                             *)
  Unlocked,    (* __ARCH_WANT_UNLOCKED_CTXSW and ..._INTERRUPTS_ON_CTXSW    *)
  WaitState,   (* the state in which each task waits                        *)
  Movable,     (* the tasks whose affinity is set                           *)
  Masks,       (* the affinities that they are given                        *)
  MaxStops,    (* bound of the migrations that wait for a stopper           *)
  Wrap         (* 2^w of the unsigned long nr_uninterruptible               *)

ASSUME CpusAssumption == BootCpu \in Cpus /\ IsFiniteSet(Cpus)
ASSUME TasksAssumption ==
  /\ InitTask \in Tasks /\ IsFiniteSet(Tasks)
  /\ Idle \notin Tasks /\ Stopper \notin Tasks /\ Idle # Stopper
ASSUME ChoicesAssumption ==
  /\ WaitState \in [Tasks -> {"INTERRUPTIBLE", "UNINTERRUPTIBLE"}]
  /\ Movable \subseteq Tasks /\ Masks \subseteq SUBSET Cpus
ASSUME BoundsAssumption ==
  Unlocked \in BOOLEAN /\ MaxStops \in Nat /\ Wrap \in Nat \ {0}

VARIABLES
  state,       (* task_struct.state                                         *)
  on_rq,       (* whether the task is on its CPU's queue                    *)
  on_cpu,      (* whether a CPU runs it or is still switching away from it  *)
  cpu,         (* the CPU that it belongs to                                *)
  allowed,     (* cpus_allowed                                              *)
  contributes, (* sched_contributes_to_load, read while a task is woken     *)
  doing,       (* where the task is in its own code                         *)
  cond,        (* whether what it waits for has happened                    *)
  queue,       (* the tasks on each CPU's queue, the running one included   *)
  nr_running,
  nr_uninterruptible,
  wake_list,   (* the tasks woken for each CPU by others                    *)
  ipi,         (* whether a reschedule interrupt is on its way              *)
  curr,        (* what each CPU runs                                        *)
  phase,       (* where each CPU is in schedule()                           *)
  prev,        (* what it switches away from                                *)
  waker,       (* the wakeup that each CPU is in                            *)
  stops,       (* the migrations that wait for a CPU's stopper              *)
  online, active

tasks == <<state, on_rq, on_cpu, cpu, allowed, contributes>>
user == <<doing, cond>>
rqs == <<queue, nr_running, nr_uninterruptible>>
remote == <<wake_list, ipi>>
cpus == <<curr, phase, prev>>
masks == <<online, active>>
vars == <<tasks, user, rqs, remote, cpus, waker, stops, masks>>

Sleeping == {"INTERRUPTIBLE", "UNINTERRUPTIBLE"}

NoWake == [pc |-> "idle", task |-> Idle, cpu |-> BootCpu]

(* At boot the first task runs on the boot CPU, the only one               *)
Init ==
  /\ state = [t \in Tasks |-> IF t = InitTask THEN "RUNNING" ELSE "NONE"]
  /\ on_rq = [t \in Tasks |-> t = InitTask]
  /\ on_cpu = [t \in Tasks |-> t = InitTask]
  /\ cpu = [t \in Tasks |-> BootCpu]
  /\ allowed = [t \in Tasks |-> Cpus]
  /\ contributes = [t \in Tasks |-> FALSE]
  /\ doing = [t \in Tasks |-> "run"] /\ cond = [t \in Tasks |-> FALSE]
  /\ queue = [c \in Cpus |-> IF c = BootCpu THEN {InitTask} ELSE {}]
  /\ nr_running = [c \in Cpus |-> IF c = BootCpu THEN 1 ELSE 0]
  /\ nr_uninterruptible = [c \in Cpus |-> 0]
  /\ wake_list = [c \in Cpus |-> {}] /\ ipi = [c \in Cpus |-> FALSE]
  /\ curr = [c \in Cpus |-> IF c = BootCpu THEN InitTask ELSE Idle]
  /\ phase = [c \in Cpus |-> "run"] /\ prev = [c \in Cpus |-> Idle]
  /\ waker = [c \in Cpus |-> NoWake]
  /\ stops = {}
  /\ online = {BootCpu} /\ active = {BootCpu}

-----------------------------------------------------------------------------
(* Locks and queues                                                         *)

(* A CPU whose interrupts are off is in a wakeup; the lock of a queue is    *)
(* held across the context switch unless the architecture unlocks it        *)
NoWakeup(c) == waker[c].pc = "idle"
RqFree(c) == Unlocked \/ phase[c] # "switch"
PiFree(t) == \A c \in Cpus : waker[c].task = t => waker[c].pc = "lock"

Wrapped(n) == n % Wrap

(* task_contributes_to_load                                                 *)
Contributes(t) == state[t] = "UNINTERRUPTIBLE"
Load(T) == Cardinality({t \in T : Contributes(t)})

(* activate_task and deactivate_task, of all the tasks of a set             *)
Activate(c, T) ==
  /\ nr_uninterruptible' =
       [nr_uninterruptible EXCEPT ![c] = Wrapped(@ - Load(T))]
  /\ queue' = [queue EXCEPT ![c] = @ \cup T]
  /\ nr_running' = [nr_running EXCEPT ![c] = @ + Cardinality(T)]

Deactivate(c, t) ==
  /\ nr_uninterruptible' =
       [nr_uninterruptible EXCEPT ![c] = Wrapped(@ + Load({t}))]
  /\ queue' = [queue EXCEPT ![c] = @ \ {t}]
  /\ nr_running' = [nr_running EXCEPT ![c] = @ - 1]

(* One after the other, as when a task moves                                *)
Move(t, c, d) ==
  /\ nr_uninterruptible' =
       [nr_uninterruptible EXCEPT ![c] = Wrapped(@ + Load({t})),
                                  ![d] = Wrapped(@ - Load({t}))]
  /\ queue' = [queue EXCEPT ![c] = @ \ {t}, ![d] = @ \cup {t}]
  /\ nr_running' = [nr_running EXCEPT ![c] = @ - 1, ![d] = @ + 1]
  /\ cpu' = [cpu EXCEPT ![t] = d]

-----------------------------------------------------------------------------
(* A task's own code: it waits for its condition in the usual loop          *)

Runs(c, t) ==
  /\ curr[c] = t /\ t \in Tasks /\ phase[c] = "run" /\ NoWakeup(c)

SetState(c, t) ==
  /\ Runs(c, t) /\ doing[t] = "run"
  /\ state' = [state EXCEPT ![t] = WaitState[t]]
  /\ doing' = [doing EXCEPT ![t] = "wait"]
  /\ UNCHANGED <<on_rq, on_cpu, cpu, allowed, contributes, cond, rqs, remote,
                 cpus, waker, stops, masks>>

TestCond(c, t) ==
  /\ Runs(c, t) /\ doing[t] = "wait"
  /\ IF cond[t]
     THEN /\ state' = [state EXCEPT ![t] = "RUNNING"]
          /\ cond' = [cond EXCEPT ![t] = FALSE]
          /\ doing' = [doing EXCEPT ![t] = "run"]
     ELSE /\ doing' = [doing EXCEPT ![t] = "sleep"]
          /\ UNCHANGED <<state, cond>>
  /\ UNCHANGED <<on_rq, on_cpu, cpu, allowed, contributes, rqs, remote, cpus,
                 waker, stops, masks>>

(* do_exit, up to its last schedule().  No waker is left that has yet to    *)
(* look at the task: an assumption on the callers, which neither this code  *)
(* nor its locks enforce.                                                   *)
Exit(c, t) ==
  /\ Runs(c, t) /\ doing[t] = "run" /\ t # InitTask
  /\ \A d \in Cpus : waker[d].task # t
  /\ state' = [state EXCEPT ![t] = "DEAD"]
  /\ doing' = [doing EXCEPT ![t] = "exit"]
  /\ UNCHANGED <<on_rq, on_cpu, cpu, allowed, contributes, cond, rqs, remote,
                 cpus, waker, stops, masks>>

-----------------------------------------------------------------------------
(* __schedule                                                               *)

Pending(c) == \E r \in stops : r.src = c

(* pick_next_task: the stopper before all others, the idle thread last      *)
Candidates(c) ==
  IF Pending(c) THEN {Stopper}
  ELSE IF queue'[c] = {} THEN {Idle} ELSE queue'[c]

(* prepare_task_switch marks the next task as running, context_switch goes  *)
(* to it: finish_task_switch, which has nothing to do for the idle and      *)
(* stopper threads, follows in that task                                    *)
PrepareSwitch(n) == on_cpu' = [t \in Tasks |-> on_cpu[t] \/ t = n]

ContextSwitch(c, n) ==
  IF n = curr[c] \/ curr[c] \notin Tasks
  THEN phase' = [phase EXCEPT ![c] = "run"] /\ UNCHANGED prev
  ELSE /\ phase' = [phase EXCEPT ![c] = "switch"]
       /\ prev' = [prev EXCEPT ![c] = curr[c]]

Pick(c) ==
  \E n \in Candidates(c) :
    /\ curr' = [curr EXCEPT ![c] = n]
    /\ PrepareSwitch(n)
    /\ ContextSwitch(c, n)

(* Only schedule() itself takes the task off the queue: preempted, with     *)
(* PREEMPT_ACTIVE or in user mode, it stays there whatever its state.  A    *)
(* signal may be pending at any time                                        *)
Sleeps(t) == doing[t] \in {"sleep", "exit"} /\ state[t] # "RUNNING"

Leaves(c, t) ==
  \/ /\ Sleeps(t)
     /\ Deactivate(c, t)
     /\ on_rq' = [on_rq EXCEPT ![t] = FALSE]
     /\ UNCHANGED state
  \/ /\ Sleeps(t) /\ state[t] = "INTERRUPTIBLE"
     /\ state' = [state EXCEPT ![t] = "RUNNING"]
     /\ UNCHANGED <<rqs, on_rq>>
  \/ ~Sleeps(t) /\ UNCHANGED <<state, rqs, on_rq>>

Returns(t) ==
  doing' = IF doing[t] = "sleep" THEN [doing EXCEPT ![t] = "run"] ELSE doing

Schedule(c) ==
  LET t == curr[c]
  IN /\ c \in online /\ phase[c] = "run" /\ NoWakeup(c)
     /\ t = Stopper => ~Pending(c)
     /\ IF t \in Tasks THEN Leaves(c, t) /\ Returns(t)
        ELSE UNCHANGED <<state, rqs, on_rq, doing>>
     /\ IF nr_running'[c] = 0 /\ ~Pending(c) /\ t # Idle
        THEN /\ phase' = [phase EXCEPT ![c] = "balance"]
             /\ UNCHANGED <<curr, prev, on_cpu>>
        ELSE Pick(c)
     /\ UNCHANGED <<cpu, allowed, contributes, cond, remote, waker, stops,
                    masks>>

(* idle_balance gives the queue's lock back for a while                     *)
PickAfterBalance(c) ==
  /\ phase[c] = "balance"
  /\ UNCHANGED rqs
  /\ Pick(c)
  /\ UNCHANGED <<state, on_rq, cpu, allowed, contributes, user, remote, waker,
                 stops, masks>>

(* finish_task_switch, or schedule_tail in a task that never ran before;    *)
(* wakeups are by interrupts, which must be over                            *)
FinishSwitch(c) ==
  /\ phase[c] = "switch" /\ NoWakeup(c)
  /\ on_cpu' = [t \in Tasks |-> on_cpu[t] /\ t # prev[c]]
  /\ phase' = [phase EXCEPT ![c] = "run"]
  /\ prev' = [prev EXCEPT ![c] = Idle]
  /\ UNCHANGED <<state, on_rq, cpu, allowed, contributes, user, rqs, remote,
                 curr, waker, stops, masks>>

-----------------------------------------------------------------------------
(* try_to_wake_up, with interrupts off on the waking CPU                    *)

(* The condition of a task comes true, and it is woken                      *)
WakeBegin(c, t) ==
  /\ c \in online /\ NoWakeup(c) /\ state[t] # "NONE"
  /\ phase[c] = "run" \/ (Unlocked /\ phase[c] = "switch")
  /\ cond' = [cond EXCEPT ![t] = TRUE]
  /\ waker' = [waker EXCEPT ![c] = [NoWake EXCEPT !.pc = "lock", !.task = t]]
  /\ UNCHANGED <<tasks, doing, rqs, remote, cpus, stops, masks>>

WakeStep(c, p) == waker' = [waker EXCEPT ![c].pc = p]
WakeEnd(c) == waker' = [waker EXCEPT ![c] = NoWake]

WakeLock(c) ==
  LET t == waker[c].task
  IN /\ waker[c].pc = "lock" /\ PiFree(t)
     /\ IF state[t] \in Sleeping THEN WakeStep(c, "remote") ELSE WakeEnd(c)
     /\ UNCHANGED <<tasks, user, rqs, remote, cpus, stops, masks>>

(* ttwu_remote: a task still on its queue only becomes runnable again; one  *)
(* that its CPU is just leaving is not on the queue any more                *)
StillQueued_OrOnCpu(t) == on_rq[t] \/ on_cpu[t]
StillQueued(t) == on_rq[t]

WakeRemote(c) ==
  LET t == waker[c].task
  IN /\ waker[c].pc = "remote"
     /\ IF StillQueued(t)
        THEN /\ RqFree(cpu[t])
             /\ state' = [state EXCEPT ![t] = "RUNNING"]
             /\ WakeEnd(c)
        ELSE WakeStep(c, "spin") /\ UNCHANGED state
     /\ UNCHANGED <<on_rq, on_cpu, cpu, allowed, contributes, user, rqs, remote,
                    cpus, stops, masks>>

(* ttwu_activate_remote: its CPU has not finished switching away from it,   *)
(* and cannot while an interrupt there waits for it                         *)
ActivatesRemote(t) == Unlocked /\ RqFree(cpu[t])

WakeOnCpu(c) ==
  LET t == waker[c].task
  IN /\ waker[c].pc = "spin" /\ on_cpu[t] /\ ActivatesRemote(t)
     /\ Activate(cpu[t], {t})
     /\ on_rq' = [on_rq EXCEPT ![t] = TRUE]
     /\ state' = [state EXCEPT ![t] = "RUNNING"]
     /\ WakeEnd(c)
     /\ UNCHANGED <<on_cpu, cpu, allowed, contributes, user, remote, cpus,
                    stops, masks>>

(* select_fallback_rq: an allowed active CPU or, by the cpuset, any         *)
Fallbacks(t) == IF allowed[t] \cap active # {} THEN allowed[t] \cap active
                ELSE active

AllowedAfter(t) == IF allowed[t] \cap active # {} THEN allowed[t] ELSE Cpus

(* select_task_rq: the class's choice, if the task may run there            *)
SelectTaskRq(t, d) ==
  \/ d \in allowed[t] \cap online /\ UNCHANGED allowed
  \/ /\ Cpus \ (allowed[t] \cap online) # {}
     /\ d \in Fallbacks(t)
     /\ allowed' = [allowed EXCEPT ![t] = AllowedAfter(t)]

(* Nobody runs the task any more, as a wakeup must be sure of before it     *)
(* moves it                                                                 *)
OffCpu_Unchecked(t) == TRUE
OffCpu(t) == ~on_cpu[t]

WakeSelect(c) ==
  LET t == waker[c].task
  IN /\ waker[c].pc = "spin" /\ OffCpu(t)
     /\ contributes' = [contributes EXCEPT ![t] = Contributes(t)]
     /\ state' = [state EXCEPT ![t] = "WAKING"]
     /\ \E d \in Cpus :
          /\ SelectTaskRq(t, d)
          /\ cpu' = [cpu EXCEPT ![t] = d]
          /\ waker' = [waker EXCEPT ![c].pc = "queue", ![c].cpu = d]
     /\ UNCHANGED <<on_rq, on_cpu, user, rqs, remote, cpus, stops, masks>>

(* ttwu_do_activate of all the tasks of a set                               *)
Woken(T) == [t \in Tasks |-> IF t \in T THEN "RUNNING" ELSE state[t]]
Queued(T) == [t \in Tasks |-> on_rq[t] \/ t \in T]
NotWaking(T) == [t \in Tasks |-> contributes[t] /\ t \notin T]
LoadOfWoken_None(T) == 0
LoadOfWoken(T) == Cardinality({t \in T : contributes[t]})

DoActivate(c, T) ==
  /\ nr_uninterruptible' =
       [nr_uninterruptible EXCEPT ![c] = Wrapped(@ - LoadOfWoken(T))]
  /\ queue' = [queue EXCEPT ![c] = @ \cup T]
  /\ nr_running' = [nr_running EXCEPT ![c] = @ + Cardinality(T)]
  /\ state' = Woken(T) /\ on_rq' = Queued(T)
  /\ contributes' = NotWaking(T)

WakeQueue(c) ==
  LET t == waker[c].task
      d == waker[c].cpu
  IN /\ waker[c].pc = "queue" /\ d = c
     /\ DoActivate(d, {t})
     /\ WakeEnd(c)
     /\ UNCHANGED <<on_cpu, cpu, allowed, user, remote, cpus, stops, masks>>

(* ttwu_queue_remote: only the first on the list sends an interrupt         *)
SendsIpi(d) == wake_list[d] = {}

WakeQueueRemote(c) ==
  LET t == waker[c].task
      d == waker[c].cpu
  IN /\ waker[c].pc = "queue" /\ d # c
     /\ wake_list' = [wake_list EXCEPT ![d] = @ \cup {t}]
     /\ ipi' = [ipi EXCEPT ![d] = @ \/ SendsIpi(d)]
     /\ WakeEnd(c)
     /\ UNCHANGED <<tasks, user, rqs, cpus, stops, masks>>

(* scheduler_ipi                                                            *)
SchedulerIpi(c) ==
  /\ c \in online /\ ipi[c] /\ NoWakeup(c)
  /\ phase[c] = "run" \/ (Unlocked /\ phase[c] = "switch")
  /\ ipi' = [ipi EXCEPT ![c] = FALSE]
  /\ DoActivate(c, wake_list[c])
  /\ wake_list' = [wake_list EXCEPT ![c] = {}]
  /\ UNCHANGED <<on_cpu, cpu, allowed, user, cpus, waker, stops, masks>>

-----------------------------------------------------------------------------
(* New tasks                                                                *)

SchedFork(c, p, t) ==
  /\ Runs(c, p) /\ doing[p] = "run" /\ state[t] = "NONE"
  /\ doing' = [doing EXCEPT ![t] = "new"]
  /\ state' = [state EXCEPT ![t] = "RUNNING"]
  /\ cpu' = [cpu EXCEPT ![t] = c]
  /\ allowed' = [allowed EXCEPT ![t] = allowed[p]]
  /\ UNCHANGED <<on_rq, on_cpu, contributes, cond, rqs, remote, cpus, waker,
                 stops, masks>>

WakeUpNewTask(t) ==
  /\ doing[t] = "new" /\ PiFree(t)
  /\ doing' = [doing EXCEPT ![t] = "run"]
  /\ \E d \in Cpus :
       /\ SelectTaskRq(t, d)
       /\ RqFree(d)
       /\ cpu' = [cpu EXCEPT ![t] = d]
       /\ Activate(d, {t})
  /\ on_rq' = [on_rq EXCEPT ![t] = TRUE]
  /\ UNCHANGED <<state, on_cpu, contributes, cond, remote, cpus, waker, stops,
                 masks>>

-----------------------------------------------------------------------------
(* Tasks that move                                                          *)

(* set_cpus_allowed_ptr by a running task; the stopper of the task's CPU    *)
(* has to move it away if it is on the queue there                          *)
SetCpusAllowed(c, p, t) ==
  /\ Runs(c, p) /\ doing[p] = "run"
  /\ t \in Movable /\ state[t] \notin {"NONE", "DEAD"}
  /\ PiFree(t) /\ RqFree(cpu[t])
  /\ \E m \in Masks :
       /\ m # allowed[t] /\ m \cap active # {}
       /\ allowed' = [allowed EXCEPT ![t] = m]
       /\ IF cpu[t] \notin m /\ on_rq[t]
          THEN /\ Cardinality(stops) < MaxStops
               /\ \E d \in active \cap m :
                    stops' = stops \cup {[task |-> t, src |-> cpu[t], dest |-> d]}
          ELSE UNCHANGED stops
  /\ UNCHANGED <<state, on_rq, on_cpu, cpu, contributes, user, rqs, remote,
                 cpus, waker, masks>>

(* sched_exec moves the running task                                        *)
SchedExec(c, t) ==
  /\ Runs(c, t) /\ doing[t] = "run" /\ t \in Movable /\ PiFree(t)
  /\ Cardinality(stops) < MaxStops
  /\ \E d \in active \ {c} :
       stops' = stops \cup {[task |-> t, src |-> c, dest |-> d]}
  /\ UNCHANGED <<tasks, user, rqs, remote, cpus, waker, masks>>

(* __migrate_task                                                           *)
CanMigrate_Sleeper(t, c, d) ==
  d \in active /\ cpu[t] = c /\ d \in allowed[t]
CanMigrate(t, c, d) ==
  d \in active /\ cpu[t] = c /\ d \in allowed[t] /\ on_rq[t]

(* migration_cpu_stop in the stopper                                        *)
MigrationCpuStop(c) ==
  /\ curr[c] = Stopper /\ phase[c] = "run" /\ NoWakeup(c)
  /\ \E r \in stops :
       /\ r.src = c /\ PiFree(r.task) /\ RqFree(r.dest)
       /\ stops' = stops \ {r}
       /\ IF CanMigrate(r.task, c, r.dest) /\ r.dest # c
          THEN Move(r.task, c, r.dest)
          ELSE UNCHANGED <<rqs, cpu>>
  /\ UNCHANGED <<state, on_rq, on_cpu, allowed, contributes, user, remote,
                 cpus, waker, masks>>

(* The load balancer of a CPU pulls a task that no CPU runs                 *)
Pull(c, t) ==
  /\ c \in active /\ NoWakeup(c) /\ phase[c] \in {"run", "balance"}
  /\ on_rq[t] /\ cpu[t] # c /\ ~on_cpu[t] /\ c \in allowed[t]
  /\ RqFree(cpu[t])
  /\ Move(t, cpu[t], c)
  /\ UNCHANGED <<state, on_rq, on_cpu, allowed, contributes, user, remote,
                 cpus, waker, stops, masks>>

-----------------------------------------------------------------------------
(* CPU hotplug, one CPU at a time                                           *)

(* sched_cpu_inactive and sched_cpu_active                                  *)
CpuDownPrepare(c) ==
  /\ active = online /\ c \in active /\ c # BootCpu
  /\ active' = active \ {c}
  /\ UNCHANGED <<tasks, user, rqs, remote, cpus, waker, stops, online>>

CpuActive(c) ==
  /\ c \in online \ active
  /\ active' = active \cup {c}
  /\ UNCHANGED <<tasks, user, rqs, remote, cpus, waker, stops, online>>

(* The stoppers of all CPUs have preempted what they ran                    *)
Preemptible(c) ==
  /\ phase[c] = "run" /\ NoWakeup(c)
  /\ curr[c] \in Tasks => ~Sleeps(curr[c])

(* CPU_DYING: the tasks woken for the CPU are activated, migrate_tasks      *)
(* moves all of its queue and migrate_nr_uninterruptible its counter        *)
Pendings_Forgotten(c) == {}
Pendings(c) == wake_list[c]

CpuDying(c) ==
  LET P == Pendings(c)
      T == queue[c] \cup P
      Gone(d, f) == {t \in T : f[t] = d}
  IN /\ c \in online \ active
     /\ \A d \in online : Preemptible(d)
     /\ \E f \in [T -> active], e \in active :
          /\ \A t \in T : f[t] \in Fallbacks(t)
          /\ cpu' = [t \in Tasks |-> IF t \in T THEN f[t] ELSE cpu[t]]
          /\ queue' = [d \in Cpus |-> IF d = c THEN {}
                                      ELSE queue[d] \cup Gone(d, f)]
          /\ nr_running' = [d \in Cpus |-> IF d = c THEN 0
                              ELSE nr_running[d] + Cardinality(Gone(d, f))]
          /\ nr_uninterruptible' =
               [d \in Cpus |-> IF d = c THEN 0 ELSE
                  Wrapped(nr_uninterruptible[d]
                          - Load(Gone(d, f) \cap queue[c])
                          + (IF d = e THEN nr_uninterruptible[c]
                               + Load(queue[c]) - LoadOfWoken(P) ELSE 0))]
     /\ allowed' = [t \in Tasks |-> IF t \in T THEN AllowedAfter(t)
                                    ELSE allowed[t]]
     /\ state' = Woken(P) /\ on_rq' = Queued(P)
     /\ contributes' = NotWaking(P)
     /\ wake_list' = [wake_list EXCEPT ![c] = {}]
     /\ on_cpu' = [t \in Tasks |-> on_cpu[t] /\ t # curr[c]]
     /\ curr' = [curr EXCEPT ![c] = Idle]
     /\ stops' = {r \in stops : r.src # c}
     /\ online' = online \ {c}
     /\ UNCHANGED <<user, ipi, phase, prev, waker, active>>

CpuUp(c) ==
  /\ active = online /\ c \notin online
  /\ online' = online \cup {c}
  /\ UNCHANGED <<tasks, user, rqs, remote, cpus, waker, stops, active>>

-----------------------------------------------------------------------------

WakeContinue(c) ==
  \/ WakeLock(c) \/ WakeRemote(c) \/ WakeOnCpu(c) \/ WakeSelect(c)
  \/ WakeQueue(c) \/ WakeQueueRemote(c)

OwnCode(c, t) == SetState(c, t) \/ TestCond(c, t) \/ Exit(c, t) \/ SchedExec(c, t)

Next ==
  \/ \E c \in Cpus :
       \/ Schedule(c) \/ PickAfterBalance(c) \/ FinishSwitch(c)
       \/ WakeContinue(c) \/ SchedulerIpi(c) \/ MigrationCpuStop(c)
       \/ CpuDownPrepare(c) \/ CpuActive(c) \/ CpuDying(c) \/ CpuUp(c)
  \/ \E c \in Cpus, t \in Tasks :
       OwnCode(c, t) \/ WakeBegin(c, t) \/ Pull(c, t)
  \/ \E t \in Tasks : WakeUpNewTask(t)
  \/ \E c \in Cpus, p, t \in Tasks :
       SchedFork(c, p, t) \/ SetCpusAllowed(c, p, t)

Spec == Init /\ [][Next]_vars

-----------------------------------------------------------------------------
(* Properties                                                               *)

States == Sleeping \cup {"NONE", "RUNNING", "WAKING", "DEAD"}

(* The values of the variables.                                            *)
TypeOK ==
  /\ state \in [Tasks -> States]
  /\ {on_rq, on_cpu, contributes, cond} \subseteq [Tasks -> BOOLEAN]
  /\ cpu \in [Tasks -> Cpus] /\ allowed \in [Tasks -> SUBSET Cpus]
  /\ doing \in [Tasks -> {"new", "run", "wait", "sleep", "exit"}]
  /\ {queue, wake_list} \subseteq [Cpus -> SUBSET Tasks]
  /\ nr_running \in [Cpus -> 0 .. Cardinality(Tasks)]
  /\ nr_uninterruptible \in [Cpus -> 0 .. Wrap - 1]
  /\ ipi \in [Cpus -> BOOLEAN]
  /\ curr \in [Cpus -> Tasks \cup {Idle, Stopper}]
  /\ phase \in [Cpus -> {"run", "balance", "switch"}]
  /\ prev \in [Cpus -> Tasks \cup {Idle}]
  /\ waker \in [Cpus -> [pc : {"idle", "lock", "remote", "spin", "queue"},
                         task : Tasks \cup {Idle}, cpu : Cpus]]
  /\ stops \subseteq [task : Tasks, src : Cpus, dest : Cpus]
  /\ Cardinality(stops) <= MaxStops
  /\ active \subseteq online /\ online \subseteq Cpus

(* nr_running(): the run queues of the CPUs that are online                *)
NrRunning == MapThenSumSet(LAMBDA c : nr_running[c], online)

(* The count of runnable threads that nr_running() adds up over the online *)
(* CPUs, on which the hotplug and vbfs act, is that of the tasks that are  *)
(* on a queue, and each is on the queue of its own CPU: none is counted    *)
(* twice, and none is left behind on a CPU that went down.                 *)
CountExact ==
  /\ NrRunning = Cardinality({t \in Tasks : on_rq[t]})
  /\ \A t \in Tasks, c \in Cpus : t \in queue[c] <=> on_rq[t] /\ cpu[t] = c

(* The counters of uninterruptible sleepers are kept by whichever CPU wakes *)
(* the task; they wrap, and those of a CPU that went down move: but their   *)
(* sum is always, up to its own wrapping, the number of tasks asleep so, or *)
(* woken from it and not yet on a queue.                                    *)
Uninterruptible ==
  {t \in Tasks : ~on_rq[t] /\
     (Contributes(t) \/ (state[t] = "WAKING" /\ contributes[t]))}

UninterruptibleExact ==
  Wrapped(MapThenSumSet(LAMBDA c : nr_uninterruptible[c], Cpus)) =
    Wrapped(Cardinality(Uninterruptible))

(* A task does not stay off the queues when what it waits for has happened, *)
(* unless its wakeup is still under way: the test and the sleep of the one  *)
(* and the wakeup of the other do not miss each other.                      *)
NoLostWakeup ==
  \A t \in Tasks :
    cond[t] /\ ~on_rq[t] /\ doing[t] # "new" =>
      state[t] \in {"NONE", "WAKING", "DEAD"} \/ \E c \in Cpus : waker[c].task = t

(* A task that was woken is either still in the hands of its waker or on    *)
(* the list of its CPU, which is online and has yet to take the interrupt:  *)
(* it is not forgotten when others are woken for the same CPU, nor when     *)
(* that CPU goes down.                                                      *)
WakeupsPending ==
  \A t \in Tasks :
    state[t] = "WAKING" =>
      \/ \E c \in Cpus : waker[c].task = t /\ waker[c].pc = "queue"
      \/ t \in wake_list[cpu[t]] /\ cpu[t] \in online /\ ipi[cpu[t]]

-----------------------------------------------------------------------------
(* The scheduler implements the life of a task                              *)

Running(t) == \E c \in Cpus : curr[c] = t

LifeOf(t) ==
  CASE Running(t) -> "running"
    [] ~Running(t) /\ on_rq[t] -> "ready"
    [] doing[t] = "new" -> "new"
    [] ~on_rq[t] /\ ~Running(t) /\ state[t] \in Sleeping -> "asleep"
    [] state[t] = "NONE" -> "none"
    [] state[t] = "WAKING" -> "waking"
    [] ~on_rq[t] /\ ~Running(t) /\ state[t] = "DEAD" -> "dead"

Life == INSTANCE TaskLife WITH
  life <- [t \in Tasks |-> LifeOf(t)],
  runs <- [c \in Cpus |-> IF curr[c] = Stopper THEN Idle ELSE curr[c]],
  up <- online

(* Every step of the scheduler is one of a task's life or changes nothing   *)
(* of it: no task runs on two CPUs, none that sleeps, is on its way to      *)
(* another CPU or has died is ever picked, and none runs on a CPU that is   *)
(* down.                                                                    *)
LivesAsPromised == Life!Spec
=============================================================================
