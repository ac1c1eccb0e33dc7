---------------------------- MODULE SchedulerProofs ----------------------------
(***************************************************************************)
(* Proofs about Scheduler, for any number of tasks and CPUs: no task that  *)
(* is runnable or sleeps uninterruptibly is miscounted, no wakeup is lost, *)
(* and the scheduler implements TaskLife.                                  *)
(*                                                                         *)
(* The inductive invariant SchedInv is the conjunction of what the run     *)
(* queues, the CPUs, the tasks, the wakeups under way and the lists of     *)
(* woken tasks promise each other.                                         *)
(***************************************************************************)
EXTENDS Scheduler, FiniteSetTheorems, TLAPS

Doings == {"new", "run", "wait", "sleep", "exit"}
WakePcs == {"idle", "lock", "remote", "spin", "queue"}

Types ==
  /\ state \in [Tasks -> States]
  /\ on_rq \in [Tasks -> BOOLEAN] /\ on_cpu \in [Tasks -> BOOLEAN]
  /\ cpu \in [Tasks -> Cpus] /\ cond \in [Tasks -> BOOLEAN]
  /\ doing \in [Tasks -> Doings]
  /\ queue \in [Cpus -> SUBSET Tasks] /\ wake_list \in [Cpus -> SUBSET Tasks]
  /\ nr_running \in [Cpus -> Int]
  /\ ipi \in [Cpus -> BOOLEAN]
  /\ curr \in [Cpus -> Tasks \cup {Idle, Stopper}]
  /\ phase \in [Cpus -> {"run", "balance", "switch"}]
  /\ prev \in [Cpus -> Tasks \cup {Idle}]
  /\ waker \in [Cpus -> [pc : WakePcs, task : Tasks \cup {Idle}, cpu : Cpus]]
  /\ active \subseteq online /\ online \subseteq Cpus

(* The queues hold the tasks that are on_rq, each its own CPU's, and only  *)
(* CPUs that are online have any                                           *)
QueuesInv ==
  /\ \A t \in Tasks, c \in Cpus : t \in queue[c] <=> on_rq[t] /\ cpu[t] = c
  /\ \A c \in Cpus : nr_running[c] = Cardinality(queue[c])
  /\ \A c \in Cpus \ online : queue[c] = {}

(* What a CPU runs, or has not finished switching away from, belongs to it *)
CpusInv ==
  /\ \A t \in Tasks :
       on_cpu[t] <=> \E c \in Cpus : curr[c] = t \/ prev[c] = t
  /\ \A c \in Cpus :
       /\ curr[c] \in Tasks => cpu[curr[c]] = c
       /\ curr[c] \in Tasks /\ phase[c] # "balance" => on_rq[curr[c]]
       /\ phase[c] = "switch" => prev[c] \in Tasks
       /\ prev[c] \in Tasks => cpu[prev[c]] = c /\ prev[c] # curr[c]
                               /\ phase[c] = "switch"
       /\ c \notin online => curr[c] = Idle /\ phase[c] = "run"

(* What a task's state says about where it is                               *)
StatesInv ==
  \A t \in Tasks :
    /\ state[t] = "RUNNING" => on_rq[t] \/ doing[t] = "new"
    /\ doing[t] = "new" => state[t] = "RUNNING" /\ ~on_rq[t] /\ ~on_cpu[t]
    /\ state[t] = "NONE" => ~on_rq[t] /\ ~on_cpu[t]
    /\ state[t] = "WAKING" => ~on_rq[t] /\ ~on_cpu[t]
    /\ doing[t] = "exit" <=> state[t] = "DEAD"

(* A wakeup past the lock holds pi_lock: it is the only one of its task     *)
Holds(c, t) == waker[c].task = t /\ waker[c].pc \in {"remote", "spin", "queue"}

WakersInv ==
  \A c \in Cpus :
    /\ waker[c].pc = "idle" <=> waker[c].task = Idle
    /\ waker[c].pc # "idle" => c \in online
    /\ \A t \in Tasks :
         Holds(c, t) =>
           /\ \A d \in Cpus : Holds(d, t) => d = c
           /\ waker[c].pc = "remote" => state[t] \in Sleeping \cup {"RUNNING"}
                                        /\ doing[t] # "new"
           /\ waker[c].pc = "spin" => state[t] \in Sleeping /\ ~on_rq[t]
           /\ waker[c].pc = "queue" => state[t] = "WAKING"
                /\ cpu[t] = waker[c].cpu /\ waker[c].cpu \in online

(* A task on a list is waking, for that CPU, which will be interrupted      *)
WakeListInv ==
  /\ \A c \in Cpus : \A t \in wake_list[c] :
       /\ state[t] = "WAKING" /\ cpu[t] = c
       /\ ipi[c] /\ c \in online
       /\ \A d \in Cpus : ~Holds(d, t)
  /\ WakeupsPending

(* What happened after a task looked is known to a waker                    *)
CondInv ==
  \A t \in Tasks :
    cond[t] /\ state[t] \in Sleeping /\ (~on_rq[t] \/ doing[t] = "sleep")
      => \E c \in Cpus : waker[c].task = t

SchedInv == Types /\ QueuesInv /\ CpusInv /\ StatesInv /\ WakersInv
            /\ WakeListInv /\ CondInv

-----------------------------------------------------------------------------
(* What leaves each part of the invariant alone                             *)

core == <<state, on_rq, on_cpu, cpu, user, queue, nr_running, remote, cpus,
          waker, online>>

LEMMA CoreKept ==
  ASSUME SchedInv, UNCHANGED core, active' \subseteq online
  PROVE  SchedInv'
<1>1. Types'
  BY DEF SchedInv, Types, core, user, remote, cpus
<1>2. QueuesInv' /\ CpusInv' /\ StatesInv'
  BY DEF SchedInv, QueuesInv, CpusInv, StatesInv, core, cpus, user
<1>3. WakersInv'
  BY DEF SchedInv, WakersInv, Holds, core, user
<1>4. WakeListInv'
  BY DEF SchedInv, WakeListInv, WakeupsPending, Holds, core, remote
<1>5. CondInv'
  BY DEF SchedInv, CondInv, core, user
<1>. QED
  BY <1>1, <1>2, <1>3, <1>4, <1>5 DEF SchedInv

(* The lists do not change, nor do the tasks that are waking and their      *)
(* wakers                                                                   *)
LEMMA WakeListKept ==
  ASSUME SchedInv, UNCHANGED <<wake_list, ipi, online>>,
         \A u \in Tasks : state[u] = "WAKING" \/ state'[u] = "WAKING"
           => /\ state'[u] = state[u] /\ cpu'[u] = cpu[u]
              /\ \A d \in Cpus : Holds(d, u)' <=> Holds(d, u)
              /\ \A d \in Cpus :
                   waker[d].task = u /\ waker[d].pc = "queue"
                     => waker'[d].task = u /\ waker'[d].pc = "queue"
  PROVE  WakeListInv'
<1>1. ASSUME NEW c \in Cpus, NEW u \in wake_list'[c]
      PROVE  /\ state'[u] = "WAKING" /\ cpu'[u] = c
             /\ ipi'[c] /\ c \in online'
             /\ \A d \in Cpus : ~Holds(d, u)'
  <2>1. u \in Tasks /\ u \in wake_list[c]
    BY <1>1 DEF SchedInv, Types
  <2>2. /\ state[u] = "WAKING" /\ cpu[u] = c /\ ipi[c] /\ c \in online
        /\ \A d \in Cpus : ~Holds(d, u)
    BY <2>1 DEF SchedInv, WakeListInv
  <2>. QED
    BY <2>1, <2>2
<1>2. ASSUME NEW u \in Tasks, state'[u] = "WAKING"
      PROVE  \/ \E d \in Cpus : waker'[d].task = u /\ waker'[d].pc = "queue"
             \/ u \in wake_list'[cpu'[u]] /\ cpu'[u] \in online' /\ ipi'[cpu'[u]]
  BY <1>2 DEF SchedInv, WakeListInv, WakeupsPending
<1>. QED
  BY <1>1, <1>2 DEF WakeListInv, WakeupsPending

(* A task that a CPU runs, outside schedule()                               *)
LEMMA RunningTask ==
  ASSUME SchedInv, NEW c \in Cpus, curr[c] \in Tasks
  PROVE  /\ on_cpu[curr[c]] /\ cpu[curr[c]] = c /\ c \in online
         /\ state[curr[c]] \notin {"NONE", "WAKING"}
         /\ doing[curr[c]] # "new"
         /\ phase[c] # "balance" => on_rq[curr[c]] /\ curr[c] \in queue[c]
         /\ \A d \in Cpus : curr[d] = curr[c] => d = c
<1>1. Idle \notin Tasks
  BY TasksAssumption
<1>2. on_cpu[curr[c]] /\ cpu[curr[c]] = c /\ c \in online
  BY <1>1 DEF SchedInv, CpusInv
<1>3. phase[c] # "balance" => on_rq[curr[c]] /\ curr[c] \in queue[c]
  BY <1>2 DEF SchedInv, CpusInv, QueuesInv
<1>4. \A d \in Cpus : curr[d] = curr[c] => d = c
  BY <1>2 DEF SchedInv, CpusInv
<1>. QED
  BY <1>2, <1>3, <1>4 DEF SchedInv, StatesInv

-----------------------------------------------------------------------------
(* A task's own code                                                        *)

LEMMA OwnCodeKeeps ==
  ASSUME SchedInv, NEW c \in Cpus, NEW t \in Tasks,
         SetState(c, t) \/ TestCond(c, t) \/ Exit(c, t)
  PROVE  SchedInv'
<1>1. /\ on_rq[t] /\ on_cpu[t] /\ curr[c] = t /\ state[t] \notin {"NONE", "WAKING"}
      /\ doing[t] \in {"run", "wait"} /\ state[t] # "DEAD"
  <2>1. curr[c] = t /\ phase[c] = "run" /\ doing[t] \in {"run", "wait"}
    BY DEF SetState, TestCond, Exit, Runs
  <2>. QED
    BY <2>1, RunningTask DEF SchedInv, StatesInv
<1>2. /\ UNCHANGED <<on_rq, on_cpu, cpu, rqs, remote, cpus, waker, stops, masks>>
      /\ cond' = cond \/ cond' = [cond EXCEPT ![t] = FALSE]
  BY DEF SetState, TestCond, Exit
<1>3. \E s \in Sleeping \cup {"RUNNING", "DEAD"}, d \in {"run", "wait", "sleep", "exit"} :
        /\ state' = [state EXCEPT ![t] = s] /\ doing' = [doing EXCEPT ![t] = d]
        /\ d = "exit" <=> s = "DEAD"
        /\ s = "DEAD" => \A e \in Cpus : waker[e].task # t
        /\ d = "sleep" => ~cond[t]
  <2>1. CASE SetState(c, t)
    <3>1. WaitState[t] \in Sleeping
      BY ChoicesAssumption DEF Sleeping
    <3>. QED
      BY <2>1, <3>1 DEF SetState, Sleeping
  <2>2. CASE TestCond(c, t)
    <3>1. CASE cond[t]
      BY <2>2, <3>1 DEF TestCond
    <3>2. CASE ~cond[t]
      <4>1. state' = [state EXCEPT ![t] = state[t]]
        BY <2>2, <3>2 DEF TestCond, SchedInv, Types
      <4>2. state[t] \in Sleeping \cup {"RUNNING"}
        BY <1>1 DEF SchedInv, Types, States
      <4>. QED
        BY <2>2, <3>2, <4>1, <4>2 DEF TestCond, Sleeping
    <3>. QED
      BY <3>1, <3>2
  <2>3. CASE Exit(c, t)
    BY <2>3 DEF Exit
  <2>. QED
    BY <2>1, <2>2, <2>3
<1>4. PICK s \in Sleeping \cup {"RUNNING", "DEAD"}, d \in {"run", "wait", "sleep", "exit"} :
        /\ state' = [state EXCEPT ![t] = s] /\ doing' = [doing EXCEPT ![t] = d]
        /\ d = "exit" <=> s = "DEAD"
        /\ s = "DEAD" => \A e \in Cpus : waker[e].task # t
        /\ d = "sleep" => ~cond[t]
  BY <1>3
<1>5. /\ state'[t] = s /\ doing'[t] = d
      /\ \A u \in Tasks : u # t => state'[u] = state[u] /\ doing'[u] = doing[u]
                                    /\ cond'[u] = cond[u]
      /\ cond'[t] => cond[t]
  BY <1>2, <1>4 DEF SchedInv, Types
<1>6. s \notin {"NONE", "WAKING"}
  BY DEF Sleeping
<1>7. Types'
  BY <1>2, <1>4 DEF SchedInv, Types, States, Doings, rqs, remote, cpus, masks
<1>8. QueuesInv' /\ CpusInv'
  BY <1>2 DEF SchedInv, QueuesInv, CpusInv, rqs, cpus, masks
<1>9. StatesInv'
  BY <1>1, <1>2, <1>4, <1>5, <1>6 DEF SchedInv, StatesInv
<1>10. WakersInv'
  <2>1. \A e \in Cpus : Holds(e, t) => waker[e].pc = "remote"
    BY <1>1 DEF SchedInv, WakersInv, Holds
  <2>2. \A e \in Cpus : Holds(e, t) => s \in Sleeping \cup {"RUNNING"} /\ d # "new"
    BY <1>4 DEF Holds
  <2>. QED
    BY <1>2, <1>5, <2>1, <2>2 DEF SchedInv, WakersInv, Holds, masks
<1>11. WakeListInv'
  <2>1. \A u \in Tasks : state[u] = "WAKING" \/ state'[u] = "WAKING" => u # t
    BY <1>1, <1>5, <1>6
  <2>. QED
    BY <1>2, <1>5, <2>1, WakeListKept DEF Holds, remote, masks
<1>12. CondInv'
  <2>1. \A u \in Tasks :
          cond'[u] /\ state'[u] \in Sleeping /\ (~on_rq'[u] \/ doing'[u] = "sleep")
            => \E e \in Cpus : waker'[e].task = u
    <3>1. SUFFICES ASSUME NEW u \in Tasks, cond'[u], state'[u] \in Sleeping,
                          ~on_rq'[u] \/ doing'[u] = "sleep"
                   PROVE  \E e \in Cpus : waker'[e].task = u
      OBVIOUS
    <3>2. u # t
      BY <1>1, <1>2, <1>4, <1>5, <3>1
    <3>. QED
      BY <1>2, <1>5, <3>1, <3>2 DEF SchedInv, CondInv
  <2>. QED
    BY <2>1 DEF CondInv
<1>. QED
  BY <1>7, <1>8, <1>9, <1>10, <1>11, <1>12 DEF SchedInv

-----------------------------------------------------------------------------
(* __schedule: the running task leaves its queue or not ...                 *)

LEMMA QueueFinite ==
  ASSUME SchedInv, NEW c \in Cpus
  PROVE  IsFiniteSet(queue[c]) /\ queue[c] \subseteq Tasks
BY TasksAssumption, FS_Subset DEF SchedInv, Types

(* A task leaves the queue of its CPU                                       *)
LEMMA DeactivateQueues ==
  ASSUME SchedInv, NEW c \in Cpus, NEW t \in queue[c], Deactivate(c, t),
         on_rq' = [on_rq EXCEPT ![t] = FALSE], UNCHANGED <<cpu, online>>
  PROVE  /\ QueuesInv' /\ queue' \in [Cpus -> SUBSET Tasks]
         /\ nr_running' \in [Cpus -> Int]
<1>1. /\ queue' = [queue EXCEPT ![c] = @ \ {t}]
      /\ nr_running' = [nr_running EXCEPT ![c] = @ - 1]
  BY DEF Deactivate
<1>2. t \in Tasks /\ on_rq[t] /\ cpu[t] = c
  BY QueueFinite DEF SchedInv, QueuesInv
<1>3. ASSUME NEW u \in Tasks, NEW d \in Cpus
      PROVE  u \in queue'[d] <=> on_rq'[u] /\ cpu'[u] = d
  <2>1. u \in queue[d] <=> on_rq[u] /\ cpu[u] = d
    BY DEF SchedInv, QueuesInv
  <2>. QED
    BY <1>1, <1>2, <2>1 DEF SchedInv, Types
<1>4. ASSUME NEW d \in Cpus PROVE nr_running'[d] = Cardinality(queue'[d])
  <2>1. Cardinality(queue[c] \ {t}) = Cardinality(queue[c]) - 1
    BY QueueFinite, FS_RemoveElement
  <2>2. nr_running[d] = Cardinality(queue[d]) /\ nr_running[c] = Cardinality(queue[c])
    BY DEF SchedInv, QueuesInv
  <2>. QED
    BY <1>1, <2>1, <2>2 DEF SchedInv, Types
<1>5. \A d \in Cpus \ online' : queue'[d] = {}
  BY <1>1 DEF SchedInv, QueuesInv, Types
<1>6. queue' \in [Cpus -> SUBSET Tasks] /\ nr_running' \in [Cpus -> Int]
  BY <1>1 DEF SchedInv, Types
<1>. QED
  BY <1>3, <1>4, <1>5, <1>6 DEF QueuesInv

(* What the CPU's task may have become on the way, and no other             *)
Left(c) ==
  /\ \A u \in Tasks : u # curr[c] => /\ state'[u] = state[u]
                                     /\ on_rq'[u] = on_rq[u]
                                     /\ doing'[u] = doing[u]
  /\ curr[c] \in Tasks =>
       LET t == curr[c]
       IN  /\ ~on_rq'[t] => state'[t] = state[t] /\ state[t] # "RUNNING"
           /\ state'[t] = state[t]
              \/ (state'[t] = "RUNNING" /\ state[t] \in Sleeping)
           /\ doing'[t] = IF doing[t] = "sleep" THEN "run" ELSE doing[t]
           /\ on_rq'[t] => on_rq[t]
           /\ ~on_rq'[t] => doing[t] \in {"sleep", "exit"}

LEMMA LeavesQueues ==
  ASSUME SchedInv, NEW c \in Cpus, phase[c] = "run", c \in online,
         IF curr[c] \in Tasks THEN Leaves(c, curr[c]) /\ Returns(curr[c])
         ELSE UNCHANGED <<state, rqs, on_rq, doing>>,
         UNCHANGED <<cpu, online>>
  PROVE  /\ QueuesInv' /\ queue' \in [Cpus -> SUBSET Tasks]
         /\ nr_running' \in [Cpus -> Int]
         /\ state' \in [Tasks -> States] /\ on_rq' \in [Tasks -> BOOLEAN]
         /\ doing' \in [Tasks -> Doings]
         /\ Left(c)
<1>1. CASE curr[c] \notin Tasks
  <2>1. UNCHANGED <<state, on_rq, doing, queue, nr_running>>
    BY <1>1 DEF rqs
  <2>. QED
    BY <1>1, <2>1 DEF Left, SchedInv, QueuesInv, Types
<1>2. CASE curr[c] \in Tasks
  <2>. DEFINE t == curr[c]
  <2>1. t \in queue[c] /\ on_rq[t] /\ t \in Tasks
    BY <1>2, RunningTask
  <2>2. Leaves(c, t) /\ Returns(t)
    BY <1>2
  <2>3. doing' \in [Tasks -> Doings]
        /\ (\A u \in Tasks : u # t => doing'[u] = doing[u])
        /\ doing'[t] = IF doing[t] = "sleep" THEN "run" ELSE doing[t]
    BY <2>1, <2>2 DEF Returns, SchedInv, Types, Doings
  <2>4. CASE Sleeps(t) /\ Deactivate(c, t) /\ UNCHANGED state
             /\ on_rq' = [on_rq EXCEPT ![t] = FALSE]
    <3>1. /\ QueuesInv' /\ queue' \in [Cpus -> SUBSET Tasks]
          /\ nr_running' \in [Cpus -> Int]
      BY <2>1, <2>4, DeactivateQueues
    <3>2. /\ state' \in [Tasks -> States] /\ on_rq' \in [Tasks -> BOOLEAN]
          /\ \A u \in Tasks : state'[u] = state[u] /\ (u # t => on_rq'[u] = on_rq[u])
      BY <2>4 DEF SchedInv, Types
    <3>. QED
      BY <2>1, <2>3, <2>4, <3>1, <3>2 DEF Left, Sleeps
  <2>5. CASE UNCHANGED <<rqs, on_rq>>
             /\ (UNCHANGED state \/ (state[t] = "INTERRUPTIBLE"
                                    /\ state' = [state EXCEPT ![t] = "RUNNING"]))
    <3>1. UNCHANGED <<queue, nr_running, on_rq>>
      BY <2>5 DEF rqs
    <3>2. /\ QueuesInv' /\ queue' \in [Cpus -> SUBSET Tasks]
          /\ nr_running' \in [Cpus -> Int] /\ on_rq' \in [Tasks -> BOOLEAN]
      BY <3>1 DEF SchedInv, QueuesInv, Types
    <3>3. /\ state' \in [Tasks -> States]
          /\ \A u \in Tasks : u # t => state'[u] = state[u]
          /\ state'[t] = state[t]
              \/ (state'[t] = "RUNNING" /\ state[t] \in Sleeping)
      BY <2>1, <2>5 DEF SchedInv, Types, States, Sleeping
    <3>. QED
      BY <2>1, <2>3, <3>1, <3>2, <3>3 DEF Left
  <2>. QED
    BY <2>2, <2>4, <2>5 DEF Leaves
<1>. QED
  BY <1>1, <1>2

(* ... and the CPU picks the next one                                       *)
Switched(c, n) ==
  /\ n \in Tasks => n \in queue'[c]
  /\ curr' = [curr EXCEPT ![c] = n]
  /\ on_cpu' = [t \in Tasks |-> on_cpu[t] \/ t = n]
  /\ IF n = curr[c] \/ curr[c] \notin Tasks
     THEN phase' = [phase EXCEPT ![c] = "run"] /\ UNCHANGED prev
     ELSE /\ phase' = [phase EXCEPT ![c] = "switch"]
          /\ prev' = [prev EXCEPT ![c] = curr[c]]

LEMMA PickSwitches ==
  ASSUME NEW c \in Cpus, queue' \in [Cpus -> SUBSET Tasks], Pick(c)
  PROVE  \E n \in Tasks \cup {Idle, Stopper} : Switched(c, n)
<1>1. PICK n \in Candidates(c) :
        /\ curr' = [curr EXCEPT ![c] = n]
        /\ PrepareSwitch(n)
        /\ ContextSwitch(c, n)
  BY DEF Pick
<1>2. n \in Tasks \cup {Idle, Stopper} /\ (n \in Tasks => n \in queue'[c])
  BY TasksAssumption DEF Candidates
<1>3. Switched(c, n)
  BY <1>1, <1>2 DEF Switched, PrepareSwitch, ContextSwitch
<1>. QED
  BY <1>2, <1>3

LEMMA SwitchCpus ==
  ASSUME SchedInv, QueuesInv', NEW c \in Cpus, c \in online,
         phase[c] \in {"run", "balance"}, UNCHANGED <<cpu, online>>,
         \A u \in Tasks : u # curr[c] => on_rq'[u] = on_rq[u],
         NEW n \in Tasks \cup {Idle, Stopper}, Switched(c, n)
  PROVE  /\ CpusInv' /\ on_cpu' \in [Tasks -> BOOLEAN]
         /\ curr' \in [Cpus -> Tasks \cup {Idle, Stopper}]
         /\ phase' \in [Cpus -> {"run", "balance", "switch"}]
         /\ prev' \in [Cpus -> Tasks \cup {Idle}]
<1>1. /\ curr'[c] = n /\ \A d \in Cpus : d # c => curr'[d] = curr[d]
                            /\ phase'[d] = phase[d] /\ prev'[d] = prev[d]
      /\ \A u \in Tasks : on_cpu'[u] <=> on_cpu[u] \/ u = n
      /\ on_cpu' \in [Tasks -> BOOLEAN]
      /\ curr' \in [Cpus -> Tasks \cup {Idle, Stopper}]
      /\ phase' \in [Cpus -> {"run", "balance", "switch"}]
      /\ prev' \in [Cpus -> Tasks \cup {Idle}]
  BY DEF Switched, SchedInv, Types
<1>2. prev[c] = Idle
  BY DEF SchedInv, CpusInv, Types
<1>3. n \in Tasks => on_rq'[n] /\ cpu'[n] = c
  BY DEF Switched, QueuesInv
<1>4. Idle \notin Tasks /\ Stopper \notin Tasks
  BY TasksAssumption
<1>5. \/ /\ n = curr[c] \/ curr[c] \notin Tasks
         /\ phase'[c] = "run" /\ prev'[c] = Idle
      \/ /\ n # curr[c] /\ curr[c] \in Tasks
         /\ phase'[c] = "switch" /\ prev'[c] = curr[c]
  BY <1>2 DEF Switched, SchedInv, Types
<1>6. ASSUME NEW u \in Tasks
      PROVE  on_cpu'[u] <=> \E d \in Cpus : curr'[d] = u \/ prev'[d] = u
  <2>1. on_cpu[u] <=> \E d \in Cpus : curr[d] = u \/ prev[d] = u
    BY DEF SchedInv, CpusInv
  <2>2. CASE u = n
    BY <1>1, <2>2
  <2>3. CASE u = curr[c] /\ u # n
    BY <1>1, <1>5, <2>1, <2>3
  <2>4. CASE u # curr[c] /\ u # n
    BY <1>1, <1>2, <1>4, <1>5, <2>1, <2>4
  <2>. QED
    BY <2>2, <2>3, <2>4
<1>7. ASSUME NEW d \in Cpus
      PROVE  /\ curr'[d] \in Tasks => cpu'[curr'[d]] = d
             /\ curr'[d] \in Tasks /\ phase'[d] # "balance" => on_rq'[curr'[d]]
             /\ phase'[d] = "switch" => prev'[d] \in Tasks
             /\ prev'[d] \in Tasks => cpu'[prev'[d]] = d /\ prev'[d] # curr'[d]
                                     /\ phase'[d] = "switch"
             /\ d \notin online' => curr'[d] = Idle /\ phase'[d] = "run"
  <2>1. CASE d = c
    <3>1. curr[c] \in Tasks => cpu[curr[c]] = c
      BY DEF SchedInv, CpusInv
    <3>. QED
      BY <1>1, <1>3, <1>4, <1>5, <2>1, <3>1
  <2>2. CASE d # c
    <3>1. curr[d] \in Tasks => curr[d] # curr[c]
      BY <2>2, RunningTask
    <3>. QED
      BY <1>1, <2>2, <3>1 DEF SchedInv, CpusInv
  <2>. QED
    BY <2>1, <2>2
<1>. QED
  BY <1>1, <1>6, <1>7 DEF CpusInv

(* What schedule() did to its task keeps what the others rely on            *)
LEMMA LeftKeeps ==
  ASSUME SchedInv, NEW c \in Cpus, c \in online, phase[c] = "run" \/ UNCHANGED on_rq,
         Left(c), QueuesInv',
         UNCHANGED <<cpu, cond, remote, waker, online>>,
         \A u \in Tasks : on_cpu'[u] => on_cpu[u] \/ on_rq'[u]
  PROVE  StatesInv' /\ WakersInv' /\ WakeListInv' /\ CondInv'
<1>1. curr[c] \in Tasks => state[curr[c]] \notin {"NONE", "WAKING"}
                           /\ doing[curr[c]] # "new" /\ on_cpu[curr[c]]
  BY RunningTask
<1>2. curr[c] \in Tasks => on_rq[curr[c]] \/ UNCHANGED on_rq
  BY RunningTask
<1>3. ASSUME NEW u \in Tasks, u # curr[c]
      PROVE  state'[u] = state[u] /\ on_rq'[u] = on_rq[u] /\ doing'[u] = doing[u]
  BY <1>3 DEF Left
<1>4. ASSUME curr[c] \in Tasks
      PROVE  LET t == curr[c]
             IN  /\ ~on_rq'[t] => state'[t] = state[t] /\ state[t] # "RUNNING"
                 /\ state'[t] = state[t]
                    \/ (state'[t] = "RUNNING" /\ state[t] \in Sleeping)
                 /\ doing'[t] = IF doing[t] = "sleep" THEN "run" ELSE doing[t]
                 /\ on_rq'[t] => on_rq[t]
                 /\ ~on_rq'[t] => doing[t] \in {"sleep", "exit"}
  BY <1>4 DEF Left
<1>5. StatesInv'
  <2>1. ASSUME NEW u \in Tasks
        PROVE  /\ state'[u] = "RUNNING" => on_rq'[u] \/ doing'[u] = "new"
               /\ doing'[u] = "new" => state'[u] = "RUNNING" /\ ~on_rq'[u] /\ ~on_cpu'[u]
               /\ state'[u] = "NONE" => ~on_rq'[u] /\ ~on_cpu'[u]
               /\ state'[u] = "WAKING" => ~on_rq'[u] /\ ~on_cpu'[u]
               /\ doing'[u] = "exit" <=> state'[u] = "DEAD"
    <3>1. CASE u = curr[c]
      BY <1>1, <1>4, <3>1 DEF SchedInv, StatesInv, Sleeping
    <3>2. CASE u # curr[c]
      BY <1>3, <3>2 DEF SchedInv, StatesInv
    <3>. QED
      BY <3>1, <3>2
  <2>. QED
    BY <2>1 DEF StatesInv
<1>6. WakersInv'
  <2>1. ASSUME NEW d \in Cpus, NEW u \in Tasks, Holds(d, u)
        PROVE  /\ waker[d].pc = "remote" => state'[u] \in Sleeping \cup {"RUNNING"}
                                             /\ doing'[u] # "new"
               /\ waker[d].pc = "spin" => state'[u] \in Sleeping /\ ~on_rq'[u]
               /\ waker[d].pc = "queue" => state'[u] = "WAKING"
                    /\ cpu[u] = waker[d].cpu /\ waker[d].cpu \in online
    <3>0. /\ waker[d].pc = "remote" => state[u] \in Sleeping \cup {"RUNNING"}
                                             /\ doing[u] # "new"
          /\ waker[d].pc = "spin" => state[u] \in Sleeping /\ ~on_rq[u]
          /\ waker[d].pc = "queue" => state[u] = "WAKING"
               /\ cpu[u] = waker[d].cpu /\ waker[d].cpu \in online
      BY <2>1 DEF SchedInv, WakersInv
    <3>1. CASE u = curr[c]
      BY <1>1, <1>2, <1>4, <3>0, <3>1
    <3>2. CASE u # curr[c]
      BY <1>3, <3>0, <3>2
    <3>. QED
      BY <3>1, <3>2
  <2>. QED
    BY <2>1 DEF SchedInv, WakersInv, Holds
<1>7. WakeListInv'
  <2>1. \A u \in Tasks : state[u] = "WAKING" \/ state'[u] = "WAKING"
                        => state'[u] = state[u]
    BY <1>1, <1>3, <1>4
  <2>. QED
    BY <2>1, WakeListKept DEF Holds, remote
<1>8. CondInv'
  <2>1. ASSUME NEW u \in Tasks, cond'[u], state'[u] \in Sleeping,
               ~on_rq'[u] \/ doing'[u] = "sleep"
        PROVE  state[u] \in Sleeping /\ (~on_rq[u] \/ doing[u] = "sleep")
    <3>1. CASE u = curr[c]
      BY <1>4, <2>1, <3>1 DEF SchedInv, StatesInv, Sleeping
    <3>2. CASE u # curr[c]
      BY <1>3, <2>1, <3>2
    <3>. QED
      BY <3>1, <3>2
  <2>. QED
    BY <2>1 DEF SchedInv, CondInv
<1>. QED
  BY <1>5, <1>6, <1>7, <1>8

LEMMA ScheduleKeeps ==
  ASSUME SchedInv, NEW c \in Cpus, Schedule(c)
  PROVE  SchedInv'
<1>1. /\ c \in online /\ phase[c] = "run"
      /\ UNCHANGED <<cpu, cond, remote, waker, masks>>
      /\ IF curr[c] \in Tasks THEN Leaves(c, curr[c]) /\ Returns(curr[c])
         ELSE UNCHANGED <<state, rqs, on_rq, doing>>
  BY DEF Schedule
<1>2. online' = online /\ active' = active
  BY <1>1 DEF masks
<1>3. /\ QueuesInv' /\ queue' \in [Cpus -> SUBSET Tasks]
      /\ nr_running' \in [Cpus -> Int]
      /\ state' \in [Tasks -> States] /\ on_rq' \in [Tasks -> BOOLEAN]
      /\ doing' \in [Tasks -> Doings]
      /\ Left(c)
  BY <1>1, <1>2, LeavesQueues
<1>4. \A u \in Tasks : u # curr[c] => on_rq'[u] = on_rq[u]
  BY <1>3 DEF Left
<1>5. /\ CpusInv' /\ on_cpu' \in [Tasks -> BOOLEAN]
      /\ curr' \in [Cpus -> Tasks \cup {Idle, Stopper}]
      /\ phase' \in [Cpus -> {"run", "balance", "switch"}]
      /\ prev' \in [Cpus -> Tasks \cup {Idle}]
      /\ \A u \in Tasks : on_cpu'[u] => on_cpu[u] \/ on_rq'[u]
  <2>1. CASE phase' = [phase EXCEPT ![c] = "balance"]
             /\ UNCHANGED <<curr, prev, on_cpu>>
    <3>1. /\ phase'[c] = "balance" /\ \A d \in Cpus : d # c => phase'[d] = phase[d]
          /\ phase' \in [Cpus -> {"run", "balance", "switch"}]
      BY <2>1 DEF SchedInv, Types
    <3>2. ASSUME NEW d \in Cpus, d # c, curr[d] \in Tasks
          PROVE  on_rq'[curr[d]] = on_rq[curr[d]]
      BY <1>4, <3>2, RunningTask
    <3>3. prev[c] \notin Tasks
      BY <1>1 DEF SchedInv, CpusInv
    <3>4. CpusInv'
      BY <1>1, <1>2, <2>1, <3>1, <3>2, <3>3 DEF SchedInv, CpusInv
    <3>. QED
      BY <2>1, <3>1, <3>4 DEF SchedInv, Types
  <2>2. CASE Pick(c)
    <3>1. PICK n \in Tasks \cup {Idle, Stopper} : Switched(c, n)
      BY <1>3, <2>2, PickSwitches
    <3>2. \A u \in Tasks : on_cpu'[u] => on_cpu[u] \/ u = n
      BY <3>1 DEF Switched
    <3>3. n \in Tasks => on_rq'[n]
      BY <1>3, <3>1 DEF Switched, QueuesInv
    <3>. QED
      BY <1>1, <1>2, <1>3, <1>4, <3>1, <3>2, <3>3, SwitchCpus
  <2>. QED
    BY <2>1, <2>2 DEF Schedule
<1>6. StatesInv' /\ WakersInv' /\ WakeListInv' /\ CondInv'
  BY <1>1, <1>2, <1>3, <1>5, LeftKeeps
<1>7. Types'
  BY <1>1, <1>2, <1>3, <1>5 DEF SchedInv, Types, remote
<1>. QED
  BY <1>3, <1>5, <1>6, <1>7 DEF SchedInv

LEMMA PickAfterBalanceKeeps ==
  ASSUME SchedInv, NEW c \in Cpus, PickAfterBalance(c)
  PROVE  SchedInv'
<1>1. /\ phase[c] = "balance" /\ Pick(c)
      /\ UNCHANGED <<state, on_rq, cpu, doing, cond, queue, nr_running, wake_list,
                     ipi, waker, online, active>>
  BY DEF PickAfterBalance, rqs, user, remote, masks
<1>2. QueuesInv' /\ queue' \in [Cpus -> SUBSET Tasks] /\ c \in online
  BY <1>1 DEF SchedInv, QueuesInv, CpusInv, Types
<1>3. PICK n \in Tasks \cup {Idle, Stopper} : Switched(c, n)
  BY <1>1, <1>2, PickSwitches
<1>4. /\ CpusInv' /\ on_cpu' \in [Tasks -> BOOLEAN]
      /\ curr' \in [Cpus -> Tasks \cup {Idle, Stopper}]
      /\ phase' \in [Cpus -> {"run", "balance", "switch"}]
      /\ prev' \in [Cpus -> Tasks \cup {Idle}]
  BY <1>1, <1>2, <1>3, SwitchCpus
<1>5. \A u \in Tasks : on_cpu'[u] => on_cpu[u] \/ on_rq[u]
  <2>1. n \in Tasks => on_rq'[n]
    BY <1>2, <1>3 DEF Switched, QueuesInv
  <2>2. \A u \in Tasks : on_cpu'[u] => on_cpu[u] \/ u = n
    BY <1>3 DEF Switched
  <2>. QED
    BY <1>1, <2>1, <2>2
<1>6. StatesInv'
  BY <1>1, <1>5 DEF SchedInv, StatesInv
<1>7. WakersInv' /\ CondInv'
  BY <1>1 DEF SchedInv, WakersInv, CondInv, Holds
<1>8. WakeListInv'
  BY <1>1, WakeListKept DEF Holds
<1>9. Types'
  BY <1>1, <1>4 DEF SchedInv, Types
<1>. QED
  BY <1>2, <1>4, <1>6, <1>7, <1>8, <1>9 DEF SchedInv

LEMMA FinishSwitchKeeps ==
  ASSUME SchedInv, NEW c \in Cpus, FinishSwitch(c)
  PROVE  SchedInv'
<1>1. /\ phase[c] = "switch"
      /\ on_cpu' = [t \in Tasks |-> on_cpu[t] /\ t # prev[c]]
      /\ phase' = [phase EXCEPT ![c] = "run"]
      /\ prev' = [prev EXCEPT ![c] = Idle]
      /\ UNCHANGED <<state, on_rq, cpu, doing, cond, queue, nr_running, wake_list,
                     ipi, curr, waker, online, active>>
  BY DEF FinishSwitch, rqs, user, remote, masks
<1>2. /\ prev[c] \in Tasks /\ cpu[prev[c]] = c /\ prev[c] # curr[c] /\ c \in online
      /\ Idle \notin Tasks
  BY <1>1, TasksAssumption DEF SchedInv, CpusInv
<1>3. /\ prev'[c] = Idle /\ phase'[c] = "run"
      /\ \A d \in Cpus : d # c => prev'[d] = prev[d] /\ phase'[d] = phase[d]
      /\ \A t \in Tasks : on_cpu'[t] <=> on_cpu[t] /\ t # prev[c]
  BY <1>1 DEF SchedInv, Types
<1>4. \A d \in Cpus : d # c => prev[d] # prev[c] /\ curr[d] # prev[c]
  BY <1>2 DEF SchedInv, CpusInv
<1>5. CpusInv'
  <2>1. ASSUME NEW t \in Tasks
        PROVE  on_cpu'[t] <=> \E d \in Cpus : curr'[d] = t \/ prev'[d] = t
    <3>1. on_cpu[t] <=> \E d \in Cpus : curr[d] = t \/ prev[d] = t
      BY DEF SchedInv, CpusInv
    <3>2. CASE t = prev[c]
      BY <1>1, <1>2, <1>3, <1>4, <3>2
    <3>3. CASE t # prev[c]
      BY <1>1, <1>2, <1>3, <3>1, <3>3
    <3>. QED
      BY <3>2, <3>3
  <2>2. ASSUME NEW d \in Cpus
        PROVE  /\ curr'[d] \in Tasks => cpu'[curr'[d]] = d
               /\ curr'[d] \in Tasks /\ phase'[d] # "balance" => on_rq'[curr'[d]]
               /\ phase'[d] = "switch" => prev'[d] \in Tasks
               /\ prev'[d] \in Tasks => cpu'[prev'[d]] = d /\ prev'[d] # curr'[d]
                                       /\ phase'[d] = "switch"
               /\ d \notin online' => curr'[d] = Idle /\ phase'[d] = "run"
    <3>1. CASE d = c
      BY <1>1, <1>2, <1>3, <3>1 DEF SchedInv, CpusInv
    <3>2. CASE d # c
      BY <1>1, <1>3, <3>2 DEF SchedInv, CpusInv
    <3>. QED
      BY <3>1, <3>2
  <2>. QED
    BY <2>1, <2>2 DEF CpusInv
<1>6. QueuesInv' /\ WakersInv' /\ CondInv'
  BY <1>1 DEF SchedInv, QueuesInv, WakersInv, CondInv, Holds
<1>7. StatesInv'
  BY <1>1, <1>3 DEF SchedInv, StatesInv
<1>8. WakeListInv'
  BY <1>1, WakeListKept DEF Holds
<1>9. Types'
  BY <1>1 DEF SchedInv, Types
<1>. QED
  BY <1>5, <1>6, <1>7, <1>8, <1>9 DEF SchedInv

-----------------------------------------------------------------------------
(* Tasks that come onto a queue, from none, and CPUs that they do not run   *)

LEMMA ActivateQueues ==
  ASSUME SchedInv, NEW c \in Cpus, c \in online, NEW T \in SUBSET Tasks,
         \A u \in T : ~on_rq[u] /\ cpu'[u] = c,
         \A u \in Tasks \ T : cpu'[u] = cpu[u],
         \A u \in Tasks : on_rq'[u] <=> on_rq[u] \/ u \in T,
         queue' = [queue EXCEPT ![c] = @ \cup T],
         nr_running' = [nr_running EXCEPT ![c] = @ + Cardinality(T)],
         UNCHANGED online
  PROVE  /\ QueuesInv' /\ queue' \in [Cpus -> SUBSET Tasks]
         /\ nr_running' \in [Cpus -> Int]
<1>1. IsFiniteSet(T) /\ Cardinality(T) \in Nat
  BY TasksAssumption, FS_Subset, FS_CardinalityType
<1>2. queue' \in [Cpus -> SUBSET Tasks] /\ nr_running' \in [Cpus -> Int]
  BY <1>1 DEF SchedInv, Types
<1>3. /\ queue'[c] = queue[c] \cup T /\ nr_running'[c] = nr_running[c] + Cardinality(T)
      /\ \A d \in Cpus : d # c => queue'[d] = queue[d] /\ nr_running'[d] = nr_running[d]
  BY DEF SchedInv, Types
<1>4. ASSUME NEW u \in Tasks, NEW d \in Cpus
      PROVE  u \in queue'[d] <=> on_rq'[u] /\ cpu'[u] = d
  <2>1. u \in queue[d] <=> on_rq[u] /\ cpu[u] = d
    BY DEF SchedInv, QueuesInv
  <2>2. CASE u \in T
    BY <1>3, <2>1, <2>2
  <2>3. CASE u \notin T
    BY <1>3, <2>1, <2>3
  <2>. QED
    BY <2>2, <2>3
<1>5. ASSUME NEW d \in Cpus PROVE nr_running'[d] = Cardinality(queue'[d])
  <2>1. queue[c] \cap T = {}
    BY DEF SchedInv, QueuesInv
  <2>2. Cardinality(queue[c] \cup T) = Cardinality(queue[c]) + Cardinality(T)
    <3>1. Cardinality(queue[c] \cup T)
            = Cardinality(queue[c]) + Cardinality(T) - Cardinality(queue[c] \cap T)
      BY <1>1, QueueFinite, FS_Union
    <3>2. Cardinality(queue[c] \cap T) = 0
      BY <2>1, FS_EmptySet
    <3>3. Cardinality(queue[c]) \in Nat
      BY QueueFinite, FS_CardinalityType
    <3>. QED
      BY <1>1, <3>1, <3>2, <3>3
  <2>3. \A e \in Cpus : nr_running[e] = Cardinality(queue[e])
    BY DEF SchedInv, QueuesInv
  <2>. QED
    BY <1>3, <2>2, <2>3
<1>6. \A d \in Cpus \ online' : queue'[d] = {}
  BY <1>3 DEF SchedInv, QueuesInv
<1>. QED
  BY <1>2, <1>4, <1>5, <1>6 DEF QueuesInv

LEMMA CpusKept ==
  ASSUME SchedInv, UNCHANGED <<on_cpu, cpus, online>>,
         \A u \in Tasks :
           on_cpu[u] => cpu'[u] = cpu[u] /\ (on_rq[u] => on_rq'[u])
  PROVE  CpusInv'
<1>1. UNCHANGED <<curr, phase, prev>>
  BY DEF cpus
<1>2. \A d \in Cpus : /\ curr[d] \in Tasks => on_cpu[curr[d]]
                      /\ prev[d] \in Tasks => on_cpu[prev[d]]
  BY DEF SchedInv, CpusInv
<1>. QED
  BY <1>1, <1>2 DEF SchedInv, CpusInv

-----------------------------------------------------------------------------
(* try_to_wake_up                                                           *)

LEMMA WakerFacts ==
  ASSUME SchedInv, NEW c \in Cpus, waker[c].pc # "idle"
  PROVE  waker[c].task \in Tasks /\ c \in online /\ NoWake.pc = "idle"
         /\ NoWake.task = Idle
BY DEF SchedInv, Types, WakersInv, NoWake

(* A wakeup that holds pi_lock goes on: nobody else's task is touched       *)
LEMMA HolderGoesOn ==
  ASSUME SchedInv, NEW c \in Cpus, NEW t \in Tasks, Holds(c, t),
         UNCHANGED <<online, cond, doing>>,
         \A d \in Cpus : d # c => waker'[d] = waker[d],
         \A u \in Tasks : u # t => /\ state'[u] = state[u] /\ on_rq'[u] = on_rq[u]
                                  /\ cpu'[u] = cpu[u],
         \/ waker'[c] = NoWake /\ state'[t] \notin Sleeping
         \/ /\ waker'[c].task = t /\ waker'[c].pc \in {"spin", "queue"}
            /\ waker'[c].pc = "spin" => state'[t] \in Sleeping /\ ~on_rq'[t]
            /\ waker'[c].pc = "queue" => state'[t] = "WAKING"
                 /\ cpu'[t] = waker'[c].cpu /\ waker'[c].cpu \in online
  PROVE  WakersInv' /\ CondInv'
<1>1. /\ c \in online /\ Idle \notin Tasks
      /\ \A d \in Cpus : d # c => ~Holds(d, t)
  BY TasksAssumption, WakerFacts DEF Holds, SchedInv, WakersInv
<1>2. \A d \in Cpus, u \in Tasks : d # c => (Holds(d, u)' <=> Holds(d, u))
  BY DEF Holds
<1>3. \A u \in Tasks : Holds(c, u)' => u = t
  BY DEF Holds, NoWake
<1>4. \A d \in Cpus, u \in Tasks : Holds(d, u)' => (d = c <=> u = t)
  BY <1>1, <1>2, <1>3 DEF SchedInv, WakersInv, Holds
<1>5. WakersInv'
  <2>1. ASSUME NEW d \in Cpus
        PROVE  /\ waker'[d].pc = "idle" <=> waker'[d].task = Idle
               /\ waker'[d].pc # "idle" => d \in online'
    BY <1>1 DEF SchedInv, WakersInv, NoWake
  <2>2. ASSUME NEW d \in Cpus, NEW u \in Tasks, Holds(d, u)'
        PROVE  /\ \A e \in Cpus : Holds(e, u)' => e = d
               /\ waker'[d].pc = "remote" => state'[u] \in Sleeping \cup {"RUNNING"}
                                              /\ doing'[u] # "new"
               /\ waker'[d].pc = "spin" => state'[u] \in Sleeping /\ ~on_rq'[u]
               /\ waker'[d].pc = "queue" => state'[u] = "WAKING"
                    /\ cpu'[u] = waker'[d].cpu /\ waker'[d].cpu \in online'
    <3>1. CASE d = c
      BY <1>4, <2>2, <3>1 DEF Holds, NoWake
    <3>2. CASE d # c
      <4>1. u # t /\ Holds(d, u)
        BY <1>2, <1>4, <2>2, <3>2
      <4>. QED
        BY <1>2, <1>4, <2>2, <3>2, <4>1 DEF SchedInv, WakersInv
    <3>. QED
      BY <3>1, <3>2
  <2>. QED
    BY <2>1, <2>2 DEF WakersInv
<1>6. CondInv'
  <2>1. ASSUME NEW u \in Tasks, cond'[u], state'[u] \in Sleeping,
               ~on_rq'[u] \/ doing'[u] = "sleep"
        PROVE  \E d \in Cpus : waker'[d].task = u
    <3>1. CASE u = t
      BY <2>1, <3>1 DEF Sleeping
    <3>2. CASE u # t
      <4>1. PICK d \in Cpus : waker[d].task = u
        BY <2>1, <3>2 DEF SchedInv, CondInv
      <4>2. d # c
        BY <3>2, <4>1 DEF Holds
      <4>. QED
        BY <4>1, <4>2
    <3>. QED
      BY <3>1, <3>2
  <2>. QED
    BY <2>1 DEF CondInv
<1>. QED
  BY <1>5, <1>6

LEMMA WakeBeginKeeps ==
  ASSUME SchedInv, NEW c \in Cpus, NEW t \in Tasks, WakeBegin(c, t)
  PROVE  SchedInv'
<1>1. /\ c \in online /\ waker[c].pc = "idle"
      /\ cond' = [cond EXCEPT ![t] = TRUE]
      /\ waker' = [waker EXCEPT ![c] = [NoWake EXCEPT !.pc = "lock", !.task = t]]
      /\ UNCHANGED <<state, on_rq, on_cpu, cpu, doing, queue, nr_running, wake_list,
                     ipi, curr, phase, prev, online, active>>
  BY DEF WakeBegin, NoWakeup, tasks, rqs, remote, cpus, masks
<1>2. /\ waker'[c].pc = "lock" /\ waker'[c].task = t
      /\ \A d \in Cpus : d # c => waker'[d] = waker[d]
      /\ waker' \in [Cpus -> [pc : WakePcs, task : Tasks \cup {Idle}, cpu : Cpus]]
  BY <1>1, CpusAssumption DEF SchedInv, Types, NoWake, WakePcs
<1>3. /\ waker[c].task = Idle /\ Idle \notin Tasks
  BY <1>1, TasksAssumption DEF SchedInv, WakersInv
<1>4. \A d \in Cpus, u \in Tasks : Holds(d, u)' <=> Holds(d, u)
  BY <1>1, <1>2, <1>3 DEF Holds
<1>5. Types'
  BY <1>1, <1>2 DEF SchedInv, Types
<1>6. QueuesInv' /\ CpusInv' /\ StatesInv'
  BY <1>1 DEF SchedInv, QueuesInv, CpusInv, StatesInv
<1>7. WakersInv'
  <2>1. ASSUME NEW d \in Cpus
        PROVE  /\ waker'[d].pc = "idle" <=> waker'[d].task = Idle
               /\ waker'[d].pc # "idle" => d \in online'
    BY <1>1, <1>2, <1>3 DEF SchedInv, WakersInv
  <2>2. \A d \in Cpus, u \in Tasks : Holds(d, u)' => waker'[d] = waker[d]
    BY <1>2 DEF Holds
  <2>. QED
    BY <1>1, <1>4, <2>1, <2>2 DEF SchedInv, WakersInv
<1>8. WakeListInv'
  BY <1>1, <1>2, <1>4, WakeListKept
<1>9. CondInv'
  <2>1. ASSUME NEW u \in Tasks, u # t
        PROVE  cond'[u] = cond[u]
               /\ \A d \in Cpus : waker[d].task = u => waker'[d].task = u
    BY <1>1, <1>2, <1>3, <2>1 DEF SchedInv, Types
  <2>. QED
    BY <1>1, <1>2, <2>1 DEF SchedInv, CondInv
<1>. QED
  BY <1>5, <1>6, <1>7, <1>8, <1>9 DEF SchedInv

LEMMA WakerSteps ==
  ASSUME SchedInv, NEW c \in Cpus, NEW p \in WakePcs,
         WakeStep(c, p) \/ WakeEnd(c)
  PROVE  /\ \A d \in Cpus : d # c => waker'[d] = waker[d]
         /\ waker' \in [Cpus -> [pc : WakePcs, task : Tasks \cup {Idle}, cpu : Cpus]]
         /\ WakeStep(c, p) => waker'[c].pc = p /\ waker'[c].task = waker[c].task
         /\ WakeEnd(c) => waker'[c] = NoWake
<1>1. /\ waker \in [Cpus -> [pc : WakePcs, task : Tasks \cup {Idle}, cpu : Cpus]]
      /\ NoWake \in [pc : WakePcs, task : Tasks \cup {Idle}, cpu : Cpus]
  BY CpusAssumption DEF SchedInv, Types, NoWake, WakePcs
<1>2. CASE WakeStep(c, p)
  <2>1. waker' = [waker EXCEPT ![c] = [waker[c] EXCEPT !.pc = p]]
    BY <1>2 DEF WakeStep
  <2>2. /\ [waker[c] EXCEPT !.pc = p]
             \in [pc : WakePcs, task : Tasks \cup {Idle}, cpu : Cpus]
        /\ [waker[c] EXCEPT !.pc = p].pc = p
        /\ [waker[c] EXCEPT !.pc = p].task = waker[c].task
    BY <1>1
  <2>3. /\ \A d \in Cpus : d # c => waker'[d] = waker[d]
        /\ waker' \in [Cpus -> [pc : WakePcs, task : Tasks \cup {Idle}, cpu : Cpus]]
        /\ waker'[c] = [waker[c] EXCEPT !.pc = p]
    BY <1>1, <2>1, <2>2
  <2>4. WakeEnd(c) => waker'[c] = NoWake
    BY <1>1 DEF WakeEnd
  <2>. QED
    BY <2>2, <2>3, <2>4
<1>3. CASE WakeEnd(c)
  <2>1. /\ \A d \in Cpus : d # c => waker'[d] = waker[d]
        /\ waker' \in [Cpus -> [pc : WakePcs, task : Tasks \cup {Idle}, cpu : Cpus]]
        /\ waker'[c] = NoWake
    BY <1>1, <1>3 DEF WakeEnd
  <2>2. WakeStep(c, p) => waker'[c].pc = p /\ waker'[c].task = waker[c].task
    BY <1>1 DEF WakeStep
  <2>. QED
    BY <2>1, <2>2
<1>. QED
  BY <1>2, <1>3

LEMMA WakeLockKeeps ==
  ASSUME SchedInv, NEW c \in Cpus, WakeLock(c)
  PROVE  SchedInv'
<1>0. PICK t \in Tasks : t = waker[c].task
  BY WakerFacts DEF WakeLock
<1>1. /\ waker[c].pc = "lock" /\ PiFree(t)
      /\ IF state[t] \in Sleeping THEN WakeStep(c, "remote") ELSE WakeEnd(c)
      /\ UNCHANGED <<state, on_rq, on_cpu, cpu, doing, cond, queue, nr_running,
                     wake_list, ipi, curr, phase, prev, online, active>>
  BY <1>0 DEF WakeLock, tasks, user, rqs, remote, cpus, masks
<1>2. t \in Tasks /\ c \in online /\ Idle \notin Tasks
  BY <1>1, TasksAssumption, WakerFacts
<1>3. \A d \in Cpus : ~Holds(d, t)
  BY <1>1 DEF PiFree, Holds
<1>4. /\ \A d \in Cpus : d # c => waker'[d] = waker[d]
      /\ waker' \in [Cpus -> [pc : WakePcs, task : Tasks \cup {Idle}, cpu : Cpus]]
      /\ IF state[t] \in Sleeping
         THEN waker'[c].pc = "remote" /\ waker'[c].task = t
         ELSE waker'[c].pc = "idle" /\ waker'[c].task = Idle
  BY <1>0, <1>1, WakerSteps DEF NoWake, WakePcs
<1>5. /\ \A d \in Cpus, u \in Tasks : d # c => (Holds(d, u)' <=> Holds(d, u))
      /\ \A u \in Tasks : Holds(c, u)' => u = t /\ state[t] \in Sleeping
      /\ \A u \in Tasks : ~Holds(c, u)
  BY <1>0, <1>1, <1>2, <1>4 DEF Holds
<1>6. Types'
  BY <1>1, <1>4 DEF SchedInv, Types
<1>7. QueuesInv' /\ CpusInv' /\ StatesInv'
  BY <1>1 DEF SchedInv, QueuesInv, CpusInv, StatesInv
<1>8. WakersInv'
  <2>1. ASSUME NEW d \in Cpus
        PROVE  /\ waker'[d].pc = "idle" <=> waker'[d].task = Idle
               /\ waker'[d].pc # "idle" => d \in online'
    BY <1>1, <1>2, <1>4 DEF SchedInv, WakersInv
  <2>2. ASSUME NEW d \in Cpus, NEW u \in Tasks, Holds(d, u)'
        PROVE  /\ \A e \in Cpus : Holds(e, u)' => e = d
               /\ waker'[d].pc = "remote" => state'[u] \in Sleeping \cup {"RUNNING"}
                                              /\ doing'[u] # "new"
               /\ waker'[d].pc = "spin" => state'[u] \in Sleeping /\ ~on_rq'[u]
               /\ waker'[d].pc = "queue" => state'[u] = "WAKING"
                    /\ cpu'[u] = waker'[d].cpu /\ waker'[d].cpu \in online'
    <3>1. CASE d = c
      <4>1. u = t /\ state[t] \in Sleeping
        BY <1>5, <2>2, <3>1
      <4>2. \A e \in Cpus : Holds(e, t)' => e = c
        BY <1>3, <1>5
      <4>3. doing[t] # "new"
        BY <1>2, <4>1 DEF SchedInv, StatesInv, Sleeping
      <4>. QED
        BY <1>1, <1>4, <3>1, <4>1, <4>2, <4>3
    <3>2. CASE d # c
      <4>1. Holds(d, u) /\ u # t /\ waker'[d] = waker[d]
        BY <1>3, <1>4, <1>5, <2>2, <3>2
      <4>. QED
        BY <1>1, <1>5, <4>1 DEF SchedInv, WakersInv
    <3>. QED
      BY <3>1, <3>2
  <2>. QED
    BY <2>1, <2>2 DEF WakersInv
<1>9. WakeListInv'
  <2>1. ASSUME NEW u \in Tasks, state[u] = "WAKING", NEW d \in Cpus
        PROVE  /\ Holds(d, u)' <=> Holds(d, u)
               /\ waker[d].task = u /\ waker[d].pc = "queue"
                     => waker'[d].task = u /\ waker'[d].pc = "queue"
    BY <1>1, <1>4, <1>5, <2>1 DEF Sleeping
  <2>. QED
    BY <1>1, <2>1, WakeListKept
<1>10. CondInv'
  <2>1. \A d \in Cpus, u \in Tasks :
          waker[d].task = u /\ state[u] \in Sleeping => waker'[d].task = u
    BY <1>0, <1>4
  <2>. QED
    BY <1>1, <2>1 DEF SchedInv, CondInv
<1>. QED
  BY <1>6, <1>7, <1>8, <1>9, <1>10 DEF SchedInv

LEMMA WakeRemoteKeeps ==
  ASSUME SchedInv, NEW c \in Cpus, WakeRemote(c)
  PROVE  SchedInv'
<1>0. PICK t \in Tasks : t = waker[c].task
  BY WakerFacts DEF WakeRemote
<1>1. /\ waker[c].pc = "remote"
      /\ IF on_rq[t] THEN state' = [state EXCEPT ![t] = "RUNNING"] /\ WakeEnd(c)
         ELSE WakeStep(c, "spin") /\ UNCHANGED state
      /\ UNCHANGED <<on_rq, on_cpu, cpu, doing, cond, queue, nr_running,
                     wake_list, ipi, curr, phase, prev, online, active>>
  BY <1>0 DEF WakeRemote, StillQueued, user, rqs, remote, cpus, masks
<1>2. /\ Holds(c, t) /\ state[t] \in Sleeping \cup {"RUNNING"} /\ doing[t] # "new"
      /\ \A d \in Cpus : d # c => ~Holds(d, t)
  BY <1>0, <1>1 DEF Holds, SchedInv, WakersInv
<1>3. /\ \A d \in Cpus : d # c => waker'[d] = waker[d]
      /\ waker' \in [Cpus -> [pc : WakePcs, task : Tasks \cup {Idle}, cpu : Cpus]]
      /\ ~on_rq[t] => waker'[c].pc = "spin" /\ waker'[c].task = t
      /\ on_rq[t] => waker'[c] = NoWake
  BY <1>0, <1>1, WakerSteps DEF WakePcs
<1>4. /\ \A u \in Tasks : u # t => state'[u] = state[u]
      /\ state' \in [Tasks -> States]
      /\ state'[t] = IF on_rq[t] THEN "RUNNING" ELSE state[t]
  BY <1>1 DEF SchedInv, Types, States
<1>5. ~on_rq[t] => state[t] \in Sleeping
  BY <1>2 DEF SchedInv, StatesInv
<1>6. Types'
  BY <1>1, <1>3, <1>4 DEF SchedInv, Types
<1>7. QueuesInv' /\ CpusInv'
  BY <1>1 DEF SchedInv, QueuesInv, CpusInv
<1>8. StatesInv'
  BY <1>1, <1>2, <1>4 DEF SchedInv, StatesInv, Sleeping
<1>9. WakersInv' /\ CondInv'
  <2>1. CASE on_rq[t]
    BY <1>1, <1>2, <1>3, <1>4, <2>1, HolderGoesOn DEF Sleeping
  <2>2. CASE ~on_rq[t]
    BY <1>1, <1>2, <1>3, <1>4, <1>5, <2>2, HolderGoesOn
  <2>. QED
    BY <2>1, <2>2
<1>10. WakeListInv'
  <2>1. ASSUME NEW u \in Tasks, state[u] = "WAKING" \/ state'[u] = "WAKING"
        PROVE  u # t /\ state'[u] = state[u]
    BY <1>2, <1>4, <2>1 DEF Sleeping
  <2>2. ASSUME NEW u \in Tasks, u # t, NEW d \in Cpus
        PROVE  /\ Holds(d, u)' <=> Holds(d, u)
               /\ waker[d].task = u /\ waker[d].pc = "queue"
                     => waker'[d].task = u /\ waker'[d].pc = "queue"
    BY <1>0, <1>1, <1>3, <2>2 DEF Holds, NoWake
  <2>. QED
    BY <1>1, <2>1, <2>2, WakeListKept
<1>. QED
  BY <1>6, <1>7, <1>8, <1>9, <1>10 DEF SchedInv

LEMMA WakeOnCpuKeeps ==
  ASSUME SchedInv, NEW c \in Cpus, WakeOnCpu(c)
  PROVE  SchedInv'
<1>0. PICK t \in Tasks : t = waker[c].task
  BY WakerFacts DEF WakeOnCpu
<1>1. /\ waker[c].pc = "spin" /\ on_cpu[t]
      /\ queue' = [queue EXCEPT ![cpu[t]] = @ \cup {t}]
      /\ nr_running' = [nr_running EXCEPT ![cpu[t]] = @ + Cardinality({t})]
      /\ on_rq' = [on_rq EXCEPT ![t] = TRUE]
      /\ state' = [state EXCEPT ![t] = "RUNNING"]
      /\ WakeEnd(c)
      /\ UNCHANGED <<on_cpu, cpu, doing, cond, wake_list, ipi, curr, phase, prev,
                     online, active>>
  BY <1>0 DEF WakeOnCpu, Activate, user, remote, cpus, masks
<1>2. Holds(c, t) /\ state[t] \in Sleeping /\ ~on_rq[t]
  BY <1>0, <1>1 DEF Holds, SchedInv, WakersInv
<1>3. /\ \A d \in Cpus : d # c => waker'[d] = waker[d]
      /\ waker' \in [Cpus -> [pc : WakePcs, task : Tasks \cup {Idle}, cpu : Cpus]]
      /\ waker'[c] = NoWake
  BY <1>1, WakerSteps DEF WakePcs
<1>4. /\ \A u \in Tasks : u # t => state'[u] = state[u] /\ on_rq'[u] = on_rq[u]
      /\ state'[t] = "RUNNING" /\ on_rq'[t]
      /\ state' \in [Tasks -> States] /\ on_rq' \in [Tasks -> BOOLEAN]
  BY <1>1 DEF SchedInv, Types, States
<1>5. cpu[t] \in Cpus /\ cpu[t] \in online
  <2>1. PICK d \in Cpus : curr[d] = t \/ prev[d] = t
    BY <1>1 DEF SchedInv, CpusInv
  <2>2. d = cpu[t] /\ d \in online
    BY <2>1, TasksAssumption DEF SchedInv, CpusInv
  <2>. QED
    BY <2>2
<1>6. /\ QueuesInv' /\ queue' \in [Cpus -> SUBSET Tasks]
      /\ nr_running' \in [Cpus -> Int]
  <2>1. \A u \in Tasks : on_rq'[u] <=> on_rq[u] \/ u \in {t}
    BY <1>4 DEF SchedInv, Types
  <2>2. PICK d \in Cpus : d = cpu[t] /\ d \in online
    BY <1>5
  <2>3. /\ {t} \in SUBSET Tasks /\ \A u \in {t} : ~on_rq[u] /\ cpu'[u] = d
        /\ \A u \in Tasks \ {t} : cpu'[u] = cpu[u]
        /\ queue' = [queue EXCEPT ![d] = @ \cup {t}]
        /\ nr_running' = [nr_running EXCEPT ![d] = @ + Cardinality({t})]
        /\ UNCHANGED online
    BY <1>1, <1>2, <2>2
  <2>. QED
    BY <2>1, <2>2, <2>3, ActivateQueues
<1>7. Types'
  BY <1>1, <1>3, <1>4, <1>6 DEF SchedInv, Types
<1>8. CpusInv'
  BY <1>1, <1>4, CpusKept DEF cpus
<1>9. StatesInv'
  BY <1>1, <1>2, <1>4 DEF SchedInv, StatesInv, Sleeping
<1>10. WakersInv' /\ CondInv'
  <2>1. /\ UNCHANGED <<online, cond, doing>>
        /\ \A u \in Tasks : u # t => /\ state'[u] = state[u] /\ on_rq'[u] = on_rq[u]
                                     /\ cpu'[u] = cpu[u]
        /\ waker'[c] = NoWake /\ state'[t] \notin Sleeping
    BY <1>1, <1>3, <1>4 DEF Sleeping
  <2>. QED
    BY <1>2, <1>3, <2>1, HolderGoesOn
<1>11. WakeListInv'
  <2>1. ASSUME NEW u \in Tasks, state[u] = "WAKING" \/ state'[u] = "WAKING"
        PROVE  u # t /\ state'[u] = state[u]
    BY <1>2, <1>4, <2>1 DEF Sleeping
  <2>2. ASSUME NEW u \in Tasks, u # t, NEW d \in Cpus
        PROVE  /\ Holds(d, u)' <=> Holds(d, u)
               /\ waker[d].task = u /\ waker[d].pc = "queue"
                     => waker'[d].task = u /\ waker'[d].pc = "queue"
    BY <1>0, <1>1, <1>3, <2>2 DEF Holds, NoWake
  <2>. QED
    BY <1>1, <2>1, <2>2, WakeListKept
<1>. QED
  BY <1>6, <1>7, <1>8, <1>9, <1>10, <1>11 DEF SchedInv

LEMMA SelectOnline ==
  ASSUME SchedInv, NEW t \in Tasks, NEW d \in Cpus, SelectTaskRq(t, d)
  PROVE  d \in online
BY DEF SelectTaskRq, Fallbacks, SchedInv, Types

LEMMA WakeSelectKeeps ==
  ASSUME SchedInv, NEW c \in Cpus, WakeSelect(c)
  PROVE  SchedInv'
<1>0. PICK t \in Tasks : t = waker[c].task
  BY WakerFacts DEF WakeSelect
<1>1. PICK d \in Cpus : /\ SelectTaskRq(t, d)
                        /\ cpu' = [cpu EXCEPT ![t] = d]
                        /\ waker' = [waker EXCEPT ![c].pc = "queue", ![c].cpu = d]
  BY <1>0 DEF WakeSelect
<1>2. /\ waker[c].pc = "spin" /\ ~on_cpu[t]
      /\ state' = [state EXCEPT ![t] = "WAKING"]
      /\ UNCHANGED <<on_rq, on_cpu, doing, cond, queue, nr_running, wake_list, ipi,
                     curr, phase, prev, online, active>>
  BY <1>0 DEF WakeSelect, OffCpu, user, rqs, remote, cpus, masks
<1>3. Holds(c, t) /\ state[t] \in Sleeping /\ ~on_rq[t] /\ d \in online
  BY <1>0, <1>1, <1>2, SelectOnline DEF Holds, SchedInv, WakersInv
<1>4. /\ \A e \in Cpus : e # c => waker'[e] = waker[e]
      /\ waker' \in [Cpus -> [pc : WakePcs, task : Tasks \cup {Idle}, cpu : Cpus]]
      /\ waker'[c].pc = "queue" /\ waker'[c].task = t /\ waker'[c].cpu = d
  <2>1. waker \in [Cpus -> [pc : WakePcs, task : Tasks \cup {Idle}, cpu : Cpus]]
    BY DEF SchedInv, Types
  <2>2. PICK v : v = [waker[c] EXCEPT !.pc = "queue"]
    OBVIOUS
  <2>3. /\ v \in [pc : WakePcs, task : Tasks \cup {Idle}, cpu : Cpus]
        /\ v.pc = "queue" /\ v.task = t
    BY <1>0, <2>1, <2>2 DEF WakePcs
  <2>4. /\ [v EXCEPT !.cpu = d] \in [pc : WakePcs, task : Tasks \cup {Idle}, cpu : Cpus]
        /\ [v EXCEPT !.cpu = d].pc = "queue" /\ [v EXCEPT !.cpu = d].task = t
        /\ [v EXCEPT !.cpu = d].cpu = d
    BY <2>3
  <2>5. waker' = [waker EXCEPT ![c] = [v EXCEPT !.cpu = d]]
    BY <1>1, <2>1, <2>2
  <2>. QED
    BY <2>1, <2>4, <2>5
<1>5. /\ \A u \in Tasks : u # t => state'[u] = state[u] /\ cpu'[u] = cpu[u]
      /\ state'[t] = "WAKING" /\ cpu'[t] = d
      /\ state' \in [Tasks -> States] /\ cpu' \in [Tasks -> Cpus]
  BY <1>1, <1>2 DEF SchedInv, Types, States
<1>6. Types'
  BY <1>2, <1>4, <1>5 DEF SchedInv, Types
<1>7. QueuesInv'
  BY <1>2, <1>3, <1>5 DEF SchedInv, QueuesInv
<1>8. CpusInv'
  <2>1. \A u \in Tasks : on_cpu[u] => cpu'[u] = cpu[u] /\ (on_rq[u] => on_rq'[u])
    BY <1>2, <1>5
  <2>. QED
    BY <1>2, <2>1, CpusKept DEF cpus
<1>9. StatesInv'
  BY <1>2, <1>3, <1>5 DEF SchedInv, StatesInv, Sleeping
<1>10. WakersInv' /\ CondInv'
  <2>1. /\ UNCHANGED <<online, cond, doing>>
        /\ \A u \in Tasks : u # t => /\ state'[u] = state[u] /\ on_rq'[u] = on_rq[u]
                                     /\ cpu'[u] = cpu[u]
        /\ waker'[c].task = t /\ waker'[c].pc \in {"spin", "queue"}
        /\ waker'[c].pc = "spin" => state'[t] \in Sleeping /\ ~on_rq'[t]
        /\ waker'[c].pc = "queue" => state'[t] = "WAKING"
                 /\ cpu'[t] = waker'[c].cpu /\ waker'[c].cpu \in online
    BY <1>2, <1>3, <1>4, <1>5
  <2>. QED
    BY <1>3, <1>4, <2>1, HolderGoesOn
<1>11. WakeListInv'
  <2>1. \A e \in Cpus : t \notin wake_list[e]
    BY <1>3 DEF SchedInv, WakeListInv
  <2>2. ASSUME NEW e \in Cpus, NEW u \in Tasks, u # t
        PROVE  /\ Holds(e, u)' <=> Holds(e, u)
               /\ waker[e].task = u /\ waker[e].pc = "queue"
                     => waker'[e].task = u /\ waker'[e].pc = "queue"
    BY <1>0, <1>4, <2>2 DEF Holds
  <2>3. ASSUME NEW e \in Cpus, NEW u \in wake_list'[e]
        PROVE  /\ state'[u] = "WAKING" /\ cpu'[u] = e
               /\ ipi'[e] /\ e \in online'
               /\ \A g \in Cpus : ~Holds(g, u)'
    <3>1. u \in Tasks /\ u \in wake_list[e] /\ u # t
      BY <1>2, <2>1, <2>3 DEF SchedInv, Types
    <3>2. /\ state[u] = "WAKING" /\ cpu[u] = e /\ ipi[e] /\ e \in online
          /\ \A g \in Cpus : ~Holds(g, u)
      BY <3>1 DEF SchedInv, WakeListInv
    <3>. QED
      BY <1>2, <1>5, <2>2, <3>1, <3>2
  <2>4. ASSUME NEW u \in Tasks, state'[u] = "WAKING"
        PROVE  \/ \E e \in Cpus : waker'[e].task = u /\ waker'[e].pc = "queue"
               \/ u \in wake_list'[cpu'[u]] /\ cpu'[u] \in online' /\ ipi'[cpu'[u]]
    <3>1. CASE u = t
      BY <1>4, <3>1
    <3>2. CASE u # t
      <4>1. state[u] = "WAKING" /\ cpu'[u] = cpu[u]
        BY <1>5, <2>4, <3>2
      <4>2. \/ \E e \in Cpus : waker[e].task = u /\ waker[e].pc = "queue"
            \/ u \in wake_list[cpu[u]] /\ cpu[u] \in online /\ ipi[cpu[u]]
        BY <4>1 DEF SchedInv, WakeListInv, WakeupsPending
      <4>. QED
        BY <1>2, <2>2, <3>2, <4>1, <4>2
    <3>. QED
      BY <3>1, <3>2
  <2>. QED
    BY <2>3, <2>4 DEF WakeListInv, WakeupsPending
<1>. QED
  BY <1>6, <1>7, <1>8, <1>9, <1>10, <1>11 DEF SchedInv

(* Waking tasks, that no CPU runs, are put on a queue                       *)
LEMMA DoActivateFacts ==
  ASSUME SchedInv, NEW c \in Cpus, c \in online, NEW T \in SUBSET Tasks,
         DoActivate(c, T), UNCHANGED <<on_cpu, cpu, cpus, doing, online>>,
         \A u \in T : state[u] = "WAKING" /\ cpu[u] = c
  PROVE  /\ QueuesInv' /\ CpusInv' /\ StatesInv'
         /\ queue' \in [Cpus -> SUBSET Tasks] /\ nr_running' \in [Cpus -> Int]
         /\ state' \in [Tasks -> States] /\ on_rq' \in [Tasks -> BOOLEAN]
         /\ \A u \in T : state'[u] = "RUNNING" /\ on_rq'[u]
         /\ \A u \in Tasks \ T : state'[u] = state[u] /\ on_rq'[u] = on_rq[u]
<1>1. /\ queue' = [queue EXCEPT ![c] = @ \cup T]
      /\ nr_running' = [nr_running EXCEPT ![c] = @ + Cardinality(T)]
      /\ state' = [u \in Tasks |-> IF u \in T THEN "RUNNING" ELSE state[u]]
      /\ on_rq' = [u \in Tasks |-> on_rq[u] \/ u \in T]
  BY DEF DoActivate, Woken, Queued
<1>2. \A u \in T : ~on_rq[u] /\ ~on_cpu[u]
  BY DEF SchedInv, StatesInv
<1>3. /\ state' \in [Tasks -> States] /\ on_rq' \in [Tasks -> BOOLEAN]
      /\ \A u \in T : state'[u] = "RUNNING" /\ on_rq'[u]
      /\ \A u \in Tasks \ T : state'[u] = state[u] /\ on_rq'[u] = on_rq[u]
  BY <1>1 DEF SchedInv, Types, States
<1>4. QueuesInv' /\ queue' \in [Cpus -> SUBSET Tasks] /\ nr_running' \in [Cpus -> Int]
  <2>1. /\ \A u \in T : ~on_rq[u] /\ cpu'[u] = c
        /\ \A u \in Tasks \ T : cpu'[u] = cpu[u]
        /\ \A u \in Tasks : on_rq'[u] <=> on_rq[u] \/ u \in T
    BY <1>1, <1>2
  <2>. QED
    BY <1>1, <2>1, ActivateQueues
<1>5. CpusInv'
  <2>1. \A u \in Tasks : on_cpu[u] => cpu'[u] = cpu[u] /\ (on_rq[u] => on_rq'[u])
    BY <1>2, <1>3
  <2>. QED
    BY <2>1, CpusKept
<1>6. StatesInv'
  <2>1. ASSUME NEW u \in Tasks
        PROVE  /\ state'[u] = "RUNNING" => on_rq'[u] \/ doing'[u] = "new"
               /\ doing'[u] = "new" => state'[u] = "RUNNING" /\ ~on_rq'[u] /\ ~on_cpu'[u]
               /\ state'[u] = "NONE" => ~on_rq'[u] /\ ~on_cpu'[u]
               /\ state'[u] = "WAKING" => ~on_rq'[u] /\ ~on_cpu'[u]
               /\ doing'[u] = "exit" <=> state'[u] = "DEAD"
    <3>1. CASE u \in T
      BY <1>3, <3>1 DEF SchedInv, StatesInv
    <3>2. CASE u \notin T
      BY <1>3, <3>2 DEF SchedInv, StatesInv
    <3>. QED
      BY <3>1, <3>2
  <2>. QED
    BY <2>1 DEF StatesInv
<1>. QED
  BY <1>3, <1>4, <1>5, <1>6

LEMMA WakeQueueKeeps ==
  ASSUME SchedInv, NEW c \in Cpus, WakeQueue(c)
  PROVE  SchedInv'
<1>0. PICK t \in Tasks : t = waker[c].task
  BY WakerFacts DEF WakeQueue
<1>1. /\ waker[c].pc = "queue" /\ waker[c].cpu = c
      /\ DoActivate(c, {t}) /\ WakeEnd(c)
      /\ UNCHANGED <<on_cpu, cpu, cpus, doing, cond, wake_list, ipi, curr, phase,
                     prev, online, active>>
  BY <1>0 DEF WakeQueue, user, remote, cpus, masks
<1>2. Holds(c, t) /\ state[t] = "WAKING" /\ cpu[t] = c /\ c \in online
  BY <1>0, <1>1 DEF Holds, SchedInv, WakersInv
<1>3. /\ \A d \in Cpus : d # c => waker'[d] = waker[d]
      /\ waker' \in [Cpus -> [pc : WakePcs, task : Tasks \cup {Idle}, cpu : Cpus]]
      /\ waker'[c] = NoWake
  BY <1>1, WakerSteps DEF WakePcs
<1>4. /\ QueuesInv' /\ CpusInv' /\ StatesInv'
      /\ queue' \in [Cpus -> SUBSET Tasks] /\ nr_running' \in [Cpus -> Int]
      /\ state' \in [Tasks -> States] /\ on_rq' \in [Tasks -> BOOLEAN]
      /\ state'[t] = "RUNNING" /\ on_rq'[t]
      /\ \A u \in Tasks \ {t} : state'[u] = state[u] /\ on_rq'[u] = on_rq[u]
  <2>1. {t} \in SUBSET Tasks /\ \A u \in {t} : state[u] = "WAKING" /\ cpu[u] = c
    BY <1>2
  <2>2. UNCHANGED <<on_cpu, cpu, cpus, doing, online>> /\ t \in {t}
    BY <1>1
  <2>. QED
    BY <1>1, <1>2, <2>1, <2>2, DoActivateFacts
<1>5. Types'
  BY <1>1, <1>3, <1>4 DEF SchedInv, Types
<1>6. WakersInv' /\ CondInv'
  <2>1. /\ UNCHANGED <<online, cond, doing>>
        /\ \A u \in Tasks : u # t => /\ state'[u] = state[u] /\ on_rq'[u] = on_rq[u]
                                     /\ cpu'[u] = cpu[u]
        /\ waker'[c] = NoWake /\ state'[t] \notin Sleeping
    BY <1>1, <1>3, <1>4 DEF Sleeping
  <2>. QED
    BY <1>2, <1>3, <2>1, HolderGoesOn
<1>7. WakeListInv'
  <2>1. \A e \in Cpus : t \notin wake_list[e]
    BY <1>2 DEF SchedInv, WakeListInv
  <2>2. ASSUME NEW e \in Cpus, NEW u \in Tasks, u # t
        PROVE  /\ Holds(e, u)' <=> Holds(e, u)
               /\ waker[e].task = u /\ waker[e].pc = "queue"
                     => waker'[e].task = u /\ waker'[e].pc = "queue"
    BY <1>0, <1>1, <1>3, <2>2 DEF Holds, NoWake
  <2>3. ASSUME NEW e \in Cpus, NEW u \in wake_list'[e]
        PROVE  /\ state'[u] = "WAKING" /\ cpu'[u] = e
               /\ ipi'[e] /\ e \in online'
               /\ \A g \in Cpus : ~Holds(g, u)'
    <3>1. u \in Tasks /\ u \in wake_list[e] /\ u # t
      BY <1>1, <2>1, <2>3 DEF SchedInv, Types
    <3>2. /\ state[u] = "WAKING" /\ cpu[u] = e /\ ipi[e] /\ e \in online
          /\ \A g \in Cpus : ~Holds(g, u)
      BY <3>1 DEF SchedInv, WakeListInv
    <3>. QED
      BY <1>1, <1>4, <2>2, <3>1, <3>2
  <2>4. ASSUME NEW u \in Tasks, state'[u] = "WAKING"
        PROVE  \/ \E e \in Cpus : waker'[e].task = u /\ waker'[e].pc = "queue"
               \/ u \in wake_list'[cpu'[u]] /\ cpu'[u] \in online' /\ ipi'[cpu'[u]]
    <3>1. u # t /\ state[u] = "WAKING"
      BY <1>4, <2>4
    <3>2. \/ \E e \in Cpus : waker[e].task = u /\ waker[e].pc = "queue"
          \/ u \in wake_list[cpu[u]] /\ cpu[u] \in online /\ ipi[cpu[u]]
      BY <3>1 DEF SchedInv, WakeListInv, WakeupsPending
    <3>. QED
      BY <1>1, <2>2, <3>1, <3>2
  <2>. QED
    BY <2>3, <2>4 DEF WakeListInv, WakeupsPending
<1>. QED
  BY <1>4, <1>5, <1>6, <1>7 DEF SchedInv

LEMMA WakeQueueRemoteKeeps ==
  ASSUME SchedInv, NEW c \in Cpus, WakeQueueRemote(c)
  PROVE  SchedInv'
<1>0. PICK t \in Tasks, d \in Cpus : t = waker[c].task /\ d = waker[c].cpu
  BY WakerFacts DEF WakeQueueRemote, SchedInv, Types
<1>1. /\ waker[c].pc = "queue" /\ WakeEnd(c)
      /\ wake_list' = [wake_list EXCEPT ![d] = @ \cup {t}]
      /\ ipi' = [ipi EXCEPT ![d] = @ \/ wake_list[d] = {}]
      /\ UNCHANGED <<state, on_rq, on_cpu, cpu, doing, cond, queue, nr_running,
                     curr, phase, prev, online, active>>
  BY <1>0 DEF WakeQueueRemote, SendsIpi, tasks, user, rqs, cpus, masks
<1>2. Holds(c, t) /\ state[t] = "WAKING" /\ cpu[t] = d /\ d \in online
  BY <1>0, <1>1 DEF Holds, SchedInv, WakersInv
<1>3. /\ \A e \in Cpus : e # c => waker'[e] = waker[e]
      /\ waker' \in [Cpus -> [pc : WakePcs, task : Tasks \cup {Idle}, cpu : Cpus]]
      /\ waker'[c] = NoWake
  BY <1>1, WakerSteps DEF WakePcs
<1>4. /\ wake_list'[d] = wake_list[d] \cup {t}
      /\ \A e \in Cpus : e # d => wake_list'[e] = wake_list[e] /\ ipi'[e] = ipi[e]
      /\ ipi'[d] <=> ipi[d] \/ wake_list[d] = {}
      /\ wake_list' \in [Cpus -> SUBSET Tasks] /\ ipi' \in [Cpus -> BOOLEAN]
  BY <1>1 DEF SchedInv, Types
<1>5. Types'
  BY <1>1, <1>3, <1>4 DEF SchedInv, Types
<1>6. QueuesInv' /\ CpusInv' /\ StatesInv'
  BY <1>1 DEF SchedInv, QueuesInv, CpusInv, StatesInv
<1>7. WakersInv' /\ CondInv'
  <2>1. /\ UNCHANGED <<online, cond, doing>>
        /\ \A u \in Tasks : u # t => /\ state'[u] = state[u] /\ on_rq'[u] = on_rq[u]
                                     /\ cpu'[u] = cpu[u]
        /\ waker'[c] = NoWake /\ state'[t] \notin Sleeping
    BY <1>1, <1>2, <1>3 DEF Sleeping
  <2>. QED
    BY <1>2, <1>3, <2>1, HolderGoesOn
<1>8. WakeListInv'
  <2>1. ipi'[d]
    BY <1>4 DEF SchedInv, WakeListInv
  <2>2. ASSUME NEW e \in Cpus, NEW u \in Tasks, u # t
        PROVE  /\ Holds(e, u)' <=> Holds(e, u)
               /\ waker[e].task = u /\ waker[e].pc = "queue"
                     => waker'[e].task = u /\ waker'[e].pc = "queue"
    BY <1>0, <1>1, <1>3, <2>2 DEF Holds, NoWake
  <2>3. \A e \in Cpus : ~Holds(e, t)'
    BY <1>2, <1>3 DEF Holds, NoWake, SchedInv, WakersInv
  <2>4. ASSUME NEW e \in Cpus, NEW u \in wake_list'[e]
        PROVE  /\ state'[u] = "WAKING" /\ cpu'[u] = e
               /\ ipi'[e] /\ e \in online'
               /\ \A g \in Cpus : ~Holds(g, u)'
    <3>1. u \in Tasks
      BY <1>4, <2>4
    <3>2. CASE u = t
      <4>1. t \notin wake_list[e]
        BY <1>2 DEF SchedInv, WakeListInv
      <4>2. e = d
        BY <1>4, <2>4, <3>2, <4>1
      <4>. QED
        BY <1>1, <1>2, <2>1, <2>3, <3>2, <4>2
    <3>3. CASE u # t
      <4>1. u \in wake_list[e]
        BY <1>4, <2>4, <3>3
      <4>2. /\ state[u] = "WAKING" /\ cpu[u] = e /\ ipi[e] /\ e \in online
            /\ \A g \in Cpus : ~Holds(g, u)
        BY <3>1, <4>1 DEF SchedInv, WakeListInv
      <4>. QED
        BY <1>1, <1>4, <2>1, <2>2, <3>1, <3>3, <4>2
    <3>. QED
      BY <3>2, <3>3
  <2>5. ASSUME NEW u \in Tasks, state'[u] = "WAKING"
        PROVE  \/ \E e \in Cpus : waker'[e].task = u /\ waker'[e].pc = "queue"
               \/ u \in wake_list'[cpu'[u]] /\ cpu'[u] \in online' /\ ipi'[cpu'[u]]
    <3>1. CASE u = t
      BY <1>1, <1>2, <1>4, <2>1, <3>1
    <3>2. CASE u # t
      <4>1. \/ \E e \in Cpus : waker[e].task = u /\ waker[e].pc = "queue"
            \/ u \in wake_list[cpu[u]] /\ cpu[u] \in online /\ ipi[cpu[u]]
        BY <1>1, <2>5 DEF SchedInv, WakeListInv, WakeupsPending
      <4>2. cpu[u] \in Cpus
        BY DEF SchedInv, Types
      <4>. QED
        BY <1>1, <1>4, <2>1, <2>2, <3>2, <4>1, <4>2
    <3>. QED
      BY <3>1, <3>2
  <2>. QED
    BY <2>4, <2>5 DEF WakeListInv, WakeupsPending
<1>. QED
  BY <1>5, <1>6, <1>7, <1>8 DEF SchedInv

LEMMA SchedulerIpiKeeps ==
  ASSUME SchedInv, NEW c \in Cpus, SchedulerIpi(c)
  PROVE  SchedInv'
<1>0. PICK T \in SUBSET Tasks : T = wake_list[c]
  BY DEF SchedInv, Types
<1>1. /\ c \in online /\ DoActivate(c, T)
      /\ ipi' = [ipi EXCEPT ![c] = FALSE]
      /\ wake_list' = [wake_list EXCEPT ![c] = {}]
      /\ UNCHANGED <<on_cpu, cpu, cpus, doing, cond, curr, phase, prev, waker,
                     online, active>>
  BY <1>0 DEF SchedulerIpi, user, cpus, masks
<1>2. \A u \in T : /\ state[u] = "WAKING" /\ cpu[u] = c
                   /\ \A d \in Cpus : ~Holds(d, u)
  BY <1>0 DEF SchedInv, WakeListInv
<1>3. /\ QueuesInv' /\ CpusInv' /\ StatesInv'
      /\ queue' \in [Cpus -> SUBSET Tasks] /\ nr_running' \in [Cpus -> Int]
      /\ state' \in [Tasks -> States] /\ on_rq' \in [Tasks -> BOOLEAN]
      /\ \A u \in T : state'[u] = "RUNNING" /\ on_rq'[u]
      /\ \A u \in Tasks \ T : state'[u] = state[u] /\ on_rq'[u] = on_rq[u]
  <2>1. UNCHANGED <<on_cpu, cpu, cpus, doing, online>>
        /\ \A u \in T : state[u] = "WAKING" /\ cpu[u] = c
    BY <1>1, <1>2
  <2>. QED
    BY <1>1, <2>1, DoActivateFacts
<1>4. /\ \A e \in Cpus : e # c => wake_list'[e] = wake_list[e] /\ ipi'[e] = ipi[e]
      /\ wake_list'[c] = {}
      /\ wake_list' \in [Cpus -> SUBSET Tasks] /\ ipi' \in [Cpus -> BOOLEAN]
  BY <1>1 DEF SchedInv, Types
<1>5. Types'
  BY <1>1, <1>3, <1>4 DEF SchedInv, Types
<1>6. \A d \in Cpus, u \in Tasks : /\ Holds(d, u)' <=> Holds(d, u)
                                   /\ Holds(d, u) => u \notin T
  BY <1>1, <1>2 DEF Holds
<1>7. WakersInv'
  <2>1. ASSUME NEW d \in Cpus, NEW u \in Tasks, Holds(d, u)'
        PROVE  /\ \A e \in Cpus : Holds(e, u)' => e = d
               /\ waker'[d].pc = "remote" => state'[u] \in Sleeping \cup {"RUNNING"}
                                              /\ doing'[u] # "new"
               /\ waker'[d].pc = "spin" => state'[u] \in Sleeping /\ ~on_rq'[u]
               /\ waker'[d].pc = "queue" => state'[u] = "WAKING"
                    /\ cpu'[u] = waker'[d].cpu /\ waker'[d].cpu \in online'
    <3>1. u \in Tasks \ T /\ Holds(d, u)
      BY <1>6, <2>1
    <3>. QED
      BY <1>1, <1>3, <1>6, <3>1 DEF SchedInv, WakersInv
  <2>2. ASSUME NEW d \in Cpus
        PROVE  /\ waker'[d].pc = "idle" <=> waker'[d].task = Idle
               /\ waker'[d].pc # "idle" => d \in online'
    BY <1>1 DEF SchedInv, WakersInv
  <2>. QED
    BY <2>1, <2>2 DEF WakersInv
<1>8. CondInv'
  BY <1>1, <1>3 DEF SchedInv, CondInv, Sleeping
<1>9. WakeListInv'
  <2>1. ASSUME NEW e \in Cpus, NEW u \in wake_list'[e]
        PROVE  /\ state'[u] = "WAKING" /\ cpu'[u] = e
               /\ ipi'[e] /\ e \in online'
               /\ \A g \in Cpus : ~Holds(g, u)'
    <3>1. e # c /\ u \in Tasks /\ u \in wake_list[e]
      BY <1>4, <2>1
    <3>2. /\ state[u] = "WAKING" /\ cpu[u] = e /\ ipi[e] /\ e \in online
          /\ \A g \in Cpus : ~Holds(g, u)
      BY <3>1 DEF SchedInv, WakeListInv
    <3>3. u \notin T
      BY <1>2, <3>1, <3>2
    <3>. QED
      BY <1>1, <1>3, <1>4, <1>6, <3>1, <3>2, <3>3
  <2>2. ASSUME NEW u \in Tasks, state'[u] = "WAKING"
        PROVE  \/ \E e \in Cpus : waker'[e].task = u /\ waker'[e].pc = "queue"
               \/ u \in wake_list'[cpu'[u]] /\ cpu'[u] \in online' /\ ipi'[cpu'[u]]
    <3>1. u \notin T /\ state[u] = "WAKING" /\ cpu[u] \in Cpus
      BY <1>3, <2>2 DEF SchedInv, Types
    <3>2. \/ \E e \in Cpus : waker[e].task = u /\ waker[e].pc = "queue"
          \/ u \in wake_list[cpu[u]] /\ cpu[u] \in online /\ ipi[cpu[u]]
      BY <3>1 DEF SchedInv, WakeListInv, WakeupsPending
    <3>. QED
      BY <1>0, <1>1, <1>4, <3>1, <3>2
  <2>. QED
    BY <2>1, <2>2 DEF WakeListInv, WakeupsPending
<1>. QED
  BY <1>3, <1>5, <1>7, <1>8, <1>9 DEF SchedInv

-----------------------------------------------------------------------------
(* New tasks                                                                *)

LEMMA SchedForkKeeps ==
  ASSUME SchedInv, NEW c \in Cpus, NEW p \in Tasks, NEW t \in Tasks,
         SchedFork(c, p, t)
  PROVE  SchedInv'
<1>1. /\ state[t] = "NONE"
      /\ doing' = [doing EXCEPT ![t] = "new"]
      /\ state' = [state EXCEPT ![t] = "RUNNING"]
      /\ cpu' = [cpu EXCEPT ![t] = c]
      /\ UNCHANGED <<on_rq, on_cpu, cond, queue, nr_running, wake_list, ipi, curr,
                     phase, prev, cpus, waker, online, active>>
  BY DEF SchedFork, rqs, remote, cpus, masks
<1>2. ~on_rq[t] /\ ~on_cpu[t]
  BY <1>1 DEF SchedInv, StatesInv
<1>3. /\ state'[t] = "RUNNING" /\ doing'[t] = "new" /\ cpu'[t] = c
      /\ \A u \in Tasks : u # t => /\ state'[u] = state[u] /\ doing'[u] = doing[u]
                                   /\ cpu'[u] = cpu[u]
      /\ state' \in [Tasks -> States] /\ doing' \in [Tasks -> Doings]
      /\ cpu' \in [Tasks -> Cpus]
  BY <1>1 DEF SchedInv, Types, States, Doings
<1>4. \A d \in Cpus, u \in Tasks : /\ Holds(d, u)' <=> Holds(d, u)
                                   /\ Holds(d, u) => u # t
  BY <1>1 DEF Holds, SchedInv, WakersInv, Sleeping
<1>5. Types'
  BY <1>1, <1>3 DEF SchedInv, Types
<1>6. QueuesInv'
  BY <1>1, <1>2, <1>3 DEF SchedInv, QueuesInv
<1>7. CpusInv'
  <2>1. \A u \in Tasks : on_cpu[u] => cpu'[u] = cpu[u] /\ (on_rq[u] => on_rq'[u])
    BY <1>1, <1>2, <1>3
  <2>. QED
    BY <1>1, <2>1, CpusKept
<1>8. StatesInv'
  BY <1>1, <1>2, <1>3 DEF SchedInv, StatesInv
<1>9. WakersInv'
  BY <1>1, <1>3, <1>4 DEF SchedInv, WakersInv
<1>10. WakeListInv'
  <2>1. ASSUME NEW u \in Tasks, state[u] = "WAKING" \/ state'[u] = "WAKING"
        PROVE  state'[u] = state[u] /\ cpu'[u] = cpu[u]
    BY <1>1, <1>3, <2>1
  <2>. QED
    BY <1>1, <1>4, <2>1, WakeListKept
<1>11. CondInv'
  BY <1>1, <1>3 DEF SchedInv, CondInv, Sleeping
<1>. QED
  BY <1>5, <1>6, <1>7, <1>8, <1>9, <1>10, <1>11 DEF SchedInv

LEMMA WakeUpNewTaskKeeps ==
  ASSUME SchedInv, NEW t \in Tasks, WakeUpNewTask(t)
  PROVE  SchedInv'
<1>1. PICK d \in Cpus : /\ SelectTaskRq(t, d)
                        /\ cpu' = [cpu EXCEPT ![t] = d]
                        /\ Activate(d, {t})
  BY DEF WakeUpNewTask
<1>2. /\ doing[t] = "new" /\ PiFree(t)
      /\ doing' = [doing EXCEPT ![t] = "run"]
      /\ on_rq' = [on_rq EXCEPT ![t] = TRUE]
      /\ UNCHANGED <<state, on_cpu, cond, wake_list, ipi, curr, phase, prev, cpus,
                     waker, online, active>>
  BY DEF WakeUpNewTask, remote, cpus, masks
<1>3. /\ ~on_rq[t] /\ ~on_cpu[t] /\ state[t] = "RUNNING" /\ d \in online
      /\ \A e \in Cpus : ~Holds(e, t)
  BY <1>1, <1>2, SelectOnline DEF SchedInv, StatesInv, PiFree, Holds
<1>4. /\ doing'[t] = "run" /\ cpu'[t] = d /\ on_rq'[t]
      /\ \A u \in Tasks : u # t => /\ on_rq'[u] = on_rq[u] /\ doing'[u] = doing[u]
                                   /\ cpu'[u] = cpu[u]
      /\ on_rq' \in [Tasks -> BOOLEAN] /\ doing' \in [Tasks -> Doings]
      /\ cpu' \in [Tasks -> Cpus]
  BY <1>1, <1>2 DEF SchedInv, Types, Doings
<1>5. /\ QueuesInv' /\ queue' \in [Cpus -> SUBSET Tasks]
      /\ nr_running' \in [Cpus -> Int]
  <2>1. /\ {t} \in SUBSET Tasks /\ \A u \in {t} : ~on_rq[u] /\ cpu'[u] = d
        /\ \A u \in Tasks \ {t} : cpu'[u] = cpu[u]
        /\ \A u \in Tasks : on_rq'[u] <=> on_rq[u] \/ u \in {t}
    BY <1>2, <1>3, <1>4
  <2>2. /\ queue' = [queue EXCEPT ![d] = @ \cup {t}]
        /\ nr_running' = [nr_running EXCEPT ![d] = @ + Cardinality({t})]
        /\ UNCHANGED online
    BY <1>1, <1>2 DEF Activate
  <2>. QED
    BY <1>3, <2>1, <2>2, ActivateQueues
<1>6. Types'
  BY <1>2, <1>4, <1>5 DEF SchedInv, Types
<1>7. CpusInv'
  <2>1. \A u \in Tasks : on_cpu[u] => cpu'[u] = cpu[u] /\ (on_rq[u] => on_rq'[u])
    BY <1>3, <1>4
  <2>. QED
    BY <1>2, <2>1, CpusKept
<1>8. StatesInv'
  BY <1>2, <1>3, <1>4 DEF SchedInv, StatesInv
<1>9. \A e \in Cpus, u \in Tasks : Holds(e, u)' <=> Holds(e, u)
  BY <1>2 DEF Holds
<1>10. WakersInv'
  BY <1>2, <1>3, <1>4, <1>9 DEF SchedInv, WakersInv
<1>11. WakeListInv'
  <2>1. ASSUME NEW u \in Tasks, state[u] = "WAKING" \/ state'[u] = "WAKING"
        PROVE  state'[u] = state[u] /\ cpu'[u] = cpu[u]
    BY <1>2, <1>3, <1>4, <2>1
  <2>. QED
    BY <1>2, <1>9, <2>1, WakeListKept
<1>12. CondInv'
  BY <1>2, <1>3, <1>4 DEF SchedInv, CondInv, Sleeping
<1>. QED
  BY <1>5, <1>6, <1>7, <1>8, <1>10, <1>11, <1>12 DEF SchedInv

-----------------------------------------------------------------------------
(* Tasks that move, and CPUs that go down and come up                       *)

(* The variables that the rest of the invariant does not depend on          *)
Moves == [task : Tasks, src : Cpus, dest : Cpus]

OtherTypes ==
  /\ allowed \in [Tasks -> SUBSET Cpus] /\ contributes \in [Tasks -> BOOLEAN]
  /\ nr_uninterruptible \in [Cpus -> 0 .. Wrap - 1]
  /\ stops \subseteq Moves /\ IsFiniteSet(stops) /\ Cardinality(stops) <= MaxStops

(* A task that no CPU runs moves from one queue to another                  *)
LEMMA MoveKeeps ==
  ASSUME SchedInv, NEW t \in Tasks, NEW c \in Cpus, NEW d \in Cpus,
         on_rq[t], ~on_cpu[t], cpu[t] = c, d # c, d \in online, Move(t, c, d),
         UNCHANGED <<state, on_rq, on_cpu, doing, cond, wake_list, ipi, cpus,
                     waker, online, active>>
  PROVE  SchedInv'
<1>1. /\ queue' = [queue EXCEPT ![c] = @ \ {t}, ![d] = @ \cup {t}]
      /\ nr_running' = [nr_running EXCEPT ![c] = @ - 1, ![d] = @ + 1]
      /\ cpu' = [cpu EXCEPT ![t] = d]
  BY DEF Move
<1>2. /\ queue'[c] = queue[c] \ {t} /\ queue'[d] = queue[d] \cup {t}
      /\ nr_running'[c] = nr_running[c] - 1 /\ nr_running'[d] = nr_running[d] + 1
      /\ \A e \in Cpus : e # c /\ e # d => /\ queue'[e] = queue[e]
                                           /\ nr_running'[e] = nr_running[e]
      /\ queue' \in [Cpus -> SUBSET Tasks] /\ nr_running' \in [Cpus -> Int]
  BY <1>1 DEF SchedInv, Types
<1>3. /\ cpu'[t] = d /\ \A u \in Tasks : u # t => cpu'[u] = cpu[u]
      /\ cpu' \in [Tasks -> Cpus]
  BY <1>1 DEF SchedInv, Types
<1>4. UNCHANGED <<curr, phase, prev>>
  BY DEF cpus
<1>5. Types'
  BY <1>2, <1>3, <1>4 DEF SchedInv, Types
<1>6. QueuesInv'
  <2>1. ASSUME NEW u \in Tasks, NEW e \in Cpus
        PROVE  u \in queue'[e] <=> on_rq'[u] /\ cpu'[u] = e
    <3>1. u \in queue[e] <=> on_rq[u] /\ cpu[u] = e
      BY DEF SchedInv, QueuesInv
    <3>2. u \in queue'[e] <=> (u \in queue[e] /\ ~(e = c /\ u = t)) \/ (e = d /\ u = t)
      BY <1>2
    <3>. QED
      BY <1>3, <3>1, <3>2
  <2>2. ASSUME NEW e \in Cpus PROVE nr_running'[e] = Cardinality(queue'[e])
    <3>1. /\ IsFiniteSet(queue[c]) /\ IsFiniteSet(queue[d])
          /\ t \in queue[c] /\ t \notin queue[d]
      BY QueueFinite DEF SchedInv, QueuesInv
    <3>2. Cardinality(queue[c] \ {t}) = Cardinality(queue[c]) - 1
      BY <3>1, FS_RemoveElement
    <3>3. Cardinality(queue[d] \cup {t}) = Cardinality(queue[d]) + 1
      BY <3>1, FS_AddElement
    <3>4. \A g \in Cpus : nr_running[g] = Cardinality(queue[g])
      BY DEF SchedInv, QueuesInv
    <3>. QED
      BY <1>2, <3>2, <3>3, <3>4
  <2>3. \A e \in Cpus \ online' : queue'[e] = {}
    BY <1>2 DEF SchedInv, QueuesInv
  <2>. QED
    BY <2>1, <2>2, <2>3 DEF QueuesInv
<1>7. CpusInv'
  <2>1. \A u \in Tasks : on_cpu[u] => cpu'[u] = cpu[u] /\ (on_rq[u] => on_rq'[u])
    BY <1>3
  <2>. QED
    BY <2>1, CpusKept
<1>8. StatesInv' /\ CondInv'
  BY DEF SchedInv, StatesInv, CondInv
<1>9. \A e \in Cpus, u \in Tasks : Holds(e, u)' <=> Holds(e, u)
  BY DEF Holds
<1>10. state[t] # "WAKING"
  BY DEF SchedInv, StatesInv
<1>11. WakersInv'
  BY <1>3, <1>9, <1>10 DEF SchedInv, WakersInv
<1>12. WakeListInv'
  <2>1. \A u \in Tasks : state[u] = "WAKING" => cpu'[u] = cpu[u]
    BY <1>3, <1>10
  <2>. QED
    BY <1>9, <2>1, WakeListKept
<1>. QED
  BY <1>5, <1>6, <1>7, <1>8, <1>11, <1>12 DEF SchedInv

LEMMA MigrationCpuStopKeeps ==
  ASSUME SchedInv, OtherTypes, NEW c \in Cpus, MigrationCpuStop(c)
  PROVE  SchedInv'
<1>1. PICK r \in stops : IF CanMigrate(r.task, c, r.dest) /\ r.dest # c
                         THEN Move(r.task, c, r.dest) ELSE UNCHANGED <<rqs, cpu>>
  BY DEF MigrationCpuStop
<1>2. /\ curr[c] = Stopper /\ phase[c] = "run"
      /\ UNCHANGED <<state, on_rq, on_cpu, doing, cond, user, wake_list, ipi,
                     remote, cpus, waker, online, active>>
  BY DEF MigrationCpuStop, user, remote, masks
<1>3. PICK t \in Tasks, d \in Cpus : t = r.task /\ d = r.dest
  BY DEF OtherTypes, Moves
<1>4. CASE CanMigrate(t, c, d) /\ d # c
  <2>1. d \in online /\ cpu[t] = c /\ on_rq[t] /\ Move(t, c, d)
    BY <1>1, <1>3, <1>4 DEF CanMigrate, SchedInv, Types
  <2>2. ~on_cpu[t]
    <3>1. SUFFICES ASSUME on_cpu[t] PROVE FALSE
      OBVIOUS
    <3>2. PICK e \in Cpus : curr[e] = t \/ prev[e] = t
      BY <3>1 DEF SchedInv, CpusInv
    <3>3. e = c
      BY <2>1, <3>2 DEF SchedInv, CpusInv
    <3>4. curr[c] = t
      BY <1>2, <3>2, <3>3 DEF SchedInv, CpusInv
    <3>. QED
      BY <1>2, <3>4, TasksAssumption
  <2>. QED
    BY <1>2, <1>4, <2>1, <2>2, MoveKeeps
<1>5. CASE ~(CanMigrate(t, c, d) /\ d # c)
  BY <1>1, <1>2, <1>3, <1>5, CoreKept DEF core, rqs, SchedInv, Types
<1>. QED
  BY <1>4, <1>5

LEMMA PullKeeps ==
  ASSUME SchedInv, NEW c \in Cpus, NEW t \in Tasks, Pull(c, t)
  PROVE  SchedInv'
<1>1. /\ c \in active /\ on_rq[t] /\ cpu[t] # c /\ ~on_cpu[t]
      /\ Move(t, cpu[t], c)
      /\ UNCHANGED <<state, on_rq, on_cpu, doing, cond, wake_list, ipi, cpus,
                     waker, online, active>>
  BY DEF Pull, user, remote, masks
<1>2. PICK d \in Cpus : d = cpu[t]
  BY DEF SchedInv, Types
<1>3. c \in online
  BY <1>1 DEF SchedInv, Types
<1>. QED
  BY <1>1, <1>2, <1>3, MoveKeeps

(* Where the tasks of a CPU that goes down are sent                         *)
Spread(c, T, f) ==
  /\ cpu' = [t \in Tasks |-> IF t \in T THEN f[t] ELSE cpu[t]]
  /\ queue' = [d \in Cpus |-> IF d = c THEN {}
                              ELSE queue[d] \cup {t \in T : f[t] = d}]
  /\ nr_running' = [d \in Cpus |-> IF d = c THEN 0
                      ELSE nr_running[d] + Cardinality({t \in T : f[t] = d})]

LEMMA CpuDyingKeeps ==
  ASSUME SchedInv, NEW c \in Cpus, CpuDying(c)
  PROVE  SchedInv'
<1>0. PICK P \in SUBSET Tasks : P = wake_list[c]
  BY DEF SchedInv, Types
<1>1. PICK T \in SUBSET Tasks : T = queue[c] \cup P
  BY DEF SchedInv, Types
<1>2. PICK f \in [T -> active] : Spread(c, T, f)
  <2>. DEFINE Q == queue[c] \cup wake_list[c]
  <2>1. \E f \in [Q -> active] : Spread(c, Q, f)
    BY DEF CpuDying, Pendings, Spread
  <2>2. Q = T
    BY <1>0, <1>1
  <2>. HIDE DEF Q
  <2>. QED
    BY <2>1, <2>2
<1>3. /\ c \in online \ active
      /\ \A d \in online : phase[d] = "run" /\ waker[d].pc = "idle"
      /\ state' = [t \in Tasks |-> IF t \in P THEN "RUNNING" ELSE state[t]]
      /\ on_rq' = [t \in Tasks |-> on_rq[t] \/ t \in P]
      /\ wake_list' = [wake_list EXCEPT ![c] = {}]
      /\ on_cpu' = [t \in Tasks |-> on_cpu[t] /\ t # curr[c]]
      /\ curr' = [curr EXCEPT ![c] = Idle]
      /\ online' = online \ {c}
      /\ UNCHANGED <<doing, cond, ipi, phase, prev, waker, active>>
  BY <1>0 DEF CpuDying, Pendings, Preemptible, NoWakeup, Woken, Queued, user
<1>4. Idle \notin Tasks /\ active \subseteq online /\ online \subseteq Cpus
  BY TasksAssumption DEF SchedInv, Types
<1>5. \A t \in P : state[t] = "WAKING" /\ cpu[t] = c /\ ~on_rq[t] /\ ~on_cpu[t]
  BY <1>0 DEF SchedInv, WakeListInv, StatesInv
<1>6. \A t \in T : cpu[t] = c /\ f[t] \in active /\ f[t] # c /\ cpu'[t] = f[t]
                   /\ on_rq'[t]
  <2>1. ASSUME NEW t \in T PROVE cpu[t] = c /\ (on_rq[t] \/ t \in P)
    BY <1>1, <1>5 DEF SchedInv, QueuesInv
  <2>2. \A t \in T : f[t] \in active /\ f[t] # c
    BY <1>3
  <2>3. \A t \in T : cpu'[t] = f[t]
    BY <1>2 DEF Spread
  <2>. QED
    BY <1>3, <2>1, <2>2, <2>3
<1>7. /\ \A t \in Tasks \ T : cpu'[t] = cpu[t] /\ on_rq'[t] = on_rq[t]
                              /\ state'[t] = state[t]
      /\ \A t \in Tasks \ P : on_rq'[t] = on_rq[t] /\ state'[t] = state[t]
      /\ \A t \in P : on_rq'[t] /\ state'[t] = "RUNNING"
      /\ \A t \in Tasks : on_cpu'[t] <=> on_cpu[t] /\ t # curr[c]
  BY <1>1, <1>2, <1>3 DEF Spread, SchedInv, Types
<1>8. /\ curr'[c] = Idle /\ \A d \in Cpus : d # c => curr'[d] = curr[d]
      /\ wake_list'[c] = {} /\ \A d \in Cpus : d # c => wake_list'[d] = wake_list[d]
      /\ queue'[c] = {} /\ nr_running'[c] = 0
      /\ \A d \in Cpus : d # c =>
           /\ queue'[d] = queue[d] \cup {t \in T : f[t] = d}
           /\ nr_running'[d] = nr_running[d] + Cardinality({t \in T : f[t] = d})
  BY <1>2, <1>3 DEF Spread, SchedInv, Types
<1>9. \A d \in Cpus : IsFiniteSet({t \in T : f[t] = d})
                      /\ Cardinality({t \in T : f[t] = d}) \in Nat
  BY TasksAssumption, FS_Subset, FS_CardinalityType
<1>10. Types'
  <2>1. cpu' \in [Tasks -> Cpus] /\ state' \in [Tasks -> States]
    BY <1>2, <1>3, <1>4, <1>6 DEF Spread, SchedInv, Types, States
  <2>2. queue' \in [Cpus -> SUBSET Tasks] /\ nr_running' \in [Cpus -> Int]
    <3>1. ASSUME NEW d \in Cpus
          PROVE  queue'[d] \subseteq Tasks /\ nr_running'[d] \in Int
      <4>1. queue[d] \subseteq Tasks /\ nr_running[d] \in Int
        BY DEF SchedInv, Types
      <4>2. {t \in T : f[t] = d} \subseteq Tasks
        OBVIOUS
      <4>3. CASE d = c
        BY <1>8, <4>3
      <4>4. CASE d # c
        <5>1. PICK G : G = {t \in T : f[t] = d}
          OBVIOUS
        <5>2. queue'[d] = queue[d] \cup G /\ nr_running'[d] = nr_running[d] + Cardinality(G)
          BY <1>8, <4>4, <5>1
        <5>3. G \subseteq Tasks /\ Cardinality(G) \in Nat
          BY <1>9, <4>2, <5>1
        <5>. QED
          BY <4>1, <5>2, <5>3
      <4>. QED
        BY <4>3, <4>4
    <3>2. queue' = [d \in Cpus |-> queue'[d]] /\ nr_running' = [d \in Cpus |-> nr_running'[d]]
      BY <1>2 DEF Spread
    <3>. QED
      BY <3>1, <3>2
  <2>3. /\ on_rq' \in [Tasks -> BOOLEAN] /\ on_cpu' \in [Tasks -> BOOLEAN]
        /\ wake_list' \in [Cpus -> SUBSET Tasks]
        /\ curr' \in [Cpus -> Tasks \cup {Idle, Stopper}]
        /\ active' \subseteq online' /\ online' \subseteq Cpus
    BY <1>3, <1>4 DEF SchedInv, Types
  <2>. QED
    BY <1>3, <2>1, <2>2, <2>3 DEF SchedInv, Types
<1>11. QueuesInv'
  <2>1. ASSUME NEW t \in Tasks, NEW d \in Cpus
        PROVE  t \in queue'[d] <=> on_rq'[t] /\ cpu'[t] = d
    <3>0. t \in queue'[d] <=> d # c /\ (t \in queue[d] \/ (t \in T /\ f[t] = d))
      BY <1>8
    <3>1. /\ t \in queue[d] <=> on_rq[t] /\ cpu[t] = d
          /\ t \in queue[c] <=> on_rq[t] /\ cpu[t] = c
      BY DEF SchedInv, QueuesInv
    <3>2. CASE t \in T
      BY <1>6, <3>0, <3>1, <3>2
    <3>3. CASE t \notin T
      BY <1>1, <1>7, <3>0, <3>1, <3>3
    <3>. QED
      BY <3>2, <3>3
  <2>2. ASSUME NEW d \in Cpus PROVE nr_running'[d] = Cardinality(queue'[d])
    <3>1. CASE d = c
      BY <1>8, <3>1, FS_EmptySet
    <3>2. CASE d # c
      <4>. DEFINE G == {t \in T : f[t] = d}
      <4>1. queue[d] \cap G = {}
        BY <1>6, <3>2 DEF SchedInv, QueuesInv, Types
      <4>2. /\ IsFiniteSet(queue[d]) /\ Cardinality(queue[d]) \in Nat
            /\ IsFiniteSet(G) /\ Cardinality(G) \in Nat
        BY <1>9, QueueFinite, FS_CardinalityType
      <4>3. Cardinality(queue[d] \cup G)
              = Cardinality(queue[d]) + Cardinality(G) - Cardinality(queue[d] \cap G)
        BY <4>2, FS_Union
      <4>4. Cardinality(queue[d] \cap G) = 0
        BY <4>1, FS_EmptySet
      <4>5. nr_running[d] = Cardinality(queue[d])
        BY DEF SchedInv, QueuesInv
      <4>6. /\ queue'[d] = queue[d] \cup G
            /\ nr_running'[d] = nr_running[d] + Cardinality(G)
        BY <1>8, <3>2
      <4>. QED
        BY <4>2, <4>3, <4>4, <4>5, <4>6
    <3>. QED
      BY <3>1, <3>2
  <2>3. ASSUME NEW d \in Cpus \ online' PROVE queue'[d] = {}
    <3>1. CASE d = c
      BY <1>8, <3>1
    <3>2. CASE d # c
      <4>1. d \notin online /\ queue[d] = {}
        BY <1>3, <2>3, <3>2 DEF SchedInv, QueuesInv
      <4>2. {t \in T : f[t] = d} = {}
        BY <1>4, <1>6, <4>1
      <4>. QED
        BY <1>8, <3>2, <4>1, <4>2
    <3>. QED
      BY <3>1, <3>2
  <2>. QED
    BY <2>1, <2>2, <2>3 DEF QueuesInv
<1>12. \A t \in Tasks : on_cpu[t] /\ t # curr[c]
                        => t \notin T /\ cpu'[t] = cpu[t] /\ on_rq'[t] = on_rq[t]
  <2>1. ASSUME NEW t \in Tasks, on_cpu[t], t # curr[c] PROVE cpu[t] # c
    <3>1. PICK d \in Cpus : curr[d] = t \/ prev[d] = t
      BY <2>1 DEF SchedInv, CpusInv
    <3>2. cpu[t] = d
      BY <3>1 DEF SchedInv, CpusInv
    <3>3. CASE d = c
      BY <1>3, <2>1, <3>1, <3>3 DEF SchedInv, CpusInv
    <3>. QED
      BY <3>2, <3>3
  <2>. QED
    BY <1>6, <1>7, <2>1
<1>13. CpusInv'
  <2>1. ASSUME NEW t \in Tasks
        PROVE  on_cpu'[t] <=> \E d \in Cpus : curr'[d] = t \/ prev'[d] = t
    <3>1. on_cpu[t] <=> \E d \in Cpus : curr[d] = t \/ prev[d] = t
      BY DEF SchedInv, CpusInv
    <3>2. CASE t = curr[c]
      <4>1. \A d \in Cpus : (d # c => curr[d] # t) /\ prev[d] # t
        BY <1>3, <3>2 DEF SchedInv, CpusInv
      <4>. QED
        BY <1>3, <1>4, <1>7, <1>8, <3>2, <4>1
    <3>3. CASE t # curr[c]
      BY <1>3, <1>4, <1>7, <1>8, <3>1, <3>3
    <3>. QED
      BY <3>2, <3>3
  <2>2. ASSUME NEW d \in Cpus
        PROVE  /\ curr'[d] \in Tasks => cpu'[curr'[d]] = d
               /\ curr'[d] \in Tasks /\ phase'[d] # "balance" => on_rq'[curr'[d]]
               /\ phase'[d] = "switch" => prev'[d] \in Tasks
               /\ prev'[d] \in Tasks => cpu'[prev'[d]] = d /\ prev'[d] # curr'[d]
                                       /\ phase'[d] = "switch"
               /\ d \notin online' => curr'[d] = Idle /\ phase'[d] = "run"
    <3>1. CASE d = c
      <4>1. phase[c] = "run" /\ prev[c] \notin Tasks
        BY <1>3 DEF SchedInv, CpusInv
      <4>. QED
        BY <1>3, <1>4, <1>8, <3>1, <4>1
    <3>2. CASE d # c
      <4>1. curr[d] \in Tasks => on_cpu[curr[d]] /\ curr[d] # curr[c] /\ cpu[curr[d]] = d
        BY <3>2 DEF SchedInv, CpusInv
      <4>2. phase[d] = "run" /\ prev[d] \notin Tasks
        BY <1>3 DEF SchedInv, CpusInv
      <4>3. curr[d] \in Tasks => on_rq[curr[d]]
        BY <4>2 DEF SchedInv, CpusInv
      <4>4. d \notin online' => curr[d] = Idle
        BY <1>3, <3>2 DEF SchedInv, CpusInv
      <4>. QED
        BY <1>3, <1>8, <1>12, <3>2, <4>1, <4>2, <4>3, <4>4
    <3>. QED
      BY <3>1, <3>2
  <2>. QED
    BY <2>1, <2>2 DEF CpusInv
<1>14. StatesInv'
  <2>1. ASSUME NEW t \in Tasks
        PROVE  /\ state'[t] = "RUNNING" => on_rq'[t] \/ doing'[t] = "new"
               /\ doing'[t] = "new" => state'[t] = "RUNNING" /\ ~on_rq'[t] /\ ~on_cpu'[t]
               /\ state'[t] = "NONE" => ~on_rq'[t] /\ ~on_cpu'[t]
               /\ state'[t] = "WAKING" => ~on_rq'[t] /\ ~on_cpu'[t]
               /\ doing'[t] = "exit" <=> state'[t] = "DEAD"
    <3>1. CASE t \in P
      BY <1>3, <1>5, <1>7, <3>1 DEF SchedInv, StatesInv
    <3>2. CASE t \notin P
      BY <1>3, <1>7, <3>2 DEF SchedInv, StatesInv
    <3>. QED
      BY <3>1, <3>2
  <2>. QED
    BY <2>1 DEF StatesInv
<1>15. \A d \in Cpus : waker[d].pc = "idle"
  BY <1>3 DEF SchedInv, WakersInv
<1>16. WakersInv' /\ \A d \in Cpus, t \in Tasks : ~Holds(d, t)'
  BY <1>3, <1>15 DEF SchedInv, WakersInv, Holds
<1>17. WakeListInv'
  <2>1. ASSUME NEW e \in Cpus, NEW u \in wake_list'[e]
        PROVE  /\ state'[u] = "WAKING" /\ cpu'[u] = e
               /\ ipi'[e] /\ e \in online'
               /\ \A g \in Cpus : ~Holds(g, u)'
    <3>1. e # c /\ u \in Tasks /\ u \in wake_list[e]
      BY <1>8, <2>1 DEF SchedInv, Types
    <3>2. state[u] = "WAKING" /\ cpu[u] = e /\ ipi[e] /\ e \in online
      BY <3>1 DEF SchedInv, WakeListInv
    <3>3. u \notin T
      BY <1>6, <3>1, <3>2
    <3>. QED
      BY <1>3, <1>7, <1>16, <3>1, <3>2, <3>3
  <2>2. ASSUME NEW u \in Tasks, state'[u] = "WAKING"
        PROVE  \/ \E e \in Cpus : waker'[e].task = u /\ waker'[e].pc = "queue"
               \/ u \in wake_list'[cpu'[u]] /\ cpu'[u] \in online' /\ ipi'[cpu'[u]]
    <3>1. u \notin P /\ state[u] = "WAKING" /\ cpu[u] \in Cpus
      BY <1>7, <2>2 DEF SchedInv, Types
    <3>2. u \in wake_list[cpu[u]] /\ cpu[u] \in online /\ ipi[cpu[u]]
      BY <1>15, <3>1 DEF SchedInv, WakeListInv, WakeupsPending
    <3>3. cpu[u] # c
      BY <1>0, <3>1, <3>2
    <3>4. u \notin T
      BY <1>6, <3>3
    <3>. QED
      BY <1>3, <1>7, <1>8, <3>1, <3>2, <3>3, <3>4
  <2>. QED
    BY <2>1, <2>2 DEF WakeListInv, WakeupsPending
<1>18. CondInv'
  BY <1>3, <1>7 DEF SchedInv, CondInv, Sleeping
<1>. QED
  BY <1>10, <1>11, <1>13, <1>14, <1>16, <1>17, <1>18 DEF SchedInv

LEMMA CpuUpKeeps ==
  ASSUME SchedInv, NEW c \in Cpus, CpuUp(c)
  PROVE  SchedInv'
<1>1. /\ c \notin online /\ online' = online \cup {c}
      /\ UNCHANGED <<state, on_rq, on_cpu, cpu, doing, cond, queue, nr_running,
                     wake_list, ipi, curr, phase, prev, waker, active>>
  BY DEF CpuUp, tasks, user, rqs, remote, cpus
<1>2. Types'
  BY <1>1 DEF SchedInv, Types
<1>3. QueuesInv' /\ CpusInv' /\ StatesInv' /\ CondInv'
  BY <1>1 DEF SchedInv, QueuesInv, CpusInv, StatesInv, CondInv
<1>4. \A d \in Cpus, u \in Tasks : Holds(d, u)' <=> Holds(d, u)
  BY <1>1 DEF Holds
<1>5. WakersInv'
  BY <1>1, <1>4 DEF SchedInv, WakersInv
<1>6. WakeListInv'
  BY <1>1, <1>4 DEF SchedInv, Types, WakeListInv, WakeupsPending
<1>. QED
  BY <1>2, <1>3, <1>5, <1>6 DEF SchedInv

-----------------------------------------------------------------------------
(* The affinities, the counters of sleepers and the migrations that wait    *)

LEMMA LoadTypes ==
  ASSUME NEW T \in SUBSET Tasks
  PROVE  Load(T) \in Nat /\ LoadOfWoken(T) \in Nat
<1>1. IsFiniteSet({t \in T : Contributes(t)}) /\ IsFiniteSet({t \in T : contributes[t]})
  BY TasksAssumption, FS_Subset
<1>. QED
  BY <1>1, FS_CardinalityType DEF Load, LoadOfWoken

LEMMA WrappedType ==
  ASSUME NEW n \in Int
  PROVE  Wrapped(n) \in 0 .. Wrap - 1
BY BoundsAssumption DEF Wrapped

LEMMA SelectTypes ==
  ASSUME OtherTypes, SchedInv, NEW t \in Tasks, NEW d \in Cpus, SelectTaskRq(t, d)
  PROVE  allowed' \in [Tasks -> SUBSET Cpus]
<1>1. AllowedAfter(t) \subseteq Cpus
  BY DEF OtherTypes, AllowedAfter
<1>. QED
  BY <1>1 DEF SelectTaskRq, OtherTypes

LEMMA AllowedTyped ==
  ASSUME SchedInv, OtherTypes, [Next]_vars
  PROVE  allowed' \in [Tasks -> SUBSET Cpus] /\ contributes' \in [Tasks -> BOOLEAN]
<1>0. allowed \in [Tasks -> SUBSET Cpus] /\ contributes \in [Tasks -> BOOLEAN]
  BY DEF OtherTypes
<1>1. ASSUME NEW c \in Cpus,
             \/ Schedule(c) \/ PickAfterBalance(c) \/ FinishSwitch(c)
             \/ WakeLock(c) \/ WakeRemote(c) \/ WakeOnCpu(c) \/ WakeQueueRemote(c)
             \/ MigrationCpuStop(c) \/ CpuDownPrepare(c) \/ CpuActive(c) \/ CpuUp(c)
      PROVE  UNCHANGED <<allowed, contributes>>
  BY <1>1 DEF Schedule, PickAfterBalance, FinishSwitch, WakeLock, WakeRemote,
     WakeOnCpu, WakeQueueRemote, MigrationCpuStop, CpuDownPrepare, CpuActive,
     CpuUp, tasks
<1>2. ASSUME NEW c \in Cpus, NEW t \in Tasks, OwnCode(c, t) \/ WakeBegin(c, t) \/ Pull(c, t)
      PROVE  UNCHANGED <<allowed, contributes>>
  BY <1>2 DEF OwnCode, SetState, TestCond, Exit, SchedExec, WakeBegin, Pull, tasks
<1>3. ASSUME NEW c \in Cpus, WakeSelect(c)
      PROVE  allowed' \in [Tasks -> SUBSET Cpus] /\ contributes' \in [Tasks -> BOOLEAN]
  <2>1. contributes' \in [Tasks -> BOOLEAN]
    BY <1>0, <1>3 DEF WakeSelect, Contributes
  <2>2. PICK t \in Tasks : t = waker[c].task
    BY <1>3, WakerFacts DEF WakeSelect
  <2>3. PICK d \in Cpus : SelectTaskRq(t, d)
    BY <1>3, <2>2 DEF WakeSelect
  <2>. QED
    BY <2>1, <2>3, SelectTypes
<1>4. ASSUME NEW c \in Cpus, WakeQueue(c) \/ SchedulerIpi(c)
      PROVE  allowed' \in [Tasks -> SUBSET Cpus] /\ contributes' \in [Tasks -> BOOLEAN]
  BY <1>0, <1>4 DEF WakeQueue, SchedulerIpi, DoActivate, NotWaking
<1>5. ASSUME NEW c \in Cpus, CpuDying(c)
      PROVE  allowed' \in [Tasks -> SUBSET Cpus] /\ contributes' \in [Tasks -> BOOLEAN]
  <2>1. \A t \in Tasks : AllowedAfter(t) \subseteq Cpus /\ allowed[t] \subseteq Cpus
    BY <1>0 DEF AllowedAfter
  <2>. QED
    BY <1>0, <1>5, <2>1 DEF CpuDying, NotWaking
<1>6. ASSUME NEW t \in Tasks, WakeUpNewTask(t)
      PROVE  allowed' \in [Tasks -> SUBSET Cpus] /\ contributes' \in [Tasks -> BOOLEAN]
  BY <1>0, <1>6, SelectTypes DEF WakeUpNewTask
<1>7. ASSUME NEW c \in Cpus, NEW p \in Tasks, NEW t \in Tasks, SchedFork(c, p, t)
      PROVE  allowed' \in [Tasks -> SUBSET Cpus] /\ contributes' \in [Tasks -> BOOLEAN]
  BY <1>0, <1>7 DEF SchedFork
<1>8. ASSUME NEW c \in Cpus, NEW p \in Tasks, NEW t \in Tasks, SetCpusAllowed(c, p, t)
      PROVE  allowed' \in [Tasks -> SUBSET Cpus] /\ contributes' \in [Tasks -> BOOLEAN]
  BY <1>0, <1>8, ChoicesAssumption DEF SetCpusAllowed
<1>9. CASE UNCHANGED vars
  BY <1>0, <1>9 DEF vars, tasks
<1>. QED
  BY <1>0, <1>1, <1>2, <1>3, <1>4, <1>5, <1>6, <1>7, <1>8, <1>9
     DEF Next, WakeContinue

LEMMA CountersTyped ==
  ASSUME SchedInv, OtherTypes, [Next]_vars
  PROVE  nr_uninterruptible' \in [Cpus -> 0 .. Wrap - 1]
<1>. DEFINE N == nr_uninterruptible
<1>0. N \in [Cpus -> 0 .. Wrap - 1] /\ 0 \in 0 .. Wrap - 1
      /\ \A c \in Cpus : N[c] \in Int
  BY BoundsAssumption DEF OtherTypes
<1>1. ASSUME NEW c \in Cpus,
             \/ PickAfterBalance(c) \/ FinishSwitch(c)
             \/ WakeLock(c) \/ WakeRemote(c) \/ WakeSelect(c) \/ WakeQueueRemote(c)
             \/ CpuDownPrepare(c) \/ CpuActive(c) \/ CpuUp(c)
      PROVE  UNCHANGED N
  BY <1>1 DEF PickAfterBalance, FinishSwitch, WakeLock, WakeRemote, WakeSelect,
     WakeQueueRemote, CpuDownPrepare, CpuActive, CpuUp, rqs
<1>2. ASSUME NEW c \in Cpus, NEW t \in Tasks, OwnCode(c, t) \/ WakeBegin(c, t)
      PROVE  UNCHANGED N
  BY <1>2 DEF OwnCode, SetState, TestCond, Exit, SchedExec, WakeBegin, rqs
<1>3. ASSUME NEW c \in Cpus, NEW p \in Tasks, NEW t \in Tasks,
             SchedFork(c, p, t) \/ SetCpusAllowed(c, p, t)
      PROVE  UNCHANGED N
  BY <1>3 DEF SchedFork, SetCpusAllowed, rqs
<1>4. ASSUME NEW c \in Cpus, NEW m \in Int, N' = [N EXCEPT ![c] = Wrapped(m)]
      PROVE  N' \in [Cpus -> 0 .. Wrap - 1]
  BY <1>0, <1>4, WrappedType
<1>5. ASSUME NEW c \in Cpus, NEW T \in SUBSET Tasks, Activate(c, T) \/ DoActivate(c, T)
      PROVE  N' \in [Cpus -> 0 .. Wrap - 1]
  <2>1. N[c] - Load(T) \in Int /\ N[c] - LoadOfWoken(T) \in Int
    BY <1>0, LoadTypes
  <2>2. \/ N' = [N EXCEPT ![c] = Wrapped(N[c] - Load(T))]
        \/ N' = [N EXCEPT ![c] = Wrapped(N[c] - LoadOfWoken(T))]
    BY <1>5 DEF Activate, DoActivate
  <2>. QED
    BY <1>4, <2>1, <2>2
<1>6. ASSUME NEW c \in Cpus, NEW d \in Cpus, NEW t \in Tasks, Move(t, c, d)
      PROVE  N' \in [Cpus -> 0 .. Wrap - 1]
  <2>1. {t} \in SUBSET Tasks /\ Load({t}) \in Nat
    BY LoadTypes
  <2>2. PICK l \in Nat : l = Load({t})
    BY <2>1
  <2>3. N' = [N EXCEPT ![c] = Wrapped(@ + l), ![d] = Wrapped(@ - l)]
    BY <1>6, <2>2 DEF Move
  <2>4. PICK k \in 0 .. Wrap - 1 : k = Wrapped(N[c] + l)
    <3>1. N[c] + l \in Int
      BY <1>0
    <3>. QED
      BY <3>1, WrappedType
  <2>5. N' = [N EXCEPT ![c] = k, ![d] = Wrapped(@ - l)]
    BY <2>3, <2>4
  <2>6. Wrapped(N[d] - l) \in 0 .. Wrap - 1 /\ Wrapped(k - l) \in 0 .. Wrap - 1
    <3>1. N[d] - l \in Int /\ k - l \in Int
      BY <1>0
    <3>. QED
      BY <3>1, WrappedType
  <2>. QED
    BY <1>0, <2>5, <2>6
<1>7. ASSUME NEW c \in Cpus, Schedule(c)
      PROVE  N' \in [Cpus -> 0 .. Wrap - 1]
  <2>1. CASE UNCHANGED rqs
    BY <1>0, <2>1 DEF rqs
  <2>2. CASE curr[c] \in Tasks /\ Deactivate(c, curr[c])
    <3>1. {curr[c]} \in SUBSET Tasks
      BY <2>2
    <3>2. N[c] + Load({curr[c]}) \in Int
      BY <1>0, <3>1, LoadTypes
    <3>. QED
      BY <1>4, <2>2, <3>2 DEF Deactivate
  <2>. QED
    BY <1>7, <2>1, <2>2 DEF Schedule, Leaves, rqs
<1>8. ASSUME NEW c \in Cpus, WakeOnCpu(c) \/ WakeQueue(c)
      PROVE  N' \in [Cpus -> 0 .. Wrap - 1]
  <2>1. PICK t \in Tasks : t = waker[c].task
    BY <1>8, WakerFacts DEF WakeOnCpu, WakeQueue
  <2>2. {t} \in SUBSET Tasks /\ cpu[t] \in Cpus
    BY DEF SchedInv, Types
  <2>3. Activate(cpu[t], {t}) \/ DoActivate(c, {t})
    BY <1>8, <2>1 DEF WakeOnCpu, WakeQueue
  <2>. QED
    BY <1>5, <2>2, <2>3
<1>9. ASSUME NEW c \in Cpus, SchedulerIpi(c)
      PROVE  N' \in [Cpus -> 0 .. Wrap - 1]
  BY <1>5, <1>9 DEF SchedulerIpi, SchedInv, Types
<1>10. ASSUME NEW t \in Tasks, WakeUpNewTask(t)
      PROVE  N' \in [Cpus -> 0 .. Wrap - 1]
  <2>1. {t} \in SUBSET Tasks
    OBVIOUS
  <2>. QED
    BY <1>5, <1>10, <2>1 DEF WakeUpNewTask
<1>11. ASSUME NEW c \in Cpus, MigrationCpuStop(c)
      PROVE  N' \in [Cpus -> 0 .. Wrap - 1]
  <2>1. PICK r \in stops : Move(r.task, c, r.dest) \/ UNCHANGED N
    BY <1>11 DEF MigrationCpuStop, rqs
  <2>2. r.task \in Tasks /\ r.dest \in Cpus
    BY DEF OtherTypes, Moves
  <2>. QED
    BY <1>0, <1>6, <2>1, <2>2
<1>12. ASSUME NEW c \in Cpus, NEW t \in Tasks, Pull(c, t)
      PROVE  N' \in [Cpus -> 0 .. Wrap - 1]
  BY <1>6, <1>12 DEF Pull, SchedInv, Types
<1>13. ASSUME NEW c \in Cpus, CpuDying(c)
      PROVE  N' \in [Cpus -> 0 .. Wrap - 1]
  <2>. DEFINE Q == queue[c] \cup wake_list[c]
              L(d, f) == Load({t \in Q : f[t] = d} \cap queue[c])
              M(d, e) == IF d = e THEN N[c] + Load(queue[c]) - LoadOfWoken(wake_list[c])
                         ELSE 0
  <2>1. PICK f \in [Q -> active], e \in active :
          N' = [d \in Cpus |-> IF d = c THEN 0 ELSE Wrapped(N[d] - L(d, f) + M(d, e))]
    BY <1>13 DEF CpuDying, Pendings
  <2>2. queue[c] \in SUBSET Tasks /\ wake_list[c] \in SUBSET Tasks
    BY DEF SchedInv, Types
  <2>3. ASSUME NEW d \in Cpus
        PROVE  Wrapped(N[d] - L(d, f) + M(d, e)) \in 0 .. Wrap - 1
    <3>1. L(d, f) \in Nat
      <4>1. {t \in Q : f[t] = d} \cap queue[c] \in SUBSET Tasks
        BY <2>2
      <4>. QED
        BY <4>1, LoadTypes
    <3>2. M(d, e) \in Int
      BY <1>0, <2>2, LoadTypes
    <3>3. N[d] \in Int
      BY <1>0
    <3>. HIDE DEF L, M, N
    <3>. QED
      BY <3>1, <3>2, <3>3, WrappedType
  <2>. HIDE DEF L, M
  <2>. QED
    BY <1>0, <2>1, <2>3
<1>14. CASE UNCHANGED vars
  BY <1>0, <1>14 DEF vars, rqs
<1>. QED
  BY <1>0, <1>1, <1>2, <1>3, <1>7, <1>8, <1>9, <1>10, <1>11, <1>12, <1>13, <1>14
     DEF Next, WakeContinue

LEMMA StopsTyped ==
  ASSUME SchedInv, OtherTypes, [Next]_vars
  PROVE  /\ stops' \subseteq Moves /\ IsFiniteSet(stops')
         /\ Cardinality(stops') <= MaxStops
<1>0. /\ stops \subseteq Moves /\ IsFiniteSet(stops)
      /\ Cardinality(stops) \in Nat /\ Cardinality(stops) <= MaxStops
      /\ MaxStops \in Nat
  BY BoundsAssumption, FS_CardinalityType DEF OtherTypes
<1>1. CASE UNCHANGED stops
  BY <1>0, <1>1
<1>2. ASSUME stops' \subseteq stops
      PROVE  /\ stops' \subseteq Moves /\ IsFiniteSet(stops')
             /\ Cardinality(stops') <= MaxStops
  <2>1. /\ IsFiniteSet(stops') /\ Cardinality(stops') <= Cardinality(stops)
        /\ Cardinality(stops') \in Nat
    BY <1>0, <1>2, FS_Subset, FS_CardinalityType
  <2>. QED
    BY <1>0, <1>2, <2>1
<1>3. ASSUME NEW r \in Moves, stops' = stops \cup {r}, Cardinality(stops) < MaxStops
      PROVE  /\ stops' \subseteq Moves /\ IsFiniteSet(stops')
             /\ Cardinality(stops') <= MaxStops
  <2>1. /\ IsFiniteSet(stops')
        /\ Cardinality(stops') = Cardinality(stops)
           \/ Cardinality(stops') = Cardinality(stops) + 1
    BY <1>0, <1>3, FS_AddElement
  <2>. QED
    BY <1>0, <1>3, <2>1
<1>4. ASSUME NEW c \in Cpus,
             \/ Schedule(c) \/ PickAfterBalance(c) \/ FinishSwitch(c)
             \/ WakeContinue(c) \/ SchedulerIpi(c) \/ CpuDownPrepare(c)
             \/ CpuActive(c) \/ CpuUp(c)
      PROVE  UNCHANGED stops
  BY <1>4 DEF Schedule, PickAfterBalance, FinishSwitch, WakeContinue, WakeLock,
     WakeRemote, WakeOnCpu, WakeSelect, WakeQueue, WakeQueueRemote, SchedulerIpi,
     CpuDownPrepare, CpuActive, CpuUp
<1>5. ASSUME NEW c \in Cpus, NEW t \in Tasks,
             SetState(c, t) \/ TestCond(c, t) \/ Exit(c, t) \/ WakeBegin(c, t)
             \/ Pull(c, t)
      PROVE  UNCHANGED stops
  BY <1>5 DEF SetState, TestCond, Exit, WakeBegin, Pull
<1>6. ASSUME NEW c \in Cpus, NEW p \in Tasks, NEW t \in Tasks,
             SchedFork(c, p, t)
      PROVE  UNCHANGED stops
  BY <1>6 DEF SchedFork
<1>7. ASSUME NEW c \in Cpus, MigrationCpuStop(c) \/ CpuDying(c)
      PROVE  stops' \subseteq stops
  BY <1>7 DEF MigrationCpuStop, CpuDying
<1>8. active \subseteq Cpus /\ \A t \in Tasks : cpu[t] \in Cpus
  BY DEF SchedInv, Types
<1>9. ASSUME NEW c \in Cpus, NEW t \in Tasks, SchedExec(c, t)
      PROVE  /\ Cardinality(stops) < MaxStops
             /\ \E r \in Moves : stops' = stops \cup {r}
  <2>1. PICK d \in active : stops' = stops \cup {[task |-> t, src |-> c, dest |-> d]}
    BY <1>9 DEF SchedExec
  <2>2. [task |-> t, src |-> c, dest |-> d] \in Moves
    BY <1>8 DEF Moves
  <2>. QED
    BY <1>9, <2>1, <2>2 DEF SchedExec
<1>10. ASSUME NEW c \in Cpus, NEW p \in Tasks, NEW t \in Tasks, SetCpusAllowed(c, p, t)
       PROVE  \/ UNCHANGED stops
              \/ /\ Cardinality(stops) < MaxStops
                 /\ \E r \in Moves : stops' = stops \cup {r}
  <2>1. CASE UNCHANGED stops
    BY <2>1
  <2>2. CASE Cardinality(stops) < MaxStops /\ \E d \in active :
               stops' = stops \cup {[task |-> t, src |-> cpu[t], dest |-> d]}
    <3>1. PICK d \in active :
            stops' = stops \cup {[task |-> t, src |-> cpu[t], dest |-> d]}
      BY <2>2
    <3>2. [task |-> t, src |-> cpu[t], dest |-> d] \in Moves
      BY <1>8 DEF Moves
    <3>. QED
      BY <2>2, <3>1, <3>2
  <2>. QED
    BY <1>10, <2>1, <2>2 DEF SetCpusAllowed
<1>11. ASSUME NEW t \in Tasks, WakeUpNewTask(t) PROVE UNCHANGED stops
  BY <1>11 DEF WakeUpNewTask
<1>12. CASE UNCHANGED vars
  BY <1>1, <1>12 DEF vars
<1>13. CASE Next
  <2>1. \/ UNCHANGED stops \/ stops' \subseteq stops
        \/ /\ Cardinality(stops) < MaxStops
           /\ \E r \in Moves : stops' = stops \cup {r}
    BY <1>4, <1>5, <1>6, <1>7, <1>9, <1>10, <1>11, <1>13 DEF Next, OwnCode
  <2>. QED
    BY <1>1, <1>2, <1>3, <2>1
<1>. QED
  BY <1>12, <1>13

-----------------------------------------------------------------------------
(* The inductive invariant                                                  *)

LEMMA InitSched ==
  Init => SchedInv /\ OtherTypes
<1>. SUFFICES ASSUME Init PROVE SchedInv /\ OtherTypes
  OBVIOUS
<1>. USE CpusAssumption, TasksAssumption, BoundsAssumption
<1>1. Types
  BY DEF Init, Types, States, Doings, WakePcs, NoWake
<1>2. QueuesInv
  <2>1. Cardinality({InitTask}) = 1 /\ Cardinality({}) = 0
    BY FS_Singleton, FS_EmptySet
  <2>. QED
    BY <2>1 DEF Init, QueuesInv
<1>3. CpusInv /\ StatesInv
  BY DEF Init, CpusInv, StatesInv
<1>4. WakersInv /\ CondInv
  BY DEF Init, WakersInv, CondInv, Holds, NoWake
<1>5. WakeListInv
  BY DEF Init, WakeListInv, WakeupsPending
<1>6. OtherTypes
  BY FS_EmptySet DEF Init, OtherTypes
<1>. QED
  BY <1>1, <1>2, <1>3, <1>4, <1>5, <1>6 DEF SchedInv

LEMMA SchedStep ==
  ASSUME SchedInv, OtherTypes, [Next]_vars
  PROVE  SchedInv'
<1>1. CASE UNCHANGED vars
  BY <1>1, CoreKept DEF vars, core, tasks, user, rqs, remote, cpus, masks, SchedInv, Types
<1>2. ASSUME NEW c \in Cpus, CpuDownPrepare(c) \/ CpuActive(c) PROVE SchedInv'
  <2>1. UNCHANGED core
    BY <1>2 DEF CpuDownPrepare, CpuActive, core, tasks, rqs
  <2>2. active' \subseteq online
    BY <1>2 DEF CpuDownPrepare, CpuActive, SchedInv, Types
  <2>. QED
    BY <2>1, <2>2, CoreKept
<1>3. ASSUME NEW c \in Cpus, WakeContinue(c) PROVE SchedInv'
  BY <1>3, WakeLockKeeps, WakeRemoteKeeps, WakeOnCpuKeeps, WakeSelectKeeps,
     WakeQueueKeeps, WakeQueueRemoteKeeps DEF WakeContinue
<1>4. ASSUME NEW c \in Cpus, NEW t \in Tasks, OwnCode(c, t) PROVE SchedInv'
  <2>1. CASE SchedExec(c, t)
    <3>1. UNCHANGED core /\ active' \subseteq online
      BY <2>1 DEF SchedExec, core, tasks, rqs, masks, SchedInv, Types
    <3>. QED
      BY <3>1, CoreKept
  <2>. QED
    BY <1>4, <2>1, OwnCodeKeeps DEF OwnCode
<1>5. ASSUME NEW c \in Cpus, NEW p \in Tasks, NEW t \in Tasks, SetCpusAllowed(c, p, t)
      PROVE  SchedInv'
  <2>1. UNCHANGED core /\ active' \subseteq online
    BY <1>5 DEF SetCpusAllowed, core, rqs, masks, SchedInv, Types
  <2>. QED
    BY <2>1, CoreKept
<1>. QED
  BY <1>1, <1>2, <1>3, <1>4, <1>5, ScheduleKeeps, PickAfterBalanceKeeps,
     FinishSwitchKeeps, SchedulerIpiKeeps, MigrationCpuStopKeeps, CpuDyingKeeps,
     CpuUpKeeps, WakeBeginKeeps, PullKeeps, WakeUpNewTaskKeeps, SchedForkKeeps
     DEF Next

(* The invariant that the proofs of the properties rest on: a task is on    *)
(* the queue of its own CPU and on no other, runs on one CPU at most, has   *)
(* one waker at most, and is on the list of a CPU that will be interrupted  *)
(* when its wakeup was handed over                                          *)
THEOREM Invariant == Spec => [](SchedInv /\ OtherTypes)
<1>1. SchedInv /\ OtherTypes /\ [Next]_vars => (SchedInv /\ OtherTypes)'
  <2>. SUFFICES ASSUME SchedInv, OtherTypes, [Next]_vars PROVE (SchedInv /\ OtherTypes)'
    OBVIOUS
  <2>1. SchedInv'
    BY SchedStep
  <2>2. OtherTypes'
    BY AllowedTyped, CountersTyped, StopsTyped DEF OtherTypes, Moves
  <2>. QED
    BY <2>1, <2>2
<1>. QED
  BY <1>1, InitSched, PTL DEF Spec

-----------------------------------------------------------------------------
(* nr_running() adds up the tasks on all queues                             *)

SumOf(f, S) == MapThenSumSet(LAMBDA c : f[c], S)

(* A sum over a finite set is the h that it unfolds to, however the terms   *)
(* are chosen                                                               *)
LEMMA SumIs ==
  ASSUME NEW S, IsFiniteSet(S), NEW f, NEW h, h[{}] = 0,
         \A s \in SUBSET S : \A x \in s : h[s] = f[x] + h[s \ {x}]
  PROVE  SumOf(f, S) = h[S]
<1>. DEFINE F(g) == [s \in SUBSET S |->
                       IF s = {} THEN 0
                       ELSE f[CHOOSE x \in s : TRUE] + g[s \ {CHOOSE x \in s : TRUE}]]
            iter == CHOOSE g : g = F(g)
            Bad == {s \in SUBSET S : iter[s] # h[s]}
<1>1. SumOf(f, S) = iter[S]
  BY DEF SumOf, MapThenSumSet, MapThenFoldSet
<1>2. iter = F(iter)
  <2>. DEFINE k == [s \in SUBSET S |-> h[s]]
  <2>1. ASSUME NEW s \in SUBSET S
        PROVE  k[s] = IF s = {} THEN 0
                      ELSE f[CHOOSE x \in s : TRUE] + k[s \ {CHOOSE x \in s : TRUE}]
    OBVIOUS
  <2>2. k = F(k)
    BY <2>1
  <2>. QED
    BY <2>2
<1>3. \A s \in SUBSET S :
        iter[s] = IF s = {} THEN 0
                  ELSE f[CHOOSE x \in s : TRUE] + iter[s \ {CHOOSE x \in s : TRUE}]
  <2>. HIDE DEF iter
  <2>. QED
    BY <1>2
<1>. HIDE DEF iter
<1>4. Bad = {}
  <2>1. SUFFICES ASSUME Bad # {} PROVE FALSE
    OBVIOUS
  <2>2. Bad \subseteq FiniteSubsetsOf(S)
    BY FS_Subset DEF FiniteSubsetsOf
  <2>3. PICK m \in Bad : \A y \in Bad : ~(<<y, m>> \in StrictSubsetOrdering(S))
    BY <2>1, <2>2, FS_StrictSubsetOrderingWellFounded, WFMin
  <2>4. m # {}
    BY <1>3
  <2>5. PICK x \in m : x = CHOOSE y \in m : TRUE
    BY <2>4
  <2>6. iter[m] = f[x] + iter[m \ {x}] /\ h[m] = f[x] + h[m \ {x}]
    BY <1>3, <2>4, <2>5
  <2>7. m \ {x} \in Bad
    BY <2>6
  <2>8. <<m \ {x}, m>> \in StrictSubsetOrdering(S)
    BY DEF StrictSubsetOrdering
  <2>. QED
    BY <2>3, <2>7, <2>8
<1>. QED
  BY <1>1, <1>4

LEMMA NrRunningCounts ==
  ASSUME SchedInv
  PROVE  NrRunning = Cardinality(UNION {queue[c] : c \in online})
<1>. DEFINE U(s) == UNION {queue[c] : c \in s}
            h == [s \in SUBSET online |-> Cardinality(U(s))]
<1>1. online \in SUBSET Cpus /\ IsFiniteSet(online)
  BY CpusAssumption, FS_Subset DEF SchedInv, Types
<1>2. h[{}] = 0
  <2>1. U({}) = {}
    OBVIOUS
  <2>. QED
    BY <2>1, FS_EmptySet
<1>3. ASSUME NEW s \in SUBSET online, NEW c \in s
      PROVE  h[s] = nr_running[c] + h[s \ {c}]
  <2>1. U(s) = queue[c] \cup U(s \ {c})
    OBVIOUS
  <2>2. queue[c] \cap U(s \ {c}) = {}
    BY <1>1 DEF SchedInv, QueuesInv, Types
  <2>3. queue[c] \subseteq Tasks /\ U(s \ {c}) \subseteq Tasks
    BY <1>1 DEF SchedInv, Types
  <2>. DEFINE A == queue[c]  B == U(s \ {c})
  <2>4. IsFiniteSet(A) /\ IsFiniteSet(B)
    BY <2>3, TasksAssumption, FS_Subset
  <2>5. h[s] = Cardinality(U(s)) /\ h[s \ {c}] = Cardinality(B)
    OBVIOUS
  <2>6. nr_running[c] = Cardinality(A)
    BY <1>1 DEF SchedInv, QueuesInv
  <2>. HIDE DEF A, B, U, h
  <2>7. Cardinality(A \cup B) = Cardinality(A) + Cardinality(B) - Cardinality(A \cap B)
    BY <2>4, FS_Union
  <2>8. Cardinality(A \cap B) = 0
    BY <2>2, FS_EmptySet DEF A, B
  <2>9. Cardinality(A) \in Nat /\ Cardinality(B) \in Nat
    BY <2>4, FS_CardinalityType
  <2>10. U(s) = A \cup B
    BY <2>1 DEF A, B
  <2>. QED
    BY <2>5, <2>6, <2>7, <2>8, <2>9, <2>10
<1>4. NrRunning = SumOf(nr_running, online)
  BY DEF NrRunning, SumOf
<1>5. h[online] = Cardinality(U(online))
  OBVIOUS
<1>. HIDE DEF h
<1>6. SumOf(nr_running, online) = h[online]
  BY <1>1, <1>2, <1>3, SumIs
<1>. QED
  BY <1>4, <1>5, <1>6

(* The count of runnable threads that the hotplug and the vbfs governor    *)
(* read is that of the tasks on a queue, each on its own CPU's: whatever    *)
(* tasks sleep, wake, move or are moved off a CPU that goes down            *)
THEOREM RunnableCountExact == Spec => []CountExact
<1>1. SchedInv => CountExact
  <2>. SUFFICES ASSUME SchedInv PROVE CountExact
    OBVIOUS
  <2>1. UNION {queue[c] : c \in online} = {t \in Tasks : on_rq[t]}
    <3>1. ASSUME NEW t \in Tasks PROVE t \in UNION {queue[c] : c \in online} <=> on_rq[t]
      <4>1. t \in queue[cpu[t]] <=> on_rq[t]
        BY DEF SchedInv, Types, QueuesInv
      <4>2. cpu[t] \in online \/ t \notin queue[cpu[t]]
        BY DEF SchedInv, Types, QueuesInv
      <4>3. \A c \in online : t \in queue[c] => on_rq[t]
        BY DEF SchedInv, Types, QueuesInv
      <4>. QED
        BY <4>1, <4>2, <4>3
    <3>2. UNION {queue[c] : c \in online} \subseteq Tasks
      BY DEF SchedInv, Types
    <3>. QED
      BY <3>1, <3>2
  <2>2. \A t \in Tasks, c \in Cpus : t \in queue[c] <=> on_rq[t] /\ cpu[t] = c
    BY DEF SchedInv, QueuesInv
  <2>. QED
    BY <2>1, <2>2, NrRunningCounts DEF CountExact
<1>. QED
  BY <1>1, Invariant, PTL

-----------------------------------------------------------------------------
(* Types, and wakeups that are not lost                                     *)

(* The variables have the values that TypeOK says                           *)
THEOREM TypeCorrect == Spec => []TypeOK
<1>1. SchedInv /\ OtherTypes => TypeOK
  <2>. SUFFICES ASSUME SchedInv, OtherTypes PROVE TypeOK
    OBVIOUS
  <2>1. nr_running \in [Cpus -> 0 .. Cardinality(Tasks)]
    <3>1. ASSUME NEW c \in Cpus PROVE nr_running[c] \in 0 .. Cardinality(Tasks)
      <4>1. /\ Cardinality(queue[c]) <= Cardinality(Tasks)
            /\ Cardinality(queue[c]) \in Nat /\ Cardinality(Tasks) \in Nat
        BY TasksAssumption, QueueFinite, FS_Subset, FS_CardinalityType
      <4>. QED
        BY <4>1 DEF SchedInv, QueuesInv
    <3>. QED
      BY <3>1 DEF SchedInv, Types
  <2>. QED
    BY <2>1 DEF TypeOK, SchedInv, Types, OtherTypes, Moves, Doings, WakePcs
<1>. QED
  BY <1>1, Invariant, PTL

(* A task that was woken is with its waker, or on the list of a CPU that is *)
(* online and will be interrupted                                           *)
THEOREM WokenTasksArrive == Spec => []WakeupsPending
<1>1. SchedInv => WakeupsPending
  BY DEF SchedInv, WakeListInv
<1>. QED
  BY <1>1, Invariant, PTL

(* No task stays off the queues when what it waits for has happened, unless *)
(* its waker is still on its way                                            *)
THEOREM NoWakeupIsLost == Spec => []NoLostWakeup
<1>1. SchedInv => NoLostWakeup
  <2>. SUFFICES ASSUME SchedInv, NEW t \in Tasks,
                       cond[t], ~on_rq[t], doing[t] # "new",
                       state[t] \notin {"NONE", "WAKING", "DEAD"}
                PROVE  \E c \in Cpus : waker[c].task = t
    BY DEF NoLostWakeup
  <2>1. state[t] \in Sleeping
    BY DEF SchedInv, Types, States, StatesInv
  <2>. QED
    BY <2>1 DEF SchedInv, CondInv
<1>. QED
  BY <1>1, Invariant, PTL

-----------------------------------------------------------------------------
(* The scheduler implements TaskLife: what each part of a task's life is    *)

LifeFacts ==
  \A t \in Tasks :
    /\ Running(t) => LifeOf(t) = "running" /\ on_cpu[t]
    /\ on_rq[t] /\ ~Running(t) => LifeOf(t) = "ready"
    /\ doing[t] = "new" => LifeOf(t) = "new" /\ ~on_rq[t] /\ ~Running(t)
    /\ state[t] = "NONE" => LifeOf(t) = "none" /\ ~on_rq[t] /\ ~Running(t)
    /\ state[t] = "WAKING" => LifeOf(t) = "waking" /\ ~on_rq[t] /\ ~Running(t)
    /\ ~on_rq[t] /\ ~Running(t) =>
         /\ state[t] \in Sleeping => LifeOf(t) = "asleep"
         /\ state[t] = "DEAD" => LifeOf(t) = "dead"
         /\ doing[t] # "new" => state[t] \in Sleeping \cup {"NONE", "WAKING", "DEAD"}

LEMMA LifeDetermined == SchedInv => LifeFacts
<1>. SUFFICES ASSUME SchedInv, NEW t \in Tasks
              PROVE  /\ Running(t) => LifeOf(t) = "running" /\ on_cpu[t]
                     /\ on_rq[t] /\ ~Running(t) => LifeOf(t) = "ready"
                     /\ doing[t] = "new" => LifeOf(t) = "new" /\ ~on_rq[t] /\ ~Running(t)
                     /\ state[t] = "NONE" => LifeOf(t) = "none" /\ ~on_rq[t] /\ ~Running(t)
                     /\ state[t] = "WAKING" => LifeOf(t) = "waking" /\ ~on_rq[t] /\ ~Running(t)
                     /\ ~on_rq[t] /\ ~Running(t) =>
                          /\ state[t] \in Sleeping => LifeOf(t) = "asleep"
                          /\ state[t] = "DEAD" => LifeOf(t) = "dead"
                          /\ doing[t] # "new" =>
                               state[t] \in Sleeping \cup {"NONE", "WAKING", "DEAD"}
  BY DEF LifeFacts
<1>1. Running(t) => on_cpu[t]
  BY DEF SchedInv, CpusInv, Running
<1>2. /\ state[t] = "RUNNING" => on_rq[t] \/ doing[t] = "new"
      /\ doing[t] = "new" => state[t] = "RUNNING" /\ ~on_rq[t] /\ ~Running(t)
      /\ state[t] = "NONE" => ~on_rq[t] /\ ~Running(t)
      /\ state[t] = "WAKING" => ~on_rq[t] /\ ~Running(t)
      /\ state[t] \in Sleeping \cup {"NONE", "RUNNING", "WAKING", "DEAD"}
  BY <1>1 DEF SchedInv, StatesInv, Types, States
<1>3. CASE Running(t)
  BY <1>1, <1>2, <1>3 DEF LifeOf, Sleeping
<1>4. CASE ~Running(t) /\ on_rq[t]
  BY <1>2, <1>4 DEF LifeOf, Sleeping
<1>5. CASE doing[t] = "new"
  BY <1>2, <1>5 DEF LifeOf, Sleeping
<1>6. CASE ~on_rq[t] /\ ~Running(t) /\ state[t] \in Sleeping
  BY <1>2, <1>6 DEF LifeOf, Sleeping
<1>7. CASE state[t] = "NONE"
  BY <1>2, <1>7 DEF LifeOf, Sleeping
<1>8. CASE state[t] = "WAKING"
  BY <1>2, <1>8 DEF LifeOf, Sleeping
<1>9. CASE ~on_rq[t] /\ ~Running(t) /\ state[t] = "DEAD"
  BY <1>2, <1>9 DEF LifeOf, Sleeping
<1>. QED
  BY <1>2, <1>3, <1>4, <1>5, <1>6, <1>7, <1>8, <1>9

LEMMA LifeFactsAfter == SchedInv' => LifeFacts'
BY LifeDetermined, PTL

(* A task's life goes on if nothing happens to it, or it keeps running or   *)
(* keeps waiting for its turn                                               *)
LEMMA LifeSame ==
  ASSUME SchedInv, SchedInv', NEW t \in Tasks, Running(t)' <=> Running(t),
         \/ Running(t)
         \/ on_rq[t] /\ on_rq'[t]
         \/ /\ on_rq'[t] = on_rq[t] /\ state'[t] = state[t]
            /\ doing'[t] = "new" <=> doing[t] = "new"
  PROVE  LifeOf(t)' = LifeOf(t)
<1>1. LifeFacts /\ LifeFacts'
  BY LifeDetermined, LifeFactsAfter
<1>. QED
  BY <1>1 DEF LifeFacts

LEMMA LifeStutters ==
  ASSUME SchedInv, SchedInv', UNCHANGED <<curr, online>>,
         \A u \in Tasks :
           \/ Running(u)
           \/ on_rq[u] /\ on_rq'[u]
           \/ /\ on_rq'[u] = on_rq[u] /\ state'[u] = state[u]
              /\ doing'[u] = "new" <=> doing[u] = "new"
  PROVE  UNCHANGED Life!vars
<1>1. ASSUME NEW u \in Tasks PROVE Running(u)' <=> Running(u)
  BY DEF Running
<1>2. \A u \in Tasks : LifeOf(u)' = LifeOf(u)
  BY <1>1, LifeSame
<1>. QED
  BY <1>2 DEF Life!vars

-----------------------------------------------------------------------------
(* Each step is one of TaskLife or changes nothing of it                    *)

Lives == UNCHANGED Life!vars \/ Life!Next

LEMMA SwitchLives ==
  ASSUME SchedInv, SchedInv', NEW c \in Cpus, c \in online,
         NEW n \in Tasks \cup {Idle, Stopper}, Switched(c, n),
         UNCHANGED <<cpu, online>>,
         \A u \in Tasks : u # curr[c] => /\ on_rq'[u] = on_rq[u]
                                         /\ state'[u] = state[u]
                                         /\ doing'[u] = doing[u]
  PROVE  Lives
<1>1. /\ curr'[c] = n /\ \A d \in Cpus : d # c => curr'[d] = curr[d]
      /\ curr' = [curr EXCEPT ![c] = n]
  BY DEF Switched, SchedInv, Types
<1>2. Idle \notin Tasks /\ Stopper \notin Tasks /\ Idle # Stopper
  BY TasksAssumption
<1>3. LifeFacts /\ LifeFacts'
  BY LifeDetermined, LifeFactsAfter
<1>4. CASE n = curr[c]
  <2>1. UNCHANGED curr
    BY <1>1, <1>4 DEF SchedInv, Types
  <2>2. \A u \in Tasks : u = curr[c] => Running(u)
    BY DEF Running
  <2>3. UNCHANGED Life!vars
    BY <2>1, <2>2, LifeStutters
  <2>. QED
    BY <2>3 DEF Lives
<1>5. CASE n # curr[c]
  <2>. DEFINE N == IF n = Stopper THEN Idle ELSE n
  <2>0. PICK r \in Tasks \cup {Idle, Stopper} : r = curr[c]
    BY DEF SchedInv, Types
  <2>. DEFINE R == IF r = Stopper THEN Idle ELSE r
  <2>1. curr[c] \in Tasks => \A d \in Cpus : curr[d] = curr[c] => d = c
    BY RunningTask
  <2>2. n \in Tasks => LifeOf(n) = "ready" /\ LifeOf(n)' = "running"
    <3>1. SUFFICES ASSUME n \in Tasks
                   PROVE  LifeOf(n) = "ready" /\ LifeOf(n)' = "running"
      OBVIOUS
    <3>2. on_rq[n] /\ cpu[n] = c
      BY <1>5, <3>1 DEF Switched, SchedInv, QueuesInv
    <3>3. ~Running(n)
      BY <1>5, <3>1, <3>2 DEF SchedInv, CpusInv, Running
    <3>4. Running(n)'
      BY <1>1 DEF Running
    <3>. QED
      BY <1>3, <3>1, <3>2, <3>3, <3>4 DEF LifeFacts
  <2>3. PICK l \in Life!Left : r \in Tasks => LifeOf(r)' = l
    <3>1. CASE r \notin Tasks
      BY <3>1 DEF Life!Left
    <3>2. CASE r \in Tasks
      <4>1. ~Running(r)'
        BY <1>1, <1>5, <2>0, <2>1, <3>2 DEF Running
      <4>2. on_cpu'[r]
        BY <2>0, <3>2, RunningTask DEF Switched
      <4>3. state'[r] \notin {"NONE", "WAKING"} /\ doing'[r] # "new"
        BY <3>2, <4>2 DEF SchedInv, StatesInv
      <4>4. LifeOf(r)' \in {"ready", "asleep", "dead"}
        BY <1>3, <3>2, <4>1, <4>3 DEF LifeFacts
      <4>. QED
        BY <4>4 DEF Life!Left
    <3>. QED
      BY <3>1, <3>2
  <2>5. ASSUME NEW u \in Tasks
        PROVE  LifeOf(u)' = IF u = N THEN "running" ELSE IF u = R THEN l ELSE LifeOf(u)
    <3>1. CASE u = n
      BY <1>2, <2>2, <3>1
    <3>2. CASE u # n /\ u = r
      BY <1>2, <2>3, <3>2
    <3>3. CASE u # n /\ u # r
      <4>1. Running(u)' <=> Running(u)
        BY <1>1, <2>0, <3>3 DEF Running
      <4>2. LifeOf(u)' = LifeOf(u)
        BY <2>0, <3>3, <4>1, LifeSame
      <4>. QED
        BY <1>2, <3>3, <4>2
    <3>. QED
      BY <3>1, <3>2, <3>3
  <2>. DEFINE life == [t \in Tasks |-> LifeOf(t)]
              runs == [d \in Cpus |-> IF curr[d] = Stopper THEN Idle ELSE curr[d]]
  <2>4. N \in {t \in Tasks : life[t] = "ready"} \cup {Idle}
    BY <1>2, <2>2
  <2>6. runs' = [runs EXCEPT ![c] = N]
    BY <1>1
  <2>7. life' = [t \in Tasks |-> IF t = N THEN "running"
                                 ELSE IF t = runs[c] THEN l ELSE life[t]]
    BY <2>0, <2>5
  <2>8. Life!Switch(c)
    <3>1. \E m \in {t \in Tasks : life[t] = "ready"} \cup {Idle}, k \in Life!Left :
            /\ runs' = [runs EXCEPT ![c] = m]
            /\ life' = [t \in Tasks |-> IF t = m THEN "running"
                                        ELSE IF t = runs[c] THEN k ELSE life[t]]
      <4>. HIDE DEF N, life, runs
      <4>. QED
        BY <2>3, <2>4, <2>6, <2>7
    <3>. QED
      BY <3>1 DEF Life!Switch
  <2>. QED
    BY <2>8 DEF Lives, Life!Next
<1>. QED
  BY <1>4, <1>5

(* Some tasks change what they do, all the others and the CPUs do not       *)
LEMMA SomeLive ==
  ASSUME SchedInv, SchedInv', UNCHANGED <<curr, online>>,
         NEW T \in SUBSET Tasks, NEW l,
         \A u \in Tasks \ T : /\ on_rq'[u] = on_rq[u] /\ state'[u] = state[u]
                              /\ doing'[u] = doing[u],
         \A u \in T : LifeOf(u)' = l
  PROVE  /\ [t \in Tasks |-> LifeOf(t)]'
              = [t \in Tasks |-> IF t \in T THEN l ELSE LifeOf(t)]
         /\ UNCHANGED [c \in Cpus |-> IF curr[c] = Stopper THEN Idle ELSE curr[c]]
<1>1. ASSUME NEW u \in Tasks \ T PROVE LifeOf(u)' = LifeOf(u)
  <2>1. Running(u)' <=> Running(u)
    BY DEF Running
  <2>. QED
    BY <2>1, LifeSame
<1>. QED
  BY <1>1

LEMMA WakeLives ==
  ASSUME SchedInv, SchedInv', UNCHANGED <<curr, online>>, NEW t \in Tasks,
         \A u \in Tasks \ {t} : /\ on_rq'[u] = on_rq[u] /\ state'[u] = state[u]
                                /\ doing'[u] = doing[u],
         LifeOf(t) = "asleep", LifeOf(t)' \in {"waking", "ready"}
  PROVE  Lives
<1>. DEFINE life == [u \in Tasks |-> LifeOf(u)]
<1>1. PICK l \in {"waking", "ready"} : LifeOf(t)' = l
  OBVIOUS
<1>2. /\ life' = [u \in Tasks |-> IF u \in {t} THEN l ELSE LifeOf(u)]
      /\ UNCHANGED [c \in Cpus |-> IF curr[c] = Stopper THEN Idle ELSE curr[c]]
  <2>1. {t} \in SUBSET Tasks /\ \A u \in {t} : LifeOf(u)' = l
    BY <1>1
  <2>. QED
    BY <2>1, SomeLive
<1>3. life' = [life EXCEPT ![t] = l]
  BY <1>2
<1>4. Life!Wake(t)
  BY <1>2, <1>3 DEF Life!Wake
<1>. QED
  BY <1>4 DEF Lives, Life!Next

LEMMA ArriveLives ==
  ASSUME SchedInv, SchedInv', UNCHANGED <<curr, online>>, NEW T \in SUBSET Tasks,
         \A u \in Tasks \ T : /\ on_rq'[u] = on_rq[u] /\ state'[u] = state[u]
                              /\ doing'[u] = doing[u],
         \A u \in T : state[u] = "WAKING" /\ on_rq'[u]
  PROVE  Lives
<1>. DEFINE life == [u \in Tasks |-> LifeOf(u)]
<1>1. \A u \in T : LifeOf(u) = "waking" /\ LifeOf(u)' = "ready"
  <2>1. LifeFacts /\ LifeFacts'
    BY LifeDetermined, LifeFactsAfter
  <2>2. ASSUME NEW u \in T PROVE LifeOf(u) = "waking" /\ ~Running(u)
    BY <2>1 DEF LifeFacts
  <2>3. \A u \in T : ~Running(u)'
    BY <2>2 DEF Running
  <2>. QED
    BY <2>1, <2>2, <2>3 DEF LifeFacts
<1>2. /\ life' = [u \in Tasks |-> IF u \in T THEN "ready" ELSE LifeOf(u)]
      /\ UNCHANGED [c \in Cpus |-> IF curr[c] = Stopper THEN Idle ELSE curr[c]]
  BY <1>1, SomeLive
<1>3. life' = [u \in Tasks |-> IF u \in T THEN "ready" ELSE life[u]]
  BY <1>2
<1>4. CASE T = {}
  <2>1. UNCHANGED life
    BY <1>2, <1>4
  <2>. QED
    BY <1>2, <2>1 DEF Lives, Life!vars
<1>5. CASE T # {}
  <2>1. \A u \in T : life[u] = "waking"
    BY <1>1
  <2>2. Life!Arrive(T)
    BY <1>2, <1>3, <1>5, <2>1 DEF Life!Arrive
  <2>. QED
    BY <2>2 DEF Lives, Life!Next
<1>. QED
  BY <1>4, <1>5

LEMMA ScheduleLives ==
  ASSUME SchedInv, SchedInv', NEW c \in Cpus, Schedule(c) \/ PickAfterBalance(c)
  PROVE  Lives
<1>1. CASE Schedule(c)
  <2>1. /\ c \in online /\ phase[c] = "run" /\ UNCHANGED <<cpu, online>>
        /\ IF curr[c] \in Tasks THEN Leaves(c, curr[c]) /\ Returns(curr[c])
           ELSE UNCHANGED <<state, rqs, on_rq, doing>>
    BY <1>1 DEF Schedule, masks
  <2>2. Left(c)
    BY <2>1, LeavesQueues
  <2>3. CASE UNCHANGED curr
    <3>1. \A u \in Tasks : u = curr[c] => Running(u)
      BY DEF Running
    <3>2. UNCHANGED Life!vars
      BY <2>1, <2>2, <2>3, <3>1, LifeStutters DEF Left
    <3>. QED
      BY <3>2 DEF Lives
  <2>4. CASE Pick(c)
    <3>1. PICK n \in Tasks \cup {Idle, Stopper} : Switched(c, n)
      BY <2>4, PickSwitches DEF SchedInv, Types
    <3>. QED
      BY <2>1, <2>2, <3>1, SwitchLives DEF Left
  <2>. QED
    BY <1>1, <2>3, <2>4 DEF Schedule
<1>2. CASE PickAfterBalance(c)
  <2>1. /\ phase[c] = "balance" /\ Pick(c)
        /\ UNCHANGED <<state, on_rq, cpu, doing, online>>
    BY <1>2 DEF PickAfterBalance, user, masks
  <2>2. c \in online
    BY <2>1 DEF SchedInv, CpusInv
  <2>3. PICK n \in Tasks \cup {Idle, Stopper} : Switched(c, n)
    BY <2>1, PickSwitches DEF SchedInv, Types
  <2>. QED
    BY <2>1, <2>2, <2>3, SwitchLives
<1>. QED
  BY <1>1, <1>2

LEMMA WakeContinueLives ==
  ASSUME SchedInv, SchedInv', NEW c \in Cpus, WakeContinue(c)
  PROVE  Lives
<1>. LifeFacts /\ LifeFacts'
  BY LifeDetermined, LifeFactsAfter
<1>1. CASE WakeLock(c) \/ WakeQueueRemote(c)
  <2>1. UNCHANGED <<state, on_rq, doing, curr, online>>
    BY <1>1 DEF WakeLock, WakeQueueRemote, tasks, user, cpus, masks
  <2>2. UNCHANGED Life!vars
    BY <2>1, LifeStutters
  <2>. QED
    BY <2>2 DEF Lives
<1>2. CASE WakeRemote(c)
  <2>1. PICK t \in Tasks : t = waker[c].task
    BY <1>2, WakerFacts DEF WakeRemote
  <2>2. /\ UNCHANGED <<on_rq, doing, curr, online>>
        /\ on_rq[t] \/ UNCHANGED state
        /\ \A u \in Tasks : u # t => state'[u] = state[u]
    BY <1>2, <2>1 DEF WakeRemote, StillQueued, user, cpus, masks, SchedInv, Types
  <2>3. UNCHANGED Life!vars
    BY <2>2, LifeStutters
  <2>. QED
    BY <2>3 DEF Lives
<1>3. CASE WakeOnCpu(c)
  <2>1. PICK t \in Tasks : t = waker[c].task
    BY <1>3, WakerFacts DEF WakeOnCpu
  <2>2. /\ UNCHANGED <<doing, curr, online>> /\ on_rq'[t]
        /\ \A u \in Tasks \ {t} : on_rq'[u] = on_rq[u] /\ state'[u] = state[u]
                                  /\ doing'[u] = doing[u]
    BY <1>3, <2>1 DEF WakeOnCpu, user, cpus, masks, SchedInv, Types
  <2>3. state[t] \in Sleeping /\ ~on_rq[t]
    BY <1>3, <2>1 DEF WakeOnCpu, SchedInv, WakersInv, Holds
  <2>4. CASE Running(t)
    <3>1. UNCHANGED Life!vars
      BY <2>2, <2>4, LifeStutters
    <3>. QED
      BY <3>1 DEF Lives
  <2>5. CASE ~Running(t)
    <3>1. ~Running(t)'
      BY <2>2, <2>5 DEF Running
    <3>2. LifeOf(t) = "asleep" /\ LifeOf(t)' = "ready"
      BY <2>2, <2>3, <2>5, <3>1 DEF LifeFacts
    <3>. QED
      BY <2>2, <3>2, WakeLives
  <2>. QED
    BY <2>4, <2>5
<1>4. CASE WakeSelect(c)
  <2>1. PICK t \in Tasks : t = waker[c].task
    BY <1>4, WakerFacts DEF WakeSelect
  <2>2. /\ UNCHANGED <<doing, on_rq, curr, online>> /\ state'[t] = "WAKING"
        /\ \A u \in Tasks \ {t} : on_rq'[u] = on_rq[u] /\ state'[u] = state[u]
                                  /\ doing'[u] = doing[u]
    BY <1>4, <2>1 DEF WakeSelect, user, cpus, masks, SchedInv, Types
  <2>3. state[t] \in Sleeping /\ ~on_rq[t] /\ ~on_cpu[t]
    BY <1>4, <2>1 DEF WakeSelect, OffCpu, SchedInv, WakersInv, Holds
  <2>4. LifeOf(t) = "asleep" /\ LifeOf(t)' = "waking"
    BY <2>2, <2>3 DEF LifeFacts
  <2>. QED
    BY <2>2, <2>4, WakeLives
<1>5. CASE WakeQueue(c)
  <2>1. PICK t \in Tasks : t = waker[c].task
    BY <1>5, WakerFacts DEF WakeQueue
  <2>2. /\ UNCHANGED <<doing, curr, online>> /\ on_rq'[t]
        /\ \A u \in Tasks \ {t} : on_rq'[u] = on_rq[u] /\ state'[u] = state[u]
                                  /\ doing'[u] = doing[u]
    BY <1>5, <2>1 DEF WakeQueue, DoActivate, Woken, Queued, user, cpus, masks,
       SchedInv, Types
  <2>3. state[t] = "WAKING"
    BY <1>5, <2>1 DEF WakeQueue, SchedInv, WakersInv, Holds
  <2>4. {t} \in SUBSET Tasks /\ \A u \in {t} : state[u] = "WAKING" /\ on_rq'[u]
    BY <2>2, <2>3
  <2>. QED
    BY <2>2, <2>4, ArriveLives
<1>. QED
  BY <1>1, <1>2, <1>3, <1>4, <1>5 DEF WakeContinue

LEMMA SchedulerIpiLives ==
  ASSUME SchedInv, SchedInv', NEW c \in Cpus, SchedulerIpi(c)
  PROVE  Lives
<1>1. PICK T \in SUBSET Tasks : T = wake_list[c]
  BY DEF SchedInv, Types
<1>2. \A u \in T : state[u] = "WAKING"
  BY <1>1 DEF SchedInv, WakeListInv
<1>3. /\ UNCHANGED <<curr, online>> /\ \A u \in T : on_rq'[u]
      /\ \A u \in Tasks \ T : on_rq'[u] = on_rq[u] /\ state'[u] = state[u]
                              /\ doing'[u] = doing[u]
  BY <1>1 DEF SchedulerIpi, DoActivate, Woken, Queued, user, cpus, masks, SchedInv, Types
<1>. QED
  BY <1>2, <1>3, ArriveLives

LEMMA NewTaskLives ==
  ASSUME SchedInv, SchedInv', NEW t \in Tasks,
         WakeUpNewTask(t) \/ \E c \in Cpus, p \in Tasks : SchedFork(c, p, t)
  PROVE  Lives
<1>. DEFINE life == [u \in Tasks |-> LifeOf(u)]
            runs == [c \in Cpus |-> IF curr[c] = Stopper THEN Idle ELSE curr[c]]
<1>1. LifeFacts /\ LifeFacts'
  BY LifeDetermined, LifeFactsAfter
<1>2. ASSUME NEW l, LifeOf(t)' = l, UNCHANGED <<curr, online>>,
             \A u \in Tasks \ {t} : on_rq'[u] = on_rq[u] /\ state'[u] = state[u]
                                    /\ doing'[u] = doing[u]
      PROVE  life' = [life EXCEPT ![t] = l] /\ UNCHANGED runs
  <2>1. {t} \in SUBSET Tasks /\ \A u \in {t} : LifeOf(u)' = l
    BY <1>2
  <2>2. /\ life' = [u \in Tasks |-> IF u \in {t} THEN l ELSE LifeOf(u)]
        /\ UNCHANGED runs
    BY <1>2, <2>1, SomeLive
  <2>. QED
    BY <2>2
<1>3. CASE WakeUpNewTask(t)
  <2>1. /\ UNCHANGED <<curr, online>> /\ doing[t] = "new" /\ on_rq'[t]
        /\ \A u \in Tasks \ {t} : on_rq'[u] = on_rq[u] /\ state'[u] = state[u]
                                  /\ doing'[u] = doing[u]
    BY <1>3 DEF WakeUpNewTask, cpus, masks, SchedInv, Types
  <2>2. LifeOf(t) = "new" /\ ~Running(t)
    BY <1>1, <2>1 DEF LifeFacts
  <2>3. ~Running(t)'
    BY <2>1, <2>2 DEF Running
  <2>4. LifeOf(t)' = "ready"
    BY <1>1, <2>1, <2>3 DEF LifeFacts
  <2>5. Life!Enter(t)
    BY <1>2, <2>1, <2>2, <2>4 DEF Life!Enter
  <2>. QED
    BY <2>5 DEF Lives, Life!Next
<1>4. CASE \E c \in Cpus, p \in Tasks : SchedFork(c, p, t)
  <2>1. /\ UNCHANGED <<curr, online>> /\ state[t] = "NONE" /\ doing'[t] = "new"
        /\ \A u \in Tasks \ {t} : on_rq'[u] = on_rq[u] /\ state'[u] = state[u]
                                  /\ doing'[u] = doing[u]
    BY <1>4 DEF SchedFork, cpus, masks, SchedInv, Types
  <2>2. LifeOf(t) = "none" /\ LifeOf(t)' = "new"
    BY <1>1, <2>1 DEF LifeFacts
  <2>3. Life!Fork(t)
    BY <1>2, <2>1, <2>2 DEF Life!Fork
  <2>. QED
    BY <2>3 DEF Lives, Life!Next
<1>. QED
  BY <1>3, <1>4

LEMMA CpuDyingLives ==
  ASSUME SchedInv, SchedInv', NEW c \in Cpus, CpuDying(c)
  PROVE  Lives
<1>. DEFINE life == [u \in Tasks |-> LifeOf(u)]
            runs == [d \in Cpus |-> IF curr[d] = Stopper THEN Idle ELSE curr[d]]
<1>1. PICK T \in SUBSET Tasks : T = wake_list[c]
  BY DEF SchedInv, Types
<1>2. /\ c \in online \ active /\ active # {} /\ online' = online \ {c}
      /\ curr' = [curr EXCEPT ![c] = Idle] /\ UNCHANGED doing
      /\ phase[c] = "run"
      /\ \A u \in Tasks : on_rq'[u] <=> on_rq[u] \/ u \in T
      /\ \A u \in Tasks : u \notin T => on_rq'[u] = on_rq[u] /\ state'[u] = state[u]
  BY <1>1 DEF CpuDying, Pendings, Preemptible, Woken, Queued, user, SchedInv, Types
<1>3. LifeFacts /\ LifeFacts'
  BY LifeDetermined, LifeFactsAfter
<1>4. curr'[c] = Idle /\ \A d \in Cpus : d # c => curr'[d] = curr[d]
  BY <1>2 DEF SchedInv, Types
<1>5. \A u \in T : state[u] = "WAKING"
  BY <1>1 DEF SchedInv, WakeListInv
<1>6. PICK r \in Tasks \cup {Idle, Stopper} : r = curr[c]
  BY DEF SchedInv, Types
<1>7. Idle \notin Tasks /\ Stopper \notin Tasks
  BY TasksAssumption
<1>8. T \in SUBSET {t \in Tasks : life[t] = "waking"}
  BY <1>3, <1>5 DEF LifeFacts
<1>9. ASSUME NEW u \in Tasks
      PROVE  LifeOf(u)' = IF u = r \/ u \in T THEN "ready" ELSE LifeOf(u)
  <2>1. CASE u = r
    <3>1. on_rq[u] /\ \A d \in Cpus : curr[d] = u => d = c
      BY <1>2, <1>6, <2>1, RunningTask
    <3>2. ~Running(u)'
      BY <1>4, <1>7, <3>1 DEF Running
    <3>. QED
      BY <1>2, <1>3, <2>1, <3>1, <3>2 DEF LifeFacts
  <2>2. CASE u # r /\ u \in T
    <3>1. ~Running(u)
      BY <1>3, <1>5, <2>2 DEF LifeFacts
    <3>2. ~Running(u)'
      BY <1>4, <1>7, <3>1 DEF Running
    <3>. QED
      BY <1>2, <1>3, <2>2, <3>2 DEF LifeFacts
  <2>3. CASE u # r /\ u \notin T
    <3>1. Running(u)' <=> Running(u)
      BY <1>4, <1>6, <1>7, <2>3 DEF Running
    <3>2. LifeOf(u)' = LifeOf(u)
      BY <1>2, <2>3, <3>1, LifeSame
    <3>. QED
      BY <2>3, <3>2
  <2>. QED
    BY <2>1, <2>2, <2>3
<1>10. life' = [t \in Tasks |-> IF t = runs[c] \/ t \in T THEN "ready" ELSE life[t]]
  BY <1>6, <1>7, <1>9
<1>11. runs' = [runs EXCEPT ![c] = Idle]
  BY <1>4, TasksAssumption
<1>12. online # {c}
  BY <1>2 DEF SchedInv, Types
<1>13. Life!CpuDown(c)
  <2>1. \E W \in SUBSET {t \in Tasks : life[t] = "waking"} :
          life' = [t \in Tasks |-> IF t = runs[c] \/ t \in W THEN "ready" ELSE life[t]]
    <3>. HIDE DEF life, runs
    <3>. QED
      BY <1>8, <1>10
  <2>. QED
    BY <1>2, <1>11, <1>12, <2>1 DEF Life!CpuDown
<1>. QED
  BY <1>13 DEF Lives, Life!Next

LEMMA CpuUpLives ==
  ASSUME SchedInv, SchedInv', NEW c \in Cpus, CpuUp(c)
  PROVE  Lives
<1>1. /\ c \notin online /\ online' = online \cup {c}
      /\ UNCHANGED <<state, on_rq, doing, curr>>
  BY DEF CpuUp, tasks, user, cpus
<1>2. curr[c] = Idle
  BY <1>1 DEF SchedInv, CpusInv
<1>3. ASSUME NEW u \in Tasks PROVE LifeOf(u)' = LifeOf(u)
  <2>1. Running(u)' <=> Running(u)
    BY <1>1 DEF Running
  <2>. QED
    BY <1>1, <2>1, LifeSame
<1>4. Life!CpuUp(c)
  BY <1>1, <1>2, <1>3, TasksAssumption DEF Life!CpuUp
<1>. QED
  BY <1>4 DEF Lives, Life!Next

LEMMA StepLives ==
  ASSUME SchedInv, SchedInv', [Next]_vars
  PROVE  Lives
<1>1. CASE UNCHANGED vars
  <2>1. UNCHANGED <<state, on_rq, doing, curr, online>>
    BY <1>1 DEF vars, tasks, user, cpus, masks
  <2>. QED
    BY <2>1, LifeStutters DEF Lives
<1>2. ASSUME NEW c \in Cpus,
             FinishSwitch(c) \/ MigrationCpuStop(c) \/ CpuDownPrepare(c) \/ CpuActive(c)
      PROVE  Lives
  <2>1. UNCHANGED <<state, on_rq, doing, curr, online>>
    BY <1>2 DEF FinishSwitch, MigrationCpuStop, CpuDownPrepare, CpuActive, tasks,
       user, cpus, masks
  <2>. QED
    BY <2>1, LifeStutters DEF Lives
<1>3. ASSUME NEW c \in Cpus, NEW t \in Tasks,
             WakeBegin(c, t) \/ Pull(c, t) \/ SchedExec(c, t)
      PROVE  Lives
  <2>1. UNCHANGED <<state, on_rq, doing, curr, online>>
    BY <1>3 DEF WakeBegin, Pull, SchedExec, tasks, user, cpus, masks
  <2>. QED
    BY <2>1, LifeStutters DEF Lives
<1>4. ASSUME NEW c \in Cpus, NEW p \in Tasks, NEW t \in Tasks, SetCpusAllowed(c, p, t)
      PROVE  Lives
  <2>1. UNCHANGED <<state, on_rq, doing, curr, online>>
    BY <1>4 DEF SetCpusAllowed, user, cpus, masks
  <2>. QED
    BY <2>1, LifeStutters DEF Lives
<1>5. ASSUME NEW c \in Cpus, NEW t \in Tasks,
             SetState(c, t) \/ TestCond(c, t) \/ Exit(c, t)
      PROVE  Lives
  <2>1. Running(t)
    BY <1>5 DEF SetState, TestCond, Exit, Runs, Running
  <2>2. /\ UNCHANGED <<on_rq, curr, online>>
        /\ \A u \in Tasks : u # t => state'[u] = state[u] /\ doing'[u] = doing[u]
    BY <1>5 DEF SetState, TestCond, Exit, cpus, masks, SchedInv, Types
  <2>. QED
    BY <2>1, <2>2, LifeStutters DEF Lives
<1>. QED
  BY <1>1, <1>2, <1>3, <1>4, <1>5, ScheduleLives, WakeContinueLives,
     SchedulerIpiLives, NewTaskLives, CpuDyingLives, CpuUpLives DEF Next, OwnCode

LEMMA InitLives == Init => Life!Init
<1>. SUFFICES ASSUME Init PROVE Life!Init
  OBVIOUS
<1>. DEFINE life == [u \in Tasks |-> LifeOf(u)]
            runs == [d \in Cpus |-> IF curr[d] = Stopper THEN Idle ELSE curr[d]]
<1>1. SchedInv /\ LifeFacts
  BY InitSched, LifeDetermined
<1>2. BootCpu \in Cpus /\ Idle \notin Tasks /\ Stopper \notin Tasks
  BY CpusAssumption, TasksAssumption
<1>3. online = {BootCpu} /\ runs \in [Cpus -> Tasks \cup {Idle}]
  BY <1>1 DEF Init, SchedInv, Types
<1>4. ASSUME NEW t \in Tasks
      PROVE  /\ LifeOf(t) = IF t = InitTask THEN "running" ELSE "none"
             /\ t = InitTask <=> runs[BootCpu] = t
  <2>1. curr[BootCpu] = InitTask
    BY <1>2 DEF Init
  <2>2. t = InitTask <=> runs[BootCpu] = t
    BY <1>2, <2>1, TasksAssumption
  <2>3. CASE t = InitTask
    <3>1. Running(t)
      BY <1>2, <2>1, <2>3 DEF Running
    <3>. QED
      BY <1>1, <2>2, <2>3, <3>1 DEF LifeFacts
  <2>4. CASE t # InitTask
    <3>1. state[t] = "NONE"
      BY <2>4 DEF Init
    <3>. QED
      BY <1>1, <2>2, <2>4, <3>1 DEF LifeFacts
  <2>. QED
    BY <2>3, <2>4
<1>5. /\ life \in [Tasks -> {"none", "running"}]
      /\ \A t \in Tasks : (life[t] = "running") <=> \E d \in online : runs[d] = t
  BY <1>3, <1>4
<1>. QED
  BY <1>3, <1>5 DEF Life!Init

(* The scheduler implements TaskLife: no task runs on two CPUs or on one    *)
(* that is down, and none that sleeps, is on its way to another CPU or has  *)
(* died is picked                                                           *)
THEOREM SchedulerImplementsTaskLife == Spec => LivesAsPromised
<1>1. SchedInv /\ SchedInv' /\ [Next]_vars => [Life!Next]_Life!vars
  <2>. SUFFICES ASSUME SchedInv, SchedInv', [Next]_vars PROVE [Life!Next]_Life!vars
    OBVIOUS
  <2>1. Lives
    BY StepLives
  <2>. QED
    BY <2>1 DEF Lives
<1>. QED
  BY <1>1, InitLives, Invariant, PTL DEF Spec, Life!Spec, LivesAsPromised

-----------------------------------------------------------------------------
(* Sums of counters that wrap                                               *)

(* Equal up to a multiple of Wrap                                           *)
Congruent(a, b) == \E k \in Int : a = b + k * Wrap

LEMMA CongruentAdd ==
  ASSUME NEW a \in Int, NEW b \in Int, NEW c \in Int, NEW d \in Int,
         Congruent(a, b), Congruent(c, d)
  PROVE  Congruent(a + c, b + d)
<1>1. PICK k \in Int : a = b + k * Wrap
  BY DEF Congruent
<1>2. PICK l \in Int : c = d + l * Wrap
  BY DEF Congruent
<1>3. Wrap \in Nat \ {0}
  BY BoundsAssumption
<1>4. k * Wrap \in Int /\ l * Wrap \in Int /\ (k + l) * Wrap = k * Wrap + l * Wrap
  BY <1>3
<1>5. a + c = b + d + (k + l) * Wrap /\ k + l \in Int
  BY <1>1, <1>2, <1>4
<1>. QED
  BY <1>5 DEF Congruent

LEMMA EqualCongruent ==
  ASSUME NEW a \in Int
  PROVE  Congruent(a, a)
<1>1. a = a + 0 * Wrap
  BY BoundsAssumption
<1>. QED
  BY <1>1 DEF Congruent

LEMMA QuotientSplits ==
  ASSUME NEW a \in Int
  PROVE  \E q \in Int : a = q * Wrap + Wrapped(a) /\ Wrapped(a) \in 0 .. Wrap - 1
<1>1. Wrap \in Nat \ {0}
  BY BoundsAssumption
<1>2. a % Wrap \in 0 .. Wrap - 1 /\ a \div Wrap \in Int
  BY <1>1
<1>. DEFINE q == a \div Wrap
            m == a % Wrap
<1>3. a = Wrap * q + m
  BY <1>1
<1>. HIDE DEF q, m
<1>4. Wrap * q = q * Wrap
  BY <1>1, <1>2 DEF q
<1>5. a = q * Wrap + m
  BY <1>3, <1>4
<1>. QED
  BY <1>2, <1>5 DEF Wrapped, q, m

LEMMA WrappedCongruent ==
  ASSUME NEW a \in Int
  PROVE  Congruent(Wrapped(a), a) /\ Wrapped(a) \in 0 .. Wrap - 1
<1>1. Wrap \in Nat \ {0}
  BY BoundsAssumption
<1>2. PICK q \in Int : a = q * Wrap + Wrapped(a) /\ Wrapped(a) \in 0 .. Wrap - 1
  BY QuotientSplits
<1>. DEFINE w == Wrapped(a)
<1>. HIDE DEF w
<1>3. w \in Int /\ a = q * Wrap + w
  BY <1>1, <1>2 DEF w
<1>4. (-q) * Wrap = -(q * Wrap) /\ q * Wrap \in Int
  BY <1>1
<1>5. w = a + (-q) * Wrap
  BY <1>3, <1>4
<1>. QED
  BY <1>2, <1>5 DEF Congruent, w

LEMMA CongruentWrapped ==
  ASSUME NEW a \in Int, NEW b \in Int, Congruent(a, b)
  PROVE  Wrapped(a) = Wrapped(b)
<1>1. Wrap \in Nat \ {0}
  BY BoundsAssumption
<1>2. PICK k \in Int : a = b + k * Wrap
  BY DEF Congruent
<1>3. PICK q \in Int : a = q * Wrap + Wrapped(a) /\ Wrapped(a) \in 0 .. Wrap - 1
  BY QuotientSplits
<1>4. PICK r \in Int : b = r * Wrap + Wrapped(b) /\ Wrapped(b) \in 0 .. Wrap - 1
  BY QuotientSplits
<1>. DEFINE v == Wrapped(a)
            w == Wrapped(b)
            m == r + k - q
<1>. HIDE DEF v, w
<1>5. v \in 0 .. Wrap - 1 /\ w \in 0 .. Wrap - 1
  BY <1>3, <1>4 DEF v, w
<1>6. a = q * Wrap + v /\ b = r * Wrap + w
  BY <1>3, <1>4 DEF v, w
<1>7. m * Wrap = r * Wrap + k * Wrap - q * Wrap
  BY <1>1
<1>8. m \in Int /\ m * Wrap = v - w
  <2>1. /\ r * Wrap \in Int /\ k * Wrap \in Int /\ q * Wrap \in Int
        /\ v \in Int /\ w \in Int
    BY <1>1, <1>5
  <2>. QED
    BY <1>2, <1>6, <1>7, <2>1
<1>. HIDE DEF m
<1>9. m = 0
  <2>1. CASE m >= 1
    <3>1. m * Wrap >= Wrap
      BY <1>1, <1>8, <2>1
    <3>. QED
      BY <1>1, <1>5, <1>8, <3>1
  <2>2. CASE m <= -1
    <3>1. m * Wrap <= -Wrap
      BY <1>1, <1>8, <2>2
    <3>. QED
      BY <1>1, <1>5, <1>8, <3>1
  <2>. QED
    BY <1>8, <2>1, <2>2
<1>10. v = w
  BY <1>1, <1>5, <1>8, <1>9
<1>. QED
  BY <1>10 DEF v, w

(* A sum of natural numbers is the number of pairs of a place and a number  *)
(* up to the one there                                                      *)
Pairs(f, s) == {p \in Cpus \X (1 .. Wrap) : p[1] \in s /\ p[2] <= f[p[1]]}

Counters == [Cpus -> 0 .. Wrap - 1]

LEMMA PairsAdd ==
  ASSUME NEW f \in Counters, NEW s \in SUBSET Cpus, NEW x \in s
  PROVE  /\ Cardinality(Pairs(f, s)) = f[x] + Cardinality(Pairs(f, s \ {x}))
         /\ Cardinality(Pairs(f, s)) \in Nat
<1>. DEFINE A == {x} \X (1 .. f[x])
            B == Pairs(f, s \ {x})
            All == Cpus \X (1 .. Wrap)
<1>1. Wrap \in Nat \ {0} /\ f[x] \in 0 .. Wrap - 1
  BY BoundsAssumption DEF Counters
<1>2. IsFiniteSet(All)
  <2>1. 1 \in Int /\ Wrap \in Int
    BY <1>1
  <2>2. IsFiniteSet(1 .. Wrap)
    BY <2>1, FS_Interval
  <2>. QED
    BY <2>2, CpusAssumption, FS_Product
<1>3. Pairs(f, s) \in SUBSET All /\ B \in SUBSET All
  BY DEF Pairs
<1>4. Pairs(f, s) = A \cup B
  <2>1. ASSUME NEW p \in Pairs(f, s) PROVE p \in A \cup B
    <3>1. /\ p \in All /\ p = <<p[1], p[2]>> /\ p[1] \in s /\ p[2] <= f[p[1]]
          /\ p[2] \in 1 .. Wrap
      BY DEF Pairs
    <3>2. CASE p[1] = x
      <4>1. p[2] \in 1 .. f[x]
        BY <1>1, <3>1, <3>2
      <4>. QED
        BY <3>1, <3>2, <4>1
    <3>3. CASE p[1] # x
      BY <3>1, <3>3 DEF Pairs
    <3>. QED
      BY <3>2, <3>3
  <2>2. A \subseteq Pairs(f, s)
    <3>1. ASSUME NEW n \in 1 .. f[x] PROVE <<x, n>> \in Pairs(f, s)
      <4>1. n \in 1 .. Wrap /\ n <= f[x]
        BY <1>1
      <4>. QED
        BY <4>1 DEF Pairs
    <3>. QED
      BY <3>1
  <2>3. B \subseteq Pairs(f, s)
    BY DEF Pairs
  <2>. QED
    BY <2>1, <2>2, <2>3
<1>5. A \cap B = {}
  BY DEF Pairs
<1>6. IsFiniteSet(A) /\ Cardinality(A) = f[x]
  <2>1. IsFiniteSet({x}) /\ Cardinality({x}) = 1
    BY FS_Singleton
  <2>2. IsFiniteSet(1 .. f[x]) /\ Cardinality(1 .. f[x]) = f[x]
    <3>1. f[x] \in Int /\ 1 \in Int
      BY <1>1
    <3>2. /\ IsFiniteSet(1 .. f[x])
          /\ Cardinality(1 .. f[x]) = IF 1 > f[x] THEN 0 ELSE f[x] - 1 + 1
      BY <3>1, FS_Interval
    <3>. QED
      BY <1>1, <3>2
  <2>3. /\ IsFiniteSet({x} \X (1 .. f[x]))
        /\ Cardinality({x} \X (1 .. f[x])) = Cardinality({x}) * Cardinality(1 .. f[x])
    BY <2>1, <2>2, FS_Product
  <2>4. 1 * f[x] = f[x]
    BY <1>1
  <2>. QED
    BY <2>1, <2>2, <2>3, <2>4
<1>7. IsFiniteSet(B) /\ Cardinality(B) \in Nat
  BY <1>2, <1>3, FS_Subset, FS_CardinalityType
<1>. HIDE DEF A, B
<1>8. Cardinality(A \cup B) = Cardinality(A) + Cardinality(B) - Cardinality(A \cap B)
  BY <1>6, <1>7, FS_Union
<1>9. Cardinality(A \cap B) = 0
  BY <1>5, FS_EmptySet
<1>. QED
  BY <1>1, <1>4, <1>6, <1>7, <1>8, <1>9 DEF B

LEMMA SumIsPairs ==
  ASSUME NEW f \in Counters, NEW s \in SUBSET Cpus
  PROVE  SumOf(f, s) = Cardinality(Pairs(f, s))
<1>. DEFINE h == [r \in SUBSET s |-> Cardinality(Pairs(f, r))]
<1>1. IsFiniteSet(s)
  BY CpusAssumption, FS_Subset
<1>2. h[{}] = 0
  <2>1. Pairs(f, {}) = {}
    BY DEF Pairs
  <2>. QED
    BY <2>1, FS_EmptySet
<1>3. ASSUME NEW r \in SUBSET s, NEW x \in r
      PROVE  h[r] = f[x] + h[r \ {x}]
  BY PairsAdd
<1>4. h[s] = Cardinality(Pairs(f, s))
  OBVIOUS
<1>. HIDE DEF h
<1>5. \A r \in SUBSET s : \A x \in r : h[r] = f[x] + h[r \ {x}]
  BY <1>3
<1>6. SumOf(f, s) = h[s]
  BY <1>1, <1>2, <1>5, SumIs
<1>. QED
  BY <1>4, <1>6

Total(f) == Cardinality(Pairs(f, Cpus))

(* Two sums differ by D up to a multiple of Wrap if their terms do so       *)
AddsUp(f, g, D) ==
  /\ D \in [SUBSET Cpus -> Int] /\ D[{}] = 0
  /\ \A s \in SUBSET Cpus : \A x \in s :
       Congruent(f[x], g[x] + D[s] - D[s \ {x}])

LEMMA SumsCongruent ==
  ASSUME NEW f \in Counters, NEW g \in Counters, NEW D, AddsUp(f, g, D)
  PROVE  Congruent(Total(f), Total(g) + D[Cpus])
<1>. DEFINE F == [s \in SUBSET Cpus |-> Cardinality(Pairs(f, s))]
            G == [s \in SUBSET Cpus |-> Cardinality(Pairs(g, s))]
            Bad == {s \in SUBSET Cpus : ~Congruent(F[s], G[s] + D[s])}
<1>1. F[{}] = 0 /\ G[{}] = 0
  <2>1. Pairs(f, {}) = {} /\ Pairs(g, {}) = {}
    BY DEF Pairs
  <2>. QED
    BY <2>1, FS_EmptySet
<1>2. ASSUME NEW s \in SUBSET Cpus, NEW x \in s
      PROVE  /\ F[s] = f[x] + F[s \ {x}] /\ G[s] = g[x] + G[s \ {x}]
  BY PairsAdd
<1>3. F[Cpus] = Total(f) /\ G[Cpus] = Total(g)
  BY DEF Total
<1>4. \A s \in SUBSET Cpus : F[s] \in Int /\ G[s] \in Int
  <2>1. SUFFICES ASSUME NEW s \in SUBSET Cpus PROVE F[s] \in Int /\ G[s] \in Int
    OBVIOUS
  <2>2. CASE s = {}
    BY <1>1, <2>2
  <2>3. CASE s # {}
    <3>1. PICK x \in s : TRUE
      BY <2>3
    <3>2. Cardinality(Pairs(f, s)) \in Nat /\ Cardinality(Pairs(g, s)) \in Nat
      BY <3>1, PairsAdd
    <3>. QED
      BY <3>2
  <2>. QED
    BY <2>2, <2>3
<1>5. D \in [SUBSET Cpus -> Int] /\ D[{}] = 0
  BY DEF AddsUp
<1>. HIDE DEF F, G
<1>6. Bad = {}
  <2>1. SUFFICES ASSUME Bad # {} PROVE FALSE
    OBVIOUS
  <2>2. Bad \subseteq FiniteSubsetsOf(Cpus)
    BY CpusAssumption, FS_Subset DEF FiniteSubsetsOf
  <2>3. PICK m \in Bad : \A y \in Bad : ~(<<y, m>> \in StrictSubsetOrdering(Cpus))
    BY <2>1, <2>2, FS_StrictSubsetOrderingWellFounded, WFMin
  <2>4. m # {}
    <3>1. Congruent(0, 0) /\ 0 + 0 = 0
      BY EqualCongruent
    <3>. QED
      BY <1>1, <1>5, <3>1
  <2>5. PICK x \in m : TRUE
    BY <2>4
  <2>. DEFINE n == m \ {x}
  <2>6. n \in SUBSET Cpus /\ <<n, m>> \in StrictSubsetOrdering(Cpus)
    BY DEF StrictSubsetOrdering
  <2>7. Congruent(F[n], G[n] + D[n])
    BY <2>3, <2>6
  <2>8. Congruent(f[x], g[x] + D[m] - D[n])
    BY DEF AddsUp
  <2>9. F[m] = f[x] + F[n] /\ G[m] = g[x] + G[n]
    BY <1>2
  <2>10. /\ F[n] \in Int /\ G[n] \in Int /\ D[n] \in Int /\ D[m] \in Int
         /\ f[x] \in Int /\ g[x] \in Int
    <3>1. f[x] \in 0 .. Wrap - 1 /\ g[x] \in 0 .. Wrap - 1
      BY DEF Counters
    <3>. QED
      BY <1>4, <1>5, <2>6, <3>1
  <2>. HIDE DEF n
  <2>11. Congruent(f[x] + F[n], (g[x] + D[m] - D[n]) + (G[n] + D[n]))
    BY <2>7, <2>8, <2>10, CongruentAdd
  <2>12. (g[x] + D[m] - D[n]) + (G[n] + D[n]) = G[m] + D[m]
    BY <2>9, <2>10
  <2>13. Congruent(F[m], G[m] + D[m])
    BY <2>9, <2>11, <2>12
  <2>. QED
    BY <2>13
<1>7. Congruent(F[Cpus], G[Cpus] + D[Cpus])
  BY <1>6
<1>. QED
  BY <1>3, <1>7

LEMMA CongruentTrans ==
  ASSUME NEW a \in Int, NEW b \in Int, NEW c \in Int,
         Congruent(a, b), Congruent(b, c)
  PROVE  Congruent(a, c)
<1>1. Congruent(a + b, b + c)
  BY CongruentAdd
<1>2. PICK k \in Int : a + b = b + c + k * Wrap
  BY <1>1 DEF Congruent
<1>3. k * Wrap \in Int
  BY BoundsAssumption
<1>4. a = c + k * Wrap
  BY <1>2, <1>3
<1>. QED
  BY <1>4 DEF Congruent

-----------------------------------------------------------------------------
(* The counters of uninterruptible sleepers                                 *)

SleepersInv ==
  Congruent(Total(nr_uninterruptible), Cardinality(Uninterruptible))

LEMMA SleepersFinite ==
  /\ IsFiniteSet(Uninterruptible) /\ Cardinality(Uninterruptible) \in Nat
  /\ IsFiniteSet(Uninterruptible') /\ Cardinality(Uninterruptible') \in Nat
<1>1. Uninterruptible \in SUBSET Tasks /\ Uninterruptible' \in SUBSET Tasks
  BY DEF Uninterruptible
<1>2. IsFiniteSet(Uninterruptible) /\ IsFiniteSet(Uninterruptible')
  BY <1>1, TasksAssumption, FS_Subset
<1>. QED
  BY <1>2, FS_CardinalityType

LEMMA TotalInteger ==
  ASSUME NEW f \in Counters
  PROVE  Total(f) \in Int
<1>1. PICK x \in Cpus : TRUE
  BY CpusAssumption
<1>2. Cardinality(Pairs(f, Cpus)) \in Nat
  BY PairsAdd
<1>. QED
  BY <1>2 DEF Total

(* The counters change by D and the set of sleepers by as much              *)
LEMMA SleepersBalance ==
  ASSUME SleepersInv, nr_uninterruptible \in Counters,
         nr_uninterruptible' \in Counters,
         NEW D, AddsUp(nr_uninterruptible', nr_uninterruptible, D),
         Cardinality(Uninterruptible') = Cardinality(Uninterruptible) + D[Cpus]
  PROVE  SleepersInv'
<1>. DEFINE f == nr_uninterruptible'
            g == nr_uninterruptible
            S == Total(g)
            R == Total(f)
            n == Cardinality(Uninterruptible)
            m == Cardinality(Uninterruptible')
<1>1. n \in Int /\ m \in Int
  BY SleepersFinite
<1>2. f \in Counters /\ g \in Counters /\ AddsUp(f, g, D)
  OBVIOUS
<1>. HIDE DEF f, g
<1>3. S \in Int /\ R \in Int
  BY <1>2, TotalInteger
<1>4. Congruent(R, S + D[Cpus])
  BY <1>2, SumsCongruent
<1>5. Congruent(S, n)
  BY DEF SleepersInv, g
<1>6. D[Cpus] \in Int
  BY DEF AddsUp
<1>7. m = n + D[Cpus]
  OBVIOUS
<1>8. SleepersInv' <=> Congruent(R, m)
  BY DEF SleepersInv, f, Total, Pairs, Congruent
<1>. HIDE DEF S, R, n, m
<1>9. Congruent(D[Cpus], D[Cpus])
  BY <1>6, EqualCongruent
<1>10. Congruent(S + D[Cpus], n + D[Cpus])
  BY <1>1, <1>3, <1>5, <1>6, <1>9, CongruentAdd
<1>11. S + D[Cpus] \in Int /\ n + D[Cpus] \in Int
  BY <1>1, <1>3, <1>6
<1>12. Congruent(R, n + D[Cpus])
  BY <1>3, <1>4, <1>10, <1>11, CongruentTrans
<1>. QED
  BY <1>7, <1>8, <1>12

LEMMA SleepersSame ==
  ASSUME SleepersInv, UNCHANGED nr_uninterruptible,
         Cardinality(Uninterruptible') = Cardinality(Uninterruptible)
  PROVE  SleepersInv'
BY DEF SleepersInv, Total, Pairs, Congruent

(* One CPU's counter changes by n                                           *)
LEMMA SleepersPoint ==
  ASSUME SleepersInv, nr_uninterruptible \in Counters,
         NEW c \in Cpus, NEW n \in Int,
         nr_uninterruptible' =
           [nr_uninterruptible EXCEPT ![c] = Wrapped(nr_uninterruptible[c] + n)],
         Cardinality(Uninterruptible') = Cardinality(Uninterruptible) + n
  PROVE  SleepersInv'
<1>. DEFINE f == nr_uninterruptible'
            g == nr_uninterruptible
            D == [s \in SUBSET Cpus |-> IF c \in s THEN n ELSE 0]
<1>0. \A x \in Cpus : g[x] \in 0 .. Wrap - 1 /\ g[x] \in Int
  BY DEF Counters
<1>1. Congruent(Wrapped(g[c] + n), g[c] + n) /\ Wrapped(g[c] + n) \in 0 .. Wrap - 1
  BY <1>0, WrappedCongruent
<1>2. f = [g EXCEPT ![c] = Wrapped(g[c] + n)] /\ g \in Counters
  OBVIOUS
<1>. HIDE DEF f, g
<1>3. f \in Counters
  BY <1>1, <1>2 DEF Counters
<1>4. f[c] = Wrapped(g[c] + n) /\ \A x \in Cpus \ {c} : f[x] = g[x]
  BY <1>2 DEF Counters
<1>5. AddsUp(f, g, D)
  <2>1. ASSUME NEW s \in SUBSET Cpus, NEW x \in s
        PROVE  Congruent(f[x], g[x] + D[s] - D[s \ {x}])
    <3>1. CASE x = c
      <4>1. D[s] = n /\ D[s \ {x}] = 0
        BY <3>1
      <4>2. g[x] + n - 0 = g[x] + n
        BY <1>0
      <4>. QED
        BY <1>1, <1>4, <3>1, <4>1, <4>2
    <3>2. CASE x # c
      <4>1. D[s] = D[s \ {x}] /\ D[s] \in Int
        BY <3>2
      <4>2. g[x] + D[s] - D[s \ {x}] = g[x]
        <5>. HIDE DEF D
        <5>. QED
          BY <1>0, <4>1
      <4>3. f[x] = g[x] /\ Congruent(g[x], g[x])
        BY <1>0, <1>4, <3>2, EqualCongruent
      <4>. QED
        BY <4>2, <4>3
    <3>. QED
      BY <3>1, <3>2
  <2>2. D \in [SUBSET Cpus -> Int] /\ D[{}] = 0
    OBVIOUS
  <2>. HIDE DEF D
  <2>. QED
    BY <2>1, <2>2 DEF AddsUp
<1>6. D[Cpus] = n
  OBVIOUS
<1>. HIDE DEF D
<1>. QED
  BY <1>2, <1>3, <1>5, <1>6, SleepersBalance DEF f, g

(* A count of n goes from one CPU to another                                *)
LEMMA SleepersMove ==
  ASSUME SleepersInv, nr_uninterruptible \in Counters,
         NEW c \in Cpus, NEW d \in Cpus, c # d, NEW n \in Int,
         nr_uninterruptible' =
           [nr_uninterruptible EXCEPT ![c] = Wrapped(nr_uninterruptible[c] + n),
                                      ![d] = Wrapped(nr_uninterruptible[d] - n)],
         Cardinality(Uninterruptible') = Cardinality(Uninterruptible)
  PROVE  SleepersInv'
<1>. DEFINE f == nr_uninterruptible'
            g == nr_uninterruptible
            C == [s \in SUBSET Cpus |-> IF c \in s THEN n ELSE 0]
            E == [s \in SUBSET Cpus |-> IF d \in s THEN n ELSE 0]
            D == [s \in SUBSET Cpus |-> C[s] - E[s]]
<1>0. \A x \in Cpus : g[x] \in 0 .. Wrap - 1 /\ g[x] \in Int
  BY DEF Counters
<1>1. /\ Congruent(Wrapped(g[c] + n), g[c] + n) /\ Wrapped(g[c] + n) \in 0 .. Wrap - 1
      /\ Congruent(Wrapped(g[d] - n), g[d] - n) /\ Wrapped(g[d] - n) \in 0 .. Wrap - 1
  BY <1>0, WrappedCongruent
<1>2. /\ f = [g EXCEPT ![c] = Wrapped(g[c] + n), ![d] = Wrapped(g[d] - n)]
      /\ g \in Counters
  OBVIOUS
<1>. HIDE DEF f, g
<1>3. f \in Counters
  BY <1>1, <1>2 DEF Counters
<1>4. /\ f[c] = Wrapped(g[c] + n) /\ f[d] = Wrapped(g[d] - n)
      /\ \A x \in Cpus \ {c, d} : f[x] = g[x]
  BY <1>2 DEF Counters
<1>5. AddsUp(f, g, D)
  <2>1. ASSUME NEW s \in SUBSET Cpus, NEW x \in s
        PROVE  Congruent(f[x], g[x] + D[s] - D[s \ {x}])
    <3>0. /\ D[s] = C[s] - E[s] /\ D[s \ {x}] = C[s \ {x}] - E[s \ {x}]
          /\ C[s] \in Int /\ E[s] \in Int
      OBVIOUS
    <3>1. CASE x = c
      <4>1. C[s] = n /\ C[s \ {x}] = 0 /\ E[s] = E[s \ {x}]
        BY <3>1
      <4>2. g[x] + D[s] - D[s \ {x}] = g[x] + n
        <5>. HIDE DEF C, D, E
        <5>. QED
          BY <1>0, <3>0, <4>1
      <4>. QED
        BY <1>1, <1>4, <3>1, <4>2
    <3>2. CASE x = d
      <4>1. E[s] = n /\ E[s \ {x}] = 0 /\ C[s] = C[s \ {x}]
        BY <3>2
      <4>2. g[x] + D[s] - D[s \ {x}] = g[x] - n
        <5>. HIDE DEF C, D, E
        <5>. QED
          BY <1>0, <3>0, <4>1
      <4>. QED
        BY <1>1, <1>4, <3>2, <4>2
    <3>3. CASE x # c /\ x # d
      <4>1. C[s] = C[s \ {x}] /\ E[s] = E[s \ {x}]
        BY <3>3
      <4>2. g[x] + D[s] - D[s \ {x}] = g[x]
        <5>. HIDE DEF C, D, E
        <5>. QED
          BY <1>0, <3>0, <4>1
      <4>3. f[x] = g[x] /\ Congruent(g[x], g[x])
        BY <1>0, <1>4, <3>3, EqualCongruent
      <4>. QED
        BY <4>2, <4>3
    <3>. QED
      BY <3>1, <3>2, <3>3
  <2>2. D \in [SUBSET Cpus -> Int] /\ D[{}] = 0
    OBVIOUS
  <2>. HIDE DEF D
  <2>. QED
    BY <2>1, <2>2 DEF AddsUp
<1>6. D[Cpus] = 0
  OBVIOUS
<1>. HIDE DEF D
<1>7. Cardinality(Uninterruptible) + D[Cpus] = Cardinality(Uninterruptible)
  BY <1>6, SleepersFinite
<1>. QED
  BY <1>2, <1>3, <1>5, <1>7, SleepersBalance DEF f, g

(* Only one task goes to sleep or wakes                                     *)
LEMMA OneSleeper ==
  ASSUME NEW t \in Tasks,
         \A u \in Tasks \ {t} : u \in Uninterruptible' <=> u \in Uninterruptible
  PROVE  Cardinality(Uninterruptible') =
           Cardinality(Uninterruptible) + (IF t \in Uninterruptible' THEN 1 ELSE 0)
             - (IF t \in Uninterruptible THEN 1 ELSE 0)
<1>. DEFINE A == Uninterruptible
            B == Uninterruptible'
<1>1. /\ IsFiniteSet(A) /\ Cardinality(A) \in Nat
      /\ IsFiniteSet(B) /\ Cardinality(B) \in Nat
  BY SleepersFinite
<1>2. A \ {t} = B \ {t}
  <2>1. A \subseteq Tasks /\ B \subseteq Tasks
    BY DEF Uninterruptible
  <2>. QED
    BY <2>1
<1>. HIDE DEF A, B
<1>3. /\ Cardinality(A \ {t}) = IF t \in A THEN Cardinality(A) - 1 ELSE Cardinality(A)
      /\ Cardinality(B \ {t}) = IF t \in B THEN Cardinality(B) - 1 ELSE Cardinality(B)
  BY <1>1, FS_RemoveElement
<1>4. Cardinality(B) = Cardinality(A) + (IF t \in B THEN 1 ELSE 0)
                         - (IF t \in A THEN 1 ELSE 0)
  BY <1>1, <1>2, <1>3
<1>. QED
  BY <1>4 DEF A, B

LEMMA OthersSleep ==
  ASSUME NEW t \in Tasks,
         \A u \in Tasks \ {t} : /\ state'[u] = state[u]
                                /\ on_rq'[u] <=> on_rq[u]
                                /\ contributes'[u] <=> contributes[u]
  PROVE  Cardinality(Uninterruptible') =
           Cardinality(Uninterruptible) + (IF t \in Uninterruptible' THEN 1 ELSE 0)
             - (IF t \in Uninterruptible THEN 1 ELSE 0)
<1>1. \A u \in Tasks \ {t} : u \in Uninterruptible' <=> u \in Uninterruptible
  BY DEF Uninterruptible, Contributes
<1>. QED
  BY <1>1, OneSleeper

LEMMA LoadOfOne ==
  ASSUME NEW t \in Tasks
  PROVE  Load({t}) = IF Contributes(t) THEN 1 ELSE 0
<1>1. CASE Contributes(t)
  <2>1. {u \in {t} : Contributes(u)} = {t}
    BY <1>1
  <2>. QED
    BY <1>1, <2>1, FS_Singleton DEF Load
<1>2. CASE ~Contributes(t)
  <2>1. {u \in {t} : Contributes(u)} = {}
    BY <1>2
  <2>. QED
    BY <1>2, <2>1, FS_EmptySet DEF Load
<1>. QED
  BY <1>1, <1>2

(* The tasks of a set, all of them waking, are activated                    *)
LEMMA WokenSleepers ==
  ASSUME NEW T \in SUBSET Tasks, \A t \in T : state[t] = "WAKING" /\ ~on_rq[t],
         state' = Woken(T), on_rq' = Queued(T), contributes' = NotWaking(T)
  PROVE  /\ Cardinality(Uninterruptible') = Cardinality(Uninterruptible) - LoadOfWoken(T)
         /\ LoadOfWoken(T) \in Nat
<1>. DEFINE C == {t \in T : contributes[t]}
            A == Uninterruptible
            B == Uninterruptible'
<1>1. C \in SUBSET A
  BY DEF Uninterruptible
<1>2. B = A \ C
  <2>1. ASSUME NEW t \in Tasks PROVE t \in B <=> t \in A \ C
    <3>1. CASE t \in T
      BY <3>1 DEF Uninterruptible, Contributes, Queued
    <3>2. CASE t \notin T
      <4>1. /\ state'[t] = state[t]
            /\ on_rq'[t] <=> on_rq[t]
            /\ contributes'[t] <=> contributes[t]
        BY <3>2 DEF Woken, Queued, NotWaking
      <4>2. t \in B <=> t \in A
        BY <4>1 DEF Uninterruptible, Contributes
      <4>3. t \notin C
        BY <3>2
      <4>. HIDE DEF A, B, C
      <4>. QED
        BY <4>2, <4>3
    <3>. QED
      BY <3>1, <3>2
  <2>2. A \subseteq Tasks /\ B \subseteq Tasks
    BY DEF Uninterruptible
  <2>. QED
    BY <2>1, <2>2
<1>3. IsFiniteSet(A) /\ Cardinality(A) \in Nat
  BY SleepersFinite
<1>4. LoadOfWoken(T) = Cardinality(C)
  BY DEF LoadOfWoken
<1>. HIDE DEF A, B, C
<1>5. IsFiniteSet(C) /\ Cardinality(C) \in Nat
  BY <1>1, <1>3, FS_Subset, FS_CardinalityType
<1>6. Cardinality(A \ C) = Cardinality(A) - Cardinality(C)
  <2>1. IsFiniteSet(A \ C) /\ Cardinality(A \ C) \in Nat
    BY <1>3, FS_Subset, FS_CardinalityType
  <2>2. C \cap (A \ C) = {} /\ C \cup (A \ C) = A
    BY <1>1
  <2>3. Cardinality(C \cup (A \ C)) =
          Cardinality(C) + Cardinality(A \ C) - Cardinality(C \cap (A \ C))
    BY <1>5, <2>1, FS_Union
  <2>4. Cardinality({}) = 0
    BY FS_EmptySet
  <2>5. Cardinality(A) = Cardinality(C) + Cardinality(A \ C) - 0
    BY <2>2, <2>3, <2>4
  <2>. QED
    BY <1>3, <1>5, <2>1, <2>5
<1>. QED
  BY <1>2, <1>4, <1>5, <1>6 DEF A, B

Good == SchedInv /\ OtherTypes /\ SleepersInv

LEMMA CountersGood == Good => nr_uninterruptible \in Counters
BY DEF Good, OtherTypes, Counters

(* Only a task that is on a queue changes its state                         *)
LEMMA QueuedSleepers ==
  ASSUME Good, NEW t \in Tasks, on_rq[t],
         UNCHANGED <<on_rq, contributes, nr_uninterruptible>>,
         \A u \in Tasks \ {t} : state'[u] = state[u]
  PROVE  SleepersInv'
<1>1. t \notin Uninterruptible /\ t \notin Uninterruptible'
  BY DEF Uninterruptible
<1>2. Cardinality(Uninterruptible') =
        Cardinality(Uninterruptible) + (IF t \in Uninterruptible' THEN 1 ELSE 0)
          - (IF t \in Uninterruptible THEN 1 ELSE 0)
  BY OthersSleep
<1>3. Cardinality(Uninterruptible') = Cardinality(Uninterruptible)
  BY <1>1, <1>2, SleepersFinite
<1>. QED
  BY <1>3, SleepersSame DEF Good

(* Nothing that is counted changes                                          *)
LEMMA SleepersUntouched ==
  ASSUME Good, UNCHANGED <<state, on_rq, contributes, nr_uninterruptible>>
  PROVE  SleepersInv'
<1>1. Uninterruptible' = Uninterruptible
  BY DEF Uninterruptible, Contributes
<1>. QED
  BY <1>1, SleepersSame DEF Good

LEMMA OwnCodeSleepers ==
  ASSUME Good, NEW c \in Cpus, NEW t \in Tasks, OwnCode(c, t)
  PROVE  SleepersInv'
<1>1. on_rq[t]
  BY RunningTask DEF Good, OwnCode, SetState, TestCond, Exit, SchedExec, Runs
<1>2. UNCHANGED <<on_rq, contributes, nr_uninterruptible>>
  BY DEF OwnCode, SetState, TestCond, Exit, SchedExec, tasks, rqs
<1>3. \A u \in Tasks \ {t} : state'[u] = state[u]
  BY DEF OwnCode, SetState, TestCond, Exit, SchedExec, tasks, Good, SchedInv, Types
<1>. QED
  BY <1>1, <1>2, <1>3, QueuedSleepers

LEMMA ScheduleSleepers ==
  ASSUME Good, NEW c \in Cpus, Schedule(c)
  PROVE  SleepersInv'
<1>1. phase[c] = "run" /\ UNCHANGED contributes
  BY DEF Schedule
<1>2. CASE curr[c] \notin Tasks
  <2>1. UNCHANGED <<state, rqs, on_rq>>
    BY <1>2 DEF Schedule
  <2>. QED
    BY <1>1, <2>1, SleepersUntouched DEF rqs
<1>3. CASE curr[c] \in Tasks
  <2>1. PICK t \in Tasks : t = curr[c]
    BY <1>3
  <2>2. on_rq[t] /\ state[t] # "WAKING"
    BY <1>1, <2>1, RunningTask DEF Good
  <2>3. Leaves(c, t)
    BY <2>1 DEF Schedule
  <2>4. CASE Deactivate(c, t) /\ on_rq' = [on_rq EXCEPT ![t] = FALSE]
             /\ UNCHANGED state
    <3>1. \A u \in Tasks \ {t} : on_rq'[u] <=> on_rq[u]
      BY <2>4 DEF Good, SchedInv, Types
    <3>2. Cardinality(Uninterruptible') =
            Cardinality(Uninterruptible) + (IF t \in Uninterruptible' THEN 1 ELSE 0)
              - (IF t \in Uninterruptible THEN 1 ELSE 0)
      BY <1>1, <2>4, <3>1, OthersSleep
    <3>3. t \notin Uninterruptible
      BY <2>2 DEF Uninterruptible
    <3>4. t \in Uninterruptible' <=> Contributes(t)
      <4>1. ~on_rq'[t]
        BY <2>4 DEF Good, SchedInv, Types
      <4>. QED
        BY <2>2, <2>4, <4>1 DEF Uninterruptible, Contributes
    <3>5. Load({t}) = IF Contributes(t) THEN 1 ELSE 0
      BY LoadOfOne
    <3>6. Cardinality(Uninterruptible') = Cardinality(Uninterruptible) + Load({t})
      BY <3>2, <3>3, <3>4, <3>5, SleepersFinite
    <3>7. nr_uninterruptible' = [nr_uninterruptible EXCEPT
                                   ![c] = Wrapped(nr_uninterruptible[c] + Load({t}))]
      BY <2>4 DEF Deactivate
    <3>8. Load({t}) \in Int
      BY <3>5
    <3>. QED
      BY <3>6, <3>7, <3>8, CountersGood, SleepersPoint DEF Good
  <2>5. CASE state' = [state EXCEPT ![t] = "RUNNING"] /\ UNCHANGED <<rqs, on_rq>>
    <3>1. \A u \in Tasks \ {t} : state'[u] = state[u]
      BY <2>5 DEF Good, SchedInv, Types
    <3>. QED
      BY <1>1, <2>2, <2>5, <3>1, QueuedSleepers DEF rqs
  <2>6. CASE UNCHANGED <<state, rqs, on_rq>>
    BY <1>1, <2>6, SleepersUntouched DEF rqs
  <2>. QED
    BY <2>3, <2>4, <2>5, <2>6 DEF Leaves
<1>. QED
  BY <1>2, <1>3

(* A sleeper that is not on a queue is activated                            *)
LEMMA ActivateSleepers ==
  ASSUME Good, NEW c \in Cpus, NEW t \in Tasks, ~on_rq[t], state[t] # "WAKING",
         Activate(c, {t}), on_rq' = [on_rq EXCEPT ![t] = TRUE],
         \A u \in Tasks \ {t} : state'[u] = state[u], UNCHANGED contributes
  PROVE  SleepersInv'
<1>1. \A u \in Tasks \ {t} : on_rq'[u] <=> on_rq[u]
  BY DEF Good, SchedInv, Types
<1>2. Cardinality(Uninterruptible') =
        Cardinality(Uninterruptible) + (IF t \in Uninterruptible' THEN 1 ELSE 0)
          - (IF t \in Uninterruptible THEN 1 ELSE 0)
  BY <1>1, OthersSleep
<1>3. t \notin Uninterruptible'
  <2>1. on_rq'[t]
    BY DEF Good, SchedInv, Types
  <2>. QED
    BY <2>1 DEF Uninterruptible
<1>4. t \in Uninterruptible <=> Contributes(t)
  BY DEF Uninterruptible
<1>5. Load({t}) = IF Contributes(t) THEN 1 ELSE 0
  BY LoadOfOne
<1>6. PICK n \in Int : n = -Load({t})
  BY <1>5
<1>7. Cardinality(Uninterruptible') = Cardinality(Uninterruptible) + n
  BY <1>2, <1>3, <1>4, <1>5, <1>6, SleepersFinite
<1>8. nr_uninterruptible \in Counters
  BY CountersGood
<1>9. nr_uninterruptible[c] - Load({t}) = nr_uninterruptible[c] + n
  <2>1. nr_uninterruptible[c] \in 0 .. Wrap - 1
    BY <1>8 DEF Counters
  <2>. QED
    BY <1>5, <1>6, <2>1
<1>10. nr_uninterruptible' = [nr_uninterruptible EXCEPT
                                ![c] = Wrapped(nr_uninterruptible[c] + n)]
  BY <1>9 DEF Activate
<1>. QED
  BY <1>7, <1>8, <1>10, SleepersPoint DEF Good

LEMMA DoActivateSleepers ==
  ASSUME Good, NEW c \in Cpus, NEW T \in SUBSET Tasks, DoActivate(c, T),
         \A t \in T : state[t] = "WAKING" /\ ~on_rq[t]
  PROVE  SleepersInv'
<1>1. /\ Cardinality(Uninterruptible') = Cardinality(Uninterruptible) - LoadOfWoken(T)
      /\ LoadOfWoken(T) \in Nat
  BY WokenSleepers DEF DoActivate
<1>2. PICK n \in Int : n = -LoadOfWoken(T)
  BY <1>1
<1>3. Cardinality(Uninterruptible') = Cardinality(Uninterruptible) + n
  BY <1>1, <1>2, SleepersFinite
<1>4. nr_uninterruptible \in Counters
  BY CountersGood
<1>5. nr_uninterruptible[c] - LoadOfWoken(T) = nr_uninterruptible[c] + n
  <2>1. nr_uninterruptible[c] \in 0 .. Wrap - 1
    BY <1>4 DEF Counters
  <2>. QED
    BY <1>1, <1>2, <2>1
<1>6. nr_uninterruptible' = [nr_uninterruptible EXCEPT
                               ![c] = Wrapped(nr_uninterruptible[c] + n)]
  BY <1>5 DEF DoActivate
<1>. QED
  BY <1>3, <1>4, <1>6, SleepersPoint DEF Good

LEMMA WakeContinueSleepers ==
  ASSUME Good, NEW c \in Cpus, WakeContinue(c)
  PROVE  SleepersInv'
<1>1. CASE WakeLock(c) \/ WakeQueueRemote(c)
  <2>1. UNCHANGED <<state, on_rq, contributes, nr_uninterruptible>>
    BY <1>1 DEF WakeLock, WakeQueueRemote, tasks, rqs
  <2>. QED
    BY <2>1, SleepersUntouched
<1>2. ASSUME waker[c].pc # "idle"
      PROVE  waker[c].task \in Tasks /\ waker[c].cpu \in Cpus
  BY <1>2, WakerFacts DEF Good, SchedInv, Types, WakersInv
<1>3. CASE WakeRemote(c)
  <2>1. PICK t \in Tasks : t = waker[c].task
    BY <1>2, <1>3 DEF WakeRemote
  <2>2. UNCHANGED <<on_rq, contributes, nr_uninterruptible>>
    BY <1>3 DEF WakeRemote, rqs
  <2>3. CASE on_rq[t]
    <3>1. state' = [state EXCEPT ![t] = "RUNNING"]
      BY <1>3, <2>1, <2>3 DEF WakeRemote, StillQueued
    <3>2. \A u \in Tasks \ {t} : state'[u] = state[u]
      BY <3>1 DEF Good, SchedInv, Types
    <3>. QED
      BY <2>2, <2>3, <3>2, QueuedSleepers
  <2>4. CASE ~on_rq[t]
    BY <1>3, <2>1, <2>2, <2>4, SleepersUntouched DEF WakeRemote, StillQueued
  <2>. QED
    BY <2>3, <2>4
<1>4. CASE WakeOnCpu(c)
  <2>1. PICK t \in Tasks : t = waker[c].task
    BY <1>2, <1>4 DEF WakeOnCpu
  <2>2. /\ Activate(cpu[t], {t}) /\ on_rq' = [on_rq EXCEPT ![t] = TRUE]
        /\ state' = [state EXCEPT ![t] = "RUNNING"] /\ UNCHANGED contributes
        /\ Holds(c, t) /\ waker[c].pc = "spin"
    BY <1>4, <2>1 DEF WakeOnCpu, Holds
  <2>3. ~on_rq[t] /\ state[t] \in Sleeping
    BY <2>2 DEF Good, SchedInv, WakersInv
  <2>4. cpu[t] \in Cpus /\ \A u \in Tasks \ {t} : state'[u] = state[u]
    BY <2>2 DEF Good, SchedInv, Types
  <2>5. state[t] # "WAKING"
    BY <2>3 DEF Sleeping
  <2>. QED
    BY <2>2, <2>3, <2>4, <2>5, ActivateSleepers
<1>5. CASE WakeSelect(c)
  <2>1. PICK t \in Tasks : t = waker[c].task
    BY <1>2, <1>5 DEF WakeSelect
  <2>2. /\ contributes' = [contributes EXCEPT ![t] = Contributes(t)]
        /\ state' = [state EXCEPT ![t] = "WAKING"]
        /\ UNCHANGED <<on_rq, nr_uninterruptible>>
        /\ Holds(c, t) /\ waker[c].pc = "spin"
    BY <1>5, <2>1 DEF WakeSelect, Holds, rqs
  <2>3. ~on_rq[t] /\ state[t] \in Sleeping
    BY <2>2 DEF Good, SchedInv, WakersInv
  <2>4. /\ state'[t] = "WAKING" /\ ~on_rq'[t]
        /\ \A u \in Tasks \ {t} : state'[u] = state[u]
    BY <2>2, <2>3 DEF Good, SchedInv, Types
  <2>5. /\ contributes'[t] <=> Contributes(t)
        /\ \A u \in Tasks \ {t} : contributes'[u] <=> contributes[u]
    BY <2>2 DEF Good, OtherTypes
  <2>6. Cardinality(Uninterruptible') =
          Cardinality(Uninterruptible) + (IF t \in Uninterruptible' THEN 1 ELSE 0)
            - (IF t \in Uninterruptible THEN 1 ELSE 0)
    BY <2>2, <2>4, <2>5, OthersSleep
  <2>7. t \in Uninterruptible' <=> t \in Uninterruptible
    BY <2>3, <2>4, <2>5 DEF Uninterruptible, Contributes, Sleeping
  <2>8. Cardinality(Uninterruptible') = Cardinality(Uninterruptible)
    BY <2>6, <2>7, SleepersFinite
  <2>. QED
    BY <2>2, <2>8, SleepersSame DEF Good
<1>6. CASE WakeQueue(c)
  <2>1. PICK t \in Tasks : t = waker[c].task
    BY <1>2, <1>6 DEF WakeQueue
  <2>2. DoActivate(c, {t}) /\ Holds(c, t) /\ waker[c].pc = "queue"
    BY <1>6, <2>1 DEF WakeQueue, Holds
  <2>3. state[t] = "WAKING" /\ ~on_rq[t]
    BY <2>2 DEF Good, SchedInv, WakersInv, StatesInv
  <2>4. {t} \in SUBSET Tasks /\ \A u \in {t} : state[u] = "WAKING" /\ ~on_rq[u]
    BY <2>3
  <2>. QED
    BY <2>2, <2>4, DoActivateSleepers
<1>. QED
  BY <1>1, <1>3, <1>4, <1>5, <1>6 DEF WakeContinue

LEMMA SchedulerIpiSleepers ==
  ASSUME Good, NEW c \in Cpus, SchedulerIpi(c)
  PROVE  SleepersInv'
<1>1. DoActivate(c, wake_list[c])
  BY DEF SchedulerIpi
<1>2. PICK T \in SUBSET Tasks : T = wake_list[c]
  BY DEF Good, SchedInv, Types
<1>3. \A t \in T : state[t] = "WAKING" /\ ~on_rq[t]
  BY <1>2 DEF Good, SchedInv, WakeListInv, StatesInv
<1>. QED
  BY <1>1, <1>2, <1>3, DoActivateSleepers

LEMMA NewTaskSleepers ==
  ASSUME Good, NEW t \in Tasks,
         WakeUpNewTask(t) \/ \E c \in Cpus, p \in Tasks : SchedFork(c, p, t)
  PROVE  SleepersInv'
<1>1. CASE WakeUpNewTask(t)
  <2>1. PICK d \in Cpus : Activate(d, {t})
    BY <1>1 DEF WakeUpNewTask
  <2>2. /\ doing[t] = "new" /\ on_rq' = [on_rq EXCEPT ![t] = TRUE]
        /\ UNCHANGED <<state, contributes>>
    BY <1>1 DEF WakeUpNewTask
  <2>3. ~on_rq[t] /\ state[t] = "RUNNING"
    BY <2>2 DEF Good, SchedInv, StatesInv
  <2>. QED
    BY <2>1, <2>2, <2>3, ActivateSleepers
<1>2. CASE \E c \in Cpus, p \in Tasks : SchedFork(c, p, t)
  <2>1. /\ state[t] = "NONE" /\ state' = [state EXCEPT ![t] = "RUNNING"]
        /\ UNCHANGED <<on_rq, contributes, nr_uninterruptible>>
    BY <1>2 DEF SchedFork, rqs
  <2>2. state'[t] = "RUNNING" /\ \A u \in Tasks \ {t} : state'[u] = state[u]
    BY <2>1 DEF Good, SchedInv, Types
  <2>3. Cardinality(Uninterruptible') =
          Cardinality(Uninterruptible) + (IF t \in Uninterruptible' THEN 1 ELSE 0)
            - (IF t \in Uninterruptible THEN 1 ELSE 0)
    BY <2>1, <2>2, OthersSleep
  <2>4. t \notin Uninterruptible' /\ t \notin Uninterruptible
    BY <2>1, <2>2 DEF Uninterruptible, Contributes
  <2>5. Cardinality(Uninterruptible') = Cardinality(Uninterruptible)
    BY <2>3, <2>4, SleepersFinite
  <2>. QED
    BY <2>1, <2>5, SleepersSame DEF Good
<1>. QED
  BY <1>1, <1>2

LEMMA MoveSleepers ==
  ASSUME Good, NEW c \in Cpus, NEW d \in Cpus, c # d, NEW t \in Tasks,
         Move(t, c, d), UNCHANGED <<state, on_rq, contributes>>
  PROVE  SleepersInv'
<1>1. PICK n \in Int : n = Load({t})
  BY LoadOfOne
<1>2. nr_uninterruptible' =
        [nr_uninterruptible EXCEPT ![c] = Wrapped(nr_uninterruptible[c] + n),
                                   ![d] = Wrapped(nr_uninterruptible[d] - n)]
  BY <1>1 DEF Move
<1>3. Uninterruptible' = Uninterruptible
  BY DEF Uninterruptible, Contributes
<1>. QED
  BY <1>2, <1>3, CountersGood, SleepersMove DEF Good

LEMMA MigrationSleepers ==
  ASSUME Good, NEW c \in Cpus, MigrationCpuStop(c)
  PROVE  SleepersInv'
<1>1. PICK r \in stops : IF CanMigrate(r.task, c, r.dest) /\ r.dest # c
                         THEN Move(r.task, c, r.dest) ELSE UNCHANGED <<rqs, cpu>>
  BY DEF MigrationCpuStop
<1>2. UNCHANGED <<state, on_rq, contributes>>
  BY DEF MigrationCpuStop
<1>3. PICK t \in Tasks, d \in Cpus : t = r.task /\ d = r.dest
  BY DEF Good, OtherTypes, Moves
<1>4. CASE UNCHANGED rqs
  BY <1>2, <1>4, SleepersUntouched DEF rqs
<1>5. CASE d # c /\ Move(t, c, d)
  BY <1>2, <1>5, MoveSleepers
<1>. QED
  BY <1>1, <1>3, <1>4, <1>5

LEMMA PullSleepers ==
  ASSUME Good, NEW c \in Cpus, NEW t \in Tasks, Pull(c, t)
  PROVE  SleepersInv'
<1>1. /\ cpu[t] # c /\ Move(t, cpu[t], c) /\ UNCHANGED <<state, on_rq, contributes>>
  BY DEF Pull
<1>2. cpu[t] \in Cpus
  BY DEF Good, SchedInv, Types
<1>. QED
  BY <1>1, <1>2, MoveSleepers

(* All counters change: that of CPU c, which goes down, is given to CPU e,  *)
(* where it makes k, and each CPU d gets tasks of load l[d]; w sleepers     *)
(* less are left                                                            *)
SpreadOut(c, e, w, k, l, L) ==
  /\ l \in [Cpus -> Int] /\ l[c] = 0
  /\ L \in [SUBSET Cpus -> Int] /\ L[{}] = 0
  /\ \A s \in SUBSET Cpus : \A x \in s : L[s] = l[x] + L[s \ {x}]
  /\ w \in Int /\ k \in Int /\ k = nr_uninterruptible[c] + L[Cpus] - w
  /\ nr_uninterruptible'[c] = 0
  /\ \A d \in Cpus \ {c} : nr_uninterruptible'[d] =
       Wrapped(nr_uninterruptible[d] - l[d] + (IF d = e THEN k ELSE 0))
  /\ Cardinality(Uninterruptible') = Cardinality(Uninterruptible) - w

LEMMA SleepersSpread ==
  ASSUME SleepersInv, nr_uninterruptible \in Counters,
         nr_uninterruptible' \in Counters,
         NEW c \in Cpus, NEW e \in Cpus, c # e, NEW w, NEW k, NEW l, NEW L,
         SpreadOut(c, e, w, k, l, L)
  PROVE  SleepersInv'
<1>. USE DEF SpreadOut
<1>. DEFINE f == nr_uninterruptible'
            g == nr_uninterruptible
            C == [s \in SUBSET Cpus |-> IF c \in s THEN g[c] ELSE 0]
            E == [s \in SUBSET Cpus |-> IF e \in s THEN k ELSE 0]
            D == [s \in SUBSET Cpus |-> E[s] - C[s] - L[s]]
            n(d) == g[d] - l[d] + (IF d = e THEN k ELSE 0)
<1>0. \A x \in Cpus : g[x] \in 0 .. Wrap - 1 /\ g[x] \in Int /\ l[x] \in Int
  BY DEF Counters
<1>1. \A d \in Cpus : n(d) \in Int
  BY <1>0
<1>2. /\ f \in Counters /\ f[c] = 0 /\ \A d \in Cpus \ {c} : f[d] = Wrapped(n(d))
      /\ g \in Counters /\ k = g[c] + L[Cpus] - w
  OBVIOUS
<1>3. \A s \in SUBSET Cpus : \A x \in s :
        L[s] = l[x] + L[s \ {x}] /\ L[s] \in Int /\ L[s \ {x}] \in Int
  OBVIOUS
<1>4. \A d \in Cpus : Congruent(Wrapped(n(d)), n(d))
  <2>. HIDE DEF n
  <2>. QED
    BY <1>1, WrappedCongruent
<1>. HIDE DEF f, g
<1>5. \A d \in Cpus \ {c} : f[d] = Wrapped(n(d))
  BY <1>2
<1>6. AddsUp(f, g, D)
  <2>1. ASSUME NEW s \in SUBSET Cpus, NEW x \in s
        PROVE  Congruent(f[x], g[x] + D[s] - D[s \ {x}])
    <3>0. /\ D[s] = E[s] - C[s] - L[s]
          /\ D[s \ {x}] = E[s \ {x}] - C[s \ {x}] - L[s \ {x}]
          /\ C[s] \in Int /\ E[s] \in Int /\ C[s \ {x}] \in Int /\ E[s \ {x}] \in Int
      BY <1>0
    <3>1. CASE x = c
      <4>1. C[s] = g[c] /\ C[s \ {x}] = 0 /\ E[s] = E[s \ {x}]
        BY <3>1
      <4>2. L[s] = L[s \ {x}] /\ L[s] \in Int
        <5>1. /\ L[s] = l[x] + L[s \ {x}] /\ L[s] \in Int /\ L[s \ {x}] \in Int
              /\ l[x] = 0
          BY <1>3, <3>1
        <5>. QED
          BY <5>1
      <4>3. g[x] + D[s] - D[s \ {x}] = 0
        <5>. HIDE DEF C, D, E
        <5>. QED
          BY <1>0, <3>0, <3>1, <4>1, <4>2
      <4>. QED
        BY <1>2, <3>1, <4>3, EqualCongruent
    <3>2. CASE x # c
      <4>1. C[s] = C[s \ {x}]
        BY <3>2
      <4>2. E[s] - E[s \ {x}] = IF x = e THEN k ELSE 0
        BY <3>0
      <4>3. g[x] + D[s] - D[s \ {x}] = n(x)
        <5>1. L[s] = l[x] + L[s \ {x}] /\ L[s] \in Int /\ L[s \ {x}] \in Int
          BY <1>3
        <5>. HIDE DEF C, D, E
        <5>. QED
          BY <1>0, <3>0, <4>1, <4>2, <5>1
      <4>. HIDE DEF n, D
      <4>. QED
        BY <1>4, <1>5, <3>2, <4>3
    <3>. QED
      BY <3>1, <3>2
  <2>2. D \in [SUBSET Cpus -> Int] /\ D[{}] = 0
    <3>1. \A s \in SUBSET Cpus : C[s] \in Int /\ E[s] \in Int /\ L[s] \in Int
      BY <1>0
    <3>2. C[{}] = 0 /\ E[{}] = 0
      OBVIOUS
    <3>. HIDE DEF C, E
    <3>. QED
      BY <3>1, <3>2
  <2>. HIDE DEF D
  <2>. QED
    BY <2>1, <2>2 DEF AddsUp
<1>7. D[Cpus] = -w
  <2>1. D[Cpus] = k - g[c] - L[Cpus]
    OBVIOUS
  <2>. HIDE DEF D
  <2>. QED
    BY <1>0, <1>2, <2>1
<1>. HIDE DEF D
<1>8. Cardinality(Uninterruptible') = Cardinality(Uninterruptible) + D[Cpus]
  BY <1>7, SleepersFinite
<1>. QED
  BY <1>2, <1>6, <1>8, SleepersBalance DEF f, g

(* The load of the tasks that are sent to the CPUs of a set                 *)
LoadTo(Q, f, s) == Cardinality({t \in Q : Contributes(t) /\ f[t] \in s})

LEMMA LoadToAdds ==
  ASSUME NEW Q \in SUBSET Tasks, NEW f, NEW s, NEW x \in s
  PROVE  /\ LoadTo(Q, f, s) = LoadTo(Q, f, {x}) + LoadTo(Q, f, s \ {x})
         /\ LoadTo(Q, f, s) \in Nat /\ LoadTo(Q, f, {x}) \in Nat
<1>. DEFINE A == {t \in Q : Contributes(t) /\ f[t] \in {x}}
            B == {t \in Q : Contributes(t) /\ f[t] \in s \ {x}}
            Both == {t \in Q : Contributes(t) /\ f[t] \in s}
<1>1. Both = A \cup B /\ A \cap B = {}
  OBVIOUS
<1>2. IsFiniteSet(A) /\ IsFiniteSet(B) /\ IsFiniteSet(Both)
  BY TasksAssumption, FS_Subset
<1>3. /\ LoadTo(Q, f, s) = Cardinality(Both) /\ LoadTo(Q, f, {x}) = Cardinality(A)
      /\ LoadTo(Q, f, s \ {x}) = Cardinality(B)
  BY DEF LoadTo
<1>. HIDE DEF A, B, Both
<1>4. /\ Cardinality(A) \in Nat /\ Cardinality(B) \in Nat /\ Cardinality(Both) \in Nat
      /\ Cardinality(A \cap B) = 0
  BY <1>1, <1>2, FS_CardinalityType, FS_EmptySet
<1>5. Cardinality(A \cup B) = Cardinality(A) + Cardinality(B) - Cardinality(A \cap B)
  BY <1>2, FS_Union
<1>. QED
  BY <1>1, <1>3, <1>4, <1>5

LEMMA CpuDyingSleepers ==
  ASSUME Good, NEW c \in Cpus, CpuDying(c)
  PROVE  SleepersInv'
<1>. DEFINE N == nr_uninterruptible
<1>0. PICK P \in SUBSET Tasks, Q \in SUBSET Tasks : P = wake_list[c] /\ Q = queue[c]
  BY DEF Good, SchedInv, Types
<1>1. PICK T \in SUBSET Tasks : T = Q \cup P
  OBVIOUS
<1>2. PICK f \in [T -> active], e \in active :
        N' = [d \in Cpus |-> IF d = c THEN 0 ELSE
                Wrapped(N[d] - Load({t \in T : f[t] = d} \cap Q)
                        + (IF d = e THEN N[c] + Load(Q) - LoadOfWoken(P) ELSE 0))]
  <2>. DEFINE R == queue[c] \cup wake_list[c]
  <2>1. \E f \in [R -> active], e \in active :
          N' = [d \in Cpus |-> IF d = c THEN 0 ELSE
                  Wrapped(N[d] - Load({t \in R : f[t] = d} \cap queue[c])
                          + (IF d = e THEN N[c] + Load(queue[c])
                                             - LoadOfWoken(wake_list[c]) ELSE 0))]
    BY DEF CpuDying, Pendings
  <2>2. R = T
    BY <1>0, <1>1
  <2>. HIDE DEF R
  <2>. QED
    BY <1>0, <2>1, <2>2
<1>3. /\ state' = Woken(P) /\ on_rq' = Queued(P) /\ contributes' = NotWaking(P)
      /\ c \in online \ active
  BY <1>0 DEF CpuDying, Pendings
<1>4. \A t \in P : state[t] = "WAKING" /\ ~on_rq[t]
  BY <1>0 DEF Good, SchedInv, WakeListInv, StatesInv
<1>5. /\ Cardinality(Uninterruptible') = Cardinality(Uninterruptible) - LoadOfWoken(P)
      /\ LoadOfWoken(P) \in Nat
  BY <1>3, <1>4, WokenSleepers
<1>6. e \in Cpus /\ c # e /\ active \subseteq Cpus /\ c \notin active
  BY <1>3 DEF Good, SchedInv, Types
<1>. DEFINE l == [d \in Cpus |-> LoadTo(Q, f, {d})]
            L == [s \in SUBSET Cpus |-> LoadTo(Q, f, s)]
            w == LoadOfWoken(P)
<1>7. \A d \in Cpus : Load({t \in T : f[t] = d} \cap Q) = l[d]
  <2>1. ASSUME NEW d \in Cpus
        PROVE  {t \in {t \in T : f[t] = d} \cap Q : Contributes(t)} =
                 {t \in Q : Contributes(t) /\ f[t] \in {d}}
    BY <1>1
  <2>. QED
    BY <2>1 DEF Load, LoadTo
<1>8. Load(Q) = L[Cpus]
  <2>1. \A t \in Q : f[t] \in Cpus
    BY <1>1, <1>6
  <2>2. {t \in Q : Contributes(t)} = {t \in Q : Contributes(t) /\ f[t] \in Cpus}
    BY <2>1
  <2>. QED
    BY <2>2 DEF Load, LoadTo
<1>9. l[c] = 0 /\ L[{}] = 0
  <2>1. \A t \in Q : f[t] # c
    BY <1>1, <1>6
  <2>2. /\ {t \in Q : Contributes(t) /\ f[t] \in {c}} = {}
        /\ {t \in Q : Contributes(t) /\ f[t] \in {}} = {}
    BY <2>1
  <2>3. LoadTo(Q, f, {c}) = 0 /\ LoadTo(Q, f, {}) = 0
    BY <2>2, FS_EmptySet DEF LoadTo
  <2>. QED
    BY <2>3
<1>10. \A s \in SUBSET Cpus : \A x \in s :
         L[s] = l[x] + L[s \ {x}] /\ L[s] \in Nat /\ l[x] \in Nat
  <2>1. ASSUME NEW s \in SUBSET Cpus, NEW x \in s
        PROVE  L[s] = l[x] + L[s \ {x}] /\ L[s] \in Nat /\ l[x] \in Nat
    <3>1. /\ LoadTo(Q, f, s) = LoadTo(Q, f, {x}) + LoadTo(Q, f, s \ {x})
          /\ LoadTo(Q, f, s) \in Nat /\ LoadTo(Q, f, {x}) \in Nat
      BY LoadToAdds
    <3>2. /\ L[s] = LoadTo(Q, f, s) /\ L[s \ {x}] = LoadTo(Q, f, s \ {x})
          /\ l[x] = LoadTo(Q, f, {x})
      OBVIOUS
    <3>. QED
      BY <3>1, <3>2
  <2>. HIDE DEF l, L
  <2>. QED
    BY <2>1
<1>11. l \in [Cpus -> Int] /\ L \in [SUBSET Cpus -> Int]
  <2>1. \A x \in Cpus : l[x] \in Nat
    <3>1. \A x \in Cpus : x \in {x} /\ {x} \in SUBSET Cpus
      OBVIOUS
    <3>. HIDE DEF l, L
    <3>. QED
      BY <1>10, <3>1
  <2>2. \A s \in SUBSET Cpus : L[s] \in Int
    <3>. HIDE DEF l, L
    <3>1. ASSUME NEW s \in SUBSET Cpus PROVE L[s] \in Int
      <4>1. CASE s = {}
        BY <1>9, <4>1
      <4>2. CASE s # {}
        <5>1. PICK x \in s : TRUE
          BY <4>2
        <5>2. L[s] \in Nat
          BY <1>10, <5>1
        <5>. QED
          BY <5>2
      <4>. QED
        BY <4>1, <4>2
    <3>. QED
      BY <3>1
  <2>3. l \in [Cpus -> {l[x] : x \in Cpus}] /\ L \in [SUBSET Cpus -> {L[s] : s \in SUBSET Cpus}]
    OBVIOUS
  <2>. HIDE DEF l, L
  <2>. QED
    BY <2>1, <2>2, <2>3
<1>. HIDE DEF l, L, w
<1>12. N \in Counters
  BY CountersGood
<1>13. PICK k : k = N[c] + L[Cpus] - w
  OBVIOUS
<1>14. k \in Int /\ w \in Int
  <2>1. N[c] \in 0 .. Wrap - 1
    BY <1>12 DEF Counters
  <2>2. L[Cpus] \in Int /\ w \in Int
    BY <1>5, <1>11 DEF w
  <2>. QED
    BY <1>13, <2>1, <2>2
<1>15. N' = [d \in Cpus |-> IF d = c THEN 0
               ELSE Wrapped(N[d] - l[d] + (IF d = e THEN k ELSE 0))]
  BY <1>2, <1>7, <1>8, <1>13 DEF w
<1>16. Cardinality(Uninterruptible') = Cardinality(Uninterruptible) - w
  BY <1>5 DEF w
<1>19. N' \in Counters /\ N'[c] = 0
       /\ \A d \in Cpus \ {c} :
            N'[d] = Wrapped(N[d] - l[d] + (IF d = e THEN k ELSE 0))
  <2>. DEFINE n(d) == N[d] - l[d] + (IF d = e THEN k ELSE 0)
  <2>1. \A d \in Cpus : n(d) \in Int
    <3>1. \A d \in Cpus : N[d] \in 0 .. Wrap - 1 /\ l[d] \in Int
      BY <1>11, <1>12 DEF Counters
    <3>. QED
      BY <1>14, <3>1
  <2>2. N' = [d \in Cpus |-> IF d = c THEN 0 ELSE Wrapped(n(d))]
    BY <1>15
  <2>3. 0 \in 0 .. Wrap - 1
    BY BoundsAssumption
  <2>. HIDE DEF n
  <2>4. \A d \in Cpus : Wrapped(n(d)) \in 0 .. Wrap - 1
    BY <2>1, WrappedType
  <2>5. N' \in Counters /\ N'[c] = 0 /\ \A d \in Cpus \ {c} : N'[d] = Wrapped(n(d))
    BY <2>2, <2>3, <2>4 DEF Counters
  <2>. QED
    BY <2>5 DEF n
<1>17. \A s \in SUBSET Cpus : \A x \in s : L[s] = l[x] + L[s \ {x}]
  BY <1>10
<1>18. SleepersInv
  BY DEF Good
<1>20. SpreadOut(c, e, w, k, l, L)
  BY <1>9, <1>11, <1>13, <1>14, <1>16, <1>17, <1>19 DEF SpreadOut
<1>. QED
  BY <1>6, <1>12, <1>18, <1>19, <1>20, SleepersSpread

LEMMA SleepersStep ==
  ASSUME Good, [Next]_vars
  PROVE  SleepersInv'
<1>1. CASE UNCHANGED vars
  BY <1>1, SleepersUntouched DEF vars, tasks, rqs
<1>2. ASSUME NEW c \in Cpus,
             \/ PickAfterBalance(c) \/ FinishSwitch(c) \/ CpuDownPrepare(c)
             \/ CpuActive(c) \/ CpuUp(c)
      PROVE  SleepersInv'
  <2>1. UNCHANGED <<state, on_rq, contributes, nr_uninterruptible>>
    BY <1>2 DEF PickAfterBalance, FinishSwitch, CpuDownPrepare, CpuActive, CpuUp,
                tasks, rqs
  <2>. QED
    BY <2>1, SleepersUntouched
<1>3. ASSUME NEW c \in Cpus, NEW t \in Tasks, WakeBegin(c, t)
      PROVE  SleepersInv'
  BY <1>3, SleepersUntouched DEF WakeBegin, tasks, rqs
<1>4. ASSUME NEW c \in Cpus, NEW p \in Tasks, NEW t \in Tasks, SetCpusAllowed(c, p, t)
      PROVE  SleepersInv'
  BY <1>4, SleepersUntouched DEF SetCpusAllowed, rqs
<1>. QED
  BY <1>1, <1>2, <1>3, <1>4, ScheduleSleepers, WakeContinueSleepers,
     SchedulerIpiSleepers, MigrationSleepers, CpuDyingSleepers, OwnCodeSleepers,
     PullSleepers, NewTaskSleepers DEF Next

LEMMA InitSleepers == Init => SleepersInv
<1>. SUFFICES ASSUME Init PROVE SleepersInv
  OBVIOUS
<1>1. Pairs(nr_uninterruptible, Cpus) = {}
  BY BoundsAssumption DEF Init, Pairs
<1>2. Uninterruptible = {}
  BY DEF Init, Uninterruptible, Contributes
<1>3. Total(nr_uninterruptible) = 0 /\ Cardinality(Uninterruptible) = 0
  BY <1>1, <1>2, FS_EmptySet DEF Total
<1>. QED
  BY <1>3, EqualCongruent DEF SleepersInv

(* The counters of all CPUs add up, modulo their width, to the tasks that   *)
(* sleep uninterruptibly: whichever CPU counted a task and whichever wakes  *)
(* it, and when a CPU goes down and its counter is folded into another's    *)
THEOREM SleepersCounted == Spec => []UninterruptibleExact
<1>1. Init => SleepersInv
  BY InitSleepers
<1>2. SchedInv /\ OtherTypes /\ SleepersInv /\ [Next]_vars => SleepersInv'
  BY SleepersStep DEF Good
<1>3. OtherTypes /\ SleepersInv => UninterruptibleExact
  <2>. SUFFICES ASSUME OtherTypes, SleepersInv PROVE UninterruptibleExact
    OBVIOUS
  <2>1. PICK f \in Counters : f = nr_uninterruptible
    BY DEF OtherTypes, Counters
  <2>2. MapThenSumSet(LAMBDA c : nr_uninterruptible[c], Cpus) = SumOf(f, Cpus)
    BY <2>1 DEF SumOf
  <2>3. SumOf(f, Cpus) = Total(f) /\ Total(f) \in Int
    BY SumIsPairs, TotalInteger DEF Total
  <2>4. Congruent(Total(f), Cardinality(Uninterruptible))
    BY <2>1 DEF SleepersInv
  <2>5. Wrapped(Total(f)) = Wrapped(Cardinality(Uninterruptible))
    BY <2>3, <2>4, SleepersFinite, CongruentWrapped
  <2>. QED
    BY <2>2, <2>3, <2>5 DEF UninterruptibleExact
<1>. QED
  BY <1>1, <1>2, <1>3, Invariant, PTL DEF Spec

(* As fewer tasks than the counters' width can count ever exist, the sum    *)
(* that nr_uninterruptible() returns is the number of those asleep          *)
THEOREM SleepersExact ==
  ASSUME Cardinality(Tasks) < Wrap
  PROVE  Spec => [](Wrapped(SumOf(nr_uninterruptible, Cpus))
                      = Cardinality(Uninterruptible))
<1>1. UninterruptibleExact =>
        Wrapped(SumOf(nr_uninterruptible, Cpus)) = Cardinality(Uninterruptible)
  <2>1. Uninterruptible \subseteq Tasks
    BY DEF Uninterruptible
  <2>2. /\ Cardinality(Uninterruptible) \in Nat /\ Cardinality(Tasks) \in Nat
        /\ Cardinality(Uninterruptible) <= Cardinality(Tasks)
    BY <2>1, TasksAssumption, FS_Subset, FS_CardinalityType
  <2>3. PICK n \in Nat : n = Cardinality(Uninterruptible)
    BY <2>2
  <2>4. n < Wrap
    BY <2>2, <2>3, BoundsAssumption
  <2>5. n % Wrap = n
    BY <2>4, BoundsAssumption
  <2>. QED
    BY <2>3, <2>5 DEF UninterruptibleExact, SumOf, Wrapped
<1>. QED
  BY <1>1, SleepersCounted, PTL
================================================================================
