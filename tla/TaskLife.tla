------------------------------ MODULE TaskLife ------------------------------
(***************************************************************************)
(* What the scheduler, kernel/sched.c, promises of tasks and CPUs: a CPU   *)
(* runs one task at a time, a task runs on one CPU at a time and only on a *)
(* CPU that is online, a sleeping task runs again only after it was woken, *)
(* and a task that was woken becomes ready.  Scheduler implements it.      *)
(***************************************************************************)
EXTENDS FiniteSets

CONSTANTS
  Tasks,
  Cpus,
  Idle         (* what a CPU runs that runs no task                         *)

VARIABLES
  life,        (* what each task does                                       *)
  runs,        (* the task that each CPU runs, or Idle                      *)
  up           (* the CPUs that are online                                  *)

vars == <<life, runs, up>>

Lives == {"none", "new", "ready", "running", "asleep", "waking", "dead"}

(* What a task does that its CPU gives up                                  *)
Left == {"ready", "asleep", "dead"}

Init ==
  /\ up # {}
  /\ runs \in [Cpus -> Tasks \cup {Idle}]
  /\ life \in [Tasks -> {"none", "running"}]
  /\ \A t \in Tasks : (life[t] = "running") <=> \E c \in up : runs[c] = t

-----------------------------------------------------------------------------

(* The CPU gives its task up and runs another one, if any is ready         *)
Switch(c) ==
  /\ c \in up
  /\ \E n \in {t \in Tasks : life[t] = "ready"} \cup {Idle}, l \in Left :
       /\ runs' = [runs EXCEPT ![c] = n]
       /\ life' = [t \in Tasks |-> IF t = n THEN "running"
                                   ELSE IF t = runs[c] THEN l ELSE life[t]]
  /\ UNCHANGED up

(* A woken task is ready at once, or on its way to the CPU that runs it    *)
Wake(t) ==
  /\ life[t] = "asleep"
  /\ \E l \in {"waking", "ready"} : life' = [life EXCEPT ![t] = l]
  /\ UNCHANGED <<runs, up>>

Arrive(T) ==
  /\ T # {} /\ \A t \in T : life[t] = "waking"
  /\ life' = [t \in Tasks |-> IF t \in T THEN "ready" ELSE life[t]]
  /\ UNCHANGED <<runs, up>>

Fork(t) ==
  /\ life[t] = "none"
  /\ life' = [life EXCEPT ![t] = "new"]
  /\ UNCHANGED <<runs, up>>

Enter(t) ==
  /\ life[t] = "new"
  /\ life' = [life EXCEPT ![t] = "ready"]
  /\ UNCHANGED <<runs, up>>

CpuUp(c) ==
  /\ c \notin up /\ runs[c] = Idle
  /\ up' = up \cup {c}
  /\ UNCHANGED <<life, runs>>

(* The task that a CPU ran when it went down is ready to run on another,   *)
(* and so are those that were on their way to it                           *)
CpuDown(c) ==
  /\ c \in up /\ up # {c}
  /\ up' = up \ {c}
  /\ runs' = [runs EXCEPT ![c] = Idle]
  /\ \E T \in SUBSET {t \in Tasks : life[t] = "waking"} :
       life' = [t \in Tasks |-> IF t = runs[c] \/ t \in T THEN "ready"
                                ELSE life[t]]

Next ==
  \/ \E c \in Cpus : Switch(c) \/ CpuUp(c) \/ CpuDown(c)
  \/ \E t \in Tasks : Wake(t) \/ Fork(t) \/ Enter(t)
  \/ \E T \in SUBSET Tasks : Arrive(T)

Spec == Init /\ [][Next]_vars
=============================================================================
