------------------------------ MODULE Scheduler ------------------------------
(***************************************************************************)
(* The scheduler (kernel/process/scheduler.c), the clock (kernel/timer.c)  *)
(* and the sleeping processes (kernel/process/timer_api.c).                *)
(*                                                                         *)
(* The kernel has one processor and handles a trap with interrupts off, so *)
(* the only interleaving is that of complete handlers.  kpc says where the *)
(* processor is: "user" in the program of the current process, "scheduler" *)
(* inside scheduler(), "halted" after a failed assertion; the modules that *)
(* extend this one add the places where a blocked system call continues.   *)
(* A handler that ends in a call of scheduler() leaves kpc = "scheduler",  *)
(* and then only the steps of scheduler() are enabled: one for every turn  *)
(* of its two loops and one for the context switch.  No other handler can  *)
(* come in between.                                                        *)
(*                                                                         *)
(* Init is the state after the first clock interrupt, in which scheduler() *)
(* has launched the program with the highest priority.                     *)
(***************************************************************************)
EXTENDS PrioQueue

CONSTANTS
  Pid,            \* the process identifiers
  Prio,           \* the priorities MINPRIO..MAXPRIO
  idleId,         \* the identifier of the idle process
  INT64_LIMIT,    \* 2^63 in the code: wake times are signed 64 bit integers
  MaxClock,       \* bound: the clock stops counting at this value
  Durations       \* the arguments given to wait_clock

VARIABLES
  table,          \* the pids in pid_process_hash_table
  current,        \* current_running_process_pid
  state,          \* state[p], "FREE" when p has no process structure
  prio,           \* prio[p]
  wake_time,      \* wake_time[p], minus the time at which p is to wake up
  activatable,    \* activatable_process_queue
  asleep,         \* asleep_process_queue
  dead,           \* dead_process_queue
  counter,        \* the number of clock interrupts
  kpc,            \* where the processor is
  resume          \* resume[p], where p continues once it is dispatched

schedVars == <<table, current, state, prio, wake_time, activatable, asleep,
               dead, counter, kpc, resume>>

ASSUME SchedulerAssumption ==
  /\ Pid \subseteq Nat \ {0} /\ IsFiniteSet(Pid)
  /\ Prio \subseteq Nat \ {0}
  /\ idleId \in Pid
  /\ INT64_LIMIT \in Nat \ {0}
  /\ MaxClock \in Nat \ {0}
  /\ MaxClock < INT64_LIMIT
  /\ Durations \subseteq Nat

process_state == {"ACTIF", "ACTIVATABLE", "BLOCKEDSEMAPHORE", "BLOCKEDIO",
                  "BLOCKEDQUEUE", "BLOCKEDWAITCHILD", "ASLEEP", "ZOMBIE",
                  "KILLED"}

------------------------------------------------------------------------------
(* scheduler()                                                             *)

(* get_next_wake_time: 0 also stands for "nobody sleeps".                  *)
get_next_wake_time ==
  IF queue_empty(asleep) THEN 0 ELSE -wake_time[queue_top(asleep)]

SleeperDue_OnTheDot ==
  get_next_wake_time # 0 /\ counter = get_next_wake_time
SleeperDue == get_next_wake_time # 0 /\ counter > get_next_wake_time

(* The queues after one turn of the loop of awake_sleeping_process.        *)
Woken_Peeked ==
  [slp |-> asleep, act |-> queue_add(activatable, queue_top(asleep), prio)]
Woken_ByWakeTime ==
  [slp |-> queue_out(asleep),
   act |-> queue_add(activatable, queue_top(asleep), wake_time)]
Woken ==
  [slp |-> queue_out(asleep),
   act |-> queue_add(activatable, queue_top(asleep), prio)]

(* That turn.  The woken process keeps the state ASLEEP until it is        *)
(* dispatched.  Its wake_time is not read again before the next wait_clock *)
(* and takes a fixed value here.                                           *)
AwakeSleeping ==
  /\ kpc = "scheduler"
  /\ get_next_wake_time >= 0
  /\ SleeperDue
  /\ asleep' = Woken.slp
  /\ activatable' = Woken.act
  /\ wake_time' = [wake_time EXCEPT ![queue_top(asleep)] = 0]
  /\ UNCHANGED <<table, current, state, prio, dead, counter, kpc, resume>>

(* assert(-p->wake_time >= 0) fails.  For the smallest signed integer the  *)
(* negation overflows, so the test may go either way.                      *)
WakeTimeAssertFails ==
  /\ kpc = "scheduler"
  /\ get_next_wake_time < 0 \/ get_next_wake_time = INT64_LIMIT
  /\ kpc' = "halted"
  /\ UNCHANGED <<table, current, state, prio, wake_time, activatable, asleep,
                 dead, counter, resume>>

(* setpid and the context switch to the process taken from the queue; a    *)
(* process that is not in the table makes setpid fail and scheduler()      *)
(* return.  st and act are the states and the queue of activatable         *)
(* processes left by the outgoing process.                                 *)
SwitchTo(top, st, act) ==
  IF top \in table
  THEN /\ current' = top
       /\ state' = [st EXCEPT ![top] = "ACTIF"]
       /\ activatable' = act
       /\ kpc' = resume[top]
  ELSE /\ activatable' = queue_out(activatable)
       /\ kpc' = resume[current]
       /\ UNCHANGED <<current, state>>

(* An active process gives way to one of the same or of a higher priority. *)
KeepsProcessor_AtEqual(top) == prio[top] <= prio[current]
KeepsProcessor(top) == prio[top] < prio[current]

(* The part of scheduler() after the two loops.  An active process that    *)
(* gives way stays activatable; a killed one is put aside until the next   *)
(* call frees it; a blocked one just leaves.                               *)
Dispatch ==
  LET top == queue_top(activatable) IN
  /\ kpc = "scheduler"
  /\ get_next_wake_time >= 0 /\ ~SleeperDue
  /\ queue_empty(dead)
  /\ IF \/ queue_empty(activatable)
        \/ current \notin table
        \/ state[current] = "ACTIF" /\ KeepsProcessor(top)
     THEN /\ kpc' = resume[current]
          /\ UNCHANGED <<current, state, activatable, dead>>
     ELSE CASE state[current] = "ACTIF" ->
                 /\ SwitchTo(top, [state EXCEPT ![current] = "ACTIVATABLE"],
                             queue_add(queue_out(activatable), current, prio))
                 /\ UNCHANGED dead
            [] state[current] = "KILLED" ->
                 /\ SwitchTo(top, state, queue_out(activatable))
                 /\ dead' = queue_add(dead, current, prio)
            [] OTHER ->
                 /\ SwitchTo(top, state, queue_out(activatable))
                 /\ UNCHANGED dead
  /\ UNCHANGED <<table, prio, wake_time, asleep, counter, resume>>

------------------------------------------------------------------------------
(* The clock                                                               *)

(* handle_stimer_interrupt: a clock interrupt in user mode.                *)
Tick ==
  /\ kpc = "user"
  /\ counter' = IF counter < MaxClock THEN counter + 1 ELSE counter
  /\ kpc' = "scheduler"
  /\ UNCHANGED <<table, current, state, prio, wake_time, activatable, asleep,
                 dead, resume>>

(* -(t) computed on 64 bits without sign and stored in a signed integer.   *)
NegatedInt64(t) ==
  LET u == t % (2 * INT64_LIMIT)
  IN  IF u <= INT64_LIMIT THEN -u ELSE 2 * INT64_LIMIT - u

(* The queue of sleepers is sorted by wake_time, so that the next one to   *)
(* wake is its top.                                                        *)
FallenAsleep_ByPrio(w) == queue_add(asleep, current, prio)
FallenAsleep(w) == queue_add(asleep, current, w)

(* wait_clock(clock), also reached through sleep.                          *)
wait_clock(clock) ==
  LET w == [wake_time EXCEPT ![current] = NegatedInt64(counter + clock)] IN
  /\ kpc = "user"
  /\ current # idleId
  /\ wake_time' = w
  /\ state' = [state EXCEPT ![current] = "ASLEEP"]
  /\ asleep' = FallenAsleep(w)
  /\ kpc' = "scheduler"
  /\ UNCHANGED <<table, current, prio, activatable, dead, counter, resume>>

WaitClock == \E clock \in Durations : wait_clock(clock)

(* After a failed assertion the machine has left the kernel.               *)
Halted == kpc = "halted" /\ UNCHANGED schedVars

SchedulerStep == AwakeSleeping \/ WakeTimeAssertFails \/ Dispatch

------------------------------------------------------------------------------
(* The scheduler alone: a fixed set of processes that compute and sleep.   *)

SchedInit ==
  /\ table = Pid
  /\ current \in Pid \ {idleId}
  /\ state = [p \in Pid |-> IF p = current THEN "ACTIF" ELSE "ACTIVATABLE"]
  /\ prio \in [Pid -> Prio]
  /\ \A p \in Pid : prio[p] <= prio[current]
  /\ wake_time = [p \in Pid |-> 0]
  /\ activatable \in [1..Cardinality(Pid)-1 -> Pid]
  /\ IsInjective(activatable) /\ Range(activatable) = Pid \ {current}
  /\ SortedBy(activatable, prio)
  /\ asleep = << >>
  /\ dead = << >>
  /\ counter = 1
  /\ kpc = "user"
  /\ resume = [p \in Pid |-> "user"]

SchedNext == SchedulerStep \/ Tick \/ WaitClock \/ Halted

SchedSpec == SchedInit /\ [][SchedNext]_schedVars

(* scheduler() runs to its end once it is called, and the timer is armed   *)
(* again by every clock interrupt.                                         *)
SchedFairSpec ==
  SchedSpec /\ WF_schedVars(SchedulerStep) /\ WF_schedVars(Tick)

------------------------------------------------------------------------------
(* Properties                                                              *)

(* The variables have the types of the C declarations.                     *)
SchedTypeOK ==
  /\ table \subseteq Pid
  /\ current \in Pid
  /\ state \in [Pid -> process_state \cup {"FREE"}]
  /\ prio \in [Pid -> Prio]
  /\ wake_time \in [Pid -> Int]
  /\ activatable \in Seq(Pid) /\ asleep \in Seq(Pid) /\ dead \in Seq(Pid)
  /\ counter \in 1..MaxClock
  /\ kpc \in {"user", "scheduler", "halted"}
  /\ resume \in [Pid -> {"user"}]

(* A process is linked at most once (the assertion of queue_add): no       *)
(* queue holds it twice, no two queues share it, and the process that owns *)
(* the processor is in none outside scheduler().                           *)
LinkedOnce ==
  /\ IsInjective(activatable) /\ IsInjective(asleep) /\ IsInjective(dead)
  /\ Range(activatable) \cap Range(asleep) = {}
  /\ Range(dead) \cap (Range(activatable) \cup Range(asleep)) = {}
  /\ kpc \notin {"scheduler", "halted"} =>
       current \notin Range(activatable) \cup Range(asleep) \cup Range(dead)

(* A wake time that wrapped around to 0 stops awake_sleeping_process, for  *)
(* which 0 means that nobody sleeps.                                       *)
WakeUpsStopped == \E p \in Range(asleep) : wake_time[p] = 0

(* awake_sleeping_process wakes every sleeper whose time has passed: no    *)
(* user code runs while one is left in the queue.                          *)
NoOverdueSleeper ==
  kpc = "user" /\ ~WakeUpsStopped =>
    \A p \in Range(asleep) : counter <= -wake_time[p]

(* The process that owns the processor in user mode has a priority that no *)
(* activatable process exceeds.                                            *)
HighestPriorityRuns ==
  kpc = "user" => \A p \in Range(activatable) : prio[p] <= prio[current]

(* Equal priorities take turns: a process that no other exceeds is never   *)
(* kept from the processor for ever, unless it sleeps.                     *)
HighestNotStarved ==
  \A p \in Pid :
    (\A q \in Pid : prio[q] <= prio[p]) =>
      []<>(current = p \/ Linked(asleep, p) \/ kpc = "halted")

(* A sleeper whose wake-up time the bounded clock reaches leaves the queue *)
(* of sleeping processes, unless another one has a wake time that wrapped. *)
SleepersWake ==
  \A p \in Pid :
    (Linked(asleep, p) /\ -wake_time[p] \in 1..MaxClock-1)
      ~> (~Linked(asleep, p) \/ WakeUpsStopped \/ kpc = "halted")
==============================================================================
