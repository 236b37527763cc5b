--------------------------- MODULE SchedulerProofs ---------------------------
(***************************************************************************)
(* The scheduler alone (SchedSpec), proved for every number of processes,  *)
(* every assignment of priorities and every clock bound.                   *)
(***************************************************************************)
EXTENDS Scheduler, PrioQueueProofs, FiniteSetTheorems

(* What every step preserves: the state of a process tells which queue it  *)
(* is in, idle can always run, and both queues are sorted.                 *)
SchedIInv ==
  /\ SchedTypeOK
  /\ table = Pid /\ dead = << >>
  /\ \A p \in Pid :
       /\ state[p] \in {"ACTIF", "ACTIVATABLE", "ASLEEP"}
       /\ state[p] = "ACTIF" => p = current
       /\ state[p] = "ACTIVATABLE" => p \in Range(activatable)
  /\ \A p \in Range(activatable) : state[p] \in {"ACTIVATABLE", "ASLEEP"}
  /\ \A p \in Range(asleep) : state[p] = "ASLEEP"
  /\ state[idleId] # "ASLEEP"
  /\ kpc = "user" => state[current] = "ACTIF"
  /\ IsInjective(activatable) /\ IsInjective(asleep)
  /\ Range(activatable) \cap Range(asleep) = {}
  /\ SortedBy(activatable, prio)
  /\ SortedBy(asleep, wake_time)
  /\ HighestPriorityRuns

(* Sortedness depends on the keys of the elements only.                    *)
LEMMA SortedByAgree ==
  ASSUME NEW q, NEW k1, NEW k2, SortedBy(q, k1),
         \A x \in Range(q) : k1[x] = k2[x]
  PROVE  SortedBy(q, k2)
BY DEF SortedBy, Range

(* Priorities are integers, so that queues can be sorted by them.          *)
LEMMA PrioIsInt ==
  ASSUME SchedTypeOK
  PROVE  prio \in [Pid -> Int]
<1>1. \A n \in Prio : n \in Int
  BY SchedulerAssumption
<1>2. prio \in [Pid -> Prio]
  BY DEF SchedTypeOK
<1> QED BY <1>1, <1>2

(* The empty queue has no elements and is sorted by any key.               *)
LEMMA EmptyQueue ==
  /\ Range(<< >>) = {} /\ IsInjective(<< >>)
  /\ \A key : SortedBy(<< >>, key)
BY DEF Range, IsInjective, SortedBy

(* The two numbers the clock produces are integers.                        *)
LEMMA ClockArithmetic ==
  ASSUME NEW t \in Nat
  PROVE  NegatedInt64(t) \in Int
<1>1. 2 * INT64_LIMIT \in Nat \ {0}
  BY SchedulerAssumption
<1> DEFINE u == t % (2 * INT64_LIMIT)
<1>2. u \in Int
  BY <1>1
<1> HIDE DEF u
<1>3. NegatedInt64(t) = IF u <= INT64_LIMIT THEN -u ELSE 2 * INT64_LIMIT - u
  BY DEF NegatedInt64, u
<1> QED BY <1>1, <1>2, <1>3, SchedulerAssumption

(* The state the first clock interrupt leaves satisfies the invariant.     *)
LEMMA SchedInitIInv == SchedInit => SchedIInv
<1> SUFFICES ASSUME SchedInit PROVE SchedIInv
  OBVIOUS
<1>1. activatable \in Seq(Pid)
  <2>1. Cardinality(Pid) \in Nat
    BY SchedulerAssumption, FS_CardinalityType
  <2>2. CASE Cardinality(Pid) = 0
    <3>1. Pid = {}
      BY <2>2, SchedulerAssumption, FS_EmptySet
    <3> QED BY <3>1, SchedulerAssumption
  <2>3. CASE Cardinality(Pid) # 0
    <3>1. Cardinality(Pid) - 1 \in Nat
      BY <2>1, <2>3
    <3> QED BY <3>1 DEF SchedInit
  <2> QED BY <2>2, <2>3
<1>2. SchedTypeOK
  BY <1>1, SchedulerAssumption, EmptySeq
     DEF SchedInit, SchedTypeOK, process_state
<1>3. HighestPriorityRuns
  BY DEF SchedInit, HighestPriorityRuns
<1>4. \A p \in Pid : p # current => p \in Range(activatable)
  BY DEF SchedInit
<1>5. \A p \in Range(activatable) : p \in Pid /\ p # current
  BY DEF SchedInit
<1> QED
  BY <1>2, <1>3, <1>4, <1>5, EmptyQueue, SchedulerAssumption
     DEF SchedInit, SchedIInv

(* One turn of awake_sleeping_process moves the top of one queue to the    *)
(* other.                                                                  *)
LEMMA AwakeSleepingIInv ==
  ASSUME SchedIInv, AwakeSleeping
  PROVE  SchedIInv'
<1> DEFINE w == queue_top(asleep)
<1>1. asleep # << >>
  BY DEF AwakeSleeping, SleeperDue, get_next_wake_time, queue_empty
<1>2. /\ asleep \in Seq(Pid) /\ activatable \in Seq(Pid)
      /\ wake_time \in [Pid -> Int] /\ prio \in [Pid -> Int]
      /\ IsInjective(asleep) /\ IsInjective(activatable)
      /\ SortedBy(asleep, wake_time) /\ SortedBy(activatable, prio)
      /\ Range(activatable) \cap Range(asleep) = {}
  BY PrioIsInt DEF SchedIInv, SchedTypeOK
<1>3. /\ w \in Range(asleep) /\ w \in Pid
      /\ queue_out(asleep) \in Seq(Pid)
      /\ Range(queue_out(asleep)) \cup {w} = Range(asleep)
      /\ IsInjective(queue_out(asleep)) /\ w \notin Range(queue_out(asleep))
      /\ SortedBy(queue_out(asleep), wake_time)
  BY <1>1, <1>2, QueueOut
<1> HIDE DEF w
<1>4. w \notin Range(activatable)
  BY <1>2, <1>3
<1>5. /\ queue_add(activatable, w, prio) \in Seq(Pid)
      /\ Range(queue_add(activatable, w, prio)) = Range(activatable) \cup {w}
      /\ IsInjective(queue_add(activatable, w, prio))
      /\ SortedBy(queue_add(activatable, w, prio), prio)
  BY <1>2, <1>3, <1>4, QueueAdd
<1>6. /\ asleep' = queue_out(asleep)
      /\ activatable' = queue_add(activatable, w, prio)
      /\ kpc = "scheduler"
      /\ wake_time' = [wake_time EXCEPT ![w] = 0]
      /\ UNCHANGED <<table, current, state, prio, dead, counter, kpc, resume>>
  BY DEF AwakeSleeping, Woken, w
<1>7. SchedTypeOK'
  <2>1. wake_time' \in [Pid -> Int]
    <3>1. /\ wake_time \in [Pid -> Int] /\ w \in Pid /\ 0 \in Int
          /\ wake_time' = [wake_time EXCEPT ![w] = 0]
      BY <1>2, <1>3, <1>6
    <3> QED BY <3>1
  <2> QED BY <2>1, <1>3, <1>5, <1>6 DEF SchedIInv, SchedTypeOK
<1>8. HighestPriorityRuns'
  BY <1>6 DEF HighestPriorityRuns
<1>9. Range(activatable') \cap Range(asleep') = {}
  BY <1>2, <1>3, <1>5, <1>6
<1>10. /\ \A p \in Pid : state[p] = "ACTIVATABLE" => p \in Range(activatable')
       /\ \A p \in Range(activatable') : state[p] \in {"ACTIVATABLE", "ASLEEP"}
       /\ \A p \in Range(asleep') : state[p] = "ASLEEP"
  BY <1>3, <1>5, <1>6 DEF SchedIInv
<1>11. SortedBy(asleep', wake_time')
  <2>1. \A x \in Range(queue_out(asleep)) :
          x \in Pid /\ wake_time[x] = wake_time'[x]
    BY <1>2, <1>3, <1>6, QueueElements
  <2>2. SortedBy(queue_out(asleep), wake_time')
    BY <2>1, <1>3, SortedByAgree
  <2> QED BY <2>2, <1>6
<1> QED
  BY <1>3, <1>5, <1>6, <1>7, <1>8, <1>9, <1>10, <1>11 DEF SchedIInv

(* A failed assertion of get_next_wake_time only stops the machine.        *)
LEMMA WakeTimeAssertFailsIInv ==
  ASSUME SchedIInv, WakeTimeAssertFails
  PROVE  SchedIInv'
BY DEF SchedIInv, SchedTypeOK, HighestPriorityRuns, WakeTimeAssertFails

(* While the current process is not active, idle waits in the queue.       *)
LEMMA ReadyNotEmpty ==
  ASSUME SchedIInv, state[current] # "ACTIF"
  PROVE  activatable # << >>
<1>1. state[idleId] = "ACTIVATABLE"
  BY SchedulerAssumption DEF SchedIInv
<1>2. idleId \in Range(activatable)
  BY <1>1, SchedulerAssumption DEF SchedIInv
<1> QED BY <1>2, EmptyQueue

(* The context switch, or the decision to stay.                            *)
LEMMA DispatchIInv ==
  ASSUME SchedIInv, Dispatch
  PROVE  SchedIInv'
<1> DEFINE top == queue_top(activatable)
           rest == queue_out(activatable)
<1>1. /\ activatable \in Seq(Pid) /\ prio \in [Pid -> Int]
      /\ current \in Pid /\ table = Pid /\ state \in [Pid -> process_state \cup {"FREE"}]
      /\ resume \in [Pid -> {"user"}]
      /\ IsInjective(activatable) /\ SortedBy(activatable, prio)
  BY PrioIsInt DEF SchedIInv, SchedTypeOK
<1>2. UNCHANGED <<table, prio, wake_time, asleep, counter, resume>>
  BY DEF Dispatch
<1>3. activatable # << >> =>
        /\ top \in Range(activatable) /\ top \in Pid
        /\ rest \in Seq(Pid)
        /\ Range(rest) \cup {top} = Range(activatable)
        /\ IsInjective(rest) /\ top \notin Range(rest)
        /\ SortedBy(rest, prio)
        /\ \A x \in Range(activatable) : prio[x] <= prio[top]
  BY <1>1, QueueOut
<1> HIDE DEF top, rest
<1>4. CASE /\ state[current] = "ACTIF"
           /\ queue_empty(activatable) \/ KeepsProcessor(top)
  <2>1. kpc' = "user" /\ UNCHANGED <<current, state, activatable, dead>>
    BY <1>1, <1>4 DEF Dispatch, top
  <2>2. \A x \in Range(activatable) : prio[x] <= prio[current]
    <3>1. CASE activatable = << >>
      BY <3>1, EmptyQueue
    <3>2. CASE activatable # << >>
      <4>1. prio[top] < prio[current] /\ prio[top] \in Int /\ prio[current] \in Int
        BY <3>2, <1>1, <1>3, <1>4 DEF queue_empty, KeepsProcessor
      <4>2. \A x \in Range(activatable) : prio[x] <= prio[top] /\ x \in Pid
        BY <3>2, <1>1, <1>3, QueueElements
      <4>3. \A x \in Range(activatable) : prio[x] \in Int
        BY <4>2, <1>1
      <4> QED BY <4>1, <4>2, <4>3
    <3> QED BY <3>1, <3>2
  <2>3. HighestPriorityRuns'
    BY <1>2, <2>1, <2>2 DEF HighestPriorityRuns
  <2> QED BY <1>2, <1>4, <2>1, <2>3 DEF SchedIInv, SchedTypeOK
<1>5. CASE /\ state[current] = "ACTIF"
           /\ ~ queue_empty(activatable) /\ ~ KeepsProcessor(top)
  <2> DEFINE q == queue_add(rest, current, prio)
  <2>1. activatable # << >> /\ prio[top] >= prio[current]
    BY <1>1, <1>3, <1>5 DEF queue_empty, KeepsProcessor
  <2>2. current \notin Range(activatable) /\ current # top /\ current \notin Range(rest)
    BY <1>3, <1>5, <2>1 DEF SchedIInv
  <2>3. /\ q \in Seq(Pid) /\ Range(q) = Range(rest) \cup {current}
        /\ IsInjective(q) /\ SortedBy(q, prio)
    BY <1>1, <1>3, <2>1, <2>2, QueueAdd
  <2> HIDE DEF q
  <2>4. /\ current' = top /\ activatable' = q /\ kpc' = "user"
        /\ state' = [[state EXCEPT ![current] = "ACTIVATABLE"] EXCEPT ![top] = "ACTIF"]
        /\ UNCHANGED dead
    BY <1>1, <1>3, <1>5, <2>1 DEF Dispatch, SwitchTo, top, rest, q
  <2>5. /\ state' \in [Pid -> process_state \cup {"FREE"}]
        /\ state'[top] = "ACTIF" /\ state'[current] = "ACTIVATABLE"
        /\ \A p \in Pid : p \notin {top, current} => state'[p] = state[p]
    BY <1>1, <1>3, <2>1, <2>2, <2>4 DEF process_state
  <2>6. SchedTypeOK'
    BY <1>2, <1>3, <2>1, <2>3, <2>4, <2>5 DEF SchedIInv, SchedTypeOK
  <2>7. HighestPriorityRuns'
    <3>1. \A x \in Range(q) : prio[x] <= prio[top]
      BY <1>3, <2>1, <2>3
    <3> QED BY <3>1, <1>2, <2>4 DEF HighestPriorityRuns
  <2>8. top \notin Range(asleep) /\ current \notin Range(asleep)
    BY <1>3, <1>5, <2>1 DEF SchedIInv
  <2>9. Range(q) \cap Range(asleep) = {}
    BY <1>3, <2>1, <2>3, <2>8 DEF SchedIInv
  <2>10. \A p \in Range(asleep) : p \in Pid
    BY QueueElements DEF SchedIInv, SchedTypeOK
  <2>11. \A p \in Range(rest) : p \in Pid
    BY <1>3, <2>1, QueueElements
  <2>12. /\ \A p \in Range(asleep) : state'[p] = "ASLEEP"
         /\ \A p \in Range(q) : state'[p] \in {"ACTIVATABLE", "ASLEEP"}
    BY <1>3, <2>1, <2>2, <2>3, <2>5, <2>8, <2>10, <2>11 DEF SchedIInv
  <2>13. \A p \in Pid :
           /\ state'[p] \in {"ACTIF", "ACTIVATABLE", "ASLEEP"}
           /\ state'[p] = "ACTIF" => p = top
           /\ state'[p] = "ACTIVATABLE" => p \in Range(q)
    BY <1>3, <1>5, <2>1, <2>3, <2>5 DEF SchedIInv
  <2>14. state'[idleId] # "ASLEEP"
    BY <2>5, SchedulerAssumption DEF SchedIInv
  <2> QED
    BY <1>2, <2>3, <2>4, <2>5, <2>6, <2>7, <2>9, <2>12, <2>13, <2>14
       DEF SchedIInv
<1>6. CASE state[current] # "ACTIF"
  <2>1. activatable # << >> /\ state[current] # "KILLED"
    BY <1>1, <1>6, ReadyNotEmpty DEF SchedIInv
  <2>2. /\ current' = top /\ activatable' = rest /\ kpc' = "user"
        /\ state' = [state EXCEPT ![top] = "ACTIF"]
        /\ UNCHANGED dead
    BY <1>1, <1>3, <1>6, <2>1 DEF Dispatch, SwitchTo, queue_empty, top, rest
  <2>3. /\ state' \in [Pid -> process_state \cup {"FREE"}]
        /\ state'[top] = "ACTIF"
        /\ \A p \in Pid : p # top => state'[p] = state[p]
    BY <1>1, <1>3, <2>1, <2>2 DEF process_state
  <2>4. SchedTypeOK'
    BY <1>2, <1>3, <2>1, <2>2, <2>3 DEF SchedIInv, SchedTypeOK
  <2>5. HighestPriorityRuns'
    <3>1. \A x \in Range(rest) : prio[x] <= prio[top]
      BY <1>3, <2>1
    <3> QED BY <3>1, <1>2, <2>2 DEF HighestPriorityRuns
  <2>6. \A p \in Range(asleep) : p \in Pid /\ p # top
    <3>1. asleep \in Seq(Pid)
      BY DEF SchedIInv, SchedTypeOK
    <3>2. top \notin Range(asleep)
      BY <1>3, <2>1 DEF SchedIInv
    <3> QED BY <3>1, <3>2, QueueElements
  <2>7. \A p \in Range(rest) : p \in Pid /\ p # top /\ p \in Range(activatable)
    BY <1>3, <2>1, QueueElements
  <2>8. /\ \A p \in Range(asleep) : state'[p] = "ASLEEP"
        /\ \A p \in Range(rest) : state'[p] \in {"ACTIVATABLE", "ASLEEP"}
        /\ Range(rest) \cap Range(asleep) = {}
    BY <2>3, <2>6, <2>7 DEF SchedIInv
  <2>9. \A p \in Pid :
          /\ state'[p] \in {"ACTIF", "ACTIVATABLE", "ASLEEP"}
          /\ state'[p] = "ACTIF" => p = top
          /\ state'[p] = "ACTIVATABLE" => p \in Range(rest)
    BY <1>3, <1>6, <2>1, <2>3 DEF SchedIInv
  <2>10. state'[idleId] # "ASLEEP"
    BY <2>3, SchedulerAssumption DEF SchedIInv
  <2> QED
    BY <1>2, <1>3, <2>1, <2>2, <2>3, <2>4, <2>5, <2>8, <2>9, <2>10
       DEF SchedIInv
<1> QED BY <1>4, <1>5, <1>6

(* A clock interrupt touches no queue before scheduler() runs.             *)
LEMMA TickIInv ==
  ASSUME SchedIInv, Tick
  PROVE  SchedIInv'
<1>1. counter' \in 1..MaxClock
  BY SchedulerAssumption DEF SchedIInv, SchedTypeOK, Tick
<1> QED BY <1>1 DEF SchedIInv, SchedTypeOK, HighestPriorityRuns, Tick

(* wait_clock links the current process, which no queue held.              *)
LEMMA WaitClockIInv ==
  ASSUME SchedIInv, NEW clock \in Durations, wait_clock(clock)
  PROVE  SchedIInv'
<1> DEFINE w == [wake_time EXCEPT ![current] = NegatedInt64(counter + clock)]
           q == queue_add(asleep, current, w)
<1>1. NegatedInt64(counter + clock) \in Int
  BY ClockArithmetic, SchedulerAssumption DEF SchedIInv, SchedTypeOK
<1>2. /\ w \in [Pid -> Int] /\ asleep \in Seq(Pid) /\ current \in Pid
      /\ \A p \in Pid : p # current => w[p] = wake_time[p]
  BY <1>1 DEF SchedIInv, SchedTypeOK
<1>3. /\ state[current] = "ACTIF" /\ current # idleId /\ kpc = "user"
      /\ wake_time' = w /\ asleep' = q /\ kpc' = "scheduler"
      /\ state' = [state EXCEPT ![current] = "ASLEEP"]
      /\ UNCHANGED <<table, current, prio, activatable, dead, counter, resume>>
  BY DEF wait_clock, FallenAsleep, SchedIInv
<1> HIDE DEF w
<1>4. current \notin Range(asleep) /\ current \notin Range(activatable)
  BY <1>3 DEF SchedIInv
<1>5. \A x \in Range(asleep) : x \in Pid /\ w[x] = wake_time[x]
  BY <1>2, <1>4, QueueElements
<1>6. SortedBy(asleep, w)
  BY <1>5, SortedByAgree DEF SchedIInv
<1>7. /\ q \in Seq(Pid) /\ Range(q) = Range(asleep) \cup {current}
      /\ IsInjective(q) /\ SortedBy(q, w)
  BY <1>2, <1>4, <1>6, QueueAdd DEF SchedIInv
<1> HIDE DEF q
<1>8. /\ state' \in [Pid -> process_state \cup {"FREE"}]
      /\ state'[current] = "ASLEEP"
      /\ \A p \in Pid : p # current => state'[p] = state[p]
  BY <1>2, <1>3 DEF SchedIInv, SchedTypeOK, process_state
<1>9. SchedTypeOK'
  BY <1>2, <1>3, <1>7, <1>8 DEF SchedIInv, SchedTypeOK
<1>10. HighestPriorityRuns'
  BY <1>3 DEF HighestPriorityRuns
<1>11. \A x \in Range(activatable) : x \in Pid /\ x # current
  BY <1>4, QueueElements DEF SchedIInv, SchedTypeOK
<1>12. /\ \A p \in Range(q) : state'[p] = "ASLEEP"
       /\ \A p \in Range(activatable) : state'[p] \in {"ACTIVATABLE", "ASLEEP"}
       /\ Range(activatable) \cap Range(q) = {}
  BY <1>4, <1>5, <1>7, <1>8, <1>11 DEF SchedIInv
<1>13. \A p \in Pid :
         /\ state'[p] \in {"ACTIF", "ACTIVATABLE", "ASLEEP"}
         /\ state'[p] = "ACTIF" => p = current
         /\ state'[p] = "ACTIVATABLE" => p \in Range(activatable)
  BY <1>2, <1>8 DEF SchedIInv
<1>14. state'[idleId] # "ASLEEP"
  BY <1>3, <1>8, SchedulerAssumption DEF SchedIInv
<1> QED
  BY <1>3, <1>7, <1>9, <1>10, <1>12, <1>13, <1>14 DEF SchedIInv

(* Every handler of the scheduler and of the clock keeps the invariant.    *)
LEMMA SchedNextIInv == SchedIInv /\ [SchedNext]_schedVars => SchedIInv'
<1> SUFFICES ASSUME SchedIInv, [SchedNext]_schedVars PROVE SchedIInv'
  OBVIOUS
<1>1. CASE AwakeSleeping
  BY <1>1, AwakeSleepingIInv
<1>2. CASE WakeTimeAssertFails
  BY <1>2, WakeTimeAssertFailsIInv
<1>3. CASE Dispatch
  BY <1>3, DispatchIInv
<1>4. CASE Tick
  BY <1>4, TickIInv
<1>5. CASE WaitClock
  BY <1>5, WaitClockIInv DEF WaitClock
<1>6. CASE UNCHANGED schedVars
  BY <1>6 DEF schedVars, SchedIInv, SchedTypeOK, HighestPriorityRuns
<1> QED
  BY <1>1, <1>2, <1>3, <1>4, <1>5, <1>6 DEF SchedNext, SchedulerStep, Halted

(* The inductive invariant holds in every reachable state, for every set   *)
(* of processes and priorities and every argument of wait_clock.           *)
THEOREM SchedInvariance == SchedSpec => []SchedIInv
BY SchedInitIInv, SchedNextIInv, PTL DEF SchedSpec

(* Type correctness of the scheduler, whatever wait_clock is given.        *)
THEOREM SchedTypeCorrect == SchedSpec => []SchedTypeOK
<1>1. SchedIInv => SchedTypeOK
  BY DEF SchedIInv
<1> QED BY <1>1, SchedInvariance, PTL

(* No process is ever linked twice: the assertion of queue_add never fails *)
(* in the scheduler, whatever wait_clock is given.                         *)
THEOREM SchedLinkedOnce == SchedSpec => []LinkedOnce
<1>1. SchedIInv => LinkedOnce
  <2> SUFFICES ASSUME SchedIInv PROVE LinkedOnce
    OBVIOUS
  <2>1. kpc \notin {"scheduler", "halted"} =>
          current \notin Range(activatable) /\ current \notin Range(asleep)
    BY DEF SchedIInv, SchedTypeOK
  <2> QED BY <2>1, EmptyQueue DEF SchedIInv, LinkedOnce
<1> QED BY <1>1, SchedInvariance, PTL

(* The running process has the highest priority of all that could run.     *)
THEOREM SchedHighestPriorityRuns == SchedSpec => []HighestPriorityRuns
<1>1. SchedIInv => HighestPriorityRuns
  BY DEF SchedIInv
<1> QED BY <1>1, SchedInvariance, PTL

------------------------------------------------------------------------------
(* Nobody oversleeps.                                                      *)

SleepIInv == SchedIInv /\ NoOverdueSleeper

(* scheduler() goes on only when the sleeper at the top of the queue is    *)
(* not due, and then no other is.                                          *)
LEMMA DispatchNoOverdue ==
  ASSUME SchedIInv, Dispatch
  PROVE  NoOverdueSleeper'
<1>1. /\ asleep \in Seq(Pid) /\ wake_time \in [Pid -> Int]
      /\ \A p \in Range(asleep) : p \in Pid
      /\ counter \in 1..MaxClock
  BY QueueElements DEF SchedIInv, SchedTypeOK
<1>2. UNCHANGED <<asleep, wake_time, counter>>
  BY DEF Dispatch
<1>3. ASSUME ~WakeUpsStopped, asleep # << >>
      PROVE  \A p \in Range(asleep) : counter <= -wake_time[p]
  <2> DEFINE t == queue_top(asleep)
  <2>1. /\ t \in Range(asleep) /\ t \in Pid
        /\ \A x \in Range(asleep) : wake_time[x] <= wake_time[t]
    BY <1>1, <1>3, QueueOut DEF SchedIInv
  <2>2. get_next_wake_time = -wake_time[t] /\ wake_time[t] \in Int
    BY <1>1, <1>3, <2>1 DEF get_next_wake_time, queue_empty
  <2> HIDE DEF t
  <2>3. wake_time[t] # 0
    BY <1>3, <2>1 DEF WakeUpsStopped
  <2>4. counter <= -wake_time[t]
    BY <1>1, <2>2, <2>3 DEF Dispatch, SleeperDue
  <2>5. \A x \in Range(asleep) : wake_time[x] \in Int
    BY <1>1
  <2> QED BY <2>1, <2>2, <2>4, <2>5, <1>1
<1>4. ~WakeUpsStopped => \A p \in Range(asleep) : counter <= -wake_time[p]
  BY <1>3, EmptyQueue
<1> QED BY <1>2, <1>4 DEF NoOverdueSleeper, WakeUpsStopped

(* Only scheduler() leads to user mode.                                    *)
LEMMA SleepNext ==
  ASSUME SleepIInv, [SchedNext]_schedVars
  PROVE  SleepIInv'
<1>1. SchedIInv'
  BY SchedNextIInv DEF SleepIInv
<1>2. CASE AwakeSleeping
  BY <1>1, <1>2 DEF SleepIInv, NoOverdueSleeper, AwakeSleeping
<1>3. CASE WakeTimeAssertFails
  BY <1>1, <1>3 DEF SleepIInv, NoOverdueSleeper, WakeTimeAssertFails
<1>4. CASE Dispatch
  BY <1>1, <1>4, DispatchNoOverdue DEF SleepIInv
<1>5. CASE Tick
  BY <1>1, <1>5 DEF SleepIInv, NoOverdueSleeper, Tick
<1>6. CASE WaitClock
  BY <1>1, <1>6 DEF SleepIInv, NoOverdueSleeper, WaitClock, wait_clock
<1>7. CASE UNCHANGED schedVars
  BY <1>1, <1>7 DEF SleepIInv, NoOverdueSleeper, WakeUpsStopped, schedVars
<1> QED
  BY <1>2, <1>3, <1>4, <1>5, <1>6, <1>7 DEF SchedNext, SchedulerStep, Halted

(* No user code runs while a sleeper whose time has passed is left in the  *)
(* queue, unless a wake time has wrapped around to 0.                      *)
THEOREM SchedNoOverdueSleeper == SchedSpec => []NoOverdueSleeper
<1>1. SchedInit => SleepIInv
  BY SchedInitIInv, EmptyQueue DEF SchedInit, SleepIInv, NoOverdueSleeper
<1>2. SleepIInv => NoOverdueSleeper
  BY DEF SleepIInv
<1> QED BY <1>1, <1>2, SleepNext, PTL DEF SchedSpec

------------------------------------------------------------------------------
(* With sleeps too short to overflow, no wake time wraps around.           *)

ShortSleeps == \A clock \in Durations : MaxClock + clock < INT64_LIMIT

WakeTimesNegative == \A p \in Range(asleep) : wake_time[p] < 0

(* When clock values and arguments are small, wait_clock stores the        *)
(* negated sum itself: no overflow.                                        *)
LEMMA ShortSleepWakeTime ==
  ASSUME ShortSleeps, NEW clock \in Durations, NEW c \in 1..MaxClock
  PROVE  NegatedInt64(c + clock) = -(c + clock)
<1>1. c + clock \in Nat /\ c + clock < INT64_LIMIT /\ INT64_LIMIT \in Nat
  BY SchedulerAssumption DEF ShortSleeps
<1>2. \A m \in Nat, t \in Nat : t < m => t % m = t
  OBVIOUS
<1>3. 2 * INT64_LIMIT \in Nat /\ c + clock < 2 * INT64_LIMIT
  BY <1>1
<1>4. (c + clock) % (2 * INT64_LIMIT) = c + clock
  BY <1>1, <1>2, <1>3
<1> QED BY <1>1, <1>4 DEF NegatedInt64

(* Every step keeps the wake times of the sleepers negative.               *)
LEMMA ShortSleepNext ==
  ASSUME ShortSleeps, SchedIInv, WakeTimesNegative, [SchedNext]_schedVars
  PROVE  WakeTimesNegative'
<1>1. /\ asleep \in Seq(Pid) /\ wake_time \in [Pid -> Int]
      /\ \A p \in Range(asleep) : p \in Pid
      /\ counter \in 1..MaxClock /\ current \in Pid
  BY QueueElements DEF SchedIInv, SchedTypeOK
<1>2. CASE AwakeSleeping
  <2>1. asleep # << >>
    BY <1>2 DEF AwakeSleeping, SleeperDue, get_next_wake_time, queue_empty
  <2> DEFINE t == queue_top(asleep)
  <2>2. /\ Range(queue_out(asleep)) \subseteq Range(asleep)
        /\ t \notin Range(queue_out(asleep))
    <3>1. IsInjective(asleep)
      BY DEF SchedIInv
    <3>2. /\ Range(queue_out(asleep)) \cup {t} = Range(asleep)
          /\ t \notin Range(queue_out(asleep))
      BY <1>1, <2>1, <3>1, QueueOut
    <3> QED BY <3>2
  <2>3. /\ asleep' = queue_out(asleep)
        /\ wake_time' = [wake_time EXCEPT ![t] = 0]
    BY <1>2 DEF AwakeSleeping, Woken
  <2> HIDE DEF t
  <2>4. \A p \in Range(asleep') : p \in Range(asleep) /\ wake_time'[p] = wake_time[p]
    BY <1>1, <2>2, <2>3
  <2> QED BY <2>4 DEF WakeTimesNegative
<1>3. CASE WaitClock
  <2>1. PICK clock \in Durations : wait_clock(clock)
    BY <1>3 DEF WaitClock
  <2> DEFINE w == [wake_time EXCEPT ![current] = NegatedInt64(counter + clock)]
  <2>2. asleep' = queue_add(asleep, current, w) /\ wake_time' = w
    BY <2>1 DEF wait_clock, FallenAsleep
  <2>3. NegatedInt64(counter + clock) = -(counter + clock)
    BY <1>1, ShortSleepWakeTime
  <2>4. counter + clock \in Nat /\ counter + clock > 0
    BY <1>1, SchedulerAssumption
  <2>5. w \in [Pid -> Int] /\ w[current] < 0
    BY <2>3, <2>4, <1>1
  <2>6. \A p \in Pid : p # current => w[p] = wake_time[p]
    BY <1>1
  <2> HIDE DEF w
  <2>7. Range(queue_add(asleep, current, w)) = Range(asleep) \cup {current}
    <3>1. w \in [Pid -> Int] /\ asleep \in Seq(Pid) /\ current \in Pid
      BY <2>5, <1>1
    <3> QED BY <3>1, QueueAdd
  <2> QED BY <1>1, <2>2, <2>5, <2>6, <2>7 DEF WakeTimesNegative
<1>4. CASE UNCHANGED <<asleep, wake_time>>
  BY <1>4 DEF WakeTimesNegative
<1>5. WakeTimeAssertFails \/ Dispatch \/ Tick \/ UNCHANGED schedVars =>
        UNCHANGED <<asleep, wake_time>>
  BY DEF WakeTimeAssertFails, Dispatch, Tick, schedVars
<1> QED
  BY <1>2, <1>3, <1>4, <1>5 DEF SchedNext, SchedulerStep, Halted

(* As long as the clock and the arguments of wait_clock stay below 2^63,   *)
(* no user code runs while a sleeper is overdue, without exception.        *)
THEOREM SchedShortSleeps ==
  ASSUME ShortSleeps
  PROVE  SchedSpec => [](NoOverdueSleeper /\ ~WakeUpsStopped)
<1>1. SchedInit => WakeTimesNegative
  BY EmptyQueue DEF SchedInit, WakeTimesNegative
<1>2. SchedIInv /\ WakeTimesNegative /\ [SchedNext]_schedVars
        => WakeTimesNegative'
  BY ShortSleepNext
<1>3. SchedIInv /\ WakeTimesNegative => ~WakeUpsStopped
  <2> SUFFICES ASSUME SchedIInv, WakeTimesNegative, NEW p \in Range(asleep),
                      wake_time[p] = 0
               PROVE  FALSE
    BY DEF WakeUpsStopped
  <2> QED BY DEF WakeTimesNegative
<1> QED BY <1>1, <1>2, <1>3, SchedInvariance, SchedNoOverdueSleeper, PTL
           DEF SchedSpec
==============================================================================
