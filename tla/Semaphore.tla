------------------------------ MODULE Semaphore ------------------------------
(***************************************************************************)
(* The semaphores (kernel/process/semaphore_api.c) of processes that run,  *)
(* end and are killed as in module Process.                                *)
(*                                                                         *)
(* A semaphore keeps a list of the blocked processes of its own, not a     *)
(* queue of queue.h.  It is modelled by the sequence from head_blocked to  *)
(* tail_blocked; a list element that has been freed is Dangling, and a     *)
(* walk through it may do anything: the model halts there.                 *)
(***************************************************************************)
EXTENDS Process, SequencesExt

CONSTANTS
  Sem,          \* the semaphore identifiers 1..n (bound: n calls of screate)
  NB_MAX_SEMS,  \* the most semaphores at one time
  MAX_COUNT,    \* 32767 in the code: the counter has 16 bits
  CountArgs,    \* the arguments given to screate and signaln
  ResetArgs     \* the arguments given to sreset

VARIABLES
  sems,                         \* the identifiers in semaphore_table
  count,                        \* count[s]
  blocked,                      \* blocked[s]: the list of blocked processes
  semaphore_id,                 \* semaphore_id[p]: where p blocked last
  sem_signal,                   \* sem_signal[p]: what wait returns to p
  parent_block,                 \* set while signaln calls signal
  semaphore_id_counter,
  currently_running_semaphores

semVars == <<sems, count, blocked, semaphore_id, sem_signal, parent_block,
             semaphore_id_counter, currently_running_semaphores>>

ASSUME SemaphoreAssumption ==
  /\ Sem \subseteq Nat \ {0}
  /\ NB_MAX_SEMS \in Nat
  /\ MAX_COUNT \in Nat
  /\ CountArgs \subseteq Nat /\ ResetArgs \subseteq Nat

MIN_COUNT == -MAX_COUNT - 1

SIGNAL_CALL == 0
SDETETE_CALL == -3
SRESET_CALL == -4
KILL_CALL == -3    \* the next value of the enumeration, equal to SDETETE_CALL

(* The conversion of an int to int16_t.                                    *)
ToInt16(n) ==
  LET u == n % (2 * (MAX_COUNT + 1)) IN
  IF u > MAX_COUNT THEN u - 2 * (MAX_COUNT + 1) ELSE u

(* The lower 16 bits of the counter.                                       *)
scount(s) == count[s] % (2 * (MAX_COUNT + 1))

SemHalt ==
  /\ kpc' = "halted"
  /\ UNCHANGED <<table, current, state, prio, wake_time, activatable, asleep,
                 dead, counter, resume, treeVars, semVars>>

------------------------------------------------------------------------------
(* Waking blocked processes                                                *)

(* unblock_process_sem for the first n processes of the list of s: they    *)
(* join the activatable processes one after the other and learn why.       *)
(* Their semaphore_id is not read again and takes a fixed value.           *)
Unblock(s, n, reason) ==
  LET woken == SubSeq(blocked[s], 1, n) IN
  /\ activatable' = FoldLeft(LAMBDA q, p : queue_add(q, p, prio), activatable,
                             woken)
  /\ state' = [p \in Pid |-> IF p \in Range(woken) THEN "ACTIVATABLE"
                                                   ELSE state[p]]
  /\ sem_signal' = [p \in Pid |-> IF p \in Range(woken) THEN reason
                                                        ELSE sem_signal[p]]
  /\ semaphore_id' = [p \in Pid |-> IF p \in Range(woken) THEN NULL
                                                          ELSE semaphore_id[p]]
  /\ blocked' = [blocked EXCEPT ![s] = SubSeq(@, n + 1, Len(@))]
  /\ UNCHANGED <<table, current, prio, wake_time, asleep, dead, counter,
                 resume, treeVars>>

(* How many processes k calls of signal wake: those that leave the counter *)
(* at or below zero, as long as the list is not empty.                     *)
Released_BelowZero(s, k) ==
  Min({k, Max({0, -count[s] - 1}), Len(blocked[s])})
Released(s, k) == Min({k, Max({0, -count[s]}), Len(blocked[s])})

(* Calls of signal stop with the counter at MAX_COUNT.                     *)
Signals(s, n) == Min({n, MAX_COUNT - count[s]})

signal(s) ==
  /\ Calling /\ s \in sems
  /\ count[s] # MAX_COUNT
  /\ IF Released(s, 1) > 0 /\ Head(blocked[s]) = Dangling
     THEN SemHalt
     ELSE /\ Unblock(s, Released(s, 1), SIGNAL_CALL)
          /\ count' = [count EXCEPT ![s] = @ + 1]
          /\ kpc' = IF parent_block THEN "user" ELSE "scheduler"
          /\ UNCHANGED <<sems, parent_block, semaphore_id_counter,
                         currently_running_semaphores>>

(* signaln refuses more signals than the counter has room for.             *)
SignalnFits(s, n) == count[s] + n <= MAX_COUNT

(* signaln calls signal n times and scheduler() once.  Should a signal     *)
(* fail, the call returns with parent_block still set.                     *)
signaln(s, n) ==
  LET k == Signals(s, n) IN
  /\ Calling /\ s \in sems
  /\ SignalnFits(s, n)
  /\ IF Released(s, k) > 0 /\ Head(blocked[s]) = Dangling
     THEN SemHalt
     ELSE /\ Unblock(s, Released(s, k), SIGNAL_CALL)
          /\ count' = [count EXCEPT ![s] = @ + k]
          /\ parent_block' = (k < n)
          /\ kpc' = IF k < n THEN "user" ELSE "scheduler"
          /\ UNCHANGED <<sems, semaphore_id_counter,
                         currently_running_semaphores>>

------------------------------------------------------------------------------
(* Creating and deleting semaphores                                        *)

(* Identifiers are never reused.                                           *)
screate(n) ==
  LET s == semaphore_id_counter + 1 IN
  /\ Calling
  /\ n <= MAX_COUNT
  /\ currently_running_semaphores # NB_MAX_SEMS
  /\ s \in Sem
  /\ sems' = sems \cup {s}
  /\ count' = [count EXCEPT ![s] = n]
  /\ parent_block' = FALSE
  /\ semaphore_id_counter' = s
  /\ currently_running_semaphores' = currently_running_semaphores + 1
  /\ UNCHANGED <<vars, blocked, semaphore_id, sem_signal>>

UnblockAll_ButLast(s, reason) ==
  Unblock(s, Max({0, Len(blocked[s]) - 1}), reason)
UnblockAll(s, reason) == Unblock(s, Len(blocked[s]), reason)

sdelete(s) ==
  /\ Calling /\ s \in sems
  /\ IF Dangling \in Range(blocked[s])
     THEN SemHalt
     ELSE /\ UnblockAll(s, SDETETE_CALL)
          /\ sems' = sems \ {s}
          /\ count' = [count EXCEPT ![s] = 0]
          /\ currently_running_semaphores' = currently_running_semaphores - 1
          /\ kpc' = "scheduler"
          /\ UNCHANGED <<parent_block, semaphore_id_counter>>

sreset(s, n) ==
  /\ Calling /\ s \in sems
  /\ IF Dangling \in Range(blocked[s])
     THEN SemHalt
     ELSE /\ UnblockAll(s, SRESET_CALL)
          /\ count' = [count EXCEPT ![s] = ToInt16(n)]
          /\ kpc' = "scheduler"
          /\ UNCHANGED <<sems, parent_block, semaphore_id_counter,
                         currently_running_semaphores>>

------------------------------------------------------------------------------
(* wait and try_wait                                                       *)

(* The place of a new waiter: before the first process with a strictly     *)
(* lower priority, after all the others.                                   *)
WaitPlace_AtEqual(q) ==
  Min({i \in DOMAIN q : prio[current] >= prio[q[i]]} \cup {Len(q) + 1})
WaitPlace(q) ==
  Min({i \in DOMAIN q : prio[current] > prio[q[i]]} \cup {Len(q) + 1})

wait(s) ==
  /\ Calling /\ s \in sems
  /\ count[s] # MIN_COUNT
  /\ IF count[s] <= 0 /\ Dangling \in Range(blocked[s])
     THEN SemHalt
     ELSE /\ count' = [count EXCEPT ![s] = @ - 1]
          /\ sem_signal' = [sem_signal EXCEPT ![current] = SIGNAL_CALL]
          /\ IF count[s] <= 0
             THEN /\ blocked' = [blocked EXCEPT
                                   ![s] = InsertAt(@, WaitPlace(@), current)]
                  /\ semaphore_id' = [semaphore_id EXCEPT ![current] = s]
                  /\ state' = [state EXCEPT ![current] = "BLOCKEDSEMAPHORE"]
             ELSE UNCHANGED <<blocked, semaphore_id, state>>
          /\ kpc' = "scheduler"
          /\ UNCHANGED <<table, current, prio, wake_time, activatable, asleep,
                         dead, counter, resume, treeVars, sems, parent_block,
                         semaphore_id_counter, currently_running_semaphores>>

Available(s) == count[s] > 0

try_wait(s) ==
  /\ Calling /\ s \in sems
  /\ Available(s)
  /\ count' = [count EXCEPT ![s] = @ - 1]
  /\ kpc' = "scheduler"
  /\ UNCHANGED <<table, current, state, prio, wake_time, activatable, asleep,
                 dead, counter, resume, treeVars, sems, blocked, semaphore_id,
                 sem_signal, parent_block, semaphore_id_counter,
                 currently_running_semaphores>>

------------------------------------------------------------------------------
(* kill of a process blocked in wait                                       *)

(* remove_proc_queue.  In the middle of the list its test is inverted: it  *)
(* takes the head for the killed process p, frees that list element        *)
(* without unlinking it and makes the process there activatable, outside   *)
(* every queue.                                                            *)
Removed(q, p) ==
  CASE Head(q) = p -> Tail(q)
    [] Last(q) = p -> Front(q)
    [] OTHER       -> [q EXCEPT ![1] = Dangling]

TakenOut(q, p) == IF p \in {Head(q), Last(q)} THEN p ELSE Head(q)

(* proc_kill_diag gives back the place of the killed process.              *)
CountAfterKill_Kept(s) == count
CountAfterKill(s) == [count EXCEPT ![s] = @ + 1]

(* The killed process does not join the activatable processes.             *)
ReadyAfterKill(p) == activatable

kill_waiter(p) ==
  LET s == semaphore_id[p]
      q == blocked[s]
  IN
  /\ Calling
  /\ ~Protected(p) /\ p # current
  /\ state[p] = "BLOCKEDSEMAPHORE"
  /\ s \in sems /\ count[s] < 0
  /\ IF Dangling \in Range(q)
     THEN SemHalt
     ELSE /\ Terminate(p, [state EXCEPT ![TakenOut(q, p)] = "ACTIVATABLE"],
                       ReadyAfterKill(p), asleep, "user")
          /\ count' = CountAfterKill(s)
          /\ blocked' = [blocked EXCEPT ![s] = Removed(q, p)]
          /\ sem_signal' = [sem_signal EXCEPT ![TakenOut(q, p)] = KILL_CALL]
          /\ semaphore_id' = [semaphore_id EXCEPT ![TakenOut(q, p)] = NULL]
          /\ UNCHANGED <<current, dead, counter, resume, sems, parent_block,
                         semaphore_id_counter, currently_running_semaphores>>

------------------------------------------------------------------------------
(* The shell has started all the other processes.  Of the calls of module  *)
(* Process those that can change what a semaphore sees are kept: the end   *)
(* of a process, kill, and chprio, which moves no waiter.                  *)

SemInit ==
  /\ Started
  /\ sems = {}
  /\ count = [s \in Sem |-> 0]
  /\ blocked = [s \in Sem |-> << >>]
  /\ semaphore_id = [p \in Pid |-> NULL]
  /\ sem_signal = [p \in Pid |-> 0]
  /\ parent_block = FALSE
  /\ semaphore_id_counter = 0
  /\ currently_running_semaphores = 0

SemOperation ==
  \/ \E n \in CountArgs : screate(n)
  \/ \E s \in Sem : wait(s) \/ try_wait(s) \/ signal(s) \/ sdelete(s)
  \/ \E s \in Sem, n \in CountArgs : signaln(s, n)
  \/ \E s \in Sem, n \in ResetArgs : sreset(s, n)
  \/ \E p \in Pid : kill_waiter(p)

ProcessOperation ==
  \/ SchedulerStep /\ UNCHANGED treeVars
  \/ FreeDead
  \/ Tick /\ UNCHANGED treeVars
  \/ exit_process
  \/ \E p \in Pid : state[p] # "BLOCKEDSEMAPHORE" /\ kill(p)
  \/ kpc = "halted" /\ UNCHANGED vars

SemNext ==
  \/ SemOperation
  \/ ProcessOperation /\ UNCHANGED semVars
  \/ \E p \in Pid, pr \in Prio : chprio(p, pr) /\ UNCHANGED semVars

allVars == <<vars, semVars>>

SemSpec == SemInit /\ [][SemNext]_allVars

------------------------------------------------------------------------------
(* Properties                                                              *)

(* The variables have the types of the C declarations.                     *)
SemTypeOK ==
  /\ TypeOK
  /\ sems \subseteq Sem
  /\ count \in [Sem -> MIN_COUNT..MAX_COUNT]
  /\ blocked \in [Sem -> Seq(Pid \cup {Dangling})]
  /\ semaphore_id \in [Pid -> Sem \cup {NULL}]
  /\ sem_signal \in [Pid -> {SIGNAL_CALL, SDETETE_CALL, SRESET_CALL, KILL_CALL}]
  /\ parent_block \in BOOLEAN
  /\ semaphore_id_counter \in Sem \cup {0}
  /\ currently_running_semaphores \in 0..NB_MAX_SEMS

(* Every process blocked on a semaphore is in the list of exactly that     *)
(* semaphore, which still exists, and nobody else is: whoever signals,     *)
(* resets, deletes or kills finds all of them.  The queues of the kernel   *)
(* stay sound, and signaln always clears parent_block, so that every later *)
(* signal calls scheduler() again.                                         *)
WaitersListed ==
  /\ SemTypeOK
  /\ QueueMatchesState
  /\ parent_block = FALSE
  /\ kpc # "halted" =>
       /\ \A s \in Sem : IsInjective(blocked[s])
       /\ \A s \in Sem : blocked[s] # << >> => s \in sems
       /\ \A p \in Pid, s \in Sem :
            p \in Range(blocked[s]) <=>
              state[p] = "BLOCKEDSEMAPHORE" /\ semaphore_id[p] = s
       /\ \A p \in Pid :
            state[p] = "BLOCKEDSEMAPHORE" => semaphore_id[p] \in sems

(* A negative counter is minus the number of waiters; otherwise nobody     *)
(* waits.  scount, which clears the upper bits, still tells how many wait. *)
CountMatchesWaiters ==
  \A s \in sems : /\ Len(blocked[s]) = Max({0, -count[s]})
                  /\ ToInt16(scount(s)) = count[s]

(* A list of waiters in the order of their priorities stays so, and equal  *)
(* priorities keep their order of arrival: signal wakes the most urgent    *)
(* process that has waited longest, until chprio changes the priority of a *)
(* waiter.                                                                 *)
InOrder(q) == \A i, j \in DOMAIN q : i < j => prio[q[i]] >= prio[q[j]]

WaitersInOrder ==
  [][\A s \in Sem :
       LET q == blocked[s]
           r == blocked'[s]
       IN  prio' = prio /\ InOrder(q) =>
             \A i, j \in DOMAIN r :
               i < j => \/ prio[r[i]] > prio[r[j]]
                        \/ /\ prio[r[i]] = prio[r[j]]
                           /\ \E k \in DOMAIN q :
                                /\ q[k] = r[i]
                                /\ \A l \in DOMAIN q : q[l] = r[j] => k < l
    ]_allVars

(* The semaphores are counting semaphores: no signal is lost, none is      *)
(* counted twice, and the death of a waiter is not noticed by the others.  *)
Abstract == INSTANCE CountingSemaphore WITH
  live    <- sems,
  permits <- [s \in Sem |-> Max({0, count[s]})],
  waiters <- [s \in Sem |-> Range(blocked[s])]

ImplementsCounting == Abstract!AbsSpec

------------------------------------------------------------------------------
(* What comments of the code say and the code does not do                  *)

(* leave_queue_process_if_needed and remove_proc_queue "remove the process *)
(* from the list of processes blocked by this semaphore": the killed       *)
(* process has left the list.                                              *)
KilledWaiterLeaves ==
  \A s \in Sem : \A p \in Range(blocked[s]) \ {Dangling} : Valid(p)
==============================================================================
