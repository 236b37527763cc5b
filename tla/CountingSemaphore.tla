-------------------------- MODULE CountingSemaphore --------------------------
(***************************************************************************)
(* What the semaphores of kernel/process/semaphore_api.h promise, without  *)
(* the encoding of the waiting processes in a negative counter: permits    *)
(* and sets of waiting processes, and no signal is lost or counted twice.  *)
(***************************************************************************)
EXTENDS Naturals, FiniteSets

CONSTANTS Pid, Sem, MAX_COUNT

VARIABLES
  live,      \* the semaphores that exist
  permits,   \* permits[s]: how many wait calls would not block
  waiters    \* waiters[s]: the processes blocked in wait(s)

absVars == <<live, permits, waiters>>

AbsInit ==
  /\ live = {}
  /\ permits = [s \in Sem |-> 0]
  /\ waiters = [s \in Sem |-> {}]

Create(s, n) ==
  /\ s \notin live
  /\ live' = live \cup {s}
  /\ permits' = [permits EXCEPT ![s] = n]
  /\ UNCHANGED waiters

(* sdelete and sreset let every waiter go.                                 *)
Delete(s) ==
  /\ live' = live \ {s}
  /\ permits' = [permits EXCEPT ![s] = 0]
  /\ waiters' = [waiters EXCEPT ![s] = {}]

Reset(s, n) ==
  /\ permits' = [permits EXCEPT ![s] = n]
  /\ waiters' = [waiters EXCEPT ![s] = {}]
  /\ UNCHANGED live

Acquire(s) ==
  /\ permits[s] > 0
  /\ permits' = [permits EXCEPT ![s] = @ - 1]
  /\ UNCHANGED <<live, waiters>>

Block(s, p) ==
  /\ permits[s] = 0
  /\ p \notin waiters[s]
  /\ waiters' = [waiters EXCEPT ![s] = @ \cup {p}]
  /\ UNCHANGED <<live, permits>>

(* n signals release the processes of W; those left over become permits.   *)
Release(s, W) ==
  /\ waiters' = [waiters EXCEPT ![s] = @ \ W]
  /\ UNCHANGED live
  /\ \E n \in Cardinality(W)..MAX_COUNT + Cardinality(Pid) :
       /\ W = waiters[s] \/ Cardinality(W) = n
       /\ permits[s] + (n - Cardinality(W)) <= MAX_COUNT
       /\ permits' = [permits EXCEPT ![s] = @ + (n - Cardinality(W))]

(* A waiting process is killed: nobody else notices.                       *)
Withdraw(s, p) ==
  /\ p \in waiters[s]
  /\ waiters' = [waiters EXCEPT ![s] = @ \ {p}]
  /\ UNCHANGED <<live, permits>>

AbsNext ==
  \/ \E s \in Sem, n \in 0..MAX_COUNT : Create(s, n)
  \/ \E s \in live :
       \/ Delete(s)
       \/ \E n \in 0..MAX_COUNT : Reset(s, n)
       \/ Acquire(s)
       \/ \E p \in Pid : Block(s, p)
       \/ \E W \in SUBSET waiters[s] : Release(s, W)
       \/ \E p \in Pid : Withdraw(s, p)

AbsSpec == AbsInit /\ [][AbsNext]_absVars
==============================================================================
