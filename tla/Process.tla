------------------------------- MODULE Process -------------------------------
(***************************************************************************)
(* The life of processes (kernel/process/process_api.c): start,            *)
(* start_virtual, exit_process, kill, waitpid and chprio, with the tree of *)
(* parents and children, the allocation of pids and the freeing of process *)
(* structures.                                                             *)
(*                                                                         *)
(* free_process_memory leaves pointers to the freed structure behind: the  *)
(* parent field of its living children and its place in the children list  *)
(* of its parent.  Such a pointer has the value Dangling.  A read through  *)
(* it may return anything, and a walk through it may end anywhere.         *)
(***************************************************************************)
EXTENDS Scheduler

CONSTANTS
  MAX_NB_PROCESS  \* the most processes nb_proc_running lets start

VARIABLES
  parent,          \* parent[p]: a pid, NULL or Dangling
  children,        \* children[p]: the list from children_head, oldest first
  waiting,         \* waiting[p]: the child p waits for in waitpid, or NULL
  nb_proc_running,
  pid_iterator,    \* the highest pid ever given
  process_id_list  \* the freed pids (a set: which of them is reused is left open)

treeVars == <<parent, children, waiting, nb_proc_running, pid_iterator,
              process_id_list>>

vars == <<schedVars, treeVars>>

MINPRIO == 1
NULL == 0
Dangling == -1
AnyChild == -2    \* the negative argument of waitpid

(* idle and the shell are started at boot, with the priorities 1 and 2.    *)
ASSUME ProcessAssumption ==
  /\ MAX_NB_PROCESS \in Nat /\ MAX_NB_PROCESS >= 2
  /\ idleId + 1 \in Pid
  /\ {1, 2} \subseteq Prio

(* A start that fails after hash_set leaves a husk in the table: a process *)
(* structure whose state was never assigned and that no queue holds.       *)
(* validate_action_process_valid, which may let a husk pass:               *)
Valid(p) == p \in table /\ state[p] \notin {"ZOMBIE", "KILLED"}

(* A program makes a system call; idle never does.                         *)
Calling == kpc = "user" /\ current # idleId

------------------------------------------------------------------------------
(* Freeing processes                                                       *)

(* save_pid                                                                *)
SavedPids_None(S) == process_id_list
SavedPids(S) == process_id_list \cup S

(* free_process_memory for every process of the set S; st gives the states *)
(* the handler has set before and ch the children lists.  Pointers to the  *)
(* structures now dangle; fields nobody can read take a fixed value.       *)
Free(S, st, ch) ==
  LET stale(x) == IF x \in S THEN Dangling ELSE x IN
  /\ table' = table \ S
  /\ state' = [p \in Pid |-> IF p \in S THEN "FREE" ELSE st[p]]
  /\ nb_proc_running' = nb_proc_running - Cardinality(S)
  /\ process_id_list' = SavedPids(S)
  /\ parent' = [p \in Pid |-> IF p \in S THEN NULL ELSE stale(parent[p])]
  /\ children' = [p \in Pid |->
                    IF p \in S THEN << >>
                    ELSE [i \in DOMAIN ch[p] |-> stale(ch[p][i])]]
  /\ prio' = [p \in Pid |-> IF p \in S THEN MINPRIO ELSE prio[p]]
  /\ wake_time' = [p \in Pid |-> IF p \in S THEN 0 ELSE wake_time[p]]

(* One turn of the loop of free_dead_process, in scheduler().              *)
FreeDead ==
  /\ kpc = "scheduler"
  /\ get_next_wake_time >= 0 /\ ~SleeperDue
  /\ ~queue_empty(dead)
  /\ dead' = queue_out(dead)
  /\ Free({queue_top(dead)}, state, children)
  /\ UNCHANGED <<current, activatable, asleep, counter, kpc, resume, waiting,
                 pid_iterator>>

------------------------------------------------------------------------------
(* The end of a process                                                    *)

ZombieChildren(p) ==
  {c \in Range(children[p]) \ {Dangling} : state[c] = "ZOMBIE"}

(* make_children_orphans_and_kill_zombies calls itself on every zombie     *)
(* child, whose own list must not lead through freed memory.  A zombie has *)
(* no zombie child (TreeConsistent), so this is the whole depth of the     *)
(* recursion.                                                              *)
ListsIntact(p) ==
  \A c \in {p} \cup ZombieChildren(p) : Dangling \notin Range(children[c])

(* What reading the state of the parent may return.                        *)
ParentState(p) ==
  CASE parent[p] = NULL     -> {"FREE"}
    [] parent[p] = Dangling -> process_state
    [] OTHER                -> {state[parent[p]]}

(* Without a parent, or with a zombie parent, nobody will wait for p.      *)
Unawaited_NotWaiting(p, s) == s # "BLOCKEDWAITCHILD"
Unawaited(p, s) == parent[p] = NULL \/ s = "ZOMBIE"

Halt ==
  /\ kpc' = "halted"
  /\ UNCHANGED <<table, state, prio, wake_time, activatable, asleep, treeVars>>

(* The waiting parent becomes activatable, whichever child it waits for.   *)
AfterDeath_Asleep(p, s, st, act) ==
  [st |-> [st EXCEPT ![p] = "ZOMBIE"], act |-> act]
AfterDeath(p, s, st, act) ==
  IF s = "BLOCKEDWAITCHILD"
  THEN [st  |-> [st EXCEPT ![p] = "ZOMBIE", ![parent[p]] = "ACTIVATABLE"],
        act |-> queue_add(act, parent[p], prio)]
  ELSE [st  |-> [st EXCEPT ![p] = IF Unawaited(p, s) THEN "KILLED"
                                                     ELSE "ZOMBIE"],
        act |-> act]

(* turn_current_process_into_a_zombie_or_kill_it, once the process p has   *)
(* left its queue: st, act and slp are the states and the queues after     *)
(* that, k the place where the handler goes on.  A process nobody will     *)
(* wait for is freed at once or, if it is the current process, at the next *)
(* call of scheduler().                                                    *)
Terminate(p, st, act, slp, k) ==
  \E s \in ParentState(p) :
    IF \/ ~ListsIntact(p)
       \/ s = "BLOCKEDWAITCHILD" /\ parent[p] = Dangling
    THEN Halt
    ELSE /\ IF Unawaited(p, s) /\ p # current
            THEN /\ Free(ZombieChildren(p) \cup {p}, st, children)
                 /\ activatable' = act
            ELSE LET after == AfterDeath(p, s, st, act) IN
                 /\ Free(ZombieChildren(p), after.st, children)
                 /\ activatable' = after.act
         /\ asleep' = slp
         /\ kpc' = k
         /\ UNCHANGED <<waiting, pid_iterator>>

(* exit_process, the return of a program, kill of oneself, or a page fault *)
(* of the running program (strap_handler kills it).                        *)
exit_process ==
  /\ Calling
  /\ Terminate(current, state, activatable, asleep, "scheduler")
  /\ UNCHANGED <<current, dead, counter, resume>>

Protected(p) == p \in {idleId, NULL}

(* leave_queue_process_if_needed                                           *)
LeftReady_Stays(p) == activatable
LeftReady(p) == queue_del(activatable, p)

(* kill of another process.  It is unlinked from the queue it is in;       *)
(* queue_del asserts that it is in one, which neither a process blocked in *)
(* waitpid nor a husk is.  A parent that the death wakes up does not       *)
(* preempt the caller.                                                     *)
kill(p) ==
  /\ Calling
  /\ ~Protected(p) /\ p # current
  /\ Valid(p)
  /\ CASE Linked(activatable, p) ->
            Terminate(p, state, LeftReady(p), asleep, "user")
       [] Linked(asleep, p) ->
            Terminate(p, state, activatable, queue_del(asleep, p), "user")
       [] OTHER -> Halt
  /\ UNCHANGED <<current, dead, counter, resume>>

------------------------------------------------------------------------------
(* waitpid                                                                 *)

(* free_process_arg_and_fix_tree_link: the zombie z leaves the list of its *)
(* parent and is freed.                                                    *)
Unlinked_Kept(z) == children
Unlinked(z) ==
  [children EXCEPT ![current] = queue_del(@, z)]

Reap(z) ==
  /\ Free({z}, state, Unlinked(z))
  /\ waiting' = [waiting EXCEPT ![current] = NULL]
  /\ resume' = [resume EXCEPT ![current] = "user"]
  /\ kpc' = "user"
  /\ UNCHANGED <<current, activatable, asleep, dead, counter, pid_iterator>>

BlockOnChild_Spins(c) ==
  /\ waiting' = [waiting EXCEPT ![current] = c]
  /\ resume' = [resume EXCEPT ![current] = "waitpid"]
  /\ kpc' = "scheduler"
  /\ UNCHANGED <<table, current, state, prio, wake_time, activatable, asleep,
                 dead, counter, parent, children, nb_proc_running,
                 pid_iterator, process_id_list>>

BlockOnChild(c) ==
  /\ state' = [state EXCEPT ![current] = "BLOCKEDWAITCHILD"]
  /\ waiting' = [waiting EXCEPT ![current] = c]
  /\ resume' = [resume EXCEPT ![current] = "waitpid"]
  /\ kpc' = "scheduler"
  /\ UNCHANGED <<table, current, prio, wake_time, activatable, asleep, dead,
                 counter, parent, children, nb_proc_running, pid_iterator,
                 process_id_list>>

(* One turn of the loop of waitpid: take the first zombie of the list, or  *)
(* the child asked for if it is one; block otherwise.                      *)
WaitpidTurn(c) ==
  LET ch == children[current]
      done == {i \in DOMAIN ch : state[ch[i]] = "ZOMBIE" /\ c \in {AnyChild, ch[i]}}
  IN  IF done = {} THEN BlockOnChild(c) ELSE Reap(ch[Min(done)])

(* The call: without a matching child it fails and changes nothing.        *)
waitpid(c) ==
  /\ Calling
  /\ children[current] # << >>
  /\ c \in Range(children[current]) \cup {AnyChild}
  /\ WaitpidTurn(c)

(* The same loop, when the blocked process gets the processor back.        *)
WaitpidResumed == kpc = "waitpid" /\ WaitpidTurn(waiting[current])

------------------------------------------------------------------------------
(* start_virtual and chprio                                                *)

(* increment_pid_and_get_new_pid                                           *)
NewPid == IF process_id_list # {} THEN process_id_list
                                  ELSE {pid_iterator + 1} \cap Pid

(* The count is taken before the arguments are checked: an unknown         *)
(* program, a bad priority or stack size, or a full heap makes the call    *)
(* fail without giving it back.                                            *)
StartRejected ==
  /\ Calling
  /\ nb_proc_running < MAX_NB_PROCESS
  /\ nb_proc_running' = nb_proc_running + 1
  /\ UNCHANGED <<schedVars, parent, children, waiting, pid_iterator,
                 process_id_list>>

(* The structure and the pid are taken and entered in the table.           *)
Enter(p, pr) ==
  /\ Calling
  /\ nb_proc_running < MAX_NB_PROCESS
  /\ nb_proc_running' = nb_proc_running + 1
  /\ pid_iterator' = IF process_id_list = {} THEN p ELSE pid_iterator
  /\ process_id_list' = process_id_list \ {p}
  /\ table' = table \cup {p}
  /\ prio' = [prio EXCEPT ![p] = pr]
  /\ wake_time' = [wake_time EXCEPT ![p] = 0]
  /\ resume' = [resume EXCEPT ![p] = "user"]
  /\ waiting' = [waiting EXCEPT ![p] = NULL]
  /\ UNCHANGED <<current, asleep, dead, counter>>

(* The name is too long, or memory runs out for the page tables, the       *)
(* context or the interrupt stack: the entry stays in the table.           *)
StartAbandoned(p, pr) ==
  /\ Enter(p, pr)
  /\ state' = [state EXCEPT ![p] = "HUSK"]
  /\ UNCHANGED <<activatable, kpc, parent, children>>

(* A complete start: the new process is the youngest child of the caller,  *)
(* which is preempted if the new priority is higher than its own.  start   *)
(* makes a process that runs a function of the kernel (idle, the kernel's  *)
(* tests), start_virtual one that runs a program; they differ in the       *)
(* context they build only.                                                *)
NewProcess(p, pr) ==
  /\ Enter(p, pr)
  /\ state' = [state EXCEPT ![p] = "ACTIVATABLE"]
  /\ activatable' = queue_add(activatable, p, prio')
  /\ parent' = [parent EXCEPT ![p] = current]
  /\ children' = [children EXCEPT ![current] = Append(@, p), ![p] = << >>]
  /\ kpc' = IF prio[current] < pr THEN "scheduler" ELSE "user"

start_virtual(p, pr) == NewProcess(p, pr)
start(p, pr) == NewProcess(p, pr)

Requeued(p, key) == queue_add(queue_del(activatable, p), p, key)

(* chprio keeps the queue of activatable processes sorted, but only for a  *)
(* process in the state ACTIVATABLE.  For a husk the switch on the state   *)
(* may go anywhere.                                                        *)
chprio(p, pr) ==
  LET newprio == [prio EXCEPT ![p] = pr] IN
  /\ Calling
  /\ Valid(p)
  /\ prio' = newprio
  /\ activatable' = IF state[p] = "ACTIVATABLE"
                    THEN Requeued(p, newprio)
                    ELSE activatable
  /\ kpc' \in CASE state[p] \in {"ACTIVATABLE", "ACTIF"} -> {"scheduler"}
                [] state[p] = "HUSK" -> {"user", "scheduler", "halted"}
                [] OTHER -> {"user"}
  /\ UNCHANGED <<table, current, state, wake_time, asleep, dead, counter,
                 resume, treeVars>>

------------------------------------------------------------------------------
(* initialize_process_workflow creates idle and the shell, which have no   *)
(* parent; the first clock interrupt launches the shell.                   *)
shellId == idleId + 1

Init ==
  /\ table = {idleId, shellId}
  /\ current = shellId
  /\ state = [p \in Pid |-> CASE p = idleId  -> "ACTIVATABLE"
                              [] p = shellId -> "ACTIF"
                              [] OTHER       -> "FREE"]
  /\ prio = [p \in Pid |-> IF p = shellId THEN 2 ELSE 1]
  /\ wake_time = [p \in Pid |-> 0]
  /\ activatable = <<idleId>> /\ asleep = << >> /\ dead = << >>
  /\ counter = 1
  /\ kpc = "user"
  /\ resume = [p \in Pid |-> "user"]
  /\ parent = [p \in Pid |-> NULL]
  /\ children = [p \in Pid |-> << >>]
  /\ waiting = [p \in Pid |-> NULL]
  /\ nb_proc_running = 2
  /\ pid_iterator = shellId
  /\ process_id_list = {}

(* The same, after the shell has started all the other processes: where    *)
(* the modules on what processes do with each other begin.                 *)
Started ==
  /\ table = Pid
  /\ current = shellId
  /\ state = [p \in Pid |-> IF p = current THEN "ACTIF" ELSE "ACTIVATABLE"]
  /\ prio \in [Pid -> Prio] /\ prio[idleId] = MINPRIO
  /\ \A p \in Pid : prio[p] <= prio[current]
  /\ wake_time = [p \in Pid |-> 0]
  /\ activatable \in [1..Cardinality(Pid)-1 -> Pid]
  /\ IsInjective(activatable) /\ Range(activatable) = Pid \ {current}
  /\ SortedBy(activatable, prio)
  /\ asleep = << >> /\ dead = << >>
  /\ counter = 1
  /\ kpc = "user"
  /\ resume = [p \in Pid |-> "user"]
  /\ parent = [p \in Pid |-> IF p \in {idleId, shellId} THEN NULL ELSE shellId]
  /\ children = [p \in Pid |-> IF p = shellId
                               THEN [i \in 1..Cardinality(Pid)-2 |-> shellId + i]
                               ELSE << >>]
  /\ waiting = [p \in Pid |-> NULL]
  /\ nb_proc_running = Cardinality(Pid)
  /\ pid_iterator = Cardinality(Pid)
  /\ process_id_list = {}

Next ==
  \/ SchedulerStep /\ UNCHANGED treeVars
  \/ FreeDead
  \/ Tick /\ UNCHANGED treeVars
  \/ WaitClock /\ UNCHANGED treeVars
  \/ exit_process
  \/ \E p \in Pid : kill(p)
  \/ \E c \in Pid \cup {AnyChild} : waitpid(c)
  \/ WaitpidResumed
  \/ StartRejected
  \/ \E p \in NewPid, pr \in Prio : StartAbandoned(p, pr)
  \/ \E p \in NewPid, pr \in Prio : start_virtual(p, pr)
  \/ \E p \in NewPid, pr \in Prio : start(p, pr)
  \/ \E p \in Pid, pr \in Prio : chprio(p, pr)
  \/ kpc = "halted" /\ UNCHANGED vars

Spec == Init /\ [][Next]_vars

(* The kernel's own code runs to its end once it is entered.               *)
KernelStep ==
  \/ SchedulerStep /\ UNCHANGED treeVars
  \/ FreeDead
  \/ WaitpidResumed

FairSpec == Spec /\ WF_vars(KernelStep)

------------------------------------------------------------------------------
(* Properties                                                              *)

(* The variables have the types of the C declarations.                     *)
TypeOK ==
  /\ table \subseteq Pid
  /\ current \in Pid
  /\ state \in [Pid -> process_state \cup {"FREE", "HUSK"}]
  /\ prio \in [Pid -> Prio]
  /\ wake_time \in [Pid -> Int]
  /\ activatable \in Seq(Pid) /\ asleep \in Seq(Pid) /\ dead \in Seq(Pid)
  /\ counter \in 1..MaxClock
  /\ kpc \in {"user", "scheduler", "waitpid", "halted"}
  /\ resume \in [Pid -> {"user", "waitpid"}]
  /\ parent \in [Pid -> Pid \cup {NULL, Dangling}]
  /\ children \in [Pid -> Seq(Pid \cup {Dangling})]
  /\ waiting \in [Pid -> Pid \cup {NULL, AnyChild}]
  /\ nb_proc_running \in 0..MAX_NB_PROCESS
  /\ pid_iterator \in Nat
  /\ process_id_list \subseteq Pid

(* The state of a process tells which queue it is in, and it is in no two, *)
(* the assumption of leave_queue_process_if_needed and chprio: an          *)
(* activatable process waits for the processor, a sleeping one is in the   *)
(* queue of sleepers or has been woken, a killed one is about to be freed, *)
(* the others are in none.  scheduler() always finds a process to run:     *)
(* idle has the processor or waits for it, whatever is killed, blocks or   *)
(* changes priority.                                                       *)
QueueMatchesState ==
  /\ TypeOK
  /\ LinkedOnce
  /\ \A p \in Pid :
       /\ state[p] = "ACTIF" => p = current
       /\ state[p] = "ACTIVATABLE" => Linked(activatable, p)
       /\ state[p] = "ASLEEP" => Linked(activatable, p) \/ Linked(asleep, p)
       /\ state[p] = "KILLED" => Linked(dead, p) \/ p = current
       /\ state[p] = "FREE" <=> p \notin table
  /\ \A p \in Range(activatable) : state[p] \in {"ACTIVATABLE", "ASLEEP"}
  /\ \A p \in Range(asleep) : state[p] = "ASLEEP"
  /\ \A p \in Range(dead) : state[p] = "KILLED"
  /\ kpc = "user" => state[current] = "ACTIF"
  /\ IF current = idleId THEN state[idleId] = "ACTIF"
                         ELSE Linked(activatable, idleId)

(* No wake-up is lost between a child's end and its parent's waitpid: a    *)
(* process blocked there has the child it waits for, and that child (any   *)
(* child, if it waits for any) has not ended yet.                          *)
NoLostWakeup ==
  \A p \in Pid :
    state[p] = "BLOCKEDWAITCHILD" =>
      LET awaited == {c \in Range(children[p]) : waiting[p] \in {AnyChild, c}}
      IN  awaited # {} /\ \A c \in awaited : Valid(c)

(* The list of children of a living process holds exactly the processes    *)
(* whose parent it is, each once: waitpid never follows a stale link.  A   *)
(* zombie has no zombie child: make_children_orphans_and_kill_zombies      *)
(* recurses once at most.                                                  *)
TreeConsistent ==
  \A p \in Pid :
    /\ Valid(p) => /\ IsInjective(children[p])
                   /\ Range(children[p]) = {c \in table : parent[c] = p}
    /\ state[p] = "ZOMBIE" => ZombieChildren(p) = {}

(* Every pid given so far belongs to one process or waits to be reused,    *)
(* never both, and nb_proc_running is never below the number of processes. *)
PidsAccounted ==
  /\ table \cap process_id_list = {}
  /\ table \cup process_id_list = idleId..pid_iterator
  /\ Cardinality(table) <= nb_proc_running

(* The status of an ended child is kept for a living parent: the child     *)
(* leaves the table only when that parent takes it in waitpid or ends.     *)
ExitStatusKept ==
  [][\A p \in table \ table', q \in table :
       parent[p] = q /\ Valid(q) =>
         (current = q /\ state[p] = "ZOMBIE") \/ ~Valid(q)']_vars

(* scheduler() and the loop of waitpid always lead back to user code.      *)
KernelReturns == []<>(kpc \in {"user", "halted"})

------------------------------------------------------------------------------
(* What a comment of the code says and the code does not do                *)

(* leave_queue_process_if_needed "checks if the process is in a queue and  *)
(* leaves that queue if needed": kill of a process blocked in waitpid,     *)
(* which is in none, does not fail an assertion.                           *)
KillOfWaiterReturns ==
  [][\A p \in Pid :
       kill(p) /\ state[p] = "BLOCKEDWAITCHILD" => kpc' # "halted"]_vars
==============================================================================
