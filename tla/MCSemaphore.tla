---------------------------- MODULE MCSemaphore ----------------------------
(***************************************************************************)
(* Semaphores for TLC, with a view of the state that leaves out the fields *)
(* of a process that has ended: it is not started again, and no step and   *)
(* no property reads them.                                                 *)
(***************************************************************************)
EXTENDS Semaphore

Living(f) == [p \in Pid |-> IF state[p] \in {"ZOMBIE", "FREE"} THEN 0 ELSE f[p]]

View ==
  <<table, current, state, activatable, asleep, dead, kpc, counter, wake_time,
    treeVars, Living(prio), Living(resume), Living(sem_signal),
    Living(semaphore_id), sems, count, blocked, parent_block, semaphore_id_counter,
    currently_running_semaphores>>
=============================================================================
