----------------------------- MODULE MCMsgQueue -----------------------------
(***************************************************************************)
(* MsgQueue for TLC: the messages are interchangeable, and the view of the *)
(* state leaves out what no step and no property reads again, that is what *)
(* the last psend or preceive returned and the fields of a process that    *)
(* has ended, which is not started again.                                  *)
(***************************************************************************)
EXTENDS MsgQueue

MsgSymmetry == Permutations(Msg)

Live(f) == [p \in Pid |-> IF state[p] \in {"ZOMBIE", "FREE"} THEN 0 ELSE f[p]]

View ==
  <<table, current, state, Live(prio), Live(resume), activatable, dead, kpc,
    parent, children, all_queues, half_built, size, msg_arr, iffc,
    number_of_msgs, blocked_cons, blocked_prod, Live(value), Live(status),
    Live(blocked_head)>>
=============================================================================
