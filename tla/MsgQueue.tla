------------------------------ MODULE MsgQueue ------------------------------
(***************************************************************************)
(* The message queues (kernel/msgqueue.c) of processes that run, end, are  *)
(* killed and change priority as in module Process.                        *)
(*                                                                         *)
(* The messages of a queue are in a ring buffer; the processes blocked on  *)
(* it are in two queues of queue.h, linked by the same field as the queue  *)
(* of activatable processes.  A blocked call goes on after scheduler():    *)
(* kpc is then "psend" or "preceive", and the call reads what the process  *)
(* that woke it left in its message field.                                 *)
(*                                                                         *)
(* A place of the ring buffer, or a field of a process, whose content is   *)
(* written before it is read again takes a fixed value.                    *)
(***************************************************************************)
EXTENDS Process, SequencesExt

CONSTANTS
  Fid,      \* the indices of all_queues, 0..NBQUEUES-1
  Sizes,    \* the arguments given to pcreate
  Msg,      \* the messages
  NoMsg     \* the content of a place nobody has written

VARIABLES
  all_queues,      \* the indices of queues that are not NULL
  half_built,      \* those whose pcreate failed after the first allocation
  size, msg_arr, iffc, number_of_msgs,   \* the fields of msg_queue_t
  blocked_cons, blocked_prod,
  value, status, blocked_head,           \* the fields of message_t
  ret              \* what the psend or preceive that ends here returns

messageVars == <<value, status, blocked_head>>

queueVars == <<all_queues, half_built, size, msg_arr, iffc, number_of_msgs,
               blocked_cons, blocked_prod, messageVars>>

ASSUME MsgQueueAssumption ==
  /\ Fid \subseteq Nat /\ IsFiniteSet(Fid)
  /\ Sizes \subseteq Nat
  /\ NoMsg \notin Msg

Nothing == "NOTHING"
NoHead == -2      \* blocked_head of a process that is not blocked

is_full(f) == number_of_msgs[f] = size[f]
is_empty(f) == number_of_msgs[f] = 0

(* What pcount writes: minus the consumers that wait, or the messages with *)
(* the producers that wait.                                                *)
pcount(f) == IF blocked_cons[f] # << >> THEN -Len(blocked_cons[f])
             ELSE number_of_msgs[f] + Len(blocked_prod[f])

(* The place of the oldest message; % is the function mod of the code,     *)
(* which never returns a negative number.                                  *)
OldestIndex_Next(f) == iffc[f]
OldestIndex(f) == (iffc[f] - number_of_msgs[f]) % size[f]

(* add_message                                                             *)
NextIndex(f) == (iffc[f] + 1) % size[f]

(* queue_add of the processes of l, taken from its end, to act.            *)
AllReady(act, l) ==
  FoldLeft(LAMBDA q, p : queue_add(q, p, prio), act, Reverse(l))

(* A call that returns r without leaving the processor.                    *)
Returns(r) ==
  /\ ret' = r
  /\ UNCHANGED vars

(* A call that will return r once scheduler() comes back to it, with the   *)
(* states st and the queue act of activatable processes.                   *)
Yields(r, st, act) ==
  /\ ret' = r
  /\ state' = st
  /\ activatable' = act
  /\ kpc' = "scheduler"
  /\ UNCHANGED <<table, current, prio, wake_time, asleep, dead, counter,
                 resume, treeVars>>

(* A call that blocks on f and goes on at place.                           *)
Blocks(f, place) ==
  /\ ret' = Nothing
  /\ state' = [state EXCEPT ![current] = "BLOCKEDQUEUE"]
  /\ blocked_head' = [blocked_head EXCEPT ![current] = f]
  /\ resume' = [resume EXCEPT ![current] = place]
  /\ kpc' = "scheduler"
  /\ UNCHANGED <<table, current, prio, wake_time, activatable, asleep, dead,
                 counter, treeVars, all_queues, half_built, size, msg_arr,
                 iffc, number_of_msgs, status>>

------------------------------------------------------------------------------
(* pcreate, pdelete and preset                                             *)

FreeIndex == Fid \ all_queues

pcreate(n) ==
  LET f == Min(FreeIndex) IN
  /\ Calling
  /\ FreeIndex # {}
  /\ all_queues' = all_queues \cup {f}
  /\ size' = [size EXCEPT ![f] = n]
  /\ msg_arr' = [msg_arr EXCEPT ![f] = [i \in 0..n-1 |-> NoMsg]]
  /\ iffc' = [iffc EXCEPT ![f] = 0]
  /\ number_of_msgs' = [number_of_msgs EXCEPT ![f] = 0]
  /\ Returns(Nothing)
  /\ UNCHANGED <<half_built, blocked_cons, blocked_prod, messageVars>>

(* The array is too large or does not fit in memory: the call fails, but   *)
(* its index stays taken.                                                  *)
PcreateFails ==
  /\ Calling
  /\ FreeIndex # {}
  /\ all_queues' = all_queues \cup {Min(FreeIndex)}
  /\ half_built' = half_built \cup {Min(FreeIndex)}
  /\ Returns(Nothing)
  /\ UNCHANGED <<size, msg_arr, iffc, number_of_msgs, blocked_cons,
                 blocked_prod, messageVars>>

(* Any operation on such an index reads fields nobody has written.         *)
UseHalfBuilt ==
  /\ Calling
  /\ half_built # {}
  /\ kpc' = "halted"
  /\ ret' = Nothing
  /\ UNCHANGED <<table, current, state, prio, wake_time, activatable, asleep,
                 dead, counter, resume, treeVars, queueVars>>

Usable(f) == f \in all_queues \ half_built

(* free_blocked_queue for the consumers, then for the producers.  Their    *)
(* value and blocked_head are not read again and take a fixed value.       *)
Freed(f) == Range(blocked_cons[f]) \cup Range(blocked_prod[f])

FreedStatus_Kept(f) == status
FreedStatus(f) == [p \in Pid |-> IF p \in Freed(f) THEN "ERROR" ELSE status[p]]

FreeBlocked(f) ==
  /\ blocked_cons' = [blocked_cons EXCEPT ![f] = << >>]
  /\ blocked_prod' = [blocked_prod EXCEPT ![f] = << >>]
  /\ value' = [p \in Pid |-> IF p \in Freed(f) THEN NoMsg ELSE value[p]]
  /\ status' = FreedStatus(f)
  /\ Yields(Nothing,
            [p \in Pid |-> IF p \in Freed(f) THEN "ACTIVATABLE" ELSE state[p]],
            AllReady(AllReady(activatable, blocked_cons[f]), blocked_prod[f]))

pdelete(f) ==
  /\ Calling /\ Usable(f)
  /\ FreeBlocked(f)
  /\ blocked_head' = [p \in Pid |-> CASE p \in Freed(f)      -> NoHead
                                     [] blocked_head[p] = f -> Dangling
                                     [] OTHER               -> blocked_head[p]]
  /\ all_queues' = all_queues \ {f}
  /\ size' = [size EXCEPT ![f] = 0]
  /\ msg_arr' = [msg_arr EXCEPT ![f] = << >>]
  /\ iffc' = [iffc EXCEPT ![f] = 0]
  /\ number_of_msgs' = [number_of_msgs EXCEPT ![f] = 0]
  /\ UNCHANGED half_built

preset(f) ==
  /\ Calling /\ Usable(f)
  /\ FreeBlocked(f)
  /\ blocked_head' = [p \in Pid |-> IF p \in Freed(f) THEN NoHead
                                                      ELSE blocked_head[p]]
  /\ number_of_msgs' = [number_of_msgs EXCEPT ![f] = 0]
  /\ iffc' = [iffc EXCEPT ![f] = 0]
  /\ msg_arr' = [msg_arr EXCEPT ![f] = [i \in DOMAIN @ |-> NoMsg]]
  /\ UNCHANGED <<all_queues, half_built, size>>

------------------------------------------------------------------------------
(* psend                                                                   *)

(* A consumer waits: it gets the message and becomes activatable.          *)
HandOver(f, m) ==
  LET r == queue_top(blocked_cons[f]) IN
  /\ blocked_cons' = [blocked_cons EXCEPT ![f] = queue_out(@)]
  /\ value' = [value EXCEPT ![r] = m]
  /\ status' = [status EXCEPT ![r] = "RECEIVED"]
  /\ blocked_head' = [blocked_head EXCEPT ![r] = NoHead]
  /\ Yields("SUCCES", [state EXCEPT ![r] = "ACTIVATABLE"],
            queue_add(activatable, r, prio))
  /\ UNCHANGED <<all_queues, half_built, size, msg_arr, iffc, number_of_msgs,
                 blocked_prod>>

SendBlocks(f, m) ==
  /\ value' = [value EXCEPT ![current] = m]
  /\ blocked_prod' = [blocked_prod EXCEPT ![f] = queue_add(@, current, prio)]
  /\ Blocks(f, "psend")
  /\ UNCHANGED blocked_cons

AddMessage(f, m) ==
  /\ msg_arr' = [msg_arr EXCEPT ![f][iffc[f]] = m]
  /\ number_of_msgs' = [number_of_msgs EXCEPT ![f] = @ + 1]
  /\ iffc' = [iffc EXCEPT ![f] = NextIndex(f)]
  /\ Returns("SUCCES")
  /\ UNCHANGED <<all_queues, half_built, size, blocked_cons, blocked_prod,
                 messageVars>>

psend(f, m) ==
  /\ Calling /\ Usable(f)
  /\ IF is_empty(f) /\ ~queue_empty(blocked_cons[f]) THEN HandOver(f, m)
     ELSE IF is_full(f) THEN SendBlocks(f, m)
     ELSE AddMessage(f, m)

------------------------------------------------------------------------------
(* preceive                                                                *)

ReceiveBlocks(f) ==
  /\ blocked_cons' = [blocked_cons EXCEPT ![f] = queue_add(@, current, prio)]
  /\ Blocks(f, "preceive")
  /\ UNCHANGED <<blocked_prod, value>>

(* A queue of size 0: the message is taken from the blocked producer, whose*)
(* state is not changed.                                                   *)
TakeFromProducer(f) ==
  LET q == queue_top(blocked_prod[f]) IN
  /\ blocked_prod' = [blocked_prod EXCEPT ![f] = queue_out(@)]
  /\ status' = [status EXCEPT ![q] = "SENT"]
  /\ Yields(value[q], state, queue_add(activatable, q, prio))
  /\ UNCHANGED <<all_queues, half_built, size, msg_arr, iffc, number_of_msgs,
                 blocked_cons, value, blocked_head>>

(* The oldest message leaves and that of the first blocked producer enters *)
(* in its place.                                                           *)
PopAndAdmit(f) ==
  LET q == queue_top(blocked_prod[f]) IN
  /\ msg_arr' = [msg_arr EXCEPT ![f][OldestIndex(f)] = NoMsg,
                                ![f][iffc[f]] = value[q]]
  /\ iffc' = [iffc EXCEPT ![f] = NextIndex(f)]
  /\ blocked_prod' = [blocked_prod EXCEPT ![f] = queue_out(@)]
  /\ value' = [value EXCEPT ![q] = NoMsg]
  /\ status' = [status EXCEPT ![q] = "SENT"]
  /\ blocked_head' = [blocked_head EXCEPT ![q] = NoHead]
  /\ Yields(msg_arr[f][OldestIndex(f)], [state EXCEPT ![q] = "ACTIVATABLE"],
            queue_add(activatable, q, prio))
  /\ UNCHANGED <<all_queues, half_built, size, number_of_msgs, blocked_cons>>

PopOldest(f) ==
  /\ number_of_msgs' = [number_of_msgs EXCEPT ![f] = @ - 1]
  /\ msg_arr' = [msg_arr EXCEPT ![f][OldestIndex(f)] = NoMsg]
  /\ Returns(msg_arr[f][OldestIndex(f)])
  /\ UNCHANGED <<all_queues, half_built, size, iffc, blocked_cons,
                 blocked_prod, messageVars>>

ProducerWaits_NotLast(f) == Len(blocked_prod[f]) > 1
ProducerWaits(f) == is_full(f) /\ ~queue_empty(blocked_prod[f])

preceive(f) ==
  /\ Calling /\ Usable(f)
  /\ IF is_empty(f)
     THEN IF queue_empty(blocked_prod[f]) THEN ReceiveBlocks(f)
                                          ELSE TakeFromProducer(f)
     ELSE IF ProducerWaits(f) THEN PopAndAdmit(f)
                              ELSE PopOldest(f)

(* A blocked psend or preceive goes on.                                    *)
Resumed ==
  /\ kpc \in {"psend", "preceive"}
  /\ ret' = CASE kpc = "psend" /\ status[current] = "SENT" -> "SUCCES"
              [] kpc = "preceive" /\ status[current] = "RECEIVED" ->
                   value[current]
              [] OTHER -> "FAILURE"
  /\ kpc' = "user"
  /\ resume' = [resume EXCEPT ![current] = "user"]
  /\ value' = [value EXCEPT ![current] = NoMsg]
  /\ status' = [status EXCEPT ![current] = "RECEIVED"]
  /\ blocked_head' = [blocked_head EXCEPT ![current] = NoHead]
  /\ UNCHANGED <<table, current, state, prio, wake_time, activatable, asleep,
                 dead, counter, treeVars, all_queues, half_built, size,
                 msg_arr, iffc, number_of_msgs, blocked_cons, blocked_prod>>

------------------------------------------------------------------------------
(* kill and chprio of a process blocked on a queue                         *)

BlockedOn(f, p) == Linked(blocked_cons[f], p) \/ Linked(blocked_prod[f], p)

Without(q, p) == IF Linked(q, p) THEN queue_del(q, p) ELSE q

kill_blocked(p) ==
  /\ Calling
  /\ ~Protected(p) /\ p # current
  /\ \E f \in Fid : BlockedOn(f, p)
  /\ Terminate(p, state, activatable, asleep, "user")
  /\ blocked_cons' = [f \in Fid |-> Without(blocked_cons[f], p)]
  /\ blocked_prod' = [f \in Fid |-> Without(blocked_prod[f], p)]
  /\ value' = [value EXCEPT ![p] = NoMsg]
  /\ blocked_head' = [blocked_head EXCEPT ![p] = NoHead]
  /\ ret' = Nothing
  /\ UNCHANGED <<current, dead, counter, resume, all_queues, half_built, size,
                 msg_arr, iffc, number_of_msgs, status>>

(* chprio unlinks a process in the state BLOCKEDQUEUE from the queue it is *)
(* in, whichever that is, and links it in the queue of blocked processes   *)
(* that its blocked_head points to.                                        *)
Replaced_Kept(q, p, key) == q
Replaced(q, p, key) == queue_add(Without(q, p), p, key)

chprio_blocked(p, pr) ==
  LET newprio == [prio EXCEPT ![p] = pr]
      f       == blocked_head[p]
  IN
  /\ Calling
  /\ state[p] = "BLOCKEDQUEUE"
  /\ prio' = newprio
  /\ ret' = Nothing
  /\ IF f = Dangling
     THEN /\ kpc' = "halted"
          /\ UNCHANGED <<activatable, blocked_cons, blocked_prod>>
     ELSE /\ activatable' = Without(activatable, p)
          /\ IF Linked(blocked_cons[f], p)
             THEN /\ blocked_cons' = [blocked_cons EXCEPT
                                        ![f] = Replaced(@, p, newprio)]
                  /\ UNCHANGED blocked_prod
             ELSE /\ blocked_prod' = [blocked_prod EXCEPT
                                        ![f] = Replaced(@, p, newprio)]
                  /\ UNCHANGED blocked_cons
          /\ UNCHANGED kpc
  /\ UNCHANGED <<table, current, state, wake_time, asleep, dead, counter,
                 resume, treeVars, all_queues, half_built, size, msg_arr,
                 iffc, number_of_msgs, messageVars>>

------------------------------------------------------------------------------
(* The shell has started all the other processes.                          *)

QueueInit ==
  /\ Started
  /\ all_queues = {} /\ half_built = {}
  /\ size = [f \in Fid |-> 0]
  /\ msg_arr = [f \in Fid |-> << >>]
  /\ iffc = [f \in Fid |-> 0]
  /\ number_of_msgs = [f \in Fid |-> 0]
  /\ blocked_cons = [f \in Fid |-> << >>]
  /\ blocked_prod = [f \in Fid |-> << >>]
  /\ value = [p \in Pid |-> NoMsg]
  /\ status = [p \in Pid |-> "RECEIVED"]
  /\ blocked_head = [p \in Pid |-> NoHead]
  /\ ret = Nothing

QueueOperation ==
  \/ \E n \in Sizes : pcreate(n)
  \/ PcreateFails
  \/ UseHalfBuilt
  \/ \E f \in Fid : pdelete(f) \/ preset(f) \/ preceive(f)
  \/ \E f \in Fid, m \in Msg : psend(f, m)
  \/ Resumed
  \/ \E p \in Pid : kill_blocked(p)

ProcessOperation ==
  \/ SchedulerStep /\ UNCHANGED treeVars
  \/ Tick /\ UNCHANGED treeVars
  \/ \E p \in Pid : (\A f \in Fid : ~BlockedOn(f, p)) /\ kill(p)
  \/ kpc = "halted" /\ UNCHANGED vars

(* chprio of a process in the state BLOCKEDQUEUE; of other processes it    *)
(* changes nothing here.                                                   *)
ChprioOperation == \E p \in Pid, pr \in Prio : chprio_blocked(p, pr)

QueueNext ==
  \/ QueueOperation
  \/ ProcessOperation /\ ret' = Nothing /\ UNCHANGED queueVars
  \/ ChprioOperation

allVars == <<vars, queueVars, ret>>

QueueSpec == QueueInit /\ [][QueueNext]_allVars

------------------------------------------------------------------------------
(* Properties                                                              *)

(* The variables have the types of the C declarations.                     *)
QueueTypeOK ==
  /\ all_queues \subseteq Fid /\ half_built \subseteq all_queues
  /\ \A f \in all_queues \ half_built :
       /\ size[f] \in Sizes
       /\ DOMAIN msg_arr[f] = 0..size[f]-1
       /\ number_of_msgs[f] \in 0..size[f]
       /\ iffc[f] = 0 \/ iffc[f] \in DOMAIN msg_arr[f]
  /\ blocked_cons \in [Fid -> Seq(Pid)] /\ blocked_prod \in [Fid -> Seq(Pid)]
  /\ value \in [Pid -> Msg \cup {NoMsg}]
  /\ status \in [Pid -> {"RECEIVED", "ERROR", "SENT"}]
  /\ blocked_head \in [Pid -> Fid \cup {Dangling, NoHead}]

(* A producer that has handed over its message on a queue of size 0 keeps  *)
(* the state BLOCKEDQUEUE until it runs, and a chprio before that puts it  *)
(* back among those that wait.  It is known by its status.                 *)
PutBack(f) == {p \in Range(blocked_prod[f]) : status[p] = "SENT"}
Offering(f) == Range(blocked_prod[f]) \ PutBack(f)

(* Nobody waits in vain: consumers wait only while there is no message and *)
(* no producer whose message has not been taken, producers only while the  *)
(* queue is full; pcount leaves out nobody, unless it counts a producer    *)
(* that chprio has put back.                                               *)
NobodyWaitsInVain ==
  \A f \in all_queues \ half_built :
    /\ \/ PutBack(f) # {}
       \/ pcount(f) = number_of_msgs[f] + Len(blocked_prod[f])
                       - Len(blocked_cons[f])
    /\ blocked_cons[f] # << >> =>
         is_empty(f) /\ Offering(f) = {}
    /\ blocked_prod[f] # << >> => is_full(f)

(* A process is linked once, in one queue of blocked processes or in the   *)
(* queue of activatable processes, and the processes blocked on a queue    *)
(* are served by their present priority, also after chprio (test 13).      *)
BlockedSorted ==
  /\ QueueTypeOK
  /\ LinkedOnce
  /\ \A f \in Fid :
       /\ SortedBy(blocked_cons[f], prio) /\ SortedBy(blocked_prod[f], prio)
       /\ IsInjective(blocked_cons[f] \o blocked_prod[f])
  /\ \A f, g \in Fid : \A p \in Pid :
       BlockedOn(f, p) => /\ ~Linked(activatable, p)
                          /\ BlockedOn(g, p) => f = g

(* The ring buffer and the queues of blocked processes implement bounded   *)
(* FIFO channels.  A process that has been woken up and has not returned   *)
(* yet has its fate in status, also when chprio has put it back.           *)
Returning(p) ==
  \/ /\ resume[p] \in {"psend", "preceive"}
     /\ Linked(activatable, p) \/ (p = current /\ kpc = resume[p])
  \/ \E f \in Fid : p \in PutBack(f)

Channel == INSTANCE MessageChannel WITH
  open      <- all_queues \ half_built,
  buf       <- [f \in Fid |->
                  [i \in 1..number_of_msgs[f] |->
                     msg_arr[f][(iffc[f] - number_of_msgs[f] + i - 1) % size[f]]]],
  senders   <- [f \in Fid |-> Offering(f)],
  receivers <- [f \in Fid |-> Range(blocked_cons[f])],
  letter    <- [p \in Pid |->
                  IF \/ \E f \in Fid : p \in Offering(f)
                     \/ status[p] = "RECEIVED" /\ Returning(p)
                  THEN value[p] ELSE NoMsg],
  fate      <- [p \in Pid |-> IF Returning(p) THEN status[p] ELSE "NOFATE"]

(* A producer that chprio has put back is released a second time: its      *)
(* message is received again, or preset or pdelete makes its psend fail.   *)
ReleasedAgain ==
  \E f \in Fid : \E p \in PutBack(f) : Linked(activatable', p)

(* Every step is one the channels allow, except that a producer which      *)
(* chprio has put back may be released a second time.  psend and preceive  *)
(* alone never duplicate, lose or reorder a message.                       *)
ImplementsChannel ==
  Channel!AbsInit /\ [][Channel!AbsNext \/ ReleasedAgain]_(Channel!absVars)

(* The channels without that exception, which chprio does not keep.        *)
ChannelThroughout == Channel!AbsSpec
=============================================================================
