--------------------------- MODULE MessageChannel ---------------------------
(***************************************************************************)
(* What the message queues of kernel/msgqueue.h promise: bounded FIFO      *)
(* channels.  A message is received once, in the order in which messages   *)
(* were accepted, or abandoned with its queue; a sender blocked on a full  *)
(* channel is told whether its message was accepted.                       *)
(***************************************************************************)
EXTENDS Naturals, Sequences

CONSTANTS Pid, Fid, Msg, Sizes, NoMsg

VARIABLES
  open,       \* the channels that exist
  size,       \* size[f]: how many messages channel f holds
  buf,        \* buf[f]: the messages accepted and not yet received
  senders,    \* senders[f]: the processes blocked with a message for f
  receivers,  \* receivers[f]: the processes blocked without a message
  letter,     \* letter[p]: the message p waits to send, or was given
  fate,       \* fate[p]: how the blocked call of p has ended
  ret         \* what the send or receive that ends here returns

absVars == <<open, size, buf, senders, receivers, letter, fate, ret>>

NoFate == "NOFATE"
Nothing == "NOTHING"

AbsInit ==
  /\ open = {}
  /\ size = [f \in Fid |-> 0]
  /\ buf = [f \in Fid |-> << >>]
  /\ senders = [f \in Fid |-> {}]
  /\ receivers = [f \in Fid |-> {}]
  /\ letter = [p \in Pid |-> NoMsg]
  /\ fate = [p \in Pid |-> NoFate]
  /\ ret = Nothing

Open(f, n) ==
  /\ f \notin open
  /\ open' = open \cup {f}
  /\ size' = [size EXCEPT ![f] = n]
  /\ ret' = Nothing
  /\ UNCHANGED <<buf, senders, receivers, letter, fate>>

(* preset and pdelete abandon the messages and let everybody go.           *)
Abandon(f, keep) ==
  LET gone == senders[f] \cup receivers[f] IN
  /\ ret' = Nothing
  /\ open' = IF keep THEN open ELSE open \ {f}
  /\ size' = IF keep THEN size ELSE [size EXCEPT ![f] = 0]
  /\ buf' = [buf EXCEPT ![f] = << >>]
  /\ senders' = [senders EXCEPT ![f] = {}]
  /\ receivers' = [receivers EXCEPT ![f] = {}]
  /\ letter' = [p \in Pid |-> IF p \in gone THEN NoMsg ELSE letter[p]]
  /\ fate' = [p \in Pid |-> IF p \in gone THEN "ERROR" ELSE fate[p]]

(* A message goes to a waiting receiver, else to the buffer, else its      *)
(* sender waits.                                                           *)
Send(f, m, p) ==
  \/ \E r \in receivers[f] :
       /\ ret' = "SUCCES"
       /\ receivers' = [receivers EXCEPT ![f] = @ \ {r}]
       /\ letter' = [letter EXCEPT ![r] = m]
       /\ fate' = [fate EXCEPT ![r] = "RECEIVED"]
       /\ UNCHANGED <<open, size, buf, senders>>
  \/ /\ receivers[f] = {}
     /\ Len(buf[f]) < size[f]
     /\ ret' = "SUCCES"
     /\ buf' = [buf EXCEPT ![f] = Append(@, m)]
     /\ UNCHANGED <<open, size, senders, receivers, letter, fate>>
  \/ /\ receivers[f] = {}
     /\ Len(buf[f]) = size[f]
     /\ ret' = Nothing
     /\ senders' = [senders EXCEPT ![f] = @ \cup {p}]
     /\ letter' = [letter EXCEPT ![p] = m]
     /\ UNCHANGED <<open, size, buf, receivers, fate>>

(* The oldest message, if there is one; a blocked sender, if there is one, *)
(* then has its message accepted.                                          *)
Accepted(f, q) ==
  /\ senders' = [senders EXCEPT ![f] = @ \ {q}]
  /\ letter' = [letter EXCEPT ![q] = NoMsg]
  /\ fate' = [fate EXCEPT ![q] = "SENT"]
  /\ UNCHANGED <<open, size, receivers>>

Receive(f, p) ==
  \/ \E q \in senders[f] :
       /\ Accepted(f, q)
       /\ LET all == Append(buf[f], letter[q]) IN
          /\ ret' = Head(all)
          /\ buf' = [buf EXCEPT ![f] = Tail(all)]
  \/ /\ senders[f] = {} /\ buf[f] # << >>
     /\ ret' = Head(buf[f])
     /\ buf' = [buf EXCEPT ![f] = Tail(@)]
     /\ UNCHANGED <<open, size, senders, receivers, letter, fate>>
  \/ /\ senders[f] = {} /\ buf[f] = << >>
     /\ ret' = Nothing
     /\ receivers' = [receivers EXCEPT ![f] = @ \cup {p}]
     /\ UNCHANGED <<open, size, buf, senders, letter, fate>>

(* A blocked call returns.                                                 *)
Return(p) ==
  /\ fate[p] # NoFate
  /\ ret' = CASE fate[p] = "RECEIVED" -> letter[p]
              [] fate[p] = "SENT"     -> "SUCCES"
              [] fate[p] = "ERROR"    -> "FAILURE"
  /\ letter' = [letter EXCEPT ![p] = NoMsg]
  /\ fate' = [fate EXCEPT ![p] = NoFate]
  /\ UNCHANGED <<open, size, buf, senders, receivers>>

(* The process is killed; the message it holds is lost with it.            *)
Die(p) ==
  /\ ret' = Nothing
  /\ senders' = [f \in Fid |-> senders[f] \ {p}]
  /\ receivers' = [f \in Fid |-> receivers[f] \ {p}]
  /\ letter' = [letter EXCEPT ![p] = NoMsg]
  /\ fate' = [fate EXCEPT ![p] = NoFate]
  /\ UNCHANGED <<open, size, buf>>

Quiet == ret' = Nothing /\ UNCHANGED <<open, size, buf, senders, receivers,
                                       letter, fate>>

AbsNext ==
  \/ Quiet
  \/ \E f \in Fid, n \in Sizes : Open(f, n)
  \/ \E f \in open, keep \in BOOLEAN : Abandon(f, keep)
  \/ \E f \in open, m \in Msg, p \in Pid : Send(f, m, p)
  \/ \E f \in open, p \in Pid : Receive(f, p)
  \/ \E p \in Pid : Return(p) \/ Die(p)

AbsSpec == AbsInit /\ [][AbsNext]_absVars
=============================================================================
