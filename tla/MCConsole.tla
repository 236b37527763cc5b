----------------------------- MODULE MCConsole -----------------------------
(***************************************************************************)
(* The console for TLC, for idle, the shell 2 and its children 3 and 4.    *)
(* The view of the state leaves out what no step and no property reads     *)
(* again: the text that the last cons_read returned; the fields of a       *)
(* process that has ended, which is not started again; the order of the    *)
(* shell's children, as nobody calls waitpid; and, once the kernel has     *)
(* stopped, everything but crossed.  The children are alike: the view      *)
(* names them so that 3 comes first, where their states or places differ.  *)
(***************************************************************************)
EXTENDS Console

Ended(p) == state[p] \in {"ZOMBIE", "FREE"}

Fields(p) ==
  <<state[p], p \in table, parent[p], Len(children[p]), length[p]>>
    \o IF Ended(p) THEN << >> ELSE <<prio[p], resume[p]>>

Precedence == <<"ACTIF", "ACTIVATABLE", "BLOCKEDIO">>
Before(s, t) ==
  \E i \in DOMAIN Precedence :
    Precedence[i] = s /\ \A j \in 1..i : Precedence[j] # t

Behind(q) == \E i, j \in DOMAIN q : i < j /\ q[i] = 3 /\ q[j] = 4

Swaps == \/ Before(state[4], state[3])
         \/ Behind(activatable) \/ Behind(blocked_io)

View ==
  IF kpc \in {"halted", "asserted", "hung"} THEN <<kpc, crossed>>
  ELSE LET swaps == Swaps
           name == [p \in Pid \cup {Dangling} |->
                      IF swaps /\ p \in {3, 4} THEN 7 - p ELSE p]
           Renamed(q) == [i \in DOMAIN q |-> name[q[i]]]
       IN  <<kpc, name[current], [p \in Pid |-> Fields(name[p])],
             {name[c] : c \in Range(children[2])}, Renamed(activatable),
             Renamed(blocked_io), Renamed(dead), ringVars, echo, crossed>>
=============================================================================
