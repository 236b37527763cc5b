----------------------------- MODULE LineBuffer -----------------------------
(***************************************************************************)
(* What cons_read (kernel/input-output/cons_read.c) gives its callers: the *)
(* characters typed wait in order; a call takes the rest of the first      *)
(* line, or as many of its characters as were asked for; what is not taken *)
(* stays for the next call; the end of a line is never given to a caller,  *)
(* and stays when the line was taken exactly.                              *)
(*                                                                         *)
(* All this is in the comment above cons_read.  In one point the code is   *)
(* followed against the comment, which has every call wait for a complete  *)
(* line: the loop of cons_read also ends when as many characters are there *)
(* as were asked for, or when no more fit.                                 *)
(***************************************************************************)
EXTENDS Integers, SequencesExt

CONSTANTS
  Char,      \* the characters
  EOL,       \* the end of a line, not one of them
  Capacity   \* how many characters and ends of lines wait at most

VARIABLES
  typed,     \* what was typed and not taken yet
  got        \* what the call that ends here asked for and gets, or None

None == [asked |-> 0, text |-> << >>]

AbsInit == typed = << >> /\ got = None

(* Keys pressed beyond the capacity are lost.                              *)
Type(s) ==
  LET all == typed \o s IN
  /\ got' = None
  /\ typed' = SubSeq(all, 1, Min({Len(all), Capacity}))

(* Erasing takes from the end.                                             *)
Erase == got' = None /\ typed' \in Prefixes(typed)

(* A call for n characters ends when a line is complete, the buffer full   *)
(* or n characters there.                                                  *)
FirstLine ==
  IF EOL \in ToSet(typed)
  THEN SubSeq(typed, 1, Min({i \in DOMAIN typed : typed[i] = EOL}) - 1)
  ELSE typed

Read(n) ==
  LET m == Min({n, Len(FirstLine)}) IN
  /\ EOL \in ToSet(typed) \/ Len(typed) = Capacity \/ Len(typed) >= n
  /\ got' = [asked |-> n, text |-> SubSeq(typed, 1, m)]
  /\ typed' = IF m < n /\ m < Len(typed)
              THEN SubSeq(typed, m + 2, Len(typed))
              ELSE SubSeq(typed, m + 1, Len(typed))

Quiet == got' = None /\ UNCHANGED typed

AbsNext ==
  \/ Quiet
  \/ \E c \in Char \cup {EOL}, n \in 1..Capacity+1 : Type([i \in 1..n |-> c])
  \/ Erase
  \/ \E n \in 1..Capacity+1 : Read(n)

AbsSpec == AbsInit /\ [][AbsNext]_<<typed, got>>
=============================================================================
