------------------------------ MODULE Console ------------------------------
(***************************************************************************)
(* The console: the keyboard interrupt (kernel/input-output/keyboard.c),   *)
(* the ring of characters typed (kernel/drivers/console.c) and the call    *)
(* cons_read (kernel/input-output/cons_read.c), with processes that run,   *)
(* are killed and change priority as in module Process.  What is shown on  *)
(* the screen is left out.                                                 *)
(*                                                                         *)
(* kpc is "cons_read" when a blocked cons_read goes on, and "hung" when    *)
(* the keyboard interrupt loops for ever.  It is "asserted" after the      *)
(* assertion of copy has failed.                                           *)
(***************************************************************************)
EXTENDS Process, SequencesExt

CONSTANTS
  BUFFER_SIZE,   \* the places of the ring, 20 in the code
  TAB_SIZE,      \* 8 in the code
  Letters,       \* the printable characters other than the space
  Lengths        \* the arguments given to cons_read

VARIABLES
  buffer, start_of_buffer_index, last_written_char_index, echo, \* console_dev
  blocked_io,    \* blocked_io_process_queue
  length,        \* length[p]: the argument of the cons_read p is blocked in
  got,           \* what the cons_read that ends here asked for and returns
  crossed        \* history: an erasing key went past the start of the ring,
                 \* which has not been emptied since; no action reads it

ringVars == <<buffer, start_of_buffer_index, last_written_char_index>>

consVars == <<ringVars, echo, blocked_io, length, got, crossed>>

ASSUME ConsoleAssumption ==
  /\ BUFFER_SIZE \in Nat \ {0} /\ TAB_SIZE \in Nat \ {0, 1}
  /\ Lengths \subseteq Nat \ {0}

SPACE == "SPACE"
EOL == "EOL"       \* the character '\n'
CR == "CR"         \* the character '\r'
Zero == "ZERO"     \* the character 0, of an empty place
None == [asked |-> 0, text |-> << >>]

Char == Letters \cup {SPACE}
AnyChar == Char \cup {EOL, Zero}
EraseKeys == {"BS", "DL", "DW"}
Keys == Char \cup EraseKeys \cup {"HT", "LF", "CR", "OTHER"}

------------------------------------------------------------------------------
(* The ring                                                                *)

Full(last) ==
  last # -1 /\ (last + 1) % BUFFER_SIZE = start_of_buffer_index

is_buffer_full == Full(last_written_char_index)

is_buffer_empty == last_written_char_index = -1

buffer_current_size ==
  (last_written_char_index - start_of_buffer_index + 1) % BUFFER_SIZE

(* kaddtobuffer, on the ring with contents r.buf and last index r.last: a  *)
(* character that does not fit is lost.                                    *)
kaddtobuffer(r, c) ==
  LET i == (r.last + 1) % BUFFER_SIZE
  IN  IF Full(r.last) THEN r
      ELSE [buf |-> [r.buf EXCEPT ![i] = c], last |-> i]

Ring == [buf |-> buffer, last |-> last_written_char_index]

(* A tab adds spaces up to the next multiple of TAB_SIZE; the remainder of *)
(* -1 is negative.                                                         *)
TabSpaces ==
  IF is_buffer_empty THEN TAB_SIZE + 1
                     ELSE TAB_SIZE - (last_written_char_index % TAB_SIZE)

TabAdded == FoldLeft(kaddtobuffer, Ring, [i \in 1..TabSpaces |-> SPACE])

(* The field before buffer[0] is the Boolean "ignore", which is false.     *)
CharAt(i) == IF i = -1 THEN Zero ELSE buffer[i]

(* Where a loop that deletes the last character while the one before it    *)
(* is none of the characters in stops comes to an end, from last index i.  *)
StopsAt(i, stops) == Max({j \in -1..i : j = -1 \/ CharAt(j - 1) \in stops})

(* delete_last, down to the last index i.                                  *)
DeletedTo(i) ==
  [buf  |-> [j \in DOMAIN buffer |->
               IF j \in i+1..last_written_char_index THEN Zero ELSE buffer[j]],
   last |-> i]

LineStart == StopsAt(last_written_char_index, {CR})

WordStart ==
  StopsAt(StopsAt(last_written_char_index, AnyChar \ {SPACE}), {SPACE})

(* The ring after the key k.                                               *)
Typed(k) ==
  CASE k \in Char -> kaddtobuffer(Ring, k)
    [] k = "HT" -> TabAdded
    [] k \in {"LF", "CR"} -> kaddtobuffer(Ring, EOL)
    [] k = "BS" /\ ~is_buffer_empty /\ CharAt(last_written_char_index - 1) # CR ->
         DeletedTo(last_written_char_index - 1)
    [] k = "DL" -> DeletedTo(LineStart)
    [] k = "DW" -> DeletedTo(WordStart)
    [] OTHER -> Ring

(* delete_last does not know where the ring starts: when the ring does not *)
(* start at its first place, the last index can leave the characters typed.*)
Occupied == IF last_written_char_index < start_of_buffer_index
            THEN 0..last_written_char_index
            ELSE start_of_buffer_index..last_written_char_index

Crosses(last) == /\ start_of_buffer_index # 0
                 /\ last < last_written_char_index
                 /\ last \notin Occupied

------------------------------------------------------------------------------
(* handle_keyboard_interrupt                                               *)

(* Without echo the loops that delete a word delete nothing.               *)
Hangs(k) == k = "DW" /\ ~echo /\ WordStart # last_written_char_index

WakesReader_AtEol(k) == ~queue_empty(blocked_io) /\ k \in {"LF", "CR"}
WakesReader(k) == ~queue_empty(blocked_io)

(* Every key wakes the most urgent blocked reader.                         *)
WakeReader(k) ==
  IF WakesReader(k)
  THEN LET next == queue_top(blocked_io) IN
       /\ blocked_io' = queue_out(blocked_io)
       /\ state' = [state EXCEPT ![next] = "ACTIVATABLE"]
       /\ activatable' = queue_add(activatable, next, prio)
       /\ kpc' = "scheduler"
  ELSE UNCHANGED <<blocked_io, state, activatable, kpc>>

handle_keyboard_interrupt(k) ==
  /\ kpc = "user"
  /\ got' = None
  /\ IF Hangs(k)
     THEN /\ kpc' = "hung"
          /\ UNCHANGED <<ringVars, crossed, blocked_io, state, activatable>>
     ELSE LET ring == Typed(k) IN
          /\ buffer' = ring.buf
          /\ last_written_char_index' = ring.last
          /\ UNCHANGED start_of_buffer_index
          /\ crossed' = (crossed \/ Crosses(ring.last))
          /\ WakeReader(k)
  /\ UNCHANGED <<table, current, prio, wake_time, asleep, dead, counter,
                 resume, treeVars, echo, length>>

cons_echo(on) ==
  /\ Calling
  /\ echo' = on
  /\ got' = None
  /\ UNCHANGED <<vars, ringVars, crossed, blocked_io, length>>

------------------------------------------------------------------------------
(* cons_read                                                               *)

(* The index i places after the start of the ring.                         *)
Place(i) == (start_of_buffer_index + i) % BUFFER_SIZE

detected_eol ==
  /\ ~is_buffer_empty
  /\ \E i \in 0..BUFFER_SIZE-1 :
       /\ buffer[Place(i)] = EOL
       /\ \A j \in 0..i-1 : Place(j) # last_written_char_index

Ready(n) == detected_eol \/ is_buffer_full \/ n <= buffer_current_size

(* The first n characters, and the ring without them.                      *)
First(n) == [i \in 1..n |-> buffer[Place(i - 1)]]

Cleared(n) ==
  [j \in DOMAIN buffer |-> IF \E i \in 0..n-1 : j = Place(i) THEN Zero ELSE buffer[j]]

Emptied_StartKept == start_of_buffer_index
Emptied == 0

(* copy: its loop ends after CopyEnd(n) characters, because enough have    *)
(* been copied, at the end of a line, or at the last character.            *)
CopyEnd(n) ==
  Min({i \in 0..BUFFER_SIZE : \/ i = n
                              \/ buffer[Place(i)] = EOL
                              \/ Place(i) = last_written_char_index})

Filled_BeforeEol(i, n) == i >= n /\ buffer[Place(i)] # EOL
Filled(i, n) == i >= n

(* What is taken, what is cleared, and where the ring starts afterwards,   *)
(* -1 when it becomes empty.                                               *)
Copied(n) ==
  LET i      == CopyEnd(n)
      atLast == Place(i) = last_written_char_index
      atEol  == buffer[Place(i)] = EOL
  IN  CASE Filled(i, n) -> [taken |-> i, cleared |-> i, start |-> Place(i)]
        [] ~Filled(i, n) /\ atLast /\ ~atEol ->
             [taken |-> i + 1, cleared |-> i + 1, start |-> -1]
        [] ~Filled(i, n) /\ atLast /\ atEol ->
             [taken |-> i, cleared |-> i, start |-> -1]
        [] OTHER ->
             [taken |-> i, cleared |-> i + 1, start |-> Place(i + 1)]

(* The call returns; its argument is not read again.                       *)
copy(n) ==
  LET after == Copied(n) IN
  /\ got' = [asked |-> n, text |-> First(after.taken)]
  /\ buffer' = Cleared(after.cleared)
  /\ IF after.start = -1
     THEN start_of_buffer_index' = Emptied /\ last_written_char_index' = -1
     ELSE start_of_buffer_index' = after.start /\ UNCHANGED last_written_char_index
  /\ crossed' = (crossed /\ after.start # -1)
  /\ length' = [length EXCEPT ![current] = 0]
  /\ resume' = [resume EXCEPT ![current] = "user"]
  /\ kpc' = "user"
  /\ UNCHANGED <<state, blocked_io>>

CopyAssertFails ==
  /\ kpc' = "asserted"
  /\ got' = None
  /\ UNCHANGED <<ringVars, crossed, length, resume, state, blocked_io>>

BlockIO(n) ==
  /\ state' = [state EXCEPT ![current] = "BLOCKEDIO"]
  /\ blocked_io' = queue_add(blocked_io, current, prio)
  /\ length' = [length EXCEPT ![current] = n]
  /\ resume' = [resume EXCEPT ![current] = "cons_read"]
  /\ kpc' = "scheduler"
  /\ got' = None
  /\ UNCHANGED <<ringVars, crossed>>

(* One turn of the loop of cons_read.                                      *)
ReadTurn(n) ==
  /\ IF ~Ready(n) THEN BlockIO(n)
     ELSE IF is_buffer_empty THEN CopyAssertFails
     ELSE copy(n)
  /\ UNCHANGED <<table, current, prio, wake_time, activatable, asleep, dead,
                 counter, treeVars, echo>>

cons_read(n) == Calling /\ ReadTurn(n)

ReadResumed == kpc = "cons_read" /\ ReadTurn(length[current])

------------------------------------------------------------------------------
(* kill and chprio of a blocked reader                                     *)

kill_reader(p) ==
  /\ Calling
  /\ Linked(blocked_io, p)
  /\ Terminate(p, state, activatable, asleep, "user")
  /\ blocked_io' = queue_del(blocked_io, p)
  /\ length' = [length EXCEPT ![p] = 0]
  /\ got' = None
  /\ UNCHANGED <<current, dead, counter, resume, ringVars, crossed, echo>>

ReaderMoved_Kept(p, key) == blocked_io
ReaderMoved(p, key) == queue_add(queue_del(blocked_io, p), p, key)

chprio_reader(p, pr) ==
  /\ Calling
  /\ state[p] = "BLOCKEDIO"
  /\ prio' = [prio EXCEPT ![p] = pr]
  /\ blocked_io' = ReaderMoved(p, prio')
  /\ got' = None
  /\ UNCHANGED <<table, current, state, wake_time, activatable, asleep, dead,
                 counter, kpc, resume, treeVars, ringVars, crossed, echo,
                 length>>

------------------------------------------------------------------------------
(* register_console, and the shell has started all the other processes.    *)

ConsInit ==
  /\ Started
  /\ buffer = [i \in 0..BUFFER_SIZE-1 |-> Zero]
  /\ start_of_buffer_index = 0
  /\ last_written_char_index = -1
  /\ echo = TRUE
  /\ blocked_io = << >>
  /\ length = [p \in Pid |-> 0]
  /\ got = None
  /\ crossed = FALSE

ConsOperation ==
  \/ \E on \in BOOLEAN : cons_echo(on)
  \/ \E n \in Lengths : cons_read(n)
  \/ ReadResumed
  \/ \E p \in Pid : kill_reader(p)
  \/ \E p \in Pid, pr \in Prio : chprio_reader(p, pr)

ProcessOperation ==
  /\ \/ SchedulerStep /\ UNCHANGED treeVars /\ UNCHANGED length
     \/ Tick /\ UNCHANGED treeVars /\ UNCHANGED length
     \/ \E p \in Pid : /\ state[p] # "BLOCKEDIO"
                       /\ kill(p)
                       /\ length' = [length EXCEPT ![p] = 0]
     \/ kpc \in {"halted", "asserted", "hung"} /\ UNCHANGED <<vars, length>>
  /\ got' = None
  /\ UNCHANGED <<ringVars, crossed, echo, blocked_io>>

ConsNext ==
  \/ ConsOperation
  \/ ProcessOperation
  \/ \E k \in Keys : handle_keyboard_interrupt(k)

allVars == <<vars, consVars>>

ConsSpec == ConsInit /\ [][ConsNext]_allVars

------------------------------------------------------------------------------
(* Properties                                                              *)

(* The variables have the types of the C declarations; the indices stay    *)
(* inside the array.                                                       *)
ConsTypeOK ==
  /\ buffer \in [0..BUFFER_SIZE-1 -> Char \cup {EOL, Zero}]
  /\ start_of_buffer_index \in 0..BUFFER_SIZE-1
  /\ last_written_char_index \in -1..BUFFER_SIZE-1
  /\ echo \in BOOLEAN
  /\ blocked_io \in Seq(Pid)
  /\ length \in [Pid -> Lengths \cup {0}]
  /\ kpc \in {"user", "scheduler", "cons_read", "halted", "asserted", "hung"}

(* The assertion of copy, that something has been typed when the loop of   *)
(* cons_read ends, fails only in a ring that an erasing key has left with  *)
(* its last index before its start.                                        *)
AssertionsHold == kpc = "asserted" => crossed

(* The assertion as it stands in the code, which erasing can make fail.    *)
AssertionNeverFails == kpc # "asserted"

(* A reader is in the queue of blocked readers exactly while its state is  *)
(* BLOCKEDIO, and then in no other; the queue follows the priorities, also *)
(* after kill and chprio, until the kernel has stopped.                    *)
ReadersQueued ==
  /\ ConsTypeOK
  /\ kpc # "halted" =>
       /\ IsInjective(blocked_io) /\ SortedBy(blocked_io, prio)
       /\ \A p \in Pid :
            /\ state[p] = "BLOCKEDIO" <=> Linked(blocked_io, p)
            /\ Linked(blocked_io, p) => ~Linked(activatable, p)

(* When what is typed completes the calls of blocked readers, one of the   *)
(* most urgent readers is woken in the same step.                          *)
ReaderWoken ==
  [][\A p \in Pid :
       /\ Linked(blocked_io, p) /\ ~Ready(length[p])
       /\ kpc' # "hung" /\ Linked(blocked_io', p) /\ Ready(length[p])'
       => \E q \in Pid : /\ Linked(blocked_io, q) /\ Linked(activatable', q)
                         /\ prio[q] >= prio[p]]_allVars

(* The ring implements the buffer of lines of module LineBuffer, at every  *)
(* place of the ring and across its end, except from an erasing key that   *)
(* goes past the start of the ring until the ring has been emptied.        *)
Unread ==
  IF is_buffer_empty THEN << >>
  ELSE First(IF is_buffer_full THEN BUFFER_SIZE ELSE buffer_current_size)

Lines == INSTANCE LineBuffer WITH Capacity <- BUFFER_SIZE, typed <- Unread

ImplementsLineBuffer ==
  Lines!AbsInit /\ [][crossed \/ crossed' \/ Lines!AbsNext]_<<Unread, got>>
============================================================================
