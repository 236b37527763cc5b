----------------------------- MODULE ProcessInv ------------------------------
(***************************************************************************)
(* The invariant of the kernel's processes, for every set of pids and      *)
(* priorities and every limit on the number of processes: its definition,  *)
(* what the operators of Process do to it, the steps that free nobody and  *)
(* start nobody, and the ends of processes and the waits for them          *)
(* (free_dead_process, exit_process, kill and waitpid).                    *)
(***************************************************************************)
EXTENDS Process, PrioQueueProofs

(* Zenon proves most leaves; the others name SMT.                          *)
USE ZenonT(60)

(* The states of a process that has ended.                                 *)
Ended == {"ZOMBIE", "KILLED"}

(* The types of TypeOK without those of kpc and resume, to which other     *)
(* modules add places, and of the count nb_proc_running.                   *)
KernelTypes ==
  /\ table \subseteq Pid
  /\ current \in Pid
  /\ state \in [Pid -> process_state \cup {"FREE", "HUSK"}]
  /\ prio \in [Pid -> Prio]
  /\ wake_time \in [Pid -> Int]
  /\ activatable \in Seq(Pid) /\ asleep \in Seq(Pid) /\ dead \in Seq(Pid)
  /\ counter \in 1..MaxClock
  /\ parent \in [Pid -> Pid \cup {NULL, Dangling}]
  /\ children \in [Pid -> Seq(Pid \cup {Dangling})]
  /\ waiting \in [Pid -> Pid \cup {NULL, AnyChild}]
  /\ pid_iterator \in Nat
  /\ process_id_list \subseteq Pid

(* The queues agree with the states.  QueueMatchesState lacks two things   *)
(* its preservation rests on: the current process is in the table and not  *)
(* in the queue of dead processes, so that free_dead_process never frees   *)
(* the process scheduler() is about to switch from.                        *)
Queues ==
  /\ IsInjective(activatable) /\ IsInjective(asleep) /\ IsInjective(dead)
  /\ Range(activatable) \cap Range(asleep) = {}
  /\ \A p \in Pid :
       /\ state[p] = "ACTIF" => p = current
       /\ state[p] = "ACTIVATABLE" => p \in Range(activatable)
       /\ state[p] = "ASLEEP" => p \in Range(activatable) \cup Range(asleep)
       /\ state[p] = "KILLED" => p \in Range(dead) \/ p = current
       /\ state[p] = "FREE" <=> p \notin table
  /\ \A p \in Range(activatable) : state[p] \in {"ACTIVATABLE", "ASLEEP"}
  /\ \A p \in Range(asleep) : state[p] = "ASLEEP"
  /\ \A p \in Range(dead) : state[p] = "KILLED"
  /\ current \in table /\ current \notin Range(dead)
  /\ IF current = idleId THEN state[idleId] = "ACTIF"
                         ELSE idleId \in Range(activatable)

(* Outside scheduler() the current process is active, and no process goes  *)
(* on inside scheduler().                                                  *)
Places ==
  /\ DOMAIN resume = Pid
  /\ \A p \in Pid : resume[p] \notin {"scheduler", "halted"}
  /\ kpc \notin {"scheduler", "halted"} => state[current] = "ACTIF"

(* The links of the tree once the processes of S are gone; st and ch are   *)
(* the states and the children lists.  Of a process that is not in the     *)
(* table nothing is left; nobody is its own parent; whoever is in a list,  *)
(* be it that of a dead process, has its owner as parent; the list of a    *)
(* living process is complete and has no stale link; a killed process has  *)
(* no living parent; a zombie has no zombie child.                         *)
LinksWithout(S, st, ch) ==
  /\ \A p \in Pid : p \notin table => parent[p] = NULL /\ ch[p] = << >>
  /\ \A p \in Pid : parent[p] # p /\ (parent[p] \in Pid => parent[p] \in table)
  /\ \A p \in Pid : \A c \in Range(ch[p]) : c # Dangling =>
       c \in table /\ parent[c] = p
  /\ \A p \in table \ S : st[p] \notin Ended =>
       /\ IsInjective(ch[p])
       /\ Range(ch[p]) \subseteq table \ S
       /\ \A c \in table \ S : parent[c] = p => c \in Range(ch[p])
  /\ \A p \in table \ S : st[p] = "KILLED" /\ parent[p] \in Pid \ S =>
       st[parent[p]] \in Ended
  /\ \A p \in table \ S : st[p] = "ZOMBIE" =>
       \A c \in Range(ch[p]) \ (S \cup {Dangling}) : st[c] # "ZOMBIE"

Links == LinksWithout({}, state, children)

(* A living process that blocks in waitpid, or has been woken there and    *)
(* has not looked at its children yet, has the child it waits for; while   *)
(* it is blocked that child has not ended.  idle never waits.              *)
Awaited(p, c) == c \in Range(children[p]) /\ waiting[p] \in {AnyChild, c}

Waits ==
  /\ \A p \in table : state[p] \notin Ended =>
       /\ state[p] = "BLOCKEDWAITCHILD" => resume[p] = "waitpid"
       /\ resume[p] = "waitpid" => \E c \in table : Awaited(p, c)
       /\ state[p] = "BLOCKEDWAITCHILD" =>
            \A c \in table : Awaited(p, c) => state[c] \notin Ended
  /\ kpc = "waitpid" => resume[current] = "waitpid"
  /\ resume[idleId] # "waitpid"

(* The pids of PidsAccounted, without the count.                           *)
PidsPartitioned ==
  /\ table \cap process_id_list = {}
  /\ table \cup process_id_list = idleId..pid_iterator

(* What every operation on processes preserves, also where other modules   *)
(* add blocking calls of their own ...                                     *)
KernelInv ==
  /\ KernelTypes
  /\ Queues
  /\ Places
  /\ Links
  /\ PidsPartitioned

(* ... and the whole invariant of this module.                             *)
ProcessIInv ==
  /\ TypeOK
  /\ KernelInv
  /\ Waits
  /\ PidsAccounted

------------------------------------------------------------------------------
(* Lemmas on the operators                                                 *)

(* Pids, NULL and Dangling are told apart.                                 *)
LEMMA PidFacts ==
  /\ NULL \notin Pid /\ Dangling \notin Pid /\ AnyChild \notin Pid
  /\ idleId \in Pid /\ NULL # Dangling
BY SchedulerAssumption, SMTT(30) DEF NULL, Dangling, AnyChild

(* Priorities are integers, so that queue_add can compare them.            *)
LEMMA PrioKeys ==
  ASSUME KernelTypes
  PROVE  prio \in [Pid -> Int]
<1>1. \A n \in Prio : n \in Int
  BY SchedulerAssumption, SMTT(30)
<1> QED BY <1>1 DEF KernelTypes

(* The list of children after some of them are freed: the links to them    *)
(* dangle, and a list without any of them stays what it is.                *)
Staled(l, S) == [i \in DOMAIN l |-> IF l[i] \in S THEN Dangling ELSE l[i]]

(* Such a list holds children that were in it before and are not freed.    *)
LEMMA StaledList ==
  ASSUME NEW l \in Seq(Pid \cup {Dangling}), NEW S
  PROVE  /\ Staled(l, S) \in Seq(Pid \cup {Dangling})
         /\ \A x \in Range(Staled(l, S)) : x # Dangling => x \in Range(l) \ S
         /\ Range(l) \cap S = {} => Staled(l, S) = l
<1> DEFINE m == Staled(l, S)
<1>1. Len(l) \in Nat /\ DOMAIN l = 1..Len(l)
      /\ \A i \in 1..Len(l) : l[i] \in Pid \cup {Dangling}
  BY LenProperties
<1>2. /\ m = [i \in 1..Len(l) |-> m[i]]
      /\ \A i \in 1..Len(l) : m[i] = IF l[i] \in S THEN Dangling ELSE l[i]
  BY <1>1 DEF Staled
<1>3. \A i \in 1..Len(l) : m[i] \in Pid \cup {Dangling}
  BY <1>1, <1>2
<1> HIDE DEF m
<1>4. m \in Seq(Pid \cup {Dangling})
  BY <1>1, <1>2, <1>3, SMTT(30)
<1>5. DOMAIN m = 1..Len(l)
  BY <1>2
<1>6. \A x \in Range(m) : x # Dangling => x \in Range(l) \ S
  BY <1>1, <1>2, <1>5 DEF Range
<1>7. ASSUME Range(l) \cap S = {} PROVE m = l
  <2>1. \A i \in 1..Len(l) : m[i] = l[i]
    BY <1>1, <1>2, <1>7 DEF Range
  <2>2. l = [i \in 1..Len(l) |-> l[i]]
    BY <1>1, SMTT(30)
  <2> QED BY <2>1, <2>2, <1>2
<1> QED BY <1>4, <1>6, <1>7 DEF m

(* A new child goes to the end of the list.                                *)
LEMMA AppendedList ==
  ASSUME NEW T, NEW l \in Seq(T), NEW x \in T
  PROVE  /\ Append(l, x) \in Seq(T)
         /\ Range(Append(l, x)) = Range(l) \cup {x}
         /\ IsInjective(l) /\ x \notin Range(l) => IsInjective(Append(l, x))
<1> DEFINE m == Append(l, x)
           n == Len(l)
<1>1. n \in Nat /\ DOMAIN l = 1..n
  BY LenProperties
<1>2. /\ m \in Seq(T) /\ Len(m) = n+1 /\ DOMAIN m = 1..n+1
      /\ \A i \in 1..n : m[i] = l[i]
      /\ m[n+1] = x
  BY LenProperties, SMTT(30)
<1> HIDE DEF m, n
<1>3. \A i \in 1..n+1 : i = n+1 \/ i \in 1..n
  BY <1>1, SMTT(30)
<1>4. \A i \in 1..n : i \in 1..n+1 /\ i # n+1
  BY <1>1, SMTT(30)
<1>5. n+1 \in 1..n+1
  BY <1>1, SMTT(30)
<1>6. Range(m) = Range(l) \cup {x}
  BY <1>1, <1>2, <1>3, <1>4, <1>5 DEF Range
<1>7. ASSUME IsInjective(l), x \notin Range(l) PROVE IsInjective(m)
  BY <1>1, <1>2, <1>3, <1>4, <1>7 DEF IsInjective, Range
<1> QED BY <1>2, <1>6, <1>7 DEF m
------------------------------------------------------------------------------
(* free_process_memory                                                     *)

(* The types of what Free changes, the counters aside.                     *)
LEMMA FreeTypes ==
  ASSUME KernelTypes, NEW S, S \subseteq table,
         NEW st \in [Pid -> process_state \cup {"FREE", "HUSK"}],
         NEW ch \in [Pid -> Seq(Pid \cup {Dangling})],
         Free(S, st, ch)
  PROVE  /\ table' \subseteq Pid
         /\ state' \in [Pid -> process_state \cup {"FREE", "HUSK"}]
         /\ prio' \in [Pid -> Prio]
         /\ wake_time' \in [Pid -> Int]
         /\ parent' \in [Pid -> Pid \cup {NULL, Dangling}]
         /\ children' \in [Pid -> Seq(Pid \cup {Dangling})]
         /\ process_id_list' \subseteq Pid
<1>1. table' \subseteq Pid /\ process_id_list' \subseteq Pid
  BY DEF KernelTypes, Free, SavedPids
<1>2. state' \in [Pid -> process_state \cup {"FREE", "HUSK"}]
  BY DEF Free
<1>3. prio' \in [Pid -> Prio] /\ wake_time' \in [Pid -> Int]
  BY ProcessAssumption, SMTT(30) DEF KernelTypes, Free, MINPRIO
<1>4. parent' \in [Pid -> Pid \cup {NULL, Dangling}]
  BY DEF KernelTypes, Free
<1>5. children' \in [Pid -> Seq(Pid \cup {Dangling})]
  <2>1. children' = [p \in Pid |-> IF p \in S THEN << >> ELSE Staled(ch[p], S)]
    BY DEF Free, Staled
  <2>2. ASSUME NEW p \in Pid
        PROVE  Staled(ch[p], S) \in Seq(Pid \cup {Dangling})
    <3>1. ch[p] \in Seq(Pid \cup {Dangling})
      OBVIOUS
    <3> QED BY <3>1, StaledList
  <2> QED BY <2>1, <2>2, SMTT(30)
<1> QED BY <1>1, <1>2, <1>3, <1>4, <1>5

(* Free leaves nothing of a process of S ...                               *)
LEMMA FreeGone ==
  ASSUME NEW S, NEW st, NEW ch, Free(S, st, ch), NEW p \in Pid, p \in S
  PROVE  state'[p] = "FREE" /\ parent'[p] = NULL /\ children'[p] = << >>
BY DEF Free

(* ... and only the stale links of the others.                             *)
LEMMA FreeKept ==
  ASSUME NEW S, NEW st, NEW ch \in [Pid -> Seq(Pid \cup {Dangling})],
         Free(S, st, ch), NEW p \in Pid, p \notin S
  PROVE  /\ state'[p] = st[p]
         /\ parent'[p] = IF parent[p] \in S THEN Dangling ELSE parent[p]
         /\ \A c \in Range(children'[p]) : c # Dangling => c \in Range(ch[p]) \ S
         /\ Range(ch[p]) \cap S = {} => children'[p] = ch[p]
<1>1. children'[p] = Staled(ch[p], S)
  BY DEF Free, Staled
<1>2. /\ \A x \in Range(Staled(ch[p], S)) : x # Dangling => x \in Range(ch[p]) \ S
      /\ Range(ch[p]) \cap S = {} => Staled(ch[p], S) = ch[p]
  <2>1. ch[p] \in Seq(Pid \cup {Dangling})
    OBVIOUS
  <2> QED BY ONLY <2>1, StaledList, ZenonT(60)
<1>3. /\ state'[p] = st[p]
      /\ parent'[p] = IF parent[p] \in S THEN Dangling ELSE parent[p]
  BY DEF Free
<1> QED BY <1>1, <1>2, <1>3

(* If the tree is consistent but for the processes to be freed, it is      *)
(* consistent once they are freed.                                         *)
LEMMA FreeLinks ==
  ASSUME KernelTypes, NEW S, S \subseteq table,
         NEW st \in [Pid -> process_state \cup {"FREE", "HUSK"}],
         NEW ch \in [Pid -> Seq(Pid \cup {Dangling})],
         LinksWithout(S, st, ch), Free(S, st, ch)
  PROVE  Links'
<1>1. /\ table' = table \ S /\ table \subseteq Pid
      /\ parent \in [Pid -> Pid \cup {NULL, Dangling}]
  BY DEF Free, KernelTypes
<1>2. ASSUME NEW p \in S
      PROVE  state'[p] = "FREE" /\ parent'[p] = NULL /\ children'[p] = << >>
  <2>1. p \in Pid
    BY <1>1
  <2> QED BY <2>1, FreeGone
<1>3. ASSUME NEW p \in Pid \ S
      PROVE  /\ state'[p] = st[p]
             /\ parent'[p] = IF parent[p] \in S THEN Dangling ELSE parent[p]
             /\ \A c \in Range(children'[p]) : c # Dangling =>
                  c \in Range(ch[p]) \ S
             /\ Range(ch[p]) \cap S = {} => children'[p] = ch[p]
  <2>1. p \in Pid /\ p \notin S
    OBVIOUS
  <2> QED BY <2>1, FreeKept
<1> USE DEF LinksWithout
<1>4. \A p \in table \ S : st[p] \notin Ended => children'[p] = ch[p]
  <2> TAKE p \in table \ S
  <2> HAVE st[p] \notin Ended
  <2>1. Range(ch[p]) \cap S = {}
    OBVIOUS
  <2> QED BY <2>1, <1>1, <1>3
<1>5. Range(<< >>) = {}
  BY SMTT(30) DEF Range
<1>6. \A p \in Pid : p \notin table' => parent'[p] = NULL /\ children'[p] = << >>
  <2> TAKE p \in Pid
  <2> HAVE p \notin table'
  <2>1. CASE p \in S
    BY <2>1, <1>2
  <2>2. CASE p \notin S
    <3>1. parent[p] = NULL /\ ch[p] = << >>
      BY <2>2, <1>1
    <3>2. NULL \notin S
      BY <1>1, PidFacts
    <3> QED BY <2>2, <3>1, <3>2, <1>3, <1>5, SMTT(30)
  <2> QED BY <2>1, <2>2
<1>7. \A p \in Pid : /\ parent'[p] # p
                     /\ parent'[p] \in Pid => parent'[p] \in table'
  <2> TAKE p \in Pid
  <2>1. parent'[p] \in Pid => parent[p] \notin S /\ parent'[p] = parent[p]
    BY <1>2, <1>3, PidFacts
  <2> QED BY <2>1, <1>1
<1>8. \A p \in Pid : \A c \in Range(children'[p]) : c # Dangling =>
        c \in table' /\ parent'[c] = p
  <2> SUFFICES ASSUME NEW p \in Pid, NEW c \in Range(children'[p]), c # Dangling
               PROVE  c \in table' /\ parent'[c] = p
    OBVIOUS
  <2>1. p \notin S
    BY <1>2, <1>5
  <2>2. c \in Range(ch[p]) \ S /\ c \in table /\ parent[c] = p
    BY <2>1, <1>3
  <2> QED BY <2>1, <2>2, <1>1, <1>3
<1>9. \A p \in table' : state'[p] \notin Ended =>
        /\ IsInjective(children'[p])
        /\ Range(children'[p]) \subseteq table'
        /\ \A c \in table' : parent'[c] = p => c \in Range(children'[p])
  <2> SUFFICES ASSUME NEW p \in table \ S, st[p] \notin Ended
               PROVE  /\ IsInjective(ch[p])
                      /\ Range(ch[p]) \subseteq table \ S
                      /\ \A c \in table \ S : parent'[c] = p => c \in Range(ch[p])
    BY <1>1, <1>3, <1>4
  <2>1. \A c \in table \ S : parent'[c] = p => parent[c] = p
    BY <1>1, <1>3, PidFacts, SMTT(30)
  <2> QED BY <2>1
<1>10. \A p \in table' : state'[p] = "KILLED" /\ parent'[p] \in Pid =>
         state'[parent'[p]] \in Ended
  <2> SUFFICES ASSUME NEW p \in table \ S, st[p] = "KILLED", parent'[p] \in Pid
               PROVE  state'[parent'[p]] \in Ended
    BY <1>1, <1>3
  <2>1. parent'[p] = parent[p] /\ parent[p] \in Pid \ S
    BY <1>1, <1>3, PidFacts
  <2> QED BY <2>1, <1>3
<1>11. \A p \in table' : state'[p] = "ZOMBIE" =>
         \A c \in Range(children'[p]) \ {Dangling} : state'[c] # "ZOMBIE"
  <2> SUFFICES ASSUME NEW p \in table \ S, st[p] = "ZOMBIE",
                      NEW c \in Range(children'[p]), c # Dangling
               PROVE  state'[c] # "ZOMBIE"
    BY <1>1, <1>3
  <2>1. c \in Range(ch[p]) \ S /\ c \in table
    BY <1>1, <1>3
  <2> QED BY <2>1, <1>1, <1>3
<1>12. LinksWithout({}, state, children)'
  BY <1>6, <1>7, <1>8, <1>9, <1>10, <1>11
<1> QED BY <1>12 DEF Links

(* The pids of freed processes go to the list of free pids.               *)
LEMMA FreePids ==
  ASSUME PidsPartitioned, NEW S, S \subseteq table,
         NEW st, NEW ch, Free(S, st, ch), UNCHANGED pid_iterator
  PROVE  PidsPartitioned'
BY DEF PidsPartitioned, Free, SavedPids

(* A new process takes a pid nobody has.                                   *)
LEMMA EnterPids ==
  ASSUME KernelTypes, PidsPartitioned, table # {},
         NEW p \in NewPid, NEW pr, Enter(p, pr)
  PROVE  /\ p \in Pid /\ p \notin table
         /\ PidsPartitioned'
         /\ pid_iterator' \in Nat
         /\ process_id_list' \subseteq Pid
<1>1. /\ table' = table \cup {p}
      /\ pid_iterator' = IF process_id_list = {} THEN p ELSE pid_iterator
      /\ process_id_list' = process_id_list \ {p}
  BY DEF Enter
<1>2. /\ pid_iterator \in Nat /\ process_id_list \subseteq Pid
      /\ table \subseteq Pid
      /\ idleId \in Nat /\ Pid \subseteq Nat
  BY SchedulerAssumption DEF KernelTypes
<1>3. /\ table \cap process_id_list = {}
      /\ table \cup process_id_list = idleId..pid_iterator
  BY DEF PidsPartitioned
<1>4. idleId <= pid_iterator
  <2>1. PICK x : x \in table
    OBVIOUS
  <2>2. x \in idleId..pid_iterator
    BY <2>1, <1>3
  <2> QED BY <2>2, <1>2, SMTT(30)
<1>5. /\ p \in Pid
      /\ process_id_list # {} => p \in process_id_list
      /\ process_id_list = {} => p = pid_iterator + 1
  BY <1>2 DEF NewPid
<1>6. p \notin table
  <2>1. CASE process_id_list # {}
    BY <2>1, <1>3, <1>5
  <2>2. CASE process_id_list = {}
    BY <2>2, <1>2, <1>3, <1>5, SMTT(30)
  <2> QED BY <2>1, <2>2
<1>7. table' \cup process_id_list' = idleId..pid_iterator'
  <2>1. CASE process_id_list # {}
    BY <2>1, <1>1, <1>3, <1>5
  <2>2. CASE process_id_list = {}
    <3>1. table = idleId..pid_iterator
      BY <2>2, <1>3
    <3>2. idleId..pid_iterator + 1 = (idleId..pid_iterator) \cup {pid_iterator + 1}
      BY <1>2, <1>4, SMTT(30)
    <3> QED BY <2>2, <3>1, <3>2, <1>1, <1>5
  <2> QED BY <2>1, <2>2
<1>8. pid_iterator' \in Nat /\ process_id_list' \subseteq Pid
  BY <1>1, <1>2, <1>5
<1>9. table' \cap process_id_list' = {}
  BY <1>1, <1>3
<1> QED BY <1>5, <1>6, <1>7, <1>8, <1>9 DEF PidsPartitioned
------------------------------------------------------------------------------
(* Steps that free nobody and start nobody                                 *)

(* The tree depends on the states only through who has ended.              *)
LEMMA SameLinks ==
  ASSUME KernelTypes, Links, UNCHANGED <<table, parent, children>>,
         \A p \in Pid : state[p] \in Ended \/ state'[p] \in Ended =>
                          state'[p] = state[p]
  PROVE  Links'
<1>1. table \subseteq Pid
  BY DEF KernelTypes
<1>2. \A p \in Pid : \A c \in Range(children[p]) : c # Dangling => c \in Pid
  BY <1>1 DEF Links, LinksWithout
<1>3. \A p \in Pid : /\ state'[p] \in Ended <=> state[p] \in Ended
                     /\ state'[p] = "ZOMBIE" <=> state[p] = "ZOMBIE"
                     /\ state'[p] = "KILLED" <=> state[p] = "KILLED"
  BY DEF Ended
<1>4. LinksWithout({}, state', children)
  <2>1. \A p \in table \ {} : state'[p] \notin Ended =>
          /\ IsInjective(children[p])
          /\ Range(children[p]) \subseteq table \ {}
          /\ \A c \in table \ {} : parent[c] = p => c \in Range(children[p])
    BY <1>1, <1>3 DEF Links, LinksWithout
  <2>2. \A p \in table \ {} : state'[p] = "KILLED" /\ parent[p] \in Pid \ {} =>
          state'[parent[p]] \in Ended
    BY <1>1, <1>3 DEF Links, LinksWithout
  <2>3. \A p \in table \ {} : state'[p] = "ZOMBIE" =>
          \A c \in Range(children[p]) \ ({} \cup {Dangling}) : state'[c] # "ZOMBIE"
    BY <1>1, <1>2, <1>3 DEF Links, LinksWithout
  <2> QED BY <2>1, <2>2, <2>3 DEF Links, LinksWithout
<1> QED BY <1>4 DEF Links, LinksWithout

(* waitpid depends on the states only through who has ended and who is     *)
(* blocked there.                                                          *)
LEMMA SameWaits ==
  ASSUME KernelTypes, Links, Waits,
         UNCHANGED <<table, children, waiting, resume>>,
         \A p \in Pid : state[p] \in Ended \/ state'[p] \in Ended =>
                          state'[p] = state[p],
         \A p \in Pid : state'[p] = "BLOCKEDWAITCHILD" => state[p] = state'[p],
         kpc' = "waitpid" => resume'[current'] = "waitpid"
  PROVE  Waits'
<1>1. table \subseteq Pid
  BY DEF KernelTypes
<1>2. \A p, c \in Pid : Awaited(p, c)' <=> Awaited(p, c)
  BY DEF Awaited
<1>3. \A p \in Pid : state'[p] \in Ended <=> state[p] \in Ended
  OBVIOUS
<1>4. ASSUME NEW p \in table, state[p] \notin Ended
      PROVE  /\ state'[p] = "BLOCKEDWAITCHILD" => resume'[p] = "waitpid"
             /\ resume'[p] = "waitpid" => \E c \in table : Awaited(p, c)'
             /\ state'[p] = "BLOCKEDWAITCHILD" =>
                  \A c \in table : Awaited(p, c)' => state'[c] \notin Ended
  BY <1>1, <1>2, <1>3, <1>4 DEF Waits
<1> QED BY <1>1, <1>3, <1>4 DEF Waits
(* What the queue operations do to the three queues of the kernel.         *)
LEMMA Outgoing ==
  ASSUME NEW q \in Seq(Pid), q # << >>, IsInjective(q)
  PROVE  /\ queue_top(q) \in Range(q) /\ queue_top(q) \in Pid
         /\ queue_out(q) \in Seq(Pid) /\ IsInjective(queue_out(q))
         /\ Range(queue_out(q)) = Range(q) \ {queue_top(q)}
<1> DEFINE key == [p \in Pid |-> 0]
<1>1. key \in [Pid -> Int]
  BY SMTT(30)
<1> HIDE DEF key
<1>2. /\ queue_top(q) \in Range(q) /\ queue_top(q) \in Pid
      /\ queue_out(q) \in Seq(Pid)
      /\ Range(queue_out(q)) \cup {queue_top(q)} = Range(q)
      /\ IsInjective(queue_out(q)) /\ queue_top(q) \notin Range(queue_out(q))
  BY <1>1, QueueOut
<1> QED BY <1>2

(* queue_add of a process that is not linked yet only adds it.             *)
LEMMA Incoming ==
  ASSUME NEW q \in Seq(Pid), IsInjective(q), NEW key \in [Pid -> Int],
         NEW e \in Pid, e \notin Range(q)
  PROVE  /\ queue_add(q, e, key) \in Seq(Pid)
         /\ IsInjective(queue_add(q, e, key))
         /\ Range(queue_add(q, e, key)) = Range(q) \cup {e}
BY QueueAdd, SMTT(30)

(* One turn of awake_sleeping_process moves a sleeper to the queue of      *)
(* activatable processes.                                                  *)
LEMMA AwakeSleepingInv ==
  ASSUME KernelInv, AwakeSleeping, UNCHANGED treeVars
  PROVE  KernelInv' /\ (Waits => Waits')
<1> DEFINE w == queue_top(asleep)
<1>1. asleep # << >>
  BY DEF AwakeSleeping, SleeperDue, get_next_wake_time, queue_empty
<1>2. /\ asleep \in Seq(Pid) /\ activatable \in Seq(Pid)
      /\ IsInjective(asleep) /\ IsInjective(activatable)
      /\ prio \in [Pid -> Int]
  BY PrioKeys DEF KernelInv, KernelTypes, Queues
<1>3. /\ w \in Range(asleep) /\ w \in Pid
      /\ queue_out(asleep) \in Seq(Pid) /\ IsInjective(queue_out(asleep))
      /\ Range(queue_out(asleep)) = Range(asleep) \ {w}
  BY <1>1, <1>2, Outgoing
<1> HIDE DEF w
<1>4. w \notin Range(activatable)
  BY <1>3 DEF KernelInv, Queues
<1>5. /\ queue_add(activatable, w, prio) \in Seq(Pid)
      /\ Range(queue_add(activatable, w, prio)) = Range(activatable) \cup {w}
      /\ IsInjective(queue_add(activatable, w, prio))
  BY <1>2, <1>3, <1>4, QueueAdd, SMTT(30)
<1>6. /\ asleep' = queue_out(asleep)
      /\ activatable' = queue_add(activatable, w, prio)
      /\ wake_time' = [wake_time EXCEPT ![w] = 0]
      /\ UNCHANGED <<table, current, state, prio, dead, counter, kpc, resume>>
      /\ UNCHANGED <<parent, children, waiting, nb_proc_running, pid_iterator,
                     process_id_list>>
  BY DEF AwakeSleeping, Woken, w, treeVars
<1>7. KernelTypes'
  BY <1>3, <1>5, <1>6, SMTT(30) DEF KernelInv, KernelTypes
<1>8. Queues'
  BY <1>3, <1>5, <1>6 DEF KernelInv, Queues
<1>9. Places' /\ PidsPartitioned'
  BY <1>6 DEF KernelInv, Places, PidsPartitioned
<1>10. Links'
  BY <1>6, SameLinks DEF KernelInv
<1>11. ASSUME Waits PROVE Waits'
  BY <1>6, <1>11, SameWaits DEF KernelInv, Waits
<1> QED BY <1>7, <1>8, <1>9, <1>10, <1>11 DEF KernelInv

(* A step that only moves kpc: a failed assertion stops the machine, a     *)
(* clock interrupt enters scheduler().                                     *)
LEMMA OnlyKpcInv ==
  ASSUME KernelInv, kpc' \in {"scheduler", "halted"},
         UNCHANGED <<table, current, state, prio, wake_time, activatable,
                     asleep, dead, resume, treeVars>>,
         counter' \in 1..MaxClock
  PROVE  KernelInv' /\ (Waits => Waits')
<1>1. UNCHANGED <<parent, children, waiting, nb_proc_running, pid_iterator,
                  process_id_list>>
  BY DEF treeVars
<1>2. KernelTypes' /\ Queues' /\ Places' /\ PidsPartitioned'
  BY <1>1 DEF KernelInv, KernelTypes, Queues, Places, PidsPartitioned
<1>3. Links'
  BY <1>1, SameLinks DEF KernelInv
<1>4. ASSUME Waits PROVE Waits'
  BY <1>1, <1>4, SameWaits DEF KernelInv
<1> QED BY <1>2, <1>3, <1>4 DEF KernelInv
(* The context switch, or the decision to stay: the queue of activatable   *)
(* processes is only empty while idle runs.                                *)
LEMMA DispatchInv ==
  ASSUME KernelInv, Dispatch, UNCHANGED treeVars
  PROVE  KernelInv' /\ (Waits => Waits')
<1> DEFINE top == queue_top(activatable)
           rest == queue_out(activatable)
<1>1. /\ activatable \in Seq(Pid) /\ IsInjective(activatable)
      /\ dead \in Seq(Pid) /\ IsInjective(dead)
      /\ prio \in [Pid -> Int] /\ current \in Pid /\ current \in table
      /\ state \in [Pid -> process_state \cup {"FREE", "HUSK"}]
      /\ table \subseteq Pid
  BY PrioKeys DEF KernelInv, KernelTypes, Queues
<1>2. /\ UNCHANGED <<table, prio, wake_time, asleep, counter, resume>>
      /\ UNCHANGED <<parent, children, waiting, nb_proc_running, pid_iterator,
                     process_id_list>>
      /\ dead = << >>
  BY DEF Dispatch, treeVars, queue_empty
<1>3. PidsPartitioned'
  BY <1>2 DEF KernelInv, PidsPartitioned
<1>4. CASE /\ kpc' = resume[current]
           /\ UNCHANGED <<current, state, activatable, dead>>
           /\ queue_empty(activatable) \/ state[current] = "ACTIF"
  <2>1. state[current] = "ACTIF"
    <3>1. CASE queue_empty(activatable)
      <4>1. Range(activatable) = {}
        BY <3>1, SMTT(30) DEF queue_empty, Range
      <4> QED BY <4>1 DEF KernelInv, Queues
    <3> QED BY <3>1, <1>4
  <2>2. KernelTypes' /\ Queues' /\ Places'
    BY <1>1, <1>2, <1>4, <2>1 DEF KernelInv, KernelTypes, Queues, Places
  <2>3. Links'
    BY <1>2, <1>4, SameLinks DEF KernelInv
  <2>4. ASSUME Waits PROVE Waits'
    BY <1>2, <1>4, <2>4, SameWaits DEF KernelInv
  <2> QED BY <1>3, <2>2, <2>3, <2>4 DEF KernelInv
<1>5. CASE ~queue_empty(activatable) /\ SwitchTo(top, state, rest)
           /\ state[current] # "ACTIF"
           /\ dead' = IF state[current] = "KILLED"
                      THEN queue_add(dead, current, prio) ELSE dead
  <2>1. /\ top \in Range(activatable) /\ top \in Pid
        /\ rest \in Seq(Pid) /\ IsInjective(rest)
        /\ Range(rest) = Range(activatable) \ {top}
    BY <1>1, <1>5, Outgoing DEF queue_empty
  <2> HIDE DEF top, rest
  <2>2. state[top] \in {"ACTIVATABLE", "ASLEEP"} /\ top \in table
    BY <2>1 DEF KernelInv, Queues
  <2>3. /\ current' = top
        /\ state' = [state EXCEPT ![top] = "ACTIF"]
        /\ activatable' = rest
        /\ kpc' = resume[top]
    BY <1>5, <2>2 DEF SwitchTo
  <2>4. /\ dead' \in Seq(Pid) /\ IsInjective(dead')
        /\ Range(dead') = IF state[current] = "KILLED" THEN {current} ELSE {}
    <3>1. Range(dead) = {}
      BY <1>2, SMTT(30) DEF Range
    <3>2. /\ queue_add(dead, current, prio) \in Seq(Pid)
          /\ IsInjective(queue_add(dead, current, prio))
          /\ Range(queue_add(dead, current, prio)) = Range(dead) \cup {current}
      BY <1>1, <3>1, QueueAdd, SMTT(30)
    <3>3. CASE state[current] = "KILLED"
      BY <1>5, <3>1, <3>2, <3>3
    <3>4. CASE state[current] # "KILLED"
      BY <1>1, <1>5, <3>1, <3>4
    <3> QED BY <3>3, <3>4
  <2>5. /\ \A p \in Pid : state'[p] = IF p = top THEN "ACTIF" ELSE state[p]
        /\ state' \in [Pid -> process_state \cup {"FREE", "HUSK"}]
    BY <1>1, <2>1, <2>3 DEF process_state
  <2>6. KernelTypes'
    BY <1>2, <2>1, <2>3, <2>4, <2>5 DEF KernelInv, KernelTypes
  <2>7. Queues'
    <3>1. current # idleId
      BY <1>5 DEF KernelInv, Queues
    <3>2. IF current' = idleId THEN state'[idleId] = "ACTIF"
                               ELSE idleId \in Range(activatable')
      BY <2>1, <2>3, <2>5, <3>1 DEF KernelInv, Queues
    <3>3. /\ IsInjective(activatable') /\ IsInjective(asleep')
          /\ IsInjective(dead')
          /\ Range(activatable') \cap Range(asleep') = {}
          /\ current' \in table' /\ current' \notin Range(dead')
      BY <1>2, <2>1, <2>2, <2>3, <2>4 DEF KernelInv, Queues
    <3>4. ASSUME NEW p \in Pid
          PROVE  /\ state'[p] = "ACTIF" => p = current'
                 /\ state'[p] = "ACTIVATABLE" => p \in Range(activatable')
                 /\ state'[p] = "ASLEEP" => p \in Range(activatable') \cup Range(asleep')
                 /\ state'[p] = "KILLED" => p \in Range(dead') \/ p = current'
                 /\ state'[p] = "FREE" <=> p \notin table'
      <4>1. Range(dead) = {}
        BY <1>2, SMTT(30) DEF Range
      <4>2. CASE p = top
        BY <1>2, <2>2, <2>3, <2>5, <4>2
      <4>3. CASE p # top
        <5>1. state'[p] = state[p]
          BY <2>5, <4>3
        <5> QED BY <1>2, <1>5, <2>1, <2>3, <2>4, <4>1, <4>3, <5>1
                DEF KernelInv, Queues
      <4> QED BY <4>2, <4>3
    <3>5. /\ \A p \in Range(activatable') : state'[p] \in {"ACTIVATABLE", "ASLEEP"}
          /\ \A p \in Range(asleep') : state'[p] = "ASLEEP"
          /\ \A p \in Range(dead') : state'[p] = "KILLED"
      <4>1. \A p \in Range(activatable) \cup Range(asleep) : p \in Pid
        BY QueueElements DEF KernelInv, KernelTypes
      <4>2. top \notin Range(asleep) /\ (state[current] = "KILLED" => current # top)
        BY <2>1, <2>2 DEF KernelInv, Queues
      <4> QED BY <1>1, <1>2, <2>1, <2>3, <2>4, <2>5, <4>1, <4>2, SMTT(30)
              DEF KernelInv, Queues
    <3> QED BY <3>2, <3>3, <3>4, <3>5 DEF Queues
  <2>8. Places'
    BY <1>1, <1>2, <2>1, <2>3, <2>5 DEF KernelInv, Places
  <2>9. \A p \in Pid : /\ state[p] \in Ended \/ state'[p] \in Ended =>
                            state'[p] = state[p]
                       /\ state'[p] = "BLOCKEDWAITCHILD" => state[p] = state'[p]
    BY <2>2, <2>5 DEF Ended
  <2>10. Links'
    BY <1>2, <2>9, SameLinks, ZenonT(60) DEF KernelInv
  <2>11. ASSUME Waits PROVE Waits'
    BY <1>2, <2>3, <2>9, <2>11, SameWaits DEF KernelInv
  <2> QED BY <1>3, <2>6, <2>7, <2>8, <2>10, <2>11 DEF KernelInv
<1>6. CASE /\ ~queue_empty(activatable) /\ state[current] = "ACTIF"
           /\ SwitchTo(top, [state EXCEPT ![current] = "ACTIVATABLE"],
                       queue_add(rest, current, prio))
           /\ UNCHANGED dead
  <2>1. /\ top \in Range(activatable) /\ top \in Pid
        /\ rest \in Seq(Pid) /\ IsInjective(rest)
        /\ Range(rest) = Range(activatable) \ {top}
    BY <1>1, <1>6, Outgoing DEF queue_empty
  <2> HIDE DEF top, rest
  <2>2. state[top] \in {"ACTIVATABLE", "ASLEEP"} /\ top \in table
    BY <2>1 DEF KernelInv, Queues
  <2>3. /\ current \notin Range(activatable) /\ current \notin Range(asleep)
        /\ current \notin Range(rest) /\ current # top
    BY <1>6, <2>1 DEF KernelInv, Queues
  <2>4. /\ queue_add(rest, current, prio) \in Seq(Pid)
        /\ IsInjective(queue_add(rest, current, prio))
        /\ Range(queue_add(rest, current, prio)) = Range(rest) \cup {current}
    BY <1>1, <2>1, <2>3, Incoming
  <2>5. /\ current' = top
        /\ state' = [[state EXCEPT ![current] = "ACTIVATABLE"] EXCEPT ![top] = "ACTIF"]
        /\ activatable' = queue_add(rest, current, prio)
        /\ kpc' = resume[top]
    BY <1>6, <2>2 DEF SwitchTo
  <2>6. /\ \A p \in Pid : state'[p] = IF p = top THEN "ACTIF"
                                      ELSE IF p = current THEN "ACTIVATABLE"
                                      ELSE state[p]
        /\ state' \in [Pid -> process_state \cup {"FREE", "HUSK"}]
    <3> DEFINE st == [state EXCEPT ![current] = "ACTIVATABLE"]
    <3>1. /\ st \in [Pid -> process_state \cup {"FREE", "HUSK"}]
          /\ \A p \in Pid : st[p] = IF p = current THEN "ACTIVATABLE" ELSE state[p]
      BY <1>1 DEF process_state
    <3> HIDE DEF st
    <3>2. state' = [st EXCEPT ![top] = "ACTIF"]
      BY <2>5 DEF st
    <3> QED BY <2>1, <3>1, <3>2 DEF process_state
  <2>7. KernelTypes'
    <3>1. activatable' \in Seq(Pid) /\ current' \in Pid
      BY <2>1, <2>4, <2>5
    <3> QED BY <1>2, <1>6, <2>6, <3>1 DEF KernelInv, KernelTypes
  <2>8. Queues'
    <3>1. /\ IsInjective(activatable') /\ IsInjective(asleep')
          /\ IsInjective(dead')
          /\ Range(activatable') \cap Range(asleep') = {}
          /\ current' \in table' /\ current' \notin Range(dead')
      BY <1>2, <1>6, <2>1, <2>2, <2>3, <2>4, <2>5 DEF KernelInv, Queues
    <3>2. ASSUME NEW p \in Pid
          PROVE  /\ state'[p] = "ACTIF" => p = current'
                 /\ state'[p] = "ACTIVATABLE" => p \in Range(activatable')
                 /\ state'[p] = "ASLEEP" => p \in Range(activatable') \cup Range(asleep')
                 /\ state'[p] = "KILLED" => p \in Range(dead') \/ p = current'
                 /\ state'[p] = "FREE" <=> p \notin table'
      <4>1. CASE p = top \/ p = current
        BY <1>1, <1>2, <2>2, <2>3, <2>4, <2>5, <2>6, <4>1
      <4>2. CASE p # top /\ p # current
        <5>1. state'[p] = state[p]
          BY <2>6, <4>2
        <5> QED BY <1>2, <1>6, <2>1, <2>4, <2>5, <4>2, <5>1
                DEF KernelInv, Queues
      <4> QED BY <4>1, <4>2
    <3>3. /\ \A p \in Range(activatable') : state'[p] \in {"ACTIVATABLE", "ASLEEP"}
          /\ \A p \in Range(asleep') : state'[p] = "ASLEEP"
          /\ \A p \in Range(dead') : state'[p] = "KILLED"
      <4>1. \A p \in Range(activatable) \cup Range(asleep) : p \in Pid
        BY QueueElements DEF KernelInv, KernelTypes
      <4>2. top \notin Range(asleep) /\ Range(dead) = {}
        BY <1>2, <2>1, SMTT(30) DEF KernelInv, Queues, Range
      <4> QED BY <1>1, <1>2, <1>6, <2>1, <2>3, <2>4, <2>5, <2>6, <4>1, <4>2
              DEF KernelInv, Queues
    <3>4. IF current' = idleId THEN state'[idleId] = "ACTIF"
                               ELSE idleId \in Range(activatable')
      BY <1>1, <2>1, <2>4, <2>5, <2>6 DEF KernelInv, Queues
    <3> QED BY <3>1, <3>2, <3>3, <3>4 DEF Queues
  <2>9. Places'
    BY <1>1, <1>2, <2>1, <2>5, <2>6 DEF KernelInv, Places
  <2>10. \A p \in Pid : /\ state[p] \in Ended \/ state'[p] \in Ended =>
                             state'[p] = state[p]
                        /\ state'[p] = "BLOCKEDWAITCHILD" => state[p] = state'[p]
    BY <1>6, <2>2, <2>6 DEF Ended
  <2>11. Links'
    BY <1>2, <2>10, SameLinks, SMTT(30) DEF KernelInv
  <2>12. ASSUME Waits PROVE Waits'
    <3>1. kpc' = "waitpid" => resume'[current'] = "waitpid"
      BY <1>2, <2>5
    <3> QED BY <1>2, <2>10, <2>12, <3>1, SameWaits DEF KernelInv
  <2> QED BY <1>3, <2>7, <2>8, <2>9, <2>11, <2>12 DEF KernelInv
<1> QED BY <1>1, <1>4, <1>5, <1>6 DEF Dispatch
(* The key of the sleep queue is an integer.                               *)
LEMMA WakeKeys ==
  ASSUME NEW t \in Nat
  PROVE  NegatedInt64(t) \in Int
<1>1. 2 * INT64_LIMIT \in Nat \ {0}
  BY SchedulerAssumption, SMTT(30)
<1> DEFINE u == t % (2 * INT64_LIMIT)
<1>2. u \in Int
  BY <1>1, SMTT(30)
<1> HIDE DEF u
<1>3. NegatedInt64(t) = IF u <= INT64_LIMIT THEN -u ELSE 2 * INT64_LIMIT - u
  BY DEF NegatedInt64, u
<1> QED BY <1>1, <1>2, <1>3, SchedulerAssumption, SMTT(30)

(* wait_clock moves the current process to the queue of sleepers.          *)
LEMMA WaitClockInv ==
  ASSUME KernelInv, WaitClock, UNCHANGED treeVars
  PROVE  KernelInv' /\ (Waits => Waits')
<1>1. PICK clock \in Durations : wait_clock(clock)
  BY DEF WaitClock
<1> DEFINE w == [wake_time EXCEPT ![current] = NegatedInt64(counter + clock)]
<1>2. /\ asleep \in Seq(Pid) /\ IsInjective(asleep)
      /\ current \in Pid /\ current # idleId
      /\ state \in [Pid -> process_state \cup {"FREE", "HUSK"}]
      /\ kpc = "user" /\ state[current] = "ACTIF"
  BY <1>1 DEF KernelInv, KernelTypes, Queues, Places, wait_clock
<1>3. w \in [Pid -> Int]
  <2>1. counter + clock \in Nat
    BY SchedulerAssumption, SMTT(30) DEF KernelInv, KernelTypes
  <2>2. NegatedInt64(counter + clock) \in Int
    BY <2>1, WakeKeys
  <2> QED BY <1>2, <2>2 DEF KernelInv, KernelTypes
<1>4. /\ wake_time' = w
      /\ state' = [state EXCEPT ![current] = "ASLEEP"]
      /\ asleep' = queue_add(asleep, current, w)
      /\ kpc' = "scheduler"
      /\ UNCHANGED <<table, current, prio, activatable, dead, counter, resume>>
      /\ UNCHANGED <<parent, children, waiting, nb_proc_running, pid_iterator,
                     process_id_list>>
  BY <1>1 DEF wait_clock, FallenAsleep, treeVars
<1> HIDE DEF w
<1>5. /\ current \notin Range(asleep) /\ current \notin Range(activatable)
      /\ current \notin Range(dead)
  BY <1>2 DEF KernelInv, Queues
<1>6. /\ asleep' \in Seq(Pid) /\ IsInjective(asleep')
      /\ Range(asleep') = Range(asleep) \cup {current}
  BY <1>2, <1>3, <1>4, <1>5, Incoming
<1>7. /\ \A p \in Pid : state'[p] = IF p = current THEN "ASLEEP" ELSE state[p]
      /\ state' \in [Pid -> process_state \cup {"FREE", "HUSK"}]
  BY <1>2, <1>4 DEF process_state
<1>8. KernelTypes'
  BY <1>3, <1>4, <1>6, <1>7 DEF KernelInv, KernelTypes
<1>9. Queues'
  BY <1>2, <1>4, <1>5, <1>6, <1>7, PidFacts, SMTT(30) DEF KernelInv, Queues
<1>10. Places' /\ PidsPartitioned'
  BY <1>4 DEF KernelInv, Places, PidsPartitioned
<1>11. \A p \in Pid : /\ state[p] \in Ended \/ state'[p] \in Ended =>
                           state'[p] = state[p]
                      /\ state'[p] = "BLOCKEDWAITCHILD" => state[p] = state'[p]
  BY <1>2, <1>7 DEF Ended
<1>12. Links'
  BY <1>4, <1>11, SameLinks DEF KernelInv
<1>13. ASSUME Waits PROVE Waits'
  BY <1>4, <1>11, <1>13, SameWaits DEF KernelInv
<1> QED BY <1>8, <1>9, <1>10, <1>12, <1>13 DEF KernelInv

(* chprio takes an activatable process out of the queue and puts it back.  *)
LEMMA ChprioInv ==
  ASSUME KernelInv, NEW p \in Pid, NEW pr \in Prio, chprio(p, pr)
  PROVE  KernelInv' /\ (Waits => Waits')
<1> DEFINE newprio == [prio EXCEPT ![p] = pr]
<1>1. /\ activatable \in Seq(Pid) /\ IsInjective(activatable)
      /\ prio \in [Pid -> Prio] /\ state[current] = "ACTIF"
  BY DEF KernelInv, KernelTypes, Queues, Places, chprio, Calling
<1>2. newprio \in [Pid -> Prio] /\ newprio \in [Pid -> Int]
  <2>1. newprio \in [Pid -> Prio]
    BY <1>1
  <2>2. \A n \in Prio : n \in Int
    BY SchedulerAssumption, SMTT(30)
  <2> HIDE DEF newprio
  <2> QED BY <2>1, <2>2
<1>3. /\ prio' = newprio /\ kpc = "user"
      /\ activatable' = IF state[p] = "ACTIVATABLE"
                        THEN queue_add(queue_del(activatable, p), p, newprio)
                        ELSE activatable
      /\ kpc' \in {"user", "scheduler", "halted"}
      /\ UNCHANGED <<table, current, state, wake_time, asleep, dead, counter,
                     resume>>
      /\ UNCHANGED <<parent, children, waiting, nb_proc_running, pid_iterator,
                     process_id_list>>
  BY DEF chprio, Calling, Requeued, treeVars
<1> HIDE DEF newprio
<1>4. /\ activatable' \in Seq(Pid) /\ IsInjective(activatable')
      /\ Range(activatable') = Range(activatable)
  <2>1. CASE state[p] # "ACTIVATABLE"
    BY <1>1, <1>3, <2>1
  <2>2. CASE state[p] = "ACTIVATABLE"
    <3>1. p \in Range(activatable)
      BY <2>2 DEF KernelInv, Queues
    <3> DEFINE q == queue_del(activatable, p)
    <3>2. q \in Seq(Pid) /\ IsInjective(q) /\ Range(q) = Range(activatable) \ {p}
      BY <1>1, <3>1, QueueDel
    <3>3. activatable' = queue_add(q, p, newprio)
      BY <1>3, <2>2
    <3> HIDE DEF q
    <3>4. p \notin Range(q)
      BY <3>2
    <3>5. /\ queue_add(q, p, newprio) \in Seq(Pid)
          /\ IsInjective(queue_add(q, p, newprio))
          /\ Range(queue_add(q, p, newprio)) = Range(q) \cup {p}
      BY <1>2, <3>2, <3>4, Incoming
    <3> QED BY <3>1, <3>2, <3>3, <3>5
  <2> QED BY <2>1, <2>2
<1>5. /\ KernelTypes'
      /\ Queues'
      /\ Places' /\ PidsPartitioned'
  <2>1. KernelTypes'
    BY <1>2, <1>3, <1>4 DEF KernelInv, KernelTypes
  <2>2. Queues'
    BY <1>3, <1>4 DEF KernelInv, Queues
  <2>3. Places' /\ PidsPartitioned'
    BY <1>1, <1>3 DEF KernelInv, Places, PidsPartitioned
  <2> QED BY <2>1, <2>2, <2>3
<1>6. Links'
  BY <1>3, SameLinks DEF KernelInv
<1>7. ASSUME Waits PROVE Waits'
  BY <1>3, <1>7, SameWaits DEF KernelInv
<1> QED BY <1>5, <1>6, <1>7 DEF KernelInv
------------------------------------------------------------------------------
(* Steps that free processes                                               *)

(* The tree is consistent but for the processes of S if the parents of     *)
(* these are gone too or have ended in the states st.                      *)
LEMMA WithoutOrphans ==
  ASSUME KernelTypes, Links, NEW S, S \subseteq table,
         NEW st \in [Pid -> process_state \cup {"FREE", "HUSK"}],
         \A p \in Pid : state[p] \in Ended => st[p] = state[p],
         \A p \in S : parent[p] \in Pid \ S => st[parent[p]] \in Ended,
         \A p \in table \ S : st[p] = "KILLED" /\ parent[p] \in Pid \ S =>
           st[parent[p]] \in Ended,
         \A p \in table \ S : st[p] = "ZOMBIE" =>
           \A c \in Range(children[p]) \ (S \cup {Dangling}) : st[c] # "ZOMBIE"
  PROVE  LinksWithout(S, st, children)
<1>1. table \subseteq Pid
  BY DEF KernelTypes
<1>2. /\ \A p \in Pid : p \notin table => parent[p] = NULL /\ children[p] = << >>
      /\ \A p \in Pid : parent[p] # p /\ (parent[p] \in Pid => parent[p] \in table)
      /\ \A p \in Pid : \A c \in Range(children[p]) : c # Dangling =>
           c \in table /\ parent[c] = p
      /\ \A p \in table : state[p] \notin Ended =>
           /\ IsInjective(children[p])
           /\ Range(children[p]) \subseteq table
           /\ \A c \in table : parent[c] = p => c \in Range(children[p])
  BY DEF Links, LinksWithout
<1>3. ASSUME NEW p \in table \ S, st[p] \notin Ended
      PROVE  /\ IsInjective(children[p])
             /\ Range(children[p]) \subseteq table \ S
             /\ \A c \in table \ S : parent[c] = p => c \in Range(children[p])
  <2>1. p \in Pid /\ state[p] \notin Ended
    BY <1>1, <1>3
  <2>2. /\ IsInjective(children[p])
        /\ Range(children[p]) \subseteq table
        /\ \A c \in table : parent[c] = p => c \in Range(children[p])
    BY <1>2, <2>1
  <2>3. \A c \in Range(children[p]) : c \notin S
    BY <1>1, <1>2, <1>3, <2>1, <2>2, PidFacts, SMTT(30)
  <2> QED BY <2>2, <2>3
<1> QED BY <1>2, <1>3 DEF LinksWithout

(* Free wakes nobody and takes no awaited child away.                      *)
LEMMA FreeWaits ==
  ASSUME KernelTypes, Waits, NEW S, S \subseteq table,
         NEW st \in [Pid -> process_state \cup {"FREE", "HUSK"}],
         LinksWithout(S, st, children), Free(S, st, children),
         UNCHANGED <<waiting, resume>>,
         kpc' = "waitpid" => resume'[current'] = "waitpid",
         \A p \in Pid : state[p] \in Ended => st[p] = state[p],
         \A p \in table \ S : st[p] = "BLOCKEDWAITCHILD" =>
           /\ state[p] = "BLOCKEDWAITCHILD"
           /\ \A c \in table : Awaited(p, c) => st[c] \notin Ended
  PROVE  Waits'
<1>1. /\ table' = table \ S /\ table \subseteq Pid
      /\ children \in [Pid -> Seq(Pid \cup {Dangling})]
  BY DEF Free, KernelTypes
<1>2. ASSUME NEW p \in table \ S
      PROVE  state'[p] = st[p]
  BY <1>1 DEF Free
<1>3. ASSUME NEW p \in table \ S, st[p] \notin Ended
      PROVE  /\ children'[p] = children[p]
             /\ Range(children[p]) \subseteq table \ S
             /\ state[p] \notin Ended
  <2>1. Range(children[p]) \subseteq table \ S
    BY <1>3 DEF LinksWithout
  <2>2. p \in Pid /\ p \notin S /\ Range(children[p]) \cap S = {}
    BY <1>1, <2>1
  <2>3. Range(children[p]) \cap S = {} => children'[p] = children[p]
    BY <1>1, <2>2, FreeKept
  <2> QED BY <1>3, <2>1, <2>2, <2>3
<1>4. ASSUME NEW p \in table', state'[p] \notin Ended
      PROVE  /\ state'[p] = "BLOCKEDWAITCHILD" => resume'[p] = "waitpid"
             /\ resume'[p] = "waitpid" => \E c \in table' : Awaited(p, c)'
             /\ state'[p] = "BLOCKEDWAITCHILD" =>
                  \A c \in table' : Awaited(p, c)' => state'[c] \notin Ended
  <2>1. p \in table \ S /\ st[p] \notin Ended /\ state'[p] = st[p]
    BY <1>1, <1>2, <1>4
  <2>2. children'[p] = children[p] /\ Range(children[p]) \subseteq table \ S
        /\ state[p] \notin Ended
    BY <1>3, <2>1
  <2>3. \A c : Awaited(p, c)' <=> Awaited(p, c)
    BY <2>2 DEF Awaited
  <2>4. \A c : Awaited(p, c) => c \in table \ S
    BY <2>2 DEF Awaited
  <2> QED BY <1>1, <1>2, <2>1, <2>2, <2>3, <2>4 DEF Waits
<1> QED BY <1>4 DEF Waits
(* free_dead_process frees a killed process, which has no living parent    *)
(* and is not the current process.                                         *)
LEMMA FreeDeadInv ==
  ASSUME KernelInv, FreeDead
  PROVE  KernelInv' /\ (Waits => Waits')
<1> DEFINE d == queue_top(dead)
<1>1. /\ KernelTypes /\ Links /\ PidsPartitioned
      /\ table \subseteq Pid
      /\ dead \in Seq(Pid) /\ IsInjective(dead) /\ dead # << >>
      /\ state \in [Pid -> process_state \cup {"FREE", "HUSK"}]
      /\ children \in [Pid -> Seq(Pid \cup {Dangling})]
  BY DEF KernelInv, KernelTypes, Queues, FreeDead, queue_empty
<1>2. /\ d \in Range(dead) /\ d \in Pid
      /\ queue_out(dead) \in Seq(Pid) /\ IsInjective(queue_out(dead))
      /\ Range(queue_out(dead)) = Range(dead) \ {d}
  BY <1>1, Outgoing
<1>3. /\ dead' = queue_out(dead)
      /\ Free({d}, state, children)
      /\ UNCHANGED <<current, activatable, asleep, counter, kpc, resume,
                     waiting, pid_iterator>>
  BY DEF FreeDead
<1> HIDE DEF d
<1>4. state[d] = "KILLED" /\ d \in table /\ d # current
  BY <1>2 DEF KernelInv, Queues
<1>5. {d} \subseteq table
  BY <1>4
<1>6. LinksWithout({d}, state, children)
  <2>1. /\ \A p \in table : state[p] = "KILLED" /\ parent[p] \in Pid =>
             state[parent[p]] \in Ended
        /\ \A p \in table : state[p] = "ZOMBIE" =>
             \A c \in Range(children[p]) : c # Dangling => state[c] # "ZOMBIE"
    BY <1>1 DEF Links, LinksWithout
  <2>2. \A p \in {d} : parent[p] \in Pid \ {d} => state[parent[p]] \in Ended
    BY <1>4, <2>1
  <2>3. \A p \in table \ {d} : state[p] = "KILLED" /\ parent[p] \in Pid \ {d} =>
          state[parent[p]] \in Ended
    BY <2>1
  <2>4. \A p \in table \ {d} : state[p] = "ZOMBIE" =>
          \A c \in Range(children[p]) \ ({d} \cup {Dangling}) : state[c] # "ZOMBIE"
    BY <2>1
  <2> QED BY <1>1, <1>5, <2>2, <2>3, <2>4, WithoutOrphans
<1>7. Links'
  BY <1>1, <1>3, <1>5, <1>6, FreeLinks
<1>8. PidsPartitioned'
  BY <1>1, <1>3, <1>5, FreePids
<1>9. KernelTypes'
  <2>1. /\ table' \subseteq Pid
        /\ state' \in [Pid -> process_state \cup {"FREE", "HUSK"}]
        /\ prio' \in [Pid -> Prio]
        /\ wake_time' \in [Pid -> Int]
        /\ parent' \in [Pid -> Pid \cup {NULL, Dangling}]
        /\ children' \in [Pid -> Seq(Pid \cup {Dangling})]
        /\ process_id_list' \subseteq Pid
    BY <1>1, <1>3, <1>5, FreeTypes
  <2>2. /\ current' \in Pid /\ activatable' \in Seq(Pid) /\ asleep' \in Seq(Pid)
        /\ dead' \in Seq(Pid) /\ counter' \in 1..MaxClock
        /\ waiting' \in [Pid -> Pid \cup {NULL, AnyChild}] /\ pid_iterator' \in Nat
    BY <1>1, <1>2, <1>3 DEF KernelTypes
  <2> QED BY <1>8, <2>1, <2>2 DEF KernelTypes
<1>10. /\ table' = table \ {d}
       /\ \A p \in Pid : state'[p] = IF p = d THEN "FREE" ELSE state[p]
  BY <1>3 DEF Free
<1>11. Queues'
  <2>1. \A p \in Range(activatable) \cup Range(asleep) \cup Range(dead) : p \in Pid
    BY QueueElements DEF KernelInv, KernelTypes
  <2> QED BY <1>2, <1>3, <1>4, <1>10, <2>1, PidFacts DEF KernelInv, Queues
<1>12. Places'
  BY <1>1, <1>3, <1>4, <1>10 DEF KernelInv, KernelTypes, Places
<1>13. ASSUME Waits PROVE Waits'
  <2>1. \A p \in table \ {d} : state[p] = "BLOCKEDWAITCHILD" =>
          /\ state[p] = "BLOCKEDWAITCHILD"
          /\ \A c \in table : Awaited(p, c) => state[c] \notin Ended
    <3>1. "BLOCKEDWAITCHILD" \notin Ended
      BY DEF Ended
    <3> QED BY <1>13, <3>1 DEF Waits
  <2>2. kpc' = "waitpid" => resume'[current'] = "waitpid"
    BY <1>3, <1>13 DEF Waits
  <2>3. UNCHANGED <<waiting, resume>>
    BY <1>3
  <2> QED BY <1>1, <1>3, <1>5, <1>6, <1>13, <2>1, <2>2, <2>3, FreeWaits
<1> QED BY <1>7, <1>8, <1>9, <1>11, <1>12, <1>13 DEF KernelInv
(* The end of the process p: S is freed with or without p itself, the      *)
(* processes of W (the parent blocked in waitpid, if there is one) become  *)
(* activatable, and p leaves its queue.  The hypotheses are what the       *)
(* branches of turn_current_process_into_a_zombie_or_kill_it have in       *)
(* common.                                                                 *)
LEMMA DeathInv ==
  ASSUME KernelInv, NEW p \in Pid, p \in table, p # idleId,
         state[p] \notin Ended \cup {"BLOCKEDWAITCHILD"},
         NEW S, NEW W,
         NEW st \in [Pid -> process_state \cup {"FREE", "HUSK"}],
         S \in {ZombieChildren(p), ZombieChildren(p) \cup {p}},
         W \subseteq Pid, \A x \in W : state[x] = "BLOCKEDWAITCHILD",
         parent[p] \in Pid /\ state[parent[p]] = "BLOCKEDWAITCHILD" =>
           parent[p] \in W,
         \A x \in Pid \ {p} : st[x] = IF x \in W THEN "ACTIVATABLE" ELSE state[x],
         p \notin S => st[p] \in Ended,
         st[p] = "KILLED" /\ p \notin S => p = current,
         parent[p] \in Pid /\ (p \in S \/ st[p] = "KILLED") =>
           state[parent[p]] = "ZOMBIE",
         parent[p] \in Pid /\ p \notin S /\ st[p] = "ZOMBIE" =>
           state[parent[p]] # "ZOMBIE",
         Free(S, st, children),
         activatable' \in Seq(Pid), IsInjective(activatable'),
         Range(activatable') = (Range(activatable) \ {p}) \cup W,
         asleep' \in Seq(Pid), IsInjective(asleep'),
         Range(asleep') = Range(asleep) \ {p},
         p \in S => p # current,
         p # current => state[current] = "ACTIF",
         kpc' \in {"user", "scheduler"}, kpc' = "user" => p # current,
         UNCHANGED <<current, dead, counter, resume, waiting, pid_iterator>>
  PROVE  KernelInv' /\ (Waits => Waits')
<1> DEFINE Z == ZombieChildren(p)
<1>1. /\ KernelTypes /\ Links /\ PidsPartitioned
      /\ table \subseteq Pid /\ current \in Pid
      /\ state \in [Pid -> process_state \cup {"FREE", "HUSK"}]
      /\ children \in [Pid -> Seq(Pid \cup {Dangling})]
      /\ parent \in [Pid -> Pid \cup {NULL, Dangling}]
  BY DEF KernelInv, KernelTypes
<1>2. /\ \A x \in Pid : parent[x] # x
      /\ \A x \in Pid : \A c \in Range(children[x]) : c # Dangling =>
           c \in table /\ parent[c] = x
      /\ \A x \in table : state[x] = "KILLED" /\ parent[x] \in Pid =>
           state[parent[x]] \in Ended
      /\ \A x \in table : state[x] = "ZOMBIE" =>
           \A c \in Range(children[x]) : c # Dangling => state[c] # "ZOMBIE"
  BY <1>1 DEF Links, LinksWithout
<1>3. \A z \in Z : z \in table /\ z # p /\ parent[z] = p /\ state[z] = "ZOMBIE"
  BY <1>2 DEF ZombieChildren, Ended
<1>4. \A c \in Range(children[p]) : c # Dangling /\ c \notin Z =>
        state[c] # "ZOMBIE"
  BY DEF ZombieChildren
<1> HIDE DEF Z
<1>5. S \in {Z, Z \cup {p}}
  BY DEF Z
<1>6. S \subseteq table
  BY <1>3, <1>5, SMTT(30)
<1>7. \A x \in Pid : state[x] \in Ended => x # p /\ x \notin W /\ st[x] = state[x]
  BY DEF Ended
<1>8. p \notin W /\ S \cap W = {}
  BY <1>3, <1>5, SMTT(30)
<1>9. LinksWithout(S, st, children)
  <2>1. \A x \in S : parent[x] \in Pid \ S => st[parent[x]] \in Ended
    <3> SUFFICES ASSUME NEW x \in S, parent[x] \in Pid \ S
                 PROVE  st[parent[x]] \in Ended
      OBVIOUS
    <3>1. CASE x = p
      BY <3>1, <1>7 DEF Ended
    <3>2. CASE x # p
      BY <3>2, <1>3, <1>5, SMTT(30)
    <3> QED BY <3>1, <3>2
  <2>2. \A x \in table \ S : st[x] = "KILLED" /\ parent[x] \in Pid \ S =>
          st[parent[x]] \in Ended
    <3> SUFFICES ASSUME NEW x \in table \ S, st[x] = "KILLED",
                        parent[x] \in Pid \ S
                 PROVE  st[parent[x]] \in Ended
      OBVIOUS
    <3>1. CASE x = p
      BY <3>1, <1>7 DEF Ended
    <3>2. CASE x # p
      <4>1. state[x] = "KILLED"
        BY <3>2, <1>1
      <4> QED BY <4>1, <1>2, <1>7
    <3> QED BY <3>1, <3>2
  <2>3. \A x \in table \ S : st[x] = "ZOMBIE" =>
          \A c \in Range(children[x]) \ (S \cup {Dangling}) : st[c] # "ZOMBIE"
    <3> SUFFICES ASSUME NEW x \in table \ S, st[x] = "ZOMBIE",
                        NEW c \in Range(children[x]) \ (S \cup {Dangling})
                 PROVE  st[c] # "ZOMBIE"
      OBVIOUS
    <3>1. c \in table /\ c \in Pid /\ x \in Pid /\ parent[c] = x /\ c # x
      BY <1>1, <1>2, SMTT(30)
    <3>2. CASE x = p
      BY <3>1, <3>2, <1>4, <1>5, SMTT(30)
    <3>3. CASE x # p
      <4>1. state[x] = "ZOMBIE"
        BY <3>1, <3>3
      <4>2. CASE c = p
        BY <3>1, <4>1, <4>2
      <4>3. CASE c # p
        BY <3>1, <4>1, <4>3, <1>2, SMTT(30)
      <4> QED BY <4>2, <4>3
    <3> QED BY <3>2, <3>3
  <2>4. \A x \in Pid : state[x] \in Ended => st[x] = state[x]
    BY <1>7
  <2> QED BY <1>1, <1>6, <2>1, <2>2, <2>3, <2>4, WithoutOrphans
<1>10. Links'
  BY <1>1, <1>6, <1>9, FreeLinks
<1>11. PidsPartitioned'
  BY <1>1, <1>6, FreePids
<1>12. KernelTypes'
  <2>1. /\ table' \subseteq Pid
        /\ state' \in [Pid -> process_state \cup {"FREE", "HUSK"}]
        /\ prio' \in [Pid -> Prio]
        /\ wake_time' \in [Pid -> Int]
        /\ parent' \in [Pid -> Pid \cup {NULL, Dangling}]
        /\ children' \in [Pid -> Seq(Pid \cup {Dangling})]
        /\ process_id_list' \subseteq Pid
    BY <1>1, <1>6, FreeTypes
  <2>2. /\ current' \in Pid /\ dead' \in Seq(Pid) /\ counter' \in 1..MaxClock
        /\ waiting' \in [Pid -> Pid \cup {NULL, AnyChild}] /\ pid_iterator' \in Nat
    BY <1>1 DEF KernelTypes
  <2> QED BY <1>11, <2>1, <2>2 DEF KernelTypes
<1>13. /\ table' = table \ S
       /\ \A x \in Pid : state'[x] = IF x \in S THEN "FREE" ELSE st[x]
  BY DEF Free
<1>14. /\ \A x \in Range(activatable) \cup Range(asleep) \cup Range(dead) : x \in Pid
       /\ \A x \in Pid : state[x] = "ZOMBIE" => x \notin Range(activatable)
                            /\ x \notin Range(asleep) /\ x \notin Range(dead)
  BY QueueElements DEF KernelInv, KernelTypes, Queues
<1>15. Queues'
  <2>1. /\ IsInjective(activatable)' /\ IsInjective(asleep)' /\ IsInjective(dead)'
        /\ Range(activatable') \cap Range(asleep') = {}
    <3>1. \A x \in Range(asleep) : state[x] = "ASLEEP"
      BY DEF KernelInv, Queues
    <3>2. W \cap Range(asleep) = {}
      BY <3>1
    <3> QED BY <3>2, SMTT(30) DEF KernelInv, Queues
  <2>2. ASSUME NEW x \in Pid
        PROVE  /\ state'[x] = "ACTIF" => x = current'
               /\ state'[x] = "ACTIVATABLE" => x \in Range(activatable')
               /\ state'[x] = "ASLEEP" => x \in Range(activatable') \cup Range(asleep')
               /\ state'[x] = "KILLED" => x \in Range(dead') \/ x = current'
               /\ state'[x] = "FREE" <=> x \notin table'
    <3>1. CASE x \in S
      BY <3>1, <1>13
    <3>2. CASE x = p /\ x \notin S
      BY <3>2, <1>13 DEF Ended
    <3>3. CASE x # p /\ x \notin S
      <4>1. state'[x] = IF x \in W THEN "ACTIVATABLE" ELSE state[x]
        BY <3>3, <1>13
      <4>2. x \in table' <=> x \in table
        BY <3>3, <1>13
      <4>3. x \in W => state[x] # "FREE"
        OBVIOUS
      <4> QED BY <3>3, <4>1, <4>2, <4>3 DEF KernelInv, Queues
    <3> QED BY <3>1, <3>2, <3>3
  <2>3. \A x \in Range(activatable') : state'[x] \in {"ACTIVATABLE", "ASLEEP"}
    <3> SUFFICES ASSUME NEW x \in Range(activatable')
                 PROVE  state'[x] \in {"ACTIVATABLE", "ASLEEP"}
      OBVIOUS
    <3>1. CASE x \in W
      BY <3>1, <1>8, <1>13
    <3>2. CASE x \in Range(activatable) \ {p} /\ x \notin W
      <4>1. x \in Pid /\ state[x] \in {"ACTIVATABLE", "ASLEEP"} /\ x \notin S
        BY <3>2, <1>3, <1>5, <1>14 DEF KernelInv, Queues
      <4> QED BY <3>2, <4>1, <1>13
    <3> QED BY <3>1, <3>2
  <2>4. \A x \in Range(asleep') : state'[x] = "ASLEEP"
    <3> SUFFICES ASSUME NEW x \in Range(asleep')
                 PROVE  state'[x] = "ASLEEP"
      OBVIOUS
    <3>1. x \in Pid /\ x # p /\ state[x] = "ASLEEP" /\ x \notin S /\ x \notin W
      BY <1>3, <1>5, <1>14 DEF KernelInv, Queues
    <3> QED BY <3>1, <1>13
  <2>5. \A x \in Range(dead') : state'[x] = "KILLED"
    <3> SUFFICES ASSUME NEW x \in Range(dead)
                 PROVE  state'[x] = "KILLED"
      OBVIOUS
    <3>1. x \in Pid /\ state[x] = "KILLED"
      BY <1>14 DEF KernelInv, Queues
    <3>2. x \notin S /\ st[x] = "KILLED"
      BY <3>1, <1>3, <1>5, <1>7 DEF Ended
    <3> QED BY <3>1, <3>2, <1>13
  <2>6. /\ current' \in table' /\ current' \notin Range(dead')
    <3>1. current \notin S
      BY <1>3, <1>5
    <3> QED BY <3>1, <1>13 DEF KernelInv, Queues
  <2>7. IF current' = idleId THEN state'[idleId] = "ACTIF"
                             ELSE idleId \in Range(activatable')
    <3>1. CASE current = idleId
      BY <3>1, <1>3, <1>5, <1>13, PidFacts
    <3>2. CASE current # idleId
      BY <3>2 DEF KernelInv, Queues
    <3> QED BY <3>1, <3>2
  <2> QED BY <2>1, <2>2, <2>3, <2>4, <2>5, <2>6, <2>7 DEF Queues
<1>16. Places'
  <2>1. ASSUME p # current PROVE state'[current] = "ACTIF"
    <3>1. state[current] = "ACTIF" /\ current \notin W
      BY <2>1
    <3>2. current \notin S
      BY <2>1, <3>1, <1>3, <1>5
    <3> QED BY <2>1, <3>1, <3>2, <1>1, <1>13
  <2> QED BY <2>1 DEF KernelInv, Places
<1>17. ASSUME Waits PROVE Waits'
  <2>1. \A x \in table \ S : st[x] = "BLOCKEDWAITCHILD" =>
          /\ state[x] = "BLOCKEDWAITCHILD"
          /\ \A c \in table : Awaited(x, c) => st[c] \notin Ended
    <3> SUFFICES ASSUME NEW x \in table \ S, st[x] = "BLOCKEDWAITCHILD"
                 PROVE  /\ state[x] = "BLOCKEDWAITCHILD"
                        /\ \A c \in table : Awaited(x, c) => st[c] \notin Ended
      OBVIOUS
    <3>1. x \in Pid /\ x # p /\ x \notin W /\ state[x] = "BLOCKEDWAITCHILD"
      BY <1>1 DEF Ended
    <3>2. ASSUME NEW c \in table, Awaited(x, c) PROVE st[c] \notin Ended
      <4>1. state[c] \notin Ended /\ parent[c] = x /\ c \in Pid
        <5>1. c \in Pid /\ c # Dangling /\ c \in Range(children[x])
          BY <1>1, <3>2, PidFacts DEF Awaited
        <5>2. state[x] \notin Ended
          BY <3>1 DEF Ended
        <5>3. state[c] \notin Ended
          BY <1>17, <3>1, <3>2, <5>2 DEF Waits
        <5> QED BY <1>2, <3>1, <5>1, <5>3
      <4>2. c # p
        BY <3>1, <4>1
      <4> QED BY <4>1, <4>2 DEF Ended
    <3> QED BY <3>1, <3>2
  <2>2. kpc' = "waitpid" => resume'[current'] = "waitpid"
    OBVIOUS
  <2>3. /\ UNCHANGED <<waiting, resume>>
        /\ \A x \in Pid : state[x] \in Ended => st[x] = state[x]
    BY <1>7
  <2> QED BY <1>1, <1>6, <1>9, <1>17, <2>1, <2>2, <2>3, FreeWaits
<1> QED BY <1>10, <1>11, <1>12, <1>15, <1>16, <1>17 DEF KernelInv
(* turn_current_process_into_a_zombie_or_kill_it, in each of its branches. *)
LEMMA TerminateInv ==
  ASSUME KernelInv, NEW p \in Pid, p \in table, p # idleId,
         state[p] \notin Ended \cup {"BLOCKEDWAITCHILD"},
         NEW act \in Seq(Pid), IsInjective(act),
         Range(act) = Range(activatable) \ {p},
         NEW slp \in Seq(Pid), IsInjective(slp),
         Range(slp) = Range(asleep) \ {p},
         NEW k \in {"user", "scheduler"}, k = "user" => p # current,
         p # current => state[current] = "ACTIF",
         Terminate(p, state, act, slp, k),
         UNCHANGED <<current, dead, counter, resume>>
  PROVE  KernelInv' /\ (Waits => Waits')
<1> DEFINE Z == ZombieChildren(p)
           parentSt == [state EXCEPT ![p] = "ZOMBIE", ![parent[p]] = "ACTIVATABLE"]
           aloneSt(s) == [state EXCEPT ![p] = IF Unawaited(p, s) THEN "KILLED"
                                                                 ELSE "ZOMBIE"]
           Step(s) ==
             /\ IF Unawaited(p, s) /\ p # current
                THEN Free(Z \cup {p}, state, children) /\ activatable' = act
                ELSE IF s = "BLOCKEDWAITCHILD"
                     THEN /\ Free(Z, parentSt, children)
                          /\ activatable' = queue_add(act, parent[p], prio)
                     ELSE /\ Free(Z, aloneSt(s), children)
                          /\ activatable' = act
             /\ asleep' = slp /\ kpc' = k
             /\ UNCHANGED <<waiting, pid_iterator>>
<1>1. PICK s \in ParentState(p) :
        \/ Halt
        \/ ~(s = "BLOCKEDWAITCHILD" /\ parent[p] = Dangling) /\ Step(s)
  BY DEF Terminate, AfterDeath
<1>2. /\ state \in [Pid -> process_state \cup {"FREE", "HUSK"}]
      /\ parent[p] \in Pid \cup {NULL, Dangling} /\ parent[p] # p
      /\ prio \in [Pid -> Int] /\ p \notin Z
      /\ counter \in 1..MaxClock
  <2>1. parent[p] # p
    BY DEF KernelInv, Links, LinksWithout
  <2>2. p \notin Z
    BY DEF ZombieChildren, Ended
  <2> QED BY <2>1, <2>2, PrioKeys DEF KernelInv, KernelTypes
<1>3. CASE Halt
  <2>1. kpc' = "halted"
        /\ UNCHANGED <<table, state, prio, wake_time, activatable, asleep, treeVars>>
    BY <1>3 DEF Halt
  <2> QED BY <1>2, <2>1, OnlyKpcInv
<1>4. CASE ~(s = "BLOCKEDWAITCHILD" /\ parent[p] = Dangling) /\ Step(s)
  <2>1. /\ parent[p] \in Pid => s = state[parent[p]]
        /\ parent[p] = NULL => s = "FREE"
    BY PidFacts DEF ParentState
  <2>2. s = "BLOCKEDWAITCHILD" => parent[p] \in Pid
    BY <1>2, <1>4, <2>1
  <2>3. parent[p] \in Pid => parent[p] # NULL
    BY PidFacts
  <2>4. /\ asleep' = slp /\ kpc' = k
        /\ UNCHANGED <<current, dead, counter, resume, waiting, pid_iterator>>
        /\ asleep' \in Seq(Pid) /\ IsInjective(asleep')
        /\ Range(asleep') = Range(asleep) \ {p}
        /\ kpc' \in {"user", "scheduler"} /\ (kpc' = "user" => p # current)
    BY <1>4
  <2>5. CASE Unawaited(p, s) /\ p # current
    <3>1. Free(Z \cup {p}, state, children) /\ activatable' = act
      BY <1>4, <2>5
    <3>2. parent[p] \in Pid => state[parent[p]] = "ZOMBIE"
      BY <2>1, <2>3, <2>5 DEF Unawaited
    <3> DEFINE S == Z \cup {p}
               W == {}
    <3>3. S \in {ZombieChildren(p), ZombieChildren(p) \cup {p}} /\ p \in S
      OBVIOUS
    <3>4. /\ W \subseteq Pid /\ \A x \in W : state[x] = "BLOCKEDWAITCHILD"
          /\ parent[p] \in Pid /\ state[parent[p]] = "BLOCKEDWAITCHILD" =>
               parent[p] \in W
          /\ \A x \in Pid \ {p} :
               state[x] = IF x \in W THEN "ACTIVATABLE" ELSE state[x]
          /\ Range(activatable') = (Range(activatable) \ {p}) \cup W
      BY <3>1, <3>2
    <3>5. Free(S, state, children)
      BY <3>1
    <3>6. /\ activatable' \in Seq(Pid) /\ IsInjective(activatable')
          /\ p \notin S => state[p] \in Ended
          /\ state[p] = "KILLED" /\ p \notin S => p = current
          /\ parent[p] \in Pid /\ (p \in S \/ state[p] = "KILLED") =>
               state[parent[p]] = "ZOMBIE"
          /\ parent[p] \in Pid /\ p \notin S /\ state[p] = "ZOMBIE" =>
               state[parent[p]] # "ZOMBIE"
          /\ p \in S => p # current
      BY <2>5, <3>1, <3>2, <3>3
    <3> HIDE DEF S, W, Z
    <3> QED BY <1>2, <2>4, <3>3, <3>4, <3>5, <3>6, DeathInv
  <2>6. CASE ~(Unawaited(p, s) /\ p # current) /\ s = "BLOCKEDWAITCHILD"
    <3>1. Free(Z, parentSt, children)
          /\ activatable' = queue_add(act, parent[p], prio)
      BY <1>4, <2>6
    <3>2. parent[p] \in Pid /\ state[parent[p]] = "BLOCKEDWAITCHILD"
      BY <2>1, <2>2, <2>6
    <3>3. parent[p] \notin Range(act)
      BY <3>2 DEF KernelInv, Queues
    <3>4. /\ activatable' \in Seq(Pid) /\ IsInjective(activatable')
          /\ Range(activatable') = Range(act) \cup {parent[p]}
      <4>1. prio \in [Pid -> Int] /\ parent[p] \in Pid
        BY <1>2, <3>2
      <4>2. /\ queue_add(act, parent[p], prio) \in Seq(Pid)
            /\ IsInjective(queue_add(act, parent[p], prio))
            /\ Range(queue_add(act, parent[p], prio)) = Range(act) \cup {parent[p]}
        BY <4>1, <3>3, Incoming
      <4> QED BY <3>1, <4>2
    <3> DEFINE W == {parent[p]}
    <3>5. /\ parentSt \in [Pid -> process_state \cup {"FREE", "HUSK"}]
          /\ parentSt[p] = "ZOMBIE"
          /\ \A x \in Pid \ {p} :
               parentSt[x] = IF x \in W THEN "ACTIVATABLE" ELSE state[x]
      <4> DEFINE mid == [state EXCEPT ![p] = "ZOMBIE"]
      <4>1. /\ mid \in [Pid -> process_state \cup {"FREE", "HUSK"}]
            /\ mid[p] = "ZOMBIE" /\ \A x \in Pid \ {p} : mid[x] = state[x]
        BY <1>2 DEF process_state
      <4>2. parentSt = [mid EXCEPT ![parent[p]] = "ACTIVATABLE"]
        OBVIOUS
      <4> HIDE DEF mid, parentSt
      <4> QED BY <4>1, <4>2, <1>2, <3>2 DEF process_state
    <3>6. /\ W \subseteq Pid /\ \A x \in W : state[x] = "BLOCKEDWAITCHILD"
          /\ parent[p] \in Pid /\ state[parent[p]] = "BLOCKEDWAITCHILD" =>
               parent[p] \in W
          /\ Range(activatable') = (Range(activatable) \ {p}) \cup W
      BY <3>2, <3>4
    <3>7. Z \in {ZombieChildren(p), ZombieChildren(p) \cup {p}}
      OBVIOUS
    <3>8. /\ Free(Z, parentSt, children)
          /\ p \notin Z => parentSt[p] \in Ended
          /\ parentSt[p] = "KILLED" /\ p \notin Z => p = current
          /\ parent[p] \in Pid /\ (p \in Z \/ parentSt[p] = "KILLED") =>
               state[parent[p]] = "ZOMBIE"
          /\ parent[p] \in Pid /\ p \notin Z /\ parentSt[p] = "ZOMBIE" =>
               state[parent[p]] # "ZOMBIE"
          /\ p \in Z => p # current
      BY <1>2, <3>1, <3>2, <3>5, ZenonT(60) DEF Ended
    <3> HIDE DEF W, Z, parentSt
    <3> QED BY <1>2, <2>4, <3>4, <3>5, <3>6, <3>7, <3>8, DeathInv
  <2>7. CASE ~(Unawaited(p, s) /\ p # current) /\ s # "BLOCKEDWAITCHILD"
    <3> DEFINE st == aloneSt(s)
               W == {}
    <3>1. Free(Z, st, children) /\ activatable' = act
      BY <1>4, <2>7
    <3>2. /\ st \in [Pid -> process_state \cup {"FREE", "HUSK"}]
          /\ st[p] = IF Unawaited(p, s) THEN "KILLED" ELSE "ZOMBIE"
          /\ \A x \in Pid \ {p} : st[x] = IF x \in W THEN "ACTIVATABLE" ELSE state[x]
      BY <1>2 DEF process_state
    <3>3. /\ W \subseteq Pid /\ \A x \in W : state[x] = "BLOCKEDWAITCHILD"
          /\ parent[p] \in Pid /\ state[parent[p]] = "BLOCKEDWAITCHILD" =>
               parent[p] \in W
          /\ Range(activatable') = (Range(activatable) \ {p}) \cup W
      BY <2>1, <2>7, <3>1, ZenonT(60)
    <3>4. /\ st[p] \in Ended
          /\ st[p] = "KILLED" => p = current
          /\ parent[p] \in Pid /\ st[p] = "KILLED" => state[parent[p]] = "ZOMBIE"
          /\ parent[p] \in Pid /\ st[p] = "ZOMBIE" => state[parent[p]] # "ZOMBIE"
      BY <2>1, <2>3, <2>7, <3>2 DEF Unawaited, Ended
    <3>5. Z \in {ZombieChildren(p), ZombieChildren(p) \cup {p}}
      OBVIOUS
    <3>6. /\ Free(Z, st, children)
          /\ activatable' \in Seq(Pid) /\ IsInjective(activatable')
          /\ p \notin Z => st[p] \in Ended
          /\ st[p] = "KILLED" /\ p \notin Z => p = current
          /\ parent[p] \in Pid /\ (p \in Z \/ st[p] = "KILLED") =>
               state[parent[p]] = "ZOMBIE"
          /\ parent[p] \in Pid /\ p \notin Z /\ st[p] = "ZOMBIE" =>
               state[parent[p]] # "ZOMBIE"
          /\ p \in Z => p # current
      BY <1>2, <3>1, <3>4, ZenonT(60)
    <3> HIDE DEF W, Z, st
    <3> QED BY <1>2, <2>4, <3>2, <3>3, <3>5, <3>6, DeathInv
  <2> QED BY <2>5, <2>6, <2>7
<1> QED BY <1>1, <1>3, <1>4
(* exit_process: the current process is in no queue.                       *)
LEMMA ExitInv ==
  ASSUME KernelInv, exit_process
  PROVE  KernelInv' /\ (Waits => Waits')
<1>1. /\ kpc = "user" /\ current # idleId
      /\ Terminate(current, state, activatable, asleep, "scheduler")
      /\ UNCHANGED <<current, dead, counter, resume>>
  BY DEF exit_process, Calling
<1>2. /\ current \in Pid /\ current \in table /\ state[current] = "ACTIF"
      /\ activatable \in Seq(Pid) /\ IsInjective(activatable)
      /\ asleep \in Seq(Pid) /\ IsInjective(asleep)
  BY <1>1 DEF KernelInv, KernelTypes, Queues, Places
<1>3. /\ Range(activatable) = Range(activatable) \ {current}
      /\ Range(asleep) = Range(asleep) \ {current}
  <2>1. current \notin Range(activatable) /\ current \notin Range(asleep)
    BY <1>2 DEF KernelInv, Queues
  <2> QED BY <2>1
<1>4. state[current] \notin Ended \cup {"BLOCKEDWAITCHILD"}
  BY <1>2 DEF Ended
<1>5. /\ "scheduler" \in {"user", "scheduler"}
      /\ "scheduler" = "user" => current # current
      /\ current # current => state[current] = "ACTIF"
  OBVIOUS
<1> QED BY <1>1, <1>2, <1>3, <1>4, <1>5, TerminateInv

(* kill: the victim leaves the queue it is in; a victim in no queue halts  *)
(* the kernel.                                                             *)
LEMMA KillInv ==
  ASSUME KernelInv, NEW p \in Pid, kill(p)
  PROVE  KernelInv' /\ (Waits => Waits')
<1>1. /\ kpc = "user" /\ p \in table /\ p # idleId /\ p # current
      /\ UNCHANGED <<current, dead, counter, resume>>
  BY DEF kill, Calling, Protected, Valid
<1>2. /\ state[current] = "ACTIF"
      /\ activatable \in Seq(Pid) /\ IsInjective(activatable)
      /\ asleep \in Seq(Pid) /\ IsInjective(asleep)
      /\ Range(activatable) \cap Range(asleep) = {}
      /\ counter \in 1..MaxClock
  BY <1>1 DEF KernelInv, KernelTypes, Queues, Places
<1>3. /\ "user" \in {"user", "scheduler"}
      /\ "user" = "user" => p # current
      /\ p # current => state[current] = "ACTIF"
  BY <1>1, <1>2
<1>4. CASE p \in Range(activatable)
  <2>1. Terminate(p, state, queue_del(activatable, p), asleep, "user")
    BY <1>2, <1>4 DEF kill, Linked, LeftReady
  <2>2. /\ queue_del(activatable, p) \in Seq(Pid)
        /\ Range(queue_del(activatable, p)) = Range(activatable) \ {p}
        /\ IsInjective(queue_del(activatable, p))
    BY <1>2, <1>4, QueueDel
  <2>3. Range(asleep) = Range(asleep) \ {p}
    BY <1>2, <1>4
  <2>4. state[p] \notin Ended \cup {"BLOCKEDWAITCHILD"}
    BY <1>4 DEF Ended, KernelInv, Queues
  <2> QED BY <1>1, <1>2, <1>3, <2>1, <2>2, <2>3, <2>4, TerminateInv
<1>5. CASE p \in Range(asleep)
  <2>1. Terminate(p, state, activatable, queue_del(asleep, p), "user")
    BY <1>2, <1>5 DEF kill, Linked
  <2>2. /\ queue_del(asleep, p) \in Seq(Pid)
        /\ Range(queue_del(asleep, p)) = Range(asleep) \ {p}
        /\ IsInjective(queue_del(asleep, p))
    BY <1>2, <1>5, QueueDel
  <2>3. Range(activatable) = Range(activatable) \ {p}
    BY <1>2, <1>5
  <2>4. state[p] \notin Ended \cup {"BLOCKEDWAITCHILD"}
    BY <1>5 DEF Ended, KernelInv, Queues
  <2> QED BY <1>1, <1>2, <1>3, <2>1, <2>2, <2>3, <2>4, TerminateInv
<1>6. CASE p \notin Range(activatable) /\ p \notin Range(asleep)
  <2>1. Halt
    BY <1>6 DEF kill, Linked
  <2>2. /\ kpc' = "halted"
        /\ UNCHANGED <<table, state, prio, wake_time, activatable, asleep, treeVars>>
    BY <2>1 DEF Halt
  <2> QED BY <1>1, <1>2, <2>2, OnlyKpcInv
<1> QED BY <1>4, <1>5, <1>6
(* waitpid takes a zombie: it leaves the list of its parent and is freed.  *)
LEMMA ReapInv ==
  ASSUME KernelInv, state[current] = "ACTIF",
         NEW z \in Range(children[current]), state[z] = "ZOMBIE", Reap(z)
  PROVE  KernelInv' /\ (Waits => Waits')
<1> DEFINE ch == Unlinked(z)
<1>1. /\ KernelTypes /\ Links /\ PidsPartitioned
      /\ table \subseteq Pid /\ current \in table /\ current \in Pid
      /\ state \in [Pid -> process_state \cup {"FREE", "HUSK"}]
      /\ children \in [Pid -> Seq(Pid \cup {Dangling})]
  BY DEF KernelInv, KernelTypes, Queues
<1>2. "ACTIF" \notin Ended
  BY DEF Ended
<1>3. /\ IsInjective(children[current]) /\ Range(children[current]) \subseteq table
      /\ \A c \in table : parent[c] = current => c \in Range(children[current])
  BY <1>1, <1>2 DEF Links, LinksWithout
<1>4. z \in table /\ z \in Pid /\ z # Dangling /\ z # current
  BY <1>1, <1>3, PidFacts
<1>5. parent[z] = current
  BY <1>1, <1>4 DEF Links, LinksWithout
<1>6. /\ ch \in [Pid -> Seq(Pid \cup {Dangling})]
      /\ IsInjective(ch[current]) /\ Range(ch[current]) = Range(children[current]) \ {z}
      /\ \A p \in Pid \ {current} : ch[p] = children[p]
  <2> DEFINE r == queue_del(children[current], z)
  <2>1. children[current] \in Seq(Pid \cup {Dangling})
    BY <1>1
  <2>2. /\ r \in Seq(Pid \cup {Dangling})
        /\ Range(r) = Range(children[current]) \ {z} /\ IsInjective(r)
    BY <1>3, <2>1, QueueDel, SMTT(30)
  <2>3. ch = [children EXCEPT ![current] = r]
    BY DEF Unlinked
  <2> HIDE DEF r, ch
  <2> QED BY <1>1, <2>2, <2>3
<1>7. /\ Free({z}, state, ch)
      /\ waiting' = [waiting EXCEPT ![current] = NULL]
      /\ resume' = [resume EXCEPT ![current] = "user"]
      /\ kpc' = "user"
      /\ UNCHANGED <<current, activatable, asleep, dead, counter, pid_iterator>>
  BY DEF Reap
<1> HIDE DEF ch
<1>8. {z} \subseteq table
  BY <1>4
<1>9. LinksWithout({z}, state, ch)
  <2>1. \A p \in Pid : p \notin table => parent[p] = NULL /\ ch[p] = << >>
    BY <1>1, <1>6 DEF Links, LinksWithout
  <2>2. \A p \in Pid : parent[p] # p /\ (parent[p] \in Pid => parent[p] \in table)
    BY <1>1 DEF Links, LinksWithout
  <2>3. \A p \in Pid : Range(ch[p]) \subseteq Range(children[p])
    BY <1>6
  <2>4. \A p \in Pid : \A c \in Range(ch[p]) : c # Dangling =>
          c \in table /\ parent[c] = p
    BY <1>1, <2>3 DEF Links, LinksWithout
  <2>5. ASSUME NEW p \in table \ {z}, state[p] \notin Ended
        PROVE  /\ IsInjective(ch[p])
               /\ Range(ch[p]) \subseteq table \ {z}
               /\ \A c \in table \ {z} : parent[c] = p => c \in Range(ch[p])
    <3>1. CASE p = current
      BY <3>1, <1>3, <1>6
    <3>2. CASE p # current
      <4>1. p \in Pid /\ ch[p] = children[p]
        BY <3>2, <1>1, <1>6
      <4>2. /\ IsInjective(children[p]) /\ Range(children[p]) \subseteq table
            /\ \A c \in table : parent[c] = p => c \in Range(children[p])
        BY <1>1, <2>5 DEF Links, LinksWithout
      <4>3. z \notin Range(ch[p])
        BY <3>2, <4>1, <2>4, <1>4, <1>5
      <4> QED BY <4>1, <4>2, <4>3
    <3> QED BY <3>1, <3>2
  <2>6. \A p \in table \ {z} : state[p] = "KILLED" /\ parent[p] \in Pid \ {z} =>
          state[parent[p]] \in Ended
    BY <1>1 DEF Links, LinksWithout
  <2>7. \A p \in table \ {z} : state[p] = "ZOMBIE" =>
          \A c \in Range(ch[p]) \ ({z} \cup {Dangling}) : state[c] # "ZOMBIE"
    BY <1>1, <2>3 DEF Links, LinksWithout
  <2> QED BY <2>1, <2>2, <2>4, <2>5, <2>6, <2>7, ZenonT(60) DEF LinksWithout
<1>10. Links'
  BY <1>1, <1>6, <1>7, <1>8, <1>9, FreeLinks
<1>11. PidsPartitioned'
  BY <1>1, <1>7, <1>8, FreePids
<1>12. KernelTypes'
  <2>1. /\ table' \subseteq Pid
        /\ state' \in [Pid -> process_state \cup {"FREE", "HUSK"}]
        /\ prio' \in [Pid -> Prio]
        /\ wake_time' \in [Pid -> Int]
        /\ parent' \in [Pid -> Pid \cup {NULL, Dangling}]
        /\ children' \in [Pid -> Seq(Pid \cup {Dangling})]
        /\ process_id_list' \subseteq Pid
    BY <1>1, <1>6, <1>7, <1>8, FreeTypes
  <2>2. /\ current' \in Pid /\ activatable' \in Seq(Pid) /\ asleep' \in Seq(Pid)
        /\ dead' \in Seq(Pid) /\ counter' \in 1..MaxClock
        /\ waiting' \in [Pid -> Pid \cup {NULL, AnyChild}] /\ pid_iterator' \in Nat
    BY <1>1, <1>7 DEF KernelTypes
  <2> QED BY <1>11, <2>1, <2>2 DEF KernelTypes
<1>13. /\ table' = table \ {z}
       /\ \A p \in Pid : state'[p] = IF p = z THEN "FREE" ELSE state[p]
  BY <1>7 DEF Free
<1>14. Queues'
  <2>1. \A p \in Range(activatable) \cup Range(asleep) \cup Range(dead) : p \in Pid
    BY QueueElements DEF KernelInv, KernelTypes
  <2>2. z \notin Range(activatable) /\ z \notin Range(asleep) /\ z \notin Range(dead)
    BY <1>4 DEF KernelInv, Queues
  <2> QED BY <1>4, <1>7, <1>13, <2>1, <2>2, PidFacts, ZenonT(60) DEF KernelInv, Queues
<1>15. Places'
  <2>1. state'[current] = "ACTIF"
    BY <1>1, <1>4, <1>13
  <2>2. \A p \in Pid : resume'[p] \notin {"scheduler", "halted"}
    BY <1>7 DEF KernelInv, Places
  <2> QED BY <1>7, <2>1, <2>2, ZenonT(60) DEF KernelInv, Places
<1>16. ASSUME Waits PROVE Waits'
  <2> SUFFICES ASSUME NEW p \in table', state'[p] \notin Ended
               PROVE  /\ state'[p] = "BLOCKEDWAITCHILD" => resume'[p] = "waitpid"
                      /\ resume'[p] = "waitpid" => \E c \in table' : Awaited(p, c)'
                      /\ state'[p] = "BLOCKEDWAITCHILD" =>
                           \A c \in table' : Awaited(p, c)' => state'[c] \notin Ended
    BY <1>7, <1>16, SMTT(30) DEF Waits
  <2>1. p \in table /\ p # z /\ p \in Pid /\ state'[p] = state[p]
    BY <1>1, <1>13
  <2>2. CASE p = current
    <3>1. resume'[p] # "waitpid"
      BY <2>1, <2>2, <1>7 DEF KernelInv, Places
    <3> QED BY <2>1, <2>2, <3>1
  <2>3. CASE p # current
    <3>1. Range(ch[p]) \subseteq table \ {z} /\ ch[p] = children[p]
      BY <2>1, <2>3, <1>6, <1>9, ZenonT(60) DEF LinksWithout
    <3>2. children'[p] = children[p]
      <4>1. p \notin {z} /\ Range(ch[p]) \cap {z} = {}
        BY <2>1, <3>1
      <4> QED BY <1>6, <1>7, <2>1, <3>1, <4>1, FreeKept, ZenonT(60)
    <3>3. waiting'[p] = waiting[p] /\ resume'[p] = resume[p]
      <4>1. waiting' = [waiting EXCEPT ![current] = NULL]
            /\ resume' = [resume EXCEPT ![current] = "user"]
        BY <1>7
      <4> QED BY <1>1, <2>1, <2>3, <4>1, SMTT(30) DEF KernelTypes
    <3>4. \A c : Awaited(p, c)' <=> Awaited(p, c)
      BY <3>2, <3>3 DEF Awaited
    <3>5. \A c : Awaited(p, c) => c \in table' /\ c \in Pid /\ c # z
      BY <1>1, <1>13, <3>1 DEF Awaited
    <3>6. /\ state[p] = "BLOCKEDWAITCHILD" => resume[p] = "waitpid"
          /\ resume[p] = "waitpid" => \E c \in table : Awaited(p, c)
          /\ state[p] = "BLOCKEDWAITCHILD" =>
               \A c \in table : Awaited(p, c) => state[c] \notin Ended
      BY <1>16, <2>1 DEF Waits
    <3> QED BY <1>13, <2>1, <3>3, <3>4, <3>5, <3>6
  <2> QED BY <2>2, <2>3
<1> QED BY <1>10, <1>11, <1>12, <1>14, <1>15, <1>16 DEF KernelInv

(* waitpid finds no zombie and blocks: the child it waits for has not      *)
(* ended, because a killed process is never the child of a living one.     *)
LEMMA BlockOnChildInv ==
  ASSUME KernelInv, state[current] = "ACTIF", current # idleId,
         NEW a \in Pid \cup {AnyChild}, BlockOnChild(a)
  PROVE  /\ KernelInv'
         /\ /\ Waits
            /\ \E c \in Range(children[current]) : a \in {AnyChild, c}
            /\ \A c \in Range(children[current]) :
                 a \in {AnyChild, c} => state[c] # "ZOMBIE"
            => Waits'
<1>1. /\ KernelTypes /\ Links /\ PidsPartitioned
      /\ table \subseteq Pid /\ current \in table /\ current \in Pid
      /\ state \in [Pid -> process_state \cup {"FREE", "HUSK"}]
      /\ waiting \in [Pid -> Pid \cup {NULL, AnyChild}]
      /\ DOMAIN resume = Pid
  BY DEF KernelInv, KernelTypes, Queues, Places
<1>2. /\ state' = [state EXCEPT ![current] = "BLOCKEDWAITCHILD"]
      /\ waiting' = [waiting EXCEPT ![current] = a]
      /\ resume' = [resume EXCEPT ![current] = "waitpid"]
      /\ kpc' = "scheduler"
      /\ UNCHANGED <<table, current, prio, wake_time, activatable, asleep, dead,
                     counter, parent, children, nb_proc_running, pid_iterator,
                     process_id_list>>
  BY DEF BlockOnChild
<1>3. /\ state' \in [Pid -> process_state \cup {"FREE", "HUSK"}]
      /\ waiting' \in [Pid -> Pid \cup {NULL, AnyChild}]
  BY <1>1, <1>2 DEF process_state
<1>4. KernelTypes' /\ PidsPartitioned'
  BY <1>1, <1>2, <1>3 DEF KernelTypes, PidsPartitioned
<1>5. /\ state'[current] = "BLOCKEDWAITCHILD"
      /\ \A p \in Pid \ {current} : state'[p] = state[p]
  BY <1>1, <1>2
<1>6. Links'
  <2>1. \A p \in Pid : state[p] \in Ended \/ state'[p] \in Ended =>
                         state'[p] = state[p]
    BY <1>5 DEF Ended
  <2> QED BY <1>1, <1>2, <2>1, SameLinks
<1>7. Queues'
  <2>1. \A p \in Range(activatable) \cup Range(asleep) \cup Range(dead) : p \in Pid
    BY QueueElements DEF KernelInv, KernelTypes
  <2>2. /\ current \notin Range(activatable) /\ current \notin Range(asleep)
        /\ current \notin Range(dead)
    BY DEF KernelInv, Queues
  <2> QED BY <1>1, <1>2, <1>5, <2>1, <2>2, PidFacts DEF KernelInv, Queues
<1>8. Places'
  BY <1>1, <1>2 DEF KernelInv, Places
<1>9. ASSUME Waits,
             \E c \in Range(children[current]) : a \in {AnyChild, c},
             \A c \in Range(children[current]) :
               a \in {AnyChild, c} => state[c] # "ZOMBIE"
      PROVE  Waits'
  <2> SUFFICES ASSUME NEW p \in table, state'[p] \notin Ended
               PROVE  /\ state'[p] = "BLOCKEDWAITCHILD" => resume'[p] = "waitpid"
                      /\ resume'[p] = "waitpid" => \E c \in table : Awaited(p, c)'
                      /\ state'[p] = "BLOCKEDWAITCHILD" =>
                           \A c \in table : Awaited(p, c)' => state'[c] \notin Ended
    BY <1>2, <1>9, SMTT(30) DEF Waits
  <2>1. CASE p = current
    <3>1. /\ resume'[p] = "waitpid" /\ waiting'[p] = a /\ children' = children
      BY <1>1, <1>2, <2>1
    <3>2. "ACTIF" \notin Ended
      BY DEF Ended
    <3>3. Range(children[current]) \subseteq table
      BY <1>1, <3>2, SMTT(30) DEF Links, LinksWithout
    <3>4. \E c \in table : Awaited(p, c)'
      BY <1>9, <2>1, <3>1, <3>3 DEF Awaited
    <3>5. ASSUME NEW c \in table, Awaited(p, c)' PROVE state'[c] \notin Ended
      <4>1. c \in Range(children[current]) /\ a \in {AnyChild, c}
        BY <2>1, <3>1, <3>5 DEF Awaited
      <4>2. parent[c] = current /\ c # Dangling /\ c # current
        BY <1>1, <4>1, PidFacts, SMTT(30) DEF Links, LinksWithout
      <4>3. state[c] # "KILLED"
        BY <1>1, <3>2, <4>2, SMTT(30) DEF Links, LinksWithout
      <4> QED BY <1>1, <1>5, <1>9, <4>1, <4>2, <4>3 DEF Ended
    <3> QED BY <3>1, <3>4, <3>5
  <2>2. CASE p # current
    <3>1. /\ p \in Pid /\ state'[p] = state[p] /\ resume'[p] = resume[p]
          /\ waiting'[p] = waiting[p] /\ children' = children
      BY <1>1, <1>2, <1>5, <2>2
    <3>2. \A c : Awaited(p, c)' <=> Awaited(p, c)
      BY <3>1 DEF Awaited
    <3>3. \A c \in table : state[c] \notin Ended => state'[c] \notin Ended
      BY <1>1, <1>5 DEF Ended
    <3> QED BY <1>9, <3>1, <3>2, <3>3 DEF Waits
  <2> QED BY <2>1, <2>2
<1> QED BY <1>4, <1>6, <1>7, <1>8, <1>9 DEF KernelInv

(* A turn of the loop of waitpid takes a zombie child, or blocks because   *)
(* no child it waits for is one.                                           *)
LEMMA WaitpidChoice ==
  ASSUME KernelInv, NEW a, WaitpidTurn(a)
  PROVE  \/ /\ BlockOnChild(a)
            /\ \A c \in Range(children[current]) : a \in {AnyChild, c} =>
                 state[c] # "ZOMBIE"
         \/ \E z \in Range(children[current]) : state[z] = "ZOMBIE" /\ Reap(z)
<1> DEFINE ch == children[current]
           done == {i \in DOMAIN ch : state[ch[i]] = "ZOMBIE" /\ a \in {AnyChild, ch[i]}}
<1>1. IF done = {} THEN BlockOnChild(a) ELSE Reap(ch[Min(done)])
  BY DEF WaitpidTurn
<1>2. DOMAIN ch \subseteq Nat
  <2>1. ch \in Seq(Pid \cup {Dangling})
    BY DEF KernelInv, KernelTypes
  <2> HIDE DEF ch
  <2> QED BY <2>1, LenProperties, SMTT(30)
<1>3. CASE done = {}
  BY <1>1, <1>3 DEF Range
<1>4. CASE done # {}
  <2> DEFINE m == Min(done)
  <2>1. done \in SUBSET Nat
    BY <1>2
  <2>2. m \in done
    <3> HIDE DEF done
    <3>1. \E x \in done : \A y \in done : x <= y
      BY <1>4, <2>1, LeastNat
    <3> QED BY <3>1 DEF Min
  <2>3. Reap(ch[m])
    BY <1>1, <1>4
  <2> HIDE DEF m
  <2>4. ch[m] \in Range(children[current]) /\ state[ch[m]] = "ZOMBIE"
    BY <2>2 DEF Range
  <2> QED BY <2>3, <2>4
<1> QED BY <1>3, <1>4

(* One turn of the loop of waitpid, with a child to wait for.              *)
LEMMA WaitpidTurnInv ==
  ASSUME KernelInv, state[current] = "ACTIF", current # idleId,
         NEW a \in Pid \cup {AnyChild}, WaitpidTurn(a),
         \E c \in Range(children[current]) : a \in {AnyChild, c}
  PROVE  KernelInv' /\ (Waits => Waits')
<1>1. CASE /\ BlockOnChild(a)
           /\ \A c \in Range(children[current]) : a \in {AnyChild, c} =>
                state[c] # "ZOMBIE"
  BY <1>1, BlockOnChildInv
<1>2. ASSUME NEW z \in Range(children[current]), state[z] = "ZOMBIE", Reap(z)
      PROVE  KernelInv' /\ (Waits => Waits')
  BY <1>2, ReapInv
<1> QED BY <1>1, <1>2, WaitpidChoice

(* waitpid called by a process that has children.                          *)
LEMMA WaitpidInv ==
  ASSUME KernelInv, NEW a \in Pid \cup {AnyChild}, waitpid(a)
  PROVE  KernelInv' /\ (Waits => Waits')
<1>1. /\ kpc = "user" /\ current # idleId
      /\ children[current] # << >>
      /\ a \in Range(children[current]) \cup {AnyChild}
      /\ WaitpidTurn(a)
  BY DEF waitpid, Calling
<1>2. state[current] = "ACTIF"
  BY <1>1 DEF KernelInv, Places
<1>3. \E c \in Range(children[current]) : a \in {AnyChild, c}
  <2>1. children[current] \in Seq(Pid \cup {Dangling})
    BY DEF KernelInv, KernelTypes
  <2>2. 1 \in DOMAIN children[current]
    BY <1>1, <2>1, EmptySeq, LenProperties, SMTT(30)
  <2>3. children[current][1] \in Range(children[current])
    BY <2>2 DEF Range
  <2> QED BY <1>1, <2>3
<1> QED BY <1>1, <1>2, <1>3, WaitpidTurnInv

(* The process woken in waitpid still has the child it waits for.          *)
LEMMA WaitpidResumedInv ==
  ASSUME KernelInv, Waits, WaitpidResumed
  PROVE  KernelInv' /\ Waits'
<1>1. kpc = "waitpid" /\ WaitpidTurn(waiting[current])
  BY DEF WaitpidResumed
<1>2. /\ state[current] = "ACTIF" /\ current \in table
      /\ resume[current] = "waitpid" /\ current # idleId
  BY <1>1 DEF KernelInv, Queues, Places, Waits
<1>3. PICK c \in table : Awaited(current, c)
  BY <1>2 DEF Waits, Ended
<1>4. /\ c \in Range(children[current]) /\ waiting[current] \in {AnyChild, c}
      /\ waiting[current] \in Pid \cup {AnyChild}
  BY <1>3 DEF Awaited, KernelInv, KernelTypes
<1>5. KernelInv' /\ (Waits => Waits')
  BY <1>1, <1>2, <1>4, WaitpidTurnInv
<1> QED BY <1>5
==============================================================================
