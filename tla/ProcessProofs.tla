---------------------------- MODULE ProcessProofs ----------------------------
(***************************************************************************)
(* The life of processes (Spec): the starts preserve the invariant, and    *)
(* the theorems that follow from it.                                       *)
(***************************************************************************)
EXTENDS ProcessInv, FiniteSetTheorems

(* Zenon proves most leaves; the others name SMT.                          *)
USE ZenonT(60)

(* A start that fails on its arguments only counts a process.              *)
LEMMA StartRejectedInv ==
  ASSUME KernelInv, StartRejected
  PROVE  KernelInv' /\ (Waits => Waits')
<1>1. /\ UNCHANGED <<table, current, state, prio, wake_time, activatable, asleep,
                     dead, counter, kpc, resume>>
      /\ UNCHANGED <<parent, children, waiting, pid_iterator, process_id_list>>
  BY DEF StartRejected, schedVars
<1>2. KernelTypes' /\ Queues' /\ Places' /\ PidsPartitioned'
  BY <1>1 DEF KernelInv, KernelTypes, Queues, Places, PidsPartitioned
<1>3. Links'
  BY <1>1, SameLinks DEF KernelInv
<1>4. ASSUME Waits PROVE Waits'
  <2>1. kpc' = "waitpid" => resume'[current'] = "waitpid"
    BY <1>1, <1>4 DEF Waits
  <2> QED BY <1>1, <1>4, <2>1, SameWaits DEF KernelInv
<1> QED BY <1>2, <1>3, <1>4 DEF KernelInv

(* The new entry of the table is a process of which nothing was left.      *)
LEMMA EnterFacts ==
  ASSUME KernelInv, NEW p \in NewPid, NEW pr \in Prio, Enter(p, pr)
  PROVE  /\ p \in Pid /\ p \notin table /\ state[p] = "FREE"
         /\ p # current /\ p # idleId
         /\ p \notin Range(activatable) /\ p \notin Range(asleep)
         /\ p \notin Range(dead)
         /\ parent[p] = NULL /\ children[p] = << >>
         /\ \A x \in Pid : parent[x] # p
         /\ current \in Pid /\ current \in table /\ state[current] = "ACTIF"
         /\ current # idleId /\ kpc = "user"
         /\ table' = table \cup {p} /\ table' \subseteq Pid
         /\ prio' \in [Pid -> Prio] /\ prio' \in [Pid -> Int]
         /\ wake_time' \in [Pid -> Int]
         /\ DOMAIN resume' = Pid /\ resume'[p] = "user"
         /\ \A x \in Pid \ {p} : resume'[x] = resume[x] /\ waiting'[x] = waiting[x]
         /\ waiting' \in [Pid -> Pid \cup {NULL, AnyChild}]
         /\ PidsPartitioned'
         /\ pid_iterator' \in Nat /\ process_id_list' \subseteq Pid
         /\ UNCHANGED <<current, asleep, dead, counter>>
<1>1. /\ KernelTypes /\ PidsPartitioned /\ current \in table /\ current \in Pid
      /\ table \subseteq Pid /\ table # {}
  BY DEF KernelInv, KernelTypes, Queues
<1>2. /\ p \in Pid /\ p \notin table /\ PidsPartitioned'
      /\ pid_iterator' \in Nat /\ process_id_list' \subseteq Pid
  BY <1>1, EnterPids
<1>3. /\ kpc = "user" /\ current # idleId
      /\ table' = table \cup {p}
      /\ prio' = [prio EXCEPT ![p] = pr]
      /\ wake_time' = [wake_time EXCEPT ![p] = 0]
      /\ resume' = [resume EXCEPT ![p] = "user"]
      /\ waiting' = [waiting EXCEPT ![p] = NULL]
      /\ UNCHANGED <<current, asleep, dead, counter>>
  BY DEF Enter, Calling
<1>4. state[p] = "FREE" /\ state[current] = "ACTIF" /\ idleId \in Range(activatable)
  BY <1>2, <1>3 DEF KernelInv, Queues, Places
<1>5. /\ p # current /\ p # idleId
      /\ p \notin Range(activatable) /\ p \notin Range(asleep)
      /\ p \notin Range(dead)
  BY <1>1, <1>2, <1>4 DEF KernelInv, Queues
<1>6. /\ parent[p] = NULL /\ children[p] = << >>
      /\ \A x \in Pid : parent[x] # p
  BY <1>2, SMTT(30) DEF KernelInv, Links, LinksWithout
<1>7. prio' \in [Pid -> Prio] /\ prio' \in [Pid -> Int]
  <2>1. prio' \in [Pid -> Prio]
    BY <1>1, <1>2, <1>3 DEF KernelTypes
  <2>2. \A n \in Prio : n \in Int
    BY SchedulerAssumption, SMTT(30)
  <2> QED BY <2>1, <2>2
<1>8. /\ wake_time' \in [Pid -> Int]
      /\ waiting' \in [Pid -> Pid \cup {NULL, AnyChild}]
      /\ \A x \in Pid \ {p} : waiting'[x] = waiting[x]
  BY <1>1, <1>2, <1>3, SMTT(30) DEF KernelTypes
<1>9. /\ DOMAIN resume' = Pid /\ resume'[p] = "user"
      /\ \A x \in Pid \ {p} : resume'[x] = resume[x]
  BY <1>2, <1>3 DEF KernelInv, Places
<1>10. table' \subseteq Pid
  BY <1>1, <1>2, <1>3
<1> QED BY <1>1, <1>2, <1>3, <1>4, <1>5, <1>6, <1>7, <1>8, <1>9, <1>10
(* A start that fails later leaves a husk: it has no parent, no child and  *)
(* no queue.                                                               *)
LEMMA StartAbandonedInv ==
  ASSUME KernelInv, NEW p \in NewPid, NEW pr \in Prio, StartAbandoned(p, pr)
  PROVE  KernelInv' /\ (Waits => Waits')
<1>1. /\ Enter(p, pr)
      /\ state' = [state EXCEPT ![p] = "HUSK"]
      /\ UNCHANGED <<activatable, kpc, parent, children>>
  BY DEF StartAbandoned
<1>2. /\ p \in Pid /\ p \notin table /\ state[p] = "FREE"
      /\ p # current /\ p # idleId
      /\ p \notin Range(activatable) /\ p \notin Range(asleep)
      /\ p \notin Range(dead)
      /\ parent[p] = NULL /\ children[p] = << >>
      /\ \A x \in Pid : parent[x] # p
      /\ current \in Pid /\ current \in table /\ state[current] = "ACTIF"
      /\ current # idleId /\ kpc = "user"
      /\ table' = table \cup {p} /\ table' \subseteq Pid
      /\ prio' \in [Pid -> Prio] /\ wake_time' \in [Pid -> Int]
      /\ DOMAIN resume' = Pid /\ resume'[p] = "user"
      /\ \A x \in Pid \ {p} : resume'[x] = resume[x] /\ waiting'[x] = waiting[x]
      /\ waiting' \in [Pid -> Pid \cup {NULL, AnyChild}]
      /\ PidsPartitioned'
      /\ pid_iterator' \in Nat /\ process_id_list' \subseteq Pid
      /\ UNCHANGED <<current, asleep, dead, counter>>
  BY <1>1, EnterFacts
<1>3. /\ state' \in [Pid -> process_state \cup {"FREE", "HUSK"}]
      /\ state'[p] = "HUSK" /\ \A x \in Pid \ {p} : state'[x] = state[x]
  BY <1>1, <1>2 DEF KernelInv, KernelTypes
<1>4. KernelTypes'
  BY <1>1, <1>2, <1>3 DEF KernelInv, KernelTypes
<1>5. Queues'
  <2>1. \A x \in Range(activatable) \cup Range(asleep) \cup Range(dead) :
          x \in Pid /\ x # p
    BY <1>2, QueueElements DEF KernelInv, KernelTypes
  <2>2. ASSUME NEW x \in Pid
        PROVE  /\ state'[x] = "ACTIF" => x = current'
               /\ state'[x] = "ACTIVATABLE" => x \in Range(activatable')
               /\ state'[x] = "ASLEEP" => x \in Range(activatable') \cup Range(asleep')
               /\ state'[x] = "KILLED" => x \in Range(dead') \/ x = current'
               /\ state'[x] = "FREE" <=> x \notin table'
    BY <1>1, <1>2, <1>3 DEF KernelInv, Queues
  <2> QED BY <1>1, <1>2, <1>3, <2>1, <2>2, PidFacts DEF KernelInv, Queues
<1>6. Places'
  BY <1>1, <1>2, <1>3 DEF KernelInv, Places
<1>7. Links'
  <2>1. KernelTypes /\ Links /\ table \subseteq Pid
    BY DEF KernelInv, KernelTypes
  <2>2. /\ \A x \in Pid : x \notin table' => parent'[x] = NULL /\ children'[x] = << >>
        /\ \A x \in Pid : parent'[x] # x /\ (parent'[x] \in Pid => parent'[x] \in table')
        /\ \A x \in Pid : \A c \in Range(children'[x]) : c # Dangling =>
             c \in table' /\ parent'[c] = x
    BY <1>1, <1>2, <2>1 DEF Links, LinksWithout
  <2>3. ASSUME NEW x \in table', state'[x] \notin Ended
        PROVE  /\ IsInjective(children'[x])
               /\ Range(children'[x]) \subseteq table'
               /\ \A c \in table' : parent'[c] = x => c \in Range(children'[x])
    <3>1. CASE x = p
      BY <3>1, <1>1, <1>2, SMTT(30) DEF IsInjective, Range
    <3>2. CASE x # p
      BY <3>2, <1>1, <1>2, <1>3, <2>1, <2>3, PidFacts, SMTT(30) DEF Links, LinksWithout
    <3> QED BY <3>1, <3>2
  <2>4. \A x \in table' : state'[x] = "KILLED" /\ parent'[x] \in Pid =>
          state'[parent'[x]] \in Ended
    BY <1>1, <1>2, <1>3, <2>1, SMTT(30) DEF Links, LinksWithout
  <2>5. \A x \in table' : state'[x] = "ZOMBIE" =>
          \A c \in Range(children'[x]) : c # Dangling => state'[c] # "ZOMBIE"
    BY <1>1, <1>2, <1>3, <2>1, SMTT(30) DEF Links, LinksWithout
  <2> QED BY <2>2, <2>3, <2>4, <2>5 DEF Links, LinksWithout
<1>8. ASSUME Waits PROVE Waits'
  <2> SUFFICES ASSUME NEW x \in table', state'[x] \notin Ended
               PROVE  /\ state'[x] = "BLOCKEDWAITCHILD" => resume'[x] = "waitpid"
                      /\ resume'[x] = "waitpid" => \E c \in table' : Awaited(x, c)'
                      /\ state'[x] = "BLOCKEDWAITCHILD" =>
                           \A c \in table' : Awaited(x, c)' => state'[c] \notin Ended
    BY <1>1, <1>2, <1>8, PidFacts DEF Waits
  <2>1. CASE x = p
    BY <2>1, <1>2, <1>3
  <2>2. CASE x # p
    <3>1. x \in Pid /\ x \in table /\ state'[x] = state[x]
      BY <2>2, <1>2, <1>3
    <3>2. \A c : Awaited(x, c)' <=> Awaited(x, c)
      BY <1>1, <1>2, <2>2, <3>1 DEF Awaited
    <3>3. \A c \in table' : state'[c] \in Ended => c \in table /\ state[c] \in Ended
      BY <1>2, <1>3 DEF Ended
    <3> QED BY <1>2, <1>8, <2>2, <3>1, <3>2, <3>3 DEF Waits
  <2> QED BY <2>1, <2>2
<1> QED BY <1>2, <1>4, <1>5, <1>6, <1>7, <1>8 DEF KernelInv
(* A complete start: the new process waits for the processor and is the    *)
(* youngest child of the caller.                                           *)
LEMMA NewProcessInv ==
  ASSUME KernelInv, NEW p \in NewPid, NEW pr \in Prio, NewProcess(p, pr)
  PROVE  KernelInv' /\ (Waits => Waits')
<1>1. /\ Enter(p, pr)
      /\ state' = [state EXCEPT ![p] = "ACTIVATABLE"]
      /\ activatable' = queue_add(activatable, p, prio')
      /\ parent' = [parent EXCEPT ![p] = current]
      /\ children' = [children EXCEPT ![current] = Append(@, p), ![p] = << >>]
      /\ kpc' \in {"scheduler", "user"}
  BY DEF NewProcess
<1>2. /\ p \in Pid /\ p \notin table /\ state[p] = "FREE"
      /\ p # current /\ p # idleId
      /\ p \notin Range(activatable) /\ p \notin Range(asleep)
      /\ p \notin Range(dead)
      /\ parent[p] = NULL /\ children[p] = << >>
      /\ \A x \in Pid : parent[x] # p
      /\ current \in Pid /\ current \in table /\ state[current] = "ACTIF"
      /\ current # idleId /\ kpc = "user"
      /\ table' = table \cup {p} /\ table' \subseteq Pid
      /\ prio' \in [Pid -> Prio] /\ prio' \in [Pid -> Int]
      /\ wake_time' \in [Pid -> Int]
      /\ DOMAIN resume' = Pid /\ resume'[p] = "user"
      /\ \A x \in Pid \ {p} : resume'[x] = resume[x] /\ waiting'[x] = waiting[x]
      /\ waiting' \in [Pid -> Pid \cup {NULL, AnyChild}]
      /\ PidsPartitioned'
      /\ pid_iterator' \in Nat /\ process_id_list' \subseteq Pid
      /\ UNCHANGED <<current, asleep, dead, counter>>
  BY <1>1, EnterFacts
<1>3. /\ KernelTypes /\ Links /\ table \subseteq Pid
      /\ activatable \in Seq(Pid) /\ IsInjective(activatable)
      /\ state \in [Pid -> process_state \cup {"FREE", "HUSK"}]
      /\ parent \in [Pid -> Pid \cup {NULL, Dangling}]
      /\ children \in [Pid -> Seq(Pid \cup {Dangling})]
      /\ \A q \in Pid : \A c \in Range(children[q]) : c # Dangling =>
           c \in table /\ parent[c] = q
  BY DEF KernelInv, KernelTypes, Queues, Links, LinksWithout
<1>4. /\ state' \in [Pid -> process_state \cup {"FREE", "HUSK"}]
      /\ state'[p] = "ACTIVATABLE" /\ \A x \in Pid \ {p} : state'[x] = state[x]
  BY <1>1, <1>2, <1>3 DEF process_state
<1>5. /\ activatable' \in Seq(Pid) /\ IsInjective(activatable')
      /\ Range(activatable') = Range(activatable) \cup {p}
  <2>1. ASSUME NEW key \in [Pid -> Int]
        PROVE  /\ queue_add(activatable, p, key) \in Seq(Pid)
               /\ IsInjective(queue_add(activatable, p, key))
               /\ Range(queue_add(activatable, p, key)) = Range(activatable) \cup {p}
    <3>1. /\ activatable \in Seq(Pid) /\ IsInjective(activatable)
          /\ p \in Pid /\ p \notin Range(activatable)
      BY <1>2, <1>3
    <3> QED BY <3>1, Incoming
  <2> QED BY <1>1, <1>2, <2>1
<1>6. /\ parent' \in [Pid -> Pid \cup {NULL, Dangling}]
      /\ parent'[p] = current /\ \A x \in Pid \ {p} : parent'[x] = parent[x]
  BY <1>1, <1>2, <1>3
<1>7. /\ children' \in [Pid -> Seq(Pid \cup {Dangling})]
      /\ children'[p] = << >>
      /\ Range(children'[current]) = Range(children[current]) \cup {p}
      /\ IsInjective(children[current]) => IsInjective(children'[current])
      /\ \A x \in Pid \ {p, current} : children'[x] = children[x]
  <2> DEFINE l == children[current]
             m == Append(l, p)
             mid == [children EXCEPT ![current] = m]
  <2>1. l \in Seq(Pid \cup {Dangling}) /\ p \in Pid \cup {Dangling}
    BY <1>2, <1>3
  <2>2. p \notin Range(l)
    BY <1>2, <1>3, PidFacts
  <2>3. /\ m \in Seq(Pid \cup {Dangling}) /\ Range(m) = Range(l) \cup {p}
        /\ IsInjective(l) => IsInjective(m)
    <3> HIDE DEF l
    <3> QED BY <2>1, <2>2, AppendedList, SMTT(30)
  <2>4. /\ mid \in [Pid -> Seq(Pid \cup {Dangling})] /\ mid[current] = m
        /\ \A x \in Pid \ {current} : mid[x] = children[x]
    <3> HIDE DEF m
    <3> QED BY <1>2, <1>3, <2>3
  <2>5. children' = [mid EXCEPT ![p] = << >>]
    BY <1>1
  <2>6. << >> \in Seq(Pid \cup {Dangling})
    BY EmptySeq
  <2> HIDE DEF mid, m
  <2>7. /\ children' \in [Pid -> Seq(Pid \cup {Dangling})]
        /\ children'[p] = << >> /\ children'[current] = m
        /\ \A x \in Pid \ {p, current} : children'[x] = children[x]
    BY <1>2, <2>4, <2>5, <2>6
  <2> QED BY <2>3, <2>7
<1>8. KernelTypes'
  <2>1. current' \in Pid /\ asleep' \in Seq(Pid) /\ dead' \in Seq(Pid)
        /\ counter' \in 1..MaxClock
    BY <1>2 DEF KernelInv, KernelTypes
  <2> QED BY <1>2, <1>4, <1>5, <1>6, <1>7, <2>1 DEF KernelTypes
<1>9. Queues'
  <2>1. \A x \in Range(activatable) \cup Range(asleep) \cup Range(dead) :
          x \in Pid /\ x # p
    BY <1>2, QueueElements DEF KernelInv, KernelTypes
  <2>2. ASSUME NEW x \in Pid
        PROVE  /\ state'[x] = "ACTIF" => x = current'
               /\ state'[x] = "ACTIVATABLE" => x \in Range(activatable')
               /\ state'[x] = "ASLEEP" => x \in Range(activatable') \cup Range(asleep')
               /\ state'[x] = "KILLED" => x \in Range(dead') \/ x = current'
               /\ state'[x] = "FREE" <=> x \notin table'
    BY <1>2, <1>4, <1>5, ZenonT(60) DEF KernelInv, Queues
  <2>3. Range(activatable') \cap Range(asleep') = {}
    BY <1>2, <1>5 DEF KernelInv, Queues
  <2>4. \A x \in Range(activatable') : state'[x] \in {"ACTIVATABLE", "ASLEEP"}
    BY <1>4, <1>5, <2>1 DEF KernelInv, Queues
  <2>5. /\ \A x \in Range(asleep') : state'[x] = "ASLEEP"
        /\ \A x \in Range(dead') : state'[x] = "KILLED"
    <3>1. /\ \A x \in Range(asleep) : state[x] = "ASLEEP"
          /\ \A x \in Range(dead) : state[x] = "KILLED"
      BY DEF KernelInv, Queues
    <3>2. asleep' = asleep /\ dead' = dead
      BY <1>2
    <3> QED BY <1>4, <2>1, <3>1, <3>2
  <2>6. /\ current' \in table' /\ current' \notin Range(dead')
        /\ current' # idleId /\ idleId \in Range(activatable')
    BY <1>2, <1>5 DEF KernelInv, Queues
  <2>7. IsInjective(activatable)' /\ IsInjective(asleep)' /\ IsInjective(dead)'
    BY <1>2, <1>5 DEF KernelInv, Queues
  <2> QED BY <2>2, <2>3, <2>4, <2>5, <2>6, <2>7 DEF Queues
<1>10. Places'
  BY <1>1, <1>2, <1>4 DEF KernelInv, Places
<1>11. Links'
  <2>1. \A x \in Pid : x \notin table' => parent'[x] = NULL /\ children'[x] = << >>
    BY <1>2, <1>3, <1>6, <1>7, SMTT(30) DEF Links, LinksWithout
  <2>2. \A x \in Pid : parent'[x] # x /\ (parent'[x] \in Pid => parent'[x] \in table')
    <3>1. \A x \in Pid : parent[x] # x /\ (parent[x] \in Pid => parent[x] \in table)
      BY <1>3 DEF Links, LinksWithout
    <3> QED BY <3>1, <1>2, <1>6
  <2>3. ASSUME NEW x \in Pid, NEW c \in Range(children'[x]), c # Dangling
        PROVE  c \in table' /\ parent'[c] = x
    <3>1. CASE x = p
      BY <3>1, <1>7, SMTT(30) DEF Range
    <3>2. CASE x = current /\ c = p
      BY <3>2, <1>2, <1>6
    <3>3. CASE x # p /\ c \in Range(children[x])
      <4>1. c \in table /\ parent[c] = x
        BY <2>3, <3>3, <1>3
      <4> QED BY <4>1, <1>2, <1>3, <1>6
    <3> QED BY <2>3, <3>1, <3>2, <3>3, <1>7
  <2>4. ASSUME NEW x \in table', state'[x] \notin Ended
        PROVE  /\ IsInjective(children'[x])
               /\ Range(children'[x]) \subseteq table'
               /\ \A c \in table' : parent'[c] = x => c \in Range(children'[x])
    <3>1. CASE x = p
      <4>1. IsInjective(children'[x]) /\ Range(children'[x]) \subseteq table'
        BY <3>1, <1>7, SMTT(30) DEF IsInjective, Range
      <4>2. \A c \in table' : parent'[c] # x
        BY <3>1, <1>2, <1>6, ZenonT(60)
      <4> QED BY <4>1, <4>2
    <3>2. CASE x # p
      <4>1. x \in table /\ x \in Pid /\ state[x] \notin Ended
        BY <3>2, <2>4, <1>2, <1>4
      <4>2. /\ IsInjective(children[x]) /\ Range(children[x]) \subseteq table
            /\ \A c \in table : parent[c] = x => c \in Range(children[x])
        BY <4>1, <1>3 DEF Links, LinksWithout
      <4>3. CASE x = current
        BY <4>2, <4>3, <1>2, <1>3, <1>6, <1>7
      <4>4. CASE x # current
        BY <3>2, <4>1, <4>2, <4>4, <1>2, <1>3, <1>6, <1>7
      <4> QED BY <4>3, <4>4
    <3> QED BY <3>1, <3>2
  <2>5. ASSUME NEW x \in table', state'[x] = "KILLED", parent'[x] \in Pid
        PROVE  state'[parent'[x]] \in Ended
    <3>1. x # p /\ x \in table /\ x \in Pid /\ state[x] = "KILLED"
      BY <2>5, <1>2, <1>4, ZenonT(60)
    <3>2. parent'[x] = parent[x] /\ parent[x] # p
      BY <3>1, <1>2, <1>6
    <3>3. state[parent[x]] \in Ended
      BY <2>5, <3>1, <3>2, <1>3 DEF Links, LinksWithout
    <3> QED BY <2>5, <3>2, <3>3, <1>4
  <2>6. ASSUME NEW x \in table', state'[x] = "ZOMBIE",
               NEW c \in Range(children'[x]), c # Dangling
        PROVE  state'[c] # "ZOMBIE"
    <3>1. x # p /\ x \in table /\ x \in Pid /\ state[x] = "ZOMBIE" /\ x # current
      BY <2>6, <1>2, <1>4
    <3>2. c \in Range(children[x])
      BY <2>6, <3>1, <1>7
    <3>3. c \in Pid /\ c # p /\ state[c] # "ZOMBIE"
      <4>1. c \in table
        BY <2>6, <3>1, <3>2, <1>3 DEF Links, LinksWithout
      <4>2. state[c] # "ZOMBIE"
        BY <2>6, <3>1, <3>2, <1>3 DEF Links, LinksWithout
      <4> QED BY <4>1, <4>2, <1>2, <1>3
    <3> QED BY <3>3, <1>4
  <2> QED BY <2>1, <2>2, <2>3, <2>4, <2>5, <2>6 DEF Links, LinksWithout
<1>12. ASSUME Waits PROVE Waits'
  <2> SUFFICES ASSUME NEW x \in table', state'[x] \notin Ended
               PROVE  /\ state'[x] = "BLOCKEDWAITCHILD" => resume'[x] = "waitpid"
                      /\ resume'[x] = "waitpid" => \E c \in table' : Awaited(x, c)'
                      /\ state'[x] = "BLOCKEDWAITCHILD" =>
                           \A c \in table' : Awaited(x, c)' => state'[c] \notin Ended
    BY <1>1, <1>2, <1>12, PidFacts DEF Waits
  <2>1. CASE x = p
    BY <2>1, <1>2, <1>4
  <2>2. CASE x # p
    <3>1. /\ x \in Pid /\ x \in table /\ state'[x] = state[x]
          /\ resume'[x] = resume[x] /\ waiting'[x] = waiting[x]
      BY <2>2, <1>2, <1>4
    <3>2. \A c : Awaited(x, c) => Awaited(x, c)'
      BY <1>7, <2>2, <3>1 DEF Awaited
    <3>3. ASSUME state[x] # "ACTIF", NEW c, Awaited(x, c)' PROVE Awaited(x, c)
      <4>1. x # current
        BY <1>2, <3>3
      <4>2. children'[x] = children[x]
        BY <1>7, <2>2, <3>1, <4>1
      <4> QED BY <3>1, <3>3, <4>2 DEF Awaited
    <3>4. \A c \in table' : state'[c] \in Ended => c \in table /\ state[c] \in Ended
      BY <1>2, <1>4 DEF Ended
    <3> QED BY <1>2, <1>12, <3>1, <3>2, <3>3, <3>4 DEF Waits
  <2> QED BY <2>1, <2>2
<1> QED BY <1>2, <1>8, <1>9, <1>10, <1>11, <1>12 DEF KernelInv
------------------------------------------------------------------------------
(* The invariant                                                           *)

(* The timer interrupt counts and leaves the processes alone.              *)
LEMMA TickInv ==
  ASSUME KernelInv, Tick, UNCHANGED treeVars
  PROVE  KernelInv' /\ (Waits => Waits')
<1>1. counter' \in 1..MaxClock
  BY SchedulerAssumption, SMTT(30) DEF KernelInv, KernelTypes, Tick
<1> QED BY <1>1, OnlyKpcInv DEF Tick

(* The invariant holds once the kernel has started idle and the shell.     *)
LEMMA InitInv ==
  ASSUME Init
  PROVE  ProcessIInv
<1>1. /\ idleId \in Nat /\ shellId = idleId + 1 /\ shellId \in Pid /\ idleId \in Pid
      /\ shellId # idleId /\ Pid \subseteq Nat
  BY SchedulerAssumption, ProcessAssumption, SMTT(30) DEF shellId
<1>2. /\ table = {idleId, shellId} /\ current = shellId
      /\ state[idleId] = "ACTIVATABLE" /\ state[shellId] = "ACTIF"
      /\ \A p \in Pid \ {idleId, shellId} : state[p] = "FREE"
      /\ state \in [Pid -> process_state \cup {"FREE", "HUSK"}]
  BY <1>1 DEF Init, process_state
<1>3. /\ activatable = <<idleId>> /\ asleep = << >> /\ dead = << >>
      /\ Range(activatable) = {idleId} /\ Range(asleep) = {} /\ Range(dead) = {}
      /\ IsInjective(activatable) /\ IsInjective(asleep) /\ IsInjective(dead)
      /\ activatable \in Seq(Pid) /\ asleep \in Seq(Pid) /\ dead \in Seq(Pid)
  BY <1>1, SMTT(30) DEF Init, Range, IsInjective
<1>4. TypeOK
  <2>1. prio \in [Pid -> Prio] /\ wake_time \in [Pid -> Int]
        /\ resume \in [Pid -> {"user", "waitpid"}]
        /\ kpc \in {"user", "scheduler", "waitpid", "halted"}
    BY ProcessAssumption, SMTT(30) DEF Init
  <2>2. /\ counter \in 1..MaxClock
        /\ nb_proc_running \in 0..MAX_NB_PROCESS
        /\ pid_iterator \in Nat /\ process_id_list \subseteq Pid
    BY <1>1, ProcessAssumption, SchedulerAssumption, SMTT(30) DEF Init
  <2>3. << >> \in Seq(Pid \cup {Dangling})
    BY EmptySeq
  <2>4. /\ parent \in [Pid -> Pid \cup {NULL, Dangling}]
        /\ children \in [Pid -> Seq(Pid \cup {Dangling})]
        /\ waiting \in [Pid -> Pid \cup {NULL, AnyChild}]
    BY <2>3 DEF Init
  <2>5. table \subseteq Pid /\ current \in Pid
    BY <1>1, <1>2
  <2> QED BY <1>2, <1>3, <2>1, <2>2, <2>4, <2>5 DEF TypeOK
<1>5. KernelTypes
  BY <1>4 DEF TypeOK, KernelTypes
<1>6. Queues
  <2>1. \A p \in Pid : p \notin table <=> state[p] = "FREE"
    BY <1>1, <1>2
  <2> QED BY <1>1, <1>2, <1>3, <2>1 DEF Queues
<1>7. Places
  BY <1>2 DEF Places, Init
<1>8. Links
  <2>1. /\ \A p \in Pid : parent[p] = NULL /\ children[p] = << >>
        /\ Range(<< >>) = {} /\ IsInjective(<< >>)
    BY SMTT(30) DEF Init, Range, IsInjective
  <2>2. \A p \in Pid : parent[p] # p /\ parent[p] \notin Pid /\ Range(children[p]) = {}
    BY <2>1, PidFacts
  <2>3. table \subseteq Pid
    BY <1>1, <1>2
  <2> QED BY <2>1, <2>2, <2>3 DEF Links, LinksWithout
<1>9. PidsAccounted
  <2>1. table \cup process_id_list = idleId..pid_iterator
    <3>1. pid_iterator = idleId + 1 /\ process_id_list = {}
      BY <1>1 DEF Init
    <3>2. idleId..(idleId + 1) = {idleId, idleId + 1}
      BY <1>1, SMTT(30)
    <3> QED BY <1>1, <1>2, <3>1, <3>2
  <2>2. Cardinality({idleId, shellId}) = 2
    <3>1. IsFiniteSet({idleId}) /\ Cardinality({idleId}) = 1
      BY FS_Singleton
    <3>2. Cardinality({idleId} \cup {shellId}) = Cardinality({idleId}) + 1
      BY <1>1, <3>1, FS_AddElement
    <3>3. {idleId, shellId} = {idleId} \cup {shellId}
      OBVIOUS
    <3> QED BY <3>1, <3>2, <3>3, SMTT(30)
  <2> QED BY <1>2, <2>1, <2>2, SMTT(30) DEF PidsAccounted, Init
<1>10. Waits
  BY <1>1, <1>2 DEF Waits, Init
<1>11. PidsPartitioned
  BY <1>9 DEF PidsAccounted, PidsPartitioned
<1> QED BY <1>4, <1>5, <1>6, <1>7, <1>8, <1>9, <1>10, <1>11 DEF ProcessIInv, KernelInv

(* The places where a handler goes on.                                     *)
LEMMA PlaceTypes ==
  ASSUME TypeOK, Next
  PROVE  /\ kpc' \in {"user", "scheduler", "waitpid", "halted"}
         /\ resume' \in [Pid -> {"user", "waitpid"}]
<1>1. /\ kpc \in {"user", "scheduler", "waitpid", "halted"}
      /\ resume \in [Pid -> {"user", "waitpid"}] /\ current \in Pid
      /\ activatable \in Seq(Pid) /\ table \subseteq Pid
  BY DEF TypeOK
<1>2. CASE SchedulerStep
  <2>1. AwakeSleeping => kpc' = kpc /\ resume' = resume
    BY DEF AwakeSleeping
  <2>2. WakeTimeAssertFails => kpc' = "halted" /\ resume' = resume
    BY DEF WakeTimeAssertFails
  <2>3. ASSUME Dispatch
        PROVE  resume' = resume /\ \E p \in Pid : kpc' = resume[p]
    <3>1. ASSUME NEW st, NEW act, SwitchTo(queue_top(activatable), st, act)
          PROVE  \E p \in Pid : kpc' = resume[p]
      BY <1>1, <3>1 DEF SwitchTo
    <3> QED BY <1>1, <2>3, <3>1 DEF Dispatch
  <2> QED BY <1>1, <1>2, <2>1, <2>2, <2>3 DEF SchedulerStep
<1>3. CASE FreeDead
  BY <1>1, <1>3 DEF FreeDead
<1>4. CASE Tick
  BY <1>1, <1>4 DEF Tick
<1>5. CASE WaitClock
  BY <1>1, <1>5 DEF WaitClock, wait_clock
<1>6. CASE exit_process
  BY <1>1, <1>6 DEF exit_process, Terminate, Halt
<1>7. ASSUME NEW p \in Pid, kill(p)
      PROVE  kpc' \in {"user", "halted"} /\ resume' = resume
  <2>1. ASSUME NEW act, NEW slp, Terminate(p, state, act, slp, "user")
        PROVE  kpc' \in {"user", "halted"}
    BY <2>1 DEF Terminate, Halt
  <2> QED BY <1>7, <2>1 DEF kill, Halt
<1>8. ASSUME NEW a, WaitpidTurn(a)
      PROVE  /\ kpc' \in {"user", "scheduler"}
             /\ resume' \in [Pid -> {"user", "waitpid"}]
  <2>1. ASSUME NEW z, Reap(z)
        PROVE  /\ kpc' \in {"user", "scheduler"}
               /\ resume' \in [Pid -> {"user", "waitpid"}]
    BY <1>1, <2>1 DEF Reap
  <2>2. ASSUME BlockOnChild(a)
        PROVE  /\ kpc' \in {"user", "scheduler"}
               /\ resume' \in [Pid -> {"user", "waitpid"}]
    BY <1>1, <2>2 DEF BlockOnChild
  <2> QED BY <1>8, <2>1, <2>2 DEF WaitpidTurn
<1>9. CASE StartRejected
  BY <1>1, <1>9 DEF StartRejected, schedVars
<1>10. ASSUME NEW p, NEW pr, StartAbandoned(p, pr) \/ NewProcess(p, pr)
       PROVE  /\ kpc' \in {"user", "scheduler", "waitpid", "halted"}
              /\ resume' \in [Pid -> {"user", "waitpid"}]
  BY <1>1, <1>10 DEF StartAbandoned, NewProcess, Enter
<1>11. ASSUME NEW p \in Pid, NEW pr, chprio(p, pr)
       PROVE  /\ kpc' \in {"user", "scheduler", "halted"} /\ resume' = resume
  BY <1>11 DEF chprio
<1>12. CASE UNCHANGED vars
  BY <1>1, <1>12 DEF vars, schedVars
<1> QED
  BY <1>1, <1>2, <1>3, <1>4, <1>5, <1>6, <1>7, <1>8, <1>9, <1>10, <1>11, <1>12
  DEF Next, waitpid, WaitpidResumed, start, start_virtual

(* Sets of pids are finite.                                                *)
LEMMA PidSetFinite ==
  ASSUME NEW T, T \subseteq Pid
  PROVE  IsFiniteSet(T) /\ Cardinality(T) \in Nat
<1>1. IsFiniteSet(Pid) /\ T \in SUBSET Pid
  BY SchedulerAssumption
<1>2. IsFiniteSet(T)
  BY <1>1, FS_Subset
<1>3. Cardinality(T) \in Nat
  BY <1>2, FS_CardinalityType
<1> QED BY <1>2, <1>3

(* The count nb_proc_running and the processes it counts: rejected starts  *)
(* make it too large, never too small.                                     *)
Counted ==
  /\ nb_proc_running \in 0..MAX_NB_PROCESS
  /\ Cardinality(table) <= nb_proc_running

(* free_process_memory counts down once for every process it frees.        *)
LEMMA FreeCounted ==
  ASSUME Counted, table \subseteq Pid, NEW S, S \subseteq table,
         NEW st, NEW ch, Free(S, st, ch)
  PROVE  Counted'
<1>1. /\ IsFiniteSet(table) /\ Cardinality(table) \in Nat
      /\ IsFiniteSet(S) /\ Cardinality(S) \in Nat
      /\ Cardinality(table \ S) \in Nat
  BY PidSetFinite
<1>2. Cardinality(table \ S) = Cardinality(table) - Cardinality(table \cap S)
  BY <1>1, FS_Difference
<1>3. table \cap S = S
  OBVIOUS
<1>4. table' = table \ S /\ nb_proc_running' = nb_proc_running - Cardinality(S)
  BY DEF Free
<1> QED BY <1>1, <1>2, <1>3, <1>4, ProcessAssumption, SMTT(30) DEF Counted

(* Every step keeps the count.                                             *)
LEMMA StepCounted ==
  ASSUME KernelInv, Counted, Next
  PROVE  Counted'
<1>1. table \subseteq Pid /\ current \in table /\ Links
  BY DEF KernelInv, KernelTypes, Queues
<1>2. CASE UNCHANGED <<table, nb_proc_running>>
  BY <1>2 DEF Counted
<1>3. CASE FreeDead
  <2>1. queue_top(dead) \in table
    <3>1. dead \in Seq(Pid) /\ dead # << >>
      BY <1>3 DEF KernelInv, KernelTypes, FreeDead, queue_empty
    <3>2. queue_top(dead) \in Range(dead)
      BY <3>1, Outgoing DEF KernelInv, Queues
    <3>3. queue_top(dead) \in Pid /\ state[queue_top(dead)] = "KILLED"
      BY <3>1, <3>2, QueueElements DEF KernelInv, Queues
    <3> QED BY <3>3 DEF KernelInv, Queues
  <2> QED BY <1>1, <1>3, <2>1, FreeCounted DEF FreeDead
<1>4. ASSUME NEW p \in table, NEW act, NEW slp, NEW k,
             Terminate(p, state, act, slp, k)
      PROVE  Counted'
  <2>1. ZombieChildren(p) \subseteq table
    BY <1>1 DEF ZombieChildren, Links, LinksWithout
  <2>2. \/ Halt
        \/ \E S \in SUBSET table : \E st : Free(S, st, children)
    BY <1>4, <2>1 DEF Terminate
  <2> QED BY <1>1, <1>2, <2>2, FreeCounted DEF Halt, treeVars
<1>5. CASE exit_process
  BY <1>1, <1>4, <1>5 DEF exit_process
<1>6. ASSUME NEW p \in Pid, kill(p) PROVE Counted'
  BY <1>2, <1>4, <1>6 DEF kill, Valid, Halt, treeVars
<1>7. ASSUME NEW a, WaitpidTurn(a), state[current] \notin Ended PROVE Counted'
  <2>1. Range(children[current]) \subseteq table
    BY <1>1, <1>7 DEF Links, LinksWithout
  <2>2. ASSUME NEW z \in Range(children[current]), Reap(z) PROVE Counted'
    <3>1. {z} \subseteq table /\ Free({z}, state, Unlinked(z))
      BY <2>1, <2>2 DEF Reap
    <3> QED BY <1>1, <3>1, FreeCounted
  <2>3. CASE BlockOnChild(a)
    BY <1>2, <2>3 DEF BlockOnChild
  <2> QED BY <1>7, <2>2, <2>3, WaitpidChoice
<1>8. state[current] \notin Ended \/ kpc \in {"scheduler", "halted"}
  BY DEF KernelInv, Places, Ended
<1>9. ASSUME NEW a, waitpid(a) PROVE Counted'
  BY <1>7, <1>8, <1>9 DEF waitpid, Calling
<1>10. CASE WaitpidResumed
  BY <1>7, <1>8, <1>10 DEF WaitpidResumed
<1>11. CASE StartRejected
  <2>1. /\ table' = table /\ nb_proc_running < MAX_NB_PROCESS
        /\ nb_proc_running' = nb_proc_running + 1
    BY <1>11 DEF StartRejected, schedVars
  <2>2. Cardinality(table) \in Nat
    BY <1>1, PidSetFinite
  <2> QED BY <2>1, <2>2, ProcessAssumption, SMTT(30) DEF Counted
<1>12. ASSUME NEW p \in NewPid, NEW pr, Enter(p, pr) PROVE Counted'
  <2>1. IsFiniteSet(table) /\ Cardinality(table) \in Nat
    BY <1>1, PidSetFinite
  <2>2. Cardinality(table \cup {p}) \in {Cardinality(table), Cardinality(table) + 1}
    BY <2>1, FS_AddElement
  <2> QED BY <1>12, <2>1, <2>2, ProcessAssumption, SMTT(30) DEF Enter, Counted
<1>13. ASSUME NEW p, NEW pr, chprio(p, pr) PROVE Counted'
  BY <1>2, <1>13 DEF chprio, treeVars
<1>14. CASE (SchedulerStep \/ Tick \/ WaitClock) /\ UNCHANGED treeVars
  <2>1. nb_proc_running' = nb_proc_running
    BY <1>14 DEF treeVars
  <2>2. AwakeSleeping \/ WakeTimeAssertFails \/ Tick => table' = table
    BY DEF AwakeSleeping, WakeTimeAssertFails, Tick
  <2>3. Dispatch => table' = table
    BY DEF Dispatch
  <2>4. WaitClock => table' = table
    BY DEF WaitClock, wait_clock
  <2> QED BY <1>2, <1>14, <2>1, <2>2, <2>3, <2>4 DEF SchedulerStep
<1>15. CASE UNCHANGED vars
  BY <1>2, <1>15 DEF vars, schedVars, treeVars
<1> QED
  BY <1>3, <1>5, <1>6, <1>9, <1>10, <1>11, <1>12, <1>13, <1>14, <1>15
  DEF Next, start, start_virtual, StartAbandoned, NewProcess

(* Every step keeps the invariant.                                         *)
LEMMA StepInv ==
  ASSUME ProcessIInv, [Next]_vars
  PROVE  ProcessIInv'
<1>1. TypeOK /\ KernelInv /\ Waits /\ Counted
  BY DEF ProcessIInv, PidsAccounted, TypeOK, Counted
<1>2. CASE UNCHANGED vars
  <2>1. UNCHANGED <<schedVars, treeVars>>
    BY <1>2 DEF vars
  <2>2. TypeOK' /\ KernelInv'
    <3>1. TypeOK'
      BY <1>1, <2>1 DEF schedVars, treeVars, TypeOK
    <3>2. KernelTypes' /\ Queues'
      BY <1>1, <2>1 DEF schedVars, treeVars, KernelInv, KernelTypes, Queues
    <3>3. Places' /\ PidsPartitioned'
      BY <1>1, <2>1 DEF schedVars, treeVars, KernelInv, Places, PidsPartitioned
    <3>4. Links'
      BY <1>1, <2>1, ZenonT(60) DEF schedVars, treeVars, KernelInv, Links, LinksWithout
    <3> QED BY <3>1, <3>2, <3>3, <3>4 DEF KernelInv
  <2>3. Waits'
    BY <1>1, <2>1 DEF schedVars, treeVars, Waits, Awaited
  <2>4. PidsAccounted'
    BY <2>1 DEF schedVars, treeVars, ProcessIInv, PidsAccounted
  <2> QED BY <2>2, <2>3, <2>4 DEF ProcessIInv
<1>3. CASE Next
  <2>1. KernelInv' /\ Waits'
    <3>1. CASE SchedulerStep /\ UNCHANGED treeVars
      <4>1. CASE WakeTimeAssertFails
        <5>1. counter \in 1..MaxClock
          BY <1>1 DEF TypeOK
        <5> QED BY <1>1, <3>1, <4>1, <5>1, OnlyKpcInv DEF WakeTimeAssertFails
      <4> QED BY <1>1, <3>1, <4>1, AwakeSleepingInv, DispatchInv DEF SchedulerStep
    <3>2. CASE FreeDead
      BY <1>1, <3>2, FreeDeadInv
    <3>3. CASE Tick /\ UNCHANGED treeVars
      BY <1>1, <3>3, TickInv
    <3>4. CASE WaitClock /\ UNCHANGED treeVars
      BY <1>1, <3>4, WaitClockInv
    <3>5. CASE exit_process
      BY <1>1, <3>5, ExitInv
    <3>6. ASSUME NEW p \in Pid, kill(p) PROVE KernelInv' /\ Waits'
      BY <1>1, <3>6, KillInv
    <3>7. ASSUME NEW a \in Pid \cup {AnyChild}, waitpid(a) PROVE KernelInv' /\ Waits'
      BY <1>1, <3>7, WaitpidInv
    <3>8. CASE WaitpidResumed
      BY <1>1, <3>8, WaitpidResumedInv
    <3>9. CASE StartRejected
      BY <1>1, <3>9, StartRejectedInv
    <3>10. ASSUME NEW p \in NewPid, NEW pr \in Prio,
                  StartAbandoned(p, pr) \/ NewProcess(p, pr)
           PROVE  KernelInv' /\ Waits'
      BY <1>1, <3>10, StartAbandonedInv, NewProcessInv
    <3>11. ASSUME NEW p \in Pid, NEW pr \in Prio, chprio(p, pr)
           PROVE  KernelInv' /\ Waits'
      BY <1>1, <3>11, ChprioInv
    <3>12. CASE UNCHANGED vars
      BY <3>12, <1>2 DEF ProcessIInv
    <3> QED
      BY <1>3, <3>1, <3>2, <3>3, <3>4, <3>5, <3>6, <3>7, <3>8, <3>9, <3>10,
         <3>11, <3>12
      DEF Next, start, start_virtual
  <2>2. Counted'
    BY <1>1, <1>3, StepCounted
  <2>3. TypeOK'
    <3>1. /\ kpc' \in {"user", "scheduler", "waitpid", "halted"}
          /\ resume' \in [Pid -> {"user", "waitpid"}]
      BY <1>1, <1>3, PlaceTypes
    <3>2. nb_proc_running' \in 0..MAX_NB_PROCESS
      BY <2>2 DEF Counted
    <3> QED BY <2>1, <3>1, <3>2 DEF TypeOK, KernelInv, KernelTypes
  <2>4. PidsAccounted'
    BY <2>1, <2>2 DEF KernelInv, PidsPartitioned, PidsAccounted, Counted
  <2> QED BY <2>1, <2>3, <2>4 DEF ProcessIInv
<1> QED BY <1>2, <1>3

(* The invariant holds in every reachable state, whatever start, exit,     *)
(* kill, waitpid, wait_clock, chprio and the clock do in whatever order.   *)
THEOREM ProcessInvariant == Spec => []ProcessIInv
<1>1. Init => ProcessIInv
  BY InitInv
<1>2. ProcessIInv /\ [Next]_vars => ProcessIInv'
  BY StepInv
<1> QED BY <1>1, <1>2, PTL DEF Spec

(* The state of a process always tells which queue it is in, and           *)
(* scheduler() always finds a process to run, idle at least.               *)
THEOREM QueuesMatchStates == Spec => []QueueMatchesState
<1>1. ProcessIInv => QueueMatchesState
  <2> SUFFICES ASSUME ProcessIInv PROVE QueueMatchesState
    OBVIOUS
  <2>1. TypeOK /\ Queues /\ Places
    BY DEF ProcessIInv, KernelInv
  <2>2. LinkedOnce
    <3>1. /\ Range(dead) \cap (Range(activatable) \cup Range(asleep)) = {}
          /\ IsInjective(activatable) /\ IsInjective(asleep) /\ IsInjective(dead)
          /\ Range(activatable) \cap Range(asleep) = {}
      BY <2>1 DEF Queues
    <3>2. kpc \notin {"scheduler", "halted"} =>
            current \notin Range(activatable) \cup Range(asleep) \cup Range(dead)
      BY <2>1 DEF Queues, Places
    <3> QED BY <3>1, <3>2 DEF LinkedOnce
  <2>3. kpc = "user" => state[current] = "ACTIF"
    BY <2>1 DEF Places
  <2> QED BY <2>1, <2>2, <2>3 DEF QueueMatchesState, Queues, Linked
<1> QED BY <1>1, ProcessInvariant, PTL

(* No wake-up is lost between the end of a child and the waitpid of its    *)
(* parent.                                                                 *)
THEOREM WakeupsKept == Spec => []NoLostWakeup
<1>1. ProcessIInv => NoLostWakeup
  <2> SUFFICES ASSUME ProcessIInv, NEW p \in Pid, state[p] = "BLOCKEDWAITCHILD"
               PROVE  LET awaited == {c \in Range(children[p]) :
                                        waiting[p] \in {AnyChild, c}}
                      IN  awaited # {} /\ \A c \in awaited : Valid(c)
    BY DEF NoLostWakeup
  <2>1. p \in table /\ state[p] \notin Ended
    BY DEF ProcessIInv, KernelInv, Queues, Ended
  <2>2. /\ \E c \in table : Awaited(p, c)
        /\ \A c \in table : Awaited(p, c) => state[c] \notin Ended
    BY <2>1 DEF ProcessIInv, Waits
  <2>3. Range(children[p]) \subseteq table
    BY <2>1 DEF ProcessIInv, KernelInv, Links, LinksWithout
  <2> QED BY <2>2, <2>3 DEF Awaited, Valid, Ended
<1> QED BY <1>1, ProcessInvariant, PTL

(* The tree of processes is consistent: waitpid never follows a stale link *)
(* and make_children_orphans_and_kill_zombies recurses once at most.       *)
THEOREM TreeStaysConsistent == Spec => []TreeConsistent
<1>1. ProcessIInv => TreeConsistent
  <2> SUFFICES ASSUME ProcessIInv, NEW p \in Pid
               PROVE  /\ Valid(p) => /\ IsInjective(children[p])
                                     /\ Range(children[p]) = {c \in table : parent[c] = p}
                      /\ state[p] = "ZOMBIE" => ZombieChildren(p) = {}
    BY DEF TreeConsistent
  <2>1. table \subseteq Pid /\ Links
    BY DEF ProcessIInv, KernelInv, KernelTypes
  <2>2. ASSUME Valid(p)
        PROVE  /\ IsInjective(children[p])
               /\ Range(children[p]) = {c \in table : parent[c] = p}
    <3>1. p \in table /\ state[p] \notin Ended
      BY <2>2 DEF Valid, Ended
    <3>2. /\ IsInjective(children[p]) /\ Range(children[p]) \subseteq table
          /\ \A c \in table : parent[c] = p => c \in Range(children[p])
          /\ \A c \in Range(children[p]) : c # Dangling => parent[c] = p
      BY <2>1, <3>1 DEF Links, LinksWithout
    <3> QED BY <2>1, <3>2, PidFacts
  <2>3. ASSUME state[p] = "ZOMBIE" PROVE ZombieChildren(p) = {}
    <3>1. p \in table
      BY <2>3 DEF ProcessIInv, KernelInv, Queues
    <3> QED BY <2>1, <2>3, <3>1, SMTT(30) DEF Links, LinksWithout, ZombieChildren
  <2> QED BY <2>2, <2>3
<1> QED BY <1>1, ProcessInvariant, PTL

(* Every pid given so far belongs to one process or waits to be reused.    *)
THEOREM PidsStayAccounted == Spec => []PidsAccounted
<1>1. ProcessIInv => PidsAccounted
  BY DEF ProcessIInv, KernelInv
<1> QED BY <1>1, ProcessInvariant, PTL
------------------------------------------------------------------------------
(* Who may take an ended process out of the table                          *)

(* The step of ExitStatusKept.                                             *)
StatusKept ==
  \A p \in table \ table', q \in table :
    parent[p] = q /\ Valid(q) =>
      (current = q /\ state[p] = "ZOMBIE") \/ ~Valid(q)'

(* The process v that ends takes along its zombie children, whose parent   *)
(* is then no longer alive, and itself only if no living parent waits.     *)
LEMMA TerminateKept ==
  ASSUME KernelInv, NEW v \in Pid, NEW act, NEW slp, NEW k,
         Terminate(v, state, act, slp, k)
  PROVE  StatusKept
<1>1. /\ table \subseteq Pid /\ Links
      /\ state \in [Pid -> process_state \cup {"FREE", "HUSK"}]
  BY DEF KernelInv, KernelTypes
<1>2. \A z \in ZombieChildren(v) : z \in table /\ parent[z] = v
  BY <1>1, ZenonT(60) DEF ZombieChildren, Links, LinksWithout
<1>3. PICK s \in ParentState(v) :
        \/ table' = table
        \/ /\ Unawaited(v, s)
           /\ Free(ZombieChildren(v) \cup {v}, state, children)
        \/ Free(ZombieChildren(v), AfterDeath(v, s, state, act).st, children)
  BY DEF Terminate, Halt
<1>4. CASE table' = table
  BY <1>4 DEF StatusKept
<1>5. CASE Unawaited(v, s) /\ Free(ZombieChildren(v) \cup {v}, state, children)
  <2>1. table' = table \ (ZombieChildren(v) \cup {v})
    BY <1>5, ZenonT(60) DEF Free
  <2>2. parent[v] \in table => state[parent[v]] = "ZOMBIE"
    BY <1>1, <1>5, PidFacts DEF Unawaited, ParentState
  <2> QED BY <1>2, <2>1, <2>2, ZenonT(60) DEF StatusKept, Valid
<1>6. CASE Free(ZombieChildren(v), AfterDeath(v, s, state, act).st, children)
  <2>1. table' = table \ ZombieChildren(v)
    BY <1>6, ZenonT(60) DEF Free
  <2>2. AfterDeath(v, s, state, act).st[v] \in Ended
    <3>1. parent[v] # v
      BY <1>1, ZenonT(60) DEF Links, LinksWithout
    <3>2. CASE s = "BLOCKEDWAITCHILD"
      <4>1. AfterDeath(v, s, state, act).st =
              [state EXCEPT ![v] = "ZOMBIE", ![parent[v]] = "ACTIVATABLE"]
        BY <3>2 DEF AfterDeath
      <4>2. [state EXCEPT ![v] = "ZOMBIE", ![parent[v]] = "ACTIVATABLE"][v] = "ZOMBIE"
        BY <1>1, <3>1
      <4> QED BY <4>1, <4>2 DEF Ended
    <3>3. CASE s # "BLOCKEDWAITCHILD"
      <4>1. AfterDeath(v, s, state, act).st =
              [state EXCEPT ![v] = IF Unawaited(v, s) THEN "KILLED" ELSE "ZOMBIE"]
        BY <3>3, ZenonT(60) DEF AfterDeath
      <4> QED BY <1>1, <4>1 DEF Ended
    <3> QED BY <3>2, <3>3
  <2>3. state'[v] \in Ended \cup {"FREE"}
    BY <1>6, <2>2, ZenonT(60) DEF Free
  <2>4. ~Valid(v)'
    <3>1. v \in ZombieChildren(v) => v \notin table'
      BY <2>1
    <3>2. v \notin ZombieChildren(v) => state'[v] \in Ended
      BY <1>6, <2>2, ZenonT(60) DEF Free
    <3> QED BY <3>1, <3>2 DEF Valid, Ended
  <2> QED BY <1>2, <2>1, <2>4 DEF StatusKept
<1> QED BY <1>3, <1>4, <1>5, <1>6

(* waitpid takes a zombie child of the current process.                    *)
LEMMA WaitpidKept ==
  ASSUME KernelInv, state[current] = "ACTIF", NEW a, WaitpidTurn(a)
  PROVE  StatusKept
<1>1. /\ current \in table /\ current \in Pid /\ state[current] \notin Ended
      /\ table \subseteq Pid /\ Links
  BY DEF KernelInv, KernelTypes, Queues, Ended
<1>2. CASE BlockOnChild(a)
  BY <1>2 DEF BlockOnChild, StatusKept
<1>3. ASSUME NEW z \in Range(children[current]), state[z] = "ZOMBIE", Reap(z)
      PROVE  StatusKept
  <2>1. table' = table \ {z}
    BY <1>3, ZenonT(60) DEF Reap, Free
  <2>2. Range(children[current]) \subseteq table
    BY <1>1 DEF Links, LinksWithout
  <2>3. z # Dangling
    BY <1>1, <1>3, <2>2, PidFacts, ZenonT(60)
  <2>4. parent[z] = current
    BY <1>1, <1>3, <2>3 DEF Links, LinksWithout
  <2> QED BY <1>3, <2>1, <2>4 DEF StatusKept
<1> QED BY <1>2, <1>3, WaitpidChoice, ZenonT(60)

(* The status of an ended child is kept for a living parent: the child     *)
(* leaves the table only when that parent takes it in waitpid or ends.     *)
THEOREM StatusesKept == Spec => ExitStatusKept
<1>1. ASSUME ProcessIInv, [Next]_vars PROVE StatusKept
  <2>1. TypeOK /\ KernelInv
    BY <1>1 DEF ProcessIInv
  <2>2. CASE table \subseteq table'
    BY <2>2 DEF StatusKept
  <2>3. CASE FreeDead
    <3> DEFINE d == queue_top(dead)
    <3>1. table' = table \ {d} /\ dead # << >>
      BY <2>3 DEF FreeDead, Free, queue_empty
    <3>2. d \in Range(dead)
      BY <2>1, <3>1, Outgoing DEF KernelInv, KernelTypes, Queues
    <3> HIDE DEF d
    <3>3. d \in Pid /\ state[d] = "KILLED" /\ d \in table /\ table \subseteq Pid
      BY <2>1, <3>2, QueueElements DEF KernelInv, KernelTypes, Queues
    <3>4. parent[d] \in Pid => state[parent[d]] \in Ended
      BY <2>1, <3>3, ZenonT(60) DEF KernelInv, Links, LinksWithout
    <3> QED BY <3>1, <3>3, <3>4 DEF StatusKept, Valid, Ended
  <2>4. CASE exit_process
    BY <2>1, <2>4, TerminateKept DEF exit_process, TypeOK
  <2>5. ASSUME NEW p \in Pid, kill(p) PROVE StatusKept
    <3>1. \/ \E act, slp : Terminate(p, state, act, slp, "user")
          \/ Halt
      BY <2>5 DEF kill
    <3>2. ASSUME NEW act, NEW slp, Terminate(p, state, act, slp, "user")
          PROVE  StatusKept
      BY <2>1, <3>2, TerminateKept
    <3> QED BY <2>2, <3>1, <3>2 DEF Halt
  <2>6. ASSUME NEW a, waitpid(a) PROVE StatusKept
    BY <2>1, <2>6, WaitpidKept DEF waitpid, Calling, KernelInv, Places
  <2>7. CASE WaitpidResumed
    BY <2>1, <2>7, WaitpidKept DEF WaitpidResumed, KernelInv, Places
  <2>8. CASE SchedulerStep \/ Tick \/ WaitClock \/ StartRejected
    <3>1. AwakeSleeping \/ WakeTimeAssertFails \/ Tick => table' = table
      BY DEF AwakeSleeping, WakeTimeAssertFails, Tick
    <3>2. Dispatch => table' = table
      BY DEF Dispatch
    <3>3. StartRejected => table' = table
      BY DEF StartRejected, schedVars
    <3>4. WaitClock => table' = table
      BY DEF WaitClock, wait_clock
    <3> QED BY <2>2, <2>8, <3>1, <3>2, <3>3, <3>4 DEF SchedulerStep
  <2>9. ASSUME NEW p, NEW pr,
               \/ StartAbandoned(p, pr) \/ NewProcess(p, pr) \/ chprio(p, pr)
        PROVE  StatusKept
    <3>1. table \subseteq table'
      BY <2>9 DEF StartAbandoned, NewProcess, Enter, chprio
    <3> QED BY <2>2, <3>1
  <2>10. CASE UNCHANGED vars
    BY <2>2, <2>10 DEF vars, schedVars
  <2> QED BY <1>1, <2>3, <2>4, <2>5, <2>6, <2>7, <2>8, <2>9, <2>10
          DEF Next, start, start_virtual
<1>2. ProcessIInv /\ [Next]_vars => [StatusKept]_vars
  BY <1>1
<1>3. Spec => [][StatusKept]_vars
  BY <1>2, ProcessInvariant, PTL DEF Spec
<1> QED BY <1>3 DEF ExitStatusKept, StatusKept
==============================================================================
