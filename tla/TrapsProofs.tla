---------------------------- MODULE TrapsProofs ------------------------------
(***************************************************************************)
(* The trap paths (Spec): the steps that change the queue of activatable   *)
(* processes, context_switch among them, preserve the invariant of         *)
(* TrapsInv, and the theorems that follow from it.                         *)
(***************************************************************************)
EXTENDS TrapsStepProofs, PrioQueueProofs

(* Zenon proves most leaves; the others name SMT.                          *)
USE ZenonT(60)
------------------------------------------------------------------------------
(* The first processes                                                     *)

(* What start_virtual prepares is the context of a process that has not    *)
(* run yet.                                                                *)
LEMMA NewContextFacts ==
  ASSUME NEW p \in Procs, NEW f \in Frames
  PROVE  NewContext(p, f) \in Context /\ NotRunYet(p, NewContext(p, f), f)
<1>1. /\ Base(UserStack(p)) \in Pointer /\ Base(TrapStack(f)) \in Pointer
      /\ User(p, 0) \in Address /\ Argument(p) \in Register
      /\ p \in ProcId /\ "process_call_wrapper_user" \in Label
  BY StackFacts, AddressFacts, RegisterFacts DEF ProcId, Label
<1>2. NewContext(p, f) \in Context
  BY <1>1 DEF NewContext, Context
<1>3. NotRunYet(p, NewContext(p, f), f)
  BY DEF NewContext, NotRunYet
<1> QED BY <1>2, <1>3

(* get_frame returns a free frame.                                         *)
LEMMA GetFrame ==
  ASSUME NEW S, S # {}
  PROVE  get_frame(S) \in S
BY DEF get_frame

(* The queue is ordered by priority.                                       *)
LEMMA PrioKey == prio \in [Procs -> Int]
BY SMTT(30) DEF prio

(* idle and the shell are ready before interrupts are let in.              *)
LEMMA KernelStartInv ==
  ASSUME TrapsIInv, kernel_start
  PROVE  TrapsIInv'
<1> DEFINE f == get_frame(Frames)
           g == get_frame(Frames \ {f})
           q == queue_add(<< >>, idle, prio)
           r == queue_add(q, shell, prio)
           C == NewContext(idle, f)
           D == NewContext(shell, g)
<1>1. /\ StartsUp(hart) /\ pid = NoPid /\ dead = {} /\ ~InMachineTrap
      /\ hart \in Hart /\ csr \in Csr
      /\ timer \in [armed : BOOLEAN, due : BOOLEAN]
      /\ hart.sp = Base(BootStack) /\ csr.sscratch = Base(StrapStack)
      /\ csr.mscratch = Base(MtrapStack) /\ csr.enabled = EnabledInterrupts(virt)
      /\ ~csr.ssip /\ hart.mode = "S"
  BY StartUpRegisters DEF kernel_start
<1>2. \A p \in Procs : state[p] = "NONE" /\ sscratch_frame[p] = NoPid
  BY <1>1 DEF StartsUp, TrapsIInv, TrapStacks
<1>3. idle \in Procs /\ shell \in Procs /\ idle # shell
  BY TrapsAssumption
<1>4. f \in Frames /\ g \in Frames /\ g # f /\ f # NoPid /\ g # NoPid
  <2>1. f \in Frames
    BY TrapsAssumption, GetFrame
  <2>2. Frames \ {f} # {}
    BY TrapsAssumption, SMTT(30)
  <2>3. g \in Frames \ {f}
    BY <2>2, GetFrame
  <2> QED BY <2>1, <2>3, TrapsAssumption
<1>5. /\ context' = [context EXCEPT ![idle] = C, ![shell] = D]
      /\ sscratch_frame' = [sscratch_frame EXCEPT ![idle] = f, ![shell] = g]
      /\ state' = [state EXCEPT ![idle] = "ACTIVATABLE", ![shell] = "ACTIVATABLE"]
      /\ activatable' = r
      /\ timer' = IF virt THEN [armed |-> TRUE, due |-> FALSE] ELSE timer
      /\ csr' = [csr EXCEPT !.spp = FALSE, !.sie = TRUE]
      /\ hart' = Goto(hart, "wfi")
      /\ UNCHANGED <<virt, mem, first_call, counter, pid, dead, own>>
  BY DEF kernel_start
<1> HIDE DEF f, g
<1>6. /\ C \in Context /\ NotRunYet(idle, C, f)
      /\ D \in Context /\ NotRunYet(shell, D, g)
  BY <1>3, <1>4, NewContextFacts
<1> HIDE DEF C, D
<1>7. r \in Seq(Procs) /\ Range(r) = {idle, shell} /\ IsInjective(r)
  <2>1. << >> \in Seq(Procs) /\ IsInjective(<< >>) /\ Range(<< >>) = {}
    BY SMTT(30) DEF IsInjective, Range
  <2> DEFINE none == << >>
  <2>2. none \in Seq(Procs) /\ IsInjective(none) /\ Range(none) = {}
    BY <2>1
  <2>3. q = queue_add(none, idle, prio)
    OBVIOUS
  <2> HIDE DEF none, q
  <2>4. queue_add(none, idle, prio) \in Seq(Procs)
    BY <1>3, <2>2, PrioKey, QueueAdd
  <2>5. Range(queue_add(none, idle, prio)) = Range(none) \cup {idle}
    BY <1>3, <2>2, PrioKey, QueueAdd, SMTT(30)
  <2>6. IsInjective(queue_add(none, idle, prio))
    BY <1>3, <2>2, PrioKey, QueueAdd
  <2>7. q \in Seq(Procs) /\ Range(q) = {idle} /\ IsInjective(q)
    BY <2>2, <2>3, <2>4, <2>5, <2>6
  <2>8. shell \notin Range(q)
    BY <1>3, <2>7
  <2>9. Range(r) = Range(q) \cup {shell}
    BY <1>3, <2>7, PrioKey, QueueAdd, SMTT(30)
  <2>10. r \in Seq(Procs) /\ IsInjective(r)
    BY <1>3, <2>7, <2>8, PrioKey, QueueAdd
  <2> QED BY <2>7, <2>9, <2>10
<1> HIDE DEF r
<1>8. /\ state'[idle] = "ACTIVATABLE" /\ state'[shell] = "ACTIVATABLE"
      /\ \A p \in Procs : p \notin {idle, shell} => state'[p] = "NONE"
      /\ state' \in [Procs -> {"NONE", "ACTIVATABLE", "ACTIF", "BLOCKED", "ZOMBIE",
                               "KILLED"}]
  BY <1>2, <1>3, <1>5 DEF TrapsIInv, ProcTypes
<1>9. /\ sscratch_frame'[idle] = f /\ sscratch_frame'[shell] = g
      /\ \A p \in Procs : p \notin {idle, shell} => sscratch_frame'[p] = NoPid
      /\ sscratch_frame' \in [Procs -> Frames \cup {NoPid}]
  BY <1>2, <1>3, <1>4, <1>5 DEF TrapsIInv, ProcTypes
<1>10. context'[idle] = C /\ context'[shell] = D /\ context' \in [ProcId -> Context]
  <2>1. context \in [ProcId -> Context] /\ idle \in ProcId /\ shell \in ProcId
    BY <1>3 DEF TrapsIInv, ProcTypes, ProcId
  <2> QED BY <1>3, <1>5, <1>6, <2>1
<1>11. ProcTypes'
  <2>1. /\ pid' \in ProcId /\ dead' \subseteq Procs
        /\ own' \in [Procs -> [n : Nat, gpr : Register, a0 : Register, sreg : Register]]
    BY <1>5 DEF ProcTypes, TrapsIInv
  <2>2. activatable' \in Seq(Procs)
    BY <1>5, <1>7
  <2> QED BY <1>8, <1>9, <1>10, <2>1, <2>2 DEF ProcTypes
<1>12. Scheduling'
  BY <1>1, <1>5, <1>7, <1>8 DEF Scheduling
<1>13. TrapStacks'
  BY <1>4, <1>8, <1>9 DEF TrapStacks
<1>14. Saved'
  <2> SUFFICES ASSUME NEW p \in {idle, shell}
               PROVE  NotRunYet(p, context'[p], sscratch_frame'[p])
    BY <1>8 DEF Saved, Resumable, Alive, NotRunYet
  <2> QED BY <1>6, <1>9, <1>10
<1>15. /\ hart' \in Hart /\ hart'.pc = Kernel("wfi") /\ hart'.pc.at = "wfi"
       /\ hart'.sp = hart.sp /\ hart'.mode = hart.mode
  BY <1>1, <1>5, GotoHart, SMTT(30) DEF Label
<1>16. /\ csr' \in Csr /\ csr'.sscratch = csr.sscratch /\ csr'.mscratch = csr.mscratch
       /\ csr'.sie = TRUE /\ csr'.ssip = csr.ssip /\ csr'.enabled = csr.enabled
  <2>1. csr' \in Csr
    BY <1>1, <1>5 DEF Csr
  <2> QED BY <1>1, <1>5, <2>1 DEF Csr
<1>17. timer' \in [armed : BOOLEAN, due : BOOLEAN]
  BY <1>1, <1>5
<1>18. HartTypes' /\ DeviceTypes'
  BY <1>5, <1>15, <1>16, <1>17 DEF HartTypes, DeviceTypes, TrapsIInv
<1>19. WaitsForInterrupt(hart)'
  BY <1>1, <1>5, <1>7, <1>15, <1>16 DEF WaitsForInterrupt
<1>20. Where(hart)'
  BY <1>1, <1>5, <1>8, <1>19 DEF Where, Booting
<1>21. hart'.pc.at \notin StartUpCode \cup {"mtrap_handler", "mtrap_exit"}
  BY <1>15 DEF StartUpCode
<1> QED BY <1>1, <1>5, <1>11, <1>12, <1>13, <1>14, <1>15, <1>16, <1>18, <1>20, <1>21,
           Assembled
------------------------------------------------------------------------------
(* Processes that are woken, started, killed and reaped                    *)

(* A process that is made or woken joins the queue.                        *)
LEMMA Activated ==
  ASSUME TrapsIInv, NEW q \in Procs, state[q] \in {"NONE", "BLOCKED"}, q # pid,
         state' = [state EXCEPT ![q] = "ACTIVATABLE"],
         activatable' = queue_add(activatable, q, prio),
         pid' = pid, dead' = dead
  PROVE  /\ Scheduling' /\ activatable' \in Seq(Procs)
         /\ state' \in [Procs -> {"NONE", "ACTIVATABLE", "ACTIF", "BLOCKED", "ZOMBIE",
                                  "KILLED"}]
         /\ state'[q] = "ACTIVATABLE"
         /\ \A p \in Procs : p # q => state'[p] = state[p]
<1>1. /\ state \in [Procs -> {"NONE", "ACTIVATABLE", "ACTIF", "BLOCKED", "ZOMBIE",
                              "KILLED"}]
      /\ activatable \in Seq(Procs) /\ dead \subseteq Procs
      /\ idle \in Procs /\ (pid # NoPid => pid \in Procs)
  BY TrapsAssumption DEF TrapsIInv, ProcTypes, ProcId
<1>2. /\ state' \in [Procs -> {"NONE", "ACTIVATABLE", "ACTIF", "BLOCKED", "ZOMBIE",
                               "KILLED"}]
      /\ state'[q] = "ACTIVATABLE"
      /\ \A p \in Procs : p # q => state'[p] = state[p]
  BY <1>1
<1>3. q \notin Range(activatable) /\ IsInjective(activatable)
  BY DEF TrapsIInv, Scheduling
<1>4. activatable' \in Seq(Procs)
  BY <1>1, PrioKey, QueueAdd
<1>5. Range(activatable') = Range(activatable) \cup {q}
  BY <1>1, PrioKey, QueueAdd, SMTT(30)
<1>6. IsInjective(activatable')
  BY <1>1, <1>3, PrioKey, QueueAdd
<1>7. Scheduling'
  <2>1. \A p \in Procs : state'[p] = "ACTIVATABLE" <=> p \in Range(activatable')
    BY <1>2, <1>5 DEF TrapsIInv, Scheduling
  <2>2. \A p \in Procs : state'[p] = "ACTIF" => p = pid'
    BY <1>2 DEF TrapsIInv, Scheduling
  <2>3. \A p \in dead' : state'[p] = "KILLED" /\ p # pid'
    BY <1>1, <1>2 DEF TrapsIInv, Scheduling
  <2>4. pid # NoPid => state'[pid] = state[pid]
    BY <1>1, <1>2
  <2>5. pid' # NoPid => state'[pid'] \notin {"NONE", "ACTIVATABLE"}
    BY <2>4 DEF TrapsIInv, Scheduling
  <2>6. pid' # NoPid => IF pid' = idle THEN state'[idle] = "ACTIF"
                                       ELSE idle \in Range(activatable')
    BY <1>5, <2>4 DEF TrapsIInv, Scheduling
  <2> QED BY <1>6, <2>1, <2>2, <2>3, <2>5, <2>6 DEF Scheduling
<1> QED BY <1>2, <1>4, <1>7

(* A process that is woken keeps what it resumes from.                     *)
LEMMA WakeFacts ==
  ASSUME TrapsIInv, pid # NoPid, state[pid] = "ACTIF", NEW q \in Blocked, Wake(q),
         UNCHANGED <<context, own>>
  PROVE  /\ ProcTypes' /\ Scheduling' /\ TrapStacks'
         /\ pid' = pid /\ state'[pid] = "ACTIF"
         /\ sscratch_frame'[pid] = sscratch_frame[pid]
         /\ \A p \in Procs : p # pid /\ state'[p] \in Alive =>
              /\ state[p] \in Alive /\ context'[p] = context[p]
              /\ sscratch_frame'[p] = sscratch_frame[p]
<1>1. /\ q \in Procs /\ state[q] = "BLOCKED" /\ q # pid /\ pid \in Procs
  BY DEF Blocked, TrapsIInv, ProcTypes, ProcId
<1>2. /\ state' = [state EXCEPT ![q] = "ACTIVATABLE"]
      /\ activatable' = queue_add(activatable, q, prio)
      /\ pid' = pid /\ dead' = dead /\ sscratch_frame' = sscratch_frame
  BY DEF Wake
<1>3. /\ Scheduling' /\ activatable' \in Seq(Procs)
      /\ state' \in [Procs -> {"NONE", "ACTIVATABLE", "ACTIF", "BLOCKED", "ZOMBIE",
                               "KILLED"}]
      /\ state'[q] = "ACTIVATABLE"
      /\ \A p \in Procs : p # q => state'[p] = state[p]
  <2>1. state[q] \in {"NONE", "BLOCKED"}
    BY <1>1
  <2> QED BY <1>1, <1>2, <2>1, Activated
<1>4. ProcTypes'
  BY <1>2, <1>3 DEF TrapsIInv, ProcTypes
<1>5. TrapStacks'
  BY <1>1, <1>2, <1>3 DEF TrapsIInv, TrapStacks
<1> QED BY <1>1, <1>2, <1>3, <1>4, <1>5 DEF Alive

(* A system call that wakes a process.                                     *)
LEMMA CallWakesInv ==
  ASSUME TrapsIInv, NEW q \in Procs, CallWakes(q)
  PROVE  TrapsIInv'
<1>1. /\ At("strap_handler") /\ csr.scause = "ecall"
      /\ UNCHANGED <<virt, csr, timer, first_call, counter, own>>
      /\ q \in Blocked /\ Wake(q) /\ context' = context
      /\ \/ hart' = Goto(hart, "ecall_end") /\ mem' = mem
         \/ Call("scheduler", "ecall_end")
  BY DEF CallWakes, InCall, InHandler, devices, Preempts, Resumes, Reschedules
<1>2. pid # NoPid /\ pid \in Procs /\ state[pid] = "ACTIF"
  BY <1>1, Caller
<1>3. /\ ProcTypes' /\ Scheduling' /\ TrapStacks'
      /\ pid' = pid /\ state'[pid] = "ACTIF"
      /\ sscratch_frame'[pid] = sscratch_frame[pid]
      /\ \A p \in Procs : p # pid /\ state'[p] \in Alive =>
           /\ state[p] \in Alive /\ context'[p] = context[p]
           /\ sscratch_frame'[p] = sscratch_frame[p]
  BY <1>1, <1>2, WakeFacts
<1> QED BY <1>1, <1>2, <1>3, HandlerGoesOn

(* A keyboard interrupt wakes a reader, or nobody; before the first        *)
(* process runs there is nobody to wake.                                   *)
LEMMA ExternalCaseInv ==
  ASSUME TrapsIInv, s_external
  PROVE  TrapsIInv'
<1>1. /\ At("strap_handler") /\ csr.scause = "s_external"
      /\ UNCHANGED <<virt, csr, timer, first_call, counter, context, own>>
      /\ \/ (\E q \in Blocked : Wake(q)) /\ Call("scheduler", "strap_exit")
         \/ hart' = Goto(hart, "strap_exit") /\ UNCHANGED <<mem, processes>>
  BY DEF s_external, InHandler
<1>2. "strap_handler" \in HandlerCode /\ "strap_exit" \in Label
  BY DEF HandlerCode, Label, StartUpCode
<1>3. CASE pid = NoPid
  <2>1. /\ InFirstTrap(hart) /\ ~InMachineTrap /\ hart.mode = "S"
        /\ \A p \in Procs : state[p] \in {"NONE", "ACTIVATABLE"}
        /\ dead = {}
        /\ hart.sp.stack = StrapStack /\ hart.sp.depth = Len(mem[StrapStack])
        /\ hart.sp.depth = 1 /\ ~csr.ssip /\ ~csr.sie
    BY <1>1, <1>2, <1>3, FirstTrapFacts
  <2>2. hart' = Goto(hart, "strap_exit") /\ UNCHANGED <<mem, processes>>
    BY <1>1, <2>1 DEF Blocked
  <2>3. hart \in Hart /\ csr' \in Csr /\ mem' \in [Stacks -> Seq(StackItem)]
    BY <1>1, <2>2 DEF TrapsIInv, HartTypes
  <2>4. /\ hart' \in Hart /\ hart'.pc = Kernel("strap_exit")
        /\ hart'.mode = "S" /\ hart'.sp = hart.sp
    BY <1>2, <2>1, <2>2, <2>3, GotoHart
  <2>5. DeviceTypes'
    BY <1>1 DEF TrapsIInv, DeviceTypes
  <2>6. UNCHANGED <<virt, first_call, processes, context, own>> /\ mem' = mem
    BY <1>1, <2>2 DEF processes
  <2>7. /\ hart'.sp.stack = StrapStack /\ hart'.sp.depth = Len(mem'[StrapStack])
        /\ hart'.sp.depth > 0 /\ hart'.sp.depth = 1
        /\ \A s \in Stacks : s # StrapStack => mem'[s] = mem[s]
    BY <2>6, <2>1, <2>4, SMTT(30)
  <2>8. /\ csr'.sscratch = csr.sscratch /\ csr'.sepc = csr.sepc /\ csr'.spp = csr.spp
        /\ csr'.spie = csr.spie /\ ~csr'.sie /\ ~csr'.ssip
        /\ csr'.mscratch = csr.mscratch /\ csr'.enabled = csr.enabled
    BY <1>1, <2>1
  <2> QED BY <1>3, <2>6, <2>1, <2>3, <2>4, <2>5, <2>7, <2>8, FirstTrapMoves
<1>4. CASE pid # NoPid
  <2>1. pid \in Procs /\ state[pid] = "ACTIF"
    BY <1>1, <1>2, <1>4, KernelStack
  <2>2. CASE (\E q \in Blocked : Wake(q)) /\ Call("scheduler", "strap_exit")
    <3>1. PICK q \in Blocked : Wake(q)
      BY <2>2
    <3>2. /\ ProcTypes' /\ Scheduling' /\ TrapStacks'
          /\ pid' = pid /\ state'[pid] = "ACTIF"
          /\ sscratch_frame'[pid] = sscratch_frame[pid]
          /\ \A p \in Procs : p # pid /\ state'[p] \in Alive =>
               /\ state[p] \in Alive /\ context'[p] = context[p]
               /\ sscratch_frame'[p] = sscratch_frame[p]
      BY <1>1, <1>4, <2>1, <3>1, WakeFacts
    <3> QED BY <1>1, <1>4, <2>2, <3>2, HandlerGoesOn
  <2>3. CASE hart' = Goto(hart, "strap_exit") /\ UNCHANGED <<mem, processes>>
    <3>1. ProcTypes' /\ Scheduling' /\ TrapStacks'
      BY <1>1, <2>3 DEF TrapsIInv, ProcTypes, Scheduling, TrapStacks, processes
    <3>2. pid' = pid /\ state' = state /\ sscratch_frame' = sscratch_frame
      BY <2>3 DEF processes
    <3> QED BY <1>1, <1>4, <2>1, <2>3, <3>1, <3>2, HandlerGoesOn
  <2> QED BY <1>1, <2>2, <2>3
<1> QED BY <1>3, <1>4

(* A system call that makes a process, on a trap stack nobody has.         *)
LEMMA CallStartsInv ==
  ASSUME TrapsIInv, NEW q \in Procs, CallStarts(q)
  PROVE  TrapsIInv'
<1> DEFINE f == get_frame(FreeFrames)
           C == NewContext(q, f)
<1>1. /\ At("strap_handler") /\ csr.scause = "ecall"
      /\ UNCHANGED <<virt, csr, timer, first_call, counter, own>>
      /\ \/ hart' = Goto(hart, "ecall_end") /\ mem' = mem
         \/ Call("scheduler", "ecall_end")
  BY DEF CallStarts, InCall, InHandler, devices, Preempts, Resumes, Reschedules
<1>2. /\ state[q] = "NONE" /\ FreeFrames # {}
      /\ context' = [context EXCEPT ![q] = C]
      /\ sscratch_frame' = [sscratch_frame EXCEPT ![q] = f]
      /\ state' = [state EXCEPT ![q] = "ACTIVATABLE"]
      /\ activatable' = queue_add(activatable, q, prio)
      /\ pid' = pid /\ dead' = dead
  BY DEF CallStarts
<1>3. pid # NoPid /\ pid \in Procs /\ state[pid] = "ACTIF" /\ q # pid
  BY <1>1, <1>2, Caller
<1>4. f \in Frames /\ f # NoPid /\ \A p \in Procs : sscratch_frame[p] # f
  <2>1. f \in FreeFrames
    BY <1>2, GetFrame
  <2> QED BY <2>1, TrapsAssumption DEF FreeFrames
<1> HIDE DEF f
<1>5. C \in Context /\ NotRunYet(q, C, f)
  BY <1>4, NewContextFacts
<1> HIDE DEF C
<1>6. /\ Scheduling' /\ activatable' \in Seq(Procs)
      /\ state' \in [Procs -> {"NONE", "ACTIVATABLE", "ACTIF", "BLOCKED", "ZOMBIE",
                               "KILLED"}]
      /\ state'[q] = "ACTIVATABLE"
      /\ \A p \in Procs : p # q => state'[p] = state[p]
  <2>1. state[q] \in {"NONE", "BLOCKED"}
    BY <1>2
  <2> QED BY <1>2, <1>3, <2>1, Activated
<1>7. /\ context' \in [ProcId -> Context] /\ context'[q] = C
      /\ \A p \in Procs : p # q => context'[p] = context[p]
  <2>1. context \in [ProcId -> Context] /\ q \in ProcId
    BY DEF TrapsIInv, ProcTypes, ProcId
  <2> QED BY <1>2, <1>5, <2>1 DEF ProcId
<1>8. /\ sscratch_frame' \in [Procs -> Frames \cup {NoPid}] /\ sscratch_frame'[q] = f
      /\ \A p \in Procs : p # q => sscratch_frame'[p] = sscratch_frame[p]
  BY <1>2, <1>4 DEF TrapsIInv, ProcTypes
<1>9. ProcTypes'
  <2>1. /\ pid' \in ProcId /\ dead' \subseteq Procs
        /\ own' \in [Procs -> [n : Nat, gpr : Register, a0 : Register, sreg : Register]]
    BY <1>1, <1>2 DEF ProcTypes, TrapsIInv
  <2> QED BY <1>6, <1>7, <1>8, <2>1 DEF ProcTypes
<1>10. TrapStacks'
  BY <1>4, <1>6, <1>8, SMTT(30) DEF TrapsIInv, TrapStacks
<1>11. \A p \in Procs : p # pid /\ state'[p] \in Alive =>
         \/ NotRunYet(p, context'[p], sscratch_frame'[p])
         \/ /\ state[p] \in Alive /\ context'[p] = context[p]
            /\ sscratch_frame'[p] = sscratch_frame[p]
  BY <1>5, <1>6, <1>7, <1>8
<1>12. state'[pid] = "ACTIF" /\ sscratch_frame'[pid] = sscratch_frame[pid]
  BY <1>3, <1>6, <1>8
<1> QED BY <1>1, <1>2, <1>3, <1>6, <1>9, <1>10, <1>11, <1>12, HandlerGoesOn

(* A process kills another one, or waits for one that has ended.           *)
LEMMA CallEndsInv ==
  ASSUME TrapsIInv, NEW q \in Procs, CallKills(q) \/ CallReaps(q)
  PROVE  TrapsIInv'
<1>1. /\ At("strap_handler") /\ csr.scause = "ecall"
      /\ UNCHANGED <<virt, csr, timer, first_call, counter, own>>
      /\ hart' = Goto(hart, "ecall_end") /\ mem' = mem
      /\ UNCHANGED <<pid, dead, context>>
      /\ state[q] \in {"ACTIVATABLE", "BLOCKED", "ZOMBIE"}
      /\ Freed({}, [state EXCEPT ![q] = "ZOMBIE"]) \/ Freed({q}, state)
  BY DEF CallKills, CallReaps, InCall, InHandler, devices, Resumes
<1>2. pid # NoPid /\ pid \in Procs /\ pid # idle /\ state[pid] = "ACTIF"
  BY <1>1, Caller
<1>3. ProcTypes /\ Scheduling /\ TrapStacks /\ activatable \in Seq(Procs)
  BY DEF TrapsIInv, ProcTypes
<1>4. q # pid /\ q \notin dead /\ q # idle /\ state[q] # "NONE"
  <2>1. q # pid /\ q \notin dead /\ state[q] # "NONE"
    BY <1>1, <1>2, <1>3 DEF Scheduling
  <2>2. q # idle
    <3>1. state[idle] = "ACTIVATABLE"
      BY <1>2, <1>3, TrapsAssumption DEF Scheduling
    <3> QED BY <3>1 DEF CallKills, CallReaps
  <2> QED BY <2>1, <2>2
<1>5. /\ activatable' \in Seq(Procs) /\ IsInjective(activatable')
      /\ Range(activatable') = Range(activatable) \ {q}
  <2>1. IsInjective(activatable)
    BY <1>3 DEF Scheduling
  <2>2. CASE CallKills(q) /\ q \in Range(activatable)
    <3>1. activatable' = queue_del(activatable, q)
      BY <2>2 DEF CallKills, Linked
    <3> QED BY <1>3, <2>1, <2>2, <3>1, QueueDel
  <2>3. CASE q \notin Range(activatable)
    <3>1. activatable' = activatable
      BY <2>3 DEF CallKills, CallReaps, Linked
    <3> QED BY <1>3, <2>1, <2>3, <3>1
  <2>4. CallReaps(q) => q \notin Range(activatable)
    BY <1>3 DEF CallReaps, Scheduling
  <2> QED BY <2>2, <2>3, <2>4
<1>6. PICK s \in {"NONE", "ZOMBIE"} :
        /\ state' \in [Procs -> {"NONE", "ACTIVATABLE", "ACTIF", "BLOCKED", "ZOMBIE",
                                 "KILLED"}]
        /\ state'[q] = s /\ \A p \in Procs : p # q => state'[p] = state[p]
        /\ sscratch_frame' \in [Procs -> Frames \cup {NoPid}]
        /\ sscratch_frame'[q] = (IF s = "NONE" THEN NoPid ELSE sscratch_frame[q])
        /\ \A p \in Procs : p # q => sscratch_frame'[p] = sscratch_frame[p]
  <2> DEFINE st == [state EXCEPT ![q] = "ZOMBIE"]
             States == {"NONE", "ACTIVATABLE", "ACTIF", "BLOCKED", "ZOMBIE", "KILLED"}
  <2>1. state \in [Procs -> States] /\ st \in [Procs -> States]
    BY <1>3 DEF ProcTypes
  <2>2. st[q] = "ZOMBIE" /\ \A p \in Procs : p # q => st[p] = state[p]
    BY <2>1
  <2>3. Freed({}, st) \/ Freed({q}, state)
    BY <1>1
  <2> HIDE DEF st
  <2>4. CASE Freed({}, st)
    <3>1. /\ state' \in [Procs -> States]
          /\ sscratch_frame' \in [Procs -> Frames \cup {NoPid}]
          /\ \A p \in Procs : state'[p] = st[p] /\ sscratch_frame'[p] = sscratch_frame[p]
      BY <1>3, <2>1, <2>4 DEF ProcTypes, Freed
    <3> QED BY <2>2, <3>1
  <2>5. CASE Freed({q}, state)
    <3>1. /\ state' \in [Procs -> States]
          /\ sscratch_frame' \in [Procs -> Frames \cup {NoPid}]
          /\ state'[q] = "NONE" /\ sscratch_frame'[q] = NoPid
          /\ \A p \in Procs : p # q =>
               state'[p] = state[p] /\ sscratch_frame'[p] = sscratch_frame[p]
      BY <1>3, <2>1, <2>5 DEF ProcTypes, Freed
    <3> QED BY <3>1
  <2> QED BY <2>3, <2>4, <2>5
<1>7. ProcTypes' /\ Scheduling' /\ TrapStacks'
  <2>1. q \in Procs \ {idle} /\ s \in {"NONE", "ZOMBIE", "KILLED"}
    BY <1>4, <1>6
  <2> QED BY <1>1, <1>2, <1>4, <1>5, <1>6, <2>1, Ended
<1>8. \A p \in Procs : p # pid /\ state'[p] \in Alive =>
        /\ state[p] \in Alive /\ context'[p] = context[p]
        /\ sscratch_frame'[p] = sscratch_frame[p]
  BY <1>1, <1>6 DEF Alive
<1>9. state'[pid] = "ACTIF" /\ sscratch_frame'[pid] = sscratch_frame[pid]
  BY <1>2, <1>4, <1>6
<1> QED BY <1>1, <1>2, <1>7, <1>8, <1>9, HandlerGoesOn

------------------------------------------------------------------------------
(* context_switch                                                          *)

(* The top of the queue takes over from the current process.               *)
LEMMA SwitchedStates ==
  ASSUME TrapsIInv, At("scheduler"), scheduler_switches
  PROVE  LET top == queue_top(activatable) IN
         /\ top \in Procs /\ top # pid /\ state[top] = "ACTIVATABLE" /\ top \notin dead
         /\ pid' = top /\ dead' \subseteq Procs
         /\ state' \in [Procs -> {"NONE", "ACTIVATABLE", "ACTIF", "BLOCKED", "ZOMBIE",
                                  "KILLED"}]
         /\ sscratch_frame' \in [Procs -> Frames \cup {NoPid}]
         /\ activatable' \in Seq(Procs)
         /\ state'[top] = "ACTIF"
         /\ \A p \in Procs : p \notin dead => sscratch_frame'[p] = sscratch_frame[p]
         /\ \A p \in Procs \ {top, pid} : p \notin dead => state'[p] = state[p]
         /\ \A p \in dead : state'[p] = "NONE" /\ sscratch_frame'[p] = NoPid
         /\ pid # NoPid => /\ pid \notin dead /\ pid \in Procs
                           /\ state'[pid] \in Alive => state[pid] \in Alive
                           /\ CurrentState = "KILLED" => state'[pid] = "KILLED"
         /\ Scheduling' /\ TrapStacks'
<1> DEFINE top == queue_top(activatable)
           rest == queue_out(activatable)
           States == {"NONE", "ACTIVATABLE", "ACTIF", "BLOCKED", "ZOMBIE", "KILLED"}
           swaps == CurrentState = "ACTIF"
           left == IF swaps THEN [state EXCEPT ![pid] = "ACTIVATABLE"] ELSE state
           st == [left EXCEPT ![top] = "ACTIF"]
<1>1. /\ ~Stays /\ pid' = top
      /\ activatable' = IF swaps THEN queue_add(rest, pid, prio) ELSE rest
      /\ Freed(dead, st)
      /\ dead' = IF CurrentState = "KILLED" THEN {pid} ELSE {}
  BY DEF scheduler_switches
<1>2. /\ state \in [Procs -> States] /\ activatable \in Seq(Procs)
      /\ dead \subseteq Procs /\ (pid # NoPid => pid \in Procs)
      /\ sscratch_frame \in [Procs -> Frames \cup {NoPid}]
      /\ Scheduling /\ TrapStacks /\ idle \in Procs /\ NoPid \notin Procs
  BY TrapsAssumption DEF TrapsIInv, ProcTypes, ProcId
<1>3. activatable # << >>
  BY <1>1 DEF Stays, queue_empty
<1>4. /\ top \in Procs /\ top \in Range(activatable) /\ rest \in Seq(Procs)
      /\ IsInjective(rest) /\ Range(rest) = Range(activatable) \ {top}
  <2>1. top \in Procs /\ rest \in Seq(Procs)
    BY <1>2, <1>3, PrioKey, QueueOut
  <2>2. Range(rest) \cup {top} = Range(activatable)
    BY <1>2, <1>3, PrioKey, QueueOut
  <2>3. IsInjective(rest) /\ top \notin Range(rest)
    <3>1. IsInjective(activatable)
      BY <1>2 DEF Scheduling
    <3> QED BY <1>2, <1>3, <3>1, PrioKey, QueueOut
  <2> QED BY <2>1, <2>2, <2>3
<1> HIDE DEF top, rest
<1>5. state[top] = "ACTIVATABLE" /\ top # pid /\ top \notin dead
  <2>1. state[top] = "ACTIVATABLE"
    BY <1>2, <1>4 DEF Scheduling
  <2> QED BY <1>2, <1>4, <2>1, SMTT(30) DEF Scheduling
<1>6. /\ left \in [Procs -> States]
      /\ \A p \in Procs : p # pid => left[p] = state[p]
      /\ pid # NoPid => /\ state[pid] = "ACTIF" => left[pid] = "ACTIVATABLE"
                        /\ state[pid] # "ACTIF" => left[pid] = state[pid]
  <2>1. CASE swaps
    <3>1. pid # NoPid /\ pid \in Procs /\ state[pid] = "ACTIF"
      BY <1>2, <2>1 DEF CurrentState
    <3>2. left = [state EXCEPT ![pid] = "ACTIVATABLE"]
      BY <2>1
    <3> QED BY <1>2, <3>1, <3>2
  <2>2. CASE ~swaps
    <3>1. left = state
      BY <2>2
    <3>2. pid # NoPid => state[pid] # "ACTIF"
      BY <2>2 DEF CurrentState
    <3> HIDE DEF left
    <3> QED BY <1>2, <3>1, <3>2
  <2> QED BY <2>1, <2>2
<1> HIDE DEF left
<1>7. /\ st \in [Procs -> States] /\ st[top] = "ACTIF"
      /\ \A p \in Procs : p # top => st[p] = left[p]
  BY <1>4, <1>6
<1> HIDE DEF st
<1>8. /\ state' \in [Procs -> States]
      /\ sscratch_frame' \in [Procs -> Frames \cup {NoPid}]
      /\ \A p \in dead : state'[p] = "NONE" /\ sscratch_frame'[p] = NoPid
      /\ \A p \in Procs : p \notin dead =>
           state'[p] = st[p] /\ sscratch_frame'[p] = sscratch_frame[p]
  BY <1>1, <1>2, <1>7 DEF Freed
<1>9. pid # NoPid => pid \in Procs /\ pid \notin dead
                     /\ state[pid] \notin {"NONE", "ACTIVATABLE"}
  BY <1>2 DEF Scheduling
<1>10. /\ state'[top] = "ACTIF"
       /\ \A p \in Procs \ {top, pid} : p \notin dead => state'[p] = state[p]
       /\ pid # NoPid => /\ state[pid] = "ACTIF" => state'[pid] = "ACTIVATABLE"
                         /\ state[pid] # "ACTIF" => state'[pid] = state[pid]
  BY <1>4, <1>5, <1>6, <1>7, <1>8, <1>9
<1>11. /\ dead' \subseteq Procs
       /\ \A p \in dead' : p = pid /\ pid # NoPid /\ state[pid] = "KILLED"
  BY <1>1, <1>9 DEF CurrentState
<1>12. /\ activatable' \in Seq(Procs) /\ IsInjective(activatable')
       /\ \A p \in Procs : p \in Range(activatable') <=>
            \/ p \in Range(activatable) /\ p # top
            \/ p = pid /\ state[pid] = "ACTIF"
  <2>1. CASE swaps
    <3>1. pid # NoPid /\ pid \in Procs /\ state[pid] = "ACTIF"
      BY <1>2, <2>1 DEF CurrentState
    <3>2. activatable' = queue_add(rest, pid, prio)
      BY <1>1, <2>1
    <3>3. pid \notin Range(rest)
      BY <1>2, <1>4, <3>1 DEF Scheduling
    <3>4. activatable' \in Seq(Procs)
      BY <1>4, <3>1, <3>2, PrioKey, QueueAdd
    <3>5. Range(activatable') = Range(rest) \cup {pid}
      BY <1>4, <3>1, <3>2, PrioKey, QueueAdd, SMTT(30)
    <3>6. IsInjective(activatable')
      BY <1>4, <3>1, <3>2, <3>3, PrioKey, QueueAdd
    <3> QED BY <1>4, <3>1, <3>4, <3>5, <3>6
  <2>2. CASE ~swaps
    <3>1. activatable' = rest
      BY <1>1, <2>2
    <3>2. \A p \in Procs : ~(p = pid /\ state[pid] = "ACTIF")
      BY <1>2, <2>2 DEF CurrentState
    <3> QED BY <1>4, <3>1, <3>2
  <2> QED BY <2>1, <2>2
<1>13. \A p \in Procs : state'[p] = "ACTIVATABLE" <=> p \in Range(activatable')
  <2> SUFFICES ASSUME NEW p \in Procs
               PROVE  state'[p] = "ACTIVATABLE" <=> p \in Range(activatable')
    OBVIOUS
  <2>1. state[p] = "ACTIVATABLE" <=> p \in Range(activatable)
    BY <1>2 DEF Scheduling
  <2>2. p \in dead => state[p] = "KILLED" /\ p # pid
    BY <1>2 DEF Scheduling
  <2> QED BY <1>2, <1>5, <1>8, <1>9, <1>10, <1>12, <2>1, <2>2
<1>14. \A p \in Procs : state'[p] = "ACTIF" => p = top
  BY <1>2, <1>8, <1>9, <1>10, SMTT(30) DEF Scheduling
<1>15. \A p \in dead' : state'[p] = "KILLED" /\ p # top
  BY <1>5, <1>9, <1>10, <1>11
<1>16. IF top = idle THEN state'[idle] = "ACTIF" ELSE idle \in Range(activatable')
  <2> SUFFICES ASSUME top # idle PROVE idle \in Range(activatable')
    BY <1>10
  <2>1. CASE pid = NoPid
    <3>1. "scheduler" \in HandlerCode
      BY DEF HandlerCode, Label, StartUpCode
    <3>2. idle \in Range(activatable)
      BY <2>1, <3>1, FirstTrapFacts DEF InFirstTrap
    <3> QED BY <1>2, <1>12, <3>2
  <2>2. CASE pid # NoPid
    BY <1>2, <1>12, <2>2 DEF Scheduling
  <2> QED BY <2>1, <2>2
<1>17. Scheduling'
  BY <1>1, <1>2, <1>4, <1>10, <1>12, <1>13, <1>14, <1>15, <1>16 DEF Scheduling
<1>18. TrapStacks'
  <2>1. \A p \in Procs : p \notin dead => (state'[p] = "NONE" <=> state[p] = "NONE")
    BY <1>2, <1>4, <1>5, <1>9, <1>10
  <2>2. \A p \in Procs : state'[p] = "NONE" <=> sscratch_frame'[p] = NoPid
    BY <1>2, <1>8, <2>1 DEF TrapStacks
  <2> QED BY <1>2, <1>8, <2>2, SMTT(30) DEF TrapStacks
<1>19. pid # NoPid => /\ state'[pid] \in Alive => state[pid] \in Alive
                      /\ CurrentState = "KILLED" => state'[pid] = "KILLED"
  BY <1>10 DEF Alive, CurrentState
<1> QED BY <1>1, <1>4, <1>5, <1>8, <1>9, <1>10, <1>11, <1>12, <1>17, <1>18, <1>19
        DEF top

(* context_switch resumes the top process and saves the current one, or    *)
(* drops it if it has ended.                                               *)
LEMMA SwitchesInv ==
  ASSUME TrapsIInv, scheduler_switches
  PROVE  TrapsIInv'
<1> DEFINE top == queue_top(activatable)
           C == context[top]
           c == ToUserMode(csr)
           dies == CurrentState = "KILLED"
<1>1. /\ At("scheduler") /\ UNCHANGED <<virt, mem, timer, first_call, counter, own>>
      /\ hart' = Swapped(hart, C) /\ csr' = SwappedCsr(c, C)
      /\ context' = IF dies THEN [context EXCEPT ![top] = NoContext]
                    ELSE [context EXCEPT ![pid] = SavedContext, ![top] = NoContext]
  BY DEF scheduler_switches, context_switch, direct_context_swap, devices, Swapped,
     SwappedCsr
<1>2. /\ top \in Procs /\ top # pid /\ state[top] = "ACTIVATABLE" /\ top \notin dead
      /\ pid' = top /\ dead' \subseteq Procs
      /\ state' \in [Procs -> {"NONE", "ACTIVATABLE", "ACTIF", "BLOCKED", "ZOMBIE",
                               "KILLED"}]
      /\ sscratch_frame' \in [Procs -> Frames \cup {NoPid}]
      /\ activatable' \in Seq(Procs)
      /\ state'[top] = "ACTIF"
      /\ \A p \in Procs : p \notin dead => sscratch_frame'[p] = sscratch_frame[p]
      /\ \A p \in Procs \ {top, pid} : p \notin dead => state'[p] = state[p]
      /\ \A p \in dead : state'[p] = "NONE" /\ sscratch_frame'[p] = NoPid
      /\ pid # NoPid => /\ pid \notin dead /\ pid \in Procs
                        /\ state'[pid] \in Alive => state[pid] \in Alive
                        /\ dies => state'[pid] = "KILLED"
      /\ Scheduling' /\ TrapStacks'
  BY <1>1, SwitchedStates
<1> HIDE DEF top
<1>3. /\ hart \in Hart /\ csr \in Csr /\ context \in [ProcId -> Context]
      /\ pid \in ProcId /\ top \in ProcId /\ C \in Context
  BY <1>2 DEF TrapsIInv, HartTypes, ProcTypes, ProcId
<1>4. /\ "scheduler" \in HandlerCode /\ "scheduler" \in Label
  BY DEF HandlerCode, Label, StartUpCode
<1>5. /\ ~InMachineTrap /\ hart.mode = "S" /\ ~csr.ssip /\ (csr.sie => virt)
      /\ virt => ~first_call
  <2>1. ~InMachineTrap /\ hart.mode = "S" /\ hart.pc.at = "scheduler"
    BY <1>1, <1>4, Supervisor DEF StartUpCode
  <2>2. CASE pid = NoPid
    <3>1. InFirstTrap(hart) /\ ~csr.ssip /\ ~csr.sie
      BY <1>1, <1>4, <2>2, FirstTrapFacts
    <3> QED BY <2>1, <3>1 DEF InFirstTrap
  <2>3. CASE pid # NoPid
    <3>1. ~csr.ssip /\ (csr.sie => virt)
      BY <1>1, <1>4, <2>3, KernelStack
    <3> QED BY <2>1, <2>3, <3>1 DEF TrapsIInv, Machine
  <2> QED BY <2>2, <2>3
<1>6. /\ SavedContext \in Context
      /\ pid # NoPid /\ state[pid] \in Alive =>
           Resumable(pid, SavedContext, sscratch_frame[pid], StackOf(pid), own[pid])
  BY <1>1, SavedCurrent
<1>7. NoContext \in Context
  <2>1. /\ Base(BootStack) \in Pointer /\ Base(StrapStack) \in Pointer
        /\ Nowhere \in Address /\ Junk \in Register /\ "none" \in Label
        /\ NoPid \in ProcId
    BY StackFacts, AddressFacts, RegisterFacts DEF Nowhere, Label, ProcId
  <2> QED BY <2>1 DEF NoContext, Context
<1>8. /\ context' \in [ProcId -> Context]
      /\ \A p \in Procs : p \notin {top, pid} => context'[p] = context[p]
      /\ ~dies => context'[pid] = SavedContext
  <2> HIDE DEF dies
  <2>1. \A p \in Procs : p \in ProcId
    BY DEF ProcId
  <2>2. CASE dies
    <3>1. context' = [context EXCEPT ![top] = NoContext]
      BY <1>1, <2>2
    <3> QED BY <1>3, <1>7, <2>1, <2>2, <3>1
  <2>3. CASE ~dies
    <3>1. context' = [context EXCEPT ![pid] = SavedContext, ![top] = NoContext]
      BY <1>1, <2>3
    <3> QED BY <1>2, <1>3, <1>6, <1>7, <2>1, <2>3, <3>1
  <2> QED BY <2>2, <2>3
<1>9. Resumable(top, C, sscratch_frame[top], StackOf(top), own[top])
  BY <1>2 DEF TrapsIInv, Saved, Alive
<1> HIDE DEF C
<1>10. /\ c \in Csr /\ ~c.spp /\ c.sie = csr.sie /\ c.ssip = csr.ssip
       /\ c.mscratch = csr.mscratch /\ c.enabled = csr.enabled
  BY <1>3, ToUserModeCsr
<1> HIDE DEF c
<1>11. /\ hart' \in Hart /\ hart'.pc = Kernel(C.ra) /\ hart'.pc.at = C.ra
       /\ hart'.mode = "S" /\ hart'.sp = C.sp /\ hart'.sreg = C.sreg
  BY <1>1, <1>3, <1>5, SwappedHart
<1>12. /\ csr' \in Csr
       /\ csr'.sscratch = C.sscratch /\ csr'.sepc = C.sepc /\ csr'.satp = C.satp
       /\ csr'.spp = c.spp /\ csr'.sie = c.sie /\ csr'.ssip = c.ssip
       /\ csr'.mscratch = c.mscratch /\ csr'.enabled = c.enabled
  BY <1>1, <1>3, <1>10, SwappedRegisters
<1>13. InKernel(hart)'
  <2>1. ~csr'.spp /\ (csr'.sie => virt') /\ ~csr'.ssip
    BY <1>1, <1>5, <1>10, <1>12
  <2>2. sscratch_frame'[top] = sscratch_frame[top] /\ mem' = mem /\ own' = own
    BY <1>1, <1>2
  <2> QED BY <1>2, <1>3, <1>9, <1>11, <1>12, <2>1, <2>2, TakesOver
<1>14. Saved'
  <2> SUFFICES ASSUME NEW p \in Procs, p # top, state'[p] \in Alive
               PROVE  Resumable(p, context[p], sscratch_frame[p], StackOf(p), own[p])'
    BY <1>2 DEF Saved
  <2>1. p \notin dead
    BY <1>2 DEF Alive
  <2>2. /\ sscratch_frame'[p] = sscratch_frame[p] /\ own'[p] = own[p]
        /\ StackOf(p)' = StackOf(p)
    BY <1>1, <1>2, <2>1 DEF StackOf
  <2>3. CASE p = pid
    <3>1. pid # NoPid /\ state[pid] \in Alive /\ ~dies
      BY <1>2, <2>3, TrapsAssumption DEF Alive
    <3>2. context'[p] = SavedContext
      BY <1>8, <2>3, <3>1
    <3> QED BY <1>6, <2>2, <2>3, <3>1, <3>2
  <2>4. CASE p # pid
    <3>1. state[p] \in Alive /\ context'[p] = context[p]
      BY <1>2, <1>8, <2>1, <2>4
    <3>2. Resumable(p, context[p], sscratch_frame[p], StackOf(p), own[p])
      BY <2>4, <3>1 DEF TrapsIInv, Saved
    <3> QED BY <2>2, <3>1, <3>2
  <2> QED BY <2>3, <2>4
<1>15. ProcTypes'
  <2>1. own' \in [Procs -> [n : Nat, gpr : Register, a0 : Register, sreg : Register]]
    BY <1>1 DEF TrapsIInv, ProcTypes
  <2>2. pid' \in ProcId
    BY <1>2, <1>3
  <2> QED BY <1>2, <1>8, <2>1, <2>2 DEF ProcTypes
<1>16. HartTypes' /\ DeviceTypes'
  <2>1. UNCHANGED <<virt, mem, timer, first_call, counter>>
    BY <1>1
  <2> QED BY <1>11, <1>12, <2>1 DEF TrapsIInv, HartTypes, DeviceTypes
<1>17. C.ra \in {"process_call_wrapper_user", "scheduler_end"}
  BY <1>9 DEF Resumable, NotRunYet
<1>18. /\ hart'.mode # "M"
       /\ hart'.pc.at \notin StartUpCode \cup {"mtrap_handler", "mtrap_exit"}
  BY <1>11, <1>17 DEF StartUpCode
<1>19. pid' # NoPid
  BY <1>2, TrapsAssumption
<1>20. Where(hart)'
  BY <1>13, <1>19 DEF Where
<1>21. /\ csr'.mscratch = csr.mscratch /\ csr'.enabled = csr.enabled
       /\ csr'.ssip => csr.ssip
       /\ virt' = virt /\ first_call' = first_call
       /\ virt /\ pid' # NoPid => ~first_call
  BY <1>1, <1>5, <1>10, <1>12
<1> QED BY <1>2, <1>5, <1>14, <1>15, <1>16, <1>18, <1>20, <1>21, Assembled
------------------------------------------------------------------------------
(* The theorems                                                            *)

(* The hart out of reset, with no process.                                 *)
LEMMA InitInv == Init => TrapsIInv
<1> SUFFICES ASSUME Init PROVE TrapsIInv
  OBVIOUS
<1>1. /\ hart.mode = "M" /\ hart.pc = Kernel("_start") /\ hart.pc.at = "_start"
      /\ ~csr.sie /\ ~csr.ssip /\ csr.enabled = {}
      /\ ~timer.armed /\ ~timer.due
  BY AddressFacts DEF Init, Label, Kernel
<1>2. ~InMachineTrap /\ Under = hart
  BY <1>1 DEF InMachineTrap, Under
<1>3. hart \in Hart
  <2>1. /\ Kernel("_start") \in Address /\ Base(BootStack) \in Pointer
        /\ Junk \in Register
    BY AddressFacts, StackFacts, RegisterFacts DEF Label
  <2> QED BY <2>1 DEF Init, Hart
<1>4. csr \in Csr
  <2>1. /\ Nowhere \in Address /\ Base(BootStack) \in Pointer /\ NoPid \in ProcId
    BY AddressFacts, StackFacts DEF Label, Nowhere, ProcId
  <2>2. "none" \in Cause
    BY DEF Cause
  <2> QED BY <2>1, <2>2 DEF Init, Csr
<1>5. HartTypes
  <2>1. mem \in [Stacks -> Seq(StackItem)]
    BY SMTT(30) DEF Init
  <2> QED BY <1>3, <1>4, <2>1 DEF Init, HartTypes
<1>6. ProcTypes
  <2>1. context \in [ProcId -> Context]
    <3>1. NoContext \in Context
      <4>1. /\ Nowhere \in Address /\ Base(BootStack) \in Pointer
            /\ Base(StrapStack) \in Pointer /\ Junk \in Register
            /\ NoPid \in ProcId /\ "none" \in Label
        BY AddressFacts, StackFacts, RegisterFacts DEF Label, Nowhere, ProcId
      <4> QED BY <4>1 DEF NoContext, Context
    <3> QED BY <3>1 DEF Init, ProcId, Main
  <2>2. own \in [Procs -> [n : Nat, gpr : Register, a0 : Register, sreg : Register]]
    BY RegisterFacts DEF Init
  <2>3. activatable \in Seq(Procs) /\ dead \subseteq Procs
    BY SMTT(30) DEF Init
  <2>4. sscratch_frame \in [Procs -> Frames \cup {NoPid}] /\ pid \in ProcId
    BY DEF Init, ProcId
  <2>5. state \in [Procs -> {"NONE", "ACTIVATABLE", "ACTIF", "BLOCKED", "ZOMBIE",
                             "KILLED"}]
    BY DEF Init
  <2> QED BY <2>1, <2>2, <2>3, <2>4, <2>5 DEF ProcTypes
<1>7. DeviceTypes
  <2>1. timer \in [armed : BOOLEAN, due : BOOLEAN] /\ first_call \in BOOLEAN
    BY DEF Init
  <2>2. counter \in 0..Wrap-1
    BY TrapsAssumption, SMTT(30) DEF Init
  <2> QED BY <2>1, <2>2 DEF DeviceTypes
<1>8. \A p \in Procs : state[p] = "NONE" /\ sscratch_frame[p] = NoPid
  BY DEF Init
<1>9. activatable = << >> /\ dead = {} /\ pid = NoPid
  BY DEF Init
<1>10. Scheduling
  <2>1. IsInjective(activatable) /\ Range(activatable) = {}
    BY <1>9, SMTT(30) DEF IsInjective, Range
  <2> QED BY <1>8, <1>9, <2>1 DEF Scheduling
<1>11. TrapStacks /\ Saved
  BY <1>8 DEF TrapStacks, Saved, Alive
<1>12. Machine
  BY <1>1, <1>2, <1>9 DEF Machine, StartUpCode
<1>13. Where(Under)
  <2>1. StartsUp(hart)
    BY <1>1, <1>8, <1>9 DEF StartsUp, StartUpCode
  <2> QED BY <1>2, <1>8, <1>9, <2>1 DEF Where, Booting
<1> QED
  BY <1>5, <1>6, <1>7, <1>10, <1>11, <1>12, <1>13 DEF TrapsIInv

(* Every step of the hart and of the devices keeps the invariant.          *)
LEMMA StepInv == TrapsIInv /\ [Next]_vars => TrapsIInv'
<1> SUFFICES ASSUME TrapsIInv, [Next]_vars PROVE TrapsIInv'
  OBVIOUS
<1>1. CASE _start
  BY <1>1, StartInv
<1>2. CASE boot_riscv
  BY <1>2, BootRiscvInv
<1>3. CASE enter_supervisor_mode
  BY <1>3, EnterSupervisorInv
<1>4. CASE kernel_start
  BY <1>4, KernelStartInv
<1>5. CASE mtrap_handler
  BY <1>5, MtrapHandlerInv
<1>6. CASE mtrap_exit
  BY <1>6, MtrapExitInv
<1>7. CASE s_software
  BY <1>7, SoftwareCaseInv
<1>8. CASE s_timer
  BY <1>8, TimerCaseInv
<1>9. CASE s_external
  BY <1>9, ExternalCaseInv
<1>10. CASE handle_stimer_interrupt
  BY <1>10, HandleTimerInv
<1>11. CASE stimer_end
  BY <1>11, TimerEndInv
<1>12. CASE clear_STIP
  BY <1>12, ClearSTIPInv
<1>13. CASE SystemCall
  BY <1>13, CallReturnsInv, CallWakesInv, CallStartsInv, CallEndsInv DEF SystemCall
<1>14. CASE exit_process
  BY <1>14, ExitInv
<1>15. CASE ecall_end
  BY <1>15, EcallEndInv
<1>16. CASE scheduler_stays
  BY <1>16, StaysInv
<1>17. CASE scheduler_switches
  BY <1>17, SwitchesInv
<1>18. CASE scheduler_end
  BY <1>18, SchedulerEndInv
<1>19. CASE process_call_wrapper_user
  BY <1>19, FirstEntryInv
<1>20. CASE strap_exit
  BY <1>20, StrapExitInv
<1>21. CASE Interrupts
  BY <1>21, MtrapEntryInv, InterruptInv DEF Interrupts
<1>22. CASE UserStep
  BY <1>22, UserStepInv
<1>23. CASE \E cause \in {"ecall", "page_fault"} : Exception(cause)
  BY <1>23, ExceptionInv
<1>24. CASE TimerElapses \/ KeyPressed
  BY <1>24, DevicesInv
<1>25. CASE UNCHANGED vars
  <2>1. UNCHANGED <<virt, hart, csr, mem, timer, first_call, counter, pid, state,
                    activatable, dead, context, sscratch_frame, own>>
    BY <1>25 DEF vars
  <2>2. HartTypes' /\ ProcTypes' /\ DeviceTypes'
    BY <2>1 DEF TrapsIInv, HartTypes, ProcTypes, DeviceTypes
  <2>3. Scheduling' /\ TrapStacks' /\ Saved'
    BY <2>1 DEF TrapsIInv, Scheduling, TrapStacks, Saved, StackOf
  <2>4. Machine' /\ Under' = Under
    BY <2>1 DEF TrapsIInv, Machine, InMachineTrap, Under
  <2>5. Where(Under)'
    <3>1. Where(Under)
      BY DEF TrapsIInv
    <3>2. \A h : Booting(h)' <=> Booting(h)
      <4>1. \A h : StartsUp(h)' <=> StartsUp(h)
        BY <2>1 DEF StartsUp
      <4>2. \A h : WaitsForInterrupt(h)' <=> WaitsForInterrupt(h)
        BY <2>1 DEF WaitsForInterrupt
      <4>3. \A h : InFirstTrap(h)' <=> InFirstTrap(h)
        BY <2>1 DEF InFirstTrap
      <4> QED BY <2>1, <4>1, <4>2, <4>3 DEF Booting
    <3>3. \A h : InProgram(h)' <=> InProgram(h)
      BY <2>1 DEF InProgram
    <3>4. \A h : InKernel(h)' <=> InKernel(h)
      <4>1. StackOf(pid)' = StackOf(pid) /\ \A h : Snapshot(h)' = Snapshot(h)
        BY <2>1 DEF StackOf, Snapshot
      <4> QED BY <2>1, <4>1 DEF InKernel
    <3> QED BY <2>1, <2>4, <3>1, <3>2, <3>3, <3>4 DEF Where
  <2> QED BY <2>2, <2>3, <2>4, <2>5 DEF TrapsIInv
<1> QED
  BY <1>1, <1>2, <1>3, <1>4, <1>5, <1>6, <1>7, <1>8, <1>9, <1>10, <1>11, <1>12,
     <1>13, <1>14, <1>15, <1>16, <1>17, <1>18, <1>19, <1>20, <1>21, <1>22, <1>23,
     <1>24, <1>25 DEF Next, KernelCode

(* The inductive invariant of the trap paths holds in every state.         *)
THEOREM TrapsInvariant == Spec => []TrapsIInv
BY InitInv, StepInv, PTL DEF Spec

(* NoNestedTrap: a supervisor trap that is taken once processes run came   *)
(* from user mode.                                                         *)
THEOREM TrapsDoNotNest == Spec => []NoNestedTrap
<1>1. TrapsIInv => NoNestedTrap
  <2> SUFFICES ASSUME TrapsIInv, At("strap_handler"), pid # NoPid PROVE ~csr.spp
    BY DEF NoNestedTrap
  <2>1. "strap_handler" \in Label
    BY DEF Label
  <2>2. "strap_handler" \notin StartUpCode \cup {"mtrap_handler", "mtrap_exit", "user"}
    BY DEF StartUpCode
  <2>3. InKernel(hart)
    BY <2>1, <2>2, Supervisor
  <2> QED BY <2>3 DEF InKernel
<1> QED BY <1>1, TrapsInvariant, PTL

(* OnOwnTrapStack: the kernel works on the trap stack of the current       *)
(* process, which belongs to no other one, and in its address space.       *)
THEOREM OwnTrapStack == Spec => []OnOwnTrapStack
<1>1. TrapsIInv => OnOwnTrapStack
  <2> SUFFICES ASSUME TrapsIInv, hart.mode = "S", pid # NoPid,
                      ~At("process_call_wrapper_user")
               PROVE  /\ hart.sp.stack = TrapStack(sscratch_frame[pid])
                      /\ csr.satp = pid
                      /\ \A q \in Procs \ {pid} : sscratch_frame[q] # sscratch_frame[pid]
    BY DEF OnOwnTrapStack
  <2>1. ~InMachineTrap /\ Where(Under)
    BY DEF TrapsIInv, Machine
  <2>2. InKernel(hart)
    BY <2>1 DEF Where, Under, InProgram
  <2>3. ~NotRunYet(pid, Snapshot(hart), sscratch_frame[pid])
    BY <2>2 DEF InKernel, NotRunYet, Snapshot, At
  <2>4. OnTrapStack(pid, Snapshot(hart), sscratch_frame[pid], StackOf(pid))
    BY <2>2, <2>3 DEF InKernel
  <2>5. pid \in Procs /\ sscratch_frame[pid] # NoPid
    BY DEF TrapsIInv, ProcTypes, ProcId, Scheduling, TrapStacks
  <2>6. \A q \in Procs \ {pid} : sscratch_frame[q] # sscratch_frame[pid]
    BY <2>5 DEF TrapsIInv, TrapStacks
  <2> QED BY <2>4, <2>6 DEF OnTrapStack, Snapshot
<1> QED BY <1>1, TrapsInvariant, PTL

(* OwnContext: a program finds its program counter, its registers, its     *)
(* stack, its address space and its trap stack, whatever interrupted it.   *)
THEOREM ContextsKept == Spec => []OwnContext
<1>1. TrapsIInv => OwnContext
  <2> SUFFICES ASSUME TrapsIInv PROVE OwnContext
    OBVIOUS
  <2>1. hart \in Hart /\ hart.sp \in Pointer
    BY DEF TrapsIInv, HartTypes, Hart
  <2>2. TypeOK
    <3>1. hart.mode \in {"M", "S", "U"} /\ hart.sp.stack \in Stacks
      BY <2>1 DEF Hart, Pointer
    <3> QED BY <3>1 DEF TypeOK, TrapsIInv, ProcTypes, ProcId, DeviceTypes
  <2>3. CASE hart.mode # "U"
    BY <2>2, <2>3 DEF OwnContext
  <2>4. CASE hart.mode = "U"
    <3>1. pid \in Procs /\ InProgram(hart)
      BY <2>4, UserMode
    <3> QED BY <2>2, <3>1 DEF InProgram, OwnContext
  <2> QED BY <2>3, <2>4
<1> QED BY <1>1, TrapsInvariant, PTL
==============================================================================
