------------------------------ MODULE TrapsInv -------------------------------
(***************************************************************************)
(* The trap paths and context_switch, for every set of processes and trap  *)
(* stacks: traps do not nest, the kernel works on the trap stack of the    *)
(* current process, and every process finds its own registers again.       *)
(***************************************************************************)
EXTENDS Traps, TLAPS

(* Zenon proves most leaves; the others name SMT.                          *)
USE ZenonT(60)

ProcId  == Procs \cup {NoPid}
Register == ProcId \X {"junk", "data", "argument", "result"}
Pointer == [stack : Stacks, depth : Nat]
Label == {"_start", "boot_riscv", "enter_supervisor_mode", "kernel_start", "wfi",
          "mtrap_handler", "mtrap_exit", "strap_handler", "s_timer", "clear_STIP",
          "handle_stimer_interrupt", "stimer_end", "ecall_end", "strap_exit",
          "scheduler", "scheduler_end", "process_call_wrapper_user", "user",
          "frame", "none"}
Cause == {"s_timer", "s_software", "s_external", "ecall", "page_fault", "none"}
Address == [at : Label, of : ProcId, n : Nat]
StackItem == [to : Label, gpr : Register, a0 : Register]
Context == [sp : Pointer, ra : Label, sreg : Register, sscratch : Pointer,
            sepc : Address, satp : ProcId]

Hart == [mode : {"M", "S", "U"}, pc : Address, sp : Pointer, gpr : Register,
         a0 : Register, sreg : Register]
Csr == [sscratch : Pointer, sepc : Address, satp : ProcId, scause : Cause,
        spp : BOOLEAN, spie : BOOLEAN, sie : BOOLEAN,
        enabled : SUBSET {"m_timer", "s_timer", "s_software", "s_external"},
        delegated : BOOLEAN, ssip : BOOLEAN,
        mscratch : Pointer, mepc : Address, mpp : {"S", "U"}]

(* The types of the registers and the stacks, of the processes, and of the *)
(* timer.                                                                  *)
HartTypes ==
  /\ virt \in BOOLEAN /\ hart \in Hart /\ csr \in Csr
  /\ mem \in [Stacks -> Seq(StackItem)]

ProcTypes ==
  /\ pid \in ProcId
  /\ state \in [Procs -> {"NONE", "ACTIVATABLE", "ACTIF", "BLOCKED", "ZOMBIE",
                          "KILLED"}]
  /\ activatable \in Seq(Procs) /\ dead \subseteq Procs
  /\ context \in [ProcId -> Context]
  /\ sscratch_frame \in [Procs -> Frames \cup {NoPid}]
  /\ own \in [Procs -> [n : Nat, gpr : Register, a0 : Register, sreg : Register]]

DeviceTypes ==
  /\ timer \in [armed : BOOLEAN, due : BOOLEAN]
  /\ first_call \in BOOLEAN
  /\ counter \in 0..Wrap-1

(* The queue of activatable processes and the states agree; a process that *)
(* ends is not the current one once scheduler() has put it in dead; idle   *)
(* runs or is ready; a trap stack belongs to one process.                  *)
Scheduling ==
  /\ IsInjective(activatable)
  /\ \A p \in Procs : state[p] = "ACTIVATABLE" <=> p \in Range(activatable)
  /\ \A p \in Procs : state[p] = "ACTIF" => p = pid
  /\ pid # NoPid => state[pid] \notin {"NONE", "ACTIVATABLE"}
  /\ pid # NoPid => IF pid = idle THEN state[idle] = "ACTIF"
                                  ELSE idle \in Range(activatable)
  /\ \A p \in dead : state[p] = "KILLED" /\ p # pid

TrapStacks ==
  /\ \A p \in Procs : state[p] = "NONE" <=> sscratch_frame[p] = NoPid
  /\ \A p, q \in Procs : sscratch_frame[p] = sscratch_frame[q] =>
       p = q \/ sscratch_frame[p] = NoPid

(* The machine trap that is being handled, and the hart it interrupted     *)
(* (the hart itself outside machine traps).                                *)
InMachineTrap == hart.pc.at \in {"mtrap_handler", "mtrap_exit"}

Under ==
  IF InMachineTrap
  THEN [mode |-> csr.mpp, pc |-> csr.mepc, sp |-> csr.mscratch,
        gpr |-> mem[MtrapStack][1].gpr, a0 |-> mem[MtrapStack][1].a0,
        sreg |-> hart.sreg]
  ELSE hart

StartUpCode == {"_start", "boot_riscv", "enter_supervisor_mode"}

(* Only start-up and machine traps run in machine mode; the interrupts     *)
(* that boot_riscv enables stay enabled; a tick is passed on to the        *)
(* supervisor on virt only.                                                *)
Machine ==
  /\ hart.mode = "M" <=> InMachineTrap \/ hart.pc.at \in StartUpCode
  /\ InMachineTrap =>
       /\ virt
       /\ hart.pc = Kernel(hart.pc.at)
       /\ hart.sp.stack = MtrapStack /\ hart.sp.depth = 1
       /\ Len(mem[MtrapStack]) = 1
       /\ csr.mepc.at \notin StartUpCode \cup {"kernel_start", "mtrap_handler",
                                               "mtrap_exit"}
  /\ ~InMachineTrap /\ hart.pc.at # "_start" => csr.mscratch = Base(MtrapStack)
  /\ csr.enabled = IF hart.pc.at \in {"_start", "boot_riscv"} THEN {}
                   ELSE EnabledInterrupts(virt)
  /\ csr.ssip => virt /\ ~first_call
  /\ virt /\ pid # NoPid => ~first_call

(* What is above the trap frame on the trap stack stk when the kernel      *)
(* executes the code at label.                                             *)
ReturnsFrom(label, stk) ==
  \/ /\ label \in {"strap_handler", "s_timer", "clear_STIP", "ecall_end", "strap_exit"}
     /\ Len(stk) = 1
  \/ /\ label \in {"handle_stimer_interrupt", "stimer_end"}
     /\ Len(stk) = 2 /\ stk[2].to \in {"s_timer", "clear_STIP"}
  \/ /\ label \in {"scheduler", "scheduler_end"}
     /\ Len(stk) = 2 /\ stk[2].to \in {"ecall_end", "strap_exit"}
  \/ /\ label \in {"scheduler", "scheduler_end"}
     /\ Len(stk) = 3 /\ stk[2].to \in {"s_timer", "clear_STIP"}
     /\ stk[3].to = "stimer_end"

(* The trap was a system call that has not ended yet.                      *)
InSystemCall(label, stk, cause) ==
  \/ label = "strap_handler" /\ cause = "ecall"
  \/ label \in {"scheduler", "scheduler_end"} /\ stk[2].to = "ecall_end"
  \/ label = "ecall_end"

(* The context c is one of p in the kernel, on its trap stack f with the   *)
(* contents stk.                                                           *)
OnTrapStack(p, c, f, stk) ==
  /\ c.sp.stack = TrapStack(f) /\ c.sp.depth = Len(stk)
  /\ ReturnsFrom(c.ra, stk)
  /\ c.satp = p

(* Together with its trap frame it has all that p will find in user mode.  *)
Remembers(p, c, stk, cause, o) ==
  /\ c.sscratch = Base(UserStack(p))
  /\ c.sreg = o.sreg /\ stk[1].gpr = o.gpr /\ stk[1].a0 = o.a0
  /\ IF InSystemCall(c.ra, stk, cause)
     THEN c.sepc = User(p, 0) /\ o.n = 1
     ELSE c.sepc = User(p, o.n)

StackOf(p) == mem[TrapStack(sscratch_frame[p])]

(* A process that can get the processor back has not run yet, or is in     *)
(* context_switch.                                                         *)
NotRunYet(p, c, f) ==
  /\ c.ra = "process_call_wrapper_user"
  /\ c.sp = Base(UserStack(p)) /\ c.sscratch = Base(TrapStack(f))
  /\ c.sreg = Argument(p) /\ c.sepc = User(p, 0) /\ c.satp = p

Resumable(p, c, f, stk, o) ==
  \/ NotRunYet(p, c, f)
  \/ /\ c.ra = "scheduler_end"
     /\ OnTrapStack(p, c, f, stk)
     /\ Remembers(p, c, stk, "none", o)

Alive == {"ACTIVATABLE", "ACTIF", "BLOCKED"}

Saved ==
  \A p \in Procs \ {pid} : state[p] \in Alive =>
    Resumable(p, context[p], sscratch_frame[p], StackOf(p), own[p])

(* The context context_switch would save for the hart h.                   *)
Snapshot(h) ==
  [sp |-> h.sp, ra |-> h.pc.at, sreg |-> h.sreg, sscratch |-> csr.sscratch,
   sepc |-> csr.sepc, satp |-> csr.satp]

(* Before the first process runs the hart starts up, waits for the first   *)
(* timer interrupt, and handles the traps that come meanwhile on the stack *)
(* strap_stacks.                                                           *)
StartsUp(h) ==
  /\ h.pc = Kernel(h.pc.at)
  /\ h.pc.at \in StartUpCode \cup {"kernel_start"}
  /\ h.pc.at = "kernel_start" => h.mode = "S"
  /\ h.pc.at # "_start" => h.sp = Base(BootStack) /\ csr.sscratch = Base(StrapStack)
  /\ ~csr.sie /\ ~csr.ssip
  /\ ~timer.armed /\ (virt => ~timer.due)
  /\ activatable = << >>
  /\ \A p \in Procs : state[p] = "NONE"

WaitsForInterrupt(h) ==
  /\ h.mode = "S" /\ h.pc = Kernel("wfi")
  /\ h.sp = Base(BootStack) /\ csr.sscratch = Base(StrapStack)
  /\ csr.sie
  /\ idle \in Range(activatable)

InFirstTrap(h) ==
  /\ h.mode = "S" /\ h.pc = Kernel(h.pc.at)
  /\ h.pc.at \in {"strap_handler", "strap_exit", "handle_stimer_interrupt",
                  "scheduler"}
  /\ h.sp.stack = StrapStack
  /\ h.sp.depth = Len(mem[StrapStack]) /\ h.sp.depth > 0
  /\ h.pc.at \in {"strap_handler", "strap_exit"} => h.sp.depth = 1
  /\ csr.sscratch = Base(BootStack) /\ csr.sepc = Kernel("wfi")
  /\ csr.spp /\ csr.spie /\ ~csr.sie
  /\ csr.ssip => h.pc.at = "strap_handler" /\ csr.scause = "s_software"
  /\ h.pc.at = "strap_handler" =>
       csr.scause \in {"s_timer", "s_software", "s_external"}
  /\ virt => ~first_call
  /\ idle \in Range(activatable)

Booting(h) ==
  /\ \A p \in Procs : state[p] \in {"NONE", "ACTIVATABLE"}
  /\ dead = {}
  /\ StartsUp(h) \/ WaitsForInterrupt(h) \/ InFirstTrap(h)

(* A program runs, with all that belongs to it.                            *)
InProgram(h) ==
  /\ h.mode = "U" /\ state[pid] = "ACTIF"
  /\ h.pc = User(pid, own[pid].n)
  /\ h.gpr = own[pid].gpr /\ h.a0 = own[pid].a0 /\ h.sreg = own[pid].sreg
  /\ h.sp = Base(UserStack(pid))
  /\ csr.satp = pid
  /\ csr.sscratch = Base(TrapStack(sscratch_frame[pid]))

(* The kernel works for the current process, whose trap came from user     *)
(* mode.  It lets supervisor interrupts in on virt only, where none comes  *)
(* but the one that led here; handlers run for an active process.          *)
InKernel(h) ==
  /\ h.mode = "S" /\ h.pc = Kernel(h.pc.at)
  /\ ~csr.spp
  /\ csr.sie => virt /\ h.pc.at # "strap_handler"
  /\ csr.ssip => h.pc.at = "strap_handler" /\ csr.scause = "s_software"
  /\ h.pc.at # "scheduler" => state[pid] = "ACTIF"
  /\ h.pc.at = "strap_handler" =>
       \/ csr.scause \in {"s_timer", "s_software", "s_external"}
       \/ csr.scause \in {"ecall", "page_fault"} /\ pid # idle
  /\ \/ NotRunYet(pid, Snapshot(h), sscratch_frame[pid])
     \/ /\ OnTrapStack(pid, Snapshot(h), sscratch_frame[pid], StackOf(pid))
        /\ state[pid] \in Alive =>
             Remembers(pid, Snapshot(h), StackOf(pid), csr.scause, own[pid])

Where(h) == IF pid = NoPid THEN Booting(h) ELSE InProgram(h) \/ InKernel(h)

TrapsIInv ==
  /\ HartTypes /\ ProcTypes /\ DeviceTypes
  /\ Scheduling /\ TrapStacks /\ Saved
  /\ Machine
  /\ Where(Under)
------------------------------------------------------------------------------
(* Stacks and addresses                                                    *)

(* The sequences on the stacks.                                            *)
LEMMA StackLength ==
  ASSUME NEW S, NEW seq \in Seq(S)
  PROVE  Len(seq) \in Nat
BY SMTT(30)

(* An element of a stack.                                                  *)
LEMMA StackElement ==
  ASSUME NEW S, NEW seq \in Seq(S), NEW n \in 1..Len(seq)
  PROVE  seq[n] \in S
BY SMTT(30)

(* The stacks are distinct.                                                *)
LEMMA StackFacts ==
  /\ BootStack \in Stacks /\ MtrapStack \in Stacks /\ StrapStack \in Stacks
  /\ \A p \in Procs : UserStack(p) \in Stacks
  /\ \A f \in Frames : TrapStack(f) \in Stacks
  /\ \A f : TrapStack(f) \notin {BootStack, MtrapStack, StrapStack}
  /\ \A f, p : TrapStack(f) # UserStack(p)
  /\ \A f, g : TrapStack(f) = TrapStack(g) => f = g
  /\ StrapStack # MtrapStack
BY DEF Stacks, BootStack, MtrapStack, StrapStack, UserStack, TrapStack

(* Register contents.                                                      *)
LEMMA RegisterFacts ==
  /\ Junk \in Register
  /\ \A p \in Procs : /\ Data(p) \in Register /\ Argument(p) \in Register
                      /\ Result(p) \in Register
BY DEF Register, ProcId, Junk, Data, Argument, Result

(* Addresses of kernel code and of programs, and empty stacks.             *)
LEMMA AddressFacts ==
  /\ \A l \in Label : Kernel(l) \in Address /\ Kernel(l).at = l
  /\ \A p \in Procs, n \in Nat : User(p, n) \in Address
  /\ \A p, n : User(p, n).at = "user" /\ User(p, n).of = p /\ User(p, n).n = n
  /\ \A s \in Stacks : Base(s) \in Pointer
<1>1. \A l \in Label : Kernel(l) \in Address /\ Kernel(l).at = l
  BY DEF Kernel, Address, ProcId
<1>2. \A p \in Procs, n \in Nat : User(p, n) \in Address
  <2>1. "user" \in Label
    BY DEF Label
  <2> QED BY <2>1 DEF User, Address, ProcId
<1>3. \A p, n : User(p, n).at = "user" /\ User(p, n).of = p /\ User(p, n).n = n
  BY DEF User
<1>4. \A s \in Stacks : Base(s) \in Pointer
  BY DEF Base, Pointer
<1> QED BY <1>1, <1>2, <1>3, <1>4

(* Pushing cuts the stack at the stack pointer and adds the item.          *)
LEMMA PushedItems ==
  ASSUME NEW m \in [Stacks -> Seq(StackItem)], NEW sp \in Pointer,
         sp.depth <= Len(m[sp.stack]), NEW item \in StackItem
  PROVE  /\ Pushed(m, sp, item) \in [Stacks -> Seq(StackItem)]
         /\ \A s \in Stacks : s # sp.stack => Pushed(m, sp, item)[s] = m[s]
         /\ Len(Pushed(m, sp, item)[sp.stack]) = sp.depth + 1
         /\ Pushed(m, sp, item)[sp.stack][sp.depth + 1] = item
         /\ \A i \in 1..sp.depth : Pushed(m, sp, item)[sp.stack][i] = m[sp.stack][i]
<1> DEFINE q == m[sp.stack]
           a == SubSeq(q, 1, sp.depth)
           b == Append(a, item)
<1>1. sp.stack \in Stacks /\ sp.depth \in Nat /\ q \in Seq(StackItem)
  BY DEF Pointer
<1>2. sp.depth <= Len(q) /\ Len(q) \in Nat
  BY <1>1, StackLength
<1> HIDE DEF q
<1>3. /\ a \in Seq(StackItem) /\ Len(a) = sp.depth
      /\ \A i \in 1..sp.depth : a[i] = q[i]
  BY <1>1, <1>2, SMTT(30)
<1> HIDE DEF a
<1>4. /\ b \in Seq(StackItem) /\ Len(b) = sp.depth + 1
      /\ b[sp.depth + 1] = item
      /\ \A i \in 1..sp.depth : b[i] = a[i]
  BY <1>1, <1>3, SMTT(30)
<1>5. Pushed(m, sp, item) = [m EXCEPT ![sp.stack] = b]
  BY DEF Pushed, a, q
<1> HIDE DEF b
<1> QED BY <1>1, <1>3, <1>4, <1>5 DEF q

(* A pop drops the item on top.                                            *)
LEMMA PoppedItems ==
  ASSUME NEW m \in [Stacks -> Seq(StackItem)], NEW sp \in Pointer,
         sp.depth \in 1..Len(m[sp.stack])
  PROVE  /\ Popped(m, sp) \in [Stacks -> Seq(StackItem)]
         /\ \A s \in Stacks : s # sp.stack => Popped(m, sp)[s] = m[s]
         /\ Len(Popped(m, sp)[sp.stack]) = sp.depth - 1
         /\ \A i \in 1..sp.depth - 1 : Popped(m, sp)[sp.stack][i] = m[sp.stack][i]
<1> DEFINE q == m[sp.stack]
           a == SubSeq(q, 1, sp.depth - 1)
<1>1. sp.stack \in Stacks /\ sp.depth \in Nat /\ q \in Seq(StackItem)
  BY DEF Pointer
<1>2. sp.depth \in 1..Len(q) /\ Len(q) \in Nat
  BY <1>1, StackLength
<1> HIDE DEF q
<1>3. /\ a \in Seq(StackItem) /\ Len(a) = sp.depth - 1
      /\ \A i \in 1..sp.depth - 1 : a[i] = q[i]
  BY <1>1, <1>2, SMTT(30)
<1>4. Popped(m, sp) = [m EXCEPT ![sp.stack] = a]
  BY DEF Popped, q
<1> HIDE DEF a
<1> QED BY <1>1, <1>3, <1>4 DEF q
------------------------------------------------------------------------------
(* What every step has in common                                           *)

(* Code of the supervisor runs during start-up or for the current process. *)
LEMMA Supervisor ==
  ASSUME TrapsIInv, NEW l \in Label, At(l),
         l \notin StartUpCode \cup {"mtrap_handler", "mtrap_exit", "user"}
  PROVE  /\ ~InMachineTrap /\ hart.mode = "S" /\ hart.pc.at = l
         /\ csr.mscratch = Base(MtrapStack)
         /\ pid = NoPid => Booting(hart)
         /\ pid # NoPid => pid \in Procs /\ InKernel(hart)
<1>1. hart.pc.at = l
  BY AddressFacts DEF At
<1>2. ~InMachineTrap /\ Under = hart
  BY <1>1 DEF InMachineTrap, Under
<1>3. csr.mscratch = Base(MtrapStack) /\ hart.mode # "M"
  BY <1>1, <1>2 DEF TrapsIInv, Machine, StartUpCode
<1>4. pid # NoPid => pid \in Procs /\ InKernel(hart)
  <2>1. pid # NoPid => InProgram(hart) \/ InKernel(hart)
    BY <1>2 DEF TrapsIInv, Where
  <2>2. ~InProgram(hart)
    BY <1>1, AddressFacts, SMTT(30) DEF InProgram
  <2>3. pid # NoPid => pid \in Procs
    BY DEF TrapsIInv, ProcTypes, ProcId
  <2> QED BY <2>1, <2>2, <2>3
<1>5. pid = NoPid => Booting(hart)
  BY <1>2 DEF TrapsIInv, Where
<1>6. hart.mode = "S"
  <2>1. CASE pid = NoPid
    BY <2>1, <1>1, <1>5 DEF Booting, StartsUp, WaitsForInterrupt, InFirstTrap
  <2>2. CASE pid # NoPid
    BY <2>2, <1>4 DEF InKernel
  <2> QED BY <2>1, <2>2
<1> QED BY <1>1, <1>2, <1>3, <1>4, <1>5, <1>6

(* Where the hart is, when no machine trap is being handled.               *)
LEMMA OutsideMachineTraps ==
  ASSUME Under' = hart', Where(hart)'
  PROVE  Where(Under)'
BY DEF Where, Booting, StartsUp, WaitsForInterrupt, InFirstTrap, InProgram,
       InKernel, Snapshot

(* A step below machine mode that does not take a machine trap.            *)
LEMMA Assembled ==
  ASSUME TrapsIInv, ~InMachineTrap, hart.mode # "M",
         HartTypes', ProcTypes', DeviceTypes',
         Scheduling', TrapStacks', Saved',
         hart'.mode # "M",
         hart'.pc.at \notin StartUpCode \cup {"mtrap_handler", "mtrap_exit"},
         csr'.mscratch = csr.mscratch, csr'.enabled = csr.enabled,
         csr'.ssip => csr.ssip, virt' = virt, first_call' = first_call,
         virt /\ pid' # NoPid => ~first_call,
         Where(hart)'
  PROVE  TrapsIInv'
<1>1. ~InMachineTrap' /\ Under' = hart'
  BY DEF InMachineTrap, Under
<1>2. hart.pc.at \notin StartUpCode /\ csr.mscratch = Base(MtrapStack)
  BY DEF TrapsIInv, Machine, StartUpCode
<1>3. Machine'
  <2>1. hart.pc.at \notin {"_start", "boot_riscv"}
    BY <1>2 DEF StartUpCode
  <2>2. hart'.pc.at \notin {"_start", "boot_riscv"}
    BY DEF StartUpCode
  <2>3. csr'.enabled = EnabledInterrupts(virt)
    BY <2>1 DEF TrapsIInv, Machine
  <2>4. csr'.ssip => virt /\ ~first_call
    BY DEF TrapsIInv, Machine
  <2> QED BY <1>1, <1>2, <2>2, <2>3, <2>4 DEF Machine
<1>4. Where(Under)'
  BY <1>1, OutsideMachineTraps
<1> QED BY <1>3, <1>4 DEF TrapsIInv

(* Only the current process's trap stack, or one of the three stacks of    *)
(* the hart, changes: every other process finds what it saved.             *)
LEMMA SavedKept ==
  ASSUME TrapsIInv, NEW s0, \A s \in Stacks : s # s0 => mem'[s] = mem[s],
         \/ s0 \in {BootStack, MtrapStack, StrapStack}
         \/ pid # NoPid /\ s0 = TrapStack(sscratch_frame[pid]),
         NEW p \in Procs, p # pid, state[p] \in Alive,
         sscratch_frame'[p] = sscratch_frame[p], context'[p] = context[p],
         own'[p] = own[p]
  PROVE  Resumable(p, context[p], sscratch_frame[p], StackOf(p), own[p])'
<1>1. Resumable(p, context[p], sscratch_frame[p], StackOf(p), own[p])
  BY DEF TrapsIInv, Saved
<1>2. sscratch_frame[p] # NoPid /\ sscratch_frame[p] \in Frames
  BY DEF TrapsIInv, TrapStacks, ProcTypes, Alive
<1>3. TrapStack(sscratch_frame[p]) \in Stacks /\ TrapStack(sscratch_frame[p]) # s0
  <2>1. pid # NoPid => sscratch_frame[pid] # sscratch_frame[p]
    BY <1>2 DEF TrapsIInv, TrapStacks, ProcTypes, ProcId
  <2> QED BY <1>2, <2>1, StackFacts
<1>4. StackOf(p)' = StackOf(p)
  BY <1>3, SMTT(30) DEF StackOf
<1> QED BY <1>1, <1>4

(* The invariants of the processes hold after such a step if it leaves the *)
(* other processes alone.                                                  *)
LEMMA OthersKept ==
  ASSUME TrapsIInv, NEW s0, \A s \in Stacks : s # s0 => mem'[s] = mem[s],
         \/ s0 \in {BootStack, MtrapStack, StrapStack}
         \/ pid # NoPid /\ s0 = TrapStack(sscratch_frame[pid]),
         UNCHANGED <<processes, context>>,
         own' \in [Procs -> [n : Nat, gpr : Register, a0 : Register,
                             sreg : Register]],
         \A p \in Procs : p # pid => own'[p] = own[p]
  PROVE  ProcTypes' /\ Scheduling' /\ TrapStacks' /\ Saved'
<1>1. UNCHANGED <<pid, state, activatable, dead, sscratch_frame, context>>
  BY DEF processes
<1>2. ProcTypes' /\ Scheduling' /\ TrapStacks'
  BY <1>1 DEF TrapsIInv, ProcTypes, Scheduling, TrapStacks
<1>3. Saved'
  <2> SUFFICES ASSUME NEW p \in Procs, p # pid, state[p] \in Alive
               PROVE  Resumable(p, context[p], sscratch_frame[p], StackOf(p), own[p])'
    BY <1>1 DEF Saved
  <2> QED BY <1>1, SavedKept
<1> QED BY <1>2, <1>3

(* A stack pointer after a push and after a pop.                           *)
LEMMA PointerMoves ==
  ASSUME NEW sp \in Pointer
  PROVE  /\ Deeper(sp) \in Pointer
         /\ Deeper(sp).stack = sp.stack /\ Deeper(sp).depth = sp.depth + 1
         /\ sp.depth > 0 => /\ Above(sp) \in Pointer
                            /\ Above(sp).stack = sp.stack
                            /\ Above(sp).depth = sp.depth - 1
         /\ sp.depth = 1 => Above(sp) = Base(sp.stack)
<1>1. /\ Deeper(sp) \in Pointer
      /\ Deeper(sp).stack = sp.stack /\ Deeper(sp).depth = sp.depth + 1
  BY SMTT(30) DEF Pointer, Deeper
<1>2. sp.depth > 0 => /\ Above(sp) \in Pointer
                      /\ Above(sp).stack = sp.stack
                      /\ Above(sp).depth = sp.depth - 1
  BY SMTT(30) DEF Pointer, Above
<1>3. ASSUME sp.depth = 1 PROVE Above(sp) = Base(sp.stack)
  BY <1>3, SMTT(30) DEF Pointer, Above, Base
<1> QED BY <1>1, <1>2, <1>3

(* The hart continues at another address, with another stack pointer.      *)
Moved(h, a, sp) == [h EXCEPT !.pc = a, !.sp = sp]

(* Its registers stay.                                                     *)
LEMMA MovedHart ==
  ASSUME NEW h \in Hart, NEW a \in Address, NEW sp \in Pointer
  PROVE  /\ Moved(h, a, sp) \in Hart
         /\ Moved(h, a, sp).pc = a /\ Moved(h, a, sp).sp = sp
         /\ Moved(h, a, sp).mode = h.mode /\ Moved(h, a, sp).sreg = h.sreg
         /\ Moved(h, a, sp).gpr = h.gpr /\ Moved(h, a, sp).a0 = h.a0
<1>1. Moved(h, a, sp) \in Hart
  BY DEF Hart, Moved
<1>2. Moved(h, a, sp).pc = a /\ Moved(h, a, sp).sp = sp
  BY DEF Hart, Moved
<1>3. /\ Moved(h, a, sp).mode = h.mode /\ Moved(h, a, sp).sreg = h.sreg
      /\ Moved(h, a, sp).gpr = h.gpr /\ Moved(h, a, sp).a0 = h.a0
  BY DEF Hart, Moved
<1> QED BY <1>1, <1>2, <1>3

(* Calls and returns on the current stack.                                 *)
LEMMA Called ==
  ASSUME HartTypes, hart.sp.depth <= Len(mem[hart.sp.stack]),
         NEW to \in Label, NEW back \in Label, Call(to, back)
  PROVE  /\ hart' \in Hart /\ hart'.pc = Kernel(to) /\ hart'.pc.at = to
         /\ hart'.mode = hart.mode /\ hart'.sreg = hart.sreg
         /\ hart'.sp.stack = hart.sp.stack /\ hart'.sp.depth = hart.sp.depth + 1
         /\ mem' \in [Stacks -> Seq(StackItem)]
         /\ \A s \in Stacks : s # hart.sp.stack => mem'[s] = mem[s]
         /\ Len(mem'[hart.sp.stack]) = hart.sp.depth + 1
         /\ mem'[hart.sp.stack][hart.sp.depth + 1].to = back
         /\ \A i \in 1..hart.sp.depth : mem'[hart.sp.stack][i] = mem[hart.sp.stack][i]
<1>1. hart \in Hart /\ hart.sp \in Pointer /\ mem \in [Stacks -> Seq(StackItem)]
  BY DEF HartTypes, Hart
<1>2. hart.sp.depth \in Nat /\ hart.sp.stack \in Stacks
  BY <1>1 DEF Pointer
<1>3. ReturnAddress(back) \in StackItem /\ ReturnAddress(back).to = back
  BY RegisterFacts DEF ReturnAddress, StackItem
<1>4. mem' = Pushed(mem, hart.sp, ReturnAddress(back))
  BY DEF Call
<1>5. /\ mem' \in [Stacks -> Seq(StackItem)]
      /\ \A s \in Stacks : s # hart.sp.stack => mem'[s] = mem[s]
      /\ Len(mem'[hart.sp.stack]) = hart.sp.depth + 1
      /\ mem'[hart.sp.stack][hart.sp.depth + 1] = ReturnAddress(back)
      /\ \A i \in 1..hart.sp.depth : mem'[hart.sp.stack][i] = mem[hart.sp.stack][i]
  <2>1. hart.sp \in Pointer
    BY <1>1
  <2>2. mem \in [Stacks -> Seq(StackItem)]
    BY <1>1
  <2>3. ReturnAddress(back) \in StackItem
    BY <1>3
  <2>4. hart.sp.depth <= Len(mem[hart.sp.stack])
    OBVIOUS
  <2> QED BY <1>4, <2>1, <2>2, <2>3, <2>4, PushedItems, SMTT(30)
<1>6. /\ Deeper(hart.sp) \in Pointer /\ Deeper(hart.sp).stack = hart.sp.stack
      /\ Deeper(hart.sp).depth = hart.sp.depth + 1
  BY <1>1, PointerMoves
<1>7. hart' = Moved(hart, Kernel(to), Deeper(hart.sp))
  BY <1>1 DEF Call, Goto, Hart, Moved
<1>8. /\ hart' \in Hart /\ hart'.pc = Kernel(to) /\ hart'.mode = hart.mode
      /\ hart'.sreg = hart.sreg /\ hart'.sp = Deeper(hart.sp)
  <2>1. hart \in Hart
    BY <1>1
  <2>2. Kernel(to) \in Address
    BY AddressFacts
  <2>3. Deeper(hart.sp) \in Pointer
    BY <1>6
  <2> QED BY <1>7, <2>1, <2>2, <2>3, MovedHart
<1>9. hart'.pc.at = to
  BY <1>8, AddressFacts
<1> QED BY <1>3, <1>5, <1>6, <1>8, <1>9

(* ret continues at the address on top of the stack.                       *)
LEMMA Returned ==
  ASSUME HartTypes, hart.sp.depth \in 1..Len(mem[hart.sp.stack]), Return
  PROVE  LET to == mem[hart.sp.stack][hart.sp.depth].to IN
         /\ to \in Label
         /\ hart' \in Hart /\ hart'.pc = Kernel(to) /\ hart'.pc.at = to
         /\ hart'.mode = hart.mode /\ hart'.sreg = hart.sreg
         /\ hart'.sp.stack = hart.sp.stack /\ hart'.sp.depth = hart.sp.depth - 1
         /\ mem' \in [Stacks -> Seq(StackItem)]
         /\ \A s \in Stacks : s # hart.sp.stack => mem'[s] = mem[s]
         /\ Len(mem'[hart.sp.stack]) = hart.sp.depth - 1
         /\ \A i \in 1..hart.sp.depth - 1 :
              mem'[hart.sp.stack][i] = mem[hart.sp.stack][i]
<1> DEFINE to == mem[hart.sp.stack][hart.sp.depth].to
<1>1. hart \in Hart /\ hart.sp \in Pointer /\ mem \in [Stacks -> Seq(StackItem)]
  BY DEF HartTypes, Hart
<1>2. hart.sp.depth \in Nat /\ hart.sp.stack \in Stacks
  BY <1>1 DEF Pointer
<1>3. mem[hart.sp.stack][hart.sp.depth] \in StackItem
  <2>1. mem[hart.sp.stack] \in Seq(StackItem)
    BY <1>1, <1>2
  <2> QED BY <2>1, StackElement
<1>4. to \in Label
  BY <1>3 DEF StackItem
<1>5. mem' = Popped(mem, hart.sp)
  BY DEF Return
<1>6. /\ mem' \in [Stacks -> Seq(StackItem)]
      /\ \A s \in Stacks : s # hart.sp.stack => mem'[s] = mem[s]
      /\ Len(mem'[hart.sp.stack]) = hart.sp.depth - 1
      /\ \A i \in 1..hart.sp.depth - 1 :
           mem'[hart.sp.stack][i] = mem[hart.sp.stack][i]
  BY <1>1, <1>5, PoppedItems
<1>7. /\ Above(hart.sp) \in Pointer /\ Above(hart.sp).stack = hart.sp.stack
      /\ Above(hart.sp).depth = hart.sp.depth - 1
  BY <1>1, PointerMoves, SMTT(30)
<1>8. hart' = Moved(hart, Kernel(to), Above(hart.sp))
  BY <1>1 DEF Return, Goto, Hart, Item, Moved
<1> HIDE DEF to
<1>9. /\ hart' \in Hart /\ hart'.pc = Kernel(to) /\ hart'.mode = hart.mode
      /\ hart'.sreg = hart.sreg /\ hart'.sp = Above(hart.sp)
  <2>1. Kernel(to) \in Address /\ hart \in Hart /\ Above(hart.sp) \in Pointer
    BY <1>1, <1>4, <1>7, AddressFacts
  <2> QED BY <1>8, <2>1, MovedHart
<1>10. hart'.pc.at = to
  BY <1>4, <1>9, AddressFacts
<1>11. hart'.sp.stack = hart.sp.stack /\ hart'.sp.depth = hart.sp.depth - 1
  BY <1>7, <1>9
<1> QED BY <1>4, <1>6, <1>9, <1>10, <1>11 DEF to

(* The hart continues at another address, with all its registers.          *)
LEMMA GotoHart ==
  ASSUME NEW h \in Hart, NEW l \in Label
  PROVE  /\ Goto(h, l) \in Hart /\ Goto(h, l).pc = Kernel(l) /\ Goto(h, l).pc.at = l
         /\ Goto(h, l).sp = h.sp /\ Goto(h, l).mode = h.mode
         /\ Goto(h, l).gpr = h.gpr /\ Goto(h, l).a0 = h.a0
         /\ Goto(h, l).sreg = h.sreg
<1>1. Kernel(l) \in Address /\ Kernel(l).at = l
  BY AddressFacts
<1>2. Goto(h, l) \in Hart
  BY <1>1 DEF Hart, Goto
<1>3. /\ Goto(h, l).pc = Kernel(l) /\ Goto(h, l).sp = h.sp
      /\ Goto(h, l).mode = h.mode /\ Goto(h, l).gpr = h.gpr
      /\ Goto(h, l).a0 = h.a0 /\ Goto(h, l).sreg = h.sreg
  BY DEF Hart, Goto
<1> QED BY <1>1, <1>2, <1>3

(* The kernel goes on with the same trap, on the same stack.               *)
LEMMA PlaceKept ==
  ASSUME OnTrapStack(pid, Snapshot(hart), sscratch_frame[pid], StackOf(pid)),
         state'[pid] \in Alive =>
           /\ Remembers(pid, Snapshot(hart), StackOf(pid), csr.scause, own[pid])
           /\ InSystemCall(hart'.pc.at, StackOf(pid)', csr'.scause)
                <=> InSystemCall(hart.pc.at, StackOf(pid), csr.scause),
         pid' = pid, sscratch_frame'[pid] = sscratch_frame[pid], own'[pid] = own[pid],
         csr'.sscratch = csr.sscratch, csr'.sepc = csr.sepc, csr'.satp = csr.satp,
         hart'.sreg = hart.sreg, hart'.sp.stack = hart.sp.stack,
         hart'.sp.depth = Len(StackOf(pid)'),
         ReturnsFrom(hart'.pc.at, StackOf(pid)'),
         StackOf(pid)'[1] = StackOf(pid)[1]
  PROVE  /\ OnTrapStack(pid, Snapshot(hart), sscratch_frame[pid], StackOf(pid))'
         /\ state'[pid'] \in Alive =>
              Remembers(pid, Snapshot(hart), StackOf(pid), csr.scause, own[pid])'
<1>1. OnTrapStack(pid, Snapshot(hart), sscratch_frame[pid], StackOf(pid))'
  BY DEF OnTrapStack, Snapshot
<1>2. ASSUME state'[pid] \in Alive
      PROVE  Remembers(pid, Snapshot(hart), StackOf(pid), csr.scause, own[pid])'
  <2>1. /\ Snapshot(hart)'.sscratch = Snapshot(hart).sscratch
        /\ Snapshot(hart)'.sreg = Snapshot(hart).sreg
        /\ Snapshot(hart)'.sepc = Snapshot(hart).sepc
        /\ Snapshot(hart)'.ra = hart'.pc.at /\ Snapshot(hart).ra = hart.pc.at
    BY DEF Snapshot
  <2> QED BY <1>2, <2>1 DEF Remembers
<1> QED BY <1>1, <1>2

(* A step of the kernel for the current process that leaves the processes  *)
(* alone.                                                                  *)
LEMMA KernelGoesOn ==
  ASSUME TrapsIInv, NEW l \in Label, At(l),
         l \notin StartUpCode \cup {"mtrap_handler", "mtrap_exit", "user"},
         pid # NoPid,
         HartTypes', DeviceTypes',
         \A s \in Stacks : s # TrapStack(sscratch_frame[pid]) => mem'[s] = mem[s],
         UNCHANGED <<processes, context>>, virt' = virt, first_call' = first_call,
         own' \in [Procs -> [n : Nat, gpr : Register, a0 : Register,
                             sreg : Register]],
         \A p \in Procs : p # pid => own'[p] = own[p],
         hart'.mode # "M",
         hart'.pc.at \notin StartUpCode \cup {"mtrap_handler", "mtrap_exit"},
         csr'.mscratch = csr.mscratch, csr'.enabled = csr.enabled,
         csr'.ssip => csr.ssip,
         InProgram(hart)' \/ InKernel(hart)'
  PROVE  TrapsIInv'
<1>1. ~InMachineTrap /\ hart.mode # "M"
  BY Supervisor
<1>2. ProcTypes' /\ Scheduling' /\ TrapStacks' /\ Saved'
  BY OthersKept
<1>3. pid' = pid
  BY DEF processes
<1>4. virt => ~first_call
  BY DEF TrapsIInv, Machine
<1>5. Where(hart)'
  BY <1>3 DEF Where
<1> QED BY <1>1, <1>2, <1>3, <1>4, <1>5, Assembled

(* The code that handles a trap of the current process.                    *)
HandlerCode == Label \ (StartUpCode \cup {"mtrap_handler", "mtrap_exit", "user",
                                          "process_call_wrapper_user"})

(* It runs on the trap stack of the current process.                       *)
LEMMA KernelStack ==
  ASSUME TrapsIInv, NEW l \in HandlerCode, At(l), pid # NoPid
  PROVE  /\ pid \in Procs /\ sscratch_frame[pid] \in Frames
         /\ hart.sp.stack = TrapStack(sscratch_frame[pid])
         /\ hart.sp.stack \in Stacks
         /\ StackOf(pid) = mem[hart.sp.stack]
         /\ hart.sp.depth = Len(mem[hart.sp.stack])
         /\ mem[hart.sp.stack] \in Seq(StackItem)
         /\ ReturnsFrom(l, mem[hart.sp.stack])
         /\ OnTrapStack(pid, Snapshot(hart), sscratch_frame[pid], StackOf(pid))
         /\ state[pid] \in Alive =>
              Remembers(pid, Snapshot(hart), StackOf(pid), csr.scause, own[pid])
         /\ l # "scheduler" => state[pid] = "ACTIF"
         /\ l # "strap_handler" => ~csr.ssip
         /\ ~csr.spp /\ (csr.sie => virt)
<1>1. l \in Label /\ l \notin StartUpCode \cup {"mtrap_handler", "mtrap_exit", "user"}
      /\ l # "process_call_wrapper_user"
  BY DEF HandlerCode
<1>2. pid \in Procs /\ InKernel(hart) /\ hart.pc.at = l
  BY <1>1, Supervisor
<1>3. Snapshot(hart).ra = l /\ Snapshot(hart).sp = hart.sp
  BY <1>2 DEF Snapshot
<1>4. ~NotRunYet(pid, Snapshot(hart), sscratch_frame[pid])
  BY <1>1, <1>3 DEF NotRunYet
<1>5. /\ OnTrapStack(pid, Snapshot(hart), sscratch_frame[pid], StackOf(pid))
      /\ state[pid] \in Alive =>
           Remembers(pid, Snapshot(hart), StackOf(pid), csr.scause, own[pid])
  BY <1>2, <1>4 DEF InKernel
<1>6. sscratch_frame[pid] \in Frames
  BY <1>2 DEF TrapsIInv, Scheduling, TrapStacks, ProcTypes
<1>7. /\ hart.sp.stack = TrapStack(sscratch_frame[pid])
      /\ hart.sp.depth = Len(StackOf(pid)) /\ ReturnsFrom(l, StackOf(pid))
  BY <1>3, <1>5 DEF OnTrapStack
<1>8. hart.sp.stack \in Stacks /\ StackOf(pid) = mem[hart.sp.stack]
  BY <1>6, <1>7, StackFacts DEF StackOf
<1>9. mem[hart.sp.stack] \in Seq(StackItem)
  BY <1>8 DEF TrapsIInv, HartTypes
<1>10. /\ l # "scheduler" => state[pid] = "ACTIF"
       /\ l # "strap_handler" => ~csr.ssip
       /\ ~csr.spp /\ (csr.sie => virt)
  BY <1>2 DEF InKernel
<1> QED BY <1>2, <1>5, <1>6, <1>7, <1>8, <1>9, <1>10

(* The kernel goes on with a trap of the current process, elsewhere.       *)
LEMMA KernelMoves ==
  ASSUME TrapsIInv, NEW l \in HandlerCode, At(l), l # "scheduler", pid # NoPid,
         hart' \in Hart, csr' \in Csr, mem' \in [Stacks -> Seq(StackItem)],
         DeviceTypes', UNCHANGED <<virt, first_call, processes, context, own>>,
         NEW m \in Label, m # "strap_handler",
         hart'.pc = Kernel(m), hart'.mode = "S", hart'.sreg = hart.sreg,
         hart'.sp.stack = hart.sp.stack, hart'.sp.depth = Len(mem'[hart.sp.stack]),
         \A s \in Stacks : s # hart.sp.stack => mem'[s] = mem[s],
         mem'[hart.sp.stack][1] = mem[hart.sp.stack][1],
         ReturnsFrom(m, mem'[hart.sp.stack]),
         InSystemCall(m, mem'[hart.sp.stack], csr.scause)
           <=> InSystemCall(l, mem[hart.sp.stack], csr.scause),
         csr'.sscratch = csr.sscratch, csr'.sepc = csr.sepc, csr'.satp = csr.satp,
         csr'.scause = csr.scause, csr'.mscratch = csr.mscratch,
         csr'.enabled = csr.enabled,
         ~csr'.spp, csr'.sie => virt, ~csr'.ssip
  PROVE  TrapsIInv'
<1>1. l \in Label /\ l \notin StartUpCode \cup {"mtrap_handler", "mtrap_exit", "user"}
  BY DEF HandlerCode
<1>2. hart'.pc.at = m /\ hart.pc.at = l
  BY <1>1, AddressFacts DEF At
<1>3. pid' = pid /\ state' = state /\ sscratch_frame' = sscratch_frame /\ own' = own
  BY DEF processes
<1>4. hart.sp.stack = TrapStack(sscratch_frame[pid]) /\ StackOf(pid) = mem[hart.sp.stack]
      /\ state[pid] = "ACTIF"
  BY KernelStack
<1>5. StackOf(pid)' = mem'[hart.sp.stack]
  BY <1>3, <1>4 DEF StackOf
<1>6. /\ OnTrapStack(pid, Snapshot(hart), sscratch_frame[pid], StackOf(pid))
      /\ Remembers(pid, Snapshot(hart), StackOf(pid), csr.scause, own[pid])
  BY <1>4, KernelStack DEF Alive
<1>7. ReturnsFrom(hart'.pc.at, StackOf(pid)') /\ StackOf(pid)'[1] = StackOf(pid)[1]
  BY <1>2, <1>4, <1>5
<1>8. InSystemCall(hart'.pc.at, StackOf(pid)', csr'.scause)
        <=> InSystemCall(hart.pc.at, StackOf(pid), csr.scause)
  BY <1>2, <1>4, <1>5
<1>9. /\ OnTrapStack(pid, Snapshot(hart), sscratch_frame[pid], StackOf(pid))'
      /\ state'[pid'] \in Alive =>
           Remembers(pid, Snapshot(hart), StackOf(pid), csr.scause, own[pid])'
  BY <1>3, <1>5, <1>6, <1>7, <1>8, PlaceKept
<1>10. InKernel(hart)'
  <2>1. hart'.pc = Kernel(hart'.pc.at) /\ hart'.pc.at # "strap_handler"
    BY <1>2
  <2>2. state'[pid'] = "ACTIF"
    BY <1>3, <1>4
  <2> QED BY <1>9, <2>1, <2>2 DEF InKernel
<1>11. m \notin StartUpCode \cup {"mtrap_handler", "mtrap_exit"}
  BY DEF ReturnsFrom, StartUpCode
<1>12. HartTypes'
  BY DEF HartTypes, TrapsIInv
<1>13. own' \in [Procs -> [n : Nat, gpr : Register, a0 : Register, sreg : Register]]
  BY <1>3 DEF TrapsIInv, ProcTypes
<1>14. \A s \in Stacks : s # TrapStack(sscratch_frame[pid]) => mem'[s] = mem[s]
  BY <1>4
<1> QED BY <1>1, <1>2, <1>3, <1>10, <1>11, <1>12, <1>13, <1>14, KernelGoesOn

(* The registers and the devices do not change.                            *)
LEMMA SameRegisters ==
  ASSUME TrapsIInv, NEW l \in HandlerCode, At(l), pid # NoPid, csr' = csr
  PROVE  /\ csr' \in Csr
         /\ csr'.sscratch = csr.sscratch /\ csr'.sepc = csr.sepc
         /\ csr'.satp = csr.satp /\ csr'.scause = csr.scause
         /\ csr'.mscratch = csr.mscratch /\ csr'.enabled = csr.enabled
         /\ ~csr'.spp /\ (csr'.sie => virt)
         /\ l # "strap_handler" => ~csr'.ssip
         /\ csr.scause # "s_software" => ~csr'.ssip
<1>1. csr \in Csr
  BY DEF TrapsIInv, HartTypes
<1>2. l \in Label /\ l \notin StartUpCode \cup {"mtrap_handler", "mtrap_exit", "user"}
  BY DEF HandlerCode
<1>3. InKernel(hart)
  BY <1>2, Supervisor
<1>4. csr.scause # "s_software" => ~csr.ssip
  BY <1>3 DEF InKernel
<1> QED BY <1>1, <1>4, KernelStack

(* A call or a return of a handler of the current process.                 *)
LEMMA KernelCalls ==
  ASSUME TrapsIInv, NEW l \in HandlerCode, At(l), l # "scheduler", pid # NoPid,
         NEW to \in Label, NEW back \in Label, to # "strap_handler", Call(to, back),
         csr' \in Csr,
         DeviceTypes', UNCHANGED <<virt, first_call, processes, context, own>>,
         \A stk \in Seq(StackItem) :
           /\ Len(stk) = Len(mem[hart.sp.stack]) + 1
           /\ stk[Len(stk)].to = back
           /\ \A i \in 1..Len(stk) - 1 : stk[i] = mem[hart.sp.stack][i]
           => /\ ReturnsFrom(to, stk)
              /\ InSystemCall(to, stk, csr.scause)
                   <=> InSystemCall(l, mem[hart.sp.stack], csr.scause),
         csr'.sscratch = csr.sscratch, csr'.sepc = csr.sepc, csr'.satp = csr.satp,
         csr'.scause = csr.scause, csr'.mscratch = csr.mscratch,
         csr'.enabled = csr.enabled,
         ~csr'.spp, csr'.sie => virt, ~csr'.ssip
  PROVE  TrapsIInv'
<1> DEFINE d == hart.sp.depth
           s0 == hart.sp.stack
<1>1. /\ HartTypes /\ s0 \in Stacks /\ d = Len(mem[s0])
      /\ mem[s0] \in Seq(StackItem) /\ ReturnsFrom(l, mem[s0])
  BY KernelStack DEF TrapsIInv
<1>2. d \in Nat /\ d > 0
  <2>1. Len(mem[s0]) \in Nat
    BY <1>1, StackLength
  <2>2. Len(mem[s0]) > 0
    <3>1. Len(mem[s0]) = 1 \/ Len(mem[s0]) = 2 \/ Len(mem[s0]) = 3
      BY <1>1 DEF ReturnsFrom
    <3>2. \A n : n = 1 \/ n = 2 \/ n = 3 => n > 0
      BY SMTT(30)
    <3> QED BY <3>1, <3>2
  <2>3. d = Len(mem[s0])
    BY <1>1
  <2> QED BY <2>1, <2>2, <2>3
<1>3. /\ hart' \in Hart /\ hart'.pc = Kernel(to)
      /\ hart'.mode = hart.mode /\ hart'.sreg = hart.sreg
      /\ hart'.sp.stack = s0 /\ hart'.sp.depth = d + 1
      /\ mem' \in [Stacks -> Seq(StackItem)]
      /\ \A s \in Stacks : s # s0 => mem'[s] = mem[s]
      /\ Len(mem'[s0]) = d + 1 /\ mem'[s0][d + 1].to = back
      /\ \A i \in 1..d : mem'[s0][i] = mem[s0][i]
  BY <1>1, <1>2, Called, SMTT(30)
<1>4. hart'.mode = "S"
  BY <1>3, Supervisor DEF HandlerCode
<1> HIDE DEF d, s0
<1>5. mem'[s0] \in Seq(StackItem)
  BY <1>1, <1>3
<1>6. /\ Len(mem'[s0]) = Len(mem[s0]) + 1 /\ mem'[s0][Len(mem'[s0])].to = back
      /\ \A i \in 1..Len(mem'[s0]) - 1 : mem'[s0][i] = mem[s0][i]
  BY <1>1, <1>2, <1>3, SMTT(30)
<1>7. /\ ReturnsFrom(to, mem'[s0])
      /\ InSystemCall(to, mem'[s0], csr.scause)
           <=> InSystemCall(l, mem[s0], csr.scause)
  BY <1>5, <1>6 DEF s0
<1>8. mem'[s0][1] = mem[s0][1]
  BY <1>2, <1>3, SMTT(30)
<1> USE DEF s0
<1> QED BY <1>3, <1>4, <1>7, <1>8, KernelMoves

(* A function that a handler of the current process called returns.        *)
LEMMA KernelReturns ==
  ASSUME TrapsIInv, NEW l \in HandlerCode, At(l), l # "scheduler", pid # NoPid,
         Len(mem[hart.sp.stack]) > 1, Return,
         csr' \in Csr,
         DeviceTypes', UNCHANGED <<virt, first_call, processes, context, own>>,
         mem[hart.sp.stack][Len(mem[hart.sp.stack])].to # "strap_handler",
         \A stk \in Seq(StackItem) :
           /\ Len(stk) = Len(mem[hart.sp.stack]) - 1
           /\ \A i \in 1..Len(stk) : stk[i] = mem[hart.sp.stack][i]
           => LET to == mem[hart.sp.stack][Len(mem[hart.sp.stack])].to IN
              /\ ReturnsFrom(to, stk)
              /\ InSystemCall(to, stk, csr.scause)
                   <=> InSystemCall(l, mem[hart.sp.stack], csr.scause),
         csr'.sscratch = csr.sscratch, csr'.sepc = csr.sepc, csr'.satp = csr.satp,
         csr'.scause = csr.scause, csr'.mscratch = csr.mscratch,
         csr'.enabled = csr.enabled,
         ~csr'.spp, csr'.sie => virt, ~csr'.ssip
  PROVE  TrapsIInv'
<1> DEFINE d == hart.sp.depth
           s0 == hart.sp.stack
           to == mem[s0][d].to
<1>1. /\ HartTypes /\ s0 \in Stacks /\ d = Len(mem[s0])
      /\ mem[s0] \in Seq(StackItem)
  BY KernelStack DEF TrapsIInv
<1>2. d \in Nat /\ d > 1 /\ d \in 1..Len(mem[s0])
  BY <1>1, StackLength, SMTT(30)
<1>3. /\ to \in Label /\ hart' \in Hart /\ hart'.pc = Kernel(to)
      /\ hart'.mode = hart.mode /\ hart'.sreg = hart.sreg
      /\ hart'.sp.stack = s0 /\ hart'.sp.depth = d - 1
      /\ mem' \in [Stacks -> Seq(StackItem)]
      /\ \A s \in Stacks : s # s0 => mem'[s] = mem[s]
      /\ Len(mem'[s0]) = d - 1
      /\ \A i \in 1..d - 1 : mem'[s0][i] = mem[s0][i]
  BY <1>1, <1>2, Returned
<1>4. hart'.mode = "S"
  BY <1>3, Supervisor DEF HandlerCode
<1>5. to # "strap_handler"
  BY <1>1
<1> HIDE DEF d, s0, to
<1>6. mem'[s0] \in Seq(StackItem)
  BY <1>1, <1>3
<1>7. /\ Len(mem'[s0]) = Len(mem[s0]) - 1
      /\ \A i \in 1..Len(mem'[s0]) : mem'[s0][i] = mem[s0][i]
  BY <1>1, <1>2, <1>3
<1>8. /\ ReturnsFrom(to, mem'[s0])
      /\ InSystemCall(to, mem'[s0], csr.scause)
           <=> InSystemCall(l, mem[s0], csr.scause)
  BY <1>1, <1>6, <1>7 DEF s0, to
<1>9. mem'[s0][1] = mem[s0][1]
  BY <1>2, <1>3, SMTT(30)
<1> USE DEF s0
<1> QED BY <1>3, <1>4, <1>5, <1>8, <1>9, KernelMoves
------------------------------------------------------------------------------
(* Handlers, for the current process                                       *)

(* clear_STIP comes to the end of the trap.                                *)
LEMMA ClearSTIPInv ==
  ASSUME TrapsIInv, clear_STIP
  PROVE  TrapsIInv'
<1> DEFINE l == "clear_STIP"
           s0 == hart.sp.stack
<1>1. At(l) /\ l \in HandlerCode
  BY DEF clear_STIP, HandlerCode, Label, StartUpCode
<1>2. pid # NoPid
  <2>1. hart.pc.at = l /\ (pid = NoPid => Booting(hart))
    BY <1>1, Supervisor DEF HandlerCode
  <2> QED BY <2>1, SMTT(30) DEF Booting, StartsUp, WaitsForInterrupt, InFirstTrap,
             StartUpCode, Kernel
<1>3. /\ ReturnsFrom(l, mem[s0]) /\ hart.sp.depth = Len(mem[s0])
      /\ hart.mode = "S"
  BY <1>1, <1>2, KernelStack, Supervisor DEF HandlerCode
<1>4. UNCHANGED <<virt, csr, mem, first_call, processes, context, own>> /\ DeviceTypes'
  BY DEF clear_STIP, devices, TrapsIInv, DeviceTypes
<1>5. /\ hart' \in Hart /\ hart'.pc = Kernel("strap_exit") /\ hart'.sp = hart.sp
      /\ hart'.mode = "S" /\ hart'.sreg = hart.sreg
  <2>1. hart \in Hart /\ "strap_exit" \in Label /\ hart' = Goto(hart, "strap_exit")
    BY DEF TrapsIInv, HartTypes, Label, clear_STIP
  <2> QED BY <1>3, <2>1, GotoHart
<1>6. "strap_exit" \in Label /\ mem' \in [Stacks -> Seq(StackItem)]
  BY <1>4 DEF Label, TrapsIInv, HartTypes
<1>7. ReturnsFrom("strap_exit", mem'[s0])
  BY <1>3, <1>4 DEF ReturnsFrom
<1>8. InSystemCall("strap_exit", mem'[s0], csr.scause)
        <=> InSystemCall(l, mem[s0], csr.scause)
  BY DEF InSystemCall
<1>9. l # "scheduler" /\ l # "strap_handler"
  OBVIOUS
<1> HIDE DEF l
<1>10. /\ csr' \in Csr
       /\ csr'.sscratch = csr.sscratch /\ csr'.sepc = csr.sepc
       /\ csr'.satp = csr.satp /\ csr'.scause = csr.scause
       /\ csr'.mscratch = csr.mscratch /\ csr'.enabled = csr.enabled
       /\ ~csr'.spp /\ (csr'.sie => virt) /\ ~csr'.ssip
  BY <1>1, <1>2, <1>4, <1>9, SameRegisters
<1> QED BY <1>1, <1>2, <1>3, <1>4, <1>5, <1>6, <1>7, <1>8, <1>9, <1>10, KernelMoves

(* Where the hart is once interrupts are let in and before the first       *)
(* process runs.                                                           *)
LEMMA SupervisorLabels ==
  ASSUME TrapsIInv, NEW l \in HandlerCode, At(l), pid = NoPid,
         l \notin {"kernel_start", "wfi"}
  PROVE  InFirstTrap(hart)
<1>1. hart.pc.at = l /\ Booting(hart) /\ l \notin StartUpCode
  BY Supervisor DEF HandlerCode
<1> QED BY <1>1, AddressFacts DEF Booting, StartsUp, WaitsForInterrupt, Label

(* scheduler() returns to its caller.                                      *)
LEMMA SchedulerEndInv ==
  ASSUME TrapsIInv, scheduler_end
  PROVE  TrapsIInv'
<1> DEFINE l == "scheduler_end"
           s0 == hart.sp.stack
<1>1. At(l) /\ l \in HandlerCode /\ l \notin {"kernel_start", "wfi"}
  BY DEF scheduler_end, HandlerCode, Label, StartUpCode
<1>2. hart.pc.at = l
  BY <1>1, Supervisor DEF HandlerCode
<1>3. pid # NoPid
  BY <1>1, <1>2, SupervisorLabels DEF InFirstTrap
<1>4. /\ ReturnsFrom(l, mem[s0]) /\ hart.sp.depth = Len(mem[s0])
      /\ mem[s0] \in Seq(StackItem)
  BY <1>1, <1>3, KernelStack
<1>5. UNCHANGED <<virt, csr, first_call, processes, context, own>> /\ DeviceTypes'
  BY DEF scheduler_end, devices, TrapsIInv, DeviceTypes
<1>6. /\ Len(mem[s0]) > 1
      /\ mem[s0][Len(mem[s0])].to # "strap_handler"
  BY <1>4, SMTT(30) DEF ReturnsFrom
<1>7. ASSUME NEW stk \in Seq(StackItem), Len(stk) = Len(mem[s0]) - 1,
             \A i \in 1..Len(stk) : stk[i] = mem[s0][i]
      PROVE  LET to == mem[s0][Len(mem[s0])].to IN
             /\ ReturnsFrom(to, stk)
             /\ InSystemCall(to, stk, csr.scause)
                  <=> InSystemCall(l, mem[s0], csr.scause)
  <2>1. CASE Len(mem[s0]) = 2
    BY <1>4, <1>7, <2>1, SMTT(30) DEF ReturnsFrom, InSystemCall
  <2>2. CASE Len(mem[s0]) = 3
    BY <1>4, <1>7, <2>2, SMTT(30) DEF ReturnsFrom, InSystemCall
  <2> QED BY <1>4, <2>1, <2>2 DEF ReturnsFrom
<1>8. Return /\ l # "scheduler" /\ l # "strap_handler"
  BY DEF scheduler_end
<1> HIDE DEF l
<1>9. /\ csr' \in Csr
      /\ csr'.sscratch = csr.sscratch /\ csr'.sepc = csr.sepc
      /\ csr'.satp = csr.satp /\ csr'.scause = csr.scause
      /\ csr'.mscratch = csr.mscratch /\ csr'.enabled = csr.enabled
      /\ ~csr'.spp /\ (csr'.sie => virt) /\ ~csr'.ssip
  BY <1>1, <1>3, <1>5, <1>8, SameRegisters
<1> QED BY <1>1, <1>3, <1>5, <1>6, <1>7, <1>8, <1>9, KernelReturns

(* A handler goes on before the first process runs.                        *)
LEMMA FirstTrapMoves ==
  ASSUME TrapsIInv, InFirstTrap(hart), ~InMachineTrap, pid = NoPid,
         \A p \in Procs : state[p] \in {"NONE", "ACTIVATABLE"}, dead = {},
         hart' \in Hart, csr' \in Csr, mem' \in [Stacks -> Seq(StackItem)],
         DeviceTypes', UNCHANGED <<virt, first_call, processes, context, own>>,
         NEW m \in {"strap_exit", "handle_stimer_interrupt", "scheduler"},
         hart'.pc = Kernel(m), hart'.mode = "S",
         hart'.sp.stack = StrapStack, hart'.sp.depth = Len(mem'[StrapStack]),
         hart'.sp.depth > 0, m = "strap_exit" => hart'.sp.depth = 1,
         \A s \in Stacks : s # StrapStack => mem'[s] = mem[s],
         csr'.sscratch = csr.sscratch, csr'.sepc = csr.sepc, csr'.spp = csr.spp,
         csr'.spie = csr.spie, ~csr'.sie, ~csr'.ssip,
         csr'.mscratch = csr.mscratch, csr'.enabled = csr.enabled
  PROVE  TrapsIInv'
<1>1. hart.mode # "M"
  BY DEF InFirstTrap
<1>2. ProcTypes' /\ Scheduling' /\ TrapStacks' /\ Saved'
  <2>1. own' \in [Procs -> [n : Nat, gpr : Register, a0 : Register, sreg : Register]]
    BY DEF TrapsIInv, ProcTypes
  <2> QED BY <2>1, OthersKept
<1>3. m \in Label /\ m \notin StartUpCode \cup {"mtrap_handler", "mtrap_exit"}
  BY DEF Label, StartUpCode
<1>4. hart'.pc.at = m
  BY <1>3, AddressFacts
<1>5. pid' = pid /\ state' = state /\ dead' = dead /\ activatable' = activatable
  BY DEF processes
<1>6. InFirstTrap(hart)'
  BY <1>4, <1>5 DEF InFirstTrap
<1>7. Where(hart)'
  BY <1>5, <1>6 DEF Where, Booting
<1>8. HartTypes'
  BY DEF HartTypes, TrapsIInv
<1>9. virt /\ pid' # NoPid => ~first_call
  BY <1>5
<1> QED BY <1>1, <1>2, <1>3, <1>4, <1>7, <1>8, <1>9, Assembled

(* A handler that runs before the first process is in the trap of the      *)
(* interrupt start-up waits for.                                           *)
LEMMA FirstTrapFacts ==
  ASSUME TrapsIInv, NEW l \in HandlerCode, At(l), pid = NoPid,
         l \notin {"kernel_start", "wfi"}
  PROVE  /\ InFirstTrap(hart) /\ ~InMachineTrap /\ hart.mode = "S" /\ hart.pc.at = l
         /\ \A p \in Procs : state[p] \in {"NONE", "ACTIVATABLE"}
         /\ dead = {}
         /\ hart.sp.stack = StrapStack /\ hart.sp.depth = Len(mem[StrapStack])
         /\ hart.sp.depth \in Nat \ {0}
         /\ l \in {"strap_handler", "strap_exit"} => hart.sp.depth = 1
         /\ l # "strap_handler" \/ csr.scause # "s_software" => ~csr.ssip
         /\ ~csr.sie
<1>1. InFirstTrap(hart)
  BY SupervisorLabels
<1>2. hart.pc.at = l /\ Booting(hart) /\ ~InMachineTrap /\ hart.mode = "S"
  BY Supervisor DEF HandlerCode
<1>3. hart.sp.depth \in Nat
  BY DEF TrapsIInv, HartTypes, Hart, Pointer
<1> QED BY <1>1, <1>2, <1>3, SMTT(30) DEF InFirstTrap, Booting

(* A handler calls a function before the first process runs.               *)
LEMMA FirstTrapCalls ==
  ASSUME TrapsIInv, NEW l \in HandlerCode, At(l), pid = NoPid,
         l \notin {"kernel_start", "wfi"},
         csr' \in Csr,
         DeviceTypes', UNCHANGED <<virt, first_call, processes, context, own>>,
         NEW to \in {"handle_stimer_interrupt", "scheduler"}, NEW back \in Label,
         Call(to, back),
         csr'.sscratch = csr.sscratch, csr'.sepc = csr.sepc, csr'.spp = csr.spp,
         csr'.spie = csr.spie, ~csr'.sie, ~csr'.ssip,
         csr'.mscratch = csr.mscratch, csr'.enabled = csr.enabled
  PROVE  TrapsIInv'
<1> DEFINE d == hart.sp.depth
<1>1. /\ InFirstTrap(hart) /\ ~InMachineTrap /\ hart.mode = "S"
      /\ \A p \in Procs : state[p] \in {"NONE", "ACTIVATABLE"}
      /\ dead = {}
      /\ hart.sp.stack = StrapStack /\ d = Len(mem[StrapStack])
      /\ d \in Nat
  BY FirstTrapFacts
<1>2. HartTypes /\ to \in Label /\ d <= Len(mem[hart.sp.stack])
  BY <1>1, SMTT(30) DEF TrapsIInv, Label
<1>3. /\ hart' \in Hart /\ hart'.pc = Kernel(to) /\ hart'.mode = hart.mode
      /\ hart'.sp.stack = hart.sp.stack /\ hart'.sp.depth = d + 1
      /\ mem' \in [Stacks -> Seq(StackItem)]
      /\ \A s \in Stacks : s # hart.sp.stack => mem'[s] = mem[s]
      /\ Len(mem'[hart.sp.stack]) = d + 1
  BY <1>2, Called
<1>4. hart'.sp.depth > 0 /\ to # "strap_exit"
  BY <1>1, <1>3, SMTT(30)
<1>5. to \in {"strap_exit", "handle_stimer_interrupt", "scheduler"}
  OBVIOUS
<1> HIDE DEF d
<1> QED BY <1>1, <1>3, <1>4, <1>5, FirstTrapMoves

(* handle_stimer_interrupt is called in the case of timer interrupts ...   *)
LEMMA TimerCaseInv ==
  ASSUME TrapsIInv, s_timer
  PROVE  TrapsIInv'
<1>1. PICK l \in {"strap_handler", "s_timer"} :
        At(l) /\ (l = "strap_handler" => csr.scause = "s_timer")
  BY DEF s_timer, InHandler
<1>2. l \in HandlerCode /\ l \notin {"kernel_start", "wfi", "scheduler"}
  BY DEF HandlerCode, Label, StartUpCode
<1>3. /\ Call("handle_stimer_interrupt", "clear_STIP")
      /\ "handle_stimer_interrupt" \in Label /\ "clear_STIP" \in Label
  BY DEF s_timer, Label
<1>4. UNCHANGED <<virt, csr, first_call, processes, context, own>> /\ DeviceTypes'
  BY DEF s_timer, devices, TrapsIInv, DeviceTypes
<1>5. CASE pid = NoPid
  <2>1. ~csr.sie /\ ~csr.ssip
    BY <1>1, <1>2, <1>5, FirstTrapFacts
  <2>2. csr \in Csr
    BY DEF TrapsIInv, HartTypes
  <2> QED BY <1>1, <1>2, <1>3, <1>4, <1>5, <2>1, <2>2, FirstTrapCalls
<1>6. CASE pid # NoPid
  <2> DEFINE s0 == hart.sp.stack
  <2>1. /\ ReturnsFrom(l, mem[s0]) /\ hart.sp.depth = Len(mem[s0])
    BY <1>1, <1>2, <1>6, KernelStack
  <2>2. Len(mem[s0]) = 1
    BY <2>1 DEF ReturnsFrom
  <2>3. /\ csr' \in Csr
        /\ csr'.sscratch = csr.sscratch /\ csr'.sepc = csr.sepc
        /\ csr'.satp = csr.satp /\ csr'.scause = csr.scause
        /\ csr'.mscratch = csr.mscratch /\ csr'.enabled = csr.enabled
        /\ ~csr'.spp /\ (csr'.sie => virt) /\ ~csr'.ssip
    BY <1>1, <1>2, <1>4, <1>6, SameRegisters
  <2>4. ~InSystemCall(l, mem[s0], csr.scause)
    BY <1>1 DEF InSystemCall
  <2>5. ASSUME NEW stk \in Seq(StackItem), Len(stk) = Len(mem[s0]) + 1,
               stk[Len(stk)].to = "clear_STIP"
        PROVE  /\ ReturnsFrom("handle_stimer_interrupt", stk)
               /\ ~InSystemCall("handle_stimer_interrupt", stk, csr.scause)
    BY <2>2, <2>5, SMTT(30) DEF ReturnsFrom, InSystemCall
  <2> QED BY <1>1, <1>2, <1>3, <1>4, <1>6, <2>3, <2>4, <2>5, KernelCalls
<1> QED BY <1>5, <1>6

(* ... and, with its own return address, in the case of software           *)
(* interrupts.                                                             *)
LEMMA SoftwareCaseInv ==
  ASSUME TrapsIInv, s_software
  PROVE  TrapsIInv'
<1> DEFINE l == "strap_handler"
           to == "handle_stimer_interrupt"
<1>1. /\ At(l) /\ csr.scause = "s_software"
      /\ l \in HandlerCode /\ l \notin {"kernel_start", "wfi", "scheduler"}
  BY DEF s_software, InHandler, HandlerCode, Label, StartUpCode
<1>2. Call(to, "s_timer") /\ to \in Label /\ "s_timer" \in Label
  BY DEF s_software, AfterSoftware, Label
<1>3. UNCHANGED <<virt, first_call, processes, context, own>> /\ DeviceTypes'
  BY DEF s_software, devices, TrapsIInv, DeviceTypes
<1>4. /\ csr' \in Csr
      /\ csr'.sscratch = csr.sscratch /\ csr'.sepc = csr.sepc
      /\ csr'.satp = csr.satp /\ csr'.scause = csr.scause
      /\ csr'.mscratch = csr.mscratch /\ csr'.enabled = csr.enabled
      /\ csr'.spp = csr.spp /\ csr'.spie = csr.spie /\ ~csr'.sie /\ ~csr'.ssip
  <2>1. csr \in Csr /\ csr' = [csr EXCEPT !.sie = FALSE, !.ssip = FALSE]
    BY DEF TrapsIInv, HartTypes, s_software
  <2>2. csr' \in Csr
    BY <2>1 DEF Csr
  <2> QED BY <2>1, <2>2 DEF Csr
<1>5. CASE pid = NoPid
  BY <1>1, <1>2, <1>3, <1>4, <1>5, FirstTrapCalls
<1>6. CASE pid # NoPid
  <2> DEFINE s0 == hart.sp.stack
  <2>1. /\ ReturnsFrom(l, mem[s0]) /\ hart.sp.depth = Len(mem[s0])
        /\ ~csr.spp
    BY <1>1, <1>6, KernelStack
  <2>2. Len(mem[s0]) = 1
    BY <2>1 DEF ReturnsFrom
  <2>3. ~InSystemCall(l, mem[s0], csr.scause)
    BY <1>1 DEF InSystemCall
  <2>4. ASSUME NEW stk \in Seq(StackItem), Len(stk) = Len(mem[s0]) + 1,
               stk[Len(stk)].to = "s_timer"
        PROVE  ReturnsFrom(to, stk) /\ ~InSystemCall(to, stk, csr.scause)
    BY <2>2, <2>4, SMTT(30) DEF ReturnsFrom, InSystemCall
  <2>5. to # "strap_handler" /\ ~csr'.spp
    BY <1>4, <2>1
  <2> HIDE DEF l, to
  <2> QED BY <1>1, <1>2, <1>3, <1>4, <1>6, <2>3, <2>4, <2>5, KernelCalls
<1> QED BY <1>5, <1>6

(* It counts the tick and calls scheduler().                               *)
LEMMA HandleTimerInv ==
  ASSUME TrapsIInv, handle_stimer_interrupt
  PROVE  TrapsIInv'
<1> DEFINE l == "handle_stimer_interrupt"
<1>1. At(l) /\ l \in HandlerCode /\ l \notin {"kernel_start", "wfi", "scheduler"}
      /\ l # "strap_handler"
  BY DEF handle_stimer_interrupt, HandlerCode, Label, StartUpCode
<1>2. /\ Call("scheduler", "stimer_end") /\ "scheduler" \in Label
      /\ "stimer_end" \in Label /\ "scheduler" # "strap_handler"
  BY DEF handle_stimer_interrupt, Label
<1>3. UNCHANGED <<virt, csr, first_call, processes, context, own>>
  BY DEF handle_stimer_interrupt
<1>4. DeviceTypes'
  <2>1. Wrap \in Nat \ {0} /\ counter \in Nat
    BY TrapsAssumption, SMTT(30) DEF TrapsIInv, DeviceTypes
  <2>2. counter' \in 0..Wrap-1
    BY <2>1, SMTT(30) DEF handle_stimer_interrupt
  <2>3. timer' \in [armed : BOOLEAN, due : BOOLEAN]
    BY DEF handle_stimer_interrupt, Rearmed, TrapsIInv, DeviceTypes
  <2>4. first_call' \in BOOLEAN
    BY <1>3 DEF TrapsIInv, DeviceTypes
  <2> QED BY <2>2, <2>3, <2>4 DEF DeviceTypes
<1>5. CASE pid = NoPid
  <2>1. ~csr.sie /\ ~csr.ssip
    BY <1>1, <1>5, FirstTrapFacts
  <2>2. csr \in Csr
    BY DEF TrapsIInv, HartTypes
  <2> QED BY <1>1, <1>2, <1>3, <1>4, <1>5, <2>1, <2>2, FirstTrapCalls
<1>6. CASE pid # NoPid
  <2> DEFINE s0 == hart.sp.stack
  <2>1. /\ ReturnsFrom(l, mem[s0]) /\ hart.sp.depth = Len(mem[s0])
    BY <1>1, <1>6, KernelStack
  <2>2. Len(mem[s0]) = 2 /\ mem[s0][2].to \in {"s_timer", "clear_STIP"}
    BY <2>1 DEF ReturnsFrom
  <2>3. ~InSystemCall(l, mem[s0], csr.scause)
    BY DEF InSystemCall
  <2>4. ASSUME NEW stk \in Seq(StackItem), Len(stk) = Len(mem[s0]) + 1,
               stk[Len(stk)].to = "stimer_end",
               \A i \in 1..Len(stk) - 1 : stk[i] = mem[s0][i]
        PROVE  ReturnsFrom("scheduler", stk) /\ ~InSystemCall("scheduler", stk, csr.scause)
    <3>1. Len(stk) = 3 /\ stk[2] = mem[s0][2]
      BY <2>2, <2>4, SMTT(30)
    <3> QED BY <2>2, <2>4, <3>1 DEF ReturnsFrom, InSystemCall
  <2> HIDE DEF l
  <2>5. /\ csr' \in Csr
        /\ csr'.sscratch = csr.sscratch /\ csr'.sepc = csr.sepc
        /\ csr'.satp = csr.satp /\ csr'.scause = csr.scause
        /\ csr'.mscratch = csr.mscratch /\ csr'.enabled = csr.enabled
        /\ ~csr'.spp /\ (csr'.sie => virt) /\ ~csr'.ssip
    BY <1>1, <1>3, <1>6, SameRegisters
  <2> QED BY <1>1, <1>2, <1>3, <1>4, <1>6, <2>3, <2>4, <2>5, KernelCalls
<1> QED BY <1>5, <1>6

(* It returns to the case of the interrupt it was called for.              *)
LEMMA TimerEndInv ==
  ASSUME TrapsIInv, stimer_end
  PROVE  TrapsIInv'
<1> DEFINE l == "stimer_end"
           s0 == hart.sp.stack
<1>1. At(l) /\ l \in HandlerCode /\ l \notin {"kernel_start", "wfi", "scheduler"}
      /\ l # "strap_handler"
  BY DEF stimer_end, HandlerCode, Label, StartUpCode
<1>2. hart.pc.at = l
  BY <1>1, Supervisor DEF HandlerCode
<1>3. pid # NoPid
  BY <1>1, <1>2, SupervisorLabels DEF InFirstTrap
<1>4. /\ ReturnsFrom(l, mem[s0]) /\ hart.sp.depth = Len(mem[s0])
      /\ ~csr.spp /\ (csr.sie => virt) /\ ~csr.ssip
  BY <1>1, <1>3, KernelStack
<1>5. /\ Len(mem[s0]) = 2 /\ Len(mem[s0]) > 1
      /\ mem[s0][2].to \in {"s_timer", "clear_STIP"}
  BY <1>4, SMTT(30) DEF ReturnsFrom
<1>6. UNCHANGED <<virt, first_call, processes, context, own>> /\ DeviceTypes'
  BY DEF stimer_end, devices, TrapsIInv, DeviceTypes
<1>7. mem[s0][Len(mem[s0])].to # "strap_handler"
  BY <1>5
<1>8. ~InSystemCall(l, mem[s0], csr.scause)
  BY DEF InSystemCall
<1>9. ASSUME NEW stk \in Seq(StackItem), Len(stk) = Len(mem[s0]) - 1
      PROVE  /\ ReturnsFrom(mem[s0][Len(mem[s0])].to, stk)
             /\ ~InSystemCall(mem[s0][Len(mem[s0])].to, stk, csr.scause)
  BY <1>5, <1>9, SMTT(30) DEF ReturnsFrom, InSystemCall
<1>10. /\ csr' \in Csr
       /\ csr'.sscratch = csr.sscratch /\ csr'.sepc = csr.sepc
       /\ csr'.satp = csr.satp /\ csr'.scause = csr.scause
       /\ csr'.mscratch = csr.mscratch /\ csr'.enabled = csr.enabled
       /\ ~csr'.spp /\ (csr'.sie => virt) /\ ~csr'.ssip
  <2>1. csr \in Csr
    BY DEF TrapsIInv, HartTypes
  <2>2. CASE ~virt
    BY <1>4, <2>1, <2>2 DEF stimer_end
  <2>3. CASE virt
    <3>1. csr' = [csr EXCEPT !.sie = TRUE]
      BY <2>3 DEF stimer_end
    <3>2. csr' \in Csr
      BY <2>1, <3>1 DEF Csr
    <3> QED BY <1>4, <2>1, <2>3, <3>1, <3>2 DEF Csr
  <2> QED BY <2>2, <2>3
<1>11. Return
  BY DEF stimer_end
<1> HIDE DEF l
<1> QED BY <1>1, <1>3, <1>5, <1>6, <1>7, <1>8, <1>9, <1>10, <1>11, KernelReturns
------------------------------------------------------------------------------
(* Back to the program                                                     *)

(* The hart and the registers after the instructions from the end of       *)
(* strap_entry to sret.                                                    *)
Exited(h, item, c) == sret([Restored(h, item) EXCEPT !.sp = c.sscratch], c)
LeftTrap(c, sp) == AfterSret([c EXCEPT !.sscratch = sp])

(* The hart goes back to where and to what it was interrupted in.          *)
LEMMA ExitedHart ==
  ASSUME NEW h \in Hart, NEW item \in StackItem, NEW c \in Csr
  PROVE  /\ Exited(h, item, c) \in Hart
         /\ Exited(h, item, c).mode = IF c.spp THEN "S" ELSE "U"
         /\ Exited(h, item, c).pc = c.sepc /\ Exited(h, item, c).sp = c.sscratch
         /\ Exited(h, item, c).gpr = item.gpr /\ Exited(h, item, c).a0 = item.a0
         /\ Exited(h, item, c).sreg = h.sreg
<1>1. c.sscratch \in Pointer /\ c.sepc \in Address
  BY DEF Csr
<1>2. item.gpr \in Register /\ item.a0 \in Register
  BY DEF StackItem
<1>3. /\ Exited(h, item, c).mode = IF c.spp THEN "S" ELSE "U"
      /\ Exited(h, item, c).pc = c.sepc /\ Exited(h, item, c).sp = c.sscratch
      /\ Exited(h, item, c).gpr = item.gpr /\ Exited(h, item, c).a0 = item.a0
      /\ Exited(h, item, c).sreg = h.sreg
  BY DEF Exited, sret, Restored, Hart
<1>4. Exited(h, item, c) \in Hart
  <2>1. Restored(h, item) \in Hart
    BY <1>2 DEF Restored, Hart
  <2>2. [Restored(h, item) EXCEPT !.sp = c.sscratch] \in Hart
    BY <1>1, <2>1 DEF Hart
  <2>3. ASSUME NEW g \in Hart PROVE sret(g, c) \in Hart
    <3>1. (IF c.spp THEN "S" ELSE "U") \in {"M", "S", "U"}
      OBVIOUS
    <3> QED BY <1>1, <3>1 DEF sret, Hart
  <2> QED BY <2>2, <2>3 DEF Exited
<1> QED BY <1>3, <1>4

(* sret lets interrupts in again if they were let in before the trap.      *)
LEMMA AfterSretCsr ==
  ASSUME NEW d \in Csr
  PROVE  /\ AfterSret(d) \in Csr
         /\ AfterSret(d).sscratch = d.sscratch /\ AfterSret(d).satp = d.satp
         /\ AfterSret(d).sie = d.spie /\ AfterSret(d).ssip = d.ssip
         /\ AfterSret(d).mscratch = d.mscratch
         /\ AfterSret(d).enabled = d.enabled
<1>1. Nowhere \in Address /\ "none" \in Cause
  BY AddressFacts DEF Nowhere, Label, Cause
<1>2. AfterSret(d) \in Csr
  <2>1. d.spie \in BOOLEAN /\ TRUE \in BOOLEAN /\ FALSE \in BOOLEAN
    BY DEF Csr
  <2> QED BY <1>1, <2>1 DEF Csr, AfterSret
<1> QED BY <1>2 DEF Csr, AfterSret

(* The registers of the supervisor that belong to the process stay.        *)
LEMMA LeftTrapCsr ==
  ASSUME NEW c \in Csr, NEW sp \in Pointer
  PROVE  /\ LeftTrap(c, sp) \in Csr
         /\ LeftTrap(c, sp).sscratch = sp /\ LeftTrap(c, sp).satp = c.satp
         /\ LeftTrap(c, sp).sie = c.spie /\ LeftTrap(c, sp).ssip = c.ssip
         /\ LeftTrap(c, sp).mscratch = c.mscratch
         /\ LeftTrap(c, sp).enabled = c.enabled
<1> DEFINE d == [c EXCEPT !.sscratch = sp]
<1>1. d \in Csr
  BY DEF Csr
<1>2. /\ d.sscratch = sp /\ d.satp = c.satp /\ d.spie = c.spie /\ d.ssip = c.ssip
      /\ d.mscratch = c.mscratch /\ d.enabled = c.enabled
  BY DEF Csr
<1>3. LeftTrap(c, sp) = AfterSret(d)
  BY DEF LeftTrap
<1> HIDE DEF d
<1> QED BY <1>1, <1>2, <1>3, AfterSretCsr, SMTT(30)

(* The end of a trap gives the program what the trap frame remembers.      *)
LEMMA StrapExitInv ==
  ASSUME TrapsIInv, strap_exit
  PROVE  TrapsIInv'
<1> DEFINE l == "strap_exit"
           s0 == hart.sp.stack
           item == mem[s0][1]
<1>1. /\ At(l) /\ l \in HandlerCode /\ l \in Label
      /\ l \notin {"kernel_start", "wfi", "scheduler"}
      /\ l \notin StartUpCode \cup {"mtrap_handler", "mtrap_exit", "user"}
      /\ l # "strap_handler"
  BY DEF strap_exit, HandlerCode, Label, StartUpCode
<1>2. /\ UNCHANGED <<virt, first_call, processes, context, own>> /\ DeviceTypes'
  BY DEF strap_exit, devices, TrapsIInv, DeviceTypes
<1>3. UNCHANGED <<pid, state, activatable, dead, sscratch_frame, own, context>>
  BY <1>2 DEF processes
<1>4. hart \in Hart /\ hart.sp \in Pointer /\ csr \in Csr
      /\ mem \in [Stacks -> Seq(StackItem)]
  BY DEF TrapsIInv, HartTypes, Hart
<1>5. /\ s0 \in Stacks /\ hart.sp.depth = 1 /\ Len(mem[s0]) = 1
  <2>1. CASE pid = NoPid
    BY <1>1, <2>1, FirstTrapFacts, StackFacts
  <2>2. CASE pid # NoPid
    <3>1. s0 \in Stacks /\ ReturnsFrom(l, mem[s0]) /\ hart.sp.depth = Len(mem[s0])
      BY <1>1, <2>2, KernelStack
    <3> QED BY <3>1 DEF ReturnsFrom
  <2> QED BY <2>1, <2>2
<1>6. item \in StackItem
  <2>1. mem[s0] \in Seq(StackItem) /\ 1 \in 1..Len(mem[s0])
    BY <1>4, <1>5, SMTT(30)
  <2> QED BY <2>1, StackElement
<1>7. Above(hart.sp) = Base(s0) /\ Base(s0) \in Pointer
  BY <1>4, <1>5, PointerMoves, AddressFacts
<1>8. hart' = Exited(hart, item, csr) /\ csr' = LeftTrap(csr, Base(s0))
  BY <1>5, <1>7 DEF strap_exit, Exited, LeftTrap, Item
<1> HIDE DEF item
<1>9. /\ hart' \in Hart /\ hart'.mode = (IF csr.spp THEN "S" ELSE "U")
      /\ hart'.pc = csr.sepc /\ hart'.sp = csr.sscratch
      /\ hart'.gpr = item.gpr /\ hart'.a0 = item.a0 /\ hart'.sreg = hart.sreg
  BY <1>4, <1>6, <1>8, ExitedHart
<1>10. /\ csr' \in Csr /\ csr'.sscratch = Base(s0) /\ csr'.satp = csr.satp
       /\ csr'.sie = csr.spie /\ csr'.ssip = csr.ssip
       /\ csr'.mscratch = csr.mscratch /\ csr'.enabled = csr.enabled
  BY <1>4, <1>7, <1>8, LeftTrapCsr
<1>11. /\ mem' \in [Stacks -> Seq(StackItem)]
       /\ \A s \in Stacks : s # s0 => mem'[s] = mem[s]
  <2>1. hart.sp.depth \in 1..Len(mem[hart.sp.stack]) /\ mem' = Popped(mem, hart.sp)
    BY <1>5, SMTT(30) DEF strap_exit
  <2> QED BY <1>4, <2>1, PoppedItems
<1>12. HartTypes'
  BY <1>2, <1>9, <1>10, <1>11 DEF HartTypes, TrapsIInv
<1>13. hart'.mode # "M"
  BY <1>9
<1>14. own' \in [Procs -> [n : Nat, gpr : Register, a0 : Register, sreg : Register]]
  BY <1>3 DEF TrapsIInv, ProcTypes
<1>15. CASE pid # NoPid
  <2> DEFINE f == sscratch_frame[pid]
  <2>1. /\ pid \in Procs /\ s0 = TrapStack(f) /\ state[pid] = "ACTIF" /\ ~csr.spp
        /\ StackOf(pid) = mem[s0]
        /\ OnTrapStack(pid, Snapshot(hart), f, StackOf(pid))
        /\ state[pid] \in Alive =>
             Remembers(pid, Snapshot(hart), StackOf(pid), csr.scause, own[pid])
    BY <1>1, <1>15, KernelStack
  <2>2. Snapshot(hart).ra = l
    BY <1>1, Supervisor DEF Snapshot
  <2>3. Remembers(pid, Snapshot(hart), mem[s0], csr.scause, own[pid])
    BY <2>1 DEF Alive
  <2>4. /\ csr.sscratch = Base(UserStack(pid)) /\ hart.sreg = own[pid].sreg
        /\ item.gpr = own[pid].gpr /\ item.a0 = own[pid].a0
        /\ csr.sepc = User(pid, own[pid].n)
    <3>1. ~InSystemCall(l, mem[s0], csr.scause)
      BY DEF InSystemCall
    <3>2. /\ Snapshot(hart).sscratch = csr.sscratch
          /\ Snapshot(hart).sreg = hart.sreg /\ Snapshot(hart).sepc = csr.sepc
      BY DEF Snapshot
    <3> QED BY <2>2, <2>3, <3>1, <3>2 DEF Remembers, item
  <2>5. csr.satp = pid
    BY <2>1 DEF OnTrapStack, Snapshot
  <2>6. InProgram(hart)'
    BY <1>3, <1>9, <1>10, <2>1, <2>4, <2>5 DEF InProgram
  <2>7. hart'.pc.at = "user"
    BY <1>9, <2>4, AddressFacts, SMTT(30)
  <2>8. hart'.pc.at \notin StartUpCode \cup {"mtrap_handler", "mtrap_exit"}
    BY <2>7 DEF StartUpCode
  <2> HIDE DEF l
  <2> QED BY <1>1, <1>2, <1>3, <1>10, <1>11, <1>12, <1>13, <1>14, <1>15, <2>1, <2>6, <2>8,
             KernelGoesOn
<1>16. CASE pid = NoPid
  <2>1. /\ InFirstTrap(hart) /\ ~InMachineTrap /\ hart.mode = "S"
        /\ \A p \in Procs : state[p] \in {"NONE", "ACTIVATABLE"}
        /\ dead = {} /\ s0 = StrapStack
    BY <1>1, <1>16, FirstTrapFacts
  <2>2. /\ csr.sscratch = Base(BootStack) /\ csr.sepc = Kernel("wfi")
        /\ csr.spp /\ csr.spie /\ idle \in Range(activatable)
    BY <2>1 DEF InFirstTrap
  <2>3. WaitsForInterrupt(hart)'
    BY <1>3, <1>9, <1>10, <2>1, <2>2 DEF WaitsForInterrupt
  <2>4. Where(hart)'
    BY <1>3, <1>16, <2>1, <2>3 DEF Where, Booting
  <2>5. ProcTypes' /\ Scheduling' /\ TrapStacks' /\ Saved'
    BY <1>2, <1>3, <1>11, <1>14, <2>1, OthersKept
  <2>6. hart'.pc.at = "wfi"
    BY <1>9, <2>2, AddressFacts, SMTT(30) DEF Label
  <2>7. hart'.pc.at \notin StartUpCode \cup {"mtrap_handler", "mtrap_exit"}
    BY <2>6 DEF StartUpCode
  <2> QED BY <1>2, <1>3, <1>10, <1>12, <1>13, <1>16, <2>1, <2>4, <2>5, <2>7, Assembled
<1> QED BY <1>15, <1>16

(* The hart after process_call_wrapper_user.                               *)
Entered(h, c) == sret([h EXCEPT !.a0 = h.sreg], c)

(* It is at the entry of the program, with its argument.                   *)
LEMMA EnteredHart ==
  ASSUME NEW h \in Hart, NEW c \in Csr, ~c.spp
  PROVE  /\ Entered(h, c) \in Hart /\ Entered(h, c).mode = "U"
         /\ Entered(h, c).pc = c.sepc /\ Entered(h, c).sp = h.sp
         /\ Entered(h, c).gpr = h.gpr /\ Entered(h, c).a0 = h.sreg
         /\ Entered(h, c).sreg = h.sreg
<1>1. c.sepc \in Address /\ h.sreg \in Register
  BY DEF Csr, Hart
<1>2. [h EXCEPT !.a0 = h.sreg] \in Hart
  BY <1>1 DEF Hart
<1>3. ASSUME NEW g \in Hart PROVE sret(g, c) \in Hart
  BY <1>1 DEF sret, Hart
<1>4. Entered(h, c) \in Hart
  BY <1>2, <1>3 DEF Entered
<1> QED BY <1>4 DEF Entered, sret, Hart

(* A process that has not run yet enters its program.                      *)
LEMMA FirstEntryInv ==
  ASSUME TrapsIInv, process_call_wrapper_user
  PROVE  TrapsIInv'
<1> DEFINE l == "process_call_wrapper_user"
           f == sscratch_frame[pid]
<1>1. /\ At(l) /\ l \in Label
      /\ l \notin StartUpCode \cup {"mtrap_handler", "mtrap_exit", "user"}
  BY DEF process_call_wrapper_user, Label, StartUpCode
<1>2. /\ UNCHANGED <<virt, mem, first_call, processes, context>> /\ DeviceTypes'
  BY DEF process_call_wrapper_user, devices, TrapsIInv, DeviceTypes
<1>3. UNCHANGED <<pid, state, activatable, dead, sscratch_frame>>
  BY <1>2 DEF processes
<1>4. hart \in Hart /\ hart.gpr \in Register /\ csr \in Csr
  BY DEF TrapsIInv, HartTypes, Hart
<1>5. /\ hart.pc.at = l /\ (pid = NoPid => Booting(hart))
      /\ (pid # NoPid => pid \in Procs /\ InKernel(hart))
  BY <1>1, Supervisor
<1>6. pid # NoPid
  BY <1>5, SMTT(30) DEF Booting, StartsUp, WaitsForInterrupt, InFirstTrap, StartUpCode,
     Kernel
<1>7. pid \in Procs /\ InKernel(hart)
  BY <1>5, <1>6
<1>8. Snapshot(hart).ra = l
  BY <1>5 DEF Snapshot
<1>9. ~OnTrapStack(pid, Snapshot(hart), f, StackOf(pid))
  BY <1>8 DEF OnTrapStack, ReturnsFrom
<1>10. NotRunYet(pid, Snapshot(hart), f) /\ ~csr.spp /\ state[pid] = "ACTIF" /\ ~csr.ssip
  BY <1>5, <1>7, <1>9 DEF InKernel
<1>11. /\ hart.sp = Base(UserStack(pid)) /\ csr.sscratch = Base(TrapStack(f))
       /\ hart.sreg = Argument(pid) /\ csr.sepc = User(pid, 0) /\ csr.satp = pid
  BY <1>10 DEF NotRunYet, Snapshot
<1>12. /\ hart' \in Hart /\ hart'.mode = "U" /\ hart'.pc = csr.sepc
       /\ hart'.sp = hart.sp /\ hart'.gpr = hart.gpr /\ hart'.a0 = hart.sreg
       /\ hart'.sreg = hart.sreg
  <2>1. hart' = Entered(hart, csr)
    BY DEF Entered, process_call_wrapper_user
  <2> QED BY <1>4, <1>10, <2>1, EnteredHart
<1>13. /\ csr' \in Csr
       /\ csr'.sscratch = csr.sscratch /\ csr'.satp = csr.satp
       /\ csr'.ssip = csr.ssip /\ csr'.mscratch = csr.mscratch
       /\ csr'.enabled = csr.enabled
  <2>1. csr' = AfterSret(csr)
    BY DEF process_call_wrapper_user
  <2> QED BY <1>4, <2>1, AfterSretCsr
<1> DEFINE O == [n : Nat, gpr : Register, a0 : Register, sreg : Register]
           o == [n |-> 0, gpr |-> hart.gpr, a0 |-> Argument(pid), sreg |-> Argument(pid)]
<1>14. own' = [own EXCEPT ![pid] = o] /\ own \in [Procs -> O]
  BY DEF process_call_wrapper_user, TrapsIInv, ProcTypes
<1>15. o \in O
  BY <1>4, <1>7, RegisterFacts
<1>16. own' \in [Procs -> O] /\ own'[pid] = o
      /\ \A p \in Procs : p # pid => own'[p] = own[p]
  <2> HIDE DEF O, o
  <2> QED BY <1>7, <1>14, <1>15
<1>17. own'[pid].n = 0 /\ own'[pid].gpr = hart.gpr /\ own'[pid].a0 = Argument(pid)
       /\ own'[pid].sreg = Argument(pid)
  BY <1>16, SMTT(30)
<1>18. InProgram(hart)'
  <2> HIDE DEF o
  <2> QED BY <1>3, <1>10, <1>11, <1>12, <1>13, <1>17 DEF InProgram
<1>19. hart'.pc.at = "user"
  BY <1>11, <1>12, AddressFacts, SMTT(30)
<1>20. hart'.pc.at \notin StartUpCode \cup {"mtrap_handler", "mtrap_exit"}
  BY <1>19 DEF StartUpCode
<1>21. HartTypes'
  BY <1>2, <1>12, <1>13 DEF HartTypes, TrapsIInv
<1> HIDE DEF l, o
<1> QED BY <1>1, <1>2, <1>6, <1>12, <1>13, <1>16, <1>18, <1>20, <1>21, KernelGoesOn

(* In user mode the current process runs.                                  *)
LEMMA UserMode ==
  ASSUME TrapsIInv, hart.mode = "U"
  PROVE  /\ ~InMachineTrap /\ pid \in Procs /\ pid # NoPid /\ InProgram(hart)
         /\ hart.pc.of = pid /\ hart.pc.n = own[pid].n
<1>2. ~InMachineTrap /\ Under = hart
  BY DEF TrapsIInv, Machine, Under
<1>3. pid # NoPid
  <2>1. pid = NoPid => Booting(hart)
    BY <1>2 DEF TrapsIInv, Where
  <2>2. StartsUp(hart) => hart.pc.at \in StartUpCode \cup {"kernel_start"}
                            /\ (hart.pc.at = "kernel_start" => hart.mode = "S")
    BY DEF StartsUp
  <2>3. hart.pc.at \notin StartUpCode
    BY DEF TrapsIInv, Machine
  <2>4. ~StartsUp(hart) /\ ~WaitsForInterrupt(hart) /\ ~InFirstTrap(hart)
    BY <2>2, <2>3 DEF WaitsForInterrupt, InFirstTrap
  <2> QED BY <2>1, <2>4 DEF Booting
<1>4. pid \in Procs /\ InProgram(hart)
  <2>1. InProgram(hart) \/ InKernel(hart)
    BY <1>2, <1>3 DEF TrapsIInv, Where
  <2>2. ~InKernel(hart)
    BY DEF InKernel
  <2> QED BY <1>3, <2>1, <2>2 DEF TrapsIInv, ProcTypes, ProcId
<1>5. hart.pc.of = pid /\ hart.pc.n = own[pid].n
  BY <1>4, AddressFacts, SMTT(30) DEF InProgram
<1> QED BY <1>2, <1>3, <1>4, <1>5

(* The program computes: its own registers change.                         *)
LEMMA UserStepInv ==
  ASSUME TrapsIInv, UserStep
  PROVE  TrapsIInv'
<1>1. hart.mode = "U" /\ hart.mode # "M"
  BY DEF UserStep
<1>2. ~InMachineTrap /\ Under = hart
  BY <1>1, UserMode DEF Under
<1>3. pid # NoPid
  BY <1>1, UserMode
<1>4. pid \in Procs /\ InProgram(hart)
  BY <1>1, UserMode
<1>5. hart.pc.of = pid
  BY <1>1, UserMode
<1> DEFINE d == Data(pid)
           O == [n : Nat, gpr : Register, a0 : Register, sreg : Register]
           o == [n |-> 0, gpr |-> d, a0 |-> d, sreg |-> d]
<1>6. d \in Register /\ User(pid, 0) \in Address
  BY <1>4, RegisterFacts, AddressFacts
<1>7. /\ hart' = [hart EXCEPT !.pc = User(pid, 0), !.gpr = d, !.a0 = d, !.sreg = d]
      /\ own' = [own EXCEPT ![pid] = o]
      /\ UNCHANGED <<virt, csr, mem, devices, processes, context>>
  BY <1>5 DEF UserStep
<1> HIDE DEF d
<1>8. o \in O /\ own \in [Procs -> O]
  BY <1>6 DEF TrapsIInv, ProcTypes
<1>9. own' \in [Procs -> O] /\ own'[pid] = o
      /\ \A p \in Procs : p # pid => own'[p] = own[p]
  <2> HIDE DEF O, o
  <2> QED BY <1>4, <1>7, <1>8
<1>10. own'[pid].n = 0 /\ own'[pid].gpr = d /\ own'[pid].a0 = d /\ own'[pid].sreg = d
  BY <1>9, SMTT(30)
<1> HIDE DEF o
<1>11. /\ hart' \in Hart /\ hart'.mode = hart.mode /\ hart'.sp = hart.sp
       /\ hart'.pc = User(pid, 0) /\ hart'.gpr = d /\ hart'.a0 = d /\ hart'.sreg = d
  <2>1. hart \in Hart
    BY DEF TrapsIInv, HartTypes
  <2>2. hart' \in Hart
    BY <1>6, <1>7, <2>1 DEF Hart
  <2> QED BY <1>7, <2>1, <2>2 DEF Hart
<1>12. UNCHANGED <<pid, state, activatable, dead, sscratch_frame, first_call>>
  BY <1>7 DEF processes, devices
<1>13. InProgram(hart)'
  BY <1>4, <1>7, <1>10, <1>11, <1>12 DEF InProgram
<1>14. ProcTypes' /\ Scheduling' /\ TrapStacks' /\ Saved'
  BY <1>3, <1>7, <1>9, OthersKept
<1>15. hart'.pc.at = "user"
  BY <1>11, AddressFacts, SMTT(30)
<1>16. hart'.pc.at \notin StartUpCode \cup {"mtrap_handler", "mtrap_exit"}
  BY <1>15 DEF StartUpCode
<1>17. HartTypes' /\ DeviceTypes'
  BY <1>7, <1>11 DEF HartTypes, DeviceTypes, TrapsIInv, devices
<1>18. virt /\ pid' # NoPid => ~first_call
  BY <1>12 DEF TrapsIInv, Machine
<1>19. Where(hart)'
  BY <1>3, <1>12, <1>13 DEF Where
<1>20. hart'.mode # "M"
  BY <1>1, <1>11
<1> QED BY <1>1, <1>2, <1>7, <1>12, <1>14, <1>16, <1>17, <1>18, <1>19, <1>20, Assembled
------------------------------------------------------------------------------
(* Supervisor traps                                                        *)

Trapped(h, sp) ==
  [Goto(h, "strap_handler") EXCEPT !.mode = "S", !.sp = sp, !.gpr = Junk, !.a0 = Junk]
TrapCsr(c, h, cause) ==
  [c EXCEPT !.sscratch = h.sp, !.sepc = h.pc, !.scause = cause,
            !.spp = (h.mode = "S"), !.spie = c.sie, !.sie = FALSE]

(* The hart at the entry of a supervisor trap.                             *)
LEMMA TrappedHart ==
  ASSUME NEW h \in Hart, NEW sp \in Pointer
  PROVE  /\ Trapped(h, sp) \in Hart /\ Trapped(h, sp).mode = "S"
         /\ Trapped(h, sp).pc = Kernel("strap_handler")
         /\ Trapped(h, sp).sp = sp /\ Trapped(h, sp).sreg = h.sreg
<1>1. "strap_handler" \in Label /\ Junk \in Register
  BY RegisterFacts DEF Label
<1>2. /\ Goto(h, "strap_handler") \in Hart
      /\ Goto(h, "strap_handler").pc = Kernel("strap_handler")
      /\ Goto(h, "strap_handler").sreg = h.sreg
  BY <1>1, GotoHart
<1>3. Trapped(h, sp) \in Hart
  BY <1>1, <1>2 DEF Trapped, Hart
<1> QED BY <1>2, <1>3 DEF Trapped, Hart

(* The registers of the supervisor at the entry of a trap.                 *)
LEMMA TrappedCsr ==
  ASSUME NEW c \in Csr, NEW h \in Hart, NEW cause \in Cause
  PROVE  /\ TrapCsr(c, h, cause) \in Csr
         /\ TrapCsr(c, h, cause).sscratch = h.sp /\ TrapCsr(c, h, cause).sepc = h.pc
         /\ TrapCsr(c, h, cause).scause = cause
         /\ TrapCsr(c, h, cause).spp = (h.mode = "S")
         /\ TrapCsr(c, h, cause).spie = c.sie /\ TrapCsr(c, h, cause).sie = FALSE
         /\ TrapCsr(c, h, cause).satp = c.satp /\ TrapCsr(c, h, cause).ssip = c.ssip
         /\ TrapCsr(c, h, cause).mscratch = c.mscratch
         /\ TrapCsr(c, h, cause).enabled = c.enabled
<1>1. h.sp \in Pointer /\ h.pc \in Address /\ (h.mode = "S") \in BOOLEAN
      /\ c.sie \in BOOLEAN
  BY DEF Hart, Csr
<1>2. TrapCsr(c, h, cause) \in Csr
  BY <1>1 DEF TrapCsr, Csr
<1> QED BY <1>2 DEF TrapCsr, Csr

(* The stacks after a push.                                                *)
LEMMA MemPushed ==
  ASSUME mem \in [Stacks -> Seq(StackItem)], NEW sp \in Pointer,
         sp.depth <= Len(mem[sp.stack]), NEW item \in StackItem,
         mem' = Pushed(mem, sp, item)
  PROVE  /\ mem' \in [Stacks -> Seq(StackItem)]
         /\ \A s \in Stacks : s # sp.stack => mem'[s] = mem[s]
         /\ Len(mem'[sp.stack]) = sp.depth + 1
         /\ mem'[sp.stack][sp.depth + 1] = item
BY PushedItems, SMTT(30)

(* A trap starts a trap frame on the stack sscratch points to.             *)
LEMMA StrapEntered ==
  ASSUME HartTypes, NEW cause \in Cause, NEW s0 \in Stacks, csr.sscratch = Base(s0),
         strap_entry(cause)
  PROVE  /\ hart' \in Hart /\ hart'.pc = Kernel("strap_handler")
         /\ hart'.pc.at = "strap_handler" /\ hart'.mode = "S"
         /\ hart'.sreg = hart.sreg /\ hart'.sp.stack = s0 /\ hart'.sp.depth = 1
         /\ csr' \in Csr /\ csr'.sscratch = hart.sp /\ csr'.sepc = hart.pc
         /\ csr'.scause = cause /\ csr'.spp = (hart.mode = "S")
         /\ csr'.spie = csr.sie /\ csr'.sie = FALSE
         /\ csr'.satp = csr.satp /\ csr'.ssip = csr.ssip
         /\ csr'.mscratch = csr.mscratch /\ csr'.enabled = csr.enabled
         /\ mem' \in [Stacks -> Seq(StackItem)]
         /\ \A s \in Stacks : s # s0 => mem'[s] = mem[s]
         /\ Len(mem'[s0]) = 1
         /\ mem'[s0][1].gpr = hart.gpr /\ mem'[s0][1].a0 = hart.a0
<1> DEFINE sp == csr.sscratch
<1>1. hart \in Hart /\ csr \in Csr /\ mem \in [Stacks -> Seq(StackItem)]
  BY DEF HartTypes
<1>2. sp \in Pointer /\ sp.stack = s0 /\ sp.depth = 0
  BY AddressFacts, SMTT(30) DEF Base
<1>3. TrapFrame(hart) \in StackItem /\ TrapFrame(hart).gpr = hart.gpr
      /\ TrapFrame(hart).a0 = hart.a0
  BY <1>1 DEF TrapFrame, StackItem, Hart, Label
<1>4. sp.depth <= Len(mem[sp.stack])
  <2>1. mem[s0] \in Seq(StackItem)
    BY <1>1
  <2>2. Len(mem[s0]) \in Nat
    BY <2>1, StackLength
  <2> QED BY <1>2, <2>2, SMTT(30)
<1>5. /\ mem' = Pushed(mem, sp, TrapFrame(hart))
      /\ hart' = Trapped(hart, Deeper(sp)) /\ csr' = TrapCsr(csr, hart, cause)
  BY DEF strap_entry, Trapped, TrapCsr
<1> HIDE DEF sp
<1>6. /\ mem' \in [Stacks -> Seq(StackItem)]
      /\ \A s \in Stacks : s # s0 => mem'[s] = mem[s]
      /\ Len(mem'[s0]) = 1 /\ mem'[s0][1] = TrapFrame(hart)
  <2>1. /\ mem' \in [Stacks -> Seq(StackItem)]
        /\ \A s \in Stacks : s # sp.stack => mem'[s] = mem[s]
        /\ Len(mem'[sp.stack]) = sp.depth + 1
        /\ mem'[sp.stack][sp.depth + 1] = TrapFrame(hart)
    <3>1. sp \in Pointer
      BY <1>2
    <3>2. mem \in [Stacks -> Seq(StackItem)]
      BY <1>1
    <3>3. TrapFrame(hart) \in StackItem
      BY <1>3
    <3>4. mem' = Pushed(mem, sp, TrapFrame(hart))
      BY <1>5
    <3> QED BY <1>4, <3>1, <3>2, <3>3, <3>4, MemPushed
  <2>2. sp.depth + 1 = 1
    BY <1>2, SMTT(30)
  <2> QED BY <1>2, <1>5, <2>1, <2>2
<1>7. Deeper(sp) \in Pointer /\ Deeper(sp).stack = s0 /\ Deeper(sp).depth = 1
  BY <1>2, PointerMoves, SMTT(30)
<1>8. /\ hart' \in Hart /\ hart'.pc = Kernel("strap_handler") /\ hart'.mode = "S"
      /\ hart'.sreg = hart.sreg /\ hart'.sp = Deeper(sp)
  BY <1>1, <1>5, <1>7, TrappedHart
<1>9. hart'.pc.at = "strap_handler"
  BY <1>8, AddressFacts DEF Label
<1>10. /\ csr' \in Csr /\ csr'.sscratch = hart.sp /\ csr'.sepc = hart.pc
       /\ csr'.scause = cause /\ csr'.spp = (hart.mode = "S")
       /\ csr'.spie = csr.sie /\ csr'.sie = FALSE
       /\ csr'.satp = csr.satp /\ csr'.ssip = csr.ssip
       /\ csr'.mscratch = csr.mscratch /\ csr'.enabled = csr.enabled
  BY <1>1, <1>5, TrappedCsr
<1> QED BY <1>3, <1>6, <1>7, <1>8, <1>9, <1>10

(* A trap of a program saves all that belongs to it.                       *)
LEMMA UserTrapInv ==
  ASSUME TrapsIInv, hart.mode = "U", NEW cause \in Cause \ {"none"},
         strap_entry(cause), csr.ssip => cause = "s_software",
         cause \in {"ecall", "page_fault"} => pid # idle,
         UNCHANGED <<virt, first_call, processes, context>>, DeviceTypes',
         own' \in [Procs -> [n : Nat, gpr : Register, a0 : Register,
                             sreg : Register]],
         \A p \in Procs : p # pid => own'[p] = own[p],
         own'[pid].gpr = own[pid].gpr, own'[pid].a0 = own[pid].a0,
         own'[pid].sreg = own[pid].sreg,
         IF cause = "ecall" THEN own[pid].n = 0 /\ own'[pid].n = 1
                            ELSE own'[pid].n = own[pid].n
  PROVE  TrapsIInv'
<1> DEFINE f == sscratch_frame[pid]
           s0 == TrapStack(f)
<1>1. ~InMachineTrap /\ pid \in Procs /\ pid # NoPid /\ InProgram(hart)
  BY UserMode
<1>2. UNCHANGED <<pid, state, sscratch_frame>>
  BY DEF processes
<1>3. f \in Frames
  BY <1>1 DEF TrapsIInv, Scheduling, TrapStacks, ProcTypes
<1>4. s0 \in Stacks /\ csr.sscratch = Base(s0) /\ HartTypes /\ cause \in Cause
  BY <1>1, <1>3, StackFacts DEF InProgram, TrapsIInv
<1>5. /\ state[pid] = "ACTIF" /\ hart.pc = User(pid, own[pid].n)
      /\ hart.gpr = own[pid].gpr /\ hart.a0 = own[pid].a0 /\ hart.sreg = own[pid].sreg
      /\ hart.sp = Base(UserStack(pid)) /\ csr.satp = pid
  BY <1>1 DEF InProgram
<1> HIDE DEF s0
<1>6. /\ hart' \in Hart /\ hart'.pc = Kernel("strap_handler")
      /\ hart'.pc.at = "strap_handler" /\ hart'.mode = "S"
      /\ hart'.sreg = hart.sreg /\ hart'.sp.stack = s0 /\ hart'.sp.depth = 1
  BY <1>4, StrapEntered
<1>7. /\ csr' \in Csr /\ csr'.sscratch = hart.sp /\ csr'.sepc = hart.pc
      /\ csr'.scause = cause /\ csr'.spp = (hart.mode = "S") /\ csr'.sie = FALSE
      /\ csr'.satp = csr.satp /\ csr'.ssip = csr.ssip
      /\ csr'.mscratch = csr.mscratch /\ csr'.enabled = csr.enabled
  BY <1>4, StrapEntered
<1>8. /\ mem' \in [Stacks -> Seq(StackItem)]
      /\ \A s \in Stacks : s # s0 => mem'[s] = mem[s]
      /\ Len(mem'[s0]) = 1
      /\ mem'[s0][1].gpr = hart.gpr /\ mem'[s0][1].a0 = hart.a0
  BY <1>4, StrapEntered
<1>9. StackOf(pid)' = mem'[s0]
  BY <1>2 DEF StackOf, s0
<1>10. /\ Snapshot(hart)'.sp = hart'.sp /\ Snapshot(hart)'.ra = "strap_handler"
       /\ Snapshot(hart)'.sreg = hart.sreg /\ Snapshot(hart)'.sscratch = hart.sp
       /\ Snapshot(hart)'.sepc = hart.pc /\ Snapshot(hart)'.satp = csr.satp
  BY <1>6, <1>7 DEF Snapshot
<1>11. OnTrapStack(pid, Snapshot(hart), f, StackOf(pid))'
  <2>1. ReturnsFrom("strap_handler", mem'[s0])
    BY <1>8 DEF ReturnsFrom
  <2> QED BY <1>2, <1>5, <1>6, <1>8, <1>9, <1>10, <2>1 DEF OnTrapStack, s0
<1>12. Remembers(pid, Snapshot(hart), StackOf(pid), csr.scause, own[pid])'
  <2>1. InSystemCall("strap_handler", mem'[s0], cause) <=> cause = "ecall"
    BY DEF InSystemCall
  <2>2. IF cause = "ecall" THEN hart.pc = User(pid, 0) /\ own'[pid].n = 1
                           ELSE hart.pc = User(pid, own'[pid].n)
    BY <1>5
  <2> QED BY <1>2, <1>5, <1>7, <1>8, <1>9, <1>10, <2>1, <2>2, SMTT(30) DEF Remembers
<1>13. InKernel(hart)'
  <2>1. cause \in {"s_timer", "s_software", "s_external", "ecall", "page_fault"}
    BY DEF Cause
  <2>2. ~csr'.spp /\ ~csr'.sie
    BY <1>7
  <2> QED BY <1>2, <1>5, <1>6, <1>7, <1>11, <1>12, <2>1, <2>2 DEF InKernel
<1>14. ProcTypes' /\ Scheduling' /\ TrapStacks' /\ Saved'
  BY <1>1, <1>8, OthersKept DEF s0
<1>15. hart'.pc.at \notin StartUpCode \cup {"mtrap_handler", "mtrap_exit"}
  BY <1>6 DEF StartUpCode
<1>16. HartTypes'
  BY <1>6, <1>7, <1>8 DEF HartTypes, TrapsIInv
<1>17. virt /\ pid' # NoPid => ~first_call
  BY <1>2 DEF TrapsIInv, Machine
<1>18. Where(hart)'
  BY <1>1, <1>2, <1>13 DEF Where
<1>19. hart.mode # "M" /\ hart'.mode # "M"
  BY <1>6
<1> QED BY <1>1, <1>7, <1>14, <1>15, <1>16, <1>17, <1>18, <1>19, Assembled

(* A system call or a page fault of the program.                           *)
LEMMA ExceptionInv ==
  ASSUME TrapsIInv, NEW cause \in {"ecall", "page_fault"}, Exception(cause)
  PROVE  TrapsIInv'
<1> DEFINE O == [n : Nat, gpr : Register, a0 : Register, sreg : Register]
<1>1. /\ hart.mode = "U" /\ hart.pc.of # idle /\ hart.pc.n = 0 /\ ~csr.ssip
      /\ strap_entry(cause)
      /\ own' = IF cause = "ecall" THEN [own EXCEPT ![hart.pc.of].n = 1] ELSE own
      /\ UNCHANGED <<virt, first_call, processes, context>>
  BY DEF Exception, devices
<1>2. pid \in Procs /\ hart.pc.of = pid /\ hart.pc.n = own[pid].n
  BY <1>1, UserMode
<1>3. cause \in Cause \ {"none"} /\ DeviceTypes'
  BY DEF Cause, TrapsIInv, DeviceTypes, Exception, devices
<1>4. own \in [Procs -> O] /\ own[pid] \in O
  BY <1>2 DEF TrapsIInv, ProcTypes
<1>5. CASE cause = "ecall"
  <2>1. own' = [own EXCEPT ![pid] = [own[pid] EXCEPT !.n = 1]]
    BY <1>1, <1>2, <1>5
  <2>2. [own[pid] EXCEPT !.n = 1] \in O
    BY <1>4
  <2>3. LET o == [own[pid] EXCEPT !.n = 1]
        IN o.n = 1 /\ o.gpr = own[pid].gpr /\ o.a0 = own[pid].a0 /\ o.sreg = own[pid].sreg
    BY <1>4
  <2> HIDE DEF O
  <2>4. own' \in [Procs -> O] /\ \A p \in Procs : p # pid => own'[p] = own[p]
    BY <1>4, <2>1, <2>2
  <2>5. own'[pid] = [own[pid] EXCEPT !.n = 1]
    BY <1>2, <1>4, <2>1
  <2> USE DEF O
  <2> QED BY <1>1, <1>2, <1>3, <1>5, <2>3, <2>4, <2>5, UserTrapInv
<1>6. CASE cause # "ecall"
  BY <1>1, <1>2, <1>3, <1>4, <1>6, UserTrapInv
<1> QED BY <1>5, <1>6

(* On virt the supervisor takes software interrupts only.                  *)
LEMMA PendingInterrupts ==
  ASSUME TrapsIInv, NEW cause \in Pending, hart.pc.at \notin {"_start", "boot_riscv"}
  PROVE  /\ cause \in {"s_timer", "s_software", "s_external"}
         /\ virt => cause = "s_software" /\ csr.ssip /\ ~first_call
         /\ csr.ssip => cause = "s_software"
<1>1. csr.enabled = EnabledInterrupts(virt) /\ (csr.ssip => virt /\ ~first_call)
  BY DEF TrapsIInv, Machine
<1>2. cause \in {"s_timer", "s_software", "s_external"} /\ cause \in csr.enabled
      /\ (cause = "s_timer" => ~virt) /\ (cause = "s_software" => csr.ssip)
  BY DEF Pending
<1>3. virt => cause # "s_external"
  BY <1>1, <1>2 DEF EnabledInterrupts
<1> QED BY <1>1, <1>2, <1>3

(* A supervisor interrupt: of a program, or while start-up waits for it.   *)
LEMMA InterruptInv ==
  ASSUME TrapsIInv, NEW cause \in {"s_timer", "s_software", "s_external"},
         Interrupt(cause)
  PROVE  TrapsIInv'
<1>1. /\ cause \in Pending /\ strap_entry(cause)
      /\ hart.mode = "U" \/ (hart.mode = "S" /\ csr.sie)
      /\ UNCHANGED <<virt, timer, first_call, counter, processes, context, own>>
  BY DEF Interrupt
<1>2. ~InMachineTrap /\ Under = hart /\ hart.pc.at \notin StartUpCode /\ hart.mode # "M"
  BY <1>1 DEF TrapsIInv, Machine, Under
<1>3. /\ virt => cause = "s_software" /\ csr.ssip /\ ~first_call
      /\ csr.ssip => cause = "s_software"
  BY <1>1, <1>2, PendingInterrupts DEF StartUpCode
<1>4. DeviceTypes' /\ cause \in Cause \ {"none"} /\ cause \in Cause
  BY <1>1 DEF DeviceTypes, TrapsIInv, Cause
<1>5. own \in [Procs -> [n : Nat, gpr : Register, a0 : Register, sreg : Register]]
  BY DEF TrapsIInv, ProcTypes
<1>6. CASE hart.mode = "U"
  BY <1>1, <1>3, <1>4, <1>5, <1>6, UserTrapInv
<1>7. CASE hart.mode = "S" /\ csr.sie
  <2>1. pid = NoPid
    <3>1. pid # NoPid => InKernel(hart)
      BY <1>2, <1>7 DEF TrapsIInv, Where, InProgram
    <3>2. ~InKernel(hart)
      BY <1>3, <1>7 DEF InKernel
    <3> QED BY <3>1, <3>2
  <2>2. Booting(hart)
    BY <1>2, <2>1 DEF TrapsIInv, Where
  <2>3. WaitsForInterrupt(hart)
    BY <1>7, <2>2 DEF Booting, StartsUp, InFirstTrap
  <2>4. StrapStack \in Stacks /\ csr.sscratch = Base(StrapStack) /\ HartTypes
    BY <2>3, StackFacts DEF WaitsForInterrupt, TrapsIInv
  <2>5. /\ hart' \in Hart /\ hart'.pc = Kernel("strap_handler")
        /\ hart'.pc.at = "strap_handler" /\ hart'.mode = "S"
        /\ hart'.sp.stack = StrapStack /\ hart'.sp.depth = 1
    BY <1>1, <1>4, <2>4, StrapEntered
  <2>6. /\ csr' \in Csr /\ csr'.sscratch = hart.sp /\ csr'.sepc = hart.pc
        /\ csr'.scause = cause /\ csr'.spp = (hart.mode = "S")
        /\ csr'.spie = csr.sie /\ csr'.sie = FALSE /\ csr'.ssip = csr.ssip
        /\ csr'.mscratch = csr.mscratch /\ csr'.enabled = csr.enabled
    BY <1>1, <1>4, <2>4, StrapEntered
  <2>7. /\ mem' \in [Stacks -> Seq(StackItem)]
        /\ \A s \in Stacks : s # StrapStack => mem'[s] = mem[s]
        /\ Len(mem'[StrapStack]) = 1
    BY <1>1, <1>4, <2>4, StrapEntered
  <2>8. UNCHANGED <<pid, state, activatable, dead, sscratch_frame>>
    BY <1>1 DEF processes
  <2>9. /\ hart.sp = Base(BootStack) /\ hart.pc = Kernel("wfi")
        /\ idle \in Range(activatable)
    BY <2>3 DEF WaitsForInterrupt
  <2>10. csr'.spp /\ csr'.spie /\ ~csr'.sie
    BY <1>7, <2>6
  <2>11. InFirstTrap(hart)'
    BY <1>1, <1>3, <2>5, <2>6, <2>7, <2>8, <2>9, <2>10, SMTT(30) DEF InFirstTrap
  <2>12. Where(hart)'
    BY <2>1, <2>2, <2>8, <2>11 DEF Where, Booting
  <2>13. ProcTypes' /\ Scheduling' /\ TrapStacks' /\ Saved'
    BY <1>1, <1>5, <2>7, OthersKept
  <2>14. hart'.pc.at \notin StartUpCode \cup {"mtrap_handler", "mtrap_exit"}
    BY <2>5 DEF StartUpCode
  <2>15. HartTypes'
    BY <1>1, <2>5, <2>6, <2>7 DEF HartTypes, TrapsIInv
  <2>16. hart'.mode # "M" /\ (virt /\ pid' # NoPid => ~first_call)
    BY <2>1, <2>5, <2>8
  <2> QED BY <1>1, <1>2, <1>4, <2>6, <2>12, <2>13, <2>14, <2>15, <2>16, Assembled
<1> QED BY <1>1, <1>6, <1>7
==============================================================================
