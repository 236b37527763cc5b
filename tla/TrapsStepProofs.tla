-------------------------- MODULE TrapsStepProofs ----------------------------
(***************************************************************************)
(* The steps that leave the queue of activatable processes alone preserve  *)
(* the invariant of TrapsInv: machine traps, start-up, devices, handlers   *)
(* and system calls; and what direct_context_swap does to the registers.   *)
(***************************************************************************)
EXTENDS TrapsInv

(* Zenon proves most leaves; the others name SMT.                          *)
USE ZenonT(60)
------------------------------------------------------------------------------
(* Machine traps                                                           *)

(* Machine mode does not disturb what it interrupted.                      *)
LEMMA UnderKept ==
  ASSUME TrapsIInv, Under.pc.at \notin StartUpCode \cup {"kernel_start"},
         Under'.mode = Under.mode, Under'.pc = Under.pc, Under'.sp = Under.sp,
         Under'.gpr = Under.gpr, Under'.a0 = Under.a0, Under'.sreg = Under.sreg,
         UNCHANGED <<virt, processes, own>>, first_call' => first_call,
         csr'.sscratch = csr.sscratch, csr'.sepc = csr.sepc, csr'.satp = csr.satp,
         csr'.scause = csr.scause, csr'.spp = csr.spp, csr'.spie = csr.spie,
         csr'.sie = csr.sie,
         csr'.ssip => csr.ssip \/ Under.mode = "U" \/ WaitsForInterrupt(Under),
         \A s \in Stacks : s # MtrapStack => mem'[s] = mem[s]
  PROVE  Where(Under)'
<1>1. UNCHANGED <<pid, state, activatable, dead, sscratch_frame>>
  BY DEF processes
<1>2. mem'[StrapStack] = mem[StrapStack]
  BY StackFacts
<1>3. CASE pid = NoPid
  <2>1. Booting(Under) /\ ~StartsUp(Under)
    BY <1>3 DEF TrapsIInv, Where, StartsUp
  <2>2. CASE WaitsForInterrupt(Under)
    <3>1. WaitsForInterrupt(Under)'
      BY <1>1, <2>2 DEF WaitsForInterrupt
    <3> QED BY <1>1, <1>3, <2>1, <3>1 DEF Where, Booting
  <2>3. CASE InFirstTrap(Under)
    <3>1. Under.mode = "S" /\ ~WaitsForInterrupt(Under)
      BY <2>3, AddressFacts DEF InFirstTrap, WaitsForInterrupt, Label
    <3>2. InFirstTrap(Under)'
      BY <1>1, <1>2, <2>3, <3>1 DEF InFirstTrap
    <3> QED BY <1>1, <1>3, <2>1, <3>2 DEF Where, Booting
  <2> QED BY <2>1, <2>2, <2>3 DEF Booting
<1>4. CASE pid # NoPid
  <2>1. pid \in Procs /\ (InProgram(Under) \/ InKernel(Under))
    BY <1>4 DEF TrapsIInv, Where, ProcTypes, ProcId
  <2>2. CASE InProgram(Under)
    <3>1. InProgram(Under)'
      BY <1>1, <2>2 DEF InProgram
    <3> QED BY <1>1, <1>4, <3>1 DEF Where
  <2>3. CASE InKernel(Under)
    <3>1. sscratch_frame[pid] \in Frames
      BY <2>1, <1>4 DEF TrapsIInv, Scheduling, TrapStacks, ProcTypes
    <3>2. StackOf(pid)' = StackOf(pid)
      BY <1>1, <3>1, StackFacts DEF StackOf
    <3>3. Snapshot(Under)' = Snapshot(Under)
      BY DEF Snapshot
    <3>4. NotRunYet(pid, Snapshot(Under), sscratch_frame[pid])
            => NotRunYet(pid, Snapshot(Under), sscratch_frame[pid])'
      BY <1>1, <3>3 DEF NotRunYet
    <3>5. OnTrapStack(pid, Snapshot(Under), sscratch_frame[pid], StackOf(pid))
            => OnTrapStack(pid, Snapshot(Under), sscratch_frame[pid], StackOf(pid))'
      BY <1>1, <3>2, <3>3 DEF OnTrapStack
    <3>6. Remembers(pid, Snapshot(Under), StackOf(pid), csr.scause, own[pid])
            => Remembers(pid, Snapshot(Under), StackOf(pid), csr.scause, own[pid])'
      BY <1>1, <3>2, <3>3 DEF Remembers
    <3>7. Under.mode = "S" /\ ~WaitsForInterrupt(Under)
      <4>1. Under.mode = "S" /\ Snapshot(Under).ra = Under.pc.at
        BY <2>3 DEF InKernel, Snapshot
      <4>2. Under.pc.at # "wfi"
        BY <2>3, <4>1 DEF InKernel, NotRunYet, OnTrapStack, ReturnsFrom
      <4> QED BY <4>1, <4>2, AddressFacts DEF WaitsForInterrupt, Label
    <3>8. InKernel(Under)'
      BY <1>1, <2>3, <3>4, <3>5, <3>6, <3>7 DEF InKernel
    <3> QED BY <1>1, <1>4, <3>8 DEF Where
  <2> QED BY <2>1, <2>2, <2>3
<1> QED BY <1>3, <1>4

(* The hart and the registers at the entry of a machine trap and after it. *)
Interrupted(h, sp) ==
  [Goto(h, "mtrap_handler") EXCEPT !.mode = "M", !.sp = sp, !.gpr = Junk, !.a0 = Junk]
InterruptedCsr(c, h) == [c EXCEPT !.mscratch = h.sp, !.mepc = h.pc, !.mpp = h.mode]
Continued(h, item, c) == mret([Restored(h, item) EXCEPT !.sp = c.mscratch], c)
ContinuedCsr(c, sp) == AfterMret([c EXCEPT !.mscratch = sp])

(* The hart at the entry of a machine trap.                                *)
LEMMA InterruptedHart ==
  ASSUME NEW h \in Hart, NEW sp \in Pointer
  PROVE  /\ Interrupted(h, sp) \in Hart /\ Interrupted(h, sp).mode = "M"
         /\ Interrupted(h, sp).pc = Kernel("mtrap_handler")
         /\ Interrupted(h, sp).sp = sp /\ Interrupted(h, sp).sreg = h.sreg
<1>1. "mtrap_handler" \in Label /\ Junk \in Register
  BY RegisterFacts DEF Label
<1>2. /\ Goto(h, "mtrap_handler") \in Hart
      /\ Goto(h, "mtrap_handler").pc = Kernel("mtrap_handler")
      /\ Goto(h, "mtrap_handler").sreg = h.sreg
  BY <1>1, GotoHart
<1>3. Interrupted(h, sp) \in Hart
  BY <1>1, <1>2 DEF Interrupted, Hart
<1> QED BY <1>2, <1>3 DEF Interrupted, Hart

(* The supervisor's registers are left alone in machine mode.              *)
SameSupervisor(c, d) ==
  /\ c.sscratch = d.sscratch /\ c.sepc = d.sepc /\ c.satp = d.satp
  /\ c.scause = d.scause /\ c.spp = d.spp /\ c.spie = d.spie /\ c.sie = d.sie
  /\ c.enabled = d.enabled

(* The machine trap saves where it interrupted the hart.                   *)
LEMMA InterruptedRegisters ==
  ASSUME NEW c \in Csr, NEW h \in Hart, h.mode # "M"
  PROVE  /\ InterruptedCsr(c, h) \in Csr
         /\ SameSupervisor(InterruptedCsr(c, h), c)
         /\ InterruptedCsr(c, h).ssip = c.ssip
         /\ InterruptedCsr(c, h).mscratch = h.sp /\ InterruptedCsr(c, h).mepc = h.pc
         /\ InterruptedCsr(c, h).mpp = h.mode
<1>1. h.sp \in Pointer /\ h.pc \in Address /\ h.mode \in {"S", "U"}
  BY DEF Hart
<1>2. InterruptedCsr(c, h) \in Csr
  BY <1>1 DEF InterruptedCsr, Csr
<1> QED BY <1>2 DEF InterruptedCsr, Csr, SameSupervisor

(* mret continues where the machine trap interrupted the hart.             *)
LEMMA ContinuedHart ==
  ASSUME NEW h \in Hart, NEW item \in StackItem, NEW c \in Csr
  PROVE  /\ Continued(h, item, c) \in Hart
         /\ Continued(h, item, c).mode = c.mpp /\ Continued(h, item, c).pc = c.mepc
         /\ Continued(h, item, c).sp = c.mscratch
         /\ Continued(h, item, c).gpr = item.gpr /\ Continued(h, item, c).a0 = item.a0
         /\ Continued(h, item, c).sreg = h.sreg
<1>1. c.mscratch \in Pointer /\ c.mepc \in Address /\ c.mpp \in {"M", "S", "U"}
  BY DEF Csr
<1>2. item.gpr \in Register /\ item.a0 \in Register
  BY DEF StackItem
<1>3. /\ Continued(h, item, c).mode = c.mpp /\ Continued(h, item, c).pc = c.mepc
      /\ Continued(h, item, c).sp = c.mscratch
      /\ Continued(h, item, c).gpr = item.gpr /\ Continued(h, item, c).a0 = item.a0
      /\ Continued(h, item, c).sreg = h.sreg
  BY DEF Continued, mret, Restored, Hart
<1>4. Continued(h, item, c) \in Hart
  <2>1. Restored(h, item) \in Hart
    BY <1>2 DEF Restored, Hart
  <2>2. [Restored(h, item) EXCEPT !.sp = c.mscratch] \in Hart
    BY <1>1, <2>1 DEF Hart
  <2>3. ASSUME NEW g \in Hart PROVE mret(g, c) \in Hart
    BY <1>1 DEF mret, Hart
  <2> QED BY <2>2, <2>3 DEF Continued
<1> QED BY <1>3, <1>4

(* mret leaves the registers of the supervisor alone.                      *)
LEMMA AfterMretCsr ==
  ASSUME NEW d \in Csr
  PROVE  /\ AfterMret(d) \in Csr /\ SameSupervisor(AfterMret(d), d)
         /\ AfterMret(d).ssip = d.ssip /\ AfterMret(d).mscratch = d.mscratch
<1>1. Nowhere \in Address
  BY AddressFacts DEF Nowhere, Label
<1>2. AfterMret(d) \in Csr
  BY <1>1 DEF AfterMret, Csr
<1> QED BY <1>2 DEF AfterMret, Csr, SameSupervisor

(* So does the end of a machine trap.                                      *)
LEMMA ContinuedRegisters ==
  ASSUME NEW c \in Csr, NEW sp \in Pointer
  PROVE  /\ ContinuedCsr(c, sp) \in Csr
         /\ SameSupervisor(ContinuedCsr(c, sp), c)
         /\ ContinuedCsr(c, sp).ssip = c.ssip /\ ContinuedCsr(c, sp).mscratch = sp
<1> DEFINE d == [c EXCEPT !.mscratch = sp]
<1>1. d \in Csr
  BY DEF Csr
<1>2. SameSupervisor(d, c) /\ d.ssip = c.ssip /\ d.mscratch = sp
  BY DEF Csr, SameSupervisor
<1>3. ContinuedCsr(c, sp) = AfterMret(d)
  BY DEF ContinuedCsr
<1> HIDE DEF d
<1>4. /\ AfterMret(d) \in Csr /\ SameSupervisor(AfterMret(d), d)
      /\ AfterMret(d).ssip = d.ssip /\ AfterMret(d).mscratch = d.mscratch
  BY <1>1, AfterMretCsr
<1> QED BY <1>2, <1>3, <1>4 DEF SameSupervisor

(* The machine timer interrupts the supervisor or a program.               *)
LEMMA MtrapEntryInv ==
  ASSUME TrapsIInv, mtrap_entry
  PROVE  TrapsIInv'
<1> DEFINE l == "mtrap_handler"
<1>1. /\ timer.due /\ "m_timer" \in csr.enabled /\ hart.mode # "M"
      /\ mem' = Pushed(mem, csr.mscratch, TrapFrame(hart))
      /\ hart' = Interrupted(hart, Deeper(csr.mscratch))
      /\ csr' = InterruptedCsr(csr, hart)
      /\ UNCHANGED <<virt, timer, first_call, counter, processes, context, own>>
  BY DEF mtrap_entry, Interrupted, InterruptedCsr
<1>2. hart \in Hart /\ csr \in Csr /\ mem \in [Stacks -> Seq(StackItem)]
  BY DEF TrapsIInv, HartTypes
<1>3. /\ ~InMachineTrap /\ Under = hart /\ hart.pc.at \notin StartUpCode
      /\ csr.mscratch = Base(MtrapStack)
  BY <1>1 DEF TrapsIInv, Machine, Under, StartUpCode
<1>4. csr.enabled = EnabledInterrupts(virt) /\ virt
  <2>1. csr.enabled = EnabledInterrupts(virt)
    BY <1>3 DEF TrapsIInv, Machine, StartUpCode
  <2> QED BY <1>1, <2>1, SMTT(30) DEF EnabledInterrupts
<1>5. hart.pc.at # "kernel_start"
  <2>1. CASE pid = NoPid
    <3>1. Booting(hart)
      BY <1>3, <2>1 DEF TrapsIInv, Where
    <3> QED BY <1>1, <1>4, <3>1, AddressFacts DEF Booting, StartsUp, WaitsForInterrupt,
               InFirstTrap, Label
  <2>2. CASE pid # NoPid
    <3>1. InProgram(hart) \/ InKernel(hart)
      BY <1>3, <2>2 DEF TrapsIInv, Where
    <3>2. InProgram(hart) => hart.pc.at = "user"
      BY AddressFacts, SMTT(30) DEF InProgram
    <3>3. InKernel(hart) => hart.pc.at # "kernel_start"
      BY DEF InKernel, NotRunYet, OnTrapStack, ReturnsFrom, Snapshot
    <3> QED BY <3>1, <3>2, <3>3
  <2> QED BY <2>1, <2>2
<1>6. /\ csr.mscratch \in Pointer /\ csr.mscratch.stack = MtrapStack
      /\ csr.mscratch.depth = 0
  BY <1>3, StackFacts, AddressFacts, SMTT(30) DEF Base
<1>7. /\ Deeper(csr.mscratch) \in Pointer /\ Deeper(csr.mscratch).stack = MtrapStack
      /\ Deeper(csr.mscratch).depth = 1
  BY <1>6, PointerMoves, SMTT(30)
<1>8. /\ hart' \in Hart /\ hart'.mode = "M" /\ hart'.pc = Kernel(l)
      /\ hart'.sp = Deeper(csr.mscratch) /\ hart'.sreg = hart.sreg
  BY <1>1, <1>2, <1>7, InterruptedHart
<1>9. hart'.pc.at = l
  BY <1>8, AddressFacts DEF Label
<1>10. /\ csr' \in Csr /\ SameSupervisor(csr', csr) /\ csr'.ssip = csr.ssip
       /\ csr'.mscratch = hart.sp /\ csr'.mepc = hart.pc /\ csr'.mpp = hart.mode
  BY <1>1, <1>2, InterruptedRegisters
<1>11. TrapFrame(hart) \in StackItem /\ TrapFrame(hart).gpr = hart.gpr
       /\ TrapFrame(hart).a0 = hart.a0
  BY <1>2 DEF TrapFrame, StackItem, Hart, Label
<1>12. /\ mem' \in [Stacks -> Seq(StackItem)]
       /\ \A s \in Stacks : s # MtrapStack => mem'[s] = mem[s]
       /\ Len(mem'[MtrapStack]) = 1 /\ mem'[MtrapStack][1] = TrapFrame(hart)
  <2>1. csr.mscratch.depth <= Len(mem[csr.mscratch.stack])
    <3>1. mem[MtrapStack] \in Seq(StackItem)
      BY <1>2, StackFacts
    <3>2. Len(mem[MtrapStack]) \in Nat
      BY <3>1, StackLength
    <3> QED BY <1>6, <3>2, SMTT(30)
  <2>2. /\ mem' \in [Stacks -> Seq(StackItem)]
        /\ \A s \in Stacks : s # csr.mscratch.stack => mem'[s] = mem[s]
        /\ Len(mem'[csr.mscratch.stack]) = csr.mscratch.depth + 1
        /\ mem'[csr.mscratch.stack][csr.mscratch.depth + 1] = TrapFrame(hart)
    <3>1. csr.mscratch \in Pointer
      BY <1>6
    <3>2. mem \in [Stacks -> Seq(StackItem)]
      BY <1>2
    <3>3. TrapFrame(hart) \in StackItem
      BY <1>11
    <3>4. mem' = Pushed(mem, csr.mscratch, TrapFrame(hart))
      BY <1>1
    <3> QED BY <2>1, <3>1, <3>2, <3>3, <3>4, MemPushed
  <2>3. csr.mscratch.depth + 1 = 1
    BY <1>6, SMTT(30)
  <2> QED BY <1>6, <2>2, <2>3
<1>13. InMachineTrap'
  BY <1>9 DEF InMachineTrap
<1>14. /\ Under'.mode = hart.mode /\ Under'.pc = hart.pc /\ Under'.sp = hart.sp
       /\ Under'.gpr = hart.gpr /\ Under'.a0 = hart.a0 /\ Under'.sreg = hart.sreg
  BY <1>8, <1>10, <1>11, <1>12, <1>13 DEF Under
<1>15. Where(Under)'
  BY <1>1, <1>3, <1>5, <1>10, <1>12, <1>14, UnderKept DEF SameSupervisor
<1>16. Machine'
  <2>1. hart'.pc.at \notin {"_start", "boot_riscv"}
    BY <1>9
  <2>2. /\ csr'.enabled = EnabledInterrupts(virt) /\ (csr'.ssip => virt /\ ~first_call)
        /\ (virt /\ pid # NoPid => ~first_call)
    BY <1>4, <1>10 DEF SameSupervisor, TrapsIInv, Machine
  <2>3. csr'.mepc.at \notin StartUpCode \cup {"kernel_start", "mtrap_handler", "mtrap_exit"}
    BY <1>3, <1>5, <1>10 DEF InMachineTrap
  <2>4. hart'.sp.stack = MtrapStack /\ hart'.sp.depth = 1
    BY <1>7, <1>8
  <2>5. hart'.pc = Kernel(hart'.pc.at)
    BY <1>8, <1>9
  <2>6. pid' = pid
    BY <1>1 DEF processes
  <2> QED BY <1>1, <1>4, <1>8, <1>12, <1>13, <2>1, <2>2, <2>3, <2>4, <2>5, <2>6 DEF Machine
<1>17. ProcTypes' /\ Scheduling' /\ TrapStacks' /\ Saved'
  <2>1. own' \in [Procs -> [n : Nat, gpr : Register, a0 : Register, sreg : Register]]
    BY <1>1 DEF TrapsIInv, ProcTypes
  <2> QED BY <1>1, <1>12, <2>1, OthersKept
<1>18. HartTypes' /\ DeviceTypes'
  BY <1>1, <1>8, <1>10, <1>12 DEF HartTypes, DeviceTypes, TrapsIInv
<1> QED BY <1>15, <1>16, <1>17, <1>18 DEF TrapsIInv

(* In machine mode the interrupted hart is in the registers for mret and   *)
(* on the machine stack.                                                   *)
LEMMA MachineTrap ==
  ASSUME TrapsIInv, NEW l \in {"mtrap_handler", "mtrap_exit"}, At(l)
  PROVE  /\ InMachineTrap /\ hart.pc.at = l /\ hart.mode = "M" /\ virt
         /\ hart.sp.stack = MtrapStack /\ hart.sp.depth = 1
         /\ Len(mem[MtrapStack]) = 1
         /\ Under.mode = csr.mpp /\ Under.pc = csr.mepc /\ Under.sp = csr.mscratch
         /\ Under.gpr = mem[MtrapStack][1].gpr /\ Under.a0 = mem[MtrapStack][1].a0
         /\ Under.sreg = hart.sreg
         /\ Under.pc.at \notin StartUpCode \cup {"kernel_start", "mtrap_handler",
                                                 "mtrap_exit"}
<1>1. hart.pc.at = l /\ InMachineTrap
  BY AddressFacts, SMTT(30) DEF At, Label, InMachineTrap
<1>2. /\ Under.mode = csr.mpp /\ Under.pc = csr.mepc /\ Under.sp = csr.mscratch
      /\ Under.gpr = mem[MtrapStack][1].gpr /\ Under.a0 = mem[MtrapStack][1].a0
      /\ Under.sreg = hart.sreg
  BY <1>1 DEF Under
<1> QED BY <1>1, <1>2 DEF TrapsIInv, Machine

(* What a machine trap passes on waits for the program or for the first    *)
(* interrupt: it was taken in user mode, or before the first process.      *)
LEMMA ForwardedTick ==
  ASSUME TrapsIInv, InMachineTrap, Forwarded(csr.mpp)
  PROVE  Under.mode = "U" \/ WaitsForInterrupt(Under)
<1>1. Under.mode = csr.mpp /\ Under.pc = csr.mepc /\ virt
      /\ Under.pc.at \notin StartUpCode \cup {"kernel_start"}
  BY DEF Under, TrapsIInv, Machine
<1>2. CASE csr.mpp = "U"
  BY <1>1, <1>2
<1>3. CASE first_call
  <2>1. pid = NoPid /\ Booting(Under)
    BY <1>1, <1>3 DEF TrapsIInv, Machine, Where
  <2> QED BY <1>1, <1>3, <2>1 DEF Booting, StartsUp, InFirstTrap
<1> QED BY <1>2, <1>3 DEF Forwarded

(* The machine timer's handler passes the tick on to the supervisor.       *)
LEMMA MtrapHandlerInv ==
  ASSUME TrapsIInv, mtrap_handler
  PROVE  TrapsIInv'
<1> DEFINE l == "mtrap_handler"
           m == "mtrap_exit"
           f == Forwarded(csr.mpp)
<1>1. /\ At(l) /\ l \in {"mtrap_handler", "mtrap_exit"} /\ m \in Label
      /\ hart' = Goto(hart, m) /\ timer' = Rearmed
      /\ IF f THEN first_call' = FALSE /\ csr' = [csr EXCEPT !.ssip = TRUE]
              ELSE UNCHANGED <<first_call, csr>>
      /\ UNCHANGED <<virt, mem, counter, processes, context, own>>
  BY DEF mtrap_handler, handle_mtimer_interrupt, Label
<1> HIDE DEF f
<1>2. /\ InMachineTrap /\ hart.pc.at = l /\ hart.mode = "M" /\ virt
      /\ hart.sp.stack = MtrapStack /\ hart.sp.depth = 1
      /\ Len(mem[MtrapStack]) = 1
      /\ Under.pc.at \notin StartUpCode \cup {"kernel_start"}
  BY <1>1, MachineTrap
<1>3. hart \in Hart /\ csr \in Csr
  BY DEF TrapsIInv, HartTypes
<1>4. /\ hart' \in Hart /\ hart'.pc = Kernel(m) /\ hart'.pc.at = m
      /\ hart'.sp = hart.sp /\ hart'.mode = hart.mode /\ hart'.sreg = hart.sreg
  BY <1>1, <1>3, GotoHart
<1>5. /\ csr' \in Csr /\ SameSupervisor(csr', csr)
      /\ csr'.ssip => csr.ssip \/ f
      /\ csr'.mscratch = csr.mscratch /\ csr'.mepc = csr.mepc /\ csr'.mpp = csr.mpp
  <2>1. CASE f
    <3>1. csr' = [csr EXCEPT !.ssip = TRUE]
      BY <1>1, <2>1
    <3>2. csr' \in Csr
      BY <1>3, <3>1 DEF Csr
    <3>3. /\ SameSupervisor(csr', csr) /\ csr'.mscratch = csr.mscratch
          /\ csr'.mepc = csr.mepc /\ csr'.mpp = csr.mpp
      BY <1>3, <3>1 DEF Csr, SameSupervisor
    <3> QED BY <2>1, <3>2, <3>3
  <2>2. CASE ~f
    BY <1>1, <1>3, <2>2 DEF SameSupervisor
  <2> QED BY <2>1, <2>2
<1>6. first_call' \in BOOLEAN /\ (first_call' => first_call /\ ~f)
  <2>1. first_call \in BOOLEAN
    BY DEF TrapsIInv, DeviceTypes
  <2>2. CASE f
    BY <1>1, <2>2
  <2>3. CASE ~f
    BY <1>1, <2>1, <2>3
  <2> QED BY <2>2, <2>3
<1>7. InMachineTrap'
  BY <1>4 DEF InMachineTrap
<1>8. /\ Under'.mode = Under.mode /\ Under'.pc = Under.pc /\ Under'.sp = Under.sp
      /\ Under'.gpr = Under.gpr /\ Under'.a0 = Under.a0 /\ Under'.sreg = Under.sreg
  BY <1>1, <1>2, <1>4, <1>5, <1>7 DEF Under
<1>9. csr'.ssip => csr.ssip \/ Under.mode = "U" \/ WaitsForInterrupt(Under)
  <2>1. f => Under.mode = "U" \/ WaitsForInterrupt(Under)
    BY <1>2, ForwardedTick DEF f
  <2> QED BY <1>5, <2>1
<1>10. Where(Under)'
  BY <1>1, <1>2, <1>5, <1>6, <1>8, <1>9, UnderKept DEF SameSupervisor
<1>11. Machine'
  <2>1. /\ csr'.enabled = EnabledInterrupts(virt) /\ (csr.ssip => ~first_call)
        /\ (pid # NoPid => ~first_call)
        /\ csr.mepc.at \notin StartUpCode \cup {"kernel_start", "mtrap_handler",
                                                "mtrap_exit"}
    <3>1. csr.enabled = EnabledInterrupts(virt)
      BY <1>2 DEF TrapsIInv, Machine
    <3>2. csr'.enabled = csr.enabled
      BY <1>5 DEF SameSupervisor
    <3> QED BY <1>2, <3>1, <3>2 DEF TrapsIInv, Machine
  <2>2. hart'.pc.at \notin {"_start", "boot_riscv"} /\ hart'.mode = "M"
        /\ hart'.pc = Kernel(hart'.pc.at) /\ hart'.sp = hart.sp
    BY <1>2, <1>4
  <2>3. pid' = pid
    BY <1>1 DEF processes
  <2> QED BY <1>1, <1>2, <1>5, <1>6, <1>7, <2>1, <2>2, <2>3 DEF Machine
<1>12. ProcTypes' /\ Scheduling' /\ TrapStacks' /\ Saved'
  <2>1. own' \in [Procs -> [n : Nat, gpr : Register, a0 : Register, sreg : Register]]
    BY <1>1 DEF TrapsIInv, ProcTypes
  <2> QED BY <1>1, <2>1, OthersKept
<1>13. HartTypes' /\ DeviceTypes'
  BY <1>1, <1>4, <1>5, <1>6 DEF HartTypes, DeviceTypes, TrapsIInv, Rearmed
<1> QED BY <1>10, <1>11, <1>12, <1>13 DEF TrapsIInv

(* mret gives the hart back what mtrap_entry saved.                        *)
LEMMA MtrapExitInv ==
  ASSUME TrapsIInv, mtrap_exit
  PROVE  TrapsIInv'
<1> DEFINE l == "mtrap_exit"
           item == mem[MtrapStack][1]
<1>1. At(l) /\ l \in {"mtrap_handler", "mtrap_exit"}
      /\ UNCHANGED <<virt, timer, first_call, counter, processes, context, own>>
  BY DEF mtrap_exit, devices
<1>2. /\ InMachineTrap /\ virt /\ hart.pc.at = l
      /\ hart.sp.stack = MtrapStack /\ hart.sp.depth = 1
      /\ Len(mem[MtrapStack]) = 1
      /\ Under.mode = csr.mpp /\ Under.pc = csr.mepc /\ Under.sp = csr.mscratch
      /\ Under.gpr = item.gpr /\ Under.a0 = item.a0 /\ Under.sreg = hart.sreg
      /\ Under.pc.at \notin StartUpCode \cup {"kernel_start", "mtrap_handler",
                                              "mtrap_exit"}
  BY <1>1, MachineTrap
<1>3. /\ hart \in Hart /\ csr \in Csr /\ mem \in [Stacks -> Seq(StackItem)]
      /\ hart.sp \in Pointer
  BY DEF TrapsIInv, HartTypes, Hart
<1>4. item \in StackItem
  <2>1. mem[MtrapStack] \in Seq(StackItem) /\ 1 \in 1..Len(mem[MtrapStack])
    BY <1>2, <1>3, StackFacts, SMTT(30)
  <2> QED BY <2>1, StackElement
<1>5. Above(hart.sp) = Base(MtrapStack) /\ Base(MtrapStack) \in Pointer
  BY <1>2, <1>3, PointerMoves, StackFacts, AddressFacts
<1>6. /\ hart' = Continued(hart, item, csr)
      /\ csr' = ContinuedCsr(csr, Base(MtrapStack))
      /\ mem' = Popped(mem, hart.sp)
  BY <1>2, <1>5 DEF mtrap_exit, Continued, ContinuedCsr, Item
<1> HIDE DEF item
<1>7. /\ hart' \in Hart /\ hart'.mode = Under.mode /\ hart'.pc = Under.pc
      /\ hart'.sp = Under.sp /\ hart'.gpr = Under.gpr /\ hart'.a0 = Under.a0
      /\ hart'.sreg = Under.sreg
  BY <1>2, <1>3, <1>4, <1>6, ContinuedHart
<1>8. /\ csr' \in Csr /\ SameSupervisor(csr', csr) /\ csr'.ssip = csr.ssip
      /\ csr'.mscratch = Base(MtrapStack)
  BY <1>3, <1>5, <1>6, ContinuedRegisters
<1>9. /\ mem' \in [Stacks -> Seq(StackItem)]
      /\ \A s \in Stacks : s # MtrapStack => mem'[s] = mem[s]
  <2>1. hart.sp.depth \in 1..Len(mem[hart.sp.stack])
    BY <1>2, SMTT(30)
  <2>2. /\ mem' \in [Stacks -> Seq(StackItem)]
        /\ \A s \in Stacks : s # hart.sp.stack => mem'[s] = mem[s]
    BY <1>3, <1>6, <2>1, PoppedItems
  <2> QED BY <1>2, <2>2
<1>10. ~InMachineTrap' /\ Under' = hart'
  BY <1>2, <1>7 DEF InMachineTrap, Under
<1>11. Where(Under)'
  BY <1>1, <1>2, <1>7, <1>8, <1>9, <1>10, UnderKept DEF SameSupervisor
<1>12. Machine'
  <2>1. /\ csr'.enabled = EnabledInterrupts(virt) /\ (csr.ssip => ~first_call)
        /\ (pid # NoPid => ~first_call)
    <3>1. csr.enabled = EnabledInterrupts(virt)
      BY <1>2 DEF TrapsIInv, Machine
    <3>2. csr'.enabled = csr.enabled
      BY <1>8 DEF SameSupervisor
    <3> QED BY <1>2, <3>1, <3>2 DEF TrapsIInv, Machine
  <2>2. hart'.mode \in {"S", "U"} /\ hart'.pc.at \notin StartUpCode
        /\ hart'.pc.at \notin {"_start", "boot_riscv"}
    BY <1>2, <1>3, <1>7 DEF Csr, StartUpCode
  <2>3. pid' = pid
    BY <1>1 DEF processes
  <2> QED BY <1>1, <1>2, <1>8, <1>10, <2>1, <2>2, <2>3 DEF Machine
<1>13. ProcTypes' /\ Scheduling' /\ TrapStacks' /\ Saved'
  <2>1. own' \in [Procs -> [n : Nat, gpr : Register, a0 : Register, sreg : Register]]
    BY <1>1 DEF TrapsIInv, ProcTypes
  <2>2. \A s \in Stacks : s # MtrapStack => mem'[s] = mem[s]
    BY <1>9
  <2>3. \A p \in Procs : p # pid => own'[p] = own[p]
    BY <1>1
  <2> QED BY <1>1, <2>1, <2>2, <2>3, OthersKept
<1>14. HartTypes' /\ DeviceTypes'
  BY <1>1, <1>7, <1>8, <1>9 DEF HartTypes, DeviceTypes, TrapsIInv
<1> QED BY <1>11, <1>12, <1>13, <1>14 DEF TrapsIInv
------------------------------------------------------------------------------
(* Start-up                                                                *)

(* Before kernel_start has made processes none runs, and no interrupt is   *)
(* let in.                                                                 *)
LEMMA StartingUp ==
  ASSUME TrapsIInv, NEW l \in StartUpCode \cup {"kernel_start"}, At(l)
  PROVE  /\ pid = NoPid /\ ~InMachineTrap /\ hart.pc.at = l
         /\ StartsUp(hart) /\ dead = {}
<1>1. l \in Label
  BY DEF StartUpCode, Label
<1>2. hart.pc.at = l
  BY <1>1, AddressFacts DEF At
<1>3. ~InMachineTrap /\ Under = hart
  BY <1>2 DEF InMachineTrap, Under, StartUpCode
<1>4. pid = NoPid
  <2>1. InProgram(hart) => hart.mode = "U" /\ hart.pc.at = "user"
    BY AddressFacts, SMTT(30) DEF InProgram
  <2>2. InKernel(hart) => hart.mode = "S" /\ hart.pc.at # "kernel_start"
    BY DEF InKernel, NotRunYet, OnTrapStack, ReturnsFrom, Snapshot
  <2>3. hart.pc.at \in StartUpCode => hart.mode = "M"
    BY DEF TrapsIInv, Machine
  <2> QED BY <1>2, <1>3, <2>1, <2>2, <2>3 DEF TrapsIInv, Where
<1>5. Booting(hart)
  BY <1>3, <1>4 DEF TrapsIInv, Where
<1>6. StartsUp(hart) /\ dead = {}
  BY <1>2, <1>5, AddressFacts DEF Booting, WaitsForInterrupt, InFirstTrap, StartUpCode, Label
<1> QED BY <1>2, <1>3, <1>4, <1>6

(* The next instructions of start-up.                                      *)
LEMMA StartUpMoves ==
  ASSUME TrapsIInv, StartsUp(hart), pid = NoPid, dead = {},
         NEW m \in {"boot_riscv", "enter_supervisor_mode", "kernel_start"},
         hart' \in Hart, hart'.pc = Kernel(m), hart'.sp = Base(BootStack),
         hart'.mode = (IF m = "kernel_start" THEN "S" ELSE "M"),
         csr' \in Csr, csr'.sscratch = Base(StrapStack),
         csr'.mscratch = Base(MtrapStack), ~csr'.sie, ~csr'.ssip,
         csr'.enabled = (IF m = "boot_riscv" THEN {} ELSE EnabledInterrupts(virt)),
         timer' \in [armed : BOOLEAN, due : BOOLEAN], ~timer'.armed,
         virt => ~timer'.due,
         UNCHANGED <<virt, mem, first_call, counter, processes, context, own>>
  PROVE  TrapsIInv'
<1>1. UNCHANGED <<pid, state, activatable, dead, sscratch_frame>>
  BY DEF processes
<1>2. hart'.pc.at = m
  BY AddressFacts, SMTT(30) DEF Label
<1>3. ~InMachineTrap' /\ Under' = hart'
  BY <1>2 DEF InMachineTrap, Under
<1>4. StartsUp(hart)'
  <2>1. activatable = << >> /\ \A p \in Procs : state[p] = "NONE"
    BY DEF StartsUp
  <2>2. /\ hart'.pc = Kernel(hart'.pc.at)
        /\ hart'.pc.at \in StartUpCode \cup {"kernel_start"}
        /\ hart'.pc.at = "kernel_start" => hart'.mode = "S"
    BY <1>2 DEF StartUpCode
  <2> QED BY <1>1, <2>1, <2>2 DEF StartsUp
<1>5. Where(hart)'
  <2>1. Booting(hart)'
    BY <1>1, <1>4 DEF Booting, StartsUp
  <2> QED BY <1>1, <2>1 DEF Where
<1>6. Where(Under)'
  BY <1>3, <1>5, OutsideMachineTraps
<1>7. Machine'
  <2>1. /\ hart'.mode = "M" <=> m \in StartUpCode
        /\ m \in {"_start", "boot_riscv"} <=> m = "boot_riscv"
    BY DEF StartUpCode
  <2> QED BY <1>1, <1>2, <1>3, <2>1 DEF Machine
<1>8. ProcTypes' /\ Scheduling' /\ TrapStacks' /\ Saved'
  <2>1. own' \in [Procs -> [n : Nat, gpr : Register, a0 : Register, sreg : Register]]
    BY DEF TrapsIInv, ProcTypes
  <2>2. \A s \in Stacks : s # BootStack => mem'[s] = mem[s]
    OBVIOUS
  <2> QED BY <2>1, <2>2, OthersKept
<1>9. HartTypes' /\ DeviceTypes'
  BY DEF HartTypes, DeviceTypes, TrapsIInv
<1> QED BY <1>6, <1>7, <1>8, <1>9 DEF TrapsIInv

(* The stacks of the hart are set up.                                      *)
LEMMA StartInv ==
  ASSUME TrapsIInv, _start
  PROVE  TrapsIInv'
<1> DEFINE m == "boot_riscv"
<1>1. StartsUp(hart) /\ pid = NoPid /\ dead = {} /\ hart.pc.at = "_start"
  BY StartingUp DEF _start, StartUpCode
<1>2. /\ hart \in Hart /\ csr \in Csr /\ m \in Label
      /\ Base(BootStack) \in Pointer /\ Base(MtrapStack) \in Pointer
      /\ Base(StrapStack) \in Pointer
  BY StackFacts, AddressFacts DEF TrapsIInv, HartTypes, Label
<1>3. /\ hart' \in Hart /\ hart'.pc = Kernel(m) /\ hart'.sp = Base(BootStack)
      /\ hart'.mode = hart.mode
  <2>1. hart' = Moved(hart, Kernel(m), Base(BootStack))
    BY <1>2 DEF _start, Goto, Moved, Hart
  <2>2. Kernel(m) \in Address
    BY <1>2, AddressFacts
  <2> QED BY <1>2, <2>1, <2>2, MovedHart
<1>4. /\ csr' \in Csr /\ csr'.sscratch = Base(StrapStack)
      /\ csr'.mscratch = Base(MtrapStack) /\ csr'.sie = csr.sie
      /\ csr'.ssip = csr.ssip /\ csr'.enabled = csr.enabled
  <2>1. csr' = [csr EXCEPT !.mscratch = Base(MtrapStack), !.sscratch = Base(StrapStack)]
    BY DEF _start
  <2>2. csr' \in Csr
    BY <1>2, <2>1 DEF Csr
  <2> QED BY <1>2, <2>1, <2>2 DEF Csr
<1>5. ~csr.sie /\ ~csr.ssip /\ ~timer.armed /\ (virt => ~timer.due)
  BY <1>1 DEF StartsUp
<1>6. csr.enabled = {} /\ hart.mode = "M"
  BY <1>1 DEF TrapsIInv, Machine, StartUpCode
<1>7. UNCHANGED <<virt, mem, timer, first_call, counter, processes, context, own>>
  BY DEF _start, devices
<1>8. timer \in [armed : BOOLEAN, due : BOOLEAN]
  BY DEF TrapsIInv, DeviceTypes
<1> QED BY <1>1, <1>3, <1>4, <1>5, <1>6, <1>7, <1>8, StartUpMoves

(* The registers start-up has set before.                                  *)
LEMMA StartUpRegisters ==
  ASSUME TrapsIInv, NEW l \in {"boot_riscv", "enter_supervisor_mode", "kernel_start"},
         At(l)
  PROVE  /\ StartsUp(hart) /\ pid = NoPid /\ dead = {} /\ ~InMachineTrap
         /\ hart \in Hart /\ csr \in Csr
         /\ timer \in [armed : BOOLEAN, due : BOOLEAN]
         /\ hart.sp = Base(BootStack) /\ csr.sscratch = Base(StrapStack)
         /\ csr.mscratch = Base(MtrapStack)
         /\ ~csr.sie /\ ~csr.ssip /\ ~timer.armed /\ (virt => ~timer.due)
         /\ l # "boot_riscv" => csr.enabled = EnabledInterrupts(virt)
         /\ hart.mode = IF l = "kernel_start" THEN "S" ELSE "M"
<1>1. StartsUp(hart) /\ pid = NoPid /\ dead = {} /\ ~InMachineTrap /\ hart.pc.at = l
  BY StartingUp DEF StartUpCode
<1>2. /\ hart.sp = Base(BootStack) /\ csr.sscratch = Base(StrapStack)
      /\ ~csr.sie /\ ~csr.ssip /\ ~timer.armed /\ (virt => ~timer.due)
      /\ l = "kernel_start" => hart.mode = "S"
  BY <1>1 DEF StartsUp
<1>3. /\ csr.mscratch = Base(MtrapStack)
      /\ l # "boot_riscv" => csr.enabled = EnabledInterrupts(virt)
      /\ l # "kernel_start" => hart.mode = "M"
  BY <1>1 DEF TrapsIInv, Machine, StartUpCode
<1>4. /\ hart \in Hart /\ csr \in Csr /\ timer \in [armed : BOOLEAN, due : BOOLEAN]
  BY DEF TrapsIInv, HartTypes, DeviceTypes
<1> QED BY <1>1, <1>2, <1>3, <1>4

(* Interrupts are delegated and enabled, but not let in.                   *)
LEMMA BootRiscvInv ==
  ASSUME TrapsIInv, boot_riscv
  PROVE  TrapsIInv'
<1> DEFINE m == "enter_supervisor_mode"
<1>1. /\ StartsUp(hart) /\ pid = NoPid /\ dead = {}
      /\ hart \in Hart /\ csr \in Csr
      /\ timer \in [armed : BOOLEAN, due : BOOLEAN]
      /\ hart.sp = Base(BootStack) /\ csr.sscratch = Base(StrapStack)
      /\ csr.mscratch = Base(MtrapStack)
      /\ ~csr.sie /\ ~csr.ssip /\ ~timer.armed /\ hart.mode = "M"
  BY StartUpRegisters DEF boot_riscv
<1>2. virt \in BOOLEAN
  BY DEF TrapsIInv, HartTypes
<1>3. /\ hart' \in Hart /\ hart'.pc = Kernel(m) /\ hart'.sp = hart.sp
      /\ hart'.mode = hart.mode
  BY <1>1, GotoHart, SMTT(30) DEF boot_riscv, Label
<1>4. /\ csr' \in Csr /\ csr'.sscratch = csr.sscratch /\ csr'.mscratch = csr.mscratch
      /\ csr'.sie = csr.sie /\ csr'.ssip = csr.ssip
      /\ csr'.enabled = EnabledInterrupts(virt)
  <2>1. csr' = [csr EXCEPT !.delegated = TRUE, !.enabled = EnabledInterrupts(virt)]
    BY <1>1 DEF boot_riscv, delegate_traps, Csr
  <2>2. EnabledInterrupts(virt) \in
          SUBSET {"m_timer", "s_timer", "s_software", "s_external"}
    BY DEF EnabledInterrupts
  <2>3. csr' \in Csr
    BY <1>1, <2>1, <2>2 DEF Csr
  <2> QED BY <1>1, <2>1, <2>3 DEF Csr
<1>5. timer' \in [armed : BOOLEAN, due : BOOLEAN] /\ ~timer'.armed
      /\ (virt => ~timer'.due)
  <2>1. timer' = [timer EXCEPT !.due = ~virt] /\ (~virt) \in BOOLEAN
    BY <1>2 DEF boot_riscv
  <2>2. timer' \in [armed : BOOLEAN, due : BOOLEAN]
    BY <1>1, <2>1
  <2>3. timer'.armed = timer.armed /\ timer'.due = (~virt)
    BY <1>1, <2>1
  <2> QED BY <1>1, <2>2, <2>3
<1>6. UNCHANGED <<virt, mem, first_call, counter, processes, context, own>>
  BY DEF boot_riscv
<1> QED BY <1>1, <1>3, <1>4, <1>5, <1>6, StartUpMoves

(* mret leaves machine mode for kernel_start.                              *)
LEMMA EnterSupervisorInv ==
  ASSUME TrapsIInv, enter_supervisor_mode
  PROVE  TrapsIInv'
<1> DEFINE m == "kernel_start"
           c == [csr EXCEPT !.mepc = Kernel(m), !.mpp = "S"]
<1>1. /\ StartsUp(hart) /\ pid = NoPid /\ dead = {}
      /\ hart \in Hart /\ csr \in Csr
      /\ timer \in [armed : BOOLEAN, due : BOOLEAN]
      /\ hart.sp = Base(BootStack) /\ csr.sscratch = Base(StrapStack)
      /\ csr.mscratch = Base(MtrapStack) /\ csr.enabled = EnabledInterrupts(virt)
      /\ ~csr.sie /\ ~csr.ssip /\ ~timer.armed /\ (virt => ~timer.due)
  BY StartUpRegisters DEF enter_supervisor_mode
<1>2. Kernel(m) \in Address
  BY AddressFacts DEF Label
<1>3. /\ c \in Csr /\ SameSupervisor(c, csr) /\ c.ssip = csr.ssip
      /\ c.mscratch = csr.mscratch /\ c.mepc = Kernel(m) /\ c.mpp = "S"
  <2>1. c \in Csr
    BY <1>1, <1>2 DEF Csr
  <2> QED BY <1>1, <2>1 DEF Csr, SameSupervisor
<1>4. /\ hart' = mret(hart, c) /\ csr' = AfterMret(c)
      /\ UNCHANGED <<virt, mem, timer, first_call, counter, processes, context, own>>
  BY DEF enter_supervisor_mode, devices
<1> HIDE DEF c
<1>5. /\ csr' \in Csr /\ SameSupervisor(csr', csr) /\ csr'.ssip = csr.ssip
      /\ csr'.mscratch = csr.mscratch
  BY <1>3, <1>4, AfterMretCsr DEF SameSupervisor
<1>6. /\ hart' \in Hart /\ hart'.pc = Kernel(m) /\ hart'.sp = hart.sp
      /\ hart'.mode = "S"
  <2>1. hart' = [hart EXCEPT !.mode = "S", !.pc = Kernel(m)]
    BY <1>3, <1>4 DEF mret
  <2>2. hart' \in Hart
    BY <1>1, <1>2, <2>1 DEF Hart
  <2> QED BY <1>1, <2>1, <2>2 DEF Hart
<1> QED BY <1>1, <1>4, <1>5, <1>6, StartUpMoves DEF SameSupervisor

------------------------------------------------------------------------------
(* Devices                                                                 *)

(* Time passes and keys are pressed without the hart noticing.  The        *)
(* comparator is armed only once start-up has come to its end.             *)
LEMMA DevicesInv ==
  ASSUME TrapsIInv, TimerElapses \/ KeyPressed
  PROVE  TrapsIInv'
<1>1. UNCHANGED <<virt, hart, csr, mem, first_call, counter, processes, context, own>>
  BY DEF TimerElapses, KeyPressed
<1>2. /\ HartTypes' /\ ProcTypes' /\ Scheduling' /\ TrapStacks' /\ Saved'
      /\ Machine' /\ Under' = Under
  BY <1>1 DEF TrapsIInv, HartTypes, ProcTypes, Scheduling, TrapStacks, Saved, StackOf,
     Machine, Under, InMachineTrap, processes
<1>3. DeviceTypes'
  <2>1. timer' \in [armed : BOOLEAN, due : BOOLEAN]
    BY DEF TrapsIInv, DeviceTypes, TimerElapses, KeyPressed
  <2> QED BY <1>1, <2>1 DEF TrapsIInv, DeviceTypes
<1>4. CASE Under.pc.at \in StartUpCode \cup {"kernel_start"}
  <2>1. Where(Under)
    BY DEF TrapsIInv
  <2> DEFINE h == Under
  <2>2. Where(h) /\ h.pc.at \in StartUpCode \cup {"kernel_start"}
    BY <1>4, <2>1
  <2> HIDE DEF h
  <2>3. pid = NoPid
    <3> SUFFICES ASSUME pid # NoPid PROVE FALSE
      OBVIOUS
    <3>1. CASE InProgram(h)
      BY <2>2, <3>1, SMTT(30) DEF InProgram, User, StartUpCode
    <3>2. CASE InKernel(h)
      BY <2>2, <3>2 DEF InKernel, NotRunYet, OnTrapStack, ReturnsFrom, Snapshot,
         StartUpCode
    <3> QED BY <2>2, <3>1, <3>2 DEF Where
  <2>4. StartsUp(h) /\ Booting(h)
    BY <2>2, <2>3, SMTT(30) DEF Where, Booting, WaitsForInterrupt, InFirstTrap, Kernel,
       StartUpCode
  <2>5. timer' = timer
    BY <2>4 DEF StartsUp, TimerElapses, KeyPressed
  <2>6. Where(h)'
    BY <1>1, <1>2, <2>3, <2>4, <2>5 DEF Where, Booting, StartsUp, h, processes
  <2> QED BY <1>2, <1>3, <2>6 DEF TrapsIInv, h
<1>5. CASE Under.pc.at \notin StartUpCode \cup {"kernel_start"}
  <2>1. Where(Under)'
    BY <1>1, <1>2, <1>5, UnderKept
  <2> QED BY <1>2, <1>3, <2>1 DEF TrapsIInv
<1> QED BY <1>4, <1>5
------------------------------------------------------------------------------
(* Handlers and system calls                                               *)

(* A handler that changes processes, in a trap of the current one, comes   *)
(* to its end or calls scheduler(), as long as the processes it makes or   *)
(* wakes have something to resume from.                                    *)
LEMMA HandlerGoesOn ==
  ASSUME TrapsIInv, At("strap_handler"), pid # NoPid, csr.scause # "s_software",
         NEW back \in {"ecall_end", "strap_exit"},
         \/ hart' = Goto(hart, back) /\ mem' = mem /\ state'[pid] = "ACTIF"
         \/ Call("scheduler", back),
         state'[pid] \in Alive => (back = "ecall_end" <=> csr.scause = "ecall"),
         UNCHANGED <<virt, csr, timer, first_call, counter, own>>, pid' = pid,
         ProcTypes', Scheduling', TrapStacks',
         sscratch_frame'[pid] = sscratch_frame[pid],
         \A p \in Procs : p # pid /\ state'[p] \in Alive =>
           \/ NotRunYet(p, context'[p], sscratch_frame'[p])
           \/ /\ state[p] \in Alive /\ context'[p] = context[p]
              /\ sscratch_frame'[p] = sscratch_frame[p]
  PROVE  TrapsIInv'
<1> DEFINE s0 == hart.sp.stack
           stk == mem[s0]
           to == hart'.pc.at
<1>1. "strap_handler" \in HandlerCode
  BY DEF HandlerCode, Label, StartUpCode
<1>2. /\ pid \in Procs /\ sscratch_frame[pid] \in Frames
      /\ s0 = TrapStack(sscratch_frame[pid]) /\ s0 \in Stacks
      /\ StackOf(pid) = stk /\ hart.sp.depth = Len(stk) /\ stk \in Seq(StackItem)
      /\ ReturnsFrom("strap_handler", stk)
      /\ OnTrapStack(pid, Snapshot(hart), sscratch_frame[pid], StackOf(pid))
      /\ state[pid] \in Alive =>
           Remembers(pid, Snapshot(hart), StackOf(pid), csr.scause, own[pid])
      /\ state[pid] = "ACTIF" /\ ~csr.spp /\ (csr.sie => virt)
  BY <1>1, KernelStack
<1>3. ~InMachineTrap /\ hart.mode = "S" /\ hart.pc.at = "strap_handler"
  BY Supervisor DEF Label, StartUpCode
<1>4. /\ csr' \in Csr /\ csr' = csr /\ ~csr'.ssip
  BY <1>1, SameRegisters
<1>5. Len(stk) = 1
  BY <1>2 DEF ReturnsFrom
<1>6. /\ hart' \in Hart /\ hart'.pc = Kernel(to) /\ hart'.mode = "S"
      /\ hart'.sreg = hart.sreg /\ hart'.sp.stack = s0
      /\ hart'.sp.depth = Len(mem'[s0])
      /\ mem' \in [Stacks -> Seq(StackItem)]
      /\ \A s \in Stacks : s # s0 => mem'[s] = mem[s]
      /\ mem'[s0][1] = stk[1]
      /\ to # "scheduler" => state'[pid] = "ACTIF"
      /\ to \in {"scheduler", "ecall_end", "strap_exit"}
      /\ ReturnsFrom(to, mem'[s0])
      /\ InSystemCall(to, mem'[s0], csr.scause) <=> back = "ecall_end"
  <2>1. HartTypes /\ hart \in Hart /\ mem \in [Stacks -> Seq(StackItem)]
    BY DEF TrapsIInv, HartTypes
  <2>2. back \in Label /\ "scheduler" \in Label
    BY DEF Label
  <2>3. CASE hart' = Goto(hart, back) /\ mem' = mem /\ state'[pid] = "ACTIF"
    <3>1. /\ hart' \in Hart /\ hart'.pc = Kernel(back) /\ to = back
          /\ hart'.sp = hart.sp /\ hart'.mode = hart.mode /\ hart'.sreg = hart.sreg
      BY <2>1, <2>2, <2>3, GotoHart
    <3>2. mem'[s0] = stk /\ to \in {"ecall_end", "strap_exit"}
      BY <2>3, <3>1
    <3> HIDE DEF s0, stk, to
    <3>3. ReturnsFrom(to, mem'[s0])
      BY <1>5, <3>2 DEF ReturnsFrom
    <3>4. InSystemCall(to, mem'[s0], csr.scause) <=> back = "ecall_end"
      BY <3>1, <3>2 DEF InSystemCall
    <3> QED BY <1>2, <1>3, <2>1, <2>3, <3>1, <3>2, <3>3, <3>4 DEF s0
  <2>4. CASE Call("scheduler", back)
    <3>1. hart.sp.depth <= Len(mem[hart.sp.stack])
      BY <1>2, <1>5, SMTT(30)
    <3>2. /\ hart' \in Hart /\ hart'.pc = Kernel("scheduler") /\ to = "scheduler"
          /\ hart'.mode = hart.mode /\ hart'.sreg = hart.sreg
          /\ hart'.sp.stack = hart.sp.stack /\ hart'.sp.depth = hart.sp.depth + 1
          /\ mem' \in [Stacks -> Seq(StackItem)]
          /\ \A s \in Stacks : s # hart.sp.stack => mem'[s] = mem[s]
          /\ Len(mem'[hart.sp.stack]) = hart.sp.depth + 1
          /\ mem'[hart.sp.stack][hart.sp.depth + 1].to = back
          /\ \A i \in 1..hart.sp.depth : mem'[hart.sp.stack][i] = mem[hart.sp.stack][i]
      BY <2>1, <2>2, <2>4, <3>1, Called
    <3>3. Len(mem'[s0]) = 2 /\ mem'[s0][2].to = back /\ mem'[s0][1] = stk[1]
      BY <1>2, <1>5, <3>2, SMTT(30)
    <3> HIDE DEF s0, stk
    <3>4. ReturnsFrom("scheduler", mem'[s0])
      BY <3>3 DEF ReturnsFrom
    <3>5. InSystemCall("scheduler", mem'[s0], csr.scause) <=> back = "ecall_end"
      BY <3>3 DEF InSystemCall
    <3> QED BY <1>2, <1>3, <1>5, <3>2, <3>3, <3>4, <3>5 DEF s0, stk
  <2> QED BY <2>3, <2>4
<1> HIDE DEF s0, stk, to
<1>7. Saved'
  <2> SUFFICES ASSUME NEW p \in Procs, p # pid, state'[p] \in Alive
               PROVE  Resumable(p, context[p], sscratch_frame[p], StackOf(p), own[p])'
    BY DEF Saved
  <2>1. CASE NotRunYet(p, context'[p], sscratch_frame'[p])
    BY <2>1 DEF Resumable
  <2>2. CASE /\ state[p] \in Alive /\ context'[p] = context[p]
             /\ sscratch_frame'[p] = sscratch_frame[p]
    <3>1. pid # NoPid /\ s0 = TrapStack(sscratch_frame[pid])
      BY <1>2
    <3>2. \A s \in Stacks : s # s0 => mem'[s] = mem[s]
      BY <1>6
    <3>3. own'[p] = own[p]
      OBVIOUS
    <3> QED BY <2>2, <3>1, <3>2, <3>3, SavedKept
  <2> QED BY <2>1, <2>2
<1>8. StackOf(pid)' = mem'[s0]
  BY <1>2 DEF StackOf
<1>9. InSystemCall(hart.pc.at, StackOf(pid), csr.scause) <=> csr.scause = "ecall"
  BY <1>3 DEF InSystemCall
<1>10. state'[pid] \in Alive =>
         /\ Remembers(pid, Snapshot(hart), StackOf(pid), csr.scause, own[pid])
         /\ InSystemCall(to, StackOf(pid)', csr'.scause)
              <=> InSystemCall(hart.pc.at, StackOf(pid), csr.scause)
  BY <1>2, <1>4, <1>6, <1>8, <1>9 DEF Alive
<1>11. /\ OnTrapStack(pid, Snapshot(hart), sscratch_frame[pid], StackOf(pid))'
       /\ state'[pid'] \in Alive =>
            Remembers(pid, Snapshot(hart), StackOf(pid), csr.scause, own[pid])'
  <2>1. /\ csr'.sscratch = csr.sscratch /\ csr'.sepc = csr.sepc /\ csr'.satp = csr.satp
        /\ hart'.sp.stack = hart.sp.stack /\ hart'.sp.depth = Len(StackOf(pid)')
        /\ ReturnsFrom(hart'.pc.at, StackOf(pid)')
        /\ StackOf(pid)'[1] = StackOf(pid)[1] /\ own'[pid] = own[pid]
    BY <1>2, <1>4, <1>6, <1>8 DEF s0, to
  <2> QED BY <1>2, <1>6, <1>10, <2>1, PlaceKept DEF to
<1>12. InKernel(hart)'
  BY <1>2, <1>4, <1>6, <1>11 DEF InKernel, to
<1>13. Where(hart)'
  BY <1>12 DEF Where
<1>14. HartTypes' /\ DeviceTypes'
  BY <1>4, <1>6 DEF TrapsIInv, HartTypes, DeviceTypes
<1>15. /\ hart'.mode # "M"
       /\ hart'.pc.at \notin StartUpCode \cup {"mtrap_handler", "mtrap_exit"}
  BY <1>6 DEF StartUpCode, to
<1>16. virt /\ pid' # NoPid => ~first_call
  BY DEF TrapsIInv, Machine
<1> QED BY <1>3, <1>4, <1>7, <1>13, <1>14, <1>15, <1>16, Assembled

(* A process that ends leaves the queue, and its trap stack is given back  *)
(* when it is freed at once.                                               *)
LEMMA Ended ==
  ASSUME TrapsIInv, pid # NoPid, NEW q \in Procs \ {idle}, q \notin dead,
         state[q] # "NONE",
         NEW s \in {"NONE", "ZOMBIE", "KILLED"}, q = pid => s # "NONE",
         state' \in [Procs -> {"NONE", "ACTIVATABLE", "ACTIF", "BLOCKED", "ZOMBIE",
                               "KILLED"}],
         state'[q] = s, \A p \in Procs : p # q => state'[p] = state[p],
         sscratch_frame' \in [Procs -> Frames \cup {NoPid}],
         sscratch_frame'[q] = (IF s = "NONE" THEN NoPid ELSE sscratch_frame[q]),
         \A p \in Procs : p # q => sscratch_frame'[p] = sscratch_frame[p],
         activatable' \in Seq(Procs), IsInjective(activatable'),
         Range(activatable') = Range(activatable) \ {q},
         UNCHANGED <<pid, dead, context, own>>
  PROVE  ProcTypes' /\ Scheduling' /\ TrapStacks'
<1>1. ProcTypes'
  <2>1. /\ pid' \in ProcId /\ dead' \subseteq Procs /\ context' \in [ProcId -> Context]
        /\ own' \in [Procs -> [n : Nat, gpr : Register, a0 : Register, sreg : Register]]
    BY DEF TrapsIInv, ProcTypes
  <2> QED BY <2>1 DEF ProcTypes
<1>2. Scheduling'
  <2>1. \A p \in Procs : state'[p] = "ACTIVATABLE" <=> p \in Range(activatable')
    BY DEF TrapsIInv, Scheduling
  <2>2. \A p \in Procs : state'[p] = "ACTIF" => p = pid'
    BY DEF TrapsIInv, Scheduling
  <2>3. \A p \in dead' : state'[p] = "KILLED" /\ p # pid'
    BY DEF TrapsIInv, Scheduling, ProcTypes
  <2>4. pid \in Procs /\ idle \in Procs
    BY TrapsAssumption DEF TrapsIInv, ProcTypes, ProcId
  <2>5. state'[pid'] \notin {"NONE", "ACTIVATABLE"}
    BY <2>4 DEF TrapsIInv, Scheduling
  <2>6. IF pid' = idle THEN state'[idle] = "ACTIF" ELSE idle \in Range(activatable')
    BY <2>4 DEF TrapsIInv, Scheduling
  <2> QED BY <2>1, <2>2, <2>3, <2>5, <2>6 DEF Scheduling
<1>3. TrapStacks'
  BY SMTT(30) DEF TrapsIInv, TrapStacks
<1> QED BY <1>1, <1>2, <1>3

(* A system call or a page fault is one of an active process, not idle.    *)
LEMMA Caller ==
  ASSUME TrapsIInv, At("strap_handler"), csr.scause \in {"ecall", "page_fault"}
  PROVE  /\ pid # NoPid /\ pid \in Procs /\ pid # idle /\ state[pid] = "ACTIF"
         /\ pid \notin dead
<1>1. "strap_handler" \in HandlerCode /\ "strap_handler" \in Label
  BY DEF HandlerCode, Label, StartUpCode
<1>2. /\ pid = NoPid => Booting(hart)
      /\ pid # NoPid => pid \in Procs /\ InKernel(hart)
      /\ hart.pc.at = "strap_handler"
  BY <1>1, Supervisor DEF StartUpCode
<1>3. pid # NoPid
  <2> SUFFICES ASSUME pid = NoPid PROVE FALSE
    OBVIOUS
  <2>1. InFirstTrap(hart)
    BY <1>1, SupervisorLabels
  <2> QED BY <1>2, <2>1 DEF InFirstTrap
<1>4. pid # idle /\ state[pid] = "ACTIF"
  BY <1>2, <1>3 DEF InKernel
<1> QED BY <1>2, <1>3, <1>4 DEF TrapsIInv, Scheduling

(* A system call that changes no process, or blocks the caller.            *)
LEMMA CallReturnsInv ==
  ASSUME TrapsIInv, CallReturns \/ CallBlocks
  PROVE  TrapsIInv'
<1>1. /\ At("strap_handler") /\ csr.scause = "ecall"
      /\ UNCHANGED <<virt, csr, timer, first_call, counter, own>>
      /\ UNCHANGED <<pid, activatable, dead, sscratch_frame, context>>
  BY DEF CallReturns, CallBlocks, InCall, InHandler, devices, processes
<1>2. /\ pid # NoPid /\ pid \in Procs /\ pid # idle /\ state[pid] = "ACTIF"
      /\ pid \notin dead
  BY <1>1, Caller
<1>3. /\ state' \in [Procs -> {"NONE", "ACTIVATABLE", "ACTIF", "BLOCKED", "ZOMBIE",
                               "KILLED"}]
      /\ \A p \in Procs : p # pid => state'[p] = state[p]
      /\ \/ /\ hart' = Goto(hart, "ecall_end") /\ mem' = mem
            /\ state'[pid] = "ACTIF"
         \/ Call("scheduler", "ecall_end") /\ state'[pid] = "BLOCKED"
  <2>1. state \in [Procs -> {"NONE", "ACTIVATABLE", "ACTIF", "BLOCKED", "ZOMBIE",
                             "KILLED"}]
    BY DEF TrapsIInv, ProcTypes
  <2>2. CASE CallReturns
    BY <1>2, <2>1, <2>2 DEF CallReturns, Resumes, processes
  <2>3. CASE CallBlocks
    BY <1>2, <2>1, <2>3 DEF CallBlocks, Reschedules
  <2> QED BY <2>2, <2>3
<1>4. ProcTypes'
  BY <1>1, <1>3 DEF TrapsIInv, ProcTypes
<1>5. Scheduling'
  BY <1>1, <1>2, <1>3, TrapsAssumption DEF TrapsIInv, Scheduling, ProcTypes
<1>6. TrapStacks'
  BY <1>1, <1>2, <1>3 DEF TrapsIInv, TrapStacks
<1>7. \A p \in Procs : p # pid /\ state'[p] \in Alive =>
        /\ state[p] \in Alive /\ context'[p] = context[p]
        /\ sscratch_frame'[p] = sscratch_frame[p]
  BY <1>1, <1>3
<1> QED BY <1>1, <1>2, <1>3, <1>4, <1>5, <1>6, <1>7, HandlerGoesOn

(* exit_process keeps the trap stack it is running on.                     *)
LEMMA ExitInv ==
  ASSUME TrapsIInv, exit_process
  PROVE  TrapsIInv'
<1> DEFINE States == {"NONE", "ACTIVATABLE", "ACTIF", "BLOCKED", "ZOMBIE", "KILLED"}
<1>1. /\ At("strap_handler") /\ csr.scause \in {"ecall", "page_fault"}
      /\ UNCHANGED <<virt, csr, timer, first_call, counter, own>>
      /\ Call("scheduler", "ecall_end")
      /\ UNCHANGED <<pid, activatable, dead, context>>
  BY DEF exit_process, InHandler, devices
<1>2. /\ pid # NoPid /\ pid \in Procs /\ pid # idle /\ state[pid] = "ACTIF"
      /\ pid \notin dead
  BY <1>1, Caller
<1>3. PICK s \in ExitState : Freed(IF s = "NONE" THEN {pid} ELSE {},
                                  [state EXCEPT ![pid] = s])
  BY DEF exit_process
<1>4. s \in {"ZOMBIE", "KILLED"}
  BY <1>3 DEF ExitState
<1> DEFINE st == [state EXCEPT ![pid] = s]
<1>5. /\ ProcTypes /\ state \in [Procs -> States]
      /\ activatable \in Seq(Procs) /\ IsInjective(activatable)
      /\ pid \notin Range(activatable)
  BY <1>2 DEF TrapsIInv, ProcTypes, Scheduling
<1>6. /\ st \in [Procs -> States] /\ st[pid] = s
      /\ \A p \in Procs : p # pid => st[p] = state[p]
  BY <1>4, <1>2, <1>5
<1>7. Freed({}, st)
  <2>1. (IF s = "NONE" THEN {pid} ELSE {}) = {}
    BY <1>4
  <2> QED BY <1>3, <2>1
<1> HIDE DEF st
<1>8. /\ state' \in [Procs -> States]
      /\ sscratch_frame' \in [Procs -> Frames \cup {NoPid}]
      /\ \A p \in Procs : state'[p] = st[p] /\ sscratch_frame'[p] = sscratch_frame[p]
  BY <1>5, <1>6, <1>7 DEF ProcTypes, Freed
<1>9. ProcTypes' /\ Scheduling' /\ TrapStacks'
  <2>1. pid \in Procs \ {idle} /\ s \in {"NONE", "ZOMBIE", "KILLED"}
    BY <1>4, <1>2
  <2>2. /\ state[pid] # "NONE" /\ s # "NONE" /\ state'[pid] = s
        /\ \A p \in Procs : p # pid => state'[p] = state[p]
        /\ sscratch_frame'[pid] = (IF s = "NONE" THEN NoPid ELSE sscratch_frame[pid])
        /\ \A p \in Procs : p # pid => sscratch_frame'[p] = sscratch_frame[p]
    BY <1>4, <1>2, <1>6, <1>8
  <2>3. /\ activatable' \in Seq(Procs) /\ IsInjective(activatable')
        /\ Range(activatable') = Range(activatable) \ {pid}
    BY <1>1, <1>5
  <2> QED BY <1>1, <1>2, <1>8, <2>1, <2>2, <2>3, Ended
<1>10. \A p \in Procs : p # pid /\ state'[p] \in Alive =>
        /\ state[p] \in Alive /\ context'[p] = context[p]
        /\ sscratch_frame'[p] = sscratch_frame[p]
  BY <1>1, <1>6, <1>8
<1>11. sscratch_frame'[pid] = sscratch_frame[pid] /\ state'[pid] \notin Alive
  BY <1>4, <1>2, <1>6, <1>8 DEF Alive
<1>12. csr.scause # "s_software"
  BY <1>1
<1> QED BY <1>1, <1>2, <1>9, <1>10, <1>11, <1>12, HandlerGoesOn

(* The registers of the supervisor when a system call ends.                *)
LEMMA EndedCall ==
  ASSUME csr \in Csr, NEW p \in Procs, csr.sepc = User(p, 0),
         csr' = [csr EXCEPT !.sepc.n = @ + 1, !.spp = FALSE]
  PROVE  /\ csr' \in Csr /\ csr'.sepc = User(p, 1) /\ csr'.spp = FALSE
         /\ csr'.sscratch = csr.sscratch /\ csr'.satp = csr.satp
         /\ csr'.sie = csr.sie /\ csr'.ssip = csr.ssip
         /\ csr'.mscratch = csr.mscratch /\ csr'.enabled = csr.enabled
<1>1. [csr.sepc EXCEPT !.n = csr.sepc.n + 1] = User(p, 1)
  BY SMTT(30) DEF User
<1>2. csr' = [csr EXCEPT !.sepc = [csr.sepc EXCEPT !.n = csr.sepc.n + 1], !.spp = FALSE]
  OBVIOUS
<1>3. csr' = [csr EXCEPT !.sepc = User(p, 1), !.spp = FALSE]
  BY <1>1, <1>2
<1>4. User(p, 1) \in Address
  BY AddressFacts
<1>5. csr' \in Csr
  BY <1>3, <1>4 DEF Csr
<1>6. csr'.sepc = User(p, 1) /\ csr'.spp = FALSE
  <2>1. csr'.sepc = User(p, 1)
    BY <1>3 DEF Csr
  <2>2. csr'.spp = FALSE
    BY <1>3 DEF Csr
  <2> QED BY <2>1, <2>2
<1>7. /\ csr'.sscratch = csr.sscratch /\ csr'.satp = csr.satp
      /\ csr'.sie = csr.sie /\ csr'.ssip = csr.ssip
      /\ csr'.mscratch = csr.mscratch /\ csr'.enabled = csr.enabled
  BY <1>3 DEF Csr
<1> QED BY <1>5, <1>6, <1>7

(* The result of the call goes to the trap frame, and the program will go  *)
(* on behind its ecall.                                                    *)
LEMMA EcallEndInv ==
  ASSUME TrapsIInv, ecall_end
  PROVE  TrapsIInv'
<1> DEFINE s0 == hart.sp.stack
           stk == mem[s0]
           item == [stk[1] EXCEPT !.a0 = Result(pid)]
           new == [stk EXCEPT ![1] = item]
           o == own[pid]
<1>1. /\ At("ecall_end")
      /\ mem' = [mem EXCEPT ![s0][hart.sp.depth].a0 = Result(pid)]
      /\ own' = [own EXCEPT ![pid].a0 = Result(pid)]
      /\ csr' = [csr EXCEPT !.sepc.n = @ + 1, !.spp = FALSE]
      /\ hart' = Goto(hart, "strap_exit")
      /\ UNCHANGED <<virt, timer, first_call, counter, processes, context>>
  BY DEF ecall_end, devices
<1>2. /\ "ecall_end" \in HandlerCode /\ "ecall_end" \in Label /\ "strap_exit" \in Label
      /\ "ecall_end" \notin StartUpCode \cup {"mtrap_handler", "mtrap_exit", "user"}
  BY DEF HandlerCode, Label, StartUpCode
<1>3. pid # NoPid
  <2> SUFFICES ASSUME pid = NoPid PROVE FALSE
    OBVIOUS
  <2>1. InFirstTrap(hart) /\ hart.pc.at = "ecall_end"
    BY <1>1, <1>2, FirstTrapFacts
  <2> QED BY <2>1 DEF InFirstTrap
<1>4. /\ pid \in Procs /\ s0 = TrapStack(sscratch_frame[pid]) /\ s0 \in Stacks
      /\ StackOf(pid) = stk /\ hart.sp.depth = Len(stk) /\ stk \in Seq(StackItem)
      /\ ReturnsFrom("ecall_end", stk)
      /\ OnTrapStack(pid, Snapshot(hart), sscratch_frame[pid], stk)
      /\ state[pid] \in Alive =>
           Remembers(pid, Snapshot(hart), stk, csr.scause, own[pid])
      /\ state[pid] = "ACTIF" /\ ~csr.ssip /\ (csr.sie => virt)
  BY <1>1, <1>2, <1>3, KernelStack
<1>5. hart.mode = "S" /\ hart.pc.at = "ecall_end"
  BY <1>1, <1>2, Supervisor
<1>6. Len(stk) = 1 /\ stk[1] \in StackItem
  <2>1. Len(stk) = 1
    BY <1>4 DEF ReturnsFrom
  <2> QED BY <1>4, <2>1, StackElement, SMTT(30)
<1>7. /\ csr.sscratch = Base(UserStack(pid)) /\ csr.satp = pid
      /\ hart.sreg = o.sreg /\ stk[1].gpr = o.gpr
      /\ csr.sepc = User(pid, 0) /\ o.n = 1
  <2>1. InSystemCall(hart.pc.at, stk, csr.scause)
    BY <1>5 DEF InSystemCall
  <2>2. Remembers(pid, Snapshot(hart), stk, csr.scause, own[pid])
    BY <1>4 DEF Alive
  <2> QED BY <1>4, <2>1, <2>2 DEF Remembers, OnTrapStack, Snapshot
<1>8. /\ hart \in Hart /\ csr \in Csr /\ mem \in [Stacks -> Seq(StackItem)]
      /\ own \in [Procs -> [n : Nat, gpr : Register, a0 : Register, sreg : Register]]
      /\ Result(pid) \in Register
  BY <1>4, RegisterFacts DEF TrapsIInv, HartTypes, ProcTypes
<1>9. /\ item \in StackItem /\ item.gpr = stk[1].gpr /\ item.a0 = Result(pid)
  <2>1. item \in StackItem
    BY <1>6, <1>8 DEF StackItem
  <2> QED BY <1>6, <2>1 DEF StackItem
<1>10. mem' = [mem EXCEPT ![s0] = new]
  <2>1. mem' = [mem EXCEPT ![s0] = [stk EXCEPT ![hart.sp.depth] =
                                      [stk[hart.sp.depth] EXCEPT !.a0 = Result(pid)]]]
    BY <1>1
  <2>2. hart.sp.depth = 1
    BY <1>4, <1>6
  <2> QED BY <2>1, <2>2
<1> HIDE DEF item
<1>11. new \in Seq(StackItem) /\ Len(new) = 1 /\ new[1] = item
  BY <1>4, <1>6, <1>9, SMTT(30)
<1> HIDE DEF stk, new
<1>12. /\ mem' \in [Stacks -> Seq(StackItem)] /\ mem'[s0] = new
       /\ \A s \in Stacks : s # s0 => mem'[s] = mem[s]
  BY <1>4, <1>8, <1>10, <1>11
<1>13. /\ own' \in [Procs -> [n : Nat, gpr : Register, a0 : Register, sreg : Register]]
       /\ \A p \in Procs : p # pid => own'[p] = own[p]
       /\ own'[pid].n = o.n /\ own'[pid].gpr = o.gpr /\ own'[pid].sreg = o.sreg
       /\ own'[pid].a0 = Result(pid)
  <2> DEFINE u == [o EXCEPT !.a0 = Result(pid)]
  <2>1. o \in [n : Nat, gpr : Register, a0 : Register, sreg : Register]
    BY <1>4, <1>8
  <2>2. own' = [own EXCEPT ![pid] = u]
    BY <1>1
  <2> HIDE DEF o
  <2>3. u \in [n : Nat, gpr : Register, a0 : Register, sreg : Register]
    BY <1>8, <2>1
  <2>4. u.n = o.n /\ u.gpr = o.gpr /\ u.sreg = o.sreg /\ u.a0 = Result(pid)
    BY <2>1
  <2> HIDE DEF u
  <2> QED BY <1>4, <1>8, <2>2, <2>3, <2>4
<1>14. /\ csr' \in Csr /\ csr'.sepc = User(pid, 1) /\ csr'.spp = FALSE
       /\ csr'.sscratch = csr.sscratch /\ csr'.satp = csr.satp
       /\ csr'.sie = csr.sie /\ csr'.ssip = csr.ssip
       /\ csr'.mscratch = csr.mscratch /\ csr'.enabled = csr.enabled
  BY <1>1, <1>4, <1>7, <1>8, EndedCall
<1>15. /\ hart' \in Hart /\ hart'.pc = Kernel("strap_exit") /\ hart'.pc.at = "strap_exit"
       /\ hart'.sp = hart.sp /\ hart'.mode = "S" /\ hart'.sreg = hart.sreg
  BY <1>1, <1>2, <1>5, <1>8, GotoHart
<1>16. /\ pid' = pid /\ state' = state /\ sscratch_frame' = sscratch_frame
       /\ virt' = virt /\ UNCHANGED <<timer, first_call, counter>>
  BY <1>1 DEF processes
<1>17. StackOf(pid)' = new
  BY <1>4, <1>12, <1>16 DEF StackOf
<1>18. OnTrapStack(pid, Snapshot(hart), sscratch_frame[pid], StackOf(pid))'
  <2>1. ReturnsFrom("strap_exit", new)
    BY <1>11 DEF ReturnsFrom
  <2> QED BY <1>4, <1>6, <1>7, <1>11, <1>14, <1>15, <1>16, <1>17, <2>1
          DEF OnTrapStack, Snapshot
<1>19. Remembers(pid, Snapshot(hart), StackOf(pid), csr.scause, own[pid])'
  <2>1. ~InSystemCall("strap_exit", new, csr'.scause)
    BY DEF InSystemCall
  <2> QED BY <1>7, <1>9, <1>11, <1>13, <1>14, <1>15, <1>16, <1>17, <2>1
          DEF Remembers, Snapshot
<1>20. InKernel(hart)'
  BY <1>4, <1>14, <1>15, <1>16, <1>18, <1>19 DEF InKernel
<1>21. HartTypes' /\ DeviceTypes'
  BY <1>12, <1>14, <1>15, <1>16 DEF TrapsIInv, HartTypes, DeviceTypes
<1>22. /\ hart'.mode # "M"
       /\ hart'.pc.at \notin StartUpCode \cup {"mtrap_handler", "mtrap_exit"}
       /\ \A s \in Stacks : s # TrapStack(sscratch_frame[pid]) => mem'[s] = mem[s]
       /\ csr'.ssip => csr.ssip
  BY <1>4, <1>12, <1>14, <1>15 DEF StartUpCode
<1> QED BY <1>1, <1>2, <1>3, <1>13, <1>14, <1>20, <1>21, <1>22, KernelGoesOn
------------------------------------------------------------------------------
(* scheduler() and direct_context_swap                                     *)

(* The registers scheduler() leaves to the trap's end.                     *)
LEMMA ToUserModeCsr ==
  ASSUME NEW c \in Csr
  PROVE  /\ ToUserMode(c) \in Csr /\ ~ToUserMode(c).spp
         /\ ToUserMode(c).sscratch = c.sscratch /\ ToUserMode(c).sepc = c.sepc
         /\ ToUserMode(c).satp = c.satp /\ ToUserMode(c).scause = c.scause
         /\ ToUserMode(c).sie = c.sie /\ ToUserMode(c).ssip = c.ssip
         /\ ToUserMode(c).mscratch = c.mscratch
         /\ ToUserMode(c).enabled = c.enabled
<1>1. ToUserMode(c) \in Csr
  <2>1. FALSE \in BOOLEAN
    OBVIOUS
  <2> QED BY <2>1 DEF Csr, ToUserMode
<1> QED BY <1>1 DEF Csr, ToUserMode

(* scheduler() keeps the current process only when it is active.           *)
LEMMA StaysActive ==
  ASSUME TrapsIInv, At("scheduler"), Stays
  PROVE  pid # NoPid /\ pid \in Procs /\ state[pid] = "ACTIF"
<1>1. pid # NoPid
  <2> SUFFICES ASSUME pid = NoPid PROVE FALSE
    OBVIOUS
  <2>1. "scheduler" \in HandlerCode
    BY DEF HandlerCode, Label, StartUpCode
  <2>2. idle \in Range(activatable)
    BY <2>1, FirstTrapFacts DEF InFirstTrap
  <2>3. activatable # << >>
    BY <2>2, SMTT(30) DEF Range
  <2>4. CurrentState = "NONE"
    BY DEF CurrentState
  <2> QED BY <2>3, <2>4 DEF Stays, queue_empty
<1>2. pid \in Procs
  BY <1>1 DEF TrapsIInv, ProcTypes, ProcId
<1>3. CASE activatable = << >>
  <2>1. idle \notin Range(activatable)
    BY <1>3, SMTT(30) DEF Range
  <2> QED BY <1>1, <1>2, <2>1 DEF TrapsIInv, Scheduling
<1>4. CASE activatable # << >>
  BY <1>1, <1>2, <1>4 DEF Stays, queue_empty, CurrentState
<1> QED BY <1>1, <1>2, <1>3, <1>4

(* The current process keeps the processor; the dead ones are freed.       *)
LEMMA StaysInv ==
  ASSUME TrapsIInv, scheduler_stays
  PROVE  TrapsIInv'
<1> DEFINE s0 == hart.sp.stack
           stk == mem[s0]
           d == hart.sp.depth
           to == stk[d].to
           States == {"NONE", "ACTIVATABLE", "ACTIF", "BLOCKED", "ZOMBIE", "KILLED"}
<1>1. /\ At("scheduler") /\ Stays /\ Freed(dead, state) /\ dead' = {}
      /\ csr' = ToUserMode(csr) /\ Return
      /\ UNCHANGED <<virt, timer, first_call, counter, pid, activatable, context, own>>
  BY DEF scheduler_stays, devices
<1>2. pid # NoPid /\ pid \in Procs /\ state[pid] = "ACTIF"
  BY <1>1, StaysActive
<1>3. "scheduler" \in HandlerCode /\ "scheduler" \in Label
  BY DEF HandlerCode, Label, StartUpCode
<1>4. /\ s0 = TrapStack(sscratch_frame[pid]) /\ s0 \in Stacks
      /\ StackOf(pid) = stk /\ d = Len(stk) /\ stk \in Seq(StackItem)
      /\ ReturnsFrom("scheduler", stk)
      /\ OnTrapStack(pid, Snapshot(hart), sscratch_frame[pid], StackOf(pid))
      /\ Remembers(pid, Snapshot(hart), StackOf(pid), csr.scause, own[pid])
      /\ ~csr.ssip /\ (csr.sie => virt)
  BY <1>1, <1>2, <1>3, KernelStack DEF Alive
<1>5. ~InMachineTrap /\ hart.mode = "S" /\ hart.pc.at = "scheduler"
  BY <1>1, <1>3, Supervisor DEF StartUpCode
<1>6. HartTypes /\ ProcTypes /\ csr \in Csr
  BY DEF TrapsIInv, HartTypes
<1>7. /\ csr' \in Csr /\ ~csr'.spp
      /\ csr'.sscratch = csr.sscratch /\ csr'.sepc = csr.sepc
      /\ csr'.satp = csr.satp /\ csr'.scause = csr.scause
      /\ csr'.sie = csr.sie /\ csr'.ssip = csr.ssip
      /\ csr'.mscratch = csr.mscratch /\ csr'.enabled = csr.enabled
  BY <1>1, <1>6, ToUserModeCsr
<1>8. d \in {2, 3} /\ d \in 1..Len(stk)
  BY <1>4, SMTT(30) DEF ReturnsFrom
<1>9. /\ hart' \in Hart /\ hart'.pc = Kernel(to) /\ hart'.pc.at = to
      /\ hart'.mode = "S" /\ hart'.sreg = hart.sreg
      /\ hart'.sp.stack = s0 /\ hart'.sp.depth = d - 1
      /\ mem' \in [Stacks -> Seq(StackItem)]
      /\ \A s \in Stacks : s # s0 => mem'[s] = mem[s]
      /\ Len(mem'[s0]) = d - 1
      /\ \A i \in 1..d - 1 : mem'[s0][i] = stk[i]
  BY <1>1, <1>5, <1>6, <1>8, Returned
<1> HIDE DEF s0, stk, d, to
<1>10. /\ mem'[s0][1] = stk[1] /\ to \in {"ecall_end", "strap_exit", "stimer_end"}
       /\ ReturnsFrom(to, mem'[s0])
       /\ InSystemCall(to, mem'[s0], csr.scause)
            <=> InSystemCall("scheduler", stk, csr.scause)
  <2>1. CASE d = 2
    BY <1>4, <1>9, <2>1, SMTT(30) DEF ReturnsFrom, InSystemCall, to
  <2>2. CASE d = 3
    BY <1>4, <1>9, <2>2, SMTT(30) DEF ReturnsFrom, InSystemCall, to
  <2> QED BY <1>8, <2>1, <2>2
<1>11. /\ state' \in [Procs -> States] /\ dead \subseteq Procs /\ pid \notin dead
       /\ sscratch_frame' \in [Procs -> Frames \cup {NoPid}]
       /\ \A p \in dead : state[p] = "KILLED"
       /\ \A p \in dead : state'[p] = "NONE" /\ sscratch_frame'[p] = NoPid
       /\ \A p \in Procs : p \notin dead =>
            state'[p] = state[p] /\ sscratch_frame'[p] = sscratch_frame[p]
  BY <1>1, <1>2, <1>6 DEF TrapsIInv, Scheduling, ProcTypes, Freed
<1>12. ProcTypes'
  BY <1>1, <1>6, <1>11 DEF ProcTypes
<1>13. Scheduling'
  BY <1>1, <1>2, <1>11, TrapsAssumption, SMTT(30) DEF TrapsIInv, Scheduling
<1>14. TrapStacks'
  BY <1>11, SMTT(30) DEF TrapsIInv, TrapStacks
<1>15. Saved'
  <2> SUFFICES ASSUME NEW p \in Procs, p # pid, state'[p] \in Alive
               PROVE  Resumable(p, context[p], sscratch_frame[p], StackOf(p), own[p])'
    BY <1>1 DEF Saved
  <2>1. /\ state[p] \in Alive /\ sscratch_frame'[p] = sscratch_frame[p]
        /\ context'[p] = context[p] /\ own'[p] = own[p]
    BY <1>1, <1>11 DEF Alive
  <2>2. pid # NoPid /\ s0 = TrapStack(sscratch_frame[pid])
    BY <1>2, <1>4
  <2>3. \A s \in Stacks : s # s0 => mem'[s] = mem[s]
    BY <1>9
  <2> QED BY <2>1, <2>2, <2>3, SavedKept
<1>16. /\ pid' = pid /\ state'[pid] = "ACTIF"
       /\ sscratch_frame'[pid] = sscratch_frame[pid]
  BY <1>1, <1>2, <1>11
<1>17. StackOf(pid)' = mem'[s0]
  BY <1>4, <1>16 DEF StackOf
<1>18. /\ OnTrapStack(pid, Snapshot(hart), sscratch_frame[pid], StackOf(pid))'
       /\ state'[pid'] \in Alive =>
            Remembers(pid, Snapshot(hart), StackOf(pid), csr.scause, own[pid])'
  <2>1. /\ hart'.sp.stack = hart.sp.stack /\ hart'.sp.depth = Len(StackOf(pid)')
        /\ ReturnsFrom(hart'.pc.at, StackOf(pid)')
        /\ StackOf(pid)'[1] = StackOf(pid)[1] /\ own'[pid] = own[pid]
    BY <1>1, <1>4, <1>9, <1>10, <1>17 DEF s0
  <2>2. InSystemCall(hart'.pc.at, StackOf(pid)', csr'.scause)
          <=> InSystemCall(hart.pc.at, StackOf(pid), csr.scause)
    BY <1>4, <1>5, <1>7, <1>9, <1>10, <1>17
  <2> QED BY <1>4, <1>7, <1>9, <1>16, <2>1, <2>2, PlaceKept
<1>19. InKernel(hart)'
  BY <1>1, <1>4, <1>7, <1>9, <1>10, <1>16, <1>18 DEF InKernel
<1>20. Where(hart)'
  BY <1>2, <1>16, <1>19 DEF Where
<1>21. HartTypes' /\ DeviceTypes'
  <2>1. UNCHANGED <<virt, timer, first_call, counter>>
    BY <1>1
  <2> QED BY <1>7, <1>9, <2>1 DEF TrapsIInv, HartTypes, DeviceTypes
<1>22. /\ hart'.mode # "M"
       /\ hart'.pc.at \notin StartUpCode \cup {"mtrap_handler", "mtrap_exit"}
  BY <1>9, <1>10 DEF StartUpCode
<1>23. virt /\ pid' # NoPid => ~first_call
  BY <1>16 DEF TrapsIInv, Machine
<1> QED BY <1>1, <1>5, <1>7, <1>12, <1>13, <1>14, <1>15, <1>20, <1>21, <1>22, <1>23,
           Assembled

(* The hart and the registers of the supervisor that direct_context_swap   *)
(* loads from the context new.                                             *)
Swapped(h, new) == [Goto(h, new.ra) EXCEPT !.sp = new.sp, !.sreg = new.sreg]
SwappedCsr(c, new) ==
  [c EXCEPT !.sscratch = new.sscratch, !.sepc = new.sepc, !.satp = new.satp]

(* The hart after direct_context_swap.                                     *)
LEMMA SwappedHart ==
  ASSUME NEW h \in Hart, NEW C \in Context
  PROVE  /\ Swapped(h, C) \in Hart /\ Swapped(h, C).pc = Kernel(C.ra)
         /\ Swapped(h, C).pc.at = C.ra /\ Swapped(h, C).mode = h.mode
         /\ Swapped(h, C).sp = C.sp /\ Swapped(h, C).sreg = C.sreg
<1> DEFINE g == Goto(h, C.ra)
<1>1. C.ra \in Label /\ C.sp \in Pointer /\ C.sreg \in Register
  BY DEF Context
<1>2. /\ g \in Hart /\ g.pc = Kernel(C.ra) /\ g.pc.at = C.ra /\ g.mode = h.mode
  BY <1>1, GotoHart
<1>3. Swapped(h, C) = [g EXCEPT !.sp = C.sp, !.sreg = C.sreg]
  BY DEF Swapped
<1> HIDE DEF g
<1>4. Swapped(h, C) \in Hart
  BY <1>1, <1>2, <1>3 DEF Hart
<1>5. /\ Swapped(h, C).pc = g.pc /\ Swapped(h, C).mode = g.mode
      /\ Swapped(h, C).sp = C.sp /\ Swapped(h, C).sreg = C.sreg
  BY <1>2, <1>3 DEF Hart
<1> QED BY <1>2, <1>4, <1>5

(* Its registers of the supervisor.                                        *)
LEMMA SwappedRegisters ==
  ASSUME NEW c \in Csr, NEW C \in Context
  PROVE  /\ SwappedCsr(c, C) \in Csr
         /\ SwappedCsr(c, C).sscratch = C.sscratch /\ SwappedCsr(c, C).sepc = C.sepc
         /\ SwappedCsr(c, C).satp = C.satp
         /\ SwappedCsr(c, C).spp = c.spp /\ SwappedCsr(c, C).sie = c.sie
         /\ SwappedCsr(c, C).ssip = c.ssip /\ SwappedCsr(c, C).mscratch = c.mscratch
         /\ SwappedCsr(c, C).enabled = c.enabled
<1>1. C.sscratch \in Pointer /\ C.sepc \in Address /\ C.satp \in ProcId
  BY DEF Context
<1>2. SwappedCsr(c, C) \in Csr
  BY <1>1 DEF Csr, SwappedCsr
<1> QED BY <1>2 DEF Csr, SwappedCsr

(* What context_switch saves of the current process, if that lives, is     *)
(* what it resumes from.                                                   *)
LEMMA SavedCurrent ==
  ASSUME TrapsIInv, At("scheduler")
  PROVE  /\ SavedContext \in Context
         /\ pid # NoPid /\ state[pid] \in Alive =>
              Resumable(pid, SavedContext, sscratch_frame[pid], StackOf(pid), own[pid])
<1>1. SavedContext \in Context
  <2>1. /\ hart.sp \in Pointer /\ hart.sreg \in Register /\ csr.sscratch \in Pointer
        /\ csr.sepc \in Address /\ csr.satp \in ProcId /\ "scheduler_end" \in Label
    BY DEF TrapsIInv, HartTypes, Hart, Csr, Label
  <2> QED BY <2>1 DEF SavedContext, Context
<1>2. ASSUME pid # NoPid, state[pid] \in Alive
      PROVE  Resumable(pid, SavedContext, sscratch_frame[pid], StackOf(pid), own[pid])
  <2> DEFINE stk == StackOf(pid)
  <2>1. "scheduler" \in HandlerCode /\ "scheduler" \in Label
    BY DEF HandlerCode, Label, StartUpCode
  <2>2. /\ OnTrapStack(pid, Snapshot(hart), sscratch_frame[pid], stk)
        /\ Remembers(pid, Snapshot(hart), stk, csr.scause, own[pid])
    BY <1>2, <2>1, KernelStack
  <2>3. hart.pc.at = "scheduler"
    BY <2>1, Supervisor DEF StartUpCode
  <2> HIDE DEF stk
  <2>4. ReturnsFrom("scheduler", stk) => ReturnsFrom("scheduler_end", stk)
    BY DEF ReturnsFrom
  <2>5. InSystemCall("scheduler", stk, csr.scause)
          <=> InSystemCall("scheduler_end", stk, "none")
    BY DEF InSystemCall
  <2>6. OnTrapStack(pid, SavedContext, sscratch_frame[pid], stk)
    BY <2>2, <2>3, <2>4 DEF OnTrapStack, Snapshot, SavedContext
  <2>7. Remembers(pid, SavedContext, stk, "none", own[pid])
    BY <2>2, <2>3, <2>5 DEF Remembers, Snapshot, SavedContext
  <2> QED BY <2>6, <2>7 DEF Resumable, SavedContext, stk
<1> QED BY <1>1, <1>2

(* The process that takes over finds itself where it left off.             *)
LEMMA TakesOver ==
  ASSUME NEW p \in Procs, NEW C \in Context, pid' = p, state'[p] = "ACTIF",
         Resumable(p, C, sscratch_frame[p], StackOf(p), own[p]),
         sscratch_frame'[p] = sscratch_frame[p], mem' = mem, own' = own,
         hart'.mode = "S", hart'.pc = Kernel(C.ra), hart'.pc.at = C.ra,
         hart'.sp = C.sp, hart'.sreg = C.sreg,
         csr'.sscratch = C.sscratch, csr'.sepc = C.sepc, csr'.satp = C.satp,
         ~csr'.spp, csr'.sie => virt', ~csr'.ssip
  PROVE  InKernel(hart)'
<1> DEFINE stk == StackOf(p)
<1>1. StackOf(pid)' = stk
  BY DEF StackOf
<1>2. C.ra \in {"process_call_wrapper_user", "scheduler_end"}
  BY DEF Resumable, NotRunYet
<1>3. CASE NotRunYet(p, C, sscratch_frame[p])
  <2>1. NotRunYet(pid, Snapshot(hart), sscratch_frame[pid])'
    BY <1>3 DEF NotRunYet, Snapshot
  <2> QED BY <1>2, <2>1 DEF InKernel
<1>4. CASE /\ C.ra = "scheduler_end"
           /\ OnTrapStack(p, C, sscratch_frame[p], stk)
           /\ Remembers(p, C, stk, "none", own[p])
  <2> HIDE DEF stk
  <2>1. OnTrapStack(pid, Snapshot(hart), sscratch_frame[pid], StackOf(pid))'
    BY <1>1, <1>4 DEF OnTrapStack, Snapshot
  <2>2. InSystemCall("scheduler_end", stk, csr'.scause)
          <=> InSystemCall("scheduler_end", stk, "none")
    BY DEF InSystemCall
  <2>3. Remembers(pid, Snapshot(hart), StackOf(pid), csr.scause, own[pid])'
    BY <1>1, <1>4, <2>2 DEF Remembers, Snapshot
  <2> QED BY <1>2, <2>1, <2>3 DEF InKernel
<1> QED BY <1>3, <1>4 DEF Resumable
==============================================================================
