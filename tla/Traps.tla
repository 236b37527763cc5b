-------------------------------- MODULE Traps --------------------------------
(***************************************************************************)
(* One hart from reset to the processes it runs: start-up code, the two    *)
(* trap paths (machine and supervisor), the timer on both machines the     *)
(* kernel is built for, system call entry and exit, and context_switch.    *)
(*                                                                         *)
(* Registers are abstracted to groups that travel together.  A stack is a  *)
(* sequence of what was pushed on it (trap frames and return addresses);   *)
(* a stack pointer is the stack and its depth.  What system calls do to    *)
(* processes is abstracted to what makes scheduler switch: they block,     *)
(* wake, start, kill and reap (the modules Process to SharedPages have the *)
(* details).  Faults of the kernel's own code are left out.                *)
(***************************************************************************)
EXTENDS PrioQueue, FiniteSets

CONSTANTS
  Procs,     \* the processes that may exist, idle among them
  idle,
  shell,     \* the process start-up creates beside idle
  Frames,    \* page frames get_frame hands out as trap stacks
  NoPid,     \* getpid() before the first process runs
  KeysPerTick, \* characters that may arrive in a timer period
  Wrap       \* the 64-bit tick counter counts modulo Wrap

\* Start-up makes two processes, each with a trap stack.
ASSUME TrapsAssumption ==
  /\ idle \in Procs /\ shell \in Procs /\ idle # shell
  /\ NoPid \notin Procs \cup Frames
  /\ \E f, g \in Frames : f # g
  /\ Wrap \in Nat \ {0} /\ KeysPerTick \in Nat

VARIABLES
  virt,        \* compiled with VIRTMACHINE
  hart,        \* mode, pc, sp, and the registers gpr (caller-saved but a0),
               \* a0 and sreg (callee-saved)
  csr,         \* control and status registers
  mem,         \* contents of every stack
  timer,       \* comparator: armed, and due (mtime >= mtimecmp)
  keyboard,    \* the uart and the interrupt controller.  pending: a
               \* character waits; left: characters that may still arrive
               \* in this timer period; ie: the uart asks for an interrupt;
               \* plic: the registers of the controller
  first_call, counter,
  pid, state, activatable, dead, context, sscratch_frame,
  own,         \* ghost: what each process should find in its registers
  ticks        \* ghost: timer interrupts the hart has taken, modulo Wrap

vars == <<virt, hart, csr, mem, timer, keyboard, first_call, counter, pid,
          state, activatable, dead, context, sscratch_frame, own, ticks>>

processes == <<pid, state, activatable, dead, sscratch_frame>>
devices   == <<timer, keyboard, first_call, counter, ticks>>

Main == NoPid
prio == [p \in Procs |-> IF p = idle THEN 1 ELSE 2]

Kernel(label) == [at |-> label, of |-> NoPid, n |-> 0]
User(p, n)    == [at |-> "user", of |-> p, n |-> n]

\* Register contents: the process they belong to and what they are.  Values
\* nothing will read any more are forgotten (Junk, Nowhere, NoContext).
Junk == <<NoPid, "junk">>
Data(p)     == <<p, "data">>
Argument(p) == <<p, "argument">>
Result(p)   == <<p, "result">>
Nowhere == Kernel("none")

UserStack(p) == <<"user", p>>
TrapStack(f) == <<"trap", f>>
BootStack    == <<"boot", NoPid>>     \* stacks
MtrapStack   == <<"mtrap", NoPid>>    \* mtrap_stacks
StrapStack   == <<"strap", NoPid>>    \* strap_stacks
Stacks == {UserStack(p) : p \in Procs} \cup {TrapStack(f) : f \in Frames}
            \cup {BootStack, MtrapStack, StrapStack}

Base(stack) == [stack |-> stack, depth |-> 0]
Deeper(sp)  == [sp EXCEPT !.depth = @ + 1]
Above(sp)   == [sp EXCEPT !.depth = @ - 1]
Pushed(m, sp, item) ==
  [m EXCEPT ![sp.stack] = Append(SubSeq(@, 1, sp.depth), item)]
Popped(m, sp) == [m EXCEPT ![sp.stack] = SubSeq(@, 1, sp.depth - 1)]
Item(sp) == mem[sp.stack][sp.depth]

ReturnAddress(label) == [to |-> label, gpr |-> Junk, a0 |-> Junk]
TrapFrame(h) == [to |-> "frame", gpr |-> h.gpr, a0 |-> h.a0]

NoContext == [sp |-> Base(BootStack), ra |-> "none", sreg |-> Junk,
              sscratch |-> Base(StrapStack), sepc |-> Nowhere,
              satp |-> NoPid]

\* The priority of the source the uart is, and the sources that the
\* controller passes on to the supervisor.
PlicAtReset == [uart |-> 0, enabled |-> {}]

Init ==
  /\ virt \in BOOLEAN
  /\ hart = [mode |-> "M", pc |-> Kernel("_start"), sp |-> Base(BootStack),
             gpr |-> Junk, a0 |-> Junk, sreg |-> Junk]
  /\ csr = [sscratch |-> Base(BootStack), sepc |-> Nowhere, satp |-> NoPid,
            scause |-> "none", spp |-> FALSE, spie |-> FALSE, sie |-> FALSE,
            enabled |-> {}, delegated |-> FALSE, ssip |-> FALSE,
            mscratch |-> Base(BootStack), mepc |-> Nowhere, mpp |-> "U"]
  /\ mem = [s \in Stacks |-> << >>]
  /\ timer = [armed |-> FALSE, due |-> FALSE]
  /\ keyboard = [pending |-> FALSE, left |-> KeysPerTick, ie |-> FALSE,
                 plic |-> PlicAtReset]
  /\ first_call = TRUE /\ counter = 0 /\ ticks = 0
  /\ pid = NoPid
  /\ state = [p \in Procs |-> "NONE"]
  /\ activatable = << >> /\ dead = {}
  /\ context = [p \in Procs \cup {Main} |-> NoContext]
  /\ sscratch_frame \in [Procs -> {NoPid}]
  /\ own = [p \in Procs |-> [n |-> 0, gpr |-> Junk, a0 |-> Junk, sreg |-> Junk]]
------------------------------------------------------------------------------
(* Start-up: crtm.S, boot.c, start.c *)

At(label) == hart.pc = Kernel(label)
Goto(h, label) == [h EXCEPT !.pc = Kernel(label)]

\* The trap vectors and the three stacks of hart 0; the others park.
_start ==
  /\ At("_start")
  /\ hart' = [Goto(hart, "boot_riscv") EXCEPT !.sp = Base(BootStack)]
  /\ csr' = [csr EXCEPT !.mscratch = Base(MtrapStack),
                        !.sscratch = Base(StrapStack)]
  /\ UNCHANGED <<virt, mem, devices, processes, context, own>>

delegate_traps(c) == [c EXCEPT !.delegated = TRUE]

cep_uart_init(k) == [k EXCEPT !.ie = TRUE]
cep_plic_init == [uart |-> 1, enabled |-> {"uart", "virtio"}]

\* ns16550a_init sets the speed and the format only.
ns16550a_init(k) == k

\* The sources to pass on are written to address VIRT_PLIC_ENABLE_OFFSET,
\* which is not in the controller: none is enabled.
virt_plic_init == [PlicAtReset EXCEPT !.uart = 1]

arch_setup_cep(k)  == [cep_uart_init(k) EXCEPT !.plic = cep_plic_init]
arch_setup_virt(k) == [ns16550a_init(k) EXCEPT !.plic = virt_plic_init]

\* mie and sie together: which interrupts reach the hart at all.
EnabledInterrupts(v) == IF v THEN {"m_timer", "s_timer", "s_software"}
                        ELSE {"s_timer", "s_external"}

\* On cep the first timer interrupt is made pending by hand.
boot_riscv ==
  /\ At("boot_riscv")
  /\ keyboard' = IF virt THEN arch_setup_virt(keyboard) ELSE arch_setup_cep(keyboard)
  /\ csr' = [delegate_traps(csr) EXCEPT !.enabled = EnabledInterrupts(virt)]
  /\ timer' = [timer EXCEPT !.due = ~virt]
  /\ hart' = Goto(hart, "enter_supervisor_mode")
  /\ UNCHANGED <<virt, mem, first_call, counter, ticks, processes,
                 context, own>>

mret(h, c) == [h EXCEPT !.mode = c.mpp, !.pc = c.mepc]
AfterMret(c) == [c EXCEPT !.mpp = "U", !.mepc = Nowhere]

enter_supervisor_mode ==
  /\ At("enter_supervisor_mode")
  /\ LET c == [csr EXCEPT !.mepc = Kernel("kernel_start"), !.mpp = "S"]
     IN /\ hart' = mret(hart, c)
        /\ csr' = AfterMret(c)
  /\ UNCHANGED <<virt, mem, devices, processes, context, own>>

\* Which of the free frames get_frame returns does not matter here.
get_frame(free) == CHOOSE f \in free : TRUE

\* The context start_virtual prepares: process_call_wrapper_user will sret to
\* the program's first instruction.
NewContext(p, f) ==
  [sp |-> Base(UserStack(p)), ra |-> "process_call_wrapper_user",
   sreg |-> Argument(p), sscratch |-> Base(TrapStack(f)), sepc |-> User(p, 0),
   satp |-> p]

\* idle and the shell exist, their order in the queue given by their
\* priorities, before interrupts are let in.
kernel_start ==
  /\ At("kernel_start")
  /\ LET f == get_frame(Frames)
         g == get_frame(Frames \ {f})
     IN /\ context' = [context EXCEPT ![idle] = NewContext(idle, f),
                                      ![shell] = NewContext(shell, g)]
        /\ sscratch_frame' = [sscratch_frame EXCEPT ![idle] = f, ![shell] = g]
  /\ state' = [state EXCEPT ![idle] = "ACTIVATABLE", ![shell] = "ACTIVATABLE"]
  /\ activatable' = queue_add(queue_add(<< >>, idle, prio), shell, prio)
  /\ timer' = IF virt THEN [armed |-> TRUE, due |-> FALSE] ELSE timer
  /\ csr' = [csr EXCEPT !.spp = FALSE, !.sie = TRUE]
  /\ hart' = Goto(hart, "wfi")
  /\ UNCHANGED <<virt, mem, keyboard, first_call, counter, ticks, pid, dead, own>>
------------------------------------------------------------------------------
(* Devices and user programs *)

TimerElapses ==
  /\ timer.armed /\ ~timer.due
  /\ timer' = [timer EXCEPT !.due = TRUE]
  /\ keyboard' = [keyboard EXCEPT !.left = KeysPerTick]
  /\ UNCHANGED <<virt, hart, csr, mem, first_call, counter, ticks, processes,
                 context, own>>

KeyPressed ==
  /\ ~keyboard.pending /\ keyboard.left > 0
  /\ keyboard' = [keyboard EXCEPT !.pending = TRUE, !.left = @ - 1]
  /\ UNCHANGED <<virt, hart, csr, mem, timer, first_call, counter, ticks,
                 processes, context, own>>

\* A program computes, all its registers change, and it comes back to its
\* next system call, at instruction 0.  An interrupt made pending before mret
\* or sret is taken before the first instruction (ssip).  idle only loops.
UserStep ==
  /\ hart.mode = "U" /\ hart.pc.of # idle /\ ~csr.ssip
  /\ LET p == hart.pc.of
         d == Data(p)
     IN /\ hart' = [hart EXCEPT !.pc = User(p, 0), !.gpr = d, !.a0 = d, !.sreg = d]
        /\ own' = [own EXCEPT ![p] = [n |-> 0, gpr |-> d, a0 |-> d, sreg |-> d]]
  /\ UNCHANGED <<virt, csr, mem, devices, processes, context>>
------------------------------------------------------------------------------
(* Machine traps: machine_trap_entry.S, machine_trap.c, timer.c *)

TakeTick == ticks' = (ticks + 1) % Wrap
Rearmed == [armed |-> TRUE, due |-> FALSE]

\* The trap and mtrap_entry: swap sp with mscratch, save the caller's
\* registers.  Below machine mode the interrupt cannot be masked.
mtrap_entry ==
  /\ timer.due /\ "m_timer" \in csr.enabled /\ hart.mode # "M"
  /\ LET sp == csr.mscratch IN
     /\ mem' = Pushed(mem, sp, TrapFrame(hart))
     /\ hart' = [Goto(hart, "mtrap_handler")
                   EXCEPT !.mode = "M", !.sp = Deeper(sp), !.gpr = Junk, !.a0 = Junk]
     /\ csr' = [csr EXCEPT !.mscratch = hart.sp, !.mepc = hart.pc,
                           !.mpp = hart.mode]
  /\ TakeTick
  /\ UNCHANGED <<virt, timer, keyboard, first_call, counter, processes,
                 context, own>>

\* The interrupt is passed on as a supervisor software interrupt, except when
\* it interrupted the supervisor: then the tick is dropped.
Forwarded_Always(mpp) == TRUE
Forwarded(mpp) == mpp = "U" \/ first_call

handle_mtimer_interrupt ==
  /\ timer' = Rearmed
  /\ IF Forwarded(csr.mpp)
     THEN first_call' = FALSE /\ csr' = [csr EXCEPT !.ssip = TRUE]
     ELSE UNCHANGED <<first_call, csr>>

mtrap_handler ==
  /\ At("mtrap_handler")
  /\ handle_mtimer_interrupt
  /\ hart' = Goto(hart, "mtrap_exit")
  /\ UNCHANGED <<virt, mem, keyboard, counter, ticks, processes, context, own>>

Restored(h, frame) == [h EXCEPT !.gpr = frame.gpr, !.a0 = frame.a0]

mtrap_exit ==
  /\ At("mtrap_exit")
  /\ hart' = mret([Restored(hart, Item(hart.sp)) EXCEPT !.sp = csr.mscratch], csr)
  /\ csr' = AfterMret([csr EXCEPT !.mscratch = Above(hart.sp)])
  /\ mem' = Popped(mem, hart.sp)
  /\ UNCHANGED <<virt, devices, processes, context, own>>
------------------------------------------------------------------------------
(* Supervisor traps: supervisor_trap_entry.S, supervisor_trap.c, timer.c *)

\* The trap and strap_entry: swap sp with sscratch, save the caller's
\* registers.
strap_entry(cause) ==
  LET sp == csr.sscratch IN
  /\ csr.delegated
  /\ mem' = Pushed(mem, sp, TrapFrame(hart))
  /\ hart' = [Goto(hart, "strap_handler")
                EXCEPT !.mode = "S", !.sp = Deeper(sp), !.gpr = Junk, !.a0 = Junk]
  /\ csr' = [csr EXCEPT !.sscratch = hart.sp, !.sepc = hart.pc, !.scause = cause,
                        !.spp = (hart.mode = "S"), !.spie = csr.sie, !.sie = FALSE]

\* A source with a priority above the threshold, which is 0, and enabled.
KeyboardInterrupt ==
  /\ keyboard.pending /\ keyboard.ie
  /\ keyboard.plic.uart > 0 /\ "uart" \in keyboard.plic.enabled

Pending ==
  csr.enabled \cap ( (IF timer.due /\ ~virt THEN {"s_timer"} ELSE {})
                     \cup (IF csr.ssip THEN {"s_software"} ELSE {})
                     \cup (IF KeyboardInterrupt THEN {"s_external"} ELSE {}) )

\* External interrupts come before software ones, and those before the timer.
Interrupt(cause) ==
  /\ cause \in Pending
  /\ hart.mode = "U" \/ (hart.mode = "S" /\ csr.sie)
  /\ cause = "s_timer" => Pending = {"s_timer"}
  /\ cause = "s_software" => "s_external" \notin Pending
  /\ strap_entry(cause)
  /\ IF cause = "s_timer" THEN TakeTick ELSE UNCHANGED ticks
  /\ UNCHANGED <<virt, timer, keyboard, first_call, counter, processes,
                 context, own>>

\* A system call, or a page fault, of the running program (never of idle).
Exception(cause) ==
  /\ hart.mode = "U" /\ hart.pc.of # idle /\ hart.pc.n = 0 /\ ~csr.ssip
  /\ strap_entry(cause)
  /\ own' = IF cause = "ecall" THEN [own EXCEPT ![hart.pc.of].n = 1] ELSE own
  /\ UNCHANGED <<virt, devices, processes, context>>

\* A call of the function at label to, which will return to back.
Call(to, back) ==
  /\ mem' = Pushed(mem, hart.sp, ReturnAddress(back))
  /\ hart' = [Goto(hart, to) EXCEPT !.sp = Deeper(@)]

Return ==
  /\ mem' = Popped(mem, hart.sp)
  /\ hart' = [Goto(hart, Item(hart.sp).to) EXCEPT !.sp = Above(@)]

InHandler(cause) == At("strap_handler") /\ csr.scause = cause

\* Once handle_stimer_interrupt returns, the case of software interrupts
\* falls through to the case of timer interrupts.
AfterSoftware == "s_timer"

s_software ==
  /\ InHandler("s_software")
  /\ csr' = [csr EXCEPT !.sie = FALSE, !.ssip = FALSE]
  /\ Call("handle_stimer_interrupt", AfterSoftware)
  /\ UNCHANGED <<virt, devices, processes, context, own>>

s_timer ==
  /\ InHandler("s_timer") \/ At("s_timer")
  /\ Call("handle_stimer_interrupt", "clear_STIP")
  /\ UNCHANGED <<virt, csr, devices, processes, context, own>>

handle_stimer_interrupt ==
  /\ At("handle_stimer_interrupt")
  /\ counter' = (counter + 1) % Wrap
  /\ timer' = IF virt THEN timer ELSE Rearmed
  /\ Call("scheduler", "stimer_end")
  /\ UNCHANGED <<virt, csr, keyboard, first_call, ticks, processes, context, own>>

stimer_end ==
  /\ At("stimer_end")
  /\ csr' = IF virt THEN [csr EXCEPT !.sie = TRUE] ELSE csr
  /\ Return
  /\ UNCHANGED <<virt, devices, processes, context, own>>

\* STIP is the output of the comparator: a supervisor can read it, and its
\* csr_clear(sip, SIP_STIP) changes nothing.
clear_STIP ==
  /\ At("clear_STIP")
  /\ hart' = Goto(hart, "strap_exit")
  /\ UNCHANGED <<virt, csr, mem, devices, processes, context, own>>
------------------------------------------------------------------------------
(* What handlers and system calls do to processes *)

Blocked == {p \in Procs : state[p] = "BLOCKED"}
FreeFrames == Frames \ {sscratch_frame[p] : p \in Procs}

\* q becomes activatable.
Wake(q) ==
  /\ state' = [state EXCEPT ![q] = "ACTIVATABLE"]
  /\ activatable' = queue_add(activatable, q, prio)
  /\ UNCHANGED <<pid, dead, sscratch_frame>>

cep_uart_getchar(k) == [k EXCEPT !.pending = FALSE]

\* handle_keyboard_interrupt reads the character, which withdraws the
\* interrupt; the reader it wakes may preempt.
s_external ==
  /\ InHandler("s_external")
  /\ keyboard' = cep_uart_getchar(keyboard)
  /\ \/ /\ \E q \in Blocked : Wake(q)
        /\ Call("scheduler", "strap_exit")
     \/ /\ hart' = Goto(hart, "strap_exit")
        /\ UNCHANGED <<mem, processes>>
  /\ UNCHANGED <<virt, csr, timer, first_call, counter, ticks, context, own>>

InCall == InHandler("ecall") /\ UNCHANGED <<virt, csr, devices, own>>
Resumes == hart' = Goto(hart, "ecall_end") /\ UNCHANGED mem
Reschedules == Call("scheduler", "ecall_end")
Preempts(q) == IF prio[q] > prio[pid] THEN Reschedules ELSE Resumes

CallReturns == InCall /\ Resumes /\ UNCHANGED <<processes, context>>

CallBlocks ==
  /\ InCall /\ Reschedules
  /\ state' = [state EXCEPT ![pid] = "BLOCKED"]
  /\ UNCHANGED <<pid, activatable, dead, sscratch_frame, context>>

\* A call that wakes a process switches if it is more urgent; signal calls
\* scheduler whatever the priorities, and an equal one takes over too.
CallWakes(q) ==
  /\ InCall /\ q \in Blocked /\ Wake(q)
  /\ Reschedules \/ Preempts(q)
  /\ UNCHANGED context

CallStarts(q) ==
  /\ InCall /\ state[q] = "NONE" /\ FreeFrames # {}
  /\ LET f == get_frame(FreeFrames)
     IN /\ context' = [context EXCEPT ![q] = NewContext(q, f)]
        /\ sscratch_frame' = [sscratch_frame EXCEPT ![q] = f]
  /\ state' = [state EXCEPT ![q] = "ACTIVATABLE"]
  /\ activatable' = queue_add(activatable, q, prio)
  /\ Preempts(q)
  /\ UNCHANGED <<pid, dead>>

\* free_process_memory gives the trap stack back with the rest.
Freed(S, st) ==
  /\ state' = [p \in Procs |-> IF p \in S THEN "NONE" ELSE st[p]]
  /\ sscratch_frame' = [p \in Procs |-> IF p \in S THEN NoPid ELSE sscratch_frame[p]]

\* kill of another process, which is a zombie until its parent waits for it
\* or, without a parent, freed at once.
CallKills(q) ==
  /\ InCall /\ Resumes
  /\ q # idle /\ state[q] \in {"ACTIVATABLE", "BLOCKED"}
  /\ activatable' = IF Linked(activatable, q) THEN queue_del(activatable, q)
                    ELSE activatable
  /\ \/ Freed({}, [state EXCEPT ![q] = "ZOMBIE"])
     \/ Freed({q}, state)
  /\ UNCHANGED <<pid, dead, context>>

CallReaps(q) ==
  /\ InCall /\ Resumes
  /\ state[q] = "ZOMBIE" /\ Freed({q}, state)
  /\ UNCHANGED <<pid, activatable, dead, context>>

\* exit_process: with nobody to wait for it the process is only marked, as
\* it still runs on its trap stack.  A page fault ends the same way.
ExitState_Freed == {"ZOMBIE", "NONE"}
ExitState == {"ZOMBIE", "KILLED"}

exit_process ==
  /\ InHandler("ecall") \/ InHandler("page_fault")
  /\ \E s \in ExitState : Freed(IF s = "NONE" THEN {pid} ELSE {},
                                [state EXCEPT ![pid] = s])
  /\ Call("scheduler", "ecall_end")
  /\ UNCHANGED <<virt, csr, devices, pid, activatable, dead, context, own>>

\* The result goes to the frame strap_entry pushed; sepc moves past the ecall.
ecall_end ==
  /\ At("ecall_end")
  /\ mem' = [mem EXCEPT ![hart.sp.stack][hart.sp.depth].a0 = Result(pid)]
  /\ own' = [own EXCEPT ![pid].a0 = Result(pid)]
  /\ csr' = [csr EXCEPT !.sepc.n = @ + 1, !.spp = FALSE]
  /\ hart' = Goto(hart, "strap_exit")
  /\ UNCHANGED <<virt, devices, processes, context>>

sret(h, c) == [h EXCEPT !.mode = IF c.spp THEN "S" ELSE "U", !.pc = c.sepc]
AfterSret(c) == [c EXCEPT !.sie = c.spie, !.spie = TRUE, !.spp = FALSE,
                          !.sepc = Nowhere, !.scause = "none"]

strap_exit ==
  /\ At("strap_exit")
  /\ hart' = sret([Restored(hart, Item(hart.sp)) EXCEPT !.sp = csr.sscratch], csr)
  /\ csr' = AfterSret([csr EXCEPT !.sscratch = Above(hart.sp)])
  /\ mem' = Popped(mem, hart.sp)
  /\ UNCHANGED <<virt, devices, processes, context, own>>
------------------------------------------------------------------------------
(* scheduler.c, context_switch.S, direct_context_swap.S *)

SavedContext_NoSepc ==
  [sp |-> hart.sp, ra |-> "scheduler_end", sreg |-> hart.sreg,
   sscratch |-> csr.sscratch, sepc |-> Nowhere, satp |-> csr.satp]
SavedContext ==
  [sp |-> hart.sp, ra |-> "scheduler_end", sreg |-> hart.sreg,
   sscratch |-> csr.sscratch, sepc |-> csr.sepc, satp |-> csr.satp]

direct_context_swap(c, new) ==
  /\ hart' = [Goto(hart, new.ra) EXCEPT !.sp = new.sp, !.sreg = new.sreg]
  /\ csr' = [c EXCEPT !.sscratch = new.sscratch, !.sepc = new.sepc,
                      !.satp = new.satp]

context_switch(c, old, new) ==
  /\ context' = [context EXCEPT ![old] = SavedContext, ![new] = NoContext]
  /\ direct_context_swap(c, context[new])

\* scheduler returns to user mode, whatever mode the trap came from.
ToUserMode(c) == [c EXCEPT !.spp = FALSE]

CurrentState == IF pid = NoPid THEN "NONE" ELSE state[pid]

Stays_NoRotation == ~queue_empty(activatable) =>
  CurrentState = "ACTIF" /\ prio[queue_top(activatable)] <= prio[pid]
Stays == ~queue_empty(activatable) =>
           CurrentState = "ACTIF" /\ prio[queue_top(activatable)] < prio[pid]

\* The processes in dead are freed on the way in; the caller is not yet one
\* of them.
scheduler_stays ==
  /\ At("scheduler") /\ Stays
  /\ Freed(dead, state) /\ dead' = {}
  /\ csr' = ToUserMode(csr)
  /\ Return
  /\ UNCHANGED <<virt, devices, pid, activatable, context, own>>

\* The top process takes over; the current one goes to the end of its
\* priority if it is ACTIF, to dead if it is KILLED, and is where it should be
\* otherwise.
scheduler_switches ==
  LET top   == queue_top(activatable)
      rest  == queue_out(activatable)
      swaps == CurrentState = "ACTIF"
      dies  == CurrentState = "KILLED"
      left  == IF swaps THEN [state EXCEPT ![pid] = "ACTIVATABLE"] ELSE state
  IN /\ At("scheduler") /\ ~Stays
     /\ pid' = top
     /\ activatable' = IF swaps THEN queue_add(rest, pid, prio) ELSE rest
     /\ Freed(dead, [left EXCEPT ![top] = "ACTIF"])
     /\ dead' = IF dies THEN {pid} ELSE {}
     /\ IF dies
        THEN direct_context_swap(ToUserMode(csr), context[top]) 
             /\ context' = [context EXCEPT ![top] = NoContext]
        ELSE context_switch(ToUserMode(csr), pid, top)
     /\ UNCHANGED <<virt, mem, devices, own>>

scheduler_end ==
  /\ At("scheduler_end") /\ Return
  /\ UNCHANGED <<virt, csr, devices, processes, context, own>>

\* A process's first entry into user mode.
process_call_wrapper_user ==
  /\ At("process_call_wrapper_user")
  /\ hart' = sret([hart EXCEPT !.a0 = hart.sreg], csr)
  /\ csr' = AfterSret(csr)
  /\ own' = [own EXCEPT ![pid] = [n |-> 0, gpr |-> hart.gpr, a0 |-> Argument(pid),
                                  sreg |-> Argument(pid)]]
  /\ UNCHANGED <<virt, mem, devices, processes, context>>
------------------------------------------------------------------------------
SystemCall ==
  \/ CallReturns
  \/ CallBlocks
  \/ \E q \in Procs : CallWakes(q) \/ CallStarts(q) \/ CallKills(q) \/ CallReaps(q)

KernelCode ==
  \/ _start \/ boot_riscv \/ enter_supervisor_mode \/ kernel_start
  \/ mtrap_handler \/ mtrap_exit
  \/ s_software \/ s_timer \/ s_external
  \/ handle_stimer_interrupt \/ stimer_end \/ clear_STIP
  \/ SystemCall \/ exit_process \/ ecall_end
  \/ scheduler_stays \/ scheduler_switches \/ scheduler_end \/ process_call_wrapper_user \/ strap_exit

Interrupts ==
  \/ mtrap_entry
  \/ \E cause \in {"s_timer", "s_software", "s_external"} : Interrupt(cause)

Next ==
  \/ KernelCode
  \/ Interrupts
  \/ UserStep
  \/ \E cause \in {"ecall", "page_fault"} : Exception(cause)
  \/ TimerElapses
  \/ KeyPressed

Spec == Init /\ [][Next]_vars

\* The hart executes kernel code and takes pending interrupts; time passes.
Fairness == WF_vars(KernelCode) /\ SF_vars(Interrupts) /\ WF_vars(TimerElapses)
FairSpec == Spec /\ Fairness
------------------------------------------------------------------------------
\* Every variable that is not a record of registers has its type.
TypeOK ==
  /\ hart.mode \in {"M", "S", "U"} /\ hart.sp.stack \in Stacks
  /\ counter \in 0..Wrap-1 /\ pid \in Procs \cup {NoPid}
  /\ state \in [Procs -> {"NONE", "ACTIVATABLE", "ACTIF", "BLOCKED", "ZOMBIE",
                          "KILLED"}]
  /\ sscratch_frame \in [Procs -> Frames \cup {NoPid}]

\* Whatever interrupted it (timer, keyboard, its own system call, a machine
\* trap in the middle of any of them, other processes in between), the
\* process in user mode is the current one and finds its program counter, its
\* registers, its stack, its address space and its own trap stack.
OwnContext ==
  TypeOK /\ (hart.mode = "U" =>
    /\ pid \in Procs /\ state[pid] = "ACTIF"
    /\ hart.pc = User(pid, own[pid].n)
    /\ [gpr |-> hart.gpr, a0 |-> hart.a0, sreg |-> hart.sreg]
         = [gpr |-> own[pid].gpr, a0 |-> own[pid].a0, sreg |-> own[pid].sreg]
    /\ hart.sp = Base(UserStack(pid))
    /\ csr.satp = pid
    /\ csr.sscratch = Base(TrapStack(sscratch_frame[pid])))

\* The kernel works on behalf of the current process on that process's trap
\* stack and in its address space, and that stack has not been given back,
\* although exit, kill and wait release the stacks of processes that the
\* kernel was, or still is, running on.
OnOwnTrapStack ==
  hart.mode = "S" /\ pid # NoPid /\ ~At("process_call_wrapper_user") =>
    /\ hart.sp.stack = TrapStack(sscratch_frame[pid])
    /\ csr.satp = pid
    /\ \A q \in Procs \ {pid} : sscratch_frame[q] # sscratch_frame[pid]

\* Supervisor traps do not nest: once processes run, the kernel is entered
\* from user mode only, although handle_stimer_interrupt lets interrupts in
\* while it is still on the trap stack.
NoNestedTrap == At("strap_handler") /\ pid # NoPid => ~csr.spp

\* On cep, a process that is ready to run and whose priority nobody exceeds
\* gets the processor, or is killed: the timer is never lost and preempts
\* whatever runs.
ReadyRuns ==
  \A p \in Procs \ {idle} :
    (~virt /\ state[p] = "ACTIVATABLE") ~> (state[p] # "ACTIVATABLE")

\* current_clock is "the number of interruption since the start of the system"
\* (timer_api.h:15): it does not count an interrupt that has not happened.
ClockNotAhead == counter <= ticks
==============================================================================
