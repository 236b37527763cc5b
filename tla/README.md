# A TLA+ model of the xinul kernel

xinul is a teaching kernel for RISC-V: one hart, preemptive scheduling by
priority, user processes in virtual memory, semaphores, message queues, shared
pages and a console, over a small C library with a heap allocator and a hash
table. The modules beside this file model the parts of it that have state and
that can go wrong in ways a test hardly reaches. TLC checks small instances of
all of them; TLAPS proves the safety properties of the scheduler, of the
processes and of the trap paths, the bits of the page tables and the size
arithmetic of the allocator for every instance.

Paths below are relative to `src/src/`. `PROJECT.json` maps every definition to
the lines it models.

## 1. The parts of the system

| part | code | state it owns | modelled by |
|---|---|---|---|
| priority queue | `lib/include/queue.h` | the links of its elements | `PrioQueue` |
| scheduler, clock, sleeping | `kernel/process/scheduler.c`, `timer_api.c`, `kernel/timer.c` | queues of activatable, sleeping and dead processes, current process, clock | `Scheduler` |
| processes | `kernel/process/process_api.c`, `helperfunc.c` | table of processes, tree of parents and children, pids, count | `Process` |
| semaphores | `kernel/process/semaphore_api.c` | counters, lists of waiters | `Semaphore` |
| message queues | `kernel/msgqueue.c` | ring buffers, queues of blocked senders and receivers | `MsgQueue` |
| console | `kernel/input-output/keyboard.c`, `cons_read.c`, `kernel/drivers/console.c` | ring of characters, echo, queue of readers | `Console` |
| frames, page tables, memory of a process | `kernel/memory/`, `kernel/process/process_memory.c` | list of free frames, page tables | `ProcessMemory`, `Pages` |
| shared pages | `kernel/process/memory_api.c` | table of pages, list of pages and of free places per process | `SharedPages` |
| boot, traps, context switch, timer, interrupt controller | `kernel/boot/`, `kernel/traps/`, `kernel/timer.c`, `kernel/process/*.S` | registers, stacks, status bits | `Traps` |
| heap allocator | `lib/stdlib/malloc.c`, the two `sbrk` | boundary tags, fastbins, bins, top, break | `ChunkSizes`, `Malloc`, `MallocClient` |
| hash table | `lib/hash/hash.c`, `mem_alloc` and `mem_free` | slots, counts, guarded zones | `HashTable` |
| formatting and parsing | `lib/stdio/sprintf.c`, `vprintf.c`, `lib/stdlib/strtol.c` | the buffer | `Format` |
| screen, disk, other drivers, user programs, tests, examples | | | not modelled, see 8 |

The scheduler is at the centre. A process is in at most one queue: activatable,
asleep, dead, blocked on a message queue or blocked on the console. All of
these are queues of `queue.h` linked through the same field of the process
structure. Semaphores keep lists of their own. A call blocks by changing the
state of its process, linking it elsewhere and calling `scheduler()`. Another
process, or an interrupt, makes it activatable again, and the call goes on
where it stopped. `kill` and `chprio` reach into all of these queues.

## 2. How the kernel runs, and how the modules model it

**Atomicity.** A trap (a system call, a clock interrupt, a key) is handled with
interrupts off, from its entry to its return or to the context switch inside
`scheduler()`. A handler is therefore atomic up to a context switch. What is
explored is the order of these pieces. The variable `kpc` says where the
processor is:

- `"user"`: in the program of the current process;
- `"scheduler"`: inside `scheduler()`. Every turn of its two loops is a step,
  and so is the context switch. No other handler is enabled before it returns;
- `"waitpid"`, `"psend"`, `"preceive"`, `"cons_read"`: a blocked call
  goes on after the context switch back to its process. `wait` changes nothing
  after it, and has no such place;
- `"halted"`: an assertion of the kernel has failed, or it has used freed
  memory in a way that may do anything. `Console` also has `"hung"`, a loop
  without end, and `"asserted"`, the assertion of `copy`.

**Undefined behaviour.** A pointer to a freed process structure or list element
has the value `Dangling`. Reading a field through it returns any value; a walk
through it, or a second `free`, halts the model. Husks (process structures left
behind half made by a failed start) have a state of their own, since their
state field was never assigned.

**Integers.** Wake times wrap on 64 bits (`INT64_LIMIT` stands for 2^63) and
semaphore counters on 16 bits (`MAX_COUNT` stands for 32767).

**Queues.** `PrioQueue` takes a queue for the sequence of its elements from
`head->next` to `head->prev`. `InsertionPoint` is the scan of `queue_add`.

**Build.** The default one: the cep machine, with `USER_PROCESSES_ON`. `Traps`
models both machines and chooses one in its initial state.

**Assumptions on what is not modelled.** Idle makes no system calls. In the
modules of the kernel, small allocations in the middle of a call (list
elements, entries of hash tables) succeed, but those of `start_virtual`,
`pcreate` and the frames may fail; `HashTable` and `MallocClient` have the
failures of the libraries themselves. The kernel does not switch processes
inside a memory call.

### Correspondence of actions

- `Scheduler`: `AwakeSleeping` and `WakeTimeAssertFails` are a turn of
  `awake_sleeping_process`, `Dispatch` the rest of `scheduler()`, `Tick` is
  `handle_stimer_interrupt`, `WaitClock` the call `wait_clock`.
- `Process` extends it: `start_virtual`, `StartRejected` and `StartAbandoned`
  (its failures before and after the process is entered in the table),
  `exit_process` (also the return of a program, `kill` of oneself and a page
  fault), `kill`, `waitpid` and `WaitpidResumed`, `chprio`, and `FreeDead`, a
  turn of `free_dead_process`. `Terminate` is
  `turn_current_process_into_a_zombie_or_kill_it` with the recursion over
  zombie children.
- `Semaphore`, `MsgQueue` and `Console` extend `Process`. They start in
  `Started`, where the shell has started all the other processes, and add one
  action per call and per resumption. They keep those calls of `Process` that
  can change what they are about: the context switch, the clock, `kill`, and,
  where it matters, `chprio` and the end of a process.
- `ProcessMemory` has the allocation of frames and page tables at the start of a
  process and their release at its end; `SharedPages` adds `shm_create`,
  `shm_acquire`, `shm_release` and `free_process_memory`. The processes of
  these two modules only have memory.
- `Traps` goes below the atomic handlers of the others. A step is a piece of
  straight-line kernel code: `_start`, `boot_riscv`, `enter_supervisor_mode`,
  `kernel_start`, the entry and exit of machine and supervisor traps, each case
  of `strap_handler`, `context_switch`, the first entry of a process. Registers
  travel in three groups (caller-saved, `a0`, callee-saved), a stack is the
  sequence of what was pushed on it, and a context is what `context_switch`
  saves. A timer or a key may interrupt wherever the status bits allow it.
  What a call does is reduced to what makes `scheduler()` switch: it returns,
  blocks, wakes, starts, kills, reaps or exits. The ghost `own` is what each
  process should find in its registers.
- `Pages` has the setters of `pages.c`, `link_pte`, `find_pte_adress`,
  `init_directory`, the address `shm_create` returns, and the walk of the
  hardware, with the constants of the code.
- `Malloc` has every function of `malloc.c` as an operator on the heap:
  `mALLOc`, `fREe`, `rEALLOc`, `cALLOc`, `mEMALIGn`, `vALLOc`, `pVALLOc`,
  `iCALLOc`, `iCOMALLOc`, `mTRIm`, `mALLOPt`, `mALLINFo`, `sYSMALLOc`,
  `malloc_consolidate` and `do_check_malloc_state`. `ChunkSizes` has the
  arithmetic of sizes and bins. `MallocClient` is a program that calls them in
  any legal order, fills its blocks, and may call `sbrk` itself.
- `HashTable` has `hash_init`, `hash_destroy`, `hash_set`, `hash_del`,
  `hash_get` and `hash_isset`; a resize may fail. The hash function is a
  parameter.
- `Format`: an action is a turn of the loop of `vsnprintf`, in its measuring
  and in its filling pass. `strtol` is an operator.
- `CountingSemaphore`, `MessageChannel`, `LineBuffer`, `Allocator` and
  `Dictionary` are abstract specifications of what the headers and comments
  promise. `Semaphore`, `MsgQueue`, `Console`, `MallocClient` and `HashTable`
  are shown to implement them by `INSTANCE ... WITH`.
  In one point `LineBuffer` follows the code against a comment:
  `cons_read.c:29-30` has the call end at an end of line only, but it also ends
  when the characters asked for are there, and when the ring is full.
- `MCMsgQueue` adds the symmetry of messages, and a view without the result of
  the last call and without the fields of processes that have ended;
  `MCSemaphore` and `MCConsole` have such a view too. Nothing reads those
  fields again, and the properties that name results are checked on the steps
  that produce them. The view of `MCConsole` also names the two children of the
  shell by their states and places in the queues, since they are alike. `MCSharedPages` adds a view in which frames are named by
  where they are used: the specification only compares frames for equality and keeps the order of the free list in the state, so
  that states which differ by names of frames behave alike.

## 3. What the runs check

Runs that pass:

| run | instance | what it shows |
|---|---|---|
| `scheduler` | 4 processes, 2 priorities, sleeps of 0, 1, 2 ticks and one that overflows | the most urgent process runs (`HighestPriorityRuns`), nobody is linked twice, nobody oversleeps, equal priorities take turns, sleepers wake |
| `process` | idle, the shell and 2 more, over 3 generations | states and queues agree and idle can always run (`QueueMatchesState`), no wake-up of `waitpid` is lost, the tree of living processes is right, pids are not given twice, exit statuses are kept for living parents, and the loops of `scheduler()` and `waitpid` end (`KernelReturns`) |
| `semaphore` | idle and 3 processes, 2 semaphores, counters -3..2 | counter and list agree, waiters are woken by priority and arrival, and the whole implements `CountingSemaphore` |
| `msgqueue` | idle and 3 processes, a queue of 0, 1 or 2 places, 2 messages | nobody waits in vain, blocked processes are sorted also after `chprio`, and the whole implements `MessageChannel`, with one exception (below) |
| `console` | idle and 3 processes, a ring of 3 characters, every key at any time | the queue of readers is right after `kill` and `chprio`, a key that completes a call wakes a reader, and as long as no erasing key has moved the end of the ring across its start the assertion of `copy` holds and the ring implements `LineBuffer` |
| `shared_pages` | 2 processes, 2 pages, 23 frames | no frame is lost or used twice, every place of the shared region is accounted for, address spaces meet only in pages both map by name, and the count of a page covers its users |
| `malloc` | a heap of 33 pages, 3 blocks held at a time, 6 calls of which one is neither `malloc` nor `free`, requests for a fastbin, a small and a large bin, nearly the whole heap, nearly the whole address space, and more than that | the authors' own checks hold after every call, every chunk has just one owner and `mallinfo` counts right, blocks are neither too small nor wasteful, `malloc` fails only when memory cannot be had, and the whole implements `Allocator` |
| `hash_table` | 6 keys, three of which have the same hash, tables of 8 slots and more, up to 2 failed resizes in a row | every key is found by its own search and an empty slot is left to end the search for others, zones are freed once and with their length, and the whole implements `Dictionary`, with one exception (below) |
| `traps` | idle, the shell and a child, 3 frames for trap stacks, cep and virt | a process finds all its registers again whatever interrupted it (`OwnContext`), the kernel works on the trap stack of the current process and that frame is nobody else's, supervisor traps do not nest, and on cep a ready process gets the processor |
| `format` | formats of up to 3 items, a long of 2 bytes | the text printed is the one asked for, nothing is written outside the buffer even where the two passes differ, and `strtol` reads numbers back |

Runs that show that the code does not do what a comment or an assertion of it
says:

| run | what happens |
|---|---|
| `process_kill_waiter` | `kill` of a process blocked in `waitpid` fails the assertion of `queue_del`: the process is in no queue |
| `semaphore_kill` | `kill` of the second of three waiters takes the first one out of the list, because a test in `remove_proc_queue` is inverted |

Section 6 has further configurations of this kind. No step that leads to these
is left out of the passing runs; what the code then does is a named exception
of the property, and everything else is still required:

- `msgqueue`: `chprio` of a sender that a queue of size zero has released, and
  that still has the state `BLOCKEDQUEUE`, puts it back in the list of blocked
  senders (`PutBack`). `ImplementsChannel` then allows one step that is not of
  `MessageChannel`, the letter received once more (`ReleasedAgain`), and
  `NobodyWaitsInVain` does not require the count of such a queue to fit.
  `ChannelThroughout` is the refinement without the exception.
- `console`: the history variable `crossed` records that an erasing key has
  moved the end of the ring to the other side of its start. From then on, until
  a read empties the ring, the indices say nothing about what is in it:
  `AssertionsHold` and `ImplementsLineBuffer` except these states, `ReadersQueued`
  and `ReaderWoken` do not.
  `AssertionNeverFails` is the assertion without the exception.
- `hash_table`: `hash.h:89` and `hash.h:96` have set and delete return -1 on
  failure, and `Dictionary` changes nothing then. `ImplementsDictionary` also
  allows the step in which the key is set or deleted, only the resize fails, and
  the answer is -1 (`OnlyResizeFailed`). `FailureChangesNothing` is the promise
  without the exception.
- `malloc`: `CheckMallocState` excepts states after an `independent_` call has
  spoilt a bit.

Three waiters and a fourth process that kills one need one process more than
`semaphore` has.

### Bounds, and why they are enough

- Processes: idle and three others. Three are needed for a process to act on
  two that wait in the same queue. `semaphore_kill` needs four and has them.
- Two priorities, so that there are equal, higher and lower ones.
- `MaxClock`: the clock stops. In `scheduler` it goes up to 4, longer than two
  sleeps, one behind the other. In the other runs it does not advance, and an
  interrupt that does not count still calls `scheduler()`. In `process` a
  sleeper is therefore killed, or sleeps on: that run shows no woken sleepers.
  The theorems about `Process` hold for every bound and cover them.
- `INT64_LIMIT = 6` in `scheduler`: a sleep of 9 becomes a wake time that is
  positive, zero or in the past, depending on the clock.
- `MAX_COUNT = 2`: both ends of the counter are reached, since all processes can
  wait at once and `signaln` takes 3. `sreset` gets counts that fit.
- Message queues of 0, 1 and 2 places: none, a wrap at every step, a wrap at
  every second one.
- The ring of the console has three places, so that an end can be before,
  behind and at the start after a wrap; a tab is two spaces. Calls ask for one
  character (less than the ring) or four (more). A space stands for every
  printable character: the code tells only spaces, ends of line and the others
  apart, and only in the key that deletes a word. A letter more, with the same
  bounds, also passes (1.6 million states without the names of the view).
- `shared_pages`: tables of level 0 have one place and a region two or three
  tables, so that new tables, full regions and frames running out all happen.
  23 frames are enough for two small processes and their pages, not for two
  large ones. `MaxList` and `MaxUsage` bound what the defects make grow without
  bound: elements of failed links, and counts of dead processes.
- `malloc`: `MaxCalls = 6` is enough to allocate three blocks, free two that
  are neighbours or not, and allocate into what they left; `MaxOther = 1` puts
  each of the other functions, and a `sbrk` of the program, at every place of
  such a history. Addresses, sizes and bins are those of the code; only
  `WORD`, the size of the address space, is 2^20 instead of 2^64, and the heap
  is smaller. One request passes `REQUEST_OUT_OF_RANGE`, but its sum with
  `top_pad` wraps around `WORD` (`malloc.c:3014`): top grows a little and the
  request is refused. Sizes stay below 2^32, where `largebin_index` drops bits.
- `hash_table`: 6 keys make a table of 8 slots grow and shrink again.
  `MaxVain` counts resizes that fail in a row.
- `traps`: the tick counter is kept modulo `Wrap = 1`, since no property of the
  run reads it. `KeysPerTick = 1`: a key may arrive once in each period of the
  timer. Three frames are one for each process, with none to spare
  while a dead one still holds its own.
- `format`: the least number of a long, small ones of both signs, zero, and the
  largest int; buffers of 0 and 5 characters.
- Deadlock is checked except in `shared_pages`, where nothing happens after a
  halt, and in `malloc` and `format`, which come to an end.

### Fairness

`scheduler` assumes weak fairness of `SchedulerStep` and of `Tick`: the code of
`scheduler()` runs to its end once entered, since interrupts are off and its
loops do not wait, and `handle_stimer_interrupt` arms the timer again every
time. `process` assumes weak fairness of the kernel's own steps (`KernelStep`)
only. `traps` assumes weak fairness of kernel code and of the passing of time
(the comparator is reached), and strong fairness of `Interrupts`: the hart
takes a pending interrupt when the status bits let it, although they may mask it
again and again. Arming the timer is not assumed, it is what `ReadyRuns` is
about. Nothing is assumed of programs: they may never make a call.

## 4. What is proved

`PrioQueueProofs` proves what the operators of `queue.h` return, for every queue
and every priority function: `queue_add` adds one element and keeps a sorted
queue sorted, with the new element behind its equals in the order of leaving;
`queue_out` takes an element that no other exceeds; `queue_del` takes out one
element. These lemmas rest on the existence of the point where the scan stops,
which follows from the order of the naturals being well founded.

`SchedulerProofs` proves about `SchedSpec`, for every finite set of processes,
every set of priorities, every clock bound and every argument of `wait_clock`:

- `SchedTypeCorrect`: `[]SchedTypeOK`;
- `SchedLinkedOnce`: `[]LinkedOnce`, so that the assertion of `queue_add` holds;
- `SchedHighestPriorityRuns`: `[]HighestPriorityRuns`;
- `SchedNoOverdueSleeper`: `[]NoOverdueSleeper`, with the exception of wake
  times that wrapped around to 0;
- `SchedShortSleeps`: while clock and sleeps stay below 2^63 that exception does
  not happen.

None of these is inductive alone. `SchedIInv` adds that the state of a process
tells which queue holds it, that idle is never asleep, that the current process
is active whenever user code runs, and that both queues are sorted.
`HighestPriorityRuns` needs the sorted queue, since `Dispatch` takes the last
element; `Dispatch` needs idle in the queue, or it would run a sleeping
process; `LinkedOnce` needs states and queues to agree, since `Dispatch` links
a process again only because its state says it is active. `NoOverdueSleeper`
needs the queue of sleepers sorted by wake time, because the loop stops at the
first sleeper that is not due. The proofs have a lemma per action.

The assumptions are those of `SchedulerAssumption`: finitely many processes with
positive pids, idle among them, positive priorities, arguments of `wait_clock`
that are not negative (the type is unsigned), and a clock that does not itself
reach 2^63.

`ProcessInv` and `ProcessProofs` prove about the specification of `Process`,
for every finite set of pids, every set of priorities and every limit on the
number of processes:

- `ProcessInvariant`: `[]ProcessIInv`, the inductive invariant;
- `QueuesMatchStates`: `[]QueueMatchesState`;
- `WakeupsKept`: `[]NoLostWakeup`;
- `TreeStaysConsistent`: `[]TreeConsistent`;
- `PidsStayAccounted`: `[]PidsAccounted`;
- `StatusesKept`: the action property `ExitStatusKept`.

`ProcessIInv` has five parts besides the types, and each needs the others.
`Queues` is `QueueMatchesState` with two additions: the current process is in
the table, and it is not in the queue of dead processes. Without them
`free_dead_process` might free the process from which `scheduler()` is about to
switch. `Places` says where a process goes on: only outside `scheduler()` is
the current process sure to be active. `Links` is the tree, seen also from
below: nobody is its own parent, whoever is in a list, be it the list of a dead
process, has the owner of that list as parent, and a killed process has no
living parent. The tree of living processes alone is not inductive, since a
process that ends makes orphans of those in its list, and a freed process must
leave no link behind in a living one. `Waits` is `NoLostWakeup` with the
time between the wake-up and the next look at the children, in which the
process is no longer blocked but still counts on finding a child; idle never
waits. `PidsAccounted` is inductive with the queues, since a pid goes back
to `process_id_list` only when its process leaves the table. `ProcessInv`
has the definitions, the lemmas on `Free` and on the queues, the steps that
neither start nor free anybody, and the end of a process (`Terminate` with its
zombie children, `kill`, `waitpid`, `free_dead_process`); `ProcessProofs` has the
starts and the theorems. TLC checked `ProcessIInv` as an
invariant, with idle and three other processes (555,629 distinct states), before it
was proved.

The assumptions are `SchedulerAssumption` and `ProcessAssumption`: the limit
leaves room for idle and the shell, and both have their pids and their
priorities, 1 and 2, from the boot.

`TrapsInv`, `TrapsStepProofs` and `TrapsProofs` prove about the specification of
`Traps`, for every set of processes and every set of trap stacks, on both
machines:

- `TrapsInvariant`: `[]TrapsIInv`, the inductive invariant;
- `TrapsDoNotNest`: `[]NoNestedTrap`;
- `OwnTrapStack`: `[]OnOwnTrapStack`;
- `ContextsKept`: `[]OwnContext`.

`OwnContext` says what a program finds when it runs. To be inductive it needs to
say where all of that is while the program does not run, at every instruction
of the kernel. `TrapsIInv` does so in three layers. `Machine` is about machine
traps: they happen on virt only and never during start-up, and the hart they
interrupted is what `mepc`, `mscratch`, `mpp` and the machine stack hold. That
interrupted hart is `Under` (the hart itself outside machine traps), and all
else is said of it, so that a machine trap changes nothing below it. `Where`
says what `Under` does: it starts up, waits for the first interrupt or handles
it on the stack of the hart as long as no process has run; afterwards it is in
the program of the current process (`InProgram`) or in the kernel for it
(`InKernel`). The kernel is on the trap stack of the current process; the return
addresses above the trap frame are those of one of the four chains of calls
that lead to the code it executes (`ReturnsFrom`); frame and registers hold what
the program will find, with the program counter still at the `ecall` as long as
the call has not ended (`Remembers`). `Saved` says the same of the saved
context of every other living process, unless it has not run yet. A process
that has ended needs no context, but its trap stack stays its own until it is
freed, and it is freed only when another process is current: this is
`Scheduling` (queue and states agree, idle is ready or runs, the dead are killed
and not current) and `TrapStacks`. `NoNestedTrap` needs `InKernel` to say when
interrupts are let in: on virt only, with no software interrupt pending but the
one that is being handled, and none is passed on to the kernel.

`TrapsInv` has the definitions, lemmas on stacks and registers, and the handlers
of one process from the entry of its trap to its end. `TrapsStepProofs` has
machine traps, start-up, the devices and the system calls that leave the queue
of activatable processes alone. `TrapsProofs` has those that change it,
`context_switch` and the theorems. The assumption is `TrapsAssumption`: idle and
the shell are two processes, there are two trap stacks for them, and the counters
have a bound. TLC checked `TrapsIInv` as an invariant on the instance of the run
`traps` (323,247 distinct states) before it was proved.

`MemoryProofs` proves about page tables, with the sizes of the code, for all
frames and offsets:

- `LinkedFrameFound`: the frame put in an entry is the one `find_pte_adress`
  finds there when the process is freed, and the one the hardware goes to,
  whatever the entry held before;
- `SharedPageReached`: the address returned by `shm_create` and `shm_acquire`,
  plus an offset, translates to that byte of the frame;
- `ReleasedPageFaults`: after `shm_release` it faults, although the release
  calls `configure_page_entry` after `set_invalid` and thereby makes the entry
  valid once more;
- `KernelIdentity`: the directory of the kernel maps the gigabytes the kernel
  works in to themselves, on both machines.

The argument is that a frame address is `(x + 512 (y + 512 z)) 4096` with `x`
and `y` below 512 in just one way, and that the three fields of an entry are
these `x`, `y` and `z`. Nothing is assumed of the tables but that they hold the
entries the calls wrote. This is what `ProcessMemory` and `SharedPages` rely
on when they say which entry leads to which frame.

It also proves the arithmetic `Malloc` and the code rely on, for every size: `RequestFits` and `RerequestExact` about `request2size`, `SmallBinsExact`,
`FastbinExists`, and, for chunks below 2^32 bytes, `BinsMonotone`, that a larger
chunk is never in a lower bin. The bound is that of the code: the parameter of
`largebin_index` is an `unsigned int` (`malloc.c:2183`), and a chunk of 2^32
bytes or more gets the bin of what is left of its size. The theorem is about the shifts and masks with which `largebin_index` finds
the highest bit: the proof shows that they compute it, for each of the possible
highest bits, and that two more bits order the sizes that have the same one.

## 5. What is only model-checked

Liveness (`HighestNotStarved`, `SleepersWake`, `KernelReturns`, `ReadyRuns`) is
out of reach of the prover, and so is what recursive definitions compute: the
probe sequence of the hash table, the walks over the heap, the digits of a
number. The five refinements, and the invariants of `Semaphore`, `MsgQueue`,
`Console`, `SharedPages`, `MallocClient`, `HashTable` and `Format`, are
checked on the instances above and not proved.

## 6. Other disagreements met while reading the code

Each of these configurations makes TLC show that the code does not do what a
comment or an assertion of it says. They are not among the runs.

| configuration | module | what happens |
|---|---|---|
| `MsgQueueChprioTwice.cfg` | `MCMsgQueue` | a producer released from a queue of size 0 keeps the state `BLOCKEDQUEUE` (`msgqueue.c:106`); `chprio` blocks it again and its message is received twice |
| `ConsoleErasing.cfg` | `Console` | an erasing key after a read of part of a line deletes past the start of the ring (`keyboard.c:14`); the next `cons_read` fails its assertion (`cons_read.c:59`) |
| `SharedUsage.cfg` | `MCSharedPages` | `shm_acquire` enters a pointer of the caller as key (`memory_api.c:149`), so that a page may count an ended process for ever |
| `TrapsClock.cfg` | `Traps` | on virt the software interrupt falls through into the timer interrupt (`supervisor_trap.c:133`), and the clock counts more ticks than there were (`timer_api.h:15`) |
| `MallocIndependent.cfg` | `MCMalloc` | `independent_calloc` sets the `prev_inuse` bit of its first element although the chunk came from a fastbin behind a free one, and the authors' check (`malloc.c:2626`) fails |
| `HashFailure.cfg` | `MCHashTable` | `hash_set` and `hash_del` return -1 when the resize fails, although the key has been set or deleted; `semaphore_api.c:150` and `memory_api.c:95` take that for a failure, the other callers ignore it |

The following have no configuration; the modules do what the code does, unless
it is said that they do not reach it.

- `wait_clock(clock)` lets a process sleep for that many ticks and one more (the
  clock must be strictly past the wake time); `timer_api.h:21` says that it
  sleeps "until the interruption number clock arrives".
- When a process is freed its living children keep pointing to it
  (`process_api.c:702`, `753`), although `process_api.c:680` says that they
  become orphans.
- `nb_proc_running` is taken by starts that fail (`process_api.c:329`) and not
  given back, so that it is not the number of processes.
- `chprio` of a process that has been woken and has not run yet finds the state
  `ASLEEP` and leaves it where it is (`process_api.c:112`): the queue of
  activatable processes is then no longer sorted as `queue.h:9` has it.
- `kill` writes to the structure of its victim after it may have been freed
  (`process_api.c:574`), and wakes a more urgent parent without calling
  `scheduler()`.
- `chprio` does not move a process in the list of a semaphore.
- `keyboard.c:48`: the key that deletes a line looks for `'\r'`, but `'\n'` is
  what is stored; the key that deletes a word loops for ever without echo
  (`keyboard.c:55`).
- `create_shared_page` does not test what `get_frame` returns
  (`memory_api.c:85`).
- `free_process_memory` frees the first free place once for every free place
  (`process_memory.c:635`).
- A full region of an address space refuses tables for all the others
  (`process_memory.c:103`).
- The frame after the code of a process is neither written nor cleared
  (`process_memory.c:340`), and names of shared pages are copied to blocks one
  byte too short (`memory_api.c:108`, `380`).
- Failed growths of a hash table that go on for ever fill it, and then the search
  for an absent key never ends: `EveryKeyFound` has the number of free slots
  left as a function of the failures in a row.
- `process_name_copy` allocates as many bytes as the name has characters and
  copies the zero as well (`process_api.c:769`); blocks are not modelled by
  their bytes there.
- `malloc.c`: `mallopt(M_MXFAST, 0)` leaves `max_fast` at 8, and a chunk that
  small would have no fastbin (the smallest chunk is 32, so that none is);
  the product of `calloc` and the padding of `memalign` are not tested for
  overflow; both `sbrk` refuse negative increments, so that `malloc_trim` never
  gives anything back.
- `sprintf.c`: `%c` takes no argument in the measuring pass or past the end of
  the buffer; `%%` and unknown letters do not leave the format mode; `%lu` of
  2^63 and more has too few digits, `%ld` of the least long is not a number;
  hexadecimal numbers are always padded. `PrintsWhatIsAsked` excepts arguments
  after a `%c` and the numbers just named; `StaysInBuffer` excepts nothing.
  Formats with `%%` or unknown letters are not enumerated. `strtol` does not
  skip a `+`.
- `virt_plic_init` writes the enable word to the offset of the register instead
  of its address: no key interrupts on virt. No handler claims or completes an
  interrupt at the controller; the model takes it that reading the character
  withdraws it.
- `NoNestedTrap` on virt rests on the hart taking the forwarded software
  interrupt right after `mret`, and on ticks that find the kernel in supervisor
  mode being dropped.
- `pages.c` sets the user bit on entries that lead to tables, and the assertions
  of `set_ppn0` and `set_ppn1` exclude the last index; they are only called
  with 0.

## 7. Hazards

`PROJECT.json` lists what is hard to test in this kernel, at the line where it
bites, with the properties that watch it: blocked calls that go on after others
have changed the world; `kill` and `chprio` of a process in any queue; pointers
that outlive what they point to; ring buffers, 16 and 64 bit counters at their
limits; starts and creations that fail half way; names read in the wrong
address space; registers and trap stacks across interrupts in any order;
memory that runs out inside the allocator and the hash table. Five have no
property, and a note says why: `chprio` of a woken sleeper
(`process_api.c:112`), a wrapping count for `sreset` (`semaphore_api.c:321`),
the endless loop of a key without echo (`keyboard.c:55`), the page at address 0
(`memory_api.c:85`), and the double free at `process_memory.c:635`, which is
modelled as a halt, since what follows it is undefined.

## 8. What is not modelled

- What is shown on the screen, the drivers of screen, disk, htif and poweroff,
  the blue screen: pure input and output. Clearing of memory at boot.
- The contents of pages other than page tables, and of heap blocks other than
  the word they share with the allocator.
- Faults of kernel code: the handler prints and stops.
- The second hart and those after it, which `_start` parks.
- Programs, the shell and the game among them: a program is any sequence of
  calls. (The reader process of the game ignores what `cons_read` returns, and
  outlives a game that ends; both are legal sequences.)
- The code under `KERNEL_PROCESSES_ON` other than `start`, and the code of
  `malloc.c` for `mmap`, which are compiled out.
- The functions of the C library on strings and memory; the tests and the
  examples. The tests were read as documentation.

## 9. Plan

Done: all the components of section 1, five abstract specifications, and the
proofs of section 4. What is left is proof:

1. The inductive invariant of `Semaphore` (counter and list) on top of that of
   `Process`, and its refinement, and `FramesAccounted` for the frames.
2. A refinement of `Console` and of `MsgQueue` proved step by step, for rings
   of every size.
