--------------------------- MODULE ProcessMemory ---------------------------
(***************************************************************************)
(* The physical frames (kernel/memory/frame_dist.c), the page tables       *)
(* (kernel/memory/pages.c, virtual_memory.c) and the memory a process gets *)
(* when it starts (kernel/process/process_memory.c).                       *)
(*                                                                         *)
(* The free frames are the list that begins at mem_ptr.  tables holds the  *)
(* contents of the frames in use as page tables: a partial function from   *)
(* the index of an entry to the frame it points to.  PT_SIZE is 512 at     *)
(* every level in the code; here it is the size of the tables of level 0,  *)
(* and a table of level 1 has just the places of its three regions.        *)
(***************************************************************************)
EXTENDS Integers, SequencesExt

CONSTANTS
  Pid,               \* the processes
  NbFrames,          \* the frames between _free_memory_start and _memory_end
  FRAME_SIZE,        \* 4096 in the code
  GIGAPAGE_SIZE,     \* 2^30 in the code
  PT_SIZE,           \* 512 in the code
  STACK_FRAME_SIZE,  \* 128 in the code
  HEAP_FRAME_SIZE,   \* 128 in the code
  SHARED_FRAME_SIZE, \* 256 in the code
  CodeSizes,         \* sizes of the programs, in bytes
  StackSizes         \* stack sizes given to start, in bytes

VARIABLES
  free,      \* the list of free frames, from mem_ptr
  tables,    \* contents of the frames that are page tables
  mem,       \* mem[p]: the fields of the process that describe its memory
  lost       \* frames of starts that failed half way

memVars == <<free, tables, mem, lost>>

ASSUME MemoryAssumption ==
  /\ NbFrames \in Nat \ {0, 1} /\ FRAME_SIZE \in Nat \ {0} /\ PT_SIZE \in Nat \ {0}
  /\ GIGAPAGE_SIZE \in Nat \ {0}
  /\ STACK_FRAME_SIZE \in Nat \ {0}
  /\ HEAP_FRAME_SIZE \in Nat \ {0}
  /\ SHARED_FRAME_SIZE \in Nat \ {0}
  /\ CodeSizes \subseteq Nat /\ StackSizes \subseteq Nat

Frame == 1..NbFrames
NULL == 0              \* also the address of a page that got no frame

USERSPACE == 1
STACK_CODE_SPACE_START == 0
HEAP_SPACE_START == STACK_FRAME_SIZE
SHARED_MEMORY_START == STACK_FRAME_SIZE + HEAP_FRAME_SIZE
LVL1_SIZE == SHARED_MEMORY_START + SHARED_FRAME_SIZE

------------------------------------------------------------------------------
(* Frames.  The last frame of the list is never handed out: get_frame      *)
(* fails when the link in the first frame is 0.                            *)

Available(list) == Len(list) - 1

get_frame(list) == IF Available(list) > 0 THEN Head(list) ELSE NULL

AfterGet(list) == IF Available(list) > 0 THEN Tail(list) ELSE list

release_frame(list, f) == IF f \in Frame THEN <<f>> \o list ELSE list

ReleaseAll(list, frames) == FoldLeft(release_frame, list, frames)

------------------------------------------------------------------------------
(* Page tables of a process.  A node describes a table of level 0: its     *)
(* index in the table of level 1, how many places of it are in use, and    *)
(* the frame of the table.                                                 *)

NoMemory == [state |-> "none"]
Husk == [state |-> "husk"]

Live == {p \in Pid : mem[p].state = "live"}

InRegion(node, start, size) == node.index \in start..(start + size - 1)

IsShared(node) == InRegion(node, SHARED_MEMORY_START, SHARED_FRAME_SIZE)

NodesIn(nodes, start, size) == SelectSeq(nodes, LAMBDA n : InRegion(n, start, size))

stack_usage(nodes) == Len(NodesIn(nodes, STACK_CODE_SPACE_START, STACK_FRAME_SIZE))
heap_usage(nodes) == Len(NodesIn(nodes, HEAP_SPACE_START, HEAP_FRAME_SIZE))
shared_memory_usage(nodes) == Len(SelectSeq(nodes, IsShared))

(* add_child_node_page_table refuses when any region is full, whichever    *)
(* region the new table is for.                                            *)
RoomForTable(nodes) ==
  /\ Len(nodes) < LVL1_SIZE
  /\ stack_usage(nodes) < STACK_FRAME_SIZE
  /\ heap_usage(nodes) < HEAP_FRAME_SIZE
  /\ shared_memory_usage(nodes) < SHARED_FRAME_SIZE

------------------------------------------------------------------------------
(* The start of a process                                                  *)

CeilDiv(n, d) == (n + d - 1) \div d

(* The loops that add frames run at least once.                            *)
FramesFor(size) == Max({1, CeilDiv(size, FRAME_SIZE)})

StackTables(n) ==
  [i \in 1..CeilDiv(n, PT_SIZE) |->
     [index |-> STACK_CODE_SPACE_START + i - 1,
      usage |-> Min({PT_SIZE, n - (i - 1) * PT_SIZE})]]

(* What add_frames_process reserves: tables for the code and the stack,    *)
(* then one for the single frame of the heap.                              *)
Reserved(code, stack) ==
  StackTables(FramesFor(code) + FramesFor(stack))
    \o << [index |-> HEAP_SPACE_START, usage |-> 1] >>

TotalUsage(nodes, n) == MapThenSumSet(LAMBDA i : nodes[i].usage, 1..n)

(* The frames wanted by a start that succeeds: two tables, the tables of   *)
(* level 0, the pages and the stack for interrupts.                        *)
Wanted(nodes) == 2 + Len(nodes) + TotalUsage(nodes, Len(nodes)) + 1

(* The frames are taken from the list in that order.                       *)
TableOf(i) == free[2 + i]

PageOf(nodes, i, j) == free[3 + Len(nodes) + TotalUsage(nodes, i - 1) + j]

NewTables(nodes) ==
  (free[1] :> (USERSPACE :> free[2]))
    @@ (free[2] :> [x \in {nodes[i].index : i \in DOMAIN nodes} |->
                      TableOf(CHOOSE i \in DOMAIN nodes : nodes[i].index = x)])
    @@ [t \in {TableOf(i) : i \in DOMAIN nodes} |->
          LET i == CHOOSE k \in DOMAIN nodes : TableOf(k) = t
          IN  [j \in 0..(nodes[i].usage - 1) |-> PageOf(nodes, i, j)]]

(* How many frames a start gets before it fails: none if the stack is too  *)
(* large to begin with; if there is no room in the table of level 1, the   *)
(* tables of levels 2 and 1, and the tables of level 0 up to the limit.    *)
TooLarge(stack) == stack > GIGAPAGE_SIZE
RegionFull(nodes) == stack_usage(nodes) >= STACK_FRAME_SIZE

TakenBeforeRefusal(nodes, stack) ==
  IF TooLarge(stack) THEN 0
  ELSE IF RegionFull(nodes) THEN 2 + STACK_FRAME_SIZE ELSE Wanted(nodes)

(* start_virtual, as far as it deals with memory.                          *)
start_memory(p, code, stack) ==
  LET nodes == Reserved(code, stack)
      wanted == Wanted(nodes)
  IN  /\ mem[p] = NoMemory
      /\ ~TooLarge(stack) /\ ~RegionFull(nodes) /\ wanted <= Available(free)
      /\ mem' = [mem EXCEPT ![p] =
                   [state |-> "live", lvl2 |-> free[1], lvl1 |-> free[2],
                    sscratch |-> free[wanted],
                    nodes |-> [i \in DOMAIN nodes |->
                                 [index |-> nodes[i].index, usage |-> nodes[i].usage,
                                  table |-> TableOf(i)]]]]
      /\ tables' = tables @@ NewTables(nodes)
      /\ free' = SubSeq(free, wanted + 1, Len(free))
      /\ UNCHANGED lost

(* A start that fails gives nothing back: the structure stays in the table *)
(* of processes, half made, and is never freed.                            *)
start_memory_fails(p, code, stack) ==
  LET nodes == Reserved(code, stack)
      taken == Min({TakenBeforeRefusal(nodes, stack), Available(free)})
  IN  /\ mem[p] = NoMemory
      /\ TooLarge(stack) \/ RegionFull(nodes) \/ Wanted(nodes) > Available(free)
      /\ mem' = [mem EXCEPT ![p] = Husk]
      /\ free' = SubSeq(free, taken + 1, Len(free))
      /\ lost' = lost \cup {free[i] : i \in 1..taken}
      /\ UNCHANGED tables

------------------------------------------------------------------------------
(* The end of a process                                                    *)

free_frames_indexed(table, start, end) ==
  [i \in 1..(end - start) |-> tables[table][start + i - 1]]

(* free_frames_page_table on a table of level 0: the frames of shared      *)
(* pages are released with the pages.                                      *)
PagesReleased(node) ==
  IF IsShared(node) THEN <<>> ELSE free_frames_indexed(node.table, 0, node.usage)

(* free_frames_page_table on the table of level 1.                         *)
TablesReleased_NoShared(m) ==
  free_frames_indexed(m.lvl1, STACK_CODE_SPACE_START,
                      STACK_CODE_SPACE_START + stack_usage(m.nodes))
    \o free_frames_indexed(m.lvl1, HEAP_SPACE_START,
                           HEAP_SPACE_START + heap_usage(m.nodes))

TablesReleased(m) ==
  free_frames_indexed(m.lvl1, STACK_CODE_SPACE_START,
                      STACK_CODE_SPACE_START + stack_usage(m.nodes))
    \o free_frames_indexed(m.lvl1, HEAP_SPACE_START,
                           HEAP_SPACE_START + heap_usage(m.nodes))
    \o free_frames_indexed(m.lvl1, SHARED_MEMORY_START,
                           SHARED_MEMORY_START + shared_memory_usage(m.nodes))

(* The frames free_process_memory releases, in order, after the shared     *)
(* pages.                                                                  *)
FramesReleased(p) ==
  LET m == mem[p]
  IN  FlattenSeq([i \in DOMAIN m.nodes |-> PagesReleased(m.nodes[i])])
        \o TablesReleased(m) \o <<m.lvl1, m.lvl2, m.sscratch>>

(* The page tables among them.                                             *)
TableFrames(m) == {m.lvl2, m.lvl1} \cup {m.nodes[i].table : i \in DOMAIN m.nodes}

------------------------------------------------------------------------------
(* init_frames links the frames in order, and set_up_virtual_memory takes  *)
(* the first one for the directory of the kernel.                          *)
directory == 1

MemInit ==
  /\ free = [i \in 1..(NbFrames - 1) |-> i + 1]
  /\ tables = (directory :> <<>>)
  /\ mem = [p \in Pid |-> NoMemory]
  /\ lost = {}
=============================================================================
