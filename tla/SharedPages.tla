---------------------------- MODULE SharedPages ----------------------------
(***************************************************************************)
(* Shared pages (kernel/process/memory_api.c) and the end of a process     *)
(* that maps some (free_process_memory in process_memory.c), over the      *)
(* frames and page tables of module ProcessMemory.                         *)
(*                                                                         *)
(* The kernel does not switch processes inside these calls, so that each   *)
(* call is one step.  Allocations of list elements and hash table entries  *)
(* succeed.  A process finds its own pages in proc_shared_hash_table, by   *)
(* name.  shm_create enters a copy of the name that the kernel keeps, but  *)
(* shm_acquire enters the pointer the caller gave, which means something   *)
(* in the address space of the caller only: when the kernel frees the      *)
(* process, in the address space of another one, the name it reads there   *)
(* may be the same, may be different, or may not be mapped at all.         *)
(*                                                                         *)
(* halted is TRUE when the kernel has done something undefined: it has     *)
(* used freed memory, freed memory twice or read an address that is not    *)
(* mapped.                                                                 *)
(***************************************************************************)
EXTENDS ProcessMemory

CONSTANTS
  Key,       \* the names of shared pages
  MaxList,   \* bound on the elements of the list shared_pages
  MaxUsage   \* bound on the count of users of a page

VARIABLES
  pages,     \* shared_memory_hash_table: the shared pages by name
  shared,    \* shared[p]: the list shared_pages of p
  holes,     \* holes[p]: released_pages_list, places of p that were left
  halted

sharedVars == <<pages, shared, holes, halted>>

vars == <<memVars, sharedVars>>

NoPage == [frame |-> NULL, usage |-> -1]
NoPlace == [lvl1 |-> NULL, lvl0 |-> NULL, table |-> NULL]

Exists(k) == pages[k] # NoPage

(* An element of the list is in the hash table of the process once it has  *)
(* a place.  One that got none stays in the list.                          *)
Placed(node) == node.place # NoPlace

get_shared_page_proc(p, k) ==
  {i \in DOMAIN shared[p] : shared[p][i].key = k /\ Placed(shared[p][i])}

Maps(p, k) == get_shared_page_proc(p, k) # {}

------------------------------------------------------------------------------
(* add_frame_to_process for a shared page: a place in a table of level 0,  *)
(* given the nodes of the process and the list of free frames.             *)

RoomIn(nodes) == {i \in DOMAIN nodes : IsShared(nodes[i]) /\ nodes[i].usage < PT_SIZE}

NoRoom(nodes, list) ==
  RoomIn(nodes) = {} /\ ~(RoomForTable(nodes) /\ Available(list) > 0)

NewNode(nodes, list) ==
  [index |-> SHARED_MEMORY_START + shared_memory_usage(nodes),
   usage |-> 0, table |-> get_frame(list)]

add_frame_to_process(nodes, list) ==
  LET old == RoomIn(nodes) # {}
      all == IF old THEN nodes ELSE Append(nodes, NewNode(nodes, list))
      i == IF old THEN Min(RoomIn(nodes)) ELSE Len(all)
  IN  [nodes |-> [all EXCEPT ![i].usage = @ + 1],
       free |-> IF old THEN list ELSE AfterGet(list),
       place |-> [lvl1 |-> all[i].index, lvl0 |-> all[i].usage,
                  table |-> all[i].table]]

(* The tables after the page with frame f is mapped at a place of process  *)
(* p.  A new table of level 0 is linked in the table of level 1.           *)
Mapped(p, place, f) ==
  LET lvl1 == mem[p].lvl1
      old == IF place.table \in DOMAIN tables THEN tables[place.table] ELSE <<>>
  IN  (lvl1 :> ((place.lvl1 :> place.table) @@ tables[lvl1]))
        @@ (place.table :> ((place.lvl0 :> f) @@ old))
        @@ tables

(* link_shared_page_to_process, after the list of free frames and the      *)
(* table of pages have become list and table.  copied tells whether the    *)
(* name entered in the hash table is the copy of the kernel.               *)
Linked(p, k, place, copied, table) ==
  /\ shared' = [shared EXCEPT ![p] =
                  Append(@, [key |-> k, place |-> place, copied |-> copied])]
  /\ pages' = [table EXCEPT ![k].usage = @ + 1]
  /\ tables' = Mapped(p, place, table[k].frame)

LinkInHole_Kept(p, k, copied, list, table) ==
  /\ holes[p] # <<>>
  /\ Linked(p, k, Head(holes[p]), copied, table)
  /\ free' = list
  /\ UNCHANGED <<mem, holes>>

LinkInHole(p, k, copied, list, table) ==
  /\ holes[p] # <<>>
  /\ Linked(p, k, Head(holes[p]), copied, table)
  /\ holes' = [holes EXCEPT ![p] = Tail(@)]
  /\ free' = list
  /\ UNCHANGED mem

LinkInNewPlace(p, k, copied, list, table) ==
  LET added == add_frame_to_process(mem[p].nodes, list)
  IN  /\ holes[p] = <<>>
      /\ ~NoRoom(mem[p].nodes, list)
      /\ Linked(p, k, added.place, copied, table)
      /\ mem' = [mem EXCEPT ![p].nodes = added.nodes]
      /\ free' = added.free
      /\ UNCHANGED holes

(* When there is no room the element stays in the list, and a page just    *)
(* created stays in the table of pages.                                    *)
LinkFails(p, k, list, table) ==
  /\ holes[p] = <<>>
  /\ NoRoom(mem[p].nodes, list)
  /\ Len(shared[p]) < MaxList
  /\ shared' = [shared EXCEPT ![p] =
                  Append(@, [key |-> k, place |-> NoPlace, copied |-> FALSE])]
  /\ free' = list
  /\ pages' = table
  /\ UNCHANGED <<tables, mem, holes>>

link_shared_page_to_process(p, k, copied, list, table) ==
  /\ \/ LinkInHole(p, k, copied, list, table)
     \/ LinkInNewPlace(p, k, copied, list, table)
     \/ LinkFails(p, k, list, table)
  /\ UNCHANGED <<lost, halted>>

------------------------------------------------------------------------------
(* The system calls                                                        *)

(* create_shared_page does not look at what get_frame returns.             *)
(* The frame is NULL when none is left, which nobody asks.                 *)
create_shared_page(k) ==
  [pages EXCEPT ![k] = [frame |-> get_frame(free), usage |-> 0]]

shm_create(p, k) ==
  /\ p \in Live /\ ~halted
  /\ ~Exists(k)
  /\ link_shared_page_to_process(p, k, TRUE, AfterGet(free), create_shared_page(k))

shm_acquire(p, k) ==
  /\ p \in Live /\ ~halted
  /\ Exists(k) /\ ~Maps(p, k)
  /\ pages[k].usage < MaxUsage
  /\ link_shared_page_to_process(p, k, FALSE, free, pages)

(* A user of page k goes: with the last one the page and its frame go.     *)
(* s holds the table of pages and the list of free frames.                 *)
Dropped_BeforeLast(s, k) ==
  IF s.pages[k].usage <= 2
  THEN [pages |-> [s.pages EXCEPT ![k] = NoPage],
        free |-> release_frame(s.free, s.pages[k].frame)]
  ELSE [s EXCEPT !.pages[k].usage = @ - 1]

Dropped(s, k) ==
  IF s.pages[k].usage = 1
  THEN [pages |-> [s.pages EXCEPT ![k] = NoPage],
        free |-> release_frame(s.free, s.pages[k].frame)]
  ELSE [s EXCEPT !.pages[k].usage = @ - 1]

Unmapped(place) ==
  [tables EXCEPT ![place.table] =
     [i \in DOMAIN @ \ {place.lvl0} |-> @[i]]]

shm_release(p, k) ==
  /\ p \in Live /\ ~halted
  /\ Exists(k) /\ Maps(p, k)
  /\ LET i == CHOOSE j \in get_shared_page_proc(p, k) : TRUE
         place == shared[p][i].place
         dropped == Dropped([pages |-> pages, free |-> free], k)
     IN  /\ holes' = [holes EXCEPT ![p] = <<place>> \o @]
         /\ shared' = [shared EXCEPT ![p] = RemoveAt(@, i)]
         /\ tables' = Unmapped(place)
         /\ pages' = dropped.pages
         /\ free' = dropped.free
  /\ UNCHANGED <<mem, lost, halted>>

------------------------------------------------------------------------------
(* free_process_memory.  It calls shm_release for every element of the     *)
(* list, with the name of the element.  found are the pages whose entry in *)
(* the hash table of p is recognised.                                      *)

KeysOf(p, copied) ==
  {shared[p][i].key : i \in {j \in DOMAIN shared[p] :
                             Placed(shared[p][j]) /\ shared[p][j].copied = copied}}

(* The pages in the order in which they are released: an element that got  *)
(* no place stands for the page its name finds.                            *)
ReleaseOrder(p, found) ==
  LET list == shared[p]
      first == {i \in DOMAIN list :
                  /\ list[i].key \in found
                  /\ \A j \in 1..(i - 1) : list[j].key # list[i].key}
      order == SetToSortSeq(first, <)
  IN  [i \in DOMAIN order |-> list[order[i]].key]

(* The loop has already taken the next element when it releases one: if    *)
(* the element released is that next one, the loop goes on in freed        *)
(* memory.                                                                 *)
NextIsFreed(p, found) ==
  \E i \in 1..(Len(shared[p]) - 1) :
    /\ ~Placed(shared[p][i]) /\ Placed(shared[p][i + 1])
    /\ shared[p][i].key = shared[p][i + 1].key
    /\ shared[p][i].key \in found

(* The loop over the places left frees the first of them once for each.    *)
FreedTwice(p, found) == Len(holes[p]) + Cardinality(found) > 1

(* What of a dead process's own pages are found by name                    *)
MayBeFound(p) == {KeysOf(p, TRUE) \cup s : s \in SUBSET KeysOf(p, FALSE)}

free_process_memory(p) ==
  /\ p \in Live /\ ~halted
  /\ \E found \in MayBeFound(p) :
       LET dropped == FoldLeft(Dropped, [pages |-> pages, free |-> free],
                               ReleaseOrder(p, found))
       IN  /\ ~NextIsFreed(p, found) /\ ~FreedTwice(p, found)
           /\ pages' = dropped.pages
           /\ free' = ReleaseAll(dropped.free, FramesReleased(p))
  /\ tables' = [f \in DOMAIN tables \ TableFrames(mem[p]) |-> tables[f]]
  /\ mem' = [mem EXCEPT ![p] = NoMemory]
  /\ shared' = [shared EXCEPT ![p] = <<>>]
  /\ holes' = [holes EXCEPT ![p] = <<>>]
  /\ UNCHANGED <<lost, halted>>

free_goes_wrong(p) ==
  /\ p \in Live /\ ~halted
  /\ \/ KeysOf(p, FALSE) # {}
     \/ \E found \in MayBeFound(p) : NextIsFreed(p, found) \/ FreedTwice(p, found)
  /\ halted' = TRUE
  /\ UNCHANGED <<memVars, pages, shared, holes>>

------------------------------------------------------------------------------
(* The specification                                                       *)

SharedInit ==
  /\ MemInit
  /\ pages = [k \in Key |-> NoPage]
  /\ shared = [p \in Pid |-> <<>>]
  /\ holes = [p \in Pid |-> <<>>]
  /\ halted = FALSE

StartNext ==
  /\ ~halted
  /\ \E p \in Pid, code \in CodeSizes, stack \in StackSizes :
       start_memory(p, code, stack) \/ start_memory_fails(p, code, stack)
  /\ UNCHANGED sharedVars

SharedNext ==
  \/ StartNext
  \/ \E p \in Pid :
       \/ free_process_memory(p)
       \/ free_goes_wrong(p)
       \/ \E k \in Key : shm_create(p, k) \/ shm_acquire(p, k) \/ shm_release(p, k)

SharedSpec == SharedInit /\ [][SharedNext]_vars

------------------------------------------------------------------------------
(* Properties                                                              *)

Place == [lvl1 : 0..LVL1_SIZE, lvl0 : 0..PT_SIZE, table : Frame \cup {NULL}]

(* Types: the free list and the tables hold frames, and the counts and     *)
(* indexes of memory_api.c and process_memory.c stay in the tables.        *)
SharedTypeOK ==
  /\ free \in Seq(Frame) /\ free # <<>>
  /\ DOMAIN tables \subseteq Frame
  /\ lost \subseteq Frame
  /\ halted \in BOOLEAN
  /\ pages \in [Key -> [frame : Frame \cup {NULL}, usage : -1..MaxUsage]]
  /\ \A p \in Pid : holes[p] \in Seq(Place)
  /\ \A p \in Pid, i \in 1..MaxList :
       i \in DOMAIN shared[p] => shared[p][i].place \in Place
  /\ \A p \in Live, i \in 1..LVL1_SIZE :
       i \in DOMAIN mem[p].nodes =>
         mem[p].nodes[i].index < LVL1_SIZE /\ mem[p].nodes[i].usage \in 1..PT_SIZE

(* The frames the page tables of p lead to from the directory of level 2,  *)
(* by the walk the hardware makes.                                         *)
Reachable(p, index1) ==
  LET lvl1 == tables[tables[mem[p].lvl2][USERSPACE]]
      lvl0 == IF index1 \in DOMAIN lvl1 THEN tables[lvl1[index1]] ELSE <<>>
  IN  {lvl0[i] : i \in DOMAIN lvl0}

OwnPages(p) == UNION {Reachable(p, i) : i \in 0..(SHARED_MEMORY_START - 1)}

SharedFrames(p) == UNION {Reachable(p, i) : i \in SHARED_MEMORY_START..(LVL1_SIZE - 1)}

PageFrames == {pages[k].frame : k \in {x \in Key : Exists(x)}} \ {NULL}

(* Nothing is lost and nothing is used twice: every frame is either in the *)
(* free list, once, or is the directory of the kernel, or belongs to just  *)
(* one process, or is that of just one shared page, or went with a failed  *)
(* start (get_frame and release_frame in frame_dist.c and their callers).  *)
FramesAccounted ==
  LET OfProcess(p) == TableFrames(mem[p]) \cup OwnPages(p) \cup {mem[p].sscratch}
      uses == {{directory}, lost, ToSet(free), PageFrames} \cup {OfProcess(p) : p \in Live}
  IN  /\ SharedTypeOK
      /\ IsInjective(free)
      /\ UNION uses = Frame
      /\ Cardinality(Frame) = 1 + Cardinality(lost) + Len(free)
            + Cardinality(PageFrames)
            + MapThenSumSet(LAMBDA p : Cardinality(OfProcess(p)), Live)
      /\ \A k, l \in Key : Exists(k) /\ Exists(l) /\ k # l =>
           pages[k].frame # pages[l].frame \/ pages[k].frame = NULL

(* Every place given out in the tables of the shared region holds just one *)
(* page that p maps, with the frame of that page, or is a hole that can be *)
(* used again and leads nowhere (shm_release, link_shared_page_to_process).*)
PlacesAccounted ==
  \A p \in Live :
    LET nodes == {mem[p].nodes[i] : i \in DOMAIN mem[p].nodes}
        given == {[lvl1 |-> n.index, lvl0 |-> j, table |-> n.table] :
                    n \in {x \in nodes : IsShared(x)}, j \in 0..(PT_SIZE - 1)}
        used == {x \in given : \E n \in nodes : n.index = x.lvl1 /\ x.lvl0 < n.usage}
        placed == SelectSeq(shared[p], Placed)
    IN  /\ IsInjective(holes[p])
        /\ \A i, j \in DOMAIN placed : i # j => placed[i].place # placed[j].place
        /\ {placed[i].place : i \in DOMAIN placed} \cap ToSet(holes[p]) = {}
        /\ {placed[i].place : i \in DOMAIN placed} \cup ToSet(holes[p]) = used
        /\ \A i \in DOMAIN placed :
             /\ Exists(placed[i].key)
             /\ tables[placed[i].place.table][placed[i].place.lvl0]
                  = pages[placed[i].key].frame
        /\ \A i \in DOMAIN holes[p] : holes[p][i].lvl0 \notin DOMAIN tables[holes[p][i].table]

(* Two processes reach the same frame only through a page that both of     *)
(* them map by name, and nobody reaches a free frame or a page table.  The *)
(* count of a page is never less than the number of processes that map it, *)
(* so that its frame is not released under one of them.                    *)
Isolation ==
  /\ \A p, q \in Live : p # q =>
       \A f \in (OwnPages(p) \cup SharedFrames(p)) \cap (OwnPages(q) \cup SharedFrames(q)) :
         f = NULL \/ \E k \in Key : Maps(p, k) /\ Maps(q, k) /\ pages[k].frame = f
  /\ \A p \in Live :
       (OwnPages(p) \cup SharedFrames(p)) \cap (ToSet(free) \cup DOMAIN tables) = {}
  /\ \A k \in Key :
       Exists(k) => pages[k].usage >= Cardinality({p \in Live : Maps(p, k)})

(* The count of a page is the number of processes that map it: the page    *)
(* goes when the last of them has released it or ended.                    *)
UsageIsMaps ==
  \A k \in Key : Exists(k) => pages[k].usage = Cardinality({p \in Live : Maps(p, k)})
=============================================================================
