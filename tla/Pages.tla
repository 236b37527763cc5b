-------------------------------- MODULE Pages --------------------------------
(***************************************************************************)
(* Page table entries (kernel/memory/pages.c), the directory of the kernel *)
(* (virtual_memory.c), the address shm_create returns (memory_api.c) and   *)
(* the frame found in an entry when a process is freed (process_memory.c). *)
(* Module ProcessMemory says which entry leads to which frame; this module *)
(* says that the bits written in an entry lead the hardware there.  The    *)
(* sizes are those of the code.                                            *)
(***************************************************************************)
EXTENDS Integers

FRAME_SIZE == 4096
PT_SIZE    == 512
PPN2_SIZE  == 67108864              \* 2^26
KILO_SIZE  == FRAME_SIZE
MEGA_SIZE  == 2097152
GIGA_SIZE  == 1073741824

KERNEL_SPACE == 0
USERSPACE    == 1
VRAM_SPACE_1 == 2
VRAM_SPACE_2 == 3

Index  == 0..PT_SIZE - 1
PPN2   == {n \in Nat : n < PPN2_SIZE}
Offset == 0..FRAME_SIZE - 1
GigaOffset == {n \in Nat : n < GIGA_SIZE}
\* The addresses of frames.  A physical address has 56 bits.
FrameAddress == {a \in Nat : a % FRAME_SIZE = 0 /\ a < GIGA_SIZE * PPN2_SIZE}
-----------------------------------------------------------------------------
(* Entries.  A bool is 0 or 1. *)

Bit == {0, 1}

page_table_entry ==
  [valid : Bit, read : Bit, write : Bit, exec : Bit,
   resU : Bit, resA : Bit, resD : Bit, reserved : Bit,
   ppn0 : Index, ppn1 : Index, ppn2 : PPN2]

\* create_page_table clears the frame it takes.
Cleared == [valid |-> 0, read |-> 0, write |-> 0, exec |-> 0,
            resU |-> 0, resA |-> 0, resD |-> 0, reserved |-> 0,
            ppn0 |-> 0, ppn1 |-> 0, ppn2 |-> 0]
create_page_table == [i \in Index |-> Cleared]

set_valid(pte) == [pte EXCEPT !.valid = 1, !.resA = 0, !.resU = 0,
                              !.resD = 0, !.reserved = 0]
set_invalid(pte) == [pte EXCEPT !.valid = 0]
set_access(pte, read, write, exec) ==
  [pte EXCEPT !.read = read, !.write = write, !.exec = exec]
set_user_mode(pte, user_mode) == [pte EXCEPT !.resU = user_mode]
set_ppn0(pte, ppn) == [pte EXCEPT !.ppn0 = ppn]
set_ppn1(pte, ppn) == [pte EXCEPT !.ppn1 = ppn]

is_leaf(pte) == pte.read = 1 \/ pte.exec = 1

\* The page number of address in three parts.
link_pte(pte, address) ==
  LET page == address \div FRAME_SIZE
  IN [pte EXCEPT !.ppn0 = page % PT_SIZE,
                 !.ppn1 = (page \div PT_SIZE) % PT_SIZE,
                 !.ppn2 = (page \div (PT_SIZE * PT_SIZE)) % PPN2_SIZE]

Sized(pte, page_size) ==
  CASE page_size = "GIGA" -> set_ppn1(set_ppn0(pte, 0), 0)
    [] page_size = "MEGA" -> set_ppn0(pte, 0)
    [] page_size = "KILO" -> pte

configure_page_entry(pte, address, read, write, exec, user_mode, page_size) ==
  LET open == set_user_mode(set_access(set_valid(pte), read, write, exec),
                            user_mode)
  IN Sized(link_pte(open, address), page_size)

\* An entry that leads to a table, the entry of a shared page, and the entry
\* shm_release leaves.
TableEntry(pte, table) ==
  configure_page_entry(pte, table, 0, 0, 0, 1, "KILO")
SharedEntry(pte, frame) ==
  configure_page_entry(pte, frame, 1, 1, 0, 1, "KILO")
ReleasedEntry(pte) ==
  configure_page_entry(set_invalid(pte), 0, 0, 0, 0, 0, "KILO")

\* The frame free_frames_indexed releases.
find_pte_adress(pte) ==
  pte.ppn2 * GIGA_SIZE + pte.ppn1 * MEGA_SIZE + pte.ppn0 * KILO_SIZE

\* What shm_create and shm_acquire return.
map_address_for_process(lvl2_index, lvl1_index, lvl0_index) ==
  lvl2_index * GIGA_SIZE + lvl1_index * MEGA_SIZE + lvl0_index * KILO_SIZE
-----------------------------------------------------------------------------
(* The directory of the kernel, on the two machines *)

KernelPage(index, exec) ==
  configure_page_entry(Cleared, index * GIGA_SIZE, 1, 1, exec, 0, "GIGA")

init_directory(virt) ==
  IF virt
  THEN [create_page_table EXCEPT ![KERNEL_SPACE] = KernelPage(KERNEL_SPACE, 1),
                                 ![VRAM_SPACE_1] = KernelPage(VRAM_SPACE_1, 1)]
  ELSE [create_page_table EXCEPT
          ![KERNEL_SPACE] = KernelPage(KERNEL_SPACE, 1),
          ![USERSPACE] = configure_page_entry(Cleared, USERSPACE * GIGA_SIZE,
                                              0, 0, 0, 1, "GIGA"),
          ![VRAM_SPACE_1] = KernelPage(VRAM_SPACE_1, 0),
          ![VRAM_SPACE_2] = KernelPage(VRAM_SPACE_2, 0)]

\* The gigabytes the kernel works in.
KernelSpaces(virt) ==
  {KERNEL_SPACE, VRAM_SPACE_1} \cup (IF virt THEN {} ELSE {VRAM_SPACE_2})
-----------------------------------------------------------------------------
(* The hardware's walk.  T is the memory, as far as it holds page tables:  *)
(* T[a] is the table in the frame at address a.                            *)

PageFault == -1

VPN2(va) == (va \div GIGA_SIZE) % PT_SIZE
VPN1(va) == (va \div MEGA_SIZE) % PT_SIZE
VPN0(va) == (va \div KILO_SIZE) % PT_SIZE
\* The table or page at an entry of the last two levels.
At(pte) == (pte.ppn0 + PT_SIZE * (pte.ppn1 + PT_SIZE * pte.ppn2)) * FRAME_SIZE

Level0(pte, va) ==
  IF pte.valid = 0 \/ ~is_leaf(pte) THEN PageFault ELSE At(pte) + (va % KILO_SIZE)

Level1(T, pte, va) ==
  IF pte.valid = 0 THEN PageFault
  ELSE IF is_leaf(pte)
  THEN IF pte.ppn0 # 0 THEN PageFault ELSE At(pte) + (va % MEGA_SIZE)
  ELSE Level0(T[At(pte)][VPN0(va)], va)

Level2(T, pte, va) ==
  IF pte.valid = 0 THEN PageFault
  ELSE IF is_leaf(pte)
  THEN IF pte.ppn0 # 0 \/ pte.ppn1 # 0 THEN PageFault
       ELSE At(pte) + (va % GIGA_SIZE)
  ELSE Level1(T, T[At(pte)][VPN1(va)], va)

Translate(T, root, va) == Level2(T, T[root][VPN2(va)], va)
==============================================================================
