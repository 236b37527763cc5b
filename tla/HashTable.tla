------------------------------ MODULE HashTable ------------------------------
(***************************************************************************)
(* The generic hash table of src/lib/hash/hash.c: open addressing with the *)
(* probe order of CPython's dict, deleted slots, and a table that doubles  *)
(* and halves.  The kernel keeps its processes by pid, its semaphores by   *)
(* number and its shared pages by name in such tables.  The slots live in  *)
(* memory taken from mem_alloc, the guarded allocator at the end of        *)
(* malloc.c, which may be out of memory and which stops the kernel when a  *)
(* zone is returned twice or with another length than it was asked for.    *)
(***************************************************************************)
EXTENDS Integers, Sequences, FiniteSets, TLC, SequencesExt

CONSTANTS
  Keys, Values,
  Hash,         \* map->hfunc: Keys -> Nat; map->cmp is equality of keys
  Bindings,     \* bound: the <<key, value>> pairs that are set
  Default,      \* what hash_get is asked to return for an absent key
  MaxVain       \* bound: resizes in a row that fail for want of memory

ASSUME HashAssumption == Hash \in [Keys -> Nat]

HASH_MINSIZE == 8
NULL == 0       \* no zone: zones are numbered from 1

VARIABLES
  map,      \* the hash_t: fill, count, mask and table
  zones,    \* mem_alloc's live zones: zone -> length asked for
  membug,   \* mem_free called mem_bug
  answer,   \* what the last call returned
  vain      \* resizes that have failed since the last that did not

vars == <<map, zones, membug, answer, vain>>
-----------------------------------------------------------------------------
(* mem_alloc and mem_free *)

NewZone(zs) == Min({1, 2} \ DOMAIN zs)   \* there are never more than two
mem_alloc(zs, length) == NewZone(zs) :> length @@ zs

\* The guard words are gone after the first mem_free, and hold the length.
mem_bug(zs, zone, length) == zone \notin DOMAIN zs \/ zs[zone] # length

mem_free(zs, zone) == [z \in DOMAIN zs \ {zone} |-> zs[z]]
-----------------------------------------------------------------------------
(* Lookup *)

EmptySlot == [mode |-> "SL_EMPTY", key |-> NULL, value |-> NULL, hash |-> 0]
Size(m) == m.mask + 1

\* After 7 probes nothing is left of perturb (hashes are below 2^31 here), and
\* the size next ones visit every slot: a search that gets further never ends.
Longest(size) == 7 + size

\* Only the low bits of index matter, so it is kept modulo the size.
NextSlot(index, perturb, size) == (5 * index + perturb + 1) % size

RECURSIVE Search(_, _, _, _, _, _)
Search(m, key, index, perturb, freeslot, n) ==
  LET slot == m.table[index]
      Found == slot.mode = "SL_ACTIVE" /\ slot.key = key
      free  == IF slot.mode = "SL_DELETED" /\ freeslot = -1 THEN index
               ELSE freeslot
  IN IF n > Longest(Size(m)) THEN -1
     ELSE IF slot.mode = "SL_EMPTY"
     THEN IF freeslot = -1 THEN index ELSE freeslot
     ELSE IF Found THEN index
     ELSE Search(m, key, NextSlot(index, perturb, Size(m)), perturb \div 32,
                 free, n + 1)

\* The slot of key or, when it has none, the first deleted slot on the way or
\* the empty one that ended the search; -1 when the search does not end.
hash_lookup(m, key) == Search(m, key, Hash[key] % Size(m), Hash[key], -1, 0)
-----------------------------------------------------------------------------
(* Resizing *)

hash_initialize(size, zone) ==
  [fill |-> 0, count |-> 0, mask |-> size - 1, zone |-> zone,
   table |-> [i \in 0..size - 1 |-> EmptySlot]]

Inserted(m, slot) ==
  [m EXCEPT !.table[hash_lookup(m, slot.key)] = slot,
            !.fill = @ + 1, !.count = @ + 1]

hash_copy_FromOne(m, oldtable, oldsize) ==   \* mutant: the first slot is skipped
  FoldLeft(LAMBDA g, i : IF oldtable[i - 1].mode # "SL_ACTIVE" THEN g
                         ELSE Inserted(g, oldtable[i - 1]),
           m, [i \in 1..oldsize - 1 |-> i + 1])

hash_copy(m, oldtable, oldsize) ==
  FoldLeft(LAMBDA g, i : IF oldtable[i - 1].mode # "SL_ACTIVE" THEN g
                         ELSE Inserted(g, oldtable[i - 1]),
           m, [i \in 1..oldsize |-> i])

NewSize(m) ==
  IF 3 * m.fill >= 2 * Size(m) THEN 2 * Size(m)
  ELSE IF Size(m) > HASH_MINSIZE /\ 4 * m.count <= Size(m)
  THEN Size(m) \div 2 ELSE Size(m)

SLOT == 32   \* sizeof(hash_slot_t)

FreedLength_New(m) == NewSize(m) * SLOT   \* mutant: the new table's length
FreedLength(m) == Size(m) * SLOT

\* m is what the call has made of the table.  mem tells whether mem_alloc
\* finds memory.
hash_update(m, mem) ==
  LET size == NewSize(m)
      zs   == mem_alloc(zones, size * SLOT)
      new  == hash_copy(hash_initialize(size, NewZone(zones)),
                        m.table, Size(m))
  IN CASE size = Size(m) ->
            mem /\ map' = m /\ answer' = <<0>> /\ UNCHANGED <<zones, membug, vain>>
       [] size # Size(m) /\ ~mem ->
            /\ vain < MaxVain /\ vain' = vain + 1
            /\ map' = m /\ answer' = <<-1>> /\ UNCHANGED <<zones, membug>>
       [] size # Size(m) /\ mem ->
            /\ map' = new /\ answer' = <<0>>
            /\ membug' = (membug \/ mem_bug(zs, m.zone, FreedLength(m)))
            /\ zones' = mem_free(zs, m.zone)
            /\ vain' = 0
-----------------------------------------------------------------------------
(* The operations.  A table that has been destroyed has the zone NULL.     *)

Usable == map.zone # NULL

Destroyed == [fill |-> 0, count |-> 0, mask |-> 0, zone |-> NULL,
              table |-> [i \in {0} |-> EmptySlot]]

hash_init(mem) ==
  /\ map.zone = NULL
  /\ IF mem
     THEN /\ zones' = mem_alloc(zones, HASH_MINSIZE * SLOT)
          /\ map' = hash_initialize(HASH_MINSIZE, NewZone(zones))
     ELSE UNCHANGED <<map, zones>>
  /\ answer' = << >>
  /\ UNCHANGED <<membug, vain>>

hash_destroy ==
  /\ Usable
  /\ membug' = (membug \/ mem_bug(zones, map.zone, Size(map) * SLOT))
  /\ zones' = mem_free(zones, map.zone)
  /\ map' = Destroyed
  /\ answer' = << >>
  /\ vain' = 0

Active(key) == map.table[hash_lookup(map, key)].mode = "SL_ACTIVE"

hash_isset(key) ==
  /\ Usable /\ hash_lookup(map, key) # -1
  /\ answer' = <<IF Active(key) THEN 1 ELSE 0>>
  /\ UNCHANGED <<map, zones, membug, vain>>

hash_get(key) ==
  /\ Usable /\ hash_lookup(map, key) # -1
  /\ answer' = <<IF Active(key) THEN map.table[hash_lookup(map, key)].value
                 ELSE Default>>
  /\ UNCHANGED <<map, zones, membug, vain>>

\* A new key takes the slot at.
Taken(at, key, value) ==
  [map EXCEPT !.count = @ + 1,
              !.fill = IF map.table[at].mode = "SL_EMPTY" THEN @ + 1 ELSE @,
              !.table[at] = [mode |-> "SL_ACTIVE", key |-> key,
                             value |-> value, hash |-> Hash[key]]]

hash_set(key, value, mem) ==
  LET at == hash_lookup(map, key)
  IN /\ Usable /\ at # -1
     /\ IF Active(key)
        THEN /\ mem /\ map' = [map EXCEPT !.table[at].value = value]
             /\ answer' = <<0>> /\ UNCHANGED <<zones, membug, vain>>
        ELSE hash_update(Taken(at, key, value), mem)

Vacated_Emptied(at) ==   \* mutant: the slot is marked as never used
  [map EXCEPT !.count = @ - 1, !.fill = @ - 1, !.table[at] = EmptySlot]

Vacated(at) ==
  [map EXCEPT !.count = @ - 1,
              !.table[at] = [EmptySlot EXCEPT !.mode = "SL_DELETED"]]

hash_del(key, mem) ==
  LET at == hash_lookup(map, key)
  IN /\ Usable /\ at # -1
     /\ IF ~Active(key)
        THEN mem /\ answer' = <<0>> /\ UNCHANGED <<map, zones, membug, vain>>
        ELSE hash_update(Vacated(at), mem)

Init ==
  /\ zones = mem_alloc(<< >>, HASH_MINSIZE * SLOT)
  /\ map = hash_initialize(HASH_MINSIZE, 1)
  /\ membug = FALSE
  /\ answer = << >>
  /\ vain = 0

Next ==
  \/ \E b \in Bindings, mem \in BOOLEAN : hash_set(b[1], b[2], mem)
  \/ \E k \in Keys, mem \in BOOLEAN : hash_del(k, mem)
  \/ \E k \in Keys : hash_get(k) \/ hash_isset(k)
  \/ \E mem \in BOOLEAN : hash_init(mem)
  \/ hash_destroy

Spec == Init /\ [][Next]_vars
-----------------------------------------------------------------------------
Slots == DOMAIN map.table
Full(mode) == {i \in Slots : map.table[i].mode = mode}

\* fill and count are the numbers hash.h says they are, and the table is a
\* live zone of its own size.
TypeOK ==
  /\ map.count = Cardinality(Full("SL_ACTIVE"))
  /\ map.fill = map.count + Cardinality(Full("SL_DELETED"))
  /\ Slots = 0..map.mask
  /\ vain \in 0..MaxVain /\ membug \in BOOLEAN

\* Deleting, reusing deleted slots and resizing never leave an active key
\* where its own search does not find it, nor twice in the table.  The search
\* for a key that is not there ends at an empty slot: every failed resize
\* costs at most one of them, nothing else does, and a third is left.
EveryKeyFound ==
  /\ TypeOK
  /\ \A i \in Full("SL_ACTIVE") : hash_lookup(map, map.table[i].key) = i
  /\ Usable => 3 * map.fill < 2 * Size(map) + 3 * vain

\* mem_free finds the guard words and the length it expects, whatever
\* resizes failed, and no zone but the table's is live: nothing leaks.
NoMemBug ==
  /\ ~membug
  /\ zones = IF Usable THEN map.zone :> Size(map) * SLOT ELSE << >>

\* The dictionary that the table stands for.
Contents ==
  LET active == Full("SL_ACTIVE")
      SlotOf(k) == CHOOSE i \in active : map.table[i].key = k
  IN  [k \in {map.table[i].key : i \in active} |-> map.table[SlotOf(k)].value]
D == INSTANCE Dictionary WITH dict <- Contents

\* hash_set and hash_del report a failure although the key has been set or
\* deleted, when all that failed is the resize after it.
OnlyResizeFailed ==
  /\ vain' = vain + 1 /\ answer' = <<-1>>
  /\ \E k \in Keys : D!Unbound(k) \/ \E v \in Values : D!Bound(k, v)

\* The table is the dictionary hash.h promises, in which a set or delete that
\* returns 0 has been done and any other has not, except that a failed resize
\* makes a call that has done its work return -1.
ImplementsDictionary ==
  D!Init /\ [][D!Next \/ OnlyResizeFailed]_<<Contents, answer>>

\* hash_set and hash_del return 0 if they have succeeded (hash.h:89, 96), so
\* that nothing is done when they return -1: not so after a failed resize.
FailureChangesNothing == [][answer' = <<-1>> => Contents' = Contents]_vars
=============================================================================
