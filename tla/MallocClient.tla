---------------------------- MODULE MallocClient ----------------------------
(***************************************************************************)
(* A program (the kernel, or a user program on its own heap) that calls    *)
(* the allocator of Malloc in every legal way: it frees and resizes only   *)
(* blocks it holds, and it writes to every byte of a block it is given.    *)
(***************************************************************************)
EXTENDS Malloc

CONSTANTS
  Requests,     \* sizes asked of malloc, realloc and calloc
  OtherRequests,\* sizes asked of the less common functions
  Alignments,   \* alignments asked of memalign
  Options,      \* the <<parameter, value>> pairs given to mallopt
  Increments,   \* sbrk increments of the program's own calls to sbrk
  MaxLive,      \* bound: blocks held at a time
  MaxCalls,     \* bound: calls made in all
  MaxOther      \* bound: calls to anything but malloc and free

VARIABLES
  heap,    \* the malloc_state, the boundary tags and the break
  live,    \* ghost: the blocks the program holds
  failed,  \* ghost: bytes the last call asked of mALLOc in vain, or 0
  lost,    \* ghost: an independent_ function marked a free chunk as in use
  calls,   \* calls made so far, all of them and the less common ones
  others

vars == <<heap, live, failed, lost, calls, others>>

Init ==
  /\ heap = ZeroState
  /\ live = << >>
  /\ failed = 0
  /\ lost = FALSE
  /\ calls = 0
  /\ others = 0

\* The program fills the block at mem: its last word is the prev_size of the
\* next chunk.
Fill(h, mem) ==
  [h EXCEPT !.head[next_chunk(h, mem2chunk(mem))].prev_size = UserData]

Without(B, S) == [a \in DOMAIN B \ S |-> B[a]]

Block(size, align, defined) ==
  [size |-> size, align |-> align,
   defined |-> IF defined < size THEN defined ELSE size]

\* A call returns: r.mem is the new block, or NULL when need bytes were not
\* to be had.
Return(r, block, need, kept) ==
  /\ UNCHANGED lost
  /\ IF r.mem = NULL
     THEN heap' = r.h /\ live' = live /\ failed' = need
     ELSE /\ heap' = Fill(r.h, r.mem)
          /\ live' = (r.mem :> block) @@ kept
          /\ failed' = 0

Room == Cardinality(DOMAIN live) < MaxLive
Call == calls < MaxCalls /\ calls' = calls + 1 /\ UNCHANGED others
OtherCall ==
  /\ calls < MaxCalls /\ calls' = calls + 1
  /\ others < MaxOther /\ others' = others + 1

Need(bytes) == IF REQUEST_OUT_OF_RANGE(bytes) THEN WORD ELSE request2size(bytes)

Malloc(bytes) ==
  /\ Room /\ Call
  /\ Return(mALLOc(heap, bytes), Block(bytes, MALLOC_ALIGNMENT, 0),
            Need(bytes), live)

Free(mem) ==
  /\ Call
  /\ heap' = fREe(heap, mem)
  /\ live' = Without(live, {mem})
  /\ failed' = 0 /\ UNCHANGED lost

ReturnResized(mem, bytes, r) ==
  Return(r, Block(bytes, MALLOC_ALIGNMENT,
                  IF live[mem].size < r.defined THEN live[mem].size ELSE r.defined),
         Need(bytes), Without(live, {mem}))

Realloc(mem, bytes) ==
  OtherCall /\ ReturnResized(mem, bytes, rEALLOc(heap, mem, bytes))

ReturnCleared(bytes, r) ==
  Return(r, Block(bytes, MALLOC_ALIGNMENT, r.defined), Need(bytes), live)

Calloc(n, size) ==
  Room /\ OtherCall /\ ReturnCleared(n * size, cALLOc(heap, n, size))

Memalign(alignment, bytes) ==
  /\ Room /\ OtherCall
  /\ Return(mEMALIGn(heap, alignment, bytes),
            Block(bytes, IF alignment <= MALLOC_ALIGNMENT THEN MALLOC_ALIGNMENT
                         ELSE EffectiveAlignment(alignment), 0),
            Need(PaddedRequest(alignment, bytes)), live)

Valloc(bytes) ==
  /\ Room /\ OtherCall
  /\ Return(vALLOc(heap, bytes), Block(bytes, pagesize, 0),
            Need(PaddedRequest(pagesize, bytes)), live)

Pvalloc(bytes) ==
  /\ Room /\ OtherCall
  /\ LET whole == RoundUp(bytes, pagesize)
     IN Return(pVALLOc(heap, bytes), Block(whole, pagesize, 0),
               Need(PaddedRequest(pagesize, whole)), live)

\* The blocks of independent_calloc and independent_comalloc, each of which
\* may be freed on its own.
ReturnAll(r, need) ==
  LET new == [m \in {b.mem : b \in r.blocks} |->
                LET b == CHOOSE b \in r.blocks : b.mem = m
                IN Block(b.size, MALLOC_ALIGNMENT, b.defined)]
  IN /\ heap' = FoldSet(LAMBDA m, h : Fill(h, m), r.h, DOMAIN new)
     /\ live' = new @@ live
     /\ failed' = IF r.ok THEN 0 ELSE need
     /\ lost' = (lost \/ \E p \in InBins(heap') : inuse(heap', p))

IndependentCalloc(n, size, chunks) ==
  /\ Room /\ OtherCall
  /\ ReturnAll(iCALLOc(heap, n, size, chunks),
               Need(AggregateRequest([i \in 1..n |-> size], chunks)))

IndependentComalloc(sizes, chunks) ==
  /\ Room /\ OtherCall
  /\ ReturnAll(iCOMALLOc(heap, sizes, chunks),
               Need(AggregateRequest(sizes, chunks)))

\* malloc_trim, mallopt, mallinfo (which may initialise the allocator) and
\* an sbrk of the program's own leave the blocks alone.
KeepBlocks == live' = live /\ failed' = 0 /\ UNCHANGED lost

Trim(pad) == OtherCall /\ KeepBlocks /\ heap' = mTRIm(heap, pad)

Mallopt(param_number, value) ==
  OtherCall /\ KeepBlocks /\ heap' = mALLOPt(heap, param_number, value)

Mallinfo ==
  /\ OtherCall /\ KeepBlocks
  /\ heap' = IF heap.top = NULL THEN malloc_consolidate(heap) ELSE heap

ForeignSbrk(increment) ==
  OtherCall /\ KeepBlocks /\ heap' = sbrk(heap, increment)

Next ==
  \/ \E bytes \in Requests : Malloc(bytes)
  \/ \E mem \in DOMAIN live : Free(mem)
  \/ \E mem \in DOMAIN live, bytes \in Requests : Realloc(mem, bytes)
  \/ \E n \in 1..2, size \in OtherRequests : Calloc(n, size)
  \/ \E a \in Alignments, bytes \in OtherRequests : Memalign(a, bytes)
  \/ \E bytes \in OtherRequests : Valloc(bytes)
  \/ \E bytes \in OtherRequests : Pvalloc(bytes)
  \/ \E n \in 0..2, size \in OtherRequests, chunks \in BOOLEAN :
        IndependentCalloc(n, size, chunks)
  \/ \E a, b \in OtherRequests, chunks \in BOOLEAN :
        IndependentComalloc(<<a, b>>, chunks)
  \/ \E pad \in {0, pagesize} : Trim(pad)
  \/ \E o \in Options : Mallopt(o[1], o[2])
  \/ Mallinfo
  \/ \E inc \in Increments : ForeignSbrk(inc)

Spec == Init /\ [][Next]_vars
-----------------------------------------------------------------------------
Chunks == DOMAIN heap.head
Held   == {mem2chunk(m) : m \in DOMAIN live}
Fenceposts == {p \in Chunks : heap.head[p].size = SIZE_SZ}

\* The boundary tags, the break and the blocks have their types and ranges;
\* sbrk keeps the break inside the heap.
TypeOK ==
  /\ heap.top \in Chunks \cup {NULL, InitialTop}
  /\ \A p \in Chunks : /\ heap.head[p].size \in Nat
                       /\ heap.head[p].prev_inuse \in BOOLEAN
                       /\ heap.head[p].prev_size \in Nat \cup {UserData}
  /\ heap.curptr \in HeapStart..HeapEnd
  /\ \A m \in DOMAIN live : m \in HeapStart..HeapEnd
  /\ calls \in 0..MaxCalls /\ others \in 0..MaxOther

\* The checks the authors wrote for their own debugging, do_check_malloc_state
\* (malloc.c:2751), hold after every call, as long as no independent_ call has
\* overwritten the prev_inuse bit of a chunk recycled from a fastbin.
CheckMallocState == TypeOK /\ (lost \/ do_check_malloc_state(heap))

\* The same checks without exception: independent_calloc and
\* independent_comalloc break them.
CheckMallocStateAlways == do_check_malloc_state(heap)

\* No memory is lost and none is owned twice: every chunk is exactly one of
\* held by the program, in a fastbin, in a bin, top, or a fencepost, and the
\* chunks follow one another without holes up to top or a fencepost.  The
\* checks in malloc.c do not see a chunk that is in no list.  mallinfo's "in
\* use" figure is exactly what the program holds, until a foreign sbrk leaves
\* gaps and fenceposts, and never less.
ChunksAccounted ==
  LET roles == << Held, InFastbins(heap), InBins(heap), {heap.top},
                  Fenceposts >>
      uordblks == mALLINFo(heap).uordblks
      alone == heap.curptr - heap.sbrked_mem = HeapStart
  IN /\ ~heap.wild
     /\ Held \subseteq Chunks
     /\ \A p \in Chunks : Cardinality({k \in 1..5 : p \in roles[k]}) = 1
     /\ \A p \in Chunks \ ({heap.top} \cup Fenceposts) :
          next_chunk(heap, p) \in Chunks
     /\ heap.top \notin {NULL, InitialTop} =>
          /\ uordblks >= TotalSize(heap, Held)
          /\ alone /\ Fenceposts = {} => uordblks = TotalSize(heap, Held)

\* A block has the room asked for, and at most MINSIZE bytes more than its
\* request needs, through any sequence of splits, merges and resizes.
TightFit ==
  \A m \in DOMAIN live :
    /\ mUSABLe(heap, m) >= live[m].size
    /\ chunksize(heap, mem2chunk(m)) <= request2size(live[m].size) + MINSIZE

\* malloc gives up only when memory really is short: what sat in fastbins has
\* been consolidated, no free chunk would do, and sbrk cannot give the rest.
FailsOnlyWhenFull ==
  failed \notin {0, WORD} =>
    /\ InFastbins(heap) = {}
    /\ \A p \in InBins(heap) : chunksize(heap, p) < failed
    /\ heap.curptr + RoundUp(Lacking(heap, failed), pagesize) > HeapEnd

\* malloc.c is an allocator: its blocks are aligned, inside the heap and
\* disjoint, realloc keeps the contents, calloc clears, and no call touches a
\* block it was not given.
A == INSTANCE Allocator WITH blocks <- live, Lo <- HeapStart, Hi <- HeapEnd
ImplementsAllocator == A!Spec
=============================================================================
