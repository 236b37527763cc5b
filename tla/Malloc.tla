------------------------------- MODULE Malloc -------------------------------
(***************************************************************************)
(* The heap allocator of the C library, src/lib/stdlib/malloc.c, on top of *)
(* the kernel's and the user library's sbrk.  The kernel allocates its     *)
(* process, semaphore, queue and page-list structures with it; a user      *)
(* program gets a heap of its own.                                         *)
(*                                                                         *)
(* Sizes and addresses are bytes, and the constants of the algorithm are   *)
(* the ones of the build (SIZE_SZ 8, alignment 16, no mmap, contiguous     *)
(* MORECORE).  A heap h is a record with the fields of struct malloc_state *)
(* plus two: h.head, the boundary tags found in memory (the header of      *)
(* every physical chunk, by address), and h.curptr, sbrk's break.  Each C  *)
(* function is an operator from a heap to a heap; the doubly linked bins   *)
(* are sequences read from fd to bk, the single linked fastbins are        *)
(* sequences read from their head.  The header of a chunk swallowed by a   *)
(* neighbour is dropped: nothing may read it again.                        *)
(***************************************************************************)
EXTENDS ChunkSizes, Sequences, FiniteSets, TLC, SequencesExt

CONSTANTS
  HeapStart, HeapEnd, \* sbrk's bounds: _heap_start.._heap_end, HEAP..HEAP_END
  WORD                \* 2^64 in the build: sizes are unsigned below WORD

NULL    == 0
FAILURE == -1         \* MORECORE_FAILURE
UserData == -2        \* what the client left in a prev_size word it owns

REQUEST_OUT_OF_RANGE(req) == req >= WORD - 2 * MINSIZE
Unsorted == 1          \* unsorted_chunks(av) is bin 1
InitialTop == 1        \* av->top before the first sYSMALLOc: bin 1 itself,
                       \* a chunk of size 0 that lies in no heap
-----------------------------------------------------------------------------
(* Boundary tags *)

chunksize(h, p) == IF p \in {NULL, InitialTop} THEN 0 ELSE h.head[p].size
next_chunk(h, p) == p + h.head[p].size
prev_inuse(h, p) == h.head[p].prev_inuse
inuse(h, p) == prev_inuse(h, next_chunk(h, p))

\* The word before the header is not written with it.
KeptPrevSize(h, p) == IF p \in DOMAIN h.head THEN h.head[p].prev_size ELSE UserData
set_head(h, p, size, pinuse) ==
  [h EXCEPT !.head = (p :> [size |-> size, prev_inuse |-> pinuse,
                            prev_size |-> KeptPrevSize(h, p)]) @@ @]
set_head_size(h, p, size) == set_head(h, p, size, prev_inuse(h, p))
set_inuse_bit_at_offset(h, p, s) == [h EXCEPT !.head[p + s].prev_inuse = TRUE]
set_foot(h, p, s) == [h EXCEPT !.head[p + s].prev_size = s]

\* The header of p is inside another chunk from here on.
Forget(h, p) == [h EXCEPT !.head = [a \in DOMAIN @ \ {p} |-> @[a]]]

\* unlink(P, BK, FD): P leaves the bin it is linked in.
BinOf(h, p) == IF Contains(h.bins[Unsorted], p) THEN Unsorted
               ELSE bin_index(chunksize(h, p))
LeaveBin(h, p, b) == [h EXCEPT !.bins[b] = SelectSeq(@, LAMBDA q : q # p)]
unlink(h, p) == LeaveBin(h, p, BinOf(h, p))

\* Cut nb bytes off the front of p, whose size is given; the rest becomes a
\* chunk of its own, header only.
Cut(h, p, nb) ==
  set_head(set_head(h, p, nb, TRUE), p + nb, chunksize(h, p) - nb, TRUE)
-----------------------------------------------------------------------------
(* sbrk: both implementations refuse to move the break down *)

MORECORE(h, increment) ==
  LET c == h.curptr + increment IN
  IF c < h.curptr \/ c > HeapEnd THEN [h |-> h, ret |-> FAILURE]
  ELSE [h |-> [h EXCEPT !.curptr = c], ret |-> h.curptr]

sbrk(h, increment) == MORECORE(h, increment).h
-----------------------------------------------------------------------------
(* Initialisation and consolidation *)

\* struct malloc_state is static: all zeroes until malloc_init_state.
ZeroState ==
  [max_fast |-> 0, anychunks |-> FALSE, fastchunks |-> FALSE,
   fastbins |-> [i \in 0..NFASTBINS - 1 |-> <<>>],
   top |-> NULL, last_remainder |-> NULL,
   bins |-> [i \in 1..NBINS - 1 |-> <<>>], binmap |-> {},
   trim_threshold |-> 0, top_pad |-> 0,
   sbrked_mem |-> 0, max_sbrked_mem |-> 0,
   head |-> <<>>, curptr |-> HeapStart,
   wild |-> FALSE]   \* malloc_consolidate walked past the end of fastbins

set_max_fast(h, s) ==
  [h EXCEPT !.max_fast = IF s = 0 THEN SMALLBIN_WIDTH ELSE request2size(s)]

malloc_init_state(h) ==
  set_max_fast([h EXCEPT !.top_pad = 0, !.top = InitialTop,
                         !.trim_threshold = DEFAULT_TRIM_THRESHOLD],
               DEFAULT_MXFAST)

\* The consolidation shared by free and malloc_consolidate: p is merged with
\* the free chunk before it and the one after it, and goes to the front of
\* the unsorted bin, or is absorbed by top.
MergedBackward(h, p, prev) ==
  [h |-> Forget(unlink(h, prev), p), p |-> prev, size |-> next_chunk(h, p) - prev]

MergeBackward(h, p) ==
  IF prev_inuse(h, p) THEN [h |-> h, p |-> p, size |-> chunksize(h, p)]
  ELSE MergedBackward(h, p, p - h.head[p].prev_size)

MergedIntoTop(h, p, size) ==
  [size |-> size,
   h |-> [set_head(Forget(h, h.top), p, size, TRUE) EXCEPT !.top = p]]

PutInUnsorted(h, p, size) ==
  [size |-> size,
   h |-> set_foot(set_head([h EXCEPT !.bins[Unsorted] = <<p>> \o @],
                           p, size, TRUE), p, size)]

MergeForward(c, next, nextsize) ==
  IF next = c.h.top THEN MergedIntoTop(c.h, c.p, c.size + nextsize)
  ELSE IF prev_inuse(c.h, next + nextsize)
  THEN PutInUnsorted(set_head(c.h, next, nextsize, FALSE), c.p, c.size)
  ELSE PutInUnsorted(Forget(unlink(c.h, next), next), c.p, c.size + nextsize)

MergeNext(c) == MergeForward(c, c.p + c.size, chunksize(c.h, c.p + c.size))
Coalesce(h, p) == MergeNext(MergeBackward(h, p))

\* The fastbins are emptied up to the one of max_fast.  When max_fast is
\* SMALLBIN_WIDTH that index is (unsigned) -1 and the loop runs on past the
\* array.
malloc_consolidate(h) ==
  LET maxfb  == fastbin_index(h.max_fast)
      chunks == FlattenSeq([i \in 1..maxfb + 1 |-> h.fastbins[i - 1]])
      empty  == [h EXCEPT !.fastchunks = FALSE,
                   !.fastbins = [i \in DOMAIN @ |->
                                   IF i <= maxfb THEN <<>> ELSE @[i]]]
  IN CASE h.max_fast = 0 -> malloc_init_state(h)
       [] h.max_fast # 0 /\ maxfb < 0 -> [h EXCEPT !.wild = TRUE]
       [] OTHER -> FoldLeft(LAMBDA g, p : Coalesce(g, p).h, empty, chunks)

\* Gives whole pages at the end of top back to sbrk and then looks where the
\* break is: the result says whether anything was released.
sYSTRIm(pad, h) ==
  LET top_size == chunksize(h, h.top)
      extra    == ((top_size - pad - MINSIZE + pagesize - 1) \div pagesize - 1)
                    * pagesize
      current_brk == MORECORE(h, 0).ret
      h1       == sbrk(h, -extra)
      released == current_brk - MORECORE(h1, 0).ret
  IN IF extra > 0 /\ current_brk = h.top + top_size /\ released # 0
     THEN [ret |-> 1,
           h |-> set_head([h1 EXCEPT !.sbrked_mem = @ - released],
                          h.top, top_size - released, TRUE)]
     ELSE [ret |-> 0, h |-> h]
-----------------------------------------------------------------------------
(* free *)

TrimIfLarge(h) ==
  IF chunksize(h, h.top) >= h.trim_threshold THEN sYSTRIm(h.top_pad, h).h ELSE h

\* A large chunk c has been freed: time for the fastbins, and for top.
AfterCoalesce(c) ==
  IF c.size < FASTBIN_CONSOLIDATION_THRESHOLD THEN c.h
  ELSE TrimIfLarge(IF c.h.fastchunks THEN malloc_consolidate(c.h) ELSE c.h)

FreeChunk(h, p, size) ==
  IF size <= h.max_fast
  THEN [h EXCEPT !.fastchunks = TRUE, !.anychunks = TRUE,
                 !.fastbins[fastbin_index(size)] = <<p>> \o @]
  ELSE AfterCoalesce(Coalesce([h EXCEPT !.anychunks = TRUE], p))

fREe(h, mem) ==
  IF mem = NULL THEN h
  ELSE FreeChunk(h, mem2chunk(mem), chunksize(h, mem2chunk(mem)))
-----------------------------------------------------------------------------
(* malloc *)

Granted(h, p) == [h |-> h, mem |-> chunk2mem(p)]
Refused(h)    == [h |-> h, mem |-> NULL]

\* Split nb bytes off top.
SplitTop(h, nb) == Granted([Cut(h, h.top, nb) EXCEPT !.top = @ + nb], h.top)

\* Take nb bytes of the free chunk p, already out of its bin.  A remainder
\* becomes the only chunk of the unsorted bin, which the code knows is empty.
ExhaustOrSplit(h, p, nb) ==
  LET rest == chunksize(h, p) - nb
  IN IF rest < MINSIZE
     THEN set_inuse_bit_at_offset(h, p, chunksize(h, p))
     ELSE set_foot([Cut(h, p, nb) EXCEPT !.bins[Unsorted] = <<p + nb>>],
                   p + nb, rest)

PlaceInBin_Unmarked(h, p) ==   \* mutant: mark_bin is forgotten
  [h EXCEPT !.bins[bin_index(chunksize(h, p))] = Append(@, p)]

\* Place the chunk p, just removed from the unsorted bin, in its bin: in
\* front in a small bin, in decreasing order of size in a large one.  Sizes
\* in a bin carry the PREV_INUSE bit, so an equal size is also "smaller than
\* the smallest".
Position(h, bin, size) ==
  IF in_smallbin_range(size) \/ bin = <<>> THEN 1
  ELSE IF size <= chunksize(h, Last(bin)) THEN Len(bin) + 1
  ELSE Len(SelectSeq(bin, LAMBDA q : chunksize(h, q) > size)) + 1

EnterBin(h, p, b) ==
  [h EXCEPT !.bins[b] = InsertAt(@, Position(h, @, chunksize(h, p)), p),
            !.binmap = @ \cup {b}]

PlaceInBin(h, p) == EnterBin(h, p, bin_index(chunksize(h, p)))

\* The loop over the unsorted bin, from its back: it stops at a chunk it can
\* use, and puts every other one in its bin.
RECURSIVE SortUnsorted(_, _)
SortUnsorted(h, nb) ==
  LET victim == Last(h.bins[Unsorted])
      size   == chunksize(h, victim)
      h1     == [h EXCEPT !.bins[Unsorted] = Front(@)]
  IN CASE h.bins[Unsorted] = <<>> -> Refused(h)
       [] h.bins[Unsorted] # <<>> ->
            IF /\ in_smallbin_range(nb)
               /\ Len(h.bins[Unsorted]) = 1
               /\ victim = h.last_remainder
               /\ size > nb + MINSIZE
            THEN Granted([ExhaustOrSplit(h1, victim, nb)
                            EXCEPT !.last_remainder = victim + nb], victim)
            ELSE IF size = nb
                 THEN Granted(set_inuse_bit_at_offset(h1, victim, nb), victim)
                 ELSE SortUnsorted(PlaceInBin(h1, victim), nb)

\* The scan of the request's own large bin, from the smallest chunk.
ScanOwnBin(h, nb) ==
  LET bin == h.bins[largebin_index(nb)]
      i   == SelectLastInSeq(bin, LAMBDA q : chunksize(h, q) >= nb)
  IN IF in_smallbin_range(nb) \/ i = 0 THEN Refused(h)
     ELSE Granted(ExhaustOrSplit(unlink(h, bin[i]), bin[i], nb), bin[i])

\* The scan of the larger bins, guided by binmap: the bits of empty bins met
\* on the way are cleared.
ScanLargerBins(h, nb) ==
  LET marked == {i \in h.binmap : i > bin_index(nb)}
      full   == {i \in marked : h.bins[i] # <<>>}
      hit    == Min(full)
      victim == Last(h.bins[hit])
      passed == {i \in marked : full = {} \/ i < hit}
      h1     == [h EXCEPT !.binmap = @ \ passed]
      h2     == ExhaustOrSplit([h1 EXCEPT !.bins[hit] = Front(@)], victim, nb)
      split  == chunksize(h, victim) - nb >= MINSIZE
  IN IF full = {} THEN Refused(h1)
     ELSE Granted(IF split /\ in_smallbin_range(nb)
                  THEN [h2 EXCEPT !.last_remainder = victim + nb] ELSE h2,
                  victim)

RECURSIVE mALLOc(_, _)
RECURSIVE sYSMALLOc(_, _)

UseTop(h, nb) ==
  IF chunksize(h, h.top) >= nb + MINSIZE THEN SplitTop(h, nb)
  ELSE sYSMALLOc(h, nb)

\* Everything after the fastbins: the exact small bin, the unsorted bin, the
\* larger bins and top, in this order.
TryTop(r, nb) == IF r.mem # NULL THEN r ELSE UseTop(r.h, nb)
TryLargerBins(r, nb) ==
  IF r.mem # NULL THEN r ELSE TryTop(ScanLargerBins(r.h, nb), nb)
TryOwnBin(r, nb) ==
  IF r.mem # NULL THEN r ELSE TryLargerBins(ScanOwnBin(r.h, nb), nb)

TakeSmall(h, b, nb) ==
  Granted(set_inuse_bit_at_offset([h EXCEPT !.bins[b] = Front(@)],
                                  Last(h.bins[b]), nb), Last(h.bins[b]))

SearchBins(h, nb) ==
  IF in_smallbin_range(nb) /\ h.bins[smallbin_index(nb)] # <<>>
  THEN TakeSmall(h, smallbin_index(nb), nb)
  ELSE TryOwnBin(SortUnsorted(IF ~in_smallbin_range(nb) /\ h.fastchunks
                              THEN malloc_consolidate(h) ELSE h, nb), nb)

mALLOc(h, bytes) ==
  LET nb  == request2size(bytes)
      fb  == fastbin_index(nb)
  IN CASE REQUEST_OUT_OF_RANGE(bytes) -> Refused(h)
       [] ~REQUEST_OUT_OF_RANGE(bytes) /\ ~h.anychunks ->
            UseTop(IF h.max_fast = 0 THEN malloc_consolidate(h) ELSE h, nb)
       [] ~REQUEST_OUT_OF_RANGE(bytes) /\ h.anychunks ->
            IF nb <= h.max_fast /\ h.fastbins[fb] # <<>>
            THEN Granted([h EXCEPT !.fastbins[fb] = Tail(@)],
                         Head(h.fastbins[fb]))
            ELSE SearchBins(h, nb)

\* How much to ask of the system: enough for nb, the pad and a top chunk,
\* less what top already has, in whole pages.  The sum may pass the end of
\* the word; then too little is asked for, and FinishGrowth refuses.
Lacking(h, nb) == nb + h.top_pad + MINSIZE - chunksize(h, h.top)
SystemRequest(h, nb) == RoundUp(Lacking(h, nb) % WORD, pagesize)

\* The new space does not continue old_top: this is the first call, or sbrk
\* was called by others meanwhile.  Align its start, ask for what old_top
\* would have contributed and up to a page boundary, and close old_top with
\* two fenceposts.  sbrk never returns a lower address than before, so the
\* branches that call set_noncontiguous are never taken.
Skip(brk) == RoundUp(chunk2mem(brk), MALLOC_ALIGNMENT) - chunk2mem(brk)
Correction(end, ask) == ask + RoundUp(end + ask, pagesize) - (end + ask)

\* more is what sbrk said to the second request, of correction bytes.
SetTop(h, at, more, correction) ==
  IF more.ret = FAILURE
  THEN set_head([h EXCEPT !.top = at], at, MORECORE(h, 0).ret - at, TRUE)
  ELSE set_head([more.h EXCEPT !.sbrked_mem = @ + correction, !.top = at],
                at, more.ret + correction - at, TRUE)

KeptSize(old_size) ==
  ((old_size - 3 * SIZE_SZ) \div MALLOC_ALIGNMENT) * MALLOC_ALIGNMENT

WithFenceposts(h, old_top, kept) ==
  set_head(set_head(set_head(h, old_top, kept, TRUE),
                    old_top + kept, SIZE_SZ, TRUE),
           old_top + kept + SIZE_SZ, SIZE_SZ, TRUE)

\* What is left of old_top is freed, and nothing is trimmed meanwhile.
CloseOldTop(h, old_top, kept) ==
  IF kept < MINSIZE THEN h
  ELSE [fREe([h EXCEPT !.trim_threshold = WORD], chunk2mem(old_top))
          EXCEPT !.trim_threshold = h.trim_threshold]

NewTopAfter(h, old_top, old_size) ==
  IF old_size = 0 THEN h
  ELSE CloseOldTop(WithFenceposts(h, old_top, KeptSize(old_size)), old_top,
                   KeptSize(old_size))

Gap(h, brk) ==
  IF chunksize(h, h.top) = 0 THEN 0 ELSE brk - (h.top + chunksize(h, h.top))

NewTop(h, brk, size) ==
  LET ask == Skip(brk) + chunksize(h, h.top)
      correction == Correction(brk + size, ask)
      counted == [h EXCEPT !.sbrked_mem = @ + Gap(h, brk)]
  IN NewTopAfter(SetTop(counted, brk + Skip(brk), MORECORE(counted, correction),
                        correction),
                 h.top, chunksize(h, h.top))

\* size new bytes at brk: they extend top, or are the start of a new one.
ExtendTop(h0, brk, size) ==
  LET h == [h0 EXCEPT !.sbrked_mem = @ + size]
      old_size == chunksize(h, h.top)
  IN IF brk = h.top + old_size THEN set_head(h, h.top, size + old_size, TRUE)
     ELSE NewTop(h, brk, size)

\* The statistics are brought up to date and top is split, if it is enough.
FinishGrowth(h0, nb) ==
  LET h == [h0 EXCEPT !.max_sbrked_mem = Max({@, h0.sbrked_mem})]
  IN IF chunksize(h, h.top) >= nb + MINSIZE THEN SplitTop(h, nb)
     ELSE Refused(h)

\* Ask the system, unless the request is zero or negative as a long.
Grow(h, nb) ==
  LET size == SystemRequest(h, nb)
      more == MORECORE(h, size)
  IN IF size = 0 \/ size >= WORD \div 2 \/ more.ret = FAILURE THEN Refused(h)
     ELSE FinishGrowth(ExtendTop(more.h, more.ret, size), nb)

sYSMALLOc_NoRetry(h, nb) == Grow(h, nb)   \* mutant: fastbins are not emptied

\* What sits in fastbins may be enough: consolidate and start again first.
sYSMALLOc(h, nb) ==
  IF h.fastchunks
  THEN mALLOc(malloc_consolidate(h), nb - (MALLOC_ALIGNMENT - 1))
  ELSE Grow(h, nb)
-----------------------------------------------------------------------------
(* The other allocation functions.  "defined" counts the leading bytes of  *)
(* the returned block whose contents the function guarantees.              *)

UnrolledBytes_Short(n) ==   \* mutant: words 7 and 8 are left out
  IF n > 9 * SIZE_SZ THEN n
  ELSE SIZE_SZ * (3 + 2 * Cardinality({k \in {8} : n \div SIZE_SZ > k}))

\* Words 0..8 are copied or cleared one by one, two more at a time.
UnrolledBytes(n) ==
  IF n > 9 * SIZE_SZ THEN n
  ELSE SIZE_SZ * (3 + 2 * Cardinality({k \in {4, 6, 8} : n \div SIZE_SZ > k}))

TrimTail_Leaks(h, p, newsize, nb) ==   \* mutant: the tail is not freed
  IF newsize - nb < MINSIZE
  THEN set_inuse_bit_at_offset(set_head_size(h, p, newsize), p, newsize)
  ELSE set_inuse_bit_at_offset(
         set_head(set_head_size(h, p, nb), p + nb, newsize - nb, TRUE),
         p + nb, newsize - nb)

\* The end of rEALLOc: p, grown to newsize, keeps nb bytes.
TrimTail(h, p, newsize, nb) ==
  LET rest == newsize - nb
      h1 == set_head(set_head_size(h, p, nb), p + nb, rest, TRUE)
  IN IF rest < MINSIZE
     THEN set_inuse_bit_at_offset(set_head_size(h, p, newsize), p, newsize)
     ELSE fREe(set_inuse_bit_at_offset(h1, p + nb, rest), chunk2mem(p + nb))

GrowIntoTop(h, p, nb, both) ==
  set_head([set_head_size(Forget(h, h.top), p, nb) EXCEPT !.top = p + nb],
           p + nb, both - nb, TRUE)

InPlace(h, p, oldsize) ==
  [h |-> h, mem |-> chunk2mem(p), defined |-> oldsize - SIZE_SZ]

\* The last resort of rEALLOc: r is a new block.  It may happen to be the next
\* chunk, which is then merged; else the contents are copied.
MoveTo(r, p, oldsize, nb) ==
  IF r.mem = NULL THEN r
  ELSE IF mem2chunk(r.mem) = p + oldsize
  THEN InPlace(TrimTail(Forget(r.h, p + oldsize), p,
                        oldsize + chunksize(r.h, p + oldsize), nb), p, oldsize)
  ELSE [h |-> fREe(r.h, chunk2mem(p)), mem |-> r.mem,
        defined |-> UnrolledBytes(oldsize - SIZE_SZ)]

Expand(h, p, oldsize, next, nb) ==
  LET both == oldsize + chunksize(h, next)
  IN IF next = h.top /\ both >= nb + MINSIZE
     THEN InPlace(GrowIntoTop(h, p, nb, both), p, oldsize)
     ELSE IF next # h.top /\ ~inuse(h, next) /\ both >= nb
     THEN InPlace(TrimTail(Forget(unlink(h, next), next), p, both, nb), p, oldsize)
     ELSE MoveTo(mALLOc(h, nb - (MALLOC_ALIGNMENT - 1)), p, oldsize, nb)

ReallocChunk(h, p, oldsize, nb) ==
  IF oldsize >= nb THEN InPlace(TrimTail(h, p, oldsize, nb), p, oldsize)
  ELSE Expand(h, p, oldsize, p + oldsize, nb)

rEALLOc(h, oldmem, bytes) ==
  IF oldmem = NULL THEN mALLOc(h, bytes) @@ [defined |-> 0]
  ELSE IF REQUEST_OUT_OF_RANGE(bytes) THEN Refused(h)
  ELSE ReallocChunk(h, mem2chunk(oldmem), chunksize(h, mem2chunk(oldmem)),
                    request2size(bytes))

ClearChunk(r) ==
  IF r.mem = NULL THEN r
  ELSE r @@ [defined |-> UnrolledBytes(chunksize(r.h, mem2chunk(r.mem)) - SIZE_SZ)]

cALLOc(h, n_elements, elem_size) == ClearChunk(mALLOc(h, n_elements * elem_size))

\* The alignment memalign works with: a power of two, at least MINSIZE.
EffectiveAlignment(a) == Min({b \in {2^k : k \in 5..16} : b >= a})

\* What memalign asks of malloc.
PaddedRequest(alignment, bytes) ==
  (request2size(bytes) + EffectiveAlignment(alignment) + MINSIZE) % WORD

AlignedChunk(p, spot, a) == IF spot - p < MINSIZE THEN spot + a ELSE spot

GiveLeader(h, p, brk) ==
  LET newsize == next_chunk(h, p) - brk
      h1 == set_inuse_bit_at_offset(set_head(h, brk, newsize, TRUE), brk, newsize)
  IN fREe(set_head_size(h1, p, brk - p), chunk2mem(p))

GiveSpare(h, q, nb) ==
  IF chunksize(h, q) > nb + MINSIZE
  THEN fREe(set_head_size(set_head(h, q + nb, chunksize(h, q) - nb, TRUE), q, nb),
            chunk2mem(q + nb))
  ELSE h

\* The leader, if there is one, and the spare room at the end are given back.
GiveLeaderAndSpare(h, p, q, nb) ==
  Granted(GiveSpare(IF q = p THEN h ELSE GiveLeader(h, p, q), q, nb), q)

AlignIn(r, a, nb) ==
  IF r.mem = NULL THEN Refused(r.h)
  ELSE GiveLeaderAndSpare(r.h, mem2chunk(r.mem),
         IF r.mem % a = 0 THEN mem2chunk(r.mem)
         ELSE AlignedChunk(mem2chunk(r.mem), mem2chunk(RoundUp(r.mem, a)), a), nb)

mEMALIGn(h, alignment, bytes) ==
  IF alignment <= MALLOC_ALIGNMENT THEN mALLOc(h, bytes)
  ELSE IF REQUEST_OUT_OF_RANGE(bytes) THEN Refused(h)
  ELSE AlignIn(mALLOc(h, PaddedRequest(alignment, bytes)),
               EffectiveAlignment(alignment), request2size(bytes))

EnsureInit(h) == IF h.max_fast = 0 THEN malloc_consolidate(h) ELSE h

vALLOc(h, bytes) == mEMALIGn(EnsureInit(h), pagesize, bytes)
pVALLOc(h, bytes) ==
  mEMALIGn(EnsureInit(h), pagesize, RoundUp(bytes, pagesize))

\* The independent_ functions: one chunk for all the elements and, when the
\* caller brings no array, for the array of pointers behind them.
SumSizes(sizes) == FoldLeft(LAMBDA t, n : t + request2size(n), 0, sizes)
ArraySize(sizes, chunks) ==
  IF chunks THEN 0 ELSE request2size(Len(sizes) * SIZE_SZ)
AggregateRequest(sizes, chunks) ==
  SumSizes(sizes) + ArraySize(sizes, chunks) - (MALLOC_ALIGNMENT - 1)

\* n = 0: only the array, if any.
NoElements(r) ==
  [h |-> r.h, ok |-> r.mem # NULL,
   blocks |-> IF r.mem = NULL THEN {}
              ELSE {[mem |-> r.mem, size |-> 0, defined |-> 0]}]

\* The chunk p up to end becomes the elements and the array.
Divide(h, p, end, sizes, clear, chunks) ==
  LET n     == Len(sizes)
      At(i) == p + SumSizes(SubSeq(sizes, 1, i - 1))
      array == At(n + 1)
      upto  == IF clear THEN end - ArraySize(sizes, chunks) + SIZE_SZ ELSE p
      After(i) == IF i < n \/ ~chunks THEN At(i + 1) ELSE end
  IN [h |-> FoldLeft(LAMBDA g, i : set_head(g, At(i), After(i) - At(i), TRUE),
                     IF chunks THEN h ELSE set_head(h, array, end - array, TRUE),
                     [i \in 1..n |-> i]),
      ok |-> TRUE,
      blocks |->
        {[mem |-> chunk2mem(At(i)), size |-> sizes[i],
          defined |-> Max({0, Min({sizes[i], upto - chunk2mem(At(i))})})]
           : i \in 1..n}
        \cup IF chunks THEN {}
             ELSE {[mem |-> chunk2mem(array), size |-> n * SIZE_SZ,
                    defined |-> n * SIZE_SZ]}]

Aggregate(r, sizes, clear, chunks) ==
  IF r.mem = NULL THEN [h |-> r.h, ok |-> FALSE, blocks |-> {}]
  ELSE Divide(r.h, mem2chunk(r.mem), next_chunk(r.h, mem2chunk(r.mem)),
              sizes, clear, chunks)

IndependentElements(h, sizes, clear, chunks) ==
  CASE sizes = <<>> /\ chunks -> [h |-> h, ok |-> TRUE, blocks |-> {}]
    [] sizes = <<>> /\ ~chunks -> NoElements(mALLOc(h, 0))
    [] sizes # <<>> -> Aggregate(mALLOc(h, AggregateRequest(sizes, chunks)),
                                 sizes, clear, chunks)

iALLOc(h, sizes, clear, chunks) ==
  IndependentElements(EnsureInit(h), sizes, clear, chunks)

iCALLOc(h, n_elements, elem_size, chunks) ==
  iALLOc(h, [i \in 1..n_elements |-> elem_size], TRUE, chunks)
iCOMALLOc(h, sizes, chunks) == iALLOc(h, sizes, FALSE, chunks)

mTRIm(h, pad) == sYSTRIm(pad, malloc_consolidate(h)).h

mUSABLe(h, mem) ==
  IF mem # NULL /\ inuse(h, mem2chunk(mem))
  THEN chunksize(h, mem2chunk(mem)) - SIZE_SZ ELSE 0

mALLOPt(h, param_number, value) ==
  LET h1 == malloc_consolidate(h)
  IN CASE param_number = "M_MXFAST" /\ value \in 0..MAX_FAST_SIZE ->
            set_max_fast(h1, value)
       [] param_number = "M_TRIM_THRESHOLD" ->
            [h1 EXCEPT !.trim_threshold = value]
       [] param_number = "M_TOP_PAD" -> [h1 EXCEPT !.top_pad = value]
       [] OTHER -> h1

InFastbins(h) == UNION {Range(h.fastbins[i]) : i \in DOMAIN h.fastbins}
InBins(h)     == UNION {Range(h.bins[i]) : i \in DOMAIN h.bins}
TotalSize(h, chunks) ==
  FoldSet(LAMBDA p, t : t + chunksize(h, p), 0, chunks)

mALLINFo(h) ==
  LET fastavail == TotalSize(h, InFastbins(h))
      avail == chunksize(h, h.top) + fastavail + TotalSize(h, InBins(h))
  IN [smblks  |-> Cardinality(InFastbins(h)), fsmblks |-> fastavail,
      ordblks |-> 1 + Cardinality(InBins(h)), fordblks |-> avail,
      uordblks |-> h.sbrked_mem - avail, arena |-> h.sbrked_mem,
      keepcost |-> chunksize(h, h.top), usmblks |-> h.max_sbrked_mem]
-----------------------------------------------------------------------------
(* The checks malloc.c compiles when DEBUG is set *)

MaxAddress(h) == h.top + chunksize(h, h.top)

do_check_chunk(h, p) ==
  IF p # h.top
  THEN p >= MaxAddress(h) - h.sbrked_mem /\ next_chunk(h, p) <= h.top
  ELSE chunksize(h, p) >= MINSIZE /\ prev_inuse(h, p)

do_check_free_chunk(h, p) ==
  LET sz == chunksize(h, p)
      next == next_chunk(h, p)
  IN /\ do_check_chunk(h, p)
     /\ ~inuse(h, p)
     /\ IF sz < MINSIZE THEN sz = SIZE_SZ
        ELSE /\ sz % MALLOC_ALIGNMENT = 0
             /\ chunk2mem(p) % MALLOC_ALIGNMENT = 0
             /\ h.head[next].prev_size = sz
             /\ prev_inuse(h, p)
             /\ next = h.top \/ inuse(h, next)
             /\ p \in InBins(h)

do_check_inuse_chunk(h, p) ==
  LET next == next_chunk(h, p)
      prv  == p - h.head[p].prev_size
  IN /\ do_check_chunk(h, p)
     /\ inuse(h, p)
     /\ prev_inuse(h, p) \/ /\ prv \in DOMAIN h.head
                            /\ next_chunk(h, prv) = p
                            /\ do_check_free_chunk(h, prv)
     /\ IF next = h.top THEN prev_inuse(h, next) /\ chunksize(h, next) >= MINSIZE
        ELSE inuse(h, next) \/ do_check_free_chunk(h, next)

\* The chain of in-use chunks that follows a free chunk ends at top, at a
\* free chunk or at a fencepost.
FollowedByInuse(h, p) ==
  LET Regular(q) == q # h.top /\ chunksize(h, q) >= MINSIZE /\ inuse(h, q)
      After == {q \in DOMAIN h.head : q > p}
  IN \A q \in After : (\A x \in After : x <= q => Regular(x))
                        => do_check_inuse_chunk(h, q)

CheckFastbins(h) ==
  \A i \in DOMAIN h.fastbins :
    /\ i > fastbin_index(h.max_fast) => h.fastbins[i] = <<>>
    /\ \A p \in Range(h.fastbins[i]) :
         do_check_inuse_chunk(h, p) /\ fastbin_index(chunksize(h, p)) = i

CheckBin(h, i) ==
  LET bin == h.bins[i]
  IN /\ i >= 2 /\ i \notin h.binmap => bin = <<>>
     /\ \A k \in DOMAIN bin :
          /\ do_check_free_chunk(h, bin[k])
          /\ i >= 2 => bin_index(chunksize(h, bin[k])) = i
          /\ i >= 2 /\ k > 1 /\ ~in_smallbin_range(chunksize(h, bin[k]))
               => chunksize(h, bin[k - 1]) >= chunksize(h, bin[k])
          /\ FollowedByInuse(h, bin[k])

do_check_malloc_state(h) ==
  h.top \notin {NULL, InitialTop} =>
    /\ h.max_fast <= request2size(MAX_FAST_SIZE)
    /\ CheckFastbins(h)
    /\ InFastbins(h) # {} => h.fastchunks
    /\ \A i \in DOMAIN h.bins : CheckBin(h, i)
    /\ do_check_chunk(h, h.top)
    /\ TotalSize(h, InFastbins(h) \cup InBins(h)) <= h.max_sbrked_mem
    /\ h.sbrked_mem <= h.max_sbrked_mem
=============================================================================
