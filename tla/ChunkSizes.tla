----------------------------- MODULE ChunkSizes -----------------------------
(***************************************************************************)
(* The arithmetic of src/lib/stdlib/malloc.c: how large a chunk a request  *)
(* needs, and which bin holds the chunks of a size.  The constants are the *)
(* ones of the 64-bit build.                                               *)
(***************************************************************************)
EXTENDS Integers

SIZE_SZ          == 8
MALLOC_ALIGNMENT == 16
MINSIZE          == 32
pagesize         == 4096
NBINS            == 96
NSMALLBINS       == 32
MIN_LARGE_SIZE   == 256
MAX_FAST_SIZE    == 80
DEFAULT_MXFAST   == 64
SMALLBIN_WIDTH   == 8
DEFAULT_TRIM_THRESHOLD          == 262144
FASTBIN_CONSOLIDATION_THRESHOLD == DEFAULT_TRIM_THRESHOLD \div 2

RoundUp(n, a) == ((n + a - 1) \div a) * a

chunk2mem(p) == p + 2 * SIZE_SZ
mem2chunk(m) == m - 2 * SIZE_SZ

request2size_Floor(req) ==   \* mutant: rounds down
  IF req + SIZE_SZ < MINSIZE THEN MINSIZE
  ELSE ((req + SIZE_SZ) \div MALLOC_ALIGNMENT) * MALLOC_ALIGNMENT

request2size(req) ==
  IF req + SIZE_SZ + MALLOC_ALIGNMENT - 1 < MINSIZE THEN MINSIZE
  ELSE RoundUp(req + SIZE_SZ, MALLOC_ALIGNMENT)

\* The bin of a size: one per small size, four per power of two above.
\* largebin_index takes an unsigned int, so that only the low 32 bits of a
\* size count.  It finds the highest bit m of x = sz >> 8 without branches: it
\* shifts x left by 8, 4 and 2 as long as it is below a bound (in 32 bits,
\* x - bound wraps and has the wanted bit set exactly when x < bound), and m
\* is what is left of 13 and the two top bits.
in_smallbin_range(sz) == sz < MIN_LARGE_SIZE
smallbin_index(sz) == sz \div 8

Below(x, bound, n) == IF x < bound THEN n ELSE 0
Shifted(x, bound, factor) == IF x < bound THEN x * factor ELSE x
TopBits(x) == IF x \div 16384 = 3 THEN 2 ELSE x \div 16384

Nlz2(x, n) == 13 - (n + Below(x, 16384, 2)) + TopBits(Shifted(x, 16384, 4))
Nlz4(x, n) == Nlz2(Shifted(x, 4096, 16), n + Below(x, 4096, 4))
Nlz(x) == Nlz4(Shifted(x, 256, 256), Below(x, 256, 8))

Quarter(sz, m) == NSMALLBINS + 4 * m + ((sz \div 2^(m + 6)) % 4)

\* (unsigned int) sz >> SMALLBIN_WIDTH, which has 24 bits.
Unsigned8(sz) == (sz \div 256) % 16777216

largebin_index(sz) ==
  IF Unsigned8(sz) >= 65536 THEN NBINS - 1 ELSE Quarter(sz, Nlz(Unsigned8(sz)))

bin_index(sz) ==
  IF in_smallbin_range(sz) THEN smallbin_index(sz) ELSE largebin_index(sz)
fastbin_index(sz) == sz \div 8 - 2
NFASTBINS == fastbin_index(request2size(MAX_FAST_SIZE)) + 1
=============================================================================
